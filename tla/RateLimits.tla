----------------------------- MODULE RateLimits -----------------------------
(***************************************************************************)
(* The fixed-window counters in Redis that protect the authentication      *)
(* routes and the uploads: AuthRateLimiterService.consume, called twice by *)
(* the controllers (the address, then the account or token), and           *)
(* AttachmentRateLimiterService.consume (the actor, then the workspace).   *)
(* Both count in the same store, RedisAuthRateLimitStore.                  *)
(*                                                                         *)
(* Time is relative: "ttl" counts down, "recent" remembers what each of    *)
(* the last Window ticks has let through.                                  *)
(***************************************************************************)
EXTENDS Naturals, FiniteSets

CONSTANTS
    Client,     \* each sending one request after the other
    Key,        \* Redis keys
    Plan,       \* the two keys that a client's requests consume, in order
    Limit,      \* per key
    Window      \* ticks that a counter lives

ASSUME RatesAssumption ==
    /\ Window \in Nat \ {0}
    /\ Limit \in [Key -> Nat] /\ Plan \in [Client -> [1..2 -> Key]]

VARIABLES
    count,      \* the counters, 0 where the key does not exist
    ttl,        \* ticks until the key expires, 0 where no expiry is set
    recent,     \* per key: requests let through in each of the last ticks
    stage       \* per client: 0 between requests, else the key it consumes

rateVars == <<count, ttl, recent, stage>>

RateInit ==
    /\ count = [k \in Key |-> 0]
    /\ ttl = [k \in Key |-> 0]
    /\ recent = [k \in Key |-> [t \in 1..Window |-> 0]]
    /\ stage = [r \in Client |-> 0]

(* Mutant: every request pushes the expiry out.                            *)
HitProlonging(k) ==
    /\ count' = [count EXCEPT ![k] = IF @ > Limit[k] THEN @ ELSE @ + 1]
    /\ ttl' = [ttl EXCEPT ![k] = Window]

-----------------------------------------------------------------------------
(* REDIS_FIXED_WINDOW_SCRIPT, one atomic step: the first request of a      *)
(* window starts its clock.  Above the limit the exact count is irrelevant.*)
Hit(k) == /\ count' = [count EXCEPT ![k] = IF @ > Limit[k] THEN @ ELSE @ + 1]
          /\ ttl' = IF count[k] = 0 THEN [ttl EXCEPT ![k] = Window] ELSE ttl

Allowed(k) == count[k] + 1 <= Limit[k]

(* The request goes on to its next key, or to the handler.                 *)
Pass(r, k) ==
    /\ stage' = [stage EXCEPT ![r] = IF @ = 1 THEN 2 ELSE 0]
    /\ recent' = [recent EXCEPT ![k][1] = @ + 1]

(* 429 or 503.                                                             *)
Refuse(r) == stage' = [stage EXCEPT ![r] = 0] /\ UNCHANGED recent

Enter(r) ==
    /\ stage[r] = 0
    /\ stage' = [stage EXCEPT ![r] = 1]
    /\ UNCHANGED <<count, ttl, recent>>

Consume(r) ==
    /\ stage[r] # 0
    /\ LET k == Plan[r][stage[r]] IN
       /\ Hit(k)
       /\ IF Allowed(k) THEN Pass(r, k) ELSE Refuse(r)

(* Mutant: a request that cannot be counted goes on.                       *)
StoreFailsOpen(r) ==
    /\ stage[r] # 0
    /\ Hit(Plan[r][stage[r]]) \/ UNCHANGED <<count, ttl>>
    /\ Pass(r, Plan[r][stage[r]])

(* Redis cannot be reached, or does not answer in 1.5 s, in which case it  *)
(* may have counted the request.                                           *)
StoreFails(r) ==
    /\ stage[r] # 0
    /\ Hit(Plan[r][stage[r]]) \/ UNCHANGED <<count, ttl>>
    /\ Refuse(r)

Elapse ==
    /\ ttl' = [k \in Key |-> IF ttl[k] = 0 THEN 0 ELSE ttl[k] - 1]
    /\ count' = [k \in Key |-> IF ttl[k] = 1 THEN 0 ELSE count[k]]
    /\ recent' = [k \in Key |-> [t \in 1..Window |-> IF t = 1 THEN 0 ELSE recent[k][t - 1]]]
    /\ UNCHANGED stage

RateNext == Elapse \/ \E r \in Client : Enter(r) \/ Consume(r) \/ StoreFails(r)

RateSpec == RateInit /\ [][RateNext]_rateVars

-----------------------------------------------------------------------------
(* The requests on key k that the last Window ticks have let through: the  *)
(* i-th of tick t is <<t, i>>.                                             *)
LetThrough(k) == UNION {{t} \X (1..recent[k][t]) : t \in 1..Window}

(* However the requests fall around the boundary of two windows, and       *)
(* whatever Redis loses, no stretch of one window's length lets more than  *)
(* twice the limit through.                                                *)
WindowBound == \A k \in Key : Cardinality(LetThrough(k)) <= 2 * Limit[k]

(* Whoever goes on knocking is not locked out for longer: a counter always *)
(* has an expiry, which requests never push out.                           *)
KeyReopens ==
    [][\A k \in Key : count[k] # 0 =>
          ttl[k] # 0 /\ (count'[k] = 0 \/ ttl'[k] <= ttl[k])]_rateVars
=============================================================================
