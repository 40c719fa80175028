--------------------------- MODULE SessionRotation ---------------------------
(***************************************************************************)
(* Refresh-token rotation of app/backend/src/auth: the AuthSession rows,   *)
(* the refresh handler of SessionService with every await between its      *)
(* database calls, logout, logout-all and the removal of dead rows.        *)
(*                                                                         *)
(* A second has several ticks: rows carry their deadlines to the tick, and *)
(* the exp claim of a token the last whole second before.                  *)
(***************************************************************************)
EXTENDS Integers

CONSTANTS
  Session,     \* ids of AuthSession rows (randomUUID: never reused)
  Request,     \* HTTP requests; each mints at most one refresh token
  User,
  None,        \* no row / nothing read yet
  Grace,       \* REFRESH_CONCURRENCY_GRACE_MS, in ticks
  Lifetime,    \* JWT_REFRESH_EXPIRES_IN, in ticks
  Retention,   \* SESSION_RETENTION_MS, in ticks
  Second,      \* a second, in ticks
  Skews,       \* offsets of the API instances' clocks from the database's
  MaxClock     \* bound: the last tick explored

ASSUME IdsAssumption == Session \cap Request = {}
ASSUME TimeAssumption == /\ Grace \in Nat
                         /\ Lifetime \in Nat
                         /\ Retention \in Nat
                         /\ Second \in Nat \ {0}
                         /\ MaxClock \in Nat
                         /\ Skews \subseteq Int

VARIABLES
  clock,       \* the database's clock
  sessions,    \* AuthSession rows
  issued,      \* refresh tokens that were returned to some client
  pc,          \* per request: the await it is suspended at, or its answer
  token,       \* per request: the refresh token it presented
  skew,        \* per request: clock offset of the instance serving it
  seen,        \* per request: the row its last read returned
  now,         \* per request: its last `new Date()`
  tries,       \* per request: conditional revocations that updated no row
  scope        \* history: sessions a logout must leave dead

vars == <<clock, sessions, issued, pc, token, skew, seen, now, tries, scope>>

(***************************************************************************)
(* A token is its claims; jti makes two tokens (and their SHA-256 hashes)  *)
(* different.  The stored hash is modelled by the token it digests.        *)
(***************************************************************************)
Token == [jti : Session \cup Request, sid : Session, sub : User, exp : Int]
Row == [user : User, hash : Token, expiresAt : Int, lastUsedAt : Int, revoked : BOOLEAN]

ASSUME NoneAssumption == None \notin Row /\ None \notin Token

Answers == {"ok", "conflict", "replay", "unauthorized", "unavailable", "loggedOut"}
Pending == {"find", "found", "rotate", "reread", "reseen", "revoke", "revokeAll"}

TypeOK ==
  /\ clock \in Nat
  /\ sessions \in [Session -> Row \cup {None}]
  /\ issued \subseteq Token
  /\ pc \in [Request -> {"idle"} \cup Pending \cup Answers]
  /\ token \in [Request -> Token \cup {None}]
  /\ skew \in [Request -> Int]
  /\ seen \in [Request -> Row \cup {None}]
  /\ now \in [Request -> Int]
  /\ tries \in [Request -> 0..2]
  /\ scope \in [Request -> SUBSET Session]

Init ==
  /\ clock = 0
  /\ sessions = [s \in Session |-> None]
  /\ issued = {}
  /\ pc = [r \in Request |-> "idle"]
  /\ token = [r \in Request |-> None]
  /\ skew = [r \in Request |-> 0]
  /\ seen = [r \in Request |-> None]
  /\ now = [r \in Request |-> 0]
  /\ tries = [r \in Request |-> 0]
  /\ scope = [r \in Request |-> {}]

Clock(r) == clock + skew[r]

\* Math.floor of a time in seconds, as the instant it stands for.
WholeSecond(at) == at - (at % Second)

\* issue() throws the 401 of an invalid token when the current second is the
\* deadline's.
Issuable(expiresAt, at) == WholeSecond(expiresAt) > WholeSecond(at)

\* Mutants of Dead: one that overlooks a revocation, one that takes a superseded
\* token for an invalid one.
DeadUnlessRevoked(row, t, at) ==
  row = None \/ row.user # t.sub \/ row.expiresAt <= at
DeadIfSuperseded(row, t, at) ==
  row = None \/ row.user # t.sub \/ row.revoked \/ row.expiresAt <= at \/ row.hash # t

\* The row is missing, foreign to the token, revoked or past its expiry.
Dead(row, t, at) ==
  \/ row = None
  \/ row.user # t.sub
  \/ row.revoked
  \/ row.expiresAt <= at

Live(s, at) == sessions[s] # None /\ ~sessions[s].revoked /\ sessions[s].expiresAt > at

\* classifyRefreshReuse
Classify(lastUsedAt, at) ==
  IF at - lastUsedAt < 0 THEN "UNCLASSIFIABLE"
  ELSE IF at - lastUsedAt <= Grace THEN "CONCURRENCY_CONFLICT" ELSE "REPLAY"

\* Mutant: a concurrent refresh looks again instead of answering.
AfterClassifyRetrying(class) ==
  CASE class = "CONCURRENCY_CONFLICT" -> "reread"
    [] class = "UNCLASSIFIABLE" -> "unavailable"
    [] OTHER -> "revoke"

\* Where rejectStaleRefresh goes after classifying an observed row.
AfterClassify(class) ==
  CASE class = "CONCURRENCY_CONFLICT" -> "conflict"
    [] class = "UNCLASSIFIABLE" -> "unavailable"
    [] OTHER -> "revoke"

\* A login, a signup or a Google callback inserts a session and returns its
\* token.  lastUsedAt is left to the column's default now(), which the database
\* or the client library fills in, each by its own clock.
CreateSession(s, u, k) ==
  LET end == clock + k + Lifetime
      t == [jti |-> s, sid |-> s, sub |-> u, exp |-> WholeSecond(end)]
  IN
  /\ sessions[s] = None
  /\ Issuable(end, clock + k)
  /\ \A old \in issued : old.sid # s
  /\ \E at \in {clock, clock + k} :
       sessions' = [sessions EXCEPT ![s] = [user |-> u, hash |-> t, expiresAt |-> end,
                                            lastUsedAt |-> at, revoked |-> FALSE]]
  /\ issued' = issued \cup {t}
  /\ UNCHANGED <<clock, pc, token, skew, seen, now, tries, scope>>

\* Any token ever returned may be presented, any number of times and at any
\* moment: by another tab, by a late or repeated request, or by a thief.
\* verify() rejects it from the second of its exp claim on.
StartRefresh(r, t, k) ==
  /\ pc[r] = "idle"
  /\ token' = [token EXCEPT ![r] = t]
  /\ skew' = [skew EXCEPT ![r] = k]
  /\ now' = [now EXCEPT ![r] = clock + k]
  /\ pc' = [pc EXCEPT ![r] = IF t.exp <= WholeSecond(clock + k) THEN "unauthorized" ELSE "find"]
  /\ UNCHANGED <<clock, sessions, issued, seen, tries, scope>>

\* authSession.findUnique answers.
FindSession(r) ==
  /\ pc[r] = "find"
  /\ seen' = [seen EXCEPT ![r] = sessions[token[r].sid]]
  /\ pc' = [pc EXCEPT ![r] = "found"]
  /\ UNCHANGED <<clock, sessions, issued, token, skew, now, tries, scope>>

\* The code between the read and the next await: take the time, refuse a dead
\* row, classify a superseded token, or sign the successor, unless the session is
\* in its last second.
JudgeSession(r) ==
  /\ pc[r] = "found"
  /\ now' = [now EXCEPT ![r] = Clock(r)]
  /\ pc' = [pc EXCEPT ![r] =
       IF Dead(seen[r], token[r], Clock(r)) THEN "unauthorized"
       ELSE IF seen[r].hash = token[r]
       THEN IF Issuable(seen[r].expiresAt, Clock(r)) THEN "rotate" ELSE "unauthorized"
       ELSE AfterClassify(Classify(seen[r].lastUsedAt, Clock(r)))]
  /\ UNCHANGED <<clock, sessions, issued, token, skew, seen, tries, scope>>

\* Mutants: the where clause without the hash, and without revokedAt.
RotatableAnyHash(row, observed, at) ==
  row # None /\ row.user = observed.user /\ ~row.revoked /\ row.expiresAt > at
RotatableRevoked(row, observed, at) ==
  row # None /\ row.user = observed.user /\ row.hash = observed.hash /\ row.expiresAt > at

\* The rotating updateMany's where clause, against the row as it is now.
Rotatable(row, observed, at) ==
  /\ row # None
  /\ row.user = observed.user
  /\ row.hash = observed.hash
  /\ ~row.revoked
  /\ row.expiresAt > at

\* Mutant: the successor is signed without a jti of its own.
SuccessorSameId(r) == [token[r] EXCEPT !.exp = WholeSecond(seen[r].expiresAt)]

\* The token signed for the observed session, its lifetime capped by the row's.
Successor(r) == [token[r] EXCEPT !.jti = r, !.exp = WholeSecond(seen[r].expiresAt)]

Rotate(r) ==
  LET s == token[r].sid
      next == Successor(r)
  IN
  /\ pc[r] = "rotate"
  /\ IF Rotatable(sessions[s], seen[r], now[r])
     THEN /\ sessions' = [sessions EXCEPT ![s].hash = next, ![s].lastUsedAt = now[r]]
          /\ issued' = issued \cup {next}
          /\ pc' = [pc EXCEPT ![r] = "ok"]
     ELSE /\ pc' = [pc EXCEPT ![r] = "reread"]
          /\ UNCHANGED <<sessions, issued>>
  /\ UNCHANGED <<clock, token, skew, seen, now, tries, scope>>

\* readObservedSession, after a lost rotation or a lost revocation.
RereadSession(r) ==
  /\ pc[r] = "reread"
  /\ seen' = [seen EXCEPT ![r] = sessions[token[r].sid]]
  /\ pc' = [pc EXCEPT ![r] = "reseen"]
  /\ UNCHANGED <<clock, sessions, issued, token, skew, now, tries, scope>>

\* Expiry is judged by the old `now`, the reuse by a fresh one.  After the
\* second lost revocation the request gives up.
JudgeReread(r) ==
  /\ pc[r] = "reseen"
  /\ IF Dead(seen[r], token[r], now[r])
     THEN pc' = [pc EXCEPT ![r] = "unauthorized"] /\ UNCHANGED now
     ELSE IF tries[r] = 2
     THEN pc' = [pc EXCEPT ![r] = "unavailable"] /\ UNCHANGED now
     ELSE /\ pc' = [pc EXCEPT ![r] = AfterClassify(Classify(seen[r].lastUsedAt, Clock(r)))]
          /\ now' = [now EXCEPT ![r] = Clock(r)]
  /\ UNCHANGED <<clock, sessions, issued, token, skew, seen, tries, scope>>

\* Mutant: the revocation of whatever row there is now.
RevocableAnyRow(row, observed, at) == row # None /\ ~row.revoked /\ row.expiresAt > at

\* The revoking updateMany's where clause.
Revocable(row, observed, at) ==
  /\ Rotatable(row, observed, at)
  /\ row.lastUsedAt = observed.lastUsedAt

RevokeReplay(r) ==
  LET s == token[r].sid IN
  /\ pc[r] = "revoke"
  /\ IF Revocable(sessions[s], seen[r], now[r])
     THEN /\ sessions' = [sessions EXCEPT ![s].revoked = TRUE]
          /\ pc' = [pc EXCEPT ![r] = "replay"]
          /\ UNCHANGED tries
     ELSE /\ pc' = [pc EXCEPT ![r] = "reread"]
          /\ tries' = [tries EXCEPT ![r] = @ + 1]
          /\ UNCHANGED sessions
  /\ UNCHANGED <<clock, issued, token, skew, seen, now, scope>>

Revoked(S) == [s \in Session |-> IF s \in S /\ sessions[s] # None
                                 THEN [sessions[s] EXCEPT !.revoked = TRUE] ELSE sessions[s]]

\* revokeFromToken: neither the token's expiry nor its being current matters.
Logout(r, t) ==
  /\ pc[r] = "idle"
  /\ token' = [token EXCEPT ![r] = t]
  /\ scope' = [scope EXCEPT ![r] = {t.sid}]
  /\ sessions' = Revoked({s \in Session : s = t.sid /\ sessions[s] # None /\ sessions[s].user = t.sub})
  /\ pc' = [pc EXCEPT ![r] = "loggedOut"]
  /\ UNCHANGED <<clock, issued, skew, seen, now, tries>>

SessionsOf(u) == {s \in Session : sessions[s] # None /\ sessions[s].user = u}

\* AuthGuard (findActivePublicUser) in front of logout-all: the access token
\* was issued together with refresh token t and names the same session.
StartLogoutAll(r, t, k) ==
  /\ pc[r] = "idle"
  /\ token' = [token EXCEPT ![r] = t]
  /\ skew' = [skew EXCEPT ![r] = k]
  /\ now' = [now EXCEPT ![r] = clock + k]
  /\ scope' = [scope EXCEPT ![r] = SessionsOf(t.sub)]
  /\ pc' = [pc EXCEPT ![r] = IF Dead(sessions[t.sid], t, clock + k)
                             THEN "unauthorized" ELSE "revokeAll"]
  /\ UNCHANGED <<clock, sessions, issued, seen, tries>>

\* Mutant: only the session the request came with.
RevokeAllOwn(r) ==
  /\ pc[r] = "revokeAll"
  /\ sessions' = Revoked({token[r].sid})
  /\ pc' = [pc EXCEPT ![r] = "loggedOut"]
  /\ UNCHANGED <<clock, issued, token, skew, seen, now, tries, scope>>

RevokeAll(r) ==
  /\ pc[r] = "revokeAll"
  /\ sessions' = Revoked(SessionsOf(token[r].sub))
  /\ pc' = [pc EXCEPT ![r] = "loggedOut"]
  /\ UNCHANGED <<clock, issued, token, skew, seen, now, tries, scope>>

\* Mutant: a cleanup without retention.
CleanupAtExpiry(s) ==
  /\ sessions[s] # None
  /\ sessions[s].expiresAt <= clock
  /\ sessions' = [sessions EXCEPT ![s] = None]
  /\ UNCHANGED <<clock, issued, pc, token, skew, seen, now, tries, scope>>

\* SessionCleanupService removes rows whose expiry is Retention in the past.
Cleanup(s) ==
  /\ sessions[s] # None
  /\ sessions[s].expiresAt <= clock - Retention
  /\ sessions' = [sessions EXCEPT ![s] = None]
  /\ UNCHANGED <<clock, issued, pc, token, skew, seen, now, tries, scope>>

Tick ==
  /\ clock < MaxClock
  /\ clock' = clock + 1
  /\ UNCHANGED <<sessions, issued, pc, token, skew, seen, now, tries, scope>>

\* The steps a handler takes on its own once its database call has answered.
Handle(r) ==
  \/ FindSession(r)
  \/ JudgeSession(r)
  \/ Rotate(r)
  \/ RereadSession(r)
  \/ JudgeReread(r)
  \/ RevokeReplay(r)
  \/ RevokeAll(r)

Next ==
  \/ \E s \in Session, u \in User, k \in Skews : CreateSession(s, u, k)
  \/ \E r \in Request, t \in issued, k \in Skews : StartRefresh(r, t, k)
  \/ \E r \in Request, t \in issued : Logout(r, t)
  \/ \E r \in Request, t \in issued, k \in Skews : StartLogoutAll(r, t, k)
  \/ \E r \in Request : Handle(r)
  \/ \E s \in Session : Cleanup(s)
  \/ Tick

Spec == Init /\ [][Next]_vars

\* A pending database call is answered and its handler resumed.
FairSpec == Spec /\ \A r \in Request : WF_vars(Handle(r))

-----------------------------------------------------------------------------
Refreshed(r) == pc[r] = "ok"
Spent(t) == \E r \in Request : Refreshed(r) /\ token[r] = t

\* Refresh tokens are one-time-use: of all the requests that ever present the
\* same token, at most one is answered with a successor.
OneSuccessorPerToken ==
  \A q, r \in Request : Refreshed(q) /\ Refreshed(r) /\ token[q] = token[r] => q = r

\* rejectStaleRefresh only ever runs against a token another request has already
\* rotated: the holder of the current token is never told 409, never told 503 and
\* never has its session revoked as a replay, however its request is delayed.
OnlySpentTokensRejected ==
  \A r \in Request :
    pc[r] \in {"revoke", "replay", "conflict", "unavailable"} => Spent(token[r])

\* A session revoked as a replay carries the rotation that was judged: its last
\* use lies more than the grace window before the reading of the clock that
\* condemned it, so a stale observation cannot kill a newer rotation.
ReplayEvidence ==
  \A r \in Request :
    pc[r] = "replay" /\ sessions[token[r].sid] # None =>
      /\ sessions[token[r].sid].revoked
      /\ now[r] - sessions[token[r].sid].lastUsedAt > Grace

\* 401 is what the frontend takes for a definitive sign-out: it is answered only
\* when the session is gone, revoked, or expires less than a second after the
\* request last looked at its clock.  The second is the rounding of exp: the row
\* may outlive the claim of its tokens by a fraction of it.
UnauthorizedMeansDead ==
  \A r \in Request : pc[r] = "unauthorized" => ~Live(token[r].sid, now[r] + Second - 1)

\* Rotation never locks the user out: the token a live session accepts is one
\* that was returned to a client and that no request has consumed.
CurrentTokenUsable ==
  \A s \in Session :
    sessions[s] # None => sessions[s].hash \in issued /\ ~Spent(sessions[s].hash)

\* Logout and logout-all win every race: once answered, the sessions they cover
\* are dead, whatever refreshes were in flight, and stay so.
LogoutFinal ==
  \A r \in Request : pc[r] = "loggedOut" =>
    \A s \in scope[r] : sessions[s] = None \/ sessions[s].revoked

\* A revoked row is frozen until cleanup removes it, and an id is never reused:
\* no interleaving of rotations revives a session.
RevocationFinal ==
  [][\A s \in Session :
       /\ sessions[s] # None /\ sessions[s].revoked => sessions'[s] \in {sessions[s], None}
       /\ sessions[s] = None /\ (\E t \in issued : t.sid = s) => sessions'[s] = None]_vars

\* The absolute expiry bounds everything: no step extends it, and a row is
\* removed only when even the slowest API clock takes it for expired.
ExpiryAbsolute ==
  [][\A s \in Session : sessions[s] # None =>
       IF sessions'[s] = None
       THEN \A k \in Skews : ~Live(s, clock + k)
       ELSE sessions'[s].expiresAt = sessions[s].expiresAt]_vars

\* What the contract sees of a session, of the tokens and of a request: the rows
\* and the suspended handlers are hidden.
StatusOf(s) ==
  IF sessions[s] # None THEN IF sessions[s].revoked THEN "closed" ELSE "open"
  ELSE IF \E t \in issued : t.sid = s THEN "closed" ELSE "unused"
Statuses == [s \in Session |-> StatusOf(s)]
SpentTokens == {t \in issued : Spent(t)}
Answered == [r \in Request |-> IF pc[r] \in Answers THEN pc[r] ELSE "none"]

\* The atomic contract: the handler's database calls take effect as if each
\* request were one step.
Contract == INSTANCE RefreshContract WITH
  status <- Statuses, spent <- SpentTokens, asked <- token, answer <- Answered

\* SessionService implements the contract: its answers are those of a service
\* that handles every request in a single indivisible step.
ImplementsContract == Contract!Spec

\* Every refresh is answered: the re-read / re-classify loop is bounded.
RefreshAnswered == \A r \in Request : pc[r] \in Pending ~> pc[r] \in Answers
=============================================================================
