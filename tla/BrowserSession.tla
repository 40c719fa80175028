--------------------------- MODULE BrowserSession ---------------------------
(* The tabs of one browser, their auth stores, and the requests by which   *)
(* they share a refresh cookie: frontend features/auth/auth-store.ts,      *)
(* auth-session-coordinator.ts, api/auth-api.ts and the two route guards.  *)
(*                                                                         *)
(* A session stands for every access token issued for it, since the API    *)
(* looks the session up on each request. A refresh token is the session    *)
(* and whether it still is the one that session accepts: `fresh` ends for  *)
(* every copy when the session is rotated. The API is what SessionRotation *)
(* shows it to be, one indivisible step per request. What runs in the same *)
(* turn of a tab's event loop, promise reactions included, is one step; so *)
(* are the end of a lock's callback and the publication that follows it.   *)
EXTENDS FiniteSets, Naturals

CONSTANTS Tab,          \* open pages of the origin
          Session,      \* sessions that may ever be created
          Earlier,      \* the sessions that may be left from an earlier visit
          Owner,        \* Owner[s]: the user of session s
          May,          \* May[t]: what the user of a tab does: "login", "logout", "logoutAll", "ask"
          WebLocks,     \* whether navigator.locks exists
          Faults,       \* what may go wrong: "network", "expiry", "reload"
          MaxRetries,   \* REFRESH_CONFLICT_MAX_RETRIES
          MaxInbox,     \* bound: invalidations waiting at one tab
          MaxFailures,  \* bound: failures of the network and reloads
          None

Caller == {"transition", "command"}   \* refreshTransitionPromise; a logout of the user's
Status == {"loading", "authenticated", "unauthenticated", "recoverable-error"}
RefreshToken == [session : Session, fresh : BOOLEAN]
Kind == {"refresh", "logout", "logoutAll", "logoutAllAgain"}
Reply == {"none", "ok", "unauthorized", "conflict", "error"}
TabState == [status : Status, user : {Owner[s] : s \in Session} \cup {None},
             token : Session \cup {None}]
CallState == [pc : {"idle", "queued", "flight", "answered"}, kind : Kind, try : 0..MaxRetries,
              sent : RefreshToken \cup Session \cup {None}, reply : Reply,
              got : RefreshToken \cup {None}]
Validation == [pc : {"idle", "flight", "answered"}, session : Session \cup {None},
               overtaken : BOOLEAN, reply : Reply]

ASSUME SessionAssumption == None \notin Session /\ Earlier \subseteq Session
ASSUME HolderAssumption == None \notin Tab \X Caller
ASSUME BoundsAssumption == MaxRetries \in Nat /\ MaxInbox \in Nat /\ MaxFailures \in Nat

VARIABLES alive,    \* sessions the API accepts
          used,     \* sessions ever created
          cookie,   \* the refresh cookie, shared by all tabs
          lock,     \* the holder of the Web Lock, <<tab, caller>>, or None
          tab,      \* snapshot and access token of each tab
          call,     \* the auth request of each tab and caller
          login,    \* the session a login or signup has created, until its answer arrives
          inval,    \* reconcileSessionInvalidation, while it awaits /api/auth/me
          again,    \* pendingSessionInvalidation
          inbox,    \* broadcast invalidations not delivered yet
          failures, \* counts up to MaxFailures
          told      \* history: sessions ended by a logout that a tab has announced, but for
                    \* those whose sign-in some tab still waits for

vars == <<alive, used, cookie, lock, tab, call, login, inval, again, inbox,
          failures, told>>
bounds == <<failures, told>>

Idle == [pc |-> "idle", kind |-> "refresh", try |-> 0, sent |-> None, reply |-> "none", got |-> None]
NotReconciling == [pc |-> "idle", session |-> None, overtaken |-> FALSE, reply |-> "none"]
Fresh(s) == [session |-> s, fresh |-> TRUE]
Stale(ref, s) == IF ref # None /\ ref.session = s THEN [ref EXCEPT !.fresh = FALSE] ELSE ref
NewPage == [status |-> "loading", user |-> None, token |-> None]

\* What a request presents: the cookie, or the access token of the tab.
Carried(kind, token) == IF kind \in {"logoutAll", "logoutAllAgain"} THEN token ELSE cookie
Sent(kind, token, try) ==
  [Idle EXCEPT !.pc = "flight", !.kind = kind, !.try = try, !.sent = Carried(kind, token)]

\* runAuthSessionOperation: wait for the lock when there are locks, or send at once.
Operation(kind, token) ==
  IF WebLocks THEN [Idle EXCEPT !.pc = "queued", !.kind = kind] ELSE Sent(kind, token, 0)

\* A page is opened, and its guard calls bootstrapAuth.
OpenedCalls == [c \in Caller |-> IF c = "transition" THEN Operation("refresh", None) ELSE Idle]

\* Every tab is opened, with or without the cookie of an earlier visit.
Init ==
  /\ used \in {{}} \cup {{s} : s \in Earlier}
  /\ alive = used /\ lock = None
  /\ cookie \in IF used = {} THEN {None} ELSE {Fresh(s) : s \in used}
  /\ tab = [t \in Tab |-> NewPage]
  /\ call = [t \in Tab |-> OpenedCalls]
  /\ login = [t \in Tab |-> None]
  /\ inval = [t \in Tab |-> NotReconciling]
  /\ again = [t \in Tab |-> FALSE]
  /\ inbox = [t \in Tab |-> 0]
  /\ failures = 0 /\ told = {}

-----------------------------------------------------------------------------
(* Publications. authGeneration is only ever compared with the value that  *)
(* reconcileSessionInvalidation captured: its increments are represented   *)
(* by `overtaken`.                                                         *)

Signed(s) == [status |-> "authenticated", user |-> Owner[s], token |-> s]
Ended(status, token) == [status |-> status, user |-> None, token |-> token]

\* publish with authGeneration += 1
Publish(t, page) ==
  /\ tab' = [tab EXCEPT ![t] = page]
  /\ inval' = [inval EXCEPT ![t].overtaken = (inval[t].pc # "idle")]

\* publishSessionInvalidated: every other tab hears of it
Broadcast(t) ==
  inbox' = [u \in Tab |-> IF u = t \/ inbox[u] = MaxInbox THEN inbox[u] ELSE inbox[u] + 1]

Release(t, c) == lock' = IF lock = <<t, c>> THEN None ELSE lock

\* runRefreshTransition: one transition per tab, shared by all who want one.
RunTransition(t) ==
  IF call[t]["transition"].pc = "idle"
  THEN call' = [call EXCEPT ![t]["transition"] = Operation("refresh", None)]
  ELSE UNCHANGED call

Grant(t, c) ==
  /\ call[t][c].pc = "queued" /\ lock = None
  /\ lock' = <<t, c>>
  /\ call' = [call EXCEPT ![t][c] = Sent(call[t][c].kind, tab[t].token, 0)]
  /\ UNCHANGED <<alive, used, cookie, tab, login, inval, again, inbox, bounds>>

\* Mutant: the operation is given up without a publication.
LockTimeoutSilent(t, c) ==
  /\ call[t][c].pc = "queued" /\ lock # None
  /\ call' = [call EXCEPT ![t][c] = Idle]
  /\ UNCHANGED <<alive, used, cookie, lock, tab, login, inval, again, inbox, bounds>>

\* Ten seconds in the queue: the operation is given up and never runs.
LockTimeout(t, c) ==
  /\ call[t][c].pc = "queued" /\ lock # None
  /\ call' = [call EXCEPT ![t][c] = Idle]
  /\ IF c = "transition"
       THEN Publish(t, Ended("recoverable-error", tab[t].token))
       ELSE UNCHANGED <<tab, inval>>
  /\ UNCHANGED <<alive, used, cookie, lock, login, again, inbox, bounds>>

-----------------------------------------------------------------------------
(* The pages: guards, buttons and forms.                                   *)

\* "Retry" on the recovery screen of a guard or of the OAuth landing page. Publishing "loading"
\* renders the guard again, whose effect calls bootstrapAuth in the same turn.
RetryBootstrap(t) ==
  /\ tab[t].status = "recoverable-error"
  /\ tab' = [tab EXCEPT ![t].status = "loading"]
  /\ RunTransition(t)
  /\ UNCHANGED <<alive, used, cookie, lock, login, inval, again, inbox, bounds>>

\* The login and signup forms of PublicOnlyRoute; not under the lock. A refusal changes nothing.
Login(t) ==
  /\ "login" \in May[t] /\ tab[t].status = "unauthenticated" /\ login[t] = None
  /\ \E s \in Session \ used :
       /\ used' = used \cup {s} /\ alive' = alive \cup {s}
       /\ login' = [login EXCEPT ![t] = s]
  /\ UNCHANGED <<cookie, lock, tab, call, inval, again, inbox, bounds>>

ReceiveLogin(t) ==
  /\ login[t] # None
  /\ cookie' = Fresh(login[t])
  /\ Publish(t, Signed(login[t]))
  /\ login' = [login EXCEPT ![t] = None]
  /\ UNCHANGED <<alive, used, lock, call, again, inbox, bounds>>

\* The user menu: logout, or logout from all devices.
Logout(t) ==
  /\ tab[t].status = "authenticated" /\ call[t]["command"].pc = "idle"
  /\ \E kind \in {"logout", "logoutAll"} \cap May[t] :
       call' = [call EXCEPT ![t]["command"] = Operation(kind, tab[t].token)]
  /\ UNCHANGED <<alive, used, cookie, lock, tab, login, inval, again, inbox, bounds>>

\* An API request of the page, perhaps an early one, is answered 401: its access token has expired
\* or its session has ended. The request is sent again after the refresh, which others may share.
Unauthorized(t) ==
  /\ "ask" \in May[t] /\ tab[t].token # None
  /\ call[t]["transition"].pc = "idle" /\ RunTransition(t)
  /\ UNCHANGED <<alive, used, cookie, lock, tab, login, inval, again, inbox, bounds>>

-----------------------------------------------------------------------------
(* The auth endpoints.                                                     *)

\* The sessions a logout names: that of the cookie, or all of the user of the access token.
Targets(r) ==
  {s \in used : r.sent # None /\ IF r.kind = "logout" THEN s = r.sent.session
                                  ELSE Owner[s] = Owner[r.sent]}

Accepted(r) ==
  CASE r.kind = "logout" -> {"ok"}
    [] r.kind = "refresh" ->
         IF r.sent = None \/ r.sent.session \notin alive THEN {"unauthorized"}
         ELSE IF r.sent.fresh THEN {"ok"} ELSE {"conflict", "unauthorized"}
    [] OTHER -> IF r.sent \notin alive THEN {"unauthorized"}
                ELSE IF "expiry" \in Faults THEN {"ok", "unauthorized"} ELSE {"ok"}

\* A refresh rotates the session of its cookie; one with a spent token is turned away during
\* the grace window and ends the session after it.
Serve(t, c) ==
  LET r == call[t][c] IN
  /\ r.pc = "flight"
  /\ \E reply \in Accepted(r) :
       LET rotates == r.kind = "refresh" /\ reply = "ok"
           replayed == r.kind = "refresh" /\ reply = "unauthorized"
           got == IF rotates THEN Fresh(r.sent.session) ELSE None
           past(ref) == IF rotates THEN Stale(ref, r.sent.session) ELSE ref
       IN /\ alive' = alive \ (CASE replayed /\ r.sent # None -> {r.sent.session}
                                 [] r.kind # "refresh" /\ reply = "ok" -> Targets(r)
                                 [] OTHER -> {})
          /\ cookie' = past(cookie)
          /\ call' = [u \in Tab |-> [d \in Caller |->
                IF u = t /\ d = c
                THEN [r EXCEPT !.pc = "answered", !.reply = reply, !.got = got]
                ELSE IF call[u][d].kind \in {"refresh", "logout"}
                     THEN [call[u][d] EXCEPT !.sent = past(@), !.got = past(@)]
                     ELSE call[u][d]]]
  /\ UNCHANGED <<used, lock, tab, login, inval, again, inbox, bounds>>

\* The request fails on its way (before Serve), or its answer does (after it); 429 and 503.
Fail(t, c) ==
  /\ "network" \in Faults /\ failures < MaxFailures
  /\ failures' = failures + 1
  /\ \/ call[t][c].pc = "flight"
     \/ call[t][c].pc = "answered" /\ call[t][c].reply # "error"
  /\ call' = [call EXCEPT ![t][c].pc = "answered", ![t][c].reply = "error", ![t][c].got = None]
  /\ UNCHANGED <<alive, used, cookie, lock, tab, login, inval, again, inbox, told>>

Answered(t, c, kinds, reply) ==
  LET r == call[t][c] IN r.pc = "answered" /\ r.kind \in kinds /\ r.reply = reply

\* refreshSession and applyRefreshOutcome, in a transition or inside logoutAll.
Refreshed(t, c) ==
  /\ Answered(t, c, {"refresh"}, "ok")
  /\ cookie' = call[t][c].got
  /\ Publish(t, Signed(call[t][c].got.session))
  /\ IF c = "transition"
       THEN call' = [call EXCEPT ![t][c] = Idle] /\ Release(t, c)
       ELSE /\ call' = [call EXCEPT ![t][c] =
                  [Idle EXCEPT !.pc = "flight", !.kind = "logoutAllAgain",
                               !.sent = call[t][c].got.session]]
            /\ UNCHANGED lock
  /\ UNCHANGED <<alive, used, login, again, inbox, bounds>>

SignedOut(t, c) ==
  /\ Answered(t, c, {"refresh"}, "unauthorized")
  /\ Publish(t, Ended("unauthenticated", None))
  /\ Broadcast(t)
  /\ call' = [call EXCEPT ![t][c] = Idle] /\ Release(t, c)
  /\ UNCHANGED <<alive, used, cookie, login, again, bounds>>

RetryRefresh(t, c) ==
  /\ Answered(t, c, {"refresh"}, "conflict") /\ call[t][c].try < MaxRetries
  /\ call' = [call EXCEPT ![t][c] = Sent("refresh", None, call[t][c].try + 1)]
  /\ UNCHANGED <<alive, used, cookie, lock, tab, login, inval, again, inbox, bounds>>

RefreshFailed(t, c) ==
  /\ \/ Answered(t, c, {"refresh"}, "error")
     \/ Answered(t, c, {"refresh"}, "conflict") /\ call[t][c].try = MaxRetries
  /\ Publish(t, Ended("recoverable-error", None))
  /\ call' = [call EXCEPT ![t][c] = Idle] /\ Release(t, c)
  /\ UNCHANGED <<alive, used, cookie, login, again, inbox, bounds>>

LoggedOut(t) ==
  /\ Answered(t, "command", {"logout", "logoutAll", "logoutAllAgain"}, "ok")
  /\ cookie' = None
  /\ Publish(t, Ended("unauthenticated", None))
  /\ Broadcast(t)
  /\ told' = told \cup ((Targets(call[t]["command"]) \ alive) \ {login[u] : u \in Tab})
  /\ call' = [call EXCEPT ![t]["command"] = Idle] /\ Release(t, "command")
  /\ UNCHANGED <<alive, used, login, again, failures>>

\* A 401 to logoutAll is followed by one refresh, inside the lock.
RefreshInside(t) ==
  /\ Answered(t, "command", {"logoutAll"}, "unauthorized")
  /\ call' = [call EXCEPT ![t]["command"] = Sent("refresh", None, 0)]
  /\ UNCHANGED <<alive, used, cookie, lock, tab, login, inval, again, inbox, bounds>>

LogoutFailed(t) ==
  /\ \/ Answered(t, "command", {"logout", "logoutAll", "logoutAllAgain"}, "error")
     \/ Answered(t, "command", {"logoutAllAgain"}, "unauthorized")
  /\ call' = [call EXCEPT ![t]["command"] = Idle] /\ Release(t, "command")
  /\ UNCHANGED <<alive, used, cookie, tab, login, inval, again, inbox, bounds>>

-----------------------------------------------------------------------------
(* Invalidations from other tabs.                                          *)

\* reconcileSessionInvalidation up to its await, for a tab that shows `page`. Publishing
\* "loading" makes the guard bootstrap, which starts a refresh beside the validation.
StartReconcile(t, page) ==
  IF page.token = None \/ page.status # "authenticated"
  THEN /\ tab' = [tab EXCEPT ![t] = Ended("unauthenticated", None)]
       /\ inval' = [inval EXCEPT ![t] = NotReconciling]
       /\ UNCHANGED call
  ELSE /\ tab' = [tab EXCEPT ![t] = [page EXCEPT !.status = "loading", !.user = None]]
       /\ inval' = [inval EXCEPT ![t] = [NotReconciling EXCEPT !.pc = "flight",
                                                               !.session = page.token]]
       /\ RunTransition(t)

\* Mutant: what arrives during a validation is taken to be covered by it.
HandleInvalidatedOnce(t) ==
  /\ inbox[t] > 0
  /\ inbox' = [inbox EXCEPT ![t] = @ - 1]
  /\ IF inval[t].pc # "idle" THEN UNCHANGED <<tab, inval, call>> ELSE StartReconcile(t, tab[t])
  /\ UNCHANGED <<alive, used, cookie, lock, login, again, bounds>>

HandleInvalidated(t) ==
  /\ inbox[t] > 0
  /\ inbox' = [inbox EXCEPT ![t] = @ - 1]
  /\ IF inval[t].pc # "idle"
       THEN again' = [again EXCEPT ![t] = TRUE] /\ UNCHANGED <<tab, inval, call>>
       ELSE StartReconcile(t, tab[t]) /\ UNCHANGED again
  /\ UNCHANGED <<alive, used, cookie, lock, login, bounds>>

\* GET /api/auth/me, without a refresh.
ServeValidation(t) ==
  /\ inval[t].pc = "flight"
  /\ \E reply \in Reply \ {"none", "conflict"} :
       /\ reply = "ok" => inval[t].session \in alive
       /\ reply = "unauthorized" => inval[t].session \notin alive \/ "expiry" \in Faults
       /\ reply = "error" => "network" \in Faults /\ failures < MaxFailures
       /\ failures' = failures + (IF reply = "error" THEN 1 ELSE 0)
       /\ inval' = [inval EXCEPT ![t].pc = "answered", ![t].reply = reply]
  /\ UNCHANGED <<alive, used, cookie, lock, tab, call, login, again, inbox, told>>

\* Mutant: the answer is applied to whatever the tab shows by now.
NeverOvertaken(t) == FALSE

\* authGeneration or the token changed during the validation.
Overtaken(t) == inval[t].overtaken \/ tab[t].token # inval[t].session

\* The user that was signed in when the invalidation came, with whatever token there is now.
Restored(t) == [tab[t] EXCEPT !.status = "authenticated", !.user = Owner[inval[t].session]]

\* What the tab shows after the validation; nothing changes when the generation or the token did.
Validated(t) ==
  IF Overtaken(t) THEN tab[t]
  ELSE CASE inval[t].reply = "ok"           -> Restored(t)
         [] inval[t].reply = "unauthorized" -> Ended("unauthenticated", None)
         [] OTHER                           -> Ended("recoverable-error", None)

FinishReconcile(t) ==
  /\ inval[t].pc = "answered"
  /\ IF again[t]
       THEN StartReconcile(t, Validated(t)) /\ again' = [again EXCEPT ![t] = FALSE]
       ELSE /\ tab' = [tab EXCEPT ![t] = Validated(t)]
            /\ inval' = [inval EXCEPT ![t] = NotReconciling]
            /\ UNCHANGED <<again, call>>
  /\ UNCHANGED <<alive, used, cookie, lock, login, inbox, bounds>>

-----------------------------------------------------------------------------
(* A reload: the module state starts over, pending requests are dropped    *)
(* (also when the API has carried them out), and the lock is given back.   *)
(* A return from Google is a reload with the cookie of a new session.      *)

Reload(t) ==
  /\ "reload" \in Faults /\ failures < MaxFailures
  /\ failures' = failures + 1 /\ UNCHANGED told
  /\ tab' = [tab EXCEPT ![t] = NewPage]
  /\ login' = [login EXCEPT ![t] = None]
  /\ inval' = [inval EXCEPT ![t] = NotReconciling]
  /\ again' = [again EXCEPT ![t] = FALSE]
  /\ inbox' = [inbox EXCEPT ![t] = 0]
  /\ lock' = IF lock # None /\ lock[1] = t THEN None ELSE lock
  /\ \/ UNCHANGED <<alive, used, cookie>>
     \/ \E s \in Session \ used :
          used' = used \cup {s} /\ alive' = alive \cup {s} /\ cookie' = Fresh(s)
  /\ call' = [call EXCEPT ![t] = [c \in Caller |->
                IF c = "command" THEN Idle
                ELSE IF WebLocks THEN [Idle EXCEPT !.pc = "queued"]
                ELSE [Idle EXCEPT !.pc = "flight", !.sent = cookie']]]

Page(t) == RetryBootstrap(t) \/ Login(t) \/ Logout(t) \/ Unauthorized(t) \/ Reload(t)
Network(t) ==
  \/ ReceiveLogin(t) \/ ServeValidation(t)
  \/ \E c \in Caller : Serve(t, c) \/ Fail(t, c)
Settle(t, c) ==
  \/ Refreshed(t, c) \/ SignedOut(t, c) \/ RetryRefresh(t, c) \/ RefreshFailed(t, c)
  \/ c = "command" /\ (LoggedOut(t) \/ RefreshInside(t) \/ LogoutFailed(t))
Next ==
  \E t \in Tab :
    \/ Page(t) \/ Network(t) \/ HandleInvalidated(t) \/ FinishReconcile(t)
    \/ \E c \in Caller : Grant(t, c) \/ LockTimeout(t, c) \/ Settle(t, c)

Spec == Init /\ [][Next]_vars

-----------------------------------------------------------------------------
(* Properties                                                              *)

\* Every variable keeps its type.
TypeOK ==
  /\ alive \subseteq used /\ used \subseteq Session
  /\ cookie \in RefreshToken \cup {None}
  /\ lock \in (Tab \X Caller) \cup {None}
  /\ tab \in [Tab -> TabState]
  /\ call \in [Tab -> [Caller -> CallState]]
  /\ login \in [Tab -> Session \cup {None}]
  /\ inval \in [Tab -> Validation]
  /\ again \in [Tab -> BOOLEAN]
  /\ inbox \in [Tab -> 0..MaxInbox]
  /\ failures \in 0..MaxFailures /\ told \subseteq used \ alive

\* The user a tab shows is the user its requests are made for, whatever order logins, refreshes
\* and validations settle in.
SnapshotMatchesToken ==
  \A t \in Tab : tab[t].status = "authenticated" =>
                   tab[t].token # None /\ tab[t].user = Owner[tab[t].token]

\* A validation that settles late takes nothing from a tab that has signed in since
\* (docs/security-model.md:68-69).
NewerLoginKept ==
  [][\A t \in Tab :
       inval[t].pc = "answered" /\ inval'[t] # inval[t]
       /\ tab[t].status = "authenticated" /\ tab'[t] # NewPage
         => tab'[t].token = tab[t].token]_vars

\* Once a logout has been announced, a tab shows the content of a session it ended only while the
\* invalidation is on its way to it, although tabs may be validating an earlier invalidation,
\* refreshing, or waiting for the lock.
EndedSessionsHidden ==
  \A t \in Tab : tab[t].status = "authenticated" /\ tab[t].token \in told
                   => inbox[t] > 0 \/ again[t]

\* A guarded page on its loading screen always waits for an answer, or for a lock, that will take it
\* off that screen, although locks time out and requests overtake each other.
SpinnersAnswered ==
  \A t \in Tab : tab[t].status = "loading" =>
                   call[t]["transition"].pc # "idle" \/ (inval[t].pc # "idle" /\ ~Overtaken(t))
=============================================================================
