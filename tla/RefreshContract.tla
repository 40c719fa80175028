--------------------------- MODULE RefreshContract ---------------------------
(***************************************************************************)
(* What the session endpoints promise, with every request handled in one   *)
(* indivisible step: a token is exchanged at most once, only a token that  *)
(* was exchanged is answered as reused, reuse either closes the session or *)
(* leaves everything as it is, and a closed session stays closed.          *)
(***************************************************************************)
CONSTANTS Session, Request, None

VARIABLES
  status,   \* per session: unused, open or closed
  issued,   \* refresh tokens returned to clients
  spent,    \* refresh tokens that were exchanged for a successor
  asked,    \* per request: the token it presents
  answer    \* per request: what it was answered

vars == <<status, issued, spent, asked, answer>>

Init ==
  /\ status = [s \in Session |-> "unused"]
  /\ issued = {}
  /\ spent = {}
  /\ asked = [r \in Request |-> None]
  /\ answer = [r \in Request |-> "none"]

Waiting(r) == asked[r] # None /\ answer[r] = "none"
Answer(r, a) == answer' = [answer EXCEPT ![r] = a]
Close(S) == status' = [s \in Session |-> IF s \in S THEN "closed" ELSE status[s]]

Open(t) ==
  /\ status[t.sid] = "unused"
  /\ status' = [status EXCEPT ![t.sid] = "open"]
  /\ issued' = issued \cup {t}
  /\ UNCHANGED <<spent, asked, answer>>

Present(r, t) ==
  /\ asked[r] = None
  /\ asked' = [asked EXCEPT ![r] = t]
  /\ UNCHANGED <<status, issued, spent, answer>>

\* The one successful outcome: the only unspent token of an open session is
\* replaced by a token never seen before.
Exchange(r, t) ==
  /\ Waiting(r)
  /\ status[asked[r].sid] = "open"
  /\ asked[r] \in issued \ spent
  /\ \A o \in issued : o.sid = asked[r].sid => o \in spent \cup {asked[r]}
  /\ t \notin issued /\ t.sid = asked[r].sid /\ t.sub = asked[r].sub /\ t.exp = asked[r].exp
  /\ issued' = issued \cup {t}
  /\ spent' = spent \cup {asked[r]}
  /\ Answer(r, "ok")
  /\ UNCHANGED <<status, asked>>

\* Reuse inside the grace window, or reuse that cannot be classified.
TurnAway(r, a) ==
  /\ Waiting(r)
  /\ asked[r] \in spent
  /\ Answer(r, a)
  /\ UNCHANGED <<status, issued, spent, asked>>

\* Reuse outside the grace window closes the session.
Punish(r) ==
  /\ Waiting(r)
  /\ asked[r] \in spent
  /\ status[asked[r].sid] = "open"
  /\ Close({asked[r].sid})
  /\ Answer(r, "replay")
  /\ UNCHANGED <<issued, spent, asked>>

\* Refusing is always safe; what justifies a refusal depends on the clocks.
Refuse(r, t) ==
  /\ asked[r] \in {None, t}
  /\ answer[r] = "none"
  /\ asked' = [asked EXCEPT ![r] = t]
  /\ Answer(r, "unauthorized")
  /\ UNCHANGED <<status, issued, spent>>

\* Logout closes the session its token names, logout-all those of its user.
LogOut(r, t, S) ==
  /\ asked[r] \in {None, t}
  /\ answer[r] = "none"
  /\ asked' = [asked EXCEPT ![r] = t]
  /\ status[t.sid] = "open" => t.sid \in S
  /\ \A s \in S : status[s] # "unused"
  /\ Close(S)
  /\ Answer(r, "loggedOut")
  /\ UNCHANGED <<issued, spent>>

\* The absolute expiry passes and the row is swept away.
Lapse(s) ==
  /\ status[s] = "open"
  /\ Close({s})
  /\ UNCHANGED <<issued, spent, asked, answer>>

Next ==
  \/ \E t \in issued' : Open(t)
  \/ \E r \in Request, t \in issued : Present(r, t)
  \/ \E r \in Request, t \in issued' : Exchange(r, t)
  \/ \E r \in Request, a \in {"conflict", "unavailable"} : TurnAway(r, a)
  \/ \E r \in Request : Punish(r)
  \/ \E r \in Request, t \in issued : Refuse(r, t)
  \/ \E r \in Request, t \in issued, S \in SUBSET Session : LogOut(r, t, S)
  \/ \E s \in Session : Lapse(s)

Spec == Init /\ [][Next]_vars
=============================================================================
