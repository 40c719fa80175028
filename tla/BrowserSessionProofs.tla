------------------------ MODULE BrowserSessionProofs ------------------------
(***************************************************************************)
(* What a tab shows is its own session's, for any number of tabs, sessions *)
(* and retries, with or without Web Locks, whatever fails or is reloaded.  *)
(***************************************************************************)
EXTENDS BrowserSession, TLAPS

\* A request that carries the cookie has a refresh token, or none, and a refresh that was granted
\* brings one back.
Request == {r \in CallState :
              /\ r.kind \in {"refresh", "logout"} => r.sent \in RefreshToken \cup {None}
              /\ r.pc = "answered" /\ r.kind = "refresh" /\ r.reply = "ok" => r.got \in RefreshToken}

RequestsOK ==
  /\ alive \subseteq Session /\ used \subseteq Session
  /\ cookie \in RefreshToken \cup {None}
  /\ call \in [Tab -> [Caller -> Request]]
  /\ login \in [Tab -> Session \cup {None}]

PagesOK == tab \in [Tab -> TabState] /\ inval \in [Tab -> Validation]

\* A validation is of some session, and a tab that is signed in during one has signed in since.
Consistent(t) ==
  /\ tab[t].status = "authenticated" => tab[t].token # None /\ tab[t].user = Owner[tab[t].token]
  /\ inval[t].pc # "idle" => inval[t].session # None
  /\ inval[t].pc # "idle" /\ tab[t].status = "authenticated" => inval[t].overtaken

IInv == RequestsOK /\ PagesOK /\ \A t \in Tab : Consistent(t)

-----------------------------------------------------------------------------
(* Requests.                                                               *)

LEMMA StaleTyped ==
  ASSUME NEW ref \in RefreshToken \cup {None}, NEW s
  PROVE  /\ Stale(ref, s) \in RefreshToken \cup {None}
         /\ ref \in RefreshToken => Stale(ref, s) \in RefreshToken
BY DEF Stale, RefreshToken

LEMMA FreshTyped == \A s \in Session : Fresh(s) \in RefreshToken
BY DEF Fresh, RefreshToken

LEMMA SentTyped ==
  ASSUME cookie \in RefreshToken \cup {None}, NEW kind \in Kind, NEW token \in Session \cup {None},
         NEW try \in 0..MaxRetries
  PROVE  Sent(kind, token, try) \in Request
BY DEF Sent, Carried, Idle, Request, CallState, Kind, Reply

LEMMA OperationTyped ==
  ASSUME cookie \in RefreshToken \cup {None}, NEW kind \in Kind, NEW token \in Session \cup {None}
  PROVE  Operation(kind, token) \in Request
<1>1. 0 \in 0..MaxRetries
  BY BoundsAssumption
<1>2. [Idle EXCEPT !.pc = "queued", !.kind = kind] \in Request
  BY <1>1 DEF Idle, Request, CallState, Kind, Reply
<1> QED  BY <1>1, <1>2, SentTyped DEF Operation

LEMMA IdleTyped == Idle \in Request
BY BoundsAssumption DEF Idle, Request, CallState, Kind, Reply

\* The API's answer to one request, and what it makes of the tokens that others carry.
LEMMA ServeTyped ==
  ASSUME RequestsOK, NEW t \in Tab, NEW c \in Caller, Serve(t, c)
  PROVE  RequestsOK'
<1>0. \A u \in Tab, d \in Caller : call[u][d] \in Request
  BY DEF RequestsOK
<1> DEFINE r == call[t][c]
           rotates(reply) == r.kind = "refresh" /\ reply = "ok"
           got(reply) == IF rotates(reply) THEN Fresh(r.sent.session) ELSE None
           past(reply, ref) == IF rotates(reply) THEN Stale(ref, r.sent.session) ELSE ref
<1>1. PICK reply \in Accepted(r) :
        /\ alive' \subseteq alive
        /\ cookie' = past(reply, cookie)
        /\ call' = [u \in Tab |-> [d \in Caller |->
              IF u = t /\ d = c
              THEN [r EXCEPT !.pc = "answered", !.reply = reply, !.got = got(reply)]
              ELSE IF call[u][d].kind \in {"refresh", "logout"}
                   THEN [call[u][d] EXCEPT !.sent = past(reply, @), !.got = past(reply, @)]
                   ELSE call[u][d]]]
  BY Zenon DEF Serve
<1>2. reply \in Reply /\ (rotates(reply) => r.sent.session \in alive)
  BY DEF Accepted, Reply
<1>3. got(reply) \in RefreshToken \cup {None} /\ (rotates(reply) => got(reply) \in RefreshToken)
  BY <1>2 DEF RequestsOK, Fresh, RefreshToken
<1>4. \A ref \in RefreshToken \cup {None} :
         /\ past(reply, ref) \in RefreshToken \cup {None}
         /\ ref \in RefreshToken => past(reply, ref) \in RefreshToken
  BY StaleTyped
<1>5. [r EXCEPT !.pc = "answered", !.reply = reply, !.got = got(reply)] \in Request
  <2>1. r \in Request
    BY <1>0
  <2> HIDE DEF r, got
  <2> QED  BY <1>2, <1>3, <2>1 DEF Request, CallState
<1> HIDE DEF past, got
<1>6. ASSUME NEW u \in Tab, NEW d \in Caller, call[u][d].kind \in {"refresh", "logout"}
      PROVE  [call[u][d] EXCEPT !.sent = past(reply, @), !.got = past(reply, @)] \in Request
  <2>1. call[u][d] \in Request
    BY <1>0
  <2>2. /\ past(reply, call[u][d].sent) \in RefreshToken \cup {None}
        /\ past(reply, call[u][d].got) \in RefreshToken \cup {None}
        /\ call[u][d].got \in RefreshToken => past(reply, call[u][d].got) \in RefreshToken
    BY <1>4, <1>6, <2>1 DEF Request, CallState
  <2> QED  BY <2>1, <2>2 DEF Request, CallState
<1>7. call' \in [Tab -> [Caller -> Request]]
  BY <1>0, <1>1, <1>5, <1>6
<1>8. cookie' \in RefreshToken \cup {None}
  BY <1>1, <1>4 DEF RequestsOK
<1> QED  BY <1>1, <1>7, <1>8 DEF Serve, RequestsOK

\* One request of one tab changes.
LEMMA OneRequest ==
  ASSUME RequestsOK, NEW t \in Tab, NEW c \in Caller, NEW r \in Request,
         call' = [call EXCEPT ![t][c] = r]
  PROVE  call' \in [Tab -> [Caller -> Request]]
BY DEF RequestsOK

LEMMA RunTransitionTyped ==
  ASSUME RequestsOK, NEW t \in Tab, RunTransition(t)
  PROVE  call' \in [Tab -> [Caller -> Request]]
<1>1. Operation("refresh", None) \in Request
  BY OperationTyped DEF RequestsOK, Kind
<1> QED  BY <1>1 DEF RunTransition, RequestsOK, Caller

LEMMA FailTyped ==
  ASSUME RequestsOK, NEW t \in Tab, NEW c \in Caller, Fail(t, c)
  PROVE  call' \in [Tab -> [Caller -> Request]]
<1>1. call[t][c] \in Request
  BY DEF RequestsOK
<1>2. [call[t][c] EXCEPT !.pc = "answered", !.reply = "error", !.got = None] \in Request
  BY <1>1 DEF Request, CallState, Reply
<1>3. call' = [call EXCEPT ![t][c] =
                 [call[t][c] EXCEPT !.pc = "answered", !.reply = "error", !.got = None]]
  BY DEF Fail, RequestsOK
<1> QED  BY <1>2, <1>3, OneRequest

\* The answer of a refresh that was granted is its session's.
LEMMA RefreshedTyped ==
  ASSUME RequestsOK, NEW t \in Tab, NEW c \in Caller, Refreshed(t, c)
  PROVE  /\ cookie' \in RefreshToken
         /\ call[t][c].got.session \in Session
         /\ call' \in [Tab -> [Caller -> Request]]
<1>1. call[t][c] \in Request
  BY DEF RequestsOK
<1>2. call[t][c].got \in RefreshToken /\ call[t][c].got.session \in Session
  BY <1>1 DEF Refreshed, Answered, Request, RefreshToken
<1>3. [Idle EXCEPT !.pc = "flight", !.kind = "logoutAllAgain", !.sent = call[t][c].got.session] \in Request
  BY <1>2, IdleTyped DEF Idle, Request, CallState, Kind
<1> QED  BY <1>2, <1>3, IdleTyped, OneRequest DEF Refreshed

LEMMA SettleTyped ==
  ASSUME RequestsOK, NEW t \in Tab, NEW c \in Caller,
         SignedOut(t, c) \/ RetryRefresh(t, c) \/ RefreshFailed(t, c) \/ LoggedOut(t)
           \/ RefreshInside(t) \/ LogoutFailed(t)
  PROVE  call' \in [Tab -> [Caller -> Request]] /\ cookie' \in RefreshToken \cup {None}
<1>1. CASE SignedOut(t, c) \/ RefreshFailed(t, c)
  BY <1>1, IdleTyped, OneRequest DEF SignedOut, RefreshFailed, RequestsOK
<1>2. CASE LoggedOut(t) \/ LogoutFailed(t)
  BY <1>2, IdleTyped, OneRequest DEF LoggedOut, LogoutFailed, RequestsOK, Caller
<1>3. CASE RetryRefresh(t, c)
  <2>1. call[t][c].try + 1 \in 0..MaxRetries
    BY <1>3, BoundsAssumption DEF RetryRefresh, RequestsOK, Request, CallState
  <2>2. Sent("refresh", None, call[t][c].try + 1) \in Request
    BY <2>1, SentTyped DEF RequestsOK, Kind
  <2> QED  BY <1>3, <2>2, OneRequest DEF RetryRefresh, RequestsOK
<1>4. CASE RefreshInside(t)
  <2>0. 0 \in 0..MaxRetries /\ "refresh" \in Kind
    BY BoundsAssumption DEF Kind
  <2>1. Sent("refresh", None, 0) \in Request
    BY <2>0, SentTyped DEF RequestsOK
  <2>2. "command" \in Caller
    BY DEF Caller
  <2>3. call' \in [Tab -> [Caller -> Request]]
    BY <1>4, <2>1, <2>2, OneRequest DEF RefreshInside
  <2> QED  BY <1>4, <2>3 DEF RefreshInside, RequestsOK
<1> QED  BY <1>1, <1>2, <1>3, <1>4

LEMMA PageActionsTyped ==
  ASSUME RequestsOK, PagesOK, NEW t \in Tab, Page(t)
  PROVE  RequestsOK'
<1>1. CASE RetryBootstrap(t) \/ Unauthorized(t)
  BY <1>1, RunTransitionTyped DEF RetryBootstrap, Unauthorized, RequestsOK
<1>2. CASE Login(t)
  BY <1>2 DEF Login, RequestsOK
<1>3. CASE Logout(t)
  <2>1. tab[t].token \in Session \cup {None}
    BY DEF PagesOK, TabState
  <2>2. PICK kind \in {"logout", "logoutAll"} :
          call' = [call EXCEPT ![t]["command"] = Operation(kind, tab[t].token)]
    BY <1>3 DEF Logout
  <2>3. Operation(kind, tab[t].token) \in Request /\ "command" \in Caller
    BY <2>1, OperationTyped DEF RequestsOK, Kind, Caller
  <2>4. call' \in [Tab -> [Caller -> Request]]
    BY <2>2, <2>3, OneRequest
  <2> QED  BY <1>3, <2>4 DEF Logout, RequestsOK
<1>4. CASE Reload(t)
  <2>1. cookie' \in RefreshToken \cup {None} /\ alive' \subseteq Session /\ used' \subseteq Session
    <3>1. CASE UNCHANGED <<alive, used, cookie>>
      BY <3>1 DEF RequestsOK
    <3>2. CASE \E s \in Session \ used :
                 used' = used \cup {s} /\ alive' = alive \cup {s} /\ cookie' = Fresh(s)
      BY <3>2, FreshTyped DEF RequestsOK
    <3> QED  BY <1>4, <3>1, <3>2 DEF Reload
  <2>2. [Idle EXCEPT !.pc = "queued"] \in Request
    BY IdleTyped DEF Idle, Request, CallState
  <2>3. [Idle EXCEPT !.pc = "flight", !.sent = cookie'] \in Request
    BY <2>1, IdleTyped DEF Idle, Request, CallState
  <2>4. call' \in [Tab -> [Caller -> Request]]
    BY <1>4, <2>2, <2>3, IdleTyped DEF Reload, RequestsOK
  <2> QED  BY <1>4, <2>1, <2>4 DEF Reload, RequestsOK
<1> QED  BY <1>1, <1>2, <1>3, <1>4 DEF Page

\* Every step keeps the requests, the cookie and the sessions what they are.
LEMMA RequestsKept ==
  ASSUME RequestsOK, PagesOK, Next
  PROVE  RequestsOK'
<1>1. ASSUME NEW t \in Tab, Page(t)  PROVE RequestsOK'
  BY <1>1, PageActionsTyped
<1>2. ASSUME NEW t \in Tab, ReceiveLogin(t) \/ ServeValidation(t)  PROVE RequestsOK'
  BY <1>2, FreshTyped DEF ReceiveLogin, ServeValidation, RequestsOK
<1>3. ASSUME NEW t \in Tab, NEW c \in Caller, Serve(t, c)  PROVE RequestsOK'
  BY <1>3, ServeTyped
<1>4. ASSUME NEW t \in Tab, NEW c \in Caller, Fail(t, c)  PROVE RequestsOK'
  BY <1>4, FailTyped DEF Fail, RequestsOK
<1>5. ASSUME NEW t \in Tab, HandleInvalidated(t) \/ FinishReconcile(t)  PROVE RequestsOK'
  <2>1. RunTransition(t) \/ UNCHANGED call
    BY <1>5 DEF HandleInvalidated, FinishReconcile, StartReconcile
  <2>2. call' \in [Tab -> [Caller -> Request]]
    BY <2>1, RunTransitionTyped DEF RequestsOK
  <2> QED  BY <1>5, <2>2 DEF HandleInvalidated, FinishReconcile, RequestsOK
<1>6. ASSUME NEW t \in Tab, NEW c \in Caller, Grant(t, c)  PROVE RequestsOK'
  <2>1. tab[t].token \in Session \cup {None} /\ call[t][c].kind \in Kind /\ 0 \in 0..MaxRetries
    BY BoundsAssumption DEF PagesOK, TabState, RequestsOK, Request, CallState
  <2>2. Sent(call[t][c].kind, tab[t].token, 0) \in Request
    BY <2>1, SentTyped DEF RequestsOK
  <2>3. call' \in [Tab -> [Caller -> Request]]
    BY <1>6, <2>2, OneRequest DEF Grant
  <2> QED  BY <1>6, <2>3 DEF Grant, RequestsOK
<1>7. ASSUME NEW t \in Tab, NEW c \in Caller, LockTimeout(t, c)  PROVE RequestsOK'
  <2>1. call' \in [Tab -> [Caller -> Request]]
    BY <1>7, IdleTyped, OneRequest DEF LockTimeout
  <2> QED  BY <1>7, <2>1 DEF LockTimeout, RequestsOK
<1>8. ASSUME NEW t \in Tab, NEW c \in Caller, Refreshed(t, c)  PROVE RequestsOK'
  BY <1>8, RefreshedTyped DEF Refreshed, RequestsOK
<1>9. ASSUME NEW t \in Tab, NEW c \in Caller,
             SignedOut(t, c) \/ RetryRefresh(t, c) \/ RefreshFailed(t, c) \/ LoggedOut(t)
               \/ RefreshInside(t) \/ LogoutFailed(t)
      PROVE  RequestsOK'
  <2>1. UNCHANGED <<alive, used, login>>
    BY <1>9 DEF SignedOut, RetryRefresh, RefreshFailed, LoggedOut, RefreshInside, LogoutFailed
  <2> QED  BY <1>9, <2>1, SettleTyped DEF RequestsOK
<1> QED
  BY <1>1, <1>2, <1>3, <1>4, <1>5, <1>6, <1>7, <1>8, <1>9 DEF Next, Network, Settle

-----------------------------------------------------------------------------
(* Pages.                                                                  *)

\* What a tab publishes, and the validation it overtakes.
LEMMA PublishConsistent ==
  ASSUME IInv, NEW t \in Tab, NEW page \in TabState, Publish(t, page),
         page.status = "authenticated" => page.token # None /\ page.user = Owner[page.token]
  PROVE  PagesOK' /\ \A u \in Tab : Consistent(u)'
<1>1. tab' = [tab EXCEPT ![t] = page] /\ tab' \in [Tab -> TabState]
  BY DEF IInv, PagesOK, Publish
<1>2. inval[t] \in Validation /\ [inval[t] EXCEPT !.overtaken = (inval[t].pc # "idle")] \in Validation
  BY DEF IInv, PagesOK, Validation
<1>3. inval' = [inval EXCEPT ![t] = [inval[t] EXCEPT !.overtaken = (inval[t].pc # "idle")]]
  BY DEF IInv, PagesOK, Publish
<1>4. inval' \in [Tab -> Validation]
  BY <1>2, <1>3 DEF IInv, PagesOK
<1>5. ASSUME NEW u \in Tab  PROVE Consistent(u)'
  <2>1. CASE u = t
    <3>1. /\ tab'[u] = page /\ inval'[u].pc = inval[u].pc /\ inval'[u].session = inval[u].session
          /\ inval'[u].overtaken = (inval[u].pc # "idle")
      BY <1>1, <1>2, <1>3, <2>1 DEF IInv, PagesOK, Validation
    <3> QED  BY <3>1, <2>1 DEF IInv, Consistent
  <2>2. CASE u # t
    BY <1>1, <1>3, <2>2 DEF IInv, PagesOK, Consistent
  <2> QED  BY <2>1, <2>2
<1> QED  BY <1>1, <1>4, <1>5 DEF PagesOK

LEMMA EndedTyped ==
  ASSUME NEW status \in Status, NEW token \in Session \cup {None}
  PROVE  Ended(status, token) \in TabState
BY DEF Ended, TabState

LEMMA SignedTyped ==
  ASSUME NEW s \in Session
  PROVE  /\ Signed(s) \in TabState
         /\ Signed(s).token # None /\ Signed(s).user = Owner[Signed(s).token]
BY SessionAssumption DEF Signed, TabState, Status

\* A tab whose page and validation stay, or that shows nobody and validates nothing.
LEMMA OthersConsistent ==
  ASSUME IInv, NEW t \in Tab, NEW page \in TabState, NEW v \in Validation,
         tab' = [tab EXCEPT ![t] = page], inval' = [inval EXCEPT ![t] = v],
         page.status = "authenticated" =>
           page.token # None /\ page.user = Owner[page.token] /\ (v.pc # "idle" => v.overtaken),
         v.pc # "idle" => v.session # None
  PROVE  PagesOK' /\ \A u \in Tab : Consistent(u)'
<1>1. PagesOK'
  BY DEF IInv, PagesOK
<1>2. ASSUME NEW u \in Tab  PROVE Consistent(u)'
  <2>1. CASE u = t
    BY <2>1 DEF IInv, PagesOK, Consistent
  <2>2. CASE u # t
    BY <2>2 DEF IInv, PagesOK, Consistent
  <2> QED  BY <2>1, <2>2
<1> QED  BY <1>1, <1>2

LEMMA NotReconcilingTyped == NotReconciling \in Validation /\ NotReconciling.pc = "idle"
BY DEF NotReconciling, Validation, Reply

\* A reconciliation starts from a page whose token and user agree.
LEMMA StartReconcileConsistent ==
  ASSUME IInv, NEW t \in Tab, NEW page \in TabState, StartReconcile(t, page)
  PROVE  PagesOK' /\ \A u \in Tab : Consistent(u)'
<1>1. CASE page.token = None \/ page.status # "authenticated"
  <2>1. Ended("unauthenticated", None) \in TabState /\ Ended("unauthenticated", None).status # "authenticated"
    BY EndedTyped DEF Status, Ended
  <2>2. tab' = [tab EXCEPT ![t] = Ended("unauthenticated", None)]
        /\ inval' = [inval EXCEPT ![t] = NotReconciling]
    BY <1>1 DEF StartReconcile
  <2> QED  BY <2>1, <2>2, NotReconcilingTyped, OthersConsistent
<1>2. CASE ~(page.token = None \/ page.status # "authenticated")
  <2> DEFINE shown == [page EXCEPT !.status = "loading", !.user = None]
             v == [NotReconciling EXCEPT !.pc = "flight", !.session = page.token]
  <2>1. shown \in TabState /\ shown.status # "authenticated"
    BY DEF TabState, Status
  <2>2. v \in Validation /\ v.session # None
    BY <1>2 DEF NotReconciling, Validation, Reply, TabState
  <2>3. tab' = [tab EXCEPT ![t] = shown] /\ inval' = [inval EXCEPT ![t] = v]
    BY <1>2 DEF StartReconcile
  <2> HIDE DEF shown, v
  <2> QED  BY <2>1, <2>2, <2>3, OthersConsistent
<1> QED  BY <1>1, <1>2

\* A validation that was not overtaken restores the user of the token that the tab still has.
LEMMA ValidatedConsistent ==
  ASSUME IInv, NEW t \in Tab, inval[t].pc = "answered"
  PROVE  /\ Validated(t) \in TabState
         /\ Validated(t).status = "authenticated" =>
              Validated(t).token # None /\ Validated(t).user = Owner[Validated(t).token]
<1>1. tab[t] \in TabState /\ inval[t] \in Validation /\ Consistent(t)
  BY DEF IInv, PagesOK
<1>2. CASE Overtaken(t)
  BY <1>1, <1>2 DEF Validated, Consistent
<1>3. CASE ~Overtaken(t)
  <2>1. tab[t].token = inval[t].session /\ inval[t].session # None
    BY <1>1, <1>3 DEF Overtaken, Consistent
  <2>2. /\ Restored(t) \in TabState /\ Restored(t).token = tab[t].token
        /\ Restored(t).user = Owner[inval[t].session]
    BY <1>1, <2>1 DEF Restored, TabState, Status, Validation
  <2>3. \A status \in {"unauthenticated", "recoverable-error"} :
           /\ Ended(status, None) \in TabState
           /\ Ended(status, None).status # "authenticated"
    BY EndedTyped DEF Ended, Status
  <2> QED  BY <1>3, <2>1, <2>2, <2>3 DEF Validated
<1> QED  BY <1>2, <1>3

\* What a step of some tab does to the pages and their validations.
PageStep(t) ==
  \/ UNCHANGED <<tab, inval>>
  \/ RetryBootstrap(t) \/ ServeValidation(t) \/ Reload(t) \/ FinishReconcile(t)
  \/ inval[t].pc = "idle" /\ StartReconcile(t, tab[t])
  \/ \E page \in TabState :
       /\ page.status = "authenticated" => page.token # None /\ page.user = Owner[page.token]
       /\ Publish(t, page)

LEMMA PageSteps ==
  ASSUME IInv, Next
  PROVE  \E t \in Tab : PageStep(t)
<1> USE DEF IInv
<1>1. ASSUME NEW t \in Tab, Page(t)  PROVE PageStep(t)
  BY <1>1 DEF Page, PageStep, Login, Logout, Unauthorized
<1>2. ASSUME NEW t \in Tab, ReceiveLogin(t)  PROVE PageStep(t)
  <2>1. login[t] \in Session
    BY <1>2 DEF ReceiveLogin, RequestsOK
  <2> QED  BY <1>2, <2>1, SignedTyped DEF ReceiveLogin, PageStep
<1>3. ASSUME NEW t \in Tab, NEW c \in Caller,
             Serve(t, c) \/ Fail(t, c) \/ Grant(t, c) \/ RetryRefresh(t, c) \/ RefreshInside(t)
               \/ LogoutFailed(t)
      PROVE  PageStep(t)
  BY <1>3 DEF Serve, Fail, Grant, RetryRefresh, RefreshInside, LogoutFailed, PageStep
<1>4. ASSUME NEW t \in Tab, HandleInvalidated(t)  PROVE PageStep(t)
  BY <1>4 DEF HandleInvalidated, PageStep
<1>5. \A status \in Status \ {"authenticated"}, token \in Session \cup {None} :
         Ended(status, token) \in TabState /\ Ended(status, token).status # "authenticated"
  BY EndedTyped DEF Ended
<1>6. ASSUME NEW t \in Tab, NEW c \in Caller, LockTimeout(t, c)  PROVE PageStep(t)
  <2>1. tab[t].token \in Session \cup {None} /\ "recoverable-error" \in Status \ {"authenticated"}
    BY DEF PagesOK, TabState, Status
  <2>2. Ended("recoverable-error", tab[t].token) \in TabState
        /\ Ended("recoverable-error", tab[t].token).status # "authenticated"
    BY <1>5, <2>1
  <2> QED  BY <1>6, <2>2 DEF LockTimeout, PageStep
<1>7. ASSUME NEW t \in Tab, NEW c \in Caller, Refreshed(t, c)  PROVE PageStep(t)
  <2>1. Publish(t, Signed(call[t][c].got.session)) /\ call[t][c].got.session \in Session
    BY <1>7, RefreshedTyped DEF Refreshed
  <2> QED  BY <2>1, SignedTyped DEF PageStep
<1>8. ASSUME NEW t \in Tab, NEW c \in Caller,
             SignedOut(t, c) \/ RefreshFailed(t, c) \/ LoggedOut(t)
      PROVE  PageStep(t)
  <2>1. PICK status \in {"unauthenticated", "recoverable-error"} : Publish(t, Ended(status, None))
    BY <1>8 DEF SignedOut, RefreshFailed, LoggedOut
  <2>2. Ended(status, None) \in TabState /\ Ended(status, None).status # "authenticated"
    BY <1>5 DEF Status
  <2> QED  BY <2>1, <2>2 DEF PageStep
<1> QED
  BY <1>1, <1>2, <1>3, <1>4, <1>6, <1>7, <1>8 DEF Next, Network, Settle, PageStep

LEMMA PagesKept ==
  ASSUME IInv, NEW t \in Tab, PageStep(t)
  PROVE  PagesOK' /\ \A u \in Tab : Consistent(u)'
<1>1. /\ tab[t] \in TabState /\ inval[t] \in Validation /\ Consistent(t)
      /\ tab \in [Tab -> TabState] /\ inval \in [Tab -> Validation]
  BY DEF IInv, PagesOK
<1>2. CASE UNCHANGED <<tab, inval>>
  BY <1>2 DEF IInv, PagesOK, Consistent
<1>3. CASE RetryBootstrap(t)
  <2>1. [tab[t] EXCEPT !.status = "loading"] \in TabState
    BY <1>1 DEF TabState, Status
  <2>2. /\ tab' = [tab EXCEPT ![t] = [tab[t] EXCEPT !.status = "loading"]]
        /\ inval' = [inval EXCEPT ![t] = inval[t]]
        /\ [tab[t] EXCEPT !.status = "loading"].status # "authenticated"
    BY <1>1, <1>3 DEF RetryBootstrap, TabState
  <2> QED  BY <1>1, <2>1, <2>2, OthersConsistent DEF Consistent
<1>4. CASE ServeValidation(t)
  <2>1. PICK reply \in Reply :
          inval' = [inval EXCEPT ![t] = [inval[t] EXCEPT !.pc = "answered", !.reply = reply]]
    BY <1>1, <1>4 DEF ServeValidation
  <2> DEFINE v == [inval[t] EXCEPT !.pc = "answered", !.reply = reply]
  <2>2. v \in Validation /\ v.session = inval[t].session /\ v.overtaken = inval[t].overtaken
    BY <1>1 DEF Validation
  <2>3. tab' = [tab EXCEPT ![t] = tab[t]] /\ inval[t].pc # "idle"
    BY <1>1, <1>4 DEF ServeValidation
  <2>4. inval' = [inval EXCEPT ![t] = v]
    BY <2>1
  <2> HIDE DEF v
  <2> QED  BY <1>1, <2>2, <2>3, <2>4, OthersConsistent DEF Consistent
<1>5. CASE Reload(t)
  <2>1. NewPage \in TabState /\ NewPage.status # "authenticated"
    BY DEF NewPage, TabState, Status
  <2> QED  BY <1>5, <2>1, NotReconcilingTyped, OthersConsistent DEF Reload
<1>6. CASE inval[t].pc = "idle" /\ StartReconcile(t, tab[t])
  BY <1>1, <1>6, StartReconcileConsistent
<1>7. CASE FinishReconcile(t)
  <2>1. inval[t].pc = "answered"
    BY <1>7 DEF FinishReconcile
  <2>2. CASE StartReconcile(t, Validated(t))
    BY <2>1, <2>2, ValidatedConsistent, StartReconcileConsistent
  <2>3. CASE tab' = [tab EXCEPT ![t] = Validated(t)] /\ inval' = [inval EXCEPT ![t] = NotReconciling]
    BY <2>1, <2>3, ValidatedConsistent, NotReconcilingTyped, OthersConsistent
  <2> QED  BY <1>7, <2>2, <2>3 DEF FinishReconcile
<1>8. ASSUME NEW page \in TabState, Publish(t, page),
             page.status = "authenticated" => page.token # None /\ page.user = Owner[page.token]
      PROVE  PagesOK' /\ \A u \in Tab : Consistent(u)'
  BY <1>8, PublishConsistent
<1> QED  BY <1>2, <1>3, <1>4, <1>5, <1>6, <1>7, <1>8 DEF PageStep

-----------------------------------------------------------------------------
LEMMA InvariantInit ==
  ASSUME Init
  PROVE  IInv
<1>1. NewPage \in TabState /\ NewPage.status # "authenticated"
  BY DEF NewPage, TabState, Status
<1>2. used \subseteq Session /\ alive \subseteq Session /\ cookie \in RefreshToken \cup {None}
  BY SessionAssumption, FreshTyped DEF Init
<1>3. OpenedCalls \in [Caller -> Request]
  <2>1. Operation("refresh", None) \in Request
    BY <1>2, OperationTyped DEF Kind
  <2> QED  BY <2>1, IdleTyped DEF OpenedCalls
<1>4. RequestsOK
  BY <1>2, <1>3 DEF Init, RequestsOK
<1> QED  BY <1>1, <1>4, NotReconcilingTyped DEF Init, IInv, PagesOK, Consistent

LEMMA InvariantKept ==
  ASSUME IInv, [Next]_vars
  PROVE  IInv'
<1>1. CASE Next
  <2>1. RequestsOK'
    BY <1>1, RequestsKept DEF IInv
  <2>2. PagesOK' /\ \A u \in Tab : Consistent(u)'
    BY <1>1, PageSteps, PagesKept
  <2> QED  BY <2>1, <2>2 DEF IInv
<1>2. CASE UNCHANGED vars
  BY <1>2 DEF vars, IInv, RequestsOK, PagesOK, Consistent
<1> QED  BY <1>1, <1>2

LEMMA Invariant == Spec => []IInv
<1>1. IInv /\ [Next]_vars => IInv'
  BY InvariantKept
<1> QED  BY <1>1, InvariantInit, PTL DEF Spec

-----------------------------------------------------------------------------
(* Types.                                                                  *)

\* The rest of the state, by itself.
CountersOK ==
  /\ alive \subseteq used /\ told \subseteq used \ alive
  /\ lock \in (Tab \X Caller) \cup {None}
  /\ again \in [Tab -> BOOLEAN]
  /\ inbox \in [Tab -> 0..MaxInbox]
  /\ failures \in 0..MaxFailures

LEMMA SessionsKept ==
  ASSUME CountersOK, Next
  PROVE  alive' \subseteq used' /\ told' \subseteq used' \ alive'
<1> USE DEF CountersOK
<1>1. ASSUME NEW t \in Tab, Page(t)
      PROVE  alive' \subseteq used' /\ told' \subseteq used' \ alive'
  <2>1. \/ UNCHANGED <<alive, used, told>>
        \/ \E s : s \notin used /\ used' = used \cup {s} /\ alive' = alive \cup {s} /\ told' = told
    BY <1>1 DEF Page, RetryBootstrap, Login, Logout, Unauthorized, Reload, bounds
  <2> QED  BY <2>1
<1>2. ASSUME NEW t \in Tab, NEW c \in Caller, Serve(t, c)
      PROVE  alive' \subseteq used' /\ told' \subseteq used' \ alive'
  <2>1. alive' \subseteq alive /\ UNCHANGED <<used, told>>
    BY <1>2, Zenon DEF Serve, bounds
  <2> QED  BY <2>1
<1>3. ASSUME NEW t \in Tab, LoggedOut(t)
      PROVE  alive' \subseteq used' /\ told' \subseteq used' \ alive'
  <2>1. UNCHANGED <<alive, used>> /\ told' \subseteq told \cup (Targets(call[t]["command"]) \ alive)
    BY <1>3 DEF LoggedOut
  <2>2. Targets(call[t]["command"]) \subseteq used
    BY DEF Targets
  <2> QED  BY <2>1, <2>2
<1>4. ASSUME NEW t \in Tab, NEW c \in Caller,
             ReceiveLogin(t) \/ ServeValidation(t) \/ Fail(t, c) \/ HandleInvalidated(t)
               \/ FinishReconcile(t) \/ Grant(t, c) \/ LockTimeout(t, c) \/ Refreshed(t, c)
               \/ SignedOut(t, c) \/ RetryRefresh(t, c) \/ RefreshFailed(t, c) \/ RefreshInside(t)
               \/ LogoutFailed(t)
      PROVE  alive' \subseteq used' /\ told' \subseteq used' \ alive'
  <2>1. UNCHANGED <<alive, used, told>>
    BY <1>4 DEF ReceiveLogin, ServeValidation, Fail, HandleInvalidated, FinishReconcile, Grant,
         LockTimeout, Refreshed, SignedOut, RetryRefresh, RefreshFailed, RefreshInside, LogoutFailed, bounds
  <2> QED  BY <2>1
<1> QED  BY <1>1, <1>2, <1>3, <1>4 DEF Next, Network, Settle, Caller

LEMMA LockKept ==
  ASSUME CountersOK, Next
  PROVE  lock' \in (Tab \X Caller) \cup {None}
<1> USE DEF CountersOK
<1>1. ASSUME NEW t \in Tab, Page(t)  PROVE lock' \in (Tab \X Caller) \cup {None}
  BY <1>1 DEF Page, RetryBootstrap, Login, Logout, Unauthorized, Reload
<1>2. ASSUME NEW t \in Tab, NEW c \in Caller, Grant(t, c)  PROVE lock' \in (Tab \X Caller) \cup {None}
  BY <1>2 DEF Grant
<1>3. ASSUME NEW t \in Tab, NEW c \in Caller,
             Refreshed(t, c) \/ SignedOut(t, c) \/ RefreshFailed(t, c) \/ LoggedOut(t) \/ LogoutFailed(t)
      PROVE  lock' \in (Tab \X Caller) \cup {None}
  BY <1>3 DEF Refreshed, SignedOut, RefreshFailed, LoggedOut, LogoutFailed, Release
<1>4. ASSUME NEW t \in Tab, NEW c \in Caller,
             ReceiveLogin(t) \/ ServeValidation(t) \/ Serve(t, c) \/ Fail(t, c) \/ HandleInvalidated(t)
               \/ FinishReconcile(t) \/ LockTimeout(t, c) \/ RetryRefresh(t, c) \/ RefreshInside(t)
      PROVE  lock' \in (Tab \X Caller) \cup {None}
  BY <1>4 DEF ReceiveLogin, ServeValidation, Serve, Fail, HandleInvalidated, FinishReconcile,
       LockTimeout,
       RetryRefresh, RefreshInside
<1> QED  BY <1>1, <1>2, <1>3, <1>4 DEF Next, Network, Settle, Caller

LEMMA InboxKept ==
  ASSUME CountersOK, Next
  PROVE  /\ again' \in [Tab -> BOOLEAN] /\ inbox' \in [Tab -> 0..MaxInbox]
         /\ failures' \in 0..MaxFailures
<1> USE BoundsAssumption DEF CountersOK
<1> DEFINE Kept == again' \in [Tab -> BOOLEAN] /\ inbox' \in [Tab -> 0..MaxInbox]
                     /\ failures' \in 0..MaxFailures
<1>1. ASSUME NEW t \in Tab, Reload(t)  PROVE Kept
  <2>1. again' = [again EXCEPT ![t] = FALSE] /\ inbox' = [inbox EXCEPT ![t] = 0]
        /\ failures' = failures + 1 /\ failures < MaxFailures
    BY <1>1 DEF Reload
  <2> QED  BY <2>1
<1>2. ASSUME NEW t \in Tab, NEW c \in Caller, Fail(t, c) \/ ServeValidation(t)  PROVE Kept
  BY <1>2 DEF Fail, ServeValidation
<1>3. ASSUME NEW t \in Tab, NEW c \in Caller, SignedOut(t, c) \/ LoggedOut(t)  PROVE Kept
  <2>1. inbox' \in [Tab -> 0..MaxInbox]
    BY <1>3 DEF SignedOut, LoggedOut, Broadcast
  <2> QED  BY <1>3, <2>1 DEF SignedOut, LoggedOut, bounds
<1>4. ASSUME NEW t \in Tab, HandleInvalidated(t)  PROVE Kept
  <2>1. inbox' \in [Tab -> 0..MaxInbox]
    BY <1>4 DEF HandleInvalidated
  <2>2. again' \in [Tab -> BOOLEAN]
    BY <1>4 DEF HandleInvalidated
  <2> QED  BY <1>4, <2>1, <2>2 DEF HandleInvalidated, bounds
<1>5. ASSUME NEW t \in Tab, FinishReconcile(t)  PROVE Kept
  BY <1>5 DEF FinishReconcile, bounds
<1>6. ASSUME NEW t \in Tab, NEW c \in Caller,
             RetryBootstrap(t) \/ Login(t) \/ Logout(t) \/ Unauthorized(t) \/ ReceiveLogin(t)
               \/ Serve(t, c) \/ Grant(t, c) \/ LockTimeout(t, c) \/ Refreshed(t, c)
               \/ RetryRefresh(t, c) \/ RefreshFailed(t, c) \/ RefreshInside(t) \/ LogoutFailed(t)
      PROVE  Kept
  <2>1. UNCHANGED <<again, inbox, failures>>
    BY <1>6 DEF RetryBootstrap, Login, Logout, Unauthorized, ReceiveLogin, Serve, Grant,
         LockTimeout,
         Refreshed, RetryRefresh, RefreshFailed, RefreshInside, LogoutFailed, bounds
  <2> QED  BY <2>1
<1> QED  BY <1>1, <1>2, <1>3, <1>4, <1>5, <1>6 DEF Next, Page, Network, Settle, Caller

\* Every variable of the browser keeps its type.
THEOREM TypeCorrect == Spec => []TypeOK
<1>1. Init => CountersOK
  BY SessionAssumption, BoundsAssumption DEF Init, CountersOK
<1>2. CountersOK /\ [Next]_vars => CountersOK'
  <2> SUFFICES ASSUME CountersOK, [Next]_vars  PROVE CountersOK'
    OBVIOUS
  <2>1. CASE Next
    BY <2>1, SessionsKept, LockKept, InboxKept DEF CountersOK
  <2>2. CASE UNCHANGED vars
    BY <2>2 DEF vars, CountersOK
  <2> QED  BY <2>1, <2>2
<1>3. IInv /\ CountersOK => TypeOK
  <2> SUFFICES ASSUME IInv, CountersOK  PROVE TypeOK
    OBVIOUS
  <2>1. call \in [Tab -> [Caller -> CallState]]
    BY DEF IInv, RequestsOK, Request
  <2> QED  BY <2>1 DEF IInv, RequestsOK, PagesOK, CountersOK, TypeOK
<1> QED  BY <1>1, <1>2, <1>3, Invariant, PTL DEF Spec

-----------------------------------------------------------------------------
\* The user that a tab shows is always the owner of its access token.
THEOREM SnapshotIsTheTokens == Spec => []SnapshotMatchesToken
<1>1. IInv => SnapshotMatchesToken
  BY DEF IInv, Consistent, SnapshotMatchesToken
<1> QED  BY <1>1, Invariant, PTL

\* The end of a validation takes nothing from a tab that has signed in meanwhile.
THEOREM NewerLoginIsKept == Spec => NewerLoginKept
<1>1. IInv /\ [Next]_vars =>
        [\A t \in Tab : inval[t].pc = "answered" /\ inval'[t] # inval[t]
                        /\ tab[t].status = "authenticated" /\ tab'[t] # NewPage
                          => tab'[t].token = tab[t].token]_vars
  <2> SUFFICES ASSUME IInv, Next, NEW t \in Tab, inval[t].pc = "answered", inval'[t] # inval[t],
                      tab[t].status = "authenticated", tab'[t] # NewPage
               PROVE  tab'[t].token = tab[t].token
    OBVIOUS
  <2>1. /\ tab \in [Tab -> TabState] /\ inval \in [Tab -> Validation]
        /\ tab[t] \in TabState /\ inval[t] \in Validation
        /\ tab[t].token # None /\ inval[t].overtaken = TRUE
    BY DEF IInv, PagesOK, Consistent, Validation
  <2>2. PICK u \in Tab : PageStep(u)
    BY PageSteps
  <2>3. u = t
    BY <2>1, <2>2 DEF PageStep, RetryBootstrap, ServeValidation, Reload, FinishReconcile,
         StartReconcile,
                      Publish
  <2>4. ASSUME NEW page, Publish(t, page)  PROVE FALSE
    BY <2>1, <2>4 DEF Publish, Validation
  <2>5. CASE FinishReconcile(t)
    <3>1. Validated(t) = tab[t]
      BY <2>1 DEF Validated, Overtaken
    <3>2. CASE StartReconcile(t, tab[t])
      BY <2>1, <3>2 DEF StartReconcile, TabState
    <3> QED  BY <2>1, <2>5, <3>1, <3>2 DEF FinishReconcile
  <2> QED
    BY <2>1, <2>2, <2>3, <2>4, <2>5 DEF PageStep, RetryBootstrap, ServeValidation, Reload
<1> QED  BY <1>1, Invariant, PTL DEF Spec, NewerLoginKept

-----------------------------------------------------------------------------
(* Ended sessions, in a browser with Web Locks. Refreshes and logouts take *)
(* turns, so a refresh that was granted is not overtaken by a logout; what *)
(* a logout ends beside it, in tabs that show it or are about to, is       *)
(* announced to them.                                                      *)

Sending == {"flight", "answered"}

LockHeld ==
  \A t \in Tab, c \in Caller : call[t][c].pc \in Sending => lock = <<t, c>>

\* A refresh that was granted is of a session that the API accepts until the tab has heard of it.
GrantedAlive ==
  \A t \in Tab, c \in Caller : Answered(t, c, {"refresh"}, "ok") => call[t][c].got.session \in alive

LoginsOpen ==
  \A t \in Tab : login[t] \in used \cup {None} /\ login[t] \notin told

Warned(t) == inbox[t] > 0 \/ again[t]

\* A validation that is about to show its session again knows of what ended it since.
Confirmed ==
  \A t \in Tab : inval[t].pc = "answered" /\ inval[t].reply = "ok" /\ ~inval[t].overtaken
                   /\ inval[t].session \in told => Warned(t)

LInv == IInv /\ CountersOK /\ LockHeld /\ GrantedAlive /\ LoginsOpen /\ Confirmed
          /\ EndedSessionsHidden

\* What a step does to the requests of the tabs.
Dropped(t, c) ==
  /\ \E r : r.pc \notin Sending /\ call' = [call EXCEPT ![t][c] = r]
  /\ lock' = lock \/ Release(t, c)
  /\ alive' = alive
Granted(t, c) ==
  /\ \E r : r.reply # "ok" /\ call' = [call EXCEPT ![t][c] = r]
  /\ lock = None /\ lock' = <<t, c>> /\ alive' = alive
GoesOn(t, c) ==
  /\ call[t][c].pc \in Sending
  /\ \E r : r.reply # "ok" /\ call' = [call EXCEPT ![t][c] = r]
  /\ lock' = lock /\ alive' = alive
CallStep(t, c) ==
  \/ UNCHANGED <<call, lock>> /\ alive \subseteq alive'
  \/ Dropped(t, c) \/ Granted(t, c) \/ GoesOn(t, c) \/ Serve(t, c) \/ Reload(t)

LEMMA QueuedFirst ==
  ASSUME WebLocks, NEW kind, NEW token
  PROVE  Operation(kind, token).pc = "queued"
BY DEF Operation, Idle

LEMMA TransitionDropped ==
  ASSUME WebLocks, NEW t \in Tab, RunTransition(t), UNCHANGED <<alive, lock>>
  PROVE  CallStep(t, "transition")
<1>1. Operation("refresh", None).pc \notin Sending
  BY QueuedFirst DEF Sending
<1> QED  BY <1>1 DEF RunTransition, CallStep, Dropped

LEMMA CallSteps ==
  ASSUME WebLocks, IInv, Next
  PROVE  \E t \in Tab, c \in Caller : CallStep(t, c)
<1>0. {"transition", "command"} = Caller /\ Idle.pc \notin Sending /\ Idle.reply # "ok"
  BY DEF Caller, Idle, Sending
<1>1. ASSUME NEW t \in Tab, RetryBootstrap(t) \/ Unauthorized(t)
      PROVE  CallStep(t, "transition")
  BY <1>1, TransitionDropped DEF RetryBootstrap, Unauthorized
<1>2. ASSUME NEW t \in Tab, NEW page, StartReconcile(t, page), UNCHANGED <<alive, lock>>
      PROVE  CallStep(t, "transition")
  BY <1>2, TransitionDropped DEF StartReconcile, CallStep
<1>3. ASSUME NEW t \in Tab, HandleInvalidated(t) \/ FinishReconcile(t)
      PROVE  CallStep(t, "transition")
  <2>1. UNCHANGED <<alive, lock>>
        /\ (UNCHANGED call \/ \E page : StartReconcile(t, page))
    BY <1>3 DEF HandleInvalidated, FinishReconcile
  <2> QED  BY <1>2, <2>1 DEF CallStep
<1>4. ASSUME NEW t \in Tab, Login(t) \/ ReceiveLogin(t) \/ ServeValidation(t)
      PROVE  CallStep(t, "command")
  BY <1>4 DEF Login, ReceiveLogin, ServeValidation, CallStep
<1>5. ASSUME NEW t \in Tab, Logout(t)
      PROVE  CallStep(t, "command")
  <2>1. PICK kind : call' = [call EXCEPT ![t]["command"] = Operation(kind, tab[t].token)]
    BY <1>5 DEF Logout
  <2>2. Operation(kind, tab[t].token).pc \notin Sending
    BY QueuedFirst DEF Sending
  <2>3. UNCHANGED <<alive, lock>>
    BY <1>5 DEF Logout
  <2> QED  BY <2>1, <2>2, <2>3 DEF CallStep, Dropped
<1>6. ASSUME NEW t \in Tab, NEW c \in Caller, Grant(t, c)
      PROVE  CallStep(t, c)
  <2>1. Sent(call[t][c].kind, tab[t].token, 0).reply # "ok"
    BY DEF Sent, Idle
  <2> QED  BY <1>6, <2>1 DEF Grant, CallStep, Granted
<1>7. ASSUME NEW t \in Tab, NEW c \in Caller, Fail(t, c)
      PROVE  CallStep(t, c)
  <2>1. call' = [call EXCEPT ![t][c] =
                   [call[t][c] EXCEPT !.pc = "answered", !.reply = "error", !.got = None]]
    BY <1>7 DEF Fail, IInv, RequestsOK
  <2>2. [call[t][c] EXCEPT !.pc = "answered", !.reply = "error", !.got = None].reply # "ok"
    BY DEF IInv, RequestsOK, Request, CallState
  <2> QED  BY <1>7, <2>1, <2>2 DEF Fail, CallStep, GoesOn, Sending
<1>8. ASSUME NEW t \in Tab, NEW c \in Caller, RetryRefresh(t, c)
      PROVE  CallStep(t, c)
  <2>1. Sent("refresh", None, call[t][c].try + 1).reply # "ok"
    BY DEF Sent, Idle
  <2> QED  BY <1>8, <2>1 DEF RetryRefresh, Answered, CallStep, GoesOn, Sending
<1>9. ASSUME NEW t \in Tab, RefreshInside(t)
      PROVE  CallStep(t, "command")
  <2>1. Sent("refresh", None, 0).reply # "ok"
    BY DEF Sent, Idle
  <2> QED  BY <1>9, <2>1 DEF RefreshInside, Answered, CallStep, GoesOn, Sending
<1>10. ASSUME NEW t \in Tab, NEW c \in Caller, Refreshed(t, c)
       PROVE  CallStep(t, c)
  <2>1. CASE c = "transition"
    BY <1>0, <1>10, <2>1 DEF Refreshed, CallStep, Dropped
  <2>2. CASE c # "transition"
    <3>1. PICK r : r = [Idle EXCEPT !.pc = "flight", !.kind = "logoutAllAgain",
                                    !.sent = call[t][c].got.session]
      OBVIOUS
    <3>2. r.reply # "ok"
      BY <3>1 DEF Idle
    <3>3. call' = [call EXCEPT ![t][c] = r] /\ UNCHANGED <<alive, lock>>
      BY <1>10, <2>2, <3>1 DEF Refreshed
    <3> QED  BY <1>10, <3>2, <3>3 DEF Refreshed, Answered, CallStep, GoesOn, Sending
  <2> QED  BY <2>1, <2>2
<1>11. ASSUME NEW t \in Tab, NEW c \in Caller,
              LockTimeout(t, c) \/ SignedOut(t, c) \/ RefreshFailed(t, c)
       PROVE  CallStep(t, c)
  BY <1>0, <1>11 DEF LockTimeout, SignedOut, RefreshFailed, CallStep, Dropped
<1>12. ASSUME NEW t \in Tab, LoggedOut(t) \/ LogoutFailed(t)
       PROVE  CallStep(t, "command")
  BY <1>0, <1>12 DEF LoggedOut, LogoutFailed, CallStep, Dropped
<1>13. ASSUME NEW t \in Tab, NEW c \in Caller, Serve(t, c) \/ Reload(t)
       PROVE  CallStep(t, c)
  BY <1>13 DEF CallStep
<1> QED
  BY <1>0, <1>1, <1>3, <1>4, <1>5, <1>6, <1>7, <1>8, <1>9, <1>10, <1>11, <1>12, <1>13
     DEF Next, Page, Network, Settle

\* The API answers one request: what the others carry may become stale, and nothing else.
LEMMA ServeOne ==
  ASSUME RequestsOK, NEW t \in Tab, NEW c \in Caller, Serve(t, c)
  PROVE  /\ call[t][c].pc = "flight" /\ call'[t][c].pc = "answered"
         /\ \A u \in Tab, d \in Caller :
               <<u, d>> # <<t, c>> => call'[u][d].pc = call[u][d].pc
         /\ Answered(t, c, {"refresh"}, "ok")' => call'[t][c].got.session \in alive'
<1>0. call[t][c] \in Request /\ \A u \in Tab, d \in Caller : call[u][d] \in Request
  BY DEF RequestsOK
<1> DEFINE r == call[t][c]
           rotates(reply) == r.kind = "refresh" /\ reply = "ok"
           replayed(reply) == r.kind = "refresh" /\ reply = "unauthorized"
           got(reply) == IF rotates(reply) THEN Fresh(r.sent.session) ELSE None
           past(reply, ref) == IF rotates(reply) THEN Stale(ref, r.sent.session) ELSE ref
<1>1. PICK reply \in Accepted(r) :
        /\ alive' = alive \ (CASE replayed(reply) /\ r.sent # None -> {r.sent.session}
                                [] r.kind # "refresh" /\ reply = "ok" -> Targets(r)
                                [] OTHER -> {})
        /\ call' = [u \in Tab |-> [d \in Caller |->
              IF u = t /\ d = c
              THEN [r EXCEPT !.pc = "answered", !.reply = reply, !.got = got(reply)]
              ELSE IF call[u][d].kind \in {"refresh", "logout"}
                   THEN [call[u][d] EXCEPT !.sent = past(reply, @), !.got = past(reply, @)]
                   ELSE call[u][d]]]
  BY Zenon DEF Serve
<1>2. rotates(reply) => alive' = alive /\ r.sent.session \in alive
  BY <1>1 DEF Accepted
<1>3. call'[t][c] = [r EXCEPT !.pc = "answered", !.reply = reply, !.got = got(reply)]
  BY <1>1
<1>4. /\ call'[t][c].pc = "answered" /\ call'[t][c].kind = r.kind
      /\ call'[t][c].reply = reply /\ call'[t][c].got = got(reply)
  <2> HIDE DEF got, r
  <2>1. r \in Request
    BY <1>0 DEF r
  <2> QED  BY <1>3, <2>1 DEF Request, CallState
<1>5. Answered(t, c, {"refresh"}, "ok")' => call'[t][c].got.session \in alive'
  <2>1. Answered(t, c, {"refresh"}, "ok")' => call'[t][c].kind = "refresh" /\ call'[t][c].reply = "ok"
    BY DEF Answered
  <2>2. rotates(reply) => got(reply).session = r.sent.session
    BY DEF Fresh
  <2> QED  BY <1>2, <1>4, <2>1, <2>2
<1> HIDE DEF past
<1>6. ASSUME NEW u \in Tab, NEW d \in Caller, <<u, d>> # <<t, c>>
      PROVE  call'[u][d].pc = call[u][d].pc
  <2>1. call'[u][d] = IF call[u][d].kind \in {"refresh", "logout"}
                      THEN [call[u][d] EXCEPT !.sent = past(reply, @), !.got = past(reply, @)]
                      ELSE call[u][d]
    BY <1>1, <1>6
  <2> QED  BY <1>0, <2>1 DEF Request, CallState
<1>7. call[t][c].pc = "flight"
  BY DEF Serve
<1> QED  BY <1>4, <1>5, <1>6, <1>7

\* After a reload no request of the tab is on its way, and the lock is not the tab's.
LEMMA ReloadDrops ==
  ASSUME WebLocks, RequestsOK, CountersOK, NEW t \in Tab, Reload(t)
  PROVE  /\ \A u \in Tab, d \in Caller :
               /\ u = t => call'[u][d].pc \notin Sending
               /\ u # t => call'[u][d] = call[u][d]
         /\ alive \subseteq alive'
         /\ \A u \in Tab, d \in Caller : u # t /\ lock = <<u, d>> => lock' = lock
<1>1. ASSUME NEW d \in Caller  PROVE call'[t][d].pc \notin Sending
  BY DEF Reload, RequestsOK, Idle, Sending
<1>2. \A u \in Tab, d \in Caller : u # t => call'[u][d] = call[u][d]
  BY DEF Reload, RequestsOK
<1>3. alive \subseteq alive'
  BY DEF Reload
<1>4. \A u \in Tab, d \in Caller : u # t /\ lock = <<u, d>> => lock' = lock
  BY DEF Reload
<1> QED  BY <1>1, <1>2, <1>3, <1>4

\* Only the holder of the lock is in conversation with the API, and what it is granted holds.
LEMMA LocksKept ==
  ASSUME WebLocks, IInv, CountersOK, LockHeld, GrantedAlive, Next
  PROVE  LockHeld' /\ GrantedAlive'
<1>0. call \in [Tab -> [Caller -> Request]] /\ RequestsOK
  BY DEF IInv, RequestsOK
<1>1. PICK t \in Tab, c \in Caller : CallStep(t, c)
  BY CallSteps
<1>2. CASE UNCHANGED <<call, lock>> /\ alive \subseteq alive'
  BY <1>2 DEF LockHeld, GrantedAlive, Answered
<1>3. ASSUME NEW r, call' = [call EXCEPT ![t][c] = r]
      PROVE  /\ call'[t][c] = r
             /\ \A u \in Tab, d \in Caller : <<u, d>> # <<t, c>> => call'[u][d] = call[u][d]
  BY <1>0, <1>3
<1>4. CASE Dropped(t, c)
  <2>1. PICK r : r.pc \notin Sending /\ call' = [call EXCEPT ![t][c] = r]
    BY <1>4 DEF Dropped
  <2>2. ASSUME NEW u \in Tab, NEW d \in Caller, call'[u][d].pc \in Sending
        PROVE  /\ lock' = <<u, d>> /\ call'[u][d] = call[u][d]
    <3>0. ~(u = t /\ d = c)
      BY <1>3, <2>1, <2>2
    <3>1. <<u, d>> # <<t, c>> /\ call'[u][d] = call[u][d]
      BY <1>3, <2>1, <3>0
    <3>2. lock = <<u, d>>
      BY <2>2, <3>1 DEF LockHeld
    <3> QED  BY <1>4, <3>1, <3>2 DEF Dropped, Release
  <2>3. alive' = alive
    BY <1>4 DEF Dropped
  <2> QED  BY <2>2, <2>3 DEF LockHeld, GrantedAlive, Answered, Sending
<1>5. CASE Granted(t, c)
  <2>1. PICK r : r.reply # "ok" /\ call' = [call EXCEPT ![t][c] = r]
    BY <1>5 DEF Granted
  <2>2. \A u \in Tab, d \in Caller : call[u][d].pc \notin Sending
    BY <1>5, HolderAssumption DEF Granted, LockHeld
  <2>3. ASSUME NEW u \in Tab, NEW d \in Caller, call'[u][d].pc \in Sending
        PROVE  lock' = <<u, d>> /\ call'[u][d].reply # "ok"
    <3>1. u = t /\ d = c
      BY <1>3, <2>1, <2>2, <2>3
    <3> QED  BY <1>3, <1>5, <2>1, <3>1 DEF Granted
  <2> QED  BY <2>3 DEF LockHeld, GrantedAlive, Answered, Sending
<1>6. CASE GoesOn(t, c)
  <2>1. PICK r : r.reply # "ok" /\ call' = [call EXCEPT ![t][c] = r]
    BY <1>6 DEF GoesOn
  <2>2. lock = <<t, c>> /\ UNCHANGED <<lock, alive>>
    BY <1>6 DEF GoesOn, LockHeld
  <2>3. ASSUME NEW u \in Tab, NEW d \in Caller, call'[u][d].pc \in Sending
        PROVE  lock' = <<u, d>> /\ call'[u][d].reply # "ok"
    <3>1. u = t /\ d = c
      BY <1>3, <2>1, <2>2, <2>3 DEF LockHeld
    <3> QED  BY <1>3, <2>1, <2>2, <3>1
  <2> QED  BY <2>3 DEF LockHeld, GrantedAlive, Answered, Sending
<1>7. CASE Serve(t, c)
  <2>1. lock = <<t, c>> /\ lock' = lock
    <3>1. call[t][c].pc = "flight"
      BY <1>7 DEF Serve
    <3> QED  BY <1>7, <3>1 DEF LockHeld, Sending, Serve
  <2>2. ASSUME NEW u \in Tab, NEW d \in Caller, call'[u][d].pc \in Sending
        PROVE  u = t /\ d = c
    BY <1>0, <1>7, <2>1, <2>2, ServeOne DEF LockHeld
  <2> QED  BY <1>0, <1>7, <2>1, <2>2, ServeOne DEF LockHeld, GrantedAlive, Answered, Sending
<1>8. CASE Reload(t)
  <2>1. ASSUME NEW u \in Tab, NEW d \in Caller, call'[u][d].pc \in Sending
        PROVE  lock' = <<u, d>> /\ call'[u][d] = call[u][d]
    BY <1>0, <1>8, <2>1, ReloadDrops DEF LockHeld
  <2>2. alive \subseteq alive'
    BY <1>0, <1>8, ReloadDrops
  <2> QED  BY <2>1, <2>2 DEF LockHeld, GrantedAlive, Answered, Sending
<1> QED  BY <1>1, <1>2, <1>4, <1>5, <1>6, <1>7, <1>8 DEF CallStep

-----------------------------------------------------------------------------
(* Logins that wait for their answer are of sessions in use that no logout *)
(* was said to have ended.                                                 *)

LEMMA LoginsKept ==
  ASSUME IInv, CountersOK, LoginsOpen, Next
  PROVE  LoginsOpen'
<1>0. login \in [Tab -> Session \cup {None}] /\ told \subseteq used /\ used \subseteq Session
      /\ None \notin told /\ \A t \in Tab : login[t] \in used \cup {None} /\ login[t] \notin told
  BY SessionAssumption DEF IInv, RequestsOK, CountersOK, LoginsOpen
<1>1. ASSUME NEW t \in Tab, Login(t)  PROVE LoginsOpen'
  <2>1. PICK s \in Session \ used : used' = used \cup {s} /\ login' = [login EXCEPT ![t] = s]
    BY <1>1 DEF Login
  <2>2. told' = told
    BY <1>1 DEF Login, bounds
  <2> QED  BY <1>0, <2>1, <2>2 DEF LoginsOpen
<1>2. ASSUME NEW t \in Tab, ReceiveLogin(t) \/ Reload(t)  PROVE LoginsOpen'
  <2>1. login' = [login EXCEPT ![t] = None] /\ used \subseteq used' /\ told' = told
    BY <1>2 DEF ReceiveLogin, Reload, bounds
  <2> QED  BY <1>0, <2>1 DEF LoginsOpen
<1>3. ASSUME NEW t \in Tab, LoggedOut(t)  PROVE LoginsOpen'
  <2>1. /\ UNCHANGED <<login, used>>
        /\ told' = told \cup ((Targets(call[t]["command"]) \ alive) \ {login[u] : u \in Tab})
    BY <1>3 DEF LoggedOut
  <2> QED  BY <1>0, <2>1 DEF LoginsOpen
<1>4. ASSUME NEW t \in Tab, NEW c \in Caller,
             RetryBootstrap(t) \/ Logout(t) \/ Unauthorized(t) \/ ServeValidation(t) \/ Serve(t, c)
               \/ Fail(t, c) \/ HandleInvalidated(t) \/ FinishReconcile(t) \/ Grant(t, c)
               \/ LockTimeout(t, c) \/ Refreshed(t, c) \/ SignedOut(t, c) \/ RetryRefresh(t, c)
               \/ RefreshFailed(t, c) \/ RefreshInside(t) \/ LogoutFailed(t)
      PROVE  LoginsOpen'
  <2>1. UNCHANGED <<login, used, told>>
    BY <1>4 DEF RetryBootstrap, Logout, Unauthorized, ServeValidation, Serve, Fail,
         HandleInvalidated,
         FinishReconcile, Grant, LockTimeout, Refreshed, SignedOut, RetryRefresh, RefreshFailed,
         RefreshInside, LogoutFailed, bounds
  <2> QED  BY <1>0, <2>1 DEF LoginsOpen
<1> QED  BY <1>1, <1>2, <1>3, <1>4 DEF Next, Page, Network, Settle, Caller

-----------------------------------------------------------------------------
(* What tabs show, and know.                                               *)

\* The tab shows no session that is over, or is warned of it; and neither will its validation.
Hides(t) ==
  /\ tab[t].status = "authenticated" /\ tab[t].token \in told => Warned(t)
  /\ inval[t].pc = "answered" /\ inval[t].reply = "ok" /\ ~inval[t].overtaken
       /\ inval[t].session \in told => Warned(t)

LEMMA HidesAll == (Confirmed /\ EndedSessionsHidden) <=> \A t \in Tab : Hides(t)
BY DEF Confirmed, EndedSessionsHidden, Hides, Warned

\* A tab publishes a page that it may show; of what ends with it the others are told.
LEMMA PublishHides ==
  ASSUME IInv, \A u \in Tab : Hides(u), NEW t \in Tab, NEW page \in TabState, Publish(t, page),
         page.status = "authenticated" => page.token \notin told',
         \A u \in Tab \ {t} : (told' # told \/ Warned(u)) => Warned(u)'
  PROVE  \A u \in Tab : Hides(u)'
<1>1. tab \in [Tab -> TabState] /\ inval \in [Tab -> Validation]
  BY DEF IInv, PagesOK
<1>2. tab' = [tab EXCEPT ![t] = page]
  BY DEF Publish
<1>3. inval' = [inval EXCEPT ![t] = [inval[t] EXCEPT !.overtaken = (inval[t].pc # "idle")]]
  BY <1>1 DEF Publish
<1>4. Hides(t)'
  <2>1. tab'[t] = page
    BY <1>1, <1>2
  <2>2. inval'[t].pc = inval[t].pc /\ inval'[t].overtaken = (inval[t].pc # "idle")
    BY <1>1, <1>3 DEF Validation
  <2> QED  BY <2>1, <2>2 DEF Hides
<1>5. ASSUME NEW u \in Tab, u # t  PROVE Hides(u)'
  <2>1. tab'[u] = tab[u] /\ inval'[u] = inval[u]
    BY <1>1, <1>2, <1>3, <1>5
  <2>2. CASE told' # told
    BY <1>5, <2>2 DEF Hides
  <2>3. CASE told' = told
    BY <1>5, <2>1, <2>3 DEF Hides
  <2> QED  BY <2>2, <2>3
<1> QED  BY <1>4, <1>5

\* A tab goes over to a page that shows nobody, and to a validation that is not answered.
LEMMA StepBackHides ==
  ASSUME IInv, \A u \in Tab : Hides(u), NEW t \in Tab, NEW page, NEW v,
         tab' = [tab EXCEPT ![t] = page], inval' = [inval EXCEPT ![t] = v],
         page.status # "authenticated", v.pc # "answered", told' = told,
         \A u \in Tab \ {t} : Warned(u) => Warned(u)'
  PROVE  \A u \in Tab : Hides(u)'
<1>1. tab \in [Tab -> TabState] /\ inval \in [Tab -> Validation]
  BY DEF IInv, PagesOK
<1>2. Hides(t)'
  BY <1>1 DEF Hides
<1>3. ASSUME NEW u \in Tab, u # t  PROVE Hides(u)'
  <2>1. tab'[u] = tab[u] /\ inval'[u] = inval[u]
    BY <1>1, <1>3
  <2> QED  BY <1>3, <2>1 DEF Hides
<1> QED  BY <1>2, <1>3

LEMMA StartReconcileHides ==
  ASSUME IInv, \A u \in Tab : Hides(u), NEW t \in Tab, NEW page \in TabState, StartReconcile(t, page),
         told' = told, \A u \in Tab \ {t} : Warned(u) => Warned(u)'
  PROVE  \A u \in Tab : Hides(u)'
<1>1. CASE page.token = None \/ page.status # "authenticated"
  <2>1. Ended("unauthenticated", None).status # "authenticated" /\ NotReconciling.pc # "answered"
    BY DEF Ended, NotReconciling
  <2> QED  BY <1>1, <2>1, StepBackHides DEF StartReconcile
<1>2. CASE ~(page.token = None \/ page.status # "authenticated")
  <2>1. [page EXCEPT !.status = "loading", !.user = None].status # "authenticated"
    BY DEF TabState
  <2>2. [NotReconciling EXCEPT !.pc = "flight", !.session = page.token].pc # "answered"
    BY DEF NotReconciling
  <2> QED  BY <1>2, <2>1, <2>2, StepBackHides DEF StartReconcile
<1> QED  BY <1>1, <1>2

LEMMA BroadcastWarns ==
  ASSUME CountersOK, MaxInbox # 0, NEW t \in Tab, Broadcast(t)
  PROVE  \A u \in Tab \ {t} : Warned(u)'
<1>1. ASSUME NEW u \in Tab, u # t  PROVE inbox'[u] > 0
  BY <1>1, BoundsAssumption DEF CountersOK, Broadcast
<1> QED  BY <1>1 DEF Warned

LEMMA HidesKept ==
  ASSUME WebLocks, MaxInbox # 0, LInv, Next
  PROVE  \A u \in Tab : Hides(u)'
<1>0. /\ IInv /\ CountersOK /\ \A u \in Tab : Hides(u)
      /\ tab \in [Tab -> TabState] /\ inval \in [Tab -> Validation]
      /\ told \subseteq used \ alive
  BY HidesAll DEF LInv, IInv, PagesOK, CountersOK
<1>1. ASSUME NEW t \in Tab, NEW c \in Caller,
             Login(t) \/ Logout(t) \/ Unauthorized(t) \/ Serve(t, c) \/ Fail(t, c) \/ Grant(t, c)
               \/ RetryRefresh(t, c) \/ RefreshInside(t) \/ LogoutFailed(t)
      PROVE  \A u \in Tab : Hides(u)'
  <2>1. UNCHANGED <<tab, inval, inbox, again, told>>
    BY <1>1 DEF Login, Logout, Unauthorized, Serve, Fail, Grant, RetryRefresh, RefreshInside,
         LogoutFailed, bounds
  <2> QED  BY <1>0, <2>1 DEF Hides, Warned
<1>2. \A status \in Status \ {"authenticated"}, token \in Session \cup {None} :
         Ended(status, token) \in TabState /\ Ended(status, token).status # "authenticated"
  BY EndedTyped DEF Ended
<1>3. ASSUME NEW t \in Tab, NEW c \in Caller, LockTimeout(t, c)
      PROVE  \A u \in Tab : Hides(u)'
  <2>1. UNCHANGED <<inbox, again, told>>
    BY <1>3 DEF LockTimeout, bounds
  <2>2. CASE UNCHANGED <<tab, inval>>
    BY <1>0, <2>1, <2>2 DEF Hides, Warned
  <2>3. CASE Publish(t, Ended("recoverable-error", tab[t].token))
    <3>1. tab[t].token \in Session \cup {None} /\ "recoverable-error" \in Status \ {"authenticated"}
      BY <1>0 DEF TabState, Status
    <3>2. \A u \in Tab \ {t} : (told' # told \/ Warned(u)) => Warned(u)'
      BY <2>1 DEF Warned
    <3> QED  BY <1>0, <1>2, <2>3, <3>1, <3>2, PublishHides
  <2> QED  BY <1>3, <2>2, <2>3 DEF LockTimeout
<1>4. ASSUME NEW t \in Tab, NEW c \in Caller, RefreshFailed(t, c)
      PROVE  \A u \in Tab : Hides(u)'
  <2>1. UNCHANGED <<inbox, again, told>> /\ Publish(t, Ended("recoverable-error", None))
    BY <1>4 DEF RefreshFailed, bounds
  <2>2. \A u \in Tab \ {t} : (told' # told \/ Warned(u)) => Warned(u)'
    BY <2>1 DEF Warned
  <2>3. "recoverable-error" \in Status \ {"authenticated"}
    BY DEF Status
  <2> QED  BY <1>0, <1>2, <2>1, <2>2, <2>3, PublishHides
<1>5. ASSUME NEW t \in Tab, NEW c \in Caller, SignedOut(t, c) \/ LoggedOut(t)
      PROVE  \A u \in Tab : Hides(u)'
  <2>1. Broadcast(t) /\ Publish(t, Ended("unauthenticated", None))
    BY <1>5 DEF SignedOut, LoggedOut
  <2>2. \A u \in Tab \ {t} : Warned(u)'
    BY <1>0, <2>1, BroadcastWarns
  <2>3. "unauthenticated" \in Status \ {"authenticated"}
    BY DEF Status
  <2> QED  BY <1>0, <1>2, <2>1, <2>2, <2>3, PublishHides
<1>6. ASSUME NEW t \in Tab, NEW s \in Session, Publish(t, Signed(s)), s \notin told,
             UNCHANGED <<inbox, again, told>>
      PROVE  \A u \in Tab : Hides(u)'
  <2>1. Signed(s) \in TabState /\ Signed(s).token = s
    BY SignedTyped DEF Signed
  <2>2. \A u \in Tab \ {t} : (told' # told \/ Warned(u)) => Warned(u)'
    BY <1>6 DEF Warned
  <2> QED  BY <1>0, <1>6, <2>1, <2>2, PublishHides
<1>7. ASSUME NEW t \in Tab, ReceiveLogin(t)
      PROVE  \A u \in Tab : Hides(u)'
  <2>1. login[t] \in Session /\ login[t] \notin told
    BY <1>7 DEF ReceiveLogin, LInv, IInv, RequestsOK, LoginsOpen
  <2>2. Publish(t, Signed(login[t])) /\ UNCHANGED <<inbox, again, told>>
    BY <1>7 DEF ReceiveLogin, bounds
  <2> QED  BY <1>6, <2>1, <2>2
<1>8. ASSUME NEW t \in Tab, NEW c \in Caller, Refreshed(t, c)
      PROVE  \A u \in Tab : Hides(u)'
  <2>1. call[t][c].got.session \in alive
    BY <1>8 DEF Refreshed, LInv, GrantedAlive
  <2>2. call[t][c].got.session \in Session /\ call[t][c].got.session \notin told
    BY <1>0, <2>1 DEF IInv, RequestsOK
  <2>3. Publish(t, Signed(call[t][c].got.session)) /\ UNCHANGED <<inbox, again, told>>
    BY <1>8 DEF Refreshed, bounds
  <2> QED  BY <1>6, <2>2, <2>3
<1>9. ASSUME NEW t \in Tab, RetryBootstrap(t)
      PROVE  \A u \in Tab : Hides(u)'
  <2>1. tab' = [tab EXCEPT ![t].status = "loading"] /\ UNCHANGED <<inval, inbox, again, told>>
    BY <1>9 DEF RetryBootstrap, bounds
  <2>2. ASSUME NEW u \in Tab  PROVE Hides(u)'
    <3>1. tab'[u].status = "authenticated" => tab'[u] = tab[u]
      BY <1>0, <2>1 DEF TabState
    <3> QED  BY <1>0, <2>1, <3>1 DEF Hides, Warned
  <2> QED  BY <2>2
<1>10. ASSUME NEW t \in Tab, Reload(t)
       PROVE  \A u \in Tab : Hides(u)'
  <2>1. /\ tab' = [tab EXCEPT ![t] = NewPage] /\ inval' = [inval EXCEPT ![t] = NotReconciling]
        /\ told' = told
        /\ again' = [again EXCEPT ![t] = FALSE] /\ inbox' = [inbox EXCEPT ![t] = 0]
    BY <1>10 DEF Reload
  <2>2. \A u \in Tab \ {t} : Warned(u) => Warned(u)'
    BY <1>0, <2>1 DEF Warned, CountersOK
  <2>3. NewPage.status # "authenticated" /\ NotReconciling.pc # "answered"
    BY DEF NewPage, NotReconciling
  <2> QED  BY <1>0, <2>1, <2>2, <2>3, StepBackHides
<1>11. ASSUME NEW t \in Tab, HandleInvalidated(t)
       PROVE  \A u \in Tab : Hides(u)'
  <2>1. inbox' = [inbox EXCEPT ![t] = @ - 1] /\ told' = told
    BY <1>11 DEF HandleInvalidated, bounds
  <2>2. CASE inval[t].pc # "idle"
    <3>1. again' = [again EXCEPT ![t] = TRUE] /\ UNCHANGED <<tab, inval>>
      BY <1>11, <2>2 DEF HandleInvalidated
    <3>2. \A u \in Tab : Warned(u) => Warned(u)'
      BY <1>0, <2>1, <3>1 DEF Warned, CountersOK
    <3> QED  BY <1>0, <2>1, <3>1, <3>2 DEF Hides
  <2>3. CASE inval[t].pc = "idle"
    <3>1. StartReconcile(t, tab[t]) /\ UNCHANGED again
      BY <1>11, <2>3 DEF HandleInvalidated
    <3>2. \A u \in Tab \ {t} : Warned(u) => Warned(u)'
      BY <1>0, <2>1, <3>1 DEF Warned, CountersOK
    <3> QED  BY <1>0, <2>1, <3>1, <3>2, StartReconcileHides
  <2> QED  BY <2>2, <2>3
<1>12. ASSUME NEW t \in Tab, ServeValidation(t)
       PROVE  \A u \in Tab : Hides(u)'
  <2>1. PICK reply \in Reply \ {"none", "conflict"} :
          /\ reply = "ok" => inval[t].session \in alive
          /\ inval' = [inval EXCEPT ![t].pc = "answered", ![t].reply = reply]
    BY <1>12 DEF ServeValidation
  <2>2. UNCHANGED <<tab, inbox, again, told>>
    BY <1>12 DEF ServeValidation
  <2>3. inval'[t].reply = reply /\ inval'[t].session = inval[t].session
    BY <1>0, <2>1 DEF Validation
  <2>4. Hides(t)'
    BY <1>0, <2>1, <2>2, <2>3 DEF Hides, Warned
  <2>5. ASSUME NEW u \in Tab, u # t  PROVE Hides(u)'
    <3>1. inval'[u] = inval[u]
      BY <1>0, <2>1, <2>5
    <3> QED  BY <1>0, <2>2, <3>1 DEF Hides, Warned
  <2> QED  BY <2>4, <2>5
<1>13. ASSUME NEW t \in Tab, FinishReconcile(t)
       PROVE  \A u \in Tab : Hides(u)'
  <2>1. inval[t].pc = "answered" /\ UNCHANGED <<inbox, told>>
    BY <1>13 DEF FinishReconcile, bounds
  <2>2. Validated(t) \in TabState
    BY <1>0, <2>1, ValidatedConsistent
  <2>3. CASE again[t]
    <3>1. StartReconcile(t, Validated(t)) /\ again' = [again EXCEPT ![t] = FALSE]
      BY <1>13, <2>3 DEF FinishReconcile
    <3>2. \A u \in Tab \ {t} : Warned(u) => Warned(u)'
      BY <1>0, <2>1, <3>1 DEF Warned, CountersOK
    <3> QED  BY <1>0, <2>1, <2>2, <3>1, <3>2, StartReconcileHides
  <2>4. CASE ~again[t]
    <3>1. /\ tab' = [tab EXCEPT ![t] = Validated(t)] /\ inval' = [inval EXCEPT ![t] = NotReconciling]
          /\ UNCHANGED again
      BY <1>13, <2>4 DEF FinishReconcile
    <3>2. tab'[t] = Validated(t) /\ inval'[t] = NotReconciling /\ (Warned(t) <=> Warned(t)')
      BY <1>0, <2>1, <3>1 DEF Warned
    <3>3. Validated(t).status = "authenticated" /\ Validated(t).token \in told => Warned(t)
      <4>1. CASE Overtaken(t)
        BY <1>0, <4>1 DEF Validated, Hides
      <4>2. CASE ~Overtaken(t) /\ inval[t].reply = "ok"
        <5>1. Validated(t) = Restored(t) /\ Restored(t).token = tab[t].token
          BY <1>0, <4>2 DEF Validated, Restored, TabState
        <5>2. tab[t].token = inval[t].session /\ ~inval[t].overtaken
          BY <4>2 DEF Overtaken
        <5> QED  BY <1>0, <2>1, <4>2, <5>1, <5>2 DEF Hides
      <4>3. CASE ~Overtaken(t) /\ inval[t].reply # "ok"
        BY <4>3 DEF Validated, Ended
      <4> QED  BY <4>1, <4>2, <4>3
    <3>4. Hides(t)'
      BY <2>1, <3>2, <3>3 DEF Hides, NotReconciling
    <3>5. ASSUME NEW u \in Tab, u # t  PROVE Hides(u)'
      <4>1. tab'[u] = tab[u] /\ inval'[u] = inval[u] /\ (Warned(u) <=> Warned(u)')
        BY <1>0, <2>1, <3>1, <3>5 DEF Warned
      <4> QED  BY <1>0, <2>1, <4>1 DEF Hides
    <3> QED  BY <3>4, <3>5
  <2> QED  BY <2>3, <2>4
<1> QED
  BY <1>1, <1>3, <1>4, <1>5, <1>7, <1>8, <1>9, <1>10, <1>11, <1>12, <1>13
     DEF Next, Page, Network, Settle, Caller

\* Where tabs take turns by Web Locks, a tab shows a session that an announced logout has ended only
\* while the invalidation is on its way to it.
THEOREM EndedSessionsAreHidden ==
  ASSUME WebLocks, MaxInbox # 0
  PROVE  Spec => []EndedSessionsHidden
<1>1. Init => CountersOK /\ LockHeld /\ GrantedAlive /\ LoginsOpen /\ Confirmed /\ EndedSessionsHidden
  <2> SUFFICES ASSUME Init
               PROVE  CountersOK /\ LockHeld /\ GrantedAlive /\ LoginsOpen /\ Confirmed
                        /\ EndedSessionsHidden
    OBVIOUS
  <2>1. CountersOK
    BY SessionAssumption, BoundsAssumption DEF Init, CountersOK
  <2>2. \A t \in Tab, c \in Caller : call[t][c].pc \notin Sending
    <3>1. Operation("refresh", None).pc \notin Sending /\ Idle.pc \notin Sending
      BY QueuedFirst DEF Idle, Sending
    <3> QED  BY <3>1 DEF Init, OpenedCalls
  <2>3. told = {} /\ \A t \in Tab : inval[t].pc = "idle" /\ login[t] = None /\ tab[t].status = "loading"
    BY DEF Init, NotReconciling, NewPage
  <2> QED  BY <2>1, <2>2, <2>3 DEF LockHeld, GrantedAlive, LoginsOpen, Confirmed,
       EndedSessionsHidden,
                Answered, Sending
<1>2. CountersOK /\ [Next]_vars => CountersOK'
  <2> SUFFICES ASSUME CountersOK, [Next]_vars  PROVE CountersOK'
    OBVIOUS
  <2>1. CASE Next
    BY <2>1, SessionsKept, LockKept, InboxKept DEF CountersOK
  <2>2. CASE UNCHANGED vars
    BY <2>2 DEF vars, CountersOK
  <2> QED  BY <2>1, <2>2
<1>3. LInv /\ IInv' /\ [Next]_vars => LInv'
  <2> SUFFICES ASSUME LInv, IInv', [Next]_vars  PROVE LInv'
    OBVIOUS
  <2>1. CASE Next
    <3>1. LockHeld' /\ GrantedAlive' /\ LoginsOpen' /\ CountersOK'
      BY <1>2, <2>1, LocksKept, LoginsKept DEF LInv
    <3>2. (Confirmed /\ EndedSessionsHidden)'
      <4>1. \A u \in Tab : Hides(u)'
        BY <2>1, HidesKept
      <4> QED  BY <4>1 DEF Confirmed, EndedSessionsHidden, Hides, Warned
    <3> QED  BY <3>1, <3>2 DEF LInv
  <2>2. CASE UNCHANGED vars
    BY <2>2 DEF vars, LInv, CountersOK, LockHeld, GrantedAlive, LoginsOpen, Confirmed,
         EndedSessionsHidden, Answered, Warned
  <2> QED  BY <2>1, <2>2
<1>4. LInv => EndedSessionsHidden
  BY DEF LInv
<1>5. IInv /\ CountersOK /\ LockHeld /\ GrantedAlive /\ LoginsOpen /\ Confirmed /\ EndedSessionsHidden
        => LInv
  BY DEF LInv
<1> QED  BY <1>1, <1>3, <1>4, <1>5, Invariant, PTL DEF Spec
-----------------------------------------------------------------------------
(* Loading screens, with or without Web Locks.                             *)

Waits(t) ==
  tab[t].status = "loading" =>
    call[t]["transition"].pc # "idle" \/ (inval[t].pc # "idle" /\ ~Overtaken(t))

\* What a step of one tab leaves of the others.
LeavesOthers(t) ==
  \A u \in Tab \ {t} : /\ tab'[u] = tab[u] /\ inval'[u] = inval[u]
                       /\ call'[u]["transition"].pc = call[u]["transition"].pc

LEMMA OthersWait ==
  ASSUME NEW t \in Tab, SpinnersAnswered, LeavesOthers(t), Waits(t)'
  PROVE  SpinnersAnswered'
BY DEF SpinnersAnswered, LeavesOthers, Waits, Overtaken

\* A page other than the loading screen is published, by a step that changes one request.
LEMMA PublishedWaits ==
  ASSUME IInv, NEW t \in Tab, NEW c \in Caller, NEW page, page.status # "loading", NEW r,
         Publish(t, page), call' = call \/ call' = [call EXCEPT ![t][c] = r]
  PROVE  LeavesOthers(t) /\ Waits(t)'
BY DEF IInv, PagesOK, RequestsOK, Publish, LeavesOthers, Waits

\* A request goes on, is sent, or is none of the transition's.
LEMMA RequestWaits ==
  ASSUME IInv, SpinnersAnswered, NEW t \in Tab, NEW c \in Caller, NEW r, UNCHANGED <<tab, inval>>,
         call' = [call EXCEPT ![t][c] = r], c = "command" \/ r.pc # "idle"
  PROVE  LeavesOthers(t) /\ Waits(t)'
BY DEF IInv, PagesOK, RequestsOK, SpinnersAnswered, LeavesOthers, Waits, Overtaken, Caller

LEMMA TransitionWaits ==
  ASSUME IInv, NEW t \in Tab, RunTransition(t)
  PROVE  /\ call'[t]["transition"].pc # "idle"
         /\ \A u \in Tab \ {t} : call'[u]["transition"].pc = call[u]["transition"].pc
<1>1. "transition" \in Caller /\ call \in [Tab -> [Caller -> Request]]
  BY DEF Caller, IInv, RequestsOK
<1>2. Operation("refresh", None).pc # "idle"
  BY DEF Operation, Sent, Idle
<1> QED  BY <1>1, <1>2 DEF RunTransition

LEMMA StartReconcileWaits ==
  ASSUME IInv, NEW t \in Tab, NEW page, StartReconcile(t, page)
  PROVE  LeavesOthers(t) /\ Waits(t)'
<1>1. CASE page.token = None \/ page.status # "authenticated"
  BY <1>1 DEF StartReconcile, IInv, PagesOK, LeavesOthers, Waits, Ended
<1>2. CASE ~(page.token = None \/ page.status # "authenticated")
  <2>1. RunTransition(t)
    BY <1>2 DEF StartReconcile
  <2>2. \A u \in Tab \ {t} : tab'[u] = tab[u] /\ inval'[u] = inval[u]
    BY <1>2 DEF StartReconcile, IInv, PagesOK
  <2> QED  BY <2>1, <2>2, TransitionWaits DEF LeavesOthers, Waits
<1> QED  BY <1>1, <1>2

LEMMA PageWaits ==
  ASSUME IInv, SpinnersAnswered, NEW t \in Tab, Page(t)
  PROVE  LeavesOthers(t) /\ Waits(t)'
<1>1. CASE RetryBootstrap(t) \/ Unauthorized(t)
  <2>1. RunTransition(t) /\ UNCHANGED inval
    BY <1>1 DEF RetryBootstrap, Unauthorized
  <2>2. \A u \in Tab \ {t} : tab'[u] = tab[u]
    BY <1>1 DEF RetryBootstrap, Unauthorized, IInv, PagesOK
  <2> QED  BY <2>1, <2>2, TransitionWaits DEF LeavesOthers, Waits
<1>2. CASE Login(t)
  BY <1>2 DEF Login, SpinnersAnswered, LeavesOthers, Waits, Overtaken
<1>3. CASE Logout(t)
  <2>1. PICK kind : call' = [call EXCEPT ![t]["command"] = Operation(kind, tab[t].token)]
    BY <1>3 DEF Logout
  <2>2. UNCHANGED <<tab, inval>> /\ "command" \in Caller
    BY <1>3 DEF Logout, Caller
  <2> QED  BY <2>1, <2>2, RequestWaits
<1>4. CASE Reload(t)
  <2>1. \A u \in Tab \ {t} : /\ tab'[u] = tab[u] /\ inval'[u] = inval[u]
                             /\ call'[u]["transition"] = call[u]["transition"]
    BY <1>4 DEF Reload, IInv, PagesOK, RequestsOK
  <2>2. call'[t]["transition"].pc # "idle"
    BY <1>4 DEF Reload, IInv, RequestsOK, Caller, Idle
  <2> QED  BY <2>1, <2>2 DEF LeavesOthers, Waits
<1> QED  BY <1>1, <1>2, <1>3, <1>4 DEF Page

LEMMA ServeWaits ==
  ASSUME IInv, SpinnersAnswered, NEW t \in Tab, NEW c \in Caller, Serve(t, c)
  PROVE  LeavesOthers(t) /\ Waits(t)'
<1>1. UNCHANGED <<tab, inval>> /\ "transition" \in Caller
  BY DEF Serve, Caller
<1>2. \A u \in Tab : u # t => call'[u]["transition"].pc = call[u]["transition"].pc
  BY <1>1, ServeOne DEF IInv
<1>3. call'[t][c].pc = "answered"
  BY ServeOne DEF IInv
<1>4. call'[t]["transition"].pc # "idle" \/ call'[t]["transition"].pc = call[t]["transition"].pc
  <2>1. CASE c = "transition"
    BY <1>3, <2>1
  <2>2. CASE c # "transition"
    BY <1>1, <2>2, ServeOne DEF IInv
  <2> QED  BY <2>1, <2>2
<1> QED  BY <1>1, <1>2, <1>4 DEF SpinnersAnswered, LeavesOthers, Waits, Overtaken

LEMMA ValidationWaits ==
  ASSUME IInv, SpinnersAnswered, NEW t \in Tab,
         ReceiveLogin(t) \/ ServeValidation(t) \/ HandleInvalidated(t) \/ FinishReconcile(t)
  PROVE  LeavesOthers(t) /\ Waits(t)'
<1>0. /\ tab \in [Tab -> TabState] /\ inval \in [Tab -> Validation]
      /\ tab[t] \in TabState /\ inval[t] \in Validation /\ Waits(t)
  BY DEF IInv, PagesOK, SpinnersAnswered, Waits
<1>1. CASE ReceiveLogin(t)
  BY <1>0, <1>1 DEF ReceiveLogin, Publish, Signed, LeavesOthers, Waits
<1>2. CASE ServeValidation(t)
  <2>1. PICK reply :
          inval' = [inval EXCEPT ![t] = [inval[t] EXCEPT !.pc = "answered", !.reply = reply]]
    BY <1>0, <1>2 DEF ServeValidation
  <2> DEFINE v == [inval[t] EXCEPT !.pc = "answered", !.reply = reply]
  <2>2. v.pc = "answered" /\ v.session = inval[t].session /\ v.overtaken = inval[t].overtaken
    BY <1>0 DEF Validation
  <2>3. inval' = [inval EXCEPT ![t] = v] /\ UNCHANGED <<tab, call>> /\ inval[t].pc # "idle"
    BY <1>2, <2>1 DEF ServeValidation
  <2> HIDE DEF v
  <2> QED  BY <1>0, <2>2, <2>3 DEF LeavesOthers, Waits, Overtaken
<1>3. CASE HandleInvalidated(t)
  <2>1. UNCHANGED <<tab, inval, call>> \/ StartReconcile(t, tab[t])
    BY <1>3 DEF HandleInvalidated
  <2>2. CASE UNCHANGED <<tab, inval, call>>
    BY <1>0, <2>2 DEF LeavesOthers, Waits, Overtaken
  <2> QED  BY <2>1, <2>2, StartReconcileWaits
<1>4. CASE FinishReconcile(t)
  <2>1. CASE StartReconcile(t, Validated(t))
    BY <2>1, StartReconcileWaits
  <2>2. CASE UNCHANGED call /\ tab' = [tab EXCEPT ![t] = Validated(t)]
             /\ inval' = [inval EXCEPT ![t] = NotReconciling]
    <3>1. Overtaken(t) => Validated(t) = tab[t]
      BY DEF Validated
    <3>2. ~Overtaken(t) => Validated(t).status # "loading"
      BY <1>0 DEF Validated, Restored, Ended, TabState
    <3>3. tab'[t] = Validated(t) /\ call' = call
      BY <1>0, <2>2
    <3>4. LeavesOthers(t)
      BY <1>0, <2>2 DEF LeavesOthers
    <3> QED  BY <1>0, <3>1, <3>2, <3>3, <3>4 DEF Waits
  <2> QED  BY <1>4, <2>1, <2>2 DEF FinishReconcile
<1> QED  BY <1>1, <1>2, <1>3, <1>4

LEMMA SettleWaits ==
  ASSUME IInv, SpinnersAnswered, NEW t \in Tab, NEW c \in Caller,
         Fail(t, c) \/ Grant(t, c) \/ LockTimeout(t, c) \/ Settle(t, c)
  PROVE  LeavesOthers(t) /\ Waits(t)'
<1>0. Idle.pc = "idle" /\ "command" \in Caller /\ Caller = {"transition", "command"}
  BY DEF Idle, Caller
<1>1. CASE Fail(t, c)
  <2>1. call' = [call EXCEPT ![t][c] =
                   [call[t][c] EXCEPT !.pc = "answered", !.reply = "error", !.got = None]]
    BY <1>1 DEF Fail, IInv, RequestsOK
  <2>2. [call[t][c] EXCEPT !.pc = "answered", !.reply = "error", !.got = None].pc # "idle"
    BY DEF IInv, RequestsOK, Request, CallState
  <2> QED  BY <1>1, <2>1, <2>2, RequestWaits DEF Fail
<1>2. CASE Grant(t, c)
  <2>1. Sent(call[t][c].kind, tab[t].token, 0).pc # "idle"
    BY DEF Sent, Idle
  <2> QED  BY <1>2, <2>1, RequestWaits DEF Grant
<1>3. CASE LockTimeout(t, c)
  <2>1. Ended("recoverable-error", tab[t].token).status # "loading"
    BY DEF Ended
  <2> QED  BY <1>0, <1>3, <2>1, PublishedWaits, RequestWaits DEF LockTimeout
<1>4. CASE Refreshed(t, c)
  <2>1. Signed(call[t][c].got.session).status # "loading"
    BY DEF Signed
  <2>2. \E r : call' = [call EXCEPT ![t][c] = r]
    BY <1>4 DEF Refreshed
  <2> QED  BY <1>4, <2>1, <2>2, PublishedWaits DEF Refreshed
<1>5. CASE SignedOut(t, c)
  <2>1. Ended("unauthenticated", None).status # "loading"
    BY DEF Ended
  <2> QED  BY <1>5, <2>1, PublishedWaits DEF SignedOut
<1>6. CASE RetryRefresh(t, c)
  <2>1. Sent("refresh", None, call[t][c].try + 1).pc # "idle"
    BY DEF Sent, Idle
  <2> QED  BY <1>6, <2>1, RequestWaits DEF RetryRefresh
<1>7. CASE RefreshFailed(t, c)
  <2>1. Ended("recoverable-error", None).status # "loading"
    BY DEF Ended
  <2> QED  BY <1>7, <2>1, PublishedWaits DEF RefreshFailed
<1>8. CASE LoggedOut(t)
  <2>1. Ended("unauthenticated", None).status # "loading"
    BY DEF Ended
  <2> QED  BY <1>0, <1>8, <2>1, PublishedWaits DEF LoggedOut
<1>9. CASE RefreshInside(t)
  BY <1>0, <1>9, RequestWaits DEF RefreshInside
<1>10. CASE LogoutFailed(t)
  BY <1>0, <1>10, RequestWaits DEF LogoutFailed
<1> QED
  BY <1>1, <1>2, <1>3, <1>4, <1>5, <1>6, <1>7, <1>8, <1>9, <1>10 DEF Settle

LEMMA SpinnersKept ==
  ASSUME IInv, SpinnersAnswered, Next
  PROVE  SpinnersAnswered'
<1>1. \E t \in Tab : LeavesOthers(t) /\ Waits(t)'
  BY PageWaits, ServeWaits, ValidationWaits, SettleWaits DEF Next, Network
<1> QED  BY <1>1, OthersWait

LEMMA SpinnersInit ==
  ASSUME Init
  PROVE  SpinnersAnswered
<1>1. Operation("refresh", None).pc # "idle" /\ "transition" \in Caller
  BY DEF Operation, Sent, Idle, Caller
<1>2. \A t \in Tab : call[t]["transition"] = Operation("refresh", None)
  BY <1>1 DEF Init, OpenedCalls
<1> QED  BY <1>1, <1>2 DEF SpinnersAnswered

\* A tab leaves its loading screen only by an answer, and one is always due: of the refresh that
\* runs, or of a validation that nothing has overtaken.
THEOREM LoadingTabsAreAnswered == Spec => []SpinnersAnswered
<1>1. IInv /\ SpinnersAnswered /\ [Next]_vars => SpinnersAnswered'
  <2> SUFFICES ASSUME IInv, SpinnersAnswered, [Next]_vars  PROVE SpinnersAnswered'
    OBVIOUS
  <2>1. CASE UNCHANGED vars
    BY <2>1 DEF vars, SpinnersAnswered, Overtaken
  <2> QED  BY <2>1, SpinnersKept
<1> QED  BY <1>1, Invariant, SpinnersInit, PTL DEF Spec
=============================================================================
