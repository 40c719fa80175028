---------------------------- MODULE GoogleSignIn ----------------------------
(***************************************************************************)
(* The round trip of a sign-in with Google: GET /auth/google, the consent  *)
(* page, and GET /auth/google/callback (AuthController, GoogleOAuthService,*)
(* GoogleOAuthTransactionService, GoogleOAuthProviderService).             *)
(*                                                                         *)
(* The state, nonce and PKCE verifier of a transaction live only in three  *)
(* cookies, set and cleared together, that all tabs of a browser share.    *)
(* Transactions are numbered; number n stands for the state, nonce,        *)
(* verifier and challenge that create() drew, and for the code that Google *)
(* issues with that nonce and challenge.  What the account tables do with  *)
(* the profile is the part of Accounts.                                    *)
(***************************************************************************)
EXTENDS Naturals

CONSTANTS
    Tab,        \* tabs of one browser
    MaxStarts,  \* transactions
    MaxVisits   \* callback requests

ASSUME StartsAssumption == MaxStarts \in Nat /\ MaxVisits \in Nat

NoStart == 0
Transaction == 1..MaxStarts

VARIABLES
    tab,        \* the tabs
    cookie,     \* the transaction in the browser's cookies, or NoStart
    started,    \* transactions drawn so far
    redeemed,   \* codes that Google's token endpoint has seen
    settled,    \* transactions of which the browser has got a callback's answer
    visits      \* callback requests sent so far

googleVars == <<tab, cookie, started, redeemed, settled, visits>>

(* "url": the transaction of the address the tab is at; "result": what the *)
(* consent page returned; "sent": the cookies of its callback request.     *)
TabState == [pc : {"login", "starting", "redirected", "consent", "returned",
                   "validating", "exchanging", "answered", "landing"},
             url : Transaction \cup {NoStart}, sent : Transaction \cup {NoStart},
             result : {"none", "code", "access_denied", "server_error"},
             late : BOOLEAN, clears : BOOLEAN,
             status : {"none", "success", "cancelled", "error", "refused"}]

Opened == [pc |-> "login", url |-> NoStart, sent |-> NoStart, result |-> "none",
           late |-> FALSE, clears |-> FALSE, status |-> "none"]

GoogleInit ==
    /\ tab = [t \in Tab |-> Opened]
    /\ cookie = NoStart /\ started = 0 /\ redeemed = {} /\ settled = {} /\ visits = 0

TabAt(t, pc) == tab[t].pc = pc
Move(t, new) == tab' = [tab EXCEPT ![t] = new]
AnswerCallback(t, status, clears) ==
    Move(t, [tab[t] EXCEPT !.pc = "answered", !.status = status, !.clears = clears])

-----------------------------------------------------------------------------
(* "Continue with Google" leaves the page.                                 *)
ContinueWithGoogle(t) ==
    /\ TabAt(t, "login")
    /\ Move(t, [tab[t] EXCEPT !.pc = "starting"])
    /\ UNCHANGED <<cookie, started, redeemed, settled, visits>>

(* googleLogin: a new transaction, unless a limit or the configuration     *)
(* refuses.                                                                *)
GoogleLogin(t) ==
    /\ TabAt(t, "starting")
    /\ \/ /\ started < MaxStarts
          /\ started' = started + 1
          /\ Move(t, [tab[t] EXCEPT !.pc = "redirected", !.url = started + 1])
       \/ Move(t, Opened) /\ UNCHANGED started
    /\ UNCHANGED <<cookie, redeemed, settled, visits>>

(* The redirect arrives: its cookies replace those of another start.       *)
Redirected(t) ==
    /\ TabAt(t, "redirected")
    /\ cookie' = tab[t].url
    /\ Move(t, [tab[t] EXCEPT !.pc = "consent"])
    /\ UNCHANGED <<started, redeemed, settled, visits>>

(* Google's consent page.                                                  *)
Consent(t) ==
    /\ TabAt(t, "consent")
    /\ \E r \in {"code", "access_denied", "server_error"} :
          Move(t, [tab[t] EXCEPT !.pc = "returned", !.result = r])
    /\ UNCHANGED <<cookie, started, redeemed, settled, visits>>

(* The callback's request takes along the cookies of this moment.          *)
Visit(t) ==
    /\ TabAt(t, "returned") /\ visits < MaxVisits
    /\ visits' = visits + 1
    /\ Move(t, [tab[t] EXCEPT !.pc = "validating", !.sent = cookie,
                              !.late = tab[t].url \in settled])
    /\ UNCHANGED <<cookie, started, redeemed, settled>>

(* verifyState                                                             *)
StateMatches(t) == tab[t].sent # NoStart /\ tab[t].sent = tab[t].url

(* A refusal by the rate limiter comes before the cookies are cleared; from*)
(* there on every answer clears them, whichever transaction they hold.     *)
Validate(t) ==
    /\ TabAt(t, "validating")
    /\ \/ AnswerCallback(t, "refused", FALSE)
       \/ /\ ~StateMatches(t)
          /\ AnswerCallback(t, "error", TRUE)
       \/ /\ StateMatches(t) /\ tab[t].result # "code"
          /\ AnswerCallback(t, IF tab[t].result = "access_denied" THEN "cancelled" ELSE "error", TRUE)
       \/ /\ StateMatches(t) /\ tab[t].result = "code"
          /\ Move(t, [tab[t] EXCEPT !.pc = "exchanging"])
    /\ UNCHANGED <<cookie, started, redeemed, settled, visits>>

(* Google exchanges a code once, against its own challenge.  The token's   *)
(* nonce and audience must fit; the exchange may time out, before or after *)
(* Google has seen the code, the token be refused, or the account tables   *)
(* refuse the profile.                                                     *)
ExchangeCode(t) ==
    /\ TabAt(t, "exchanging")
    /\ \/ /\ tab[t].url \notin redeemed /\ tab[t].sent = tab[t].url
          /\ redeemed' = redeemed \cup {tab[t].url}
          /\ AnswerCallback(t, "success", TRUE)
       \/ /\ redeemed' \in {redeemed, redeemed \cup {tab[t].url}}
          /\ AnswerCallback(t, "error", TRUE)
    /\ UNCHANGED <<cookie, started, settled, visits>>

(* Mutant: an answer other than success leaves the cookies.                *)
CallbackAnsweredKeeping(t) ==
    /\ TabAt(t, "answered")
    /\ cookie' = IF tab[t].clears /\ tab[t].status = "success" THEN NoStart ELSE cookie
    /\ settled' = IF tab[t].clears THEN settled \cup {tab[t].url} ELSE settled
    /\ Move(t, [tab[t] EXCEPT !.pc = "landing"])
    /\ UNCHANGED <<started, redeemed, visits>>

CallbackAnswered(t) ==
    /\ TabAt(t, "answered")
    /\ cookie' = IF tab[t].clears THEN NoStart ELSE cookie
    /\ settled' = IF tab[t].clears THEN settled \cup {tab[t].url} ELSE settled
    /\ Move(t, [tab[t] EXCEPT !.pc = "landing"])
    /\ UNCHANGED <<started, redeemed, visits>>

(* The answer is lost, and with it what it does to the cookies.            *)
Lose(t) ==
    /\ TabAt(t, "answered")
    /\ Move(t, [tab[t] EXCEPT !.pc = "landing", !.status = "refused"])
    /\ UNCHANGED <<cookie, started, redeemed, settled, visits>>

(* The callback's address is opened again: a reload, the history, or a     *)
(* duplicate of another tab.                                               *)
Again(t) ==
    /\ tab[t].pc \in {"login", "landing"}
    /\ \E u \in Tab :
          /\ tab[u].pc \in {"validating", "exchanging", "answered", "landing"}
          /\ Move(t, [tab[u] EXCEPT !.pc = "returned", !.status = "none"])
    /\ UNCHANGED <<cookie, started, redeemed, settled, visits>>

(* The landing page leads back to the login page.                          *)
Return(t) ==
    /\ TabAt(t, "landing") /\ tab[t].status # "success"
    /\ Move(t, Opened)
    /\ UNCHANGED <<cookie, started, redeemed, settled, visits>>

(* The cookies live for ten minutes.                                       *)
CookiesExpire ==
    /\ cookie' = NoStart
    /\ UNCHANGED <<tab, started, redeemed, settled, visits>>

GoogleStep(t) ==
    \/ ContinueWithGoogle(t) \/ GoogleLogin(t) \/ Redirected(t) \/ Consent(t) \/ Visit(t)
    \/ Validate(t) \/ ExchangeCode(t) \/ CallbackAnswered(t) \/ Lose(t) \/ Again(t) \/ Return(t)

GoogleNext == CookiesExpire \/ \E t \in Tab : GoogleStep(t)

GoogleSpec == GoogleInit /\ [][GoogleNext]_googleVars

-----------------------------------------------------------------------------
GoogleTypeOK ==
    /\ tab \in [Tab -> TabState] /\ cookie \in Transaction \cup {NoStart}
    /\ started \in 0..MaxStarts /\ redeemed \subseteq Transaction
    /\ settled \subseteq Transaction /\ visits \in 0..MaxVisits

(* What goes to Google's token endpoint is a code with the verifier of the *)
(* start that asked for it, however many starts and callbacks share the    *)
(* cookies; and a callback that this browser has seen answered, in success,*)
(* failure or cancellation, is never acted on again.                       *)
CodeMeetsItsVerifier ==
    \A t \in Tab : TabAt(t, "exchanging") => tab[t].sent = tab[t].url /\ ~tab[t].late
=============================================================================
