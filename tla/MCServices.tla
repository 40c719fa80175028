----------------------------- MODULE MCServices -----------------------------
(***************************************************************************)
(* The instances of independent services, checked in one run: a behaviour  *)
(* is one of CleanupJobs, Accounts, RateLimits, GoogleSignIn or            *)
(* UploadStream, and leaves the variables of the others at their initial   *)
(* values.  The slugs of workspaces (Slugs) are an algorithm: TLC evaluates*)
(* their assumptions over all the names of the instance.                   *)
(***************************************************************************)
EXTENDS CleanupJobs, Accounts, Slugs, RateLimits, GoogleSignIn, UploadStream

CONSTANTS g1, g2, m1, m2, c1, c2, ip, id1, id2

VARIABLE part

allVars == <<part, vars, accountVars, rateVars, googleVars, uploadVars>>

MCRequest ==
    {[kind |-> "google", subject |-> g1, mail |-> m1, authoritative |-> FALSE],
     [kind |-> "google", subject |-> g1, mail |-> m2, authoritative |-> TRUE],
     [kind |-> "google", subject |-> g2, mail |-> m1, authoritative |-> TRUE],
     [kind |-> "sign_up", mail |-> m1], [kind |-> "login", mail |-> m1]}

\* Two accounts or tokens behind one address.
MCPlan == c1 :> <<ip, id1>> @@ c2 :> <<ip, id2>>
MCLimit == ip :> 2 @@ id1 :> 1 @@ id2 :> 1

MCFallback == <<"y">>
MCSuffix == {<<"x">>, <<"y">>, <<"x", "y">>}

ServicesInit ==
    /\ Init /\ AccountsInit /\ RateInit /\ GoogleInit /\ UploadInit
    /\ part \in {"accounts", "limits", "jobs", "google", "uploads"}
    /\ part # "jobs" => mode = "apply"
    /\ part # "uploads" => file.good /\ work.declared = 1

ServicesNext ==
    /\ UNCHANGED part
    /\ \/ part = "jobs" /\ Next
          /\ UNCHANGED <<accountVars, rateVars, googleVars, uploadVars>>
       \/ part = "accounts" /\ AccountsNext
          /\ UNCHANGED <<vars, rateVars, googleVars, uploadVars>>
       \/ part = "limits" /\ RateNext
          /\ UNCHANGED <<vars, accountVars, googleVars, uploadVars>>
       \/ part = "google" /\ GoogleNext
          /\ UNCHANGED <<vars, accountVars, rateVars, uploadVars>>
       \/ part = "uploads" /\ UploadNext
          /\ UNCHANGED <<vars, accountVars, rateVars, googleVars>>

(* The fairness of CleanupJobs and of UploadStream, in their behaviours.   *)
ServicesSpec ==
    /\ ServicesInit /\ [][ServicesNext]_allVars
    /\ WF_vars(part = "jobs" /\ Tick) /\ WF_vars(part = "jobs" /\ Due)
    /\ \A i \in JobId : WF_vars(part = "jobs" /\ RecordStep(i))
    /\ \A w \in Worker : WF_vars(part = "jobs" /\ WorkerStep(w))
    /\ WF_uploadVars(part = "uploads" /\ Progress)

-----------------------------------------------------------------------------
(* UploadStream: every upload request is answered, whoever breaks off once *)
(* its parser listens.                                                     *)
UploadAnswered == part = "uploads" => RequestAnswered
=============================================================================
