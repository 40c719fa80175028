--------------------------- MODULE AccountsProofs ---------------------------
(***************************************************************************)
(* What the unique constraints and the transactions of Accounts ensure for *)
(* any number of requests, subjects and addresses.                         *)
(***************************************************************************)
EXTENDS Accounts, TLAPS

Google(j) == job[j].ask.kind = "google"
Account(j) == users[job[j].ask.mail]
Linked(j) == identities[job[j].ask.subject]

\* What a request knows of the tables at each of its steps.  The rows it was told of are committed
\* for good; those it has inserted are there for nobody else.
JobOK(j) ==
    /\ job[j].pc # "new" => job[j].ask \in Request
    /\ job[j].pc = "new" => job[j].answer = "none"
    /\ job[j].answer = "IDENTITY_CONFLICT" => job[j].pc = "done" /\ Google(j)
    /\ job[j].pc \in {"exchange", "find_identity", "find_user", "create_identity"} => Google(j)
    /\ job[j].made => job[j].pc \in {"create_identity", "commit"} /\ Account(j) = Nothing
    /\ job[j].linked => job[j].pc = "commit" /\ Google(j) /\ Linked(j) = Nothing
    /\ job[j].pc = "create_user" => Google(j) \/ job[j].ask.kind = "sign_up"
    /\ \/ job[j].pc = "create_identity" \/ job[j].linked
       => job[j].made \/ (job[j].ask.authoritative /\ Account(j) # Nothing)
    /\ job[j].pc = "commit" /\ ~Google(j) => job[j].made /\ job[j].ask.kind = "sign_up"
    /\ job[j].pc = "commit" /\ Google(j) => job[j].linked \/ (Linked(j) # Nothing /\ ~job[j].made)
    /\ job[j].attempt = 1 =>
         /\ job[j].pc \in {"find_identity", "find_user"} => Account(j) # Nothing \/ Linked(j) # Nothing
         /\ job[j].pc = "find_user" => Account(j) # Nothing
         /\ job[j].pc \notin {"exchange", "create_user"}

\* The unique constraints, among the rows of open transactions.
Exclusive ==
    \A j, k \in Job : j # k =>
        /\ job[j].made /\ job[k].made => job[j].ask.mail # job[k].ask.mail
        /\ job[j].linked /\ job[k].linked =>
             job[j].ask.subject # job[k].ask.subject /\ job[j].ask.mail # job[k].ask.mail

\* The request that linked an identity is over.
LinkersDone ==
    \A s \in Subject : identities[s] # Nothing =>
        identities[s].linker \in Job /\ job[identities[s].linker].pc = "done"

IInv == /\ AccountsTypeOK
        /\ \A j \in Job : JobOK(j)
        /\ Exclusive
        /\ LinkersDone
        /\ LinkedByOwner
        /\ AccountReachable
        /\ RefusalIsReal
-----------------------------------------------------------------------------
(* What a step makes of its request.                                       *)

Steps == {"new", "exchange", "find_identity", "find_user", "create_user",
          "create_identity", "commit", "find_password", "done"}

\* Only j's request changes, to these fields.
Becomes(j, pc, ask, attempt, made, linked, answer) ==
    /\ job' \in [Job -> JobState]
    /\ \A k \in Job \ {j} : job'[k] = job[k]
    /\ job'[j].pc = pc /\ job'[j].ask = ask /\ job'[j].attempt = attempt
    /\ job'[j].made = made /\ job'[j].linked = linked /\ job'[j].answer = answer

\* The fields that a step leaves.
Goes(j, pc, made, linked, answer) ==
    Becomes(j, pc, job[j].ask, job[j].attempt, made, linked, answer)

LEMMA SetEffect ==
    ASSUME job \in [Job -> JobState], NEW j \in Job, NEW n \in JobState, Update(j, n)
    PROVE  Becomes(j, n.pc, n.ask, n.attempt, n.made, n.linked, n.answer)
BY DEF Update, Becomes

LEMMA JobFields ==
    ASSUME job \in [Job -> JobState], NEW j \in Job
    PROVE  /\ job[j] \in JobState /\ job[j].pc \in Steps /\ job[j].ask \in Request \cup {Nothing}
           /\ job[j].attempt \in 0..1 /\ job[j].made \in BOOLEAN /\ job[j].linked \in BOOLEAN
           /\ job[j].answer \in Outcome
BY DEF JobState, Steps

LEMMA GotoEffect ==
    ASSUME job \in [Job -> JobState], NEW j \in Job, NEW pc \in Steps, Goto(j, pc)
    PROVE  Goes(j, pc, job[j].made, job[j].linked, job[j].answer)
<1> DEFINE n == [job[j] EXCEPT !.pc = pc]
<1>1. /\ n \in JobState
      /\ n.pc = pc /\ n.ask = job[j].ask /\ n.attempt = job[j].attempt
      /\ n.made = job[j].made /\ n.linked = job[j].linked /\ n.answer = job[j].answer
    BY JobFields DEF JobState, Steps
<1>2. Update(j, n)
    BY DEF Goto
<1> HIDE DEF n
<1> QED  BY <1>1, <1>2, SetEffect DEF Goes

LEMMA AnsweredEffect ==
    ASSUME job \in [Job -> JobState], NEW j \in Job, NEW answer \in Outcome, Update(j, Answered(j, answer))
    PROVE  Goes(j, "done", FALSE, FALSE, answer)
<1> DEFINE n == Answered(j, answer)
<1>1. /\ n \in JobState
      /\ n.pc = "done" /\ n.ask = job[j].ask /\ n.attempt = job[j].attempt
      /\ n.made = FALSE /\ n.linked = FALSE /\ n.answer = answer
    BY JobFields DEF JobState, Steps, Answered, Outcome
<1>2. Update(j, n)
    OBVIOUS
<1> HIDE DEF n
<1> QED  BY <1>1, <1>2, SetEffect DEF Goes

LEMMA ConflictEffect ==
    ASSUME job \in [Job -> JobState], NEW j \in Job, Conflict(j),
           Google(j) \/ job[j].ask.kind = "sign_up"
    PROVE  /\ UNCHANGED <<users, identities>>
           /\ \/ ~Google(j) /\ Goes(j, "done", FALSE, FALSE, "AUTH_EMAIL_CONFLICT")
              \/ /\ Google(j) /\ job[j].attempt = 0
                 /\ Becomes(j, "find_identity", job[j].ask, 1, FALSE, FALSE, job[j].answer)
              \/ /\ Google(j) /\ job[j].attempt = 1
                 /\ Goes(j, "done", FALSE, FALSE, "IDENTITY_CONFLICT")
<1> USE DEF Update
<1>0. UNCHANGED <<users, identities>>
    BY DEF Conflict
<1>1. /\ "AUTH_EMAIL_CONFLICT" \in Outcome /\ "IDENTITY_CONFLICT" \in Outcome
    BY DEF Outcome
<1>10. \A answer \in Outcome : Update(j, Answered(j, answer)) => Goes(j, "done", FALSE, FALSE, answer)
    BY AnsweredEffect
<1>2. ASSUME Google(j), job[j].attempt = 0,
             Update(j, [job[j] EXCEPT !.pc = "find_identity", !.attempt = 1, !.made = FALSE, !.linked = FALSE])
      PROVE  Becomes(j, "find_identity", job[j].ask, 1, FALSE, FALSE, job[j].answer)
    <2> DEFINE n == [job[j] EXCEPT !.pc = "find_identity", !.attempt = 1, !.made = FALSE, !.linked = FALSE]
    <2>0. "find_identity" \in Steps /\ 1 \in 0..1
        BY DEF Steps
    <2>1. /\ n \in JobState
          /\ n.pc = "find_identity" /\ n.ask = job[j].ask /\ n.attempt = 1
          /\ n.made = FALSE /\ n.linked = FALSE /\ n.answer = job[j].answer
        BY <2>0, JobFields DEF JobState, Steps
    <2>2. Update(j, n)
        BY <1>2
    <2> HIDE DEF n
    <2> QED  BY <2>1, <2>2, SetEffect
<1>3. CASE job[j].ask.kind = "sign_up" /\ Update(j, Answered(j, "AUTH_EMAIL_CONFLICT"))
    BY <1>0, <1>1, <1>10, <1>3 DEF Google
<1>4. CASE Google(j) /\ job[j].attempt = 1 /\ Update(j, Answered(j, "IDENTITY_CONFLICT"))
    BY <1>0, <1>1, <1>10, <1>4
<1>5. CASE Google(j) /\ job[j].attempt = 0
           /\ Update(j, [job[j] EXCEPT !.pc = "find_identity", !.attempt = 1, !.made = FALSE, !.linked = FALSE])
    BY <1>0, <1>2, <1>5
<1> QED  BY <1>3, <1>4, <1>5 DEF Conflict, Google

-----------------------------------------------------------------------------
(* The steps before COMMIT: the tables stay.                               *)

Real(j) ==
    /\ job[j].answer \in {"AUTH_EMAIL_CONFLICT", "NON_AUTHORITATIVE_EMAIL_CONFLICT"}
         => Account(j) # Nothing
    /\ job[j].answer = "IDENTITY_CONFLICT"
         => Linked(j) # Nothing \/ \E s \in Subject : AccountOf(s) = job[j].ask.mail

LEMMA QuietStep ==
    ASSUME IInv, NEW j \in Job, job[j].pc # "done",
           job' \in [Job -> JobState], \A k \in Job \ {j} : job'[k] = job[k],
           UNCHANGED <<users, identities>>,
           JobOK(j)', Real(j)',
           \A k \in Job \ {j} : job'[j].made /\ job[k].made => job'[j].ask.mail # job[k].ask.mail,
           \A k \in Job \ {j} : job'[j].linked /\ job[k].linked =>
             job'[j].ask.subject # job[k].ask.subject /\ job'[j].ask.mail # job[k].ask.mail
    PROVE  IInv'
<1>1. AccountsTypeOK'
    BY DEF IInv, AccountsTypeOK
<1>2. \A k \in Job : JobOK(k)'
    <2>1. ASSUME NEW k \in Job \ {j}  PROVE JobOK(k)'
        BY DEF IInv, JobOK, Google, Account, Linked
    <2> QED  BY <2>1
<1>3. Exclusive'
    BY DEF IInv, Exclusive
<1>4. \A s \in Subject : identities[s] # Nothing => identities[s].linker \in Job \ {j}
    BY DEF IInv, LinkersDone
<1>5. LinkersDone'
    BY <1>4 DEF IInv, LinkersDone
<1>6. LinkedByOwner'
    BY <1>4 DEF IInv, LinkedByOwner
<1>7. AccountReachable'
    BY DEF IInv, AccountReachable, AccountOf
<1>8. RefusalIsReal'
    <2>1. ASSUME NEW k \in Job \ {j}  PROVE Real(k)'
        BY DEF IInv, RefusalIsReal, Real, Account, Linked, AccountOf
    <2> QED  BY <2>1 DEF RefusalIsReal, Real, Account, Linked, AccountOf
<1> QED  BY <1>1, <1>2, <1>3, <1>5, <1>6, <1>7, <1>8 DEF IInv

\* A request that ends without writing anything.
LEMMA AnswerKeeps ==
    ASSUME IInv, NEW j \in Job, NEW answer \in Outcome, Answer(j, answer),
           job[j].pc \notin {"new", "done"},
           answer \in {"AUTH_EMAIL_CONFLICT", "NON_AUTHORITATIVE_EMAIL_CONFLICT"} => Account(j) # Nothing,
           answer # "IDENTITY_CONFLICT"
    PROVE  IInv'
<1>0. job \in [Job -> JobState] /\ JobOK(j)
    BY DEF IInv, AccountsTypeOK
<1>1. Goes(j, "done", FALSE, FALSE, answer) /\ UNCHANGED <<users, identities>>
    BY <1>0, AnsweredEffect DEF Answer
<1>2. JobOK(j)'
    BY <1>0, <1>1 DEF JobOK, Goes, Becomes, Google
<1>3. Real(j)'
    BY <1>1 DEF Real, Account, Goes, Becomes
<1> QED  BY <1>1, <1>2, <1>3, QuietStep DEF Goes, Becomes

LEMMA BeginKeeps ==
    ASSUME IInv, NEW j \in Job, NEW r \in Request, Begin(j, r)
    PROVE  IInv'
<1> DEFINE pc == CASE r.kind = "google"  -> "exchange"
                   [] r.kind = "sign_up" -> "create_user"
                   [] OTHER              -> "find_password"
           n == [Fresh EXCEPT !.ask = r, !.pc = pc]
<1>0. job \in [Job -> JobState]
    BY DEF IInv, AccountsTypeOK
<1>1. /\ pc \in Steps \ {"new", "done", "find_identity", "find_user", "create_identity", "commit"}
      /\ pc = "exchange" => r.kind = "google"
      /\ pc = "create_user" => r.kind = "sign_up"
    BY DEF Steps
<1> HIDE DEF pc
<1>20. /\ Fresh \in JobState /\ Fresh.attempt = 0 /\ Fresh.answer = "none"
       /\ Fresh.made = FALSE /\ Fresh.linked = FALSE
    BY DEF Fresh, JobState, Outcome
<1>2. /\ n \in JobState
      /\ n.pc = pc /\ n.ask = r /\ n.attempt = 0
      /\ n.made = FALSE /\ n.linked = FALSE /\ n.answer = "none"
    BY <1>1, <1>20 DEF JobState, Steps
<1>3. Update(j, n) /\ UNCHANGED <<users, identities>> /\ job[j].pc = "new"
    BY DEF Begin, At, pc
<1> HIDE DEF n
<1>4. Becomes(j, pc, r, 0, FALSE, FALSE, "none")
    BY <1>0, <1>2, <1>3, SetEffect
<1>5. JobOK(j)'
    BY <1>1, <1>4 DEF JobOK, Becomes, Google
<1>6. Real(j)'
    BY <1>4 DEF Real, Becomes
<1> QED  BY <1>3, <1>4, <1>5, <1>6, QuietStep DEF Becomes

LEMMA LookKeeps ==
    ASSUME IInv, NEW j \in Job,
           Exchange(j) \/ FindIdentity(j) \/ FindUser(j) \/ FindPassword(j) \/ Abort(j)
    PROVE  IInv'
<1>0. job \in [Job -> JobState] /\ JobOK(j) /\ Real(j)
    BY DEF IInv, AccountsTypeOK, RefusalIsReal, Real, Account, Linked, AccountOf
<1>1. ASSUME NEW pc \in Steps, Goto(j, pc), UNCHANGED <<users, identities>>,
             job[j].pc \in {"exchange", "find_identity", "find_user"},
             \/ pc = "find_identity" /\ job[j].pc = "exchange"
             \/ pc = "commit" /\ Linked(j) # Nothing
             \/ pc = "find_user" /\ job[j].pc = "find_identity" /\ Linked(j) = Nothing
             \/ pc = "create_user" /\ job[j].pc = "find_user" /\ Account(j) = Nothing
             \/ pc = "create_identity" /\ Account(j) # Nothing /\ job[j].ask.authoritative
      PROVE  IInv'
    <2>1. Goes(j, pc, job[j].made, job[j].linked, job[j].answer)
        BY <1>0, <1>1, GotoEffect
    <2>2. ~job[j].made /\ ~job[j].linked /\ Google(j)
        BY <1>0, <1>1 DEF JobOK
    <2>3. JobOK(j)'
        <3>1. job'[j].attempt = 1 => /\ pc \in {"find_identity", "find_user"} => Account(j) # Nothing \/ Linked(j) # Nothing
                                     /\ pc = "find_user" => Account(j) # Nothing
                                     /\ pc # "create_user"
            BY <1>0, <1>1, <2>1 DEF JobOK, Goes, Becomes
        <3>2. /\ job'[j].pc = pc /\ job'[j].ask = job[j].ask /\ job'[j].ask \in Request
              /\ ~job'[j].made /\ ~job'[j].linked /\ job[j].pc # "new" /\ pc # "new"
              /\ job'[j].answer # "IDENTITY_CONFLICT"
              /\ UNCHANGED <<users, identities>>
            BY <1>0, <1>1, <2>1, <2>2 DEF JobOK, Goes, Becomes
        <3>3. Google(j)' /\ Account(j)' = Account(j) /\ Linked(j)' = Linked(j)
            BY <2>2, <3>2 DEF Google, Account, Linked
        <3> QED  BY <1>1, <3>1, <3>2, <3>3 DEF JobOK
    <2>4. Real(j)'
        BY <1>0, <1>1, <2>1 DEF Real, Goes, Becomes, Account, Linked, AccountOf
    <2> QED  BY <1>1, <2>1, <2>2, <2>3, <2>4, QuietStep DEF Goes, Becomes
<1>2. ASSUME NEW answer \in Outcome \ {"IDENTITY_CONFLICT", "AUTH_EMAIL_CONFLICT"}, Answer(j, answer),
             job[j].pc \notin {"new", "done"},
             answer = "NON_AUTHORITATIVE_EMAIL_CONFLICT" => Account(j) # Nothing
      PROVE  IInv'
    BY <1>2, AnswerKeeps
<1>3. CASE Exchange(j)
    BY <1>1, <1>2, <1>3 DEF Exchange, At, Steps, Outcome
<1>4. CASE FindIdentity(j)
    <2>1. PICK pc \in {"commit", "find_user"} :
            Goto(j, pc) /\ (IF pc = "commit" THEN Linked(j) # Nothing ELSE Linked(j) = Nothing)
        BY <1>4 DEF FindIdentity, Linked
    <2> QED  BY <1>1, <1>4, <2>1 DEF FindIdentity, At, Steps
<1>5. CASE FindUser(j)
    BY <1>1, <1>2, <1>5 DEF FindUser, At, Steps, Outcome, Account
<1>6. CASE FindPassword(j)
    <2>1. PICK answer \in {"signed_in", "INVALID_CREDENTIALS"} : Answer(j, answer)
        BY <1>6 DEF FindPassword
    <2> QED  BY <1>2, <1>6, <2>1 DEF FindPassword, At, Outcome
<1>7. CASE Abort(j)
    BY <1>2, <1>7 DEF Abort, Outcome
<1> QED  BY <1>3, <1>4, <1>5, <1>6, <1>7

LEMMA AskMail ==
    ASSUME NEW r \in Request
    PROVE  /\ r.mail \in Mail /\ r.mail # Nothing
           /\ r.kind = "google" => r.subject \in Subject /\ r.authoritative \in BOOLEAN
BY AccountsAssumption DEF Asks

-----------------------------------------------------------------------------
(* The inserts, under their unique constraints.                            *)

LEMMA ConflictKeeps ==
    ASSUME IInv, NEW j \in Job, Conflict(j),
           \/ job[j].pc = "create_user" /\ Account(j) # Nothing
           \/ /\ job[j].pc = "create_identity"
              /\ Linked(j) # Nothing \/ \E s \in Subject : AccountOf(s) = job[j].ask.mail
    PROVE  IInv'
<1>0. /\ job \in [Job -> JobState] /\ JobOK(j) /\ Real(j)
      /\ Google(j) \/ job[j].ask.kind = "sign_up"
      /\ job[j].ask \in Request
    BY DEF IInv, AccountsTypeOK, RefusalIsReal, Real, Account, Linked, AccountOf, JobOK
<1>1. UNCHANGED <<users, identities>>
    BY DEF Conflict
<1>2. CASE ~Google(j) /\ Goes(j, "done", FALSE, FALSE, "AUTH_EMAIL_CONFLICT")
    <2>1. JobOK(j)'
        BY <1>0, <1>2 DEF JobOK, Goes, Becomes, Google
    <2>2. Real(j)'
        BY <1>0, <1>1, <1>2 DEF Real, Account, Goes, Becomes, JobOK
    <2> QED  BY <1>1, <1>2, <2>1, <2>2, QuietStep DEF Goes, Becomes
<1>3. CASE Google(j) /\ job[j].attempt = 1 /\ Goes(j, "done", FALSE, FALSE, "IDENTITY_CONFLICT")
    <2>1. JobOK(j)'
        BY <1>0, <1>3 DEF JobOK, Goes, Becomes, Google
    <2>2. job[j].pc = "create_identity"
        BY <1>0, <1>3 DEF JobOK
    <2>3. Real(j)'
        BY <1>1, <1>3, <2>2 DEF Real, Linked, AccountOf, Goes, Becomes
    <2> QED  BY <1>1, <1>3, <2>1, <2>3, QuietStep DEF Goes, Becomes
<1>4. CASE Google(j) /\ Becomes(j, "find_identity", job[j].ask, 1, FALSE, FALSE, job[j].answer)
    <2>1. Account(j) # Nothing \/ Linked(j) # Nothing
        <3>1. ASSUME NEW s \in Subject, AccountOf(s) = job[j].ask.mail, job[j].pc = "create_identity",
                     identities[s] # Nothing
              PROVE  Account(j) # Nothing
            BY <3>1 DEF AccountOf, IInv, LinkedByOwner, Account
        <3>2. ASSUME NEW s \in Subject, AccountOf(s) = job[j].ask.mail, job[j].ask.mail # Nothing
              PROVE  identities[s] # Nothing
            BY <3>2 DEF AccountOf
        <3>3. job[j].pc = "create_identity" /\ ~job[j].made => Account(j) # Nothing
            <4>1. job[j].linked => job[j].pc = "commit"
                BY <1>0 DEF JobOK
            <4> QED  BY <1>0, <4>1 DEF JobOK
        <3>4. job[j].ask.mail # Nothing
            BY <1>0, AskMail
        <3> QED  BY <3>1, <3>2, <3>3, <3>4
    <2>2. JobOK(j)'
        BY <1>0, <1>1, <1>4, <2>1 DEF JobOK, Becomes, Google, Account, Linked
    <2>3. Real(j)'
        BY <1>0, <1>1, <1>4 DEF Real, Account, Linked, AccountOf, Becomes
    <2> QED  BY <1>1, <1>4, <2>2, <2>3, QuietStep DEF Becomes
<1> QED  BY <1>0, <1>2, <1>3, <1>4, ConflictEffect

LEMMA CreateUserKeeps ==
    ASSUME IInv, NEW j \in Job, CreateUser(j)
    PROVE  IInv'
<1>0. /\ job \in [Job -> JobState] /\ JobOK(j) /\ Real(j) /\ job[j].pc = "create_user"
      /\ \A k \in Job \ {j} : job[k].made => job[k].ask.mail # job[j].ask.mail
    BY DEF IInv, AccountsTypeOK, RefusalIsReal, Real, Account, Linked, AccountOf, CreateUser, At
<1>1. CASE Account(j) # Nothing
    BY <1>0, <1>1, ConflictKeeps DEF CreateUser, Account
<1>2. CASE Account(j) = Nothing
    <2> DEFINE pc == IF job[j].ask.kind = "sign_up" THEN "commit" ELSE "create_identity"
               n == [job[j] EXCEPT !.made = TRUE, !.pc = pc]
    <2>1. pc \in Steps
        BY DEF Steps
    <2>2. /\ n \in JobState
          /\ n.pc = pc /\ n.ask = job[j].ask /\ n.attempt = job[j].attempt
          /\ n.made = TRUE /\ n.linked = job[j].linked /\ n.answer = job[j].answer
        BY <1>0, <2>1, JobFields DEF JobState, Steps
    <2>3. Update(j, n) /\ UNCHANGED <<users, identities>>
        BY <1>2 DEF CreateUser, Account
    <2> HIDE DEF n
    <2>4. Goes(j, pc, TRUE, job[j].linked, job[j].answer)
        BY <1>0, <2>2, <2>3, SetEffect DEF Goes
    <2>5. ~job[j].linked /\ job[j].ask \in Request /\ (Google(j) \/ job[j].ask.kind = "sign_up")
          /\ job[j].attempt # 1
        BY <1>0 DEF JobOK
    <2>6. JobOK(j)'
        <3>1. /\ job'[j].pc = pc /\ job'[j].ask = job[j].ask /\ job'[j].ask \in Request
              /\ job'[j].made /\ ~job'[j].linked /\ job'[j].attempt # 1
              /\ job'[j].answer # "IDENTITY_CONFLICT"
            BY <1>0, <2>4, <2>5 DEF Goes, Becomes, JobOK
        <3>2. Google(j)' = Google(j) /\ Account(j)' = Nothing
            BY <1>2, <2>3, <3>1 DEF Google, Account
        <3>3. pc = "commit" \/ pc = "create_identity"
            OBVIOUS
        <3>4. /\ pc = "commit" => ~Google(j) /\ job'[j].ask.kind = "sign_up"
              /\ pc = "create_identity" => Google(j)
            BY <2>5, <3>1 DEF Google
        <3> HIDE DEF pc
        <3> QED  BY <3>1, <3>2, <3>3, <3>4 DEF JobOK
    <2>7. Real(j)'
        BY <1>0, <2>3, <2>4 DEF Real, Account, Linked, AccountOf, Goes, Becomes
    <2> QED  BY <1>0, <2>3, <2>4, <2>5, <2>6, <2>7, QuietStep DEF Goes, Becomes
<1> QED  BY <1>1, <1>2

LEMMA CreateIdentityKeeps ==
    ASSUME IInv, NEW j \in Job, CreateIdentity(j)
    PROVE  IInv'
<1> DEFINE taken == Linked(j) # Nothing \/ \E s \in Subject : AccountOf(s) = job[j].ask.mail
<1>0. /\ job \in [Job -> JobState] /\ JobOK(j) /\ Real(j) /\ job[j].pc = "create_identity"
      /\ \A k \in Job \ {j} : job[k].linked =>
           job[k].ask.subject # job[j].ask.subject /\ job[k].ask.mail # job[j].ask.mail
    BY DEF IInv, AccountsTypeOK, RefusalIsReal, Real, Account, Linked, AccountOf, CreateIdentity, At
<1>1. CASE taken
    BY <1>0, <1>1, ConflictKeeps DEF CreateIdentity, Linked
<1>2. CASE ~taken
    <2> DEFINE n == [job[j] EXCEPT !.linked = TRUE, !.pc = "commit"]
    <2>1. /\ n \in JobState
          /\ n.pc = "commit" /\ n.ask = job[j].ask /\ n.attempt = job[j].attempt
          /\ n.made = job[j].made /\ n.linked = TRUE /\ n.answer = job[j].answer
        BY <1>0, JobFields DEF JobState, Steps
    <2>2. Update(j, n) /\ UNCHANGED <<users, identities>>
        BY <1>2 DEF CreateIdentity, Linked
    <2> HIDE DEF n
    <2>3. Goes(j, "commit", job[j].made, TRUE, job[j].answer)
        BY <1>0, <2>1, <2>2, SetEffect DEF Goes
    <2>4. JobOK(j)'
        BY <1>0, <1>2, <2>2, <2>3 DEF JobOK, Goes, Becomes, Google, Account, Linked
    <2>5. Real(j)'
        BY <1>0, <2>2, <2>3 DEF Real, Account, Linked, AccountOf, Goes, Becomes
    <2>6. \A k \in Job \ {j} : job'[j].made /\ job[k].made => job'[j].ask.mail # job[k].ask.mail
        BY <2>3 DEF IInv, Exclusive, Goes, Becomes
    <2> QED  BY <1>0, <2>2, <2>3, <2>4, <2>5, <2>6, QuietStep DEF Goes, Becomes
<1> QED  BY <1>1, <1>2

-----------------------------------------------------------------------------
(* COMMIT.                                                                 *)

LEMMA WrittenUsers ==
    ASSUME IInv, NEW j \in Job, job[j].pc = "commit", Written(j)
    PROVE  /\ users' \in [Mail -> User \cup {Nothing}]
           /\ \A m \in Mail : users'[m] # users[m] =>
                job[j].made /\ m = job[j].ask.mail /\ users[m] = Nothing
           /\ job[j].made => /\ Account(j) = Nothing
                             /\ users'[job[j].ask.mail] # Nothing
                             /\ users'[job[j].ask.mail].maker = j
                             /\ ~Google(j) => users'[job[j].ask.mail].password
<1> DEFINE n == [maker |-> j, password |-> job[j].ask.kind = "sign_up"]
<1>0. /\ job[j].ask \in Request /\ job[j].ask.mail \in Mail
      /\ users \in [Mail -> User \cup {Nothing}]
      /\ job[j].made => Account(j) = Nothing
      /\ ~Google(j) => job[j].ask.kind = "sign_up"
    BY AskMail DEF IInv, AccountsTypeOK, JobOK
<1>1. n \in User /\ n.maker = j /\ (n.password <=> job[j].ask.kind = "sign_up")
    BY DEF User
<1>2. n # Nothing
    BY <1>1, AccountsAssumption
<1>3. users' = IF job[j].made THEN [users EXCEPT ![job[j].ask.mail] = n] ELSE users
    BY DEF Written
<1> HIDE DEF n
<1> QED  BY <1>0, <1>1, <1>2, <1>3 DEF Account

LEMMA WrittenIdentities ==
    ASSUME IInv, NEW j \in Job, job[j].pc = "commit", Written(j)
    PROVE  /\ identities' \in [Subject -> Identity \cup {Nothing}]
           /\ \A s \in Subject : identities'[s] # identities[s] =>
                /\ identities'[s] # Nothing /\ Google(j) /\ s = job[j].ask.subject
                /\ \/ /\ job[j].linked /\ identities[s] = Nothing
                      /\ identities'[s].user = job[j].ask.mail /\ identities'[s].linker = j
                   \/ /\ ~job[j].linked /\ identities[s] # Nothing
                      /\ identities'[s].user = identities[s].user
                      /\ identities'[s].linker = identities[s].linker
           /\ job[j].linked => /\ Google(j)
                               /\ identities'[job[j].ask.subject] # Nothing
                               /\ identities'[job[j].ask.subject].user = job[j].ask.mail
<1> DEFINE ask == job[j].ask
           n == [user |-> ask.mail, mail |-> ask.mail, linker |-> j]
           o == [identities[ask.subject] EXCEPT !.mail = ask.mail]
<1>0. /\ ask \in Request /\ ask.mail \in Mail
      /\ identities \in [Subject -> Identity \cup {Nothing}]
      /\ JobOK(j)
    BY AskMail DEF IInv, AccountsTypeOK, JobOK
<1>1. Google(j) => ask.subject \in Subject
    BY <1>0, AskMail DEF Google
<1>2. CASE ~Google(j)
    <2>1. identities' = identities
        BY <1>2 DEF Written, Google
    <2>2. ~job[j].linked
        BY <1>0, <1>2 DEF JobOK
    <2> QED  BY <1>0, <2>1, <2>2
<1>3. CASE Google(j) /\ job[j].linked
    <2>1. n \in Identity /\ n.user = ask.mail /\ n.linker = j
        BY <1>0 DEF Identity
    <2>2. n # Nothing
        BY <2>1, AccountsAssumption
    <2>3. identities[ask.subject] = Nothing
        BY <1>0, <1>3 DEF JobOK, Linked
    <2>4. identities' = [identities EXCEPT ![ask.subject] = n]
        BY <1>3 DEF Written, Google
    <2> HIDE DEF n
    <2> QED  BY <1>0, <1>1, <1>3, <2>1, <2>2, <2>3, <2>4
<1>4. CASE Google(j) /\ ~job[j].linked
    <2>1. identities[ask.subject] # Nothing /\ identities[ask.subject] \in Identity
        BY <1>0, <1>1, <1>4 DEF JobOK, Linked
    <2>2. /\ o \in Identity
          /\ o.user = identities[ask.subject].user /\ o.linker = identities[ask.subject].linker
        BY <1>0, <2>1 DEF Identity
    <2>3. o # Nothing
        BY <2>2, AccountsAssumption
    <2>4. identities' = [identities EXCEPT ![ask.subject] = o]
        BY <1>4 DEF Written, Google
    <2> HIDE DEF o
    <2> QED  BY <1>0, <1>1, <1>4, <2>1, <2>2, <2>3, <2>4
<1> QED  BY <1>2, <1>3, <1>4

\* A commit takes nothing away.
LEMMA CommitGrows ==
    ASSUME IInv, NEW j \in Job, job[j].pc = "commit", Written(j)
    PROVE  /\ \A m \in Mail : users[m] # Nothing => users'[m] = users[m]
           /\ \A s \in Subject : identities[s] # Nothing =>
                identities'[s] # Nothing /\ identities'[s].user = identities[s].user
                /\ identities'[s].linker = identities[s].linker
           /\ \A s \in Subject : AccountOf(s) # Nothing => AccountOf(s)' = AccountOf(s)
<1>1. \A m \in Mail : users[m] # Nothing => users'[m] = users[m]
    BY WrittenUsers
<1>2. \A s \in Subject : identities[s] # Nothing =>
        identities'[s] # Nothing /\ identities'[s].user = identities[s].user
        /\ identities'[s].linker = identities[s].linker
    BY WrittenIdentities
<1> QED  BY <1>1, <1>2 DEF AccountOf

LEMMA CommitKeepsOthers ==
    ASSUME IInv, NEW j \in Job, job[j].pc = "commit", Written(j),
           NEW k \in Job \ {j}, job'[k] = job[k]
    PROVE  JobOK(k)' /\ Real(k)'
<1>0. JobOK(k) /\ Real(k)
    BY DEF IInv, RefusalIsReal, Real, Account, Linked, AccountOf
<1>1. CASE job[k].pc = "new"
    <2>1. Real(k)'
        BY <1>0, <1>1 DEF JobOK, Real
    <2>2. ~job[k].made /\ ~job[k].linked
        BY <1>0, <1>1 DEF JobOK
    <2>3. job'[k].attempt = 1 => FALSE \/ job[k].attempt = 1
        OBVIOUS
    <2> QED  BY <1>0, <1>1, <2>1, <2>2, <2>3 DEF JobOK, Google
<1>2. CASE job[k].pc # "new"
    <2>1. job[k].ask \in Request /\ job[k].ask.mail \in Mail /\ job[k].ask.mail # Nothing
          /\ (Google(k) => job[k].ask.subject \in Subject)
        BY <1>0, <1>2, AskMail DEF JobOK, Google
    <2>2. (Account(k) # Nothing => Account(k)' # Nothing) /\ (Google(k) => (Linked(k) # Nothing => Linked(k)' # Nothing))
        BY <2>1, CommitGrows DEF Account, Linked
    <2>3. job[k].made => Account(k)' = Nothing
        <3>1. job[k].made /\ job[j].made => job[j].ask.mail # job[k].ask.mail
            BY DEF IInv, Exclusive
        <3>2. job[k].made => Account(k) = Nothing
            BY <1>0 DEF JobOK
        <3> QED  BY <2>1, <3>1, <3>2, WrittenUsers DEF Account
    <2>4. job[k].linked => Linked(k)' = Nothing
        <3>1. job[k].linked /\ job[j].linked => job[j].ask.subject # job[k].ask.subject
            BY DEF IInv, Exclusive
        <3>2. job[k].linked => Linked(k) = Nothing /\ Google(k)
            BY <1>0 DEF JobOK
        <3> QED  BY <2>1, <3>1, <3>2, WrittenIdentities DEF Linked
    <2>5. JobOK(k)'
        BY <1>0, <2>1, <2>2, <2>3, <2>4 DEF JobOK, Google
    <2>6. Real(k)'
        <3>1. job'[k].answer \in {"AUTH_EMAIL_CONFLICT", "NON_AUTHORITATIVE_EMAIL_CONFLICT"}
                => Account(k)' # Nothing
            BY <1>0, <2>2 DEF Real
        <3>2. ASSUME job[k].answer = "IDENTITY_CONFLICT"
              PROVE  Linked(k)' # Nothing \/ \E s \in Subject : AccountOf(s)' = job'[k].ask.mail
            <4>1. CASE Linked(k) # Nothing
                BY <1>0, <2>2, <3>2, <4>1 DEF JobOK
            <4>2. CASE \E s \in Subject : AccountOf(s) = job[k].ask.mail
                BY <2>1, <4>2, CommitGrows
            <4> QED  BY <1>0, <3>2, <4>1, <4>2 DEF Real
        <3> QED  BY <3>1, <3>2 DEF Real
    <2> QED  BY <2>5, <2>6
<1> QED  BY <1>1, <1>2

LEMMA CommitKeeps ==
    ASSUME IInv, NEW j \in Job, Commit(j)
    PROVE  IInv'
<1>0. /\ job[j].pc = "commit" /\ Written(j)
      /\ job \in [Job -> JobState] /\ JobOK(j) /\ Real(j)
      /\ job[j].ask \in Request /\ job[j].ask.mail \in Mail /\ job[j].ask.mail # Nothing
    BY AskMail DEF Commit, At, IInv, AccountsTypeOK, RefusalIsReal, Real, Account, Linked, AccountOf, JobOK
<1>1. PICK answer \in {"signed_in", "error"} : Goes(j, "done", FALSE, FALSE, answer)
    BY <1>0, AnsweredEffect DEF Commit, Outcome
<1>2. /\ job' \in [Job -> JobState] /\ \A k \in Job \ {j} : job'[k] = job[k]
      /\ job'[j].pc = "done" /\ job'[j].ask = job[j].ask
      /\ ~job'[j].made /\ ~job'[j].linked /\ job'[j].answer = answer
      /\ job'[j].attempt = job[j].attempt
    BY <1>1 DEF Goes, Becomes
<1>3. AccountsTypeOK'
    BY <1>0, <1>2, WrittenUsers, WrittenIdentities DEF AccountsTypeOK
<1>4. \A k \in Job : JobOK(k)'
    <2>1. JobOK(j)'
        BY <1>0, <1>2 DEF JobOK
    <2> QED  BY <1>0, <1>2, <2>1, CommitKeepsOthers
<1>5. Exclusive'
    BY <1>2 DEF IInv, Exclusive
<1>6. LinkersDone'
    <2> SUFFICES ASSUME NEW s \in Subject, identities'[s] # Nothing
                 PROVE  identities'[s].linker \in Job /\ job'[identities'[s].linker].pc = "done"
        BY DEF LinkersDone
    <2>1. CASE identities[s] # Nothing
        <3>1. identities'[s].linker = identities[s].linker
            BY <1>0, <2>1, CommitGrows
        <3>2. identities[s].linker \in Job /\ job[identities[s].linker].pc = "done"
            BY <2>1 DEF IInv, LinkersDone
        <3> QED  BY <1>0, <1>2, <3>1, <3>2
    <2>2. CASE identities[s] = Nothing
        BY <1>0, <1>2, <2>2, WrittenIdentities
    <2> QED  BY <2>1, <2>2
<1>7. LinkedByOwner'
    <2> SUFFICES ASSUME NEW s \in Subject, identities'[s] # Nothing
                 PROVE  /\ users'[identities'[s].user] # Nothing
                        /\ \/ users'[identities'[s].user].maker = identities'[s].linker
                           \/ job'[identities'[s].linker].ask.authoritative
        BY DEF LinkedByOwner
    <2>1. CASE identities[s] # Nothing
        <3>1. identities'[s].linker = identities[s].linker /\ identities'[s].user = identities[s].user
            BY <1>0, <2>1, CommitGrows
        <3>2. identities[s].user \in Mail
            BY <2>1 DEF IInv, AccountsTypeOK, Identity
        <3>3. /\ users[identities[s].user] # Nothing
              /\ \/ users[identities[s].user].maker = identities[s].linker
                 \/ job[identities[s].linker].ask.authoritative
            BY <2>1 DEF IInv, LinkedByOwner
        <3>4. users'[identities[s].user] = users[identities[s].user]
            BY <1>0, <3>2, <3>3, CommitGrows
        <3>5. identities[s].linker \in Job /\ job[identities[s].linker].pc = "done"
            BY <2>1 DEF IInv, LinkersDone
        <3> QED  BY <1>0, <1>2, <3>1, <3>3, <3>4, <3>5
    <2>2. CASE identities[s] = Nothing
        <3>1. identities'[s].user = job[j].ask.mail /\ identities'[s].linker = j /\ job[j].linked
            BY <1>0, <2>2, WrittenIdentities
        <3>2. job[j].made \/ (job[j].ask.authoritative /\ Account(j) # Nothing)
            BY <1>0, <3>1 DEF JobOK
        <3>3. CASE job[j].made
            BY <1>0, <3>1, <3>3, WrittenUsers
        <3>4. CASE job[j].ask.authoritative /\ Account(j) # Nothing
            BY <1>0, <1>2, <3>1, <3>4, CommitGrows DEF Account
        <3> QED  BY <3>2, <3>3, <3>4
    <2> QED  BY <2>1, <2>2
<1>8. AccountReachable'
    <2> SUFFICES ASSUME NEW m \in Mail, users'[m] # Nothing, ~users'[m].password
                 PROVE  \E s \in Subject : AccountOf(s)' = m
        BY DEF AccountReachable
    <2>1. CASE users[m] # Nothing
        <3>1. PICK s \in Subject : AccountOf(s) = m
            BY <1>0, <2>1, CommitGrows DEF IInv, AccountReachable
        <3>2. m # Nothing
            BY AccountsAssumption
        <3> QED  BY <1>0, <3>1, <3>2, CommitGrows
    <2>2. CASE users[m] = Nothing
        <3>1. job[j].made /\ m = job[j].ask.mail /\ Google(j)
            BY <1>0, <2>2, WrittenUsers
        <3>2. job[j].linked /\ job[j].ask.subject \in Subject
            BY <1>0, <3>1, AskMail DEF JobOK, Google
        <3> QED  BY <1>0, <3>1, <3>2, WrittenIdentities DEF AccountOf
    <2> QED  BY <2>1, <2>2
<1>9. RefusalIsReal'
    <2>1. Real(j)'
        BY <1>2 DEF Real
    <2>2. \A k \in Job : Real(k)'
        BY <1>0, <1>2, <2>1, CommitKeepsOthers
    <2> QED  BY <2>2 DEF RefusalIsReal, Real, Account, Linked, AccountOf
<1> QED  BY <1>3, <1>4, <1>5, <1>6, <1>7, <1>8, <1>9 DEF IInv

-----------------------------------------------------------------------------
LEMMA IInvInit ==
    ASSUME AccountsInit
    PROVE  IInv
<1>1. Fresh \in JobState /\ Fresh.pc = "new" /\ Fresh.answer = "none" /\ Fresh.attempt = 0
      /\ ~Fresh.made /\ ~Fresh.linked
    BY DEF Fresh, JobState, Outcome
<1>2. /\ users \in [Mail -> User \cup {Nothing}] /\ \A m \in Mail : users[m] = Nothing
      /\ identities \in [Subject -> Identity \cup {Nothing}] /\ \A s \in Subject : identities[s] = Nothing
      /\ job \in [Job -> JobState] /\ \A j \in Job : job[j] = Fresh
    BY <1>1 DEF AccountsInit
<1>3. ASSUME NEW j \in Job  PROVE JobOK(j)
    BY <1>1, <1>2 DEF JobOK
<1>4. Exclusive
    BY <1>1, <1>2 DEF Exclusive
<1>5. LinkersDone /\ LinkedByOwner
    BY <1>2 DEF LinkersDone, LinkedByOwner
<1>6. AccountReachable
    BY <1>2 DEF AccountReachable
<1>7. RefusalIsReal
    BY <1>1, <1>2 DEF RefusalIsReal
<1> QED  BY <1>2, <1>3, <1>4, <1>5, <1>6, <1>7 DEF IInv, AccountsTypeOK

LEMMA IInvNext ==
    ASSUME IInv, [AccountsNext]_accountVars
    PROVE  IInv'
<1>1. CASE UNCHANGED accountVars
    BY <1>1 DEF accountVars, IInv, AccountsTypeOK, JobOK, Exclusive, LinkersDone, LinkedByOwner,
                AccountReachable, RefusalIsReal, Google, Account, Linked, AccountOf
<1>2. ASSUME NEW j \in Job, Step(j)  PROVE IInv'
    BY <1>2, LookKeeps, CreateUserKeeps, CreateIdentityKeeps, CommitKeeps DEF Step
<1>3. ASSUME NEW j \in Job, Abort(j)  PROVE IInv'
    BY <1>3, LookKeeps
<1>4. ASSUME NEW j \in Job, NEW r \in Request, Begin(j, r)  PROVE IInv'
    BY <1>4, BeginKeeps
<1> QED  BY <1>1, <1>2, <1>3, <1>4 DEF AccountsNext

(* The inductive invariant holds in every reachable state.                 *)
LEMMA AlwaysIInv ==
    AccountsSpec => []IInv
<1>1. AccountsInit => IInv
    BY IInvInit
<1>2. IInv /\ [AccountsNext]_accountVars => IInv'
    BY IInvNext
<1> QED  BY <1>1, <1>2, PTL DEF AccountsSpec

(* GoogleIdentityService: a Google sign-in never opens an account that     *)
(* somebody else made, unless Google vouches for the e-mail, however many  *)
(* requests race for the e-mail and the subject.                           *)
THEOREM LinksAreOwned ==
    AccountsSpec => []LinkedByOwner
<1>1. IInv => LinkedByOwner
    BY DEF IInv
<1> QED  BY <1>1, AlwaysIInv, PTL

(* AuthService.signUp, GoogleIdentityService: every account that exists    *)
(* has a password or a Google identity, wherever its creation was cut off. *)
THEOREM AccountsAreReachable ==
    AccountsSpec => []AccountReachable
<1>1. IInv => AccountReachable
    BY DEF IInv
<1> QED  BY <1>1, AlwaysIInv, PTL

(* A conflict is answered only when the account or the identity it names   *)
(* is committed: the retry after P2002 hides every race that was lost to a *)
(* request which then failed.                                              *)
THEOREM RefusalsAreReal ==
    AccountsSpec => []RefusalIsReal
<1>1. IInv => RefusalIsReal
    BY DEF IInv
<1> QED  BY <1>1, AlwaysIInv, PTL
=============================================================================
