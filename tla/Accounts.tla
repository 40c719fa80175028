------------------------------ MODULE Accounts ------------------------------
(***************************************************************************)
(* Signing up with a password, logging in, and signing in with Google:     *)
(* AuthService and GoogleIdentityService on the tables "User" and          *)
(* "AuthIdentity".  The transactions run at READ COMMITTED, so a job sees  *)
(* what is committed when each of its statements runs, and only the unique *)
(* constraints (User.email, one account per Google subject, one Google     *)
(* identity per account) keep two jobs apart.  An insert waits for another *)
(* transaction's uncommitted row with the same key, and fails (P2002) once *)
(* that row is committed.                                                  *)
(*                                                                         *)
(* E-mails identify accounts: an account's e-mail never changes, and       *)
(* nothing removes an account.                                             *)
(***************************************************************************)
EXTENDS Naturals

CONSTANTS
    Job,        \* the requests
    Request,    \* what they may ask, see Asks
    Subject,    \* Google accounts
    Mail,       \* e-mail addresses
    Nothing

(* "authoritative": the address is one that Google itself vouches for      *)
(* (isAuthoritativeGoogleEmail).  A "login" gives the right password.      *)
Asks == [kind : {"google"}, subject : Subject, mail : Mail, authoritative : BOOLEAN]
          \cup [kind : {"sign_up", "login"}, mail : Mail]

VARIABLES
    users,      \* the committed accounts by e-mail, or Nothing
    identities, \* the committed Google identities by subject, or Nothing
    job         \* the requests

accountVars == <<users, identities, job>>

User == [maker : Job, password : BOOLEAN]
Identity == [user : Mail, mail : Mail, linker : Job]

ASSUME AccountsAssumption ==
    Request \subseteq Asks /\ Nothing \notin User \cup Identity \cup Request \cup Mail

Outcome == {"none", "signed_in", "error", "TOKEN_EXCHANGE_FAILED", "AUTH_EMAIL_CONFLICT",
            "NON_AUTHORITATIVE_EMAIL_CONFLICT", "IDENTITY_CONFLICT", "INVALID_CREDENTIALS"}

(* "made", "linked": the rows that the job's open transaction has inserted.*)
JobState == [pc : {"new", "exchange", "find_identity", "find_user", "create_user",
                   "create_identity", "commit", "find_password", "done"},
             ask : Request \cup {Nothing}, attempt : 0..1,
             made : BOOLEAN, linked : BOOLEAN, answer : Outcome]

Fresh == [pc |-> "new", ask |-> Nothing, attempt |-> 0,
          made |-> FALSE, linked |-> FALSE, answer |-> "none"]

AccountsInit ==
    /\ users = [m \in Mail |-> Nothing]
    /\ identities = [s \in Subject |-> Nothing]
    /\ job = [j \in Job |-> Fresh]

-----------------------------------------------------------------------------
At(j, pc) == job[j].pc = pc
Update(j, new) == job' = [job EXCEPT ![j] = new]
Goto(j, pc) == Update(j, [job[j] EXCEPT !.pc = pc])
Answered(j, answer) == [job[j] EXCEPT !.pc = "done", !.answer = answer,
                                      !.made = FALSE, !.linked = FALSE]
Answer(j, answer) == Update(j, Answered(j, answer)) /\ UNCHANGED <<users, identities>>

(* The account that a subject is linked to, as a statement of now sees it. *)
AccountOf(s) == IF identities[s] = Nothing THEN Nothing ELSE identities[s].user

Begin(j, r) ==
    /\ At(j, "new")
    /\ Update(j, [Fresh EXCEPT !.ask = r,
                           !.pc = CASE r.kind = "google"  -> "exchange"
                                    [] r.kind = "sign_up" -> "create_user"
                                    [] OTHER              -> "find_password"])
    /\ UNCHANGED <<users, identities>>

(* The code is exchanged and the ID token verified, or not.                *)
Exchange(j) ==
    /\ At(j, "exchange")
    /\ \/ Goto(j, "find_identity") /\ UNCHANGED <<users, identities>>
       \/ Answer(j, "TOKEN_EXCHANGE_FAILED")

(* A known subject signs in to its account, whatever its e-mail is by now; *)
(* the changed e-mail is recorded when the transaction commits.            *)
FindIdentity(j) ==
    /\ At(j, "find_identity")
    /\ Goto(j, IF identities[job[j].ask.subject] # Nothing THEN "commit" ELSE "find_user")
    /\ UNCHANGED <<users, identities>>

FindUser(j) ==
    /\ At(j, "find_user")
    /\ IF users[job[j].ask.mail] = Nothing
       THEN Goto(j, "create_user") /\ UNCHANGED <<users, identities>>
       ELSE IF job[j].ask.authoritative
            THEN Goto(j, "create_identity") /\ UNCHANGED <<users, identities>>
            ELSE Answer(j, "NON_AUTHORITATIVE_EMAIL_CONFLICT")

(* Mutant: a conflict is answered at once.                                 *)
ConflictAnswered(j) ==
    Answer(j, IF job[j].ask.kind = "sign_up" THEN "AUTH_EMAIL_CONFLICT" ELSE "IDENTITY_CONFLICT")

(* P2002: the transaction is rolled back; a Google sign-in tries once more.*)
Conflict(j) ==
    /\ \/ /\ job[j].ask.kind = "sign_up"
          /\ Update(j, Answered(j, "AUTH_EMAIL_CONFLICT"))
       \/ /\ job[j].ask.kind = "google" /\ job[j].attempt = 0
          /\ Update(j, [job[j] EXCEPT !.pc = "find_identity", !.attempt = 1,
                                   !.made = FALSE, !.linked = FALSE])
       \/ /\ job[j].ask.kind = "google" /\ job[j].attempt = 1
          /\ Update(j, Answered(j, "IDENTITY_CONFLICT"))
    /\ UNCHANGED <<users, identities>>

(* Mutant: an upsert in place of the insert.                               *)
CreateUserUpserting(j) ==
    /\ At(j, "create_user")
    /\ \A k \in Job \ {j} : job[k].made => job[k].ask.mail # job[j].ask.mail
    /\ Update(j, [job[j] EXCEPT !.made = users[job[j].ask.mail] = Nothing,
                             !.pc = IF job[j].ask.kind = "sign_up" THEN "commit"
                                    ELSE "create_identity"])
    /\ UNCHANGED <<users, identities>>

(* Mutant: the account is created before the transaction, not in it.       *)
CreateUserAtOnce(j) ==
    /\ At(j, "create_user")
    /\ IF users[job[j].ask.mail] # Nothing
       THEN Conflict(j)
       ELSE /\ users' = [users EXCEPT ![job[j].ask.mail] =
                              [maker |-> j, password |-> job[j].ask.kind = "sign_up"]]
            /\ Goto(j, IF job[j].ask.kind = "sign_up" THEN "commit" ELSE "create_identity")
            /\ UNCHANGED identities

CreateUser(j) ==
    /\ At(j, "create_user")
    /\ \A k \in Job \ {j} : job[k].made => job[k].ask.mail # job[j].ask.mail
    /\ IF users[job[j].ask.mail] # Nothing
       THEN Conflict(j)
       ELSE /\ Update(j, [job[j] EXCEPT !.made = TRUE,
                            !.pc = IF job[j].ask.kind = "sign_up" THEN "commit"
                                   ELSE "create_identity"])
            /\ UNCHANGED <<users, identities>>

CreateIdentity(j) ==
    LET ask == job[j].ask IN
    /\ At(j, "create_identity")
    /\ \A k \in Job \ {j} : job[k].linked =>
            job[k].ask.subject # ask.subject /\ job[k].ask.mail # ask.mail
    /\ IF identities[ask.subject] # Nothing \/ (\E s \in Subject : AccountOf(s) = ask.mail)
       THEN Conflict(j)
       ELSE /\ Update(j, [job[j] EXCEPT !.linked = TRUE, !.pc = "commit"])
            /\ UNCHANGED <<users, identities>>

(* What the transaction wrote becomes visible, together with its session.  *)
Written(j) ==
    LET ask == job[j].ask IN
    /\ users' = IF job[j].made
                THEN [users EXCEPT ![ask.mail] =
                         [maker |-> j, password |-> ask.kind = "sign_up"]]
                ELSE users
    /\ identities' =
         IF ask.kind # "google" THEN identities
         ELSE IF job[j].linked
              THEN [identities EXCEPT ![ask.subject] =
                       [user |-> ask.mail, mail |-> ask.mail, linker |-> j]]
              ELSE [identities EXCEPT ![ask.subject].mail = ask.mail]

(* The acknowledgement of COMMIT may be lost.                              *)
Commit(j) ==
    /\ At(j, "commit")
    /\ Written(j)
    /\ \E answer \in {"signed_in", "error"} : Update(j, Answered(j, answer))

(* AuthService.login reads the account in one statement.                   *)
FindPassword(j) ==
    /\ At(j, "find_password")
    /\ LET user == users[job[j].ask.mail] IN
       Answer(j, IF user # Nothing /\ user.password THEN "signed_in" ELSE "INVALID_CREDENTIALS")

(* The process, the connection or the transaction ends: rolled back.       *)
Abort(j) ==
    /\ job[j].pc \notin {"new", "done"}
    /\ Answer(j, "error")

Step(j) == \/ Exchange(j) \/ FindIdentity(j) \/ FindUser(j) \/ CreateUser(j)
           \/ CreateIdentity(j) \/ Commit(j) \/ FindPassword(j)

AccountsNext == \E j \in Job : Step(j) \/ Abort(j) \/ (\E r \in Request : Begin(j, r))

AccountsSpec == AccountsInit /\ [][AccountsNext]_accountVars

-----------------------------------------------------------------------------
AccountsTypeOK ==
    /\ users \in [Mail -> User \cup {Nothing}]
    /\ identities \in [Subject -> Identity \cup {Nothing}]
    /\ job \in [Job -> JobState]

(* A Google identity opens only the account that it came with, or one whose*)
(* e-mail Google vouches for: never an account that somebody else made     *)
(* between the look-up and the insert.                                     *)
LinkedByOwner ==
    \A s \in Subject : identities[s] # Nothing =>
        LET i == identities[s] IN
        /\ users[i.user] # Nothing
        /\ users[i.user].maker = i.linker \/ job[i.linker].ask.authoritative

(* Nobody is locked out by a sign-up that failed half-way: an account that *)
(* exists, and blocks its e-mail, can be signed in to.                     *)
AccountReachable ==
    \A m \in Mail : users[m] # Nothing =>
        users[m].password \/ (\E s \in Subject : AccountOf(s) = m)

(* A refusal says the truth: losing a race against a request that fails, or*)
(* that made the same account, is not answered as a conflict.              *)
RefusalIsReal ==
    \A j \in Job : LET ask == job[j].ask IN
        /\ job[j].answer \in {"AUTH_EMAIL_CONFLICT", "NON_AUTHORITATIVE_EMAIL_CONFLICT"}
             => users[ask.mail] # Nothing
        /\ job[j].answer = "IDENTITY_CONFLICT"
             => \/ identities[ask.subject] # Nothing
                \/ \E s \in Subject : AccountOf(s) = ask.mail
=============================================================================
