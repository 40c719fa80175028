------------------------- MODULE WorkspaceIntegrity -------------------------
(***************************************************************************)
(* Members, tasks and notifications of one workspace under concurrent      *)
(* requests, each one database transaction.  Operations that write across  *)
(* tables run at SERIALIZABLE with a bounded retry                         *)
(* (app/backend/src/database/serializable-transaction.ts); the others run  *)
(* at PostgreSQL's READ COMMITTED, every statement on the latest commit.   *)
(*                                                                         *)
(* A request that is refused changes nothing and is left out: the model    *)
(* starts a request only where its first checks pass.                      *)
(***************************************************************************)
EXTENDS Naturals

CONSTANTS
  User,
  Founder,     \* the creator of the workspace, its only OWNER
  Task,        \* ids of tasks; the project they belong to is never deleted
  Comment,     \* ids of comments
  Request,     \* requests in flight
  None,
  Kinds,       \* bound: the operations explored, a subset of Operations
  Grants,      \* bound: the roles granted, a subset of MANAGEABLE_WORKSPACE_ROLES
  MaxRetries   \* the length of DEFAULT_DELAYS_MS

Role == {"OWNER", "ADMIN", "MEMBER", "VIEWER"}
Status == {"BACKLOG", "IN_PROGRESS", "DONE", "CANCELED"}
Operations == {"addMember", "updateMember", "removeMember", "createTask", "updateTask",
               "transitionStatus", "createComment", "markRead", "markAllRead"}

ASSUME FounderAssumption == Founder \in User
ASSUME NoneAssumption == None \notin User \cup Role
ASSUME BoundsAssumption == /\ Kinds \subseteq Operations
                           /\ Grants \subseteq Role \ {"OWNER"}
                           /\ MaxRetries \in Nat

VARIABLES
  members,   \* per user: the role of its WorkspaceMember row, or None
  tasks,     \* per id: the Task row, or None
  notes,     \* Notification rows
  pc,        \* per request: where its transaction is
  op,        \* per request: what it asks for
  seen,      \* per request: the role or the task status that it was decided on
  reads,     \* per request: what its transaction has read, rows and predicates
  writes,    \* per request: what it is about to write
  doomed,    \* per request: a concurrent commit makes its own fail
  tries      \* per request: serialization failures so far

vars == <<members, tasks, notes, pc, op, seen, reads, writes, doomed, tries>>

TaskRow == [assignee : User \cup {None}, status : Status]
Note == [to : User, of : Comment, read : BOOLEAN]

ASSUME RowAssumption == None \notin TaskRow

(***************************************************************************)
(* Footprints name the rows a transaction reads, updates or deletes, and   *)
(* the two predicates over which rows are found: the tasks assigned to a   *)
(* user and the notifications of a recipient.                              *)
(***************************************************************************)
Member(u) == [table |-> "member", user |-> u]
TheTask(t) == [table |-> "task", task |-> t]
TheNote(u, c) == [table |-> "note", user |-> u, comment |-> c]
Assigned(u) == [table |-> "assigned", user |-> u]
Inbox(u) == [table |-> "inbox", user |-> u]

Rows == {Member(u) : u \in User} \cup {TheTask(t) : t \in Task}
          \cup {TheNote(u, c) : u \in User, c \in Comment}
Predicates == {Assigned(u) : u \in User} \cup {Inbox(u) : u \in User}

Op == [kind : Operations, by : User, on : User \cup {None}, to : Role \cup Status \cup {None},
       task : Task \cup {None}, of : Comment \cup {None}, cc : SUBSET User]

TypeOK ==
  /\ members \in [User -> Role \cup {None}]
  /\ tasks \in [Task -> TaskRow \cup {None}]
  /\ notes \subseteq Note
  /\ pc \in [Request -> {"idle", "authorized", "ready", "retry"}]
  /\ op \in [Request -> Op \cup {None}]
  /\ seen \in [Request -> Role \cup Status \cup {None}]
  /\ reads \in [Request -> SUBSET (Rows \cup Predicates)]
  /\ writes \in [Request -> SUBSET (Rows \cup Predicates)]
  /\ doomed \in [Request -> BOOLEAN]
  /\ tries \in [Request -> 0..MaxRetries]

\* Any team the member operations can build, before any task or comment.
Init ==
  /\ members \in {m \in [User -> Grants \cup {"OWNER", None}] :
                    \A u \in User : m[u] = "OWNER" <=> u = Founder}
  /\ tasks = [t \in Task |-> None]
  /\ notes = {}
  /\ pc = [r \in Request |-> "idle"]
  /\ op = [r \in Request |-> None]
  /\ seen = [r \in Request |-> None]
  /\ reads = [r \in Request |-> {}]
  /\ writes = [r \in Request |-> {}]
  /\ doomed = [r \in Request |-> FALSE]
  /\ tries = [r \in Request |-> 0]

-----------------------------------------------------------------------------
(* The policies.                                                           *)

\* Mutant: an administrator manages everyone but other administrators.
ManagedWithOwner(actor) ==
  CASE actor = "OWNER" -> {"ADMIN", "MEMBER", "VIEWER"}
    [] actor = "ADMIN" -> {"OWNER", "MEMBER", "VIEWER"}
    [] OTHER -> {}

\* The roles a member of role `actor` may grant, change and remove.
Managed(actor) ==
  CASE actor = "OWNER" -> {"ADMIN", "MEMBER", "VIEWER"}
    [] actor = "ADMIN" -> {"MEMBER", "VIEWER"}
    [] OTHER -> {}

CanMutateTask(actor) == actor \in {"OWNER", "ADMIN", "MEMBER"}

CanTransition(current, requested) ==
  requested \in CASE current = "BACKLOG" -> {"IN_PROGRESS", "CANCELED"}
                  [] current = "IN_PROGRESS" -> {"DONE", "CANCELED"}
                  [] current = "DONE" -> {"IN_PROGRESS"}
                  [] OTHER -> {}

\* Mutants: one of the operations is left at the default isolation level.
SerializableButTasks(kind) ==
  kind \in {"removeMember", "createComment", "markRead", "markAllRead"}
SerializableButRemoval(kind) ==
  kind \in {"createTask", "updateTask", "createComment", "markRead", "markAllRead"}

\* The operations that go through runSerializableTransaction.
Serializable(kind) ==
  kind \in {"removeMember", "createTask", "updateTask", "createComment", "markRead",
            "markAllRead"}

\* Every check of a serializable transaction, on its snapshot.
Permitted(o) ==
  LET actor == members[o.by] IN
  /\ actor # None
  /\ \/ /\ o.kind = "removeMember"
        /\ o.on # o.by /\ members[o.on] \in Managed(actor)
     \/ /\ o.kind = "createTask"
        /\ CanMutateTask(actor)
        /\ o.on # None => members[o.on] # None
     \/ /\ o.kind = "updateTask"
        /\ CanMutateTask(actor)
        /\ tasks[o.task] # None
        /\ o.on # None => members[o.on] # None
     \/ /\ o.kind = "createComment"
        /\ actor # "VIEWER"
        /\ tasks[o.task] # None
        /\ o.by \notin o.cc /\ \A u \in o.cc : members[u] # None
     \/ /\ o.kind = "markRead"
        /\ [to |-> o.by, of |-> o.of, read |-> FALSE] \in notes
     \/ o.kind = "markAllRead"

Named(u) == IF u = None THEN {} ELSE {u}

ReadSet(o) ==
  {Member(u) : u \in {o.by} \cup Named(o.on) \cup o.cc} \cup
  CASE o.kind = "removeMember" -> {Assigned(o.on), Inbox(o.on)}
    [] o.kind = "updateTask" -> {TheTask(o.task)}
    [] o.kind \in {"markRead", "markAllRead"} -> {Inbox(o.by)}
    [] OTHER -> {}

AssignedTo(u) == {t \in Task : tasks[t] # None /\ tasks[t].assignee = u}
NotesOf(u) == {n \in notes : n.to = u}

WriteSet(o) ==
  CASE o.kind = "removeMember" ->
         {Member(o.on), Assigned(o.on), Inbox(o.on)}
           \cup {TheTask(t) : t \in AssignedTo(o.on)}
           \cup {TheNote(n.to, n.of) : n \in NotesOf(o.on)}
    [] o.kind = "createTask" -> {Assigned(u) : u \in Named(o.on)}
    [] o.kind = "updateTask" ->
         {TheTask(o.task)}
           \cup {Assigned(u) : u \in Named(o.on) \cup Named(tasks[o.task].assignee)}
    [] o.kind = "createComment" -> {Inbox(u) : u \in o.cc}
    [] o.kind = "markRead" -> {TheNote(o.by, o.of), Inbox(o.by)}
    [] o.kind = "markAllRead" ->
         {Inbox(o.by)} \cup {TheNote(n.to, n.of) : n \in {m \in NotesOf(o.by) : ~m.read}}
    [] OTHER -> {}

-----------------------------------------------------------------------------
(* Transactions.                                                           *)

\* What a commit of rows and predicates W, by a transaction that read R, means
\* for the others.  A SERIALIZABLE transaction cannot overwrite a row committed
\* after its snapshot, nor commit in a cycle of read-write conflicts with another
\* one; a READ COMMITTED updateMember fails once the row it read by id is deleted.
Overtaken(q, serial, R, W, deleted) ==
  /\ pc[q] \in {"authorized", "ready"}
  /\ IF Serializable(op[q].kind)
     THEN \/ writes[q] \cap W \cap Rows # {}
          \/ serial /\ reads[q] \cap W # {} /\ writes[q] \cap R # {}
     ELSE reads[q] \cap deleted # {}

Committed(r, serial, R, W, deleted) ==
  doomed' = [q \in Request |->
               q # r /\ (doomed[q] \/ Overtaken(q, serial, R, W, deleted))]

Finished(r) ==
  /\ pc' = [pc EXCEPT ![r] = "idle"]
  /\ op' = [op EXCEPT ![r] = None]
  /\ seen' = [seen EXCEPT ![r] = None]
  /\ reads' = [reads EXCEPT ![r] = {}]
  /\ writes' = [writes EXCEPT ![r] = {}]
  /\ tries' = [tries EXCEPT ![r] = 0]

\* An answer without effect on the database.
GivenUp(r) ==
  /\ Finished(r)
  /\ doomed' = [doomed EXCEPT ![r] = FALSE]
  /\ UNCHANGED <<members, tasks, notes>>

\* A serializable transaction takes its snapshot, makes its checks on it and
\* knows what it will write.
Snapshot(r, o) ==
  /\ pc' = [pc EXCEPT ![r] = "ready"]
  /\ op' = [op EXCEPT ![r] = o]
  /\ seen' = [seen EXCEPT ![r] = IF o.kind = "removeMember" THEN members[o.on] ELSE None]
  /\ reads' = [reads EXCEPT ![r] = ReadSet(o)]
  /\ writes' = [writes EXCEPT ![r] = WriteSet(o)]
  /\ doomed' = [doomed EXCEPT ![r] = FALSE]
  /\ UNCHANGED <<members, tasks, notes>>

Begin(r, o) ==
  /\ pc[r] = "idle"
  /\ o.kind \in Kinds
  /\ Permitted(o)
  /\ Snapshot(r, o)
  /\ UNCHANGED tries

\* The next attempt of runSerializableTransaction, after its delay: a new
\* transaction with a new snapshot, which may find the request refused.
Retry(r) ==
  /\ pc[r] = "retry"
  /\ IF Permitted(op[r]) THEN Snapshot(r, op[r]) /\ UNCHANGED tries ELSE GivenUp(r)

\* There is a delay left for another attempt.
RetriesLeft(r) == tries[r] < MaxRetries

\* A serialization failure (P2034): forced when doomed, possible at any time, as
\* PostgreSQL also aborts transactions that it cannot prove serializable.
Abort(r) ==
  /\ pc[r] = "ready"
  /\ Serializable(op[r].kind)
  /\ IF RetriesLeft(r)
     THEN /\ pc' = [pc EXCEPT ![r] = "retry"]
          /\ tries' = [tries EXCEPT ![r] = @ + 1]
          /\ seen' = [seen EXCEPT ![r] = None]
          /\ reads' = [reads EXCEPT ![r] = {}]
          /\ writes' = [writes EXCEPT ![r] = {}]
          /\ doomed' = [doomed EXCEPT ![r] = FALSE]
          /\ UNCHANGED <<members, tasks, notes, op>>
     ELSE GivenUp(r)

\* COMMIT of a serializable transaction.
Commits(r, kind) ==
  /\ pc[r] = "ready" /\ op[r].kind = kind
  /\ Serializable(kind) => ~doomed[r]
  /\ Finished(r)
  /\ Committed(r, Serializable(kind), reads[r], writes[r],
               IF kind = "removeMember" THEN {Member(op[r].on)} ELSE {})

\* Unassign the member's tasks, delete its notifications, delete the membership.
RemoveMember(r) ==
  /\ Commits(r, "removeMember")
  /\ members' = [members EXCEPT ![op[r].on] = None]
  /\ tasks' = [t \in Task |-> IF TheTask(t) \in writes[r]
                              THEN [tasks[t] EXCEPT !.assignee = None] ELSE tasks[t]]
  /\ notes' = {n \in notes : TheNote(n.to, n.of) \notin writes[r]}

CreateTask(r, t) ==
  /\ Commits(r, "createTask")
  /\ tasks[t] = None
  /\ tasks' = [tasks EXCEPT ![t] = [assignee |-> op[r].on, status |-> "BACKLOG"]]
  /\ UNCHANGED <<members, notes>>

\* Reassign or unassign; an edit of title, text or due date changes nothing that
\* is modelled here.
UpdateTask(r) ==
  /\ Commits(r, "updateTask")
  /\ tasks' = [tasks EXCEPT ![op[r].task].assignee = op[r].on]
  /\ UNCHANGED <<members, notes>>

\* The comment, its mentions and one notification per mentioned member.
CreateComment(r, c) ==
  /\ Commits(r, "createComment")
  /\ \A n \in notes : n.of # c
  /\ notes' = notes \cup {[to |-> u, of |-> c, read |-> FALSE] : u \in op[r].cc}
  /\ UNCHANGED <<members, tasks>>

\* readAt is set on the unread rows found in the snapshot.
MarkRead(r) ==
  /\ Commits(r, "markRead") \/ Commits(r, "markAllRead")
  /\ notes' = {IF TheNote(n.to, n.of) \in writes[r] THEN [n EXCEPT !.read = TRUE] ELSE n :
                 n \in notes}
  /\ UNCHANGED <<members, tasks>>

-----------------------------------------------------------------------------
(* READ COMMITTED transactions, one statement after the other.             *)

\* requireActor, and the checks that need no more than the actor's role.
Authorize(r, o) ==
  LET actor == members[o.by] IN
  /\ pc[r] = "idle"
  /\ o.kind \in Kinds
  /\ actor # None
  /\ \/ o.kind = "addMember" /\ o.to \in Managed(actor)
     \/ o.kind = "updateMember" /\ o.on # o.by
     \/ o.kind = "transitionStatus" /\ CanMutateTask(actor)
  /\ pc' = [pc EXCEPT ![r] = IF o.kind = "addMember" THEN "ready" ELSE "authorized"]
  /\ op' = [op EXCEPT ![r] = o]
  /\ seen' = [seen EXCEPT ![r] = actor]
  /\ UNCHANGED <<members, tasks, notes, reads, writes, doomed, tries>>

\* findWorkspaceMember and canUpdateWorkspaceMember.
FindTarget(r) ==
  LET o == op[r] IN
  /\ pc[r] = "authorized" /\ o.kind = "updateMember"
  /\ IF /\ members[o.on] \in Managed(seen[r])
        /\ o.to \in Managed(seen[r])
     THEN /\ pc' = [pc EXCEPT ![r] = "ready"]
          /\ reads' = [reads EXCEPT ![r] = {Member(o.on)}]
          /\ UNCHANGED <<members, tasks, notes, op, seen, writes, doomed, tries>>
     ELSE GivenUp(r)

\* requireTaskIdentity and canTransitionTaskStatus.
FindTask(r) ==
  LET o == op[r] IN
  /\ pc[r] = "authorized" /\ o.kind = "transitionStatus"
  /\ IF tasks[o.task] # None /\ CanTransition(tasks[o.task].status, o.to)
     THEN /\ pc' = [pc EXCEPT ![r] = "ready"]
          /\ seen' = [seen EXCEPT ![r] = tasks[o.task].status]
          /\ UNCHANGED <<members, tasks, notes, op, reads, writes, doomed, tries>>
     ELSE GivenUp(r)

Statement(r, kind, W) ==
  /\ pc[r] = "ready" /\ op[r].kind = kind
  /\ Finished(r)
  /\ Committed(r, FALSE, {}, W, {})

\* A membership that exists already is answered 409.
AddMember(r) ==
  LET u == op[r].on IN
  /\ Statement(r, "addMember", {})
  /\ members' = IF members[u] = None THEN [members EXCEPT ![u] = op[r].to] ELSE members
  /\ UNCHANGED <<tasks, notes>>

\* The update names the row by its id only.
UpdateMember(r) ==
  LET u == op[r].on IN
  /\ Statement(r, "updateMember", {Member(u)})
  /\ members' = IF doomed[r] THEN members ELSE [members EXCEPT ![u] = op[r].to]
  /\ UNCHANGED <<tasks, notes>>

\* Mutant: the update names the row only.
TransitionStatusById(r) ==
  LET t == op[r].task IN
  /\ Statement(r, "transitionStatus", {TheTask(t)})
  /\ tasks' = [tasks EXCEPT ![t].status = op[r].to]
  /\ UNCHANGED <<members, notes>>

\* The update repeats the status it was decided from; no row left is a 409.
TransitionStatus(r) ==
  LET t == op[r].task IN
  /\ Statement(r, "transitionStatus", {TheTask(t)})
  /\ tasks' = IF tasks[t].status = seen[r] THEN [tasks EXCEPT ![t].status = op[r].to] ELSE tasks
  /\ UNCHANGED <<members, notes>>

Proceed(r) ==
  \/ Retry(r)
  \/ Abort(r)
  \/ RemoveMember(r)
  \/ \E t \in Task : CreateTask(r, t)
  \/ UpdateTask(r)
  \/ \E c \in Comment : CreateComment(r, c)
  \/ MarkRead(r)
  \/ FindTarget(r)
  \/ FindTask(r)
  \/ AddMember(r)
  \/ UpdateMember(r)
  \/ TransitionStatus(r)

\* The requests that clients send.
NoArguments == [kind |-> None, by |-> None, on |-> None, to |-> None, task |-> None,
                of |-> None, cc |-> {}]
Send(r, by) ==
  \/ \E k \in {"addMember", "updateMember"}, u \in User, ro \in Grants :
       Authorize(r, [NoArguments EXCEPT !.kind = k, !.by = by, !.on = u, !.to = ro])
  \/ \E t \in Task, st \in Status :
       Authorize(r, [NoArguments EXCEPT !.kind = "transitionStatus", !.by = by, !.task = t, !.to = st])
  \/ \E u \in User : Begin(r, [NoArguments EXCEPT !.kind = "removeMember", !.by = by, !.on = u])
  \/ \E u \in User \cup {None} :
       Begin(r, [NoArguments EXCEPT !.kind = "createTask", !.by = by, !.on = u])
  \/ \E t \in Task, u \in User \cup {None} :
       Begin(r, [NoArguments EXCEPT !.kind = "updateTask", !.by = by, !.on = u, !.task = t])
  \/ \E t \in Task, us \in SUBSET User \ {{}} :
       Begin(r, [NoArguments EXCEPT !.kind = "createComment", !.by = by, !.task = t, !.cc = us])
  \/ \E c \in Comment : Begin(r, [NoArguments EXCEPT !.kind = "markRead", !.by = by, !.of = c])
  \/ Begin(r, [NoArguments EXCEPT !.kind = "markAllRead", !.by = by])

Next ==
  \/ \E r \in Request, by \in User : Send(r, by)
  \/ \E r \in Request : Proceed(r)

Spec == Init /\ [][Next]_vars

-----------------------------------------------------------------------------
\* Removing a member and assigning it a task, in any overlap and after any number
\* of retries, never leaves a task assigned to somebody outside the workspace.
AssigneeIsMember ==
  \A t \in Task : tasks[t] # None /\ tasks[t].assignee # None =>
    members[tasks[t].assignee] # None

\* Nor does a mention that races the removal leave a notification, with the
\* title of the task it links to, in the inbox of a former member.
RecipientIsMember == \A n \in notes : members[n.to] # None

\* Removing a member against everything that names one at the same time.
OnlyMembersNamed == AssigneeIsMember /\ RecipientIsMember

\* The workspace keeps its one OWNER: no grant, change or removal, however stale
\* the roles it was decided from, touches the founder or makes a second one.
OwnerRemains == \A u \in User : members[u] = "OWNER" <=> u = Founder

\* A task's life follows the transition table although the status is read in one
\* statement and written in another, with reassignments and other transitions between.
StatusLifecycle ==
  [][\A t \in Task : tasks[t] # None =>
       /\ tasks'[t] # None
       /\ tasks'[t].status # tasks[t].status => CanTransition(tasks[t].status, tasks'[t].status)]_vars

\* A removal is decided on the role the member has when it is removed: an ADMIN's
\* removal of a MEMBER does not take away somebody made ADMIN in the meantime.
RemovalRespectsRank ==
  [][\A r \in Request : RemoveMember(r) => members[op[r].on] = seen[r]]_vars

\* "Update ADMIN role: OWNER yes, ADMIN no": a role is changed only by somebody
\* whose role manages the one it replaces.
UpdateRespectsRank ==
  [][\A r \in Request : UpdateMember(r) /\ ~doomed[r] => members[op[r].on] \in Managed(seen[r])]_vars
=============================================================================
