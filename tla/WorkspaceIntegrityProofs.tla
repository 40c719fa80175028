---------------------- MODULE WorkspaceIntegrityProofs ----------------------
(***************************************************************************)
(* The integrity of a workspace, for any number of users, tasks, comments  *)
(* and overlapping requests and any number of retries.                     *)
(***************************************************************************)
EXTENDS WorkspaceIntegrity, TLAPS

\* What the clients' requests carry.
Argued(o) ==
  /\ o \in Op
  /\ o.kind \in {"addMember", "updateMember"} => o.on \in User /\ o.to \in Grants
  /\ o.kind = "removeMember" => o.on \in User
  /\ o.kind \in {"updateTask", "transitionStatus", "createComment"} => o.task \in Task
  /\ o.kind = "transitionStatus" => o.to \in Status
  /\ o.kind = "markRead" => o.of \in Comment

\* What a request knows for good once its checks are made: tasks stay, and the
\* founder stays the one OWNER.
Knows(r) ==
  /\ Argued(op[r])
  /\ pc[r] = "retry" => Serializable(op[r].kind)
  /\ pc[r] = "ready" =>
       /\ op[r].kind \in {"updateMember", "removeMember"} => op[r].on # Founder
       /\ op[r].kind \in {"updateTask", "transitionStatus"} => tasks[op[r].task] # None
       /\ op[r].kind = "transitionStatus" => CanTransition(seen[r], op[r].to)

OpsKnown == \A r \in Request : pc[r] # "idle" => Knows(r)

\* Two operations that must not both commit on the same snapshot meet twice in
\* their footprints, once in each direction.
Meets(r) ==
  /\ op[r].kind \in {"createTask", "updateTask"} /\ op[r].on # None =>
       Member(op[r].on) \in reads[r] /\ Assigned(op[r].on) \in writes[r]
  /\ op[r].kind = "createComment" =>
       \A u \in op[r].cc : Member(u) \in reads[r] /\ Inbox(u) \in writes[r]
  /\ op[r].kind = "removeMember" =>
       /\ Assigned(op[r].on) \in reads[r] /\ Inbox(op[r].on) \in reads[r]
       /\ Member(op[r].on) \in writes[r]
       /\ \A t \in Task : TheTask(t) \in writes[r] => tasks[t] # None

FootprintsKnown == \A r \in Request : pc[r] = "ready" => Meets(r)

\* As long as its transaction can commit, what a request saw still holds.
Holds(r) ==
  /\ op[r].kind \in {"createTask", "updateTask"} /\ op[r].on # None => members[op[r].on] # None
  /\ op[r].kind = "createComment" => \A u \in op[r].cc : members[u] # None
  /\ op[r].kind = "removeMember" =>
       /\ members[op[r].on] = seen[r] /\ members[op[r].on] # None
       /\ \A t \in Task : tasks[t] # None /\ tasks[t].assignee = op[r].on =>
                            TheTask(t) \in writes[r]
       /\ \A n \in notes : n.to = op[r].on => TheNote(n.to, n.of) \in writes[r]

SnapshotHolds == \A r \in Request : pc[r] = "ready" /\ ~doomed[r] => Holds(r)

\* The inductive invariant.
IInv ==
  /\ TypeOK
  /\ OpsKnown
  /\ FootprintsKnown
  /\ SnapshotHolds
  /\ AssigneeIsMember
  /\ RecipientIsMember
  /\ OwnerRemains

-----------------------------------------------------------------------------
(* Requests and footprints.                                                *)

\* Every request a client can send is well formed.
LEMMA Sends ==
  ASSUME NEW r \in Request, NEW by \in User, Send(r, by)
  PROVE  \E o \in Op : Argued(o) /\ (Begin(r, o) \/ Authorize(r, o))
<1>0. Grants \subseteq Role
  BY BoundsAssumption
<1>1. ASSUME NEW k \in {"addMember", "updateMember"}, NEW u \in User, NEW ro \in Grants
      PROVE  Argued([NoArguments EXCEPT !.kind = k, !.by = by, !.on = u, !.to = ro])
  BY <1>0 DEF Argued, Op, Operations, NoArguments
<1>2. ASSUME NEW t \in Task, NEW st \in Status
      PROVE  Argued([NoArguments EXCEPT !.kind = "transitionStatus", !.by = by, !.task = t, !.to = st])
  BY DEF Argued, Op, Operations, NoArguments
<1>3. ASSUME NEW u \in User
      PROVE  Argued([NoArguments EXCEPT !.kind = "removeMember", !.by = by, !.on = u])
  BY DEF Argued, Op, Operations, NoArguments
<1>4. ASSUME NEW u \in User \cup {None}
      PROVE  Argued([NoArguments EXCEPT !.kind = "createTask", !.by = by, !.on = u])
  BY DEF Argued, Op, Operations, NoArguments
<1>5. ASSUME NEW t \in Task, NEW u \in User \cup {None}
      PROVE  Argued([NoArguments EXCEPT !.kind = "updateTask", !.by = by, !.on = u, !.task = t])
  BY DEF Argued, Op, Operations, NoArguments
<1>6. ASSUME NEW t \in Task, NEW us \in SUBSET User \ {{}}
      PROVE  Argued([NoArguments EXCEPT !.kind = "createComment", !.by = by, !.task = t, !.cc = us])
  BY DEF Argued, Op, Operations, NoArguments
<1>7. ASSUME NEW c \in Comment
      PROVE  Argued([NoArguments EXCEPT !.kind = "markRead", !.by = by, !.of = c])
  BY DEF Argued, Op, Operations, NoArguments
<1>8. Argued([NoArguments EXCEPT !.kind = "markAllRead", !.by = by])
  BY DEF Argued, Op, Operations, NoArguments
<1>9. \A o : Argued(o) => o \in Op
  BY DEF Argued
<1> QED
  BY <1>1, <1>2, <1>3, <1>4, <1>5, <1>6, <1>7, <1>8, <1>9 DEF Send

\* A footprint consists of rows and predicates.
LEMMA FootprintsTyped ==
  ASSUME TypeOK, NEW o, Argued(o), Permitted(o)
  PROVE  /\ ReadSet(o) \in SUBSET (Rows \cup Predicates)
         /\ WriteSet(o) \in SUBSET (Rows \cup Predicates)
<1>1. /\ o.by \in User /\ o.on \in User \cup {None} /\ o.cc \subseteq User
      /\ o.kind = "removeMember" => o.on \in User
      /\ o.kind = "updateTask" => o.task \in Task /\ tasks[o.task] \in TaskRow
      /\ o.kind = "markRead" => o.of \in Comment
  BY DEF Argued, Op, Permitted, TypeOK
<1>2. {Member(u) : u \in {o.by} \cup Named(o.on) \cup o.cc} \subseteq Rows
  BY <1>1 DEF Rows, Named
<1>3. ReadSet(o) \in SUBSET (Rows \cup Predicates)
  BY <1>1, <1>2 DEF ReadSet, Rows, Predicates
<1>4. \A u \in User : {TheNote(n.to, n.of) : n \in NotesOf(u)} \subseteq Rows
  BY DEF TypeOK, Note, NotesOf, Rows
<1>5. \A u : {Assigned(v) : v \in Named(u) \cap User} \subseteq Predicates
  BY DEF Predicates
<1>6. CASE o.kind = "removeMember"
  <2>1. {TheTask(t) : t \in AssignedTo(o.on)} \subseteq Rows
    BY DEF AssignedTo, Rows
  <2>2. {Member(o.on), Assigned(o.on), Inbox(o.on)} \subseteq Rows \cup Predicates
    BY <1>1, <1>6 DEF Rows, Predicates
  <2>3. WriteSet(o) = {Member(o.on), Assigned(o.on), Inbox(o.on)}
                        \cup {TheTask(t) : t \in AssignedTo(o.on)}
                        \cup {TheNote(n.to, n.of) : n \in NotesOf(o.on)}
    BY <1>6 DEF WriteSet
  <2>4. {TheNote(n.to, n.of) : n \in NotesOf(o.on)} \subseteq Rows
    BY <1>1, <1>4, <1>6
  <2> QED  BY <1>3, <2>1, <2>2, <2>3, <2>4
<1>7. CASE o.kind = "createTask"
  BY <1>1, <1>3, <1>7 DEF WriteSet, Named, Predicates
<1>8. CASE o.kind = "updateTask"
  <2>1. Named(o.on) \cup Named(tasks[o.task].assignee) \subseteq User
    BY <1>1, <1>8 DEF Named, TaskRow
  <2>2. WriteSet(o) = {TheTask(o.task)}
           \cup {Assigned(u) : u \in Named(o.on) \cup Named(tasks[o.task].assignee)}
    BY <1>8 DEF WriteSet
  <2> QED  BY <1>1, <1>3, <1>8, <2>1, <2>2 DEF Rows, Predicates
<1>9. CASE o.kind = "createComment"
  BY <1>1, <1>3, <1>9 DEF WriteSet, Predicates
<1>10. CASE o.kind = "markRead"
  BY <1>1, <1>3, <1>10 DEF WriteSet, Rows, Predicates
<1>11. CASE o.kind = "markAllRead"
  <2>1. {TheNote(n.to, n.of) : n \in {m \in NotesOf(o.by) : ~m.read}} \subseteq Rows
    BY <1>1, <1>4
  <2>2. WriteSet(o) = {Inbox(o.by)}
           \cup {TheNote(n.to, n.of) : n \in {m \in NotesOf(o.by) : ~m.read}}
    BY <1>11 DEF WriteSet
  <2> QED  BY <1>1, <1>3, <2>1, <2>2 DEF Predicates
<1> QED
  BY <1>3, <1>6, <1>7, <1>8, <1>9, <1>10, <1>11 DEF Permitted

-----------------------------------------------------------------------------
(* The kinds of steps.                                                     *)

Asks(q) == \E o \in Op : /\ Argued(o)
                         /\ \/ Permitted(o) /\ Snapshot(q, o) /\ UNCHANGED tries
                            \/ Authorize(q, o)
Waits(q) == Abort(q) /\ RetriesLeft(q)

\* The steps of a request that leave the rows as they are.
Private(q) == Asks(q) \/ GivenUp(q) \/ Waits(q) \/ FindTarget(q) \/ FindTask(q)

\* The steps that commit.
Commit(q) ==
  \/ RemoveMember(q)
  \/ \E t \in Task : CreateTask(q, t)
  \/ UpdateTask(q)
  \/ \E c \in Comment : CreateComment(q, c)
  \/ MarkRead(q)
  \/ AddMember(q)
  \/ UpdateMember(q)
  \/ TransitionStatus(q)

\* Every step is one or the other.
LEMMA Steps ==
  ASSUME OpsKnown, [Next]_vars
  PROVE  UNCHANGED vars \/ \E q \in Request : Private(q) \/ Commit(q)
<1>1. ASSUME NEW r \in Request, NEW by \in User, Send(r, by)  PROVE Private(r)
  BY <1>1, Sends DEF Begin, Private, Asks
<1>2. ASSUME NEW r \in Request, Proceed(r)  PROVE Private(r) \/ Commit(r)
  <2>1. CASE Retry(r)
    <3>1. Argued(op[r]) /\ op[r] \in Op
      BY <2>1 DEF Retry, OpsKnown, Knows, Argued
    <3> QED  BY <2>1, <3>1 DEF Retry, Private, Asks
  <2>2. CASE Abort(r)
    BY <2>2 DEF Abort, Private, Waits
  <2> QED  BY <1>2, <2>1, <2>2 DEF Proceed, Private, Commit
<1> QED  BY <1>1, <1>2 DEF Next

\* Only commits change rows.
LEMMA PrivateKeepsRows ==
  ASSUME NEW q \in Request, Private(q)
  PROVE  UNCHANGED <<members, tasks, notes>>
BY DEF Private, Asks, Snapshot, Authorize, GivenUp, Waits, Abort, FindTarget, FindTask

\* A commit ends the request.
LEMMA CommitEnds ==
  ASSUME TypeOK, NEW q \in Request, Commit(q)
  PROVE  pc[q] = "ready" /\ pc'[q] = "idle"
BY DEF Commit, RemoveMember, CreateTask, UpdateTask, CreateComment, MarkRead, AddMember,
       UpdateMember, TransitionStatus, Commits, Statement, Finished, TypeOK

\* The other requests go on as they were, but may be doomed by a commit.
Still(r) ==
  /\ pc'[r] = pc[r] /\ op'[r] = op[r] /\ seen'[r] = seen[r]
  /\ reads'[r] = reads[r] /\ writes'[r] = writes[r]
  /\ doomed[r] => doomed'[r]

\* A step of one request leaves the others as they were, but for being doomed.
LEMMA OthersStill ==
  ASSUME TypeOK, NEW q \in Request, NEW r \in Request, r # q, Private(q) \/ Commit(q)
  PROVE  Still(r)
<1>1. CASE Private(q)
  BY <1>1 DEF Private, Asks, Snapshot, Authorize, GivenUp, Finished, Waits, Abort, FindTarget,
              FindTask, Still, TypeOK
<1>2. CASE Commit(q)
  <2>1. Finished(q) /\ \E serial, R, W, deleted : Committed(q, serial, R, W, deleted)
    BY <1>2 DEF Commit, RemoveMember, CreateTask, UpdateTask, CreateComment, MarkRead, AddMember,
                UpdateMember, TransitionStatus, Commits, Statement
  <2> QED  BY <2>1 DEF Finished, Committed, Still, TypeOK
<1> QED  BY <1>1, <1>2

-----------------------------------------------------------------------------
(* Types.                                                                  *)

\* What a finished request leaves behind has its type.
LEMMA FinishedTyped ==
  ASSUME TypeOK, NEW q \in Request, Finished(q)
  PROVE  /\ pc' \in [Request -> {"idle", "authorized", "ready", "retry"}]
         /\ op' \in [Request -> Op \cup {None}]
         /\ seen' \in [Request -> Role \cup Status \cup {None}]
         /\ reads' \in [Request -> SUBSET (Rows \cup Predicates)]
         /\ writes' \in [Request -> SUBSET (Rows \cup Predicates)]
         /\ tries' \in [Request -> 0..MaxRetries]
BY BoundsAssumption DEF TypeOK, Finished

\* Being doomed is a Boolean.
LEMMA CommittedTyped ==
  ASSUME TypeOK, NEW q \in Request, NEW serial, NEW R, NEW W, NEW deleted,
         Committed(q, serial, R, W, deleted)
  PROVE  doomed' \in [Request -> BOOLEAN]
BY DEF Committed

\* Rows keep their types whatever commits.
LEMMA RowsTyped ==
  ASSUME IInv, NEW q \in Request, Commit(q)
  PROVE  /\ members' \in [User -> Role \cup {None}]
         /\ tasks' \in [Task -> TaskRow \cup {None}]
         /\ notes' \subseteq Note
<1> USE DEF IInv, TypeOK
<1>1. op[q] \in Op /\ Knows(q)
  BY CommitEnds DEF OpsKnown, Knows, Argued
<1>2. \A t \in Task : tasks[t] # None => tasks[t] \in TaskRow
  OBVIOUS
<1>3. \A t \in Task, u \in User \cup {None} :
        tasks[t] # None => [tasks[t] EXCEPT !.assignee = u] \in TaskRow
  BY <1>2 DEF TaskRow
<1>4. \A t \in Task, st \in Status : tasks[t] # None => [tasks[t] EXCEPT !.status = st] \in TaskRow
  BY <1>2 DEF TaskRow
<1>5. CASE RemoveMember(q)
  <2>1. \A t \in Task : TheTask(t) \in writes[q] => tasks[t] # None
    BY <1>5 DEF RemoveMember, Commits, FootprintsKnown, Meets
  <2>2. op[q].on \in User
    BY <1>1, <1>5 DEF RemoveMember, Commits, Knows, Argued
  <2> QED  BY <1>3, <1>5, <2>1, <2>2 DEF RemoveMember
<1>6. ASSUME NEW t \in Task, CreateTask(q, t)
      PROVE  /\ UNCHANGED <<members, notes>>
             /\ tasks' \in [Task -> TaskRow \cup {None}]
  BY <1>1, <1>6 DEF CreateTask, TaskRow, Op, Status
<1>7. CASE UpdateTask(q)
  <2>1. op[q].task \in Task /\ tasks[op[q].task] # None /\ op[q].on \in User \cup {None}
    BY <1>1, <1>7 DEF UpdateTask, Commits, Knows, Argued, Op
  <2>2. tasks' = [tasks EXCEPT ![op[q].task] = [tasks[op[q].task] EXCEPT !.assignee = op[q].on]]
    BY <1>7 DEF UpdateTask
  <2>3. [tasks[op[q].task] EXCEPT !.assignee = op[q].on] \in TaskRow
    BY <1>3, <2>1
  <2>4. UNCHANGED <<members, notes>>
    BY <1>7 DEF UpdateTask
  <2> QED  BY <2>1, <2>2, <2>3, <2>4
<1>8. ASSUME NEW c \in Comment, CreateComment(q, c)
      PROVE  UNCHANGED <<members, tasks>> /\ notes' \subseteq Note
  <2>1. op[q].cc \subseteq User
    BY <1>1 DEF Op
  <2>2. \A u \in op[q].cc : [to |-> u, of |-> c, read |-> FALSE] \in Note
    BY <2>1 DEF Note
  <2>3. notes' = notes \cup {[to |-> u, of |-> c, read |-> FALSE] : u \in op[q].cc}
    BY <1>8 DEF CreateComment
  <2>4. UNCHANGED <<members, tasks>>
    BY <1>8 DEF CreateComment
  <2> QED  BY <2>2, <2>3, <2>4
<1>9. CASE MarkRead(q)
  <2>1. \A n \in notes : [n EXCEPT !.read = TRUE] \in Note
    BY DEF Note
  <2> QED  BY <1>9, <2>1 DEF MarkRead
<1>10. CASE AddMember(q)
  <2>1. op[q].on \in User /\ op[q].to \in Role
    BY <1>1, <1>10, BoundsAssumption DEF AddMember, Statement, Knows, Argued
  <2> QED  BY <1>10, <2>1 DEF AddMember
<1>11. CASE UpdateMember(q)
  <2>1. op[q].on \in User /\ op[q].to \in Role
    BY <1>1, <1>11, BoundsAssumption DEF UpdateMember, Statement, Knows, Argued
  <2> QED  BY <1>11, <2>1 DEF UpdateMember
<1>12. CASE TransitionStatus(q)
  <2> DEFINE t == op[q].task
  <2>1. t \in Task /\ tasks[t] # None /\ op[q].to \in Status
    BY <1>1, <1>12 DEF TransitionStatus, Statement, Knows, Argued
  <2>2. tasks' \in {tasks, [tasks EXCEPT ![t] = [tasks[t] EXCEPT !.status = op[q].to]]}
    BY <1>12 DEF TransitionStatus
  <2> QED  BY <1>4, <1>12, <2>1, <2>2 DEF TransitionStatus
<1> QED
  BY <1>5, <1>6, <1>7, <1>8, <1>9, <1>10, <1>11, <1>12 DEF Commit

\* Types are preserved.
LEMMA TypePreserved ==
  ASSUME IInv, [Next]_vars
  PROVE  TypeOK'
<1>1. TypeOK /\ OpsKnown
  BY DEF IInv
<1>2. CASE UNCHANGED vars
  BY <1>1, <1>2 DEF TypeOK, vars
<1>3. ASSUME NEW q \in Request, Commit(q)
      PROVE  TypeOK'
  <2>1. Finished(q) /\ \E serial, R, W, deleted : Committed(q, serial, R, W, deleted)
    BY <1>3 DEF Commit, RemoveMember, CreateTask, UpdateTask, CreateComment, MarkRead, AddMember,
                UpdateMember, TransitionStatus, Commits, Statement
  <2> QED  BY <1>1, <1>3, <2>1, RowsTyped, FinishedTyped, CommittedTyped DEF TypeOK
<1>4. ASSUME NEW q \in Request, GivenUp(q)
      PROVE  TypeOK'
  BY <1>1, <1>4, FinishedTyped DEF TypeOK, GivenUp
<1>5. ASSUME NEW q \in Request, Waits(q)
      PROVE  TypeOK'
  <2>1. tries[q] + 1 \in 0..MaxRetries
    BY <1>1, <1>5, BoundsAssumption DEF TypeOK, Waits, RetriesLeft
  <2> QED  BY <1>1, <1>5, <2>1 DEF TypeOK, Waits, Abort
<1>6. ASSUME NEW q \in Request, FindTarget(q)
      PROVE  TypeOK'
  <2>1. CASE GivenUp(q)
    BY <1>4, <2>1
  <2>2. CASE ~GivenUp(q)
    <3>1. op[q].on \in User
      BY <1>1, <1>6 DEF FindTarget, OpsKnown, Knows, Argued
    <3>2. {Member(op[q].on)} \in SUBSET (Rows \cup Predicates)
      BY <3>1 DEF Rows
    <3> QED  BY <1>1, <1>6, <2>2, <3>2 DEF TypeOK, FindTarget
  <2> QED  BY <2>1, <2>2
<1>7. ASSUME NEW q \in Request, FindTask(q)
      PROVE  TypeOK'
  <2>1. CASE GivenUp(q)
    BY <1>4, <2>1
  <2>2. CASE ~GivenUp(q)
    <3>1. op[q].task \in Task
      BY <1>1, <1>7 DEF FindTask, OpsKnown, Knows, Argued
    <3>2. tasks[op[q].task].status \in Status
      BY <1>1, <1>7, <2>2, <3>1 DEF TypeOK, FindTask, TaskRow
    <3> QED  BY <1>1, <1>7, <2>2, <3>2 DEF TypeOK, FindTask
  <2> QED  BY <2>1, <2>2
<1>8. ASSUME NEW q \in Request, NEW o \in Op, Argued(o), Permitted(o), Snapshot(q, o), UNCHANGED tries
      PROVE  TypeOK'
  <2>1. o.kind = "removeMember" => o.on \in User
    BY <1>8 DEF Argued
  <2>2. (IF o.kind = "removeMember" THEN members[o.on] ELSE None) \in Role \cup Status \cup {None}
    BY <1>1, <2>1 DEF TypeOK
  <2> QED  BY <1>1, <1>8, <2>2, FootprintsTyped DEF TypeOK, Snapshot
<1>9. ASSUME NEW q \in Request, NEW o \in Op, Authorize(q, o)
      PROVE  TypeOK'
  <2>1. members[o.by] \in Role \cup {None}
    BY <1>1 DEF TypeOK, Op
  <2> QED  BY <1>1, <1>9, <2>1 DEF TypeOK, Authorize
<1> QED
  BY <1>1, <1>2, <1>3, <1>4, <1>5, <1>6, <1>7, <1>8, <1>9, Steps DEF Private, Asks

-----------------------------------------------------------------------------
(* The life of tasks.                                                      *)

\* A task is never deleted, and its status changes along the table only.
LEMMA TasksStay ==
  ASSUME IInv, [Next]_vars, NEW t \in Task, tasks[t] # None
  PROVE  /\ tasks'[t] # None
         /\ tasks'[t].status # tasks[t].status => CanTransition(tasks[t].status, tasks'[t].status)
<1>1. TypeOK /\ OpsKnown /\ tasks[t] \in TaskRow
  BY DEF IInv, TypeOK
<1>2. CASE UNCHANGED tasks
  BY <1>2
<1>3. ASSUME NEW u, tasks'[t] = [tasks[t] EXCEPT !.assignee = u], tasks'[t] \in TaskRow
      PROVE  tasks'[t] # None /\ tasks'[t].status = tasks[t].status
  BY <1>1, <1>3, RowAssumption DEF TaskRow
<1>4. ASSUME NEW q \in Request, Commit(q)
      PROVE  /\ tasks'[t] # None
             /\ tasks'[t].status # tasks[t].status =>
                  CanTransition(tasks[t].status, tasks'[t].status)
  <2>1. tasks'[t] \in TaskRow \cup {None}
    BY <1>4, RowsTyped
  <2>2. Knows(q)
    BY <1>1, <1>4, CommitEnds DEF OpsKnown
  <2>4. \A u \in User \cup {None} : [tasks[t] EXCEPT !.assignee = u] \in TaskRow
    BY <1>1 DEF TaskRow
  <2>5. CASE RemoveMember(q)
    <3>1. tasks'[t] \in {tasks[t], [tasks[t] EXCEPT !.assignee = None]}
      BY <2>5 DEF RemoveMember
    <3> QED  BY <1>1, <1>3, <2>4, <3>1
  <2>6. ASSUME NEW s \in Task, CreateTask(q, s)
        PROVE  tasks'[t] = tasks[t]
    BY <1>1, <2>6 DEF CreateTask, TypeOK
  <2>7. CASE UpdateTask(q)
    <3>1. op[q].task \in Task /\ op[q].on \in User \cup {None}
      BY <2>2, <2>7 DEF UpdateTask, Commits, Knows, Argued, Op
    <3>2. tasks'[t] \in {tasks[t], [tasks[t] EXCEPT !.assignee = op[q].on]}
      BY <1>1, <2>7, <3>1 DEF UpdateTask, TypeOK
    <3> QED  BY <1>1, <1>3, <2>4, <3>1, <3>2
  <2>8. CASE TransitionStatus(q)
    <3>1. /\ op[q].task \in Task /\ op[q].to \in Status
          /\ CanTransition(seen[q], op[q].to)
      BY <1>4, <2>2, <2>8, <1>1, CommitEnds DEF TransitionStatus, Statement, Knows, Argued
    <3>2. CASE tasks'[t] = tasks[t]
      BY <3>2
    <3>3. CASE /\ t = op[q].task /\ tasks[t].status = seen[q]
               /\ tasks'[t] = [tasks[t] EXCEPT !.status = op[q].to]
      <4>1. tasks'[t] \in TaskRow /\ tasks'[t].status = op[q].to
        BY <1>1, <3>1, <3>3 DEF TaskRow
      <4> QED  BY <3>1, <3>3, <4>1, RowAssumption
    <3> QED  BY <1>1, <2>8, <3>1, <3>2, <3>3 DEF TransitionStatus, TypeOK
  <2> QED
    BY <1>2, <1>4, <2>5, <2>6, <2>7, <2>8
       DEF Commit, CreateComment, MarkRead, AddMember, UpdateMember
<1> QED  BY <1>1, <1>2, <1>4, Steps, PrivateKeepsRows DEF vars

-----------------------------------------------------------------------------
(* What requests know.                                                     *)

\* No grant, change or removal names the founder or makes another owner.
LEMMA NoOwnerManaged ==
  /\ \A actor : "OWNER" \notin Managed(actor)
  /\ "OWNER" \notin Grants
  /\ None \notin Grants
BY BoundsAssumption, NoneAssumption DEF Managed, Role

\* What requests know stays true, because tasks and the owner stay.
LEMMA OpsKnownPreserved ==
  ASSUME IInv, [Next]_vars
  PROVE  OpsKnown'
<1> SUFFICES ASSUME NEW r \in Request, pc'[r] # "idle"
             PROVE  Knows(r)'
  BY DEF OpsKnown
<1>1. TypeOK /\ OpsKnown /\ OwnerRemains
  BY DEF IInv
<1>2. ASSUME Still(r)
      PROVE  Knows(r)'
  <2>1. Knows(r)
    BY <1>1, <1>2 DEF OpsKnown, Still
  <2> QED  BY <1>2, <2>1, TasksStay DEF Still, Knows, Argued
<1>3. CASE UNCHANGED vars
  BY <1>2, <1>3 DEF vars, Still
<1>4. ASSUME NEW o \in Op, Argued(o), Permitted(o), Snapshot(r, o)
      PROVE  Knows(r)'
  <2>1. op'[r] = o /\ pc'[r] = "ready" /\ UNCHANGED tasks
    BY <1>1, <1>4 DEF Snapshot, TypeOK
  <2>2. o.kind = "removeMember" => o.on # Founder
    BY <1>1, <1>4, NoOwnerManaged DEF Permitted, OwnerRemains, Argued
  <2>3. /\ o.kind \notin {"updateMember", "transitionStatus"}
        /\ o.kind = "updateTask" => tasks[o.task] # None
    BY <1>4 DEF Permitted
  <2> QED  BY <1>4, <2>1, <2>2, <2>3 DEF Knows, Argued
<1>5. ASSUME NEW o \in Op, Argued(o), Authorize(r, o)
      PROVE  Knows(r)'
  <2>1. op'[r] = o /\ pc'[r] # "retry" /\ (pc'[r] = "ready" => o.kind = "addMember")
    BY <1>1, <1>5 DEF Authorize, TypeOK
  <2> QED  BY <1>5, <2>1 DEF Knows, Argued
<1>6. CASE Waits(r)
  <2>1. Knows(r) /\ op'[r] = op[r] /\ pc'[r] = "retry" /\ Serializable(op[r].kind)
    BY <1>1, <1>6 DEF Waits, Abort, TypeOK, OpsKnown
  <2> QED  BY <2>1 DEF Knows, Argued, Serializable
<1>7. CASE FindTarget(r)
  <2>1. Knows(r) /\ op'[r] = op[r] /\ pc'[r] = "ready" /\ UNCHANGED tasks
        /\ op[r].kind = "updateMember" /\ members[op[r].on] \in Managed(seen[r])
    BY <1>1, <1>7 DEF FindTarget, GivenUp, Finished, TypeOK, OpsKnown
  <2>2. op[r].on # Founder
    BY <1>1, <2>1, NoOwnerManaged DEF OwnerRemains, Knows, Argued
  <2> QED  BY <2>1, <2>2 DEF Knows, Argued
<1>8. CASE FindTask(r)
  <2>1. Knows(r) /\ op'[r] = op[r] /\ pc'[r] = "ready" /\ UNCHANGED tasks
        /\ op[r].kind = "transitionStatus" /\ tasks[op[r].task] # None
        /\ seen'[r] = tasks[op[r].task].status /\ CanTransition(tasks[op[r].task].status, op[r].to)
    BY <1>1, <1>8 DEF FindTask, GivenUp, Finished, TypeOK, OpsKnown
  <2> QED  BY <2>1 DEF Knows, Argued
<1>9. ~GivenUp(r) /\ ~Commit(r)
  BY <1>1, CommitEnds DEF GivenUp, Finished, TypeOK
<1>10. CASE Private(r)
  BY <1>4, <1>5, <1>6, <1>7, <1>8, <1>9, <1>10 DEF Private, Asks
<1> QED
  BY <1>1, <1>2, <1>3, <1>9, <1>10, Steps, OthersStill

\* What a snapshot's footprints contain.
LEMMA FootprintsPreserved ==
  ASSUME IInv, [Next]_vars
  PROVE  FootprintsKnown'
<1> SUFFICES ASSUME NEW r \in Request, pc'[r] = "ready"
             PROVE  Meets(r)'
  BY DEF FootprintsKnown
<1>1. TypeOK /\ OpsKnown /\ FootprintsKnown
  BY DEF IInv
<1>2. ASSUME Still(r)
      PROVE  Meets(r)'
  <2>1. Meets(r)
    BY <1>1, <1>2 DEF FootprintsKnown, Still
  <2>2. \A t \in Task : tasks[t] # None => tasks'[t] # None
    BY TasksStay
  <2> QED  BY <1>2, <2>1, <2>2 DEF Still, Meets, Member, Assigned, Inbox, TheTask
<1>3. CASE UNCHANGED vars
  BY <1>2, <1>3 DEF vars, Still
<1>4. ASSUME NEW o \in Op, Argued(o), Permitted(o), Snapshot(r, o)
      PROVE  Meets(r)'
  <2>1. /\ op'[r] = o /\ reads'[r] = ReadSet(o) /\ writes'[r] = WriteSet(o)
        /\ UNCHANGED tasks
    BY <1>1, <1>4 DEF Snapshot, TypeOK
  <2>2. \A u \in Named(o.on) \cup o.cc : Member(u) \in ReadSet(o)
    BY DEF ReadSet
  <2>3. o.on # None => o.on \in Named(o.on)
    BY DEF Named
  <2>4. o.kind \in {"createTask", "updateTask"} /\ o.on # None => Assigned(o.on) \in WriteSet(o)
    BY <2>3 DEF WriteSet
  <2>5. o.kind = "createComment" => \A u \in o.cc : Inbox(u) \in WriteSet(o)
    BY DEF WriteSet
  <2>6. o.kind = "removeMember" =>
          /\ Assigned(o.on) \in ReadSet(o) /\ Inbox(o.on) \in ReadSet(o)
          /\ Member(o.on) \in WriteSet(o)
    BY DEF ReadSet, WriteSet
  <2>7. o.kind = "removeMember" => \A t \in Task : TheTask(t) \in WriteSet(o) => tasks[t] # None
    BY DEF WriteSet, AssignedTo, TheTask, TheNote, Member, Assigned, Inbox
  <2> QED
    BY <2>1, <2>2, <2>3, <2>4, <2>5, <2>6, <2>7 DEF Meets, Member, Assigned, Inbox, TheTask
<1>5. ASSUME NEW o \in Op, Authorize(r, o)
      PROVE  Meets(r)'
  <2>1. op'[r].kind = "addMember"
    BY <1>1, <1>5 DEF Authorize, TypeOK
  <2> QED  BY <2>1 DEF Meets
<1>6. CASE FindTarget(r)
  <2>1. op'[r].kind = "updateMember"
    BY <1>1, <1>6 DEF FindTarget, GivenUp, Finished, TypeOK
  <2> QED  BY <2>1 DEF Meets
<1>7. CASE FindTask(r)
  <2>1. op'[r].kind = "transitionStatus"
    BY <1>1, <1>7 DEF FindTask, GivenUp, Finished, TypeOK
  <2> QED  BY <2>1 DEF Meets
<1>8. ~GivenUp(r) /\ ~Waits(r) /\ ~Commit(r)
  BY <1>1, CommitEnds DEF GivenUp, Finished, Waits, Abort, TypeOK
<1>9. CASE Private(r)
  BY <1>4, <1>5, <1>6, <1>7, <1>8, <1>9 DEF Private, Asks
<1> QED
  BY <1>1, <1>2, <1>3, <1>8, <1>9, Steps, OthersStill

-----------------------------------------------------------------------------
(* What a snapshot promises.                                               *)

\* A commit dooms a serializable transaction that is to write one of its rows, ...
LEMMA RowDooms ==
  ASSUME TypeOK, NEW q \in Request, NEW r \in Request, NEW serial, NEW R, NEW W, NEW deleted,
         Committed(q, serial, R, W, deleted), q # r, pc[r] = "ready", ~doomed'[r],
         Serializable(op[r].kind), NEW x \in Rows, x \in writes[r]
  PROVE  x \notin W
<1>1. ~Overtaken(r, serial, R, W, deleted)
  BY DEF Committed, TypeOK
<1> QED  BY <1>1 DEF Overtaken

\* ... and that of a serializable transaction one that it conflicts with both ways.
LEMMA CycleDooms ==
  ASSUME TypeOK, NEW q \in Request, NEW r \in Request, NEW R, NEW W, NEW deleted,
         Committed(q, TRUE, R, W, deleted), q # r, pc[r] = "ready", ~doomed'[r],
         Serializable(op[r].kind)
  PROVE  reads[r] \cap W = {} \/ writes[r] \cap R = {}
<1>1. ~Overtaken(r, TRUE, R, W, deleted)
  BY DEF Committed, TypeOK
<1> QED  BY <1>1 DEF Overtaken

\* A snapshot still holds after somebody else's commit, or its request is doomed.
LEMMA HoldsAfterCommit ==
  ASSUME IInv, [Next]_vars, NEW q \in Request, NEW r \in Request, q # r,
         Commit(q), Still(r), pc[r] = "ready", ~doomed'[r]
  PROVE  Holds(r)'
<1> DEFINE o == op[r]
<1>1. TypeOK /\ OpsKnown /\ FootprintsKnown
  BY DEF IInv
<1>2. Holds(r) /\ Meets(r) /\ Knows(r) /\ Knows(q) /\ Meets(q) /\ pc[q] = "ready"
  BY <1>1, CommitEnds DEF IInv, SnapshotHolds, FootprintsKnown, OpsKnown, Still
<1>3. /\ o.on \in User \cup {None} /\ o.cc \subseteq User
      /\ op[q].on \in User \cup {None}
      /\ o.kind = "removeMember" => o.on \in User
  BY <1>2 DEF Knows, Argued, Op
<1>4. op'[r] = op[r] /\ seen'[r] = seen[r] /\ reads'[r] = reads[r] /\ writes'[r] = writes[r]
  BY DEF Still
<1>5. /\ Serializable("createTask") /\ Serializable("updateTask")
      /\ Serializable("createComment") /\ Serializable("removeMember")
  BY DEF Serializable
\* The three parts of the promise.
<1> DEFINE AssigneeStays == o.kind \in {"createTask", "updateTask"} /\ o.on # None =>
                              members'[o.on] # None
           MentionedStay == o.kind = "createComment" => \A u \in o.cc : members'[u] # None
           RemovalStays == o.kind = "removeMember" =>
             /\ members'[o.on] = seen[r] /\ members'[o.on] # None
             /\ \A t \in Task : tasks'[t] # None /\ tasks'[t].assignee = o.on =>
                                  TheTask(t) \in writes[r]
             /\ \A n \in notes' : n.to = o.on => TheNote(n.to, n.of) \in writes[r]
<1>6. SUFFICES AssigneeStays /\ MentionedStay /\ RemovalStays
  BY <1>4 DEF Holds, TheTask, TheNote
<1>7. ASSUME UNCHANGED members
      PROVE  AssigneeStays /\ MentionedStay
  BY <1>2, <1>7 DEF Holds
<1>8. CASE RemoveMember(q)
  <2> DEFINE v == op[q].on
  <2>1. v \in User /\ members' = [members EXCEPT ![v] = None]
        /\ Committed(q, TRUE, reads[q], writes[q], {Member(v)})
    BY <1>2, <1>8 DEF RemoveMember, Commits, Serializable, Knows, Argued
  <2>2. Member(v) \in writes[q] /\ Assigned(v) \in reads[q] /\ Inbox(v) \in reads[q]
        /\ \A t \in Task : TheTask(t) \in writes[q] => tasks[t] # None
    BY <1>2, <1>8 DEF RemoveMember, Commits, Meets
  <2>3. AssigneeStays
    <3>1. SUFFICES ASSUME o.kind \in {"createTask", "updateTask"}, o.on # None
                   PROVE  members'[o.on] # None
      OBVIOUS
    <3>2. Member(o.on) \in reads[r] /\ Assigned(o.on) \in writes[r] /\ members[o.on] # None
      BY <1>2, <3>1 DEF Meets, Holds
    <3>3. o.on # v
      <4>1. Serializable(op[r].kind) /\ Member(o.on) \in reads[r] /\ Assigned(o.on) \in writes[r]
        BY <1>5, <3>1, <3>2
      <4>2. reads[r] \cap writes[q] = {} \/ writes[r] \cap reads[q] = {}
        BY <1>1, <1>2, <2>1, <4>1, CycleDooms
      <4> QED  BY <2>2, <4>1, <4>2
    <3> QED  BY <1>1, <1>3, <2>1, <3>1, <3>2, <3>3 DEF TypeOK
  <2>4. MentionedStay
    <3>1. SUFFICES ASSUME o.kind = "createComment", NEW u \in o.cc
                   PROVE  members'[u] # None
      OBVIOUS
    <3>2. Member(u) \in reads[r] /\ Inbox(u) \in writes[r] /\ members[u] # None
      BY <1>2, <3>1 DEF Meets, Holds
    <3>3. u # v
      <4>1. Serializable(op[r].kind) /\ Member(u) \in reads[r] /\ Inbox(u) \in writes[r]
        BY <1>5, <3>1, <3>2
      <4>2. reads[r] \cap writes[q] = {} \/ writes[r] \cap reads[q] = {}
        BY <1>1, <1>2, <2>1, <4>1, CycleDooms
      <4> QED  BY <2>2, <4>1, <4>2
    <3> QED  BY <1>1, <1>3, <2>1, <3>1, <3>2, <3>3 DEF TypeOK
  <2>5. RemovalStays
    <3>1. SUFFICES ASSUME o.kind = "removeMember"
                   PROVE  /\ members'[o.on] = members[o.on]
                          /\ \A t \in Task : tasks'[t] # None /\ tasks'[t].assignee = o.on =>
                               tasks[t] # None /\ tasks[t].assignee = o.on
                          /\ notes' \subseteq notes
      BY <1>2 DEF Holds
    <3>2. Member(o.on) \in writes[r] /\ Member(o.on) \in Rows
      BY <1>2, <1>3, <3>1 DEF Meets, Rows
    <3>3. o.on # v
      BY <1>1, <1>2, <1>5, <2>1, <2>2, <3>1, <3>2, RowDooms
    <3>4. members'[o.on] = members[o.on]
      BY <1>1, <1>3, <2>1, <3>1, <3>3 DEF TypeOK
    <3>5. ASSUME NEW t \in Task, tasks'[t] # None, tasks'[t].assignee = o.on
          PROVE  tasks[t] # None /\ tasks[t].assignee = o.on
      <4>1. CASE TheTask(t) \in writes[q]
        <5>1. tasks[t] \in TaskRow
          BY <1>1, <2>2, <4>1 DEF TypeOK
        <5>2. tasks'[t] = [tasks[t] EXCEPT !.assignee = None]
          BY <1>8, <4>1 DEF RemoveMember
        <5>3. tasks'[t].assignee = None
          BY <5>1, <5>2 DEF TaskRow
        <5> QED  BY <1>3, <3>1, <3>5, <5>3, NoneAssumption
      <4>2. CASE TheTask(t) \notin writes[q]
        BY <1>8, <3>5, <4>2 DEF RemoveMember
      <4> QED  BY <4>1, <4>2
    <3>6. notes' \subseteq notes
      BY <1>8 DEF RemoveMember
    <3> QED  BY <3>4, <3>5, <3>6
  <2> QED  BY <2>3, <2>4, <2>5
\* A task given to u by q, and the removal of u by r, conflict both ways.
<1>9. ASSUME NEW kind \in {"createTask", "updateTask"}, Commits(q, kind), UNCHANGED <<members, notes>>,
             \A t \in Task : \/ tasks'[t] = tasks[t]
                             \/ tasks'[t] # None /\ tasks'[t].assignee = op[q].on
      PROVE  AssigneeStays /\ MentionedStay /\ RemovalStays
  <2>1. SUFFICES ASSUME o.kind = "removeMember"
                 PROVE  \A t \in Task : tasks'[t] # None /\ tasks'[t].assignee = o.on =>
                          tasks[t] # None /\ tasks[t].assignee = o.on
    BY <1>2, <1>7, <1>9 DEF Holds
  <2>2. o.on \in User /\ o.on # None
    BY <1>3, <2>1, NoneAssumption
  <2>3. Committed(q, TRUE, reads[q], writes[q], {}) /\ op[q].kind = kind
    BY <1>9 DEF Commits, Serializable
  <2>4. op[q].on # o.on
    <3>1. SUFFICES ASSUME op[q].on = o.on  PROVE FALSE
      OBVIOUS
    <3>2. Assigned(o.on) \in reads[r] /\ Member(o.on) \in writes[r]
      BY <1>2, <2>1 DEF Meets
    <3>3. Assigned(o.on) \in writes[q] /\ Member(o.on) \in reads[q]
      BY <1>2, <2>2, <2>3, <3>1 DEF Meets
    <3>4. Serializable(op[r].kind)
      BY <1>5, <2>1
    <3>5. reads[r] \cap writes[q] = {} \/ writes[r] \cap reads[q] = {}
      BY <1>1, <1>2, <2>3, <3>4, CycleDooms
    <3> QED  BY <3>2, <3>3, <3>5
  <2> QED  BY <1>9, <2>4
<1>10. ASSUME NEW t \in Task, CreateTask(q, t)
       PROVE  AssigneeStays /\ MentionedStay /\ RemovalStays
  <2>1. tasks'[t] \in TaskRow /\ tasks'[t].assignee = op[q].on
    BY <1>1, <1>3, <1>10 DEF CreateTask, TypeOK, TaskRow, Status
  <2>2. \A s \in Task : \/ tasks'[s] = tasks[s]
                        \/ tasks'[s] # None /\ tasks'[s].assignee = op[q].on
    BY <1>1, <1>10, <2>1, RowAssumption DEF CreateTask, TypeOK
  <2> QED  BY <1>9, <1>10, <2>2 DEF CreateTask
<1>11. CASE UpdateTask(q)
  <2> DEFINE t == op[q].task
  <2>1. t \in Task /\ tasks[t] \in TaskRow
    BY <1>1, <1>2, <1>11 DEF UpdateTask, Commits, Knows, Argued, TypeOK
  <2>2. tasks' = [tasks EXCEPT ![t] = [tasks[t] EXCEPT !.assignee = op[q].on]]
    BY <1>11 DEF UpdateTask
  <2>3. tasks'[t] \in TaskRow /\ tasks'[t].assignee = op[q].on
    BY <1>1, <1>3, <2>1, <2>2 DEF TypeOK, TaskRow
  <2>4. \A s \in Task : \/ tasks'[s] = tasks[s]
                        \/ tasks'[s] # None /\ tasks'[s].assignee = op[q].on
    BY <1>1, <2>2, <2>3, RowAssumption DEF TypeOK
  <2> QED  BY <1>9, <1>11, <2>4 DEF UpdateTask
<1>12. ASSUME NEW c \in Comment, CreateComment(q, c)
       PROVE  AssigneeStays /\ MentionedStay /\ RemovalStays
  <2>1. UNCHANGED <<members, tasks>>
        /\ notes' = notes \cup {[to |-> u, of |-> c, read |-> FALSE] : u \in op[q].cc}
        /\ Committed(q, TRUE, reads[q], writes[q], {}) /\ op[q].kind = "createComment"
    BY <1>12 DEF CreateComment, Commits, Serializable
  <2>2. SUFFICES ASSUME o.kind = "removeMember", NEW n \in notes', n.to = o.on
                 PROVE  n \in notes
    BY <1>2, <1>7, <2>1 DEF Holds
  <2>3. o.on \notin op[q].cc
    <3>1. SUFFICES ASSUME o.on \in op[q].cc  PROVE FALSE
      OBVIOUS
    <3>2. Inbox(o.on) \in reads[r] /\ Member(o.on) \in writes[r]
      BY <1>2, <2>2 DEF Meets
    <3>3. Inbox(o.on) \in writes[q] /\ Member(o.on) \in reads[q]
      BY <1>2, <2>1, <3>1 DEF Meets
    <3>4. Serializable(op[r].kind)
      BY <1>5, <2>2
    <3>5. reads[r] \cap writes[q] = {} \/ writes[r] \cap reads[q] = {}
      BY <1>1, <1>2, <2>1, <3>4, CycleDooms
    <3> QED  BY <3>2, <3>3, <3>5
  <2> QED  BY <2>1, <2>2, <2>3
<1>13. CASE MarkRead(q)
  <2>1. UNCHANGED <<members, tasks>>
    BY <1>13 DEF MarkRead
  <2>2. ASSUME NEW m \in notes'
        PROVE  \E n \in notes : n.to = m.to /\ n.of = m.of
    <3>1. PICK n \in notes : m \in {n, [n EXCEPT !.read = TRUE]}
      BY <1>13, <2>2 DEF MarkRead
    <3> QED  BY <1>1, <3>1 DEF TypeOK, Note
  <2> QED  BY <1>2, <1>7, <2>1, <2>2 DEF Holds
<1>14. CASE AddMember(q)
  <2>1. UNCHANGED <<tasks, notes>>
    BY <1>14 DEF AddMember
  <2>2. \A u \in User : members[u] # None => members'[u] = members[u]
    BY <1>1, <1>14 DEF AddMember, TypeOK
  <2> QED  BY <1>2, <1>3, <2>1, <2>2, NoneAssumption DEF Holds
<1>15. CASE UpdateMember(q)
  <2> DEFINE v == op[q].on
  <2>1. UNCHANGED <<tasks, notes>> /\ v \in User /\ op[q].to # None
        /\ Committed(q, FALSE, {}, {Member(v)}, {})
        /\ members' \in {members, [members EXCEPT ![v] = op[q].to]}
    BY <1>2, <1>15, NoOwnerManaged DEF UpdateMember, Statement, Knows, Argued
  <2>2. \A u \in User : members[u] # None => members'[u] # None
    BY <1>1, <2>1 DEF TypeOK
  <2>3. ASSUME o.kind = "removeMember"
        PROVE  members'[o.on] = members[o.on]
    <3>1. Member(o.on) \in writes[r] /\ Member(o.on) \in Rows
      BY <1>2, <1>3, <2>3 DEF Meets, Rows
    <3>2. Serializable(op[r].kind)
      BY <1>5, <2>3
    <3>3. Member(o.on) \notin {Member(v)}
      BY <1>1, <1>2, <2>1, <3>1, <3>2, RowDooms
    <3>4. o.on # v
      BY <3>3
    <3> QED  BY <1>1, <1>3, <2>1, <2>3, <3>4 DEF TypeOK
  <2> QED  BY <1>2, <1>3, <2>1, <2>2, <2>3, NoneAssumption DEF Holds
<1>16. CASE TransitionStatus(q)
  <2> DEFINE t == op[q].task
  <2>1. UNCHANGED <<members, notes>> /\ t \in Task /\ tasks[t] \in TaskRow
        /\ tasks' \in {tasks, [tasks EXCEPT ![t] = [tasks[t] EXCEPT !.status = op[q].to]]}
    BY <1>1, <1>2, <1>16 DEF TransitionStatus, Statement, Knows, Argued, TypeOK
  <2>2. \A s \in Task : tasks'[s] # None =>
          tasks[s] # None /\ tasks'[s].assignee = tasks[s].assignee
    BY <1>1, <2>1, RowAssumption DEF TypeOK, TaskRow
  <2> QED  BY <1>2, <1>7, <2>1, <2>2 DEF Holds
<1> QED
  BY <1>8, <1>10, <1>11, <1>12, <1>13, <1>14, <1>15, <1>16 DEF Commit

\* Snapshots hold when they are taken, and until their request is doomed.
LEMMA SnapshotPreserved ==
  ASSUME IInv, [Next]_vars
  PROVE  SnapshotHolds'
<1> SUFFICES ASSUME NEW r \in Request, pc'[r] = "ready", ~doomed'[r]
             PROVE  Holds(r)'
  BY DEF SnapshotHolds
<1>1. TypeOK
  BY DEF IInv
<1>2. ASSUME Still(r), UNCHANGED <<members, tasks, notes>>
      PROVE  Holds(r)'
  <2>1. Holds(r)
    BY <1>2 DEF IInv, SnapshotHolds, Still
  <2> QED  BY <1>2, <2>1 DEF Still, Holds, TheTask, TheNote
<1>3. CASE UNCHANGED vars
  BY <1>2, <1>3 DEF vars, Still
<1>4. ASSUME NEW o \in Op, Argued(o), Permitted(o), Snapshot(r, o)
      PROVE  Holds(r)'
  <2>1. /\ op'[r] = o /\ writes'[r] = WriteSet(o)
        /\ o.kind = "removeMember" => seen'[r] = members[o.on]
        /\ UNCHANGED <<members, tasks, notes>>
    BY <1>1, <1>4 DEF Snapshot, TypeOK
  <2>2. /\ o.kind \in {"createTask", "updateTask"} /\ o.on # None => members[o.on] # None
        /\ o.kind = "createComment" => \A u \in o.cc : members[u] # None
        /\ o.kind = "removeMember" => members[o.on] # None
    BY <1>4, NoneAssumption DEF Permitted, Managed, Role
  <2>3. o.kind = "removeMember" =>
          /\ \A t \in Task : tasks[t] # None /\ tasks[t].assignee = o.on =>
                               TheTask(t) \in WriteSet(o)
          /\ \A n \in notes : n.to = o.on => TheNote(n.to, n.of) \in WriteSet(o)
    BY DEF WriteSet, AssignedTo, NotesOf
  <2> QED  BY <2>1, <2>2, <2>3 DEF Holds, TheTask, TheNote
<1>5. ASSUME NEW o \in Op, Authorize(r, o)
      PROVE  Holds(r)'
  <2>1. op'[r].kind = "addMember"
    BY <1>1, <1>5 DEF Authorize, TypeOK
  <2> QED  BY <2>1 DEF Holds
<1>6. CASE FindTarget(r)
  <2>1. op'[r].kind = "updateMember"
    BY <1>1, <1>6 DEF FindTarget, GivenUp, Finished, TypeOK
  <2> QED  BY <2>1 DEF Holds
<1>7. CASE FindTask(r)
  <2>1. op'[r].kind = "transitionStatus"
    BY <1>1, <1>7 DEF FindTask, GivenUp, Finished, TypeOK
  <2> QED  BY <2>1 DEF Holds
<1>8. ~GivenUp(r) /\ ~Waits(r) /\ ~Commit(r)
  BY <1>1, CommitEnds DEF GivenUp, Finished, Waits, Abort, TypeOK
<1>9. CASE Private(r)
  BY <1>4, <1>5, <1>6, <1>7, <1>8, <1>9 DEF Private, Asks
<1>10. ASSUME NEW q \in Request, q # r, Private(q)
       PROVE  Holds(r)'
  BY <1>1, <1>2, <1>10, OthersStill, PrivateKeepsRows
<1>11. ASSUME NEW q \in Request, q # r, Commit(q)
       PROVE  Holds(r)'
  <2>1. Still(r) /\ pc[r] = "ready"
    BY <1>1, <1>11, OthersStill DEF Still
  <2> QED  BY <1>11, <2>1, HoldsAfterCommit
<1>12. OpsKnown
  BY DEF IInv
<1> QED  BY <1>3, <1>8, <1>9, <1>10, <1>11, <1>12, Steps

-----------------------------------------------------------------------------
(* Membership.                                                             *)

\* Nobody but a removed member leaves, and no role but a managed one changes.
LEMMA MembersStay ==
  ASSUME IInv, NEW q \in Request, Commit(q), ~RemoveMember(q), NEW u \in User
  PROVE  members[u] # None => members'[u] # None
<1>1. TypeOK /\ Knows(q)
  BY CommitEnds DEF IInv, OpsKnown
<1>2. CASE AddMember(q)
  BY <1>1, <1>2 DEF AddMember, TypeOK
<1>3. CASE UpdateMember(q)
  <2>1. op[q].to # None
    BY <1>1, <1>3, NoOwnerManaged DEF UpdateMember, Statement, Knows, Argued
  <2> QED  BY <1>1, <1>3, <2>1 DEF UpdateMember, TypeOK
<1> QED
  BY <1>2, <1>3 DEF Commit, CreateTask, UpdateTask, CreateComment, MarkRead, TransitionStatus

\* No step makes or unmakes an owner.
LEMMA OwnerPreserved ==
  ASSUME IInv, [Next]_vars
  PROVE  OwnerRemains'
<1>1. TypeOK /\ OpsKnown /\ OwnerRemains
  BY DEF IInv
<1>2. CASE UNCHANGED members
  BY <1>1, <1>2 DEF OwnerRemains
<1>3. ASSUME NEW q \in Request, RemoveMember(q)
      PROVE  OwnerRemains'
  <2>1. op[q].on \in User /\ op[q].on # Founder
    BY <1>1, <1>3 DEF RemoveMember, Commits, OpsKnown, Knows, Argued
  <2>2. None # "OWNER"
    BY NoneAssumption DEF Role
  <2> QED  BY <1>1, <1>3, <2>1, <2>2 DEF RemoveMember, OwnerRemains, TypeOK
<1>4. ASSUME NEW q \in Request, AddMember(q)
      PROVE  OwnerRemains'
  <2>1. op[q].on \in User /\ op[q].to # "OWNER"
    BY <1>1, <1>4, NoOwnerManaged DEF AddMember, Statement, OpsKnown, Knows, Argued
  <2>2. None # "OWNER"
    BY NoneAssumption DEF Role
  <2> QED  BY <1>1, <1>4, <2>1, <2>2 DEF AddMember, OwnerRemains, TypeOK
<1>5. ASSUME NEW q \in Request, UpdateMember(q)
      PROVE  OwnerRemains'
  <2>1. op[q].on \in User /\ op[q].to # "OWNER" /\ op[q].on # Founder
    BY <1>1, <1>5, NoOwnerManaged DEF UpdateMember, Statement, OpsKnown, Knows, Argued
  <2> QED  BY <1>1, <1>5, <2>1 DEF UpdateMember, OwnerRemains, TypeOK
<1>6. ASSUME NEW q \in Request, Commit(q)
      PROVE  OwnerRemains'
  BY <1>2, <1>3, <1>4, <1>5, <1>6
     DEF Commit, CreateTask, UpdateTask, CreateComment, MarkRead, TransitionStatus
<1> QED  BY <1>1, <1>2, <1>6, Steps, PrivateKeepsRows DEF vars

\* A serializable transaction that commits does so on a snapshot that still holds.
LEMMA CommitHolds ==
  ASSUME IInv, NEW q \in Request, NEW kind, Serializable(kind), Commits(q, kind)
  PROVE  Holds(q) /\ Knows(q) /\ Meets(q)
BY DEF IInv, SnapshotHolds, OpsKnown, FootprintsKnown, Commits

\* No step leaves a task with somebody who is not a member.
LEMMA AssigneePreserved ==
  ASSUME IInv, [Next]_vars
  PROVE  AssigneeIsMember'
<1>1. TypeOK /\ OpsKnown /\ AssigneeIsMember
  BY DEF IInv
<1>2. CASE UNCHANGED <<members, tasks>>
  BY <1>1, <1>2 DEF AssigneeIsMember
<1>3. ASSUME NEW q \in Request, RemoveMember(q)
      PROVE  AssigneeIsMember'
  <2> DEFINE v == op[q].on
  <2>1. Holds(q) /\ Knows(q) /\ Meets(q) /\ op[q].kind = "removeMember"
    BY <1>3, CommitHolds DEF RemoveMember, Serializable, Commits
  <2>2. v \in User /\ members' = [members EXCEPT ![v] = None]
    BY <1>3, <2>1 DEF RemoveMember, Knows, Argued
  <2>3. SUFFICES ASSUME NEW t \in Task, tasks'[t] # None, tasks'[t].assignee # None
                 PROVE  members'[tasks'[t].assignee] # None
    BY DEF AssigneeIsMember
  <2>4. CASE TheTask(t) \in writes[q]
    <3>1. tasks[t] \in TaskRow
      BY <1>1, <2>1, <2>4 DEF Meets, TypeOK
    <3>2. tasks'[t] = [tasks[t] EXCEPT !.assignee = None]
      BY <1>3, <2>4 DEF RemoveMember
    <3>3. tasks'[t].assignee = None
      BY <3>1, <3>2 DEF TaskRow
    <3> QED  BY <2>3, <3>3
  <2>5. CASE TheTask(t) \notin writes[q]
    <3>1. tasks'[t] = tasks[t]
      BY <1>3, <2>5 DEF RemoveMember
    <3>2. tasks[t].assignee # v /\ tasks[t].assignee \in User
      BY <1>1, <2>1, <2>3, <2>5, <3>1 DEF Holds, TypeOK, TaskRow
    <3> QED  BY <1>1, <2>2, <2>3, <3>1, <3>2 DEF AssigneeIsMember, TypeOK
  <2> QED  BY <2>4, <2>5
\* Everywhere else tasks are given to members, and members stay.
<1>4. ASSUME NEW q \in Request, Commit(q), ~RemoveMember(q),
             \A t \in Task : tasks'[t] # None =>
               \/ tasks[t] # None /\ tasks'[t].assignee = tasks[t].assignee
               \/ tasks'[t].assignee # None => members[tasks'[t].assignee] # None
      PROVE  AssigneeIsMember'
  <2>1. \A t \in Task : tasks'[t] # None => tasks'[t].assignee \in User \cup {None}
    BY <1>4, RowsTyped DEF TaskRow
  <2> QED  BY <1>1, <1>4, <2>1, MembersStay DEF AssigneeIsMember
<1>5. ASSUME NEW q \in Request, NEW s \in Task, CreateTask(q, s)
      PROVE  AssigneeIsMember'
  <2>1. Holds(q) /\ Knows(q) /\ op[q].kind = "createTask" /\ Commit(q) /\ ~RemoveMember(q)
    BY <1>5, CommitHolds DEF CreateTask, RemoveMember, Serializable, Commits, Commit
  <2>2. tasks'[s].assignee = op[q].on
    BY <1>1, <1>5 DEF CreateTask, TypeOK
  <2>3. \A t \in Task : t # s => tasks'[t] = tasks[t]
    BY <1>1, <1>5 DEF CreateTask, TypeOK
  <2> QED  BY <1>4, <2>1, <2>2, <2>3 DEF Holds
<1>6. ASSUME NEW q \in Request, UpdateTask(q)
      PROVE  AssigneeIsMember'
  <2> DEFINE s == op[q].task
  <2>1. Holds(q) /\ Knows(q) /\ op[q].kind = "updateTask" /\ Commit(q) /\ ~RemoveMember(q)
    BY <1>6, CommitHolds DEF UpdateTask, RemoveMember, Serializable, Commits, Commit
  <2>2. s \in Task /\ tasks[s] \in TaskRow
    BY <1>1, <1>6, <2>1 DEF UpdateTask, Commits, Knows, Argued, TypeOK
  <2>3. tasks' = [tasks EXCEPT ![s] = [tasks[s] EXCEPT !.assignee = op[q].on]]
    BY <1>6 DEF UpdateTask
  <2>4. tasks'[s].assignee = op[q].on /\ \A t \in Task : t # s => tasks'[t] = tasks[t]
    BY <1>1, <2>2, <2>3 DEF TypeOK, TaskRow
  <2> QED  BY <1>4, <2>1, <2>4 DEF Holds
<1>7. ASSUME NEW q \in Request, TransitionStatus(q)
      PROVE  AssigneeIsMember'
  <2> DEFINE s == op[q].task
  <2>1. Commit(q) /\ ~RemoveMember(q) /\ Knows(q) /\ pc[q] = "ready"
    BY <1>1, <1>7 DEF TransitionStatus, RemoveMember, Commits, Statement, Commit, OpsKnown
  <2>2. s \in Task /\ tasks[s] \in TaskRow
        /\ tasks' \in {tasks, [tasks EXCEPT ![s] = [tasks[s] EXCEPT !.status = op[q].to]]}
    BY <1>1, <1>7, <2>1 DEF TransitionStatus, Statement, Knows, Argued, TypeOK
  <2>3. \A t \in Task : tasks'[t] # None =>
          tasks[t] # None /\ tasks'[t].assignee = tasks[t].assignee
    BY <1>1, <2>2, RowAssumption DEF TypeOK, TaskRow
  <2> QED  BY <1>4, <2>1, <2>3
<1>8. ASSUME NEW q \in Request, Commit(q)
      PROVE  AssigneeIsMember'
  BY <1>2, <1>3, <1>4, <1>5, <1>6, <1>7, <1>8
     DEF Commit, CreateComment, MarkRead, AddMember, UpdateMember
<1> QED  BY <1>1, <1>2, <1>8, Steps, PrivateKeepsRows DEF vars

\* No step leaves a notification with somebody who is not a member.
LEMMA RecipientPreserved ==
  ASSUME IInv, [Next]_vars
  PROVE  RecipientIsMember'
<1>1. TypeOK /\ OpsKnown /\ RecipientIsMember
  BY DEF IInv
<1>2. CASE UNCHANGED <<members, notes>>
  BY <1>1, <1>2 DEF RecipientIsMember
<1>3. ASSUME NEW q \in Request, RemoveMember(q)
      PROVE  RecipientIsMember'
  <2> DEFINE v == op[q].on
  <2>1. Holds(q) /\ Knows(q) /\ op[q].kind = "removeMember"
    BY <1>3, CommitHolds DEF RemoveMember, Serializable, Commits
  <2>2. v \in User /\ members' = [members EXCEPT ![v] = None]
    BY <1>3, <2>1 DEF RemoveMember, Knows, Argued
  <2>3. ASSUME NEW n \in notes'
        PROVE  members'[n.to] # None
    <3>1. n \in notes /\ TheNote(n.to, n.of) \notin writes[q]
      BY <1>3, <2>3 DEF RemoveMember
    <3>2. n.to # v /\ n.to \in User
      BY <1>1, <2>1, <3>1 DEF Holds, TypeOK, Note
    <3> QED  BY <1>1, <2>2, <3>1, <3>2 DEF RecipientIsMember, TypeOK
  <2> QED  BY <2>3 DEF RecipientIsMember
<1>4. ASSUME NEW q \in Request, Commit(q), ~RemoveMember(q),
             \A n \in notes' : members[n.to] # None
      PROVE  RecipientIsMember'
  <2>1. \A n \in notes' : n.to \in User
    BY <1>4, RowsTyped DEF Note
  <2> QED  BY <1>4, <2>1, MembersStay DEF RecipientIsMember
<1>5. ASSUME NEW q \in Request, NEW c \in Comment, CreateComment(q, c)
      PROVE  RecipientIsMember'
  <2>1. Holds(q) /\ op[q].kind = "createComment" /\ Commit(q) /\ ~RemoveMember(q)
    BY <1>5, CommitHolds DEF CreateComment, RemoveMember, Serializable, Commits, Commit
  <2>2. \A n \in notes' : n \in notes \/ n.to \in op[q].cc
    BY <1>5 DEF CreateComment
  <2> QED  BY <1>1, <1>4, <2>1, <2>2 DEF Holds, RecipientIsMember
<1>6. ASSUME NEW q \in Request, MarkRead(q)
      PROVE  RecipientIsMember'
  <2>1. Commit(q) /\ ~RemoveMember(q)
    BY <1>6 DEF MarkRead, RemoveMember, Commits, Commit
  <2>2. ASSUME NEW m \in notes'
        PROVE  members[m.to] # None
    <3>1. PICK n \in notes : m \in {n, [n EXCEPT !.read = TRUE]}
      BY <1>6, <2>2 DEF MarkRead
    <3>2. m.to = n.to
      BY <1>1, <3>1 DEF TypeOK, Note
    <3> QED  BY <1>1, <3>2 DEF RecipientIsMember
  <2> QED  BY <1>4, <2>1, <2>2
<1>7. ASSUME NEW q \in Request, Commit(q)
      PROVE  RecipientIsMember'
  <2>1. CASE UNCHANGED notes
    BY <1>1, <1>3, <1>4, <1>7, <2>1 DEF RecipientIsMember
  <2> QED
    BY <1>3, <1>5, <1>6, <1>7, <2>1
       DEF Commit, CreateTask, UpdateTask, AddMember, UpdateMember, TransitionStatus
<1> QED  BY <1>1, <1>2, <1>7, Steps, PrivateKeepsRows DEF vars

-----------------------------------------------------------------------------
(* The theorems.                                                           *)

\* The invariant holds at first, ...
LEMMA InitIInv == Init => IInv
<1> SUFFICES ASSUME Init  PROVE IInv
  OBVIOUS
<1>1. Grants \subseteq Role /\ MaxRetries \in Nat
  BY BoundsAssumption
<1>2. members \in [User -> Role \cup {None}] /\ OwnerRemains
  BY <1>1 DEF Init, OwnerRemains, Role
<1>3. TypeOK
  BY <1>1, <1>2 DEF Init, TypeOK
<1>4. OpsKnown /\ FootprintsKnown /\ SnapshotHolds /\ AssigneeIsMember /\ RecipientIsMember
  BY DEF Init, OpsKnown, FootprintsKnown, SnapshotHolds, AssigneeIsMember, RecipientIsMember
<1> QED  BY <1>2, <1>3, <1>4 DEF IInv

\* ... and every step keeps it.
LEMMA NextIInv == IInv /\ [Next]_vars => IInv'
BY TypePreserved, OpsKnownPreserved, FootprintsPreserved, SnapshotPreserved, AssigneePreserved,
   RecipientPreserved, OwnerPreserved DEF IInv

\* Every reachable state satisfies the inductive invariant: what a request has
\* read and may still commit on is true, or its commit will fail.
THEOREM Invariance == Spec => []IInv
BY InitIInv, NextIInv, PTL DEF Spec

\* Every variable keeps its type; in particular an operation is attempted at most
\* MaxRetries + 1 times.
THEOREM TypeCorrect == Spec => []TypeOK
<1>1. IInv => TypeOK
  BY DEF IInv
<1> QED  BY <1>1, Invariance, PTL

\* createTask, updateTask and createComment against removeMember: no task stays
\* assigned to somebody who left the workspace, and no notification stays in the
\* inbox of one.
THEOREM OnlyMembersAreNamed == Spec => []OnlyMembersNamed
<1>1. IInv => OnlyMembersNamed
  BY DEF IInv, OnlyMembersNamed
<1> QED  BY <1>1, Invariance, PTL

\* The founder is the one OWNER whatever grants, changes and removals overlap.
THEOREM OneOwner == Spec => []OwnerRemains
<1>1. IInv => OwnerRemains
  BY DEF IInv
<1> QED  BY <1>1, Invariance, PTL

\* Tasks are never lost and change their status along the transition table only.
THEOREM TasksFollowTable == Spec => StatusLifecycle
<1>1. IInv /\ [Next]_vars =>
        [\A t \in Task : tasks[t] # None =>
           /\ tasks'[t] # None
           /\ tasks'[t].status # tasks[t].status =>
                CanTransition(tasks[t].status, tasks'[t].status)]_vars
  BY TasksStay
<1> QED  BY <1>1, Invariance, PTL DEF Spec, StatusLifecycle

\* removeMember removes a member of the very role it was permitted for.
THEOREM RemovalsRespectRank == Spec => RemovalRespectsRank
<1>1. IInv => [\A r \in Request : RemoveMember(r) => members[op[r].on] = seen[r]]_vars
  <2>1. ASSUME IInv, NEW r \in Request, RemoveMember(r)
        PROVE  members[op[r].on] = seen[r]
    <3>1. Holds(r) /\ op[r].kind = "removeMember"
      BY <2>1, CommitHolds DEF RemoveMember, Serializable, Commits
    <3> QED  BY <3>1 DEF Holds
  <2> QED  BY <2>1
<1> QED  BY <1>1, Invariance, PTL DEF RemovalRespectsRank

=============================================================================
