------------------------- MODULE AttachmentLifecycle -------------------------
(***************************************************************************)
(* Task attachments: one database row per upload reservation and one       *)
(* private object per attempt.  Uploads, deletions and the reconciler of   *)
(* app/backend/src/attachments touch both stores in separate steps, and    *)
(* any of them may stop between two steps.                                 *)
(*                                                                         *)
(* All slots belong to one workspace; an uploader's reservations in other  *)
(* workspaces, which count against its own limit, are left out.  A request *)
(* whose fingerprint differs from its row's is answered 409 without        *)
(* effect, so every upload of a slot has that slot's fingerprint, and with *)
(* it the declared size.                                                   *)
(***************************************************************************)
EXTENDS Naturals, FiniteSets

CONSTANTS
  Slot,          \* idempotency keys: unique (taskId, creatorId, idempotencyKey)
  Upload,        \* upload requests; each reserves under its own random objectKey
  Deletion,      \* delete requests
  Run,           \* runs of the reconcile command; more than one may overlap
  Content,       \* file bodies that pass inspection
  Damaged,       \* an object body that does not
  None,
  TaskOf,        \* of each slot, its task,
  CreatorOf,     \* its uploader
  Size,          \* and the declared size of its uploads
  TaskLimit,             \* MAX_ATTACHMENTS_PER_TASK
  PendingLimit,          \* MAX_PENDING_ATTACHMENTS_PER_ACTOR
  WorkspacePendingLimit, \* MAX_PENDING_ATTACHMENTS_PER_WORKSPACE
  WorkspaceBytes,        \* MAX_WORKSPACE_ATTACHMENT_BYTES
  Faults         \* what may go wrong, a subset of FaultKinds

\* crash: a process stops for good between two steps.  storage: a storage call
\* fails, before or after taking effect.  db: a database call fails without
\* effect.  lost_ack: an update commits but its caller sees an error.  late_put:
\* an aborted PUT is applied after the abort.  bypass: bytes of a pending upload
\* are overwritten in the bucket.  slow_upload: a request outlives the hour after
\* which its row counts as stale.
FaultKinds == {"crash", "storage", "db", "lost_ack", "late_put", "bypass", "slow_upload"}

ASSUME FaultsAssumption == Faults \subseteq FaultKinds
ASSUME LimitsAssumption == {TaskLimit, PendingLimit, WorkspacePendingLimit, WorkspaceBytes} \subseteq Nat
ASSUME SizeAssumption == \A s \in Slot : Size[s] \in Nat
ASSUME BodiesAssumption == Damaged \notin Content /\ None \notin Content \cup {Damaged}

VARIABLES
  rows,      \* per slot: its attachment row or None
  objects,   \* per object key (the upload that reserved it): the stored body
  up,        \* per upload: where its handler is, or its answer
  asked,     \* per upload: what its reservation's transaction read, while it is open
  current,   \* the open reservations whose snapshot holds every reservation committed
  rowId,     \* per upload: the row it reserved
  body,      \* per upload: the bytes the client sends
  del,       \* per deletion: where its handler is
  target,    \* per deletion: the id and key it read
  rec,       \* per reconciler run and slot: where that item's treatment is
  item       \* per reconciler run and slot: what the listing query returned

vars == <<rows, objects, up, asked, current, rowId, body, del, target, rec, item>>

Status == {"PENDING", "AVAILABLE", "FAILED", "DELETING", "DELETE_FAILED"}
ObjectBearing == Status \ {"FAILED"}

\* A row's id is the upload that created it; aged: lastAttemptAt is older than
\* the reconciler's threshold for the row's status.
Row == [id : Upload, key : Upload, status : Status,
        content : Content \cup {None}, aged : BOOLEAN]

\* What a reservation found: the id of the FAILED row of its slot, or None.
Asked == [slot : Slot, found : Upload \cup {None}]

\* What a deletion, and what the reconciler, remembers of a row.
Target == [id : Upload, key : Upload]
Listed == [id : Upload, key : Upload, status : Status, found : Content \cup {None}]

ASSUME NoneAssumption == None \notin Upload \cup Row \cup Asked \cup Target \cup Listed
ASSUME SlotAssumption == IsFiniteSet(Slot)

UploadEnds == {"ok", "replayed", "conflict", "quota", "failed", "crashed"}
UploadSteps == {"sending", "sent", "failing", "verify", "release"}
DeleteSteps == {"erase", "purge", "mark"}
ItemSteps == {"headPending", "inspect", "promote", "discard", "markFailed",
              "headFailed", "drop", "erase", "purge", "mark"}

TypeOK ==
  /\ rows \in [Slot -> Row \cup {None}]
  /\ objects \in [Upload -> Content \cup {Damaged, None}]
  /\ up \in [Upload -> {"idle", "reserving"} \cup UploadSteps \cup UploadEnds]
  /\ asked \in [Upload -> Asked \cup {None}]
  /\ current \subseteq Upload
  /\ rowId \in [Upload -> Upload \cup {None}]
  /\ body \in [Upload -> Content \cup {Damaged, None}]
  /\ del \in [Deletion -> {"idle"} \cup DeleteSteps \cup {"done"}]
  /\ target \in [Deletion -> Target \cup {None}]
  /\ rec \in [Run \X Slot -> {"idle"} \cup ItemSteps]
  /\ item \in [Run \X Slot -> Listed \cup {None}]

Init ==
  /\ rows = [s \in Slot |-> None]
  /\ objects = [u \in Upload |-> None]
  /\ up = [u \in Upload |-> "idle"]
  /\ asked = [u \in Upload |-> None]
  /\ current = {}
  /\ rowId = [u \in Upload |-> None]
  /\ body = [u \in Upload |-> None]
  /\ del = [d \in Deletion |-> "idle"]
  /\ target = [d \in Deletion |-> None]
  /\ rec = [p \in Run \X Slot |-> "idle"]
  /\ item = [p \in Run \X Slot |-> None]

Is(s, st) == rows[s] # None /\ rows[s].status = st
With(st) == {s \in Slot : rows[s] # None /\ rows[s].status \in st}
Fault(f) == f \in Faults

\* updateMany where id and status: at most the one row, with lastAttemptAt renewed.
Matches(s, id, st) == rows[s] # None /\ rows[s].id = id /\ rows[s].status = st
UpdateWhere(id, st, next) ==
  rows' = [s \in Slot |-> IF Matches(s, id, st)
                          THEN [rows[s] EXCEPT !.status = next, !.aged = FALSE] ELSE rows[s]]
\* Mutant: the row is found by its id alone.
MakeAvailableById(id, bytes) ==
  rows' = [s \in Slot |-> IF rows[s] # None /\ rows[s].id = id
                          THEN [rows[s] EXCEPT !.status = "AVAILABLE", !.content = bytes,
                                               !.aged = FALSE]
                          ELSE rows[s]]
\* The one that makes a pending row available, with the size and digest inspected.
MakeAvailable(id, bytes) ==
  rows' = [s \in Slot |-> IF Matches(s, id, "PENDING")
                          THEN [rows[s] EXCEPT !.status = "AVAILABLE", !.content = bytes,
                                               !.aged = FALSE]
                          ELSE rows[s]]
\* deleteMany where id and status.
DeleteWhere(id, st) ==
  rows' = [s \in Slot |-> IF Matches(s, id, st) THEN None ELSE rows[s]]

-----------------------------------------------------------------------------
(* Uploads.                                                                *)

\* The rows each limit counts, and the bytes declared by a set of them, one element
\* for each byte.
OnTask(s) == {t \in With(ObjectBearing) : TaskOf[t] = TaskOf[s]}
PendingBy(s) == {t \in With({"PENDING"}) : CreatorOf[t] = CreatorOf[s]}
Bytes(S) == UNION {{s} \X (1..Size[s]) : s \in S}

QuotaLeft(s) ==
  /\ Cardinality(OnTask(s)) < TaskLimit
  /\ Cardinality(PendingBy(s)) < PendingLimit
  /\ Cardinality(With({"PENDING"})) < WorkspacePendingLimit
  /\ Cardinality(Bytes(With(ObjectBearing))) + Size[s] <= WorkspaceBytes

\* No row holds the idempotency key, or one whose upload is known to have failed.
Reservable(s) == rows[s] = None \/ Is(s, "FAILED")
IdAt(s) == IF rows[s] = None THEN None ELSE rows[s].id

Answered(u, answer) ==
  /\ up' = [up EXCEPT ![u] = answer]
  /\ asked' = [asked EXCEPT ![u] = None]
  /\ current' = current \ {u}
  /\ UNCHANGED <<rows, objects, rowId, body, del, target, rec, item>>

\* reserveUpload's serializable transaction takes its snapshot: it answers from the row
\* found, or checks the quotas.  One that could not be serialized is begun again.
BeginReserve(u, s) ==
  /\ up[u] = "idle" \/ (up[u] = "reserving" /\ asked[u].slot = s)
  /\ \/ /\ Is(s, "AVAILABLE")
        /\ Answered(u, "replayed")
     \/ /\ ~Reservable(s) /\ ~Is(s, "AVAILABLE")
        /\ Answered(u, "conflict")
     \/ /\ Reservable(s) /\ ~QuotaLeft(s)
        /\ Answered(u, "quota")
     \/ /\ Reservable(s) /\ QuotaLeft(s)
        /\ up' = [up EXCEPT ![u] = "reserving"]
        /\ asked' = [asked EXCEPT ![u] = [slot |-> s, found |-> IdAt(s)]]
        /\ current' = current \cup {u}
        /\ UNCHANGED <<rows, objects, rowId, body, del, target, rec, item>>

\* Create the row, or reset the FAILED one, under a new key.
Fill(u, s, b) ==
  /\ Reservable(s) /\ asked[u].found = IdAt(s)
  /\ LET id == IF rows[s] = None THEN u ELSE rows[s].id IN
     /\ rows' = [rows EXCEPT ![s] = [id |-> id, key |-> u, status |-> "PENDING",
                                     content |-> None, aged |-> FALSE]]
     /\ rowId' = [rowId EXCEPT ![u] = id]
  /\ body' = [body EXCEPT ![u] = b]
  /\ up' = [up EXCEPT ![u] = "sending"]
  /\ asked' = [asked EXCEPT ![u] = None]
  /\ current' = {}
  /\ UNCHANGED <<objects, del, target, rec, item>>

\* Mutant: the isolation level is that of snapshots only.
CommitReserveUnserialized(u, b) ==
  /\ up[u] = "reserving"
  /\ Fill(u, asked[u].slot, b)

\* The transaction commits.  Any two reservations of a workspace count what the other
\* writes, so none commits that overlaps one committed since its snapshot.
CommitReserve(u, b) ==
  /\ up[u] = "reserving" /\ u \in current
  /\ Fill(u, asked[u].slot, b)

\* The attempts are exhausted, or another request has created the row (P2002).
GiveUpReserve(u) ==
  /\ up[u] = "reserving"
  /\ \/ Answered(u, "conflict")
     \/ asked[u].found = None /\ Is(asked[u].slot, "AVAILABLE") /\ Answered(u, "replayed")

Upto(u, step) ==
  /\ up' = [up EXCEPT ![u] = step]
  /\ UNCHANGED <<asked, current, rowId, body, del, target, rec, item>>

\* The body streams through the inspection into storage.upload; both it and the
\* multipart parser must finish.
Send(u) ==
  /\ up[u] = "sending"
  /\ UNCHANGED rows
  \* Stored; the answer may be lost or the rest of the request be malformed.
  /\ \/ /\ body[u] \in Content
        /\ objects' = [objects EXCEPT ![u] = body[u]]
        /\ Upto(u, "sent") \/ Upto(u, "failing")
     \* Rejected content, a client that went away, or a failed PUT.
     \/ /\ UNCHANGED objects
        /\ Upto(u, "failing")

\* PENDING -> AVAILABLE, where id, status and fingerprint match.
Finalize(u) ==
  /\ up[u] = "sent"
  /\ UNCHANGED objects
  /\ \/ /\ MakeAvailable(rowId[u], body[u])
        /\ \/ Upto(u, IF \E s \in Slot : Matches(s, rowId[u], "PENDING") THEN "ok" ELSE "failing")
           \/ Fault("lost_ack") /\ Upto(u, "failing")
     \/ /\ Fault("db")
        /\ UNCHANGED rows
        /\ Upto(u, "failing")

\* Mutant: the reservation is released whether or not the deletion succeeded.
RemoveObjectBlindly(u) ==
  /\ up[u] = "failing"
  /\ UNCHANGED rows
  /\ \/ objects' = [objects EXCEPT ![u] = None]
     \/ Fault("storage") /\ UNCHANGED objects
  /\ Upto(u, "release")

\* The catch block: delete the object, ...
RemoveObject(u) ==
  /\ up[u] = "failing"
  /\ UNCHANGED rows
  /\ \/ /\ objects' = [objects EXCEPT ![u] = None]
        /\ Upto(u, "verify")
     \/ /\ Fault("storage")
        /\ objects' \in {objects, [objects EXCEPT ![u] = None]}
        /\ Upto(u, "failed")

\* ... verify that it is gone, ...
VerifyRemoved(u) ==
  /\ up[u] = "verify"
  /\ UNCHANGED <<rows, objects>>
  /\ \/ Upto(u, IF objects[u] = None THEN "release" ELSE "failed")
     \/ Fault("storage") /\ Upto(u, "failed")

\* ... and only then give the reservation up: PENDING -> FAILED, where id and
\* status match.
Release(u) ==
  /\ up[u] = "release"
  /\ UNCHANGED objects
  /\ \/ UpdateWhere(rowId[u], "PENDING", "FAILED")
     \/ Fault("db") /\ UNCHANGED rows
  /\ Upto(u, "failed")

-----------------------------------------------------------------------------
(* Deletions.                                                              *)

Delto(d, step) ==
  /\ del' = [del EXCEPT ![d] = step]
  /\ UNCHANGED <<up, asked, current, rowId, body, rec, item>>

\* The read and the conditional update to DELETING.  They are one step: the
\* update repeats the status it read, and no row regains a status with another key.
BeginDelete(d, s) ==
  /\ del[d] = "idle"
  /\ Is(s, "AVAILABLE") \/ Is(s, "DELETE_FAILED")
  /\ rows' = [rows EXCEPT ![s].status = "DELETING", ![s].aged = FALSE]
  /\ target' = [target EXCEPT ![d] = [id |-> rows[s].id, key |-> rows[s].key]]
  /\ Delto(d, "erase")
  /\ UNCHANGED objects

\* Mutant: the row is purged even if the object could not be deleted.
EraseObjectBlindly(d) ==
  /\ del[d] = "erase"
  /\ UNCHANGED <<rows, target>>
  /\ \/ objects' = [objects EXCEPT ![target[d].key] = None]
     \/ Fault("storage") /\ UNCHANGED objects
  /\ Delto(d, "purge")

EraseObject(d) ==
  /\ del[d] = "erase"
  /\ UNCHANGED <<rows, target>>
  /\ \/ /\ objects' = [objects EXCEPT ![target[d].key] = None]
        /\ Delto(d, "purge")
     \/ /\ Fault("storage")
        /\ objects' \in {objects, [objects EXCEPT ![target[d].key] = None]}
        /\ Delto(d, "mark")

PurgeRow(d) ==
  /\ del[d] = "purge"
  /\ \/ DeleteWhere(target[d].id, "DELETING")
     \/ Fault("db") /\ UNCHANGED rows
  /\ Delto(d, "done")
  /\ UNCHANGED <<objects, target>>

\* Mutant: a failed deletion makes the attachment available again.
MarkDeleteFailedRestoring(d) ==
  /\ del[d] = "mark"
  /\ UpdateWhere(target[d].id, "DELETING", "AVAILABLE")
  /\ Delto(d, "done")
  /\ UNCHANGED <<objects, target>>

\* Mutant: a failed deletion is recorded as a failed upload.
MarkDeleteFailedAsFailed(d) ==
  /\ del[d] = "mark"
  /\ UpdateWhere(target[d].id, "DELETING", "FAILED")
  /\ Delto(d, "done")
  /\ UNCHANGED <<objects, target>>

MarkDeleteFailed(d) ==
  /\ del[d] = "mark"
  /\ \/ UpdateWhere(target[d].id, "DELETING", "DELETE_FAILED")
     \/ Fault("db") /\ UNCHANGED rows
  /\ Delto(d, "done")
  /\ UNCHANGED <<objects, target>>

-----------------------------------------------------------------------------
(* The reconciler, applying.  The rows of a listing are treated one after  *)
(* the other; each is an item of its own here, so that its observation may *)
(* be as old as the run.                                                   *)

Recto(p, step) ==
  /\ rec' = [rec EXCEPT ![p] = step]
  /\ UNCHANGED <<up, asked, current, rowId, body, del, target>>

ListItem(c, s) ==
  LET row == rows[s] IN
  /\ rec[<<c, s>>] = "idle"
  /\ row # None
  /\ item' = [item EXCEPT ![<<c, s>>] =
                [id |-> row.id, key |-> row.key, status |-> row.status, found |-> None]]
  /\ UNCHANGED <<rows, objects>>
  /\ \/ row.status = "PENDING" /\ row.aged /\ Recto(<<c, s>>, "headPending")
     \/ row.status = "FAILED" /\ row.aged /\ Recto(<<c, s>>, "headFailed")
     \/ /\ row.status = "DELETE_FAILED" \/ (row.status = "DELETING" /\ row.aged)
        /\ Recto(<<c, s>>, "erase")

\* Every exit that leaves the item for a later run.
Skip(p) == Recto(p, "idle") /\ UNCHANGED <<rows, objects, item>>

Head(p) ==
  /\ rec[p] \in {"headPending", "headFailed"}
  /\ LET exists == objects[item[p].key] # None
         next == IF rec[p] = "headPending"
                 THEN IF exists THEN "inspect" ELSE "markFailed"
                 ELSE IF exists THEN "idle" ELSE "drop"
     IN \/ Recto(p, next) /\ UNCHANGED <<rows, objects, item>>
        \/ Fault("storage") /\ Skip(p)

\* Stream the object through the size, signature and digest inspection again.
Inspect(p) ==
  /\ rec[p] = "inspect"
  /\ LET found == objects[item[p].key] IN
     \/ /\ found \in Content
        /\ item' = [item EXCEPT ![p].found = found]
        /\ Recto(p, "promote")
        /\ UNCHANGED <<rows, objects>>
     \/ /\ found = Damaged
        /\ Recto(p, "discard")
        /\ UNCHANGED <<rows, objects, item>>
     \/ /\ found = None \/ Fault("storage")
        /\ Skip(p)

\* PENDING -> AVAILABLE, where id and status match.
Promote(p) ==
  /\ rec[p] = "promote"
  /\ \/ MakeAvailable(item[p].id, item[p].found)
     \/ Fault("db") /\ UNCHANGED rows
  /\ Recto(p, "idle")
  /\ UNCHANGED <<objects, item>>

Discard(p) ==
  /\ rec[p] = "discard"
  /\ \/ /\ objects' = [objects EXCEPT ![item[p].key] = None]
        /\ Recto(p, "markFailed")
        /\ UNCHANGED <<rows, item>>
     \/ Fault("storage") /\ Skip(p)

MarkFailed(p) ==
  /\ rec[p] = "markFailed"
  /\ \/ UpdateWhere(item[p].id, "PENDING", "FAILED")
     \/ Fault("db") /\ UNCHANGED rows
  /\ Recto(p, "idle")
  /\ UNCHANGED <<objects, item>>

DropFailed(p) ==
  /\ rec[p] = "drop"
  /\ \/ DeleteWhere(item[p].id, "FAILED")
     \/ Fault("db") /\ UNCHANGED rows
  /\ Recto(p, "idle")
  /\ UNCHANGED <<objects, item>>

RetryErase(p) ==
  /\ rec[p] = "erase"
  /\ UNCHANGED <<rows, item>>
  /\ \/ /\ objects' = [objects EXCEPT ![item[p].key] = None]
        /\ Recto(p, "purge")
     \/ /\ Fault("storage")
        /\ objects' \in {objects, [objects EXCEPT ![item[p].key] = None]}
        /\ Recto(p, "mark")

RetryPurge(p) ==
  /\ rec[p] = "purge"
  /\ \/ DeleteWhere(item[p].id, item[p].status) /\ Recto(p, "idle")
     \/ Fault("db") /\ UNCHANGED rows /\ Recto(p, "mark")
  /\ UNCHANGED <<objects, item>>

RetryMark(p) ==
  /\ rec[p] = "mark"
  /\ \/ UpdateWhere(item[p].id, item[p].status, "DELETE_FAILED")
     \/ Fault("db") /\ UNCHANGED rows
  /\ Recto(p, "idle")
  /\ UNCHANGED <<objects, item>>

-----------------------------------------------------------------------------
(* The environment.                                                        *)

Active(u) == up[u] \in UploadSteps
Working(d) == del[d] \in DeleteSteps

\* An hour (a day for FAILED) passes without an attempt on the row.  Requests
\* and storage calls are cut off after minutes, so none of the row is running.
Age(s) ==
  /\ rows[s] # None /\ ~rows[s].aged
  /\ rows[s].status \in {"PENDING", "FAILED", "DELETING"}
  /\ \/ Fault("slow_upload")
     \/ /\ \A u \in Upload : Active(u) => rowId[u] # rows[s].id
        /\ \A d \in Deletion : Working(d) => target[d].id # rows[s].id
  /\ rows' = [rows EXCEPT ![s].aged = TRUE]
  /\ UNCHANGED <<objects, up, asked, current, rowId, body, del, target, rec, item>>

Crash ==
  /\ Fault("crash")
  /\ \/ \E u \in Upload : Active(u) /\ Upto(u, "crashed") /\ UNCHANGED <<rows, objects>>
     \/ \E d \in Deletion : Working(d) /\ Delto(d, "done") /\ UNCHANGED <<rows, objects, target>>
     \/ \E p \in Run \X Slot : rec[p] # "idle" /\ Skip(p)

\* A PUT given up by its upload reaches the bucket all the same.
LatePut(u) ==
  /\ Fault("late_put")
  /\ up[u] \in {"failing", "verify", "release", "failed"} /\ body[u] \in Content
  /\ objects[u] = None
  /\ objects' = [objects EXCEPT ![u] = body[u]]
  /\ UNCHANGED <<rows, up, asked, current, rowId, body, del, target, rec, item>>

\* The bytes under a pending key are not those the API streamed.
Bypass(u) ==
  /\ Fault("bypass")
  /\ objects[u] \in Content /\ ~Active(u)
  /\ \E s \in Slot : Is(s, "PENDING") /\ rows[s].key = u
  /\ \A p \in Run \X Slot : rec[p] # "promote"
  /\ objects' = [objects EXCEPT ![u] = Damaged]
  /\ UNCHANGED <<rows, up, asked, current, rowId, body, del, target, rec, item>>

ReserveStep(u) ==
  \/ \E s \in Slot : BeginReserve(u, s)
  \/ \E b \in Content \cup {Damaged} : CommitReserve(u, b)
  \/ GiveUpReserve(u)

UploadStep(u) ==
  \/ Send(u)
  \/ Finalize(u)
  \/ RemoveObject(u)
  \/ VerifyRemoved(u)
  \/ Release(u)

DeleteStep(d) ==
  \/ EraseObject(d)
  \/ PurgeRow(d)
  \/ MarkDeleteFailed(d)

ItemStep(p) ==
  \/ Head(p)
  \/ Inspect(p)
  \/ Promote(p)
  \/ Discard(p)
  \/ MarkFailed(p)
  \/ DropFailed(p)
  \/ RetryErase(p)
  \/ RetryPurge(p)
  \/ RetryMark(p)

Next ==
  \/ \E u \in Upload : ReserveStep(u)
  \/ \E u \in Upload : UploadStep(u)
  \/ \E d \in Deletion, s \in Slot : BeginDelete(d, s)
  \/ \E d \in Deletion : DeleteStep(d)
  \/ \E c \in Run, s \in Slot : ListItem(c, s)
  \/ \E p \in Run \X Slot : ItemStep(p)
  \/ \E s \in Slot : Age(s)
  \/ Crash
  \/ \E u \in Upload : LatePut(u)
  \/ \E u \in Upload : Bypass(u)

Spec == Init /\ [][Next]_vars

-----------------------------------------------------------------------------
\* Whoever made it available, and whatever failed before, an available
\* attachment can be downloaded: its key holds the very bytes whose digest the
\* row states.
AvailableHasObject ==
  \A s \in Slot : Is(s, "AVAILABLE") =>
    /\ rows[s].content # None
    /\ objects[rows[s].key] = rows[s].content

\* No stored object escapes the quotas and the reconciler: its key is that of a
\* row still counted as object-bearing, or its upload is still running.
NoOrphanObject ==
  \A u \in Upload : objects[u] # None =>
    Active(u) \/ \E s \in With(ObjectBearing) : rows[s].key = u

\* The launch limits hold in every state, not only when a reservation is made: however
\* reservations overlap, the rows and bytes of a task, of an uploader and of the
\* workspace stay within all four.
QuotaRespected ==
  /\ \A s \in Slot : Cardinality(OnTask(s)) <= TaskLimit
  /\ \A s \in Slot : Cardinality(PendingBy(s)) <= PendingLimit
  /\ Cardinality(With({"PENDING"})) <= WorkspacePendingLimit
  /\ Cardinality(Bytes(With(ObjectBearing))) <= WorkspaceBytes

\* An upload answered 201 put its own bytes behind the row it reserved.
CreatedMeansStored ==
  \A u \in Upload, s \in Slot :
    up[u] = "ok" /\ Is(s, "AVAILABLE") /\ rows[s].id = rowId[u] =>
      rows[s].key = u /\ rows[s].content = body[u]

\* Metadata is removed only after the object: no crash, retry or concurrent run
\* leaves bytes behind a row that is gone.
RemovedMeansErased ==
  [][\A s \in Slot : rows[s] # None /\ rows'[s] = None => objects[rows[s].key] = None]_vars

\* A deletion once begun is never undone: whatever a late upload, a retry of the
\* same key or a reconciler run holding an old listing does, the row stays a
\* deletion of the same object until it is removed.
DeletionIsFinal ==
  [][\A s \in Slot : Is(s, "DELETING") \/ Is(s, "DELETE_FAILED") =>
       \/ rows'[s] = None
       \/ /\ rows'[s].id = rows[s].id /\ rows'[s].key = rows[s].key
          /\ rows'[s].status \in {"DELETING", "DELETE_FAILED"}]_vars

=============================================================================
