--------------------- MODULE AttachmentLifecycleProofs ---------------------
(***************************************************************************)
(* What attachments keep for any number of slots, requests and runs.  The  *)
(* quotas and the finality of a deletion need nothing else; that a row and *)
(* its object agree is proved for one reconciler run at a time and for the *)
(* faults of FaultKinds that do not break it.                              *)
(***************************************************************************)
EXTENDS AttachmentLifecycle, FiniteSetTheorems, TLAPS

Deleting == {"DELETING", "DELETE_FAILED"}
PendingSteps == {"headPending", "inspect", "promote", "discard", "markFailed"}
FailedSteps == {"headFailed", "drop"}
EraseSteps == {"erase", "purge", "mark"}

\* What a handler knows of the row and the item it holds, whoever else is running.
HandlersOK ==
  /\ \A u \in Upload : up[u] = "reserving" => asked[u] # None
  /\ \A u \in Upload : Active(u) => rowId[u] \in Upload
  /\ \A u \in Upload : up[u] = "sent" => body[u] \in Content
  /\ \A d \in Deletion : Working(d) => target[d] # None
  /\ \A p \in Run \X Slot : rec[p] # "idle" => item[p] # None
  /\ \A p \in Run \X Slot : rec[p] \in EraseSteps => item[p].status \in Deleting

Typed == TypeOK /\ HandlersOK

-----------------------------------------------------------------------------
\* One run of the reconciler, and none of the faults under which a row may be made available
\* without its object: an update whose acknowledgement is lost, a PUT applied after its upload
\* was given up, and an upload that outlives the reconciler's threshold.
OneRun == \A c1, c2 \in Run : c1 = c2
Benign == Faults \cap {"lost_ack", "late_put", "slow_upload"} = {}

\* Of the rows that share an id or a key with x, there is only x itself, being deleted.
Refers(s, x) == rows[s] # None /\ (rows[s].id = x.id \/ rows[s].key = x.key)
BeingDeleted(x) ==
  \A s \in Slot : Refers(s, x) =>
    /\ rows[s].id = x.id /\ rows[s].key = x.key
    /\ rows[s].status \in Deleting

\* A request that has reserved nothing has left no trace, so its id and key are new.
Unreserved == {"idle", "reserving"}
USE DEF Unreserved
FreshOK ==
  \A u \in Upload : up[u] \in Unreserved =>
    /\ objects[u] = None
    /\ \A s \in Slot : rows[s] # None => rows[s].id # u /\ rows[s].key # u
    /\ \A d \in Deletion : target[d] # None => target[d].id # u /\ target[d].key # u
    /\ \A p \in Run \X Slot : item[p] # None => item[p].id # u /\ item[p].key # u
    /\ \A v \in Upload : rowId[v] # u

UniqueOK ==
  \A s, t \in Slot : rows[t] # None /\ Refers(s, rows[t]) => s = t

\* A running upload owns its pending row, and no reconciler may treat that row yet.
UploadOK(u) ==
  /\ Active(u) => \E s \in Slot : /\ Matches(s, rowId[u], "PENDING")
                                  /\ rows[s].key = u /\ ~rows[s].aged
  /\ up[u] = "sent" => objects[u] = body[u]
  /\ up[u] = "release" => objects[u] = None
  /\ up[u] = "ok" =>
       /\ rowId[u] \in Upload
       /\ \A s \in Slot : rows[s] # None /\ rows[s].id = rowId[u] =>
            /\ rows[s].key = u
            /\ rows[s].status \in {"AVAILABLE"} \cup Deleting
            /\ rows[s].status = "AVAILABLE" => rows[s].content = body[u]

RowOK(s) ==
  /\ Is(s, "AVAILABLE") => rows[s].content \in Content /\ objects[rows[s].key] = rows[s].content
  /\ Is(s, "FAILED") => objects[rows[s].key] = None

DeletionOK(d) ==
  Working(d) => /\ BeingDeleted(target[d])
                /\ del[d] = "purge" => objects[target[d].key] = None

\* The row of an item listed as pending stays as it was listed until the item is done with.
ItemOK(c, s) ==
  LET p == <<c, s>> IN
  /\ rec[p] \in PendingSteps =>
       Matches(s, item[p].id, "PENDING") /\ rows[s].key = item[p].key /\ rows[s].aged
  /\ rec[p] = "promote" => item[p].found \in Content /\ objects[item[p].key] = item[p].found
  /\ rec[p] = "markFailed" => objects[item[p].key] = None
  /\ rec[p] \in EraseSteps => BeingDeleted(item[p])
  /\ rec[p] = "purge" => objects[item[p].key] = None

IInv ==
  /\ Typed
  /\ FreshOK
  /\ UniqueOK
  /\ \A u \in Upload : UploadOK(u)
  /\ \A s \in Slot : RowOK(s)
  /\ \A d \in Deletion : DeletionOK(d)
  /\ \A c \in Run, s \in Slot : ItemOK(c, s)
  /\ NoOrphanObject

-----------------------------------------------------------------------------
(* What the statements on the table do to each row.                        *)

Rows == [Slot -> Row \cup {None}]

\* The row of s stays the same attempt and goes to a status.
Turned(s, next, content) ==
  /\ rows[s] # None /\ rows'[s] # None
  /\ rows'[s].id = rows[s].id /\ rows'[s].key = rows[s].key
  /\ rows'[s].status = next /\ rows'[s].content = content

LEMMA RowFields ==
  ASSUME NEW r \in Row
  PROVE  /\ r # None
         /\ r.id \in Upload /\ r.key \in Upload /\ r.status \in Status
         /\ r.content \in Content \cup {None} /\ r.aged \in BOOLEAN
BY NoneAssumption DEF Row

LEMMA RowFilled ==
  ASSUME NEW r \in Row, NEW c \in Content \cup {None}
  PROVE  LET n == [r EXCEPT !.status = "AVAILABLE", !.content = c, !.aged = FALSE] IN
         /\ n \in Row /\ n # None
         /\ n.id = r.id /\ n.key = r.key /\ n.status = "AVAILABLE" /\ n.content = c
<1> [r EXCEPT !.status = "AVAILABLE", !.content = c, !.aged = FALSE] \in Row
  BY DEF Row, Status
<1> QED  BY RowFields DEF Row

LEMMA RowTurned ==
  ASSUME NEW r \in Row, NEW next \in Status, NEW a \in BOOLEAN
  PROVE  LET n == [r EXCEPT !.status = next, !.aged = a] IN
         /\ n \in Row /\ n # None
         /\ n.id = r.id /\ n.key = r.key /\ n.status = next /\ n.content = r.content /\ n.aged = a
<1> [r EXCEPT !.status = next, !.aged = a] \in Row
  BY DEF Row
<1> QED  BY RowFields DEF Row

LEMMA RowAged ==
  ASSUME NEW r \in Row
  PROVE  LET n == [r EXCEPT !.aged = TRUE] IN
         /\ n \in Row /\ n # None
         /\ n.id = r.id /\ n.key = r.key /\ n.status = r.status /\ n.content = r.content /\ n.aged
<1> [r EXCEPT !.aged = TRUE] \in Row
  BY DEF Row
<1> QED  BY RowFields DEF Row

LEMMA UpdateEffect ==
  ASSUME rows \in Rows, NEW id, NEW st, NEW next \in Status, UpdateWhere(id, st, next)
  PROVE  /\ rows' \in Rows
         /\ \A s \in Slot : IF Matches(s, id, st) THEN Turned(s, next, rows[s].content) /\ ~rows'[s].aged
                            ELSE rows'[s] = rows[s]
<1> SUFFICES ASSUME NEW s \in Slot
             PROVE  /\ (IF Matches(s, id, st) THEN [rows[s] EXCEPT !.status = next, !.aged = FALSE]
                        ELSE rows[s]) \in Row \cup {None}
                    /\ IF Matches(s, id, st) THEN Turned(s, next, rows[s].content) /\ ~rows'[s].aged
                       ELSE rows'[s] = rows[s]
  BY DEF UpdateWhere, Rows
<1>1. CASE ~Matches(s, id, st)
  BY <1>1 DEF UpdateWhere, Rows
<1>2. CASE Matches(s, id, st)
  <2>1. rows[s] \in Row
    BY <1>2 DEF Matches, Rows
  <2> DEFINE n == [rows[s] EXCEPT !.status = next, !.aged = FALSE]
  <2>2. rows'[s] = n
    BY <1>2 DEF UpdateWhere
  <2>3. /\ n \in Row /\ n # None /\ n.status = next /\ ~n.aged
        /\ n.id = rows[s].id /\ n.key = rows[s].key /\ n.content = rows[s].content
    BY <2>1, RowTurned
  <2> HIDE DEF n
  <2> QED  BY <1>2, <2>1, <2>2, <2>3, RowFields DEF Turned, n
<1> QED  BY <1>1, <1>2

LEMMA AvailableEffect ==
  ASSUME rows \in Rows, NEW id, NEW bytes \in Content \cup {None}, MakeAvailable(id, bytes)
  PROVE  /\ rows' \in Rows
         /\ \A s \in Slot : IF Matches(s, id, "PENDING") THEN Turned(s, "AVAILABLE", bytes)
                            ELSE rows'[s] = rows[s]
<1> SUFFICES ASSUME NEW s \in Slot
             PROVE  /\ (IF Matches(s, id, "PENDING")
                        THEN [rows[s] EXCEPT !.status = "AVAILABLE", !.content = bytes, !.aged = FALSE]
                        ELSE rows[s]) \in Row \cup {None}
                    /\ IF Matches(s, id, "PENDING") THEN Turned(s, "AVAILABLE", bytes)
                       ELSE rows'[s] = rows[s]
  BY DEF MakeAvailable, Rows
<1>1. CASE ~Matches(s, id, "PENDING")
  BY <1>1 DEF MakeAvailable, Rows
<1>2. CASE Matches(s, id, "PENDING")
  <2>1. rows[s] \in Row
    BY <1>2 DEF Matches, Rows
  <2> DEFINE n == [rows[s] EXCEPT !.status = "AVAILABLE", !.content = bytes, !.aged = FALSE]
  <2>2. rows'[s] = n
    BY <1>2 DEF MakeAvailable
  <2>4. /\ n \in Row /\ n # None /\ n.status = "AVAILABLE"
        /\ n.id = rows[s].id /\ n.key = rows[s].key /\ n.content = bytes
    BY <2>1, RowFilled
  <2> HIDE DEF n
  <2> QED  BY <1>2, <2>1, <2>2, <2>4, RowFields DEF Turned, n
<1> QED  BY <1>1, <1>2

LEMMA DeleteEffect ==
  ASSUME rows \in Rows, NEW id, NEW st, DeleteWhere(id, st)
  PROVE  /\ rows' \in Rows
         /\ \A s \in Slot : rows'[s] = IF Matches(s, id, st) THEN None ELSE rows[s]
BY DEF DeleteWhere, Rows

LEMMA BeginEffect ==
  ASSUME rows \in Rows, NEW d \in Deletion, NEW s \in Slot, BeginDelete(d, s)
  PROVE  /\ rows' \in Rows
         /\ Turned(s, "DELETING", rows[s].content)
         /\ rows[s].status \in {"AVAILABLE", "DELETE_FAILED"}
         /\ \A t \in Slot \ {s} : rows'[t] = rows[t]
<1>1. rows[s] # None /\ rows[s] \in Row /\ rows[s].status \in {"AVAILABLE", "DELETE_FAILED"}
  BY DEF BeginDelete, Is, Rows
<1> DEFINE n == [rows[s] EXCEPT !.status = "DELETING", !.aged = FALSE]
<1>2. rows' = [rows EXCEPT ![s] = n]
  BY <1>1 DEF BeginDelete, Rows, Row
<1>3. "DELETING" \in Status
  BY DEF Status
<1>4. /\ n \in Row /\ n # None /\ n.status = "DELETING"
      /\ n.id = rows[s].id /\ n.key = rows[s].key /\ n.content = rows[s].content
  BY <1>1, <1>3, RowTurned
<1> HIDE DEF n
<1> QED  BY <1>1, <1>2, <1>4 DEF Rows, Turned

LEMMA AgeEffect ==
  ASSUME rows \in Rows, NEW s \in Slot, Age(s)
  PROVE  /\ rows' \in Rows
         /\ Turned(s, rows[s].status, rows[s].content) /\ rows'[s].aged
         /\ \A t \in Slot \ {s} : rows'[t] = rows[t]
<1>1. rows[s] # None /\ rows[s] \in Row
  BY DEF Age, Rows
<1> DEFINE n == [rows[s] EXCEPT !.aged = TRUE]
<1>2. rows' = [rows EXCEPT ![s] = n]
  BY <1>1 DEF Age, Rows, Row
<1>3. /\ n \in Row /\ n # None /\ n.status = rows[s].status /\ n.aged
      /\ n.id = rows[s].id /\ n.key = rows[s].key /\ n.content = rows[s].content
  BY <1>1, RowAged
<1> HIDE DEF n
<1> QED  BY <1>1, <1>2, <1>3 DEF Rows, Turned

\* A reservation that creates or resets a row.
Reserved(u, s, b) ==
  /\ up[u] = "reserving" /\ u \in current /\ s = asked[u].slot
  /\ Reservable(s)
  /\ rowId'[u] \in Upload
  /\ rowId'[u] = IF rows[s] = None THEN u ELSE rows[s].id
  /\ rowId' = [rowId EXCEPT ![u] = rowId'[u]]
  /\ rows' = [rows EXCEPT ![s] = rows'[s]]
  /\ rows'[s] \in Row /\ rows'[s] # None
  /\ rows'[s].id = rowId'[u] /\ rows'[s].key = u /\ rows'[s].status = "PENDING" /\ ~rows'[s].aged
  /\ body' = [body EXCEPT ![u] = b]
  /\ up' = [up EXCEPT ![u] = "sending"]
  /\ asked' = [asked EXCEPT ![u] = None] /\ current' = {}
  /\ UNCHANGED <<objects, del, target, rec, item>>

\* A reservation that begins, or is answered without one: next is where it leaves the request.
Waits(u, next) ==
  /\ up[u] \in Unreserved
  /\ up' = [up EXCEPT ![u] = next]
  /\ \/ /\ next \in {"replayed", "conflict", "quota"}
        /\ asked' = [asked EXCEPT ![u] = None] /\ current' = current \ {u}
     \/ /\ next = "reserving"
        /\ \E s \in Slot : /\ QuotaLeft(s)
                            /\ asked'[u] \in Asked /\ asked'[u].slot = s
                            /\ asked' = [asked EXCEPT ![u] = asked'[u]]
        /\ current' = current \cup {u}
  /\ UNCHANGED <<rows, objects, rowId, body, del, target, rec, item>>
Waited == {"reserving", "replayed", "conflict", "quota"}

LEMMA AskedFields ==
  ASSUME NEW a \in Asked
  PROVE  a # None /\ a.slot \in Slot
BY NoneAssumption DEF Asked

LEMMA BeginReserveEffect ==
  ASSUME Typed, NEW u \in Upload, NEW s \in Slot, BeginReserve(u, s)
  PROVE  \E next \in Waited : Waits(u, next)
<1>1. up[u] \in Unreserved
  BY DEF BeginReserve
<1>2. ASSUME NEW answer \in {"replayed", "conflict", "quota"}, Answered(u, answer)
      PROVE  Waits(u, answer)
  BY <1>1, <1>2 DEF Answered, Waits
<1>3. CASE Reservable(s) /\ QuotaLeft(s)
  <2> DEFINE a == [slot |-> s, found |-> IdAt(s)]
  <2>1. rows[s] \in Row \cup {None}
    BY DEF Typed, TypeOK
  <2>2. a \in Asked /\ a.slot = s
    BY <2>1, RowFields DEF Asked, IdAt
  <2>3. /\ asked' = [asked EXCEPT ![u] = a] /\ up' = [up EXCEPT ![u] = "reserving"]
        /\ current' = current \cup {u}
        /\ UNCHANGED <<rows, objects, rowId, body, del, target, rec, item>>
    BY <1>3 DEF BeginReserve, Reservable, Is
  <2>4. asked'[u] = a
    BY <2>3 DEF Typed, TypeOK
  <2> HIDE DEF a
  <2>5. Waits(u, "reserving")
    BY <1>1, <1>3, <2>2, <2>3, <2>4 DEF Waits
  <2> QED  BY <2>5 DEF Waited
<1> QED  BY <1>2, <1>3 DEF BeginReserve, Waited

LEMMA CommitReserveEffect ==
  ASSUME Typed, NEW u \in Upload, NEW b \in Content \cup {Damaged}, CommitReserve(u, b)
  PROVE  \E s \in Slot : Reserved(u, s, b)
<1> DEFINE s == asked[u].slot
           id == IF rows[s] = None THEN u ELSE rows[s].id
           new == [id |-> id, key |-> u, status |-> "PENDING", content |-> None, aged |-> FALSE]
<1>0. s \in Slot
  BY AskedFields DEF CommitReserve, Typed, TypeOK, HandlersOK
<1>1. rows[s] \in Row \cup {None}
  BY <1>0 DEF Typed, TypeOK
<1>2. id \in Upload
  BY <1>1, RowFields
<1>3. new \in Row
  BY <1>2 DEF Row, Status
<1>4. /\ rows' = [rows EXCEPT ![s] = new] /\ rowId' = [rowId EXCEPT ![u] = id]
      /\ Reservable(s)
  BY DEF CommitReserve, Fill
<1>5. rows'[s] = new /\ rowId'[u] = id
  BY <1>0, <1>4 DEF Typed, TypeOK
<1>6. new # None
  BY <1>3, RowFields
<1>7. new.id = id /\ new.key = u /\ new.status = "PENDING" /\ ~new.aged
  OBVIOUS
<1>8. /\ body' = [body EXCEPT ![u] = b] /\ up' = [up EXCEPT ![u] = "sending"]
      /\ asked' = [asked EXCEPT ![u] = None] /\ current' = {}
      /\ UNCHANGED <<objects, del, target, rec, item>>
      /\ up[u] = "reserving" /\ u \in current
  BY DEF CommitReserve, Fill
<1> HIDE DEF new, id
<1>9. Reserved(u, s, b)
  BY <1>2, <1>3, <1>4, <1>5, <1>6, <1>7, <1>8 DEF Reserved, id
<1> QED  BY <1>0, <1>9

LEMMA ReserveEffect ==
  ASSUME Typed, NEW u \in Upload, ReserveStep(u)
  PROVE  \/ \E s \in Slot, b \in Content \cup {Damaged} : Reserved(u, s, b)
         \/ \E next \in Waited : Waits(u, next)
<1>1. CASE GiveUpReserve(u)
  BY <1>1 DEF GiveUpReserve, Answered, Waits, Waited
<1> QED  BY <1>1, BeginReserveEffect, CommitReserveEffect DEF ReserveStep

-----------------------------------------------------------------------------
(* Types, and what a handler holds.                                        *)

LEMMA TypedInit == Init => Typed
BY DEF Init, Typed, TypeOK, HandlersOK, Active, Working, UploadSteps, DeleteSteps, EraseSteps

LEMMA TypedUploads ==
  ASSUME Typed, NEW u \in Upload, UploadStep(u)
  PROVE  Typed'
<1> USE DEF Typed, HandlersOK, Active, Working, UploadSteps, DeleteSteps, EraseSteps
<1>0. TypeOK /\ rows \in Rows
  BY DEF TypeOK, Rows
<1>1. CASE Send(u)
  BY <1>1 DEF Send, Upto, TypeOK, UploadEnds
<1>2. CASE Finalize(u)
  <2>1. rows' \in Rows
    BY <1>0, <1>2, AvailableEffect DEF Finalize, TypeOK
  <2>2. up' \in [Upload -> {"idle", "reserving"} \cup UploadSteps \cup UploadEnds]
    BY <1>2 DEF Finalize, Upto, TypeOK, UploadEnds
  <2> QED  BY <1>2, <2>1, <2>2 DEF Finalize, Upto, TypeOK, Rows
<1>3. CASE RemoveObject(u)
  BY <1>3 DEF RemoveObject, Upto, TypeOK, UploadEnds
<1>4. CASE VerifyRemoved(u)
  <2>1. PICK step \in {"release", "failed"} : Upto(u, step)
    BY <1>4 DEF VerifyRemoved
  <2> QED  BY <1>4, <2>1 DEF VerifyRemoved, Upto, TypeOK, UploadEnds
<1>5. CASE Release(u)
  <2>1. rows' \in Rows
    BY <1>0, <1>5, UpdateEffect DEF Release, Status
  <2> QED  BY <1>5, <2>1 DEF Release, Upto, TypeOK, Rows, UploadEnds
<1> QED  BY <1>1, <1>2, <1>3, <1>4, <1>5 DEF UploadStep

LEMMA TypedDeletions ==
  ASSUME Typed, NEW d \in Deletion, \/ \E s \in Slot : BeginDelete(d, s)
                                    \/ DeleteStep(d)
  PROVE  Typed'
<1> USE DEF Typed, HandlersOK, Active, Working, UploadSteps, DeleteSteps, EraseSteps
<1>0. TypeOK /\ rows \in Rows
  BY DEF TypeOK, Rows
<1>1. ASSUME NEW s \in Slot, BeginDelete(d, s)  PROVE Typed'
  <2>1. rows' \in Rows
    BY <1>0, <1>1, BeginEffect
  <2>2. rows[s] \in Row
    BY <1>0, <1>1 DEF BeginDelete, Is, Rows
  <2>3. [id |-> rows[s].id, key |-> rows[s].key] \in Target
    BY <2>2, RowFields DEF Target
  <2> QED  BY <1>1, <2>1, <2>3, NoneAssumption DEF BeginDelete, Delto, TypeOK, Rows
<1>2. CASE EraseObject(d)
  BY <1>2 DEF EraseObject, Delto, TypeOK
<1>3. CASE PurgeRow(d)
  <2>1. rows' \in Rows
    BY <1>0, <1>3, DeleteEffect DEF PurgeRow
  <2> QED  BY <1>3, <2>1 DEF PurgeRow, Delto, TypeOK, Rows
<1>4. CASE MarkDeleteFailed(d)
  <2>1. rows' \in Rows
    BY <1>0, <1>4, UpdateEffect DEF MarkDeleteFailed, Status
  <2> QED  BY <1>4, <2>1 DEF MarkDeleteFailed, Delto, TypeOK, Rows
<1> QED  BY <1>1, <1>2, <1>3, <1>4 DEF DeleteStep

\* What a step of the reconciler leaves of the items.
LEMMA TypedItem ==
  ASSUME Typed, NEW p \in Run \X Slot, NEW step \in {"idle"} \cup ItemSteps, Recto(p, step),
         rows' \in Rows, objects' \in [Upload -> Content \cup {Damaged, None}],
         item' = item \/ \E new \in Listed : item' = [item EXCEPT ![p] = new],
         step # "idle" => item'[p] # None,
         step \in EraseSteps => item'[p].status \in Deleting
  PROVE  Typed'
<1>1. TypeOK'
  BY DEF Typed, TypeOK, Recto, Rows
<1>2. /\ \A q \in Run \X Slot : rec'[q] = IF q = p THEN step ELSE rec[q]
      /\ \A q \in Run \X Slot : q # p => item'[q] = item[q]
  BY DEF Typed, TypeOK, Recto
<1>3. HandlersOK'
  BY <1>2 DEF Typed, HandlersOK, Recto, Active, Working
<1> QED  BY <1>1, <1>3 DEF Typed

LEMMA TypedListing ==
  ASSUME Typed, NEW c \in Run, NEW s \in Slot, ListItem(c, s)
  PROVE  Typed'
<1> DEFINE p == <<c, s>>
           new == [id |-> rows[s].id, key |-> rows[s].key, status |-> rows[s].status, found |-> None]
<1>1. rows[s] \in Row /\ p \in Run \X Slot
  BY DEF ListItem, Typed, TypeOK
<1>2. new \in Listed
  BY <1>1, RowFields DEF Listed
<1>3. new # None /\ new.status = rows[s].status
  BY <1>2, NoneAssumption
<1>4. item' = [item EXCEPT ![p] = new] /\ item'[p] = new
  BY <1>1 DEF ListItem, Typed, TypeOK
<1>5. PICK step \in {"headPending", "headFailed", "erase"} :
        /\ Recto(p, step)
        /\ step = "erase" => rows[s].status \in Deleting
  BY DEF ListItem, Deleting
<1>6. rows' \in Rows /\ objects' \in [Upload -> Content \cup {Damaged, None}]
  BY DEF ListItem, Typed, TypeOK, Rows
<1> HIDE DEF p, new
<1> QED  BY <1>1, <1>2, <1>3, <1>4, <1>5, <1>6, TypedItem DEF ItemSteps, EraseSteps

LEMMA TypedItems ==
  ASSUME Typed, NEW p \in Run \X Slot, ItemStep(p)
  PROVE  Typed'
<1>0. TypeOK /\ rows \in Rows /\ objects \in [Upload -> Content \cup {Damaged, None}]
  BY DEF Typed, TypeOK, Rows
<1>00. item[p] \in Listed \cup {None}
  BY <1>0 DEF TypeOK
<1>01. /\ rec[p] # "idle" => item[p] # None
       /\ rec[p] \in EraseSteps => item[p].status \in Deleting
  BY DEF Typed, HandlersOK
<1> USE DEF ItemSteps, EraseSteps
<1>1. CASE Head(p)
  <2>1. UNCHANGED <<rows, objects, item>>
    BY <1>1 DEF Head, Skip
  <2>2. PICK step \in {"inspect", "markFailed", "idle", "drop"} : Recto(p, step)
    BY <1>1 DEF Head, Skip
  <2> QED  BY <1>0, <1>01, <1>1, <2>1, <2>2, TypedItem DEF Head
<1>2. CASE Inspect(p)
  <2>1. UNCHANGED <<rows, objects>>
    BY <1>2 DEF Inspect, Skip
  <2>2. CASE Recto(p, "promote") /\ item' = [item EXCEPT ![p].found = objects[item[p].key]]
             /\ objects[item[p].key] \in Content
    <3> DEFINE new == [item[p] EXCEPT !.found = objects[item[p].key]]
    <3>1. item[p] \in Listed
      BY <1>00, <1>01, <1>2 DEF Inspect
    <3>2. new \in Listed /\ new.status = item[p].status
      BY <2>2, <3>1 DEF Listed
    <3>3. item' = [item EXCEPT ![p] = new] /\ item'[p] = new
      BY <2>2, <1>0 DEF TypeOK
    <3>4. new # None
      BY <3>2, NoneAssumption
    <3> HIDE DEF new
    <3> QED  BY <1>0, <2>1, <2>2, <3>2, <3>3, <3>4, TypedItem
  <2>3. CASE UNCHANGED item /\ (Recto(p, "discard") \/ Recto(p, "idle"))
    BY <1>0, <1>01, <1>2, <2>1, <2>3, TypedItem DEF Inspect
  <2> QED  BY <1>2, <2>2, <2>3 DEF Inspect, Skip
<1>3. CASE Promote(p)
  <2>1. rows' \in Rows
    <3>1. rec[p] # "idle"
      BY <1>3 DEF Promote
    <3>2. item[p].found \in Content \cup {None}
      BY <3>1, <1>00, <1>01 DEF Listed
    <3> QED  BY <1>0, <1>3, <3>2, AvailableEffect DEF Promote
  <2> QED  BY <1>0, <1>3, <2>1, TypedItem DEF Promote
<1>4. CASE Discard(p)
  <2>1. objects' \in [Upload -> Content \cup {Damaged, None}]
    BY <1>0, <1>4 DEF Discard, Skip
  <2> QED  BY <1>0, <1>01, <1>4, <2>1, TypedItem DEF Discard, Skip
<1>5. CASE MarkFailed(p)
  <2>1. rows' \in Rows
    BY <1>0, <1>5, UpdateEffect DEF MarkFailed, Status
  <2> QED  BY <1>0, <1>5, <2>1, TypedItem DEF MarkFailed
<1>6. CASE DropFailed(p)
  <2>1. rows' \in Rows
    BY <1>0, <1>6, DeleteEffect DEF DropFailed
  <2> QED  BY <1>0, <1>6, <2>1, TypedItem DEF DropFailed
<1>7. CASE RetryErase(p)
  <2>1. objects' \in [Upload -> Content \cup {Damaged, None}]
    BY <1>0, <1>7 DEF RetryErase
  <2> QED  BY <1>0, <1>01, <1>7, <2>1, TypedItem DEF RetryErase
<1>8. CASE RetryPurge(p)
  <2>1. rows' \in Rows
    BY <1>0, <1>8, DeleteEffect DEF RetryPurge
  <2> QED  BY <1>0, <1>01, <1>8, <2>1, TypedItem DEF RetryPurge
<1>9. CASE RetryMark(p)
  <2>1. rows' \in Rows
    BY <1>0, <1>9, UpdateEffect DEF RetryMark, Status
  <2> QED  BY <1>0, <1>9, <2>1, TypedItem DEF RetryMark
<1> QED  BY <1>1, <1>2, <1>3, <1>4, <1>5, <1>6, <1>7, <1>8, <1>9 DEF ItemStep

LEMMA TypedReserve ==
  ASSUME Typed, NEW u \in Upload, ReserveStep(u)
  PROVE  Typed'
<1> USE DEF Typed, HandlersOK, Active, Working, UploadSteps, DeleteSteps, EraseSteps
<1>1. ASSUME NEW s \in Slot, NEW b \in Content \cup {Damaged}, Reserved(u, s, b)  PROVE Typed'
  <2>1. rows' \in Rows /\ rowId' \in [Upload -> Upload \cup {None}]
    BY <1>1 DEF Reserved, TypeOK, Rows
  <2>2. /\ body' \in [Upload -> Content \cup {Damaged, None}]
        /\ up' \in [Upload -> {"idle", "reserving"} \cup UploadSteps \cup UploadEnds]
        /\ asked' \in [Upload -> Asked \cup {None}] /\ current' \subseteq Upload
    BY <1>1 DEF Reserved, TypeOK
  <2>3. TypeOK'
    BY <1>1, <2>1, <2>2 DEF Reserved, TypeOK, Rows
  <2>4. /\ rowId'[u] \in Upload
        /\ \A v \in Upload \ {u} : /\ up'[v] = up[v] /\ rowId'[v] = rowId[v] /\ body'[v] = body[v]
                                   /\ asked'[v] = asked[v]
        /\ up'[u] = "sending"
    BY <1>1 DEF Reserved, TypeOK
  <2> QED  BY <1>1, <2>3, <2>4 DEF Reserved
<1>2. ASSUME NEW next \in Waited, Waits(u, next)  PROVE Typed'
  <2>1. /\ up' \in [Upload -> {"idle", "reserving"} \cup UploadSteps \cup UploadEnds]
        /\ asked' \in [Upload -> Asked \cup {None}] /\ current' \subseteq Upload
    BY <1>2 DEF Waits, Waited, TypeOK, UploadEnds
  <2>2. TypeOK'
    BY <1>2, <2>1 DEF Waits, TypeOK
  <2>3. /\ \A v \in Upload \ {u} : up'[v] = up[v] /\ asked'[v] = asked[v]
        /\ up'[u] \in Waited /\ (up'[u] = "reserving" => asked'[u] # None)
    BY <1>2, AskedFields DEF Waits, TypeOK
  <2> QED  BY <1>2, <2>2, <2>3 DEF Waits, Waited
<1>3. Typed
  OBVIOUS
<1> QED  BY <1>1, <1>2, <1>3, ReserveEffect

LEMMA TypedEnvironment ==
  ASSUME Typed, \/ \E s \in Slot : Age(s)
                \/ Crash
                \/ \E u \in Upload : LatePut(u) \/ Bypass(u)
  PROVE  Typed'
<1> USE DEF Typed, HandlersOK, Active, Working, UploadSteps, DeleteSteps, EraseSteps
<1>0. TypeOK /\ rows \in Rows
  BY DEF TypeOK, Rows
<1>1. ASSUME NEW s \in Slot, Age(s)  PROVE Typed'
  <2>1. rows' \in Rows
    BY <1>0, <1>1, AgeEffect
  <2> QED  BY <1>1, <2>1 DEF Age, TypeOK, Rows
<1>2. CASE Crash
  <2>1. ASSUME NEW u \in Upload, Upto(u, "crashed"), UNCHANGED <<rows, objects>>  PROVE Typed'
    BY <2>1 DEF Upto, TypeOK, UploadEnds
  <2>2. ASSUME NEW d \in Deletion, Delto(d, "done"), UNCHANGED <<rows, objects, target>>  PROVE Typed'
    BY <2>2 DEF Delto, TypeOK
  <2>3. ASSUME NEW p \in Run \X Slot, Skip(p)  PROVE Typed'
    BY <2>3 DEF Skip, Recto, TypeOK
  <2> QED  BY <1>2, <2>1, <2>2, <2>3 DEF Crash
<1>3. ASSUME NEW u \in Upload, LatePut(u) \/ Bypass(u)  PROVE Typed'
  BY <1>3 DEF LatePut, Bypass, TypeOK
<1> QED  BY <1>1, <1>2, <1>3

LEMMA TypedStep == Typed /\ [Next]_vars => Typed'
<1> SUFFICES ASSUME Typed, [Next]_vars  PROVE Typed'
  OBVIOUS
<1>1. CASE Next
  BY <1>1, TypedReserve, TypedUploads, TypedDeletions, TypedListing, TypedItems, TypedEnvironment
  DEF Next
<1>2. CASE UNCHANGED vars
  BY <1>2 DEF vars, Typed, TypeOK, HandlersOK, Active, Working
<1> QED  BY <1>1, <1>2

\* The variables keep their types, whatever goes wrong.
THEOREM TypeCorrect == Spec => []TypeOK
<1>1. Typed => TypeOK
  BY DEF Typed
<1> QED  BY <1>1, TypedInit, TypedStep, PTL DEF Spec

-----------------------------------------------------------------------------
(* The life of a row, and what follows from it whatever goes wrong.        *)

Transitions ==
  {<<"PENDING", "AVAILABLE">>, <<"PENDING", "FAILED">>,
   <<"AVAILABLE", "DELETING">>, <<"DELETE_FAILED", "DELETING">>,
   <<"DELETING", "DELETE_FAILED">>, <<"DELETE_FAILED", "DELETE_FAILED">>}

\* A row stays, is removed after a failed upload or a deletion, only grows older, or moves on.
Moves(s) ==
  \/ rows'[s] = rows[s]
  \/ rows[s] # None /\ rows'[s] = None /\ rows[s].status \in {"FAILED"} \cup Deleting
  \/ Turned(s, rows[s].status, rows[s].content)
  \/ \E next \in Status : /\ Turned(s, next, rows'[s].content)
                          /\ <<rows[s].status, next>> \in Transitions
                          /\ next # "AVAILABLE" => rows'[s].content = rows[s].content

LEMMA UpdateMoves ==
  ASSUME Typed, NEW id, NEW st, NEW next \in Status, <<st, next>> \in Transitions,
         UpdateWhere(id, st, next)
  PROVE  \A s \in Slot : Moves(s)
<1>1. rows \in Rows
  BY DEF Typed, TypeOK, Rows
<1> QED  BY <1>1, UpdateEffect DEF Moves, Matches, Turned

LEMMA AvailableMoves ==
  ASSUME Typed, NEW id, NEW bytes \in Content \cup {None}, MakeAvailable(id, bytes)
  PROVE  \A s \in Slot : Moves(s)
<1>1. rows \in Rows
  BY DEF Typed, TypeOK, Rows
<1> QED  BY <1>1, AvailableEffect DEF Moves, Matches, Turned, Transitions, Status

LEMMA DeleteMoves ==
  ASSUME Typed, NEW id, NEW st \in {"FAILED"} \cup Deleting, DeleteWhere(id, st)
  PROVE  \A s \in Slot : Moves(s)
BY DEF DeleteWhere, Moves, Matches

LEMMA UploadMoves ==
  ASSUME Typed, NEW u \in Upload, UploadStep(u)
  PROVE  \A s \in Slot : Moves(s)
<1>0. UNCHANGED rows => \A s \in Slot : Moves(s)
  BY DEF Moves
<1>1. CASE Finalize(u)
  BY <1>0, <1>1, AvailableMoves DEF Finalize, TypeOK, Typed, HandlersOK
<1>2. CASE Release(u)
  BY <1>0, <1>2, UpdateMoves DEF Release, Transitions, Status
<1>3. CASE Send(u) \/ RemoveObject(u) \/ VerifyRemoved(u)
  BY <1>0, <1>3 DEF Send, RemoveObject, VerifyRemoved
<1> QED  BY <1>1, <1>2, <1>3 DEF UploadStep

LEMMA DeletionMoves ==
  ASSUME Typed, NEW d \in Deletion, (\E s \in Slot : BeginDelete(d, s)) \/ DeleteStep(d)
  PROVE  \A t \in Slot : Moves(t)
<1>0. rows \in Rows /\ (UNCHANGED rows => \A s \in Slot : Moves(s))
  BY DEF Typed, TypeOK, Rows, Moves
<1>1. ASSUME NEW s \in Slot, BeginDelete(d, s)
      PROVE  \A t \in Slot : Moves(t)
  <2>1. <<rows[s].status, "DELETING">> \in Transitions /\ "DELETING" \in Status
    BY <1>0, <1>1, BeginEffect DEF Transitions, Status
  <2>2. Moves(s)
    BY <1>0, <1>1, <2>1, BeginEffect DEF Moves, Turned
  <2> QED  BY <1>0, <1>1, <2>2, BeginEffect DEF Moves
<1>2. CASE DeleteStep(d)
  BY <1>0, <1>2, DeleteMoves, UpdateMoves
  DEF DeleteStep, EraseObject, PurgeRow, MarkDeleteFailed, Deleting, Transitions, Status
<1> QED  BY <1>1, <1>2

LEMMA ItemMoves ==
  ASSUME Typed, NEW p \in Run \X Slot, ItemStep(p)
  PROVE  \A s \in Slot : Moves(s)
<1>0. /\ UNCHANGED rows => \A s \in Slot : Moves(s)
      /\ rec[p] \in EraseSteps => item[p].status \in Deleting
      /\ rec[p] # "idle" => item[p].found \in Content \cup {None}
  BY DEF Typed, HandlersOK, TypeOK, Listed, Moves
<1>1. CASE Promote(p)
  BY <1>0, <1>1, AvailableMoves DEF Promote
<1>2. CASE MarkFailed(p)
  BY <1>0, <1>2, UpdateMoves DEF MarkFailed, Transitions, Status
<1>3. CASE DropFailed(p)
  BY <1>0, <1>3, DeleteMoves DEF DropFailed
<1>4. CASE RetryPurge(p)
  BY <1>0, <1>4, DeleteMoves DEF RetryPurge, EraseSteps
<1>5. CASE RetryMark(p)
  <2>1. <<item[p].status, "DELETE_FAILED">> \in Transitions /\ "DELETE_FAILED" \in Status
    BY <1>0, <1>5 DEF RetryMark, EraseSteps, Deleting, Transitions, Status
  <2> QED  BY <1>0, <1>5, <2>1, UpdateMoves DEF RetryMark
<1>6. CASE Head(p) \/ Inspect(p) \/ Discard(p) \/ RetryErase(p)
  BY <1>0, <1>6 DEF Head, Inspect, Discard, RetryErase, Skip
<1> QED  BY <1>1, <1>2, <1>3, <1>4, <1>5, <1>6 DEF ItemStep

LEMMA AgeMoves ==
  ASSUME Typed, NEW s \in Slot, Age(s)
  PROVE  \A t \in Slot : Moves(t)
<1>1. rows \in Rows
  BY DEF Typed, TypeOK, Rows
<1> QED  BY <1>1, AgeEffect DEF Moves

\* Every step but a reservation's only moves rows on.
LEMMA OtherMoves ==
  ASSUME Typed, Next, ~\E u \in Upload : ReserveStep(u)
  PROVE  \A s \in Slot : Moves(s)
<1>0. UNCHANGED rows => \A s \in Slot : Moves(s)
  BY DEF Moves
<1>1. CASE \/ \E c \in Run, s \in Slot : ListItem(c, s)
           \/ Crash
           \/ \E u \in Upload : LatePut(u) \/ Bypass(u)
  BY <1>0, <1>1 DEF ListItem, Crash, Skip, LatePut, Bypass
<1> QED  BY <1>1, UploadMoves, DeletionMoves, ItemMoves, AgeMoves DEF Next

LEMMA RowStep ==
  ASSUME Typed, Next
  PROVE  \/ \E u \in Upload, s \in Slot, b \in Content \cup {Damaged} : Reserved(u, s, b)
         \/ \A s \in Slot : Moves(s)
<1>1. ASSUME NEW u \in Upload, ReserveStep(u)
      PROVE  \/ \E s \in Slot, b \in Content \cup {Damaged} : Reserved(u, s, b)
             \/ \A t \in Slot : Moves(t)
  BY <1>1, ReserveEffect DEF Waits, Moves
<1> QED  BY <1>1, OtherMoves

\* DeletionIsFinal for any number of requests and runs, and under every fault.
THEOREM DeletionsAreFinal == Spec => DeletionIsFinal
<1> DEFINE Final == \A s \in Slot : Is(s, "DELETING") \/ Is(s, "DELETE_FAILED") =>
                      \/ rows'[s] = None
                      \/ /\ rows'[s].id = rows[s].id /\ rows'[s].key = rows[s].key
                         /\ rows'[s].status \in {"DELETING", "DELETE_FAILED"}
<1>1. ASSUME Typed, [Next]_vars  PROVE Final
  <2>1. CASE UNCHANGED rows
    BY <2>1 DEF Is
  <2>2. ASSUME NEW u \in Upload, NEW s \in Slot, NEW b \in Content \cup {Damaged}, Reserved(u, s, b)
        PROVE  Final
    <3>1. \A t \in Slot \ {s} : rows'[t] = rows[t]
      BY <1>1, <2>2 DEF Reserved, Typed, TypeOK
    <3>2. ~Is(s, "DELETING") /\ ~Is(s, "DELETE_FAILED")
      BY <2>2 DEF Reserved, Reservable, Is
    <3> QED  BY <3>1, <3>2 DEF Is
  <2>3. CASE \A s \in Slot : Moves(s)
    BY <2>3 DEF Moves, Turned, Transitions, Is
  <2> QED  BY <1>1, <2>1, <2>2, <2>3, RowStep DEF vars
<1> QED  BY <1>1, TypedInit, TypedStep, PTL DEF Spec, DeletionIsFinal

LEMMA CountsFinite ==
  ASSUME NEW S \in SUBSET Slot
  PROVE  IsFiniteSet(S) /\ Cardinality(S) \in Nat
BY SlotAssumption, FS_Subset, FS_CardinalityType

\* The bytes a reservation of s declares.
LEMMA BytesOfOne ==
  ASSUME NEW s \in Slot
  PROVE  IsFiniteSet({s} \X (1..Size[s])) /\ Cardinality({s} \X (1..Size[s])) = Size[s]
<1>1. Size[s] \in Nat
  BY SizeAssumption
<1>2. IsFiniteSet(1..Size[s]) /\ Cardinality(1..Size[s]) = Size[s]
  BY <1>1, FS_Interval
<1>3. IsFiniteSet({s}) /\ Cardinality({s}) = 1
  BY FS_Singleton
<1>4. /\ IsFiniteSet({s} \X (1..Size[s]))
      /\ Cardinality({s} \X (1..Size[s])) = Cardinality({s}) * Cardinality(1..Size[s])
  BY <1>2, <1>3, FS_Product
<1> QED  BY <1>1, <1>2, <1>3, <1>4

LEMMA BytesFinite ==
  ASSUME NEW S \in SUBSET Slot
  PROVE  IsFiniteSet(Bytes(S)) /\ Cardinality(Bytes(S)) \in Nat
<1> DEFINE T == {{s} \X (1..Size[s]) : s \in S}
           f == [s \in S |-> {s} \X (1..Size[s])]
<1>1. f \in Surjection(S, T)
  BY DEF Surjection
<1>2. IsFiniteSet(T)
  <2> HIDE DEF T, f
  <2> QED  BY <1>1, CountsFinite, FS_Surjection
<1>3. \A X \in T : IsFiniteSet(X)
  BY BytesOfOne
<1>4. IsFiniteSet(UNION T)
  <2> HIDE DEF T
  <2> QED  BY <1>2, <1>3, FS_UNION
<1> QED  BY <1>4, FS_CardinalityType DEF Bytes

LEMMA BytesFewer ==
  ASSUME NEW S \in SUBSET Slot, NEW T \in SUBSET S
  PROVE  Cardinality(Bytes(T)) <= Cardinality(Bytes(S))
<1>1. Bytes(T) \in SUBSET Bytes(S)
  BY DEF Bytes
<1> QED  BY <1>1, BytesFinite, FS_Subset

LEMMA BytesMore ==
  ASSUME NEW S \in SUBSET Slot, NEW s \in Slot, NEW T \in SUBSET (S \cup {s})
  PROVE  Cardinality(Bytes(T)) <= Cardinality(Bytes(S)) + Size[s]
<1> DEFINE A == Bytes(S)
           B == {s} \X (1..Size[s])
<1>1. Bytes(S \cup {s}) = A \cup B
  BY DEF Bytes
<1>2. IsFiniteSet(A) /\ Cardinality(A) \in Nat /\ IsFiniteSet(B) /\ Cardinality(B) = Size[s]
  BY BytesFinite, BytesOfOne
<1>3. S \cup {s} \in SUBSET Slot
  OBVIOUS
<1>4. Cardinality(Bytes(T)) <= Cardinality(Bytes(S \cup {s}))
  BY <1>3, BytesFewer
<1>5. Cardinality(Bytes(T)) \in Nat /\ Size[s] \in Nat
  BY <1>3, BytesFinite, SizeAssumption
<1> HIDE DEF A, B
<1>6. Cardinality(A \cup B) = Cardinality(A) + Cardinality(B) - Cardinality(A \cap B)
  BY <1>2, FS_Union
<1>7. Cardinality(A \cap B) \in Nat
  <2>1. A \cap B \in SUBSET A
    OBVIOUS
  <2> QED  BY <1>2, <2>1, FS_Subset, FS_CardinalityType
<1>8. Cardinality(A \cup B) <= Cardinality(A) + Size[s] /\ Cardinality(A \cup B) \in Nat
  BY <1>2, <1>5, <1>6, <1>7, FS_Union, FS_CardinalityType
<1>9. Cardinality(Bytes(T)) <= Cardinality(A \cup B)
  BY <1>1, <1>4
<1>10. Cardinality(Bytes(T)) <= Cardinality(A) + Size[s]
  BY <1>2, <1>5, <1>8, <1>9
<1> QED  BY <1>10 DEF A

\* What the limits count are numbers.
Countable ==
  /\ With(ObjectBearing) \in SUBSET Slot /\ With({"PENDING"}) \in SUBSET Slot
  /\ \A s \in Slot : OnTask(s) \in SUBSET Slot /\ PendingBy(s) \in SUBSET Slot
  /\ Cardinality(With({"PENDING"})) \in Nat /\ Cardinality(Bytes(With(ObjectBearing))) \in Nat
  /\ \A s \in Slot : Cardinality(OnTask(s)) \in Nat /\ Cardinality(PendingBy(s)) \in Nat

LEMMA CountsTyped == Countable /\ Countable'
<1>1. /\ With(ObjectBearing) \in SUBSET Slot /\ With({"PENDING"}) \in SUBSET Slot
      /\ \A s \in Slot : OnTask(s) \in SUBSET Slot /\ PendingBy(s) \in SUBSET Slot
  BY DEF With, OnTask, PendingBy
<1>2. /\ With(ObjectBearing)' \in SUBSET Slot /\ With({"PENDING"})' \in SUBSET Slot
      /\ \A s \in Slot : OnTask(s)' \in SUBSET Slot /\ PendingBy(s)' \in SUBSET Slot
  BY DEF With, OnTask, PendingBy
<1>3. Bytes(With(ObjectBearing))' = Bytes(With(ObjectBearing)')
  BY DEF Bytes
<1> QED  BY <1>1, <1>2, <1>3, CountsFinite, BytesFinite DEF Countable

\* Only a reservation adds to what the limits count.
LEMMA CountsKept ==
  ASSUME \A s \in Slot : Moves(s)
  PROVE  /\ \A s \in Slot : /\ Cardinality(OnTask(s)') <= Cardinality(OnTask(s))
                            /\ Cardinality(PendingBy(s)') <= Cardinality(PendingBy(s))
         /\ Cardinality(With({"PENDING"})') <= Cardinality(With({"PENDING"}))
         /\ Cardinality(Bytes(With(ObjectBearing))') <= Cardinality(Bytes(With(ObjectBearing)))
<1>1. With(ObjectBearing)' \subseteq With(ObjectBearing) /\ With({"PENDING"})' \subseteq With({"PENDING"})
  BY DEF With, Moves, Turned, Transitions, ObjectBearing, Status
<1>2. \A s \in Slot : OnTask(s)' \subseteq OnTask(s) /\ PendingBy(s)' \subseteq PendingBy(s)
  BY <1>1 DEF OnTask, PendingBy
<1>3. ASSUME NEW s \in Slot
      PROVE  /\ Cardinality(OnTask(s)') <= Cardinality(OnTask(s))
             /\ Cardinality(PendingBy(s)') <= Cardinality(PendingBy(s))
  BY <1>2, CountsTyped, CountsFinite, FS_Subset DEF Countable
<1>4. Cardinality(With({"PENDING"})') <= Cardinality(With({"PENDING"}))
  BY <1>1, CountsTyped, CountsFinite, FS_Subset DEF Countable
<1>5. Bytes(With(ObjectBearing))' = Bytes(With(ObjectBearing)')
  BY DEF Bytes
<1> QED  BY <1>1, <1>3, <1>4, <1>5, CountsTyped, BytesFewer DEF Countable

\* The open reservations that may still commit have room for what they ask.
OpenHasRoom == \A u \in current : /\ up[u] = "reserving" /\ asked[u] \in Asked
                                  /\ QuotaLeft(asked[u].slot)

LEMMA RoomKept ==
  ASSUME \A s \in Slot : Moves(s), NEW s \in Slot, QuotaLeft(s)
  PROVE  QuotaLeft(s)'
BY CountsKept, CountsTyped, LimitsAssumption, SizeAssumption DEF Countable, QuotaLeft

LEMMA LimitsKept ==
  ASSUME \A s \in Slot : Moves(s), QuotaRespected
  PROVE  QuotaRespected'
BY CountsKept, CountsTyped, LimitsAssumption DEF Countable, QuotaRespected

\* A request whose reservation is open takes no other step.
LEMMA OpenWaits ==
  ASSUME Typed, Next, ~\E u \in Upload : ReserveStep(u)
  PROVE  UNCHANGED <<asked, current>> /\ \A u \in Upload : up[u] = "reserving" => up'[u] = "reserving"
<1>1. ASSUME NEW u \in Upload, UploadStep(u)
      PROVE  UNCHANGED <<asked, current>> /\ \A v \in Upload : up[v] = "reserving" => up'[v] = "reserving"
  BY <1>1 DEF UploadStep, Send, Finalize, RemoveObject, VerifyRemoved, Release, Upto, Typed, TypeOK
<1>2. ASSUME NEW d \in Deletion, DeleteStep(d) \/ \E s \in Slot : BeginDelete(d, s)
      PROVE  UNCHANGED <<asked, current, up>>
  BY <1>2 DEF DeleteStep, EraseObject, PurgeRow, MarkDeleteFailed, BeginDelete, Delto
<1>3. ASSUME NEW c \in Run, NEW s \in Slot, ListItem(c, s)
      PROVE  UNCHANGED <<asked, current, up>>
  BY <1>3 DEF ListItem, Recto
<1>4. ASSUME NEW p \in Run \X Slot, ItemStep(p)
      PROVE  UNCHANGED <<asked, current, up>>
  BY <1>4 DEF ItemStep, Head, Inspect, Promote, Discard, MarkFailed, DropFailed, RetryErase, RetryPurge,
              RetryMark, Skip, Recto
<1>5. CASE Crash
  BY <1>5 DEF Crash, Active, UploadSteps, Upto, Delto, Skip, Recto, Typed, TypeOK
<1> QED  BY <1>1, <1>2, <1>3, <1>4, <1>5 DEF Next, Age, LatePut, Bypass

\* A row filled at a slot that had room leaves every count within its limit.
LEMMA ReservedFits ==
  ASSUME Typed, QuotaRespected, OpenHasRoom,
         NEW u \in Upload, NEW s \in Slot, NEW b \in Content \cup {Damaged}, Reserved(u, s, b)
  PROVE  QuotaRespected'
<1>1. QuotaLeft(s) /\ \A t \in Slot \ {s} : rows'[t] = rows[t]
  BY DEF Reserved, OpenHasRoom, Typed, TypeOK
<1>2. /\ With(ObjectBearing)' \subseteq With(ObjectBearing) \cup {s}
      /\ With({"PENDING"})' \subseteq With({"PENDING"}) \cup {s}
  BY <1>1 DEF With
<1>3. ASSUME NEW S \in SUBSET Slot, NEW T \in SUBSET (S \cup {s})
      PROVE  Cardinality(T) <= Cardinality(S) + 1
  <2>1. IsFiniteSet(S) /\ IsFiniteSet(S \cup {s}) /\ Cardinality(S) \in Nat
    BY <1>3, CountsFinite, FS_AddElement
  <2>2. Cardinality(T) <= Cardinality(S \cup {s}) /\ Cardinality(T) \in Nat
    BY <2>1, FS_Subset, FS_CardinalityType
  <2>3. Cardinality(S \cup {s}) <= Cardinality(S) + 1
    BY <2>1, FS_AddElement
  <2>4. Cardinality(S \cup {s}) \in Nat
    BY <2>1, FS_CardinalityType
  <2> QED  BY <2>1, <2>2, <2>3, <2>4
<1>4. ASSUME NEW t \in Slot  PROVE Cardinality(OnTask(t)') <= TaskLimit
  <2>1. CASE TaskOf[t] = TaskOf[s]
    <3>1. OnTask(t)' \in SUBSET (OnTask(s) \cup {s})
      BY <1>2, <2>1 DEF OnTask
    <3>2. Cardinality(OnTask(t)') <= Cardinality(OnTask(s)) + 1
      BY <1>3, <3>1, CountsTyped DEF Countable
    <3> QED  BY <1>1, <3>2, CountsTyped, LimitsAssumption DEF Countable, QuotaLeft
  <2>2. CASE TaskOf[t] # TaskOf[s]
    <3>1. OnTask(t)' \in SUBSET OnTask(t)
      BY <1>2, <2>2 DEF OnTask
    <3>2. Cardinality(OnTask(t)') <= Cardinality(OnTask(t))
      BY <3>1, CountsTyped, CountsFinite, FS_Subset DEF Countable
    <3> QED  BY <3>2, CountsTyped, LimitsAssumption DEF Countable, QuotaRespected
  <2> QED  BY <2>1, <2>2
<1>5. ASSUME NEW t \in Slot  PROVE Cardinality(PendingBy(t)') <= PendingLimit
  <2>1. CASE CreatorOf[t] = CreatorOf[s]
    <3>1. PendingBy(t)' \in SUBSET (PendingBy(s) \cup {s})
      BY <1>2, <2>1 DEF PendingBy
    <3>2. Cardinality(PendingBy(t)') <= Cardinality(PendingBy(s)) + 1
      BY <1>3, <3>1, CountsTyped DEF Countable
    <3> QED  BY <1>1, <3>2, CountsTyped, LimitsAssumption DEF Countable, QuotaLeft
  <2>2. CASE CreatorOf[t] # CreatorOf[s]
    <3>1. PendingBy(t)' \in SUBSET PendingBy(t)
      BY <1>2, <2>2 DEF PendingBy
    <3>2. Cardinality(PendingBy(t)') <= Cardinality(PendingBy(t))
      BY <3>1, CountsTyped, CountsFinite, FS_Subset DEF Countable
    <3> QED  BY <3>2, CountsTyped, LimitsAssumption DEF Countable, QuotaRespected
  <2> QED  BY <2>1, <2>2
<1>6. Cardinality(With({"PENDING"})') <= WorkspacePendingLimit
  <2>1. Cardinality(With({"PENDING"})') <= Cardinality(With({"PENDING"})) + 1
    BY <1>2, <1>3, CountsTyped DEF Countable
  <2> QED  BY <1>1, <2>1, CountsTyped, LimitsAssumption DEF Countable, QuotaLeft
<1>7. Cardinality(Bytes(With(ObjectBearing))') <= WorkspaceBytes
  <2>1. Bytes(With(ObjectBearing))' = Bytes(With(ObjectBearing)')
    BY DEF Bytes
  <2>2. Cardinality(Bytes(With(ObjectBearing))') <= Cardinality(Bytes(With(ObjectBearing))) + Size[s]
    BY <1>2, <2>1, CountsTyped, BytesMore DEF Countable
  <2> QED  BY <1>1, <2>2, CountsTyped, LimitsAssumption, SizeAssumption DEF Countable, QuotaLeft
<1> QED  BY <1>4, <1>5, <1>6, <1>7 DEF QuotaRespected

\* QuotaRespected: what a reservation's snapshot allowed holds when it commits, and in every later
\* state, however many reservations overlap.
THEOREM QuotasAreRespected == Spec => []QuotaRespected
<1> DEFINE QInv == QuotaRespected /\ OpenHasRoom
<1>1. Init => QInv
  <2> SUFFICES ASSUME Init  PROVE QInv
    OBVIOUS
  <2>1. With(ObjectBearing) = {} /\ With({"PENDING"}) = {}
    BY DEF Init, With
  <2>2. /\ \A s \in Slot : OnTask(s) = {} /\ PendingBy(s) = {}
        /\ Bytes(With(ObjectBearing)) = {}
    BY <2>1 DEF OnTask, PendingBy, Bytes
  <2>3. QuotaRespected
    BY <2>1, <2>2, FS_EmptySet, LimitsAssumption DEF QuotaRespected
  <2>4. OpenHasRoom
    BY DEF Init, OpenHasRoom
  <2> QED  BY <2>3, <2>4
<1>2. ASSUME Typed, QInv, [Next]_vars  PROVE QInv'
  <2>1. ASSUME \A s \in Slot : Moves(s),
               \A v \in current' : v \in current /\ up'[v] = up[v] /\ asked'[v] = asked[v]
        PROVE  QInv'
    BY <1>2, <2>1, LimitsKept, RoomKept, AskedFields DEF OpenHasRoom
  <2>2. CASE UNCHANGED vars
    BY <2>1, <2>2 DEF vars, Moves
  <2>3. ASSUME NEW u \in Upload, ReserveStep(u)  PROVE QInv'
    <3>1. ASSUME NEW s \in Slot, NEW b \in Content \cup {Damaged}, Reserved(u, s, b)  PROVE QInv'
      <4>1. QuotaRespected'
        BY <1>2, <3>1, ReservedFits
      <4> QED  BY <3>1, <4>1 DEF Reserved, OpenHasRoom
    <3>2. ASSUME NEW next \in Waited, Waits(u, next)  PROVE QInv'
      <4>0. \A s \in Slot : Moves(s)
        BY <3>2 DEF Waits, Moves
      <4>1. \A v \in Upload \ {u} : up'[v] = up[v] /\ asked'[v] = asked[v]
        BY <1>2, <3>2 DEF Waits, Typed, TypeOK
      <4>2. CASE next \in {"replayed", "conflict", "quota"}
        <5>1. current' = current \ {u} /\ current' \subseteq Upload
          BY <1>2, <3>2, <4>2 DEF Waits, Typed, TypeOK
        <5> QED  BY <2>1, <4>0, <4>1, <5>1
      <4>3. CASE next = "reserving"
        <5>1. PICK s \in Slot : /\ up'[u] = "reserving" /\ QuotaLeft(s)
                                /\ asked'[u] \in Asked /\ asked'[u].slot = s
          BY <1>2, <3>2, <4>3 DEF Waits, Typed, TypeOK
        <5>2. QuotaLeft(s)'
          BY <4>0, <5>1, RoomKept
        <5>3. \A v \in current' \ {u} : v \in current /\ up'[v] = up[v] /\ asked'[v] = asked[v]
          BY <1>2, <3>2, <4>1, <4>3 DEF Waits, Typed, TypeOK
        <5> QED  BY <1>2, <4>0, <5>1, <5>2, <5>3, LimitsKept, RoomKept, AskedFields DEF OpenHasRoom
      <4> QED  BY <3>2, <4>2, <4>3 DEF Waited
    <3> QED  BY <1>2, <2>3, <3>1, <3>2, ReserveEffect
  <2>4. CASE Next /\ ~\E u \in Upload : ReserveStep(u)
    <3>1. \A s \in Slot : Moves(s)
      BY <1>2, <2>4, OtherMoves
    <3> QED  BY <1>2, <2>1, <2>4, <3>1, OpenWaits DEF OpenHasRoom, Typed, TypeOK
  <2> QED  BY <1>2, <2>2, <2>3, <2>4
<1>3. QInv => QuotaRespected
  OBVIOUS
<1> QED  BY <1>1, <1>2, <1>3, TypedInit, TypedStep, PTL DEF Spec

-----------------------------------------------------------------------------
(* Who owns a row, and what one step leaves to the others.                 *)

LEMMA Owners ==
  ASSUME IInv
  PROVE  /\ \A u \in Upload, s \in Slot :
              Active(u) /\ rows[s] # None /\ (rows[s].id = rowId[u] \/ rows[s].key = u) =>
                Matches(s, rowId[u], "PENDING") /\ rows[s].key = u /\ ~rows[s].aged
         /\ \A d \in Deletion : Working(d) => ~Active(target[d].key)
         /\ \A c \in Run, s \in Slot : rec[<<c, s>>] \in PendingSteps \cup EraseSteps =>
              ~Active(item[<<c, s>>].key)
         /\ \A s, t \in Slot : rows[s] # None /\ rows[t] # None
                               /\ (rows[s].id = rows[t].id \/ rows[s].key = rows[t].key) => s = t
<1>1. \A s, t \in Slot : rows[s] # None /\ rows[t] # None
                         /\ (rows[s].id = rows[t].id \/ rows[s].key = rows[t].key) => s = t
  BY DEF IInv, UniqueOK, Refers
<1>2. \A u \in Upload, s \in Slot :
        Active(u) /\ rows[s] # None /\ (rows[s].id = rowId[u] \/ rows[s].key = u) =>
          Matches(s, rowId[u], "PENDING") /\ rows[s].key = u /\ ~rows[s].aged
  BY <1>1 DEF IInv, UploadOK, Matches
<1>3. ASSUME NEW d \in Deletion, Working(d), Active(target[d].key)  PROVE FALSE
  <2>1. target[d].key \in Upload
    BY <1>3 DEF IInv, Typed, TypeOK, HandlersOK, Target
  <2>2. PICK s \in Slot : rows[s] # None /\ rows[s].key = target[d].key /\ rows[s].status = "PENDING"
    BY <1>3, <2>1 DEF IInv, UploadOK, Matches
  <2> QED  BY <1>3, <2>2 DEF IInv, DeletionOK, BeingDeleted, Refers, Deleting
<1>4. ASSUME NEW c \in Run, NEW s \in Slot, rec[<<c, s>>] \in PendingSteps \cup EraseSteps,
             Active(item[<<c, s>>].key)
      PROVE  FALSE
  <2> DEFINE p == <<c, s>>
  <2>0. ItemOK(c, s) /\ p \in Run \X Slot
    BY DEF IInv
  <2>1. item[p].key \in Upload
    <3>1. rec[p] # "idle"
      BY <1>4 DEF PendingSteps, EraseSteps
    <3> QED  BY <3>1, <2>0 DEF IInv, Typed, TypeOK, HandlersOK, Listed
  <2>2. PICK t \in Slot : rows[t] # None /\ rows[t].key = item[p].key /\ rows[t].status = "PENDING"
                          /\ ~rows[t].aged
    BY <1>4, <2>1 DEF IInv, UploadOK, Matches
  <2>3. CASE rec[p] \in EraseSteps
    BY <2>0, <2>2, <2>3 DEF ItemOK, BeingDeleted, Refers, Deleting
  <2>4. CASE rec[p] \in PendingSteps
    BY <2>0, <2>2, <2>4, <1>1 DEF ItemOK, Matches
  <2> QED  BY <1>4, <2>3, <2>4
<1> QED  BY <1>1, <1>2, <1>3, <1>4

LEMMA FreshKept ==
  ASSUME FreshOK, rowId' = rowId, \A s \in Slot : Moves(s),
         \A v \in Upload : up'[v] \in Unreserved => up[v] \in Unreserved /\ objects'[v] = objects[v],
         \A d \in Deletion : target'[d] = target[d]
           \/ \E s \in Slot : rows[s] # None /\ target'[d].id = rows[s].id /\ target'[d].key = rows[s].key,
         \A p \in Run \X Slot : item'[p] = item[p]
           \/ (item[p] # None /\ item'[p].id = item[p].id /\ item'[p].key = item[p].key)
           \/ \E s \in Slot : rows[s] # None /\ item'[p].id = rows[s].id /\ item'[p].key = rows[s].key
  PROVE  FreshOK'
<1>1. \A s \in Slot : rows'[s] # None => rows[s] # None /\ rows'[s].id = rows[s].id
                                         /\ rows'[s].key = rows[s].key
  BY DEF Moves, Turned
<1> SUFFICES ASSUME NEW u \in Upload, up'[u] \in Unreserved
             PROVE  /\ objects'[u] = None
                    /\ \A s \in Slot : rows'[s] # None => rows'[s].id # u /\ rows'[s].key # u
                    /\ \A d \in Deletion : target'[d] # None => target'[d].id # u /\ target'[d].key # u
                    /\ \A p \in Run \X Slot : item'[p] # None => item'[p].id # u /\ item'[p].key # u
                    /\ \A v \in Upload : rowId'[v] # u
  BY DEF FreshOK
<1>2. /\ up[u] \in Unreserved /\ objects'[u] = None
      /\ \A s \in Slot : rows[s] # None => rows[s].id # u /\ rows[s].key # u
      /\ \A d \in Deletion : target[d] # None => target[d].id # u /\ target[d].key # u
      /\ \A p \in Run \X Slot : item[p] # None => item[p].id # u /\ item[p].key # u
      /\ \A v \in Upload : rowId[v] # u
  BY DEF FreshOK
<1>3. \A d \in Deletion : target'[d] # None => target'[d].id # u /\ target'[d].key # u
  BY <1>2
<1>4. \A p \in Run \X Slot : item'[p] # None => item'[p].id # u /\ item'[p].key # u
  BY <1>2
<1> QED  BY <1>1, <1>2, <1>3, <1>4

LEMMA UniqueKept ==
  ASSUME UniqueOK, \A s \in Slot : Moves(s)
  PROVE  UniqueOK'
<1>1. \A s \in Slot : rows'[s] # None => rows[s] # None /\ rows'[s].id = rows[s].id
                                         /\ rows'[s].key = rows[s].key
  BY DEF Moves, Turned
<1> QED  BY <1>1 DEF UniqueOK, Refers

LEMMA DeletedKept ==
  ASSUME NEW x, BeingDeleted(x), \A s \in Slot : Moves(s)
  PROVE  BeingDeleted(x)'
<1>1. ASSUME NEW s \in Slot, rows'[s] # None, rows'[s].id = x.id \/ rows'[s].key = x.key
      PROVE  rows'[s].id = x.id /\ rows'[s].key = x.key /\ rows'[s].status \in Deleting
  <2>1. rows[s] # None /\ rows'[s].id = rows[s].id /\ rows'[s].key = rows[s].key
    BY <1>1 DEF Moves, Turned
  <2>2. rows[s].status \in Deleting /\ rows[s].id = x.id /\ rows[s].key = x.key
    BY <1>1, <2>1 DEF BeingDeleted, Refers
  <2> QED  BY <1>1, <2>1, <2>2 DEF Moves, Turned, Transitions, Deleting
<1> QED  BY <1>1 DEF BeingDeleted, Refers

\* An object that only a row of no matter, or an upload's own row, may have changes.
LEMMA ObjectStep ==
  ASSUME IInv, NEW k \in Upload, rows' = rows,
         objects' \in [Upload -> Content \cup {Damaged, None}],
         \A v \in Upload \ {k} : objects'[v] = objects[v],
         \A s \in Slot : rows[s] # None /\ rows[s].key = k => ~Is(s, "AVAILABLE"),
         objects'[k] = None \/ \A s \in Slot : rows[s] # None /\ rows[s].key = k => ~Is(s, "FAILED")
  PROVE  \A s \in Slot : RowOK(s)'
<1>1. \A s \in Slot : rows[s] # None => rows[s].key \in Upload
  BY RowFields DEF IInv, Typed, TypeOK
<1> QED  BY <1>1 DEF IInv, RowOK, Is

\* The upload that steps keeps its row, and the other uploads keep theirs and their objects.
LEMMA UploadsKept ==
  ASSUME IInv, NEW U \in SUBSET Upload, rowId' = rowId, body' = body,
         \A v \in U : up'[v] = up[v] /\ objects'[v] = objects[v],
         \A s \in Slot : Moves(s),
         \A v \in U, s \in Slot : Active(v) /\ rows[s] # None /\ rows[s].key = v => rows'[s] = rows[s]
  PROVE  \A v \in U : UploadOK(v)'
<1> SUFFICES ASSUME NEW v \in U  PROVE UploadOK(v)'
  OBVIOUS
<1>0. UploadOK(v)
  BY DEF IInv
<1>1. Active(v)' <=> Active(v)
  BY DEF Active
<1>2. Active(v) => \E s \in Slot : /\ Matches(s, rowId[v], "PENDING")'
                                   /\ rows'[s].key = v /\ ~rows'[s].aged
  BY <1>0 DEF UploadOK, Matches
<1>3. ASSUME up[v] = "ok", NEW s \in Slot, rows'[s] # None, rows'[s].id = rowId[v]
      PROVE  /\ rows'[s].key = v
             /\ rows'[s].status \in {"AVAILABLE"} \cup Deleting
             /\ rows'[s].status = "AVAILABLE" => rows'[s].content = body[v]
  <2>1. rows[s] # None /\ rows'[s].id = rows[s].id /\ rows'[s].key = rows[s].key
    BY <1>3 DEF Moves, Turned
  <2>2. /\ rows[s].key = v /\ rows[s].status \in {"AVAILABLE"} \cup Deleting
        /\ rows[s].status = "AVAILABLE" => rows[s].content = body[v]
    BY <1>0, <1>3, <2>1 DEF UploadOK
  <2> QED  BY <1>3, <2>1, <2>2 DEF Moves, Turned, Transitions, Deleting
<1>4. UploadOK(v)' <=>
        /\ Active(v)' => \E s \in Slot : /\ Matches(s, rowId[v], "PENDING")'
                                         /\ rows'[s].key = v /\ ~rows'[s].aged
        /\ up'[v] = "sent" => objects'[v] = body[v]
        /\ up'[v] = "release" => objects'[v] = None
        /\ up'[v] = "ok" =>
             /\ rowId[v] \in Upload
             /\ \A s \in Slot : rows'[s] # None /\ rows'[s].id = rowId[v] =>
                  /\ rows'[s].key = v
                  /\ rows'[s].status \in {"AVAILABLE"} \cup Deleting
                  /\ rows'[s].status = "AVAILABLE" => rows'[s].content = body[v]
  BY DEF UploadOK, Matches
<1> QED  BY <1>0, <1>1, <1>2, <1>3, <1>4 DEF UploadOK

\* Deletions go on wherever objects are only removed, or are another's.
LEMMA DeletionsKept ==
  ASSUME IInv, NEW D \in SUBSET Deletion,
         \A d \in D : del'[d] = del[d] /\ target'[d] = target[d],
         \A s \in Slot : Moves(s),
         \A d \in D : Working(d) => objects'[target[d].key] \in {None, objects[target[d].key]}
  PROVE  \A d \in D : DeletionOK(d)'
<1> SUFFICES ASSUME NEW d \in D, Working(d)  PROVE DeletionOK(d)'
  BY DEF DeletionOK, Working
<1>1. BeingDeleted(target[d])'
  <2> DEFINE x == target[d]
  <2>1. BeingDeleted(x)
    BY DEF IInv, DeletionOK
  <2>2. \A y : BeingDeleted(y) => (\A s \in Slot : rows'[s] # None /\ (rows'[s].id = y.id \/ rows'[s].key = y.key)
                  => rows'[s].id = y.id /\ rows'[s].key = y.key /\ rows'[s].status \in Deleting)
    BY DeletedKept DEF BeingDeleted, Refers
  <2> QED  BY <2>1, <2>2 DEF BeingDeleted, Refers
<1> QED  BY <1>1 DEF IInv, DeletionOK, Working

\* So do the items of the reconciler, those listed as pending where their row is not touched.
LEMMA ItemsKept ==
  ASSUME IInv, NEW P \in SUBSET (Run \X Slot),
         \A p \in P : rec'[p] = rec[p] /\ item'[p] = item[p],
         \A s \in Slot : Moves(s),
         \A c \in Run, s \in Slot : <<c, s>> \in P /\ rec[<<c, s>>] \in PendingSteps => rows'[s] = rows[s],
         \A p \in P : rec[p] = "promote" => objects'[item[p].key] = objects[item[p].key],
         \A p \in P : rec[p] \in {"markFailed", "purge"} =>
           objects'[item[p].key] \in {None, objects[item[p].key]}
  PROVE  \A c \in Run, s \in Slot : <<c, s>> \in P => ItemOK(c, s)'
<1> SUFFICES ASSUME NEW c \in Run, NEW s \in Slot, <<c, s>> \in P  PROVE ItemOK(c, s)'
  OBVIOUS
<1> DEFINE p == <<c, s>>
<1>0. ItemOK(c, s)
  BY DEF IInv
<1>1. rec[p] \in EraseSteps => BeingDeleted(item[p])'
  <2>1. ASSUME rec[p] \in EraseSteps  PROVE BeingDeleted(item[p])'
    <3> DEFINE x == item[p]
    <3>1. BeingDeleted(x)
      BY <1>0, <2>1 DEF ItemOK
    <3>2. \A y : BeingDeleted(y) =>
            (\A t \in Slot : rows'[t] # None /\ (rows'[t].id = y.id \/ rows'[t].key = y.key)
               => rows'[t].id = y.id /\ rows'[t].key = y.key /\ rows'[t].status \in Deleting)
      BY DeletedKept DEF BeingDeleted, Refers
    <3>3. item'[p] = item[p]
      OBVIOUS
    <3> QED  BY <3>1, <3>2, <3>3 DEF BeingDeleted, Refers
  <2> QED  BY <2>1
<1>2. rec[p] \in PendingSteps => Matches(s, item[p].id, "PENDING")' /\ rows'[s].key = item[p].key
                                 /\ rows'[s].aged
  BY <1>0 DEF ItemOK, Matches
<1>3. /\ rec[p] = "promote" => item[p].found \in Content /\ objects'[item[p].key] = item[p].found
      /\ rec[p] = "markFailed" => objects'[item[p].key] = None
      /\ rec[p] = "purge" => objects'[item[p].key] = None
  BY <1>0 DEF ItemOK
<1> HIDE DEF p
<1>4. ItemOK(c, s)' <=>
        /\ rec'[p] \in PendingSteps =>
             Matches(s, item[p].id, "PENDING")' /\ rows'[s].key = item[p].key /\ rows'[s].aged
        /\ rec'[p] = "promote" => item'[p].found \in Content /\ objects'[item'[p].key] = item'[p].found
        /\ rec'[p] = "markFailed" => objects'[item'[p].key] = None
        /\ rec'[p] \in EraseSteps => BeingDeleted(item[p])'
        /\ rec'[p] = "purge" => objects'[item'[p].key] = None
  BY DEF ItemOK, p
<1> QED  BY <1>1, <1>2, <1>3, <1>4 DEF p

LEMMA AllItemsKept ==
  ASSUME IInv, UNCHANGED <<rec, item>>, \A s \in Slot : Moves(s),
         \A c \in Run, s \in Slot : rec[<<c, s>>] \in PendingSteps => rows'[s] = rows[s],
         \A p \in Run \X Slot : rec[p] = "promote" => objects'[item[p].key] = objects[item[p].key],
         \A p \in Run \X Slot : rec[p] \in {"markFailed", "purge"} =>
           objects'[item[p].key] \in {None, objects[item[p].key]}
  PROVE  \A c \in Run, s \in Slot : ItemOK(c, s)'
<1> DEFINE P == Run \X Slot
<1>1. P \in SUBSET (Run \X Slot) /\ \A c \in Run, s \in Slot : <<c, s>> \in P
  OBVIOUS
<1>2. /\ \A p \in P : rec'[p] = rec[p] /\ item'[p] = item[p]
      /\ \A p \in P : rec[p] = "promote" => objects'[item[p].key] = objects[item[p].key]
      /\ \A p \in P : rec[p] \in {"markFailed", "purge"} =>
           objects'[item[p].key] \in {None, objects[item[p].key]}
  OBVIOUS
<1> HIDE DEF P
<1> QED  BY <1>1, <1>2, ItemsKept

\* Rows that keep their objects satisfy RowOK in their new status.
LEMMA RowsKept ==
  ASSUME IInv, objects' = objects, \A s \in Slot : Moves(s),
         \A s \in Slot : rows[s] # None /\ rows'[s] # None /\ rows'[s].status # rows[s].status =>
           /\ rows'[s].status = "AVAILABLE" =>
                rows'[s].content \in Content /\ objects[rows[s].key] = rows'[s].content
           /\ rows'[s].status = "FAILED" => objects[rows[s].key] = None
  PROVE  \A s \in Slot : RowOK(s)'
<1> SUFFICES ASSUME NEW s \in Slot, rows'[s] # None
             PROVE  /\ rows'[s].status = "AVAILABLE" =>
                         rows'[s].content \in Content /\ objects[rows'[s].key] = rows'[s].content
                    /\ rows'[s].status = "FAILED" => objects[rows'[s].key] = None
  BY DEF RowOK, Is
<1>1. rows[s] # None /\ rows'[s].key = rows[s].key
  BY DEF Moves, Turned
<1>2. CASE rows'[s].status = rows[s].status
  <2>1. rows'[s].content = rows[s].content
    BY <1>1, <1>2 DEF Moves, Turned, Transitions
  <2> QED  BY <1>1, <1>2, <2>1 DEF IInv, RowOK, Is
<1> QED  BY <1>1, <1>2

\* No object is left behind where the rows that stop counting have none.
LEMMA ObjectsKept ==
  ASSUME IInv, \A s \in Slot : Moves(s),
         \A v \in Upload : objects'[v] # None => objects[v] # None \/ Active(v)',
         \A v \in Upload : objects'[v] # None /\ Active(v) /\ ~Active(v)' =>
           \E s \in Slot : rows'[s] # None /\ rows'[s].key = v /\ rows'[s].status \in ObjectBearing,
         \A s \in Slot : /\ rows[s] # None /\ rows[s].status \in ObjectBearing
                         /\ rows'[s] = None \/ rows'[s].status = "FAILED"
                         => objects'[rows[s].key] = None
  PROVE  NoOrphanObject'
<1> SUFFICES ASSUME NEW v \in Upload, objects'[v] # None, ~Active(v)'
             PROVE  \E s \in Slot : rows'[s] # None /\ rows'[s].key = v /\ rows'[s].status \in ObjectBearing
  BY DEF NoOrphanObject, With
<1>1. CASE Active(v)
  BY <1>1
<1>2. CASE ~Active(v)
  <2>1. PICK s \in Slot : rows[s] # None /\ rows[s].key = v /\ rows[s].status \in ObjectBearing
    BY <1>2 DEF IInv, NoOrphanObject, With
  <2>2. rows'[s] # None /\ rows'[s].status # "FAILED"
    BY <2>1
  <2>3. rows'[s].key = v /\ rows'[s].status \in Status
    BY <2>1, <2>2 DEF Moves, Turned, ObjectBearing
  <2> QED  BY <2>2, <2>3 DEF ObjectBearing
<1> QED  BY <1>1, <1>2

-----------------------------------------------------------------------------
(* One step of an upload.                                                  *)

LEMMA SendKeeps ==
  ASSUME IInv, NEW u \in Upload, Send(u)
  PROVE  IInv'
<1>0. Typed' /\ \A s \in Slot : Moves(s)
  BY TypedUploads, UploadMoves DEF UploadStep, IInv
<1>1. /\ Active(u) /\ Active(u)' /\ rows' = rows /\ up'[u] \in {"sent", "failing"}
      /\ \A v \in Upload \ {u} : objects'[v] = objects[v] /\ up'[v] = up[v]
      /\ objects'[u] # objects[u] => objects'[u] = body[u]
      /\ up'[u] = "sent" => objects'[u] = body[u]
      /\ UNCHANGED <<rowId, body, del, target, rec, item>>
  BY DEF Send, Upto, Active, UploadSteps, IInv, Typed, TypeOK
<1>2. FreshOK'
  BY <1>0, <1>1, FreshKept DEF IInv
<1>3. UniqueOK'
  BY <1>0, UniqueKept DEF IInv
<1>4. \A v \in Upload : UploadOK(v)'
  <2>1. \A v \in Upload \ {u} : UploadOK(v)'
    BY <1>0, <1>1, UploadsKept
  <2>2. UploadOK(u)'
    BY <1>1 DEF IInv, UploadOK, Matches
  <2> QED  BY <2>1, <2>2
<1>5. \A s \in Slot : RowOK(s)'
  <2>1. \A s \in Slot : rows[s] # None /\ rows[s].key = u => rows[s].status = "PENDING"
    BY <1>1, Owners DEF Matches
  <2> QED  BY <1>0, <1>1, <2>1, ObjectStep DEF IInv, Typed, TypeOK, Is
<1>6. \A d \in Deletion : DeletionOK(d)'
  <2>1. \A d \in Deletion : Working(d) => target[d].key \in Upload /\ target[d].key # u
    BY <1>1, Owners DEF IInv, Typed, TypeOK, HandlersOK, Target
  <2> QED  BY <1>0, <1>1, <2>1, DeletionsKept
<1>7. \A c \in Run, s \in Slot : ItemOK(c, s)'
  <2>1. \A c \in Run, s \in Slot : rec[<<c, s>>] \in PendingSteps \cup EraseSteps =>
          item[<<c, s>>].key \in Upload /\ item[<<c, s>>].key # u
    BY <1>1, Owners DEF IInv, Typed, TypeOK, HandlersOK, Listed, PendingSteps, EraseSteps
  <2>2. \A p \in Run \X Slot : rec[p] \in PendingSteps \cup EraseSteps =>
          objects'[item[p].key] = objects[item[p].key]
    BY <1>1, <2>1
  <2>3. \A c \in Run, s \in Slot : rec[<<c, s>>] \in PendingSteps => rows'[s] = rows[s]
    BY <1>1
  <2> QED  BY <1>0, <1>1, <2>2, <2>3, AllItemsKept DEF PendingSteps, EraseSteps
<1>8. NoOrphanObject'
  BY <1>1 DEF IInv, NoOrphanObject, Active, With
<1> QED  BY <1>0, <1>2, <1>3, <1>4, <1>5, <1>6, <1>7, <1>8 DEF IInv

\* An upload's own row may change, its reservation still being its own.
LEMMA OwnRowOnly ==
  ASSUME IInv, NEW u \in Upload, Active(u),
         \A s \in Slot : rows'[s] # rows[s] => Matches(s, rowId[u], "PENDING")
  PROVE  /\ \A s \in Slot : rows'[s] # rows[s] => rows[s] # None /\ rows[s].key = u /\ ~rows[s].aged
         /\ \A v \in Upload \ {u}, s \in Slot :
              Active(v) /\ rows[s] # None /\ rows[s].key = v => rows'[s] = rows[s]
         /\ \A c \in Run, s \in Slot : rec[<<c, s>>] \in PendingSteps => rows'[s] = rows[s]
<1>1. \A s \in Slot : rows'[s] # rows[s] => rows[s] # None /\ rows[s].key = u /\ ~rows[s].aged
  BY Owners DEF Matches
<1>2. \A c \in Run, s \in Slot : rec[<<c, s>>] \in PendingSteps => rows[s].aged
  BY DEF IInv, ItemOK
<1> QED  BY <1>1, <1>2

\* The steps of an upload that leave every object in place.
LEMMA UploadStepKeeps ==
  ASSUME IInv, NEW u \in Upload, NEW step, UploadStep(u), Active(u), Upto(u, step), objects' = objects,
         \A s \in Slot : rows'[s] # rows[s] => Matches(s, rowId[u], "PENDING"),
         step \notin Unreserved, UploadOK(u)',
         \A s \in Slot : rows'[s] # rows[s] =>
           /\ rows'[s] # None /\ rows'[s].status \in {"AVAILABLE", "FAILED"}
           /\ rows'[s].status = "AVAILABLE" => rows'[s].content \in Content /\ objects[u] = rows'[s].content
           /\ rows'[s].status = "FAILED" => objects[u] = None
  PROVE  IInv'
<1>0. Typed' /\ \A s \in Slot : Moves(s)
  BY TypedUploads, UploadMoves DEF IInv
<1>1. /\ \A v \in Upload \ {u} : up'[v] = up[v]
      /\ up'[u] = step
      /\ UNCHANGED <<rowId, body, del, target, rec, item>>
  BY DEF Upto, IInv, Typed, TypeOK
<1>2. /\ \A s \in Slot : rows'[s] # rows[s] => rows[s] # None /\ rows[s].key = u /\ ~rows[s].aged
      /\ \A v \in Upload \ {u}, s \in Slot :
           Active(v) /\ rows[s] # None /\ rows[s].key = v => rows'[s] = rows[s]
      /\ \A c \in Run, s \in Slot : rec[<<c, s>>] \in PendingSteps => rows'[s] = rows[s]
  BY OwnRowOnly
<1>3. FreshOK'
  BY <1>0, <1>1, FreshKept DEF IInv
<1>4. UniqueOK'
  BY <1>0, UniqueKept DEF IInv
<1>5. \A v \in Upload : UploadOK(v)'
  <2>1. \A v \in Upload \ {u} : UploadOK(v)'
    BY <1>0, <1>1, <1>2, UploadsKept
  <2> QED  BY <2>1
<1>6. \A s \in Slot : RowOK(s)'
  BY <1>0, <1>2, RowsKept
<1>7. \A d \in Deletion : DeletionOK(d)'
  BY <1>0, <1>1, DeletionsKept
<1>8. \A c \in Run, s \in Slot : ItemOK(c, s)'
  BY <1>0, <1>1, <1>2, AllItemsKept
<1>9. NoOrphanObject'
  <2>1. \A s \in Slot : (rows[s] # None /\ rows[s].status \in ObjectBearing
                         /\ (rows'[s] = None \/ rows'[s].status = "FAILED"))
                        => objects'[rows[s].key] = None
    BY <1>2 DEF ObjectBearing
  <2>2. ASSUME NEW v \in Upload, objects'[v] # None, Active(v), ~Active(v)'
        PROVE  \E s \in Slot : rows'[s] # None /\ rows'[s].key = v /\ rows'[s].status \in ObjectBearing
    <3>1. v = u
      BY <1>1, <2>2 DEF Active
    <3>2. PICK s \in Slot : rows[s] # None /\ rows[s].key = u /\ rows[s].status = "PENDING"
      BY DEF IInv, UploadOK, Matches
    <3>3. rows'[s] # None /\ rows'[s].key = u /\ rows'[s].status # "FAILED"
      BY <1>0, <2>2, <3>1, <3>2 DEF Moves, Turned
    <3>4. rows'[s].status \in ObjectBearing
      BY <3>2, <3>3 DEF ObjectBearing, Status
    <3> QED  BY <3>1, <3>3, <3>4
  <2> QED  BY <1>0, <2>1, <2>2, ObjectsKept
<1> QED  BY <1>0, <1>3, <1>4, <1>5, <1>6, <1>7, <1>8, <1>9 DEF IInv

LEMMA FinalizeKeeps ==
  ASSUME IInv, Benign, NEW u \in Upload, Finalize(u)
  PROVE  IInv'
<1>0. Active(u) /\ up[u] = "sent" /\ body[u] \in Content /\ rows \in Rows /\ UploadStep(u)
      /\ rowId[u] \in Upload /\ objects[u] = body[u] /\ objects' = objects
  BY DEF Finalize, Active, UploadSteps, UploadStep, IInv, Typed, TypeOK, HandlersOK, Rows, UploadOK
<1>1. PICK s \in Slot : Matches(s, rowId[u], "PENDING") /\ rows[s].key = u /\ ~rows[s].aged
  BY <1>0 DEF IInv, UploadOK
<1>2. CASE Upto(u, "ok") /\ MakeAvailable(rowId[u], body[u])
  <2>1. \A t \in Slot : IF Matches(t, rowId[u], "PENDING") THEN Turned(t, "AVAILABLE", body[u])
                        ELSE rows'[t] = rows[t]
    BY <1>0, <1>2, AvailableEffect
  <2>2. UploadOK(u)'
    <3>1. ~Active(u)' /\ up'[u] = "ok" /\ rowId' = rowId /\ body' = body
      BY <1>2 DEF Upto, Active, UploadSteps, IInv, Typed, TypeOK
    <3>2. ASSUME NEW t \in Slot, rows'[t] # None, rows'[t].id = rowId[u]
          PROVE  rows'[t].key = u /\ rows'[t].status = "AVAILABLE" /\ rows'[t].content = body[u]
      <4>1. rows[t] # None /\ rows[t].id = rowId[u]
        BY <2>1, <3>2 DEF Turned, Matches
      <4>2. Matches(t, rowId[u], "PENDING") /\ rows[t].key = u
        BY <1>0, <4>1, Owners
      <4> QED  BY <2>1, <4>2 DEF Turned
    <3> QED  BY <1>0, <3>1, <3>2 DEF UploadOK
  <2> QED  BY <1>0, <1>2, <2>1, <2>2, UploadStepKeeps DEF Turned
<1>3. CASE Upto(u, "failing") /\ rows' = rows
  <2>1. UploadOK(u)'
    BY <1>0, <1>1, <1>3 DEF UploadOK, Upto, Matches, Active, IInv, Typed, TypeOK
  <2> QED  BY <1>0, <1>3, <2>1, UploadStepKeeps
<1> QED  BY <1>1, <1>2, <1>3 DEF Finalize, Benign, Fault

LEMMA VerifyKeeps ==
  ASSUME IInv, NEW u \in Upload, VerifyRemoved(u)
  PROVE  IInv'
<1>0. Active(u) /\ rows' = rows /\ objects' = objects /\ UploadStep(u)
  BY DEF VerifyRemoved, Active, UploadSteps, UploadStep
<1>1. PICK step \in {"release", "failed"} : Upto(u, step) /\ (step = "release" => objects[u] = None)
  BY DEF VerifyRemoved
<1>2. UploadOK(u)'
  BY <1>0, <1>1 DEF UploadOK, Upto, Matches, Active, IInv, Typed, TypeOK, UploadSteps
<1> QED  BY <1>0, <1>1, <1>2, UploadStepKeeps

LEMMA ReleaseKeeps ==
  ASSUME IInv, NEW u \in Upload, Release(u)
  PROVE  IInv'
<1>0. Active(u) /\ objects' = objects /\ objects[u] = None /\ UploadStep(u) /\ rows \in Rows
      /\ Upto(u, "failed")
  BY DEF Release, Active, UploadSteps, UploadStep, IInv, UploadOK, Typed, TypeOK, Rows
<1>1. \A s \in Slot : rows'[s] # rows[s] =>
        /\ Matches(s, rowId[u], "PENDING")
        /\ rows'[s] # None /\ rows'[s].status = "FAILED"
  <2>1. CASE UpdateWhere(rowId[u], "PENDING", "FAILED")
    BY <1>0, <2>1, UpdateEffect DEF Turned, Status
  <2> QED  BY <2>1 DEF Release
<1>2. UploadOK(u)'
  BY <1>0 DEF UploadOK, Upto, Active, IInv, Typed, TypeOK, UploadSteps
<1> QED  BY <1>0, <1>1, <1>2, UploadStepKeeps

\* The steps that remove one object, no row that counts on it being left to them.
LEMMA RemovalKeeps ==
  ASSUME IInv, Typed', NEW k \in Upload, objects' \in {objects, [objects EXCEPT ![k] = None]}, rows' = rows,
         UNCHANGED <<rowId, body>>,
         \A v \in Upload \ {k} : up'[v] = up[v],
         \A s \in Slot : rows[s] # None /\ rows[s].key = k => rows[s].status # "AVAILABLE",
         up'[k] = up[k] \/ (Active(k) /\ up'[k] \in {"verify", "failed"}),
         up'[k] = up[k] => ~Active(k)
  PROVE  /\ FreshOK' \/ ~(UNCHANGED <<target, item>>)
         /\ UniqueOK'
         /\ \A v \in Upload : UploadOK(v)'
         /\ \A s \in Slot : RowOK(s)'
         /\ NoOrphanObject'
<1>0. /\ \A s \in Slot : Moves(s)
      /\ \A v \in Upload \ {k} : objects'[v] = objects[v]
      /\ objects'[k] \in {None, objects[k]}
      /\ objects' \in [Upload -> Content \cup {Damaged, None}]
  BY DEF Moves, Typed, TypeOK
<1>1. FreshOK' \/ ~(UNCHANGED <<target, item>>)
  <2>1. \A v \in Upload : up'[v] \in Unreserved => up[v] \in Unreserved /\ objects'[v] = objects[v]
    BY <1>0 DEF IInv, FreshOK
  <2> QED  BY <1>0, <2>1, FreshKept DEF IInv
<1>2. UniqueOK'
  BY <1>0, UniqueKept DEF IInv
<1>3. \A v \in Upload : UploadOK(v)'
  <2>1. \A v \in Upload \ {k} : UploadOK(v)'
    BY <1>0, UploadsKept
  <2>2. UploadOK(k)'
    BY DEF IInv, UploadOK, Matches, Active, UploadSteps
  <2> QED  BY <2>1, <2>2
<1>4. \A s \in Slot : RowOK(s)'
  <2>1. CASE objects' = objects
    BY <2>1 DEF IInv, RowOK, Is
  <2>2. CASE objects'[k] = None
    BY <1>0, <2>2, ObjectStep DEF Is
  <2> QED  BY <1>0, <2>1, <2>2 DEF IInv, Typed, TypeOK
<1>5. NoOrphanObject'
  <2>1. ASSUME NEW v \in Upload, objects'[v] # None, Active(v), ~Active(v)'
        PROVE  \E s \in Slot : rows'[s] # None /\ rows'[s].key = v /\ rows'[s].status \in ObjectBearing
    <3>1. PICK s \in Slot : rows[s] # None /\ rows[s].key = v /\ rows[s].status = "PENDING"
      BY <2>1 DEF IInv, UploadOK, Matches
    <3> QED  BY <3>1 DEF ObjectBearing, Status
  <2>2. \A v \in Upload : objects'[v] # None => objects[v] # None
    BY <1>0
  <2> QED  BY <2>1, <2>2 DEF IInv, NoOrphanObject, With
<1> QED  BY <1>1, <1>2, <1>3, <1>4, <1>5

LEMMA RemoveKeeps ==
  ASSUME IInv, NEW u \in Upload, RemoveObject(u)
  PROVE  IInv'
<1>0. Typed' /\ \A s \in Slot : Moves(s)
  BY TypedUploads, UploadMoves DEF UploadStep, IInv
<1>1. /\ Active(u) /\ rows' = rows /\ up'[u] \in {"verify", "failed"} /\ up'[u] # up[u]
      /\ \A v \in Upload \ {u} : up'[v] = up[v]
      /\ objects' \in {objects, [objects EXCEPT ![u] = None]}
      /\ UNCHANGED <<rowId, body, del, target, rec, item>>
  BY DEF RemoveObject, Upto, Active, UploadSteps, IInv, Typed, TypeOK
<1>2. \A s \in Slot : rows[s] # None /\ rows[s].key = u => rows[s].status # "AVAILABLE"
  BY <1>1, Owners DEF Matches
<1>3. /\ FreshOK' /\ UniqueOK' /\ NoOrphanObject'
      /\ \A v \in Upload : UploadOK(v)'
      /\ \A s \in Slot : RowOK(s)'
  BY <1>0, <1>1, <1>2, RemovalKeeps
<1>4. \A k \in Upload : objects'[k] \in {None, objects[k]} /\ (k # u => objects'[k] = objects[k])
  BY <1>1 DEF IInv, Typed, TypeOK
<1>5. \A d \in Deletion : DeletionOK(d)'
  <2>1. \A d \in Deletion : Working(d) => target[d].key \in Upload
    BY DEF IInv, Typed, TypeOK, HandlersOK, Target
  <2> QED  BY <1>0, <1>1, <1>4, <2>1, DeletionsKept
<1>6. \A c \in Run, s \in Slot : ItemOK(c, s)'
  <2>1. \A c \in Run, s \in Slot : rec[<<c, s>>] \in PendingSteps \cup EraseSteps =>
          item[<<c, s>>].key \in Upload /\ item[<<c, s>>].key # u
    BY <1>1, Owners DEF IInv, Typed, TypeOK, HandlersOK, Listed, PendingSteps, EraseSteps
  <2>2. \A p \in Run \X Slot : rec[p] \in PendingSteps \cup EraseSteps =>
          objects'[item[p].key] = objects[item[p].key]
    BY <1>4, <2>1
  <2>3. \A c \in Run, s \in Slot : rec[<<c, s>>] \in PendingSteps => rows'[s] = rows[s]
    BY <1>1
  <2> QED  BY <1>0, <1>1, <2>2, <2>3, AllItemsKept DEF PendingSteps, EraseSteps
<1> QED  BY <1>0, <1>3, <1>5, <1>6 DEF IInv

-----------------------------------------------------------------------------
(* A reservation, and the steps of a deletion.                             *)

LEMMA ReservedKeeps ==
  ASSUME IInv, NEW u \in Upload, NEW s \in Slot, NEW b \in Content \cup {Damaged}, Reserved(u, s, b),
         ReserveStep(u)
  PROVE  IInv'
<1>0. Typed'
  BY TypedReserve DEF IInv
<1>1. /\ up[u] \in Unreserved /\ up'[u] = "sending" /\ rowId'[u] \in Upload
      /\ \A v \in Upload \ {u} : up'[v] = up[v] /\ rowId'[v] = rowId[v] /\ body'[v] = body[v]
      /\ \A t \in Slot \ {s} : rows'[t] = rows[t]
      /\ rows'[s] # None /\ rows'[s].key = u /\ rows'[s].status = "PENDING" /\ ~rows'[s].aged
      /\ rows'[s].id = rowId'[u]
      /\ rowId'[u] = IF rows[s] = None THEN u ELSE rows[s].id
      /\ rows[s] # None => rows[s].status = "FAILED"
      /\ UNCHANGED <<objects, del, target, rec, item>>
  BY DEF Reserved, Reservable, Is, IInv, Typed, TypeOK
<1>2. /\ objects[u] = None
      /\ \A t \in Slot : rows[t] # None => rows[t].id # u /\ rows[t].key # u
      /\ \A d \in Deletion : target[d] # None => target[d].id # u /\ target[d].key # u
      /\ \A p \in Run \X Slot : item[p] # None => item[p].id # u /\ item[p].key # u
      /\ \A v \in Upload : rowId[v] # u
  BY <1>1 DEF IInv, FreshOK
<1>3. FreshOK'
  <2> SUFFICES ASSUME NEW v \in Upload, up'[v] \in Unreserved
               PROVE  /\ objects[v] = None
                      /\ \A t \in Slot : rows'[t] # None => rows'[t].id # v /\ rows'[t].key # v
                      /\ \A d \in Deletion : target[d] # None => target[d].id # v /\ target[d].key # v
                      /\ \A p \in Run \X Slot : item[p] # None => item[p].id # v /\ item[p].key # v
                      /\ \A w \in Upload : rowId'[w] # v
    BY <1>1 DEF FreshOK
  <2>1. v # u /\ up[v] \in Unreserved
    BY <1>1
  <2>2. /\ objects[v] = None
        /\ \A t \in Slot : rows[t] # None => rows[t].id # v /\ rows[t].key # v
        /\ \A d \in Deletion : target[d] # None => target[d].id # v /\ target[d].key # v
        /\ \A p \in Run \X Slot : item[p] # None => item[p].id # v /\ item[p].key # v
        /\ \A w \in Upload : rowId[w] # v
    BY <2>1 DEF IInv, FreshOK
  <2>3. rowId'[u] # v
    BY <1>1, <2>1, <2>2
  <2>4. \A t \in Slot : rows'[t] # None => rows'[t].id # v /\ rows'[t].key # v
    BY <1>1, <2>1, <2>2, <2>3
  <2>5. \A w \in Upload : rowId'[w] # v
    BY <1>1, <2>2, <2>3
  <2> QED  BY <2>2, <2>4, <2>5
<1>4. UniqueOK'
  <2> SUFFICES ASSUME NEW t1 \in Slot, NEW t2 \in Slot, rows'[t1] # None, rows'[t2] # None,
                      rows'[t1].id = rows'[t2].id \/ rows'[t1].key = rows'[t2].key
               PROVE  t1 = t2
    BY DEF UniqueOK, Refers
  <2>1. ASSUME NEW t \in Slot \ {s}, rows[t] # None
        PROVE  rows[t].id # rowId'[u] /\ rows[t].key # u
    BY <1>1, <1>2, <2>1, Owners
  <2>2. CASE t1 # s /\ t2 # s
    BY <1>1, <2>2, Owners
  <2> QED  BY <1>1, <2>1, <2>2
<1>5. \A v \in Upload : UploadOK(v)'
  <2>1. UploadOK(u)'
    BY <1>1 DEF UploadOK, Matches
  <2>2. ASSUME NEW v \in Upload \ {u}  PROVE UploadOK(v)'
    <3>0. UploadOK(v) /\ rowId'[v] = rowId[v] /\ up'[v] = up[v] /\ body'[v] = body[v]
      BY <1>1 DEF IInv
    <3>1. Active(v) => \E t \in Slot : Matches(t, rowId[v], "PENDING")' /\ rows'[t].key = v /\ ~rows'[t].aged
      <4>1. ASSUME Active(v)
            PROVE  \E t \in Slot : Matches(t, rowId[v], "PENDING")' /\ rows'[t].key = v /\ ~rows'[t].aged
        <5>1. PICK t \in Slot : Matches(t, rowId[v], "PENDING") /\ rows[t].key = v /\ ~rows[t].aged
          BY <3>0, <4>1 DEF UploadOK
        <5>2. t # s
          BY <1>1, <5>1 DEF Matches
        <5> QED  BY <1>1, <5>1, <5>2 DEF Matches
      <4> QED  BY <4>1
    <3>2. ASSUME up[v] = "ok", NEW t \in Slot, rows'[t] # None, rows'[t].id = rowId[v]
          PROVE  /\ rows'[t].key = v
                 /\ rows'[t].status \in {"AVAILABLE"} \cup Deleting
                 /\ rows'[t].status = "AVAILABLE" => rows'[t].content = body[v]
      <4>1. t # s
        BY <1>1, <1>2, <3>0, <3>2 DEF UploadOK, Deleting
      <4> QED  BY <1>1, <3>0, <3>2, <4>1 DEF UploadOK
    <3> QED  BY <1>1, <3>0, <3>1, <3>2 DEF UploadOK, Active, Matches
  <2> QED  BY <2>1, <2>2
<1>6. \A t \in Slot : RowOK(t)'
  BY <1>1 DEF IInv, RowOK, Is
<1>7. ASSUME NEW x, x # None, x.id # u, x.key # u, BeingDeleted(x)
      PROVE  \A t \in Slot : rows'[t] # None /\ (rows'[t].id = x.id \/ rows'[t].key = x.key)
               => rows'[t].id = x.id /\ rows'[t].key = x.key /\ rows'[t].status \in Deleting
  <2>1. rows'[s].id # x.id /\ rows'[s].key # x.key
    BY <1>1, <1>7 DEF BeingDeleted, Refers, Deleting
  <2> QED  BY <1>1, <1>7, <2>1 DEF BeingDeleted, Refers
<1>8. \A d \in Deletion : DeletionOK(d)'
  <2> SUFFICES ASSUME NEW d \in Deletion, Working(d)  PROVE DeletionOK(d)'
    BY <1>1 DEF DeletionOK, Working
  <2>1. target[d] # None /\ BeingDeleted(target[d])
    BY DEF IInv, DeletionOK, Typed, HandlersOK
  <2>2. BeingDeleted(target[d])'
    BY <1>1, <1>2, <1>7, <2>1 DEF BeingDeleted, Refers
  <2> QED  BY <1>1, <2>2 DEF IInv, DeletionOK
<1>9. \A c \in Run, t \in Slot : ItemOK(c, t)'
  <2> SUFFICES ASSUME NEW c \in Run, NEW t \in Slot  PROVE ItemOK(c, t)'
    OBVIOUS
  <2> DEFINE p == <<c, t>>
  <2>0. ItemOK(c, t) /\ p \in Run \X Slot /\ rec'[p] = rec[p] /\ item'[p] = item[p]
    BY <1>1 DEF IInv
  <2>1. rec[p] \in EraseSteps => BeingDeleted(item[p])'
    <3>1. ASSUME rec[p] \in EraseSteps  PROVE BeingDeleted(item[p])'
      <4>1. item[p] # None /\ BeingDeleted(item[p])
        BY <2>0, <3>1 DEF IInv, ItemOK, Typed, HandlersOK, EraseSteps
      <4> QED  BY <1>1, <1>2, <1>7, <2>0, <4>1 DEF BeingDeleted, Refers
    <3> QED  BY <3>1
  <2>2. rec[p] \in PendingSteps => Matches(t, item[p].id, "PENDING")' /\ rows'[t].key = item[p].key
                                   /\ rows'[t].aged
    <3>1. rec[p] \in PendingSteps => t # s
      BY <1>1, <2>0 DEF ItemOK, Matches
    <3> QED  BY <1>1, <2>0, <3>1 DEF ItemOK, Matches
  <2> QED  BY <1>1, <2>0, <2>1, <2>2 DEF ItemOK
<1>10. NoOrphanObject'
  <2> SUFFICES ASSUME NEW v \in Upload, objects[v] # None, ~Active(v)'
               PROVE  \E t \in Slot : rows'[t] # None /\ rows'[t].key = v /\ rows'[t].status \in ObjectBearing
    BY <1>1 DEF NoOrphanObject, With
  <2>1. v # u /\ ~Active(v)
    BY <1>1, <1>2 DEF Active
  <2>2. PICK t \in Slot : rows[t] # None /\ rows[t].key = v /\ rows[t].status \in ObjectBearing
    BY <2>1 DEF IInv, NoOrphanObject, With
  <2>3. t # s
    BY <1>1, <2>2 DEF ObjectBearing
  <2> QED  BY <1>1, <2>2, <2>3
<1> QED  BY <1>0, <1>3, <1>4, <1>5, <1>6, <1>8, <1>9, <1>10 DEF IInv

LEMMA ReserveKeeps ==
  ASSUME IInv, NEW u \in Upload, ReserveStep(u)
  PROVE  IInv'
<1>1. ASSUME NEW next \in Waited, Waits(u, next)
      PROVE  IInv'
  <2>0. Typed'
    BY TypedReserve DEF IInv
  <2>1. /\ \A v \in Upload \ {u} : up'[v] = up[v]
        /\ up'[u] = next /\ up[u] \in Unreserved
        /\ UNCHANGED <<rows, objects, rowId, body, del, target, rec, item>>
    BY <1>1 DEF Waits, IInv, Typed, TypeOK
  <2>2. \A v \in Upload : UploadOK(v)' /\ (Active(v)' <=> Active(v))
    BY <1>1, <2>1 DEF IInv, UploadOK, Active, UploadSteps, Matches, Waited
  <2>3. FreshOK'
    BY <2>1 DEF IInv, FreshOK
  <2>4. \A d \in Deletion : DeletionOK(d)'
    BY <2>1 DEF IInv, DeletionOK, Working, BeingDeleted, Refers
  <2>5. \A c \in Run, t \in Slot : ItemOK(c, t)'
    <3>1. \A t \in Slot : Moves(t)
      BY <2>1 DEF Moves
    <3> QED  BY <2>1, <3>1, AllItemsKept
  <2>6. UniqueOK' /\ (\A t \in Slot : RowOK(t)') /\ NoOrphanObject'
    BY <2>1, <2>2 DEF IInv, UniqueOK, Refers, RowOK, Is, NoOrphanObject, With
  <2> QED  BY <2>0, <2>2, <2>3, <2>4, <2>5, <2>6 DEF IInv
<1>2. Typed
  BY DEF IInv
<1> QED  BY <1>1, <1>2, ReserveEffect, ReservedKeeps

\* The steps of a deletion or an item that leave every object in place and change no row that an
\* upload or a pending item holds.
LEMMA QuietRows ==
  ASSUME IInv, Typed', \A s \in Slot : Moves(s), objects' = objects, UNCHANGED <<up, rowId, body>>,
         \A s \in Slot : rows[s] # None /\ rows[s].status = "PENDING" => rows'[s] = rows[s],
         \A s \in Slot : rows[s] # None /\ rows'[s] = None => objects[rows[s].key] = None,
         \A d \in Deletion : target'[d] = target[d]
           \/ \E s \in Slot : rows[s] # None /\ target'[d].id = rows[s].id /\ target'[d].key = rows[s].key,
         item' = item
  PROVE  /\ FreshOK' /\ UniqueOK'
         /\ \A v \in Upload : UploadOK(v)'
         /\ \A s \in Slot : RowOK(s)'
         /\ NoOrphanObject'
         /\ \A c \in Run, s \in Slot : rec[<<c, s>>] \in PendingSteps => rows'[s] = rows[s]
<1>1. FreshOK'
  BY FreshKept DEF IInv
<1>2. UniqueOK'
  BY UniqueKept DEF IInv
<1>3. \A v \in Upload : UploadOK(v)'
  <2>1. \A v \in Upload, s \in Slot : Active(v) /\ rows[s] # None /\ rows[s].key = v => rows'[s] = rows[s]
    BY Owners DEF Matches
  <2> QED  BY <2>1, UploadsKept
<1>4. \A s \in Slot : rows[s] # None /\ rows'[s] # None /\ rows'[s].status # rows[s].status =>
        rows'[s].status \notin {"AVAILABLE", "FAILED"}
  BY DEF Moves, Turned, Transitions
<1>5. \A s \in Slot : RowOK(s)'
  BY <1>4, RowsKept
<1>6. NoOrphanObject'
  <2>1. \A s \in Slot : (rows[s] # None /\ rows[s].status \in ObjectBearing
                         /\ (rows'[s] = None \/ rows'[s].status = "FAILED")) => objects'[rows[s].key] = None
    BY <1>4 DEF ObjectBearing
  <2>2. \A v \in Upload : Active(v)' <=> Active(v)
    BY DEF Active
  <2> QED  BY <2>1, <2>2, ObjectsKept
<1>7. \A c \in Run, s \in Slot : rec[<<c, s>>] \in PendingSteps => rows'[s] = rows[s]
  BY DEF IInv, ItemOK, Matches
<1> QED  BY <1>1, <1>2, <1>3, <1>5, <1>6, <1>7

LEMMA BeginKeeps ==
  ASSUME IInv, NEW d \in Deletion, NEW s \in Slot, BeginDelete(d, s)
  PROVE  IInv'
<1>0. Typed' /\ rows \in Rows /\ \A t \in Slot : Moves(t)
  BY TypedDeletions, DeletionMoves DEF IInv, Typed, TypeOK, Rows
<1>1. /\ Turned(s, "DELETING", rows[s].content)
      /\ rows[s].status \in {"AVAILABLE", "DELETE_FAILED"}
      /\ \A t \in Slot \ {s} : rows'[t] = rows[t]
  BY <1>0, BeginEffect
<1>2. /\ target'[d] = [id |-> rows[s].id, key |-> rows[s].key] /\ del'[d] = "erase"
      /\ \A e \in Deletion \ {d} : target'[e] = target[e] /\ del'[e] = del[e]
      /\ UNCHANGED <<objects, up, rowId, body, rec, item>>
  BY DEF BeginDelete, Delto, IInv, Typed, TypeOK
<1>3. /\ FreshOK' /\ UniqueOK' /\ NoOrphanObject'
      /\ \A v \in Upload : UploadOK(v)'
      /\ \A t \in Slot : RowOK(t)'
      /\ \A c \in Run, t \in Slot : rec[<<c, t>>] \in PendingSteps => rows'[t] = rows[t]
  <2>1. /\ \A t \in Slot : rows[t] # None /\ rows[t].status = "PENDING" => rows'[t] = rows[t]
        /\ \A t \in Slot : rows[t] # None => rows'[t] # None
    BY <1>1 DEF Turned
  <2>2. \A e \in Deletion : target'[e] = target[e]
          \/ \E t \in Slot : rows[t] # None /\ target'[e].id = rows[t].id /\ target'[e].key = rows[t].key
    BY <1>1, <1>2 DEF Turned
  <2> QED  BY <1>0, <1>2, <2>1, <2>2, QuietRows
<1>4. \A e \in Deletion : DeletionOK(e)'
  <2>1. \A e \in Deletion \ {d} : DeletionOK(e)'
    BY <1>0, <1>2, DeletionsKept
  <2>2. DeletionOK(d)'
    <3>1. ASSUME NEW t \in Slot, rows'[t] # None, rows'[t].id = rows[s].id \/ rows'[t].key = rows[s].key
          PROVE  t = s
      BY <1>1, <3>1, Owners DEF Turned
    <3>2. BeingDeleted(target[d])'
      BY <1>1, <1>2, <3>1 DEF BeingDeleted, Refers, Turned, Deleting
    <3> QED  BY <1>2, <3>2 DEF DeletionOK
  <2> QED  BY <2>1, <2>2
<1>5. \A c \in Run, t \in Slot : ItemOK(c, t)'
  BY <1>0, <1>2, <1>3, AllItemsKept
<1> QED  BY <1>0, <1>3, <1>4, <1>5 DEF IInv

LEMMA EraseKeeps ==
  ASSUME IInv, NEW d \in Deletion, EraseObject(d)
  PROVE  IInv'
<1> DEFINE k == target[d].key
<1>0. Typed' /\ Working(d) /\ k \in Upload /\ \A s \in Slot : Moves(s)
  BY TypedDeletions, DeletionMoves
  DEF DeleteStep, EraseObject, Working, DeleteSteps, IInv, Typed, TypeOK, HandlersOK, Target
<1>1. /\ objects' \in {objects, [objects EXCEPT ![k] = None]}
      /\ del'[d] = "purge" => objects'[k] = None
      /\ \A e \in Deletion \ {d} : del'[e] = del[e]
      /\ UNCHANGED <<rows, up, rowId, body, target, rec, item>>
  BY <1>0 DEF EraseObject, Delto, IInv, Typed, TypeOK
<1>2. ~Active(k) /\ BeingDeleted(target[d])
  BY <1>0, Owners DEF IInv, DeletionOK
<1>3. /\ \A s \in Slot : rows[s] # None /\ rows[s].key = k => rows[s].status \in Deleting
      /\ \A c \in Run, s \in Slot : rec[<<c, s>>] \in PendingSteps => item[<<c, s>>].key # k
  <2>1. \A s \in Slot : rows[s] # None /\ rows[s].key = k => rows[s].status \in Deleting
    BY <1>2 DEF BeingDeleted, Refers
  <2> QED  BY <2>1 DEF IInv, ItemOK, Matches, Deleting
<1> HIDE DEF k
<1>4. /\ FreshOK' /\ UniqueOK' /\ NoOrphanObject'
      /\ \A v \in Upload : UploadOK(v)'
      /\ \A s \in Slot : RowOK(s)'
  <2>1. \A s \in Slot : rows[s] # None /\ rows[s].key = k => rows[s].status # "AVAILABLE"
    BY <1>3 DEF Deleting
  <2> QED  BY <1>0, <1>1, <1>2, <2>1, RemovalKeeps
<1>5. \A v : objects'[v] \in {None, objects[v]} \/ v \notin Upload
  BY <1>1 DEF IInv, Typed, TypeOK
<1>6. \A v \in Upload \ {k} : objects'[v] = objects[v]
  BY <1>1 DEF IInv, Typed, TypeOK
<1>7. \A e \in Deletion : DeletionOK(e)'
  <2>1. \A e \in Deletion : Working(e) => target[e].key \in Upload
    BY DEF IInv, Typed, TypeOK, HandlersOK, Target
  <2>2. \A e \in Deletion \ {d} : DeletionOK(e)'
    BY <1>0, <1>1, <1>5, <2>1, DeletionsKept
  <2>3. DeletionOK(d)'
    BY <1>1, <1>2 DEF DeletionOK, BeingDeleted, Refers, k
  <2> QED  BY <2>2, <2>3
<1>8. \A c \in Run, s \in Slot : ItemOK(c, s)'
  <2>1. \A p \in Run \X Slot : rec[p] \in PendingSteps \cup EraseSteps => item[p].key \in Upload
    BY DEF IInv, Typed, TypeOK, HandlersOK, Listed, PendingSteps, EraseSteps
  <2>2. \A p \in Run \X Slot : rec[p] \in PendingSteps => item[p].key # k
    BY <1>3
  <2> QED  BY <1>0, <1>1, <1>5, <1>6, <2>1, <2>2, AllItemsKept DEF PendingSteps, EraseSteps
<1> QED  BY <1>0, <1>4, <1>7, <1>8 DEF IInv

\* A deletion's last step, on its row.
LEMMA EndKeeps ==
  ASSUME IInv, NEW d \in Deletion, PurgeRow(d) \/ MarkDeleteFailed(d)
  PROVE  IInv'
<1>0. Typed' /\ rows \in Rows /\ Working(d) /\ \A s \in Slot : Moves(s)
  BY TypedDeletions, DeletionMoves
  DEF DeleteStep, PurgeRow, MarkDeleteFailed, Working, DeleteSteps, IInv, Typed, TypeOK, Rows
<1>1. /\ \A e \in Deletion \ {d} : del'[e] = del[e]
      /\ ~Working(d)'
      /\ UNCHANGED <<objects, up, rowId, body, target, rec, item>>
  BY DEF PurgeRow, MarkDeleteFailed, Delto, Working, DeleteSteps, IInv, Typed, TypeOK
<1>2. /\ \A s \in Slot : rows'[s] # rows[s] => Matches(s, target[d].id, "DELETING")
      /\ \A s \in Slot : rows[s] # None /\ rows'[s] = None => objects[rows[s].key] = None
  <2>1. CASE UNCHANGED rows
    BY <2>1
  <2>2. CASE PurgeRow(d) /\ DeleteWhere(target[d].id, "DELETING")
    <3>1. BeingDeleted(target[d]) /\ objects[target[d].key] = None
      BY <1>0, <2>2 DEF IInv, DeletionOK, PurgeRow
    <3>2. \A s \in Slot : rows'[s] = IF Matches(s, target[d].id, "DELETING") THEN None ELSE rows[s]
      BY <1>0, <2>2, DeleteEffect
    <3> QED  BY <3>1, <3>2 DEF BeingDeleted, Refers, Matches
  <2>3. CASE MarkDeleteFailed(d) /\ UpdateWhere(target[d].id, "DELETING", "DELETE_FAILED")
    BY <1>0, <2>3, UpdateEffect DEF Turned, Status
  <2> QED  BY <2>1, <2>2, <2>3 DEF PurgeRow, MarkDeleteFailed
<1>3. /\ FreshOK' /\ UniqueOK' /\ NoOrphanObject'
      /\ \A v \in Upload : UploadOK(v)'
      /\ \A s \in Slot : RowOK(s)'
      /\ \A c \in Run, s \in Slot : rec[<<c, s>>] \in PendingSteps => rows'[s] = rows[s]
  <2>1. \A s \in Slot : rows[s] # None /\ rows[s].status = "PENDING" => rows'[s] = rows[s]
    BY <1>2 DEF Matches
  <2> QED  BY <1>0, <1>1, <1>2, <2>1, QuietRows
<1>4. \A e \in Deletion : DeletionOK(e)'
  <2>1. \A e \in Deletion \ {d} : DeletionOK(e)'
    BY <1>0, <1>1, DeletionsKept
  <2>2. DeletionOK(d)'
    BY <1>1 DEF DeletionOK, Working
  <2> QED  BY <2>1, <2>2
<1>5. \A c \in Run, s \in Slot : ItemOK(c, s)'
  BY <1>0, <1>1, <1>3, AllItemsKept
<1> QED  BY <1>0, <1>3, <1>4, <1>5 DEF IInv

-----------------------------------------------------------------------------
(* One step of the reconciler.                                             *)

\* The item that steps keeps what it knows, and the others theirs.
LEMMA OtherItems ==
  ASSUME IInv, NEW c \in Run, NEW s \in Slot, NEW step, Recto(<<c, s>>, step),
         \A q \in Run \X Slot : q # <<c, s>> => item'[q] = item[q],
         \A t \in Slot : Moves(t),
         \A e \in Run, t \in Slot : <<e, t>> # <<c, s>> /\ rec[<<e, t>>] \in PendingSteps => rows'[t] = rows[t],
         \A q \in Run \X Slot : q # <<c, s>> /\ rec[q] = "promote" => objects'[item[q].key] = objects[item[q].key],
         \A q \in Run \X Slot : rec[q] \in {"markFailed", "purge"} =>
           objects'[item[q].key] \in {None, objects[item[q].key]},
         ItemOK(c, s)'
  PROVE  \A e \in Run, t \in Slot : ItemOK(e, t)'
<1> DEFINE p == <<c, s>>
           P == (Run \X Slot) \ {p}
<1>1. P \in SUBSET (Run \X Slot) /\ \A e \in Run, t \in Slot : <<e, t>> # p => <<e, t>> \in P
  OBVIOUS
<1>2. \A q \in P : rec'[q] = rec[q] /\ item'[q] = item[q]
  BY DEF Recto, IInv, Typed, TypeOK
<1>3. /\ \A e \in Run, t \in Slot : <<e, t>> \in P /\ rec[<<e, t>>] \in PendingSteps => rows'[t] = rows[t]
      /\ \A q \in P : rec[q] = "promote" => objects'[item[q].key] = objects[item[q].key]
      /\ \A q \in P : rec[q] \in {"markFailed", "purge"} =>
           objects'[item[q].key] \in {None, objects[item[q].key]}
  OBVIOUS
<1>4. \A e \in Run, t \in Slot : <<e, t>> = p => e = c /\ t = s
  OBVIOUS
<1> HIDE DEF p, P
<1>5. \A e \in Run, t \in Slot : <<e, t>> \in P => ItemOK(e, t)'
  BY <1>1, <1>2, <1>3, ItemsKept
<1> QED  BY <1>1, <1>4, <1>5

\* The steps that only look.
LEMMA LookKeeps ==
  ASSUME IInv, NEW c \in Run, NEW s \in Slot, NEW step, Recto(<<c, s>>, step), Typed',
         UNCHANGED <<rows, objects>>,
         \A q \in Run \X Slot : q # <<c, s>> => item'[q] = item[q],
         item'[<<c, s>>] = item[<<c, s>>]
           \/ (item[<<c, s>>] # None /\ item'[<<c, s>>].id = item[<<c, s>>].id
               /\ item'[<<c, s>>].key = item[<<c, s>>].key)
           \/ (rows[s] # None /\ item'[<<c, s>>].id = rows[s].id /\ item'[<<c, s>>].key = rows[s].key),
         ItemOK(c, s)'
  PROVE  IInv'
<1>0. /\ \A t \in Slot : Moves(t)
      /\ UNCHANGED <<up, rowId, body, del, target>>
  BY DEF Moves, Recto
<1>1. FreshOK'
  <2>1. \A q \in Run \X Slot : item'[q] = item[q]
          \/ (item[q] # None /\ item'[q].id = item[q].id /\ item'[q].key = item[q].key)
          \/ \E t \in Slot : rows[t] # None /\ item'[q].id = rows[t].id /\ item'[q].key = rows[t].key
    OBVIOUS
  <2> QED  BY <1>0, <2>1, FreshKept DEF IInv
<1>2. UniqueOK' /\ (\A t \in Slot : RowOK(t)') /\ NoOrphanObject'
  BY <1>0 DEF IInv, UniqueOK, Refers, RowOK, Is, NoOrphanObject, With, Active
<1>3. \A v \in Upload : UploadOK(v)'
  BY <1>0, UploadsKept
<1>4. \A d \in Deletion : DeletionOK(d)'
  BY <1>0, DeletionsKept
<1>5. \A e \in Run, t \in Slot : ItemOK(e, t)'
  BY <1>0, OtherItems
<1> QED  BY <1>1, <1>2, <1>3, <1>4, <1>5 DEF IInv

LEMMA ListKeeps ==
  ASSUME IInv, NEW c \in Run, NEW s \in Slot, ListItem(c, s)
  PROVE  IInv'
<1> DEFINE p == <<c, s>>
           new == [id |-> rows[s].id, key |-> rows[s].key, status |-> rows[s].status, found |-> None]
<1>0. Typed' /\ p \in Run \X Slot
  BY TypedListing DEF IInv
<1>1. /\ rows[s] # None /\ UNCHANGED <<rows, objects>>
      /\ item'[p] = new
      /\ \A q \in Run \X Slot : q # p => item'[q] = item[q]
  BY <1>0 DEF ListItem, IInv, Typed, TypeOK
<1>2. new.id = rows[s].id /\ new.key = rows[s].key
  OBVIOUS
<1>3. PICK step : /\ Recto(p, step)
                  /\ \/ step = "headPending" /\ rows[s].status = "PENDING" /\ rows[s].aged
                     \/ step = "headFailed"
                     \/ step = "erase" /\ rows[s].status \in Deleting
  BY DEF ListItem, Deleting
<1>4. rec'[p] = step
  BY <1>0, <1>3 DEF Recto, IInv, Typed, TypeOK
<1>5. ItemOK(c, s)'
  <2>1. step = "erase" => BeingDeleted(item[p])'
    BY <1>1, <1>2, <1>3, Owners DEF BeingDeleted, Refers, Deleting
  <2>2. step = "headPending" => Matches(s, item[p].id, "PENDING")' /\ rows'[s].key = item'[p].key
                                /\ rows'[s].aged
    BY <1>1, <1>2, <1>3 DEF Matches
  <2> QED  BY <1>3, <1>4, <2>1, <2>2 DEF ItemOK, PendingSteps, EraseSteps
<1> HIDE DEF new
<1> QED  BY <1>0, <1>1, <1>2, <1>3, <1>5, LookKeeps

LEMMA LookingKeeps ==
  ASSUME IInv, NEW c \in Run, NEW s \in Slot, Head(<<c, s>>) \/ Inspect(<<c, s>>)
  PROVE  IInv'
<1> DEFINE p == <<c, s>>
<1>0. Typed' /\ p \in Run \X Slot /\ UNCHANGED <<rows, objects>> /\ ItemOK(c, s)
  BY TypedItems DEF IInv, ItemStep, Head, Inspect, Skip
<1>1. \A st : Recto(p, st) => rec'[p] = st
  BY <1>0 DEF Recto, IInv, Typed, TypeOK
<1>2. CASE Recto(p, "idle") /\ item' = item
  <2>1. ItemOK(c, s)'
    BY <1>1, <1>2 DEF ItemOK, PendingSteps, EraseSteps
  <2> QED  BY <1>0, <1>2, <2>1, LookKeeps
<1>3. CASE Head(p) /\ item' = item
  <2>1. PICK st : /\ Recto(p, st)
                  /\ \/ st \in {"inspect", "markFailed"} /\ rec[p] = "headPending"
                     \/ st \in {"idle", "drop"}
                  /\ st = "markFailed" => objects[item[p].key] = None
    BY <1>3 DEF Head, Skip
  <2>2. ItemOK(c, s)'
    BY <1>0, <1>1, <1>3, <2>1 DEF ItemOK, PendingSteps, EraseSteps, Matches
  <2> QED  BY <1>0, <1>3, <2>1, <2>2, LookKeeps
<1>4. CASE /\ rec[p] = "inspect" /\ Recto(p, "promote") /\ objects[item[p].key] \in Content
           /\ item' = [item EXCEPT ![p].found = objects[item[p].key]]
  <2> DEFINE new == [item[p] EXCEPT !.found = objects[item[p].key]]
  <2>1. item[p] # None /\ item[p] \in Listed
    BY <1>0, <1>4 DEF IInv, Typed, TypeOK, HandlersOK
  <2>2. item'[p] = new /\ \A q \in Run \X Slot : q # p => item'[q] = item[q]
    BY <1>0, <1>4 DEF IInv, Typed, TypeOK
  <2>3. new.id = item[p].id /\ new.key = item[p].key /\ new.found = objects[item[p].key]
    BY <2>1 DEF Listed
  <2> HIDE DEF new
  <2>4. Matches(s, item[p].id, "PENDING") /\ rows[s].key = item[p].key /\ rows[s].aged
    BY <1>0, <1>4 DEF ItemOK, PendingSteps
  <2>5. ItemOK(c, s)'
    BY <1>0, <1>1, <1>4, <2>2, <2>3, <2>4 DEF ItemOK, PendingSteps, EraseSteps, Matches
  <2> QED  BY <1>0, <1>4, <2>1, <2>2, <2>3, <2>5, LookKeeps
<1>5. CASE rec[p] = "inspect" /\ Recto(p, "discard") /\ item' = item
  <2>1. Matches(s, item[p].id, "PENDING") /\ rows[s].key = item[p].key /\ rows[s].aged
    BY <1>0, <1>5 DEF ItemOK, PendingSteps
  <2>2. ItemOK(c, s)'
    BY <1>0, <1>1, <1>5, <2>1 DEF ItemOK, PendingSteps, EraseSteps, Matches
  <2> QED  BY <1>0, <1>5, <2>2, LookKeeps
<1> QED  BY <1>2, <1>3, <1>4, <1>5 DEF Head, Inspect, Skip

\* The row of a pending item changes as its own listing said, once a single run holds it.
LEMMA DecideKeeps ==
  ASSUME IInv, OneRun, NEW c \in Run, NEW s \in Slot, ItemStep(<<c, s>>), Recto(<<c, s>>, "idle"),
         rec[<<c, s>>] \in PendingSteps, UNCHANGED <<objects, item>>,
         \A t \in Slot : rows'[t] # rows[t] => Matches(t, item[<<c, s>>].id, "PENDING"),
         rows'[s] # rows[s] =>
           /\ rows'[s] # None
           /\ rows'[s].status = "AVAILABLE" =>
                rows'[s].content \in Content /\ objects[item[<<c, s>>].key] = rows'[s].content
           /\ rows'[s].status = "FAILED" => objects[item[<<c, s>>].key] = None
  PROVE  IInv'
<1> DEFINE p == <<c, s>>
<1>0. Typed' /\ p \in Run \X Slot /\ ItemOK(c, s) /\ \A t \in Slot : Moves(t)
  BY TypedItems, ItemMoves DEF IInv
<1>1. /\ Matches(s, item[p].id, "PENDING") /\ rows[s].key = item[p].key /\ rows[s].aged
      /\ \A t \in Slot \ {s} : rows'[t] = rows[t]
      /\ UNCHANGED <<up, rowId, body, del, target>>
  BY <1>0, Owners DEF ItemOK, Matches, Recto
<1>2. rec'[p] = "idle"
  BY <1>0 DEF Recto, IInv, Typed, TypeOK
<1>3. FreshOK'
  BY <1>0, <1>1, FreshKept DEF IInv
<1>4. UniqueOK'
  BY <1>0, UniqueKept DEF IInv
<1>5. \A v \in Upload : UploadOK(v)'
  <2>1. \A v \in Upload, t \in Slot : Active(v) /\ rows[t] # None /\ rows[t].key = v => rows'[t] = rows[t]
    BY <1>1, Owners
  <2> QED  BY <1>0, <1>1, <2>1, UploadsKept
<1>6. \A t \in Slot : RowOK(t)'
  <2>1. \A t \in Slot : rows[t] # None /\ rows'[t] # None /\ rows'[t].status # rows[t].status =>
          /\ rows'[t].status = "AVAILABLE" =>
               rows'[t].content \in Content /\ objects[rows[t].key] = rows'[t].content
          /\ rows'[t].status = "FAILED" => objects[rows[t].key] = None
    BY <1>1
  <2> QED  BY <1>0, <2>1, RowsKept
<1>7. \A d \in Deletion : DeletionOK(d)'
  BY <1>0, <1>1, DeletionsKept
<1>8. \A e \in Run, t \in Slot : ItemOK(e, t)'
  <2>1. \A e \in Run, t \in Slot : <<e, t>> # <<c, s>> /\ rec[<<e, t>>] \in PendingSteps => rows'[t] = rows[t]
    BY <1>1 DEF OneRun
  <2>2. ItemOK(c, s)'
    BY <1>2 DEF ItemOK, PendingSteps, EraseSteps
  <2> QED  BY <1>0, <2>1, <2>2, OtherItems
<1>9. NoOrphanObject'
  <2>1. \A t \in Slot : (rows[t] # None /\ rows[t].status \in ObjectBearing
                         /\ (rows'[t] = None \/ rows'[t].status = "FAILED")) => objects'[rows[t].key] = None
    BY <1>1 DEF ObjectBearing
  <2>2. \A v \in Upload : Active(v)' <=> Active(v)
    BY <1>1 DEF Active
  <2> QED  BY <1>0, <2>1, <2>2, ObjectsKept
<1> QED  BY <1>0, <1>3, <1>4, <1>5, <1>6, <1>7, <1>8, <1>9 DEF IInv

LEMMA PromoteKeeps ==
  ASSUME IInv, OneRun, NEW c \in Run, NEW s \in Slot, Promote(<<c, s>>)
  PROVE  IInv'
<1> DEFINE p == <<c, s>>
<1>0. /\ rows \in Rows /\ p \in Run \X Slot /\ ItemStep(p) /\ Recto(p, "idle")
      /\ rec[p] = "promote" /\ UNCHANGED <<objects, item>> /\ ItemOK(c, s)
  BY DEF Promote, ItemStep, IInv, Typed, TypeOK, Rows
<1>1. item[p].found \in Content /\ objects[item[p].key] = item[p].found
  BY <1>0 DEF ItemOK
<1>2. CASE MakeAvailable(item[p].id, item[p].found)
  <2>1. \A t \in Slot : IF Matches(t, item[p].id, "PENDING") THEN Turned(t, "AVAILABLE", item[p].found)
                        ELSE rows'[t] = rows[t]
    BY <1>0, <1>1, <1>2, AvailableEffect
  <2> QED  BY <1>0, <1>1, <2>1, DecideKeeps DEF Turned, PendingSteps
<1>3. CASE rows' = rows
  BY <1>0, <1>3, DecideKeeps DEF PendingSteps
<1> QED  BY <1>2, <1>3 DEF Promote

LEMMA MarkFailedKeeps ==
  ASSUME IInv, OneRun, NEW c \in Run, NEW s \in Slot, MarkFailed(<<c, s>>)
  PROVE  IInv'
<1> DEFINE p == <<c, s>>
<1>0. /\ rows \in Rows /\ p \in Run \X Slot /\ ItemStep(p) /\ Recto(p, "idle")
      /\ rec[p] = "markFailed" /\ UNCHANGED <<objects, item>> /\ objects[item[p].key] = None
  BY DEF MarkFailed, ItemStep, IInv, ItemOK, Typed, TypeOK, Rows
<1>1. CASE UpdateWhere(item[p].id, "PENDING", "FAILED")
  <2>1. \A t \in Slot : IF Matches(t, item[p].id, "PENDING")
                        THEN Turned(t, "FAILED", rows[t].content) /\ ~rows'[t].aged
                        ELSE rows'[t] = rows[t]
    BY <1>0, <1>1, UpdateEffect DEF Status
  <2> QED  BY <1>0, <2>1, DecideKeeps DEF Turned, PendingSteps
<1>2. CASE rows' = rows
  BY <1>0, <1>2, DecideKeeps DEF PendingSteps
<1> QED  BY <1>1, <1>2 DEF MarkFailed

\* An object is removed for an item: a damaged one of its pending row, or one being deleted.
LEMMA ItemRemovalKeeps ==
  ASSUME IInv, OneRun, NEW c \in Run, NEW s \in Slot, Discard(<<c, s>>) \/ RetryErase(<<c, s>>)
  PROVE  IInv'
<1> DEFINE p == <<c, s>>
           k == item[p].key
<1>0. /\ Typed' /\ p \in Run \X Slot /\ ItemOK(c, s) /\ \A t \in Slot : Moves(t)
      /\ rec[p] \in {"discard", "erase"} /\ k \in Upload
  BY TypedItems, ItemMoves
  DEF ItemStep, Discard, RetryErase, IInv, Typed, TypeOK, HandlersOK, Listed
<1>1. PICK step :
        /\ Recto(p, step)
        /\ \/ rec[p] = "discard" /\ step \in {"idle", "markFailed"}
           \/ rec[p] = "erase" /\ step \in {"purge", "mark"}
        /\ step \in {"markFailed", "purge"} => objects'[k] = None
        /\ objects' \in {objects, [objects EXCEPT ![k] = None]}
        /\ UNCHANGED <<rows, item>>
  BY <1>0 DEF Discard, RetryErase, Skip, IInv, Typed, TypeOK
<1>2. /\ rec'[p] = step
      /\ UNCHANGED <<up, rowId, body, del, target>>
      /\ \A v \in Upload : objects'[v] \in {None, objects[v]} /\ (v # k => objects'[v] = objects[v])
  BY <1>0, <1>1 DEF Recto, IInv, Typed, TypeOK
<1>3. ~Active(k)
  BY <1>0, Owners DEF PendingSteps, EraseSteps
<1>4. /\ \A t \in Slot : rows[t] # None /\ rows[t].key = k =>
           rows[t].status # "AVAILABLE" /\ (t = s \/ rows[t].status \in Deleting)
      /\ rec[p] = "discard" => Matches(s, item[p].id, "PENDING") /\ rows[s].key = k /\ rows[s].aged
      /\ rec[p] = "erase" => BeingDeleted(item[p])
  BY <1>0, Owners DEF ItemOK, Matches, PendingSteps, EraseSteps, BeingDeleted, Refers, Deleting
<1>5. \A e \in Run, t \in Slot : <<e, t>> # p /\ rec[<<e, t>>] \in PendingSteps => item[<<e, t>>].key # k
  <2>1. ASSUME NEW e \in Run, NEW t \in Slot, <<e, t>> # p, rec[<<e, t>>] \in PendingSteps,
               item[<<e, t>>].key = k
        PROVE  FALSE
    <3>1. rows[t] # None /\ rows[t].key = k /\ rows[t].status = "PENDING"
      BY <2>1 DEF IInv, ItemOK, Matches
    <3>2. t = s
      BY <1>4, <3>1 DEF Deleting
    <3> QED  BY <2>1, <3>2 DEF OneRun
  <2> QED  BY <2>1
<1> HIDE DEF k
<1>6. /\ FreshOK' /\ UniqueOK' /\ NoOrphanObject'
      /\ \A v \in Upload : UploadOK(v)'
      /\ \A t \in Slot : RowOK(t)'
  BY <1>0, <1>1, <1>2, <1>3, <1>4, RemovalKeeps
<1>7. \A d \in Deletion : DeletionOK(d)'
  <2>1. \A d \in Deletion : Working(d) => target[d].key \in Upload
    BY DEF IInv, Typed, TypeOK, HandlersOK, Target
  <2> QED  BY <1>0, <1>2, <2>1, DeletionsKept
<1>8. \A e \in Run, t \in Slot : ItemOK(e, t)'
  <2>1. \A q \in Run \X Slot : rec[q] \in PendingSteps \cup EraseSteps => item[q].key \in Upload
    BY DEF IInv, Typed, TypeOK, HandlersOK, Listed, PendingSteps, EraseSteps
  <2>2. \A q \in Run \X Slot : q # p /\ rec[q] \in PendingSteps => item[q].key # k
    BY <1>5
  <2>3. \A q \in Run \X Slot : q # <<c, s>> /\ rec[q] = "promote" => objects'[item[q].key] = objects[item[q].key]
    BY <1>2, <2>1, <2>2 DEF PendingSteps
  <2>4. \A q \in Run \X Slot : rec[q] \in {"markFailed", "purge"} =>
          objects'[item[q].key] \in {None, objects[item[q].key]}
    BY <1>2, <2>1 DEF PendingSteps, EraseSteps
  <2>5. ItemOK(c, s)'
    <3>1. rec[p] = "erase" => BeingDeleted(item[p])'
      BY <1>1, <1>4 DEF BeingDeleted, Refers
    <3>2. rec[p] = "discard" => Matches(s, item[p].id, "PENDING")' /\ rows'[s].key = item'[p].key
                                /\ rows'[s].aged
      BY <1>1, <1>4 DEF Matches, k
    <3> QED  BY <1>1, <1>2, <3>1, <3>2 DEF ItemOK, PendingSteps, EraseSteps, k
  <2> QED  BY <1>0, <1>1, <2>3, <2>4, <2>5, OtherItems
<1> QED  BY <1>0, <1>6, <1>7, <1>8 DEF IInv

\* An item's last step on a row that is not pending.
LEMMA SettleKeeps ==
  ASSUME IInv, NEW c \in Run, NEW s \in Slot,
         \/ DropFailed(<<c, s>>)
         \/ RetryPurge(<<c, s>>)
         \/ RetryMark(<<c, s>>)
  PROVE  IInv'
<1> DEFINE p == <<c, s>>
<1>0. /\ Typed' /\ p \in Run \X Slot /\ ItemOK(c, s) /\ rows \in Rows /\ \A t \in Slot : Moves(t)
      /\ rec[p] \in {"drop", "purge", "mark"} /\ UNCHANGED <<objects, item>>
      /\ rec[p] \in {"purge", "mark"} => item[p].status \in Deleting
  BY TypedItems, ItemMoves
  DEF ItemStep, DropFailed, RetryPurge, RetryMark, IInv, Typed, TypeOK, HandlersOK, Rows, EraseSteps
<1>1. PICK step \in {"idle", "mark"} : Recto(p, step) /\ (step = "mark" => rec[p] = "purge" /\ rows' = rows)
  BY DEF DropFailed, RetryPurge, RetryMark
<1>2. rec'[p] = step /\ UNCHANGED <<up, rowId, body, del, target>>
  BY <1>0, <1>1 DEF Recto, IInv, Typed, TypeOK
<1>3. /\ \A t \in Slot : rows[t] # None /\ rows[t].status = "PENDING" => rows'[t] = rows[t]
      /\ \A t \in Slot : rows[t] # None /\ rows'[t] = None => objects[rows[t].key] = None
  <2>1. CASE rows' = rows
    BY <2>1
  <2>2. CASE DropFailed(p) /\ DeleteWhere(item[p].id, "FAILED")
    <3>1. \A t \in Slot : rows'[t] = IF Matches(t, item[p].id, "FAILED") THEN None ELSE rows[t]
      BY <1>0, <2>2, DeleteEffect
    <3> QED  BY <3>1 DEF IInv, RowOK, Is, Matches
  <2>3. CASE RetryPurge(p) /\ DeleteWhere(item[p].id, item[p].status)
    <3>1. \A t \in Slot : rows'[t] = IF Matches(t, item[p].id, item[p].status) THEN None ELSE rows[t]
      BY <1>0, <2>3, DeleteEffect
    <3>2. rec[p] = "purge" /\ item[p].status \in Deleting
      BY <1>0, <2>3 DEF RetryPurge
    <3>3. BeingDeleted(item[p]) /\ objects[item[p].key] = None
      BY <1>0, <3>2 DEF ItemOK, EraseSteps
    <3> QED  BY <3>1, <3>2, <3>3 DEF BeingDeleted, Refers, Matches, Deleting
  <2>4. CASE RetryMark(p) /\ UpdateWhere(item[p].id, item[p].status, "DELETE_FAILED")
    <3>1. \A t \in Slot : IF Matches(t, item[p].id, item[p].status)
                          THEN Turned(t, "DELETE_FAILED", rows[t].content) /\ ~rows'[t].aged
                          ELSE rows'[t] = rows[t]
      BY <1>0, <2>4, UpdateEffect DEF Status
    <3>2. item[p].status \in Deleting
      BY <1>0, <2>4 DEF RetryMark
    <3> QED  BY <3>1, <3>2 DEF Turned, Matches, Deleting
  <2> QED  BY <2>1, <2>2, <2>3, <2>4 DEF DropFailed, RetryPurge, RetryMark
<1>4. /\ FreshOK' /\ UniqueOK' /\ NoOrphanObject'
      /\ \A v \in Upload : UploadOK(v)'
      /\ \A t \in Slot : RowOK(t)'
      /\ \A e \in Run, t \in Slot : rec[<<e, t>>] \in PendingSteps => rows'[t] = rows[t]
  BY <1>0, <1>2, <1>3, QuietRows
<1>5. \A d \in Deletion : DeletionOK(d)'
  BY <1>0, <1>2, DeletionsKept
<1>6. \A e \in Run, t \in Slot : ItemOK(e, t)'
  <2>1. CASE step = "idle"
    <3>1. ItemOK(c, s)'
      BY <1>2, <2>1 DEF ItemOK, PendingSteps, EraseSteps
    <3> QED  BY <1>0, <1>1, <1>4, <3>1, OtherItems
  <2>2. CASE step = "mark" /\ rows' = rows
    <3>1. BeingDeleted(item[p])'
      BY <1>0, <1>1, <2>2 DEF ItemOK, EraseSteps, BeingDeleted, Refers
    <3>2. ItemOK(c, s)'
      BY <1>0, <1>2, <2>2, <3>1 DEF ItemOK, PendingSteps, EraseSteps
    <3> QED  BY <1>0, <1>1, <1>4, <3>2, OtherItems
  <2> QED  BY <1>1, <2>1, <2>2
<1> QED  BY <1>0, <1>4, <1>5, <1>6 DEF IInv

-----------------------------------------------------------------------------
(* The environment, and the theorems.                                      *)

LEMMA AgeKeeps ==
  ASSUME IInv, Benign, NEW s \in Slot, Age(s)
  PROVE  IInv'
<1>0. Typed' /\ rows \in Rows /\ \A t \in Slot : Moves(t)
  BY TypedEnvironment, AgeMoves DEF IInv, Typed, TypeOK, Rows
<1>1. /\ Turned(s, rows[s].status, rows[s].content) /\ rows'[s].aged
      /\ \A t \in Slot \ {s} : rows'[t] = rows[t]
  BY <1>0, AgeEffect
<1>2. /\ UNCHANGED <<objects, up, rowId, body, del, target, rec, item>>
      /\ ~rows[s].aged /\ \A u \in Upload : Active(u) => rowId[u] # rows[s].id
  BY DEF Age, Benign, Fault
<1>3. \A v \in Upload : UploadOK(v)'
  <2>1. \A v \in Upload, t \in Slot : Active(v) /\ rows[t] # None /\ rows[t].key = v => rows'[t] = rows[t]
    BY <1>1, <1>2, Owners DEF Matches
  <2> QED  BY <1>0, <1>2, <2>1, UploadsKept
<1>4. \A d \in Deletion : DeletionOK(d)'
  BY <1>0, <1>2, DeletionsKept
<1>5. \A c \in Run, t \in Slot : ItemOK(c, t)'
  <2>1. \A c \in Run, t \in Slot : rec[<<c, t>>] \in PendingSteps => rows'[t] = rows[t]
    BY <1>1, <1>2 DEF IInv, ItemOK
  <2> QED  BY <1>0, <1>2, <2>1, AllItemsKept
<1>6. FreshOK' /\ UniqueOK'
  BY <1>0, <1>2, FreshKept, UniqueKept DEF IInv
<1>7. \A t \in Slot : RowOK(t)'
  BY <1>0, <1>1, <1>2, RowsKept DEF Turned
<1>8. NoOrphanObject'
  <2>1. \A t \in Slot : (rows[t] # None /\ rows[t].status \in ObjectBearing
                         /\ (rows'[t] = None \/ rows'[t].status = "FAILED")) => objects'[rows[t].key] = None
    BY <1>1 DEF Turned, ObjectBearing
  <2>2. \A v \in Upload : Active(v)' <=> Active(v)
    BY <1>2 DEF Active
  <2> QED  BY <1>0, <1>2, <2>1, <2>2, ObjectsKept
<1> QED  BY <1>0, <1>3, <1>4, <1>5, <1>6, <1>7, <1>8 DEF IInv

LEMMA CrashKeeps ==
  ASSUME IInv, Crash
  PROVE  IInv'
<1>0. Typed'
  BY TypedEnvironment DEF IInv
<1>1. ASSUME NEW u \in Upload, Active(u), Upto(u, "crashed"), UNCHANGED <<rows, objects>>
      PROVE  IInv'
  <2>0. /\ \A v \in Upload \ {u} : up'[v] = up[v]
        /\ up'[u] = "crashed" /\ \A t \in Slot : Moves(t)
        /\ UNCHANGED <<rowId, body, del, target, rec, item>>
    BY <1>1 DEF Upto, Moves, IInv, Typed, TypeOK
  <2>1. \A v \in Upload : UploadOK(v)'
    <3>1. \A v \in Upload \ {u} : UploadOK(v)'
      BY <1>1, <2>0, UploadsKept
    <3>2. UploadOK(u)'
      BY <2>0 DEF UploadOK, Active, UploadSteps
    <3> QED  BY <3>1, <3>2
  <2>2. FreshOK' /\ UniqueOK'
    BY <1>1, <2>0, FreshKept, UniqueKept DEF IInv
  <2>3. (\A d \in Deletion : DeletionOK(d)') /\ (\A c \in Run, t \in Slot : ItemOK(c, t)')
    BY <1>1, <2>0, DeletionsKept, AllItemsKept
  <2>4. \A t \in Slot : RowOK(t)'
    BY <1>1 DEF IInv, RowOK, Is
  <2>5. NoOrphanObject'
    <3>1. \E t \in Slot : rows'[t] # None /\ rows'[t].key = u /\ rows'[t].status \in ObjectBearing
      BY <1>1 DEF IInv, UploadOK, Matches, ObjectBearing, Status
    <3> QED  BY <1>1, <2>0, <3>1 DEF IInv, NoOrphanObject, With, Active
  <2> QED  BY <1>0, <2>1, <2>2, <2>3, <2>4, <2>5 DEF IInv
<1>2. ASSUME NEW d \in Deletion, Working(d), Delto(d, "done"), UNCHANGED <<rows, objects, target>>
      PROVE  IInv'
  <2>0. /\ \A e \in Deletion \ {d} : del'[e] = del[e]
        /\ del'[d] = "done" /\ \A t \in Slot : Moves(t)
        /\ UNCHANGED <<up, rowId, body, rec, item>>
    BY <1>2 DEF Delto, Moves, IInv, Typed, TypeOK
  <2>1. \A e \in Deletion : DeletionOK(e)'
    <3>1. \A e \in Deletion \ {d} : DeletionOK(e)'
      BY <1>2, <2>0, DeletionsKept
    <3>2. DeletionOK(d)'
      BY <2>0 DEF DeletionOK, Working, DeleteSteps
    <3> QED  BY <3>1, <3>2
  <2>2. FreshOK' /\ UniqueOK'
    BY <1>2, <2>0, FreshKept, UniqueKept DEF IInv
  <2>3. (\A v \in Upload : UploadOK(v)') /\ (\A c \in Run, t \in Slot : ItemOK(c, t)')
    BY <1>2, <2>0, UploadsKept, AllItemsKept
  <2>4. (\A t \in Slot : RowOK(t)') /\ NoOrphanObject'
    BY <1>2, <2>0 DEF IInv, RowOK, Is, NoOrphanObject, With, Active
  <2> QED  BY <1>0, <2>1, <2>2, <2>3, <2>4 DEF IInv
<1>3. ASSUME NEW c \in Run, NEW s \in Slot, Skip(<<c, s>>)
      PROVE  IInv'
  <2>1. rec'[<<c, s>>] = "idle"
    BY <1>3 DEF Skip, Recto, IInv, Typed, TypeOK
  <2>2. ItemOK(c, s)'
    BY <2>1 DEF ItemOK, PendingSteps, EraseSteps
  <2> QED  BY <1>0, <1>3, <2>2, LookKeeps DEF Skip
<1> QED  BY <1>1, <1>2, <1>3 DEF Crash

LEMMA BypassKeeps ==
  ASSUME IInv, NEW u \in Upload, Bypass(u)
  PROVE  IInv'
<1>0. Typed' /\ \A t \in Slot : Moves(t)
  BY TypedEnvironment DEF IInv, Bypass, Moves
<1>1. /\ objects[u] \in Content /\ ~Active(u)
      /\ \A v \in Upload \ {u} : objects'[v] = objects[v]
      /\ objects' \in [Upload -> Content \cup {Damaged, None}]
      /\ \A p \in Run \X Slot : rec[p] # "promote"
      /\ UNCHANGED <<rows, up, rowId, body, del, target, rec, item>>
  BY <1>0 DEF Bypass, IInv, Typed, TypeOK
<1>2. PICK s \in Slot : rows[s] # None /\ rows[s].status = "PENDING" /\ rows[s].key = u
  BY DEF Bypass, Is
<1>3. \A t \in Slot : rows[t] # None /\ rows[t].key = u => t = s
  BY <1>2, Owners
<1>4. \A t \in Slot : RowOK(t)'
  BY <1>0, <1>1, <1>2, <1>3, ObjectStep DEF Is
<1>5. objects[u] # None
  BY <1>1, BodiesAssumption
<1>6. \A v \in Upload : UploadOK(v)'
  <2>1. \A v \in Upload \ {u} : UploadOK(v)'
    BY <1>0, <1>1, UploadsKept
  <2>2. UploadOK(u)'
    BY <1>1 DEF IInv, UploadOK, Active, UploadSteps, Matches
  <2> QED  BY <2>1, <2>2
<1>7. \A d \in Deletion : DeletionOK(d)'
  <2>1. \A d \in Deletion : Working(d) => target[d].key \in Upload /\ target[d].key # u
    BY <1>2 DEF IInv, DeletionOK, BeingDeleted, Refers, Deleting, Typed, TypeOK, HandlersOK, Target
  <2> QED  BY <1>0, <1>1, <2>1, DeletionsKept
<1>8. \A c \in Run, t \in Slot : ItemOK(c, t)'
  <2>1. \A p \in Run \X Slot : rec[p] \in PendingSteps \cup EraseSteps => item[p].key \in Upload
    BY DEF IInv, Typed, TypeOK, HandlersOK, Listed, PendingSteps, EraseSteps
  <2>2. \A c \in Run, t \in Slot : rec[<<c, t>>] \in {"markFailed", "purge"} => objects[item[<<c, t>>].key] = None
    BY DEF IInv, ItemOK
  <2>3. \A p \in Run \X Slot : rec[p] \in {"markFailed", "purge"} => objects'[item[p].key] = objects[item[p].key]
    BY <1>1, <1>5, <2>1, <2>2 DEF PendingSteps, EraseSteps
  <2>4. \A c \in Run, t \in Slot : rec[<<c, t>>] \in PendingSteps => rows'[t] = rows[t]
    BY <1>1
  <2> QED  BY <1>0, <1>1, <2>3, <2>4, AllItemsKept
<1>9. FreshOK' /\ UniqueOK'
  <2>1. \A v \in Upload : up'[v] \in Unreserved => up[v] \in Unreserved /\ objects'[v] = objects[v]
    BY <1>1, <1>5 DEF IInv, FreshOK
  <2> QED  BY <1>0, <1>1, <2>1, FreshKept, UniqueKept DEF IInv
<1>10. NoOrphanObject'
  BY <1>1, <1>5 DEF IInv, NoOrphanObject, With, Active
<1> QED  BY <1>0, <1>4, <1>6, <1>7, <1>8, <1>9, <1>10 DEF IInv

LEMMA IInvInit == Init => IInv
<1> SUFFICES ASSUME Init  PROVE IInv
  OBVIOUS
<1>1. Typed
  BY TypedInit
<1>2. FreshOK
  BY NoneAssumption DEF Init, FreshOK
<1>20. UniqueOK /\ NoOrphanObject
  BY DEF Init, UniqueOK, Refers, NoOrphanObject
<1>3. (\A u \in Upload : UploadOK(u)) /\ (\A s \in Slot : RowOK(s))
  BY DEF Init, UploadOK, Active, UploadSteps, RowOK, Is
<1>4. (\A d \in Deletion : DeletionOK(d)) /\ (\A c \in Run, s \in Slot : ItemOK(c, s))
  BY DEF Init, DeletionOK, Working, DeleteSteps, ItemOK, PendingSteps, EraseSteps
<1> QED  BY <1>1, <1>2, <1>20, <1>3, <1>4 DEF IInv

LEMMA IInvNext ==
  ASSUME OneRun, Benign, IInv, [Next]_vars
  PROVE  IInv'
<1>1. ASSUME NEW p \in Run \X Slot, ItemStep(p)  PROVE IInv'
  <2>1. PICK c \in Run, s \in Slot : p = <<c, s>>
    OBVIOUS
  <2> QED  BY <1>1, <2>1, LookingKeeps, PromoteKeeps, MarkFailedKeeps, ItemRemovalKeeps, SettleKeeps
           DEF ItemStep
<1>2. ASSUME NEW u \in Upload, UploadStep(u)  PROVE IInv'
  BY <1>2, SendKeeps, FinalizeKeeps, RemoveKeeps, VerifyKeeps, ReleaseKeeps DEF UploadStep
<1>3. ASSUME NEW d \in Deletion, DeleteStep(d)  PROVE IInv'
  BY <1>3, EraseKeeps, EndKeeps DEF DeleteStep
<1>4. ASSUME NEW u \in Upload, LatePut(u)  PROVE FALSE
  BY <1>4 DEF LatePut, Benign, Fault
<1>5. CASE UNCHANGED vars
  <2>1. Typed' /\ \A s \in Slot : Moves(s)
    BY <1>5, TypedStep DEF IInv, vars, Moves
  <2>2. (\A u \in Upload : UploadOK(u)') /\ FreshOK' /\ UniqueOK'
    BY <1>5, <2>1, UploadsKept, FreshKept, UniqueKept DEF vars, IInv
  <2>3. (\A d \in Deletion : DeletionOK(d)') /\ (\A c \in Run, s \in Slot : ItemOK(c, s)')
    BY <1>5, <2>1, DeletionsKept, AllItemsKept DEF vars
  <2>4. (\A s \in Slot : RowOK(s)') /\ NoOrphanObject'
    BY <1>5 DEF vars, IInv, RowOK, Is, NoOrphanObject, With, Active
  <2> QED  BY <2>1, <2>2, <2>3, <2>4 DEF IInv
<1> QED  BY <1>1, <1>2, <1>3, <1>4, <1>5, ReserveKeeps, BeginKeeps, ListKeeps, AgeKeeps, CrashKeeps,
            BypassKeeps DEF Next

LEMMA AlwaysIInv ==
  ASSUME OneRun, Benign
  PROVE  Spec => []IInv
<1>1. IInv /\ [Next]_vars => IInv'
  BY IInvNext
<1> QED  BY <1>1, IInvInit, PTL DEF Spec

\* AvailableHasObject for any number of slots, uploads, deletions and bodies, whatever crashes,
\* storage or database calls fail, or bytes are replaced.
THEOREM AvailableIsStored ==
  ASSUME OneRun, Benign
  PROVE  Spec => []AvailableHasObject
<1>1. IInv => AvailableHasObject
  BY BodiesAssumption DEF IInv, RowOK, Is, AvailableHasObject
<1> QED  BY <1>1, AlwaysIInv, PTL

\* NoOrphanObject: every stored object has an upload at work or a row that counts.
THEOREM ObjectsAreOwned ==
  ASSUME OneRun, Benign
  PROVE  Spec => []NoOrphanObject
<1>1. IInv => NoOrphanObject
  BY DEF IInv
<1> QED  BY <1>1, AlwaysIInv, PTL

\* CreatedMeansStored: what an upload was told is available are its own bytes.
THEOREM CreatedIsStored ==
  ASSUME OneRun, Benign
  PROVE  Spec => []CreatedMeansStored
<1>1. IInv => CreatedMeansStored
  BY DEF IInv, UploadOK, Is, CreatedMeansStored
<1> QED  BY <1>1, AlwaysIInv, PTL

\* RemovedMeansErased: a row goes only after its object.
THEOREM ObjectsGoFirst ==
  ASSUME OneRun, Benign
  PROVE  Spec => RemovedMeansErased
<1> DEFINE First == \A s \in Slot : rows[s] # None /\ rows'[s] = None => objects[rows[s].key] = None
<1>1. ASSUME IInv, [Next]_vars, NEW s \in Slot, rows[s] # None, rows'[s] = None
      PROVE  objects[rows[s].key] = None
  <2>0. Next /\ Typed /\ rows \in Rows
    BY <1>1 DEF vars, IInv, Typed, TypeOK, Rows
  <2>1. rows[s].status \in {"FAILED"} \cup Deleting
    <3>1. ASSUME NEW u \in Upload, NEW t \in Slot, NEW b \in Content \cup {Damaged}, Reserved(u, t, b)
          PROVE  FALSE
      <4>1. \A r \in Slot \ {t} : rows'[r] = rows[r]
        BY <2>0, <3>1 DEF Reserved, Typed, TypeOK
      <4> QED  BY <1>1, <3>1, <4>1 DEF Reserved
    <3> QED  BY <1>1, <2>0, <3>1, RowStep DEF Moves, Turned
  <2>2. CASE rows[s].status = "FAILED"
    BY <1>1, <2>2 DEF IInv, RowOK, Is
  <2>3. CASE rows[s].status \in Deleting
    <3>1. PICK x : BeingDeleted(x) /\ Refers(s, x) /\ objects[x.key] = None
      <4>1. ASSUME NEW d \in Deletion, PurgeRow(d), rows' # rows
            PROVE  BeingDeleted(target[d]) /\ objects[target[d].key] = None /\ rows[s].id = target[d].id
        <5>1. \A t \in Slot : rows'[t] = IF Matches(t, target[d].id, "DELETING") THEN None ELSE rows[t]
          BY <2>0, <4>1, DeleteEffect DEF PurgeRow
        <5> QED  BY <1>1, <4>1, <5>1 DEF IInv, DeletionOK, Working, DeleteSteps, PurgeRow, Matches
      <4>2. ASSUME NEW c \in Run, NEW t \in Slot, RetryPurge(<<c, t>>), rows' # rows
            PROVE  LET p == <<c, t>> IN
                   BeingDeleted(item[p]) /\ objects[item[p].key] = None /\ rows[s].id = item[p].id
        <5> DEFINE p == <<c, t>>
        <5>1. \A r \in Slot : rows'[r] = IF Matches(r, item[p].id, item[p].status) THEN None ELSE rows[r]
          BY <2>0, <4>2, DeleteEffect DEF RetryPurge
        <5> QED  BY <1>1, <4>2, <5>1 DEF IInv, ItemOK, EraseSteps, RetryPurge, Matches
      <4>3. ASSUME NEW c \in Run, NEW t \in Slot, DropFailed(<<c, t>>)
            PROVE  FALSE
        BY <1>1, <2>3, <4>3 DEF DropFailed, DeleteWhere, Matches, Deleting
      <4>4. (\E d \in Deletion : PurgeRow(d)) \/ (\E c \in Run, t \in Slot : RetryPurge(<<c, t>>))
        <5>1. ASSUME NEW id, NEW st, NEW next \in Status, UpdateWhere(id, st, next)  PROVE FALSE
          BY <1>1, <2>0, <5>1, UpdateEffect DEF Turned
        <5>2. ASSUME NEW id, NEW bytes \in Content \cup {None}, MakeAvailable(id, bytes)  PROVE FALSE
          BY <1>1, <2>0, <5>2, AvailableEffect DEF Turned
        <5>3. ASSUME NEW u \in Upload, UploadStep(u)  PROVE FALSE
          BY <1>1, <2>0, <5>1, <5>2, <5>3
          DEF UploadStep, Send, Finalize, RemoveObject, VerifyRemoved, Release, Typed, TypeOK, HandlersOK,
              Status
        <5>4. ASSUME NEW d \in Deletion, NEW t \in Slot, BeginDelete(d, t)  PROVE FALSE
          BY <1>1, <2>0, <5>4, BeginEffect DEF Turned
        <5>5. ASSUME NEW d \in Deletion, DeleteStep(d)  PROVE PurgeRow(d)
          BY <1>1, <5>1, <5>5 DEF DeleteStep, EraseObject, MarkDeleteFailed, Status
        <5>6. ASSUME NEW c \in Run, NEW t \in Slot, ItemStep(<<c, t>>)
              PROVE  RetryPurge(<<c, t>>)
          <6>1. rec[<<c, t>>] # "idle" => item[<<c, t>>].found \in Content \cup {None}
            BY <2>0 DEF Typed, TypeOK, HandlersOK, Listed
          <6> QED  BY <1>1, <4>3, <5>1, <5>2, <5>6, <6>1
                   DEF ItemStep, Head, Inspect, Promote, Discard, MarkFailed, RetryErase, RetryMark, Skip,
                       Status
        <5>7. ASSUME NEW t \in Slot, Age(t)  PROVE FALSE
          BY <1>1, <2>0, <5>7, AgeEffect DEF Turned
        <5>8. rows' # rows
          BY <1>1
        <5>9. ASSUME NEW u \in Upload, ReserveStep(u)  PROVE FALSE
          BY <1>1, <2>0, <2>3, <5>8, <5>9, ReserveEffect
          DEF Reserved, Waits, Reservable, Is, Deleting, Typed, TypeOK
        <5>10. ASSUME NEW p \in Run \X Slot, ItemStep(p)
               PROVE  \E c \in Run, t \in Slot : RetryPurge(<<c, t>>)
          <6>1. PICK c \in Run, t \in Slot : p = <<c, t>>
            OBVIOUS
          <6> QED  BY <5>6, <5>10, <6>1
        <5> QED  BY <2>0, <5>3, <5>4, <5>5, <5>7, <5>8, <5>9, <5>10
                 DEF Next, ListItem, Crash, Skip, LatePut, Bypass
      <4>5. rows' # rows
        BY <1>1
      <4> QED  BY <1>1, <4>1, <4>2, <4>4, <4>5 DEF Refers
    <3> QED  BY <3>1 DEF BeingDeleted
  <2> QED  BY <2>1, <2>2, <2>3
<1>2. IInv /\ [Next]_vars => First
  BY <1>1
<1> QED  BY <1>2, AlwaysIInv, PTL DEF Spec, RemovedMeansErased

=============================================================================
