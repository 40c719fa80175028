------------------------- MODULE AttachmentSection -------------------------
(* The attachments of a task in its detail sheet: frontend features/       *)
(* attachments/components/attachment-section.tsx, model/                   *)
(* attachment-collection.ts and api/attachments-api.ts. To this component  *)
(* the API is what AttachmentLifecycle shows it to be: an idempotency key  *)
(* stands for one row, and a deletion erases or leaves a failed row.       *)
(*                                                                         *)
(* Every list request aborts the one before it and takes the next request  *)
(* id, so that one at most can change the state; the others are forgotten. *)
EXTENDS FiniteSets, FiniteSetsExt, Naturals

CONSTANTS MaxRows,   \* bound: attachments ever stored
          MaxFiles,  \* bound: files chosen
          Limit,     \* attachments per page
          None

Top == MaxRows + 1
Failure == [failed |-> TRUE, gone |-> FALSE]
Gone == [failed |-> TRUE, gone |-> TRUE]      \* 403 or 404
Done == [failed |-> FALSE, gone |-> FALSE]

Listing == [items : SUBSET [id : Nat, ok : BOOLEAN], next : 0..MaxRows, failed : {FALSE}]
ListRequest == [below : Nat, awaited : BOOLEAN, answer : Listing \cup {Failure, None}]
UploadRequest == [key : Nat, answer : {Failure, Done, None}]
RowRequest == [id : Nat, answer : {Failure, Gone, Done, None}]   \* a download or a deletion
Attempt == [file : Nat, key : Nat, status : {"ready", "uploading", "canceled", "error"}]

VARIABLES server,  \* rows, uploads that may still reach it, rows ever stored
          view,    \* the component's state
          net,     \* the requests in flight
          past     \* history: files chosen so far

vars == <<server, view, net, past>>

NewView ==
  [list |-> "loading", items |-> {}, cursor |-> 0, pagePending |-> FALSE, pageError |-> FALSE,
   attempt |-> None, downloading |-> 0, target |-> 0, deletePending |-> FALSE, blocked |-> {}]
List(below, awaited) == [below |-> below, awaited |-> awaited, answer |-> None]
NewNet == [list |-> List(Top, FALSE), upload |-> None, download |-> None, delete |-> None]

Init ==
  /\ \E n \in 0..MaxRows :
       server = [rows |-> {[id |-> i, key |-> 0, file |-> 0, ok |-> TRUE] : i \in 1..n},
                 sent |-> {}, stored |-> n]
  /\ view = NewView /\ net = NewNet /\ past = 0

-----------------------------------------------------------------------------
(* The server.                                                             *)

Ids(rows) == {r.id : r \in rows}
Public(r) == [id |-> r.id, ok |-> r.ok]   \* toPublicAttachment

\* The cursor encodes the last attachment of a page; there is none when nothing is older.
Cursor(older, page) == IF page = older THEN 0 ELSE Min(Ids(page))

Page(below) ==
  LET older == {r \in server.rows : r.id < below}
      page == {r \in older : Cardinality({q \in older : q.id > r.id}) < Limit}
  IN [items |-> {Public(r) : r \in page}, next |-> Cursor(older, page), failed |-> FALSE]

ServeList ==
  /\ net.list # None /\ net.list.answer = None
  /\ net' = [net EXCEPT !.list.answer = Page(net.list.below)]
  /\ UNCHANGED <<server, view, past>>

\* An upload is carried out, perhaps after it was canceled; its key makes it one row.
Store(u) ==
  IF \E r \in server.rows : r.key = u.key THEN [server EXCEPT !.sent = @ \ {u}]
  ELSE [rows |-> server.rows \cup {[id |-> server.stored + 1, key |-> u.key, file |-> u.file,
                                    ok |-> TRUE]},
        sent |-> server.sent \ {u}, stored |-> server.stored + 1]
ServeUpload ==
  /\ \E u \in server.sent :
       /\ server.stored < MaxRows \/ \E r \in server.rows : r.key = u.key
       /\ server' = Store(u)
       /\ net' = IF net.upload # None /\ net.upload.key = u.key
                 THEN [net EXCEPT !.upload.answer = Done] ELSE net
  /\ UNCHANGED <<view, past>>

\* A deletion, of this component or of another member, whose storage step may fail.
Deleted(id, erased) ==
  [server EXCEPT !.rows = IF erased THEN {r \in @ : r.id # id}
                          ELSE {IF r.id = id THEN [r EXCEPT !.ok = FALSE] ELSE r : r \in @}]
ServeDelete ==
  /\ net.delete # None /\ net.delete.answer = None
  /\ LET id == net.delete.id IN
     IF id \notin Ids(server.rows)
     THEN UNCHANGED server /\ net' = [net EXCEPT !.delete.answer = Gone]
     ELSE \E erased \in BOOLEAN :
            /\ server' = Deleted(id, erased)
            /\ net' = [net EXCEPT !.delete.answer = IF erased THEN Done ELSE Failure]
  /\ UNCHANGED <<view, past>>
Elsewhere ==
  /\ \E id \in Ids(server.rows) : server' = Deleted(id, TRUE)
  /\ UNCHANGED <<view, net, past>>

ServeDownload ==
  /\ net.download # None /\ net.download.answer = None
  /\ net' = [net EXCEPT !.download.answer =
                IF \E r \in server.rows : r.id = net.download.id /\ r.ok THEN Done ELSE Gone]
  /\ UNCHANGED <<server, view, past>>

Fail ==
  /\ \E w \in {"list", "upload", "download", "delete"} :
       /\ net[w] # None /\ net[w].answer = None
       /\ net' = [net EXCEPT ![w].answer = Failure]
  /\ UNCHANGED <<server, view, past>>

-----------------------------------------------------------------------------
(* The list.                                                               *)

\* loadInitial up to its await.
Loading(v) == [v EXCEPT !.list = "loading", !.pageError = FALSE, !.pagePending = FALSE]
LoadInitial(v, n, awaited) ==
  view' = Loading(v) /\ net' = [n EXCEPT !.list = List(Top, awaited)]

Retry ==
  /\ view.list = "error" /\ LoadInitial(view, net, FALSE)
  /\ UNCHANGED <<server, past>>

\* "Load older attachments" below the list, or "Retry" in its place.
MoreOffered == view.list = "success" /\ view.cursor # 0 /\ ~view.pagePending
LoadMore ==
  /\ MoreOffered
  /\ view' = [view EXCEPT !.pagePending = TRUE, !.pageError = FALSE]
  /\ net' = [net EXCEPT !.list = List(view.cursor, FALSE)]
  /\ UNCHANGED <<server, past>>

\* reconcileAttachmentPage
Reconciled(p, append) ==
  p.items \cup (IF append THEN {x \in view.items : x.id \notin Ids(p.items)} ELSE {})

ListArrives ==
  LET r == net.list
      append == r.below # Top
  IN /\ r # None /\ r.answer # None
     /\ net' = [net EXCEPT !.list = None]
     /\ view' = IF r.answer = Failure
                THEN IF append THEN [view EXCEPT !.pageError = TRUE, !.pagePending = FALSE]
                               ELSE [view EXCEPT !.list = "error"]
                ELSE [view EXCEPT !.items = Reconciled(r.answer, append), !.list = "success",
                                  !.cursor = r.answer.next, !.pagePending = FALSE]
     /\ UNCHANGED <<server, past>>

-----------------------------------------------------------------------------
(* Uploads. uploadPendingRef stays set while the list after an upload is   *)
(* awaited.                                                                *)

Uploading == IF view.attempt = None THEN FALSE ELSE view.attempt.status = "uploading"
UploadPending == net.upload # None \/ (net.list # None /\ net.list.awaited)

\* selectFile: a valid file gets a key of its own; an invalid one ends the attempt.
FileOffered == ~Uploading
SelectFile ==
  /\ FileOffered
  /\ \/ /\ past < MaxFiles /\ past' = past + 1
        /\ view' = [view EXCEPT !.attempt = [file |-> past', key |-> past', status |-> "ready"]]
     \/ view.attempt # None /\ view' = [view EXCEPT !.attempt = None] /\ UNCHANGED past
  /\ UNCHANGED <<server, net>>

\* Mutant: each try gets a key of its own.
StartUploadNewKey ==
  /\ view.attempt # None /\ ~Uploading /\ ~UploadPending
  /\ LET key == IF view.attempt.status = "ready" THEN view.attempt.key ELSE view.attempt.key + 10
     IN /\ view' = [view EXCEPT !.attempt.status = "uploading", !.attempt.key = key]
        /\ server' = [server EXCEPT !.sent = @ \cup {[file |-> view.attempt.file, key |-> key]}]
        /\ net' = [net EXCEPT !.upload = [key |-> key, answer |-> None]]
  /\ UNCHANGED past

\* "Upload attachment" and "Retry upload"; a 401 sends the same file and key again.
StartUpload ==
  /\ view.attempt # None /\ ~Uploading /\ ~UploadPending
  /\ view' = [view EXCEPT !.attempt.status = "uploading"]
  /\ server' = [server EXCEPT !.sent =
                  @ \cup {[file |-> view.attempt.file, key |-> view.attempt.key]}]
  /\ net' = [net EXCEPT !.upload = [key |-> view.attempt.key, answer |-> None]]
  /\ UNCHANGED past

\* The request is aborted, which the server may not notice.
CancelUpload ==
  /\ net.upload # None
  /\ LoadInitial([view EXCEPT !.attempt.status = "canceled"], [net EXCEPT !.upload = None], FALSE)
  /\ UNCHANGED <<server, past>>

UploadArrives ==
  /\ net.upload # None /\ net.upload.answer # None
  /\ LET n == [net EXCEPT !.upload = None] IN
     IF net.upload.answer = Failure
     THEN view' = [view EXCEPT !.attempt.status = "error"] /\ net' = n
     ELSE LoadInitial([view EXCEPT !.attempt = None], n, TRUE)
  /\ UNCHANGED <<server, past>>

-----------------------------------------------------------------------------
(* Downloads and deletions.                                                *)

\* The rows of the list whose "Download" is enabled.
Downloadable == IF view.list = "success" /\ view.downloading = 0
                THEN {x \in view.items : x.ok} ELSE {}
StartDownload ==
  /\ \E x \in Downloadable :
       /\ view' = [view EXCEPT !.downloading = x.id]
       /\ net' = [net EXCEPT !.download = [id |-> x.id, answer |-> None]]
  /\ UNCHANGED <<server, past>>

DownloadArrives ==
  /\ net.download # None /\ net.download.answer # None
  /\ LET n == [net EXCEPT !.download = None]
         v == [view EXCEPT !.downloading = 0]
     IN IF net.download.answer = Gone THEN LoadInitial(v, n, FALSE) ELSE view' = v /\ net' = n
  /\ UNCHANGED <<server, past>>

\* The dialog that names the target; it cannot be closed while the deletion is pending.
DialogEnabled == view.target # 0 /\ ~view.deletePending
AskDelete ==
  /\ view.target = 0 /\ view.list = "success"
  /\ \E id \in Ids(view.items) \ view.blocked : view' = [view EXCEPT !.target = id]
  /\ UNCHANGED <<server, net, past>>
Keep ==
  /\ DialogEnabled
  /\ view' = [view EXCEPT !.target = 0]
  /\ UNCHANGED <<server, net, past>>
ConfirmDelete ==
  /\ DialogEnabled
  /\ view' = [view EXCEPT !.deletePending = TRUE]
  /\ net' = [net EXCEPT !.delete = [id |-> view.target, answer |-> None]]
  /\ UNCHANGED <<server, past>>

DeleteArrives ==
  /\ net.delete # None /\ net.delete.answer # None
  /\ LET answer == net.delete.answer
         id == net.delete.id
         n == [net EXCEPT !.delete = None]
         v == [view EXCEPT !.deletePending = FALSE]
     IN CASE answer = Done ->
              /\ view' = [v EXCEPT !.items = {x \in @ : x.id # id}, !.target = 0] /\ net' = n
          [] answer = Gone -> LoadInitial([v EXCEPT !.blocked = @ \cup {id}, !.target = 0], n, FALSE)
          [] answer = Failure -> view' = v /\ net' = n
  /\ UNCHANGED <<server, past>>

\* The sheet is closed, which aborts everything, and opened again.
Reopen == view' = NewView /\ net' = NewNet /\ UNCHANGED <<server, past>>

Serve == ServeList \/ ServeUpload \/ ServeDelete \/ ServeDownload
Arrive == ListArrives \/ UploadArrives \/ DownloadArrives \/ DeleteArrives
Next ==
  \/ Serve \/ Elsewhere \/ Fail \/ Arrive
  \/ Retry \/ LoadMore \/ SelectFile \/ StartUpload \/ CancelUpload
  \/ StartDownload \/ AskDelete \/ Keep \/ ConfirmDelete \/ Reopen

Spec == Init /\ [][Next]_vars

-----------------------------------------------------------------------------
(* Properties                                                              *)

\* A loading list, an upload in progress and a disabled button always wait for an answer.
SpinnersAnswered ==
  /\ view.list = "loading" => net.list # None /\ net.list.below = Top
  /\ view.pagePending => net.list # None /\ net.list.below # Top
  /\ Uploading => net.upload # None
  /\ view.downloading # 0 => net.download # None
  /\ view.deletePending => net.delete # None /\ view.target = net.delete.id

\* A file that was chosen once is stored once at most, although its upload may be canceled after
\* it was stored, fail, or be sent again (task-attachment-ui-integration.md:143-150).
OneRowPerFile ==
  \A f \in 1..MaxFiles : Cardinality({r \in server.rows : r.file = f}) <= 1
=============================================================================
