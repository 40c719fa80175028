--------------------------- MODULE CommentThread ---------------------------
(* The comments of a task in its detail sheet: frontend features/comments/ *)
(* components/task-detail-sheet.tsx, with the list of backend              *)
(* comments.service.ts. A comment is its place in the order of creation.   *)
(* The answer to an aborted request is not observed: it is forgotten.      *)
EXTENDS FiniteSets, FiniteSetsExt, Naturals

CONSTANTS Limit,        \* comments per page
          MaxComments,  \* bound: comments ever posted
          None

Top == MaxComments + 1   \* before the first page
Failure == [failed |-> TRUE]

VARIABLES server,  \* the number of comments of the task
          view,    \* the component's state
          net,     \* the list request and the post in flight
          past     \* history: the newest comment when the thread was loaded

vars == <<server, view, net, past>>

\* An answer is kept with its request until the component takes it.
Listing == [items : SUBSET Nat, next : Nat, newest : Nat, failed : {FALSE}]
ListRequest == [below : Nat, answer : Listing \cup {Failure, None}]
Posting == [answer : [id : Nat, failed : {FALSE}] \cup {Failure, None}]

NewView == [load |-> "loading", items |-> {}, cursor |-> 0, olderPending |-> FALSE,
            olderError |-> FALSE, posting |-> FALSE]
List(below) == [below |-> below, answer |-> None]
NewNet == [list |-> List(Top), post |-> None]

Init == server \in 0..MaxComments /\ view = NewView /\ net = NewNet /\ past = 0

\* The cursor encodes the oldest comment of a page; there is none when nothing is older.
Cursor(older, page) == IF page = older THEN 0 ELSE Min(page)

\* Mutant: the cursor is the comment that says there is another page.
PageBeyond(below) ==
  LET older == {c \in 1..server : c < below}
      page == {c \in older : Cardinality({d \in older : d > c}) < Limit}
  IN [items |-> page, next |-> IF page = older THEN 0 ELSE Max(older \ page),
      newest |-> server, failed |-> FALSE]

\* CommentsService.list: the latest comments before the cursor, and whether there are more.
Page(below) ==
  LET older == {c \in 1..server : c < below}
      page == {c \in older : Cardinality({d \in older : d > c}) < Limit}
  IN [items |-> page, next |-> Cursor(older, page),
      newest |-> server, failed |-> FALSE]

ServeList ==
  /\ net.list # None /\ net.list.answer = None
  /\ net' = [net EXCEPT !.list.answer = Page(net.list.below)]
  /\ UNCHANGED <<server, view, past>>
ServePost ==
  /\ net.post # None /\ net.post.answer = None /\ server < MaxComments
  /\ server' = server + 1
  /\ net' = [net EXCEPT !.post.answer = [id |-> server', failed |-> FALSE]]
  /\ UNCHANGED <<view, past>>
Elsewhere == server < MaxComments /\ server' = server + 1 /\ UNCHANGED <<view, net, past>>
Fail ==
  /\ \E w \in {"list", "post"} :
       /\ net[w] # None /\ net[w].answer # Failure
       /\ net' = [net EXCEPT ![w].answer = Failure]
  /\ UNCHANGED <<server, view, past>>

\* "Retry comments". The composer is not rendered while the thread loads, nor after an error.
Retry ==
  /\ view.load = "error"
  /\ view' = [view EXCEPT !.load = "loading", !.olderPending = FALSE, !.olderError = FALSE]
  /\ net' = NewNet
  /\ UNCHANGED <<server, past>>

\* "Load older comments", or "Retry" after it failed.
OlderOffered == view.load = "success" /\ view.cursor # 0 /\ ~view.olderPending
LoadOlder ==
  /\ OlderOffered
  /\ view' = [view EXCEPT !.olderPending = TRUE, !.olderError = FALSE]
  /\ net' = [net EXCEPT !.list = List(view.cursor)]
  /\ UNCHANGED <<server, past>>

ListArrives ==
  LET r == net.list
      first == r.below = Top
  IN /\ r # None /\ r.answer # None
     /\ net' = [net EXCEPT !.list = None]
     /\ view' = IF r.answer = Failure
                THEN IF first THEN [view EXCEPT !.load = "error"]
                              ELSE [view EXCEPT !.olderPending = FALSE, !.olderError = TRUE]
                ELSE IF first THEN [view EXCEPT !.load = "success", !.items = r.answer.items,
                                                !.cursor = r.answer.next]
                              ELSE [view EXCEPT !.olderPending = FALSE, !.cursor = r.answer.next,
                                                !.items = @ \cup r.answer.items]
     /\ past' = IF first /\ r.answer # Failure THEN r.answer.newest ELSE past
     /\ UNCHANGED server

\* handleSubmit of the composer, and appendCreated.
Composable == view.load = "success" /\ ~view.posting
Post ==
  /\ Composable
  /\ view' = [view EXCEPT !.posting = TRUE]
  /\ net' = [net EXCEPT !.post = [answer |-> None]]
  /\ UNCHANGED <<server, past>>
PostArrives ==
  /\ net.post # None /\ net.post.answer # None
  /\ net' = [net EXCEPT !.post = None]
  /\ view' = [view EXCEPT !.posting = FALSE,
                          !.items = IF net.post.answer = Failure THEN @
                                    ELSE @ \cup {net.post.answer.id}]
  /\ UNCHANGED <<server, past>>

\* The sheet is closed, which aborts the latest list request and the post, and opened again.
Reopen ==
  /\ view' = NewView /\ net' = NewNet /\ past' = 0
  /\ UNCHANGED server

Next ==
  \/ ServeList \/ ServePost \/ Elsewhere \/ Fail
  \/ Retry \/ LoadOlder \/ ListArrives \/ Post \/ PostArrives \/ Reopen

Spec == Init /\ [][Next]_vars

-----------------------------------------------------------------------------
(* Properties                                                              *)

\* A loading thread and a disabled button always wait for an answer.
SpinnersAnswered ==
  /\ view.load = "loading" => net.list # None /\ net.list.below = Top
  /\ view.olderPending => net.list # None /\ net.list.below # Top
  /\ view.posting => net.post # None

\* Between the oldest comment shown and the newest there was when the thread was loaded, no comment
\* is missing, whatever pages fail and whatever is posted meanwhile.
ThreadUnbroken ==
  view.load = "success" /\ view.items # {} => Min(view.items)..past \subseteq view.items
=============================================================================
