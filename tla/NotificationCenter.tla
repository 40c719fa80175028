------------------------- MODULE NotificationCenter -------------------------
(* The notification panel of the app shell: frontend features/             *)
(* notifications/components/notification-center.tsx and                    *)
(* model/notification-cache.ts, with the list and the two read commands of *)
(* backend notifications.service.ts, one indivisible step each.            *)
(*                                                                         *)
(* A notification is its place in the order of creation. A request that    *)
(* the panel aborts, or whose answer it has decided to ignore, is          *)
(* forgotten at once: nothing observes its answer. Whether the read state  *)
(* was changed since a request was sent (acceptedMutationRevision) is kept *)
(* with the request.                                                       *)
EXTENDS FiniteSets, FiniteSetsExt, Naturals

CONSTANTS Limit,       \* notifications per page
          MaxCreated,  \* bound: notifications ever created
          None

Top == MaxCreated + 1   \* before the first page
Failure == [failed |-> TRUE]

VARIABLES server,  \* notifications created, read and removed
          view,    \* the component's state
          net,     \* its requests: the first page, an older page, a read command
          past     \* history: listed notifications that an accepted command made read

vars == <<server, view, net, past>>

\* Notifications are shown with their read state. A list request keeps the answer that it is given
\* until the panel takes it, and so does a command, whose id is 0 when it reads all.
Shown == [id : Nat, read : BOOLEAN]
Listing == [items : SUBSET Shown, next : Nat, unread : Nat, failed : {FALSE}]
ListRequest == [below : Nat, mode : {"initial", "refresh", "more"}, preserve : BOOLEAN,
                answer : Listing \cup {Failure, None}]
Outcome == [read : SUBSET Nat, unread : Nat, failed : {FALSE}]
Command == [id : Nat, answer : Outcome \cup {Failure, None}]

View == [phase : {"loading", "ready", "error"}, items : SUBSET Shown, cursor : Nat, unread : Nat,
         refreshing : BOOLEAN, loadingMore : BOOLEAN, failed : BOOLEAN,
         pending : SUBSET Nat, all : BOOLEAN]
Net == [first : ListRequest \cup {None}, page : ListRequest \cup {None},
        command : Command \cup {None}]

NewView == [phase |-> "loading", items |-> {}, cursor |-> 0, unread |-> 0,
            refreshing |-> FALSE, loadingMore |-> FALSE, failed |-> FALSE,
            pending |-> {}, all |-> FALSE]
Request(below, mode) == [below |-> below, mode |-> mode, preserve |-> FALSE, answer |-> None]
FirstOnly(mode) == [first |-> Request(Top, mode), page |-> None, command |-> None]

Init ==
  /\ server \in [created : 0..MaxCreated, read : {{}}, removed : {{}}]
  /\ view = NewView /\ net = FirstOnly("initial") /\ past = {}

-----------------------------------------------------------------------------
(* The server.                                                             *)

Visible(s) == 1..s.created \ s.removed
Unread(s) == Visible(s) \ s.read

Public(s, x) == [id |-> x, read |-> x \in s.read]

\* The cursor encodes the last notification of a page; there is none when nothing is older.
Cursor(older, page) == IF page = older THEN 0 ELSE Min(page)

\* NotificationsService.list: one repeatable-read snapshot of the page and the count.
Page(s, below) ==
  LET older == {x \in Visible(s) : x < below}
      page == {x \in older : Cardinality({y \in older : y > x}) < Limit}
  IN [items |-> {Public(s, x) : x \in page}, next |-> Cursor(older, page),
      unread |-> Cardinality(Unread(s)), failed |-> FALSE]

\* A mention arrives; another tab or device reads; a membership ends, and its notifications go.
Notify == server.created < MaxCreated /\ server' = [server EXCEPT !.created = @ + 1]
ReadElsewhere == \E x \in Unread(server) : server' = [server EXCEPT !.read = @ \cup {x}]
Remove == \E x \in Visible(server) : server' = [server EXCEPT !.removed = @ \cup {x}]
Elsewhere == (Notify \/ ReadElsewhere \/ Remove) /\ UNCHANGED <<view, net, past>>

ServeList(which) ==
  /\ net[which] # None /\ net[which].answer = None
  /\ net' = [net EXCEPT ![which].answer = Page(server, net[which].below)]
  /\ UNCHANGED <<server, view, past>>

\* markRead and markAllRead, in serializable transactions; the second reads what was created up
\* to the transaction's time.
ServeCommand ==
  /\ net.command # None /\ net.command.answer = None
  /\ LET all == net.command.id = 0
         ids == IF all THEN Visible(server) ELSE {net.command.id} \cap Visible(server)
         after == [server EXCEPT !.read = @ \cup ids]
     IN /\ server' = after
        /\ net' = [net EXCEPT !.command.answer =
              IF ~all /\ ids = {} THEN Failure
              ELSE [read |-> IF all THEN 1..server.created ELSE ids,
                    unread |-> Cardinality(Unread(after)), failed |-> FALSE]]
  /\ UNCHANGED <<view, past>>

\* The request, or its answer, is lost.
Fail(which) ==
  /\ net[which] # None /\ net[which].answer # Failure
  /\ net' = [net EXCEPT ![which].answer = Failure]
  /\ UNCHANGED <<server, view, past>>

-----------------------------------------------------------------------------
(* The panel.                                                              *)

Ids(items) == {x.id : x \in items}
ReadIds(items) == {x.id : x \in {y \in items : y.read}}

\* Mutant: the incoming read state is taken as it is.
MergeIncoming(existing, incoming, preserve) ==
  incoming \cup {x \in existing : x.id \notin Ids(incoming)}

\* mergeNotificationPages
Merge(existing, incoming, preserve) ==
  {[x EXCEPT !.read = @ \/ (preserve /\ x.id \in ReadIds(existing))] : x \in incoming}
    \cup {x \in existing : x.id \notin Ids(incoming)}

\* loadFirstPage up to its await: aborts the first page and the older page in flight.
Loading(v, mode) ==
  [v EXCEPT !.phase = IF mode = "initial" THEN "loading" ELSE @,
            !.refreshing = (mode = "refresh"), !.loadingMore = FALSE, !.failed = FALSE]
Reload(mode) == [net EXCEPT !.first = Request(Top, mode), !.page = None]
LoadFirstPage(mode) ==
  view' = Loading(view, mode) /\ net' = Reload(mode) /\ UNCHANGED <<server, past>>

\* The retry and refresh buttons, and the panel being opened.
CanRefresh ==
  \/ view.phase = "ready" /\ net.first = None
  \/ view.failed /\ view.items # {}
  \/ view.phase = "ready" /\ view.items = {} /\ ~view.refreshing
Retry == view.phase = "error" /\ LoadFirstPage("initial")
Refresh == CanRefresh /\ LoadFirstPage("refresh")

\* What an answer to a list request says of the count.
Counted(r) ==
  IF r.preserve THEN view ELSE [view EXCEPT !.unread = r.answer.unread]

\* reconcileNotificationFirstPage: a first page replaces the list, except where it may be older
\* than a read command. The first load always replaces it.
FirstPage(r) ==
  IF r.mode = "refresh" /\ r.preserve THEN Merge(view.items, r.answer.items, TRUE)
  ELSE r.answer.items

FirstPageArrives ==
  LET r == net.first IN
  /\ r # None /\ r.answer # None
  /\ net' = [net EXCEPT !.first = None]
  /\ view' = IF r.answer = Failure
             THEN [view EXCEPT !.phase = IF view.items = {} THEN "error" ELSE "ready",
                               !.refreshing = FALSE, !.failed = TRUE]
             ELSE [Counted(r) EXCEPT !.phase = "ready", !.cursor = r.answer.next,
                     !.items = FirstPage(r), !.refreshing = FALSE, !.failed = FALSE]
  /\ UNCHANGED <<server, past>>

\* "Load more" below the list, in every phase.
MoreOffered == view.cursor # 0 /\ ~view.loadingMore
LoadMore ==
  /\ MoreOffered
  /\ view' = [view EXCEPT !.loadingMore = TRUE, !.failed = FALSE]
  /\ net' = [net EXCEPT !.page = Request(view.cursor, "more")]
  /\ UNCHANGED <<server, past>>

PageArrives ==
  LET r == net.page IN
  /\ r # None /\ r.answer # None
  /\ net' = [net EXCEPT !.page = None]
  /\ view' = IF r.answer = Failure
             THEN [view EXCEPT !.loadingMore = FALSE, !.failed = TRUE]
             ELSE [Counted(r) EXCEPT !.items = Merge(view.items, r.answer.items, r.preserve),
                     !.cursor = r.answer.next, !.loadingMore = FALSE, !.failed = FALSE]
  /\ UNCHANGED <<server, past>>

\* The button of a row, and that of the header; disabled while a command is pending.
Idle == net.command = None /\ view.pending = {} /\ ~view.all
Markable == IF Idle THEN Ids(view.items) \ ReadIds(view.items) ELSE {}
MarkRead ==
  /\ \E x \in Markable :
       /\ view' = [view EXCEPT !.pending = {x}]
       /\ net' = [net EXCEPT !.command = [id |-> x, answer |-> None]]
  /\ UNCHANGED <<server, past>>
MarkAllRead ==
  /\ Idle /\ view.unread > 0
  /\ view' = [view EXCEPT !.all = TRUE]
  /\ net' = [net EXCEPT !.command = [id |-> 0, answer |-> None]]
  /\ UNCHANGED <<server, past>>

\* The list requests in flight were sent before the command was accepted.
Outdated(r) == IF r = None THEN None ELSE [r EXCEPT !.preserve = TRUE]

\* markRead's and markAllRead's answers; the second goes on to refresh the first page.
CommandArrives ==
  LET command == net.command
      all == command.id = 0
      done == [view EXCEPT !.pending = {}, !.all = FALSE]
      read == [done EXCEPT !.items = {[x EXCEPT !.read = @ \/ x.id \in command.answer.read] : x \in @},
                           !.unread = command.answer.unread]
  IN /\ command # None /\ command.answer # None
     /\ IF command.answer = Failure
        THEN view' = done /\ net' = [net EXCEPT !.command = None] /\ UNCHANGED past
        ELSE /\ past' = past \cup (Ids(view.items) \cap command.answer.read)
             /\ view' = IF all THEN Loading(read, "refresh") ELSE read
             /\ net' = IF all THEN FirstOnly("refresh")
                       ELSE [first |-> Outdated(net.first), page |-> Outdated(net.page),
                             command |-> None]
     /\ UNCHANGED server

\* Another session signs in: everything in flight is aborted and the panel starts over.
SwitchSession ==
  /\ view' = NewView /\ net' = FirstOnly("initial") /\ past' = {}
  /\ UNCHANGED server

Arrive == FirstPageArrives \/ PageArrives \/ CommandArrives
Serve == ServeCommand \/ \E w \in {"first", "page"} : ServeList(w)
Next ==
  \/ Elsewhere \/ Serve \/ Arrive
  \/ \E w \in {"first", "page", "command"} : Fail(w)
  \/ Retry \/ Refresh \/ LoadMore \/ MarkRead \/ MarkAllRead \/ SwitchSession

Spec == Init /\ [][Next]_vars

-----------------------------------------------------------------------------
(* Properties                                                              *)

\* Every variable keeps its type.
TypeOK ==
  /\ server \in [created : Nat, read : SUBSET Nat, removed : SUBSET Nat]
  /\ view \in View /\ net \in Net /\ past \subseteq Nat

\* A spinner, and a disabled button, always waits for an answer that will clear it.
SpinnersAnswered ==
  /\ view.phase = "loading" \/ view.refreshing => net.first # None
  /\ view.loadingMore => net.page # None
  /\ view.pending # {} \/ view.all => net.command # None

\* notifications-foundation.md:62: what a command has made read in the list is not shown as unread
\* by the answer to a list request that was sent before it.
ReadStateKept == \A x \in view.items : x.id \in past => x.read
=============================================================================
