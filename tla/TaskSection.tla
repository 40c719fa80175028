---------------------------- MODULE TaskSection ----------------------------
(* The task list of a project: frontend features/tasks/components/         *)
(* task-section.tsx with its cards, its create and edit form and the       *)
(* dialog that confirms a cancelation, over the list and the transition of *)
(* backend tasks.service.ts.                                               *)
(*                                                                         *)
(* controllerRef holds the latest list request only: starting one with     *)
(* loadInitial aborts that one, and starting one with loadMore aborts none.*)
(* The assignee filter, which reloads the list as the status filter does,  *)
(* is left out.                                                            *)
EXTENDS PageCollection, SequencesExt

CONSTANTS Task,
          Status,        \* the statuses in use, "BACKLOG" among them
          Filter,        \* the filters that the user chooses from: "ALL" and statuses
          MaxEvents,     \* bound: commands, changes by other members, and failures
          MaxLists,      \* bound: list requests in flight
          None

Slot == 1..MaxLists
Failure == [failed |-> TRUE]
Done == [failed |-> FALSE]
Filters == Filter \cup {"ALL"}

Listing == [items : SUBSET [id : Task, status : Status], page : Nat, total : Nat]
ListRequest == [kind : {"first", "more"}, filter : Filters, page : Nat, preserve : BOOLEAN,
                awaited : BOOLEAN, answer : Listing \cup {Failure, None}]
PatchRequest == [task : Task, to : Status, filter : Filters, answer : {Failure, Done, None}]
SaveRequest == [task : Task, filter : Filters, answer : {Failure, Done, None}]

VARIABLES server,  \* the project's tasks, last updated first, and the status of each
          view,    \* the component's state
          net,     \* list requests, the latest of them, the transition and the save in flight
          past     \* history: the filter of the list that is shown; events so far

vars == <<server, view, net, past>>

List(kind, filter, page, preserve, awaited) ==
  [kind |-> kind, filter |-> filter, page |-> page, preserve |-> preserve, awaited |-> awaited,
   answer |-> None]

\* A card's buttons, which are the transitions that the server allows. A new task is in BACKLOG.
Options(status) == Status \cap
  CASE status = "BACKLOG"     -> {"IN_PROGRESS", "CANCELED"}
    [] status = "IN_PROGRESS" -> {"DONE", "CANCELED"}
    [] status = "DONE"        -> {"IN_PROGRESS"}
    [] status = "CANCELED"    -> {}

Init ==
  /\ \E tasks \in SUBSET Task : \E status \in [Task -> Status] :
       /\ \A t \in Task \ tasks : status[t] = "BACKLOG"
       /\ server \in [order : SetToSeqs(tasks), status : {status}]
  /\ view = [load |-> "loading", list |-> Nothing, filter |-> "ALL", pagePending |-> FALSE,
             pageError |-> FALSE, pendingTask |-> None, cancelTask |-> None]
  /\ net = [lists |-> [s \in Slot |-> IF s = 1 THEN List("first", "ALL", 1, FALSE, FALSE)
                                               ELSE None],
            ref |-> 1, patch |-> None, save |-> None]
  /\ past = [filter |-> "ALL", events |-> 0]

-----------------------------------------------------------------------------
(* The server.                                                             *)

Matches(t, filter) == filter \in {"ALL", server.status[t]}
Listed(filter, page) ==
  LET matching == {i \in DOMAIN server.order : Matches(server.order[i], filter)}
      p == PageOf(server.order, matching, page)
  IN [p EXCEPT !.items = {[id |-> t, status |-> server.status[t]] : t \in @}]

\* A create, an edit or a transition puts the task first.
Touched(s, t, status) ==
  [order |-> <<t>> \o RemoveFirst(s.order, t), status |-> [s.status EXCEPT ![t] = status]]

Event == past.events < MaxEvents /\ past' = [past EXCEPT !.events = @ + 1]

\* Other members, and saves whose form is gone.
Elsewhere ==
  /\ \E t \in Task : \E status \in {server.status[t]} \cup Options(server.status[t]) :
       server' = Touched(server, t, status)
  /\ Event /\ UNCHANGED <<view, net>>

ServeList(s) ==
  /\ net.lists[s] # None /\ net.lists[s].answer = None
  /\ net' = [net EXCEPT !.lists[s].answer = Listed(net.lists[s].filter, net.lists[s].page)]
  /\ UNCHANGED <<server, view, past>>

\* A transition that the task's status no longer allows is refused.
ServePatch ==
  /\ net.patch # None /\ net.patch.answer = None
  /\ LET t == net.patch.task IN
     IF net.patch.to \in Options(server.status[t])
     THEN net' = [net EXCEPT !.patch.answer = Done] /\ server' = Touched(server, t, net.patch.to)
     ELSE net' = [net EXCEPT !.patch.answer = Failure] /\ UNCHANGED server
  /\ UNCHANGED <<view, past>>

ServeSave ==
  /\ net.save # None /\ net.save.answer = None
  /\ server' = Touched(server, net.save.task, server.status[net.save.task])
  /\ net' = [net EXCEPT !.save.answer = Done]
  /\ UNCHANGED <<view, past>>

\* A list request fails, or a command or its answer is lost.
Fail ==
  /\ \/ \E s \in Slot : /\ net.lists[s] # None /\ net.lists[s].answer = None
                        /\ net' = [net EXCEPT !.lists[s].answer = Failure]
     \/ \E w \in {"patch", "save"} : /\ net[w] # None /\ net[w].answer # Failure
                                     /\ net' = [net EXCEPT ![w].answer = Failure]
  /\ Event /\ UNCHANGED <<server, view>>

-----------------------------------------------------------------------------
(* The component.                                                          *)

\* The dialog and the form cover the section while they are open.
Reachable == view.load = "success" /\ view.cancelTask = None

Free == {s \in Slot : net.lists[s] = None}
Latest == IF net.ref = 0 THEN None ELSE net.lists[net.ref]

\* Outside of "success" the form is not rendered, and unmounting it aborts its save.
Rendered(n, v) == IF v.load = "success" THEN n ELSE [n EXCEPT !.save = None]

Settles == Latest # None /\ Latest.awaited

\* loadInitial up to its await, from a component that shows v: the latest request is aborted,
\* and a transition that awaits it goes on to its end.
LoadInitial(v, n, filter, preserve, awaited) ==
  LET aborted == IF n.ref = 0 THEN n.lists ELSE [n.lists EXCEPT ![n.ref] = None]
      s == Min({x \in Slot : aborted[x] = None})
      shown == [v EXCEPT !.pagePending = FALSE, !.pageError = FALSE,
                         !.load = IF preserve THEN @ ELSE "loading",
                         !.pendingTask = IF Settles THEN None ELSE @,
                         !.cancelTask = IF Settles THEN None ELSE @]
  IN /\ \E x \in Slot : aborted[x] = None
     /\ view' = shown
     /\ net' = Rendered([n EXCEPT !.lists = [aborted EXCEPT ![s] =
                           List("first", filter, 1, preserve, awaited)], !.ref = s], shown)
     /\ UNCHANGED <<server, past>>

ChooseFilter ==
  /\ Reachable
  /\ \E f \in Filter \ {view.filter} :
       LoadInitial([view EXCEPT !.filter = f], net, f, FALSE, FALSE)

\* The retry of the error screen, and the refresh of a list that changed while it was loading.
Reload ==
  /\ \/ view.load = "error"
     \/ Reachable /\ view.list.inconsistent /\ ~view.pageError /\ ~view.pagePending
  /\ LoadInitial(view, net, view.filter, FALSE, FALSE)

LoadMore ==
  /\ Reachable /\ ~view.pagePending /\ ~view.list.exhausted /\ Free # {}
  /\ view' = [view EXCEPT !.pagePending = TRUE, !.pageError = FALSE]
  /\ net' = [net EXCEPT !.ref = Min(Free),
               !.lists[Min(Free)] = List("more", view.filter, view.list.next, TRUE, FALSE)]
  /\ UNCHANGED <<server, past>>

ListArrives(s) ==
  LET r == net.lists[s]
      v == [view EXCEPT !.pendingTask = IF r.awaited THEN None ELSE @,
                        !.cancelTask = IF r.awaited THEN None ELSE @]
      after == IF r.kind = "more"
               THEN IF r.answer = Failure
                    THEN [v EXCEPT !.pagePending = FALSE, !.pageError = TRUE]
                    ELSE [v EXCEPT !.pagePending = FALSE,
                                   !.list = Reconcile(v.list.items, r.answer)]
               ELSE IF r.answer = Failure
                    THEN [v EXCEPT !.load = IF r.preserve THEN @ ELSE "error"]
                    ELSE [v EXCEPT !.load = "success", !.list = Reconcile({}, r.answer)]
  IN /\ r # None /\ r.answer # None
     /\ view' = after
     /\ net' = Rendered([net EXCEPT !.lists[s] = None, !.ref = IF @ = s THEN 0 ELSE @], after)
     /\ past' = IF r.kind = "first" /\ r.answer # Failure THEN [past EXCEPT !.filter = r.filter] ELSE past
     /\ UNCHANGED server

\* commitTransition: one at a time. What follows the answer runs in the closure of the render that
\* was clicked in, with its filter.
CommitTransition(t, to) ==
  /\ view.pendingTask = None
  /\ view' = [view EXCEPT !.pendingTask = t]
  /\ net' = [net EXCEPT !.patch = [task |-> t, to |-> to, filter |-> view.filter, answer |-> None]]
  /\ Event /\ UNCHANGED server

\* transition: a cancelation has to be confirmed.
Transition ==
  /\ Reachable
  /\ \E x \in view.list.items : \E to \in Options(x.status) \ {"CANCELED"} :
       CommitTransition(x.id, to)
AskCancel ==
  /\ Reachable /\ view.pendingTask = None
  /\ \E x \in view.list.items :
       "CANCELED" \in Options(x.status) /\ view' = [view EXCEPT !.cancelTask = x.id]
  /\ UNCHANGED <<server, net, past>>

\* The dialog, which is not rendered while the list is loaded again.
DialogEnabled == view.load = "success" /\ view.cancelTask # None /\ view.pendingTask = None
KeepTask ==
  /\ DialogEnabled
  /\ view' = [view EXCEPT !.cancelTask = None]
  /\ UNCHANGED <<server, net, past>>
ConfirmCancel == DialogEnabled /\ CommitTransition(view.cancelTask, "CANCELED")

PatchArrives ==
  /\ net.patch # None /\ net.patch.answer # None
  /\ LET n == [net EXCEPT !.patch = None] IN
     IF net.patch.answer = Failure
     THEN /\ view' = [view EXCEPT !.pendingTask = None, !.cancelTask = None] /\ net' = n
          /\ UNCHANGED <<server, past>>
     ELSE LoadInitial(view, n, net.patch.filter, FALSE, TRUE)

\* What the form may be opened for: a new task, and the listed tasks that no transition moves.
Editable == Task \ (ToSet(server.order) \ (Ids(view.list.items) \ {view.pendingTask}))

\* The form's submit; it may be closed while it waits.
Save ==
  /\ Reachable /\ net.save = None
  /\ \E t \in Editable :
       net' = [net EXCEPT !.save = [task |-> t, filter |-> view.filter, answer |-> None]]
  /\ Event /\ UNCHANGED <<server, view>>

SaveArrives ==
  /\ net.save # None /\ net.save.answer # None
  /\ LET n == [net EXCEPT !.save = None] IN
     IF net.save.answer = Failure THEN net' = n /\ UNCHANGED <<server, view, past>>
     ELSE LoadInitial(view, n, net.save.filter, TRUE, FALSE)

Serve == ServePatch \/ ServeSave \/ \E s \in Slot : ServeList(s)
Arrive == PatchArrives \/ SaveArrives \/ \E s \in Slot : ListArrives(s)
Next ==
  \/ Elsewhere \/ Serve \/ Fail \/ Arrive
  \/ ChooseFilter \/ Reload \/ LoadMore \/ Save
  \/ Transition \/ AskCancel \/ KeepTask \/ ConfirmCancel

Spec == Init /\ [][Next]_vars

-----------------------------------------------------------------------------
(* Properties                                                              *)

InFlight(kind) == {s \in Slot : net.lists[s] # None /\ net.lists[s].kind = kind}

\* A loading screen, a disabled button and a pending task or dialog always wait for an answer, although
\* requests overlap and are aborted.
SpinnersAnswered ==
  /\ view.load = "loading" => InFlight("first") # {}
  /\ view.pagePending => InFlight("more") # {}
  /\ view.pendingTask # None =>
       net.patch # None \/ \E s \in InFlight("first") : net.lists[s].awaited

\* task-foundation.md:460-461: "successful mutations reset and reload the first page with the
\* current filters": when nothing is in flight, the list is that of the chosen filter.
CurrentFilterShown ==
  view.load = "success" /\ InFlight("first") = {} /\ net.patch = None /\ net.save = None
    => past.filter = view.filter
=============================================================================
