--------------------------- MODULE AssigneePicker ---------------------------
(* The search for the assignee of a task: frontend features/tasks/         *)
(* components/assignee-picker.tsx, over the assignee search of backend     *)
(* tasks.service.ts. The members stay the same. An answer that is not that *)
(* of the latest request is not observed.                                  *)
EXTENDS PageCollection

CONSTANTS Members,   \* the members of the workspace, by display name
          Query,     \* what may be typed; "" is the empty query
          Found,     \* Found[q]: the members whose name contains q
          None

VARIABLES view,  \* the picker's state
          net    \* the debounce timer, and the latest search

vars == <<view, net>>

Init ==
  /\ view = [open |-> FALSE, query |-> "", list |-> Nothing, pending |-> FALSE,
             failed |-> FALSE, composing |-> FALSE]
  /\ net = [timer |-> FALSE, search |-> None]

Search == [query : Query, page : Nat, append : BOOLEAN]

\* searchAssignees
Page(q, page) ==
  LET p == PageOf(Members, {i \in DOMAIN Members : Members[i] \in Found[q]}, page)
  IN [p EXCEPT !.items = {[id |-> u] : u \in @}]

\* The effect that debounces: what it depends on has changed.
Debounced(v, n) == [n EXCEPT !.timer = v.open /\ ~v.composing]
Changed(v, n) == view' = v /\ net' = Debounced(v, n)

\* runSearch; only the timer that has fired is over.
RunSearch(page, append, timer) ==
  /\ view' = [view EXCEPT !.pending = TRUE, !.failed = FALSE]
  /\ net' = [timer |-> timer, search |-> [query |-> view.query, page |-> page, append |-> append]]

TimerFires == net.timer /\ RunSearch(1, FALSE, FALSE)
RetrySearch ==
  /\ view.open /\ (view.failed \/ (view.list.inconsistent /\ ~view.pending))
  /\ RunSearch(1, FALSE, net.timer)
LoadMore ==
  view.open /\ ~view.list.exhausted /\ ~view.pending /\ RunSearch(view.list.next, TRUE, net.timer)

SearchArrives ==
  /\ net.search # None
  /\ LET r == net.search
         current == IF r.append THEN view.list.items ELSE {}
     IN \/ view' = [view EXCEPT !.list = Reconcile(current, Page(r.query, r.page)),
                                !.pending = FALSE]
        \/ view' = [view EXCEPT !.failed = TRUE, !.pending = FALSE]
  /\ net' = [net EXCEPT !.search = None]

Open == ~view.open /\ Changed([view EXCEPT !.open = TRUE], net)
Close == view.open /\ Changed([view EXCEPT !.open = FALSE], net)

\* Mutant: the candidates stay until the next answer.
TypeKeeping ==
  /\ \E q \in Query \ {view.query} :
       Changed([view EXCEPT !.query = q, !.open = TRUE, !.pending = FALSE, !.failed = FALSE],
               [net EXCEPT !.search = None])

\* onChange: resetSearchResultsForQueryChange, setQuery and setOpen.
Type ==
  /\ \E q \in Query \ {view.query} :
       Changed([view EXCEPT !.query = q, !.open = TRUE, !.pending = FALSE, !.failed = FALSE,
                            !.list = Nothing],
               [net EXCEPT !.search = None])

\* The options of the listbox.
Offered == IF view.open THEN Ids(view.list.items) ELSE {}

\* select: the list and a search in flight stay as they are.
Select ==
  /\ Offered # {}
  /\ Changed([view EXCEPT !.open = FALSE, !.query = ""], net)

StartComposition ==
  /\ ~view.composing
  /\ Changed([view EXCEPT !.composing = TRUE, !.pending = FALSE], [net EXCEPT !.search = None])
EndComposition == view.composing /\ Changed([view EXCEPT !.composing = FALSE], net)

Next ==
  \/ TimerFires \/ RetrySearch \/ LoadMore \/ SearchArrives
  \/ Open \/ Close \/ Type \/ Select \/ StartComposition \/ EndComposition

Spec == Init /\ [][Next]_vars

-----------------------------------------------------------------------------
(* Properties                                                              *)

\* aria-busy ends: a pending search is in flight.
SpinnersAnswered == view.pending => net.search # None

\* task-foundation.md:478-480: a member that can be picked matches the text in the field, although
\* searches overtake each other, fail, and go on while the picker is closed.
OfferedMatch == Ids(view.list.items) \subseteq Found[view.query]
=============================================================================
