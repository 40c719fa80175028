--------------------------- MODULE ProjectSection ---------------------------
(* The projects of a workspace: frontend features/projects/components/     *)
(* project-section.tsx with its create form, over the list of backend      *)
(* projects.service.ts. A new list from the start aborts the request       *)
(* before it, and takes the create form off the page, which aborts its     *)
(* request as well; the server may carry out what was aborted.             *)
EXTENDS PageCollection, SequencesExt

CONSTANTS Project,      \* projects that may ever exist
          MaxTroubles,  \* bound: changes by others, and failures
          None

Failure == [failed |-> TRUE]

VARIABLES server,  \* the projects, last updated first, and the creations on their way
          view,    \* the component's state
          net,     \* the list request and the create request in flight
          past     \* history: projects shown as created; troubles so far

vars == <<server, view, net, past>>

\* The list's answer is kept with its request until the component takes it.
Listing == [items : SUBSET [id : Project], page : Nat, total : Nat, all : SUBSET Project,
            failed : {FALSE}]
ListRequest == [kind : {"first", "more"}, page : Nat, answer : Listing \cup {Failure, None}]

List(kind, page) == [kind |-> kind, page |-> page, answer |-> None]

Init ==
  /\ server \in [order : UNION {SetToSeqs(p) : p \in SUBSET Project}, sent : {0}]
  /\ view = [load |-> "loading", list |-> Nothing, shown |-> 0, pagePending |-> FALSE,
             pageError |-> FALSE, selected |-> None]
  /\ net = [list |-> List("first", 1), create |-> None]
  /\ past = [created |-> {}, troubles |-> 0]

-----------------------------------------------------------------------------
(* The server.                                                             *)

Trouble == past.troubles < MaxTroubles /\ past' = [past EXCEPT !.troubles = @ + 1]
Unused == Project \ ToSet(server.order)
First(p) == <<p>> \o RemoveFirst(server.order, p)

\* Another member creates or updates a project.
Elsewhere ==
  /\ \E p \in Project : server' = [server EXCEPT !.order = First(p)]
  /\ Trouble /\ UNCHANGED <<view, net>>

ServeList ==
  /\ net.list # None /\ net.list.answer = None
  /\ LET p == PageOf(server.order, DOMAIN server.order, net.list.page) IN
     net' = [net EXCEPT !.list.answer =
               [items |-> {[id |-> q] : q \in p.items}, page |-> p.page, total |-> p.total,
                all |-> ToSet(server.order), failed |-> FALSE]]
  /\ UNCHANGED <<server, view, past>>

\* The oldest creation on its way is carried out; the last one sent may still be waited for.
ServeCreate ==
  /\ server.sent > 0
  /\ \E p \in Unused :
       /\ server' = [order |-> <<p>> \o server.order, sent |-> server.sent - 1]
       /\ net' = IF server.sent = 1 /\ net.create = [answer |-> None]
                 THEN [net EXCEPT !.create.answer = [id |-> p, failed |-> FALSE]] ELSE net
  /\ UNCHANGED <<view, past>>

\* A request, or the answer to the creation, is lost; a key that is taken is refused.
Fail ==
  /\ Trouble
  /\ \/ net.list # None /\ net.list.answer = None /\ net' = [net EXCEPT !.list.answer = Failure]
     \/ net.create # None /\ net.create.answer # Failure
          /\ net' = [net EXCEPT !.create.answer = Failure]
  /\ UNCHANGED <<server, view>>

-----------------------------------------------------------------------------
(* The component.                                                          *)

\* loadInitial up to its await. It does not touch pagePending.
LoadInitial ==
  /\ view' = [view EXCEPT !.load = "loading", !.pageError = FALSE]
  /\ net' = [list |-> List("first", 1), create |-> None]
  /\ UNCHANGED <<server, past>>

\* "Retry projects", and "Refresh projects" when the list changed while it was loading.
Reload ==
  /\ \/ view.load = "error"
     \/ view.load = "success" /\ view.list.inconsistent /\ ~view.pageError /\ ~view.pagePending
  /\ LoadInitial

\* "Load more projects" and its retry.
LoadMore ==
  /\ view.load = "success" /\ ~view.pagePending /\ ~view.list.exhausted
  /\ view' = [view EXCEPT !.pagePending = TRUE, !.pageError = FALSE]
  /\ net' = [net EXCEPT !.list = List("more", view.list.next)]
  /\ UNCHANGED <<server, past>>

Selection(current, items) ==
  IF current \in Ids(items) THEN current
  ELSE IF items = {} THEN None ELSE CHOOSE id \in Ids(items) : TRUE
Total(list, p) == Max({p.total, Cardinality(list.items)})

ListArrives ==
  LET r == net.list
      first == r.kind = "first"
      list == Reconcile(IF first THEN {} ELSE view.list.items, r.answer)
  IN /\ r # None /\ r.answer # None
     /\ net' = [net EXCEPT !.list = None]
     /\ view' = IF r.answer = Failure
                THEN IF first THEN [view EXCEPT !.load = "error"]
                              ELSE [view EXCEPT !.pageError = TRUE, !.pagePending = FALSE]
                ELSE IF first THEN [view EXCEPT !.load = "success", !.list = list,
                                      !.shown = Total(list, r.answer),
                                      !.selected = Selection(@, list.items)]
                              ELSE [view EXCEPT !.pagePending = FALSE, !.list = list,
                                      !.shown = Total(list, r.answer)]
     /\ UNCHANGED <<server, past>>

\* ProjectCreateForm, which MEMBER, ADMIN and OWNER see, is enabled.
CreateOffered == view.load = "success" /\ net.create = None

\* Its handleSubmit.
Create ==
  /\ CreateOffered /\ server.sent < Cardinality(Unused)
  /\ net' = [net EXCEPT !.create = [answer |-> None]]
  /\ server' = [server EXCEPT !.sent = @ + 1]
  /\ UNCHANGED <<view, past>>

CreateArrives ==
  /\ net.create # None /\ net.create.answer # None
  /\ net' = [net EXCEPT !.create = None]
  /\ IF net.create.answer = Failure THEN UNCHANGED <<view, past>>
     ELSE LET id == net.create.answer.id
              items == view.list.items \cup {[id |-> id]} IN
          /\ view' = [view EXCEPT !.list.items = items, !.selected = id,
                        !.shown = @ + Cardinality(items) - Cardinality(view.list.items)]
          /\ past' = [past EXCEPT !.created = @ \cup {id}]
  /\ UNCHANGED server

Select ==
  /\ view.load = "success"
  /\ \E id \in Ids(view.list.items) : view' = [view EXCEPT !.selected = id]
  /\ UNCHANGED <<server, net, past>>

Next ==
  \/ Elsewhere \/ ServeList \/ ServeCreate \/ Fail
  \/ Reload \/ LoadMore \/ ListArrives \/ Create \/ CreateArrives \/ Select

Spec == Init /\ [][Next]_vars

-----------------------------------------------------------------------------
(* Properties                                                              *)

\* A loading screen and a pending page wait for an answer. loadInitial would leave an aborted page
\* pending for ever: it is the buttons that keep the two apart.
SpinnersAnswered ==
  /\ view.load = "loading" => net.list # None /\ net.list.kind = "first"
  /\ view.pagePending => net.list # None /\ net.list.kind = "more"

\* What is about to replace the list was read when every project shown as created was there, as for
\* workspaces, although here no guard keeps a refresh and a creation apart.
CreatedNotReplaced ==
  net.list # None /\ net.list.kind = "first" /\ net.list.answer \notin {None, Failure}
    => past.created \subseteq net.list.answer.all
=============================================================================
