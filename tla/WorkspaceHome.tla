--------------------------- MODULE WorkspaceHome ---------------------------
(* The workspaces of a user: frontend features/workspaces/components/      *)
(* workspace-home.tsx with its reducer and the create form of              *)
(* workspace-home-ui.tsx, over the list of backend workspaces.service.ts.  *)
(* No request is aborted; a page request and the first load never overlap. *)
EXTENDS PageCollection, SequencesExt

CONSTANTS Workspace,    \* workspaces the user may ever belong to
          MaxTroubles,  \* bound: changes by others, and failures
          None

Failure == [failed |-> TRUE]

VARIABLES server,  \* the user's workspaces, last updated first
          view,    \* the component's state
          net,     \* the list request and the create request in flight
          past     \* history: workspaces shown as created, workspaces that ended; troubles so far

vars == <<server, view, net, past>>

\* The list's answer is kept with its request until the component takes it.
Listing == [items : SUBSET [id : Workspace], page : Nat, total : Nat, all : SUBSET Workspace,
            failed : {FALSE}]
ListRequest == [kind : {"initial", "load-more", "refresh"}, page : Nat,
                answer : Listing \cup {Failure, None}]

List(kind, page) == [kind |-> kind, page |-> page, answer |-> None]

Init ==
  /\ server \in UNION {SetToSeqs(w) : w \in SUBSET Workspace}
  /\ view = [load |-> "loading", items |-> {}, total |-> 0, next |-> 1, exhausted |-> TRUE,
             inconsistent |-> FALSE, selected |-> None, request |-> "idle", kind |-> "refresh"]
  /\ net = [list |-> List("initial", 1), create |-> None]
  /\ past = [created |-> {}, ended |-> {}, troubles |-> 0]

-----------------------------------------------------------------------------
(* The server.                                                             *)

Remaining(w) == RemoveFirst(server, w)
Unused == Workspace \ (ToSet(server) \cup past.ended)
Trouble == past.troubles < MaxTroubles /\ past' = [past EXCEPT !.troubles = @ + 1]

\* Another tab or member: a workspace is new or updated; a membership ends.
Elsewhere ==
  /\ past.troubles < MaxTroubles
  /\ \/ /\ \E w \in Unused \cup ToSet(server) : server' = <<w>> \o Remaining(w)
        /\ Trouble
     \/ \E w \in ToSet(server) :
          /\ server' = Remaining(w)
          /\ past' = [past EXCEPT !.ended = @ \cup {w}, !.troubles = @ + 1]
  /\ UNCHANGED <<view, net>>

ServeList ==
  /\ net.list # None /\ net.list.answer = None
  /\ LET p == PageOf(server, DOMAIN server, net.list.page) IN
     net' = [net EXCEPT !.list.answer =
               [items |-> {[id |-> w] : w \in p.items}, page |-> p.page, total |-> p.total,
                all |-> ToSet(server), failed |-> FALSE]]
  /\ UNCHANGED <<server, view, past>>

ServeCreate ==
  /\ net.create # None /\ net.create.answer = None
  /\ \E w \in Unused :
       /\ server' = <<w>> \o server
       /\ net' = [net EXCEPT !.create.answer = [id |-> w, failed |-> FALSE]]
  /\ UNCHANGED <<view, past>>

\* A request, or the answer to the creation, is lost.
Fail ==
  /\ Trouble
  /\ \E r \in {"list", "create"} :
       /\ net[r] # None /\ (net[r].answer = None \/ (r = "create" /\ net[r].answer # Failure))
       /\ net' = [net EXCEPT ![r].answer = Failure]
  /\ UNCHANGED <<server, view>>

-----------------------------------------------------------------------------
(* workspaceCollectionReducer                                              *)

Selection(current, items) ==
  IF current \in Ids(items) THEN current
  ELSE IF items = {} THEN None ELSE CHOOSE id \in Ids(items) : TRUE

Loaded(v, p, replacing) ==
  LET items == IF replacing THEN p.items ELSE Merge(v.items, p.items)
      total == Max({p.total, Cardinality(items)} \cup (IF replacing THEN {} ELSE {v.total}))
      exhausted == p.page * PageSize >= total
  IN [v EXCEPT !.items = items, !.total = total, !.next = p.page + 1, !.exhausted = exhausted,
               !.inconsistent = exhausted /\ Cardinality(items) < total,
               !.selected = Selection(@, items)]

Created(v, id) ==
  LET items == v.items \cup {[id |-> id]}
      added == Cardinality(items) - Cardinality(v.items)
      total == Max({v.total + added, Cardinality(items)})
  IN [v EXCEPT !.items = items, !.total = total, !.selected = id,
               !.inconsistent = v.exhausted /\ Cardinality(items) < total]

-----------------------------------------------------------------------------
(* The component.                                                          *)

Retry ==
  /\ view.load = "error"
  /\ view' = [view EXCEPT !.load = "loading"]
  /\ net' = [net EXCEPT !.list = List("initial", 1)]
  /\ UNCHANGED <<server, past>>

\* "Load more" and "Refresh workspaces", or the retry of the one that failed.
Offered(kind) ==
  /\ view.load = "success" /\ view.items # {}
  /\ IF view.request = "error" THEN kind = view.kind
     ELSE IF kind = "load-more" THEN ~view.exhausted
     ELSE view.inconsistent

\* Mutant: a refresh does not wait for the creation.
RequestPageAnyway(kind) ==
  /\ Offered(kind) /\ view.request # "loading"
  /\ view' = [view EXCEPT !.request = "loading", !.kind = kind]
  /\ net' = [net EXCEPT !.list = List(kind, IF kind = "refresh" THEN 1 ELSE view.next)]
  /\ UNCHANGED <<server, past>>

RequestPage(kind) ==
  /\ Offered(kind) /\ view.request # "loading" /\ (kind = "refresh" => net.create = None)
  /\ view' = [view EXCEPT !.request = "loading", !.kind = kind]
  /\ net' = [net EXCEPT !.list = List(kind, IF kind = "refresh" THEN 1 ELSE view.next)]
  /\ UNCHANGED <<server, past>>

ListArrives ==
  LET r == net.list
      first == r.kind = "initial"
      replacing == r.kind # "load-more"
  IN /\ r # None /\ r.answer # None
     /\ net' = [net EXCEPT !.list = None]
     /\ view' = IF r.answer = Failure
                THEN IF first THEN [view EXCEPT !.load = "error"]
                              ELSE [view EXCEPT !.request = "error"]
                ELSE IF first THEN [Loaded(view, r.answer, TRUE) EXCEPT !.load = "success"]
                              ELSE [Loaded(view, r.answer, replacing) EXCEPT !.request = "idle"]
     /\ UNCHANGED <<server, past>>

\* The create form; it is disabled while a refresh is pending, and while it is itself.
CreateOffered ==
  /\ view.load = "success" /\ net.create = None
  /\ ~(view.request = "loading" /\ view.kind = "refresh")
Create ==
  /\ CreateOffered
  /\ net' = [net EXCEPT !.create = [answer |-> None]]
  /\ UNCHANGED <<server, view, past>>

CreateArrives ==
  /\ net.create # None /\ net.create.answer # None
  /\ net' = [net EXCEPT !.create = None]
  /\ IF net.create.answer = Failure THEN UNCHANGED <<view, past>>
     ELSE /\ view' = Created(view, net.create.answer.id)
          /\ past' = [past EXCEPT !.created = @ \cup {net.create.answer.id}]
  /\ UNCHANGED server

Select ==
  /\ view.load = "success"
  /\ \E id \in Ids(view.items) : view' = [view EXCEPT !.selected = id]
  /\ UNCHANGED <<server, net, past>>

Next ==
  \/ Elsewhere \/ ServeList \/ ServeCreate \/ Fail
  \/ Retry \/ RequestPage("load-more") \/ RequestPage("refresh") \/ ListArrives
  \/ Create \/ CreateArrives \/ Select

Spec == Init /\ [][Next]_vars

-----------------------------------------------------------------------------
(* Properties                                                              *)

\* A loading screen and a pending page wait for an answer.
SpinnersAnswered ==
  /\ view.load = "loading" => net.list # None /\ net.list.kind = "initial"
  /\ view.request = "loading" => net.list # None /\ net.list.kind = view.kind

\* docs/roadmap/feature-plans/completed/workspace-pagination-and-selection.md:35-36: what is about
\* to replace the list was read when every workspace that is shown as created was there.
CreatedNotReplaced ==
  net.list # None /\ net.list.kind = "refresh" /\ net.list.answer \notin {None, Failure}
    => past.created \subseteq net.list.answer.all \cup past.ended
=============================================================================
