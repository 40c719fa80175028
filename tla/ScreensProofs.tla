---------------------------- MODULE ScreensProofs ----------------------------
(***************************************************************************)
(* Theorems about what the browser shows: the assignee picker, the         *)
(* notification panel, the comment thread and the comment form, and, from  *)
(* their invariants and those of SectionsProofs and BrowserSessionProofs,  *)
(* the properties of every screen.                                         *)
(***************************************************************************)
EXTENDS SectionsProofs, BrowserSessionProofs

\* A list that is shown in numbered pages.
Collection(id) ==
  [items : SUBSET [id : id], next : Nat, exhausted : BOOLEAN, inconsistent : BOOLEAN]

-----------------------------------------------------------------------------
(* AssigneePicker                                                          *)

PickerView == [open : BOOLEAN, query : Query, list : Collection(Found[""]), pending : BOOLEAN,
               failed : BOOLEAN, composing : BOOLEAN]

PickerInv ==
  /\ view \in PickerView
  /\ net \in [timer : BOOLEAN, search : AP!Search \cup {None}]
  /\ view.pending => net.search # None
  /\ AP!OfferedMatch
  /\ net.search # None => Found[net.search.query] \subseteq Found[view.query]

LEMMA Reconciled ==
  ASSUME NEW p, NEW items, NEW id, p.page \in Nat, items \in SUBSET [id : id],
         p.items \in SUBSET [id : id]
  PROVE  AP!Reconcile(items, p) \in Collection(id)
         /\ AP!Reconcile(items, p).items \subseteq items \cup p.items
<1> DEFINE new == AP!Reconcile(items, p)
<1>1. /\ new = [items |-> new.items, next |-> new.next, exhausted |-> new.exhausted,
                inconsistent |-> new.inconsistent]
      /\ new.items = AP!Merge(items, p.items)
      /\ new.next = p.page + 1
  BY DEF AP!Reconcile
<1>2. new.exhausted \in BOOLEAN
  BY DEF AP!Reconcile
<1>3. new.inconsistent \in BOOLEAN
  BY DEF AP!Reconcile
<1>4. new.items \subseteq items \cup p.items
  BY <1>1 DEF AP!Merge
<1> HIDE DEF new
<1>5. new.items \in SUBSET [id : id]
  BY <1>4
<1>6. new \in Collection(id)
  BY <1>1, <1>2, <1>3, <1>5 DEF Collection
<1> QED  BY <1>4, <1>6 DEF new

LEMMA SearchedPage ==
  ASSUME NEW q \in Query, NEW page \in Nat
  PROVE  /\ AP!Page(q, page).page \in Nat
         /\ AP!Page(q, page).items \in SUBSET [id : Found[""]]
         /\ AP!Ids(AP!Page(q, page).items) \subseteq Found[q]
<1>1. AP!Page(q, page).page \in Nat
  BY DEF AP!Page, AP!PageOf
<1>2. ASSUME NEW x \in AP!Page(q, page).items
      PROVE  x \in [id : Found[""]] /\ x.id \in Found[q]
  <2>1. PICK u \in Found[q] : x = [id |-> u]
    BY DEF AP!Page, AP!PageOf
  <2>2. u \in Found[""]
    BY SearchAssumption
  <2> QED  BY <2>1, <2>2
<1> QED  BY <1>1, <1>2 DEF AP!Ids

LEMMA PickerStep ==
  ASSUME PickerInv, AP!Next
  PROVE  PickerInv'
<1> USE DEF PickerInv
<1>1. CASE AP!TimerFires \/ AP!RetrySearch \/ AP!LoadMore
  <2>1. PICK page \in Nat, append \in BOOLEAN, timer \in BOOLEAN : AP!RunSearch(page, append, timer)
    BY <1>1 DEF AP!TimerFires, AP!RetrySearch, AP!LoadMore, PickerView, Collection
  <2>2. view' = [view EXCEPT !.pending = TRUE, !.failed = FALSE]
    BY <2>1 DEF AP!RunSearch
  <2>3. net' = [timer |-> timer, search |-> [query |-> view.query, page |-> page, append |-> append]]
    BY <2>1 DEF AP!RunSearch
  <2>4. [query |-> view.query, page |-> page, append |-> append] \in AP!Search
    BY DEF AP!Search, PickerView
  <2>5. net'.search # None
    BY <2>3, <2>4, NoneAssumption
  <2> QED  BY <2>2, <2>3, <2>4, <2>5 DEF PickerView, AP!OfferedMatch, AP!Search
<1>2. CASE AP!SearchArrives
  <2>1. net.search \in AP!Search
    BY <1>2 DEF AP!SearchArrives
  <2> DEFINE current == IF net.search.append THEN view.list.items ELSE {}
             page == AP!Page(net.search.query, net.search.page)
             list == AP!Reconcile(current, page)
  <2>2. current \in SUBSET [id : Found[""]] /\ AP!Ids(current) \subseteq Found[view.query]
    BY DEF PickerView, Collection, AP!Ids, AP!OfferedMatch
  <2>3. /\ page.page \in Nat /\ page.items \in SUBSET [id : Found[""]]
        /\ AP!Ids(page.items) \subseteq Found[net.search.query]
    BY <2>1, SearchedPage DEF AP!Search
  <2>4. net' = [net EXCEPT !.search = None]
    BY <1>2 DEF AP!SearchArrives
  <2>5. \/ view' = [view EXCEPT !.list = list, !.pending = FALSE]
        \/ view' = [view EXCEPT !.failed = TRUE, !.pending = FALSE]
    BY <1>2 DEF AP!SearchArrives
  <2> HIDE DEF current, page
  <2>6. list \in Collection(Found[""]) /\ list.items \subseteq current \cup page.items
    BY <2>2, <2>3, Reconciled
  <2>7. AP!Ids(list.items) \subseteq Found[view.query]
    BY <2>2, <2>3, <2>6, <1>2 DEF AP!Ids, AP!SearchArrives
  <2> HIDE DEF list
  <2> QED  BY <2>4, <2>5, <2>6, <2>7 DEF PickerView, AP!OfferedMatch
<1>3. CASE AP!Open \/ AP!Close \/ AP!EndComposition
  BY <1>3 DEF AP!Open, AP!Close, AP!EndComposition, AP!Changed, AP!Debounced, PickerView,
       AP!OfferedMatch
<1>4. CASE AP!StartComposition
  BY <1>4 DEF AP!StartComposition, AP!Changed, AP!Debounced, PickerView, AP!OfferedMatch
<1>5. CASE AP!Type
  <2>1. AP!Nothing \in Collection(Found[""]) /\ AP!Ids(AP!Nothing.items) = {}
    BY DEF AP!Nothing, Collection, AP!Ids
  <2> QED  BY <1>5, <2>1 DEF AP!Type, AP!Changed, AP!Debounced, PickerView, AP!OfferedMatch
<1>6. CASE AP!Select
  <2>1. Found[view.query] \subseteq Found[""] /\ "" \in Query
    BY SearchAssumption DEF PickerView
  <2>2. view' = [view EXCEPT !.open = FALSE, !.query = ""]
    BY <1>6 DEF AP!Select, AP!Changed
  <2>3. net' = [net EXCEPT !.timer = net'.timer] /\ net'.timer \in BOOLEAN
    BY <1>6, <2>2 DEF AP!Select, AP!Changed, AP!Debounced, PickerView
  <2>4. view' \in PickerView
    BY <2>1, <2>2 DEF PickerView
  <2>5. view'.query = "" /\ view'.list = view.list /\ view'.pending = view.pending
    BY <2>2 DEF PickerView
  <2>6. net' \in [timer : BOOLEAN, search : AP!Search \cup {None}] /\ net'.search = net.search
    BY <2>3
  <2> HIDE DEF PickerInv
  <2> QED  BY <2>1, <2>4, <2>5, <2>6 DEF PickerInv, AP!OfferedMatch
<1> QED  BY <1>1, <1>2, <1>3, <1>4, <1>5, <1>6 DEF AP!Next

-----------------------------------------------------------------------------
(* NotificationCenter                                                      *)

\* A list that was read before a command was accepted says so, or shows what the command read.
PanelAnswer(r) ==
  r # None /\ r.answer \notin {None, NC!Failure} =>
    /\ \A x \in r.answer.items : x.id \in past =>
         x.read \/ (r.preserve /\ r.mode # "initial" /\ x.id \in NC!Ids(view.items))
    /\ r.answer.items = {} => r.answer.next = 0

PanelInv ==
  /\ NC!TypeOK /\ NC!SpinnersAnswered /\ NC!ReadStateKept
  /\ past \subseteq server.read \cup server.removed
  /\ net.command # None /\ net.command.answer \notin {None, NC!Failure} =>
       net.command.answer.read \subseteq server.read \cup server.removed
  /\ PanelAnswer(net.first) /\ PanelAnswer(net.page)
  /\ net.first # None => net.first.mode # "more"
  /\ net.page # None => net.page.mode = "more"
  /\ net.first # None /\ net.page # None =>
       view.items # {} /\ (net.page.preserve => net.first.preserve)
  /\ net.first # None /\ net.first.mode = "initial" => view.items = {} /\ net.page = None
  /\ view.items = {} => view.cursor = 0
  /\ view.phase = "error" => view.items = {} /\ net.page = None

LEMMA PanelCardinality == \A S : NC!Cardinality(S) = Cardinality(S)
BY DEF NC!Cardinality, Cardinality

LEMMA PanelPage ==
  ASSUME NC!TypeOK, NEW below \in Nat
  PROVE  /\ NC!Page(server, below) \in NC!Listing
         /\ \A x \in NC!Page(server, below).items :
              x.id \notin server.removed /\ (x.id \in server.read => x.read)
         /\ NC!Page(server, below).items = {} => NC!Page(server, below).next = 0
<1> DEFINE older == {x \in NC!Visible(server) : x < below}
           page == {x \in older : NC!Cardinality({y \in older : y > x}) < Limit}
           items == {NC!Public(server, x) : x \in page}
           answer == NC!Page(server, below)
<1>1. answer = [items |-> items, next |-> NC!Cursor(older, page),
                unread |-> NC!Cardinality(NC!Unread(server)), failed |-> FALSE]
  BY DEF NC!Page
<1>2. server.created \in Nat /\ NC!Visible(server) \subseteq 1..server.created
  BY DEF NC!TypeOK, NC!Visible
<1>3. NC!Cardinality(NC!Unread(server)) \in Nat
  <2>1. IsFiniteSet(1..server.created)
    BY <1>2, FS_Interval
  <2>2. NC!Unread(server) \subseteq 1..server.created
    BY <1>2 DEF NC!Unread
  <2>3. IsFiniteSet(NC!Unread(server))
    BY <2>1, <2>2, FS_Subset
  <2> QED  BY <2>3, FS_CardinalityType, PanelCardinality
<1>4. ASSUME NEW x \in items
      PROVE  x \in NC!Shown /\ x.id \notin server.removed /\ (x.id \in server.read => x.read)
  <2>1. PICK i \in page : x = NC!Public(server, i)
    OBVIOUS
  <2>2. i \in Nat /\ i \notin server.removed
    BY <1>2 DEF NC!Visible
  <2>3. x = [id |-> i, read |-> i \in server.read] /\ (i \in server.read) \in BOOLEAN
    BY <2>1 DEF NC!Public
  <2> QED  BY <2>2, <2>3 DEF NC!Shown
<1>5. older \subseteq 0..server.created /\ page \subseteq older
  BY <1>2
<1>6. page = {} => older = {}
  <2> SUFFICES ASSUME older # {}  PROVE page # {}
    OBVIOUS
  <2>1. PICK m \in older : \A y \in older : m >= y
    <3> HIDE DEF older
    <3> QED  BY <1>2, <1>5, MaxExists
  <2>2. {y \in older : y > m} = {}
    BY <1>5, <2>1
  <2>3. NC!Cardinality({y \in older : y > m}) = 0
    BY <2>2, FS_EmptySet, PanelCardinality
  <2>4. m \in page
    BY <2>3, SizesAssumption
  <2> QED  BY <2>4
<1>7. NC!Cursor(older, page) \in Nat
  <2> HIDE DEF older, page
  <2>1. CASE page = older
    BY <2>1 DEF NC!Cursor
  <2>2. CASE page # older
    <3>0. page # {}
      BY <1>6, <2>2
    <3>1. page \in SUBSET Nat
      BY <1>2, <1>5
    <3>2. \E x \in page : \A y \in page : x <= y
      BY <3>0, <3>1, MinExists
    <3>3. NC!Min(page) \in page
      BY <3>2 DEF NC!Min
    <3> QED  BY <2>2, <3>1, <3>3 DEF NC!Cursor
  <2> QED  BY <2>1, <2>2
<1>8. items = {} => NC!Cursor(older, page) = 0
  BY <1>6 DEF NC!Cursor
<1> HIDE DEF older, page, items
<1>9. answer \in NC!Listing
  BY <1>1, <1>3, <1>4, <1>7 DEF NC!Listing
<1> QED  BY <1>1, <1>4, <1>8, <1>9

LEMMA Merged ==
  ASSUME NEW old \in SUBSET NC!Shown, NEW new \in SUBSET NC!Shown, NEW preserve \in BOOLEAN
  PROVE  /\ NC!Merge(old, new, preserve) \in SUBSET NC!Shown
         /\ NC!Ids(NC!Merge(old, new, preserve)) = NC!Ids(old) \cup NC!Ids(new)
         /\ \A x \in NC!Merge(old, new, preserve) :
              \/ x \in old
              \/ /\ \E y \in new : x.id = y.id /\ (y.read => x.read)
                 /\ preserve /\ x.id \in NC!ReadIds(old) => x.read
<1> DEFINE marked(x) == [x EXCEPT !.read = @ \/ (preserve /\ x.id \in NC!ReadIds(old))]
           kept == {x \in old : x.id \notin NC!Ids(new)}
           changed == {marked(x) : x \in new}
<1>1. ASSUME NEW x \in new
      PROVE  /\ marked(x) \in NC!Shown /\ marked(x).id = x.id /\ (x.read => marked(x).read)
             /\ preserve /\ x.id \in NC!ReadIds(old) => marked(x).read
  <2>1. (x.read \/ (preserve /\ x.id \in NC!ReadIds(old))) \in BOOLEAN
    OBVIOUS
  <2> QED  BY <2>1 DEF NC!Shown
<1>2. NC!Merge(old, new, preserve) = changed \cup kept
  BY DEF NC!Merge
<1>3. ASSUME NEW y \in changed
      PROVE  /\ y \in NC!Shown
             /\ \E x \in new : y.id = x.id /\ (x.read => y.read)
             /\ preserve /\ y.id \in NC!ReadIds(old) => y.read
  <2>1. PICK x \in new : y = marked(x)
    OBVIOUS
  <2> HIDE DEF marked
  <2> QED  BY <1>1, <2>1
<1>4. ASSUME NEW x \in new  PROVE \E y \in changed : y.id = x.id
  <2>1. marked(x) \in changed
    OBVIOUS
  <2> HIDE DEF marked, changed
  <2> QED  BY <1>1, <2>1
<1>7. \A y \in changed : \E x \in new : y = marked(x)
  OBVIOUS
<1> HIDE DEF changed, marked
<1>5. NC!Ids(changed) = NC!Ids(new)
  <2>1. ASSUME NEW y \in changed  PROVE y.id \in NC!Ids(new)
    <3>1. PICK x \in new : y = marked(x)
      BY <1>7
    <3> QED  BY <1>1, <3>1 DEF NC!Ids
  <2>2. ASSUME NEW x \in new  PROVE x.id \in NC!Ids(changed)
    BY <1>4 DEF NC!Ids
  <2> QED  BY <2>1, <2>2 DEF NC!Ids
<1>6. NC!Ids(changed \cup kept) = NC!Ids(old) \cup NC!Ids(new)
  BY <1>5 DEF NC!Ids
<1> QED  BY <1>2, <1>3, <1>6

\* What others do only adds to what is read or removed.
LEMMA PanelElsewhere ==
  ASSUME PanelInv, NC!Elsewhere
  PROVE  PanelInv'
<1>1. server' \in [created : Nat, read : SUBSET Nat, removed : SUBSET Nat]
  BY DEF NC!Elsewhere, NC!Notify, NC!ReadElsewhere, NC!Remove, PanelInv, NC!TypeOK, NC!View,
       NC!Net, NC!Visible, NC!Unread
<1>2. server.read \subseteq server'.read /\ server.removed \subseteq server'.removed
  BY DEF NC!Elsewhere, NC!Notify, NC!ReadElsewhere, NC!Remove, PanelInv, NC!TypeOK, NC!View, NC!Net
<1>3. UNCHANGED <<view, net, past>>
  BY DEF NC!Elsewhere
<1> QED
  BY <1>1, <1>2, <1>3 DEF PanelInv, PanelAnswer, NC!TypeOK, NC!View, NC!Net, NC!SpinnersAnswered,
       NC!ReadStateKept, NC!Ids

\* An answer that is given, or lost, on the way to the panel.
LEMMA PanelAnswered ==
  ASSUME PanelInv, NEW w \in {"first", "page"}, NC!ServeList(w) \/ NC!Fail(w)
  PROVE  PanelInv'
<1> USE DEF PanelInv
<1>1. net[w] \in NC!ListRequest
  BY DEF NC!ServeList, NC!Fail, NC!TypeOK, NC!View, NC!Net
<1>2. UNCHANGED <<server, view, past>>
  BY DEF NC!ServeList, NC!Fail
<1>3. PICK a \in NC!Listing \cup {NC!Failure} :
        /\ net' = [net EXCEPT ![w].answer = a]
        /\ a # NC!Failure => /\ \A x \in a.items : x.id \in past => x.read
                             /\ a.items = {} => a.next = 0
  <2>1. CASE NC!ServeList(w)
    <3>1. net[w].below \in Nat
      BY <1>1 DEF NC!ListRequest
    <3>2. net' = [net EXCEPT ![w].answer = NC!Page(server, net[w].below)]
      BY <2>1 DEF NC!ServeList
    <3>3. past \subseteq server.read \cup server.removed
      OBVIOUS
    <3> QED  BY <3>1, <3>2, <3>3, PanelPage
  <2>2. CASE NC!Fail(w)
    BY <2>2 DEF NC!Fail
  <2> QED  BY <2>1, <2>2
<1>4. net[w] # None /\ [net[w] EXCEPT !.answer = a] \in NC!ListRequest
  BY <1>1, NoneAssumption DEF NC!ListRequest

<1>5. CASE w = "first"
  <2>1. net' = [net EXCEPT !.first = [net.first EXCEPT !.answer = a]]
    BY <1>3, <1>5
  <2>2. /\ net' \in NC!Net
        /\ net'.first = [net.first EXCEPT !.answer = a] /\ net'.first # None
        /\ net'.page = net.page /\ net'.command = net.command
    BY <1>4, <1>5, <2>1, NoneAssumption DEF NC!TypeOK, NC!View, NC!Net
  <2>3. /\ net'.first.answer = a /\ net'.first.mode = net.first.mode
        /\ net'.first.preserve = net.first.preserve /\ net.first # None
    BY <1>1, <1>4, <1>5, <2>2 DEF NC!ListRequest
  <2> QED
    BY <1>2, <1>3, <2>2, <2>3 DEF PanelAnswer, NC!TypeOK, NC!View, NC!Net, NC!SpinnersAnswered,
         NC!ReadStateKept, NC!Ids
<1>6. CASE w = "page"
  <2>1. net' = [net EXCEPT !.page = [net.page EXCEPT !.answer = a]]
    BY <1>3, <1>6
  <2>2. /\ net' \in NC!Net
        /\ net'.page = [net.page EXCEPT !.answer = a] /\ net'.page # None
        /\ net'.first = net.first /\ net'.command = net.command
    BY <1>4, <1>6, <2>1, NoneAssumption DEF NC!TypeOK, NC!View, NC!Net
  <2>3. /\ net'.page.answer = a /\ net'.page.mode = net.page.mode
        /\ net'.page.preserve = net.page.preserve /\ net.page # None
    BY <1>1, <1>4, <1>6, <2>2 DEF NC!ListRequest
  <2> QED
    BY <1>2, <1>3, <2>2, <2>3 DEF PanelAnswer, NC!TypeOK, NC!View, NC!Net, NC!SpinnersAnswered,
         NC!ReadStateKept, NC!Ids
<1> QED  BY <1>5, <1>6

\* A command that is carried out, or lost.
LEMMA PanelCommanded ==
  ASSUME PanelInv, NC!ServeCommand \/ NC!Fail("command")
  PROVE  PanelInv'
<1> USE DEF PanelInv
<1>1. net.command \in NC!Command /\ net.command # None
  BY DEF NC!ServeCommand, NC!Fail, NC!TypeOK, NC!View, NC!Net
<1>2. UNCHANGED <<view, past>>
  BY DEF NC!ServeCommand, NC!Fail
<1>3. PICK a \in NC!Outcome \cup {NC!Failure} :
        /\ net' = [net EXCEPT !.command.answer = a]
        /\ a # NC!Failure => a.read \subseteq server'.read \cup server'.removed
        /\ server' \in [created : Nat, read : SUBSET Nat, removed : SUBSET Nat]
        /\ server.read \subseteq server'.read /\ server.removed = server'.removed
  <2>1. CASE NC!ServeCommand
    <3> DEFINE all == net.command.id = 0
               ids == IF all THEN NC!Visible(server) ELSE {net.command.id} \cap NC!Visible(server)
               after == [server EXCEPT !.read = @ \cup ids]
               answer == [read |-> IF all THEN 1..server.created ELSE ids,
                          unread |-> NC!Cardinality(NC!Unread(after)), failed |-> FALSE]
    <3>1. server' = after /\ net' = [net EXCEPT !.command.answer =
                                      IF ~all /\ ids = {} THEN NC!Failure ELSE answer]
      BY <2>1 DEF NC!ServeCommand
    <3>2. ids \subseteq Nat /\ (all => ids = 1..server.created \ server.removed) /\ server.created \in Nat
      BY <1>1 DEF NC!TypeOK, NC!View, NC!Net, NC!Visible, NC!Command
    <3> HIDE DEF ids, all
    <3>3. /\ after \in [created : Nat, read : SUBSET Nat, removed : SUBSET Nat]
          /\ after.read = server.read \cup ids /\ after.removed = server.removed
      BY <3>2 DEF NC!TypeOK, NC!View, NC!Net
    <3> HIDE DEF after
    <3>4. NC!Cardinality(NC!Unread(after)) \in Nat
      <4>1. IsFiniteSet(1..after.created)
        BY <3>3, FS_Interval
      <4>2. NC!Unread(after) \subseteq 1..after.created
        BY DEF NC!Unread, NC!Visible
      <4>3. IsFiniteSet(NC!Unread(after))
        BY <4>1, <4>2, FS_Subset
      <4> QED  BY <4>3, FS_CardinalityType, PanelCardinality
    <3>5. answer \in NC!Outcome
      BY <3>2, <3>4 DEF NC!Outcome
    <3>6. answer.read \subseteq after.read \cup after.removed
      BY <3>2, <3>3
    <3> HIDE DEF answer
    <3> QED  BY <3>1, <3>3, <3>5, <3>6
  <2>2. CASE NC!Fail("command")
    BY <2>2 DEF NC!Fail, NC!TypeOK, NC!View, NC!Net
  <2> QED  BY <2>1, <2>2
<1>4. /\ net'.first = net.first /\ net'.page = net.page
      /\ net'.command = [net.command EXCEPT !.answer = a]
      /\ net' = [net EXCEPT !.command = [net.command EXCEPT !.answer = a]]
  BY <1>3 DEF NC!TypeOK, NC!View, NC!Net
<1>5. net'.command \in NC!Command /\ net'.command.answer = a
  BY <1>1, <1>4 DEF NC!Command
<1>6. net'.command # None /\ net' \in NC!Net
  BY <1>4, <1>5, NoneAssumption DEF NC!TypeOK, NC!View, NC!Net
<1> QED
  BY <1>1, <1>2, <1>3, <1>4, <1>5, <1>6
    DEF PanelAnswer, NC!TypeOK, NC!View, NC!Net, NC!SpinnersAnswered, NC!ReadStateKept, NC!Ids

LEMMA ListTyped ==
  ASSUME NEW below \in Nat, NEW mode \in {"initial", "refresh", "more"}
  PROVE  /\ NC!Request(below, mode) \in NC!ListRequest /\ NC!Request(below, mode) # None
         /\ NC!Request(below, mode).mode = mode /\ NC!Request(below, mode).answer = None
         /\ ~NC!Request(below, mode).preserve
<1>1. NC!Request(below, mode) \in NC!ListRequest
  BY DEF NC!Request, NC!ListRequest
<1>2. NC!Request(below, mode) # None
  BY <1>1, NoneAssumption
<1> QED  BY <1>1, <1>2 DEF NC!Request

\* A new first page, or the older page after the cursor, is requested.
LEMMA PanelRequests ==
  ASSUME PanelInv, NC!Retry \/ NC!Refresh \/ NC!LoadMore
  PROVE  PanelInv'
<1> USE DEF PanelInv
<1>0. NC!Top \in Nat
  BY SizesAssumption DEF NC!Top
<1>1. ASSUME NEW mode \in {"initial", "refresh"}, NC!LoadFirstPage(mode),
             mode = "initial" => view.items = {}
      PROVE  PanelInv'
  <2>1. view' = NC!Loading(view, mode) /\ UNCHANGED <<server, past>>
        /\ net' = [net EXCEPT !.first = NC!Request(NC!Top, mode), !.page = None]
    BY <1>1 DEF NC!LoadFirstPage, NC!Reload
  <2>2. /\ net' \in NC!Net
        /\ net'.first = NC!Request(NC!Top, mode) /\ net'.page = None /\ net'.command = net.command
    BY <1>0, <2>1, ListTyped DEF NC!TypeOK, NC!View, NC!Net
  <2>3. /\ view' \in NC!View
        /\ view'.items = view.items /\ view'.cursor = view.cursor /\ ~view'.loadingMore
        /\ view'.pending = view.pending /\ view'.all = view.all
        /\ view'.phase = "error" => view.phase = "error"
    BY <2>1 DEF NC!Loading, NC!TypeOK, NC!View, NC!Net
  <2> QED
    BY <1>0, <1>1, <2>1, <2>2, <2>3, ListTyped
      DEF PanelAnswer, NC!TypeOK, NC!View, NC!Net, NC!SpinnersAnswered, NC!ReadStateKept
<1>2. CASE NC!Retry \/ NC!Refresh
  BY <1>1, <1>2 DEF NC!Retry, NC!Refresh
<1>3. CASE NC!LoadMore
  <2>1. /\ view' = [view EXCEPT !.loadingMore = TRUE, !.failed = FALSE] /\ UNCHANGED <<server, past>>
        /\ net' = [net EXCEPT !.page = NC!Request(view.cursor, "more")] /\ view.cursor # 0
    BY <1>3 DEF NC!LoadMore, NC!MoreOffered
  <2>2. NC!Request(view.cursor, "more") \in NC!ListRequest
    BY ListTyped DEF NC!TypeOK, NC!View, NC!Net
  <2>3. /\ net' \in NC!Net
        /\ net'.page = NC!Request(view.cursor, "more")
        /\ net'.first = net.first /\ net'.command = net.command
    BY <2>1, <2>2 DEF NC!TypeOK, NC!View, NC!Net
  <2>4. /\ view' \in NC!View
        /\ view'.items = view.items /\ view'.cursor = view.cursor /\ view'.phase = view.phase
        /\ view'.pending = view.pending /\ view'.all = view.all /\ view'.refreshing = view.refreshing
    BY <2>1 DEF NC!TypeOK, NC!View, NC!Net
  <2>5. view.cursor \in Nat
    BY DEF NC!TypeOK, NC!View, NC!Net
  <2> QED
    BY <2>1, <2>3, <2>4, <2>5, ListTyped
      DEF PanelAnswer, NC!TypeOK, NC!View, NC!Net, NC!SpinnersAnswered, NC!ReadStateKept
<1> QED  BY <1>2, <1>3

LEMMA MergedIds ==
  ASSUME NEW old \in SUBSET NC!Shown, NEW new \in SUBSET NC!Shown, NEW preserve \in BOOLEAN
  PROVE  /\ NC!Merge(old, new, preserve) \in SUBSET NC!Shown
         /\ NC!Ids(NC!Merge(old, new, preserve)) = NC!Ids(old) \cup NC!Ids(new)
BY Merged

\* What a command read stays read in a merged list.
LEMMA MergedStaysRead ==
  ASSUME NEW old \in SUBSET NC!Shown, NEW new \in SUBSET NC!Shown, NEW preserve \in BOOLEAN, NEW P,
         \A x \in old : x.id \in P => x.read,
         \A y \in new : y.id \in P => y.read \/ (preserve /\ y.id \in NC!Ids(old))
  PROVE  \A x \in NC!Merge(old, new, preserve) : x.id \in P => x.read
<1> DEFINE items == NC!Merge(old, new, preserve)
<1>1. \A x \in items :
        \/ x \in old
        \/ /\ \E y \in new : x.id = y.id /\ (y.read => x.read)
           /\ preserve /\ x.id \in NC!ReadIds(old) => x.read
  BY Merged
<1> HIDE DEF items
<1>2. ASSUME NEW x \in items, x.id \in P, x \notin old  PROVE x.read
  <2>1. PICK y \in new : x.id = y.id /\ (y.read => x.read)
    BY <1>1, <1>2
  <2>2. preserve /\ x.id \in NC!ReadIds(old) => x.read
    BY <1>1, <1>2
  <2>3. CASE preserve /\ x.id \in NC!Ids(old)
    <3>1. PICK z \in old : z.id = x.id
      BY <2>3 DEF NC!Ids
    <3>2. x.id \in NC!ReadIds(old)
      BY <1>2, <3>1 DEF NC!ReadIds
    <3> QED  BY <2>2, <2>3, <3>2
  <2> QED  BY <1>2, <2>1, <2>3
<1> QED  BY <1>2 DEF items

\* What merging an answer makes of the list: nothing that a command read is shown as unread.
LEMMA MergedAnswer ==
  ASSUME PanelInv, NEW r \in NC!ListRequest, PanelAnswer(r), r.answer \in NC!Listing,
         NEW preserve \in BOOLEAN, r.preserve => preserve, r.mode # "initial"
  PROVE  LET items == NC!Merge(view.items, r.answer.items, preserve) IN
         /\ items \in SUBSET NC!Shown /\ NC!Ids(view.items) \subseteq NC!Ids(items)
         /\ \A x \in items : x.id \in past => x.read
         /\ items = {} => r.answer.next = 0
<1> DEFINE items == NC!Merge(view.items, r.answer.items, preserve)
<1>1. view.items \in SUBSET NC!Shown /\ r.answer.items \in SUBSET NC!Shown
  BY DEF PanelInv, NC!TypeOK, NC!View, NC!Listing
<1>2. r # None /\ r.answer # None /\ r.answer # NC!Failure
  <2>1. r.answer.failed = FALSE /\ NC!Failure.failed = TRUE
    BY DEF NC!Listing, NC!Failure
  <2> QED  BY <2>1, NoneAssumption
<1>3. /\ items \in SUBSET NC!Shown
      /\ NC!Ids(items) = NC!Ids(view.items) \cup NC!Ids(r.answer.items)
  BY <1>1, MergedIds
<1>4. \A x \in items : x.id \in past => x.read
  <2>1. \A x \in view.items : x.id \in past => x.read
    BY DEF PanelInv, NC!ReadStateKept
  <2>2. \A y \in r.answer.items :
          y.id \in past => y.read \/ (preserve /\ y.id \in NC!Ids(view.items))
    BY <1>2 DEF PanelAnswer
  <2> QED  BY <1>1, <2>1, <2>2, MergedStaysRead
<1>5. items = {} => r.answer.next = 0
  <2> SUFFICES ASSUME items = {}  PROVE r.answer.items = {}
    BY <1>2 DEF PanelAnswer
  <2>1. NC!Ids(r.answer.items) = {}
    BY <1>3 DEF NC!Ids
  <2> QED  BY <2>1 DEF NC!Ids
<1> QED  BY <1>3, <1>4, <1>5

LEMMA PanelFirstPage ==
  ASSUME PanelInv, NC!FirstPageArrives
  PROVE  PanelInv'
<1> USE DEF PanelInv
<1> DEFINE r == net.first
<1>1. r \in NC!ListRequest /\ r # None /\ r.answer \in NC!Listing \cup {NC!Failure}
  BY DEF NC!FirstPageArrives, NC!TypeOK, NC!Net, NC!ListRequest
<1>2. net' = [net EXCEPT !.first = None] /\ UNCHANGED <<server, past>>
  BY DEF NC!FirstPageArrives
<1>3. net' \in NC!Net /\ net'.first = None /\ net'.page = net.page /\ net'.command = net.command
  BY <1>2 DEF NC!TypeOK, NC!Net
<1>4. CASE r.answer = NC!Failure
  <2>1. view' = [view EXCEPT !.phase = IF view.items = {} THEN "error" ELSE "ready",
                               !.refreshing = FALSE, !.failed = TRUE]
    BY <1>4 DEF NC!FirstPageArrives
  <2>2. /\ view' \in NC!View /\ view'.items = view.items /\ view'.cursor = view.cursor
        /\ view'.phase # "loading" /\ ~view'.refreshing /\ view'.loadingMore = view.loadingMore
        /\ view'.pending = view.pending /\ view'.all = view.all
        /\ view'.phase = "error" => view.items = {}
        /\ view'.phase = "error" => net.page = None
    BY <1>1, <2>1 DEF NC!TypeOK, NC!View
  <2> QED
    BY <1>2, <1>3, <2>2 DEF PanelAnswer, NC!TypeOK, NC!SpinnersAnswered, NC!ReadStateKept
<1>5. CASE r.answer # NC!Failure
  <2>1. r.answer \in NC!Listing
    BY <1>1, <1>5
  <2>2. r.answer \notin {None, NC!Failure}
    BY <1>5, <2>1, NoneAssumption
  <2> DEFINE new == NC!FirstPage(r)
  <2>3. /\ new \in SUBSET NC!Shown /\ (\A x \in new : x.id \in past => x.read)
        /\ new = {} => r.answer.next = 0
        /\ net.page # None /\ net.page.preserve => NC!Ids(view.items) \subseteq NC!Ids(new)
    <3>1. CASE r.mode = "refresh" /\ r.preserve
      <4>1. new = NC!Merge(view.items, r.answer.items, TRUE)
        BY <3>1 DEF NC!FirstPage
      <4> QED  BY <1>1, <2>1, <3>1, <4>1, MergedAnswer
    <3>2. CASE ~(r.mode = "refresh" /\ r.preserve)
      <4>1. new = r.answer.items
        BY <3>2 DEF NC!FirstPage
      <4>2. r.mode = "initial" \/ ~r.preserve
        BY <1>1, <3>2 DEF NC!ListRequest
      <4>3. \A x \in new : x.id \in past => x.read
        BY <1>1, <2>2, <4>1, <4>2 DEF PanelAnswer
      <4>4. ~(net.page # None /\ net.page.preserve)
        BY <1>1, <4>2
      <4> QED  BY <1>1, <2>1, <2>2, <4>1, <4>3, <4>4 DEF PanelAnswer, NC!Listing
    <3> QED  BY <3>1, <3>2
  <2>4. view' = [NC!Counted(r) EXCEPT !.phase = "ready", !.cursor = r.answer.next,
                     !.items = new, !.refreshing = FALSE, !.failed = FALSE]
    BY <1>5 DEF NC!FirstPageArrives
  <2> HIDE DEF new
  <2>5. /\ NC!Counted(r) \in NC!View /\ NC!Counted(r).loadingMore = view.loadingMore
        /\ NC!Counted(r).pending = view.pending /\ NC!Counted(r).all = view.all
    BY <2>1 DEF NC!Counted, NC!TypeOK, NC!View, NC!Listing
  <2>6. /\ view' \in NC!View /\ view'.items = new /\ view'.cursor = r.answer.next
        /\ view'.phase = "ready" /\ ~view'.refreshing /\ view'.loadingMore = view.loadingMore
        /\ view'.pending = view.pending /\ view'.all = view.all
    BY <2>1, <2>3, <2>4, <2>5 DEF NC!View, NC!Listing
  <2>7. PanelAnswer(net.page)'
    BY <1>2, <1>3, <2>3, <2>6 DEF PanelAnswer
  <2> HIDE DEF PanelInv
  <2>8. NC!TypeOK /\ NC!SpinnersAnswered
    BY DEF PanelInv
  <2>9. NC!TypeOK' /\ NC!SpinnersAnswered' /\ NC!ReadStateKept'
    BY <1>2, <1>3, <2>3, <2>6, <2>8 DEF NC!TypeOK, NC!SpinnersAnswered, NC!ReadStateKept
  <2>10. PanelAnswer(net.first)'
    BY <1>3 DEF PanelAnswer
  <2> QED
    BY <1>2, <1>3, <2>3, <2>6, <2>7, <2>9, <2>10 DEF PanelInv
<1> QED  BY <1>4, <1>5

LEMMA PanelOlderPage ==
  ASSUME PanelInv, NC!PageArrives
  PROVE  PanelInv'
<1> USE DEF PanelInv
<1> DEFINE r == net.page
<1>1. r \in NC!ListRequest /\ r # None /\ r.answer \in NC!Listing \cup {NC!Failure} /\ r.mode = "more"
  BY DEF NC!PageArrives, NC!TypeOK, NC!Net, NC!ListRequest
<1>2. net' = [net EXCEPT !.page = None] /\ UNCHANGED <<server, past>>
  BY DEF NC!PageArrives
<1>3. net' \in NC!Net /\ net'.page = None /\ net'.first = net.first /\ net'.command = net.command
  BY <1>2 DEF NC!TypeOK, NC!Net
<1>4. CASE r.answer = NC!Failure
  <2>1. view' = [view EXCEPT !.loadingMore = FALSE, !.failed = TRUE]
    BY <1>4 DEF NC!PageArrives
  <2>2. /\ view' \in NC!View /\ view'.items = view.items /\ view'.cursor = view.cursor
        /\ view'.phase = view.phase /\ view'.refreshing = view.refreshing /\ ~view'.loadingMore
        /\ view'.pending = view.pending /\ view'.all = view.all
    BY <2>1 DEF NC!TypeOK, NC!View
  <2> QED
    BY <1>2, <1>3, <2>2 DEF PanelAnswer, NC!TypeOK, NC!SpinnersAnswered, NC!ReadStateKept
<1>5. CASE r.answer # NC!Failure
  <2> DEFINE new == NC!Merge(view.items, r.answer.items, r.preserve)
  <2>1. r.answer \in NC!Listing /\ r.preserve \in BOOLEAN
    BY <1>1, <1>5 DEF NC!ListRequest
  <2>2. /\ new \in SUBSET NC!Shown /\ NC!Ids(view.items) \subseteq NC!Ids(new)
        /\ (\A x \in new : x.id \in past => x.read) /\ (new = {} => r.answer.next = 0)
    BY <1>1, <2>1, MergedAnswer
  <2>3. new = {} => view.items = {}
    BY <2>2 DEF NC!Ids
  <2>4. view' = [NC!Counted(r) EXCEPT !.items = new, !.cursor = r.answer.next,
                     !.loadingMore = FALSE, !.failed = FALSE]
    BY <1>5 DEF NC!PageArrives
  <2> HIDE DEF new
  <2>5. /\ NC!Counted(r) \in NC!View /\ NC!Counted(r).phase = view.phase
        /\ NC!Counted(r).refreshing = view.refreshing
        /\ NC!Counted(r).pending = view.pending /\ NC!Counted(r).all = view.all
    BY <2>1 DEF NC!Counted, NC!TypeOK, NC!View, NC!Listing
  <2>6. /\ view' \in NC!View /\ view'.items = new /\ view'.cursor = r.answer.next
        /\ view'.phase = view.phase /\ view'.refreshing = view.refreshing /\ ~view'.loadingMore
        /\ view'.pending = view.pending /\ view'.all = view.all
    BY <2>1, <2>2, <2>4, <2>5 DEF NC!View, NC!Listing
  <2>7. PanelAnswer(net.first)'
    BY <1>2, <1>3, <2>2, <2>6 DEF PanelAnswer
  <2>8. NC!TypeOK' /\ NC!SpinnersAnswered' /\ NC!ReadStateKept'
    BY <1>2, <1>3, <2>2, <2>6 DEF NC!TypeOK, NC!SpinnersAnswered, NC!ReadStateKept
  <2>9. (net'.first # None => view.items # {}) /\ view.phase # "error"
    BY <1>1, <1>3
  <2>10. PanelAnswer(net.page)'
    BY <1>3 DEF PanelAnswer
  <2>11. (view'.items = {} => view'.cursor = 0) /\ (view'.items = {} => view.items = {})
    BY <2>2, <2>3, <2>6
  <2> QED  BY <1>2, <1>3, <2>6, <2>7, <2>8, <2>9, <2>10, <2>11
<1> QED  BY <1>4, <1>5

LEMMA PanelMarks ==
  ASSUME PanelInv, NC!MarkRead \/ NC!MarkAllRead
  PROVE  PanelInv'
<1> USE DEF PanelInv
<1>1. UNCHANGED <<server, past>>
  BY DEF NC!MarkRead, NC!MarkAllRead
<1>2. ASSUME NEW id \in Nat, net' = [net EXCEPT !.command = [id |-> id, answer |-> None]],
             view' \in NC!View, view'.items = view.items, view'.cursor = view.cursor,
             view'.phase = view.phase, view'.refreshing = view.refreshing,
             view'.loadingMore = view.loadingMore
      PROVE  PanelInv'
  <2> DEFINE c == [id |-> id, answer |-> None]
  <2>1. c \in NC!Command /\ c # None /\ c.answer = None
    BY NoneAssumption DEF NC!Command
  <2>2. net' \in NC!Net /\ net'.first = net.first /\ net'.page = net.page /\ net'.command = c
    BY <1>2, <2>1 DEF NC!TypeOK, NC!Net
  <2> HIDE DEF c
  <2> QED
    BY <1>1, <1>2, <2>1, <2>2 DEF PanelAnswer, NC!TypeOK, NC!SpinnersAnswered, NC!ReadStateKept
<1>3. CASE NC!MarkRead
  <2>1. PICK x \in NC!Ids(view.items) :
          /\ view' = [view EXCEPT !.pending = {x}]
          /\ net' = [net EXCEPT !.command = [id |-> x, answer |-> None]]
    BY <1>3 DEF NC!MarkRead, NC!Markable
  <2>2. x \in Nat
    BY DEF NC!Ids, NC!Shown, NC!TypeOK, NC!View
  <2>3. /\ view' \in NC!View /\ view'.items = view.items /\ view'.cursor = view.cursor
        /\ view'.phase = view.phase /\ view'.refreshing = view.refreshing
        /\ view'.loadingMore = view.loadingMore
    BY <2>1, <2>2 DEF NC!TypeOK, NC!View
  <2> QED  BY <1>2, <2>1, <2>2, <2>3
<1>4. CASE NC!MarkAllRead
  <2>1. /\ view' = [view EXCEPT !.all = TRUE]
        /\ net' = [net EXCEPT !.command = [id |-> 0, answer |-> None]]
    BY <1>4 DEF NC!MarkAllRead
  <2>2. /\ view' \in NC!View /\ view'.items = view.items /\ view'.cursor = view.cursor
        /\ view'.phase = view.phase /\ view'.refreshing = view.refreshing
        /\ view'.loadingMore = view.loadingMore
    BY <2>1 DEF NC!TypeOK, NC!View
  <2> QED  BY <1>2, <2>1, <2>2
<1> QED  BY <1>3, <1>4

LEMMA PanelStartsOver ==
  ASSUME NC!TypeOK, view' = NC!NewView, net' = NC!FirstOnly("initial"), past' = {}, UNCHANGED server
  PROVE  PanelInv'
<1>1. NC!Top \in Nat
  BY SizesAssumption DEF NC!Top
<1>2. /\ net' \in NC!Net
      /\ net'.first = NC!Request(NC!Top, "initial") /\ net'.page = None /\ net'.command = None
  BY <1>1, ListTyped DEF NC!FirstOnly, NC!Net
<1>3. /\ view' \in NC!View
      /\ view'.items = {} /\ view'.cursor = 0 /\ view'.phase = "loading" /\ ~view'.refreshing
      /\ ~view'.loadingMore /\ view'.pending = {} /\ ~view'.all
  BY DEF NC!NewView, NC!View
<1>4. net'.first # None /\ net'.first.answer = None /\ net'.first.mode = "initial"
  BY <1>1, <1>2, ListTyped
<1> QED
  BY <1>2, <1>3, <1>4 DEF PanelInv, PanelAnswer, NC!TypeOK, NC!SpinnersAnswered, NC!ReadStateKept

\* A command's answer marks the rows it read; a list request still in flight is out of date.
LEMMA PanelCommand ==
  ASSUME PanelInv, NC!CommandArrives
  PROVE  PanelInv'
<1> USE DEF PanelInv
<1> DEFINE command == net.command
           done == [view EXCEPT !.pending = {}, !.all = FALSE]
           mark(x) == [x EXCEPT !.read = @ \/ x.id \in command.answer.read]
           marked == {mark(x) : x \in view.items}
           read == [done EXCEPT !.items = {[x EXCEPT !.read = @ \/ x.id \in command.answer.read] : x \in @},
                                !.unread = command.answer.unread]
<1>1. command \in NC!Command /\ command # None /\ command.answer \in NC!Outcome \cup {NC!Failure}
  BY DEF NC!CommandArrives, NC!TypeOK, NC!Net, NC!Command
<1>2. /\ done \in NC!View /\ done.items = view.items /\ done.cursor = view.cursor
      /\ done.phase = view.phase /\ done.refreshing = view.refreshing
      /\ done.loadingMore = view.loadingMore /\ done.pending = {} /\ ~done.all
  BY DEF NC!TypeOK, NC!View
<1>3. CASE command.answer = NC!Failure
  <2>1. view' = done /\ net' = [net EXCEPT !.command = None] /\ UNCHANGED <<server, past>>
    BY <1>3 DEF NC!CommandArrives
  <2>2. net' \in NC!Net /\ net'.first = net.first /\ net'.page = net.page /\ net'.command = None
    BY <2>1 DEF NC!TypeOK, NC!Net
  <2> HIDE DEF done
  <2> QED
    BY <1>2, <2>1, <2>2 DEF PanelAnswer, NC!TypeOK, NC!SpinnersAnswered, NC!ReadStateKept
<1>4. CASE command.answer # NC!Failure
  <2>1. command.answer \in NC!Outcome /\ command.answer.read \subseteq server.read \cup server.removed
    <3>1. command.answer \in NC!Outcome
      BY <1>1, <1>4
    <3>2. command.answer # None
      BY <3>1, NoneAssumption
    <3> QED  BY <1>1, <1>4, <3>1, <3>2
  <2> DEFINE seen == command.answer.read
  <2>2. /\ past' = past \cup (NC!Ids(view.items) \cap seen) /\ UNCHANGED server
        /\ view' = IF command.id = 0 THEN NC!Loading(read, "refresh") ELSE read
        /\ net' = IF command.id = 0 THEN NC!FirstOnly("refresh")
                  ELSE [first |-> NC!Outdated(net.first), page |-> NC!Outdated(net.page),
                        command |-> None]
    BY <1>4 DEF NC!CommandArrives
  <2>3. ASSUME NEW x \in view.items
        PROVE  /\ mark(x) \in NC!Shown /\ mark(x).id = x.id /\ (x.read => mark(x).read)
               /\ x.id \in seen => mark(x).read
    <3>1. x \in NC!Shown /\ (x.read \/ x.id \in seen) \in BOOLEAN
      BY DEF NC!TypeOK, NC!View
    <3> QED  BY <3>1 DEF NC!Shown
  <2>4. \A y \in marked : \E x \in view.items : y = mark(x)
    OBVIOUS
  <2>5. \A x \in view.items : mark(x) \in marked
    OBVIOUS
  <2>6. read = [done EXCEPT !.items = marked, !.unread = command.answer.unread]
    BY <1>2
  <2> HIDE DEF mark, marked, read, done
  <2>7. marked \in SUBSET NC!Shown /\ NC!Ids(marked) = NC!Ids(view.items)
    <3>1. marked \in SUBSET NC!Shown
      BY <2>3, <2>4
    <3>2. ASSUME NEW y \in marked  PROVE y.id \in NC!Ids(view.items)
      BY <2>3, <2>4 DEF NC!Ids
    <3>3. ASSUME NEW x \in view.items  PROVE x.id \in NC!Ids(marked)
      BY <2>3, <2>5 DEF NC!Ids
    <3> QED  BY <3>1, <3>2, <3>3 DEF NC!Ids
  <2>8. \A y \in marked : y.id \in past' => y.read
    <3>1. ASSUME NEW y \in marked, y.id \in past'  PROVE y.read
      <4>1. PICK x \in view.items : y = mark(x)
        BY <2>4
      <4>2. y.id = x.id
        BY <2>3, <4>1
      <4>3. x.id \in seen \/ x.read
        BY <2>2, <3>1, <4>2 DEF NC!ReadStateKept
      <4> QED  BY <2>3, <4>1, <4>3
    <3> QED  BY <3>1
  <2>9. marked = {} <=> view.items = {}
    BY <2>4, <2>5
  <2>10. /\ read \in NC!View /\ read.items = marked /\ read.cursor = view.cursor
         /\ read.phase = view.phase /\ read.refreshing = view.refreshing
         /\ read.loadingMore = view.loadingMore /\ read.pending = {} /\ ~read.all
    BY <1>2, <2>1, <2>6, <2>7 DEF NC!View, NC!Outcome
  <2>11. past' \subseteq server.read \cup server.removed
    BY <2>1, <2>2
  <2>12. past' \subseteq Nat
    BY <2>11 DEF NC!TypeOK
  <2>13. CASE command.id = 0
    <3>1. /\ view' \in NC!View /\ view'.items = marked /\ view'.cursor = view.cursor
          /\ view'.phase = view.phase /\ ~view'.loadingMore /\ view'.pending = {} /\ ~view'.all
      BY <2>2, <2>10, <2>13 DEF NC!Loading, NC!View
    <3>2. NC!Top \in Nat
      BY SizesAssumption DEF NC!Top
    <3>3. /\ net' \in NC!Net
          /\ net'.first = NC!Request(NC!Top, "refresh") /\ net'.page = None /\ net'.command = None
      BY <2>2, <2>13, <3>2, ListTyped DEF NC!FirstOnly, NC!Net
    <3>4. net'.first # None /\ net'.first.answer = None /\ net'.first.mode = "refresh"
      BY <3>2, <3>3, ListTyped
    <3>5. view'.phase = "error" => view'.items = {}
      BY <2>9, <3>1
    <3> QED
      BY <2>2, <2>8, <2>9, <2>11, <2>12, <3>1, <3>3, <3>4, <3>5
        DEF PanelAnswer, NC!TypeOK, NC!SpinnersAnswered, NC!ReadStateKept
  <2>14. CASE command.id # 0
    <3>1. view' = read
      BY <2>2, <2>14
    <3>2. /\ net'.first = NC!Outdated(net.first) /\ net'.page = NC!Outdated(net.page)
          /\ net'.command = None /\ net' = [first |-> net'.first, page |-> net'.page, command |-> None]
      BY <2>2, <2>14
    <3>3. ASSUME NEW r \in NC!ListRequest, r # None, PanelAnswer(r)
          PROVE  /\ NC!Outdated(r) \in NC!ListRequest /\ NC!Outdated(r) # None
                 /\ NC!Outdated(r).mode = r.mode /\ NC!Outdated(r).preserve
                 /\ NC!Outdated(r).answer = r.answer
      <4>1. NC!Outdated(r) = [r EXCEPT !.preserve = TRUE]
        BY <3>3 DEF NC!Outdated
      <4>2. NC!Outdated(r) \in NC!ListRequest
        BY <4>1 DEF NC!ListRequest
      <4>3. NC!Outdated(r) # None
        BY <4>2, NoneAssumption
      <4> QED  BY <4>1, <4>2, <4>3 DEF NC!ListRequest
    <3>4. NC!Outdated(None) = None
      BY DEF NC!Outdated
    <3>5. ASSUME NEW r \in NC!ListRequest, r # None, PanelAnswer(r),
                 r.mode = "initial" => view.items = {}
          PROVE  PanelAnswer(NC!Outdated(r))'
      <4> DEFINE q == NC!Outdated(r)
      <4>1. q # None /\ q.mode = r.mode /\ q.preserve /\ q.answer = r.answer
        BY <3>3, <3>5
      <4> HIDE DEF q
      <4> SUFFICES ASSUME r.answer \notin {None, NC!Failure}
                   PROVE  /\ \A x \in r.answer.items : x.id \in past' =>
                               x.read \/ (r.mode # "initial" /\ x.id \in NC!Ids(view'.items))
                          /\ r.answer.items = {} => r.answer.next = 0
        BY <4>1 DEF PanelAnswer, q, NC!Ids
      <4>2. NC!Ids(view'.items) = NC!Ids(view.items)
        BY <2>7, <2>10, <3>1
      <4>3. \A x \in r.answer.items : x.id \in past => x.read \/
              (r.preserve /\ r.mode # "initial" /\ x.id \in NC!Ids(view.items))
        BY <3>5 DEF PanelAnswer
      <4>4. view.items = {} => past' = past
        BY <2>2 DEF NC!Ids
      <4>5. r.answer.items = {} => r.answer.next = 0
        BY <3>5 DEF PanelAnswer
      <4> QED  BY <2>2, <3>5, <4>2, <4>3, <4>4, <4>5
    <3>6. /\ net'.first \in NC!ListRequest \cup {None} /\ PanelAnswer(net.first)'
          /\ net'.first = None <=> net.first = None
          /\ net.first # None => net'.first.mode = net.first.mode /\ net'.first.preserve
      <4>1. CASE net.first = None
        BY <3>2, <3>4, <4>1 DEF PanelAnswer
      <4>2. CASE net.first # None
        BY <3>2, <3>3, <3>5, <4>2 DEF NC!TypeOK, NC!Net
      <4> QED  BY <4>1, <4>2
    <3>7. /\ net'.page \in NC!ListRequest \cup {None} /\ PanelAnswer(net.page)'
          /\ net'.page = None <=> net.page = None
          /\ net.page # None => net'.page.mode = net.page.mode
      <4>1. CASE net.page = None
        BY <3>2, <3>4, <4>1 DEF PanelAnswer
      <4>2. CASE net.page # None
        BY <3>2, <3>3, <3>5, <4>2 DEF NC!TypeOK, NC!Net
      <4> QED  BY <4>1, <4>2
    <3>8. net' \in NC!Net
      BY <3>2, <3>6, <3>7 DEF NC!Net
    <3> QED
      BY <2>2, <2>8, <2>9, <2>10, <2>11, <2>12, <3>1, <3>2, <3>6, <3>7, <3>8
        DEF NC!TypeOK, NC!SpinnersAnswered, NC!ReadStateKept
  <2> QED  BY <2>13, <2>14
<1> QED  BY <1>3, <1>4

LEMMA PanelStep ==
  ASSUME PanelInv, NC!Next
  PROVE  PanelInv'
<1>1. CASE NC!SwitchSession
  BY <1>1, PanelStartsOver DEF NC!SwitchSession, PanelInv
<1>2. CASE \E w \in {"first", "page", "command"} : NC!Fail(w)
  BY <1>2, PanelAnswered, PanelCommanded
<1>3. CASE NC!Serve
  BY <1>3, PanelAnswered, PanelCommanded DEF NC!Serve
<1>4. CASE NC!Arrive
  BY <1>4, PanelFirstPage, PanelOlderPage, PanelCommand DEF NC!Arrive
<1> QED
  BY <1>1, <1>2, <1>3, <1>4, PanelElsewhere, PanelRequests, PanelMarks DEF NC!Next

LEMMA PanelInit ==
  ASSUME NC!Init
  PROVE  PanelInv
<1>1. NC!Top \in Nat
  BY SizesAssumption DEF NC!Top
<1>2. /\ net \in NC!Net
      /\ net.first = NC!Request(NC!Top, "initial") /\ net.page = None /\ net.command = None
  BY <1>1, ListTyped DEF NC!Init, NC!FirstOnly, NC!Net
<1>3. /\ view \in NC!View
      /\ view.items = {} /\ view.cursor = 0 /\ view.phase = "loading" /\ ~view.refreshing
      /\ ~view.loadingMore /\ view.pending = {} /\ ~view.all
  BY DEF NC!Init, NC!NewView, NC!View
<1>4. net.first # None /\ net.first.answer = None /\ net.first.mode = "initial"
  BY <1>1, <1>2, ListTyped
<1>5. server \in [created : Nat, read : SUBSET Nat, removed : SUBSET Nat] /\ past = {}
  BY SizesAssumption DEF NC!Init
<1> QED
  BY <1>2, <1>3, <1>4, <1>5 DEF PanelInv, PanelAnswer, NC!TypeOK, NC!SpinnersAnswered,
       NC!ReadStateKept

LEMMA PickerInit ==
  ASSUME AP!Init
  PROVE  PickerInv
<1>1. AP!Nothing \in Collection(Found[""]) /\ AP!Ids(AP!Nothing.items) = {}
  BY DEF AP!Nothing, Collection, AP!Ids
<1> QED  BY <1>1, SearchAssumption DEF AP!Init, PickerInv, PickerView, AP!OfferedMatch

-----------------------------------------------------------------------------
(* CommentThread                                                           *)

\* A page holds the newest comments below its cursor of those there were, and names its oldest one,
\* or all of them.
ThreadAnswer(r) ==
  r.answer \notin {None, CT!Failure} =>
    /\ r.answer.newest <= server /\ (r.below # CT!Top => past <= r.answer.newest)
    /\ \A x \in r.answer.items : x \in 1..r.answer.newest /\ x < r.below
    /\ \A x \in r.answer.items : \A y \in 1..r.answer.newest :
         x <= y /\ y < r.below => y \in r.answer.items
    /\ r.answer.next = 0 => \A y \in 1..r.answer.newest : y < r.below => y \in r.answer.items
    /\ r.answer.next # 0 =>
         r.answer.next \in r.answer.items /\ \A x \in r.answer.items : r.answer.next <= x

ThreadInv ==
  /\ server \in 0..MaxComments /\ past \in 0..server
  /\ view = [load |-> view.load, items |-> view.items, cursor |-> view.cursor,
             olderPending |-> view.olderPending, olderError |-> view.olderError,
             posting |-> view.posting]
  /\ view.load \in {"loading", "success", "error"} /\ view.items \subseteq 1..server
  /\ view.cursor \in Nat /\ view.olderPending \in BOOLEAN /\ view.posting \in BOOLEAN
  /\ net = [list |-> net.list, post |-> net.post] /\ net.list \in CT!ListRequest \cup {None}
  /\ CT!SpinnersAnswered
  /\ net.list # None =>
       /\ ThreadAnswer(net.list)
       /\ \/ net.list.below = CT!Top /\ view.load = "loading"
          \/ view.load = "success" /\ view.cursor # 0 /\ net.list.below = view.cursor
  /\ view.load # "success" => ~view.posting /\ net.post = None /\ ~view.olderPending
  /\ view.load = "success" =>
       /\ view.cursor = 0 => 1..past \subseteq view.items
       /\ view.cursor # 0 => /\ view.cursor \in view.items /\ view.cursor <= past
                             /\ view.cursor..past \subseteq view.items
                             /\ \A x \in view.items : view.cursor <= x
  /\ net.post \in CT!Posting \cup {None}
  /\ net.post # None /\ net.post.answer \notin {None, CT!Failure} =>
       net.post.answer.id \in 1..server /\ net.post.answer.id > past

LEMMA ThreadCardinality == \A S : CT!Cardinality(S) = Cardinality(S)
BY DEF CT!Cardinality, Cardinality

LEMMA ThreadPage ==
  ASSUME server \in 0..MaxComments, NEW below \in Nat
  PROVE  LET a == CT!Page(below) IN
         /\ a \in CT!Listing /\ a.newest = server
         /\ \A x \in a.items : x \in 1..server /\ x < below
         /\ \A x \in a.items : \A y \in 1..server : x <= y /\ y < below => y \in a.items
         /\ a.next = 0 => \A y \in 1..server : y < below => y \in a.items
         /\ a.next # 0 => a.next \in a.items /\ \A x \in a.items : a.next <= x
<1> DEFINE older == {c \in 1..server : c < below}
           newer(c) == {d \in older : d > c}
           page == {c \in older : CT!Cardinality(newer(c)) < Limit}
           a == CT!Page(below)
<1>1. a = [items |-> page, next |-> CT!Cursor(older, page), newest |-> server, failed |-> FALSE]
  BY DEF CT!Page
<1>2. server \in Nat /\ older \subseteq 1..server /\ older \subseteq 0..server /\ page \subseteq older
  BY SizesAssumption
<1>3. \A c : IsFiniteSet(newer(c))
  <2>1. IsFiniteSet(1..server)
    BY <1>2, FS_Interval
  <2>2. ASSUME NEW c  PROVE IsFiniteSet(newer(c))
    <3>1. newer(c) \subseteq 1..server
      BY <1>2
    <3> QED  BY <2>1, <3>1, FS_Subset
  <2> QED  BY <2>2
<1>4. ASSUME NEW x \in page, NEW y \in older, x <= y  PROVE y \in page
  <2>1. newer(y) \subseteq newer(x)
    BY <1>2, <1>4
  <2>2. CT!Cardinality(newer(y)) <= CT!Cardinality(newer(x))
    <3> HIDE DEF newer
    <3> QED  BY <1>3, <2>1, FS_Subset, ThreadCardinality
  <2>3. CT!Cardinality(newer(x)) \in Nat /\ CT!Cardinality(newer(y)) \in Nat
    <3> HIDE DEF newer
    <3> QED  BY <1>3, FS_CardinalityType, ThreadCardinality
  <2>4. CT!Cardinality(newer(x)) < Limit
    OBVIOUS
  <2> HIDE DEF newer
  <2> QED  BY <1>4, <2>2, <2>3, <2>4, SizesAssumption
<1>5. page = {} => older = {}
  <2> SUFFICES ASSUME older # {}  PROVE page # {}
    OBVIOUS
  <2>1. PICK m \in older : \A y \in older : m >= y
    <3> HIDE DEF older
    <3> QED  BY <1>2, MaxExists
  <2>2. newer(m) = {}
    BY <1>2, <2>1
  <2>3. CT!Cardinality(newer(m)) = 0
    BY <2>2, FS_EmptySet, ThreadCardinality
  <2>4. m \in page
    BY <2>3, SizesAssumption
  <2> QED  BY <2>4
<1>6. \A x \in older : x \in 1..server /\ x < below
  OBVIOUS
<1>7. \A y \in 1..server : y < below => y \in older
  OBVIOUS
<1> HIDE DEF older, page
<1>8. CASE page = older
  <2>1. a.next = 0 /\ a.items = page /\ a.newest = server
    BY <1>1, <1>8 DEF CT!Cursor
  <2>2. a \in CT!Listing
    BY <1>1, <1>2, <1>8 DEF CT!Cursor, CT!Listing
  <2> QED  BY <1>4, <1>6, <1>7, <1>8, <2>1, <2>2
<1>9. CASE page # older
  <2>1. \E m \in page : \A y \in page : m <= y
    <3>1. page # {}
      BY <1>5, <1>9
    <3>2. page \in SUBSET Nat
      BY <1>2
    <3> QED  BY <3>1, <3>2, MinExists
  <2>2. CT!Min(page) \in page /\ \A y \in page : CT!Min(page) <= y
    BY <2>1 DEF CT!Min
  <2>3. a.next = CT!Min(page) /\ a.items = page /\ a.newest = server
    BY <1>1, <1>9 DEF CT!Cursor
  <2>4. a.next \in 1..server
    BY <1>2, <2>2, <2>3
  <2>5. a \in CT!Listing
    <3>1. CT!Cursor(older, page) = a.next /\ a.next \in Nat
      BY <1>1, <1>2, <2>4
    <3> QED  BY <1>1, <1>2, <3>1 DEF CT!Listing
  <2>6. a.next # 0 /\ a.next \in a.items /\ \A x \in a.items : a.next <= x
    <3>1. a.next # 0
      BY <1>2, <2>4
    <3>2. a.next \in a.items
      BY <2>2, <2>3
    <3>3. \A x \in a.items : a.next <= x
      BY <2>2, <2>3
    <3> QED  BY <3>1, <3>2, <3>3
  <2>7. \A x \in a.items : x \in 1..server /\ x < below
    BY <1>2, <1>6, <2>3
  <2>8. \A x \in a.items : \A y \in 1..server : x <= y /\ y < below => y \in a.items
    BY <1>4, <1>7, <2>3
  <2> QED  BY <2>3, <2>5, <2>6, <2>7, <2>8
<1> QED  BY <1>8, <1>9

LEMMA ThreadList ==
  ASSUME NEW below \in Nat
  PROVE  /\ CT!List(below) \in CT!ListRequest /\ CT!List(below) # None
         /\ CT!List(below).below = below /\ CT!List(below).answer = None
<1>1. CT!List(below) \in CT!ListRequest
  BY DEF CT!List, CT!ListRequest
<1>2. CT!List(below) # None
  BY <1>1, NoneAssumption
<1> QED  BY <1>1, <1>2 DEF CT!List

\* What the server does, and what is lost on the way.
LEMMA ThreadServed ==
  ASSUME ThreadInv, CT!ServeList \/ CT!ServePost \/ CT!Elsewhere \/ CT!Fail
  PROVE  ThreadInv'
<1> USE DEF ThreadInv
<1>0. server \in Nat /\ MaxComments \in Nat /\ past \in Nat
  BY SizesAssumption
<1>1. ASSUME NEW a \in CT!Listing \cup {CT!Failure}, net.list # None,
             net' = [net EXCEPT !.list.answer = a], UNCHANGED <<server, view, past>>,
             ThreadAnswer([net.list EXCEPT !.answer = a])
      PROVE  ThreadInv'
  <2>1. /\ net' = [list |-> net'.list, post |-> net'.post] /\ net'.post = net.post
        /\ net'.list = [net.list EXCEPT !.answer = a]
    BY <1>1
  <2>2. net'.list \in CT!ListRequest /\ net'.list.below = net.list.below
    BY <1>1, <2>1 DEF CT!ListRequest
  <2>3. net'.list # None
    BY <2>2, NoneAssumption
  <2>4. ThreadAnswer(net.list)'
    BY <1>1, <2>1 DEF ThreadAnswer
  <2> QED  BY <1>1, <2>1, <2>2, <2>3, <2>4 DEF CT!SpinnersAnswered
<1>2. CASE CT!ServeList
  <2> DEFINE a == CT!Page(net.list.below)
             r == [net.list EXCEPT !.answer = a]
  <2>1. net.list \in CT!ListRequest /\ net.list.below \in Nat /\ net.list # None
        /\ net' = [net EXCEPT !.list.answer = a] /\ UNCHANGED <<server, view, past>>
    BY <1>2 DEF CT!ServeList, CT!ListRequest
  <2>2. /\ a \in CT!Listing /\ a.newest = server
        /\ \A x \in a.items : x \in 1..server /\ x < net.list.below
        /\ \A x \in a.items : \A y \in 1..server : x <= y /\ y < net.list.below => y \in a.items
        /\ a.next = 0 => \A y \in 1..server : y < net.list.below => y \in a.items
        /\ a.next # 0 => a.next \in a.items /\ \A x \in a.items : a.next <= x
    BY <2>1, ThreadPage
  <2> HIDE DEF a
  <2>3. r.answer = a /\ r.below = net.list.below
    BY <2>1 DEF CT!ListRequest
  <2> HIDE DEF r
  <2>4. ThreadAnswer(r)
    BY <1>0, <2>2, <2>3 DEF ThreadAnswer
  <2> QED  BY <1>1, <2>1, <2>2, <2>4 DEF r
<1>3. CASE server' = server + 1 /\ UNCHANGED <<view, past>> /\ server < MaxComments
           /\ \/ net' = net
              \/ /\ net.post # None
                 /\ net' = [net EXCEPT !.post.answer = [id |-> server', failed |-> FALSE]]
  <2>1. server' \in 0..MaxComments /\ past \in 0..server' /\ 1..server \subseteq 1..server'
    BY <1>0, <1>3
  <2>2. /\ net' = [list |-> net'.list, post |-> net'.post] /\ net'.list = net.list
        /\ \/ net'.post = net.post
           \/ /\ net.post # None
              /\ net'.post = [net.post EXCEPT !.answer = [id |-> server', failed |-> FALSE]]
    <3>1. CASE net' = net
      BY <3>1
    <3>2. CASE net.post # None /\
               net' = [net EXCEPT !.post.answer = [id |-> server', failed |-> FALSE]]
      BY <3>2
    <3> QED  BY <1>3, <3>1, <3>2
  <2>3. net.list # None => ThreadAnswer(net.list)'
    <3>1. \A n \in Nat : n <= server => n <= server'
      BY <1>0, <1>3
    <3>2. ASSUME net.list # None, net.list.answer \notin {None, CT!Failure}
          PROVE  net.list.answer.newest \in Nat
      <4>1. net.list.answer \in CT!Listing
        BY <3>2 DEF CT!ListRequest
      <4> QED  BY <4>1 DEF CT!Listing
    <3> QED  BY <1>3, <2>2, <3>1, <3>2 DEF ThreadAnswer
  <2>4. /\ net'.post \in CT!Posting \cup {None} /\ (net'.post = None <=> net.post = None)
        /\ net'.post # None /\ net'.post.answer \notin {None, CT!Failure} =>
             net'.post.answer.id \in 1..server' /\ net'.post.answer.id > past
    <3>1. CASE net'.post = net.post
      BY <1>0, <1>3, <3>1
    <3>2. CASE /\ net.post # None
               /\ net'.post = [net.post EXCEPT !.answer = [id |-> server', failed |-> FALSE]]
      <4> DEFINE x == [id |-> server', failed |-> FALSE]
      <4>0. net.post \in CT!Posting /\ x \in [id : Nat, failed : {FALSE}] /\ x.id = server'
        BY <1>0, <1>3, <3>2
      <4> HIDE DEF x
      <4>1. net'.post \in CT!Posting /\ net'.post.answer.id = server'
        <5>1. net'.post = [net.post EXCEPT !.answer = x]
          BY <3>2 DEF x
        <5> QED  BY <4>0, <5>1 DEF CT!Posting
      <4>2. server' \in 1..server' /\ server' > past
        BY <1>0, <1>3
      <4>3. net'.post # None
        BY <4>1, NoneAssumption
      <4> QED  BY <3>2, <4>1, <4>2, <4>3
    <3> QED  BY <2>2, <3>1, <3>2
  <2> QED  BY <1>3, <2>1, <2>2, <2>3, <2>4 DEF CT!SpinnersAnswered
<1>4. CASE CT!Fail
  <2>1. CASE net.list # None /\ net' = [net EXCEPT !.list.answer = CT!Failure]
    <3>1. [net.list EXCEPT !.answer = CT!Failure].answer = CT!Failure
      BY <2>1 DEF CT!ListRequest
    <3>2. UNCHANGED <<server, view, past>>
      BY <1>4 DEF CT!Fail
    <3> QED  BY <1>1, <2>1, <3>1, <3>2 DEF ThreadAnswer
  <2>2. CASE net.post # None /\ net' = [net EXCEPT !.post.answer = CT!Failure]
    <3>1. /\ net' = [list |-> net'.list, post |-> net'.post] /\ net'.list = net.list
          /\ net'.post = [net.post EXCEPT !.answer = CT!Failure]
      BY <2>2
    <3>2. net'.post \in CT!Posting /\ net'.post.answer = CT!Failure
      BY <2>2, <3>1 DEF CT!Posting
    <3>3. net'.post # None
      BY <3>2, NoneAssumption
    <3>4. net.list # None => ThreadAnswer(net.list)'
      BY <1>4, <3>1 DEF CT!Fail, ThreadAnswer
    <3>5. UNCHANGED <<server, view, past>>
      BY <1>4 DEF CT!Fail
    <3> QED  BY <2>2, <3>1, <3>2, <3>3, <3>4, <3>5 DEF CT!SpinnersAnswered
  <2> QED  BY <1>4, <2>1, <2>2 DEF CT!Fail
<1> QED  BY <1>2, <1>3, <1>4 DEF CT!ServePost, CT!Elsewhere

\* The first page, or an older one, is asked for; the sheet is opened again.
LEMMA ThreadRequests ==
  ASSUME ThreadInv, CT!Retry \/ CT!LoadOlder \/ CT!Reopen
  PROVE  ThreadInv'
<1> USE DEF ThreadInv
<1>1. CT!Top \in Nat
  BY SizesAssumption DEF CT!Top
<1>2. ASSUME net' = CT!NewNet, view'.load = "loading", ~view'.posting, ~view'.olderPending,
             view'.cursor \in Nat, view'.items \subseteq 1..server, UNCHANGED server,
             past' \in 0..server,
             view' = [load |-> view'.load, items |-> view'.items, cursor |-> view'.cursor,
                      olderPending |-> view'.olderPending, olderError |-> view'.olderError,
                      posting |-> view'.posting],
             view'.olderPending \in BOOLEAN, view'.posting \in BOOLEAN
      PROVE  ThreadInv'
  <2>1. /\ net' = [list |-> net'.list, post |-> net'.post]
        /\ net'.list = CT!List(CT!Top) /\ net'.post = None
    BY <1>2 DEF CT!NewNet
  <2>2. /\ net'.list \in CT!ListRequest /\ net'.list # None
        /\ net'.list.below = CT!Top /\ net'.list.answer = None
    BY <1>1, <2>1, ThreadList
  <2>3. ThreadAnswer(net.list)'
    BY <2>2 DEF ThreadAnswer
  <2> QED  BY <1>2, <2>1, <2>2, <2>3 DEF CT!SpinnersAnswered
<1>3. CASE CT!Retry
  <2>1. /\ view' = [view EXCEPT !.load = "loading", !.olderPending = FALSE, !.olderError = FALSE]
        /\ net' = CT!NewNet /\ UNCHANGED <<server, past>> /\ view.load = "error"
    BY <1>3 DEF CT!Retry
  <2> QED  BY <1>2, <2>1
<1>4. CASE CT!Reopen
  <2>1. view' = CT!NewView /\ net' = CT!NewNet /\ UNCHANGED server /\ past' = 0
    BY <1>4 DEF CT!Reopen
  <2>2. 0 \in 0..server
    OBVIOUS
  <2>3. view' = [load |-> "loading", items |-> {}, cursor |-> 0, olderPending |-> FALSE,
                 olderError |-> FALSE, posting |-> FALSE]
    BY <2>1 DEF CT!NewView
  <2> QED  BY <1>2, <2>1, <2>2, <2>3
<1>5. CASE CT!LoadOlder
  <2>1. /\ view' = [view EXCEPT !.olderPending = TRUE, !.olderError = FALSE]
        /\ net' = [net EXCEPT !.list = CT!List(view.cursor)] /\ UNCHANGED <<server, past>>
        /\ view.load = "success" /\ view.cursor # 0
    BY <1>5 DEF CT!LoadOlder, CT!OlderOffered
  <2>2. /\ net' = [list |-> net'.list, post |-> net'.post]
        /\ net'.list = CT!List(view.cursor) /\ net'.post = net.post
    BY <2>1
  <2>3. /\ net'.list \in CT!ListRequest /\ net'.list # None
        /\ net'.list.below = view.cursor /\ net'.list.answer = None
    BY <2>2, ThreadList
  <2>4. view.cursor # CT!Top
    BY <2>1, SizesAssumption DEF CT!Top
  <2>5. ThreadAnswer(net.list)'
    BY <2>3 DEF ThreadAnswer
  <2>6. /\ view'.load = view.load /\ view'.items = view.items /\ view'.cursor = view.cursor
        /\ view'.posting = view.posting /\ view'.olderPending = TRUE
        /\ view' = [load |-> view'.load, items |-> view'.items, cursor |-> view'.cursor,
                    olderPending |-> view'.olderPending, olderError |-> view'.olderError,
                    posting |-> view'.posting]
    BY <2>1
  <2> QED  BY <2>1, <2>2, <2>3, <2>4, <2>5, <2>6 DEF CT!SpinnersAnswered
<1> QED  BY <1>3, <1>4, <1>5

\* The first page, or an older one, arrives: what is shown goes without a gap up to `past`.
LEMMA ThreadArrives ==
  ASSUME ThreadInv, CT!ListArrives
  PROVE  ThreadInv'
<1> USE DEF ThreadInv
<1> DEFINE r == net.list
           first == r.below = CT!Top
           a == r.answer
<1>0. server \in Nat /\ past \in Nat /\ CT!Top \in Nat /\ server < CT!Top
  BY SizesAssumption DEF CT!Top
<1>1. r \in CT!ListRequest /\ r # None /\ a \in CT!Listing \cup {CT!Failure} /\ a # None
      /\ net' = [net EXCEPT !.list = None] /\ UNCHANGED server
  BY DEF CT!ListArrives, CT!ListRequest
<1>2. /\ net' = [list |-> net'.list, post |-> net'.post] /\ net'.post = net.post
      /\ net'.list = None
  BY <1>1
<1>3. first => view.load = "loading" /\ net.post = None /\ ~view.posting /\ ~view.olderPending
  BY <1>0, <1>1
<1>4. ~first => view.load = "success" /\ view.cursor # 0 /\ r.below = view.cursor
  BY <1>1
<1>5. CASE a = CT!Failure
  <2>1. view' = IF first THEN [view EXCEPT !.load = "error"]
                ELSE [view EXCEPT !.olderPending = FALSE, !.olderError = TRUE]
    BY <1>5 DEF CT!ListArrives
  <2>2. UNCHANGED past
    BY <1>5 DEF CT!ListArrives
  <2>3. CASE first
    BY <1>1, <1>2, <1>3, <2>1, <2>2, <2>3 DEF CT!SpinnersAnswered
  <2>4. CASE ~first
    BY <1>1, <1>2, <1>4, <2>1, <2>2, <2>4 DEF CT!SpinnersAnswered
  <2> QED  BY <2>3, <2>4
<1>6. CASE a # CT!Failure
  <2>1. /\ a.items \in SUBSET Nat /\ a.next \in Nat /\ a.newest \in Nat
    <3>1. a \in CT!Listing
      BY <1>1, <1>6
    <3>2. \A x \in CT!Listing : x.items \in SUBSET Nat /\ x.next \in Nat /\ x.newest \in Nat
      BY DEF CT!Listing
    <3> QED  BY <3>1, <3>2
  <2>2. /\ a.newest <= server
        /\ \A x \in a.items : x \in 1..a.newest /\ x < r.below
        /\ \A x \in a.items : \A y \in 1..a.newest : x <= y /\ y < r.below => y \in a.items
        /\ a.next = 0 => \A y \in 1..a.newest : y < r.below => y \in a.items
        /\ a.next # 0 => a.next \in a.items /\ \A x \in a.items : a.next <= x
    BY <1>1, <1>6 DEF ThreadAnswer
  <2>3. a.items \subseteq 1..server
    BY <1>0, <2>1, <2>2
  <2>4. CASE first
    <3>1. view' = [view EXCEPT !.load = "success", !.items = a.items, !.cursor = a.next]
          /\ past' = a.newest
      BY <1>6, <2>4 DEF CT!ListArrives
    <3>2. /\ view' = [load |-> view'.load, items |-> view'.items, cursor |-> view'.cursor,
                      olderPending |-> view'.olderPending, olderError |-> view'.olderError,
                      posting |-> view'.posting]
          /\ view'.load = "success" /\ view'.items = a.items /\ view'.cursor = a.next
          /\ ~view'.olderPending /\ ~view'.posting
          /\ view'.olderPending \in BOOLEAN /\ view'.posting \in BOOLEAN
      BY <1>3, <2>4, <3>1
    <3>3. \A y \in 1..a.newest : y < r.below
      BY <1>0, <2>1, <2>2, <2>4
    <3> HIDE DEF a, r
    <3>4. a.next = 0 => 1..past' \subseteq a.items
      BY <2>2, <3>1, <3>3
    <3>5. a.next # 0 => /\ a.next \in a.items /\ a.next <= past'
                        /\ a.next..past' \subseteq a.items
                        /\ \A x \in a.items : a.next <= x
      BY <2>1, <2>2, <3>1, <3>3
    <3>6. past' \in 0..server
      BY <1>0, <2>1, <2>2, <3>1
    <3>7. net.post = None
      BY <1>3, <2>4 DEF r
    <3> QED
      BY <1>1, <1>2, <2>1, <2>3, <3>2, <3>4, <3>5, <3>6, <3>7 DEF CT!SpinnersAnswered
  <2>5. CASE ~first
    <3>1. view' = [view EXCEPT !.olderPending = FALSE, !.cursor = a.next,
                               !.items = @ \cup a.items] /\ UNCHANGED past
      BY <1>6, <2>5 DEF CT!ListArrives
    <3>2. /\ view' = [load |-> view'.load, items |-> view'.items, cursor |-> view'.cursor,
                      olderPending |-> view'.olderPending, olderError |-> view'.olderError,
                      posting |-> view'.posting]
          /\ view'.load = "success" /\ view'.items = view.items \cup a.items
          /\ view'.cursor = a.next /\ ~view'.olderPending /\ view'.posting = view.posting
          /\ view'.olderPending \in BOOLEAN
      BY <1>4, <2>5, <3>1
    <3>3. view.cursor \in view.items /\ view.cursor <= past /\ view.cursor..past \subseteq view.items
          /\ (\A x \in view.items : view.cursor <= x) /\ view.cursor \in Nat /\ r.below = view.cursor
      BY <1>4, <2>5
    <3>4. view.cursor \in 1..server
      BY <3>3
    <3>5. past <= a.newest
      BY <1>1, <1>6, <2>5 DEF ThreadAnswer
    <3> HIDE DEF a, r
    <3>6. \A y \in 1..server : y < view.cursor => y \in 1..a.newest
      BY <1>0, <2>1, <3>3, <3>5
    <3> DEFINE items == view.items \cup a.items
    <3>7. a.next = 0 => 1..past \subseteq items
      <4> SUFFICES ASSUME a.next = 0, NEW y \in 1..past  PROVE y \in items
        OBVIOUS
      <4>1. CASE y < view.cursor
        BY <1>0, <2>2, <3>3, <3>6, <4>1
      <4>2. CASE y >= view.cursor
        BY <1>0, <3>3, <4>2
      <4> QED  BY <1>0, <3>3, <4>1, <4>2
    <3>8. ASSUME a.next # 0
          PROVE  /\ a.next \in items /\ a.next <= past /\ a.next..past \subseteq items
                 /\ \A x \in items : a.next <= x
      <4>1. a.next \in a.items /\ a.next < view.cursor /\ a.next >= 1 /\ \A x \in a.items : a.next <= x
        BY <2>1, <2>2, <3>3, <3>8
      <4>2. a.next <= past /\ \A x \in items : a.next <= x
        BY <1>0, <2>1, <2>3, <3>3, <4>1
      <4>3. ASSUME NEW y \in a.next..past  PROVE y \in items
        <5>1. CASE y < view.cursor
          <6>1. y \in 1..server /\ y \in 1..a.newest
            BY <1>0, <2>1, <3>3, <3>6, <4>1, <5>1
          <6> QED  BY <2>2, <3>3, <4>1, <5>1, <6>1
        <5>2. CASE y >= view.cursor
          BY <1>0, <2>1, <3>3, <5>2
        <5> QED  BY <1>0, <2>1, <3>3, <5>1, <5>2
      <4> QED  BY <4>1, <4>2, <4>3
    <3>9. items \subseteq 1..server
      BY <2>3
    <3>10. ~(net'.list # None) /\ net'.list = None
      BY <1>2
    <3> QED
      BY <1>1, <1>2, <2>1, <3>1, <3>2, <3>7, <3>8, <3>9, <3>10 DEF CT!SpinnersAnswered
  <2> QED  BY <2>4, <2>5
<1> QED  BY <1>5, <1>6

\* The composer.
LEMMA ThreadPosts ==
  ASSUME ThreadInv, CT!Post \/ CT!PostArrives
  PROVE  ThreadInv'
<1> USE DEF ThreadInv
<1>0. server \in Nat /\ past \in Nat
  BY SizesAssumption
<1>1. CASE CT!Post
  <2>1. /\ view' = [view EXCEPT !.posting = TRUE] /\ UNCHANGED <<server, past>>
        /\ net' = [net EXCEPT !.post = [answer |-> None]] /\ view.load = "success"
    BY <1>1 DEF CT!Post, CT!Composable
  <2>2. /\ net' = [list |-> net'.list, post |-> net'.post] /\ net'.list = net.list
        /\ net'.post = [answer |-> None]
    BY <2>1
  <2>3. net'.post \in CT!Posting /\ net'.post.answer = None
    BY <2>2 DEF CT!Posting
  <2>4. net'.post # None
    BY <2>3, NoneAssumption
  <2>5. net.list # None => ThreadAnswer(net.list)'
    BY <2>1, <2>2 DEF ThreadAnswer
  <2>6. /\ view'.load = view.load /\ view'.items = view.items /\ view'.cursor = view.cursor
        /\ view'.posting = TRUE /\ view'.olderPending = view.olderPending
        /\ view' = [load |-> view'.load, items |-> view'.items, cursor |-> view'.cursor,
                    olderPending |-> view'.olderPending, olderError |-> view'.olderError,
                    posting |-> view'.posting]
    BY <2>1
  <2> QED  BY <2>1, <2>2, <2>3, <2>4, <2>5, <2>6 DEF CT!SpinnersAnswered
<1>2. CASE CT!PostArrives
  <2> DEFINE items == IF net.post.answer = CT!Failure THEN view.items
                      ELSE view.items \cup {net.post.answer.id}
  <2>1. /\ view' = [view EXCEPT !.posting = FALSE, !.items = items] /\ UNCHANGED <<server, past>>
        /\ net' = [net EXCEPT !.post = None] /\ net.post # None /\ net.post.answer # None
    BY <1>2 DEF CT!PostArrives
  <2>2. /\ net' = [list |-> net'.list, post |-> net'.post] /\ net'.list = net.list
        /\ net'.post = None
    BY <2>1
  <2>3. view.load = "success"
    BY <2>1
  <2>4. /\ view.items \subseteq items /\ items \subseteq 1..server
        /\ \A x \in items : x \in view.items \/ x > past
    BY <2>1
  <2> HIDE DEF items
  <2>5. /\ view'.load = view.load /\ view'.items = items /\ view'.cursor = view.cursor
        /\ ~view'.posting /\ view'.posting \in BOOLEAN /\ view'.olderPending = view.olderPending
        /\ view' = [load |-> view'.load, items |-> view'.items, cursor |-> view'.cursor,
                    olderPending |-> view'.olderPending, olderError |-> view'.olderError,
                    posting |-> view'.posting]
    BY <2>1
  <2>6. net.list # None => ThreadAnswer(net.list)'
    BY <2>1, <2>2 DEF ThreadAnswer
  <2>7. view.cursor # 0 => /\ view.cursor \in items /\ view.cursor <= past
                           /\ view.cursor..past \subseteq items
                           /\ \A x \in items : view.cursor <= x
    <3> SUFFICES ASSUME view.cursor # 0  PROVE \A x \in items : view.cursor <= x
      BY <2>3, <2>4
    <3>1. ASSUME NEW x \in items  PROVE view.cursor <= x
      <4>1. x \in Nat
        BY <2>4
      <4> QED  BY <1>0, <2>3, <2>4, <4>1
    <3> QED  BY <3>1
  <2>8. view.cursor = 0 => 1..past \subseteq items
    BY <2>3, <2>4
  <2> QED  BY <2>1, <2>2, <2>3, <2>4, <2>5, <2>6, <2>7, <2>8 DEF CT!SpinnersAnswered
<1> QED  BY <1>1, <1>2

LEMMA ThreadStep ==
  ASSUME ThreadInv, CT!Next
  PROVE  ThreadInv'
BY ThreadServed, ThreadRequests, ThreadArrives, ThreadPosts DEF CT!Next

LEMMA ThreadInit ==
  ASSUME CT!Init
  PROVE  ThreadInv
<1>1. CT!Top \in Nat
  BY SizesAssumption DEF CT!Top
<1>2. net = [list |-> CT!List(CT!Top), post |-> None]
  BY DEF CT!Init, CT!NewNet
<1>3. /\ net = [list |-> net.list, post |-> net.post]
      /\ net.list = CT!List(CT!Top) /\ net.post = None
  BY <1>2
<1>4. /\ net.list \in CT!ListRequest /\ net.list # None
      /\ net.list.below = CT!Top /\ net.list.answer = None
  BY <1>1, <1>3, ThreadList
<1>5. view = [load |-> "loading", items |-> {}, cursor |-> 0, olderPending |-> FALSE,
              olderError |-> FALSE, posting |-> FALSE]
  BY DEF CT!Init, CT!NewView
<1>6. server \in 0..MaxComments /\ past \in 0..server
  BY SizesAssumption DEF CT!Init
<1> QED
  BY <1>3, <1>4, <1>5, <1>6 DEF ThreadInv, ThreadAnswer, CT!SpinnersAnswered

\* What the invariant says of the rows that are shown.
LEMMA ThreadShown ==
  ASSUME ThreadInv
  PROVE  CT!ThreadUnbroken
<1> SUFFICES ASSUME view.load = "success", view.items # {}
             PROVE  CT!Min(view.items)..past \subseteq view.items
  BY DEF CT!ThreadUnbroken
<1>1. view.items \in SUBSET Nat /\ view.items \subseteq 1..server /\ past \in Nat /\ server \in Nat
  BY SizesAssumption DEF ThreadInv
<1>2. \E m \in view.items : \A y \in view.items : m <= y
  BY <1>1, MinExists
<1>3. CT!Min(view.items) \in view.items /\ \A y \in view.items : CT!Min(view.items) <= y
  BY <1>2 DEF CT!Min
<1>4. CASE view.cursor = 0
  <2>1. 1..past \subseteq view.items
    BY <1>4 DEF ThreadInv
  <2> QED  BY <1>1, <1>3, <2>1
<1>5. CASE view.cursor # 0
  <2>1. view.cursor \in view.items /\ view.cursor..past \subseteq view.items
        /\ \A x \in view.items : view.cursor <= x
    BY <1>5 DEF ThreadInv
  <2> QED  BY <1>1, <1>3, <2>1
<1> QED  BY <1>4, <1>5

-----------------------------------------------------------------------------
(* CommentComposer                                                         *)

Text == Seq(CC!Char)
Mention == [user : Member, start : Int, end : Int]
QueryIn(body) == {q \in [start : Nat, end : Nat] : q.start <= q.end /\ q.end <= Len(body)}
Draft == [body : Text, mentions : SUBSET Mention, query : [start : Nat, end : Nat] \cup {None},
          candidates : SUBSET Member, composing : BOOLEAN, pending : BOOLEAN]

\* A query is a range of the text, and there is none while an input method composes.
DraftOK(v) ==
  /\ v \in Draft
  /\ v.query # None => v.query \in QueryIn(v.body)
  /\ v.composing => v.query = None
  /\ \A m \in v.mentions : CC!Reads(v.body, m)

ComposerInv ==
  /\ DraftOK(view) /\ net = [search |-> net.search, post |-> net.post]
  /\ net.post # None => \A m \in net.post.mentions : CC!Reads(net.post.body, m)

LEMMA SliceTyped ==
  ASSUME NEW s \in Text, NEW from \in 0..Len(s), NEW to \in 0..Len(s)
  PROVE  /\ CC!Slice(s, from, to) \in Text
         /\ Len(CC!Slice(s, from, to)) = IF from <= to THEN to - from ELSE 0
         /\ from < to => CC!Slice(s, from, to)[1] = s[from + 1]
<1>1. Len(s) \in Nat /\ \A i \in 1..Len(s) : s[i] \in CC!Char
  BY LenProperties, ElementOfSeq DEF Text
<1>2. from + 1 \in Int /\ to \in Int /\ \A i \in from + 1 .. to : s[i] \in CC!Char
  BY <1>1
<1>3. /\ SubSeq(s, from + 1, to) \in Seq(CC!Char)
      /\ Len(SubSeq(s, from + 1, to)) = IF from + 1 <= to THEN to - (from + 1) + 1 ELSE 0
      /\ \A i \in 1 .. to - (from + 1) + 1 : SubSeq(s, from + 1, to)[i] = s[from + 1 + i - 1]
  BY <1>2, SubSeqProperties
<1>4. from < to => SubSeq(s, from + 1, to)[1] = s[from + 1]
  BY <1>1, <1>3
<1> QED  BY <1>1, <1>3, <1>4 DEF CC!Slice, Text

LEMMA Cut ==
  ASSUME NEW s \in Text, NEW n \in 0..Len(s)
  PROVE  /\ CC!Slice(s, 0, n) \in Text /\ Len(CC!Slice(s, 0, n)) = n
         /\ CC!Slice(s, n, Len(s)) \in Text
<1>1. Len(s) \in Nat
  BY LenProperties DEF Text
<1>2. 0 \in 0..Len(s) /\ Len(s) \in 0..Len(s) /\ 0 <= n /\ n - 0 = n
  BY <1>1
<1>3. /\ CC!Slice(s, 0, n) \in Text
      /\ Len(CC!Slice(s, 0, n)) = IF 0 <= n THEN n - 0 ELSE 0
  BY <1>2, SliceTyped
<1>4. CC!Slice(s, n, Len(s)) \in Text
  BY <1>2, SliceTyped
<1> QED  BY <1>2, <1>3, <1>4

LEMMA OneCharacter == \A c \in CC!Char : <<c>> \in Text /\ Len(<<c>>) = 1
BY DEF Text

LEMMA TextsJoin ==
  \A s, t, r \in Text : s \o t \in Text /\ (s \o t) \o r = s \o (t \o r)
BY ConcatProperties, ConcatAssociative DEF Text

\* Mentions survive an edit, moved or not, only where they still read the same.
LEMMA ReconciledReads ==
  ASSUME NEW old \in Text, NEW new \in Text, NEW mentions \in SUBSET Mention,
         \A m \in mentions : CC!Reads(old, m)
  PROVE  /\ CC!ReconcileMentions(old, new, mentions) \subseteq Mention
         /\ \A m \in CC!ReconcileMentions(old, new, mentions) : CC!Reads(new, m)
<1> DEFINE delta == Len(new) - Len(old)
<1>1. delta \in Int
  BY LenProperties DEF Text
<1>2. ASSUME NEW n \in CC!ReconcileMentions(old, new, mentions)
      PROVE  \/ n \in mentions /\ CC!Text(new, n) = CC!Text(old, n)
             \/ \E m \in mentions : /\ n = CC!Moved(m, delta)
                                    /\ CC!Text(new, n) = CC!Text(old, CC!Moved(n, -delta))
  BY DEF CC!ReconcileMentions
<1> HIDE DEF delta
<1>3. \A m \in Mention : /\ CC!Moved(m, delta) \in Mention
                         /\ CC!Moved(m, delta).user = m.user
                         /\ CC!Moved(CC!Moved(m, delta), -delta) = m
  <2>1. \A m \in Mention, d \in Int :
           CC!Moved(m, d) = [user |-> m.user, start |-> m.start + d, end |-> m.end + d]
    <3> SUFFICES ASSUME NEW m \in Mention, NEW d \in Int
                 PROVE  CC!Moved(m, d)
                          = [user |-> m.user, start |-> m.start + d, end |-> m.end + d]
      OBVIOUS
    <3>1. CC!Moved(m, d) = [m EXCEPT !.start = m.start + d, !.end = m.end + d]
      BY DEF CC!Moved, Mention
    <3> QED  BY <3>1 DEF Mention
  <2>2. \A m \in Mention, d \in Int : CC!Moved(m, d) \in Mention
    BY <2>1 DEF Mention
  <2>3. ASSUME NEW m \in Mention
        PROVE  CC!Moved(CC!Moved(m, delta), -delta) = m
    <3>1. CC!Moved(CC!Moved(m, delta), -delta)
            = [user |-> m.user, start |-> m.start + delta + (-delta), end |-> m.end + delta + (-delta)]
      <4>1. -delta \in Int
        BY <1>1
      <4> QED  BY <1>1, <2>1, <2>2, <4>1
    <3>2. m.start + delta + (-delta) = m.start /\ m.end + delta + (-delta) = m.end
      BY <1>1 DEF Mention
    <3> QED  BY <3>1, <3>2 DEF Mention
  <2> QED  BY <1>1, <2>1, <2>2, <2>3
<1>4. ASSUME NEW n \in CC!ReconcileMentions(old, new, mentions)
      PROVE  n \in Mention /\ CC!Reads(new, n)
  <2>1. CASE n \in mentions /\ CC!Text(new, n) = CC!Text(old, n)
    BY <2>1 DEF CC!Reads
  <2>2. ASSUME NEW m \in mentions, n = CC!Moved(m, delta),
               CC!Text(new, n) = CC!Text(old, CC!Moved(n, -delta))
        PROVE  n \in Mention /\ CC!Reads(new, n)
    BY <1>3, <2>2 DEF CC!Reads
  <2> QED  BY <1>2, <2>1, <2>2
<1> QED  BY <1>4

LEMMA TrimmedTyped ==
  ASSUME NEW s \in Text
  PROVE  CC!TrimStart(s) \in Text /\ CC!TrimEnd(s) \in Text
<1>0. Len(s) \in Nat /\ 0 \in 0..Len(s) /\ Len(s) \in 0..Len(s)
  BY LenProperties DEF Text
<1>1. CC!Blank(CC!Slice(s, 0, 0)) /\ CC!Blank(CC!Slice(s, Len(s), Len(s)))
  <2>1. SubSeq(s, 0 + 1, 0) = <<>> /\ SubSeq(s, Len(s) + 1, Len(s)) = <<>>
    <3>1. 0 + 1 \in Int /\ 0 \in Int /\ 0 < 0 + 1
      OBVIOUS
    <3>2. Len(s) + 1 \in Int /\ Len(s) \in Int /\ Len(s) < Len(s) + 1
      BY <1>0
    <3> QED  BY <3>1, <3>2, SubSeqEmpty
  <2>2. CC!Slice(s, 0, 0) = <<>> /\ CC!Slice(s, Len(s), Len(s)) = <<>>
    BY <2>1 DEF CC!Slice
  <2>3. CC!Blank(<<>>)
    <3>1. <<>> \in Text /\ Len(<<>>) = 0
      BY EmptySeq DEF Text
    <3>2. ASSUME NEW t \in Text, Len(t) = 0  PROVE CC!Blank(t)
      <4>1. ASSUME NEW i \in 1..Len(t)  PROVE FALSE
        BY <3>2, <4>1
      <4> QED  BY <4>1 DEF CC!Blank
    <3> QED  BY <3>1, <3>2
  <2> QED  BY <2>2, <2>3
<1> DEFINE starts == {n \in 0..Len(s) : CC!Blank(CC!Slice(s, 0, n))}
           ends == {n \in 0..Len(s) : CC!Blank(CC!Slice(s, n, Len(s)))}
<1>2. starts \in SUBSET (0..Len(s)) /\ starts # {} /\ ends \in SUBSET Nat /\ ends # {}
  BY <1>0, <1>1
<1>3. CC!Max(starts) \in 0..Len(s)
  <2>1. \E x \in starts : \A y \in starts : x >= y
    BY <1>0, <1>2, MaxExists
  <2>2. CC!Max(starts) \in starts
    BY <2>1 DEF CC!Max
  <2> QED  BY <2>2
<1>4. CC!Min(ends) \in 0..Len(s)
  <2>1. \E x \in ends : \A y \in ends : x <= y
    BY <1>2, MinExists
  <2>2. CC!Min(ends) \in ends
    BY <2>1 DEF CC!Min
  <2> QED  BY <2>2
<1> QED  BY <1>0, <1>3, <1>4, SliceTyped DEF CC!TrimStart, CC!TrimEnd

LEMMA CanonicalReads ==
  ASSUME NEW body \in Text, NEW mentions \in SUBSET Mention,
         \A m \in mentions : CC!Reads(body, m)
  PROVE  LET post == CC!Canonical(body, mentions) IN \A m \in post.mentions : CC!Reads(post.body, m)
<1> DEFINE start == CC!TrimStart(body)
           both == CC!TrimEnd(start)
           kept == CC!ReconcileMentions(body, start, mentions)
<1>1. start \in Text /\ both \in Text
  BY TrimmedTyped
<1>2. kept \subseteq Mention /\ \A m \in kept : CC!Reads(start, m)
  BY <1>1, ReconciledReads
<1>3. \A m \in CC!ReconcileMentions(start, both, kept) : CC!Reads(both, m)
  BY <1>1, <1>2, ReconciledReads
<1> QED  BY <1>3 DEF CC!Canonical

LEMMA QueryTyped ==
  ASSUME NEW body \in Text, NEW caret \in 0..Len(body)
  PROVE  CC!ActiveQuery(body, caret) \in QueryIn(body) \cup {None}
<1> DEFINE signs == {i \in 0..caret - 1 : body[i + 1] = "@"}
<1>0. Len(body) \in Nat /\ caret \in Nat /\ caret <= Len(body)
  BY LenProperties DEF Text
<1>1. CASE signs = {}
  BY <1>1 DEF CC!ActiveQuery
<1>2. CASE signs # {}
  <2>1. signs \in SUBSET (0..caret)
    BY <1>0
  <2>2. \E x \in signs : \A y \in signs : x >= y
    BY <1>0, <1>2, <2>1, MaxExists
  <2>3. CC!Max(signs) \in signs
    BY <2>2 DEF CC!Max
  <2>4. [start |-> CC!Max(signs), end |-> caret] \in QueryIn(body)
    <3>1. CC!Max(signs) \in Nat /\ CC!Max(signs) <= caret
      BY <1>0, <2>3
    <3> QED  BY <1>0, <3>1 DEF QueryIn
  <2>5. CC!ActiveQuery(body, caret) \in {None, [start |-> CC!Max(signs), end |-> caret]}
    BY DEF CC!ActiveQuery
  <2> QED  BY <2>4, <2>5
<1> QED  BY <1>1, <1>2

\* The text before a place, a text, and what follows: where the text is.
LEMMA InsertedReads ==
  ASSUME NEW s \in Text, NEW t \in Text, NEW r \in Text
  PROVE  /\ s \o t \o r \in Text
         /\ t # <<>> => CC!Slice(s \o t \o r, Len(s), Len(s) + Len(t)) = t
         /\ Len(s \o t \o r) = Len(s) + Len(t) + Len(r)
<1>1. /\ Len(s) \in Nat /\ Len(t) \in Nat /\ Len(r) \in Nat
      /\ t # <<>> => Len(t) > 0
  BY LenProperties, EmptySeq DEF Text
<1>2. s \o t \in Text /\ Len(s \o t) = Len(s) + Len(t)
  BY ConcatProperties DEF Text
<1>3. (s \o t) \o r \in Text /\ Len((s \o t) \o r) = Len(s) + Len(t) + Len(r)
  BY <1>2, ConcatProperties DEF Text
<1>4. ASSUME t # <<>>  PROVE SubSeq((s \o t) \o r, Len(s) + 1, Len(s) + Len(t)) = t
  <2>1. Len(s) + 1 \in 1..Len(s \o t) /\ Len(s) + Len(t) \in 1..Len(s \o t)
    BY <1>1, <1>2, <1>4
  <2>2. SubSeq((s \o t) \o r, Len(s) + 1, Len(s) + Len(t))
          = SubSeq(s \o t, Len(s) + 1, Len(s) + Len(t))
    BY <1>2, <2>1, SubSeqOfConcat1 DEF Text
  <2>3. /\ Len(s) + 1 \in Len(s) + 1 .. Len(s) + Len(t)
        /\ Len(s) + Len(t) \in Len(s) + 1 .. Len(s) + Len(t)
    BY <1>1, <1>4
  <2>4. SubSeq(s \o t, Len(s) + 1, Len(s) + Len(t))
          = SubSeq(t, (Len(s) + 1) - Len(s), (Len(s) + Len(t)) - Len(s))
    BY <2>3, SubSeqOfConcat2 DEF Text
  <2>5. (Len(s) + 1) - Len(s) = 1 /\ (Len(s) + Len(t)) - Len(s) = Len(t)
    BY <1>1
  <2> QED  BY <2>2, <2>4, <2>5, SubSeqFull DEF Text
<1> QED  BY <1>3, <1>4 DEF CC!Slice

-----------------------------------------------------------------------------
(* The steps of the form.                                                  *)

\* A query is opened or closed, in a draft whose text and mentions agree.
LEMMA QuerySet ==
  ASSUME NEW v \in Draft, \A m \in v.mentions : CC!Reads(v.body, m),
         NEW q \in QueryIn(v.body) \cup {None}, v.composing => q = None,
         \E post : net = [search |-> net.search, post |-> post],
         CC!SetQuery(v, q)
  PROVE  DraftOK(view') /\ net' = [search |-> net'.search, post |-> net.post]
<1>1. view' = [v EXCEPT !.query = q, !.candidates = IF q = None THEN {} ELSE v.candidates]
  BY DEF CC!SetQuery, Draft
<1>2. q \in [start : Nat, end : Nat] \cup {None} /\ (q # None => q \in QueryIn(v.body))
  BY DEF QueryIn
<1>3. /\ view' \in Draft /\ view'.query = q /\ view'.body = v.body
      /\ view'.mentions = v.mentions /\ view'.composing = v.composing
  BY <1>1, <1>2 DEF Draft
<1>4. net' = [search |-> net'.search, post |-> net.post]
  BY DEF CC!SetQuery
<1> QED  BY <1>2, <1>3, <1>4 DEF DraftOK

LEMMA QueryRefreshed ==
  ASSUME NEW v \in Draft, \A m \in v.mentions : CC!Reads(v.body, m),
         v.composing => v.query = None, NEW caret \in 0..Len(v.body),
         \E post : net = [search |-> net.search, post |-> post],
         CC!Refresh(v, caret)
  PROVE  DraftOK(view') /\ net' = [search |-> net'.search, post |-> net.post]
<1>1. CASE v.composing
  <2>1. view' = v /\ net' = net
    BY <1>1 DEF CC!Refresh
  <2> QED  BY <1>1, <2>1 DEF DraftOK
<1>2. CASE ~v.composing
  <2>1. v.body \in Text
    BY DEF Draft
  <2>2. CC!ActiveQuery(v.body, caret) \in QueryIn(v.body) \cup {None}
    BY <2>1, QueryTyped
  <2>3. PICK q \in QueryIn(v.body) \cup {None} : CC!SetQuery(v, q)
    BY <1>2, <2>2 DEF CC!Refresh
  <2> QED  BY <1>2, <2>3, QuerySet
<1> QED  BY <1>1, <1>2

LEMMA ComposerEdits ==
  ASSUME ComposerInv, CC!Edit
  PROVE  DraftOK(view') /\ net' = [search |-> net'.search, post |-> net.post]
<1>1. view \in Draft /\ view.body \in Text /\ Len(view.body) \in Nat
  BY LenProperties DEF ComposerInv, DraftOK, Draft, Text
<1>2. PICK from \in 0..Len(view.body), text \in {<<>>} \cup {<<c>> : c \in CC!Char} :
        \E to \in {from, from + 1} \cap 0..Len(view.body) :
          LET body == CC!Slice(view.body, 0, from) \o text
                        \o CC!Slice(view.body, to, Len(view.body))
          IN CC!Refresh([view EXCEPT !.body = body,
                           !.mentions = CC!ReconcileMentions(view.body, body, @)],
                        from + Len(text))
  BY DEF CC!Edit
<1>3. PICK to \in 0..Len(view.body) :
        LET body == CC!Slice(view.body, 0, from) \o text
                      \o CC!Slice(view.body, to, Len(view.body))
        IN CC!Refresh([view EXCEPT !.body = body,
                         !.mentions = CC!ReconcileMentions(view.body, body, view.mentions)],
                      from + Len(text))
  BY <1>1, <1>2 DEF Draft
<1> DEFINE first == CC!Slice(view.body, 0, from)
           last == CC!Slice(view.body, to, Len(view.body))
           body == first \o text \o last
           kept == CC!ReconcileMentions(view.body, body, view.mentions)
           v == [view EXCEPT !.body = body, !.mentions = kept]
<1>4. /\ first \in Text /\ Len(first) = from
      /\ last \in Text /\ Len(last) \in Nat
  <2>1. first \in Text /\ last \in Text /\ Len(first) = from
    BY <1>1, Cut
  <2> QED  BY <2>1, LenProperties DEF Text
<1>5. text \in Text /\ Len(text) \in Nat
  <2>1. <<>> \in Text
    BY EmptySeq DEF Text
  <2>2. text \in Text
    BY <2>1, OneCharacter
  <2> QED  BY <2>2, LenProperties DEF Text
<1>6. body \in Text /\ Len(body) = from + Len(text) + Len(last)
  BY <1>4, <1>5, InsertedReads
<1>7. from + Len(text) \in 0..Len(body)
  BY <1>4, <1>5, <1>6
<1> HIDE DEF first, last, body
<1>8. \A m \in view.mentions : CC!Reads(view.body, m)
  BY DEF ComposerInv, DraftOK
<1>9. kept \subseteq Mention /\ \A m \in kept : CC!Reads(body, m)
  <2>1. view.mentions \in SUBSET Mention
    BY <1>1 DEF Draft
  <2> QED  BY <1>1, <1>6, <1>8, <2>1, ReconciledReads
<1>10. CC!Refresh(v, from + Len(text))
  BY <1>3 DEF first, last, body
<1> HIDE DEF kept
<1>11. /\ v \in Draft /\ v.body = body /\ v.mentions = kept
       /\ v.composing = view.composing /\ v.query = view.query
  BY <1>1, <1>6, <1>9 DEF Draft
<1>12. v.composing => v.query = None
  BY <1>11 DEF ComposerInv, DraftOK
<1> HIDE DEF v
<1>13. \E post : net = [search |-> net.search, post |-> post]
  BY DEF ComposerInv
<1> QED  BY <1>7, <1>9, <1>10, <1>11, <1>12, <1>13, QueryRefreshed

LEMMA ComposerSelects ==
  ASSUME ComposerInv, CC!SelectCandidate
  PROVE  DraftOK(view') /\ net' = [search |-> net'.search, post |-> net.post]
<1>1. /\ view \in Draft /\ view.body \in Text /\ Len(view.body) \in Nat
      /\ view.query \in QueryIn(view.body)
  BY LenProperties DEF ComposerInv, DraftOK, Draft, Text, CC!SelectCandidate, CC!MenuOpen
<1>2. PICK u \in view.candidates :
        LET new == CC!Inserted(u) IN
        CC!SetQuery([view EXCEPT !.body = new.body,
                       !.mentions = CC!ReconcileMentions(view.body, new.body, view.mentions)
                                      \cup {new.mention}], None)
  BY DEF CC!SelectCandidate
<1> DEFINE first == CC!Slice(view.body, 0, view.query.start)
           rest == CC!Slice(view.body, view.query.end, Len(view.body))
           text == <<"@">> \o Label[u]
           spacing == IF rest # <<>> /\ Head(rest) = " " THEN <<>> ELSE <<" ">>
           body == first \o text \o spacing \o rest
           mention == [user |-> u, start |-> view.query.start, end |-> view.query.start + Len(text)]
           kept == CC!ReconcileMentions(view.body, body, view.mentions)
           v == [view EXCEPT !.body = body, !.mentions = kept \cup {mention}]
<1>3. u \in Member /\ text \in Text /\ text # <<>> /\ Len(text) \in Nat
  <2>1. u \in Member
    BY <1>1 DEF Draft
  <2>2. Label[u] \in Seq(CC!Char) /\ <<"@">> \in Seq(CC!Char) /\ Len(<<"@">>) = 1
    <3>1. "@" \in CC!Char
      BY DEF CC!Char
    <3> QED  BY <2>1, <3>1, LabelAssumption, OneCharacter DEF Text
  <2>3. text \in Seq(CC!Char) /\ Len(text) = 1 + Len(Label[u])
    BY <2>2, ConcatProperties
  <2>4. Len(Label[u]) \in Nat
    BY <2>2, LenProperties
  <2>5. text # <<>>
    <3>1. Len(text) # 0
      BY <2>3, <2>4
    <3> QED  BY <3>1, EmptySeq
  <2> QED  BY <2>1, <2>3, <2>4, <2>5 DEF Text
<1>4. /\ first \in Text /\ Len(first) = view.query.start /\ view.query.start \in Nat
      /\ rest \in Text
  <2>1. /\ view.query.start \in 0..Len(view.body) /\ view.query.end \in 0..Len(view.body)
    BY <1>1 DEF QueryIn
  <2>2. first \in Text /\ rest \in Text /\ Len(first) = view.query.start
    BY <1>1, <2>1, Cut
  <2> QED  BY <2>1, <2>2
<1>5. spacing \in Text
  <2>1. <<>> \in Text /\ " " \in CC!Char
    BY EmptySeq DEF Text, CC!Char
  <2> QED  BY <2>1, OneCharacter
<1> HIDE DEF first, rest, text, spacing
<1>6. body \in Text /\ CC!Slice(body, Len(first), Len(first) + Len(text)) = text
  <2>1. spacing \o rest \in Text
    BY <1>4, <1>5, TextsJoin
  <2>2. /\ first \o text \o (spacing \o rest) \in Text
        /\ CC!Slice(first \o text \o (spacing \o rest), Len(first), Len(first) + Len(text)) = text
    BY <1>3, <1>4, <2>1, InsertedReads
  <2>3. first \o text \in Text
    BY <1>3, <1>4, TextsJoin
  <2>4. body = first \o text \o (spacing \o rest)
    BY <1>4, <1>5, <2>3, TextsJoin
  <2> QED  BY <2>2, <2>4
<1>7. CC!Inserted(u) = [body |-> body, mention |-> mention]
  BY DEF CC!Inserted, first, rest, text, spacing
<1> HIDE DEF body
<1>8. mention \in Mention /\ CC!Reads(body, mention)
  <2>1. mention \in Mention
    BY <1>3, <1>4 DEF Mention
  <2>2. CC!Text(body, mention) = text
    BY <1>4, <1>6 DEF CC!Text
  <2> QED  BY <2>1, <2>2 DEF CC!Reads, text
<1>9. CC!SetQuery(v, None)
  BY <1>2, <1>7
<1> HIDE DEF mention
<1>10. kept \subseteq Mention /\ \A m \in kept : CC!Reads(body, m)
  <2>1. /\ view.mentions \in SUBSET Mention
        /\ \A m \in view.mentions : CC!Reads(view.body, m)
    BY <1>1 DEF Draft, ComposerInv, DraftOK
  <2> QED  BY <1>1, <1>6, <2>1, ReconciledReads
<1> HIDE DEF kept
<1>11. /\ v \in Draft /\ v.body = body /\ v.mentions = kept \cup {mention}
  BY <1>1, <1>6, <1>8, <1>10 DEF Draft
<1> HIDE DEF v
<1>12. \E post : net = [search |-> net.search, post |-> post]
  BY DEF ComposerInv
<1>13. \A m \in v.mentions : CC!Reads(v.body, m)
  BY <1>8, <1>10, <1>11
<1> QED  BY <1>9, <1>11, <1>12, <1>13, QuerySet

LEMMA ComposerClicks ==
  ASSUME ComposerInv,
         CC!Click \/ CC!Dismiss \/ CC!StartComposition \/ CC!EndComposition \/ CC!RetrySearch
  PROVE  DraftOK(view') /\ net' = [search |-> net'.search, post |-> net.post]
<1>1. /\ view \in Draft /\ (view.composing => view.query = None)
      /\ view.body \in Text /\ \A m \in view.mentions : CC!Reads(view.body, m)
      /\ \E post : net = [search |-> net.search, post |-> post]
      /\ view.query # None => view.query \in QueryIn(view.body)
  BY DEF ComposerInv, DraftOK, Draft
<1>2. CASE CC!Click
  BY <1>1, <1>2, QueryRefreshed DEF CC!Click
<1>3. CASE CC!Dismiss
  BY <1>1, <1>3, QuerySet DEF CC!Dismiss
<1>4. CASE CC!RetrySearch
  BY <1>1, <1>4, QuerySet DEF CC!RetrySearch, CC!MenuOpen
<1>5. CASE CC!StartComposition
  <2> DEFINE v == [view EXCEPT !.composing = TRUE]
  <2>1. v \in Draft /\ v.body = view.body /\ v.mentions = view.mentions
    BY <1>1 DEF Draft
  <2>2. CC!SetQuery(v, None)
    BY <1>5 DEF CC!StartComposition
  <2> HIDE DEF v
  <2> QED  BY <1>1, <2>1, <2>2, QuerySet
<1>6. CASE CC!EndComposition
  <2> DEFINE v == [view EXCEPT !.composing = FALSE]
  <2>1. v \in Draft /\ v.body = view.body /\ v.mentions = view.mentions /\ ~v.composing
    BY <1>1 DEF Draft
  <2>2. PICK caret \in 0..Len(view.body) : CC!SetQuery(v, CC!ActiveQuery(view.body, caret))
    BY <1>6 DEF CC!EndComposition
  <2>3. CC!ActiveQuery(view.body, caret) \in QueryIn(view.body) \cup {None}
    BY <1>1, QueryTyped
  <2> HIDE DEF v
  <2> QED  BY <1>1, <2>1, <2>2, <2>3, QuerySet
<1> QED  BY <1>2, <1>3, <1>4, <1>5, <1>6

LEMMA ComposerAnswered ==
  ASSUME ComposerInv, CC!SearchArrives \/ CC!PostArrives
  PROVE  DraftOK(view') /\ \E post \in {None, net.post} :
                              net' = [search |-> net'.search, post |-> post]
<1>1. /\ view \in Draft /\ (view.composing => view.query = None)
      /\ \A m \in view.mentions : CC!Reads(view.body, m)
      /\ net = [search |-> net.search, post |-> net.post]
      /\ view.query # None => view.query \in QueryIn(view.body)
  BY DEF ComposerInv, DraftOK
<1>2. CASE CC!SearchArrives
  <2>1. PICK found \in SUBSET Member : view' = [view EXCEPT !.candidates = found]
    BY <1>2 DEF CC!SearchArrives, CC!Matching
  <2>2. DraftOK(view')
    BY <1>1, <2>1 DEF DraftOK, Draft
  <2>3. net' = [search |-> net'.search, post |-> net.post]
    BY <1>1, <1>2 DEF CC!SearchArrives
  <2> QED  BY <2>2, <2>3
<1>3. CASE CC!PostArrives
  <2>1. CASE /\ view' = [view EXCEPT !.body = <<>>, !.mentions = {}, !.query = None,
                                     !.candidates = {}, !.pending = FALSE]
             /\ net' = [search |-> None, post |-> None]
    <3>1. <<>> \in Text
      BY EmptySeq DEF Text
    <3>2. DraftOK(view')
      BY <1>1, <2>1, <3>1 DEF DraftOK, Draft
    <3> QED  BY <2>1, <3>2
  <2>2. CASE view' = [view EXCEPT !.pending = FALSE] /\ net' = [net EXCEPT !.post = None]
    <3>1. DraftOK(view')
      BY <1>1, <2>2 DEF DraftOK, Draft
    <3>2. net' = [search |-> net'.search, post |-> None]
      BY <1>1, <2>2
    <3> QED  BY <3>1, <3>2
  <2> QED  BY <1>3, <2>1, <2>2 DEF CC!PostArrives
<1> QED  BY <1>2, <1>3

LEMMA ComposerStep ==
  ASSUME ComposerInv, CC!Next
  PROVE  ComposerInv'
<1>1. /\ view \in Draft /\ \A m \in view.mentions : CC!Reads(view.body, m)
      /\ net = [search |-> net.search, post |-> net.post]
      /\ net.post # None => \A m \in net.post.mentions : CC!Reads(net.post.body, m)
  BY DEF ComposerInv, DraftOK
<1>2. ASSUME DraftOK(view'), NEW post \in {None, net.post},
             net' = [search |-> net'.search, post |-> post]
      PROVE  ComposerInv'
  <2>1. net'.post = post
    BY <1>2
  <2>2. (DraftOK(view))'
    BY <1>2 DEF DraftOK
  <2> QED  BY <1>1, <1>2, <2>1, <2>2 DEF ComposerInv
<1>3. CASE CC!Submit
  <2> DEFINE draft == CC!Canonical(view.body, view.mentions)
  <2>1. \A m \in draft.mentions : CC!Reads(draft.body, m)
    <3>1. view.body \in Text /\ view.mentions \in SUBSET Mention
      BY <1>1 DEF Draft
    <3> QED  BY <1>1, <3>1, CanonicalReads
  <2>2. view' = [view EXCEPT !.pending = TRUE] /\ net' = [net EXCEPT !.post = draft]
    BY <1>3 DEF CC!Submit
  <2> HIDE DEF draft
  <2>3. net' = [search |-> net'.search, post |-> net'.post] /\ net'.post = draft
    BY <1>1, <2>2
  <2>4. (DraftOK(view))'
    BY <2>2 DEF ComposerInv, DraftOK, Draft
  <2> QED  BY <2>1, <2>3, <2>4 DEF ComposerInv
<1> QED
  BY <1>2, <1>3, ComposerEdits, ComposerSelects, ComposerClicks, ComposerAnswered DEF CC!Next

LEMMA ComposerInit ==
  ASSUME CC!Init
  PROVE  ComposerInv
<1>1. <<>> \in Text
  BY EmptySeq DEF Text
<1>2. DraftOK(view)
  BY <1>1 DEF CC!Init, DraftOK, Draft
<1> QED  BY <1>2 DEF CC!Init, ComposerInv

-----------------------------------------------------------------------------
(* The screens together. A screen is never left for another, and each has  *)
(* its component's invariant.                                              *)

ScreensInv ==
  /\ screen = "session" => IInv /\ SpinnersAnswered
  /\ screen = "notifications" => PanelInv
  /\ screen = "tasks" => TasksInv
  /\ screen = "attachments" => FilesInv /\ SectionInv
  /\ screen = "composer" => ComposerInv
  /\ screen = "thread" => ThreadInv
  /\ screen = "workspaces" => HomeInv
  /\ screen = "projects" => ProjectsInv
  /\ screen = "assignee" => PickerInv

Screen == {"session", "notifications", "tasks", "attachments", "composer", "thread", "workspaces",
           "projects", "assignee"}

LEMMA ScreensInitInv ==
  ASSUME ScreensInit
  PROVE  ScreensInv
<1>1. CASE screen = "session"
  BY <1>1, InvariantInit, SpinnersInit DEF ScreensInit, ScreensInv
<1>2. CASE screen = "notifications"
  BY <1>2, PanelInit DEF ScreensInit, ScreensInv
<1>3. CASE screen = "tasks"
  BY <1>3, TasksInit DEF ScreensInit, ScreensInv
<1>4. CASE screen = "attachments"
  BY <1>4, SectionInit DEF ScreensInit, ScreensInv
<1>5. CASE screen = "composer"
  BY <1>5, ComposerInit DEF ScreensInit, ScreensInv
<1>6. CASE screen = "thread"
  BY <1>6, ThreadInit DEF ScreensInit, ScreensInv
<1>7. CASE screen = "workspaces"
  BY <1>7, HomeInit DEF ScreensInit, ScreensInv
<1>8. CASE screen = "projects"
  BY <1>8, ProjectsInit DEF ScreensInit, ScreensInv
<1>9. CASE screen = "assignee"
  BY <1>9, PickerInit DEF ScreensInit, ScreensInv
<1> QED
  BY <1>1, <1>2, <1>3, <1>4, <1>5, <1>6, <1>7, <1>8, <1>9 DEF ScreensInit

LEMMA ScreensStep ==
  ASSUME ScreensInv, ScreensNext
  PROVE  ScreensInv'
<1>0. screen' = screen
  BY DEF ScreensNext
<1>1. CASE screen = "session"
  <2>1. IInv /\ SpinnersAnswered /\ Next
    BY <1>1 DEF ScreensNext, ScreensInv
  <2>2. IInv' /\ SpinnersAnswered'
    BY <2>1, InvariantKept, SpinnersKept
  <2> QED  BY <1>0, <1>1, <2>2 DEF ScreensInv
<1>2. CASE screen = "notifications"
  <2>1. PanelInv'
    BY <1>2, PanelStep DEF ScreensNext, ScreensInv
  <2> QED  BY <1>0, <1>2, <2>1 DEF ScreensInv
<1>3. CASE screen = "tasks"
  <2>1. TasksInv'
    BY <1>3, TasksStep DEF ScreensNext, ScreensInv
  <2> QED  BY <1>0, <1>3, <2>1 DEF ScreensInv
<1>4. CASE screen = "attachments"
  <2>1. FilesInv' /\ SectionInv'
    BY <1>4, SectionStep DEF ScreensNext, ScreensInv
  <2> QED  BY <1>0, <1>4, <2>1 DEF ScreensInv
<1>5. CASE screen = "composer"
  <2>1. ComposerInv'
    BY <1>5, ComposerStep DEF ScreensNext, ScreensInv
  <2> QED  BY <1>0, <1>5, <2>1 DEF ScreensInv
<1>6. CASE screen = "thread"
  <2>1. ThreadInv'
    BY <1>6, ThreadStep DEF ScreensNext, ScreensInv
  <2> QED  BY <1>0, <1>6, <2>1 DEF ScreensInv
<1>7. CASE screen = "workspaces"
  <2>1. HomeInv'
    BY <1>7, HomeStep DEF ScreensNext, ScreensInv
  <2> QED  BY <1>0, <1>7, <2>1 DEF ScreensInv
<1>8. CASE screen = "projects"
  <2>1. ProjectsInv'
    BY <1>8, ProjectsStep DEF ScreensNext, ScreensInv
  <2> QED  BY <1>0, <1>8, <2>1 DEF ScreensInv
<1>9. CASE screen = "assignee"
  <2>1. PickerInv'
    BY <1>9, PickerStep DEF ScreensNext, ScreensInv
  <2> QED  BY <1>0, <1>9, <2>1 DEF ScreensInv
<1>10. screen \in Screen
  BY DEF ScreensNext, Screen
<1> QED
  BY <1>1, <1>2, <1>3, <1>4, <1>5, <1>6, <1>7, <1>8, <1>9, <1>10 DEF Screen

\* The invariants speak of the variables only.
LEMMA ScreensStutter ==
  ASSUME ScreensInv, UNCHANGED allVars
  PROVE  ScreensInv'
<1>0. screen' = screen /\ vars' = vars /\ server' = server /\ view' = view /\ net' = net /\ past' = past
  BY DEF allVars, sessionVars, screenVars
<1>1. IInv /\ SpinnersAnswered => IInv' /\ SpinnersAnswered'
  BY <1>0 DEF vars, IInv, RequestsOK, PagesOK, Consistent, SpinnersAnswered, Overtaken
<1>2. PanelInv => PanelInv'
  BY <1>0 DEF PanelInv, PanelAnswer, NC!TypeOK, NC!SpinnersAnswered, NC!ReadStateKept
<1>3. TasksInv => TasksInv'
  BY <1>0 DEF TasksInv, TS!SpinnersAnswered, TS!InFlight
<1>4. FilesInv /\ SectionInv => FilesInv' /\ SectionInv'
  BY <1>0 DEF FilesInv, SectionInv, AS!SpinnersAnswered, AS!Uploading
<1>5. ComposerInv => ComposerInv'
  BY <1>0 DEF ComposerInv, DraftOK
<1>6. ThreadInv => ThreadInv'
  BY <1>0 DEF ThreadInv, ThreadAnswer, CT!SpinnersAnswered
<1>7. HomeInv => HomeInv'
  BY <1>0 DEF HomeInv, WH!SpinnersAnswered, WH!CreatedNotReplaced
<1>8. ProjectsInv => ProjectsInv'
  BY <1>0 DEF ProjectsInv, PS!SpinnersAnswered, PS!CreatedNotReplaced
<1>9. PickerInv => PickerInv'
  BY <1>0 DEF PickerInv, AP!OfferedMatch
<1> QED
  BY <1>0, <1>1, <1>2, <1>3, <1>4, <1>5, <1>6, <1>7, <1>8, <1>9 DEF ScreensInv

LEMMA ScreensInvariant == ScreensSpec => []ScreensInv
<1>1. ScreensInv /\ [ScreensNext]_allVars => ScreensInv'
  BY ScreensStep, ScreensStutter
<1> QED  BY <1>1, ScreensInitInv, PTL DEF ScreensSpec

\* Whatever overtakes whatever, a loading screen, a pending page or a disabled button of any section,
\* and the loading screen of auth-guard.tsx, still waits for an answer that ends it.
THEOREM SpinnersAreAnswered == ScreensSpec => []NoSpinnerLeft
<1>1. ScreensInv => NoSpinnerLeft
  BY DEF ScreensInv, NoSpinnerLeft, PanelInv, TasksInv, SectionInv, ThreadInv, HomeInv, ProjectsInv,
         PickerInv, AP!SpinnersAnswered
<1> QED  BY <1>1, ScreensInvariant, PTL

\* A list that was requested before a workspace or a project was created never takes it off the
\* screen (workspace-home.tsx, project-section.tsx).
THEOREM CreatedStaysShown == ScreensSpec => []CreatedNotReplaced
<1>1. ScreensInv => CreatedNotReplaced
  BY DEF ScreensInv, CreatedNotReplaced, HomeInv, ProjectsInv
<1> QED  BY <1>1, ScreensInvariant, PTL

\* What a command has made read in the panel is not shown as unread by the answer to a request that
\* was sent before it (notification-center.tsx).
THEOREM ReadStaysRead == ScreensSpec => []ReadStateKept
<1>1. ScreensInv => ReadStateKept
  BY DEF ScreensInv, ReadStateKept, PanelInv
<1> QED  BY <1>1, ScreensInvariant, PTL

\* A file that was chosen once has one row at most, whatever is canceled, lost and sent again
\* (attachment-section.tsx, and the idempotency key of its upload).
THEOREM FilesAreStoredOnce == ScreensSpec => []OneRowPerFile
<1>1. ScreensInv => OneRowPerFile
  BY SectionShown DEF ScreensInv, OneRowPerFile
<1> QED  BY <1>1, ScreensInvariant, PTL

\* However a draft is edited, trimmed and completed, each of its mentions, and of what is posted, is
\* the text of the member it was selected for (comment-draft.ts).
THEOREM MentionsReadTheirMembers == ScreensSpec => []MentionsReadLabels
<1>1. ScreensInv => MentionsReadLabels
  BY DEF ScreensInv, MentionsReadLabels, ComposerInv, DraftOK, CC!MentionsReadLabels
<1> QED  BY <1>1, ScreensInvariant, PTL

\* Between the oldest comment shown and the newest of the first load none is missing, whatever pages
\* fail and whatever is posted meanwhile (comment-thread.tsx).
THEOREM ThreadsAreUnbroken == ScreensSpec => []ThreadUnbroken
<1>1. ScreensInv => ThreadUnbroken
  BY ThreadShown DEF ScreensInv, ThreadUnbroken
<1> QED  BY <1>1, ScreensInvariant, PTL

\* A member that can be picked matches the text in the field, although searches overtake each other
\* and fail (task-assignee-picker.tsx).
THEOREM OfferedMembersMatch == ScreensSpec => []OfferedMatch
<1>1. ScreensInv => OfferedMatch
  BY DEF ScreensInv, OfferedMatch, PickerInv
<1> QED  BY <1>1, ScreensInvariant, PTL
=============================================================================
