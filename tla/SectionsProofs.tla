---------------------------- MODULE SectionsProofs ----------------------------
(***************************************************************************)
(* The sections of Screens that show a list and send commands about its    *)
(* items: workspaces, projects, the attachments of a task, and tasks.      *)
(* Their invariants are inductive for lists, pages and files of any number *)
(* and size; ScreensProofs draws the theorems from them.                   *)
(***************************************************************************)
EXTENDS Screens, FiniteSetTheorems, SequenceTheorems, WellFoundedInduction, TLAPS

-----------------------------------------------------------------------------
(* Numbers.                                                                *)

LEMMA MinExists ==
  ASSUME NEW S \in SUBSET Nat, S # {}
  PROVE  \E x \in S : \A y \in S : x <= y
<1> DEFINE R == {p \in Nat \X Nat : p[1] < p[2]}
<1>1. IsWellFoundedOn(R, Nat)
  BY NatLessThanWellFounded DEF OpToRel
<1>2. \A x, y \in Nat : y < x => <<y, x>> \in R
  OBVIOUS
<1> HIDE DEF R
<1>3. PICK x \in S : \A y \in S : ~(<<y, x>> \in R)
  BY <1>1, WFMin
<1>4. ASSUME NEW y \in S  PROVE x <= y
  <2>1. x \in Nat /\ y \in Nat /\ ~(y < x)
    BY <1>2, <1>3
  <2> QED  BY <2>1
<1> QED  BY <1>4

LEMMA MaxExists ==
  ASSUME NEW n \in Nat, NEW S \in SUBSET (0..n), S # {}
  PROVE  \E x \in S : \A y \in S : x >= y
<1> DEFINE T == {n - x : x \in S}
<1>1. T \in SUBSET Nat /\ T # {}
  <2>1. T \subseteq Nat
    OBVIOUS
  <2>2. T # {}
    OBVIOUS
  <2> QED  BY <2>1, <2>2
<1>2. \A y \in S : n - y \in T
  OBVIOUS
<1>3. \A i \in T : \E x \in S : i = n - x
  OBVIOUS
<1> HIDE DEF T
<1>4. PICK i \in T : \A j \in T : i <= j
  BY <1>1, MinExists
<1>5. PICK x \in S : i = n - x
  BY <1>3
<1>6. ASSUME NEW y \in S  PROVE x >= y
  <2>1. i <= n - y
    BY <1>2, <1>4
  <2> QED  BY <1>5, <2>1
<1> QED  BY <1>6

-----------------------------------------------------------------------------
(* WorkspaceHome and ProjectSection                                        *)

\* What a list's request, the component's state and the creations say of one another. The rows,
\* their total and the selection play no part.
HomeInv ==
  /\ server \in Seq(Workspace)
  /\ view = [load |-> view.load, items |-> view.items, total |-> view.total, next |-> view.next,
             exhausted |-> view.exhausted, inconsistent |-> view.inconsistent,
             selected |-> view.selected, request |-> view.request, kind |-> view.kind]
  /\ view.load \in {"loading", "success", "error"} /\ view.request \in {"idle", "loading", "error"}
  /\ view.next \in Nat
  /\ net = [list |-> net.list, create |-> net.create] /\ net.list \in WH!ListRequest \cup {None}
  /\ past = [created |-> past.created, ended |-> past.ended, troubles |-> past.troubles]
  /\ WH!SpinnersAnswered /\ WH!CreatedNotReplaced
  /\ net.list # None =>
       \/ net.list.kind = "initial" /\ view.load = "loading"
       \/ net.list.kind = view.kind /\ view.request = "loading" /\ view.load = "success"
  /\ view.request = "loading" => view.kind \in {"load-more", "refresh"}
  /\ net.list # None /\ net.list.kind = "refresh" => net.create = None
  /\ past.created \subseteq WH!ToSet(server) \cup past.ended
  /\ net.create # None => net.create = [answer |-> net.create.answer]
  /\ net.create # None /\ net.create.answer \notin {None, WH!Failure} =>
       net.create.answer.id \in WH!ToSet(server) \cup past.ended

ProjectsInv ==
  /\ server = [order |-> server.order, sent |-> server.sent] /\ server.order \in Seq(Project)
  /\ view = [load |-> view.load, list |-> view.list, shown |-> view.shown,
             pagePending |-> view.pagePending, pageError |-> view.pageError,
             selected |-> view.selected]
  /\ view.load \in {"loading", "success", "error"} /\ view.pagePending \in BOOLEAN
  /\ view.list = [items |-> view.list.items, next |-> view.list.next,
                  exhausted |-> view.list.exhausted, inconsistent |-> view.list.inconsistent]
  /\ view.list.next \in Nat
  /\ net = [list |-> net.list, create |-> net.create] /\ net.list \in PS!ListRequest \cup {None}
  /\ past = [created |-> past.created, troubles |-> past.troubles]
  /\ PS!SpinnersAnswered /\ PS!CreatedNotReplaced
  /\ net.list # None =>
       \/ net.list.kind = "first" /\ view.load = "loading" /\ net.create = None
       \/ net.list.kind = "more" /\ view.pagePending /\ view.load = "success"
  /\ net.create # None => net.create = [answer |-> net.create.answer] /\ view.load = "success"
  /\ past.created \subseteq PS!ToSet(server.order)
  /\ net.create # None /\ net.create.answer \notin {None, PS!Failure} =>
       net.create.answer.id \in PS!ToSet(server.order)

\* A sequence without one of its elements.
LEMMA RemovedAt ==
  ASSUME NEW S, NEW s \in Seq(S), NEW i \in 1..Len(s)
  PROVE  LET r == SubSeq(s, 1, i-1) \o SubSeq(s, i+1, Len(s)) IN
         r \in Seq(S) /\ Range(s) \ {s[i]} \subseteq Range(r)
<1> DEFINE a == SubSeq(s, 1, i-1)
           b == SubSeq(s, i+1, Len(s))
<1>1. Len(s) \in Nat /\ DOMAIN s = 1..Len(s) /\ \A j \in 1..Len(s) : s[j] \in S
  OBVIOUS
<1>2. a \in Seq(S) /\ Len(a) = i - 1 /\ \A k \in 1..(i-1) : a[k] = s[k]
  <2>1. \A j \in 1..(i-1) : s[j] \in S
    BY <1>1
  <2>2. 1 \in Int /\ i - 1 \in Int
    BY <1>1
  <2>3. /\ a \in Seq(S) /\ Len(a) = IF 1 <= i-1 THEN (i-1) - 1 + 1 ELSE 0
        /\ \A k \in 1..((i-1) - 1 + 1) : a[k] = s[1 + k - 1]
    BY <2>1, <2>2, SubSeqProperties
  <2> HIDE DEF a
  <2> QED  BY <1>1, <2>3
<1>3. b \in Seq(S) /\ Len(b) = Len(s) - i /\ \A k \in 1..(Len(s) - i) : b[k] = s[k + i]
  <2>1. \A j \in (i+1)..Len(s) : s[j] \in S
    BY <1>1
  <2>2. i + 1 \in Int /\ Len(s) \in Int
    BY <1>1
  <2>3. /\ b \in Seq(S) /\ Len(b) = IF i+1 <= Len(s) THEN Len(s) - (i+1) + 1 ELSE 0
        /\ \A k \in 1..(Len(s) - (i+1) + 1) : b[k] = s[(i+1) + k - 1]
    BY <2>1, <2>2, SubSeqProperties
  <2> HIDE DEF b
  <2>4. Len(b) = Len(s) - i
    <3> i \in Int /\ 1 <= i /\ i <= Len(s) /\ Len(s) \in Int
      BY <1>1
    <3>1. CASE i + 1 <= Len(s)
      BY <2>3, <3>1
    <3>2. CASE ~(i + 1 <= Len(s))
      BY <2>3, <3>2
    <3> QED  BY <3>1, <3>2
  <2>5. ASSUME NEW k \in 1..(Len(s) - i)  PROVE b[k] = s[k + i]
    <3>1. (i+1) + k - 1 = k + i /\ k \in 1..(Len(s) - (i+1) + 1)
      BY <1>1
    <3> QED  BY <2>3, <3>1
  <2> QED  BY <2>3, <2>4, <2>5
<1> HIDE DEF a, b
<1>4. a \o b \in Seq(S) /\ Range(a \o b) = Range(a) \cup Range(b)
  BY <1>2, <1>3, RangeConcatenation
<1>5. ASSUME NEW j \in 1..Len(s), s[j] # s[i]  PROVE s[j] \in Range(a) \cup Range(b)
  <2>1. CASE j < i
    <3>1. j \in DOMAIN a /\ a[j] = s[j]
      BY <1>1, <1>2, <2>1
    <3> QED  BY <3>1 DEF Range
  <2>2. CASE j > i
    <3>1. j - i \in DOMAIN b /\ b[j - i] = s[j]
      BY <1>1, <1>3, <2>2
    <3> QED  BY <3>1 DEF Range
  <2> QED  BY <1>1, <1>5, <2>1, <2>2
<1>6. Range(s) \ {s[i]} \subseteq Range(a \o b)
  BY <1>1, <1>4, <1>5 DEF Range
<1> QED  BY <1>4, <1>6 DEF a, b

LEMMA Prepended ==
  ASSUME NEW S, NEW s \in Seq(S), NEW e \in S
  PROVE  <<e>> \o s \in Seq(S) /\ Range(<<e>> \o s) = {e} \cup Range(s)
<1>1. <<e>> \in Seq(S) /\ Range(<<e>>) = {e}
  <2>1. <<e>> \in Seq(S) /\ DOMAIN <<e>> = {1} /\ <<e>>[1] = e
    OBVIOUS
  <2> QED  BY <2>1 DEF Range
<1> DEFINE u == <<e>>
<1> HIDE DEF u
<1>2. u \o s \in Seq(S)
  BY <1>1, ConcatProperties DEF u
<1>3. Range(u \o s) = Range(u) \cup Range(s)
  <2>1. u \in Seq(S)
    BY <1>1 DEF u
  <2> QED  BY <2>1, RangeConcatenation
<1> QED  BY <1>1, <1>2, <1>3 DEF u

\* The first place of an element.
LEMMA FirstPlace ==
  ASSUME NEW S, NEW s \in Seq(S), NEW I, I \subseteq 1..Len(s), I # {}
  PROVE  \E i \in I : \A j \in I : i <= j
<1>1. I \in SUBSET Nat
  OBVIOUS
<1> QED  BY <1>1, MinExists

LEMMA HomeSequences ==
  ASSUME NEW S, NEW s \in Seq(S), NEW w \in S
  PROVE  /\ WH!RemoveFirst(s, w) \in Seq(S)
         /\ WH!ToSet(s) \ {w} \subseteq WH!ToSet(WH!RemoveFirst(s, w))
         /\ <<w>> \o s \in Seq(S)
         /\ WH!ToSet(<<w>> \o s) = {w} \cup WH!ToSet(s)
<1>1. \A t : WH!ToSet(t) = Range(t)
  BY DEF WH!ToSet, Range
<1>2. /\ <<w>> \o s \in Seq(S)
      /\ Range(<<w>> \o s) = {w} \cup Range(s)
  BY Prepended
<1>3. CASE \E i \in 1..Len(s) : s[i] = w
  <2> DEFINE I == {i \in 1..Len(s) : s[i] = w}
             m == WH!Min(I)
  <2>1. I # {} /\ I \subseteq 1..Len(s)
    BY <1>3
  <2>2. WH!RemoveFirst(s, w) = SubSeq(s, 1, m-1) \o SubSeq(s, m+1, Len(s))
    BY <1>3 DEF WH!RemoveFirst, WH!RemoveAt, WH!SelectInSeq
  <2>3. \A i \in I : i \in 1..Len(s) /\ s[i] = w
    OBVIOUS
  <2> HIDE DEF I
  <2>4. m \in I
    <3>1. \E i \in I : \A j \in I : i <= j
      BY <2>1, FirstPlace
    <3> QED  BY <3>1 DEF WH!Min
  <2> HIDE DEF m
  <2>5. m \in 1..Len(s) /\ s[m] = w
    BY <2>3, <2>4
  <2>6. /\ WH!RemoveFirst(s, w) \in Seq(S)
        /\ Range(s) \ {w} \subseteq Range(WH!RemoveFirst(s, w))
    BY <2>2, <2>5, RemovedAt
  <2> QED  BY <1>1, <1>2, <2>6
<1>4. CASE ~ \E i \in 1..Len(s) : s[i] = w
  <2>1. WH!RemoveFirst(s, w) = s
    BY <1>4 DEF WH!RemoveFirst
  <2> QED  BY <1>1, <1>2, <2>1
<1> QED  BY <1>3, <1>4

LEMMA ProjectSequences ==
  ASSUME NEW S, NEW s \in Seq(S), NEW p \in S
  PROVE  /\ PS!RemoveFirst(s, p) \in Seq(S)
         /\ PS!ToSet(s) \ {p} \subseteq PS!ToSet(PS!RemoveFirst(s, p))
         /\ <<p>> \o s \in Seq(S)
         /\ PS!ToSet(<<p>> \o s) = {p} \cup PS!ToSet(s)
<1>1. PS!RemoveFirst(s, p) = WH!RemoveFirst(s, p)
  BY DEF PS!RemoveFirst, PS!RemoveAt, PS!SelectInSeq, PS!Min,
         WH!RemoveFirst, WH!RemoveAt, WH!SelectInSeq, WH!Min
<1>2. \A t : PS!ToSet(t) = WH!ToSet(t)
  BY DEF PS!ToSet, WH!ToSet
<1> QED  BY <1>1, <1>2, HomeSequences

LEMMA TaskSequences ==
  ASSUME NEW S, NEW s \in Seq(S), NEW t \in S
  PROVE  <<t>> \o TS!RemoveFirst(s, t) \in Seq(S)
<1>1. TS!RemoveFirst(s, t) = WH!RemoveFirst(s, t)
  BY DEF TS!RemoveFirst, TS!RemoveAt, TS!SelectInSeq, TS!Min,
         WH!RemoveFirst, WH!RemoveAt, WH!SelectInSeq, WH!Min
<1>2. TS!RemoveFirst(s, t) \in Seq(S)
  <2>1. WH!RemoveFirst(s, t) \in Seq(S)
    BY HomeSequences
  <2> QED  BY <1>1, <2>1
<1> DEFINE rest == TS!RemoveFirst(s, t)
<1> HIDE DEF rest
<1>3. <<t>> \o rest \in Seq(S)
  <2>1. rest \in Seq(S)
    BY <1>2 DEF rest
  <2> QED  BY <2>1, Prepended
<1> QED  BY <1>3 DEF rest

LEMMA HomePage ==
  ASSUME server \in Seq(Workspace), NEW page \in Nat
  PROVE  LET p == WH!PageOf(server, DOMAIN server, page) IN
         p.items \subseteq Workspace /\ p.page = page /\ p.total \in Nat
<1>1. Len(server) \in Nat /\ DOMAIN server = 1..Len(server) /\ \A i \in DOMAIN server : server[i] \in Workspace
  OBVIOUS
<1>2. WH!Cardinality(DOMAIN server) \in Nat
  <2>1. IsFiniteSet(DOMAIN server)
    BY <1>1, FS_Interval
  <2>2. Cardinality(DOMAIN server) \in Nat
    BY <2>1, FS_CardinalityType
  <2> QED  BY <2>2 DEF WH!Cardinality, Cardinality
<1> QED  BY <1>1, <1>2 DEF WH!PageOf

LEMMA HomeServed ==
  ASSUME HomeInv, WH!ServeList
  PROVE  HomeInv'
<1> USE DEF HomeInv
<1> DEFINE p == WH!PageOf(server, DOMAIN server, net.list.page)
           a == [items |-> {[id |-> w] : w \in p.items}, page |-> p.page, total |-> p.total,
                 all |-> WH!ToSet(server), failed |-> FALSE]
<1>1. net' = [net EXCEPT !.list.answer = a] /\ UNCHANGED <<server, view, past>> /\ net.list # None
  BY DEF WH!ServeList
<1>2. net.list \in WH!ListRequest
  BY <1>1
<1>3. p.items \subseteq Workspace /\ p.page \in Nat /\ p.total \in Nat
  BY <1>2, HomePage DEF WH!ListRequest
<1>4. WH!ToSet(server) \subseteq Workspace
  BY DEF WH!ToSet
<1> HIDE DEF p
<1>5. {[id |-> w] : w \in p.items} \in SUBSET [id : Workspace]
  BY <1>3
<1>6. a \in WH!Listing /\ a.all = WH!ToSet(server)
  BY <1>3, <1>4, <1>5 DEF WH!Listing
<1> HIDE DEF a
<1>7. /\ net' = [list |-> net'.list, create |-> net'.create] /\ net'.create = net.create
      /\ net'.list = [net.list EXCEPT !.answer = a]
  BY <1>1
<1>8. net'.list \in WH!ListRequest /\ net'.list.kind = net.list.kind /\ net'.list.answer = a
  BY <1>2, <1>6, <1>7 DEF WH!ListRequest
<1>9. net'.list # None
  BY <1>8, NoneAssumption
<1> QED
  BY <1>1, <1>6, <1>7, <1>8, <1>9 DEF WH!SpinnersAnswered, WH!CreatedNotReplaced

\* What the server and the other members do.
LEMMA HomeElsewhere ==
  ASSUME HomeInv, WH!Elsewhere \/ WH!ServeCreate
  PROVE  HomeInv'
<1> USE DEF HomeInv
<1>1. CASE WH!Elsewhere
  <2>1. UNCHANGED <<view, net>> /\ past'.created = past.created
        /\ past' = [created |-> past'.created, ended |-> past'.ended, troubles |-> past'.troubles]
    BY <1>1 DEF WH!Elsewhere, WH!Trouble
  <2>2. /\ server' \in Seq(Workspace) /\ past.ended \subseteq past'.ended
        /\ WH!ToSet(server) \subseteq WH!ToSet(server') \cup past'.ended
    <3>1. ASSUME NEW w \in WH!Unused \cup WH!ToSet(server), server' = <<w>> \o WH!Remaining(w), WH!Trouble
          PROVE  <2>2
      <4>1. w \in Workspace
        BY DEF WH!Unused, WH!ToSet
      <4>2. WH!Remaining(w) \in Seq(Workspace) /\ WH!ToSet(server) \ {w} \subseteq WH!ToSet(WH!Remaining(w))
        BY <4>1, HomeSequences DEF WH!Remaining
      <4>3. server' \in Seq(Workspace) /\ WH!ToSet(server') = {w} \cup WH!ToSet(WH!Remaining(w))
        BY <3>1, <4>1, <4>2, HomeSequences
      <4>4. past'.ended = past.ended
        BY <3>1 DEF WH!Trouble
      <4> QED  BY <4>2, <4>3, <4>4
    <3>2. ASSUME NEW w \in WH!ToSet(server), server' = WH!Remaining(w),
                 past' = [past EXCEPT !.ended = @ \cup {w}, !.troubles = @ + 1]
          PROVE  <2>2
      <4>1. w \in Workspace
        BY DEF WH!ToSet
      <4>2. WH!Remaining(w) \in Seq(Workspace) /\ WH!ToSet(server) \ {w} \subseteq WH!ToSet(WH!Remaining(w))
        BY <4>1, HomeSequences DEF WH!Remaining
      <4>3. past'.ended = past.ended \cup {w}
        BY <3>2
      <4> QED  BY <3>2, <4>2, <4>3
    <3> QED  BY <1>1, <3>1, <3>2 DEF WH!Elsewhere
  <2> QED  BY <2>1, <2>2 DEF WH!SpinnersAnswered, WH!CreatedNotReplaced
<1>2. CASE WH!ServeCreate
  <2>1. PICK w \in WH!Unused :
          /\ server' = <<w>> \o server
          /\ net' = [net EXCEPT !.create.answer = [id |-> w, failed |-> FALSE]]
    BY <1>2 DEF WH!ServeCreate
  <2>2. UNCHANGED <<view, past>> /\ net.create # None
    BY <1>2 DEF WH!ServeCreate
  <2>3. server' \in Seq(Workspace) /\ WH!ToSet(server') = {w} \cup WH!ToSet(server)
    <3>1. w \in Workspace
      BY DEF WH!Unused
    <3> QED  BY <2>1, <3>1, HomeSequences
  <2>4. /\ net' = [list |-> net'.list, create |-> net'.create] /\ net'.list = net.list
        /\ net'.create = [answer |-> [id |-> w, failed |-> FALSE]]
    BY <2>1, <2>2
  <2>5. net'.create = [answer |-> net'.create.answer] /\ net'.create.answer.id = w
    BY <2>4
  <2> QED  BY <2>2, <2>3, <2>4, <2>5 DEF WH!SpinnersAnswered, WH!CreatedNotReplaced
<1> QED  BY <1>1, <1>2

LEMMA HomeFails ==
  ASSUME HomeInv, WH!Fail
  PROVE  HomeInv'
<1> USE DEF HomeInv
<1>1. UNCHANGED <<server, view>> /\ past'.created = past.created /\ past'.ended = past.ended
      /\ past' = [created |-> past'.created, ended |-> past'.ended, troubles |-> past'.troubles]
  BY DEF WH!Fail, WH!Trouble
<1>2. CASE net.list # None /\ net' = [net EXCEPT !.list.answer = WH!Failure]
  <2>1. /\ net' = [list |-> net'.list, create |-> net'.create] /\ net'.create = net.create
        /\ net'.list = [net.list EXCEPT !.answer = WH!Failure]
    BY <1>2
  <2>2. /\ net'.list \in WH!ListRequest /\ net'.list.kind = net.list.kind
        /\ net'.list.answer = WH!Failure
    BY <1>2, <2>1 DEF WH!ListRequest
  <2>3. net'.list # None
    BY <2>2, NoneAssumption
  <2> QED
    BY <1>1, <1>2, <2>1, <2>2, <2>3 DEF WH!SpinnersAnswered, WH!CreatedNotReplaced
<1>3. CASE net.create # None /\ net' = [net EXCEPT !.create.answer = WH!Failure]
  <2>1. /\ net' = [list |-> net'.list, create |-> net'.create] /\ net'.list = net.list
        /\ net'.create = [answer |-> WH!Failure]
    BY <1>3
  <2>2. net'.create = [answer |-> net'.create.answer] /\ net'.create.answer = WH!Failure
    BY <2>1
  <2> QED
    BY <1>1, <1>3, <2>1, <2>2 DEF WH!SpinnersAnswered, WH!CreatedNotReplaced
<1> QED  BY <1>2, <1>3 DEF WH!Fail

\* A list is asked for: the first, a page more, or all of it again.
LEMMA HomeRequests ==
  ASSUME HomeInv, WH!Retry \/ WH!RequestPage("load-more") \/ WH!RequestPage("refresh")
  PROVE  HomeInv'
<1> USE DEF HomeInv
<1>1. ASSUME NEW kind \in {"initial", "load-more", "refresh"}, NEW page \in Nat,
             net' = [net EXCEPT !.list = WH!List(kind, page)]
      PROVE  /\ net' = [list |-> net'.list, create |-> net'.create] /\ net'.create = net.create
             /\ net'.list \in WH!ListRequest /\ net'.list # None
             /\ net'.list.kind = kind /\ net'.list.answer = None
  <2>1. /\ net' = [list |-> net'.list, create |-> net'.create] /\ net'.create = net.create
        /\ net'.list = WH!List(kind, page)
    BY <1>1
  <2>2. WH!List(kind, page) \in WH!ListRequest
    BY DEF WH!List, WH!ListRequest
  <2>3. WH!List(kind, page) # None
    BY <2>2, NoneAssumption
  <2> QED  BY <2>1, <2>2, <2>3 DEF WH!List
<1>2. CASE WH!Retry
  <2>1. /\ view' = [view EXCEPT !.load = "loading"] /\ UNCHANGED <<server, past>>
        /\ net' = [net EXCEPT !.list = WH!List("initial", 1)] /\ view.load = "error"
    BY <1>2 DEF WH!Retry
  <2>2. view.request # "loading" /\ net.list = None
    BY <2>1 DEF WH!SpinnersAnswered
  <2> QED
    BY <1>1, <2>1, <2>2 DEF WH!SpinnersAnswered, WH!CreatedNotReplaced
<1>3. ASSUME NEW kind \in {"load-more", "refresh"}, WH!RequestPage(kind)
      PROVE  HomeInv'
  <2> DEFINE page == IF kind = "refresh" THEN 1 ELSE view.next
  <2>1. /\ view' = [view EXCEPT !.request = "loading", !.kind = kind] /\ UNCHANGED <<server, past>>
        /\ net' = [net EXCEPT !.list = WH!List(kind, page)]
        /\ view.load = "success" /\ (kind = "refresh" => net.create = None)
    BY <1>3 DEF WH!RequestPage, WH!Offered
  <2>2. page \in Nat
    OBVIOUS
  <2> HIDE DEF page
  <2> QED
    BY <1>1, <2>1, <2>2 DEF WH!SpinnersAnswered, WH!CreatedNotReplaced
<1> QED  BY <1>2, <1>3

LEMMA HomeListArrives ==
  ASSUME HomeInv, WH!ListArrives
  PROVE  HomeInv'
<1> USE DEF HomeInv
<1> DEFINE r == net.list
<1>1. r \in WH!ListRequest /\ r # None /\ r.answer \in WH!Listing \cup {WH!Failure}
      /\ net' = [net EXCEPT !.list = None] /\ UNCHANGED <<server, past>>
  BY DEF WH!ListArrives, WH!ListRequest
<1>2. /\ net' = [list |-> net'.list, create |-> net'.create] /\ net'.create = net.create
      /\ net'.list = None
  BY <1>1
<1>3. ASSUME NEW load \in {"success", "error"}, NEW request \in {"idle", "error"}, NEW next \in Nat,
             view' = [load |-> load, items |-> view'.items, total |-> view'.total, next |-> next,
                      exhausted |-> view'.exhausted, inconsistent |-> view'.inconsistent,
                      selected |-> view'.selected, request |-> request, kind |-> view'.kind]
      PROVE  HomeInv'
  <2>1. view'.load = load /\ view'.request = request /\ view'.next = next
    BY <1>3
  <2> QED
    BY <1>1, <1>2, <1>3, <2>1 DEF WH!SpinnersAnswered, WH!CreatedNotReplaced
<1>4. CASE r.answer = WH!Failure
  <2>1. view' = IF r.kind = "initial" THEN [view EXCEPT !.load = "error"]
                ELSE [view EXCEPT !.request = "error"]
    BY <1>4 DEF WH!ListArrives
  <2>2. CASE r.kind = "initial"
    <3>1. view.request \in {"idle", "error"}
      BY <1>1, <2>2 DEF WH!SpinnersAnswered
    <3> QED  BY <1>3, <2>1, <2>2, <3>1
  <2>3. CASE r.kind # "initial"
    BY <1>1, <1>3, <2>1, <2>3
  <2> QED  BY <2>2, <2>3
<1>5. CASE r.answer # WH!Failure
  <2>1. r.answer.page + 1 \in Nat
    <3>1. r.answer \in WH!Listing
      BY <1>1, <1>5
    <3>2. \A x \in WH!Listing : x.page + 1 \in Nat
      BY DEF WH!Listing
    <3> QED  BY <3>1, <3>2
  <2>2. ASSUME NEW replacing \in BOOLEAN
        PROVE  LET v == WH!Loaded(view, r.answer, replacing) IN
               /\ v = [load |-> view.load, items |-> v.items, total |-> v.total,
                       next |-> r.answer.page + 1, exhausted |-> v.exhausted,
                       inconsistent |-> v.inconsistent, selected |-> v.selected,
                       request |-> view.request, kind |-> view.kind]
    <3> DEFINE v == WH!Loaded(view, r.answer, replacing)
    <3>1. PICK i, t, e, c, s : v = [view EXCEPT !.items = i, !.total = t, !.next = r.answer.page + 1,
                                      !.exhausted = e, !.inconsistent = c, !.selected = s]
      BY DEF WH!Loaded
    <3> HIDE DEF v
    <3> QED  BY <3>1 DEF v
  <2>3. CASE r.kind = "initial"
    <3>1. view' = [WH!Loaded(view, r.answer, TRUE) EXCEPT !.load = "success"]
      BY <1>5, <2>3 DEF WH!ListArrives
    <3>2. view.request \in {"idle", "error"}
      BY <1>1, <2>3 DEF WH!SpinnersAnswered
    <3> DEFINE v == WH!Loaded(view, r.answer, TRUE)
    <3>3. v = [load |-> view.load, items |-> v.items, total |-> v.total,
               next |-> r.answer.page + 1, exhausted |-> v.exhausted,
               inconsistent |-> v.inconsistent, selected |-> v.selected,
               request |-> view.request, kind |-> view.kind]
      BY <2>2, <3>2
    <3>5. view' = [v EXCEPT !.load = "success"]
      BY <3>1
    <3> HIDE DEF v
    <3>4. view' = [load |-> "success", items |-> view'.items, total |-> view'.total,
                   next |-> r.answer.page + 1, exhausted |-> view'.exhausted,
                   inconsistent |-> view'.inconsistent, selected |-> view'.selected,
                   request |-> view.request, kind |-> view'.kind]
      BY <3>3, <3>5
    <3> QED  BY <1>3, <2>1, <3>2, <3>4
  <2>4. CASE r.kind # "initial"
    <3>1. view' = [WH!Loaded(view, r.answer, r.kind # "load-more") EXCEPT !.request = "idle"]
      BY <1>5, <2>4 DEF WH!ListArrives
    <3>2. view.load = "success" /\ (r.kind # "load-more") \in BOOLEAN
      BY <1>1, <2>4
    <3> DEFINE v == WH!Loaded(view, r.answer, r.kind # "load-more")
    <3>3. v = [load |-> view.load, items |-> v.items, total |-> v.total,
               next |-> r.answer.page + 1, exhausted |-> v.exhausted,
               inconsistent |-> v.inconsistent, selected |-> v.selected,
               request |-> view.request, kind |-> view.kind]
      BY <2>2, <3>2
    <3> HIDE DEF v
    <3>4. view' = [load |-> "success", items |-> view'.items, total |-> view'.total,
                   next |-> r.answer.page + 1, exhausted |-> view'.exhausted,
                   inconsistent |-> view'.inconsistent, selected |-> view'.selected,
                   request |-> "idle", kind |-> view'.kind]
      BY <3>1, <3>2, <3>3 DEF v
    <3> QED  BY <1>3, <2>1, <3>4
  <2> QED  BY <2>3, <2>4
<1> QED  BY <1>4, <1>5

\* The create form, and a workspace that is selected.
LEMMA HomeCreates ==
  ASSUME HomeInv, WH!Create \/ WH!CreateArrives \/ WH!Select
  PROVE  HomeInv'
<1> USE DEF HomeInv, WH!SpinnersAnswered, WH!CreatedNotReplaced
<1>1. CASE WH!Create
  <2>1. net' = [net EXCEPT !.create = [answer |-> None]] /\ UNCHANGED <<server, view, past>>
        /\ ~(view.request = "loading" /\ view.kind = "refresh") /\ view.load = "success"
    BY <1>1 DEF WH!Create, WH!CreateOffered
  <2>2. /\ net' = [list |-> net'.list, create |-> net'.create] /\ net'.list = net.list
        /\ net'.create = [answer |-> None]
    BY <2>1
  <2>3. net'.create = [answer |-> net'.create.answer] /\ net'.create.answer = None
    BY <2>2
  <2>4. ~(net.list # None /\ net.list.kind = "refresh")
    BY <2>1
  <2> QED  BY <2>1, <2>2, <2>3, <2>4
<1>2. CASE WH!CreateArrives
  <2>1. /\ net' = [list |-> net'.list, create |-> net'.create] /\ net'.list = net.list
        /\ net'.create = None /\ UNCHANGED server /\ net.create # None /\ net.create.answer # None
    BY <1>2 DEF WH!CreateArrives
  <2>2. CASE net.create.answer = WH!Failure
    BY <1>2, <2>1, <2>2 DEF WH!CreateArrives
  <2>3. CASE net.create.answer # WH!Failure
    <3> DEFINE id == net.create.answer.id
    <3>1. view' = WH!Created(view, id) /\ past' = [past EXCEPT !.created = @ \cup {id}]
      BY <1>2, <2>3 DEF WH!CreateArrives
    <3>2. id \in WH!ToSet(server) \cup past.ended
      BY <2>1, <2>3
    <3> HIDE DEF id
    <3>3. /\ past'.created = past.created \cup {id} /\ past'.ended = past.ended
          /\ past' = [created |-> past'.created, ended |-> past'.ended, troubles |-> past'.troubles]
      BY <3>1
    <3>4. view' = [load |-> view.load, items |-> view'.items, total |-> view'.total,
                   next |-> view.next, exhausted |-> view.exhausted,
                   inconsistent |-> view'.inconsistent, selected |-> view'.selected,
                   request |-> view.request, kind |-> view.kind]
      BY <3>1 DEF WH!Created
    <3>5. /\ view'.load = view.load /\ view'.request = view.request /\ view'.kind = view.kind
          /\ view'.next = view.next /\ view'.exhausted = view.exhausted
      BY <3>4
    <3>6. ~(net.list # None /\ net.list.kind = "refresh")
      BY <2>1
    <3> QED  BY <2>1, <3>2, <3>3, <3>4, <3>5, <3>6
  <2> QED  BY <2>2, <2>3
<1>3. CASE WH!Select
  <2>1. PICK id : view' = [view EXCEPT !.selected = id]
    BY <1>3 DEF WH!Select
  <2>2. UNCHANGED <<server, net, past>>
    BY <1>3 DEF WH!Select
  <2> QED  BY <2>1, <2>2
<1> QED  BY <1>1, <1>2, <1>3

LEMMA HomeStep ==
  ASSUME HomeInv, WH!Next
  PROVE  HomeInv'
BY HomeElsewhere, HomeServed, HomeFails, HomeRequests, HomeListArrives, HomeCreates DEF WH!Next

LEMMA HomeInit ==
  ASSUME WH!Init
  PROVE  HomeInv
<1>1. server \in Seq(Workspace)
  <2>1. PICK W \in SUBSET Workspace : server \in WH!SetToSeqs(W)
    BY DEF WH!Init
  <2>2. Cardinality(W) \in Nat
    BY SizesAssumption, FS_Subset, FS_CardinalityType
  <2>3. WH!Cardinality(W) = Cardinality(W)
    BY DEF WH!Cardinality, Cardinality
  <2>4. server \in [1..Cardinality(W) -> W]
    BY <2>1, <2>3 DEF WH!SetToSeqs
  <2> QED  BY <2>2, <2>4
<1>2. WH!List("initial", 1) \in WH!ListRequest
  BY DEF WH!List, WH!ListRequest
<1>3. WH!List("initial", 1) # None
  BY <1>2, NoneAssumption
<1>4. net = [list |-> WH!List("initial", 1), create |-> None]
  BY DEF WH!Init
<1>5. /\ net = [list |-> net.list, create |-> net.create] /\ net.list = WH!List("initial", 1)
      /\ net.create = None /\ net.list.kind = "initial" /\ net.list.answer = None
  BY <1>4 DEF WH!List
<1>6. past = [created |-> {}, ended |-> {}, troubles |-> 0]
  BY DEF WH!Init
<1>7. /\ view = [load |-> "loading", items |-> {}, total |-> 0, next |-> 1, exhausted |-> TRUE,
                 inconsistent |-> FALSE, selected |-> None, request |-> "idle", kind |-> "refresh"]
  BY DEF WH!Init
<1> QED
  BY <1>1, <1>2, <1>3, <1>5, <1>6, <1>7 DEF HomeInv, WH!SpinnersAnswered, WH!CreatedNotReplaced

LEMMA ProjectsPage ==
  ASSUME server.order \in Seq(Project), NEW page \in Nat
  PROVE  LET p == PS!PageOf(server.order, DOMAIN server.order, page) IN
         p.items \subseteq Project /\ p.page = page /\ p.total \in Nat
<1> DEFINE s == server.order
<1>1. Len(s) \in Nat /\ DOMAIN s = 1..Len(s) /\ \A i \in DOMAIN s : s[i] \in Project
  OBVIOUS
<1>2. PS!Cardinality(DOMAIN s) \in Nat
  <2>1. IsFiniteSet(DOMAIN s)
    BY <1>1, FS_Interval
  <2>2. Cardinality(DOMAIN s) \in Nat
    BY <2>1, FS_CardinalityType
  <2> QED  BY <2>2 DEF PS!Cardinality, Cardinality
<1> QED  BY <1>1, <1>2 DEF PS!PageOf

LEMMA ProjectsServed ==
  ASSUME ProjectsInv, PS!ServeList
  PROVE  ProjectsInv'
<1> USE DEF ProjectsInv
<1> DEFINE p == PS!PageOf(server.order, DOMAIN server.order, net.list.page)
           a == [items |-> {[id |-> q] : q \in p.items}, page |-> p.page, total |-> p.total,
                 all |-> PS!ToSet(server.order), failed |-> FALSE]
<1>1. net' = [net EXCEPT !.list.answer = a] /\ UNCHANGED <<server, view, past>> /\ net.list # None
  BY DEF PS!ServeList
<1>2. net.list \in PS!ListRequest
  BY <1>1
<1>3. p.items \subseteq Project /\ p.page \in Nat /\ p.total \in Nat
  BY <1>2, ProjectsPage DEF PS!ListRequest
<1>4. PS!ToSet(server.order) \subseteq Project
  BY DEF PS!ToSet
<1> HIDE DEF p
<1>5. {[id |-> q] : q \in p.items} \in SUBSET [id : Project]
  BY <1>3
<1>6. a \in PS!Listing /\ a.all = PS!ToSet(server.order)
  BY <1>3, <1>4, <1>5 DEF PS!Listing
<1> HIDE DEF a
<1>7. /\ net' = [list |-> net'.list, create |-> net'.create] /\ net'.create = net.create
      /\ net'.list = [net.list EXCEPT !.answer = a]
  BY <1>1
<1>8. net'.list \in PS!ListRequest /\ net'.list.kind = net.list.kind /\ net'.list.answer = a
  BY <1>2, <1>6, <1>7 DEF PS!ListRequest
<1>9. net'.list # None
  BY <1>8, NoneAssumption
<1>10. PS!SpinnersAnswered'
  BY <1>1, <1>8, <1>9 DEF PS!SpinnersAnswered
<1>11. PS!CreatedNotReplaced'
  <2>1. past.created \subseteq a.all
    BY <1>1, <1>6
  <2> QED  BY <1>1, <1>8, <2>1 DEF PS!CreatedNotReplaced
<1>12. /\ server' = server /\ view' = view /\ past' = past
       /\ net'.create # None => net'.create = net.create /\ net.create # None
  BY <1>1, <1>7
<1>13. /\ server' = [order |-> server'.order, sent |-> server'.sent]
       /\ server'.order \in Seq(Project)
       /\ past' = [created |-> past'.created, troubles |-> past'.troubles]
       /\ past'.created \subseteq PS!ToSet(server'.order)
  BY <1>12
<1>14. /\ view' = [load |-> view'.load, list |-> view'.list, shown |-> view'.shown,
                   pagePending |-> view'.pagePending, pageError |-> view'.pageError,
                   selected |-> view'.selected]
       /\ view'.load \in {"loading", "success", "error"} /\ view'.pagePending \in BOOLEAN
       /\ view'.list = [items |-> view'.list.items, next |-> view'.list.next,
                        exhausted |-> view'.list.exhausted,
                        inconsistent |-> view'.list.inconsistent]
       /\ view'.list.next \in Nat
  BY <1>12
<1>15. /\ net' = [list |-> net'.list, create |-> net'.create]
       /\ net'.list \in PS!ListRequest \cup {None}
  BY <1>7, <1>8
<1>16. \/ net'.list.kind = "first" /\ view'.load = "loading" /\ net'.create = None
       \/ net'.list.kind = "more" /\ view'.pagePending /\ view'.load = "success"
  <2>1. \/ net.list.kind = "first" /\ view.load = "loading" /\ net.create = None
        \/ net.list.kind = "more" /\ view.pagePending /\ view.load = "success"
    BY <1>1
  <2> QED  BY <2>1, <1>7, <1>8, <1>12
<1>17. /\ net'.create # None => net'.create = [answer |-> net'.create.answer]
                                /\ view'.load = "success"
       /\ net'.create # None /\ net'.create.answer \notin {None, PS!Failure} =>
            net'.create.answer.id \in PS!ToSet(server'.order)
  BY <1>7, <1>12
<1> QED
  BY <1>10, <1>11, <1>13, <1>14, <1>15, <1>16, <1>17

\* What the server and the other members do.
LEMMA ProjectsElsewhere ==
  ASSUME ProjectsInv, PS!Elsewhere \/ PS!ServeCreate
  PROVE  ProjectsInv'
<1> USE DEF ProjectsInv
<1>1. CASE PS!Elsewhere
  <2>1. UNCHANGED <<view, net>> /\ past'.created = past.created
        /\ past' = [created |-> past'.created, troubles |-> past'.troubles]
    BY <1>1 DEF PS!Elsewhere, PS!Trouble
  <2>2. PICK p \in Project : server' = [server EXCEPT !.order = PS!First(p)]
    BY <1>1 DEF PS!Elsewhere
  <2>3. PS!RemoveFirst(server.order, p) \in Seq(Project)
        /\ PS!ToSet(server.order) \ {p} \subseteq PS!ToSet(PS!RemoveFirst(server.order, p))
    BY ProjectSequences
  <2>4. PS!First(p) \in Seq(Project)
        /\ PS!ToSet(PS!First(p)) = {p} \cup PS!ToSet(PS!RemoveFirst(server.order, p))
    BY <2>3, ProjectSequences DEF PS!First
  <2>5. server' = [order |-> server'.order, sent |-> server'.sent] /\ server'.order = PS!First(p)
    BY <2>2
  <2>6. PS!ToSet(server.order) \subseteq PS!ToSet(server'.order)
    BY <2>3, <2>4, <2>5
  <2> QED  BY <2>1, <2>4, <2>5, <2>6 DEF PS!SpinnersAnswered, PS!CreatedNotReplaced
<1>2. CASE PS!ServeCreate
  <2>1. PICK p \in PS!Unused :
          /\ server' = [order |-> <<p>> \o server.order, sent |-> server.sent - 1]
          /\ net' = IF server.sent = 1 /\ net.create = [answer |-> None]
                    THEN [net EXCEPT !.create.answer = [id |-> p, failed |-> FALSE]] ELSE net
    BY <1>2 DEF PS!ServeCreate
  <2>2. UNCHANGED <<view, past>>
    BY <1>2 DEF PS!ServeCreate
  <2>3. server'.order \in Seq(Project) /\ PS!ToSet(server'.order) = {p} \cup PS!ToSet(server.order)
        /\ server' = [order |-> server'.order, sent |-> server'.sent]
    <3>1. p \in Project
      BY DEF PS!Unused
    <3>2. server'.order = <<p>> \o server.order /\ server' = [order |-> server'.order, sent |-> server'.sent]
      BY <2>1
    <3> QED  BY <3>1, <3>2, ProjectSequences
  <2>4. CASE net' = net
    BY <2>2, <2>3, <2>4 DEF PS!SpinnersAnswered, PS!CreatedNotReplaced
  <2>5. CASE net' # net
    <3>1. /\ net.create = [answer |-> None]
          /\ net' = [net EXCEPT !.create.answer = [id |-> p, failed |-> FALSE]]
      BY <2>1, <2>5
    <3>2. /\ net' = [list |-> net'.list, create |-> net'.create] /\ net'.list = net.list
          /\ net'.create = [answer |-> [id |-> p, failed |-> FALSE]]
      BY <3>1
    <3>3. net'.create = [answer |-> net'.create.answer] /\ net'.create.answer.id = p
      BY <3>2
    <3>4. net.create # None
      <4>1. [answer |-> None] \in [answer : {None}]
        OBVIOUS
      <4> QED  BY <3>1, <4>1, NoneAssumption
    <3> QED
      BY <2>2, <2>3, <3>2, <3>3, <3>4 DEF PS!SpinnersAnswered, PS!CreatedNotReplaced
  <2> QED  BY <2>4, <2>5
<1> QED  BY <1>1, <1>2

LEMMA ProjectsFail ==
  ASSUME ProjectsInv, PS!Fail
  PROVE  ProjectsInv'
<1> USE DEF ProjectsInv, PS!SpinnersAnswered, PS!CreatedNotReplaced
<1>1. UNCHANGED <<server, view>> /\ past'.created = past.created
      /\ past' = [created |-> past'.created, troubles |-> past'.troubles]
  BY DEF PS!Fail, PS!Trouble
<1>2. CASE net.list # None /\ net' = [net EXCEPT !.list.answer = PS!Failure]
  <2>1. /\ net' = [list |-> net'.list, create |-> net'.create] /\ net'.create = net.create
        /\ net'.list = [net.list EXCEPT !.answer = PS!Failure]
    BY <1>2
  <2>2. /\ net'.list \in PS!ListRequest /\ net'.list.kind = net.list.kind
        /\ net'.list.answer = PS!Failure
    BY <1>2, <2>1 DEF PS!ListRequest
  <2>3. net'.list # None
    BY <2>2, NoneAssumption
  <2> QED  BY <1>1, <1>2, <2>1, <2>2, <2>3
<1>3. CASE net.create # None /\ net' = [net EXCEPT !.create.answer = PS!Failure]
  <2>1. /\ net' = [list |-> net'.list, create |-> net'.create] /\ net'.list = net.list
        /\ net'.create = [answer |-> PS!Failure]
    BY <1>3
  <2>2. net'.create = [answer |-> net'.create.answer] /\ net'.create.answer = PS!Failure
    BY <2>1
  <2> QED  BY <1>1, <1>3, <2>1, <2>2
<1> QED  BY <1>2, <1>3 DEF PS!Fail

\* A list is asked for: from the start, or a page more.
LEMMA ProjectsRequest ==
  ASSUME ProjectsInv, PS!Reload \/ PS!LoadMore
  PROVE  ProjectsInv'
<1> USE DEF ProjectsInv, PS!SpinnersAnswered, PS!CreatedNotReplaced
<1>1. ASSUME NEW kind \in {"first", "more"}, NEW page \in Nat
      PROVE  /\ PS!List(kind, page) \in PS!ListRequest /\ PS!List(kind, page) # None
             /\ PS!List(kind, page).kind = kind /\ PS!List(kind, page).answer = None
  <2>1. PS!List(kind, page) \in PS!ListRequest
    BY DEF PS!List, PS!ListRequest
  <2>2. PS!List(kind, page) # None
    BY <2>1, NoneAssumption
  <2> QED  BY <2>1, <2>2 DEF PS!List
<1>2. CASE PS!Reload
  <2>1. /\ view' = [view EXCEPT !.load = "loading", !.pageError = FALSE]
        /\ net' = [list |-> PS!List("first", 1), create |-> None] /\ UNCHANGED <<server, past>>
        /\ view.load = "error" \/ ~view.pagePending
    BY <1>2 DEF PS!Reload, PS!LoadInitial
  <2>2. ~view.pagePending
    BY <2>1
  <2>3. /\ net' = [list |-> net'.list, create |-> net'.create] /\ net'.create = None
        /\ net'.list = PS!List("first", 1)
    BY <2>1
  <2> QED  BY <1>1, <2>1, <2>2, <2>3
<1>3. CASE PS!LoadMore
  <2>1. /\ view' = [view EXCEPT !.pagePending = TRUE, !.pageError = FALSE]
        /\ net' = [net EXCEPT !.list = PS!List("more", view.list.next)]
        /\ UNCHANGED <<server, past>> /\ view.load = "success"
    BY <1>3 DEF PS!LoadMore
  <2>2. /\ net' = [list |-> net'.list, create |-> net'.create] /\ net'.create = net.create
        /\ net'.list = PS!List("more", view.list.next)
    BY <2>1
  <2> QED  BY <1>1, <2>1, <2>2
<1> QED  BY <1>2, <1>3

LEMMA ProjectsArrive ==
  ASSUME ProjectsInv, PS!ListArrives
  PROVE  ProjectsInv'
<1> USE DEF ProjectsInv, PS!SpinnersAnswered, PS!CreatedNotReplaced
<1> DEFINE r == net.list
           first == r.kind = "first"
           list == PS!Reconcile(IF first THEN {} ELSE view.list.items, r.answer)
<1>1. r \in PS!ListRequest /\ r # None /\ r.answer \in PS!Listing \cup {PS!Failure}
      /\ net' = [net EXCEPT !.list = None] /\ UNCHANGED <<server, past>>
  BY DEF PS!ListArrives, PS!ListRequest
<1>2. /\ net' = [list |-> net'.list, create |-> net'.create] /\ net'.create = net.create
      /\ net'.list = None
  BY <1>1
<1>3. first => ~view.pagePending /\ net.create = None
  BY <1>1
<1>4. ~first => view.load = "success"
  BY <1>1
<1>5. CASE r.answer = PS!Failure
  <2>1. view' = IF first THEN [view EXCEPT !.load = "error"]
                ELSE [view EXCEPT !.pageError = TRUE, !.pagePending = FALSE]
    BY <1>5 DEF PS!ListArrives
  <2>2. CASE first
    BY <1>1, <1>2, <1>3, <2>1, <2>2
  <2>3. CASE ~first
    BY <1>1, <1>2, <1>4, <2>1, <2>3
  <2> QED  BY <2>2, <2>3
<1>6. CASE r.answer # PS!Failure
  <2>1. r.answer.page + 1 \in Nat
    <3>1. r.answer \in PS!Listing
      BY <1>1, <1>6
    <3>2. \A x \in PS!Listing : x.page + 1 \in Nat
      BY DEF PS!Listing
    <3> QED  BY <3>1, <3>2
  <2>2. list = [items |-> list.items, next |-> list.next, exhausted |-> list.exhausted,
                inconsistent |-> list.inconsistent] /\ list.next = r.answer.page + 1
    BY DEF PS!Reconcile
  <2>3. view' = IF first
                THEN [view EXCEPT !.load = "success", !.list = list,
                                  !.shown = PS!Total(list, r.answer),
                                  !.selected = PS!Selection(@, list.items)]
                ELSE [view EXCEPT !.pagePending = FALSE, !.list = list,
                                  !.shown = PS!Total(list, r.answer)]
    BY <1>6 DEF PS!ListArrives
  <2> HIDE DEF list
  <2> QED  BY <1>1, <1>2, <1>3, <1>4, <2>1, <2>2, <2>3
<1> QED  BY <1>5, <1>6

\* The create form, and a project that is selected.
LEMMA ProjectsCreate ==
  ASSUME ProjectsInv, PS!Create \/ PS!CreateArrives \/ PS!Select
  PROVE  ProjectsInv'
<1> USE DEF ProjectsInv, PS!SpinnersAnswered, PS!CreatedNotReplaced
<1>1. CASE PS!Create
  <2>1. /\ net' = [net EXCEPT !.create = [answer |-> None]] /\ UNCHANGED <<view, past>>
        /\ view.load = "success" /\ server' = [server EXCEPT !.sent = @ + 1]
    BY <1>1 DEF PS!Create, PS!CreateOffered
  <2>2. /\ net' = [list |-> net'.list, create |-> net'.create] /\ net'.list = net.list
        /\ net'.create = [answer |-> None]
    BY <2>1
  <2>3. net'.create = [answer |-> net'.create.answer] /\ net'.create.answer = None
    BY <2>2
  <2>4. server' = [order |-> server'.order, sent |-> server'.sent] /\ server'.order = server.order
    BY <2>1
  <2> QED  BY <2>1, <2>2, <2>3, <2>4
<1>2. CASE PS!CreateArrives
  <2>1. /\ net' = [list |-> net'.list, create |-> net'.create] /\ net'.list = net.list
        /\ net'.create = None /\ UNCHANGED server /\ net.create # None /\ net.create.answer # None
    BY <1>2 DEF PS!CreateArrives
  <2>2. CASE net.create.answer = PS!Failure
    BY <1>2, <2>1, <2>2 DEF PS!CreateArrives
  <2>3. CASE net.create.answer # PS!Failure
    <3> DEFINE id == net.create.answer.id
               items == view.list.items \cup {[id |-> id]}
               shown == view.shown + PS!Cardinality(items) - PS!Cardinality(view.list.items)
    <3>1. /\ view' = [view EXCEPT !.list.items = items, !.selected = id, !.shown = shown]
          /\ past' = [past EXCEPT !.created = @ \cup {id}]
      BY <1>2, <2>3 DEF PS!CreateArrives
    <3>2. id \in PS!ToSet(server.order)
      BY <2>1, <2>3
    <3> HIDE DEF id, items, shown
    <3>3. /\ past'.created = past.created \cup {id}
          /\ past' = [created |-> past'.created, troubles |-> past'.troubles]
      BY <3>1
    <3>4. /\ view' = [load |-> view.load, list |-> [view.list EXCEPT !.items = items],
                      shown |-> shown, pagePending |-> view.pagePending,
                      pageError |-> view.pageError, selected |-> id]
      BY <3>1
    <3>5. /\ view'.load = view.load /\ view'.pagePending = view.pagePending
          /\ view'.list = [view.list EXCEPT !.items = items]
          /\ view'.shown = shown /\ view'.pageError = view.pageError /\ view'.selected = id
      BY <3>4
    <3>6. /\ view'.list = [items |-> view'.list.items, next |-> view'.list.next,
                           exhausted |-> view'.list.exhausted,
                           inconsistent |-> view'.list.inconsistent]
          /\ view'.list.next = view.list.next
      BY <3>5
    <3>7. ~(net.list # None /\ net.list.kind = "first")
      BY <2>1
    <3> QED  BY <2>1, <3>2, <3>3, <3>4, <3>5, <3>6, <3>7
  <2> QED  BY <2>2, <2>3
<1>3. CASE PS!Select
  <2>1. PICK id : view' = [view EXCEPT !.selected = id]
    BY <1>3 DEF PS!Select
  <2>2. UNCHANGED <<server, net, past>>
    BY <1>3 DEF PS!Select
  <2> QED  BY <2>1, <2>2
<1> QED  BY <1>1, <1>2, <1>3

LEMMA ProjectsStep ==
  ASSUME ProjectsInv, PS!Next
  PROVE  ProjectsInv'
BY ProjectsElsewhere, ProjectsServed, ProjectsFail, ProjectsRequest, ProjectsArrive, ProjectsCreate
  DEF PS!Next

LEMMA ProjectsInit ==
  ASSUME PS!Init
  PROVE  ProjectsInv
<1>1. server \in [order : UNION {PS!SetToSeqs(p) : p \in SUBSET Project}, sent : {0}]
  BY DEF PS!Init
<1>2. server.order \in Seq(Project)
  <2>1. PICK P \in SUBSET Project : server.order \in PS!SetToSeqs(P)
    BY <1>1
  <2>2. Cardinality(P) \in Nat
    BY SizesAssumption, FS_Subset, FS_CardinalityType
  <2>3. PS!Cardinality(P) = Cardinality(P)
    BY DEF PS!Cardinality, Cardinality
  <2>4. server.order \in [1..Cardinality(P) -> P]
    BY <2>1, <2>3 DEF PS!SetToSeqs
  <2> QED  BY <2>2, <2>4
<1>3. PS!List("first", 1) \in PS!ListRequest
  BY DEF PS!List, PS!ListRequest
<1>4. PS!List("first", 1) # None
  BY <1>3, NoneAssumption
<1>5. net = [list |-> PS!List("first", 1), create |-> None]
  BY DEF PS!Init
<1>6. /\ net = [list |-> net.list, create |-> net.create] /\ net.list = PS!List("first", 1)
      /\ net.create = None /\ net.list.kind = "first" /\ net.list.answer = None
  BY <1>5 DEF PS!List
<1>7. past = [created |-> {}, troubles |-> 0]
  BY DEF PS!Init
<1>8. /\ view = [load |-> "loading", list |-> PS!Nothing, shown |-> 0, pagePending |-> FALSE,
                 pageError |-> FALSE, selected |-> None]
  BY DEF PS!Init
<1>9. PS!Nothing = [items |-> PS!Nothing.items, next |-> PS!Nothing.next,
                    exhausted |-> PS!Nothing.exhausted, inconsistent |-> PS!Nothing.inconsistent]
      /\ PS!Nothing.next \in Nat
  BY DEF PS!Nothing
<1> QED
  BY <1>1, <1>2, <1>3, <1>4, <1>6, <1>7, <1>8, <1>9
    DEF ProjectsInv, PS!SpinnersAnswered, PS!CreatedNotReplaced

-----------------------------------------------------------------------------
(* AttachmentSection                                                       *)

\* A file's uploads all carry its key, and a key stands for one row.
FilesInv ==
  /\ server = [rows |-> server.rows, sent |-> server.sent, stored |-> server.stored]
  /\ server.stored \in 0..MaxRows
  /\ server.rows \in SUBSET [id : 1..server.stored, key : Nat, file : Nat, ok : BOOLEAN]
  /\ server.sent \in SUBSET [key : Nat \ {0}, file : Nat \ {0}]
  /\ \A r \in server.rows : r.key = r.file
  /\ \A u \in server.sent : u.key = u.file
  /\ \A r, q \in server.rows : r.key # 0 /\ r.key = q.key => r = q
  /\ past \in Nat
  /\ view.attempt # None =>
       /\ view.attempt \in AS!Attempt
       /\ view.attempt.file # 0 /\ view.attempt.key = view.attempt.file

\* What the section shows and what it waits for.
SectionView ==
  [list : {"loading", "success", "error"}, items : SUBSET [id : Nat, ok : BOOLEAN],
   cursor : 0..MaxRows, pagePending : BOOLEAN, pageError : BOOLEAN, attempt : AS!Attempt \cup {None},
   downloading : Nat, target : Nat, deletePending : BOOLEAN, blocked : SUBSET Nat]
SectionNet ==
  [list : AS!ListRequest \cup {None}, upload : AS!UploadRequest \cup {None},
   download : AS!RowRequest \cup {None}, delete : AS!RowRequest \cup {None}]

SectionInv ==
  /\ view \in SectionView /\ net \in SectionNet
  /\ AS!SpinnersAnswered
  /\ net.upload # None => AS!Uploading
  /\ view.deletePending => view.target # 0

\* Steps that change nothing of what FilesInv speaks of.
LEMMA FilesUntouched ==
  ASSUME FilesInv, UNCHANGED <<server, past>>, view'.attempt \in {view.attempt, None}
  PROVE  FilesInv'
BY DEF FilesInv

LEMMA FilesAttempt ==
  ASSUME FilesInv, UNCHANGED <<server, past>>, view.attempt # None,
         NEW status \in {"ready", "uploading", "canceled", "error"},
         view'.attempt = [view.attempt EXCEPT !.status = status]
  PROVE  FilesInv'
<1>1. /\ view'.attempt \in AS!Attempt
      /\ view'.attempt.file # 0 /\ view'.attempt.key = view'.attempt.file
  BY DEF FilesInv, AS!Attempt
<1> QED  BY <1>1 DEF FilesInv

LEMMA FilesDeleted ==
  ASSUME FilesInv, NEW id, NEW erased \in BOOLEAN, server' = AS!Deleted(id, erased),
         UNCHANGED <<view, past>>
  PROVE  FilesInv'
<1> USE DEF FilesInv
<1>1. CASE erased
  <2>1. server' = [server EXCEPT !.rows = {r \in @ : r.id # id}]
    BY <1>1 DEF AS!Deleted
  <2>2. server' = [rows |-> server'.rows, sent |-> server.sent, stored |-> server.stored]
        /\ server'.rows \subseteq server.rows
    BY <2>1
  <2> QED  BY <2>2
<1>2. CASE ~erased
  <2> DEFINE Failed(r) == IF r.id = id THEN [r EXCEPT !.ok = FALSE] ELSE r
  <2>1. server' = [server EXCEPT !.rows = {Failed(r) : r \in @}]
    BY <1>2 DEF AS!Deleted
  <2>2. /\ server' = [rows |-> server'.rows, sent |-> server.sent, stored |-> server.stored]
        /\ server'.rows = {Failed(r) : r \in server.rows}
    BY <2>1
  <2>3. ASSUME NEW r \in server.rows
        PROVE  /\ Failed(r) \in [id : 1..server.stored, key : Nat, file : Nat, ok : BOOLEAN]
               /\ Failed(r).key = r.key /\ Failed(r).file = r.file
    OBVIOUS
  <2> HIDE DEF Failed
  <2>4. server'.rows \in SUBSET [id : 1..server.stored, key : Nat, file : Nat, ok : BOOLEAN]
    BY <2>2, <2>3
  <2>5. \A x \in server'.rows : x.key = x.file
    BY <2>2, <2>3
  <2>6. ASSUME NEW x \in server'.rows, NEW y \in server'.rows, x.key # 0, x.key = y.key
        PROVE  x = y
    <3>1. PICK r \in server.rows : x = Failed(r)
      BY <2>2
    <3>2. PICK q \in server.rows : y = Failed(q)
      BY <2>2
    <3>3. r = q
      BY <2>3, <2>6, <3>1, <3>2
    <3> QED  BY <3>1, <3>2, <3>3
  <2> QED  BY <2>2, <2>4, <2>5, <2>6
<1> QED  BY <1>1, <1>2

LEMMA FilesStored ==
  ASSUME FilesInv, AS!ServeUpload
  PROVE  FilesInv'
<1> USE DEF FilesInv
<1>1. PICK u \in server.sent :
        /\ server.stored < MaxRows \/ \E r \in server.rows : r.key = u.key
        /\ server' = AS!Store(u)
  BY DEF AS!ServeUpload
<1>2. UNCHANGED <<view, past>>
  BY DEF AS!ServeUpload
<1>3. u.key \in Nat \ {0} /\ u.file = u.key
  OBVIOUS
<1>4. CASE \E r \in server.rows : r.key = u.key
  <2>1. server' = [server EXCEPT !.sent = @ \ {u}]
    BY <1>1, <1>4 DEF AS!Store
  <2>2. server' = [rows |-> server.rows, sent |-> server'.sent, stored |-> server.stored]
        /\ server'.sent \subseteq server.sent
    BY <2>1
  <2> QED  BY <1>2, <2>2
<1>5. CASE ~ \E r \in server.rows : r.key = u.key
  <2> DEFINE new == [id |-> server.stored + 1, key |-> u.key, file |-> u.file, ok |-> TRUE]
  <2>1. server' = [rows |-> server.rows \cup {new}, sent |-> server.sent \ {u},
                   stored |-> server.stored + 1]
    BY <1>1, <1>5 DEF AS!Store
  <2>2. server.stored + 1 \in 0..MaxRows /\ server.stored + 1 \in 1..(server.stored + 1)
    BY <1>1, <1>5, SizesAssumption
  <2>3. /\ new \in [id : 1..(server.stored + 1), key : Nat, file : Nat, ok : BOOLEAN]
        /\ new.key = new.file /\ new.key = u.key
    BY <1>3, <2>2
  <2> HIDE DEF new
  <2>4. \A r \in server.rows :
          r \in [id : 1..(server.stored + 1), key : Nat, file : Nat, ok : BOOLEAN]
    OBVIOUS
  <2>5. /\ server'.rows = server.rows \cup {new} /\ server'.sent = server.sent \ {u}
        /\ server'.stored = server.stored + 1
        /\ server' = [rows |-> server'.rows, sent |-> server'.sent, stored |-> server'.stored]
    BY <2>1
  <2>6. server'.rows \in SUBSET [id : 1..server'.stored, key : Nat, file : Nat, ok : BOOLEAN]
    BY <2>3, <2>4, <2>5
  <2>7. \A r, q \in server'.rows : r.key # 0 /\ r.key = q.key => r = q
    BY <1>5, <2>3, <2>5
  <2> QED  BY <1>2, <2>2, <2>3, <2>5, <2>6, <2>7
<1> QED  BY <1>4, <1>5

LEMMA FilesStep ==
  ASSUME FilesInv, SectionInv, AS!Next
  PROVE  FilesInv'
<1>1. CASE \/ AS!ServeList \/ AS!ServeDownload \/ AS!Fail \/ AS!Keep \/ AS!AskDelete
           \/ AS!StartDownload
  <2>1. UNCHANGED <<server, past>>
    BY <1>1 DEF AS!ServeList, AS!ServeDownload, AS!Fail, AS!Keep, AS!AskDelete, AS!StartDownload
  <2>2. view'.attempt = view.attempt
    BY <1>1 DEF AS!ServeList, AS!ServeDownload, AS!Fail, AS!Keep, AS!AskDelete, AS!StartDownload,
         SectionInv, SectionView
  <2> QED  BY <2>1, <2>2, FilesUntouched
<1>2. CASE AS!Retry \/ AS!LoadMore \/ AS!ConfirmDelete
  <2>1. UNCHANGED <<server, past>>
    BY <1>2 DEF AS!Retry, AS!LoadMore, AS!ConfirmDelete
  <2>2. view'.attempt = view.attempt
    BY <1>2 DEF AS!Retry, AS!LoadMore, AS!ConfirmDelete, AS!LoadInitial, AS!Loading, SectionInv,
         SectionView
  <2> QED  BY <2>1, <2>2, FilesUntouched
<1>3. CASE AS!ListArrives \/ AS!DownloadArrives
  <2>1. UNCHANGED <<server, past>>
    BY <1>3 DEF AS!ListArrives, AS!DownloadArrives
  <2>2. view'.attempt = view.attempt
    BY <1>3 DEF AS!ListArrives, AS!DownloadArrives, AS!LoadInitial, AS!Loading, SectionInv,
         SectionView
  <2> QED  BY <2>1, <2>2, FilesUntouched
<1>4. CASE AS!DeleteArrives
  <2>1. UNCHANGED <<server, past>>
    BY <1>4 DEF AS!DeleteArrives
  <2>2. net.delete.answer \in {AS!Done, AS!Gone, AS!Failure}
    BY <1>4 DEF AS!DeleteArrives, SectionInv, SectionNet, AS!RowRequest
  <2>3. view'.attempt = view.attempt
    BY <1>4, <2>2 DEF AS!DeleteArrives, AS!LoadInitial, AS!Loading, SectionInv, SectionView,
         AS!Done, AS!Gone,
         AS!Failure
  <2> QED  BY <2>1, <2>3, FilesUntouched
<1>5. CASE AS!ServeDelete
  <2>1. \/ server' = server
        \/ \E erased \in BOOLEAN : server' = AS!Deleted(net.delete.id, erased)
    BY <1>5 DEF AS!ServeDelete
  <2>2. UNCHANGED <<view, past>>
    BY <1>5 DEF AS!ServeDelete
  <2> QED  BY <2>1, <2>2, FilesUntouched, FilesDeleted
<1>6. CASE AS!Elsewhere
  BY <1>6, FilesDeleted DEF AS!Elsewhere
<1>7. CASE AS!SelectFile
  <2>1. UNCHANGED server
    BY <1>7 DEF AS!SelectFile
  <2>2. CASE past' = past + 1
             /\ view' = [view EXCEPT !.attempt = [file |-> past', key |-> past', status |-> "ready"]]
    <3> DEFINE new == [file |-> past', key |-> past', status |-> "ready"]
    <3>1. past' \in Nat \ {0}
      BY <2>2 DEF FilesInv
    <3>2. new \in AS!Attempt /\ new.file # 0 /\ new.key = new.file
      BY <3>1 DEF AS!Attempt
    <3>3. view'.attempt = new
      BY <2>2 DEF SectionInv, SectionView
    <3> QED  BY <2>1, <3>1, <3>2, <3>3 DEF FilesInv
  <2>3. CASE view' = [view EXCEPT !.attempt = None] /\ UNCHANGED past
    <3>1. view'.attempt = None
      BY <2>3 DEF SectionInv, SectionView
    <3> QED  BY <2>1, <2>3, <3>1, FilesUntouched
  <2> QED  BY <1>7, <2>2, <2>3 DEF AS!SelectFile
<1>8. CASE AS!StartUpload
  <2> DEFINE sent == [file |-> view.attempt.file, key |-> view.attempt.key]
  <2>1. view.attempt \in AS!Attempt /\ view.attempt.file # 0
        /\ view.attempt.key = view.attempt.file
    BY <1>8 DEF AS!StartUpload, FilesInv
  <2>2. sent \in [key : Nat \ {0}, file : Nat \ {0}] /\ sent.key = sent.file
    BY <2>1 DEF AS!Attempt
  <2>3. server' = [server EXCEPT !.sent = @ \cup {sent}] /\ UNCHANGED past
    BY <1>8 DEF AS!StartUpload
  <2> HIDE DEF sent
  <2>4. view'.attempt = [view.attempt EXCEPT !.status = "uploading"]
    BY <1>8 DEF AS!StartUpload, SectionInv, SectionView
  <2>5. /\ view'.attempt \in AS!Attempt
        /\ view'.attempt.file # 0 /\ view'.attempt.key = view'.attempt.file
    BY <2>1, <2>4 DEF AS!Attempt
  <2>6. server' = [rows |-> server.rows, sent |-> server.sent \cup {sent},
                   stored |-> server.stored]
    BY <2>3 DEF FilesInv
  <2>7. /\ server'.rows = server.rows /\ server'.stored = server.stored
        /\ server'.sent = server.sent \cup {sent}
        /\ server' = [rows |-> server'.rows, sent |-> server'.sent, stored |-> server'.stored]
    BY <2>6
  <2> QED  BY <2>2, <2>3, <2>5, <2>7 DEF FilesInv
<1>9. CASE AS!CancelUpload \/ AS!UploadArrives
  <2>1. UNCHANGED <<server, past>> /\ view.attempt # None
    BY <1>9 DEF AS!CancelUpload, AS!UploadArrives, SectionInv, AS!Uploading
  <2>2. \/ view'.attempt = None
        \/ \E status \in {"canceled", "error"} :
             view'.attempt = [view.attempt EXCEPT !.status = status]
    BY <1>9 DEF AS!CancelUpload, AS!UploadArrives, AS!LoadInitial, AS!Loading, SectionInv,
         SectionView
  <2> QED  BY <2>1, <2>2, FilesUntouched, FilesAttempt
<1>10. CASE AS!ServeUpload
  BY <1>10, FilesStored
<1>11. CASE AS!Reopen
  <2>1. UNCHANGED <<server, past>> /\ view' = AS!NewView
    BY <1>11 DEF AS!Reopen
  <2>2. view'.attempt = None
    BY <2>1 DEF AS!NewView
  <2> QED  BY <2>1, <2>2, FilesUntouched
<1> QED
  BY <1>1, <1>2, <1>3, <1>4, <1>5, <1>6, <1>7, <1>8, <1>9, <1>10, <1>11
    DEF AS!Next, AS!Serve, AS!Arrive

LEMMA SectionPage ==
  ASSUME FilesInv, NEW below \in Nat
  PROVE  AS!Page(below) \in AS!Listing
<1> DEFINE older == {r \in server.rows : r.id < below}
           page == {r \in older : AS!Cardinality({q \in older : q.id > r.id}) < Limit}
<1>1. AS!Page(below) = [items |-> {AS!Public(r) : r \in page}, next |-> AS!Cursor(older, page),
                        failed |-> FALSE]
  BY DEF AS!Page
<1>2. older \subseteq server.rows /\ page \subseteq older
  OBVIOUS
<1>3. \A r \in server.rows : r.id \in 1..MaxRows /\ r.id \in Nat /\ r.ok \in BOOLEAN
  BY SizesAssumption DEF FilesInv
<1>4. older # {} => page # {}
  <2> SUFFICES ASSUME older # {}  PROVE page # {}
    OBVIOUS
  <2>1. AS!Ids(older) \in SUBSET (0..MaxRows) /\ AS!Ids(older) # {}
    BY <1>2, <1>3, SizesAssumption DEF AS!Ids
  <2>2. PICK x \in AS!Ids(older) : \A y \in AS!Ids(older) : x >= y
    BY <2>1, MaxExists, SizesAssumption
  <2>3. PICK r \in older : r.id = x
    BY DEF AS!Ids
  <2>4. {q \in older : q.id > r.id} = {}
    <3>1. ASSUME NEW q \in older, q.id > r.id  PROVE FALSE
      <4>1. q.id \in AS!Ids(older)
        BY DEF AS!Ids
      <4>2. x >= q.id /\ q.id \in Nat /\ r.id \in Nat
        BY <4>1, <2>2, <1>2, <1>3
      <4> QED  BY <4>2, <3>1, <2>3
    <3> QED  BY <3>1
  <2>5. AS!Cardinality({}) = 0
    BY FS_EmptySet DEF AS!Cardinality, Cardinality
  <2>6. AS!Cardinality({q \in older : q.id > r.id}) < Limit
    <3>1. 0 < Limit
      BY SizesAssumption
    <3> QED  BY <2>4, <2>5, <3>1
  <2> QED  BY <2>6
<1> HIDE DEF older, page
<1>5. AS!Cursor(older, page) \in 0..MaxRows
  <2>1. CASE page = older
    BY <2>1, SizesAssumption DEF AS!Cursor
  <2>2. CASE page # older
    <3>1. AS!Ids(page) \in SUBSET Nat /\ AS!Ids(page) # {} /\ AS!Ids(page) \subseteq 1..MaxRows
      BY <1>2, <1>3, <1>4, <2>2 DEF AS!Ids
    <3>2. \E m \in AS!Ids(page) : \A y \in AS!Ids(page) : m <= y
      BY <3>1, MinExists
    <3>3. AS!Min(AS!Ids(page)) \in AS!Ids(page)
      BY <3>2 DEF AS!Min
    <3>4. AS!Cursor(older, page) \in 1..MaxRows
      BY <2>2, <3>1, <3>3 DEF AS!Cursor
    <3> QED  BY <3>4, SizesAssumption
  <2> QED  BY <2>1, <2>2
<1>6. {AS!Public(r) : r \in page} \in SUBSET [id : Nat, ok : BOOLEAN]
  BY <1>2, <1>3 DEF AS!Public
<1> QED  BY <1>1, <1>5, <1>6 DEF AS!Listing

\* Requests that are sent, and answered.
LEMMA SectionRequests ==
  /\ \A below \in Nat, awaited \in BOOLEAN :
       /\ AS!List(below, awaited) \in AS!ListRequest /\ AS!List(below, awaited) # None
       /\ AS!List(below, awaited).below = below
  /\ \A n \in Nat : /\ [key |-> n, answer |-> None] \in AS!UploadRequest
                    /\ [key |-> n, answer |-> None] # None
                    /\ [id |-> n, answer |-> None] \in AS!RowRequest
                    /\ [id |-> n, answer |-> None] # None
  /\ \A r \in AS!ListRequest, a \in AS!Listing \cup {AS!Failure} :
       /\ [r EXCEPT !.answer = a] \in AS!ListRequest /\ [r EXCEPT !.answer = a] # None
       /\ [r EXCEPT !.answer = a].below = r.below
  /\ \A r \in AS!UploadRequest, a \in {AS!Done, AS!Failure} :
       [r EXCEPT !.answer = a] \in AS!UploadRequest /\ [r EXCEPT !.answer = a] # None
  /\ \A r \in AS!RowRequest, a \in {AS!Done, AS!Gone, AS!Failure} :
       /\ [r EXCEPT !.answer = a] \in AS!RowRequest /\ [r EXCEPT !.answer = a] # None
       /\ [r EXCEPT !.answer = a].id = r.id
<1>1. ASSUME NEW below \in Nat, NEW awaited \in BOOLEAN
      PROVE  /\ AS!List(below, awaited) \in AS!ListRequest
             /\ AS!List(below, awaited).below = below
  BY DEF AS!List, AS!ListRequest
<1>2. ASSUME NEW n \in Nat
      PROVE  /\ [key |-> n, answer |-> None] \in AS!UploadRequest
             /\ [id |-> n, answer |-> None] \in AS!RowRequest
  BY DEF AS!UploadRequest, AS!RowRequest
<1>3. ASSUME NEW r \in AS!ListRequest, NEW a \in AS!Listing \cup {AS!Failure}
      PROVE  [r EXCEPT !.answer = a] \in AS!ListRequest /\ [r EXCEPT !.answer = a].below = r.below
  BY DEF AS!ListRequest
<1>4. ASSUME NEW r \in AS!UploadRequest, NEW a \in {AS!Done, AS!Failure}
      PROVE  [r EXCEPT !.answer = a] \in AS!UploadRequest
  BY DEF AS!UploadRequest
<1>5. ASSUME NEW r \in AS!RowRequest, NEW a \in {AS!Done, AS!Gone, AS!Failure}
      PROVE  [r EXCEPT !.answer = a] \in AS!RowRequest /\ [r EXCEPT !.answer = a].id = r.id
  BY DEF AS!RowRequest
<1>6. None \notin AS!ListRequest /\ None \notin AS!UploadRequest /\ None \notin AS!RowRequest
  BY NoneAssumption
<1> QED  BY <1>1, <1>2, <1>3, <1>4, <1>5, <1>6

\* An answer to a request of the section leaves it waiting for what it waited for.
LEMMA SectionAnswered ==
  ASSUME SectionInv, view' = view, net' \in SectionNet,
         net'.list = None <=> net.list = None, net.list # None => net'.list.below = net.list.below,
         net'.upload = None <=> net.upload = None,
         net'.download = None <=> net.download = None,
         net'.delete = None <=> net.delete = None, net.delete # None => net'.delete.id = net.delete.id
  PROVE  SectionInv'
<1>1. AS!Uploading' <=> AS!Uploading
  BY DEF AS!Uploading
<1>2. AS!SpinnersAnswered'
  BY <1>1 DEF AS!SpinnersAnswered, SectionInv
<1> QED  BY <1>1, <1>2 DEF SectionInv

LEMMA SectionServed ==
  ASSUME FilesInv, SectionInv, AS!Serve \/ AS!Elsewhere \/ AS!Fail
  PROVE  SectionInv'
<1>0. view' = view
  BY DEF AS!Serve, AS!ServeList, AS!ServeUpload, AS!ServeDelete, AS!ServeDownload, AS!Elsewhere,
         AS!Fail
<1>a. net \in SectionNet
  BY DEF SectionInv
<1>1. CASE UNCHANGED net
  BY <1>0, <1>1, <1>a, SectionAnswered
<1>2. CASE \E a \in AS!Listing \cup {AS!Failure} :
             net.list # None /\ net' = [net EXCEPT !.list.answer = a]
  <2>1. PICK a \in AS!Listing \cup {AS!Failure} :
          net.list # None /\ net' = [net EXCEPT !.list = [net.list EXCEPT !.answer = a]]
    BY <1>2
  <2> DEFINE r == [net.list EXCEPT !.answer = a]
  <2>2. net.list \in AS!ListRequest
    BY <1>a, <2>1 DEF SectionNet
  <2>3. r \in AS!ListRequest /\ r # None /\ r.below = net.list.below
    BY <2>2, SectionRequests
  <2> HIDE DEF r
  <2>4. net' = [net EXCEPT !.list = r]
    BY <2>1 DEF r
  <2>5. /\ net' \in SectionNet /\ net'.list = r /\ net'.upload = net.upload
        /\ net'.download = net.download /\ net'.delete = net.delete
    BY <1>a, <2>3, <2>4 DEF SectionNet
  <2> QED  BY <1>0, <2>1, <2>3, <2>5, SectionAnswered
<1>3. CASE \E a \in {AS!Done, AS!Failure} :
             net.upload # None /\ net' = [net EXCEPT !.upload.answer = a]
  <2>1. PICK a \in {AS!Done, AS!Failure} :
          net.upload # None /\ net' = [net EXCEPT !.upload = [net.upload EXCEPT !.answer = a]]
    BY <1>3
  <2> DEFINE r == [net.upload EXCEPT !.answer = a]
  <2>2. net.upload \in AS!UploadRequest
    BY <1>a, <2>1 DEF SectionNet
  <2>3. r \in AS!UploadRequest /\ r # None
    BY <2>2, SectionRequests
  <2>4. net' = [net EXCEPT !.upload = r]
    BY <2>1
  <2> HIDE DEF r
  <2>5. /\ net' \in SectionNet /\ net'.list = net.list /\ net'.upload = r
        /\ net'.download = net.download /\ net'.delete = net.delete
    BY <1>a, <2>3, <2>4 DEF SectionNet
  <2> QED  BY <1>0, <2>1, <2>3, <2>5, SectionAnswered
<1>4. CASE \E a \in {AS!Done, AS!Gone, AS!Failure} :
             net.download # None /\ net' = [net EXCEPT !.download.answer = a]
  <2>1. PICK a \in {AS!Done, AS!Gone, AS!Failure} :
          net.download # None /\ net' = [net EXCEPT !.download = [net.download EXCEPT !.answer = a]]
    BY <1>4
  <2> DEFINE r == [net.download EXCEPT !.answer = a]
  <2>2. net.download \in AS!RowRequest
    BY <1>a, <2>1 DEF SectionNet
  <2>3. r \in AS!RowRequest /\ r # None
    BY <2>2, SectionRequests
  <2>4. net' = [net EXCEPT !.download = r]
    BY <2>1
  <2> HIDE DEF r
  <2>5. /\ net' \in SectionNet /\ net'.list = net.list /\ net'.upload = net.upload
        /\ net'.download = r /\ net'.delete = net.delete
    BY <1>a, <2>3, <2>4 DEF SectionNet
  <2> QED  BY <1>0, <2>1, <2>3, <2>5, SectionAnswered
<1>5. CASE \E a \in {AS!Done, AS!Gone, AS!Failure} :
             net.delete # None /\ net' = [net EXCEPT !.delete.answer = a]
  <2>1. PICK a \in {AS!Done, AS!Gone, AS!Failure} :
          net.delete # None /\ net' = [net EXCEPT !.delete = [net.delete EXCEPT !.answer = a]]
    BY <1>5
  <2> DEFINE r == [net.delete EXCEPT !.answer = a]
  <2>2. net.delete \in AS!RowRequest
    BY <1>a, <2>1 DEF SectionNet
  <2>3. r \in AS!RowRequest /\ r # None /\ r.id = net.delete.id
    BY <2>2, SectionRequests
  <2>4. net' = [net EXCEPT !.delete = r]
    BY <2>1
  <2> HIDE DEF r
  <2>5. /\ net' \in SectionNet /\ net'.list = net.list /\ net'.upload = net.upload
        /\ net'.download = net.download /\ net'.delete = r
    BY <1>a, <2>3, <2>4 DEF SectionNet
  <2> QED  BY <1>0, <2>1, <2>3, <2>5, SectionAnswered
<1>6. CASE AS!ServeList
  <2>1. net.list # None /\ net.list.below \in Nat
    BY <1>6, <1>a DEF AS!ServeList, AS!ListRequest, SectionNet
  <2>2. AS!Page(net.list.below) \in AS!Listing
    BY <2>1, SectionPage
  <2> QED  BY <1>2, <1>6, <2>2 DEF AS!ServeList
<1>7. CASE AS!ServeUpload
  <2>1. \/ UNCHANGED net
        \/ net.upload # None /\ net' = [net EXCEPT !.upload.answer = AS!Done]
    BY <1>7 DEF AS!ServeUpload
  <2> QED  BY <1>1, <1>3, <2>1
<1>8. CASE AS!ServeDelete
  <2>1. net.delete # None /\ \E a \in {AS!Done, AS!Gone, AS!Failure} :
          net' = [net EXCEPT !.delete.answer = a]
    BY <1>8 DEF AS!ServeDelete
  <2> QED  BY <1>5, <2>1
<1>9. CASE AS!ServeDownload
  <2>1. net.download # None /\ \E a \in {AS!Done, AS!Gone, AS!Failure} :
          net' = [net EXCEPT !.download.answer = a]
    BY <1>9 DEF AS!ServeDownload
  <2> QED  BY <1>4, <2>1
<1>10. CASE AS!Elsewhere
  BY <1>1, <1>10 DEF AS!Elsewhere
<1>11. CASE AS!Fail
  <2>1. PICK w \in {"list", "upload", "download", "delete"} :
          net[w] # None /\ net' = [net EXCEPT ![w].answer = AS!Failure]
    BY <1>11 DEF AS!Fail
  <2>2. CASE w = "list"
    BY <1>2, <2>1, <2>2
  <2>3. CASE w = "upload"
    BY <1>3, <2>1, <2>3
  <2>4. CASE w = "download"
    BY <1>4, <2>1, <2>4
  <2>5. CASE w = "delete"
    BY <1>5, <2>1, <2>5
  <2> QED  BY <2>1, <2>2, <2>3, <2>4, <2>5
<1> QED  BY <1>6, <1>7, <1>8, <1>9, <1>10, <1>11 DEF AS!Serve

\* The commands that a component that shows v waits for, and the list.
SectionCommands(v, n) ==
  /\ (v.attempt # None /\ v.attempt.status = "uploading") <=> n.upload # None
  /\ v.downloading # 0 => n.download # None
  /\ v.deletePending => n.delete # None /\ v.target = n.delete.id /\ v.target # 0
SectionList(v, n) ==
  /\ v.list = "loading" => n.list # None /\ n.list.below = AS!Top
  /\ v.pagePending => n.list # None /\ n.list.below # AS!Top

LEMMA SectionParts ==
  SectionInv <=> /\ view \in SectionView /\ net \in SectionNet
                 /\ SectionCommands(view, net) /\ SectionList(view, net)
BY DEF SectionInv, SectionCommands, SectionList, AS!SpinnersAnswered, AS!Uploading

LEMMA SectionPartsNext ==
  ASSUME view' \in SectionView, net' \in SectionNet,
         SectionCommands(view', net'), SectionList(view', net')
  PROVE  SectionInv'
BY DEF SectionInv, SectionCommands, SectionList, AS!SpinnersAnswered, AS!Uploading

LEMMA SectionLoads ==
  ASSUME NEW v \in SectionView, NEW n \in SectionNet, NEW awaited \in BOOLEAN,
         SectionCommands(v, n), AS!LoadInitial(v, n, awaited)
  PROVE  SectionInv'
<1> DEFINE r == AS!List(AS!Top, awaited)
<1>1. AS!Top \in Nat
  BY SizesAssumption DEF AS!Top
<1>2. r \in AS!ListRequest /\ r # None /\ r.below = AS!Top
  BY <1>1, SectionRequests
<1>3. net' = [n EXCEPT !.list = r]
  BY DEF AS!LoadInitial
<1> HIDE DEF r
<1>4. view' = [v EXCEPT !.list = "loading", !.pageError = FALSE, !.pagePending = FALSE]
  BY DEF AS!LoadInitial, AS!Loading
<1>5. /\ net' \in SectionNet /\ net'.list = r /\ net'.upload = n.upload
      /\ net'.download = n.download /\ net'.delete = n.delete
  BY <1>2, <1>3 DEF SectionNet
<1>6. /\ view' \in SectionView /\ view'.attempt = v.attempt /\ view'.downloading = v.downloading
      /\ view'.target = v.target /\ view'.deletePending = v.deletePending /\ ~view'.pagePending
  BY <1>4 DEF SectionView
<1>7. SectionCommands(view', net')
  BY <1>5, <1>6 DEF SectionCommands
<1>8. SectionList(view', net')
  BY <1>2, <1>5, <1>6 DEF SectionList
<1> QED  BY <1>5, <1>6, <1>7, <1>8, SectionPartsNext

LEMMA SectionLists ==
  ASSUME FilesInv, SectionInv, AS!Retry \/ AS!LoadMore \/ AS!ListArrives \/ AS!Reopen
  PROVE  SectionInv'
<1>0. /\ view \in SectionView /\ net \in SectionNet
      /\ SectionCommands(view, net) /\ SectionList(view, net)
  BY SectionParts
<1>1. CASE AS!Retry
  <2>1. AS!LoadInitial(view, net, FALSE)
    BY <1>1 DEF AS!Retry
  <2> QED  BY <1>0, <2>1, SectionLoads
<1>2. CASE AS!LoadMore
  <2> DEFINE r == AS!List(view.cursor, FALSE)
  <2>1. view.list = "success" /\ view.cursor \in Nat /\ view.cursor # AS!Top
    BY <1>0, <1>2, SizesAssumption DEF AS!LoadMore, AS!MoreOffered, SectionView, AS!Top
  <2>2. r \in AS!ListRequest /\ r # None /\ r.below # AS!Top
    BY <2>1, SectionRequests
  <2>3. net' = [net EXCEPT !.list = r]
    BY <1>2 DEF AS!LoadMore
  <2> HIDE DEF r
  <2>4. view' = [view EXCEPT !.pagePending = TRUE, !.pageError = FALSE]
    BY <1>2 DEF AS!LoadMore
  <2>5. /\ net' \in SectionNet /\ net'.list = r /\ net'.upload = net.upload
        /\ net'.download = net.download /\ net'.delete = net.delete
    BY <1>0, <2>2, <2>3 DEF SectionNet
  <2>6. /\ view' \in SectionView /\ view'.attempt = view.attempt
        /\ view'.downloading = view.downloading /\ view'.target = view.target
        /\ view'.deletePending = view.deletePending /\ view'.list = view.list
    BY <1>0, <2>4 DEF SectionView
  <2>7. SectionCommands(view', net')
    BY <1>0, <2>5, <2>6 DEF SectionCommands
  <2>8. SectionList(view', net')
    BY <2>1, <2>2, <2>5, <2>6 DEF SectionList
  <2> QED  BY <2>5, <2>6, <2>7, <2>8, SectionPartsNext
<1>3. CASE AS!ListArrives
  <2> DEFINE append == net.list.below # AS!Top
             items == AS!Reconciled(net.list.answer, append)
  <2>1. /\ net.list \in AS!ListRequest /\ net.list # None /\ net.list.answer # None
        /\ net' = [net EXCEPT !.list = None]
    BY <1>0, <1>3 DEF AS!ListArrives, SectionNet
  <2>2. /\ net' \in SectionNet /\ net'.list = None /\ net'.upload = net.upload
        /\ net'.download = net.download /\ net'.delete = net.delete
    BY <1>0, <2>1 DEF SectionNet
  <2>3. view.list = "loading" => ~append
    BY <1>0 DEF SectionList
  <2>4. view.pagePending => append
    BY <1>0 DEF SectionList
  <2>5. CASE net.list.answer = AS!Failure
    <3>1. CASE append
      <4>1. view' = [view EXCEPT !.pageError = TRUE, !.pagePending = FALSE]
        BY <1>3, <2>5, <3>1 DEF AS!ListArrives
      <4>2. /\ view' \in SectionView /\ view'.attempt = view.attempt
            /\ view'.downloading = view.downloading /\ view'.target = view.target
            /\ view'.deletePending = view.deletePending /\ view'.list = view.list
            /\ ~view'.pagePending
        BY <1>0, <4>1 DEF SectionView
      <4>3. SectionCommands(view', net') /\ SectionList(view', net')
        BY <1>0, <2>2, <2>3, <3>1, <4>2 DEF SectionCommands, SectionList
      <4> QED  BY <2>2, <4>2, <4>3, SectionPartsNext
    <3>2. CASE ~append
      <4>1. view' = [view EXCEPT !.list = "error"]
        BY <1>3, <2>5, <3>2 DEF AS!ListArrives
      <4>2. /\ view' \in SectionView /\ view'.attempt = view.attempt
            /\ view'.downloading = view.downloading /\ view'.target = view.target
            /\ view'.deletePending = view.deletePending /\ view'.list = "error"
            /\ view'.pagePending = view.pagePending
        BY <1>0, <4>1 DEF SectionView
      <4>3. SectionCommands(view', net') /\ SectionList(view', net')
        BY <1>0, <2>2, <2>4, <3>2, <4>2 DEF SectionCommands, SectionList
      <4> QED  BY <2>2, <4>2, <4>3, SectionPartsNext
    <3> QED  BY <3>1, <3>2
  <2>6. CASE net.list.answer # AS!Failure
    <3>1. net.list.answer \in AS!Listing
      BY <2>1, <2>6 DEF AS!ListRequest
    <3>2. /\ net.list.answer.items \in SUBSET [id : Nat, ok : BOOLEAN]
          /\ net.list.answer.next \in 0..MaxRows
      BY <3>1 DEF AS!Listing
    <3>3. view.items \in SUBSET [id : Nat, ok : BOOLEAN]
      BY <1>0 DEF SectionView
    <3>4. items \in SUBSET [id : Nat, ok : BOOLEAN]
      BY <3>2, <3>3 DEF AS!Reconciled
    <3>5. view' = [view EXCEPT !.items = items, !.list = "success",
                               !.cursor = net.list.answer.next, !.pagePending = FALSE]
      BY <1>3, <2>6 DEF AS!ListArrives
    <3> HIDE DEF items
    <3>6. /\ view' \in SectionView /\ view'.attempt = view.attempt
          /\ view'.downloading = view.downloading /\ view'.target = view.target
          /\ view'.deletePending = view.deletePending /\ view'.list = "success"
          /\ ~view'.pagePending
      BY <1>0, <3>2, <3>4, <3>5 DEF SectionView
    <3>7. SectionCommands(view', net') /\ SectionList(view', net')
      BY <1>0, <2>2, <3>6 DEF SectionCommands, SectionList
    <3> QED  BY <2>2, <3>6, <3>7, SectionPartsNext
  <2> QED  BY <2>5, <2>6
<1>4. CASE AS!Reopen
  <2>1. AS!Top \in Nat
    BY SizesAssumption DEF AS!Top
  <2>2. AS!List(AS!Top, FALSE) \in AS!ListRequest /\ AS!List(AS!Top, FALSE) # None
        /\ AS!List(AS!Top, FALSE).below = AS!Top
    BY <2>1, SectionRequests
  <2>3. AS!NewNet \in SectionNet
    BY <2>2 DEF AS!NewNet, SectionNet
  <2>4. AS!NewView \in SectionView
    BY SizesAssumption DEF AS!NewView, SectionView
  <2>5. SectionCommands(AS!NewView, AS!NewNet) /\ SectionList(AS!NewView, AS!NewNet)
    BY <2>2 DEF SectionCommands, SectionList, AS!NewNet, AS!NewView
  <2>6. view' = AS!NewView /\ net' = AS!NewNet
    BY <1>4 DEF AS!Reopen
  <2> QED  BY <2>3, <2>4, <2>5, <2>6, SectionPartsNext
<1> QED  BY <1>1, <1>2, <1>3, <1>4

LEMMA SectionUploads ==
  ASSUME FilesInv, SectionInv,
         AS!SelectFile \/ AS!StartUpload \/ AS!CancelUpload \/ AS!UploadArrives
  PROVE  SectionInv'
<1>0. /\ view \in SectionView /\ net \in SectionNet
      /\ SectionCommands(view, net) /\ SectionList(view, net)
  BY SectionParts
<1>1. ASSUME NEW attempt \in AS!Attempt \cup {None}, view' = [view EXCEPT !.attempt = attempt]
      PROVE  /\ view' \in SectionView /\ view'.attempt = attempt
             /\ view'.downloading = view.downloading /\ view'.target = view.target
             /\ view'.deletePending = view.deletePending /\ view'.list = view.list
             /\ view'.pagePending = view.pagePending
  BY <1>0, <1>1 DEF SectionView
<1>2. ASSUME view.attempt # None, NEW status \in {"uploading", "canceled", "error"}
      PROVE  /\ [view.attempt EXCEPT !.status = status] \in AS!Attempt
             /\ [view.attempt EXCEPT !.status = status] # None
             /\ [view.attempt EXCEPT !.status = status].status = status
  <2>1. view.attempt \in AS!Attempt
    BY <1>0, <1>2 DEF SectionView
  <2>2. /\ [view.attempt EXCEPT !.status = status] \in AS!Attempt
        /\ [view.attempt EXCEPT !.status = status].status = status
    BY <2>1 DEF AS!Attempt
  <2> QED  BY <2>2, NoneAssumption
<1>3. CASE AS!SelectFile
  <2>1. net' = net /\ net.upload = None
    BY <1>0, <1>3 DEF AS!SelectFile, AS!FileOffered, AS!Uploading, SectionCommands
  <2>2. PICK attempt \in AS!Attempt \cup {None} :
          /\ view' = [view EXCEPT !.attempt = attempt]
          /\ attempt # None => attempt.status = "ready"
    <3>1. CASE past' = past + 1
               /\ view' = [view EXCEPT !.attempt = [file |-> past', key |-> past', status |-> "ready"]]
      <4>1. past' \in Nat
        BY <3>1 DEF FilesInv
      <4>2. /\ [file |-> past', key |-> past', status |-> "ready"] \in AS!Attempt
            /\ [file |-> past', key |-> past', status |-> "ready"].status = "ready"
        BY <4>1 DEF AS!Attempt
      <4> QED  BY <3>1, <4>2
    <3>2. CASE view' = [view EXCEPT !.attempt = None]
      BY <3>2
    <3> QED  BY <1>3, <3>1, <3>2 DEF AS!SelectFile
  <2>3. SectionCommands(view', net') /\ SectionList(view', net')
    BY <1>0, <1>1, <2>1, <2>2 DEF SectionCommands, SectionList
  <2> QED  BY <1>0, <1>1, <2>1, <2>2, <2>3, SectionPartsNext
<1>4. CASE AS!StartUpload
  <2> DEFINE attempt == [view.attempt EXCEPT !.status = "uploading"]
             r == [key |-> view.attempt.key, answer |-> None]
  <2>1. view.attempt # None /\ view' = [view EXCEPT !.attempt = attempt]
        /\ net' = [net EXCEPT !.upload = r]
    BY <1>4 DEF AS!StartUpload
  <2>2. view.attempt.key \in Nat
    BY <1>0, <2>1 DEF SectionView, AS!Attempt
  <2>3. r \in AS!UploadRequest /\ r # None
    BY <2>2, SectionRequests
  <2>4. attempt \in AS!Attempt /\ attempt # None /\ attempt.status = "uploading"
    BY <1>2, <2>1
  <2> HIDE DEF attempt, r
  <2>5. /\ net' \in SectionNet /\ net'.list = net.list /\ net'.upload = r
        /\ net'.download = net.download /\ net'.delete = net.delete
    BY <1>0, <2>1, <2>3 DEF SectionNet
  <2>6. SectionCommands(view', net') /\ SectionList(view', net')
    BY <1>0, <1>1, <2>1, <2>3, <2>4, <2>5 DEF SectionCommands, SectionList
  <2> QED  BY <1>1, <2>1, <2>4, <2>5, <2>6, SectionPartsNext
<1>5. CASE AS!CancelUpload \/ AS!UploadArrives
  <2> DEFINE n == [net EXCEPT !.upload = None]
  <2>1. net.upload # None
    BY <1>5 DEF AS!CancelUpload, AS!UploadArrives
  <2>2. view.attempt # None
    BY <1>0, <2>1 DEF SectionCommands
  <2>3. /\ n \in SectionNet /\ n.list = net.list /\ n.upload = None
        /\ n.download = net.download /\ n.delete = net.delete
    BY <1>0 DEF SectionNet
  <2>4. PICK attempt \in AS!Attempt \cup {None} :
          /\ attempt # None => attempt.status # "uploading"
          /\ LET v == [view EXCEPT !.attempt = attempt] IN
             \/ \E awaited \in BOOLEAN : AS!LoadInitial(v, n, awaited)
             \/ view' = v /\ net' = n
    <3>1. CASE AS!CancelUpload
      <4>1. AS!LoadInitial([view EXCEPT !.attempt = [view.attempt EXCEPT !.status = "canceled"]],
                           n, FALSE)
        BY <3>1 DEF AS!CancelUpload
      <4> QED  BY <1>2, <2>2, <4>1
    <3>2. CASE AS!UploadArrives /\ net.upload.answer = AS!Failure
      <4>1. /\ view' = [view EXCEPT !.attempt = [view.attempt EXCEPT !.status = "error"]]
            /\ net' = n
        BY <3>2 DEF AS!UploadArrives
      <4> QED  BY <1>2, <2>2, <4>1
    <3>3. CASE AS!UploadArrives /\ net.upload.answer # AS!Failure
      <4>1. AS!LoadInitial([view EXCEPT !.attempt = None], n, TRUE)
        BY <3>3 DEF AS!UploadArrives
      <4> QED  BY <4>1
    <3> QED  BY <1>5, <3>1, <3>2, <3>3
  <2> DEFINE v == [view EXCEPT !.attempt = attempt]
  <2>5. /\ v \in SectionView /\ v.attempt = attempt
        /\ v.downloading = view.downloading /\ v.target = view.target
        /\ v.deletePending = view.deletePending /\ v.list = view.list
        /\ v.pagePending = view.pagePending
    BY <1>0 DEF SectionView
  <2>6. (\E awaited \in BOOLEAN : AS!LoadInitial(v, n, awaited)) \/ (view' = v /\ net' = n)
    BY <2>4
  <2> HIDE DEF v, n
  <2>7. SectionCommands(v, n) /\ SectionList(v, n)
    BY <1>0, <2>3, <2>4, <2>5 DEF SectionCommands, SectionList
  <2> QED  BY <2>3, <2>5, <2>6, <2>7, SectionLoads, SectionPartsNext
<1> QED  BY <1>3, <1>4, <1>5

LEMMA SectionDownloads ==
  ASSUME FilesInv, SectionInv, AS!StartDownload \/ AS!DownloadArrives
  PROVE  SectionInv'
<1>0. /\ view \in SectionView /\ net \in SectionNet
      /\ SectionCommands(view, net) /\ SectionList(view, net)
  BY SectionParts
<1>1. CASE AS!StartDownload
  <2>1. PICK x \in AS!Downloadable :
          /\ view' = [view EXCEPT !.downloading = x.id]
          /\ net' = [net EXCEPT !.download = [id |-> x.id, answer |-> None]]
    BY <1>1 DEF AS!StartDownload
  <2>2. x.id \in Nat
    BY <1>0, <2>1 DEF AS!Downloadable, SectionView
  <2> DEFINE r == [id |-> x.id, answer |-> None]
  <2>3. r \in AS!RowRequest /\ r # None
    BY <2>2, SectionRequests
  <2>4. net' = [net EXCEPT !.download = r]
    BY <2>1
  <2> HIDE DEF r
  <2>5. /\ net' \in SectionNet /\ net'.list = net.list /\ net'.upload = net.upload
        /\ net'.download = r /\ net'.delete = net.delete
    BY <1>0, <2>3, <2>4 DEF SectionNet
  <2>6. /\ view' \in SectionView /\ view'.attempt = view.attempt /\ view'.target = view.target
        /\ view'.deletePending = view.deletePending /\ view'.list = view.list
        /\ view'.pagePending = view.pagePending
    BY <1>0, <2>1, <2>2 DEF SectionView
  <2>7. SectionCommands(view', net') /\ SectionList(view', net')
    BY <1>0, <2>3, <2>5, <2>6 DEF SectionCommands, SectionList
  <2> QED  BY <2>5, <2>6, <2>7, SectionPartsNext
<1>2. CASE AS!DownloadArrives
  <2> DEFINE n == [net EXCEPT !.download = None]
             v == [view EXCEPT !.downloading = 0]
  <2>1. /\ n \in SectionNet /\ n.list = net.list /\ n.upload = net.upload
        /\ n.download = None /\ n.delete = net.delete
    BY <1>0 DEF SectionNet
  <2>2. /\ v \in SectionView /\ v.attempt = view.attempt /\ v.target = view.target
        /\ v.deletePending = view.deletePending /\ v.list = view.list
        /\ v.pagePending = view.pagePending /\ v.downloading = 0
    BY <1>0 DEF SectionView
  <2>3. AS!LoadInitial(v, n, FALSE) \/ (view' = v /\ net' = n)
    BY <1>2 DEF AS!DownloadArrives
  <2> HIDE DEF v, n
  <2>4. SectionCommands(v, n) /\ SectionList(v, n)
    BY <1>0, <2>1, <2>2 DEF SectionCommands, SectionList
  <2> QED  BY <2>1, <2>2, <2>3, <2>4, SectionLoads, SectionPartsNext
<1> QED  BY <1>1, <1>2

LEMMA SectionDeletes ==
  ASSUME FilesInv, SectionInv, AS!AskDelete \/ AS!Keep \/ AS!ConfirmDelete \/ AS!DeleteArrives
  PROVE  SectionInv'
<1>0. /\ view \in SectionView /\ net \in SectionNet
      /\ SectionCommands(view, net) /\ SectionList(view, net)
  BY SectionParts
<1>1. CASE AS!AskDelete \/ AS!Keep
  <2>1. PICK target \in Nat : view' = [view EXCEPT !.target = target]
    BY <1>0, <1>1 DEF AS!AskDelete, AS!Keep, AS!Ids, SectionView
  <2>2. UNCHANGED net /\ ~view.deletePending
    BY <1>0, <1>1 DEF AS!AskDelete, AS!Keep, AS!DialogEnabled, SectionCommands, SectionView
  <2>3. /\ view' \in SectionView /\ view'.attempt = view.attempt
        /\ view'.downloading = view.downloading
        /\ view'.deletePending = view.deletePending /\ view'.list = view.list
        /\ view'.pagePending = view.pagePending
    BY <1>0, <2>1 DEF SectionView
  <2>4. SectionCommands(view', net') /\ SectionList(view', net')
    BY <1>0, <2>2, <2>3 DEF SectionCommands, SectionList
  <2> QED  BY <1>0, <2>2, <2>3, <2>4, SectionPartsNext
<1>2. CASE AS!ConfirmDelete
  <2> DEFINE r == [id |-> view.target, answer |-> None]
  <2>1. view.target # 0 /\ view.target \in Nat
    BY <1>0, <1>2 DEF AS!ConfirmDelete, AS!DialogEnabled, SectionView
  <2>2. r \in AS!RowRequest /\ r # None /\ r.id = view.target
    BY <2>1, SectionRequests
  <2>3. net' = [net EXCEPT !.delete = r] /\ view' = [view EXCEPT !.deletePending = TRUE]
    BY <1>2 DEF AS!ConfirmDelete
  <2> HIDE DEF r
  <2>4. /\ net' \in SectionNet /\ net'.list = net.list /\ net'.upload = net.upload
        /\ net'.download = net.download /\ net'.delete = r
    BY <1>0, <2>2, <2>3 DEF SectionNet
  <2>5. /\ view' \in SectionView /\ view'.attempt = view.attempt
        /\ view'.downloading = view.downloading
        /\ view'.target = view.target /\ view'.list = view.list
        /\ view'.pagePending = view.pagePending
    BY <1>0, <2>3 DEF SectionView
  <2>6. SectionCommands(view', net') /\ SectionList(view', net')
    BY <1>0, <2>1, <2>2, <2>4, <2>5 DEF SectionCommands, SectionList
  <2> QED  BY <2>4, <2>5, <2>6, SectionPartsNext
<1>3. CASE AS!DeleteArrives
  <2> DEFINE n == [net EXCEPT !.delete = None]
             v == [view EXCEPT !.deletePending = FALSE]
  <2>1. /\ n \in SectionNet /\ n.list = net.list /\ n.upload = net.upload
        /\ n.download = net.download /\ n.delete = None
    BY <1>0 DEF SectionNet
  <2>2. /\ net.delete.answer \in {AS!Done, AS!Gone, AS!Failure} /\ net.delete.id \in Nat
    BY <1>0, <1>3 DEF AS!DeleteArrives, SectionNet, AS!RowRequest
  <2>a. AS!Done # AS!Gone /\ AS!Done # AS!Failure /\ AS!Gone # AS!Failure
    BY DEF AS!Done, AS!Gone, AS!Failure
  <2>3. PICK w \in SectionView :
          /\ w.attempt = view.attempt /\ w.downloading = view.downloading
          /\ ~w.deletePending /\ w.list = view.list /\ w.pagePending = view.pagePending
          /\ AS!LoadInitial(w, n, FALSE) \/ (view' = w /\ net' = n)
    <3>0. /\ v \in SectionView /\ v.attempt = view.attempt /\ v.downloading = view.downloading
          /\ ~v.deletePending /\ v.list = view.list /\ v.pagePending = view.pagePending
      BY <1>0 DEF SectionView
    <3>1. CASE net.delete.answer = AS!Done
      <4> DEFINE w == [v EXCEPT !.items = {x \in @ : x.id # net.delete.id}, !.target = 0]
      <4>1. view' = w /\ net' = n
        BY <1>3, <3>1, <2>a DEF AS!DeleteArrives
      <4> HIDE DEF v, n
      <4>2. {x \in v.items : x.id # net.delete.id} \in SUBSET [id : Nat, ok : BOOLEAN]
        BY <3>0 DEF SectionView
      <4>3. /\ w \in SectionView /\ w.attempt = view.attempt /\ w.downloading = view.downloading
            /\ ~w.deletePending /\ w.list = view.list /\ w.pagePending = view.pagePending
        BY <3>0, <4>2 DEF SectionView
      <4> QED  BY <4>1, <4>3
    <3>2. CASE net.delete.answer = AS!Gone
      <4> DEFINE u == [v EXCEPT !.blocked = @ \cup {net.delete.id}, !.target = 0]
      <4>1. AS!LoadInitial(u, n, FALSE)
        BY <1>3, <3>2, <2>a DEF AS!DeleteArrives
      <4> HIDE DEF v, n
      <4>2. /\ u \in SectionView /\ u.attempt = view.attempt /\ u.downloading = view.downloading
            /\ ~u.deletePending /\ u.list = view.list /\ u.pagePending = view.pagePending
        BY <3>0, <2>2 DEF SectionView
      <4> QED  BY <4>1, <4>2
    <3>3. CASE net.delete.answer = AS!Failure
      <4>1. view' = v /\ net' = n
        BY <1>3, <3>3, <2>a DEF AS!DeleteArrives
      <4> QED  BY <4>1, <3>0
    <3> QED  BY <2>2, <3>1, <3>2, <3>3
  <2> HIDE DEF v, n
  <2>4. SectionCommands(w, n) /\ SectionList(w, n)
    BY <1>0, <2>1, <2>3 DEF SectionCommands, SectionList
  <2> QED  BY <2>1, <2>3, <2>4, SectionLoads, SectionPartsNext
<1> QED  BY <1>1, <1>2, <1>3

LEMMA SectionStep ==
  ASSUME FilesInv, SectionInv, AS!Next
  PROVE  FilesInv' /\ SectionInv'
BY FilesStep, SectionServed, SectionLists, SectionUploads, SectionDownloads, SectionDeletes
  DEF AS!Next, AS!Arrive

LEMMA SectionInit ==
  ASSUME AS!Init
  PROVE  FilesInv /\ SectionInv
<1>1. AS!Top \in Nat
  BY SizesAssumption DEF AS!Top
<1>2. AS!List(AS!Top, FALSE) \in AS!ListRequest /\ AS!List(AS!Top, FALSE) # None
      /\ AS!List(AS!Top, FALSE).below = AS!Top
  BY <1>1, SectionRequests
<1>3. AS!NewNet \in SectionNet
  BY <1>2 DEF AS!NewNet, SectionNet
<1>4. AS!NewView \in SectionView
  BY SizesAssumption DEF AS!NewView, SectionView
<1>5. SectionCommands(AS!NewView, AS!NewNet) /\ SectionList(AS!NewView, AS!NewNet)
  BY <1>2 DEF SectionCommands, SectionList, AS!NewNet, AS!NewView
<1>6. view = AS!NewView /\ net = AS!NewNet /\ past = 0
  BY DEF AS!Init
<1>7. SectionInv
  BY <1>3, <1>4, <1>5, <1>6, SectionParts
<1>8. PICK k \in 0..MaxRows :
        server = [rows |-> {[id |-> i, key |-> 0, file |-> 0, ok |-> TRUE] : i \in 1..k},
                  sent |-> {}, stored |-> k]
  BY DEF AS!Init
<1>9. view.attempt = None
  BY <1>6 DEF AS!NewView
<1>10. /\ server = [rows |-> server.rows, sent |-> server.sent, stored |-> server.stored]
       /\ server.rows = {[id |-> i, key |-> 0, file |-> 0, ok |-> TRUE] : i \in 1..k}
       /\ server.sent = {} /\ server.stored = k
  BY <1>8
<1>11. /\ server.rows \in SUBSET [id : 1..k, key : Nat, file : Nat, ok : BOOLEAN]
       /\ \A r \in server.rows : r.key = 0 /\ r.file = 0
  <2>1. ASSUME NEW i \in 1..k
        PROVE  [id |-> i, key |-> 0, file |-> 0, ok |-> TRUE]
                 \in [id : 1..k, key : Nat, file : Nat, ok : BOOLEAN]
    OBVIOUS
  <2>2. ASSUME NEW r \in server.rows
        PROVE  \E i \in 1..k : r = [id |-> i, key |-> 0, file |-> 0, ok |-> TRUE]
    BY <1>10
  <2>3. ASSUME NEW r \in server.rows
        PROVE  /\ r \in [id : 1..k, key : Nat, file : Nat, ok : BOOLEAN]
               /\ r.key = 0 /\ r.file = 0
    <3>1. PICK i \in 1..k : r = [id |-> i, key |-> 0, file |-> 0, ok |-> TRUE]
      BY <2>2
    <3> QED  BY <2>1, <3>1
  <2> QED  BY <2>3
<1>12. \A r, q \in server.rows : ~(r.key # 0)
  BY <1>11
<1>13. FilesInv
  BY <1>6, <1>9, <1>10, <1>11, <1>12 DEF FilesInv
<1> QED  BY <1>7, <1>13

LEMMA SectionShown ==
  ASSUME FilesInv
  PROVE  AS!OneRowPerFile
<1> SUFFICES ASSUME NEW f \in 1..MaxFiles
             PROVE  AS!Cardinality({r \in server.rows : r.file = f}) <= 1
  BY DEF AS!OneRowPerFile
<1> DEFINE S == {r \in server.rows : r.file = f}
<1>1. f # 0
  BY SizesAssumption
<1>2. \A r, q \in S : r = q
  BY <1>1 DEF FilesInv
<1>3. AS!Cardinality(S) = Cardinality(S)
  BY DEF AS!Cardinality, Cardinality
<1>4. CASE S = {}
  <2>1. Cardinality(S) = 0
    BY <1>4, FS_EmptySet
  <2> QED  BY <1>3, <2>1
<1>5. CASE S # {}
  <2>1. PICK r : S = {r}
    BY <1>2, <1>5
  <2>2. Cardinality(S) = 1
    BY <2>1, FS_Singleton
  <2> QED  BY <1>3, <2>2
<1> QED  BY <1>4, <1>5

-----------------------------------------------------------------------------
(* TaskSection                                                             *)

TasksView ==
  [load : {"loading", "success", "error"},
   list : [items : SUBSET [id : Task, status : TaskStatus], next : Nat, exhausted : BOOLEAN,
           inconsistent : BOOLEAN],
   filter : TS!Filters, pagePending : BOOLEAN, pageError : BOOLEAN,
   pendingTask : Task \cup {None}, cancelTask : Task \cup {None}]
TasksNet ==
  [lists : [TS!Slot -> TS!ListRequest \cup {None}], ref : 0..MaxLists,
   patch : TS!PatchRequest \cup {None}, save : TS!SaveRequest \cup {None}]

\* A loading screen has its own request in flight, whose failure is shown; a form's save, which
\* reloads without a loading screen, is sent only while the list is shown.
TasksInv ==
  /\ server \in [order : Seq(Task), status : [Task -> TaskStatus]]
  /\ view \in TasksView /\ net \in TasksNet
  /\ TS!SpinnersAnswered
  /\ view.load = "loading" => \E s \in TS!InFlight("first") : ~net.lists[s].preserve
  /\ net.save # None => view.load = "success"

\* The parts of the invariant that speak of the view and the requests.
TasksLists(load, pagePending, lists) ==
  /\ load = "loading" => \E s \in TS!Slot : /\ lists[s] # None /\ lists[s].kind = "first"
                                            /\ ~lists[s].preserve
  /\ pagePending => \E s \in TS!Slot : lists[s] # None /\ lists[s].kind = "more"
TasksPending(pendingTask, patch, lists) ==
  pendingTask # None =>
    \/ patch # None
    \/ \E s \in TS!Slot : lists[s] # None /\ lists[s].kind = "first" /\ lists[s].awaited

LEMMA TasksParts ==
  TasksInv <=> /\ server \in [order : Seq(Task), status : [Task -> TaskStatus]]
               /\ view \in TasksView /\ net \in TasksNet
               /\ TasksLists(view.load, view.pagePending, net.lists)
               /\ TasksPending(view.pendingTask, net.patch, net.lists)
               /\ net.save # None => view.load = "success"
BY DEF TasksInv, TasksLists, TasksPending, TS!SpinnersAnswered, TS!InFlight

LEMMA TasksPartsNext ==
  ASSUME server' \in [order : Seq(Task), status : [Task -> TaskStatus]],
         view' \in TasksView, net' \in TasksNet,
         TasksLists(view'.load, view'.pagePending, net'.lists),
         TasksPending(view'.pendingTask, net'.patch, net'.lists),
         net'.save # None => view'.load = "success"
  PROVE  TasksInv'
BY DEF TasksInv, TasksLists, TasksPending, TS!SpinnersAnswered, TS!InFlight

LEMMA TasksRequests ==
  /\ \A kind \in {"first", "more"}, filter \in TS!Filters, page \in Nat,
        preserve, awaited \in BOOLEAN :
       LET r == TS!List(kind, filter, page, preserve, awaited) IN
       r \in TS!ListRequest /\ r # None /\ r.kind = kind /\ r.preserve = preserve
         /\ r.awaited = awaited
  /\ \A r \in TS!ListRequest, a \in TS!Listing \cup {TS!Failure} :
       LET q == [r EXCEPT !.answer = a] IN
       q \in TS!ListRequest /\ q # None /\ q.kind = r.kind /\ q.preserve = r.preserve
         /\ q.awaited = r.awaited
  /\ \A r \in TS!PatchRequest, a \in {TS!Failure, TS!Done} :
       [r EXCEPT !.answer = a] \in TS!PatchRequest /\ [r EXCEPT !.answer = a] # None
  /\ \A r \in TS!SaveRequest, a \in {TS!Failure, TS!Done} :
       [r EXCEPT !.answer = a] \in TS!SaveRequest /\ [r EXCEPT !.answer = a] # None
  /\ \A t \in Task, to \in TaskStatus, filter \in TS!Filters :
       LET r == [task |-> t, to |-> to, filter |-> filter, answer |-> None] IN
       r \in TS!PatchRequest /\ r # None
  /\ \A t \in Task, filter \in TS!Filters :
       [task |-> t, filter |-> filter, answer |-> None] \in TS!SaveRequest
<1>1. None \notin TS!ListRequest /\ None \notin TS!PatchRequest /\ None \notin TS!SaveRequest
  BY NoneAssumption
<1>2. ASSUME NEW kind \in {"first", "more"}, NEW filter \in TS!Filters, NEW page \in Nat,
             NEW preserve \in BOOLEAN, NEW awaited \in BOOLEAN
      PROVE  LET r == TS!List(kind, filter, page, preserve, awaited) IN
             r \in TS!ListRequest /\ r.kind = kind /\ r.preserve = preserve /\ r.awaited = awaited
  BY DEF TS!List, TS!ListRequest
<1>3. ASSUME NEW r \in TS!ListRequest, NEW a \in TS!Listing \cup {TS!Failure}
      PROVE  LET q == [r EXCEPT !.answer = a] IN
             q \in TS!ListRequest /\ q.kind = r.kind /\ q.preserve = r.preserve
               /\ q.awaited = r.awaited
  BY DEF TS!ListRequest
<1>4. ASSUME NEW r \in TS!PatchRequest, NEW a \in {TS!Failure, TS!Done}
      PROVE  [r EXCEPT !.answer = a] \in TS!PatchRequest
  BY DEF TS!PatchRequest
<1>5. ASSUME NEW r \in TS!SaveRequest, NEW a \in {TS!Failure, TS!Done}
      PROVE  [r EXCEPT !.answer = a] \in TS!SaveRequest
  BY DEF TS!SaveRequest
<1>6. ASSUME NEW t \in Task, NEW to \in TaskStatus, NEW filter \in TS!Filters
      PROVE  [task |-> t, to |-> to, filter |-> filter, answer |-> None] \in TS!PatchRequest
  BY DEF TS!PatchRequest
<1>7. ASSUME NEW t \in Task, NEW filter \in TS!Filters
      PROVE  [task |-> t, filter |-> filter, answer |-> None] \in TS!SaveRequest
  BY DEF TS!SaveRequest
<1> QED  BY <1>1, <1>2, <1>3, <1>4, <1>5, <1>6, <1>7

LEMMA TasksListed ==
  ASSUME NEW kind \in {"first", "more"}, NEW filter \in TS!Filters, NEW page \in Nat,
         NEW preserve \in BOOLEAN, NEW awaited \in BOOLEAN
  PROVE  LET r == TS!List(kind, filter, page, preserve, awaited) IN
         r \in TS!ListRequest /\ r # None /\ r.kind = kind
BY TasksRequests

LEMMA TasksPage ==
  ASSUME server \in [order : Seq(Task), status : [Task -> TaskStatus]],
         NEW filter \in TS!Filters, NEW page \in Nat
  PROVE  TS!Listed(filter, page) \in TS!Listing
<1> DEFINE s == server.order
           matching == {i \in DOMAIN s : TS!Matches(s[i], filter)}
           p == TS!PageOf(s, matching, page)
           items == {[id |-> t, status |-> server.status[t]] : t \in p.items}
<1>1. s \in Seq(Task) /\ server.status \in [Task -> TaskStatus]
  OBVIOUS
<1>2. Len(s) \in Nat /\ DOMAIN s = 1..Len(s) /\ \A i \in DOMAIN s : s[i] \in Task
  BY <1>1
<1>3. matching \subseteq DOMAIN s
  OBVIOUS
<1> HIDE DEF s
<1>4. TS!Cardinality(matching) \in Nat
  <2>1. IsFiniteSet(DOMAIN s)
    BY <1>2, FS_Interval
  <2>2. IsFiniteSet(matching)
    BY <1>3, <2>1, FS_Subset
  <2>3. Cardinality(matching) \in Nat
    BY <2>2, FS_CardinalityType
  <2> QED  BY <2>3 DEF TS!Cardinality, Cardinality
<1> HIDE DEF matching
<1>5. p = [items |-> p.items, page |-> page, total |-> TS!Cardinality(matching)]
      /\ p.items \subseteq Task
  BY <1>2, <1>3 DEF TS!PageOf
<1> HIDE DEF p
<1>6. items \in SUBSET [id : Task, status : TaskStatus]
  BY <1>1, <1>5
<1>7. TS!Listed(filter, page) = [p EXCEPT !.items = items]
  BY DEF TS!Listed, p, s, matching
<1> HIDE DEF items
<1>8. TS!Listed(filter, page) = [items |-> items, page |-> page, total |-> TS!Cardinality(matching)]
  BY <1>5, <1>7
<1> QED  BY <1>4, <1>6, <1>8 DEF TS!Listing

LEMMA TasksTouched ==
  ASSUME server \in [order : Seq(Task), status : [Task -> TaskStatus]],
         NEW t \in Task, NEW status \in TaskStatus
  PROVE  TS!Touched(server, t, status) \in [order : Seq(Task), status : [Task -> TaskStatus]]
<1> DEFINE order == <<t>> \o TS!RemoveFirst(server.order, t)
<1>1. order \in Seq(Task)
  <2>1. server.order \in Seq(Task)
    OBVIOUS
  <2> QED  BY <2>1, TaskSequences
<1>2. [server.status EXCEPT ![t] = status] \in [Task -> TaskStatus]
  OBVIOUS
<1>3. TS!Touched(server, t, status) = [order |-> order, status |-> [server.status EXCEPT ![t] = status]]
  BY DEF TS!Touched
<1> HIDE DEF order
<1> QED  BY <1>1, <1>2, <1>3

\* An answer to a request leaves the component waiting for what it waited for.
LEMMA TasksAnswered ==
  ASSUME TasksInv, server' \in [order : Seq(Task), status : [Task -> TaskStatus]], view' = view,
         net' \in TasksNet,
         \A s \in TS!Slot : net.lists[s] # None =>
           /\ net'.lists[s] # None /\ net'.lists[s].kind = net.lists[s].kind
           /\ net'.lists[s].preserve = net.lists[s].preserve
           /\ net'.lists[s].awaited = net.lists[s].awaited,
         net.patch # None => net'.patch # None, net'.save = None <=> net.save = None
  PROVE  TasksInv'
<1>0. /\ view \in TasksView
      /\ TasksLists(view.load, view.pagePending, net.lists)
      /\ TasksPending(view.pendingTask, net.patch, net.lists)
      /\ net.save # None => view.load = "success"
  BY TasksParts
<1>1. TasksLists(view'.load, view'.pagePending, net'.lists)
  BY <1>0 DEF TasksLists
<1>2. TasksPending(view'.pendingTask, net'.patch, net'.lists)
  BY <1>0 DEF TasksPending
<1> QED  BY <1>0, <1>1, <1>2, TasksPartsNext

\* What a step does to one of the requests of TasksNet.
LEMMA TasksNetParts ==
  ASSUME net \in TasksNet
  PROVE  /\ \A s \in TS!Slot, r \in TS!ListRequest :
              LET n == [net EXCEPT !.lists[s] = r] IN
              /\ n \in TasksNet /\ n.patch = net.patch /\ n.save = net.save
              /\ \A x \in TS!Slot : n.lists[x] = IF x = s THEN r ELSE net.lists[x]
         /\ \A r \in TS!PatchRequest \cup {None} :
              LET n == [net EXCEPT !.patch = r] IN
              /\ n \in TasksNet /\ n.patch = r /\ n.save = net.save /\ n.lists = net.lists
              /\ n.ref = net.ref
         /\ \A r \in TS!SaveRequest \cup {None} :
              LET n == [net EXCEPT !.save = r] IN
              /\ n \in TasksNet /\ n.save = r /\ n.patch = net.patch /\ n.lists = net.lists
              /\ n.ref = net.ref
<1>1. ASSUME NEW s \in TS!Slot, NEW r \in TS!ListRequest
      PROVE  LET n == [net EXCEPT !.lists[s] = r] IN
             /\ n \in TasksNet /\ n.patch = net.patch /\ n.save = net.save
             /\ \A x \in TS!Slot : n.lists[x] = IF x = s THEN r ELSE net.lists[x]
  <2> DEFINE lists == [net.lists EXCEPT ![s] = r]
             n == [net EXCEPT !.lists = lists]
  <2>1. /\ lists \in [TS!Slot -> TS!ListRequest \cup {None}]
        /\ \A x \in TS!Slot : lists[x] = IF x = s THEN r ELSE net.lists[x]
    BY DEF TasksNet
  <2>2. [net EXCEPT !.lists[s] = r] = n
    OBVIOUS
  <2> HIDE DEF lists
  <2>3. n \in TasksNet /\ n.patch = net.patch /\ n.save = net.save /\ n.lists = lists
    BY <2>1 DEF TasksNet
  <2> HIDE DEF n
  <2> QED  BY <2>1, <2>2, <2>3
<1>2. ASSUME NEW r \in TS!PatchRequest \cup {None}
      PROVE  LET n == [net EXCEPT !.patch = r] IN
             /\ n \in TasksNet /\ n.patch = r /\ n.save = net.save /\ n.lists = net.lists
             /\ n.ref = net.ref
  BY DEF TasksNet
<1>3. ASSUME NEW r \in TS!SaveRequest \cup {None}
      PROVE  LET n == [net EXCEPT !.save = r] IN
             /\ n \in TasksNet /\ n.save = r /\ n.patch = net.patch /\ n.lists = net.lists
             /\ n.ref = net.ref
  BY DEF TasksNet
<1> QED  BY <1>1, <1>2, <1>3

LEMMA TasksServed ==
  ASSUME TasksInv, TS!Elsewhere \/ TS!Serve \/ TS!Fail
  PROVE  TasksInv'
<1>0. /\ server \in [order : Seq(Task), status : [Task -> TaskStatus]]
      /\ view \in TasksView /\ net \in TasksNet
  BY TasksParts
<1>a. \A t \in Task : server.status[t] \in TaskStatus /\ TS!Options(server.status[t]) \subseteq TaskStatus
  BY <1>0 DEF TS!Options
<1>b. view' = view
  BY DEF TS!Elsewhere, TS!Serve, TS!ServeList, TS!ServePatch, TS!ServeSave, TS!Fail
<1>1. ASSUME NEW s \in TS!Slot, NEW a \in TS!Listing \cup {TS!Failure}, net.lists[s] # None,
             net' = [net EXCEPT !.lists[s].answer = a], UNCHANGED server
      PROVE  TasksInv'
  <2> DEFINE r == [net.lists[s] EXCEPT !.answer = a]
  <2>1. net.lists[s] \in TS!ListRequest
    BY <1>0, <1>1 DEF TasksNet
  <2>2. /\ r \in TS!ListRequest /\ r # None /\ r.kind = net.lists[s].kind
        /\ r.preserve = net.lists[s].preserve /\ r.awaited = net.lists[s].awaited
    BY <2>1, TasksRequests
  <2>3. net' = [net EXCEPT !.lists[s] = r]
    BY <1>1
  <2> HIDE DEF r
  <2>4. /\ net' \in TasksNet /\ net'.patch = net.patch /\ net'.save = net.save
        /\ \A x \in TS!Slot : net'.lists[x] = IF x = s THEN r ELSE net.lists[x]
    BY <1>0, <2>2, <2>3, TasksNetParts
  <2> QED  BY <1>0, <1>1, <1>b, <2>2, <2>4, TasksAnswered
<1>2. ASSUME NEW a \in {TS!Failure, TS!Done}, net.patch # None,
             net' = [net EXCEPT !.patch.answer = a],
             server' \in [order : Seq(Task), status : [Task -> TaskStatus]]
      PROVE  TasksInv'
  <2> DEFINE r == [net.patch EXCEPT !.answer = a]
  <2>1. net.patch \in TS!PatchRequest
    BY <1>0, <1>2 DEF TasksNet
  <2>2. r \in TS!PatchRequest /\ r # None
    BY <2>1, TasksRequests
  <2>3. net' = [net EXCEPT !.patch = r]
    BY <1>2
  <2> HIDE DEF r
  <2>4. net' \in TasksNet /\ net'.patch = r /\ net'.save = net.save /\ net'.lists = net.lists
    BY <1>0, <2>2, <2>3, TasksNetParts
  <2> QED  BY <1>2, <1>b, <2>2, <2>4, TasksAnswered
<1>3. ASSUME NEW a \in {TS!Failure, TS!Done}, net.save # None,
             net' = [net EXCEPT !.save.answer = a],
             server' \in [order : Seq(Task), status : [Task -> TaskStatus]]
      PROVE  TasksInv'
  <2> DEFINE r == [net.save EXCEPT !.answer = a]
  <2>1. net.save \in TS!SaveRequest
    BY <1>0, <1>3 DEF TasksNet
  <2>2. r \in TS!SaveRequest /\ r # None
    BY <2>1, TasksRequests
  <2>3. net' = [net EXCEPT !.save = r]
    BY <1>3
  <2> HIDE DEF r
  <2>4. net' \in TasksNet /\ net'.save = r /\ net'.patch = net.patch /\ net'.lists = net.lists
    BY <1>0, <2>2, <2>3, TasksNetParts
  <2> QED  BY <1>3, <1>b, <2>2, <2>4, TasksAnswered
<1>4. CASE TS!Elsewhere
  <2>1. PICK t \in Task : \E status \in {server.status[t]} \cup TS!Options(server.status[t]) :
          server' = TS!Touched(server, t, status)
    BY <1>4 DEF TS!Elsewhere
  <2>2. PICK status \in TaskStatus : server' = TS!Touched(server, t, status)
    BY <1>a, <2>1
  <2>3. server' \in [order : Seq(Task), status : [Task -> TaskStatus]]
    BY <1>0, <2>2, TasksTouched
  <2>4. net' = net
    BY <1>4 DEF TS!Elsewhere
  <2> QED  BY <1>0, <1>b, <2>3, <2>4, TasksAnswered
<1>5. CASE \E s \in TS!Slot : TS!ServeList(s)
  <2>1. PICK s \in TS!Slot : TS!ServeList(s)
    BY <1>5
  <2>2. net.lists[s] # None /\ UNCHANGED server
        /\ net' = [net EXCEPT !.lists[s].answer = TS!Listed(net.lists[s].filter, net.lists[s].page)]
    BY <2>1 DEF TS!ServeList
  <2>3. net.lists[s].filter \in TS!Filters /\ net.lists[s].page \in Nat
    BY <1>0, <2>2 DEF TasksNet, TS!ListRequest
  <2>4. TS!Listed(net.lists[s].filter, net.lists[s].page) \in TS!Listing
    BY <1>0, <2>3, TasksPage
  <2> QED  BY <1>1, <2>2, <2>4
<1>6. CASE TS!ServePatch
  <2>1. net.patch # None /\ \E a \in {TS!Failure, TS!Done} : net' = [net EXCEPT !.patch.answer = a]
    BY <1>6 DEF TS!ServePatch
  <2>2. net.patch.task \in Task /\ net.patch.to \in TaskStatus
    BY <1>0, <2>1 DEF TasksNet, TS!PatchRequest
  <2>3. server' = server \/ server' = TS!Touched(server, net.patch.task, net.patch.to)
    BY <1>6 DEF TS!ServePatch
  <2>4. server' \in [order : Seq(Task), status : [Task -> TaskStatus]]
    BY <1>0, <2>2, <2>3, TasksTouched
  <2> QED  BY <1>2, <2>1, <2>4
<1>7. CASE TS!ServeSave
  <2>1. net.save # None /\ net' = [net EXCEPT !.save.answer = TS!Done]
        /\ server' = TS!Touched(server, net.save.task, server.status[net.save.task])
    BY <1>7 DEF TS!ServeSave
  <2>2. net.save.task \in Task /\ server.status[net.save.task] \in TaskStatus
    BY <1>0, <2>1 DEF TasksNet, TS!SaveRequest
  <2>3. server' \in [order : Seq(Task), status : [Task -> TaskStatus]]
    BY <1>0, <2>1, <2>2, TasksTouched
  <2> QED  BY <1>3, <2>1, <2>3
<1>8. CASE TS!Fail
  <2>1. UNCHANGED server
    BY <1>8 DEF TS!Fail
  <2>2. CASE \E s \in TS!Slot : /\ net.lists[s] # None
                                /\ net' = [net EXCEPT !.lists[s].answer = TS!Failure]
    BY <1>1, <2>1, <2>2
  <2>3. CASE net.patch # None /\ net' = [net EXCEPT !.patch.answer = TS!Failure]
    BY <1>0, <1>2, <2>1, <2>3
  <2>4. CASE net.save # None /\ net' = [net EXCEPT !.save.answer = TS!Failure]
    BY <1>0, <1>3, <2>1, <2>4
  <2>5. \/ \E s \in TS!Slot : net.lists[s] # None /\ net' = [net EXCEPT !.lists[s].answer = TS!Failure]
        \/ \E w \in {"patch", "save"} : net[w] # None /\ net' = [net EXCEPT ![w].answer = TS!Failure]
    BY <1>8 DEF TS!Fail
  <2> QED  BY <2>2, <2>3, <2>4, <2>5
<1> QED  BY <1>4, <1>5, <1>6, <1>7, <1>8 DEF TS!Serve

\* The form that is not rendered takes its save along.
LEMMA TasksRendered ==
  ASSUME NEW n \in TasksNet, NEW v \in TasksView
  PROVE  LET m == TS!Rendered(n, v) IN
         /\ m \in TasksNet /\ m.lists = n.lists /\ m.patch = n.patch
         /\ m.save # None => v.load = "success"
BY DEF TS!Rendered, TasksNet

LEMMA TasksLoads ==
  ASSUME TasksInv, NEW v \in TasksView, NEW n \in TasksNet, n.lists = net.lists, n.ref = net.ref,
         NEW filter \in TS!Filters, NEW preserve \in BOOLEAN, NEW awaited \in BOOLEAN,
         TS!LoadInitial(v, n, filter, preserve, awaited),
         preserve => v.load = "success",
         ~awaited => TasksPending(v.pendingTask, n.patch, net.lists)
  PROVE  TasksInv'
<1> DEFINE aborted == IF n.ref = 0 THEN n.lists ELSE [n.lists EXCEPT ![n.ref] = None]
           free == {x \in TS!Slot : aborted[x] = None}
           s == TS!Min(free)
           r == TS!List("first", filter, 1, preserve, awaited)
           lists == [aborted EXCEPT ![s] = r]
           m == [n EXCEPT !.lists = lists, !.ref = s]
           shown == [v EXCEPT !.pagePending = FALSE, !.pageError = FALSE,
                              !.load = IF preserve THEN @ ELSE "loading",
                              !.pendingTask = IF TS!Settles THEN None ELSE @,
                              !.cancelTask = IF TS!Settles THEN None ELSE @]
<1>1. /\ view' = shown /\ net' = TS!Rendered(m, shown) /\ UNCHANGED server
      /\ free # {}
  BY DEF TS!LoadInitial
<1>2. /\ n.lists \in [TS!Slot -> TS!ListRequest \cup {None}] /\ n.ref \in 0..MaxLists
      /\ MaxLists \in Nat /\ TS!Slot = 1..MaxLists
  BY SizesAssumption DEF TasksNet, TS!Slot
<1>3. /\ aborted \in [TS!Slot -> TS!ListRequest \cup {None}]
      /\ \A x \in TS!Slot : x # n.ref => aborted[x] = net.lists[x]
  BY <1>2
<1>4. r \in TS!ListRequest /\ r # None /\ r.kind = "first" /\ r.preserve = preserve
      /\ r.awaited = awaited
  BY TasksRequests
<1>5. shown \in TasksView
  BY DEF TasksView
<1>6. /\ shown.load = IF preserve THEN v.load ELSE "loading"
      /\ ~shown.pagePending
      /\ shown.pendingTask # None => v.pendingTask # None /\ ~TS!Settles
  BY DEF TasksView
<1> HIDE DEF aborted, r, shown
<1>7. s \in TS!Slot /\ aborted[s] = None
  <2>1. free \in SUBSET Nat /\ free # {}
    BY <1>1, <1>2
  <2>2. \E x \in free : \A y \in free : x <= y
    BY <2>1, MinExists
  <2>3. s \in free
    BY <2>2 DEF TS!Min
  <2> QED  BY <2>3
<1> HIDE DEF free, s
<1>8. /\ lists \in [TS!Slot -> TS!ListRequest \cup {None}] /\ lists[s] = r
      /\ \A x \in TS!Slot : x # s => lists[x] = aborted[x]
  BY <1>3, <1>4, <1>7
<1> HIDE DEF lists
<1>9. m \in TasksNet /\ m.lists = lists /\ m.patch = n.patch
  <2>1. s \in 0..MaxLists
    BY <1>2, <1>7
  <2> QED  BY <1>8, <2>1 DEF TasksNet
<1> HIDE DEF m
<1>10. /\ net' \in TasksNet /\ net'.lists = lists /\ net'.patch = n.patch
       /\ net'.save # None => view'.load = "success"
  BY <1>1, <1>5, <1>9, TasksRendered
<1>11. TasksLists(view'.load, view'.pagePending, net'.lists)
  BY <1>1, <1>4, <1>6, <1>7, <1>8, <1>10 DEF TasksLists
<1>12. TasksPending(view'.pendingTask, net'.patch, net'.lists)
  <2> SUFFICES ASSUME shown.pendingTask # None, n.patch = None
               PROVE  \E x \in TS!Slot : /\ lists[x] # None /\ lists[x].kind = "first"
                                         /\ lists[x].awaited
    BY <1>1, <1>10 DEF TasksPending
  <2>1. CASE awaited
    BY <1>4, <1>7, <1>8, <2>1
  <2>2. CASE ~awaited
    <3>1. PICK x \in TS!Slot : /\ net.lists[x] # None /\ net.lists[x].kind = "first"
                               /\ net.lists[x].awaited
      BY <1>6, <2>2 DEF TasksPending
    <3>2. x # n.ref
      <4>1. SUFFICES ASSUME x = net.ref  PROVE FALSE
        OBVIOUS
      <4>2. net.ref # 0
        BY <1>2, <4>1
      <4>3. TS!Settles
        BY <3>1, <4>1, <4>2 DEF TS!Settles, TS!Latest
      <4> QED  BY <1>6, <4>3
    <3>3. aborted[x] = net.lists[x] /\ x # s
      BY <1>3, <1>7, <3>1, <3>2
    <3> QED  BY <1>8, <3>1, <3>3
  <2> QED  BY <2>1, <2>2
<1>13. server' \in [order : Seq(Task), status : [Task -> TaskStatus]]
  BY <1>1, TasksParts
<1> QED  BY <1>1, <1>5, <1>10, <1>11, <1>12, <1>13, TasksPartsNext

LEMMA TasksMore ==
  ASSUME TasksInv, TS!LoadMore
  PROVE  TasksInv'
<1>0. /\ server \in [order : Seq(Task), status : [Task -> TaskStatus]]
      /\ view \in TasksView /\ net \in TasksNet
      /\ TasksLists(view.load, view.pagePending, net.lists)
      /\ TasksPending(view.pendingTask, net.patch, net.lists)
  BY TasksParts
<1> DEFINE s == TS!Min(TS!Free)
           r == TS!List("more", view.filter, view.list.next, TRUE, FALSE)
           lists == [net.lists EXCEPT ![s] = r]
<1>1. /\ view.load = "success" /\ TS!Free # {}
      /\ view' = [view EXCEPT !.pagePending = TRUE, !.pageError = FALSE]
      /\ net' = [net EXCEPT !.ref = s, !.lists[s] = r]
      /\ UNCHANGED server
  BY DEF TS!LoadMore, TS!Reachable
<1>2. MaxLists \in Nat /\ TS!Slot = 1..MaxLists
  BY SizesAssumption DEF TS!Slot
<1>3. s \in TS!Slot /\ net.lists[s] = None
  <2>1. TS!Free \in SUBSET Nat
    BY <1>2 DEF TS!Free
  <2>2. \E x \in TS!Free : \A y \in TS!Free : x <= y
    BY <1>1, <2>1, MinExists
  <2>3. s \in TS!Free
    BY <2>2 DEF TS!Min
  <2> QED  BY <2>3 DEF TS!Free
<1>4. r \in TS!ListRequest /\ r # None /\ r.kind = "more"
  <2>1. view.filter \in TS!Filters /\ view.list.next \in Nat
    BY <1>0 DEF TasksView
  <2> QED  BY <2>1, TasksListed
<1> HIDE DEF s, r
<1>5. net' = [net EXCEPT !.ref = s, !.lists = lists]
  BY <1>1
<1>6. /\ lists \in [TS!Slot -> TS!ListRequest \cup {None}] /\ lists[s] = r
      /\ \A x \in TS!Slot : x # s => lists[x] = net.lists[x]
  BY <1>0, <1>3, <1>4 DEF TasksNet
<1> HIDE DEF lists
<1>7. net' \in TasksNet /\ net'.lists = lists /\ net'.patch = net.patch
  <2>1. s \in 0..MaxLists
    BY <1>2, <1>3
  <2> QED  BY <1>0, <1>5, <1>6, <2>1 DEF TasksNet
<1>8. view' \in TasksView /\ view'.load = "success" /\ view'.pendingTask = view.pendingTask
  BY <1>0, <1>1 DEF TasksView
<1>9. TasksLists(view'.load, view'.pagePending, net'.lists)
  BY <1>3, <1>4, <1>6, <1>7, <1>8 DEF TasksLists
<1>10. TasksPending(view'.pendingTask, net'.patch, net'.lists)
  BY <1>0, <1>3, <1>6, <1>7, <1>8 DEF TasksPending
<1> QED  BY <1>0, <1>1, <1>7, <1>8, <1>9, <1>10, TasksPartsNext

LEMMA TasksReloads ==
  ASSUME TasksInv, TS!ChooseFilter \/ TS!Reload \/ TS!PatchArrives \/ TS!SaveArrives
  PROVE  TasksInv'
<1>0. /\ server \in [order : Seq(Task), status : [Task -> TaskStatus]]
      /\ view \in TasksView /\ net \in TasksNet
      /\ TasksLists(view.load, view.pagePending, net.lists)
      /\ TasksPending(view.pendingTask, net.patch, net.lists)
      /\ net.save # None => view.load = "success"
  BY TasksParts
<1>1. CASE TS!ChooseFilter
  <2>1. PICK f \in Filter : TS!LoadInitial([view EXCEPT !.filter = f], net, f, FALSE, FALSE)
    BY <1>1 DEF TS!ChooseFilter
  <2> DEFINE v == [view EXCEPT !.filter = f]
  <2>2. v \in TasksView /\ v.pendingTask = view.pendingTask /\ f \in TS!Filters
    BY <1>0 DEF TasksView, TS!Filters
  <2>3. TS!LoadInitial(v, net, f, FALSE, FALSE)
    BY <2>1
  <2> HIDE DEF v
  <2> QED  BY <1>0, <2>2, <2>3, TasksLoads
<1>2. CASE TS!Reload
  <2>1. TS!LoadInitial(view, net, view.filter, FALSE, FALSE) /\ view.filter \in TS!Filters
    BY <1>0, <1>2 DEF TS!Reload, TasksView
  <2> QED  BY <1>0, <2>1, TasksLoads
<1>3. CASE TS!PatchArrives
  <2> DEFINE n == [net EXCEPT !.patch = None]
  <2>1. /\ n \in TasksNet /\ n.patch = None /\ n.save = net.save /\ n.lists = net.lists
        /\ n.ref = net.ref
    BY <1>0, TasksNetParts
  <2>2. net.patch # None /\ net.patch.filter \in TS!Filters
    BY <1>0, <1>3 DEF TS!PatchArrives, TasksNet, TS!PatchRequest
  <2>3. CASE net.patch.answer = TS!Failure
    <3>1. /\ view' = [view EXCEPT !.pendingTask = None, !.cancelTask = None] /\ net' = n
          /\ UNCHANGED server
      BY <1>3, <2>3 DEF TS!PatchArrives
    <3>2. /\ view' \in TasksView /\ view'.pendingTask = None /\ view'.load = view.load
          /\ view'.pagePending = view.pagePending
      BY <1>0, <3>1 DEF TasksView
    <3> HIDE DEF n
    <3>3. TasksPending(view'.pendingTask, net'.patch, net'.lists)
      BY <3>2 DEF TasksPending
    <3> QED  BY <1>0, <2>1, <3>1, <3>2, <3>3, TasksPartsNext
  <2>4. CASE net.patch.answer # TS!Failure
    <3>1. TS!LoadInitial(view, n, net.patch.filter, FALSE, TRUE)
      BY <1>3, <2>4 DEF TS!PatchArrives
    <3> HIDE DEF n
    <3> QED  BY <1>0, <2>1, <2>2, <3>1, TasksLoads
  <2> QED  BY <2>3, <2>4
<1>4. CASE TS!SaveArrives
  <2> DEFINE n == [net EXCEPT !.save = None]
  <2>1. /\ n \in TasksNet /\ n.save = None /\ n.patch = net.patch /\ n.lists = net.lists
        /\ n.ref = net.ref
    BY <1>0, TasksNetParts
  <2>2. net.save # None /\ net.save.filter \in TS!Filters
    BY <1>0, <1>4 DEF TS!SaveArrives, TasksNet, TS!SaveRequest
  <2>3. CASE net.save.answer = TS!Failure
    <3>1. net' = n /\ UNCHANGED <<server, view>>
      BY <1>4, <2>3 DEF TS!SaveArrives
    <3> HIDE DEF n
    <3> QED  BY <1>0, <2>1, <3>1, TasksPartsNext
  <2>4. CASE net.save.answer # TS!Failure
    <3>1. TS!LoadInitial(view, n, net.save.filter, TRUE, FALSE)
      BY <1>4, <2>4 DEF TS!SaveArrives
    <3> HIDE DEF n
    <3> QED  BY <1>0, <2>1, <2>2, <3>1, TasksLoads
  <2> QED  BY <2>3, <2>4
<1> QED  BY <1>1, <1>2, <1>3, <1>4

LEMMA TasksReconciled ==
  ASSUME NEW current \in SUBSET [id : Task, status : TaskStatus], NEW p \in TS!Listing
  PROVE  TS!Reconcile(current, p) \in
           [items : SUBSET [id : Task, status : TaskStatus], next : Nat, exhausted : BOOLEAN,
            inconsistent : BOOLEAN]
<1> DEFINE items == TS!Merge(current, p.items)
           total == IF p.total > TS!Cardinality(items) THEN p.total ELSE TS!Cardinality(items)
           exhausted == p.page * PageSize >= total
           inconsistent == exhausted /\ TS!Cardinality(items) < total
<1>1. p.items \in SUBSET [id : Task, status : TaskStatus] /\ p.page + 1 \in Nat
  BY DEF TS!Listing
<1>2. items \in SUBSET [id : Task, status : TaskStatus]
  BY <1>1 DEF TS!Merge
<1>3. exhausted \in BOOLEAN /\ inconsistent \in BOOLEAN
  OBVIOUS
<1>4. TS!Reconcile(current, p) = [items |-> items, next |-> p.page + 1, exhausted |-> exhausted,
                                  inconsistent |-> inconsistent]
  BY DEF TS!Reconcile
<1> HIDE DEF items, exhausted, inconsistent
<1> QED  BY <1>1, <1>2, <1>3, <1>4

LEMMA TasksArrive ==
  ASSUME TasksInv, NEW s \in TS!Slot, TS!ListArrives(s)
  PROVE  TasksInv'
<1>0. /\ server \in [order : Seq(Task), status : [Task -> TaskStatus]]
      /\ view \in TasksView /\ net \in TasksNet
      /\ TasksLists(view.load, view.pagePending, net.lists)
      /\ TasksPending(view.pendingTask, net.patch, net.lists)
      /\ net.save # None => view.load = "success"
  BY TasksParts
<1> DEFINE r == net.lists[s]
           v == [view EXCEPT !.pendingTask = IF r.awaited THEN None ELSE @,
                             !.cancelTask = IF r.awaited THEN None ELSE @]
           lists == [net.lists EXCEPT ![s] = None]
           m == [net EXCEPT !.lists = lists, !.ref = IF @ = s THEN 0 ELSE @]
           after == IF r.kind = "more"
                    THEN IF r.answer = TS!Failure
                         THEN [v EXCEPT !.pagePending = FALSE, !.pageError = TRUE]
                         ELSE [v EXCEPT !.pagePending = FALSE,
                                        !.list = TS!Reconcile(v.list.items, r.answer)]
                    ELSE IF r.answer = TS!Failure
                         THEN [v EXCEPT !.load = IF r.preserve THEN @ ELSE "error"]
                         ELSE [v EXCEPT !.load = "success", !.list = TS!Reconcile({}, r.answer)]
<1>1. /\ r # None /\ r.answer # None /\ view' = after /\ UNCHANGED server
      /\ net' = TS!Rendered(m, after)
  <2>1. net' = TS!Rendered([net EXCEPT !.lists[s] = None, !.ref = IF @ = s THEN 0 ELSE @], after)
    BY DEF TS!ListArrives
  <2>2. m = [net EXCEPT !.lists[s] = None, !.ref = IF @ = s THEN 0 ELSE @]
    OBVIOUS
  <2>3. r # None /\ r.answer # None /\ view' = after /\ UNCHANGED server
    BY DEF TS!ListArrives
  <2> HIDE DEF m, after
  <2> QED  BY <2>1, <2>2, <2>3
<1>2. /\ r \in TS!ListRequest /\ r.kind \in {"first", "more"}
      /\ r.answer # TS!Failure => r.answer \in TS!Listing
  BY <1>0, <1>1 DEF TasksNet, TS!ListRequest
<1>3. /\ v \in TasksView /\ v.load = view.load /\ v.pagePending = view.pagePending
      /\ v.pendingTask # None => view.pendingTask # None /\ ~r.awaited
  BY <1>0 DEF TasksView
<1>4. /\ lists \in [TS!Slot -> TS!ListRequest \cup {None}] /\ lists[s] = None
      /\ \A x \in TS!Slot : x # s => lists[x] = net.lists[x]
  BY <1>0 DEF TasksNet
<1> HIDE DEF v, lists
<1>5. m \in TasksNet /\ m.lists = lists /\ m.patch = net.patch
  <2>1. (IF net.ref = s THEN 0 ELSE net.ref) \in 0..MaxLists
    BY <1>0, SizesAssumption DEF TasksNet
  <2> QED  BY <1>0, <1>4, <2>1 DEF TasksNet
<1> HIDE DEF m
<1>6. /\ after \in TasksView /\ after.pendingTask = v.pendingTask
      /\ after.load = "loading" => view.load = "loading" /\ (r.kind = "more" \/ r.preserve)
      /\ after.pagePending => view.pagePending /\ r.kind # "more"
  <2> DEFINE Lists == [items : SUBSET [id : Task, status : TaskStatus], next : Nat,
                       exhausted : BOOLEAN, inconsistent : BOOLEAN]
  <2>0. v.list.items \in SUBSET [id : Task, status : TaskStatus]
    BY <1>3 DEF TasksView
  <2>1. CASE r.kind = "more" /\ r.answer = TS!Failure
    <3>1. after = [v EXCEPT !.pagePending = FALSE, !.pageError = TRUE]
      BY <2>1
    <3> QED  BY <1>3, <2>1, <3>1 DEF TasksView
  <2>2. CASE r.kind = "more" /\ r.answer # TS!Failure
    <3> DEFINE list == TS!Reconcile(v.list.items, r.answer)
    <3>1. after = [v EXCEPT !.pagePending = FALSE, !.list = list]
      BY <2>2
    <3>2. list \in Lists
      BY <1>2, <2>0, <2>2, TasksReconciled
    <3> HIDE DEF list
    <3> QED  BY <1>3, <2>2, <3>1, <3>2 DEF TasksView
  <2>3. CASE r.kind # "more" /\ r.answer = TS!Failure
    <3>1. after = [v EXCEPT !.load = IF r.preserve THEN @ ELSE "error"]
      BY <2>3
    <3> QED  BY <1>3, <2>3, <3>1 DEF TasksView
  <2>4. CASE r.kind # "more" /\ r.answer # TS!Failure
    <3> DEFINE list == TS!Reconcile({}, r.answer)
    <3>1. after = [v EXCEPT !.load = "success", !.list = list]
      BY <2>4
    <3>2. list \in Lists
      BY <1>2, <2>4, TasksReconciled
    <3> HIDE DEF list
    <3> QED  BY <1>3, <2>4, <3>1, <3>2 DEF TasksView
  <2> QED  BY <2>1, <2>2, <2>3, <2>4
<1> HIDE DEF after
<1>7. /\ net' \in TasksNet /\ net'.lists = lists /\ net'.patch = net.patch
      /\ net'.save # None => view'.load = "success"
  BY <1>1, <1>5, <1>6, TasksRendered
<1>8. TasksLists(view'.load, view'.pagePending, net'.lists)
  <2>1. ASSUME after.load = "loading"
        PROVE  \E x \in TS!Slot : lists[x] # None /\ lists[x].kind = "first" /\ ~lists[x].preserve
    <3>1. PICK x \in TS!Slot : /\ net.lists[x] # None /\ net.lists[x].kind = "first"
                               /\ ~net.lists[x].preserve
      BY <1>0, <1>6, <2>1 DEF TasksLists
    <3>2. x # s
      BY <1>6, <2>1, <3>1
    <3> QED  BY <1>4, <3>1, <3>2
  <2>2. ASSUME after.pagePending
        PROVE  \E x \in TS!Slot : lists[x] # None /\ lists[x].kind = "more"
    <3>1. PICK x \in TS!Slot : net.lists[x] # None /\ net.lists[x].kind = "more"
      BY <1>0, <1>6, <2>2 DEF TasksLists
    <3>2. x # s
      BY <1>6, <2>2, <3>1
    <3> QED  BY <1>4, <3>1, <3>2
  <2> QED  BY <1>1, <1>7, <2>1, <2>2 DEF TasksLists
<1>9. TasksPending(view'.pendingTask, net'.patch, net'.lists)
  <2> SUFFICES ASSUME after.pendingTask # None, net.patch = None
               PROVE  \E x \in TS!Slot : /\ lists[x] # None /\ lists[x].kind = "first"
                                         /\ lists[x].awaited
    BY <1>1, <1>7 DEF TasksPending
  <2>1. view.pendingTask # None /\ ~r.awaited
    BY <1>3, <1>6
  <2>2. PICK x \in TS!Slot : /\ net.lists[x] # None /\ net.lists[x].kind = "first"
                             /\ net.lists[x].awaited
    BY <1>0, <2>1 DEF TasksPending
  <2>3. x # s
    BY <2>1, <2>2
  <2> QED  BY <1>4, <2>2, <2>3
<1> QED  BY <1>0, <1>1, <1>6, <1>7, <1>8, <1>9, TasksPartsNext

LEMMA TasksCommands ==
  ASSUME TasksInv,
         TS!Save \/ TS!Transition \/ TS!AskCancel \/ TS!KeepTask \/ TS!ConfirmCancel
  PROVE  TasksInv'
<1>0. /\ server \in [order : Seq(Task), status : [Task -> TaskStatus]]
      /\ view \in TasksView /\ net \in TasksNet
      /\ TasksLists(view.load, view.pagePending, net.lists)
      /\ TasksPending(view.pendingTask, net.patch, net.lists)
      /\ net.save # None => view.load = "success"
  BY TasksParts
<1>a. \A x \in view.list.items : x.id \in Task /\ TS!Options(x.status) \subseteq TaskStatus
  BY <1>0 DEF TasksView, TS!Options
<1>1. CASE TS!Save
  <2>1. PICK t \in Task :
          net' = [net EXCEPT !.save = [task |-> t, filter |-> view.filter, answer |-> None]]
    BY <1>1 DEF TS!Save, TS!Editable
  <2> DEFINE r == [task |-> t, filter |-> view.filter, answer |-> None]
  <2>2. r \in TS!SaveRequest
    <3>1. view.filter \in TS!Filters
      BY <1>0 DEF TasksView
    <3> QED  BY <3>1, TasksRequests
  <2>3. net' = [net EXCEPT !.save = r]
    BY <2>1
  <2> HIDE DEF r
  <2>4. net' \in TasksNet /\ net'.patch = net.patch /\ net'.lists = net.lists
    BY <1>0, <2>2, <2>3, TasksNetParts
  <2>5. UNCHANGED <<server, view>> /\ view.load = "success"
    BY <1>1 DEF TS!Save, TS!Reachable
  <2> QED  BY <1>0, <2>4, <2>5, TasksPartsNext
<1>2. CASE \E t \in Task, to \in TaskStatus : TS!CommitTransition(t, to)
  <2>1. PICK t \in Task, to \in TaskStatus : TS!CommitTransition(t, to)
    BY <1>2
  <2> DEFINE r == [task |-> t, to |-> to, filter |-> view.filter, answer |-> None]
  <2>2. r \in TS!PatchRequest /\ r # None
    <3>1. view.filter \in TS!Filters
      BY <1>0 DEF TasksView
    <3> QED  BY <3>1, TasksRequests
  <2>3. /\ net' = [net EXCEPT !.patch = r] /\ view' = [view EXCEPT !.pendingTask = t]
        /\ UNCHANGED server
    BY <2>1 DEF TS!CommitTransition
  <2> HIDE DEF r
  <2>4. net' \in TasksNet /\ net'.patch = r /\ net'.lists = net.lists /\ net'.save = net.save
    BY <1>0, <2>2, <2>3, TasksNetParts
  <2>5. /\ view' \in TasksView /\ view'.load = view.load
        /\ view'.pagePending = view.pagePending
    BY <1>0, <2>3 DEF TasksView
  <2>6. TasksPending(view'.pendingTask, net'.patch, net'.lists)
    BY <2>2, <2>4 DEF TasksPending
  <2> QED  BY <1>0, <2>3, <2>4, <2>5, <2>6, TasksPartsNext
<1>3. CASE TS!Transition
  <2>1. PICK x \in view.list.items : \E to \in TS!Options(x.status) : TS!CommitTransition(x.id, to)
    BY <1>3 DEF TS!Transition
  <2> QED  BY <1>a, <1>2, <2>1
<1>4. CASE TS!ConfirmCancel
  <2>1. view.cancelTask \in Task /\ TS!CommitTransition(view.cancelTask, "CANCELED")
    BY <1>0, <1>4 DEF TS!ConfirmCancel, TS!DialogEnabled, TasksView
  <2> QED  BY <1>2, <2>1, StatusAssumption
<1>5. CASE TS!AskCancel \/ TS!KeepTask
  <2>1. PICK c \in Task \cup {None} : view' = [view EXCEPT !.cancelTask = c]
    BY <1>a, <1>5 DEF TS!AskCancel, TS!KeepTask
  <2>2. UNCHANGED <<server, net>>
    BY <1>5 DEF TS!AskCancel, TS!KeepTask
  <2>3. /\ view' \in TasksView /\ view'.load = view.load
        /\ view'.pagePending = view.pagePending /\ view'.pendingTask = view.pendingTask
    BY <1>0, <2>1 DEF TasksView
  <2> QED  BY <1>0, <2>2, <2>3, TasksPartsNext
<1> QED  BY <1>1, <1>3, <1>4, <1>5

LEMMA TasksStep ==
  ASSUME TasksInv, TS!Next
  PROVE  TasksInv'
BY TasksServed, TasksMore, TasksReloads, TasksArrive, TasksCommands DEF TS!Next, TS!Arrive

LEMMA TasksInit ==
  ASSUME TS!Init
  PROVE  TasksInv
<1>1. server \in [order : Seq(Task), status : [Task -> TaskStatus]]
  <2>1. PICK tasks \in SUBSET Task, status \in [Task -> TaskStatus] :
          server \in [order : TS!SetToSeqs(tasks), status : {status}]
    BY DEF TS!Init
  <2>2. Cardinality(tasks) \in Nat
    <3>1. IsFiniteSet(tasks)
      BY SizesAssumption, FS_Subset
    <3> QED  BY <3>1, FS_CardinalityType
  <2>3. TS!SetToSeqs(tasks) \subseteq Seq(Task)
    <3>1. ASSUME NEW f \in TS!SetToSeqs(tasks)  PROVE f \in Seq(Task)
      <4>1. TS!Cardinality(tasks) = Cardinality(tasks)
        BY DEF TS!Cardinality, Cardinality
      <4>2. f \in [1..Cardinality(tasks) -> tasks]
        BY <4>1, <3>1 DEF TS!SetToSeqs
      <4>3. f \in [1..Cardinality(tasks) -> Task]
        BY <4>2
      <4> QED  BY <2>2, <4>3
    <3> QED  BY <3>1
  <2> QED  BY <2>1, <2>3
<1>2. /\ TS!Slot = 1..MaxLists /\ 1 \in TS!Slot /\ 1 \in 0..MaxLists
  BY SizesAssumption DEF TS!Slot
<1> DEFINE r == TS!List("first", "ALL", 1, FALSE, FALSE)
           lists == [s \in TS!Slot |-> IF s = 1 THEN r ELSE None]
<1>3. r \in TS!ListRequest /\ r # None /\ r.kind = "first" /\ r.preserve = FALSE
  <2>1. "ALL" \in TS!Filters
    BY DEF TS!Filters
  <2>2. \A preserve, awaited \in BOOLEAN :
          LET q == TS!List("first", "ALL", 1, preserve, awaited) IN
          q \in TS!ListRequest /\ q # None /\ q.kind = "first" /\ q.preserve = preserve
    BY <2>1, TasksRequests
  <2> QED  BY <2>2
<1>4. net = [lists |-> lists, ref |-> 1, patch |-> None, save |-> None]
  BY DEF TS!Init
<1> HIDE DEF r
<1>5. lists \in [TS!Slot -> TS!ListRequest \cup {None}] /\ lists[1] = r
  BY <1>2, <1>3
<1> HIDE DEF lists
<1>6. net \in TasksNet /\ net.lists = lists /\ net.patch = None /\ net.save = None
  <2>1. 1 \in 0..MaxLists
    BY <1>2
  <2> QED  BY <1>4, <1>5, <2>1 DEF TasksNet
<1>7. view = [load |-> "loading", list |-> TS!Nothing, filter |-> "ALL", pagePending |-> FALSE,
              pageError |-> FALSE, pendingTask |-> None, cancelTask |-> None]
  BY DEF TS!Init
<1>8. view \in TasksView /\ view.load = "loading" /\ ~view.pagePending /\ view.pendingTask = None
  BY <1>7 DEF TasksView, TS!Nothing, TS!Filters
<1>9. TasksLists(view.load, view.pagePending, net.lists)
  BY <1>2, <1>3, <1>5, <1>6, <1>8 DEF TasksLists
<1>10. TasksPending(view.pendingTask, net.patch, net.lists)
  BY <1>8 DEF TasksPending
<1> QED  BY <1>1, <1>6, <1>8, <1>9, <1>10, TasksParts
=============================================================================
