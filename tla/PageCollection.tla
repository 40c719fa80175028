--------------------------- MODULE PageCollection ---------------------------
(* The numbered pages of a list and what a component makes of them:        *)
(* frontend lib/pagination/reconcile-page-collection.ts, and the offset    *)
(* pagination of the lists of projects, tasks and members. Items are       *)
(* records with an id; the order of display is left out.                   *)
EXTENDS FiniteSets, Integers, Sequences

CONSTANT PageSize

Ids(items) == {x.id : x \in items}
Merge(current, incoming) == incoming \cup {x \in current : x.id \notin Ids(incoming)}

\* skip and take over the rows that match, at the places `matching`, in their order, with their
\* count. The two queries of the code, which share a transaction, are one step here.
PageOf(rows, matching, page) ==
  LET skipped(i) == Cardinality({j \in matching : j < i})
  IN [items |-> {rows[i] : i \in {j \in matching : skipped(j) \div PageSize = page - 1}},
      page |-> page, total |-> Cardinality(matching)]

\* reconcilePageCollection; mode "replace" has no current items.
Reconcile(current, p) ==
  LET items == Merge(current, p.items)
      total == IF p.total > Cardinality(items) THEN p.total ELSE Cardinality(items)
      exhausted == p.page * PageSize >= total
  IN [items |-> items, next |-> p.page + 1, exhausted |-> exhausted,
      inconsistent |-> exhausted /\ Cardinality(items) < total]
Nothing == [items |-> {}, next |-> 2, exhausted |-> TRUE, inconsistent |-> FALSE]
=============================================================================
