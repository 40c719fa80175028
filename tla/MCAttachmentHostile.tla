------------------------ MODULE MCAttachmentHostile ------------------------
(***************************************************************************)
(* AttachmentLifecycle under every fault, within either of two bounds:     *)
(* MaxHostileUploads uploads of HostileSlot beside the reconciler, or      *)
(* overlapping reservations of all slots, of which MaxReleases fail, crash *)
(* or are deleted while no row is old enough to be reconciled.             *)
(***************************************************************************)
EXTENDS MCAttachmentLifecycle

CONSTANTS MaxHostileUploads, HostileSlot, MaxReleases

FewSlots ==
    /\ Cardinality({u \in Upload : up[u] # "idle"}) <= MaxHostileUploads
    /\ \A s \in Slot \ HostileSlot :
         rows[s] = None /\ \A u \in Upload : asked[u] # None => asked[u].slot # s

FewReleases ==
    /\ \A s \in Slot : rows[s] # None => ~rows[s].aged
    /\ \A p \in Run \X Slot : item[p] = None
    /\ \A u \in Upload : objects[u] # Damaged
    /\ Cardinality({u \in Upload : up[u] \in {"failed", "crashed"}})
         + Cardinality({d \in Deletion : del[d] # "idle"}) <= MaxReleases

Within == FewSlots \/ FewReleases
=============================================================================
