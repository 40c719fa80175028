------------------------- MODULE MCSessionRotation -------------------------
(* Small instances of SessionRotation for TLC.                             *)
EXTENDS SessionRotation, TLC

\* Requests, and sessions, are interchangeable; used with safety properties only.
RequestSymmetry == Permutations(Request)
Symmetry == RequestSymmetry \cup Permutations(Session)
\* API instances with synchronised clocks, and one that lags behind another.
Synchronised == {0}
Skewed == {0, -1}
=============================================================================
