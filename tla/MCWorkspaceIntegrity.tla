------------------------ MODULE MCWorkspaceIntegrity ------------------------
(* Small instances of WorkspaceIntegrity for TLC.                          *)
EXTENDS WorkspaceIntegrity, TLC

\* Requests are interchangeable, and so are users other than the founder.
Symmetry == Permutations(Request) \cup Permutations(User \ {Founder}) \cup Permutations(Task)
=============================================================================
