----------------------- MODULE MCAttachmentLifecycle -----------------------
(* Small instances of AttachmentLifecycle for TLC, with numbered slots.    *)
EXTENDS AttachmentLifecycle, TLC

\* Under the limits of AttachmentHostile each is the only one that refuses some reservation: two
\* slots share a task, two others an uploader, three are small and of different ones.
Tasks == <<"t1", "t2", "t3", "t1">>
Creators == <<"x", "y", "z", "y">>
Sizes == <<1, 1, 1, 2>>

\* Upload requests, deletions and reconciler runs are interchangeable, and so are file bodies.
Symmetry == Permutations(Upload) \cup Permutations(Deletion) \cup Permutations(Run)
            \cup Permutations(Content)
=============================================================================
