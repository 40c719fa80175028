-------------------------- MODULE MCCommentComposer -------------------------
(* A small instance of CommentComposer for TLC: two members, the label of  *)
(* one of whom begins like a mention of the other's.                       *)
EXTENDS CommentComposer, TLC

CONSTANTS ann, ben

MCLabel == ann :> <<"x">> @@ ben :> <<"x", " ", "x">>
=============================================================================
