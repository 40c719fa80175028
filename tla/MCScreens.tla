------------------------------ MODULE MCScreens ------------------------------
(***************************************************************************)
(* The instance of Screens that TLC checks: two tabs, and lists of a few   *)
(* items in pages of one.                                                  *)
(***************************************************************************)
EXTENDS Screens, Sequences, TLC

CONSTANTS t1, t2, s1, s2, alice, bob, ann, ben, abe, d, e

\* Two users with a session each; one tab signs in and out, the other only works.
MCOwner == s1 :> alice @@ s2 :> bob
MCMay == t1 :> {"login", "logout", "logoutAll"} @@ t2 :> {"ask"}

MCLabel == ann :> <<"x">> @@ ben :> <<"x", " ", "x">>
MCMembers == <<abe, ann, ben>>
MCFound == "" :> {abe, ann, ben} @@ "n" :> {ann, ben} @@ "be" :> {abe, ben}

\* The two tasks are interchangeable.
Interchangeable == Permutations({d, e})
=============================================================================
