--------------------------- MODULE MCUserIdentity ---------------------------
(* UserIdentity on small instances. *)
EXTENDS UserIdentity, TLC

ChangeSymmetry == Permutations(Changes)
=============================================================================
