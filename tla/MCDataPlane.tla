----------------------------- MODULE MCDataPlane -----------------------------
(***************************************************************************)
(* The life of one object and a one-time link to it on a small instance.   *)
(***************************************************************************)
EXTENDS OneTimeDownload, TLC

\* Requests may be exchanged for one another, and so may those who redeem.
DataPlaneSymmetry == Permutations(Callers) \cup Permutations(Redeemers)

\* Bound: four calls on the object, or a link beside two of them.
TwoCallsBesideLink ==
  \/ \A l \in Links : share[l].pc = "new"
  \/ Cardinality({c \in Callers : call[c].pc # "new"}) <= 2

\* The variables of both parts have their types.
DataTypesOK == LifecycleTypeOK /\ DownloadTypeOK
=============================================================================
