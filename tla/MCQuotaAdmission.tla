-------------------------- MODULE MCQuotaAdmission --------------------------
(* QuotaAdmission on small instances. *)
EXTENDS QuotaAdmission, TLC

CONSTANTS a, b   \* two uploads

TaskSymmetry == Permutations(Tasks)

(* Uploads of the same size are interchangeable as well. *)
FullSymmetry == TaskSymmetry \cup Permutations(Objects)

MCSize == [o \in Objects |-> IF o = a THEN 1 ELSE 2]

SameSize == [o \in Objects |-> 2]
=============================================================================
