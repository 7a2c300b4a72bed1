----------------------------- MODULE QuotaBytes -----------------------------
(***************************************************************************)
(* Sizes of uploads, and the bytes a set of uploads amounts to.            *)
(*                                                                         *)
(* The total is the cardinality of the set of the uploads' bytes rather    *)
(* than a fold over the set: the two are the same number, and facts about  *)
(* cardinality are the ones the library proves.                            *)
(***************************************************************************)
EXTENDS Integers, FiniteSets

CONSTANTS
  Objects,    \* object keys; multipart_init draws a fresh UUID for each upload
  Size        \* declared_size_bytes of each upload, rejected unless positive

ASSUME ObjectsAssumption == IsFiniteSet(Objects)
ASSUME SizeAssumption == Size \in [Objects -> Nat \ {0}]

ByteSet(S) == UNION { {o} \X (1 .. Size[o]) : o \in S }

Bytes(S) == Cardinality(ByteSet(S))
=============================================================================
