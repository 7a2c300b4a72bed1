---------------------------- MODULE QuotaLedger ----------------------------
(***************************************************************************)
(* What quota admission promises for one application, without saying how.  *)
(*                                                                         *)
(* Every upload has a declared size.  Admission either holds that many     *)
(* bytes for it or refuses it; a held upload is settled once, and for      *)
(* good: its bytes are charged to the application or given back.  The      *)
(* bytes held and charged together never exceed the application's quota.   *)
(*                                                                         *)
(* QuotaAdmission is the design that keeps this promise with one counter   *)
(* document and one session document per upload, both in Etcd.             *)
(***************************************************************************)
EXTENDS QuotaBytes

CONSTANTS
  Quota,      \* quota_bytes of the application
  Cap         \* APPLICATION_QUOTA_MAX_ACTIVE_RESERVATIONS

VARIABLE ledger   \* what became of each upload's bytes

Fates == {"none", "held", "charged", "freed"}

In(fate) == {o \in Objects : ledger[o] = fate}

LedgerTypeOK == ledger \in [Objects -> Fates]

LedgerInit == ledger = [o \in Objects |-> "none"]

Settle(o, fate) == /\ ledger[o] = "held"
                   /\ ledger' = [ledger EXCEPT ![o] = fate]

Admit(o) == /\ ledger[o] = "none"
            /\ Cardinality(In("held")) < Cap
            /\ Bytes(In("charged")) + Bytes(In("held")) + Size[o] <= Quota
            /\ ledger' = [ledger EXCEPT ![o] = "held"]

Charge(o) == Settle(o, "charged")
Free(o) == Settle(o, "freed")

LedgerNext == \E o \in Objects : Admit(o) \/ Charge(o) \/ Free(o)

LedgerSpec == LedgerInit /\ [][LedgerNext]_ledger

(* The promise itself: the bytes committed to the application, whether     *)
(* charged or only held, fit its quota, and no more uploads are in         *)
(* progress than the configured cap.                                       *)
WithinQuota == /\ Bytes(In("charged")) + Bytes(In("held")) <= Quota
               /\ Cardinality(In("held")) <= Cap
=============================================================================
