----------------------------- MODULE QuotaLimit -----------------------------
(***************************************************************************)
(* The quota of one enabled application is kept five times: in Etcd (the   *)
(* authority), in the compact admission document uploads are checked       *)
(* against, as MinIO's hard quota of every site, in the application        *)
(* document of every region's MongoDB, and in whatever a handler has read. *)
(* Modelled: the administrator's change, the authority's usage pass and    *)
(* its replication repair, which write them too, and the admissions that   *)
(* take no lock.                                                           *)
(***************************************************************************)
EXTENDS Deployment, FiniteSets, Integers

CONSTANTS Updates,      \* the administrators' requests
          NewLimit,     \* the limit each of them asks for
          OldLimit,     \* the limit at the start
          MaxUsed,      \* the bytes that may be charged and reserved
          MaxBusy       \* the jobs and late reads that may be under way at once until all is calm

Pass == "pass"          \* refresh_application_quota_aggregates_once
Repair == "repair"      \* reconcile_replication_policies_task
Jobs == Updates \cup {Pass, Repair}
Limits == {NewLimit[u] : u \in Updates} \cup {OldLimit}

ASSUME LimitConstants ==
  /\ NewLimit \in [Updates -> Nat \ {0}] /\ OldLimit \in Nat \ {0}
  /\ {Pass, Repair} \cap Updates = {} /\ None \notin Jobs

VARIABLES limit,       \* quota_bytes of the applications key
          door,        \* quota_bytes of the compact admission document
          hard,        \* MinIO's hard quota of each site
          shown,       \* quota_bytes of each region's application document
          used,        \* active and reserved bytes of the admission document
          quotaLock,   \* application_quota_lock
          rulesLock,   \* application_replication_lock
          job,
          fetched,     \* the limit a region's pull has read
          pulledSince, \* the authority pulled since the last usage pass
          approved,    \* (ghost) the limits that have been authoritative
          lapsed,      \* (ghost) a lease of a replication lock ended
          limitCalm    \* nothing fails, comes late or runs out under its holder any more

lvars == <<limit, door, hard, shown, used, quotaLock, rulesLock, job, fetched,
           pulledSince, approved, lapsed, limitCalm>>
stores == <<limit, door, hard, shown, used>>
rest == <<fetched, pulledSince, approved, lapsed, limitCalm>>

Resting == [pc |-> "idle"]

LimitInit ==
  /\ limit = OldLimit /\ door = OldLimit /\ used = 0
  /\ hard = [s \in Regions |-> OldLimit] /\ shown = [r \in Regions |-> OldLimit]
  /\ quotaLock = None /\ rulesLock = None
  /\ job = [j \in Jobs |-> Resting]
  /\ fetched = [r \in Regions |-> None] /\ pulledSince = TRUE
  /\ approved = {OldLimit} /\ lapsed = FALSE /\ limitCalm = FALSE

Ended == {"idle", "refused", "failed", "stuck", "converging", "ok"}
Busy == Cardinality({j \in Jobs : job[j].pc \notin Ended}) + Cardinality({r \in Regions : fetched[r] # None})
Room == limitCalm \/ Busy < MaxBusy
At(j, pc) == job[j].pc = pc
To(j, pc) == job' = [job EXCEPT ![j].pc = pc]
\* Both locks are released on every way out.
End(j, how) ==
  /\ job' = [job EXCEPT ![j] = [pc |-> how]]
  /\ quotaLock' = IF quotaLock = j THEN None ELSE quotaLock
  /\ rulesLock' = IF rulesLock = j THEN None ELSE rulesLock
KeepLocks == UNCHANGED <<quotaLock, rulesLock>>

\* The compact admission: a compare-and-swap on the document, under no lock.
AdmitByte == used < door /\ used < MaxUsed /\ used' = used + 1
             /\ UNCHANGED <<limit, door, hard, shown, quotaLock, rulesLock, job, rest>>
ReleaseByte == used > 0 /\ used' = used - 1
               /\ UNCHANGED <<limit, door, hard, shown, quotaLock, rulesLock, job, rest>>

-----------------------------------------------------------------------------
(* update_application_quota.                                               *)
AskLimit(u, r) ==
  /\ job[u] = Resting /\ Room
  /\ job' = [job EXCEPT ![u] = [pc |-> "lock", region |-> r]]
  /\ UNCHANGED <<stores, quotaLock, rulesLock, rest>>

\* The replication lock, or refused as busy when the wait times out.
TakeRules(u) ==
  /\ At(u, "lock")
  /\ \/ rulesLock = None /\ rulesLock' = u /\ To(u, "guard") /\ UNCHANGED quotaLock
     \/ rulesLock # None /\ ~limitCalm /\ End(u, "refused")
  /\ UNCHANGED <<stores, rest>>

\* quota_update_guard takes the quota lock; the usage loader reads the local
\* document, scans every site and saves the document it had read.
TakeGuard(u) ==
  /\ At(u, "guard")
  /\ \/ /\ quotaLock = None /\ quotaLock' = u /\ UNCHANGED rulesLock
        /\ job' = [job EXCEPT ![u] = [pc |-> "load", region |-> job[u].region, doc |-> shown[job[u].region]]]
     \/ quotaLock # None /\ ~limitCalm /\ End(u, "refused")
  /\ UNCHANGED <<stores, rest>>
SaveScan(u) ==
  /\ At(u, "load")
  /\ \/ /\ shown' = [shown EXCEPT ![job[u].region] = job[u].doc]
        /\ To(u, "check") /\ KeepLocks
     \/ ~limitCalm /\ UNCHANGED shown /\ End(u, "refused")         \* a site did not answer
  /\ UNCHANGED <<limit, door, hard, used, rest>>

\* Mutant of CheckUse: admission learns of the limit before Etcd has it.
CheckUseEarly(u) ==
  /\ At(u, "check")
  /\ \/ /\ NewLimit[u] >= used /\ door' = NewLimit[u]
        /\ job' = [job EXCEPT ![u] = [pc |-> "sites", region |-> job[u].region, before |-> hard,
                                      left |-> {s \in Regions : hard[s] # NewLimit[u]}, done |-> {}]]
        /\ KeepLocks
     \/ UNCHANGED door /\ End(u, "refused")
  /\ UNCHANGED <<limit, hard, shown, used, rest>>

\* The new limit must hold what is used and reserved; then the hard quota of
\* every site is read, for the way back.
CheckUse(u) ==
  /\ At(u, "check")
  /\ \/ /\ NewLimit[u] >= used
        /\ job' = [job EXCEPT ![u] = [pc |-> "sites", region |-> job[u].region, before |-> hard,
                                      left |-> {s \in Regions : hard[s] # NewLimit[u]}, done |-> {}]]
        /\ KeepLocks
     \/ End(u, "refused")
  /\ UNCHANGED <<stores, rest>>

\* Mutant of SetSite: a site that failed is not put back.
SetSiteFailed(u) ==
  /\ At(u, "sites")
  /\ \E s \in job[u].left, ok \in {TRUE, limitCalm} :
       /\ hard' \in {[hard EXCEPT ![s] = NewLimit[u]]} \cup (IF ok THEN {} ELSE {hard})
       /\ job' = [job EXCEPT ![u].pc = IF ok THEN "sites" ELSE "undo", ![u].left = @ \ {s},
                             ![u].done = IF ok THEN @ \cup {s} ELSE @]
  /\ UNCHANGED <<limit, door, shown, used, quotaLock, rulesLock, rest>>

\* A site is set; the call may fail whether or not MinIO carried it out.
SetSite(u) ==
  /\ At(u, "sites")
  /\ \E s \in job[u].left, ok \in {TRUE, limitCalm} :
       /\ hard' \in {[hard EXCEPT ![s] = NewLimit[u]]} \cup (IF ok THEN {} ELSE {hard})
       /\ job' = [job EXCEPT ![u].pc = IF ok THEN "sites" ELSE "undo",
                             ![u].left = @ \ {s}, ![u].done = @ \cup {s}]
  /\ UNCHANGED <<limit, door, shown, used, quotaLock, rulesLock, rest>>

\* Etcd; a call that fails may have been carried out as well.
WriteLimit(u) ==
  /\ At(u, "sites") /\ job[u].left = {}
  /\ \/ /\ quotaLock = u
        /\ limit' = NewLimit[u] /\ approved' = approved \cup {NewLimit[u]}
        /\ \E pc \in {"door", IF limitCalm THEN "door" ELSE "undo"} : To(u, pc)
     \/ ~limitCalm /\ UNCHANGED <<limit, approved>> /\ To(u, "undo")
  /\ UNCHANGED <<door, hard, shown, used, quotaLock, rulesLock, fetched, pulledSince, lapsed, limitCalm>>

\* set_admission_quota; a failure here is left to the passes.
SetDoor(u) ==
  /\ At(u, "door")
  /\ \/ door' = NewLimit[u] /\ quotaLock = u /\ To(u, "project") /\ KeepLocks
     \/ ~limitCalm /\ door' \in {door, NewLimit[u]} /\ End(u, "converging")
  /\ UNCHANGED <<limit, hard, shown, used, rest>>
ProjectLimit(u) ==
  /\ At(u, "project")
  /\ shown' \in {shown, [shown EXCEPT ![job[u].region] = NewLimit[u]]}
  /\ End(u, IF quotaLock = u THEN "ok" ELSE "converging")
  /\ UNCHANGED <<limit, door, hard, used, rest>>

\* _restore_bucket_quotas; a site that fails is reported and passed over.
Undo(u) ==
  /\ At(u, "undo")
  /\ IF job[u].done = {} THEN End(u, "failed") /\ UNCHANGED hard
     ELSE \E s \in job[u].done :
            \/ /\ hard' = [hard EXCEPT ![s] = job[u].before[s]]
               /\ job' = [job EXCEPT ![u].done = @ \ {s}] /\ KeepLocks
            \/ ~limitCalm /\ UNCHANGED hard /\ End(u, "stuck")
  /\ UNCHANGED <<limit, door, shown, used, rest>>

\* The lease of the quota lock ended: the holder is cancelled, sooner or later.
CancelUpdate(u) ==
  /\ quotaLock # u
  /\ \/ At(u, "sites") /\ To(u, "undo") /\ KeepLocks
     \/ job[u].pc \in {"load", "check"} /\ End(u, "refused")
     \/ job[u].pc \in {"door", "project"} /\ End(u, "converging")
  /\ UNCHANGED <<stores, rest>>

-----------------------------------------------------------------------------
(* The usage pass of the authority: it reads the local document, scans the *)
(* sites and saves what it read, publishes the limit it read, and saves    *)
(* the document once more.  A pass comes an hour after the last one, when  *)
(* reconciliation has long read Etcd again.                                *)
PassRead ==
  /\ job[Pass] = Resting /\ pulledSince /\ Room
  /\ job' = [job EXCEPT ![Pass] = [pc |-> "scan", doc |-> shown[Authority]]]
  /\ UNCHANGED <<stores, quotaLock, rulesLock, rest>>
PassScan ==
  /\ At(Pass, "scan")
  /\ \/ shown' = [shown EXCEPT ![Authority] = job[Pass].doc] /\ To(Pass, "publish")
     \/ ~limitCalm /\ UNCHANGED shown /\ To(Pass, "save")
  /\ UNCHANGED <<limit, door, hard, used, quotaLock, rulesLock, rest>>
PassLock ==
  /\ At(Pass, "publish")
  /\ \/ quotaLock = None /\ quotaLock' = Pass /\ To(Pass, "locked")
     \/ quotaLock # None /\ ~limitCalm /\ UNCHANGED quotaLock /\ To(Pass, "save")
  /\ UNCHANGED <<stores, rulesLock, rest>>
\* Mutant of PassPublish: the pass leaves the limit of the admission alone.
PassPublishNothing ==
  /\ At(Pass, "locked")
  /\ quotaLock' = IF quotaLock = Pass THEN None ELSE quotaLock
  /\ To(Pass, "save")
  /\ UNCHANGED <<limit, door, hard, shown, used, rulesLock, rest>>
PassPublish ==
  /\ At(Pass, "locked")
  /\ door' \in {job[Pass].doc, IF limitCalm THEN job[Pass].doc ELSE door}
  /\ quotaLock' = IF quotaLock = Pass THEN None ELSE quotaLock
  /\ To(Pass, "save")
  /\ UNCHANGED <<limit, hard, shown, used, rulesLock, rest>>
PassSave ==
  /\ At(Pass, "save")
  /\ shown' \in {shown, [shown EXCEPT ![Authority] = job[Pass].doc]}
  /\ job' = [job EXCEPT ![Pass] = Resting]
  /\ pulledSince' = FALSE
  /\ UNCHANGED <<limit, door, hard, used, quotaLock, rulesLock, fetched, approved, lapsed, limitCalm>>

-----------------------------------------------------------------------------
(* The replication repair of the authority: under both locks the sites are *)
(* set to what Etcd says, and then, the quota lock released, the document  *)
(* if it said otherwise when it was read.                                  *)
RepairRead ==
  /\ job[Repair] = Resting /\ Room
  /\ job' = [job EXCEPT ![Repair] = [pc |-> "lock", doc |-> shown[Authority]]]
  /\ UNCHANGED <<stores, quotaLock, rulesLock, rest>>
RepairLock ==
  /\ At(Repair, "lock")
  /\ \/ rulesLock = None /\ rulesLock' = Repair /\ To(Repair, "guard") /\ UNCHANGED quotaLock
     \/ rulesLock # None /\ job' = [job EXCEPT ![Repair] = Resting] /\ KeepLocks
  /\ UNCHANGED <<stores, rest>>
RepairLimit ==
  /\ At(Repair, "guard")
  /\ \/ /\ quotaLock = None /\ quotaLock' = Repair /\ UNCHANGED rulesLock
        /\ job' = [job EXCEPT ![Repair] = [pc |-> "sites", doc |-> job[Repair].doc,
                                           read |-> limit, left |-> Regions]]
     \/ /\ quotaLock # None /\ ~limitCalm /\ UNCHANGED quotaLock
        /\ rulesLock' = IF rulesLock = Repair THEN None ELSE rulesLock
        /\ job' = [job EXCEPT ![Repair] = Resting]
  /\ UNCHANGED <<stores, rest>>
RepairSite ==
  /\ At(Repair, "sites")
  /\ \E s \in job[Repair].left :
       /\ hard' \in {[hard EXCEPT ![s] = job[Repair].read]} \cup (IF limitCalm THEN {} ELSE {hard})
       /\ job' = [job EXCEPT ![Repair].left = @ \ {s}]
  /\ UNCHANGED <<limit, door, shown, used, quotaLock, rulesLock, rest>>
RepairDone ==
  /\ At(Repair, "sites")
  /\ \/ job[Repair].left = {} /\ job[Repair].doc = job[Repair].read /\ UNCHANGED shown
     \/ /\ ~limitCalm \/ (job[Repair].left = {} /\ job[Repair].doc # job[Repair].read)   \* changed, or degraded
        /\ shown' = [shown EXCEPT ![Authority] = job[Repair].read]
  /\ End(Repair, "idle")
  /\ UNCHANGED <<limit, door, hard, used, rest>>
\* Cancelled for its lost lock: degraded, and saved as such.
RepairCancel ==
  /\ At(Repair, "sites") /\ quotaLock # Repair
  /\ shown' = [shown EXCEPT ![Authority] = job[Repair].read]
  /\ End(Repair, "idle")
  /\ UNCHANGED <<limit, door, hard, used, rest>>

-----------------------------------------------------------------------------
\* A pull takes the applications key; what it, or a watch event, has read
\* may be applied late.
PullLimit(r) ==
  /\ shown' = [shown EXCEPT ![r] = limit]
  /\ pulledSince' = (pulledSince \/ r = Authority)
  /\ UNCHANGED <<limit, door, hard, used, quotaLock, rulesLock, job, fetched, approved, lapsed, limitCalm>>
ReadLimit(r) ==
  /\ fetched[r] = None /\ ~limitCalm /\ Room
  /\ fetched' = [fetched EXCEPT ![r] = limit]
  /\ UNCHANGED <<stores, quotaLock, rulesLock, job, pulledSince, approved, lapsed, limitCalm>>
ApplyLimit(r) ==
  /\ fetched[r] # None
  /\ shown' = [shown EXCEPT ![r] = fetched[r]]
  /\ fetched' = [fetched EXCEPT ![r] = None]
  /\ pulledSince' = (pulledSince \/ r = Authority)
  /\ UNCHANGED <<limit, door, hard, used, quotaLock, rulesLock, job, approved, lapsed, limitCalm>>

QuotaLeaseEnds ==
  /\ quotaLock # None /\ quotaLock' = None
  /\ limitCalm => job[quotaLock].pc \in Ended \cup {"lock", "guard", "scan", "publish", "save"}
  /\ UNCHANGED <<stores, rulesLock, job, rest>>
RulesLeaseEnds ==
  /\ rulesLock # None /\ rulesLock' = None /\ lapsed' = TRUE
  /\ limitCalm => job[rulesLock].pc \in Ended \cup {"lock"}
  /\ UNCHANGED <<stores, quotaLock, job, fetched, pulledSince, approved, limitCalm>>

\* The process of a job stops; its locks stay until their leases end.
JobStops(j) ==
  /\ job[j].pc \notin Ended /\ ~limitCalm
  /\ job' = [job EXCEPT ![j] = IF j \in Updates THEN [pc |-> "stuck"] ELSE Resting]
  /\ pulledSince' = (pulledSince /\ j # Pass)
  /\ UNCHANGED <<stores, quotaLock, rulesLock, fetched, approved, lapsed, limitCalm>>

UpdateStep(u) ==
  \/ TakeRules(u) \/ TakeGuard(u) \/ SaveScan(u) \/ CheckUse(u) \/ SetSite(u)
  \/ WriteLimit(u) \/ SetDoor(u) \/ ProjectLimit(u) \/ Undo(u) \/ CancelUpdate(u)
PassStep == PassRead \/ PassScan \/ PassLock \/ PassPublish \/ PassSave
RepairStep == RepairRead \/ RepairLock \/ RepairLimit \/ RepairSite \/ RepairDone \/ RepairCancel

LimitNext ==
  \/ AdmitByte \/ ReleaseByte
  \/ \E u \in Updates, r \in Regions : AskLimit(u, r)
  \/ \E u \in Updates : UpdateStep(u)
  \/ PassStep \/ RepairStep
  \/ \E r \in Regions : PullLimit(r) \/ ReadLimit(r) \/ ApplyLimit(r)
  \/ QuotaLeaseEnds \/ RulesLeaseEnds
  \/ \E j \in Jobs : JobStops(j)

LimitSpec == LimitInit /\ [][LimitNext]_lvars

\* Locks are granted in no order, so a lock wanted for ever is obtained only
\* under strong fairness.
LimitCalm == ~limitCalm /\ limitCalm' = TRUE /\ UNCHANGED <<stores, quotaLock, rulesLock, job, fetched, pulledSince, approved, lapsed>>
LimitFairness ==
  /\ WF_lvars(LimitCalm) /\ WF_lvars(QuotaLeaseEnds) /\ WF_lvars(RulesLeaseEnds)
  /\ \A u \in Updates : WF_lvars(UpdateStep(u))
  /\ WF_lvars(PassStep) /\ SF_lvars(PassLock)
  /\ WF_lvars(RepairStep) /\ SF_lvars(RepairLimit)
  /\ \A r \in Regions : WF_lvars(PullLimit(r)) /\ WF_lvars(ApplyLimit(r))
LimitFairSpec == LimitInit /\ [][LimitNext \/ LimitCalm]_lvars /\ LimitFairness

-----------------------------------------------------------------------------
LimitTypeOK ==
  /\ limit \in Limits /\ door \in Limits /\ used \in Nat
  /\ hard \in [Regions -> Limits] /\ shown \in [Regions -> Limits]
  /\ quotaLock \in Jobs \cup {None} /\ rulesLock \in Jobs \cup {None}
  /\ DOMAIN job = Jobs /\ fetched \in [Regions -> Limits \cup {None}]
  /\ pulledSince \in BOOLEAN /\ lapsed \in BOOLEAN /\ approved \subseteq Limits

\* Uploads are only ever admitted against a limit that has been authoritative,
\* and the documents show no other: a change that fails before Etcd has it
\* leaves nothing behind for admission, whatever is saved or pulled meanwhile.
OnlyApprovedLimits == door \in approved /\ \A r \in Regions : shown[r] \in approved

\* A change that failed and was undone leaves no site with its limit, unless
\* Etcd did take it, a replication lock was lost on the way, or another change
\* to the same limit is under way or could not be undone.
FailedIsUndone == \A u \in Updates :
  At(u, "failed") /\ ~lapsed /\ NewLimit[u] \notin approved =>
    \A s \in Regions : \/ hard[s] # NewLimit[u]
                       \/ \E v \in Updates \ {u} : NewLimit[v] = NewLimit[u] /\ job[v].pc \in {"sites", "undo", "stuck"}

LimitsAgree == door = limit /\ \A r \in Regions : shown[r] = limit /\ hard[r] = limit
\* When calls stop failing, every copy of the limit becomes what Etcd says.
LimitsConverge == <>[]LimitsAgree
=============================================================================
