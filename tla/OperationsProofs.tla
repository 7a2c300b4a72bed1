-------------------------- MODULE OperationsProofs --------------------------
(***************************************************************************)
(* What holds of the background work for any number of operations, runs,   *)
(* regions, tasks, members of Etcd and sites.                              *)
(***************************************************************************)
EXTENDS MCOperations, ApplicationProofs, FileInventoryProofs

(* Storage operations.                                                     *)
(* A run and a retiring request work on an operation. *)
Assigned == /\ \A w \in Workers : run[w].pc # "idle" => run[w].op \in Ops
            /\ \A op \in Ops : req[op].pc = "retire" => req[op].old \in Ops

(* A run that is to save a success has carried its operation out. *)
Earned == \A w \in Workers : run[w].pc = "succeed" => done[run[w].op] > 0

OperationInv == TypeOK /\ Assigned /\ Earned /\ SuccessIsReal

(* A run that begins is a run. *)
LEMMA BeginType ==
  ASSUME TypeOK, NEW op \in Ops, RunHere(op)
  PROVE  run' \in [Workers -> Run]
BY DEF TypeOK, RunHere, Begin, Run

(* The types are kept by every step. *)
LEMMA OperationTypeStep ==
  ASSUME TypeOK, Assigned, [Next]_vars
  PROVE  TypeOK'
<1> USE DEF TypeOK, Doc, Request, Run, Active, Terminal
<1>1. CASE UNCHANGED vars
  BY <1>1 DEF vars
<1>2. ASSUME NEW op \in Ops, OpNext(op) PROVE TypeOK'
  <2>1. CASE Ask(op)
    BY <2>1 DEF Ask, ReqGoto
  <2>2. CASE Retire(op)
    BY <2>2 DEF Retire, ReqGoto, Saved, Assigned
  <2>3. CASE Create(op)
    BY <2>3 DEF Create, ReqGoto, Saved
  <2>4. CASE Dispatch(op)
    BY <2>4 DEF Dispatch, ReqGoto, Saved
  <2>5. CASE Publish(op)
    <3>1. run' \in [Workers -> Run]
      BY <2>5, BeginType DEF Publish
    <3>2. req' \in [Ops -> Request]
      BY <2>5 DEF Publish, ReqGoto
    <3> QED
      BY <2>5, <3>1, <3>2 DEF Publish
  <2>6. CASE SaveId(op)
    <3>1. Saved(op, "queued") \in [Ops -> Doc]
      BY DEF Saved
    <3>2. run' \in [Workers -> Run]
      BY <2>6, BeginType DEF SaveId
    <3>3. req' \in [Ops -> Request]
      BY <2>6 DEF SaveId, ReqGoto
    <3> QED
      BY <2>6, <3>1, <3>2, <3>3 DEF SaveId
  <2>7. CASE ReqStop(op)
    BY <2>7 DEF ReqStop, ReqGoto
  <2>8. CASE Drop(op)
    BY <2>8 DEF Drop
  <2>9. CASE WatchRead(op)
    BY <2>9 DEF WatchRead
  <2>10. CASE WatchFail(op)
    BY <2>10 DEF WatchFail
  <2> QED
    BY <1>2, <2>1, <2>2, <2>3, <2>4, <2>5, <2>6, <2>7, <2>8, <2>9, <2>10
    DEF OpNext, ReqStep
<1>3. ASSUME NEW w \in Workers, RunStep(w) PROVE TypeOK'
  <2>1. CASE RunLock(w)
    BY <2>1 DEF RunLock, RunGoto
  <2>2. CASE RunStart(w)
    BY <2>2 DEF RunStart, RunGoto, Saved
  <2>3. CASE RunWork(w)
    BY <2>3 DEF RunWork, RunGoto, Unlocked, Assigned
  <2>4. CASE RunFail(w)
    <3>1. done' \in [Ops -> Nat]
      BY <2>4 DEF RunFail, Assigned
    <3> QED
      BY <2>4, <3>1 DEF RunFail, RunGoto, Unlocked
  <2>5. CASE RunEnd(w)
    BY <2>5 DEF RunEnd, Saved, NoRun, Assigned
  <2> QED
    BY <1>3, <2>1, <2>2, <2>3, <2>4, <2>5 DEF RunStep
<1>4. ASSUME NEW w \in Workers, RunCrash(w) PROVE TypeOK'
  BY <1>4 DEF RunCrash, NoRun
<1>5. ASSUME NEW w \in Workers, NEW op \in Ops, Claim(w, op) PROVE TypeOK'
  BY <1>5 DEF Claim, Begin
<1>6. CASE LoseLock
  BY <1>6 DEF LoseLock
<1>7. CASE WatchStop
  BY <1>7 DEF WatchStop
<1> QED
  BY <1>1, <1>2, <1>3, <1>4, <1>5, <1>6, <1>7 DEF Next

(* Runs and requests only ever move on with an operation of their own. *)
LEMMA AssignedStep ==
  ASSUME TypeOK, Assigned, [Next]_vars
  PROVE  Assigned'
<1> USE DEF TypeOK, Assigned, Request, Run
<1>1. CASE UNCHANGED vars
  BY <1>1 DEF vars
<1>2. ASSUME NEW op \in Ops, OpNext(op) PROVE Assigned'
  <2>1. CASE Ask(op)
    BY <2>1 DEF Ask, ReqGoto
  <2>2. CASE ReqStep(op)
    <3>1. req'[op].pc # "retire" /\ \A p \in Ops \ {op} : req'[p] = req[p]
      BY <2>2 DEF ReqStep, Retire, Create, Dispatch, Publish, SaveId, ReqGoto
    <3>2. \A w \in Workers : run'[w] = run[w] \/ run'[w].op = op
      BY <2>2 DEF ReqStep, Retire, Create, Dispatch, Publish, SaveId, RunHere, Begin
    <3> QED
      BY <3>1, <3>2
  <2>3. CASE ReqStop(op)
    BY <2>3 DEF ReqStop, ReqGoto
  <2>4. CASE Drop(op) \/ WatchRead(op) \/ WatchFail(op)
    BY <2>4 DEF Drop, WatchRead, WatchFail
  <2> QED
    BY <1>2, <2>1, <2>2, <2>3, <2>4 DEF OpNext
<1>3. ASSUME NEW w \in Workers, RunStep(w) \/ RunCrash(w) PROVE Assigned'
  BY <1>3 DEF RunStep, RunLock, RunStart, RunWork, RunFail, RunEnd, RunCrash, RunGoto, NoRun
<1>4. ASSUME NEW w \in Workers, NEW op \in Ops, Claim(w, op) PROVE Assigned'
  BY <1>4 DEF Claim, Begin
<1>5. CASE LoseLock \/ WatchStop
  BY <1>5 DEF LoseLock, WatchStop
<1> QED
  BY <1>1, <1>2, <1>3, <1>4, <1>5 DEF Next

(* No step takes back that an operation was carried out. *)
LEMMA DoneGrows ==
  ASSUME TypeOK, Assigned, [Next]_vars
  PROVE  \A op \in Ops : done[op] > 0 => done'[op] > 0
<1> USE DEF TypeOK
<1>1. ASSUME NEW w \in Workers, RunWork(w) \/ RunFail(w)
      PROVE  \A op \in Ops : done[op] > 0 => done'[op] > 0
  BY <1>1 DEF RunWork, RunFail, Assigned
<1>2. CASE done' = done
  BY <1>2
<1> QED
  BY <1>1, <1>2 DEF Next, vars, OpNext, Ask, ReqStep, Retire, Create, Dispatch, Publish,
     SaveId, ReqStop, Drop, WatchRead, WatchFail, RunStep, RunLock, RunStart, RunEnd,
     RunCrash, Claim, LoseLock, WatchStop

(* A success is saved only by a run that earned it. *)
LEMMA SuccessStep ==
  ASSUME OperationInv, [Next]_vars
  PROVE  Earned' /\ SuccessIsReal'
<1> USE DEF OperationInv, TypeOK, Doc, Request, Run
<1>1. TypeOK' /\ Assigned'
  BY OperationTypeStep, AssignedStep
<1>2. \A op \in Ops : done[op] > 0 => done'[op] > 0
  BY DoneGrows
<1> DEFINE
      RunsFine == \A w \in Workers : run'[w].pc = "succeed" => \/ run'[w] = run[w]
                                                              \/ done'[run'[w].op] > 0
      DocsFine == \A op \in Ops : doc'[op].status = "succeeded"
                                    => doc[op].status = "succeeded" \/ done[op] > 0
<1>3. CASE UNCHANGED vars
  BY <1>3 DEF vars, Earned, SuccessIsReal
<1>4. ASSUME NEW op \in Ops, OpNext(op) PROVE RunsFine /\ DocsFine
  <2>1. RunsFine
    BY <1>4 DEF OpNext, Ask, ReqStep, Retire, Create, Dispatch, Publish, SaveId, ReqStop,
       Drop, WatchRead, WatchFail, RunHere, Begin
  <2>2. DocsFine
    BY <1>4 DEF OpNext, Ask, ReqStep, Retire, Create, Dispatch, Publish, SaveId, ReqStop,
       Drop, WatchRead, WatchFail, Saved
  <2> QED
    BY <2>1, <2>2
<1>5. ASSUME NEW w \in Workers, RunStep(w) \/ RunCrash(w) PROVE RunsFine /\ DocsFine
  <2>1. RunsFine
    BY <1>5 DEF RunStep, RunLock, RunStart, RunWork, RunFail, RunEnd, RunCrash, RunGoto,
       NoRun, Assigned
  <2>2. DocsFine
    BY <1>5 DEF RunStep, RunLock, RunStart, RunWork, RunFail, RunEnd, RunCrash, Saved,
       Earned, Assigned
  <2> QED
    BY <2>1, <2>2
<1>6. ASSUME NEW w \in Workers, NEW op \in Ops, Claim(w, op) PROVE RunsFine /\ DocsFine
  BY <1>6 DEF Claim, Begin
<1>7. CASE LoseLock \/ WatchStop
  BY <1>7 DEF LoseLock, WatchStop, Earned, SuccessIsReal
<1>8. ASSUME RunsFine, DocsFine PROVE Earned' /\ SuccessIsReal'
  <2>1. Earned'
    BY <1>1, <1>2, <1>8 DEF Earned, Assigned
  <2>2. SuccessIsReal'
    BY <1>2, <1>8 DEF SuccessIsReal
  <2> QED
    BY <2>1, <2>2
<1> QED
  BY <1>3, <1>4, <1>5, <1>6, <1>7, <1>8 DEF Next

(* Types, the run's right to its success and the meaning of a saved        *)
(* success together survive every step.                                    *)
THEOREM OperationAlways == Spec => []OperationInv
<1>1. Init => OperationInv
  BY DEF Init, OperationInv, TypeOK, Doc, Request, Run, Active, Terminal, Assigned, Earned,
     SuccessIsReal, NoRun
<1>2. OperationInv /\ [Next]_vars => OperationInv'
  BY OperationTypeStep, AssignedStep, SuccessStep DEF OperationInv
<1> QED
  BY <1>1, <1>2, PTL DEF Spec

(* Every document, request and run is of its type, for any operations and  *)
(* any number of runs.                                                     *)
THEOREM OperationTypes == Spec => []TypeOK
<1>1. OperationInv => TypeOK
  BY DEF OperationInv
<1> QED
  BY <1>1, OperationAlways, PTL

(* A client that polls "succeeded" can rely on it: MinIO carried the       *)
(* operation out, though the status is saved from a copy, by one of        *)
(* several runs, after the lock was released.                              *)
THEOREM SuccessCorrect == Spec => []SuccessIsReal
<1>1. OperationInv => SuccessIsReal
  BY DEF OperationInv
<1> QED
  BY <1>1, OperationAlways, PTL

-----------------------------------------------------------------------------
(* A settled operation stays as it is: who could write it holds a copy, is *)
(* about to read it as active, or claims it as queued.                     *)
LEMMA SettledStep ==
  ASSUME OperationInv, [Next]_vars, NEW op \in Ops, Settled(op)
  PROVE  Settled(op)' /\ doc'[op] = doc[op]
<1> USE OpsAssumption DEF OperationInv, TypeOK, Doc, Request, Run, Settled, Quiet, Active, Terminal
<1>1. CASE UNCHANGED vars
  BY <1>1 DEF vars
<1>2. ASSUME NEW p \in Ops, OpNext(p) PROVE Settled(op)' /\ doc'[op] = doc[op]
  <2>1. CASE Ask(p)
    <3>1. p # op
      BY <2>1 DEF Ask
    <3>2. \A o \in Ops : req'[o] = req[o] \/ (o = p /\ req'[o].old # op)
      BY <2>1 DEF Ask, ReqGoto
    <3>3. UNCHANGED <<doc, run, stale>>
      BY <2>1 DEF Ask
    <3> QED
      BY <3>1, <3>2, <3>3
  <2>2. CASE ReqStep(p)
    <3>1. p # op /\ req[p].old # op
      BY <2>2 DEF ReqStep, Retire, Create, Dispatch, Publish, SaveId
    <3>2. \A o \in Ops : req'[o] = req[o] \/ (o = p /\ req'[o].old = NoOp)
      BY <2>2 DEF ReqStep, Retire, Create, Dispatch, Publish, SaveId, ReqGoto
    <3>3. \A w \in Workers : run'[w] = run[w] \/ run'[w].op = p
      BY <2>2 DEF ReqStep, Retire, Create, Dispatch, Publish, SaveId, RunHere, Begin
    <3>4. Saved(p, "queued")[op] = doc[op] /\ Saved(req[p].old, "failed")[op] = doc[op]
      BY <3>1 DEF Saved
    <3>5. doc'[op] = doc[op] /\ stale' = stale
      BY <2>2, <3>4 DEF ReqStep, Retire, Create, Dispatch, Publish, SaveId
    <3> QED
      BY <3>1, <3>2, <3>3, <3>5
  <2>3. CASE ReqStop(p)
    BY <2>3 DEF ReqStop, ReqGoto
  <2>4. CASE Drop(p) \/ WatchRead(p) \/ WatchFail(p)
    BY <2>4 DEF Drop, WatchRead, WatchFail
  <2> QED
    BY <1>2, <2>1, <2>2, <2>3, <2>4 DEF OpNext
<1>3. ASSUME NEW w \in Workers, RunStep(w) \/ RunCrash(w)
      PROVE  Settled(op)' /\ doc'[op] = doc[op]
  BY <1>3 DEF RunStep, RunLock, RunStart, RunWork, RunFail, RunEnd, RunCrash, RunGoto,
     NoRun, Saved, Assigned
<1>4. ASSUME NEW w \in Workers, NEW p \in Ops, Claim(w, p)
      PROVE  Settled(op)' /\ doc'[op] = doc[op]
  BY <1>4 DEF Claim, Begin
<1>5. CASE LoseLock \/ WatchStop
  BY <1>5 DEF LoseLock, WatchStop
<1> QED
  BY <1>1, <1>2, <1>3, <1>4, <1>5 DEF Next

(* Once everybody has let go of a finished operation its outcome stands:   *)
(* the condition of the claim keeps late and repeated messages away.       *)
THEOREM SettledCorrect == Spec => SettledForGood
<1>1. OperationInv /\ [Next]_vars
        => [\A op \in Ops : Settled(op) => Settled(op)' /\ doc'[op] = doc[op]]_vars
  BY SettledStep
<1> QED
  BY <1>1, OperationAlways, PTL DEF Spec, SettledForGood

-----------------------------------------------------------------------------
(* The removal of buckets.                                                 *)
BareCleanup == [pc : {"new", "refused"}]
AskedCleanup == [pc : {"asked"}, region : Regions, present : SUBSET Regions]
WorkingCleanup == [pc : {"queued", "check", "count", "remove"}, region : Regions, targets : SUBSET Regions,
            left : SUBSET Regions, removed : SUBSET Regions, now : SUBSET Regions, ok : BOOLEAN]
EndedCleanup == [pc : {"failed", "succeeded"}, region : Regions, removed : SUBSET Regions]
CleanupRecords == BareCleanup \cup AskedCleanup \cup WorkingCleanup \cup EndedCleanup

CleanupTypes ==
  /\ cleanup \in [Cleanups -> CleanupRecords]
  /\ latest \in [Regions -> Cleanups \cup {None}] /\ emptied \subseteq Regions

(* What an operation x has recorded of the sites is true; one that removes has found    *)
(* the bucket at its targets and missing where earlier ones recorded it,   *)
(* and, while nothing failed, has recorded the targets behind it.          *)
TrueRecord(x, sites) ==
  /\ x \in WorkingCleanup =>
       /\ x.removed \cup x.now \subseteq sites
       /\ x.pc \in {"count", "remove"} => Regions \ x.targets \subseteq x.removed
       /\ x.pc = "remove" /\ x.ok => x.targets \ x.left \subseteq x.now
  /\ x \in EndedCleanup => x.removed \subseteq sites /\ (x.pc = "succeeded" => x.removed = Regions)

CleanupInv == CleanupTypes /\ \A o \in Cleanups : TrueRecord(cleanup[o], emptied)

-----------------------------------------------------------------------------
(* A step that replaces one operation, and never forgets an emptied site.  *)
LEMMA Replaced ==
  ASSUME CleanupInv, NEW o \in Cleanups, NEW x \in CleanupRecords, cleanup' = [cleanup EXCEPT ![o] = x],
         latest' \in [Regions -> Cleanups \cup {None}],
         emptied \subseteq emptied', emptied' \subseteq Regions, TrueRecord(x, emptied')
  PROVE  CleanupInv'
<1>1. CleanupTypes'
  BY DEF CleanupInv, CleanupTypes
<1>2. cleanup'[o] = x /\ \A q \in Cleanups \ {o} : cleanup'[q] = cleanup[q]
  BY DEF CleanupInv, CleanupTypes
<1>3. \A q \in Cleanups \ {o} : TrueRecord(cleanup'[q], emptied')
  BY <1>2 DEF CleanupInv, TrueRecord
<1> QED
  BY <1>1, <1>2, <1>3 DEF CleanupInv, TrueRecord

LEMMA WorkingCleanupType ==
  ASSUME CleanupInv, NEW o \in Cleanups, cleanup[o].pc \in {"queued", "check", "count", "remove"}
  PROVE  cleanup[o] \in WorkingCleanup /\ TrueRecord(cleanup[o], emptied)
BY DEF CleanupInv, CleanupTypes, CleanupRecords, BareCleanup, AskedCleanup, WorkingCleanup, EndedCleanup

(* An operation that ends with what it had recorded, or with all of it.    *)
LEMMA EndKeeps ==
  ASSUME CleanupInv, NEW o \in Cleanups, cleanup[o] \in WorkingCleanup, NEW pc \in {"failed", "succeeded"},
         NEW removed \in SUBSET emptied, EndCleanup(o, pc, removed),
         pc = "succeeded" => removed = Regions, UNCHANGED <<latest, emptied>>
  PROVE  CleanupInv'
<1> DEFINE x == [pc |-> pc, region |-> cleanup[o].region, removed |-> removed]
<1>1. x \in EndedCleanup /\ x.pc = pc /\ x.removed = removed /\ x \notin WorkingCleanup
  BY DEF EndedCleanup, WorkingCleanup, CleanupInv, CleanupTypes
<1>2. cleanup' = [cleanup EXCEPT ![o] = x]
  BY DEF EndCleanup
<1> HIDE DEF x
<1>3. TrueRecord(x, emptied')
  BY <1>1 DEF TrueRecord
<1> QED
  BY <1>1, <1>2, <1>3, Replaced DEF CleanupRecords, CleanupInv, CleanupTypes

LEMMA FailKeeps ==
  ASSUME CleanupInv, NEW o \in Cleanups, cleanup[o] \in WorkingCleanup, EndCleanup(o, "failed", cleanup[o].removed),
         UNCHANGED <<latest, emptied>>
  PROVE  CleanupInv'
<1>1. cleanup[o].removed \in SUBSET emptied
  BY DEF CleanupInv, TrueRecord
<1> QED
  BY <1>1, EndKeeps

(* An operation that goes on.                                              *)
LEMMA CleanupGoesOn ==
  ASSUME CleanupInv, NEW o \in Cleanups, NEW x \in WorkingCleanup, cleanup' = [cleanup EXCEPT ![o] = x],
         UNCHANGED latest, emptied \subseteq emptied', emptied' \subseteq Regions,
         x.removed \cup x.now \subseteq emptied',
         x.pc \in {"count", "remove"} => Regions \ x.targets \subseteq x.removed,
         x.pc = "remove" /\ x.ok => x.targets \ x.left \subseteq x.now
  PROVE  CleanupInv'
<1>1. x \notin EndedCleanup
  BY DEF WorkingCleanup, EndedCleanup
<1>2. TrueRecord(x, emptied')
  BY <1>1 DEF TrueRecord
<1> QED
  BY <1>2, Replaced DEF CleanupRecords, CleanupInv, CleanupTypes

-----------------------------------------------------------------------------
LEMMA AskSteps ==
  ASSUME CleanupInv, NEW o \in Cleanups, (\E r \in Regions : AskCleanup(o, r)) \/ CreateCleanup(o)
  PROVE  CleanupInv'
<1>1. ASSUME NEW r \in Regions, AskCleanup(o, r) PROVE CleanupInv'
  <2> DEFINE x == [pc |-> "asked", region |-> r, present |-> Present]
  <2>1. x \in AskedCleanup /\ x \notin WorkingCleanup /\ x \notin EndedCleanup
    BY DEF AskedCleanup, WorkingCleanup, EndedCleanup, Present
  <2>2. cleanup' = [cleanup EXCEPT ![o] = x] /\ UNCHANGED <<latest, emptied>>
    BY <1>1 DEF AskCleanup, GhostsSame
  <2> HIDE DEF x
  <2> QED
    BY <2>1, <2>2, Replaced DEF CleanupRecords, CleanupInv, CleanupTypes, TrueRecord
<1>2. CASE CreateCleanup(o)
  <2> DEFINE r == cleanup[o].region
             present == cleanup[o].present
             before == IF Recovers(r, present) THEN cleanup[latest[r]].removed ELSE {}
  <2>1. cleanup[o] \in AskedCleanup /\ r \in Regions /\ present \in SUBSET Regions
    BY <1>2 DEF CreateCleanup, CleanupAt, CleanupInv, CleanupTypes, CleanupRecords, BareCleanup, AskedCleanup, WorkingCleanup, EndedCleanup
  <2>2. before \in SUBSET emptied
    <3>1. CASE Recovers(r, present)
      <4>1. latest[r] \in Cleanups /\ cleanup[latest[r]].pc = "failed"
        BY <2>1, <3>1 DEF Recovers, FailedIn, CleanupAt, CleanupInv, CleanupTypes
      <4>2. cleanup[latest[r]] \in EndedCleanup
        BY <4>1 DEF CleanupInv, CleanupTypes, CleanupRecords, BareCleanup, AskedCleanup, WorkingCleanup, EndedCleanup
      <4> QED
        BY <3>1, <4>1, <4>2 DEF CleanupInv, TrueRecord
    <3> QED
      BY <3>1
  <2>3. UNCHANGED emptied
    BY <1>2 DEF CreateCleanup
  <2>4. CASE cleanup' = [cleanup EXCEPT ![o] = [pc |-> "refused"]] /\ UNCHANGED latest
    <3> DEFINE x == [pc |-> "refused"]
    <3>1. x \in BareCleanup /\ x \notin WorkingCleanup /\ x \notin EndedCleanup
      BY DEF BareCleanup, WorkingCleanup, EndedCleanup
    <3> HIDE DEF x
    <3>2. cleanup' = [cleanup EXCEPT ![o] = x] /\ UNCHANGED latest
      BY <2>4 DEF x
    <3> QED
      BY <2>3, <3>1, <3>2, Replaced DEF CleanupRecords, CleanupInv, CleanupTypes, TrueRecord
  <2>5. CASE /\ cleanup' = [cleanup EXCEPT ![o] =
                  [pc |-> "queued", region |-> r, targets |-> present, left |-> present,
                   removed |-> before, now |-> {}, ok |-> TRUE]]
             /\ latest' = [latest EXCEPT ![r] = o]
    <3> DEFINE x == [pc |-> "queued", region |-> r, targets |-> present, left |-> present,
                     removed |-> before, now |-> {}, ok |-> TRUE]
    <3>0. before \in SUBSET Regions
      BY <2>2 DEF CleanupInv, CleanupTypes
    <3> HIDE DEF before, r, present
    <3>1. x \in WorkingCleanup /\ x.pc = "queued" /\ x.removed = before /\ x.now = {}
      BY <2>1, <3>0 DEF WorkingCleanup
    <3>2. cleanup' = [cleanup EXCEPT ![o] = x] /\ latest' \in [Regions -> Cleanups \cup {None}]
      BY <2>1, <2>5 DEF CleanupInv, CleanupTypes
    <3> HIDE DEF x
    <3>3. TrueRecord(x, emptied')
      BY <2>2, <2>3, <3>1 DEF TrueRecord, WorkingCleanup, EndedCleanup
    <3> QED
      BY <2>3, <3>1, <3>2, <3>3, Replaced DEF CleanupRecords, CleanupInv, CleanupTypes
  <2> QED
    BY <1>2, <2>4, <2>5 DEF CreateCleanup
<1> QED
  BY <1>1, <1>2

LEMMA CheckSteps ==
  ASSUME CleanupInv, NEW o \in Cleanups, CleanupLock(o) \/ CleanupCheck(o) \/ CleanupCount(o)
  PROVE  CleanupInv'
<1> DEFINE held == cleanup[o]
<1>1. /\ held \in WorkingCleanup /\ TrueRecord(held, emptied) /\ held.pc \in {"queued", "check", "count"}
      /\ UNCHANGED <<latest, emptied>> /\ emptied \subseteq Regions
  BY WorkingCleanupType DEF CleanupLock, CleanupCheck, CleanupCount, CleanupAt, GhostsSame, CleanupInv, CleanupTypes
<1>2. CASE EndCleanup(o, "failed", cleanup[o].removed)
  BY <1>1, <1>2, FailKeeps
<1>3. CASE CleanupLock(o) /\ CleanupTo(o, "check")
  <2> DEFINE x == [held EXCEPT !.pc = "check"]
  <2>1. x \in WorkingCleanup /\ x.pc = "check" /\ x.removed = held.removed /\ x.now = held.now
    BY <1>1 DEF WorkingCleanup
  <2>2. cleanup' = [cleanup EXCEPT ![o] = x]
    BY <1>3 DEF CleanupTo, CleanupInv, CleanupTypes
  <2> HIDE DEF x
  <2> QED
    BY <1>1, <2>1, <2>2, CleanupGoesOn DEF TrueRecord
<1>4. CASE CleanupCheck(o) /\ held.targets = Present /\ Missing \subseteq held.removed /\ CleanupTo(o, "count")
  <2> DEFINE x == [held EXCEPT !.pc = "count"]
  <2>1. /\ x \in WorkingCleanup /\ x.pc = "count" /\ x.removed = held.removed /\ x.now = held.now
        /\ x.targets = held.targets
    BY <1>1 DEF WorkingCleanup
  <2>2. cleanup' = [cleanup EXCEPT ![o] = x]
    BY <1>4 DEF CleanupTo, CleanupInv, CleanupTypes
  <2>3. Regions \ held.targets \subseteq held.removed
    BY <1>4 DEF Missing
  <2> HIDE DEF x
  <2> QED
    BY <1>1, <2>1, <2>2, <2>3, CleanupGoesOn DEF TrueRecord
<1>5. CASE CleanupCount(o) /\ held.left # {}
  <2>1. PICK s \in held.left, counts \in BOOLEAN :
          cleanup' = [cleanup EXCEPT ![o].left = @ \ {s}, ![o].ok = @ /\ counts /\ bucket[s] # "full"]
    BY <1>5 DEF CleanupCount
  <2> DEFINE x == [held EXCEPT !.left = @ \ {s}, !.ok = @ /\ counts /\ bucket[s] # "full"]
  <2>2. /\ x \in WorkingCleanup /\ x.pc = held.pc /\ x.removed = held.removed /\ x.now = held.now
        /\ x.targets = held.targets
    BY <1>1 DEF WorkingCleanup
  <2>3. cleanup' = [cleanup EXCEPT ![o] = x]
    BY <2>1 DEF CleanupInv, CleanupTypes
  <2>4. held.pc = "count"
    BY <1>5 DEF CleanupCount, CleanupAt
  <2> HIDE DEF x
  <2> QED
    BY <1>1, <2>2, <2>3, <2>4, CleanupGoesOn DEF TrueRecord
<1>6. CASE /\ CleanupCount(o)
           /\ cleanup' = [cleanup EXCEPT ![o].pc = "remove", ![o].left = cleanup[o].targets]
  <2> DEFINE x == [held EXCEPT !.pc = "remove", !.left = cleanup[o].targets]
  <2>1. /\ x \in WorkingCleanup /\ x.pc = "remove" /\ x.removed = held.removed /\ x.now = held.now
        /\ x.targets = held.targets /\ x.left = held.targets
    BY <1>1 DEF WorkingCleanup
  <2>2. cleanup' = [cleanup EXCEPT ![o] = x]
    BY <1>6 DEF CleanupInv, CleanupTypes
  <2>3. held.pc = "count"
    BY <1>6 DEF CleanupCount, CleanupAt
  <2> HIDE DEF x
  <2> QED
    BY <1>1, <2>1, <2>2, <2>3, CleanupGoesOn DEF TrueRecord
<1> QED
  BY <1>2, <1>3, <1>4, <1>5, <1>6 DEF CleanupLock, CleanupCheck, CleanupCount

LEMMA RemoveSteps ==
  ASSUME CleanupInv, NEW o \in Cleanups, CleanupRemove(o) \/ CleanupEnd(o) \/ CleanupStops(o)
  PROVE  CleanupInv'
<1> DEFINE held == cleanup[o]
<1>1. held \in WorkingCleanup /\ TrueRecord(held, emptied) /\ emptied \subseteq Regions
  BY WorkingCleanupType DEF CleanupRemove, CleanupEnd, CleanupStops, CleanupAt, Underway, CleanupInv, CleanupTypes, CleanupRecords,
     BareCleanup, AskedCleanup, WorkingCleanup, EndedCleanup
<1>2. CASE CleanupRemove(o)
  <2>1. PICK s \in held.left, told \in BOOLEAN :
          /\ cleanup' = [cleanup EXCEPT ![o].left = @ \ {s}, ![o].ok = @ /\ told,
                                        ![o].now = IF told THEN @ \cup {s} ELSE @]
             \/ (~told /\ cleanup' = [cleanup EXCEPT ![o].left = @ \ {s}, ![o].ok = FALSE])
          /\ emptied' \in {emptied, emptied \cup {s}} /\ (told => s \in emptied')
    BY <1>2 DEF CleanupRemove, GhostsSame
  <2> DEFINE x == [held EXCEPT !.left = @ \ {s}, !.ok = @ /\ told, !.now = IF told THEN @ \cup {s} ELSE @]
  <2>2. /\ x \in WorkingCleanup /\ x.pc = held.pc /\ x.removed = held.removed /\ x.targets = held.targets
        /\ x.left = held.left \ {s} /\ x.ok = (held.ok /\ told)
        /\ x.now = IF told THEN held.now \cup {s} ELSE held.now
    BY <1>1 DEF WorkingCleanup
  <2>3. cleanup' = [cleanup EXCEPT ![o] = x]
    BY <1>1, <2>1 DEF CleanupInv, CleanupTypes, WorkingCleanup
  <2>4. emptied' \in {emptied, emptied \cup {s}} /\ (told => s \in emptied')
    BY <2>1
  <2>5. held.pc = "remove" /\ s \in Regions /\ UNCHANGED latest
    BY <1>1, <1>2 DEF CleanupRemove, CleanupAt, WorkingCleanup
  <2> HIDE DEF x
  <2> QED
    <3>1. emptied \subseteq emptied' /\ emptied' \subseteq Regions
      BY <1>1, <2>4, <2>5
    <3>2. x.removed \cup x.now \subseteq emptied'
      BY <1>1, <2>2, <2>4, <3>1 DEF TrueRecord
    <3>3. x.pc \in {"count", "remove"} => Regions \ x.targets \subseteq x.removed
      BY <1>1, <2>2, <2>5 DEF TrueRecord
    <3>4. x.pc = "remove" /\ x.ok => x.targets \ x.left \subseteq x.now
      BY <1>1, <2>2, <2>5 DEF TrueRecord
    <3> QED
      BY <2>2, <2>3, <2>5, <3>1, <3>2, <3>3, <3>4, CleanupGoesOn
<1>3. CASE CleanupEnd(o)
  <2> DEFINE pc == IF held.ok THEN "succeeded" ELSE "failed"
  <2>1. held.pc = "remove" /\ held.left = {} /\ EndCleanup(o, pc, RemovedByNow(o)) /\ UNCHANGED <<latest, emptied>>
    BY <1>3 DEF CleanupEnd, CleanupAt, GhostsSame
  <2>2. RemovedByNow(o) \in SUBSET emptied
    BY <1>1 DEF TrueRecord, RemovedByNow
  <2>3. held.ok => RemovedByNow(o) = Regions
    BY <1>1, <2>1, <2>2 DEF TrueRecord, RemovedByNow, WorkingCleanup
  <2> QED
    BY <1>1, <2>1, <2>2, <2>3, EndKeeps
<1>4. CASE CleanupStops(o)
  BY <1>1, <1>4, FailKeeps DEF CleanupStops
<1> QED
  BY <1>2, <1>3, <1>4

LEMMA CleanupInvInit == CleanupInit => CleanupInv
BY DEF CleanupInit, CleanupInv, CleanupTypes, TrueRecord, Asleep, CleanupRecords, BareCleanup, WorkingCleanup, EndedCleanup

LEMMA CleanupInvStep == CleanupInv /\ [CleanupNext]_bvars => CleanupInv'
<1> SUFFICES ASSUME CleanupInv, [CleanupNext]_bvars PROVE CleanupInv'
  OBVIOUS
<1>1. CASE UNCHANGED <<cleanup, latest, emptied>>
  BY <1>1 DEF CleanupInv, CleanupTypes, TrueRecord
<1>2. ASSUME NEW o \in Cleanups,
             \/ \E r \in Regions : AskCleanup(o, r)
             \/ CleanupStep(o) \/ CleanupStops(o)
      PROVE  CleanupInv'
  BY <1>2, AskSteps, CheckSteps, RemoveSteps DEF CleanupStep
<1> QED
  BY <1>1, <1>2 DEF CleanupNext, Retain, ReleaseRetention, CleanLeaseEnds, OwnerChanges, SiteChanges, GhostsSame,
     bvars

(* Whatever fails, stops, loses its lock or overlaps: a site in a record   *)
(* was emptied by a removal that was told so, and a removal that reports   *)
(* success has the bucket off every site.                                  *)
THEOREM RecordsCorrect == CleanupSpec => []RecordsAreTrue
<1>1. CleanupInv => RecordsAreTrue
  BY DEF CleanupInv, CleanupTypes, TrueRecord, RecordsAreTrue, CleanupAt, CleanupRecords, BareCleanup, AskedCleanup, WorkingCleanup, EndedCleanup
<1> QED
  BY <1>1, CleanupInvInit, CleanupInvStep, PTL DEF CleanupSpec

-----------------------------------------------------------------------------
(* What an operation has recorded, or will have when it ends.              *)
Told(x) == IF x \in WorkingCleanup THEN x.removed \cup x.now ELSE IF x \in EndedCleanup THEN x.removed ELSE {}
(* An operation under way is the newest of its region, and what is newest  *)
(* is under way or has ended.                                              *)
Newest ==
  /\ \A o \in Cleanups : cleanup[o] \in WorkingCleanup => latest[cleanup[o].region] = o
  /\ \A r \in Regions : latest[r] # None => cleanup[latest[r]] \in WorkingCleanup \cup EndedCleanup
NotYetNow == \A o \in Cleanups : cleanup[o] \in WorkingCleanup /\ cleanup[o].pc # "remove" => cleanup[o].now = {}
(* Every site without the bucket is, or will be, in a newest record.       *)
Covered == ~untold =>
  \A s \in Missing : \E r \in Regions : latest[r] # None /\ s \in Told(cleanup[latest[r]])
SitesTyped == bucket \in [Regions -> {"absent", "empty", "full"}]
RecordInv == CleanupInv /\ SitesTyped /\ untold \in BOOLEAN /\ Newest /\ NotYetNow /\ Covered

LEMMA RecordInit == CleanupInit => RecordInv
<1> SUFFICES ASSUME CleanupInit PROVE RecordInv
  OBVIOUS
<1>1. CleanupInv
  BY CleanupInvInit
<1>2. \A o \in Cleanups : cleanup[o] = [pc |-> "new"] /\ cleanup[o] \notin WorkingCleanup
  BY DEF CleanupInit, Asleep, WorkingCleanup
<1>3. \A r \in Regions : latest[r] = None /\ bucket[r] # "absent"
  BY DEF CleanupInit
<1>4. Missing = {}
  BY <1>3 DEF Missing, Present
<1>5. untold \in BOOLEAN /\ SitesTyped
  BY DEF CleanupInit, SitesTyped
<1> QED BY <1>1, <1>2, <1>3, <1>4, <1>5 DEF RecordInv, Newest, NotYetNow, Covered

LEMMA CleanupKinds ==
  ASSUME CleanupInv, NEW o \in Cleanups
  PROVE  /\ cleanup[o] \in WorkingCleanup <=> cleanup[o].pc \in {"queued", "check", "count", "remove"}
         /\ cleanup[o] \in EndedCleanup <=> cleanup[o].pc \in {"failed", "succeeded"}
         /\ cleanup[o] \in AskedCleanup <=> cleanup[o].pc = "asked"
         /\ cleanup[o] \in WorkingCleanup => cleanup[o].region \in Regions
BY DEF CleanupInv, CleanupTypes, CleanupRecords, BareCleanup, AskedCleanup, WorkingCleanup, EndedCleanup

(* A step that replaces one operation, but not the newest of any region.   *)
LEMMA RecordStays ==
  ASSUME RecordInv, CleanupInv', SitesTyped', NEW o \in Cleanups, NEW x, cleanup' = [cleanup EXCEPT ![o] = x],
         latest' = latest, untold' \in BOOLEAN, untold => untold',
         cleanup[o] \in WorkingCleanup => x \in WorkingCleanup \cup EndedCleanup,
         x \in WorkingCleanup => /\ cleanup[o] \in WorkingCleanup /\ x.region = cleanup[o].region
                                 /\ x.pc # "remove" => x.now = {},
         untold' \/ Told(cleanup[o]) \subseteq Told(x), cleanup[o] \notin EndedCleanup,
         \A s \in Missing' : s \in Missing \/ untold' \/ (cleanup[o] \in WorkingCleanup /\ s \in Told(x))
  PROVE  RecordInv'
<1>1. cleanup'[o] = x /\ \A q \in Cleanups : q # o => cleanup'[q] = cleanup[q]
  BY DEF RecordInv, CleanupInv, CleanupTypes
<1>2. Newest'
  <2>1. ASSUME NEW q \in Cleanups, cleanup'[q] \in WorkingCleanup PROVE latest[cleanup'[q].region] = q
    BY <1>1, <2>1 DEF RecordInv, Newest
  <2>2. ASSUME NEW r \in Regions, latest[r] # None PROVE cleanup'[latest[r]] \in WorkingCleanup \cup EndedCleanup
    <3>1. latest[r] \in Cleanups /\ cleanup[latest[r]] \in WorkingCleanup \cup EndedCleanup
      BY <2>2 DEF RecordInv, Newest, CleanupInv, CleanupTypes
    <3> QED BY <3>1, <1>1
  <2> QED BY <2>1, <2>2 DEF Newest
<1>3. NotYetNow'
  BY <1>1 DEF RecordInv, NotYetNow
<1>4. Covered'
  <2> SUFFICES ASSUME ~untold', NEW s \in Missing'
               PROVE  \E r \in Regions : latest[r] # None /\ s \in Told(cleanup'[latest[r]])
    BY DEF Covered
  <2>1. CASE s \in Missing
    <3>1. PICK r \in Regions : latest[r] # None /\ s \in Told(cleanup[latest[r]])
      BY <2>1 DEF RecordInv, Covered
    <3>2. latest[r] \in Cleanups
      BY <3>1 DEF RecordInv, CleanupInv, CleanupTypes
    <3>3. s \in Told(cleanup'[latest[r]])
      BY <3>1, <3>2, <1>1
    <3> QED BY <3>1, <3>3
  <2>2. CASE cleanup[o] \in WorkingCleanup /\ s \in Told(x)
    <3>1. latest[cleanup[o].region] = o /\ cleanup[o].region \in Regions
      BY <2>2, CleanupKinds DEF RecordInv, Newest
    <3>2. o # None
      BY NoneIsNoCleanup
    <3> QED BY <2>2, <3>1, <3>2, <1>1
  <2> QED BY <2>1, <2>2
<1> QED BY <1>2, <1>3, <1>4 DEF RecordInv

LEMMA RecordEnds ==
  ASSUME RecordInv, CleanupInv', SitesTyped', NEW o \in Cleanups, cleanup[o] \in WorkingCleanup, NEW pc \in {"failed", "succeeded"},
         NEW removed \in SUBSET Regions, EndCleanup(o, pc, removed), UNCHANGED <<latest, bucket>>,
         untold' \in BOOLEAN, untold => untold',
         untold' \/ removed = cleanup[o].removed \cup cleanup[o].now
  PROVE  RecordInv'
<1> DEFINE x == [pc |-> pc, region |-> cleanup[o].region, removed |-> removed]
<1>1. x \in EndedCleanup /\ x \notin WorkingCleanup /\ x.removed = removed
  BY CleanupKinds DEF EndedCleanup, WorkingCleanup, RecordInv
<1>2. cleanup' = [cleanup EXCEPT ![o] = x]
  BY DEF EndCleanup
<1>3. cleanup[o] \notin EndedCleanup
  BY DEF WorkingCleanup, EndedCleanup
<1> HIDE DEF x
<1>4. Told(x) = removed /\ Told(cleanup[o]) = cleanup[o].removed \cup cleanup[o].now
  BY <1>1 DEF Told
<1>5. Missing' = Missing
  BY DEF Missing, Present
<1> QED BY <1>1, <1>2, <1>3, <1>4, <1>5, RecordStays

LEMMA RecordAsked ==
  ASSUME RecordInv, CleanupInv', SitesTyped', NEW o \in Cleanups, NEW r \in Regions, AskCleanup(o, r)
  PROVE  RecordInv'
<1> DEFINE x == [pc |-> "asked", region |-> r, present |-> Present]
<1>1. x \notin WorkingCleanup /\ x \notin EndedCleanup
  BY DEF WorkingCleanup, EndedCleanup
<1>2. cleanup' = [cleanup EXCEPT ![o] = x] /\ UNCHANGED <<latest, untold, bucket>>
  BY DEF AskCleanup, GhostsSame, WorldSame
<1>3. cleanup[o] \notin WorkingCleanup /\ cleanup[o] \notin EndedCleanup
  BY CleanupKinds DEF AskCleanup, CleanupAt, RecordInv
<1> HIDE DEF x
<1>4. Told(cleanup[o]) \subseteq Told(x)
  BY <1>3 DEF Told
<1>5. Missing' = Missing
  BY <1>2 DEF Missing, Present
<1>6. untold' \in BOOLEAN
  BY <1>2 DEF RecordInv
<1> QED BY <1>1, <1>2, <1>3, <1>4, <1>5, <1>6, RecordStays

(* A request that goes on takes over the record of the removal before it,  *)
(* or the bucket is on every site.                                         *)
LEMMA RecordCreated ==
  ASSUME RecordInv, CleanupInv', SitesTyped', NEW o \in Cleanups, CreateCleanup(o)
  PROVE  RecordInv'
<1> DEFINE r == cleanup[o].region
           present == cleanup[o].present
           before == IF Recovers(r, present) THEN cleanup[latest[r]].removed ELSE {}
<1>1. cleanup[o] \in AskedCleanup /\ cleanup[o] \notin WorkingCleanup /\ cleanup[o] \notin EndedCleanup
  BY CleanupKinds DEF CreateCleanup, CleanupAt, RecordInv
<1>2. r \in Regions /\ present \in SUBSET Regions
  BY <1>1 DEF AskedCleanup
<1>3. UNCHANGED bucket /\ untold' = (untold \/ present # Present)
  BY DEF CreateCleanup, WorldSame
<1>4. untold' \in BOOLEAN /\ (untold => untold') /\ (~untold' => present = Present)
  BY <1>3 DEF RecordInv
<1>5. Missing' = Missing
  BY <1>3 DEF Missing, Present
<1>6. CASE cleanup' = [cleanup EXCEPT ![o] = [pc |-> "refused"]] /\ UNCHANGED latest
  <2> DEFINE x == [pc |-> "refused"]
  <2>1. x \notin WorkingCleanup /\ x \notin EndedCleanup
    BY DEF WorkingCleanup, EndedCleanup
  <2> HIDE DEF x
  <2>2. Told(cleanup[o]) \subseteq Told(x)
    BY <1>1 DEF Told
  <2>3. cleanup' = [cleanup EXCEPT ![o] = x] /\ latest' = latest
    BY <1>6 DEF x
  <2> QED BY <1>1, <1>4, <1>5, <2>1, <2>2, <2>3, RecordStays
<1>7. CASE /\ ~ActiveIn(r) /\ (present = Regions \/ Recovers(r, present))
           /\ cleanup' = [cleanup EXCEPT ![o] =
                [pc |-> "queued", region |-> r, targets |-> present, left |-> present,
                 removed |-> before, now |-> {}, ok |-> TRUE]]
           /\ latest' = [latest EXCEPT ![r] = o]
  <2> DEFINE x == [pc |-> "queued", region |-> r, targets |-> present, left |-> present,
                   removed |-> before, now |-> {}, ok |-> TRUE]
  <2>1. cleanup' = [cleanup EXCEPT ![o] = x]
    BY <1>7
  <2>2. cleanup'[o] = x /\ \A q \in Cleanups : q # o => cleanup'[q] = cleanup[q]
    BY <2>1 DEF RecordInv, CleanupInv, CleanupTypes
  <2>3. x.pc = "queued" /\ x.region = r /\ x.removed = before /\ x.now = {}
    OBVIOUS
  <2> HIDE DEF x
  <2>4. x \in WorkingCleanup
    BY <2>2, <2>3 DEF CleanupInv, CleanupTypes, CleanupRecords, BareCleanup, AskedCleanup, WorkingCleanup, EndedCleanup
  <2>5. Told(x) = before
    BY <2>3, <2>4 DEF Told
  <2>6. latest'[r] = o /\ \A q \in Regions : q # r => latest'[q] = latest[q]
    BY <1>2, <1>7 DEF RecordInv, CleanupInv, CleanupTypes
  <2>7. o # None
    BY NoneIsNoCleanup
  <2>8. \A q \in Regions : latest[q] # None => latest[q] \in Cleanups /\ latest[q] # o
    BY <1>1 DEF RecordInv, Newest, CleanupInv, CleanupTypes
  <2>9. \A q \in Cleanups : q # o /\ cleanup[q] \in WorkingCleanup => cleanup[q].region # r
    <3> SUFFICES ASSUME NEW q \in Cleanups, q # o, cleanup[q] \in WorkingCleanup, cleanup[q].region = r PROVE FALSE
      OBVIOUS
    <3>1. latest[r] = q /\ q # None
      BY NoneIsNoCleanup DEF RecordInv, Newest
    <3> QED BY <1>7, <3>1, CleanupKinds DEF ActiveIn, Underway, RecordInv
  <2>10. Newest'
    <3>1. ASSUME NEW q \in Cleanups, cleanup'[q] \in WorkingCleanup PROVE latest'[cleanup'[q].region] = q
      <4>1. CASE q = o
        BY <4>1, <2>2, <2>3, <2>6
      <4>2. CASE q # o
        <5>1. cleanup[q] \in WorkingCleanup /\ cleanup[q].region \in Regions /\ cleanup[q].region # r
          BY <3>1, <4>2, <2>2, <2>9, CleanupKinds DEF RecordInv
        <5> QED BY <5>1, <4>2, <2>2, <2>6 DEF RecordInv, Newest
      <4> QED BY <4>1, <4>2
    <3>2. ASSUME NEW q \in Regions, latest'[q] # None PROVE cleanup'[latest'[q]] \in WorkingCleanup \cup EndedCleanup
      <4>1. CASE q = r
        BY <4>1, <2>2, <2>4, <2>6
      <4>2. CASE q # r
        BY <3>2, <4>2, <2>2, <2>6, <2>8 DEF RecordInv, Newest
      <4> QED BY <4>1, <4>2
    <3> QED BY <3>1, <3>2 DEF Newest
  <2>11. NotYetNow'
    BY <2>2, <2>3 DEF RecordInv, NotYetNow
  <2>12. Covered'
    <3> SUFFICES ASSUME ~untold', NEW s \in Missing
                 PROVE  \E q \in Regions : latest'[q] # None /\ s \in Told(cleanup'[latest'[q]])
      BY <1>5 DEF Covered
    <3>1. Recovers(r, present) /\ s \in Regions \ present
      BY <1>4, <1>7 DEF Missing, Present
    <3>2. s \in before
      BY <3>1 DEF Recovers
    <3> QED BY <1>2, <2>2, <2>5, <2>6, <2>7, <3>2
  <2> QED BY <1>4, <2>10, <2>11, <2>12 DEF RecordInv
<1> QED BY <1>6, <1>7 DEF CreateCleanup

LEMMA RecordChecked ==
  ASSUME RecordInv, CleanupInv', SitesTyped', NEW o \in Cleanups, CleanupLock(o) \/ CleanupCheck(o) \/ CleanupCount(o)
  PROVE  RecordInv'
<1> DEFINE held == cleanup[o]
<1>1. /\ held.pc \in {"queued", "check", "count"} /\ held \in WorkingCleanup /\ held.now = {} /\ held \notin EndedCleanup
      /\ UNCHANGED <<latest, bucket, untold>>
  BY CleanupKinds DEF CleanupLock, CleanupCheck, CleanupCount, CleanupAt, GhostsSame, WorldSame, RecordInv, NotYetNow
<1>2. Missing' = Missing
  BY <1>1 DEF Missing, Present
<1>3. untold' \in BOOLEAN
  BY <1>1 DEF RecordInv
<1>4. CASE EndCleanup(o, "failed", cleanup[o].removed)
  <2>1. cleanup[o].removed \in SUBSET Regions
    BY <1>1 DEF WorkingCleanup
  <2> QED BY <1>1, <1>3, <1>4, <2>1, RecordEnds
<1>5. CASE ~EndCleanup(o, "failed", cleanup[o].removed)
  <2> DEFINE x == cleanup'[o]
  <2>1. cleanup' = [cleanup EXCEPT ![o] = x]
    <3>1. CASE CleanupCount(o)
      BY <1>1, <1>5, <3>1 DEF CleanupCount, RecordInv, CleanupInv, CleanupTypes
    <3>2. CASE CleanupLock(o) \/ CleanupCheck(o)
      BY <1>1, <1>5, <3>2 DEF CleanupLock, CleanupCheck, CleanupTo, RecordInv, CleanupInv, CleanupTypes
    <3> QED BY <3>1, <3>2
  <2>2. x.pc \in {"check", "count", "remove"} /\ x.region = held.region /\ x.removed = held.removed /\ x.now = held.now
    <3>1. CASE CleanupCount(o) /\ held.left # {}
      <4>1. PICK s \in held.left, counts \in BOOLEAN :
              cleanup' = [cleanup EXCEPT ![o].left = @ \ {s}, ![o].ok = @ /\ counts /\ bucket[s] # "full"]
        BY <3>1 DEF CleanupCount
      <4>2. x = [held EXCEPT !.left = @ \ {s}, !.ok = @ /\ counts /\ bucket[s] # "full"]
        BY <4>1 DEF RecordInv, CleanupInv, CleanupTypes
      <4> HIDE DEF x
      <4>3. x.pc = held.pc /\ x.region = held.region /\ x.removed = held.removed /\ x.now = held.now
        BY <1>1, <4>2 DEF WorkingCleanup
      <4>4. held.pc = "count"
        BY <3>1 DEF CleanupCount, CleanupAt
      <4> QED BY <4>3, <4>4
    <3>2. CASE CleanupCount(o) /\ held.left = {}
      <4>1. cleanup' = [cleanup EXCEPT ![o].pc = "remove", ![o].left = cleanup[o].targets]
        BY <1>5, <3>2 DEF CleanupCount
      <4>2. x = [held EXCEPT !.pc = "remove", !.left = cleanup[o].targets]
        BY <4>1 DEF RecordInv, CleanupInv, CleanupTypes
      <4> QED BY <1>1, <4>2 DEF WorkingCleanup
    <3>3. CASE CleanupLock(o) \/ CleanupCheck(o)
      BY <1>1, <1>5, <3>3 DEF CleanupLock, CleanupCheck, CleanupTo, RecordInv, CleanupInv, CleanupTypes, WorkingCleanup
    <3> QED BY <3>1, <3>2, <3>3
  <2>3. x \in WorkingCleanup
    BY <2>2 DEF CleanupInv, CleanupTypes, CleanupRecords, BareCleanup, AskedCleanup, WorkingCleanup, EndedCleanup
  <2> HIDE DEF x
  <2>4. Told(x) = Told(held)
    BY <1>1, <2>2, <2>3 DEF Told
  <2> QED BY <1>1, <1>2, <1>3, <2>1, <2>2, <2>3, <2>4, RecordStays
<1> QED BY <1>4, <1>5

LEMMA RecordRemoved ==
  ASSUME RecordInv, CleanupInv', SitesTyped', NEW o \in Cleanups, CleanupRemove(o)
  PROVE  RecordInv'
<1> DEFINE held == cleanup[o]
<1>1. held.pc = "remove" /\ held \in WorkingCleanup /\ held \notin EndedCleanup /\ UNCHANGED latest
  BY CleanupKinds DEF CleanupRemove, CleanupAt, RecordInv
<1>2. PICK s \in held.left, told \in BOOLEAN :
        /\ \/ cleanup' = [cleanup EXCEPT ![o].left = @ \ {s}, ![o].ok = @ /\ told,
                                         ![o].now = IF told THEN @ \cup {s} ELSE @]
           \/ (~told /\ cleanup' = [cleanup EXCEPT ![o].left = @ \ {s}, ![o].ok = FALSE])
        /\ \/ bucket' = [bucket EXCEPT ![s] = "absent"] /\ untold' = (untold \/ ~told)
           \/ UNCHANGED <<bucket, untold>>
  BY DEF CleanupRemove, GhostsSame
<1>3. untold' \in BOOLEAN /\ (untold => untold') /\ s \in Regions
  <2>1. untold \in BOOLEAN
    BY DEF RecordInv
  <2>2. untold' = untold \/ untold' = (untold \/ ~told)
    BY <1>2
  <2>3. s \in Regions
    BY <1>1 DEF WorkingCleanup
  <2> QED BY <2>1, <2>2, <2>3
<1> DEFINE x == [held EXCEPT !.left = @ \ {s}, !.ok = @ /\ told, !.now = IF told THEN @ \cup {s} ELSE @]
<1>4. /\ x \in WorkingCleanup /\ x.pc = held.pc /\ x.region = held.region /\ x.removed = held.removed
      /\ held.now \subseteq x.now /\ (told => s \in x.now)
  BY <1>1 DEF WorkingCleanup
<1>5. cleanup' = [cleanup EXCEPT ![o] = x]
  BY <1>1, <1>2 DEF RecordInv, CleanupInv, CleanupTypes, WorkingCleanup
<1>6. \A t \in Missing' : t \in Missing \/ (t = s /\ (told \/ untold'))
  <2>1. CASE UNCHANGED bucket
    BY <2>1 DEF Missing, Present
  <2>2. CASE bucket' = [bucket EXCEPT ![s] = "absent"] /\ untold' = (untold \/ ~told)
    <3>1. \A t \in Regions : t # s => bucket'[t] = bucket[t]
      BY <2>2, <1>3 DEF RecordInv, SitesTyped
    <3>2. told \/ untold'
      BY <2>2
    <3> QED BY <3>1, <3>2 DEF Missing, Present
  <2> QED BY <1>2, <2>1, <2>2
<1> HIDE DEF x
<1>7. Told(held) \subseteq Told(x) /\ (told => s \in Told(x))
  BY <1>1, <1>4 DEF Told
<1>8. \A t \in Missing' : t \in Missing \/ untold' \/ (cleanup[o] \in WorkingCleanup /\ t \in Told(x))
  BY <1>1, <1>6, <1>7
<1> QED BY <1>1, <1>3, <1>4, <1>5, <1>7, <1>8, RecordStays

LEMMA RecordClosed ==
  ASSUME RecordInv, CleanupInv', SitesTyped', NEW o \in Cleanups, CleanupEnd(o) \/ CleanupStops(o)
  PROVE  RecordInv'
<1>1. cleanup[o] \in WorkingCleanup /\ UNCHANGED <<latest, bucket>>
  BY CleanupKinds DEF CleanupEnd, CleanupStops, CleanupAt, Underway, WorldSame, RecordInv, CleanupInv, CleanupTypes,
     CleanupRecords, BareCleanup, AskedCleanup, WorkingCleanup, EndedCleanup
<1>2. cleanup[o].removed \in SUBSET Regions /\ cleanup[o].now \in SUBSET Regions
  BY <1>1 DEF WorkingCleanup
<1>3. CASE CleanupEnd(o)
  <2>1. PICK pc \in {"failed", "succeeded"} : EndCleanup(o, pc, cleanup[o].removed \cup cleanup[o].now)
    BY <1>3 DEF CleanupEnd, RemovedByNow
  <2>2. untold' = untold /\ untold' \in BOOLEAN
    BY <1>3 DEF CleanupEnd, GhostsSame, RecordInv
  <2>3. cleanup[o].removed \cup cleanup[o].now \in SUBSET Regions
    BY <1>2
  <2> QED BY <1>1, <2>1, <2>2, <2>3, RecordEnds
<1>4. CASE CleanupStops(o)
  <2>1. EndCleanup(o, "failed", cleanup[o].removed) /\ untold' = (untold \/ cleanup[o].now # {})
    BY <1>4 DEF CleanupStops
  <2>2. untold' \in BOOLEAN /\ (untold => untold') /\ (untold' \/ cleanup[o].removed = cleanup[o].removed \cup cleanup[o].now)
    BY <2>1 DEF RecordInv
  <2> QED BY <1>1, <1>2, <2>1, <2>2, RecordEnds
<1> QED BY <1>3, <1>4

LEMMA RecordAside ==
  ASSUME RecordInv, CleanupInv', SitesTyped', UNCHANGED <<cleanup, latest, untold>>, Missing' \subseteq Missing
  PROVE  RecordInv'
BY DEF RecordInv, Newest, NotYetNow, Covered

LEMMA SitesTypedStep == ASSUME CleanupInv, SitesTyped, [CleanupNext]_bvars PROVE SitesTyped'
<1>1. CASE UNCHANGED bucket
  BY <1>1 DEF SitesTyped
<1>2. ASSUME NEW s \in Regions, SiteChanges(s) PROVE SitesTyped'
  BY <1>2 DEF SiteChanges, SitesTyped
<1>3. ASSUME NEW o \in Cleanups, CleanupRemove(o) PROVE SitesTyped'
  BY <1>3 DEF CleanupRemove, SitesTyped
<1> QED BY <1>1, <1>2, <1>3 DEF CleanupNext, CleanupStep, Retain, ReleaseRetention, AskCleanup, CreateCleanup,
     CleanupLock, CleanupCheck, CleanupCount, CleanupEnd, CleanupStops, CleanLeaseEnds, OwnerChanges, WorldSame, bvars

LEMMA RecordStep == RecordInv /\ [CleanupNext]_bvars => RecordInv'
<1> SUFFICES ASSUME RecordInv, [CleanupNext]_bvars PROVE RecordInv'
  OBVIOUS
<1>1. CleanupInv' /\ SitesTyped'
  BY CleanupInvStep, SitesTypedStep DEF RecordInv
<1>2. CASE \/ \E r \in Regions : Retain(r) \/ ReleaseRetention(r)
           \/ CleanLeaseEnds \/ OwnerChanges \/ UNCHANGED bvars
  <2>1. UNCHANGED <<cleanup, latest, untold, bucket>>
    BY <1>2 DEF Retain, ReleaseRetention, CleanLeaseEnds, OwnerChanges, GhostsSame, WorldSame, bvars
  <2>2. Missing' \subseteq Missing
    BY <2>1 DEF Missing, Present
  <2> QED BY <1>1, <2>1, <2>2, RecordAside
<1>3. ASSUME NEW s \in Regions, SiteChanges(s) PROVE RecordInv'
  <2>1. UNCHANGED <<cleanup, latest, untold>>
    BY <1>3 DEF SiteChanges, GhostsSame
  <2>2. \A t \in Regions : bucket'[t] = "absent" => bucket[t] = "absent"
    BY <1>3 DEF SiteChanges, RecordInv, SitesTyped
  <2>3. Missing' \subseteq Missing
    BY <2>2 DEF Missing, Present
  <2> QED BY <1>1, <2>1, <2>3, RecordAside
<1> QED BY <1>1, <1>2, <1>3, RecordAsked, RecordCreated, RecordChecked, RecordRemoved, RecordClosed
        DEF CleanupNext, CleanupStep

(* The records that are left cover every site a removal left without the   *)
(* bucket, so a removal that failed half-way can be continued.             *)
THEOREM ContinueCorrect == CleanupSpec => []FailedCanContinue
<1>1. RecordInv => FailedCanContinue
  <2> SUFFICES ASSUME RecordInv, ~untold, \A o \in Cleanups : ~Underway(o), NEW s \in Missing
               PROVE  s \in UNION {cleanup[latest[r]].removed : r \in {q \in Regions : latest[q] # None}}
    BY DEF FailedCanContinue
  <2>1. PICK r \in Regions : latest[r] # None /\ s \in Told(cleanup[latest[r]])
    BY DEF RecordInv, Covered
  <2>2. latest[r] \in Cleanups /\ cleanup[latest[r]] \notin WorkingCleanup
    BY <2>1, CleanupKinds DEF RecordInv, CleanupInv, CleanupTypes, Underway
  <2>3. s \in cleanup[latest[r]].removed
    BY <2>1, <2>2 DEF Told
  <2> QED BY <2>1, <2>3
<1> QED BY <1>1, RecordInit, RecordStep, PTL DEF CleanupSpec

-----------------------------------------------------------------------------
(* Etcd maintenance.                                                       *)
TaskDocument == [kind : Kinds, status : {"queued", "running"} \cup Final,
             tracked : BOOLEAN, recovery : BOOLEAN]
Claiming == [task : Tasks, pc : {"claim"}]
Executing == [task : Tasks, pc : {"run"}, copy : TaskDocument, left : SUBSET Members, clean : BOOLEAN]

Occupied(w) == worker[w] # IdleWorker
Runs(w, t) == Occupied(w) /\ worker[w].task = t /\ worker[w].pc = "run"

EtcdTypes ==
  /\ task \in [Tasks -> TaskDocument \cup {None}]
  /\ asking \in [Tasks -> {"new", "dispatch", "send", "track", "runAlso", "answered"}]
  /\ sent \in [Tasks -> Int] /\ everSent \in [Tasks -> Int]
  /\ worker \in [Runners -> {IdleWorker} \cup Claiming \cup Executing]
  /\ verdict \in [Tasks -> TaskDocument \cup {None}]
  /\ ran \in [Tasks -> [Members -> Nat]] /\ rewound \subseteq Tasks

(* Before it is created nobody knows of a task; then it has a document.    *)
Created == \A t \in Tasks :
  /\ asking[t] = "new" =>
       /\ task[t] = None /\ sent[t] = 0 /\ everSent[t] = 0 /\ verdict[t] = None
       /\ \A w \in Runners : Occupied(w) => worker[w].task # t
       /\ \A m \in Members : ran[t][m] = 0
  /\ asking[t] # "new" => task[t] \in TaskDocument

(* The watchdog's copies are failures that need recovery.                  *)
Verdicts == \A t \in Tasks : verdict[t] # None =>
  verdict[t] \in TaskDocument /\ verdict[t].status = "failed" /\ verdict[t].recovery

(* A task whose document was not set back is run by one runner at most,    *)
(* which calls each member once; while it is queued nobody has begun it.   *)
RunOnce == \A t \in Tasks : t \notin rewound =>
  /\ \A m \in Members : ran[t][m] <= 1
  /\ \A v, w \in Runners : Runs(v, t) /\ Runs(w, t) => v = w
  /\ \A w \in Runners : Runs(w, t) => \A m \in worker[w].left : ran[t][m] = 0
  /\ asking[t] # "new" /\ task[t].status = "queued" =>
       /\ \A w \in Runners : ~Runs(w, t)
       /\ \A m \in Members : ran[t][m] = 0

(* A run that is clean has called the members it has behind it.            *)
CleanIsCalled == \A w \in Runners : Occupied(w) /\ worker[w].pc = "run" /\ worker[w].clean =>
  \A m \in Targets(worker[w].copy.kind) \ worker[w].left : ran[worker[w].task][m] > 0

Compacted == \A t \in Tasks :
  asking[t] # "new" /\ task[t].status \in Final /\ task[t].kind = "compact" /\ ~task[t].recovery =>
    \A m \in Targets("compact") : ran[t][m] > 0

EtcdInv == EtcdTypes /\ Created /\ Verdicts /\ RunOnce /\ CleanIsCalled /\ Compacted

-----------------------------------------------------------------------------
(* The steps of the requests and the watchdog, and those of the runners.   *)
AskingStep(t) == \/ \E k \in Kinds : CreateTask(t, k)
                 \/ SaveDispatch(t) \/ SendTask(t) \/ SaveMessageId(t) \/ RunAlso(t) \/ RequestDies(t)
                 \/ Redeliver(t)
WatchdogStep(t) == FindStale(t) \/ FailStale(t)
RunnerStep(w) == EtcdTaskStep(w) \/ WorkerDies(w) \/ \E t \in Tasks : TakeTask(w, t)

LEMMA EtcdSteps ==
  EtcdTasksNext <=> \/ \E t \in Tasks : AskingStep(t) \/ WatchdogStep(t)
                    \/ \E w \in Runners : RunnerStep(w)
BY DEF EtcdTasksNext, AskingStep, WatchdogStep, RunnerStep

(* A runner that is not idle has a task.                                   *)
LEMMA BusyType ==
  ASSUME EtcdTypes, NEW w \in Runners, Occupied(w)
  PROVE  /\ worker[w].task \in Tasks
         /\ worker[w].pc = "claim" => worker[w] \in Claiming
         /\ worker[w].pc = "run" => worker[w] \in Executing
BY DEF EtcdTypes, Occupied, Claiming, Executing

LEMMA EtcdTypeStep ==
  ASSUME EtcdTypes, Created, Verdicts, [EtcdTasksNext]_etvars
  PROVE  EtcdTypes'
<1> USE DEF TaskDocument, Final, SaveTask, AskTo
<1>1. CASE UNCHANGED etvars
  BY <1>1 DEF etvars, EtcdTypes
<1>2. ASSUME NEW t \in Tasks, AskingStep(t) PROVE EtcdTypes'
  <2>1. ASSUME NEW k \in Kinds, CreateTask(t, k) PROVE EtcdTypes'
    BY <2>1 DEF CreateTask, NewTask, EtcdTypes
  <2>2. ASSUME NEW tracked \in BOOLEAN, RequestSaves(t, tracked), asking[t] # "new"
        PROVE  task' \in [Tasks -> TaskDocument \cup {None}] /\ rewound' \subseteq Tasks
    BY <2>2 DEF RequestSaves, NewTask, EtcdTypes, Created
  <2>3. CASE SaveDispatch(t)
    BY <2>2, <2>3 DEF SaveDispatch, EtcdTypes
  <2>4. CASE SendTask(t) \/ RunAlso(t) \/ RequestDies(t) \/ Redeliver(t)
    BY <2>4 DEF SendTask, RunAlso, RequestDies, Redeliver, Deliver, EtcdTypes
  <2>5. CASE SaveMessageId(t)
    BY <2>2, <2>5 DEF SaveMessageId, EtcdTypes
  <2> QED
    BY <1>2, <2>1, <2>3, <2>4, <2>5 DEF AskingStep
<1>3. ASSUME NEW t \in Tasks, WatchdogStep(t) PROVE EtcdTypes'
  <2>1. CASE FindStale(t)
    <3>1. task[t] \in TaskDocument
      BY <2>1 DEF FindStale, EtcdTypes
    <3> QED
      BY <2>1, <3>1 DEF FindStale, EtcdTypes
  <2>2. CASE FailStale(t)
    BY <2>2 DEF FailStale, EtcdTypes
  <2> QED
    BY <1>3, <2>1, <2>2 DEF WatchdogStep
<1>4. ASSUME NEW w \in Runners, RunnerStep(w) PROVE EtcdTypes'
  <2>1. CASE WorkerDies(w)
    BY <2>1 DEF WorkerDies, EtcdTypes
  <2>2. ASSUME NEW t \in Tasks, TakeTask(w, t) PROVE EtcdTypes'
    BY <2>2 DEF TakeTask, EtcdTypes, Claiming
  <2>3. CASE ClaimTask(w)
    <3> DEFINE t == worker[w].task
               running == [task[t] EXCEPT !.status = "running"]
    <3>1. t \in Tasks /\ asking[t] # "new"
      BY <2>3, BusyType DEF ClaimTask, Occupied, Created
    <3>2. running \in TaskDocument
      BY <3>1 DEF Created
    <3>3. [task |-> t, pc |-> "run", copy |-> running, left |-> Targets(running.kind), clean |-> TRUE]
            \in Executing
      <4>1. Targets(running.kind) \in SUBSET Members
        BY MembersThere DEF Targets
      <4> QED
        BY <3>1, <3>2, <4>1 DEF Executing
    <3>4. CASE task[t].status = "queued"
      <4>1. PICK held \in Executing : worker' = [worker EXCEPT ![w] = held]
        BY <2>3, <3>3, <3>4 DEF ClaimTask
      <4>2. PICK stored \in TaskDocument : task' = [task EXCEPT ![t] = stored]
        BY <2>3, <3>2, <3>4 DEF ClaimTask
      <4>3. UNCHANGED <<asking, sent, everSent, verdict, ran, rewound>>
        BY <2>3 DEF ClaimTask
      <4> HIDE DEF t, running
      <4>4. task' \in [Tasks -> TaskDocument \cup {None}]
        BY <3>1, <4>2 DEF EtcdTypes
      <4>5. worker' \in [Runners -> {IdleWorker} \cup Claiming \cup Executing]
        BY <4>1 DEF EtcdTypes
      <4> QED
        BY <4>3, <4>4, <4>5 DEF EtcdTypes
    <3>5. CASE task[t].status # "queued"
      BY <2>3, <3>5 DEF ClaimTask, EtcdTypes
    <3> QED
      BY <3>4, <3>5
  <2>4. CASE CallMember(w)
    <3>1. worker[w] \in Executing
      BY <2>4, BusyType DEF CallMember, Occupied
    <3>2. PICK m \in worker[w].left, called \in BOOLEAN, answered \in BOOLEAN :
            /\ ran' = IF called THEN [ran EXCEPT ![worker[w].task][m] = @ + 1] ELSE ran
            /\ worker' = [worker EXCEPT ![w].left = @ \ {m}, ![w].clean = @ /\ answered]
      BY <2>4 DEF CallMember
    <3>3. ran' \in [Tasks -> [Members -> Nat]]
      BY <3>1, <3>2 DEF Executing, EtcdTypes
    <3>4. worker'[w] \in Executing
      BY <3>1, <3>2 DEF Executing, EtcdTypes
    <3>5. worker' \in [Runners -> {IdleWorker} \cup Claiming \cup Executing]
      BY <3>2, <3>4 DEF EtcdTypes
    <3> QED
      BY <2>4, <3>3, <3>5 DEF CallMember, EtcdTypes
  <2>5. CASE EndTask(w)
    <3>1. worker[w] \in Executing
      BY <2>5, BusyType DEF EndTask, Occupied
    <3>2. task' \in [Tasks -> TaskDocument \cup {None}]
      BY <2>5, <3>1 DEF EndTask, Executing, EtcdTypes
    <3> QED
      BY <2>5, <3>2 DEF EndTask, EtcdTypes
  <2> QED
    BY <1>4, <2>1, <2>2, <2>3, <2>4, <2>5 DEF RunnerStep, EtcdTaskStep
<1> QED
  BY <1>1, <1>2, <1>3, <1>4, EtcdSteps

-----------------------------------------------------------------------------
(* What the steps that save a task do to it.                               *)
LEMMA RequestSaveShape ==
  ASSUME EtcdTypes, Created, NEW t \in Tasks, SaveDispatch(t) \/ SaveMessageId(t)
  PROVE  /\ asking[t] # "new" /\ \E pc \in {"send", "answered", "runAlso"} : asking' = [asking EXCEPT ![t] = pc]
         /\ UNCHANGED <<sent, everSent, worker, verdict, ran>>
         /\ \/ UNCHANGED <<task, rewound>>
            \/ /\ \E stored \in TaskDocument : /\ stored.status = "queued"
                                       /\ task' = [task EXCEPT ![t] = stored]
               /\ rewound' = IF task[t].status # "queued" THEN rewound \cup {t} ELSE rewound
<1>1. task[t] \in TaskDocument
  BY DEF SaveDispatch, SaveMessageId, Created
<1>2. ASSUME NEW tracked \in BOOLEAN, RequestSaves(t, tracked)
      PROVE  /\ \E stored \in TaskDocument : stored.status = "queued" /\ task' = [task EXCEPT ![t] = stored]
             /\ rewound' = IF task[t].status # "queued" THEN rewound \cup {t} ELSE rewound
  <2> DEFINE stored == [NewTask(task[t].kind) EXCEPT !.tracked = tracked]
  <2>1. stored \in TaskDocument /\ stored.status = "queued"
    BY <1>1 DEF TaskDocument, NewTask
  <2> QED
    BY <1>2, <2>1 DEF RequestSaves, SaveTask
<1> QED
  BY <1>2 DEF SaveDispatch, SaveMessageId, AskTo

LEMMA FindShape ==
  ASSUME EtcdTypes, NEW t \in Tasks, FindStale(t)
  PROVE  /\ task[t] # None /\ task[t] \in TaskDocument /\ task[t].status \notin Final
         /\ \E stored \in TaskDocument : /\ stored.status = "failed" /\ stored.recovery
                                /\ verdict' = [verdict EXCEPT ![t] = stored]
         /\ UNCHANGED <<task, asking, sent, everSent, worker, ran, rewound>>
<1> DEFINE stored == [task[t] EXCEPT !.status = "failed", !.recovery = TRUE]
<1>1. task[t] # None /\ task[t] \in TaskDocument /\ task[t].status \notin Final
  BY DEF EtcdTypes, FindStale, TaskOver
<1>2. stored \in TaskDocument /\ stored.status = "failed" /\ stored.recovery
  BY <1>1 DEF TaskDocument, Final
<1> QED
  BY <1>1, <1>2 DEF FindStale

LEMMA FailShape ==
  ASSUME Verdicts, NEW t \in Tasks, FailStale(t)
  PROVE  /\ verdict[t] # None
         /\ \E stored \in TaskDocument : /\ stored.status = "failed" /\ stored.recovery
                                /\ task' = [task EXCEPT ![t] = stored]
         /\ verdict' = [verdict EXCEPT ![t] = None]
         /\ UNCHANGED <<asking, sent, everSent, worker, ran, rewound>>
BY DEF FailStale, SaveTask, Verdicts

LEMMA ClaimShape ==
  ASSUME EtcdTypes, Created, NEW w \in Runners, ClaimTask(w)
  PROVE  /\ Occupied(w) /\ worker[w].pc = "claim" /\ worker[w].task \in Tasks
         /\ asking[worker[w].task] # "new"
         /\ UNCHANGED <<asking, sent, everSent, verdict, ran, rewound>>
         /\ \/ UNCHANGED task /\ worker' = [worker EXCEPT ![w] = IdleWorker]
            \/ /\ task[worker[w].task].status = "queued"
               /\ \E stored \in TaskDocument : /\ stored.status = "running"
                                      /\ task' = [task EXCEPT ![worker[w].task] = stored]
               /\ \E held \in Executing : /\ held.task = worker[w].task /\ held.clean
                                       /\ held.left = Targets(held.copy.kind)
                                       /\ worker' = [worker EXCEPT ![w] = held]
<1> DEFINE t == worker[w].task
           running == [task[t] EXCEPT !.status = "running"]
           held == [task |-> t, pc |-> "run", copy |-> running, left |-> Targets(running.kind), clean |-> TRUE]
<1>1. Occupied(w) /\ worker[w].pc = "claim" /\ t \in Tasks /\ asking[t] # "new"
  BY BusyType DEF ClaimTask, Occupied, Created
<1>2. running \in TaskDocument /\ running.status = "running"
  BY <1>1 DEF Created, TaskDocument
<1>3. Targets(running.kind) \in SUBSET Members
  BY MembersThere DEF Targets
<1>4. /\ held \in Executing /\ held.task = t /\ held.clean /\ held.left = Targets(held.copy.kind)
  BY <1>1, <1>2, <1>3 DEF Executing
<1>5. /\ UNCHANGED <<asking, sent, everSent, verdict, ran, rewound>>
      /\ \/ UNCHANGED task /\ worker' = [worker EXCEPT ![w] = IdleWorker]
         \/ /\ task[t].status = "queued" /\ task' = [task EXCEPT ![t] = running]
            /\ worker' = [worker EXCEPT ![w] = held]
  BY DEF ClaimTask, SaveTask
<1> HIDE DEF t, running, held
<1>6. \/ UNCHANGED task /\ worker' = [worker EXCEPT ![w] = IdleWorker]
      \/ /\ task[t].status = "queued"
         /\ \E stored \in TaskDocument : stored.status = "running" /\ task' = [task EXCEPT ![t] = stored]
         /\ \E j \in Executing : /\ j.task = t /\ j.clean /\ j.left = Targets(j.copy.kind)
                               /\ worker' = [worker EXCEPT ![w] = j]
  BY <1>2, <1>4, <1>5
<1> QED
  BY <1>1, <1>5, <1>6 DEF t

LEMMA CallShape ==
  ASSUME EtcdTypes, NEW w \in Runners, CallMember(w)
  PROVE  /\ worker[w] \in Executing /\ Occupied(w)
         /\ UNCHANGED <<task, asking, sent, everSent, verdict, rewound>>
         /\ \E m \in worker[w].left, carriedOut \in BOOLEAN, answered \in BOOLEAN, held \in Executing :
              /\ answered => carriedOut
              /\ ran' = IF carriedOut THEN [ran EXCEPT ![worker[w].task][m] = @ + 1] ELSE ran
              /\ worker' = [worker EXCEPT ![w] = held]
              /\ held.task = worker[w].task /\ held.copy = worker[w].copy
              /\ held.left = worker[w].left \ {m} /\ held.clean = (worker[w].clean /\ answered)
<1>1. worker[w] \in Executing /\ Occupied(w)
  BY BusyType DEF CallMember, Occupied
<1>2. PICK m \in worker[w].left, carriedOut \in BOOLEAN, answered \in BOOLEAN :
        /\ answered => carriedOut
        /\ ran' = IF carriedOut THEN [ran EXCEPT ![worker[w].task][m] = @ + 1] ELSE ran
        /\ worker' = [worker EXCEPT ![w].left = @ \ {m}, ![w].clean = @ /\ answered]
  BY DEF CallMember
<1> DEFINE held == [worker[w] EXCEPT !.left = @ \ {m}, !.clean = @ /\ answered]
<1>3. /\ held \in Executing /\ held.task = worker[w].task /\ held.copy = worker[w].copy
      /\ held.left = worker[w].left \ {m} /\ held.clean = (worker[w].clean /\ answered)
  BY <1>1 DEF Executing
<1>4. worker' = [worker EXCEPT ![w] = held]
  BY <1>1, <1>2 DEF EtcdTypes
<1>5. UNCHANGED <<task, asking, sent, everSent, verdict, rewound>>
  BY DEF CallMember
<1> HIDE DEF held
<1> QED
  BY <1>1, <1>2, <1>3, <1>4, <1>5

LEMMA EndShape ==
  ASSUME EtcdTypes, NEW w \in Runners, EndTask(w)
  PROVE  /\ worker[w] \in Executing /\ Occupied(w) /\ worker[w].left = {}
         /\ worker' = [worker EXCEPT ![w] = IdleWorker]
         /\ UNCHANGED <<asking, sent, everSent, verdict, ran, rewound>>
         /\ \E stored \in TaskDocument :
              /\ task' = [task EXCEPT ![worker[w].task] = stored]
              /\ stored.status \in Final /\ stored.kind = worker[w].copy.kind
              /\ stored.kind = "compact" /\ ~stored.recovery => worker[w].clean
<1>1. worker[w] \in Executing /\ Occupied(w) /\ worker[w].left = {}
  BY BusyType DEF EndTask, Occupied
<1> DEFINE copy == worker[w].copy
           failed == ~worker[w].clean /\ copy.kind \in {"keyspace", "compact"}
           stored == [copy EXCEPT !.status = IF failed THEN "failed" ELSE "succeeded",
                               !.recovery = @ \/ (failed /\ copy.kind # "keyspace")]
<1>2. copy \in TaskDocument
  BY <1>1 DEF Executing
<1>3. /\ stored \in TaskDocument /\ stored.status \in Final /\ stored.kind = copy.kind
      /\ stored.kind = "compact" /\ ~stored.recovery => worker[w].clean
  BY <1>2 DEF TaskDocument, Final
<1>4. /\ task' = [task EXCEPT ![worker[w].task] = stored]
      /\ worker' = [worker EXCEPT ![w] = IdleWorker]
      /\ UNCHANGED <<asking, sent, everSent, verdict, ran, rewound>>
  BY DEF EndTask, SaveTask
<1> HIDE DEF stored
<1> QED
  BY <1>1, <1>3, <1>4

-----------------------------------------------------------------------------
(* Only a task that was created is sent, taken, run and called for.        *)
LEMMA CreatedStep ==
  ASSUME EtcdTypes, Created, Verdicts, EtcdTypes', EtcdTasksNext
  PROVE  Created'
<1>1. ASSUME NEW t \in Tasks, AskingStep(t) PROVE Created'
  <2>1. ASSUME NEW k \in Kinds, CreateTask(t, k) PROVE Created'
    BY <2>1 DEF CreateTask, NewTask, SaveTask, AskTo, Created, Occupied, EtcdTypes, TaskDocument, Final
  <2>2. CASE SaveDispatch(t) \/ SaveMessageId(t)
    <3>1. /\ asking[t] # "new"
          /\ \A u \in Tasks : asking'[u] = "new" <=> asking[u] = "new"
          /\ UNCHANGED <<sent, everSent, worker, verdict, ran>>
      BY <2>2, RequestSaveShape DEF EtcdTypes
    <3>2. CASE UNCHANGED <<task, rewound>>
      BY <3>1, <3>2 DEF Created, Occupied
    <3>3. ASSUME NEW stored \in TaskDocument, stored.status = "queued", task' = [task EXCEPT ![t] = stored],
                 rewound' = IF task[t].status # "queued" THEN rewound \cup {t} ELSE rewound
          PROVE  Created'
      <4>1. task'[t] = stored /\ \A u \in Tasks \ {t} : task'[u] = task[u]
        BY <3>3 DEF EtcdTypes
      <4> QED
        BY <3>1, <3>3, <4>1 DEF Created, Occupied
    <3> QED
      BY <2>2, <3>2, <3>3, RequestSaveShape
  <2>3. CASE SendTask(t) \/ RunAlso(t) \/ RequestDies(t) \/ Redeliver(t)
    BY <2>3 DEF SendTask, RunAlso, RequestDies, Redeliver, Deliver, AskTo, EtcdTypes, Created, Occupied
  <2> QED
    BY <1>1, <2>1, <2>2, <2>3 DEF AskingStep
<1>2. ASSUME NEW t \in Tasks, WatchdogStep(t) PROVE Created'
  <2>1. CASE FindStale(t)
    <3>1. PICK stored \in TaskDocument : stored.recovery /\ verdict' = [verdict EXCEPT ![t] = stored]
      BY <2>1, FindShape
    <3>2. /\ task[t] # None
          /\ UNCHANGED <<task, asking, sent, everSent, worker, ran, rewound>>
      BY <2>1, FindShape
    <3>3. \A u \in Tasks \ {t} : verdict'[u] = verdict[u]
      BY <3>1 DEF EtcdTypes
    <3> QED
      BY <2>1, <3>2, <3>3 DEF Created, Occupied
  <2>2. CASE FailStale(t)
    <3>1. PICK stored \in TaskDocument : /\ stored.status = "failed" /\ stored.recovery
                                 /\ task' = [task EXCEPT ![t] = stored]
      BY <2>2, FailShape
    <3>2. /\ verdict[t] # None /\ verdict' = [verdict EXCEPT ![t] = None]
          /\ UNCHANGED <<asking, sent, everSent, worker, ran, rewound>>
      BY <2>2, FailShape
    <3>3. /\ task'[t] = stored /\ \A u \in Tasks \ {t} : task'[u] = task[u]
          /\ verdict'[t] = None /\ \A u \in Tasks \ {t} : verdict'[u] = verdict[u]
      BY <3>1, <3>2 DEF EtcdTypes
    <3> QED
      BY <3>1, <3>2, <3>3 DEF Created, Occupied
  <2> QED
    BY <1>2, <2>1, <2>2 DEF WatchdogStep
<1>3. ASSUME NEW w \in Runners, RunnerStep(w) PROVE Created'
  <2>1. CASE WorkerDies(w)
    BY <2>1 DEF WorkerDies, EtcdTypes, Created, Occupied
  <2>2. ASSUME NEW t \in Tasks, TakeTask(w, t) PROVE Created'
    BY <2>2 DEF TakeTask, EtcdTypes, Created, Occupied
  <2>3. CASE ClaimTask(w)
    <3> DEFINE t == worker[w].task
    <3>1. /\ Occupied(w) /\ worker[w].pc = "claim" /\ t \in Tasks /\ asking[t] # "new"
          /\ UNCHANGED <<asking, sent, everSent, verdict, ran, rewound>>
      BY <2>3, ClaimShape
    <3>2. CASE UNCHANGED task /\ worker' = [worker EXCEPT ![w] = IdleWorker]
      BY <3>1, <3>2 DEF EtcdTypes, Created, Occupied
    <3>3. ASSUME task[t].status = "queued",
                 NEW stored \in TaskDocument, stored.status = "running", task' = [task EXCEPT ![t] = stored],
                 NEW held \in Executing, held.task = t, held.clean, held.left = Targets(held.copy.kind),
                 worker' = [worker EXCEPT ![w] = held]
          PROVE  Created'
      <4>1. /\ task'[t] = stored /\ \A u \in Tasks \ {t} : task'[u] = task[u]
            /\ worker'[w] = held /\ \A v \in Runners \ {w} : worker'[v] = worker[v]
        BY <3>1, <3>3 DEF EtcdTypes
      <4> QED
        BY <3>1, <3>3, <4>1 DEF Executing, Created, Occupied
    <3> QED
      BY <2>3, <3>2, <3>3, ClaimShape
  <2>4. CASE CallMember(w)
    <3> DEFINE t == worker[w].task
    <3>1. PICK m \in worker[w].left, carriedOut \in BOOLEAN, answered \in BOOLEAN, held \in Executing :
            /\ answered => carriedOut
            /\ ran' = IF carriedOut THEN [ran EXCEPT ![t][m] = @ + 1] ELSE ran
            /\ worker' = [worker EXCEPT ![w] = held]
            /\ held.task = t /\ held.copy = worker[w].copy
            /\ held.left = worker[w].left \ {m} /\ held.clean = (worker[w].clean /\ answered)
      BY <2>4, CallShape
    <3>2. /\ worker[w] \in Executing /\ Occupied(w) /\ t \in Tasks /\ m \in Members /\ asking[t] # "new"
          /\ UNCHANGED <<task, asking, sent, everSent, verdict, rewound>>
      BY <2>4, CallShape DEF Executing, Created
    <3>3. worker'[w] = held /\ \A v \in Runners \ {w} : worker'[v] = worker[v]
      BY <3>1 DEF EtcdTypes
    <3>4. /\ \A u \in Tasks, n \in Members : u # t \/ n # m => ran'[u][n] = ran[u][n]
          /\ ran'[t][m] \in {ran[t][m], ran[t][m] + 1} /\ carriedOut => ran'[t][m] > 0
          /\ \A u \in Tasks, n \in Members : ran[u][n] \in Nat
      BY <3>1, <3>2 DEF EtcdTypes
    <3> HIDE DEF t
    <3> QED
      BY <3>1, <3>2, <3>3, <3>4 DEF t, Executing, Created, Occupied
  <2>5. CASE EndTask(w)
    <3> DEFINE t == worker[w].task
    <3>1. PICK stored \in TaskDocument :
            /\ task' = [task EXCEPT ![t] = stored]
            /\ stored.status \in Final /\ stored.kind = worker[w].copy.kind
            /\ stored.kind = "compact" /\ ~stored.recovery => worker[w].clean
      BY <2>5, EndShape
    <3>2. /\ worker[w] \in Executing /\ Occupied(w) /\ worker[w].left = {} /\ t \in Tasks
          /\ worker' = [worker EXCEPT ![w] = IdleWorker]
          /\ UNCHANGED <<asking, sent, everSent, verdict, ran, rewound>>
      BY <2>5, EndShape DEF Executing
    <3>3. /\ task'[t] = stored /\ \A u \in Tasks \ {t} : task'[u] = task[u]
          /\ worker'[w] = IdleWorker /\ \A v \in Runners \ {w} : worker'[v] = worker[v]
      BY <3>1, <3>2 DEF EtcdTypes
    <3> QED
      BY <3>1, <3>2, <3>3 DEF Executing, Final, Created, Occupied
  <2> QED
    BY <1>3, <2>1, <2>2, <2>3, <2>4, <2>5 DEF RunnerStep, EtcdTaskStep
<1> QED
  BY <1>1, <1>2, <1>3, EtcdSteps

(* The watchdog saves what it has found: a failure that needs recovery.    *)
LEMMA VerdictsStep ==
  ASSUME EtcdTypes, Created, Verdicts, EtcdTypes', EtcdTasksNext
  PROVE  Verdicts'
<1>1. ASSUME NEW t \in Tasks, AskingStep(t) PROVE UNCHANGED verdict
  BY <1>1 DEF AskingStep, CreateTask, SaveDispatch, SendTask, SaveMessageId, RunAlso, RequestDies,
     Redeliver
<1>2. ASSUME NEW w \in Runners, RunnerStep(w) PROVE UNCHANGED verdict
  BY <1>2 DEF RunnerStep, EtcdTaskStep, WorkerDies, TakeTask, ClaimTask, CallMember, EndTask
<1>3. ASSUME NEW t \in Tasks, WatchdogStep(t) PROVE Verdicts'
  BY <1>3, FindShape, FailShape DEF WatchdogStep, EtcdTypes, Verdicts
<1> QED
  BY <1>1, <1>2, <1>3, EtcdSteps DEF Verdicts

-----------------------------------------------------------------------------
(* A task is run once, as long as no copy of the request has set it back.  *)
LEMMA RunOnceStep ==
  ASSUME EtcdTypes, Created, Verdicts, RunOnce, EtcdTypes', EtcdTasksNext
  PROVE  RunOnce'
<1>1. ASSUME NEW t \in Tasks, AskingStep(t) PROVE RunOnce'
  <2>1. ASSUME NEW k \in Kinds, CreateTask(t, k) PROVE RunOnce'
    BY <2>1 DEF CreateTask, NewTask, SaveTask, AskTo, RunOnce, Created, Occupied, Runs
  <2>2. CASE SaveDispatch(t) \/ SaveMessageId(t)
    <3>1. /\ asking[t] # "new"
          /\ \A u \in Tasks : asking'[u] = "new" <=> asking[u] = "new"
          /\ UNCHANGED <<sent, everSent, worker, verdict, ran>>
      BY <2>2, RequestSaveShape DEF EtcdTypes
    <3>2. CASE UNCHANGED <<task, rewound>>
      BY <3>1, <3>2 DEF RunOnce, Created, Occupied, Runs
    <3>3. ASSUME NEW stored \in TaskDocument, stored.status = "queued", task' = [task EXCEPT ![t] = stored],
                 rewound' = IF task[t].status # "queued" THEN rewound \cup {t} ELSE rewound
          PROVE  RunOnce'
      <4>1. task'[t] = stored /\ \A u \in Tasks \ {t} : task'[u] = task[u]
        BY <3>3 DEF EtcdTypes
      <4> QED
        BY <3>1, <3>3, <4>1 DEF RunOnce, Created, Occupied, Runs
    <3> QED
      BY <2>2, <3>2, <3>3, RequestSaveShape
  <2>3. CASE SendTask(t) \/ RunAlso(t) \/ RequestDies(t) \/ Redeliver(t)
    BY <2>3 DEF SendTask, RunAlso, RequestDies, Redeliver, Deliver, AskTo, EtcdTypes, RunOnce, Created, Occupied, Runs
  <2> QED
    BY <1>1, <2>1, <2>2, <2>3 DEF AskingStep
<1>2. ASSUME NEW t \in Tasks, WatchdogStep(t) PROVE RunOnce'
  <2>1. CASE FindStale(t)
    <3>1. PICK stored \in TaskDocument : stored.recovery /\ verdict' = [verdict EXCEPT ![t] = stored]
      BY <2>1, FindShape
    <3>2. /\ task[t] # None
          /\ UNCHANGED <<task, asking, sent, everSent, worker, ran, rewound>>
      BY <2>1, FindShape
    <3>3. \A u \in Tasks \ {t} : verdict'[u] = verdict[u]
      BY <3>1 DEF EtcdTypes
    <3> QED
      BY <2>1, <3>2, <3>3 DEF RunOnce, Created, Occupied, Runs
  <2>2. CASE FailStale(t)
    <3>1. PICK stored \in TaskDocument : /\ stored.status = "failed" /\ stored.recovery
                                 /\ task' = [task EXCEPT ![t] = stored]
      BY <2>2, FailShape
    <3>2. /\ verdict[t] # None /\ verdict' = [verdict EXCEPT ![t] = None]
          /\ UNCHANGED <<asking, sent, everSent, worker, ran, rewound>>
      BY <2>2, FailShape
    <3>3. /\ task'[t] = stored /\ \A u \in Tasks \ {t} : task'[u] = task[u]
          /\ verdict'[t] = None /\ \A u \in Tasks \ {t} : verdict'[u] = verdict[u]
      BY <3>1, <3>2 DEF EtcdTypes
    <3> QED
      BY <3>1, <3>2, <3>3 DEF RunOnce, Created, Occupied, Runs
  <2> QED
    BY <1>2, <2>1, <2>2 DEF WatchdogStep
<1>3. ASSUME NEW w \in Runners, RunnerStep(w) PROVE RunOnce'
  <2>1. CASE WorkerDies(w)
    BY <2>1 DEF WorkerDies, EtcdTypes, RunOnce, Created, Occupied, Runs
  <2>2. ASSUME NEW t \in Tasks, TakeTask(w, t) PROVE RunOnce'
    BY <2>2 DEF TakeTask, EtcdTypes, RunOnce, Created, Occupied, Runs
  <2>3. CASE ClaimTask(w)
    <3> DEFINE t == worker[w].task
    <3>1. /\ Occupied(w) /\ worker[w].pc = "claim" /\ t \in Tasks /\ asking[t] # "new"
          /\ UNCHANGED <<asking, sent, everSent, verdict, ran, rewound>>
      BY <2>3, ClaimShape
    <3>2. CASE UNCHANGED task /\ worker' = [worker EXCEPT ![w] = IdleWorker]
      BY <3>1, <3>2 DEF EtcdTypes, RunOnce, Created, Occupied, Runs
    <3>3. ASSUME task[t].status = "queued",
                 NEW stored \in TaskDocument, stored.status = "running", task' = [task EXCEPT ![t] = stored],
                 NEW held \in Executing, held.task = t, held.clean, held.left = Targets(held.copy.kind),
                 worker' = [worker EXCEPT ![w] = held]
          PROVE  RunOnce'
      <4>1. /\ task'[t] = stored /\ \A u \in Tasks \ {t} : task'[u] = task[u]
            /\ worker'[w] = held /\ \A v \in Runners \ {w} : worker'[v] = worker[v]
        BY <3>1, <3>3 DEF EtcdTypes
      <4> QED
        BY <3>1, <3>3, <4>1 DEF Executing, RunOnce, Created, Occupied, Runs
    <3> QED
      BY <2>3, <3>2, <3>3, ClaimShape
  <2>4. CASE CallMember(w)
    <3> DEFINE t == worker[w].task
    <3>1. PICK m \in worker[w].left, carriedOut \in BOOLEAN, answered \in BOOLEAN, held \in Executing :
            /\ answered => carriedOut
            /\ ran' = IF carriedOut THEN [ran EXCEPT ![t][m] = @ + 1] ELSE ran
            /\ worker' = [worker EXCEPT ![w] = held]
            /\ held.task = t /\ held.copy = worker[w].copy
            /\ held.left = worker[w].left \ {m} /\ held.clean = (worker[w].clean /\ answered)
      BY <2>4, CallShape
    <3>2. /\ worker[w] \in Executing /\ Occupied(w) /\ t \in Tasks /\ m \in Members /\ asking[t] # "new"
          /\ UNCHANGED <<task, asking, sent, everSent, verdict, rewound>>
      BY <2>4, CallShape DEF Executing, Created
    <3>3. worker'[w] = held /\ \A v \in Runners \ {w} : worker'[v] = worker[v]
      BY <3>1 DEF EtcdTypes
    <3>4. /\ \A u \in Tasks, n \in Members : u # t \/ n # m => ran'[u][n] = ran[u][n]
          /\ ran'[t][m] \in {ran[t][m], ran[t][m] + 1} /\ carriedOut => ran'[t][m] > 0
          /\ \A u \in Tasks, n \in Members : ran[u][n] \in Nat
      BY <3>1, <3>2 DEF EtcdTypes
    <3> HIDE DEF t
    <3> QED
      BY <3>1, <3>2, <3>3, <3>4 DEF t, Executing, RunOnce, Created, Occupied, Runs
  <2>5. CASE EndTask(w)
    <3> DEFINE t == worker[w].task
    <3>1. PICK stored \in TaskDocument :
            /\ task' = [task EXCEPT ![t] = stored]
            /\ stored.status \in Final /\ stored.kind = worker[w].copy.kind
            /\ stored.kind = "compact" /\ ~stored.recovery => worker[w].clean
      BY <2>5, EndShape
    <3>2. /\ worker[w] \in Executing /\ Occupied(w) /\ worker[w].left = {} /\ t \in Tasks
          /\ worker' = [worker EXCEPT ![w] = IdleWorker]
          /\ UNCHANGED <<asking, sent, everSent, verdict, ran, rewound>>
      BY <2>5, EndShape DEF Executing
    <3>3. /\ task'[t] = stored /\ \A u \in Tasks \ {t} : task'[u] = task[u]
          /\ worker'[w] = IdleWorker /\ \A v \in Runners \ {w} : worker'[v] = worker[v]
      BY <3>1, <3>2 DEF EtcdTypes
    <3> QED
      BY <3>1, <3>2, <3>3 DEF Executing, Final, RunOnce, Created, Occupied, Runs
  <2> QED
    BY <1>3, <2>1, <2>2, <2>3, <2>4, <2>5 DEF RunnerStep, EtcdTaskStep
<1> QED
  BY <1>1, <1>2, <1>3, EtcdSteps

-----------------------------------------------------------------------------
(* The members a clean run has left behind it were called.                 *)
LEMMA CleanIsCalledStep ==
  ASSUME EtcdTypes, Created, Verdicts, CleanIsCalled, EtcdTypes', EtcdTasksNext
  PROVE  CleanIsCalled'
<1>1. ASSUME NEW t \in Tasks, AskingStep(t) PROVE CleanIsCalled'
  <2>1. ASSUME NEW k \in Kinds, CreateTask(t, k) PROVE CleanIsCalled'
    BY <2>1 DEF CreateTask, NewTask, SaveTask, AskTo, CleanIsCalled, Occupied
  <2>2. CASE SaveDispatch(t) \/ SaveMessageId(t)
    <3>1. /\ asking[t] # "new"
          /\ \A u \in Tasks : asking'[u] = "new" <=> asking[u] = "new"
          /\ UNCHANGED <<sent, everSent, worker, verdict, ran>>
      BY <2>2, RequestSaveShape DEF EtcdTypes
    <3>2. CASE UNCHANGED <<task, rewound>>
      BY <3>1, <3>2 DEF CleanIsCalled, Occupied
    <3>3. ASSUME NEW stored \in TaskDocument, stored.status = "queued", task' = [task EXCEPT ![t] = stored],
                 rewound' = IF task[t].status # "queued" THEN rewound \cup {t} ELSE rewound
          PROVE  CleanIsCalled'
      <4>1. task'[t] = stored /\ \A u \in Tasks \ {t} : task'[u] = task[u]
        BY <3>3 DEF EtcdTypes
      <4> QED
        BY <3>1, <3>3, <4>1 DEF CleanIsCalled, Occupied
    <3> QED
      BY <2>2, <3>2, <3>3, RequestSaveShape
  <2>3. CASE SendTask(t) \/ RunAlso(t) \/ RequestDies(t) \/ Redeliver(t)
    BY <2>3 DEF SendTask, RunAlso, RequestDies, Redeliver, Deliver, AskTo, EtcdTypes, CleanIsCalled, Occupied
  <2> QED
    BY <1>1, <2>1, <2>2, <2>3 DEF AskingStep
<1>2. ASSUME NEW t \in Tasks, WatchdogStep(t) PROVE CleanIsCalled'
  <2>1. CASE FindStale(t)
    <3>1. PICK stored \in TaskDocument : stored.recovery /\ verdict' = [verdict EXCEPT ![t] = stored]
      BY <2>1, FindShape
    <3>2. /\ task[t] # None
          /\ UNCHANGED <<task, asking, sent, everSent, worker, ran, rewound>>
      BY <2>1, FindShape
    <3>3. \A u \in Tasks \ {t} : verdict'[u] = verdict[u]
      BY <3>1 DEF EtcdTypes
    <3> QED
      BY <2>1, <3>2, <3>3 DEF CleanIsCalled, Occupied
  <2>2. CASE FailStale(t)
    <3>1. PICK stored \in TaskDocument : /\ stored.status = "failed" /\ stored.recovery
                                 /\ task' = [task EXCEPT ![t] = stored]
      BY <2>2, FailShape
    <3>2. /\ verdict[t] # None /\ verdict' = [verdict EXCEPT ![t] = None]
          /\ UNCHANGED <<asking, sent, everSent, worker, ran, rewound>>
      BY <2>2, FailShape
    <3>3. /\ task'[t] = stored /\ \A u \in Tasks \ {t} : task'[u] = task[u]
          /\ verdict'[t] = None /\ \A u \in Tasks \ {t} : verdict'[u] = verdict[u]
      BY <3>1, <3>2 DEF EtcdTypes
    <3> QED
      BY <3>1, <3>2, <3>3 DEF CleanIsCalled, Occupied
  <2> QED
    BY <1>2, <2>1, <2>2 DEF WatchdogStep
<1>3. ASSUME NEW w \in Runners, RunnerStep(w) PROVE CleanIsCalled'
  <2>1. CASE WorkerDies(w)
    BY <2>1 DEF WorkerDies, EtcdTypes, CleanIsCalled, Occupied
  <2>2. ASSUME NEW t \in Tasks, TakeTask(w, t) PROVE CleanIsCalled'
    BY <2>2 DEF TakeTask, EtcdTypes, CleanIsCalled, Occupied
  <2>3. CASE ClaimTask(w)
    <3> DEFINE t == worker[w].task
    <3>1. /\ Occupied(w) /\ worker[w].pc = "claim" /\ t \in Tasks /\ asking[t] # "new"
          /\ UNCHANGED <<asking, sent, everSent, verdict, ran, rewound>>
      BY <2>3, ClaimShape
    <3>2. CASE UNCHANGED task /\ worker' = [worker EXCEPT ![w] = IdleWorker]
      BY <3>1, <3>2 DEF EtcdTypes, CleanIsCalled, Occupied
    <3>3. ASSUME task[t].status = "queued",
                 NEW stored \in TaskDocument, stored.status = "running", task' = [task EXCEPT ![t] = stored],
                 NEW held \in Executing, held.task = t, held.clean, held.left = Targets(held.copy.kind),
                 worker' = [worker EXCEPT ![w] = held]
          PROVE  CleanIsCalled'
      <4>1. /\ task'[t] = stored /\ \A u \in Tasks \ {t} : task'[u] = task[u]
            /\ worker'[w] = held /\ \A v \in Runners \ {w} : worker'[v] = worker[v]
        BY <3>1, <3>3 DEF EtcdTypes
      <4> QED
        BY <3>1, <3>3, <4>1 DEF Executing, CleanIsCalled, Occupied
    <3> QED
      BY <2>3, <3>2, <3>3, ClaimShape
  <2>4. CASE CallMember(w)
    <3> DEFINE t == worker[w].task
    <3>1. PICK m \in worker[w].left, carriedOut \in BOOLEAN, answered \in BOOLEAN, held \in Executing :
            /\ answered => carriedOut
            /\ ran' = IF carriedOut THEN [ran EXCEPT ![t][m] = @ + 1] ELSE ran
            /\ worker' = [worker EXCEPT ![w] = held]
            /\ held.task = t /\ held.copy = worker[w].copy
            /\ held.left = worker[w].left \ {m} /\ held.clean = (worker[w].clean /\ answered)
      BY <2>4, CallShape
    <3>2. /\ worker[w] \in Executing /\ Occupied(w) /\ t \in Tasks /\ m \in Members /\ asking[t] # "new"
          /\ UNCHANGED <<task, asking, sent, everSent, verdict, rewound>>
      BY <2>4, CallShape DEF Executing, Created
    <3>3. worker'[w] = held /\ \A v \in Runners \ {w} : worker'[v] = worker[v]
      BY <3>1 DEF EtcdTypes
    <3>4. /\ \A u \in Tasks, n \in Members : u # t \/ n # m => ran'[u][n] = ran[u][n]
          /\ ran'[t][m] \in {ran[t][m], ran[t][m] + 1} /\ carriedOut => ran'[t][m] > 0
          /\ \A u \in Tasks, n \in Members : ran[u][n] \in Nat
      BY <3>1, <3>2 DEF EtcdTypes
    <3> HIDE DEF t
    <3> QED
      BY <3>1, <3>2, <3>3, <3>4 DEF t, Executing, CleanIsCalled, Occupied
  <2>5. CASE EndTask(w)
    <3> DEFINE t == worker[w].task
    <3>1. PICK stored \in TaskDocument :
            /\ task' = [task EXCEPT ![t] = stored]
            /\ stored.status \in Final /\ stored.kind = worker[w].copy.kind
            /\ stored.kind = "compact" /\ ~stored.recovery => worker[w].clean
      BY <2>5, EndShape
    <3>2. /\ worker[w] \in Executing /\ Occupied(w) /\ worker[w].left = {} /\ t \in Tasks
          /\ worker' = [worker EXCEPT ![w] = IdleWorker]
          /\ UNCHANGED <<asking, sent, everSent, verdict, ran, rewound>>
      BY <2>5, EndShape DEF Executing
    <3>3. /\ task'[t] = stored /\ \A u \in Tasks \ {t} : task'[u] = task[u]
          /\ worker'[w] = IdleWorker /\ \A v \in Runners \ {w} : worker'[v] = worker[v]
      BY <3>1, <3>2 DEF EtcdTypes
    <3> QED
      BY <3>1, <3>2, <3>3 DEF Executing, Final, CleanIsCalled, Occupied
  <2> QED
    BY <1>3, <2>1, <2>2, <2>3, <2>4, <2>5 DEF RunnerStep, EtcdTaskStep
<1> QED
  BY <1>1, <1>2, <1>3, EtcdSteps

-----------------------------------------------------------------------------
(* A compaction that ended well was carried out.                           *)
LEMMA CompactedStep ==
  ASSUME EtcdTypes, Created, Verdicts, CleanIsCalled, Compacted, EtcdTypes', EtcdTasksNext
  PROVE  Compacted'
<1>1. ASSUME NEW t \in Tasks, AskingStep(t) PROVE Compacted'
  <2>1. ASSUME NEW k \in Kinds, CreateTask(t, k) PROVE Compacted'
    BY <2>1 DEF CreateTask, NewTask, SaveTask, AskTo, Compacted, EtcdTypes, Final
  <2>2. CASE SaveDispatch(t) \/ SaveMessageId(t)
    <3>1. /\ asking[t] # "new"
          /\ \A u \in Tasks : asking'[u] = "new" <=> asking[u] = "new"
          /\ UNCHANGED <<sent, everSent, worker, verdict, ran>>
      BY <2>2, RequestSaveShape DEF EtcdTypes
    <3>2. CASE UNCHANGED <<task, rewound>>
      BY <3>1, <3>2 DEF Compacted, CleanIsCalled, Occupied
    <3>3. ASSUME NEW stored \in TaskDocument, stored.status = "queued", task' = [task EXCEPT ![t] = stored],
                 rewound' = IF task[t].status # "queued" THEN rewound \cup {t} ELSE rewound
          PROVE  Compacted'
      <4>1. task'[t] = stored /\ \A u \in Tasks \ {t} : task'[u] = task[u]
        BY <3>3 DEF EtcdTypes
      <4> QED
        BY <3>1, <3>3, <4>1 DEF Compacted, Final
    <3> QED
      BY <2>2, <3>2, <3>3, RequestSaveShape
  <2>3. CASE SendTask(t) \/ RunAlso(t) \/ RequestDies(t) \/ Redeliver(t)
    BY <2>3 DEF SendTask, RunAlso, RequestDies, Redeliver, Deliver, AskTo, EtcdTypes, Compacted, CleanIsCalled, Occupied
  <2> QED
    BY <1>1, <2>1, <2>2, <2>3 DEF AskingStep
<1>2. ASSUME NEW t \in Tasks, WatchdogStep(t) PROVE Compacted'
  <2>1. CASE FindStale(t)
    <3>1. PICK stored \in TaskDocument : stored.recovery /\ verdict' = [verdict EXCEPT ![t] = stored]
      BY <2>1, FindShape
    <3>2. /\ task[t] # None
          /\ UNCHANGED <<task, asking, sent, everSent, worker, ran, rewound>>
      BY <2>1, FindShape
    <3>3. \A u \in Tasks \ {t} : verdict'[u] = verdict[u]
      BY <3>1 DEF EtcdTypes
    <3> QED
      BY <2>1, <3>2, <3>3 DEF Compacted, CleanIsCalled, Occupied
  <2>2. CASE FailStale(t)
    <3>1. PICK stored \in TaskDocument : /\ stored.status = "failed" /\ stored.recovery
                                 /\ task' = [task EXCEPT ![t] = stored]
      BY <2>2, FailShape
    <3>2. /\ verdict[t] # None /\ verdict' = [verdict EXCEPT ![t] = None]
          /\ UNCHANGED <<asking, sent, everSent, worker, ran, rewound>>
      BY <2>2, FailShape
    <3>3. /\ task'[t] = stored /\ \A u \in Tasks \ {t} : task'[u] = task[u]
          /\ verdict'[t] = None /\ \A u \in Tasks \ {t} : verdict'[u] = verdict[u]
      BY <3>1, <3>2 DEF EtcdTypes
    <3> QED
      BY <3>1, <3>2, <3>3 DEF Compacted, CleanIsCalled, Occupied
  <2> QED
    BY <1>2, <2>1, <2>2 DEF WatchdogStep
<1>3. ASSUME NEW w \in Runners, RunnerStep(w) PROVE Compacted'
  <2>1. CASE WorkerDies(w)
    BY <2>1 DEF WorkerDies, EtcdTypes, Compacted, CleanIsCalled, Occupied
  <2>2. ASSUME NEW t \in Tasks, TakeTask(w, t) PROVE Compacted'
    BY <2>2 DEF TakeTask, EtcdTypes, Compacted, CleanIsCalled, Occupied
  <2>3. CASE ClaimTask(w)
    <3> DEFINE t == worker[w].task
    <3>1. /\ Occupied(w) /\ worker[w].pc = "claim" /\ t \in Tasks /\ asking[t] # "new"
          /\ UNCHANGED <<asking, sent, everSent, verdict, ran, rewound>>
      BY <2>3, ClaimShape
    <3>2. CASE UNCHANGED task /\ worker' = [worker EXCEPT ![w] = IdleWorker]
      BY <3>1, <3>2 DEF EtcdTypes, Compacted, CleanIsCalled, Occupied
    <3>3. ASSUME task[t].status = "queued",
                 NEW stored \in TaskDocument, stored.status = "running", task' = [task EXCEPT ![t] = stored],
                 NEW held \in Executing, held.task = t, held.clean, held.left = Targets(held.copy.kind),
                 worker' = [worker EXCEPT ![w] = held]
          PROVE  Compacted'
      <4>1. /\ task'[t] = stored /\ \A u \in Tasks \ {t} : task'[u] = task[u]
            /\ worker'[w] = held /\ \A v \in Runners \ {w} : worker'[v] = worker[v]
        BY <3>1, <3>3 DEF EtcdTypes
      <4> QED
        BY <3>1, <3>3, <4>1 DEF Compacted, Final
    <3> QED
      BY <2>3, <3>2, <3>3, ClaimShape
  <2>4. CASE CallMember(w)
    <3> DEFINE t == worker[w].task
    <3>1. PICK m \in worker[w].left, carriedOut \in BOOLEAN, answered \in BOOLEAN, held \in Executing :
            /\ answered => carriedOut
            /\ ran' = IF carriedOut THEN [ran EXCEPT ![t][m] = @ + 1] ELSE ran
            /\ worker' = [worker EXCEPT ![w] = held]
            /\ held.task = t /\ held.copy = worker[w].copy
            /\ held.left = worker[w].left \ {m} /\ held.clean = (worker[w].clean /\ answered)
      BY <2>4, CallShape
    <3>2. /\ worker[w] \in Executing /\ Occupied(w) /\ t \in Tasks /\ m \in Members /\ asking[t] # "new"
          /\ UNCHANGED <<task, asking, sent, everSent, verdict, rewound>>
      BY <2>4, CallShape DEF Executing, Created
    <3>3. worker'[w] = held /\ \A v \in Runners \ {w} : worker'[v] = worker[v]
      BY <3>1 DEF EtcdTypes
    <3>4. /\ \A u \in Tasks, n \in Members : u # t \/ n # m => ran'[u][n] = ran[u][n]
          /\ ran'[t][m] \in {ran[t][m], ran[t][m] + 1} /\ carriedOut => ran'[t][m] > 0
          /\ \A u \in Tasks, n \in Members : ran[u][n] \in Nat
      BY <3>1, <3>2 DEF EtcdTypes
    <3> HIDE DEF t
    <3> QED
      BY <3>1, <3>2, <3>3, <3>4 DEF t, Executing, Compacted, CleanIsCalled, Occupied
  <2>5. CASE EndTask(w)
    <3> DEFINE t == worker[w].task
    <3>1. PICK stored \in TaskDocument :
            /\ task' = [task EXCEPT ![t] = stored]
            /\ stored.status \in Final /\ stored.kind = worker[w].copy.kind
            /\ stored.kind = "compact" /\ ~stored.recovery => worker[w].clean
      BY <2>5, EndShape
    <3>2. /\ worker[w] \in Executing /\ Occupied(w) /\ worker[w].left = {} /\ t \in Tasks
          /\ worker' = [worker EXCEPT ![w] = IdleWorker]
          /\ UNCHANGED <<asking, sent, everSent, verdict, ran, rewound>>
      BY <2>5, EndShape DEF Executing
    <3>3. /\ task'[t] = stored /\ \A u \in Tasks \ {t} : task'[u] = task[u]
          /\ worker'[w] = IdleWorker /\ \A v \in Runners \ {w} : worker'[v] = worker[v]
      BY <3>1, <3>2 DEF EtcdTypes
    <3>4. stored.kind = "compact" /\ ~stored.recovery => \A m \in Targets("compact") : ran[t][m] > 0
      BY <3>1, <3>2 DEF CleanIsCalled, Executing
    <3> HIDE DEF t
    <3> QED
      BY <3>1, <3>2, <3>3, <3>4 DEF Compacted
  <2> QED
    BY <1>3, <2>1, <2>2, <2>3, <2>4, <2>5 DEF RunnerStep, EtcdTaskStep
<1> QED
  BY <1>1, <1>2, <1>3, EtcdSteps

-----------------------------------------------------------------------------
LEMMA EtcdInvInit == EtcdTasksInit => EtcdInv
<1> SUFFICES ASSUME EtcdTasksInit PROVE EtcdInv
  OBVIOUS
<1>1. EtcdTypes
  BY DEF EtcdTasksInit, EtcdTypes
<1>2. Created /\ Verdicts
  BY DEF EtcdTasksInit, Created, Verdicts, Occupied
<1>3. RunOnce /\ CleanIsCalled /\ Compacted
  BY DEF EtcdTasksInit, RunOnce, CleanIsCalled, Compacted, Occupied, Runs
<1> QED
  BY <1>1, <1>2, <1>3 DEF EtcdInv

LEMMA EtcdInvStep == EtcdInv /\ [EtcdTasksNext]_etvars => EtcdInv'
<1> SUFFICES ASSUME EtcdInv, [EtcdTasksNext]_etvars PROVE EtcdInv'
  OBVIOUS
<1>1. CASE EtcdTasksNext
  BY <1>1, EtcdTypeStep, CreatedStep, VerdictsStep, RunOnceStep, CleanIsCalledStep, CompactedStep DEF EtcdInv
<1>2. CASE UNCHANGED etvars
  BY <1>2 DEF etvars, EtcdInv, EtcdTypes, Created, Verdicts, RunOnce, CleanIsCalled, Compacted, Occupied, Runs
<1> QED
  BY <1>1, <1>2

LEMMA EtcdInvImplies == EtcdInv => EffectOnce
<1> SUFFICES ASSUME EtcdInv, NEW t \in Tasks
             PROVE  /\ \A m \in Members : ran[t][m] > 1 => t \in rewound
                    /\ TaskOver(t) /\ task[t].kind = "compact" /\ ~task[t].recovery =>
                         \A m \in Targets("compact") : ran[t][m] > 0
  BY DEF EffectOnce
<1>1. \A m \in Members : ran[t][m] > 1 => t \in rewound
  BY DEF EtcdInv, EtcdTypes, RunOnce
<1>2. TaskOver(t) => asking[t] # "new"
  BY DEF EtcdInv, Created, TaskOver
<1> QED
  BY <1>1, <1>2 DEF EtcdInv, Compacted, TaskOver

(* Whatever the broker delivers twice, the request runs as well or the     *)
(* watchdog fails meanwhile: no member is called twice for a task whose    *)
(* document the request has not set back, and a compaction that is over    *)
(* and needs no recovery was carried out.                                  *)
THEOREM EffectCorrect == EtcdTasksSpec => []EffectOnce
<1>1. EtcdTasksInit => EtcdInv
  BY EtcdInvInit
<1>2. EtcdInv /\ [EtcdTasksNext]_etvars => EtcdInv'
  BY EtcdInvStep
<1>3. EtcdInv => EffectOnce
  BY EtcdInvImplies
<1> QED
  BY <1>1, <1>2, <1>3, PTL DEF EtcdTasksSpec

-----------------------------------------------------------------------------
(* Replication rules.                                                      *)
IdleMaker == [pc : {"new", "gone", "saveFailed"}]
MeshMaker == [pc : {"buckets", "version", "read", "add", "done", "fail"}, sites : SUBSET Sites,
              todo : (SUBSET Sites) \cup (SUBSET (Sites \X Sites)), failed : BOOLEAN]
HandMaker == [pc : {"connect"}, pair : PairsOf(Sites)]
             \cup [pc : {"disconnect"}, rule : [pair : PairsOf(Sites), by : Makers, on : BOOLEAN]]
RuleType == [pair : PairsOf(Sites), by : Makers, on : BOOLEAN]
MakerType == IdleMaker \cup MeshMaker \cup HandMaker
MeshTypes ==
  /\ mesher \in [Makers -> MakerType] /\ rules \subseteq RuleType
  /\ known \subseteq Sites /\ meshHolder \in Makers \cup {None} /\ meshLapsed \in BOOLEAN
(* Who makes rules has the lock, unless its lease ran out.                 *)
AtWork(x) == x.pc \in {"buckets", "version", "read", "add", "done"}
OneMaker == ~meshLapsed => \A m \in Makers : AtWork(mesher[m]) => meshHolder = m
(* What is still to be added has no rule but one made by hand.             *)
StillMissing == ~meshLapsed =>
  \A m \in Makers : mesher[m].pc = "add" =>
    \A r \in rules : r.pair \in mesher[m].todo => r.by \in Operators
HandMade == \A m \in Makers : mesher[m].pc = "connect" => m \in Operators
MeshInv == MeshTypes /\ OneMaker /\ StillMissing /\ HandMade /\ PairsHaveOneRule

LEMMA MeshInvInit == MeshInit => MeshInv
<1> SUFFICES ASSUME MeshInit PROVE MeshInv
  OBVIOUS
<1>1. \A m \in Makers : mesher[m] = NotYet
  BY DEF MeshInit
<1>2. NotYet \in IdleMaker /\ NotYet.pc = "new"
  BY DEF NotYet, IdleMaker
<1>3. MeshTypes
  BY <1>2 DEF MeshInit, MeshTypes, MakerType
<1> QED BY <1>1, <1>2, <1>3 DEF MeshInit, MeshInv, OneMaker, AtWork, StillMissing, HandMade, PairsHaveOneRule

(* One of them moves: it takes the lock when nobody has it, or has it, or  *)
(* leaves it; it adds no rule.                                             *)
LEMMA MakerMoves ==
  ASSUME MeshInv, NEW m \in Makers, NEW x \in MakerType, mesher' = [mesher EXCEPT ![m] = x],
         rules' \subseteq rules, known' = known, meshLapsed' = meshLapsed, meshHolder' \in Makers \cup {None},
         meshHolder' = meshHolder \/ meshHolder \in {m, None},
         AtWork(x) => meshHolder' = m \/ (meshHolder' = meshHolder /\ AtWork(mesher[m])),
         x.pc = "add" /\ ~meshLapsed => \A r \in rules : r.pair \in x.todo => r.by \in Operators,
         x.pc = "connect" => m \in Operators
  PROVE  MeshInv'
<1>1. mesher'[m] = x /\ \A q \in Makers : q # m => mesher'[q] = mesher[q]
  BY DEF MeshInv, MeshTypes
<1>2. MeshTypes'
  BY DEF MeshInv, MeshTypes
<1>3. OneMaker'
  BY <1>1, NoneIsNoMaker DEF MeshInv, OneMaker
<1>4. StillMissing'
  BY <1>1 DEF MeshInv, StillMissing
<1>5. HandMade'
  BY <1>1 DEF MeshInv, HandMade
<1>6. PairsHaveOneRule'
  BY DEF MeshInv, PairsHaveOneRule
<1> QED BY <1>2, <1>3, <1>4, <1>5, <1>6 DEF MeshInv

(* One of them adds a rule, by hand or for a pair that it found without.   *)
LEMMA MakerAdds ==
  ASSUME MeshInv, NEW m \in Makers, NEW x \in MakerType, mesher' = [mesher EXCEPT ![m] = x],
         NEW r \in RuleType, rules' = rules \cup {r}, UNCHANGED <<known, lockVars>>, r.by = m,
         m \notin Operators => /\ mesher[m].pc = "add" /\ r.pair \in mesher[m].todo
                               /\ r.pair \notin x.todo,
         x.pc \in {"add", "gone"},
         x.pc = "add" => mesher[m].pc = "add" /\ x.todo \subseteq mesher[m].todo
  PROVE  MeshInv'
<1>1. mesher'[m] = x /\ \A q \in Makers : q # m => mesher'[q] = mesher[q]
  BY DEF MeshInv, MeshTypes
<1>2. MeshTypes'
  BY DEF MeshInv, MeshTypes, lockVars
<1>3. OneMaker'
  BY <1>1 DEF MeshInv, OneMaker, AtWork, lockVars
<1>4. StillMissing'
  <2> SUFFICES ASSUME ~meshLapsed, NEW q \in Makers, mesher'[q].pc = "add",
                      NEW y \in rules \cup {r}, y.pair \in mesher'[q].todo, y.by \notin Operators
               PROVE  FALSE
    BY DEF StillMissing, lockVars
  <2>1. CASE y \in rules
    BY <1>1, <2>1 DEF MeshInv, StillMissing
  <2>2. CASE y = r /\ q = m
    BY <1>1, <2>2
  <2>3. CASE y = r /\ q # m
    <3>1. AtWork(mesher[q]) /\ AtWork(mesher[m])
      BY <1>1, <2>3 DEF AtWork
    <3> QED BY <2>3, <3>1 DEF MeshInv, OneMaker
  <2> QED BY <2>1, <2>2, <2>3
<1>5. HandMade'
  BY <1>1 DEF MeshInv, HandMade
<1>6. PairsHaveOneRule'
  <2> SUFFICES ASSUME ~meshLapsed, NEW y \in rules, y.pair = r.pair, m \notin Operators PROVE y.by \in Operators
    BY DEF MeshInv, PairsHaveOneRule, lockVars
  <2> QED BY DEF MeshInv, StillMissing
<1> QED BY <1>2, <1>3, <1>4, <1>5, <1>6 DEF MeshInv

LEMMA MakerKinds ==
  ASSUME MeshInv, NEW m \in Makers
  PROVE  /\ mesher[m].pc \in {"buckets", "version", "read", "add", "done", "fail"} => mesher[m] \in MeshMaker
         /\ mesher[m].pc \in {"new", "gone", "saveFailed"} => mesher[m] \in IdleMaker
         /\ mesher[m].pc \in {"connect", "disconnect"} => mesher[m] \in HandMaker
BY DEF MeshInv, MeshTypes, MakerType, IdleMaker, MeshMaker, HandMaker

LEMMA AfterIdle == \A m : AfterMesh(m) \in IdleMaker /\ AfterMesh(m).pc \in {"new", "gone"}
BY DEF AfterMesh, NotYet, Gone, IdleMaker

LEMMA MeshTakes ==
  ASSUME MeshInv, (\E m \in Approvals : Approve(m)) \/ BeginRepair
  PROVE  MeshInv'
<1>1. ASSUME NEW m \in Approvals, Approve(m) PROVE MeshInv'
  <2>1. m \in Makers /\ rules' = rules /\ known' = known /\ meshLapsed' = meshLapsed
    BY <1>1 DEF Approve, Makers, siteVars
  <2>2. CASE mesher' = [mesher EXCEPT ![m] = Gone] /\ UNCHANGED meshHolder
    <3>1. Gone \in MakerType /\ Gone.pc = "gone"
      BY DEF Gone, MakerType, IdleMaker
    <3>2. meshHolder' \in Makers \cup {None}
      BY <2>2 DEF MeshInv, MeshTypes
    <3> QED BY <2>1, <2>2, <3>1, <3>2, MakerMoves DEF AtWork
  <2>3. CASE /\ meshHolder = None /\ meshHolder' = m
             /\ mesher' = [mesher EXCEPT ![m] =
                  [pc |-> IF Cardinality(known) >= 2 THEN "buckets" ELSE "fail",
                   sites |-> known, todo |-> known, failed |-> FALSE]]
    <3> DEFINE x == [pc |-> IF Cardinality(known) >= 2 THEN "buckets" ELSE "fail",
                     sites |-> known, todo |-> known, failed |-> FALSE]
    <3>1. x \in MakerType /\ x.pc \in {"buckets", "fail"}
      BY DEF MakerType, MeshMaker, MeshInv, MeshTypes
    <3>2. mesher' = [mesher EXCEPT ![m] = x]
      BY <2>3
    <3> HIDE DEF x
    <3> QED BY <2>1, <2>3, <3>1, <3>2, MakerMoves
  <2> QED BY <1>1, <2>2, <2>3 DEF Approve, MeshGoes
<1>2. CASE BeginRepair
  <2> DEFINE x == [pc |-> "read", sites |-> known, todo |-> {}, failed |-> FALSE]
  <2>1. x \in MakerType /\ x.pc = "read"
    BY DEF MakerType, MeshMaker, MeshInv, MeshTypes
  <2>2. mesher' = [mesher EXCEPT ![Loop] = x]
    BY <1>2 DEF BeginRepair, MeshGoes
  <2>3. /\ Loop \in Makers /\ rules' = rules /\ known' = known /\ meshLapsed' = meshLapsed
        /\ meshHolder = None /\ meshHolder' = Loop
    BY <1>2 DEF BeginRepair, Makers, siteVars
  <2> HIDE DEF x
  <2> QED BY <2>1, <2>2, <2>3, MakerMoves
<1> QED BY <1>1, <1>2

(* Buckets, versioning and the check: who works goes on or fails.          *)
LEMMA MeshGoesOn ==
  ASSUME MeshInv, NEW m \in Makers,
         \/ \E s \in Sites : MakeBucket(m, s) \/ SetVersioning(m, s)
         \/ BucketsMade(m) \/ CheckMesh(m)
  PROVE  MeshInv'
<1> DEFINE a == mesher[m]
<1>1. /\ a.pc \in {"buckets", "version", "add"} /\ a \in MeshMaker
      /\ UNCHANGED <<known, rules, meshHolder, meshLapsed>>
  BY MakerKinds DEF MakeBucket, SetVersioning, BucketsMade, CheckMesh, MeshAt, siteVars, lockVars
<1>2. PICK x \in MeshMaker : mesher' = [mesher EXCEPT ![m] = x] /\ x.pc # "add"
  <2>1. ASSUME NEW s \in Sites, MakeBucket(m, s) PROVE \E x \in MeshMaker : mesher' = [mesher EXCEPT ![m] = x] /\ x.pc # "add"
    <3>1. a.pc = "buckets"
      BY <2>1 DEF MakeBucket, MeshAt
    <3>2. [a EXCEPT !.todo = @ \ {s}] \in MeshMaker /\ [a EXCEPT !.todo = @ \ {s}].pc = "buckets"
      BY <1>1, <3>1 DEF MeshMaker
    <3>3. [a EXCEPT !.todo = @ \ {s}, !.failed = TRUE] \in MeshMaker /\ [a EXCEPT !.todo = @ \ {s}, !.failed = TRUE].pc = "buckets"
      BY <1>1, <3>1 DEF MeshMaker
    <3>4. \/ mesher' = [mesher EXCEPT ![m] = [a EXCEPT !.todo = @ \ {s}]]
          \/ mesher' = [mesher EXCEPT ![m] = [a EXCEPT !.todo = @ \ {s}, !.failed = TRUE]]
      BY <2>1 DEF MakeBucket, MeshGoes
    <3> QED BY <3>2, <3>3, <3>4
  <2>2. ASSUME NEW s \in Sites, SetVersioning(m, s) PROVE \E x \in MeshMaker : mesher' = [mesher EXCEPT ![m] = x] /\ x.pc # "add"
    <3> DEFINE left == a.todo \ {s}
               y == [a EXCEPT !.todo = left, !.pc = IF left = {} THEN "read" ELSE "version"]
               z == [a EXCEPT !.pc = "fail"]
    <3>1. y \in MeshMaker /\ y.pc # "add" /\ z \in MeshMaker /\ z.pc = "fail"
      BY <1>1 DEF MeshMaker
    <3>2. mesher' = [mesher EXCEPT ![m] = y] \/ mesher' = [mesher EXCEPT ![m] = z]
      BY <2>2 DEF SetVersioning, MeshGoes
    <3> QED BY <3>1, <3>2
  <2>3. CASE BucketsMade(m)
    <3> DEFINE y == [a EXCEPT !.pc = "version", !.todo = a.sites]
               z == [a EXCEPT !.pc = "fail"]
    <3>1. y \in MeshMaker /\ y.pc # "add" /\ z \in MeshMaker /\ z.pc = "fail"
      BY <1>1 DEF MeshMaker
    <3>2. mesher' = [mesher EXCEPT ![m] = y] \/ mesher' = [mesher EXCEPT ![m] = z]
      BY <2>3 DEF BucketsMade, MeshGoes
    <3> QED BY <3>1, <3>2
  <2>4. CASE CheckMesh(m)
    <3> DEFINE y == [a EXCEPT !.pc = "done"]
               z == [a EXCEPT !.pc = "fail"]
    <3>1. y \in MeshMaker /\ y.pc # "add" /\ z \in MeshMaker /\ z.pc = "fail"
      BY <1>1 DEF MeshMaker
    <3>2. mesher' = [mesher EXCEPT ![m] = y] \/ mesher' = [mesher EXCEPT ![m] = z]
      BY <2>4 DEF CheckMesh, MeshGoes
    <3> QED BY <3>1, <3>2
  <2> QED BY <2>1, <2>2, <2>3, <2>4
<1>3. AtWork(a)
  BY <1>1 DEF AtWork
<1>4. x \in MakerType /\ x.pc # "connect"
  BY <1>2 DEF MakerType, MeshMaker
<1>5. meshHolder' \in Makers \cup {None}
  BY <1>1 DEF MeshInv, MeshTypes
<1> QED BY <1>1, <1>2, <1>3, <1>4, <1>5, MakerMoves

(* The pairs to add are those without a rule, and are added one by one.    *)
LEMMA MeshRules ==
  ASSUME MeshInv, NEW m \in Makers, ReadRules(m) \/ \E p \in PairsOf(Sites) : AddRule(m, p)
  PROVE  MeshInv'
<1> DEFINE a == mesher[m]
<1>1. /\ a.pc \in {"read", "add"} /\ a \in MeshMaker /\ AtWork(a)
      /\ UNCHANGED <<known, meshHolder, meshLapsed>> /\ meshHolder' \in Makers \cup {None}
  BY MakerKinds DEF ReadRules, AddRule, MeshAt, siteVars, lockVars, AtWork, MeshInv, MeshTypes
<1>2. CASE ReadRules(m) /\ MeshGoes(m, [a EXCEPT !.pc = "fail"])
  <2> DEFINE x == [a EXCEPT !.pc = "fail"]
  <2>1. x \in MakerType /\ x.pc = "fail"
    BY <1>1 DEF MakerType, MeshMaker
  <2>2. mesher' = [mesher EXCEPT ![m] = x] /\ rules' = rules
    BY <1>2 DEF MeshGoes, ReadRules
  <2> HIDE DEF x
  <2> QED BY <1>1, <2>1, <2>2, MakerMoves
<1>3. CASE ReadRules(m) /\ MeshGoes(m, [a EXCEPT !.pc = "add", !.todo = {p \in PairsOf(a.sites) : RulesFor(p) = {}}])
  <2> DEFINE missing == {p \in PairsOf(a.sites) : RulesFor(p) = {}}
             x == [a EXCEPT !.pc = "add", !.todo = missing]
  <2>1. missing \in SUBSET (Sites \X Sites)
    BY <1>1 DEF PairsOf, MeshMaker
  <2>2. \A r \in rules : r.pair \notin missing
    BY DEF RulesFor
  <2>3. mesher' = [mesher EXCEPT ![m] = x] /\ rules' = rules
    BY <1>3 DEF MeshGoes, ReadRules
  <2> HIDE DEF missing
  <2>4. x \in MeshMaker /\ x.pc = "add" /\ x.todo = missing
    BY <1>1, <2>1 DEF MeshMaker
  <2>5. x \in MakerType
    BY <2>4 DEF MakerType
  <2> HIDE DEF x
  <2> QED BY <1>1, <2>2, <2>3, <2>4, <2>5, MakerMoves
<1>4. ASSUME NEW p \in PairsOf(Sites), AddRule(m, p) PROVE MeshInv'
  <2>1. PICK b \in BOOLEAN : mesher' = [mesher EXCEPT ![m] = [a EXCEPT !.todo = @ \ {p}, !.failed = @ \/ b]]
    BY <1>4 DEF AddRule, MeshGoes
  <2> DEFINE x == [a EXCEPT !.todo = @ \ {p}, !.failed = @ \/ b]
  <2>2. x \in MakerType /\ x.pc = a.pc /\ x.todo = a.todo \ {p} /\ a.pc = "add" /\ p \in a.todo
    BY <1>1, <1>4 DEF MakerType, MeshMaker, AddRule, MeshAt
  <2>3. mesher' = [mesher EXCEPT ![m] = x]
    BY <2>1
  <2> HIDE DEF x
  <2>4. CASE rules' = rules
    <3>1. ~meshLapsed => \A r \in rules : r.pair \in x.todo => r.by \in Operators
      BY <2>2 DEF MeshInv, StillMissing
    <3> QED BY <1>1, <2>2, <2>3, <2>4, <3>1, MakerMoves
  <2>5. CASE rules' = rules \cup {Rule(p, m, TRUE)}
    <3> DEFINE r == Rule(p, m, TRUE)
    <3>1. r \in RuleType /\ r.by = m /\ r.pair = p
      BY DEF Rule, RuleType
    <3> HIDE DEF r
    <3>2. UNCHANGED <<known, lockVars>> /\ rules' = rules \cup {r}
      BY <1>1, <2>5 DEF lockVars, r
    <3> QED BY <2>2, <2>3, <3>2, <3>1, <3>2, MakerAdds
  <2> QED BY <1>4, <2>4, <2>5 DEF AddRule
<1> QED BY <1>2, <1>3, <1>4 DEF ReadRules

LEMMA MeshEnds ==
  ASSUME MeshInv, NEW m \in Makers, LeaveLock(m) \/ SaveMesh(m) \/ MesherDies(m)
  PROVE  MeshInv'
<1>1. PICK x \in IdleMaker : mesher' = [mesher EXCEPT ![m] = x]
  <2>1. CASE LeaveLock(m)
    <3>1. [pc |-> "saveFailed"] \in IdleMaker
      BY DEF IdleMaker
    <3> QED BY <2>1, <3>1 DEF LeaveLock, MeshGoes
  <2>2. CASE SaveMesh(m) \/ MesherDies(m)
    BY <2>2, AfterIdle DEF SaveMesh, MesherDies, MeshGoes
  <2> QED BY <2>1, <2>2
<1>2. x \in MakerType /\ ~AtWork(x) /\ x.pc \notin {"add", "connect"}
  BY DEF MakerType, IdleMaker, AtWork
<1>3. /\ rules' = rules /\ known' = known /\ meshLapsed' = meshLapsed
      /\ meshHolder' = meshHolder \/ (meshHolder = m /\ meshHolder' = None)
  BY DEF LeaveLock, SaveMesh, MesherDies, siteVars, lockVars
<1>4. meshHolder' \in Makers \cup {None}
  BY <1>3 DEF MeshInv, MeshTypes
<1> QED BY <1>1, <1>2, <1>3, <1>4, MakerMoves

(* An operator's call looks, then makes or removes a rule.                 *)
LEMMA MeshByHand ==
  ASSUME MeshInv, NEW m \in Makers,
         \/ m \in Operators /\ \E p \in PairsOf(Sites) : Connect(m, p)
         \/ \E r \in rules : Disconnect(m, r)
         \/ ConnectNow(m) \/ DisconnectNow(m)
  PROVE  MeshInv'
<1>1. UNCHANGED <<known, meshHolder, meshLapsed>> /\ meshHolder' \in Makers \cup {None}
  BY DEF Connect, Disconnect, ConnectNow, DisconnectNow, siteVars, lockVars, MeshInv, MeshTypes
<1>2. Gone \in MakerType /\ Gone.pc = "gone"
  BY DEF Gone, MakerType, IdleMaker
<1>3. ASSUME m \in Operators, NEW p \in PairsOf(Sites), Connect(m, p) PROVE MeshInv'
  <2> DEFINE x == [pc |-> "connect", pair |-> p]
  <2>1. x \in MakerType /\ x.pc = "connect"
    BY DEF MakerType, HandMaker
  <2>2. mesher' = [mesher EXCEPT ![m] = x] /\ rules' = rules
    BY <1>3 DEF Connect, MeshGoes
  <2> HIDE DEF x
  <2> QED BY <1>1, <1>3, <2>1, <2>2, MakerMoves DEF AtWork
<1>4. ASSUME NEW r \in rules, Disconnect(m, r) PROVE MeshInv'
  <2> DEFINE x == [pc |-> "disconnect", rule |-> r]
  <2>1. x \in MakerType /\ x.pc = "disconnect"
    BY DEF MakerType, HandMaker, MeshInv, MeshTypes, RuleType
  <2>2. mesher' = [mesher EXCEPT ![m] = x] /\ rules' = rules
    BY <1>4 DEF Disconnect, MeshGoes
  <2> HIDE DEF x
  <2> QED BY <1>1, <2>1, <2>2, MakerMoves DEF AtWork
<1>5. CASE (ConnectNow(m) \/ DisconnectNow(m)) /\ rules' \subseteq rules
  <2>1. mesher' = [mesher EXCEPT ![m] = Gone]
    BY <1>5 DEF ConnectNow, DisconnectNow, MeshGoes
  <2> QED BY <1>1, <1>2, <1>5, <2>1, MakerMoves DEF AtWork
<1>6. CASE ConnectNow(m) /\ \E on \in BOOLEAN : rules' = rules \cup {Rule(mesher[m].pair, m, on)}
  <2>1. PICK on \in BOOLEAN : rules' = rules \cup {Rule(mesher[m].pair, m, on)}
    BY <1>6
  <2>2. mesher[m].pc = "connect" /\ mesher[m] \in HandMaker /\ mesher' = [mesher EXCEPT ![m] = Gone]
    BY <1>6, MakerKinds DEF ConnectNow, MeshAt, MeshGoes
  <2>3. m \in Operators /\ mesher[m].pair \in PairsOf(Sites)
    BY <2>2 DEF MeshInv, HandMade, HandMaker
  <2> DEFINE r == Rule(mesher[m].pair, m, on)
  <2>4. r \in RuleType /\ r.by = m
    BY <2>3 DEF Rule, RuleType
  <2> HIDE DEF r
  <2>5. UNCHANGED <<known, lockVars>> /\ rules' = rules \cup {r}
    BY <1>1, <2>1 DEF lockVars, r
  <2> QED BY <1>2, <2>2, <2>3, <2>4, <2>5, MakerAdds
<1>7. ConnectNow(m) \/ DisconnectNow(m) =>
        \/ rules' \subseteq rules
        \/ ConnectNow(m) /\ \E on \in BOOLEAN : rules' = rules \cup {Rule(mesher[m].pair, m, on)}
  BY DEF ConnectNow, DisconnectNow
<1> QED BY <1>3, <1>4, <1>5, <1>6, <1>7

LEMMA MeshInvStep == MeshInv /\ [MeshNext \/ MeshCalms]_rvars => MeshInv'
<1> SUFFICES ASSUME MeshInv, [MeshNext \/ MeshCalms]_rvars PROVE MeshInv'
  OBVIOUS
<1>1. CASE \/ \E s \in Sites : EnsureLocal(s) \/ SiteComes(s) \/ SiteGoes(s)
           \/ MeshCalms \/ UNCHANGED rvars
  <2>1. UNCHANGED <<rules, lockVars, mesher>> /\ known' \subseteq Sites
    BY <1>1 DEF EnsureLocal, SiteComes, SiteGoes, MeshCalms, rvars, siteVars, MeshInv, MeshTypes, lockVars
  <2> QED BY <2>1 DEF MeshInv, MeshTypes, OneMaker, AtWork, StillMissing, HandMade, PairsHaveOneRule, lockVars
<1>2. CASE MeshLeaseLapses
  <2>1. UNCHANGED <<rules, known, mesher>> /\ meshHolder' = None
    BY <1>2 DEF MeshLeaseLapses, siteVars
  <2>2. ~meshLapsed' => ~meshLapsed /\ mesher[meshHolder].pc \in {"new", "gone"} /\ meshHolder \in Makers
    BY <1>2 DEF MeshLeaseLapses, MeshInv, MeshTypes
  <2>3. meshLapsed' \in BOOLEAN
    BY <1>2 DEF MeshLeaseLapses, MeshInv, MeshTypes
  <2>4. OneMaker'
    BY <2>1, <2>2 DEF MeshInv, OneMaker, AtWork
  <2>5. MeshTypes'
    BY <2>1, <2>3 DEF MeshInv, MeshTypes
  <2> QED BY <2>1, <2>2, <2>4, <2>5 DEF MeshInv, StillMissing, HandMade, PairsHaveOneRule
<1>3. CASE \/ \E m \in Operators, p \in PairsOf(Sites) : Connect(m, p)
           \/ \E m \in Operators, r \in rules : Disconnect(m, r)
  <2>1. Operators \subseteq Makers
    BY DEF Makers
  <2> QED BY <1>3, <2>1, MeshByHand
<1>4. CASE \E m \in Makers : MeshStep(m) \/ MesherDies(m)
  BY <1>4, MeshGoesOn, MeshRules, MeshEnds, MeshByHand DEF MeshStep
<1> QED BY <1>1, <1>2, <1>3, <1>4, MeshTakes DEF MeshNext

(* Neither approvals nor the loop give a pair a second rule.               *)
THEOREM RulesCorrect == MeshSpec => []PairsHaveOneRule
<1>1. MeshInv => PairsHaveOneRule
  BY DEF MeshInv
<1>2. MeshInv /\ [MeshNext]_rvars => MeshInv'
  BY MeshInvStep
<1> QED BY <1>1, <1>2, MeshInvInit, PTL DEF MeshSpec

-----------------------------------------------------------------------------
(* The types of what the invariants above leave open.                      *)
CleanupRest ==
  /\ owner \in {"none", "disabled", "enabled"} /\ retention \in [Regions -> {"no", "yes", "overtaken"}]
  /\ cleanLock \in Cleanups \cup {None}
  /\ \A o \in Cleanups : cleanup[o] \in WorkingCleanup => cleanup[o].left \subseteq cleanup[o].targets

LEMMA EndTyped ==
  ASSUME CleanupInv, CleanupRest, NEW o \in Cleanups, Underway(o), NEW pc \in {"failed", "succeeded"}, NEW removed,
         EndCleanup(o, pc, removed), UNCHANGED owner
  PROVE  CleanupRest'
<1> DEFINE x == [pc |-> pc, region |-> cleanup[o].region, removed |-> removed]
<1>1. cleanup' = [cleanup EXCEPT ![o] = x] /\ x \notin WorkingCleanup /\ cleanup \in [Cleanups -> CleanupRecords]
  BY DEF EndCleanup, WorkingCleanup, CleanupInv, CleanupTypes
<1>2. cleanup[o].region \in Regions
  BY CleanupKinds DEF Underway, CleanupInv, CleanupTypes, CleanupRecords, WorkingCleanup, BareCleanup, AskedCleanup, EndedCleanup
<1> HIDE DEF x
<1>3. \A z \in Cleanups : cleanup'[z] \in WorkingCleanup => z # o /\ cleanup'[z] = cleanup[z]
  BY <1>1
<1>4. retention' \in [Regions -> {"no", "yes", "overtaken"}]
  BY <1>2 DEF EndCleanup, CleanupRest
<1>5. cleanLock' \in Cleanups \cup {None}
  BY DEF EndCleanup, CleanupRest
<1> QED BY <1>3, <1>4, <1>5 DEF CleanupRest

LEMMA LeftTyped ==
  ASSUME CleanupInv, CleanupRest, NEW o \in Cleanups, NEW x, cleanup' = [cleanup EXCEPT ![o] = x],
         x \in WorkingCleanup => x.left \subseteq x.targets, UNCHANGED <<owner, retention>>,
         cleanLock' \in Cleanups \cup {None}
  PROVE  CleanupRest'
<1>1. \A z \in Cleanups : cleanup'[z] = x \/ cleanup'[z] = cleanup[z]
  BY DEF CleanupInv, CleanupTypes
<1> QED BY <1>1 DEF CleanupRest

LEMMA CleanupRestStep == ASSUME CleanupInv, CleanupRest, [CleanupNext]_bvars PROVE CleanupRest'
<1>1. CASE \/ \E r \in Regions : Retain(r) \/ ReleaseRetention(r)
           \/ CleanLeaseEnds \/ OwnerChanges \/ (\E s \in Regions : SiteChanges(s)) \/ UNCHANGED bvars
  BY <1>1 DEF Retain, ReleaseRetention, CleanLeaseEnds, OwnerChanges, SiteChanges, WorldSame, bvars, CleanupRest
<1>2. ASSUME NEW o \in Cleanups, NEW r \in Regions, AskCleanup(o, r) PROVE CleanupRest'
  <2>1. [pc |-> "asked", region |-> r, present |-> Present] \notin WorkingCleanup
    BY DEF WorkingCleanup
  <2> QED BY <1>2, <2>1, LeftTyped DEF AskCleanup, WorldSame, CleanupRest
<1>3. ASSUME NEW o \in Cleanups, CreateCleanup(o) PROVE CleanupRest'
  <2> DEFINE r == cleanup[o].region
             present == cleanup[o].present
             queued == [pc |-> "queued", region |-> r, targets |-> present, left |-> present,
                        removed |-> IF Recovers(r, present) THEN cleanup[latest[r]].removed ELSE {},
                        now |-> {}, ok |-> TRUE]
             refused == [pc |-> "refused"]
  <2>1. refused \notin WorkingCleanup /\ queued.left \subseteq queued.targets
    BY DEF WorkingCleanup
  <2>2. cleanup' = [cleanup EXCEPT ![o] = refused] \/ cleanup' = [cleanup EXCEPT ![o] = queued]
    BY <1>3 DEF CreateCleanup
  <2>3. UNCHANGED <<owner, retention, cleanLock>>
    BY <1>3 DEF CreateCleanup, WorldSame
  <2> HIDE DEF queued, refused
  <2> QED BY <2>1, <2>2, <2>3, LeftTyped DEF CleanupRest
<1>4. ASSUME NEW o \in Cleanups, CleanupLock(o) \/ CleanupCheck(o) \/ CleanupCount(o) \/ CleanupRemove(o)
                                 \/ CleanupEnd(o) \/ CleanupStops(o)
      PROVE  CleanupRest'
  <2>1. Underway(o) /\ UNCHANGED owner
    BY <1>4 DEF CleanupLock, CleanupCheck, CleanupCount, CleanupRemove, CleanupEnd, CleanupStops, CleanupAt, Underway,
                WorldSame
  <2>2. cleanup[o] \in WorkingCleanup /\ cleanup[o].left \subseteq cleanup[o].targets
    BY <2>1 DEF CleanupRest, Underway, CleanupInv, CleanupTypes, CleanupRecords, BareCleanup, AskedCleanup,
                WorkingCleanup, EndedCleanup
  <2>3. CASE \E pc \in {"failed", "succeeded"} : \E removed : EndCleanup(o, pc, removed)
    BY <2>1, <2>3, EndTyped
  <2>4. CASE \E pc \in {"check", "count"} : CleanupTo(o, pc) /\ UNCHANGED retention /\ cleanLock' \in {o, cleanLock}
    <3>1. PICK pc \in {"check", "count"} : CleanupTo(o, pc) /\ UNCHANGED retention /\ cleanLock' \in {o, cleanLock}
      BY <2>4
    <3> DEFINE x == [cleanup[o] EXCEPT !.pc = pc]
    <3>2. x.left = cleanup[o].left /\ x.targets = cleanup[o].targets
      BY <2>2 DEF WorkingCleanup
    <3>3. cleanup' = [cleanup EXCEPT ![o] = x]
      BY <3>1 DEF CleanupTo, CleanupInv, CleanupTypes
    <3> HIDE DEF x
    <3> QED BY <2>1, <2>2, <3>1, <3>2, <3>3, LeftTyped DEF CleanupRest
  <2>5. CASE CleanupLock(o)
    BY <2>3, <2>4, <2>5 DEF CleanupLock
  <2>6. CASE CleanupCheck(o)
    BY <2>3, <2>4, <2>6 DEF CleanupCheck
  <2>7. CASE CleanupEnd(o) \/ CleanupStops(o)
    BY <2>3, <2>7 DEF CleanupEnd, CleanupStops
  <2>8. CASE CleanupCount(o)
    <3>1. CASE EndCleanup(o, "failed", cleanup[o].removed)
      BY <2>3, <3>1
    <3>2. ASSUME NEW s \in cleanup[o].left, NEW counts \in BOOLEAN, UNCHANGED <<retention, cleanLock>>,
                 cleanup' = [cleanup EXCEPT ![o].left = @ \ {s}, ![o].ok = @ /\ counts /\ bucket[s] # "full"]
          PROVE  CleanupRest'
      <4> DEFINE left == cleanup[o].left \ {s}
                 ok == cleanup[o].ok /\ counts /\ bucket[s] # "full"
                 x == [cleanup[o] EXCEPT !.left = left, !.ok = ok]
      <4>1. x.left = left /\ x.targets = cleanup[o].targets
        BY <2>2 DEF WorkingCleanup
      <4>2. cleanup' = [cleanup EXCEPT ![o] = x]
        BY <3>2 DEF CleanupInv, CleanupTypes
      <4>3. left \subseteq cleanup[o].targets
        BY <2>2
      <4> HIDE DEF x
      <4> QED BY <2>1, <3>2, <4>1, <4>2, <4>3, LeftTyped DEF CleanupRest
    <3>3. CASE cleanup' = [cleanup EXCEPT ![o].pc = "remove", ![o].left = cleanup[o].targets]
               /\ UNCHANGED <<retention, cleanLock>>
      <4> DEFINE x == [cleanup[o] EXCEPT !.pc = "remove", !.left = cleanup[o].targets]
      <4>1. x.left = cleanup[o].targets /\ x.targets = cleanup[o].targets
        BY <2>2 DEF WorkingCleanup
      <4>2. cleanup' = [cleanup EXCEPT ![o] = x]
        BY <3>3 DEF CleanupInv, CleanupTypes
      <4>3. UNCHANGED <<owner, retention, cleanLock>> /\ x.left \subseteq x.targets
        BY <2>1, <3>3, <4>1
      <4> HIDE DEF x
      <4> QED BY <4>2, <4>3, LeftTyped DEF CleanupRest
    <3> QED BY <2>8, <3>1, <3>2, <3>3 DEF CleanupCount
  <2>9. CASE CleanupRemove(o)
    <3>1. PICK s \in cleanup[o].left :
            \/ \E told \in BOOLEAN : cleanup' = [cleanup EXCEPT ![o].left = @ \ {s}, ![o].ok = @ /\ told,
                                                 ![o].now = IF told THEN @ \cup {s} ELSE @]
            \/ cleanup' = [cleanup EXCEPT ![o].left = @ \ {s}, ![o].ok = FALSE]
      BY <2>9 DEF CleanupRemove
    <3>2. UNCHANGED <<retention, cleanLock>>
      BY <2>9 DEF CleanupRemove
    <3> DEFINE left == cleanup[o].left \ {s}
    <3>3. left \subseteq cleanup[o].targets
      BY <2>2
    <3>4. ASSUME NEW told \in BOOLEAN,
                 cleanup' = [cleanup EXCEPT ![o].left = @ \ {s}, ![o].ok = @ /\ told,
                                            ![o].now = IF told THEN @ \cup {s} ELSE @]
          PROVE  CleanupRest'
      <4> DEFINE x == [cleanup[o] EXCEPT !.left = left, !.ok = cleanup[o].ok /\ told,
                                         !.now = IF told THEN cleanup[o].now \cup {s} ELSE cleanup[o].now]
      <4>1. x.left = left /\ x.targets = cleanup[o].targets
        BY <2>2 DEF WorkingCleanup
      <4>2. cleanup' = [cleanup EXCEPT ![o] = x]
        BY <3>4 DEF CleanupInv, CleanupTypes
      <4> HIDE DEF x
      <4> QED BY <2>1, <3>2, <3>3, <4>1, <4>2, LeftTyped DEF CleanupRest
    <3>5. CASE cleanup' = [cleanup EXCEPT ![o].left = @ \ {s}, ![o].ok = FALSE]
      <4> DEFINE x == [cleanup[o] EXCEPT !.left = left, !.ok = FALSE]
      <4>1. x.left = left /\ x.targets = cleanup[o].targets
        BY <2>2 DEF WorkingCleanup
      <4>2. cleanup' = [cleanup EXCEPT ![o] = x]
        BY <3>5 DEF CleanupInv, CleanupTypes
      <4> HIDE DEF x
      <4> QED BY <2>1, <3>2, <3>3, <4>1, <4>2, LeftTyped DEF CleanupRest
    <3> QED BY <3>1, <3>4, <3>5
  <2> QED BY <1>4, <2>5, <2>6, <2>7, <2>8, <2>9
<1> QED BY <1>1, <1>2, <1>3, <1>4 DEF CleanupNext, CleanupStep

LEMMA CleanupTyped == RecordInv /\ CleanupRest => CleanupTypeOK
<1> SUFFICES ASSUME RecordInv, CleanupRest PROVE CleanupTypeOK
  OBVIOUS
<1>1. latest \in [Regions -> Cleanups \cup {None}]
  BY DEF RecordInv, CleanupInv, CleanupTypes
<1>2. ASSUME NEW o \in Cleanups, Underway(o)
      PROVE  cleanup[o].left \subseteq cleanup[o].targets /\ RemovedByNow(o) \subseteq Regions
  <2>1. cleanup[o] \in WorkingCleanup
    BY <1>2 DEF Underway, RecordInv, CleanupInv, CleanupTypes, CleanupRecords, BareCleanup, AskedCleanup,
                WorkingCleanup, EndedCleanup
  <2> QED BY <2>1 DEF CleanupRest, RemovedByNow, WorkingCleanup
<1> QED BY <1>1, <1>2 DEF CleanupTypeOK, CleanupRest, RecordInv, SitesTyped

THEOREM CleanupTypesCorrect == CleanupSpec => []CleanupTypeOK
<1>1. CleanupInit => CleanupRest
  BY DEF CleanupInit, CleanupRest, Asleep, WorkingCleanup
<1>2. RecordInv /\ CleanupRest /\ [CleanupNext]_bvars => RecordInv' /\ CleanupRest'
  BY RecordStep, CleanupRestStep DEF RecordInv
<1> QED BY <1>1, <1>2, RecordInit, CleanupTyped, PTL DEF CleanupSpec

-----------------------------------------------------------------------------
(* No more messages wait than were ever sent.                              *)
SentBound ==
  /\ everSent \in [Tasks -> 0 .. MaxDeliveries]
  /\ \A t \in Tasks : sent[t] \in 0 .. everSent[t]

LEMMA SentStep == ASSUME EtcdInv, SentBound, [EtcdTasksNext]_etvars PROVE SentBound'
<1>1. sent \in [Tasks -> Int] /\ MaxDeliveries \in Nat
  BY DeliveriesBound DEF EtcdInv, EtcdTypes
<1>2. ASSUME NEW t \in Tasks, Deliver(t) PROVE SentBound'
  <2>1. everSent[t] \in 0 .. MaxDeliveries /\ sent[t] \in 0 .. everSent[t] /\ everSent[t] < MaxDeliveries
    BY <1>2 DEF SentBound, Deliver
  <2>2. everSent[t] + 1 \in 0 .. MaxDeliveries /\ sent[t] + 1 \in 0 .. everSent[t] + 1
    BY <1>1, <2>1
  <2>3. everSent' = [everSent EXCEPT ![t] = @ + 1] /\ sent' = [sent EXCEPT ![t] = @ + 1]
    BY <1>2 DEF Deliver
  <2> QED BY <1>1, <2>2, <2>3 DEF SentBound
<1>3. ASSUME NEW w \in Runners, NEW t \in Tasks, TakeTask(w, t) PROVE SentBound'
  <2>1. sent[t] - 1 \in 0 .. everSent[t]
    BY <1>3 DEF SentBound, TakeTask
  <2>2. sent' = [sent EXCEPT ![t] = @ - 1] /\ everSent' = everSent
    BY <1>3 DEF TakeTask
  <2> QED BY <1>1, <2>1, <2>2 DEF SentBound
<1>4. CASE UNCHANGED <<sent, everSent>>
  BY <1>4 DEF SentBound
<1> QED BY <1>2, <1>3, <1>4 DEF EtcdTasksNext, EtcdTaskStep, CreateTask, SaveDispatch, SendTask, SaveMessageId,
             RunAlso, RequestDies, Redeliver, FindStale, FailStale, ClaimTask, CallMember, EndTask, WorkerDies, etvars

LEMMA EtcdTyped == EtcdInv /\ SentBound => EtcdTasksTypeOK
<1> SUFFICES ASSUME EtcdInv, SentBound PROVE EtcdTasksTypeOK
  OBVIOUS
<1>1. MaxDeliveries \in Nat
  BY DeliveriesBound
<1>2. sent \in [Tasks -> Int] /\ everSent \in [Tasks -> 0 .. MaxDeliveries]
  BY DEF EtcdInv, EtcdTypes, SentBound
<1>3. \A t \in Tasks : sent[t] \in 0 .. MaxDeliveries
  BY <1>1, <1>2 DEF SentBound
<1>4. sent \in [Tasks -> 0 .. MaxDeliveries]
  BY <1>2, <1>3
<1>5. \A w \in Runners : worker[w].task \in Tasks \cup {None}
  BY DEF EtcdInv, EtcdTypes, IdleWorker, Claiming, Executing
<1>6. \A t \in Tasks : task[t] = None \/ task[t] \in TaskDocument
  BY DEF EtcdInv, EtcdTypes
<1>7. /\ asking \in [Tasks -> {"new", "dispatch", "send", "track", "runAlso", "answered"}]
      /\ ran \in [Tasks -> [Members -> Nat]] /\ rewound \subseteq Tasks
  BY DEF EtcdInv, EtcdTypes
<1> QED BY <1>2, <1>4, <1>5, <1>6, <1>7 DEF EtcdTasksTypeOK, TaskDocument

THEOREM EtcdTypesCorrect == EtcdTasksSpec => []EtcdTasksTypeOK
<1>1. EtcdTasksInit => SentBound
  BY DeliveriesBound DEF EtcdTasksInit, SentBound
<1>2. EtcdInv /\ SentBound /\ [EtcdTasksNext]_etvars => EtcdInv' /\ SentBound'
  BY EtcdInvStep, SentStep
<1> QED BY <1>1, <1>2, EtcdInvInit, EtcdTyped, PTL DEF EtcdTasksSpec

-----------------------------------------------------------------------------
(* Buckets are of sites, and versioned where they are.                     *)
BucketsTyped ==
  /\ buckets \subseteq Sites /\ versioned \subseteq buckets
  /\ enabledApp \in BOOLEAN /\ meshStatus \in {"pending", "ready", "degraded", "failed"}

LEMMA BucketsStep == ASSUME MeshInv, BucketsTyped, [MeshNext]_rvars PROVE BucketsTyped'
<1>1. known \subseteq Sites
  BY DEF MeshInv, MeshTypes
<1>2. CASE UNCHANGED <<buckets, versioned, enabledApp, meshStatus>>
  BY <1>2 DEF BucketsTyped
<1>3. ASSUME NEW m \in Makers, NEW s \in Sites, MakeBucket(m, s) \/ SetVersioning(m, s) PROVE BucketsTyped'
  BY <1>3 DEF MakeBucket, SetVersioning, BucketsTyped
<1>4. ASSUME NEW m \in Makers, SaveMesh(m) PROVE BucketsTyped'
  BY <1>4 DEF SaveMesh, siteVars, BucketsTyped, MeshAt
<1>5. ASSUME NEW s \in Sites, EnsureLocal(s) PROVE BucketsTyped'
  BY <1>1, <1>5 DEF EnsureLocal, BucketsTyped
<1> QED BY <1>2, <1>3, <1>4, <1>5 DEF MeshNext, MeshStep, Approve, BeginRepair, Connect, Disconnect, AddRule, BucketsMade,
             ReadRules, CheckMesh, LeaveLock, ConnectNow, DisconnectNow, SiteComes, SiteGoes, MesherDies, MeshLeaseLapses,
             siteVars, rvars

LEMMA MeshTyped == MeshInv /\ BucketsTyped => MeshTypeOK
BY DEF MeshInv, MeshTypes, BucketsTyped, MeshTypeOK, RuleType

THEOREM MeshTypesCorrect == MeshSpec => []MeshTypeOK
<1>1. MeshInit => BucketsTyped
  BY DEF MeshInit, BucketsTyped
<1>2. MeshInv /\ BucketsTyped /\ [MeshNext]_rvars => MeshInv' /\ BucketsTyped'
  BY MeshInvStep, BucketsStep
<1> QED BY <1>1, <1>2, MeshInvInit, MeshTyped, PTL DEF MeshSpec

-----------------------------------------------------------------------------
(* Each part takes its own steps, or stands still, and nothing else        *)
(* changes what it keeps: beside the others it behaves as it does alone.   *)
THEOREM OperationsBesideEachOther ==
  OperationsSpec => Spec /\ CleanupSpec /\ InventorySpec /\ EtcdTasksSpec /\ MeshSpec /\ LimitSpec
<1>1. OperationsInit => Init /\ CleanupInit /\ InventoryInit /\ EtcdTasksInit /\ MeshInit /\ LimitInit
  BY DEF OperationsInit
<1>2. [OperationsNext]_allvars => /\ [Next]_vars /\ [CleanupNext]_bvars /\ [InventoryNext]_ivars
                                  /\ [EtcdTasksNext]_etvars /\ [MeshNext]_rvars /\ [LimitNext]_lvars
  BY DEF OperationsNext, allvars
<1> QED BY <1>1, <1>2, PTL DEF OperationsSpec, Spec, CleanupSpec, InventorySpec, EtcdTasksSpec, MeshSpec, LimitSpec

(* The variables of every part have their types, whichever of them moves.  *)
THEOREM OperationsTypesCorrect == OperationsSpec => []OperationsTypesOK
<1>1. TypeOK /\ CleanupTypeOK /\ InventoryTypeOK /\ EtcdTasksTypeOK /\ MeshTypeOK /\ LimitInv => OperationsTypesOK
  BY LimitInvMeans DEF OperationsTypesOK
<1> QED BY <1>1, OperationsBesideEachOther, OperationTypes, CleanupTypesCorrect, InventoryTypesCorrect,
           EtcdTypesCorrect, MeshTypesCorrect, LimitAlways, PTL

(* What was proved of each part alone holds of the background work.        *)
THEOREM OperationsCorrect ==
  OperationsSpec => /\ [](SuccessIsReal /\ RecordsAreTrue /\ FailedCanContinue /\ IndexIsWhole)
                    /\ [](EffectOnce /\ PairsHaveOneRule)
                    /\ SettledForGood
BY OperationsBesideEachOther, SuccessCorrect, RecordsCorrect, ContinueCorrect, IndexCorrect, EffectCorrect, RulesCorrect,
   SettledCorrect, PTL
=============================================================================
