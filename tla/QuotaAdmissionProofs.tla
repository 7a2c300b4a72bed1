------------------------ MODULE QuotaAdmissionProofs ------------------------
(***************************************************************************)
(* QuotaAdmission keeps the promise of QuotaLedger, for any number of      *)
(* uploads and tasks, any sizes, quota, block percentages and cap.         *)
(*                                                                         *)
(* The argument has two halves.  First, where the tasks are (TaskStep):    *)
(* a task is brought to its charge only with its session completed.        *)
(* Second, what a step does to the two Etcd documents (DocumentStep): it   *)
(* keeps every upload's fate, or it reserves, charges or frees one upload  *)
(* and moves the counters by that upload's size.  From there on the        *)
(* actions are forgotten: the counters, the quota and the ledger follow    *)
(* from the four kinds of step alone.                                      *)
(*                                                                         *)
(* A second invariant, Stages, follows each upload through MinIO.  Before  *)
(* the client is answered, one request alone knows the upload; afterwards  *)
(* nobody opens it again.  So what a task has seen gone stays gone until   *)
(* the task writes it down, and what it has seen assembled stays.          *)
(***************************************************************************)
EXTENDS QuotaAdmission, FiniteSetTheorems, TLAPS

-----------------------------------------------------------------------------
(***************************************************************************)
(* How the bytes of a set of uploads change when one upload joins or       *)
(* leaves the set.                                                         *)
(***************************************************************************)
(* The bytes of one upload are finitely many, and as many as its size. *)
LEMMA OneUpload ==
  ASSUME NEW o \in Objects
  PROVE  /\ IsFiniteSet({o} \X (1 .. Size[o]))
         /\ Cardinality({o} \X (1 .. Size[o])) = Size[o]
<1>1. Size[o] \in Nat \ {0}
  BY SizeAssumption
<1>2. IsFiniteSet({o}) /\ Cardinality({o}) = 1
  BY FS_Singleton
<1>3. IsFiniteSet(1 .. Size[o]) /\ Cardinality(1 .. Size[o]) = Size[o]
  BY <1>1, FS_Interval
<1>4. /\ IsFiniteSet({o} \X (1 .. Size[o]))
      /\ Cardinality({o} \X (1 .. Size[o])) = Cardinality({o}) * Cardinality(1 .. Size[o])
  BY <1>2, <1>3, FS_Product, Zenon
<1> QED
  BY <1>1, <1>2, <1>3, <1>4

(* The bytes of any set of uploads are finitely many. *)
LEMMA ByteSetFinite ==
  ASSUME NEW S \in SUBSET Objects
  PROVE  IsFiniteSet(ByteSet(S))
<1> DEFINE blocks == { {o} \X (1 .. Size[o]) : o \in S }
           block == [o \in S |-> {o} \X (1 .. Size[o])]
<1>1. IsFiniteSet(S)
  BY ObjectsAssumption, FS_Subset
<1>2. block \in Surjection(S, blocks)
  BY DEF Surjection
<1>3. IsFiniteSet(blocks)
  <2> HIDE DEF block, blocks
  <2> QED BY <1>1, <1>2, FS_Surjection
<1>4. \A B \in blocks : IsFiniteSet(B)
  BY OneUpload
<1> QED
  BY <1>3, <1>4, FS_UNION DEF ByteSet

(* An upload that joins the set adds its size. *)
LEMMA BytesAdd ==
  ASSUME NEW S \in SUBSET Objects, NEW o \in Objects, o \notin S
  PROVE  Bytes(S \cup {o}) = Bytes(S) + Size[o]
<1> DEFINE block == {o} \X (1 .. Size[o])
<1>1. ByteSet(S \cup {o}) = ByteSet(S) \cup block
  BY DEF ByteSet
<1>2. ByteSet(S) \cap block = {}
  BY DEF ByteSet
<1>3. Cardinality(ByteSet(S) \cap block) = 0
  BY <1>2, FS_EmptySet
<1>4. IsFiniteSet(ByteSet(S)) /\ Cardinality(ByteSet(S)) \in Nat
  BY ByteSetFinite, FS_CardinalityType
<1>5. IsFiniteSet(block) /\ Cardinality(block) = Size[o] /\ Size[o] \in Nat
  BY OneUpload, SizeAssumption
<1> HIDE DEF block
<1>6. Cardinality(ByteSet(S) \cup block)
        = Cardinality(ByteSet(S)) + Cardinality(block) - Cardinality(ByteSet(S) \cap block)
  BY <1>4, <1>5, FS_Union, Zenon
<1>7. /\ Bytes(S) = Cardinality(ByteSet(S))
      /\ Bytes(S \cup {o}) = Cardinality(ByteSet(S) \cup block)
  BY <1>1, Zenon DEF Bytes
<1> QED
  BY <1>3, <1>4, <1>5, <1>6, <1>7

(* An upload that leaves the set takes its size with it. *)
LEMMA BytesRemove ==
  ASSUME NEW S \in SUBSET Objects, NEW o \in S
  PROVE  Bytes(S) = Bytes(S \ {o}) + Size[o]
<1>1. S = (S \ {o}) \cup {o} /\ S \ {o} \in SUBSET Objects /\ o \in Objects
  OBVIOUS
<1> QED
  BY <1>1, BytesAdd, Zenon

(* Totals are natural numbers, and the empty set has no bytes. *)
LEMMA BytesNat ==
  /\ \A S \in SUBSET Objects : Bytes(S) \in Nat
  /\ Bytes({}) = 0
<1>1. ByteSet({}) = {}
  BY DEF ByteSet
<1> QED
  BY <1>1, ByteSetFinite, FS_CardinalityType, FS_EmptySet DEF Bytes

-----------------------------------------------------------------------------

(* The counter document, in bytes and uploads. *)
Counters == [active : Nat, reserved : Nat, count : Nat]

(* A task past the start of its request has an upload to work on. *)
Placed(k) == k.obj \in Objects \/ (k.pc \in {"idle", "scan", "sweep"} /\ k.reclaim = "no")

TasksOK == task \in [Tasks -> Task] /\ \A t \in Tasks : Placed(task[t])

RestOK ==
  /\ open \subseteq Objects
  /\ stored \subseteq Objects
  /\ lock \in Tasks \cup {NoTask}
  /\ told \in [Objects -> {"nothing", "opened", "completed"}]

TypeInv ==
  /\ adm \in Counters
  /\ session \in [Objects -> Session]
  /\ TasksOK
  /\ RestOK

(* No task is brought to its charge. *)
NoCharge ==
  \A u \in Tasks :
    task'[u].pc = "charge" => task[u].pc = "charge" /\ task'[u].obj = task[u].obj

(* A step that brings a task to its charge leaves the session completed. *)
EntersCharge ==
  \A u \in Tasks :
    task'[u].pc = "charge"
      => \/ task[u].pc = "charge" /\ task'[u].obj = task[u].obj
         \/ session'[task'[u].obj].status = "completed"

-----------------------------------------------------------------------------
(* One task takes a new place, the others stay where they are. *)
LEMMA MoveFacts ==
  ASSUME TasksOK, NEW t \in Tasks, NEW k \in Task, Placed(k), task' = [task EXCEPT ![t] = k]
  PROVE  /\ TasksOK'
         /\ task'[t] = k
         /\ \A u \in Tasks \ {t} : task'[u] = task[u]
         /\ k.pc # "charge" => NoCharge
<1>1. task' \in [Tasks -> Task]
  BY DEF TasksOK
<1>2. \A u \in Tasks : task'[u] = IF u = t THEN k ELSE task[u]
  BY DEF TasksOK
<1>3. \A u \in Tasks : Placed(task'[u])
  BY <1>2 DEF TasksOK
<1>4. TasksOK'
  BY <1>1, <1>3 DEF TasksOK, Placed
<1> QED
  BY <1>2, <1>4 DEF NoCharge

(* A task that finishes is idle, so it is not at a charge. *)
LEMMA FinishFacts ==
  ASSUME TasksOK, NEW t \in Tasks, Finish(t)
  PROVE  TasksOK' /\ NoCharge
<1>1. Idle \in Task /\ Placed(Idle) /\ Idle.pc # "charge"
  BY DEF Idle, Task, PCs, Seen, Placed
<1> QED
  BY <1>1, MoveFacts DEF Finish

(* A request or a sweep that starts is not at its charge yet. *)
LEMMA StartFacts ==
  ASSUME TasksOK, NEW t \in Tasks, NEW pc \in PCs \ {"charge"},
         NEW o \in Objects \cup {NoObject}, o \in Objects \/ pc \in {"idle", "scan", "sweep"},
         Start(t, o, pc)
  PROVE  TasksOK' /\ NoCharge
<1> DEFINE k == [Idle EXCEPT !.obj = o, !.pc = pc]
<1>1. k \in Task /\ Placed(k) /\ k.pc # "charge"
  BY DEF Idle, Task, Seen, Placed
<1>2. task' = [task EXCEPT ![t] = k]
  BY DEF Start
<1> HIDE DEF k
<1> QED
  BY <1>1, <1>2, MoveFacts

(* A task that goes on keeps its upload. *)
LEMMA GotoFacts ==
  ASSUME TasksOK, NEW t \in Tasks, NEW pc \in PCs, Goto(t, pc),
         task[t].obj \in Objects
  PROVE  /\ TasksOK'
         /\ task'[t].pc = pc /\ task'[t].obj = task[t].obj
         /\ task'[t].found = task[t].found /\ task'[t].aborted = task[t].aborted
         /\ \A u \in Tasks \ {t} : task'[u] = task[u]
         /\ pc # "charge" => NoCharge
<1> DEFINE k == [task[t] EXCEPT !.pc = pc]
<1>1. task[t] \in Task
  BY DEF TasksOK
<1>2. /\ k \in Task /\ Placed(k)
      /\ k.pc = pc /\ k.obj = task[t].obj
      /\ k.found = task[t].found /\ k.aborted = task[t].aborted
  BY <1>1 DEF Task, Placed
<1>3. task' = [task EXCEPT ![t] = k]
  BY DEF Goto
<1> HIDE DEF k
<1> QED
  BY <1>2, <1>3, MoveFacts

(* A put changes one session, and never whether it is settled. *)
LEMMA PutFacts ==
  ASSUME session \in [Objects -> Session], NEW o \in Objects,
         NEW status \in Statuses, NEW lease \in BOOLEAN, Put(o, status, lease)
  PROVE  /\ session' \in [Objects -> Session]
         /\ \A p \in Objects \ {o} : session'[p] = session[p]
         /\ session'[o].status = status
         /\ session'[o].present = session[o].present
         /\ session'[o].finalized = session[o].finalized
         /\ session'[o].uploadId = session[o].uploadId
<1> DEFINE new == [session[o] EXCEPT !.status = status, !.leased = lease, !.expired = FALSE]
<1>1. session[o] \in Session
  OBVIOUS
<1>2. /\ new \in Session /\ new.status = status
      /\ new.present = session[o].present /\ new.finalized = session[o].finalized
      /\ new.uploadId = session[o].uploadId
  BY <1>1 DEF Session
<1>3. session' = [session EXCEPT ![o] = new]
  BY DEF Put
<1> HIDE DEF new
<1> QED
  BY <1>2, <1>3

(* A settling put changes one session, and settles it. *)
LEMMA PutSettledFacts ==
  ASSUME session \in [Objects -> Session], NEW o \in Objects,
         NEW status \in Statuses, NEW lease \in BOOLEAN, PutSettled(o, status, lease)
  PROVE  /\ session' \in [Objects -> Session]
         /\ \A p \in Objects \ {o} : session'[p] = session[p]
         /\ session'[o].status = status
         /\ session'[o].present = session[o].present
         /\ session'[o].finalized
         /\ session'[o].uploadId = session[o].uploadId
<1> DEFINE new == [session[o] EXCEPT !.status = status, !.leased = lease,
                                     !.expired = FALSE, !.finalized = TRUE]
<1>1. session[o] \in Session
  OBVIOUS
<1>2. /\ new \in Session /\ new.status = status
      /\ new.present = session[o].present /\ new.finalized
      /\ new.uploadId = session[o].uploadId
  BY <1>1 DEF Session
<1>3. session' = [session EXCEPT ![o] = new]
  BY DEF PutSettled
<1> HIDE DEF new
<1> QED
  BY <1>2, <1>3

(* Releasing an upload leaves the bytes in use alone. *)
LEMMA ReleasedFacts ==
  ASSUME adm \in Counters, NEW o \in Objects
  PROVE  /\ Released(o) \in Counters
         /\ Released(o).active = adm.active
         /\ Released(o).reserved = Less(adm.reserved, Size[o])
         /\ Released(o).count = Less(adm.count, 1)
<1>1. Size[o] \in Nat
  BY SizeAssumption
<1>2. \A m, n \in Nat : Less(m, n) \in Nat
  BY DEF Less
<1>3. adm.reserved \in Nat /\ adm.count \in Nat
  BY DEF Counters
<1> QED
  BY <1>1, <1>2, <1>3 DEF Counters, Released

-----------------------------------------------------------------------------
(* multipart_init charges nothing. *)
LEMMA InitTasks ==
  ASSUME TasksOK, NEW t \in Tasks, InitStep(t)
  PROVE  TasksOK' /\ NoCharge
<1>1. CASE InitReserve(t)
  BY <1>1, GotoFacts DEF InitReserve, TasksOK, Placed, PCs
<1>2. CASE InitReclaim(t)
  <2> DEFINE k == [task[t] EXCEPT !.pc = "scan", !.reclaim = "tried"]
  <2>1. task[t] \in Task /\ task[t].obj \in Objects
    BY <1>2 DEF InitReclaim, TasksOK, Placed
  <2>2. k \in Task /\ Placed(k) /\ k.pc # "charge"
    BY <2>1 DEF Task, PCs, Placed
  <2>3. task' = [task EXCEPT ![t] = k]
    BY <1>2 DEF InitReclaim
  <2> HIDE DEF k
  <2> QED
    BY <2>2, <2>3, MoveFacts
<1>3. CASE InitCreate(t)
  BY <1>3, GotoFacts DEF InitCreate, TasksOK, Placed, PCs
<1>4. CASE InitActivate(t)
  BY <1>4, FinishFacts DEF InitActivate
<1>5. CASE InitGiveUp(t)
  BY <1>5, GotoFacts DEF InitGiveUp, TasksOK, Placed, PCs
<1>6. CASE InitDiscard(t)
  BY <1>6, GotoFacts DEF InitDiscard, TasksOK, Placed, PCs
<1>7. CASE InitCancel(t)
  BY <1>7, FinishFacts DEF InitCancel
<1> QED
  BY <1>1, <1>2, <1>3, <1>4, <1>5, <1>6, <1>7 DEF InitStep

(* multipart_abort charges nothing. *)
LEMMA AbortTasks ==
  ASSUME TasksOK, NEW t \in Tasks, AbortStep(t)
  PROVE  TasksOK' /\ NoCharge
<1>1. CASE AbortTouch(t)
  BY <1>1, GotoFacts DEF AbortTouch, TasksOK, Placed, PCs
<1>2. CASE AbortMark(t)
  BY <1>2, GotoFacts DEF AbortMark, TasksOK, Placed, PCs
<1>3. CASE AbortMinio(t)
  BY <1>3, GotoFacts DEF AbortMinio, TasksOK, Placed, PCs
<1>4. CASE AbortRecord(t)
  BY <1>4, GotoFacts DEF AbortRecord, TasksOK, Placed, PCs
<1>5. CASE AbortUndo(t)
  BY <1>5, FinishFacts DEF AbortUndo
<1>6. CASE FreeAborted(t)
  BY <1>6, FinishFacts DEF FreeAborted
<1> QED
  BY <1>1, <1>2, <1>3, <1>4, <1>5, <1>6 DEF AbortStep

(* The sweep's bookkeeping: the uploads found, and those aborted. *)
LEMMA SweepMoves ==
  ASSUME TasksOK, NEW t \in Tasks,
         NEW pc \in {"scan", "sweep"}, task[t].pc \in {"scan", "sweep"},
         NEW reclaim \in {"no", "tried", "freed"}, reclaim = "no" <=> task[t].reclaim = "no",
         NEW found \in SUBSET Seen, NEW aborted \in SUBSET Seen,
         task' = [task EXCEPT ![t] = [task[t] EXCEPT !.pc = pc, !.reclaim = reclaim,
                                                     !.found = found, !.aborted = aborted]]
  PROVE  TasksOK' /\ NoCharge
<1> DEFINE k == [task[t] EXCEPT !.pc = pc, !.reclaim = reclaim,
                                !.found = found, !.aborted = aborted]
<1>1. task[t] \in Task /\ Placed(task[t])
  BY DEF TasksOK
<1>2. k \in Task /\ Placed(k) /\ k.pc # "charge"
  BY <1>1 DEF Task, PCs, Placed
<1>3. task' = [task EXCEPT ![t] = k]
  OBVIOUS
<1> HIDE DEF k
<1> QED
  BY <1>2, <1>3, MoveFacts

(* The sweep charges nothing, and only lists uploads of the application. *)
LEMMA SweepTasks ==
  ASSUME TypeInv, NEW t \in Tasks, SweepStep(t)
  PROVE  TasksOK' /\ NoCharge
<1>1. /\ TasksOK /\ task[t] \in Task /\ Placed(task[t])
      /\ session \in [Objects -> Session]
  BY DEF TasksOK, TypeInv
<1>2. CASE SweepScan(t)
  <2> DEFINE seen == {<<o, session[o].uploadId>> : o \in Expired}
             found == {item \in seen : item[2]}
             aborted == {item \in seen : ~item[2]}
  <2>1. seen \subseteq Seen
    BY <1>1 DEF Expired, Seen, Session
  <2>2. found \in SUBSET Seen /\ aborted \in SUBSET Seen
    BY <2>1
  <2>3. task' = [task EXCEPT ![t] = [task[t] EXCEPT !.pc = "sweep", !.found = found,
                                                    !.aborted = aborted]]
    BY <1>2 DEF SweepScan
  <2> HIDE DEF found, aborted
  <2>4. task[t].pc = "scan" /\ task[t].reclaim \in {"no", "tried", "freed"}
    BY <1>1, <1>2 DEF SweepScan, Task
  <2>5. task' = [task EXCEPT ![t] = [task[t] EXCEPT !.pc = "sweep",
                                                    !.reclaim = task[t].reclaim,
                                                    !.found = found, !.aborted = aborted]]
    BY <1>1, <2>3 DEF Task
  <2> QED
    BY <1>1, <2>2, <2>4, <2>5, SweepMoves
<1>3. ASSUME NEW item \in Seen, SweepAbort(t, item) \/ SweepSkip(t, item) \/ SweepFree(t, item)
      PROVE  TasksOK' /\ NoCharge
  <2>1. /\ task[t].pc = "sweep" /\ task[t].reclaim \in {"no", "tried", "freed"}
        /\ task[t].found \in SUBSET Seen /\ task[t].aborted \in SUBSET Seen
    BY <1>1, <1>3 DEF SweepAbort, SweepSkip, SweepFree, Task
  <2>2. PICK found \in SUBSET Seen, aborted \in SUBSET Seen, reclaim \in {"no", "tried", "freed"} :
          /\ reclaim = "no" <=> task[t].reclaim = "no"
          /\ task' = [task EXCEPT ![t] = [task[t] EXCEPT !.pc = "sweep", !.reclaim = reclaim,
                                                         !.found = found, !.aborted = aborted]]
    <3>1. CASE SweepAbort(t, item)
      <4> DEFINE found == task[t].found \ {item}
                 aborted == task[t].aborted \cup {item}
      <4>1. task' = [task EXCEPT ![t] = [task[t] EXCEPT !.pc = "sweep",
                                                        !.reclaim = task[t].reclaim,
                                                        !.found = found, !.aborted = aborted]]
        BY <1>1, <2>1, <3>1 DEF SweepAbort, Task
      <4>2. found \in SUBSET Seen /\ aborted \in SUBSET Seen
        BY <2>1
      <4> QED
        BY <2>1, <4>1, <4>2
    <3>2. CASE SweepSkip(t, item)
      <4> DEFINE found == task[t].found \ {item}
      <4>1. task' = [task EXCEPT ![t] = [task[t] EXCEPT !.pc = "sweep",
                                                        !.reclaim = task[t].reclaim,
                                                        !.found = found,
                                                        !.aborted = task[t].aborted]]
        BY <1>1, <2>1, <3>2 DEF SweepSkip, Task
      <4>2. found \in SUBSET Seen
        BY <2>1
      <4> QED
        BY <2>1, <4>1, <4>2
    <3>3. CASE SweepFree(t, item)
      <4> DEFINE aborted == task[t].aborted \ {item}
                 ours == session[item[1]].present /\ session[item[1]].uploadId = item[2]
                 reclaim == IF ours /\ task[t].reclaim = "tried" THEN "freed"
                                                                 ELSE task[t].reclaim
      <4>1. task' = [task EXCEPT ![t] = [task[t] EXCEPT !.pc = "sweep", !.reclaim = reclaim,
                                                        !.found = task[t].found,
                                                        !.aborted = aborted]]
        BY <1>1, <2>1, <3>3 DEF SweepFree, Task
      <4>2. aborted \in SUBSET Seen
        BY <2>1
      <4>3. reclaim \in {"no", "tried", "freed"} /\ (reclaim = "no" <=> task[t].reclaim = "no")
        BY <2>1
      <4> HIDE DEF reclaim
      <4> QED
        BY <2>1, <4>1, <4>2, <4>3
    <3> QED
      BY <1>3, <3>1, <3>2, <3>3
  <2> QED
    BY <1>1, <2>1, <2>2, SweepMoves
<1>4. CASE SweepEnd(t)
  BY <1>1, <1>4, FinishFacts, GotoFacts DEF SweepEnd, Placed, PCs
<1> QED
  BY <1>2, <1>3, <1>4 DEF SweepStep

(* A task that goes to its charge and leaves its session completed. *)
LEMMA ChargeFacts ==
  ASSUME TasksOK, NEW t \in Tasks, Goto(t, "charge"), task[t].obj \in Objects,
         session'[task[t].obj].status = "completed"
  PROVE  TasksOK' /\ EntersCharge
BY GotoFacts DEF EntersCharge, PCs

(* multipart_complete charges only a session it left completed. *)
LEMMA CompleteTasks ==
  ASSUME TypeInv, NEW t \in Tasks, CompleteStep(t)
  PROVE  TasksOK' /\ EntersCharge
<1>1. TasksOK
  BY DEF TypeInv
<1>2. NoCharge => EntersCharge
  BY DEF NoCharge, EntersCharge
<1>3. CASE CompleteTouch(t)
  BY <1>1, <1>2, <1>3, GotoFacts DEF CompleteTouch, TasksOK, Placed, PCs
<1>4. CASE CompleteMark(t)
  <2> DEFINE o == task[t].obj
             status == session[o].status
  <2>1. o \in Objects /\ session \in [Objects -> Session]
    BY <1>1, <1>4 DEF CompleteMark, TasksOK, Placed, TypeInv
  <2>2. status \in {"active", "completing", "completed"}
    BY <1>4 DEF CompleteMark, Valid
  <2>3. CASE status = "completed"
    <3>1. Put(o, "completed", task[t].pc = "remarkComplete") /\ Goto(t, "charge")
      BY <1>4, <2>3 DEF CompleteMark
    <3>2. session'[o].status = "completed"
      BY <2>1, <3>1, PutFacts DEF Statuses
    <3> QED
      BY <1>1, <2>1, <3>1, <3>2, ChargeFacts
  <2>4. CASE status # "completed"
    <3>1. Goto(t, "stat") \/ Goto(t, "complete")
      BY <1>4, <2>2, <2>4 DEF CompleteMark
    <3> QED
      BY <1>1, <1>2, <2>1, <3>1, GotoFacts DEF PCs
  <2> QED
    BY <2>3, <2>4
<1>5. CASE CompleteStat(t)
  BY <1>1, <1>2, <1>5, GotoFacts DEF CompleteStat, TasksOK, Placed, PCs
<1>6. CASE CompleteMinio(t)
  BY <1>1, <1>2, <1>6, GotoFacts DEF CompleteMinio, TasksOK, Placed, PCs
<1>7. CASE CompleteRecord(t)
  <2> DEFINE o == task[t].obj
  <2>1. o \in Objects /\ session \in [Objects -> Session]
    BY <1>1, <1>7 DEF CompleteRecord, TasksOK, Placed, TypeInv
  <2>2. Put(o, "completed", TRUE) /\ Goto(t, "charge")
    BY <1>7 DEF CompleteRecord
  <2>3. session'[o].status = "completed"
    BY <2>1, <2>2, PutFacts DEF Statuses
  <2> QED
    BY <1>1, <2>1, <2>2, <2>3, ChargeFacts
<1>8. CASE CompleteCharge(t)
  BY <1>1, <1>2, <1>8, FinishFacts DEF CompleteCharge
<1>9. CASE CompleteUndo(t)
  BY <1>1, <1>2, <1>9, FinishFacts DEF CompleteUndo
<1>10. CASE CompleteMissing(t)
  BY <1>1, <1>2, <1>10, GotoFacts DEF CompleteMissing, TasksOK, Placed, PCs
<1> QED
  BY <1>3, <1>4, <1>5, <1>6, <1>7, <1>8, <1>9, <1>10 DEF CompleteStep

(* Every step leaves each task placed, and enters a charge only with a     *)
(* completed session.                                                      *)
LEMMA TaskStep ==
  ASSUME TypeInv, [Next]_vars
  PROVE  TasksOK' /\ EntersCharge
<1>1. TasksOK
  BY DEF TypeInv
<1>2. NoCharge => EntersCharge
  BY DEF NoCharge, EntersCharge
<1>3. ASSUME NEW t \in Tasks, Begin(t) PROVE TasksOK' /\ NoCharge
  <2>1. CASE SweepBegin(t)
    BY <1>1, <2>1, StartFacts DEF SweepBegin, PCs
  <2>2. ASSUME NEW o \in Objects,
               InitBegin(t, o) \/ PartBegin(t, o) \/ CompleteBegin(t, o) \/ AbortBegin(t, o)
        PROVE  TasksOK' /\ NoCharge
    BY <1>1, <2>2, StartFacts DEF InitBegin, PartBegin, CompleteBegin, AbortBegin, PCs
  <2> QED
    BY <1>3, <2>1, <2>2 DEF Begin
<1>4. ASSUME NEW t \in Tasks, Step(t) PROVE TasksOK' /\ EntersCharge
  <2>1. CASE PartTouch(t)
    BY <1>1, <1>2, <2>1, FinishFacts DEF PartTouch
  <2> QED
    BY <1>1, <1>2, <1>4, <2>1, InitTasks, CompleteTasks, AbortTasks, SweepTasks DEF Step
<1>5. ASSUME NEW t \in Tasks, Stop(t) PROVE TasksOK' /\ NoCharge
  BY <1>1, <1>5, FinishFacts DEF Stop
<1>6. ASSUME task' = task PROVE TasksOK' /\ NoCharge
  BY <1>1, <1>6 DEF TasksOK, Placed, NoCharge
<1> QED
  BY <1>2, <1>3, <1>4, <1>5, <1>6 DEF Next, Expire, Lapse, LoseLock, vars

-----------------------------------------------------------------------------
(* Uploads in MinIO, objects, lock and answers keep their types. *)
LEMMA RestStep ==
  ASSUME TypeInv, [Next]_vars
  PROVE  RestOK'
<1>1. RestOK /\ TasksOK
  BY DEF TypeInv
<1>2. ASSUME NEW t \in Tasks, Begin(t) \/ PartTouch(t) \/ Stop(t) PROVE RestOK'
  BY <1>1, <1>2 DEF RestOK, Begin, SweepBegin, InitBegin, PartBegin, CompleteBegin, AbortBegin,
                    PartTouch, Stop, Acquire, Unlock, Unlocked
<1>3. ASSUME NEW t \in Tasks, InitStep(t) PROVE RestOK'
  BY <1>1, <1>3 DEF RestOK, TasksOK, Placed, InitStep, InitReserve, InitReclaim, InitCreate,
                    InitActivate, InitGiveUp, InitDiscard, InitCancel
<1>4. ASSUME NEW t \in Tasks, CompleteStep(t) PROVE RestOK'
  BY <1>1, <1>4 DEF RestOK, TasksOK, Placed, CompleteStep, CompleteTouch, CompleteMark,
                    CompleteStat, CompleteMinio, CompleteRecord, CompleteCharge, CompleteUndo,
                    CompleteMissing, Assemble, Acquire, Unlock, Unlocked, Valid
<1>5. ASSUME NEW t \in Tasks, AbortStep(t) PROVE RestOK'
  BY <1>1, <1>5 DEF RestOK, TasksOK, Placed, AbortStep, AbortTouch, AbortMark, AbortMinio,
                    AbortRecord, AbortUndo, FreeAborted, Unlock, Unlocked
<1>6. ASSUME NEW t \in Tasks, SweepStep(t) PROVE RestOK'
  BY <1>1, <1>6 DEF RestOK, SweepStep, SweepScan, SweepAbort, SweepSkip, SweepFree, SweepEnd,
                    Unlock, Unlocked
<1> QED
  BY <1>1, <1>2, <1>3, <1>4, <1>5, <1>6 DEF Next, Step, Expire, Lapse, LoseLock, vars, RestOK

-----------------------------------------------------------------------------
(***************************************************************************)
(* What a step does to the two documents: it keeps every upload's fate, or *)
(* it reserves, charges or frees one upload.                               *)
(***************************************************************************)
Kept ==
  /\ adm' = adm
  /\ \A p \in Objects :
       /\ session'[p].present => session[p].present
       /\ session'[p].finalized = session[p].finalized
       /\ \/ session'[p].status = session[p].status
          \/ /\ session[p].status \notin {"absent", "completed"}
             /\ session'[p].status # "absent"
             /\ ~session[p].finalized

Alone(o) == \A p \in Objects \ {o} : session'[p] = session[p]

Reserved(o) ==
  /\ session[o].status = "absent"
  /\ session'[o].status = "initializing" /\ ~session'[o].finalized
  /\ adm.count < Cap
  /\ adm.active + adm.reserved + Size[o] <= Quota
  /\ adm' = [adm EXCEPT !.reserved = @ + Size[o], !.count = @ + 1]

Charged(o) ==
  /\ session[o].status = "completed" /\ ~session[o].finalized
  /\ session'[o].status = "completed" /\ session'[o].finalized
  /\ adm' = [Released(o) EXCEPT !.active = @ + Size[o]]

Freed(o) ==
  /\ session[o].status # "absent" /\ ~session[o].finalized
  /\ session'[o].status \in {"aborted", "cancelled"} /\ session'[o].finalized
  /\ adm' = Released(o)

Documents ==
  /\ session' \in [Objects -> Session]
  /\ \/ Kept
     \/ \E o \in Objects : Alone(o) /\ (Reserved(o) \/ Charged(o) \/ Freed(o))

(* An upload without a session is not settled; a settled one has ended. *)
Consistent(s) == /\ s.status = "absent" => ~s.present /\ ~s.finalized
                 /\ s.finalized => s.status \in {"completed", "aborted", "cancelled"}

SessionsOK == \A o \in Objects : Consistent(session[o])

(* Only a completed session is charged, or one somebody else has settled.  *)
ChargesOK == \A t \in Tasks :
  task[t].pc = "charge" => \/ session[task[t].obj].finalized
                           \/ session[task[t].obj].status = "completed"

(* A change of one session that leaves it as settled as it was. *)
LEMMA KeepOne ==
  ASSUME session' \in [Objects -> Session], NEW o \in Objects, Alone(o), adm' = adm,
         session'[o].present => session[o].present,
         session'[o].finalized = session[o].finalized,
         \/ session'[o].status = session[o].status
         \/ /\ session[o].status \notin {"absent", "completed"}
            /\ session'[o].status # "absent"
            /\ ~session[o].finalized
  PROVE  Documents
BY DEF Documents, Kept, Alone

(* A step that touches neither document. *)
LEMMA KeepAll ==
  ASSUME session \in [Objects -> Session], UNCHANGED <<adm, session>>
  PROVE  Documents
BY DEF Documents, Kept

(* A put that keeps the status, or ends neither an absent nor a completed one. *)
LEMMA PutKept ==
  ASSUME session \in [Objects -> Session], NEW o \in Objects, NEW lease \in BOOLEAN,
         NEW status \in Statuses \ {"absent"}, Put(o, status, lease), adm' = adm,
         \/ status = session[o].status
         \/ session[o].status \notin {"absent", "completed"} /\ ~session[o].finalized
  PROVE  Documents
BY PutFacts, KeepOne DEF Alone

(* A put of a client, to an upload not settled as yet or to the same status. *)
LEMMA OwnerPut ==
  ASSUME session \in [Objects -> Session], SessionsOK, NEW o \in Objects, NEW lease \in BOOLEAN,
         NEW status \in Statuses \ {"absent"}, NEW from \in SUBSET Statuses, Valid(o, from),
         Put(o, status, lease), adm' = adm,
         session[o].status = status
           \/ session[o].status \in {"active", "completing", "aborting"}
  PROVE  Documents
BY PutKept DEF SessionsOK, Consistent

(* _touch_state_reservation settles nothing. *)
LEMMA TouchKept ==
  ASSUME session \in [Objects -> Session], SessionsOK, NEW o \in Objects, Touch(o), adm' = adm
  PROVE  Documents
<1>1. session[o] \in Session /\ session[o].present
  BY DEF Touch
<1>2. session[o].status \in Statuses \ {"absent"}
  BY <1>1 DEF Session, SessionsOK, Consistent
<1> QED
  BY <1>2, PutKept DEF Touch

(* restore_active_session and restore_aborted_session settle nothing. *)
LEMMA UndoKept ==
  ASSUME session \in [Objects -> Session], SessionsOK, NEW o \in Objects,
         NEW status \in {"completing", "aborting"}, Undo(o, status), adm' = adm
  PROVE  Documents
<1> DEFINE s == [session[o] EXCEPT !.leased = FALSE,
                                   !.status = IF session[o].status = status THEN "active"
                                              ELSE session[o].status]
<1>1. session[o] \in Session /\ Consistent(session[o])
  BY DEF SessionsOK
<1>2. /\ s \in Session /\ s.present = session[o].present
      /\ s.finalized = session[o].finalized
      /\ s.status = IF session[o].status = status THEN "active" ELSE session[o].status
  BY <1>1 DEF Session, Statuses
<1>3. session' = [session EXCEPT ![o] = s]
  BY DEF Undo
<1> HIDE DEF s
<1>4. session' \in [Objects -> Session] /\ session'[o] = s /\ Alone(o)
  BY <1>2, <1>3 DEF Alone
<1> QED
  BY <1>1, <1>2, <1>4, KeepOne DEF Consistent

(* activate_reservation settles nothing. *)
LEMMA ActivatedKept ==
  ASSUME session \in [Objects -> Session], SessionsOK, NEW o \in Objects,
         CanActivate(o), session' = Activated(o), adm' = adm
  PROVE  Documents
<1> DEFINE s == [session[o] EXCEPT !.status = "active", !.uploadId = TRUE,
                                   !.expired = FALSE, !.leased = FALSE]
<1>1. session[o] \in Session /\ session[o].status = "initializing" /\ ~session[o].finalized
  BY DEF CanActivate, SessionsOK, Consistent
<1>2. /\ s \in Session /\ s.present = session[o].present
      /\ s.finalized = session[o].finalized /\ s.status = "active"
  BY <1>1 DEF Session, Statuses
<1>3. session' = [session EXCEPT ![o] = s]
  BY DEF Activated
<1> HIDE DEF s
<1>4. session' \in [Objects -> Session] /\ session'[o] = s /\ Alone(o)
  BY <1>2, <1>3 DEF Alone
<1> QED
  BY <1>1, <1>2, <1>4, KeepOne

(* finalize_aborted_session frees the upload, or finds it settled. *)
LEMMA FreeDocuments ==
  ASSUME session \in [Objects -> Session], SessionsOK, NEW o \in Objects,
         session[o].present, Free(o)
  PROVE  Documents
<1>1. CASE session[o].finalized
  BY <1>1, KeepAll DEF Free
<1>2. CASE ~session[o].finalized
  <2>1. adm' = Released(o) /\ PutSettled(o, "aborted", TRUE)
    BY <1>2 DEF Free
  <2>2. session[o].status # "absent"
    BY DEF SessionsOK, Consistent
  <2> QED
    BY <1>2, <2>1, <2>2, PutSettledFacts DEF Documents, Freed, Alone, Statuses
<1> QED
  BY <1>1, <1>2

(* cancel_reservation frees the upload, or finds it settled or gone. *)
LEMMA CancelDocuments ==
  ASSUME session \in [Objects -> Session], SessionsOK, NEW o \in Objects,
         IF session[o].present /\ ~session[o].finalized
         THEN adm' = Released(o) /\ PutSettled(o, "cancelled", FALSE)
         ELSE UNCHANGED <<adm, session>>
  PROVE  Documents
<1>1. CASE session[o].present /\ ~session[o].finalized
  <2>1. session[o].status # "absent"
    BY <1>1 DEF SessionsOK, Consistent
  <2> QED
    BY <1>1, <2>1, PutSettledFacts DEF Documents, Freed, Alone, Statuses
<1> QED
  BY <1>1, KeepAll

(* finalize_completed_session charges the upload, or finds it settled. *)
LEMMA ChargeDocuments ==
  ASSUME session \in [Objects -> Session], NEW o \in Objects,
         session[o].finalized \/ session[o].status = "completed", Charge(o)
  PROVE  Documents
<1>1. CASE session[o].finalized
  BY <1>1, KeepAll DEF Charge
<1>2. CASE ~session[o].finalized
  <2>1. /\ adm' = [Released(o) EXCEPT !.active = @ + Size[o]]
        /\ PutSettled(o, "completed", TRUE)
    BY <1>2 DEF Charge
  <2> QED
    BY <1>2, <2>1, PutSettledFacts DEF Documents, Charged, Alone, Statuses
<1> QED
  BY <1>1, <1>2

(* A block percentage never admits more than the quota itself. *)
LEMMA LimitWithinQuota ==
  ASSUME NEW percent \in BlockPercents
  PROVE  LimitAt(percent) \in Nat /\ LimitAt(percent) <= Quota
<1>1. percent \in 1 .. 100 /\ Quota \in Nat \ {0}
  BY PercentAssumption, QuotaAssumption
<1>2. Quota * percent \in Nat /\ Quota * percent <= Quota * 100
  BY <1>1
<1>3. (Quota * percent) \div 100 \in Nat /\ (Quota * percent) \div 100 <= Quota
  BY <1>1, <1>2
<1> QED
  BY <1>1, <1>3 DEF LimitAt

(* multipart_init reserves within the quota, and frees what it gives up. *)
LEMMA InitDocuments ==
  ASSUME TypeInv, SessionsOK, NEW t \in Tasks, InitStep(t)
  PROVE  Documents
<1> DEFINE o == task[t].obj
<1>1. session \in [Objects -> Session] /\ adm \in Counters
  BY DEF TypeInv
<1>2. task[t].pc \notin {"idle", "scan", "sweep"} => o \in Objects
  BY DEF TypeInv, TasksOK, Placed
<1>3. CASE InitReserve(t)
  <2> DEFINE s == [NoSession EXCEPT !.status = "initializing", !.present = TRUE]
  <2>1. o \in Objects /\ session[o].status = "absent" /\ adm.count < Cap
    BY <1>2, <1>3 DEF InitReserve
  <2>2. /\ session' = [session EXCEPT ![o] = s]
        /\ adm' = [adm EXCEPT !.reserved = @ + Size[o], !.count = @ + 1]
    BY <1>3 DEF InitReserve
  <2>3. s \in Session /\ s.status = "initializing" /\ ~s.finalized
    BY DEF NoSession, Session, Statuses
  <2>4. PICK percent \in BlockPercents : adm.active + adm.reserved + Size[o] <= LimitAt(percent)
    BY <1>3 DEF InitReserve, Fits
  <2>5. adm.active \in Nat /\ adm.reserved \in Nat /\ Size[o] \in Nat /\ Quota \in Nat
    BY <1>1, <2>1, SizeAssumption, QuotaAssumption DEF Counters
  <2>6. adm.active + adm.reserved + Size[o] <= Quota
    BY <2>4, <2>5, LimitWithinQuota
  <2> HIDE DEF s, o
  <2> QED
    BY <1>1, <2>1, <2>2, <2>3, <2>6 DEF Documents, Reserved, Alone
<1>4. CASE InitReclaim(t) \/ InitCreate(t) \/ InitDiscard(t)
  BY <1>1, <1>4, KeepAll DEF InitReclaim, InitCreate, InitDiscard
<1>5. CASE InitActivate(t)
  BY <1>1, <1>2, <1>5, ActivatedKept DEF InitActivate
<1>6. CASE InitGiveUp(t)
  BY <1>1, <1>2, <1>6, ActivatedKept, KeepAll DEF InitGiveUp
<1>7. CASE InitCancel(t)
  BY <1>1, <1>2, <1>7, CancelDocuments DEF InitCancel
<1> QED
  BY <1>3, <1>4, <1>5, <1>6, <1>7 DEF InitStep

(* multipart_complete charges its upload, or frees it when it is missing. *)
LEMMA CompleteDocuments ==
  ASSUME TypeInv, SessionsOK, ChargesOK, NEW t \in Tasks, CompleteStep(t)
  PROVE  Documents
<1> DEFINE o == task[t].obj
<1>1. session \in [Objects -> Session]
  BY DEF TypeInv
<1>2. task[t].pc \notin {"idle", "scan", "sweep"} => o \in Objects
  BY DEF TypeInv, TasksOK, Placed
<1>3. CASE CompleteTouch(t)
  BY <1>1, <1>2, <1>3, TouchKept DEF CompleteTouch
<1>4. CASE CompleteMark(t)
  <2> DEFINE status == IF session[o].status = "completed" THEN "completed" ELSE "completing"
             lease == task[t].pc = "remarkComplete"
  <2>1. o \in Objects /\ Valid(o, {"active", "completing", "completed"})
    BY <1>2, <1>4 DEF CompleteMark
  <2>2. Put(o, status, lease) /\ adm' = adm
    BY <1>4 DEF CompleteMark
  <2>3. /\ status \in Statuses \ {"absent"} /\ lease \in BOOLEAN
        /\ session[o].status = status \/ session[o].status \in {"active", "completing"}
    BY <2>1 DEF Valid, Statuses
  <2>4. {"active", "completing", "completed"} \in SUBSET Statuses
    BY DEF Statuses
  <2> HIDE DEF status, lease, o
  <2> QED
    BY <1>1, <2>1, <2>2, <2>3, <2>4, OwnerPut
<1>5. CASE CompleteStat(t) \/ CompleteMinio(t)
  BY <1>1, <1>5, KeepAll DEF CompleteStat, CompleteMinio
<1>6. CASE CompleteRecord(t)
  <2>1. /\ o \in Objects /\ Valid(o, {"completing", "completed"})
        /\ Put(o, "completed", TRUE) /\ adm' = adm
    BY <1>2, <1>6 DEF CompleteRecord
  <2>2. session[o].status \in {"completing", "completed"}
    BY <2>1 DEF Valid
  <2> QED
    BY <1>1, <2>1, <2>2, OwnerPut DEF Statuses
<1>7. CASE CompleteCharge(t)
  <2>1. /\ o \in Objects /\ Charge(o)
        /\ session[o].finalized \/ session[o].status = "completed"
    BY <1>2, <1>7 DEF CompleteCharge, ChargesOK
  <2> QED
    BY <1>1, <2>1, ChargeDocuments
<1>8. CASE CompleteUndo(t)
  BY <1>1, <1>2, <1>8, UndoKept DEF CompleteUndo
<1>9. CASE CompleteMissing(t)
  <2>1. /\ o \in Objects /\ Valid(o, {"active", "completing", "aborting", "aborted"})
        /\ Put(o, "aborted", TRUE) /\ adm' = adm
    BY <1>2, <1>9 DEF CompleteMissing
  <2>2. session[o].status \in {"active", "completing", "aborting", "aborted"}
    BY <2>1 DEF Valid
  <2> QED
    BY <1>1, <2>1, <2>2, OwnerPut DEF Statuses
<1> QED
  BY <1>3, <1>4, <1>5, <1>6, <1>7, <1>8, <1>9 DEF CompleteStep

(* multipart_abort frees its upload. *)
LEMMA AbortDocuments ==
  ASSUME TypeInv, SessionsOK, NEW t \in Tasks, AbortStep(t)
  PROVE  Documents
<1> DEFINE o == task[t].obj
<1>1. session \in [Objects -> Session]
  BY DEF TypeInv
<1>2. task[t].pc \notin {"idle", "scan", "sweep"} => o \in Objects
  BY DEF TypeInv, TasksOK, Placed
<1>3. CASE AbortTouch(t)
  BY <1>1, <1>2, <1>3, TouchKept DEF AbortTouch
<1>4. CASE AbortMark(t)
  <2> DEFINE status == IF session[o].status = "aborted" THEN "aborted" ELSE "aborting"
             lease == task[t].pc = "remarkAbort"
  <2>1. o \in Objects /\ Valid(o, {"active", "aborting", "aborted"})
    BY <1>2, <1>4 DEF AbortMark
  <2>2. Put(o, status, lease) /\ adm' = adm
    BY <1>4 DEF AbortMark
  <2>3. /\ status \in Statuses \ {"absent"} /\ lease \in BOOLEAN
        /\ session[o].status = status \/ session[o].status \in {"active", "aborting"}
    BY <2>1 DEF Valid, Statuses
  <2>4. {"active", "aborting", "aborted"} \in SUBSET Statuses
    BY DEF Statuses
  <2> HIDE DEF status, lease, o
  <2> QED
    BY <1>1, <2>1, <2>2, <2>3, <2>4, OwnerPut
<1>5. CASE AbortMinio(t)
  BY <1>1, <1>5, KeepAll DEF AbortMinio
<1>6. CASE AbortRecord(t)
  <2>1. /\ o \in Objects /\ Valid(o, {"active", "completing", "aborting", "aborted"})
        /\ Put(o, "aborted", TRUE) /\ adm' = adm
    BY <1>2, <1>6 DEF AbortRecord
  <2>2. session[o].status \in {"active", "completing", "aborting", "aborted"}
    BY <2>1 DEF Valid
  <2> QED
    BY <1>1, <2>1, <2>2, OwnerPut DEF Statuses
<1>7. CASE AbortUndo(t)
  BY <1>1, <1>2, <1>7, UndoKept DEF AbortUndo
<1>8. CASE FreeAborted(t)
  BY <1>1, <1>2, <1>8, FreeDocuments DEF FreeAborted
<1> QED
  BY <1>3, <1>4, <1>5, <1>6, <1>7, <1>8 DEF AbortStep

(* The sweep frees uploads. *)
LEMMA SweepDocuments ==
  ASSUME TypeInv, SessionsOK, NEW t \in Tasks, SweepStep(t)
  PROVE  Documents
<1>1. session \in [Objects -> Session]
  BY DEF TypeInv
<1>2. ASSUME NEW item \in Seen, SweepFree(t, item) PROVE Documents
  <2>1. item[1] \in Objects
    BY DEF Seen
  <2>2. \/ session[item[1]].present /\ Free(item[1])
        \/ UNCHANGED <<adm, session>>
    BY <1>2 DEF SweepFree
  <2> QED
    BY <1>1, <2>1, <2>2, FreeDocuments, KeepAll
<1>3. ASSUME UNCHANGED <<adm, session>> PROVE Documents
  BY <1>1, <1>3, KeepAll
<1> QED
  BY <1>2, <1>3 DEF SweepStep, SweepScan, SweepEnd, SweepAbort, SweepSkip

(* Time and leases settle nothing. *)
LEMMA EnvDocuments ==
  ASSUME TypeInv, SessionsOK, NEW o \in Objects, Expire(o) \/ Lapse(o)
  PROVE  Documents
<1> DEFINE expired == [session[o] EXCEPT !.expired = TRUE]
           lapsed == [session[o] EXCEPT !.present = FALSE, !.expired = FALSE, !.leased = FALSE]
<1>1. session \in [Objects -> Session] /\ session[o] \in Session
  BY DEF TypeInv
<1>2. /\ expired \in Session /\ expired.present = session[o].present
      /\ expired.finalized = session[o].finalized /\ expired.status = session[o].status
  BY <1>1 DEF Session
<1>3. /\ lapsed \in Session /\ ~lapsed.present
      /\ lapsed.finalized = session[o].finalized /\ lapsed.status = session[o].status
  BY <1>1 DEF Session
<1>4. adm' = adm
  BY DEF Expire, Lapse
<1>5. session' = [session EXCEPT ![o] = expired] \/ session' = [session EXCEPT ![o] = lapsed]
  BY <1>1 DEF Expire, Lapse, Session
<1> HIDE DEF expired, lapsed
<1>6. session' \in [Objects -> Session] /\ session'[o] \in {expired, lapsed} /\ Alone(o)
  BY <1>1, <1>2, <1>3, <1>5 DEF Alone
<1> QED
  BY <1>2, <1>3, <1>4, <1>6, KeepOne

(* Every step keeps every fate, or reserves, charges or frees one upload.  *)
LEMMA DocumentStep ==
  ASSUME TypeInv, SessionsOK, ChargesOK, [Next]_vars
  PROVE  Documents
<1>1. session \in [Objects -> Session]
  BY DEF TypeInv
<1>2. ASSUME UNCHANGED <<adm, session>> PROVE Documents
  BY <1>1, <1>2, KeepAll
<1>3. ASSUME NEW t \in Tasks, Begin(t) PROVE Documents
  <2>1. ASSUME NEW o \in Objects, PartBegin(t, o) PROVE Documents
    <3>1. Valid(o, {"active"}) /\ Put(o, "active", FALSE) /\ adm' = adm
      BY <2>1 DEF PartBegin
    <3>2. session[o].status = "active"
      BY <3>1 DEF Valid
    <3> QED
      BY <1>1, <3>1, <3>2, OwnerPut DEF Statuses
  <2> QED
    BY <1>2, <1>3, <2>1 DEF Begin, SweepBegin, InitBegin, CompleteBegin, AbortBegin
<1>4. ASSUME NEW t \in Tasks, PartTouch(t) PROVE Documents
  <2>1. task[t].obj \in Objects
    BY <1>4 DEF PartTouch, TypeInv, TasksOK, Placed
  <2> QED
    BY <1>1, <1>4, <2>1, TouchKept DEF PartTouch
<1>5. ASSUME NEW t \in Tasks, Step(t) PROVE Documents
  BY <1>4, <1>5, InitDocuments, CompleteDocuments, AbortDocuments, SweepDocuments DEF Step
<1> QED
  BY <1>2, <1>3, <1>5, EnvDocuments DEF Next, Stop, LoseLock, vars

-----------------------------------------------------------------------------
(***************************************************************************)
(* What that does to the fates, and to the sets of uploads of each fate.   *)
(***************************************************************************)
LEMMA FateType == Fate \in [Objects -> Ledger!Fates]
BY DEF Fate, Ledger!Fates

(* Keeping a session keeps its fate. *)
LEMMA KeptFate ==
  ASSUME Kept
  PROVE  Fate' = Fate
BY DEF Kept, Fate

(* A reservation holds bytes of an upload that had none. *)
LEMMA ReservedFate ==
  ASSUME NEW o \in Objects, Alone(o), Reserved(o)
  PROVE  Fate[o] = "none" /\ Fate' = [Fate EXCEPT ![o] = "held"]
BY DEF Reserved, Alone, Fate

(* A charge is of held bytes. *)
LEMMA ChargedFate ==
  ASSUME NEW o \in Objects, Alone(o), Charged(o)
  PROVE  Fate[o] = "held" /\ Fate' = [Fate EXCEPT ![o] = "charged"]
BY DEF Charged, Alone, Fate

(* Only held bytes are freed. *)
LEMMA FreedFate ==
  ASSUME SessionsOK, NEW o \in Objects, Alone(o), Freed(o)
  PROVE  Fate[o] = "held" /\ Fate' = [Fate EXCEPT ![o] = "freed"]
BY DEF Freed, Alone, Fate

(* One upload's change of fate moves it from one set to the other. *)
LEMMA FateMoves ==
  ASSUME NEW o \in Objects, NEW fate, NEW from, Fate[o] = from, fate # from,
         Fate' = [Fate EXCEPT ![o] = fate]
  PROVE  /\ Ledger!In(fate)' = Ledger!In(fate) \cup {o}
         /\ o \notin Ledger!In(fate)
         /\ Ledger!In(from)' = Ledger!In(from) \ {o}
         /\ o \in Ledger!In(from)
         /\ \A other : other \notin {fate, from} => Ledger!In(other)' = Ledger!In(other)
BY FateType DEF Ledger!In

(* Uploads of one fate are finitely many, and so are their bytes. *)
LEMMA InFacts ==
  ASSUME NEW fate
  PROVE  /\ Ledger!In(fate) \in SUBSET Objects
         /\ IsFiniteSet(Ledger!In(fate))
         /\ Cardinality(Ledger!In(fate)) \in Nat
         /\ Bytes(Ledger!In(fate)) \in Nat
<1>1. Ledger!In(fate) \in SUBSET Objects
  BY DEF Ledger!In
<1>2. IsFiniteSet(Ledger!In(fate))
  BY <1>1, ObjectsAssumption, FS_Subset
<1> QED
  BY <1>1, <1>2, FS_CardinalityType, BytesNat

-----------------------------------------------------------------------------
(* The inductive invariant. *)
IInv == TypeInv /\ SessionsOK /\ ChargesOK /\ CountersMatchSessions /\ NoOversell

(* The invariant holds at the start. *)
LEMMA InvInit ==
  ASSUME Init
  PROVE  IInv
<1>1. TypeInv
  <2>1. Idle \in Task /\ Placed(Idle)
    BY DEF Idle, Task, PCs, Seen, Placed
  <2>2. NoSession \in Session
    BY DEF NoSession, Session, Statuses
  <2>3. adm \in Counters /\ session \in [Objects -> Session] /\ TasksOK
    BY <2>1, <2>2 DEF Init, Counters, TasksOK
  <2> QED
    BY <2>3 DEF Init, TypeInv, RestOK
<1>2. SessionsOK /\ ChargesOK
  BY DEF Init, SessionsOK, Consistent, ChargesOK, NoSession, Idle
<1>3. Fate = [o \in Objects |-> "none"]
  BY DEF Init, Fate, NoSession
<1>4. Ledger!In("held") = {} /\ Ledger!In("charged") = {}
  BY <1>3 DEF Ledger!In
<1>5. CountersMatchSessions
  BY <1>4, BytesNat, FS_EmptySet DEF Init, CountersMatchSessions
<1>6. NoOversell
  BY QuotaAssumption DEF Init, NoOversell
<1> QED
  BY <1>1, <1>2, <1>5, <1>6 DEF IInv

(* Each kind of step keeps counters and sessions together, within the quota. *)
LEMMA CountersStep ==
  ASSUME IInv, Documents
  PROVE  adm' \in Counters /\ CountersMatchSessions' /\ NoOversell'
<1>1. /\ adm \in Counters /\ adm.active \in Nat /\ adm.reserved \in Nat /\ adm.count \in Nat
      /\ Quota \in Nat /\ Cap \in Nat
  BY QuotaAssumption DEF IInv, TypeInv, Counters
<1>2. /\ adm.reserved = Bytes(Ledger!In("held"))
      /\ adm.count = Cardinality(Ledger!In("held"))
      /\ adm.active = Bytes(Ledger!In("charged"))
      /\ adm.active + adm.reserved <= Quota /\ adm.count <= Cap
  BY DEF IInv, CountersMatchSessions, NoOversell
<1>3. CASE Kept
  <2>1. adm' = adm /\ Fate' = Fate
    BY <1>3, KeptFate DEF Kept
  <2>2. \A fate : Ledger!In(fate)' = Ledger!In(fate)
    BY <2>1 DEF Ledger!In
  <2> QED
    BY <1>1, <1>2, <2>1, <2>2 DEF CountersMatchSessions, NoOversell
<1>4. ASSUME NEW o \in Objects, Alone(o), Reserved(o)
      PROVE  adm' \in Counters /\ CountersMatchSessions' /\ NoOversell'
  <2>1. /\ Ledger!In("held")' = Ledger!In("held") \cup {o} /\ o \notin Ledger!In("held")
        /\ Ledger!In("charged")' = Ledger!In("charged")
    BY <1>4, ReservedFate, FateMoves
  <2>2. /\ Bytes(Ledger!In("held")') = Bytes(Ledger!In("held")) + Size[o]
        /\ Cardinality(Ledger!In("held")') = Cardinality(Ledger!In("held")) + 1
    BY <2>1, InFacts, BytesAdd, FS_AddElement
  <2>3. /\ adm' = [adm EXCEPT !.reserved = @ + Size[o], !.count = @ + 1]
        /\ adm.count < Cap /\ adm.active + adm.reserved + Size[o] <= Quota
        /\ Size[o] \in Nat
    BY <1>4, SizeAssumption DEF Reserved
  <2>4. /\ adm' \in Counters /\ adm'.active = adm.active
        /\ adm'.reserved = adm.reserved + Size[o] /\ adm'.count = adm.count + 1
    <3>1. adm.reserved + Size[o] \in Nat /\ adm.count + 1 \in Nat
      BY <1>1, <2>3
    <3> QED
      BY <1>1, <2>3, <3>1 DEF Counters
  <2> QED
    BY <1>1, <1>2, <2>1, <2>2, <2>3, <2>4 DEF CountersMatchSessions, NoOversell
<1>5. ASSUME NEW o \in Objects, o \in Ledger!In("held"),
             Ledger!In("held")' = Ledger!In("held") \ {o}
      PROVE  /\ Released(o) \in Counters /\ Size[o] \in Nat
             /\ Released(o).active = adm.active
             /\ Released(o).reserved = Bytes(Ledger!In("held")')
             /\ Released(o).reserved + Size[o] = adm.reserved
             /\ Released(o).count = Cardinality(Ledger!In("held")')
             /\ Released(o).count <= adm.count
  <2>1. /\ Bytes(Ledger!In("held")) = Bytes(Ledger!In("held")') + Size[o]
        /\ Cardinality(Ledger!In("held")') = Cardinality(Ledger!In("held")) - 1
        /\ Bytes(Ledger!In("held")') \in Nat /\ Cardinality(Ledger!In("held")') \in Nat
    <3> DEFINE held == Ledger!In("held")
    <3>1. held \in SUBSET Objects /\ IsFiniteSet(held) /\ o \in held
      BY <1>5, InFacts
    <3>2. Ledger!In("held")' = held \ {o}
      BY <1>5
    <3> HIDE DEF held
    <3>3. Bytes(held) = Bytes(held \ {o}) + Size[o] /\ Bytes(held \ {o}) \in Nat
      BY <3>1, BytesRemove, BytesNat
    <3>4. IsFiniteSet(held \ {o}) /\ Cardinality(held \ {o}) = Cardinality(held) - 1
      BY <3>1, FS_RemoveElement
    <3>5. Cardinality(held \ {o}) \in Nat
      BY <3>4, FS_CardinalityType
    <3> QED
      BY <3>2, <3>3, <3>4, <3>5 DEF held
  <2>2. Size[o] \in Nat
    BY SizeAssumption
  <2>3. /\ Less(adm.reserved, Size[o]) = Bytes(Ledger!In("held")')
        /\ Less(adm.count, 1) = Cardinality(Ledger!In("held")')
    BY <1>1, <1>2, <2>1, <2>2 DEF Less
  <2> QED
    BY <1>1, <1>2, <2>1, <2>2, <2>3, ReleasedFacts
<1>6. ASSUME NEW o \in Objects, Alone(o), Charged(o)
      PROVE  adm' \in Counters /\ CountersMatchSessions' /\ NoOversell'
  <2>1. /\ Ledger!In("charged")' = Ledger!In("charged") \cup {o} /\ o \notin Ledger!In("charged")
        /\ Ledger!In("held")' = Ledger!In("held") \ {o} /\ o \in Ledger!In("held")
    BY <1>6, ChargedFate, FateMoves
  <2>2. Bytes(Ledger!In("charged")') = Bytes(Ledger!In("charged")) + Size[o]
    BY <2>1, InFacts, BytesAdd
  <2>3. adm' = [Released(o) EXCEPT !.active = @ + Size[o]]
    BY <1>6 DEF Charged
  <2>4. /\ adm' \in Counters /\ adm'.active = adm.active + Size[o]
        /\ adm'.reserved = Released(o).reserved /\ adm'.count = Released(o).count
    BY <1>1, <1>5, <2>1, <2>3 DEF Counters
  <2>5. /\ adm'.reserved = Bytes(Ledger!In("held")') /\ adm'.reserved + Size[o] = adm.reserved
        /\ adm'.count = Cardinality(Ledger!In("held")') /\ adm'.count <= adm.count
        /\ Size[o] \in Nat
    BY <1>5, <2>1, <2>4
  <2>6. adm'.active + adm'.reserved <= Quota /\ adm'.count <= Cap
    BY <1>1, <1>2, <2>4, <2>5 DEF Counters
  <2> QED
    BY <1>2, <2>2, <2>4, <2>5, <2>6 DEF CountersMatchSessions, NoOversell
<1>7. ASSUME NEW o \in Objects, Alone(o), Freed(o)
      PROVE  adm' \in Counters /\ CountersMatchSessions' /\ NoOversell'
  <2>1. /\ Ledger!In("held")' = Ledger!In("held") \ {o} /\ o \in Ledger!In("held")
        /\ Ledger!In("charged")' = Ledger!In("charged")
    BY <1>7, FreedFate, FateMoves DEF IInv
  <2>2. adm' = Released(o)
    BY <1>7 DEF Freed
  <2>3. /\ adm' \in Counters /\ adm'.active = adm.active
        /\ adm'.reserved = Bytes(Ledger!In("held")') /\ adm'.reserved + Size[o] = adm.reserved
        /\ adm'.count = Cardinality(Ledger!In("held")') /\ adm'.count <= adm.count
        /\ Size[o] \in Nat
    BY <1>5, <2>1, <2>2
  <2>4. adm'.active + adm'.reserved <= Quota /\ adm'.count <= Cap
    BY <1>1, <1>2, <2>3 DEF Counters
  <2> QED
    BY <1>2, <2>1, <2>3, <2>4 DEF CountersMatchSessions, NoOversell
<1> QED
  BY <1>3, <1>4, <1>6, <1>7 DEF Documents

(* Every step preserves the invariant. *)
LEMMA InvStep ==
  ASSUME IInv, [Next]_vars
  PROVE  IInv'
<1>1. TypeInv /\ SessionsOK /\ ChargesOK /\ session \in [Objects -> Session]
  BY DEF IInv, TypeInv
<1>2. Documents
  BY <1>1, DocumentStep
<1>3. TasksOK' /\ EntersCharge
  BY <1>1, TaskStep
<1>4. RestOK'
  BY <1>1, RestStep
<1>5. adm' \in Counters /\ CountersMatchSessions' /\ NoOversell'
  BY <1>2, CountersStep
<1>6. session' \in [Objects -> Session]
  BY <1>2 DEF Documents
<1>7. SessionsOK'
  BY <1>1, <1>2 DEF Documents, Kept, Alone, Reserved, Charged, Freed, SessionsOK, Consistent
<1>8. ChargesOK'
  <2>1. ASSUME NEW o \in Objects, session[o].finalized \/ session[o].status = "completed"
        PROVE  session'[o].finalized \/ session'[o].status = "completed"
    BY <1>1, <1>2, <2>1 DEF Documents, Kept, Alone, Reserved, Charged, Freed, SessionsOK, Consistent
  <2>2. ASSUME NEW t \in Tasks, task'[t].pc = "charge"
        PROVE  session'[task'[t].obj].finalized \/ session'[task'[t].obj].status = "completed"
    <3>1. task'[t].obj \in Objects
      BY <1>3, <2>2 DEF TasksOK, Placed
    <3> QED
      BY <1>1, <1>3, <2>1, <2>2, <3>1 DEF EntersCharge, ChargesOK
  <2> QED
    BY <2>2 DEF ChargesOK
<1> QED
  BY <1>3, <1>4, <1>5, <1>6, <1>7, <1>8 DEF IInv, TypeInv

(* The inductive invariant: types, and which sessions can be settled and   *)
(* charged, are what CountersMatchSessions and NoOversell need besides     *)
(* each other to survive every step of every handler.                      *)
THEOREM Invariance == Spec => []IInv
<1>1. Init => IInv
  BY InvInit
<1>2. IInv /\ [Next]_vars => IInv'
  BY InvStep
<1> QED
  BY <1>1, <1>2, PTL DEF Spec

(* Every reachable state is well typed, for any tasks, uploads and sizes:  *)
(* the counters of the document are naturals (every mover of them in       *)
(* quota.py cuts at zero) and every task stands at a point of its handler. *)
THEOREM TypeCorrect == Spec => []TypeOK
<1>1. IInv => TypeOK
  BY DEF IInv, TypeInv, TasksOK, RestOK, Counters, TypeOK
<1> QED
  BY <1>1, Invariance, PTL

(* The counters of the admission document are the bytes and the uploads of *)
(* the sessions, whatever interleaving of reserve, cancel and finalize     *)
(* moved them, and wherever a request or a worker died.                    *)
THEOREM CountersCorrect == Spec => []CountersMatchSessions
<1>1. IInv => CountersMatchSessions
  BY DEF IInv
<1> QED
  BY <1>1, Invariance, PTL

(* "Concurrent regions cannot oversell" (_reserve_upload_compact), for any *)
(* number of requests, sizes, quota, percentages and cap.                  *)
THEOREM NeverOversold == Spec => []NoOversell
<1>1. IInv => NoOversell
  BY DEF IInv
<1> QED
  BY <1>1, Invariance, PTL

(* The abstract specification counts what this one counts. *)
LEMMA LedgerCounts ==
  ASSUME NEW S
  PROVE  /\ Ledger!Cardinality(S) = Cardinality(S)
         /\ Ledger!Bytes(S) = Bytes(S)
<1>1. \A T : Ledger!Cardinality(T) = Cardinality(T)
  BY DEF Ledger!Cardinality, Cardinality
<1> QED
  BY <1>1 DEF Ledger!Bytes, Bytes, Ledger!ByteSet, ByteSet

(* Every step is a step of the ledger, or leaves it as it is. *)
LEMMA LedgerStep ==
  ASSUME IInv, [Next]_vars
  PROVE  [Ledger!LedgerNext]_Fate
<1>1. SessionsOK /\ Documents
  BY DocumentStep DEF IInv
<1>2. CASE Kept
  BY <1>2, KeptFate
<1>3. ASSUME NEW o \in Objects, Alone(o), Reserved(o) PROVE Ledger!Admit(o)
  BY <1>3, ReservedFate, LedgerCounts DEF Reserved, Ledger!Admit, IInv, CountersMatchSessions
<1>4. ASSUME NEW o \in Objects, Alone(o), Charged(o) PROVE Ledger!Charge(o)
  BY <1>4, ChargedFate DEF Ledger!Charge, Ledger!Settle
<1>5. ASSUME NEW o \in Objects, Alone(o), Freed(o) PROVE Ledger!Free(o)
  BY <1>1, <1>5, FreedFate DEF Ledger!Free, Ledger!Settle
<1> QED
  BY <1>1, <1>2, <1>3, <1>4, <1>5 DEF Documents, Ledger!LedgerNext

(* The handlers and the sweeps implement the ledger: each upload is        *)
(* admitted at most once, within quota and cap, and charged or freed once. *)
THEOREM Refinement == Spec => SettledOnce
<1>1. Init => Ledger!LedgerInit
  BY DEF Init, Ledger!LedgerInit, Fate, NoSession
<1>2. IInv /\ [Next]_vars => [Ledger!LedgerNext]_Fate
  BY LedgerStep
<1> QED
  BY <1>1, <1>2, Invariance, PTL DEF Spec, SettledOnce, Ledger!LedgerSpec

(* What the ledger promises holds of the sessions themselves: the bytes    *)
(* charged and held fit the quota, and the uploads in progress the cap.    *)
THEOREM PromiseKept == Spec => []Ledger!WithinQuota
<1>1. IInv => Ledger!WithinQuota
  BY LedgerCounts DEF IInv, CountersMatchSessions, NoOversell, Ledger!WithinQuota
<1> QED
  BY <1>1, Invariance, PTL

-----------------------------------------------------------------------------
(***************************************************************************)
(* Where an upload stands in MinIO, read off its session and its tasks.    *)
(***************************************************************************)
(* The places of a request for an upload its client knows.                 *)
ClientPCs == {"touchPart", "touchComplete", "markComplete", "remarkComplete", "stat",
              "complete", "recordComplete", "charge", "undoComplete", "recordMissing",
              "touchAbort", "markAbort", "remarkAbort", "abort", "recordAbort",
              "undoAbort", "free"}

Answered(o) == told[o] # "nothing"

(* A completed session has its object; one aborted or cancelled has no     *)
(* upload left that the client could complete.                             *)
SessionStage(o) ==
  /\ Answered(o) => session[o].uploadId
  /\ session[o].uploadId => session[o].status # "absent"
  /\ session[o].status = "completed" => o \in stored
  /\ session[o].status \in {"aborted", "cancelled"} /\ Answered(o) => o \notin open

TaskStage(k) ==
  /\ k.obj \in Objects => (k.pc \in ClientPCs <=> Answered(k.obj))
  /\ k.pc \in {"create", "activate"} => ~session[k.obj].uploadId
  /\ k.pc = "recordComplete" => k.obj \in stored
  /\ k.pc \in {"recordAbort", "recordMissing", "free"} => k.obj \notin open
  /\ \A o \in Objects : <<o, TRUE>> \in k.found \cup k.aborted => session[o].uploadId
  /\ \A o \in Objects : <<o, TRUE>> \in k.aborted => o \notin open

(* Until the client is answered, one request alone knows the upload.       *)
OneStarter ==
  \A t, u \in Tasks :
    task[t].obj \in Objects /\ ~Answered(task[t].obj) /\ task[u].obj = task[t].obj => t = u

Stages ==
  /\ \A o \in Objects : SessionStage(o)
  /\ \A t \in Tasks : TaskStage(task[t])
  /\ OneStarter

(* What one task may do to an upload: the starter alone opens it, names it *)
(* in its session and answers the client.                                  *)
Steady(t) ==
  /\ \A u \in Tasks \ {t} : task'[u] = task[u]
  /\ stored \subseteq stored'
  /\ \A o \in Objects :
       /\ session[o].uploadId => session'[o].uploadId
       /\ Answered(o) => Answered(o)'
       /\ \/ /\ Answered(o)' => Answered(o)
             /\ session'[o].uploadId => session[o].uploadId
             /\ o \in open' => o \in open
          \/ o = task[t].obj /\ ~session[o].uploadId

(* Then the stages survive, if the session and the task it changes do. *)
LEMMA StagesStep ==
  ASSUME TypeInv, Stages, NEW t \in Tasks, Steady(t),
         \A o \in Objects : SessionStage(o)',
         TaskStage(task[t])',
         \/ task'[t].obj \in {task[t].obj, NoObject}
         \/ task'[t].obj \in Objects /\ Answered(task'[t].obj)
         \/ \A u \in Tasks \ {t} : task'[t].obj # task[u].obj
  PROVE  Stages'
<1>1. \A o \in Objects : Answered(o) => session[o].uploadId
  BY DEF Stages, SessionStage
<1>2. ASSUME NEW u \in Tasks \ {t}
      PROVE  TaskStage(task[u])'
  <2>1. TaskStage(task[u]) /\ task'[u] = task[u]
    BY DEF Stages, Steady
  <2>2. task[u].obj \in Objects /\ ~Answered(task[u].obj) => task[u].obj # task[t].obj
    BY DEF Stages, OneStarter
  <2>3. /\ task[u].pc \notin {"idle", "scan", "sweep"} => task[u].obj \in Objects
        /\ task[u].found \cup task[u].aborted \in SUBSET Seen
    BY DEF TypeInv, TasksOK, Placed, Task
  <2>4. task[u].obj \in Objects => (Answered(task[u].obj)' <=> Answered(task[u].obj))
    BY <1>1, <2>2 DEF Steady
  <2>5. task[u].pc \in {"create", "activate"} => ~session'[task[u].obj].uploadId
    BY <1>1, <2>1, <2>2, <2>3 DEF Steady, TaskStage, ClientPCs
  <2>6. task[u].pc \in {"recordAbort", "recordMissing", "free"} => task[u].obj \notin open'
    BY <1>1, <2>1, <2>3 DEF Steady, TaskStage, ClientPCs
  <2>7. \A o \in Objects : <<o, TRUE>> \in task[u].found \cup task[u].aborted
                             => session'[o].uploadId
    BY <2>1 DEF Steady, TaskStage
  <2>8. \A o \in Objects : <<o, TRUE>> \in task[u].aborted => o \notin open'
    BY <2>1 DEF Steady, TaskStage
  <2>9. task[u].pc = "recordComplete" => task[u].obj \in stored'
    BY <2>1 DEF Steady, TaskStage
  <2> QED
    BY <2>1, <2>4, <2>5, <2>6, <2>7, <2>8, <2>9 DEF TaskStage
<1>3. \A u \in Tasks : TaskStage(task[u])'
  BY <1>2
<1>4. OneStarter'
  BY TasksAssumption DEF Stages, OneStarter, Steady, Answered
<1> QED
  BY <1>3, <1>4 DEF Stages

(* Sessions, when a step changes at most that of one upload. *)
LEMMA OneSession ==
  ASSUME Stages, NEW o \in Objects,
         \A p \in Objects \ {o} : session'[p] = session[p] /\ told'[p] = told[p]
                                  /\ (p \in open' => p \in open),
         stored \subseteq stored', SessionStage(o)'
  PROVE  \A p \in Objects : SessionStage(p)'
<1>1. ASSUME NEW p \in Objects, p # o PROVE SessionStage(p)'
  <2>1. /\ SessionStage(p) /\ session'[p] = session[p] /\ told'[p] = told[p]
        /\ p \in open' => p \in open
    BY <1>1 DEF Stages
  <2> QED
    BY <2>1 DEF SessionStage, Answered
<1> QED
  BY <1>1

(* A step that changes no session, answers nobody and opens no upload. *)
LEMMA NoSessionStage ==
  ASSUME Stages, session' = session, told' = told, open' \subseteq open,
         stored \subseteq stored'
  PROVE  \A p \in Objects : SessionStage(p)'
BY DEF Stages, SessionStage, Answered

(* The request that finishes, with every upload as it was for the others. *)
LEMMA FinishStage ==
  ASSUME TypeInv, NEW t \in Tasks, Finish(t)
  PROVE  /\ TaskStage(task[t])'
         /\ task'[t].obj = NoObject
         /\ \A u \in Tasks \ {t} : task'[u] = task[u]
<1>1. task' = [task EXCEPT ![t] = Idle] /\ task \in [Tasks -> Task]
  BY DEF Finish, TypeInv, TasksOK
<1>2. task'[t] = Idle /\ \A u \in Tasks \ {t} : task'[u] = task[u]
  BY <1>1
<1> QED
  BY <1>2, TasksAssumption DEF TaskStage, Idle

(* Only the request that starts an upload opens it in MinIO and names it. *)
LEMMA InitStages ==
  ASSUME TypeInv, Stages, NEW t \in Tasks, NEW o, o = task[t].obj, InitStep(t)
  PROVE  Stages'
<1>1. /\ TasksOK /\ task[t] \in Task /\ TaskStage(task[t])
      /\ session \in [Objects -> Session] /\ DOMAIN told = Objects
  BY DEF TypeInv, TasksOK, RestOK, Stages
<1>2. task[t].pc \notin {"idle", "scan", "sweep"} => o \in Objects
  BY DEF TypeInv, TasksOK, Placed
<1>3. CASE InitReserve(t)
  <2> DEFINE s == [NoSession EXCEPT !.status = "initializing", !.present = TRUE]
  <2>1. o \in Objects /\ session[o].status = "absent" /\ ~Answered(o) /\ ~session[o].uploadId
    BY <1>1, <1>2, <1>3 DEF InitReserve, TaskStage, ClientPCs, Stages, SessionStage
  <2>2. session' = [session EXCEPT ![o] = s] /\ UNCHANGED <<open, stored, told>> /\ Goto(t, "create")
    BY <1>3 DEF InitReserve
  <2>3. s.status = "initializing" /\ ~s.uploadId
    BY DEF NoSession
  <2> HIDE DEF s
  <2>4. session'[o] = s /\ \A p \in Objects \ {o} : session'[p] = session[p]
    BY <1>1, <2>1, <2>2
  <2>5. /\ task'[t].pc = "create" /\ task'[t].obj = o
        /\ task'[t].found = task[t].found /\ task'[t].aborted = task[t].aborted
        /\ \A u \in Tasks \ {t} : task'[u] = task[u]
    BY <1>1, <2>1, <2>2, GotoFacts DEF PCs
  <2>6. SessionStage(o)'
    BY <2>1, <2>2, <2>3, <2>4 DEF SessionStage, Answered
  <2>7. \A p \in Objects : SessionStage(p)'
    BY <2>1, <2>2, <2>4, <2>6, OneSession
  <2>8. TaskStage(task[t])'
    BY <1>1, <2>1, <2>2, <2>3, <2>4, <2>5 DEF TaskStage, Answered, ClientPCs
  <2>9. Steady(t)
    BY <2>1, <2>2, <2>3, <2>4, <2>5 DEF Steady, Answered
  <2> QED
    BY <2>5, <2>7, <2>8, <2>9, StagesStep
<1>4. CASE InitReclaim(t)
  <2>1. o \in Objects
    BY <1>2, <1>4 DEF InitReclaim
  <2>2. /\ task'[t].pc = "scan" /\ task'[t].obj = o
        /\ task'[t].found = task[t].found /\ task'[t].aborted = task[t].aborted
        /\ \A u \in Tasks \ {t} : task'[u] = task[u]
    BY <1>1, <1>4 DEF InitReclaim, TasksOK, Task
  <2>3. UNCHANGED <<session, open, stored, told>> /\ task[t].pc = "reserve"
    BY <1>4 DEF InitReclaim
  <2>4. TaskStage(task[t])'
    BY <1>1, <2>2, <2>3 DEF TaskStage, Answered, ClientPCs
  <2>5. Steady(t)
    BY <2>2, <2>3 DEF Steady, Answered
  <2> QED
    BY <2>2, <2>3, <2>4, <2>5, NoSessionStage, StagesStep
<1>5. CASE InitCreate(t)
  <2>1. o \in Objects /\ ~Answered(o) /\ ~session[o].uploadId /\ task[t].pc = "create"
    BY <1>1, <1>2, <1>5 DEF InitCreate, TaskStage, ClientPCs
  <2>2. UNCHANGED <<session, stored, told>> /\ open' \subseteq open \cup {o} 
    BY <1>5 DEF InitCreate
  <2>3. /\ task'[t].pc \in {"activate", "cancel"} /\ task'[t].obj = o
        /\ task'[t].found = task[t].found /\ task'[t].aborted = task[t].aborted
        /\ \A u \in Tasks \ {t} : task'[u] = task[u]
    BY <1>1, <1>5, <2>1, GotoFacts DEF InitCreate, PCs
  <2>4. SessionStage(o)'
    BY <2>1, <2>2 DEF SessionStage, Answered, Stages
  <2>5. \A p \in Objects : SessionStage(p)'
    BY <2>1, <2>2, <2>4, OneSession
  <2>6. TaskStage(task[t])'
    BY <1>1, <2>1, <2>2, <2>3 DEF TaskStage, Answered, ClientPCs
  <2>7. Steady(t)
    BY <2>1, <2>2, <2>3 DEF Steady, Answered
  <2> QED
    BY <2>3, <2>5, <2>6, <2>7, StagesStep
<1>6. ASSUME task[t].pc = "activate", CanActivate(o), session' = Activated(o),
             UNCHANGED <<open, stored>>
      PROVE  /\ o \in Objects /\ session'[o].uploadId /\ ~session[o].uploadId /\ ~Answered(o)
             /\ session'[o].status = "active"
             /\ \A p \in Objects \ {o} : session'[p] = session[p]
  <2>1. o \in Objects /\ ~Answered(o) /\ ~session[o].uploadId
    BY <1>1, <1>2, <1>6 DEF TaskStage, ClientPCs
  <2> QED
    BY <1>1, <1>6, <2>1 DEF Activated, Session
<1>7. CASE InitActivate(t)
  <2>1. /\ task[t].pc = "activate" /\ CanActivate(o) /\ session' = Activated(o)
        /\ told' \in {told, [told EXCEPT ![o] = "opened"]} /\ Finish(t)
        /\ UNCHANGED <<open, stored>>
    BY <1>7 DEF InitActivate
  <2>2. /\ o \in Objects /\ session'[o].uploadId /\ ~session[o].uploadId /\ ~Answered(o)
        /\ session'[o].status = "active"
        /\ \A p \in Objects \ {o} : session'[p] = session[p]
    BY <1>6, <2>1
  <2>3. \A p \in Objects \ {o} : told'[p] = told[p]
    BY <1>1, <2>1
  <2>4. SessionStage(o)'
    BY <2>2 DEF SessionStage
  <2>5. \A p \in Objects : SessionStage(p)'
    BY <2>1, <2>2, <2>3, <2>4, OneSession
  <2>6. Steady(t)
    BY <2>1, <2>2, <2>3, FinishStage DEF Steady, Answered
  <2> QED
    BY <2>1, <2>5, <2>6, FinishStage, StagesStep
<1>8. CASE InitGiveUp(t)
  <2>1. o \in Objects /\ task[t].pc = "activate" /\ ~Answered(o)
        /\ Goto(t, "discard") /\ UNCHANGED <<open, stored, told>>
    BY <1>1, <1>2, <1>8 DEF InitGiveUp, TaskStage, ClientPCs
  <2>2. /\ task'[t].pc = "discard" /\ task'[t].obj = o
        /\ task'[t].found = task[t].found /\ task'[t].aborted = task[t].aborted
        /\ \A u \in Tasks \ {t} : task'[u] = task[u]
    BY <1>1, <2>1, GotoFacts DEF PCs
  <2>3. CASE session' = session
    <3>1. TaskStage(task[t])' /\ Steady(t)
      BY <1>1, <2>1, <2>2, <2>3 DEF TaskStage, Answered, ClientPCs, Steady
    <3> QED
      BY <2>1, <2>2, <2>3, <3>1, NoSessionStage, StagesStep
  <2>4. CASE CanActivate(o) /\ session' = Activated(o)
    <3>1. /\ session'[o].uploadId /\ ~session[o].uploadId /\ ~Answered(o)
          /\ session'[o].status = "active"
          /\ \A p \in Objects \ {o} : session'[p] = session[p]
      BY <1>6, <2>1, <2>4
    <3>2. SessionStage(o)'
      BY <3>1 DEF SessionStage
    <3>3. \A p \in Objects : SessionStage(p)'
      BY <2>1, <3>1, <3>2, OneSession
    <3>4. TaskStage(task[t])'
      BY <1>1, <2>1, <2>2, <3>1 DEF TaskStage, Answered, ClientPCs
    <3>5. Steady(t)
      BY <2>1, <2>2, <3>1 DEF Answered, Steady
    <3> QED
      BY <2>2, <3>3, <3>4, <3>5, StagesStep
  <2> QED
    BY <1>8, <2>3, <2>4 DEF InitGiveUp
<1>9. CASE InitDiscard(t)
  <2>1. o \in Objects /\ task[t].pc = "discard" /\ Goto(t, "cancel")
        /\ UNCHANGED <<session, stored, told>> /\ open' \subseteq open
    BY <1>2, <1>9 DEF InitDiscard
  <2>2. /\ task'[t].pc = "cancel" /\ task'[t].obj = o
        /\ task'[t].found = task[t].found /\ task'[t].aborted = task[t].aborted
        /\ \A u \in Tasks \ {t} : task'[u] = task[u]
    BY <1>1, <2>1, GotoFacts DEF PCs
  <2>3. TaskStage(task[t])' /\ Steady(t)
    BY <1>1, <2>1, <2>2 DEF TaskStage, Answered, ClientPCs, Steady
  <2> QED
    BY <2>1, <2>2, <2>3, NoSessionStage, StagesStep
<1>10. CASE InitCancel(t)
  <2>1. o \in Objects /\ ~Answered(o) /\ Finish(t) /\ UNCHANGED <<open, stored, told>>
    BY <1>1, <1>2, <1>10 DEF InitCancel, TaskStage, ClientPCs
  <2>2. CASE session' = session
    BY <2>1, <2>2, FinishStage, NoSessionStage, StagesStep DEF Steady, Answered
  <2>3. CASE PutSettled(o, "cancelled", FALSE)
    <3>1. /\ session'[o].uploadId = session[o].uploadId /\ session'[o].status = "cancelled"
          /\ \A p \in Objects \ {o} : session'[p] = session[p]
      BY <1>1, <2>1, <2>3, PutSettledFacts DEF Statuses
    <3>2. SessionStage(o)'
      BY <2>1, <3>1 DEF SessionStage, Answered
    <3>3. \A p \in Objects : SessionStage(p)'
      BY <2>1, <3>1, <3>2, OneSession
    <3>4. Steady(t)
      BY <2>1, <3>1, FinishStage DEF Steady, Answered
    <3> QED
      BY <2>1, <3>3, <3>4, FinishStage, StagesStep
  <2> QED
    BY <1>10, <2>2, <2>3 DEF InitCancel
<1> QED
  BY <1>3, <1>4, <1>5, <1>7, <1>8, <1>9, <1>10 DEF InitStep

(* The sessions keep the upload ids they have. *)
SameUploads == \A p \in Objects : session'[p].uploadId = session[p].uploadId

(* A put of a status that the upload's object and MinIO allow. *)
LEMMA PutStage ==
  ASSUME TypeInv, Stages, NEW o \in Objects, NEW lease \in BOOLEAN,
         NEW status \in Statuses \ {"absent"},
         Put(o, status, lease) \/ PutSettled(o, status, lease),
         \A p \in Objects \ {o} : told'[p] = told[p],
         Answered(o)' <=> Answered(o),
         open' \subseteq open, stored \subseteq stored',
         status = "completed" => o \in stored,
         status \in {"aborted", "cancelled"} /\ Answered(o) => o \notin open
  PROVE  SameUploads /\ \A p \in Objects : SessionStage(p)'
<1>1. session \in [Objects -> Session]
  BY DEF TypeInv
<1>2. /\ \A p \in Objects \ {o} : session'[p] = session[p]
      /\ session'[o].status = status
      /\ session'[o].uploadId = session[o].uploadId
  BY <1>1, PutFacts, PutSettledFacts
<1>3. SessionStage(o)'
  BY <1>2 DEF SessionStage, Answered, Stages
<1>4. \A p \in Objects : SessionStage(p)'
  BY <1>2, <1>3, OneSession
<1> QED
  BY <1>2, <1>4 DEF SameUploads

(* _touch_state_reservation moves no upload to another stage. *)
LEMMA TouchStage ==
  ASSUME TypeInv, SessionsOK, Stages, NEW o \in Objects, Touch(o), UNCHANGED <<open, stored, told>>
  PROVE  SameUploads /\ \A p \in Objects : SessionStage(p)'
<1>1. /\ session[o] \in Session /\ session[o].present /\ Consistent(session[o])
      /\ SessionStage(o) /\ Put(o, session[o].status, FALSE)
  BY DEF Touch, TypeInv, SessionsOK, Stages
<1>2. /\ session[o].status \in Statuses \ {"absent"}
      /\ session[o].status = "completed" => o \in stored
      /\ session[o].status \in {"aborted", "cancelled"} /\ Answered(o) => o \notin open
  BY <1>1 DEF Session, Consistent, SessionStage
<1>3. Answered(o)' <=> Answered(o)
  BY DEF Answered
<1> QED
  BY <1>1, <1>2, <1>3, PutStage

(* The undoing of a mark leaves the session active, or as it was. *)
LEMMA UndoStage ==
  ASSUME TypeInv, Stages, NEW o \in Objects, NEW status \in {"completing", "aborting"},
         Undo(o, status), UNCHANGED <<open, stored, told>>
  PROVE  SameUploads /\ \A p \in Objects : SessionStage(p)'
<1>1. session \in [Objects -> Session] /\ session[o] \in Session /\ SessionStage(o)
  BY DEF TypeInv, Stages
<1>2. /\ \A p \in Objects \ {o} : session'[p] = session[p]
      /\ session'[o].status \in {session[o].status, "active"}
      /\ session'[o].uploadId = session[o].uploadId
  BY <1>1 DEF Undo, Session
<1>3. SessionStage(o)'
  BY <1>1, <1>2 DEF SessionStage, Answered
<1>4. \A p \in Objects : SessionStage(p)'
  BY <1>2, <1>3, OneSession
<1> QED
  BY <1>2, <1>4 DEF SameUploads

(* Freeing an upload that MinIO has not, or whose client knows nothing. *)
LEMMA FreeStage ==
  ASSUME TypeInv, Stages, NEW o \in Objects, Free(o), Answered(o) => o \notin open,
         UNCHANGED <<open, stored, told>>
  PROVE  SameUploads /\ \A p \in Objects : SessionStage(p)'
<1>1. CASE session' = session
  BY <1>1, NoSessionStage DEF SameUploads
<1>2. CASE PutSettled(o, "aborted", TRUE)
  <2>1. "aborted" \in Statuses \ {"absent"} /\ TRUE \in BOOLEAN /\ "aborted" # "completed"
    BY DEF Statuses
  <2>2. (Answered(o)' <=> Answered(o)) /\ \A p \in Objects \ {o} : told'[p] = told[p]
    BY DEF Answered
  <2> QED
    BY <1>2, <2>1, <2>2, PutStage
<1> QED
  BY <1>1, <1>2 DEF Free

(* A client's request goes on. *)
LEMMA ClientGoto ==
  ASSUME TypeInv, Stages, NEW t \in Tasks, NEW pc \in ClientPCs, task[t].pc \in ClientPCs,
         Goto(t, pc), SameUploads, \A p \in Objects : SessionStage(p)',
         told' = told, open' \subseteq open, stored \subseteq stored',
         pc = "recordComplete" => task[t].obj \in stored',
         pc \in {"recordAbort", "recordMissing", "free"} => task[t].obj \notin open'
  PROVE  Stages'
<1>1. TasksOK /\ TaskStage(task[t]) /\ pc \in PCs
  BY DEF TypeInv, Stages, ClientPCs, PCs
<1>2. task[t].obj \in Objects /\ Answered(task[t].obj)
  BY <1>1 DEF TasksOK, Placed, TaskStage, ClientPCs
<1>3. /\ task'[t].pc = pc /\ task'[t].obj = task[t].obj
      /\ task'[t].found = task[t].found /\ task'[t].aborted = task[t].aborted
      /\ \A u \in Tasks \ {t} : task'[u] = task[u]
  BY <1>1, <1>2, GotoFacts
<1>4. Steady(t)
  BY <1>3 DEF Steady, SameUploads, Answered
<1>5. TaskStage(task[t])'
  <2>1. pc \notin {"create", "activate"} /\ told'[task[t].obj] # "nothing"
    BY <1>2 DEF ClientPCs, Answered
  <2>2. \A p \in Objects : /\ session[p].uploadId => session'[p].uploadId
                           /\ p \in open' => p \in open
    BY DEF SameUploads
  <2>3. \A p \in Objects : <<p, TRUE>> \in task[t].found \cup task[t].aborted
                             => session[p].uploadId
    BY <1>1 DEF TaskStage
  <2>4. \A p \in Objects : <<p, TRUE>> \in task[t].aborted => p \notin open
    BY <1>1 DEF TaskStage
  <2>5. ASSUME NEW p \in Objects, <<p, TRUE>> \in task'[t].found \cup task'[t].aborted
        PROVE  session'[p].uploadId
    <3>1. <<p, TRUE>> \in task[t].found \cup task[t].aborted
      BY <1>3, <2>5
    <3> QED
      BY <2>2, <2>3, <3>1
  <2>6. \A p \in Objects : <<p, TRUE>> \in task'[t].aborted => p \notin open'
    BY <1>3, <2>2, <2>4
  <2> QED
    BY <1>2, <1>3, <2>1, <2>5, <2>6 DEF TaskStage, Answered
<1> QED
  BY <1>3, <1>4, <1>5, StagesStep

(* A request ends. *)
LEMMA EndStages ==
  ASSUME TypeInv, Stages, NEW t \in Tasks, Finish(t),
         SameUploads, \A p \in Objects : SessionStage(p)',
         \A p \in Objects : Answered(p)' <=> Answered(p),
         open' \subseteq open, stored \subseteq stored'
  PROVE  Stages'
<1>1. Steady(t)
  BY FinishStage DEF Steady, SameUploads
<1> QED
  BY <1>1, FinishStage, StagesStep

(* A completion records what MinIO has: an object, or no upload. *)
LEMMA CompleteStages ==
  ASSUME TypeInv, SessionsOK, ChargesOK, Stages, NEW t \in Tasks, NEW o, o = task[t].obj,
         CompleteStep(t)
  PROVE  Stages'
<1>1. /\ session \in [Objects -> Session] /\ TaskStage(task[t])
      /\ task[t].pc \notin {"idle", "scan", "sweep"} => o \in Objects /\ SessionStage(o)
  BY DEF TypeInv, TasksOK, Placed, Stages
<1>2. session' = session => SameUploads
  BY DEF SameUploads
<1>3. CASE CompleteTouch(t)
  <2>1. /\ Touch(o) /\ Goto(t, "markComplete") /\ UNCHANGED <<open, stored, told>>
        /\ task[t].pc = "touchComplete" /\ o \in Objects
    BY <1>1, <1>3 DEF CompleteTouch
  <2> QED
    BY <2>1, TouchStage, ClientGoto DEF ClientPCs
<1>4. CASE CompleteMark(t)
  <2> DEFINE status == IF session[o].status = "completed" THEN "completed" ELSE "completing"
             lease == task[t].pc = "remarkComplete"
  <2>1. /\ Put(o, status, lease) /\ UNCHANGED <<open, stored, told>>
        /\ task[t].pc \in {"markComplete", "remarkComplete"} /\ o \in Objects
    BY <1>1, <1>4 DEF CompleteMark
  <2>2. /\ status \in Statuses \ {"absent"} /\ lease \in BOOLEAN
        /\ status = "completed" => o \in stored
        /\ status \notin {"aborted", "cancelled"}
    BY <1>1, <2>1 DEF Statuses, SessionStage
  <2>3. \E pc \in {"charge", "stat", "complete"} : Goto(t, pc)
    BY <1>4 DEF CompleteMark, Valid
  <2> HIDE DEF status, lease
  <2>4. SameUploads /\ \A p \in Objects : SessionStage(p)'
    BY <2>1, <2>2, PutStage DEF Answered
  <2> QED
    BY <2>1, <2>3, <2>4, ClientGoto DEF ClientPCs
<1>5. CASE CompleteStat(t)
  <2>1. /\ UNCHANGED <<session, open, stored, told>> /\ task[t].pc = "stat"
        /\ Goto(t, IF o \in stored THEN "recordComplete" ELSE "complete")
    BY <1>5 DEF CompleteStat
  <2> QED
    BY <1>2, <2>1, NoSessionStage, ClientGoto DEF ClientPCs
<1>6. CASE CompleteMinio(t)
  <2>1. /\ UNCHANGED <<session, told>> /\ task[t].pc = "complete"
        /\ open' \subseteq open /\ stored \subseteq stored'
    BY <1>6 DEF CompleteMinio, Assemble
  <2>2. \/ Goto(t, "recordComplete") /\ o \in stored'
        \/ Goto(t, "recordMissing") /\ o \notin open'
        \/ Goto(t, "undoComplete")
    BY <1>6 DEF CompleteMinio, Assemble
  <2>3. SameUploads /\ \A p \in Objects : SessionStage(p)'
    BY <1>2, <2>1, NoSessionStage
  <2> QED
    BY <2>1, <2>2, <2>3, ClientGoto DEF ClientPCs
<1>7. CASE CompleteRecord(t)
  <2>1. /\ Put(o, "completed", TRUE) /\ Goto(t, "charge") /\ UNCHANGED <<open, stored, told>>
        /\ task[t].pc = "recordComplete" /\ o \in Objects /\ o \in stored
    BY <1>1, <1>7 DEF CompleteRecord, TaskStage
  <2>2. SameUploads /\ \A p \in Objects : SessionStage(p)'
    BY <2>1, PutStage DEF Statuses, Answered
  <2> QED
    BY <2>1, <2>2, ClientGoto DEF ClientPCs
<1>8. CASE CompleteCharge(t)
  <2>1. /\ Charge(o) /\ Finish(t) /\ UNCHANGED <<open, stored>> /\ o \in Objects
        /\ told' = [told EXCEPT ![o] = "completed"] /\ Answered(o)
        /\ session[o].finalized \/ session[o].status = "completed"
    BY <1>1, <1>8 DEF CompleteCharge, ChargesOK, TaskStage, ClientPCs
  <2>2. told'[o] = "completed" /\ \A p \in Objects \ {o} : told'[p] = told[p]
    BY <2>1 DEF TypeInv, RestOK
  <2>3. \A p \in Objects : Answered(p)' <=> Answered(p)
    BY <2>1, <2>2 DEF Answered
  <2>4. CASE session' = session
    <3>1. \A p \in Objects : SessionStage(p)'
      BY <2>1, <2>3, <2>4 DEF Stages, SessionStage
    <3> QED
      BY <1>2, <2>1, <2>3, <2>4, <3>1, EndStages
  <2>5. CASE PutSettled(o, "completed", TRUE) /\ session[o].status = "completed"
    <3>1. o \in stored
      BY <1>1, <1>8, <2>5 DEF CompleteCharge, SessionStage
    <3>2. SameUploads /\ \A p \in Objects : SessionStage(p)'
      BY <2>1, <2>2, <2>3, <2>5, <3>1, PutStage DEF Statuses
    <3> QED
      BY <2>1, <2>3, <3>2, EndStages
  <2> QED
    BY <2>1, <2>4, <2>5 DEF Charge
<1>9. CASE CompleteUndo(t)
  <2>1. Undo(o, "completing") /\ Finish(t) /\ UNCHANGED <<open, stored, told>> /\ o \in Objects
    BY <1>1, <1>9 DEF CompleteUndo
  <2> QED
    BY <2>1, UndoStage, EndStages DEF Answered
<1>10. CASE CompleteMissing(t)
  <2>1. /\ Put(o, "aborted", TRUE) /\ Goto(t, "free") /\ UNCHANGED <<open, stored, told>>
        /\ task[t].pc = "recordMissing" /\ o \in Objects /\ o \notin open
    BY <1>1, <1>10 DEF CompleteMissing, TaskStage
  <2>2. "aborted" \in Statuses \ {"absent"} /\ (Answered(o)' <=> Answered(o))
    BY <2>1 DEF Statuses, Answered
  <2>3. SameUploads /\ \A p \in Objects : SessionStage(p)'
    BY <2>1, <2>2, PutStage
  <2> QED
    BY <2>1, <2>3, ClientGoto DEF ClientPCs
<1> QED
  BY <1>3, <1>4, <1>5, <1>6, <1>7, <1>8, <1>9, <1>10 DEF CompleteStep

(* An abort records an upload that MinIO no longer has. *)
LEMMA AbortStages ==
  ASSUME TypeInv, SessionsOK, Stages, NEW t \in Tasks, NEW o, o = task[t].obj, AbortStep(t)
  PROVE  Stages'
<1>1. /\ session \in [Objects -> Session] /\ TaskStage(task[t])
      /\ task[t].pc \notin {"idle", "scan", "sweep"} => o \in Objects /\ SessionStage(o)
  BY DEF TypeInv, TasksOK, Placed, Stages
<1>2. session' = session => SameUploads
  BY DEF SameUploads
<1>3. CASE AbortTouch(t)
  <2>1. /\ Touch(o) /\ Goto(t, "markAbort") /\ UNCHANGED <<open, stored, told>>
        /\ task[t].pc = "touchAbort" /\ o \in Objects
    BY <1>1, <1>3 DEF AbortTouch
  <2> QED
    BY <2>1, TouchStage, ClientGoto DEF ClientPCs
<1>4. CASE AbortMark(t)
  <2> DEFINE over == session[o].status = "aborted"
             status == IF over THEN "aborted" ELSE "aborting"
             lease == task[t].pc = "remarkAbort"
  <2>1. /\ Put(o, status, lease) /\ UNCHANGED <<open, stored, told>>
        /\ Goto(t, IF over THEN "free" ELSE "abort")
        /\ task[t].pc \in {"markAbort", "remarkAbort"} /\ o \in Objects
    BY <1>1, <1>4 DEF AbortMark
  <2>2. Answered(o)
    BY <1>1, <2>1 DEF TaskStage, ClientPCs
  <2>3. /\ status \in Statuses \ {"absent"} /\ lease \in BOOLEAN
        /\ status \notin {"completed", "cancelled"}
        /\ status = "aborted" => o \notin open
    BY <1>1, <2>1, <2>2 DEF Statuses, SessionStage
  <2>4. \/ Goto(t, "free") /\ o \notin open
        \/ Goto(t, "abort")
    BY <2>1, <2>3
  <2> HIDE DEF status, lease
  <2>5. SameUploads /\ \A p \in Objects : SessionStage(p)'
    BY <2>1, <2>3, PutStage DEF Answered
  <2> QED
    BY <2>1, <2>4, <2>5, ClientGoto DEF ClientPCs
<1>5. CASE AbortMinio(t)
  <2>1. /\ UNCHANGED <<session, stored, told>> /\ task[t].pc = "abort"
        /\ open' \subseteq open
        /\ \/ Goto(t, "recordAbort") /\ o \notin open'
           \/ Goto(t, "undoAbort")
    BY <1>5 DEF AbortMinio
  <2>2. SameUploads /\ \A p \in Objects : SessionStage(p)'
    BY <1>2, <2>1, NoSessionStage
  <2> QED
    BY <2>1, <2>2, ClientGoto DEF ClientPCs
<1>6. CASE AbortRecord(t)
  <2>1. /\ Put(o, "aborted", TRUE) /\ Goto(t, "free") /\ UNCHANGED <<open, stored, told>>
        /\ task[t].pc = "recordAbort" /\ o \in Objects /\ o \notin open
    BY <1>1, <1>6 DEF AbortRecord, TaskStage
  <2>2. "aborted" \in Statuses \ {"absent"} /\ (Answered(o)' <=> Answered(o))
    BY <2>1 DEF Statuses, Answered
  <2>3. SameUploads /\ \A p \in Objects : SessionStage(p)'
    BY <2>1, <2>2, PutStage
  <2> QED
    BY <2>1, <2>3, ClientGoto DEF ClientPCs
<1>7. CASE AbortUndo(t)
  <2>1. Undo(o, "aborting") /\ Finish(t) /\ UNCHANGED <<open, stored, told>> /\ o \in Objects
    BY <1>1, <1>7 DEF AbortUndo
  <2> QED
    BY <2>1, UndoStage, EndStages DEF Answered
<1>8. CASE FreeAborted(t)
  <2>1. /\ Free(o) /\ Finish(t) /\ UNCHANGED <<open, stored, told>>
        /\ o \in Objects /\ o \notin open
    BY <1>1, <1>8 DEF FreeAborted, TaskStage
  <2> QED
    BY <2>1, FreeStage, EndStages DEF Answered
<1> QED
  BY <1>3, <1>4, <1>5, <1>6, <1>7, <1>8 DEF AbortStep

(* The sweep frees what it aborted, or what was never answered. *)
LEMMA SweepStages ==
  ASSUME TypeInv, SessionsOK, Stages, NEW t \in Tasks, SweepStep(t)
  PROVE  Stages'
<1>1. /\ task \in [Tasks -> Task] /\ task[t] \in Task /\ TaskStage(task[t])
      /\ session \in [Objects -> Session]
  BY DEF TypeInv, TasksOK, Stages
<1>2. session' = session => SameUploads
  BY DEF SameUploads
<1>3. ASSUME NEW k \in Task, task' = [task EXCEPT ![t] = k],
             k.pc = "sweep", task[t].pc \in {"scan", "sweep"}, k.obj = task[t].obj,
             SameUploads, told' = told, stored' = stored, open' \subseteq open,
             \A o \in Objects : SessionStage(o)',
             \A o \in Objects : <<o, TRUE>> \in k.found \cup k.aborted => session[o].uploadId,
             \A o \in Objects : <<o, TRUE>> \in k.aborted => o \notin open'
      PROVE  Stages'
  <2>1. task'[t] = k /\ \A u \in Tasks \ {t} : task'[u] = task[u]
    BY <1>1, <1>3
  <2>2. k.obj \in Objects => ~Answered(k.obj)
    BY <1>1, <1>3 DEF TaskStage, ClientPCs
  <2>3. Steady(t)
    BY <1>3, <2>1 DEF Steady, SameUploads, Answered
  <2>4. TaskStage(task[t])'
    BY <1>3, <2>1, <2>2 DEF TaskStage, SameUploads, Answered, ClientPCs
  <2> QED
    BY <1>3, <2>1, <2>3, <2>4, StagesStep
<1>4. CASE SweepScan(t)
  <2> DEFINE seen == {<<o, session[o].uploadId>> : o \in Expired}
             found == {item \in seen : item[2]}
             aborted == {item \in seen : ~item[2]}
             k == [task[t] EXCEPT !.pc = "sweep", !.found = found, !.aborted = aborted]
  <2>1. found \in SUBSET Seen /\ aborted \in SUBSET Seen
    BY <1>1 DEF Expired, Seen, Session
  <2>2. /\ \A o \in Objects : <<o, TRUE>> \in found => session[o].uploadId
        /\ \A o \in Objects : <<o, TRUE>> \notin aborted
    OBVIOUS
  <2>3. /\ task' = [task EXCEPT ![t] = k] /\ task[t].pc = "scan"
        /\ UNCHANGED <<session, open, stored, told>>
    BY <1>1, <1>4 DEF SweepScan
  <2> HIDE DEF found, aborted
  <2>4. /\ k \in Task /\ k.pc = "sweep" /\ k.obj = task[t].obj
        /\ k.found = found /\ k.aborted = aborted
    BY <1>1, <2>1 DEF Task, PCs
  <2> HIDE DEF k
  <2> QED
    BY <1>2, <1>3, <2>2, <2>3, <2>4, NoSessionStage
<1>5. ASSUME NEW item \in Seen, SweepAbort(t, item) PROVE Stages'
  <2> DEFINE k == [task[t] EXCEPT !.found = task[t].found \ {item},
                                  !.aborted = task[t].aborted \cup {item}]
  <2>1. /\ task' = [task EXCEPT ![t] = k] /\ task[t].pc = "sweep" /\ item \in task[t].found
        /\ UNCHANGED <<session, stored, told>> /\ open' = open \ {item[1]}
    BY <1>1, <1>5 DEF SweepAbort
  <2>2. /\ k \in Task /\ k.pc = "sweep" /\ k.obj = task[t].obj
        /\ k.found = task[t].found \ {item} /\ k.aborted = task[t].aborted \cup {item}
    BY <1>1, <2>1 DEF Task
  <2> HIDE DEF k
  <2>3. \A o \in Objects : <<o, TRUE>> \in k.found \cup k.aborted => session[o].uploadId
    BY <1>1, <2>1, <2>2 DEF TaskStage
  <2>4. ASSUME NEW o \in Objects, <<o, TRUE>> \in k.aborted PROVE o \notin open'
    <3>1. CASE <<o, TRUE>> = item
      <4>1. item[1] = o
        BY <3>1
      <4> QED
        BY <2>1, <4>1
    <3>2. CASE <<o, TRUE>> \in task[t].aborted
      BY <1>1, <2>1, <3>2 DEF TaskStage
    <3> QED
      BY <2>2, <2>4, <3>1, <3>2
  <2> QED
    BY <1>2, <1>3, <2>1, <2>2, <2>3, <2>4, NoSessionStage
<1>6. ASSUME NEW item \in Seen, SweepSkip(t, item) PROVE Stages'
  <2> DEFINE k == [task[t] EXCEPT !.found = task[t].found \ {item}]
  <2>1. /\ task' = [task EXCEPT ![t] = k] /\ task[t].pc = "sweep"
        /\ UNCHANGED <<session, stored, told>> /\ open' \subseteq open
    BY <1>1, <1>6 DEF SweepSkip
  <2>2. /\ k \in Task /\ k.pc = "sweep" /\ k.obj = task[t].obj
        /\ k.found = task[t].found \ {item} /\ k.aborted = task[t].aborted
    BY <1>1, <2>1 DEF Task
  <2> HIDE DEF k
  <2>3. /\ \A o \in Objects : <<o, TRUE>> \in k.found \cup k.aborted => session[o].uploadId
        /\ \A o \in Objects : <<o, TRUE>> \in k.aborted => o \notin open'
    BY <1>1, <2>1, <2>2 DEF TaskStage
  <2> QED
    BY <1>2, <1>3, <2>1, <2>2, <2>3, NoSessionStage
<1>7. ASSUME NEW item \in Seen, SweepFree(t, item) PROVE Stages'
  <2> DEFINE o == item[1]
             ours == session[o].present /\ session[o].uploadId = item[2]
             reclaim == IF ours /\ task[t].reclaim = "tried" THEN "freed"
                                                             ELSE task[t].reclaim
             aborted == task[t].aborted \ {item}
             k == [task[t] EXCEPT !.aborted = aborted, !.reclaim = reclaim]
  <2>1. /\ task' = [task EXCEPT ![t] = k] /\ task[t].pc = "sweep" /\ item \in task[t].aborted
        /\ UNCHANGED <<open, stored, told>>
        /\ IF ours THEN Free(o) ELSE UNCHANGED <<adm, session>>
    BY <1>1, <1>7 DEF SweepFree
  <2>2. reclaim \in {"no", "tried", "freed"} /\ aborted \in SUBSET Seen
    BY <1>1 DEF Task
  <2> HIDE DEF reclaim
  <2>3. /\ k \in Task /\ k.pc = "sweep" /\ k.obj = task[t].obj
        /\ k.found = task[t].found /\ k.aborted = aborted
    <3> HIDE DEF aborted
    <3> QED BY <1>1, <2>1, <2>2 DEF Task
  <2> HIDE DEF k
  <2>4. /\ \A p \in Objects : <<p, TRUE>> \in k.found \cup k.aborted => session[p].uploadId
        /\ \A p \in Objects : <<p, TRUE>> \in k.aborted => p \notin open'
    BY <1>1, <2>1, <2>3 DEF TaskStage
  <2>5. o \in Objects /\ item[2] \in BOOLEAN /\ item = <<o, item[2]>>
    BY DEF Seen
  <2>6. SameUploads /\ \A p \in Objects : SessionStage(p)'
    <3>1. CASE ours
      <4>1. session[o].uploadId => o \notin open
        BY <1>1, <2>1, <2>5, <3>1 DEF TaskStage
      <4>2. Answered(o) => session[o].uploadId
        BY <2>5 DEF Stages, SessionStage
      <4> QED
        BY <2>1, <2>5, <3>1, <4>1, <4>2, FreeStage
    <3>2. CASE ~ours
      BY <1>2, <2>1, <3>2, NoSessionStage
    <3> QED
      BY <3>1, <3>2
  <2> QED
    BY <1>3, <2>1, <2>3, <2>4, <2>6
<1>8. CASE SweepEnd(t)
  <2>1. /\ UNCHANGED <<session, open, stored, told>> /\ task[t].pc = "sweep"
        /\ \A p \in Objects : SessionStage(p)'
    BY <1>8, NoSessionStage DEF SweepEnd
  <2>2. CASE Finish(t)
    BY <1>2, <2>1, <2>2, EndStages DEF Answered
  <2>3. CASE Goto(t, "reserve") /\ task[t].obj \in Objects
    <3>1. /\ task'[t].pc = "reserve" /\ task'[t].obj = task[t].obj
          /\ task'[t].found = task[t].found /\ task'[t].aborted = task[t].aborted
          /\ \A u \in Tasks \ {t} : task'[u] = task[u]
      BY <2>3, GotoFacts DEF PCs, TypeInv
    <3>2. TaskStage(task[t])'
      BY <1>1, <2>1, <2>3, <3>1 DEF TaskStage, Answered, ClientPCs
    <3>3. Steady(t)
      BY <2>1, <3>1 DEF Steady, Answered
    <3> QED
      BY <2>1, <3>1, <3>2, <3>3, StagesStep
  <2> QED
    BY <1>8, <2>2, <2>3 DEF SweepEnd, TypeInv, TasksOK, Placed
<1> QED
  BY <1>4, <1>5, <1>6, <1>7, <1>8 DEF SweepStep

(* A request that starts. *)
LEMMA BeginStages ==
  ASSUME TypeInv, SessionsOK, Stages, NEW t \in Tasks, Begin(t)
  PROVE  Stages'
<1>1. session \in [Objects -> Session] /\ task \in [Tasks -> Task]
  BY DEF TypeInv, TasksOK
<1>2. ASSUME NEW o \in Objects \cup {NoObject}, NEW pc \in PCs, Start(t, o, pc)
      PROVE  /\ task'[t].pc = pc /\ task'[t].obj = o
             /\ task'[t].found = {} /\ task'[t].aborted = {}
             /\ \A u \in Tasks \ {t} : task'[u] = task[u]
  <2>1. task' = [task EXCEPT ![t] = [Idle EXCEPT !.obj = o, !.pc = pc]]
    BY <1>2 DEF Start
  <2>2. /\ task'[t] = [Idle EXCEPT !.obj = o, !.pc = pc]
        /\ \A u \in Tasks \ {t} : task'[u] = task[u]
    BY <1>1, <2>1
  <2> QED
    BY <2>2 DEF Idle
<1>3. CASE SweepBegin(t)
  <2>1. Start(t, NoObject, "scan") /\ UNCHANGED <<session, open, stored, told>>
    BY <1>3 DEF SweepBegin
  <2>2. /\ task'[t].pc = "scan" /\ task'[t].obj = NoObject
        /\ task'[t].found = {} /\ task'[t].aborted = {}
        /\ \A u \in Tasks \ {t} : task'[u] = task[u]
    BY <1>2, <2>1 DEF PCs
  <2>3. TaskStage(task[t])' /\ Steady(t)
    BY <2>1, <2>2, TasksAssumption DEF TaskStage, Steady, Answered
  <2> QED
    BY <2>1, <2>2, <2>3, NoSessionStage, StagesStep
<1>4. ASSUME NEW o \in Objects, InitBegin(t, o) PROVE Stages'
  <2>1. /\ Start(t, o, "reserve") /\ UNCHANGED <<session, open, stored, told>>
        /\ session[o].status = "absent" /\ \A u \in Tasks : task[u].obj # o
    BY <1>4 DEF InitBegin
  <2>2. /\ task'[t].pc = "reserve" /\ task'[t].obj = o
        /\ task'[t].found = {} /\ task'[t].aborted = {}
        /\ \A u \in Tasks \ {t} : task'[u] = task[u]
    BY <1>2, <2>1 DEF PCs
  <2>3. ~Answered(o)
    BY <2>1 DEF Stages, SessionStage
  <2>4. TaskStage(task[t])' /\ Steady(t)
    BY <2>1, <2>2, <2>3 DEF TaskStage, Steady, Answered, ClientPCs
  <2> QED
    BY <2>1, <2>2, <2>4, NoSessionStage, StagesStep
<1>5. ASSUME NEW o \in Objects,
             NEW pc \in {"touchPart", "touchComplete", "remarkComplete",
                         "touchAbort", "remarkAbort"},
             Start(t, o, pc), Answered(o), SameUploads, UNCHANGED <<open, stored, told>>,
             \A p \in Objects : SessionStage(p)'
      PROVE  Stages'
  <2>1. /\ task'[t].pc = pc /\ task'[t].obj = o
        /\ task'[t].found = {} /\ task'[t].aborted = {}
        /\ \A u \in Tasks \ {t} : task'[u] = task[u]
    BY <1>2, <1>5 DEF PCs
  <2>2. TaskStage(task[t])' /\ Steady(t)
    BY <1>5, <2>1 DEF TaskStage, Steady, Answered, ClientPCs, SameUploads
  <2> QED
    BY <1>5, <2>1, <2>2, StagesStep
<1>6. ASSUME NEW o \in Objects, PartBegin(t, o) PROVE Stages'
  <2>1. /\ Put(o, "active", FALSE) /\ Start(t, o, "touchPart") /\ Answered(o)
        /\ UNCHANGED <<open, stored, told>>
    BY <1>6 DEF PartBegin, Answered
  <2>2. "active" \in Statuses \ {"absent"} /\ (Answered(o)' <=> Answered(o))
    BY <2>1 DEF Statuses, Answered
  <2>3. SameUploads /\ \A p \in Objects : SessionStage(p)'
    BY <2>1, <2>2, PutStage
  <2> QED
    BY <1>5, <2>1, <2>3
<1>7. ASSUME NEW o \in Objects, CompleteBegin(t, o) \/ AbortBegin(t, o) PROVE Stages'
  <2>1. /\ \E pc \in {"touchComplete", "remarkComplete", "touchAbort", "remarkAbort"} :
             Start(t, o, pc)
        /\ Answered(o) /\ UNCHANGED <<session, open, stored, told>>
    BY <1>7 DEF CompleteBegin, AbortBegin, Answered
  <2>2. SameUploads
    BY <2>1 DEF SameUploads
  <2> QED
    BY <1>5, <2>1, <2>2, NoSessionStage
<1> QED
  BY <1>3, <1>4, <1>6, <1>7 DEF Begin

(* Every step of every handler keeps every upload's stage. *)
LEMMA StageInvStep ==
  ASSUME TypeInv, SessionsOK, ChargesOK, Stages, [Next]_vars
  PROVE  Stages'
<1>1. ASSUME NEW t \in Tasks, PartTouch(t) PROVE Stages'
  <2>1. /\ Touch(task[t].obj) /\ Finish(t) /\ UNCHANGED <<open, stored, told>>
        /\ task[t].obj \in Objects
    BY <1>1 DEF PartTouch, TypeInv, TasksOK, Placed
  <2> QED
    BY <2>1, TouchStage, EndStages DEF Answered
<1>2. ASSUME NEW t \in Tasks, Stop(t) PROVE Stages'
  BY <1>2, NoSessionStage, EndStages DEF Stop, Answered, SameUploads
<1>3. ASSUME NEW t \in Tasks, Step(t) PROVE Stages'
  BY <1>1, <1>3, InitStages, CompleteStages, AbortStages, SweepStages DEF Step
<1>4. ASSUME NEW o \in Objects, Expire(o) \/ Lapse(o) PROVE Stages'
  <2>1. session \in [Objects -> Session] /\ UNCHANGED <<open, stored, told, task>>
    BY <1>4 DEF TypeInv, Expire, Lapse
  <2>2. \A p \in Objects : /\ session'[p].status = session[p].status
                           /\ session'[p].uploadId = session[p].uploadId
    <3>1. CASE Expire(o)
      BY <2>1, <3>1 DEF Expire, Session
    <3>2. CASE Lapse(o)
      BY <2>1, <3>2 DEF Lapse, Session
    <3> QED
      BY <1>4, <3>1, <3>2
  <2> QED
    BY <2>1, <2>2 DEF Stages, SessionStage, TaskStage, OneStarter, Answered, TypeInv, TasksOK,
                      Placed
<1>5. ASSUME UNCHANGED <<session, open, stored, told, task>> PROVE Stages'
  BY <1>5 DEF Stages, SessionStage, TaskStage, OneStarter, Answered
<1> QED
  BY <1>2, <1>3, <1>4, <1>5, BeginStages DEF Next, LoseLock, vars

(* What the admission invariant says of the uploads in MinIO. *)
LEMMA StageInvariance == Spec => [](IInv /\ Stages)
<1>1. ASSUME Init PROVE Stages
  <2>1. \A o \in Objects : SessionStage(o)
    BY <1>1 DEF Init, SessionStage, Answered, NoSession
  <2>2. \A t \in Tasks : /\ task[t].obj \notin Objects /\ task[t].pc = "idle"
                          /\ task[t].found = {} /\ task[t].aborted = {}
    BY <1>1, TasksAssumption DEF Init, Idle
  <2> QED
    BY <2>1, <2>2 DEF Stages, TaskStage, OneStarter
<1>2. IInv /\ Stages /\ [Next]_vars => Stages'
  BY StageInvStep DEF IInv
<1> QED
  BY <1>1, <1>2, Invariance, PTL DEF Spec

(* Bytes are charged only for an object that MinIO assembled              *)
(* (multipart_complete), whichever of the completing request, its retries  *)
(* and the sweeps settles the upload, and wherever a request died.         *)
THEOREM ChargesBacked == Spec => []ChargedIsStored
<1>1. Stages => ChargedIsStored
  BY DEF Stages, SessionStage, ChargedIsStored, Ledger!In, Fate
<1> QED
  BY <1>1, StageInvariance, PTL

(* multipart_complete alone assembles objects. *)
LEMMA StoredStep ==
  ASSUME [Next]_vars, NEW o, o \in stored', o \notin stored
  PROVE  \E t \in Tasks : /\ task[t].pc = "complete" /\ task[t].obj = o
                          /\ o \in open
<1>1. ASSUME stored' = stored PROVE FALSE
  BY <1>1
<1>2. ASSUME NEW t \in Tasks, InitStep(t) PROVE stored' = stored
  BY <1>2 DEF InitStep, InitReserve, InitReclaim, InitCreate, InitActivate, InitGiveUp,
              InitDiscard, InitCancel
<1>3. ASSUME NEW t \in Tasks, AbortStep(t) PROVE stored' = stored
  BY <1>3 DEF AbortStep, AbortTouch, AbortMark, AbortMinio, AbortRecord, AbortUndo, FreeAborted
<1>4. ASSUME NEW t \in Tasks, SweepStep(t) PROVE stored' = stored
  BY <1>4 DEF SweepStep, SweepScan, SweepAbort, SweepSkip, SweepFree, SweepEnd
<1>5. ASSUME NEW t \in Tasks, Begin(t) PROVE stored' = stored
  BY <1>5 DEF Begin, SweepBegin, InitBegin, PartBegin, CompleteBegin, AbortBegin
<1>6. ASSUME NEW t \in Tasks, CompleteStep(t)
      PROVE  \/ stored' = stored
             \/ task[t].pc = "complete" /\ task[t].obj = o /\ o \in open
  BY <1>6 DEF CompleteStep, CompleteTouch, CompleteMark, CompleteStat, CompleteMinio,
              CompleteRecord, CompleteCharge, CompleteUndo, CompleteMissing, Assemble
<1> QED
  BY <1>1, <1>2, <1>3, <1>4, <1>5, <1>6
     DEF Next, Step, PartTouch, Stop, Expire, Lapse, LoseLock, vars

(* Once an upload's bytes were given back, no step assembles its object:   *)
(* the client knows no upload of it, or MinIO has dropped that upload      *)
(* before the session was settled.                                         *)
THEOREM FreedForGood == Spec => FreedStaysUnstored
<1>1. ASSUME IInv, Stages, [Next]_vars, NEW o \in Ledger!In("freed"), o \in stored'
      PROVE  o \in stored
  <2>1. o \in Objects /\ session[o].status \in {"aborted", "cancelled"}
    BY <1>1 DEF Ledger!In, Fate, IInv, SessionsOK, Consistent
  <2>2. SUFFICES ASSUME o \notin stored PROVE FALSE
    OBVIOUS
  <2>3. PICK t \in Tasks : task[t].pc = "complete" /\ task[t].obj = o /\ o \in open
    BY <1>1, <2>2, StoredStep
  <2>4. Answered(o)
    BY <1>1, <2>1, <2>3 DEF Stages, TaskStage, ClientPCs
  <2> QED
    BY <1>1, <2>1, <2>3, <2>4 DEF Stages, SessionStage
<1>2. IInv /\ Stages /\ [Next]_vars
        => [\A o \in Ledger!In("freed") : o \in stored' => o \in stored]_vars
  BY <1>1
<1> QED
  BY <1>2, StageInvariance, PTL DEF Spec, FreedStaysUnstored
=============================================================================
