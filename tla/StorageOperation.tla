-------------------------- MODULE StorageOperation --------------------------
(***************************************************************************)
(* Storage operations (src/modules/storage/operations.py): replication     *)
(* reconcile and resync, cluster heal, removal of an unmanaged bucket.     *)
(*                                                                         *)
(* A request stores an operation in the Mongo of its region, publishes it  *)
(* to Celery and saves it once more; a worker claims it, takes an Etcd     *)
(* lock, works and saves the outcome; a watchdog fails what stays queued   *)
(* or running for too long.  Only the claim is conditional: every other    *)
(* write is save(), which replaces the whole document by the copy at hand. *)
(* All operations of this module are of one kind on one target, so they    *)
(* compete for one lock, also from different regions.                      *)
(***************************************************************************)
EXTENDS Integers, FiniteSets

CONSTANTS
  Ops,        \* operations, each with the request that creates it
  Workers,    \* runs that can be under way at once, on workers or in the API process
  Home,       \* the region, and so the Mongo, of each operation
  NoOp,
  Free,       \* nobody holds the lock
  Orphaned    \* the lock's holder died; its lease still runs

ASSUME OpsAssumption == NoOp \notin Ops
ASSUME LockAssumption == Free # Orphaned /\ {Free, Orphaned} \cap Workers = {}

VARIABLES
  doc,      \* the operation's document: its status, and recovery_required
  req,      \* where the creating request is, and an old operation it retires
  queue,    \* operations with a message at the broker
  run,      \* what each worker runs
  lock,     \* the distributed operation lock
  stale,    \* operations the watchdog read as overdue and has not failed yet
  done      \* how often MinIO carried each operation out

vars == <<doc, req, queue, run, lock, stale, done>>

Active == {"queued", "running"}
Terminal == {"succeeded", "failed"}

Doc == [status : Active \cup Terminal \cup {"none"}, recovery : BOOLEAN]
Request == [pc : {"none", "retire", "create", "dispatch", "publish", "saveId", "over"},
            old : Ops \cup {NoOp}]
Run == [pc : {"idle", "lock", "start", "work", "succeed", "fail"},
        op : Ops \cup {NoOp}, claimed : BOOLEAN]

TypeOK ==
  /\ doc \in [Ops -> Doc]
  /\ req \in [Ops -> Request]
  /\ queue \subseteq Ops
  /\ run \in [Workers -> Run]
  /\ lock \in Workers \cup {Free, Orphaned}
  /\ stale \subseteq Ops
  /\ done \in [Ops -> Nat]

NoRun == [pc |-> "idle", op |-> NoOp, claimed |-> FALSE]

Init ==
  /\ doc = [op \in Ops |-> [status |-> "none", recovery |-> FALSE]]
  /\ req = [op \in Ops |-> [pc |-> "none", old |-> NoOp]]
  /\ queue = {}
  /\ run = [w \in Workers |-> NoRun]
  /\ lock = Free
  /\ stale = {}
  /\ done = [op \in Ops |-> 0]

(* Every copy that is saved was made of a document without recovery mark.  *)
Saved(op, status) == [doc EXCEPT ![op] = [status |-> status, recovery |-> FALSE]]

(* A run begins in a free slot; the fallback in the API process claims     *)
(* nothing.                                                                *)
Begin(w, op, claimed) ==
  /\ run[w] = NoRun
  /\ run' = [run EXCEPT ![w] = [pc |-> "lock", op |-> op, claimed |-> claimed]]

ReqGoto(op, pc) == req' = [req EXCEPT ![op] = [pc |-> pc, old |-> NoOp]]
RunGoto(w, pc) == run' = [run EXCEPT ![w].pc = pc]
Unlocked(w) == IF lock = w THEN Free ELSE lock

-----------------------------------------------------------------------------
(***************************************************************************)
(* The request.                                                            *)
(***************************************************************************)

(* _reuse_active_operation: without an active operation create one, retire *)
(* one that is too old; a younger one is returned and nothing happens.     *)
Ask(op) ==
  LET near == {p \in Ops : Home[p] = Home[op] /\ doc[p].status \in Active} IN
  /\ req[op].pc = "none"
  /\ \/ near = {} /\ ReqGoto(op, "create")
     \/ \E p \in near : req' = [req EXCEPT ![op] = [pc |-> "retire", old |-> p]]
  /\ UNCHANGED <<doc, queue, run, lock, stale, done>>

(* Mutant of Retire: a status the document does not know. *)
RetireExpired(op) ==
  /\ req[op].pc = "retire"
  /\ doc' = Saved(req[op].old, "expired")
  /\ ReqGoto(op, "create")
  /\ UNCHANGED <<queue, run, lock, stale, done>>

Retire(op) ==
  /\ req[op].pc = "retire"
  /\ doc' = Saved(req[op].old, "failed")
  /\ ReqGoto(op, "create")
  /\ UNCHANGED <<queue, run, lock, stale, done>>

Create(op) ==
  /\ req[op].pc = "create"
  /\ doc' = Saved(op, "queued")
  /\ ReqGoto(op, "dispatch")
  /\ UNCHANGED <<queue, run, lock, stale, done>>

(* Message, result and dispatched_at are saved before publishing. *)
Dispatch(op) ==
  /\ req[op].pc = "dispatch"
  /\ doc' = Saved(op, "queued")
  /\ ReqGoto(op, "publish")
  /\ UNCHANGED <<queue, run, lock, stale, done>>

RunHere(op) == \E w \in Workers : Begin(w, op, FALSE)

(* Published; or Celery is off, or publishing failed or seemed to. *)
Publish(op) ==
  /\ req[op].pc = "publish"
  /\ \/ queue' = queue \cup {op} /\ ReqGoto(op, "saveId") /\ UNCHANGED run
     \/ queue' \in {queue, queue \cup {op}} /\ ReqGoto(op, "over") /\ RunHere(op)
  /\ UNCHANGED <<doc, lock, stale, done>>

(* The task id is saved with the rest of the copy; an error here counts as *)
(* an error of publishing.                                                 *)
SaveId(op) ==
  /\ req[op].pc = "saveId"
  /\ \/ doc' = Saved(op, "queued") /\ UNCHANGED run
     \/ doc' \in {doc, Saved(op, "queued")} /\ RunHere(op)
  /\ ReqGoto(op, "over")
  /\ UNCHANGED <<queue, lock, stale, done>>

ReqStop(op) ==
  /\ req[op].pc \notin {"none", "over"}
  /\ ReqGoto(op, "over")
  /\ UNCHANGED <<doc, queue, run, lock, stale, done>>

ReqStep(op) == Retire(op) \/ Create(op) \/ Dispatch(op) \/ Publish(op) \/ SaveId(op)

-----------------------------------------------------------------------------
(***************************************************************************)
(* The worker.  The four _run_..._operation functions are one here: they   *)
(* differ in what they ask of MinIO between start and outcome.             *)
(***************************************************************************)

(* Mutant of Claim: read, then save. *)
ClaimAnyway(w, op) ==
  /\ op \in queue
  /\ doc' = [doc EXCEPT ![op].status = "running"]
  /\ Begin(w, op, TRUE)
  /\ queue' \in {queue, queue \ {op}}
  /\ UNCHANGED <<req, lock, stale, done>>

(* The claim is atomic.  The message may be delivered again. *)
Claim(w, op) ==
  /\ op \in queue
  /\ doc[op].status = "queued"
  /\ doc' = [doc EXCEPT ![op].status = "running"]
  /\ Begin(w, op, TRUE)
  /\ queue' \in {queue, queue \ {op}}
  /\ UNCHANGED <<req, lock, stale, done>>

(* A message for an operation that is not queued, or one that is lost. *)
Drop(op) ==
  /\ op \in queue
  /\ queue' = queue \ {op}
  /\ UNCHANGED <<doc, req, run, lock, stale, done>>

(* _distributed_operation_lock does not wait. *)
RunLock(w) ==
  /\ run[w].pc = "lock"
  /\ lock = Free
  /\ lock' = w
  /\ RunGoto(w, "start")
  /\ UNCHANGED <<doc, req, queue, stale, done>>

RunStart(w) ==
  /\ run[w].pc = "start"
  /\ doc' = Saved(run[w].op, "running")
  /\ RunGoto(w, "work")
  /\ UNCHANGED <<req, queue, lock, stale, done>>

(* The lock is released before the outcome is saved. *)
RunWork(w) ==
  /\ run[w].pc = "work"
  /\ done' = [done EXCEPT ![run[w].op] = @ + 1]
  /\ RunGoto(w, "succeed")
  /\ lock' = Unlocked(w)
  /\ UNCHANGED <<doc, req, queue, stale>>

(* Mutant of RunFail: a busy lock means somebody else is doing the work. *)
RunDelegate(w) ==
  /\ run[w].pc \in {"lock", "start", "work"}
  /\ done' \in {done} \cup
       (IF run[w].pc = "work" THEN {[done EXCEPT ![run[w].op] = @ + 1]} ELSE {})
  /\ RunGoto(w, IF run[w].pc = "lock" /\ lock # Free THEN "succeed" ELSE "fail")
  /\ lock' = Unlocked(w)
  /\ UNCHANGED <<doc, req, queue, stale>>

(* The lock is busy, or an error or a cancellation at any point. *)
RunFail(w) ==
  /\ run[w].pc \in {"lock", "start", "work"}
  /\ done' \in {done} \cup
       (IF run[w].pc = "work" THEN {[done EXCEPT ![run[w].op] = @ + 1]} ELSE {})
  /\ RunGoto(w, "fail")
  /\ lock' = Unlocked(w)
  /\ UNCHANGED <<doc, req, queue, stale>>

RunEnd(w) ==
  /\ run[w].pc \in {"succeed", "fail"}
  /\ doc' = Saved(run[w].op, IF run[w].pc = "succeed" THEN "succeeded" ELSE "failed")
  /\ run' = [run EXCEPT ![w] = NoRun]
  /\ UNCHANGED <<req, queue, lock, stale, done>>

(* The process dies, or cannot save the outcome. *)
RunCrash(w) ==
  /\ run[w] # NoRun
  /\ run' = [run EXCEPT ![w] = NoRun]
  /\ lock' = IF lock = w THEN Orphaned ELSE lock
  /\ UNCHANGED <<doc, req, queue, stale, done>>

(* The lease ends: nothing tells a holder whose refreshes fail. *)
LoseLock ==
  /\ lock # Free
  /\ lock' = Free
  /\ UNCHANGED <<doc, req, queue, run, stale, done>>

RunStep(w) == RunLock(w) \/ RunStart(w) \/ RunWork(w) \/ RunFail(w) \/ RunEnd(w)

-----------------------------------------------------------------------------
(***************************************************************************)
(* The watchdog reads up to 500 overdue operations and fails them one by   *)
(* one.  Any active operation may be overdue.                              *)
(***************************************************************************)

(* Mutant of WatchRead: only operations that run can be overdue. *)
WatchRunning(op) ==
  /\ op \notin stale /\ doc[op].status = "running"
  /\ stale' = stale \cup {op}
  /\ UNCHANGED <<doc, req, queue, run, lock, done>>

WatchRead(op) ==
  /\ op \notin stale /\ doc[op].status \in Active
  /\ stale' = stale \cup {op}
  /\ UNCHANGED <<doc, req, queue, run, lock, done>>

WatchFail(op) ==
  /\ op \in stale
  /\ doc' = [doc EXCEPT ![op] = [status |-> "failed", recovery |-> TRUE]]
  /\ stale' = stale \ {op}
  /\ UNCHANGED <<req, queue, run, lock, done>>

WatchStop ==
  /\ stale # {}
  /\ stale' = {}
  /\ UNCHANGED <<doc, req, queue, run, lock, done>>

-----------------------------------------------------------------------------
OpNext(op) == \/ Ask(op) \/ ReqStep(op) \/ ReqStop(op) \/ Drop(op)
              \/ WatchRead(op) \/ WatchFail(op)

Next == \/ \E op \in Ops : OpNext(op)
        \/ \E w \in Workers : \/ RunStep(w) \/ RunCrash(w)
                              \/ \E op \in Ops : Claim(w, op)
        \/ LoseLock \/ WatchStop

Spec == Init /\ [][Next]_vars

(***************************************************************************)
(* Requests and runs go on or die (every external call has a timeout); the *)
(* watchdog is scheduled for ever, and does not die every time before it   *)
(* reaches the same operation.  Nothing makes a worker take a message.     *)
(***************************************************************************)
Fairness ==
  /\ \A op \in Ops : /\ WF_vars(ReqStep(op) \/ ReqStop(op))
                     /\ WF_vars(WatchRead(op))
                     /\ SF_vars(WatchFail(op))
  /\ \A w \in Workers : WF_vars(RunStep(w) \/ RunCrash(w))

FairSpec == Spec /\ Fairness

-----------------------------------------------------------------------------
(* An operation whose outcome is saved as a success has been carried out,  *)
(* whichever of its runs saved it and however many there were.             *)
SuccessIsReal ==
  \A op \in Ops : doc[op].status = "succeeded" => done[op] > 0

(* Nobody holds a copy of the operation that is still to be saved.         *)
Quiet(op) == /\ req[op].pc = "over"
             /\ op \notin stale
             /\ \A p \in Ops : req[p].old # op
             /\ \A w \in Workers : run[w].op # op

Settled(op) == doc[op].status \in Terminal /\ Quiet(op)

(* The purpose of the atomic claim: once an operation is over and its      *)
(* request, its runs and the watchdog have let go of it, no late or        *)
(* repeated message brings it to life again, and its outcome stands.       *)
SettledForGood ==
  [][\A op \in Ops : Settled(op) => Settled(op)' /\ doc'[op] = doc[op]]_vars

(* Every operation ends, whatever is lost, and its document says so for    *)
(* good: clients poll it for the final result.                             *)
EveryOperationEnds ==
  \A op \in Ops : doc[op].status # "none" ~> [](doc[op].status \in Terminal)

(* "Prevent the five regional backends from starting the same repair."     *)
OneRepairAtATime ==
  \A v, w \in Workers : run[v].pc = "work" /\ run[w].pc = "work" => v = w

(* A worker that has claimed an operation does not go on to its external   *)
(* side effects once the watchdog has marked it recovery_required.         *)
RecoveryStands ==
  [][\A w \in Workers : run[w].claimed /\ doc[run[w].op].recovery
                           => run'[w].pc # "work"]_vars

(* A worker's claim stands: a running operation is not queued again.       *)
ClaimStands ==
  [][\A op \in Ops : doc[op].status = "running" => doc'[op].status # "queued"]_vars
=============================================================================
