--------------------------- MODULE QuotaAdmission ---------------------------
(***************************************************************************)
(* Quota admission of multipart uploads for one application                *)
(* (src/modules/files/quota.py, the compact generation, and the multipart  *)
(* handlers of src/modules/files/service.py that drive it).                *)
(*                                                                         *)
(* Etcd holds one counter document for the application, adm, and one       *)
(* document per open, session.  Both are only written by compare-and-    *)
(* swap on the revisions just read, so a successful read-modify-write loop *)
(* is one step here.  MinIO holds the multipart uploads and the objects.   *)
(* Requests and the authority worker are tasks that run one step between   *)
(* two awaits; any of them can end early, after any step, because it was   *)
(* refused, timed out, was cancelled or because its process died.          *)
(***************************************************************************)
EXTENDS QuotaBytes

CONSTANTS
  Tasks,          \* concurrent requests and worker runs, in any region
  NoTask,         \* the application lock is free
  NoObject,       \* the task works on no single upload
  Quota,          \* quota_bytes of the counter document (see QuotaLimit for its changes)
  BlockPercents,  \* the block thresholds a request may have read
  Cap             \* APPLICATION_QUOTA_MAX_ACTIVE_RESERVATIONS

ASSUME TasksAssumption == NoTask \notin Tasks /\ NoObject \notin Objects
ASSUME QuotaAssumption == Quota \in Nat \ {0} /\ Cap \in Nat \ {0}
ASSUME PercentAssumption == BlockPercents \subseteq 1 .. 100

VARIABLES
  adm,      \* quota/admission/apps/<app>: bytes in use, bytes and uploads reserved
  session,  \* quota/uploads/<app>/<object>, its last value once the key is gone
  open,     \* multipart uploads MinIO knows
  stored,   \* objects MinIO assembled from a completed upload
  lock,     \* the task whose application lock Etcd still honours
  task,     \* where each task is
  told      \* what the client has been answered about its upload

vars == <<adm, session, open, stored, lock, task, told>>

Statuses == {"absent", "initializing", "active", "completing", "completed",
             "aborting", "aborted", "cancelled"}

PCs == {"idle", "reserve", "create", "activate", "discard", "cancel",
        "touchPart", "touchComplete", "markComplete", "remarkComplete", "stat",
        "complete", "recordComplete", "charge", "undoComplete", "recordMissing",
        "touchAbort", "markAbort", "remarkAbort", "abort", "recordAbort",
        "undoAbort", "free", "scan", "sweep"}

(* A session as the sweep saw it: its key, and whether it had an upload id. *)
Seen == Objects \X BOOLEAN

Session == [status : Statuses, present : BOOLEAN, finalized : BOOLEAN,
            expired : BOOLEAN, leased : BOOLEAN, uploadId : BOOLEAN]

Task == [pc : PCs, obj : Objects \cup {NoObject}, reclaim : {"no", "tried", "freed"},
         found : SUBSET Seen, aborted : SUBSET Seen]

TypeOK ==
  /\ adm \in [active : Nat, reserved : Nat, count : Nat]
  /\ session \in [Objects -> Session]
  /\ open \subseteq Objects
  /\ stored \subseteq Objects
  /\ lock \in Tasks \cup {NoTask}
  /\ task \in [Tasks -> Task]
  /\ told \in [Objects -> {"nothing", "opened", "completed"}]

NoSession == [status |-> "absent", present |-> FALSE, finalized |-> FALSE,
              expired |-> FALSE, leased |-> FALSE, uploadId |-> FALSE]

Idle == [pc |-> "idle", obj |-> NoObject, reclaim |-> "no", found |-> {}, aborted |-> {}]

Init ==
  /\ adm = [active |-> 0, reserved |-> 0, count |-> 0]
  /\ session = [o \in Objects |-> NoSession]
  /\ open = {}
  /\ stored = {}
  /\ lock = NoTask
  /\ task = [t \in Tasks |-> Idle]
  /\ told = [o \in Objects |-> "nothing"]

-----------------------------------------------------------------------------
(* Moving a task along, and the application lock.                          *)

Goto(t, pc) == task' = [task EXCEPT ![t].pc = pc]
Finish(t) == task' = [task EXCEPT ![t] = Idle]
Start(t, o, pc) == /\ task[t] = Idle
                   /\ task' = [task EXCEPT ![t] = [Idle EXCEPT !.obj = o, !.pc = pc]]

Acquire(t) == lock = NoTask /\ lock' = t
Unlocked(t) == IF lock = t THEN NoTask ELSE lock
Unlock(t) == lock' = Unlocked(t)

(***************************************************************************)
(* Writing a session.  A put names a lease or none; one that names none    *)
(* detaches the key from the lease it had.  Every put also renews          *)
(* expires_at, except those that only undo a status.                       *)
(***************************************************************************)
Put(o, status, lease) ==
  session' = [session EXCEPT ![o] = [@ EXCEPT !.status = status, !.leased = lease,
                                              !.expired = FALSE]]

PutSettled(o, status, lease) ==
  session' = [session EXCEPT ![o] = [@ EXCEPT !.status = status, !.leased = lease,
                                              !.expired = FALSE, !.finalized = TRUE]]

(* _touch_state_reservation: renew whatever status the session has by now. *)
Touch(o) == /\ session[o].present
            /\ Put(o, session[o].status, FALSE)

(* restore_active_session, restore_aborted_session: the status alone, and  *)
(* only if it is still that one; the key is put without a lease either way.*)
Undo(o, status) ==
  session' = [session EXCEPT ![o].leased = FALSE,
                             ![o].status = IF @ = status THEN "active" ELSE @]

(* _validate_session for the owner of the upload. *)
Valid(o, statuses) == /\ session[o].present
                      /\ ~session[o].expired
                      /\ session[o].status \in statuses

(***************************************************************************)
(* The counter document.                                                   *)
(***************************************************************************)
Less(a, b) == IF a > b THEN a - b ELSE 0

(* max(int(quota * percent / 100), 1) *)
LimitAt(percent) == LET limit == (Quota * percent) \div 100
                    IN  IF limit > 1 THEN limit ELSE 1

(* Mutant of Fits: uploads still in progress are left out. *)
FitsCharged(o, percent) == adm.active + Size[o] <= LimitAt(percent)

Fits(o, percent) == adm.active + adm.reserved + Size[o] <= LimitAt(percent)

(* Mutant of Released: uploads are counted in bytes. *)
ReleasedMixed(o) == [adm EXCEPT !.reserved = Less(@, Size[o]), !.count = @ - Size[o]]

Released(o) == [adm EXCEPT !.reserved = Less(@, Size[o]), !.count = Less(@, 1)]

(* Mutant of Charge: a retry charges again. *)
ChargeAgain(o) == /\ adm' = [Released(o) EXCEPT !.active = @ + Size[o]]
                  /\ PutSettled(o, session[o].status, TRUE)

(* _finalize_compact_reservation(completed=True) *)
Charge(o) ==
  IF session[o].finalized THEN UNCHANGED <<adm, session>>
  ELSE /\ adm' = [Released(o) EXCEPT !.active = @ + Size[o]]
       /\ PutSettled(o, session[o].status, TRUE)

(* Mutant of Free: bytes settled by somebody else are given back. *)
FreeAnyway(o) == adm' = Released(o) /\ PutSettled(o, "aborted", TRUE)

(* _finalize_compact_reservation(completed=False) *)
Free(o) ==
  IF session[o].finalized THEN UNCHANGED <<adm, session>>
  ELSE /\ adm' = Released(o)
       /\ PutSettled(o, "aborted", TRUE)

-----------------------------------------------------------------------------
(***************************************************************************)
(* multipart_init: reserve, create the upload in MinIO, activate.  It      *)
(* takes no lock.                                                          *)
(***************************************************************************)
InitBegin(t, o) ==
  /\ session[o].status = "absent"
  /\ \A u \in Tasks : task[u].obj # o
  /\ Start(t, o, "reserve")
  /\ UNCHANGED <<adm, session, open, stored, lock, told>>

(* One transaction writes the counter and creates the session. *)
InitReserve(t) ==
  LET o == task[t].obj IN
  /\ task[t].pc = "reserve"
  /\ session[o].status = "absent"
  /\ adm.count < Cap
  /\ \E percent \in BlockPercents : Fits(o, percent)
  /\ adm' = [adm EXCEPT !.reserved = @ + Size[o], !.count = @ + 1]
  /\ session' = [session EXCEPT ![o] = [NoSession EXCEPT !.status = "initializing",
                                                         !.present = TRUE]]
  /\ Goto(t, "create")
  /\ UNCHANGED <<open, stored, lock, told>>

(* At the cap a request sweeps expired sessions, once, without the lock. *)
InitReclaim(t) ==
  /\ task[t].pc = "reserve" /\ task[t].reclaim = "no"
  /\ adm.count >= Cap
  /\ task' = [task EXCEPT ![t].pc = "scan", ![t].reclaim = "tried"]
  /\ UNCHANGED <<adm, session, open, stored, lock, told>>

(* A create that fails may have reached MinIO all the same. *)
InitCreate(t) ==
  LET o == task[t].obj IN
  /\ task[t].pc = "create"
  /\ \/ open' = open \cup {o} /\ Goto(t, "activate")
     \/ open' \in {open, open \cup {o}} /\ Goto(t, "cancel")
  /\ UNCHANGED <<adm, session, stored, lock, told>>

CanActivate(o) == /\ session[o].present
                  /\ session[o].status = "initializing"
                  /\ ~session[o].uploadId

Activated(o) == [session EXCEPT ![o] = [@ EXCEPT !.status = "active", !.uploadId = TRUE,
                                                 !.expired = FALSE, !.leased = FALSE]]

(* The answer may get lost on its way to the client. *)
InitActivate(t) ==
  LET o == task[t].obj IN
  /\ task[t].pc = "activate"
  /\ CanActivate(o)
  /\ session' = Activated(o)
  /\ told' \in {told, [told EXCEPT ![o] = "opened"]}
  /\ Finish(t)
  /\ UNCHANGED <<adm, open, stored, lock>>

(* The request was cancelled, or the activation failed or seemed to. *)
InitGiveUp(t) ==
  LET o == task[t].obj IN
  /\ task[t].pc = "activate"
  /\ session' \in {session} \cup (IF CanActivate(o) THEN {Activated(o)} ELSE {})
  /\ Goto(t, "discard")
  /\ UNCHANGED <<adm, open, stored, lock, told>>

(* The outcome of aborting the upload is ignored here. *)
InitDiscard(t) ==
  LET o == task[t].obj IN
  /\ task[t].pc = "discard"
  /\ open' \in {open, open \ {o}}
  /\ Goto(t, "cancel")
  /\ UNCHANGED <<adm, session, stored, lock, told>>

(* cancel_reservation *)
InitCancel(t) ==
  LET o == task[t].obj IN
  /\ task[t].pc = "cancel"
  /\ IF session[o].present /\ ~session[o].finalized
     THEN adm' = Released(o) /\ PutSettled(o, "cancelled", FALSE)
     ELSE UNCHANGED <<adm, session>>
  /\ Finish(t)
  /\ UNCHANGED <<open, stored, lock, told>>

InitStep(t) == \/ InitReserve(t) \/ InitReclaim(t) \/ InitCreate(t) \/ InitActivate(t)
               \/ InitGiveUp(t) \/ InitDiscard(t) \/ InitCancel(t)

-----------------------------------------------------------------------------
(***************************************************************************)
(* prepare_part and commit_part: a write that needs an active session,     *)
(* then a renewal that does not look at the status.  Which parts are there *)
(* is left out; the part lock is not the application lock.                 *)
(***************************************************************************)
PartBegin(t, o) ==
  /\ told[o] # "nothing"
  /\ Valid(o, {"active"})
  /\ Put(o, "active", FALSE)
  /\ Start(t, o, "touchPart")
  /\ UNCHANGED <<adm, open, stored, lock, told>>

PartTouch(t) ==
  /\ task[t].pc = "touchPart"
  /\ Touch(task[t].obj)
  /\ Finish(t)
  /\ UNCHANGED <<adm, open, stored, lock, told>>

-----------------------------------------------------------------------------
(***************************************************************************)
(* multipart_complete: mark the session completing under the application   *)
(* lock, complete the upload in MinIO without it, then take it again to    *)
(* record the result and charge the bytes.                                 *)
(***************************************************************************)
CompleteBegin(t, o) ==
  /\ told[o] # "nothing"
  /\ Valid(o, {"active", "completing", "completed"})
  /\ Acquire(t)
  /\ Start(t, o, IF session[o].status = "completed" THEN "remarkComplete"
                                                    ELSE "touchComplete")
  /\ UNCHANGED <<adm, session, open, stored, told>>

CompleteTouch(t) ==
  /\ task[t].pc = "touchComplete"
  /\ Touch(task[t].obj)
  /\ Goto(t, "markComplete")
  /\ UNCHANGED <<adm, open, stored, lock, told>>

(* The status found by the first read decides the lease, the one found by  *)
(* the write decides what happens next.                                    *)
CompleteMark(t) ==
  LET o == task[t].obj
      status == session[o].status
  IN
  /\ task[t].pc \in {"markComplete", "remarkComplete"}
  /\ Valid(o, {"active", "completing", "completed"})
  /\ Put(o, IF status = "completed" THEN "completed" ELSE "completing",
         task[t].pc = "remarkComplete")
  /\ CASE status = "completed"  -> Goto(t, "charge") /\ UNCHANGED lock
       [] status = "completing" -> Goto(t, "stat") /\ Unlock(t)
       [] status = "active"     -> Goto(t, "complete") /\ Unlock(t)
  /\ UNCHANGED <<adm, open, stored, told>>

(* A session found completing: was the object assembled already? *)
CompleteStat(t) ==
  /\ task[t].pc = "stat"
  /\ Goto(t, IF task[t].obj \in stored THEN "recordComplete" ELSE "complete")
  /\ UNCHANGED <<adm, session, open, stored, lock, told>>

Assemble(o) == /\ o \in open
               /\ open' = open \ {o}
               /\ stored' = stored \cup {o}

(* Mutant of CompleteMinio: NoSuchUpload is taken for an earlier success. *)
CompleteTrusting(t) ==
  LET o == task[t].obj IN
  /\ task[t].pc = "complete"
  /\ \/ Assemble(o) /\ Goto(t, "recordComplete")
     \/ o \notin open /\ Goto(t, "recordComplete") /\ UNCHANGED <<open, stored>>
     \/ /\ Assemble(o) \/ UNCHANGED <<open, stored>>
        /\ Goto(t, "undoComplete")
  /\ UNCHANGED <<adm, session, lock, told>>

(* MinIO answers; NoSuchUpload; or some other error, after which nobody    *)
(* knows whether the object was assembled.                                 *)
CompleteMinio(t) ==
  LET o == task[t].obj IN
  /\ task[t].pc = "complete"
  /\ \/ Assemble(o) /\ Goto(t, "recordComplete")
     \/ /\ o \notin open
        /\ Goto(t, IF o \in stored THEN "recordComplete" ELSE "recordMissing")
        /\ UNCHANGED <<open, stored>>
     \/ /\ Assemble(o) \/ UNCHANGED <<open, stored>>
        /\ Goto(t, "undoComplete")
  /\ UNCHANGED <<adm, session, lock, told>>

(* record_completed_session: the key is put with a lease before the bytes  *)
(* are charged.                                                            *)
CompleteRecord(t) ==
  LET o == task[t].obj IN
  /\ task[t].pc = "recordComplete"
  /\ Acquire(t)
  /\ Valid(o, {"completing", "completed"})
  /\ Put(o, "completed", TRUE)
  /\ Goto(t, "charge")
  /\ UNCHANGED <<adm, open, stored, told>>

(* finalize_completed_session, and the success the client is told (whether *)
(* that answer arrives makes no difference to what the client may do).     *)
CompleteCharge(t) ==
  LET o == task[t].obj IN
  /\ task[t].pc = "charge"
  /\ session[o].present
  /\ Charge(o)
  /\ told' = [told EXCEPT ![o] = "completed"]
  /\ Unlock(t)
  /\ Finish(t)
  /\ UNCHANGED <<open, stored>>

(* restore_active_session: the client may try again. *)
CompleteUndo(t) ==
  /\ task[t].pc = "undoComplete"
  /\ lock = NoTask
  /\ Undo(task[t].obj, "completing")
  /\ Finish(t)
  /\ UNCHANGED <<adm, open, stored, lock, told>>

(* No upload and no object: record_aborted_session. *)
CompleteMissing(t) ==
  LET o == task[t].obj IN
  /\ task[t].pc = "recordMissing"
  /\ Acquire(t)
  /\ Valid(o, {"active", "completing", "aborting", "aborted"})
  /\ Put(o, "aborted", TRUE)
  /\ Goto(t, "free")
  /\ UNCHANGED <<adm, open, stored, told>>

CompleteStep(t) == \/ CompleteTouch(t) \/ CompleteMark(t) \/ CompleteStat(t)
                   \/ CompleteMinio(t) \/ CompleteRecord(t) \/ CompleteCharge(t)
                   \/ CompleteUndo(t) \/ CompleteMissing(t)

-----------------------------------------------------------------------------
(***************************************************************************)
(* multipart_abort, all of it under the application lock.                  *)
(***************************************************************************)
AbortBegin(t, o) ==
  /\ told[o] # "nothing"
  /\ Valid(o, {"active", "aborting", "aborted"})
  /\ Acquire(t)
  /\ Start(t, o, IF session[o].status = "aborted" THEN "remarkAbort" ELSE "touchAbort")
  /\ UNCHANGED <<adm, session, open, stored, told>>

AbortTouch(t) ==
  /\ task[t].pc = "touchAbort"
  /\ Touch(task[t].obj)
  /\ Goto(t, "markAbort")
  /\ UNCHANGED <<adm, open, stored, lock, told>>

AbortMark(t) ==
  LET o == task[t].obj
      over == session[o].status = "aborted"
  IN
  /\ task[t].pc \in {"markAbort", "remarkAbort"}
  /\ Valid(o, {"active", "aborting", "aborted"})
  /\ Put(o, IF over THEN "aborted" ELSE "aborting", task[t].pc = "remarkAbort")
  /\ Goto(t, IF over THEN "free" ELSE "abort")
  /\ UNCHANGED <<adm, open, stored, lock, told>>

(* Success or NoSuchUpload; or an error that may hide a success. *)
AbortMinio(t) ==
  LET o == task[t].obj IN
  /\ task[t].pc = "abort"
  /\ \/ open' = open \ {o} /\ Goto(t, "recordAbort")
     \/ open' \in {open, open \ {o}} /\ Goto(t, "undoAbort")
  /\ UNCHANGED <<adm, session, stored, lock, told>>

AbortRecord(t) ==
  LET o == task[t].obj IN
  /\ task[t].pc = "recordAbort"
  /\ Valid(o, {"active", "completing", "aborting", "aborted"})
  /\ Put(o, "aborted", TRUE)
  /\ Goto(t, "free")
  /\ UNCHANGED <<adm, open, stored, lock, told>>

AbortUndo(t) ==
  /\ task[t].pc = "undoAbort"
  /\ Undo(task[t].obj, "aborting")
  /\ Unlock(t)
  /\ Finish(t)
  /\ UNCHANGED <<adm, open, stored, told>>

(* finalize_aborted_session, at the end of an abort or of a completion     *)
(* whose upload was missing.                                               *)
FreeAborted(t) ==
  LET o == task[t].obj IN
  /\ task[t].pc = "free"
  /\ session[o].present
  /\ Free(o)
  /\ Unlock(t)
  /\ Finish(t)
  /\ UNCHANGED <<open, stored, told>>

AbortStep(t) == \/ AbortTouch(t) \/ AbortMark(t) \/ AbortMinio(t)
                \/ AbortRecord(t) \/ AbortUndo(t) \/ FreeAborted(t)

-----------------------------------------------------------------------------
(***************************************************************************)
(* _cleanup_expired_compact_sessions_locked, run by the authority worker   *)
(* under the application lock (reconcile_usage_aggregate) and by a request *)
(* at the cap without it.  It lists the expired sessions, aborts all of    *)
(* their uploads, and then frees, one by one, those whose abort succeeded. *)
(***************************************************************************)
SweepBegin(t) ==
  /\ Acquire(t)
  /\ Start(t, NoObject, "scan")
  /\ UNCHANGED <<adm, session, open, stored, told>>

Expired == {o \in Objects : /\ session[o].present
                            /\ session[o].expired
                            /\ ~session[o].finalized}

(* A session without an upload id has nothing to abort in MinIO. *)
SweepScan(t) ==
  LET seen == {<<o, session[o].uploadId>> : o \in Expired} IN
  /\ task[t].pc = "scan"
  /\ task' = [task EXCEPT ![t].pc = "sweep",
                          ![t].found = {item \in seen : item[2]},
                          ![t].aborted = {item \in seen : ~item[2]}]
  /\ UNCHANGED <<adm, session, open, stored, lock, told>>

(* Mutant of SweepAbort: an upload that is gone is not one aborted. *)
SweepAbortOpen(t, item) ==
  /\ task[t].pc = "sweep" /\ item \in task[t].found
  /\ item[1] \in open
  /\ open' = open \ {item[1]}
  /\ task' = [task EXCEPT ![t].found = @ \ {item}, ![t].aborted = @ \cup {item}]
  /\ UNCHANGED <<adm, session, stored, lock, told>>

(* Aborted, or not there: to be freed. *)
SweepAbort(t, item) ==
  /\ task[t].pc = "sweep" /\ item \in task[t].found
  /\ open' = open \ {item[1]}
  /\ task' = [task EXCEPT ![t].found = @ \ {item}, ![t].aborted = @ \cup {item}]
  /\ UNCHANGED <<adm, session, stored, lock, told>>

(* Mutant of SweepSkip: a failed abort is freed like the others. *)
SweepSkipFreed(t, item) ==
  /\ task[t].pc = "sweep" /\ item \in task[t].found
  /\ open' \in {open, open \ {item[1]}}
  /\ task' = [task EXCEPT ![t].found = @ \ {item}, ![t].aborted = @ \cup {item}]
  /\ UNCHANGED <<adm, session, stored, lock, told>>

(* Any other answer: left alone. *)
SweepSkip(t, item) ==
  /\ task[t].pc = "sweep" /\ item \in task[t].found
  /\ open' \in {open, open \ {item[1]}}
  /\ task' = [task EXCEPT ![t].found = @ \ {item}]
  /\ UNCHANGED <<adm, session, stored, lock, told>>

(* finalize_aborted_session checks whose session it is, and nothing else.  *)
SweepFree(t, item) ==
  LET o == item[1]
      ours == session[o].present /\ session[o].uploadId = item[2]
  IN
  /\ task[t].pc = "sweep" /\ task[t].found = {} /\ item \in task[t].aborted
  /\ IF ours THEN Free(o) ELSE UNCHANGED <<adm, session>>
  /\ task' = [task EXCEPT ![t].aborted = @ \ {item},
                          ![t].reclaim = IF ours /\ @ = "tried" THEN "freed" ELSE @]
  /\ UNCHANGED <<open, stored, lock, told>>

(* A request that freed something looks at the counters again. *)
SweepEnd(t) ==
  /\ task[t].pc = "sweep" /\ task[t].found = {} /\ task[t].aborted = {}
  /\ IF task[t].reclaim = "freed" THEN Goto(t, "reserve") ELSE Finish(t)
  /\ Unlock(t)
  /\ UNCHANGED <<adm, session, open, stored, told>>

SweepStep(t) == \/ SweepScan(t) \/ SweepEnd(t)
                \/ \E item \in Seen : \/ SweepAbort(t, item) \/ SweepSkip(t, item)
                                      \/ SweepFree(t, item)

-----------------------------------------------------------------------------
(***************************************************************************)
(* What the tasks do not decide: the end of a request at any point (a      *)
(* refusal, an exhausted retry, a timeout after or before the write, a     *)
(* cancellation, a crash), a lock lost to its TTL while its holder still   *)
(* runs, the passing of expires_at, and the end of a session's lease.      *)
(***************************************************************************)
Stop(t) ==
  /\ task[t] # Idle
  /\ Finish(t)
  /\ Unlock(t)
  /\ UNCHANGED <<adm, session, open, stored, told>>

LoseLock ==
  /\ lock # NoTask
  /\ lock' = NoTask
  /\ UNCHANGED <<adm, session, open, stored, task, told>>

Expire(o) ==
  /\ session[o].present /\ ~session[o].expired
  /\ session' = [session EXCEPT ![o].expired = TRUE]
  /\ UNCHANGED <<adm, open, stored, lock, task, told>>

Lapse(o) ==
  /\ session[o].present /\ session[o].leased
  /\ session' = [session EXCEPT ![o] = [@ EXCEPT !.present = FALSE, !.expired = FALSE,
                                                 !.leased = FALSE]]
  /\ UNCHANGED <<adm, open, stored, lock, task, told>>

Begin(t) == \/ SweepBegin(t)
            \/ \E o \in Objects : InitBegin(t, o) \/ PartBegin(t, o)
                                  \/ CompleteBegin(t, o) \/ AbortBegin(t, o)

Step(t) == InitStep(t) \/ PartTouch(t) \/ CompleteStep(t) \/ AbortStep(t) \/ SweepStep(t)

Next == \/ \E t \in Tasks : Begin(t) \/ Step(t) \/ Stop(t)
        \/ \E o \in Objects : Expire(o) \/ Lapse(o)
        \/ LoseLock

Spec == Init /\ [][Next]_vars

(***************************************************************************)
(* A task goes on or ends, since every retry loop is bounded; time passes; *)
(* the scheduler starts the authority's pass again and again; and it is    *)
(* not the case that every pass dies, or finds MinIO failing, at the same  *)
(* upload.  Clients owe nothing.                                           *)
(***************************************************************************)
Fairness ==
  /\ \A t \in Tasks : WF_vars(Step(t) \/ Stop(t))
  /\ \A o \in Objects : WF_vars(Expire(o))
  /\ SF_vars(\E t \in Tasks : SweepBegin(t))
  /\ SF_vars(\E t \in Tasks : SweepScan(t))
  /\ \A item \in Seen : /\ SF_vars(\E t \in Tasks : SweepAbort(t, item))
                        /\ SF_vars(\E t \in Tasks : SweepFree(t, item))

FairSpec == Spec /\ Fairness

-----------------------------------------------------------------------------
(***************************************************************************)
(* What became of each upload's bytes, read off its session document.  A   *)
(* session whose lease ended keeps its last fate: the counters do.         *)
(***************************************************************************)
Fate == [o \in Objects |->
           CASE session[o].status = "absent" -> "none"
             [] session[o].status # "absent" /\ ~session[o].finalized -> "held"
             [] session[o].finalized /\ session[o].status = "completed" -> "charged"
             [] OTHER -> "freed"]

Ledger == INSTANCE QuotaLedger WITH ledger <- Fate

(* The two documents never disagree: the bytes and uploads the counters    *)
(* say are reserved are those of the sessions not settled yet, and the     *)
(* bytes in use are those of the sessions settled as completed.  The       *)
(* counters are moved by differences (quota.py: reserve, cancel, finalize) *)
(* and never recomputed, so one double or missed move would stay forever.  *)
CountersMatchSessions ==
  /\ adm.reserved = Bytes(Ledger!In("held"))
  /\ adm.count = Cardinality(Ledger!In("held"))
  /\ adm.active = Bytes(Ledger!In("charged"))

(* Concurrent regions cannot oversell: whatever block percentages the      *)
(* requests read, bytes in use and bytes reserved fit the quota, and the   *)
(* uploads in progress fit the cap (_reserve_upload_compact).              *)
NoOversell == adm.active + adm.reserved <= Quota /\ adm.count <= Cap

(* The application never pays for bytes that MinIO does not hold: bytes    *)
(* are charged only for an object that was assembled (multipart_complete). *)
ChargedIsStored == Ledger!In("charged") \subseteq stored

(* Every upload of the application is held at most once and settled at     *)
(* most once, whoever settles it: the completing request, a retry of it,   *)
(* an abort, the init that failed, or one of several sweeps.               *)
SettledOnce == Ledger!LedgerSpec

(* Bytes given back stay given back: once an upload's reservation has been *)
(* released without an object, no later step of any task assembles the     *)
(* object (the sweep aborts the upload in MinIO before it frees).          *)
FreedStaysUnstored ==
  [][\A o \in Ledger!In("freed") : o \in stored' => o \in stored]_vars

(* "Release a compact reservation and account committed bytes exactly      *)
(* once": an upload the client was told is complete has been charged.      *)
AnsweredIsCharged ==
  \A o \in Objects : told[o] = "completed" => Fate[o] = "charged"

(* The reservation of a completed object is kept until it is accounted:    *)
(* what MinIO holds is charged to the application or still reserved.       *)
StoredIsAccounted ==
  \A o \in stored : Fate[o] \in {"held", "charged"}

(* Abandoned uploads do not hold quota for ever: once no request works on  *)
(* an upload any more, its reservation is eventually settled, whatever     *)
(* state the last request left it in, or its session's lease has ended.    *)
AbandonedIsReclaimed ==
  \A o \in Objects : <>[](\A t \in Tasks : task[t].obj # o)
                       => <>[](Fate[o] = "held" => ~session[o].present)

(* Every reserved byte has a session that a sweep can find and reclaim.    *)
HeldHasSession == \A o \in Ledger!In("held") : session[o].present
=============================================================================
