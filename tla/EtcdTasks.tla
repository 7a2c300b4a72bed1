------------------------------ MODULE EtcdTasks ------------------------------
(***************************************************************************)
(* Maintenance of the Etcd cluster as background tasks: the request saves  *)
(* the task and sends it to a worker, or runs it itself when that fails;   *)
(* whoever runs it claims it first; a watchdog fails the tasks nobody has  *)
(* claimed or finished in time.  All but the claim save the whole document *)
(* from the copy they hold.                                                *)
(***************************************************************************)
EXTENDS Deployment, Integers

CONSTANTS Tasks,          \* the tasks that are created
          Runners,        \* who may run one: a worker, or the request itself
          Members,        \* the endpoints of the cluster
          MaxDeliveries   \* bounds how often one is sent, also by the broker

ASSUME DeliveriesBound == MaxDeliveries \in Nat \ {0}
ASSUME MembersThere == Members # {}

VARIABLES task,       \* etcd_operation_task
          asking,     \* the requests that create them
          sent,       \* the messages and local runs still to be taken
          everSent,   \* how many there have been
          worker,     \* who runs what, with the copy of the task it holds
          verdict,    \* the watchdog's copy of a task, or None
          ran,        \* (ghost) the tasks' effects: at which members how often
          rewound     \* (ghost) a copy of the request was saved over a claim or an end

etvars == <<task, asking, sent, everSent, worker, verdict, ran, rewound>>

Kinds == {"keyspace", "compact", "defrag", "alarm-disarm"}
\* Keyspace and compact ask the first endpoint, the others every one.
Targets(k) == IF k \in {"keyspace", "compact"} THEN {CHOOSE m \in Members : TRUE} ELSE Members
IdleWorker == [task |-> None]
Final == {"succeeded", "failed"}
NewTask(k) == [kind |-> k, status |-> "queued", tracked |-> FALSE, recovery |-> FALSE]
TaskOver(t) == task[t] # None /\ task[t].status \in Final

EtcdTasksInit ==
  /\ task = [t \in Tasks |-> None] /\ asking = [t \in Tasks |-> "new"]
  /\ sent = [t \in Tasks |-> 0] /\ everSent = [t \in Tasks |-> 0]
  /\ worker = [w \in Runners |-> IdleWorker] /\ verdict = [t \in Tasks |-> None]
  /\ ran = [t \in Tasks |-> [m \in Members |-> 0]] /\ rewound = {}

AskTo(t, pc) == asking' = [asking EXCEPT ![t] = pc]
SaveTask(t, doc) == task' = [task EXCEPT ![t] = doc]
Deliver(t) ==
  /\ everSent[t] < MaxDeliveries
  /\ sent' = [sent EXCEPT ![t] = @ + 1] /\ everSent' = [everSent EXCEPT ![t] = @ + 1]

-----------------------------------------------------------------------------
(* create_task: inserted, saved with the time of its dispatch, dispatched, *)
(* saved with the message's id.                                            *)
CreateTask(t, k) ==
  /\ asking[t] = "new" /\ SaveTask(t, NewTask(k)) /\ AskTo(t, "dispatch")
  /\ UNCHANGED <<sent, everSent, worker, verdict, ran, rewound>>
RequestSaves(t, tracked) ==
  /\ SaveTask(t, [NewTask(task[t].kind) EXCEPT !.tracked = tracked])
  /\ rewound' = IF task[t].status # "queued" THEN rewound \cup {t} ELSE rewound
SaveDispatch(t) ==
  /\ asking[t] = "dispatch" /\ RequestSaves(t, FALSE) /\ AskTo(t, "send")
  /\ UNCHANGED <<sent, everSent, worker, verdict, ran>>
\* Without Celery the request runs the task itself, and so it does when the
\* broker's answer is lost or the id cannot be saved, whether or not a worker
\* has the message.
SendTask(t) ==
  /\ asking[t] = "send" /\ Deliver(t) /\ asking' \in {[asking EXCEPT ![t] = pc] : pc \in {"track", "runAlso", "answered"}}
  /\ UNCHANGED <<task, worker, verdict, ran, rewound>>
SaveMessageId(t) ==
  /\ asking[t] = "track"
  /\ \/ RequestSaves(t, TRUE) /\ AskTo(t, "answered")
     \/ UNCHANGED <<task, rewound>> /\ AskTo(t, "runAlso")
  /\ UNCHANGED <<sent, everSent, worker, verdict, ran>>
RunAlso(t) ==
  /\ asking[t] = "runAlso" /\ Deliver(t) /\ AskTo(t, "answered")
  /\ UNCHANGED <<task, worker, verdict, ran, rewound>>
RequestDies(t) ==
  /\ asking[t] \notin {"new", "answered"} /\ AskTo(t, "answered")
  /\ UNCHANGED <<task, sent, everSent, worker, verdict, ran, rewound>>
\* The broker delivers at least once; a message can be lost with its worker.
Redeliver(t) ==
  /\ everSent[t] > 0 /\ Deliver(t)
  /\ UNCHANGED <<task, asking, worker, verdict, ran, rewound>>

-----------------------------------------------------------------------------
(* _execute_task: a task that runs or has ended is skipped, one that is    *)
(* queued is claimed with one update.                                      *)
WorkerTo(w, pc) == worker' = [worker EXCEPT ![w].pc = pc]
TakeTask(w, t) ==
  /\ worker[w] = IdleWorker /\ sent[t] > 0 /\ sent' = [sent EXCEPT ![t] = @ - 1]
  /\ worker' = [worker EXCEPT ![w] = IF task[t].status = "queued" THEN [task |-> t, pc |-> "claim"] ELSE IdleWorker]
  /\ UNCHANGED <<task, asking, everSent, verdict, ran, rewound>>
\* Mutant of ClaimTask: claimed whatever its status has become.
ClaimRegardless(w) ==
  LET t == worker[w].task  running == [task[t] EXCEPT !.status = "running"]
  IN /\ worker[w] # IdleWorker /\ worker[w].pc = "claim"
     /\ SaveTask(t, running)
     /\ worker' = [worker EXCEPT ![w] =
          [task |-> t, pc |-> "run", copy |-> running, left |-> Targets(running.kind), clean |-> TRUE]]
     /\ UNCHANGED <<asking, sent, everSent, verdict, ran, rewound>>
ClaimTask(w) ==
  LET t == worker[w].task  running == [task[t] EXCEPT !.status = "running"]
  IN /\ worker[w] # IdleWorker /\ worker[w].pc = "claim"
     /\ IF task[t].status = "queued"
        THEN /\ SaveTask(t, running)
             /\ worker' = [worker EXCEPT ![w] =
                  [task |-> t, pc |-> "run", copy |-> running, left |-> Targets(running.kind), clean |-> TRUE]]
        ELSE UNCHANGED task /\ worker' = [worker EXCEPT ![w] = IdleWorker]
     /\ UNCHANGED <<asking, sent, everSent, verdict, ran, rewound>>
\* The call to one member is carried out or not, answered or not.
CallMember(w) ==
  LET job == worker[w]  t == job.task
  IN /\ job # IdleWorker /\ job.pc = "run" /\ job.left # {}
     /\ \E m \in job.left, done \in BOOLEAN, answered \in BOOLEAN :
          /\ answered => done
          /\ ran' = IF done THEN [ran EXCEPT ![t][m] = @ + 1] ELSE ran
          /\ worker' = [worker EXCEPT ![w].left = @ \ {m}, ![w].clean = @ /\ answered]
     /\ UNCHANGED <<task, asking, sent, everSent, verdict, rewound>>
\* defrag and disarm_alarm note their members' errors in the result; keyspace
\* and compact raise them.
EndTask(w) ==
  LET job == worker[w]
      failed == ~job.clean /\ job.copy.kind \in {"keyspace", "compact"}
  IN /\ job # IdleWorker /\ job.pc = "run" /\ job.left = {}
     /\ SaveTask(job.task, [job.copy EXCEPT
          !.status = IF failed THEN "failed" ELSE "succeeded",
          !.recovery = @ \/ (failed /\ job.copy.kind # "keyspace")])
     /\ worker' = [worker EXCEPT ![w] = IdleWorker]
     /\ UNCHANGED <<asking, sent, everSent, verdict, ran, rewound>>
WorkerDies(w) ==
  /\ worker[w] # IdleWorker /\ worker' = [worker EXCEPT ![w] = IdleWorker]
  /\ UNCHANGED <<task, asking, sent, everSent, verdict, ran, rewound>>

\* Mutant of FindStale: only tasks that wait are looked for.
FindQueued(t) ==
  /\ verdict[t] = None /\ task[t] # None /\ task[t].status = "queued"
  /\ verdict' = [verdict EXCEPT ![t] = [task[t] EXCEPT !.status = "failed", !.recovery = TRUE]]
  /\ UNCHANGED <<task, asking, sent, everSent, worker, ran, rewound>>

\* recover_stale_tasks_once reads the tasks whose time is over and saves each
\* as failed, as it was read.
FindStale(t) ==
  /\ verdict[t] = None /\ task[t] # None /\ ~TaskOver(t)
  /\ verdict' = [verdict EXCEPT ![t] = [task[t] EXCEPT !.status = "failed", !.recovery = TRUE]]
  /\ UNCHANGED <<task, asking, sent, everSent, worker, ran, rewound>>
FailStale(t) ==
  /\ verdict[t] # None /\ SaveTask(t, verdict[t]) /\ verdict' = [verdict EXCEPT ![t] = None]
  /\ UNCHANGED <<asking, sent, everSent, worker, ran, rewound>>

EtcdTaskStep(w) == ClaimTask(w) \/ CallMember(w) \/ EndTask(w)
EtcdTasksNext ==
  \/ \E t \in Tasks : \/ \E k \in Kinds : CreateTask(t, k)
                      \/ SaveDispatch(t) \/ SendTask(t) \/ SaveMessageId(t) \/ RunAlso(t) \/ RequestDies(t)
                      \/ Redeliver(t) \/ FindStale(t) \/ FailStale(t)
  \/ \E w \in Runners : EtcdTaskStep(w) \/ WorkerDies(w) \/ \E t \in Tasks : TakeTask(w, t)

\* The watchdog comes back every minute.
EtcdTasksFairness == \A t \in Tasks : WF_etvars(FindStale(t)) /\ WF_etvars(FailStale(t))

EtcdTasksSpec == EtcdTasksInit /\ [][EtcdTasksNext]_etvars
EtcdTasksFairSpec == EtcdTasksSpec /\ EtcdTasksFairness

-----------------------------------------------------------------------------
EtcdTasksTypeOK ==
  /\ \A t \in Tasks : task[t] = None \/ task[t] \in
       [kind : Kinds, status : {"queued", "running"} \cup Final, tracked : BOOLEAN, recovery : BOOLEAN]
  /\ asking \in [Tasks -> {"new", "dispatch", "send", "track", "runAlso", "answered"}]
  /\ sent \in [Tasks -> 0 .. MaxDeliveries] /\ everSent \in [Tasks -> 0 .. MaxDeliveries]
  /\ \A w \in Runners : worker[w].task \in Tasks \cup {None}
  /\ ran \in [Tasks -> [Members -> Nat]] /\ rewound \subseteq Tasks

\* Whatever is delivered twice, run by the request as well, or failed by the
\* watchdog while it runs: no member is called twice for a task, unless the
\* request has saved its copy over a claim or an end; and a compaction that is
\* over and needs no recovery was carried out.
EffectOnce == \A t \in Tasks :
  /\ \A m \in Members : ran[t][m] > 1 => t \in rewound
  /\ TaskOver(t) /\ task[t].kind = "compact" /\ ~task[t].recovery =>
       \A m \in Targets("compact") : ran[t][m] > 0

\* Every task ends, and stays ended, whoever dies.
EveryTaskEnds == \A t \in Tasks : <>[](task[t] # None => TaskOver(t))
=============================================================================
