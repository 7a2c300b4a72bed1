---------------------------- MODULE MCOperations ----------------------------
(***************************************************************************)
(* The background work of the agent on small instances: operations on      *)
(* storage and on Etcd, the removal of buckets, the index of the objects   *)
(* and the replication rules.  They share nothing but the regions, so one  *)
(* run has them side by side: `part' says which of them moves, the others  *)
(* stay as they start.                                                     *)
(***************************************************************************)
EXTENDS StorageOperation, BucketCleanup, FileInventory, EtcdTasks, ReplicationMesh, QuotaLimit, TLC

CONSTANTS Parts,     \* the parts that take turns
          raise      \* the administrator's change of a quota

VARIABLE part

OneRegion == [op \in Ops |-> Authority]
Raised == raise :> 2

\* A file in the root of a bucket, one in a directory beside it, one in both.
Flat == {<<"bucket", "file">>}
Nested == Flat \cup {<<"bucket", "directory", "file">>}
Sizes == [p \in Paths |-> Len(p)]

\* Removals, approvals and sites may each be exchanged for one another.
OperationsSymmetry == Permutations(Cleanups) \cup Permutations(Approvals) \cup Permutations(Sites)

\* A part that does not move starts in one state only.
OnlyOneStart ==
  /\ part # "cleanup" => \A r \in Regions : bucket[r] = "empty"
  /\ part # "inventory" => listed = {}

OperationsInit ==
  /\ part \in Parts
  /\ Init /\ CleanupInit /\ InventoryInit /\ EtcdTasksInit /\ MeshInit /\ LimitInit
  /\ OnlyOneStart

OperationsNext ==
  /\ UNCHANGED part
  /\ \/ part = "storage" /\ UNCHANGED <<bvars, ivars, etvars, rvars, lvars>> /\ Next
     \/ part = "cleanup" /\ UNCHANGED <<vars, ivars, etvars, rvars, lvars>> /\ CleanupNext
     \/ part = "inventory" /\ UNCHANGED <<vars, bvars, etvars, rvars, lvars>> /\ InventoryNext
     \/ part = "etcd" /\ UNCHANGED <<vars, bvars, ivars, rvars, lvars>> /\ EtcdTasksNext
     \/ part = "mesh" /\ UNCHANGED <<vars, bvars, ivars, etvars, lvars>> /\ MeshNext
     \/ part = "limit" /\ UNCHANGED <<vars, bvars, ivars, etvars, rvars>> /\ LimitNext

allvars == <<part, vars, bvars, ivars, etvars, rvars, lvars>>
OperationsSpec == OperationsInit /\ [][OperationsNext]_allvars

\* In a fair behaviour calls stop failing some day.
PartCalms ==
  /\ UNCHANGED part
  /\ \/ part = "inventory" /\ UNCHANGED <<vars, bvars, etvars, rvars, lvars>> /\ InventoryCalms
     \/ part = "mesh" /\ UNCHANGED <<vars, bvars, ivars, etvars, lvars>> /\ MeshCalms
     \/ part = "limit" /\ UNCHANGED <<vars, bvars, ivars, etvars, rvars>> /\ LimitCalm

\* The fairness of the part that moves.
OperationsFairness ==
  /\ \A op \in Ops : /\ WF_vars(part = "storage" /\ (ReqStep(op) \/ ReqStop(op)))
                     /\ WF_vars(part = "storage" /\ WatchRead(op))
                     /\ SF_vars(part = "storage" /\ WatchFail(op))
  /\ \A w \in Workers : WF_vars(part = "storage" /\ (RunStep(w) \/ RunCrash(w)))
  /\ WF_ivars(part = "inventory" /\ Ages)
  /\ \A s \in Syncs : /\ WF_ivars(part = "inventory" /\ SyncStep(s))
                      /\ WF_ivars(part = "inventory" /\ RunsOut(s))
                      /\ WF_ivars(part = "inventory" /\ SendSync(s, "beat"))
  /\ \A t \in Tasks : /\ WF_etvars(part = "etcd" /\ FindStale(t))
                      /\ WF_etvars(part = "etcd" /\ FailStale(t))
  /\ WF_rvars(part = "mesh" /\ BeginRepair) /\ WF_rvars(part = "mesh" /\ MeshLeaseLapses)
  /\ \A m \in Makers : WF_rvars(part = "mesh" /\ MeshStep(m))
  /\ \A s \in Sites : WF_rvars(part = "mesh" /\ EnsureLocal(s))
  /\ WF_lvars(part = "limit" /\ LimitCalm)
  /\ WF_lvars(part = "limit" /\ QuotaLeaseEnds) /\ WF_lvars(part = "limit" /\ RulesLeaseEnds)
  /\ \A u \in Updates : WF_lvars(part = "limit" /\ UpdateStep(u))
  /\ WF_lvars(part = "limit" /\ PassStep) /\ SF_lvars(part = "limit" /\ PassLock)
  /\ WF_lvars(part = "limit" /\ RepairStep) /\ SF_lvars(part = "limit" /\ RepairLimit)
  /\ \A r \in Regions : /\ WF_lvars(part = "limit" /\ PullLimit(r))
                        /\ WF_lvars(part = "limit" /\ ApplyLimit(r))

OperationsFairSpec ==
  OperationsInit /\ [][OperationsNext \/ PartCalms]_allvars /\ OperationsFairness

\* A state is told from others by the part that moves.
MovingPart ==
  CASE part = "storage" -> <<part, vars>>
    [] part = "cleanup" -> <<part, bvars>>
    [] part = "inventory" -> <<part, ivars>>
    [] part = "etcd" -> <<part, etvars>>
    [] part = "mesh" -> <<part, rvars>>
    [] part = "limit" -> <<part, lvars>>

\* Bound: the index after a lease ran out under its sync is not followed.
NoLapse == ~leaseLapsed

\* The variables of every part have their types.
OperationsTypesOK ==
  /\ part = "storage" => TypeOK
  /\ part = "cleanup" => CleanupTypeOK
  /\ part = "inventory" => InventoryTypeOK
  /\ part = "etcd" => EtcdTasksTypeOK
  /\ part = "mesh" => MeshTypeOK
  /\ part = "limit" => LimitTypeOK
=============================================================================
