---------------------------- MODULE FileInventory ----------------------------
(***************************************************************************)
(* The index of a server's objects: a listing of MinIO turned into rows    *)
(* for its files and the directories above them, kept in MongoDB under the *)
(* generation of the sync that wrote them, with one meta document naming   *)
(* the generation that is shown.  Syncs are started by the clock and by    *)
(* administrators; a lease in MongoDB is to keep them apart.               *)
(***************************************************************************)
EXTENDS Deployment, FiniteSets, Integers, Sequences, SequencesExt

CONSTANTS Paths,        \* the keys objects may have, as sequences of names
          SizeOf,       \* the bytes of each
          Syncs,        \* the worker's slots for syncs
          Generations,  \* uuids
          MaxRemains,   \* bounds the generations rows can be left of
          InsertBatch   \* _INSERT_BATCH

ASSUME InventoryConstants ==
  /\ Cardinality(Generations) > MaxRemains + Cardinality(Syncs)
  /\ InsertBatch \in Nat \ {0} /\ None \notin Syncs
\* A key has a bucket and a name in it.
ASSUME InventoryPaths ==
  /\ IsFiniteSet(Paths) /\ Paths \subseteq Seq(STRING) /\ \A p \in Paths : Len(p) > 1
  /\ SizeOf \in [Paths -> Nat]

VARIABLES listed,   \* the keys in MinIO
          rows,     \* server_file_node
          meta,     \* server_file_inventory_meta, or None
          fresh,    \* its fetched_at is within _fresh_window_seconds
          lease,    \* file_inventory_sync_lease: the sync that runs, or None
          sync,     \* the slots
          leaseLapsed,   \* (ghost) a lease ran out under its sync
          inventoryCalm  \* nothing fails or changes any more

ivars == <<listed, rows, meta, fresh, lease, sync, leaseLapsed, inventoryCalm>>

NoSync == [pc |-> "free"]
InventoryInit ==
  /\ listed \in SUBSET Paths /\ rows = {} /\ meta = None /\ fresh = FALSE /\ lease = None
  /\ sync = [s \in Syncs |-> NoSync] /\ leaseLapsed = FALSE /\ inventoryCalm = FALSE

SyncAt(s, pc) == sync[s].pc = pc
SyncTo(s, pc) == sync' = [sync EXCEPT ![s].pc = pc]

-----------------------------------------------------------------------------
(* build_inventory_documents goes through the listing once and adds every  *)
(* object to the directories on its way.                                   *)
Parent(p) == SubSeq(p, 1, Len(p) - 1)
Above(p) == {SubSeq(p, 1, n) : n \in 1 .. Len(p) - 1}
NewDir == [size |-> 0, count |-> 0, files |-> 0, dirs |-> {}]
Counted(dirs, p) ==
  LET seen == DOMAIN dirs \cup Above(p)
      dir(d) == IF d \in DOMAIN dirs THEN dirs[d] ELSE NewDir
  IN [d \in seen |->
       IF d \notin Above(p) THEN dirs[d]
       ELSE [size |-> dir(d).size + SizeOf[p], count |-> dir(d).count + 1,
             files |-> dir(d).files + IF d = Parent(p) THEN 1 ELSE 0,
             dirs |-> dir(d).dirs \cup {q \in Above(p) : Parent(q) = d}]]
Totals(objects) ==
  LET order == SetToSeq(objects)
      after[n \in 0 .. Len(order)] == IF n = 0 THEN <<>> ELSE Counted(after[n - 1], order[n])
  IN after[Len(order)]

FileRow(g, p) == [gen |-> g, kind |-> "file", key |-> p, size |-> SizeOf[p], count |-> 1, children |-> 0]
DirRow(g, p, d) == [gen |-> g, kind |-> "dir", key |-> p, size |-> d.size, count |-> d.count,
                    children |-> d.files + Cardinality(d.dirs)]
BuildRows(g, objects) ==
  LET dirs == Totals(objects)
  IN SetToSeq({DirRow(g, p, dirs[p]) : p \in DOMAIN dirs}) \o SetToSeq({FileRow(g, p) : p \in objects})
\* Their total is the number of their bytes.
BytesOf(objects) == Cardinality(UNION {{p} \X (1 .. SizeOf[p]) : p \in objects})

-----------------------------------------------------------------------------
Upload(p) == ~inventoryCalm /\ p \notin listed /\ listed' = listed \cup {p}
             /\ UNCHANGED <<rows, meta, fresh, lease, sync, leaseLapsed, inventoryCalm>>
Erase(p) == ~inventoryCalm /\ p \in listed /\ listed' = listed \ {p}
            /\ UNCHANGED <<rows, meta, fresh, lease, sync, leaseLapsed, inventoryCalm>>
Ages == fresh /\ fresh' = FALSE /\ UNCHANGED <<listed, rows, meta, lease, sync, leaseLapsed, inventoryCalm>>

\* Beat sends a sync whenever its time comes, a worker that starts its own; an
\* administrator's is refused while one is running (run_registered_task), but
\* that may have changed when the worker takes it.
SendSync(s, why) ==
  /\ SyncAt(s, "free")
  /\ (why = "manual" => lease = None) /\ (why = "bootstrap" => ~inventoryCalm)
  /\ sync' = [sync EXCEPT ![s] = [pc |-> "acquire", why |-> why]]
  /\ UNCHANGED <<listed, rows, meta, fresh, lease, leaseLapsed, inventoryCalm>>

\* try_acquire_lease: one find_one_and_update.
AcquireLease(s) ==
  /\ SyncAt(s, "acquire")
  /\ IF lease = None THEN lease' = s /\ SyncTo(s, "check")
     ELSE UNCHANGED lease /\ sync' = [sync EXCEPT ![s] = NoSync]
  /\ UNCHANGED <<listed, rows, meta, fresh, leaseLapsed, inventoryCalm>>

\* Mutant of Needless: a server with an index is not synced again.
NeedlessOnce(s) == meta # None

\* _sync_one_server
Needless(s) ==
  /\ meta # None
  /\ \/ sync[s].why = "bootstrap"
     \/ sync[s].why = "beat" /\ fresh
CheckMeta(s) ==
  /\ SyncAt(s, "check")
  /\ sync' = [sync EXCEPT ![s] = [pc |-> IF Needless(s) THEN "release" ELSE "list"]]
  /\ UNCHANGED <<listed, rows, meta, fresh, lease, leaseLapsed, inventoryCalm>>

FreshGenerations == {g \in Generations :
  /\ \A row \in rows : row.gen # g
  /\ meta # None => meta.gen # g
  /\ \A s \in Syncs : SyncAt(s, "insert") => sync[s].gen # g}
\* _sync_from_minio: the listing, its rows and totals under a new generation.
List(s) ==
  LET g == CHOOSE g \in FreshGenerations : TRUE
  IN /\ SyncAt(s, "list") /\ FreshGenerations # {}
     /\ sync' = [sync EXCEPT ![s] =
          [pc |-> "insert", gen |-> g, left |-> BuildRows(g, listed), size |-> BytesOf(listed),
           count |-> Cardinality(listed)]]
     /\ UNCHANGED <<listed, rows, meta, fresh, lease, leaseLapsed, inventoryCalm>>

\* _write_inventory: the rows, a batch at a time, the meta document, and the
\* rows of every other generation.
Insert(s) ==
  LET left == sync[s].left
      n == IF Len(left) < InsertBatch THEN Len(left) ELSE InsertBatch
  IN /\ SyncAt(s, "insert") /\ left # <<>>
     /\ rows' = rows \cup {left[i] : i \in 1 .. n}
     /\ sync' = [sync EXCEPT ![s].left = SubSeq(left, n + 1, Len(left))]
     /\ UNCHANGED <<listed, meta, fresh, lease, leaseLapsed, inventoryCalm>>
\* Mutant of ShowGeneration: shown before the last batch is written.
ShowEarly(s) ==
  /\ SyncAt(s, "insert")
  /\ meta' = [gen |-> sync[s].gen, size |-> sync[s].size, count |-> sync[s].count]
  /\ fresh' = TRUE
  /\ sync' = [sync EXCEPT ![s] = [pc |-> "purge", gen |-> sync[s].gen]]
  /\ UNCHANGED <<listed, rows, lease, leaseLapsed, inventoryCalm>>
ShowGeneration(s) ==
  /\ SyncAt(s, "insert") /\ sync[s].left = <<>>
  /\ meta' = [gen |-> sync[s].gen, size |-> sync[s].size, count |-> sync[s].count]
  /\ fresh' = TRUE
  /\ sync' = [sync EXCEPT ![s] = [pc |-> "purge", gen |-> sync[s].gen]]
  /\ UNCHANGED <<listed, rows, lease, leaseLapsed, inventoryCalm>>
PurgeOthers(s) ==
  /\ SyncAt(s, "purge") /\ rows' = {row \in rows : row.gen = sync[s].gen}
  /\ sync' = [sync EXCEPT ![s] = [pc |-> "release"]]
  /\ UNCHANGED <<listed, meta, fresh, lease, leaseLapsed, inventoryCalm>>

\* A call of the sync fails: what it has written stays.
MayFail == ~inventoryCalm /\ Cardinality({row.gen : row \in rows}) <= MaxRemains
SyncFails(s) ==
  /\ MayFail /\ sync[s].pc \in {"check", "list", "insert", "purge"}
  /\ sync' = [sync EXCEPT ![s] = [pc |-> "release"]]
  /\ UNCHANGED <<listed, rows, meta, fresh, lease, leaseLapsed, inventoryCalm>>
\* release_lease names the task: the lease of another sync stays.
ReleaseLease(s) ==
  /\ SyncAt(s, "release") /\ sync' = [sync EXCEPT ![s] = NoSync]
  /\ lease' = IF lease = s THEN None ELSE lease
  /\ UNCHANGED <<listed, rows, meta, fresh, leaseLapsed, inventoryCalm>>

\* The worker is killed; the lease runs out (while its sync still runs, unless
\* all is inventoryCalm).
SyncDies(s) ==
  /\ MayFail /\ ~SyncAt(s, "free") /\ sync' = [sync EXCEPT ![s] = NoSync]
  /\ UNCHANGED <<listed, rows, meta, fresh, lease, leaseLapsed, inventoryCalm>>
RunsOut(s) ==
  LET working == sync[s].pc \notin {"free", "acquire"}
  IN /\ lease = s /\ (inventoryCalm => ~working) /\ lease' = None
     /\ leaseLapsed' = (leaseLapsed \/ working)
     /\ UNCHANGED <<listed, rows, meta, fresh, sync, inventoryCalm>>

SyncStep(s) == \/ AcquireLease(s) \/ CheckMeta(s) \/ List(s) \/ Insert(s) \/ ShowGeneration(s)
               \/ PurgeOthers(s) \/ ReleaseLease(s)
Reasons == {"beat", "manual", "bootstrap"}
InventoryNext ==
  \/ \E p \in Paths : Upload(p) \/ Erase(p)
  \/ Ages
  \/ \E s \in Syncs : \/ \E why \in Reasons : SendSync(s, why)
                      \/ SyncStep(s) \/ SyncFails(s) \/ SyncDies(s) \/ RunsOut(s)
InventoryCalms == ~inventoryCalm /\ inventoryCalm' = TRUE /\ UNCHANGED <<listed, rows, meta, fresh, lease, sync, leaseLapsed>>

\* Beat keeps sending, the worker keeps working, leases run out in the end.
InventoryFairness ==
  /\ WF_ivars(Ages)
  /\ \A s \in Syncs : /\ WF_ivars(SyncStep(s)) /\ WF_ivars(RunsOut(s))
                      /\ WF_ivars(SendSync(s, "beat"))

InventorySpec == InventoryInit /\ [][InventoryNext]_ivars
InventoryFairSpec == InventoryInit /\ [][InventoryNext \/ InventoryCalms]_ivars /\ InventoryFairness

-----------------------------------------------------------------------------
InventoryTypeOK ==
  /\ listed \subseteq Paths /\ fresh \in BOOLEAN /\ lease \in Syncs \cup {None}
  /\ \A row \in rows : row.gen \in Generations /\ row.kind \in {"file", "dir"}
  /\ meta = None \/ meta \in [gen : Generations, size : Nat, count : Nat]
  /\ \A s \in Syncs : sync[s].pc \in {"free", "acquire", "check", "list", "insert", "purge", "release"}

ShownRows == {row \in rows : meta # None /\ row.gen = meta.gen}
ShownFiles == {row.key : row \in {row \in ShownRows : row.kind = "file"}}
AddsUp(row, files) ==
  /\ row.count = Cardinality(files)
  /\ row.size = BytesOf(files)
Beneath(d) == {p \in ShownFiles : d \in Above(p)}

\* What is shown is whole: the rows of the generation the meta document names
\* are all there and add up to its totals, every directory on the way to a
\* file is shown, and a directory's bytes, objects and children are those
\* beneath it - whatever syncs failed or died, unless one outlived its lease.
IndexIsWhole ==
  ~leaseLapsed /\ meta # None =>
    /\ AddsUp(meta, ShownFiles)
    /\ UNION {Above(p) : p \in ShownFiles} = {row.key : row \in {row \in ShownRows : row.kind = "dir"}}
    /\ \A row \in ShownRows : row.kind = "dir" =>
         /\ AddsUp(row, Beneath(row.key))
         /\ row.children = Cardinality({child \in ShownRows : child.key # <<>> /\ Parent(child.key) = row.key})

\* Once nothing fails any more and the objects no longer change, the index
\* comes to show them and goes on to, whatever overlapping syncs had left.
IndexCatchesUp == <>[](inventoryCalm => meta # None /\ ShownFiles = listed)
=============================================================================
