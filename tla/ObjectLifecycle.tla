-------------------------- MODULE ObjectLifecycle --------------------------
(***************************************************************************)
(* The objects of one application in the region that stores them: a row    *)
(* per object key in the MongoDB catalog, the version of it that MinIO     *)
(* holds, the copies in the archive bucket, and the bytes charged to the   *)
(* application, which are counted twice: in the compact admission document *)
(* and in the legacy one.  Every object has one byte.  A key is generated  *)
(* for one upload, so an object has one version, but any number of requests*)
(* may complete its upload.                                                *)
(*                                                                         *)
(* Deletes, restores, archiving and the usage reconciliation take the      *)
(* application lock; a completed upload writes its row without it.  A row  *)
(* is saved as a whole document, as it was when it was read.               *)
(***************************************************************************)
EXTENDS Deployment, FiniteSets, Integers

CONSTANTS Keys,        \* object keys
          Callers,     \* the requests and archive workers
          Room,        \* the quota, in objects
          MaxCalls     \* the callers that may be at work at once

Gone == {"soft_deleted", "archive_pending", "archived", "archive_failed"}
Rows == [state : Gone \cup {"active"}, gen : Nat, over : BOOLEAN, waiting : BOOLEAN]

ASSUME LifecycleConstants ==
  /\ IsFiniteSet(Keys) /\ Room \in Nat
  /\ None \notin Callers /\ None \notin Rows

VARIABLES catalog,     \* object_catalog, per key
          source,      \* the keys in the application's bucket
          archive,     \* <<key, generation>> in the archive bucket
          completed,   \* the keys whose upload session is completed, and charged
          compact,     \* active_usage_bytes of the admission document
          legacy,      \* active_usage_bytes of the legacy document
          appLock,     \* application_quota_lock
          call,
          slipped,     \* (ghost) a change of both ledgers stopped half-way, or lost the lock
          revived      \* (ghost) the deleted objects that a repeated completion showed again

ovars == <<catalog, source, archive, completed, compact, legacy, appLock, call, slipped, revived>>
ghosts == <<slipped, revived>>

NewRow(g) == [state |-> "active", gen |-> g, over |-> FALSE, waiting |-> FALSE]
Active == {k \in Keys : catalog[k] # None /\ catalog[k].state = "active"}

LifecycleInit ==
  /\ completed \in SUBSET Keys /\ source = completed /\ archive = {}
  /\ catalog = [k \in Keys |-> IF k \in completed THEN NewRow(0) ELSE None]
  /\ compact = Cardinality(completed) /\ compact <= Room /\ legacy \in {0, compact}
  /\ appLock = None /\ slipped = FALSE /\ revived = 0
  /\ call = [c \in Callers |-> [pc |-> "new"]]

In(c, pc) == call[c].pc = pc
Next1(c, pc) == call' = [call EXCEPT ![c].pc = pc]
Over(c) == call' = [call EXCEPT ![c] = [pc |-> "over"]] /\ appLock' = IF appLock = c THEN None ELSE appLock
Key(c) == call[c].key
Row(c) == call[c].row
SaveRow(c, row) == catalog' = [catalog EXCEPT ![Key(c)] = row]
MayCall == Cardinality({c \in Callers : call[c].pc \notin {"new", "over"}}) < MaxCalls
Open(c, pc, k) ==
  /\ In(c, "new") /\ MayCall
  /\ call' = [call EXCEPT ![c] = [pc |-> pc, key |-> k, row |-> catalog[k]]]

Lock(c, pc, next) ==
  /\ In(c, pc) /\ appLock = None
  /\ appLock' = c /\ Next1(c, next)
  /\ UNCHANGED <<catalog, source, archive, completed, compact, legacy, ghosts>>

-----------------------------------------------------------------------------
(* multipart_complete.  Requests may complete one upload at once: while    *)
(* the session is not completed, each has MinIO assemble the object, or    *)
(* finds it there; each records the completion, and the first is charged   *)
(* for it (its reservation held the room); then, without the lock, each    *)
(* does upsert_completed_object.                                           *)
Complete(c, k) ==
  /\ k \notin completed /\ appLock = None
  /\ Open(c, "complete", k)
  /\ source' = source \cup {k}
  /\ UNCHANGED <<catalog, archive, completed, compact, legacy, appLock, ghosts>>
RecordCompleted(c) ==
  /\ In(c, "complete") /\ appLock = None
  /\ completed' = completed \cup {Key(c)}
  /\ IF Key(c) \in completed THEN UNCHANGED compact ELSE compact < Room /\ compact' = compact + 1
  /\ Next1(c, "row")
  /\ UNCHANGED <<catalog, source, archive, legacy, appLock, ghosts>>
ReadRow(c) ==
  /\ In(c, "row")
  /\ call' = [call EXCEPT ![c].pc = "upsert", ![c].row = catalog[Key(c)]]
  /\ UNCHANGED <<catalog, source, archive, completed, compact, legacy, appLock, ghosts>>
\* Of two rows inserted for one key the unique index refuses the second.
Upsert(c) ==
  LET seen == Row(c)
      row == catalog[Key(c)]
  IN /\ In(c, "upsert")
     /\ IF seen = None /\ row # None THEN UNCHANGED catalog
        ELSE SaveRow(c, NewRow(IF seen = None THEN 0 ELSE seen.gen + 1))
     /\ revived' = IF seen # None /\ row.state \in Gone THEN revived + 1 ELSE revived
     /\ Over(c)
     /\ UNCHANGED <<source, archive, completed, compact, legacy, slipped>>

-----------------------------------------------------------------------------
(* DELETE: the row is read, then the lock taken, the row found again and   *)
(* saved with the generation read first, then the bytes given back in the  *)
(* one ledger and in the other.                                            *)
Delete(c, k) ==
  /\ k \in Active /\ Open(c, "delete", k)
  /\ UNCHANGED <<catalog, source, archive, completed, compact, legacy, appLock, ghosts>>
\* Mutant of DeleteFind: the row is not looked at again under the lock.
DeleteAgain(c) ==
  LET row == catalog[Key(c)]
  IN /\ In(c, "locked")
     /\ call' = [call EXCEPT ![c].pc = "hide",
                       ![c].row = [row EXCEPT !.state = "soft_deleted", !.gen = Row(c).gen + 1,
                                              !.over = FALSE, !.waiting = FALSE]]
     /\ UNCHANGED <<catalog, source, archive, completed, compact, legacy, appLock, ghosts>>
DeleteFind(c) ==
  LET row == catalog[Key(c)]
  IN /\ In(c, "locked")
     /\ IF row.state # "active" THEN Over(c)
        ELSE /\ call' = [call EXCEPT ![c].pc = "hide",
                           ![c].row = [row EXCEPT !.state = "soft_deleted", !.gen = Row(c).gen + 1,
                                                  !.over = FALSE, !.waiting = FALSE]]
             /\ UNCHANGED appLock
     /\ UNCHANGED <<catalog, source, archive, completed, compact, legacy, ghosts>>
Hide(c) ==
  /\ In(c, "hide") /\ SaveRow(c, Row(c)) /\ Next1(c, "release")
  /\ UNCHANGED <<source, archive, completed, compact, legacy, appLock, ghosts>>

\* Mutant of Less: the counter may go below zero.
LessAnyway(n) == n - 1
Less(n) == IF n = 0 THEN 0 ELSE n - 1
\* Mutant of ReleaseCompact: the bytes are given back in the one ledger only.
ReleaseCompactOnly(c) ==
  /\ In(c, "release")
  /\ \/ compact' = Less(compact) /\ Over(c)
     \/ UNCHANGED <<compact, appLock>> /\ Next1(c, "show")
  /\ UNCHANGED <<catalog, source, archive, completed, legacy, ghosts>>

\* mark_object_deleted_locked, in its two writes; a failure shows the object
\* again, whatever has been given back.
ReleaseCompact(c) ==
  /\ In(c, "release")
  /\ \/ compact' = Less(compact) /\ Next1(c, "releaseLegacy")
     \/ UNCHANGED compact /\ Next1(c, "show")
  /\ UNCHANGED <<catalog, source, archive, completed, legacy, appLock, ghosts>>
ReleaseLegacy(c) ==
  /\ In(c, "releaseLegacy")
  /\ \/ legacy' = Less(legacy) /\ Over(c) /\ UNCHANGED slipped
     \/ UNCHANGED <<legacy, appLock>> /\ slipped' = TRUE /\ Next1(c, "show")
  /\ UNCHANGED <<catalog, source, archive, completed, compact, revived>>
Show(c) ==
  LET row == catalog[Key(c)]
  IN /\ In(c, "show")
     /\ catalog' \in {catalog, IF row.state # "soft_deleted" THEN catalog
                               ELSE [catalog EXCEPT ![Key(c)] = NewRow(row.gen)]}
     /\ Over(c)
     /\ UNCHANGED <<source, archive, completed, compact, legacy, ghosts>>

-----------------------------------------------------------------------------
(* POST restore: the bytes are taken back in both ledgers, each against    *)
(* the quota, and then the row is saved as active.                         *)
Restorable(row) == row # None /\ row.state \in Gone /\ ~row.over
Restore(c, k) ==
  /\ Restorable(catalog[k]) /\ Open(c, "restore", k)
  /\ UNCHANGED <<catalog, source, archive, completed, compact, legacy, appLock, ghosts>>
\* Mutant of RestoreCheck: the row is not looked at again under the lock.
RestoreUnchecked(c) ==
  /\ In(c, "again") /\ Next1(c, "charge")
  /\ UNCHANGED <<catalog, source, archive, completed, compact, legacy, appLock, ghosts>>
RestoreCheck(c) ==
  /\ In(c, "again")
  /\ IF Restorable(catalog[Key(c)])
     THEN Next1(c, "charge") /\ UNCHANGED appLock ELSE Over(c)
  /\ UNCHANGED <<catalog, source, archive, completed, compact, legacy, ghosts>>
ChargeCompact(c) ==
  /\ In(c, "charge")
  /\ \/ compact < Room /\ compact' = compact + 1 /\ Next1(c, "chargeLegacy") /\ UNCHANGED appLock
     \/ UNCHANGED compact /\ Over(c)
  /\ UNCHANGED <<catalog, source, archive, completed, legacy, ghosts>>
\* Over the quota or unreachable, this one is refused with the other kept.
ChargeLegacy(c) ==
  /\ In(c, "chargeLegacy")
  /\ \/ legacy < Room /\ legacy' = legacy + 1 /\ Next1(c, "find") /\ UNCHANGED <<appLock, slipped>>
     \/ UNCHANGED legacy /\ slipped' = TRUE /\ Over(c)
  /\ UNCHANGED <<catalog, source, archive, completed, compact, revived>>
RestoreFind(c) ==
  LET row == catalog[Key(c)]
  IN /\ In(c, "find")
     /\ call' = IF row.state \in Gone
                THEN [call EXCEPT ![c].pc = "return", ![c].row = [row EXCEPT !.state = "active", !.over = FALSE, !.waiting = FALSE]]
                ELSE [call EXCEPT ![c].pc = "takeBack"]
     /\ UNCHANGED <<catalog, source, archive, completed, compact, legacy, appLock, ghosts>>
Return(c) ==
  /\ In(c, "return") /\ SaveRow(c, Row(c)) /\ Over(c)
  /\ UNCHANGED <<source, archive, completed, compact, legacy, ghosts>>
\* The row is active already: the bytes are given back.
TakeBack(c) ==
  /\ In(c, "takeBack")
  /\ compact' = Less(compact) /\ legacy' = Less(legacy) /\ Over(c)
  /\ UNCHANGED <<catalog, source, archive, completed, ghosts>>

-----------------------------------------------------------------------------
(* Time: the recovery window ends, days after every request that deletes   *)
(* the object, or still completes its upload; and a failed or abandoned    *)
(* archive attempt becomes due again.                                      *)
Brief == {"complete", "row", "upsert", "delete", "locked", "hide", "release", "releaseLegacy", "show"}
WindowEnds(k) ==
  /\ catalog[k] # None
  /\ catalog[k].state \in Gone /\ ~catalog[k].over
  /\ \A c \in Callers : call[c].pc \in Brief => Key(c) # k
  /\ catalog' = [catalog EXCEPT ![k].over = TRUE]
  /\ UNCHANGED <<source, archive, completed, compact, legacy, appLock, call, ghosts>>
RetryDue(k) ==
  /\ catalog[k] # None
  /\ catalog[k].waiting
  /\ catalog' = [catalog EXCEPT ![k].waiting = FALSE]
  /\ UNCHANGED <<source, archive, completed, compact, legacy, appLock, call, ghosts>>

\* claim_expired_object_for_archive: one atomic update, without the lock.
ArchiveClaim(c, k) ==
  /\ catalog[k] # None
  /\ catalog[k].state \in {"soft_deleted", "archive_pending", "archive_failed"}
  /\ catalog[k].over /\ ~catalog[k].waiting
  /\ In(c, "new") /\ MayCall
  /\ LET row == [catalog[k] EXCEPT !.state = "archive_pending", !.waiting = TRUE]
     IN /\ catalog' = [catalog EXCEPT ![k] = row]
        /\ call' = [call EXCEPT ![c] = [pc |-> "archive", key |-> k, row |-> row,
                                              name |-> row.gen, alone |-> FALSE]]
  /\ UNCHANGED <<source, archive, completed, compact, legacy, appLock, ghosts>>
\* Under the lock the row is read again.
ArchiveCheck(c) ==
  LET row == catalog[Key(c)]
  IN /\ In(c, "pending")
     /\ IF row.state = "archive_pending" /\ row.over
        THEN call' = [call EXCEPT ![c].pc = "copy", ![c].row = row] /\ UNCHANGED appLock
        ELSE Over(c)
     /\ UNCHANGED <<catalog, source, archive, completed, compact, legacy, ghosts>>

\* _copy_then_remove: an archive copy there already is not written again.
Copied(c) == <<Key(c), call[c].name>> \in archive
Copy(c) ==
  /\ In(c, "copy")
  /\ \/ /\ Key(c) \in source
        /\ archive' = archive \cup {<<Key(c), call[c].name>>} /\ Next1(c, "remove")
     \/ Key(c) \notin source /\ Copied(c) /\ UNCHANGED archive /\ Next1(c, "archived")
     \/ UNCHANGED archive /\ Next1(c, "failed")
  /\ UNCHANGED <<catalog, source, completed, compact, legacy, appLock, ghosts>>
Remove(c) ==
  /\ In(c, "remove")
  /\ \/ source' = source \ {Key(c)} /\ \E pc \in {"archived", "failed"} : Next1(c, pc)
     \/ UNCHANGED source /\ Next1(c, "failed")
  /\ UNCHANGED <<catalog, archive, completed, compact, legacy, appLock, ghosts>>
SaveArchived(c) ==
  /\ call[c].pc \in {"archived", "failed"} /\ ~call[c].alone
  /\ SaveRow(c, [Row(c) EXCEPT !.state = IF In(c, "archived") THEN "archived" ELSE "archive_failed"])
  /\ Over(c)
  /\ UNCHANGED <<source, archive, completed, compact, legacy, ghosts>>

-----------------------------------------------------------------------------
\* reconcile_usage_aggregate, under the lock: the larger usage stays.
Reconcile ==
  /\ appLock = None /\ legacy > compact
  /\ compact' = legacy
  /\ UNCHANGED <<catalog, source, archive, completed, legacy, appLock, call, ghosts>>

\* The process of a call stops, or the call is cancelled because its lock was
\* lost; only ordinary errors are compensated.
Both == {"releaseLegacy", "chargeLegacy"}
Stop(c) ==
  /\ call[c].pc \notin {"new", "over"}
  /\ slipped' = (slipped \/ call[c].pc \in Both)
  /\ Over(c)
  /\ UNCHANGED <<catalog, source, archive, completed, compact, legacy, revived>>

\* The lease of the lock ends; the holder goes on until it is cancelled.  An
\* archiving that has looked at its row again needs the lock no more.
Archiving == {"copy", "remove", "archived", "failed"}
LeaseLapses ==
  /\ appLock # None /\ appLock' = None
  /\ slipped' = (slipped \/ call[appLock].pc \notin Archiving)
  /\ UNCHANGED <<catalog, source, archive, completed, compact, legacy, call, revived>>

\* A cancelled archiving leaves its thread copying and removing.
Abandon(c) ==
  /\ call[c].pc \in {"copy", "remove"} /\ ~call[c].alone
  /\ call' = [call EXCEPT ![c].alone = TRUE]
  /\ appLock' = IF appLock = c THEN None ELSE appLock
  /\ UNCHANGED <<catalog, source, archive, completed, compact, legacy, ghosts>>

CallStep(c) ==
  \/ RecordCompleted(c) \/ ReadRow(c) \/ Upsert(c)
  \/ Lock(c, "delete", "locked") \/ DeleteFind(c) \/ Hide(c) \/ ReleaseCompact(c) \/ ReleaseLegacy(c) \/ Show(c)
  \/ Lock(c, "restore", "again") \/ RestoreCheck(c) \/ ChargeCompact(c) \/ ChargeLegacy(c)
  \/ RestoreFind(c) \/ Return(c) \/ TakeBack(c)
  \/ Lock(c, "archive", "pending") \/ ArchiveCheck(c) \/ Copy(c) \/ Remove(c) \/ SaveArchived(c)

LifecycleNext ==
  \/ \E c \in Callers, k \in Keys : Complete(c, k) \/ Delete(c, k) \/ Restore(c, k) \/ ArchiveClaim(c, k)
  \/ \E c \in Callers : CallStep(c) \/ Stop(c) \/ Abandon(c)
  \/ \E k \in Keys : WindowEnds(k) \/ RetryDue(k)
  \/ Reconcile \/ LeaseLapses

LifecycleSpec == LifecycleInit /\ [][LifecycleNext]_ovars

-----------------------------------------------------------------------------
LifecycleTypeOK ==
  /\ catalog \in [Keys -> Rows \cup {None}]
  /\ source \subseteq Keys /\ completed \subseteq Keys /\ archive \subseteq Keys \X Nat
  /\ compact \in 0..Room /\ legacy \in 0..Room
  /\ appLock \in Callers \cup {None} /\ slipped \in BOOLEAN /\ revived \in Nat
  /\ \A c \in Callers : call[c].pc \notin {"new", "over"} => Key(c) \in Keys /\ Row(c) \in Rows \cup {None}

\* No object is lost: whatever is active, or may still be restored, is in
\* MinIO, so no archiving, late, repeated or left without its lock, removes the
\* object of a row that is shown again, unless a delete, a restore or a look at
\* the row lost the lock; and a row says archived only when a copy of the object
\* is in the archive.
NothingIsLost == \A k \in Keys :
  /\ k \in Active \/ Restorable(catalog[k]) => slipped \/ k \in source
  /\ catalog[k] # None /\ catalog[k].state = "archived" => \E copy \in archive : copy[1] = k

\* No active object goes uncharged but those that a repeated completion showed
\* again after their delete had given the bytes back, unless a delete gave its
\* byte back in one ledger, failed in the other and showed the object again, or
\* two calls worked at once because one had lost the lock.
ActiveIsCharged == slipped \/ Cardinality(Active) <= compact + revived

\* The legacy ledger never runs ahead of the compact one, so reconciliation,
\* which keeps the larger, brings no deleted byte back.
LedgersAgree == appLock # None \/ slipped \/ legacy <= compact
=============================================================================
