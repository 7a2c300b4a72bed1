--------------------------- MODULE BucketCleanup ---------------------------
(***************************************************************************)
(* One bucket that no application owns, present on the MinIO site of every *)
(* region, and the administrators of the regions who keep it or have it    *)
(* removed.  A removal is a storage operation of one region's MongoDB; it  *)
(* checks every site, removes the bucket from one site after another and   *)
(* records what it removed only at its end, so that a later removal may go *)
(* on where it stopped.  An application of the bucket's name may be        *)
(* created, enabled and deleted meanwhile.                                 *)
(***************************************************************************)
EXTENDS Deployment

CONSTANT Cleanups     \* the requests to remove the bucket

ASSUME NoneIsNoCleanup == None \notin Cleanups

VARIABLES bucket,     \* at each site: absent, empty or full
          owner,      \* the entry of that name in the applications key
          retention,  \* of each region's disposition document
          cleanup,    \* unmanaged_bucket_delete operations
          latest,     \* the newest one of each region
          cleanLock,  \* storage-operation/unmanaged-bucket-delete/<bucket>
          emptied,    \* (ghost) the sites a removal took the bucket from
          untold      \* (ghost) a removal went unrecorded, or a request came that
                      \* had read the sites before it

bvars == <<bucket, owner, retention, cleanup, latest, cleanLock, emptied, untold>>

Present == {s \in Regions : bucket[s] # "absent"}
Missing == Regions \ Present
Unmanaged == owner = "none" /\ Present # {}
Asleep == [pc |-> "new"]

CleanupInit ==
  /\ bucket \in [Regions -> {"empty", "full"}] /\ owner = "none"
  /\ retention = [r \in Regions |-> "no"]
  /\ cleanup = [o \in Cleanups |-> Asleep] /\ latest = [r \in Regions |-> None]
  /\ cleanLock = None /\ emptied = {} /\ untold = FALSE

WorldSame == UNCHANGED <<bucket, owner>>
GhostsSame == UNCHANGED <<emptied, untold>>
CleanupAt(o, pc) == cleanup[o].pc = pc
CleanupTo(o, pc) == cleanup' = [cleanup EXCEPT ![o].pc = pc]
Underway(o) == cleanup[o].pc \in {"queued", "check", "count", "remove", "end"}
ActiveIn(r) == latest[r] # None /\ Underway(latest[r])
FailedIn(r) == latest[r] # None /\ CleanupAt(latest[r], "failed")

-----------------------------------------------------------------------------
(* retain_unmanaged_bucket and release_unmanaged_bucket_retention.  Check  *)
(* and write are one step: a removal looks at the retention only when it is*)
(* asked for, so one created in between is one asked for just before.      *)
Retain(r) ==
  /\ Unmanaged /\ ~ActiveIn(r)
  /\ retention' = [retention EXCEPT ![r] = "yes"]
  /\ UNCHANGED <<cleanup, latest, cleanLock>> /\ WorldSame /\ GhostsSame
ReleaseRetention(r) ==
  /\ Unmanaged /\ ~ActiveIn(r) /\ retention[r] # "no"
  /\ retention' = [retention EXCEPT ![r] = "no"]
  /\ UNCHANGED <<cleanup, latest, cleanLock>> /\ WorldSame /\ GhostsSame

\* delete_unmanaged_bucket reads owner, sites and disposition; a retention
\* older than the end of a failed removal does not count.
AskCleanup(o, r) ==
  /\ CleanupAt(o, "new")
  /\ Unmanaged /\ retention[r] # "yes"
  /\ cleanup' = [cleanup EXCEPT ![o] = [pc |-> "asked", region |-> r, present |-> Present]]
  /\ UNCHANGED <<retention, latest, cleanLock>> /\ WorldSame /\ GhostsSame

\* _partial_delete_recovery_targets: every site without the bucket must be
\* one that the last removal, a failed one, recorded.
Recovers(r, present) ==
  /\ FailedIn(r)
  /\ LET removed == cleanup[latest[r]].removed
     IN removed # {} /\ Regions \ present # {} /\ Regions \ present \subseteq removed

CreateCleanup(o) ==
  LET r == cleanup[o].region  present == cleanup[o].present
      recovers == Recovers(r, present)
  IN /\ CleanupAt(o, "asked")
     /\ IF ActiveIn(r) \/ (present # Regions /\ ~recovers)
        THEN cleanup' = [cleanup EXCEPT ![o] = [pc |-> "refused"]] /\ UNCHANGED latest
        ELSE /\ cleanup' = [cleanup EXCEPT ![o] =
                  [pc |-> "queued", region |-> r, targets |-> present, left |-> present,
                   removed |-> IF recovers THEN cleanup[latest[r]].removed ELSE {},
                   now |-> {}, ok |-> TRUE]]
             /\ latest' = [latest EXCEPT ![r] = o]
     /\ untold' = (untold \/ present # Present)
     /\ UNCHANGED <<retention, cleanLock, emptied>> /\ WorldSame

\* The operation ends: its document, the disposition it overtakes, its lock.
EndCleanup(o, pc, removed) ==
  /\ cleanup' = [cleanup EXCEPT ![o] =
       [pc |-> pc, region |-> cleanup[o].region, removed |-> removed]]
  /\ retention' = [retention EXCEPT ![cleanup[o].region] =
       IF pc = "succeeded" THEN "no" ELSE IF @ = "yes" THEN "overtaken" ELSE @]
  /\ cleanLock' = IF cleanLock = o THEN None ELSE cleanLock

-----------------------------------------------------------------------------
(* _run_unmanaged_bucket_delete_operation.                                 *)
CleanupLock(o) ==
  /\ CleanupAt(o, "queued")
  /\ \/ cleanLock = None /\ cleanLock' = o /\ CleanupTo(o, "check") /\ UNCHANGED retention
     \/ cleanLock # None /\ EndCleanup(o, "failed", cleanup[o].removed)
  /\ UNCHANGED latest /\ WorldSame /\ GhostsSame

\* Owner and sites once more; a site may not answer.
CleanupCheck(o) ==
  /\ CleanupAt(o, "check")
  /\ \/ /\ owner = "none" /\ cleanup[o].targets = Present /\ Missing \subseteq cleanup[o].removed
        /\ CleanupTo(o, "count") /\ UNCHANGED <<retention, cleanLock>>
     \/ EndCleanup(o, "failed", cleanup[o].removed)
  /\ UNCHANGED latest /\ WorldSame /\ GhostsSame

\* Every site is counted before any is touched.
CleanupCount(o) ==
  /\ CleanupAt(o, "count")
  /\ IF cleanup[o].left # {}
     THEN /\ \E s \in cleanup[o].left, counts \in BOOLEAN :
               cleanup' = [cleanup EXCEPT ![o].left = @ \ {s},
                                          ![o].ok = @ /\ counts /\ bucket[s] # "full"]
          /\ UNCHANGED <<retention, cleanLock>>
     ELSE IF cleanup[o].ok
     THEN /\ cleanup' = [cleanup EXCEPT ![o].pc = "remove", ![o].left = cleanup[o].targets]
          /\ UNCHANGED <<retention, cleanLock>>
     ELSE EndCleanup(o, "failed", cleanup[o].removed)
  /\ UNCHANGED latest /\ WorldSame /\ GhostsSame

\* mc rb removes an empty bucket only; it may have done so although the call
\* failed, and then the removal goes unrecorded.
CleanupRemove(o) ==
  /\ CleanupAt(o, "remove") /\ cleanup[o].left # {}
  /\ \E s \in cleanup[o].left :
       \/ /\ bucket[s] = "empty"
          /\ bucket' = [bucket EXCEPT ![s] = "absent"] /\ emptied' = emptied \cup {s}
          /\ \E told \in BOOLEAN :
               /\ cleanup' = [cleanup EXCEPT ![o].left = @ \ {s}, ![o].ok = @ /\ told,
                                             ![o].now = IF told THEN @ \cup {s} ELSE @]
               /\ untold' = (untold \/ ~told)
       \/ /\ cleanup' = [cleanup EXCEPT ![o].left = @ \ {s}, ![o].ok = FALSE]
          /\ UNCHANGED bucket /\ GhostsSame
  /\ UNCHANGED <<owner, retention, latest, cleanLock>>

\* Mutant of RemovedByNow: what earlier removals recorded is forgotten.
RemovedNow(o) == cleanup[o].now

\* What was removed before counts as well.
RemovedByNow(o) == cleanup[o].removed \cup cleanup[o].now
\* Mutant of CleanupEnd: the targets are recorded as removed.
CleanupEndAll(o) ==
  /\ CleanupAt(o, "remove") /\ cleanup[o].left = {}
  /\ EndCleanup(o, IF cleanup[o].ok THEN "succeeded" ELSE "failed", RemovedByNow(o) \cup cleanup[o].targets)
  /\ UNCHANGED latest /\ WorldSame /\ GhostsSame
CleanupEnd(o) ==
  /\ CleanupAt(o, "remove") /\ cleanup[o].left = {}
  /\ EndCleanup(o, IF cleanup[o].ok THEN "succeeded" ELSE "failed", RemovedByNow(o))
  /\ UNCHANGED latest /\ WorldSame /\ GhostsSame

\* Cancelled, or failed by the watchdog after its worker stopped: the record
\* stays as it was made.
CleanupStops(o) ==
  /\ Underway(o) /\ EndCleanup(o, "failed", cleanup[o].removed)
  /\ untold' = (untold \/ cleanup[o].now # {})
  /\ UNCHANGED <<latest, emptied>> /\ WorldSame

CleanLeaseEnds ==
  /\ cleanLock # None /\ cleanLock' = None
  /\ UNCHANGED <<retention, cleanup, latest>> /\ WorldSame /\ GhostsSame

-----------------------------------------------------------------------------
(* What others do with the name: an application comes, makes its bucket on *)
(* the sites that have none, is enabled, and goes; objects come and go.    *)
OwnerChanges ==
  /\ \/ owner = "none" /\ owner' = "disabled"
     \/ owner = "disabled" /\ Present = Regions /\ owner' = "enabled"
     \/ owner # "none" /\ owner' = "none"
  /\ UNCHANGED <<bucket, retention, cleanup, latest, cleanLock>> /\ GhostsSame
SiteChanges(s) ==
  /\ \/ bucket[s] = "absent" /\ owner # "none" /\ bucket' = [bucket EXCEPT ![s] = "empty"]
     \/ bucket[s] = "empty" /\ bucket' = [bucket EXCEPT ![s] = "full"]
     \/ bucket[s] = "full" /\ bucket' = [bucket EXCEPT ![s] = "empty"]
  /\ UNCHANGED <<owner, retention, cleanup, latest, cleanLock>> /\ GhostsSame

CleanupStep(o) ==
  CreateCleanup(o) \/ CleanupLock(o) \/ CleanupCheck(o) \/ CleanupCount(o) \/ CleanupRemove(o) \/ CleanupEnd(o)

CleanupNext ==
  \/ \E r \in Regions : Retain(r) \/ ReleaseRetention(r)
  \/ \E o \in Cleanups, r \in Regions : AskCleanup(o, r)
  \/ \E o \in Cleanups : CleanupStep(o) \/ CleanupStops(o)
  \/ CleanLeaseEnds \/ OwnerChanges
  \/ \E s \in Regions : SiteChanges(s)

CleanupSpec == CleanupInit /\ [][CleanupNext]_bvars

-----------------------------------------------------------------------------
CleanupTypeOK ==
  /\ bucket \in [Regions -> {"absent", "empty", "full"}]
  /\ owner \in {"none", "disabled", "enabled"}
  /\ retention \in [Regions -> {"no", "yes", "overtaken"}]
  /\ latest \in [Regions -> Cleanups \cup {None}] /\ cleanLock \in Cleanups \cup {None}
  /\ \A o \in Cleanups : Underway(o) =>
       cleanup[o].left \subseteq cleanup[o].targets /\ RemovedByNow(o) \subseteq Regions

\* What removals record is the truth: each site in a record was emptied by a
\* removal that was told so, and a removal reported as done, alone or on the
\* strength of what earlier ones recorded, took the bucket from every site.
RecordsAreTrue == \A o \in Cleanups :
  /\ cleanup[o].pc \in {"queued", "failed", "succeeded"} => cleanup[o].removed \subseteq emptied
  /\ CleanupAt(o, "succeeded") => cleanup[o].removed = Regions

\* A removal that failed half-way can be continued: unless a removal went
\* unrecorded or a request had read the sites before it, every site without
\* the bucket is in the newest record of a region, through any number of
\* removals that fail, are refused or overlap.
FailedCanContinue ==
  ~untold /\ Present # {} /\ (\A o \in Cleanups : ~Underway(o)) =>
    Missing \subseteq UNION {cleanup[latest[r]].removed : r \in {q \in Regions : latest[q] # None}}

\* A bucket registered to be kept is not removed.
RetainedIsKept ==
  [][\A r \in Regions : retention[r] = "yes" => Missing' \subseteq Missing]_bvars
=============================================================================
