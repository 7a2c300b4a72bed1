--------------------------- MODULE ReplicationMesh ---------------------------
(***************************************************************************)
(* The buckets of one application and the replication rules between them:  *)
(* one rule from every site to every other.  An administrator's approval   *)
(* creates them, the authority's loop adds what is missing, operators add  *)
(* and delete rules by hand, and the sites come and go.  Approval and loop *)
(* exclude each other with a lock in Etcd; operators do not take it.       *)
(***************************************************************************)
EXTENDS Deployment, FiniteSets, Integers

CONSTANTS Sites,       \* the MinIO servers
          Approvals,   \* calls of enable_application
          Operators,   \* calls of create_ and delete_bucket_replicate
          Loop         \* reconcile_replication_policies_task

ASSUME LoopIsNoCall == Loop \notin Approvals \cup Operators

VARIABLES known,      \* the servers every region lists
          buckets,    \* the sites that have the bucket
          versioned,  \* ... with versioning enabled
          rules,      \* the replication rules in MinIO
          enabledApp, \* the application is enabled
          meshStatus, \* its provisioning_status
          meshHolder, \* who has the replication lock
          mesher,     \* the approvals, the operators' calls and the loop
          meshLapsed, \* (ghost) the lock's lease ran out under its holder
          meshCalm    \* nothing fails any more, and the sites stay

rvars == <<known, buckets, versioned, rules, enabledApp, meshStatus, meshHolder, mesher, meshLapsed, meshCalm>>
siteVars == <<known, buckets, versioned>>
lockVars == <<meshHolder, meshLapsed>>

Makers == Approvals \cup Operators \cup {Loop}
ASSUME NoneIsNoMaker == None \notin Makers
PairsOf(S) == {p \in S \X S : p[1] # p[2]}
\* A rule is known by an id; who made it stands for it.
Rule(p, m, on) == [pair |-> p, by |-> m, on |-> on]
RulesFor(p) == {rule \in rules : rule.pair = p}
NotYet == [pc |-> "new"]
Gone == [pc |-> "gone"]

MeshInit ==
  /\ known = Sites /\ buckets = {} /\ versioned = {} /\ rules = {}
  /\ enabledApp = FALSE /\ meshStatus = "pending" /\ meshHolder = None
  /\ mesher = [m \in Makers |-> NotYet] /\ meshLapsed = FALSE /\ meshCalm = FALSE

MeshAt(m, pc) == mesher[m].pc = pc
MeshGoes(m, doc) == mesher' = [mesher EXCEPT ![m] = doc]
AfterMesh(m) == IF m = Loop THEN NotYet ELSE Gone

\* build_full_mesh_policy: every pair has one rule, a healthy one, and no
\* listed site has a rule for another.
MeshComplete(S) ==
  /\ Cardinality(S) >= 2
  /\ \A p \in PairsOf(S) : \E rule \in rules : RulesFor(p) = {rule} /\ rule.on
  /\ \A rule \in rules : rule.pair[1] \in S => rule.pair[2] \in S

-----------------------------------------------------------------------------
(* enable_application under its lock: the buckets, site by site; their     *)
(* versioning, which ends the approval when it fails; then the rules.      *)
Approve(m) ==
  /\ MeshAt(m, "new") /\ ~enabledApp
  /\ IF meshHolder # None THEN MeshGoes(m, Gone) /\ UNCHANGED meshHolder
     ELSE /\ meshHolder' = m
          /\ MeshGoes(m, [pc |-> IF Cardinality(known) >= 2 THEN "buckets" ELSE "fail",
                          sites |-> known, todo |-> known, failed |-> FALSE])
  /\ UNCHANGED <<siteVars, rules, enabledApp, meshStatus, meshLapsed, meshCalm>>
MakeBucket(m, s) ==
  /\ MeshAt(m, "buckets") /\ s \in mesher[m].todo
  /\ \/ buckets' = buckets \cup {s} /\ MeshGoes(m, [mesher[m] EXCEPT !.todo = @ \ {s}])
     \/ ~meshCalm /\ UNCHANGED buckets /\ MeshGoes(m, [mesher[m] EXCEPT !.todo = @ \ {s}, !.failed = TRUE])
  /\ UNCHANGED <<known, versioned, rules, enabledApp, meshStatus, lockVars, meshCalm>>
BucketsMade(m) ==
  LET a == mesher[m]
  IN /\ MeshAt(m, "buckets") /\ a.todo = {}
     /\ MeshGoes(m, IF a.failed THEN [a EXCEPT !.pc = "fail"] ELSE [a EXCEPT !.pc = "version", !.todo = a.sites])
     /\ UNCHANGED <<siteVars, rules, enabledApp, meshStatus, lockVars, meshCalm>>
SetVersioning(m, s) ==
  LET left == mesher[m].todo \ {s}
  IN /\ MeshAt(m, "version") /\ s \in mesher[m].todo
     /\ \/ /\ s \in buckets /\ versioned' = versioned \cup {s}
           /\ MeshGoes(m, [mesher[m] EXCEPT !.todo = left, !.pc = IF left = {} THEN "read" ELSE "version"])
        \/ UNCHANGED versioned /\ (meshCalm => s \notin buckets) /\ MeshGoes(m, [mesher[m] EXCEPT !.pc = "fail"])
     /\ UNCHANGED <<known, buckets, rules, enabledApp, meshStatus, lockVars, meshCalm>>

\* The loop goes over the enabled applications; it does not wait for a lock.
BeginRepair ==
  /\ MeshAt(Loop, "new") /\ enabledApp /\ meshHolder = None
  /\ meshHolder' = Loop /\ MeshGoes(Loop, [pc |-> "read", sites |-> known, todo |-> {}, failed |-> FALSE])
  /\ UNCHANGED <<siteVars, rules, enabledApp, meshStatus, meshLapsed, meshCalm>>

\* Mutant of ReadRules: rules that are there are added again.
ReadNothing(m) ==
  /\ MeshAt(m, "read")
  /\ \/ MeshGoes(m, [mesher[m] EXCEPT !.pc = "add", !.todo = PairsOf(mesher[m].sites)])
     \/ ~meshCalm /\ MeshGoes(m, [mesher[m] EXCEPT !.pc = "fail"])
  /\ UNCHANGED <<siteVars, rules, enabledApp, meshStatus, lockVars, meshCalm>>

\* setup_bucket_replication: it refuses rules it cannot read, adds those that
\* are missing, from every source at once, and reads them back.
ReadRules(m) ==
  /\ MeshAt(m, "read")
  /\ \/ MeshGoes(m, [mesher[m] EXCEPT !.pc = "add", !.todo = {p \in PairsOf(mesher[m].sites) : RulesFor(p) = {}}])
     \/ ~meshCalm /\ MeshGoes(m, [mesher[m] EXCEPT !.pc = "fail"])
  /\ UNCHANGED <<siteVars, rules, enabledApp, meshStatus, lockVars, meshCalm>>
CanReplicate(p) == {p[1], p[2]} \subseteq versioned
AddRule(m, p) ==
  LET job(failed) == [mesher[m] EXCEPT !.todo = @ \ {p}, !.failed = @ \/ failed]
  IN /\ MeshAt(m, "add") /\ p \in mesher[m].todo
     /\ \/ /\ CanReplicate(p) /\ rules' = rules \cup {Rule(p, m, TRUE)}
           /\ MeshGoes(m, job(FALSE)) \/ (~meshCalm /\ MeshGoes(m, job(TRUE)))
        \/ (meshCalm => ~CanReplicate(p)) /\ UNCHANGED rules /\ MeshGoes(m, job(TRUE))
     /\ UNCHANGED <<siteVars, enabledApp, meshStatus, lockVars, meshCalm>>
\* Mutant of CheckMesh: what was added is not read back.
CheckAdded(m) ==
  LET a == mesher[m]
  IN /\ MeshAt(m, "add") /\ a.todo = {}
     /\ \/ ~a.failed /\ MeshGoes(m, [a EXCEPT !.pc = "done"])
        \/ (meshCalm => a.failed) /\ MeshGoes(m, [a EXCEPT !.pc = "fail"])
     /\ UNCHANGED <<siteVars, rules, enabledApp, meshStatus, lockVars, meshCalm>>
CheckMesh(m) ==
  LET a == mesher[m]
      fine == ~a.failed /\ MeshComplete(a.sites)
  IN /\ MeshAt(m, "add") /\ a.todo = {}
     /\ \/ fine /\ MeshGoes(m, [a EXCEPT !.pc = "done"])
        \/ (meshCalm => ~fine) /\ MeshGoes(m, [a EXCEPT !.pc = "fail"])
     /\ UNCHANGED <<siteVars, rules, enabledApp, meshStatus, lockVars, meshCalm>>
\* The outcome is saved; a failed approval leaves the application disabled,
\* but has left the lock by then.
LeaveLock(m) ==
  /\ m \in Approvals /\ MeshAt(m, "fail") /\ MeshGoes(m, [pc |-> "saveFailed"])
  /\ meshHolder' = IF meshHolder = m THEN None ELSE meshHolder
  /\ UNCHANGED <<siteVars, rules, enabledApp, meshStatus, meshLapsed, meshCalm>>
SaveMesh(m) ==
  LET good == MeshAt(m, "done")
  IN /\ \/ mesher[m].pc \in {"done", "saveFailed"}
        \/ m = Loop /\ MeshAt(m, "fail")
     /\ MeshGoes(m, AfterMesh(m))
     /\ enabledApp' = IF m = Loop THEN enabledApp ELSE good
     /\ meshStatus' = IF good THEN "ready" ELSE IF m = Loop THEN "degraded" ELSE "failed"
     /\ meshHolder' = IF meshHolder = m THEN None ELSE meshHolder
     /\ UNCHANGED <<siteVars, rules, meshLapsed, meshCalm>>

-----------------------------------------------------------------------------
(* create_bucket_replicate looks first and adds later, delete_bucket_      *)
(* replicate removes the rule it has found, by its id.                     *)
Connect(m, p) ==
  /\ MeshAt(m, "new") /\ p \in PairsOf(known) /\ {p[1], p[2]} \subseteq buckets /\ RulesFor(p) = {}
  /\ MeshGoes(m, [pc |-> "connect", pair |-> p])
  /\ UNCHANGED <<siteVars, rules, enabledApp, meshStatus, lockVars, meshCalm>>
ConnectNow(m) ==
  LET p == mesher[m].pair
  IN /\ MeshAt(m, "connect") /\ MeshGoes(m, Gone)
     /\ \/ CanReplicate(p) /\ \E on \in BOOLEAN : rules' = rules \cup {Rule(p, m, on)}
        \/ UNCHANGED rules
     /\ UNCHANGED <<siteVars, enabledApp, meshStatus, lockVars, meshCalm>>
Disconnect(m, rule) ==
  /\ MeshAt(m, "new") /\ rule \in rules /\ rule.pair \in PairsOf(known)
  /\ MeshGoes(m, [pc |-> "disconnect", rule |-> rule])
  /\ UNCHANGED <<siteVars, rules, enabledApp, meshStatus, lockVars, meshCalm>>
DisconnectNow(m) ==
  /\ MeshAt(m, "disconnect") /\ MeshGoes(m, Gone) /\ rules' \in {rules, rules \ {mesher[m].rule}}
  /\ UNCHANGED <<siteVars, enabledApp, meshStatus, lockVars, meshCalm>>

\* ensure_local_buckets_for_app, after every pull and event of an enabled one.
EnsureLocal(s) ==
  /\ enabledApp /\ s \in known
  /\ \/ buckets' = buckets \cup {s} /\ versioned' = versioned \cup {s}
     \/ ~meshCalm /\ buckets' = buckets \cup {s} /\ UNCHANGED versioned
  /\ UNCHANGED <<known, rules, enabledApp, meshStatus, lockVars, mesher, meshCalm>>
SiteComes(s) ==
  /\ ~meshCalm /\ s \notin known /\ known' = known \cup {s}
  /\ UNCHANGED <<buckets, versioned, rules, enabledApp, meshStatus, lockVars, mesher, meshCalm>>
SiteGoes(s) ==
  /\ ~meshCalm /\ s \in known /\ known' = known \ {s}
  /\ UNCHANGED <<buckets, versioned, rules, enabledApp, meshStatus, lockVars, mesher, meshCalm>>

MesherDies(m) ==
  /\ ~meshCalm /\ mesher[m].pc \notin {"new", "gone"} /\ MeshGoes(m, AfterMesh(m))
  /\ UNCHANGED <<siteVars, rules, enabledApp, meshStatus, lockVars, meshCalm>>
MeshLeaseLapses ==
  LET held == meshHolder # None /\ mesher[meshHolder].pc \notin {"new", "gone"}
  IN /\ meshHolder # None /\ (meshCalm => ~held) /\ meshHolder' = None
     /\ meshLapsed' = (meshLapsed \/ held)
     /\ UNCHANGED <<siteVars, rules, enabledApp, meshStatus, mesher, meshCalm>>

MeshStep(m) ==
  \/ \E s \in Sites : MakeBucket(m, s) \/ SetVersioning(m, s)
  \/ \E p \in PairsOf(Sites) : AddRule(m, p)
  \/ BucketsMade(m) \/ ReadRules(m) \/ CheckMesh(m) \/ LeaveLock(m) \/ SaveMesh(m)
  \/ ConnectNow(m) \/ DisconnectNow(m)
MeshNext ==
  \/ \E m \in Approvals : Approve(m)
  \/ BeginRepair
  \/ \E m \in Operators, p \in PairsOf(Sites) : Connect(m, p)
  \/ \E m \in Operators, rule \in rules : Disconnect(m, rule)
  \/ \E m \in Makers : MeshStep(m) \/ MesherDies(m)
  \/ \E s \in Sites : EnsureLocal(s) \/ SiteComes(s) \/ SiteGoes(s)
  \/ MeshLeaseLapses
MeshCalms == ~meshCalm /\ meshCalm' = TRUE /\ UNCHANGED <<siteVars, rules, enabledApp, meshStatus, lockVars, mesher>>

MeshFairness ==
  /\ WF_rvars(BeginRepair) /\ WF_rvars(MeshLeaseLapses)
  /\ \A m \in Makers : WF_rvars(MeshStep(m))
  /\ \A s \in Sites : WF_rvars(EnsureLocal(s))

MeshSpec == MeshInit /\ [][MeshNext]_rvars
MeshFairSpec == MeshInit /\ [][MeshNext \/ MeshCalms]_rvars /\ MeshFairness

-----------------------------------------------------------------------------
MeshTypeOK ==
  /\ known \subseteq Sites /\ buckets \subseteq Sites /\ versioned \subseteq buckets
  /\ rules \subseteq [pair : PairsOf(Sites), by : Makers, on : BOOLEAN]
  /\ enabledApp \in BOOLEAN /\ meshStatus \in {"pending", "ready", "degraded", "failed"}
  /\ meshHolder \in Makers \cup {None} /\ meshLapsed \in BOOLEAN

\* Approvals that fail half-way or whose answers are lost, and the loop, never
\* give a pair two rules - unless a lease ran out, or an operator's call was
\* between its look and its rule.
PairsHaveOneRule ==
  ~meshLapsed => \A x, y \in rules : x.pair = y.pair /\ x # y => {x.by, y.by} \cap Operators # {}

\* What the loop can neither make good nor remove: two rules for a pair, a
\* disabled one, one to a site that has gone, or fewer than two sites.
InTheWay ==
  \/ Cardinality(known) < 2
  \/ \E x \in rules : x.pair[1] \in known /\ (x.pair[2] \notin known \/ ~x.on \/ RulesFor(x.pair) # {x})

\* Once nothing fails any more, an enabled application has its full mesh and
\* says so - or something is in the way, and it says that.
MeshComesBack ==
  <>[](meshCalm /\ enabledApp => IF InTheWay THEN meshStatus = "degraded"
                           ELSE MeshComplete(known) /\ meshStatus = "ready")
=============================================================================
