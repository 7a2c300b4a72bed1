------------------------ MODULE ApplicationRegistry ------------------------
(***************************************************************************)
(* Applications: the Etcd key `applications' is the authority, the         *)
(* application collection of each region is its projection.  Modelled: the *)
(* requests that create and delete an application, change its domains and  *)
(* enable it, the repair pass of the authority region, and the pull or     *)
(* watch that brings a projection up to date.                              *)
(*                                                                         *)
(* An entry is its shown name, whether it is enabled, its provisioning     *)
(* status and its domains; `born' is the request that created it, which    *)
(* stands for the document id and tells a deleted application from a later *)
(* one of the same name.                                                   *)
(***************************************************************************)
EXTENDS Deployment, FiniteSets, Integers

CONSTANTS Apps, Titles, Requests,
          First,         \* the application there is at the start, by its birth
          MaxPulled      \* the copies that may wait at once

ASSUME FirstIsNew == First \notin Requests

VARIABLES registry,      \* the applications key
          projection,    \* the application collection of each region
          meshLock,      \* application_replication_lock of each application
          request,
          pulled,        \* the application a region's pull or event has read
          deleted,       \* (ghost) the births whose deletion reached Etcd
          verified       \* (ghost) the births whose full mesh passed its check

avars == <<registry, projection, meshLock, request, pulled, deleted, verified>>

AppEntries == [title : Titles, enabled : BOOLEAN,
               status : {"pending", "provisioning", "ready", "failed", "degraded"},
               domains : SUBSET Requests, born : Requests \cup {First}]
ASSUME NoneIsNoAppEntry == None \notin AppEntries

\* Mutant of NewApp: an application starts in a state nobody knows.
NewAppUnset(t, b) == [title |-> t, enabled |-> FALSE, status |-> "new", domains |-> {}, born |-> b]
NewApp(t, b) == [title |-> t, enabled |-> FALSE, status |-> "pending", domains |-> {}, born |-> b]
Unused == [pc |-> "new"]

AppInit ==
  /\ \E a \in Apps, t \in Titles, on \in BOOLEAN :
       /\ registry = [b \in Apps |->
            IF b # a THEN None
            ELSE [NewApp(t, First) EXCEPT !.enabled = on,
                                          !.status = IF on THEN "ready" ELSE "pending"]]
       /\ verified = IF on THEN {First} ELSE {}
  /\ projection = [r \in Regions |-> registry]
  /\ meshLock = [a \in Apps |-> None]
  /\ request = [c \in Requests |-> Unused]
  /\ pulled = [r \in Regions |-> None]
  /\ deleted = {}

-----------------------------------------------------------------------------
Done(c) == [request EXCEPT ![c] = [pc |-> "done"]]
Step(c, pc) == [request EXCEPT ![c].pc = pc]
Open(c, pc, r, a, d) == [request EXCEPT ![c] = [pc |-> pc, region |-> r, app |-> a, doc |-> d]]
FreeMesh(c) == [meshLock EXCEPT ![request[c].app] = IF @ = c THEN None ELSE @]

\* Document.save() of a copy in memory: the whole document, inserted again if
\* it is gone.  The shown name is unique in the collection.
TitleTaken(r, a, t) == \E b \in Apps \ {a} : projection[r][b] # None /\ projection[r][b].title = t
SaveCopy(c, d) ==
  LET r == request[c].region  a == request[c].app
  IN ~TitleTaken(r, a, d.title) /\ projection' = [projection EXCEPT ![r][a] = d]

\* Mutant of Projected: an application the region has is not brought up to date.
ProjectedNew(r, a, e) ==
  IF TitleTaken(r, a, e.title) \/ projection[r][a] # None THEN projection
  ELSE [projection EXCEPT ![r][a] = e]

\* upsert_application_from_etcd; a duplicate shown name makes it fail.
Projected(r, a, e) ==
  IF TitleTaken(r, a, e.title) THEN projection ELSE [projection EXCEPT ![r][a] = e]

\* create_application claims name and shown name in one compare-and-swap.
CreateApp(c, r, a, t) ==
  /\ request[c] = Unused /\ registry[a] = None
  /\ \A b \in Apps : registry[b] # None => registry[b].title # t
  /\ registry' = [registry EXCEPT ![a] = NewApp(t, c)]
  /\ request' = Open(c, "project", r, a, NewApp(t, c))
  /\ UNCHANGED <<projection, meshLock, pulled, deleted, verified>>

\* The authoritative entry a request got back goes into the local collection,
\* or fails to.
ProjectApp(c) ==
  /\ request[c].pc = "project"
  /\ projection' \in {projection, Projected(request[c].region, request[c].app, request[c].doc)}
  /\ request' = Done(c)
  /\ UNCHANGED <<registry, meshLock, pulled, deleted, verified>>

AskApp(c, pc, r, a) ==
  /\ request[c] = Unused /\ projection[r][a] # None
  /\ request' = Open(c, pc, r, a, projection[r][a])
  /\ UNCHANGED <<registry, projection, meshLock, pulled, deleted, verified>>

\* delete_application: out of Etcd by name, then out of the local collection
\* by document id.
DeleteApp(c, r, a) == AskApp(c, "unpublish", r, a)
UnpublishApp(c) ==
  /\ request[c].pc = "unpublish"
  /\ \/ request' = Done(c) /\ UNCHANGED <<registry, deleted>>
     \/ /\ registry' = [registry EXCEPT ![request[c].app] = None]
        /\ deleted' = deleted \cup {registry[a].born : a \in {b \in {request[c].app} : registry[b] # None}}
        /\ request' = Step(c, "remove")
  /\ UNCHANGED <<projection, meshLock, pulled, verified>>
RemoveLocal(c) ==
  LET r == request[c].region  a == request[c].app
  IN /\ request[c].pc = "remove"
     /\ projection' = [projection EXCEPT ![r][a] =
                         IF @ # None /\ @.born = request[c].doc.born THEN None ELSE @]
     /\ request' = Done(c)
     /\ UNCHANGED <<registry, meshLock, pulled, deleted, verified>>

\* add and delete_application_domain: the list is read (from Etcd, else from
\* the local copy), changed, and written back whole; an application that is
\* gone from Etcd is put back from the local copy.
ChangeDomain(c, r, a) ==
  LET d == projection[r][a]
      seen == IF registry[a] = None THEN d.domains ELSE registry[a].domains
  IN /\ request[c] = Unused /\ d # None
     /\ \E list \in {seen \cup {c}} \cup {seen \ {o} : o \in seen} :
          request' = Open(c, "domain", r, a, [d EXCEPT !.domains = list])
     /\ UNCHANGED <<registry, projection, meshLock, pulled, deleted, verified>>
WriteDomain(c) ==
  LET a == request[c].app  d == request[c].doc
      new == IF registry[a] = None THEN d ELSE [registry[a] EXCEPT !.domains = d.domains]
  IN /\ request[c].pc = "domain"
     /\ registry' = [registry EXCEPT ![a] = new]
     /\ request' = [request EXCEPT ![c].pc = "project", ![c].doc = new]
     /\ UNCHANGED <<projection, meshLock, pulled, deleted, verified>>

-----------------------------------------------------------------------------
(* enable_application.                                                     *)
EnableApp(c, r, a) == (projection[r][a] # None => ~projection[r][a].enabled) /\ AskApp(c, "enable", r, a)

\* Under the lock the document is read again and saved as provisioning.
EnableLocked(c) ==
  LET a == request[c].app  d == projection[request[c].region][a]
      d2 == [d EXCEPT !.status = "provisioning", !.enabled = FALSE]
  IN /\ request[c].pc = "enable"
     /\ \/ /\ \/ meshLock[a] # None                    \* busy until the timeout
              \/ d = None
              \/ d # None /\ d.enabled                 \* enabled by another node
           /\ request' = Done(c) /\ UNCHANGED <<meshLock, projection>>
        \/ /\ meshLock[a] = None /\ d # None /\ ~d.enabled
           /\ meshLock' = [meshLock EXCEPT ![a] = c]
           /\ SaveCopy(c, d2)
           /\ request' = [request EXCEPT ![c].pc = "publishStart", ![c].doc = d2]
     /\ UNCHANGED <<registry, pulled, deleted, verified>>

\* Mutant of Provision: what the check finds is not acted upon.
ProvisionUnchecked(c) ==
  /\ request[c].pc = "provision"
  /\ verified' \in {verified, verified \cup {request[c].doc.born}}
  /\ request' = Step(c, "ready")
  /\ UNCHANGED <<registry, projection, meshLock, pulled, deleted>>

\* Buckets, versioning, hard quotas and replication rules on every site, read
\* back and checked; any failure leaves the lock.
Provision(c) ==
  /\ request[c].pc = "provision"
  /\ \/ /\ verified' = verified \cup {request[c].doc.born}
        /\ request' = Step(c, "ready") /\ UNCHANGED meshLock
     \/ request' = Step(c, "failed") /\ meshLock' = FreeMesh(c) /\ UNCHANGED verified
  /\ UNCHANGED <<registry, projection, pulled, deleted>>

SaveReady(c) ==
  LET d == [request[c].doc EXCEPT !.status = "ready", !.enabled = TRUE]
  IN /\ request[c].pc = "ready"
     /\ \/ /\ SaveCopy(c, d) /\ UNCHANGED meshLock
           /\ request' = [request EXCEPT ![c].pc = "publishReady", ![c].doc = d]
        \/ UNCHANGED projection /\ request' = Step(c, "failed") /\ meshLock' = FreeMesh(c)
     /\ UNCHANGED <<registry, pulled, deleted, verified>>

\* The failure is saved outside the lock.
SaveFailed(c) ==
  LET d == [request[c].doc EXCEPT !.status = "failed", !.enabled = FALSE]
  IN /\ request[c].pc = "failed"
     /\ \/ SaveCopy(c, d) /\ request' = [request EXCEPT ![c].pc = "publishFailed", ![c].doc = d]
        \/ UNCHANGED projection /\ request' = Done(c)
     /\ UNCHANGED <<registry, meshLock, pulled, deleted, verified>>

\* publish_application reads the document by its id; an entry Etcd has keeps
\* its shown name and domains, one it has not is written whole.
Published(r, a, id) ==
  LET d == projection[r][a]
  IN IF d = None \/ (d # None => d.born # id) THEN registry
     ELSE [registry EXCEPT ![a] = IF @ = None THEN d
                                  ELSE [@ EXCEPT !.enabled = d.enabled, !.status = d.status]]
PublishApp(c) ==
  LET pc == request[c].pc
  IN /\ pc \in {"publishStart", "publishReady", "publishFailed", "publishRepair"}
     /\ \/ /\ registry' = Published(request[c].region, request[c].app, request[c].doc.born)
           /\ request' = IF pc = "publishStart" THEN Step(c, "provision") ELSE Done(c)
           /\ meshLock' = IF pc = "publishStart" THEN meshLock ELSE FreeMesh(c)
        \/ /\ UNCHANGED registry
           /\ request' = IF pc \in {"publishStart", "publishReady"} THEN Step(c, "failed") ELSE Done(c)
           /\ meshLock' = FreeMesh(c)
     /\ UNCHANGED <<projection, pulled, deleted, verified>>

-----------------------------------------------------------------------------
(* reconcile_replication_policies_task of the authority: the documents are *)
(* read first, each is repaired and saved later under its lock.            *)
RepairApp(c, a) ==
  (projection[Authority][a] # None => projection[Authority][a].enabled) /\ AskApp(c, "repair", Authority, a)

RepairLocked(c) ==
  LET a == request[c].app
  IN /\ request[c].pc = "repair"
     /\ IF meshLock[a] = None
        THEN request' = Step(c, "repairing") /\ meshLock' = [meshLock EXCEPT ![a] = c]
        ELSE request' = Done(c) /\ UNCHANGED meshLock
     /\ UNCHANGED <<registry, projection, pulled, deleted, verified>>

\* Without an authoritative quota nothing is saved; nor when all is well.
RepairChecked(c) ==
  /\ request[c].pc = "repairing"
  /\ \/ /\ registry[request[c].app] = None \/ request[c].doc.status = "ready"
        /\ request' = Done(c) /\ meshLock' = FreeMesh(c)
     \/ /\ registry[request[c].app] # None
        /\ \E s \in {"ready", "degraded"} :
             /\ s # "ready" \/ request[c].doc.status # "ready"
             /\ request' = [request EXCEPT ![c].pc = "repaired", ![c].doc.status = s]
        /\ UNCHANGED meshLock
  /\ UNCHANGED <<registry, projection, pulled, deleted, verified>>

SaveRepaired(c) ==
  /\ request[c].pc = "repaired"
  /\ \/ SaveCopy(c, request[c].doc) /\ request' = Step(c, "publishRepair") /\ UNCHANGED meshLock
     \/ UNCHANGED projection /\ request' = Done(c) /\ meshLock' = FreeMesh(c)
  /\ UNCHANGED <<registry, pulled, deleted, verified>>

-----------------------------------------------------------------------------
(* A pull or a watch event reads the key; each application in it, and each *)
(* one missing from it, is applied later.  A pull passes over an empty key.*)
Fetch(r, a) ==
  /\ pulled[r] = None
  /\ Cardinality({s \in Regions : pulled[s] # None}) < MaxPulled
  /\ pulled' = [pulled EXCEPT ![r] = [app |-> a, entry |-> registry[a]]]
  /\ UNCHANGED <<registry, projection, meshLock, request, deleted, verified>>
Empty == \A a \in Apps : registry[a] = None
PullApp(r, a) == ~Empty /\ Fetch(r, a)
AppEventArrives(r, a) == Empty /\ Fetch(r, a)

ApplyApp(r) ==
  LET a == pulled[r].app  e == pulled[r].entry
  IN /\ pulled[r] # None
     /\ projection' = IF e = None THEN [projection EXCEPT ![r][a] = None] ELSE Projected(r, a, e)
     /\ pulled' = [pulled EXCEPT ![r] = None]
     /\ UNCHANGED <<registry, meshLock, request, deleted, verified>>

\* The lease of a replication lock ends; its holder is not told.
MeshLeaseEnds(a) ==
  /\ meshLock[a] # None
  /\ meshLock' = [meshLock EXCEPT ![a] = None]
  /\ UNCHANGED <<registry, projection, request, pulled, deleted, verified>>

\* The process that serves a request stops.
AppCrash(c) ==
  /\ request[c].pc \notin {"new", "done"}
  /\ request' = Done(c)
  /\ UNCHANGED <<registry, projection, meshLock, pulled, deleted, verified>>

RequestStep(c) ==
  \/ ProjectApp(c) \/ UnpublishApp(c) \/ RemoveLocal(c) \/ WriteDomain(c)
  \/ EnableLocked(c) \/ Provision(c) \/ SaveReady(c) \/ SaveFailed(c) \/ PublishApp(c)
  \/ RepairLocked(c) \/ RepairChecked(c) \/ SaveRepaired(c)

AppNext ==
  \/ \E c \in Requests, r \in Regions, a \in Apps, t \in Titles : CreateApp(c, r, a, t)
  \/ \E c \in Requests, r \in Regions, a \in Apps :
       DeleteApp(c, r, a) \/ ChangeDomain(c, r, a) \/ EnableApp(c, r, a)
  \/ \E c \in Requests, a \in Apps : RepairApp(c, a)
  \/ \E c \in Requests : RequestStep(c) \/ AppCrash(c)
  \/ \E r \in Regions, a \in Apps : PullApp(r, a) \/ AppEventArrives(r, a)
  \/ \E r \in Regions : ApplyApp(r)
  \/ \E a \in Apps : MeshLeaseEnds(a)

AppFairness ==
  /\ \A c \in Requests : WF_avars(RequestStep(c))
  /\ \A r \in Regions : WF_avars(ApplyApp(r))
  /\ \A r \in Regions, a \in Apps : WF_avars(PullApp(r, a))

AppSpec == AppInit /\ [][AppNext]_avars
AppFairSpec == AppSpec /\ AppFairness

-----------------------------------------------------------------------------
AppTypeOK ==
  /\ registry \in [Apps -> AppEntries \cup {None}]
  /\ projection \in [Regions -> [Apps -> AppEntries \cup {None}]]
  /\ meshLock \in [Apps -> Requests \cup {None}]
  /\ \A c \in Requests : request[c].pc \notin {"new", "done"} =>
       request[c].region \in Regions /\ request[c].app \in Apps /\ request[c].doc \in AppEntries
  /\ \A r \in Regions : pulled[r] # None =>
       pulled[r].app \in Apps /\ pulled[r].entry \in AppEntries \cup {None}
  /\ deleted \cup verified \subseteq Requests \cup {First}

\* An application is enabled in Etcd only after its full mesh passed the check,
\* its own or that of a deleted one whose delayed copy still bears its name.
EnabledWasVerified == \A a \in Apps :
  registry[a] # None => (registry[a].enabled => ({registry[a].born} \cup deleted) \cap verified # {})

\* A region's document is the application's entry; two entries share a name.
InStep(r, a) == projection[r][a] = registry[a]
TitleClash == \E a, b \in Apps : a # b /\ registry[a] # None /\ registry[b] # None /\ registry[a].title = registry[b].title

\* When the requests are over every projection becomes the registry, except
\* for an application whose shown name is taken twice, and unless no
\* application is left.
ProjectionsConverge == \A r \in Regions, a \in Apps : <>[](InStep(r, a) \/ TitleClash \/ Empty)

\* ... as "Watch and the full reconciliation every 120 seconds" promise: also
\* of the last application.
LastIsRemoved == \A r \in Regions, a \in Apps : <>[](InStep(r, a) \/ TitleClash)
=============================================================================
