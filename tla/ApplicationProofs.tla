------------------------- MODULE ApplicationProofs -------------------------
(***************************************************************************)
(* That an application is enabled for a check it passed, and that the      *)
(* limits of its quota are approved ones and a failed change of them is    *)
(* undone, for any number of regions, applications and requests.           *)
(***************************************************************************)
EXTENDS ApplicationRegistry, QuotaLimit, TLAPS

(* The registry of applications.                                           *)
Phases == {"project", "unpublish", "remove", "domain", "enable", "publishStart", "provision", "ready",
           "publishReady", "failed", "publishFailed", "repair", "repairing", "repaired", "publishRepair"}
OpenRequests == [pc : Phases, region : Regions, app : Apps, doc : AppEntries]
RequestStates == [pc : {"new", "done"}] \cup OpenRequests
Registries == [Apps -> AppEntries \cup {None}]
Births == Requests \cup {First}
AppTypes ==
  /\ registry \in Registries /\ projection \in [Regions -> Registries]
  /\ meshLock \in [Apps -> Requests \cup {None}] /\ request \in [Requests -> RequestStates]
  /\ pulled \in [Regions -> [app : Apps, entry : AppEntries \cup {None}] \cup {None}]
  /\ deleted \subseteq Births /\ verified \subseteq Births

\* A copy of an application is enabled for its own check or a deleted one's,
\* and is of the application that is registered, or of a deleted one.
Vetted(d, del, ver) == d.enabled => ({d.born} \cup del) \cap ver # {}
Known(d, e, del) == d.born \in del \/ (e # None /\ e.born = d.born)
Fit(d, e, del, ver) == Vetted(d, del, ver) /\ Known(d, e, del)

CopiesFit ==
  /\ \A r \in Regions, a \in Apps : projection[r][a] # None =>
       Fit(projection[r][a], registry[a], deleted, verified)
  /\ \A c \in Requests : request[c].pc \in Phases =>
       Fit(request[c].doc, registry[request[c].app], deleted, verified)
  /\ \A r \in Regions : pulled[r] # None /\ pulled[r].entry # None =>
       Fit(pulled[r].entry, registry[pulled[r].app], deleted, verified)
ReadyIsVerified == \A c \in Requests : request[c].pc = "ready" => request[c].doc.born \in verified
EntriesVetted == \A a \in Apps : registry[a] # None => Vetted(registry[a], deleted, verified)
AppInv == AppTypes /\ CopiesFit /\ ReadyIsVerified /\ EntriesVetted

\* An entry goes only to the deleted, and one that stays keeps its birth.
Lawful(e, e2, del2) == e2 = e \/ e = None \/ e.born \in del2 \/ (e2 # None /\ e2.born = e.born)

LEMMA FitStays ==
  ASSUME NEW d, NEW e, NEW e2, NEW del, NEW del2, NEW ver, NEW ver2, del \subseteq del2, ver \subseteq ver2,
         Lawful(e, e2, del2), Fit(d, e, del, ver)
  PROVE  Fit(d, e2, del2, ver2)
<1>1. Vetted(d, del2, ver2)
  BY DEF Fit, Vetted
<1>2. Known(d, e2, del2)
  BY DEF Fit, Known, Lawful
<1> QED BY <1>1, <1>2 DEF Fit

LEMMA VettedStays ==
  ASSUME NEW d, NEW del, NEW del2, NEW ver, NEW ver2, del \subseteq del2, ver \subseteq ver2, Vetted(d, del, ver)
  PROVE  Vetted(d, del2, ver2)
BY DEF Vetted

LEMMA RequestRecords ==
  ASSUME NEW x \in RequestStates
  PROVE  /\ x.pc \in Phases => x \in OpenRequests
         /\ x.pc \notin {"new", "done"} => x \in OpenRequests
BY DEF RequestStates, OpenRequests, Phases

\* What a step of a request has to show.
LEMMA StepFits ==
  ASSUME AppInv, NEW c \in Requests, NEW x \in RequestStates, request' = [request EXCEPT ![c] = x],
         registry' \in Registries, projection' \in [Regions -> Registries],
         meshLock' \in [Apps -> Requests \cup {None}], pulled' = pulled,
         deleted \subseteq deleted', verified \subseteq verified', deleted' \subseteq Births, verified' \subseteq Births,
         \A a \in Apps : Lawful(registry[a], registry'[a], deleted'),
         \A a \in Apps : registry'[a] # None => registry'[a] = registry[a] \/ Vetted(registry'[a], deleted', verified'),
         \A r \in Regions, a \in Apps : projection'[r][a] # None =>
            projection'[r][a] = projection[r][a] \/ Fit(projection'[r][a], registry'[a], deleted', verified'),
         x.pc \in Phases => Fit(x.doc, registry'[x.app], deleted', verified'),
         x.pc = "ready" => x.doc.born \in verified'
  PROVE  AppInv'
<1>1. /\ request' \in [Requests -> RequestStates] /\ request'[c] = x
      /\ \A k \in Requests : k # c => request'[k] = request[k]
  BY DEF AppInv, AppTypes
<1>2. AppTypes'
  BY <1>1 DEF AppInv, AppTypes
<1>3. \A d, a : a \in Apps /\ Fit(d, registry[a], deleted, verified) => Fit(d, registry'[a], deleted', verified')
  BY FitStays
<1>4. \A r \in Regions, a \in Apps : projection'[r][a] # None =>
        Fit(projection'[r][a], registry'[a], deleted', verified')
  BY <1>3 DEF AppInv, CopiesFit
<1>5. ASSUME NEW k \in Requests, request'[k].pc \in Phases
      PROVE  Fit(request'[k].doc, registry'[request'[k].app], deleted', verified')
  <2>1. CASE k = c
    BY <2>1, <1>1, <1>5
  <2>2. CASE k # c
    <3>1. request'[k] = request[k] /\ request[k] \in OpenRequests
      BY <2>2, <1>1, <1>5, RequestRecords DEF AppInv, AppTypes
    <3>2. request[k].app \in Apps
      BY <3>1 DEF OpenRequests
    <3> QED BY <3>1, <3>2, <1>3, <1>5 DEF AppInv, CopiesFit
  <2> QED BY <2>1, <2>2
<1>6. ASSUME NEW r \in Regions, pulled[r] # None, pulled[r].entry # None
      PROVE  Fit(pulled[r].entry, registry'[pulled[r].app], deleted', verified')
  <2>1. pulled[r].app \in Apps
    BY <1>6 DEF AppInv, AppTypes
  <2> QED BY <2>1, <1>3, <1>6 DEF AppInv, CopiesFit
<1>7. CopiesFit'
  BY <1>4, <1>5, <1>6 DEF CopiesFit
<1>8. ReadyIsVerified'
  BY <1>1 DEF AppInv, ReadyIsVerified
<1>9. EntriesVetted'
  BY VettedStays DEF AppInv, EntriesVetted
<1> QED BY <1>2, <1>7, <1>8, <1>9 DEF AppInv

\* A request that leaves the registry alone.
LEMMA QuietStepFits ==
  ASSUME AppInv, NEW c \in Requests, NEW x \in RequestStates, request' = [request EXCEPT ![c] = x],
         UNCHANGED <<registry, pulled, deleted, verified>>,
         projection' \in [Regions -> Registries], meshLock' \in [Apps -> Requests \cup {None}],
         \A r \in Regions, a \in Apps : projection'[r][a] # None =>
            projection'[r][a] = projection[r][a] \/ Fit(projection'[r][a], registry[a], deleted, verified),
         x.pc \in Phases => Fit(x.doc, registry[x.app], deleted, verified),
         x.pc = "ready" => x.doc.born \in verified
  PROVE  AppInv'
<1>1. \A a \in Apps : Lawful(registry[a], registry'[a], deleted')
  BY DEF Lawful
<1>2. registry' \in Registries /\ deleted' \subseteq Births /\ verified' \subseteq Births
  BY DEF AppInv, AppTypes
<1> QED BY <1>1, <1>2, StepFits

\* A copy that is saved with another status, or disabled, fits as it did.
LEMMA SavedFits ==
  ASSUME NEW d \in AppEntries, NEW e, NEW del, NEW ver, Fit(d, e, del, ver),
         NEW s \in {"pending", "provisioning", "ready", "failed", "degraded"}, NEW b \in BOOLEAN,
         b => d.born \in ver
  PROVE  /\ [d EXCEPT !.status = s, !.enabled = b] \in AppEntries
         /\ [d EXCEPT !.status = s, !.enabled = b].born = d.born
         /\ Fit([d EXCEPT !.status = s, !.enabled = b], e, del, ver)
<1> DEFINE f == [d EXCEPT !.status = s, !.enabled = b]
<1>1. f \in AppEntries /\ f.born = d.born /\ f.enabled = b
  BY DEF AppEntries
<1> HIDE DEF f
<1>2. f.enabled => f.born \in ver
  BY <1>1
<1>3. Vetted(f, del, ver)
  BY <1>2 DEF Vetted
<1>4. Known(f, e, del)
  BY <1>1 DEF Fit, Known
<1>5. f \in AppEntries /\ f.born = d.born /\ Fit(f, e, del, ver)
  BY <1>1, <1>3, <1>4 DEF Fit
<1> QED BY <1>5 DEF f

LEMMA RestatedFits ==
  ASSUME NEW d \in AppEntries, NEW e, NEW del, NEW ver, Fit(d, e, del, ver),
         NEW f \in AppEntries, f.born = d.born, f.enabled = d.enabled
  PROVE  Fit(f, e, del, ver)
BY DEF Fit, Vetted, Known

LEMMA CopySaved ==
  ASSUME AppInv, NEW r \in Regions, NEW a \in Apps, NEW d \in AppEntries \cup {None},
         d # None => Fit(d, registry[a], deleted, verified),
         projection' = [projection EXCEPT ![r][a] = d]
  PROVE  /\ projection' \in [Regions -> Registries]
         /\ \A s \in Regions, b \in Apps : projection'[s][b] # None =>
              projection'[s][b] = projection[s][b] \/ Fit(projection'[s][b], registry[b], deleted, verified)
<1>1. projection' \in [Regions -> Registries]
  BY DEF AppInv, AppTypes, Registries
<1>2. \A s \in Regions, b \in Apps : projection'[s][b] = projection[s][b] \/ (b = a /\ projection'[s][b] = d)
  BY DEF AppInv, AppTypes, Registries
<1> QED BY <1>1, <1>2

LEMMA OpenIs ==
  ASSUME AppInv, NEW c \in Requests, request[c].pc \notin {"new", "done"}
  PROVE  /\ request[c] \in OpenRequests /\ request[c].region \in Regions /\ request[c].app \in Apps
         /\ request[c].doc \in AppEntries /\ request[c].pc \in Phases
         /\ Fit(request[c].doc, registry[request[c].app], deleted, verified)
<1>1. request[c] \in OpenRequests
  BY RequestRecords DEF AppInv, AppTypes
<1> QED BY <1>1 DEF OpenRequests, AppInv, CopiesFit

\* The shapes of a step.
LEMMA DoneIs == [pc |-> "done"] \in RequestStates /\ "done" \notin Phases
BY DEF RequestStates, Phases
LEMMA StepIs ==
  ASSUME AppInv, NEW c \in Requests, NEW pc \in Phases, request[c].pc \notin {"new", "done"}
  PROVE  /\ [request[c] EXCEPT !.pc = pc] \in OpenRequests
         /\ [request[c] EXCEPT !.pc = pc].pc = pc
         /\ [request[c] EXCEPT !.pc = pc].app = request[c].app /\ [request[c] EXCEPT !.pc = pc].doc = request[c].doc
         /\ Step(c, pc) = [request EXCEPT ![c] = [request[c] EXCEPT !.pc = pc]]
BY OpenIs DEF OpenRequests, Step, AppInv, AppTypes
LEMMA MeshIs ==
  ASSUME AppInv, NEW c \in Requests, request[c].pc \notin {"new", "done"}
  PROVE  FreeMesh(c) \in [Apps -> Requests \cup {None}]
BY OpenIs DEF FreeMesh, AppInv, AppTypes
LEMMA NothingSaved ==
  ASSUME AppInv, projection' = projection
  PROVE  /\ projection' \in [Regions -> Registries]
         /\ \A s \in Regions, b \in Apps : projection'[s][b] # None =>
              projection'[s][b] = projection[s][b] \/ Fit(projection'[s][b], registry[b], deleted, verified)
BY DEF AppInv, AppTypes

LEMMA GoesOn ==
  ASSUME AppInv, NEW c \in Requests, request[c].pc \notin {"new", "done"},
         request' = Done(c) \/ \E pc \in Phases \ {"ready"} : request' = Step(c, pc),
         UNCHANGED <<registry, pulled, deleted, verified>>,
         projection' \in [Regions -> Registries], meshLock' \in [Apps -> Requests \cup {None}],
         \A s \in Regions, b \in Apps : projection'[s][b] # None =>
           projection'[s][b] = projection[s][b] \/ Fit(projection'[s][b], registry[b], deleted, verified)
  PROVE  AppInv'
<1>1. CASE request' = Done(c)
  <2> DEFINE x == [pc |-> "done"]
  <2>1. x \in RequestStates /\ x.pc \notin Phases /\ x.pc # "ready"
    BY DoneIs
  <2>2. request' = [request EXCEPT ![c] = x]
    BY <1>1 DEF Done
  <2> HIDE DEF x
  <2> QED BY <2>1, <2>2, QuietStepFits
<1>2. ASSUME NEW pc \in Phases \ {"ready"}, request' = Step(c, pc) PROVE AppInv'
  <2> DEFINE x == [request[c] EXCEPT !.pc = pc]
  <2>1. x \in OpenRequests /\ x.pc = pc /\ x.app = request[c].app /\ x.doc = request[c].doc
        /\ request' = [request EXCEPT ![c] = x]
    BY <1>2, StepIs
  <2> HIDE DEF x
  <2>2. x \in RequestStates /\ x.pc # "ready"
    BY <2>1 DEF RequestStates
  <2>3. Fit(x.doc, registry[x.app], deleted, verified)
    BY <2>1, OpenIs
  <2> QED BY <2>1, <2>2, <2>3, QuietStepFits
<1> QED BY <1>1, <1>2

LEMMA GoesOnWith ==
  ASSUME AppInv, NEW c \in Requests, request[c].pc \notin {"new", "done"},
         NEW pc \in Phases \ {"ready"}, NEW d \in AppEntries,
         Fit(d, registry[request[c].app], deleted, verified),
         request' = [request EXCEPT ![c].pc = pc, ![c].doc = d],
         UNCHANGED <<registry, pulled, deleted, verified>>,
         projection' \in [Regions -> Registries], meshLock' \in [Apps -> Requests \cup {None}],
         \A s \in Regions, b \in Apps : projection'[s][b] # None =>
           projection'[s][b] = projection[s][b] \/ Fit(projection'[s][b], registry[b], deleted, verified)
  PROVE  AppInv'
<1> DEFINE x == [request[c] EXCEPT !.pc = pc, !.doc = d]
<1>1. x \in OpenRequests /\ x.pc = pc /\ x.app = request[c].app /\ x.doc = d
  BY OpenIs DEF OpenRequests
<1>a. request' = [request EXCEPT ![c] = x]
  BY DEF AppInv, AppTypes
<1> HIDE DEF x
<1>2. x \in RequestStates /\ x.pc # "ready"
  BY <1>1 DEF RequestStates
<1>3. Fit(x.doc, registry[x.app], deleted, verified)
  BY <1>1
<1> QED BY <1>1, <1>a, <1>2, <1>3, QuietStepFits

LEMMA AppStarts == AppInit => AppInv
<1> SUFFICES ASSUME AppInit PROVE AppInv
  OBVIOUS
<1>1. PICK a \in Apps, t \in Titles, on \in BOOLEAN :
        /\ registry = [b \in Apps |->
             IF b # a THEN None
             ELSE [NewApp(t, First) EXCEPT !.enabled = on, !.status = IF on THEN "ready" ELSE "pending"]]
        /\ verified = IF on THEN {First} ELSE {}
  BY DEF AppInit
<1> DEFINE e == [NewApp(t, First) EXCEPT !.enabled = on, !.status = IF on THEN "ready" ELSE "pending"]
<1>2. e \in AppEntries /\ e.enabled = on /\ e.born = First
  BY DEF AppEntries, NewApp
<1>3. registry = [b \in Apps |-> IF b # a THEN None ELSE e]
  BY <1>1
<1> HIDE DEF e
<1>4. verified \subseteq {First} /\ (on => First \in verified) /\ deleted = {}
  BY <1>1 DEF AppInit
<1>5. registry \in Registries /\ \A b \in Apps : registry[b] # None => registry[b] = e
  BY <1>2, <1>3 DEF Registries
<1>6. /\ projection = [r \in Regions |-> registry] /\ meshLock = [b \in Apps |-> None]
      /\ request = [c \in Requests |-> Unused] /\ pulled = [r \in Regions |-> None]
  BY DEF AppInit
<1>7. [pc |-> "new"] \in RequestStates /\ "new" \notin Phases
  BY DEF RequestStates, Phases
<1>8. request \in [Requests -> RequestStates] /\ \A c \in Requests : request[c].pc = "new"
  BY <1>6, <1>7 DEF Unused
<1>9. AppTypes
  BY <1>4, <1>5, <1>6, <1>8 DEF AppTypes, Births
<1>10. Vetted(e, deleted, verified)
  BY <1>2, <1>4 DEF Vetted
<1>11. \A b \in Apps : registry[b] # None => Fit(registry[b], registry[b], deleted, verified)
  BY <1>5, <1>10 DEF Fit, Known
<1>12. CopiesFit /\ ReadyIsVerified
  BY <1>6, <1>7, <1>8, <1>11 DEF CopiesFit, ReadyIsVerified
<1>13. EntriesVetted
  BY <1>11 DEF EntriesVetted, Fit
<1> QED BY <1>9, <1>12, <1>13 DEF AppInv

LEMMA NewAppIs ==
  ASSUME NEW t \in Titles, NEW c \in Births
  PROVE  NewApp(t, c) \in AppEntries /\ NewApp(t, c).born = c /\ ~NewApp(t, c).enabled
BY DEF NewApp, AppEntries, Births

LEMMA OpenTypes ==
  ASSUME NEW pc \in Phases, NEW r \in Regions, NEW a \in Apps, NEW d \in AppEntries
  PROVE  /\ [pc |-> pc, region |-> r, app |-> a, doc |-> d] \in RequestStates
         /\ [pc |-> pc, region |-> r, app |-> a, doc |-> d] \in OpenRequests
BY DEF RequestStates, OpenRequests

LEMMA CreateAppFits ==
  ASSUME AppInv, NEW c \in Requests, NEW r \in Regions, NEW a \in Apps, NEW t \in Titles, CreateApp(c, r, a, t)
  PROVE  AppInv'
<1> DEFINE n == NewApp(t, c)
           x == [pc |-> "project", region |-> r, app |-> a, doc |-> NewApp(t, c)]
<1>1. n \in AppEntries /\ n.born = c /\ ~n.enabled /\ n # None
  BY NewAppIs, NoneIsNoAppEntry DEF Births
<1>2. x \in RequestStates /\ x.pc = "project" /\ x.app = a /\ x.doc = n
  BY <1>1, OpenTypes DEF Phases
<1>3. /\ registry[a] = None /\ registry' = [registry EXCEPT ![a] = n]
      /\ request' = [request EXCEPT ![c] = x] /\ UNCHANGED <<projection, meshLock, pulled, deleted, verified>>
  BY DEF CreateApp, Open
<1> HIDE DEF n, x
<1>4. registry' \in Registries /\ registry'[a] = n /\ \A b \in Apps : b # a => registry'[b] = registry[b]
  BY <1>1, <1>3 DEF AppInv, AppTypes, Registries
<1>5. \A b \in Apps : Lawful(registry[b], registry'[b], deleted')
  BY <1>3, <1>4 DEF Lawful
<1>6. Fit(n, registry'[a], deleted', verified')
  BY <1>1, <1>4 DEF Fit, Vetted, Known
<1>7. \A b \in Apps : registry'[b] # None => registry'[b] = registry[b] \/ Vetted(registry'[b], deleted', verified')
  BY <1>4, <1>6 DEF Fit
<1>8. /\ projection' \in [Regions -> Registries] /\ meshLock' \in [Apps -> Requests \cup {None}]
      /\ deleted' \subseteq Births /\ verified' \subseteq Births
  BY <1>3 DEF AppInv, AppTypes
<1>9. Fit(x.doc, registry'[x.app], deleted', verified') /\ x.pc # "ready"
  BY <1>2, <1>6
<1> QED BY <1>2, <1>3, <1>4, <1>5, <1>7, <1>8, <1>9, StepFits

LEMMA AskAppFits ==
  ASSUME AppInv, NEW c \in Requests, NEW pc \in Phases \ {"ready"}, NEW r \in Regions, NEW a \in Apps,
         AskApp(c, pc, r, a)
  PROVE  AppInv'
<1> DEFINE x == [pc |-> pc, region |-> r, app |-> a, doc |-> projection[r][a]]
<1>1. projection[r][a] # None /\ projection[r][a] \in AppEntries
  BY DEF AskApp, AppInv, AppTypes, Registries
<1>2. Fit(projection[r][a], registry[a], deleted, verified)
  BY <1>1 DEF AppInv, CopiesFit
<1>3. x \in RequestStates /\ x.pc = pc /\ x.app = a /\ x.doc = projection[r][a]
  BY <1>1, OpenTypes
<1>4. request' = [request EXCEPT ![c] = x] /\ UNCHANGED <<registry, projection, meshLock, pulled, deleted, verified>>
  BY DEF AskApp, Open
<1> HIDE DEF x
<1>5. meshLock' \in [Apps -> Requests \cup {None}]
  BY <1>4 DEF AppInv, AppTypes
<1> QED BY <1>2, <1>3, <1>4, <1>5, NothingSaved, QuietStepFits

LEMMA ChangeDomainFits ==
  ASSUME AppInv, NEW c \in Requests, NEW r \in Regions, NEW a \in Apps, ChangeDomain(c, r, a)
  PROVE  AppInv'
<1>1. projection[r][a] # None /\ projection[r][a] \in AppEntries
  BY DEF ChangeDomain, AppInv, AppTypes, Registries
<1>2. Fit(projection[r][a], registry[a], deleted, verified)
  BY <1>1 DEF AppInv, CopiesFit
<1>3. registry[a] # None => registry[a] \in AppEntries
  BY DEF AppInv, AppTypes, Registries
<1>4. PICK list \in SUBSET Requests : request' = Open(c, "domain", r, a, [projection[r][a] EXCEPT !.domains = list])
  BY <1>1, <1>3 DEF ChangeDomain, AppEntries
<1> DEFINE d == [projection[r][a] EXCEPT !.domains = list]
           x == [pc |-> "domain", region |-> r, app |-> a, doc |-> [projection[r][a] EXCEPT !.domains = list]]
<1>5. d \in AppEntries /\ d.born = projection[r][a].born /\ d.enabled = projection[r][a].enabled
  BY <1>1 DEF AppEntries
<1>6. x \in RequestStates /\ x.pc = "domain" /\ x.app = a /\ x.doc = d
  BY <1>5, OpenTypes DEF Phases
<1>7. request' = [request EXCEPT ![c] = x] /\ UNCHANGED <<registry, projection, meshLock, pulled, deleted, verified>>
  BY <1>4 DEF ChangeDomain, Open
<1> HIDE DEF x, d
<1>8. Fit(d, registry[a], deleted, verified)
  BY <1>1, <1>2, <1>5, RestatedFits
<1>9. meshLock' \in [Apps -> Requests \cup {None}]
  BY <1>7 DEF AppInv, AppTypes
<1>10. Fit(x.doc, registry[x.app], deleted, verified) /\ x.pc # "ready"
  BY <1>6, <1>8
<1> QED BY <1>6, <1>7, <1>9, <1>10, NothingSaved, QuietStepFits
LEMMA DisabledFits ==
  ASSUME NEW d \in AppEntries, NEW e, NEW del, NEW ver, Fit(d, e, del, ver),
         NEW s \in {"pending", "provisioning", "ready", "failed", "degraded"}
  PROVE  /\ [d EXCEPT !.status = s, !.enabled = FALSE] \in AppEntries
         /\ Fit([d EXCEPT !.status = s, !.enabled = FALSE], e, del, ver)
<1> DEFINE no == FALSE
<1>1. no \in BOOLEAN /\ ~no
  OBVIOUS
<1> HIDE DEF no
<1>2. /\ [d EXCEPT !.status = s, !.enabled = no] \in AppEntries
      /\ Fit([d EXCEPT !.status = s, !.enabled = no], e, del, ver)
  BY <1>1, SavedFits
<1> QED BY <1>2, Zenon DEF no

LEMMA EnabledFits ==
  ASSUME NEW d \in AppEntries, NEW e, NEW del, NEW ver, Fit(d, e, del, ver), d.born \in ver,
         NEW s \in {"pending", "provisioning", "ready", "failed", "degraded"}
  PROVE  /\ [d EXCEPT !.status = s, !.enabled = TRUE] \in AppEntries
         /\ Fit([d EXCEPT !.status = s, !.enabled = TRUE], e, del, ver)
<1> DEFINE yes == TRUE
<1>1. yes \in BOOLEAN
  OBVIOUS
<1> HIDE DEF yes
<1>2. /\ [d EXCEPT !.status = s, !.enabled = yes] \in AppEntries
      /\ Fit([d EXCEPT !.status = s, !.enabled = yes], e, del, ver)
  BY <1>1, SavedFits
<1> QED BY <1>2, Zenon DEF yes

\* What a step of a request saves.
Safe == /\ projection' \in [Regions -> Registries]
        /\ \A s \in Regions, b \in Apps : projection'[s][b] # None =>
             projection'[s][b] = projection[s][b] \/ Fit(projection'[s][b], registry[b], deleted, verified)

LEMMA SaveIsSafe ==
  ASSUME AppInv, NEW c \in Requests, request[c].pc \notin {"new", "done"},
         NEW d \in AppEntries, Fit(d, registry[request[c].app], deleted, verified), SaveCopy(c, d)
  PROVE  Safe
<1>1. request[c].region \in Regions /\ request[c].app \in Apps
  BY OpenIs
<1>2. projection' = [projection EXCEPT ![request[c].region][request[c].app] = d]
  BY DEF SaveCopy
<1> QED BY <1>1, <1>2, CopySaved DEF Safe

LEMMA ProjectAppFits ==
  ASSUME AppInv, NEW c \in Requests, ProjectApp(c)
  PROVE  AppInv'
<1>1. request[c].pc \notin {"new", "done"} /\ request' = Done(c)
      /\ UNCHANGED <<registry, meshLock, pulled, deleted, verified>>
  BY DEF ProjectApp
<1>2. /\ request[c].region \in Regions /\ request[c].app \in Apps /\ request[c].doc \in AppEntries
      /\ Fit(request[c].doc, registry[request[c].app], deleted, verified)
  BY <1>1, OpenIs
<1>3. projection' = projection \/ projection' = [projection EXCEPT ![request[c].region][request[c].app] = request[c].doc]
  BY DEF ProjectApp, Projected
<1>4. Safe
  BY <1>2, <1>3, NothingSaved, CopySaved DEF Safe
<1>5. meshLock' \in [Apps -> Requests \cup {None}]
  BY <1>1 DEF AppInv, AppTypes
<1> QED BY <1>1, <1>4, <1>5, GoesOn DEF Safe

LEMMA UnpublishAppFits ==
  ASSUME AppInv, NEW c \in Requests, UnpublishApp(c)
  PROVE  AppInv'
<1>1. request[c].pc \notin {"new", "done"} /\ UNCHANGED <<projection, meshLock, pulled, verified>>
  BY DEF UnpublishApp
<1>2. meshLock' \in [Apps -> Requests \cup {None}] /\ Safe
  BY <1>1, NothingSaved DEF AppInv, AppTypes, Safe
<1>3. CASE request' = Done(c) /\ UNCHANGED <<registry, deleted>>
  BY <1>1, <1>2, <1>3, GoesOn DEF Safe
<1>4. CASE /\ registry' = [registry EXCEPT ![request[c].app] = None]
           /\ deleted' = deleted \cup {registry[a].born : a \in {b \in {request[c].app} : registry[b] # None}}
           /\ request' = Step(c, "remove")
  <2> DEFINE a == request[c].app
             x == [request[c] EXCEPT !.pc = "remove"]
  <2>1. /\ a \in Apps /\ request[c].doc \in AppEntries
        /\ Fit(request[c].doc, registry[a], deleted, verified)
    BY <1>1, OpenIs
  <2>2. "remove" \in Phases
    BY DEF Phases
  <2>3. /\ x \in OpenRequests /\ x.pc = "remove" /\ x.app = a /\ x.doc = request[c].doc
        /\ request' = [request EXCEPT ![c] = x]
    BY <1>1, <1>4, <2>2, StepIs
  <2>4. registry' = [registry EXCEPT ![a] = None]
    BY <1>4
  <2>5. deleted \subseteq deleted' /\ (registry[a] # None => registry[a].born \in deleted')
    BY <1>4
  <2>6. deleted' \subseteq Births
    <3>1. registry[a] # None => registry[a].born \in Births
      BY <2>1 DEF AppInv, AppTypes, Registries, AppEntries, Births
    <3> QED BY <1>4, <3>1 DEF AppInv, AppTypes
  <2> HIDE DEF a, x
  <2>7. registry' \in Registries /\ registry'[a] = None /\ \A b \in Apps : b # a => registry'[b] = registry[b]
    BY <2>1, <2>4 DEF AppInv, AppTypes, Registries
  <2>8. \A b \in Apps : Lawful(registry[b], registry'[b], deleted')
    BY <2>5, <2>7 DEF Lawful
  <2>9. verified' \subseteq Births /\ verified \subseteq verified'
    BY <1>1 DEF AppInv, AppTypes
  <2>10. Fit(x.doc, registry'[x.app], deleted', verified') /\ x.pc # "ready" /\ x \in RequestStates
    BY <2>1, <2>3, <2>5, <2>8, <2>9, FitStays DEF RequestStates
  <2>11. \A b \in Apps : registry'[b] # None => registry'[b] = registry[b]
    BY <2>7
  <2>12. \A r \in Regions, b \in Apps : projection'[r][b] = projection[r][b]
    BY <1>1
  <2> QED BY <1>1, <1>2, <2>3, <2>5, <2>6, <2>7, <2>8, <2>9, <2>10, <2>11, <2>12, StepFits DEF Safe
<1> QED BY <1>3, <1>4 DEF UnpublishApp

LEMMA RemoveLocalFits ==
  ASSUME AppInv, NEW c \in Requests, RemoveLocal(c)
  PROVE  AppInv'
<1>1. request[c].pc \notin {"new", "done"} /\ request' = Done(c)
      /\ UNCHANGED <<registry, meshLock, pulled, deleted, verified>>
  BY DEF RemoveLocal
<1> DEFINE r == request[c].region
           a == request[c].app
           d == IF projection[r][a] # None /\ projection[r][a].born = request[c].doc.born THEN None ELSE projection[r][a]
<1>2. r \in Regions /\ a \in Apps
  BY <1>1, OpenIs
<1>3. projection' = [projection EXCEPT ![r][a] = d]
  BY <1>2 DEF RemoveLocal, AppInv, AppTypes, Registries
<1>4. d \in AppEntries \cup {None} /\ (d # None => Fit(d, registry[a], deleted, verified))
  BY <1>2 DEF AppInv, AppTypes, Registries, CopiesFit
<1> HIDE DEF r, a, d
<1>5. Safe
  BY <1>2, <1>3, <1>4, CopySaved DEF Safe
<1>6. meshLock' \in [Apps -> Requests \cup {None}]
  BY <1>1 DEF AppInv, AppTypes
<1> QED BY <1>1, <1>5, <1>6, GoesOn DEF Safe

LEMMA WriteDomainFits ==
  ASSUME AppInv, NEW c \in Requests, WriteDomain(c)
  PROVE  AppInv'
<1> DEFINE a == request[c].app
           d == request[c].doc
           n == IF registry[a] = None THEN d ELSE [registry[a] EXCEPT !.domains = d.domains]
           x == [request[c] EXCEPT !.pc = "project", !.doc = n]
<1>1. request[c].pc \notin {"new", "done"} /\ UNCHANGED <<projection, meshLock, pulled, deleted, verified>>
  BY DEF WriteDomain
<1>2. a \in Apps /\ d \in AppEntries /\ Fit(d, registry[a], deleted, verified) /\ request[c] \in OpenRequests
  BY <1>1, OpenIs
<1>3. registry' = [registry EXCEPT ![a] = n]
  BY DEF WriteDomain
<1>a. registry[a] \in AppEntries \cup {None}
  BY <1>2 DEF AppInv, AppTypes, Registries
<1>4. /\ n \in AppEntries
      /\ registry[a] = None => n = d
      /\ registry[a] # None => n.born = registry[a].born /\ n.enabled = registry[a].enabled
  BY <1>2, <1>a DEF AppEntries
<1>5. request' = [request EXCEPT ![c] = x]
  BY DEF WriteDomain, AppInv, AppTypes
<1>6. x \in OpenRequests /\ x.pc = "project" /\ x.app = a /\ x.doc = n
  BY <1>2, <1>4 DEF OpenRequests, Phases
<1> HIDE DEF a, d, n, x
<1>7. n # None
  BY <1>4, NoneIsNoAppEntry
<1>8. registry' \in Registries /\ registry'[a] = n /\ \A b \in Apps : b # a => registry'[b] = registry[b]
  BY <1>2, <1>3, <1>4 DEF AppInv, AppTypes, Registries
<1>9. \A b \in Apps : Lawful(registry[b], registry'[b], deleted')
  BY <1>4, <1>7, <1>8 DEF Lawful
<1>10. Vetted(n, deleted, verified)
  <2>1. CASE registry[a] = None
    BY <2>1, <1>2, <1>4 DEF Fit
  <2>2. CASE registry[a] # None
    BY <2>2, <1>2, <1>4 DEF AppInv, EntriesVetted, Vetted
  <2> QED BY <2>1, <2>2
<1>11. Fit(n, registry'[a], deleted', verified')
  BY <1>1, <1>7, <1>8, <1>10 DEF Fit, Known
<1>12. \A b \in Apps : registry'[b] # None => registry'[b] = registry[b] \/ Vetted(registry'[b], deleted', verified')
  BY <1>8, <1>11 DEF Fit
<1>13. /\ projection' \in [Regions -> Registries] /\ meshLock' \in [Apps -> Requests \cup {None}]
       /\ deleted' \subseteq Births /\ verified' \subseteq Births
  BY <1>1 DEF AppInv, AppTypes
<1>14. Fit(x.doc, registry'[x.app], deleted', verified') /\ x.pc # "ready" /\ x \in RequestStates
  BY <1>6, <1>11 DEF RequestStates
<1> QED BY <1>1, <1>5, <1>8, <1>9, <1>12, <1>13, <1>14, StepFits
LEMMA EnableLockedFits ==
  ASSUME AppInv, NEW c \in Requests, EnableLocked(c)
  PROVE  AppInv'
<1> DEFINE a == request[c].app
           d == projection[request[c].region][a]
           d2 == [d EXCEPT !.status = "provisioning", !.enabled = FALSE]
<1>1. request[c].pc \notin {"new", "done"} /\ UNCHANGED <<registry, pulled, deleted, verified>>
  BY DEF EnableLocked
<1>2. a \in Apps /\ request[c].region \in Regions
  BY <1>1, OpenIs
<1>3. CASE request' = Done(c) /\ UNCHANGED <<meshLock, projection>>
  <2>1. meshLock' \in [Apps -> Requests \cup {None}] /\ Safe
    BY <1>3, NothingSaved DEF AppInv, AppTypes, Safe
  <2> QED BY <1>1, <1>3, <2>1, GoesOn DEF Safe
<1>4. CASE /\ meshLock[a] = None /\ d # None /\ meshLock' = [meshLock EXCEPT ![a] = c] /\ SaveCopy(c, d2)
           /\ request' = [request EXCEPT ![c].pc = "publishStart", ![c].doc = d2]
  <2>1. d \in AppEntries /\ Fit(d, registry[a], deleted, verified)
    BY <1>2, <1>4 DEF AppInv, AppTypes, Registries, CopiesFit
  <2>2. d2 \in AppEntries /\ Fit(d2, registry[a], deleted, verified)
    BY <2>1, DisabledFits
  <2>3. meshLock' \in [Apps -> Requests \cup {None}]
    BY <1>2, <1>4 DEF AppInv, AppTypes
  <2>4. "publishStart" \in Phases \ {"ready"}
    BY DEF Phases
  <2> HIDE DEF d2
  <2>5. Safe
    BY <1>1, <1>4, <2>2, SaveIsSafe
  <2>6. request' = [request EXCEPT ![c].pc = "publishStart", ![c].doc = d2]
    BY <1>4
  <2>7. Fit(d2, registry[request[c].app], deleted, verified)
    BY <2>2
  <2> HIDE DEF a
  <2> QED BY <1>1, <2>2, <2>3, <2>4, <2>5, <2>6, <2>7, GoesOnWith DEF Safe
<1> QED BY <1>3, <1>4 DEF EnableLocked

\* The mesh is verified for the application the request holds.
LEMMA ProvisionFits ==
  ASSUME AppInv, NEW c \in Requests, Provision(c)
  PROVE  AppInv'
<1>1. request[c].pc \notin {"new", "done"} /\ UNCHANGED <<registry, projection, pulled, deleted>>
  BY DEF Provision
<1>2. /\ request[c].app \in Apps /\ request[c].doc \in AppEntries
      /\ Fit(request[c].doc, registry[request[c].app], deleted, verified)
  BY <1>1, OpenIs
<1>3. Safe
  BY <1>1, NothingSaved DEF Safe
<1>4. CASE /\ verified' = verified \cup {request[c].doc.born} /\ request' = Step(c, "ready") /\ UNCHANGED meshLock
  <2> DEFINE x == [request[c] EXCEPT !.pc = "ready"]
  <2>1. "ready" \in Phases
    BY DEF Phases
  <2>2. /\ x \in OpenRequests /\ x.pc = "ready" /\ x.app = request[c].app /\ x.doc = request[c].doc
        /\ request' = [request EXCEPT ![c] = x]
    BY <1>1, <1>4, <2>1, StepIs
  <2> HIDE DEF x
  <2>3. request[c].doc.born \in Births
    BY <1>2 DEF AppEntries, Births
  <2>4. /\ verified \subseteq verified' /\ verified' \subseteq Births /\ deleted' \subseteq Births
        /\ x.doc.born \in verified'
    BY <1>1, <1>4, <2>2, <2>3 DEF AppInv, AppTypes
  <2>5. \A b \in Apps : Lawful(registry[b], registry'[b], deleted')
    BY <1>1 DEF Lawful
  <2>6. Fit(x.doc, registry'[x.app], deleted', verified')
    BY <1>1, <1>2, <2>2, <2>4, <2>5, FitStays
  <2>7. registry' \in Registries /\ meshLock' \in [Apps -> Requests \cup {None}] /\ x \in RequestStates
    BY <1>1, <1>4, <2>2 DEF AppInv, AppTypes, RequestStates
  <2>8. \A r \in Regions, b \in Apps : projection'[r][b] = projection[r][b]
    BY <1>1
  <2> QED BY <1>1, <1>3, <2>2, <2>4, <2>5, <2>6, <2>7, <2>8, StepFits DEF Safe
<1>5. CASE request' = Step(c, "failed") /\ meshLock' = FreeMesh(c) /\ UNCHANGED verified
  <2>1. "failed" \in Phases \ {"ready"} /\ meshLock' \in [Apps -> Requests \cup {None}]
    BY <1>1, <1>5, MeshIs DEF Phases
  <2> QED BY <1>1, <1>3, <1>5, <2>1, GoesOn DEF Safe
<1> QED BY <1>4, <1>5 DEF Provision

\* Only now may a copy be enabled.
LEMMA SaveReadyFits ==
  ASSUME AppInv, NEW c \in Requests, SaveReady(c)
  PROVE  AppInv'
<1> DEFINE d == [request[c].doc EXCEPT !.status = "ready", !.enabled = TRUE]
<1>1. /\ request[c].pc = "ready" /\ request[c].pc \notin {"new", "done"}
      /\ UNCHANGED <<registry, pulled, deleted, verified>>
  BY DEF SaveReady
<1>2. /\ request[c].app \in Apps /\ request[c].doc \in AppEntries
      /\ Fit(request[c].doc, registry[request[c].app], deleted, verified)
  BY <1>1, OpenIs
<1>3. request[c].doc.born \in verified
  BY <1>1 DEF AppInv, ReadyIsVerified
<1>4. d \in AppEntries /\ Fit(d, registry[request[c].app], deleted, verified)
  BY <1>2, <1>3, EnabledFits
<1>5. CASE /\ SaveCopy(c, d) /\ UNCHANGED meshLock
           /\ request' = [request EXCEPT ![c].pc = "publishReady", ![c].doc = d]
  <2> HIDE DEF d
  <2>1. Safe /\ meshLock' \in [Apps -> Requests \cup {None}] /\ "publishReady" \in Phases \ {"ready"}
    BY <1>1, <1>4, <1>5, SaveIsSafe DEF AppInv, AppTypes, Phases
  <2>2. request' = [request EXCEPT ![c].pc = "publishReady", ![c].doc = d]
    BY <1>5
  <2> QED BY <1>1, <1>4, <2>1, <2>2, GoesOnWith DEF Safe
<1>6. CASE UNCHANGED projection /\ request' = Step(c, "failed") /\ meshLock' = FreeMesh(c)
  <2>1. "failed" \in Phases \ {"ready"} /\ meshLock' \in [Apps -> Requests \cup {None}] /\ Safe
    BY <1>1, <1>6, MeshIs, NothingSaved DEF Phases, Safe
  <2> QED BY <1>1, <1>6, <2>1, GoesOn DEF Safe
<1> QED BY <1>5, <1>6 DEF SaveReady

LEMMA SaveFailedFits ==
  ASSUME AppInv, NEW c \in Requests, SaveFailed(c)
  PROVE  AppInv'
<1> DEFINE d == [request[c].doc EXCEPT !.status = "failed", !.enabled = FALSE]
<1>1. request[c].pc \notin {"new", "done"} /\ UNCHANGED <<registry, meshLock, pulled, deleted, verified>>
  BY DEF SaveFailed
<1>2. /\ request[c].app \in Apps /\ request[c].doc \in AppEntries
      /\ Fit(request[c].doc, registry[request[c].app], deleted, verified)
  BY <1>1, OpenIs
<1>3. d \in AppEntries /\ Fit(d, registry[request[c].app], deleted, verified)
  BY <1>2, DisabledFits
<1>4. meshLock' \in [Apps -> Requests \cup {None}]
  BY <1>1 DEF AppInv, AppTypes
<1>5. CASE SaveCopy(c, d) /\ request' = [request EXCEPT ![c].pc = "publishFailed", ![c].doc = d]
  <2> HIDE DEF d
  <2>1. Safe /\ "publishFailed" \in Phases \ {"ready"}
    BY <1>1, <1>3, <1>5, SaveIsSafe DEF Phases
  <2>2. request' = [request EXCEPT ![c].pc = "publishFailed", ![c].doc = d]
    BY <1>5
  <2> QED BY <1>1, <1>3, <1>4, <2>1, <2>2, GoesOnWith DEF Safe
<1>6. CASE UNCHANGED projection /\ request' = Done(c)
  <2>1. Safe
    BY <1>6, NothingSaved DEF Safe
  <2> QED BY <1>1, <1>4, <1>6, <2>1, GoesOn DEF Safe
<1> QED BY <1>5, <1>6 DEF SaveFailed

\* What a document that is published says is true of the entry it meets.
LEMMA PublishAppFits ==
  ASSUME AppInv, NEW c \in Requests, PublishApp(c)
  PROVE  AppInv'
<1>1. request[c].pc \notin {"new", "done"} /\ UNCHANGED <<projection, pulled, deleted, verified>>
  BY DEF PublishApp
<1>2. /\ request[c].region \in Regions /\ request[c].app \in Apps
      /\ Fit(request[c].doc, registry[request[c].app], deleted, verified)
  BY <1>1, OpenIs
<1>3. Safe
  BY <1>1, NothingSaved DEF Safe
<1>4. meshLock' \in [Apps -> Requests \cup {None}]
  BY <1>1, MeshIs DEF PublishApp, AppInv, AppTypes
<1>5. request' = Done(c) \/ \E pc \in Phases \ {"ready"} : request' = Step(c, pc)
  BY DEF PublishApp, Phases
<1>6. CASE registry' = registry
  BY <1>1, <1>3, <1>4, <1>5, <1>6, GoesOn DEF Safe
<1>7. CASE registry' # registry
  <2> DEFINE a == request[c].app
             d == projection[request[c].region][a]
             n == IF registry[a] = None THEN d ELSE [registry[a] EXCEPT !.enabled = d.enabled, !.status = d.status]
  <2>1. d # None /\ registry' = [registry EXCEPT ![a] = n]
    BY <1>2, <1>7 DEF PublishApp, Published, AppInv, AppTypes, Registries
  <2>2. d \in AppEntries /\ Fit(d, registry[a], deleted, verified)
    BY <1>2, <2>1 DEF AppInv, AppTypes, Registries, CopiesFit
  <2>3. a \in Apps /\ registry[a] \in AppEntries \cup {None}
    BY <1>2 DEF AppInv, AppTypes, Registries
  <2>4. /\ n \in AppEntries
        /\ registry[a] = None => n = d
        /\ registry[a] # None => n.born = registry[a].born /\ n.enabled = d.enabled
    BY <2>2, <2>3 DEF AppEntries
  <2> HIDE DEF n, d, a
  <2>5. n # None
    BY <2>4, NoneIsNoAppEntry
  <2>6. registry' \in Registries /\ registry'[a] = n /\ \A b \in Apps : b # a => registry'[b] = registry[b]
    BY <2>1, <2>3, <2>4 DEF AppInv, AppTypes, Registries
  <2>7. \A b \in Apps : Lawful(registry[b], registry'[b], deleted')
    BY <2>4, <2>5, <2>6 DEF Lawful
  <2>8. Vetted(n, deleted, verified)
    BY <2>2, <2>4 DEF Fit, Vetted, Known
  <2>9. \A b \in Apps : registry'[b] # None => registry'[b] = registry[b] \/ Vetted(registry'[b], deleted', verified')
    BY <1>1, <2>6, <2>8
  <2>10. deleted' \subseteq Births /\ verified' \subseteq Births
    BY <1>1 DEF AppInv, AppTypes
  <2>11. \A r \in Regions, b \in Apps : projection'[r][b] = projection[r][b]
    BY <1>1
  <2>12. PICK x \in RequestStates : /\ request' = [request EXCEPT ![c] = x] /\ x.pc # "ready"
                                    /\ x.pc \in Phases => x.doc = request[c].doc /\ x.app = request[c].app
    <3>1. CASE request' = Done(c)
      BY <3>1, DoneIs DEF Done
    <3>2. ASSUME NEW pc \in Phases \ {"ready"}, request' = Step(c, pc)
          PROVE  \E x \in RequestStates : /\ request' = [request EXCEPT ![c] = x] /\ x.pc # "ready"
                                          /\ x.pc \in Phases => x.doc = request[c].doc /\ x.app = request[c].app
      <4> DEFINE x == [request[c] EXCEPT !.pc = pc]
      <4>1. /\ x \in OpenRequests /\ x.pc = pc /\ x.app = request[c].app /\ x.doc = request[c].doc
            /\ request' = [request EXCEPT ![c] = x]
        BY <1>1, <3>2, StepIs
      <4> HIDE DEF x
      <4> QED BY <4>1 DEF RequestStates
    <3> QED BY <1>5, <3>1, <3>2
  <2>13. x.pc \in Phases => Fit(x.doc, registry'[x.app], deleted', verified')
    BY <1>1, <1>2, <2>3, <2>7, <2>12, FitStays DEF a
  <2> QED BY <1>1, <1>3, <1>4, <2>6, <2>7, <2>9, <2>10, <2>11, <2>12, <2>13, StepFits DEF Safe
<1> QED BY <1>6, <1>7
LEMMA RepairAppFits ==
  ASSUME AppInv, NEW c \in Requests, RepairLocked(c) \/ RepairChecked(c) \/ SaveRepaired(c)
  PROVE  AppInv'
<1>1. request[c].pc \notin {"new", "done"} /\ UNCHANGED <<registry, pulled, deleted, verified>>
  BY DEF RepairLocked, RepairChecked, SaveRepaired
<1>2. /\ request[c].app \in Apps /\ request[c].doc \in AppEntries /\ request[c] \in OpenRequests
      /\ Fit(request[c].doc, registry[request[c].app], deleted, verified)
  BY <1>1, OpenIs
<1>3. meshLock' \in [Apps -> Requests \cup {None}]
  BY <1>1, <1>2, MeshIs DEF RepairLocked, RepairChecked, SaveRepaired, AppInv, AppTypes
<1>4. Safe
  <2>1. CASE UNCHANGED projection
    BY <2>1, NothingSaved DEF Safe
  <2>2. CASE SaveCopy(c, request[c].doc)
    BY <1>1, <1>2, <2>2, SaveIsSafe
  <2> QED BY <2>1, <2>2 DEF RepairLocked, RepairChecked, SaveRepaired
<1>5. CASE request' = Done(c) \/ request' = Step(c, "repairing") \/ request' = Step(c, "publishRepair")
  <2>1. request' = Done(c) \/ \E pc \in Phases \ {"ready"} : request' = Step(c, pc)
    BY <1>5 DEF Phases
  <2> QED BY <1>1, <1>3, <1>4, <2>1, GoesOn DEF Safe
<1>6. ASSUME NEW s \in {"ready", "degraded"}, request' = [request EXCEPT ![c].pc = "repaired", ![c].doc.status = s]
      PROVE  AppInv'
  <2> DEFINE d == [request[c].doc EXCEPT !.status = s]
             x == [request[c] EXCEPT !.pc = "repaired", !.doc = d]
  <2>1. d \in AppEntries /\ d.born = request[c].doc.born /\ d.enabled = request[c].doc.enabled
    BY <1>2 DEF AppEntries
  <2>2. request' = [request EXCEPT ![c] = x]
    BY <1>2, <1>6 DEF AppInv, AppTypes, OpenRequests
  <2>3. x \in OpenRequests /\ x.pc = "repaired" /\ x.app = request[c].app /\ x.doc = d
    BY <1>2, <2>1 DEF OpenRequests, Phases
  <2> HIDE DEF d, x
  <2>4. Fit(d, registry[request[c].app], deleted, verified)
    BY <1>2, <2>1, RestatedFits
  <2>5. x \in RequestStates /\ Fit(x.doc, registry[x.app], deleted, verified) /\ x.pc # "ready"
    BY <2>3, <2>4 DEF RequestStates
  <2> QED BY <1>1, <1>3, <1>4, <2>2, <2>5, QuietStepFits DEF Safe
<1> QED BY <1>5, <1>6 DEF RepairLocked, RepairChecked, SaveRepaired

LEMMA AppCrashFits ==
  ASSUME AppInv, NEW c \in Requests, AppCrash(c)
  PROVE  AppInv'
<1>1. /\ request[c].pc \notin {"new", "done"} /\ request' = Done(c)
      /\ UNCHANGED <<registry, projection, meshLock, pulled, deleted, verified>>
  BY DEF AppCrash
<1>2. meshLock' \in [Apps -> Requests \cup {None}]
  BY <1>1 DEF AppInv, AppTypes
<1> QED BY <1>1, <1>2, NothingSaved, GoesOn

LEMMA FetchFits ==
  ASSUME AppInv, NEW r \in Regions, NEW a \in Apps, Fetch(r, a)
  PROVE  AppInv'
<1> DEFINE m == [app |-> a, entry |-> registry[a]]
<1>1. /\ pulled' = [pulled EXCEPT ![r] = m]
      /\ UNCHANGED <<registry, projection, meshLock, request, deleted, verified>>
  BY DEF Fetch
<1>2. m \in [app : Apps, entry : AppEntries \cup {None}] /\ m.app = a /\ m.entry = registry[a]
  BY DEF AppInv, AppTypes, Registries
<1> HIDE DEF m
<1>3. AppTypes'
  BY <1>1, <1>2 DEF AppInv, AppTypes
<1>4. registry[a] # None => Fit(registry[a], registry[a], deleted, verified)
  BY DEF AppInv, EntriesVetted, Fit, Known
<1>5. \A s \in Regions : pulled'[s] = pulled[s] \/ pulled'[s] = m
  BY <1>1 DEF AppInv, AppTypes
<1>6. \A s \in Regions : pulled'[s] # None /\ pulled'[s].entry # None =>
        Fit(pulled'[s].entry, registry[pulled'[s].app], deleted, verified)
  BY <1>2, <1>4, <1>5 DEF AppInv, CopiesFit
<1>7. CopiesFit'
  BY <1>1, <1>6 DEF AppInv, CopiesFit
<1> QED BY <1>1, <1>3, <1>7 DEF AppInv, ReadyIsVerified, EntriesVetted

LEMMA ApplyAppFits ==
  ASSUME AppInv, NEW r \in Regions, ApplyApp(r)
  PROVE  AppInv'
<1> DEFINE a == pulled[r].app
           e == pulled[r].entry
<1>1. /\ pulled[r] # None /\ pulled' = [pulled EXCEPT ![r] = None]
      /\ UNCHANGED <<registry, meshLock, request, deleted, verified>>
  BY DEF ApplyApp
<1>2. /\ a \in Apps /\ e \in AppEntries \cup {None}
      /\ e # None => Fit(e, registry[a], deleted, verified)
  BY <1>1 DEF AppInv, AppTypes, CopiesFit
<1>3. projection' = projection \/ projection' = [projection EXCEPT ![r][a] = e]
  BY DEF ApplyApp, Projected
<1> HIDE DEF a, e
<1>4. Safe
  <2>1. CASE projection' = projection
    BY <2>1, NothingSaved DEF Safe
  <2>2. CASE projection' = [projection EXCEPT ![r][a] = e]
    BY <1>2, <2>2, CopySaved DEF Safe
  <2> QED BY <1>3, <2>1, <2>2
<1>5. AppTypes'
  BY <1>1, <1>4 DEF AppInv, AppTypes, Safe
<1>6. \A s \in Regions : pulled'[s] # None => pulled'[s] = pulled[s]
  BY <1>1 DEF AppInv, AppTypes
<1>7. CopiesFit'
  <2>1. \A s \in Regions, b \in Apps : projection'[s][b] # None =>
          Fit(projection'[s][b], registry[b], deleted, verified)
    BY <1>4 DEF Safe, AppInv, CopiesFit
  <2> QED BY <1>1, <1>6, <2>1 DEF AppInv, CopiesFit
<1> QED BY <1>1, <1>5, <1>7 DEF AppInv, ReadyIsVerified, EntriesVetted

LEMMA AppStep == AppInv /\ [AppNext]_avars => AppInv'
<1> SUFFICES ASSUME AppInv, [AppNext]_avars PROVE AppInv'
  OBVIOUS
<1>1. ASSUME NEW c \in Requests, NEW r \in Regions, NEW a \in Apps,
             DeleteApp(c, r, a) \/ EnableApp(c, r, a)
      PROVE  AppInv'
  BY <1>1, AskAppFits DEF DeleteApp, EnableApp, Phases
<1>2. ASSUME NEW c \in Requests, NEW a \in Apps, RepairApp(c, a)
      PROVE  AppInv'
  BY <1>2, AskAppFits, AuthorityIsRegion DEF RepairApp, Phases
<1>3. ASSUME NEW c \in Requests, RequestStep(c)
      PROVE  AppInv'
  BY <1>3, ProjectAppFits, UnpublishAppFits, RemoveLocalFits, WriteDomainFits, EnableLockedFits, ProvisionFits,
     SaveReadyFits, SaveFailedFits, PublishAppFits, RepairAppFits DEF RequestStep
<1>4. ASSUME NEW a \in Apps, MeshLeaseEnds(a)
      PROVE  AppInv'
  <2>1. meshLock' \in [Apps -> Requests \cup {None}]
        /\ UNCHANGED <<registry, projection, request, pulled, deleted, verified>>
    BY <1>4 DEF MeshLeaseEnds, AppInv, AppTypes
  <2> QED BY <2>1 DEF AppInv, AppTypes, CopiesFit, ReadyIsVerified, EntriesVetted
<1>5. CASE UNCHANGED avars
  BY <1>5 DEF avars, AppInv, AppTypes, CopiesFit, ReadyIsVerified, EntriesVetted
<1> QED BY <1>1, <1>2, <1>3, <1>4, <1>5, CreateAppFits, ChangeDomainFits, AppCrashFits, FetchFits, ApplyAppFits
        DEF AppNext, PullApp, AppEventArrives

LEMMA AppAlways == AppSpec => []AppInv
BY AppStarts, AppStep, PTL DEF AppSpec

LEMMA EntriesVerified == AppInv => EnabledWasVerified
BY DEF AppInv, EntriesVetted, Vetted, EnabledWasVerified

(* An application is enabled in Etcd only after its full mesh passed the   *)
(* check, its own or that of a deleted one whose late copy took its name.  *)
THEOREM EnabledVerified == AppSpec => []EnabledWasVerified
BY AppAlways, EntriesVerified, PTL

-----------------------------------------------------------------------------
(* The publication of limits.                                              *)
UpdateJob(A) ==
  [pc : Ended] \cup [pc : {"lock", "guard"}, region : Regions]
  \cup [pc : {"load", "check"}, region : Regions, doc : A]
  \cup [pc : {"sites", "undo", "door", "project"}, region : Regions, before : [Regions -> Limits],
        left : SUBSET Regions, done : SUBSET Regions]
PassJob(A) == [pc : {"idle"}] \cup [pc : {"scan", "publish", "locked", "save"}, doc : A]
RepairJob(A) ==
  [pc : {"idle"}] \cup [pc : {"lock", "guard"}, doc : A]
  \cup [pc : {"sites"}, doc : A, read : A, left : SUBSET Regions]

\* Every copy a store or a handler has of the limit is one Etcd has had.
Copied ==
  /\ approved \subseteq Limits /\ limit \in approved /\ door \in approved /\ used \in Nat
  /\ hard \in [Regions -> Limits] /\ shown \in [Regions -> approved]
  /\ fetched \in [Regions -> approved \cup {None}]
  /\ quotaLock \in Jobs \cup {None} /\ rulesLock \in Jobs \cup {None}
  /\ pulledSince \in BOOLEAN /\ lapsed \in BOOLEAN /\ limitCalm \in BOOLEAN
Working ==
  /\ DOMAIN job = Jobs
  /\ \A u \in Updates : job[u] \in UpdateJob(approved)
  /\ job[Pass] \in PassJob(approved) /\ job[Repair] \in RepairJob(approved)
Written == \A u \in Updates : job[u].pc \in {"door", "project"} => NewLimit[u] \in approved

\* While no lease of it ended, the replication lock lets one job at a time set
\* the sites.
HasRules(j) == \/ j \in Updates /\ job[j].pc \notin Ended \cup {"lock"}
               \/ j = Repair /\ job[j].pc \in {"guard", "sites"}
Serial == ~lapsed => \A j \in Jobs : HasRules(j) => rulesLock = j
\* A site with a limit Etcd never had was set by a change that is under way or
\* could not be undone; a change under way puts back only what was so before.
Blamed(s, v) == \/ job[v].pc = "stuck"
                \/ job[v].pc \in {"sites", "undo"} /\ s \in job[v].done
Blame == ~lapsed => \A s \in Regions : hard[s] \notin approved =>
  \E v \in Updates : NewLimit[v] = hard[s] /\ Blamed(s, v)
Before == ~lapsed => \A u \in Updates, s \in Regions :
  job[u].pc \in {"sites", "undo"} /\ job[u].before[s] \notin approved =>
    \E v \in Updates : NewLimit[v] = job[u].before[s] /\ job[v].pc = "stuck"
LimitInv == Copied /\ Working /\ Written /\ Serial /\ Blame /\ Before

LEMMA JobNames == Pass \in Jobs /\ Repair \in Jobs /\ Updates \subseteq Jobs /\ Pass # Repair
                  /\ Pass \notin Updates /\ Repair \notin Updates /\ None \notin Jobs
BY LimitConstants DEF Jobs, Pass, Repair

LEMMA NewLimits == /\ \A u \in Updates : NewLimit[u] \in Limits
                   /\ OldLimit \in Limits
                   /\ Limits \subseteq Nat
BY LimitConstants DEF Limits

LEMMA StartsRight == LimitInit => LimitInv
<1> SUFFICES ASSUME LimitInit PROVE LimitInv
  OBVIOUS
<1>1. \A j \in Jobs : job[j] = [pc |-> "idle"]
  BY DEF LimitInit, Resting
<1>2. Copied
  BY NewLimits DEF LimitInit, Copied
<1>3. Working
  BY <1>1, JobNames DEF LimitInit, Working, UpdateJob, PassJob, RepairJob, Ended
<1>4. Written /\ Before
  BY <1>1, JobNames DEF Written, Before
<1>5. Serial
  BY <1>1, JobNames DEF Serial, HasRules, Ended
<1>6. Blame
  BY DEF Blame, LimitInit
<1> QED BY <1>2, <1>3, <1>4, <1>5, <1>6 DEF LimitInv

\* A job takes a step of its own, in general.
LEMMA UpdateWorks ==
  ASSUME Working, approved \subseteq approved', NEW u \in Updates, NEW x \in UpdateJob(approved'),
         job' = [job EXCEPT ![u] = x]
  PROVE  Working' /\ job'[u] = x /\ \A k \in Jobs : k # u => job'[k] = job[k]
BY JobNames DEF Working, UpdateJob, PassJob, RepairJob

LEMMA PassWorks ==
  ASSUME Working, approved' = approved, NEW x \in PassJob(approved), job' = [job EXCEPT ![Pass] = x]
  PROVE  Working' /\ job'[Pass] = x /\ \A k \in Jobs : k # Pass => job'[k] = job[k]
BY JobNames DEF Working

LEMMA RepairWorks ==
  ASSUME Working, approved' = approved, NEW x \in RepairJob(approved), job' = [job EXCEPT ![Repair] = x]
  PROVE  Working' /\ job'[Repair] = x /\ \A k \in Jobs : k # Repair => job'[k] = job[k]
BY JobNames DEF Working

LEMMA UpdateRecords ==
  ASSUME NEW A, NEW x \in UpdateJob(A)
  PROVE  /\ x.pc \in {"lock", "guard"} => x \in [pc : {"lock", "guard"}, region : Regions]
         /\ x.pc \in {"load", "check"} => x \in [pc : {"load", "check"}, region : Regions, doc : A]
         /\ x.pc \in {"sites", "undo", "door", "project"} =>
              x \in [pc : {"sites", "undo", "door", "project"}, region : Regions,
                     before : [Regions -> Limits], left : SUBSET Regions, done : SUBSET Regions]
         /\ x.pc \in {"idle", "refused", "failed", "stuck", "converging", "ok"} => x \in [pc : Ended]
BY DEF UpdateJob, Ended

\* The lock of the sites is taken when it is free and given back by its holder.
LEMMA StaysSerial ==
  ASSUME Serial, NEW j \in Jobs, \A k \in Jobs : k # j => job'[k] = job[k], lapsed' = lapsed,
         \/ rulesLock' = rulesLock /\ (HasRules(j)' => HasRules(j))
         \/ rulesLock = None /\ rulesLock' = j
         \/ rulesLock = j /\ rulesLock' = None /\ ~HasRules(j)'
  PROVE  Serial'
<1>1. \A k \in Jobs : k # j => (HasRules(k)' <=> HasRules(k))
  BY DEF HasRules
<1> QED BY <1>1, JobNames DEF Serial

LEMMA NoRulesNeeded ==
  ASSUME Serial, \A k \in Jobs : job'[k] = job[k], lapsed' = lapsed, rulesLock' = rulesLock
  PROVE  Serial'
BY DEF Serial, HasRules

\* Whoever is blamed stays blamed, while no site changes and no limit is withdrawn.
LEMMA StaysBlamed ==
  ASSUME Blame, Before, NEW j \in Jobs, \A k \in Jobs : k # j => job'[k] = job[k],
         lapsed' = lapsed, hard' = hard, approved \subseteq approved',
         j \in Updates => \/ job[j].pc \notin {"sites", "undo", "stuck"}
                          \/ job'[j].pc = "stuck"
                          \/ /\ job[j].pc \in {"sites", "undo"} /\ job'[j].pc \in {"sites", "undo"}
                             /\ job'[j].done = job[j].done /\ job'[j].before = job[j].before
                          \/ job[j].pc # "stuck" /\ (NewLimit[j] \in approved' \/ job[j].done = {}),
         j \in Updates /\ job'[j].pc \in {"sites", "undo"} => job[j].pc \in {"sites", "undo"} /\ job'[j].before = job[j].before
  PROVE  Blame' /\ Before'
<1>1. Blame'
  <2> SUFFICES ASSUME ~lapsed, NEW s \in Regions, hard[s] \notin approved'
               PROVE  \E v \in Updates : NewLimit[v] = hard[s] /\ Blamed(s, v)'
    BY DEF Blame
  <2>1. PICK v \in Updates : NewLimit[v] = hard[s] /\ Blamed(s, v)
    BY DEF Blame
  <2>2. Blamed(s, v)'
    <3>1. CASE v # j
      BY <3>1, <2>1, JobNames DEF Blamed
    <3>2. CASE v = j
      BY <3>2, <2>1, JobNames DEF Blamed
    <3> QED BY <3>1, <3>2
  <2> QED BY <2>1, <2>2
<1>2. Before'
  <2> SUFFICES ASSUME ~lapsed, NEW u \in Updates, NEW s \in Regions, job'[u].pc \in {"sites", "undo"},
                      job'[u].before[s] \notin approved'
               PROVE  \E v \in Updates : NewLimit[v] = job'[u].before[s] /\ job'[v].pc = "stuck"
    BY DEF Before
  <2>1. job[u].pc \in {"sites", "undo"} /\ job'[u].before = job[u].before
    BY JobNames
  <2>2. PICK v \in Updates : NewLimit[v] = job[u].before[s] /\ job[v].pc = "stuck"
    BY <2>1 DEF Before
  <2>3. job'[v].pc = "stuck"
    BY <2>2, JobNames
  <2> QED BY <2>1, <2>2, <2>3
<1> QED BY <1>1, <1>2
\* The same for a job that touches neither a site nor a limit.
LEMMA UpdateStays ==
  ASSUME LimitInv, NEW u \in Updates, NEW x \in UpdateJob(approved), job' = [job EXCEPT ![u] = x],
         UNCHANGED <<hard, approved, lapsed>>,
         x.pc \in {"door", "project"} => NewLimit[u] \in approved,
         x.pc \in {"sites", "undo"} => /\ job[u].pc \in {"sites", "undo"}
                                       /\ x.done = job[u].done /\ x.before = job[u].before,
         \/ job[u].pc \notin {"sites", "undo", "stuck"} \/ x.pc \in {"sites", "undo", "stuck"}
         \/ job[u].pc # "stuck" /\ (NewLimit[u] \in approved \/ job[u].done = {}),
         job[u].pc = "stuck" => x.pc = "stuck",
         \/ rulesLock' = rulesLock /\ (x.pc \notin Ended \cup {"lock"} => job[u].pc \notin Ended \cup {"lock"})
         \/ rulesLock = None /\ rulesLock' = u
         \/ rulesLock = u /\ rulesLock' = None /\ x.pc \in Ended
  PROVE  Working' /\ Written' /\ Serial' /\ Blame' /\ Before'
<1>1. Working' /\ job'[u] = x /\ \A k \in Jobs : k # u => job'[k] = job[k]
  BY UpdateWorks DEF LimitInv
<1>2. u \in Jobs /\ u # Repair
  BY JobNames
<1>3. Written'
  BY <1>1, JobNames DEF Written, LimitInv
<1>4. \/ rulesLock' = rulesLock /\ (HasRules(u)' => HasRules(u))
      \/ rulesLock = None /\ rulesLock' = u
      \/ rulesLock = u /\ rulesLock' = None /\ ~HasRules(u)'
  BY <1>1, <1>2 DEF HasRules
<1>5. Serial'
  BY <1>1, <1>2, <1>4, StaysSerial DEF LimitInv
<1>6. /\ \/ job[u].pc \notin {"sites", "undo", "stuck"}
         \/ job'[u].pc = "stuck"
         \/ /\ job[u].pc \in {"sites", "undo"} /\ job'[u].pc \in {"sites", "undo"}
            /\ job'[u].done = job[u].done /\ job'[u].before = job[u].before
         \/ job[u].pc # "stuck" /\ (NewLimit[u] \in approved' \/ job[u].done = {})
      /\ job'[u].pc \in {"sites", "undo"} => job[u].pc \in {"sites", "undo"} /\ job'[u].before = job[u].before
  BY <1>1
<1>7. Blame' /\ Before'
  BY <1>1, <1>2, <1>6, StaysBlamed DEF LimitInv
<1> QED BY <1>1, <1>3, <1>5, <1>7

LEMMA EndsRight ==
  ASSUME LimitInv, NEW u \in Updates, NEW how \in {"refused", "failed", "stuck", "converging", "ok"}, End(u, how),
         UNCHANGED <<hard, approved, lapsed>>, job[u].pc # "stuck",
         \/ job[u].pc \notin {"sites", "undo"} \/ how = "stuck" \/ job[u].done = {}
  PROVE  /\ Working' /\ Written' /\ Serial' /\ Blame' /\ Before'
         /\ quotaLock' \in Jobs \cup {None} /\ rulesLock' \in Jobs \cup {None}
<1> DEFINE x == [pc |-> how]
<1>1. x \in UpdateJob(approved) /\ x.pc = how
  BY DEF UpdateJob, Ended
<1>2. job' = [job EXCEPT ![u] = x]
  BY DEF End
<1>3. rulesLock' = rulesLock \/ (rulesLock = u /\ rulesLock' = None)
  BY Zenon DEF End
<1>4. x.pc \in Ended
  BY DEF Ended
<1>5. quotaLock' \in Jobs \cup {None} /\ rulesLock' \in Jobs \cup {None}
  BY DEF End, LimitInv, Copied
<1> HIDE DEF x
<1>6. x.pc \notin {"door", "project", "sites", "undo"} /\ (how = "stuck" => x.pc = "stuck")
  BY <1>1
<1> QED BY <1>1, <1>2, <1>3, <1>4, <1>5, <1>6, UpdateStays

LEMMA AskingIsSafe ==
  ASSUME LimitInv, NEW u \in Updates, NEW r \in Regions, AskLimit(u, r)
  PROVE  LimitInv'
<1> DEFINE x == [pc |-> "lock", region |-> r]
<1>1. x \in UpdateJob(approved) /\ x.pc = "lock"
  BY DEF UpdateJob
<1>2. job' = [job EXCEPT ![u] = x] /\ job[u].pc = "idle" /\ UNCHANGED <<hard, approved, lapsed, rulesLock>>
  BY DEF AskLimit, Resting, stores, rest
<1> HIDE DEF x
<1>3. Working' /\ Written' /\ Serial' /\ Blame' /\ Before'
  BY <1>1, <1>2, UpdateStays
<1>4. Copied'
  BY DEF LimitInv, Copied, AskLimit, stores, rest
<1> QED BY <1>3, <1>4 DEF LimitInv

LEMMA LockingIsSafe ==
  ASSUME LimitInv, NEW u \in Updates, TakeRules(u)
  PROVE  LimitInv'
<1>1. job[u].pc = "lock" /\ job[u] \in [pc : {"lock", "guard"}, region : Regions]
  BY UpdateRecords DEF TakeRules, At, LimitInv, Working
<1>2. UNCHANGED <<limit, door, hard, shown, used, fetched, pulledSince, approved, lapsed, limitCalm>>
  BY DEF TakeRules, stores, rest
<1>3. CASE rulesLock = None /\ rulesLock' = u /\ To(u, "guard") /\ UNCHANGED quotaLock
  <2> DEFINE x == [job[u] EXCEPT !.pc = "guard"]
  <2>1. x \in UpdateJob(approved) /\ x.pc = "guard"
    BY <1>1 DEF UpdateJob
  <2>2. job' = [job EXCEPT ![u] = x]
    BY <1>3 DEF To
  <2> HIDE DEF x
  <2>3. Working' /\ Written' /\ Serial' /\ Blame' /\ Before'
    BY <1>1, <1>2, <1>3, <2>1, <2>2, UpdateStays
  <2>4. Copied'
    BY <1>2, <1>3, JobNames DEF LimitInv, Copied
  <2> QED BY <2>3, <2>4 DEF LimitInv
<1>4. CASE End(u, "refused")
  <2>1. /\ Working' /\ Written' /\ Serial' /\ Blame' /\ Before'
        /\ quotaLock' \in Jobs \cup {None} /\ rulesLock' \in Jobs \cup {None}
    BY <1>1, <1>2, <1>4, EndsRight
  <2>2. Copied'
    BY <1>2, <2>1 DEF LimitInv, Copied
  <2> QED BY <2>1, <2>2 DEF LimitInv
<1> QED BY <1>3, <1>4 DEF TakeRules

LEMMA GuardingIsSafe ==
  ASSUME LimitInv, NEW u \in Updates, TakeGuard(u)
  PROVE  LimitInv'
<1>1. job[u].pc = "guard" /\ job[u] \in [pc : {"lock", "guard"}, region : Regions]
  BY UpdateRecords DEF TakeGuard, At, LimitInv, Working
<1>2. UNCHANGED <<limit, door, hard, shown, used, fetched, pulledSince, approved, lapsed, limitCalm>>
  BY DEF TakeGuard, stores, rest
<1>3. CASE /\ quotaLock = None /\ quotaLock' = u /\ UNCHANGED rulesLock
           /\ job' = [job EXCEPT ![u] = [pc |-> "load", region |-> job[u].region, doc |-> shown[job[u].region]]]
  <2> DEFINE x == [pc |-> "load", region |-> job[u].region, doc |-> shown[job[u].region]]
  <2>1. x \in UpdateJob(approved) /\ x.pc = "load"
    BY <1>1 DEF UpdateJob, LimitInv, Copied
  <2>2. job' = [job EXCEPT ![u] = x]
    BY <1>3
  <2>a. job[u].pc \notin Ended \cup {"lock"}
    BY <1>1 DEF Ended
  <2> HIDE DEF x
  <2>3. Working' /\ Written' /\ Serial' /\ Blame' /\ Before'
    BY <1>1, <1>2, <1>3, <2>1, <2>2, <2>a, UpdateStays
  <2>4. Copied'
    BY <1>2, <1>3, JobNames DEF LimitInv, Copied
  <2> QED BY <2>3, <2>4 DEF LimitInv
<1>4. CASE End(u, "refused")
  <2>1. /\ Working' /\ Written' /\ Serial' /\ Blame' /\ Before'
        /\ quotaLock' \in Jobs \cup {None} /\ rulesLock' \in Jobs \cup {None}
    BY <1>1, <1>2, <1>4, EndsRight
  <2>2. Copied'
    BY <1>2, <2>1 DEF LimitInv, Copied
  <2> QED BY <2>1, <2>2 DEF LimitInv
<1> QED BY <1>3, <1>4 DEF TakeGuard

LEMMA SavingScanIsSafe ==
  ASSUME LimitInv, NEW u \in Updates, SaveScan(u)
  PROVE  LimitInv'
<1>1. job[u].pc = "load" /\ job[u] \in [pc : {"load", "check"}, region : Regions, doc : approved]
  BY UpdateRecords DEF SaveScan, At, LimitInv, Working
<1>2. UNCHANGED <<limit, door, hard, used, fetched, pulledSince, approved, lapsed, limitCalm>>
  BY DEF SaveScan, rest
<1>3. CASE shown' = [shown EXCEPT ![job[u].region] = job[u].doc] /\ To(u, "check") /\ KeepLocks
  <2> DEFINE x == [job[u] EXCEPT !.pc = "check"]
  <2>1. x \in UpdateJob(approved) /\ x.pc = "check"
    BY <1>1 DEF UpdateJob
  <2>2. job' = [job EXCEPT ![u] = x] /\ UNCHANGED <<quotaLock, rulesLock>>
    BY <1>3 DEF To, KeepLocks
  <2>a. job[u].pc \notin Ended \cup {"lock"}
    BY <1>1 DEF Ended
  <2> HIDE DEF x
  <2>3. Working' /\ Written' /\ Serial' /\ Blame' /\ Before'
    BY <1>1, <1>2, <2>1, <2>2, <2>a, UpdateStays
  <2>4. Copied'
    BY <1>1, <1>2, <1>3, <2>2 DEF LimitInv, Copied
  <2> QED BY <2>3, <2>4 DEF LimitInv
<1>4. CASE UNCHANGED shown /\ End(u, "refused")
  <2>1. /\ Working' /\ Written' /\ Serial' /\ Blame' /\ Before'
        /\ quotaLock' \in Jobs \cup {None} /\ rulesLock' \in Jobs \cup {None}
    BY <1>1, <1>2, <1>4, EndsRight
  <2>2. Copied'
    BY <1>2, <1>4, <2>1 DEF LimitInv, Copied
  <2> QED BY <2>1, <2>2 DEF LimitInv
<1> QED BY <1>3, <1>4 DEF SaveScan
\* Only the holder of the lock is at the sites, so a change that starts on them
\* finds no other one there: what it finds is approved or was left by a stuck one.
LEMMA CheckingIsSafe ==
  ASSUME LimitInv, NEW u \in Updates, CheckUse(u)
  PROVE  LimitInv'
<1>1. job[u].pc = "check" /\ job[u] \in [pc : {"load", "check"}, region : Regions, doc : approved]
  BY UpdateRecords DEF CheckUse, At, LimitInv, Working
<1>2. UNCHANGED <<limit, door, hard, shown, used, fetched, pulledSince, approved, lapsed, limitCalm>>
  BY DEF CheckUse, stores, rest
<1>a. u \in Jobs /\ u # Repair
  BY JobNames
<1>3. CASE /\ job' = [job EXCEPT ![u] = [pc |-> "sites", region |-> job[u].region, before |-> hard,
                                      left |-> {s \in Regions : hard[s] # NewLimit[u]}, done |-> {}]]
           /\ KeepLocks
  <2> DEFINE x == [pc |-> "sites", region |-> job[u].region, before |-> hard,
                   left |-> {s \in Regions : hard[s] # NewLimit[u]}, done |-> {}]
  <2>1. x \in UpdateJob(approved) /\ x.pc = "sites" /\ x.before = hard
    BY <1>1 DEF UpdateJob, LimitInv, Copied
  <2>2. job' = [job EXCEPT ![u] = x] /\ UNCHANGED <<quotaLock, rulesLock>>
    BY <1>3 DEF KeepLocks
  <2> HIDE DEF x
  <2>3. Working' /\ job'[u] = x /\ \A k \in Jobs : k # u => job'[k] = job[k]
    BY <1>2, <2>1, <2>2, UpdateWorks DEF LimitInv
  <2>4. Written'
    BY <1>2, <2>1, <2>3, JobNames DEF Written, LimitInv
  <2>5. HasRules(u)
    BY <1>1 DEF HasRules, Ended
  <2>6. Serial'
    BY <1>2, <1>a, <2>2, <2>3, <2>5, StaysSerial DEF LimitInv
  <2>7. ~lapsed => \A s \in Regions : hard[s] \notin approved =>
          \E v \in Updates : NewLimit[v] = hard[s] /\ job[v].pc = "stuck"
    <3> SUFFICES ASSUME ~lapsed, NEW s \in Regions, hard[s] \notin approved
                 PROVE  \E v \in Updates : NewLimit[v] = hard[s] /\ job[v].pc = "stuck"
      OBVIOUS
    <3>1. PICK v \in Updates : NewLimit[v] = hard[s] /\ Blamed(s, v)
      BY DEF LimitInv, Blame
    <3>2. ASSUME job[v].pc \in {"sites", "undo"} PROVE FALSE
      <4>1. HasRules(v) /\ v \in Jobs
        BY <3>2, JobNames DEF HasRules, Ended
      <4>2. rulesLock = v /\ rulesLock = u
        BY <4>1, <2>5, <1>a DEF LimitInv, Serial
      <4> QED BY <4>2, <3>2, <1>1
    <3> QED BY <3>1, <3>2 DEF Blamed
  <2>8. \A v \in Updates : job[v].pc = "stuck" => job'[v].pc = "stuck"
    BY <1>1, <2>3, JobNames
  <2>9. Blame'
    BY <1>2, <2>7, <2>8 DEF Blame, Blamed
  <2>10. Before'
    <3> SUFFICES ASSUME ~lapsed, NEW w \in Updates, NEW s \in Regions,
                        job'[w].pc \in {"sites", "undo"}, job'[w].before[s] \notin approved
                 PROVE  \E v \in Updates : NewLimit[v] = job'[w].before[s] /\ job'[v].pc = "stuck"
      BY <1>2 DEF Before
    <3>1. CASE w = u
      BY <3>1, <2>1, <2>3, <2>7, <2>8
    <3>2. CASE w # u
      <4>1. job'[w] = job[w]
        BY <3>2, <2>3, JobNames
      <4>2. PICK v \in Updates : NewLimit[v] = job[w].before[s] /\ job[v].pc = "stuck"
        BY <4>1 DEF LimitInv, Before
      <4> QED BY <4>1, <4>2, <2>8
    <3> QED BY <3>1, <3>2
  <2>11. Copied'
    BY <1>2, <2>2 DEF LimitInv, Copied
  <2> QED BY <2>3, <2>4, <2>6, <2>9, <2>10, <2>11 DEF LimitInv
<1>4. CASE End(u, "refused")
  <2>1. /\ Working' /\ Written' /\ Serial' /\ Blame' /\ Before'
        /\ quotaLock' \in Jobs \cup {None} /\ rulesLock' \in Jobs \cup {None}
    BY <1>1, <1>2, <1>4, EndsRight
  <2>2. Copied'
    BY <1>2, <2>1 DEF LimitInv, Copied
  <2> QED BY <2>1, <2>2 DEF LimitInv
<1> QED BY <1>3, <1>4 DEF CheckUse

\* A site that is set, whatever the answer, is one to put back.
LEMMA SettingIsSafe ==
  ASSUME LimitInv, NEW u \in Updates, SetSite(u)
  PROVE  LimitInv'
<1>1. /\ job[u].pc = "sites"
      /\ job[u] \in [pc : {"sites", "undo", "door", "project"}, region : Regions,
                     before : [Regions -> Limits], left : SUBSET Regions, done : SUBSET Regions]
  BY UpdateRecords DEF SetSite, At, LimitInv, Working
<1>2. UNCHANGED <<limit, door, shown, used, quotaLock, rulesLock, fetched, pulledSince, approved, lapsed, limitCalm>>
  BY DEF SetSite, rest
<1>a. u \in Jobs /\ u # Repair
  BY JobNames
<1>3. PICK s \in job[u].left, ok \in {TRUE, limitCalm} :
        /\ hard' \in {[hard EXCEPT ![s] = NewLimit[u]]} \cup (IF ok THEN {} ELSE {hard})
        /\ job' = [job EXCEPT ![u].pc = IF ok THEN "sites" ELSE "undo",
                              ![u].left = @ \ {s}, ![u].done = @ \cup {s}]
  BY DEF SetSite
<1>4. PICK pc \in {"sites", "undo"} :
        job' = [job EXCEPT ![u].pc = pc, ![u].left = @ \ {s}, ![u].done = @ \cup {s}]
  BY <1>3
<1>5. s \in Regions
  BY <1>1
<1>6. hard' = hard \/ hard' = [hard EXCEPT ![s] = NewLimit[u]]
  BY <1>3
<1>7. /\ hard' \in [Regions -> Limits]
      /\ \A t \in Regions : hard'[t] = hard[t] \/ (t = s /\ hard'[t] = NewLimit[u])
  BY <1>5, <1>6, NewLimits DEF LimitInv, Copied
<1> DEFINE x == [job[u] EXCEPT !.pc = pc, !.left = @ \ {s}, !.done = @ \cup {s}]
<1>8. /\ x \in UpdateJob(approved) /\ x.pc = pc /\ x.before = job[u].before
      /\ x.done = job[u].done \cup {s}
  BY <1>1, <1>5 DEF UpdateJob
<1>9. job' = [job EXCEPT ![u] = x]
  BY <1>4, <1>a DEF LimitInv, Working
<1> HIDE DEF x
<1>10. Working' /\ job'[u] = x /\ \A k \in Jobs : k # u => job'[k] = job[k]
  BY <1>2, <1>8, <1>9, UpdateWorks DEF LimitInv
<1>11. Written'
  BY <1>2, <1>8, <1>10, JobNames DEF Written, LimitInv
<1>12. HasRules(u)
  BY <1>1 DEF HasRules, Ended
<1>13. Serial'
  BY <1>2, <1>a, <1>10, <1>12, StaysSerial DEF LimitInv
<1>14. \A v \in Updates, t \in Regions : Blamed(t, v) => Blamed(t, v)'
  BY <1>1, <1>8, <1>10, JobNames DEF Blamed
<1>15. Blame'
  <2> SUFFICES ASSUME ~lapsed, NEW t \in Regions, hard'[t] \notin approved
               PROVE  \E v \in Updates : NewLimit[v] = hard'[t] /\ Blamed(t, v)'
    BY <1>2 DEF Blame
  <2>1. CASE hard'[t] = hard[t]
    <3>1. PICK v \in Updates : NewLimit[v] = hard[t] /\ Blamed(t, v)
      BY <2>1 DEF LimitInv, Blame
    <3> QED BY <2>1, <3>1, <1>14
  <2>2. CASE t = s /\ hard'[t] = NewLimit[u]
    <3>1. Blamed(t, u)'
      BY <2>2, <1>8, <1>10 DEF Blamed
    <3> QED BY <3>1, <2>2
  <2> QED BY <2>1, <2>2, <1>7
<1>16. Before'
  <2> SUFFICES ASSUME ~lapsed, NEW w \in Updates, NEW t \in Regions,
                      job'[w].pc \in {"sites", "undo"}, job'[w].before[t] \notin approved
               PROVE  \E v \in Updates : NewLimit[v] = job'[w].before[t] /\ job'[v].pc = "stuck"
    BY <1>2 DEF Before
  <2>1. job[w].pc \in {"sites", "undo"} /\ job'[w].before = job[w].before
    BY <1>1, <1>8, <1>10, JobNames
  <2>2. PICK v \in Updates : NewLimit[v] = job[w].before[t] /\ job[v].pc = "stuck"
    BY <2>1 DEF LimitInv, Before
  <2>3. job'[v].pc = "stuck"
    BY <2>2, <1>1, <1>10, JobNames
  <2> QED BY <2>1, <2>2, <2>3
<1>17. Copied'
  BY <1>2, <1>7 DEF LimitInv, Copied
<1> QED BY <1>10, <1>11, <1>13, <1>15, <1>16, <1>17 DEF LimitInv

\* What Etcd takes becomes approved before anything else is written.
LEMMA WritingIsSafe ==
  ASSUME LimitInv, NEW u \in Updates, WriteLimit(u)
  PROVE  LimitInv'
<1>1. /\ job[u].pc = "sites"
      /\ job[u] \in [pc : {"sites", "undo", "door", "project"}, region : Regions,
                     before : [Regions -> Limits], left : SUBSET Regions, done : SUBSET Regions]
  BY UpdateRecords DEF WriteLimit, At, LimitInv, Working
<1>2. UNCHANGED <<door, hard, shown, used, quotaLock, rulesLock, fetched, pulledSince, lapsed, limitCalm>>
  BY DEF WriteLimit
<1>a. u \in Jobs /\ u # Repair
  BY JobNames
<1>3. PICK pc \in {"door", "undo"} :
        /\ job' = [job EXCEPT ![u].pc = pc]
        /\ \/ limit' = NewLimit[u] /\ approved' = approved \cup {NewLimit[u]}
           \/ UNCHANGED <<limit, approved>> /\ pc = "undo"
  BY DEF WriteLimit, To
<1> DEFINE x == [job[u] EXCEPT !.pc = pc]
<1>4. /\ x \in UpdateJob(approved') /\ x.pc = pc /\ x.before = job[u].before
      /\ x.done = job[u].done
  BY <1>1 DEF UpdateJob
<1>5. job' = [job EXCEPT ![u] = x]
  BY <1>3
<1> HIDE DEF x
<1>6. approved \subseteq approved' /\ (pc = "door" => NewLimit[u] \in approved')
  BY <1>3
<1>7. Working' /\ job'[u] = x /\ \A k \in Jobs : k # u => job'[k] = job[k]
  BY <1>4, <1>5, <1>6, UpdateWorks DEF LimitInv
<1>8. Written'
  BY <1>4, <1>6, <1>7, JobNames DEF Written, LimitInv
<1>9. HasRules(u)
  BY <1>1 DEF HasRules, Ended
<1>10. Serial'
  BY <1>2, <1>a, <1>7, <1>9, StaysSerial DEF LimitInv
<1>11. /\ \/ job[u].pc \notin {"sites", "undo", "stuck"}
          \/ job'[u].pc = "stuck"
          \/ /\ job[u].pc \in {"sites", "undo"} /\ job'[u].pc \in {"sites", "undo"}
             /\ job'[u].done = job[u].done /\ job'[u].before = job[u].before
          \/ job[u].pc # "stuck" /\ (NewLimit[u] \in approved' \/ job[u].done = {})
       /\ job'[u].pc \in {"sites", "undo"} => job[u].pc \in {"sites", "undo"} /\ job'[u].before = job[u].before
  BY <1>1, <1>4, <1>6, <1>7
<1>12. Blame' /\ Before'
  BY <1>2, <1>a, <1>6, <1>7, <1>11, StaysBlamed DEF LimitInv
<1>13. Copied'
  BY <1>2, <1>3, NewLimits DEF LimitInv, Copied
<1> QED BY <1>7, <1>8, <1>10, <1>12, <1>13 DEF LimitInv
LEMMA AdmittingIsSafe ==
  ASSUME LimitInv, NEW u \in Updates, SetDoor(u)
  PROVE  LimitInv'
<1>1. /\ job[u].pc = "door"
      /\ job[u] \in [pc : {"sites", "undo", "door", "project"}, region : Regions,
                     before : [Regions -> Limits], left : SUBSET Regions, done : SUBSET Regions]
  BY UpdateRecords DEF SetDoor, At, LimitInv, Working
<1>2. UNCHANGED <<limit, hard, shown, used, fetched, pulledSince, approved, lapsed, limitCalm>>
  BY DEF SetDoor, rest
<1>3. door' \in approved
  BY <1>1 DEF SetDoor, LimitInv, Written, Copied
<1>4. CASE To(u, "project") /\ KeepLocks
  <2> DEFINE x == [job[u] EXCEPT !.pc = "project"]
  <2>1. x \in UpdateJob(approved) /\ x.pc = "project"
    BY <1>1 DEF UpdateJob
  <2>2. job' = [job EXCEPT ![u] = x] /\ UNCHANGED <<quotaLock, rulesLock>>
    BY <1>4 DEF To, KeepLocks
  <2>3. job[u].pc \notin Ended \cup {"lock"} /\ NewLimit[u] \in approved
    BY <1>1 DEF Ended, LimitInv, Written
  <2> HIDE DEF x
  <2>4. Working' /\ Written' /\ Serial' /\ Blame' /\ Before'
    BY <1>1, <1>2, <2>1, <2>2, <2>3, UpdateStays
  <2>5. Copied'
    BY <1>2, <1>3, <2>2 DEF LimitInv, Copied
  <2> QED BY <2>4, <2>5 DEF LimitInv
<1>5. CASE End(u, "converging")
  <2>1. /\ Working' /\ Written' /\ Serial' /\ Blame' /\ Before'
        /\ quotaLock' \in Jobs \cup {None} /\ rulesLock' \in Jobs \cup {None}
    BY <1>1, <1>2, <1>5, EndsRight
  <2>2. Copied'
    BY <1>2, <1>3, <2>1 DEF LimitInv, Copied
  <2> QED BY <2>1, <2>2 DEF LimitInv
<1> QED BY <1>4, <1>5 DEF SetDoor

LEMMA ProjectingIsSafe ==
  ASSUME LimitInv, NEW u \in Updates, ProjectLimit(u)
  PROVE  LimitInv'
<1>1. /\ job[u].pc = "project"
      /\ job[u] \in [pc : {"sites", "undo", "door", "project"}, region : Regions,
                     before : [Regions -> Limits], left : SUBSET Regions, done : SUBSET Regions]
  BY UpdateRecords DEF ProjectLimit, At, LimitInv, Working
<1>2. UNCHANGED <<limit, door, hard, used, fetched, pulledSince, approved, lapsed, limitCalm>>
  BY DEF ProjectLimit, rest
<1>3. shown' \in [Regions -> approved]
  BY <1>1 DEF ProjectLimit, LimitInv, Written, Copied
<1>4. PICK how \in {"ok", "converging"} : End(u, how)
  BY DEF ProjectLimit
<1>5. /\ Working' /\ Written' /\ Serial' /\ Blame' /\ Before'
      /\ quotaLock' \in Jobs \cup {None} /\ rulesLock' \in Jobs \cup {None}
  BY <1>1, <1>2, <1>4, EndsRight
<1>6. Copied'
  BY <1>2, <1>3, <1>5 DEF LimitInv, Copied
<1> QED BY <1>5, <1>6 DEF LimitInv

\* What is put back was there when the change started.
LEMMA UndoingIsSafe ==
  ASSUME LimitInv, NEW u \in Updates, Undo(u)
  PROVE  LimitInv'
<1>1. /\ job[u].pc = "undo"
      /\ job[u] \in [pc : {"sites", "undo", "door", "project"}, region : Regions,
                     before : [Regions -> Limits], left : SUBSET Regions, done : SUBSET Regions]
  BY UpdateRecords DEF Undo, At, LimitInv, Working
<1>2. UNCHANGED <<limit, door, shown, used, fetched, pulledSince, approved, lapsed, limitCalm>>
  BY DEF Undo, rest
<1>a. u \in Jobs /\ u # Repair
  BY JobNames
<1>3. ASSUME NEW s \in job[u].done, hard' = [hard EXCEPT ![s] = job[u].before[s]],
             job' = [job EXCEPT ![u].done = @ \ {s}], KeepLocks
      PROVE  LimitInv'
  <2> DEFINE x == [job[u] EXCEPT !.done = @ \ {s}]
  <2>1. /\ x \in UpdateJob(approved) /\ x.pc = "undo" /\ x.before = job[u].before
        /\ x.done = job[u].done \ {s}
    BY <1>1 DEF UpdateJob
  <2>2. job' = [job EXCEPT ![u] = x] /\ UNCHANGED <<quotaLock, rulesLock>>
    BY <1>3 DEF KeepLocks
  <2>3. s \in Regions /\ job[u].before[s] \in Limits
    BY <1>1
  <2>4. hard' \in [Regions -> Limits] /\ hard'[s] = job[u].before[s]
        /\ \A t \in Regions : t # s => hard'[t] = hard[t]
    BY <1>3, <2>3 DEF LimitInv, Copied
  <2> HIDE DEF x
  <2>5. Working' /\ job'[u] = x /\ \A k \in Jobs : k # u => job'[k] = job[k]
    BY <1>2, <2>1, <2>2, UpdateWorks DEF LimitInv
  <2>6. Written'
    BY <1>2, <2>1, <2>5, JobNames DEF Written, LimitInv
  <2>7. HasRules(u)
    BY <1>1 DEF HasRules, Ended
  <2>8. Serial'
    BY <1>2, <1>a, <2>2, <2>5, <2>7, StaysSerial DEF LimitInv
  <2>9. \A v \in Updates : job[v].pc = "stuck" => job'[v].pc = "stuck"
    BY <1>1, <2>5, JobNames
  <2>10. Blame'
    <3> SUFFICES ASSUME ~lapsed, NEW t \in Regions, hard'[t] \notin approved
                 PROVE  \E v \in Updates : NewLimit[v] = hard'[t] /\ Blamed(t, v)'
      BY <1>2 DEF Blame
    <3>1. CASE t = s
      <4>1. PICK v \in Updates : NewLimit[v] = job[u].before[s] /\ job[v].pc = "stuck"
        BY <3>1, <2>4, <1>1 DEF LimitInv, Before
      <4> QED BY <4>1, <3>1, <2>4, <2>9 DEF Blamed
    <3>2. CASE t # s
      <4>1. PICK v \in Updates : NewLimit[v] = hard[t] /\ Blamed(t, v)
        BY <3>2, <2>4 DEF LimitInv, Blame
      <4>2. Blamed(t, v)'
        BY <3>2, <4>1, <1>1, <2>1, <2>5, JobNames DEF Blamed
      <4> QED BY <3>2, <4>1, <4>2, <2>4
    <3> QED BY <3>1, <3>2
  <2>11. Before'
    <3> SUFFICES ASSUME ~lapsed, NEW w \in Updates, NEW t \in Regions,
                        job'[w].pc \in {"sites", "undo"}, job'[w].before[t] \notin approved
                 PROVE  \E v \in Updates : NewLimit[v] = job'[w].before[t] /\ job'[v].pc = "stuck"
      BY <1>2 DEF Before
    <3>1. job[w].pc \in {"sites", "undo"} /\ job'[w].before = job[w].before
      BY <1>1, <2>1, <2>5, JobNames
    <3>2. PICK v \in Updates : NewLimit[v] = job[w].before[t] /\ job[v].pc = "stuck"
      BY <3>1 DEF LimitInv, Before
    <3> QED BY <2>9, <3>1, <3>2
  <2>12. Copied'
    BY <1>2, <2>2, <2>4 DEF LimitInv, Copied
  <2> QED BY <2>5, <2>6, <2>8, <2>10, <2>11, <2>12 DEF LimitInv
<1>4. ASSUME NEW how \in {"failed", "stuck"}, how = "stuck" \/ job[u].done = {}, UNCHANGED hard, End(u, how)
      PROVE  LimitInv'
  <2>1. /\ Working' /\ Written' /\ Serial' /\ Blame' /\ Before'
        /\ quotaLock' \in Jobs \cup {None} /\ rulesLock' \in Jobs \cup {None}
    BY <1>1, <1>2, <1>4, EndsRight
  <2>2. Copied'
    BY <1>2, <1>4, <2>1 DEF LimitInv, Copied
  <2> QED BY <2>1, <2>2 DEF LimitInv
<1> QED BY <1>3, <1>4 DEF Undo

LEMMA CancellingIsSafe ==
  ASSUME LimitInv, NEW u \in Updates, CancelUpdate(u)
  PROVE  LimitInv'
<1>1. UNCHANGED <<limit, door, hard, shown, used, fetched, pulledSince, approved, lapsed, limitCalm>>
  BY DEF CancelUpdate, stores, rest
<1>2. CASE At(u, "sites") /\ To(u, "undo") /\ KeepLocks
  <2>1. /\ job[u].pc = "sites"
        /\ job[u] \in [pc : {"sites", "undo", "door", "project"}, region : Regions,
                       before : [Regions -> Limits], left : SUBSET Regions, done : SUBSET Regions]
    BY <1>2, UpdateRecords DEF At, LimitInv, Working
  <2> DEFINE x == [job[u] EXCEPT !.pc = "undo"]
  <2>2. x \in UpdateJob(approved) /\ x.pc = "undo" /\ x.before = job[u].before /\ x.done = job[u].done
    BY <2>1 DEF UpdateJob
  <2>3. job' = [job EXCEPT ![u] = x] /\ UNCHANGED <<quotaLock, rulesLock>>
    BY <1>2 DEF To, KeepLocks
  <2>4. job[u].pc \notin Ended \cup {"lock"}
    BY <2>1 DEF Ended
  <2> HIDE DEF x
  <2>5. Working' /\ Written' /\ Serial' /\ Blame' /\ Before'
    BY <1>1, <2>1, <2>2, <2>3, <2>4, UpdateStays
  <2>6. Copied'
    BY <1>1, <2>3 DEF LimitInv, Copied
  <2> QED BY <2>5, <2>6 DEF LimitInv
<1>3. ASSUME NEW how \in {"refused", "converging"}, End(u, how), job[u].pc \in {"load", "check", "door", "project"}
      PROVE  LimitInv'
  <2>1. /\ Working' /\ Written' /\ Serial' /\ Blame' /\ Before'
        /\ quotaLock' \in Jobs \cup {None} /\ rulesLock' \in Jobs \cup {None}
    BY <1>1, <1>3, EndsRight
  <2>2. Copied'
    BY <1>1, <2>1 DEF LimitInv, Copied
  <2> QED BY <2>1, <2>2 DEF LimitInv
<1> QED BY <1>2, <1>3 DEF CancelUpdate, At

-----------------------------------------------------------------------------
\* The other jobs have no part in Blame or Before unless they set a site.
LEMMA OthersStay ==
  ASSUME LimitInv, \A k \in Updates : job'[k] = job[k], UNCHANGED <<hard, approved, lapsed>>
  PROVE  Written' /\ Blame' /\ Before'
<1>1. Written'
  BY DEF LimitInv, Written
<1>2. \A v \in Updates, s \in Regions : Blamed(s, v) => Blamed(s, v)'
  BY DEF Blamed
<1>3. Blame'
  BY <1>2 DEF LimitInv, Blame
<1>4. Before'
  BY DEF LimitInv, Before
<1> QED BY <1>1, <1>3, <1>4

LEMMA PassStays ==
  ASSUME LimitInv, NEW x \in PassJob(approved), job' = [job EXCEPT ![Pass] = x],
         UNCHANGED <<hard, approved, lapsed, rulesLock>>
  PROVE  Working' /\ Written' /\ Serial' /\ Blame' /\ Before'
<1>1. Working' /\ \A k \in Jobs : k # Pass => job'[k] = job[k]
  BY PassWorks DEF LimitInv
<1>2. ~HasRules(Pass)'
  BY JobNames DEF HasRules
<1>3. Serial'
  BY <1>1, <1>2, JobNames, StaysSerial DEF LimitInv
<1>4. Written' /\ Blame' /\ Before'
  BY <1>1, JobNames, OthersStay
<1> QED BY <1>1, <1>3, <1>4

LEMMA PassIsSafe ==
  ASSUME LimitInv, PassStep
  PROVE  LimitInv'
<1>1. UNCHANGED <<limit, hard, used, rulesLock, fetched, approved, lapsed, limitCalm>>
  BY DEF PassStep, PassRead, PassScan, PassLock, PassPublish, PassSave, stores, rest
<1>2. job[Pass].pc # "idle" => job[Pass] \in [pc : {"scan", "publish", "locked", "save"}, doc : approved]
  BY DEF LimitInv, Working, PassJob
<1>a. Authority \in Regions
  BY AuthorityIsRegion
<1>3. /\ door' \in approved /\ shown' \in [Regions -> approved] /\ quotaLock' \in Jobs \cup {None}
      /\ pulledSince' \in BOOLEAN
  BY <1>2, <1>a, JobNames DEF LimitInv, Copied, PassStep, PassRead, PassScan, PassLock, PassPublish, PassSave,
     stores, rest, At
<1>4. Copied'
  BY <1>1, <1>3 DEF LimitInv, Copied
<1>5. \E x \in PassJob(approved) : job' = [job EXCEPT ![Pass] = x]
  <2>1. CASE PassRead
    <3>1. [pc |-> "scan", doc |-> shown[Authority]] \in PassJob(approved)
      BY <1>a DEF PassJob, LimitInv, Copied
    <3> QED BY <2>1, <3>1 DEF PassRead
  <2>2. CASE PassSave
    BY <2>2 DEF PassSave, Resting, PassJob
  <2>3. ASSUME NEW pc \in {"publish", "save", "locked"}, To(Pass, pc), job[Pass].pc # "idle"
        PROVE  \E x \in PassJob(approved) : job' = [job EXCEPT ![Pass] = x]
    <3>1. [job[Pass] EXCEPT !.pc = pc] \in PassJob(approved)
      BY <1>2, <2>3 DEF PassJob
    <3>2. job' = [job EXCEPT ![Pass] = [job[Pass] EXCEPT !.pc = pc]]
      BY <2>3 DEF To
    <3> QED BY <3>1, <3>2
  <2> QED BY <2>1, <2>2, <2>3 DEF PassStep, PassScan, PassLock, PassPublish, At
<1>6. Working' /\ Written' /\ Serial' /\ Blame' /\ Before'
  BY <1>1, <1>5, PassStays
<1> QED BY <1>4, <1>6 DEF LimitInv
LEMMA RepairStays ==
  ASSUME LimitInv, NEW x \in RepairJob(approved), job' = [job EXCEPT ![Repair] = x],
         UNCHANGED <<hard, approved, lapsed>>,
         \/ rulesLock' = rulesLock /\ (x.pc \in {"guard", "sites"} => job[Repair].pc \in {"guard", "sites"})
         \/ rulesLock = None /\ rulesLock' = Repair
         \/ rulesLock = Repair /\ rulesLock' = None /\ x.pc = "idle"
  PROVE  Working' /\ Written' /\ Serial' /\ Blame' /\ Before'
<1>1. Working' /\ job'[Repair] = x /\ \A k \in Jobs : k # Repair => job'[k] = job[k]
  BY RepairWorks DEF LimitInv
<1>2. \/ rulesLock' = rulesLock /\ (HasRules(Repair)' => HasRules(Repair))
      \/ rulesLock = None /\ rulesLock' = Repair
      \/ rulesLock = Repair /\ rulesLock' = None /\ ~HasRules(Repair)'
  BY <1>1, JobNames DEF HasRules
<1>3. Serial'
  BY <1>1, <1>2, JobNames, StaysSerial DEF LimitInv
<1>4. Written' /\ Blame' /\ Before'
  BY <1>1, JobNames, OthersStay
<1> QED BY <1>1, <1>3, <1>4

LEMMA RepairRecords ==
  ASSUME LimitInv
  PROVE  /\ job[Repair].pc \in {"lock", "guard"} => job[Repair] \in [pc : {"lock", "guard"}, doc : approved]
         /\ job[Repair].pc = "sites" =>
              job[Repair] \in [pc : {"sites"}, doc : approved, read : approved, left : SUBSET Regions]
BY DEF LimitInv, Working, RepairJob

LEMMA RepairRests == [pc |-> "idle"] \in RepairJob(approved)
BY DEF RepairJob

LEMMA RepairLocksSafely ==
  ASSUME LimitInv, RepairRead \/ RepairLock \/ RepairLimit
  PROVE  LimitInv'
<1>1. UNCHANGED <<limit, door, hard, shown, used, fetched, pulledSince, approved, lapsed, limitCalm>>
  BY DEF RepairRead, RepairLock, RepairLimit, stores, rest
<1>2. quotaLock' \in Jobs \cup {None} /\ rulesLock' \in Jobs \cup {None}
  BY JobNames DEF LimitInv, Copied, RepairRead, RepairLock, RepairLimit, KeepLocks
<1>3. Copied'
  BY <1>1, <1>2 DEF LimitInv, Copied
<1>4. CASE RepairRead
  <2>1. [pc |-> "lock", doc |-> shown[Authority]] \in RepairJob(approved)
    BY AuthorityIsRegion DEF RepairJob, LimitInv, Copied
  <2>2. job' = [job EXCEPT ![Repair] = [pc |-> "lock", doc |-> shown[Authority]]] /\ rulesLock' = rulesLock
    BY <1>4 DEF RepairRead
  <2>3. Working' /\ Written' /\ Serial' /\ Blame' /\ Before'
    BY <1>1, <2>1, <2>2, RepairStays
  <2> QED BY <1>3, <2>3 DEF LimitInv
<1>5. CASE RepairLock
  <2>1. CASE rulesLock = None /\ rulesLock' = Repair /\ To(Repair, "guard")
    <3>1. [job[Repair] EXCEPT !.pc = "guard"] \in RepairJob(approved)
      BY <1>5, RepairRecords DEF RepairLock, At, RepairJob
    <3>2. job' = [job EXCEPT ![Repair] = [job[Repair] EXCEPT !.pc = "guard"]]
      BY <2>1 DEF To
    <3>3. Working' /\ Written' /\ Serial' /\ Blame' /\ Before'
      BY <1>1, <2>1, <3>1, <3>2, RepairStays
    <3> QED BY <1>3, <3>3 DEF LimitInv
  <2>2. CASE job' = [job EXCEPT ![Repair] = Resting] /\ KeepLocks
    <3>1. job' = [job EXCEPT ![Repair] = [pc |-> "idle"]] /\ rulesLock' = rulesLock
      BY <2>2 DEF Resting, KeepLocks
    <3>2. Working' /\ Written' /\ Serial' /\ Blame' /\ Before'
      BY <1>1, <3>1, RepairRests, RepairStays
    <3> QED BY <1>3, <3>2 DEF LimitInv
  <2> QED BY <1>5, <2>1, <2>2 DEF RepairLock
<1>6. CASE RepairLimit
  <2>1. CASE /\ UNCHANGED rulesLock
             /\ job' = [job EXCEPT ![Repair] = [pc |-> "sites", doc |-> job[Repair].doc,
                                                read |-> limit, left |-> Regions]]
    <3>1. [pc |-> "sites", doc |-> job[Repair].doc, read |-> limit, left |-> Regions] \in RepairJob(approved)
      BY <1>6, RepairRecords DEF RepairLimit, At, RepairJob, LimitInv, Copied
    <3>2. job[Repair].pc \in {"guard", "sites"}
      BY <1>6 DEF RepairLimit, At
    <3>3. Working' /\ Written' /\ Serial' /\ Blame' /\ Before'
      BY <1>1, <2>1, <3>1, <3>2, RepairStays
    <3> QED BY <1>3, <3>3 DEF LimitInv
  <2>2. CASE /\ rulesLock' = IF rulesLock = Repair THEN None ELSE rulesLock
             /\ job' = [job EXCEPT ![Repair] = Resting]
    <3>1. job' = [job EXCEPT ![Repair] = [pc |-> "idle"]]
      BY <2>2 DEF Resting
    <3>2. rulesLock' = rulesLock \/ (rulesLock = Repair /\ rulesLock' = None)
      BY <2>2
    <3>3. Working' /\ Written' /\ Serial' /\ Blame' /\ Before'
      BY <1>1, <3>1, <3>2, RepairRests, RepairStays
    <3> QED BY <1>3, <3>3 DEF LimitInv
  <2> QED BY <1>6, <2>1, <2>2 DEF RepairLimit
<1> QED BY <1>4, <1>5, <1>6

\* The repair sets sites to what Etcd had when it took the locks.
LEMMA RepairingIsSafe ==
  ASSUME LimitInv, RepairSite
  PROVE  LimitInv'
<1>1. UNCHANGED <<limit, door, shown, used, quotaLock, rulesLock, fetched, pulledSince, approved, lapsed, limitCalm>>
  BY DEF RepairSite, rest
<1>2. /\ job[Repair].pc = "sites"
      /\ job[Repair] \in [pc : {"sites"}, doc : approved, read : approved, left : SUBSET Regions]
  BY RepairRecords DEF RepairSite, At
<1>3. PICK s \in job[Repair].left :
        /\ hard' = hard \/ hard' = [hard EXCEPT ![s] = job[Repair].read]
        /\ job' = [job EXCEPT ![Repair].left = @ \ {s}]
  BY DEF RepairSite
<1>4. /\ hard' \in [Regions -> Limits]
      /\ \A t \in Regions : hard'[t] = hard[t] \/ hard'[t] \in approved
  BY <1>2, <1>3 DEF LimitInv, Copied
<1> DEFINE x == [job[Repair] EXCEPT !.left = @ \ {s}]
<1>5. x \in RepairJob(approved) /\ x.pc = "sites"
  BY <1>2 DEF RepairJob
<1>6. job' = [job EXCEPT ![Repair] = x]
  BY <1>3
<1> HIDE DEF x
<1>7. Working' /\ job'[Repair] = x /\ \A k \in Jobs : k # Repair => job'[k] = job[k]
  BY <1>1, <1>5, <1>6, RepairWorks DEF LimitInv
<1>8. HasRules(Repair)
  BY <1>2 DEF HasRules
<1>9. Serial'
  BY <1>1, <1>7, <1>8, JobNames, StaysSerial DEF LimitInv
<1>10. \A k \in Updates : job'[k] = job[k]
  BY <1>7, JobNames
<1>11. Written' /\ Before'
  BY <1>1, <1>10 DEF LimitInv, Written, Before
<1>12. \A v \in Updates, t \in Regions : Blamed(t, v) => Blamed(t, v)'
  BY <1>10 DEF Blamed
<1>13. Blame'
  BY <1>1, <1>4, <1>12 DEF LimitInv, Blame
<1>14. Copied'
  BY <1>1, <1>4 DEF LimitInv, Copied
<1> QED BY <1>7, <1>9, <1>11, <1>13, <1>14 DEF LimitInv

LEMMA RepairEndsSafely ==
  ASSUME LimitInv, RepairDone \/ RepairCancel
  PROVE  LimitInv'
<1>1. UNCHANGED <<limit, door, hard, used, fetched, pulledSince, approved, lapsed, limitCalm>>
      /\ End(Repair, "idle") /\ job[Repair].pc = "sites"
  BY DEF RepairDone, RepairCancel, rest, At
<1>2. job[Repair].read \in approved
  BY <1>1, RepairRecords
<1>3. shown' \in [Regions -> approved]
  BY <1>2, AuthorityIsRegion DEF RepairDone, RepairCancel, LimitInv, Copied
<1>4. quotaLock' \in Jobs \cup {None} /\ rulesLock' \in Jobs \cup {None}
  BY <1>1 DEF End, LimitInv, Copied
<1>5. Copied'
  BY <1>1, <1>3, <1>4 DEF LimitInv, Copied
<1>6. job' = [job EXCEPT ![Repair] = [pc |-> "idle"]]
  BY <1>1 DEF End
<1>7. rulesLock' = rulesLock \/ (rulesLock = Repair /\ rulesLock' = None)
  BY <1>1 DEF End
<1>8. Working' /\ Written' /\ Serial' /\ Blame' /\ Before'
  BY <1>1, <1>6, <1>7, RepairRests, RepairStays
<1> QED BY <1>5, <1>8 DEF LimitInv

\* A job that stops at a site is blamed for what it set.
LEMMA StoppingIsSafe ==
  ASSUME LimitInv, NEW j \in Jobs, JobStops(j)
  PROVE  LimitInv'
<1>1. UNCHANGED <<limit, door, hard, shown, used, quotaLock, rulesLock, fetched, approved, lapsed, limitCalm>>
      /\ pulledSince' \in BOOLEAN
  BY DEF JobStops, stores
<1>2. Copied'
  BY <1>1 DEF LimitInv, Copied
<1>3. CASE j \in Updates
  <2> DEFINE x == [pc |-> "stuck"]
  <2>1. x \in UpdateJob(approved) /\ x.pc = "stuck"
    BY DEF UpdateJob, Ended
  <2>2. job' = [job EXCEPT ![j] = x]
    BY <1>3 DEF JobStops
  <2>3. x.pc \in Ended
    BY <2>1 DEF Ended
  <2> HIDE DEF x
  <2>4. Working' /\ Written' /\ Serial' /\ Blame' /\ Before'
    BY <1>1, <1>3, <2>1, <2>2, <2>3, UpdateStays
  <2> QED BY <1>2, <2>4 DEF LimitInv
<1>4. CASE j = Pass
  <2>1. [pc |-> "idle"] \in PassJob(approved)
    BY DEF PassJob
  <2>2. job' = [job EXCEPT ![Pass] = [pc |-> "idle"]]
    BY <1>4, JobNames DEF JobStops, Resting
  <2>3. Working' /\ Written' /\ Serial' /\ Blame' /\ Before'
    BY <1>1, <2>1, <2>2, PassStays
  <2> QED BY <1>2, <2>3 DEF LimitInv
<1>5. CASE j = Repair
  <2>1. job' = [job EXCEPT ![Repair] = [pc |-> "idle"]]
    BY <1>5, JobNames DEF JobStops, Resting
  <2>2. Working' /\ Written' /\ Serial' /\ Blame' /\ Before'
    BY <1>1, <2>1, RepairRests, RepairStays
  <2> QED BY <1>2, <2>2 DEF LimitInv
<1> QED BY <1>3, <1>4, <1>5 DEF Jobs

\* Pulls, admissions and leases leave the jobs and the sites alone.
LEMMA BesideJobsIsSafe ==
  ASSUME LimitInv,
         \/ AdmitByte \/ ReleaseByte \/ QuotaLeaseEnds \/ RulesLeaseEnds
         \/ \E r \in Regions : PullLimit(r) \/ ReadLimit(r) \/ ApplyLimit(r)
         \/ LimitCalm \/ UNCHANGED lvars
  PROVE  LimitInv'
<1>1. UNCHANGED <<limit, door, hard, job, approved>>
  BY DEF AdmitByte, ReleaseByte, QuotaLeaseEnds, RulesLeaseEnds, PullLimit, ReadLimit, ApplyLimit,
     LimitCalm, lvars, stores, rest
<1>2. (rulesLock' = rulesLock /\ lapsed' = lapsed) \/ lapsed'
  <2>1. CASE RulesLeaseEnds
    BY <2>1 DEF RulesLeaseEnds
  <2>2. CASE ~RulesLeaseEnds
    BY <2>2 DEF AdmitByte, ReleaseByte, QuotaLeaseEnds, PullLimit, ReadLimit, ApplyLimit, LimitCalm, lvars, stores, rest
  <2> QED BY <2>1, <2>2
<1>3. used' \in Nat
  BY DEF AdmitByte, ReleaseByte, QuotaLeaseEnds, RulesLeaseEnds, PullLimit, ReadLimit, ApplyLimit,
     LimitCalm, lvars, stores, rest, LimitInv, Copied
<1>4. shown' \in [Regions -> approved] /\ fetched' \in [Regions -> approved \cup {None}]
  <2>1. CASE UNCHANGED <<shown, fetched>>
    BY <2>1 DEF LimitInv, Copied
  <2>2. ASSUME NEW r \in Regions, PullLimit(r) \/ ReadLimit(r) \/ ApplyLimit(r)
        PROVE  shown' \in [Regions -> approved] /\ fetched' \in [Regions -> approved \cup {None}]
    BY <2>2 DEF PullLimit, ReadLimit, ApplyLimit, stores, LimitInv, Copied
  <2> QED BY <2>1, <2>2 DEF AdmitByte, ReleaseByte, QuotaLeaseEnds, RulesLeaseEnds, LimitCalm, lvars, stores, rest
<1>5. /\ quotaLock' \in Jobs \cup {None} /\ rulesLock' \in Jobs \cup {None}
      /\ pulledSince' \in BOOLEAN /\ lapsed' \in BOOLEAN /\ limitCalm' \in BOOLEAN
  BY DEF AdmitByte, ReleaseByte, QuotaLeaseEnds, RulesLeaseEnds, PullLimit, ReadLimit, ApplyLimit,
     LimitCalm, lvars, stores, rest, LimitInv, Copied
<1>6. Copied'
  BY <1>1, <1>3, <1>4, <1>5 DEF LimitInv, Copied
<1>7. Working' /\ Written'
  BY <1>1 DEF LimitInv, Working, Written
<1>8. Serial'
  BY <1>1, <1>2 DEF LimitInv, Serial, HasRules
<1>9. Blame' /\ Before'
  BY <1>1, <1>2 DEF LimitInv, Blame, Blamed, Before
<1> QED BY <1>6, <1>7, <1>8, <1>9 DEF LimitInv

LEMMA LimitStep == LimitInv /\ [LimitNext \/ LimitCalm]_lvars => LimitInv'
<1> SUFFICES ASSUME LimitInv, [LimitNext \/ LimitCalm]_lvars PROVE LimitInv'
  OBVIOUS
<1>1. CASE \/ AdmitByte \/ ReleaseByte \/ QuotaLeaseEnds \/ RulesLeaseEnds
           \/ \E r \in Regions : PullLimit(r) \/ ReadLimit(r) \/ ApplyLimit(r)
           \/ LimitCalm \/ UNCHANGED lvars
  BY <1>1, BesideJobsIsSafe
<1>2. CASE \E u \in Updates, r \in Regions : AskLimit(u, r)
  BY <1>2, AskingIsSafe
<1>3. CASE \E u \in Updates : UpdateStep(u)
  BY <1>3, LockingIsSafe, GuardingIsSafe, SavingScanIsSafe, CheckingIsSafe, SettingIsSafe, WritingIsSafe,
     AdmittingIsSafe, ProjectingIsSafe, UndoingIsSafe, CancellingIsSafe DEF UpdateStep
<1>4. CASE PassStep
  BY <1>4, PassIsSafe
<1>5. CASE RepairStep
  BY <1>5, RepairLocksSafely, RepairingIsSafe, RepairEndsSafely DEF RepairStep
<1>6. CASE \E j \in Jobs : JobStops(j)
  BY <1>6, StoppingIsSafe
<1> QED BY <1>1, <1>2, <1>3, <1>4, <1>5, <1>6 DEF LimitNext

LEMMA LimitInvMeans == LimitInv => LimitTypeOK /\ OnlyApprovedLimits /\ FailedIsUndone
<1> SUFFICES ASSUME LimitInv PROVE LimitTypeOK /\ OnlyApprovedLimits /\ FailedIsUndone
  OBVIOUS
<1>1. LimitTypeOK
  BY DEF LimitInv, Copied, Working, LimitTypeOK
<1>2. OnlyApprovedLimits
  BY DEF LimitInv, Copied, OnlyApprovedLimits
<1>3. FailedIsUndone
  <2> SUFFICES ASSUME NEW u \in Updates, job[u].pc = "failed", ~lapsed, NewLimit[u] \notin approved,
                      NEW s \in Regions, hard[s] = NewLimit[u]
               PROVE  \E v \in Updates \ {u} : NewLimit[v] = NewLimit[u] /\ job[v].pc \in {"sites", "undo", "stuck"}
    BY DEF FailedIsUndone, At
  <2>1. PICK v \in Updates : NewLimit[v] = hard[s] /\ Blamed(s, v)
    BY DEF LimitInv, Blame
  <2> QED BY <2>1 DEF Blamed
<1> QED BY <1>1, <1>2, <1>3

LEMMA LimitAlways == LimitSpec => []LimitInv
<1>1. LimitInv /\ [LimitNext]_lvars => LimitInv'
  BY LimitStep
<1> QED BY <1>1, StartsRight, PTL DEF LimitSpec

(* Uploads are admitted, and the documents of the regions show, only a     *)
(* limit that Etcd has had: a change that fails before leaves nothing.     *)
THEOREM LimitsAreApproved == LimitSpec => []OnlyApprovedLimits
BY LimitAlways, LimitInvMeans, PTL

(* A change that failed and was undone leaves its limit at no site, unless *)
(* Etcd has had that limit, a replication lock was lost, or another change *)
(* to it is under way or could not be undone.                              *)
THEOREM FailuresAreUndone == LimitSpec => []FailedIsUndone
BY LimitAlways, LimitInvMeans, PTL
=============================================================================
