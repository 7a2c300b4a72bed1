------------------------- MODULE ControlPlaneProofs -------------------------
(***************************************************************************)
(* The parts of the control plane beside each other, for any number of     *)
(* regions, users, applications, requests and sites: each behaves as it    *)
(* does alone, so what was proved of it alone holds, and every variable    *)
(* has its type.                                                           *)
(***************************************************************************)
EXTENDS MCControlPlane, IdentityProofs, ApplicationProofs

(* The sites: what a request publishes, and what a region has read, fits   *)
(* the key it is for.                                                      *)
ValueOf(k) ==
  CASE k = "region" -> {None, ShownName}
    [] k = "servers" -> Weights \cup {None}
    [] OTHER -> Places \cup {None, NoLayout}
Topos == [region : {None, ShownName}, servers : Weights \cup {None}, layout : Places \cup {None, NoLayout}]
Views == [region : {None, ShownName}, servers : Weights \cup {None}, layout : Places \cup {None}]
SiteRequests ==
  [pc : {"new", "over"}]
  \cup [pc : {"region"}, region : Regions, value : {ShownName}]
  \cup [pc : {"servers", "update"}, region : Regions, value : Weights]
  \cup [pc : {"place"}, region : Regions, value : Places]
  \cup [pc : {"offServers", "offRegion", "offLayout", "dropServer", "dropRegion"},
        region : Regions, value : {None}]
TopoReads == {[key |-> None, value |-> None]}
             \cup UNION {[key : {k}, value : ValueOf(k)] : k \in Keys}

TopologyInv ==
  /\ topo \in Topos /\ view \in [Regions -> Views]
  /\ topoRead \in [Regions -> TopoReads]
  /\ siteCall \in [SiteCalls -> SiteRequests]
  /\ registering \in {"no", "region", "servers", "done"}

LEMMA TopologyStarts == TopologyInit => TopologyInv
<1> SUFFICES ASSUME TopologyInit PROVE TopologyInv
  OBVIOUS
<1>1. topo \in Topos /\ (topo.region # None => topo \in Views)
  BY TopologyConstants DEF TopologyInit, Topos, Views, Nothing
<1>2. Nothing \in Views
  BY DEF Nothing, Views
<1>3. view \in [Regions -> Views]
  BY <1>1, <1>2 DEF TopologyInit
<1>4. Waiting \in TopoReads /\ SiteIdle \in SiteRequests
  BY DEF Waiting, TopoReads, SiteIdle, SiteRequests
<1> QED BY <1>1, <1>3, <1>4 DEF TopologyInit, TopologyInv

LEMMA KeyValues ==
  /\ Keys = {"region", "servers", "layout"}
  /\ ValueOf("region") = {None, ShownName} /\ ValueOf("servers") = Weights \cup {None}
  /\ ValueOf("layout") = Places \cup {None, NoLayout}
BY DEF Keys, ValueOf

(* A key of Etcd and one of a region take any value that fits it.          *)
LEMMA TopoTakes ==
  ASSUME TopologyInv, NEW k \in Keys, NEW v \in ValueOf(k)
  PROVE  [topo EXCEPT ![k] = v] \in Topos
BY KeyValues DEF TopologyInv, Topos

LEMMA ViewTakes ==
  ASSUME TopologyInv, NEW r \in Regions, NEW k \in Keys, NEW v \in ValueOf(k), k = "layout" => v # NoLayout
  PROVE  [view EXCEPT ![r][k] = v] \in [Regions -> Views]
<1>1. view[r] \in Views
  BY DEF TopologyInv
<1>2. [view[r] EXCEPT ![k] = v] \in Views
  BY <1>1, KeyValues DEF Views
<1> QED BY <1>2 DEF TopologyInv

(* What a pull or an event makes of a region's collections.                *)
LEMMA ShownIsView ==
  ASSUME TopologyInv, NEW r \in Regions, NEW k \in Keys, NEW v \in ValueOf(k)
  PROVE  Shown(r, k, v) \in [Regions -> Views]
<1>1. view[r] \in Views
  BY DEF TopologyInv
<1>2. CASE v = NoLayout
  BY <1>2 DEF Shown, TopologyInv
<1>3. CASE v # NoLayout
  <2>1. Follows(r, k, v) \in Views
    <3>1. CASE k = "region"
      BY <1>1, <3>1, KeyValues DEF Follows, Views
    <3>2. CASE k = "servers"
      BY <1>1, <3>2, KeyValues DEF Follows, Views
    <3>3. CASE k = "layout"
      BY <1>1, <1>3, <3>3, KeyValues DEF Follows, Views
    <3> QED BY <3>1, <3>2, <3>3 DEF Keys
  <2> QED BY <1>3, <2>1 DEF Shown, TopologyInv
<1> QED BY <1>2, <1>3

(* A request that starts, or goes on, is one of its kinds.                 *)
LEMMA SiteMoves ==
  ASSUME TopologyInv, NEW c \in SiteCalls, NEW x \in SiteRequests,
         siteCall' = [siteCall EXCEPT ![c] = x],
         topo' \in Topos, view' \in [Regions -> Views], UNCHANGED <<topoRead, registering>>
  PROVE  TopologyInv'
BY DEF TopologyInv

LEMMA SiteBegins ==
  ASSUME TopologyInv, NEW c \in SiteCalls, NEW r \in Regions,
         \/ CreateRegion(c, r) \/ AskOffline(c, r)
         \/ \E w \in Weights : CreateServer(c, r, w) \/ UpdateServer(c, r, w)
         \/ \E p \in Places : PlaceNode(c, r, p)
  PROVE  TopologyInv'
<1>0. topo \in Topos /\ view \in [Regions -> Views]
  BY DEF TopologyInv
<1>1. CASE CreateRegion(c, r)
  <2> DEFINE x == [pc |-> "region", region |-> r, value |-> ShownName]
  <2>1. x \in SiteRequests
    BY DEF SiteRequests
  <2>2. view' \in [Regions -> Views]
    BY <1>1, ViewTakes, KeyValues, TopologyConstants DEF CreateRegion, InView
  <2> QED BY <1>0, <1>1, <2>1, <2>2, SiteMoves DEF CreateRegion, SiteAsk
<1>2. CASE AskOffline(c, r)
  <2>1. [pc |-> "offServers", region |-> r, value |-> None] \in SiteRequests
    BY DEF SiteRequests
  <2> QED BY <1>0, <1>2, <2>1, SiteMoves DEF AskOffline, SiteAsk
<1>3. ASSUME NEW w \in Weights, CreateServer(c, r, w) \/ UpdateServer(c, r, w)
      PROVE  TopologyInv'
  <2>1. /\ [pc |-> "servers", region |-> r, value |-> w] \in SiteRequests
        /\ [pc |-> "update", region |-> r, value |-> w] \in SiteRequests
    BY DEF SiteRequests
  <2>2. view' \in [Regions -> Views]
    <3>1. "servers" \in Keys /\ "servers" # "layout" /\ w \in ValueOf("servers")
      BY KeyValues
    <3>2. [view EXCEPT ![r]["servers"] = w] \in [Regions -> Views]
      BY <3>1, ViewTakes
    <3> QED BY <1>3, <3>2 DEF CreateServer, UpdateServer, InView
  <2> QED BY <1>0, <1>3, <2>1, <2>2, SiteMoves DEF CreateServer, UpdateServer, SiteAsk
<1>4. ASSUME NEW p \in Places, PlaceNode(c, r, p)
      PROVE  TopologyInv'
  <2>1. [pc |-> "place", region |-> r, value |-> p] \in SiteRequests
    BY DEF SiteRequests
  <2>2. topo' \in Topos
    BY <1>4, TopoTakes, KeyValues DEF PlaceNode, InTopo
  <2> QED BY <1>0, <1>4, <2>1, <2>2, SiteMoves DEF PlaceNode, SiteAsk
<1> QED BY <1>1, <1>2, <1>3, <1>4

LEMMA SiteGoesOn ==
  ASSUME TopologyInv, NEW c \in SiteCalls, SiteStep(c) \/ SiteStops(c)
  PROVE  TopologyInv'
<1>0. topo \in Topos /\ view \in [Regions -> Views] /\ siteCall[c] \in SiteRequests
  BY DEF TopologyInv
<1>1. [pc |-> "over"] \in SiteRequests
  BY DEF SiteRequests
<1>2. CASE PublishSite(c)
  <2>1. siteCall[c].pc \in {"region", "servers", "update"}
    BY <1>2 DEF PublishSite
  <2>2. KeyOf(c) \in Keys /\ KeyOf(c) # "layout" /\ siteCall[c].value \in ValueOf(KeyOf(c)) /\ Here(c) \in Regions
    BY <1>0, <2>1, KeyValues DEF SiteRequests, KeyOf, SiteAt, Here
  <2>3. Nothing[KeyOf(c)] = None /\ None \in ValueOf(KeyOf(c))
    BY <2>2, KeyValues DEF Nothing
  <2>4. topo' \in Topos
    BY <1>0, <1>2, <2>2, TopoTakes DEF PublishSite
  <2>5. view' \in [Regions -> Views]
    BY <1>0, <1>2, <2>2, <2>3, ViewTakes DEF PublishSite, InView
  <2> QED BY <1>1, <1>2, <2>4, <2>5, SiteMoves DEF PublishSite, SiteDone
<1>3. CASE SavePlace(c)
  <2>1. siteCall[c].value \in Places /\ Here(c) \in Regions
    BY <1>0, <1>3 DEF SavePlace, SiteAt, SiteRequests, Here
  <2>2. view' \in [Regions -> Views]
    BY <1>3, <2>1, ViewTakes, KeyValues, TopologyConstants DEF SavePlace, InView
  <2> QED BY <1>0, <1>1, <1>3, <2>2, SiteMoves DEF SavePlace, SiteDone
<1>4. CASE Unpublish(c)
  <2>1. PICK x \in SiteRequests : siteCall' = [siteCall EXCEPT ![c] = x]
    <3> DEFINE y(pc) == [siteCall[c] EXCEPT !.pc = pc]
    <3>1. siteCall[c].pc \in {"offServers", "offRegion", "offLayout"}
      BY <1>4 DEF Unpublish, SiteAt
    <3>2. \A pc \in {"offRegion", "offLayout", "dropServer"} : y(pc) \in SiteRequests
      BY <1>0, <3>1 DEF SiteRequests
    <3> QED BY <1>1, <1>4, <3>2 DEF Unpublish, SiteTo, SiteDone
  <2>2. topo' \in Topos
    BY <1>0, <1>4, TopoTakes, KeyValues DEF Unpublish, InTopo
  <2> QED BY <1>0, <1>4, <2>1, <2>2, SiteMoves DEF Unpublish
<1>5. CASE DropLocal(c)
  <2>1. siteCall[c].pc \in {"dropServer", "dropRegion"}
    BY <1>5 DEF DropLocal, SiteAt
  <2>2. Here(c) \in Regions /\ [siteCall[c] EXCEPT !.pc = "dropRegion"] \in SiteRequests
    BY <1>0, <2>1 DEF SiteRequests, Here
  <2>3. view' \in [Regions -> Views]
    <3>1. \A k \in {"servers", "region"} : k \in Keys /\ k # "layout" /\ None \in ValueOf(k)
      BY KeyValues
    <3>2. \A k \in {"servers", "region"} : [view EXCEPT ![Here(c)][k] = None] \in [Regions -> Views]
      BY <2>2, <3>1, ViewTakes
    <3> QED BY <1>5, <3>2 DEF DropLocal, InView
  <2> QED BY <1>0, <1>1, <1>5, <2>2, <2>3, SiteMoves DEF DropLocal, SiteTo, SiteDone
<1>6. CASE SiteStops(c)
  BY <1>0, <1>1, <1>6, SiteMoves DEF SiteStops, SiteDone
<1> QED BY <1>2, <1>3, <1>4, <1>5, <1>6 DEF SiteStep

LEMMA TopologyStep == TopologyInv /\ [TopologyNext]_tvars => TopologyInv'
<1> SUFFICES ASSUME TopologyInv, [TopologyNext]_tvars PROVE TopologyInv'
  OBVIOUS
<1>0. topo \in Topos /\ view \in [Regions -> Views]
  BY DEF TopologyInv
<1>1. CASE Start \/ UNCHANGED tvars
  BY <1>1 DEF Start, tvars, TopologyInv
<1>2. CASE Register
  <2>1. topo' \in Topos
    <3>1. topo.region \in ValueOf("region") /\ topo.servers \in ValueOf("servers")
      BY <1>0, KeyValues DEF Topos
    <3> QED BY <1>2, <3>1, TopoTakes, KeyValues DEF Register, InTopo
  <2> QED BY <1>2, <2>1 DEF Register, TopologyInv
<1>3. CASE Bootstrap
  <2>1. view[Authority].layout \in ValueOf("layout")
    BY <1>0, AuthorityIsRegion, KeyValues DEF Views
  <2>2. topo' \in Topos
    BY <1>3, <2>1, TopoTakes, KeyValues DEF Bootstrap, InTopo
  <2> QED BY <1>3, <2>2 DEF Bootstrap, TopologyInv
<1>4. ASSUME NEW r \in Regions, ApplyTopo(r)
      PROVE  TopologyInv'
  <2>1. PICK k \in Keys : topoRead[r] \in [key : {k}, value : ValueOf(k)]
    BY <1>4 DEF TopologyInv, TopoReads, ApplyTopo
  <2>2. view' \in [Regions -> Views]
    BY <1>4, <2>1, ShownIsView DEF ApplyTopo
  <2>3. Waiting \in TopoReads
    BY DEF Waiting, TopoReads
  <2> QED BY <1>4, <2>2, <2>3 DEF ApplyTopo, TopologyInv
<1>5. ASSUME NEW r \in Regions, NEW k \in Keys, PullTopo(r, k) \/ ReadTopo(r, k)
      PROVE  TopologyInv'
  <2>1. topo[k] \in ValueOf(k)
    BY <1>0, KeyValues DEF Topos
  <2>2. CASE PullTopo(r, k)
    <3>1. view' \in [Regions -> Views]
      BY <2>1, <2>2, ShownIsView DEF PullTopo
    <3> QED BY <2>2, <3>1 DEF PullTopo, TopologyInv
  <2>3. CASE ReadTopo(r, k)
    <3>1. [key |-> k, value |-> topo[k]] \in TopoReads
      BY <2>1 DEF TopoReads
    <3> QED BY <2>3, <3>1 DEF ReadTopo, TopologyInv
  <2> QED BY <1>5, <2>2, <2>3
<1> QED BY <1>1, <1>2, <1>3, <1>4, <1>5, SiteBegins, SiteGoesOn DEF TopologyNext

LEMMA TopologyTypes == TopologyInv => TopologyTypeOK
<1> SUFFICES ASSUME TopologyInv PROVE TopologyTypeOK
  OBVIOUS
<1>1. TopoReads \subseteq [key : Keys \cup {None}, value : {None, ShownName, NoLayout} \cup Weights \cup Places]
  BY KeyValues DEF TopoReads
<1> QED BY <1>1 DEF TopologyInv, TopologyTypeOK, Topos, Views

-----------------------------------------------------------------------------
(* The requests about sessions: the lists of tokens they and the regions   *)
(* keep.                                                                   *)
TokensInv ==
  /\ token \in [Tokens -> {"unused", "live", "expired"}]
  /\ black \in [Regions -> SUBSET Tokens] /\ revokedKey \in SUBSET Tokens
  /\ revokedRead \in [Regions -> (SUBSET Tokens) \cup {None}]

LEMMA TokensStart == SessionInit => TokensInv
BY DEF SessionInit, TokensInv

LEMMA TokensStep == LinkInv /\ TokensInv /\ [SessionNext]_hvars => TokensInv'
<1> SUFFICES ASSUME LinkInv, TokensInv, [SessionNext]_hvars PROVE TokensInv'
  OBVIOUS
<1>1. CASE UNCHANGED tokenVars
  BY <1>1 DEF tokenVars, TokensInv
<1>2. ASSUME NEW c \in Sessions, SessionStep(c) \/ SessionStops(c), ~UNCHANGED tokenVars
      PROVE  TokensInv'
  <2>1. session[c].pc \in {"destroy", "spread"} => session[c].token \in Tokens /\ session[c].region \in Regions
    BY DEF LinkInv, LinkTypes, Brief, Destroying
  <2>2. CASE Exchange(c) \/ RenewToken(c)
    BY <2>2 DEF Exchange, RenewToken, TokensInv
  <2>3. CASE DestroyToken(c)
    BY <2>1, <2>3 DEF DestroyToken, TokensInv
  <2>4. CASE SpreadRevocation(c) \/ SessionStops(c)
    BY <2>1, <2>4 DEF SpreadRevocation, SessionStops, TokensInv
  <2> QED BY <1>2, <2>2, <2>3, <2>4 DEF SessionStep, PutBackLink
<1>3. ASSUME NEW t \in Tokens, TokenExpires(t)
      PROVE  TokensInv'
  BY <1>3 DEF TokenExpires, TokensInv
<1>4. ASSUME NEW r \in Regions, CleanBlacklist(r) \/ ReadRevoked(r) \/ ImportRevoked(r)
      PROVE  TokensInv'
  BY <1>4 DEF CleanBlacklist, ReadRevoked, ImportRevoked, TokensInv
<1> QED BY <1>1, <1>2, <1>3, <1>4 DEF SessionNext, hvars, tokenVars, RequestLink, LinkArrives, SaveDelivery,
        LinkExpires, ConsumeLink, BeginDestroy

LEMMA SessionTypes == LinkInv /\ TokensInv => SessionTypeOK
<1> SUFFICES ASSUME LinkInv, TokensInv PROVE SessionTypeOK
  OBVIOUS
<1>1. session \in [Sessions -> Brief \cup Destroying]
  BY DEF LinkInv, LinkTypes
<1>2. session \in [Sessions -> [pc : {"new", "exchange", "putBack", "closed"}] \cup
       [pc : {"destroy", "spread", "renew"}, region : Regions, token : Tokens, renew : BOOLEAN]]
  BY <1>1 DEF Brief, Destroying
<1> QED BY <1>2 DEF LinkInv, LinkTypes, TokensInv, SessionTypeOK

LEMMA AppTypesHold == AppInv => AppTypeOK
<1> SUFFICES ASSUME AppInv PROVE AppTypeOK
  OBVIOUS
<1>1. \A c \in Requests : request[c] \in RequestStates
  BY DEF AppInv, AppTypes
<1>2. \A c \in Requests : request[c].pc \notin {"new", "done"} =>
        request[c].region \in Regions /\ request[c].app \in Apps /\ request[c].doc \in AppEntries
  BY <1>1 DEF RequestStates, OpenRequests
<1>3. \A r \in Regions : pulled[r] # None =>
        pulled[r].app \in Apps /\ pulled[r].entry \in AppEntries \cup {None}
  BY DEF AppInv, AppTypes
<1> QED BY <1>2, <1>3 DEF AppInv, AppTypes, AppTypeOK, Registries, Births

LEMMA KeyTypesHold == KeyInv => KeyTypeOK
BY DEF KeyInv, KeyTypeOK, KeyWorking, KeyAt

-----------------------------------------------------------------------------
(* Each part takes its own steps, or stands still, and nothing else        *)
(* changes what it keeps: beside the others it behaves as it does alone.   *)
THEOREM PartsBesideEachOther ==
  ControlSpec => UserSpec /\ AppSpec /\ LimitSpec /\ SessionSpec /\ KeySpec /\ TopologySpec
<1>1. ControlInit => UserInit /\ AppInit /\ LimitInit /\ SessionInit /\ KeyInit /\ TopologyInit
  BY DEF ControlInit
<1>2. [ControlNext]_cvars => /\ [UserNext]_uvars /\ [AppNext]_avars /\ [LimitNext]_lvars
                             /\ [SessionNext]_hvars /\ [KeyNext]_kvars /\ [TopologyNext]_tvars
  BY DEF ControlNext, cvars
<1> QED BY <1>1, <1>2, PTL DEF ControlSpec, UserSpec, AppSpec, LimitSpec, SessionSpec, KeySpec, TopologySpec

(* The variables of every part have their types.                           *)
THEOREM ControlTypesCorrect == ControlSpec => []ControlTypesOK
<1>1. SessionSpec => [](LinkInv /\ TokensInv)
  BY LinkInvInit, LinkInvStep, TokensStart, TokensStep, PTL DEF SessionSpec
<1>2. KeySpec => []KeyInv
  BY KeyStart, KeyStepKeeps, PTL DEF KeySpec
<1>3. TopologySpec => []TopologyInv
  BY TopologyStarts, TopologyStep, PTL DEF TopologySpec
<1>4. UserTypeOK /\ AppInv /\ LimitInv /\ LinkInv /\ TokensInv /\ KeyInv /\ TopologyInv => ControlTypesOK
  BY AppTypesHold, LimitInvMeans, SessionTypes, KeyTypesHold, TopologyTypes DEF ControlTypesOK
<1> QED BY <1>1, <1>2, <1>3, <1>4, PartsBesideEachOther, TypesCorrect, AppAlways, LimitAlways, PTL

(* What was proved of each part alone holds of the whole.                  *)
THEOREM ControlPlaneCorrect ==
  ControlSpec => /\ [](SuperadminRemains /\ ChangeStands /\ LinkUsedOnce)
                 /\ [](EnabledWasVerified /\ OnlyApprovedLimits /\ FailedIsUndone)
                 /\ VersionsOnlyGrow /\ RevokedForGood
BY PartsBesideEachOther, SuperadminCorrect, ChangesStand, LinkCorrect, EnabledVerified, LimitsAreApproved,
   FailuresAreUndone, VersionsCorrect, RevocationsLast, PTL
=============================================================================
