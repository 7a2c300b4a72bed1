------------------------------ MODULE Topology ------------------------------
(***************************************************************************)
(* One site as the regions know it.  Etcd has it in three keys that are    *)
(* changed one at a time: `region' names it, `servers' has the entry of    *)
(* its MinIO, `topology_layout' the place of its node in the graph.  Each  *)
(* region's MongoDB follows them, a key at a time.  Administrators of any  *)
(* region create the site, give it a server, change and move it and take   *)
(* it offline; a process that starts registers its own site again.         *)
(***************************************************************************)
EXTENDS Deployment, FiniteSets, Naturals

CONSTANTS Site,          \* the site that is managed
          SiteCalls,     \* the administrators' requests
          Weights,       \* replicate_weight, what can be changed of a server
          Places,        \* where a node can be drawn
          ShownName,     \* what `region' says of a site it names
          MaxTopoReads,  \* the regions that may be reading at once
          NoLayout       \* the authority has not initialised the layout

ASSUME TopologyConstants ==
  /\ Site \in Regions /\ MaxTopoReads \in Nat \ {0}
  /\ {None, NoLayout, ShownName} \cap (Weights \cup Places) = {}

VARIABLES topo,          \* the three keys: region, servers, layout
          view,          \* what each region's collections have of them
          topoRead,      \* what a region's pull or watch event has read
          siteCall,
          registering    \* the start of the site's own process

tvars == <<topo, view, topoRead, siteCall, registering>>

Keys == {"region", "servers", "layout"}
Nothing == [region |-> None, servers |-> None, layout |-> None]
SiteIdle == [pc |-> "new"]
Waiting == [key |-> None, value |-> None]

TopologyInit ==
  /\ topo \in {[Nothing EXCEPT !.layout = NoLayout]} \cup
       {[region |-> ShownName, servers |-> w, layout |-> p] : w \in Weights, p \in Places}
  /\ view = [r \in Regions |-> IF topo.region # None THEN topo ELSE Nothing]
  /\ topoRead = [r \in Regions |-> Waiting]
  /\ siteCall = [c \in SiteCalls |-> SiteIdle] /\ registering = "no"

SiteAt(c, pc) == siteCall[c].pc = pc
SiteTo(c, pc) == siteCall' = [siteCall EXCEPT ![c].pc = pc]
SiteDone(c) == siteCall' = [siteCall EXCEPT ![c] = [pc |-> "over"]]
SiteAsk(c, r, what, v) ==
  siteCall' = [siteCall EXCEPT ![c] = [pc |-> what, region |-> r, value |-> v]]
Here(c) == siteCall[c].region
InView(r, k, v) == view' = [view EXCEPT ![r][k] = v]
InTopo(k, v) == topo' = [topo EXCEPT ![k] = v]

-----------------------------------------------------------------------------
(* create_region, create_minio_server and update_minio_server save locally *)
(* and then publish; the first two delete what they saved when that fails, *)
(* the third leaves it.                                                    *)
CreateRegion(c, r) ==
  /\ SiteAt(c, "new") /\ view[r].region = None
  /\ InView(r, "region", ShownName) /\ SiteAsk(c, r, "region", ShownName)
  /\ UNCHANGED <<topo, topoRead, registering>>
CreateServer(c, r, w) ==
  /\ SiteAt(c, "new") /\ view[r].region # None /\ view[r].servers = None
  /\ InView(r, "servers", w) /\ SiteAsk(c, r, "servers", w)
  /\ UNCHANGED <<topo, topoRead, registering>>
UpdateServer(c, r, w) ==
  /\ SiteAt(c, "new") /\ view[r].servers # None
  /\ InView(r, "servers", w) /\ SiteAsk(c, r, "update", w)
  /\ UNCHANGED <<topo, topoRead, registering>>

KeyOf(c) == IF SiteAt(c, "update") THEN "servers" ELSE siteCall[c].pc
\* A publication that fails may have been carried out.
PublishSite(c) ==
  LET k == KeyOf(c)  new == [topo EXCEPT ![k] = siteCall[c].value]
  IN /\ siteCall[c].pc \in {"region", "servers", "update"}
     /\ \/ topo' = new /\ UNCHANGED view
        \/ /\ topo' \in {topo, new}
           /\ IF SiteAt(c, "update") THEN UNCHANGED view ELSE InView(Here(c), k, Nothing[k])
     /\ SiteDone(c)
     /\ UNCHANGED <<topoRead, registering>>

\* The layout is published first and saved afterwards; without a layout the
\* authority has initialised nothing is published.
PlaceNode(c, r, p) ==
  /\ SiteAt(c, "new") /\ topo.layout # NoLayout
  /\ InTopo("layout", p) /\ SiteAsk(c, r, "place", p)
  /\ UNCHANGED <<view, topoRead, registering>>
SavePlace(c) ==
  /\ SiteAt(c, "place") /\ InView(Here(c), "layout", siteCall[c].value) /\ SiteDone(c)
  /\ UNCHANGED <<topo, topoRead, registering>>

\* offline_region, of a site other than the region's own.
AskOffline(c, r) ==
  /\ SiteAt(c, "new") /\ r # Site /\ view[r].region # None
  /\ SiteAsk(c, r, "offServers", None)
  /\ UNCHANGED <<topo, view, topoRead, registering>>
Unpublish(c) ==
  /\ \/ SiteAt(c, "offServers") /\ InTopo("servers", None) /\ SiteTo(c, "offRegion")
     \/ SiteAt(c, "offRegion") /\ InTopo("region", None) /\ SiteTo(c, "offLayout")
     \/ /\ SiteAt(c, "offLayout") /\ topo.layout # NoLayout
        /\ InTopo("layout", None) /\ SiteTo(c, "dropServer")
     \/ siteCall[c].pc \in {"offServers", "offRegion", "offLayout"} /\ SiteDone(c) /\ UNCHANGED topo
  /\ UNCHANGED <<view, topoRead, registering>>
DropLocal(c) ==
  /\ \/ SiteAt(c, "dropServer") /\ InView(Here(c), "servers", None) /\ SiteTo(c, "dropRegion")
     \/ SiteAt(c, "dropRegion") /\ InView(Here(c), "region", None) /\ SiteDone(c)
  /\ UNCHANGED <<topo, topoRead, registering>>

SiteStops(c) ==
  /\ siteCall[c].pc \notin {"new", "over"} /\ SiteDone(c)
  /\ UNCHANGED <<topo, view, topoRead, registering>>

-----------------------------------------------------------------------------
(* The site's own process starts: either registration may fail alone.      *)
Start ==
  /\ registering = "no" /\ registering' = "region"
  /\ UNCHANGED <<topo, view, topoRead, siteCall>>
Register ==
  /\ \/ registering = "region" /\ registering' = "servers"
        /\ \E n \in {ShownName, topo.region} : InTopo("region", n)
     \/ registering = "servers" /\ registering' = "done"
        /\ \E w \in Weights \cup {topo.servers} : InTopo("servers", w)
  /\ UNCHANGED <<view, topoRead, siteCall>>

\* bootstrap_topology_layout: a snapshot of what the authority has drawn.
Bootstrap ==
  /\ topo.layout = NoLayout /\ InTopo("layout", view[Authority].layout)
  /\ UNCHANGED <<view, topoRead, siteCall, registering>>

\* Mutant of Follows: nothing is removed.
FollowsPresent(r, k, v) == IF v = None THEN view[r] ELSE [view[r] EXCEPT ![k] = v]

\* A server whose region is unknown brings its region along; a region never
\* removes its own site.
Follows(r, k, v) ==
  CASE k = "region" -> [view[r] EXCEPT !.region = IF v = None /\ r = Site THEN @ ELSE v]
    [] k = "servers" -> IF v = None THEN [view[r] EXCEPT !.servers = IF r = Site THEN @ ELSE None]
                        ELSE [view[r] EXCEPT !.servers = v, !.region = ShownName]
    [] OTHER -> [view[r] EXCEPT !.layout = v]
Shown(r, k, v) == IF v = NoLayout THEN view ELSE [view EXCEPT ![r] = Follows(r, k, v)]

\* A pull takes the keys one after the other ...
PullTopo(r, k) ==
  /\ view' = Shown(r, k, topo[k])
  /\ UNCHANGED <<topo, topoRead, siteCall, registering>>

\* ... but what it, or a watch event, has read may be applied late.
ReadTopo(r, k) ==
  /\ topoRead[r].key = None
  /\ Cardinality({q \in Regions : topoRead[q].key # None}) < MaxTopoReads
  /\ topoRead' = [topoRead EXCEPT ![r] = [key |-> k, value |-> topo[k]]]
  /\ UNCHANGED <<topo, view, siteCall, registering>>
ApplyTopo(r) ==
  /\ topoRead[r].key # None /\ topoRead' = [topoRead EXCEPT ![r] = Waiting]
  /\ view' = Shown(r, topoRead[r].key, topoRead[r].value)
  /\ UNCHANGED <<topo, siteCall, registering>>

SiteStep(c) == PublishSite(c) \/ SavePlace(c) \/ Unpublish(c) \/ DropLocal(c)

TopologyNext ==
  \/ \E c \in SiteCalls, r \in Regions :
       \/ CreateRegion(c, r) \/ AskOffline(c, r)
       \/ \E w \in Weights : CreateServer(c, r, w) \/ UpdateServer(c, r, w)
       \/ \E p \in Places : PlaceNode(c, r, p)
  \/ \E c \in SiteCalls : SiteStep(c) \/ SiteStops(c)
  \/ Start \/ Register \/ Bootstrap
  \/ \E r \in Regions : ApplyTopo(r) \/ \E k \in Keys : PullTopo(r, k) \/ ReadTopo(r, k)

TopologyFairness ==
  /\ \A c \in SiteCalls : WF_tvars(SiteStep(c))
  /\ WF_tvars(Register) /\ WF_tvars(Bootstrap)
  /\ \A r \in Regions : WF_tvars(ApplyTopo(r))
  /\ \A r \in Regions \ {Site}, k \in Keys : WF_tvars(PullTopo(r, k))

TopologySpec == TopologyInit /\ [][TopologyNext]_tvars
TopologyFairSpec == TopologySpec /\ TopologyFairness

-----------------------------------------------------------------------------
TopologyTypeOK ==
  /\ topo \in [region : {None, ShownName}, servers : Weights \cup {None}, layout : Places \cup {None, NoLayout}]
  /\ view \in [Regions -> [region : {None, ShownName}, servers : Weights \cup {None}, layout : Places \cup {None}]]
  /\ topoRead \in [Regions -> [key : Keys \cup {None},
                              value : {None, ShownName, NoLayout} \cup Weights \cup Places]]
  /\ registering \in {"no", "region", "servers", "done"}

\* A server of a region that is not named; a region that shows the three keys.
Orphaned == topo.servers # None /\ topo.region = None
SiteShown(r) == topo.layout # NoLayout => view[r] = topo

\* When the requests are over every other region shows what the three keys
\* say, whatever failed half-way, unless they are left with a server of a
\* region they do not name.
TopologyConverges == \A r \in Regions \ {Site} : <>[](Orphaned \/ SiteShown(r))
=============================================================================
