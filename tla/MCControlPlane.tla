--------------------------- MODULE MCControlPlane ---------------------------
(***************************************************************************)
(* The parts of the control plane on small instances.  They share regions, *)
(* authority and nothing else, so one run has them side by side: `part'    *)
(* says which of them moves, the others stay as they start.                *)
(***************************************************************************)
EXTENDS UserIdentity, ApplicationRegistry, QuotaLimit, AuthSession, ApiKeys, Topology, TLC

CONSTANTS Parts,     \* the parts that take turns
          raise      \* the administrator's change of a quota

VARIABLE part

Lowered == raise :> 1

\* A part that does not move starts in one state only.
OnlyOneStart ==
  /\ part # "user" => \A u \in Users : etcd[u] # None
  /\ part # "application" => \E t \in Titles :
       /\ registry[CHOOSE a \in Apps : TRUE] = NewApp(t, First)
       /\ t = CHOOSE x \in Titles : TRUE
  /\ part # "topology" => topo.layout = NoLayout

ControlInit ==
  /\ part \in Parts
  /\ UserInit /\ AppInit /\ LimitInit /\ SessionInit /\ KeyInit /\ TopologyInit
  /\ OnlyOneStart

ControlNext ==
  /\ UNCHANGED part
  /\ \/ part = "user" /\ UNCHANGED <<avars, lvars, hvars, kvars, tvars>> /\ UserNext
     \/ part = "application" /\ UNCHANGED <<uvars, lvars, hvars, kvars, tvars>> /\ AppNext
     \/ part = "limit" /\ UNCHANGED <<uvars, avars, hvars, kvars, tvars>> /\ LimitNext
     \/ part = "session" /\ UNCHANGED <<uvars, avars, lvars, kvars, tvars>> /\ SessionNext
     \/ part = "key" /\ UNCHANGED <<uvars, avars, lvars, hvars, tvars>> /\ KeyNext
     \/ part = "topology" /\ UNCHANGED <<uvars, avars, lvars, hvars, kvars>> /\ TopologyNext

cvars == <<part, uvars, avars, lvars, hvars, kvars, tvars>>
ControlSpec == ControlInit /\ [][ControlNext]_cvars

\* The fairness of the part that moves.
ControlFairness ==
  /\ \A c \in Changes : WF_uvars(part = "user" /\ ChangeStep(c))
  /\ \A u \in Users :
       WF_uvars(part = "user" /\ lock[u] # None /\ ChangeEnded(lock[u]) /\ LeaseEnds(u))
  /\ \A r \in Regions : WF_uvars(part = "user" /\ ApplyCopy(r))
  /\ \A r \in Regions, u \in Users : /\ WF_uvars(part = "user" /\ PublishLocal(r, u))
                                     /\ WF_uvars(part = "user" /\ Pull(r, u))
  /\ \A c \in Requests : WF_avars(part = "application" /\ RequestStep(c))
  /\ \A r \in Regions : WF_avars(part = "application" /\ ApplyApp(r))
  /\ \A r \in Regions, a \in Apps : WF_avars(part = "application" /\ PullApp(r, a))
  /\ \A c \in Sessions : WF_hvars(part = "session" /\ SessionStep(c))
  /\ \A r \in Regions : /\ WF_hvars(part = "session" /\ ReadRevoked(r))
                        /\ WF_hvars(part = "session" /\ ImportRevoked(r))
  /\ \A c \in KeyCalls : WF_kvars(part = "key" /\ KeyStep(c))
  /\ \A r \in Regions : /\ WF_kvars(part = "key" /\ PullApiKeys(r))
                        /\ WF_kvars(part = "key" /\ ApplyInbox(r))
  /\ \A c \in SiteCalls : WF_tvars(part = "topology" /\ SiteStep(c))
  /\ WF_tvars(part = "topology" /\ Register) /\ WF_tvars(part = "topology" /\ Bootstrap)
  /\ \A r \in Regions : WF_tvars(part = "topology" /\ ApplyTopo(r))
  /\ \A r \in Regions \ {Site}, k \in Keys : WF_tvars(part = "topology" /\ PullTopo(r, k))

ControlFairSpec == ControlSpec /\ ControlFairness

\* A state is told from others by the part that moves.
MovingPart ==
  CASE part = "user" -> <<part, uvars>>
    [] part = "application" -> <<part, avars>>
    [] part = "limit" -> <<part, lvars>>
    [] part = "session" -> <<part, hvars>>
    [] part = "key" -> <<part, kvars>>
    [] part = "topology" -> <<part, tvars>>

\* The variables of every part have their types.
ControlTypesOK ==
  /\ part = "user" => UserTypeOK
  /\ part = "application" => AppTypeOK
  /\ part = "limit" => LimitTypeOK
  /\ part = "session" => SessionTypeOK
  /\ part = "key" => KeyTypeOK
  /\ part = "topology" => TopologyTypeOK
=============================================================================
