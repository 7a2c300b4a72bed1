SPECIFICATION ControlFairSpec
CONSTANTS
  Regions = {cn, us}
  Authority = cn
  None = None
  Parts = {"user", "application", "session", "key", "topology"}
  Users = {alice}
  Changes = {c1}
  Initial = old
  Preset = {alice}
  MaxCopies = 2
  Apps = {a1}
  Titles = {t1}
  Requests = {q1}
  First = q0
  MaxPulled = 2
  raise = raise
  Updates = {raise}
  NewLimit <- Lowered
  OldLimit = 2
  MaxUsed = 0
  MaxBusy = 1
  Tokens = {k1, k2}
  Sessions = {s1, s2}
  KeyCalls = {r1, r2}
  MaxAppEvents = 1
  Site = us
  SiteCalls = {v1}
  Weights = {w1}
  Places = {p1}
  ShownName = ShownName
  NoLayout = NoLayout
  MaxTopoReads = 1
PROPERTIES
  RegionsConverge
  
  RevocationsSpread
  RevocationReaches
  TopologyConverges
CHECK_DEADLOCK FALSE
