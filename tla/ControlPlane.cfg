SPECIFICATION ControlSpec
CONSTANTS
  Regions = {cn, us}
  Authority = cn
  None = None
  Parts = {"application", "limit", "session", "key", "topology"}
  Users = {alice}
  Changes = {c1}
  Initial = old
  Preset = {alice}
  MaxCopies = 1
  Apps = {a1, a2}
  Titles = {t1}
  Requests = {q1, q2}
  First = q0
  MaxPulled = 1
  raise = raise
  Updates = {raise}
  NewLimit <- Lowered
  OldLimit = 2
  MaxUsed = 2
  MaxBusy = 2
  Tokens = {k1, k2}
  Sessions = {s1, s2}
  KeyCalls = {r1, r2}
  MaxAppEvents = 2
  Site = us
  SiteCalls = {v1}
  Weights = {w1}
  Places = {p1}
  ShownName = ShownName
  NoLayout = NoLayout
  MaxTopoReads = 1
VIEW MovingPart
INVARIANTS
  ControlTypesOK
  EnabledWasVerified
  OnlyApprovedLimits
  FailedIsUndone
  LinkUsedOnce
PROPERTIES
  RevokedForGood
CHECK_DEADLOCK FALSE
