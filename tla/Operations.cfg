SPECIFICATION OperationsSpec
CONSTANTS
  Parts = {"storage", "cleanup", "inventory", "etcd", "mesh"}
  Regions = {cn, us}
  Authority = cn
  None = None
  Ops = {x, y}
  Workers = {w1}
  Home <- OneRegion
  NoOp = NoOp
  Free = Free
  Orphaned = Orphaned
  Cleanups = {o1, o2}
  Paths <- Nested
  SizeOf <- Sizes
  Syncs = {v1, v2}
  Generations = {g1, g2, g3, g4}
  MaxRemains = 1
  InsertBatch = 3
  Tasks = {t}
  Runners = {n1, n2}
  Members = {m1, m2}
  MaxDeliveries = 3
  Sites = {s1, s2}
  Approvals = {a1, a2}
  Operators = {p1}
  Loop = Loop
  raise = raise
  Updates = {raise}
  NewLimit <- Raised
  OldLimit = 1
  MaxUsed = 0
  MaxBusy = 5
VIEW MovingPart
SYMMETRY OperationsSymmetry
CONSTRAINT NoLapse
INVARIANTS
  OperationsTypesOK
  RecordsAreTrue
  
  IndexIsWhole
  EffectOnce
  PairsHaveOneRule
PROPERTY SettledForGood
CHECK_DEADLOCK FALSE
