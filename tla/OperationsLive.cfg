SPECIFICATION OperationsFairSpec
CONSTANTS
  Parts = {"storage", "inventory", "etcd", "mesh", "limit"}
  Regions = {cn}
  Authority = cn
  None = None
  Ops = {x}
  Workers = {w1, w2}
  Home <- OneRegion
  NoOp = NoOp
  Free = Free
  Orphaned = Orphaned
  Cleanups = {o1}
  Paths <- Flat
  SizeOf <- Sizes
  Syncs = {v1}
  Generations = {g1, g2, g3}
  MaxRemains = 1
  InsertBatch = 1
  Tasks = {t}
  Runners = {n1}
  Members = {m1, m2}
  MaxDeliveries = 2
  Sites = {s1, s2}
  Approvals = {a1}
  Operators = {p1}
  Loop = Loop
  raise = raise
  Updates = {raise}
  NewLimit <- Raised
  OldLimit = 1
  MaxUsed = 0
  MaxBusy = 1
INVARIANT SuccessIsReal
PROPERTIES
  EveryOperationEnds
  
  EveryTaskEnds
  MeshComesBack
  LimitsConverge
CHECK_DEADLOCK FALSE
