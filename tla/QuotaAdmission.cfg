SPECIFICATION Spec
CONSTANTS
  a = a
  b = b
  Objects = {a, b}
  Size <- SameSize
  Tasks = {t1, t2}
  NoTask = NoTask
  NoObject = NoObject
  Quota = 4
  BlockPercents = {70, 100}
  Cap = 2
SYMMETRY FullSymmetry
INVARIANTS
  TypeOK
  CountersMatchSessions
  ChargedIsStored
PROPERTIES
  FreedStaysUnstored
