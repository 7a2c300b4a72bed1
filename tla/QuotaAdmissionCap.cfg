SPECIFICATION Spec
CONSTANTS
  a = a
  b = b
  Objects = {a, b}
  Size <- MCSize
  Tasks = {t1, t2}
  NoTask = NoTask
  NoObject = NoObject
  Quota = 2
  BlockPercents = {40, 100}
  Cap = 1
SYMMETRY TaskSymmetry
PROPERTY SettledOnce
