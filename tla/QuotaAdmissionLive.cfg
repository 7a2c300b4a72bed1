SPECIFICATION FairSpec
CONSTANTS
  a = a
  b = b
  Objects = {a}
  Size <- MCSize
  Tasks = {t1, t2}
  NoTask = NoTask
  NoObject = NoObject
  Quota = 3
  BlockPercents = {100}
  Cap = 1
PROPERTY AbandonedIsReclaimed
