SPECIFICATION DownloadSpec
CONSTANTS
  Regions = {cn}
  Authority = cn
  None = None
  Keys = {k}
  Callers = {c1, c2, c3, c4}
  Room = 2
  MaxCalls = 3
  Links = {l}
  Redeemers = {d1, d2}
SYMMETRY DataPlaneSymmetry
CONSTRAINT TwoCallsBesideLink
INVARIANTS
  DataTypesOK
  NothingIsLost
  
  
  HandedOnce
  
CHECK_DEADLOCK FALSE
