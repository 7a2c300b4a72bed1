SPECIFICATION UserSpec
CONSTANTS
  Regions = {cn, us}
  Authority = cn
  None = None
  Users = {alice, bob}
  Changes = {c1, c2}
  Initial = old
  Preset = {alice}
  MaxCopies = 1
SYMMETRY ChangeSymmetry
INVARIANTS
  SuperadminRemains
  ChangeStands
PROPERTY VersionsOnlyGrow
CHECK_DEADLOCK FALSE
