CONSTANTS
 Regions = {cn, us}
 Authority = cn
 None = None
 Apps = {a1}
 Titles = {t1}
 Requests = {q1}
 First = q0
 MaxPulled = 2
SPECIFICATION AppFairSpec
PROPERTIES LastIsRemoved
CHECK_DEADLOCK FALSE
