SPECIFICATION Spec
CONSTANTS
  Instances = {i1, i2}
  Kinds = {k1, k2}
  Requests = {r1, r2}
PROPERTIES RefusedOnlyWhileRunning
CHECK_DEADLOCK FALSE
