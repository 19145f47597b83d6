SPECIFICATION Spec
CONSTANTS
  Macs = {m1}
  Workers = {w1}
  MaxRequests = 3
  MaxDeletes = 1
  MaxComputes = 0
  MaxStops = 0
INVARIANT StreamIdsUnique
CHECK_DEADLOCK FALSE
