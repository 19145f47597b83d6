SPECIFICATION Spec
CONSTANTS
  cuc = cuc
  monitor = monitor
  Programs = {cuc, monitor}
  Broken = Broken
  Clients = {c1, c2}
  Installed <- TwoModules
  MaxProcs = 2
  MaxMains = 1
  MaxCalls = 3
  MaxCrashes = 1
INVARIANT TypeOK
INVARIANT RunningIsRecorded
INVARIANT PidIsOfTheModule
INVARIANT UnreadableOnlyAfterStray
INVARIANT NamesUnique
SYMMETRY Symmetry
CHECK_DEADLOCK FALSE
