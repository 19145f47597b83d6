SPECIFICATION FairSpec
CONSTANTS
  cuc = cuc
  monitor = monitor
  Programs = {cuc, monitor}
  Broken = Broken
  Clients = {c1}
  Installed <- OneBroken
  MaxProcs = 2
  MaxMains = 2
  MaxCalls = 1
  MaxCrashes = 0
PROPERTY SignalledEnds
PROPERTY ShutdownStops
CHECK_DEADLOCK FALSE
