SPECIFICATION Spec
CONSTANTS
  Fail = Fail
  Crash = Crash
  Undefined = Undefined
  Null = Null
  AppDocuments <- MCAppDocuments
  DataDocuments <- MCDataDocuments
  Topologies <- MCTopologies
  Enddevices <- MCEnddevices
  Graphs <- MCGraphs
  Registries <- MCRegistries
  StreamIds = {"s"}
  InitialData <- MCInitialData
  MaxWrites = 5
INVARIANT AppAsSent
INVARIANT DataAsSent
INVARIANT ListedUnlessTorn
INVARIANT RefusedIffMissed
INVARIANT TopologyAsSent
INVARIANT SentBackIffImage
CHECK_DEADLOCK FALSE
