SPECIFICATION Spec
CONSTANTS
  s1 = s1
  s2 = s2
  Streams = {s1, s2}
  AppCount = 2
  DeviceCount = 2
  Names = {"p"}
  Values = {v1, v2}
  Offered <- SomeOffered
  Planned <- Crossed
  Entries <- SomeEntries
  Installed <- OneEach
  MaxRequests = 2
  MaxEdits = 1
  MaxFaults = 1
INVARIANT LastRequestHolds
INVARIANT ParametersArrive
INVARIANT AppliedWhole
PROPERTY SilentUntilEnabled
SYMMETRY Symmetry
CHECK_DEADLOCK FALSE
