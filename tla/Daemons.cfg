SPECIFICATION Spec
CONSTANTS
  monitor = monitor
  cuc = cuc
  s1 = s1
  s2 = s2
  a1 = a1
  Streams = {s1, s2}
  Modules = {1}
  Apps = {a1}
  Clients = {c1, c2}
  MaxDaemons = 2
  Subscribers = {monitor, cuc}
  Mask <- Masks
  Loaded <- SomeEntries
  MaxCommits = 1
  MaxEnds = 1
INVARIANT TypeOK
INVARIANT OneDaemon
INVARIANT ListenersAreServed
CHECK_DEADLOCK FALSE
