SPECIFICATION Spec
CONSTANTS
  monitor = monitor
  cuc = cuc
  s1 = s1
  s2 = s2
  a1 = a1
  Streams = {s1, s2}
  Modules = {1}
  Apps = {a1}
  Clients = {c1}
  MaxDaemons = 1
  Subscribers = {monitor}
  Mask <- Masks
  Loaded <- SomeEntries
  MaxCommits = 1
  MaxEnds = 0
PROPERTY TableIsSent
CHECK_DEADLOCK FALSE
