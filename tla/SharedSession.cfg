SPECIFICATION Spec
CONSTANTS
  a1 = a1
  i1 = i1
  s1 = s1
  s2 = s2
  RestThreads = {r1, r2}
  Container = container
  Images = {i1}
  Apps = {a1}
  Streams = {s1, s2}
  Installed <- Mapped
  MaxCalls = 2
INVARIANT TypeOK
INVARIANT OkIsCommitted
INVARIANT RequestBesideStream
INVARIANT ParametersBesideApp
INVARIANT RefusedForLeftovers
SYMMETRY Symmetry
CHECK_DEADLOCK FALSE
