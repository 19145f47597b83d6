SPECIFICATION FairSpec
CONSTANTS
  Macs = {m1, m2}
  Workers = {w1, w2}
  MaxRequests = 3
  MaxDeletes = 2
  MaxComputes = 2
  MaxStops = 1
INVARIANT TypeOK
INVARIANT DenseNumbers
INVARIANT AcceptedIsStored
INVARIANT ConfigurationFitsRequest
INVARIANT StuckOnlyAfterDelete
PROPERTY ReplaceOnlyAfterDeleteOrRace
PROPERTY PostCompleteIffConfiguredLast
PROPERTY PendingServed
CHECK_DEADLOCK FALSE
