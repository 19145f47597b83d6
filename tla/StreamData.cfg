SPECIFICATION Spec
CONSTANTS
  Fail = Fail
  Crash = Crash
  Undefined = Undefined
  Null = Null
  Requests <- MCRequests
  Simplified <- MCSimplified
  Configurations <- MCConfigurations
  MaxWrites = 2
INVARIANT ListingFailsIffSpoiled
INVARIANT AnswersAsWritten
INVARIANT NothingElseStored
PROPERTY AskedForTheUnconfigured
CHECK_DEADLOCK FALSE
