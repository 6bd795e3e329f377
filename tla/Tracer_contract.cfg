SPECIFICATION FairSpec

CONSTANTS
  NInputs = 2
  MaxEvents = 1
  MaxTimeouts = 1
  Habits = {"thread", "close", "freeze"}

INVARIANT TypeOK
INVARIANT LeakBound
PROPERTY FinishedRunNotLost
PROPERTY AcceptedTraceFrozen
PROPERTY ContractSpec
PROPERTY TraceReturns
