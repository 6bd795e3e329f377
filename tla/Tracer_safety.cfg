SPECIFICATION Spec

CONSTANTS
  NInputs = 2
  MaxEvents = 1
  MaxTimeouts = 2
  Habits = {"thread"}

INVARIANT NoCrossedResults
INVARIANT HostStdoutKept
INVARIANT OnlyLeftBehindIntrude
