SPECIFICATION Spec

CONSTANTS
  NInputs = 2
  MaxEvents = 1
  MaxTimeouts = 2
  Habits = {}

INVARIANT StdoutCapturedPerTrace
