SPECIFICATION Spec

CONSTANTS
  NInputs = 3
  MaxTimeouts = 2
  NRuns = 3

INVARIANT TypeOK
INVARIANT ComparableRuns
INVARIANT NonterminatingJustified
INVARIANT BudgetCutsBetweenRuns
INVARIANT ProgramLeakBound
