SPECIFICATION Spec

CONSTANTS
  MaxEvents = 6
  Names <- MCNames
  Wrapper = "_wrapper"
  Programs <- MCPrograms
  Values <- MCValues
  Tuples <- MCTuples
  InputLists <- MCInputLists
  States = {0, 1}
  Fresh = 0
  Kept = Kept
  Does <- MCDoes
  Repeats = 2
  MaxLate = 1

INVARIANT TypeOK
 
 
 
