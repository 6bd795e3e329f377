SPECIFICATION FairSpec

CONSTANTS
  Pairs <- MCPairs
  Progs <- MCProgs
  Workers = 2

INVARIANT TypeOK
INVARIANT MergedExact
INVARIANT TimeoutsEarned
INVARIANT PoolExact
INVARIANT PoolEarned
INVARIANT PoolContained
PROPERTY OneChild
PROPERTY JobEnds
PROPERTY PoolEnds
PROPERTY ScoredFileSpec
