SPECIFICATION FairSpec

CONSTANTS
  b1 = b1
  b2 = b2
  v1 = v1
  v2 = v2
  v3 = v3
  v4 = v4
  p1 = p1
  p2 = p2
  p3 = p3
  p4 = p4
  Torn = Torn
  Programs <- MCPrograms
  Broken <- MCBroken
  Mutators <- MCMutators
  Dataset <- MCDataset
  CheckpointEvery = 2
  MaxStarts = 4

CHECK_DEADLOCK FALSE
INVARIANT TypeOK
INVARIANT ResumeReproduces
INVARIANT CheckpointSound
INVARIANT EachPairOnce
PROPERTY NothingRescored
PROPERTY EvaluationEnds
