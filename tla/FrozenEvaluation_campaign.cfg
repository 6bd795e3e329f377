SPECIFICATION Spec

CONSTANTS
  Runs = {r1, r2}
  MaxEdits = 1
  MaxFits = 2
  MaxScorings = 2
  MaxFreezes = 1
  NoFile = NoFile

SYMMETRY RunSymmetry

INVARIANT TypeOK
INVARIANT PinnedUsed
INVARIANT ResultAuditable
INVARIANT ModelsStand
PROPERTY SingleResult

CHECK_DEADLOCK FALSE
