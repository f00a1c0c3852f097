SPECIFICATION Spec
CONSTANTS
  MaxBlocks = 5
  Torn = Torn
INVARIANTS RightBlockRead FlushedSurvive
