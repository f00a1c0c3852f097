SPECIFICATION HSpec
CONSTANTS
  Key = {k1, k2}
  Data = {d1, d2}
  Null = Null
  MaxId = 3
  MaxDepth = 3
  MaxRev = 3
SYMMETRY Symm
INVARIANTS RevisionsConsecutive SquashCausal RecordsDescribeSessions
PROPERTY UndoRestores
