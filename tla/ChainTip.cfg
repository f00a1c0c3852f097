SPECIFICATION Spec
CONSTANTS
  Block <- TipBlocks
  Prev <- TipPrev
  Txs <- TipTxs
  Time <- TipTime
  Producer <- TipProducer
  Witness <- TwoWitnesses
  Tx <- Transactions
  Expiration <- Expiry
  Requires <- Needs
  Excludes <- RulesOut
  EarlyBad = {"d4"}
  LateBad = {}
  Genesis = "genesis"
  None = None
  InitMaxSize = 8
  StartVoting = 1
  MaxWitnesses = 2
  MaxUndo = 8
  MaxBlockTxs = 1
  Repeats = TRUE
INVARIANTS LogMatchesChain
