SPECIFICATION FairSpec
CONSTANTS
  Block <- HardBlocks
  Prev <- HardPrev
  Txs <- HardTxs
  Time <- HardTime
  Producer <- HardProducer
  Witness <- TwoWitnesses
  Tx <- Transactions
  Expiration <- Expiry
  Requires <- Needs
  Excludes <- RulesOut
  EarlyBad = {}
  LateBad = {}
  Genesis = "genesis"
  None = None
  InitMaxSize = 8
  StartVoting = 1
  MaxWitnesses = 2
  MaxUndo = 8
  MaxBlockTxs = 1
  Repeats = TRUE
INVARIANTS LogMatchesChain
PROPERTIES CommittedKept CallReturns
