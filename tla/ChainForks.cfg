SPECIFICATION Spec
CONSTANTS
  Block <- ForkBlocks
  Prev <- ForkPrev
  Txs <- ForkTxs
  Time <- ForkTime
  Producer <- ForkProducer
  Witness <- TwoWitnesses
  Tx <- Transactions
  Expiration <- Expiry
  Requires <- Needs
  Excludes <- RulesOut
  EarlyBad = {}
  LateBad = {"c3"}
  Genesis = "genesis"
  None = None
  InitMaxSize = 8
  StartVoting = 3
  MaxWitnesses = 2
  MaxUndo = 4
  MaxBlockTxs = 1
  Repeats = FALSE
INVARIANTS FailedPushUnwound NoTxTwice LongestKnownChain PendingApplies GeneratedApplied ChainOrderKept
PROPERTIES CallKeepsTxs
