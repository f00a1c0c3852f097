SPECIFICATION FairSpec
CONSTANTS
    Node <- MCNode
    Edge <- Star
    Block <- Tree
    Genesis = "g"
    Prev <- TreePrev
    Worlds <- LineOrForked
    Maker <- TreeMaker
    Slow = {}
    NoAsk = NoAsk
    NoPeer = NoPeer
    Undoable = 9
    Limit = 2
    MinPrefetch = 3
    MaxPerPeer = 1
    MaxHandle = 1
    MaxPrefetch = 1
INVARIANTS RequestTracked ListsLink NoBlame
PROPERTY CatchUp
CHECK_DEADLOCK FALSE
