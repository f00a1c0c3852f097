SPECIFICATION FairSpec
CONSTANTS
    Node <- MCNode
    Edge <- Star
    Block <- Tree
    Genesis = "g"
    Prev <- TreePrev
    Worlds <- JustSlowly
    Maker <- TreeMaker
    Slow = {"z"}
    NoAsk = NoAsk
    NoPeer = NoPeer
    Undoable = 9
    Limit = 2
    MinPrefetch = 3
    MaxPerPeer = 1
    MaxHandle = 1
    MaxPrefetch = 1
PROPERTY RequestsEnd
CHECK_DEADLOCK FALSE
