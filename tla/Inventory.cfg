SPECIFICATION FairSpec
CONSTANTS
    Node <- MCNode
    Edge <- Ring
    Tx = {"t"}
    Block = {"b1", "b2"}
    Prev <- MCPrev
    Source <- MCSource
    Fragile = {{"x", "y"}}
    None = None
    MaxItems = 2
    MaxDrops = 1
INVARIANTS NoLostItem RequestedOnce
PROPERTY Delivered
CHECK_DEADLOCK FALSE
