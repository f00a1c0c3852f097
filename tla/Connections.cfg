SPECIFICATION FairSpec
CONSTANTS
    Node <- Pair
    Conn = {1, 2}
    Knows <- Each
    Incompatible = {}
    Nobody = Nobody
    Desired = 2
    Maximum = 2
    MaxFaults = 1
INVARIANTS OneConnection ActiveAgreed
PROPERTY NoLimbo
CHECK_DEADLOCK FALSE
