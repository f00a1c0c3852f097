SPECIFICATION Spec
CONSTANTS
    Account = {1, 2}
    Comment <- Three
    Author <- MCAuthor
    Stake <- MCStake
    Worlds <- MCWorlds
    Minted = {5}
    Steps = {1, 2}
    Root = Root
    Null = Null
    Hundred = 8
    MaxDepth = 2
    Window = 4
    Lockout = 1
    Auction = 2
    Regeneration = 4
    Reserve = 2
    Dust = 0
    MaxChanges = 1
    Decay = 4
    CurationPercent = 3
    MinPayout = 2
    MaxPayout = 100
    StartClaims = 2
    MaxTime = 6
INVARIANTS VotesCounted FundExact TreeCounted
PROPERTIES EqualPay
CHECK_DEADLOCK FALSE
