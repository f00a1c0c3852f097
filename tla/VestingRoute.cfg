SPECIFICATION Spec
CONSTANTS
    Account = {0, 1, 2, 3}
    Null = 1
    DevFund = 0
    User = {2, 3}
    Witness = {2}
    Depth = 2
    MaxVotedFor = 1
    Intervals = 2
    Week = 1
    MaxRoutes = 2
    Hundred = 4
    Inflation = 0
    CreationFee = 0
    VestsPerWls = 1
    Minted <- NothingMinted
    StartBalance <- Nobody
    StartVested <- FirstThree
    StartReward <- Nobody
    Amounts = {}
    Vests = {3}
    Claims = {}
    Percents = {0, 2, 4}
    RouteTo = {0, 3}
    Proxies = {}
    MaxSupply = 10
INVARIANTS BlocksApply
