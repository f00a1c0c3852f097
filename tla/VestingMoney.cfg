SPECIFICATION Spec
CONSTANTS
    Account = {1, 2, 3}
    Null = 1
    DevFund = 3
    User = {2, 3}
    Witness = {2}
    Depth = 2
    MaxVotedFor = 0
    Intervals = 2
    Week = 1
    MaxRoutes = 1
    Hundred = 8
    Inflation = 1
    CreationFee = 0
    VestsPerWls = 2
    Minted <- WitnessPaid
    StartBalance <- Nobody
    StartVested <- FirstThree
    StartReward <- FirstOne
    Amounts = {1}
    Vests = {5}
    Claims = {1}
    Percents = {0, 4}
    RouteTo = {3}
    Proxies = {}
    MaxSupply = 6
INVARIANTS SupplyAccounted
PROPERTIES PowerDownExact ShareKeepsValue
