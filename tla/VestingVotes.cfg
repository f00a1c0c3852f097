SPECIFICATION Spec
CONSTANTS
    Account = {1, 2, 3, 4, 5, 6}
    Null = 1
    DevFund = 2
    User = {2, 3, 4, 5, 6}
    Witness = {2}
    Depth = 3
    MaxVotedFor = 1
    Intervals = 2
    Week = 1
    MaxRoutes = 1
    Hundred = 4
    Inflation = 0
    CreationFee = 0
    VestsPerWls = 1
    Minted <- NothingMinted
    StartBalance <- Nobody
    StartVested <- Different
    StartReward <- Nobody
    Amounts = {}
    Vests = {5}
    Claims = {}
    Percents = {}
    RouteTo = {}
    Proxies = {2, 3, 4, 5, 6}
    MaxSupply = 20
INVARIANTS ProxiedAreFollowers VotesAreVoters SharesVoteOnce
