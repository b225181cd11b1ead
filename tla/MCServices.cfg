SPECIFICATION ServiceSpec
CHECK_DEADLOCK FALSE
CONSTANTS
    Group = {"g1", "g2"}
    NoGroup = "none"
    Interval = 2
    Reset = 5
    MaxGap = 3
    MaxTime = 8
    Words = {"x", "y"}
    Word8 = 4
    Word32 = 16
    Word64 = 16
    Word256 = 32
    RpcBackends = {1, 2, 3, 4, 5, 6, 7, 8, 9, 10}
    Callers = {1, 2}
    CoinTables <- MCCoinTables
    MaxMints = 1
    MaxNodeFaults = 1
    Uses = {{"info"}, {"balance", "allowance", "status"}}
    LegTokens <- MCLegTokens
    PaidAmounts = {0, 7, 8, 15, 16, 31, 32, 37}
    AskedDecimals <- MCAskedDecimals
    NodeGas = {0, 2, 3, 5, 6, 15}
    PlainGas = 2
    CodeSizes = {0, 23, 200, 201}
    MaxBody = 3
    Users = {"alice", "bob"}
    Secrets = {"s1", "s2"}
    Lifetimes = {1, 3}
    Day = 2
    MaxNow = 2
    MaxTokens = 2
    DtcConfigs <- MCDtcConfigs
    FeeConfigs <- MCFeeConfigs
    Decimals = {0, 1}
    Values = {0, 3, 10, 19, 20, 27, 40}
    UiUnit = 10
    FloatUnit = 10
    RouteTables <- MCRouteTables
    SegmentTables <- MCSegmentTables
    Pairs = {1, 2}
    AskedAmounts <- MCAskedAmounts
    RouteDecimals = {0, 2}
    AmountUnit = 10
    Leftovers = {0, 12}
    LookupTables = {"AccountManager", "BlacklistAddressManager", "ChannelCommissionRatioManager",
                    "CircleCctpChainManager", "ExchangeInfoManager", "LpInfoManager",
                    "NodeInfoManager", "PopularListManager", "UpdatePriceManager",
                    "MultiTransferChainManager", "MultiTransferTokenManager",
                    "AggregatorManager", "CmsUserManager", "MakerAddressManager"}
    Ids = {1, 2, 3}
    Levels = {0, 1, 2}
    Refs = {1, 2}
    MaxRows <- MCMaxRows
INVARIANTS
    SteadyIsAlerted
    AnswersAreHonest
    NeverPaysMore
    BodiesAreExecutable
    AuthInv
    QuotesAgree
    BestRouteUnderReload
    RoutesAreQuoted
    GettersAgree
PROPERTIES
    AlertsAreSpaced
    AlertMeansPersistent
    InfoIsKept
    PassedIsTokensUser
