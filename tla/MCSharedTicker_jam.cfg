SPECIFICATION FairSpec
CONSTANTS
    c1 = c1
    c2 = c2
    r1 = r1
    e1 = e1
    NoTicker = NoTicker
    Free = Free
    Tick = Tick
    Cache = {c1, c2}
    Ticker = {r1}
    RefreshTicker <- MCRefreshShared
    ExpireTicker <- MCExpireNone
PROPERTY
    CloseReturns
CHECK_DEADLOCK FALSE
