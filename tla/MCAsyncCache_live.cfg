SPECIFICATION FairSpec
CONSTANTS
    a = a
    b = b
    k1 = k1
    Key = {k1}
    Client = {a, b}
    Entry = {1, 2, 3, 4, 5, 6}
    Setups <- MCFlights
    MaxVersion = 2
    NilVersions = {}
    NoEntry = NoEntry
    Nobody = Nobody
    Nil = Nil
    Default = Default
    Torn = Torn
    NoErr = NoErr
    Err = Err
PROPERTIES
    EventuallyUpToDate
    CallsReturn
