SPECIFICATION Spec
CONSTANTS
    a = a
    b = b
    k1 = k1
    Key = {k1}
    Client = {a, b}
    Entry = {1, 2, 3, 4, 5, 6}
    Setups <- MCSetups
    MaxVersion = 2
    NilVersions = {2}
    NoEntry = NoEntry
    Nobody = Nobody
    Nil = Nil
    Default = Default
    Torn = Torn
    NoErr = NoErr
    Err = Err
SYMMETRY ClientSymmetry
INVARIANTS
    CacheInv
PROPERTIES
    KeepsGoodValue
    ExpiresOnlyIdle
