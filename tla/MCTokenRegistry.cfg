SPECIFICATION FairSpec
CONSTANTS
    ChainTables <- MCChainTables
    TokenTables <- MCTokenTables
    BadRows <- MCBadRows
    AddedTokens <- MCAddedTokens
    Padded <- MCPadded
    MaxEdits = 2
    MaxFaults = 1
    MaxAdds = 1
INVARIANTS
    RegistryInv
PROPERTIES
    SteadyChainsHaveGas
    ListedTokensWin
    GasTokensArrive
