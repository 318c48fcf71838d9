SPECIFICATION FairSpec
CONSTANTS
    Chats = {c1}
    Wallets = {whale}
    Workers = {w1, w2}
    Trades <- TwoTrades
    Options <- WideOption
    Categories <- OneCategory
    Counts <- OneCount
    MinWhaleAmount = 100
    JobsCap = 1
    QueueCap = 1
    MaxEdits = 1
    MaxReceived = 2
    NoMeta = NoMeta
    NoSnapshot = NoSnapshot
    whale = whale
INVARIANTS
    TypeOK
    MetricsBalance
    AlertsJustified
PROPERTIES
    TradesAreFinished
    CachesConverge
