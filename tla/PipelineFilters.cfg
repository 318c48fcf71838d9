SPECIFICATION Spec
CONSTANTS
    Chats = {c1, c2}
    Wallets = {whale}
    Workers = {w1}
    Trades <- AllTrades
    Options <- AllOptions
    Categories <- SomeCategories
    Counts <- SomeCounts
    MinWhaleAmount = 100
    JobsCap = 1
    QueueCap = 1
    MaxEdits = 1
    MaxReceived = 1
    NoMeta = NoMeta
    NoSnapshot = NoSnapshot
    whale = whale
INVARIANTS
    OnlySoundAlerts
    AudienceIsExact
