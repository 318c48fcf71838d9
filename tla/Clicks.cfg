SPECIFICATION Spec
CONSTANTS
    Alerts <- MCAlerts
    Tx <- MCTx
    Wallet <- MCWallet
    Market <- MCMarket
    Category <- MCCategory
    Requests = {r1, r2}
    MaxClicks = 2
    NoAlert = NoAlert
    NoRow = NoRow
    a1 = a1
    a2 = a2
    a3 = a3
    t1 = t1
    w1 = w1
    w2 = w2
    m1 = m1
    m2 = m2
SYMMETRY Alike
INVARIANTS
    TypeOK
    RedirectGoesHome
    EventsMatchClicks
    CountersNeverRunAhead
