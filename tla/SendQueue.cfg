SPECIFICATION FairSpec
CONSTANTS
    Producers = {p1, p2}
    Messages = {m1, m2, m3}
    Cap = 1
    NoMsg = NoMsg
    Main = Main
    Nobody = Nobody
INVARIANTS
    TypeOK
    NoPanic
    FifoDelivery
    BacklogHanded
PROPERTIES
    ShutIsFinal
    ImplementsOutbox
    EnqueueReturns
    QueuedIsHanded
    ShutdownCompletes
CHECK_DEADLOCK FALSE
