SPECIFICATION Spec
CONSTANTS
    Base = 1
    MaxBackoff = 60
    Healthy = 12
    Handshake = 2
    Watchdog = 6
    MaxShorts = 7
INVARIANTS
    TypeOK
    BackoffFollowsHistory
    FeedIsBackInTime
