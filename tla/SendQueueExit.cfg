SPECIFICATION Spec
CONSTANTS
    Producers = {p1}
    Messages = {m1, m2}
    Cap = 2
    NoMsg = NoMsg
    Main = Main
    Nobody = Nobody
INVARIANT
    InFlightNotLost
CHECK_DEADLOCK FALSE
