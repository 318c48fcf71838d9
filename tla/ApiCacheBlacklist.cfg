SPECIFICATION Spec
CONSTANTS
    Tasks = {p1, p2}
    MetaTTL = 2
    NilTTL = 1
    CountTTL = 2
    StatsTTL = 2
    TagLists <- BlackTagged
    Fragments <- NoFragment
    BlackTags <- MCBlackTags
    SportTagIDs <- MCSportTagIDs
    SeriesToSport <- MCSeriesToSport
    NonSportSlugs <- MCNonSportSlugs
    Wins = 1
    Even = 1
    Losses = 3
    PageSize = 2
    MaxPages = 2
    Nil = Nil
    NoEntry = NoEntry
SYMMETRY Alike
INVARIANTS
    BlacklistedIsDropped
