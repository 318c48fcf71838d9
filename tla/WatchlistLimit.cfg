SPECIFICATION Spec
CONSTANTS
    Handlers = {h1, h2}
    Chats = {c1}
    Spellings <- MCSpellings
    Canon <- MCCanon
    MaxWatchlist = 1
    Conns = 2
    NoChat = NoChat
    NoWallet = NoWallet
    lower = lower
    upper = upper
    other = other
SYMMETRY Alike
INVARIANTS
    LimitHolds
