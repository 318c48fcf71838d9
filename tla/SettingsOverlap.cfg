SPECIFICATION Spec
CONSTANTS
    All <- MCAll
    None = None
    Unknown = {}
    Handlers = {h1, h2}
    Panels = {q1}
    Fields <- OneField
    Texts <- FewTexts
    Forms <- LowForms
    Faults = TRUE
    NaN = NaN
    Start = Start
    Stop = Stop
    Menu = Menu
    Garbage = Garbage
    NoRow = NoRow
    NoSession = NoSession
    NoPending = NoPending
    NoKeyboard = NoKeyboard
    NoPanel = NoPanel
    Unsure = Unsure
SYMMETRY Alike
INVARIANTS
    RowIsAsConfirmed
    FloorsHold
PROPERTIES
    ImplementsDatabase
