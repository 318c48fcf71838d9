SPECIFICATION Spec
CONSTANTS
    All <- MCAll
    None = None
    Unknown = {foo}
    Handlers = {h1}
    Panels = {q1, q2}
    Fields <- TwoFields
    Texts <- LimitTexts
    Forms <- LimitForms
    Faults = TRUE
    NaN = NaN
    Start = Start
    Stop = Stop
    Menu = Menu
    Garbage = Garbage
    NoRow = NoRow
    NoSession = NoSession
    NoPending = NoPending
    NoKeyboard = NoKeyboard
    NoPanel = NoPanel
    Unsure = Unsure
SYMMETRY Alike
INVARIANTS
    TypeOK
    RowIsAsConfirmed
PROPERTIES
    TapDoesWhatItSays
