SPECIFICATION Spec
CONSTANTS
    Group <- Subgroup
    AnyQuote = FALSE
    EchoesShow = FALSE
    NotesPage = 3
    MaxOwn = 2
    MaxActs = 3
INVARIANTS
    OneEach
CHECK_DEADLOCK FALSE
