SPECIFICATION FairSpec
CONSTANTS
    Group <- OneSegment
    AnyQuote = FALSE
    EchoesShow = FALSE
    NotesPage = 3
    MaxOwn = 2
    MaxActs = 3
INVARIANTS
    TypeOK
    MarkersTrue
    OneEach
    NotesOnce
    SidesMeet
PROPERTIES
    OwnWorkKept
    SidesAgree
    ImplementsTwins
CHECK_DEADLOCK FALSE
