SPECIFICATION Spec
CONSTANTS
    a = a
    b = b
    c = c
    daily = daily
    live = live
    Jobs = {a}
    DryJobs = {}
    LimitOf <- NoLimit
    Paths = {daily}
    PathOf <- OnePath
    Overlap = FALSE
    Repos = {r1}
    NoRepo = NoRepo
    PageSize = 9
    NotesPage = 9
    From = "gitlab"
    Day = 3
    Zone = 0
    Margin = 1
    Lag = 0
    Start = 2
    MaxClock = 5
    MaxItems = 2
    MaxRev = 3
INVARIANTS
    NothingSkipped
    NoEcho
