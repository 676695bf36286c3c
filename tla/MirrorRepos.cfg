SPECIFICATION FairSpec
CONSTANTS
    a = a
    b = b
    c = c
    daily = daily
    live = live
    Jobs = {a}
    DryJobs = {}
    LimitOf <- NoLimit
    Paths = {daily}
    PathOf <- OnePath
    Overlap = FALSE
    Repos = {r1, r2}
    NoRepo = NoRepo
    PageSize = 9
    NotesPage = 9
    From = "github"
    Day = 4
    Zone = 0
    Margin = 1
    Lag = 1
    Start = 2
    MaxClock = 4
    MaxItems = 1
    MaxRev = 2
INVARIANTS
    NothingSkipped
PROPERTIES
    DailyPassPicksUpTheRest
    EveryRepoCatchesUp
