SPECIFICATION FairSpec
CONSTANTS
    p = p
    q = q
    bug = bug
    v1 = v1
    v2 = v2
    none = none
    Runs <- MCRuns
    Targets <- Both
    Items = {1, 2}
    Labels <- MCLabels
    Titles <- MCTitles
    NoTitle = none
    MaxActs = 3
INVARIANTS
    TypeOK
    NoRaceLost
    LabelsKnown
    FieldsFollow
PROPERTIES
    AllWritten
CHECK_DEADLOCK FALSE
