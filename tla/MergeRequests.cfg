SPECIFICATION Spec
CONSTANTS
    feat = feat
    main = main
    dev = dev
    Heads = {feat}
    Bases = {main, dev, feat}
    NoBranch = NoBranch
    Pushed = {feat, main}
    MaxPulls = 2
    MaxRev = 4
INVARIANTS
    TypeOK
    PullsShown
PROPERTIES
    NothingBlocksTheRest
    RefusedByRacesOnly
    RunsEnd
