SPECIFICATION Spec
CONSTANTS
    feat = feat
    main = main
    dev = dev
    Heads = {feat}
    Bases = {main, dev}
    NoBranch = NoBranch
    Pushed = {feat, main}
    MaxPulls = 1
    MaxRev = 4
PROPERTIES
    BaseFollowed
