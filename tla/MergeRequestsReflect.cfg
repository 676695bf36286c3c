SPECIFICATION Spec
CONSTANTS
    feat = feat
    main = main
    dev = dev
    Heads = {feat}
    Bases = {main}
    NoBranch = NoBranch
    Pushed = {feat, main}
    MaxPulls = 2
    MaxRev = 4
PROPERTIES
    AskingIsNoError
