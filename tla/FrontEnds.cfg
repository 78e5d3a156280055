SPECIFICATION FairSpec
CONSTANTS
    MaxStep = 2
    Extra = Extra
    MaxMessages = 4
    DockFrames = 2
    MaxAttempts = 3
    MaxTaps = 3
INVARIANTS
    LoopInv
    StageInv
    MicInv
    OrbInv
PROPERTIES
    NeverCut
    Settles
CHECK_DEADLOCK FALSE
