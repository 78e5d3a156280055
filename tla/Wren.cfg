SPECIFICATION MCSpec
CONSTANTS
    c1 = c1
    c2 = c2
    buy = buy
    call = call
    Text <- TwoTexts
    Chat <- OneChat
    MaxCrashes = 1
    Session <- TwoSessions
    MaxLives = 4
INVARIANTS
    NoticesInv
    SwitchInv
PROPERTIES
    InboxKept
    ToldAtLeastOnce
    DueIsTold
CHECK_DEADLOCK FALSE
