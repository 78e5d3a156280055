SPECIFICATION MCSpec
CONSTANTS
    c1 = c1
    c2 = c2
    buy = buy
    call = call
    Text <- TwoTexts
    Chat <- OneChat
    MaxCrashes = 0
    Session <- TwoSessions
    MaxLives = 1
PROPERTIES
    EachIsTold
CHECK_DEADLOCK FALSE
