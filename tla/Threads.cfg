SPECIFICATION MCSpec
CONSTANTS
    w1 = w1
    w2 = w2
    w3 = w3
    Thread <- ThreeThreads
    Worker <- ThreeThreads
    Limit = 3
    Span = 1
    MaxWait = 2
    MaxFails = 3
    Window = 2
    Lockout = 5
    MaxLag = 2
    d1 = d1
    d2 = d2
    call = call
    pay = pay
    t1 = t1
    t2 = t2
    t3 = t3
    research = research
    legal = legal
    Daemon <- TwoDaemons
    Reminder <- TwoReminders
    MaxFaults = 2
    MaxStops = 2
    Slug <- TwoSlugs
    Timer <- ThreeTimers
    MaxEdits = 2
    MaxRaises = 1
    MaxCalls = 3
INVARIANTS
    LimiterInv
    GateInv
    RemindersInv
    WatcherInv
PROPERTIES
    ToldAtMostOnce
    AllGoOn
CHECK_DEADLOCK FALSE
