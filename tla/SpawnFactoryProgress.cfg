SPECIFICATION FairSpec
CONSTANTS
    t1 = t1
    t2 = t2
    w1 = w1
    w2 = w2
    s1 = s1
    s2 = s2
    NoTask = NoTask
    Task <- OneTask
    Worker <- TwoWorkers
    Slug <- TwoSlugs
    Reserved <- ReservedSlugs
    MaxRevisions = 3
    MayCrash = FALSE
PROPERTIES
    RunLands
CHECK_DEADLOCK FALSE
