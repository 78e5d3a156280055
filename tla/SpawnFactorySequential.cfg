SPECIFICATION Spec
CONSTANTS
    t1 = t1
    t2 = t2
    w1 = w1
    w2 = w2
    s1 = s1
    s2 = s2
    NoTask = NoTask
    Task <- TwoTasks
    Worker <- OneWorker
    Slug <- TwoSlugs
    Reserved <- ReservedSlugs
    MaxRevisions = 3
    MayCrash = TRUE
INVARIANTS
    ApprovedAsShown
PROPERTIES
    LifecycleSpec
CHECK_DEADLOCK FALSE
