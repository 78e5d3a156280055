SPECIFICATION MCSpec
CONSTANTS
    t1 = t1
    t2 = t2
    w1 = w1
    w2 = w2
    w3 = w3
    s1 = s1
    s2 = s2
    u1 = u1
    u2 = u2
    NoTask = NoTask
    NoUser = NoUser
    Task <- TwoTasks
    Worker <- TwoWorkers
    Slug <- TwoSlugs
    Reserved <- ReservedSlugs
    MaxRevisions = 3
    MayCrash = TRUE
    User <- TwoUsers
    Creator <- ThreeCreators
    Cap = 2
    LastDay = 2
SYMMETRY TaskWorkerSymmetry
INVARIANTS
    TypeOK
    ApprovedIsLive
    AgentsDistinct
    AwaitingIsReviewable
    ReservedNeverLive
    PromptOnRecord
    FailedHasReason
    RevisionBound
    AdmissionTypeOK
    DailyCapBound
CHECK_DEADLOCK FALSE
