SPECIFICATION FairSpec
CONSTANTS
    Threads = {t1, t2}
    Refs = {r1, r2}
    Ids = {i1, i2}
    Approvers = {alice}
    Lifetimes = {0, 1}
    DefaultExpiresIn = 2
    MaxSize = 1
    MaxDuration = 10
    MaxTime = 2
    HookSet = TRUE
    ReuseRequests = FALSE
    None = None
INVARIANTS
    CapRespected
PROPERTIES
    ImplementsLifecycle
    EveryResolutionAnnounced
