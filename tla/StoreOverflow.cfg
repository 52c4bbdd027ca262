SPECIFICATION Spec
CONSTANTS
    Threads = {t1}
    Refs = {r1}
    Ids = {i1}
    Approvers = {alice}
    Lifetimes = {12}
    DefaultExpiresIn = 2
    MaxSize = 0
    MaxDuration = 10
    MaxTime = 2
    HookSet = TRUE
    ReuseRequests = FALSE
    None = None
PROPERTIES
    ResolvedOnTime
