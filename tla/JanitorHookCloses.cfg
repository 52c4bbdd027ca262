SPECIFICATION FairJanitorSpec
CONSTANTS
    Threads = {t1, t2, janitor}
    Janitor = janitor
    Refs = {r1}
    Ids = {i1, i2}
    Approvers = {alice}
    Lifetimes = {1}
    DefaultExpiresIn = 1
    MaxSize = 0
    MaxDuration = 10
    MaxTime = 1
    HookSet = TRUE
    ClosesOn = {"expired"}
    ReuseRequests = FALSE
    None = None
PROPERTIES
    CloseReturns
