SPECIFICATION Spec
CONSTANTS
    Threads = {t1}
    Refs = {r1}
    Ids = {i1, i2}
    Approvers = {alice}
    Lifetimes = {0, 1}
    DefaultExpiresIn = 2
    MaxSize = 0
    MaxDuration = 10
    MaxTime = 2
    HookSet = TRUE
    ReuseRequests = TRUE
    None = None
PROPERTIES
    TerminalImmutable
