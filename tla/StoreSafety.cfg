SPECIFICATION Spec
CONSTANTS
    Threads = {t1, t2}
    Refs = {r1, r2}
    Ids = {i1, i2, i3}
    Approvers = {alice}
    Lifetimes = {0, 1}
    DefaultExpiresIn = 2
    MaxSize = 0
    MaxDuration = 10
    MaxTime = 2
    HookSet = TRUE
    ReuseRequests = FALSE
    None = None
SYMMETRY Symmetry
INVARIANTS
    TypeOK
    OneVerdict
    HookAtMostOnce
    FoundUnderOwnId
PROPERTIES
    ResolvedOnTime
    TerminalImmutable
    SweptOnlyWhenResolved
