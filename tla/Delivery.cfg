SPECIFICATION FairDeliverySpec
CONSTANTS
    Threads = {t1, t2}
    Refs = {r1}
    Ids = {i1}
    Approvers = {alice}
    Lifetimes = {1}
    DefaultExpiresIn = 1
    MaxSize = 0
    MaxDuration = 10
    MaxTime = 1
    HookSet = TRUE
    ReuseRequests = FALSE
    None = None
    Hosts = {good, other}
    AllowedHosts = {good}
    Deliveries = {{"poll"}, {"poll", "ping"}, {"ping", "push"}}
INVARIANTS
    ClientsAgree
    AtMostOnePost
PROPERTIES
    CallbackThenPoll
    PollingLearns
    PollsAnswered
