SPECIFICATION EnforcerSpec
CONSTANTS
    Absent = Absent
    Requests <- MCRequests
    Challenges <- MCChallenges
    OtherContexts <- MCOtherContexts
    Statuses = {200, 500}
    Scope <- MCScope
    ResourceMetadata <- MCResourceMetadata
    Realm <- MCRealm
    Responders = {"default", "custom"}
INVARIANTS
    PassesOnlyPermitted
    DecisionIsAboutTheCall
    DeniesAreErrors
    ChallengeReachesClient
    UnauthenticatedStartDiscovery
