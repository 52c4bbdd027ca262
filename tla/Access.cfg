SPECIFICATION AccessSpec
CONSTANTS
    None = None
    Targets <- MCTargets
    DenyContexts <- MCDenyContexts
    Results <- MCResults
    TaskStatuses = {"", "approved", "partial", "queued"}
    TaskItems <- MCTaskItems
    MaxDenials = 2
    MaxItems = 2
INVARIANTS
    AcceptedIsBound
    ReevaluationsCarryApprovals
