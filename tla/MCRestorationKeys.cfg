SPECIFICATION FairSpec
CONSTANTS
    Tenants = {"t1"}
    Conversations = {"c1"}
    Spellings <- MCSpellings
    Canons <- MCCanons
    Canon <- MCCanon
    Tags <- MCTags
    TagOf <- CollidingTags
    TTL = 1
    ClockBound = 2
    Nodes = {"n1", "n2"}
    Ring <- RollingRing
    Active <- RollingActive
    NoRecord = NoRecord
    Requests = {r1, r2}
    Inputs <- CollidingInputs
    Replies <- OneReply
    Durable = TRUE
    None = None
INVARIANTS
    IInv
PROPERTIES
    RestoredIsBacked
    EveryRequestEnds
    ExpiredMappingsLeave
CHECK_DEADLOCK FALSE
