SPECIFICATION Spec
CONSTANTS
    Tenants = {"t1"}
    Conversations = {"c1", "c2"}
    Spellings <- MCSpellings
    Canons <- MCCanons
    Canon <- MCCanon
    Tags <- MCTags
    TagOf <- DistinctTags
    TTL = 1
    ClockBound = 2
    Nodes = {"n1"}
    Ring <- OneRing
    Active <- OneActive
    NoRecord = NoRecord
    Requests = {r1, r2}
    Inputs <- PairInputs
    Replies <- PairReply
    Durable = FALSE
    None = None
SYMMETRY Symmetry
INVARIANTS
    OwnSpellingOnly
    MissesAreDue
PROPERTIES
    KeepsPromise
CHECK_DEADLOCK FALSE
