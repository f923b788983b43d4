SPECIFICATION FairSpec
CONSTANTS
    Jobs = {j1, j2}
INVARIANTS
    OwnAnswer
    NoOrphans
PROPERTIES
    InspectionsEnd
CHECK_DEADLOCK FALSE
