SPECIFICATION FairSpec
CONSTANTS
    Requests = {r1, r2}
    Cancellable = {r1}
    Pool = 3
INVARIANTS
    NoOrphans
PROPERTIES
    AnswersCount
    EveryInspectionEnds
CHECK_DEADLOCK FALSE
