SPECIFICATION FairSpec
CONSTANTS
    Requests = {r1, r2, r3}
    MaxConcurrent = 2
INVARIANTS
    SlotsAreHeld
    ReportedOnce
    ReportsAreTrue
PROPERTIES
    SlotsComeBack
CHECK_DEADLOCK FALSE
