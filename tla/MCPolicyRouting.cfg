SPECIFICATION RoutingSpec
CONSTANTS
    Entities = {"EMAIL", "NAME"}
    Applications = {"app", "other"}
    Scores = {0, 1}
    Destinations <- MCDestinations
    YamlRules <- MCYaml
    FilterRules <- MCFilters
    InspectionResults <- MCInspections
INVARIANTS
    LocalFloor
    BlockWins
    MockOnlyByName
CHECK_DEADLOCK FALSE
