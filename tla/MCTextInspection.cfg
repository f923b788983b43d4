SPECIFICATION Spec
CONSTANTS
    Characters <- AllCharacters
    MaxLength = 3
    MaxSpans = 3
    Scores <- TwoScores
    Types <- OneType
    RatioMinLength = 3
    IgnorablePercent = 50
INVARIANTS
    ResolvedGreedily
    RoundTripMeansWhole
    NothingKeptLeaks
    OutboundIsExact
CHECK_DEADLOCK FALSE
