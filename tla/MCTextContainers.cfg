SPECIFICATION Spec
CONSTANTS
    Characters <- PlainCharacters
    MaxLength = 3
    MaxSpans = 2
    Scores <- TwoScores
    Types <- OneType
    RatioMinLength = 3
    IgnorablePercent = 50
INVARIANT ContainersWin
CHECK_DEADLOCK FALSE
