SPECIFICATION Spec
CONSTANTS
    Adapters = {"chat"}
    MaxRetries <- MCMaxRetries
    Timeout <- MCTimeout
    MaxBackoff = 2
    MaxChunks = 2
    Targets <- OneTarget
    Answers <- OneAnswer
    ResolveTime = 1
    MaxTime = 24
INVARIANTS
    RepeatsWhenAsked
CHECK_DEADLOCK FALSE
