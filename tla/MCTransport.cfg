SPECIFICATION Spec
CONSTANTS
    Adapters = {"chat", "complete", "stream"}
    MaxRetries <- MCMaxRetries
    Timeout <- MCTimeout
    MaxBackoff = 2
    MaxChunks = 2
    Targets <- MCTargets
    Answers <- MCAnswers
    ResolveTime = 1
    MaxTime = 24
INVARIANTS
    NativeRepeatsWhenAsked
    SilenceIsBounded
PROPERTIES
    AttemptsAreDue
    CallsEnd
CHECK_DEADLOCK FALSE
