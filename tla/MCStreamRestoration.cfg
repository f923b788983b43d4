SPECIFICATION Spec
CONSTANTS
    Width = 1
    Protocols = {"responses", "messages"}
    Chunks <- MCChunks
    MaxItems = 3
    MaxOutput = 4
    ValueSize = 4
    MaxHeld = 6
INVARIANTS
    ClientUnderstands
    TextIsRestored
    ToolsArePrivate
    OutputIsBounded
CHECK_DEADLOCK FALSE
