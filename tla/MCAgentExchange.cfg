SPECIFICATION ExchangeSpec
CONSTANTS
    Reads <- Fits
    WithinLimits <- Bounded
    SchemaCompiles <- Compiles
    SchemaIsFlat <- FlatContract
    SchemaMatches <- Matches
    MaxNesting = 14
    FreeText <- MCFreeText
    Remote <- MCRemote
    MaxCollection = 10
    MaxDepth = 10
    Bodies <- MCBodies
    Private <- MCPrivate
    Canonical <- MCCanonical
    MaxLocations = 99
    MaxSchemaDepth = 4
    MaxSchemaNodes = 7
    MaxSchemaItems = 9
    Placeholders <- MCPlaceholders
    Links <- MCLinks
    Workspace <- MCWorkspace
    MaxWords = 8
    MaxCalls = 3
    MaxDefinitions = 9
    MaxArgumentDepth = 4
    MaxArgumentNodes = 11
    MaxArgumentItems = 9
    MaxToolBytes = 44
    Answers <- MCAnswers
    MaxItems = 4
    MaxAnswerBytes = 120
    ValueTexts <- MCValueTexts
    MaxEventBytes = 6
    MaxReceived = 7
INVARIANTS HistoryIsPaired NothingPrivateLeaves OnlyContentChanges FramesAreExact
    EachCallIsWhole BatchAsDeclared StructureIsAuthored CallsStayLocal
CHECK_DEADLOCK FALSE
