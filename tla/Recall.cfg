CONSTANTS
    Focuses = {"history", "context", "recall", "embed", "search"}
    Imported = {1}
    Writers = {"w", "x"}
    MaxTurns = 2
    MaxHistFaults = 1
    MaxCommands = 3
    MaxUpgrades = 1
    MaxGrowth = 1
    Windows <- mWindows
    InitialMax = 8
    UnknownLimit = 5
    RecentTurns = 2
    RetrievalLimit = 2
    MaxGenerated = 2
    Shapes <- mShapes
    ConversationLimit = 2
    PageSize = 4
    EvidencePage = 2
    ResultBytes = {4, 7, 12}
    Docs <- mDocs
    MaxEdits = 2
    MaxMoves = 1
    MaxCopies = 1
    MaxSyncs = 3
    MaxEmbedFaults = 1
    FoundHits <- mFoundHits
    SearchLimit = 3
    MinExcerpt = 3
    Caps = {0, 1, 3, 5, 8, 11, 14, 18, 24, 40}
SPECIFICATION MemoryFairSpec
INVARIANTS
    HistorySafe
    RecallSafe
PROPERTIES
    RecallSteps
    MemoryCatchesUp
CHECK_DEADLOCK FALSE
