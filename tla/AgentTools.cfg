CONSTANTS
    Focuses = {"agent", "exec", "start", "sub", "patch", "commit"}
    Tools = {"attach", "look"}
    DeliverTools = {"attach"}
    Refs = {"m"}
    Models <- mModels
    maxTurns = 3
    maxEmpty = 1
    historySize = 3
    critical = 2
    budgetLimit = 2
    MaxAgentRuns = 2
    MaxChunks = 1
    MaxCalls = 2
    Budgets = {3}
    ErrTexts <- mErrTexts
    TreeSize = 3
    MaxStarts = 3
    MaxRetries = 2
    Sessions = {1, 2}
    MaxLogs = 0
    MaxRecords = 1
    MaxSubFaults = 2
    MaxBoots = 2
    MaxMessages = 1
    PatchPaths = {"p", "q"}
    MaxTokens = 5
    Scripts <- mScripts
    Widths <- mWidths
    MaxReadLines = 3
    MaxReadBytes = 4
    MemoryPaths = {"A", "B", "n"}
    OtherPaths = {"w"}
    CorePaths = {"A", "B"}
    KeyOrder <- mOrder
    FileCalls = {"x", "y"}
    Plans <- mPlans
    MaxFileFaults = 2
    MaxCrashes = 1
SPECIFICATION ToolsFairSpec
INVARIANTS
    AgentSafe
    ExecSafe
    SubagentsSafe
    FilesSafe
PROPERTIES
    ToolSteps
    WorkEnds
CHECK_DEADLOCK FALSE
