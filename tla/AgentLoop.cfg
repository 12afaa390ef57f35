\* Two tasks of up to two batches of calls: what the history holds.
SPECIFICATION Spec
CONSTANTS
    KeepRecentTurns = 2
    Threshold = 6
    Strategy = "summarize"
    SummaryCosts <- MCSummaryCosts
    ResultLimit = 2
    TrimNote = 1
    MaxIterations = 2
    MaxParseRetries = 1
    PromptCost = 1
    TaskCosts <- MCTaskCosts
    ResultSizes <- MCResultSizes
    MaxCalls = 2
    MaxRuns = 2
INVARIANTS
    TypeOK
    WireOK
    KeptIsSuffix
    FitsOrMinimal
    SpillReadable
