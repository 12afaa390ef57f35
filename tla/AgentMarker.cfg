\* Tasks whose conversation is compacted twice.
SPECIFICATION Spec
CONSTANTS
    KeepRecentTurns = 2
    Threshold = 6
    Strategy = "truncate"
    SummaryCosts <- MCSummaryCosts
    ResultLimit = 2
    TrimNote = 1
    MaxIterations = 2
    MaxParseRetries = 1
    PromptCost = 1
    TaskCosts <- MCTaskCosts
    ResultSizes <- MCSmallResults
    MaxCalls = 1
    MaxRuns = 5
INVARIANT MarkerCountsDropped
