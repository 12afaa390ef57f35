\* One task, one completion with a usable and an unusable call.
SPECIFICATION Spec
CONSTANTS
    KeepRecentTurns = 2
    Threshold = 6
    Strategy = "summarize"
    SummaryCosts <- MCSummaryCosts
    ResultLimit = 2
    TrimNote = 1
    MaxIterations = 4
    MaxParseRetries = 1
    PromptCost = 1
    TaskCosts <- MCTaskCosts
    ResultSizes <- MCSmallResults
    MaxCalls = 1
    MaxRuns = 1
INVARIANT ProblemsFedBack
