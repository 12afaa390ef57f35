\* Longer runs of the three front ends: how runs go, end and are reported.
SPECIFICATION FrontSpec
CONSTANTS
    KeepRecentTurns = 2
    Threshold = 6
    Strategy = "truncate"
    SummaryCosts <- MCSummaryCosts
    ResultLimit = 2
    TrimNote = 1
    MaxIterations = 3
    MaxParseRetries = 1
    PromptCost = 1
    TaskCosts <- MCTaskCosts
    ResultSizes <- MCSmallResults
    MaxCalls = 2
    MaxRuns = 2
INVARIANTS
    TaskInView
    TraceAccounts
    ReplyTrue
    FailureShown
PROPERTIES
    RunEnds
    ContractHolds
