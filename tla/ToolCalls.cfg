\* Completions of up to five characters, two calls, in four kinds of session.
SPECIFICATION Spec
CONSTANTS
    NoName = "none"
    Registered <- MCRegistered
    Root <- MCRoot
    Links <- MCLinks
    SecretNames <- MCSecretNames
    Disk <- MCDisk
    McpTools <- MCMcpTools
    WriteShaped <- MCWriteShaped
    Sessions <- MCSessions
    SpanShapes <- MCSpanShapes
    LaterShapes <- MCLaterShapes
    NativeObjects <- MCNativeObjects
    MaxCalls = 2
    MaxText = 5
    CommandTimeout = 1
    ClientTimeout = 2
INVARIANTS
    TypeOK
    SpansApart
    CallFound
    CloseBalances
    RepairsCounted
    Approved
    Confined
    ToldTrue
    NoLocalFallback
    SlowIsNotLost
    OneAtATime
PROPERTY BatchEnds
