\* Three calls of up to three attempts.
SPECIFICATION Spec
CONSTANTS
    Provider = "ollama"
    MaxAttempts = 3
    MaxCalls = 3
INVARIANTS
    TypeOK
    RetriesJustified
    LoggedOnce
PROPERTY CallEnds
