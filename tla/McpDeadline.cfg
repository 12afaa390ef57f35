\* One server that sends messages of its own while it is slow to answer.
SPECIFICATION Spec
CONSTANTS
    Timeout = 1
    ServerIds <- MCOwnIds
    CallerRetries = FALSE
    MaxServers = 1
    MaxRequests = 2
    MaxNoise = 2
INVARIANT DeadlineKept
