\* A caller that calls connect() again after it raised.
SPECIFICATION Spec
CONSTANTS
    Timeout = 1
    ServerIds <- MCOwnIds
    CallerRetries = TRUE
    MaxServers = 1
    MaxRequests = 2
    MaxNoise = 0
INVARIANT HandshakeFirst
