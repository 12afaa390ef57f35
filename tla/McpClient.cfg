\* Two servers one after the other, four requests, one unasked message.
SPECIFICATION Spec
CONSTANTS
    Timeout = 1
    ServerIds <- MCOwnIds
    CallerRetries = FALSE
    MaxServers = 2
    MaxRequests = 4
    MaxNoise = 1
INVARIANTS
    TypeOK
    AnswerIsOurs
    HandshakeFirst
PROPERTY RequestEnds
