\* Documents of up to seven characters; three threads in two processes.
SPECIFICATION Spec
CONSTANTS
    a1 = a1
    a2 = a2
    b = b
    agent = agent
    other = other
    Nobody = Nobody
    NoFile = NoFile
    Torn = Torn
    NoCollection = NoCollection
    Documents <- MCDocuments
    Sizes = {3, 5}
    Overlaps = {0, 3, 4}
    Workers = {a1, a2, b}
    Processes = {agent, other}
    Kinds <- MCKinds
    Process <- MCProcess
    Batch = 1
    MaxParts = 2
    MaxSearches = 1
    MaxCrashes = 1
INVARIANTS
    TypeOK
    Bounded
    Covered
    FactsWhole
    VectorsReady
    IndexWhole
PROPERTIES
    SplitEnds
    SearchEnds
