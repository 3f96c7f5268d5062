SPECIFICATION FairSpec
CONSTANTS
    HeaderSize = 2
    MaxMetadata = 1
    MaxPayload = 2
    ChunkSize = 2
    ReadBudget = 3
    PipeCapacity = 2
    ResultSizes = {0, 2}
    RequestSizes = {0, 1}
    MaxRequests = 2
    Strays <- StrayFrames
CHECK_DEADLOCK FALSE
INVARIANTS
    ExchangeIntact
    StreamInStep
    CleanHandover
PROPERTIES
    AnswerWins
    ImplementsCall
    ExchangeEnds
    OrphanEnds
