SPECIFICATION FairSpec
CONSTANTS
    WorkIds = {w1, w2}
    NoWork = NoWork
    NoRequest = NoRequest
    Requests <- WaitingRequests
    MaxAttempts = 1
    IntMax = 1000
    ResourceKinds <- Kinds
    Capacity <- OneSlot
    Inventory <- OneEngine
    MaxTime = 1
    MaxOutages = 1
    StoreErrors = FALSE
CONSTRAINT OneOfEach
PROPERTIES
    BoundedWorkEnds
    StopCompletes
