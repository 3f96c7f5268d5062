SPECIFICATION Spec
CONSTANTS
    WorkIds = {w1}
    NoWork = NoWork
    NoRequest = NoRequest
    Requests <- TimedRequests
    MaxAttempts = 2
    IntMax = 1000
    ResourceKinds <- Kinds
    Capacity <- OneSlot
    Inventory <- OneEngine
    MaxTime = 4
    MaxOutages = 2
    StoreErrors = TRUE
INVARIANTS
    KernelInv
    StartWindow
    BackoffRespected
    TimeoutRespected
