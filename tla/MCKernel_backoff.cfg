SPECIFICATION Spec
CONSTANTS
    WorkIds = {w1}
    NoWork = NoWork
    NoRequest = NoRequest
    Requests <- HugeDelay
    MaxAttempts = 2
    IntMax = 7
    ResourceKinds <- Kinds
    Capacity <- OneSlot
    Inventory <- OneEngine
    MaxTime = 2
    MaxOutages = 1
    StoreErrors = FALSE
INVARIANT BackoffRespected
