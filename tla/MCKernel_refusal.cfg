SPECIFICATION Spec
CONSTANTS
    WorkIds = {w1}
    NoWork = NoWork
    NoRequest = NoRequest
    Requests <- PlainOnly
    MaxAttempts = 2
    IntMax = 1000
    ResourceKinds <- Kinds
    Capacity <- OneSlot
    Inventory <- BigFirst
    MaxTime = 1
    MaxOutages = 0
    StoreErrors = FALSE
INVARIANT RefusedOnlyWhenNothingFits
