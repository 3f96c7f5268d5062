SPECIFICATION Spec
CONSTANTS
    WorkIds = {w1, w2}
    NoWork = NoWork
    NoRequest = NoRequest
    Requests <- PairRequests
    MaxAttempts = 2
    IntMax = 1000
    ResourceKinds <- Kinds
    Capacity <- TwoSlots
    Inventory <- StandardAndLong
    MaxTime = 1
    MaxOutages = 1
    StoreErrors = FALSE
SYMMETRY WorkSymmetry
INVARIANTS
    TypeOK
    AttemptLedger
    BudgetRespected
    AttemptOwnership
    RunningHasOwner
    ResultRetained
    InputRetained
    CancellationKept
    LeasesConserved
    CapacityRespected
PROPERTIES
    HistoryStable
    NoStartAfterCancel
    ImplementsLifecycle
