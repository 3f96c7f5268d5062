SPECIFICATION Spec
CONSTANTS
    Tasks = {t1, t2}
    Slots = {s1, s2, s3}
    NoSlot = NoSlot
    Engines <- TwoEngines
    EngineNeed <- TwoNeeds
    ResourceKinds <- Kinds
    Capacity <- TwoSlots
    IdleTimeout = 0
    MaxCorrelation = 2
    Repeats = TRUE
CHECK_DEADLOCK FALSE
SYMMETRY PoolSymmetry
INVARIANTS
    LeasesExclusive
    OwnReply
    ExecutingFits
