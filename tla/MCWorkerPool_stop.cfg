SPECIFICATION FairSpec
CONSTANTS
    Tasks = {t1, t2}
    Slots = {s1, s2}
    NoSlot = NoSlot
    Engines <- SmallEngine
    EngineNeed <- SmallNeed
    ResourceKinds <- Kinds
    Capacity <- TwoSlots
    IdleTimeout = 1
    MaxCorrelation = 2
    Repeats = FALSE
CHECK_DEADLOCK FALSE
PROPERTY PoolStops
