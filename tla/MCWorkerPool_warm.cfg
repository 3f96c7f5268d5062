SPECIFICATION Spec
CONSTANTS
    Tasks = {t1, t2}
    Slots = {s1, s2}
    NoSlot = NoSlot
    Engines <- TwoEngines
    EngineNeed <- TwoNeeds
    ResourceKinds <- Kinds
    Capacity <- TwoSlots
    IdleTimeout = 1
    MaxCorrelation = 2
    Repeats = FALSE
CHECK_DEADLOCK FALSE
INVARIANT ProcessesFit
