SPECIFICATION FairSpec
CONSTANTS
    Tasks = {t1}
    Slots = {s1, s2}
    NoSlot = NoSlot
    Engines <- TwoEngines
    EngineNeed <- TwoNeeds
    ResourceKinds <- Kinds
    Capacity <- TwoSlots
    IdleTimeout = 1
    MaxCorrelation = 2
    Repeats = FALSE
CHECK_DEADLOCK FALSE
INVARIANT IdleIsQuiet
PROPERTIES
    IdleTerminated
    DeadNoticed
