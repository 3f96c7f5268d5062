SPECIFICATION Spec
CONSTANTS
    Inventories <- TwoEngines
    Requests <- SmallRequests
INVARIANTS
    SelectsFirstSuitable
    ExactBlamedRightly
