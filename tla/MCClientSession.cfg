SPECIFICATION FairSpec
CONSTANTS
    MaxKernels = 2
    Endpoints <- OneEndpoint
    DataDirs <- OneDirectory
    EndpointOf <- SharedEndpoint
    DataDirOf <- SharedDirectory
    Clients = {c1, c2}
    ClientEndpoint = "madre.sock"
    MaxWorks = 3
    MaxCalls = 2
    Owner = c1
    Strangers = TRUE
CHECK_DEADLOCK FALSE
INVARIANTS
    StoreExclusive
    EndpointReachable
    CallsExact
    ConsumedBeforeDiscard
PROPERTIES
    CallEnds
    
