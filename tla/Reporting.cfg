SPECIFICATION Spec
CONSTANTS
    Handlers = {h1, h2}
    Clusters = {{1}, {2, 3}, {4}}
    Endpoints = {{1, 2, 3}, {4}}
    Interests = {{1, 2, 3, 4}}
    PoolSize = 2
    MaxInFlight = 1
    PerChunk = 2
    MinInterval = 1
    MaxInterval = 2
    Faults = TRUE
    MaxInputs = 4
CHECK_DEADLOCK FALSE
INVARIANTS TypeOK StaleIsRemembered CoherentCluster SomeoneWillCome
PROPERTIES NotBeforeMinInterval SubscriberIsInformed
