SPECIFICATION Spec
CONSTANTS
    Handlers = {h1, h2, h3}
    Clusters = {{1, 2}}
    Endpoints = {{1, 2}}
    Interests = {{1, 2}, {1}}
    PoolSize = 2
    MaxInFlight = 2
    PerChunk = 1
    MinInterval = 1
    MaxInterval = 2
    Faults = FALSE
    MaxInputs = 5
CHECK_DEADLOCK FALSE
INVARIANTS NoneSkipped
