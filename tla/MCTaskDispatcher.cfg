SPECIFICATION Spec
CONSTANTS
    p1 = p1
    p2 = p2
    w1 = w1
    w2 = w2
    w3 = w3
    serial = serial
    pair = pair
    e1 = e1
    e2 = e2
    e3 = e3
    None = None
    Producers <- MCProducers
    Workers <- MCWorkers
    Threads <- MCThreads
    Closers <- MCClosers
    Queues <- MCQueues
    Envelopes <- MCEnvelopes
    Home <- MCHome
    MaxConcurrency <- MCMaxConcurrency
    Priority <- MCPriority
    Position <- MCPosition
    MaxThreads = 2
    Persistent = {e1}
    Faults <- MCFaults
INVARIANTS
    DispatcherTypeOK
    ActiveIsExact
    DispatcherLimit
PROPERTIES
    ImplementsPool
CHECK_DEADLOCK FALSE
