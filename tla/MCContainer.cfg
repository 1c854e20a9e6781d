SPECIFICATION ContainerSpec
CONSTANTS
    p1 = p1
    p2 = p2
    w1 = w1
    w2 = w2
    serial = serial
    e1 = e1
    e2 = e2
    None = None
    Producers <- MCProducers
    Workers <- MCWorkers
    Threads <- MCThreads
    Closers <- MCProducers
    Queues <- MCQueues
    Envelopes <- MCEnvelopes
    Home <- MCHome
    MaxConcurrency <- MCMaxConcurrency
    Priority <- MCPriority
    Position <- MCPosition
    MaxThreads = 1
    Persistent = {e1}
    Faults <- MCFaults
INVARIANTS
    ContainerTypeOK
    ExecuteKeepsItsWord
    RepeatsOnlyAfterShutdown
PROPERTIES
    EveryCallReturns
    TakenTasksEnd
    ShutdownQuiesces
    AcceptedTasksRun
CHECK_DEADLOCK FALSE
