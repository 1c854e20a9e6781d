SPECIFICATION QueueSpec
CONSTANTS
    t1 = t1
    t2 = t2
    t3 = t3
    serial = serial
    pair = pair
    e1 = e1
    e2 = e2
    e3 = e3
    None = None
    Threads <- MCThreads
    Queues <- MCQueues
    Envelopes <- MCEnvelopes
    Home <- MCHome
    MaxConcurrency <- MCMaxConcurrency
    Persistent = {e1, e3}
    Faults <- MCFaults
SYMMETRY MCSymmetry
INVARIANTS
    QueueTypeOK
    CounterIsExact
    ConcurrencyLimit
    StartsInArrivalOrder
    PersistedUntilExecuted
    OnePlace
    StoredIsOwed
PROPERTIES
    QueueImplementsPool
