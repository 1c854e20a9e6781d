SPECIFICATION FairSpec
CONSTANTS
    t1 = t1
    t2 = t2
    periodical = periodical
    once = once
    task = task
    m1 = m1
    m2 = m2
    w1 = w1
    Scheduler = Scheduler
    NoCall = NoCall
    NoTimer = NoTimer
    Threads <- MCThreads
    Triggers <- MCTriggers
    OneTime <- MCOneTime
    Tasks <- MCTasks
    Items <- MCItems
    Key <- MCKey
    Cells <- MCCells
    Dictionaries = {}
    Timers <- MCTimers
    Workers <- MCWorkers
    MaxCalls = 2
INVARIANTS
    SchedulingTypeOK
    KeysUnique
    DetachedIsQuiet
    AttachedIsRunning
PROPERTIES
    ImplementsSets
    CallsReturn
CHECK_DEADLOCK FALSE
