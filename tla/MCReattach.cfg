SPECIFICATION Spec
CONSTANTS
    t1 = t1
    t2 = t2
    periodical = periodical
    once = once
    task = task
    m1 = m1
    m2 = m2
    w1 = w1
    Scheduler = Scheduler
    NoCall = NoCall
    NoTimer = NoTimer
    Threads <- OneThread
    Triggers <- OneTrigger
    OneTime = {}
    Tasks <- MCTasks
    Items <- OneItems
    Key <- MCKey
    Cells <- OneCells
    Dictionaries = {}
    Timers <- MCTimers
    Workers <- MCWorkers
    MaxCalls = 4
INVARIANTS
    DetachStops
CHECK_DEADLOCK FALSE
