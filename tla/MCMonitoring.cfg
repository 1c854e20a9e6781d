SPECIFICATION FairSpec
CONSTANTS
    t1 = t1
    t2 = t2
    x = x
    y = y
    NoCall = NoCall
    NoName = NoName
    NoCounter = NoCounter
    Counters = Counters
    Threads <- MCThreads
    Names <- MCNames
    Items <- MCItems
    Key <- MCKey
    Cells <- MCCells
    Dictionaries <- MCCells
    Durations <- MCDurations
    MaxValue = 9
    MaxIncrements = 2
INVARIANTS
    MonitoringTypeOK
    OneCounterPerName
    NoUglyRace
    CounterExactAtRest
    ExtremesEnclose
PROPERTIES
    IncrementsEnd
CHECK_DEADLOCK FALSE
