SPECIFICATION MatchingSpec
CONSTANTS
    t1 = t1
    t2 = t2
    x = x
    y = y
    z = z
    plain = plain
    marked = marked
    odd = odd
    stray = stray
    bare = bare
    NoCall = NoCall
    NoTask = NoTask
    NoName = NoName
    NoAnswer = NoAnswer
    Threads <- MCThreads
    Types <- MCTypes
    Tasks <- MCTasks
    TypeOf <- MCTypeOf
    Chains <- MCChains
    FromSettings = {}
    Executors <- MCExecutors
    Format <- MCFormat
    Cells <- MCCells
    Dictionaries <- MCCells
    Items <- MCItems
    Key <- MCKey
INVARIANTS
    MatchingTypeOK
    RoutedByFirstMatch
