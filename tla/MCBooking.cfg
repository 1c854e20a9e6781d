SPECIFICATION BookingSpec
CONSTANTS
    k1 = k1
    k2 = k2
    host = host
    client = client
    NoTask = NoTask
    NullRequest = NullRequest
    Tasks <- MCTasks
    Readers <- MCReaders
    Hosts = {host}
    Rooms = {1}
    Requests <- MCRequests
INVARIANTS
    BookingTypeOK
    OverlapOnlyInside
    ApprovedIsBooked
PROPERTIES
    ImplementsFuture
