SPECIFICATION Spec
CONSTANTS
    a = a
    b = b
    g1 = g1
    g2 = g2
    r1 = r1
    NoRegion = NoRegion
    Segments <- MCSegments
    Guids <- MCGuids
    Regions <- MCRegions
    Unloadable <- MCUnloadable
    Readers <- MCReaders
INVARIANTS
    EsentTypeOK
PROPERTIES
    LoadIsExact
    ImplementsDatabase
