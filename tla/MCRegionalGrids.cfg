SPECIFICATION Spec
CONSTANTS
    Kinds <- GridNames
    Windows <- LongAndShort
    Starts <- Day
    Gap = 4
    Cycles = 6
    MaxFaults = 1
INVARIANTS
    TypeOK
    FreshestServes
    DifferencesRetried
PROPERTIES
    ServedStays
    NothingFetchedTwice
CHECK_DEADLOCK FALSE
