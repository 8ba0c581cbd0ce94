SPECIFICATION Spec
CONSTANTS
    Listed = {f}
    Scanned = {s}
    Readers = {r}
    Retention = 2
    MaxGens = 3
    MaxRaced = 1
    MaxOrphans = 1
    MaxFailures = 1
    MaxCrashes = 1
CONSTRAINT OneFault
INVARIANTS
    PointerWhole
    ReadersSeeWhole
    GenerationsBounded
    OneStaging
PROPERTIES
    KeepsPromise
