SPECIFICATION Spec
CONSTANTS
    Regions = {a, b}
    Horizon = 4
    TicksPerInterval = 1
    MaxFrames = 2
    GraceFrames = 1
    EvictGrace = 1
    CarryMax = 1
    RefetchMax = 1
    MaxCrashes = 1
    MaxFailures = 1
CONSTRAINT OneFault
INVARIANTS
    RetainedFramesBacked
    StaleCopiesRefetched
PROPERTIES
    WindowNeverEvicted
    UnlinkedAfterGrace
    RealDataKept
    ContentChangesBumpVersion
SYMMETRY RegionSymmetry
CHECK_DEADLOCK FALSE
