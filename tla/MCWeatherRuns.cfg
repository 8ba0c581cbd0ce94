SPECIFICATION FairSpec
CONSTANTS
    LastRun = 3
    LastTime = 3
    Horizon = 0
    MaxPrecip = 1
    Lead = 0
    Retention = 2
    MaxVersion = 3
    MaxFaults = 1
CONSTRAINT FewerRunsWhenLost
INVARIANTS
    TypeOK
    ManifestWhole
    SnapshotLinks
PROPERTIES
    WorkersNeverGoBack
    WorkersCatchUp
CHECK_DEADLOCK FALSE
