SPECIFICATION Spec
CONSTANTS
    Kinds = {"jma_msm"}
    Windows <- LongAndShort
    Starts <- Day
    Gap = 2
    Cycles = 3
    MaxFaults = 1
INVARIANTS
    FailedStepsRetried
CHECK_DEADLOCK FALSE
