SPECIFICATION FairSpec
CONSTANTS
    Satellites = {s}
    Background = {b}
    Runners = {t1, t2}
    MaxData = 2
    MaxFailures = 1
    NoTask = NoTask
INVARIANTS
    OneDump
    NoTriggerLost
    LeaderServed
    NothingAfterStop
PROPERTIES
    ChangesPublished
    ChannelsAlive
CHECK_DEADLOCK FALSE
