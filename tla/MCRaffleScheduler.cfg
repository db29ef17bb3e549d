SPECIFICATION FairSchedulerSpec
CONSTANTS
    NumRaffles = 3
    Streamers = {"s1", "s2"}
    Streamer <- Owner
    Subscribers <- OneOfS2
    BatchLimit = 2
    MaxFaults = 1
PROPERTIES SnapshotIsWhole NeverReopened DueGetsSnapshot
CHECK_DEADLOCK FALSE
