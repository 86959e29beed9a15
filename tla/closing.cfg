SPECIFICATION FairSpec
CONSTANTS
    Nodes = {n1}
    NoNode = NoNode
    NJobs = 1
    Replicas = 1
    MaxAttempts = 2
    Threads = {h1}
    Reaper = Reaper
    SweepLimit = 1
    CanCrash = TRUE
    CanStall = FALSE
    FileErrors = FALSE
    MaxFaults = 1
PROPERTIES
    ExhaustedJobCloses
    SilentNodeLosesTask
