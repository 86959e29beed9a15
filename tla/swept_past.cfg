SPECIFICATION FairSpec
CONSTANTS
    Nodes = {n1}
    NoNode = NoNode
    NJobs = 2
    Replicas = 1
    MaxAttempts = 1
    Threads = {h1}
    Reaper = Reaper
    SweepLimit = 1
    CanCrash = FALSE
    CanStall = FALSE
    FileErrors = FALSE
    MaxFaults = 0
PROPERTIES
    ExhaustedJobCloses
