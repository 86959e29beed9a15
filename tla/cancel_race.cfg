SPECIFICATION Spec
CONSTANTS
    Nodes = {n1}
    NoNode = NoNode
    NJobs = 1
    Replicas = 1
    MaxAttempts = 1
    Threads = {h1, h2}
    Reaper = Reaper
    SweepLimit = 1
    CanCrash = FALSE
    CanStall = FALSE
    FileErrors = FALSE
    MaxFaults = 0
SYMMETRY Symmetry
PROPERTIES
    CancelIsFinal
