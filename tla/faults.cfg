SPECIFICATION Spec
CONSTANTS
    Nodes = {n1, n2}
    NoNode = NoNode
    NJobs = 1
    Replicas = 1
    MaxAttempts = 2
    Threads = {h1}
    Reaper = Reaper
    SweepLimit = 1
    CanCrash = TRUE
    CanStall = TRUE
    FileErrors = TRUE
    MaxFaults = 1
SYMMETRY Symmetry
INVARIANTS
    TypeOK
    TaskRowsConsistent
    PaidPerFault
