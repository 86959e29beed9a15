SPECIFICATION Spec
CONSTANTS
    Nodes = {n1, n2}
    NoNode = NoNode
    NJobs = 1
    Replicas = 1
    MaxAttempts = 2
    Threads = {h1, h2}
    Reaper = Reaper
    SweepLimit = 1
    CanCrash = FALSE
    CanStall = FALSE
    FileErrors = FALSE
    MaxFaults = 0
SYMMETRY Symmetry
INVARIANTS
    TypeOK
    TaskRowsConsistent
    OneOwner
    PaidOnce
    ClosedJobHasNoLiveTask
PROPERTIES
    ClosedStaysClosed
