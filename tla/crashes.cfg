SPECIFICATION Spec
CONSTANTS
    Nodes = {n1}
    NoNode = NoNode
    NJobs = 1
    Replicas = 2
    MaxAttempts = 1
    Threads = {h1}
    Reaper = Reaper
    SweepLimit = 1
    CanCrash = TRUE
    CanStall = FALSE
    FileErrors = FALSE
    MaxFaults = 1
SYMMETRY Symmetry
INVARIANTS
    OneOwner
    ResultComesFirst
    PaidPerFault
PROPERTIES
    ClosedStaysClosed
    ImplementsLifecycle
