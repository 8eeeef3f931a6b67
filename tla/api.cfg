CONSTANTS
    MaxJobs = 2
    InitialJobs <- OneJob
    Clients = {c1, c2}
    Sched = sched
    None = none
    Templates <- PlainTemplates
    MaxDeps = 1
    MaxRequests = 3
    MaxFaults = 0
    Priority <- SamePriority
    Requests = {"create", "cancel", "dispatch", "halt"}
SPECIFICATION Spec
SYMMETRY Symmetry
INVARIANTS
    HaltInv
    DependencySafety
    HaltReaches
PROPERTIES
    NoStartWhileHalted
