CONSTANTS
    MaxJobs = 1
    InitialJobs <- OneJob
    Clients = {c1}
    Sched = sched
    None = none
    Templates <- PlainTemplates
    MaxDeps = 0
    MaxRequests = 0
    MaxFaults = 1
    Priority <- SamePriority
    Requests = {}
SPECIFICATION FairSpec
PROPERTIES
    RunningEnds
