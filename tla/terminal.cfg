CONSTANTS
    MaxJobs = 1
    InitialJobs <- OneJob
    Clients = {c1}
    Sched = sched
    None = none
    Templates <- PlainTemplates
    MaxDeps = 0
    MaxRequests = 1
    MaxFaults = 0
    Priority <- SamePriority
    Requests = {"cancel"}
SPECIFICATION Spec
PROPERTIES
    TerminalIsFinal
