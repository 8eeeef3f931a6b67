CONSTANTS
    MaxJobs = 4
    InitialJobs <- ChainAndDependent
    Clients = {c1}
    Sched = sched
    None = none
    Templates <- PlainTemplates
    MaxDeps = 0
    MaxRequests = 1
    MaxFaults = 0
    Priority <- SamePriority
    Requests = {"cancel"}
SPECIFICATION FairSpec
INVARIANTS
    NoPromotedDependency
    PromotionComplete
PROPERTIES
    SettledJobsMove
    RunningEnds
