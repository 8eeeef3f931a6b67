CONSTANTS
    MaxJobs = 5
    InitialJobs <- ChainAndBlankStep
    Clients = {c1}
    Sched = sched
    None = none
    Templates <- PlainTemplates
    MaxDeps = 0
    MaxRequests = 2
    MaxFaults = 1
    Priority <- SamePriority
    Requests = {"cancel"}
SPECIFICATION Spec
INVARIANTS
    DependencyInv
    NoCircularWait
    StepsCreatedOnce
    ChainConversation
    OneStepAtATime
PROPERTIES
    KeepsOrder
