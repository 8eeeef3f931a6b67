CONSTANTS
    Job = {1, 2}
    First = 1
    InitialStatus <- Statuses
    MaxPolls = 2
    MaxClicks = 1
    MaxNavigations = 1
SPECIFICATION Spec
PROPERTIES
    ShowsUp
    EndIsKept
CHECK_DEADLOCK FALSE
