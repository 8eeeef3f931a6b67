CONSTANTS
    Job = {1, 2, 3, 4, 5, 6}
    Past = {1, 2}
    PastCosts = {1, 4}
    Kind <- OneKind
    Need <- Needs
    Priority <- Priorities
    Resumable = {3}
    Steps <- TwoSteps
    MinSamples = 2
    Ceiling = 3
    WindowLength = 3
    Cooldown = 2
    Reread = 1
    MaxStrangers = 1
    MaxSpent = 6
SPECIFICATION Spec
INVARIANTS
    FitInv
PROPERTIES
    LookedAtAgain
    ContinuationEnds
