CONSTANTS
    Shells = {s1, s2, s3}
    MaxFaults = 1
SPECIFICATION FairSpec
INVARIANTS
    DesktopInv
    QuitStops
    OwnDaemon
PROPERTIES
    OneDaemonLeft
    ShellsMove
    LabelSettles
    ItemDoesWhatItSays
CHECK_DEADLOCK FALSE
