CONSTANTS
    Sessions = {s1}
    FiveHour = 2
    SevenDay = 3
    Freshness = 1
    PerPercent = 1
    Full = 4
    MinSamples = 1
    Past = 1
    MaxTime = 4
    MaxMessages = 2
    MaxReadings = 2
    Day = 3
    Begins <- Days
    Change = 1
    Configs <- OnOrOff
    MaxEdits = 1
    MaxRestarts = 1
    Fact = {"disabled", "full"}
SPECIFICATION Spec
INVARIANTS
    IndexedOnce
    OneMoreAtMost
    BlocksCover
PROPERTIES
    QuietIsOpen
