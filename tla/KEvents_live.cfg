SPECIFICATION FairSpec
CONSTANTS
    NTasks = 2
    Waits <- LiveWaits
    Clears <- None
    Posts <- None
    Sleepers <- None
    Signals <- None
    MaskValue <- Value
    Half = 3
    TicksPerSecond = 1
    Debounce = 1
    HasButton = TRUE
PROPERTY TimeoutsAreDue
PROPERTY TasksRun
PROPERTY ButtonRearmed
