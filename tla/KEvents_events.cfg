SPECIFICATION Spec
CONSTANTS
    NTasks = 2
    Waits <- MixedWaits
    Clears <- KeyClears
    Posts <- PostPps
    Sleepers <- Task0
    Signals <- Keypad
    MaskValue <- Value
    Half = 3
    TicksPerSecond = 1
    Debounce = 2
    HasButton = FALSE
INVARIANT NoMissedEvents
 
INVARIANT TimeoutsAreKept
