SPECIFICATION Spec
CONSTANTS
    NTasks = 4
    Scenarios <- MCPressed
    KeyCodes = {1, 10, 12}
    TicksPerSecond = 6
    DebounceMs = 1
    PollMs = 1
    NoticeMs = 4
    SetMs = 1
    KeypadMask = 2
    HalfHour = 3
    MenuTimeout = 3
    Chunks = 2
    SafeChunks = 1
    Ring = 63
    MaxLag = 1
    Apart = FALSE
INVARIANT WritersBlock
