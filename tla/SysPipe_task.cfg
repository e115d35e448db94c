SPECIFICATION Spec
CONSTANTS
    NTasks = 2
    Size = 4
    IntReader = "none"
    IntWriter = FALSE
    Readers <- Task1
    Writers <- Task0
    ReadLens <- Lens012
    WriteLens <- Lens04
    Limit = 8
INVARIANT TypeInv
INVARIANT NothingLost
INVARIANT CallsComplete
INVARIANT SleepersOwnAnEnd
\* a call that halts the CPU stops the machine
CHECK_DEADLOCK FALSE
