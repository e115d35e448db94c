SPECIFICATION Spec
CONSTANTS
    Ram = {1, 2}
    FlashMem = {4, 5}
    Datum = 2
    Targets = {1, 2, 4}
    Ops <- MCOps
    Anytime = TRUE
    MaxWait = 121
    MaxMem = 46
INVARIANT RamActsLikeMemory
