SPECIFICATION FairSpec
CONSTANTS
    NTasks = 2
    Size = 4
    IntReader = "tx"
    IntWriter = FALSE
    Readers <- NoTasks
    Writers <- Task01
    ReadLens <- NoTasks
    WriteLens <- Lens15
    Limit = 6
INVARIANT TxInv
PROPERTY FifoSpec
