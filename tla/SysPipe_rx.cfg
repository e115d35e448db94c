SPECIFICATION FairSpec
CONSTANTS
    NTasks = 2
    Size = 4
    IntReader = "none"
    IntWriter = TRUE
    Readers <- Task0
    Writers <- NoTasks
    ReadLens <- Lens1
    WriteLens <- NoTasks
    Limit = 8
INVARIANT ReadsAreHonest
 
