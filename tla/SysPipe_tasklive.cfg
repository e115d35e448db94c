SPECIFICATION TaskSpec
CONSTANTS
    NTasks = 2
    Size = 4
    IntReader = "none"
    IntWriter = FALSE
    Readers <- Task1
    Writers <- Task0
    ReadLens <- Lens1
    WriteLens <- Lens1
    Limit = 5
PROPERTY WritesFinish
