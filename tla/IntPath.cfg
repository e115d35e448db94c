SPECIFICATION FairSpec
CONSTANTS
    Lines = {"TIMER", "UARTRX", "UARTTX", "AUDIO"}
    Period = 15
    Loads <- SmallLoads
    Ascii = {1, 3}
INVARIANT NothingOverwritten
INVARIANT PushedExactlyOnce
 
PROPERTY BytesRead
PROPERTY PipeDrains
