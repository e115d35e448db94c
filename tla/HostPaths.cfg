SPECIFICATION MCSpec
CONSTANTS
    Digit = 4
    Addr = {0, 1, 2, 3, 61, 62}
    Hanging = {5}
    w1 = w1
    w2 = w2
    junk = junk
    Val <- MCVal
    Junk <- MCJunk
    Calls <- MCCalls
    MaxCalls = 3
    ReadBlock = 2
    MaxWrLen = 1
    WrReach = 3
    MaxInt = 1
    Chars = {10, 48, 65}
    RcvBufMask = 7
    PktLen = 3
    First = 2
    More = 3
    Spare = 2
    Lens = {1, 3}
    MaxChars = 4
    Addrs = {1, 2, 3}
    Vals = {0, 1}
    BadAddrs = {3}
    MaxAccess = 3
    MaxIrq = 1
    LgMem = 3
    Holdoffs = {1, 5}
    MaxSample = 16
    MaxArms = 2
INVARIANT ReadsKeepStep
INVARIANT WritesReach
INVARIANT IdleIsOneCharacter
 
INVARIANT PortIsTrue
INVARIANT DumpIsRecord
\* the program makes no more calls
CHECK_DEADLOCK FALSE
