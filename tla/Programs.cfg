SPECIFICATION MCSpec
CONSTANTS
    PageW = 4
    NPages = 4
    NSectors = 4
    Contents0 <- MCContents
    Programs0 <- MCPrograms0
    AltA = 16
    ResetA = 32
    Garbage = {0, 1, 9}
    MaxRuns = 2
    MaxResets = 1
 
INVARIANT ClockIsRight
 
INVARIANT PollingKeepsUp
INVARIANT StartsRight
INVARIANT WriteIsTrue
INVARIANT ChipUnderstands
INVARIANT OthersKept
INVARIANT ProgramLoaded
INVARIANT AccessesAreTrue
 
\* what happens is bounded
CHECK_DEADLOCK FALSE
