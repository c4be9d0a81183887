SPECIFICATION Spec
CONSTANTS
    Input <- MCInput
    DepthMax = 3
INVARIANTS
    TypeOK
    NothingLiveRemoved
    OnlyNeededStays
    RootsStay
    CountsAreKnown
PROPERTY
    Terminates
CHECK_DEADLOCK FALSE
