SPECIFICATION Spec
CONSTANT Input <- MCInput
INVARIANTS
    TypeOK
    NoOverlap
    InsideDefinition
    NothingForgotten
    ProgramIsWellPlaced
PROPERTIES
    CinitIsLowest
    CodeIsRefusedForCause
CHECK_DEADLOCK FALSE
