SPECIFICATION Spec
CONSTANT Input <- MCInput
INVARIANTS
    ReferencesFollowTheirBytes
    MemoryIsLaidOnce
    DataIsInitialised
PROPERTY TerminatesIfMatching
CHECK_DEADLOCK FALSE
