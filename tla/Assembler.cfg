SPECIFICATION Spec
CONSTANTS
    Programs <- MCPrograms
    Labels <- MCLabels
    Macros <- MCMacros
    MaxLoops = 2
INVARIANTS
    ScopesBalanced
    ReferencesAreTrue
    BranchesAreChosen
    PassesAgree
PROPERTY
    Termination
CHECK_DEADLOCK FALSE
