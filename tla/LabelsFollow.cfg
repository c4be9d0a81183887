SPECIFICATION Spec
CONSTANTS
    Input <- MCSmall
    PageSize = 16
INVARIANT
    LabelsFollow
CHECK_DEADLOCK FALSE
