SPECIFICATION Spec
CONSTANTS
    Input <- MCInput
    PageSize = 16
INVARIANTS
    CodeAndRelocationsAgree
    WindowIsCurrent
    SectionsStayApart
PROPERTIES
    LabelsMoveWithSections
    EntriesKeepSelection
CHECK_DEADLOCK FALSE
