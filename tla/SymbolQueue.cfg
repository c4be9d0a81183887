SPECIFICATION Spec
CONSTANTS
    Labels = {"x", "y"}
    Sections = {"s", "x"}
    Overlays = {"s"}
    AuxOf <- MCAuxOf
    Expansions = {1, 2}
    Lines <- MCLines
    MaxLines = 5
    MaxDepth = 3
INVARIANTS
    RelocationsFindSymbols
    LabelsInTheirSection
    LegalSourcesAssemble
CHECK_DEADLOCK FALSE
