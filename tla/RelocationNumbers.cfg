SPECIFICATION Spec
CONSTANTS
    Labels = {"x", "y"}
    Sections = {"s", "x"}
    Overlays = {"s"}
    AuxOf <- MCAuxOf
    Expansions = {1, 2}
    Lines <- MCPlainLines
    MaxLines = 4
    MaxDepth = 3
INVARIANT RelocationsAlwaysFindSymbols
CHECK_DEADLOCK FALSE
