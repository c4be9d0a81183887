SPECIFICATION Spec
CONSTANTS
    a = a
    b = b
    cinit = cinit
    stk = stk
    main = main
    x = x
    y = y
    z = z
    pic14 = pic14
    pic16 = pic16
    NoModule = NoModule
    Symbol <- MCSymbol
    Module <- MCModule
    Class <- MCClass
    CInit <- cinit
    StackSymbols <- MCStack
    Input <- MCInput
INVARIANTS
    TablesAreSound
    SearchIsComplete
    NoDanglingReference
    LinkedIsUnique
PROPERTIES
    Termination
    ImplementsLibrarySearch
CHECK_DEADLOCK FALSE
