SPECIFICATION Spec
CONSTANT LastAddress = 6
INVARIANT ComputesSearch
CHECK_DEADLOCK FALSE
