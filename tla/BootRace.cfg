SPECIFICATION Spec
CONSTANT MaxFaults = 1
INVARIANT CommandsTakeEffect
CHECK_DEADLOCK FALSE
