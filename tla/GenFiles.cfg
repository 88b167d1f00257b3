SPECIFICATION Spec
CONSTANTS
  Files = {f1, f2, f3}
  MaxUserFiles = 2
  Failures = {9, 256}
INVARIANT PackedAtEnd
CHECK_DEADLOCK FALSE
