SPECIFICATION Spec
CONSTANTS
  Locations = 2
  MaxIndex = 2
  Options = {"boot", "check"}
  SetFaults = TRUE
  MaxLosses = 2
INVARIANT TypeOK
INVARIANT RollbackInv
INVARIANT CheckedBoots
PROPERTY NoRollback
PROPERTY StoredMonotone
