SPECIFICATION Spec
CONSTANTS
  PowerCutInSave = FALSE
  MaxFaults = 0
  MaxLosses = 1
  MaxUpgrades = 2
  InstallOutcomes = {"good", "bad"}
PROPERTY NewSlotTried
