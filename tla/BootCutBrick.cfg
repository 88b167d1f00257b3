SPECIFICATION FairSpec
CONSTANTS
  PowerCutInSave = TRUE
  MaxFaults = 0
  MaxLosses = 2
  MaxUpgrades = 2
  InstallOutcomes = {"good", "bad"}
PROPERTY Recovers
