SPECIFICATION FairSpec
CONSTANTS
  PowerCutInSave = TRUE
  MaxFaults = 2
  MaxLosses = 3
  MaxUpgrades = 3
  InstallOutcomes = {"good", "bad"}
INVARIANT NoPartialStart
INVARIANT MarksInv
PROPERTY GoodRecovers
PROPERTY MarkedBySuccessOnly
