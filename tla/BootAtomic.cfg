SPECIFICATION FairSpec
CONSTANTS
  PowerCutInSave = FALSE
  MaxFaults = 0
  MaxLosses = 3
  MaxUpgrades = 3
  InstallOutcomes = {"good", "bad"}
INVARIANT TypeOK
INVARIANT SlotInv
INVARIANT ActiveExclusive
INVARIANT NoFalseSuccess
INVARIANT ActiveIsRunning
INVARIANT BadImageTriedOnce
PROPERTY RunningSlotKept
PROPERTY FallbackKept
PROPERTY Recovers
PROPERTY UpgradeTakesEffect
PROPERTY Implements
