SPECIFICATION Spec
CONSTANTS
  Packages <- ShippedPackages
  FAST_TICKS = 2
  SLOW_TICKS = 4
  UI_TICK_MS = 10000
  SYNC_TIME = 40000
  WRAP = 7296
  MaxOverflows = 1
  StartValues = {0}
  LogoModes = {FALSE, TRUE}
  ConfigFiles <- AnyFile
CHECK_DEADLOCK FALSE
PROPERTY FailureReboots
PROPERTY UpgradeEnds
INVARIANT TypeOK
INVARIANT SuccessMeansInstalled
INVARIANT RebootOnlyWhenIdle
INVARIANT NeverAhead
INVARIANT ReadsEveryPeriod
INVARIANT ValueInSync
INVARIANT FullBarMeansInstalled
INVARIANT NumberReadsRight
PROPERTY ProgressMonotone
