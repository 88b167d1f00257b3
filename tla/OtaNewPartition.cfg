SPECIFICATION Spec
CONSTANTS
  Packages <- NewPartPackage
  FAST_TICKS = 2
  SLOW_TICKS = 4
  UI_TICK_MS = 10000
  SYNC_TIME = 40000
  WRAP = 7296
  MaxOverflows = 0
  StartValues = {0}
  LogoModes = {FALSE}
  ConfigFiles <- OneFile
CHECK_DEADLOCK FALSE
INVARIANT SuccessMeansInstalled
