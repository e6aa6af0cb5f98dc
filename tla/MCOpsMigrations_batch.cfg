SPECIFICATION FairSpec
CONSTANTS
  boot = boot
  operator = operator
  none = none
  shared = shared
  undeclared = undeclared
  novolume = novolume
  key = key
  Procs <- TwoProcs
  Boot = boot
  NoProc = none
  Volumes <- TwoVolumes
  NoVolume = novolume
  Scan1 <- Shared
  Scan3 <- TwoVolumes
  Files <- OneKey
  Faults <- AllFaults
  MaxFaults = 2
  MaxCrashes = 1
  MaxManual = 1
INVARIANTS
  CopiedUnlessTorn
PROPERTIES
  SentinelNeverLost
  ServesAgain
  RunnerContract
CHECK_DEADLOCK FALSE
