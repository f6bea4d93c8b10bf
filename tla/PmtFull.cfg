SPECIFICATION Spec
CONSTANTS
  AitDefined = TRUE
  ScteDefined = TRUE
  AitPid = 90
  SctePid = 91
  Tables <- MCFull
  Afs = {0}
  Stuffed = {0}
  MaxPackets = 3
  GsizeBytes = 8
  CCMod = 4
  CounterMod = 8
PROPERTIES StartFindsCompleteSection
CHECK_DEADLOCK FALSE
