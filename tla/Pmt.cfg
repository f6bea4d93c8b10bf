SPECIFICATION FairSpec
CONSTANTS
  AitDefined = TRUE
  ScteDefined = TRUE
  AitPid = 90
  SctePid = 91
  Tables <- MCTables
  Afs = {0, 3, 10}
  Stuffed = {0, 3, 181, 182}
  MaxPackets = 3
  GsizeBytes = 8
  CCMod = 4
  CounterMod = 8
INVARIANTS TypeOK NoStalePmt OutFollowsIn CrashNeedsLongSection Answered EditKeepsStreams
PROPERTIES EditsCountUp StablePmtIsRewritten
CHECK_DEADLOCK FALSE
