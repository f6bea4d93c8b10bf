SPECIFICATION FairSpec
CONSTANTS
  SpliceIn = 7
  SpliceOut = 9
  Levels <- MCLevels
  Noise <- MCNoise
  MaxReadings = 2
  EventIds = {1, 2}
  NullAge = 1
  MaxSetBack = 1
  SetBacks = 1
  PtsMod = 2
  Preroll = 1
  CCMod = 2
  CounterMod = 4
INVARIANTS TypeOK LevelIsSignalled InClosesOut
PROPERTIES OneCommandPerEdge PrerollHonoured CcFollows LevelIsSeen Heartbeat
CHECK_DEADLOCK FALSE
