SPECIFICATION Spec
CONSTANTS
  SpliceIn = 7
  SpliceOut = 9
  Levels <- MCLevels
  Noise <- MCDamaged
  MaxReadings = 1
  EventIds = {1, 2}
  NullAge = 2
  MaxSetBack = 1
  SetBacks = 0
  PtsMod = 2
  Preroll = 1
  CCMod = 2
  CounterMod = 4
PROPERTIES ActsOnX31Only
CHECK_DEADLOCK FALSE
