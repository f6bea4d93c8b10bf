SPECIFICATION Spec
CONSTANTS
  CCMod = 4
  CounterMod = 4
  Ahead = 2
  Back = 1
  Packets <- MCPackets
  Starts <- MCStarts
  Headed <- MCHeaded
  SpliceIn = 7
  SpliceOut = 9
  Noise <- MCNoise
  MaxReadings = 2
  EventIds = {1, 2}
  NullAge = 1
  PtsMod = 4
  Preroll = 2
  Signals <- MCSignals
  LevelOf <- MCLevelOf
  PtsOf <- MCPtsOf
  BufferSize = 2
INVARIANTS TypeOK LevelOfLastPes
PROPERTIES ImplementsSignalling
CHECK_DEADLOCK FALSE
