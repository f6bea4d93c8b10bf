SPECIFICATION Spec
CONSTANTS
  CCMod = 4
  CounterMod = 8
  Ahead = 2
  Back = 1
  Packets <- MCPackets
  Starts <- MCStarts
  Headed <- MCHeaded
INVARIANTS TypeOK PrefixOfOnePes InOrderIsKept
PROPERTIES TrueMeansStored ImplementsFeed
CHECK_DEADLOCK FALSE
