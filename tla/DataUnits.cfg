SPECIFICATION Spec
CONSTANTS
  NUnits = 3
  Lengths = {2, 3}
  Body = {0, 2}
INVARIANTS AtUnit
CHECK_DEADLOCK FALSE
