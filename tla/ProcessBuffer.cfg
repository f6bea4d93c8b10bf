SPECIFICATION Spec
CONSTANTS
  AitModes = {"new", "replace"}
  DefinedSets = {{"tdt", "tot"}, {"ait", "tot"}, {"ait", "tdt", "tot"}}
  MaxSize = 2
  Period = 1
  BufferGap = 1
  MaxSetBack = 1
  MaxCommands = 1
  CCMod = 4
  CounterMod = 8
INVARIANTS TypeOK TablesAreRepeated
PROPERTIES LossNeedsRefusal TxtIsForwarded TablesCountUp
CHECK_DEADLOCK FALSE
