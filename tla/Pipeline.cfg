SPECIFICATION Spec
CONSTANT MaxSamples = 3
INVARIANTS TypeOK CallbackHasSink
PROPERTIES ImplementsRelay EndsOnceOver
CHECK_DEADLOCK FALSE
