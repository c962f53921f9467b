SPECIFICATION Spec
CONSTANTS
  Targets <- MCTargets
  MaxEvents = 5
  MaxLost = 2
  MaxSecond = 1
  MaxMicro = 2
INVARIANTS
  CompletedAgrees
  GateNeverOpensStale
  ScansExact
CHECK_DEADLOCK FALSE
