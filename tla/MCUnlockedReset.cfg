SPECIFICATION Spec
CONSTANTS
  p1 = p1
  p2 = p2
  NoProc = NoProc
  Procs <- TwoProcs
  Commands <- RunOnly
  Strategies <- NoopOnly
  CollectOutcomes = {"some"}
  FaultPoints <- AllLabels
  MaxFaults = 0
INVARIANTS
  StageOwnsState
