SPECIFICATION PersistentSpec
CONSTANTS
  p1 = p1
  p2 = p2
  NoProc = NoProc
  Procs <- OneProc
  Commands <- RunAndApprove
  Strategies <- BothStrategies
  CollectOutcomes = {"some"}
  FaultPoints <- AllLabels
  MaxFaults = 1
PROPERTIES
  RetriesComplete
