SPECIFICATION Spec
CONSTANTS
  p1 = p1
  p2 = p2
  NoProc = NoProc
  Procs <- OneProc
  Commands <- MCAllCommands
  Strategies <- BothStrategies
  CollectOutcomes = {"some", "none"}
  FaultPoints <- AllLabels
  MaxFaults = 2
INVARIANTS
  TypeOK
  RenderOnlySigned
  ResumeKnowsFailure
  InputsPresent
PROPERTIES
  JournalTellsLife
