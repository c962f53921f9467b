SPECIFICATION SharedSpec
CONSTANTS
  p1 = p1
  p2 = p2
  operator = operator
  reviewer = reviewer
  reporter = reporter
  colleague = colleague
  NoProc = NoProc
  Procs <- People
  Commands <- SharedCommands
  Strategies <- BothStrategies
  CollectOutcomes = {"some"}
  FaultPoints <- AllLabels
  MaxFaults = 3
INVARIANTS
  LockHolderAlone
PROPERTIES
  CompleteIsFinal
  TeamCompletes
