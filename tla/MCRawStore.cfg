SPECIFICATION FairSpec
CONSTANTS
  scuba = scuba
  maester = maester
  Slugs <- TwoTools
  MaxGen = 2
  MaxFaults = 1
INVARIANTS
  TypeOK
  ManifestsMatch
  LoadsCommitted
  RollbackRestores
  RecordedOnce
PROPERTIES
  RepairCompletes
CHECK_DEADLOCK FALSE
