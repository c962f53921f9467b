SPECIFICATION Spec
CONSTANTS
  Blank = ""
  TextRank <- MCTextRank
  Prefix <- MCPrefix
  AdapterSeverity <- MCAdapterSeverity
  AdapterCategory <- MCAdapterCategory
  DedupKey <- MCDedupKey
  Observations <- MCObservations
  StoredFindings <- MCStoredFindings
  MaxObservations = 3
  MaxStored = 4
  SeverityRules <- MCSeverityRules
  Audiences <- MCAudiences
INVARIANTS
  RanksGrow
  GroupsSoFar
  PassIsInfo
  OrderFree
  AdviceAgrees
CHECK_DEADLOCK FALSE
