SPECIFICATION FairSpec
CONSTANTS
  scuba = scuba
  maester = maester
  advisor = advisor
  Adapters <- AllTools
  Exporters <- TwoExporters
  MaxParallel = 2
  MaxCollections = 2
INVARIANTS
  FreshRunHoldsFresh
  ReportCoherent
PROPERTIES
  IsolatesForeseen
  CollectionEnds
