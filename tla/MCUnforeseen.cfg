SPECIFICATION Spec
CONSTANTS
  scuba = scuba
  maester = maester
  advisor = advisor
  Adapters <- AllTools
  Exporters <- TwoExporters
  MaxParallel = 2
  MaxCollections = 1
PROPERTIES
  IsolatesAdapters
