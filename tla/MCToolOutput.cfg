SPECIFICATION FairSpec
CONSTANTS
  NoPin = NoPin
  NoModule = NoModule
  Tools <- MCTools
  MaxRuns = 2
  Pages <- MCPages
  PageLimit = 3
  Servers <- MCServers
  Policy <- MCPolicy
  Candidates <- MCCandidates
  Overrides <- MCOverrides
INVARIANTS
  OwnOutput
  QuietIsSaved
  RunsApproved
PROPERTIES
  CollectReturns
CHECK_DEADLOCK FALSE
