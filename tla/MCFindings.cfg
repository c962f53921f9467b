SPECIFICATION Spec
CONSTANTS
  Blank = "blank"
  ToolFindings <- MCToolFindings
  ManualFindings <- MCManualFindings
  TextRank <- MCTextRank
  TopSeverity = 1
  MaxRuns = 3
  MaxOverrides = 1
INVARIANTS
  KeyCarriesSeverity
  HeldIsStored
  SavesSucceed
  OverridesLinked
