SPECIFICATION FairSpec
CONSTANTS
  p1 = p1
  p2 = p2
  c1 = c1
  c2 = c2
  NoConfig = NoConfig
  NoProc = NoProc
  Procs <- MCProcs
  Configs <- MCConfigs
  Created <- MCCreated
  MaxFaults = 1
  MaxWipes = 1
INVARIANTS
  Recoverable
  CreateUndone
  PurgedIsGone
PROPERTIES
  WipedComesBack
