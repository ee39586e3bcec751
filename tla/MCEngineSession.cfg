SPECIFICATION FairSpec
CONSTANTS
  c1 = c1
  s1 = s1
  s2 = s2
  none = none
  Channels <- MCChannels
  Sockets <- MCSockets
  NoSocket = none
  Commands <- AllCommands
  MaxRetries = 1
  MaxCommands = 2
  MaxRestarts = 1
  Unwritten <- MCUnwritten
  MaxInflight = 2
  MaxQRs = 1
INVARIANTS TypeOK ReconnectNeverMultiplies NoOrphanSession RetryBudget FailedIsFinal
           LastWordIsBacked
PROPERTIES RestoreCompletes ReconnectionGoesOn
CHECK_DEADLOCK FALSE
