SPECIFICATION Spec
CONSTANTS
  c1 = c1
  s1 = s1
  s2 = s2
  none = none
  Channels <- MCChannels
  Sockets <- MCSockets
  NoSocket = none
  Commands <- OnlyStop
  MaxRetries = 1
  MaxCommands = 1
  MaxRestarts = 0
  Unwritten = {}
  MaxInflight = 2
  MaxQRs = 1
PROPERTY StopIsFinal
CHECK_DEADLOCK FALSE
