SPECIFICATION Spec
CONSTANTS
  c1 = c1
  s1 = s1
  s2 = s2
  none = none
  Channels <- MCChannels
  Sockets <- MCSockets
  NoSocket = none
  Commands <- OnlyStart
  MaxRetries = 1
  MaxCommands = 2
  MaxRestarts = 0
  Unwritten = {}
  MaxInflight = 2
  MaxQRs = 1
INVARIANT OneSessionPerChannel
CHECK_DEADLOCK FALSE
