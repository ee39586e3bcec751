SPECIFICATION FairSpec
CONSTANTS
  m1 = m1
  m2 = m2
  m3 = m3
  m4 = m4
  c1 = c1
  w1 = w1
  w2 = w2
  none = none
  Messages <- MCMessages
  Channels <- MCChannels
  ChannelOf <- MCChannelOf
  Bulk <- MCBulk
  Malformed <- MCMalformed
  NoRecipient <- MCNoRecipient
  Workers <- MCWorkers
  NoTask = none
  Limit = 1
  Window = 2
  MaxRetries = 2
  MaxFaults = 1
INVARIANTS TypeOK WindowHoldsOneMore NoneForgotten OneFate
PROPERTY EveryMessageSettles
