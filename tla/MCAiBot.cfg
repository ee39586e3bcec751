\* Two messages of one chat and one of another, two sockets, one error.
\* The messages of an instance are finite: it stops when all are settled.
SPECIFICATION FairSpec
CONSTANTS
  Sockets = {1, 2}
  NoSocket = 0
  Messages = {1, 2, 3}
  Start = 0
  Chats = {"chat1", "chat2"}
  ChatOf <- MCChatOf
  MaxHistory = 2
  MaxErrors = 1
INVARIANTS
  TypeOK
  OneFatePerMessage
  AskedInContext
PROPERTIES
  EveryMessageSettles
CHECK_DEADLOCK FALSE
