\* One message, two sockets, no error of Redis.
SPECIFICATION FairSpec
CONSTANTS
  Sockets = {1, 2}
  NoSocket = 0
  Messages = {1}
  Start = 0
  Chats = {"chat1", "chat2"}
  ChatOf <- MCChatOf
  MaxHistory = 2
  MaxErrors = 0
PROPERTY
  OpenSocketGetsTheMessage
CHECK_DEADLOCK FALSE
