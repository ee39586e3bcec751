\* Three messages of a chat, or two states of a connection and a message, or two
\* events of any kinds; two buses, a failure.
\* The events of an instance are finite: it stops when all are settled.
SPECIFICATION FairSpec
CONSTANTS
  Events <- MCEvents
  Days <- MCDays
  Report <- MCReport
  Buses = {"api1", "api2"}
  None = "none"
  Hooks = {"all", "received"}
  Subscribed <- MCSubscribed
  MaxFaults = 1
  Replies = {"hola"}
  Short = {"a"}
  Filler = "..."
  Apology = "sorry"
  HistoryLimit = 2
INVARIANTS
  TypeOK
  OneConsumer
  SubscribersAreTold
PROPERTIES
  StatesGoForward
  PromptIsTheConversation
  EveryEventSettles
CHECK_DEADLOCK FALSE
