---------------------------- MODULE MessageQueue ----------------------------
(***************************************************************************)
(* The rate-limited queue of outgoing messages: worker/app/message_queue.py*)
(*                                                                         *)
(* Each worker process runs start() on the two Redis lists it shares with  *)
(* the other processes, and keeps its own rate counters in memory.  An     *)
(* action is what a worker does between two awaits.                        *)
(*                                                                         *)
(* Time is a sequence of ticks, Window of them to RATE_WINDOW_SECONDS.  A  *)
(* timestamp is kept as its age, the number of ticks gone by since: the    *)
(* filter ts > now - RATE_WINDOW_SECONDS keeps the ages below Window.      *)
(***************************************************************************)
EXTENDS Naturals, Sequences, FiniteSets, Functions

CONSTANTS
  Messages,     \* tasks pushed to the lists
  Channels,
  ChannelOf,    \* channel_id of each message
  Bulk,         \* messages pushed to message:queue:bulk, the others to message:queue
  Malformed,    \* messages that are not JSON or have no channel_id
  NoRecipient,  \* messages without "to"
  Workers,      \* worker processes
  NoTask,
  Limit,        \* MAX_MESSAGES_PER_MINUTE
  Window,       \* RATE_WINDOW_SECONDS, in ticks
  MaxRetries,   \* MAX_RETRIES
  MaxFaults     \* bound: Redis errors and worker stops in a behaviour

ASSUME MessageAssumption ==
  /\ ChannelOf \in [Messages -> Channels]
  /\ Bulk \subseteq Messages /\ Malformed \subseteq Messages /\ NoRecipient \subseteq Messages
ASSUME LimitAssumption ==
  /\ Limit \in Nat \ {0} /\ Window \in Nat \ {0} /\ MaxRetries \in Nat \ {0}
  /\ MaxFaults \in Nat

Queues == {"regular", "bulk"}
QueueOf(m) == IF m \in Bulk THEN "bulk" ELSE "regular"
Task == [id : Messages, attempt : 1..MaxRetries]
ASSUME NoTaskAssumption == NoTask \notin Task

Ages == 0 .. (Window - 1)
NoneYet == [ch \in Channels |-> [age \in Ages |-> 0]]

VARIABLES
  queue,      \* the two lists, oldest first: LPUSH appends, BRPOP takes the head
  dead,       \* message:dead_letter
  stage,      \* what each worker awaits
  hand,       \* the task each worker processes
  slots,      \* _rate_counters of each worker: entries by channel and age
  recent,     \* history: messages each process handed to the engine, likewise
  requested,  \* history: messages pushed
  sends,      \* history: times each message was handed to the engine
  discarded,  \* history: messages dropped as unusable
  lost,       \* history: messages swallowed by an error or a stop
  faults      \* number of errors and stops, for the bound

historyVars == <<requested, sends, discarded, lost>>
vars == <<queue, dead, stage, hand, slots, recent, historyVars, faults>>

(* "regular" and "bulk" poll that list, "throttled" pushes a task back,    *)
(* "sending" awaits PUBLISH, "counting" the metric; "failing" is           *)
(* _handle_failure inside the try of _send_message, "refailing" in its     *)
(* except clause.                                                          *)
Stages == {"regular", "bulk", "throttled", "sending", "counting", "failing", "refailing"}
Polling == {"regular", "bulk"}

Init ==
  /\ queue = [q \in Queues |-> <<>>]
  /\ dead = {}
  /\ stage = [w \in Workers |-> "regular"]
  /\ hand = [w \in Workers |-> NoTask]
  /\ slots = [w \in Workers |-> NoneYet]
  /\ recent = [w \in Workers |-> NoneYet]
  /\ requested = {} /\ discarded = {} /\ lost = {}
  /\ sends = [m \in Messages |-> 0]
  /\ faults = 0

-----------------------------------------------------------------------------
(* A producer outside the repository pushes a message.                     *)
Push(m) ==
  /\ m \notin requested
  /\ requested' = requested \union {m}
  /\ queue' = [queue EXCEPT ![QueueOf(m)] = Append(@, [id |-> m, attempt |-> 1])]
  /\ UNCHANGED <<dead, stage, hand, slots, recent, sends, discarded, lost, faults>>

Older(count) == [age \in Ages |-> IF age = 0 THEN 0 ELSE count[age - 1]]
OlderAll(table) == [w \in Workers |-> [ch \in Channels |-> Older(table[w][ch])]]

Tick ==
  /\ slots' = OlderAll(slots)
  /\ recent' = OlderAll(recent)
  /\ UNCHANGED <<queue, dead, stage, hand, historyVars, faults>>

-----------------------------------------------------------------------------
(* start() and _process_queue.                                             *)

Record(table, w, ch) == [table EXCEPT ![w][ch][0] = @ + 1]
Goto(w, s) == stage' = [stage EXCEPT ![w] = s]
Drop(w) == hand' = [hand EXCEPT ![w] = NoTask] /\ Goto(w, "regular")

Pop(w, q) ==
  /\ stage[w] = q
  /\ queue[q] # <<>>
  /\ queue' = [queue EXCEPT ![q] = Tail(@)]

(* BRPOP times out: the bulk list after the regular one, then a pause.     *)
PollTimeout(w) ==
  /\ stage[w] \in Polling
  /\ queue[stage[w]] = <<>>
  /\ Goto(w, IF stage[w] = "regular" THEN "bulk" ELSE "regular")
  /\ UNCHANGED <<queue, dead, hand, slots, recent, historyVars, faults>>

(* Mutation: the limit is compared with > instead of >=.                   *)
UnderLimit_OneMore(w, ch) == SumFunction(slots[w][ch]) <= Limit

(* _check_rate_limit.                                                      *)
UnderLimit(w, ch) == SumFunction(slots[w][ch]) < Limit

TakeUnusable(w, q) ==
  /\ Pop(w, q)
  /\ Head(queue[q]).id \in Malformed
  /\ discarded' = discarded \union {Head(queue[q]).id}
  /\ Goto(w, "regular")
  /\ UNCHANGED <<dead, hand, slots, recent, requested, sends, lost, faults>>

TakeThrottled(w, q) ==
  /\ Pop(w, q)
  /\ Head(queue[q]).id \notin Malformed
  /\ ~UnderLimit(w, ChannelOf[Head(queue[q]).id])
  /\ hand' = [hand EXCEPT ![w] = Head(queue[q])]
  /\ Goto(w, "throttled")
  /\ UNCHANGED <<dead, slots, recent, historyVars, faults>>

(* The slot is taken before the recipient is looked at.                    *)
TakeToSend(w, q) ==
  /\ Pop(w, q)
  /\ Head(queue[q]).id \notin Malformed
  /\ UnderLimit(w, ChannelOf[Head(queue[q]).id])
  /\ slots' = Record(slots, w, ChannelOf[Head(queue[q]).id])
  /\ IF Head(queue[q]).id \in NoRecipient
     THEN /\ discarded' = discarded \union {Head(queue[q]).id}
          /\ Goto(w, "regular")
          /\ UNCHANGED hand
     ELSE /\ hand' = [hand EXCEPT ![w] = Head(queue[q])]
          /\ Goto(w, "sending")
          /\ UNCHANGED discarded
  /\ UNCHANGED <<dead, recent, requested, sends, lost, faults>>

(* The throttled task goes to the end of its list that is read last.       *)
PushBack(w) ==
  /\ stage[w] = "throttled"
  /\ queue' = [queue EXCEPT ![QueueOf(hand[w].id)] = Append(@, hand[w])]
  /\ Drop(w)
  /\ UNCHANGED <<dead, slots, recent, historyVars, faults>>

-----------------------------------------------------------------------------
(* _send_message and _handle_failure.                                      *)

Delivered(w) ==
  /\ sends' = [sends EXCEPT ![hand[w].id] = @ + 1]
  /\ recent' = Record(recent, w, ChannelOf[hand[w].id])

(* Mutation: a message nobody received counts as handled.                  *)
Publish_Unheard(w) ==
  /\ stage[w] = "sending"
  /\ \/ Delivered(w)
     \/ UNCHANGED <<sends, recent>>
  /\ Goto(w, "counting")
  /\ UNCHANGED <<queue, dead, hand, slots, requested, discarded, lost, faults>>

(* PUBLISH answers how many subscribers received the command.              *)
Publish(w) ==
  /\ stage[w] = "sending"
  /\ \/ Delivered(w) /\ Goto(w, "counting")
     \/ Goto(w, "failing") /\ UNCHANGED <<sends, recent>>
  /\ UNCHANGED <<queue, dead, hand, slots, requested, discarded, lost, faults>>

(* Mutation: the message is retried although it was handed over.           *)
Count_Retried(w) ==
  /\ stage[w] = "counting"
  /\ Goto(w, "failing")
  /\ UNCHANGED <<queue, dead, hand, slots, recent, historyVars, faults>>

Count(w) ==
  /\ stage[w] = "counting"
  /\ Drop(w)
  /\ UNCHANGED <<queue, dead, slots, recent, historyVars, faults>>

NextAttempt(task) == [task EXCEPT !.attempt = @ + 1]

(* Mutation: the attempts are compared with <= instead of <.               *)
Failure_OneTooMany(task) ==
  IF task.attempt <= MaxRetries
  THEN /\ queue' = [queue EXCEPT ![QueueOf(task.id)] = Append(@, NextAttempt(task))]
       /\ UNCHANGED dead
  ELSE /\ dead' = dead \union {task.id}
       /\ UNCHANGED queue

(* The LPUSH of _handle_failure, after its sleep.                          *)
Failure(task) ==
  IF task.attempt < MaxRetries
  THEN /\ queue' = [queue EXCEPT ![QueueOf(task.id)] = Append(@, NextAttempt(task))]
       /\ UNCHANGED dead
  ELSE /\ dead' = dead \union {task.id}
       /\ UNCHANGED queue

(* Mutation: the attempt number is not incremented.                        *)
HandleFailure_SameAttempt(w) ==
  /\ stage[w] \in {"failing", "refailing"}
  /\ queue' = [queue EXCEPT ![QueueOf(hand[w].id)] = Append(@, hand[w])]
  /\ Drop(w)
  /\ UNCHANGED <<dead, slots, recent, historyVars, faults>>

HandleFailure(w) ==
  /\ stage[w] \in {"failing", "refailing"}
  /\ Failure(hand[w])
  /\ Drop(w)
  /\ UNCHANGED <<slots, recent, historyVars, faults>>

-----------------------------------------------------------------------------
(* Redis errors, after which Redis may have executed the command or not,   *)
(* and stops of the process.                                               *)

Fault == faults < MaxFaults /\ faults' = faults + 1

(* BRPOP has removed a task and its answer does not arrive.                *)
PopLost(w, q) ==
  /\ Fault
  /\ Pop(w, q)
  /\ lost' = lost \union {Head(queue[q]).id}
  /\ Goto(w, "regular")
  /\ UNCHANGED <<dead, hand, slots, recent, requested, sends, discarded>>

(* PUBLISH or the metric raises: the except clause calls _handle_failure.  *)
PublishFails(w) ==
  /\ Fault
  /\ stage[w] = "sending"
  /\ Delivered(w) \/ UNCHANGED <<sends, recent>>
  /\ Goto(w, "refailing")
  /\ UNCHANGED <<queue, dead, hand, slots, requested, discarded, lost>>

CountFails(w) ==
  /\ Fault
  /\ stage[w] = "counting"
  /\ Goto(w, "refailing")
  /\ UNCHANGED <<queue, dead, hand, slots, recent, historyVars>>

(* The LPUSH raises inside the try: the failure is handled once more, with *)
(* the attempt number the first handling has already raised.               *)
FailureFails(w) ==
  /\ Fault
  /\ stage[w] = "failing"
  /\ Failure(hand[w]) \/ UNCHANGED <<queue, dead>>
  /\ hand' = IF hand[w].attempt < MaxRetries THEN [hand EXCEPT ![w] = NextAttempt(@)] ELSE hand
  /\ Goto(w, "refailing")
  /\ UNCHANGED <<slots, recent, historyVars>>

(* An LPUSH outside the try raises: start() logs it and polls again.       *)
TaskFails(w) ==
  /\ Fault
  /\ stage[w] \in {"throttled", "refailing"}
  /\ lost' = lost \union {hand[w].id}
  /\ Drop(w)
  /\ UNCHANGED <<queue, dead, slots, recent, requested, sends, discarded>>

(* A new process starts with empty counters.                               *)
Stop(w) ==
  /\ Fault
  /\ lost' = IF stage[w] \in Polling THEN lost ELSE lost \union {hand[w].id}
  /\ Drop(w)
  /\ slots' = [slots EXCEPT ![w] = NoneYet]
  /\ recent' = [recent EXCEPT ![w] = NoneYet]
  /\ UNCHANGED <<queue, dead, requested, sends, discarded>>

-----------------------------------------------------------------------------
Work(w) ==
  \/ PollTimeout(w)
  \/ \E q \in Queues : TakeUnusable(w, q) \/ TakeThrottled(w, q) \/ TakeToSend(w, q)
  \/ PushBack(w) \/ Publish(w) \/ Count(w) \/ HandleFailure(w)

Disturb(w) ==
  \/ \E q \in Queues : PopLost(w, q)
  \/ PublishFails(w) \/ CountFails(w) \/ FailureFails(w) \/ TaskFails(w) \/ Stop(w)

Next ==
  \/ \E m \in Messages : Push(m)
  \/ Tick
  \/ \E w \in Workers : Work(w) \/ Disturb(w)

Spec == Init /\ [][Next]_vars

(* The loop of each worker goes on, and so does time.                      *)
Fairness == WF_vars(Tick) /\ \A w \in Workers : WF_vars(Work(w))
FairSpec == Spec /\ Fairness

-----------------------------------------------------------------------------
(* Properties.                                                             *)

TypeOK ==
  /\ queue \in [Queues -> Seq(Task)]
  /\ dead \in SUBSET Messages
  /\ stage \in [Workers -> Stages]
  /\ hand \in [Workers -> Task \union {NoTask}]
  /\ \A w \in Workers : hand[w] = NoTask <=> stage[w] \in Polling
  /\ slots \in [Workers -> [Channels -> [Ages -> Nat]]]
  /\ recent \in [Workers -> [Channels -> [Ages -> Nat]]]
  /\ requested \in SUBSET Messages
  /\ sends \in [Messages -> Nat]
  /\ discarded \in SUBSET Messages
  /\ lost \in SUBSET Messages
  /\ faults \in Nat

(* Slots are taken before PUBLISH, which may take any time, so a window    *)
(* may hold one message more than slots; never two, whatever the delays.   *)
WindowHoldsOneMore ==
  \A w \in Workers, ch \in Channels : SumFunction(recent[w][ch]) <= Limit + 1

InQueue(m) == \E q \in Queues : \E i \in DOMAIN queue[q] : queue[q][i].id = m
InHand(m) == \E w \in Workers : stage[w] \notin Polling \union {"counting"} /\ hand[w].id = m
Waiting(m) == InQueue(m) \/ InHand(m)

(* A message that was pushed and is in neither list nor hand was sent,     *)
(* dead-lettered, discarded or swallowed by a fault.                       *)
NoneForgotten ==
  \A m \in requested : Waiting(m) \/ sends[m] > 0 \/ m \in dead \union discarded \union lost

(* A message has one fate: throttling, retries and several workers neither *)
(* send it twice nor dead-letter a sent one.  A Redis error may be taken   *)
(* for a failure of what was done, and then costs at most one more send.   *)
Fates(m) ==
  {fate \in {"waiting", "sent", "dead", "discarded"} :
     \/ fate = "waiting" /\ Waiting(m)
     \/ fate = "sent" /\ sends[m] > 0
     \/ fate = "dead" /\ m \in dead
     \/ fate = "discarded" /\ m \in discarded}
OneFate ==
  \A m \in requested :
    /\ faults = 0 => Cardinality(Fates(m)) = 1
    /\ sends[m] <= 1 + faults

(* Neither the rate limit nor the retries keep a message waiting forever:  *)
(* each is pushed once, so in the end none is left in a list or in hand.   *)
EveryMessageSettles == <>[](\A m \in Messages : ~Waiting(m))
=============================================================================
