------------------------- MODULE MessageQueueProofs -------------------------
(* Theorems about MessageQueue, for any number of messages, channels and   *)
(* workers, any limit, window and number of faults.                        *)
EXTENDS MessageQueue, Counting

(***************************************************************************)
(* Tasks and lists.                                                        *)
(***************************************************************************)
LEMMA FirstTask == \A m \in Messages : [id |-> m, attempt |-> 1] \in Task
  <1>1. 1 \in 1..MaxRetries
    BY LimitAssumption
  <1>2. QED BY <1>1 DEF Task

LEMMA RaisedTask ==
  ASSUME NEW t \in Task, t.attempt < MaxRetries
  PROVE  NextAttempt(t) \in Task /\ NextAttempt(t).id = t.id
  <1>1. t.attempt + 1 \in 1..MaxRetries
    BY LimitAssumption DEF Task
  <1>2. QED BY <1>1 DEF Task, NextAttempt

LEMMA TaskFields == \A t \in Task : t.id \in Messages /\ t # NoTask
  BY NoTaskAssumption DEF Task

LEMMA QueueOfIsQueue == \A m : QueueOf(m) \in Queues
  BY DEF QueueOf, Queues

LEMMA HandIsTask ==
  ASSUME TypeOK, NEW w \in Workers, stage[w] \notin Polling
  PROVE  hand[w] \in Task /\ hand[w].id \in Messages
  BY TaskFields DEF TypeOK

(* A message that was pushed onto a list is in it, and so is what was.     *)
LEMMA PushedIsInQueue ==
  ASSUME TypeOK, NEW q \in Queues, NEW t \in Task,
         queue' = [queue EXCEPT ![q] = Append(@, t)]
  PROVE  /\ queue' \in [Queues -> Seq(Task)]
         /\ InQueue(t.id)'
         /\ \A m : InQueue(m) => InQueue(m)'
  <1>1. queue[q] \in Seq(Task)
    BY DEF TypeOK
  <1>2. /\ queue'[q] = Append(queue[q], t)
        /\ \A r \in Queues \ {q} : queue'[r] = queue[r]
    BY DEF TypeOK
  <1>3. /\ Append(queue[q], t) \in Seq(Task)
        /\ Len(queue'[q]) = Len(queue[q]) + 1
        /\ queue'[q][Len(queue[q]) + 1] = t
        /\ \A i \in 1..Len(queue[q]) : queue'[q][i] = queue[q][i]
    BY <1>1, <1>2, AppendProperties
  <1>4. queue' \in [Queues -> Seq(Task)]
    BY <1>3 DEF TypeOK
  <1>5. /\ Len(queue[q]) \in Nat
        /\ DOMAIN queue[q] = 1..Len(queue[q])
        /\ DOMAIN queue'[q] = 1..(Len(queue[q]) + 1)
    BY <1>1, <1>2, <1>3, LenProperties
  <1>6. InQueue(t.id)'
    <2>1. Len(queue[q]) + 1 \in DOMAIN queue'[q]
      BY <1>5
    <2>2. QED BY <1>3, <2>1 DEF InQueue
  <1>7. ASSUME NEW m, InQueue(m) PROVE InQueue(m)'
    <2>1. PICK r \in Queues : \E i \in DOMAIN queue[r] : queue[r][i].id = m
      BY <1>7 DEF InQueue
    <2>2. CASE r = q
      BY <1>3, <1>5, <2>1, <2>2 DEF InQueue
    <2>3. CASE r # q
      BY <1>2, <2>1, <2>3 DEF InQueue
    <2>4. QED BY <2>2, <2>3
  <1>8. QED BY <1>4, <1>6, <1>7

(* BRPOP takes the head of a list and leaves the other messages in theirs. *)
LEMMA PoppedIsHead ==
  ASSUME TypeOK, NEW w \in Workers, NEW q \in Queues, Pop(w, q)
  PROVE  /\ queue' \in [Queues -> Seq(Task)]
         /\ Head(queue[q]) \in Task
         /\ \A m : InQueue(m) => InQueue(m)' \/ m = Head(queue[q]).id
  <1>1. queue[q] \in Seq(Task) /\ queue[q] # <<>>
    BY DEF TypeOK, Pop
  <1>2. /\ queue'[q] = Tail(queue[q])
        /\ \A r \in Queues \ {q} : queue'[r] = queue[r]
    BY DEF TypeOK, Pop
  <1>3. /\ Head(queue[q]) \in Task
        /\ Tail(queue[q]) \in Seq(Task)
        /\ Len(Tail(queue[q])) = Len(queue[q]) - 1
        /\ \A i \in 1..Len(Tail(queue[q])) : Tail(queue[q])[i] = queue[q][i + 1]
    BY <1>1, HeadTailProperties
  <1>4. queue' \in [Queues -> Seq(Task)]
    BY <1>3 DEF Pop, TypeOK
  <1>5. /\ Len(queue[q]) \in Nat
        /\ DOMAIN queue[q] = 1..Len(queue[q])
        /\ DOMAIN queue'[q] = 1..(Len(queue[q]) - 1)
        /\ Head(queue[q]) = queue[q][1]
    BY <1>1, <1>2, <1>3, LenProperties, HeadTailProperties
  <1>6. ASSUME NEW m, InQueue(m), m # Head(queue[q]).id PROVE InQueue(m)'
    <2>0. PICK r \in Queues : \E i \in DOMAIN queue[r] : queue[r][i].id = m
      BY <1>6 DEF InQueue
    <2>1. PICK i \in DOMAIN queue[r] : queue[r][i].id = m
      BY <2>0
    <2>2. CASE r = q
      <3>1. i # 1 /\ i \in 1..Len(queue[q])
        BY <1>5, <1>6, <2>1, <2>2
      <3>2. i - 1 \in DOMAIN queue'[q] /\ i - 1 \in 1..Len(Tail(queue[q])) /\ (i - 1) + 1 = i
        BY <1>3, <1>5, <3>1
      <3>3. queue'[q][i - 1] = queue[q][i]
        BY <1>2, <1>3, <3>2
      <3>4. QED BY <2>1, <2>2, <3>2, <3>3 DEF InQueue
    <2>3. CASE r # q
      BY <1>2, <2>1, <2>3 DEF InQueue
    <2>4. QED BY <2>2, <2>3
  <1>7. QED BY <1>3, <1>4, <1>6


(***************************************************************************)
(* Type correctness.                                                       *)
(***************************************************************************)
Table == [Workers -> [Channels -> [Ages -> Nat]]]

(* What TypeOK says of a worker's hand and stage.                          *)
HandsOK ==
  /\ stage \in [Workers -> Stages]
  /\ hand \in [Workers -> Task \union {NoTask}]
  /\ \A w \in Workers : hand[w] = NoTask <=> stage[w] \in Polling

LEMMA AgesStart == 0 \in Ages
  BY LimitAssumption DEF Ages

LEMMA NoneYetType == NoneYet \in [Channels -> [Ages -> Nat]]
  BY DEF NoneYet

LEMMA TypeInit == Init => TypeOK
  <1> SUFFICES ASSUME Init PROVE TypeOK
    OBVIOUS
  <1>1. slots \in Table /\ recent \in Table
    BY NoneYetType DEF Init, Table
  <1>2. HandsOK
    BY DEF Init, HandsOK, Stages, Polling
  <1>3. queue \in [Queues -> Seq(Task)]
    <2>1. <<>> \in Seq(Task)
      BY EmptySeq
    <2>2. QED BY <2>1 DEF Init
  <1>4. QED BY <1>1, <1>2, <1>3 DEF Init, TypeOK, HandsOK, Table

LEMMA RecordType ==
  ASSUME NEW table \in Table, NEW w \in Workers, NEW ch \in Channels
  PROVE  Record(table, w, ch) \in Table
  <1>1. table[w] \in [Channels -> [Ages -> Nat]]
    BY DEF Table
  <1>2. table[w][ch] \in [Ages -> Nat]
    BY <1>1
  <1>3. table[w][ch][0] + 1 \in Nat
    BY <1>2, AgesStart
  <1>4. [table[w][ch] EXCEPT ![0] = @ + 1] \in [Ages -> Nat]
    BY <1>2, <1>3
  <1>5. [table[w] EXCEPT ![ch] = [table[w][ch] EXCEPT ![0] = @ + 1]] \in [Channels -> [Ages -> Nat]]
    BY <1>1, <1>4
  <1>6. [table EXCEPT ![w] = [table[w] EXCEPT ![ch] = [table[w][ch] EXCEPT ![0] = @ + 1]]] \in Table
    BY <1>5 DEF Table
  <1>7. Record(table, w, ch)
          = [table EXCEPT ![w] = [table[w] EXCEPT ![ch] = [table[w][ch] EXCEPT ![0] = @ + 1]]]
    BY DEF Record
  <1>8. QED BY <1>6, <1>7

LEMMA OlderType ==
  ASSUME NEW table \in Table
  PROVE  OlderAll(table) \in Table
  <1>1. ASSUME NEW count \in [Ages -> Nat] PROVE Older(count) \in [Ages -> Nat]
    <2>1. ASSUME NEW age \in Ages, age # 0 PROVE count[age - 1] \in Nat
      <3>1. age - 1 \in Ages
        BY <2>1, LimitAssumption DEF Ages
      <3>2. QED BY <3>1
    <2>2. QED BY <2>1 DEF Older
  <1>2. ASSUME NEW w \in Workers, NEW ch \in Channels PROVE table[w][ch] \in [Ages -> Nat]
    BY DEF Table
  <1>3. QED BY <1>1, <1>2 DEF OlderAll, Table

LEMMA HandsDropped ==
  ASSUME HandsOK, NEW w \in Workers, Drop(w)
  PROVE  HandsOK'
  BY DEF HandsOK, Drop, Goto, Stages, Polling

LEMMA HandsTaken ==
  ASSUME HandsOK, NEW w \in Workers, NEW t \in Task, NEW s \in Stages \ Polling,
         hand' = [hand EXCEPT ![w] = t], Goto(w, s)
  PROVE  HandsOK'
  BY TaskFields DEF HandsOK, Goto, Stages, Polling

LEMMA HandsMoved ==
  ASSUME HandsOK, NEW w \in Workers, NEW s \in Stages,
         stage[w] \in Polling <=> s \in Polling, Goto(w, s), UNCHANGED hand
  PROVE  HandsOK'
  BY DEF HandsOK, Goto, Stages, Polling

LEMMA DeliveredType ==
  ASSUME TypeOK, NEW w \in Workers, stage[w] \notin Polling,
         Delivered(w) \/ UNCHANGED <<sends, recent>>
  PROVE  sends' \in [Messages -> Nat] /\ recent' \in Table
  <1>1. CASE UNCHANGED <<sends, recent>>
    BY <1>1 DEF TypeOK, Table
  <1>2. CASE Delivered(w)
    <2>1. hand[w].id \in Messages
      BY HandIsTask
    <2>2. ChannelOf[hand[w].id] \in Channels
      BY <2>1, MessageAssumption
    <2>3. recent' \in Table
      BY <1>2, <2>2, RecordType DEF Delivered, TypeOK, Table
    <2>4. sends[hand[w].id] + 1 \in Nat
      BY <2>1 DEF TypeOK
    <2>5. QED BY <1>2, <2>1, <2>3, <2>4 DEF Delivered, TypeOK
  <1>3. QED BY <1>1, <1>2

LEMMA FailureType ==
  ASSUME TypeOK, NEW t \in Task, Failure(t)
  PROVE  queue' \in [Queues -> Seq(Task)] /\ dead' \in SUBSET Messages
  <1>1. CASE t.attempt < MaxRetries
    <2>1. queue' = [queue EXCEPT ![QueueOf(t.id)] = Append(@, NextAttempt(t))] /\ dead' = dead
      BY <1>1 DEF Failure
    <2>2. QED BY <1>1, <2>1, RaisedTask, QueueOfIsQueue, PushedIsInQueue DEF TypeOK
  <1>2. CASE ~(t.attempt < MaxRetries)
    BY <1>2, TaskFields DEF Failure, TypeOK
  <1>3. QED BY <1>1, <1>2

LEMMA TypeOutside ==
  ASSUME TypeOK, Tick \/ \E m \in Messages : Push(m)
  PROVE  TypeOK'
  <1>1. CASE Tick
    <2>1. slots' \in Table /\ recent' \in Table
      BY <1>1, OlderType DEF Tick, TypeOK, Table
    <2>2. QED BY <1>1, <2>1 DEF Tick, TypeOK, Table, historyVars
  <1>2. ASSUME NEW m \in Messages, Push(m) PROVE TypeOK'
    <2>1. queue' = [queue EXCEPT ![QueueOf(m)] = Append(@, [id |-> m, attempt |-> 1])]
      BY <1>2 DEF Push
    <2>2. queue' \in [Queues -> Seq(Task)]
      BY <2>1, FirstTask, QueueOfIsQueue, PushedIsInQueue
    <2>3. QED BY <1>2, <2>2 DEF Push, TypeOK
  <1>3. QED BY <1>1, <1>2

LEMMA TypeTake ==
  ASSUME TypeOK, NEW w \in Workers, NEW q \in Queues,
         TakeUnusable(w, q) \/ TakeThrottled(w, q) \/ TakeToSend(w, q) \/ PopLost(w, q)
  PROVE  TypeOK'
  <1>1. Pop(w, q) /\ stage[w] \in Polling
    BY DEF TakeUnusable, TakeThrottled, TakeToSend, PopLost, Pop, Queues, Polling
  <1>2. queue' \in [Queues -> Seq(Task)] /\ Head(queue[q]) \in Task
    BY <1>1, PoppedIsHead
  <1>3. Head(queue[q]).id \in Messages
    BY <1>2, TaskFields
  <1>4. HandsOK
    BY DEF TypeOK, HandsOK
  <1>5. CASE TakeUnusable(w, q)
    <2>1. HandsOK'
      BY <1>1, <1>4, <1>5, HandsMoved DEF TakeUnusable, Stages, Polling
    <2>2. QED BY <1>2, <1>3, <1>5, <2>1 DEF TakeUnusable, TypeOK, HandsOK
  <1>6. CASE TakeThrottled(w, q)
    <2>1. "throttled" \in Stages \ Polling
      BY DEF Stages, Polling
    <2>2. HandsOK'
      BY <1>2, <1>4, <1>6, <2>1, HandsTaken DEF TakeThrottled
    <2>3. QED BY <1>2, <1>6, <2>2 DEF TakeThrottled, TypeOK, HandsOK, historyVars
  <1>7. CASE TakeToSend(w, q)
    <2>1. HandsOK'
      <3>1. "sending" \in Stages \ Polling
        BY DEF Stages, Polling
      <3>2. CASE Head(queue[q]).id \in NoRecipient
        BY <1>1, <1>4, <1>7, <3>2, HandsMoved DEF TakeToSend, Stages, Polling
      <3>3. CASE Head(queue[q]).id \notin NoRecipient
        BY <1>2, <1>4, <1>7, <3>1, <3>3, HandsTaken DEF TakeToSend
      <3>4. QED BY <3>2, <3>3
    <2>2. slots' \in Table
      <3>1. ChannelOf[Head(queue[q]).id] \in Channels
        BY <1>3, MessageAssumption
      <3>2. QED BY <1>7, <3>1, RecordType DEF TakeToSend, TypeOK, Table
    <2>3. discarded' \in SUBSET Messages
      BY <1>3, <1>7 DEF TakeToSend, TypeOK
    <2>4. QED BY <1>2, <1>7, <2>1, <2>2, <2>3 DEF TakeToSend, TypeOK, HandsOK, Table
  <1>8. CASE PopLost(w, q)
    <2>1. HandsOK'
      BY <1>1, <1>4, <1>8, HandsMoved DEF PopLost, Stages, Polling
    <2>2. QED BY <1>2, <1>3, <1>8, <2>1 DEF PopLost, Fault, TypeOK, HandsOK
  <1>9. QED BY <1>5, <1>6, <1>7, <1>8

LEMMA TypeInHand ==
  ASSUME TypeOK, NEW w \in Workers,
         PollTimeout(w) \/ PushBack(w) \/ Publish(w) \/ Count(w) \/ HandleFailure(w)
  PROVE  TypeOK'
  <1>1. HandsOK
    BY DEF TypeOK, HandsOK
  <1>2. CASE PollTimeout(w)
    <2>1. HandsOK'
      BY <1>1, <1>2, HandsMoved DEF PollTimeout, Stages, Polling
    <2>2. QED BY <1>2, <2>1 DEF PollTimeout, TypeOK, HandsOK, historyVars
  <1>3. CASE PushBack(w)
    <2>1. hand[w] \in Task
      BY <1>3, HandIsTask DEF PushBack, Polling
    <2>2. queue' \in [Queues -> Seq(Task)]
      BY <1>3, <2>1, QueueOfIsQueue, PushedIsInQueue DEF PushBack
    <2>3. HandsOK'
      BY <1>1, <1>3, HandsDropped DEF PushBack
    <2>4. QED BY <1>3, <2>2, <2>3 DEF PushBack, TypeOK, HandsOK, historyVars
  <1>4. CASE Publish(w)
    <2>1. stage[w] \notin Polling
      BY <1>4 DEF Publish, Polling
    <2>2. sends' \in [Messages -> Nat] /\ recent' \in Table
      BY <1>4, <2>1, DeliveredType DEF Publish
    <2>3. HandsOK'
      BY <1>1, <1>4, <2>1, HandsMoved DEF Publish, Stages, Polling
    <2>4. QED BY <1>4, <2>2, <2>3 DEF Publish, TypeOK, HandsOK, Table
  <1>5. CASE Count(w)
    <2>1. HandsOK'
      BY <1>1, <1>5, HandsDropped DEF Count
    <2>2. QED BY <1>5, <2>1 DEF Count, TypeOK, HandsOK, historyVars
  <1>6. CASE HandleFailure(w)
    <2>1. hand[w] \in Task
      BY <1>6, HandIsTask DEF HandleFailure, Polling
    <2>2. queue' \in [Queues -> Seq(Task)] /\ dead' \in SUBSET Messages
      BY <1>6, <2>1, FailureType DEF HandleFailure
    <2>3. HandsOK'
      BY <1>1, <1>6, HandsDropped DEF HandleFailure
    <2>4. QED BY <1>6, <2>2, <2>3 DEF HandleFailure, TypeOK, HandsOK, historyVars
  <1>7. QED BY <1>2, <1>3, <1>4, <1>5, <1>6

LEMMA TypeFault ==
  ASSUME TypeOK, NEW w \in Workers,
         PublishFails(w) \/ CountFails(w) \/ FailureFails(w) \/ TaskFails(w) \/ Stop(w)
  PROVE  TypeOK'
  <1>1. HandsOK /\ faults' \in Nat
    BY DEF TypeOK, HandsOK, PublishFails, CountFails, FailureFails, TaskFails, Stop, Fault
  <1>2. CASE PublishFails(w)
    <2>1. stage[w] \notin Polling
      BY <1>2 DEF PublishFails, Polling
    <2>2. sends' \in [Messages -> Nat] /\ recent' \in Table
      BY <1>2, <2>1, DeliveredType DEF PublishFails
    <2>3. HandsOK'
      BY <1>1, <1>2, <2>1, HandsMoved DEF PublishFails, Stages, Polling
    <2>4. QED BY <1>1, <1>2, <2>2, <2>3 DEF PublishFails, TypeOK, HandsOK, Table
  <1>3. CASE CountFails(w)
    <2>1. HandsOK'
      BY <1>1, <1>3, HandsMoved DEF CountFails, Stages, Polling
    <2>2. QED BY <1>1, <1>3, <2>1 DEF CountFails, TypeOK, HandsOK, historyVars
  <1>4. CASE FailureFails(w)
    <2>1. hand[w] \in Task
      BY <1>4, HandIsTask DEF FailureFails, Polling
    <2>2. queue' \in [Queues -> Seq(Task)] /\ dead' \in SUBSET Messages
      BY <1>4, <2>1, FailureType DEF FailureFails, TypeOK
    <2>3. "refailing" \in Stages \ Polling
      BY DEF Stages, Polling
    <2>4. HandsOK'
      <3>1. CASE hand[w].attempt < MaxRetries
        <4>1. NextAttempt(hand[w]) \in Task
          BY <2>1, <3>1, RaisedTask
        <4>2. hand' = [hand EXCEPT ![w] = NextAttempt(hand[w])]
          BY <1>4, <3>1 DEF FailureFails
        <4>3. QED BY <1>1, <1>4, <2>3, <4>1, <4>2, HandsTaken DEF FailureFails
      <3>2. CASE ~(hand[w].attempt < MaxRetries)
        BY <1>1, <1>4, <3>2, HandsMoved DEF FailureFails, Stages, Polling
      <3>3. QED BY <3>1, <3>2
    <2>5. QED BY <1>1, <1>4, <2>2, <2>4 DEF FailureFails, TypeOK, HandsOK, historyVars
  <1>5. CASE TaskFails(w)
    <2>1. hand[w].id \in Messages
      BY <1>5, HandIsTask DEF TaskFails, Polling
    <2>2. HandsOK'
      BY <1>1, <1>5, HandsDropped DEF TaskFails
    <2>3. QED BY <1>1, <1>5, <2>1, <2>2 DEF TaskFails, TypeOK, HandsOK
  <1>6. CASE Stop(w)
    <2>1. lost' \in SUBSET Messages
      BY <1>6, HandIsTask DEF Stop, TypeOK
    <2>2. HandsOK'
      BY <1>1, <1>6, HandsDropped DEF Stop
    <2>3. slots' \in Table /\ recent' \in Table
      BY <1>6, NoneYetType DEF Stop, TypeOK, Table
    <2>4. QED BY <1>1, <1>6, <2>1, <2>2, <2>3 DEF Stop, TypeOK, HandsOK, Table
  <1>7. QED BY <1>2, <1>3, <1>4, <1>5, <1>6

LEMMA TypeNext ==
  ASSUME TypeOK, [Next]_vars
  PROVE  TypeOK'
  <1>1. CASE UNCHANGED vars
    BY <1>1 DEF TypeOK, vars, historyVars
  <1>2. CASE Next
    BY <1>2, TypeOutside, TypeTake, TypeInHand, TypeFault DEF Next, Work, Disturb
  <1>3. QED BY <1>1, <1>2

(* Every variable keeps its type: in particular an attempt never leaves    *)
(* 1..MAX_RETRIES, and a worker polls exactly when its hand is empty.      *)
THEOREM QueueTypeCorrect == Spec => []TypeOK
  <1>1. QED BY TypeInit, TypeNext, PTL DEF Spec

(***************************************************************************)
(* No message is forgotten.  A step takes a message from a list or a hand  *)
(* only into another, or gives it an end.                                  *)
(***************************************************************************)
Ended(m) == sends[m] > 0 \/ m \in dead \union discarded \union lost
Kept(m) == Waiting(m) \/ Ended(m)

(* Nothing undoes an end.                                                  *)
LEMMA EndsStay ==
  ASSUME TypeOK, [Next]_vars, NEW m \in Messages, Ended(m)
  PROVE  Ended(m)'
  <1>1. /\ dead \subseteq dead' /\ discarded \subseteq discarded' /\ lost \subseteq lost'
        /\ sends[m] > 0 => sends'[m] > 0
    <2>1. ASSUME NEW w \in Workers, stage[w] \notin Polling, Delivered(w)
          PROVE  sends[m] > 0 => sends'[m] > 0
      <3>1. sends[m] \in Nat
        BY DEF TypeOK
      <3>2. sends'[m] = sends[m] \/ sends'[m] = sends[m] + 1
        BY <2>1 DEF Delivered, TypeOK
      <3>3. QED BY <3>1, <3>2
    <2>2. ASSUME NEW t, Failure(t) PROVE dead \subseteq dead'
      BY <2>2 DEF Failure
    <2>3. CASE UNCHANGED vars
      BY <2>3 DEF vars, historyVars
    <2>4. CASE Tick \/ \E k \in Messages : Push(k)
      BY <2>4 DEF Tick, Push, historyVars
    <2>5. ASSUME NEW w \in Workers, Work(w)
          PROVE  /\ dead \subseteq dead' /\ discarded \subseteq discarded' /\ lost \subseteq lost'
                 /\ sends[m] > 0 => sends'[m] > 0
      <3>1. CASE PollTimeout(w) \/ PushBack(w) \/ Count(w)
        BY <3>1 DEF PollTimeout, PushBack, Count, historyVars
      <3>2. CASE \E q \in Queues : TakeUnusable(w, q) \/ TakeThrottled(w, q) \/ TakeToSend(w, q)
        BY <3>2 DEF TakeUnusable, TakeThrottled, TakeToSend, historyVars
      <3>3. CASE Publish(w)
        BY <3>3, <2>1 DEF Publish, Polling
      <3>4. CASE HandleFailure(w)
        BY <3>4, <2>2 DEF HandleFailure, historyVars
      <3>5. QED BY <2>5, <3>1, <3>2, <3>3, <3>4 DEF Work
    <2>6. ASSUME NEW w \in Workers, Disturb(w)
          PROVE  /\ dead \subseteq dead' /\ discarded \subseteq discarded' /\ lost \subseteq lost'
                 /\ sends[m] > 0 => sends'[m] > 0
      <3>1. CASE CountFails(w) \/ TaskFails(w) \/ Stop(w)
        BY <3>1 DEF CountFails, TaskFails, Stop, historyVars
      <3>2. CASE \E q \in Queues : PopLost(w, q)
        BY <3>2 DEF PopLost
      <3>3. CASE PublishFails(w)
        BY <3>3, <2>1 DEF PublishFails, Polling
      <3>4. CASE FailureFails(w)
        BY <3>4, <2>2 DEF FailureFails, historyVars
      <3>5. QED BY <2>6, <3>1, <3>2, <3>3, <3>4 DEF Disturb
    <2>7. QED BY <2>3, <2>4, <2>5, <2>6 DEF Next
  <1>2. QED BY <1>1 DEF Ended

Holding(w, m) == stage[w] \notin Polling \union {"counting"} /\ hand[w].id = m

(* What a step of one worker leaves of the others' hands.                  *)
LEMMA OtherHands ==
  ASSUME TypeOK, NEW w \in Workers, NEW m,
         \A v \in Workers \ {w} : stage'[v] = stage[v] /\ hand'[v] = hand[v],
         InHand(m)
  PROVE  InHand(m)' \/ Holding(w, m)
  BY DEF InHand, Holding

LEMMA OneWorkerMoves ==
  ASSUME TypeOK, NEW w \in Workers, NEW s, Goto(w, s),
         hand' = hand \/ \E t : hand' = [hand EXCEPT ![w] = t]
  PROVE  /\ \A v \in Workers \ {w} : stage'[v] = stage[v] /\ hand'[v] = hand[v]
         /\ stage'[w] = s
  BY DEF Goto, TypeOK

LEMMA OneWorkerDrops ==
  ASSUME TypeOK, NEW w \in Workers, Drop(w)
  PROVE  \A v \in Workers \ {w} : stage'[v] = stage[v] /\ hand'[v] = hand[v]
  BY DEF Drop, Goto, TypeOK

LEMMA SameQueue ==
  ASSUME UNCHANGED queue, NEW m
  PROVE  InQueue(m) <=> InQueue(m)'
  BY DEF InQueue

(* _handle_failure leaves its message in a list or dead-lettered.          *)
LEMMA FailureKeeps ==
  ASSUME TypeOK, NEW t \in Task, Failure(t)
  PROVE  /\ InQueue(t.id)' \/ t.id \in dead'
         /\ \A m : InQueue(m) => InQueue(m)'
  <1>1. CASE t.attempt < MaxRetries
    BY <1>1, RaisedTask, QueueOfIsQueue, PushedIsInQueue DEF Failure
  <1>2. CASE ~(t.attempt < MaxRetries)
    BY <1>2, SameQueue DEF Failure
  <1>3. QED BY <1>1, <1>2

LEMMA TakeKeeps ==
  ASSUME TypeOK, NEW w \in Workers, NEW q \in Queues, NEW m, Waiting(m),
         TakeUnusable(w, q) \/ TakeThrottled(w, q) \/ TakeToSend(w, q) \/ PopLost(w, q)
  PROVE  Kept(m)'
  <1>1. Pop(w, q) /\ stage[w] \in Polling
    BY DEF TakeUnusable, TakeThrottled, TakeToSend, PopLost, Pop, Queues, Polling
  <1>2. /\ \A v \in Workers \ {w} : stage'[v] = stage[v] /\ hand'[v] = hand[v]
        /\ \/ stage'[w] \in {"throttled", "sending"} /\ hand'[w] = Head(queue[q])
           \/ Head(queue[q]).id \in discarded' \union lost'
    BY DEF TakeUnusable, TakeThrottled, TakeToSend, PopLost, Goto, TypeOK
  <1>3. CASE InHand(m)
    BY <1>1, <1>2, <1>3, OtherHands DEF Holding, Kept, Waiting
  <1>4. CASE InQueue(m) /\ m # Head(queue[q]).id
    BY <1>1, <1>4, PoppedIsHead DEF Kept, Waiting
  <1>5. CASE m = Head(queue[q]).id
    BY <1>2, <1>5 DEF Kept, Ended, Waiting, InHand, Polling
  <1>6. QED BY <1>3, <1>4, <1>5 DEF Waiting

LEMMA WorkKeeps ==
  ASSUME TypeOK, NEW w \in Workers, NEW m, Waiting(m),
         PollTimeout(w) \/ PushBack(w) \/ Publish(w) \/ Count(w) \/ HandleFailure(w)
  PROVE  Kept(m)'
  <1>1. CASE PollTimeout(w)
    <2>1. \A v \in Workers \ {w} : stage'[v] = stage[v] /\ hand'[v] = hand[v]
      BY <1>1 DEF PollTimeout, Goto, TypeOK
    <2>2. ~Holding(w, m) /\ queue' = queue
      BY <1>1 DEF PollTimeout, Holding
    <2>3. QED BY <2>1, <2>2, OtherHands, SameQueue DEF Kept, Waiting
  <1>2. CASE PushBack(w)
    <2>1. PICK t \in Task : t = hand[w]
      BY <1>2, HandIsTask DEF PushBack, Polling
    <2>2. InQueue(t.id)' /\ (InQueue(m) => InQueue(m)')
      BY <1>2, <2>1, QueueOfIsQueue, PushedIsInQueue DEF PushBack
    <2>3. InHand(m) => InHand(m)' \/ Holding(w, m)
      BY <1>2, OneWorkerDrops, OtherHands DEF PushBack
    <2>4. QED BY <2>1, <2>2, <2>3 DEF Kept, Waiting, Holding
  <1>3. CASE Publish(w)
    <2>1. UNCHANGED <<queue, hand>> /\ stage[w] = "sending"
      BY <1>3 DEF Publish
    <2>2. CASE Goto(w, "failing")
      <3>1. stage'[w] = "failing" /\ \A v \in Workers \ {w} : stage'[v] = stage[v]
        BY <2>2 DEF Goto, TypeOK
      <3>2. InHand(m) => InHand(m)'
        BY <2>1, <3>1 DEF InHand, Polling
      <3>3. QED BY <2>1, <3>2, SameQueue DEF Kept, Waiting
    <2>3. CASE Delivered(w) /\ Goto(w, "counting")
      <3>1. \A v \in Workers \ {w} : stage'[v] = stage[v]
        BY <2>3 DEF Goto, TypeOK
      <3>2. InHand(m) => InHand(m)' \/ Holding(w, m)
        BY <2>1, <3>1, OtherHands
      <3>3. hand[w].id \in Messages
        BY <2>1, HandIsTask DEF Polling
      <3>4. sends[hand[w].id] \in Nat /\ sends'[hand[w].id] = sends[hand[w].id] + 1
        BY <2>3, <3>3 DEF Delivered, TypeOK
      <3>5. sends'[hand[w].id] > 0
        BY <3>4
      <3>6. QED BY <2>1, <3>2, <3>5, SameQueue DEF Kept, Waiting, Ended, Holding
    <2>4. QED BY <1>3, <2>2, <2>3 DEF Publish
  <1>4. CASE Count(w)
    <2>1. ~Holding(w, m) /\ queue' = queue
      BY <1>4 DEF Count, Holding
    <2>2. QED BY <1>4, <2>1, OneWorkerDrops, OtherHands, SameQueue DEF Count, Kept, Waiting
  <1>5. CASE HandleFailure(w)
    <2>1. PICK t \in Task : t = hand[w]
      BY <1>5, HandIsTask DEF HandleFailure, Polling
    <2>2. /\ InQueue(t.id)' \/ t.id \in dead'
          /\ InQueue(m) => InQueue(m)'
      BY <1>5, <2>1, FailureKeeps DEF HandleFailure
    <2>3. InHand(m) => InHand(m)' \/ Holding(w, m)
      BY <1>5, OneWorkerDrops, OtherHands DEF HandleFailure
    <2>4. QED BY <2>1, <2>2, <2>3 DEF Kept, Waiting, Ended, Holding
  <1>6. QED BY <1>1, <1>2, <1>3, <1>4, <1>5

LEMMA FaultKeeps ==
  ASSUME TypeOK, NEW w \in Workers, NEW m, Waiting(m),
         PublishFails(w) \/ CountFails(w) \/ FailureFails(w) \/ TaskFails(w) \/ Stop(w)
  PROVE  Kept(m)'
  <1>1. CASE PublishFails(w) \/ CountFails(w)
    <2>1. UNCHANGED <<queue, hand>> /\ Goto(w, "refailing")
      BY <1>1 DEF PublishFails, CountFails
    <2>2. stage'[w] = "refailing" /\ \A v \in Workers \ {w} : stage'[v] = stage[v]
      BY <2>1 DEF Goto, TypeOK
    <2>3. InHand(m) => InHand(m)'
      BY <2>1, <2>2 DEF InHand, Polling
    <2>4. QED BY <2>1, <2>3, SameQueue DEF Kept, Waiting
  <1>2. CASE FailureFails(w)
    <2>1. hand[w] \in Task
      BY <1>2, HandIsTask DEF FailureFails, Polling
    <2>2. InQueue(m) => InQueue(m)'
      BY <1>2, <2>1, FailureKeeps, SameQueue DEF FailureFails
    <2>3. /\ stage'[w] = "refailing"
          /\ \A v \in Workers \ {w} : stage'[v] = stage[v] /\ hand'[v] = hand[v]
      BY <1>2 DEF FailureFails, Goto, TypeOK
    <2>4. hand'[w].id = hand[w].id
      BY <1>2, <2>1, RaisedTask DEF FailureFails, TypeOK
    <2>5. InHand(m) => InHand(m)'
      BY <2>3, <2>4 DEF InHand, Polling
    <2>6. QED BY <2>2, <2>5 DEF Kept, Waiting
  <1>3. CASE TaskFails(w)
    <2>1. InHand(m) => InHand(m)' \/ Holding(w, m)
      BY <1>3, OneWorkerDrops, OtherHands DEF TaskFails
    <2>2. hand[w].id \in lost' /\ queue' = queue
      BY <1>3 DEF TaskFails
    <2>3. QED BY <2>1, <2>2, SameQueue DEF Kept, Waiting, Ended, Holding
  <1>4. CASE Stop(w)
    <2>1. InHand(m) => InHand(m)' \/ Holding(w, m)
      BY <1>4, OneWorkerDrops, OtherHands DEF Stop
    <2>2. (Holding(w, m) => m \in lost') /\ queue' = queue
      BY <1>4 DEF Stop, Holding
    <2>3. QED BY <2>1, <2>2, SameQueue DEF Kept, Waiting, Ended
  <1>5. QED BY <1>1, <1>2, <1>3, <1>4

LEMMA ForgetsNext ==
  ASSUME TypeOK, NoneForgotten, [Next]_vars
  PROVE  NoneForgotten'
  <1> SUFFICES ASSUME NEW m \in requested' PROVE Kept(m)'
    BY DEF NoneForgotten, Kept, Ended
  <1>1. CASE UNCHANGED vars
    BY <1>1 DEF vars, historyVars, NoneForgotten, Kept, Ended, Waiting, InQueue, InHand
  <1>2. ASSUME NEW k \in Messages, Push(k) PROVE Kept(m)'
    <2>1. InQueue(k)' /\ \A l : InQueue(l) => InQueue(l)'
      BY <1>2, FirstTask, QueueOfIsQueue, PushedIsInQueue DEF Push
    <2>2. \A l : InHand(l) => InHand(l)'
      BY <1>2 DEF Push, InHand
    <2>3. m = k \/ m \in requested
      BY <1>2 DEF Push
    <2>4. QED BY <1>2, <2>1, <2>2, <2>3 DEF Push, NoneForgotten, Kept, Ended, Waiting
  <1>3. CASE Tick
    BY <1>3 DEF Tick, historyVars, NoneForgotten, Kept, Ended, Waiting, InQueue, InHand
  <1>4. ASSUME NEW w \in Workers, Work(w) \/ Disturb(w) PROVE Kept(m)'
    <2>1. m \in requested
      BY <1>4 DEF Work, Disturb, PollTimeout, TakeUnusable, TakeThrottled, TakeToSend,
                  PushBack, Publish, Count, HandleFailure, PopLost, PublishFails, CountFails,
                  FailureFails, TaskFails, Stop, historyVars
    <2>2. CASE Ended(m)
      <3>1. m \in Messages
        BY <2>1 DEF TypeOK
      <3>2. QED BY <2>2, <3>1, EndsStay DEF Kept
    <2>3. CASE Waiting(m)
      BY <1>4, <2>3, TakeKeeps, WorkKeeps, FaultKeeps DEF Work, Disturb
    <2>4. QED BY <2>1, <2>2, <2>3 DEF NoneForgotten, Ended
  <1>5. QED BY <1>1, <1>2, <1>3, <1>4 DEF Next

(* A message that was pushed stays in a list or a worker's hand until it   *)
(* is sent, dead-lettered, discarded or swallowed by an error or a stop:   *)
(* throttling, retries and the second handling of a failure drop none.     *)
THEOREM QueueNeverForgets == Spec => []NoneForgotten
  <1>1. Init => NoneForgotten
    BY DEF Init, NoneForgotten
  <1>2. QED BY <1>1, TypeInit, TypeNext, ForgetsNext, PTL DEF Spec

(***************************************************************************)
(* One fate.  What a message weighs is its entries in the lists, the hands *)
(* that hold it and its ends.  A step moves this weight and never adds to  *)
(* it, but for a fault, which may leave behind what was done.              *)
(***************************************************************************)
TasksOf(m) == {t \in Task : t.id = m}
Listed(m) == Cardinality(Spots(queue["regular"], TasksOf(m)))
               + Cardinality(Spots(queue["bulk"], TasksOf(m)))
Held(m) == {w \in Workers : Holding(w, m)}
Spent(m) == sends[m] + ZeroOne(m \in dead) + ZeroOne(m \in discarded)
Weight(m) == Listed(m) + Cardinality(Held(m)) + Spent(m)

Budget ==
  /\ faults = 0 => lost = {}
  /\ \A m \in Messages :
       /\ IsFiniteSet(Held(m))
       /\ Weight(m) <= faults + ZeroOne(m \in requested)

(* What one worker's step can change of the weight.                        *)
Share(w, m) == Listed(m) + ZeroOne(Holding(w, m)) + Spent(m)

LEMMA ListedNat ==
  ASSUME TypeOK, NEW m
  PROVE  Listed(m) \in Nat
  <1>1. queue["regular"] \in Seq(Task) /\ queue["bulk"] \in Seq(Task)
    BY DEF TypeOK, Queues
  <1>2. /\ Cardinality(Spots(queue["regular"], TasksOf(m))) \in Nat
        /\ Cardinality(Spots(queue["bulk"], TasksOf(m))) \in Nat
    BY <1>1, SpotsFinite
  <1>3. QED BY <1>2 DEF Listed

LEMMA SpentNat ==
  ASSUME TypeOK, NEW m \in Messages
  PROVE  Spent(m) \in Nat
  BY DEF TypeOK, Spent, ZeroOne

LEMMA ListedPush ==
  ASSUME TypeOK, NEW q \in Queues, NEW t \in Task,
         queue' = [queue EXCEPT ![q] = Append(@, t)], NEW m
  PROVE  Listed(m)' = Listed(m) + ZeroOne(t \in TasksOf(m))
  <1>1. queue["regular"] \in Seq(Task) /\ queue["bulk"] \in Seq(Task) /\ queue[q] \in Seq(Task)
    BY DEF TypeOK, Queues
  <1>2. Cardinality(Spots(Append(queue[q], t), TasksOf(m)))
          = Cardinality(Spots(queue[q], TasksOf(m))) + ZeroOne(t \in TasksOf(m))
    BY <1>1, SpotsAppend
  <1>3. PICK a \in Nat, b \in Nat, z \in Nat :
          /\ a = Cardinality(Spots(queue["regular"], TasksOf(m)))
          /\ b = Cardinality(Spots(queue["bulk"], TasksOf(m)))
          /\ z = ZeroOne(t \in TasksOf(m))
    BY <1>1, SpotsFinite DEF ZeroOne
  <1>4. CASE q = "regular"
    <2>1. queue'["regular"] = Append(queue[q], t) /\ queue'["bulk"] = queue["bulk"]
      BY <1>4 DEF TypeOK, Queues
    <2>2. Cardinality(Spots(queue'["regular"], TasksOf(m))) = a + z
      BY <1>2, <1>3, <1>4, <2>1
    <2>3. Listed(m)' = a + z + b
      BY <1>3, <2>1, <2>2 DEF Listed, TasksOf
    <2>4. QED BY <1>3, <2>3 DEF Listed
  <1>5. CASE q = "bulk"
    <2>1. queue'["bulk"] = Append(queue[q], t) /\ queue'["regular"] = queue["regular"]
      BY <1>5 DEF TypeOK, Queues
    <2>2. Cardinality(Spots(queue'["bulk"], TasksOf(m))) = b + z
      BY <1>2, <1>3, <1>5, <2>1
    <2>3. Listed(m)' = a + (b + z)
      BY <1>3, <2>1, <2>2 DEF Listed, TasksOf
    <2>4. QED BY <1>3, <2>3 DEF Listed
  <1>6. QED BY <1>4, <1>5 DEF Queues

LEMMA ListedPop ==
  ASSUME TypeOK, NEW w \in Workers, NEW q \in Queues, Pop(w, q), NEW m
  PROVE  /\ Listed(m)' \in Nat
         /\ Listed(m)' + ZeroOne(Head(queue[q]) \in TasksOf(m)) = Listed(m)
  <1>1. /\ queue["regular"] \in Seq(Task) /\ queue["bulk"] \in Seq(Task)
        /\ queue[q] \in Seq(Task) /\ queue[q] # <<>> /\ Tail(queue[q]) \in Seq(Task)
    BY HeadTailProperties DEF TypeOK, Queues, Pop
  <1>2. Cardinality(Spots(Tail(queue[q]), TasksOf(m))) + ZeroOne(Head(queue[q]) \in TasksOf(m))
          = Cardinality(Spots(queue[q], TasksOf(m)))
    BY <1>1, SpotsTail
  <1>3. PICK a \in Nat, b \in Nat, c \in Nat, z \in Nat :
          /\ a = Cardinality(Spots(queue["regular"], TasksOf(m)))
          /\ b = Cardinality(Spots(queue["bulk"], TasksOf(m)))
          /\ c = Cardinality(Spots(Tail(queue[q]), TasksOf(m)))
          /\ z = ZeroOne(Head(queue[q]) \in TasksOf(m))
    BY <1>1, SpotsFinite DEF ZeroOne
  <1>4. CASE q = "regular"
    <2>1. queue'["regular"] = Tail(queue[q]) /\ queue'["bulk"] = queue["bulk"]
      BY <1>4 DEF TypeOK, Queues, Pop
    <2>2. Cardinality(Spots(queue'["regular"], TasksOf(m))) = c /\ c + z = a
      BY <1>2, <1>3, <1>4, <2>1
    <2>3. Listed(m)' = c + b
      BY <1>3, <2>1, <2>2 DEF Listed, TasksOf
    <2>4. QED BY <1>3, <2>2, <2>3 DEF Listed
  <1>5. CASE q = "bulk"
    <2>1. queue'["bulk"] = Tail(queue[q]) /\ queue'["regular"] = queue["regular"]
      BY <1>5 DEF TypeOK, Queues, Pop
    <2>2. Cardinality(Spots(queue'["bulk"], TasksOf(m))) = c /\ c + z = b
      BY <1>2, <1>3, <1>5, <2>1
    <2>3. Listed(m)' = a + c
      BY <1>3, <2>1, <2>2 DEF Listed, TasksOf
    <2>4. QED BY <1>3, <2>2, <2>3 DEF Listed
  <1>6. QED BY <1>4, <1>5 DEF Queues

LEMMA ListedSame ==
  ASSUME UNCHANGED queue, NEW m
  PROVE  Listed(m)' = Listed(m)
  BY DEF Listed, TasksOf

(* The hands that hold a message, when one worker moves.                   *)
LEMMA HeldStep ==
  ASSUME NEW w \in Workers, NEW m, IsFiniteSet(Held(m)),
         \A v \in Workers \ {w} : stage'[v] = stage[v] /\ hand'[v] = hand[v]
  PROVE  /\ IsFiniteSet(Held(m)')
         /\ Cardinality(Held(m)') \in Nat /\ Cardinality(Held(m)) \in Nat
         /\ Cardinality(Held(m)') + ZeroOne(Holding(w, m))
              = Cardinality(Held(m)) + ZeroOne(Holding(w, m)')
  <1>1. PICK f : f = [v \in Workers |-> IF Holding(v, m) THEN 1 ELSE 0]
    OBVIOUS
  <1>2. PICK g : g = [v \in Workers |-> IF Holding(v, m)' THEN 1 ELSE 0]
    OBVIOUS
  <1>3. Holders(f, {1}) = Held(m) /\ Holders(g, {1}) = Held(m)'
    BY <1>1, <1>2 DEF Holders, Held
  <1>4. \A v \in Workers \ {w} : Holding(v, m)' = Holding(v, m)
    BY DEF Holding
  <1>5. /\ w \in DOMAIN f /\ DOMAIN g = DOMAIN f
        /\ \A v \in DOMAIN f \ {w} : g[v] = f[v]
    BY <1>1, <1>2, <1>4
  <1>6. PICK x : x = g[w]
    OBVIOUS
  <1>7. /\ IsFiniteSet(Holders(g, {1}))
        /\ Cardinality(Holders(g, {1})) \in Nat /\ Cardinality(Holders(f, {1})) \in Nat
        /\ Cardinality(Holders(g, {1})) + ZeroOne(f[w] \in {1})
             = Cardinality(Holders(f, {1})) + ZeroOne(x \in {1})
    BY <1>3, <1>5, <1>6, HoldersExcept
  <1>8. ZeroOne(f[w] \in {1}) = ZeroOne(Holding(w, m)) /\ ZeroOne(x \in {1}) = ZeroOne(Holding(w, m)')
    BY <1>1, <1>2, <1>6 DEF ZeroOne
  <1>9. QED BY <1>3, <1>7, <1>8

LEMMA PrimeNats ==
  ASSUME TypeOK', NEW m \in Messages
  PROVE  Listed(m)' \in Nat /\ Spent(m)' \in Nat
  <1>1. queue'["regular"] \in Seq(Task) /\ queue'["bulk"] \in Seq(Task)
    BY DEF TypeOK, Queues
  <1>2. /\ Cardinality(Spots(queue'["regular"], TasksOf(m))) \in Nat
        /\ Cardinality(Spots(queue'["bulk"], TasksOf(m))) \in Nat
    BY <1>1, SpotsFinite
  <1>3. sends'[m] \in Nat
    BY DEF TypeOK
  <1>4. QED BY <1>2, <1>3 DEF Listed, Spent, TasksOf, ZeroOne

(* The weight follows what the worker that moves does to it.               *)
LEMMA Balance ==
  ASSUME TypeOK, TypeOK', NEW w \in Workers, NEW m \in Messages, IsFiniteSet(Held(m)),
         \A v \in Workers \ {w} : stage'[v] = stage[v] /\ hand'[v] = hand[v],
         NEW more \in Nat, Share(w, m)' <= Share(w, m) + more
  PROVE  IsFiniteSet(Held(m)') /\ Weight(m)' <= Weight(m) + more
  <1>1. PICK a \in Nat, b \in Nat, h \in Nat, z \in Nat, s \in Nat :
          /\ a = Listed(m) /\ b = Cardinality(Held(m)) /\ h = Cardinality(Held(m)')
          /\ z = ZeroOne(Holding(w, m)) /\ s = Spent(m)
    BY HeldStep, ListedNat, SpentNat DEF ZeroOne
  <1>2. Listed(m)' \in Nat /\ Spent(m)' \in Nat
    BY PrimeNats
  <1>3. PICK y \in Nat, u \in Nat, r \in Nat :
          y = ZeroOne(Holding(w, m)') /\ u = Listed(m)' /\ r = Spent(m)'
    BY <1>2 DEF ZeroOne
  <1>4. h + z = b + y
    BY <1>1, <1>3, HeldStep
  <1>5. u + y + r <= a + z + s + more
    BY <1>1, <1>3 DEF Share
  <1>6. Weight(m)' = u + h + r /\ Weight(m) = a + b + s
    BY <1>1, <1>3 DEF Weight
  <1>7. u + h + r <= a + b + s + more
    BY <1>4, <1>5
  <1>8. QED BY <1>6, <1>7, HeldStep

(* BRPOP: the head goes to the hand, is discarded or is lost.              *)
LEMMA TakeShare ==
  ASSUME TypeOK, NEW w \in Workers, NEW q \in Queues, NEW m \in Messages,
         TakeUnusable(w, q) \/ TakeThrottled(w, q) \/ TakeToSend(w, q) \/ PopLost(w, q)
  PROVE  Share(w, m)' <= Share(w, m)
  <1>1. Pop(w, q) /\ stage[w] \in Polling
    BY DEF TakeUnusable, TakeThrottled, TakeToSend, PopLost, Pop, Queues, Polling
  <1>2. PICK t \in Task : t = Head(queue[q])
    BY <1>1, PoppedIsHead
  <1>3. PICK a \in Nat, z \in Nat :
          a = Listed(m)' /\ z = ZeroOne(t \in TasksOf(m)) /\ Listed(m) = a + z
    BY <1>1, <1>2, ListedPop DEF ZeroOne
  <1>4. sends' = sends /\ dead' = dead /\ ~ Holding(w, m)
    BY <1>1 DEF TakeUnusable, TakeThrottled, TakeToSend, PopLost, historyVars, Holding
  <1>5. PICK n \in Nat, d \in Nat, c \in Nat :
          n = sends[m] /\ d = ZeroOne(m \in dead) /\ c = ZeroOne(m \in discarded)
    BY DEF TypeOK, ZeroOne
  <1>6. Share(w, m) = a + z + 0 + (n + d + c)
    BY <1>3, <1>4, <1>5 DEF Share, Spent, ZeroOne
  <1>7. CASE /\ discarded' = discarded
             /\ hand'[w] = t \/ stage'[w] \in Polling
    <2>1. Holding(w, m)' => t \in TasksOf(m)
      BY <1>7 DEF Holding, TasksOf
    <2>2. ZeroOne(Holding(w, m)') <= z /\ ZeroOne(Holding(w, m)') \in Nat
      BY <1>3, <2>1 DEF ZeroOne
    <2>3. Share(w, m)' = a + ZeroOne(Holding(w, m)') + (n + d + c)
      BY <1>3, <1>4, <1>5, <1>7 DEF Share, Spent
    <2>4. QED BY <1>6, <2>2, <2>3
  <1>8. CASE discarded' = discarded \union {t.id} /\ stage'[w] \in Polling
    <2>1. ~ Holding(w, m)'
      BY <1>8 DEF Holding
    <2>2. ZeroOne(m \in discarded') <= c + z /\ ZeroOne(m \in discarded') \in Nat
      BY <1>3, <1>5, <1>8 DEF ZeroOne, TasksOf
    <2>3. Share(w, m)' = a + 0 + (n + d + ZeroOne(m \in discarded'))
      BY <1>3, <1>4, <1>5, <2>1 DEF Share, Spent, ZeroOne
    <2>4. QED BY <1>6, <2>2, <2>3
  <1>9. QED BY <1>2, <1>7, <1>8 DEF TakeUnusable, TakeThrottled, TakeToSend, PopLost, Goto, TypeOK,
                                   historyVars, Polling

(* _handle_failure: the task of a hand goes to a list or is dead-lettered. *)
LEMMA FailureShare ==
  ASSUME TypeOK, NEW t \in Task, Failure(t), NEW m \in Messages
  PROVE  /\ Listed(m)' \in Nat /\ ZeroOne(m \in dead') \in Nat
         /\ Listed(m)' + ZeroOne(m \in dead')
              <= Listed(m) + ZeroOne(m \in dead) + ZeroOne(t.id = m)
  <1>1. PICK a \in Nat, d \in Nat, z \in Nat :
          a = Listed(m) /\ d = ZeroOne(m \in dead) /\ z = ZeroOne(t.id = m)
    BY ListedNat DEF ZeroOne
  <1>2. CASE t.attempt < MaxRetries
    <2>1. PICK u \in Task : u = NextAttempt(t) /\ u.id = t.id
      BY <1>2, RaisedTask
    <2>2. queue' = [queue EXCEPT ![QueueOf(t.id)] = Append(@, u)] /\ dead' = dead
      BY <1>2, <2>1 DEF Failure
    <2>3. Listed(m)' = Listed(m) + ZeroOne(u \in TasksOf(m))
      BY <2>2, ListedPush, QueueOfIsQueue
    <2>4. ZeroOne(u \in TasksOf(m)) = z
      BY <1>1, <2>1 DEF TasksOf, ZeroOne
    <2>5. QED BY <1>1, <2>2, <2>3, <2>4
  <1>3. CASE ~(t.attempt < MaxRetries)
    <2>1. queue' = queue /\ dead' = dead \union {t.id}
      BY <1>3 DEF Failure
    <2>2. Listed(m)' = a
      BY <1>1, <2>1, ListedSame
    <2>3. ZeroOne(m \in dead') <= d + z /\ ZeroOne(m \in dead') \in Nat
      BY <1>1, <2>1 DEF ZeroOne
    <2>4. QED BY <1>1, <2>2, <2>3
  <1>4. QED BY <1>2, <1>3

(* What _send_message hands to the engine counts as sent.                  *)
LEMMA DeliveredShare ==
  ASSUME TypeOK, NEW w \in Workers, stage[w] = "sending", NEW m \in Messages, Delivered(w)
  PROVE  sends'[m] = sends[m] + ZeroOne(Holding(w, m))
  <1>1. hand[w].id \in Messages
    BY HandIsTask DEF Polling
  <1>2. Holding(w, m) <=> hand[w].id = m
    BY DEF Holding, Polling
  <1>3. CASE hand[w].id = m
    BY <1>1, <1>2, <1>3 DEF Delivered, TypeOK, ZeroOne
  <1>4. CASE hand[w].id # m
    BY <1>1, <1>2, <1>4 DEF Delivered, TypeOK, ZeroOne
  <1>5. QED BY <1>3, <1>4

LEMMA WorkShare ==
  ASSUME TypeOK, NEW w \in Workers, NEW m \in Messages,
         PollTimeout(w) \/ PushBack(w) \/ Publish(w) \/ Count(w) \/ HandleFailure(w)
  PROVE  Share(w, m)' <= Share(w, m)
  <1>1. PICK a \in Nat, z \in Nat, n \in Nat, d \in Nat, c \in Nat :
          /\ a = Listed(m) /\ z = ZeroOne(Holding(w, m))
          /\ n = sends[m] /\ d = ZeroOne(m \in dead) /\ c = ZeroOne(m \in discarded)
    <2>1. Listed(m) \in Nat /\ sends[m] \in Nat
      BY ListedNat DEF TypeOK
    <2>2. QED BY <2>1 DEF ZeroOne
  <1>2. Share(w, m) = a + z + (n + d + c)
    BY <1>1 DEF Share, Spent
  <1>3. CASE PollTimeout(w) \/ Count(w)
    <2>1. UNCHANGED <<queue, sends, dead, discarded>> /\ stage'[w] \in Polling
      BY <1>3 DEF PollTimeout, Count, Drop, Goto, TypeOK, historyVars, Polling
    <2>2. Listed(m)' = a /\ ~ Holding(w, m)'
      BY <1>1, <2>1, ListedSame DEF Holding
    <2>3. Share(w, m)' = a + 0 + (n + d + c)
      BY <1>1, <2>1, <2>2 DEF Share, Spent, ZeroOne
    <2>4. QED BY <1>2, <2>3
  <1>4. CASE PushBack(w)
    <2>1. PICK t \in Task : t = hand[w]
      BY <1>4, HandIsTask DEF PushBack, Polling
    <2>2. /\ queue' = [queue EXCEPT ![QueueOf(t.id)] = Append(@, t)]
          /\ UNCHANGED <<sends, dead, discarded>> /\ stage'[w] \in Polling
      BY <1>4, <2>1 DEF PushBack, Drop, Goto, TypeOK, historyVars, Polling
    <2>3. Listed(m)' = Listed(m) + ZeroOne(t \in TasksOf(m))
      BY <2>2, ListedPush, QueueOfIsQueue
    <2>4. ZeroOne(t \in TasksOf(m)) = z
      BY <1>1, <1>4, <2>1 DEF PushBack, Holding, Polling, TasksOf, ZeroOne
    <2>5. ~ Holding(w, m)'
      BY <2>2 DEF Holding
    <2>6. Share(w, m)' = a + z + 0 + (n + d + c)
      BY <1>1, <2>2, <2>3, <2>4, <2>5 DEF Share, Spent, ZeroOne
    <2>7. QED BY <1>2, <2>6
  <1>5. CASE Publish(w)
    <2>1. stage[w] = "sending" /\ UNCHANGED <<queue, hand, dead, discarded>> /\ Listed(m)' = a
      BY <1>1, <1>5, ListedSame DEF Publish
    <2>2. CASE Goto(w, "failing") /\ UNCHANGED sends
      <3>1. Holding(w, m)' = Holding(w, m)
        BY <2>1, <2>2 DEF Goto, TypeOK, Holding, Polling
      <3>2. Share(w, m)' = a + z + (n + d + c)
        BY <1>1, <2>1, <2>2, <3>1 DEF Share, Spent, ZeroOne
      <3>3. QED BY <1>2, <3>2
    <2>3. CASE Delivered(w) /\ Goto(w, "counting")
      <3>1. ~ Holding(w, m)'
        BY <2>3 DEF Goto, TypeOK, Holding
      <3>2. sends'[m] = n + z
        BY <1>1, <2>1, <2>3, DeliveredShare
      <3>3. Share(w, m)' = a + 0 + (n + z + d + c)
        BY <1>1, <2>1, <3>1, <3>2 DEF Share, Spent, ZeroOne
      <3>4. QED BY <1>2, <3>3
    <2>4. QED BY <1>5, <2>2, <2>3 DEF Publish
  <1>6. CASE HandleFailure(w)
    <2>1. PICK t \in Task : t = hand[w]
      BY <1>6, HandIsTask DEF HandleFailure, Polling
    <2>2. Failure(t) /\ UNCHANGED <<sends, discarded>> /\ stage'[w] \in Polling
      BY <1>6, <2>1 DEF HandleFailure, Drop, Goto, TypeOK, historyVars, Polling
    <2>3. ZeroOne(t.id = m) = z
      BY <1>1, <1>6, <2>1 DEF HandleFailure, Holding, Polling, ZeroOne
    <2>4. PICK u \in Nat, x \in Nat : u = Listed(m)' /\ x = ZeroOne(m \in dead') /\ u + x <= a + d + z
      BY <1>1, <2>2, <2>3, FailureShare
    <2>5. ~ Holding(w, m)'
      BY <2>2 DEF Holding
    <2>6. Share(w, m)' = u + 0 + (n + x + c)
      BY <1>1, <2>2, <2>4, <2>5 DEF Share, Spent, ZeroOne
    <2>7. QED BY <1>2, <2>4, <2>6
  <1>7. QED BY <1>3, <1>4, <1>5, <1>6

(* A fault adds at most one to what a message weighs.                      *)
LEMMA FaultShare ==
  ASSUME TypeOK, NEW w \in Workers, NEW m \in Messages,
         PublishFails(w) \/ CountFails(w) \/ FailureFails(w) \/ TaskFails(w) \/ Stop(w)
  PROVE  Share(w, m)' <= Share(w, m) + 1
  <1>1. PICK a \in Nat, z \in {0, 1}, n \in Nat, d \in Nat, c \in Nat :
          /\ a = Listed(m) /\ z = ZeroOne(Holding(w, m))
          /\ n = sends[m] /\ d = ZeroOne(m \in dead) /\ c = ZeroOne(m \in discarded)
    <2>1. Listed(m) \in Nat /\ sends[m] \in Nat
      BY ListedNat DEF TypeOK
    <2>2. QED BY <2>1 DEF ZeroOne
  <1>2. Share(w, m) = a + z + (n + d + c)
    BY <1>1 DEF Share, Spent
  <1>3. PICK y \in {0, 1} : y = ZeroOne(Holding(w, m)')
    BY DEF ZeroOne
  <1>4. CASE PublishFails(w)
    <2>1. /\ stage[w] = "sending" /\ UNCHANGED <<queue, hand, dead, discarded>> /\ Listed(m)' = a
          /\ stage'[w] = "refailing"
      BY <1>1, <1>4, ListedSame DEF PublishFails, Goto, TypeOK
    <2>2. y = z
      BY <1>1, <1>3, <2>1 DEF Holding, Polling, ZeroOne
    <2>3. sends'[m] = n \/ sends'[m] = n + z
      BY <1>1, <1>4, <2>1, DeliveredShare DEF PublishFails
    <2>4. Share(w, m)' = a + y + (sends'[m] + d + c)
      BY <1>1, <1>3, <2>1 DEF Share, Spent
    <2>5. QED BY <1>2, <2>2, <2>3, <2>4
  <1>5. CASE CountFails(w)
    <2>1. UNCHANGED <<queue, sends, dead, discarded>> /\ Listed(m)' = a
      BY <1>1, <1>5, ListedSame DEF CountFails, historyVars
    <2>2. Share(w, m)' = a + y + (n + d + c)
      BY <1>1, <1>3, <2>1 DEF Share, Spent
    <2>3. QED BY <1>2, <2>2
  <1>6. CASE FailureFails(w)
    <2>1. PICK t \in Task : t = hand[w]
      BY <1>6, HandIsTask DEF FailureFails, Polling
    <2>2. UNCHANGED <<sends, discarded>> /\ stage'[w] = "refailing" /\ hand'[w].id = t.id
      BY <1>6, <2>1, RaisedTask DEF FailureFails, Goto, TypeOK, historyVars
    <2>3. ZeroOne(t.id = m) = z /\ y = z
      BY <1>1, <1>3, <1>6, <2>1, <2>2 DEF FailureFails, Holding, Polling, ZeroOne
    <2>4. PICK u \in Nat, x \in Nat : u = Listed(m)' /\ x = ZeroOne(m \in dead') /\ u + x <= a + d + z
      <3>1. CASE Failure(t)
        BY <1>1, <2>3, <3>1, FailureShare
      <3>2. CASE UNCHANGED <<queue, dead>>
        BY <1>1, <3>2, ListedSame
      <3>3. QED BY <1>6, <2>1, <3>1, <3>2 DEF FailureFails
    <2>5. Share(w, m)' = u + y + (n + x + c)
      BY <1>1, <1>3, <2>2, <2>4 DEF Share, Spent
    <2>6. QED BY <1>2, <2>3, <2>4, <2>5
  <1>7. CASE TaskFails(w) \/ Stop(w)
    <2>1. UNCHANGED <<queue, sends, dead, discarded>> /\ Listed(m)' = a
      BY <1>1, <1>7, ListedSame DEF TaskFails, Stop
    <2>2. Share(w, m)' = a + y + (n + d + c)
      BY <1>1, <1>3, <2>1 DEF Share, Spent
    <2>3. QED BY <1>2, <2>2
  <1>8. QED BY <1>4, <1>5, <1>6, <1>7

(* What one worker does leaves the other hands alone.                      *)
LEMMA OtherWorkersStay ==
  ASSUME TypeOK, NEW w \in Workers, Work(w) \/ Disturb(w)
  PROVE  /\ \A v \in Workers \ {w} : stage'[v] = stage[v] /\ hand'[v] = hand[v]
         /\ requested' = requested
  <1> USE DEF Goto, Drop, TypeOK, historyVars
  <1>1. CASE PollTimeout(w) \/ PushBack(w) \/ Count(w) \/ HandleFailure(w)
    BY <1>1 DEF PollTimeout, PushBack, Count, HandleFailure
  <1>2. CASE Publish(w)
    BY <1>2 DEF Publish
  <1>3. CASE \E q \in Queues : TakeUnusable(w, q) \/ TakeThrottled(w, q) \/ TakeToSend(w, q)
    BY <1>3 DEF TakeUnusable, TakeThrottled, TakeToSend
  <1>4. CASE PublishFails(w) \/ CountFails(w) \/ FailureFails(w)
    BY <1>4 DEF PublishFails, CountFails, FailureFails
  <1>5. CASE TaskFails(w) \/ Stop(w) \/ \E q \in Queues : PopLost(w, q)
    BY <1>5 DEF TaskFails, Stop, PopLost
  <1>6. QED BY <1>1, <1>2, <1>3, <1>4, <1>5 DEF Work, Disturb

LEMMA BudgetInit == Init => Budget
  <1> SUFFICES ASSUME Init, NEW m \in Messages
               PROVE  IsFiniteSet(Held(m)) /\ Weight(m) = 0
    BY DEF Budget, Init, ZeroOne
  <1>1. Held(m) = {}
    BY DEF Init, Held, Holding, Polling
  <1>2. IsFiniteSet(Held(m)) /\ Cardinality(Held(m)) = 0
    BY <1>1, FS_EmptySet
  <1>3. queue["regular"] = <<>> /\ queue["bulk"] = <<>>
    BY DEF Init, Queues
  <1>4. Listed(m) = 0
    BY <1>3, SpotsEmpty DEF Listed
  <1>5. Spent(m) = 0
    BY DEF Init, Spent, ZeroOne
  <1>6. QED BY <1>2, <1>4, <1>5 DEF Weight

LEMMA BudgetNext ==
  ASSUME TypeOK, TypeOK', Budget, [Next]_vars
  PROVE  Budget'
  <1>1. CASE UNCHANGED vars \/ Tick
    <2>1. UNCHANGED <<queue, dead, stage, hand, historyVars, faults>>
      BY <1>1 DEF vars, Tick
    <2>2. UNCHANGED <<sends, discarded, lost, requested>>
      BY <2>1 DEF historyVars
    <2>3. \A m \in Messages : Held(m)' = Held(m) /\ Weight(m)' = Weight(m)
      BY <2>1, <2>2 DEF Held, Holding, Weight, Listed, Spent, TasksOf, ZeroOne
    <2>4. QED BY <2>1, <2>2, <2>3 DEF Budget
  <1>2. ASSUME NEW k \in Messages, Push(k) PROVE Budget'
    <2>1. PICK t \in Task : t = [id |-> k, attempt |-> 1] /\ t.id = k
      BY FirstTask
    <2>2. /\ queue' = [queue EXCEPT ![QueueOf(k)] = Append(@, t)]
          /\ k \notin requested /\ requested' = requested \union {k}
          /\ UNCHANGED <<dead, stage, hand, sends, discarded, lost, faults>>
      BY <1>2, <2>1 DEF Push
    <2>3. ASSUME NEW m \in Messages
          PROVE  /\ IsFiniteSet(Held(m)')
                 /\ Weight(m)' <= faults' + ZeroOne(m \in requested')
      <3>1. Held(m)' = Held(m) /\ Spent(m)' = Spent(m) /\ IsFiniteSet(Held(m))
        BY <2>2 DEF Held, Holding, Spent, ZeroOne, Budget
      <3>2. Listed(m)' = Listed(m) + ZeroOne(t \in TasksOf(m))
        BY <2>2, ListedPush, QueueOfIsQueue
      <3>3. PICK a \in Nat, b \in Nat, s \in Nat, z \in {0, 1} :
              /\ a = Listed(m) /\ b = Cardinality(Held(m)) /\ s = Spent(m)
              /\ z = ZeroOne(t \in TasksOf(m))
        BY <3>1, ListedNat, SpentNat, FS_CardinalityType DEF ZeroOne
      <3>4. Weight(m) = a + b + s /\ Weight(m)' = a + z + b + s
        BY <3>1, <3>2, <3>3 DEF Weight
      <3>5. Weight(m) <= faults + ZeroOne(m \in requested) /\ faults \in Nat
        BY DEF Budget, TypeOK
      <3>6. CASE m = k
        <4>1. /\ ZeroOne(m \in requested) = 0 /\ ZeroOne(m \in requested') = 1
              /\ faults' = faults
          BY <2>2, <3>6 DEF ZeroOne
        <4>2. a + z + b + s <= faults + 1
          BY <3>3, <3>4, <3>5, <4>1
        <4>3. QED BY <3>1, <3>4, <4>1, <4>2
      <3>7. CASE m # k
        <4>1. z = 0
          BY <2>1, <3>3, <3>7 DEF TasksOf, ZeroOne
        <4>2. QED BY <2>2, <3>1, <3>3, <3>4, <3>5, <3>7, <4>1
      <3>8. QED BY <3>6, <3>7
    <2>4. QED BY <2>2, <2>3 DEF Budget
  <1>3. ASSUME NEW w \in Workers, NEW more \in Nat, Work(w) \/ Disturb(w),
               faults' = faults + more,
               \A m \in Messages : Share(w, m)' <= Share(w, m) + more,
               faults' = 0 => lost' = lost
        PROVE  Budget'
    <2>1. /\ \A v \in Workers \ {w} : stage'[v] = stage[v] /\ hand'[v] = hand[v]
          /\ requested' = requested
      BY <1>3, OtherWorkersStay
    <2>2. ASSUME NEW m \in Messages
          PROVE  /\ IsFiniteSet(Held(m)')
                 /\ Weight(m)' <= faults' + ZeroOne(m \in requested')
      <3>1. IsFiniteSet(Held(m)) /\ Weight(m) <= faults + ZeroOne(m \in requested)
        BY DEF Budget
      <3>2. IsFiniteSet(Held(m)') /\ Weight(m)' <= Weight(m) + more
        BY <1>3, <2>1, <3>1, Balance
      <3>3. PICK x \in Nat, y \in Nat, z \in {0, 1} :
              x = Weight(m) /\ y = Weight(m)' /\ z = ZeroOne(m \in requested)
        <4>1. Listed(m) \in Nat /\ Spent(m) \in Nat /\ Cardinality(Held(m)) \in Nat
          BY <3>1, ListedNat, SpentNat, FS_CardinalityType
        <4>2. Weight(m) \in Nat
          BY <4>1 DEF Weight
        <4>3. Listed(m)' \in Nat /\ Spent(m)' \in Nat
          BY PrimeNats
        <4>4. Cardinality(Held(m)') \in Nat
          BY <3>2, FS_CardinalityType
        <4>5. Weight(m)' \in Nat
          BY <4>3, <4>4 DEF Weight
        <4>6. QED BY <4>2, <4>5 DEF ZeroOne
      <3>4. faults \in Nat /\ x <= faults + z /\ y <= x + more
        BY <3>1, <3>2, <3>3 DEF TypeOK
      <3>5. y <= (faults + more) + z
        BY <3>4
      <3>6. Weight(m)' <= faults' + ZeroOne(m \in requested')
        BY <1>3, <2>1, <3>3, <3>5
      <3>7. QED BY <3>2, <3>6
    <2>3. faults' = 0 => lost' = {}
      BY <1>3 DEF Budget, TypeOK
    <2>4. QED BY <2>2, <2>3 DEF Budget
  <1>4. ASSUME NEW w \in Workers, Work(w) PROVE Budget'
    <2>1. \A m \in Messages : Share(w, m)' <= Share(w, m)
      BY <1>4, TakeShare, WorkShare DEF Work
    <2>2. UNCHANGED <<faults, lost>>
      BY <1>4 DEF Work, PollTimeout, TakeUnusable, TakeThrottled, TakeToSend, PushBack, Publish,
                  Count, HandleFailure, historyVars
    <2>3. faults' = faults + 0 /\ \A m \in Messages : Share(w, m)' <= Share(w, m) + 0
      <3>1. \A m \in Messages : Share(w, m) \in Int
        <4>1. \A m \in Messages : Listed(m) \in Nat /\ Spent(m) \in Nat
          BY ListedNat, SpentNat
        <4>2. QED BY <4>1 DEF Share, ZeroOne
      <3>2. QED BY <2>1, <2>2, <3>1 DEF TypeOK
    <2>4. QED BY <1>3, <1>4, <2>2, <2>3
  <1>5. ASSUME NEW w \in Workers, Disturb(w) PROVE Budget'
    <2>1. Fault
      BY <1>5 DEF Disturb, PopLost, PublishFails, CountFails, FailureFails, TaskFails, Stop
    <2>2. faults' = faults + 1 /\ faults' # 0
      BY <2>1 DEF Fault, TypeOK
    <2>3. \A m \in Messages : Share(w, m)' <= Share(w, m) + 1
      <3> SUFFICES ASSUME NEW m \in Messages PROVE Share(w, m)' <= Share(w, m) + 1
        OBVIOUS
      <3>1. CASE \E q \in Queues : PopLost(w, q)
        <4>1. Share(w, m)' <= Share(w, m)
          BY <3>1, TakeShare
        <4>2. Listed(m) \in Nat /\ Spent(m) \in Nat /\ Listed(m)' \in Nat /\ Spent(m)' \in Nat
          BY ListedNat, SpentNat, PrimeNats
        <4>3. PICK x \in Nat, y \in Nat : x = Share(w, m) /\ y = Share(w, m)'
          BY <4>2 DEF Share, ZeroOne
        <4>4. QED BY <4>1, <4>3
      <3>2. QED BY <1>5, <3>1, FaultShare DEF Disturb
    <2>4. QED BY <1>3, <1>5, <2>2, <2>3
  <1>6. QED BY <1>1, <1>2, <1>4, <1>5 DEF Next

LEMMA WaitingWeighs ==
  ASSUME TypeOK, NEW m \in Messages, IsFiniteSet(Held(m)), Waiting(m)
  PROVE  Listed(m) + Cardinality(Held(m)) > 0
  <1>1. queue["regular"] \in Seq(Task) /\ queue["bulk"] \in Seq(Task)
    BY DEF TypeOK, Queues
  <1>2. PICK a \in Nat, b \in Nat, h \in Nat :
          /\ a = Cardinality(Spots(queue["regular"], TasksOf(m)))
          /\ b = Cardinality(Spots(queue["bulk"], TasksOf(m)))
          /\ h = Cardinality(Held(m))
    BY <1>1, SpotsFinite, FS_CardinalityType
  <1>3. CASE InQueue(m)
    <2>1. PICK q \in Queues : \E i \in DOMAIN queue[q] : queue[q][i].id = m
      BY <1>3 DEF InQueue
    <2>2. PICK i \in DOMAIN queue[q] : queue[q][i].id = m
      BY <2>1
    <2>3. queue[q] \in Seq(Task)
      BY DEF TypeOK
    <2>4. queue[q][i] \in TasksOf(m)
      BY <2>2, <2>3 DEF TasksOf
    <2>5. Cardinality(Spots(queue[q], TasksOf(m))) # 0
      BY <2>3, <2>4, SpotsNone
    <2>6. a # 0 \/ b # 0
      BY <1>2, <2>5 DEF Queues
    <2>7. QED BY <1>2, <2>6 DEF Listed
  <1>4. CASE InHand(m)
    <2>1. Held(m) # {}
      BY <1>4 DEF InHand, Held, Holding
    <2>2. h # 0
      BY <1>2, <2>1, FS_EmptySet
    <2>3. QED BY <1>2, <2>2 DEF Listed
  <1>5. QED BY <1>3, <1>4 DEF Waiting

(* At any number of workers, whatever they interleave and however often a  *)
(* message is throttled or retried, it has one fate; each Redis error      *)
(* costs at most one more send.                                            *)
THEOREM MessagesHaveOneFate == Spec => []OneFate
  <1>1. TypeOK /\ NoneForgotten /\ Budget => OneFate
    <2> SUFFICES ASSUME TypeOK, NoneForgotten, Budget, NEW m \in requested
                 PROVE  /\ faults = 0 => Cardinality(Fates(m)) = 1
                        /\ sends[m] <= 1 + faults
      BY DEF OneFate
    <2>1. m \in Messages
      BY DEF TypeOK
    <2>2. IsFiniteSet(Held(m)) /\ Weight(m) <= faults + 1
      BY <2>1 DEF Budget, ZeroOne
    <2>3. PICK a \in Nat, h \in Nat, n \in Nat, d \in {0, 1}, c \in {0, 1} :
            /\ a = Listed(m) /\ h = Cardinality(Held(m)) /\ n = sends[m]
            /\ d = ZeroOne(m \in dead) /\ c = ZeroOne(m \in discarded)
      <3>1. Listed(m) \in Nat /\ Cardinality(Held(m)) \in Nat /\ sends[m] \in Nat
        BY <2>1, <2>2, ListedNat, FS_CardinalityType DEF TypeOK
      <3>2. QED BY <3>1 DEF ZeroOne
    <2>4. a + h + (n + d + c) <= faults + 1 /\ faults \in Nat
      BY <2>2, <2>3 DEF Weight, Spent, TypeOK
    <2>5. n <= 1 + faults
      BY <2>4
    <2>6. ASSUME faults = 0 PROVE Cardinality(Fates(m)) = 1
      <3>1. a + h + n + d + c <= 1
        BY <2>4, <2>6
      <3>2. Waiting(m) => a + h > 0
        BY <2>1, <2>2, <2>3, WaitingWeighs
      <3>3. /\ m \in dead <=> d = 1
            /\ m \in discarded <=> c = 1
        BY <2>3 DEF ZeroOne
      <3>4. Waiting(m) \/ n > 0 \/ d = 1 \/ c = 1
        BY <2>3, <2>6, <3>3 DEF NoneForgotten, Budget
      <3>5. \E fate : Fates(m) = {fate}
        <4>1. CASE Waiting(m)
          <5>1. n = 0 /\ d = 0 /\ c = 0
            BY <3>1, <3>2, <4>1
          <5>2. Fates(m) = {"waiting"}
            BY <2>3, <3>3, <4>1, <5>1 DEF Fates
          <5>3. QED BY <5>2
        <4>2. CASE n > 0
          <5>1. ~ Waiting(m) /\ d = 0 /\ c = 0
            BY <3>1, <3>2, <4>2
          <5>2. Fates(m) = {"sent"}
            BY <2>3, <3>3, <4>2, <5>1 DEF Fates
          <5>3. QED BY <5>2
        <4>3. CASE d = 1
          <5>1. ~ Waiting(m) /\ n = 0 /\ c = 0
            BY <3>1, <3>2, <4>3
          <5>2. Fates(m) = {"dead"}
            BY <2>3, <3>3, <4>3, <5>1 DEF Fates
          <5>3. QED BY <5>2
        <4>4. CASE c = 1
          <5>1. ~ Waiting(m) /\ n = 0 /\ d = 0
            BY <3>1, <3>2, <4>4
          <5>2. Fates(m) = {"discarded"}
            BY <2>3, <3>3, <4>4, <5>1 DEF Fates
          <5>3. QED BY <5>2
        <4>5. QED BY <3>4, <4>1, <4>2, <4>3, <4>4
      <3>6. QED BY <3>5, FS_Singleton
    <2>7. QED BY <2>3, <2>5, <2>6
  <1>2. Init => TypeOK /\ NoneForgotten /\ Budget
    BY TypeInit, BudgetInit DEF Init, NoneForgotten
  <1>3. TypeOK /\ NoneForgotten /\ Budget /\ [Next]_vars => (TypeOK /\ NoneForgotten /\ Budget)'
    BY TypeNext, ForgetsNext, BudgetNext
  <1>4. QED BY <1>1, <1>2, <1>3, PTL DEF Spec
-----------------------------------------------------------------------------
(***************************************************************************)
(* The window of the rate limit.  How many entries of a table are younger  *)
(* than some age.                                                          *)
(***************************************************************************)
Young(count, k) == SumFunctionOnSet(count, 0..(k - 1))

Counts == [Ages -> Nat]

LEMMA YoungSteps ==
  ASSUME NEW count \in Counts
  PROVE  /\ Young(count, 0) = 0
         /\ \A k \in 0..Window : Young(count, k) \in Nat
         /\ \A k \in Ages : Young(count, k + 1) = Young(count, k) + count[k]
  <1>1. Window \in Nat \ {0}
    BY LimitAssumption
  <1>2. Young(count, 0) = 0
    BY SumOfNone DEF Young
  <1>3. ASSUME NEW k \in Ages
        PROVE  Young(count, k) \in Nat /\ Young(count, k + 1) = Young(count, k) + count[k]
    <2>1. k \in Nat /\ k \in Ages /\ (k + 1) - 1 = k
      BY <1>1 DEF Ages
    <2>2. \A a \in 0..k : count[a] \in Nat
      BY <1>1, <1>3 DEF Ages, Counts
    <2>3. /\ SumFunctionOnSet(count, 0..(k - 1)) \in Nat
          /\ SumFunctionOnSet(count, 0..k) = SumFunctionOnSet(count, 0..(k - 1)) + count[k]
      BY <2>1, <2>2, SumOfMore
    <2>4. QED BY <2>1, <2>3 DEF Young
  <1>4. ASSUME NEW k \in 0..Window PROVE Young(count, k) \in Nat
    <2>1. CASE k \in Ages
      BY <1>3, <2>1
    <2>2. CASE k \notin Ages
      <3>1. Window - 1 \in Ages /\ k = (Window - 1) + 1
        BY <1>1, <2>2 DEF Ages
      <3>2. count[Window - 1] \in Nat
        BY <3>1 DEF Counts
      <3>3. QED BY <1>3, <3>1, <3>2
    <2>3. QED BY <2>1, <2>2
  <1>5. QED BY <1>2, <1>3, <1>4

LEMMA YoungAll ==
  ASSUME NEW count \in Counts
  PROVE  Young(count, Window) = SumFunction(count)
  BY DEF Young, Counts, Ages, SumFunction

(* An invariant of the ages is one of all of them.                         *)
LEMMA AgeInduction ==
  ASSUME NEW S, 0 \in S, \A k \in Ages : k \in S => k + 1 \in S
  PROVE  0..Window \subseteq S
  <1> DEFINE T == {k \in Nat : k <= Window => k \in S}
  <1>1. Window \in Nat \ {0}
    BY LimitAssumption
  <1>2. 0 \in T
    OBVIOUS
  <1>3. ASSUME NEW k \in T PROVE k + 1 \in T
    BY <1>1 DEF Ages
  <1>4. T \in SUBSET Nat
    OBVIOUS
  <1> HIDE DEF T
  <1>5. T = Nat
    BY <1>2, <1>3, <1>4, SetInduction
  <1>6. QED BY <1>1, <1>5 DEF T

LEMMA YoungNone ==
  ASSUME NEW ch \in Channels, NEW k \in 0..Window
  PROVE  NoneYet[ch] \in Counts /\ Young(NoneYet[ch], k) = 0
  <1> DEFINE S == {i \in 0..Window : Young(NoneYet[ch], i) = 0}
  <1>1. NoneYet[ch] \in Counts /\ \A a \in Ages : NoneYet[ch][a] = 0
    BY DEF NoneYet, Counts
  <1>2. 0 \in S /\ \A a \in Ages : a \in S => a + 1 \in S
    BY <1>1, YoungSteps, LimitAssumption DEF Ages
  <1> HIDE DEF S
  <1>3. k \in S
    BY <1>2, AgeInduction
  <1>4. QED BY <1>1, <1>3 DEF S

(* A tick makes each entry one tick older, and the oldest leave.           *)
LEMMA YoungOlder ==
  ASSUME NEW count \in Counts
  PROVE  /\ Older(count) \in Counts
         /\ \A k \in Ages : Young(Older(count), k + 1) = Young(count, k)
  <1> DEFINE older == Older(count)
             S == {i \in 0..Window : i \in Ages => Young(older, i + 1) = Young(count, i)}
  <1>1. Window \in Nat \ {0} /\ 0 \in Ages
    BY LimitAssumption DEF Ages
  <1>2. /\ older \in Counts /\ older[0] = 0
        /\ \A a \in Ages : a + 1 \in Ages => older[a + 1] = count[a]
    <2>1. ASSUME NEW a \in Ages PROVE (IF a = 0 THEN 0 ELSE count[a - 1]) \in Nat
      <3>1. a = 0 \/ a - 1 \in Ages
        BY <1>1 DEF Ages
      <3>2. QED BY <3>1 DEF Counts
    <2>2. older \in Counts
      BY <2>1 DEF Older, Counts
    <2>3. older[0] = 0
      BY <1>1 DEF Older
    <2>4. ASSUME NEW a \in Ages, a + 1 \in Ages PROVE older[a + 1] = count[a]
      <3>1. a + 1 # 0 /\ (a + 1) - 1 = a
        BY <1>1 DEF Ages
      <3>2. QED BY <2>4, <3>1 DEF Older
    <2>5. QED BY <2>2, <2>3, <2>4
  <1> HIDE DEF older
  <1>3. /\ Young(older, 0) = 0 /\ Young(count, 0) = 0
        /\ \A a \in Ages : /\ Young(older, a + 1) = Young(older, a) + older[a]
                           /\ Young(count, a + 1) = Young(count, a) + count[a]
    BY <1>2, YoungSteps
  <1>4. 0 \in S
    <2>1. Young(older, 0 + 1) = Young(older, 0) + older[0]
      BY <1>1, <1>3
    <2>2. QED BY <1>1, <1>2, <1>3, <2>1
  <1>5. ASSUME NEW a \in Ages, a \in S PROVE a + 1 \in S
    <2>1. a + 1 \in 0..Window
      BY <1>1 DEF Ages
    <2>2. ASSUME a + 1 \in Ages PROVE Young(older, (a + 1) + 1) = Young(count, a + 1)
      <3>1. Young(older, (a + 1) + 1) = Young(older, a + 1) + older[a + 1]
        BY <1>3, <2>2
      <3>2. Young(older, a + 1) = Young(count, a) /\ older[a + 1] = count[a]
        BY <1>2, <1>5, <2>2
      <3>3. QED BY <1>3, <3>1, <3>2
    <2>3. QED BY <2>1, <2>2
  <1>6. 0..Window \subseteq S
    <2> HIDE DEF S
    <2>1. QED BY <1>4, <1>5, AgeInduction
  <1>7. \A k \in Ages : Young(older, k + 1) = Young(count, k)
    <2>1. \A k \in Ages : k \in 0..Window
      BY <1>1 DEF Ages
    <2>2. QED BY <1>6, <2>1
  <1>8. QED BY <1>2, <1>7 DEF older

(* A new entry is younger than every age but zero.                         *)
LEMMA YoungRecord ==
  ASSUME NEW count \in Counts, NEW more \in Counts,
         more = [count EXCEPT ![0] = @ + 1]
  PROVE  \A k \in 0..Window : Young(more, k) = Young(count, k) + IF k = 0 THEN 0 ELSE 1
  <1> DEFINE S == {k \in 0..Window : Young(more, k) = Young(count, k) + IF k = 0 THEN 0 ELSE 1}
  <1>1. Window \in Nat \ {0} /\ 0 \in Ages
    BY LimitAssumption DEF Ages
  <1>2. /\ count[0] \in Nat /\ more[0] = count[0] + 1
        /\ \A a \in Ages : count[a] \in Nat /\ (a # 0 => more[a] = count[a])
    BY <1>1 DEF Counts
  <1>3. /\ Young(more, 0) = 0 /\ Young(count, 0) = 0
        /\ \A a \in 0..Window : Young(count, a) \in Nat
        /\ \A a \in Ages : /\ Young(more, a + 1) = Young(more, a) + more[a]
                           /\ Young(count, a + 1) = Young(count, a) + count[a]
    BY YoungSteps
  <1>4. 0 \in S
    BY <1>1, <1>3
  <1>5. ASSUME NEW a \in Ages, a \in S PROVE a + 1 \in S
    <2>1. a \in Nat /\ a \in 0..Window /\ a + 1 \in 0..Window /\ a + 1 # 0
      BY <1>1 DEF Ages
    <2>2. Young(more, a) = Young(count, a) + IF a = 0 THEN 0 ELSE 1
      BY <1>5
    <2> HIDE DEF S
    <2>3. /\ Young(count, a) \in Nat /\ count[a] \in Nat
          /\ Young(more, a + 1) = Young(more, a) + more[a]
          /\ Young(count, a + 1) = Young(count, a) + count[a]
      BY <1>2, <1>3, <2>1
    <2>4. Young(more, a + 1) = Young(count, a + 1) + 1
      <3>1. CASE a = 0
        <4>1. more[a] = count[a] + 1
          BY <1>2, <3>1
        <4>2. Young(more, a) = Young(count, a)
          BY <2>2, <2>3, <3>1
        <4>3. QED BY <2>3, <4>1, <4>2
      <3>2. CASE a # 0
        <4>1. more[a] = count[a] /\ Young(more, a) = Young(count, a) + 1
          BY <1>2, <2>2, <3>2
        <4>2. QED BY <2>3, <4>1
      <3>3. QED BY <3>1, <3>2
    <2>5. QED BY <2>1, <2>4 DEF S
  <1>6. 0..Window \subseteq S
    <2> HIDE DEF S
    <2>1. QED BY <1>4, <1>5, AgeInduction
  <1>7. QED BY <1>6

(* A slot is taken before the message it is for is handed over, and a      *)
(* worker has one message in hand: so however old one looks at them, the   *)
(* messages handed over outnumber the slots by one at most, and not while  *)
(* the last slot waits for its message.                                    *)
Ahead(w, ch) == IF stage[w] = "sending" /\ ChannelOf[hand[w].id] = ch THEN 0 ELSE 1
Paced(w, ch) ==
  /\ Young(slots[w][ch], Window) <= Limit
  /\ \A k \in 0..Window :
       Young(recent[w][ch], k) <= Young(slots[w][ch], k) + Ahead(w, ch)
RateInv == \A w \in Workers, ch \in Channels : Paced(w, ch)

LEMMA AheadType == \A w, ch : Ahead(w, ch) \in {0, 1} /\ Ahead(w, ch)' \in {0, 1}
  BY DEF Ahead

LEMMA TablesType ==
  ASSUME TypeOK, NEW w \in Workers, NEW ch \in Channels
  PROVE  slots[w][ch] \in Counts /\ recent[w][ch] \in Counts
  BY DEF TypeOK, Counts

LEMMA RateInit == Init => RateInv
  <1>1. SUFFICES ASSUME Init, NEW w \in Workers, NEW ch \in Channels PROVE Paced(w, ch)
    BY DEF RateInv
  <1>2. slots[w][ch] = NoneYet[ch] /\ recent[w][ch] = NoneYet[ch]
    BY <1>1 DEF Init
  <1>3. \A k \in 0..Window : Young(NoneYet[ch], k) = 0
    BY YoungNone
  <1>4. Window \in 0..Window /\ Limit \in Nat
    BY LimitAssumption
  <1>5. QED BY <1>2, <1>3, <1>4, AheadType DEF Paced

(* Whoever does not touch the tables and does not start to send keeps pace.*)
LEMMA PaceKept ==
  ASSUME TypeOK, NEW w \in Workers, NEW ch \in Channels, Paced(w, ch),
         slots'[w] = slots[w], recent'[w] = recent[w], Ahead(w, ch) <= Ahead(w, ch)'
  PROVE  Paced(w, ch)'
  <1>1. Young(slots[w][ch], Window)' = Young(slots[w][ch], Window)
    BY DEF Young
  <1>2. ASSUME NEW k \in 0..Window
        PROVE  (Young(recent[w][ch], k) <= Young(slots[w][ch], k) + Ahead(w, ch))'
    <2>1. /\ Young(recent[w][ch], k)' = Young(recent[w][ch], k)
          /\ Young(slots[w][ch], k)' = Young(slots[w][ch], k)
      BY DEF Young
    <2>2. Young(recent[w][ch], k) \in Nat /\ Young(slots[w][ch], k) \in Nat
      BY TablesType, YoungSteps
    <2>3. Young(recent[w][ch], k) <= Young(slots[w][ch], k) + Ahead(w, ch)
      BY DEF Paced
    <2>4. QED BY <2>1, <2>2, <2>3, AheadType
  <1>3. QED BY <1>1, <1>2 DEF Paced

LEMMA PaceTick ==
  ASSUME TypeOK, Tick, NEW w \in Workers, NEW ch \in Channels, Paced(w, ch)
  PROVE  Paced(w, ch)'
  <1> DEFINE s == slots[w][ch]
             r == recent[w][ch]
  <1>1. s \in Counts /\ r \in Counts
    BY TablesType
  <1>2. slots'[w][ch] = Older(s) /\ recent'[w][ch] = Older(r) /\ Ahead(w, ch)' = Ahead(w, ch)
    BY DEF Tick, OlderAll, Ahead
  <1>3. /\ Young(s, Window) <= Limit
        /\ \A k \in 0..Window : Young(r, k) <= Young(s, k) + Ahead(w, ch)
    BY DEF Paced
  <1> HIDE DEF s, r
  <1>4. Older(s) \in Counts /\ Older(r) \in Counts
    BY <1>1, YoungOlder
  <1>5. Window - 1 \in Ages /\ Window = (Window - 1) + 1 /\ Limit \in Nat
    BY LimitAssumption DEF Ages
  <1>6. Young(Older(s), Window) <= Limit
    <2>1. Young(Older(s), (Window - 1) + 1) = Young(s, Window - 1)
      BY <1>1, <1>5, YoungOlder
    <2>2. Young(s, (Window - 1) + 1) = Young(s, Window - 1) + s[Window - 1]
      BY <1>1, <1>5, YoungSteps
    <2>3. s[Window - 1] \in Nat
      BY <1>1, <1>5 DEF Counts
    <2>4. Young(s, Window - 1) \in Nat
      <3>1. Window - 1 \in 0..Window
        BY <1>5 DEF Ages
      <3>2. QED BY <1>1, <3>1, YoungSteps
    <2>5. QED BY <1>3, <1>5, <2>1, <2>2, <2>3, <2>4
  <1>7. ASSUME NEW k \in 0..Window
        PROVE  Young(Older(r), k) <= Young(Older(s), k) + Ahead(w, ch)
    <2>1. CASE k = 0
      <3>1. Young(Older(r), 0) = 0 /\ Young(Older(s), 0) = 0
        BY <1>4, YoungSteps
      <3>2. QED BY <2>1, <3>1, AheadType
    <2>2. CASE k # 0
      <3>1. k - 1 \in Ages /\ k - 1 \in 0..Window /\ k = (k - 1) + 1
        BY <1>5, <2>2 DEF Ages
      <3>2. /\ Young(Older(r), (k - 1) + 1) = Young(r, k - 1)
            /\ Young(Older(s), (k - 1) + 1) = Young(s, k - 1)
        BY <1>1, <3>1, YoungOlder
      <3>3. Young(r, k - 1) <= Young(s, k - 1) + Ahead(w, ch)
        BY <1>3, <3>1
      <3>4. QED BY <3>1, <3>2, <3>3
    <2>3. QED BY <2>1, <2>2
  <1>8. QED BY <1>2, <1>6, <1>7 DEF Paced, Young

LEMMA RecordedTable ==
  ASSUME NEW table \in [Workers -> [Channels -> Counts]], NEW w \in Workers, NEW c \in Channels
  PROVE  /\ Record(table, w, c)[w][c] = [table[w][c] EXCEPT ![0] = @ + 1]
         /\ Record(table, w, c)[w][c] \in Counts
  <1>1. table[w] \in [Channels -> Counts] /\ table[w][c] \in Counts
    OBVIOUS
  <1>2. [table[w][c] EXCEPT ![0] = @ + 1] \in Counts
    <2>1. table[w][c][0] + 1 \in Nat
      BY <1>1, AgesStart DEF Counts
    <2>2. QED BY <1>1, <2>1 DEF Counts
  <1>3. Record(table, w, c)
          = [table EXCEPT ![w] = [table[w] EXCEPT ![c] = [table[w][c] EXCEPT ![0] = @ + 1]]]
    BY DEF Record
  <1>4. QED BY <1>1, <1>2, <1>3

LEMMA RecordedElsewhere ==
  ASSUME NEW table \in [Workers -> [Channels -> Counts]], NEW w \in Workers,
         NEW c \in Channels, NEW ch \in Channels, ch # c
  PROVE  Record(table, w, c)[w][ch] = table[w][ch]
  BY DEF Record

(* A slot is taken under the limit, and the message follows or is dropped. *)
LEMMA PaceSlot ==
  ASSUME TypeOK, NEW w \in Workers, NEW c \in Channels, UnderLimit(w, c), Paced(w, c),
         slots' = Record(slots, w, c), recent' = recent
  PROVE  Paced(w, c)'
  <1> DEFINE s == slots[w][c]
             r == recent[w][c]
             more == slots'[w][c]
  <1>1. s \in Counts /\ r \in Counts
    BY TablesType
  <1>2. more \in Counts /\ more = [s EXCEPT ![0] = @ + 1]
    <2>1. slots \in [Workers -> [Channels -> Counts]]
      BY DEF TypeOK, Counts
    <2>2. /\ Record(slots, w, c)[w][c] = [slots[w][c] EXCEPT ![0] = @ + 1]
          /\ Record(slots, w, c)[w][c] \in Counts
      BY <2>1, RecordedTable, Zenon
    <2>3. QED BY <2>2
  <1>3. /\ SumFunction(s) < Limit
        /\ \A k \in 0..Window : Young(r, k) <= Young(s, k) + Ahead(w, c)
    BY DEF Paced, UnderLimit
  <1> HIDE DEF s, r, more
  <1>4. \A k \in 0..Window : Young(more, k) = Young(s, k) + IF k = 0 THEN 0 ELSE 1
    BY <1>1, <1>2, YoungRecord
  <1>5. Window \in 0..Window /\ Window # 0 /\ Limit \in Nat
    BY LimitAssumption
  <1>6. \A k \in 0..Window : Young(s, k) \in Nat /\ Young(r, k) \in Nat
    BY <1>1, YoungSteps
  <1>7. Young(more, Window) <= Limit
    <2>1. Young(s, Window) < Limit
      BY <1>1, <1>3, YoungAll
    <2>2. Young(more, Window) = Young(s, Window) + 1 /\ Young(s, Window) \in Nat
      BY <1>4, <1>5, <1>6
    <2>3. QED BY <1>5, <2>1, <2>2
  <1>8. ASSUME NEW k \in 0..Window PROVE Young(r, k) <= Young(more, k) + Ahead(w, c)'
    <2>1. CASE k = 0
      <3>1. Young(r, 0) = 0 /\ Young(more, 0) = 0
        BY <1>1, <1>2, YoungSteps
      <3>2. QED BY <2>1, <3>1, AheadType
    <2>2. CASE k # 0
      <3>1. Young(more, k) = Young(s, k) + 1 /\ Young(r, k) <= Young(s, k) + Ahead(w, c)
        BY <1>3, <1>4, <2>2
      <3>2. QED BY <1>6, <3>1, AheadType
    <2>3. QED BY <2>1, <2>2
  <1>9. Young(slots[w][c], Window)' = Young(more, Window)
    BY DEF Young, more
  <1>10. ASSUME NEW k \in 0..Window
         PROVE  Young(slots[w][c], k)' = Young(more, k) /\ Young(recent[w][c], k)' = Young(r, k)
    BY DEF Young, more, r
  <1>11. QED BY <1>7, <1>8, <1>9, <1>10 DEF Paced

(* The message of the last slot is handed over.                            *)
LEMMA PaceDelivered ==
  ASSUME TypeOK, NEW w \in Workers, stage[w] = "sending", stage'[w] # "sending",
         NEW c, c = ChannelOf[hand[w].id],
         recent' = Record(recent, w, c), slots' = slots, Paced(w, c)
  PROVE  Paced(w, c)'
  <1> DEFINE s == slots[w][c]
             r == recent[w][c]
             more == recent'[w][c]
  <1>1. c \in Channels
    BY HandIsTask, MessageAssumption DEF Polling
  <1>2. s \in Counts /\ r \in Counts
    BY <1>1, TablesType
  <1>3. more \in Counts /\ more = [r EXCEPT ![0] = @ + 1]
    <2>1. recent \in [Workers -> [Channels -> Counts]]
      BY DEF TypeOK, Counts
    <2>2. ASSUME NEW d \in Channels
          PROVE  /\ Record(recent, w, d)[w][d] = [recent[w][d] EXCEPT ![0] = @ + 1]
                 /\ Record(recent, w, d)[w][d] \in Counts
      BY <2>1, RecordedTable, Zenon
    <2>3. QED BY <1>1, <2>2
  <1>4. /\ Young(s, Window) <= Limit
        /\ \A k \in 0..Window : Young(r, k) <= Young(s, k) + Ahead(w, c)
    BY DEF Paced
  <1>5. Ahead(w, c) = 0
    BY DEF Ahead
  <1>6. \A d : Ahead(w, d)' = 1
    BY DEF Ahead
  <1> HIDE DEF s, r, more
  <1>7. \A k \in 0..Window : Young(more, k) = Young(r, k) + IF k = 0 THEN 0 ELSE 1
    BY <1>2, <1>3, YoungRecord
  <1>8. \A k \in 0..Window : Young(s, k) \in Nat /\ Young(r, k) \in Nat
    BY <1>2, YoungSteps
  <1>9. ASSUME NEW k \in 0..Window PROVE Young(more, k) <= Young(s, k) + 1
    <2>1. Young(r, k) <= Young(s, k)
      BY <1>4, <1>5, <1>8
    <2>2. Young(more, k) = Young(r, k) \/ Young(more, k) = Young(r, k) + 1
      BY <1>7, <1>8
    <2>3. QED BY <1>8, <2>1, <2>2
  <1>10. Young(slots[w][c], Window)' = Young(s, Window)
    BY DEF Young, s
  <1>11. ASSUME NEW k \in 0..Window
         PROVE  Young(slots[w][c], k)' = Young(s, k) /\ Young(recent[w][c], k)' = Young(more, k)
    BY DEF Young, s, more
  <1>12. QED BY <1>4, <1>6, <1>9, <1>10, <1>11 DEF Paced

(* A new process has sent nothing and has no slot.                         *)
LEMMA PaceStop ==
  ASSUME NEW w \in Workers, NEW ch \in Channels, stage'[w] # "sending",
         slots'[w] = NoneYet, recent'[w] = NoneYet
  PROVE  Paced(w, ch)'
  <1>1. \A k \in 0..Window : Young(NoneYet[ch], k) = 0
    BY YoungNone
  <1>2. Window \in 0..Window /\ Limit \in Nat /\ Ahead(w, ch)' = 1
    BY LimitAssumption DEF Ahead
  <1>3. \A k : /\ Young(slots[w][ch], k)' = Young(NoneYet[ch], k)
               /\ Young(recent[w][ch], k)' = Young(NoneYet[ch], k)
    BY DEF Young
  <1>4. QED BY <1>1, <1>2, <1>3 DEF Paced

(* Each step of a worker is one of the four above for each of its channels.*)
LEMMA PaceTake ==
  ASSUME TypeOK, RateInv, NEW w \in Workers, NEW q \in Queues,
         TakeUnusable(w, q) \/ TakeThrottled(w, q) \/ TakeToSend(w, q),
         NEW ch \in Channels
  PROVE  Paced(w, ch)'
  <1>0. Paced(w, ch) /\ stage[w] # "sending" /\ Ahead(w, ch) = 1
    BY DEF RateInv, Ahead, TakeUnusable, TakeThrottled, TakeToSend, Pop, Queues
  <1>1. CASE TakeUnusable(w, q) \/ TakeThrottled(w, q)
    <2>1. slots' = slots /\ recent' = recent /\ stage'[w] # "sending"
      BY <1>1 DEF TakeUnusable, TakeThrottled, Goto, TypeOK
    <2>2. Ahead(w, ch)' = 1
      BY <2>1 DEF Ahead
    <2>3. QED BY <1>0, <2>1, <2>2, PaceKept
  <1>2. CASE TakeToSend(w, q)
    <2> DEFINE t == Head(queue[q])
               c == ChannelOf[t.id]
    <2>1. t \in Task /\ c \in Channels
      <3>1. queue[q] \in Seq(Task) /\ queue[q] # <<>>
        BY <1>2 DEF TypeOK, TakeToSend, Pop
      <3>2. t \in Task
        BY <3>1, HeadTailProperties
      <3>3. QED BY <3>2, TaskFields, MessageAssumption
    <2>2. UnderLimit(w, c) /\ slots' = Record(slots, w, c) /\ recent' = recent
      BY <1>2 DEF TakeToSend
    <2>3. stage'[w] = "sending" => hand'[w] = t
      BY <1>2 DEF TakeToSend, Goto, TypeOK
    <2>4. CASE ch = c
      <3> HIDE DEF c
      <3>1. QED BY <1>0, <2>1, <2>2, <2>4, PaceSlot
    <2>5. CASE ch # c
      <3>1. Ahead(w, ch)' = 1
        BY <2>3, <2>5 DEF Ahead
      <3>2. slots'[w][ch] = slots[w][ch]
        <4>1. slots \in [Workers -> [Channels -> Counts]]
          BY DEF TypeOK, Counts
        <4> HIDE DEF c
        <4>2. QED BY <2>1, <2>2, <2>5, <4>1, RecordedElsewhere
      <3>3. QED BY <1>0, <2>2, <3>1, <3>2 DEF Paced, Young
    <2>6. QED BY <2>4, <2>5
  <1>3. QED BY <1>1, <1>2

LEMMA PaceHandOver ==
  ASSUME TypeOK, RateInv, NEW w \in Workers, stage[w] = "sending", stage'[w] # "sending",
         slots' = slots, Delivered(w) \/ recent' = recent, NEW ch \in Channels
  PROVE  Paced(w, ch)'
  <1>1. Paced(w, ch) /\ Ahead(w, ch)' = 1
    BY DEF RateInv, Ahead
  <1>2. CASE recent' = recent
    BY <1>1, <1>2, AheadType, PaceKept
  <1>3. CASE Delivered(w)
    <2>1. PICK c : c = ChannelOf[hand[w].id]
      OBVIOUS
    <2>2. c \in Channels
      BY <2>1, HandIsTask, MessageAssumption DEF Polling
    <2>3. recent' = Record(recent, w, c)
      BY <1>3, <2>1 DEF Delivered
    <2>4. CASE ch = c
      BY <1>1, <2>1, <2>3, <2>4, PaceDelivered
    <2>5. CASE ch # c
      <3>1. recent'[w][ch] = recent[w][ch]
        <4>1. recent \in [Workers -> [Channels -> Counts]]
          BY DEF TypeOK, Counts
        <4>2. QED BY <2>2, <2>3, <2>5, <4>1, RecordedElsewhere
      <3>2. Ahead(w, ch) = 1
        BY <2>1, <2>5 DEF Ahead
      <3>3. QED BY <1>1, <3>1, <3>2 DEF Paced, Young
    <2>6. QED BY <2>4, <2>5
  <1>4. QED BY <1>2, <1>3

LEMMA PaceWork ==
  ASSUME TypeOK, RateInv, NEW w \in Workers, Work(w) \/ Disturb(w), NEW ch \in Channels
  PROVE  Paced(w, ch)'
  <1>1. CASE \E q \in Queues : TakeUnusable(w, q) \/ TakeThrottled(w, q) \/ TakeToSend(w, q)
    BY <1>1, PaceTake
  <1>2. CASE Publish(w) \/ PublishFails(w)
    <2>1. /\ stage[w] = "sending" /\ stage'[w] # "sending" /\ slots' = slots
          /\ Delivered(w) \/ recent' = recent
      BY <1>2 DEF Publish, PublishFails, Goto, TypeOK
    <2>2. QED BY <2>1, PaceHandOver
  <1>3. CASE Stop(w)
    <2>1. slots'[w] = NoneYet /\ recent'[w] = NoneYet /\ stage'[w] # "sending"
      BY <1>3 DEF Stop, Drop, Goto, TypeOK
    <2>2. QED BY <2>1, PaceStop
  <1>4. CASE \/ PollTimeout(w) \/ PushBack(w) \/ Count(w) \/ HandleFailure(w)
             \/ CountFails(w) \/ FailureFails(w) \/ TaskFails(w)
             \/ \E q \in Queues : PopLost(w, q)
    <2>1. slots' = slots /\ recent' = recent /\ stage'[w] # "sending"
      BY <1>4 DEF PollTimeout, PushBack, Count, HandleFailure, CountFails, FailureFails,
                  TaskFails, PopLost, Drop, Goto, TypeOK
    <2>2. Ahead(w, ch)' = 1 /\ Paced(w, ch)
      BY <2>1 DEF Ahead, RateInv
    <2>3. QED BY <2>1, <2>2, AheadType, PaceKept
  <1>5. QED BY <1>1, <1>2, <1>3, <1>4 DEF Work, Disturb

(* A step of one worker leaves the tables of the others alone.             *)
LEMMA PaceOfOthers ==
  ASSUME TypeOK, RateInv, NEW w \in Workers, Work(w) \/ Disturb(w),
         NEW v \in Workers, v # w, NEW ch \in Channels
  PROVE  Paced(v, ch)'
  <1>1. slots'[v] = slots[v] /\ recent'[v] = recent[v]
    BY DEF Work, Disturb, PollTimeout, TakeUnusable, TakeThrottled, TakeToSend, PushBack,
           Publish, Count, HandleFailure, PopLost, PublishFails, CountFails, FailureFails,
           TaskFails, Stop, Delivered, Record, TypeOK
  <1>2. stage'[v] = stage[v] /\ hand'[v] = hand[v]
    BY DEF Work, Disturb, PollTimeout, TakeUnusable, TakeThrottled, TakeToSend, PushBack,
           Publish, Count, HandleFailure, PopLost, PublishFails, CountFails, FailureFails,
           TaskFails, Stop, Drop, Goto, TypeOK
  <1>3. Ahead(v, ch)' = Ahead(v, ch) /\ Paced(v, ch)
    BY <1>2 DEF Ahead, RateInv
  <1>4. QED BY <1>1, <1>3, AheadType, PaceKept

LEMMA RateNext == TypeOK /\ RateInv /\ [Next]_vars => RateInv'
  <1>1. SUFFICES ASSUME TypeOK, RateInv, [Next]_vars, NEW v \in Workers, NEW ch \in Channels
                 PROVE  Paced(v, ch)'
    BY DEF RateInv
  <1>2. Paced(v, ch)
    BY <1>1 DEF RateInv
  <1>3. CASE (\E m \in Messages : Push(m)) \/ UNCHANGED vars
    <2>1. slots' = slots /\ recent' = recent /\ Ahead(v, ch)' = Ahead(v, ch)
      BY <1>3 DEF Push, vars, Ahead
    <2>2. QED BY <1>1, <1>2, <2>1, AheadType, PaceKept
  <1>4. CASE Tick
    BY <1>1, <1>2, <1>4, PaceTick
  <1>5. ASSUME NEW w \in Workers, Work(w) \/ Disturb(w) PROVE Paced(v, ch)'
    <2>1. CASE v = w
      BY <1>1, <1>5, <2>1, PaceWork
    <2>2. CASE v # w
      BY <1>1, <1>5, <2>2, PaceOfOthers
    <2>3. QED BY <2>1, <2>2
  <1>6. QED BY <1>1, <1>3, <1>4, <1>5 DEF Next

(* For any limit and window, and however long PUBLISH takes: a worker      *)
(* never hands over more than one message beyond the limit of a channel in *)
(* a window.                                                               *)
THEOREM WindowIsKept == Spec => []WindowHoldsOneMore
  <1>1. TypeOK /\ RateInv => WindowHoldsOneMore
    <2>1. SUFFICES ASSUME TypeOK, RateInv, NEW w \in Workers, NEW ch \in Channels
                   PROVE  SumFunction(recent[w][ch]) <= Limit + 1
      BY DEF WindowHoldsOneMore
    <2>2. recent[w][ch] \in Counts /\ slots[w][ch] \in Counts
      BY <2>1, TablesType
    <2>3. Window \in 0..Window /\ Limit \in Nat
      BY LimitAssumption
    <2>4. /\ Young(slots[w][ch], Window) <= Limit
          /\ Young(recent[w][ch], Window) <= Young(slots[w][ch], Window) + Ahead(w, ch)
      BY <2>1, <2>3 DEF RateInv, Paced
    <2>5. Young(slots[w][ch], Window) \in Nat /\ Young(recent[w][ch], Window) \in Nat
      BY <2>2, <2>3, YoungSteps
    <2>6. SumFunction(recent[w][ch]) = Young(recent[w][ch], Window)
      BY <2>2, YoungAll
    <2>7. QED BY <2>3, <2>4, <2>5, <2>6, AheadType
  <1>2. QED BY <1>1, TypeInit, TypeNext, RateInit, RateNext, PTL DEF Spec
=============================================================================
