----------------------- MODULE WebhookDispatcherProofs -----------------------
(* Theorems about WebhookDispatcher, for any number of deliveries, workers *)
(* and attempts, any batch size and any number of faults: the types, what  *)
(* becomes of a delivery and of its tasks, and the refinement of           *)
(* WebhookDelivery.                                                        *)
EXTENDS WebhookDispatcher, SequenceTheorems, TLAPS

(***************************************************************************)
(* Tasks.                                                                  *)
(***************************************************************************)
LEMMA FirstTask == \A d \in Deliveries : [id |-> d, attempt |-> 1] \in Task
  <1>1. 1 \in 1..MaxAttempts
    BY AttemptAssumption
  <1>2. QED BY <1>1 DEF Task

LEMMA NextTask ==
  ASSUME NEW t \in Task, t.attempt < MaxAttempts
  PROVE  /\ [t EXCEPT !.attempt = @ + 1] \in Task
         /\ [t EXCEPT !.attempt = @ + 1].id = t.id
         /\ [t EXCEPT !.attempt = @ + 1].attempt = t.attempt + 1
  <1>1. t.attempt + 1 \in 1..MaxAttempts
    BY AttemptAssumption DEF Task
  <1>2. QED BY <1>1 DEF Task

LEMMA TaskFields ==
  \A t \in Task : t.id \in Deliveries /\ t.attempt \in 1..MaxAttempts /\ t # NoTask
  BY NoTaskAssumption DEF Task

LEMMA HandIsTask ==
  ASSUME TypeOK, NEW w \in Workers
  PROVE  /\ stage[w] # "idle" => hand[w] \in Task
         /\ moving[w] # NoTask => moving[w] \in Task
  BY DEF TypeOK

(***************************************************************************)
(* Type correctness.                                                       *)
(***************************************************************************)
LEMMA TypeInit == Init => TypeOK
  BY DEF Init, TypeOK, Stages

LEMMA TypeQueue ==
  ASSUME TypeOK, NEW t \in Task, queue' = Append(queue, t)
  PROVE  queue' \in Seq(Task)
  BY AppendProperties DEF TypeOK

LEMMA TypeRelease ==
  ASSUME TypeOK, NEW w \in Workers, Release(w)
  PROVE  /\ hand' \in [Workers -> Task \union {NoTask}]
         /\ stage' \in [Workers -> Stages]
         /\ \A v \in Workers : hand'[v] = NoTask <=> stage'[v] = "idle"
  BY DEF TypeOK, Release, Stages

LEMMA TypeDispatch ==
  ASSUME TypeOK, NEW w \in Workers, Dispatch(w)
  PROVE  TypeOK'
  <1>1. ASSUME Take(w) PROVE TypeOK'
    <2>1. Head(queue) \in Task /\ queue' \in Seq(Task)
      BY <1>1, HeadTailProperties DEF Take, TypeOK
    <2>2. Head(queue).id \in Deliveries /\ Head(queue) # NoTask
      BY <2>1, TaskFields
    <2>3. CASE Head(queue).id \in Urlless
      <3>1. discarded' \in SUBSET Deliveries
        BY <1>1, <2>2, <2>3 DEF Take, TypeOK
      <3>2. QED
        BY <1>1, <2>1, <2>3, <3>1 DEF Take, TypeOK, retryVars
    <2>4. CASE Head(queue).id \notin Urlless
      <3>1. /\ hand' = [hand EXCEPT ![w] = Head(queue)]
            /\ stage' = [stage EXCEPT ![w] = "taken"]
        BY <1>1, <2>4 DEF Take
      <3>2. /\ hand' \in [Workers -> Task \union {NoTask}]
            /\ stage' \in [Workers -> Stages]
            /\ \A v \in Workers : hand'[v] = NoTask <=> stage'[v] = "idle"
        BY <2>1, <2>2, <3>1 DEF TypeOK, Stages
      <3>3. QED
        BY <1>1, <2>1, <2>4, <3>2 DEF Take, TypeOK, retryVars
    <2>5. QED BY <2>3, <2>4
  <1>2. ASSUME Post(w) PROVE TypeOK'
    <2>1. hand[w] \in Task /\ hand[w].id \in Deliveries
      BY <1>2, HandIsTask, TaskFields DEF Post
    <2>2. posts[hand[w].id] \in Nat /\ logged[hand[w].id] \in Nat
      BY <2>1 DEF TypeOK
    <2>3. posts' \in [Deliveries -> Nat]
      <3>1. posts[hand[w].id] + 1 \in Nat
        BY <2>2
      <3>2. QED BY <1>2, <2>1, <3>1 DEF Post, TypeOK
    <2>4. logged' \in [Deliveries -> Nat]
      <3>1. logged[hand[w].id] + 1 \in Nat
        BY <2>2
      <3>2. QED BY <1>2, <2>1, <3>1 DEF Post, LogAttempt, TypeOK
    <2>5. acked' \in SUBSET Deliveries
      BY <1>2, <2>1 DEF Post, TypeOK
    <2>6. /\ hand' \in [Workers -> Task \union {NoTask}]
          /\ stage' \in [Workers -> Stages]
          /\ \A v \in Workers : hand'[v] = NoTask <=> stage'[v] = "idle"
      <3>1. CASE Release(w)
        BY <3>1, TypeRelease
      <3>2. CASE stage' = [stage EXCEPT ![w] = "settling"] /\ hand' = hand
        BY <1>2, <3>2 DEF Post, TypeOK, Stages
      <3>3. QED BY <1>2, <3>1, <3>2 DEF Post
    <2>7. QED
      BY <1>2, <2>3, <2>4, <2>5, <2>6 DEF Post, TypeOK, retryVars
  <1>3. ASSUME Settle(w) PROVE TypeOK'
    <2>1. hand[w] \in Task /\ hand[w].id \in Deliveries
      BY <1>3, HandIsTask, TaskFields DEF Settle
    <2>2. retry' \in SUBSET Task /\ dead' \in SUBSET Deliveries
      BY <1>3, <2>1, NextTask DEF Settle, TypeOK
    <2>3. QED
      BY <1>3, <2>2, TypeRelease DEF Settle, TypeOK, historyVars
  <1>4. QED BY <1>1, <1>2, <1>3 DEF Dispatch

LEMMA TypeRetries ==
  ASSUME TypeOK, NEW w \in Workers, ProcessRetries(w)
  PROVE  TypeOK'
  <1>1. ASSUME Scan(w) PROVE TypeOK'
    <2>1. batch' \in [Workers -> SUBSET Task]
      BY <1>1 DEF Scan, TypeOK
    <2>2. QED BY <1>1, <2>1 DEF Scan, TypeOK, historyVars
  <1>2. ASSUME Remove(w) PROVE TypeOK'
    <2>1. PICK t \in batch[w] :
            /\ batch' = [batch EXCEPT ![w] = @ \ {t}]
            /\ retry' = retry \ {t}
            /\ moving' = IF t \in retry THEN [moving EXCEPT ![w] = t] ELSE moving
      BY <1>2 DEF Remove
    <2>2. batch' \in [Workers -> SUBSET Task] /\ retry' \in SUBSET Task
      BY <2>1 DEF TypeOK
    <2>3. moving' \in [Workers -> Task \union {NoTask}]
      BY <2>1 DEF TypeOK
    <2>4. QED BY <1>2, <2>2, <2>3 DEF Remove, TypeOK, historyVars
  <1>3. ASSUME Requeue(w) PROVE TypeOK'
    <2>1. queue' \in Seq(Task)
      BY <1>3, HandIsTask, TypeQueue DEF Requeue
    <2>2. moving' \in [Workers -> Task \union {NoTask}]
      BY <1>3 DEF Requeue, TypeOK
    <2>3. QED BY <1>3, <2>1, <2>2 DEF Requeue, TypeOK, historyVars
  <1>4. QED BY <1>1, <1>2, <1>3 DEF ProcessRetries

LEMMA TypeDisturb ==
  ASSUME TypeOK, NEW w \in Workers, Disturb(w)
  PROVE  TypeOK'
  <1>1. Held(hand[w]) \in SUBSET Deliveries /\ Held(moving[w]) \in SUBSET Deliveries
    <2>1. hand[w] \in Task \union {NoTask} /\ moving[w] \in Task \union {NoTask}
      BY DEF TypeOK
    <2>2. QED BY <2>1, TaskFields DEF Held
  <1>2. lost' \in SUBSET Deliveries /\ faults' \in Nat
    BY <1>1 DEF Disturb, TaskFails, RetryFails, Stop, Fault, TypeOK
  <1>3. ASSUME NEW b, b = [batch EXCEPT ![w] = {}] PROVE b \in [Workers -> SUBSET Task]
    BY <1>3 DEF TypeOK
  <1>4. ASSUME NEW m, m = [moving EXCEPT ![w] = NoTask] PROVE m \in [Workers -> Task \union {NoTask}]
    BY <1>4 DEF TypeOK
  <1>5. CASE TaskFails(w)
    BY <1>2, <1>5, TypeRelease DEF TaskFails, TypeOK, retryVars
  <1>6. CASE RetryFails(w)
    BY <1>2, <1>3, <1>4, <1>6 DEF RetryFails, TypeOK
  <1>7. CASE Stop(w)
    BY <1>2, <1>3, <1>4, <1>7, TypeRelease DEF Stop, TypeOK
  <1>8. QED BY <1>5, <1>6, <1>7 DEF Disturb

LEMMA TypeNext == TypeOK /\ [Next]_vars => TypeOK'
  <1> SUFFICES ASSUME TypeOK, [Next]_vars PROVE TypeOK'
    OBVIOUS
  <1>1. ASSUME NEW d \in Deliveries, Enqueue(d) PROVE TypeOK'
    <2>1. queue' \in Seq(Task)
      BY <1>1, FirstTask, TypeQueue DEF Enqueue
    <2>2. QED BY <1>1, <2>1 DEF Enqueue, TypeOK, retryVars
  <1>2. CASE UNCHANGED vars
    BY <1>2 DEF vars, retryVars, historyVars, TypeOK
  <1>3. QED BY <1>1, <1>2, TypeDispatch, TypeRetries, TypeDisturb DEF Next

(* Every reachable state has the types of TypeOK; in particular no task is *)
(* ever numbered beyond MAX_ATTEMPTS.                                      *)
THEOREM WebhookTypeCorrect == Spec => []TypeOK
  BY TypeInit, TypeNext, PTL DEF Spec

(***************************************************************************)
(* Where a delivery is: what each kind of change does to the four places.  *)
(***************************************************************************)
LEMMA QueueDomain ==
  ASSUME TypeOK
  PROVE  DOMAIN queue = 1..Len(queue) /\ Len(queue) \in Nat
  BY LenProperties DEF TypeOK

LEMMA QueueSame == \A d : UNCHANGED queue => InQueue(d)' = InQueue(d)
  BY DEF InQueue

LEMMA QueueAppend ==
  ASSUME TypeOK, NEW t \in Task, queue' = Append(queue, t), NEW d \in Deliveries
  PROVE  /\ InQueue(d)' # {} <=> InQueue(d) # {} \/ d = t.id
         /\ Single(InQueue(d)) /\ (d = t.id => InQueue(d) = {}) => Single(InQueue(d)')
  <1>1. PICK last \in Nat : last = Len(queue) + 1
    BY QueueDomain
  <1>2. /\ DOMAIN queue' = 1..last
        /\ \A i \in DOMAIN queue : queue'[i] = queue[i]
        /\ queue'[last] = t
        /\ DOMAIN queue = 1..(last - 1)
        /\ last \in 1..last
    BY <1>1, AppendProperties, QueueDomain DEF TypeOK
  <1>3. \A i \in DOMAIN queue' : i = last \/ i \in DOMAIN queue
    BY <1>2
  <1>4. InQueue(d)' = InQueue(d) \union (IF d = t.id THEN {last} ELSE {})
    BY <1>2, <1>3 DEF InQueue
  <1>5. QED BY <1>4 DEF Single

LEMMA QueueTail ==
  ASSUME TypeOK, NoDuplicate, queue # <<>>, queue' = Tail(queue), NEW h, h = Head(queue).id
  PROVE  /\ Head(queue) \in Task /\ h \in Deliveries
         /\ InQueue(h) # {} /\ InQueue(h)' = {}
         /\ \A d \in Deliveries : Single(InQueue(d)')
         /\ \A d \in Deliveries : d # h => (InQueue(d)' = {} <=> InQueue(d) = {})
  <1>1. /\ Head(queue) \in Task /\ Head(queue) = queue[1]
        /\ DOMAIN queue' = 1..(Len(queue) - 1)
        /\ \A i \in DOMAIN queue' : queue'[i] = queue[i + 1]
        /\ Len(queue) \in Nat /\ Len(queue) > 0 /\ DOMAIN queue = 1..Len(queue)
    BY HeadTailProperties, EmptySeq, QueueDomain DEF TypeOK
  <1>2. \A i \in DOMAIN queue' : i \in Nat /\ i + 1 \in DOMAIN queue /\ i + 1 # 1
    BY <1>1
  <1>3. \A d : \A i \in InQueue(d)' : i \in Nat /\ i + 1 \in InQueue(d) /\ i + 1 # 1
    BY <1>1, <1>2 DEF InQueue
  <1>4. \A d : \A i \in InQueue(d) : i = 1 \/ i - 1 \in InQueue(d)'
    <2> SUFFICES ASSUME NEW d, NEW i \in InQueue(d), i # 1 PROVE i - 1 \in InQueue(d)'
      OBVIOUS
    <2>1. i \in 2..Len(queue) /\ queue[i].id = d
      BY <1>1 DEF InQueue
    <2>2. i - 1 \in DOMAIN queue' /\ (i - 1) + 1 = i
      BY <1>1, <2>1
    <2>3. queue'[i - 1] = queue[i]
      BY <1>1, <2>2
    <2>4. QED BY <2>1, <2>2, <2>3 DEF InQueue
  <1>5. 1 \in InQueue(h) /\ h \in Deliveries
    BY <1>1, TaskFields DEF InQueue
  <1>6. \A d \in Deliveries : Single(InQueue(d))
    BY DEF NoDuplicate
  <1>7. InQueue(h)' = {}
    BY <1>3, <1>5, <1>6 DEF Single
  <1>8. \A d \in Deliveries : Single(InQueue(d)')
    BY <1>3, <1>6 DEF Single
  <1>9. \A d \in Deliveries : d # h => 1 \notin InQueue(d)
    BY <1>1 DEF InQueue
  <1>10. \A d \in Deliveries : d # h => (InQueue(d)' = {} <=> InQueue(d) = {})
    BY <1>3, <1>4, <1>9
  <1>11. QED BY <1>1, <1>5, <1>7, <1>8, <1>10

LEMMA HandReleased ==
  ASSUME TypeOK, NEW w \in Workers, Release(w)
  PROVE  \A d : InHand(d)' = InHand(d) \ {w}
  BY DEF Release, InHand, TypeOK

LEMMA MoveCleared ==
  ASSUME TypeOK, NEW w \in Workers, moving' = [moving EXCEPT ![w] = NoTask]
  PROVE  \A d : InMove(d)' = InMove(d) \ {w}
  BY DEF InMove, TypeOK

LEMMA HeldBy ==
  ASSUME TypeOK, NEW w \in Workers
  PROVE  /\ \A d : d \in Held(hand[w]) <=> w \in InHand(d)
         /\ \A d : d \in Held(moving[w]) <=> w \in InMove(d)
  BY DEF Held, InHand, InMove, TypeOK

(***************************************************************************)
(* The accounting of deliveries.  OneAt(d) is NoDuplicate and NoneForgotten*)
(* for one delivery; an action changes it for the delivery of one task.    *)
(***************************************************************************)
OneAt(d) ==
  /\ Single(InQueue(d)) /\ Single(InRetry(d)) /\ Single(InHand(d)) /\ Single(InMove(d))
  /\ InQueue(d) # {} => InRetry(d) = {} /\ InHand(d) = {} /\ InMove(d) = {}
  /\ InRetry(d) # {} => InHand(d) = {} /\ InMove(d) = {}
  /\ InHand(d) # {} => InMove(d) = {}
  /\ d \in requested \ Settled
       <=> InQueue(d) # {} \/ InRetry(d) # {} \/ InHand(d) # {} \/ InMove(d) # {}
Accounted == \A d \in Deliveries : OneAt(d)

SettledAreRequested == Settled \subseteq requested

LEMMA AccountedIsBoth == Accounted <=> NoDuplicate /\ NoneForgotten
  BY DEF Accounted, OneAt, NoDuplicate, NoneForgotten

LEMMA AccountSame ==
  ASSUME Accounted, UNCHANGED <<queue, retry, hand, stage, moving>>,
         UNCHANGED <<requested, acked, discarded, lost, dead>>
  PROVE  Accounted'
  <1>1. \A d : /\ InQueue(d)' = InQueue(d) /\ InRetry(d)' = InRetry(d)
               /\ InHand(d)' = InHand(d) /\ InMove(d)' = InMove(d)
    BY DEF InQueue, InRetry, InHand, InMove
  <1>2. Settled' = Settled /\ requested' = requested
    BY DEF Settled
  <1>3. QED BY <1>1, <1>2 DEF Accounted, OneAt

LEMMA AccountTake ==
  ASSUME TypeOK, Accounted, NEW w \in Workers, Take(w)
  PROVE  Accounted'
  <1>1. PICK h : h = Head(queue).id
    OBVIOUS
  <1>2. /\ Head(queue) \in Task /\ h \in Deliveries /\ InQueue(h) # {} /\ InQueue(h)' = {}
        /\ \A d \in Deliveries : Single(InQueue(d)')
        /\ \A d \in Deliveries : d # h => (InQueue(d)' = {} <=> InQueue(d) = {})
    BY <1>1, QueueTail, AccountedIsBoth DEF Take
  <1>3. \A d : InRetry(d)' = InRetry(d) /\ InMove(d)' = InMove(d)
    BY DEF Take, retryVars, InRetry, InMove
  <1>4. CASE h \in Urlless
    <2>1. /\ discarded' = discarded \union {h}
          /\ \A d : InHand(d)' = InHand(d)
          /\ UNCHANGED <<requested, acked, lost, dead>>
      BY <1>1, <1>4 DEF Take, InHand
    <2>2. ASSUME NEW d \in Deliveries PROVE OneAt(d)'
      <3>1. OneAt(d)
        BY DEF Accounted
      <3>2. CASE d = h
        BY <1>2, <1>3, <2>1, <3>1, <3>2 DEF OneAt, Settled
      <3>3. CASE d # h
        BY <1>2, <1>3, <2>1, <3>1, <3>3 DEF OneAt, Settled
      <3>4. QED BY <3>2, <3>3
    <2>3. QED BY <2>2 DEF Accounted
  <1>5. CASE h \notin Urlless
    <2>1. /\ hand' = [hand EXCEPT ![w] = Head(queue)]
          /\ stage' = [stage EXCEPT ![w] = "taken"]
          /\ stage[w] = "idle"
          /\ UNCHANGED <<requested, acked, lost, dead, discarded>>
      BY <1>1, <1>5 DEF Take
    <2>2. \A d : InHand(d)' = InHand(d) \union (IF d = h THEN {w} ELSE {})
      BY <1>1, <2>1 DEF TypeOK, InHand
    <2>3. ASSUME NEW d \in Deliveries PROVE OneAt(d)'
      <3>1. OneAt(d)
        BY DEF Accounted
      <3>2. CASE d = h
        BY <1>2, <1>3, <2>1, <2>2, <3>1, <3>2 DEF OneAt, Settled, Single
      <3>3. CASE d # h
        BY <1>2, <1>3, <2>1, <2>2, <3>1, <3>3 DEF OneAt, Settled
      <3>4. QED BY <3>2, <3>3
    <2>4. QED BY <2>3 DEF Accounted
  <1>6. QED BY <1>4, <1>5

LEMMA AccountPost ==
  ASSUME TypeOK, Accounted, NEW w \in Workers, Post(w)
  PROVE  Accounted'
  <1>1. PICK h \in Deliveries : h = hand[w].id /\ w \in InHand(h)
    BY HandIsTask, TaskFields DEF Post, InHand
  <1>2. /\ \A d : InQueue(d)' = InQueue(d) /\ InRetry(d)' = InRetry(d) /\ InMove(d)' = InMove(d)
        /\ UNCHANGED <<requested, lost, dead, discarded>>
    BY DEF Post, retryVars, InQueue, InRetry, InMove
  <1>3. CASE acked' = acked \union {h} /\ Release(w)
    <2>1. \A d : InHand(d)' = InHand(d) \ {w}
      BY <1>3, HandReleased
    <2>2. \A d : w \in InHand(d) => d = h
      BY <1>1 DEF InHand
    <2>3. ASSUME NEW d \in Deliveries PROVE OneAt(d)'
      <3>1. OneAt(d)
        BY DEF Accounted
      <3>2. CASE d = h
        BY <1>1, <1>2, <1>3, <2>1, <3>1, <3>2 DEF OneAt, Settled, Single
      <3>3. CASE d # h
        BY <1>2, <1>3, <2>1, <2>2, <3>1, <3>3 DEF OneAt, Settled, Single
      <3>4. QED BY <3>2, <3>3
    <2>4. QED BY <2>3 DEF Accounted
  <1>4. CASE stage' = [stage EXCEPT ![w] = "settling"] /\ UNCHANGED <<acked, hand>>
    <2>1. \A d : InHand(d)' = InHand(d)
      BY <1>4 DEF Post, TypeOK, InHand
    <2>2. QED BY <1>2, <1>4, <2>1 DEF Accounted, OneAt, Settled
  <1>5. QED BY <1>1, <1>3, <1>4 DEF Post

LEMMA AccountSettle ==
  ASSUME TypeOK, Accounted, NEW w \in Workers, Settle(w)
  PROVE  Accounted'
  <1>1. PICK h \in Deliveries : h = hand[w].id /\ w \in InHand(h) /\ hand[w] \in Task
    BY HandIsTask, TaskFields DEF Settle, InHand
  <1>2. /\ \A d : InQueue(d)' = InQueue(d) /\ InMove(d)' = InMove(d)
        /\ UNCHANGED <<requested, lost, acked, discarded>>
    BY DEF Settle, historyVars, InQueue, InMove
  <1>3. \A d : InHand(d)' = InHand(d) \ {w}
    BY HandReleased DEF Settle
  <1>4. \A d : w \in InHand(d) => d = h
    BY <1>1 DEF InHand
  <1>5. CASE hand[w].attempt < MaxAttempts
    <2>1. PICK t : t.id = h /\ retry' = retry \union {t} /\ dead' = dead
      BY <1>1, <1>5, NextTask DEF Settle
    <2>2. \A d : InRetry(d)' = InRetry(d) \union (IF d = h THEN {t} ELSE {})
      BY <2>1 DEF InRetry
    <2>3. ASSUME NEW d \in Deliveries PROVE OneAt(d)'
      <3>1. OneAt(d)
        BY DEF Accounted
      <3>2. CASE d = h
        BY <1>1, <1>2, <1>3, <2>1, <2>2, <3>1, <3>2 DEF OneAt, Settled, Single
      <3>3. CASE d # h
        BY <1>2, <1>3, <1>4, <2>1, <2>2, <3>1, <3>3 DEF OneAt, Settled, Single
      <3>4. QED BY <3>2, <3>3
    <2>4. QED BY <2>3 DEF Accounted
  <1>6. CASE ~(hand[w].attempt < MaxAttempts)
    <2>1. dead' = dead \union {h} /\ retry' = retry
      BY <1>1, <1>6 DEF Settle
    <2>2. \A d : InRetry(d)' = InRetry(d)
      BY <2>1 DEF InRetry
    <2>3. ASSUME NEW d \in Deliveries PROVE OneAt(d)'
      <3>1. OneAt(d)
        BY DEF Accounted
      <3>2. CASE d = h
        BY <1>1, <1>2, <1>3, <2>1, <2>2, <3>1, <3>2 DEF OneAt, Settled, Single
      <3>3. CASE d # h
        BY <1>2, <1>3, <1>4, <2>1, <2>2, <3>1, <3>3 DEF OneAt, Settled, Single
      <3>4. QED BY <3>2, <3>3
    <2>4. QED BY <2>3 DEF Accounted
  <1>7. QED BY <1>5, <1>6

LEMMA AccountScan ==
  ASSUME TypeOK, Accounted, NEW w \in Workers, Scan(w)
  PROVE  Accounted'
  BY AccountSame DEF Scan, historyVars

LEMMA AccountRemove ==
  ASSUME TypeOK, Accounted, NEW w \in Workers, Remove(w)
  PROVE  Accounted'
  <1>1. PICK t \in batch[w] :
          /\ retry' = retry \ {t}
          /\ moving' = IF t \in retry THEN [moving EXCEPT ![w] = t] ELSE moving
          /\ moving[w] = NoTask
    BY DEF Remove
  <1>2. /\ \A d : InQueue(d)' = InQueue(d) /\ InHand(d)' = InHand(d)
        /\ UNCHANGED <<requested, lost, acked, discarded, dead>>
    BY DEF Remove, historyVars, InQueue, InHand
  <1>3. CASE t \in retry
    <2>1. PICK h \in Deliveries : h = t.id /\ t # NoTask
      BY <1>3, TaskFields DEF TypeOK
    <2>2. \A d : InRetry(d)' = InRetry(d) \ {t}
      BY <1>1 DEF InRetry
    <2>3. \A d : t \in InRetry(d) <=> d = h
      BY <1>3, <2>1 DEF InRetry
    <2>4. \A d : InMove(d)' = InMove(d) \union (IF d = h THEN {w} ELSE {})
      BY <1>1, <1>3, <2>1 DEF InMove, TypeOK
    <2>5. ASSUME NEW d \in Deliveries PROVE OneAt(d)'
      <3>1. OneAt(d)
        BY DEF Accounted
      <3>2. CASE d = h
        BY <1>2, <2>2, <2>3, <2>4, <3>1, <3>2 DEF OneAt, Settled, Single
      <3>3. CASE d # h
        BY <1>2, <2>2, <2>3, <2>4, <3>1, <3>3 DEF OneAt, Settled, Single
      <3>4. QED BY <3>2, <3>3
    <2>6. QED BY <2>5 DEF Accounted
  <1>4. CASE t \notin retry
    <2>1. retry' = retry /\ moving' = moving
      BY <1>1, <1>4
    <2>2. QED BY <2>1, AccountSame DEF Remove, historyVars
  <1>5. QED BY <1>3, <1>4

LEMMA AccountRequeue ==
  ASSUME TypeOK, Accounted, NEW w \in Workers, Requeue(w)
  PROVE  Accounted'
  <1>1. /\ moving[w] \in Task /\ queue' = Append(queue, moving[w])
        /\ moving' = [moving EXCEPT ![w] = NoTask]
    BY HandIsTask DEF Requeue
  <1>2. PICK h \in Deliveries : h = moving[w].id /\ w \in InMove(h)
    BY <1>1, TaskFields DEF Requeue, InMove
  <1>3. /\ \A d : InRetry(d)' = InRetry(d) /\ InHand(d)' = InHand(d)
        /\ UNCHANGED <<requested, lost, acked, discarded, dead>>
    BY DEF Requeue, historyVars, InRetry, InHand
  <1>4. \A d : InMove(d)' = InMove(d) \ {w}
    BY <1>1, MoveCleared
  <1>5. \A d : w \in InMove(d) => d = h
    BY <1>2 DEF InMove
  <1>6. ASSUME NEW d \in Deliveries PROVE OneAt(d)'
    <2>1. OneAt(d)
      BY DEF Accounted
    <2>2. /\ InQueue(d)' # {} <=> InQueue(d) # {} \/ d = h
          /\ Single(InQueue(d)) /\ (d = h => InQueue(d) = {}) => Single(InQueue(d)')
      BY <1>1, <1>2, QueueAppend
    <2>3. CASE d = h
      BY <1>2, <1>3, <1>4, <2>1, <2>2, <2>3 DEF OneAt, Settled, Single
    <2>4. CASE d # h
      BY <1>3, <1>4, <1>5, <2>1, <2>2, <2>4 DEF OneAt, Settled, Single
    <2>5. QED BY <2>3, <2>4
  <1>7. QED BY <1>6 DEF Accounted

LEMMA AccountEnqueue ==
  ASSUME TypeOK, Accounted, SettledAreRequested, NEW e \in Deliveries, Enqueue(e)
  PROVE  Accounted'
  <1>1. /\ \A d : /\ InRetry(d)' = InRetry(d) /\ InHand(d)' = InHand(d)
                  /\ InMove(d)' = InMove(d)
        /\ requested' = requested \union {e} /\ e \notin requested
        /\ UNCHANGED <<lost, acked, discarded, dead>>
    BY DEF Enqueue, retryVars, InRetry, InHand, InMove
  <1>2. PICK t \in Task : t.id = e /\ queue' = Append(queue, t)
    BY FirstTask DEF Enqueue
  <1>3. ASSUME NEW d \in Deliveries PROVE OneAt(d)'
    <2>1. OneAt(d)
      BY DEF Accounted
    <2>2. /\ InQueue(d)' # {} <=> InQueue(d) # {} \/ d = e
          /\ Single(InQueue(d)) /\ (d = e => InQueue(d) = {}) => Single(InQueue(d)')
      BY <1>2, QueueAppend
    <2>3. CASE d = e
      <3>1. e \notin Settled
        BY <1>1 DEF SettledAreRequested
      <3>2. QED BY <1>1, <2>1, <2>2, <2>3, <3>1 DEF OneAt, Settled
    <2>4. CASE d # e
      BY <1>1, <2>1, <2>2, <2>4 DEF OneAt, Settled
    <2>5. QED BY <2>3, <2>4
  <1>4. QED BY <1>3 DEF Accounted

(* A fault moves what the failing coroutines hold to the lost deliveries.  *)
LEMMA AccountDisturb ==
  ASSUME TypeOK, Accounted, NEW w \in Workers, Disturb(w)
  PROVE  Accounted'
  <1>1. /\ \A d : InQueue(d)' = InQueue(d) /\ InRetry(d)' = InRetry(d)
        /\ UNCHANGED <<requested, acked, discarded, dead>>
    BY DEF Disturb, TaskFails, RetryFails, Stop, retryVars, InQueue, InRetry
  <1>2. CASE TaskFails(w)
    <2>1. \A d : InHand(d)' = InHand(d) \ {w} /\ InMove(d)' = InMove(d)
      BY <1>2, HandReleased DEF TaskFails, retryVars, InMove
    <2>2. \A d : d \in lost' <=> d \in lost \/ w \in InHand(d)
      BY <1>2, HeldBy DEF TaskFails
    <2>3. QED BY <1>1, <2>1, <2>2 DEF Accounted, OneAt, Settled, Single
  <1>3. CASE RetryFails(w)
    <2>1. \A d : InMove(d)' = InMove(d) \ {w} /\ InHand(d)' = InHand(d)
      BY <1>3, MoveCleared DEF RetryFails, InHand
    <2>2. \A d : d \in lost' <=> d \in lost \/ w \in InMove(d)
      BY <1>3, HeldBy DEF RetryFails
    <2>3. QED BY <1>1, <2>1, <2>2 DEF Accounted, OneAt, Settled, Single
  <1>4. CASE Stop(w)
    <2>1. \A d : InMove(d)' = InMove(d) \ {w} /\ InHand(d)' = InHand(d) \ {w}
      BY <1>4, MoveCleared, HandReleased DEF Stop
    <2>2. \A d : d \in lost' <=> d \in lost \/ w \in InHand(d) \/ w \in InMove(d)
      BY <1>4, HeldBy DEF Stop
    <2>3. QED BY <1>1, <2>1, <2>2 DEF Accounted, OneAt, Settled, Single
  <1>5. QED BY <1>2, <1>3, <1>4 DEF Disturb

(* What is settled had been asked for: an action settles what it holds.    *)
LEMMA RequestedNext ==
  ASSUME TypeOK, Accounted, SettledAreRequested, Next
  PROVE  SettledAreRequested'
  <1>1. /\ \A d \in Deliveries :
             InQueue(d) # {} \/ InHand(d) # {} \/ InMove(d) # {} => d \in requested
        /\ requested \subseteq requested'
    <2>1. \A d \in Deliveries :
            InQueue(d) # {} \/ InHand(d) # {} \/ InMove(d) # {} => d \in requested
      BY DEF Accounted, OneAt
    <2>2. requested \subseteq requested'
      BY DEF Next, Enqueue, Dispatch, Take, Post, Settle, ProcessRetries, Scan, Remove, Requeue,
             Disturb, TaskFails, RetryFails, Stop, historyVars
    <2>3. QED BY <2>1, <2>2
  <1>2. ASSUME NEW w \in Workers, Dispatch(w) PROVE SettledAreRequested'
    <2>1. ASSUME Take(w) PROVE SettledAreRequested'
      <3>1. Head(queue).id \in requested
        BY <1>1, <2>1, QueueTail, AccountedIsBoth DEF Take
      <3>2. QED BY <1>1, <2>1, <3>1 DEF Take, SettledAreRequested, Settled
    <2>2. ASSUME Post(w) \/ Settle(w) PROVE SettledAreRequested'
      <3>1. hand[w].id \in requested
        <4>1. w \in InHand(hand[w].id) /\ hand[w].id \in Deliveries
          BY <2>2, HandIsTask, TaskFields DEF Post, Settle, InHand
        <4>2. QED BY <1>1, <4>1
      <3>2. QED BY <1>1, <2>2, <3>1 DEF Post, Settle, historyVars, SettledAreRequested, Settled
    <2>3. QED BY <1>2, <2>1, <2>2 DEF Dispatch
  <1>3. ASSUME NEW w \in Workers, Disturb(w) PROVE SettledAreRequested'
    <2>1. Held(hand[w]) \subseteq Deliveries /\ Held(moving[w]) \subseteq Deliveries
      BY HandIsTask, TaskFields DEF Held, TypeOK
    <2>2. Held(hand[w]) \union Held(moving[w]) \subseteq requested
      BY <1>1, <2>1, HeldBy
    <2>3. QED BY <1>1, <1>3, <2>2 DEF Disturb, TaskFails, RetryFails, Stop, SettledAreRequested, Settled
  <1>4. ASSUME NEW w \in Workers, ProcessRetries(w) PROVE SettledAreRequested'
    BY <1>4 DEF ProcessRetries, Scan, Remove, Requeue, historyVars, SettledAreRequested, Settled
  <1>5. ASSUME NEW d \in Deliveries, Enqueue(d) PROVE SettledAreRequested'
    BY <1>5 DEF Enqueue, SettledAreRequested, Settled
  <1>6. QED BY <1>2, <1>3, <1>4, <1>5 DEF Next

Inv == Accounted /\ SettledAreRequested

LEMMA InvInit == Init => Inv
  BY DEF Init, Inv, Accounted, OneAt, SettledAreRequested, Settled, InQueue, InRetry, InHand,
         InMove, Single

LEMMA InvNext == TypeOK /\ Inv /\ [Next]_vars => Inv'
  <1> SUFFICES ASSUME TypeOK, Inv, [Next]_vars PROVE Inv'
    OBVIOUS
  <1>1. Accounted /\ SettledAreRequested
    BY DEF Inv
  <1>2. CASE UNCHANGED vars
    <2>1. Accounted'
      BY <1>1, <1>2, AccountSame DEF vars, retryVars, historyVars
    <2>2. SettledAreRequested'
      BY <1>1, <1>2 DEF vars, retryVars, historyVars, SettledAreRequested, Settled
    <2>3. QED BY <2>1, <2>2 DEF Inv
  <1>3. CASE Next
    <2>1. Accounted'
      BY <1>1, <1>3, AccountEnqueue, AccountTake, AccountPost, AccountSettle, AccountScan,
         AccountRemove, AccountRequeue, AccountDisturb DEF Next, Dispatch, ProcessRetries
    <2>2. QED BY <1>1, <1>3, <2>1, RequestedNext DEF Inv
  <1>4. QED BY <1>2, <1>3

LEMMA InvHolds == Spec => []Inv
  BY InvInit, InvNext, WebhookTypeCorrect, PTL DEF Spec

(* However many workers share the queues, no delivery is ever in two       *)
(* places.                                                                 *)
THEOREM NeverDuplicated == Spec => []NoDuplicate
  <1>1. Inv => NoDuplicate
    BY AccountedIsBoth DEF Inv
  <1>2. QED BY <1>1, InvHolds, PTL

(* What is not settled is in exactly the places that keep it.              *)
THEOREM NeverForgotten == Spec => []NoneForgotten
  <1>1. Inv => NoneForgotten
    BY AccountedIsBoth DEF Inv
  <1>2. QED BY <1>1, InvHolds, PTL

(***************************************************************************)
(* Attempts and posts.                                                     *)
(***************************************************************************)
CountedQueue == \A i \in DOMAIN queue : queue[i].attempt = posts[queue[i].id] + 1
CountedRetry == \A t \in retry : t.attempt = posts[t.id] + 1
CountedMove ==
  \A w \in Workers : moving[w] # NoTask => moving[w].attempt = posts[moving[w].id] + 1
CountedHand ==
  /\ \A w \in Workers : stage[w] = "taken" => hand[w].attempt = posts[hand[w].id] + 1
  /\ \A w \in Workers : stage[w] = "settling" => hand[w].attempt = posts[hand[w].id]
PostsBounded == \A d \in Deliveries : posts[d] <= MaxAttempts
FreshUnposted == \A d \in Deliveries : d \notin requested => posts[d] = 0
Counted == AttemptCountsPosts /\ FreshUnposted

LEMMA CountedParts ==
  AttemptCountsPosts <=> CountedQueue /\ CountedRetry /\ CountedMove /\ CountedHand /\ PostsBounded
  BY DEF AttemptCountsPosts, CountedQueue, CountedRetry, CountedMove, CountedHand, PostsBounded

LEMMA CountsCombined ==
  ASSUME CountedQueue', CountedRetry', CountedMove', CountedHand', PostsBounded', FreshUnposted'
  PROVE  Counted'
  BY DEF Counted, AttemptCountsPosts, CountedQueue, CountedRetry, CountedMove, CountedHand,
         PostsBounded

LEMMA HandReleasedCounted ==
  ASSUME TypeOK, CountedHand, NEW w \in Workers, Release(w), posts' = posts
  PROVE  CountedHand'
  BY DEF CountedHand, Release, TypeOK

LEMMA MoveClearedCounted ==
  ASSUME TypeOK, CountedMove, NEW w \in Workers, moving' = [moving EXCEPT ![w] = NoTask],
         posts' = posts
  PROVE  CountedMove'
  BY DEF CountedMove, TypeOK

LEMMA CountAppend ==
  ASSUME TypeOK, CountedQueue, posts' = posts, NEW t \in Task, t.attempt = posts[t.id] + 1,
         queue' = Append(queue, t)
  PROVE  CountedQueue'
  <1>1. PICK last \in Nat : last = Len(queue) + 1
    BY QueueDomain
  <1>2. /\ DOMAIN queue' = 1..last
        /\ \A i \in DOMAIN queue : queue'[i] = queue[i]
        /\ queue'[last] = t
        /\ DOMAIN queue = 1..(last - 1)
    BY <1>1, AppendProperties, QueueDomain DEF TypeOK
  <1>3. \A i \in DOMAIN queue' : i = last \/ i \in DOMAIN queue
    BY <1>2
  <1>4. QED BY <1>2, <1>3 DEF CountedQueue

LEMMA CountTail ==
  ASSUME TypeOK, CountedQueue, posts' = posts, queue # <<>>, queue' = Tail(queue)
  PROVE  CountedQueue' /\ Head(queue).attempt = posts[Head(queue).id] + 1
  <1>1. /\ Head(queue) = queue[1]
        /\ DOMAIN queue' = 1..(Len(queue) - 1)
        /\ \A i \in DOMAIN queue' : queue'[i] = queue[i + 1]
        /\ Len(queue) \in Nat /\ Len(queue) > 0 /\ DOMAIN queue = 1..Len(queue)
    BY HeadTailProperties, EmptySeq, QueueDomain DEF TypeOK
  <1>2. \A i \in DOMAIN queue' : i + 1 \in DOMAIN queue
    BY <1>1
  <1>3. 1 \in DOMAIN queue
    BY <1>1
  <1>4. QED BY <1>1, <1>2, <1>3 DEF CountedQueue

(* Only the POST of a task counts, and no other place holds its delivery.  *)
LEMMA CountPost ==
  ASSUME TypeOK, Accounted, Counted, NEW w \in Workers, Post(w)
  PROVE  Counted'
  <1>1. PICK h \in Deliveries : h = hand[w].id /\ w \in InHand(h) /\ hand[w] \in Task
    BY HandIsTask, TaskFields DEF Post, InHand
  <1>2. hand[w].attempt = posts[h] + 1 /\ posts[h] \in Nat
    BY <1>1 DEF Post, Counted, AttemptCountsPosts, TypeOK
  <1>3. /\ \A d \in Deliveries : posts'[d] = IF d = h THEN hand[w].attempt ELSE posts[d]
        /\ UNCHANGED <<queue, retry, moving, requested>>
    BY <1>1, <1>2 DEF Post, retryVars, TypeOK
  <1>4. /\ InQueue(h) = {} /\ InRetry(h) = {} /\ InMove(h) = {}
        /\ \A v \in Workers : v \in InHand(h) => v = w
        /\ h \in requested
    BY <1>1 DEF Accounted, OneAt, Single
  <1>5. CountedQueue'
    <2> SUFFICES ASSUME NEW i \in DOMAIN queue PROVE queue[i].attempt = posts'[queue[i].id] + 1
      BY <1>3 DEF CountedQueue
    <2>1. queue[i] \in Task
      BY QueueDomain, ElementOfSeq DEF TypeOK
    <2>2. queue[i].id \in Deliveries /\ queue[i].id # h
      BY <1>4, <2>1, TaskFields DEF InQueue
    <2>3. queue[i].attempt = posts[queue[i].id] + 1
      BY DEF Counted, AttemptCountsPosts
    <2>4. QED BY <1>3, <2>2, <2>3
  <1>6. CountedRetry'
    <2> SUFFICES ASSUME NEW t \in retry PROVE t.attempt = posts'[t.id] + 1
      BY <1>3 DEF CountedRetry
    <2>1. t.id \in Deliveries /\ t.id # h
      BY <1>4, TaskFields DEF TypeOK, InRetry
    <2>2. t.attempt = posts[t.id] + 1
      BY DEF Counted, AttemptCountsPosts
    <2>3. QED BY <1>3, <2>1, <2>2
  <1>7. CountedMove'
    <2> SUFFICES ASSUME NEW v \in Workers, moving[v] # NoTask
                 PROVE  moving[v].attempt = posts'[moving[v].id] + 1
      BY <1>3 DEF CountedMove
    <2>1. moving[v].id \in Deliveries /\ moving[v].id # h
      BY <1>4, HandIsTask, TaskFields DEF InMove
    <2>2. moving[v].attempt = posts[moving[v].id] + 1
      BY DEF Counted, AttemptCountsPosts
    <2>3. QED BY <1>3, <2>1, <2>2
  <1>8. CountedHand'
    <2> SUFFICES ASSUME NEW v \in Workers
                 PROVE  /\ stage'[v] = "taken" => hand'[v].attempt = posts'[hand'[v].id] + 1
                        /\ stage'[v] = "settling" => hand'[v].attempt = posts'[hand'[v].id]
      BY DEF CountedHand
    <2>1. CASE v = w
      <3>1. stage'[w] \in {"idle", "settling"} /\ (stage'[w] = "settling" => hand' = hand)
        BY DEF Post, Release, TypeOK
      <3>2. QED BY <1>1, <1>3, <2>1, <3>1
    <2>2. CASE v # w
      <3>1. stage'[v] = stage[v] /\ hand'[v] = hand[v]
        BY <2>2 DEF Post, Release, TypeOK
      <3>2. CASE stage[v] = "idle"
        BY <3>1, <3>2
      <3>3. CASE stage[v] # "idle"
        <4>1. hand[v].id \in Deliveries /\ hand[v].id # h
          BY <1>4, <2>2, <3>3, HandIsTask, TaskFields DEF InHand
        <4>2. posts'[hand[v].id] = posts[hand[v].id]
          BY <1>3, <4>1
        <4>3. QED BY <3>1, <4>2 DEF Counted, AttemptCountsPosts
      <3>4. QED BY <3>2, <3>3
    <2>3. QED BY <2>1, <2>2
  <1>9. PostsBounded'
    <2>1. hand[w].attempt \in Nat /\ hand[w].attempt <= MaxAttempts
      BY <1>1, TaskFields, AttemptAssumption
    <2>2. QED BY <1>3, <2>1 DEF PostsBounded, Counted, AttemptCountsPosts
  <1>10. FreshUnposted'
    BY <1>3, <1>4 DEF FreshUnposted, Counted
  <1>11. QED BY <1>5, <1>6, <1>7, <1>8, <1>9, <1>10, CountedParts DEF Counted, AttemptCountsPosts,
                CountedQueue, CountedRetry, CountedMove, CountedHand, PostsBounded

LEMMA CountNext ==
  ASSUME TypeOK, Inv, Counted, [Next]_vars
  PROVE  Counted'
  <1>1. /\ CountedQueue /\ CountedRetry /\ CountedMove /\ CountedHand
        /\ PostsBounded /\ FreshUnposted
    BY CountedParts DEF Counted
  <1>2. ASSUME NEW d \in Deliveries, Enqueue(d) PROVE Counted'
    <2>1. /\ posts' = posts /\ UNCHANGED <<retry, moving, hand, stage>>
          /\ requested \subseteq requested'
      BY <1>2 DEF Enqueue, retryVars
    <2>2. PICK t \in Task : t.id = d /\ t.attempt = 1 /\ queue' = Append(queue, t)
      BY <1>2, FirstTask DEF Enqueue
    <2>3. posts[d] = 0
      BY <1>1, <1>2 DEF Enqueue, FreshUnposted
    <2>4. CountedQueue'
      BY <1>1, <2>1, <2>2, <2>3, CountAppend
    <2>5. FreshUnposted'
      BY <1>1, <2>1 DEF FreshUnposted
    <2>6. CountedRetry' /\ CountedMove' /\ CountedHand' /\ PostsBounded'
      BY <1>1, <2>1 DEF CountedRetry, CountedMove, CountedHand, PostsBounded
    <2>7. QED BY <2>4, <2>5, <2>6, CountsCombined
  <1>3. ASSUME NEW w \in Workers, Take(w) PROVE Counted'
    <2>1. posts' = posts /\ UNCHANGED <<retry, moving, requested>>
      BY <1>3 DEF Take, retryVars
    <2>2. CountedQueue' /\ Head(queue).attempt = posts[Head(queue).id] + 1
      BY <1>1, <1>3, <2>1, CountTail DEF Take
    <2>3. CountedHand'
      BY <1>1, <1>3, <2>1, <2>2 DEF Take, CountedHand, TypeOK
    <2>4. CountedRetry' /\ CountedMove' /\ PostsBounded' /\ FreshUnposted'
      BY <1>1, <2>1 DEF CountedRetry, CountedMove, PostsBounded, FreshUnposted
    <2>5. QED BY <2>2, <2>3, <2>4, CountsCombined
  <1>4. ASSUME NEW w \in Workers, Settle(w) PROVE Counted'
    <2>1. posts' = posts /\ UNCHANGED <<queue, moving, requested>>
      BY <1>4 DEF Settle, historyVars
    <2>2. CountedHand'
      BY <1>1, <1>4, <2>1, HandReleasedCounted DEF Settle
    <2>3. CountedRetry'
      <3>1. hand[w] \in Task /\ hand[w].attempt = posts[hand[w].id]
        BY <1>1, <1>4, HandIsTask DEF Settle, CountedHand
      <3>2. CASE hand[w].attempt < MaxAttempts
        <4>1. PICK t : /\ t.id = hand[w].id /\ t.attempt = hand[w].attempt + 1
                       /\ retry' = retry \union {t}
          BY <1>4, <3>1, <3>2, NextTask DEF Settle
        <4>2. QED BY <1>1, <2>1, <3>1, <4>1 DEF CountedRetry
      <3>3. CASE ~(hand[w].attempt < MaxAttempts)
        BY <1>1, <1>4, <2>1, <3>3 DEF Settle, CountedRetry
      <3>4. QED BY <3>2, <3>3
    <2>4. CountedQueue' /\ CountedMove' /\ PostsBounded' /\ FreshUnposted'
      BY <1>1, <2>1 DEF CountedQueue, CountedMove, PostsBounded, FreshUnposted
    <2>5. QED BY <2>2, <2>3, <2>4, CountsCombined
  <1>5. ASSUME NEW w \in Workers, Requeue(w) PROVE Counted'
    <2>1. posts' = posts /\ UNCHANGED <<retry, hand, stage, requested>>
      BY <1>5 DEF Requeue, historyVars
    <2>2. moving[w] \in Task /\ moving[w].attempt = posts[moving[w].id] + 1
      BY <1>1, <1>5, HandIsTask DEF Requeue, CountedMove
    <2>3. CountedQueue' /\ CountedMove'
      BY <1>1, <1>5, <2>1, <2>2, CountAppend, MoveClearedCounted DEF Requeue
    <2>4. CountedRetry' /\ CountedHand' /\ PostsBounded' /\ FreshUnposted'
      BY <1>1, <2>1 DEF CountedRetry, CountedHand, PostsBounded, FreshUnposted
    <2>5. QED BY <2>3, <2>4, CountsCombined
  <1>6. ASSUME NEW w \in Workers, Scan(w) \/ Remove(w) PROVE Counted'
    <2>1. posts' = posts /\ UNCHANGED <<queue, hand, stage, requested>> /\ retry' \subseteq retry
      BY <1>6 DEF Scan, Remove, historyVars
    <2>2. CountedMove'
      BY <1>1, <1>6, <2>1 DEF Scan, Remove, CountedMove, CountedRetry, TypeOK
    <2>3. CountedQueue' /\ CountedRetry' /\ CountedHand' /\ PostsBounded' /\ FreshUnposted'
      BY <1>1, <2>1 DEF CountedQueue, CountedRetry, CountedHand, PostsBounded, FreshUnposted
    <2>4. QED BY <2>2, <2>3, CountsCombined
  <1>7. ASSUME NEW w \in Workers, Disturb(w) PROVE Counted'
    <2>1. posts' = posts /\ UNCHANGED <<queue, retry, requested>>
      BY <1>7 DEF Disturb, TaskFails, RetryFails, Stop, retryVars
    <2>2. CountedHand'
      <3>1. CASE Release(w)
        BY <1>1, <2>1, <3>1, HandReleasedCounted
      <3>2. CASE UNCHANGED <<hand, stage>>
        BY <1>1, <2>1, <3>2 DEF CountedHand
      <3>3. QED BY <1>7, <3>1, <3>2 DEF Disturb, TaskFails, RetryFails, Stop
    <2>3. CountedMove'
      <3>1. CASE moving' = [moving EXCEPT ![w] = NoTask]
        BY <1>1, <2>1, <3>1, MoveClearedCounted
      <3>2. CASE moving' = moving
        BY <1>1, <2>1, <3>2 DEF CountedMove
      <3>3. QED BY <1>7, <3>1, <3>2 DEF Disturb, TaskFails, RetryFails, Stop, retryVars
    <2>4. CountedQueue' /\ CountedRetry' /\ PostsBounded' /\ FreshUnposted'
      BY <1>1, <2>1 DEF CountedQueue, CountedRetry, PostsBounded, FreshUnposted
    <2>5. QED BY <2>2, <2>3, <2>4, CountsCombined
  <1>8. CASE UNCHANGED vars
    <2>1. UNCHANGED <<posts, queue, retry, hand, stage, moving, requested>>
      BY <1>8 DEF vars, retryVars, historyVars
    <2>2. CountedQueue' /\ CountedRetry' /\ CountedMove'
      BY <1>1, <2>1 DEF CountedQueue, CountedRetry, CountedMove
    <2>3. CountedHand' /\ PostsBounded' /\ FreshUnposted'
      BY <1>1, <2>1 DEF CountedHand, PostsBounded, FreshUnposted
    <2>4. QED BY <2>2, <2>3, CountsCombined
  <1>9. QED
    BY <1>2, <1>3, <1>4, <1>5, <1>6, <1>7, <1>8, CountPost
       DEF Next, Dispatch, ProcessRetries, Inv

LEMMA CountInit == Init => Counted
  <1> SUFFICES ASSUME Init PROVE Counted
    OBVIOUS
  <1>1. /\ DOMAIN queue = {} /\ retry = {}
        /\ \A w \in Workers : moving[w] = NoTask /\ stage[w] = "idle"
        /\ \A d \in Deliveries : posts[d] = 0
    BY DEF Init
  <1>2. 0 <= MaxAttempts
    BY AttemptAssumption
  <1>3. QED BY <1>1, <1>2 DEF Counted, AttemptCountsPosts, FreshUnposted

LEMMA CountHolds == Spec => []Counted
  BY CountInit, CountNext, InvHolds, WebhookTypeCorrect, PTL DEF Spec

(* The attempt number a receiver sees is the number of requests it was     *)
(* sent, and never exceeds MAX_ATTEMPTS.                                   *)
THEOREM AttemptsAreCounted == Spec => []AttemptCountsPosts
  <1>1. Counted => AttemptCountsPosts
    BY DEF Counted
  <1>2. QED BY <1>1, CountHolds, PTL

(***************************************************************************)
(* The dispatcher implements WebhookDelivery: each step is one of the      *)
(* abstract steps or changes nothing that the mapping shows.               *)
(***************************************************************************)
DeliveryMap == [d \in Deliveries |-> DeliveryOf(d)]
Pending(d) == d \in requested \ Settled

LEMMA PendingIs == \A d \in Deliveries : Pending(d) <=> DeliveryOf(d) = "pending"
  BY DEF Pending, DeliveryOf, Settled

(* What an action leaves of the other deliveries.                          *)
LEMMA MapSame ==
  ASSUME UNCHANGED <<requested, acked, discarded, lost, dead>>
  PROVE  DeliveryMap' = DeliveryMap
  BY DEF DeliveryMap, DeliveryOf

LEMMA MapChanges ==
  ASSUME NEW h \in Deliveries, NEW v, DeliveryOf(h)' = v,
         \A d \in Deliveries : d # h => DeliveryOf(d)' = DeliveryOf(d)
  PROVE  DeliveryMap' = [DeliveryMap EXCEPT ![h] = v]
  BY DEF DeliveryMap

LEMMA RefineInit == Init => Delivery!DeliveryInit
  BY DEF Init, Delivery!DeliveryInit, DeliveryOf

LEMMA RefineEnqueue ==
  ASSUME TypeOK, Inv, NEW h \in Deliveries, Enqueue(h)
  PROVE  Delivery!Request(h)
  <1>1. h \notin requested /\ h \notin Settled
    BY DEF Enqueue, Inv, SettledAreRequested
  <1>2. DeliveryOf(h) = "new" /\ DeliveryOf(h)' = "pending"
    BY <1>1 DEF Enqueue, DeliveryOf, Settled
  <1>3. \A d \in Deliveries : d # h => DeliveryOf(d)' = DeliveryOf(d)
    BY DEF Enqueue, DeliveryOf
  <1>4. DeliveryMap' = [DeliveryMap EXCEPT ![h] = "pending"] /\ DeliveryMap[h] = "new"
    BY <1>2, <1>3, MapChanges DEF DeliveryMap
  <1>5. QED BY <1>4 DEF Delivery!Request, Delivery!Become, DeliveryMap, Enqueue

LEMMA RefineTake ==
  ASSUME TypeOK, Inv, NEW w \in Workers, Take(w)
  PROVE  Delivery!DeliveryNext \/ UNCHANGED <<DeliveryMap, posts>>
  <1>1. PICK h : h = Head(queue).id
    OBVIOUS
  <1>2. h \in Deliveries /\ Pending(h)
    BY <1>1, QueueTail, AccountedIsBoth DEF Take, Inv, Accounted, OneAt, Pending
  <1>3. CASE h \in Urlless
    <2>1. /\ discarded' = discarded \union {h}
          /\ UNCHANGED <<requested, acked, lost, dead, posts>>
      BY <1>1, <1>3 DEF Take
    <2>2. DeliveryOf(h) = "pending" /\ DeliveryOf(h)' = "discarded"
      BY <1>2, <2>1 DEF Pending, DeliveryOf, Settled
    <2>3. \A d \in Deliveries : d # h => DeliveryOf(d)' = DeliveryOf(d)
      BY <2>1 DEF DeliveryOf
    <2>4. DeliveryMap' = [DeliveryMap EXCEPT ![h] = "discarded"] /\ DeliveryMap[h] = "pending"
      BY <1>2, <2>2, <2>3, MapChanges DEF DeliveryMap
    <2>5. Delivery!Discard(h)
      BY <2>1, <2>4 DEF Delivery!Discard, Delivery!Become, DeliveryMap
    <2>6. QED BY <1>2, <2>5 DEF Delivery!DeliveryNext
  <1>4. CASE h \notin Urlless
    BY <1>1, <1>4, MapSame DEF Take
  <1>5. QED BY <1>3, <1>4

LEMMA RefinePost ==
  ASSUME TypeOK, Inv, Counted, NEW w \in Workers, Post(w)
  PROVE  Delivery!DeliveryNext
  <1>1. PICK h \in Deliveries : h = hand[w].id /\ w \in InHand(h) /\ hand[w] \in Task
    BY HandIsTask, TaskFields DEF Post, InHand
  <1>2. Pending(h)
    BY <1>1 DEF Inv, Accounted, OneAt, Pending
  <1>3. posts[h] < MaxAttempts
    <2>1. hand[w].attempt = posts[h] + 1 /\ posts[h] \in Nat
      BY <1>1 DEF Post, Counted, AttemptCountsPosts, TypeOK
    <2>2. QED BY <1>1, <2>1, TaskFields, AttemptAssumption
  <1>4. posts' = [posts EXCEPT ![h] = @ + 1] /\ UNCHANGED <<requested, discarded, lost, dead>>
    BY <1>1 DEF Post
  <1>5. DeliveryMap[h] = "pending"
    BY <1>2, PendingIs DEF DeliveryMap
  <1>6. CASE acked' = acked \union {h}
    <2>1. DeliveryOf(h)' = "delivered" /\ \A d \in Deliveries : d # h => DeliveryOf(d)' = DeliveryOf(d)
      BY <1>2, <1>4, <1>6 DEF Pending, Settled, DeliveryOf
    <2>2. DeliveryMap' = [DeliveryMap EXCEPT ![h] = "delivered"]
      BY <2>1, MapChanges
    <2>3. Delivery!Try(h)
      BY <1>3, <1>4, <1>5, <2>2 DEF Delivery!Try, Delivery!Become, DeliveryMap
    <2>4. QED BY <2>3 DEF Delivery!DeliveryNext
  <1>7. CASE acked' = acked
    <2>1. DeliveryMap' = DeliveryMap
      BY <1>4, <1>7, MapSame
    <2>2. DeliveryMap' = [DeliveryMap EXCEPT ![h] = "pending"]
      BY <1>5, <2>1 DEF DeliveryMap
    <2>3. Delivery!Try(h)
      BY <1>3, <1>4, <1>5, <2>2 DEF Delivery!Try, Delivery!Become, DeliveryMap
    <2>4. QED BY <2>3 DEF Delivery!DeliveryNext
  <1>8. QED BY <1>1, <1>6, <1>7 DEF Post

LEMMA RefineSettle ==
  ASSUME TypeOK, Inv, Counted, NEW w \in Workers, Settle(w)
  PROVE  Delivery!DeliveryNext \/ UNCHANGED <<DeliveryMap, posts>>
  <1>1. PICK h \in Deliveries : h = hand[w].id /\ w \in InHand(h) /\ hand[w] \in Task
    BY HandIsTask, TaskFields DEF Settle, InHand
  <1>2. Pending(h)
    BY <1>1 DEF Inv, Accounted, OneAt, Pending
  <1>3. UNCHANGED <<posts, requested, discarded, lost, acked>>
    BY DEF Settle, historyVars
  <1>4. CASE hand[w].attempt < MaxAttempts
    BY <1>3, <1>4, MapSame DEF Settle
  <1>5. CASE ~(hand[w].attempt < MaxAttempts)
    <2>1. dead' = dead \union {h}
      BY <1>1, <1>5 DEF Settle
    <2>2. posts[h] = MaxAttempts
      <3>1. hand[w].attempt = posts[h]
        BY <1>1 DEF Settle, Counted, AttemptCountsPosts
      <3>2. QED BY <1>1, <1>5, <3>1, TaskFields, AttemptAssumption
    <2>3. DeliveryOf(h)' = "dead" /\ \A d \in Deliveries : d # h => DeliveryOf(d)' = DeliveryOf(d)
      BY <1>2, <1>3, <2>1 DEF Pending, Settled, DeliveryOf
    <2>4. DeliveryMap' = [DeliveryMap EXCEPT ![h] = "dead"] /\ DeliveryMap[h] = "pending"
      BY <1>2, <2>3, MapChanges, PendingIs DEF DeliveryMap
    <2>5. Delivery!GiveUp(h)
      BY <1>3, <2>2, <2>4 DEF Delivery!GiveUp, Delivery!Become, DeliveryMap
    <2>6. QED BY <2>5 DEF Delivery!DeliveryNext
  <1>6. QED BY <1>4, <1>5

(* A fault loses the deliveries it drops, all of them pending.             *)
LEMMA RefineDisturb ==
  ASSUME TypeOK, Inv, NEW w \in Workers, Disturb(w)
  PROVE  Delivery!DeliveryNext
  <1>1. PICK some : /\ some \in SUBSET (Held(hand[w]) \union Held(moving[w]))
                    /\ lost' = lost \union some
    <2>1. CASE TaskFails(w)
      <3>1. lost' = lost \union Held(hand[w])
        BY <2>1 DEF TaskFails
      <3>2. QED BY <3>1
    <2>2. CASE RetryFails(w)
      <3>1. lost' = lost \union Held(moving[w])
        BY <2>2 DEF RetryFails
      <3>2. QED BY <3>1
    <2>3. CASE Stop(w)
      <3>1. lost' = lost \union (Held(hand[w]) \union Held(moving[w]))
        BY <2>3 DEF Stop
      <3>2. QED BY <3>1
    <2>4. QED BY <2>1, <2>2, <2>3 DEF Disturb
  <1>2. UNCHANGED <<posts, requested, discarded, acked, dead>>
    BY DEF Disturb, TaskFails, RetryFails, Stop
  <1>3. \A d \in some : d \in Deliveries /\ Pending(d)
    <2>1. Held(hand[w]) \subseteq Deliveries /\ Held(moving[w]) \subseteq Deliveries
      BY HandIsTask, TaskFields DEF Held, TypeOK
    <2>2. \A d \in some : d \in Deliveries /\ (InHand(d) # {} \/ InMove(d) # {})
      BY <1>1, <2>1, HeldBy
    <2>3. QED BY <2>2 DEF Inv, Accounted, OneAt, Pending
  <1>4. \A d \in Deliveries : DeliveryOf(d)' = IF d \in some THEN "lost" ELSE DeliveryOf(d)
    <2>1. ASSUME NEW d \in Deliveries, d \in some PROVE DeliveryOf(d)' = "lost"
      <3>1. d \in requested' /\ d \in lost'
        BY <1>1, <1>2, <1>3, <2>1 DEF Pending
      <3>2. QED BY <3>1 DEF DeliveryOf
    <2>2. ASSUME NEW d \in Deliveries, d \notin some PROVE DeliveryOf(d)' = DeliveryOf(d)
      <3>1. d \in lost' <=> d \in lost
        BY <1>1, <2>2
      <3>2. QED BY <1>2, <3>1 DEF DeliveryOf
    <2>3. QED BY <2>1, <2>2
  <1>5. DeliveryMap' = [d \in Deliveries |-> IF d \in some THEN "lost" ELSE DeliveryMap[d]]
    BY <1>4 DEF DeliveryMap
  <1>6. \A d \in some : DeliveryMap[d] = "pending"
    BY <1>3, PendingIs DEF DeliveryMap
  <1>7. Delivery!Lose(some)
    BY <1>2, <1>5, <1>6 DEF Delivery!Lose, DeliveryMap
  <1>8. QED BY <1>3, <1>7 DEF Delivery!DeliveryNext

LEMMA RefineRetries ==
  ASSUME NEW w \in Workers, ProcessRetries(w)
  PROVE  UNCHANGED <<DeliveryMap, posts>>
  <1>1. UNCHANGED <<requested, acked, discarded, lost, dead, posts>>
    BY DEF ProcessRetries, Scan, Remove, Requeue, historyVars
  <1>2. QED BY <1>1, MapSame

(* Queues, workers, retry loops and faults together do to a delivery only  *)
(* what WebhookDelivery allows.                                            *)
THEOREM DispatcherImplementsDelivery == Spec => ImplementsDelivery
  <1>1. ASSUME TypeOK, Inv, Counted, [Next]_vars
        PROVE  [Delivery!DeliveryNext]_<<DeliveryMap, posts>>
    <2>1. ASSUME NEW d \in Deliveries, Enqueue(d) PROVE Delivery!DeliveryNext
      BY <1>1, <2>1, RefineEnqueue DEF Delivery!DeliveryNext
    <2>2. ASSUME NEW w \in Workers, Dispatch(w)
          PROVE  Delivery!DeliveryNext \/ UNCHANGED <<DeliveryMap, posts>>
      BY <1>1, <2>2, RefineTake, RefinePost, RefineSettle DEF Dispatch
    <2>3. CASE UNCHANGED vars
      BY <2>3, MapSame DEF vars, retryVars, historyVars
    <2>4. QED BY <1>1, <2>1, <2>2, <2>3, RefineRetries, RefineDisturb DEF Next
  <1>2. QED
    BY RefineInit, <1>1, WebhookTypeCorrect, InvHolds, CountHolds, PTL
       DEF Spec, ImplementsDelivery, Delivery!DeliverySpec, DeliveryMap
=============================================================================
