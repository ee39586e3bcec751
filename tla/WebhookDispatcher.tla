-------------------------- MODULE WebhookDispatcher --------------------------
(***************************************************************************)
(* The delivery of webhooks by worker/app/webhook_dispatcher.py, fed by    *)
(* EventHandler._dispatch_webhooks of the API.                             *)
(*                                                                         *)
(* Every worker process runs two coroutines, start() and process_retries(),*)
(* and several processes share the Redis keys (README.md: --scale worker). *)
(* An action is what one coroutine does between two awaits.  A task in     *)
(* Redis is the delivery it is for and its attempt number; a time in       *)
(* webhook:retry is abstracted to "due at some moment".                    *)
(***************************************************************************)
EXTENDS Naturals, Sequences, FiniteSets

CONSTANTS
  Deliveries,   \* pairs of a webhook and an event it subscribes to
  Urlless,      \* those whose webhook has an empty url
  Workers,      \* worker processes
  NoTask,
  MaxAttempts,  \* MAX_ATTEMPTS
  BatchSize,    \* num=10 of zrangebyscore
  MaxFaults     \* bound: worker stops and Redis errors in a behaviour

ASSUME DeliveryAssumption == Urlless \subseteq Deliveries
ASSUME AttemptAssumption == MaxAttempts \in Nat \ {0} /\ BatchSize \in Nat \ {0}
ASSUME FaultAssumption == MaxFaults \in Nat

Task == [id : Deliveries, attempt : 1..MaxAttempts]
ASSUME NoTaskAssumption == NoTask \notin Task

VARIABLES
  queue,      \* webhook:queue, oldest task first: LPUSH appends, BRPOP takes the head
  retry,      \* webhook:retry, a sorted set of distinct tasks
  dead,       \* webhook:dead_letter
  hand,       \* start(): the task being processed
  stage,      \* start(): "idle", or the await it is at
  batch,      \* process_retries(): tasks read and not looked at yet
  moving,     \* process_retries(): a task removed from retry and not pushed yet
  requested,  \* history: deliveries enqueued
  posts,      \* history: POST requests sent
  acked,      \* history: deliveries answered with a 2xx
  discarded,  \* history: deliveries dropped for want of a url
  lost,       \* history: deliveries swallowed by a stop or an error
  logged,     \* rows of webhook_logs
  faults      \* number of stops and errors, for the bound

historyVars == <<requested, posts, acked, discarded, lost, logged>>
retryVars == <<retry, batch, moving>>
vars == <<queue, dead, hand, stage, retryVars, historyVars, faults>>

Stages == {"idle", "taken", "settling"}

Init ==
  /\ queue = <<>> /\ retry = {} /\ dead = {}
  /\ hand = [w \in Workers |-> NoTask]
  /\ stage = [w \in Workers |-> "idle"]
  /\ batch = [w \in Workers |-> {}]
  /\ moving = [w \in Workers |-> NoTask]
  /\ requested = {} /\ acked = {} /\ discarded = {} /\ lost = {}
  /\ posts = [d \in Deliveries |-> 0]
  /\ logged = [d \in Deliveries |-> 0]
  /\ faults = 0

-----------------------------------------------------------------------------
(* _dispatch_webhooks: LPUSH webhook:queue.                                *)
Enqueue(d) ==
  /\ d \notin requested
  /\ requested' = requested \union {d}
  /\ queue' = Append(queue, [id |-> d, attempt |-> 1])
  /\ UNCHANGED <<dead, hand, stage, retryVars, posts, acked, discarded, lost, logged, faults>>

-----------------------------------------------------------------------------
(* start() and _process_task.                                              *)

Release(w) ==
  /\ hand' = [hand EXCEPT ![w] = NoTask]
  /\ stage' = [stage EXCEPT ![w] = "idle"]

(* BRPOP; a task without url goes no further.                              *)
Take(w) ==
  /\ stage[w] = "idle"
  /\ queue # <<>>
  /\ queue' = Tail(queue)
  /\ IF Head(queue).id \in Urlless
     THEN /\ discarded' = discarded \union {Head(queue).id}
          /\ UNCHANGED <<hand, stage>>
     ELSE /\ hand' = [hand EXCEPT ![w] = Head(queue)]
          /\ stage' = [stage EXCEPT ![w] = "taken"]
          /\ UNCHANGED discarded
  /\ UNCHANGED <<dead, retryVars, requested, posts, acked, lost, logged, faults>>

(* _log_attempt: WebhookLog(...) is given fields the model does not have;  *)
(* the TypeError is caught, the session rolled back, and the task goes on. *)
LogFields == {"webhook_id", "channel_id", "event_type", "url", "attempt", "status_code",
              "response_body", "error_message", "success", "delivered_at"}
LogColumns == {"id", "created_at", "updated_at", "webhook_id", "event_type", "payload",
               "status_code", "response_body", "attempt", "delivered_at", "webhook"}
LogAttempt(d) ==
  logged' = IF LogFields \subseteq LogColumns THEN [logged EXCEPT ![d] = @ + 1] ELSE logged

(* Mutation: a 2xx is not told from the other answers.                     *)
Post_IgnoresSuccess(w) ==
  /\ stage[w] = "taken"
  /\ posts' = [posts EXCEPT ![hand[w].id] = @ + 1]
  /\ LogAttempt(hand[w].id)
  /\ acked' \in {acked, acked \union {hand[w].id}}
  /\ stage' = [stage EXCEPT ![w] = "settling"]
  /\ UNCHANGED <<queue, dead, hand, retryVars, requested, discarded, lost, faults>>

(* The POST and its log: a 2xx ends the task, anything else, an error or a *)
(* timeout leaves it to be settled.                                        *)
Post(w) ==
  /\ stage[w] = "taken"
  /\ posts' = [posts EXCEPT ![hand[w].id] = @ + 1]
  /\ LogAttempt(hand[w].id)
  /\ \/ /\ acked' = acked \union {hand[w].id}
        /\ Release(w)
     \/ /\ stage' = [stage EXCEPT ![w] = "settling"]
        /\ UNCHANGED <<acked, hand>>
  /\ UNCHANGED <<queue, dead, retryVars, requested, discarded, lost, faults>>

(* Mutation: the attempt number is not incremented.                        *)
Settle_SameAttempt(w) ==
  /\ stage[w] = "settling"
  /\ IF hand[w].attempt < MaxAttempts
     THEN /\ retry' = retry \union {hand[w]}
          /\ UNCHANGED dead
     ELSE /\ dead' = dead \union {hand[w].id}
          /\ UNCHANGED retry
  /\ Release(w)
  /\ UNCHANGED <<queue, batch, moving, historyVars, faults>>

(* Mutation: the limit is off by one.                                      *)
Settle_OneTooMany(w) ==
  /\ stage[w] = "settling"
  /\ IF hand[w].attempt <= MaxAttempts
     THEN /\ retry' = retry \union {[hand[w] EXCEPT !.attempt = @ + 1]}
          /\ UNCHANGED dead
     ELSE /\ dead' = dead \union {hand[w].id}
          /\ UNCHANGED retry
  /\ Release(w)
  /\ UNCHANGED <<queue, batch, moving, historyVars, faults>>

(* Mutation: an exhausted task is dropped instead of dead-lettered.        *)
Settle_NoDeadLetter(w) ==
  /\ stage[w] = "settling"
  /\ retry' = IF hand[w].attempt < MaxAttempts
              THEN retry \union {[hand[w] EXCEPT !.attempt = @ + 1]} ELSE retry
  /\ Release(w)
  /\ UNCHANGED <<queue, dead, batch, moving, historyVars, faults>>

(* ZADD webhook:retry, or LPUSH webhook:dead_letter after the last attempt.*)
Settle(w) ==
  /\ stage[w] = "settling"
  /\ IF hand[w].attempt < MaxAttempts
     THEN /\ retry' = retry \union {[hand[w] EXCEPT !.attempt = @ + 1]}
          /\ UNCHANGED dead
     ELSE /\ dead' = dead \union {hand[w].id}
          /\ UNCHANGED retry
  /\ Release(w)
  /\ UNCHANGED <<queue, batch, moving, historyVars, faults>>

-----------------------------------------------------------------------------
(* process_retries().                                                      *)

(* ZRANGEBYSCORE: some of the due tasks, in an order of their own.         *)
Scan(w) ==
  /\ batch[w] = {} /\ moving[w] = NoTask
  /\ \E due \in SUBSET retry :
       /\ due # {} /\ Cardinality(due) <= BatchSize
       /\ batch' = [batch EXCEPT ![w] = due]
  /\ UNCHANGED <<queue, dead, hand, stage, retry, moving, historyVars, faults>>

(* Mutation: the answer of ZREM is not looked at.                          *)
Remove_Unchecked(w) ==
  /\ moving[w] = NoTask
  /\ \E t \in batch[w] :
       /\ batch' = [batch EXCEPT ![w] = @ \ {t}]
       /\ retry' = retry \ {t}
       /\ moving' = [moving EXCEPT ![w] = t]
  /\ UNCHANGED <<queue, dead, hand, stage, historyVars, faults>>

(* ZREM: only the worker that removes the task goes on with it.            *)
Remove(w) ==
  /\ moving[w] = NoTask
  /\ \E t \in batch[w] :
       /\ batch' = [batch EXCEPT ![w] = @ \ {t}]
       /\ retry' = retry \ {t}
       /\ moving' = IF t \in retry THEN [moving EXCEPT ![w] = t] ELSE moving
  /\ UNCHANGED <<queue, dead, hand, stage, historyVars, faults>>

(* Mutation: the removed task is not pushed.                               *)
Requeue_Forgotten(w) ==
  /\ moving[w] # NoTask
  /\ moving' = [moving EXCEPT ![w] = NoTask]
  /\ UNCHANGED <<queue, dead, hand, stage, retry, batch, historyVars, faults>>

(* LPUSH webhook:queue.                                                    *)
Requeue(w) ==
  /\ moving[w] # NoTask
  /\ queue' = Append(queue, moving[w])
  /\ moving' = [moving EXCEPT ![w] = NoTask]
  /\ UNCHANGED <<dead, hand, stage, retry, batch, historyVars, faults>>

-----------------------------------------------------------------------------
(* What goes wrong.  A coroutine that raises or is cancelled drops the task*)
(* it holds: nothing keeps a copy of it in Redis.                          *)

Held(t) == IF t = NoTask THEN {} ELSE {t.id}
Fault == faults < MaxFaults /\ faults' = faults + 1

(* start() logs any exception and takes the next task.                     *)
TaskFails(w) ==
  /\ Fault
  /\ stage[w] # "idle"
  /\ lost' = lost \union Held(hand[w])
  /\ Release(w)
  /\ UNCHANGED <<queue, dead, retryVars, requested, posts, acked, discarded, logged>>

(* process_retries() logs it and reads the sorted set again.               *)
RetryFails(w) ==
  /\ Fault
  /\ batch[w] # {} \/ moving[w] # NoTask
  /\ lost' = lost \union Held(moving[w])
  /\ batch' = [batch EXCEPT ![w] = {}]
  /\ moving' = [moving EXCEPT ![w] = NoTask]
  /\ UNCHANGED <<queue, retry, dead, hand, stage, requested, posts, acked, discarded, logged>>

(* main() cancels both coroutines on a signal, or the process is killed;   *)
(* the container starts again.                                             *)
Stop(w) ==
  /\ Fault
  /\ lost' = lost \union Held(hand[w]) \union Held(moving[w])
  /\ Release(w)
  /\ batch' = [batch EXCEPT ![w] = {}]
  /\ moving' = [moving EXCEPT ![w] = NoTask]
  /\ UNCHANGED <<queue, retry, dead, requested, posts, acked, discarded, logged>>

-----------------------------------------------------------------------------
Dispatch(w) == Take(w) \/ Post(w) \/ Settle(w)
ProcessRetries(w) == Scan(w) \/ Remove(w) \/ Requeue(w)
Disturb(w) == TaskFails(w) \/ RetryFails(w) \/ Stop(w)

Next ==
  \/ \E d \in Deliveries : Enqueue(d)
  \/ \E w \in Workers : Dispatch(w) \/ ProcessRetries(w) \/ Disturb(w)

Spec == Init /\ [][Next]_vars

(* Each coroutine is a loop of an event loop that keeps running, Redis and *)
(* the HTTP client answer, with a timeout if need be, and delays elapse.   *)
Fairness == \A w \in Workers : WF_vars(Dispatch(w)) /\ WF_vars(ProcessRetries(w))

FairSpec == Spec /\ Fairness

-----------------------------------------------------------------------------
(* Properties.                                                             *)

TypeOK ==
  /\ queue \in Seq(Task)
  /\ retry \in SUBSET Task
  /\ dead \in SUBSET Deliveries
  /\ hand \in [Workers -> Task \union {NoTask}]
  /\ stage \in [Workers -> Stages]
  /\ \A w \in Workers : hand[w] = NoTask <=> stage[w] = "idle"
  /\ batch \in [Workers -> SUBSET Task]
  /\ moving \in [Workers -> Task \union {NoTask}]
  /\ requested \in SUBSET Deliveries
  /\ acked \in SUBSET Deliveries
  /\ discarded \in SUBSET Deliveries
  /\ lost \in SUBSET Deliveries
  /\ posts \in [Deliveries -> Nat]
  /\ logged \in [Deliveries -> Nat]
  /\ faults \in Nat

Settled == acked \union discarded \union lost \union dead

(* Where a delivery is: the queue, the sorted set, or a coroutine's hands. *)
InQueue(d) == {i \in DOMAIN queue : queue[i].id = d}
InRetry(d) == {t \in retry : t.id = d}
InHand(d) == {w \in Workers : stage[w] # "idle" /\ hand[w].id = d}
InMove(d) == {w \in Workers : moving[w] # NoTask /\ moving[w].id = d}
Single(S) == \A x, y \in S : x = y

(* Two workers never hold the same delivery, and none is ever both queued  *)
(* and scheduled: a task read by both retry loops is requeued by one.      *)
NoDuplicate ==
  \A d \in Deliveries :
    /\ Single(InQueue(d)) /\ Single(InRetry(d)) /\ Single(InHand(d)) /\ Single(InMove(d))
    /\ InQueue(d) # {} => InRetry(d) = {} /\ InHand(d) = {} /\ InMove(d) = {}
    /\ InRetry(d) # {} => InHand(d) = {} /\ InMove(d) = {}
    /\ InHand(d) # {} => InMove(d) = {}

(* A delivery that was asked for and is neither acknowledged, discarded,   *)
(* lost to a fault nor dead-lettered is still somewhere, and only then.    *)
NoneForgotten ==
  \A d \in Deliveries :
    d \in requested \ Settled
      <=> InQueue(d) \union InRetry(d) \union InHand(d) \union InMove(d) # {}

(* The X-Webhook-Attempt of a task is its number of POSTs, wherever it is; *)
(* so no delivery is posted more than MAX_ATTEMPTS times.                  *)
AttemptCountsPosts ==
  /\ \A i \in DOMAIN queue : queue[i].attempt = posts[queue[i].id] + 1
  /\ \A t \in retry : t.attempt = posts[t.id] + 1
  /\ \A w \in Workers : moving[w] # NoTask => moving[w].attempt = posts[moving[w].id] + 1
  /\ \A w \in Workers : stage[w] = "taken" => hand[w].attempt = posts[hand[w].id] + 1
  /\ \A w \in Workers : stage[w] = "settling" => hand[w].attempt = posts[hand[w].id]
  /\ \A d \in Deliveries : posts[d] <= MaxAttempts

(* The queues, workers and retry loops implement WebhookDelivery: at most  *)
(* MAX_ATTEMPTS posts, none after a 2xx, given up only after the last.     *)
DeliveryOf(d) ==
  IF d \notin requested THEN "new"
  ELSE IF d \in lost THEN "lost"
  ELSE IF d \in acked THEN "delivered"
  ELSE IF d \in discarded THEN "discarded"
  ELSE IF d \in dead THEN "dead"
  ELSE "pending"
Delivery == INSTANCE WebhookDelivery
              WITH delivery <- [d \in Deliveries |-> DeliveryOf(d)], tries <- posts
ImplementsDelivery == Delivery!DeliverySpec

(* Every delivery that was asked for is eventually settled.                *)
EveryDeliverySettles == \A d \in Deliveries : d \in requested ~> d \in Settled
=============================================================================
