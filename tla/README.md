# Verification of the WhatsApp platform

TLA+ models of the platform's engine, API and worker, the TLC runs that check
them on small instances, and TLAPS proofs of the main properties for every
instance. Paths are relative to the repository root.

## 1. The system

| Process | Code | State it keeps | How it talks |
|---|---|---|---|
| API | `api/app` (FastAPI); `scripts/start.sh` may run several processes | PostgreSQL rows, media files, presence cache in Redis | pushes commands to `wa:cmd:queue`, polls `wa:res:{request_id}` |
| Engine | `engine/src` (Node, Baileys) | map of sockets, reconnection counters, credentials on disk and in `wa:auth:*` | pops `wa:cmd:queue`, pushes `wa:events:queue` and `wa:ws:*`, writes `wa:session:*` |
| Single-channel engine | `engine/connect.js`, what `start.sh` runs instead | one socket after the other, endless polling loops | the same two lists |
| Worker | `worker/app` (asyncio) | rate counters in memory; tasks in Redis lists | pops `webhook:queue`, `message:queue`, `message:queue:bulk`, `media:process:queue`; posts to webhooks |
| AI pipeline | `worker/app/ai_pipeline.py` | none; reads rows | pops `wa:events:queue`, pushes `wa:cmd:queue`, writes rows of messages |
| AI bot | `run_ai.py`, what `start.sh` runs instead | histories in memory | the same two lists |

### Inventory of components

| Component | State and operations | Hard part | What makes it correct |
|---|---|---|---|
| Session manager (`session-manager.ts`) | `sessions`, `reconnectState`; create, stop, delete, restore, reconnect, close handler | every method is cut by awaits, neither commands nor listeners are awaited, timers are not cancelled | sessions do not multiply, budget of retries, a stop is a stop, restore and reconnection go on |
| Credential store (`redis-auth-state.ts`) | directory and Redis hash | two copies, written and cleared at different moments | what the engine last said of a channel has a session or a reconnection behind it |
| Redis bridge (`redis-bridge.ts`) | status key, event lists, command poll | failed writes of a status and failed answers are swallowed; poll does not await handlers | a command has one fate; 'connected' or 'reconnecting' is not the engine's last word with nothing behind it |
| Message and media handler (`message-handler.ts`, `media-handler.ts`) | none | calls to Baileys | an outcome for each command |
| Event mapper (`event-mapper.ts`) | none | two vocabularies: what Baileys reports, what the API reads | a received message can be stored |
| Single-channel engine (`connect.js`) | sockets, timers, one more loop for each connect | loops of closed sockets pop commands, sends fail unheard | one fate for each reply |
| Webhook dispatcher (`webhook_dispatcher.py`) | `webhook:queue`, `webhook:retry`, `webhook:dead_letter`, `webhook_logs` | two loops in each of several processes; stops between Redis commands | bounded attempts, no duplicate, nothing forgotten, nothing after a 2xx |
| Message queue (`message_queue.py`) | two lists, window counters, `message:dead_letter` | counters per process, slot taken before the send, failure handled twice | limit per window, one fate per message, no starvation |
| Media processor (`media_processor.py`) | `media:process:queue`, result keys | popped task lost on a stop | every task gets a result |
| Worker main (`worker/app/main.py`) | four tasks | the end of one cancels the others | shutdown loses only what is in hand |
| AI pipeline (`ai_pipeline.py`) | reads the rows of a chat, writes its reply | competes for the events; order of roles | an event has one consumer, the prompt is the conversation |
| AI bot (`run_ai.py`) | histories, one loop | failures of Claude and Redis between two turns | asked with the end of the conversation, every message settles |
| Event bus and handler (`api/app/events`) | messages, channel status, webhook tasks | several listeners at one list, failures between row, key and tasks; disabled in the running API | subscribers are told, states go forward |
| Channel service (`channel_service.py`, `get_db`) | rows of `channels`, row locks, `wa:cmd:queue`; create, update, delete, start, stop, logout, merge and reset of settings | copies read without a lock, command pushed before the commit, rollback after a push | a settled row says what the engine was told last, a commit changes its own columns only, no request waits forever |
| Other API services (`api/app/services`) | rows, files, presence cache; some 200 methods | command out before the commit, answers polled with a timeout, failure between two steps | a refusal leaves no trace, rows follow answers, an answer or a timeout |
| Routers, schemas, middleware (`api/app/routers`, `middleware`) | none; 148 routes besides those that only report health | the first route that matches serves; which method, which status | the same, for each route |
| Agents (`api/app/agents`) | context in Redis | windows and limits | bounded context; not wired to a process |

The engine pushes a status and an event for every connection update. The API's
event handler, when it is enabled, turns events into rows and webhook tasks; the
webhook dispatcher delivers those. Requests, the message queue, the AI pipeline
and the bot all talk to the engine through `wa:cmd:queue`. Everything that
crosses a process goes through a Redis list, a sorted set, a hash or a key, or
through PostgreSQL, so components share no memory but may interleave between any
two Redis commands or statements.

## 2. Modules

| Module | Models |
|---|---|
| `EngineSession` | session manager, credential store, lifecycle commands and shutdown of `engine/src` |
| `EngineSessionProofs` | theorems about it |
| `EngineConnect` | `connect.js`: sockets, timers and polling loops of the single-channel engine |
| `AiBot` | composes `EngineConnect` with the loop of `run_ai.py` |
| `AiBotProofs` | theorems about it |
| `WebhookDelivery` | abstract: what a webhook delivery promises |
| `WebhookDispatcher` | both loops of `webhook_dispatcher.py`, fed by `EventHandler._dispatch_webhooks`, in several processes |
| `WebhookDispatcherProofs` | theorems about it, and that it implements `WebhookDelivery` |
| `MessageQueue` | `message_queue.py` in several processes |
| `MessageQueueProofs` | theorems about it |
| `ChannelService` | `channel_service.py`, the session per request of `database.py`, the commands and their execution |
| `ChannelServiceProofs` | theorems about it |
| `ApiServices` | the steps of every method of the other services, in their order |
| `ApiRoutes` | the routes of all routers, which of them serves a request, and what it awaits |
| `ApiRequests` | requests that take those steps, with transactions, files, keys and the engine |
| `ApiRequestsProofs` | theorems about it |
| `EventMapper` | `event-mapper.ts`, and how the API reads what it makes |
| `EventHandler` | `event_bus.py` and `event_handler.py`, in several processes |
| `AiPipeline` | composes `EventHandler` with `ai_pipeline.py` |
| `AiPipelineProofs` | theorems about it |
| `Counting` | lemmas for the proofs: how often a value stands in a sequence or a function, induction over numbers, functions defined by recursion, sums |
| `MC*` | instances for TLC |

### How they correspond to the code

**EngineSession.** One action is what runs from one await to the next.
`flows[ch][stage]` counts the asynchronous invocations of a channel suspended at
each await: `load` (auth state), `fetch` (Baileys version), `reconnect` (after
'reconnecting' is published), `timer` (backoff), `giveUp`, `remove` (deleteSession)
and `logout`. Counting them is what lets several invocations of one channel
overlap, as the poll of `redis-bridge.ts:111-134` and Baileys' listeners allow.
Handlers of connection updates all await the same `publishEvent` first, on one
connection, so they resume in the order of their events: the queue `inflight`.
A socket is `listening` once createSession has registered its listeners; what
happens to it before is lost. The map is changed at the step that runs it. So is
a status, unless its write fails: `publishStatus` ends in `setSessionStatus`, which logs and
swallows the failure (`redis-bridge.ts:203-205`), so that `said` is what the engine
published last and `status` what the hash holds. Every status of the module may fail
to be written, an 'error' as well as a 'disconnected' (`Says`; an instance names
the words whose write may fail, `Unwritten`). A QR update awaits one command more, `setQR`, before
its status is published: the stage `qr`, so that 'qr' may be written after the status of a later update.
`overtaken` is a history variable: channels whose stop came while an 'open' of
the stopped socket was waiting for its handler. A crash or a shutdown clears the memory of the process and keeps
disk (unless the deployment loses it), Redis and status; the next boot restores
every channel with credentials.

**EngineConnect and AiBot.** `connect()` is cut by the load of its credentials
(`opening`), a reconnection by its `setTimeout` (`timers`). `looping` holds the
loops that were started: one for each connect and the one of `main`, none of
which ends while the process runs, so that each may pop any command and `sending` is what it
awaits. A send may be rejected on any socket, an open one included, and a pop may be done and its
reply lost; the empty catch (`connect.js:140`) drops the command in either case. A
failed LPUSH of a received message (`connect.js:112`) is a rejection that nobody handles and
ends the process (`Dies`), as a failure in `connect` does; `start.sh` starts it once, so
nothing runs after it. A reply is named by the message it answers. The bot's `stage` is its
await. `talk` is a history variable: all that was said in a chat.

**WebhookDispatcher.** `hand` and `stage` are the task of `start()`, `batch` and
`moving` those of `process_retries()`, one of each for each worker. A task is its
delivery and its attempt; due times are abstracted to "some subset is due". A POST
and its log are one step, since nothing another coroutine sees lies between them.
Faults are a Redis error in either loop and a stop of the process, each of which
drops what is in hand. `LogFields` and `LogColumns` are the constructor arguments
and the columns, so that the log's failure is derived and not assumed.

**MessageQueue.** Time is a sequence of ticks and a timestamp is its age, so the
sliding window is `Window` ages. `stage` says which await a worker is at; the two
failing stages tell `_handle_failure` inside the `try` from that in its `except`,
which is how one failure is handled twice. The producer and the subscribers of
`wa:cmd:{channel}` are not in the repository: `Push` and the answer of PUBLISH are
free choices. Malformed messages (no JSON, no channel) and messages without a
recipient are parameters.

**ChannelService.** A request is an operation on a channel. `seen` is the row it
read and `want` the copy in its SQLAlchemy session after the assignments, which
no await interrupts, so `Begin` is the read and the assignments together. `todo`
lists what the operation awaits after that, in the order of its code: the flush
and the pushes. The flush sends the changed columns (`Dirty`) and takes the row
lock, or sends nothing and takes none; `Commit` and `Fail` are the two ends of
`get_db`. PostgreSQL is at READ COMMITTED, its default: reads do not wait. A
column of type JSON is compared by value, and `update_settings` assigns the very
dict it changed: that is the second conjunct of `Dirty`. The engine is reduced to
the last lifecycle command it executed for a channel, in the order of the list;
its own interleavings and restarts are `EngineSession`'s. `overlapped` and
`loose` are history variables that say which commands no lock ordered. Left out:
API keys, the QR text, and the key `wa:status`, which is written by `connect.js:82` and by
the event handler, and which no operation reads but to answer with it.

**ApiServices, ApiRoutes, ApiRequests.** A service method is the sequence of what
it does to the rest of the system: rows read that must be there (`find`, `seek`),
rows and files written, Redis keys, commands pushed, and the wait for an answer.
Most methods are one of two helpers: `Relay` (`_publish_command`, push and go on)
and `Call` (`_publish_and_wait`, push and poll). A route is its method, its path,
the methods of the service it may choose by its body, and the status it gives a
falsy result. `ServedBy` is Starlette's rule, the first route in the order of
inclusion and declaration that matches; four routes can never be reached, as an
earlier one with a parameter matches their paths: `GET
/business/collections/products`, `DELETE /communities/{id}/participants`, `DELETE
/communities/{id}/admins` and `POST /communities/event`. A request (`ApiRequests`)
takes the steps of the route that serves it, one at a time, beside others. Writes
are flushed under row locks and committed by `get_db` after the handler has
returned (`Commits`), or rolled back (`Misses`, `Raises`, `Fails`); files are on
disk at once. A missing row is a falsy result, hence the route's status, or a
dict (`seek`), hence 200. `requirements.txt` asks for `fastapi>=0.110.0`: the older of these versions
run the commit of `get_db` before the answer is sent, those from 0.118 after it, so a
request may be answered 200 (`Answers`) and then commit, or fail in its commit
(`Fails`), the answer being out. A command ends as the session and Baileys have it
(`Outcomes`); the engine knows nine of the commands the services push, so that
every other one ends with an error. The engine's answer may get lost, since
`publish` returns early while Redis is away and swallows a failed LPUSH (`RespondsUnheard`,
`redis-bridge.ts:69-72, 88-90`), and so may the reply to its pop (`TakesUnheard`).
The content of columns, bodies and answers is left out.

**EventMapper, EventHandler, AiPipeline.** `EventMapper` maps each report of
Baileys to the event and the fields that a consumer reads, with absent fields
absent, since `data.get(field, default)` tells an absent field from a null one.
A run handles the events of one `day`, which the engine publishes in any order
(`silent` are those to come), because listeners await different things first. A
bus is at an await of its handler (`at`): the pop, the transaction of the handler
(one step, as no other process acts between a statement and its commit), the
read of `wa:ai_enabled` (a free choice, its writer is not here), the key of the status, the
webhooks, pushed one by one. What else the engine pushes to the same list, `status.update` and
`command.response`, is among the reports (`Unmapped`); a pop may be done and its reply lost (`PopFails`). `popped` is a history variable: the states that
were popped, with what other buses had in hand at that moment. `main.py:80-88`
has the handler commented out; it is modelled as those lines enable it. The
pipeline's `stage` is its await; texts are abstract and a turn's content is the
sequence of texts joined in it.

## 3. Runs

| Run | Shows | Bounds |
|---|---|---|
| `engine_session` | types; reconnection never multiplies sessions; no orphan socket for a channel asked for once; retry budget; 'failed' is final; the engine's last word, while Redis shows it, has a socket, a close or a reconnection behind it; the restore ends; the reconnection goes on | 1 channel, 2 sockets, 2 commands of every kind, 1 restart, budget of 1 retry, 2 updates in flight, 1 QR at a time, writes of 'connected', 'disconnected' and 'error' may fail |
| `engine_two_sockets` | violation: two overlapping starts leave two connected sockets | 2 starts |
| `engine_stop` | violation: a stop during the backoff does not cancel it | 1 stop |
| `webhook_dispatcher` | types; at most one place for a delivery; none forgotten; attempts are counted; implements `WebhookDelivery`; every delivery settles | 3 deliveries (one without url), 2 workers, 3 attempts, batches of 2, 2 faults |
| `message_queue` | types; window holds one more at most; none forgotten; one fate; every message settles | 4 messages of every kind, 1 channel, 2 workers, limit 1, window of 2 ticks, 2 attempts, 1 fault |
| `channel_service` | types; a settled row says what the engine was told last; a commit changes its own columns only; every request ends | 3 requests of every kind at 1 channel, 1 failure |
| `settings_merge` | violation: of two merges of settings that were answered with success one is lost | 3 merges at 1 channel |
| `api_requests` | types; a refusal leaves no trace; a media row has its file; a sent message has its row; one fate for each command; rows change only as a request answered 200 ends; every request ends | 2 requests, one for any of the routes that do different things and one for five that write what others read; 1 poll, 1 failure of either end or restart of the engine |
| `api_timeout` | violation: a request gives up although the engine has answered | 1 request |
| `ai_bot` | types; one fate for each message; Claude is asked in context; every message settles | 2 sockets, 3 messages in 2 chats, histories of 2 turns, 1 error of Redis at either end, which may end the engine |
| `ai_bot_drop` | violation: a loop without an open socket drops a reply while another socket is open | 1 message, 2 sockets |
| `events` | types; one consumer for each event; subscribers are told; neither row nor key of a connection goes back to an older state; the prompt is the conversation; every event settles | 2 buses and the pipeline, 2 webhooks, 2 or 3 of 19 kinds of reports at a time, histories of 2 rows, 1 fault |

Why these bounds are enough. Channels share nothing but the command poll, so one
channel shows every race; two sockets are the fewest that can coexist, and a dead
one is reused. Two commands suffice to overlap a start with a start, a stop or a
delete; one restart lies between any two steps. Two workers are what a race on
webhook:retry needs; three attempts give a first, a middle and a last one; with
two deliveries that are posted and batches of two a whole batch can be contended
for. A window of two ticks lets entries age inside it, and a limit of one makes
the second message of a channel throttled. Invocation counters, attempts, ages
and retries are otherwise unbounded in the modules and proved without bounds.

For the rows of channels, channels share nothing but the command list, in which
the entries of another channel change nothing, so one is enough; three requests
are two that race and one that comes between or after them. `MCChannelService`
checks one order of the kinds of the requests (`Sorted`): requests are served
alike, so any other order is a renaming. In `api_requests` methods share rows,
files and keys by their id only, and every race is one of two requests at one id;
routes with the same steps and statuses, up to the name of a command the
engine does not know, are checked once (`Distinct`), and the second request is one of the routes that take away or add what another one
reads (a message, a chat, a media, a webhook), the only ones whose effect another
request can see. `MaxPolls` is 300 in the code and 1 here: a round of the poll
leaves nothing behind. In `engine_session` the words whose write may fail are those whose loss
leaves the most behind: the 'error' of a createSession that Redis itself fails, the 'disconnected' of a logout and
'connected'; the proof of `LastWordIsBacked` has every word fail. In `ai_bot` the second socket makes the loops of a closed
one compete, and a chat with two messages has four turns, more than its history. In
`events` a day has three messages of one chat, one of them repeating another's
text, or two states of a connection with a message, or a message with a report
of any other kind: what an event leaves to later ones is a row, a status or a
task, which these tell apart.

Bounds in guards: `MaxCommands`, `MaxRestarts`, `MaxInflight`, `MaxQRs`, `Unwritten`, `MaxFaults`,
`MaxFailures`, `MaxErrors`, and the finite sets `Sockets` of `EngineConnect` and `Days`.
`CHECK_DEADLOCK FALSE` is used where the system may really stop: no command is
left and every socket is closed, no delivery is left, every request is served, or
every message or event is consumed; the message queue polls forever and is checked
for deadlock.

Every property has a mutant, a version of a mapped definition with a plausible
bug (a dropped `return`, an off-by-one, an unchecked answer, `setInterval` for
`setTimeout`), under which TLC finds it violated.

### Fairness

`EngineSession`: weak fairness of every suspended invocation, since Redis replies,
file operations and timers complete in a running Node process; no fairness of
commands, sockets, crashes. This assumes that `fetchLatestBaileysVersion` (`session-manager.ts:89`), an HTTP
request to which this code gives no timeout, returns or fails. `WebhookDispatcher`: weak fairness of each coroutine
of each worker; BRPOP, httpx and Redis calls have timeouts. `MessageQueue`: weak
fairness of each worker and of the clock. Redis lists hand out tasks in order, so
no strong fairness is needed for a task to be taken. `ChannelService`: weak
fairness of the engine's poll and of each request once it has read its row, none
of its arrival or failure. A request whose flush waits for a row has no fair step
until the lock is free; that it gets one is what `EveryRequestEnds` shows, since
only finitely many requests can pass it. `ApiRequests`: weak fairness of each
request that is open, as its coroutine is scheduled and the poll counts its
rounds; nothing is asked of the engine, which need not answer or run at all.
`AiBot`: weak fairness of pending connects and timers, of the loops that were
started and of the bot's loop, since Claude's client answers or raises; none of
sockets opening, closing or receiving. `EveryMessageSettles` excepts an engine whose process has ended: a
reply then stays in the list. `AiPipeline`: weak fairness of each
listener and of the pipeline's loop, none of the engine.

### What the violations mean

Each shows what a comment or document promises and the code does not: see
`findings` in `PROJECT.json` with the quoted lines. In short: overlapping
`createSession` calls; a backoff timer that no stop cancels; answers of the
engine that go to the list of events while the API polls a key nobody writes;
polling loops of `connect.js` that outlive their socket; merges of settings that
overwrite one another.

Other differences between the parts, which the models contain and no run is
spent on:

- Engine: a logout clears the directory and not the Redis copy of the
  credentials (`session-manager.ts:263`), so the next boot restores the channel. A status whose write fails is not written again, so
  that the hash shows an older word, 'connected' after a logout or 'reconnecting' after an 'error'
  (`redis-bridge.ts:203`). A createSession that fails during a reconnection ends it with 'error',
  whatever is left of the budget (`session-manager.ts:311`). An 'open' that a stop
  overtakes leaves 'connected' for a stopped channel (`session-manager.ts:229`).
- Worker: `WebhookLog(...)` is given fields the table does not have, so no attempt
  is logged (`webhook_dispatcher.py:220`); the rate limit holds per process and not
  per channel (`message_queue.py:36`); a throttled message is put "at the front" by
  LPUSH, which is the end read last (`message_queue.py:101`).
- Channels: deleting a channel sends the engine nothing
  (`channel_service.py:182`); a merge into settings that are not empty assigns the dict it has changed in
  place, which the unit of work does not see (`channel_service.py:292`).
- Requests: a commit that fails after the answer 200 leaves a message that was sent without a row,
  with the versions of FastAPI that answer first (`database.py:62`); a deletion of a media that fails
  after its file is gone leaves the row (`media_service.py:149`); the engine has no case for any command a route waits for, so each of
  those routes ends in 500; `delete_message` raises after its push
  (`message_service.py:223`); archive, unarchive, unpin and unmute of a chat are answered
  as done without a command; media and quotes are sent under names the engine does not read;
  the test of a webhook in the settings sends nothing; the WebSocket subscribes to
  channels while the engine pushes to lists.
- Events: the id of a message is read as `id` (`event_handler.py:120`) and sent as `messageId`
  (`event-mapper.ts:209`), so every row has the empty id and the unique column refuses all but the
  first, and `participant` is null in a direct chat where the sender may not be
  (`models/message.py:66`); two states of a connection that two processes have in hand at once may
  be stored in either order, and a failure between the row and the key of a state leaves them different; `message.sent` and `message.status` carry no `id`, so no row is updated, and a named
  acknowledgement would fall to `sent`; `contact.update`, `chat.update` and
  `group.update` differ from the plural names of the handlers; `message.deleted`
  and `group.participants.update` have no handler; `presence.update` has no id;
  nothing pops `ai:pipeline:queue`.
- AI pipeline: the message it answers is never stored, so the next prompt only
  knows its own replies; a message whose text equals the last turn, the
  assistant's included, is not added.

## 4. Proofs

All for arbitrary constants that satisfy the named assumptions (`SocketAssumption`,
`RetryAssumption`, `DeliveryAssumption`, `AttemptAssumption`, `MessageAssumption`,
`LimitAssumption`, `RequestAssumption`, `RouteAssumption` and so on).

| Theorem | Module | Argument |
|---|---|---|
| `TypeCorrect`: `[]TypeOK` | `EngineSessionProofs` | one step per action |
| `BudgetHolds`: `[]RetryBudget` | `EngineSessionProofs` | inductive with the type invariant: only `Exhausted` raises the counter past the budget, and enters `giveUp` when it does |
| `ReconnectionsAreBounded`: `[]ReconnectNeverMultiplies` | `EngineSessionProofs` | a counting argument: every step hands on the token of a session (a suspended step, a timer, a live socket or a pending close), so tokens never outnumber the starts (`TokensBounded`). It needs that a socket closes once: no close is pending for a live socket, and two pending closes are of two sockets (`CloseOnce`) |
| `NoOrphanEver`: `[]NoOrphanSession` | `EngineSessionProofs` | a channel asked for once has one token: the close that is handled is that of its only socket, so no other live socket loses its entry in the map |
| `FailedForGood`: `[]FailedIsFinal` | `EngineSessionProofs` | `Exhausted` gives the only token away, so no timer, reconnection or socket is left (`FailedSpent`) |
| `LastWordBacked`: `[]LastWordIsBacked` | `EngineSessionProofs` | 'reconnecting' is the last word only while a reconnection is under way: every step that hands the reconnection on from there says something else. For 'connected', `Backing`, of a channel asked for once: the one socket that holds its token is the one in the map (`Mapped`); every update that waits for its handler is of a socket that still listens, or has its close behind it in the queue, or was overtaken by a stop (`Answered`), so an 'open' that is handled late is never the last word on a dead socket; and 'connected' is said only with such a socket or a reconnection (`Shown`). All of it is about `said`, so that it does not depend on which writes succeed. A socket that closes unheard, before its listeners exist, has emitted nothing. It rests on the counting invariant above, and on a socket being mapped only under its own channel (`Owned`) |
| `WebhookTypeCorrect`: `[]TypeOK` | `WebhookDispatcherProofs` | one step per action |
| `NeverDuplicated`, `NeverForgotten`, `AttemptsAreCounted` | `WebhookDispatcherProofs` | one inductive invariant: a delivery is at one place exactly when it is requested and not settled (`Accounted`), and its attempt number there is its number of POSTs (`Counted`). Neither is inductive alone: a task read by a second retry loop is only known to be gone because places are exclusive |
| `DispatcherImplementsDelivery`: `Spec => ImplementsDelivery` | `WebhookDispatcherProofs` | step simulation under the invariant above; scans, ZREM, requeues and retries map to stuttering |
| `QueueTypeCorrect`: `[]TypeOK` | `MessageQueueProofs` | one step per action |
| `QueueNeverForgets`: `[]NoneForgotten` | `MessageQueueProofs` | inductive with the type invariant: an end of a message is never undone (`EndsStay`), and a step takes a message out of a list or a hand only into another or into an end (`TakeKeeps`, `WorkKeeps`, `FaultKeeps`) |
| `MessagesHaveOneFate`: `[]OneFate` | `MessageQueueProofs` | `Budget`: the places of a message in the lists, the hands that hold it, its sends and its other ends weigh together no more than its push and one for each fault. Work and throttling move weight (`Share`), a fault may leave behind what was done and adds one. Without a fault the weight is one, and `NoneForgotten` says it is not zero |
| `WindowIsKept`: `[]WindowHoldsOneMore` | `MessageQueueProofs` | `RateInv`: for every age up to a window (`Paced`), the messages handed over in the last so many seconds are no more than the slots taken in them and one, and not one more while the last slot still waits for its message. The sums over ages are taken by induction on the age; that a slot is only taken where the window has room bounds the slots |
| `ChannelTypeCorrect`: `[]TypeOK` | `ChannelServiceProofs` | one step per action |
| `WritesKeepToTheirColumns`: `Spec => CommitsOwnColumns` | `ChannelServiceProofs` | only a commit changes a row, in the columns of `Dirty`, and these are among the columns its operation assigns because the copy is its assignment of the row it read (`Copies`) |
| `RowAgreesWithEngine`: `[]RowTellsTheSession` | `ChannelServiceProofs` | `Agreement`: at any moment the queue says what the row will say, that of the request that has pushed and not committed, else that of the row. Two such requests cannot exist beside each other unless one is excused, since each would hold the lock (`Locks`, `OneOrdered`); a request that never overlapped another one read the row as it still is (`Alone`) |
| `RequestsTypeCorrect`: `[]TypeOK` | `ApiRequestsProofs` | one step per action; what a request has still to do is a suffix of its plan |
| `RefusalsLeaveNoTrace`: `[]RefusedLeavesNoTrace` | `ApiRequestsProofs` | the check that refuses is the next step of the plan (the suffix again), and by `OrderAssumption`, that services look up what they need before their first effect, no step before it had one. TLC evaluates that assumption on the routes of the application: it is a fact about their methods, and one that is no accident of the scheduling |
| `RowsFollowAnswers`: `Spec => RowsChangeWithAnswers` | `ApiRequestsProofs` | rows change in `Commits` only, by what the transaction has added and deleted, and that is what the steps taken inserted and deleted; the request ends with it, and its answer is 200 whether it went out then or before |
| `MediaRowsHaveFiles`: `[]MediaRowHasFile` | `ApiRequestsProofs` | `Stored`: a media row, flushed or committed, has its file or a request for it has taken its removal, and a step once taken stays taken. By `StorageAssumption` services save a file before they insert its row |
| `SentMessagesHaveRows`: `[]SentMessageHasRow` | `ApiRequestsProofs` | `Posted`: once the command of a message is out, its row is in the transaction and nothing left of the plan could refuse the request. A request with the answer 200 that has ended has committed; one whose answer went out first is still closing until it commits or fails, and the transaction keeps the row until then. By `StorageAssumption` the row is inserted before the push and no service deletes a message; TLC evaluates this assumption on the routes too |
| `CommandsHaveOneFate`: `[]OneFatePerCommand` | `ApiRequestsProofs` | `Fated`: the places of a command in the list, the engine, the answers and the losses count one exactly when it is among the pushes its request has behind it in its plan, and zero before, so that the push which adds one finds none. The numbers of the commands tell two equal pushes of one plan apart |
| `TypeCorrect`: `[]TypeOK` | `AiPipelineProofs` | one step per action, with what ties the stage of a consumer to what it has in hand (`AtWork`) |
| `EventHasOneConsumer`: `[]OneConsumer` | `AiPipelineProofs` | the places of an event are counted (`CountInv`): a pop, a drop, an end, a cut or a pop whose reply is lost moves an event and copies none |
| `EverySubscriberIsTold`: `[]SubscribersAreTold` | `AiPipelineProofs` | `ToldInv`: a bus at the webhooks has told every subscriber but those it has still to tell, and it comes there whatever the handler did |
| `StateIsNotOvertaken`: `Spec => StatesGoForward` | `AiPipelineProofs` | `OrderInv`: no bus has in hand a state popped before another one that was not beside it, since such a state had left its bus when the other was popped, and what is popped was never at a bus before (one consumer per event). Only a bus writes, and only the state it has in hand (`OnlyBusesWrite`), whatever the writes before it did |
| `TheWholeConversationIsAsked`: `Spec => PromptIsTheConversation` | `AiPipelineProofs` | the fold of `Merge` is a function on the positions of the history (`FoldExists`), and at each position the roles of what is merged alternate while its texts, in order, are those of the turns so far (`SaidSoFar`); appending the task keeps this and padding adds only a filler at either end (`FixOrderSays`, `ConversationSays`). That the history is a sequence of turns (`HistoryType`) is an induction over the rows of the chat, and that the texts of a concatenation are the concatenation of the texts one over its parts (`FlattenConcat`) |
| `TypeCorrect`: `[]TypeOK` | `AiBotProofs` | one step per action, those of `EngineConnect` first |
| `MessageHasOneFate`: `[]OneFatePerMessage` | `AiBotProofs` | the places of a message are counted (`CountInv`): loops, bot, rejected sends, lost pops and the end of the engine move it, and only its arrival adds one |
| `AskedIsTheEndOfTheTalk`: `[]AskedInContext` | `AiBotProofs` | `ContextInv`: the history is a suffix of the talk, which appending the same turn to both and trimming preserve, and the bot that waits for Claude has just appended the message |

Every invariant, action property and refinement that a passing run checks is a theorem.
A proof that a thing
has one place or one fate counts: the lemmas of `Counting` say what an append, a
tail and a changed entry do to the number of times a value occurs, and each step
then moves one unit. `OneConsumer`, `OneFatePerMessage` and `OneFatePerCommand` add
numbers of places of different kinds, so that an event in two of them violates
the property as surely as one that is lost.

Two of the proofs reason about data that grows: the sums over the ages of a window and
the folds over the turns of a prompt. The library's induction rules take an operator
as a parameter, which the provers cannot instantiate. `Counting` states
induction over a set of numbers instead (`SetInduction`: a set of naturals with zero
that holds the successor of each of its members holds them all), which follows from
the well-foundedness of `<`, and derives from it that a function defined by
recursion exists (`Repetition`, `Iterates`). A fold, a flattening or a sum is such a
function, and a claim about it is proved of the set of the numbers for which it holds.

Only model-checked: liveness (`RestoreCompletes`, `ReconnectionGoesOn`,
`EveryDeliverySettles`, `EveryMessageSettles`, `EveryRequestEnds`,
`EveryEventSettles`), since the prover does not handle fairness and ENABLED.

Two proofs failed for good reasons. One corrected a model: a hit of the presence cache makes
`get_presence` return (`presence_service.py:75-79`), and `ApiRequests` had skipped the
remaining steps as if they were taken, which counted a command as pushed that
never was. No route of the application reaches the hit, as nothing but a completed
answer fills the cache and no answer ever comes, so no run could show it.
`Cached` now ends the handler where the code returns. The other corrected a
property: `PromptIsTheConversation` used to drop every turn with the text of the
filler before it compared, and so was wrong for a customer who writes just that
text. It now says which turns may be fillers: the first and the last one around
what was said. It also says that the message
is added unless the history ends with its text, and then only once.

## 5. Not modelled

- The media processor: nothing in the repository pushes to
  `media:process:queue`, and a task is one computation that sets one key.
- The agents (`api/app/agents`): no running code imports them.
- Service methods that nothing calls: `WebhookService.deliver_webhook` and
  `dispatch_event`, `MessageService.save_incoming` and `update_status`,
  `MediaService.save_from_url` and `save_from_base64`,
  `PresenceService.update_cache`, and the `sync_*` methods of chats, contacts and groups.
- The event handlers of qr, contacts, chats and groups, for which the engine
  publishes no event of their names.
- What rows, credentials, bodies and prompts contain, beyond what a guard reads;
  encodings; the health checks and the dashboard, which only read.
- Baileys, Redis, PostgreSQL and Claude themselves: their answers are free choices of the
  models, and their failures where the code goes on after one: the writes of a status, the answers of the
  engine and its pops (`EngineSession`, `ApiRequests`), the steps of a request with its commit, the tasks of the
  worker, the loops of the bot, of `connect.js`, of the event bus and of the pipeline. A Redis command
  takes effect once or not at all, with or without its reply; that the client library sends one again after
  a reconnection is not modelled, nor are two status writes that change places because a push before
  one of them has failed.
- `scripts/` and deployment files: a restart is an action of the components.
- Compositions that would only multiply states: `ApiRequests` reduces the engine to
  outcomes and `ChannelService` to the last lifecycle command; the races of
  sessions are `EngineSession`'s.
- The combination that `start_prod.sh` runs, the TypeScript engine with `run_ai.py`: `AiBot` composes the bot
  with `connect.js`, which is what `start.sh` runs. With the other engine a reply of the bot is a
  command as those of `ApiRequests` are, which the engine executes or loses in the same ways, and
  the bot pops and skips the engine's other events too, which no one else then sees.

What would come next: `ChannelService` and the event handler shown to implement
abstract specifications of their own, and a composition of `ChannelService` with
`EngineSession`, rows against sockets.
