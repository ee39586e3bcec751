---------------------------- MODULE EventHandler ----------------------------
(***************************************************************************)
(* event_bus.py and event_handler.py: the listener of each API process     *)
(* pops wa:events:queue and handles one event after the other, as main.py  *)
(* has it when its EventHandler lines are not commented out.  scripts/     *)
(* start.sh may run several API processes, each with a bus of its own.     *)
(*                                                                         *)
(* One channel.  A bus is at an await of its handler: a transaction with   *)
(* the database is one step, as nothing another process does lies between  *)
(* its statement and its commit.  Active webhooks do not change.           *)
(***************************************************************************)
EXTENDS Sequences, FiniteSets, EventMapper

CONSTANTS
    Events,      \* the entries of the list in a run, by name
    Report,      \* what each of them reports: Baileys, or the engine itself
    Days,        \* bound: the sets of events that make a run
    Buses,       \* API processes
    None,        \* no event
    Hooks,       \* active webhooks of the channel
    Subscribed,  \* the event names each of them is subscribed to
    MaxFaults    \* bound: failures of a statement or of a process

ASSUME EventAssumption == None \notin Events /\ Days \subseteq SUBSET Events
ASSUME HookAssumption == Subscribed \in [Hooks -> SUBSET STRING] /\ MaxFaults \in Nat

VARIABLES
    day,         \* the events of the run
    silent,      \* those the engine has not published yet
    events,      \* wa:events:queue, oldest first
    at,          \* a bus is at "rpop", "handle", "flag", "cache" or "hooks"
    hand,        \* the event it handles
    todo,        \* the webhooks it has a task still to push for
    messages,    \* the rows of the table, in the order of their timestamps
    status,      \* the event the channel's row has its status from
    cached,      \* the event the key wa:status:{channel} has its status from
    aiQueue,     \* events in ai:pipeline:queue, which nothing pops
    tasks,       \* webhook:queue, as webhook and event
    handled,     \* events whose handling ended
    unsaved,     \* events whose handler failed in PostgreSQL or Redis
    cut,         \* events cut off before the last task, or lost on the way
    popped,      \* history: the states buses have popped, with what else was in hand
    faults       \* failures so far, for the bound

busVars == <<at, hand, todo, status, cached, aiQueue, tasks, handled, unsaved, cut>>
handlerVars == <<day, silent, events, messages, popped, faults, busVars>>

Event == [e \in Events |-> Published(Report[e])]
Name(e) == Event[e].event
Data(e) == Event[e].data

HandlerInit ==
    /\ day \in Days /\ silent = day
    /\ events = <<>>
    /\ at = [b \in Buses |-> "rpop"]
    /\ hand = [b \in Buses |-> None]
    /\ todo = [b \in Buses |-> {}]
    /\ messages = <<>>
    /\ status = None /\ cached = None
    /\ aiQueue = {} /\ tasks = {}
    /\ handled = {} /\ unsaved = {} /\ cut = {}
    /\ popped = <<>>
    /\ faults = 0

\* RedisBridge.publish; listeners await different things before they reach it.
Publishes(e) ==
    /\ e \in silent
    /\ silent' = silent \ {e}
    /\ events' = Append(events, e)
    /\ UNCHANGED <<day, messages, popped, faults, busVars>>

\* What the buses have in hand.
InHand == {hand[b] : b \in Buses} \ {None}

\* Mutation: LINDEX, which leaves the event in the list.
Pop_Peek == events # <<>> /\ events' = events

\* The oldest event leaves the list for a consumer.
Pop == events # <<>> /\ events' = Tail(events)

\* The list gives an event away, and the answer of Redis does not arrive.
PopFails ==
    /\ faults < MaxFaults
    /\ faults' = faults + 1
    /\ Pop
    /\ cut' = cut \union {Head(events)}
    /\ UNCHANGED <<day, silent, messages, popped, at, hand, todo, status, cached, aiQueue, tasks,
                   handled, unsaved>>

Pops(b) ==
    LET e == Head(events)
    IN  /\ at[b] = "rpop"
        /\ Pop
        /\ at' = [at EXCEPT ![b] = "handle"]
        /\ hand' = [hand EXCEPT ![b] = e]
        /\ popped' = IF Name(e) = "connection.update"
                     THEN Append(popped, [event |-> e, beside |-> InHand]) ELSE popped
        /\ UNCHANGED <<day, silent, messages, todo, status, cached, aiQueue, tasks, handled,
                       unsaved, cut, faults>>

\* The bus is in its handler, with an event of that name.
Handles(b, names) == at[b] = "handle" /\ Name(hand[b]) \in names

Hear(e) == {h \in Hooks : Subscribed[h] \cap {"*", Name(e)} # {}}

\* The handler is over: _dispatch_webhooks reads the webhooks.
ToHooks(b) ==
    /\ at' = [at EXCEPT ![b] = "hooks"]
    /\ todo' = [todo EXCEPT ![b] = Hear(hand[b])]

To(b, stage) ==
    /\ at' = [at EXCEPT ![b] = stage]
    /\ UNCHANGED todo

Row(e) ==
    [by |-> e, wa |-> MessageIdWa(Data(e)), chat |-> Get(Data(e), "chat_id", Data(e).remoteJid),
     mine |-> FALSE, sender |-> Sender(Data(e)), type |-> MessageType(Data(e)),
     text |-> Get(Data(e), "body", Get(Data(e), "text", "")), status |-> "delivered"]

\* Mutation: the column sender is nullable.
Storable_Nullable(row) ==
    row.wa # "null" => \A i \in DOMAIN messages : messages[i].wa # row.wa

\* sender may not be null, and message_id_wa is unique unless it is null.
Storable(row) ==
    /\ row.sender # "null"
    /\ row.wa # "null" => \A i \in DOMAIN messages : messages[i].wa # row.wa

\* Mutation: what the handler raises is not caught by _dispatch_event, and the
\* bus goes on with the next event.
Stores_Uncaught(b) ==
    /\ Handles(b, {"message.received"})
    /\ IF Storable(Row(hand[b]))
       THEN messages' = Append(messages, Row(hand[b])) /\ To(b, "flag") /\ UNCHANGED <<hand, handled>>
       ELSE /\ To(b, "rpop") /\ UNCHANGED messages
            /\ handled' = handled \union {hand[b]}
            /\ hand' = [hand EXCEPT ![b] = None]
    /\ UNCHANGED <<day, silent, events, popped, status, cached, aiQueue, tasks, unsaved, cut, faults>>

\* message.received: an INSERT that violates a constraint is rolled back, and
\* its exception ends the handler.
Stores(b) ==
    /\ Handles(b, {"message.received"})
    /\ IF Storable(Row(hand[b]))
       THEN messages' = Append(messages, Row(hand[b])) /\ To(b, "flag")
       ELSE UNCHANGED messages /\ ToHooks(b)
    /\ UNCHANGED <<day, silent, events, popped, hand, status, cached, aiQueue, tasks, handled,
                   unsaved, cut, faults>>

\* wa:ai_enabled is set and deleted by others.
Flags(b) ==
    /\ at[b] = "flag"
    /\ \E on \in BOOLEAN : aiQueue' = IF on THEN aiQueue \union {hand[b]} ELSE aiQueue
    /\ ToHooks(b)
    /\ UNCHANGED <<day, silent, events, messages, popped, hand, status, cached, tasks, handled,
                   unsaved, cut, faults>>

\* message.sent and message.status: the UPDATE of the row with that id, if any.
Marks(b) ==
    LET data == Data(hand[b])
        new == IF Name(hand[b]) = "message.sent" THEN "sent" ELSE AckStatus(data)
    IN  /\ Handles(b, {"message.sent", "message.status"})
        /\ messages' = [i \in DOMAIN messages |->
                            IF Truthy(RowId(data)) /\ messages[i].wa = RowId(data)
                            THEN [messages[i] EXCEPT !.status = new] ELSE messages[i]]
        /\ ToHooks(b)
        /\ UNCHANGED <<day, silent, events, popped, hand, status, cached, aiQueue, tasks, handled,
                       unsaved, cut, faults>>

\* Whether a connection.update says a state the handler has a status for.
Mapped(e) == Data(e).connection \in DOMAIN StatusMap

SetsStatus(b) ==
    /\ Handles(b, {"connection.update"})
    /\ IF Mapped(hand[b])
       THEN status' = hand[b] /\ To(b, "cache")
       ELSE UNCHANGED status /\ ToHooks(b)
    /\ UNCHANGED <<day, silent, events, messages, popped, hand, cached, aiQueue, tasks, handled,
                   unsaved, cut, faults>>

\* SET wa:status:{channel_id}
Caches(b) ==
    /\ at[b] = "cache"
    /\ cached' = hand[b]
    /\ ToHooks(b)
    /\ UNCHANGED <<day, silent, events, messages, popped, hand, status, aiQueue, tasks, handled,
                   unsaved, cut, faults>>

\* No handler has that name, or it finds no id: presence.update.
Ignores(b) ==
    /\ Handles(b, {"presence.update", "group.update", "contact.update", "chat.update",
                   "message.deleted", "group.participants.update", "status.update",
                   "command.response"})
    /\ ToHooks(b)
    /\ UNCHANGED <<day, silent, events, messages, popped, hand, status, cached, aiQueue, tasks,
                   handled, unsaved, cut, faults>>

\* LPUSH webhook:queue
Notifies(b) ==
    /\ at[b] = "hooks"
    /\ \E h \in todo[b] :
        /\ tasks' = tasks \union {<<h, hand[b]>>}
        /\ todo' = [todo EXCEPT ![b] = @ \ {h}]
    /\ UNCHANGED <<day, silent, events, messages, popped, at, hand, status, cached, aiQueue,
                   handled, unsaved, cut, faults>>

Ends(b) ==
    /\ at[b] = "hooks" /\ todo[b] = {}
    /\ at' = [at EXCEPT ![b] = "rpop"]
    /\ hand' = [hand EXCEPT ![b] = None]
    /\ handled' = handled \union {hand[b]}
    /\ UNCHANGED <<day, silent, events, messages, popped, todo, status, cached, aiQueue, tasks,
                   unsaved, cut, faults>>

\* A statement of a handler fails: a connection.update goes on to the key,
\* the other handlers end, by a return or by the exception.
HandlerFails(b) ==
    /\ at[b] \in {"handle", "flag", "cache"}
    /\ faults < MaxFaults
    /\ faults' = faults + 1
    /\ unsaved' = unsaved \union {hand[b]}
    /\ IF Handles(b, {"connection.update"}) /\ Mapped(hand[b]) THEN To(b, "cache") ELSE ToHooks(b)
    /\ UNCHANGED <<day, silent, events, messages, popped, hand, status, cached, aiQueue, tasks,
                   handled, cut>>

\* Mutation: the event of a failed dispatch is put back into the list.
IsCut_Requeued(b) ==
    /\ at[b] # "rpop"
    /\ faults < MaxFaults
    /\ faults' = faults + 1
    /\ events' = Append(events, hand[b])
    /\ at' = [at EXCEPT ![b] = "rpop"]
    /\ hand' = [hand EXCEPT ![b] = None]
    /\ todo' = [todo EXCEPT ![b] = {}]
    /\ UNCHANGED <<day, silent, messages, popped, status, cached, aiQueue, tasks, handled, unsaved, cut>>

\* stop() cancels the listener, the process dies, or _dispatch_webhooks fails.
IsCut(b) ==
    /\ at[b] # "rpop"
    /\ faults < MaxFaults
    /\ faults' = faults + 1
    /\ cut' = cut \union {hand[b]}
    /\ at' = [at EXCEPT ![b] = "rpop"]
    /\ hand' = [hand EXCEPT ![b] = None]
    /\ todo' = [todo EXCEPT ![b] = {}]
    /\ UNCHANGED <<day, silent, events, messages, popped, status, cached, aiQueue, tasks, handled,
                   unsaved>>

Listen(b) ==
    \/ Pops(b) \/ Stores(b) \/ Flags(b) \/ Marks(b) \/ SetsStatus(b) \/ Caches(b)
    \/ Ignores(b) \/ Notifies(b) \/ Ends(b)
=============================================================================
