--------------------------- MODULE EngineSession ---------------------------
(***************************************************************************)
(* The session lifecycle of the engine: engine/src/session-manager.ts with *)
(* the commands of engine/src/index.ts that drive it and the credential    *)
(* store of engine/src/redis-auth-state.ts.                                *)
(*                                                                         *)
(* The engine is one JavaScript thread.  Code between two awaits is atomic *)
(* and everything else interleaves: subscribe() does not await the command *)
(* it dispatches and Baileys does not await a listener, so several         *)
(* createSession, deleteSession and close handlers of one channel may be   *)
(* suspended at once.  flows[ch][stage] counts the invocations of channel  *)
(* ch suspended at each await; an action is what runs from one await to    *)
(* the next.  Redis commands share one connection and complete in the      *)
(* order they are issued, so a status is written by the step that calls    *)
(* publishStatus, unless the write fails, which setSessionStatus swallows; *)
(* and connection.update handlers, which all first await the same          *)
(* publishEvent, resume in the order of their events (inflight).           *)
(*                                                                         *)
(* Left out: the QR value (a key of its own that only get_qr reads), the   *)
(* events pushed for the API, message listeners, and the length of delays. *)
(***************************************************************************)
EXTENDS Naturals, Sequences, FiniteSets

CONSTANTS
  Channels,     \* channel ids
  Sockets,      \* Baileys sockets; a dead one is reused, so a small set is enough
  NoSocket,     \* the map has no entry
  Commands,     \* lifecycle commands the API sends, among "start" "stop" "delete"
  MaxRetries,   \* config.MAX_RECONNECT_RETRIES
  MaxCommands,  \* bound: commands dispatched in a behaviour
  MaxRestarts,  \* bound: restarts of the engine process
  Unwritten,    \* bound: the statuses whose write to Redis may fail
  MaxInflight,  \* bound: connection updates waiting for their publishEvent
  MaxQRs        \* bound: QR updates waiting for their publishEvent or their setQR

ASSUME SocketAssumption == IsFiniteSet(Sockets) /\ NoSocket \notin Sockets
ASSUME CommandAssumption == Commands \subseteq {"start", "stop", "delete"}
ASSUME RetryAssumption == MaxRetries \in Nat
ASSUME BoundAssumption == MaxCommands \in Nat /\ MaxRestarts \in Nat /\ MaxInflight \in Nat
                          /\ MaxQRs \in Nat

VARIABLES
  sessions,     \* SessionManager.sessions
  attempts,     \* SessionManager.reconnectState: intentos, 0 when there is no entry
  flows,        \* async invocations suspended at each stage
  restoring,    \* channels restoreAllSessions still waits for
  owner,        \* the channel a socket was made for
  live,         \* sockets whose connection has not ended
  opened,       \* live sockets that have reported 'open'
  listening,    \* live sockets whose listeners are registered
  registering,  \* sockets whose createSession awaits publishStatus('connecting')
  inflight,     \* connection updates whose handler awaits publishEvent
  disk,         \* SESSIONS_DIR/<channel>
  redisAuth,    \* channels with a wa:auth:<channel> hash
  status,       \* wa:session:<channel>.status
  said,         \* history: the last status the engine published, written or not
  stopped,      \* history: channels whose last lifecycle command was a stop or a delete
  overtaken,    \* history: channels stopped while an 'open' of their socket waited
  asked,        \* history: sessions asked for, by a command or the restore, since the boot
  issued,       \* number of commands dispatched, for the bound
  restarts      \* number of restarts, for the bound

socketVars == <<owner, live, opened, listening, registering>>
statusVars == <<status, said>>
boundVars == <<issued, restarts>>
vars == <<sessions, attempts, flows, restoring, socketVars, inflight, disk, redisAuth,
          statusVars, stopped, overtaken, asked, boundVars>>

Stages == {"load", "fetch", "reconnect", "timer", "giveUp", "remove", "logout", "qr"}
Statuses == {"none", "connecting", "qr", "connected", "reconnecting", "failed",
             "disconnected", "stopped", "deleted", "error"}
CloseReasons == {"lost", "loggedOut"}
Updates == {"qr", "open"} \union CloseReasons
Pending == [sock : Sockets, update : Updates]

-----------------------------------------------------------------------------
(* Suspended invocations.                                                  *)

Enter(ch, stage) == flows' = [flows EXCEPT ![ch][stage] = @ + 1]
Leave(ch, stage) ==
  /\ flows[ch][stage] > 0
  /\ flows' = [flows EXCEPT ![ch][stage] = @ - 1]
Move(ch, from, to) ==
  /\ flows[ch][from] > 0
  /\ flows' = [flows EXCEPT ![ch][from] = @ - 1, ![ch][to] = @ + 1]

(* publishStatus: the word is the engine's, but setSessionStatus swallows  *)
(* a failed HSET and the hash then keeps what it had.                      *)
Says(ch, word) ==
  /\ said' = [said EXCEPT ![ch] = word]
  /\ \/ status' = [status EXCEPT ![ch] = word]
     \/ word \in Unwritten /\ UNCHANGED status

NoFlows == [ch \in Channels |-> [stage \in Stages |-> 0]]

(* Sockets nothing refers to any more: makeWASocket may return any of them. *)
EventsOf(s) == {i \in DOMAIN inflight : inflight[i].sock = s}
FreeSockets ==
  {s \in Sockets : /\ s \notin live \union registering
                   /\ EventsOf(s) = {}
                   /\ \A ch \in Channels : sessions[ch] # s}

Restorable(d, r) == {ch \in Channels : d[ch] = "creds" \/ ch \in r}
One(set) == [ch \in Channels |-> IF ch \in set THEN 1 ELSE 0]
FlowsAtBoot(set) == [ch \in Channels |-> [NoFlows[ch] EXCEPT !["load"] = One(set)[ch]]]

-----------------------------------------------------------------------------
(* The state after main() has started and restoreAllSessions has called    *)
(* createSession for every channel with credentials on disk d or in Redis. *)
(* The batches of five are not told apart: a later batch is a slower load. *)
Booted(d, restored) ==
  /\ sessions' = [ch \in Channels |-> NoSocket]
  /\ attempts' = [ch \in Channels |-> 0]
  /\ flows' = FlowsAtBoot(restored)
  /\ restoring' = restored
  /\ asked' = One(restored)
  /\ live' = {} /\ opened' = {} /\ listening' = {} /\ registering' = {}
  /\ inflight' = <<>>
  /\ overtaken' = {}
  /\ disk' = d

(* The first boot restores the channels an earlier deployment had paired.  *)
Init ==
  /\ redisAuth \in SUBSET Channels
  /\ disk = [ch \in Channels |-> IF ch \in redisAuth THEN "creds" ELSE "absent"]
  /\ restoring = Restorable(disk, redisAuth)
  /\ flows = FlowsAtBoot(restoring)
  /\ asked = One(restoring)
  /\ sessions = [ch \in Channels |-> NoSocket]
  /\ attempts = [ch \in Channels |-> 0]
  /\ owner \in [Sockets -> Channels]
  /\ live = {} /\ opened = {} /\ listening = {} /\ registering = {}
  /\ inflight = <<>>
  /\ status = [ch \in Channels |-> "none"]
  /\ said = status
  /\ stopped = {} /\ overtaken = {}
  /\ issued = 0 /\ restarts = 0

-----------------------------------------------------------------------------
(* The listeners are removed, but not from an update already in hand.      *)
Overtakes(ch) ==
  overtaken' = IF \E i \in EventsOf(sessions[ch]) : inflight[i].update = "open"
               THEN overtaken \union {ch}
               ELSE overtaken

(* Mutation: stopSession that forgets removeAllListeners.                  *)
StopSession_KeepsListeners(ch) ==
  IF sessions[ch] = NoSocket
  THEN UNCHANGED <<sessions, attempts, live, opened, listening, statusVars,
                   overtaken>>
  ELSE /\ live' = live \ {sessions[ch]}
       /\ opened' = opened \ {sessions[ch]}
       /\ sessions' = [sessions EXCEPT ![ch] = NoSocket]
       /\ attempts' = [attempts EXCEPT ![ch] = 0]
       /\ Says(ch, "stopped")
       /\ Overtakes(ch)
       /\ UNCHANGED listening

(* Mutation: stopSession that forgets session.end().                       *)
StopSession_NoEnd(ch) ==
  IF sessions[ch] = NoSocket
  THEN UNCHANGED <<sessions, attempts, live, opened, listening, statusVars,
                   overtaken>>
  ELSE /\ listening' = listening \ {sessions[ch]}
       /\ sessions' = [sessions EXCEPT ![ch] = NoSocket]
       /\ attempts' = [attempts EXCEPT ![ch] = 0]
       /\ Says(ch, "stopped")
       /\ Overtakes(ch)
       /\ UNCHANGED <<live, opened>>

(* stopSession up to its publishStatus: no entry, no effect.               *)
StopSession(ch) ==
  IF sessions[ch] = NoSocket
  THEN UNCHANGED <<sessions, attempts, live, opened, listening, statusVars,
                   overtaken>>
  ELSE /\ live' = live \ {sessions[ch]}
       /\ opened' = opened \ {sessions[ch]}
       /\ listening' = listening \ {sessions[ch]}
       /\ sessions' = [sessions EXCEPT ![ch] = NoSocket]
       /\ attempts' = [attempts EXCEPT ![ch] = 0]
       /\ Says(ch, "stopped")
       /\ Overtakes(ch)

Dispatch(ch, command) ==
  /\ restoring = {}
  /\ command \in Commands
  /\ issued < MaxCommands
  /\ issued' = issued + 1
  /\ stopped' = IF command = "start" THEN stopped \ {ch} ELSE stopped \union {ch}

StartCommand(ch) ==
  /\ Dispatch(ch, "start")
  /\ StopSession(ch)
  /\ Enter(ch, "load")
  /\ asked' = [asked EXCEPT ![ch] = @ + 1]
  /\ UNCHANGED <<restoring, owner, registering, inflight, disk, redisAuth,
                 restarts>>

StopCommand(ch) ==
  /\ Dispatch(ch, "stop")
  /\ StopSession(ch)
  /\ UNCHANGED <<flows, restoring, owner, registering, inflight, disk, redisAuth,
                 asked, restarts>>

DeleteCommand(ch) ==
  /\ Dispatch(ch, "delete")
  /\ StopSession(ch)
  /\ Enter(ch, "remove")
  /\ UNCHANGED <<restoring, owner, registering, inflight, disk, redisAuth, asked,
                 restarts>>

(* deleteSession after fs.rm: the disk is cleared, the Redis hash is not.  *)
RemoveAuth(ch) ==
  /\ Leave(ch, "remove")
  /\ disk' = [disk EXCEPT ![ch] = "absent"]
  /\ Says(ch, "deleted")
  /\ UNCHANGED <<sessions, attempts, restoring, socketVars, inflight, redisAuth,
                 stopped, overtaken, asked, boundVars>>

-----------------------------------------------------------------------------
(* createSession, from one await to the next.                              *)

Mkdir(d) == IF d = "absent" THEN "dir" ELSE d

(* useRedisBackedAuthState: the Redis files are written over the disk.     *)
LoadAuth(ch) ==
  /\ Move(ch, "load", "fetch")
  /\ disk' = [disk EXCEPT ![ch] = IF ch \in redisAuth THEN "creds" ELSE Mkdir(@)]
  /\ UNCHANGED <<sessions, attempts, restoring, socketVars, inflight, redisAuth,
                 statusVars, stopped, overtaken, asked, boundVars>>

(* makeWASocket, the map entry, and the call of publishStatus.             *)
OpenSocket(ch) ==
  \E s \in FreeSockets :
    /\ Leave(ch, "fetch")
    /\ owner' = [owner EXCEPT ![s] = ch]
    /\ live' = live \union {s}
    /\ registering' = registering \union {s}
    /\ sessions' = [sessions EXCEPT ![ch] = s]
    /\ Says(ch, "connecting")
    /\ UNCHANGED <<attempts, restoring, opened, listening, inflight, disk,
                   redisAuth, stopped, overtaken, asked, boundVars>>

(* Mutation: the status is published once the socket is made and heard.    *)
Register_Connected(s) ==
  /\ s \in registering
  /\ registering' = registering \ {s}
  /\ listening' = IF s \in live THEN listening \union {s} ELSE listening
  /\ restoring' = restoring \ {owner[s]}
  /\ Says(owner[s], "connected")
  /\ UNCHANGED <<sessions, attempts, flows, owner, live, opened, inflight, disk,
                 redisAuth, stopped, overtaken, asked, boundVars>>

(* The listeners are registered; a socket that has ended emits no more.    *)
Register(s) ==
  /\ s \in registering
  /\ registering' = registering \ {s}
  /\ listening' = IF s \in live THEN listening \union {s} ELSE listening
  /\ restoring' = restoring \ {owner[s]}
  /\ UNCHANGED <<sessions, attempts, flows, owner, live, opened, inflight, disk,
                 redisAuth, statusVars, stopped, overtaken, asked, boundVars>>

(* Mutation: a failed createSession leaves the restore waiting for it.     *)
CreateFails_Unsettled(ch) ==
  /\ Says(ch, "error")
  /\ UNCHANGED <<sessions, attempts, restoring, socketVars, inflight, redisAuth,
                 stopped, overtaken, asked, boundVars>>

(* An error before the socket exists: status 'error' and nothing else.     *)
(* Whoever called createSession logs it or answers the command with it.    *)
CreateFails(ch) ==
  /\ Says(ch, "error")
  /\ restoring' = restoring \ {ch}
  /\ UNCHANGED <<sessions, attempts, socketVars, inflight, redisAuth, stopped,
                 overtaken, asked, boundVars>>

LoadFails(ch) ==
  /\ Leave(ch, "load")
  /\ disk' \in {disk, [disk EXCEPT ![ch] = Mkdir(@)]}
  /\ CreateFails(ch)

FetchFails(ch) ==
  /\ Leave(ch, "fetch")
  /\ UNCHANGED disk
  /\ CreateFails(ch)

-----------------------------------------------------------------------------
(* What Baileys and WhatsApp do.  An update reaches a handler only if the  *)
(* listeners are registered; nothing is emitted after a close.             *)

Emit(s, update) ==
  IF s \in listening
  THEN /\ Len(inflight) < MaxInflight
       /\ inflight' = Append(inflight, [sock |-> s, update |-> update])
  ELSE UNCHANGED inflight

QRsInHand == {i \in DOMAIN inflight : inflight[i].update = "qr"}

SocketQR(s) ==
  /\ s \in listening \ opened
  /\ Cardinality(QRsInHand) + flows[owner[s]]["qr"] < MaxQRs
  /\ Emit(s, "qr")
  /\ UNCHANGED <<sessions, attempts, flows, restoring, socketVars, disk, redisAuth,
                 statusVars, stopped, overtaken, asked, boundVars>>

SocketOpens(s) ==
  /\ s \in live \ opened
  /\ opened' = opened \union {s}
  /\ Emit(s, "open")
  /\ UNCHANGED <<sessions, attempts, flows, restoring, owner, live, listening,
                 registering, disk, redisAuth, statusVars, stopped, overtaken,
                 asked, boundVars>>

SocketCloses(s, reason) ==
  /\ s \in live
  /\ live' = live \ {s}
  /\ opened' = opened \ {s}
  /\ listening' = listening \ {s}
  /\ Emit(s, reason)
  /\ UNCHANGED <<sessions, attempts, flows, restoring, owner, registering, disk,
                 redisAuth, statusVars, stopped, overtaken, asked, boundVars>>

-----------------------------------------------------------------------------
(* Restarts.  A redeploy may also lose the disk (redis-auth-state.ts:2).   *)

Reboot ==
  \E d \in {disk, [ch \in Channels |-> "absent"]} :
    /\ Booted(d, Restorable(d, redisAuth))
    /\ UNCHANGED <<owner, redisAuth, stopped, issued>>

Crash ==
  /\ restarts < MaxRestarts
  /\ restarts' = restarts + 1
  /\ Reboot
  /\ UNCHANGED <<statusVars>>

(* gracefulShutdown: stopAll publishes 'stopped' for every mapped session; *)
(* the hashes of those in heard take it.                                   *)
Shutdown ==
  /\ restarts < MaxRestarts
  /\ restarts' = restarts + 1
  /\ Reboot
  /\ said' = [ch \in Channels |-> IF sessions[ch] = NoSocket THEN said[ch] ELSE "stopped"]
  /\ \E heard \in SUBSET {ch \in Channels : sessions[ch] # NoSocket} :
       /\ status' = [ch \in Channels |-> IF ch \in heard THEN "stopped" ELSE status[ch]]
       /\ "stopped" \in Unwritten \/ \A ch \in Channels : sessions[ch] = NoSocket \/ ch \in heard

(* saveCreds: the file write has no directory to go to once the directory  *)
(* is removed; the rejection is nobody's, and the process shuts down.      *)
(* Else the files are uploaded, unless Redis fails or they are gone again. *)
CredsUpdate(s) ==
  /\ s \in listening
  /\ IF disk[owner[s]] = "absent"
     THEN Shutdown
     ELSE /\ disk' = [disk EXCEPT ![owner[s]] = "creds"]
          /\ redisAuth' \in {redisAuth, redisAuth \union {owner[s]}}
          /\ UNCHANGED <<sessions, attempts, flows, restoring, socketVars, inflight,
                         statusVars, stopped, overtaken, asked, boundVars>>

-----------------------------------------------------------------------------
(* handleConnectionUpdate, after its publishEvent, for the oldest update.  *)

Handle(update) ==
  /\ inflight # <<>>
  /\ Head(inflight).update = update
  /\ inflight' = Tail(inflight)

Handled == owner[Head(inflight).sock]

(* Only the status of a QR update waits for one more command, setQR.       *)
HandleQR ==
  /\ Handle("qr")
  /\ Enter(Handled, "qr")
  /\ UNCHANGED <<sessions, attempts, restoring, socketVars, disk, redisAuth,
                 statusVars, stopped, overtaken, asked, boundVars>>

ShowQR(ch) ==
  /\ Leave(ch, "qr")
  /\ Says(ch, "qr")
  /\ UNCHANGED <<sessions, attempts, restoring, socketVars, inflight, disk,
                 redisAuth, stopped, overtaken, asked, boundVars>>

HandleOpen ==
  /\ Handle("open")
  /\ attempts' = [attempts EXCEPT ![Handled] = 0]
  /\ Says(Handled, "connected")
  /\ UNCHANGED <<sessions, flows, restoring, socketVars, disk, redisAuth, stopped,
                 overtaken, asked, boundVars>>

(* The entry of the channel goes, whichever socket it holds by now.        *)
HandleLost ==
  /\ Handle("lost")
  /\ sessions' = [sessions EXCEPT ![Handled] = NoSocket]
  /\ Says(Handled, "reconnecting")
  /\ Enter(Handled, "reconnect")
  /\ UNCHANGED <<attempts, restoring, socketVars, disk, redisAuth, stopped,
                 overtaken, asked, boundVars>>

HandleLoggedOut ==
  /\ Handle("loggedOut")
  /\ sessions' = [sessions EXCEPT ![Handled] = NoSocket]
  /\ Says(Handled, "disconnected")
  /\ Enter(Handled, "logout")
  /\ UNCHANGED <<attempts, restoring, socketVars, disk, redisAuth, stopped,
                 overtaken, asked, boundVars>>

ForgetLoggedOut(ch) ==
  /\ Leave(ch, "logout")
  /\ disk' = [disk EXCEPT ![ch] = "absent"]
  /\ attempts' = [attempts EXCEPT ![ch] = 0]
  /\ UNCHANGED <<sessions, restoring, socketVars, inflight, redisAuth, statusVars,
                 stopped, overtaken, asked, boundVars>>

-----------------------------------------------------------------------------
(* reconnectWithBackoff.                                                   *)

(* Mutation: no check of MAX_RECONNECT_RETRIES.                            *)
ArmTimer_NoLimit(ch) ==
  /\ Move(ch, "reconnect", "timer")
  /\ attempts' = [attempts EXCEPT ![ch] = @ + 1]
  /\ UNCHANGED <<sessions, restoring, socketVars, inflight, disk, redisAuth,
                 statusVars, stopped, overtaken, asked, boundVars>>

(* Mutation: the delay is computed but nothing is scheduled.               *)
ArmTimer_Forgotten(ch) ==
  /\ attempts[ch] + 1 <= MaxRetries
  /\ Leave(ch, "reconnect")
  /\ attempts' = [attempts EXCEPT ![ch] = @ + 1]
  /\ UNCHANGED <<sessions, restoring, socketVars, inflight, disk, redisAuth,
                 statusVars, stopped, overtaken, asked, boundVars>>

ArmTimer(ch) ==
  /\ attempts[ch] + 1 <= MaxRetries
  /\ Move(ch, "reconnect", "timer")
  /\ attempts' = [attempts EXCEPT ![ch] = @ + 1]
  /\ UNCHANGED <<sessions, restoring, socketVars, inflight, disk, redisAuth,
                 statusVars, stopped, overtaken, asked, boundVars>>

(* Mutation: the return after publishing 'failed' is missing.              *)
Exhausted_NoReturn(ch) ==
  /\ attempts[ch] + 1 > MaxRetries
  /\ Move(ch, "reconnect", "timer")
  /\ attempts' = [attempts EXCEPT ![ch] = 0]
  /\ Says(ch, "failed")
  /\ UNCHANGED <<sessions, restoring, socketVars, inflight, disk, redisAuth,
                 stopped, overtaken, asked, boundVars>>

Exhausted(ch) ==
  /\ attempts[ch] + 1 > MaxRetries
  /\ Move(ch, "reconnect", "giveUp")
  /\ attempts' = [attempts EXCEPT ![ch] = @ + 1]
  /\ Says(ch, "failed")
  /\ UNCHANGED <<sessions, restoring, socketVars, inflight, disk, redisAuth,
                 stopped, overtaken, asked, boundVars>>

GiveUp(ch) ==
  /\ Leave(ch, "giveUp")
  /\ attempts' = [attempts EXCEPT ![ch] = 0]
  /\ UNCHANGED <<sessions, restoring, socketVars, inflight, disk, redisAuth,
                 statusVars, stopped, overtaken, asked, boundVars>>

(* Mutation: setInterval in place of setTimeout.                           *)
TimerFires_Interval(ch) ==
  /\ flows[ch]["timer"] > 0
  /\ Enter(ch, "load")
  /\ StopSession(ch)
  /\ UNCHANGED <<restoring, owner, registering, inflight, disk, redisAuth, stopped,
                 asked, boundVars>>

(* The delay is over: createSession, which first stops a mapped session.   *)
TimerFires(ch) ==
  /\ Move(ch, "timer", "load")
  /\ StopSession(ch)
  /\ UNCHANGED <<restoring, owner, registering, inflight, disk, redisAuth, stopped,
                 asked, boundVars>>

-----------------------------------------------------------------------------
(* The engine's own steps, the outside world's, and the specification.     *)

Step(ch) ==
  \/ LoadAuth(ch) \/ LoadFails(ch) \/ OpenSocket(ch) \/ FetchFails(ch)
  \/ ArmTimer(ch) \/ Exhausted(ch) \/ GiveUp(ch) \/ TimerFires(ch)
  \/ RemoveAuth(ch) \/ ForgetLoggedOut(ch) \/ ShowQR(ch)

HandleUpdate == HandleQR \/ HandleOpen \/ HandleLost \/ HandleLoggedOut

Next ==
  \/ \E ch \in Channels :
       StartCommand(ch) \/ StopCommand(ch) \/ DeleteCommand(ch) \/ Step(ch)
  \/ \E s \in Sockets :
       \/ Register(s) \/ CredsUpdate(s) \/ SocketQR(s) \/ SocketOpens(s)
       \/ \E reason \in CloseReasons : SocketCloses(s, reason)
  \/ HandleUpdate
  \/ Crash \/ Shutdown

Spec == Init /\ [][Next]_vars

(* Every suspended invocation is resumed: a Redis reply, a file operation  *)
(* or a timer of the event loop.  Nothing is promised about WhatsApp, the  *)
(* clients or crashes.                                                     *)
Fairness ==
  /\ \A ch \in Channels :
       /\ WF_vars(LoadAuth(ch) \/ LoadFails(ch))
       /\ WF_vars(OpenSocket(ch) \/ FetchFails(ch))
       /\ WF_vars(ArmTimer(ch) \/ Exhausted(ch))
       /\ WF_vars(TimerFires(ch))
       /\ WF_vars(GiveUp(ch))
       /\ WF_vars(RemoveAuth(ch))
       /\ WF_vars(ForgetLoggedOut(ch))
       /\ WF_vars(ShowQR(ch))
  /\ \A s \in Sockets : WF_vars(Register(s))
  /\ WF_vars(HandleUpdate)

FairSpec == Spec /\ Fairness
-----------------------------------------------------------------------------
(* Properties.                                                             *)

(* Every variable keeps its type; the maps are total over the channels.    *)
TypeOK ==
  /\ sessions \in [Channels -> Sockets \union {NoSocket}]
  /\ attempts \in [Channels -> Nat]
  /\ flows \in [Channels -> [Stages -> Nat]]
  /\ restoring \in SUBSET Channels
  /\ owner \in [Sockets -> Channels]
  /\ live \in SUBSET Sockets
  /\ opened \in SUBSET live
  /\ listening \in SUBSET live
  /\ registering \in SUBSET Sockets
  /\ inflight \in Seq(Pending)
  /\ disk \in [Channels -> {"absent", "dir", "creds"}]
  /\ redisAuth \in SUBSET Channels
  /\ status \in [Channels -> Statuses] /\ said \in [Channels -> Statuses]
  /\ stopped \in SUBSET Channels /\ overtaken \in SUBSET Channels
  /\ asked \in [Channels -> Nat]
  /\ issued \in Nat /\ restarts \in Nat

(* A close handler resumes at most once per socket, and takes the place of *)
(* the socket: what keeps a channel going is a live socket, a close not    *)
(* handled yet, or a suspended step of the reconnection.                   *)
ClosePending(s) == \E i \in EventsOf(s) : inflight[i].update = "lost"
Sustaining(ch) == {s \in Sockets : owner[s] = ch /\ (s \in live \/ ClosePending(s))}
Reconnecting(ch) == flows[ch]["load"] + flows[ch]["fetch"] + flows[ch]["reconnect"]
                    + flows[ch]["timer"]

(* However closes, timers and commands interleave, reconnecting never      *)
(* multiplies sessions: a channel has at most as many sockets and pending  *)
(* reconnections as sessions were asked for since the boot.                *)
ReconnectNeverMultiplies ==
  \A ch \in Channels : Cardinality(Sustaining(ch)) + Reconnecting(ch) <= asked[ch]

(* A channel asked for once has no live socket outside the sessions map:   *)
(* every socket WhatsApp is connected to can be stopped and sent through.  *)
NoOrphanSession ==
  \A ch \in Channels : asked[ch] <= 1 =>
    \A s \in live : owner[s] = ch => sessions[ch] = s

(* The counter of reconnectWithBackoff exceeds the budget only by the      *)
(* invocations that are giving up, so no timer is armed beyond it.         *)
RetryBudget ==
  \A ch \in Channels : attempts[ch] <= MaxRetries + flows[ch]["giveUp"]

(* Status 'failed' is the end of the reconnection: with a single session   *)
(* asked for, no timer, no createSession and no socket is left behind it.  *)
FailedIsFinal ==
  \A ch \in Channels : status[ch] = "failed" /\ restarts = 0 /\ asked[ch] <= 1 =>
    Sustaining(ch) = {} /\ Reconnecting(ch) = 0

(* A socket that closes while createSession awaits publishStatus, before   *)
(* its listeners exist, is lost for good, and an update may be handled     *)
(* after a stop.  All the same the last word of the engine is not hollow   *)
(* while Redis shows it: 'reconnecting' has a reconnection under way, and  *)
(* 'connected', for a channel asked for once, a live socket, a close that  *)
(* waits for its handler or a reconnection, unless a stop came while that  *)
(* very 'open' waited for its handler.  (A word whose write failed leaves  *)
(* the one before it in Redis, with whatever is behind it by then.)        *)
Unheard(s) == \E i \in EventsOf(s) : inflight[i].update \in CloseReasons
Backed(ch) ==
  \/ sessions[ch] \in live \/ Unheard(sessions[ch])
  \/ Reconnecting(ch) > 0
LastWordIsBacked ==
  \A ch \in Channels : status[ch] = said[ch] =>
    /\ status[ch] = "reconnecting" /\ asked[ch] > 0 => Reconnecting(ch) > 0
    /\ status[ch] = "connected" /\ asked[ch] = 1 => Backed(ch) \/ ch \in overtaken

(* The restore of a boot always ends, so commands are listened to again.   *)
RestoreCompletes == restoring # {} ~> restoring = {}

(* 'reconnecting' is never the engine's last word for good on a channel it *)
(* runs: an attempt, 'failed', 'error' or a command's word follows, unless *)
(* a restart finds no credentials to restore the channel with.             *)
ReconnectionGoesOn ==
  \A ch \in Channels :
    (said[ch] = "reconnecting" /\ asked[ch] > 0)
      ~> (said[ch] # "reconnecting" \/ asked[ch] = 0)

-----------------------------------------------------------------------------
(* What the comments of the source say and the code does not do.           *)

(* "Si ya existe una sesion activa, la cierra primero" (createSession): a  *)
(* channel never has two connected sockets.                                *)
OneSessionPerChannel ==
  \A s, t \in live : owner[s] = owner[t] => s = t

(* stop_session answers 'Sesion detenida': until the next start_session    *)
(* the channel gets no new session.                                        *)
StopIsFinal ==
  [][\A ch \in stopped : sessions'[ch] \in {NoSocket, sessions[ch]}]_vars
=============================================================================
