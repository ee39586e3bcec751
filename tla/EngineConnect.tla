--------------------------- MODULE EngineConnect ---------------------------
(***************************************************************************)
(* engine/connect.js, the engine that start.sh runs: one channel, whose    *)
(* sockets come and go, and the loops that pop wa:cmd:queue.               *)
(*                                                                         *)
(* Every connect() makes a socket and starts one more loop with it, and    *)
(* main() starts one without a socket.  No loop ever ends: those of closed *)
(* sockets go on popping commands.  A loop that has no socket drops the    *)
(* messages it pops; a send may fail, on a closed socket or an open one,   *)
(* and its catch is empty.                                                 *)
(*                                                                         *)
(* Nothing catches what fails elsewhere (a listener's write to Redis, the  *)
(* connect() of a timer): Node ends the process for the unhandled          *)
(* rejection, and start.sh starts it only once.                            *)
(***************************************************************************)
EXTENDS Naturals, Sequences, FiniteSets

CONSTANTS
    Sockets,     \* 1..n: the sockets that may be made, in this order; bounds connect()
    NoSocket,    \* the `null` of pollCmds(null)
    Messages,    \* messages that contacts write
    Start        \* the start_session command (any other command is a reply)

ASSUME SocketAssumption == Sockets \subseteq Nat /\ NoSocket \notin Sockets
ASSUME CommandAssumption == Start \notin Messages

VARIABLES
    conn,        \* a socket is "unmade", "connecting", "open" or "closed"
    opening,     \* connect() calls that await their credentials
    timers,      \* pending setTimeout(connect)
    looping,     \* the running loops, by their socket; none when the process ended
    sending,     \* the reply a loop awaits sendMessage for, Start when it awaits none
    cmds,        \* wa:cmd:queue, oldest first
    arrived,     \* messages that reached a socket
    events,      \* wa:events:queue, oldest first
    sent,        \* replies handed to WhatsApp, in order
    dropped      \* replies popped and not sent

connectVars == <<conn, opening, timers, looping, sending, cmds, arrived, events, sent, dropped>>

\* A command of the bot is named by the message it replies to.
Loops == Sockets \union {NoSocket}
Open == {s \in Sockets : conn[s] = "open"}
Unmade == {s \in Sockets : conn[s] = "unmade"}

\* connect() calls still to be completed; the bound of the model is that each
\* finds a socket that was not made yet.
Room == opening + timers < Cardinality(Unmade)

ConnectInit ==
    /\ conn = [s \in Sockets |-> "unmade"]
    /\ opening = 1 /\ timers = 0
    /\ looping = {NoSocket}
    /\ sending = [l \in Loops |-> Start]
    /\ cmds = <<>> /\ events = <<>> /\ sent = <<>>
    /\ arrived = {} /\ dropped = {}

\* The credentials are loaded: makeWASocket, the listeners, pollCmds(sock).
Connects ==
    /\ opening > 0
    /\ opening' = opening - 1
    /\ \E s \in Unmade :
        /\ \A other \in Unmade : s <= other
        /\ conn' = [conn EXCEPT ![s] = "connecting"]
        /\ looping' = looping \union {s}
    /\ UNCHANGED <<timers, sending, cmds, arrived, events, sent, dropped>>

Opens(s) ==
    /\ conn[s] = "connecting"
    /\ conn' = [conn EXCEPT ![s] = "open"]
    /\ UNCHANGED <<opening, timers, looping, sending, cmds, arrived, events, sent, dropped>>

\* Codes 401 and 405 wait for a start_session; the others reconnect in 3 or 5 s.
Closes(s) ==
    /\ conn[s] \in {"connecting", "open"}
    /\ conn' = [conn EXCEPT ![s] = "closed"]
    /\ \/ UNCHANGED timers
       \/ Room /\ timers' = timers + 1
    /\ UNCHANGED <<opening, looping, sending, cmds, arrived, events, sent, dropped>>

TimerFires ==
    /\ timers > 0
    /\ timers' = timers - 1
    /\ opening' = opening + 1
    /\ UNCHANGED <<conn, looping, sending, cmds, arrived, events, sent, dropped>>

\* messages.upsert: a message that has a text and is not the account's own.
Receives(m) ==
    /\ Open # {}
    /\ m \notin arrived
    /\ arrived' = arrived \union {m}
    /\ events' = Append(events, m)
    /\ UNCHANGED <<conn, opening, timers, looping, sending, cmds, sent, dropped>>

\* POST /channels/{id}/start, or any other client of the list.
Starts ==
    /\ Room
    /\ \A i \in DOMAIN cmds : cmds[i] # Start
    /\ cmds' = Append(cmds, Start)
    /\ UNCHANGED <<conn, opening, timers, looping, sending, arrived, events, sent, dropped>>

\* RPOP: start_session calls connect() without awaiting it.
Pops(l) ==
    /\ l \in looping /\ sending[l] = Start
    /\ cmds # <<>>
    /\ cmds' = Tail(cmds)
    /\ opening' = IF Head(cmds) = Start THEN opening + 1 ELSE opening
    /\ sending' = [sending EXCEPT ![l] = IF l = NoSocket THEN Start ELSE Head(cmds)]
    /\ dropped' = IF l = NoSocket THEN (dropped \union {Head(cmds)}) \ {Start} ELSE dropped
    /\ UNCHANGED <<conn, timers, looping, arrived, events, sent>>

\* Mutation: sendMessage waits until its socket is open.
Sends_Waits(l) ==
    /\ sending[l] # Start /\ l \in Open
    /\ sending' = [sending EXCEPT ![l] = Start]
    /\ sent' = Append(sent, sending[l])
    /\ UNCHANGED <<conn, opening, timers, looping, cmds, arrived, events, dropped>>

\* sendMessage resolves, on an open socket, or rejects, on any.
Sends(l) ==
    /\ sending[l] # Start
    /\ sending' = [sending EXCEPT ![l] = Start]
    /\ \/ l \in Open /\ sent' = Append(sent, sending[l]) /\ UNCHANGED dropped
       \/ dropped' = dropped \union {sending[l]} /\ UNCHANGED sent
    /\ UNCHANGED <<conn, opening, timers, looping, cmds, arrived, events>>

\* The RPOP is done and its answer is lost: the empty catch, and the next turn.
PopLost(l) ==
    /\ l \in looping /\ sending[l] = Start
    /\ cmds # <<>>
    /\ cmds' = Tail(cmds)
    /\ dropped' = (dropped \union {Head(cmds)}) \ {Start}
    /\ UNCHANGED <<conn, opening, timers, looping, sending, arrived, events, sent>>

\* A rejection nobody handles ends the process.  `unpushed' are the messages of
\* a messages.upsert whose LPUSH failed: its loop ends at the first failure.
Dies(unpushed) ==
    /\ looping # {}
    /\ unpushed \subseteq Messages \ arrived
    /\ Open = {} => unpushed = {}
    /\ looping' = {} /\ opening' = 0 /\ timers' = 0
    /\ conn' = [s \in Sockets |-> IF conn[s] = "unmade" THEN "unmade" ELSE "closed"]
    /\ sending' = [l \in Loops |-> Start]
    /\ dropped' = (dropped \union {sending[l] : l \in Loops}) \ {Start}
    /\ arrived' = arrived \union unpushed
    /\ UNCHANGED <<cmds, events, sent>>

\* Timers fire, promises resolve and every loop goes round.
ConnectFairness ==
    /\ WF_connectVars(Connects) /\ WF_connectVars(TimerFires)
    /\ \A l \in Loops : WF_connectVars(Pops(l)) /\ WF_connectVars(Sends(l))
=============================================================================
