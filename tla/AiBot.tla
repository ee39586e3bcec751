------------------------------- MODULE AiBot -------------------------------
(***************************************************************************)
(* run_ai.py, the bot of start.sh, at the other ends of the two lists of   *)
(* EngineConnect: one loop that pops an event, keeps the last turns of its *)
(* chat in memory, asks Claude and pushes the reply.                       *)
(***************************************************************************)
EXTENDS EngineConnect

CONSTANTS
    Chats,
    ChatOf,       \* the chat of a message
    MaxHistory,   \* turns kept per chat (20 in the code)
    MaxErrors     \* bound: errors of Redis, and of whatever ends the engine

ASSUME BotAssumption ==
    /\ ChatOf \in [Messages -> Chats]
    /\ MaxHistory \in Nat \ {0} /\ MaxErrors \in Nat

VARIABLES
    stage,        \* what the bot awaits: "event", "claude" or "push"
    current,      \* the message it is at, Start when there is none
    histories,    \* the turns it keeps of each chat
    talk,         \* history: all turns of each chat
    unanswered,   \* messages Claude failed to answer
    lost,         \* messages whose event, or whose reply's push, an error took
    errors        \* errors so far, for the bound

botVars == <<stage, current, histories, talk, unanswered, lost, errors>>
vars == <<connectVars, botVars>>

Roles == {"user", "assistant"}
Turns == [role : Roles, about : Messages]
Turn(role, m) == [role |-> role, about |-> m]

Init ==
    /\ ConnectInit
    /\ stage = "event" /\ current = Start
    /\ histories = [c \in Chats |-> <<>>]
    /\ talk = [c \in Chats |-> <<>>]
    /\ unanswered = {} /\ lost = {} /\ errors = 0

\* Mutation: nothing is trimmed.
Recent_All(turns) == turns

\* Mutation: the first turns are kept.
Recent_First(turns) ==
    IF Len(turns) > MaxHistory THEN SubSeq(turns, 1, MaxHistory) ELSE turns

\* histories[chat_id][-MAX_HISTORY:]
Recent(turns) ==
    IF Len(turns) > MaxHistory THEN SubSeq(turns, Len(turns) - MaxHistory + 1, Len(turns))
    ELSE turns

\* RPOP of an event; its text is added to the history, which is then trimmed.
Reads ==
    LET m == Head(events)
        chat == ChatOf[m]
    IN  /\ stage = "event" /\ events # <<>>
        /\ events' = Tail(events)
        /\ stage' = "claude" /\ current' = m
        /\ histories' = [histories EXCEPT ![chat] = Recent(Append(@, Turn("user", m)))]
        /\ talk' = [talk EXCEPT ![chat] = Append(@, Turn("user", m))]
        /\ UNCHANGED <<conn, opening, timers, looping, sending, cmds, arrived, sent, dropped,
                       unanswered, lost, errors>>

\* The reply is added before it is pushed; there is no trimming here.
Answers ==
    LET chat == ChatOf[current]
    IN  /\ stage = "claude"
        /\ stage' = "push"
        /\ histories' = [histories EXCEPT ![chat] = Append(@, Turn("assistant", current))]
        /\ talk' = [talk EXCEPT ![chat] = Append(@, Turn("assistant", current))]
        /\ UNCHANGED <<connectVars, current, unanswered, lost, errors>>

\* Mutation: the error leaves the message to be answered, and the loop goes on
\* with the next event.
ClaudeFails_Silent ==
    /\ stage = "claude"
    /\ stage' = "event" /\ current' = Start
    /\ UNCHANGED <<connectVars, histories, talk, unanswered, lost, errors>>

\* except: continue, with the user's turn left in the history.
ClaudeFails ==
    /\ stage = "claude"
    /\ stage' = "event" /\ current' = Start
    /\ unanswered' = unanswered \union {current}
    /\ UNCHANGED <<connectVars, histories, talk, lost, errors>>

Replies ==
    /\ stage = "push"
    /\ stage' = "event" /\ current' = Start
    /\ cmds' = Append(cmds, current)
    /\ UNCHANGED <<conn, opening, timers, looping, sending, arrived, events, sent, dropped,
                   histories, talk, unanswered, lost, errors>>

\* Redis fails after the RPOP (aclose raises) or in the push of the reply.
RedisFails ==
    /\ errors < MaxErrors
    /\ errors' = errors + 1
    /\ \/ /\ stage = "event" /\ events # <<>>
          /\ events' = Tail(events)
          /\ lost' = lost \union {Head(events)}
       \/ /\ stage = "push"
          /\ lost' = lost \union {current}
          /\ UNCHANGED events
    /\ stage' = "event" /\ current' = Start
    /\ UNCHANGED <<conn, opening, timers, looping, sending, cmds, arrived, sent, dropped,
                   histories, talk, unanswered>>

\* The same errors at the engine's end of the lists.
EngineErrs ==
    /\ errors < MaxErrors
    /\ errors' = errors + 1
    /\ \/ (\E l \in Loops : PopLost(l)) /\ UNCHANGED lost
       \/ \E unpushed \in SUBSET Messages :
            Dies(unpushed) /\ lost' = lost \union unpushed
    /\ UNCHANGED <<stage, current, histories, talk, unanswered>>

BotNext == Reads \/ Answers \/ ClaudeFails \/ Replies \/ RedisFails

Next ==
    \/ Connects /\ UNCHANGED botVars
    \/ TimerFires /\ UNCHANGED botVars
    \/ Starts /\ UNCHANGED botVars
    \/ \E s \in Sockets : (Opens(s) \/ Closes(s)) /\ UNCHANGED botVars
    \/ \E m \in Messages : Receives(m) /\ UNCHANGED botVars
    \/ \E l \in Loops : (Pops(l) \/ Sends(l)) /\ UNCHANGED botVars
    \/ EngineErrs
    \/ BotNext

Spec == Init /\ [][Next]_vars

\* The bot's loop goes on, and Claude's client answers or raises in the end.
BotFairness == WF_vars(Reads \/ Answers \/ ClaudeFails \/ Replies)
FairSpec == Spec /\ ConnectFairness /\ BotFairness

----------------------------------------------------------------------------
(* Properties. *)

\* Every variable keeps its type; a history is one turn over its limit while
\* the reply waits for the next message.
TypeOK ==
    /\ conn \in [Sockets -> {"unmade", "connecting", "open", "closed"}]
    /\ opening \in Nat /\ timers \in Nat
    /\ looping \subseteq Loops
    /\ sending \in [Loops -> Messages \union {Start}]
    /\ cmds \in Seq(Messages \union {Start})
    /\ arrived \subseteq Messages
    /\ events \in Seq(Messages)
    /\ sent \in Seq(Messages)
    /\ dropped \subseteq Messages
    /\ stage \in {"event", "claude", "push"}
    /\ current \in Messages \union {Start}
    /\ histories \in [Chats -> Seq(Turns)]
    /\ \A c \in Chats : Len(histories[c]) <= MaxHistory + 1
    /\ talk \in [Chats -> Seq(Turns)]
    /\ unanswered \subseteq Messages
    /\ lost \subseteq Messages
    /\ errors \in 0..MaxErrors

\* The places a message, or its reply, may be at; each counts once.
Places(m) ==
    Cardinality({i \in DOMAIN events : events[i] = m})
    + Cardinality({i \in DOMAIN cmds : cmds[i] = m})
    + Cardinality({l \in Loops : sending[l] = m})
    + Cardinality({i \in DOMAIN sent : sent[i] = m})
    + Cardinality({k \in 1..4 : m \in <<dropped, unanswered, lost, {current}>>[k]})

\* However the loops of several sockets, the bot and the errors interleave, a
\* message that arrived is waited for, answered once or given up, one of them:
\* no reply is sent twice, and none disappears elsewhere than in the loop
\* without a socket, a sendMessage that rejects, a failure of Claude, an error
\* of Redis or the end of the engine's process, which loses what its loops had
\* popped and nothing that waits in a list.
OneFatePerMessage == \A m \in arrived : Places(m) = 1

\* What Claude is asked is the end of the conversation, whole and in order:
\* trimming takes the oldest turns of the chat and no other's, and the last
\* turn is the message to be answered.
AskedInContext ==
    /\ \A c \in Chats :
        histories[c] = SubSeq(talk[c], Len(talk[c]) - Len(histories[c]) + 1, Len(talk[c]))
    /\ stage = "claude" =>
        LET turns == histories[ChatOf[current]]
        IN  turns[Len(turns)] = Turn("user", current) /\ Len(turns) <= MaxHistory

\* Every message that arrived is answered or given up in the end, however
\* often the account reconnects, while the engine's process runs.
EveryMessageSettles ==
    \A m \in Messages : m \in arrived ~>
        \/ \E i \in DOMAIN sent : sent[i] = m
        \/ m \in dropped \union unanswered \union lost
        \/ looping = {}

----------------------------------------------------------------------------
(* What the source says and the code does not do. *)

\* "Polling global de comandos (funciona incluso cuando no hay sesión activa)":
\* while a socket is open, a reply is dropped only by a send on that socket.
OpenSocketGetsTheMessage ==
    [][\A m \in dropped' \ dropped :
        Open = {} \/ \E l \in Open : sending[l] = m]_vars
=============================================================================
