----------------------------- MODULE AiPipeline -----------------------------
(***************************************************************************)
(* worker/app/ai_pipeline.py, which pops the same list wa:events:queue as  *)
(* the event buses of the API: an event reaches one of them.  The pipeline *)
(* answers with what the rows of the chat tell it of the conversation, and *)
(* stores its own reply; the message it answers it does not store.         *)
(***************************************************************************)
EXTENDS EventHandler, SequencesExt

CONSTANTS
    Replies,       \* what Claude may answer
    Short,         \* texts of less than two characters
    Filler,        \* the content "..."
    Apology,       \* fallback_message and error_message
    HistoryLimit   \* rows of a history (20 in the code)

ASSUME HistoryAssumption == HistoryLimit \in Nat \ {0}

VARIABLES
    stage,         \* the pipeline is at "rpop", "flag", "history", "claude", "push" or "store"
    task,          \* the event it answers
    prompt,        \* what it asks Claude
    reply,         \* what it got
    seen,          \* events it has popped
    missed,        \* those a failure made it give up
    cmds           \* its commands in wa:cmd:queue, as event and text

pipelineVars == <<stage, task, prompt, reply, seen, missed, cmds>>
vars == <<handlerVars, pipelineVars>>

Turn(role, content) == [role |-> role, content |-> content]

Init ==
    /\ HandlerInit
    /\ stage = "rpop" /\ task = None
    /\ prompt = <<>> /\ reply = ""
    /\ seen = {} /\ missed = {} /\ cmds = <<>>

Done == stage' = "rpop" /\ task' = None /\ prompt' = <<>> /\ reply' = ""

\* Whatever is not a message of somebody else is dropped.
Takes ==
    LET e == Head(events)
    IN  /\ stage = "rpop"
        /\ Pop
        /\ seen' = seen \union {e}
        /\ IF Name(e) = "message.received" /\ ~ Truthy(Get(Data(e), "fromMe", "false"))
           THEN stage' = "flag" /\ task' = e
           ELSE UNCHANGED <<stage, task>>
        /\ UNCHANGED <<day, silent, messages, popped, faults, busVars, prompt, reply, missed, cmds>>

Text(e) == Get(Data(e), "text", Get(Data(e), "body", ""))
Chat(e) == Data(e).remoteJid

\* Mutation: a message that cannot be answered yet stays at hand.
Checks_Waiting ==
    /\ stage = "flag"
    /\ Text(task) # "" /\ stage' = "history"
    /\ UNCHANGED <<handlerVars, task, prompt, reply, seen, missed, cmds>>

\* A message without a text is dropped like one of a channel without the flag.
Checks ==
    /\ stage = "flag"
    /\ \/ Text(task) # "" /\ stage' = "history" /\ UNCHANGED <<task, prompt, reply>>
       \/ Done
    /\ UNCHANGED <<handlerVars, seen, missed, cmds>>

\* get_history: the last rows of the chat, oldest first, those with a text.
History(chat) ==
    LET ofChat == {i \in DOMAIN messages : messages[i].chat = chat}
        rows == {i \in ofChat : Cardinality({j \in ofChat : j > i}) < HistoryLimit}
        Of(i) == IF i \in rows /\ messages[i].text # ""
                 THEN <<Turn(IF messages[i].mine THEN "assistant" ELSE "user", <<messages[i].text>>)>>
                 ELSE <<>>
        turns[i \in 0..Len(messages)] == IF i = 0 THEN <<>> ELSE turns[i - 1] \o Of(i)
    IN  turns[Len(messages)]

\* The message is added unless the last turn, whosever it is, has its text.
Conversation(turns, text) ==
    IF turns # <<>> /\ turns[Len(turns)].content = <<text>> THEN turns
    ELSE Append(turns, Turn("user", <<text>>))

\* Mutation: of consecutive turns of one role the last one stays.
Merge_Last(fixed, turn) ==
    IF fixed # <<>> /\ fixed[Len(fixed)].role = turn.role
    THEN [fixed EXCEPT ![Len(fixed)] = turn]
    ELSE Append(fixed, turn)

\* Consecutive turns of one role are joined.
Merge(fixed, turn) ==
    IF fixed # <<>> /\ fixed[Len(fixed)].role = turn.role
    THEN [fixed EXCEPT ![Len(fixed)].content = @ \o turn.content]
    ELSE Append(fixed, turn)

\* _fix_message_order
FixOrder(turns) ==
    LET fixed == FoldLeft(Merge, <<>>, turns)
        Pad(turn) == IF turn.role = "user" THEN <<>> ELSE <<Turn("user", <<Filler>>)>>
    IN  Pad(fixed[1]) \o fixed \o Pad(fixed[Len(fixed)])

\* generate_response: a short text is answered without Claude.
Reads ==
    /\ stage = "history"
    /\ IF Text(task) \in Short
       THEN stage' = "push" /\ reply' = Apology /\ UNCHANGED prompt
       ELSE /\ stage' = "claude" /\ UNCHANGED reply
            /\ prompt' = FixOrder(Conversation(History(Chat(task)), Text(task)))
    /\ UNCHANGED <<handlerVars, task, seen, missed, cmds>>

\* Claude answers or raises, and then the error message is sent.
Generates ==
    /\ stage = "claude"
    /\ reply' \in Replies \union {Apology}
    /\ stage' = "push" /\ prompt' = <<>>
    /\ UNCHANGED <<handlerVars, task, seen, missed, cmds>>

Sends ==
    /\ stage = "push"
    /\ cmds' = Append(cmds, [by |-> task, text |-> reply])
    /\ stage' = "store"
    /\ UNCHANGED <<handlerVars, task, prompt, reply, seen, missed>>

\* The row of the reply; message_id_wa is null.
Keeps ==
    /\ stage = "store"
    /\ messages' = Append(messages,
           [by |-> task, wa |-> "null", chat |-> Chat(task), mine |-> TRUE, sender |-> "me",
            type |-> "text", text |-> reply, status |-> "sent"])
    /\ Done
    /\ UNCHANGED <<day, silent, events, popped, faults, busVars, seen, missed, cmds>>

\* Redis or PostgreSQL fails, or the process stops.
PipelineFails ==
    /\ stage # "rpop"
    /\ faults < MaxFaults
    /\ faults' = faults + 1
    /\ missed' = missed \union {task}
    /\ Done
    /\ UNCHANGED <<day, silent, events, messages, popped, busVars, seen, cmds>>

\* Some consumer is at its RPOP.
Awaited == stage = "rpop" \/ \E b \in Buses : at[b] = "rpop"

Answer == Takes \/ Checks \/ Reads \/ Generates \/ Sends \/ Keeps

Next ==
    \/ \E e \in Events : Publishes(e) /\ UNCHANGED pipelineVars
    \/ \E b \in Buses : Listen(b) /\ UNCHANGED pipelineVars
    \/ \E b \in Buses : (HandlerFails(b) \/ IsCut(b)) /\ UNCHANGED pipelineVars
    \/ Awaited /\ PopFails /\ UNCHANGED pipelineVars
    \/ Answer
    \/ PipelineFails

Spec == Init /\ [][Next]_vars

\* Each listener and the pipeline's loop go on; nothing is asked of the engine.
Fairness ==
    /\ \A b \in Buses : WF_<<at, hand, todo>>(Listen(b))
    /\ WF_vars(Answer)

FairSpec == Spec /\ Fairness

----------------------------------------------------------------------------
(* Properties. *)

Stages == {"rpop", "flag", "history", "claude", "push", "store"}

\* Rows: of received messages and of replies to them.
Received == {e \in Events : Name(e) = "message.received"}
Said == Replies \union {Apology}
Tables ==
    [by : Received,
     wa : {Row(e).wa : e \in Received} \union {"null"},
     chat : {Row(e).chat : e \in Received} \union {Chat(e) : e \in Received},
     mine : BOOLEAN,
     sender : {Row(e).sender : e \in Received} \union {"me"},
     type : {Row(e).type : e \in Received} \union {"text"},
     text : {Row(e).text : e \in Received} \union Said,
     status : {"pending", "sent", "delivered", "read"}]

\* Every variable keeps its type; what the table holds meets its constraints.
TypeOK ==
    /\ day \in Days /\ silent \subseteq day
    /\ events \in Seq(Events)
    /\ at \in [Buses -> {"rpop", "handle", "flag", "cache", "hooks"}]
    /\ hand \in [Buses -> Events \union {None}]
    /\ todo \in [Buses -> SUBSET Hooks]
    /\ messages \in Seq(Tables)
    /\ \A i \in DOMAIN messages : messages[i].sender # "null"
    /\ status \in Events \union {None} /\ cached \in Events \union {None}
    /\ aiQueue \subseteq Events
    /\ tasks \subseteq Hooks \X Events
    /\ handled \subseteq Events /\ unsaved \subseteq Events /\ cut \subseteq Events
    /\ popped \in Seq([event : Events, beside : SUBSET Events])
    /\ faults \in 0..MaxFaults
    /\ stage \in Stages
    /\ task \in Received \union {None}
    /\ reply \in Said \union {""}
    /\ seen \subseteq Events /\ missed \subseteq seen
    /\ cmds \in Seq([by : Received, text : Said])

\* Several buses and the pipeline compete for the list: all the same an event
\* is in the list, at one consumer, or was at one; none is handled twice, and
\* none is answered that a bus has handled.
OneConsumer ==
    \A e \in day :
        Cardinality({i \in DOMAIN events : events[i] = e})
        + Cardinality({b \in Buses : hand[b] = e})
        + Cardinality({k \in 1..4 : e \in <<silent, handled, cut, seen>>[k]}) = 1

\* "Siempre intentar despachar webhooks para cualquier evento": whatever a
\* handler does with an event, an error included, every webhook that is
\* subscribed has its task when the bus has ended with it.
SubscribersAreTold == \A e \in handled : \A h \in Hear(e) : <<h, e>> \in tasks

\* The row of a channel, and the key, go forward: whatever failed or was cut
\* off before, a bus writes a state only if each later state that was popped
\* was popped while the first was in hand.  Two buses that have two states in
\* hand at once may write them in the wrong order, and after a failure or a
\* stop between the two writes the row and the key disagree: neither is kept
\* from happening by the code, and neither is excluded here.
StatesGoForward ==
    [][\A i, j \in DOMAIN popped :
        i < j /\ popped[i].event \notin popped[j].beside =>
            /\ status' = popped[i].event => status = popped[i].event
            /\ cached' = popped[i].event => cached = popped[i].event]_vars

\* What Claude is asked alternates between the two roles, from a user's turn
\* to a user's turn, as its API demands, and joins what the rows tell of the
\* chat and the message without losing or repeating any of it.
PromptIsTheConversation ==
    [][stage' = "claude" /\ stage # "claude" =>
        LET past == History(Chat(task))
            told == [i \in DOMAIN past |-> past[i].content[1]]
            said == IF told # <<>> /\ told[Len(told)] = Text(task)
                    THEN told ELSE Append(told, Text(task))
            asked == FlattenSeq([i \in DOMAIN prompt' |-> prompt'[i].content])
        IN  /\ \A i \in DOMAIN prompt' :
                prompt'[i].role = IF i % 2 = 1 THEN "user" ELSE "assistant"
            /\ Len(prompt') % 2 = 1
            /\ \E before, after \in {<<>>, <<Filler>>} : asked = before \o said \o after]_vars

\* Every event that is published is handled or given up, whoever gets it:
\* from time to time, until the next one comes, none waits.
EveryEventSettles == []<>(events = <<>> /\ InHand = {} /\ task = None)
=============================================================================
