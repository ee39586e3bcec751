-------------------------- MODULE AiPipelineProofs --------------------------
(* Theorems about the event buses and the AI pipeline that share a list,   *)
(* for any events, buses, webhooks and number of failures.                 *)
EXTENDS AiPipeline, Counting

(***************************************************************************)
(* What is wrong with a step that is not one of the handler or pipeline:   *)
(* the type invariant needs that a consumer at work has an event.          *)
(***************************************************************************)
AtWork ==
  /\ \A b \in Buses : hand[b] = None <=> at[b] = "rpop"
  /\ \A b \in Buses : at[b] = "flag" => hand[b] \in Received
  /\ task = None <=> stage = "rpop"
  /\ stage # "rpop" => task \in seen
  /\ stage \in {"push", "store"} => reply \in Said

TypeInv == TypeOK /\ AtWork

LEMMA FaultBound == MaxFaults \in Nat
  BY HookAssumption, Zenon

LEMMA NoneThere == DOMAIN <<>> = {} /\ \A S : <<>> \in Seq(S)
  <1>1. \A S : <<>> \in Seq(S) /\ Len(<<>>) = 0
    BY EmptySeq
  <1>2. DOMAIN <<>> = 1..0
    BY <1>1, LenProperties
  <1>3. QED BY <1>1, <1>2

LEMMA TypeInit == Init => TypeInv
  <1> SUFFICES ASSUME Init PROVE TypeInv
    OBVIOUS
  <1>0. /\ day \in Days /\ silent = day /\ events = <<>> /\ messages = <<>>
        /\ popped = <<>> /\ cmds = <<>> /\ faults = 0
        /\ status = None /\ cached = None /\ aiQueue = {} /\ tasks = {}
        /\ handled = {} /\ unsaved = {} /\ cut = {}
    BY DEF Init, HandlerInit
  <1>1. /\ day \in Days /\ silent \subseteq day
        /\ events \in Seq(Events) /\ messages \in Seq(Tables)
        /\ \A i \in DOMAIN messages : messages[i].sender # "null"
        /\ popped \in Seq([event : Events, beside : SUBSET Events])
        /\ cmds \in Seq([by : Received, text : Said])
    BY <1>0, NoneThere
  <1>2. /\ at \in [Buses -> {"rpop", "handle", "flag", "cache", "hooks"}]
        /\ hand \in [Buses -> Events \union {None}]
        /\ todo \in [Buses -> SUBSET Hooks]
    BY DEF Init, HandlerInit
  <1>3. faults \in 0..MaxFaults
    BY <1>0, FaultBound
  <1>4. /\ status \in Events \union {None} /\ cached \in Events \union {None}
        /\ aiQueue \subseteq Events /\ tasks \subseteq Hooks \X Events
        /\ handled \subseteq Events /\ unsaved \subseteq Events /\ cut \subseteq Events
    BY <1>0
  <1>5. /\ stage \in Stages /\ task \in Received \union {None} /\ reply \in Said \union {""}
        /\ seen \subseteq Events /\ missed \subseteq seen
    BY DEF Init, Stages
  <1>6. AtWork
    BY DEF AtWork, Init, HandlerInit
  <1>7. QED BY <1>1, <1>2, <1>3, <1>4, <1>5, <1>6 DEF TypeInv, TypeOK

LEMMA RowOfReceived ==
  ASSUME NEW e \in Received
  PROVE  Row(e) \in Tables
  BY DEF Row, Tables

LEMMA HeadIsEvent ==
  ASSUME TypeOK, Pop
  PROVE  Head(events) \in Events /\ events' \in Seq(Events)
  BY HeadTailProperties DEF TypeOK, Pop

LEMMA InHandType ==
  ASSUME TypeOK
  PROVE  InHand \subseteq Events
  BY DEF TypeOK, InHand

(* The webhooks that hear of an event.                                     *)
LEMMA HearType == \A e : Hear(e) \in SUBSET Hooks
  BY DEF Hear

(***************************************************************************)
(* Types, one step for each action.                                        *)
(***************************************************************************)
LEMMA TypePublishes ==
  ASSUME TypeInv, NEW e \in Events, Publishes(e), UNCHANGED pipelineVars
  PROVE  TypeInv'
  <1>1. /\ events' \in Seq(Events) /\ silent' \subseteq day'
    BY AppendProperties DEF TypeInv, TypeOK, Publishes
  <1>2. QED BY <1>1 DEF TypeInv, TypeOK, AtWork, Publishes, busVars, pipelineVars

LEMMA TypePops ==
  ASSUME TypeInv, NEW b \in Buses, Pops(b), UNCHANGED pipelineVars
  PROVE  TypeInv'
  <1> DEFINE e == Head(events)
  <1>1. e \in Events /\ events' \in Seq(Events)
    BY HeadIsEvent DEF Pops, TypeInv
  <1>2. popped' \in Seq([event : Events, beside : SUBSET Events])
    <2>1. [event |-> e, beside |-> InHand] \in [event : Events, beside : SUBSET Events]
      BY <1>1, InHandType DEF TypeInv
    <2>2. QED BY <2>1, AppendProperties DEF TypeInv, TypeOK, Pops
  <1>3. /\ at' \in [Buses -> {"rpop", "handle", "flag", "cache", "hooks"}]
        /\ hand' \in [Buses -> Events \union {None}]
        /\ \A c \in Buses : hand'[c] = None <=> at'[c] = "rpop"
        /\ \A c \in Buses : at'[c] = "flag" => hand'[c] \in Received
    BY <1>1, EventAssumption DEF TypeInv, TypeOK, AtWork, Pops
  <1>4. QED BY <1>1, <1>2, <1>3 DEF TypeInv, TypeOK, AtWork, Pops, pipelineVars

(* What becomes of a bus that goes on with the event it has.               *)
LEMMA TypeGoesOn ==
  ASSUME TypeInv, NEW b \in Buses, at[b] # "rpop", hand' = hand,
         \/ ToHooks(b)
         \/ \E s \in {"flag", "cache"} : To(b, s) /\ (s = "flag" => hand[b] \in Received)
  PROVE  /\ at' \in [Buses -> {"rpop", "handle", "flag", "cache", "hooks"}]
         /\ todo' \in [Buses -> SUBSET Hooks]
         /\ \A c \in Buses : hand'[c] = None <=> at'[c] = "rpop"
         /\ \A c \in Buses : at'[c] = "flag" => hand'[c] \in Received
  <1> USE DEF TypeInv, TypeOK, AtWork
  <1>1. CASE ToHooks(b)
    BY <1>1, HearType DEF ToHooks
  <1>2. ASSUME NEW s \in {"flag", "cache"}, To(b, s), s = "flag" => hand[b] \in Received
        PROVE  /\ at' \in [Buses -> {"rpop", "handle", "flag", "cache", "hooks"}]
               /\ todo' \in [Buses -> SUBSET Hooks]
               /\ \A c \in Buses : hand'[c] = None <=> at'[c] = "rpop"
               /\ \A c \in Buses : at'[c] = "flag" => hand'[c] \in Received
    BY <1>2 DEF To
  <1>3. QED BY <1>1, <1>2

(* A row appended to the table.                                            *)
LEMMA RowAppended ==
  ASSUME TypeOK, NEW row \in Tables, row.sender # "null", messages' = Append(messages, row)
  PROVE  /\ messages' \in Seq(Tables)
         /\ \A i \in DOMAIN messages' : messages'[i].sender # "null"
  <1>1. messages \in Seq(Tables)
    BY DEF TypeOK
  <1>2. /\ messages' \in Seq(Tables) /\ Len(messages) \in Nat
        /\ DOMAIN messages = 1..Len(messages) /\ DOMAIN messages' = 1..(Len(messages) + 1)
        /\ \A i \in 1..Len(messages) : messages'[i] = messages[i]
        /\ messages'[Len(messages) + 1] = row
    BY <1>1, AppendProperties, LenProperties
  <1>3. \A i \in 1..Len(messages) : messages[i].sender # "null"
    BY <1>2 DEF TypeOK
  <1>4. \A i \in DOMAIN messages' : i \in 1..Len(messages) \/ i = Len(messages) + 1
    BY <1>2
  <1>5. QED BY <1>2, <1>3, <1>4

LEMMA TypeStores ==
  ASSUME TypeInv, NEW b \in Buses, Stores(b), UNCHANGED pipelineVars
  PROVE  TypeInv'
  <1>1. at[b] = "handle" /\ hand[b] \in Received
    BY EventAssumption DEF Stores, Handles, Received, TypeInv, TypeOK, AtWork
  <1>2. ToHooks(b) \/ To(b, "flag")
    BY DEF Stores
  <1>3. /\ messages' \in Seq(Tables)
        /\ \A i \in DOMAIN messages' : messages'[i].sender # "null"
    <2>1. CASE messages' = messages
      BY <2>1 DEF TypeInv, TypeOK
    <2>2. CASE Storable(Row(hand[b])) /\ messages' = Append(messages, Row(hand[b]))
      BY <1>1, <2>2, RowOfReceived, RowAppended DEF Storable, TypeInv
    <2>3. QED BY <2>1, <2>2 DEF Stores
  <1>4. QED BY <1>1, <1>2, <1>3, TypeGoesOn DEF TypeInv, TypeOK, AtWork, Stores, pipelineVars

LEMMA TypeFlags ==
  ASSUME TypeInv, NEW b \in Buses, Flags(b), UNCHANGED pipelineVars
  PROVE  TypeInv'
  <1>1. at[b] # "rpop" /\ hand[b] \in Events /\ ToHooks(b) /\ hand' = hand
    BY EventAssumption DEF Flags, TypeInv, TypeOK, AtWork
  <1>2. aiQueue' \subseteq Events
    BY <1>1 DEF Flags, TypeInv, TypeOK
  <1>3. QED BY <1>1, <1>2, TypeGoesOn DEF TypeInv, TypeOK, AtWork, Flags, pipelineVars

(* An acknowledgement only changes the column status.                      *)
LEMMA TypeMarks ==
  ASSUME TypeInv, NEW b \in Buses, Marks(b), UNCHANGED pipelineVars
  PROVE  TypeInv'
  <1>1. at[b] # "rpop" /\ ToHooks(b) /\ hand' = hand
    BY DEF Marks, Handles
  <1> DEFINE data == Data(hand[b])
             new == IF Name(hand[b]) = "message.sent" THEN "sent" ELSE AckStatus(data)
  <1>2. new \in {"pending", "sent", "delivered", "read"}
    BY DEF AckStatus, AckMap, Get
  <1>3. messages' = [i \in DOMAIN messages |->
                        IF Truthy(RowId(data)) /\ messages[i].wa = RowId(data)
                        THEN [messages[i] EXCEPT !.status = new] ELSE messages[i]]
    BY DEF Marks
  <1>4. messages \in Seq(Tables) /\ Len(messages) \in Nat /\ DOMAIN messages = 1..Len(messages)
        /\ \A i \in DOMAIN messages : messages[i] \in Tables /\ messages[i].sender # "null"
    <2>1. messages \in Seq(Tables)
      BY DEF TypeInv, TypeOK
    <2>2. \A i \in DOMAIN messages : messages[i].sender # "null"
      BY DEF TypeInv, TypeOK
    <2>3. QED BY <2>1, <2>2, LenProperties, ElementOfSeq
  <1> HIDE DEF new, data
  <1>5. ASSUME NEW i \in DOMAIN messages
        PROVE  messages'[i] \in Tables /\ messages'[i].sender # "null"
    <2> DEFINE row == messages[i]
    <2>1. row \in Tables /\ row.sender # "null"
      BY <1>4
    <2>2. [row EXCEPT !.status = new] \in Tables /\ [row EXCEPT !.status = new].sender = row.sender
      BY <1>2, <2>1 DEF Tables
    <2>3. messages'[i] \in {row, [row EXCEPT !.status = new]}
      BY <1>3
    <2>4. QED BY <2>1, <2>2, <2>3
  <1>6. DOMAIN messages' = 1..Len(messages) /\ messages' \in [1..Len(messages) -> Tables]
    BY <1>3, <1>4, <1>5
  <1>7. messages' \in Seq(Tables) /\ \A i \in DOMAIN messages' : messages'[i].sender # "null"
    BY <1>4, <1>5, <1>6
  <1>8. QED BY <1>1, <1>7, TypeGoesOn DEF TypeInv, TypeOK, AtWork, Marks, pipelineVars

LEMMA TypeSetsStatus ==
  ASSUME TypeInv, NEW b \in Buses, SetsStatus(b), UNCHANGED pipelineVars
  PROVE  TypeInv'
  <1>1. at[b] # "rpop" /\ hand[b] \in Events /\ hand' = hand /\ (ToHooks(b) \/ To(b, "cache"))
    BY EventAssumption DEF SetsStatus, Handles, TypeInv, TypeOK, AtWork
  <1>2. status' \in Events \union {None}
    BY <1>1 DEF SetsStatus, TypeInv, TypeOK
  <1>3. QED BY <1>1, <1>2, TypeGoesOn DEF TypeInv, TypeOK, AtWork, SetsStatus, pipelineVars

LEMMA TypeCaches ==
  ASSUME TypeInv, NEW b \in Buses, Caches(b), UNCHANGED pipelineVars
  PROVE  TypeInv'
  <1>1. at[b] # "rpop" /\ hand[b] \in Events /\ hand' = hand /\ ToHooks(b)
    BY EventAssumption DEF Caches, TypeInv, TypeOK, AtWork
  <1>2. cached' \in Events
    BY <1>1 DEF Caches
  <1>3. QED BY <1>1, <1>2, TypeGoesOn DEF TypeInv, TypeOK, AtWork, Caches, pipelineVars

LEMMA TypeIgnores ==
  ASSUME TypeInv, NEW b \in Buses, Ignores(b), UNCHANGED pipelineVars
  PROVE  TypeInv'
  <1>1. at[b] # "rpop" /\ hand' = hand /\ ToHooks(b)
    BY DEF Ignores, Handles
  <1>2. QED BY <1>1, TypeGoesOn DEF TypeInv, TypeOK, AtWork, Ignores, pipelineVars

LEMMA TypeNotifies ==
  ASSUME TypeInv, NEW b \in Buses, Notifies(b), UNCHANGED pipelineVars
  PROVE  TypeInv'
  <1>1. hand[b] \in Events
    BY EventAssumption DEF Notifies, TypeInv, TypeOK, AtWork
  <1>2. PICK h \in todo[b] : tasks' = tasks \union {<<h, hand[b]>>}
                            /\ todo' = [todo EXCEPT ![b] = @ \ {h}]
    BY DEF Notifies
  <1>3. todo \in [Buses -> SUBSET Hooks] /\ todo[b] \ {h} \in SUBSET Hooks /\ h \in Hooks
    BY DEF TypeInv, TypeOK
  <1>4. todo' \in [Buses -> SUBSET Hooks]
    <2>1. \A c \in Buses : todo[c] \in SUBSET Hooks
      BY <1>3
    <2>2. todo' = [c \in Buses |-> IF c = b THEN todo[b] \ {h} ELSE todo[c]]
      BY <1>2, <1>3
    <2> DEFINE left(c) == IF c = b THEN todo[b] \ {h} ELSE todo[c]
    <2>3. todo' = [c \in Buses |-> left(c)] /\ \A c \in Buses : left(c) \in SUBSET Hooks
      BY <1>3, <2>1, <2>2
    <2> HIDE DEF left
    <2>4. QED BY <2>3
  <1>5. tasks' \subseteq Hooks \X Events
    <2>1. <<h, hand[b]>> \in Hooks \X Events
      BY <1>1, <1>3
    <2>2. tasks \subseteq Hooks \X Events
      BY DEF TypeInv, TypeOK
    <2>3. QED BY <1>2, <2>1, <2>2
  <1>6. QED BY <1>4, <1>5 DEF TypeInv, TypeOK, AtWork, Notifies, pipelineVars

(* A bus that is done, or is cut off, has nothing in hand.                 *)
LEMMA TypeFree ==
  ASSUME TypeInv, NEW b \in Buses,
         at' = [at EXCEPT ![b] = "rpop"], hand' = [hand EXCEPT ![b] = None]
  PROVE  /\ at' \in [Buses -> {"rpop", "handle", "flag", "cache", "hooks"}]
         /\ hand' \in [Buses -> Events \union {None}]
         /\ \A c \in Buses : hand'[c] = None <=> at'[c] = "rpop"
         /\ \A c \in Buses : at'[c] = "flag" => hand'[c] \in Received
  BY DEF TypeInv, TypeOK, AtWork

LEMMA TypeEnds ==
  ASSUME TypeInv, NEW b \in Buses, Ends(b), UNCHANGED pipelineVars
  PROVE  TypeInv'
  <1>1. hand[b] \in Events
    BY EventAssumption DEF Ends, TypeInv, TypeOK, AtWork
  <1>2. QED BY <1>1, TypeFree DEF TypeInv, TypeOK, AtWork, Ends, pipelineVars

LEMMA OneMoreFault ==
  ASSUME faults \in 0..MaxFaults, faults < MaxFaults
  PROVE  faults + 1 \in 0..MaxFaults
  BY FaultBound

LEMMA TypeHandlerFails ==
  ASSUME TypeInv, NEW b \in Buses, HandlerFails(b), UNCHANGED pipelineVars
  PROVE  TypeInv'
  <1>1. at[b] # "rpop" /\ hand[b] \in Events /\ hand' = hand /\ (ToHooks(b) \/ To(b, "cache"))
    BY EventAssumption DEF HandlerFails, TypeInv, TypeOK, AtWork
  <1>2. faults' \in 0..MaxFaults /\ unsaved' \subseteq Events
    BY <1>1, OneMoreFault DEF HandlerFails, TypeInv, TypeOK
  <1>3. QED BY <1>1, <1>2, TypeGoesOn DEF TypeInv, TypeOK, AtWork, HandlerFails, pipelineVars

LEMMA TypeIsCut ==
  ASSUME TypeInv, NEW b \in Buses, IsCut(b), UNCHANGED pipelineVars
  PROVE  TypeInv'
  <1>1. hand[b] \in Events
    BY EventAssumption DEF IsCut, TypeInv, TypeOK, AtWork
  <1>2. faults' \in 0..MaxFaults /\ cut' \subseteq Events /\ todo' \in [Buses -> SUBSET Hooks]
    BY <1>1, OneMoreFault DEF IsCut, TypeInv, TypeOK
  <1>3. QED BY <1>1, <1>2, TypeFree DEF TypeInv, TypeOK, AtWork, IsCut, pipelineVars

(***************************************************************************)
(* The pipeline.                                                           *)
(***************************************************************************)
LEMMA TypeTakes ==
  ASSUME TypeInv, Takes
  PROVE  TypeInv'
  <1> DEFINE e == Head(events)
  <1>1. e \in Events /\ events' \in Seq(Events)
    BY HeadIsEvent DEF Takes, TypeInv
  <1>2. CASE Name(e) = "message.received" /\ ~ Truthy(Get(Data(e), "fromMe", "false"))
    <2>1. stage' = "flag" /\ task' = e /\ e \in Received /\ e # None
      BY <1>1, <1>2, EventAssumption DEF Takes, Received
    <2>2. QED BY <1>1, <2>1 DEF TypeInv, TypeOK, AtWork, Takes, busVars, Stages
  <1>3. CASE ~ (Name(e) = "message.received" /\ ~ Truthy(Get(Data(e), "fromMe", "false")))
    <2>1. stage' = stage /\ task' = task
      BY <1>3 DEF Takes
    <2>2. QED BY <1>1, <2>1 DEF TypeInv, TypeOK, AtWork, Takes, busVars
  <1>4. QED BY <1>2, <1>3

LEMMA TypeChecks ==
  ASSUME TypeInv, Checks
  PROVE  TypeInv'
  <1> USE DEF TypeInv, TypeOK, AtWork, handlerVars, busVars, Stages
  <1>1. CASE stage' = "history" /\ UNCHANGED <<task, prompt, reply>>
    BY <1>1 DEF Checks
  <1>2. CASE Done
    BY <1>2 DEF Checks, Done
  <1>3. QED BY <1>1, <1>2 DEF Checks

LEMMA TypeReads ==
  ASSUME TypeInv, Reads
  PROVE  TypeInv'
  <1>1. /\ stage' \in {"push", "claude"} /\ task' = task /\ task # None
        /\ reply' \in {Apology, reply} /\ (stage' = "push" => reply' = Apology)
    BY DEF Reads, TypeInv, AtWork
  <1>2. QED BY <1>1 DEF TypeInv, TypeOK, AtWork, Reads, handlerVars, busVars, Stages, Said

LEMMA TypeGenerates ==
  ASSUME TypeInv, Generates
  PROVE  TypeInv'
  BY DEF TypeInv, TypeOK, AtWork, Generates, handlerVars, busVars, Stages, Said

LEMMA AtTask ==
  ASSUME TypeInv, stage # "rpop"
  PROVE  task \in Received /\ task \in Events /\ task \in seen
  BY DEF TypeInv, TypeOK, AtWork, Received

LEMMA TypeSends ==
  ASSUME TypeInv, Sends
  PROVE  TypeInv'
  <1>1. stage = "push" /\ task \in Received /\ reply \in Said
    BY AtTask DEF Sends, TypeInv, AtWork
  <1>2. [by |-> task, text |-> reply] \in [by : Received, text : Said]
    BY <1>1
  <1>3. cmds' \in Seq([by : Received, text : Said])
    BY <1>2, AppendProperties DEF Sends, TypeInv, TypeOK
  <1>4. QED BY <1>1, <1>3 DEF TypeInv, TypeOK, AtWork, Sends, handlerVars, busVars, Stages

LEMMA TypeKeeps ==
  ASSUME TypeInv, Keeps
  PROVE  TypeInv'
  <1> DEFINE row == [by |-> task, wa |-> "null", chat |-> Chat(task), mine |-> TRUE,
                     sender |-> "me", type |-> "text", text |-> reply, status |-> "sent"]
  <1>1. task \in Received /\ reply \in Said
    BY AtTask DEF Keeps, TypeInv, AtWork
  <1>2. row \in Tables /\ row.sender # "null"
    BY <1>1 DEF Tables
  <1>3. /\ messages' \in Seq(Tables)
        /\ \A i \in DOMAIN messages' : messages'[i].sender # "null"
    BY <1>2, RowAppended DEF Keeps, TypeInv
  <1>4. QED BY <1>3 DEF TypeInv, TypeOK, AtWork, Keeps, Done, busVars, Stages

LEMMA TypePipelineFails ==
  ASSUME TypeInv, PipelineFails
  PROVE  TypeInv'
  <1>1. task \in seen
    BY AtTask DEF PipelineFails
  <1>2. faults' \in 0..MaxFaults
    BY OneMoreFault DEF PipelineFails, TypeInv, TypeOK
  <1>3. QED BY <1>1, <1>2 DEF TypeInv, TypeOK, AtWork, PipelineFails, Done, busVars, Stages

LEMMA TypePopFails ==
  ASSUME TypeInv, PopFails, UNCHANGED pipelineVars
  PROVE  TypeInv'
  <1>1. Head(events) \in Events /\ events' \in Seq(Events)
    BY HeadIsEvent DEF PopFails, Pop, TypeInv
  <1>2. faults' \in 0..MaxFaults /\ cut' \subseteq Events
    BY <1>1, OneMoreFault DEF PopFails, TypeInv, TypeOK
  <1>3. QED BY <1>1, <1>2 DEF TypeInv, TypeOK, AtWork, PopFails, pipelineVars

LEMMA TypeListens ==
  ASSUME TypeInv, NEW b \in Buses, Listen(b) \/ HandlerFails(b) \/ IsCut(b), UNCHANGED pipelineVars
  PROVE  TypeInv'
  BY TypePops, TypeStores, TypeFlags, TypeMarks, TypeSetsStatus, TypeCaches, TypeIgnores,
     TypeNotifies, TypeEnds, TypeHandlerFails, TypeIsCut DEF Listen

LEMMA TypeStutters ==
  ASSUME TypeInv, UNCHANGED vars
  PROVE  TypeInv'
  BY DEF TypeInv, TypeOK, AtWork, vars, handlerVars, busVars, pipelineVars

LEMMA TypeNext ==
  ASSUME TypeInv, [Next]_vars
  PROVE  TypeInv'
  BY TypePublishes, TypeListens, TypeTakes, TypeChecks, TypeReads, TypeGenerates, TypeSends,
     TypeKeeps, TypePipelineFails, TypePopFails, TypeStutters DEF Next, Answer

(* The variables hold what their names say, in every state: rows of the    *)
(* table come from received messages and have a sender, the pipeline has   *)
(* only received messages at hand.                                         *)
THEOREM TypeCorrect == Spec => []TypeOK
  <1>1. Init => TypeInv
    BY TypeInit
  <1>2. TypeInv /\ [Next]_vars => TypeInv'
    BY TypeNext
  <1>3. TypeInv => TypeOK
    BY DEF TypeInv
  <1>4. QED BY <1>1, <1>2, <1>3, PTL DEF Spec

(***************************************************************************)
(* Where an event of the run is: each step moves one event from one place  *)
(* to another, so the number of its places stays what it was.              *)
(***************************************************************************)
Places(e) ==
  Cardinality(Spots(events, {e})) + Cardinality(Holders(hand, {e}))
  + ZeroOne(e \in silent) + ZeroOne(e \in handled) + ZeroOne(e \in cut) + ZeroOne(e \in seen)

CountInv ==
  \A e \in Events : IsFiniteSet(Holders(hand, {e})) /\ Places(e) = ZeroOne(e \in day)

LEMMA CountInit == Init => CountInv
  <1> SUFFICES ASSUME Init, NEW e \in Events
               PROVE  IsFiniteSet(Holders(hand, {e})) /\ Places(e) = ZeroOne(e \in day)
    BY DEF CountInv
  <1>1. Cardinality(Spots(events, {e})) = 0
    BY SpotsEmpty DEF Init, HandlerInit
  <1>2. IsFiniteSet(Holders(hand, {e})) /\ Cardinality(Holders(hand, {e})) = 0
    <2>1. \A b \in DOMAIN hand : hand[b] \notin {e}
      BY EventAssumption DEF Init, HandlerInit
    <2>2. QED BY <2>1, HoldersConstant
  <1>3. silent = day /\ handled = {} /\ cut = {} /\ seen = {}
    BY DEF Init, HandlerInit
  <1>4. QED BY <1>1, <1>2, <1>3 DEF Places, ZeroOne

LEMMA CountNats ==
  ASSUME TypeInv, CountInv, NEW e \in Events
  PROVE  /\ Cardinality(Spots(events, {e})) \in Nat
         /\ IsFiniteSet(Holders(hand, {e})) /\ Cardinality(Holders(hand, {e})) \in Nat
  BY SpotsFinite, FS_CardinalityType DEF TypeInv, TypeOK, CountInv

LEMMA CountPublishes ==
  ASSUME TypeInv, CountInv, NEW x \in Events, Publishes(x), UNCHANGED pipelineVars
  PROVE  CountInv'
  <1> SUFFICES ASSUME NEW e \in Events
               PROVE  IsFiniteSet(Holders(hand, {e})') /\ Places(e)' = ZeroOne(e \in day)'
    BY DEF CountInv
  <1>1. Cardinality(Spots(events, {e}))' = Cardinality(Spots(events, {e})) + ZeroOne(x \in {e})
    <2>1. events' = Append(events, x) /\ events \in Seq(Events)
      BY DEF Publishes, TypeInv, TypeOK
    <2>2. QED BY <2>1, SpotsAppend
  <1>2. ZeroOne(e \in silent') + ZeroOne(x \in {e}) = ZeroOne(e \in silent)
    BY DEF Publishes, ZeroOne
  <1>3. UNCHANGED <<day, hand, handled, cut, seen>>
    BY DEF Publishes, busVars, pipelineVars
  <1>4. Places(e) = ZeroOne(e \in day) /\ IsFiniteSet(Holders(hand, {e}))
    BY DEF CountInv
  <1>5. Places(e)' = Places(e)
    BY <1>1, <1>2, <1>3, CountNats DEF Places, ZeroOne
  <1>6. QED BY <1>3, <1>4, <1>5

(* A bus changes what it has in hand.                                      *)
LEMMA HandChanges ==
  ASSUME TypeInv, CountInv, NEW e \in Events, NEW b \in Buses, NEW x,
         DOMAIN hand' = Buses, hand'[b] = x, \A c \in Buses \ {b} : hand'[c] = hand[c]
  PROVE  /\ IsFiniteSet(Holders(hand', {e}))
         /\ Cardinality(Holders(hand', {e})) \in Nat
         /\ Cardinality(Holders(hand', {e})) + ZeroOne(hand[b] = e)
               = Cardinality(Holders(hand, {e})) + ZeroOne(x = e)
  <1>1. PICK f : f = hand
    OBVIOUS
  <1>2. PICK g : g = hand'
    OBVIOUS
  <1>3. PICK V : V = {e}
    OBVIOUS
  <1>4. b \in DOMAIN f /\ DOMAIN g = DOMAIN f /\ g[b] = x /\ \A v \in DOMAIN f \ {b} : g[v] = f[v]
    BY <1>1, <1>2 DEF TypeInv, TypeOK
  <1>5. IsFiniteSet(Holders(f, V))
    BY <1>1, <1>3 DEF CountInv
  <1>6. /\ IsFiniteSet(Holders(g, V))
        /\ Cardinality(Holders(g, V)) \in Nat
        /\ Cardinality(Holders(g, V)) + ZeroOne(f[b] \in V)
              = Cardinality(Holders(f, V)) + ZeroOne(x \in V)
    BY <1>4, <1>5, HoldersExcept
  <1>7. ZeroOne(f[b] \in V) = ZeroOne(hand[b] = e) /\ ZeroOne(x \in V) = ZeroOne(x = e)
    BY <1>1, <1>3 DEF ZeroOne
  <1>8. QED BY <1>1, <1>2, <1>3, <1>6, <1>7

(* The oldest event of the list goes to a consumer.                        *)
LEMMA CountPops ==
  ASSUME TypeInv, CountInv, NEW b \in Buses, Pops(b), UNCHANGED pipelineVars
  PROVE  CountInv'
  <1> SUFFICES ASSUME NEW e \in Events
               PROVE  IsFiniteSet(Holders(hand, {e})') /\ Places(e)' = ZeroOne(e \in day)'
    BY DEF CountInv
  <1>1. Cardinality(Spots(events, {e}))' + ZeroOne(Head(events) \in {e})
          = Cardinality(Spots(events, {e}))
    <2>1. events # <<>> /\ events' = Tail(events)
      BY DEF Pops, Pop
    <2>2. events \in Seq(Events)
      BY DEF TypeInv, TypeOK
    <2>3. QED BY <2>1, <2>2, SpotsTail
  <1>2. /\ hand[b] # e /\ DOMAIN hand' = Buses /\ hand'[b] = Head(events)
        /\ \A c \in Buses \ {b} : hand'[c] = hand[c]
    BY EventAssumption DEF Pops, TypeInv, TypeOK, AtWork
  <1>3. /\ IsFiniteSet(Holders(hand', {e}))
        /\ Cardinality(Holders(hand', {e})) \in Nat
        /\ Cardinality(Holders(hand', {e})) + ZeroOne(hand[b] = e)
              = Cardinality(Holders(hand, {e})) + ZeroOne(Head(events) = e)
    BY <1>2, HandChanges
  <1>4. ZeroOne(hand[b] = e) = 0 /\ ZeroOne(Head(events) = e) = ZeroOne(Head(events) \in {e})
    BY <1>2 DEF ZeroOne
  <1>5. UNCHANGED <<day, silent, handled, cut, seen>>
    BY DEF Pops, pipelineVars
  <1>6. Places(e) = ZeroOne(e \in day)
    BY DEF CountInv
  <1>7. Cardinality(Spots(events', {e})) \in Nat /\ events' \in Seq(Events)
    BY HeadIsEvent, SpotsFinite DEF Pops, TypeInv
  <1>8. Places(e)' = Places(e)
    <2>1. Cardinality(Spots(events', {e})) + Cardinality(Holders(hand', {e}))
            = Cardinality(Spots(events, {e})) + Cardinality(Holders(hand, {e}))
      BY <1>1, <1>3, <1>4, <1>7, CountNats DEF ZeroOne
    <2>2. QED BY <1>5, <2>1 DEF Places
  <1>9. QED BY <1>3, <1>5, <1>6, <1>8

(* An event leaves a hand: it is handled, or cut off.                      *)
LEMMA CountFrees ==
  ASSUME TypeInv, CountInv, NEW b \in Buses, at[b] # "rpop",
         DOMAIN hand' = Buses, hand'[b] = None, \A c \in Buses \ {b} : hand'[c] = hand[c],
         UNCHANGED <<day, silent, events, seen>>,
         \/ handled' = handled \union {hand[b]} /\ UNCHANGED cut
         \/ cut' = cut \union {hand[b]} /\ UNCHANGED handled
  PROVE  CountInv'
  <1> SUFFICES ASSUME NEW e \in Events
               PROVE  IsFiniteSet(Holders(hand, {e})') /\ Places(e)' = ZeroOne(e \in day)'
    BY DEF CountInv
  <1>1. None # e /\ ZeroOne(None = e) = 0
    BY EventAssumption DEF ZeroOne
  <1>2. /\ IsFiniteSet(Holders(hand', {e}))
        /\ Cardinality(Holders(hand', {e})) \in Nat
        /\ Cardinality(Holders(hand', {e})) + ZeroOne(hand[b] = e)
              = Cardinality(Holders(hand, {e})) + ZeroOne(None = e)
    BY HandChanges
  <1>3. Places(e) = ZeroOne(e \in day)
    BY DEF CountInv
  <1>4. hand[b] = e => e \notin handled /\ e \notin cut
    BY <1>1, <1>2, <1>3, CountNats DEF Places, ZeroOne
  <1>5. ZeroOne(e \in handled') + ZeroOne(e \in cut')
          = ZeroOne(e \in handled) + ZeroOne(e \in cut) + ZeroOne(hand[b] = e)
    BY <1>4 DEF ZeroOne
  <1>6. Places(e)' = Places(e)
    BY <1>1, <1>2, <1>5, CountNats DEF Places, ZeroOne
  <1>7. QED BY <1>2, <1>3, <1>6

LEMMA CountTakes ==
  ASSUME TypeInv, CountInv, Pop, UNCHANGED <<day, silent, hand, handled>>,
         \/ seen' = seen \union {Head(events)} /\ UNCHANGED cut
         \/ cut' = cut \union {Head(events)} /\ UNCHANGED seen
  PROVE  CountInv'
  <1> SUFFICES ASSUME NEW e \in Events
               PROVE  IsFiniteSet(Holders(hand, {e})') /\ Places(e)' = ZeroOne(e \in day)'
    BY DEF CountInv
  <1>1. Cardinality(Spots(events, {e}))' + ZeroOne(Head(events) \in {e})
          = Cardinality(Spots(events, {e}))
    <2>1. events # <<>> /\ events' = Tail(events)
      BY DEF Pop
    <2>2. events \in Seq(Events)
      BY DEF TypeInv, TypeOK
    <2>3. QED BY <2>1, <2>2, SpotsTail
  <1>2. Cardinality(Spots(events', {e})) \in Nat /\ events' \in Seq(Events)
    BY HeadIsEvent, SpotsFinite DEF Pop, TypeInv
  <1>3. Places(e) = ZeroOne(e \in day)
    BY DEF CountInv
  <1>4. Head(events) = e => e \notin seen /\ e \notin cut
    BY <1>1, <1>2, <1>3, CountNats, SMTT(30) DEF Places, ZeroOne
  <1>5. ZeroOne(e \in seen') + ZeroOne(e \in cut')
          = ZeroOne(e \in seen) + ZeroOne(e \in cut) + ZeroOne(Head(events) \in {e})
    BY <1>4 DEF ZeroOne
  <1>6. PICK p \in Nat, q \in Nat, h \in Nat :
             /\ p = Cardinality(Spots(events, {e})) /\ q = Cardinality(Spots(events', {e}))
             /\ h = Cardinality(Holders(hand, {e}))
    BY <1>2, CountNats
  <1>7. Places(e)' = Places(e)
    BY <1>1, <1>5, <1>6 DEF Places, ZeroOne
  <1>8. QED BY <1>3, <1>7, CountNats

LEMMA CountSame ==
  ASSUME CountInv, UNCHANGED <<day, silent, events, hand, handled, cut, seen>>
  PROVE  CountInv'
  BY DEF CountInv, Places

LEMMA CountNext ==
  ASSUME TypeInv, CountInv, [Next]_vars
  PROVE  CountInv'
  <1>1. ASSUME NEW e \in Events, Publishes(e), UNCHANGED pipelineVars PROVE CountInv'
    BY <1>1, CountPublishes
  <1>2. ASSUME NEW b \in Buses, Pops(b), UNCHANGED pipelineVars PROVE CountInv'
    BY <1>2, CountPops
  <1>3. ASSUME NEW b \in Buses, Ends(b) \/ IsCut(b), UNCHANGED pipelineVars PROVE CountInv'
    <2>1. /\ at[b] # "rpop" /\ DOMAIN hand' = Buses /\ hand'[b] = None
          /\ \A c \in Buses \ {b} : hand'[c] = hand[c]
      BY <1>3 DEF Ends, IsCut, TypeInv, TypeOK
    <2>2. /\ UNCHANGED <<day, silent, events, seen>>
          /\ \/ handled' = handled \union {hand[b]} /\ UNCHANGED cut
             \/ cut' = cut \union {hand[b]} /\ UNCHANGED handled
      BY <1>3 DEF Ends, IsCut, pipelineVars
    <2>3. QED BY <2>1, <2>2, CountFrees
  <1>4. ASSUME NEW b \in Buses, UNCHANGED pipelineVars,
               \/ Stores(b) \/ Flags(b) \/ Marks(b) \/ SetsStatus(b) \/ Caches(b)
               \/ Ignores(b) \/ Notifies(b) \/ HandlerFails(b)
        PROVE CountInv'
    BY <1>4, CountSame
       DEF Stores, Flags, Marks, SetsStatus, Caches, Ignores, Notifies, HandlerFails, pipelineVars
  <1>5. CASE Takes \/ (PopFails /\ UNCHANGED pipelineVars)
    BY <1>5, CountTakes DEF Takes, PopFails, busVars, pipelineVars
  <1>6. CASE Checks \/ Reads \/ Generates \/ Sends \/ Keeps \/ PipelineFails
    BY <1>6, CountSame
       DEF Checks, Reads, Generates, Sends, Keeps, PipelineFails, Done, handlerVars, busVars
  <1>7. CASE UNCHANGED vars
    BY <1>7, CountSame DEF vars, handlerVars, busVars, pipelineVars
  <1>8. QED BY <1>1, <1>2, <1>3, <1>4, <1>5, <1>6, <1>7 DEF Next, Answer, Listen

LEMMA CountMeans ==
  ASSUME TypeInv, CountInv
  PROVE  OneConsumer
  <1> SUFFICES ASSUME NEW e \in day
               PROVE  Cardinality({i \in DOMAIN events : events[i] = e})
                      + Cardinality({b \in Buses : hand[b] = e})
                      + Cardinality({k \in 1..4 : e \in <<silent, handled, cut, seen>>[k]}) = 1
    BY DEF OneConsumer
  <1>1. e \in Events
    BY EventAssumption DEF TypeInv, TypeOK
  <1>2. Spots(events, {e}) = {i \in DOMAIN events : events[i] = e}
    BY DEF Spots
  <1>3. Holders(hand, {e}) = {b \in Buses : hand[b] = e}
    BY DEF Holders, TypeInv, TypeOK
  <1>4. Cardinality({k \in 1..4 : e \in <<silent, handled, cut, seen>>[k]})
          = ZeroOne(e \in silent) + ZeroOne(e \in handled) + ZeroOne(e \in cut) + ZeroOne(e \in seen)
    BY InFourSets
  <1>5. Places(e) = 1
    BY <1>1 DEF CountInv, ZeroOne
  <1>6. Cardinality(Spots(events, {e})) + Cardinality(Holders(hand, {e}))
        + Cardinality({k \in 1..4 : e \in <<silent, handled, cut, seen>>[k]}) = 1
    BY <1>1, <1>4, <1>5, CountNats DEF Places, ZeroOne
  <1>7. QED BY <1>2, <1>3, <1>6

(* However the buses and the pipeline compete for the list, and wherever a *)
(* failure cuts them off: an event of the run is in the list, or at one    *)
(* consumer, or was at one, and it is handled once at most.                *)
THEOREM EventHasOneConsumer == Spec => []OneConsumer
  <1>1. Init => TypeInv /\ CountInv
    BY TypeInit, CountInit
  <1>2. TypeInv /\ CountInv /\ [Next]_vars => (TypeInv /\ CountInv)'
    BY TypeNext, CountNext
  <1>3. TypeInv /\ CountInv => OneConsumer
    BY CountMeans
  <1>4. QED BY <1>1, <1>2, <1>3, PTL DEF Spec

(***************************************************************************)
(* A bus that is telling the webhooks of its event still has those to tell *)
(* that have no task yet.                                                  *)
(***************************************************************************)
Told(e, rest) == \A h \in Hear(e) : h \in rest \/ <<h, e>> \in tasks

ToldInv ==
  /\ \A e \in handled : Told(e, {})
  /\ \A b \in Buses : at[b] = "hooks" => Told(hand[b], todo[b])

LEMMA ToldGoesOn ==
  ASSUME TypeInv, ToldInv, NEW b \in Buses, hand' = hand, handled' = handled, tasks' = tasks,
         ToHooks(b) \/ \E s \in {"flag", "cache"} : To(b, s)
  PROVE  ToldInv'
  <1>1. \A e \in handled' : Told(e, {})'
    BY DEF ToldInv, Told
  <1>2. ASSUME NEW c \in Buses, at'[c] = "hooks"
        PROVE  Told(hand[c], todo[c])'
    <2>1. CASE c = b
      <3>1. ToHooks(b) /\ todo'[b] = Hear(hand[b])
        BY <1>2, <2>1 DEF To, ToHooks, TypeInv, TypeOK
      <3>2. QED BY <2>1, <3>1 DEF Told
    <2>2. CASE c # b
      <3>1. at[c] = "hooks" /\ todo'[c] = todo[c]
        BY <1>2, <2>2 DEF To, ToHooks, TypeInv, TypeOK
      <3>2. QED BY <3>1 DEF ToldInv, Told
    <2>3. QED BY <2>1, <2>2
  <1>3. QED BY <1>1, <1>2 DEF ToldInv

LEMMA ToldNotifies ==
  ASSUME TypeInv, ToldInv, NEW b \in Buses, Notifies(b)
  PROVE  ToldInv'
  <1>1. PICK h \in todo[b] : tasks' = tasks \union {<<h, hand[b]>>}
                            /\ todo' = [todo EXCEPT ![b] = @ \ {h}]
    BY DEF Notifies
  <1>2. at' = at /\ hand' = hand /\ handled' = handled
    BY DEF Notifies
  <1>3. \A e \in handled' : Told(e, {})'
    BY <1>1, <1>2 DEF ToldInv, Told
  <1>4. ASSUME NEW c \in Buses, at'[c] = "hooks"
        PROVE  Told(hand[c], todo[c])'
    <2>1. \A g \in todo[c] : g \in todo'[c] \/ (c = b /\ g = h)
      BY <1>1 DEF TypeInv, TypeOK
    <2>2. Told(hand[c], todo[c])
      BY <1>2, <1>4 DEF ToldInv
    <2>3. QED BY <1>1, <1>2, <2>1, <2>2 DEF Told
  <1>5. QED BY <1>3, <1>4 DEF ToldInv

LEMMA ToldEnds ==
  ASSUME TypeInv, ToldInv, NEW b \in Buses, Ends(b)
  PROVE  ToldInv'
  <1>1. Told(hand[b], {})
    BY DEF Ends, ToldInv, Told
  <1>2. \A e \in handled' : Told(e, {})'
    BY <1>1 DEF Ends, ToldInv, Told
  <1>3. ASSUME NEW c \in Buses, at'[c] = "hooks"
        PROVE  Told(hand[c], todo[c])'
    BY <1>3 DEF Ends, ToldInv, Told, TypeInv, TypeOK
  <1>4. QED BY <1>2, <1>3 DEF ToldInv

(* A step that gives no bus the stage "hooks" and drops no task.           *)
LEMMA ToldStays ==
  ASSUME TypeInv, ToldInv, handled' = handled, tasks' = tasks,
         \A c \in Buses : at'[c] = "hooks" =>
             at[c] = "hooks" /\ hand'[c] = hand[c] /\ todo'[c] = todo[c]
  PROVE  ToldInv'
  BY DEF ToldInv, Told

LEMMA ToldNext ==
  ASSUME TypeInv, ToldInv, [Next]_vars
  PROVE  ToldInv'
  <1>1. ASSUME NEW b \in Buses, Notifies(b) \/ Ends(b) PROVE ToldInv'
    BY <1>1, ToldNotifies, ToldEnds
  <1>2. ASSUME NEW b \in Buses,
               \/ Stores(b) \/ Flags(b) \/ Marks(b) \/ SetsStatus(b) \/ Caches(b)
               \/ Ignores(b) \/ HandlerFails(b)
        PROVE  ToldInv'
    <2>1. hand' = hand /\ handled' = handled /\ tasks' = tasks
          /\ (ToHooks(b) \/ To(b, "flag") \/ To(b, "cache"))
      BY <1>2 DEF Stores, Flags, Marks, SetsStatus, Caches, Ignores, HandlerFails
    <2>2. QED BY <2>1, ToldGoesOn
  <1>3. ASSUME NEW b \in Buses, Pops(b) \/ IsCut(b) PROVE ToldInv'
    BY <1>3, ToldStays DEF Pops, IsCut, TypeInv, TypeOK
  <1>4. CASE (\E e \in Events : Publishes(e)) \/ Takes \/ Checks \/ Reads \/ Generates \/ Sends
             \/ Keeps \/ PipelineFails \/ PopFails \/ UNCHANGED vars
    BY <1>4, ToldStays
       DEF Publishes, Takes, Checks, Reads, Generates, Sends, Keeps, PipelineFails, PopFails,
           handlerVars, busVars, vars
  <1>5. QED BY <1>1, <1>2, <1>3, <1>4 DEF Next, Answer, Listen

(* Whatever a handler does with an event, an error included: when the bus  *)
(* has ended with it every webhook that is subscribed has its task.        *)
THEOREM EverySubscriberIsTold == Spec => []SubscribersAreTold
  <1>1. Init => TypeInv /\ ToldInv
    BY TypeInit DEF Init, HandlerInit, ToldInv
  <1>2. TypeInv /\ ToldInv /\ [Next]_vars => (TypeInv /\ ToldInv)'
    BY TypeNext, ToldNext
  <1>3. ToldInv => SubscribersAreTold
    BY DEF ToldInv, Told, SubscribersAreTold
  <1>4. QED BY <1>1, <1>2, <1>3, PTL DEF Spec

(***************************************************************************)
(* The order of the states of a connection.  A state that no bus had in    *)
(* hand when a later one was popped is in no hand, so no bus writes it any *)
(* more, whatever becomes of the later one.                                *)
(***************************************************************************)
Connections == {e \in Events : Name(e) = "connection.update"}

Known == \A i \in DOMAIN popped :
  LET e == popped[i].event
  IN  /\ e \in Connections
      /\ (\E b \in Buses : hand[b] = e) \/ e \in handled \/ e \in cut

OrderInv == \A i, j \in DOMAIN popped :
  i < j /\ popped[i].event \notin popped[j].beside => \A b \in Buses : hand[b] # popped[i].event

(* What is in the list was not at a bus before.                            *)
LEMMA Newcomer ==
  ASSUME TypeInv, CountInv, events # <<>>
  PROVE  /\ Head(events) \notin handled /\ Head(events) \notin cut
         /\ \A b \in Buses : hand[b] # Head(events)
  <1> DEFINE e == Head(events)
  <1>1. events \in Seq(Events) /\ e \in Events /\ Tail(events) \in Seq(Events)
    BY HeadTailProperties DEF TypeInv, TypeOK
  <1> HIDE DEF e
  <1>2. Cardinality(Spots(Tail(events), {e})) + ZeroOne(Head(events) \in {e})
          = Cardinality(Spots(events, {e}))
    BY <1>1, SpotsTail
  <1>3. Cardinality(Spots(Tail(events), {e})) \in Nat
    BY <1>1, SpotsFinite
  <1>4. ZeroOne(Head(events) \in {e}) = 1
    BY DEF ZeroOne, e
  <1>5. Places(e) = ZeroOne(e \in day)
    BY <1>1 DEF CountInv
  <1>6. e \notin handled /\ e \notin cut /\ Cardinality(Holders(hand, {e})) = 0
    <2>1. Cardinality(Spots(events, {e})) >= 1 /\ Cardinality(Spots(events, {e})) \in Nat
          /\ Cardinality(Holders(hand, {e})) \in Nat
      BY <1>1, <1>2, <1>3, <1>4, CountNats
    <2>2. QED BY <1>5, <2>1 DEF Places, ZeroOne
  <1>7. Holders(hand, {e}) = {}
    BY <1>1, <1>6, CountNats, FS_EmptySet
  <1>8. QED BY <1>6, <1>7 DEF e, Holders, TypeInv, TypeOK

(* A step that gives no bus another event.                                 *)
LEMMA OrderStays ==
  ASSUME Known, OrderInv, popped' = popped,
         \A b \in Buses : hand'[b] = hand[b] \/ hand'[b] = None
  PROVE  OrderInv'
  <1> SUFFICES ASSUME NEW i \in DOMAIN popped, NEW j \in DOMAIN popped,
                      i < j, popped[i].event \notin popped[j].beside
               PROVE  \A b \in Buses : hand'[b] # popped[i].event
    BY DEF OrderInv
  <1>1. popped[i].event # None
    BY EventAssumption DEF Known, Connections
  <1>2. QED BY <1>1 DEF OrderInv

LEMMA PoppedAppended ==
  ASSUME TypeInv, NEW e \in Events, popped' = Append(popped, [event |-> e, beside |-> InHand])
  PROVE  /\ Len(popped) \in Nat /\ DOMAIN popped = 1..Len(popped)
         /\ DOMAIN popped' = 1..(Len(popped) + 1)
         /\ popped'[Len(popped) + 1] = [event |-> e, beside |-> InHand]
         /\ \A i \in 1..Len(popped) : popped'[i] = popped[i]
  <1>1. PICK x : x = [event |-> e, beside |-> InHand]
    OBVIOUS
  <1>2. x \in [event : Events, beside : SUBSET Events]
    BY <1>1, InHandType DEF TypeInv
  <1>3. popped \in Seq([event : Events, beside : SUBSET Events]) /\ popped' = Append(popped, x)
    BY <1>1 DEF TypeInv, TypeOK
  <1>4. /\ Len(popped) \in Nat /\ DOMAIN popped = 1..Len(popped)
        /\ DOMAIN popped' = 1..(Len(popped) + 1)
        /\ popped'[Len(popped) + 1] = x
        /\ \A i \in 1..Len(popped) : popped'[i] = popped[i]
    BY <1>2, <1>3, AppendProperties, LenProperties
  <1>5. QED BY <1>1, <1>4

(* A bus pops: what it gets is new, so no event that was popped before and *)
(* is in no hand comes back to one.                                        *)
LEMMA OrderPops ==
  ASSUME TypeInv, CountInv, Known, OrderInv, NEW b \in Buses, Pops(b)
  PROVE  OrderInv'
  <1>0. PICK e : e = Head(events)
    OBVIOUS
  <1>1. /\ e \notin handled /\ e \notin cut /\ e \in Events /\ \A c \in Buses : hand[c] # e
    BY <1>0, Newcomer, HeadIsEvent DEF Pops, Pop, TypeInv
  <1>2. hand'[b] = e /\ \A c \in Buses \ {b} : hand'[c] = hand[c]
    BY <1>0 DEF Pops, TypeInv, TypeOK
  <1>3. \A i \in DOMAIN popped : popped[i].event # e
    BY <1>1, EventAssumption DEF Known, Connections
  <1>4. ASSUME NEW y, y # e, \A c \in Buses : hand[c] # y
        PROVE  \A c \in Buses : hand'[c] # y
    BY <1>2, <1>4
  <1>5. CASE popped' = popped
    <2> SUFFICES ASSUME NEW i \in DOMAIN popped, NEW j \in DOMAIN popped,
                        i < j, popped[i].event \notin popped[j].beside
                 PROVE  \A c \in Buses : hand'[c] # popped[i].event
      BY <1>5 DEF OrderInv
    <2>1. \A c \in Buses : hand[c] # popped[i].event
      BY DEF OrderInv
    <2>2. QED BY <1>3, <1>4, <2>1
  <1>6. CASE popped' = Append(popped, [event |-> e, beside |-> InHand])
    <2> DEFINE n == Len(popped)
    <2>1. /\ n \in Nat /\ DOMAIN popped = 1..n /\ DOMAIN popped' = 1..(n + 1)
          /\ popped'[n + 1] = [event |-> e, beside |-> InHand]
          /\ \A i \in 1..n : popped'[i] = popped[i]
      BY <1>1, <1>6, PoppedAppended
    <2> SUFFICES ASSUME NEW i \in 1..(n + 1), NEW j \in 1..(n + 1),
                        i < j, popped'[i].event \notin popped'[j].beside
                 PROVE  \A c \in Buses : hand'[c] # popped'[i].event
      BY <2>1 DEF OrderInv
    <2>2. PICK y : y = popped'[i].event
      OBVIOUS
    <2>3. i \in DOMAIN popped /\ y = popped[i].event /\ y # e
      BY <1>3, <2>1, <2>2
    <2>4. \A c \in Buses : hand[c] # y
      <3>1. CASE j = n + 1
        <4>1. y \notin InHand /\ y # None
          BY <2>1, <2>2, <2>3, <3>1, EventAssumption DEF Known, Connections
        <4>2. QED BY <4>1 DEF InHand
      <3>2. CASE j # n + 1
        <4>1. j \in DOMAIN popped /\ popped'[j] = popped[j] /\ popped'[i] = popped[i]
          BY <2>1, <2>3, <3>2
        <4>2. QED BY <2>2, <2>3, <4>1 DEF OrderInv
      <3>3. QED BY <3>1, <3>2
    <2>5. QED BY <1>4, <2>2, <2>3, <2>4
  <1>7. QED BY <1>0, <1>5, <1>6 DEF Pops

LEMMA OrderNext ==
  ASSUME TypeInv, CountInv, Known, OrderInv, [Next]_vars
  PROVE  OrderInv'
  <1>1. ASSUME NEW b \in Buses, Pops(b) PROVE OrderInv'
    BY <1>1, OrderPops
  <1>2. ASSUME NEW b \in Buses, Ends(b) \/ IsCut(b) PROVE OrderInv'
    BY <1>2, OrderStays DEF Ends, IsCut, TypeInv, TypeOK
  <1>3. ASSUME NEW b \in Buses,
               \/ Stores(b) \/ Flags(b) \/ Marks(b) \/ SetsStatus(b) \/ Caches(b)
               \/ Ignores(b) \/ Notifies(b) \/ HandlerFails(b)
        PROVE OrderInv'
    BY <1>3, OrderStays
       DEF Stores, Flags, Marks, SetsStatus, Caches, Ignores, Notifies, HandlerFails
  <1>4. CASE (\E e \in Events : Publishes(e)) \/ Takes \/ Checks \/ Reads \/ Generates \/ Sends
             \/ Keeps \/ PipelineFails \/ PopFails \/ UNCHANGED vars
    BY <1>4, OrderStays
       DEF Publishes, Takes, Checks, Reads, Generates, Sends, Keeps, PipelineFails, PopFails,
           handlerVars, busVars, vars
  <1>5. QED BY <1>1, <1>2, <1>3, <1>4 DEF Next, Answer, Listen

(* An event stays at its bus until it is handled or cut off.               *)
LEMMA KnownStays ==
  ASSUME TypeInv, Known, popped' = popped, handled \subseteq handled', cut \subseteq cut',
         \A b \in Buses : \/ hand'[b] = hand[b] \/ hand[b] = None
                          \/ hand[b] \in handled' \union cut'
  PROVE  Known'
  <1> SUFFICES ASSUME NEW i \in DOMAIN popped
               PROVE  /\ popped[i].event \in Connections
                      /\ \/ \E b \in Buses : hand'[b] = popped[i].event
                         \/ popped[i].event \in handled' \/ popped[i].event \in cut'
    BY DEF Known
  <1>1. popped[i].event # None /\ popped[i].event \in Connections
    BY EventAssumption DEF Known, Connections
  <1>2. QED BY <1>1 DEF Known

LEMMA KnownPops ==
  ASSUME TypeInv, Known, NEW b \in Buses, Pops(b)
  PROVE  Known'
  <1>0. PICK e : e = Head(events)
    OBVIOUS
  <1>1. e \in Events /\ hand'[b] = e /\ hand[b] = None /\ UNCHANGED <<handled, cut>>
        /\ \A c \in Buses \ {b} : hand'[c] = hand[c]
    BY <1>0, HeadIsEvent DEF Pops, TypeInv, TypeOK, AtWork
  <1>2. CASE popped' = popped
    BY <1>1, <1>2, KnownStays
  <1>3. CASE Name(e) = "connection.update"
             /\ popped' = Append(popped, [event |-> e, beside |-> InHand])
    <2> DEFINE n == Len(popped)
    <2>1. /\ n \in Nat /\ DOMAIN popped = 1..n /\ DOMAIN popped' = 1..(n + 1)
          /\ popped'[n + 1] = [event |-> e, beside |-> InHand]
          /\ \A i \in 1..n : popped'[i] = popped[i]
      BY <1>1, <1>3, PoppedAppended
    <2> SUFFICES ASSUME NEW i \in 1..(n + 1)
                 PROVE  /\ popped'[i].event \in Connections
                        /\ \/ \E c \in Buses : hand'[c] = popped'[i].event
                           \/ popped'[i].event \in handled' \/ popped'[i].event \in cut'
      BY <2>1 DEF Known
    <2>2. CASE i = n + 1
      BY <1>1, <1>3, <2>1, <2>2 DEF Connections
    <2>3. CASE i # n + 1
      <3>1. i \in DOMAIN popped /\ popped'[i] = popped[i] /\ popped[i].event # None
        BY <2>1, <2>3, EventAssumption DEF Known, Connections
      <3>2. QED BY <1>1, <3>1 DEF Known
    <2>4. QED BY <2>2, <2>3
  <1>4. QED BY <1>0, <1>2, <1>3 DEF Pops

LEMMA KnownNext ==
  ASSUME TypeInv, Known, [Next]_vars
  PROVE  Known'
  <1>1. ASSUME NEW b \in Buses, Pops(b) PROVE Known'
    BY <1>1, KnownPops
  <1>2. ASSUME NEW b \in Buses, Ends(b) \/ IsCut(b) PROVE Known'
    BY <1>2, KnownStays DEF Ends, IsCut, TypeInv, TypeOK
  <1>3. ASSUME NEW b \in Buses,
               \/ Stores(b) \/ Flags(b) \/ Marks(b) \/ SetsStatus(b) \/ Caches(b)
               \/ Ignores(b) \/ Notifies(b) \/ HandlerFails(b)
        PROVE Known'
    BY <1>3, KnownStays
       DEF Stores, Flags, Marks, SetsStatus, Caches, Ignores, Notifies, HandlerFails
  <1>4. CASE (\E e \in Events : Publishes(e)) \/ Takes \/ Checks \/ Reads \/ Generates \/ Sends
             \/ Keeps \/ PipelineFails \/ PopFails \/ UNCHANGED vars
    BY <1>4, KnownStays
       DEF Publishes, Takes, Checks, Reads, Generates, Sends, Keeps, PipelineFails, PopFails,
           handlerVars, busVars, vars
  <1>5. QED BY <1>1, <1>2, <1>3, <1>4 DEF Next, Answer, Listen

(* What is written to the row, or to the key, is in some bus's hand.       *)
Forward == \A i, j \in DOMAIN popped :
  i < j /\ popped[i].event \notin popped[j].beside =>
    /\ status' = popped[i].event => status = popped[i].event
    /\ cached' = popped[i].event => cached = popped[i].event

LEMMA OnlyBusesWrite ==
  ASSUME [Next]_vars
  PROVE  /\ status' = status \/ \E b \in Buses : status' = hand[b]
         /\ cached' = cached \/ \E b \in Buses : cached' = hand[b]
  <1>1. ASSUME NEW b \in Buses, SetsStatus(b) \/ Caches(b)
        PROVE  /\ status' = status \/ status' = hand[b]
               /\ cached' = cached \/ cached' = hand[b]
    BY <1>1 DEF SetsStatus, Caches
  <1>2. ASSUME NEW b \in Buses,
               \/ Pops(b) \/ Stores(b) \/ Flags(b) \/ Marks(b) \/ Ignores(b) \/ Notifies(b)
               \/ Ends(b) \/ HandlerFails(b) \/ IsCut(b)
        PROVE  UNCHANGED <<status, cached>>
    BY <1>2 DEF Pops, Stores, Flags, Marks, Ignores, Notifies, Ends, HandlerFails, IsCut
  <1>3. CASE (\E e \in Events : Publishes(e)) \/ Takes \/ Checks \/ Reads \/ Generates \/ Sends
             \/ Keeps \/ PipelineFails \/ PopFails \/ UNCHANGED vars
    BY <1>3
       DEF Publishes, Takes, Checks, Reads, Generates, Sends, Keeps, PipelineFails, PopFails,
           handlerVars, busVars, vars
  <1>4. QED BY <1>1, <1>2, <1>3 DEF Next, Answer, Listen

(* A bus writes a state of the connection, into the row or the key, only   *)
(* while no later state has been popped that it was not beside: whatever   *)
(* fails or stops, and however many buses and states the run has.          *)
THEOREM StateIsNotOvertaken == Spec => StatesGoForward
  <1> DEFINE IInv == TypeInv /\ CountInv /\ Known /\ OrderInv
  <1>1. Init => IInv
    <2>1. Init => \A i \in DOMAIN popped : FALSE
      BY NoneThere DEF Init, HandlerInit
    <2>2. QED BY <2>1, TypeInit, CountInit DEF Known, OrderInv
  <1>2. IInv /\ [Next]_vars => IInv'
    BY TypeNext, CountNext, KnownNext, OrderNext
  <1>3. IInv /\ [Next]_vars => [Forward]_vars
    BY OnlyBusesWrite DEF OrderInv, Forward
  <1>4. QED BY <1>1, <1>2, <1>3, PTL DEF Spec, StatesGoForward, Forward

(***************************************************************************)
(* What the library's FoldLeft is.  It is defined through a recursive      *)
(* function on the sets of positions, so the first thing to know is that   *)
(* there is such a function: it is built from the iterations of Counting,  *)
(* one for each set of positions.                                          *)
(***************************************************************************)
(* A set of positions up to n that is not empty has a last one.            *)
LEMMA LastPosition ==
  ASSUME NEW n \in Nat, NEW T \in SUBSET (1..n), T # {}
  PROVE  Max(T) \in T /\ \A y \in T : y <= Max(T)
  <1> DEFINE S == {k \in Nat : (\E y \in T : y <= k) => \E x \in T : \A y \in T : y <= k => y <= x}
  <1>1. 0 \in S
    OBVIOUS
  <1>2. ASSUME NEW k \in S PROVE k + 1 \in S
    <2>1. k \in Nat /\ ((\E y \in T : y <= k) => \E x \in T : \A y \in T : y <= k => y <= x)
      OBVIOUS
    <2>2. CASE k + 1 \in T
      <3>1. \A y \in T : y <= k + 1 => y <= k + 1
        OBVIOUS
      <3>2. QED BY <2>1, <2>2, <3>1
    <2>3. CASE k + 1 \notin T
      <3>1. \A y \in T : y <= k + 1 <=> y <= k
        BY <2>1, <2>3
      <3>2. QED BY <2>1, <3>1
    <2>4. QED BY <2>2, <2>3
  <1>3. S \in SUBSET Nat
    OBVIOUS
  <1> HIDE DEF S
  <1>4. n \in S
    BY <1>1, <1>2, <1>3, SetInduction
  <1>5. \E x \in T : \A y \in T : y <= x
    <2>1. \A y \in T : y \in Nat /\ y <= n
      OBVIOUS
    <2>2. QED BY <1>4, <2>1 DEF S
  <1>6. \E x \in T : \A y \in T : x >= y
    <2>1. PICK x \in T : \A y \in T : y <= x
      BY <1>5
    <2>2. \A y \in T : x >= y
      BY <2>1
    <2>3. QED BY <2>2
  <1>7. Max(T) \in T /\ \A y \in T : Max(T) >= y
    BY <1>6 DEF Max
  <1>8. QED BY <1>7

(* The fold over the positions of T, from the left, written down.          *)
LeftToRight(U, V, base, step, s, T) ==
  /\ U \in [Nat -> V] /\ U[0] = base
  /\ \A k \in Nat : U[k + 1] = IF k + 1 \in T THEN step[<<U[k], s[k + 1]>>] ELSE U[k]

LEMMA LeftToRightExists ==
  ASSUME NEW V, NEW S, NEW s \in Seq(S), NEW base \in V, NEW step \in [V \X S -> V],
         NEW T \in SUBSET (1..Len(s))
  PROVE  \E U : LeftToRight(U, V, base, step, s, T)
  <1> DEFINE next == [p \in V \X Nat |->
                        IF p[2] + 1 \in T THEN step[<<p[1], s[p[2] + 1]>>] ELSE p[1]]
  <1>1. next \in [V \X Nat -> V]
    <2>1. ASSUME NEW p \in V \X Nat
          PROVE  (IF p[2] + 1 \in T THEN step[<<p[1], s[p[2] + 1]>>] ELSE p[1]) \in V
      <3>1. p[1] \in V /\ p[2] \in Nat
        OBVIOUS
      <3>2. ASSUME p[2] + 1 \in T PROVE step[<<p[1], s[p[2] + 1]>>] \in V
        <4>1. s[p[2] + 1] \in S
          BY <3>2, ElementOfSeq
        <4>2. QED BY <3>1, <4>1
      <3>3. QED BY <3>1, <3>2
    <2>2. QED BY <2>1
  <1>2. \A v \in V, k \in Nat : next[<<v, k>>] = IF k + 1 \in T THEN step[<<v, s[k + 1]>>] ELSE v
    OBVIOUS
  <1> HIDE DEF next
  <1>3. PICK U : Iterates(U, V, base, next)
    BY <1>1, Repetition
  <1>4. U \in [Nat -> V] /\ U[0] = base /\ \A k \in Nat : U[k + 1] = next[<<U[k], k>>]
    BY <1>3 DEF Iterates
  <1>5. \A k \in Nat : U[k] \in V
    BY <1>4
  <1>6. ASSUME NEW k \in Nat
        PROVE  U[k + 1] = IF k + 1 \in T THEN step[<<U[k], s[k + 1]>>] ELSE U[k]
    <2>1. U[k + 1] = next[<<U[k], k>>] /\ U[k] \in V
      BY <1>4, <1>5
    <2>2. QED BY <1>2, <2>1
  <1>7. LeftToRight(U, V, base, step, s, T)
    BY <1>4, <1>6 DEF LeftToRight
  <1>8. QED BY <1>7

(* Over no position nothing is folded in.                                  *)
LEMMA LeftToRightNone ==
  ASSUME NEW V, NEW base, NEW step, NEW s, NEW U, LeftToRight(U, V, base, step, s, {})
  PROVE  \A k \in Nat : U[k] = base
  <1> DEFINE S == {k \in Nat : U[k] = base}
  <1>1. 0 \in S /\ \A k \in S : k + 1 \in S
    BY DEF LeftToRight
  <1>2. S \in SUBSET Nat
    OBVIOUS
  <1> HIDE DEF S
  <1>3. S = Nat
    BY <1>1, <1>2, SetInduction
  <1>4. QED BY <1>3 DEF S

IsLast(x, T) == x \in T /\ \A y \in T : y <= x

(* So the equation FoldLeft stands for has a solution, and the fold over   *)
(* the first positions is the iteration of the step.                       *)
FoldRule(h, s, base, step) ==
  h = [T \in SUBSET DOMAIN s |->
         IF T = {} THEN base ELSE step[<<h[T \ {Max(T)}], s[Max(T)]>>]]

LEMMA FoldExists ==
  ASSUME NEW V, NEW S, NEW s \in Seq(S), NEW base \in V, NEW step \in [V \X S -> V]
  PROVE  \E h \in [SUBSET DOMAIN s -> V] : FoldRule(h, s, base, step)
  <1> DEFINE n == Len(s)
             Way(T) == CHOOSE U : LeftToRight(U, V, base, step, s, T)
             h == [T \in SUBSET DOMAIN s |-> Way(T)[n]]
  <1>1. n \in Nat /\ DOMAIN s = 1..n
    BY LenProperties
  <1> HIDE DEF n
  <1>2. ASSUME NEW T \in SUBSET DOMAIN s PROVE LeftToRight(Way(T), V, base, step, s, T)
    BY <1>1, LeftToRightExists DEF n
  <1> HIDE DEF Way
  <1>3. h \in [SUBSET DOMAIN s -> V]
    <2>1. ASSUME NEW T \in SUBSET DOMAIN s PROVE Way(T)[n] \in V
      BY <1>1, <1>2 DEF LeftToRight
    <2>2. QED BY <2>1
  <1>4. ASSUME NEW T \in SUBSET DOMAIN s
        PROVE  h[T] = IF T = {} THEN base ELSE step[<<h[T \ {Max(T)}], s[Max(T)]>>]
    <2>1. CASE T = {}
      <3>1. LeftToRight(Way({}), V, base, step, s, {})
        BY <1>2
      <3>2. Way({})[n] = base
        BY <1>1, <3>1, LeftToRightNone
      <3>3. QED BY <2>1, <3>2
    <2>2. CASE T # {}
      <3>1. Max(T) \in T /\ \A y \in T : y <= Max(T)
        BY <1>1, <2>2, LastPosition
      <3>2. PICK x : x = Max(T)
        OBVIOUS
      <3>3. x \in T /\ (\A y \in T : y <= x) /\ T \ {x} \in SUBSET DOMAIN s
        BY <3>1, <3>2
      <3>4. LeftToRight(Way(T), V, base, step, s, T)
            /\ LeftToRight(Way(T \ {x}), V, base, step, s, T \ {x})
        BY <1>2, <3>3
      <3>5. ASSUME NEW U, NEW W, LeftToRight(U, V, base, step, s, T),
                   LeftToRight(W, V, base, step, s, T \ {x})
            PROVE  U[n] = step[<<W[n], s[x]>>]
        <4> DEFINE Same == {k \in Nat : /\ k < x => W[k] = U[k]
                                        /\ x <= k => U[k] = U[x] /\ W[k] = U[x - 1]}
        <4>1. /\ x \in T /\ (\A y \in T : y <= x)
              /\ x \in Nat /\ x - 1 \in Nat /\ (x - 1) + 1 = x /\ x <= n
          BY <1>1, <3>3
        <4>2. \A k \in Nat : /\ U[k + 1] = IF k + 1 \in T THEN step[<<U[k], s[k + 1]>>] ELSE U[k]
                             /\ W[k + 1] = IF k + 1 \in T \ {x} THEN step[<<W[k], s[k + 1]>>] ELSE W[k]
          BY <3>5 DEF LeftToRight
        <4>3. 0 \in Same
          BY <3>5, <4>1 DEF LeftToRight
        <4>4. ASSUME NEW k \in Same PROVE k + 1 \in Same
          <5>1. /\ k \in Nat
                /\ k < x => W[k] = U[k]
                /\ x <= k => U[k] = U[x] /\ W[k] = U[x - 1]
            OBVIOUS
          <5>2. CASE k + 1 < x
            <6>1. k < x /\ k + 1 # x
              BY <4>1, <5>1, <5>2
            <6>2. W[k + 1] = U[k + 1]
              BY <4>2, <5>1, <6>1
            <6>3. ~(x <= k + 1)
              BY <4>1, <5>1, <5>2
            <6>4. QED BY <5>1, <6>2, <6>3
          <5>3. CASE k + 1 = x
            <6>1. k < x /\ k = x - 1 /\ k + 1 \notin T \ {x}
              BY <4>1, <5>1, <5>3
            <6>2. W[k + 1] = U[x - 1] /\ U[k + 1] = U[x]
              BY <4>2, <5>1, <5>3, <6>1
            <6>3. ~(k + 1 < x)
              BY <4>1, <5>1, <5>3
            <6>4. QED BY <5>1, <6>2, <6>3
          <5>4. CASE x < k + 1
            <6>1. x <= k /\ k + 1 \notin T
              BY <4>1, <5>1, <5>4
            <6>2. U[k + 1] = U[k] /\ W[k + 1] = W[k]
              BY <4>2, <5>1, <6>1
            <6>3. ~(k + 1 < x)
              BY <4>1, <5>1, <5>4
            <6>4. QED BY <5>1, <6>1, <6>2, <6>3
          <5>5. QED BY <4>1, <5>1, <5>2, <5>3, <5>4
        <4>5. Same \in SUBSET Nat
          OBVIOUS
        <4>6. U[x] = step[<<U[x - 1], s[x]>>]
          BY <4>1, <4>2
        <4> HIDE DEF Same
        <4>7. n \in Same
          BY <4>3, <4>4, <4>5, SetInduction, <1>1
        <4>8. U[n] = U[x] /\ W[n] = U[x - 1]
          BY <4>1, <4>7 DEF Same
        <4>9. QED BY <4>6, <4>8
      <3>6. Way(T)[n] = step[<<Way(T \ {x})[n], s[x]>>]
        BY <3>4, <3>5
      <3>7. h[T] = step[<<h[T \ {x}], s[x]>>]
        BY <3>3, <3>6
      <3>8. QED BY <2>2, <3>2, <3>7
    <2>3. QED BY <2>1, <2>2
  <1>5. h = [T \in SUBSET DOMAIN s |-> h[T]]
    OBVIOUS
  <1> HIDE DEF h
  <1>6. FoldRule(h, s, base, step)
    BY <1>4, <1>5 DEF FoldRule
  <1>7. QED BY <1>3, <1>6

(* The positions up to k, and the last of them.                            *)
LEMMA UpToNext ==
  ASSUME NEW k \in Nat, NEW T, T = 1..(k + 1)
  PROVE  T \ {k + 1} = 1..k /\ T # {} /\ Max(T) = k + 1
  <1>1. T # {} /\ k + 1 \in T /\ k + 1 \in Nat
    OBVIOUS
  <1>2. IsLast(Max(T), T)
    BY <1>1, LastPosition DEF IsLast
  <1>3. \A m : IsLast(m, T) => m = k + 1
    BY <1>1 DEF IsLast
  <1>4. Max(T) = k + 1
    BY <1>2, <1>3
  <1>5. T \ {k + 1} = 1..k
    OBVIOUS
  <1>6. QED BY <1>1, <1>4, <1>5

(***************************************************************************)
(* What the library's FlattenSeq is, and that to flatten two lists one     *)
(* after the other is to flatten the one and then the other.               *)
(***************************************************************************)
(* The pieces of a flattened sequence, one more at every step.             *)
Joins(f, ss, X) ==
  /\ f \in [Nat -> Seq(X)] /\ f[0] = <<>>
  /\ \A k \in 0..(Len(ss) - 1) : f[k + 1] = f[k] \o ss[k + 1]

(* The pieces of any list of lists exist.                                  *)
LEMMA JoinsExists ==
  ASSUME NEW X, NEW ss \in Seq(Seq(X))
  PROVE  \E f : Joins(f, ss, X)
  <1> DEFINE join == [p \in Seq(X) \X Nat |->
                        IF p[2] + 1 \in 1..Len(ss) THEN p[1] \o ss[p[2] + 1] ELSE p[1]]
  <1>1. join \in [Seq(X) \X Nat -> Seq(X)]
    <2>1. ASSUME NEW p \in Seq(X) \X Nat
          PROVE  (IF p[2] + 1 \in 1..Len(ss) THEN p[1] \o ss[p[2] + 1] ELSE p[1]) \in Seq(X)
      <3>1. p[1] \in Seq(X) /\ p[2] \in Nat
        OBVIOUS
      <3>2. ASSUME p[2] + 1 \in 1..Len(ss) PROVE p[1] \o ss[p[2] + 1] \in Seq(X)
        <4>1. ss[p[2] + 1] \in Seq(X)
          BY <3>2, ElementOfSeq
        <4>2. QED BY <3>1, <4>1, ConcatProperties
      <3>3. QED BY <3>1, <3>2
    <2>2. QED BY <2>1
  <1>2. \A v \in Seq(X), k \in Nat :
          join[<<v, k>>] = IF k + 1 \in 1..Len(ss) THEN v \o ss[k + 1] ELSE v
    OBVIOUS
  <1> HIDE DEF join
  <1>3. <<>> \in Seq(X)
    BY EmptySeq
  <1>4. PICK f : Iterates(f, Seq(X), <<>>, join)
    BY <1>1, <1>3, Repetition
  <1>5. f \in [Nat -> Seq(X)] /\ f[0] = <<>> /\ \A k \in Nat : f[k + 1] = join[<<f[k], k>>]
    BY <1>4 DEF Iterates
  <1>6. ASSUME NEW k \in 0..(Len(ss) - 1) PROVE f[k + 1] = f[k] \o ss[k + 1]
    <2>1. k \in Nat /\ k + 1 \in 1..Len(ss)
      BY LenProperties
    <2>2. f[k] \in Seq(X) /\ f[k + 1] = join[<<f[k], k>>]
      BY <1>5, <2>1
    <2>3. QED BY <1>2, <2>1, <2>2
  <1>7. Joins(f, ss, X)
    BY <1>5, <1>6 DEF Joins
  <1>8. QED BY <1>7

(* The equation that FlattenSeq stands for.                                *)
FlattenRule(h, ss) ==
  h = [i \in 1..Len(ss) |-> IF i = 1 THEN ss[i] ELSE h[i - 1] \o ss[i]]

(* FlattenSeq is the last of them.                                         *)
LEMMA FlattenJoins ==
  ASSUME NEW X, NEW ss \in Seq(Seq(X)), NEW f, Joins(f, ss, X)
  PROVE  FlattenSeq(ss) = f[Len(ss)]
  <1> DEFINE n == Len(ss)
  <1>1. n \in Nat /\ DOMAIN ss = 1..n
    BY LenProperties
  <1>2. /\ f \in [Nat -> Seq(X)] /\ f[0] = <<>>
        /\ \A k \in 0..(n - 1) : f[k + 1] = f[k] \o ss[k + 1]
    BY DEF Joins
  <1>3. CASE n = 0
    <2>1. ss = <<>>
      BY <1>3, EmptySeq
    <2>2. FlattenSeq(ss) = ss
      BY <1>3 DEF FlattenSeq
    <2>3. QED BY <1>2, <1>3, <2>1, <2>2
  <1>4. CASE n # 0
    <2> DEFINE it == CHOOSE h : FlattenRule(h, ss)
    <2>1. FlattenSeq(ss) = it[n]
      BY <1>4 DEF FlattenSeq, FlattenRule
    <2> HIDE DEF n
    <2>2. ASSUME NEW i \in 1..n PROVE f[i] = IF i = 1 THEN ss[i] ELSE f[i - 1] \o ss[i]
      <3>1. i - 1 \in 0..(n - 1) /\ (i - 1) + 1 = i
        BY <1>1
      <3>2. f[i] = f[i - 1] \o ss[i]
        BY <1>2, <3>1
      <3>3. CASE i = 1
        <4>1. ss[1] \in Seq(X)
          BY <1>1, <3>3, ElementOfSeq DEF n
        <4>2. f[1] = <<>> \o ss[1]
          <5>1. 1 - 1 = 0
            OBVIOUS
          <5>2. f[1] = f[0] \o ss[1]
            BY <3>2, <3>3, <5>1
          <5>3. f[0] = <<>>
            BY <1>2
          <5>4. QED BY <5>2, <5>3
        <4>3. <<>> \o ss[1] = ss[1]
          BY <4>1, ConcatEmptySeq
        <4>4. QED BY <3>3, <4>2, <4>3
      <3>4. QED BY <3>2, <3>3
    <2>3. \E h : FlattenRule(h, ss)
      <3> DEFINE h == [i \in 1..n |-> f[i]]
      <3>1. ASSUME NEW i \in 1..n PROVE h[i] = IF i = 1 THEN ss[i] ELSE h[i - 1] \o ss[i]
        <4>1. i # 1 => i - 1 \in 1..n
          BY <1>1
        <4>2. QED BY <2>2, <4>1
      <3>2. h = [i \in 1..n |-> h[i]]
        OBVIOUS
      <3> HIDE DEF h
      <3>3. h = [i \in 1..n |-> IF i = 1 THEN ss[i] ELSE h[i - 1] \o ss[i]]
        BY <3>1, <3>2
      <3>4. FlattenRule(h, ss)
        BY <3>3 DEF FlattenRule, n
      <3>5. QED BY <3>4
    <2>4. FlattenRule(it, ss)
      BY <2>3
    <2> HIDE DEF it
    <2>5. \A i \in 1..n : it[i] = IF i = 1 THEN ss[i] ELSE it[i - 1] \o ss[i]
      BY <2>4 DEF FlattenRule, n
    <2> DEFINE S == {k \in Nat : k \in 1..n => it[k] = f[k]}
    <2>6. 0 \in S
      OBVIOUS
    <2>7. ASSUME NEW k \in S PROVE k + 1 \in S
      <3>1. SUFFICES ASSUME k + 1 \in 1..n PROVE it[k + 1] = f[k + 1]
        OBVIOUS
      <3>2. k \in Nat /\ (k + 1) - 1 = k /\ (k + 1 # 1 => k \in 1..n)
        BY <1>1, <3>1
      <3>3. k + 1 # 1 => it[k] = f[k]
        BY <3>2
      <3>4. f[k + 1] = IF k + 1 = 1 THEN ss[k + 1] ELSE f[k] \o ss[k + 1]
        BY <2>2, <3>1, <3>2
      <3>5. it[k + 1] = IF k + 1 = 1 THEN ss[k + 1] ELSE it[k] \o ss[k + 1]
        BY <2>5, <3>1, <3>2
      <3>6. QED BY <3>3, <3>4, <3>5
    <2>8. S \in SUBSET Nat
      OBVIOUS
    <2> HIDE DEF S
    <2>9. n \in S
      BY <1>1, <2>6, <2>7, <2>8, SetInduction
    <2>10. it[n] = f[n]
      BY <1>1, <1>4, <2>9 DEF S
    <2>11. QED BY <2>1, <2>10 DEF n
  <1>5. QED BY <1>3, <1>4

LEMMA FlattenType ==
  ASSUME NEW X, NEW ss \in Seq(Seq(X))
  PROVE  FlattenSeq(ss) \in Seq(X)
  <1>1. PICK f : Joins(f, ss, X)
    BY JoinsExists
  <1>2. Len(ss) \in Nat
    BY LenProperties
  <1>3. f[Len(ss)] \in Seq(X)
    BY <1>1, <1>2 DEF Joins
  <1>4. QED BY <1>1, <1>3, FlattenJoins

LEMMA FlattenNone ==
  ASSUME NEW X
  PROVE  FlattenSeq(<<>>) = <<>>
  <1>1. <<>> \in Seq(Seq(X)) /\ Len(<<>>) = 0
    BY EmptySeq
  <1>2. QED BY <1>1 DEF FlattenSeq

LEMMA FlattenOne ==
  ASSUME NEW X, NEW c \in Seq(X)
  PROVE  FlattenSeq(<<c>>) = c
  <1> DEFINE ss == <<c>>
  <1>1. ss \in Seq(Seq(X)) /\ Len(ss) = 1 /\ ss[1] = c
    OBVIOUS
  <1> HIDE DEF ss
  <1>2. PICK f : Joins(f, ss, X)
    BY <1>1, JoinsExists
  <1>3. f[0] = <<>> /\ 0 \in 0..(Len(ss) - 1)
    BY <1>1, <1>2 DEF Joins
  <1>4. f[0 + 1] = f[0] \o ss[0 + 1]
    BY <1>2, <1>3 DEF Joins
  <1>5. 0 + 1 = 1
    OBVIOUS
  <1>6. f[1] = <<>> \o c
    BY <1>1, <1>3, <1>4, <1>5
  <1>7. f[1] = c
    BY <1>6, ConcatEmptySeq
  <1>8. FlattenSeq(ss) = f[Len(ss)]
    BY <1>1, <1>2, FlattenJoins
  <1>9. QED BY <1>1, <1>7, <1>8 DEF ss

\* A name for \o, so that a step can regroup it without unfolding it.
Glue(s, t) == s \o t

LEMMA Regrouped ==
  ASSUME NEW X, NEW a \in Seq(X), NEW b \in Seq(X), NEW c \in Seq(X)
  PROVE  Glue(Glue(a, b), c) = Glue(a, Glue(b, c))
  BY DEF Glue

(* To flatten one list of lists and then another is to flatten both.       *)
LEMMA FlattenConcat ==
  ASSUME NEW X, NEW ss \in Seq(Seq(X)), NEW tt \in Seq(Seq(X))
  PROVE  FlattenSeq(ss \o tt) = FlattenSeq(ss) \o FlattenSeq(tt)
  <1> DEFINE uu == ss \o tt
             m == Len(ss)
             n == Len(tt)
  <1>1. /\ uu \in Seq(Seq(X)) /\ m \in Nat /\ n \in Nat /\ Len(uu) = m + n
        /\ \A i \in 1..m : uu[i] = ss[i]
        /\ \A i \in 1..n : uu[m + i] = tt[i]
    <2>1. m \in Nat /\ n \in Nat
      BY LenProperties
    <2>2. /\ uu \in Seq(Seq(X)) /\ Len(uu) = m + n
          /\ \A i \in 1..(m + n) : uu[i] = IF i <= m THEN ss[i] ELSE tt[i - m]
      BY ConcatProperties
    <2> HIDE DEF uu, m, n
    <2>3. ASSUME NEW i \in 1..n PROVE uu[m + i] = tt[i]
      <3>1. m + i \in 1..(m + n) /\ ~(m + i <= m) /\ (m + i) - m = i
        BY <2>1
      <3>2. QED BY <2>2, <3>1
    <2>4. \A i \in 1..m : i \in 1..(m + n) /\ i <= m
      BY <2>1
    <2>5. QED BY <2>1, <2>2, <2>3, <2>4
  <1>2. PICK f : Joins(f, ss, X)
    BY JoinsExists
  <1>3. PICK g : Joins(g, tt, X)
    BY JoinsExists
  <1>4. PICK h : Joins(h, uu, X)
    BY <1>1, JoinsExists
  <1>5. FlattenSeq(ss) = f[m] /\ FlattenSeq(tt) = g[n] /\ FlattenSeq(uu) = h[m + n]
    BY <1>1, <1>2, <1>3, <1>4, FlattenJoins
  <1>6. /\ f \in [Nat -> Seq(X)] /\ f[0] = <<>>
        /\ \A k \in 0..(m - 1) : f[k + 1] = Glue(f[k], ss[k + 1])
    BY <1>2 DEF Joins, Glue
  <1>7. /\ g \in [Nat -> Seq(X)] /\ g[0] = <<>>
        /\ \A k \in 0..(n - 1) : g[k + 1] = Glue(g[k], tt[k + 1])
    BY <1>3 DEF Joins, Glue
  <1>8. h[0] = <<>> /\ \A k \in 0..((m + n) - 1) : h[k + 1] = Glue(h[k], uu[k + 1])
    BY <1>1, <1>4 DEF Joins, Glue
  <1>9. \A i \in 1..n : tt[i] \in Seq(X)
    BY ElementOfSeq
  <1>10. ASSUME NEW a \in Seq(X), NEW b \in Seq(X), NEW c \in Seq(X)
         PROVE  Glue(Glue(a, b), c) = Glue(a, Glue(b, c))
    BY Regrouped
  <1>11. \A a \in Seq(X) : Glue(a, <<>>) = a
    BY ConcatEmptySeq DEF Glue
  <1>12. h[m + n] = Glue(f[m], g[n])
    <2> DEFINE S == {k \in Nat : k <= m => h[k] = f[k]}
               T == {k \in Nat : k <= n => h[m + k] = Glue(f[m], g[k])}
    <2> HIDE DEF uu, m, n
    <2>1. 0 \in S
      BY <1>6, <1>8
    <2>2. ASSUME NEW k \in S PROVE k + 1 \in S
      <3>1. SUFFICES ASSUME k + 1 <= m PROVE h[k + 1] = f[k + 1]
        OBVIOUS
      <3>2. /\ k \in Nat /\ k \in 0..(m - 1) /\ k \in 0..((m + n) - 1)
            /\ k + 1 \in 1..m /\ h[k] = f[k]
        BY <1>1, <3>1
      <3>3. QED BY <1>1, <1>6, <1>8, <3>2
    <2>3. S \in SUBSET Nat
      OBVIOUS
    <2>4. \A k \in S : k <= m => h[k] = f[k]
      OBVIOUS
    <2> HIDE DEF S
    <2>5. S = Nat
      BY <2>1, <2>2, <2>3, SetInduction
    <2>6. h[m] = f[m] /\ f[m] \in Seq(X)
      <3>1. m \in Nat
        BY <1>1
      <3>2. m \in S /\ m <= m
        BY <2>5, <3>1
      <3>3. h[m] = f[m]
        BY <2>4, <3>2
      <3>4. f[m] \in Seq(X)
        BY <1>6, <3>1
      <3>5. QED BY <3>3, <3>4
    <2>7. 0 \in T
      <3>1. m + 0 = m
        BY <1>1
      <3>2. Glue(f[m], g[0]) = f[m]
        BY <1>7, <1>11, <2>6
      <3>3. QED BY <2>6, <3>1, <3>2
    <2>8. ASSUME NEW k \in T PROVE k + 1 \in T
      <3>1. SUFFICES ASSUME k + 1 <= n PROVE h[m + (k + 1)] = Glue(f[m], g[k + 1])
        OBVIOUS
      <3>2. /\ k \in Nat /\ k \in 0..(n - 1) /\ m + k \in 0..((m + n) - 1)
            /\ k + 1 \in 1..n /\ h[m + k] = Glue(f[m], g[k]) /\ (m + k) + 1 = m + (k + 1)
        BY <1>1, <3>1
      <3>3. h[m + (k + 1)] = Glue(h[m + k], uu[m + (k + 1)])
        BY <1>8, <3>2
      <3>4. uu[m + (k + 1)] = tt[k + 1] /\ tt[k + 1] \in Seq(X)
        BY <1>1, <1>9, <3>2
      <3>5. g[k] \in Seq(X) /\ g[k + 1] = Glue(g[k], tt[k + 1])
        BY <1>7, <3>2
      <3>6. h[m + (k + 1)] = Glue(Glue(f[m], g[k]), tt[k + 1])
        BY <3>2, <3>3, <3>4
      <3>7. QED BY <1>10, <2>6, <3>4, <3>5, <3>6
    <2>9. T \in SUBSET Nat
      OBVIOUS
    <2>10. \A k \in T : k <= n => h[m + k] = Glue(f[m], g[k])
      OBVIOUS
    <2> HIDE DEF T
    <2>11. T = Nat
      BY <2>7, <2>8, <2>9, SetInduction
    <2>12. QED BY <1>1, <2>10, <2>11
  <1>13. QED BY <1>5, <1>12 DEF Glue

(***************************************************************************)
(* What Claude is asked.  _fix_message_order folds Merge over the turns:   *)
(* each step keeps the turns alternating and adds the words of one turn,   *)
(* so that after all of them none is lost and none is said twice.          *)
(***************************************************************************)
\* Turns whose texts are in P.
Roles == {"user", "assistant"}
Turns(P) == [role : Roles, content : Seq(P)]

(* Merge keeps the type of a conversation.                                 *)
LEMMA MergeType ==
  ASSUME NEW P, NEW q \in Seq(Turns(P)), NEW t \in Turns(P)
  PROVE  Merge(q, t) \in Seq(Turns(P))
  <1>1. CASE q # <<>> /\ q[Len(q)].role = t.role
    <2>1. Len(q) \in 1..Len(q)
      BY <1>1, EmptySeq
    <2>2. q[Len(q)] \in Turns(P)
      BY <2>1, ElementOfSeq
    <2>3. q[Len(q)].content \o t.content \in Seq(P)
      BY <2>2, ConcatProperties DEF Turns
    <2>4. [q[Len(q)] EXCEPT !.content = @ \o t.content] \in Turns(P)
      BY <2>2, <2>3 DEF Turns
    <2>5. [q EXCEPT ![Len(q)].content = @ \o t.content] \in Seq(Turns(P))
      BY <2>1, <2>4, ExceptSeq
    <2>6. QED BY <1>1, <2>5 DEF Merge
  <1>2. CASE ~(q # <<>> /\ q[Len(q)].role = t.role)
    BY <1>2, AppendProperties DEF Merge
  <1>3. QED BY <1>1, <1>2

(* The equation that the fold of Merge stands for.                         *)
MergeRule(h, s) ==
  h = [T \in SUBSET DOMAIN s |->
         IF T = {} THEN <<>> ELSE Merge(h[T \ {Max(T)}], s[Max(T)])]

(* The turns that are merged one after the other.                          *)
Merges(g, s) ==
  /\ g[0] = <<>>
  /\ \A k \in 0..(Len(s) - 1) : g[k + 1] = Merge(g[k], s[k + 1])

(* The fold of Merge is the last of a row of merges.                       *)
LEMMA MergeFold ==
  ASSUME NEW P, NEW s \in Seq(Turns(P))
  PROVE  \E g : Merges(g, s) /\ FoldLeft(Merge, <<>>, s) = g[Len(s)]
  <1> DEFINE V == Seq(Turns(P))
             step == [p \in V \X Turns(P) |-> Merge(p[1], p[2])]
             it == CHOOSE h : MergeRule(h, s)
             g == [k \in 0..Len(s) |-> it[1..k]]
  <1>1. step \in [V \X Turns(P) -> V]
    <2>1. ASSUME NEW p \in V \X Turns(P) PROVE Merge(p[1], p[2]) \in V
      BY MergeType
    <2>2. QED BY <2>1
  <1>2. \A v \in V, t \in Turns(P) : step[<<v, t>>] = Merge(v, t)
    OBVIOUS
  <1>3. <<>> \in V
    BY EmptySeq
  <1> HIDE DEF step, V
  <1>4. PICK h \in [SUBSET DOMAIN s -> V] : FoldRule(h, s, <<>>, step)
    BY <1>1, <1>3, FoldExists DEF V
  <1>5. ASSUME NEW T \in SUBSET DOMAIN s
        PROVE  h[T] = IF T = {} THEN <<>> ELSE Merge(h[T \ {Max(T)}], s[Max(T)])
    <2>1. h[T] = IF T = {} THEN <<>> ELSE step[<<h[T \ {Max(T)}], s[Max(T)]>>]
      BY <1>4 DEF FoldRule
    <2>2. ASSUME T # {} PROVE h[T \ {Max(T)}] \in V /\ s[Max(T)] \in Turns(P)
      <3>1. Len(s) \in Nat /\ DOMAIN s = 1..Len(s)
        BY LenProperties
      <3>2. Max(T) \in T
        BY <2>2, <3>1, LastPosition
      <3>3. T \ {Max(T)} \in SUBSET DOMAIN s /\ Max(T) \in 1..Len(s)
        BY <3>1, <3>2
      <3>4. s[Max(T)] \in Turns(P)
        BY <3>3, ElementOfSeq
      <3>5. QED BY <1>4, <3>3, <3>4
    <2>3. QED BY <1>2, <2>1, <2>2
  <1>6. MergeRule(h, s)
    <2>1. h = [T \in SUBSET DOMAIN s |-> h[T]]
      BY <1>4
    <2>2. h = [T \in SUBSET DOMAIN s |->
                 IF T = {} THEN <<>> ELSE Merge(h[T \ {Max(T)}], s[Max(T)])]
      BY <1>5, <2>1
    <2>3. QED BY <2>2 DEF MergeRule
  <1>7. MergeRule(it, s)
    BY <1>6
  <1>8. FoldLeft(Merge, <<>>, s) = it[DOMAIN s]
    BY DEF FoldLeft, MapThenFoldSet, MergeRule
  <1> HIDE DEF it
  <1>9. Len(s) \in Nat /\ DOMAIN s = 1..Len(s)
    BY LenProperties
  <1>10. g[Len(s)] = it[DOMAIN s]
    BY <1>9
  <1>11. g[0] = <<>>
    <2>1. 1..0 = {}
      OBVIOUS
    <2>2. it[{}] = <<>>
      BY <1>7 DEF MergeRule
    <2>3. QED BY <1>9, <2>1, <2>2
  <1>12. ASSUME NEW k \in 0..(Len(s) - 1) PROVE g[k + 1] = Merge(g[k], s[k + 1])
    <2>1. k \in Nat /\ k \in 0..Len(s) /\ k + 1 \in 0..Len(s)
      BY <1>9
    <2>2. PICK T : T = 1..(k + 1)
      OBVIOUS
    <2>3. T \ {k + 1} = 1..k /\ T # {} /\ Max(T) = k + 1
      BY <2>1, <2>2, UpToNext
    <2>4. T \in SUBSET DOMAIN s
      BY <1>9, <2>2
    <2>5. it[T] = Merge(it[T \ {Max(T)}], s[Max(T)])
      BY <1>7, <2>3, <2>4 DEF MergeRule
    <2>6. it[T] = Merge(it[1..k], s[k + 1])
      BY <2>3, <2>5
    <2>7. g[k] = it[1..k] /\ g[k + 1] = it[T]
      BY <2>1, <2>2
    <2>8. QED BY <2>6, <2>7
  <1> HIDE DEF g
  <1>13. Merges(g, s)
    BY <1>11, <1>12 DEF Merges
  <1>14. QED BY <1>8, <1>10, <1>13

\* The contents of the turns, and all their texts one after the other.
Contents(q) == [i \in DOMAIN q |-> q[i].content]
Words(q) == FlattenSeq(Contents(q))

LEMMA ContentsType ==
  ASSUME NEW P, NEW q \in Seq(Turns(P))
  PROVE  /\ Contents(q) \in Seq(Seq(P)) /\ Len(Contents(q)) = Len(q)
         /\ \A i \in 1..Len(q) : Contents(q)[i] = q[i].content /\ q[i].content \in Seq(P)
  <1>1. Len(q) \in Nat /\ DOMAIN q = 1..Len(q)
    BY LenProperties
  <1>2. ASSUME NEW i \in 1..Len(q) PROVE q[i].content \in Seq(P)
    <2>1. q[i] \in Turns(P)
      BY ElementOfSeq
    <2>2. QED BY <2>1 DEF Turns
  <1>3. Contents(q) = [i \in 1..Len(q) |-> q[i].content]
    BY <1>1 DEF Contents
  <1>4. Contents(q) \in Seq(Seq(P)) /\ Len(Contents(q)) = Len(q)
    BY <1>1, <1>2, <1>3
  <1>5. \A i \in 1..Len(q) : Contents(q)[i] = q[i].content
    BY <1>3
  <1>6. QED BY <1>2, <1>4, <1>5

(* The contents of two conversations are those of the one and of the       *)
(* other.                                                                  *)
LEMMA ContentsConcat ==
  ASSUME NEW P, NEW q \in Seq(Turns(P)), NEW r \in Seq(Turns(P))
  PROVE  Contents(q \o r) = Contents(q) \o Contents(r)
  <1>1. Len(q) \in Nat /\ Len(r) \in Nat
    BY LenProperties
  <1>2. /\ q \o r \in Seq(Turns(P)) /\ Len(q \o r) = Len(q) + Len(r)
        /\ \A i \in 1..(Len(q) + Len(r)) :
             (q \o r)[i] = IF i <= Len(q) THEN q[i] ELSE r[i - Len(q)]
    BY ConcatProperties
  <1>3. PICK c : c = Contents(q)
    OBVIOUS
  <1>4. PICK d : d = Contents(r)
    OBVIOUS
  <1>5. c \in Seq(Seq(P)) /\ Len(c) = Len(q) /\ \A i \in 1..Len(q) : c[i] = q[i].content
    BY <1>3, ContentsType
  <1>6. d \in Seq(Seq(P)) /\ Len(d) = Len(r) /\ \A i \in 1..Len(r) : d[i] = r[i].content
    BY <1>4, ContentsType
  <1>7. /\ Contents(q \o r) \in Seq(Seq(P)) /\ Len(Contents(q \o r)) = Len(q) + Len(r)
        /\ \A i \in 1..(Len(q) + Len(r)) : Contents(q \o r)[i] = (q \o r)[i].content
    BY <1>2, ContentsType
  <1>8. /\ c \o d \in Seq(Seq(P)) /\ Len(c \o d) = Len(q) + Len(r)
        /\ \A i \in 1..(Len(q) + Len(r)) :
             (c \o d)[i] = IF i <= Len(q) THEN c[i] ELSE d[i - Len(q)]
    <2>1. c \in Seq(Seq(P)) /\ d \in Seq(Seq(P))
      BY <1>5, <1>6
    <2>2. /\ c \o d \in Seq(Seq(P)) /\ Len(c \o d) = Len(c) + Len(d)
          /\ \A i \in 1..(Len(c) + Len(d)) :
               (c \o d)[i] = IF i <= Len(c) THEN c[i] ELSE d[i - Len(c)]
      BY <2>1, ConcatProperties
    <2>3. Len(c) = Len(q) /\ Len(d) = Len(r)
      BY <1>5, <1>6
    <2>4. QED BY <2>2, <2>3
  <1>9. ASSUME NEW i \in 1..(Len(q) + Len(r)) PROVE Contents(q \o r)[i] = (c \o d)[i]
    <2>1. CASE i <= Len(q)
      <3>1. i \in 1..Len(q)
        BY <1>1, <2>1
      <3>2. QED BY <1>2, <1>5, <1>7, <1>8, <2>1, <3>1
    <2>2. CASE ~(i <= Len(q))
      <3>1. i - Len(q) \in 1..Len(r)
        BY <1>1, <2>2
      <3>2. QED BY <1>2, <1>6, <1>7, <1>8, <2>2, <3>1
    <2>3. QED BY <2>1, <2>2
  <1>10. Contents(q \o r) = c \o d
    BY <1>7, <1>8, <1>9, SeqEqual
  <1>11. QED BY <1>3, <1>4, <1>10

LEMMA WordsConcat ==
  ASSUME NEW P, NEW q \in Seq(Turns(P)), NEW r \in Seq(Turns(P))
  PROVE  Words(q \o r) = Words(q) \o Words(r) /\ Words(q) \in Seq(P)
  <1>1. Contents(q) \in Seq(Seq(P)) /\ Contents(r) \in Seq(Seq(P))
    BY ContentsType
  <1>2. FlattenSeq(Contents(q) \o Contents(r)) = FlattenSeq(Contents(q)) \o FlattenSeq(Contents(r))
    BY <1>1, FlattenConcat
  <1>3. FlattenSeq(Contents(q)) \in Seq(P)
    BY <1>1, FlattenType
  <1>4. Contents(q \o r) = Contents(q) \o Contents(r)
    BY ContentsConcat
  <1>5. QED BY <1>2, <1>3, <1>4 DEF Words

LEMMA WordsOne ==
  ASSUME NEW P, NEW t \in Turns(P)
  PROVE  <<t>> \in Seq(Turns(P)) /\ Words(<<t>>) = t.content
  <1>1. t.content \in Seq(P)
    BY DEF Turns
  <1>2. <<t>> \in Seq(Turns(P))
    OBVIOUS
  <1>3. Contents(<<t>>) = <<t.content>>
    BY DEF Contents
  <1>4. QED BY <1>1, <1>2, <1>3, FlattenOne DEF Words

LEMMA WordsNone ==
  Words(<<>>) = <<>>
  <1>1. Contents(<<>>) = <<>>
    BY DEF Contents
  <1>2. QED BY <1>1, FlattenNone DEF Words

(* Whether it joins the turn to the last one or not, Merge adds its words. *)
LEMMA WordsMerge ==
  ASSUME NEW P, NEW q \in Seq(Turns(P)), NEW t \in Turns(P)
  PROVE  Words(Merge(q, t)) = Words(q) \o t.content
  <1>1. CASE q # <<>> /\ q[Len(q)].role = t.role
    <2> DEFINE n == Len(q)
               last == q[n]
               front == SubSeq(q, 1, n - 1)
               joined == [last EXCEPT !.content = @ \o t.content]
    <2>1. n \in Nat \ {0} /\ n \in 1..n
      BY <1>1, EmptySeq
    <2>2. last \in Turns(P)
      BY <2>1, ElementOfSeq
    <2>3. t.content \in Seq(P) /\ last.content \in Seq(P)
      BY <2>2 DEF Turns
    <2>4. joined \in Turns(P) /\ joined.content = last.content \o t.content
      BY <2>2, <2>3, ConcatProperties DEF Turns
    <2>5. /\ front \in Seq(Turns(P)) /\ Len(front) = n - 1
          /\ \A i \in 1..(n - 1) : front[i] = q[i]
      <3>1. \A i \in 1..(n - 1) : q[i] \in Turns(P)
        BY <2>1, ElementOfSeq
      <3>2. 1 \in Int /\ n - 1 \in Int /\ (n - 1) - 1 + 1 = n - 1
            /\ (1 <= n - 1 \/ n - 1 = 0)
        BY <2>1
      <3>3. /\ front \in Seq(Turns(P))
            /\ Len(front) = IF 1 <= n - 1 THEN (n - 1) - 1 + 1 ELSE 0
            /\ \A i \in 1..((n - 1) - 1 + 1) : front[i] = q[1 + i - 1]
        BY <3>1, <3>2, SubSeqProperties
      <3>4. \A i \in 1..(n - 1) : 1 + i - 1 = i
        BY <2>1
      <3> HIDE DEF front, n
      <3>5. QED BY <3>2, <3>3, <3>4
    <2>6. Merge(q, t) = [q EXCEPT ![n] = joined]
      BY <1>1 DEF Merge
    <2> HIDE DEF joined, front, last, n
    <2>7. q = front \o <<last>>
      BY <2>1, <2>2, <2>5, SeqEqual, ConcatProperties DEF n, last
    <2>8. [q EXCEPT ![n] = joined] = front \o <<joined>>
      <3>1. /\ [q EXCEPT ![n] = joined] \in Seq(Turns(P))
            /\ Len([q EXCEPT ![n] = joined]) = n
            /\ \A i \in 1..n : [q EXCEPT ![n] = joined][i] = IF i = n THEN joined ELSE q[i]
        BY <2>1, <2>4, ExceptSeq DEF n
      <3>2. /\ front \o <<joined>> \in Seq(Turns(P)) /\ Len(front \o <<joined>>) = n
            /\ \A i \in 1..n : (front \o <<joined>>)[i] = IF i = n THEN joined ELSE front[i]
        BY <2>1, <2>4, <2>5, ConcatProperties
      <3>3. \A i \in 1..n : i # n => front[i] = q[i]
        BY <2>1, <2>5
      <3>4. QED BY <3>1, <3>2, <3>3, SeqEqual
    <2>9. Words(q) = Words(front) \o last.content /\ Words(front) \in Seq(P)
      BY <2>2, <2>5, <2>7, WordsConcat, WordsOne
    <2>10. Words(front \o <<joined>>) = Words(front) \o Words(<<joined>>)
      <3>1. <<joined>> \in Seq(Turns(P))
        BY <2>4, WordsOne
      <3>2. QED BY <2>5, <3>1, WordsConcat
    <2>11. Words(<<joined>>) = last.content \o t.content
      BY <2>4, WordsOne
    <2>12. Glue(Glue(Words(front), last.content), t.content)
           = Glue(Words(front), Glue(last.content, t.content))
      BY <2>3, <2>9, Regrouped
    <2>13. (Words(front) \o last.content) \o t.content
           = Words(front) \o (last.content \o t.content)
      BY <2>12 DEF Glue
    <2>14. QED BY <2>6, <2>8, <2>9, <2>10, <2>11, <2>13
  <1>2. CASE ~(q # <<>> /\ q[Len(q)].role = t.role)
    <2>1. Merge(q, t) = q \o <<t>>
      BY <1>2 DEF Merge
    <2>2. QED BY <2>1, WordsConcat, WordsOne
  <1>3. QED BY <1>1, <1>2

Alternates(q) == \A i \in 1..(Len(q) - 1) : q[i + 1].role # q[i].role

LEMMA AlternatesConcat ==
  ASSUME NEW P, NEW q \in Seq(Turns(P)), NEW r \in Seq(Turns(P)), Alternates(q), Alternates(r),
         q # <<>> /\ r # <<>> => r[1].role # q[Len(q)].role
  PROVE  Alternates(q \o r)
  <1>1. Len(q) \in Nat /\ Len(r) \in Nat
    BY LenProperties
  <1>2. /\ Len(q \o r) = Len(q) + Len(r)
        /\ \A i \in 1..(Len(q) + Len(r)) :
             (q \o r)[i] = IF i <= Len(q) THEN q[i] ELSE r[i - Len(q)]
    BY ConcatProperties
  <1>3. ASSUME NEW i \in 1..(Len(q) + Len(r) - 1)
        PROVE  (q \o r)[i + 1].role # (q \o r)[i].role
    <2>1. i \in 1..(Len(q) + Len(r)) /\ i + 1 \in 1..(Len(q) + Len(r))
      BY <1>1
    <2>2. CASE i + 1 <= Len(q)
      <3>1. i \in 1..(Len(q) - 1) /\ i <= Len(q)
        BY <1>1, <2>2
      <3>2. (q \o r)[i] = q[i] /\ (q \o r)[i + 1] = q[i + 1]
        BY <1>2, <2>1, <2>2, <3>1
      <3>3. QED BY <3>1, <3>2 DEF Alternates
    <2>3. CASE i = Len(q)
      <3>1. ~(i + 1 <= Len(q)) /\ (i + 1) - Len(q) = 1 /\ i <= Len(q)
        BY <1>1, <2>3
      <3>2. (q \o r)[i] = q[Len(q)] /\ (q \o r)[i + 1] = r[1]
        BY <1>2, <2>1, <2>3, <3>1
      <3>3. q # <<>> /\ r # <<>>
        <4>1. Len(q) # 0 /\ Len(r) # 0
          BY <1>1, <2>3
        <4>2. QED BY <4>1, EmptySeq
      <3>4. QED BY <3>2, <3>3
    <2>4. CASE i > Len(q)
      <3>1. /\ ~(i + 1 <= Len(q)) /\ ~(i <= Len(q)) /\ i - Len(q) \in 1..(Len(r) - 1)
            /\ (i + 1) - Len(q) = (i - Len(q)) + 1
        BY <1>1, <2>4
      <3>2. (q \o r)[i] = r[i - Len(q)] /\ (q \o r)[i + 1] = r[(i - Len(q)) + 1]
        BY <1>2, <2>1, <3>1
      <3>3. QED BY <3>1, <3>2 DEF Alternates
    <2>5. QED BY <1>1, <2>2, <2>3, <2>4
  <1>4. QED BY <1>2, <1>3 DEF Alternates

(* A turn that Merge adds never has the role of the one before it.         *)
LEMMA MergeAlternates ==
  ASSUME NEW P, NEW q \in Seq(Turns(P)), NEW t \in Turns(P), Alternates(q)
  PROVE  Alternates(Merge(q, t)) /\ Merge(q, t) # <<>>
  <1>1. CASE q # <<>> /\ q[Len(q)].role = t.role
    <2> DEFINE joined == [q[Len(q)] EXCEPT !.content = @ \o t.content]
               m == [q EXCEPT ![Len(q)] = joined]
    <2>1. Len(q) \in Nat \ {0} /\ Len(q) \in 1..Len(q)
      BY <1>1, EmptySeq
    <2>2. q[Len(q)] \in Turns(P)
      BY <2>1, ElementOfSeq
    <2>3. q[Len(q)].content \o t.content \in Seq(P)
      BY <2>2, ConcatProperties DEF Turns
    <2>4. joined \in Turns(P) /\ joined.role = q[Len(q)].role
      BY <2>2, <2>3 DEF Turns
    <2>5. Merge(q, t) = m
      BY <1>1 DEF Merge
    <2> HIDE DEF joined
    <2>6. /\ m \in Seq(Turns(P)) /\ Len(m) = Len(q)
          /\ \A j \in 1..Len(q) : m[j] = IF j = Len(q) THEN joined ELSE q[j]
      BY <2>1, <2>4, ExceptSeq
    <2> HIDE DEF m
    <2>7. \A j \in 1..Len(q) : m[j].role = q[j].role
      BY <2>4, <2>6
    <2>8. Alternates(m)
      <3>1. ASSUME NEW i \in 1..(Len(q) - 1) PROVE m[i + 1].role # m[i].role
        <4>1. i \in 1..Len(q) /\ i + 1 \in 1..Len(q)
          BY <2>1
        <4>2. QED BY <2>7, <4>1 DEF Alternates
      <3>2. QED BY <2>6, <3>1 DEF Alternates
    <2>9. m # <<>>
      BY <2>1, <2>6, EmptySeq
    <2>10. QED BY <2>5, <2>8, <2>9
  <1>2. CASE ~(q # <<>> /\ q[Len(q)].role = t.role)
    <2>1. Merge(q, t) = q \o <<t>>
      BY <1>2 DEF Merge
    <2>2. <<t>> \in Seq(Turns(P)) /\ Alternates(<<t>>) /\ <<t>>[1] = t /\ <<t>> # <<>>
      BY DEF Alternates
    <2>3. Alternates(q \o <<t>>)
      BY <1>2, <2>2, AlternatesConcat
    <2>4. q \o <<t>> # <<>>
      BY <2>2, ConcatEqualIffEmpty
    <2>5. QED BY <2>1, <2>3, <2>4
  <1>3. QED BY <1>1, <1>2

(* From a user's turn on, the odd turns are the user's.                    *)
LEMMA UserFirst ==
  ASSUME NEW P, NEW q \in Seq(Turns(P)), q # <<>>, Alternates(q), q[1].role = "user"
  PROVE  \A i \in 1..Len(q) : q[i].role = IF i % 2 = 1 THEN "user" ELSE "assistant"
  <1>1. Len(q) \in Nat \ {0}
    BY EmptySeq
  <1>2. \A i \in 1..Len(q) : q[i].role \in Roles
    <2>1. \A i \in 1..Len(q) : q[i] \in Turns(P)
      BY ElementOfSeq
    <2>2. QED BY <2>1 DEF Turns
  <1> DEFINE Its(i) == IF i % 2 = 1 THEN "user" ELSE "assistant"
             S == {k \in Nat : k + 1 \in 1..Len(q) => q[k + 1].role = Its(k + 1)}
  <1>3. \A k \in Nat : Its(k + 2) # Its(k + 1) /\ Its(k + 1) \in Roles /\ Its(k + 2) \in Roles
    <2>1. ASSUME NEW k \in Nat PROVE (k + 2) % 2 = 1 <=> ~((k + 1) % 2 = 1)
      OBVIOUS
    <2>2. QED BY <2>1 DEF Roles
  <1>4. 0 \in S
    OBVIOUS
  <1> HIDE DEF Its
  <1>5. ASSUME NEW k \in S PROVE k + 1 \in S
    <2>1. SUFFICES ASSUME (k + 1) + 1 \in 1..Len(q) PROVE q[(k + 1) + 1].role = Its((k + 1) + 1)
      OBVIOUS
    <2>2. k \in Nat /\ (k + 1) + 1 = k + 2
      OBVIOUS
    <2>3. k + 1 \in 1..Len(q) /\ k + 1 \in 1..(Len(q) - 1)
      BY <1>1, <2>1, <2>2
    <2>4. q[k + 1].role = Its(k + 1)
      BY <2>3
    <2>5. q[(k + 1) + 1].role # q[k + 1].role
      BY <2>3 DEF Alternates
    <2>6. q[(k + 1) + 1].role \in Roles
      BY <1>2, <2>1
    <2>7. Its(k + 2) # Its(k + 1) /\ Its(k + 1) \in Roles /\ Its(k + 2) \in Roles
      BY <1>3, <2>2
    <2>8. q[(k + 1) + 1].role = Its(k + 2)
      BY <2>4, <2>5, <2>6, <2>7 DEF Roles
    <2>9. QED BY <2>2, <2>8
  <1>6. S \in SUBSET Nat
    OBVIOUS
  <1>7. \A k \in S : k + 1 \in 1..Len(q) => q[k + 1].role = Its(k + 1)
    OBVIOUS
  <1> HIDE DEF S
  <1>8. S = Nat
    BY <1>4, <1>5, <1>6, SetInduction
  <1>9. ASSUME NEW i \in 1..Len(q) PROVE q[i].role = Its(i)
    <2>1. i - 1 \in Nat /\ (i - 1) + 1 = i
      BY <1>1
    <2>2. QED BY <1>7, <1>8, <2>1
  <1>10. QED BY <1>9 DEF Its

\* What the conversation s says, a text a turn.
Texts(s) == [i \in 1..Len(s) |-> s[i].content[1]]
OneText(s) == \A i \in 1..Len(s) : Len(s[i].content) = 1

(* After k turns the words are the first k texts.                          *)
SaidSoFar(q, s, k, P) ==
  /\ q \in Seq(Turns(P)) /\ Alternates(q)
  /\ k # 0 => q # <<>>
  /\ Words(q) \in Seq(P) /\ Len(Words(q)) = k
  /\ \A i \in 1..k : Words(q)[i] = s[i].content[1]

(* One more turn is one more text.                                         *)
LEMMA SaidSoFarNext ==
  ASSUME NEW P, NEW s \in Seq(Turns(P)), OneText(s),
         NEW k \in Nat, k + 1 \in 1..Len(s), NEW q, SaidSoFar(q, s, k, P)
  PROVE  SaidSoFar(Merge(q, s[k + 1]), s, k + 1, P)
  <1> DEFINE t == s[k + 1]
  <1>1. t \in Turns(P)
    BY ElementOfSeq
  <1>2. Len(t.content) = 1 /\ t.content \in Seq(P)
    BY <1>1 DEF OneText, Turns
  <1> HIDE DEF t
  <1>3. /\ q \in Seq(Turns(P)) /\ Alternates(q) /\ Words(q) \in Seq(P) /\ Len(Words(q)) = k
        /\ \A i \in 1..k : Words(q)[i] = s[i].content[1]
    BY DEF SaidSoFar
  <1>4. Merge(q, t) \in Seq(Turns(P))
    BY <1>1, <1>3, MergeType
  <1>5. Alternates(Merge(q, t)) /\ Merge(q, t) # <<>>
    BY <1>1, <1>3, MergeAlternates
  <1>6. Words(Merge(q, t)) = Words(q) \o t.content
    BY <1>1, <1>3, WordsMerge
  <1>7. PICK w : w = Words(q)
    OBVIOUS
  <1>8. w \in Seq(P) /\ Len(w) = k /\ Len(t.content) = 1 /\ t.content \in Seq(P)
    BY <1>2, <1>3, <1>7
  <1>9. /\ w \o t.content \in Seq(P) /\ Len(w \o t.content) = k + 1
        /\ \A i \in 1..(k + 1) : (w \o t.content)[i] = IF i <= k THEN w[i] ELSE t.content[i - k]
    <2>1. w \in Seq(P) /\ t.content \in Seq(P)
      BY <1>8
    <2>2. /\ w \o t.content \in Seq(P) /\ Len(w \o t.content) = Len(w) + Len(t.content)
          /\ \A i \in 1..(Len(w) + Len(t.content)) :
               (w \o t.content)[i] = IF i <= Len(w) THEN w[i] ELSE t.content[i - Len(w)]
      BY <2>1, ConcatProperties
    <2>3. Len(w) = k /\ Len(t.content) = 1
      BY <1>8
    <2>4. QED BY <2>2, <2>3
  <1>10. ASSUME NEW i \in 1..(k + 1) PROVE (w \o t.content)[i] = s[i].content[1]
    <2>1. CASE i <= k
      <3>1. i \in 1..k
        BY <2>1
      <3>2. QED BY <1>3, <1>7, <1>9, <2>1, <3>1
    <2>2. CASE ~(i <= k)
      <3>1. i = k + 1 /\ i - k = 1
        BY <2>2
      <3>2. QED BY <1>9, <2>2, <3>1 DEF t
    <2>3. QED BY <2>1, <2>2
  <1>11. k + 1 # 0
    OBVIOUS
  <1>12. SaidSoFar(Merge(q, t), s, k + 1, P)
    BY <1>4, <1>5, <1>6, <1>7, <1>9, <1>10 DEF SaidSoFar
  <1>13. QED BY <1>12 DEF t

(* After all of them the texts are those of the conversation, in its       *)
(* order.                                                                  *)
LEMMA Merged ==
  ASSUME NEW P, NEW s \in Seq(Turns(P)), s # <<>>, OneText(s)
  PROVE  LET f == FoldLeft(Merge, <<>>, s)
         IN  f \in Seq(Turns(P)) /\ f # <<>> /\ Alternates(f) /\ Words(f) = Texts(s)
  <1> DEFINE f == FoldLeft(Merge, <<>>, s)
             n == Len(s)
  <1>1. n \in Nat \ {0}
    BY EmptySeq
  <1>2. PICK g : Merges(g, s) /\ f = g[n]
    BY MergeFold
  <1> HIDE DEF f
  <1>3. g[0] = <<>> /\ \A k \in 0..(n - 1) : g[k + 1] = Merge(g[k], s[k + 1])
    BY <1>2 DEF Merges
  <1> HIDE DEF n
  <1> DEFINE S == {k \in Nat : k <= n => SaidSoFar(g[k], s, k, P)}
  <1>4. 0 \in S
    <2>1. Words(<<>>) = <<>>
      BY WordsNone
    <2>2. <<>> \in Seq(Turns(P)) /\ <<>> \in Seq(P) /\ Len(<<>>) = 0
      BY EmptySeq
    <2>3. Alternates(<<>>)
      BY <2>2 DEF Alternates
    <2>4. PICK q : q = <<>>
      OBVIOUS
    <2>5. /\ q \in Seq(Turns(P)) /\ Alternates(q)
          /\ Words(q) \in Seq(P) /\ Len(Words(q)) = 0
      BY <2>1, <2>2, <2>3, <2>4, Zenon
    <2>6. \A i \in 1..0 : Words(q)[i] = s[i].content[1]
      OBVIOUS
    <2>7. SaidSoFar(q, s, 0, P)
      BY <2>5, <2>6, Zenon DEF SaidSoFar
    <2>8. SaidSoFar(g[0], s, 0, P)
      BY <1>3, <2>4, <2>7, Zenon
    <2>9. QED BY <2>8
  <1>5. ASSUME NEW k \in S PROVE k + 1 \in S
    <2>1. SUFFICES ASSUME k + 1 <= n PROVE SaidSoFar(g[k + 1], s, k + 1, P)
      OBVIOUS
    <2>2. k \in Nat /\ k \in 0..(n - 1) /\ k + 1 \in 1..n /\ SaidSoFar(g[k], s, k, P)
      BY <1>1, <2>1
    <2>3. g[k + 1] = Merge(g[k], s[k + 1])
      BY <1>3, <2>2
    <2>4. k + 1 \in 1..Len(s)
      BY <2>2 DEF n
    <2>5. SaidSoFar(Merge(g[k], s[k + 1]), s, k + 1, P)
      BY <2>2, <2>4, SaidSoFarNext
    <2>6. QED BY <2>3, <2>5
  <1>6. S \in SUBSET Nat
    OBVIOUS
  <1>7. \A k \in S : k <= n => SaidSoFar(g[k], s, k, P)
    OBVIOUS
  <1> HIDE DEF S
  <1>8. S = Nat
    BY <1>4, <1>5, <1>6, SetInduction
  <1>9. SaidSoFar(f, s, n, P)
    <2>1. n \in S /\ n <= n
      BY <1>1, <1>8
    <2>2. QED BY <1>2, <1>7, <2>1
  <1>10. f \in Seq(Turns(P)) /\ f # <<>> /\ Alternates(f)
    BY <1>1, <1>9 DEF SaidSoFar
  <1>11. Words(f) = Texts(s)
    <2>1. PICK w : w = Words(f)
      OBVIOUS
    <2>2. w \in Seq(P) /\ Len(w) = n /\ \A i \in 1..n : w[i] = s[i].content[1]
      BY <1>9, <2>1 DEF SaidSoFar
    <2>3. w = [i \in 1..n |-> w[i]]
      BY <1>1, <2>2, LenProperties
    <2>4. w = [i \in 1..n |-> s[i].content[1]]
      BY <2>2, <2>3
    <2>5. QED BY <2>1, <2>4 DEF Texts, n
  <1>12. QED BY <1>10, <1>11 DEF f

\* What stands before or after the turns: nothing, or a user's turn of filler.
IsPad(p) == p = <<>> \/ p = <<Turn("user", <<Filler>>)>>

(* What _fix_message_order puts around it is nothing or the filler.        *)
LEMMA PadWords ==
  ASSUME NEW P, Filler \in P, NEW p, IsPad(p)
  PROVE  /\ p \in Seq(Turns(P)) /\ Alternates(p)
         /\ p # <<>> => Len(p) = 1 /\ p[1].role = "user"
         /\ Words(p) \in {<<>>, <<Filler>>}
  <1>1. CASE p = <<>>
    <2>1. Words(p) = <<>>
      BY <1>1, WordsNone
    <2>2. p \in Seq(Turns(P)) /\ Len(p) = 0
      BY <1>1, EmptySeq
    <2>3. Alternates(p)
      BY <2>2 DEF Alternates
    <2>4. QED BY <1>1, <2>1, <2>2, <2>3
  <1>2. CASE p = <<Turn("user", <<Filler>>)>>
    <2> DEFINE t == Turn("user", <<Filler>>)
    <2>1. t \in Turns(P) /\ t.role = "user" /\ t.content = <<Filler>>
      BY DEF Turn, Turns, Roles
    <2> HIDE DEF t
    <2>2. p = <<t>>
      BY <1>2 DEF t
    <2>3. p \in Seq(Turns(P)) /\ Words(p) = <<Filler>>
      BY <2>1, <2>2, WordsOne
    <2>4. Len(p) = 1 /\ p[1] = t
      BY <2>2
    <2>5. Alternates(p)
      BY <2>4 DEF Alternates
    <2>6. QED BY <2>1, <2>3, <2>4, <2>5
  <1>3. QED BY <1>1, <1>2 DEF IsPad

(* With the filler where a user's turn is missing at an end, the result is *)
(* what the API of Claude demands.                                         *)
LEMMA FixOrderSays ==
  ASSUME NEW P, Filler \in P, NEW s \in Seq(Turns(P)), s # <<>>, OneText(s)
  PROVE  LET r == FixOrder(s)
         IN  /\ r \in Seq(Turns(P))
             /\ \A i \in 1..Len(r) : r[i].role = IF i % 2 = 1 THEN "user" ELSE "assistant"
             /\ Len(r) % 2 = 1
             /\ \E before, after \in {<<>>, <<Filler>>} : Words(r) = before \o Texts(s) \o after
  <1> DEFINE f == FoldLeft(Merge, <<>>, s)
             Pad(turn) == IF turn.role = "user" THEN <<>> ELSE <<Turn("user", <<Filler>>)>>
             a == Pad(f[1])
             b == Pad(f[Len(f)])
             r == (a \o f) \o b
  <1>1. f \in Seq(Turns(P)) /\ f # <<>> /\ Alternates(f) /\ Words(f) = Texts(s)
    BY Merged
  <1>2. FixOrder(s) = r
    BY DEF FixOrder
  <1> HIDE DEF f
  <1>3. Len(f) \in Nat \ {0} /\ 1 \in 1..Len(f) /\ Len(f) \in 1..Len(f)
    BY <1>1, EmptySeq
  <1>4. f[1].role \in Roles /\ f[Len(f)].role \in Roles
    <2>1. f[1] \in Turns(P) /\ f[Len(f)] \in Turns(P)
      BY <1>1, <1>3, ElementOfSeq
    <2>2. QED BY <2>1 DEF Turns
  <1>5. /\ IsPad(a) /\ (a = <<>> => f[1].role = "user") /\ (a # <<>> => f[1].role # "user")
        /\ IsPad(b) /\ (b = <<>> => f[Len(f)].role = "user") /\ (b # <<>> => f[Len(f)].role # "user")
    BY DEF IsPad
  <1> HIDE DEF a, b, Pad
  <1>6. /\ a \in Seq(Turns(P)) /\ Alternates(a) /\ Words(a) \in {<<>>, <<Filler>>}
        /\ a # <<>> => Len(a) = 1 /\ a[1].role = "user"
    BY <1>5, PadWords
  <1>7. /\ b \in Seq(Turns(P)) /\ Alternates(b) /\ Words(b) \in {<<>>, <<Filler>>}
        /\ b # <<>> => Len(b) = 1 /\ b[1].role = "user"
    BY <1>5, PadWords
  <1>8. PICK c : c = a \o f
    OBVIOUS
  <1>9. c \in Seq(Turns(P)) /\ Alternates(c) /\ Words(c) = Words(a) \o Words(f)
    <2>1. a # <<>> /\ f # <<>> => f[1].role # a[Len(a)].role
      BY <1>5, <1>6
    <2>2. Alternates(a \o f)
      BY <1>1, <1>6, <2>1, AlternatesConcat
    <2>3. a \o f \in Seq(Turns(P))
      BY <1>1, <1>6, ConcatProperties
    <2>4. Words(a \o f) = Words(a) \o Words(f)
      BY <1>1, <1>6, WordsConcat
    <2>5. QED BY <1>8, <2>2, <2>3, <2>4
  <1>10. /\ Len(c) \in Nat \ {0} /\ c # <<>> /\ c[1].role = "user" /\ c[Len(c)] = f[Len(f)]
    <2>1. CASE a = <<>>
      <3>1. c = f
        BY <1>1, <1>8, <2>1, ConcatEmptySeq
      <3>2. QED BY <1>1, <1>3, <1>5, <2>1, <3>1
    <2>2. CASE a # <<>>
      <3>1. Len(a) = 1 /\ a[1].role = "user" /\ a \in Seq(Turns(P))
        BY <1>6, <2>2
      <3>2. /\ Len(a \o f) = Len(a) + Len(f)
            /\ \A i \in 1..(Len(a) + Len(f)) :
                 (a \o f)[i] = IF i <= Len(a) THEN a[i] ELSE f[i - Len(a)]
        BY <1>1, <3>1, ConcatProperties
      <3>3. Len(c) = 1 + Len(f) /\ \A i \in 1..(1 + Len(f)) : c[i] = IF i <= 1 THEN a[i] ELSE f[i - 1]
        BY <1>8, <3>1, <3>2
      <3>4. c[1] = a[1]
        BY <1>3, <3>3
      <3>5. 1 + Len(f) \in 1..(1 + Len(f)) /\ ~(1 + Len(f) <= 1) /\ (1 + Len(f)) - 1 = Len(f)
        BY <1>3
      <3>6. c[Len(c)] = f[Len(f)]
        BY <3>3, <3>5
      <3>7. Len(c) \in Nat \ {0} /\ c # <<>>
        BY <1>3, <1>9, <3>3, EmptySeq
      <3>8. QED BY <3>1, <3>4, <3>6, <3>7
    <2>3. QED BY <2>1, <2>2
  <1>11. r = c \o b
    BY <1>8
  <1> HIDE DEF r
  <1>12. r \in Seq(Turns(P)) /\ Alternates(r) /\ Words(r) = Words(c) \o Words(b)
    <2>1. c # <<>> /\ b # <<>> => b[1].role # c[Len(c)].role
      BY <1>5, <1>7, <1>10
    <2>2. Alternates(c \o b)
      BY <1>7, <1>9, <2>1, AlternatesConcat
    <2>3. c \o b \in Seq(Turns(P))
      BY <1>7, <1>9, ConcatProperties
    <2>4. Words(c \o b) = Words(c) \o Words(b)
      BY <1>7, <1>9, WordsConcat
    <2>5. QED BY <1>11, <2>2, <2>3, <2>4
  <1>13. Len(r) \in Nat \ {0} /\ r # <<>> /\ r[1].role = "user" /\ r[Len(r)].role = "user"
    <2>1. CASE b = <<>>
      <3>1. r = c
        BY <1>9, <1>11, <2>1, ConcatEmptySeq
      <3>2. QED BY <1>5, <1>10, <2>1, <3>1
    <2>2. CASE b # <<>>
      <3>1. Len(b) = 1 /\ b[1].role = "user" /\ b \in Seq(Turns(P))
        BY <1>7, <2>2
      <3>2. /\ Len(c \o b) = Len(c) + Len(b)
            /\ \A i \in 1..(Len(c) + Len(b)) :
                 (c \o b)[i] = IF i <= Len(c) THEN c[i] ELSE b[i - Len(c)]
        BY <1>9, <3>1, ConcatProperties
      <3>3. Len(r) = Len(c) + 1
            /\ \A i \in 1..(Len(c) + 1) : r[i] = IF i <= Len(c) THEN c[i] ELSE b[i - Len(c)]
        BY <1>11, <3>1, <3>2
      <3>4. r[1] = c[1]
        BY <1>10, <3>3
      <3>5. /\ Len(c) + 1 \in 1..(Len(c) + 1) /\ ~(Len(c) + 1 <= Len(c)) /\ (Len(c) + 1) - Len(c) = 1
        BY <1>10
      <3>6. r[Len(r)] = b[1]
        BY <3>3, <3>5
      <3>7. Len(r) \in Nat \ {0} /\ r # <<>>
        BY <1>10, <1>12, <3>3, EmptySeq
      <3>8. QED BY <1>10, <3>1, <3>4, <3>6, <3>7
    <2>3. QED BY <2>1, <2>2
  <1>14. \A i \in 1..Len(r) : r[i].role = IF i % 2 = 1 THEN "user" ELSE "assistant"
    BY <1>12, <1>13, UserFirst
  <1>15. Len(r) % 2 = 1
    <2>1. Len(r) \in 1..Len(r)
      BY <1>13
    <2>2. r[Len(r)].role = IF Len(r) % 2 = 1 THEN "user" ELSE "assistant"
      BY <1>14, <2>1
    <2>3. QED BY <1>13, <2>2
  <1>16. \E before, after \in {<<>>, <<Filler>>} : Words(r) = before \o Texts(s) \o after
    <2>1. Words(r) = Words(a) \o Texts(s) \o Words(b)
      BY <1>1, <1>9, <1>12
    <2>2. QED BY <1>6, <1>7, <2>1
  <1>17. QED BY <1>2, <1>12, <1>14, <1>15, <1>16

(* What is said once the message is: what was told, if that ends with it.  *)
WithMessage(told, text) ==
  IF told # <<>> /\ told[Len(told)] = text THEN told ELSE Append(told, text)

(* The message is added once, unless the last turn says it.                *)
LEMMA ConversationSays ==
  ASSUME NEW P, NEW past \in Seq(Turns(P)), OneText(past), NEW text \in P
  PROVE  LET c == Conversation(past, text)
         IN  /\ c \in Seq(Turns(P)) /\ c # <<>> /\ OneText(c)
             /\ Texts(c) = WithMessage(Texts(past), text)
  <1>1. Len(past) \in Nat
    BY LenProperties
  <1>2. /\ past # <<>> /\ past[Len(past)].content = <<text>>
        <=> /\ Texts(past) # <<>> /\ Texts(past)[Len(Texts(past))] = text
    <2>1. Len(Texts(past)) = Len(past)
      BY <1>1 DEF Texts
    <2>2. CASE past = <<>>
      <3>1. Len(past) = 0
        BY <2>2
      <3>2. Texts(past) = <<>>
        BY <3>1 DEF Texts
      <3>3. QED BY <2>2, <3>2
    <2>3. CASE past # <<>>
      <3>1. Len(past) \in 1..Len(past)
        BY <1>1, <2>3, EmptySeq
      <3>2. Texts(past)[Len(past)] = past[Len(past)].content[1]
        BY <3>1 DEF Texts
      <3>3. Texts(past) # <<>>
        BY <2>1, <3>1
      <3>4. past[Len(past)].content \in Seq(P) /\ Len(past[Len(past)].content) = 1
        <4>1. past[Len(past)] \in Turns(P)
          BY <3>1, ElementOfSeq
        <4>2. QED BY <3>1, <4>1 DEF Turns, OneText
      <3>5. ASSUME NEW q \in Seq(P), Len(q) = 1
            PROVE  q = <<text>> <=> q[1] = text
        BY <3>5
      <3>6. past[Len(past)].content = <<text>> <=> past[Len(past)].content[1] = text
        BY <3>4, <3>5
      <3>7. QED BY <2>1, <2>3, <3>2, <3>3, <3>6
    <2>4. QED BY <2>2, <2>3
  <1>3. CASE past # <<>> /\ past[Len(past)].content = <<text>>
    <2>1. Conversation(past, text) = past
      BY <1>3 DEF Conversation
    <2>2. QED BY <1>2, <1>3, <2>1 DEF WithMessage
  <1>4. CASE ~(past # <<>> /\ past[Len(past)].content = <<text>>)
    <2> DEFINE t == Turn("user", <<text>>)
               c == Append(past, t)
    <2>1. t \in Turns(P) /\ t.content = <<text>>
      BY DEF Turn, Turns, Roles
    <2>2. Conversation(past, text) = c
      BY <1>4 DEF Conversation
    <2> HIDE DEF t
    <2>3. /\ c \in Seq(Turns(P)) /\ Len(c) = Len(past) + 1 /\ c[Len(past) + 1] = t
          /\ \A i \in 1..Len(past) : c[i] = past[i]
      BY <2>1, AppendProperties
    <2> HIDE DEF c
    <2>4. c # <<>>
      BY <1>1, <2>3, EmptySeq
    <2>5. ASSUME NEW i \in 1..(Len(past) + 1)
          PROVE  c[i] = IF i <= Len(past) THEN past[i] ELSE t
      BY <1>1, <2>3
    <2>6. OneText(c)
      <3>1. Len(t.content) = 1
        BY <2>1
      <3>2. ASSUME NEW i \in 1..(Len(past) + 1) PROVE Len(c[i].content) = 1
        BY <1>1, <2>5, <3>1 DEF OneText
      <3>3. QED BY <2>3, <3>2 DEF OneText
    <2>8. Texts(c) = Append(Texts(past), text)
      <3>1. Texts(past) = [i \in 1..Len(past) |-> past[i].content[1]]
        BY DEF Texts
      <3>2. ASSUME NEW i \in 1..Len(past) PROVE past[i].content[1] \in P
        <4>1. past[i] \in Turns(P)
          BY ElementOfSeq
        <4>2. past[i].content \in Seq(P) /\ Len(past[i].content) = 1
          BY <4>1 DEF Turns, OneText
        <4>3. QED BY <4>2, ElementOfSeq
      <3>3. Texts(past) \in Seq(P) /\ Len(Texts(past)) = Len(past)
        BY <1>1, <3>1, <3>2
      <3>4. PICK w : w = Texts(past)
        OBVIOUS
      <3>5. /\ Append(w, text) \in Seq(P) /\ Len(Append(w, text)) = Len(past) + 1
            /\ \A i \in 1..(Len(past) + 1) :
                 Append(w, text)[i] = IF i <= Len(past) THEN w[i] ELSE text
        <4>1. w \in Seq(P) /\ Len(w) = Len(past)
          BY <3>3, <3>4
        <4>2. QED BY <1>1, <4>1, AppendProperties
      <3>6. Texts(c) = [i \in 1..(Len(past) + 1) |-> c[i].content[1]]
        BY <2>3 DEF Texts
      <3>7. ASSUME NEW i \in 1..(Len(past) + 1) PROVE c[i].content[1] = Append(w, text)[i]
        <4>1. CASE i <= Len(past)
          <5>1. i \in 1..Len(past)
            BY <1>1, <4>1
          <5>2. c[i] = past[i] /\ w[i] = past[i].content[1]
            BY <2>5, <3>1, <3>4, <4>1, <5>1
          <5>3. QED BY <3>5, <4>1, <5>2
        <4>2. CASE ~(i <= Len(past))
          <5>1. c[i] = t /\ Append(w, text)[i] = text
            BY <2>5, <3>5, <4>2
          <5>2. QED BY <2>1, <5>1
        <4>3. QED BY <4>1, <4>2
      <3>8. Append(w, text) = [i \in 1..(Len(past) + 1) |-> Append(w, text)[i]]
        <4>1. PICK v : v = Append(w, text)
          OBVIOUS
        <4>2. v \in Seq(P) /\ Len(v) = Len(past) + 1
          BY <3>5, <4>1
        <4>3. v = [i \in 1..(Len(past) + 1) |-> v[i]]
          BY <4>2, LenProperties
        <4>4. QED BY <4>1, <4>3
      <3>9. Texts(c) = Append(w, text)
        BY <3>6, <3>7, <3>8
      <3>10. QED BY <3>4, <3>9
    <2>9. QED BY <1>2, <1>4, <2>2, <2>3, <2>4, <2>6, <2>8 DEF WithMessage
  <1>5. QED BY <1>3, <1>4

(* The equation that the turns of a history stand for.                     *)
GatherRule(h, piece, n) ==
  h = [i \in 0..n |-> IF i = 0 THEN <<>> ELSE h[i - 1] \o piece[i]]

(* The turns of the rows exist, and make a conversation.                   *)
LEMMA Gathered ==
  ASSUME NEW X, NEW n \in Nat, NEW piece \in [1..n -> Seq(X)]
  PROVE  /\ \E h : GatherRule(h, piece, n)
         /\ \A h : GatherRule(h, piece, n) => h[n] \in Seq(X)
  <1>1. piece \in Seq(Seq(X)) /\ Len(piece) = n
    OBVIOUS
  <1>2. PICK f : Joins(f, piece, X)
    BY <1>1, JoinsExists
  <1>3. /\ f \in [Nat -> Seq(X)] /\ f[0] = <<>>
        /\ \A k \in 0..(n - 1) : f[k + 1] = f[k] \o piece[k + 1]
    BY <1>1, <1>2 DEF Joins
  <1>4. \E h : GatherRule(h, piece, n)
    <2> DEFINE h == [i \in 0..n |-> f[i]]
    <2>1. ASSUME NEW i \in 0..n PROVE h[i] = IF i = 0 THEN <<>> ELSE h[i - 1] \o piece[i]
      <3>1. CASE i = 0
        BY <1>3, <3>1
      <3>2. CASE i # 0
        <4>1. i - 1 \in 0..(n - 1) /\ (i - 1) + 1 = i /\ i - 1 \in 0..n
          BY <3>2
        <4>2. f[i] = f[i - 1] \o piece[i]
          BY <1>3, <4>1
        <4>3. QED BY <3>2, <4>1, <4>2
      <3>3. QED BY <3>1, <3>2
    <2>2. h = [i \in 0..n |-> h[i]]
      OBVIOUS
    <2> HIDE DEF h
    <2>3. h = [i \in 0..n |-> IF i = 0 THEN <<>> ELSE h[i - 1] \o piece[i]]
      BY <2>1, <2>2
    <2>4. QED BY <2>3 DEF GatherRule
  <1>5. ASSUME NEW it, GatherRule(it, piece, n) PROVE it[n] \in Seq(X)
    <2>1. \A i \in 0..n : it[i] = IF i = 0 THEN <<>> ELSE it[i - 1] \o piece[i]
      BY <1>5 DEF GatherRule
    <2> DEFINE S == {k \in Nat : k <= n => it[k] \in Seq(X)}
    <2>2. 0 \in S
      <3>1. 0 \in 0..n /\ it[0] = <<>>
        BY <2>1
      <3>2. <<>> \in Seq(X)
        BY EmptySeq
      <3>3. QED BY <3>1, <3>2
    <2>3. ASSUME NEW k \in S PROVE k + 1 \in S
      <3>1. SUFFICES ASSUME k + 1 <= n PROVE it[k + 1] \in Seq(X)
        OBVIOUS
      <3>2. /\ k \in Nat /\ k + 1 \in 0..n /\ k + 1 \in 1..n /\ (k + 1) - 1 = k /\ k + 1 # 0
            /\ it[k] \in Seq(X)
        BY <3>1
      <3>3. it[k + 1] = it[k] \o piece[k + 1]
        BY <2>1, <3>2
      <3>4. piece[k + 1] \in Seq(X)
        BY <3>2
      <3>5. it[k] \o piece[k + 1] \in Seq(X)
        BY <3>2, <3>4, ConcatProperties
      <3>6. QED BY <3>3, <3>5
    <2>4. S \in SUBSET Nat
      OBVIOUS
    <2>5. \A k \in S : k <= n => it[k] \in Seq(X)
      OBVIOUS
    <2> HIDE DEF S
    <2>6. S = Nat
      BY <2>2, <2>3, <2>4, SetInduction
    <2>7. QED BY <2>5, <2>6
  <1>6. QED BY <1>4, <1>5

\* The turn of a row, if it has one.
Spoken(i, chat) ==
  LET ofChat == {k \in DOMAIN messages : messages[k].chat = chat}
      rows == {k \in ofChat : Cardinality({j \in ofChat : j > k}) < HistoryLimit}
  IN  IF i \in rows /\ messages[i].text # ""
      THEN <<Turn(IF messages[i].mine THEN "assistant" ELSE "user", <<messages[i].text>>)>>
      ELSE <<>>

(* A history is a conversation with one text a turn.                       *)
LEMMA HistoryType ==
  ASSUME NEW P, messages \in Seq(Tables), \A i \in DOMAIN messages : messages[i].text \in P,
         NEW chat
  PROVE  History(chat) \in Seq(Turns(P)) /\ OneText(History(chat))
  <1> DEFINE n == Len(messages)
             X == {t \in Turns(P) : Len(t.content) = 1}
             piece == [i \in 1..n |-> Spoken(i, chat)]
  <1>1. n \in Nat /\ DOMAIN messages = 1..n
    BY LenProperties
  <1>2. ASSUME NEW i \in 1..n PROVE Spoken(i, chat) \in Seq(X)
    <2> DEFINE t == Turn(IF messages[i].mine THEN "assistant" ELSE "user", <<messages[i].text>>)
    <2>1. messages[i].text \in P
      BY <1>1
    <2>2. t \in Turns(P) /\ t.content = <<messages[i].text>>
      BY <2>1 DEF Turn, Turns, Roles
    <2>3. t \in X
      BY <2>2
    <2> HIDE DEF t, X
    <2>4. <<t>> \in Seq(X) /\ <<>> \in Seq(X)
      BY <2>3, EmptySeq
    <2>5. Spoken(i, chat) = <<t>> \/ Spoken(i, chat) = <<>>
      BY DEF Spoken, t
    <2>6. QED BY <2>4, <2>5
  <1>3. piece \in [1..n -> Seq(X)]
    BY <1>2
  <1> DEFINE Its(h) == h = [i \in 0..n |-> IF i = 0 THEN <<>> ELSE h[i - 1] \o Spoken(i, chat)]
             it == CHOOSE h : Its(h)
  <1>4. History(chat) = it[n]
    BY DEF History, Spoken
  <1>5. History(chat) \in Seq(X)
    <2>1. ASSUME NEW h PROVE GatherRule(h, piece, n) <=> Its(h)
      <3>1. ASSUME NEW i \in 0..n
            PROVE  (IF i = 0 THEN <<>> ELSE h[i - 1] \o piece[i])
                   = IF i = 0 THEN <<>> ELSE h[i - 1] \o Spoken(i, chat)
        BY <1>1
      <3>2. [i \in 0..n |-> IF i = 0 THEN <<>> ELSE h[i - 1] \o piece[i]]
            = [i \in 0..n |-> IF i = 0 THEN <<>> ELSE h[i - 1] \o Spoken(i, chat)]
        BY <3>1
      <3>3. QED BY <3>2 DEF GatherRule
    <2> HIDE DEF Its, X, piece, n
    <2>2. \E h : Its(h)
      BY <1>1, <1>3, <2>1, Gathered
    <2>3. Its(it)
      BY <2>2
    <2> HIDE DEF it
    <2>4. GatherRule(it, piece, n)
      BY <2>1, <2>3
    <2>5. it[n] \in Seq(X)
      BY <1>1, <1>3, <2>4, Gathered
    <2>6. QED BY <1>4, <2>5
  <1>6. X \subseteq Turns(P)
    OBVIOUS
  <1>7. History(chat) \in Seq(Turns(P))
    BY <1>5, <1>6, SeqMonotonic
  <1>8. OneText(History(chat))
    <2>1. \A i \in 1..Len(History(chat)) : History(chat)[i] \in X
      BY <1>5, ElementOfSeq
    <2>2. QED BY <2>1 DEF OneText
  <1>9. QED BY <1>7, <1>8

\* What the property says of a step that asks Claude.
Asks ==
  LET past == History(Chat(task))
      told == [i \in DOMAIN past |-> past[i].content[1]]
      said == IF told # <<>> /\ told[Len(told)] = Text(task)
              THEN told ELSE Append(told, Text(task))
      asked == FlattenSeq([i \in DOMAIN prompt' |-> prompt'[i].content])
  IN  /\ \A i \in DOMAIN prompt' :
          prompt'[i].role = IF i % 2 = 1 THEN "user" ELSE "assistant"
      /\ Len(prompt') % 2 = 1
      /\ \E before, after \in {<<>>, <<Filler>>} : asked = before \o said \o after

LEMMA ReadsAsks ==
  ASSUME TypeInv, Reads, stage' = "claude"
  PROVE  Asks
  <1> DEFINE P == {messages[i].text : i \in DOMAIN messages} \union {Text(task), Filler}
             past == History(Chat(task))
             s == Conversation(past, Text(task))
             r == FixOrder(s)
  <1>1. messages \in Seq(Tables) /\ Filler \in P /\ Text(task) \in P
    BY DEF TypeInv, TypeOK
  <1>2. \A i \in DOMAIN messages : messages[i].text \in P
    OBVIOUS
  <1>3. prompt' = r
    BY DEF Reads
  <1> HIDE DEF P
  <1>4. past \in Seq(Turns(P)) /\ OneText(past)
    BY <1>1, <1>2, HistoryType
  <1> HIDE DEF past
  <1>5. /\ s \in Seq(Turns(P)) /\ s # <<>> /\ OneText(s)
        /\ Texts(s) = WithMessage(Texts(past), Text(task))
    BY <1>1, <1>4, ConversationSays
  <1> HIDE DEF s
  <1>6. /\ r \in Seq(Turns(P))
        /\ \A i \in 1..Len(r) : r[i].role = IF i % 2 = 1 THEN "user" ELSE "assistant"
        /\ Len(r) % 2 = 1
        /\ \E before, after \in {<<>>, <<Filler>>} : Words(r) = before \o Texts(s) \o after
    BY <1>1, <1>5, FixOrderSays
  <1> HIDE DEF r
  <1>7. DOMAIN r = 1..Len(r) /\ DOMAIN past = 1..Len(past)
    BY <1>4, <1>6, LenProperties
  <1>8. Texts(past) = [i \in DOMAIN past |-> past[i].content[1]]
    BY <1>7 DEF Texts
  <1>9. Words(r) = FlattenSeq([i \in DOMAIN r |-> r[i].content])
    BY DEF Words, Contents
  <1> DEFINE told == [i \in DOMAIN past |-> past[i].content[1]]
             asked == FlattenSeq([i \in DOMAIN r |-> r[i].content])
             said == IF told # <<>> /\ told[Len(told)] = Text(task)
                     THEN told ELSE Append(told, Text(task))
  <1> HIDE DEF told, asked
  <1>10. \E before, after \in {<<>>, <<Filler>>} : asked = before \o said \o after
    <2>1. Texts(past) = told /\ Words(r) = asked
      BY <1>8, <1>9 DEF told, asked
    <2>2. said = Texts(s)
      BY <1>5, <2>1 DEF WithMessage
    <2>3. QED BY <1>6, <2>1, <2>2
  <1> HIDE DEF said
  <1>11. \A i \in DOMAIN r : r[i].role = IF i % 2 = 1 THEN "user" ELSE "assistant"
    BY <1>6, <1>7
  <1>12. QED BY <1>3, <1>6, <1>10, <1>11 DEF Asks, told, asked, said, past

(* No other step makes the pipeline ask.                                   *)
LEMMA OnlyReadsAsks ==
  ASSUME TypeInv, [Next]_vars, stage' = "claude", stage # "claude"
  PROVE  Reads
  BY DEF Next, Answer, Takes, Checks, Generates, Sends, Keeps, PipelineFails, Done,
     pipelineVars, vars

(* What Claude is asked alternates from a user's turn to a user's turn, and *)
(* says what the rows tell of the chat and the message, in order, without  *)
(* losing or repeating any of it: for any messages, any history limit, and *)
(* texts that are the filler too.                                          *)
THEOREM TheWholeConversationIsAsked == Spec => PromptIsTheConversation
  <1>1. TypeInv /\ [Next]_vars => [stage' = "claude" /\ stage # "claude" => Asks]_vars
    BY ReadsAsks, OnlyReadsAsks
  <1>2. Init => TypeInv
    BY TypeInit
  <1>3. TypeInv /\ [Next]_vars => TypeInv'
    BY TypeNext
  <1>4. QED BY <1>1, <1>2, <1>3, PTL DEF Spec, PromptIsTheConversation, Asks
=============================================================================
