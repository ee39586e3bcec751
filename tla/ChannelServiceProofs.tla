------------------------ MODULE ChannelServiceProofs ------------------------
(* Theorems about ChannelService, for any number of channels, requests and *)
(* failures and any set of operations: the types, and that the row of a    *)
(* settled channel says what the engine was told last.                     *)
EXTENDS ChannelService, SequenceTheorems, TLAPS

Effects == Commands \union {"flush"}

LEMMA AwaitsAreEffects ==
  ASSUME NEW kind
  PROVE  Awaits(kind) \in Seq(Effects)
  <1>1. /\ <<"flush", "start_session">> \in Seq(Effects)
        /\ <<"flush", "stop_session">> \in Seq(Effects)
        /\ <<"logout", "delete_session", "flush">> \in Seq(Effects)
        /\ <<"flush">> \in Seq(Effects)
    BY DEF Effects, Commands
  <1>2. CASE kind = "start"
    BY <1>1, <1>2 DEF Awaits
  <1>3. CASE kind = "stop"
    BY <1>1, <1>3 DEF Awaits
  <1>4. CASE kind = "logout"
    BY <1>1, <1>4 DEF Awaits
  <1>5. CASE kind \notin {"start", "stop", "logout"}
    BY <1>1, <1>5 DEF Awaits
  <1>6. QED BY <1>2, <1>3, <1>4, <1>5

LEMMA NoRowIsRow == NoRow \in Rows
  BY DEF NoRow, Rows

LEMMA AssignedIsRow ==
  ASSUME TypeOK, NEW r \in Requests, NEW read \in Rows
  PROVE  Assigned(r, read) \in Rows
  <1>1. job[r].kind \in AllKinds
    BY KindAssumption DEF TypeOK, Jobs
  <1>2. QED
    BY <1>1 DEF Assigned, AllKinds, Rows, CreateChannel, NoRow, StartSession, StopSession,
           LogoutSession, DeleteChannel, UpdateChannel, UpdateSettings, ResetSettings

LEMMA StoredIsRow ==
  ASSUME TypeOK, NEW r \in Requests
  PROVE  Stored(r) \in Rows
  <1>1. row[Channel(r)] \in Rows /\ want[r] \in Rows
    BY DEF TypeOK, Channel, Jobs
  <1>2. QED BY <1>1 DEF Stored, Rows, Columns

(* What a request still awaits stays a sequence of effects.                *)
LEMMA AwaitedIsTyped ==
  ASSUME TypeOK, NEW r \in Requests, NEW what, Awaited(r, what)
  PROVE  todo' \in [Requests -> Seq(Effects)]
  <1>1. todo[r] \in Seq(Effects) /\ todo[r] # <<>>
    BY DEF TypeOK, Awaited, Effects
  <1>2. Tail(todo[r]) \in Seq(Effects)
    BY <1>1, HeadTailProperties
  <1>3. QED BY <1>2 DEF TypeOK, Awaited, Effects

(***************************************************************************)
(* Types.                                                                  *)
(***************************************************************************)
LEMMA TypeStep == TypeOK /\ [Next]_vars => TypeOK'
  <1> SUFFICES ASSUME TypeOK, [Next]_vars PROVE TypeOK'
    OBVIOUS
  <1> USE DEF requestVars, Effects
  <1>1. ASSUME NEW r \in Requests, Begin(r) PROVE TypeOK'
    <2>1. Channel(r) \in Channels /\ row[Channel(r)] \in Rows
      BY DEF TypeOK, Jobs, Channel
    <2>2. Assigned(r, row[Channel(r)]) \in Rows
      BY <2>1, AssignedIsRow
    <2>3. Awaits(job[r].kind) \in Seq(Commands \union {"flush"})
      BY AwaitsAreEffects
    <2>4. Open(Channel(r)) \subseteq Requests
      BY DEF Open
    <2>5. QED BY <1>1, <2>1, <2>2, <2>3, <2>4 DEF Begin, TypeOK
  <1>2. ASSUME NEW r \in Requests, NotFound(r) PROVE TypeOK'
    BY <1>2 DEF NotFound, TypeOK
  <1>3. ASSUME NEW r \in Requests, Flush(r) PROVE TypeOK'
    <2>1. todo' \in [Requests -> Seq(Effects)]
      BY <1>3, AwaitedIsTyped DEF Flush
    <2>2. lock' \in [Channels -> Requests \union {NoOne}]
      BY <1>3 DEF Flush, TypeOK
    <2>3. QED BY <1>3, <2>1, <2>2 DEF Flush, TypeOK
  <1>4. ASSUME NEW r \in Requests, Publish(r) PROVE TypeOK'
    <2>1. PICK command \in Commands :
            Awaited(r, command) /\ queue' = Append(queue, [command |-> command, ch |-> Channel(r)])
      BY <1>4 DEF Publish
    <2>2. todo' \in [Requests -> Seq(Effects)]
      BY <2>1, AwaitedIsTyped
    <2>3. [command |-> command, ch |-> Channel(r)] \in [command : Commands, ch : Channels]
      BY DEF TypeOK, Jobs, Channel
    <2>4. queue' \in Seq([command : Commands, ch : Channels])
      BY <2>1, <2>3, AppendProperties DEF TypeOK
    <2>5. QED BY <1>4, <2>2, <2>4 DEF Publish, TypeOK
  <1>5. ASSUME NEW r \in Requests, Commit(r) PROVE TypeOK'
    <2>1. Stored(r) \in Rows
      BY StoredIsRow
    <2>2. Channel(r) \in Channels
      BY DEF TypeOK, Jobs, Channel
    <2>3. QED BY <1>5, <2>1, <2>2 DEF Commit, Unlocked, TypeOK
  <1>6. ASSUME NEW r \in Requests, Fail(r) PROVE TypeOK'
    <2>1. Channel(r) \in Channels
      BY DEF TypeOK, Jobs, Channel
    <2>2. QED BY <1>6, <2>1 DEF Fail, Unlocked, TypeOK
  <1>7. CASE Execute
    <2>1. /\ Tail(queue) \in Seq([command : Commands, ch : Channels])
          /\ Head(queue) \in [command : Commands, ch : Channels]
      BY <1>7, HeadTailProperties DEF Execute, TypeOK
    <2>2. /\ Head(queue).ch \in Channels
          /\ \/ session' = session \union {Head(queue).ch}
             \/ session' = session
             \/ session' = session \ {Head(queue).ch}
      BY <1>7, <2>1 DEF Execute
    <2>3. QED BY <1>7, <2>1, <2>2 DEF Execute, TypeOK
  <1>8. CASE UNCHANGED vars
    BY <1>8 DEF vars, TypeOK
  <1>9. QED BY <1>1, <1>2, <1>3, <1>4, <1>5, <1>6, <1>7, <1>8 DEF Next, Serve

LEMMA TypeInit == Init => TypeOK
  <1>1. {NoRow, [NoRow EXCEPT !.state = "active"], Paired} \subseteq Rows
    <2>1. [NoRow EXCEPT !.state = "active"] \in Rows
      BY DEF NoRow, Rows
    <2>2. Paired \in Rows
      BY DEF NoRow, Paired, Rows
    <2>3. QED BY <2>1, <2>2, NoRowIsRow
  <1> SUFFICES ASSUME Init PROVE TypeOK
    OBVIOUS
  <1>2. row \in [Channels -> Rows]
    BY <1>1 DEF Init
  <1>3. session \in SUBSET Channels
    BY DEF Init
  <1>4. /\ seen \in [Requests -> Rows]
        /\ want \in [Requests -> Rows]
    BY NoRowIsRow DEF Init
  <1>5. todo \in [Requests -> Seq(Commands \union {"flush"})]
    BY DEF Init
  <1>6. queue \in Seq([command : Commands, ch : Channels])
    BY DEF Init
  <1>7. QED BY <1>2, <1>3, <1>4, <1>5, <1>6 DEF Init, TypeOK

(* Every variable keeps its type: get_db, the operations of ChannelService *)
(* and the engine's reading of the command list leave none out.            *)
THEOREM ChannelTypeCorrect == Spec => []TypeOK
  <1>1. QED BY TypeInit, TypeStep, PTL DEF Spec

(***************************************************************************)
(* What holds of the requests under way.                                   *)
(***************************************************************************)
Suffixes(kind) ==
  CASE kind = "start"  -> {<<"flush", "start_session">>, <<"start_session">>, <<>>}
    [] kind = "stop"   -> {<<"flush", "stop_session">>, <<"stop_session">>, <<>>}
    [] kind = "logout" -> {<<"logout", "delete_session", "flush">>,
                           <<"delete_session", "flush">>, <<"flush">>, <<>>}
    [] OTHER           -> {<<"flush">>, <<>>}

(* Its copy is its row with the assignments of its operation, and it is    *)
(* somewhere in its operation.                                             *)
Copies ==
  \A r \in Requests : phase[r] = "open" =>
    want[r] = Assigned(r, seen[r]) /\ todo[r] \in Suffixes(job[r].kind)

(* The lock of a row is held by a request at work on it, and a start or    *)
(* stop that has flushed a change holds it.                                *)
Locks ==
  \A r \in Requests :
    /\ \A ch \in Channels : lock[ch] = r => Channel(r) = ch /\ phase[r] = "open"
    /\ /\ phase[r] = "open" /\ Dirty(r) # {}
       /\ job[r].kind \in {"start", "stop"} /\ todo[r] # Awaits(job[r].kind)
       => lock[Channel(r)] = r

(* A request that never ran beside another one has its row to itself.      *)
Alone ==
  \A r \in Requests : phase[r] = "open" /\ r \notin overlapped =>
    Open(Channel(r)) = {r} /\ row[Channel(r)] = seen[r]

(* Only a creation is at work on a row that does not exist yet.            *)
Known ==
  /\ \A ch \in Channels : row[ch].state = "absent" => row[ch] = NoRow
  /\ \A r \in Requests : phase[r] = "open" =>
       IF job[r].kind = "create"
       THEN row[Channel(r)] = NoRow /\ seen[r] = NoRow /\ Open(Channel(r)) = {r}
       ELSE row[Channel(r)].state # "absent" /\ seen[r].state = "active"

Shape == TypeOK /\ Copies /\ Locks /\ Alone /\ Known
-----------------------------------------------------------------------------
LEMMA ChannelIsChannel ==
  ASSUME TypeOK, NEW r \in Requests
  PROVE  Channel(r) \in Channels /\ job[r].kind \in AllKinds
  BY KindAssumption DEF TypeOK, Jobs, Channel

(* A request that begins is one more at its channel.                       *)
LEMMA BeginOpens ==
  ASSUME TypeOK, NEW q \in Requests, Begin(q)
  PROVE  /\ Open(Channel(q))' = Open(Channel(q)) \union {q}
         /\ \A ch \in Channels : ch # Channel(q) => Open(ch)' = Open(ch)
         /\ \A r \in Requests : Channel(r)' = Channel(r)
         /\ \A r \in Requests \ {q} :
              /\ phase'[r] = phase[r] /\ seen'[r] = seen[r]
              /\ want'[r] = want[r] /\ todo'[r] = todo[r]
              /\ Dirty(r)' = Dirty(r)
         /\ phase[q] = "idle" /\ phase'[q] = "open" /\ seen'[q] = row[Channel(q)]
         /\ want'[q] = Assigned(q, row[Channel(q)]) /\ todo'[q] = Awaits(job[q].kind)
  BY DEF Begin, TypeOK, Open, Channel, Dirty

(* A request that is done or has failed is one less.                       *)
LEMMA EndCloses ==
  ASSUME TypeOK, NEW q \in Requests, Commit(q) \/ Fail(q)
  PROVE  /\ phase[q] = "open" /\ phase'[q] \in {"done", "failed"}
         /\ Open(Channel(q))' = Open(Channel(q)) \ {q}
         /\ \A ch \in Channels : ch # Channel(q) => Open(ch)' = Open(ch)
         /\ \A r \in Requests : Channel(r)' = Channel(r) /\ Dirty(r)' = Dirty(r)
         /\ \A r \in Requests \ {q} : phase'[r] = phase[r]
         /\ UNCHANGED <<job, seen, want, todo, queue, session, overlapped>>
  BY DEF Commit, Fail, TypeOK, Open, Channel, Dirty

(* Everything else leaves the requests under way as they are.              *)
LEMMA SamePhases ==
  ASSUME UNCHANGED <<job, phase, seen, want>>
  PROVE  /\ \A ch : Open(ch)' = Open(ch)
         /\ \A r : Channel(r)' = Channel(r) /\ Dirty(r)' = Dirty(r)
  BY DEF Open, Channel, Dirty

LEMMA AwaitsIsSuffix ==
  ASSUME NEW kind \in AllKinds
  PROVE  Awaits(kind) \in Suffixes(kind)
  BY DEF Awaits, Suffixes, AllKinds

LEMMA Tails ==
  /\ \A command \in Commands : /\ Tail(<<"flush", command>>) = <<command>>
                              /\ Tail(<<command>>) = <<>>
                              /\ <<command>> # <<"flush", command>>
                              /\ <<>> # <<"flush", command>>
  /\ Tail(<<"logout", "delete_session", "flush">>) = <<"delete_session", "flush">>
  /\ Tail(<<"delete_session", "flush">>) = <<"flush">>
  /\ Tail(<<"flush">>) = <<>>
  /\ <<"delete_session", "flush">> # <<"logout", "delete_session", "flush">>
  /\ <<"flush">> # <<"logout", "delete_session", "flush">>
  /\ <<>> # <<"logout", "delete_session", "flush">>
  /\ <<>> # <<"flush">>
  OBVIOUS

(* Doing what comes next moves a request to a later place.                 *)
LEMMA NextPlace ==
  ASSUME TypeOK, Copies, NEW q \in Requests, NEW what, Awaited(q, what)
  PROVE  /\ todo'[q] = Tail(todo[q])
         /\ todo'[q] \in Suffixes(job[q].kind)
         /\ todo'[q] # Awaits(job[q].kind)
         /\ \A r \in Requests \ {q} : todo'[r] = todo[r]
         /\ phase[q] = "open"
  <1>1. /\ todo'[q] = Tail(todo[q]) /\ todo[q] # <<>> /\ phase[q] = "open"
        /\ \A r \in Requests \ {q} : todo'[r] = todo[r]
        /\ todo[q] \in Suffixes(job[q].kind)
    BY DEF TypeOK, Awaited, Copies
  <1>2. CASE job[q].kind = "start"
    <2>1. todo[q] \in {<<"flush", "start_session">>, <<"start_session">>}
      BY <1>1, <1>2 DEF Suffixes
    <2>2. todo'[q] \in {<<"start_session">>, <<>>}
      BY <1>1, <2>1, Tails DEF Commands
    <2>3. QED BY <1>1, <1>2, <2>2, Tails DEF Suffixes, Awaits, Commands
  <1>3. CASE job[q].kind = "stop"
    <2>1. todo[q] \in {<<"flush", "stop_session">>, <<"stop_session">>}
      BY <1>1, <1>3 DEF Suffixes
    <2>2. todo'[q] \in {<<"stop_session">>, <<>>}
      BY <1>1, <2>1, Tails DEF Commands
    <2>3. QED BY <1>1, <1>3, <2>2, Tails DEF Suffixes, Awaits, Commands
  <1>4. CASE job[q].kind = "logout"
    <2>1. todo[q] \in {<<"logout", "delete_session", "flush">>, <<"delete_session", "flush">>,
                       <<"flush">>}
      BY <1>1, <1>4 DEF Suffixes
    <2>2. todo'[q] \in {<<"delete_session", "flush">>, <<"flush">>, <<>>}
      BY <1>1, <2>1, Tails
    <2>3. QED BY <1>1, <1>4, <2>2, Tails DEF Suffixes, Awaits
  <1>5. CASE job[q].kind \notin {"start", "stop", "logout"}
    <2>1. todo[q] = <<"flush">>
      BY <1>1, <1>5 DEF Suffixes
    <2>2. QED BY <1>1, <1>5, <2>1, Tails DEF Suffixes, Awaits
  <1>6. QED BY <1>1, <1>2, <1>3, <1>4, <1>5

(* Requests under way, their copies and the rows: what a step that begins  *)
(* and ends none leaves alone.                                             *)
Steady ==
  /\ UNCHANGED <<row, job, seen, want, overlapped, loose>>
  /\ \A r \in Requests : phase'[r] = "open" <=> phase[r] = "open"
  /\ \A ch \in Channels : Open(ch)' = Open(ch)
  /\ \A r \in Requests : Channel(r)' = Channel(r) /\ Dirty(r)' = Dirty(r)

LEMMA SteadySteps ==
  ASSUME TypeOK, NEW q \in Requests,
         NotFound(q) \/ Flush(q) \/ Publish(q) \/ Execute \/ UNCHANGED vars
  PROVE  Steady
  <1>1. UNCHANGED <<row, job, seen, want, overlapped, loose>>
    BY DEF NotFound, Flush, Publish, Execute, vars, requestVars
  <1>2. \A r \in Requests : phase'[r] = "open" <=> phase[r] = "open"
    BY DEF NotFound, Flush, Publish, Execute, vars, requestVars, TypeOK
  <1>3. \A ch \in Channels : Open(ch)' = Open(ch)
    BY <1>1, <1>2 DEF Open, Channel
  <1>4. QED BY <1>1, <1>2, <1>3 DEF Steady, Channel, Dirty

LEMMA NextCases ==
  ASSUME [Next]_vars
  PROVE  \/ \E q \in Requests : Begin(q)
         \/ \E q \in Requests : Flush(q)
         \/ \E q \in Requests : Publish(q)
         \/ \E q \in Requests : Commit(q)
         \/ \E q \in Requests : Fail(q)
         \/ \E q \in Requests : NotFound(q)
         \/ Execute
         \/ UNCHANGED vars
  BY DEF Next, Serve

LEMMA CopiesStep == TypeOK /\ Copies /\ [Next]_vars => Copies'
  <1> SUFFICES ASSUME TypeOK, Copies, [Next]_vars, NEW r \in Requests, phase'[r] = "open"
               PROVE  (want[r] = Assigned(r, seen[r]) /\ todo[r] \in Suffixes(job[r].kind))'
    BY DEF Copies
  <1>0. phase[r] = "open" => want[r] = Assigned(r, seen[r]) /\ todo[r] \in Suffixes(job[r].kind)
    BY DEF Copies
  <1> DEFINE Kept == /\ UNCHANGED job /\ phase[r] = "open" /\ seen'[r] = seen[r]
                     /\ want'[r] = want[r]
  <1>1. ASSUME Kept, todo'[r] \in Suffixes(job[r].kind)
        PROVE  (want[r] = Assigned(r, seen[r]) /\ todo[r] \in Suffixes(job[r].kind))'
    BY <1>0, <1>1 DEF Assigned
  <1>2. ASSUME NEW q \in Requests, Begin(q)
        PROVE  (want[r] = Assigned(r, seen[r]) /\ todo[r] \in Suffixes(job[r].kind))'
    <2>0. UNCHANGED job
      BY <1>2 DEF Begin
    <2>1. CASE r = q
      <3>1. todo'[r] \in Suffixes(job[r].kind)
        BY <1>2, <2>1, BeginOpens, AwaitsIsSuffix, ChannelIsChannel
      <3>2. want'[r] = Assigned(r, row[Channel(r)]) /\ seen'[r] = row[Channel(r)]
        BY <1>2, <2>1, BeginOpens
      <3>3. QED BY <2>0, <3>1, <3>2 DEF Assigned
    <2>2. CASE r # q
      <3>1. Kept /\ todo'[r] = todo[r]
        BY <1>2, <2>0, <2>2, BeginOpens
      <3>2. QED BY <1>0, <1>1, <3>1
    <2>3. QED BY <2>1, <2>2
  <1>3. ASSUME NEW q \in Requests, Commit(q) \/ Fail(q)
        PROVE  (want[r] = Assigned(r, seen[r]) /\ todo[r] \in Suffixes(job[r].kind))'
    <2>1. Kept /\ todo'[r] = todo[r]
      BY <1>3, EndCloses
    <2>2. QED BY <1>0, <1>1, <2>1
  <1>4. ASSUME NEW q \in Requests, Flush(q) \/ Publish(q)
        PROVE  (want[r] = Assigned(r, seen[r]) /\ todo[r] \in Suffixes(job[r].kind))'
    <2>1. Kept
      BY <1>4 DEF Flush, Publish
    <2>2. PICK what : Awaited(q, what)
      BY <1>4 DEF Flush, Publish
    <2>3. todo'[r] \in Suffixes(job[r].kind)
      BY <1>0, <2>1, <2>2, NextPlace
    <2>4. QED BY <1>1, <2>1, <2>3
  <1>5. ASSUME (\E q \in Requests : NotFound(q)) \/ Execute \/ UNCHANGED vars
        PROVE  (want[r] = Assigned(r, seen[r]) /\ todo[r] \in Suffixes(job[r].kind))'
    <2>1. Kept /\ todo'[r] = todo[r]
      BY <1>5 DEF NotFound, Execute, vars, requestVars, TypeOK
    <2>2. QED BY <1>0, <1>1, <2>1
  <1>6. QED BY <1>2, <1>3, <1>4, <1>5, NextCases

(* What Locks says of one request.                                         *)
LocksOf(r) ==
  /\ \A ch \in Channels : lock[ch] = r => Channel(r) = ch /\ phase[r] = "open"
  /\ /\ phase[r] = "open" /\ Dirty(r) # {}
     /\ job[r].kind \in {"start", "stop"} /\ todo[r] # Awaits(job[r].kind)
     => lock[Channel(r)] = r

LEMMA LocksStep == TypeOK /\ Copies /\ Locks /\ [Next]_vars => Locks'
  <1> SUFFICES ASSUME TypeOK, Copies, Locks, [Next]_vars, NEW r \in Requests
               PROVE  LocksOf(r)'
    BY DEF Locks, LocksOf
  <1>0. LocksOf(r) /\ Channel(r) \in Channels /\ r # NoOne
    BY ChannelIsChannel, RequestAssumption DEF Locks, LocksOf
  <1>1. ASSUME NEW q \in Requests, Begin(q) PROVE LocksOf(r)'
    <2>1. UNCHANGED <<lock, job>>
      BY <1>1 DEF Begin
    <2>2. CASE r = q
      BY <1>0, <1>1, <2>1, <2>2, BeginOpens DEF LocksOf
    <2>3. CASE r # q
      BY <1>0, <1>1, <2>1, <2>3, BeginOpens DEF LocksOf
    <2>4. QED BY <2>2, <2>3
  <1>2. ASSUME NEW q \in Requests, Flush(q) PROVE LocksOf(r)'
    <2>1. /\ UNCHANGED <<job, phase>>
          /\ Channel(r)' = Channel(r) /\ Dirty(r)' = Dirty(r) /\ Channel(q) \in Channels
      BY <1>2, SamePhases, ChannelIsChannel DEF Flush
    <2>2. /\ todo'[q] # Awaits(job[q].kind) /\ phase[q] = "open"
          /\ r # q => todo'[r] = todo[r]
      BY <1>2, NextPlace DEF Flush
    <2>3. CASE Dirty(q) = {}
      <3>1. UNCHANGED lock
        BY <1>2, <2>3 DEF Flush
      <3>2. QED BY <1>0, <2>1, <2>2, <2>3, <3>1 DEF LocksOf
    <2>4. CASE Dirty(q) # {}
      <3>1. /\ lock[Channel(q)] = NoOne /\ lock'[Channel(q)] = q
            /\ \A ch \in Channels \ {Channel(q)} : lock'[ch] = lock[ch]
        BY <1>2, <2>1, <2>4 DEF Flush, TypeOK
      <3>2. CASE r = q
        BY <1>0, <2>1, <2>2, <3>1, <3>2 DEF LocksOf
      <3>3. CASE r # q
        BY <1>0, <2>1, <2>2, <3>1, <3>3 DEF LocksOf
      <3>4. QED BY <3>2, <3>3
    <2>5. QED BY <2>3, <2>4
  <1>3. ASSUME NEW q \in Requests, Publish(q) PROVE LocksOf(r)'
    <2>1. /\ UNCHANGED <<job, phase, lock>>
          /\ Channel(r)' = Channel(r) /\ Dirty(r)' = Dirty(r)
      BY <1>3, SamePhases DEF Publish
    <2>2. PICK command \in Commands : Awaited(q, command)
      BY <1>3 DEF Publish
    <2>3. r # q => todo'[r] = todo[r]
      BY <2>2, NextPlace
    <2>4. job[q].kind \in {"start", "stop"} => todo[q] # Awaits(job[q].kind)
      <3>1. Head(todo[q]) # "flush"
        BY <2>2 DEF Awaited, Commands
      <3>2. Head(<<"flush", "start_session">>) = "flush" /\ Head(<<"flush", "stop_session">>) = "flush"
        OBVIOUS
      <3>3. QED BY <3>1, <3>2 DEF Awaits
    <2>5. QED BY <1>0, <2>1, <2>3, <2>4 DEF LocksOf
  <1>4. ASSUME NEW q \in Requests, Commit(q) \/ Fail(q) PROVE LocksOf(r)'
    <2>1. \A ch \in Channels : lock'[ch] = IF lock[ch] = q THEN NoOne ELSE lock[ch]
      BY <1>4 DEF Commit, Fail, Unlocked
    <2>2. CASE r = q
      BY <1>0, <1>4, <2>1, <2>2, EndCloses DEF LocksOf
    <2>3. CASE r # q
      BY <1>0, <1>4, <2>1, <2>3, EndCloses DEF LocksOf
    <2>4. QED BY <2>2, <2>3
  <1>5. ASSUME (\E q \in Requests : NotFound(q)) \/ Execute \/ UNCHANGED vars PROVE LocksOf(r)'
    <2>1. /\ UNCHANGED <<lock, job, todo>> /\ (phase'[r] = "open" <=> phase[r] = "open")
          /\ Channel(r)' = Channel(r) /\ Dirty(r)' = Dirty(r)
      BY <1>5, SteadySteps DEF Steady, NotFound, Execute, vars, requestVars
    <2>2. QED BY <1>0, <2>1 DEF LocksOf
  <1>6. QED BY <1>1, <1>2, <1>3, <1>4, <1>5, NextCases

LEMMA AloneStep == TypeOK /\ Alone /\ [Next]_vars => Alone'
  <1> SUFFICES ASSUME TypeOK, Alone, [Next]_vars, NEW r \in Requests,
                      phase'[r] = "open", r \notin overlapped'
               PROVE  (Open(Channel(r)) = {r} /\ row[Channel(r)] = seen[r])'
    BY DEF Alone
  <1>0. /\ Channel(r) \in Channels
        /\ phase[r] = "open" /\ r \notin overlapped =>
             Open(Channel(r)) = {r} /\ row[Channel(r)] = seen[r]
    BY ChannelIsChannel DEF Alone
  <1>1. ASSUME NEW q \in Requests, Begin(q)
        PROVE  (Open(Channel(r)) = {r} /\ row[Channel(r)] = seen[r])'
    <2>1. /\ UNCHANGED row /\ Channel(q) \in Channels
          /\ overlapped' = overlapped \union Open(Channel(q))
                             \union (IF Open(Channel(q)) = {} THEN {} ELSE {q})
      BY <1>1, ChannelIsChannel DEF Begin
    <2>2. CASE r = q
      BY <1>1, <2>1, <2>2, BeginOpens
    <2>3. CASE r # q
      <3>1. phase[r] = "open" /\ r \notin overlapped /\ seen'[r] = seen[r]
        BY <1>1, <2>1, <2>3, BeginOpens
      <3>2. Channel(r) # Channel(q)
        BY <2>1, <3>1 DEF Open
      <3>3. QED BY <1>0, <1>1, <2>1, <3>1, <3>2, BeginOpens
    <2>4. QED BY <2>2, <2>3
  <1>2. ASSUME NEW q \in Requests, Commit(q) \/ Fail(q)
        PROVE  (Open(Channel(r)) = {r} /\ row[Channel(r)] = seen[r])'
    <2>1. r # q /\ phase[r] = "open" /\ r \notin overlapped /\ q \in Open(Channel(q))
      BY <1>2, EndCloses DEF Open
    <2>2. Channel(r) # Channel(q)
      BY <1>0, <2>1
    <2>3. row'[Channel(r)] = row[Channel(r)]
      BY <1>0, <1>2, <2>2 DEF Commit, Fail, TypeOK
    <2>4. QED BY <1>0, <1>2, <2>1, <2>2, <2>3, EndCloses
  <1>3. ASSUME NEW q \in Requests,
               NotFound(q) \/ Flush(q) \/ Publish(q) \/ Execute \/ UNCHANGED vars
        PROVE  (Open(Channel(r)) = {r} /\ row[Channel(r)] = seen[r])'
    <2>1. Steady
      BY <1>3, SteadySteps
    <2>2. QED BY <1>0, <2>1 DEF Steady
  <1>4. QED BY <1>1, <1>2, <1>3, NextCases

(* What the operations make of the columns that matter here.               *)
LEMMA AssignedFields ==
  ASSUME TypeOK, NEW r \in Requests, NEW read \in Rows
  PROVE  /\ Assigned(r, read).state = CASE job[r].kind = "create" -> "active"
                                       [] job[r].kind = "delete" -> "deleted"
                                       [] OTHER -> read.state
         /\ Assigned(r, read).status = CASE job[r].kind = "start" -> "connecting"
                                        [] job[r].kind \in {"stop", "logout", "create"} -> "disconnected"
                                        [] OTHER -> read.status
  <1>1. job[r].kind \in AllKinds
    BY ChannelIsChannel
  <1>2. QED
    BY <1>1 DEF Assigned, AllKinds, Rows, CreateChannel, NoRow, StartSession, StopSession,
           LogoutSession, DeleteChannel, UpdateChannel, UpdateSettings, ResetSettings

(* A start or a stop writes no column but the status.                      *)
LEMMA OnlyTheStatus ==
  ASSUME TypeOK, Copies, NEW r \in Requests, phase[r] = "open",
         job[r].kind \in {"start", "stop"}, Dirty(r) # {}
  PROVE  "status" \in Dirty(r)
  <1>1. seen[r] \in Rows /\ want[r] = Assigned(r, seen[r])
    BY DEF TypeOK, Copies
  <1>2. \A c \in Columns \ {"status"} : want[r][c] = seen[r][c]
    BY <1>1 DEF Assigned, StartSession, StopSession, Rows, Columns
  <1>3. QED BY <1>2 DEF Dirty

LEMMA CommitRow ==
  ASSUME TypeOK, Copies, Known, NEW q \in Requests, Commit(q)
  PROVE  /\ \A ch \in Channels : ch # Channel(q) => row'[ch] = row[ch]
         /\ row'[Channel(q)].state # "absent"
         /\ row[Channel(q)].state = "deleted" => row'[Channel(q)].state = "deleted"
         /\ row'[Channel(q)].status = IF "status" \in Dirty(q) THEN want[q].status
                                      ELSE row[Channel(q)].status
         /\ job[q].kind \notin Lifecycle => "status" \notin Dirty(q)
  <1>1. /\ Channel(q) \in Channels /\ phase[q] = "open" /\ seen[q] \in Rows
        /\ want[q] = Assigned(q, seen[q])
        /\ job[q].kind \in AllKinds
    BY ChannelIsChannel DEF Commit, TypeOK, Copies
  <1>2. /\ row'[Channel(q)] = Stored(q)
        /\ \A ch \in Channels : ch # Channel(q) => row'[ch] = row[ch]
    BY <1>1 DEF Commit, TypeOK
  <1>3. \A c \in Columns : row'[Channel(q)][c] = IF c \in Dirty(q) THEN want[q][c]
                                                 ELSE row[Channel(q)][c]
    BY <1>2 DEF Stored
  <1>4. /\ row'[Channel(q)].state = IF "state" \in Dirty(q) THEN want[q].state
                                    ELSE row[Channel(q)].state
        /\ row'[Channel(q)].status = IF "status" \in Dirty(q) THEN want[q].status
                                     ELSE row[Channel(q)].status
    BY <1>3 DEF Columns
  <1>5. "state" \in Dirty(q) => want[q].state # seen[q].state
    BY DEF Dirty
  <1>6. "status" \in Dirty(q) => want[q].status # seen[q].status
    BY DEF Dirty
  <1>7. CASE job[q].kind = "create"
    <2>1. row[Channel(q)] = NoRow /\ seen[q] = NoRow
      BY <1>1, <1>7 DEF Known
    <2>2. want[q].state = "active" /\ want[q].status = "disconnected"
      BY <1>1, <1>7, AssignedFields
    <2>3. "state" \in Dirty(q)
      BY <1>7, <2>1, <2>2 DEF Dirty, Columns, NoRow
    <2>4. "status" \notin Dirty(q)
      BY <1>6, <2>1, <2>2 DEF NoRow
    <2>5. QED BY <1>2, <1>4, <1>7, <2>1, <2>2, <2>3, <2>4 DEF NoRow
  <1>8. CASE job[q].kind # "create"
    <2>1. row[Channel(q)].state # "absent" /\ seen[q].state = "active"
      BY <1>1, <1>8 DEF Known
    <2>2. "state" \in Dirty(q) => want[q].state = "deleted"
      BY <1>1, <1>5, <1>8, AssignedFields
    <2>3. job[q].kind \notin Lifecycle => "status" \notin Dirty(q)
      BY <1>1, <1>6, <1>8, AssignedFields DEF Lifecycle
    <2>4. QED BY <1>2, <1>4, <2>1, <2>2, <2>3
  <1>9. QED BY <1>7, <1>8

LEMMA KnownStep == TypeOK /\ Copies /\ Known /\ [Next]_vars => Known'
  <1> SUFFICES ASSUME TypeOK, Copies, Known, [Next]_vars PROVE Known'
    OBVIOUS
  <1> DEFINE KnownOf(r) ==
        phase[r] = "open" =>
          IF job[r].kind = "create"
          THEN row[Channel(r)] = NoRow /\ seen[r] = NoRow /\ Open(Channel(r)) = {r}
          ELSE row[Channel(r)].state # "absent" /\ seen[r].state = "active"
  <1>1. \A r \in Requests : KnownOf(r) /\ Channel(r) \in Channels
    BY ChannelIsChannel DEF Known
  <1>2. ASSUME NEW q \in Requests, Begin(q) PROVE Known'
    <2>1. /\ UNCHANGED <<row, job>> /\ Channel(q) \in Channels
          /\ row[Channel(q)].state = IF job[q].kind = "create" THEN "absent" ELSE "active"
          /\ job[q].kind = "create" => Open(Channel(q)) = {}
      BY <1>2, ChannelIsChannel DEF Begin
    <2>2. ASSUME NEW r \in Requests PROVE KnownOf(r)'
      <3>1. CASE r = q
        BY <1>2, <2>1, <3>1, BeginOpens DEF Known
      <3>2. CASE r # q
        <4>1. phase'[r] = "open" /\ job[r].kind = "create" => Channel(r) # Channel(q)
          <5> SUFFICES ASSUME phase'[r] = "open", job[r].kind = "create", Channel(r) = Channel(q)
                       PROVE  FALSE
            OBVIOUS
          <5>1. phase[r] = "open"
            BY <1>2, <3>2, BeginOpens
          <5>2. row[Channel(q)] = NoRow /\ r \in Open(Channel(q))
            BY <1>1, <5>1 DEF Open
          <5>3. QED BY <2>1, <5>2 DEF NoRow
        <4>2. QED BY <1>1, <1>2, <2>1, <3>2, <4>1, BeginOpens
      <3>3. QED BY <3>1, <3>2
    <2>3. QED BY <2>1, <2>2 DEF Known
  <1>3. ASSUME NEW q \in Requests, Commit(q) PROVE Known'
    <2>1. \A ch \in Channels : row'[ch].state = "absent" => row'[ch] = NoRow
      BY <1>3, CommitRow DEF Known
    <2>2. ASSUME NEW r \in Requests PROVE KnownOf(r)'
      <3> SUFFICES ASSUME phase'[r] = "open" PROVE KnownOf(r)'
        OBVIOUS
      <3>1. /\ r # q /\ phase[r] = "open" /\ phase[q] = "open" /\ seen'[r] = seen[r]
            /\ UNCHANGED job /\ Channel(r)' = Channel(r)
        BY <1>3, EndCloses
      <3>2. CASE job[r].kind = "create"
        <4>1. Open(Channel(r)) = {r} /\ row[Channel(r)] = NoRow /\ seen[r] = NoRow
          BY <1>1, <3>1, <3>2
        <4>2. Channel(q) # Channel(r)
          BY <3>1, <4>1 DEF Open
        <4>3. QED BY <1>1, <1>3, <3>1, <3>2, <4>1, <4>2, CommitRow, EndCloses
      <3>3. CASE job[r].kind # "create"
        <4>1. row'[Channel(r)].state # "absent" /\ seen[r].state = "active"
          BY <1>1, <1>3, <3>1, <3>3, CommitRow
        <4>2. QED BY <3>1, <3>3, <4>1
      <3>4. QED BY <3>2, <3>3
    <2>3. QED BY <2>1, <2>2 DEF Known
  <1>4. ASSUME NEW q \in Requests, Fail(q) PROVE Known'
    <2>1. UNCHANGED row
      BY <1>4 DEF Fail
    <2>2. ASSUME NEW r \in Requests PROVE KnownOf(r)'
      <3> SUFFICES ASSUME phase'[r] = "open" PROVE KnownOf(r)'
        OBVIOUS
      <3>1. /\ r # q /\ phase[r] = "open" /\ phase[q] = "open" /\ seen'[r] = seen[r]
            /\ UNCHANGED job /\ Channel(r)' = Channel(r)
        BY <1>4, EndCloses
      <3>2. job[r].kind = "create" => Channel(q) # Channel(r)
        BY <1>1, <3>1 DEF Open
      <3>3. QED BY <1>1, <1>4, <2>1, <3>1, <3>2, EndCloses
    <2>3. QED BY <2>1, <2>2 DEF Known
  <1>5. ASSUME (\E q \in Requests : NotFound(q) \/ Flush(q) \/ Publish(q)) \/ Execute
                 \/ UNCHANGED vars
        PROVE  Known'
    <2>1. UNCHANGED row
      BY <1>5 DEF NotFound, Flush, Publish, Execute, vars
    <2>2. ASSUME NEW r \in Requests PROVE KnownOf(r)'
      <3>1. Steady
        BY <1>5, SteadySteps
      <3>2. QED BY <1>1, <3>1 DEF Steady
    <2>3. QED BY <2>1, <2>2 DEF Known
  <1>6. QED BY <1>2, <1>3, <1>4, <1>5, NextCases

LEMMA ShapeHolds == Spec => []Shape
  <1>1. Init => Shape
    <2> SUFFICES ASSUME Init PROVE Shape
      OBVIOUS
    <2>1. TypeOK
      BY TypeInit
    <2>2. Copies /\ Alone
      BY DEF Init, Copies, Alone
    <2>3. Locks
      BY RequestAssumption DEF Init, Locks
    <2>4. \A ch \in Channels : row[ch].state = "absent" => row[ch] = NoRow
      <3> SUFFICES ASSUME NEW ch \in Channels, row[ch].state = "absent" PROVE row[ch] = NoRow
        OBVIOUS
      <3>1. row[ch] \in {NoRow, [NoRow EXCEPT !.state = "active"], Paired}
        BY DEF Init
      <3>2. [NoRow EXCEPT !.state = "active"].state # "absent" /\ Paired.state # "absent"
        BY DEF NoRow, Paired
      <3>3. QED BY <3>1, <3>2
    <2>5. Known
      BY <2>4 DEF Init, Known
    <2>6. QED BY <2>1, <2>2, <2>3, <2>5 DEF Shape
  <1>2. Shape /\ [Next]_vars => Shape'
    BY TypeStep, CopiesStep, LocksStep, AloneStep, KnownStep DEF Shape
  <1>3. QED BY <1>1, <1>2, PTL DEF Spec

(***************************************************************************)
(* A commit changes its own columns.                                       *)
(***************************************************************************)
(* An operation changes no column of its copy but those it assigns.        *)
LEMMA DirtyIsWritten ==
  ASSUME TypeOK, Copies, NEW r \in Requests, phase[r] = "open"
  PROVE  Dirty(r) \subseteq Writes(job[r].kind)
  <1>1. seen[r] \in Rows /\ want[r] = Assigned(r, seen[r]) /\ job[r].kind \in AllKinds
    BY ChannelIsChannel DEF TypeOK, Copies
  <1>2. \A c \in Columns \ Writes(job[r].kind) : want[r][c] = seen[r][c]
    BY <1>1 DEF Assigned, AllKinds, Writes, Columns, Rows, CreateChannel, StartSession, StopSession,
           LogoutSession, DeleteChannel, UpdateChannel, UpdateSettings, ResetSettings
  <1>3. QED BY <1>2 DEF Dirty

(* A stale copy writes no column another request owns: the unit of work    *)
(* flushes the columns the operation changed, whatever else the row it     *)
(* read held.                                                              *)
THEOREM WritesKeepToTheirColumns == Spec => CommitsOwnColumns
  <1>1. Shape /\ [Next]_vars =>
          [\A ch \in Channels, c \in Columns : row'[ch][c] # row[ch][c] =>
             \E r \in Requests : /\ Channel(r) = ch /\ c \in Writes(job[r].kind)
                                 /\ phase[r] = "open" /\ phase'[r] = "done"]_vars
    <2> SUFFICES ASSUME Shape, [Next]_vars, NEW ch \in Channels, NEW c \in Columns,
                        row'[ch][c] # row[ch][c]
                 PROVE  \E r \in Requests : /\ Channel(r) = ch /\ c \in Writes(job[r].kind)
                                            /\ phase[r] = "open" /\ phase'[r] = "done"
      OBVIOUS
    <2>1. PICK r \in Requests : Commit(r)
      <3>1. row' # row
        OBVIOUS
      <3>2. QED BY <3>1, NextCases DEF Begin, Flush, Publish, Fail, NotFound, Execute, vars
    <2>2. Channel(r) = ch
      BY <2>1, CommitRow DEF Shape
    <2>3. row'[ch] = Stored(r)
      BY <2>1, <2>2 DEF Commit, Shape, TypeOK
    <2>4. c \in Dirty(r)
      BY <2>2, <2>3 DEF Stored
    <2>5. phase[r] = "open" /\ phase'[r] = "done"
      BY <2>1 DEF Commit, Shape, TypeOK
    <2>6. QED BY <2>2, <2>4, <2>5, DirtyIsWritten DEF Shape
  <1>2. QED BY <1>1, ShapeHolds, PTL DEF Spec, CommitsOwnColumns

(***************************************************************************)
(* What the engine has been told.                                          *)
(***************************************************************************)
Entries == [command : Commands, ch : Channels]

Effective(entry, ch) == entry.ch = ch /\ entry.command # "logout"

(* Once the commands q are executed, the engine runs the session of ch if  *)
(* and only if the status is that of a channel being connected.            *)
Says(q, running, ch, status) ==
  /\ \A i \in DOMAIN q :
       Effective(q[i], ch) /\ (\A j \in DOMAIN q : j > i => ~Effective(q[j], ch)) =>
         (q[i].command = "start_session" <=> status = "connecting")
  /\ (\A i \in DOMAIN q : ~Effective(q[i], ch)) => (ch \in running <=> status = "connecting")

LEMMA SaysAppended ==
  ASSUME NEW q \in Seq(Entries), NEW running, NEW ch, NEW entry \in Entries, NEW status,
         IF Effective(entry, ch) THEN entry.command = "start_session" <=> status = "connecting"
                                 ELSE Says(q, running, ch, status)
  PROVE  Says(Append(q, entry), running, ch, status)
  <1> DEFINE long == Append(q, entry)
             n == Len(q) + 1
  <1>1. /\ DOMAIN long = 1..n /\ DOMAIN q = 1..Len(q) /\ Len(q) \in Nat
        /\ long[n] = entry
        /\ \A i \in 1..Len(q) : long[i] = q[i]
    BY AppendProperties, LenProperties
  <1> HIDE DEF long
  <1>2. CASE Effective(entry, ch)
    <2>1. \A i \in DOMAIN long : i # n => n \in DOMAIN long /\ n > i
      BY <1>1
    <2>2. QED BY <1>1, <1>2, <2>1 DEF Says, long
  <1>3. CASE ~Effective(entry, ch)
    <2>1. Says(q, running, ch, status)
      BY <1>3
    <2>2. \A i \in DOMAIN long : Effective(long[i], ch) => i \in DOMAIN q /\ long[i] = q[i]
      BY <1>1, <1>3
    <2>3. \A i \in DOMAIN q : i \in DOMAIN long /\ long[i] = q[i]
      BY <1>1
    <2>4. ASSUME NEW i \in DOMAIN long, Effective(long[i], ch),
                 \A j \in DOMAIN long : j > i => ~Effective(long[j], ch)
          PROVE  long[i].command = "start_session" <=> status = "connecting"
      <3>1. i \in DOMAIN q /\ Effective(q[i], ch) /\ long[i] = q[i]
        BY <2>2, <2>4
      <3>2. \A j \in DOMAIN q : j > i => ~Effective(q[j], ch)
        BY <2>3, <2>4
      <3>3. QED BY <2>1, <3>1, <3>2 DEF Says
    <2>5. ASSUME \A i \in DOMAIN long : ~Effective(long[i], ch)
          PROVE  ch \in running <=> status = "connecting"
      <3>1. \A i \in DOMAIN q : ~Effective(q[i], ch)
        BY <2>3, <2>5
      <3>2. QED BY <2>1, <3>1 DEF Says
    <2>6. QED BY <2>4, <2>5 DEF Says, long
  <1>4. QED BY <1>2, <1>3

LEMMA SaysExecuted ==
  ASSUME NEW q \in Seq(Entries), q # <<>>, NEW running, NEW after, NEW ch, NEW status,
         Says(q, running, ch, status),
         ch \in after <=> IF Effective(Head(q), ch) THEN Head(q).command = "start_session"
                                                    ELSE ch \in running
  PROVE  Says(Tail(q), after, ch, status)
  <1> DEFINE rest == Tail(q)
             n == Len(q)
  <1>1. /\ n \in Nat /\ n > 0 /\ DOMAIN q = 1..n /\ Head(q) = q[1]
        /\ DOMAIN rest = 1..(n - 1)
        /\ \A i \in 1..(n - 1) : rest[i] = q[i + 1]
    BY HeadTailProperties, LenProperties, EmptySeq
  <1> HIDE DEF rest, n
  <1>2. \A i \in DOMAIN rest : i + 1 \in DOMAIN q /\ rest[i] = q[i + 1] /\ i \in Nat
    BY <1>1
  <1>3. \A j \in DOMAIN q : j # 1 => j - 1 \in DOMAIN rest /\ rest[j - 1] = q[j] /\ j \in Nat
    BY <1>1
  <1>4. ASSUME NEW i \in DOMAIN rest, Effective(rest[i], ch),
               \A j \in DOMAIN rest : j > i => ~Effective(rest[j], ch)
        PROVE  rest[i].command = "start_session" <=> status = "connecting"
    <2>1. i + 1 \in DOMAIN q /\ Effective(q[i + 1], ch) /\ i \in Nat
      BY <1>2, <1>4
    <2>2. ASSUME NEW j \in DOMAIN q, j > i + 1 PROVE ~Effective(q[j], ch)
      <3>1. j - 1 \in DOMAIN rest /\ rest[j - 1] = q[j] /\ j \in Nat
        BY <1>3, <2>1, <2>2, <1>1
      <3>2. j - 1 > i
        BY <2>1, <2>2, <3>1
      <3>3. QED BY <1>4, <3>1, <3>2
    <2>3. q[i + 1].command = "start_session" <=> status = "connecting"
      BY <2>1, <2>2 DEF Says
    <2>4. QED BY <1>2, <2>3
  <1>5. ASSUME \A i \in DOMAIN rest : ~Effective(rest[i], ch)
        PROVE  ch \in after <=> status = "connecting"
    <2>1. \A j \in DOMAIN q : j # 1 => ~Effective(q[j], ch)
      BY <1>3, <1>5
    <2>2. 1 \in DOMAIN q /\ \A j \in DOMAIN q : j > 1 => j # 1
      BY <1>1
    <2>3. CASE Effective(q[1], ch)
      <3>1. q[1].command = "start_session" <=> status = "connecting"
        BY <2>1, <2>2, <2>3 DEF Says
      <3>2. QED BY <1>1, <2>3, <3>1
    <2>4. CASE ~Effective(q[1], ch)
      <3>1. ch \in running <=> status = "connecting"
        BY <2>1, <2>4 DEF Says
      <3>2. QED BY <1>1, <2>4, <3>1
    <2>5. QED BY <2>3, <2>4
  <1>6. QED BY <1>4, <1>5 DEF Says, rest

(***************************************************************************)
(* The agreement of row and commands.                                      *)
(***************************************************************************)
(* A request whose last command is out.                                    *)
Told(r) ==
  \/ job[r].kind \in {"start", "stop"} /\ todo[r] = <<>>
  \/ job[r].kind = "logout" /\ todo[r] \in {<<"flush">>, <<>>}

(* A command is out that no lock orders, beside another request.           *)
Excuses(r) == Unordered(r) /\ r \in overlapped /\ Pushed(r)

(* The commands say what the row will say: that of the request whose       *)
(* command is out and not committed yet, else that of the row as it is.    *)
Agrees(ch) ==
  /\ \A r \in Open(ch) : Told(r) => Says(queue, session, ch, want[r].status)
  /\ (\A r \in Open(ch) : ~Told(r)) => Says(queue, session, ch, row[ch].status)

Agreement ==
  \A ch \in Channels :
    row[ch].state # "deleted" /\ ch \notin loose /\ (\A r \in Open(ch) : ~Excuses(r)) =>
      Agrees(ch)
-----------------------------------------------------------------------------
(* Pushed, of an operation and what it still awaits.                       *)
Out(kind, rest) == \E i \in 1..(Len(Awaits(kind)) - Len(rest)) : Awaits(kind)[i] \in Commands

LEMMA PushedIs ==
  ASSUME NEW kind, NEW rest \in Suffixes(kind)
  PROVE  /\ kind \in {"start", "stop"} => (Out(kind, rest) <=> rest = <<>>)
         /\ kind = "logout" => (Out(kind, rest) <=> rest # Awaits("logout"))
  <1>1. /\ Len(<<"flush", "start_session">>) = 2 /\ Len(<<"start_session">>) = 1
        /\ Len(<<"flush", "stop_session">>) = 2 /\ Len(<<"stop_session">>) = 1
        /\ Len(<<"logout", "delete_session", "flush">>) = 3
        /\ Len(<<"delete_session", "flush">>) = 2 /\ Len(<<"flush">>) = 1 /\ Len(<<>>) = 0
    OBVIOUS
  <1>2. /\ <<"flush", "start_session">>[1] = "flush" /\ <<"flush", "start_session">>[2] = "start_session"
        /\ <<"flush", "stop_session">>[1] = "flush" /\ <<"flush", "stop_session">>[2] = "stop_session"
        /\ <<"logout", "delete_session", "flush">>[1] = "logout"
    OBVIOUS
  <1>3. CASE kind = "start"
    <2>1. rest # <<>> => Len(rest) \in {1, 2}
      BY <1>1, <1>3 DEF Suffixes
    <2>2. rest # <<>> => ~Out(kind, rest)
      BY <1>1, <1>2, <1>3, <2>1 DEF Out, Awaits, Commands
    <2>3. rest = <<>> => Out(kind, rest)
      <3>1. 2 \in 1..(2 - 0)
        OBVIOUS
      <3>2. QED BY <1>1, <1>2, <1>3, <3>1 DEF Out, Awaits, Commands
    <2>4. QED BY <1>3, <2>2, <2>3
  <1>4. CASE kind = "stop"
    <2>1. rest # <<>> => Len(rest) \in {1, 2}
      BY <1>1, <1>4 DEF Suffixes
    <2>2. rest # <<>> => ~Out(kind, rest)
      BY <1>1, <1>2, <1>4, <2>1 DEF Out, Awaits, Commands
    <2>3. rest = <<>> => Out(kind, rest)
      <3>1. 2 \in 1..(2 - 0)
        OBVIOUS
      <3>2. QED BY <1>1, <1>2, <1>4, <3>1 DEF Out, Awaits, Commands
    <2>4. QED BY <1>4, <2>2, <2>3
  <1>5. CASE kind = "logout"
    <2>1. rest # Awaits("logout") => Len(rest) \in {0, 1, 2}
      BY <1>1, <1>5 DEF Suffixes, Awaits
    <2>2. rest # Awaits("logout") => Out(kind, rest)
      <3>1. \A n \in {0, 1, 2} : 1 \in 1..(3 - n)
        OBVIOUS
      <3>2. QED BY <1>1, <1>2, <1>5, <2>1, <3>1 DEF Out, Awaits, Commands
    <2>3. rest = Awaits("logout") => ~Out(kind, rest)
      BY <1>1, <1>5 DEF Out, Awaits
    <2>4. QED BY <1>5, <2>2, <2>3
  <1>6. QED BY <1>3, <1>4, <1>5

LEMMA ToldIsPushed ==
  ASSUME NEW r \in Requests, todo[r] \in Suffixes(job[r].kind), Told(r)
  PROVE  Pushed(r) /\ job[r].kind \in Lifecycle
  <1>1. Pushed(r) <=> Out(job[r].kind, todo[r])
    BY DEF Pushed, Out
  <1>2. job[r].kind = "logout" => todo[r] # Awaits("logout")
    BY Tails DEF Told, Awaits
  <1>3. QED BY <1>1, <1>2, PushedIs DEF Told, Lifecycle

(* Two requests cannot both have ordered commands out at a channel.        *)
LEMMA OneOrdered ==
  ASSUME Shape, NEW ch \in Channels, NEW r \in Open(ch), NEW q \in Open(ch),
         Told(r), ~Excuses(r), r # q
  PROVE  r \in overlapped /\ lock[ch] = r
  <1>1. /\ r \in Requests /\ phase[r] = "open" /\ Channel(r) = ch
        /\ todo[r] \in Suffixes(job[r].kind)
    BY DEF Open, Shape, Copies
  <1>2. r \in overlapped
    BY <1>1 DEF Shape, Alone
  <1>3. Pushed(r) /\ job[r].kind \in Lifecycle
    BY <1>1, ToldIsPushed
  <1>4. ~Unordered(r)
    BY <1>2, <1>3 DEF Excuses
  <1>5. job[r].kind \in {"start", "stop"} /\ Dirty(r) # {}
    BY <1>3, <1>4 DEF Unordered, Lifecycle
  <1>6. todo[r] # Awaits(job[r].kind)
    BY <1>5, Tails DEF Told, Awaits, Commands
  <1>7. QED BY <1>1, <1>2, <1>5, <1>6 DEF Shape, Locks

(* Where no request's place changes, neither does what is told or excused. *)
LEMMA SamePlace ==
  ASSUME NEW r, job' = job, todo'[r] = todo[r], want'[r] = want[r], seen'[r] = seen[r]
  PROVE  /\ Told(r)' <=> Told(r)
         /\ Pushed(r)' <=> Pushed(r)
         /\ Unordered(r)' <=> Unordered(r)
         /\ Excuses(r) /\ overlapped \subseteq overlapped' => Excuses(r)'
  BY DEF Told, Pushed, Unordered, Excuses, Dirty

(* What the step lemmas below assume of a channel before and after.        *)
Bound(ch) == row[ch].state # "deleted" /\ ch \notin loose /\ \A r \in Open(ch) : ~Excuses(r)

LEMMA BeginAgrees ==
  ASSUME Shape, Agreement, NEW q \in Requests, Begin(q), NEW ch \in Channels, Bound(ch)'
  PROVE  Agrees(ch)'
  <1>1. /\ UNCHANGED <<row, job, queue, session, loose>>
        /\ overlapped \subseteq overlapped'
    BY DEF Begin
  <1>2. /\ \A r \in Open(ch) : r \in Open(ch)' /\ r \in Requests \ {q}
        /\ \A r \in Open(ch)' : r # q => r \in Open(ch)
        /\ todo'[q] = Awaits(job[q].kind)
    BY BeginOpens DEF Open, Shape
  <1>3. \A r \in Open(ch) : /\ Told(r)' <=> Told(r)
                            /\ Excuses(r) => Excuses(r)'
                            /\ want'[r] = want[r]
    BY <1>1, <1>2, BeginOpens, SamePlace DEF Shape
  <1>4. ~Told(q)'
    BY <1>1, <1>2, Tails DEF Told, Awaits, Commands
  <1>5. Agrees(ch)
    BY <1>1, <1>2, <1>3 DEF Bound, Agreement
  <1>6. QED BY <1>1, <1>2, <1>3, <1>4, <1>5 DEF Agrees

(* What comes next of a request, and what is told and pushed thereby.      *)
LEMMA WhatIsNext ==
  ASSUME Shape, NEW q \in Requests, NEW what, Awaited(q, what), UNCHANGED job
  PROVE  /\ what = "flush" => (Told(q)' <=> Told(q)) /\ (Pushed(q)' <=> Pushed(q))
         /\ job[q].kind = "start" /\ what \in Commands => what = "start_session" /\ Pushed(q)' /\ Told(q)'
         /\ job[q].kind = "stop" /\ what \in Commands => what = "stop_session" /\ Pushed(q)' /\ Told(q)'
         /\ job[q].kind = "logout" /\ what \in Commands =>
              /\ Pushed(q)'
              /\ \/ what = "logout" /\ ~Told(q)' /\ ~Told(q) /\ ~Pushed(q)
                 \/ what = "delete_session" /\ Told(q)'
         /\ job[q].kind \notin Lifecycle => what = "flush"
         /\ \A r \in Requests \ {q} : todo'[r] = todo[r]
         /\ job[q].kind \in {"start", "stop"} /\ what \in Commands => todo[q] # Awaits(job[q].kind)
  <1>1. /\ todo'[q] = Tail(todo[q]) /\ todo'[q] \in Suffixes(job[q].kind)
        /\ todo[q] \in Suffixes(job[q].kind) /\ todo[q] # <<>> /\ Head(todo[q]) = what
        /\ \A r \in Requests \ {q} : todo'[r] = todo[r]
    BY NextPlace DEF Shape, Copies, Awaited
  <1>2. /\ Pushed(q) <=> Out(job[q].kind, todo[q])
        /\ Pushed(q)' <=> Out(job[q].kind, todo'[q])
    BY DEF Pushed, Out
  <1>3. /\ Head(<<"flush", "start_session">>) = "flush" /\ Head(<<"start_session">>) = "start_session"
        /\ Head(<<"flush", "stop_session">>) = "flush" /\ Head(<<"stop_session">>) = "stop_session"
        /\ Head(<<"delete_session", "flush">>) = "delete_session"
        /\ Head(<<"logout", "delete_session", "flush">>) = "logout" /\ Head(<<"flush">>) = "flush"
    OBVIOUS
  <1>4. CASE job[q].kind = "start"
    <2>1. CASE what = "flush"
      <3>1. todo[q] = <<"flush", "start_session">> /\ todo'[q] = <<"start_session">>
        BY <1>1, <1>3, <1>4, <2>1, Tails DEF Suffixes, Commands
      <3>2. <<"start_session">> # <<>> /\ <<"flush", "start_session">> # <<>>
        OBVIOUS
      <3>3. ~Told(q) /\ ~Told(q)'
        BY <1>4, <3>1, <3>2 DEF Told
      <3>4. QED BY <1>1, <1>2, <1>4, <2>1, <3>1, <3>2, <3>3, PushedIs DEF Commands, Lifecycle
    <2>2. CASE what # "flush"
      <3>1. todo[q] = <<"start_session">> /\ todo'[q] = <<>> /\ what = "start_session"
        BY <1>1, <1>3, <1>4, <2>2, Tails DEF Suffixes, Commands
      <3>2. <<"start_session">> # Awaits("start")
        BY Tails DEF Awaits, Commands
      <3>3. Told(q)'
        BY <1>4, <3>1 DEF Told
      <3>4. QED BY <1>1, <1>2, <1>4, <2>2, <3>1, <3>2, <3>3, PushedIs DEF Lifecycle
    <2>3. QED BY <2>1, <2>2
  <1>5. CASE job[q].kind = "stop"
    <2>1. CASE what = "flush"
      <3>1. todo[q] = <<"flush", "stop_session">> /\ todo'[q] = <<"stop_session">>
        BY <1>1, <1>3, <1>5, <2>1, Tails DEF Suffixes, Commands
      <3>2. <<"stop_session">> # <<>> /\ <<"flush", "stop_session">> # <<>>
        OBVIOUS
      <3>3. ~Told(q) /\ ~Told(q)'
        BY <1>5, <3>1, <3>2 DEF Told
      <3>4. QED BY <1>1, <1>2, <1>5, <2>1, <3>1, <3>2, <3>3, PushedIs DEF Commands, Lifecycle
    <2>2. CASE what # "flush"
      <3>1. todo[q] = <<"stop_session">> /\ todo'[q] = <<>> /\ what = "stop_session"
        BY <1>1, <1>3, <1>5, <2>2, Tails DEF Suffixes, Commands
      <3>2. <<"stop_session">> # Awaits("stop")
        BY Tails DEF Awaits, Commands
      <3>3. Told(q)'
        BY <1>5, <3>1 DEF Told
      <3>4. QED BY <1>1, <1>2, <1>5, <2>2, <3>1, <3>2, <3>3, PushedIs DEF Lifecycle
    <2>3. QED BY <2>1, <2>2
  <1>6. CASE job[q].kind = "logout"
    <2>1. CASE what = "flush"
      <3>1. todo[q] = <<"flush">> /\ todo'[q] = <<>>
        BY <1>1, <1>3, <1>6, <2>1, Tails DEF Suffixes
      <3>2. Told(q) /\ Told(q)'
        BY <1>6, <3>1 DEF Told
      <3>3. <<"flush">> # Awaits("logout") /\ <<>> # Awaits("logout")
        BY Tails DEF Awaits
      <3>4. QED BY <1>1, <1>2, <1>6, <2>1, <3>1, <3>2, <3>3, PushedIs DEF Commands, Lifecycle
    <2>2. CASE what = "delete_session"
      <3>1. todo'[q] = <<"flush">>
        BY <1>1, <1>3, <1>6, <2>2, Tails DEF Suffixes
      <3>2. Told(q)' /\ <<"flush">> # Awaits("logout")
        BY <1>6, <3>1, Tails DEF Told, Awaits
      <3>3. QED BY <1>1, <1>2, <1>6, <2>2, <3>1, <3>2, PushedIs DEF Lifecycle
    <2>3. CASE what \notin {"flush", "delete_session"}
      <3>1. /\ todo[q] = <<"logout", "delete_session", "flush">> /\ what = "logout"
            /\ todo'[q] = <<"delete_session", "flush">>
        BY <1>1, <1>3, <1>6, <2>3, Tails DEF Suffixes
      <3>2. /\ todo[q] \notin {<<"flush">>, <<>>} /\ todo'[q] \notin {<<"flush">>, <<>>}
            /\ todo'[q] # Awaits("logout") /\ todo[q] = Awaits("logout")
        BY <3>1, Tails DEF Awaits
      <3>3. ~Told(q) /\ ~Told(q)'
        BY <1>6, <3>2 DEF Told
      <3>4. QED BY <1>1, <1>2, <1>6, <2>3, <3>1, <3>2, <3>3, PushedIs DEF Lifecycle
    <2>4. QED BY <2>1, <2>2, <2>3
  <1>7. CASE job[q].kind \notin Lifecycle
    <2>1. todo[q] = <<"flush">> /\ todo'[q] = <<>> /\ what = "flush"
      BY <1>1, <1>3, <1>7, Tails DEF Suffixes, Lifecycle
    <2>2. ~Told(q) /\ ~Told(q)'
      BY <1>7 DEF Told, Lifecycle
    <2>3. Awaits(job[q].kind) = <<"flush">>
      BY <1>7 DEF Awaits, Lifecycle
    <2>4. ~Out(job[q].kind, <<"flush">>) /\ ~Out(job[q].kind, <<>>)
      <3>1. Len(<<"flush">>) = 1 /\ Len(<<>>) = 0 /\ <<"flush">>[1] = "flush"
        OBVIOUS
      <3>2. QED BY <2>3, <3>1 DEF Out, Commands
    <2>5. QED BY <1>1, <1>2, <1>7, <2>1, <2>2, <2>4 DEF Lifecycle, Commands
  <1>8. QED BY <1>4, <1>5, <1>6, <1>7 DEF Lifecycle

LEMMA FlushAgrees ==
  ASSUME Shape, Agreement, NEW q \in Requests, Flush(q), NEW ch \in Channels, Bound(ch)'
  PROVE  Agrees(ch)'
  <1>1. /\ UNCHANGED <<row, job, phase, seen, want, queue, session, overlapped, loose>>
        /\ Awaited(q, "flush") /\ Open(ch)' = Open(ch)
    BY SamePhases DEF Flush
  <1>2. ASSUME NEW r \in Requests
        PROVE  /\ Told(r)' <=> Told(r)
               /\ Excuses(r)' <=> Excuses(r)
    <2>1. (Told(r)' <=> Told(r)) /\ (Pushed(r)' <=> Pushed(r))
      <3>1. CASE r = q
        BY <1>1, <3>1, WhatIsNext
      <3>2. CASE r # q
        BY <1>1, <3>2, WhatIsNext, SamePlace
      <3>3. QED BY <3>1, <3>2
    <2>2. Unordered(r)' <=> Unordered(r)
      BY <1>1 DEF Unordered, Dirty
    <2>3. QED BY <1>1, <2>1, <2>2 DEF Excuses
  <1>3. \A r \in Open(ch) : r \in Requests
    BY DEF Open
  <1>4. Agrees(ch)
    BY <1>1, <1>2, <1>3 DEF Bound, Agreement
  <1>5. QED BY <1>1, <1>2, <1>3, <1>4 DEF Agrees

LEMMA PublishAgrees ==
  ASSUME Shape, Agreement, NEW q \in Requests, Publish(q), NEW ch \in Channels, Bound(ch)'
  PROVE  Agrees(ch)'
  <1>1. PICK command \in Commands :
          /\ Awaited(q, command)
          /\ queue' = Append(queue, [command |-> command, ch |-> Channel(q)])
    BY DEF Publish
  <1> DEFINE entry == [command |-> command, ch |-> Channel(q)]
  <1>2. /\ UNCHANGED <<row, job, phase, seen, want, session, overlapped, loose>>
        /\ Open(ch)' = Open(ch) /\ queue \in Seq(Entries) /\ entry \in Entries
        /\ entry.command = command /\ entry.ch = Channel(q)
        /\ \A r \in Open(ch) : r \in Requests /\ Channel(r) = ch /\ phase[r] = "open"
        /\ phase[q] = "open"
    BY <1>1, SamePhases, ChannelIsChannel DEF Publish, Shape, TypeOK, Entries, Open, Awaited
  <1> HIDE DEF entry
  <1>3. \A r \in Requests \ {q} : (Told(r)' <=> Told(r)) /\ (Excuses(r)' <=> Excuses(r))
    <2>1. \A r \in Requests \ {q} : todo'[r] = todo[r]
      BY <1>1, <1>2, WhatIsNext
    <2>2. QED BY <1>2, <2>1, SamePlace DEF Excuses
  <1>4. CASE Channel(q) # ch
    <2>1. \A r \in Open(ch) : (Told(r)' <=> Told(r)) /\ (Excuses(r)' <=> Excuses(r))
      BY <1>2, <1>3, <1>4
    <2>2. Agrees(ch)
      BY <1>2, <2>1 DEF Bound, Agreement
    <2>3. \A status : Says(queue, session, ch, status) => Says(queue', session', ch, status)
      <3>1. ~Effective(entry, ch)
        BY <1>2, <1>4 DEF Effective
      <3>2. QED BY <1>1, <1>2, <3>1, SaysAppended DEF entry
    <2>4. QED BY <1>2, <2>1, <2>2, <2>3 DEF Agrees
  <1>5. CASE Channel(q) = ch /\ command = "logout"
    <2>1. job[q].kind = "logout"
      BY <1>1, <1>2, <1>5, WhatIsNext DEF Lifecycle, Commands
    <2>2. ~Told(q)' /\ ~Told(q) /\ ~Pushed(q)
      BY <1>1, <1>2, <1>5, <2>1, WhatIsNext
    <2>3. \A r \in Open(ch) : (Told(r)' <=> Told(r)) /\ (Excuses(r) => Excuses(r)')
      BY <1>2, <1>3, <2>2 DEF Excuses
    <2>4. Agrees(ch)
      BY <1>2, <2>3 DEF Bound, Agreement
    <2>5. \A status : Says(queue, session, ch, status) => Says(queue', session', ch, status)
      <3>1. ~Effective(entry, ch)
        BY <1>2, <1>5 DEF Effective
      <3>2. QED BY <1>1, <1>2, <3>1, SaysAppended DEF entry
    <2>6. QED BY <1>2, <2>3, <2>4, <2>5 DEF Agrees
  <1>6. CASE Channel(q) = ch /\ command # "logout"
    <2>1. /\ job[q].kind \in Lifecycle /\ Told(q)' /\ Pushed(q)'
          /\ command = "start_session" <=> job[q].kind = "start"
          /\ job[q].kind \in {"start", "stop"} => todo[q] # Awaits(job[q].kind)
      BY <1>1, <1>2, <1>6, WhatIsNext DEF Lifecycle, Commands
    <2>2. q \in Open(ch) /\ ~Excuses(q)'
      BY <1>2, <1>6 DEF Open, Bound
    <2>3. want[q].status = "connecting" <=> job[q].kind = "start"
      <3>1. want[q] = Assigned(q, seen[q]) /\ seen[q] \in Rows
        BY <1>2 DEF Shape, Copies, TypeOK
      <3>2. QED BY <2>1, <3>1, AssignedFields DEF Lifecycle, Shape
    <2>4. Says(queue', session', ch, want[q].status)
      <3>1. Effective(entry, ch) /\ (entry.command = "start_session" <=> want[q].status = "connecting")
        BY <1>2, <1>6, <2>1, <2>3 DEF Effective
      <3>2. QED BY <1>1, <1>2, <3>1, SaysAppended DEF entry
    <2>5. ASSUME NEW r \in Open(ch), r # q, Told(r)' PROVE FALSE
      <3>1. Told(r) /\ ~Excuses(r)
        BY <1>2, <1>3, <2>5 DEF Bound
      <3>2. lock[ch] = r
        BY <2>2, <2>5, <3>1, OneOrdered
      <3>3. q \in overlapped
        BY <1>2, <1>6, <2>5 DEF Shape, Alone
      <3>4. ~Unordered(q)
        BY <1>2, <2>1, <2>2, <3>3 DEF Excuses, Unordered, Dirty
      <3>5. job[q].kind \in {"start", "stop"} /\ Dirty(q) # {}
        BY <2>1, <3>4 DEF Unordered, Lifecycle
      <3>6. lock[ch] = q
        BY <1>2, <1>6, <2>1, <3>5 DEF Shape, Locks
      <3>7. QED BY <2>5, <3>2, <3>6
    <2>6. QED BY <1>2, <2>1, <2>2, <2>4, <2>5 DEF Agrees
  <1>7. QED BY <1>4, <1>5, <1>6

LEMMA CommitAgrees ==
  ASSUME Shape, Agreement, NEW q \in Requests, Commit(q), NEW ch \in Channels, Bound(ch)'
  PROVE  Agrees(ch)'
  <1>1. /\ UNCHANGED <<job, seen, want, todo, queue, session, overlapped>>
        /\ loose \subseteq loose' /\ todo[q] = <<>> /\ phase[q] = "open"
        /\ Unordered(q) /\ q \in overlapped => Channel(q) \in loose'
        /\ Channel(q) \in Channels
    BY ChannelIsChannel DEF Commit, Shape
  <1>2. /\ \A r \in Open(ch)' : r \in Open(ch) /\ r # q
        /\ \A r \in Open(ch) : r # q => r \in Open(ch)'
        /\ \A r \in Open(ch) : r \in Requests /\ Channel(r) = ch /\ phase[r] = "open"
    BY <1>1, EndCloses DEF Shape, Open
  <1>3. \A r \in Requests : (Told(r)' <=> Told(r)) /\ (Excuses(r)' <=> Excuses(r))
    BY <1>1 DEF Told, Excuses, Pushed, Unordered, Dirty
  <1>4. row[ch].state # "deleted" /\ ch \notin loose
    BY <1>1, CommitRow DEF Bound, Shape
  <1>5. CASE Channel(q) # ch
    <2>1. q \notin Open(ch) /\ row'[ch] = row[ch]
      BY <1>2, <1>5, CommitRow DEF Shape
    <2>2. \A r \in Open(ch) : ~Excuses(r)
      BY <1>2, <1>3, <2>1 DEF Bound
    <2>3. Agrees(ch)
      BY <1>4, <2>2 DEF Agreement
    <2>4. QED BY <1>1, <1>2, <1>3, <2>1, <2>3 DEF Agrees
  <1>6. CASE Channel(q) = ch
    <2>1. q \in Open(ch) /\ ~(Unordered(q) /\ q \in overlapped)
      BY <1>1, <1>6 DEF Open, Bound
    <2>2. \A r \in Open(ch) : ~Excuses(r)
      BY <1>2, <1>3, <2>1 DEF Bound, Excuses
    <2>3. Agrees(ch)
      BY <1>4, <2>2 DEF Agreement
    <2>4. row'[ch].status = IF "status" \in Dirty(q) THEN want[q].status ELSE row[ch].status
      BY <1>6, CommitRow DEF Shape
    <2>5. CASE job[q].kind \notin Lifecycle
      <3>1. row'[ch].status = row[ch].status
        BY <2>4, <2>5, CommitRow DEF Shape
      <3>2. ~Told(q)
        BY <2>5 DEF Told, Lifecycle
      <3>3. QED BY <1>1, <1>2, <1>3, <2>3, <3>1, <3>2 DEF Agrees
    <2>6. CASE job[q].kind \in Lifecycle
      <3>1. Told(q)
        BY <1>1, <2>6 DEF Told, Lifecycle
      <3>2. Says(queue, session, ch, want[q].status)
        BY <2>1, <2>3, <3>1 DEF Agrees
      <3>3. row'[ch].status = want[q].status
        <4>1. CASE q \notin overlapped
          <5>1. row[ch] = seen[q]
            BY <1>1, <1>6, <4>1 DEF Shape, Alone
          <5>2. "status" \notin Dirty(q) => want[q].status = seen[q].status
            BY <2>6 DEF Dirty, Columns, Lifecycle
          <5>3. QED BY <2>4, <5>1, <5>2
        <4>2. CASE ~Unordered(q)
          <5>1. job[q].kind \in {"start", "stop"} /\ Dirty(q) # {}
            BY <2>6, <4>2 DEF Unordered, Lifecycle
          <5>2. QED BY <1>1, <2>4, <5>1, OnlyTheStatus DEF Shape
        <4>3. QED BY <2>1, <4>1, <4>2
      <3>4. ASSUME NEW r \in Open(ch), r # q, Told(r) PROVE FALSE
        <4>1. r \in overlapped /\ lock[ch] = r
          BY <2>1, <2>2, <3>4, OneOrdered
        <4>2. q \in overlapped /\ lock[ch] = q
          BY <2>1, <2>2, <3>1, <3>4, OneOrdered
        <4>3. QED BY <3>4, <4>1, <4>2
      <3>5. QED BY <1>1, <1>2, <1>3, <3>2, <3>3, <3>4 DEF Agrees
    <2>7. QED BY <2>5, <2>6
  <1>7. QED BY <1>5, <1>6

LEMMA FailAgrees ==
  ASSUME Shape, Agreement, NEW q \in Requests, Fail(q), NEW ch \in Channels, Bound(ch)'
  PROVE  Agrees(ch)'
  <1>1. /\ UNCHANGED <<row, job, seen, want, todo, queue, session, overlapped>>
        /\ loose \subseteq loose' /\ phase[q] = "open"
        /\ Pushed(q) => Channel(q) \in loose'
        /\ todo[q] \in Suffixes(job[q].kind)
    BY DEF Fail, Shape, Copies
  <1>2. /\ \A r \in Open(ch)' : r \in Open(ch) /\ r # q
        /\ \A r \in Open(ch) : r # q => r \in Open(ch)'
        /\ \A r \in Open(ch) : r \in Requests /\ Channel(r) = ch
    BY <1>1, EndCloses DEF Shape, Open
  <1>3. \A r \in Requests : (Told(r)' <=> Told(r)) /\ (Excuses(r)' <=> Excuses(r))
    BY <1>1 DEF Told, Excuses, Pushed, Unordered, Dirty
  <1>4. q \in Open(ch) => ~Pushed(q)
    BY <1>1, <1>2 DEF Bound
  <1>5. \A r \in Open(ch) : ~Excuses(r)
    BY <1>2, <1>3, <1>4 DEF Bound, Excuses
  <1>6. Agrees(ch)
    BY <1>1, <1>5 DEF Bound, Agreement
  <1>7. q \in Open(ch) => ~Told(q)
    BY <1>1, <1>4, ToldIsPushed
  <1>8. QED BY <1>1, <1>2, <1>3, <1>6, <1>7 DEF Agrees

LEMMA ExecuteAgrees ==
  ASSUME Shape, Agreement, Execute, NEW ch \in Channels, Bound(ch)'
  PROVE  Agrees(ch)'
  <1>1. /\ UNCHANGED <<row, job, phase, seen, want, todo, overlapped, loose>>
        /\ Open(ch)' = Open(ch) /\ queue \in Seq(Entries) /\ queue # <<>>
        /\ queue' = Tail(queue)
    BY SamePhases DEF Execute, requestVars, Shape, TypeOK, Entries
  <1>2. \A r : (Told(r)' <=> Told(r)) /\ (Excuses(r)' <=> Excuses(r))
    BY <1>1 DEF Told, Excuses, Pushed, Unordered, Dirty
  <1>3. Agrees(ch)
    BY <1>1, <1>2 DEF Bound, Agreement
  <1>4. ch \in session' <=> IF Effective(Head(queue), ch) THEN Head(queue).command = "start_session"
                                                         ELSE ch \in session
    <2>1. Head(queue).command \in Commands
      <3>1. Head(queue) \in Entries
        BY <1>1, HeadTailProperties
      <3>2. QED BY <3>1 DEF Entries
    <2>2. CASE Head(queue).command = "start_session"
      BY <2>2 DEF Execute, Effective
    <2>3. CASE Head(queue).command = "logout"
      BY <2>3 DEF Execute, Effective
    <2>4. CASE Head(queue).command \in {"stop_session", "delete_session"}
      BY <2>4 DEF Execute, Effective
    <2>5. QED BY <2>1, <2>2, <2>3, <2>4 DEF Commands
  <1>5. \A status : Says(queue, session, ch, status) => Says(queue', session', ch, status)
    BY <1>1, <1>4, SaysExecuted
  <1>6. QED BY <1>1, <1>2, <1>3, <1>5 DEF Agrees

LEMMA AgreementStep == Shape /\ Agreement /\ [Next]_vars => Agreement'
  <1> SUFFICES ASSUME Shape, Agreement, [Next]_vars, NEW ch \in Channels, Bound(ch)'
               PROVE  Agrees(ch)'
    BY DEF Agreement, Bound
  <1>1. ASSUME (\E q \in Requests : NotFound(q)) \/ UNCHANGED vars PROVE Agrees(ch)'
    <2>1. /\ UNCHANGED <<row, job, seen, want, todo, queue, session, overlapped, loose>>
          /\ \A r \in Requests : phase'[r] = "open" <=> phase[r] = "open"
      BY <1>1 DEF NotFound, vars, requestVars, Shape, TypeOK
    <2>2. Open(ch)' = Open(ch)
      BY <2>1 DEF Open, Channel
    <2>3. \A r : (Told(r)' <=> Told(r)) /\ (Excuses(r)' <=> Excuses(r))
      BY <2>1 DEF Told, Excuses, Pushed, Unordered, Dirty
    <2>4. Agrees(ch)
      BY <2>1, <2>2, <2>3 DEF Bound, Agreement
    <2>5. QED BY <2>1, <2>2, <2>3, <2>4 DEF Agrees
  <1>2. QED BY <1>1, BeginAgrees, FlushAgrees, PublishAgrees, CommitAgrees, FailAgrees,
               ExecuteAgrees, NextCases

LEMMA AgreementInit == Init => Agreement
  <1> SUFFICES ASSUME Init, NEW ch \in Channels PROVE Agrees(ch)
    BY DEF Agreement
  <1>1. Open(ch) = {} /\ DOMAIN queue = {}
    BY DEF Init, Open
  <1>2. QED BY <1>1 DEF Init, Agrees, Says

(* Once no request is at work on a channel and no command for it waits,    *)
(* its row says whether the engine was told to run its session: the lock   *)
(* taken by the flush of start_session and stop_session orders their       *)
(* commands as their commits, whatever else happens to the channel.        *)
THEOREM RowAgreesWithEngine == Spec => []RowTellsTheSession
  <1>1. Shape /\ Agreement => RowTellsTheSession
    <2> SUFFICES ASSUME Shape, Agreement, NEW ch \in Channels, Settled(ch), ch \notin loose
                 PROVE  row[ch].status = "connecting" <=> ch \in session
      BY DEF RowTellsTheSession
    <2>1. Open(ch) = {} /\ row[ch].state # "deleted"
      BY DEF Settled
    <2>2. Says(queue, session, ch, row[ch].status)
      BY <2>1 DEF Agreement, Agrees
    <2>3. \A i \in DOMAIN queue : ~Effective(queue[i], ch)
      BY DEF Settled, Effective
    <2>4. QED BY <2>2, <2>3 DEF Says
  <1>2. QED BY <1>1, ShapeHolds, AgreementInit, AgreementStep, PTL DEF Spec
=============================================================================
