------------------------ MODULE EngineSessionProofs ------------------------
(* Theorems about EngineSession, for every set of channels and sockets,    *)
(* every retry budget and every bound: the types, the retry budget, that   *)
(* reconnecting never multiplies sessions, and what follows for a channel  *)
(* asked for once: no orphan, 'failed' is final, the last word is backed.   *)
EXTENDS EngineSession, FiniteSetTheorems, SequenceTheorems, TLAPS

(***************************************************************************)
(* Type correctness.  The lemmas give the type of what several actions     *)
(* change in the same way: the flows, the effects of stopSession, a boot.  *)
(***************************************************************************)
FlowType == flows \in [Channels -> [Stages -> Nat]]

LEMMA StageNames ==
  /\ "load" \in Stages /\ "fetch" \in Stages /\ "reconnect" \in Stages /\ "timer" \in Stages
  /\ "giveUp" \in Stages /\ "remove" \in Stages /\ "logout" \in Stages
  /\ "qr" \in Stages
  BY DEF Stages

LEMMA TypeFlows ==
  ASSUME FlowType, NEW ch \in Channels, NEW a \in Stages, NEW b \in Stages,
         Enter(ch, a) \/ Leave(ch, a) \/ Move(ch, a, b)
  PROVE  FlowType'
  <1>1. ASSUME Enter(ch, a) PROVE FlowType'
    BY <1>1 DEF Enter, FlowType
  <1>2. ASSUME Leave(ch, a) PROVE FlowType'
    BY <1>2 DEF Leave, FlowType
  <1>3. ASSUME Move(ch, a, b) PROVE FlowType'
    BY <1>3 DEF Move, FlowType
  <1>4. QED BY <1>1, <1>2, <1>3

LEMMA TypeStatus ==
  ASSUME NEW ch \in Channels, TypeOK, NEW word \in Statuses, Says(ch, word)
  PROVE  status' \in [Channels -> Statuses] /\ said' \in [Channels -> Statuses]
  <1>1. /\ said' = [said EXCEPT ![ch] = word]
        /\ status' = status \/ status' = [status EXCEPT ![ch] = word]
    BY DEF Says
  <1>2. status \in [Channels -> Statuses] /\ said \in [Channels -> Statuses]
    BY DEF TypeOK
  <1>3. QED BY <1>1, <1>2

LEMMA TypeStop ==
  ASSUME NEW ch \in Channels, TypeOK, StopSession(ch)
  PROVE  /\ sessions' \in [Channels -> Sockets \union {NoSocket}]
         /\ attempts' \in [Channels -> Nat]
         /\ live' \in SUBSET Sockets
         /\ opened' \in SUBSET live'
         /\ listening' \in SUBSET live'
         /\ status' \in [Channels -> Statuses] /\ said' \in [Channels -> Statuses]
         /\ overtaken' \in SUBSET Channels
  <1>1. CASE sessions[ch] = NoSocket
    BY <1>1 DEF StopSession, TypeOK, statusVars
  <1>2. CASE sessions[ch] # NoSocket
    <2>1. /\ live' = live \ {sessions[ch]}
          /\ opened' = opened \ {sessions[ch]}
          /\ listening' = listening \ {sessions[ch]}
          /\ sessions' = [sessions EXCEPT ![ch] = NoSocket]
          /\ attempts' = [attempts EXCEPT ![ch] = 0]
          /\ Says(ch, "stopped") /\ Overtakes(ch)
      BY <1>2 DEF StopSession
    <2>2. sessions' \in [Channels -> Sockets \union {NoSocket}]
      BY <2>1 DEF TypeOK
    <2>3. attempts' \in [Channels -> Nat]
      BY <2>1 DEF TypeOK
    <2>4. status' \in [Channels -> Statuses] /\ said' \in [Channels -> Statuses]
      BY <2>1, TypeStatus DEF Statuses
    <2>7. overtaken' \in SUBSET Channels
      BY <2>1 DEF TypeOK, Overtakes
    <2>5. live' \in SUBSET Sockets /\ opened' \in SUBSET live' /\ listening' \in SUBSET live'
      BY <2>1 DEF TypeOK
    <2>6. QED BY <2>2, <2>3, <2>4, <2>5, <2>7
  <1>3. QED BY <1>1, <1>2

LEMMA TypeDisk ==
  ASSUME NEW ch \in Channels, TypeOK, NEW value \in {"absent", "dir", "creds"},
         disk' = [disk EXCEPT ![ch] = value]
  PROVE  disk' \in [Channels -> {"absent", "dir", "creds"}]
  BY DEF TypeOK

LEMMA TypeAttempts ==
  ASSUME NEW ch \in Channels, TypeOK,
         attempts' = [attempts EXCEPT ![ch] = @ + 1] \/ attempts' = [attempts EXCEPT ![ch] = 0]
  PROVE  attempts' \in [Channels -> Nat]
  <1>1. attempts[ch] \in Nat
    BY DEF TypeOK
  <1>2. ASSUME NEW n \in Nat, attempts' = [attempts EXCEPT ![ch] = n]
        PROVE  attempts' \in [Channels -> Nat]
    BY <1>2 DEF TypeOK
  <1>3. CASE attempts' = [attempts EXCEPT ![ch] = @ + 1]
    <2>1. attempts[ch] + 1 \in Nat
      BY <1>1
    <2>2. QED
      BY <1>2, <1>3, <2>1
  <1>4. QED
    BY <1>2, <1>3

LEMMA MkdirType ==
  ASSUME NEW d \in {"absent", "dir", "creds"}
  PROVE  Mkdir(d) \in {"absent", "dir", "creds"}
  BY DEF Mkdir

LEMMA TypeBoot ==
  ASSUME NEW d \in [Channels -> {"absent", "dir", "creds"}], NEW r
  PROVE  /\ Restorable(d, r) \in SUBSET Channels
         /\ One(Restorable(d, r)) \in [Channels -> Nat]
         /\ FlowsAtBoot(Restorable(d, r)) \in [Channels -> [Stages -> Nat]]
  <1>1. Restorable(d, r) \in SUBSET Channels
    BY DEF Restorable
  <1>2. One(Restorable(d, r)) \in [Channels -> Nat]
    BY DEF One
  <1>3. NoFlows \in [Channels -> [Stages -> Nat]]
    BY DEF NoFlows
  <1>4. FlowsAtBoot(Restorable(d, r)) \in [Channels -> [Stages -> Nat]]
    BY <1>2, <1>3, StageNames DEF FlowsAtBoot
  <1>5. QED BY <1>1, <1>2, <1>4

(* The conjuncts of TypeOK that a command, a step of a flow, a reboot, an  *)
(* event of a socket and a handler each leave in place.                    *)
LEMMA TypeInit == Init => TypeOK
  <1> SUFFICES ASSUME Init PROVE TypeOK
    OBVIOUS
  <1>1. disk \in [Channels -> {"absent", "dir", "creds"}] /\ redisAuth \in SUBSET Channels
    BY DEF Init
  <1>2. restoring \in SUBSET Channels /\ asked \in [Channels -> Nat] /\ FlowType
    BY <1>1, TypeBoot DEF Init, FlowType
  <1>3. inflight \in Seq(Pending)
    BY DEF Init
  <1>4. status \in [Channels -> Statuses] /\ said \in [Channels -> Statuses]
    BY DEF Init, Statuses
  <1>5. QED
    BY <1>1, <1>2, <1>3, <1>4 DEF Init, TypeOK, FlowType

LEMMA TypeCommand ==
  ASSUME NEW ch \in Channels, TypeOK, StartCommand(ch) \/ StopCommand(ch) \/ DeleteCommand(ch)
  PROVE  TypeOK'
  <1>1. StopSession(ch)
    BY DEF StartCommand, StopCommand, DeleteCommand
  <1>2. stopped' \in SUBSET Channels /\ issued' \in Nat
    BY DEF StartCommand, StopCommand, DeleteCommand, Dispatch, TypeOK
  <1>3. ASSUME StartCommand(ch) PROVE TypeOK'
    <2>1. FlowType'
      BY <1>3, StageNames, TypeFlows DEF StartCommand, TypeOK, FlowType
    <2>2. asked[ch] + 1 \in Nat
      BY DEF TypeOK
    <2>3. asked' \in [Channels -> Nat]
      BY <1>3, <2>2 DEF StartCommand, TypeOK
    <2>4. QED
      BY <1>1, <1>2, <1>3, <2>1, <2>3, TypeStop DEF StartCommand, TypeOK, FlowType
  <1>4. ASSUME StopCommand(ch) PROVE TypeOK'
    BY <1>1, <1>2, <1>4, TypeStop DEF StopCommand, TypeOK
  <1>5. ASSUME DeleteCommand(ch) PROVE TypeOK'
    <2>1. FlowType'
      BY <1>5, StageNames, TypeFlows DEF DeleteCommand, TypeOK, FlowType
    <2>2. QED
      BY <1>1, <1>2, <1>5, <2>1, TypeStop DEF DeleteCommand, TypeOK, FlowType
  <1>6. QED BY <1>3, <1>4, <1>5

LEMMA TypeStep ==
  ASSUME NEW ch \in Channels, TypeOK, Step(ch)
  PROVE  TypeOK'
  <1>1. FlowType'
    BY StageNames, TypeFlows
       DEF Step, LoadAuth, LoadFails, OpenSocket, FetchFails, ArmTimer, Exhausted, GiveUp,
           TimerFires, RemoveAuth, ForgetLoggedOut, ShowQR, TypeOK, FlowType
  <1>2. disk[ch] \in {"absent", "dir", "creds"}
    BY DEF TypeOK
  <1>3. ASSUME LoadAuth(ch) PROVE TypeOK'
    <2>1. disk' \in [Channels -> {"absent", "dir", "creds"}]
      BY <1>2, <1>3, MkdirType, TypeDisk DEF LoadAuth
    <2>2. QED
      BY <1>1, <1>3, <2>1 DEF LoadAuth, TypeOK, FlowType, socketVars, statusVars, boundVars
  <1>4. ASSUME LoadFails(ch) PROVE TypeOK'
    <2>1. disk' \in [Channels -> {"absent", "dir", "creds"}]
      BY <1>2, <1>4, MkdirType, TypeDisk DEF LoadFails, TypeOK
    <2>2. status' \in [Channels -> Statuses] /\ said' \in [Channels -> Statuses]
      BY <1>4, TypeStatus DEF LoadFails, CreateFails, Statuses
    <2>3. QED
      BY <1>1, <1>4, <2>1, <2>2 DEF LoadFails, CreateFails, TypeOK, FlowType, socketVars, statusVars, boundVars
  <1>5. ASSUME OpenSocket(ch) PROVE TypeOK'
    <2>1. PICK s \in FreeSockets :
            /\ owner' = [owner EXCEPT ![s] = ch]
            /\ live' = live \union {s}
            /\ registering' = registering \union {s}
            /\ sessions' = [sessions EXCEPT ![ch] = s]
            /\ Says(ch, "connecting")
      BY <1>5 DEF OpenSocket
    <2>2. s \in Sockets
      BY DEF FreeSockets
    <2>3. status' \in [Channels -> Statuses] /\ said' \in [Channels -> Statuses]
      BY <2>1, TypeStatus DEF Statuses
    <2>4. sessions' \in [Channels -> Sockets \union {NoSocket}] /\ owner' \in [Sockets -> Channels]
      BY <2>1, <2>2 DEF TypeOK
    <2>5. /\ live' \in SUBSET Sockets /\ registering' \in SUBSET Sockets
          /\ opened \in SUBSET live' /\ listening \in SUBSET live'
      BY <2>1, <2>2 DEF TypeOK
    <2>6. QED
      BY <1>1, <1>5, <2>3, <2>4, <2>5 DEF OpenSocket, TypeOK, FlowType, statusVars, boundVars
  <1>6. ASSUME FetchFails(ch) PROVE TypeOK'
    <2>1. status' \in [Channels -> Statuses] /\ said' \in [Channels -> Statuses]
      BY <1>6, TypeStatus DEF FetchFails, CreateFails, Statuses
    <2>2. QED
      BY <1>1, <1>6, <2>1 DEF FetchFails, CreateFails, TypeOK, FlowType, socketVars, statusVars, boundVars
  <1>7. ASSUME ArmTimer(ch) PROVE TypeOK'
    <2>1. attempts' \in [Channels -> Nat]
      BY <1>7, TypeAttempts DEF ArmTimer
    <2>2. QED
      BY <1>1, <1>7, <2>1 DEF ArmTimer, TypeOK, FlowType, socketVars, statusVars, boundVars
  <1>8. ASSUME Exhausted(ch) PROVE TypeOK'
    <2>1. attempts' \in [Channels -> Nat] /\ status' \in [Channels -> Statuses] /\ said' \in [Channels -> Statuses]
      BY <1>8, TypeAttempts, TypeStatus DEF Exhausted, Statuses
    <2>2. QED
      BY <1>1, <1>8, <2>1 DEF Exhausted, TypeOK, FlowType, socketVars, statusVars, boundVars
  <1>9. ASSUME GiveUp(ch) PROVE TypeOK'
    <2>1. attempts' \in [Channels -> Nat]
      BY <1>9, TypeAttempts DEF GiveUp
    <2>2. QED
      BY <1>1, <1>9, <2>1 DEF GiveUp, TypeOK, FlowType, socketVars, statusVars, boundVars
  <1>10. ASSUME TimerFires(ch) PROVE TypeOK'
    <2>1. StopSession(ch)
      BY <1>10 DEF TimerFires
    <2>2. QED
      BY <1>1, <1>10, <2>1, TypeStop DEF TimerFires, TypeOK, FlowType, statusVars, boundVars
  <1>11. ASSUME RemoveAuth(ch) PROVE TypeOK'
    <2>1. /\ disk' \in [Channels -> {"absent", "dir", "creds"}]
          /\ status' \in [Channels -> Statuses] /\ said' \in [Channels -> Statuses]
      BY <1>11, TypeDisk, TypeStatus DEF RemoveAuth, Statuses
    <2>2. QED
      BY <1>1, <1>11, <2>1 DEF RemoveAuth, TypeOK, FlowType, socketVars, statusVars, boundVars
  <1>12. ASSUME ForgetLoggedOut(ch) PROVE TypeOK'
    <2>1. disk' \in [Channels -> {"absent", "dir", "creds"}] /\ attempts' \in [Channels -> Nat]
      BY <1>12, TypeDisk, TypeAttempts DEF ForgetLoggedOut
    <2>2. QED
      BY <1>1, <1>12, <2>1 DEF ForgetLoggedOut, TypeOK, FlowType, socketVars, statusVars, boundVars
  <1>13. ASSUME ShowQR(ch) PROVE TypeOK'
    <2>1. status' \in [Channels -> Statuses] /\ said' \in [Channels -> Statuses]
      BY <1>13, TypeStatus DEF ShowQR, Statuses
    <2>2. QED
      BY <1>1, <1>13, <2>1 DEF ShowQR, TypeOK, FlowType, socketVars, boundVars
  <1>14. QED
    BY <1>3, <1>4, <1>5, <1>6, <1>7, <1>8, <1>9, <1>10, <1>11, <1>12, <1>13 DEF Step

LEMMA TypeReboot ==
  ASSUME TypeOK, Crash \/ Shutdown
  PROVE  TypeOK'
  <1>1. PICK d \in {disk, [ch \in Channels |-> "absent"]} :
          Booted(d, Restorable(d, redisAuth)) /\ UNCHANGED <<owner, redisAuth, stopped, issued>>
    BY DEF Crash, Shutdown, Reboot
  <1>2. d \in [Channels -> {"absent", "dir", "creds"}]
    BY DEF TypeOK
  <1>3. /\ restoring' \in SUBSET Channels
        /\ asked' \in [Channels -> Nat]
        /\ FlowType'
        /\ disk' \in [Channels -> {"absent", "dir", "creds"}]
    BY <1>1, <1>2, TypeBoot DEF Booted, FlowType
  <1>4. inflight' \in Seq(Pending)
    BY <1>1 DEF Booted
  <1>5. status' \in [Channels -> Statuses] /\ said' \in [Channels -> Statuses]
    <2>1. CASE Crash
      BY <2>1 DEF Crash, TypeOK, statusVars
    <2>2. CASE Shutdown
      BY <2>2 DEF Shutdown, TypeOK, Statuses
    <2>3. QED BY <2>1, <2>2
  <1>6. restarts' \in Nat
    BY DEF Crash, Shutdown, TypeOK
  <1>7. QED
    BY <1>1, <1>3, <1>4, <1>5, <1>6 DEF Booted, TypeOK, FlowType

LEMMA TypeEmit ==
  ASSUME NEW s \in Sockets, NEW update \in Updates, TypeOK, Emit(s, update)
  PROVE  inflight' \in Seq(Pending)
  <1>1. [sock |-> s, update |-> update] \in Pending
    BY DEF Pending
  <1>2. Append(inflight, [sock |-> s, update |-> update]) \in Seq(Pending)
    BY <1>1, AppendProperties DEF TypeOK
  <1>3. QED
    BY <1>2 DEF TypeOK, Emit

LEMMA TypeSocket ==
  ASSUME NEW s \in Sockets, TypeOK,
         \/ Register(s) \/ CredsUpdate(s) \/ SocketQR(s) \/ SocketOpens(s)
         \/ \E reason \in CloseReasons : SocketCloses(s, reason)
  PROVE  TypeOK'
  <1>1. ASSUME Register(s) PROVE TypeOK'
    BY <1>1 DEF Register, TypeOK, statusVars, boundVars
  <1>2. ASSUME CredsUpdate(s) PROVE TypeOK'
    <2>1. CASE Shutdown
      BY <2>1, TypeReboot
    <2>2. CASE ~Shutdown
      <3>1. owner[s] \in Channels
        BY DEF TypeOK
      <3>2. disk' = [disk EXCEPT ![owner[s]] = "creds"]
        BY <1>2, <2>2 DEF CredsUpdate
      <3>3. disk' \in [Channels -> {"absent", "dir", "creds"}]
        BY <3>1, <3>2, TypeDisk
      <3>4. redisAuth' \in SUBSET Channels
        BY <1>2, <2>2, <3>1 DEF CredsUpdate, TypeOK
      <3>5. QED
        BY <1>2, <2>2, <3>3, <3>4 DEF CredsUpdate, TypeOK, socketVars, statusVars, boundVars
    <2>3. QED BY <2>1, <2>2
  <1>3. ASSUME SocketQR(s) PROVE TypeOK'
    <2>1. inflight' \in Seq(Pending)
      BY <1>3, TypeEmit DEF SocketQR, Updates
    <2>2. QED
      BY <1>3, <2>1 DEF SocketQR, TypeOK, socketVars, statusVars, boundVars
  <1>4. ASSUME SocketOpens(s) PROVE TypeOK'
    <2>1. inflight' \in Seq(Pending)
      BY <1>4, TypeEmit DEF SocketOpens, Updates
    <2>2. opened' \in SUBSET live
      BY <1>4 DEF SocketOpens, TypeOK
    <2>3. QED
      BY <1>4, <2>1, <2>2 DEF SocketOpens, TypeOK, statusVars, boundVars
  <1>5. ASSUME NEW reason \in CloseReasons, SocketCloses(s, reason) PROVE TypeOK'
    <2>1. inflight' \in Seq(Pending)
      BY <1>5, TypeEmit DEF SocketCloses, Updates
    <2>2. live' \in SUBSET Sockets /\ opened' \in SUBSET live' /\ listening' \in SUBSET live'
      BY <1>5 DEF SocketCloses, TypeOK
    <2>3. QED
      BY <1>5, <2>1, <2>2 DEF SocketCloses, TypeOK, statusVars, boundVars
  <1>6. QED BY <1>1, <1>2, <1>3, <1>4, <1>5

LEMMA TypeHandle ==
  ASSUME TypeOK, HandleUpdate
  PROVE  TypeOK'
  <1>1. inflight # <<>> /\ inflight' = Tail(inflight)
    BY DEF HandleUpdate, HandleQR, HandleOpen, HandleLost, HandleLoggedOut, Handle
  <1>2. Head(inflight) \in Pending /\ Tail(inflight) \in Seq(Pending)
    BY <1>1, HeadTailProperties DEF TypeOK
  <1>3. inflight' \in Seq(Pending)
    BY <1>1, <1>2
  <1>4. Handled \in Channels
    BY <1>2 DEF Handled, TypeOK, Pending
  <1>5. ASSUME HandleQR PROVE TypeOK'
    <2>1. FlowType'
      BY <1>4, <1>5, StageNames, TypeFlows DEF HandleQR, TypeOK, FlowType
    <2>2. QED
      BY <1>3, <1>5, <2>1 DEF HandleQR, TypeOK, FlowType, socketVars, statusVars, boundVars
  <1>6. ASSUME HandleOpen PROVE TypeOK'
    <2>1. status' \in [Channels -> Statuses] /\ said' \in [Channels -> Statuses] /\ attempts' \in [Channels -> Nat]
      BY <1>4, <1>6, TypeStatus, TypeAttempts DEF HandleOpen, Statuses
    <2>2. QED
      BY <1>3, <1>6, <2>1 DEF HandleOpen, TypeOK, socketVars, boundVars
  <1>7. ASSUME HandleLost \/ HandleLoggedOut PROVE TypeOK'
    <2>1. status' \in [Channels -> Statuses] /\ said' \in [Channels -> Statuses]
      BY <1>4, <1>7, TypeStatus DEF HandleLost, HandleLoggedOut, Statuses
    <2>2. FlowType'
      BY <1>4, <1>7, StageNames, TypeFlows DEF HandleLost, HandleLoggedOut, TypeOK, FlowType
    <2>3. sessions' \in [Channels -> Sockets \union {NoSocket}]
      BY <1>4, <1>7 DEF HandleLost, HandleLoggedOut, TypeOK
    <2>4. QED
      BY <1>3, <1>7, <2>1, <2>2, <2>3
         DEF HandleLost, HandleLoggedOut, TypeOK, FlowType, socketVars, boundVars
  <1>8. QED BY <1>5, <1>6, <1>7 DEF HandleUpdate

(* Every reachable state has the types of TypeOK.                          *)
THEOREM TypeCorrect == Spec => []TypeOK
  <1>1. ASSUME TypeOK, [Next]_vars PROVE TypeOK'
    <2>1. CASE UNCHANGED vars
      BY <1>1, <2>1 DEF vars, socketVars, statusVars, boundVars, TypeOK
    <2>2. CASE Next
      BY <1>1, <2>2, TypeCommand, TypeStep, TypeSocket, TypeHandle, TypeReboot DEF Next
    <2>3. QED BY <1>1, <2>1, <2>2
  <1>2. QED BY TypeInit, <1>1, PTL DEF Spec

(***************************************************************************)
(* The retry budget.  Attempts grow only in ArmTimer, below the budget,    *)
(* and in Exhausted, together with the invocations that give up; every     *)
(* other change resets them.                                               *)
(***************************************************************************)
GivingUp(ch) == flows[ch]["giveUp"]

LEMMA BudgetKept ==
  ASSUME TypeOK, RetryBudget, NEW ch \in Channels,
         attempts' = attempts \/ attempts' = [attempts EXCEPT ![ch] = 0],
         \A c \in Channels : GivingUp(c)' = GivingUp(c)
  PROVE  RetryBudget'
  <1> SUFFICES ASSUME NEW c \in Channels PROVE attempts'[c] <= MaxRetries + GivingUp(c)'
    BY DEF RetryBudget, GivingUp
  <1>1. GivingUp(c) \in Nat /\ attempts[c] \in Nat /\ MaxRetries \in Nat
    BY StageNames, RetryAssumption DEF TypeOK, GivingUp
  <1>2. attempts[c] <= MaxRetries + GivingUp(c)
    BY DEF RetryBudget, GivingUp
  <1>3. GivingUp(c)' = GivingUp(c)
    OBVIOUS
  <1>4. attempts'[c] = attempts[c] \/ attempts'[c] = 0
    BY DEF TypeOK
  <1>5. QED BY <1>1, <1>2, <1>3, <1>4

LEMMA GivingUpKept ==
  ASSUME TypeOK, NEW ch \in Channels, NEW a \in Stages \ {"giveUp"}, NEW b \in Stages \ {"giveUp"},
         Enter(ch, a) \/ Leave(ch, a) \/ Move(ch, a, b) \/ UNCHANGED flows
  PROVE  \A c \in Channels : GivingUp(c)' = GivingUp(c)
  <1> USE StageNames DEF TypeOK, GivingUp
  <1>1. ASSUME Enter(ch, a) PROVE \A c \in Channels : GivingUp(c)' = GivingUp(c)
    BY <1>1 DEF Enter
  <1>2. ASSUME Leave(ch, a) PROVE \A c \in Channels : GivingUp(c)' = GivingUp(c)
    BY <1>2 DEF Leave
  <1>3. ASSUME Move(ch, a, b) PROVE \A c \in Channels : GivingUp(c)' = GivingUp(c)
    BY <1>3 DEF Move
  <1>4. QED BY <1>1, <1>2, <1>3

LEMMA BudgetStep ==
  ASSUME TypeOK, RetryBudget, NEW ch \in Channels, Step(ch)
  PROVE  RetryBudget'
  <1> USE StageNames
  <1>1. ASSUME ArmTimer(ch) PROVE RetryBudget'
    <2> SUFFICES ASSUME NEW c \in Channels PROVE attempts'[c] <= MaxRetries + GivingUp(c)'
      BY DEF RetryBudget, GivingUp
    <2>1. GivingUp(c)' = GivingUp(c)
      BY <1>1, GivingUpKept DEF ArmTimer
    <2>2. GivingUp(c) \in Nat /\ attempts[c] \in Nat /\ MaxRetries \in Nat
      BY RetryAssumption DEF TypeOK, GivingUp
    <2>3. attempts[c] <= MaxRetries + GivingUp(c)
      BY DEF RetryBudget, GivingUp
    <2>4. attempts'[c] = IF c = ch THEN attempts[c] + 1 ELSE attempts[c]
      BY <1>1 DEF ArmTimer, TypeOK
    <2>5. attempts[ch] + 1 <= MaxRetries
      BY <1>1 DEF ArmTimer
    <2>6. QED BY <2>1, <2>2, <2>3, <2>4, <2>5
  <1>2. ASSUME Exhausted(ch) PROVE RetryBudget'
    <2> SUFFICES ASSUME NEW c \in Channels PROVE attempts'[c] <= MaxRetries + GivingUp(c)'
      BY DEF RetryBudget, GivingUp
    <2>1. GivingUp(c)' = IF c = ch THEN GivingUp(c) + 1 ELSE GivingUp(c)
      BY <1>2 DEF Exhausted, Move, TypeOK, GivingUp
    <2>2. GivingUp(c) \in Nat /\ attempts[c] \in Nat /\ MaxRetries \in Nat
      BY RetryAssumption DEF TypeOK, GivingUp
    <2>3. attempts[c] <= MaxRetries + GivingUp(c)
      BY DEF RetryBudget, GivingUp
    <2>4. attempts'[c] = IF c = ch THEN attempts[c] + 1 ELSE attempts[c]
      BY <1>2 DEF Exhausted, TypeOK
    <2>5. QED BY <2>1, <2>2, <2>3, <2>4
  <1>3. ASSUME GiveUp(ch) PROVE RetryBudget'
    <2> SUFFICES ASSUME NEW c \in Channels PROVE attempts'[c] <= MaxRetries + GivingUp(c)'
      BY DEF RetryBudget, GivingUp
    <2>1. GivingUp(c)' = IF c = ch THEN GivingUp(c) - 1 ELSE GivingUp(c)
      BY <1>3 DEF GiveUp, Leave, TypeOK, GivingUp
    <2>2. GivingUp(ch) > 0
      BY <1>3 DEF GiveUp, Leave, GivingUp
    <2>3. GivingUp(c) \in Nat /\ attempts[c] \in Nat /\ MaxRetries \in Nat
      BY RetryAssumption DEF TypeOK, GivingUp
    <2>4. attempts[c] <= MaxRetries + GivingUp(c)
      BY DEF RetryBudget, GivingUp
    <2>5. attempts'[c] = IF c = ch THEN 0 ELSE attempts[c]
      BY <1>3 DEF GiveUp, TypeOK
    <2>6. QED BY <2>1, <2>2, <2>3, <2>4, <2>5
  <1>4. ASSUME ~ArmTimer(ch), ~Exhausted(ch), ~GiveUp(ch) PROVE RetryBudget'
    <2>1. \A c \in Channels : GivingUp(c)' = GivingUp(c)
      BY <1>4, GivingUpKept
         DEF Step, LoadAuth, LoadFails, OpenSocket, FetchFails, TimerFires, RemoveAuth, ForgetLoggedOut, ShowQR
    <2>2. attempts' = attempts \/ attempts' = [attempts EXCEPT ![ch] = 0]
      BY <1>4 DEF Step, LoadAuth, LoadFails, OpenSocket, FetchFails, CreateFails, TimerFires,
                  StopSession, RemoveAuth, ForgetLoggedOut, ShowQR
    <2>3. QED BY <2>1, <2>2, BudgetKept
  <1>5. QED BY <1>1, <1>2, <1>3, <1>4

LEMMA BudgetCommand ==
  ASSUME TypeOK, RetryBudget, NEW ch \in Channels,
         StartCommand(ch) \/ StopCommand(ch) \/ DeleteCommand(ch)
  PROVE  RetryBudget'
  <1>1. \A c \in Channels : GivingUp(c)' = GivingUp(c)
    BY StageNames, GivingUpKept DEF StartCommand, StopCommand, DeleteCommand
  <1>2. attempts' = attempts \/ attempts' = [attempts EXCEPT ![ch] = 0]
    BY DEF StartCommand, StopCommand, DeleteCommand, StopSession
  <1>3. QED BY <1>1, <1>2, BudgetKept

LEMMA BudgetReboot ==
  ASSUME TypeOK, Crash \/ Shutdown
  PROVE  RetryBudget'
  <1>1. TypeOK'
    BY TypeReboot
  <1>2. attempts' = [ch \in Channels |-> 0]
    BY DEF Crash, Shutdown, Reboot, Booted
  <1>3. \A c \in Channels : GivingUp(c)' \in Nat
    BY <1>1, StageNames DEF TypeOK, GivingUp
  <1>4. QED
    BY <1>2, <1>3, RetryAssumption DEF RetryBudget, GivingUp

LEMMA BudgetHandle ==
  ASSUME TypeOK, RetryBudget, HandleUpdate
  PROVE  RetryBudget'
  <1>1. inflight # <<>>
    BY DEF HandleUpdate, HandleQR, HandleOpen, HandleLost, HandleLoggedOut, Handle
  <1>0. Head(inflight) \in Pending
    BY <1>1, HeadTailProperties DEF TypeOK
  <1>2. Handled \in Channels
    BY <1>0 DEF TypeOK, Handled, Pending
  <1>3. \A c \in Channels : GivingUp(c)' = GivingUp(c)
    BY <1>2, StageNames, GivingUpKept DEF HandleUpdate, HandleQR, HandleOpen, HandleLost, HandleLoggedOut
  <1>4. attempts' = attempts \/ attempts' = [attempts EXCEPT ![Handled] = 0]
    BY DEF HandleUpdate, HandleQR, HandleOpen, HandleLost, HandleLoggedOut
  <1>5. QED BY <1>2, <1>3, <1>4, BudgetKept

(* No interleaving of closes, timers, commands and restarts arms a         *)
(* reconnection beyond MAX_RECONNECT_RETRIES (reconnectWithBackoff).       *)
THEOREM BudgetHolds == Spec => []RetryBudget
  <1>1. Init => RetryBudget
    <2> SUFFICES ASSUME Init PROVE RetryBudget
      OBVIOUS
    <2>1. \A c \in Channels : attempts[c] = 0 /\ flows[c]["giveUp"] \in Nat
      BY TypeInit, StageNames DEF Init, TypeOK
    <2>2. QED BY <2>1, RetryAssumption DEF RetryBudget
  <1>2. ASSUME TypeOK, RetryBudget, [Next]_vars PROVE RetryBudget'
    <2>1. CASE UNCHANGED vars
      BY <1>2, <2>1 DEF vars, RetryBudget
    <2>2. ASSUME NEW s \in Sockets,
                 \/ Register(s) \/ CredsUpdate(s) \/ SocketQR(s) \/ SocketOpens(s)
                 \/ \E reason \in CloseReasons : SocketCloses(s, reason)
          PROVE  RetryBudget'
      <3>1. CASE Shutdown
        BY <1>2, <3>1, BudgetReboot
      <3>2. CASE ~Shutdown
        BY <1>2, <2>2, <3>2
           DEF Register, CredsUpdate, SocketQR, SocketOpens, SocketCloses, RetryBudget
      <3>3. QED BY <3>1, <3>2
    <2>3. CASE Next
      BY <1>2, <2>2, <2>3, BudgetCommand, BudgetStep, BudgetHandle, BudgetReboot DEF Next
    <2>4. QED BY <1>2, <2>1, <2>3
  <1>3. QED BY <1>1, <1>2, TypeCorrect, PTL DEF Spec

(***************************************************************************)
(* The strengthening: the close of a socket is emitted when the socket     *)
(* ceases to be live and is pending at most once, so that the handler that *)
(* consumes it really takes the place of the socket.                       *)
(***************************************************************************)
CloseAt(i, s) == inflight[i].sock = s /\ inflight[i].update \in CloseReasons
Closing(s) == \E i \in DOMAIN inflight : CloseAt(i, s)
CloseOnce ==
  \A s \in Sockets : \A i \in DOMAIN inflight : CloseAt(i, s) =>
    /\ s \notin live
    /\ \A j \in DOMAIN inflight : CloseAt(j, s) => i = j

LEMMA UnheardIsClosing == \A s : Unheard(s) <=> Closing(s)
  BY DEF Unheard, EventsOf, Closing, CloseAt

LEMMA DomainOfQueue ==
  ASSUME TypeOK
  PROVE  DOMAIN inflight = 1..Len(inflight) /\ Len(inflight) \in Nat
  BY LenProperties DEF TypeOK

(* What Append and Tail do to the closes that are pending.                 *)
LEMMA AppendKeepsCloses ==
  ASSUME TypeOK, NEW e, inflight' = Append(inflight, e)
  PROVE  /\ DOMAIN inflight' = 1..(Len(inflight) + 1)
         /\ \A i \in DOMAIN inflight : inflight'[i] = inflight[i]
         /\ inflight'[Len(inflight) + 1] = e
  BY AppendProperties, DomainOfQueue DEF TypeOK

LEMMA TailKeepsCloses ==
  ASSUME TypeOK, inflight # <<>>, inflight' = Tail(inflight)
  PROVE  /\ Len(inflight) > 0
         /\ DOMAIN inflight' = 1..(Len(inflight) - 1)
         /\ \A i \in DOMAIN inflight' : inflight'[i] = inflight[i + 1]
         /\ Head(inflight) = inflight[1]
  BY HeadTailProperties, EmptySeq, DomainOfQueue DEF TypeOK

LEMMA OnceKept ==
  ASSUME TypeOK, CloseOnce, inflight' = inflight, live' \subseteq live
  PROVE  CloseOnce'
  BY DEF CloseOnce, CloseAt

LEMMA OnceEmit ==
  ASSUME TypeOK, CloseOnce, NEW s \in live, NEW update \in Updates, Emit(s, update),
         live' \subseteq live, update \in CloseReasons => s \notin live'
  PROVE  CloseOnce'
  <1>1. CASE inflight' = inflight
    BY <1>1, OnceKept
  <1>2. CASE inflight' = Append(inflight, [sock |-> s, update |-> update])
    <2>1. PICK last \in Nat : last = Len(inflight) + 1
      BY DomainOfQueue
    <2>2. /\ DOMAIN inflight' = 1..last
          /\ \A k \in DOMAIN inflight : inflight'[k] = inflight[k]
          /\ inflight'[last] = [sock |-> s, update |-> update]
          /\ DOMAIN inflight = 1..(last - 1)
      BY <1>2, <2>1, AppendKeepsCloses, DomainOfQueue
    <2>3. \A k \in DOMAIN inflight' : k = last \/ k \in DOMAIN inflight
      BY <2>2
    <2>4. \A k \in DOMAIN inflight, t \in Sockets : CloseAt(k, t)' <=> CloseAt(k, t)
      BY <2>2 DEF CloseAt
    <2>5. \A t \in Sockets : CloseAt(last, t)' => t = s /\ update \in CloseReasons
      BY <2>2 DEF CloseAt
    <2>6. s \in Sockets /\ \A k \in DOMAIN inflight : ~CloseAt(k, s)
      BY DEF CloseOnce, TypeOK
    <2>7. ASSUME NEW t \in Sockets, NEW i \in DOMAIN inflight', CloseAt(i, t)'
          PROVE  t \notin live' /\ \A j \in DOMAIN inflight' : CloseAt(j, t)' => i = j
      <3>1. CASE i = last
        <4>1. t = s /\ update \in CloseReasons
          BY <2>5, <2>7, <3>1
        <4>2. \A k \in DOMAIN inflight : ~CloseAt(k, t)'
          BY <2>4, <2>6, <4>1
        <4>3. QED BY <2>3, <3>1, <4>1, <4>2
      <3>2. CASE i \in DOMAIN inflight
        <4>1. CloseAt(i, t) /\ t # s
          BY <2>4, <2>6, <2>7, <3>2
        <4>2. t \notin live /\ \A j \in DOMAIN inflight : CloseAt(j, t) => i = j
          BY <4>1, <3>2 DEF CloseOnce
        <4>3. ~CloseAt(last, t)'
          BY <2>5, <4>1
        <4>4. QED BY <2>3, <2>4, <4>2, <4>3
      <3>3. QED BY <2>3, <3>1, <3>2
    <2>8. QED BY <2>7 DEF CloseOnce
  <1>3. QED BY <1>1, <1>2 DEF Emit

LEMMA OnceHandle ==
  ASSUME TypeOK, CloseOnce, inflight # <<>>, inflight' = Tail(inflight), live' = live
  PROVE  CloseOnce' /\ (\A t \in Sockets : Closing(t)' => Closing(t) /\ ~CloseAt(1, t))
  <1>1. /\ DOMAIN inflight' = 1..(Len(inflight) - 1)
        /\ \A i \in DOMAIN inflight' : inflight'[i] = inflight[i + 1]
        /\ DOMAIN inflight = 1..Len(inflight) /\ Len(inflight) \in Nat
        /\ Len(inflight) > 0
    BY TailKeepsCloses, DomainOfQueue
  <1>2. \A i \in DOMAIN inflight' : i \in Nat /\ i + 1 \in DOMAIN inflight /\ i + 1 # 1
    BY <1>1
  <1>3. \A t : \A i \in DOMAIN inflight' : CloseAt(i, t)' <=> CloseAt(i + 1, t)
    BY <1>1 DEF CloseAt
  <1>4. CloseOnce'
    BY <1>2, <1>3 DEF CloseOnce
  <1>5. 1 \in DOMAIN inflight
    BY <1>1
  <1>6. ASSUME NEW t \in Sockets, Closing(t)' PROVE Closing(t) /\ ~CloseAt(1, t)
    <2>1. PICK i \in DOMAIN inflight' : CloseAt(i, t)'
      BY <1>6 DEF Closing
    <2>2. i + 1 \in DOMAIN inflight /\ CloseAt(i + 1, t) /\ i + 1 # 1
      BY <2>1, <1>2, <1>3
    <2>3. QED BY <1>5, <2>2 DEF CloseOnce, Closing
  <1>7. QED BY <1>4, <1>6

(***************************************************************************)
(* CloseOnce is inductive.                                                 *)
(***************************************************************************)
LEMMA OnceOpen ==
  ASSUME TypeOK, CloseOnce, NEW ch \in Channels, OpenSocket(ch)
  PROVE  CloseOnce'
  <1>1. PICK s \in FreeSockets : live' = live \union {s} /\ inflight' = inflight
    BY DEF OpenSocket
  <1>2. \A i \in DOMAIN inflight : ~CloseAt(i, s)
    BY DEF FreeSockets, EventsOf, CloseAt
  <1>3. QED BY <1>1, <1>2 DEF CloseOnce, CloseAt

LEMMA OnceReboot ==
  ASSUME Crash \/ Shutdown
  PROVE  CloseOnce'
  <1>1. inflight' = <<>>
    BY DEF Crash, Shutdown, Reboot, Booted
  <1>2. DOMAIN inflight' = {}
    BY <1>1
  <1>3. QED BY <1>2 DEF CloseOnce

LEMMA OnceNext ==
  ASSUME TypeOK, CloseOnce, Next
  PROVE  CloseOnce'
  <1>1. ASSUME NEW ch \in Channels, OpenSocket(ch) PROVE CloseOnce'
    BY <1>1, OnceOpen
  <1>2. ASSUME NEW ch \in Channels, StartCommand(ch) \/ StopCommand(ch) \/ DeleteCommand(ch)
        PROVE  CloseOnce'
    BY <1>2, OnceKept DEF StartCommand, StopCommand, DeleteCommand, StopSession
  <1>3. ASSUME NEW ch \in Channels, Step(ch), ~OpenSocket(ch) PROVE CloseOnce'
    <2>1. inflight' = inflight /\ live' \subseteq live
      BY <1>3 DEF Step, LoadAuth, LoadFails, FetchFails, CreateFails, ArmTimer, Exhausted, GiveUp,
                  TimerFires, RemoveAuth, ForgetLoggedOut, ShowQR, StopSession, socketVars
    <2>2. QED BY <2>1, OnceKept
  <1>4. CASE Crash \/ Shutdown
    BY <1>4, OnceReboot
  <1>5. ASSUME NEW s \in Sockets, Register(s) \/ CredsUpdate(s), ~Shutdown PROVE CloseOnce'
    BY <1>5, OnceKept DEF Register, CredsUpdate, socketVars
  <1>6. ASSUME NEW s \in Sockets, SocketQR(s) \/ SocketOpens(s) PROVE CloseOnce'
    <2>1. s \in live
      BY <1>6 DEF SocketQR, SocketOpens, TypeOK
    <2>2. \E update \in {"qr", "open"} : Emit(s, update) /\ live' = live
      BY <1>6 DEF SocketQR, SocketOpens, socketVars
    <2>3. {"qr", "open"} \subseteq Updates \ CloseReasons
      BY DEF Updates, CloseReasons
    <2>4. QED BY <2>1, <2>2, <2>3, OnceEmit
  <1>7. ASSUME NEW s \in Sockets, NEW reason \in CloseReasons, SocketCloses(s, reason)
        PROVE  CloseOnce'
    <2>1. s \in live /\ Emit(s, reason) /\ live' = live \ {s} /\ reason \in Updates
      BY <1>7 DEF SocketCloses, Updates
    <2>2. QED BY <2>1, OnceEmit
  <1>8. CASE HandleUpdate
    BY <1>8, OnceHandle
       DEF HandleUpdate, HandleQR, HandleOpen, HandleLost, HandleLoggedOut, Handle, socketVars
  <1>9. QED BY <1>1, <1>2, <1>3, <1>4, <1>5, <1>6, <1>7, <1>8 DEF Next

(***************************************************************************)
(* Counting.  A channel has a token for each socket that is live or whose  *)
(* close, for either reason, has no handler yet, and one for each step of  *)
(* a createSession or a reconnection.  PaidFor says of a step that it adds *)
(* no more tokens than sessions are asked for.                             *)
(***************************************************************************)
Holding(ch) == {s \in Sockets : owner[s] = ch /\ (s \in live \/ Unheard(s))}
Tokens(ch) == Cardinality(Holding(ch)) + Reconnecting(ch)
TokensBounded == \A ch \in Channels : Tokens(ch) <= asked[ch]
PaidFor(ch) == Tokens(ch)' + asked[ch] <= Tokens(ch) + asked'[ch]
Underway == {"load", "fetch", "reconnect", "timer"}

CountsAreNatural ==
  \A ch \in Channels :
    /\ IsFiniteSet(Holding(ch)) /\ Cardinality(Holding(ch)) \in Nat
    /\ Reconnecting(ch) \in Nat /\ asked[ch] \in Nat

LEMMA CountTypes == TypeOK => CountsAreNatural
  <1> SUFFICES ASSUME TypeOK, NEW ch \in Channels
               PROVE  /\ IsFiniteSet(Holding(ch)) /\ Cardinality(Holding(ch)) \in Nat
                      /\ Reconnecting(ch) \in Nat /\ asked[ch] \in Nat
    BY DEF CountsAreNatural
  <1>1. Holding(ch) \in SUBSET Sockets
    BY DEF Holding
  <1>2. IsFiniteSet(Holding(ch)) /\ Cardinality(Holding(ch)) \in Nat
    BY <1>1, SocketAssumption, FS_Subset, FS_CardinalityType
  <1>3. Reconnecting(ch) \in Nat
    BY StageNames DEF TypeOK, Reconnecting
  <1>4. asked[ch] \in Nat
    BY DEF TypeOK
  <1>5. QED BY <1>2, <1>3, <1>4

(* No new socket is held: the pending reconnections may grow by what is    *)
(* asked for anew.                                                         *)
LEMMA CountKept ==
  ASSUME TypeOK, TypeOK', NEW ch \in Channels, Holding(ch)' \subseteq Holding(ch),
         Reconnecting(ch)' + asked[ch] <= Reconnecting(ch) + asked'[ch]
  PROVE  PaidFor(ch)
  <1>1. /\ IsFiniteSet(Holding(ch)) /\ Cardinality(Holding(ch)) \in Nat
        /\ Reconnecting(ch) \in Nat /\ asked[ch] \in Nat
    BY CountTypes DEF CountsAreNatural
  <1>0. CountsAreNatural'
    BY CountTypes, PTL
  <1>2. Cardinality(Holding(ch)') \in Nat /\ Reconnecting(ch)' \in Nat /\ asked'[ch] \in Nat
    BY <1>0 DEF CountsAreNatural
  <1>3. Cardinality(Holding(ch)') <= Cardinality(Holding(ch))
    BY <1>1, FS_Subset
  <1>4. QED BY <1>1, <1>2, <1>3 DEF PaidFor, Tokens

(* What Enter, Leave and Move do to the number of pending reconnections.   *)
Unit(cond) == IF cond THEN 1 ELSE 0

LEMMA EnterCount ==
  ASSUME TypeOK, NEW ch \in Channels, NEW a \in Stages, Enter(ch, a)
  PROVE  \A c \in Channels : Reconnecting(c)' = Reconnecting(c) + Unit(c = ch /\ a \in Underway)
  <1> SUFFICES ASSUME NEW c \in Channels
               PROVE  Reconnecting(c)' = Reconnecting(c) + Unit(c = ch /\ a \in Underway)
    OBVIOUS
  <1>1. \A b \in Stages : flows[c][b] \in Nat
    BY DEF TypeOK
  <1>2. \A b \in Stages : flows'[c][b] = flows[c][b] + Unit(c = ch /\ a = b)
    BY <1>1 DEF Enter, TypeOK, Unit
  <1>3. QED BY <1>1, <1>2, StageNames DEF Reconnecting, Underway, Unit

LEMMA LeaveCount ==
  ASSUME TypeOK, NEW ch \in Channels, NEW a \in Stages, Leave(ch, a)
  PROVE  \A c \in Channels : Reconnecting(c)' = Reconnecting(c) - Unit(c = ch /\ a \in Underway)
  <1> SUFFICES ASSUME NEW c \in Channels
               PROVE  Reconnecting(c)' = Reconnecting(c) - Unit(c = ch /\ a \in Underway)
    OBVIOUS
  <1>1. \A b \in Stages : flows[c][b] \in Nat
    BY DEF TypeOK
  <1>2. \A b \in Stages : flows'[c][b] = flows[c][b] - Unit(c = ch /\ a = b)
    BY <1>1 DEF Leave, TypeOK, Unit
  <1>3. QED BY <1>1, <1>2, StageNames DEF Reconnecting, Underway, Unit

LEMMA MoveCount ==
  ASSUME TypeOK, NEW ch \in Channels, NEW a \in Underway, NEW b \in Stages, a # b, Move(ch, a, b)
  PROVE  \A c \in Channels : Reconnecting(c)' = Reconnecting(c) - Unit(c = ch /\ b \notin Underway)
  <1> SUFFICES ASSUME NEW c \in Channels
               PROVE  Reconnecting(c)' = Reconnecting(c) - Unit(c = ch /\ b \notin Underway)
    OBVIOUS
  <1>1. \A d \in Stages : flows[c][d] \in Nat
    BY DEF TypeOK
  <1>2. a \in Stages
    BY StageNames DEF Underway
  <1>3. \A d \in Stages : flows'[c][d] = IF c = ch /\ d = a THEN flows[c][d] - 1
                                        ELSE flows[c][d] + Unit(c = ch /\ d = b)
    BY <1>1, <1>2 DEF Move, TypeOK, Unit
  <1>4. CASE c # ch
    BY <1>1, <1>3, <1>4, StageNames DEF Reconnecting, Unit
  <1>5. CASE c = ch /\ b \notin Underway
    BY <1>1, <1>3, <1>5, StageNames DEF Reconnecting, Underway, Unit
  <1>6. CASE c = ch /\ b \in Underway
    BY <1>1, <1>3, <1>6, StageNames DEF Reconnecting, Underway, Unit
  <1>7. QED BY <1>4, <1>5, <1>6

(***************************************************************************)
(* Each action but a restart pays for its tokens.                          *)
(***************************************************************************)

(* Steps that open no socket and leave the queue of updates alone.         *)
LEMMA CountQuiet ==
  ASSUME TypeOK, TypeOK', owner' = owner, live' \subseteq live, inflight' = inflight,
         NEW c \in Channels, Reconnecting(c)' + asked[c] <= Reconnecting(c) + asked'[c]
  PROVE  PaidFor(c)
  <1>1. Holding(c)' \subseteq Holding(c)
    BY DEF Holding, Unheard, EventsOf
  <1>2. QED BY <1>1, CountKept

LEMMA CountNaturals ==
  ASSUME TypeOK, NEW c \in Channels
  PROVE  Reconnecting(c) \in Nat /\ asked[c] \in Nat
  BY CountTypes DEF CountsAreNatural

LEMMA CountCommand ==
  ASSUME TypeOK, TypeOK', NEW ch \in Channels,
         StartCommand(ch) \/ StopCommand(ch) \/ DeleteCommand(ch)
  PROVE  \A c \in Channels : PaidFor(c)
  <1>1. owner' = owner /\ live' \subseteq live /\ inflight' = inflight
    BY DEF StartCommand, StopCommand, DeleteCommand, StopSession
  <1>2. \A c \in Channels : Reconnecting(c)' + asked[c] <= Reconnecting(c) + asked'[c]
    <2> SUFFICES ASSUME NEW c \in Channels
                 PROVE  Reconnecting(c)' + asked[c] <= Reconnecting(c) + asked'[c]
      OBVIOUS
    <2>1. Reconnecting(c) \in Nat /\ asked[c] \in Nat
      BY CountNaturals
    <2>2. CASE StartCommand(ch)
      <3>1. Reconnecting(c)' = Reconnecting(c) + Unit(c = ch)
        BY <2>2, EnterCount, StageNames DEF StartCommand, Underway
      <3>2. asked'[c] = asked[c] + Unit(c = ch)
        BY <2>1, <2>2 DEF StartCommand, TypeOK, Unit
      <3>3. QED BY <2>1, <3>1, <3>2 DEF Unit
    <2>3. CASE StopCommand(ch)
      BY <2>1, <2>3 DEF StopCommand, Reconnecting
    <2>4. CASE DeleteCommand(ch)
      <3>1. Reconnecting(c)' = Reconnecting(c)
        BY <2>1, <2>4, EnterCount, StageNames DEF DeleteCommand, Underway, Unit
      <3>2. QED BY <2>1, <2>4, <3>1 DEF DeleteCommand
    <2>5. QED BY <2>2, <2>3, <2>4
  <1>3. QED BY <1>1, <1>2, CountQuiet

(* The socket replaces the createSession that opened it.                   *)
LEMMA CountOpen ==
  ASSUME TypeOK, TypeOK', NEW ch \in Channels, OpenSocket(ch)
  PROVE  \A c \in Channels : PaidFor(c)
  <1>1. PICK s \in FreeSockets :
          /\ Leave(ch, "fetch") /\ inflight' = inflight /\ asked' = asked
          /\ owner' = [owner EXCEPT ![s] = ch] /\ live' = live \union {s}
    BY DEF OpenSocket
  <1>2. s \in Sockets /\ s \notin live /\ ~Unheard(s)
    BY DEF FreeSockets, Unheard
  <1>3. flows[ch]["fetch"] > 0
    BY <1>1 DEF Leave
  <1>4. \A c \in Channels : Reconnecting(c)' = Reconnecting(c) - Unit(c = ch)
    BY <1>1, LeaveCount, StageNames DEF Underway
  <1>5. \A t \in Sockets : Unheard(t)' <=> Unheard(t)
    BY <1>1 DEF Unheard, EventsOf
  <1>6. \A t \in Sockets : t # s => owner'[t] = owner[t]
    BY <1>1, <1>2 DEF TypeOK
  <1>7. owner'[s] = ch
    BY <1>1, <1>2 DEF TypeOK
  <1>8. ASSUME NEW c \in Channels PROVE PaidFor(c)
    <2>1. /\ Reconnecting(c) \in Nat /\ asked[c] \in Nat
          /\ IsFiniteSet(Holding(c)) /\ Cardinality(Holding(c)) \in Nat
      BY CountTypes DEF CountsAreNatural
    <2>2. CASE c # ch
      <3>1. Holding(c)' \subseteq Holding(c)
        BY <1>1, <1>5, <1>6, <1>7, <2>2 DEF Holding
      <3>2. Reconnecting(c)' + asked[c] <= Reconnecting(c) + asked'[c]
        BY <1>1, <1>4, <2>1, <2>2 DEF Unit
      <3>3. QED BY <3>1, <3>2, CountKept
    <2>3. CASE c = ch
      <3>1. Holding(c)' \subseteq Holding(c) \union {s}
        BY <1>1, <1>5, <1>6, <1>7 DEF Holding
      <3>2. /\ IsFiniteSet(Holding(c) \union {s})
            /\ Cardinality(Holding(c) \union {s}) \in Nat
            /\ Cardinality(Holding(c) \union {s}) <= Cardinality(Holding(c)) + 1
        <4>1. IsFiniteSet(Holding(c) \union {s})
          BY <2>1, FS_AddElement
        <4>2. Cardinality(Holding(c) \union {s}) \in Nat
          BY <4>1, FS_CardinalityType
        <4>3. Cardinality(Holding(c) \union {s}) =
                IF s \in Holding(c) THEN Cardinality(Holding(c)) ELSE Cardinality(Holding(c)) + 1
          BY <2>1, FS_AddElement
        <4>4. QED BY <2>1, <4>1, <4>2, <4>3
      <3>3. /\ Cardinality(Holding(c)') \in Nat
            /\ Cardinality(Holding(c)') <= Cardinality(Holding(c) \union {s})
        BY <3>1, <3>2, FS_Subset, FS_CardinalityType
      <3>4. Reconnecting(c)' = Reconnecting(c) - 1
        BY <1>4, <2>3 DEF Unit
      <3>5. QED BY <1>1, <2>1, <3>2, <3>3, <3>4 DEF PaidFor, Tokens
    <2>4. QED BY <2>2, <2>3
  <1>9. QED BY <1>8

LEMMA CountStep ==
  ASSUME TypeOK, TypeOK', NEW ch \in Channels, Step(ch)
  PROVE  \A c \in Channels : PaidFor(c)
  <1>1. CASE OpenSocket(ch)
    BY <1>1, CountOpen
  <1>2. CASE ~OpenSocket(ch)
    <2>1. owner' = owner /\ live' \subseteq live /\ inflight' = inflight /\ asked' = asked
      BY <1>2 DEF Step, LoadAuth, LoadFails, FetchFails, CreateFails, ArmTimer, Exhausted, GiveUp,
                  TimerFires, RemoveAuth, ForgetLoggedOut, ShowQR, StopSession, socketVars
    <2>2. \E a, b \in Stages :
            \/ Leave(ch, a)
            \/ a \in Underway /\ a # b /\ Move(ch, a, b)
      BY <1>2, StageNames
         DEF Step, LoadAuth, LoadFails, FetchFails, ArmTimer, Exhausted, GiveUp, TimerFires,
             RemoveAuth, ForgetLoggedOut, ShowQR, Underway
    <2>3. \A c \in Channels : Reconnecting(c) \in Nat /\ asked[c] \in Nat
      BY CountNaturals
    <2>4. \A c \in Channels : Reconnecting(c)' = Reconnecting(c) \/ Reconnecting(c)' = Reconnecting(c) - 1
      BY <2>2, <2>3, LeaveCount, MoveCount DEF Unit
    <2>5. \A c \in Channels : Reconnecting(c)' + asked[c] <= Reconnecting(c) + asked'[c]
      BY <2>1, <2>3, <2>4
    <2>6. QED BY <2>1, <2>5, CountQuiet
  <1>3. QED BY <1>1, <1>2

LEMMA CountSocket ==
  ASSUME TypeOK, TypeOK', NEW s \in Sockets, ~Shutdown,
         \/ Register(s) \/ CredsUpdate(s) \/ SocketQR(s) \/ SocketOpens(s)
         \/ \E reason \in CloseReasons : SocketCloses(s, reason)
  PROVE  \A c \in Channels : PaidFor(c)
  <1>1. owner' = owner /\ flows' = flows /\ asked' = asked /\ live' \subseteq live
    BY DEF Register, CredsUpdate, SocketQR, SocketOpens, SocketCloses, socketVars
  <1>2. \A c \in Channels : Reconnecting(c) \in Nat /\ asked[c] \in Nat
    BY CountNaturals
  <1>3. \A c \in Channels : Reconnecting(c)' + asked[c] <= Reconnecting(c) + asked'[c]
    BY <1>1, <1>2 DEF Reconnecting
  <1>4. CASE inflight' = inflight
    BY <1>1, <1>3, <1>4, CountQuiet
  <1>5. CASE inflight' # inflight
    <2>1. PICK update \in Updates : Emit(s, update) /\ s \in live /\ (update \in CloseReasons => s \notin live')
      BY <1>5 DEF Register, CredsUpdate, SocketQR, SocketOpens, SocketCloses, Updates, CloseReasons, TypeOK
    <2>2. inflight' = Append(inflight, [sock |-> s, update |-> update])
      BY <1>5, <2>1 DEF Emit
    <2>3. PICK last \in Nat : last = Len(inflight) + 1
      BY DomainOfQueue
    <2>4. /\ DOMAIN inflight' = 1..last
          /\ \A k \in DOMAIN inflight : inflight'[k] = inflight[k]
          /\ inflight'[last] = [sock |-> s, update |-> update]
          /\ DOMAIN inflight = 1..(last - 1)
      BY <2>2, <2>3, AppendKeepsCloses, DomainOfQueue
    <2>5. \A t \in Sockets : Closing(t)' => Closing(t) \/ t = s
      BY <2>4 DEF Closing, CloseAt
    <2>6. \A t \in Sockets : Unheard(t)' => Unheard(t) \/ t = s
      <3>1. \A t : Unheard(t)' <=> Closing(t)'
        BY DEF Unheard, EventsOf, Closing, CloseAt
      <3>2. QED BY <2>5, <3>1, UnheardIsClosing
    <2>7. \A c \in Channels : Holding(c)' \subseteq Holding(c)
      BY <1>1, <2>1, <2>6 DEF Holding
    <2>8. QED BY <1>3, <2>7, CountKept
  <1>6. QED BY <1>4, <1>5

(* The close handler takes the place of the socket whose close it consumes.*)
LEMMA CountHandle ==
  ASSUME TypeOK, TypeOK', CloseOnce, HandleUpdate
  PROVE  \A c \in Channels : PaidFor(c)
  <1>1. /\ inflight # <<>> /\ inflight' = Tail(inflight)
        /\ owner' = owner /\ live' = live /\ asked' = asked
    BY DEF HandleUpdate, HandleQR, HandleOpen, HandleLost, HandleLoggedOut, Handle, socketVars
  <1>2. \A t \in Sockets : Closing(t)' => Closing(t) /\ ~CloseAt(1, t)
    BY <1>1, OnceHandle
  <1>3. \A t : Unheard(t)' <=> Closing(t)'
    BY DEF Unheard, EventsOf, Closing, CloseAt
  <1>4. \A c \in Channels : Holding(c)' \subseteq Holding(c)
    BY <1>1, <1>2, <1>3, UnheardIsClosing DEF Holding
  <1>5. /\ Head(inflight) = inflight[1] /\ 1 \in DOMAIN inflight
        /\ Head(inflight) \in Pending
    BY <1>1, TailKeepsCloses, DomainOfQueue, HeadTailProperties DEF TypeOK
  <1>6. Head(inflight).sock \in Sockets /\ Handled \in Channels
    BY <1>5 DEF Pending, Handled, TypeOK
  <1>7. \A c \in Channels : Reconnecting(c) \in Nat /\ asked[c] \in Nat
    BY CountNaturals
  <1>8. CASE HandleLost
    <2>1. \A c \in Channels : Reconnecting(c)' = Reconnecting(c) + Unit(c = Handled)
      BY <1>6, <1>8, EnterCount, StageNames DEF HandleLost, Underway
    <2>2. CloseAt(1, Head(inflight).sock)
      BY <1>5, <1>8 DEF HandleLost, Handle, CloseAt, CloseReasons
    <2>3. PICK s \in Sockets : CloseAt(1, s) /\ owner[s] = Handled
      BY <1>6, <2>2 DEF Handled
    <2>4. s \notin live /\ Closing(s) /\ ~Closing(s)'
      BY <1>2, <1>5, <2>3 DEF CloseOnce, Closing
    <2>5. ASSUME NEW c \in Channels PROVE PaidFor(c)
      <3>1. CASE c # Handled
        <4>1. Reconnecting(c)' + asked[c] <= Reconnecting(c) + asked'[c]
          BY <1>1, <1>7, <2>1, <3>1 DEF Unit
        <4>2. QED BY <1>4, <4>1, CountKept
      <3>2. CASE c = Handled
        <4>1. s \in Holding(c) /\ Holding(c)' \subseteq Holding(c) \ {s}
          BY <1>1, <1>3, <1>4, <2>3, <2>4, <3>2, UnheardIsClosing DEF Holding
        <4>2. IsFiniteSet(Holding(c)) /\ Cardinality(Holding(c)) \in Nat
          BY CountTypes DEF CountsAreNatural
        <4>3. /\ IsFiniteSet(Holding(c) \ {s})
              /\ Cardinality(Holding(c) \ {s}) = Cardinality(Holding(c)) - 1
          BY <4>1, <4>2, FS_RemoveElement
        <4>4. /\ IsFiniteSet(Holding(c)')
              /\ Cardinality(Holding(c)') <= Cardinality(Holding(c) \ {s})
          BY <4>1, <4>3, FS_Subset
        <4>5. Cardinality(Holding(c)') \in Nat
          BY <4>4, FS_CardinalityType
        <4>6. Reconnecting(c)' = Reconnecting(c) + 1
          BY <2>1, <3>2 DEF Unit
        <4>7. QED BY <1>1, <1>7, <4>2, <4>3, <4>4, <4>5, <4>6 DEF PaidFor, Tokens
      <3>3. QED BY <3>1, <3>2
    <2>6. QED BY <2>5
  <1>9. CASE ~HandleLost
    <2>1. \A c \in Channels : Reconnecting(c)' = Reconnecting(c)
      <3>1. CASE HandleOpen
        BY <3>1 DEF HandleOpen, Reconnecting
      <3>2. CASE HandleQR \/ HandleLoggedOut
        BY <1>6, <1>7, <3>2, EnterCount, StageNames DEF HandleQR, HandleLoggedOut, Underway, Unit
      <3>3. QED BY <1>9, <3>1, <3>2 DEF HandleUpdate
    <2>2. QED BY <1>1, <1>4, <1>7, <2>1, CountKept
  <1>10. QED BY <1>8, <1>9

(* After a boot the only pending sessions are the restored ones.           *)
LEMMA CountBoot ==
  ASSUME NEW r, live = {}, inflight = <<>>, asked = One(r), flows = FlowsAtBoot(r)
  PROVE  TokensBounded
  <1> SUFFICES ASSUME NEW c \in Channels
               PROVE  Cardinality(Holding(c)) + Reconnecting(c) <= asked[c]
    BY DEF TokensBounded, Tokens
  <1>1. Holding(c) = {}
    BY DEF Holding, Unheard, EventsOf
  <1>2. Cardinality(Holding(c)) = 0
    BY <1>1, FS_EmptySet
  <1>3. One(r)[c] \in Nat
    BY DEF One
  <1>4. Reconnecting(c) = One(r)[c]
    BY <1>3, StageNames DEF Reconnecting, FlowsAtBoot, NoFlows
  <1>5. QED BY <1>2, <1>3, <1>4

LEMMA CountReboot ==
  ASSUME Crash \/ Shutdown
  PROVE  TokensBounded'
  <1>1. PICK r : /\ live' = {} /\ inflight' = <<>> /\ asked' = One(r) /\ flows' = FlowsAtBoot(r)
    BY DEF Crash, Shutdown, Reboot, Booted
  <1> SUFFICES ASSUME NEW c \in Channels
               PROVE  Cardinality(Holding(c)') + Reconnecting(c)' <= asked'[c]
    BY DEF TokensBounded, Tokens
  <1>2. Holding(c)' = {}
    BY <1>1 DEF Holding, Unheard, EventsOf
  <1>3. Cardinality(Holding(c)') = 0
    BY <1>2, FS_EmptySet
  <1>4. One(r)[c] \in Nat
    BY DEF One
  <1>5. Reconnecting(c)' = One(r)[c]
    BY <1>1, <1>4, StageNames DEF Reconnecting, FlowsAtBoot, NoFlows
  <1>6. QED BY <1>1, <1>3, <1>4, <1>5

LEMMA CountNext ==
  ASSUME TypeOK, TypeOK', CloseOnce, [Next]_vars
  PROVE  Crash \/ Shutdown \/ \A c \in Channels : PaidFor(c)
  <1>1. CASE UNCHANGED vars
    <2>1. \A c \in Channels : Tokens(c)' = Tokens(c) /\ asked'[c] = asked[c]
      BY <1>1 DEF vars, socketVars, Tokens, Holding, Unheard, EventsOf, Reconnecting
    <2>2. \A c \in Channels : Tokens(c) \in Nat /\ asked[c] \in Nat
      BY CountTypes DEF CountsAreNatural, Tokens
    <2>3. QED BY <2>1, <2>2 DEF PaidFor
  <1>2. CASE Next
    BY <1>2, CountCommand, CountStep, CountSocket, CountHandle DEF Next
  <1>3. QED BY <1>1, <1>2

LEMMA TokensNext ==
  ASSUME TypeOK, TypeOK', CloseOnce, TokensBounded, [Next]_vars
  PROVE  TokensBounded'
  <1>1. CASE Crash \/ Shutdown
    BY <1>1, CountReboot
  <1>2. CASE \A c \in Channels : PaidFor(c)
    <2>1. CountsAreNatural /\ CountsAreNatural'
      BY CountTypes, PTL
    <2>2. ASSUME NEW c \in Channels PROVE (Tokens(c) <= asked[c])'
      <3>1. Tokens(c) \in Nat /\ asked[c] \in Nat /\ Tokens(c)' \in Nat /\ asked'[c] \in Nat
        BY <2>1 DEF CountsAreNatural, Tokens
      <3>2. QED BY <1>2, <3>1 DEF PaidFor, TokensBounded
    <2>3. QED BY <2>2 DEF TokensBounded
  <1>3. QED BY <1>1, <1>2, CountNext

Bounded == TypeOK /\ CloseOnce /\ TokensBounded

(* The induction all theorems of this module rest on.                      *)
LEMMA AlwaysBounded == Spec => []Bounded
  <1>1. Init => CloseOnce /\ TokensBounded
    <2> SUFFICES ASSUME Init PROVE CloseOnce /\ TokensBounded
      OBVIOUS
    <2>1. CloseOnce
      BY DEF Init, CloseOnce
    <2>2. TokensBounded
      BY CountBoot DEF Init
    <2>3. QED BY <2>1, <2>2
  <1>2. ASSUME TypeOK, TypeOK', CloseOnce, TokensBounded, [Next]_vars
        PROVE  CloseOnce' /\ TokensBounded'
    <2>1. CASE UNCHANGED vars
      BY <1>2, <2>1, TokensNext DEF vars, socketVars, CloseOnce, CloseAt
    <2>2. CASE Next
      BY <1>2, <2>2, OnceNext, TokensNext
    <2>3. QED BY <1>2, <2>1, <2>2
  <1>3. QED BY <1>1, <1>2, TypeCorrect, PTL DEF Spec, Bounded

(* Closes, timers, commands and restarts may interleave in any way: the    *)
(* reconnections of a channel never outnumber the sessions asked for.      *)
THEOREM ReconnectionsAreBounded == Spec => []ReconnectNeverMultiplies
  <1>1. Bounded => ReconnectNeverMultiplies
    <2> SUFFICES ASSUME Bounded, NEW ch \in Channels
                 PROVE  Cardinality(Sustaining(ch)) + Reconnecting(ch) <= asked[ch]
      BY DEF ReconnectNeverMultiplies
    <2>1. /\ IsFiniteSet(Holding(ch)) /\ Cardinality(Holding(ch)) \in Nat
          /\ Reconnecting(ch) \in Nat /\ asked[ch] \in Nat
      BY CountTypes DEF Bounded, CountsAreNatural
    <2>2. Sustaining(ch) \subseteq Holding(ch)
      BY DEF Sustaining, ClosePending, Holding, Unheard, CloseReasons
    <2>3. /\ IsFiniteSet(Sustaining(ch)) /\ Cardinality(Sustaining(ch)) \in Nat
          /\ Cardinality(Sustaining(ch)) <= Cardinality(Holding(ch))
      BY <2>1, <2>2, FS_Subset, FS_CardinalityType
    <2>4. Cardinality(Holding(ch)) + Reconnecting(ch) <= asked[ch]
      BY DEF Bounded, TokensBounded, Tokens
    <2>5. QED BY <2>1, <2>3, <2>4
  <1>2. QED BY <1>1, AlwaysBounded, PTL

(***************************************************************************)
(* A channel asked for once has one token, at one place.                   *)
(***************************************************************************)
LEMMA OneToken ==
  ASSUME Bounded, NEW ch \in Channels, asked[ch] <= 1
  PROVE  /\ \A s, t \in Holding(ch) : s = t
         /\ Reconnecting(ch) > 0 => Holding(ch) = {} /\ Reconnecting(ch) = 1
         /\ Holding(ch) # {} => asked[ch] = 1
         /\ Reconnecting(ch) > 0 => asked[ch] = 1
  <1>1. /\ IsFiniteSet(Holding(ch)) /\ Cardinality(Holding(ch)) \in Nat
        /\ Reconnecting(ch) \in Nat /\ asked[ch] \in Nat
    BY CountTypes DEF Bounded, CountsAreNatural
  <1>2. Cardinality(Holding(ch)) + Reconnecting(ch) <= asked[ch]
    BY DEF Bounded, TokensBounded, Tokens
  <1>3. Cardinality(Holding(ch)) = 0 <=> Holding(ch) = {}
    BY <1>1, FS_EmptySet
  <1>4. ASSUME NEW s \in Holding(ch), NEW t \in Holding(ch) PROVE s = t
    <2>1. Cardinality(Holding(ch)) = 1
      BY <1>1, <1>2, <1>3, <1>4
    <2>2. /\ IsFiniteSet(Holding(ch) \ {s})
          /\ Cardinality(Holding(ch) \ {s}) = Cardinality(Holding(ch)) - 1
      BY <1>1, FS_RemoveElement
    <2>3. Cardinality(Holding(ch) \ {s}) = 0
      BY <2>1, <2>2
    <2>4. Holding(ch) \ {s} = {}
      BY <2>2, <2>3, FS_EmptySet
    <2>5. QED BY <2>4
  <1>5. QED BY <1>1, <1>2, <1>3, <1>4

LEMMA LiveIsHeld == \A s \in Sockets : s \in live => s \in Holding(owner[s])
  BY DEF Holding

(* A socket that is live and out of the map cannot be left behind: it      *)
(* would hold a token beside the one that a step has just taken.           *)
LEMMA OrphanQuiet ==
  ASSUME TypeOK, NoOrphanSession, NEW ch \in Channels,
         owner' = owner, live' \subseteq live,
         asked'[ch] = asked[ch], sessions'[ch] = sessions[ch]
  PROVE  asked'[ch] <= 1 => \A s \in live' : owner'[s] = ch => sessions'[ch] = s
  BY DEF NoOrphanSession

LEMMA OrphanStop ==
  ASSUME TypeOK, NoOrphanSession, NEW ch \in Channels, StopSession(ch), owner' = owner, asked' = asked
  PROVE  NoOrphanSession'
  <1>1. CASE sessions[ch] = NoSocket
    BY <1>1 DEF StopSession, NoOrphanSession
  <1>2. CASE sessions[ch] # NoSocket
    <2>1. /\ live' = live \ {sessions[ch]}
          /\ \A c \in Channels : c # ch => sessions'[c] = sessions[c]
      BY <1>2 DEF StopSession, TypeOK
    <2>2. ASSUME NEW c \in Channels, asked'[c] <= 1, NEW s \in live', owner'[s] = c
          PROVE  sessions'[c] = s
      <3>1. s \in live /\ s # sessions[ch] /\ sessions[c] = s
        BY <2>1, <2>2 DEF NoOrphanSession
      <3>2. QED BY <2>1, <3>1
    <2>3. QED BY <2>2 DEF NoOrphanSession
  <1>3. QED BY <1>1, <1>2

LEMMA OrphanCommand ==
  ASSUME Bounded, NoOrphanSession, NEW ch \in Channels,
         StartCommand(ch) \/ StopCommand(ch) \/ DeleteCommand(ch)
  PROVE  NoOrphanSession'
  <1>1. TypeOK
    BY DEF Bounded
  <1>2. CASE StopCommand(ch) \/ DeleteCommand(ch)
    BY <1>1, <1>2, OrphanStop DEF StopCommand, DeleteCommand
  <1>3. CASE StartCommand(ch)
    <2>1. /\ owner' = owner /\ live' \subseteq live
          /\ asked' = [asked EXCEPT ![ch] = @ + 1]
          /\ \A c \in Channels : c # ch => sessions'[c] = sessions[c]
      BY <1>1, <1>3 DEF StartCommand, StopSession, TypeOK
    <2>2. ASSUME NEW c \in Channels, asked'[c] <= 1, NEW s \in live', owner'[s] = c
          PROVE  sessions'[c] = s
      <3>1. CASE c # ch
        BY <1>1, <2>1, <2>2, <3>1 DEF NoOrphanSession, TypeOK
      <3>2. CASE c = ch
        <4>1. asked[ch] \in Nat /\ asked'[ch] = asked[ch] + 1
          BY <1>1, <2>1 DEF TypeOK
        <4>2. asked[ch] = 0
          BY <2>2, <3>2, <4>1
        <4>3. s \in Holding(ch)
          BY <1>1, <2>1, <2>2, <3>2, LiveIsHeld DEF TypeOK
        <4>4. QED BY <4>2, <4>3, OneToken
      <3>3. QED BY <3>1, <3>2
    <2>3. QED BY <2>2 DEF NoOrphanSession
  <1>4. QED BY <1>2, <1>3

LEMMA OrphanStep ==
  ASSUME Bounded, NoOrphanSession, NEW ch \in Channels, Step(ch)
  PROVE  NoOrphanSession'
  <1>1. TypeOK
    BY DEF Bounded
  <1>2. CASE OpenSocket(ch)
    <2>1. PICK s \in FreeSockets :
            /\ Leave(ch, "fetch") /\ asked' = asked /\ owner' = [owner EXCEPT ![s] = ch]
            /\ live' = live \union {s} /\ sessions' = [sessions EXCEPT ![ch] = s]
      BY <1>2 DEF OpenSocket
    <2>2. s \in Sockets /\ s \notin live
      BY DEF FreeSockets
    <2>3. Reconnecting(ch) > 0
      BY <1>1, <2>1, StageNames DEF Leave, Reconnecting, TypeOK
    <2>4. ASSUME NEW c \in Channels, asked'[c] <= 1, NEW t \in live', owner'[t] = c
          PROVE  sessions'[c] = t
      <3>1. CASE t = s
        BY <1>1, <2>1, <2>2, <2>4, <3>1 DEF TypeOK
      <3>2. CASE t # s
        <4>1. t \in live /\ owner[t] = c
          BY <1>1, <2>1, <2>2, <2>4, <3>2 DEF TypeOK
        <4>2. t \in Holding(c)
          BY <1>1, <4>1, LiveIsHeld DEF TypeOK
        <4>3. c # ch
          BY <2>1, <2>3, <2>4, <4>2, OneToken
        <4>4. QED BY <1>1, <2>1, <2>4, <4>1, <4>3 DEF NoOrphanSession, TypeOK
      <3>3. QED BY <3>1, <3>2
    <2>5. QED BY <2>4 DEF NoOrphanSession
  <1>3. CASE TimerFires(ch)
    BY <1>1, <1>3, OrphanStop DEF TimerFires
  <1>4. CASE ~ OpenSocket(ch) /\ ~ TimerFires(ch)
    <2>1. owner' = owner /\ live' = live /\ asked' = asked /\ sessions' = sessions
      BY <1>4 DEF Step, LoadAuth, LoadFails, FetchFails, CreateFails, ArmTimer, Exhausted, GiveUp,
                  RemoveAuth, ForgetLoggedOut, ShowQR, socketVars
    <2>2. QED BY <2>1 DEF NoOrphanSession
  <1>5. QED BY <1>2, <1>3, <1>4

(* The close that is handled is that of the channel's only socket.         *)
LEMMA OrphanHandle ==
  ASSUME Bounded, NoOrphanSession, HandleUpdate
  PROVE  NoOrphanSession'
  <1>1. TypeOK /\ CloseOnce
    BY DEF Bounded
  <1>2. /\ inflight # <<>> /\ owner' = owner /\ live' = live /\ asked' = asked
    BY DEF HandleUpdate, HandleQR, HandleOpen, HandleLost, HandleLoggedOut, Handle, socketVars
  <1>3. CASE HandleQR \/ HandleOpen
    BY <1>2, <1>3 DEF HandleQR, HandleOpen, NoOrphanSession
  <1>4. CASE HandleLost \/ HandleLoggedOut
    <2>1. /\ Head(inflight) = inflight[1] /\ 1 \in DOMAIN inflight
          /\ Head(inflight) \in Pending
      BY <1>1, <1>2, TailKeepsCloses, DomainOfQueue, HeadTailProperties DEF TypeOK
    <2>2. PICK t \in Sockets : CloseAt(1, t) /\ owner[t] = Handled
      BY <1>4, <2>1 DEF HandleLost, HandleLoggedOut, Handle, CloseAt, CloseReasons, Pending, Handled
    <2>3. t \notin live /\ t \in Holding(Handled) /\ Handled \in Channels
      BY <1>1, <2>1, <2>2, UnheardIsClosing DEF CloseOnce, Closing, Holding, TypeOK
    <2>4. sessions' = [sessions EXCEPT ![Handled] = NoSocket]
      BY <1>4 DEF HandleLost, HandleLoggedOut
    <2>5. ASSUME NEW c \in Channels, asked'[c] <= 1, NEW s \in live', owner'[s] = c
          PROVE  sessions'[c] = s
      <3>1. s \in Holding(c) /\ s # t
        BY <1>1, <1>2, <2>3, <2>5, LiveIsHeld DEF TypeOK
      <3>2. c # Handled
        BY <1>2, <2>3, <2>5, <3>1, OneToken
      <3>3. QED BY <1>1, <1>2, <2>4, <2>5, <3>2 DEF NoOrphanSession, TypeOK
    <2>6. QED BY <2>5 DEF NoOrphanSession
  <1>5. QED BY <1>3, <1>4 DEF HandleUpdate

(* However commands, closes and timers interleave, a channel asked for     *)
(* once has no live socket that the sessions map does not show.            *)
THEOREM NoOrphanEver == Spec => []NoOrphanSession
  <1>1. Init => NoOrphanSession
    BY DEF Init, NoOrphanSession
  <1>2. ASSUME Bounded, NoOrphanSession, [Next]_vars PROVE NoOrphanSession'
    <2>1. CASE UNCHANGED vars
      BY <1>2, <2>1 DEF vars, socketVars, NoOrphanSession
    <2>2. CASE Crash \/ Shutdown
      <3>1. live' = {}
        BY <2>2 DEF Crash, Shutdown, Reboot, Booted
      <3>2. QED BY <3>1 DEF NoOrphanSession
    <2>3. ASSUME NEW s \in Sockets, ~ Shutdown,
                 \/ Register(s) \/ CredsUpdate(s) \/ SocketQR(s) \/ SocketOpens(s)
                 \/ \E reason \in CloseReasons : SocketCloses(s, reason)
          PROVE  NoOrphanSession'
      <3>1. owner' = owner /\ live' \subseteq live /\ asked' = asked /\ sessions' = sessions
        BY <2>3 DEF Register, CredsUpdate, SocketQR, SocketOpens, SocketCloses, socketVars
      <3>2. QED BY <1>2, <3>1 DEF NoOrphanSession
    <2>4. QED BY <1>2, <2>1, <2>2, <2>3, OrphanCommand, OrphanStep, OrphanHandle DEF Next
  <1>3. QED BY <1>1, <1>2, AlwaysBounded, PTL DEF Spec

(***************************************************************************)
(* 'failed' ends a reconnection: the step that publishes it gives away the *)
(* token of its channel, and only a command or a boot makes a new one.     *)
(***************************************************************************)
Failed(ch) == status[ch] = "failed" /\ restarts = 0
FailedSpent ==
  \A ch \in Channels : Failed(ch) =>
    /\ asked[ch] >= 1
    /\ asked[ch] <= 1 => Tokens(ch) = 0

(* Who publishes 'failed'.                                                 *)
LEMMA FailedBy ==
  ASSUME TypeOK, [Next]_vars, ~ Crash, ~ Shutdown, NEW ch \in Channels
  PROVE  /\ restarts' = restarts /\ asked'[ch] >= asked[ch]
         /\ status'[ch] = "failed" => status[ch] = "failed" \/ Exhausted(ch)
  <1>0. asked[ch] \in Nat
    BY DEF TypeOK
  <1>1. CASE UNCHANGED vars
    BY <1>0, <1>1 DEF vars, statusVars, boundVars
  <1>2. ASSUME NEW c \in Channels, StartCommand(c) \/ StopCommand(c) \/ DeleteCommand(c)
        PROVE  /\ restarts' = restarts /\ asked'[ch] >= asked[ch]
               /\ status'[ch] = "failed" => status[ch] = "failed"
    <2>1. restarts' = restarts /\ asked'[ch] >= asked[ch]
      BY <1>0, <1>2 DEF StartCommand, StopCommand, DeleteCommand, TypeOK
    <2>2. status'[ch] = "failed" => status[ch] = "failed"
      BY <1>2 DEF StartCommand, StopCommand, DeleteCommand, StopSession, Says, statusVars, TypeOK
    <2>3. QED BY <2>1, <2>2
  <1>3. ASSUME NEW c \in Channels, Step(c)
        PROVE  /\ restarts' = restarts /\ asked' = asked
               /\ status'[ch] = "failed" => status[ch] = "failed" \/ Exhausted(ch)
    <2>1. restarts' = restarts /\ asked' = asked
      BY <1>3 DEF Step, LoadAuth, LoadFails, OpenSocket, FetchFails, CreateFails, ArmTimer, Exhausted,
                  GiveUp, TimerFires, RemoveAuth, ForgetLoggedOut, ShowQR, boundVars
    <2>2. CASE Exhausted(c)
      <3>1. status' = status \/ status' = [status EXCEPT ![c] = "failed"]
        BY <2>2 DEF Exhausted, Says
      <3>2. QED BY <2>1, <2>2, <3>1 DEF TypeOK
    <2>3. CASE ~ Exhausted(c)
      <3>1. status'[ch] = "failed" => status[ch] = "failed"
        BY <1>3, <2>3 DEF Step, LoadAuth, LoadFails, OpenSocket, FetchFails, CreateFails, ArmTimer,
                          GiveUp, TimerFires, StopSession, RemoveAuth, ForgetLoggedOut, ShowQR, Says,
                          statusVars, TypeOK
      <3>2. QED BY <2>1, <3>1
    <2>4. QED BY <2>2, <2>3
  <1>4. ASSUME NEW s \in Sockets,
               \/ Register(s) \/ CredsUpdate(s) \/ SocketQR(s) \/ SocketOpens(s)
               \/ \E reason \in CloseReasons : SocketCloses(s, reason)
        PROVE  restarts' = restarts /\ asked' = asked /\ status' = status
    BY <1>4 DEF Register, CredsUpdate, SocketQR, SocketOpens, SocketCloses, statusVars, boundVars
  <1>5. CASE HandleUpdate
    <2>1. restarts' = restarts /\ asked' = asked
      BY <1>5 DEF HandleUpdate, HandleQR, HandleOpen, HandleLost, HandleLoggedOut, boundVars
    <2>2. \/ status' = status
          \/ \E new \in {"connected", "reconnecting", "disconnected"} :
               status' = [status EXCEPT ![Handled] = new]
      BY <1>5 DEF HandleUpdate, HandleQR, HandleOpen, HandleLost, HandleLoggedOut, Says, statusVars
    <2>3. status'[ch] = "failed" => status[ch] = "failed"
      BY <2>2 DEF TypeOK
    <2>4. QED BY <1>0, <2>1, <2>3
  <1>6. QED BY <1>0, <1>1, <1>2, <1>3, <1>4, <1>5 DEF Next

LEMMA FailedNext ==
  ASSUME Bounded, TypeOK', FailedSpent, [Next]_vars
  PROVE  FailedSpent'
  <1> SUFFICES ASSUME NEW ch \in Channels, Failed(ch)'
               PROVE  asked'[ch] >= 1 /\ (asked'[ch] <= 1 => Tokens(ch)' = 0)
    BY DEF FailedSpent
  <1>1. TypeOK /\ CloseOnce
    BY DEF Bounded
  <1>2. ~ Crash /\ ~ Shutdown
    BY <1>1 DEF Crash, Shutdown, Failed, TypeOK
  <1>3. /\ restarts' = restarts /\ asked'[ch] >= asked[ch]
        /\ status[ch] = "failed" \/ Exhausted(ch)
    BY <1>1, <1>2, FailedBy DEF Failed
  <1>4. CountsAreNatural /\ CountsAreNatural'
    BY <1>1, CountTypes, PTL
  <1>5. /\ Tokens(ch) \in Nat /\ Tokens(ch)' \in Nat /\ asked[ch] \in Nat /\ asked'[ch] \in Nat
        /\ Cardinality(Holding(ch)) \in Nat /\ Reconnecting(ch) \in Nat
    BY <1>4 DEF CountsAreNatural, Tokens
  <1>6. PaidFor(ch)
    BY <1>1, <1>2, CountNext
  <1>7. CASE status[ch] = "failed"
    <2>1. asked[ch] >= 1 /\ (asked[ch] <= 1 => Tokens(ch) = 0)
      BY <1>3, <1>7 DEF FailedSpent, Failed
    <2>2. QED BY <1>3, <1>5, <1>6, <2>1 DEF PaidFor
  <1>8. CASE Exhausted(ch)
    <2>1. /\ Move(ch, "reconnect", "giveUp") /\ asked' = asked
          /\ owner' = owner /\ live' = live /\ inflight' = inflight
      BY <1>8 DEF Exhausted, socketVars
    <2>2. flows[ch]["reconnect"] > 0 /\ \A stage \in Stages : flows[ch][stage] \in Nat
      BY <1>1, <2>1 DEF Move, TypeOK
    <2>3. Reconnecting(ch) > 0
      BY <2>2, StageNames DEF Reconnecting
    <2>4. Tokens(ch) <= asked[ch]
      BY DEF Bounded, TokensBounded
    <2>5. asked[ch] >= 1
      BY <1>5, <2>3, <2>4 DEF Tokens
    <2>6. ASSUME asked[ch] <= 1 PROVE Tokens(ch)' = 0
      <3>1. Holding(ch) = {} /\ Reconnecting(ch) = 1
        BY <2>3, <2>6, OneToken
      <3>2. Holding(ch)' = {}
        BY <2>1, <3>1 DEF Holding, Unheard, EventsOf
      <3>3. Reconnecting(ch)' = 0
        BY <1>1, <2>1, <3>1, MoveCount, StageNames DEF Underway, Unit
      <3>4. Cardinality(Holding(ch)') = 0
        BY <3>2, FS_EmptySet
      <3>5. QED BY <3>3, <3>4 DEF Tokens
    <2>7. QED BY <2>1, <2>5, <2>6
  <1>9. QED BY <1>3, <1>7, <1>8

(* Once a channel asked for once is shown as failed, nothing reconnects it *)
(* until the next command or boot: no timer, no createSession, no socket.  *)
THEOREM FailedForGood == Spec => []FailedIsFinal
  <1>1. Init => FailedSpent
    BY DEF Init, FailedSpent, Failed
  <1>2. FailedSpent /\ Bounded => FailedIsFinal
    <2> SUFFICES ASSUME FailedSpent, Bounded, NEW ch \in Channels,
                        status[ch] = "failed", restarts = 0, asked[ch] <= 1
                 PROVE  Sustaining(ch) = {} /\ Reconnecting(ch) = 0
      BY DEF FailedIsFinal
    <2>1. /\ IsFiniteSet(Holding(ch)) /\ Cardinality(Holding(ch)) \in Nat
          /\ Reconnecting(ch) \in Nat
      BY CountTypes DEF Bounded, CountsAreNatural
    <2>2. Cardinality(Holding(ch)) = 0 /\ Reconnecting(ch) = 0
      BY <2>1 DEF FailedSpent, Failed, Tokens
    <2>3. Holding(ch) = {}
      BY <2>1, <2>2, FS_EmptySet
    <2>4. QED BY <2>2, <2>3 DEF Sustaining, ClosePending, Holding, Unheard, CloseReasons
  <1>3. ASSUME Bounded, TypeOK', FailedSpent, [Next]_vars PROVE FailedSpent'
    BY <1>3, FailedNext
  <1>4. Bounded => TypeOK
    BY DEF Bounded
  <1>5. QED BY <1>1, <1>2, <1>3, <1>4, AlwaysBounded, PTL DEF Spec

(***************************************************************************)
(* A channel asked for once whose stops overtook no 'open': each 'open'    *)
(* that waits for its handler is of the mapped socket, which still listens *)
(* or has its close behind in the queue, and 'connected' is not the last   *)
(* word without such a socket.  A socket that closes unheard has emitted   *)
(* nothing.  'reconnecting' is the last word only beside a reconnection.   *)
(***************************************************************************)
AskedOnce(ch) == asked[ch] = 0 \/ (asked[ch] = 1 /\ ch \notin overtaken)
Answers(s) == s \in listening \/ Closing(s)
OpenOf(i, ch) ==
  /\ inflight[i].sock \in Sockets /\ owner[inflight[i].sock] = ch
  /\ inflight[i].update = "open"
Followed(i) ==
  \/ inflight[i].sock \in listening
  \/ \E j \in DOMAIN inflight : j >= i /\ CloseAt(j, inflight[i].sock)
Answered(ch) ==
  \A i \in DOMAIN inflight : OpenOf(i, ch) => Followed(i) /\ sessions[ch] = inflight[i].sock
Heard(ch) == \E s \in Sockets : owner[s] = ch /\ sessions[ch] = s /\ Answers(s)
Shown(ch) == asked[ch] = 1 /\ said[ch] = "connected" => Reconnecting(ch) > 0 \/ Heard(ch)
Backing == \A ch \in Channels : AskedOnce(ch) => Answered(ch) /\ Shown(ch)
Resumed == \A ch \in Channels : asked[ch] > 0 /\ said[ch] = "reconnecting" => Reconnecting(ch) > 0

(* The map shows a socket under the channel it was made for.               *)
Owned == \A ch \in Channels : sessions[ch] \in Sockets => owner[sessions[ch]] = ch

LEMMA OwnedNext ==
  ASSUME TypeOK, Owned, [Next]_vars
  PROVE  Owned'
  <1>1. CASE UNCHANGED vars
    BY <1>1 DEF vars, socketVars, Owned
  <1>2. ASSUME NEW ch \in Channels, OpenSocket(ch) PROVE Owned'
    <2>1. PICK s \in FreeSockets : /\ owner' = [owner EXCEPT ![s] = ch]
                                   /\ sessions' = [sessions EXCEPT ![ch] = s]
      BY <1>2 DEF OpenSocket
    <2>2. s \in Sockets /\ \A c \in Channels : sessions[c] # s
      BY DEF FreeSockets
    <2>3. QED BY <2>1, <2>2 DEF Owned, TypeOK
  <1>3. CASE Crash \/ Shutdown
    BY <1>3, SocketAssumption DEF Crash, Shutdown, Reboot, Booted, Owned
  <1>4. ASSUME Next, ~ Crash, ~ Shutdown, \A ch \in Channels : ~ OpenSocket(ch) PROVE Owned'
    <2>1. owner' = owner
      BY <1>4 DEF Next, StartCommand, StopCommand, DeleteCommand, Step, LoadAuth, LoadFails, FetchFails,
                  CreateFails, ArmTimer, Exhausted, GiveUp, TimerFires, RemoveAuth, ForgetLoggedOut, ShowQR,
                  Register, CredsUpdate, SocketQR, SocketOpens, SocketCloses, HandleUpdate, HandleQR,
                  HandleOpen, HandleLost, HandleLoggedOut, socketVars
    <2>2. sessions' = sessions \/ \E c : sessions' = [sessions EXCEPT ![c] = NoSocket]
      BY <1>4 DEF Next, StartCommand, StopCommand, DeleteCommand, Step, LoadAuth, LoadFails, FetchFails,
                  CreateFails, ArmTimer, Exhausted, GiveUp, TimerFires, RemoveAuth, ForgetLoggedOut, ShowQR,
                  Register, CredsUpdate, SocketQR, SocketOpens, SocketCloses, HandleUpdate, HandleQR,
                  HandleOpen, HandleLost, HandleLoggedOut, StopSession
    <2>3. QED BY <2>1, <2>2, SocketAssumption DEF Owned, TypeOK
  <1>5. QED BY <1>1, <1>2, <1>3, <1>4

(* An 'open' that is followed is of a socket that holds a token.           *)
LEMMA FollowedIsHeld ==
  ASSUME TypeOK, NEW ch \in Channels, NEW i \in DOMAIN inflight, OpenOf(i, ch), Followed(i)
  PROVE  Answers(inflight[i].sock) /\ inflight[i].sock \in Holding(ch)
  <1>1. Answers(inflight[i].sock)
    BY DEF Followed, Answers, Closing
  <1>2. QED BY <1>1, UnheardIsClosing DEF Answers, Holding, OpenOf, TypeOK

(* A channel that holds no socket waits for no handler of an 'open'.       *)
LEMMA EmptyHanded ==
  ASSUME TypeOK, NEW ch \in Channels, Answered(ch), Holding(ch) = {}
  PROVE  \A i \in DOMAIN inflight : ~ OpenOf(i, ch)
  BY FollowedIsHeld DEF Answered

(* What a step does to a channel that no 'open' waits for, and to one      *)
(* whose socket it leaves alone.                                           *)
LEMMA BackedEmpty ==
  ASSUME NEW ch \in Channels, \A i \in DOMAIN inflight : ~ OpenOf(i, ch),
         owner' = owner, inflight' = inflight,
         asked'[ch] # 1 \/ said'[ch] # "connected" \/ Reconnecting(ch)' > 0
  PROVE  (Answered(ch) /\ Shown(ch))'
  BY DEF Answered, OpenOf, Shown

LEMMA BackedKept ==
  ASSUME TypeOK, NEW ch \in Channels, Answered(ch), Shown(ch),
         owner' = owner, inflight' = inflight,
         \A s \in Sockets : owner[s] = ch /\ s \in listening => s \in listening',
         sessions'[ch] = sessions[ch], asked'[ch] = asked[ch],
         \/ said'[ch] = said[ch] /\ (Reconnecting(ch) > 0 => Reconnecting(ch)' > 0)
         \/ said'[ch] # "connected"
  PROVE  (Answered(ch) /\ Shown(ch))'
  <1>1. Answered(ch)'
    BY DEF Answered, OpenOf, Followed, CloseAt
  <1>2. Shown(ch)'
    BY DEF Shown, Heard, Answers, Closing, CloseAt
  <1>3. QED BY <1>1, <1>2

LEMMA StopLeavesOthers ==
  ASSUME TypeOK, Owned, NEW d \in Channels, StopSession(d), NEW ch \in Channels, ch # d
  PROVE  /\ \A s \in Sockets : owner[s] = ch /\ s \in listening => s \in listening'
         /\ sessions'[ch] = sessions[ch] /\ said'[ch] = said[ch]
         /\ ch \in overtaken' <=> ch \in overtaken
  <1>1. CASE sessions[d] = NoSocket
    BY <1>1 DEF StopSession, statusVars
  <1>2. CASE sessions[d] # NoSocket
    <2>1. /\ listening' = listening \ {sessions[d]}
          /\ sessions' = [sessions EXCEPT ![d] = NoSocket]
          /\ Says(d, "stopped") /\ Overtakes(d)
      BY <1>2 DEF StopSession
    <2>2. \A s \in Sockets : owner[s] = ch /\ s \in listening => s \in listening'
      BY <1>2, <2>1 DEF Owned, TypeOK
    <2>3. sessions'[ch] = sessions[ch] /\ said'[ch] = said[ch]
      BY <2>1 DEF Says, TypeOK
    <2>4. ch \in overtaken' <=> ch \in overtaken
      BY <2>1 DEF Overtakes
    <2>5. QED BY <2>2, <2>3, <2>4
  <1>3. QED BY <1>1, <1>2

(* A stop that overtakes no 'open' leaves none behind: those that wait are *)
(* of the mapped socket.                                                   *)
LEMMA StopKeepsBacked ==
  ASSUME TypeOK, NEW ch \in Channels, StopSession(ch), AskedOnce(ch), ch \notin overtaken',
         Answered(ch), Shown(ch), owner' = owner, inflight' = inflight, asked' = asked,
         Reconnecting(ch)' = Reconnecting(ch)
  PROVE  (Answered(ch) /\ Shown(ch))'
  <1>1. CASE sessions[ch] = NoSocket
    <2>1. sessions' = sessions /\ listening' = listening /\ said' = said
      BY <1>1 DEF StopSession, statusVars
    <2>2. QED BY <2>1, BackedKept
  <1>2. CASE sessions[ch] # NoSocket
    <2>1. Says(ch, "stopped") /\ Overtakes(ch)
      BY <1>2 DEF StopSession
    <2>2. said'[ch] = "stopped"
      BY <2>1 DEF Says, TypeOK
    <2>3. \A i \in DOMAIN inflight : ~ OpenOf(i, ch)
      BY <2>1 DEF Overtakes, EventsOf, Answered, OpenOf
    <2>4. QED BY <2>2, <2>3, BackedEmpty
  <1>3. QED BY <1>1, <1>2

LEMMA BackedCommand ==
  ASSUME Bounded, Owned, Backing, NEW d \in Channels,
         StartCommand(d) \/ StopCommand(d) \/ DeleteCommand(d)
  PROVE  Backing'
  <1> SUFFICES ASSUME NEW ch \in Channels, AskedOnce(ch)'
               PROVE  (Answered(ch) /\ Shown(ch))'
    BY DEF Backing
  <1>1. TypeOK
    BY DEF Bounded
  <1>2. StopSession(d) /\ owner' = owner /\ inflight' = inflight
    BY DEF StartCommand, StopCommand, DeleteCommand
  <1>3. CASE ch # d
    <2>1. asked'[ch] = asked[ch]
      BY <1>1, <1>3 DEF StartCommand, StopCommand, DeleteCommand, TypeOK
    <2>2. Reconnecting(ch)' = Reconnecting(ch)
      <3>1. \A a \in Stages : flows'[ch][a] = flows[ch][a]
        BY <1>1, <1>3 DEF StartCommand, StopCommand, DeleteCommand, Enter, TypeOK
      <3>2. QED BY <3>1, StageNames DEF Reconnecting
    <2>3. /\ \A s \in Sockets : owner[s] = ch /\ s \in listening => s \in listening'
          /\ sessions'[ch] = sessions[ch] /\ said'[ch] = said[ch]
          /\ ch \in overtaken' <=> ch \in overtaken
      BY <1>1, <1>2, <1>3, StopLeavesOthers
    <2>4. Answered(ch) /\ Shown(ch)
      BY <2>1, <2>3 DEF Backing, AskedOnce
    <2>5. QED BY <1>1, <1>2, <2>1, <2>2, <2>3, <2>4, BackedKept
  <1>4. CASE ch = d
    <2>1. asked[ch] \in Nat
      BY <1>1 DEF TypeOK
    <2>2. CASE asked[ch] = 0
      <3>1. Holding(ch) = {} /\ Answered(ch)
        BY <2>2, OneToken DEF Backing, AskedOnce
      <3>2. \A i \in DOMAIN inflight : ~ OpenOf(i, ch)
        BY <1>1, <3>1, EmptyHanded
      <3>3. CASE StartCommand(d)
        <4>1. Reconnecting(ch)' = Reconnecting(ch) + 1 /\ Reconnecting(ch) \in Nat
          BY <1>1, <1>4, <3>3, EnterCount, CountNaturals, StageNames DEF StartCommand, Underway, Unit
        <4>2. Reconnecting(ch)' > 0
          BY <4>1
        <4>3. QED BY <1>2, <3>2, <4>2, BackedEmpty
      <3>4. CASE StopCommand(d) \/ DeleteCommand(d)
        <4>1. asked'[ch] # 1
          BY <2>2, <3>4 DEF StopCommand, DeleteCommand
        <4>2. QED BY <1>2, <3>2, <4>1, BackedEmpty
      <3>5. QED BY <3>3, <3>4
    <2>3. CASE asked[ch] # 0
      <3>1. ~ StartCommand(d)
        <4> SUFFICES ASSUME StartCommand(d) PROVE FALSE
          OBVIOUS
        <4>1. asked'[ch] = asked[ch] + 1
          BY <1>1, <1>4 DEF StartCommand, TypeOK
        <4>2. QED BY <2>1, <2>3, <4>1 DEF AskedOnce
      <3>2. asked' = asked
        BY <3>1 DEF StopCommand, DeleteCommand
      <3>3. overtaken \subseteq overtaken'
        BY <1>2 DEF StopSession, Overtakes
      <3>4. AskedOnce(ch) /\ ch \notin overtaken'
        BY <2>3, <3>2, <3>3 DEF AskedOnce
      <3>5. Answered(ch) /\ Shown(ch)
        BY <3>4 DEF Backing
      <3>6. Reconnecting(ch)' = Reconnecting(ch)
        <4>1. CASE StopCommand(d)
          BY <4>1 DEF StopCommand, Reconnecting
        <4>2. CASE DeleteCommand(d)
          <5>1. Reconnecting(ch) \in Nat
            BY <1>1, CountNaturals
          <5>2. QED BY <1>1, <4>2, <5>1, EnterCount, StageNames DEF DeleteCommand, Underway, Unit
        <4>3. QED BY <3>1, <4>1, <4>2
      <3>7. QED BY <1>1, <1>2, <1>4, <3>2, <3>4, <3>5, <3>6, StopKeepsBacked
    <2>4. QED BY <2>2, <2>3
  <1>5. QED BY <1>3, <1>4

(* The new socket is the only one of a channel asked for once.             *)
LEMMA BackedOpen ==
  ASSUME Bounded, Backing, NEW d \in Channels, OpenSocket(d)
  PROVE  Backing'
  <1> SUFFICES ASSUME NEW ch \in Channels, AskedOnce(ch)'
               PROVE  (Answered(ch) /\ Shown(ch))'
    BY DEF Backing
  <1>1. TypeOK
    BY DEF Bounded
  <1>2. PICK s \in FreeSockets :
          /\ Leave(d, "fetch") /\ asked' = asked /\ overtaken' = overtaken
          /\ owner' = [owner EXCEPT ![s] = d]
          /\ sessions' = [sessions EXCEPT ![d] = s] /\ inflight' = inflight
          /\ Says(d, "connecting") /\ listening' = listening
    BY DEF OpenSocket
  <1>3. /\ s \in Sockets /\ ~ Closing(s) /\ s \notin listening
        /\ \A i \in DOMAIN inflight : inflight[i].sock # s
    BY <1>1 DEF FreeSockets, EventsOf, Closing, CloseAt, TypeOK
  <1>4. owner'[s] = d /\ \A t \in Sockets : t # s => owner'[t] = owner[t]
    BY <1>1, <1>2, <1>3 DEF TypeOK
  <1>5. Answered(ch) /\ Shown(ch)
    BY <1>2 DEF Backing, AskedOnce
  <1>6. CASE ch # d
    <2>1. sessions'[ch] = sessions[ch] /\ said'[ch] = said[ch] /\ asked'[ch] = asked[ch]
      BY <1>1, <1>2, <1>6 DEF Says, TypeOK
    <2>2. Answered(ch)'
      BY <1>2, <1>3, <1>4, <1>5, <2>1 DEF Answered, OpenOf, Followed, CloseAt
    <2>3. Heard(ch) => Heard(ch)'
      BY <1>2, <1>3, <1>4, <2>1 DEF Heard, Answers, Closing, CloseAt
    <2>4. Reconnecting(ch)' = Reconnecting(ch)
      <3>1. \A a \in Stages : flows'[ch][a] = flows[ch][a]
        BY <1>1, <1>2, <1>6 DEF Leave, TypeOK
      <3>2. QED BY <3>1, StageNames DEF Reconnecting
    <2>5. QED BY <1>5, <2>1, <2>2, <2>3, <2>4 DEF Shown
  <1>7. CASE ch = d
    <2>1. Reconnecting(ch) > 0
      BY <1>1, <1>2, <1>7, StageNames DEF Leave, Reconnecting, TypeOK
    <2>2. asked[ch] <= 1
      BY <1>1, <1>2 DEF AskedOnce, TypeOK
    <2>3. Holding(ch) = {}
      BY <2>1, <2>2, OneToken
    <2>4. \A i \in DOMAIN inflight : ~ OpenOf(i, ch)
      BY <1>1, <1>5, <2>3, EmptyHanded
    <2>5. said'[ch] = "connecting"
      BY <1>1, <1>2, <1>7 DEF Says, TypeOK
    <2>6. Answered(ch)'
      BY <1>2, <1>3, <1>4, <2>4 DEF Answered, OpenOf
    <2>7. QED BY <2>5, <2>6 DEF Shown
  <1>8. QED BY <1>6, <1>7

LEMMA BackedStep ==
  ASSUME Bounded, Owned, Backing, NEW d \in Channels, Step(d)
  PROVE  Backing'
  <1>1. CASE OpenSocket(d)
    BY <1>1, BackedOpen
  <1>2. CASE ~ OpenSocket(d)
    <2> SUFFICES ASSUME NEW ch \in Channels, AskedOnce(ch)'
                 PROVE  (Answered(ch) /\ Shown(ch))'
      BY DEF Backing
    <2>1. TypeOK
      BY DEF Bounded
    <2>2. owner' = owner /\ inflight' = inflight /\ asked' = asked /\ overtaken \subseteq overtaken'
      BY <1>2 DEF Step, LoadAuth, LoadFails, FetchFails, CreateFails, ArmTimer, Exhausted, GiveUp,
                  TimerFires, RemoveAuth, ForgetLoggedOut, ShowQR, StopSession, Overtakes, socketVars
    <2>3. AskedOnce(ch) /\ Answered(ch) /\ Shown(ch)
      BY <2>2 DEF Backing, AskedOnce
    <2>4. Reconnecting(ch) \in Nat
      BY <2>1, CountNaturals
    <2>5. CASE TimerFires(d)
      <3>1. Reconnecting(ch)' = Reconnecting(ch)
        BY <2>1, <2>4, <2>5, MoveCount, StageNames DEF TimerFires, Underway, Unit
      <3>2. CASE ch # d
        <4>1. /\ \A s \in Sockets : owner[s] = ch /\ s \in listening => s \in listening'
              /\ sessions'[ch] = sessions[ch] /\ said'[ch] = said[ch]
          BY <2>1, <2>5, <3>2, StopLeavesOthers DEF TimerFires
        <4>2. QED BY <2>1, <2>2, <2>3, <3>1, <4>1, BackedKept
      <3>3. CASE ch = d
        <4>1. Reconnecting(ch) > 0
          BY <2>1, <2>5, <3>3, StageNames DEF TimerFires, Move, Reconnecting, TypeOK
        <4>2. asked[ch] <= 1
          BY <2>1, <2>3 DEF AskedOnce, TypeOK
        <4>3. Holding(ch) = {} /\ Reconnecting(ch)' > 0
          BY <3>1, <4>1, <4>2, OneToken
        <4>4. \A i \in DOMAIN inflight : ~ OpenOf(i, ch)
          BY <2>1, <2>3, <4>3, EmptyHanded
        <4>5. QED BY <2>2, <4>3, <4>4, BackedEmpty
      <3>4. QED BY <3>2, <3>3
    <2>6. CASE ~ TimerFires(d)
      <3>1. sessions' = sessions /\ listening' = listening
        BY <1>2, <2>6 DEF Step, LoadAuth, LoadFails, FetchFails, CreateFails, ArmTimer, Exhausted, GiveUp,
                          RemoveAuth, ForgetLoggedOut, ShowQR, socketVars
      <3>2. CASE LoadFails(d) \/ FetchFails(d) \/ Exhausted(d)
        <4>1. PICK word \in {"error", "failed"} : Says(d, word)
          BY <3>2 DEF LoadFails, FetchFails, CreateFails, Exhausted
        <4>2. said'[ch] = IF ch = d THEN word ELSE said[ch]
          BY <2>1, <4>1 DEF Says, TypeOK
        <4>3. ch # d => Reconnecting(ch)' = Reconnecting(ch)
          BY <2>1, <2>4, <3>2, LeaveCount, MoveCount, StageNames
             DEF LoadFails, FetchFails, Exhausted, Underway, Unit
        <4>4. QED BY <2>1, <2>2, <2>3, <3>1, <4>2, <4>3, BackedKept
      <3>3. CASE \/ LoadAuth(d) \/ ArmTimer(d) \/ GiveUp(d) \/ RemoveAuth(d)
                 \/ ForgetLoggedOut(d) \/ ShowQR(d)
        <4>1. said'[ch] = said[ch] \/ said'[ch] # "connected"
          BY <2>1, <3>3 DEF LoadAuth, ArmTimer, GiveUp, RemoveAuth, ForgetLoggedOut, ShowQR, Says,
                            statusVars, TypeOK
        <4>2. Reconnecting(ch)' = Reconnecting(ch)
          <5>1. CASE LoadAuth(d) \/ ArmTimer(d)
            BY <2>1, <2>4, <5>1, MoveCount, StageNames DEF LoadAuth, ArmTimer, Underway, Unit
          <5>2. CASE GiveUp(d) \/ RemoveAuth(d) \/ ForgetLoggedOut(d) \/ ShowQR(d)
            BY <2>1, <2>4, <5>2, LeaveCount, StageNames
               DEF GiveUp, RemoveAuth, ForgetLoggedOut, ShowQR, Underway, Unit
          <5>3. QED BY <3>3, <5>1, <5>2
        <4>3. QED BY <2>1, <2>2, <2>3, <3>1, <4>1, <4>2, BackedKept
      <3>4. QED BY <1>2, <2>6, <3>2, <3>3 DEF Step
    <2>7. QED BY <2>5, <2>6
  <1>3. QED BY <1>1, <1>2

(* A socket emits while it listens, is then the mapped one of a channel    *)
(* asked for once, and its close is the last it emits.                     *)
LEMMA BackedSocket ==
  ASSUME Bounded, NoOrphanSession, Backing, NEW s \in Sockets, ~ Shutdown,
         \/ Register(s) \/ CredsUpdate(s) \/ SocketQR(s) \/ SocketOpens(s)
         \/ \E reason \in CloseReasons : SocketCloses(s, reason)
  PROVE  Backing'
  <1> SUFFICES ASSUME NEW ch \in Channels, AskedOnce(ch)'
               PROVE  (Answered(ch) /\ Shown(ch))'
    BY DEF Backing
  <1>1. TypeOK /\ CloseOnce
    BY DEF Bounded
  <1>2. /\ owner' = owner /\ flows' = flows /\ asked' = asked
        /\ overtaken' = overtaken /\ sessions' = sessions /\ said' = said
    BY DEF Register, CredsUpdate, SocketQR, SocketOpens, SocketCloses, socketVars, statusVars
  <1>3. AskedOnce(ch) /\ Answered(ch) /\ Shown(ch)
    BY <1>2 DEF Backing, AskedOnce
  <1>4. Reconnecting(ch)' = Reconnecting(ch)
    BY <1>2 DEF Reconnecting
  <1>5. CASE Register(s) \/ CredsUpdate(s)
    <2>1. inflight' = inflight /\ listening \subseteq listening'
      BY <1>5 DEF Register, CredsUpdate, socketVars
    <2>2. QED BY <1>1, <1>2, <1>3, <1>4, <2>1, BackedKept
  <1>6. CASE /\ SocketQR(s) \/ SocketOpens(s) \/ \E reason \in CloseReasons : SocketCloses(s, reason)
             /\ s \in listening
    <2>1. PICK update \in Updates :
            /\ inflight' = Append(inflight, [sock |-> s, update |-> update])
            /\ \/ listening' = listening
               \/ update \in CloseReasons /\ listening' = listening \ {s}
      BY <1>6 DEF SocketQR, SocketOpens, SocketCloses, Emit, Updates, CloseReasons, socketVars
    <2>2. PICK last \in Nat : last = Len(inflight) + 1
      BY <1>1, DomainOfQueue
    <2>3. /\ DOMAIN inflight' = 1..last
          /\ \A k \in DOMAIN inflight : inflight'[k] = inflight[k]
          /\ inflight'[last] = [sock |-> s, update |-> update]
          /\ DOMAIN inflight = 1..(last - 1)
      BY <1>1, <2>1, <2>2, AppendKeepsCloses, DomainOfQueue
    <2>4. \A k \in DOMAIN inflight' : k <= last /\ (k = last \/ k \in DOMAIN inflight)
      BY <2>2, <2>3
    <2>5. last \in DOMAIN inflight' /\ DOMAIN inflight \subseteq DOMAIN inflight'
      BY <2>2, <2>3
    <2>6. s \in listening' \/ CloseAt(last, s)'
      BY <1>6, <2>1, <2>3 DEF CloseAt
    <2>7. \A k \in DOMAIN inflight, t \in Sockets : CloseAt(k, t)' <=> CloseAt(k, t)
      BY <2>3 DEF CloseAt
    <2>8. owner[s] = ch => sessions[ch] = s
      <3>1. s \in live /\ asked[ch] <= 1
        BY <1>1, <1>3, <1>6 DEF AskedOnce, TypeOK
      <3>2. QED BY <3>1 DEF NoOrphanSession
    <2>9. Answered(ch)'
      <3> SUFFICES ASSUME NEW i \in DOMAIN inflight', OpenOf(i, ch)'
                   PROVE  (Followed(i) /\ sessions[ch] = inflight[i].sock)'
        BY DEF Answered
      <3>1. PICK t \in Sockets : t = inflight'[i].sock /\ owner[t] = ch
        BY <1>2 DEF OpenOf
      <3>2. CASE t = s
        <4>1. last >= i
          BY <2>2, <2>3
        <4>2. Followed(i)'
          BY <2>5, <2>6, <3>1, <3>2, <4>1 DEF Followed
        <4>3. QED BY <1>2, <2>8, <3>1, <3>2, <4>2
      <3>3. CASE t # s
        <4>1. i \in DOMAIN inflight
          BY <2>3, <2>4, <3>1, <3>3
        <4>2. t = inflight[i].sock /\ Followed(i) /\ sessions[ch] = t
          BY <1>2, <1>3, <2>3, <3>1, <4>1 DEF Answered, OpenOf
        <4>3. t \in listening => t \in listening'
          BY <2>1, <3>3
        <4>4. Followed(i)'
          BY <2>5, <2>7, <3>1, <4>2, <4>3 DEF Followed
        <4>5. QED BY <1>2, <3>1, <4>2, <4>4
      <3>4. QED BY <3>2, <3>3
    <2>10. \A t \in Sockets : Answers(t) => Answers(t)'
      BY <2>1, <2>5, <2>6, <2>7 DEF Answers, Closing
    <2>11. Shown(ch)'
      BY <1>2, <1>3, <1>4, <2>10 DEF Shown, Heard
    <2>12. QED BY <2>9, <2>11
  <1>7. CASE /\ SocketQR(s) \/ SocketOpens(s) \/ \E reason \in CloseReasons : SocketCloses(s, reason)
             /\ s \notin listening
    <2>1. inflight' = inflight /\ listening' = listening
      BY <1>1, <1>7 DEF SocketQR, SocketOpens, SocketCloses, Emit, socketVars, TypeOK
    <2>2. QED BY <1>1, <1>2, <1>3, <1>4, <2>1, BackedKept
  <1>8. QED BY <1>5, <1>6, <1>7

(* The handler of the oldest update.  An 'open' that is handled is still   *)
(* answered for by its socket; a close takes the channel's only socket.    *)
LEMMA BackedHandle ==
  ASSUME Bounded, Backing, HandleUpdate
  PROVE  Backing'
  <1> SUFFICES ASSUME NEW ch \in Channels, AskedOnce(ch)'
               PROVE  (Answered(ch) /\ Shown(ch))'
    BY DEF Backing
  <1>1. TypeOK /\ CloseOnce
    BY DEF Bounded
  <1>2. /\ inflight # <<>> /\ inflight' = Tail(inflight) /\ owner' = owner /\ live' = live
        /\ asked' = asked /\ overtaken' = overtaken /\ listening' = listening
    BY DEF HandleUpdate, HandleQR, HandleOpen, HandleLost, HandleLoggedOut, Handle, socketVars
  <1>3. AskedOnce(ch) /\ Answered(ch) /\ Shown(ch)
    BY <1>2 DEF Backing, AskedOnce
  <1>4. /\ Head(inflight) = inflight[1] /\ 1 \in DOMAIN inflight /\ Head(inflight) \in Pending
        /\ DOMAIN inflight' = 1..(Len(inflight) - 1) /\ DOMAIN inflight = 1..Len(inflight)
        /\ Len(inflight) \in Nat
        /\ \A i \in DOMAIN inflight' : inflight'[i] = inflight[i + 1]
    BY <1>1, <1>2, TailKeepsCloses, DomainOfQueue, HeadTailProperties DEF TypeOK
  <1>5. PICK h \in Sockets : h = inflight[1].sock /\ owner[h] = Handled /\ Handled \in Channels
    BY <1>1, <1>4 DEF Handled, Pending, TypeOK
  <1>6. \A i \in DOMAIN inflight' : i \in Nat /\ i + 1 \in DOMAIN inflight /\ i + 1 # 1
    BY <1>4
  <1>7. \A i \in DOMAIN inflight' : \A t : CloseAt(i, t)' <=> CloseAt(i + 1, t)
    BY <1>4 DEF CloseAt
  <1>8. \A j \in DOMAIN inflight : j # 1 => j - 1 \in DOMAIN inflight' /\ (j - 1) + 1 = j
    BY <1>4
  <1>9. \A t \in Sockets : Closing(t) /\ ~ CloseAt(1, t) => Closing(t)'
    <2> SUFFICES ASSUME NEW t \in Sockets, Closing(t), ~ CloseAt(1, t) PROVE Closing(t)'
      OBVIOUS
    <2>1. PICK j \in DOMAIN inflight : CloseAt(j, t) /\ j # 1
      BY DEF Closing
    <2>2. j - 1 \in DOMAIN inflight' /\ CloseAt(j - 1, t)'
      BY <1>7, <1>8, <2>1
    <2>3. QED BY <2>2 DEF Closing
  <1>10. \A i \in DOMAIN inflight' : OpenOf(i, ch)' => OpenOf(i + 1, ch)
    BY <1>2, <1>4 DEF OpenOf
  <1>11. ASSUME NEW i \in DOMAIN inflight', OpenOf(i, ch)' PROVE Followed(i)'
    <2>0. PICK t \in Sockets : t = inflight'[i].sock /\ t = inflight[i + 1].sock
      BY <1>4, <1>11 DEF OpenOf
    <2>1. Followed(i + 1) /\ i + 1 \in DOMAIN inflight
      BY <1>3, <1>6, <1>10, <1>11 DEF Answered
    <2>2. CASE t \in listening
      BY <1>2, <2>0, <2>2 DEF Followed
    <2>3. CASE \E j \in DOMAIN inflight : j >= i + 1 /\ CloseAt(j, t)
      <3>1. PICK j \in DOMAIN inflight : j >= i + 1 /\ CloseAt(j, t)
        BY <2>3
      <3>2. j - 1 \in DOMAIN inflight' /\ j - 1 >= i /\ (j - 1) + 1 = j
        BY <1>4, <1>6, <3>1
      <3>3. CloseAt(j - 1, t)'
        BY <1>7, <3>1, <3>2
      <3>4. QED BY <2>0, <3>2, <3>3 DEF Followed
    <2>4. QED BY <2>0, <2>1, <2>2, <2>3 DEF Followed
  <1>12. sessions'[ch] = sessions[ch] => Answered(ch)'
    <2> SUFFICES ASSUME sessions'[ch] = sessions[ch],
                        NEW i \in DOMAIN inflight', OpenOf(i, ch)'
                 PROVE  (Followed(i) /\ sessions[ch] = inflight[i].sock)'
      BY DEF Answered
    <2>1. sessions[ch] = inflight[i + 1].sock
      BY <1>3, <1>6, <1>10 DEF Answered
    <2>2. QED BY <1>4, <1>11, <2>1
  <1>13. CASE ch # Handled
    <2>1. sessions'[ch] = sessions[ch] /\ said'[ch] = said[ch]
      BY <1>1, <1>5, <1>13
         DEF HandleUpdate, HandleQR, HandleOpen, HandleLost, HandleLoggedOut, Says, statusVars, TypeOK
    <2>2. Reconnecting(ch)' = Reconnecting(ch)
      <3>1. \A a \in Stages : flows'[ch][a] = flows[ch][a]
        BY <1>1, <1>5, <1>13 DEF HandleUpdate, HandleQR, HandleOpen, HandleLost, HandleLoggedOut, Enter, TypeOK
      <3>2. QED BY <3>1, StageNames DEF Reconnecting
    <2>3. \A t \in Sockets : owner[t] = ch /\ Answers(t) => Answers(t)'
      <3>1. \A t \in Sockets : owner[t] = ch => ~ CloseAt(1, t)
        BY <1>5, <1>13 DEF CloseAt
      <3>2. QED BY <1>2, <1>9, <3>1 DEF Answers
    <2>4. QED BY <1>2, <1>3, <1>12, <2>1, <2>2, <2>3 DEF Shown, Heard
  <1>14. CASE ch = Handled
    <2>1. CASE HandleQR
      <3>1. sessions'[ch] = sessions[ch] /\ said'[ch] = said[ch]
        BY <2>1 DEF HandleQR, statusVars
      <3>2. Reconnecting(ch)' = Reconnecting(ch)
        <4>1. Reconnecting(ch) \in Nat
          BY <1>1, CountNaturals
        <4>2. QED BY <1>1, <1>5, <2>1, <4>1, EnterCount, StageNames DEF HandleQR, Underway, Unit
      <3>3. ~ CloseAt(1, h)
        BY <1>4, <2>1 DEF HandleQR, Handle, CloseAt, CloseReasons
      <3>4. \A t \in Sockets : Answers(t) => Answers(t)'
        BY <1>2, <1>5, <1>9, <3>3 DEF Answers, CloseAt
      <3>5. QED BY <1>2, <1>3, <1>12, <3>1, <3>2, <3>4 DEF Shown, Heard
    <2>2. CASE HandleOpen
      <3>1. sessions'[ch] = sessions[ch]
        BY <2>2 DEF HandleOpen
      <3>2. ~ CloseAt(1, h)
        BY <1>4, <2>2 DEF HandleOpen, Handle, CloseAt, CloseReasons
      <3>3. OpenOf(1, ch) /\ Followed(1) /\ sessions[ch] = h
        BY <1>3, <1>4, <1>5, <1>14, <2>2 DEF Answered, OpenOf, HandleOpen, Handle
      <3>4. Answers(h)
        BY <1>1, <1>4, <1>5, <3>3, FollowedIsHeld
      <3>5. Answers(h)'
        BY <1>2, <1>9, <3>2, <3>4 DEF Answers
      <3>6. Heard(ch)'
        BY <1>2, <1>5, <1>14, <3>1, <3>3, <3>5 DEF Heard
      <3>7. QED BY <1>12, <3>1, <3>6 DEF Shown
    <2>3. CASE HandleLost \/ HandleLoggedOut
      <3>1. said'[ch] # "connected"
        BY <1>1, <1>5, <1>14, <2>3 DEF HandleLost, HandleLoggedOut, Says, TypeOK
      <3>2. CloseAt(1, h)
        BY <1>4, <1>5, <2>3 DEF HandleLost, HandleLoggedOut, Handle, CloseAt, CloseReasons
      <3>3. h \in Holding(ch) /\ h \notin live
        BY <1>1, <1>4, <1>5, <1>14, <3>2, UnheardIsClosing DEF Holding, Closing, CloseOnce
      <3>4. asked[ch] <= 1
        BY <1>1, <1>3 DEF AskedOnce, TypeOK
      <3>5. ASSUME NEW i \in DOMAIN inflight', OpenOf(i, ch)' PROVE FALSE
        <4>1. OpenOf(i + 1, ch) /\ Followed(i + 1) /\ i + 1 \in DOMAIN inflight
          BY <1>3, <1>6, <1>10, <3>5 DEF Answered
        <4>2. inflight[i + 1].sock = h
          BY <1>1, <3>3, <3>4, <4>1, FollowedIsHeld, OneToken
        <4>3. PICK j \in DOMAIN inflight : j >= i + 1 /\ CloseAt(j, h)
          BY <1>1, <3>3, <4>1, <4>2 DEF Followed, TypeOK
        <4>4. j # 1
          BY <1>4, <1>6, <3>5, <4>3
        <4>5. QED BY <1>1, <1>4, <3>2, <4>3, <4>4 DEF CloseOnce
      <3>6. QED BY <3>1, <3>5 DEF Answered, Shown
    <2>4. QED BY <2>1, <2>2, <2>3 DEF HandleUpdate
  <1>15. QED BY <1>13, <1>14

(* After a boot every channel that was asked for is being loaded.          *)
LEMMA BackedBoot ==
  ASSUME NEW r, inflight = <<>>, asked = One(r), flows = FlowsAtBoot(r)
  PROVE  Backing /\ Resumed
  <1> SUFFICES ASSUME NEW ch \in Channels
               PROVE  /\ Answered(ch) /\ Shown(ch)
                      /\ asked[ch] > 0 => Reconnecting(ch) > 0
    BY DEF Backing, Resumed
  <1>1. Answered(ch)
    BY DEF Answered
  <1>2. Reconnecting(ch) = One(r)[ch] /\ One(r)[ch] \in Nat
    BY StageNames DEF One, Reconnecting, FlowsAtBoot, NoFlows
  <1>3. QED BY <1>1, <1>2 DEF Shown

LEMMA BackedReboot ==
  ASSUME Crash \/ Shutdown
  PROVE  Backing' /\ Resumed'
  <1>1. PICK r : /\ inflight' = <<>> /\ asked' = One(r) /\ flows' = FlowsAtBoot(r)
    BY DEF Crash, Shutdown, Reboot, Booted
  <1> SUFFICES ASSUME NEW ch \in Channels
               PROVE  /\ (Answered(ch) /\ Shown(ch))'
                      /\ asked'[ch] > 0 => Reconnecting(ch)' > 0
    BY DEF Backing, Resumed
  <1>2. Answered(ch)'
    BY <1>1 DEF Answered
  <1>3. Reconnecting(ch)' = One(r)[ch] /\ One(r)[ch] \in Nat
    BY <1>1, StageNames DEF One, Reconnecting, FlowsAtBoot, NoFlows
  <1>4. QED BY <1>1, <1>2, <1>3 DEF Shown

LEMMA BackedNext ==
  ASSUME Bounded, NoOrphanSession, Owned, Backing, [Next]_vars
  PROVE  Backing'
  <1>1. CASE UNCHANGED vars
    <2>1. \A ch \in Channels : AskedOnce(ch)' <=> AskedOnce(ch)
      BY <1>1 DEF vars, AskedOnce
    <2>2. \A ch \in Channels : Answered(ch)' <=> Answered(ch)
      BY <1>1 DEF vars, socketVars, Answered, OpenOf, Followed, CloseAt
    <2>3. \A ch \in Channels : Shown(ch)' <=> Shown(ch)
      BY <1>1 DEF vars, socketVars, statusVars, Shown, Heard, Answers, Closing, CloseAt, Reconnecting
    <2>4. QED BY <2>1, <2>2, <2>3 DEF Backing
  <1>2. CASE Next
    BY <1>2, BackedCommand, BackedStep, BackedSocket, BackedHandle, BackedReboot DEF Next
  <1>3. QED BY <1>1, <1>2

(* 'reconnecting' is said with a reconnection entered; every step that     *)
(* takes one away says another word.                                       *)
LEMMA ResumedKept ==
  ASSUME TypeOK, TypeOK', Resumed, NEW ch \in Channels,
         \/ asked'[ch] = asked[ch] /\ said'[ch] = said[ch] /\ Reconnecting(ch)' = Reconnecting(ch)
         \/ said'[ch] # "reconnecting"
         \/ \E n \in Nat : Reconnecting(ch)' = n + 1
  PROVE  asked'[ch] > 0 /\ said'[ch] = "reconnecting" => Reconnecting(ch)' > 0
  BY DEF Resumed

LEMMA ResumedStop ==
  ASSUME TypeOK, NEW d \in Channels, StopSession(d), NEW ch \in Channels
  PROVE  said'[ch] = said[ch] \/ said'[ch] = "stopped"
  BY DEF StopSession, Says, statusVars, TypeOK

LEMMA ResumedCommand ==
  ASSUME TypeOK, TypeOK', Resumed, NEW d \in Channels,
         StartCommand(d) \/ StopCommand(d) \/ DeleteCommand(d)
  PROVE  Resumed'
  <1> SUFFICES ASSUME NEW ch \in Channels
               PROVE  asked'[ch] > 0 /\ said'[ch] = "reconnecting" => Reconnecting(ch)' > 0
    BY DEF Resumed
  <1>1. said'[ch] = said[ch] \/ said'[ch] = "stopped"
    BY ResumedStop DEF StartCommand, StopCommand, DeleteCommand
  <1>2. Reconnecting(ch) \in Nat
    BY CountNaturals
  <1>3. CASE StartCommand(d)
    <2>1. Reconnecting(ch)' = Reconnecting(ch) + Unit(ch = d)
      BY <1>3, EnterCount, StageNames DEF StartCommand, Underway
    <2>2. ch # d => asked'[ch] = asked[ch]
      BY <1>3 DEF StartCommand, TypeOK
    <2>3. CASE ch = d
      BY <1>2, <2>1, <2>3, ResumedKept DEF Unit
    <2>4. CASE ch # d
      BY <1>1, <1>2, <2>1, <2>2, <2>4, ResumedKept DEF Unit
    <2>5. QED BY <2>3, <2>4
  <1>4. CASE StopCommand(d) \/ DeleteCommand(d)
    <2>1. asked' = asked
      BY <1>4 DEF StopCommand, DeleteCommand
    <2>2. Reconnecting(ch)' = Reconnecting(ch)
      <3>1. CASE StopCommand(d)
        BY <3>1 DEF StopCommand, Reconnecting
      <3>2. CASE DeleteCommand(d)
        BY <1>2, <3>2, EnterCount, StageNames DEF DeleteCommand, Underway, Unit
      <3>3. QED BY <1>4, <3>1, <3>2
    <2>3. QED BY <1>1, <2>1, <2>2, ResumedKept
  <1>5. QED BY <1>3, <1>4

LEMMA ResumedStep ==
  ASSUME TypeOK, TypeOK', Resumed, NEW d \in Channels, Step(d)
  PROVE  Resumed'
  <1> SUFFICES ASSUME NEW ch \in Channels
               PROVE  asked'[ch] > 0 /\ said'[ch] = "reconnecting" => Reconnecting(ch)' > 0
    BY DEF Resumed
  <1>1. asked' = asked
    BY DEF Step, LoadAuth, LoadFails, OpenSocket, FetchFails, CreateFails, ArmTimer, Exhausted, GiveUp,
           TimerFires, RemoveAuth, ForgetLoggedOut, ShowQR
  <1>2. Reconnecting(ch) \in Nat
    BY CountNaturals
  <1>3. CASE LoadFails(d) \/ FetchFails(d) \/ OpenSocket(d) \/ Exhausted(d)
    <2>1. PICK word \in {"error", "connecting", "failed"} : Says(d, word)
      BY <1>3 DEF LoadFails, FetchFails, CreateFails, OpenSocket, Exhausted
    <2>2. said'[ch] = IF ch = d THEN word ELSE said[ch]
      BY <2>1 DEF Says, TypeOK
    <2>3. ch # d => Reconnecting(ch)' = Reconnecting(ch)
      BY <1>2, <1>3, LeaveCount, MoveCount, StageNames
         DEF LoadFails, FetchFails, OpenSocket, Exhausted, Underway, Unit
    <2>4. CASE ch = d
      BY <2>1, <2>2, <2>4, ResumedKept
    <2>5. CASE ch # d
      BY <1>1, <2>2, <2>3, <2>5, ResumedKept
    <2>6. QED BY <2>4, <2>5
  <1>4. CASE LoadAuth(d) \/ ArmTimer(d) \/ TimerFires(d)
    <2>1. said'[ch] = said[ch] \/ said'[ch] = "stopped"
      BY <1>4, ResumedStop DEF LoadAuth, ArmTimer, TimerFires, statusVars
    <2>2. Reconnecting(ch)' = Reconnecting(ch)
      BY <1>2, <1>4, MoveCount, StageNames DEF LoadAuth, ArmTimer, TimerFires, Underway, Unit
    <2>3. QED BY <1>1, <2>1, <2>2, ResumedKept
  <1>5. CASE GiveUp(d) \/ RemoveAuth(d) \/ ForgetLoggedOut(d) \/ ShowQR(d)
    <2>1. said'[ch] = said[ch] \/ said'[ch] \in {"deleted", "qr"}
      BY <1>5 DEF GiveUp, RemoveAuth, ForgetLoggedOut, ShowQR, Says, statusVars, TypeOK
    <2>2. Reconnecting(ch)' = Reconnecting(ch)
      BY <1>2, <1>5, LeaveCount, StageNames
         DEF GiveUp, RemoveAuth, ForgetLoggedOut, ShowQR, Underway, Unit
    <2>3. QED BY <1>1, <2>1, <2>2, ResumedKept
  <1>6. QED BY <1>3, <1>4, <1>5 DEF Step

LEMMA ResumedHandle ==
  ASSUME TypeOK, TypeOK', Resumed, HandleUpdate
  PROVE  Resumed'
  <1> SUFFICES ASSUME NEW ch \in Channels
               PROVE  asked'[ch] > 0 /\ said'[ch] = "reconnecting" => Reconnecting(ch)' > 0
    BY DEF Resumed
  <1>1. inflight # <<>> /\ asked' = asked
    BY DEF HandleUpdate, HandleQR, HandleOpen, HandleLost, HandleLoggedOut, Handle
  <1>2. Head(inflight) \in Pending
    BY <1>1, HeadTailProperties DEF TypeOK
  <1>3. Handled \in Channels
    BY <1>2 DEF Handled, Pending, TypeOK
  <1>4. Reconnecting(ch) \in Nat
    BY CountNaturals
  <1>5. CASE HandleLost
    <2>1. Reconnecting(ch)' = Reconnecting(ch) + Unit(ch = Handled)
      BY <1>3, <1>5, EnterCount, StageNames DEF HandleLost, Underway
    <2>2. ch # Handled => said'[ch] = said[ch]
      BY <1>3, <1>5 DEF HandleLost, Says, TypeOK
    <2>3. CASE ch = Handled
      BY <1>4, <2>1, <2>3, ResumedKept DEF Unit
    <2>4. CASE ch # Handled
      BY <1>1, <1>4, <2>1, <2>2, <2>4, ResumedKept DEF Unit
    <2>5. QED BY <2>3, <2>4
  <1>6. CASE HandleQR \/ HandleOpen \/ HandleLoggedOut
    <2>1. said'[ch] = said[ch] \/ said'[ch] \in {"connected", "disconnected"}
      BY <1>3, <1>6 DEF HandleQR, HandleOpen, HandleLoggedOut, Says, statusVars, TypeOK
    <2>2. Reconnecting(ch)' = Reconnecting(ch)
      <3>1. CASE HandleOpen
        BY <3>1 DEF HandleOpen, Reconnecting
      <3>2. CASE HandleQR \/ HandleLoggedOut
        BY <1>3, <1>4, <3>2, EnterCount, StageNames DEF HandleQR, HandleLoggedOut, Underway, Unit
      <3>3. QED BY <1>6, <3>1, <3>2
    <2>3. QED BY <1>1, <2>1, <2>2, ResumedKept
  <1>7. QED BY <1>5, <1>6 DEF HandleUpdate

LEMMA ResumedNext ==
  ASSUME TypeOK, TypeOK', Resumed, [Next]_vars
  PROVE  Resumed'
  <1>1. CASE UNCHANGED vars
    BY <1>1 DEF vars, statusVars, Resumed, Reconnecting
  <1>2. ASSUME NEW s \in Sockets, ~ Shutdown,
               \/ Register(s) \/ CredsUpdate(s) \/ SocketQR(s) \/ SocketOpens(s)
               \/ \E reason \in CloseReasons : SocketCloses(s, reason)
        PROVE  Resumed'
    <2>1. flows' = flows /\ asked' = asked /\ said' = said
      BY <1>2 DEF Register, CredsUpdate, SocketQR, SocketOpens, SocketCloses, statusVars
    <2>2. QED BY <2>1 DEF Resumed, Reconnecting
  <1>3. CASE Next
    BY <1>2, <1>3, ResumedCommand, ResumedStep, ResumedHandle, BackedReboot DEF Next
  <1>4. QED BY <1>1, <1>3

(* While Redis shows the last word of the engine: 'reconnecting' has a     *)
(* reconnection under way, and 'connected', for a channel asked for once,  *)
(* a live socket, a close that waits for its handler or a reconnection,    *)
(* unless a stop overtook the very 'open' it was said for.  Writes may     *)
(* fail at any time.                                                       *)
THEOREM LastWordBacked == Spec => []LastWordIsBacked
  <1>1. Init => Owned /\ Backing /\ Resumed
    <2>1. Init => Owned
      BY SocketAssumption DEF Init, Owned
    <2>2. Init => Backing /\ Resumed
      BY BackedBoot DEF Init
    <2>3. QED BY <2>1, <2>2
  <1>2. Bounded /\ Backing /\ Resumed => LastWordIsBacked
    <2> SUFFICES ASSUME Bounded, Backing, Resumed, NEW ch \in Channels, status[ch] = said[ch]
                 PROVE  /\ status[ch] = "reconnecting" /\ asked[ch] > 0 => Reconnecting(ch) > 0
                        /\ status[ch] = "connected" /\ asked[ch] = 1
                             => Backed(ch) \/ ch \in overtaken
      BY DEF LastWordIsBacked
    <2>1. status[ch] = "reconnecting" /\ asked[ch] > 0 => Reconnecting(ch) > 0
      BY DEF Resumed
    <2>2. ASSUME said[ch] = "connected", asked[ch] = 1, ch \notin overtaken,
                 ~ (Reconnecting(ch) > 0)
          PROVE  sessions[ch] \in live \/ Unheard(sessions[ch])
      <3>1. TypeOK /\ Shown(ch)
        BY <2>2 DEF Bounded, Backing, AskedOnce
      <3>2. PICK s \in Sockets : sessions[ch] = s /\ Answers(s)
        BY <2>2, <3>1 DEF Shown, Heard
      <3>3. QED BY <3>1, <3>2, UnheardIsClosing DEF Answers, TypeOK
    <2>3. QED BY <2>1, <2>2 DEF Backed
  <1>3. ASSUME Bounded, Bounded', NoOrphanSession, Owned, Backing, Resumed, [Next]_vars
        PROVE  Owned' /\ Backing' /\ Resumed'
    BY <1>3, OwnedNext, BackedNext, ResumedNext DEF Bounded
  <1>4. QED BY <1>1, <1>2, <1>3, AlwaysBounded, NoOrphanEver, PTL DEF Spec
=============================================================================
