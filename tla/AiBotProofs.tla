---------------------------- MODULE AiBotProofs ----------------------------
(* Theorems about the bot and the engine's loops at the other ends of its  *)
(* two lists, for any sockets, messages, chats and number of errors.       *)
EXTENDS AiBot, Counting

(***************************************************************************)
(* The type invariant needs that the bot has a message while it is at one, *)
(* and that the history it asks Claude with has room for the reply.        *)
(***************************************************************************)
AtWork ==
  /\ stage = "event" <=> current = Start
  /\ stage = "claude" => Len(histories[ChatOf[current]]) <= MaxHistory

TypeInv == TypeOK /\ AtWork

(* The types of what the engine and the bot do not share.                  *)
EngineTypes ==
  /\ conn \in [Sockets -> {"unmade", "connecting", "open", "closed"}]
  /\ opening \in Nat /\ timers \in Nat
  /\ looping \subseteq Loops
  /\ sending \in [Loops -> Messages \union {Start}]

BotTypes ==
  /\ stage \in {"event", "claude", "push"}
  /\ current \in Messages \union {Start}
  /\ histories \in [Chats -> Seq(Turns)]
  /\ \A c \in Chats : Len(histories[c]) <= MaxHistory + 1
  /\ talk \in [Chats -> Seq(Turns)]
  /\ unanswered \subseteq Messages
  /\ lost \subseteq Messages
  /\ errors \in 0..MaxErrors

Shared ==
  /\ cmds \in Seq(Messages \union {Start})
  /\ arrived \subseteq Messages
  /\ events \in Seq(Messages)
  /\ sent \in Seq(Messages)
  /\ dropped \subseteq Messages

LEMMA TypeParts == TypeInv <=> EngineTypes /\ BotTypes /\ Shared /\ AtWork
  BY DEF TypeInv, TypeOK, EngineTypes, BotTypes, Shared

LEMMA TypeInit == Init => TypeInv
  <1> SUFFICES ASSUME Init PROVE TypeInv
    OBVIOUS
  <1>1. EngineTypes
    BY DEF Init, ConnectInit, EngineTypes, Loops
  <1>2. histories = [c \in Chats |-> <<>>] /\ talk = [c \in Chats |-> <<>>]
    BY DEF Init
  <1>3. <<>> \in Seq(Turns) /\ Len(<<>>) = 0 /\ MaxHistory \in Nat /\ MaxErrors \in Nat
    BY EmptySeq, BotAssumption
  <1>4. BotTypes
    <2>1. histories \in [Chats -> Seq(Turns)] /\ talk \in [Chats -> Seq(Turns)]
      BY <1>2, <1>3
    <2>2. \A c \in Chats : Len(histories[c]) <= MaxHistory + 1
      BY <1>2, <1>3
    <2>3. QED BY <1>3, <2>1, <2>2 DEF Init, BotTypes
  <1>5. Shared
    BY EmptySeq DEF Init, ConnectInit, Shared
  <1>6. AtWork
    BY DEF Init, AtWork
  <1>7. QED BY <1>1, <1>4, <1>5, <1>6, TypeParts

(***************************************************************************)
(* Types, the engine's steps.                                              *)
(***************************************************************************)
LEMMA BotStays ==
  ASSUME BotTypes, AtWork, UNCHANGED botVars
  PROVE  BotTypes' /\ AtWork'
  BY DEF BotTypes, AtWork, botVars

LEMMA TypeEngine ==
  ASSUME TypeInv, UNCHANGED botVars,
         \/ Connects \/ TimerFires \/ Starts
         \/ \E s \in Sockets : Opens(s) \/ Closes(s)
         \/ \E m \in Messages : Receives(m)
         \/ \E l \in Loops : Pops(l) \/ Sends(l)
  PROVE  TypeInv'
  <1>0. EngineTypes /\ BotTypes /\ Shared /\ AtWork /\ BotTypes' /\ AtWork'
    BY TypeParts, BotStays
  <1> SUFFICES EngineTypes' /\ Shared'
    BY <1>0 DEF TypeInv, TypeOK, EngineTypes, BotTypes, Shared
  <1> USE DEF EngineTypes, Shared, Loops
  <1>1. CASE Connects
    BY <1>0, <1>1 DEF Connects, Unmade
  <1>2. CASE TimerFires
    BY <1>0, <1>2 DEF TimerFires
  <1>3. CASE Starts
    <2>1. cmds' \in Seq(Messages \union {Start})
      BY <1>0, <1>3, AppendProperties DEF Starts
    <2>2. QED BY <1>0, <1>3, <2>1 DEF Starts
  <1>4. ASSUME NEW s \in Sockets, Opens(s) \/ Closes(s) PROVE EngineTypes' /\ Shared'
    <2>1. conn' = [conn EXCEPT ![s] = "open"] \/ conn' = [conn EXCEPT ![s] = "closed"]
      BY <1>4 DEF Opens, Closes
    <2>2. conn' \in [Sockets -> {"unmade", "connecting", "open", "closed"}]
      BY <1>0, <2>1
    <2>3. timers' \in Nat /\ UNCHANGED <<opening, looping, sending, cmds, arrived, events, sent, dropped>>
      BY <1>0, <1>4 DEF Opens, Closes
    <2>4. QED BY <1>0, <2>2, <2>3
  <1>5. ASSUME NEW m \in Messages, Receives(m) PROVE EngineTypes' /\ Shared'
    BY <1>0, <1>5, AppendProperties DEF Receives
  <1>6. ASSUME NEW l \in Loops, Pops(l) PROVE EngineTypes' /\ Shared'
    <2>1. Head(cmds) \in Messages \union {Start} /\ cmds' \in Seq(Messages \union {Start})
      BY <1>0, <1>6, HeadTailProperties DEF Pops
    <2>2. dropped' \subseteq Messages /\ opening' \in Nat
      BY <1>0, <1>6, <2>1 DEF Pops
    <2>3. sending' \in [Loops -> Messages \union {Start}]
      BY <1>0, <1>6, <2>1 DEF Pops
    <2>4. QED BY <1>0, <1>6, <2>1, <2>2, <2>3 DEF Pops
  <1>7. ASSUME NEW l \in Loops, Sends(l) PROVE EngineTypes' /\ Shared'
    <2>1. sending[l] \in Messages /\ sending' \in [Loops -> Messages \union {Start}]
      BY <1>0, <1>7 DEF Sends
    <2>2. Append(sent, sending[l]) \in Seq(Messages)
      BY <1>0, <2>1, AppendProperties
    <2>3. \/ sent' = Append(sent, sending[l]) /\ dropped' = dropped
          \/ sent' = sent /\ dropped' = dropped \union {sending[l]}
      BY <1>7 DEF Sends
    <2>4. sent' \in Seq(Messages) /\ dropped' \subseteq Messages
      BY <1>0, <2>1, <2>2, <2>3
    <2>5. QED BY <1>0, <1>7, <2>1, <2>4 DEF Sends
  <1>8. QED BY <1>1, <1>2, <1>3, <1>4, <1>5, <1>6, <1>7

(***************************************************************************)
(* Types, the bot's steps.                                                 *)
(***************************************************************************)
LEMMA RecentKeeps ==
  ASSUME NEW turns \in Seq(Turns)
  PROVE  /\ Recent(turns) \in Seq(Turns)
         /\ Len(Recent(turns)) = IF Len(turns) > MaxHistory THEN MaxHistory ELSE Len(turns)
         /\ \A i \in 1..Len(Recent(turns)) :
               Recent(turns)[i] = turns[Len(turns) - Len(Recent(turns)) + i]
  <1>1. Len(turns) \in Nat /\ MaxHistory \in Nat \ {0} /\ \A i \in 1..Len(turns) : turns[i] \in Turns
    BY BotAssumption, LenProperties, ElementOfSeq
  <1>2. CASE Len(turns) > MaxHistory
    <2> DEFINE from == Len(turns) - MaxHistory + 1
    <2>1. Recent(turns) = SubSeq(turns, from, Len(turns))
      BY <1>2 DEF Recent
    <2>2. from \in Int /\ Len(turns) \in Int /\ \A i \in from..Len(turns) : turns[i] \in Turns
      BY <1>1, <1>2
    <2> HIDE DEF from
    <2>3. /\ SubSeq(turns, from, Len(turns)) \in Seq(Turns)
          /\ Len(SubSeq(turns, from, Len(turns))) =
               IF from <= Len(turns) THEN Len(turns) - from + 1 ELSE 0
          /\ \A i \in 1..(Len(turns) - from + 1) :
                SubSeq(turns, from, Len(turns))[i] = turns[from + i - 1]
      BY <2>2, SubSeqProperties
    <2>4. QED BY <1>1, <1>2, <2>1, <2>3 DEF from
  <1>3. CASE ~ (Len(turns) > MaxHistory)
    BY <1>1, <1>3 DEF Recent
  <1>4. QED BY <1>2, <1>3

LEMMA HistoryChanges ==
  ASSUME BotTypes, NEW c \in Chats, NEW turns \in Seq(Turns), Len(turns) <= MaxHistory + 1,
         NEW x \in Turns,
         histories' = [histories EXCEPT ![c] = turns],
         talk' = [talk EXCEPT ![c] = Append(talk[c], x)]
  PROVE  /\ histories' \in [Chats -> Seq(Turns)]
         /\ \A d \in Chats : Len(histories'[d]) <= MaxHistory + 1
         /\ talk' \in [Chats -> Seq(Turns)]
  <1>1. histories \in [Chats -> Seq(Turns)] /\ talk \in [Chats -> Seq(Turns)]
        /\ \A d \in Chats : Len(histories[d]) <= MaxHistory + 1
    BY DEF BotTypes
  <1>2. Append(talk[c], x) \in Seq(Turns)
    BY <1>1, AppendProperties
  <1>3. histories'[c] = turns /\ \A d \in Chats \ {c} : histories'[d] = histories[d]
    BY <1>1
  <1>4. histories' \in [Chats -> Seq(Turns)]
    BY <1>1
  <1>5. \A d \in Chats : Len(histories'[d]) <= MaxHistory + 1
    BY <1>1, <1>3
  <1>6. talk' \in [Chats -> Seq(Turns)]
    BY <1>1, <1>2
  <1>7. QED BY <1>4, <1>5, <1>6

LEMMA TypeReads ==
  ASSUME TypeInv, Reads
  PROVE  TypeInv'
  <1>1. PICK m : m = Head(events)
    OBVIOUS
  <1>2. m \in Messages /\ events' \in Seq(Messages) /\ m # Start
    BY <1>1, HeadTailProperties, CommandAssumption DEF Reads, TypeInv, TypeOK
  <1>3. PICK c \in Chats : c = ChatOf[m]
    BY <1>2, BotAssumption
  <1>4. PICK x \in Turns : x = Turn("user", m)
    BY <1>2 DEF Turn, Turns, Roles
  <1>5. BotTypes /\ MaxHistory \in Nat /\ histories[c] \in Seq(Turns)
    BY BotAssumption DEF BotTypes, TypeInv, TypeOK
  <1>6. PICK turns : turns = Recent(Append(histories[c], x))
    OBVIOUS
  <1>7. turns \in Seq(Turns) /\ Len(turns) <= MaxHistory
    <2>1. PICK more : more = Append(histories[c], x)
      OBVIOUS
    <2>2. more \in Seq(Turns) /\ Len(more) \in Nat
      BY <1>5, <2>1, AppendProperties, LenProperties
    <2>3. turns \in Seq(Turns)
          /\ Len(turns) = IF Len(more) > MaxHistory THEN MaxHistory ELSE Len(more)
      BY <1>6, <2>1, <2>2, RecentKeeps
    <2>4. QED BY <1>5, <2>2, <2>3
  <1>8. /\ histories' = [histories EXCEPT ![c] = turns]
        /\ talk' = [talk EXCEPT ![c] = Append(talk[c], x)]
    BY <1>1, <1>3, <1>4, <1>6 DEF Reads
  <1>9. Len(turns) \in Nat /\ Len(turns) <= MaxHistory + 1
    BY <1>5, <1>7, LenProperties
  <1>10. /\ histories' \in [Chats -> Seq(Turns)]
         /\ \A d \in Chats : Len(histories'[d]) <= MaxHistory + 1
         /\ talk' \in [Chats -> Seq(Turns)]
    BY <1>5, <1>7, <1>8, <1>9, HistoryChanges
  <1>11. current' = m /\ histories'[ChatOf[current']] = turns
    BY <1>1, <1>3, <1>5, <1>8 DEF Reads, BotTypes
  <1>12. AtWork'
    BY <1>2, <1>7, <1>11 DEF Reads, AtWork
  <1>13. QED BY <1>1, <1>2, <1>10, <1>12 DEF TypeInv, TypeOK, Reads

LEMMA TypeAnswers ==
  ASSUME TypeInv, Answers
  PROVE  TypeInv'
  <1>1. current \in Messages /\ Len(histories[ChatOf[current]]) <= MaxHistory
    BY DEF Answers, TypeInv, TypeOK, AtWork
  <1>2. PICK c \in Chats : c = ChatOf[current]
    BY <1>1, BotAssumption
  <1>3. PICK x \in Turns : x = Turn("assistant", current)
    BY <1>1 DEF Turn, Turns, Roles
  <1>4. BotTypes /\ MaxHistory \in Nat /\ histories[c] \in Seq(Turns) /\ Len(histories[c]) \in Nat
    BY BotAssumption, LenProperties DEF BotTypes, TypeInv, TypeOK
  <1>5. PICK turns : turns = Append(histories[c], x)
    OBVIOUS
  <1>6. turns \in Seq(Turns) /\ Len(turns) <= MaxHistory + 1
    BY <1>1, <1>2, <1>4, <1>5, AppendProperties
  <1>7. /\ histories' = [histories EXCEPT ![c] = turns]
        /\ talk' = [talk EXCEPT ![c] = Append(talk[c], x)]
    BY <1>2, <1>3, <1>5 DEF Answers
  <1>8. /\ histories' \in [Chats -> Seq(Turns)]
        /\ \A d \in Chats : Len(histories'[d]) <= MaxHistory + 1
        /\ talk' \in [Chats -> Seq(Turns)]
    BY <1>4, <1>6, <1>7, HistoryChanges
  <1>9. AtWork'
    BY DEF Answers, TypeInv, AtWork
  <1>10. QED BY <1>8, <1>9 DEF TypeInv, TypeOK, Answers, connectVars

LEMMA TypeClaudeFails ==
  ASSUME TypeInv, ClaudeFails
  PROVE  TypeInv'
  BY DEF TypeInv, TypeOK, AtWork, ClaudeFails, connectVars

LEMMA TypeReplies ==
  ASSUME TypeInv, Replies
  PROVE  TypeInv'
  <1>1. cmds' \in Seq(Messages \union {Start})
    BY AppendProperties DEF TypeInv, TypeOK, Replies
  <1>2. QED BY <1>1 DEF TypeInv, TypeOK, AtWork, Replies

LEMMA TypeRedisFails ==
  ASSUME TypeInv, RedisFails
  PROVE  TypeInv'
  <1>1. errors' \in 0..MaxErrors
    BY BotAssumption DEF RedisFails, TypeInv, TypeOK
  <1>2. events' \in Seq(Messages) /\ lost' \subseteq Messages
    <2>1. CASE events # <<>> /\ events' = Tail(events) /\ lost' = lost \union {Head(events)}
      <3>1. Tail(events) \in Seq(Messages) /\ Head(events) \in Messages
        BY <2>1, HeadTailProperties DEF TypeInv, TypeOK
      <3>2. QED BY <2>1, <3>1 DEF TypeInv, TypeOK
    <2>2. CASE stage = "push" /\ lost' = lost \union {current} /\ UNCHANGED events
      BY <2>2 DEF TypeInv, TypeOK, AtWork
    <2>3. QED BY <2>1, <2>2 DEF RedisFails
  <1>3. QED BY <1>1, <1>2 DEF TypeInv, TypeOK, AtWork, RedisFails

LEMMA TypeEngineErrs ==
  ASSUME TypeInv, EngineErrs
  PROVE  TypeInv'
  <1>1. errors' \in 0..MaxErrors
    BY BotAssumption DEF EngineErrs, TypeInv, TypeOK
  <1>2. ASSUME NEW l \in Loops, PopLost(l), UNCHANGED lost
        PROVE  EngineTypes' /\ Shared' /\ lost' \subseteq Messages
    <2>1. Head(cmds) \in Messages \union {Start} /\ cmds' \in Seq(Messages \union {Start})
      BY <1>2, HeadTailProperties DEF PopLost, TypeInv, TypeOK
    <2>2. QED BY <1>2, <2>1 DEF PopLost, EngineTypes, Shared, TypeInv, TypeOK
  <1>3. ASSUME NEW unpushed, Dies(unpushed), lost' = lost \union unpushed
        PROVE  EngineTypes' /\ Shared' /\ lost' \subseteq Messages
    <2>1. conn' \in [Sockets -> {"unmade", "connecting", "open", "closed"}]
      BY <1>3 DEF Dies, TypeInv, TypeOK
    <2>2. sending' \in [Loops -> Messages \union {Start}]
      BY <1>3 DEF Dies
    <2>3. \A l \in Loops : sending[l] \in Messages \union {Start}
      BY DEF TypeInv, TypeOK
    <2>4. dropped' \subseteq Messages
      BY <1>3, <2>3 DEF Dies, TypeInv, TypeOK
    <2>5. QED BY <1>3, <2>1, <2>2, <2>4 DEF Dies, EngineTypes, Shared, TypeInv, TypeOK
  <1>4. EngineTypes' /\ Shared' /\ lost' \subseteq Messages
    BY <1>2, <1>3 DEF EngineErrs
  <1>5. BotTypes' /\ AtWork'
    BY <1>1, <1>4 DEF EngineErrs, TypeInv, TypeOK, BotTypes, AtWork
  <1>6. QED BY <1>4, <1>5 DEF TypeInv, TypeOK, EngineTypes, BotTypes, Shared

LEMMA TypeNext ==
  ASSUME TypeInv, [Next]_vars
  PROVE  TypeInv'
  <1>1. CASE BotNext
    BY <1>1, TypeReads, TypeAnswers, TypeClaudeFails, TypeReplies, TypeRedisFails DEF BotNext
  <1>2. CASE UNCHANGED vars
    BY <1>2 DEF TypeInv, TypeOK, AtWork, vars, connectVars, botVars
  <1>3. QED BY <1>1, <1>2, TypeEngine, TypeEngineErrs DEF Next

(* The variables hold what their names say, in every state; a history is   *)
(* at most one turn over its limit, however many messages a chat has.      *)
THEOREM TypeCorrect == Spec => []TypeOK
  <1>1. Init => TypeInv
    BY TypeInit
  <1>2. TypeInv /\ [Next]_vars => TypeInv'
    BY TypeNext
  <1>3. TypeInv => TypeOK
    BY DEF TypeInv
  <1>4. QED BY <1>1, <1>2, <1>3, PTL DEF Spec

(***************************************************************************)
(* Where a message, or its reply, is.                                      *)
(***************************************************************************)
Tokens(m) ==
  Cardinality(Spots(events, {m})) + Cardinality(Spots(cmds, {m}))
  + Cardinality(Holders(sending, {m})) + Cardinality(Spots(sent, {m}))
  + ZeroOne(m \in dropped) + ZeroOne(m \in unanswered) + ZeroOne(m \in lost) + ZeroOne(m = current)

CountInv ==
  \A m \in Messages : IsFiniteSet(Holders(sending, {m})) /\ Tokens(m) = ZeroOne(m \in arrived)

LEMMA CountInit == Init => CountInv
  <1> SUFFICES ASSUME Init, NEW m \in Messages
               PROVE  IsFiniteSet(Holders(sending, {m})) /\ Tokens(m) = ZeroOne(m \in arrived)
    BY DEF CountInv
  <1>1. /\ Cardinality(Spots(events, {m})) = 0 /\ Cardinality(Spots(cmds, {m})) = 0
        /\ Cardinality(Spots(sent, {m})) = 0
    BY SpotsEmpty DEF Init, ConnectInit
  <1>2. IsFiniteSet(Holders(sending, {m})) /\ Cardinality(Holders(sending, {m})) = 0
    <2>1. \A l \in DOMAIN sending : sending[l] \notin {m}
      BY CommandAssumption DEF Init, ConnectInit
    <2>2. QED BY <2>1, HoldersConstant
  <1>3. arrived = {} /\ dropped = {} /\ unanswered = {} /\ lost = {} /\ m # current
    BY CommandAssumption DEF Init, ConnectInit
  <1>4. QED BY <1>1, <1>2, <1>3 DEF Tokens, ZeroOne

LEMMA CountNats ==
  ASSUME TypeInv, CountInv, NEW m \in Messages
  PROVE  /\ Cardinality(Spots(events, {m})) \in Nat /\ Cardinality(Spots(cmds, {m})) \in Nat
         /\ Cardinality(Spots(sent, {m})) \in Nat
         /\ IsFiniteSet(Holders(sending, {m})) /\ Cardinality(Holders(sending, {m})) \in Nat
  BY SpotsFinite, FS_CardinalityType DEF TypeInv, TypeOK, CountInv

(* A message that the engine receives.                                     *)
LEMMA CountReceives ==
  ASSUME TypeInv, CountInv, NEW n \in Messages, Receives(n), UNCHANGED botVars
  PROVE  CountInv'
  <1> SUFFICES ASSUME NEW m \in Messages
               PROVE  IsFiniteSet(Holders(sending, {m})') /\ Tokens(m)' = ZeroOne(m \in arrived)'
    BY DEF CountInv
  <1>1. Cardinality(Spots(events, {m}))' = Cardinality(Spots(events, {m})) + ZeroOne(n \in {m})
    BY SpotsAppend DEF Receives, TypeInv, TypeOK
  <1>2. ZeroOne(m \in arrived') = ZeroOne(m \in arrived) + ZeroOne(n \in {m})
    BY DEF Receives, ZeroOne
  <1>3. UNCHANGED <<cmds, sending, sent, dropped, unanswered, lost, current>>
    BY DEF Receives, botVars
  <1>4. Tokens(m) = ZeroOne(m \in arrived) /\ IsFiniteSet(Holders(sending, {m}))
    BY DEF CountInv
  <1>5. Tokens(m)' = Tokens(m) + ZeroOne(n \in {m})
    BY <1>1, <1>3, CountNats DEF Tokens, ZeroOne
  <1>6. QED BY <1>2, <1>3, <1>4, <1>5

(* A command that no bot sent is no place of a message.                    *)
LEMMA CountStarts ==
  ASSUME TypeInv, CountInv, Starts, UNCHANGED botVars
  PROVE  CountInv'
  <1> SUFFICES ASSUME NEW m \in Messages
               PROVE  IsFiniteSet(Holders(sending, {m})') /\ Tokens(m)' = ZeroOne(m \in arrived)'
    BY DEF CountInv
  <1>1. Cardinality(Spots(cmds, {m}))' = Cardinality(Spots(cmds, {m})) + ZeroOne(Start \in {m})
    <2>1. Start \in Messages \union {Start} /\ cmds \in Seq(Messages \union {Start})
          /\ cmds' = Append(cmds, Start)
      BY DEF Starts, TypeInv, TypeOK
    <2>2. QED BY <2>1, SpotsAppend
  <1>2. ZeroOne(Start \in {m}) = 0
    BY CommandAssumption DEF ZeroOne
  <1>3. UNCHANGED <<arrived, events, sending, sent, dropped, unanswered, lost, current>>
    BY DEF Starts, botVars
  <1>4. Tokens(m) = ZeroOne(m \in arrived) /\ IsFiniteSet(Holders(sending, {m}))
    BY DEF CountInv
  <1>5. Tokens(m)' = Tokens(m)
    BY <1>1, <1>2, <1>3, CountNats DEF Tokens
  <1>6. QED BY <1>3, <1>4, <1>5

LEMMA SendingChanges ==
  ASSUME TypeInv, CountInv, NEW m \in Messages, NEW l \in Loops, NEW x,
         DOMAIN sending' = Loops, sending'[l] = x, \A k \in Loops \ {l} : sending'[k] = sending[k]
  PROVE  /\ IsFiniteSet(Holders(sending', {m}))
         /\ Cardinality(Holders(sending', {m})) \in Nat
         /\ Cardinality(Holders(sending', {m})) + ZeroOne(m = sending[l])
               = Cardinality(Holders(sending, {m})) + ZeroOne(m = x)
  <1>1. PICK f : f = sending
    OBVIOUS
  <1>2. PICK g : g = sending'
    OBVIOUS
  <1>3. PICK V : V = {m}
    OBVIOUS
  <1>4. l \in DOMAIN f /\ DOMAIN g = DOMAIN f /\ g[l] = x /\ \A v \in DOMAIN f \ {l} : g[v] = f[v]
    BY <1>1, <1>2 DEF TypeInv, TypeOK
  <1>5. IsFiniteSet(Holders(f, V))
    BY <1>1, <1>3 DEF CountInv
  <1>6. /\ IsFiniteSet(Holders(g, V))
        /\ Cardinality(Holders(g, V)) \in Nat
        /\ Cardinality(Holders(g, V)) + ZeroOne(f[l] \in V)
              = Cardinality(Holders(f, V)) + ZeroOne(x \in V)
    BY <1>4, <1>5, HoldersExcept
  <1>7. ZeroOne(f[l] \in V) = ZeroOne(m = sending[l]) /\ ZeroOne(x \in V) = ZeroOne(m = x)
    BY <1>1, <1>3 DEF ZeroOne
  <1>8. QED BY <1>1, <1>2, <1>3, <1>6, <1>7

(* A loop pops a command; the one without a socket drops it, as does one   *)
(* that does not get the answer.                                           *)
LEMMA CountPops ==
  ASSUME TypeInv, CountInv, NEW l \in Loops, sending[l] = Start, cmds # <<>>, cmds' = Tail(cmds),
         DOMAIN sending' = Loops, \A k \in Loops \ {l} : sending'[k] = sending[k],
         \/ sending'[l] = Head(cmds) /\ dropped' = dropped
         \/ sending'[l] = Start /\ dropped' = (dropped \union {Head(cmds)}) \ {Start},
         UNCHANGED <<arrived, events, sent, unanswered, lost, current>>
  PROVE  CountInv'
  <1> SUFFICES ASSUME NEW m \in Messages
               PROVE  IsFiniteSet(Holders(sending, {m})') /\ Tokens(m)' = ZeroOne(m \in arrived)'
    BY DEF CountInv
  <1>0. PICK h : h = Head(cmds)
    OBVIOUS
  <1>1. /\ Cardinality(Spots(cmds', {m})) + ZeroOne(m = h) = Cardinality(Spots(cmds, {m}))
        /\ Cardinality(Spots(cmds', {m})) \in Nat
    <2>1. cmds \in Seq(Messages \union {Start}) /\ Tail(cmds) \in Seq(Messages \union {Start})
      BY HeadTailProperties DEF TypeInv, TypeOK
    <2>2. Cardinality(Spots(Tail(cmds), {m})) + ZeroOne(Head(cmds) \in {m})
            = Cardinality(Spots(cmds, {m}))
      BY <2>1, SpotsTail
    <2>3. ZeroOne(Head(cmds) \in {m}) = ZeroOne(m = h)
      BY <1>0 DEF ZeroOne
    <2>4. QED BY <2>1, <2>2, <2>3, SpotsFinite
  <1>2. m # Start
    BY CommandAssumption
  <1>3. Tokens(m) = ZeroOne(m \in arrived)
        /\ Cardinality(Spots(cmds, {m})) \in Nat /\ Cardinality(Holders(sending, {m})) \in Nat
        /\ Cardinality(Spots(events, {m})) \in Nat /\ Cardinality(Spots(sent, {m})) \in Nat
        /\ ZeroOne(m = sending[l]) = 0 /\ ZeroOne(m = Start) = 0
        /\ ZeroOne(m = h) \in {0, 1}
    BY <1>2, CountNats DEF CountInv, ZeroOne
  <1>4. CASE sending'[l] = h /\ dropped' = dropped
    <2>1. /\ IsFiniteSet(Holders(sending', {m}))
          /\ Cardinality(Holders(sending', {m})) \in Nat
          /\ Cardinality(Holders(sending', {m})) + ZeroOne(m = sending[l])
                = Cardinality(Holders(sending, {m})) + ZeroOne(m = h)
      BY <1>4, SendingChanges
    <2>2. Cardinality(Spots(cmds', {m})) + Cardinality(Holders(sending', {m}))
            = Cardinality(Spots(cmds, {m})) + Cardinality(Holders(sending, {m}))
      BY <1>1, <1>3, <2>1
    <2>3. Tokens(m)' = Tokens(m)
      <3>1. PICK e \in Nat, c \in Nat, p \in Nat, k \in Nat, q \in Nat, s \in Nat :
              /\ e = Cardinality(Spots(events, {m})) /\ s = Cardinality(Spots(sent, {m}))
              /\ c = Cardinality(Spots(cmds, {m})) /\ p = Cardinality(Spots(cmds', {m}))
              /\ k = Cardinality(Holders(sending, {m})) /\ q = Cardinality(Holders(sending', {m}))
        BY <1>1, <1>3, <2>1
      <3>2. PICK d \in Int, u \in Int, f \in Int, g \in Int :
              /\ d = ZeroOne(m \in dropped) /\ u = ZeroOne(m \in unanswered)
              /\ f = ZeroOne(m \in lost) /\ g = ZeroOne(m = current)
        BY DEF ZeroOne
      <3>3. UNCHANGED <<events, sent, dropped, unanswered, lost, current>>
        BY <1>4
      <3>4. p + q = c + k
        BY <2>2, <3>1
      <3>5. p = c + k - q
        BY <3>4
      <3>6. Tokens(m) = e + c + k + s + d + u + f + g
        BY <3>1, <3>2 DEF Tokens
      <3>7. Tokens(m)' = e + p + q + s + d + u + f + g
        BY <3>1, <3>2, <3>3 DEF Tokens
      <3>8. QED BY <3>5, <3>6, <3>7, SMTT(30)
    <2>4. QED BY <1>3, <2>1, <2>3
  <1>5. CASE sending'[l] = Start /\ dropped' = (dropped \union {h}) \ {Start}
    <2>1. /\ IsFiniteSet(Holders(sending', {m}))
          /\ Cardinality(Holders(sending', {m})) \in Nat
          /\ Cardinality(Holders(sending', {m})) + ZeroOne(m = sending[l])
                = Cardinality(Holders(sending, {m})) + ZeroOne(m = Start)
      BY <1>5, SendingChanges
    <2>2. Cardinality(Holders(sending', {m})) = Cardinality(Holders(sending, {m}))
      BY <1>3, <2>1
    <2>3. m = h => m \notin dropped
      <3>1. SUFFICES ASSUME m = h, m \in dropped PROVE FALSE
        OBVIOUS
      <3>2. Cardinality(Spots(cmds, {m})) >= 1
        BY <1>1, <3>1 DEF ZeroOne
      <3>3. QED BY <1>3, <3>1, <3>2, CountNats DEF Tokens, ZeroOne
    <2>4. ZeroOne(m \in dropped') = ZeroOne(m \in dropped) + ZeroOne(m = h)
      BY <1>2, <1>5, <2>3 DEF ZeroOne
    <2>5. Tokens(m)' = Tokens(m)
      BY <1>1, <2>1, <2>2, <2>4, CountNats, SMTT(30) DEF Tokens, ZeroOne
    <2>6. QED BY <1>3, <2>1, <2>5
  <1>6. QED BY <1>0, <1>4, <1>5

(* A reply reaches WhatsApp, or its send rejects.                          *)
LEMMA CountSends ==
  ASSUME TypeInv, CountInv, NEW l \in Loops, sending[l] # Start,
         DOMAIN sending' = Loops, sending'[l] = Start, \A k \in Loops \ {l} : sending'[k] = sending[k],
         \/ sent' = Append(sent, sending[l]) /\ dropped' = dropped
         \/ sent' = sent /\ dropped' = dropped \union {sending[l]},
         UNCHANGED <<arrived, cmds, events>>, UNCHANGED botVars
  PROVE  CountInv'
  <1> SUFFICES ASSUME NEW m \in Messages
               PROVE  IsFiniteSet(Holders(sending, {m})') /\ Tokens(m)' = ZeroOne(m \in arrived)'
    BY DEF CountInv
  <1>0. PICK r \in Messages : r = sending[l]
    BY DEF TypeInv, TypeOK
  <1>1. /\ IsFiniteSet(Holders(sending', {m}))
        /\ Cardinality(Holders(sending', {m})) \in Nat
        /\ Cardinality(Holders(sending', {m})) + ZeroOne(m = sending[l])
              = Cardinality(Holders(sending, {m})) + ZeroOne(m = Start)
    BY SendingChanges
  <1>2. Tokens(m) = ZeroOne(m \in arrived)
        /\ Cardinality(Spots(cmds, {m})) \in Nat /\ Cardinality(Holders(sending, {m})) \in Nat
        /\ Cardinality(Spots(events, {m})) \in Nat /\ Cardinality(Spots(sent, {m})) \in Nat
        /\ ZeroOne(m = Start) = 0 /\ ZeroOne(m = r) \in {0, 1}
    BY CommandAssumption, CountNats DEF CountInv, ZeroOne
  <1>3. CASE sent' = Append(sent, r) /\ dropped' = dropped
    <2>1. Cardinality(Spots(sent', {m})) = Cardinality(Spots(sent, {m})) + ZeroOne(m = r)
      <3>1. Cardinality(Spots(Append(sent, r), {m})) = Cardinality(Spots(sent, {m})) + ZeroOne(r \in {m})
        BY SpotsAppend DEF TypeInv, TypeOK
      <3>2. ZeroOne(r \in {m}) = ZeroOne(m = r)
        BY DEF ZeroOne
      <3>3. QED BY <1>3, <3>1, <3>2
    <2>2. Cardinality(Holders(sending', {m})) + Cardinality(Spots(sent', {m}))
            = Cardinality(Holders(sending, {m})) + Cardinality(Spots(sent, {m}))
      BY <1>0, <1>1, <1>2, <2>1
    <2>3. UNCHANGED <<cmds, events, dropped, unanswered, lost, current>>
      BY <1>3 DEF botVars
    <2>4. Cardinality(Spots(sent', {m})) \in Nat
      BY <1>2, <2>1
    <2>5. Tokens(m)' = Tokens(m)
      <3>1. PICK h \in Nat, i \in Nat, s \in Nat, t \in Nat :
                 /\ h = Cardinality(Holders(sending, {m})) /\ i = Cardinality(Holders(sending', {m}))
                 /\ s = Cardinality(Spots(sent, {m})) /\ t = Cardinality(Spots(sent', {m}))
        BY <1>1, <1>2, <2>4
      <3>2. PICK a \in Nat, c \in Nat, d \in Int, e \in Int, f \in Int, g \in Int :
                 /\ a = Cardinality(Spots(events, {m})) /\ c = Cardinality(Spots(cmds, {m}))
                 /\ d = ZeroOne(m \in dropped) /\ e = ZeroOne(m \in unanswered)
                 /\ f = ZeroOne(m \in lost) /\ g = ZeroOne(m = current)
        BY <1>2 DEF ZeroOne
      <3>3. i + t = h + s
        BY <2>2, <3>1
      <3>4. Tokens(m) = a + c + h + s + d + e + f + g
        BY <3>1, <3>2 DEF Tokens
      <3>5. Tokens(m)' = a + c + i + t + d + e + f + g
        BY <2>3, <3>1, <3>2 DEF Tokens
      <3>6. i = h + s - t
        BY <3>3
      <3>7. QED BY <3>4, <3>5, <3>6, SMTT(30)
    <2>6. QED BY <1>1, <1>2, <2>5
  <1>4. CASE sent' = sent /\ dropped' = dropped \union {r}
    <2>1. m = r => m \notin dropped
      <3>1. SUFFICES ASSUME m = r, m \in dropped PROVE FALSE
        OBVIOUS
      <3>2. Cardinality(Holders(sending, {m})) >= 1
        BY <1>0, <1>1, <1>2, <3>1 DEF ZeroOne
      <3>3. QED BY <1>2, <3>1, <3>2 DEF Tokens, ZeroOne
    <2>2. ZeroOne(m \in dropped') = ZeroOne(m \in dropped) + ZeroOne(m = r)
      BY <1>4, <2>1 DEF ZeroOne
    <2>3. Cardinality(Holders(sending', {m})) + ZeroOne(m \in dropped')
            = Cardinality(Holders(sending, {m})) + ZeroOne(m \in dropped)
      BY <1>0, <1>1, <1>2, <2>2 DEF ZeroOne
    <2>4. UNCHANGED <<cmds, events, sent, unanswered, lost, current>>
      BY <1>4 DEF botVars
    <2>5. Tokens(m)' = Tokens(m)
      <3>1. PICK h \in Nat, i \in Nat, d \in Int, x \in Int :
                 /\ h = Cardinality(Holders(sending, {m})) /\ i = Cardinality(Holders(sending', {m}))
                 /\ d = ZeroOne(m \in dropped) /\ x = ZeroOne(m \in dropped')
        BY <1>1, <1>2 DEF ZeroOne
      <3>2. PICK a \in Nat, c \in Nat, s \in Nat, e \in Int, f \in Int, g \in Int :
                 /\ a = Cardinality(Spots(events, {m})) /\ c = Cardinality(Spots(cmds, {m}))
                 /\ s = Cardinality(Spots(sent, {m})) /\ e = ZeroOne(m \in unanswered)
                 /\ f = ZeroOne(m \in lost) /\ g = ZeroOne(m = current)
        BY <1>2 DEF ZeroOne
      <3>3. i + x = h + d
        BY <2>3, <3>1
      <3>4. Tokens(m) = a + c + h + s + d + e + f + g
        BY <3>1, <3>2 DEF Tokens
      <3>5. Tokens(m)' = a + c + i + s + x + e + f + g
        BY <2>4, <3>1, <3>2 DEF Tokens
      <3>6. i = h + d - x
        BY <3>3
      <3>7. QED BY <3>4, <3>5, <3>6, SMTT(30)
    <2>6. QED BY <1>1, <1>2, <2>5
  <1>5. QED BY <1>0, <1>3, <1>4

(* The oldest event leaves the list: for the bot, or for good.             *)
LEMMA EventLeaves ==
  ASSUME TypeInv, CountInv, events # <<>>, NEW m \in Messages
  PROVE  /\ Cardinality(Spots(Tail(events), {m})) + ZeroOne(m = Head(events))
               = Cardinality(Spots(events, {m}))
         /\ Cardinality(Spots(Tail(events), {m})) \in Nat
         /\ Head(events) \in Messages
         /\ m = Head(events) => m \notin lost
  <1>1. events \in Seq(Messages) /\ Tail(events) \in Seq(Messages) /\ Head(events) \in Messages
    BY HeadTailProperties DEF TypeInv, TypeOK
  <1>2. Cardinality(Spots(Tail(events), {m})) + ZeroOne(Head(events) \in {m})
          = Cardinality(Spots(events, {m}))
    BY <1>1, SpotsTail
  <1>3. ZeroOne(Head(events) \in {m}) = ZeroOne(m = Head(events))
    BY DEF ZeroOne
  <1>4. Cardinality(Spots(Tail(events), {m})) \in Nat
    BY <1>1, SpotsFinite
  <1>5. ASSUME m = Head(events), m \in lost PROVE FALSE
    <2>1. Cardinality(Spots(events, {m})) >= 1 /\ Cardinality(Spots(events, {m})) \in Nat
      BY <1>2, <1>3, <1>4, <1>5, CountNats DEF ZeroOne
    <2>2. Tokens(m) = ZeroOne(m \in arrived)
          /\ Cardinality(Spots(cmds, {m})) \in Nat /\ Cardinality(Holders(sending, {m})) \in Nat
          /\ Cardinality(Spots(sent, {m})) \in Nat
      BY CountNats DEF CountInv
    <2>3. QED BY <1>5, <2>1, <2>2 DEF Tokens, ZeroOne
  <1>6. QED BY <1>1, <1>2, <1>3, <1>4, <1>5

LEMMA CountReads ==
  ASSUME TypeInv, CountInv, Reads
  PROVE  CountInv'
  <1> SUFFICES ASSUME NEW m \in Messages
               PROVE  IsFiniteSet(Holders(sending, {m})') /\ Tokens(m)' = ZeroOne(m \in arrived)'
    BY DEF CountInv
  <1>0. PICK h : h = Head(events)
    OBVIOUS
  <1>1. /\ Cardinality(Spots(events', {m})) + ZeroOne(m = h) = Cardinality(Spots(events, {m}))
        /\ Cardinality(Spots(events', {m})) \in Nat
    BY <1>0, EventLeaves DEF Reads
  <1>2. current = Start /\ current' = h /\ m # Start
    BY <1>0, CommandAssumption DEF Reads, TypeInv, AtWork
  <1>3. UNCHANGED <<arrived, cmds, sending, sent, dropped, unanswered, lost>>
    BY DEF Reads
  <1>4. Tokens(m) = ZeroOne(m \in arrived) /\ IsFiniteSet(Holders(sending, {m}))
    BY DEF CountInv
  <1>5. Cardinality(Spots(events', {m})) + ZeroOne(m = current')
          = Cardinality(Spots(events, {m})) + ZeroOne(m = current)
    BY <1>1, <1>2, CountNats DEF ZeroOne
  <1>6. Tokens(m)' = Tokens(m)
    BY <1>1, <1>3, <1>5, CountNats DEF Tokens, ZeroOne
  <1>7. QED BY <1>3, <1>4, <1>6

(* The bot is done with its message: it is unanswered, answered or lost.   *)
LEMMA CountDone ==
  ASSUME TypeInv, CountInv, stage # "event", current' = Start,
         UNCHANGED <<arrived, events, sending, sent, dropped>>,
         \/ cmds' = Append(cmds, current) /\ UNCHANGED <<unanswered, lost>>
         \/ unanswered' = unanswered \union {current} /\ UNCHANGED <<cmds, lost>>
         \/ lost' = lost \union {current} /\ UNCHANGED <<cmds, unanswered>>
  PROVE  CountInv'
  <1> SUFFICES ASSUME NEW m \in Messages
               PROVE  IsFiniteSet(Holders(sending, {m})') /\ Tokens(m)' = ZeroOne(m \in arrived)'
    BY DEF CountInv
  <1>0. PICK c \in Messages : c = current
    BY DEF TypeInv, TypeOK, AtWork
  <1>1. /\ Tokens(m) = ZeroOne(m \in arrived) /\ IsFiniteSet(Holders(sending, {m}))
        /\ Cardinality(Spots(cmds, {m})) \in Nat /\ Cardinality(Holders(sending, {m})) \in Nat
        /\ Cardinality(Spots(events, {m})) \in Nat /\ Cardinality(Spots(sent, {m})) \in Nat
        /\ ZeroOne(m = current') = 0
    BY CommandAssumption, CountNats DEF CountInv, ZeroOne
  <1>2. m = c => m \notin unanswered /\ m \notin lost
    BY <1>0, <1>1 DEF Tokens, ZeroOne
  <1>3. CASE cmds' = Append(cmds, c) /\ UNCHANGED <<unanswered, lost>>
    <2>1. Cardinality(Spots(cmds', {m})) = Cardinality(Spots(cmds, {m})) + ZeroOne(m = c)
      <3>1. Cardinality(Spots(Append(cmds, c), {m})) = Cardinality(Spots(cmds, {m})) + ZeroOne(c \in {m})
        <4>1. c \in Messages \union {Start} /\ cmds \in Seq(Messages \union {Start})
          BY DEF TypeInv, TypeOK
        <4>2. QED BY <4>1, SpotsAppend
      <3>2. ZeroOne(c \in {m}) = ZeroOne(m = c)
        BY DEF ZeroOne
      <3>3. QED BY <1>3, <3>1, <3>2
    <2>2. Tokens(m)' = Tokens(m)
      BY <1>0, <1>1, <1>3, <2>1, SMTT(30) DEF Tokens, ZeroOne
    <2>3. QED BY <1>1, <2>2
  <1>4. CASE unanswered' = unanswered \union {c} /\ UNCHANGED <<cmds, lost>>
    <2>1. ZeroOne(m \in unanswered') = ZeroOne(m \in unanswered) + ZeroOne(m = c)
      BY <1>2, <1>4 DEF ZeroOne
    <2>2. Tokens(m)' = Tokens(m)
      BY <1>0, <1>1, <1>4, <2>1 DEF Tokens, ZeroOne
    <2>3. QED BY <1>1, <2>2
  <1>5. CASE lost' = lost \union {c} /\ UNCHANGED <<cmds, unanswered>>
    <2>1. ZeroOne(m \in lost') = ZeroOne(m \in lost) + ZeroOne(m = c)
      BY <1>2, <1>5 DEF ZeroOne
    <2>2. Tokens(m)' = Tokens(m)
      BY <1>0, <1>1, <1>5, <2>1 DEF Tokens, ZeroOne
    <2>3. QED BY <1>1, <2>2
  <1>6. QED BY <1>0, <1>3, <1>4, <1>5

(* An error of Redis takes the event that was popped.                      *)
LEMMA CountLoses ==
  ASSUME TypeInv, CountInv, events # <<>>, events' = Tail(events),
         lost' = lost \union {Head(events)}, current' = current,
         UNCHANGED <<arrived, cmds, sending, sent, dropped, unanswered>>
  PROVE  CountInv'
  <1> SUFFICES ASSUME NEW m \in Messages
               PROVE  IsFiniteSet(Holders(sending, {m})') /\ Tokens(m)' = ZeroOne(m \in arrived)'
    BY DEF CountInv
  <1>0. PICK h : h = Head(events)
    OBVIOUS
  <1>1. /\ Cardinality(Spots(events', {m})) + ZeroOne(m = h) = Cardinality(Spots(events, {m}))
        /\ Cardinality(Spots(events', {m})) \in Nat /\ (m = h => m \notin lost)
    BY <1>0, EventLeaves
  <1>2. ZeroOne(m \in lost') = ZeroOne(m \in lost) + ZeroOne(m = h)
    BY <1>0, <1>1 DEF ZeroOne
  <1>3. Tokens(m) = ZeroOne(m \in arrived) /\ IsFiniteSet(Holders(sending, {m}))
    BY DEF CountInv
  <1>4. Cardinality(Spots(events', {m})) + ZeroOne(m \in lost')
          = Cardinality(Spots(events, {m})) + ZeroOne(m \in lost)
    BY <1>1, <1>2, CountNats DEF ZeroOne
  <1>5. PICK a \in Nat, b \in Nat, f \in Int, g \in Int :
             /\ a = Cardinality(Spots(events, {m})) /\ b = Cardinality(Spots(events', {m}))
             /\ f = ZeroOne(m \in lost) /\ g = ZeroOne(m \in lost')
    BY <1>1, CountNats DEF ZeroOne
  <1>nats. /\ Cardinality(Spots(cmds, {m})) \in Nat /\ Cardinality(Holders(sending, {m})) \in Nat
           /\ Cardinality(Spots(sent, {m})) \in Nat
    BY CountNats
  <1>6. PICK c \in Nat, l \in Nat, s \in Nat, d \in Int, e \in Int, k \in Int :
             /\ c = Cardinality(Spots(cmds, {m})) /\ l = Cardinality(Holders(sending, {m}))
             /\ s = Cardinality(Spots(sent, {m})) /\ d = ZeroOne(m \in dropped)
             /\ e = ZeroOne(m \in unanswered) /\ k = ZeroOne(m = current)
    BY <1>nats DEF ZeroOne
  <1>7. Tokens(m) = a + c + l + s + d + e + f + k
    BY <1>5, <1>6 DEF Tokens
  <1>8. Tokens(m)' = b + c + l + s + d + e + g + k
    BY <1>5, <1>6 DEF Tokens
  <1>9. b = a + f - g
    <2>1. b + g = a + f
      BY <1>4, <1>5
    <2>2. QED BY <2>1
  <1>10. Tokens(m)' = Tokens(m)
    BY <1>7, <1>8, <1>9, SMTT(30)
  <1>11. QED BY <1>3, <1>10

(* The engine's process ends: the replies its loops had are dropped, and   *)
(* the messages it could not push are lost.                                *)
LEMMA CountDies ==
  ASSUME TypeInv, CountInv, NEW unpushed, Dies(unpushed), lost' = lost \union unpushed,
         UNCHANGED <<unanswered, current>>
  PROVE  CountInv'
  <1> SUFFICES ASSUME NEW m \in Messages
               PROVE  IsFiniteSet(Holders(sending, {m})') /\ Tokens(m)' = ZeroOne(m \in arrived)'
    BY DEF CountInv
  <1>1. IsFiniteSet(Holders(sending', {m})) /\ Cardinality(Holders(sending', {m})) = 0
    <2>1. \A l \in DOMAIN sending' : sending'[l] \notin {m}
      BY CommandAssumption DEF Dies
    <2>2. QED BY <2>1, HoldersConstant
  <1>2. PICK h \in Nat : h = Cardinality(Holders(sending, {m}))
    BY CountNats
  <1>3. h = 0 <=> \A l \in Loops : sending[l] # m
    <2>1. IsFiniteSet(Holders(sending, {m}))
      BY CountNats
    <2>2. h = 0 <=> Holders(sending, {m}) = {}
      BY <1>2, <2>1, FS_EmptySet
    <2>3. Holders(sending, {m}) = {} <=> \A l \in Loops : sending[l] # m
      BY DEF Holders, TypeInv, TypeOK
    <2>4. QED BY <2>2, <2>3
  <1>4. m \in dropped' <=> m \in dropped \/ h # 0
    BY <1>3, CommandAssumption DEF Dies
  <1>5. PICK a \in Nat, c \in Nat, s \in Nat :
             /\ a = Cardinality(Spots(events, {m})) /\ c = Cardinality(Spots(cmds, {m}))
             /\ s = Cardinality(Spots(sent, {m}))
    BY CountNats
  <1>6. a + c + h + s + ZeroOne(m \in dropped) + ZeroOne(m \in unanswered)
          + ZeroOne(m \in lost) + ZeroOne(m = current) = ZeroOne(m \in arrived)
    BY <1>2, <1>5 DEF CountInv, Tokens
  <1>7. Tokens(m)' = a + c + s + ZeroOne(m \in dropped') + ZeroOne(m \in unanswered)
                       + ZeroOne(m \in lost') + ZeroOne(m = current)
    BY <1>1, <1>5 DEF Dies, Tokens, ZeroOne
  <1>8. /\ m \in lost' <=> m \in lost \/ m \in unpushed
        /\ m \in arrived' <=> m \in arrived \/ m \in unpushed
        /\ m \in unpushed => m \notin arrived
    BY DEF Dies
  <1>9. Tokens(m)' = ZeroOne(m \in arrived')
    BY <1>4, <1>6, <1>7, <1>8 DEF ZeroOne
  <1>10. QED BY <1>1, <1>9

LEMMA CountSame ==
  ASSUME CountInv,
         UNCHANGED <<arrived, events, cmds, sending, sent, dropped, unanswered, lost, current>>
  PROVE  CountInv'
  BY DEF CountInv, Tokens

LEMMA CountNext ==
  ASSUME TypeInv, CountInv, [Next]_vars
  PROVE  CountInv'
  <1>1. ASSUME UNCHANGED botVars, Connects \/ TimerFires \/ \E s \in Sockets : Opens(s) \/ Closes(s)
        PROVE  CountInv'
    BY <1>1, CountSame DEF Connects, TimerFires, Opens, Closes, botVars
  <1>2. ASSUME NEW m \in Messages, Receives(m), UNCHANGED botVars PROVE CountInv'
    BY <1>2, CountReceives
  <1>3. ASSUME NEW l \in Loops, Pops(l), UNCHANGED botVars PROVE CountInv'
    <2>1. /\ sending[l] = Start /\ cmds # <<>> /\ cmds' = Tail(cmds)
          /\ DOMAIN sending' = Loops /\ \A k \in Loops \ {l} : sending'[k] = sending[k]
          /\ UNCHANGED <<arrived, events, sent>>
      BY <1>3 DEF Pops, TypeInv, TypeOK
    <2>2. \/ sending'[l] = Head(cmds) /\ dropped' = dropped
          \/ sending'[l] = Start /\ dropped' = (dropped \union {Head(cmds)}) \ {Start}
      BY <1>3 DEF Pops, TypeInv, TypeOK
    <2>3. UNCHANGED <<unanswered, lost, current>>
      BY <1>3 DEF botVars
    <2>4. QED BY <2>1, <2>2, <2>3, CountPops
  <1>4. ASSUME NEW l \in Loops, Sends(l), UNCHANGED botVars PROVE CountInv'
    <2>1. /\ sending[l] # Start /\ UNCHANGED <<arrived, cmds, events>>
          /\ DOMAIN sending' = Loops /\ sending'[l] = Start
          /\ \A k \in Loops \ {l} : sending'[k] = sending[k]
      BY <1>4 DEF Sends, TypeInv, TypeOK
    <2>2. \/ sent' = Append(sent, sending[l]) /\ dropped' = dropped
          \/ sent' = sent /\ dropped' = dropped \union {sending[l]}
      BY <1>4 DEF Sends
    <2>3. QED BY <1>4, <2>1, <2>2, CountSends
  <1>5. CASE ClaudeFails \/ Replies
    BY <1>5, CountDone DEF ClaudeFails, Replies, connectVars
  <1>6. CASE RedisFails
    <2>1. CASE stage = "event" /\ events # <<>> /\ events' = Tail(events)
               /\ lost' = lost \union {Head(events)}
      <3>1. current' = current
        BY <1>6, <2>1 DEF RedisFails, TypeInv, AtWork
      <3>2. QED BY <1>6, <2>1, <3>1, CountLoses DEF RedisFails
    <2>2. CASE stage = "push" /\ lost' = lost \union {current} /\ UNCHANGED events
      BY <1>6, <2>2, CountDone DEF RedisFails
    <2>3. QED BY <1>6, <2>1, <2>2 DEF RedisFails
  <1>7. CASE Answers
    BY <1>7, CountSame DEF Answers, connectVars
  <1>8. CASE UNCHANGED vars
    BY <1>8, CountSame DEF vars, connectVars, botVars
  <1>9. CASE EngineErrs
    <2>1. ASSUME NEW l \in Loops, PopLost(l), UNCHANGED lost PROVE CountInv'
      <3>1. /\ sending[l] = Start /\ cmds # <<>> /\ cmds' = Tail(cmds)
            /\ DOMAIN sending' = Loops /\ \A k \in Loops \ {l} : sending'[k] = sending[k]
            /\ sending'[l] = Start /\ dropped' = (dropped \union {Head(cmds)}) \ {Start}
            /\ UNCHANGED <<arrived, events, sent, unanswered, lost, current>>
        BY <1>9, <2>1 DEF PopLost, EngineErrs, TypeInv, TypeOK
      <3>2. QED BY <3>1, CountPops
    <2>2. ASSUME NEW unpushed, Dies(unpushed), lost' = lost \union unpushed PROVE CountInv'
      BY <1>9, <2>2, CountDies DEF EngineErrs
    <2>3. QED BY <1>9, <2>1, <2>2 DEF EngineErrs
  <1>10. QED BY <1>1, <1>2, <1>3, <1>4, <1>5, <1>6, <1>7, <1>8, <1>9, CountStarts, CountReads
             DEF Next, BotNext

LEMMA CountMeans ==
  ASSUME TypeInv, CountInv
  PROVE  OneFatePerMessage
  <1> SUFFICES ASSUME NEW m \in arrived PROVE Places(m) = 1
    BY DEF OneFatePerMessage
  <1>1. m \in Messages
    BY DEF TypeInv, TypeOK
  <1>2. /\ Spots(events, {m}) = {i \in DOMAIN events : events[i] = m}
        /\ Spots(cmds, {m}) = {i \in DOMAIN cmds : cmds[i] = m}
        /\ Spots(sent, {m}) = {i \in DOMAIN sent : sent[i] = m}
        /\ Holders(sending, {m}) = {l \in Loops : sending[l] = m}
    BY DEF Spots, Holders, TypeInv, TypeOK
  <1>3. Cardinality({k \in 1..4 : m \in <<dropped, unanswered, lost, {current}>>[k]})
          = ZeroOne(m \in dropped) + ZeroOne(m \in unanswered) + ZeroOne(m \in lost)
            + ZeroOne(m \in {current})
    BY InFourSets
  <1>4. ZeroOne(m \in {current}) = ZeroOne(m = current) /\ ZeroOne(m \in arrived) = 1
    BY DEF ZeroOne
  <1>5. Tokens(m) = 1
    BY <1>1, <1>4 DEF CountInv
  <1>6. Cardinality(Spots(events, {m})) + Cardinality(Spots(cmds, {m}))
        + Cardinality(Holders(sending, {m})) + Cardinality(Spots(sent, {m}))
        + Cardinality({k \in 1..4 : m \in <<dropped, unanswered, lost, {current}>>[k]}) = 1
    BY <1>1, <1>3, <1>4, <1>5, CountNats DEF Tokens, ZeroOne
  <1>7. QED BY <1>2, <1>6 DEF Places

(* However many sockets and loops there are, and however they interleave   *)
(* with the bot, its errors and an end of the engine's process: a message  *)
(* that arrived waits, is answered once or is given up, one of them.       *)
THEOREM MessageHasOneFate == Spec => []OneFatePerMessage
  <1>1. Init => TypeInv /\ CountInv
    BY TypeInit, CountInit
  <1>2. TypeInv /\ CountInv /\ [Next]_vars => (TypeInv /\ CountInv)'
    BY TypeNext, CountNext
  <1>3. TypeInv /\ CountInv => OneFatePerMessage
    BY CountMeans
  <1>4. QED BY <1>1, <1>2, <1>3, PTL DEF Spec

(***************************************************************************)
(* A history is the end of the talk of its chat: appending a turn to both  *)
(* and trimming the oldest turns of the history keep it so.                *)
(***************************************************************************)
Suffix(h, t) ==
  Len(h) <= Len(t) /\ \A i \in 1..Len(h) : h[i] = t[Len(t) - Len(h) + i]

LEMMA SuffixAppend ==
  \A h, t \in Seq(Turns), x \in Turns : Suffix(h, t) =>
    /\ Suffix(Append(h, x), Append(t, x))
    /\ Append(h, x) \in Seq(Turns) /\ Len(Append(h, x)) = Len(h) + 1
    /\ Append(h, x)[Len(Append(h, x))] = x
  <1> SUFFICES ASSUME NEW h \in Seq(Turns), NEW t \in Seq(Turns), NEW x \in Turns, Suffix(h, t)
               PROVE  /\ Suffix(Append(h, x), Append(t, x))
                      /\ Append(h, x) \in Seq(Turns) /\ Len(Append(h, x)) = Len(h) + 1
                      /\ Append(h, x)[Len(Append(h, x))] = x
    OBVIOUS
  <1>g. PICK g : g = Append(h, x)
    OBVIOUS
  <1>u. PICK u : u = Append(t, x)
    OBVIOUS
  <1>1. /\ Len(h) \in Nat /\ Len(t) \in Nat /\ Len(g) = Len(h) + 1 /\ Len(u) = Len(t) + 1
        /\ g[Len(h) + 1] = x /\ u[Len(t) + 1] = x /\ g \in Seq(Turns)
        /\ \A i \in 1..Len(h) : g[i] = h[i]
        /\ \A i \in 1..Len(t) : u[i] = t[i]
    BY <1>g, <1>u, AppendProperties, LenProperties
  <1>2. ASSUME NEW i \in 1..Len(g) PROVE g[i] = u[Len(u) - Len(g) + i]
    <2>1. CASE i = Len(h) + 1
      <3>1. Len(u) - Len(g) + i = Len(t) + 1
        BY <1>1, <2>1
      <3>2. QED BY <1>1, <2>1, <3>1
    <2>2. CASE i # Len(h) + 1
      <3>1. i \in 1..Len(h) /\ Len(u) - Len(g) + i = Len(t) - Len(h) + i
            /\ Len(t) - Len(h) + i \in 1..Len(t)
        BY <1>1, <2>2 DEF Suffix
      <3>2. QED BY <1>1, <3>1 DEF Suffix
    <2>3. QED BY <1>1, <2>1, <2>2
  <1>3. Len(g) <= Len(u)
    BY <1>1 DEF Suffix
  <1>4. Suffix(g, u)
    BY <1>2, <1>3 DEF Suffix
  <1>5. g[Len(g)] = x
    BY <1>1
  <1>6. QED BY <1>g, <1>u, <1>1, <1>4, <1>5

LEMMA SuffixRecent ==
  ASSUME NEW h \in Seq(Turns), NEW t \in Seq(Turns), Suffix(h, t), Len(h) > 0,
         NEW g, g = Recent(h)
  PROVE  Suffix(g, t) /\ Len(g) > 0 /\ g[Len(g)] = h[Len(h)]
  <1>1. /\ Len(h) \in Nat /\ Len(t) \in Nat /\ MaxHistory \in Nat \ {0}
        /\ Len(g) = (IF Len(h) > MaxHistory THEN MaxHistory ELSE Len(h))
        /\ \A i \in 1..Len(g) : g[i] = h[Len(h) - Len(g) + i]
    BY BotAssumption, LenProperties, RecentKeeps
  <1>2. Len(g) \in Nat /\ Len(g) <= Len(h) /\ Len(g) > 0
    BY <1>1
  <1>3. ASSUME NEW i \in 1..Len(g) PROVE g[i] = t[Len(t) - Len(g) + i]
    <2>0. i \in Nat /\ 1 <= i /\ i <= Len(g)
      BY <1>2
    <2>1. PICK j \in 1..Len(h) : j = Len(h) - Len(g) + i
      <3>1. Len(h) - Len(g) + i \in 1..Len(h)
        BY <1>1, <1>2, <2>0
      <3>2. QED BY <3>1
    <2>2. g[i] = h[j] /\ h[j] = t[Len(t) - Len(h) + j]
      BY <1>1, <2>1 DEF Suffix
    <2>3. Len(t) - Len(h) + j = Len(t) - Len(g) + i
      BY <1>1, <1>2, <2>1
    <2>4. QED BY <2>2, <2>3
  <1>4. Len(g) <= Len(t)
    BY <1>1, <1>2 DEF Suffix
  <1>5. g[Len(g)] = h[Len(h)]
    <2>1. Len(g) \in 1..Len(g) /\ Len(h) - Len(g) + Len(g) = Len(h)
      BY <1>1, <1>2
    <2>2. g[Len(g)] = h[Len(h) - Len(g) + Len(g)]
      BY <1>1, <2>1
    <2>3. QED BY <2>1, <2>2
  <1>6. QED BY <1>2, <1>3, <1>4, <1>5 DEF Suffix

ContextInv ==
  /\ \A c \in Chats : Suffix(histories[c], talk[c])
  /\ stage = "claude" =>
       LET turns == histories[ChatOf[current]]
       IN  Len(turns) > 0 /\ turns[Len(turns)] = Turn("user", current)

LEMMA TurnAdded ==
  ASSUME TypeInv, ContextInv, NEW c \in Chats, NEW x \in Turns,
         NEW g, g = Append(histories[c], x), NEW u, u = Append(talk[c], x)
  PROVE  Suffix(g, u) /\ g \in Seq(Turns) /\ u \in Seq(Turns) /\ Len(g) > 0 /\ g[Len(g)] = x
  <1>1. PICK h \in Seq(Turns) : h = histories[c]
    BY DEF TypeInv, TypeOK
  <1>2. PICK t \in Seq(Turns) : t = talk[c]
    BY DEF TypeInv, TypeOK
  <1>3. Suffix(h, t) /\ Len(h) \in Nat
    BY <1>1, <1>2, LenProperties DEF ContextInv
  <1>4. g = Append(h, x) /\ u = Append(t, x)
    BY <1>1, <1>2
  <1>5. Suffix(g, u) /\ g \in Seq(Turns) /\ Len(g) = Len(h) + 1 /\ g[Len(g)] = x
    BY <1>1, <1>2, <1>3, <1>4, SuffixAppend
  <1>6. u \in Seq(Turns)
    BY <1>4, AppendProperties
  <1>7. QED BY <1>3, <1>5, <1>6

LEMMA ContextReads ==
  ASSUME TypeInv, ContextInv, Reads
  PROVE  ContextInv'
  <1>1. PICK m : m = Head(events)
    OBVIOUS
  <1>2. m \in Messages
    BY <1>1, HeadTailProperties DEF Reads, TypeInv, TypeOK
  <1>3. PICK c \in Chats : c = ChatOf[m]
    BY <1>2, BotAssumption
  <1>4. PICK x \in Turns : x = Turn("user", m)
    BY <1>2 DEF Turn, Turns, Roles
  <1>5. histories[c] \in Seq(Turns) /\ talk[c] \in Seq(Turns) /\ Suffix(histories[c], talk[c])
    BY DEF TypeInv, TypeOK, ContextInv
  <1>6. PICK g : g = Append(histories[c], x)
    OBVIOUS
  <1>7. PICK u : u = Append(talk[c], x)
    OBVIOUS
  <1>8. PICK r : r = Recent(g)
    OBVIOUS
  <1>9. Suffix(g, u) /\ g \in Seq(Turns) /\ u \in Seq(Turns) /\ Len(g) > 0 /\ g[Len(g)] = x
    BY <1>6, <1>7, TurnAdded, Zenon
  <1>10. Suffix(r, u) /\ Len(r) > 0 /\ r[Len(r)] = x
    BY <1>8, <1>9, SuffixRecent
  <1>11. histories' = [histories EXCEPT ![c] = r] /\ talk' = [talk EXCEPT ![c] = u] /\ current' = m
    BY <1>1, <1>3, <1>4, <1>6, <1>7, <1>8 DEF Reads
  <1>12. /\ histories'[c] = r /\ talk'[c] = u
         /\ \A d \in Chats \ {c} : histories'[d] = histories[d] /\ talk'[d] = talk[d]
    BY <1>11 DEF TypeInv, TypeOK
  <1>13. \A d \in Chats : Suffix(histories'[d], talk'[d])
    BY <1>10, <1>12 DEF ContextInv
  <1>14. histories'[ChatOf[current']] = r /\ Turn("user", current') = x
    BY <1>3, <1>4, <1>11, <1>12
  <1>15. QED BY <1>10, <1>13, <1>14 DEF ContextInv

LEMMA ContextAnswers ==
  ASSUME TypeInv, ContextInv, Answers
  PROVE  ContextInv'
  <1>1. current \in Messages
    BY DEF Answers, TypeInv, TypeOK, AtWork
  <1>2. PICK c \in Chats : c = ChatOf[current]
    BY <1>1, BotAssumption
  <1>3. PICK x \in Turns : x = Turn("assistant", current)
    BY <1>1 DEF Turn, Turns, Roles
  <1>4. histories[c] \in Seq(Turns) /\ talk[c] \in Seq(Turns) /\ Suffix(histories[c], talk[c])
    BY DEF TypeInv, TypeOK, ContextInv
  <1>5. PICK g : g = Append(histories[c], x)
    OBVIOUS
  <1>6. PICK u : u = Append(talk[c], x)
    OBVIOUS
  <1>7. Suffix(g, u)
    BY <1>5, <1>6, TurnAdded, Zenon
  <1>8. histories' = [histories EXCEPT ![c] = g] /\ talk' = [talk EXCEPT ![c] = u]
    BY <1>2, <1>3, <1>5, <1>6 DEF Answers
  <1>9. /\ histories'[c] = g /\ talk'[c] = u
        /\ \A d \in Chats \ {c} : histories'[d] = histories[d] /\ talk'[d] = talk[d]
    BY <1>8 DEF TypeInv, TypeOK
  <1>10. \A d \in Chats : Suffix(histories'[d], talk'[d])
    BY <1>7, <1>9 DEF ContextInv
  <1>11. stage' = "push"
    BY DEF Answers
  <1>12. QED BY <1>10, <1>11 DEF ContextInv

LEMMA ContextStays ==
  ASSUME ContextInv, UNCHANGED <<histories, talk>>,
         stage' = "claude" => stage = "claude" /\ current' = current
  PROVE  ContextInv'
  BY DEF ContextInv

LEMMA ContextNext ==
  ASSUME TypeInv, ContextInv, [Next]_vars
  PROVE  ContextInv'
  <1>1. CASE UNCHANGED botVars
    BY <1>1, ContextStays DEF botVars
  <1>2. CASE ClaudeFails \/ Replies \/ RedisFails \/ EngineErrs
    BY <1>2, ContextStays DEF ClaudeFails, Replies, RedisFails, EngineErrs
  <1>3. QED BY <1>1, <1>2, ContextReads, ContextAnswers DEF Next, BotNext, vars

LEMMA ContextMeans ==
  ASSUME TypeInv, ContextInv
  PROVE  AskedInContext
  <1>1. ASSUME NEW c \in Chats
        PROVE  histories[c]
                 = SubSeq(talk[c], Len(talk[c]) - Len(histories[c]) + 1, Len(talk[c]))
    <2>1. PICK h \in Seq(Turns) : h = histories[c]
      BY DEF TypeInv, TypeOK
    <2>2. PICK t \in Seq(Turns) : t = talk[c]
      BY DEF TypeInv, TypeOK
    <2>3. Suffix(h, t) /\ Len(h) \in Nat /\ Len(t) \in Nat /\ Len(h) <= Len(t)
      BY <2>1, <2>2, LenProperties DEF ContextInv, Suffix
    <2>4. PICK from \in Int : from = Len(t) - Len(h) + 1
      BY <2>3
    <2>5. \A i \in from..Len(t) : t[i] \in Turns
      BY <2>3, <2>4, ElementOfSeq
    <2>6. PICK u : u = SubSeq(t, from, Len(t))
      OBVIOUS
    <2>7. /\ u \in Seq(Turns)
          /\ Len(u) = IF from <= Len(t) THEN Len(t) - from + 1 ELSE 0
          /\ \A i \in 1..(Len(t) - from + 1) : u[i] = t[from + i - 1]
      BY <2>3, <2>5, <2>6, SubSeqProperties
    <2>8. Len(u) = Len(h)
      BY <2>3, <2>4, <2>7
    <2>9. \A i \in 1..Len(h) : h[i] = u[i]
      <3>1. SUFFICES ASSUME NEW i \in 1..Len(h) PROVE h[i] = u[i]
        OBVIOUS
      <3>2. from + i - 1 = Len(t) - Len(h) + i /\ i \in 1..(Len(t) - from + 1)
        BY <2>3, <2>4
      <3>3. QED BY <2>3, <2>7, <3>2 DEF Suffix
    <2>10. h = u
      BY <2>7, <2>8, <2>9, SeqEqual
    <2>11. QED BY <2>1, <2>2, <2>4, <2>6, <2>10
  <1>2. QED BY <1>1 DEF AskedInContext, ContextInv, TypeInv, AtWork

(* What Claude is asked is the end of the chat's conversation, whole and in *)
(* order, within the limit and with the message to be answered last: for   *)
(* any number of chats and messages, and any limit.                        *)
THEOREM AskedIsTheEndOfTheTalk == Spec => []AskedInContext
  <1>1. Init => TypeInv /\ ContextInv
    <2>1. Init => ContextInv
      <3>1. Len(<<>>) = 0
        BY EmptySeq
      <3>2. QED BY <3>1 DEF Init, ContextInv, Suffix
    <2>2. QED BY <2>1, TypeInit
  <1>2. TypeInv /\ ContextInv /\ [Next]_vars => (TypeInv /\ ContextInv)'
    BY TypeNext, ContextNext
  <1>3. TypeInv /\ ContextInv => AskedInContext
    BY ContextMeans
  <1>4. QED BY <1>1, <1>2, <1>3, PTL DEF Spec
=============================================================================
