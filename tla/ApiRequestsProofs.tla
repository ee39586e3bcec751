------------------------- MODULE ApiRequestsProofs -------------------------
(* Theorems about ApiRequests, for any routes that look before they act,   *)
(* any requests and any number of failures.                                *)
EXTENDS ApiRequests, Counting

(***************************************************************************)
(* Where a request is: an open one serves a route and has no answer yet.   *)
(***************************************************************************)
Serving ==
  \A r \in Requests :
    /\ stage[r] = "open" => /\ asked[r] \in DOMAIN Table
                            /\ plan[r] \in Table[Serves[asked[r]]].does
    /\ stage[r] = "idle" => plan[r] = <<>> /\ todo[r] = <<>>
    /\ stage[r] \in {"idle", "open"} => answer[r] = 0
    /\ stage[r] = "closing" => answer[r] = 200

TypeInv == TypeOK /\ Serving

LEMMA PairIsRow ==
  ASSUME NEW table \in Names, NEW id \in Ids
  PROVE  <<table, id>> \in Rows
  BY DEF Rows

Txns == [added : SUBSET Rows, deleted : SUBSET Rows, locked : SUBSET Rows]

LEMMA InsertType ==
  ASSUME TypeOK, NEW r \in Requests, NEW new \in SUBSET Rows, NEW more \in SUBSET Rows,
         txn' = [txn EXCEPT ![r].added = @ \union new, ![r].locked = @ \union more]
  PROVE  txn' \in [Requests -> Txns]
  <1> DEFINE t == [added |-> txn[r].added \union new, deleted |-> txn[r].deleted,
                   locked |-> txn[r].locked \union more]
  <1>1. txn \in [Requests -> Txns] /\ txn[r] \in Txns
    BY DEF TypeOK, Txns
  <1>2. t \in Txns
    BY <1>1 DEF Txns
  <1>3. txn[r] = [added |-> txn[r].added, deleted |-> txn[r].deleted, locked |-> txn[r].locked]
    BY <1>1 DEF Txns
  <1>4. txn'[r] = t
    BY <1>1, <1>3
  <1>5. \A s \in Requests : s # r => txn'[s] = txn[s]
    BY <1>1
  <1> HIDE DEF t
  <1>6. \A s \in Requests : txn'[s] \in Txns
    BY <1>1, <1>2, <1>4, <1>5
  <1>7. QED BY <1>1, <1>6

LEMMA WriteType ==
  ASSUME TypeOK, NEW r \in Requests, NEW row \in Rows, NEW gone \in SUBSET Rows,
         txn' = [txn EXCEPT ![r].locked = @ \union {row}, ![r].deleted = gone]
  PROVE  txn' \in [Requests -> Txns]
  <1> DEFINE t == [added |-> txn[r].added, deleted |-> gone,
                   locked |-> txn[r].locked \union {row}]
  <1>1. txn \in [Requests -> Txns] /\ txn[r] \in Txns
    BY DEF TypeOK, Txns
  <1>2. t \in Txns
    BY <1>1 DEF Txns
  <1>3. txn[r] = [added |-> txn[r].added, deleted |-> txn[r].deleted, locked |-> txn[r].locked]
    BY <1>1 DEF Txns
  <1>4. txn'[r] = t
    BY <1>1, <1>3
  <1>5. \A s \in Requests : s # r => txn'[s] = txn[s]
    BY <1>1
  <1> HIDE DEF t
  <1>6. \A s \in Requests : txn'[s] \in Txns
    BY <1>1, <1>2, <1>4, <1>5
  <1>7. QED BY <1>1, <1>6

LEMMA InitType == Init => TypeInv
  <1> SUFFICES ASSUME Init PROVE TypeInv
    OBVIOUS
  <1>1. NoWrites \in [added : SUBSET Rows, deleted : SUBSET Rows, locked : SUBSET Rows]
    BY DEF NoWrites
  <1>2. Tables \X {Old} \subseteq Rows
    <2>1. Tables \subseteq Names
      BY NameAssumption
    <2>2. \A table \in Tables : <<table, Old>> \in Rows
      BY <2>1, PairIsRow DEF Ids
    <2>3. QED BY <2>2
  <1>3. <<>> \in Seq(Steps) /\ <<>> \in Seq(Commands)
    OBVIOUS
  <1>4. Old \in Ids /\ 0 \in 0..MaxPolls /\ 0 \in 0..MaxFailures
    BY BoundAssumption DEF Ids
  <1>5. TypeOK
    BY <1>1, <1>2, <1>3, <1>4 DEF Init, TypeOK, Stages
  <1>6. Serving
    BY DEF Init, Serving
  <1>7. QED BY <1>5, <1>6 DEF TypeInv

LEMMA NextStep ==
  ASSUME TypeOK, NEW r \in Requests, NEW act, At(r, act)
  PROVE  /\ todo[r] \in Seq(Steps) /\ todo[r] # <<>>
         /\ Head(todo[r]) \in Steps /\ What(r) \in Names
         /\ Tail(todo[r]) \in Seq(Steps)
         /\ Len(Tail(todo[r])) = Len(todo[r]) - 1
  <1>1. todo[r] \in Seq(Steps) /\ todo[r] # <<>>
    BY DEF TypeOK, At
  <1>2. Head(todo[r]) \in Steps /\ Tail(todo[r]) \in Seq(Steps)
        /\ Len(Tail(todo[r])) = Len(todo[r]) - 1
    BY <1>1, HeadTailProperties
  <1>3. QED BY <1>1, <1>2 DEF What, Steps

LEMMA AdvanceType ==
  ASSUME TypeOK, NEW r \in Requests, NEW act, At(r, act), Advance(r)
  PROVE  todo' \in [Requests -> Seq(Steps)]
  <1>1. Tail(todo[r]) \in Seq(Steps)
    BY NextStep
  <1>2. QED BY <1>1 DEF TypeOK, Advance

LEMMA EndType ==
  ASSUME TypeOK, NEW r \in Requests, NEW code \in {200, 400, 401, 404, 500}, End(r, code)
  PROVE  /\ stage' \in [Requests -> Stages]
         /\ answer' \in [Requests -> {0, 200, 400, 401, 404, 500}]
         /\ txn' \in [Requests -> [added : SUBSET Rows, deleted : SUBSET Rows,
                                   locked : SUBSET Rows]]
  <1>1. NoWrites \in [added : SUBSET Rows, deleted : SUBSET Rows, locked : SUBSET Rows]
    BY DEF NoWrites
  <1>2. QED BY <1>1 DEF TypeOK, End, Stages

LEMMA EndServing ==
  ASSUME TypeInv, NEW r \in Requests, NEW code, End(r, code), stage[r] \in {"open", "closing"},
         UNCHANGED <<asked, plan>>,
         \A s \in Requests : s # r => todo'[s] = todo[s]
  PROVE  Serving'
  <1>1. \A s \in Requests : s # r => stage'[s] = stage[s] /\ answer'[s] = answer[s]
    BY DEF End, TypeInv, TypeOK
  <1>2. stage'[r] = "ended"
    BY DEF End, TypeInv, TypeOK
  <1>3. QED BY <1>1, <1>2 DEF TypeInv, Serving

LEMMA StepServing ==
  ASSUME TypeInv, NEW r \in Requests, stage[r] = "open",
         UNCHANGED <<stage, asked, plan, answer>>,
         \A s \in Requests : s # r => todo'[s] = todo[s]
  PROVE  Serving'
  BY DEF TypeInv, Serving

LEMMA MissIsCode ==
  ASSUME TypeInv, NEW r \in Requests, stage[r] = "open"
  PROVE  Miss(r) \in {200, 400, 404}
  <1>1. asked[r] \in DOMAIN Table
    BY DEF TypeInv, Serving
  <1>2. Serves[asked[r]] \in DOMAIN Table
    BY <1>1, RouteAssumption
  <1>3. Table[Serves[asked[r]]].falsy \in {200, 400, 404}
    BY <1>2, RouteAssumption
  <1>4. QED BY <1>3 DEF Miss

LEMMA TypeNext == TypeInv /\ [Next]_vars => TypeInv'
  <1> SUFFICES ASSUME TypeInv, [Next]_vars PROVE TypeInv'
    OBVIOUS
  <1>t. TypeOK
    BY DEF TypeInv
  <1> USE DEF requestVars, engineVars
  <1>1. ASSUME NEW r \in Requests, Begin(r) PROVE TypeInv'
    <2>1. PICK i \in Asks[r], id \in Ids \ {r} : \E steps \in Table[Serves[i]].does :
            /\ asked' = [asked EXCEPT ![r] = i]
            /\ target' = [target EXCEPT ![r] = id]
            /\ plan' = [plan EXCEPT ![r] = steps]
            /\ todo' = [todo EXCEPT ![r] = steps]
      BY <1>1 DEF Begin
    <2>2. PICK steps \in Table[Serves[i]].does :
            /\ asked' = [asked EXCEPT ![r] = i]
            /\ target' = [target EXCEPT ![r] = id]
            /\ plan' = [plan EXCEPT ![r] = steps]
            /\ todo' = [todo EXCEPT ![r] = steps]
      BY <2>1
    <2>3. i \in DOMAIN Table
      BY RouteAssumption
    <2>4. Serves[i] \in DOMAIN Table
      BY <2>3, RouteAssumption
    <2>5. steps \in Seq(Steps)
      BY <2>4, RouteAssumption
    <2>6. TypeOK'
      BY <1>1, <1>t, <2>2, <2>3, <2>5 DEF Begin, TypeOK, Stages
    <2>7. Serving'
      <3> SUFFICES ASSUME NEW s \in Requests
                   PROVE  /\ stage'[s] = "open" => /\ asked'[s] \in DOMAIN Table
                                                   /\ plan'[s] \in Table[Serves[asked'[s]]].does
                          /\ stage'[s] = "idle" => plan'[s] = <<>> /\ todo'[s] = <<>>
                          /\ stage'[s] \in {"idle", "open"} => answer'[s] = 0
                          /\ stage'[s] = "closing" => answer'[s] = 200
        BY DEF Serving
      <3>1. CASE s = r
        BY <1>1, <1>t, <2>2, <2>3, <3>1 DEF Begin, TypeOK, TypeInv, Serving
      <3>2. CASE s # r
        BY <1>1, <1>t, <2>2, <3>2 DEF Begin, TypeOK, TypeInv, Serving
      <3>3. QED BY <3>1, <3>2
    <2>8. QED BY <2>6, <2>7 DEF TypeInv
  <1>2. ASSUME NEW r \in Requests, Unauthorized(r) PROVE TypeInv'
    <2>1. TypeOK'
      BY <1>2, <1>t DEF Unauthorized, TypeOK, Stages
    <2>2. Serving'
      BY <1>2, <1>t DEF Unauthorized, TypeOK, TypeInv, Serving
    <2>3. QED BY <2>1, <2>2 DEF TypeInv
  <1>3. ASSUME NEW r \in Requests, Passes(r) PROVE TypeInv'
    <2>1. stage[r] = "open" /\ todo' \in [Requests -> Seq(Steps)]
      BY <1>3, <1>t, AdvanceType DEF Passes, At
    <2>2. TypeOK'
      BY <1>3, <1>t, <2>1 DEF Passes, TypeOK
    <2>3. Serving'
      BY <1>3, <1>t, <2>1, StepServing DEF Passes, Advance, TypeOK
    <2>4. QED BY <2>2, <2>3 DEF TypeInv
  <1>4. ASSUME NEW r \in Requests, Misses(r) PROVE TypeInv'
    <2>1. stage[r] = "open" /\ Miss(r) \in {200, 400, 401, 404, 500}
      BY <1>4, MissIsCode DEF Misses, At
    <2>2. TypeOK'
      <3>1. End(r, Miss(r))
        BY <1>4 DEF Misses
      <3> DEFINE code == Miss(r)
      <3>2. code \in {200, 400, 401, 404, 500} /\ End(r, code)
        BY <2>1, <3>1
      <3> HIDE DEF code
      <3>3. /\ stage' \in [Requests -> Stages]
            /\ answer' \in [Requests -> {0, 200, 400, 401, 404, 500}]
            /\ txn' \in [Requests -> [added : SUBSET Rows, deleted : SUBSET Rows,
                                      locked : SUBSET Rows]]
        BY <1>t, <3>2, EndType
      <3>4. QED BY <1>4, <1>t, <3>3 DEF Misses, TypeOK
    <2>3. Serving'
      BY <1>4, <2>1, EndServing DEF Misses
    <2>4. QED BY <2>2, <2>3 DEF TypeInv
  <1>5. ASSUME NEW r \in Requests, Inserts(r) PROVE TypeInv'
    <2>1. stage[r] = "open" /\ todo' \in [Requests -> Seq(Steps)] /\ What(r) \in Names
      BY <1>5, <1>t, AdvanceType, NextStep DEF Inserts, At
    <2>2. <<What(r), r>> \in Rows /\ <<"webhooks", target[r]>> \in Rows
      <3>1. target[r] \in Ids /\ r \in Ids /\ "webhooks" \in Names
        BY <1>t, NameAssumption DEF Ids, TypeOK
      <3>2. QED BY <2>1, <3>1, PairIsRow
    <2> DEFINE parent == <<"webhooks", target[r]>>
               more == IF What(r) = "webhook_logs" THEN {parent} ELSE {}
    <2>a. /\ txn[r] \in [added : SUBSET Rows, deleted : SUBSET Rows, locked : SUBSET Rows]
          /\ txn' = [txn EXCEPT ![r].added = @ \union {<<What(r), r>>},
                                ![r].locked = @ \union more]
      BY <1>5, <1>t DEF Inserts, TypeOK
    <2>b. more \subseteq Rows
      BY <2>2
    <2> HIDE DEF more
    <2>3. txn' \in [Requests -> [added : SUBSET Rows, deleted : SUBSET Rows,
                                 locked : SUBSET Rows]]
      BY <1>t, <2>2, <2>a, <2>b, InsertType DEF Txns
    <2>4. TypeOK'
      BY <1>5, <1>t, <2>1, <2>3 DEF Inserts, TypeOK
    <2>5. Serving'
      BY <1>5, <1>t, <2>1, StepServing DEF Inserts, Advance, TypeOK
    <2>6. QED BY <2>4, <2>5 DEF TypeInv
  <1>6. ASSUME NEW r \in Requests, Writes(r) PROVE TypeInv'
    <2>1. stage[r] = "open" /\ todo' \in [Requests -> Seq(Steps)] /\ What(r) \in Names
      BY <1>6, <1>t, AdvanceType, NextStep DEF Writes, At
    <2>2. <<What(r), target[r]>> \in Rows
      BY <1>t, <2>1, PairIsRow DEF TypeOK
    <2> DEFINE gone == IF At(r, "delete") THEN txn[r].deleted \union {<<What(r), target[r]>>}
                       ELSE txn[r].deleted
    <2>a. txn' = [txn EXCEPT ![r].locked = @ \union {<<What(r), target[r]>>}, ![r].deleted = gone]
      BY <1>6 DEF Writes
    <2>b. gone \in SUBSET Rows
      <3>1. txn[r].deleted \in SUBSET Rows
        BY <1>t DEF TypeOK
      <3>2. txn[r].deleted \union {<<What(r), target[r]>>} \in SUBSET Rows
        BY <2>2, <3>1
      <3>3. QED BY <3>1, <3>2
    <2> HIDE DEF gone
    <2>3. txn' \in [Requests -> [added : SUBSET Rows, deleted : SUBSET Rows,
                                 locked : SUBSET Rows]]
      BY <1>t, <2>2, <2>a, <2>b, WriteType DEF Txns
    <2>4. TypeOK'
      BY <1>6, <1>t, <2>1, <2>3 DEF Writes, TypeOK
    <2>5. Serving'
      BY <1>6, <1>t, <2>1, StepServing DEF Writes, Advance, TypeOK
    <2>6. QED BY <2>4, <2>5 DEF TypeInv
  <1>7. ASSUME NEW r \in Requests, Raises(r) PROVE TypeInv'
    <2>1. stage[r] = "open"
      BY <1>7 DEF Raises, At
    <2>2. TypeOK'
      BY <1>7, <1>t, <2>1, EndType DEF Raises, TypeOK
    <2>3. Serving'
      BY <1>7, <2>1, EndServing DEF Raises
    <2>4. QED BY <2>2, <2>3 DEF TypeInv
  <1>8. ASSUME NEW r \in Requests, Stores(r) PROVE TypeInv'
    <2>1. stage[r] = "open" /\ todo' \in [Requests -> Seq(Steps)]
      BY <1>8, <1>t, AdvanceType DEF Stores, At
    <2>2. files' \subseteq Ids
      BY <1>8, <1>t DEF Stores, TypeOK, FileOf, Ids
    <2>3. TypeOK'
      BY <1>8, <1>t, <2>1, <2>2 DEF Stores, TypeOK
    <2>4. Serving'
      BY <1>8, <1>t, <2>1, StepServing DEF Stores, Advance, TypeOK
    <2>5. QED BY <2>3, <2>4 DEF TypeInv
  <1>9. ASSUME NEW r \in Requests, Caches(r) PROVE TypeInv'
    <2>1. stage[r] = "open" /\ Tail(todo[r]) \in Seq(Steps)
      BY <1>9, <1>t, NextStep DEF Caches, At
    <2>2. todo' \in [Requests -> Seq(Steps)]
      BY <1>9, <1>t, <2>1 DEF Caches, Advance, TypeOK
    <2>3. keys' \subseteq Names \X Ids
      <3>1. <<"presence", target[r]>> \in Names \X Ids
        BY <1>t, PairIsRow, NameAssumption DEF Rows, TypeOK
      <3>2. keys' = keys \/ keys' = keys \union {<<"presence", target[r]>>}
        BY <1>9 DEF Caches
      <3>3. QED BY <1>t, <3>1, <3>2 DEF TypeOK
    <2>4. TypeOK'
      BY <1>9, <1>t, <2>2, <2>3 DEF Caches, TypeOK
    <2>5. Serving'
      BY <1>9, <1>t, <2>1, StepServing DEF Caches, Advance, TypeOK
    <2>6. QED BY <2>4, <2>5 DEF TypeInv
  <1>10. ASSUME NEW r \in Requests, Pushes(r) PROVE TypeInv'
    <2>1. /\ stage[r] = "open" /\ todo' \in [Requests -> Seq(Steps)] /\ What(r) \in Names
          /\ todo[r] \in Seq(Steps)
      BY <1>10, <1>t, AdvanceType, NextStep DEF Pushes, At
    <2>2. [by |-> r, action |-> What(r), nth |-> Len(todo[r])] \in Commands
      BY <2>1, LenProperties DEF Commands
    <2>3. cmds' \in Seq(Commands)
      BY <1>10, <1>t, <2>2, AppendProperties DEF Pushes, TypeOK
    <2>4. TypeOK'
      BY <1>10, <1>t, <2>1, <2>3 DEF Pushes, TypeOK
    <2>5. Serving'
      BY <1>10, <1>t, <2>1, StepServing DEF Pushes, Advance, TypeOK
    <2>6. QED BY <2>4, <2>5 DEF TypeInv
  <1>11. ASSUME NEW r \in Requests, Polls(r) PROVE TypeInv'
    <2> DEFINE answered == <<"res", r>> \in keys
    <2>1. stage[r] = "open" /\ Tail(todo[r]) \in Seq(Steps)
      BY <1>11, <1>t, NextStep DEF Polls, At
    <2>2. todo' = [todo EXCEPT ![r] = IF answered THEN Tail(@) ELSE @]
      BY <1>11 DEF Polls
    <2>3. todo' \in [Requests -> Seq(Steps)]
      BY <1>t, <2>1, <2>2 DEF TypeOK
    <2>4. \A s \in Requests : s # r => todo'[s] = todo[s]
      BY <1>t, <2>2 DEF TypeOK
    <2>5. keys' \subseteq Names \X Ids
      BY <1>11, <1>t DEF Polls, TypeOK
    <2>6. CASE answered \/ Waits(r)
      <3>1. /\ polls' = [polls EXCEPT ![r] = IF answered THEN @ ELSE @ + 1]
            /\ UNCHANGED <<stage, answer, txn, late>>
        BY <1>11, <2>6 DEF Polls
      <3>2. polls' \in [Requests -> 0..MaxPolls]
        BY <1>t, <2>6, <3>1, BoundAssumption DEF TypeOK, Waits
      <3>3. TypeOK'
        BY <1>11, <1>t, <2>3, <2>5, <3>1, <3>2 DEF Polls, TypeOK
      <3>4. Serving'
        BY <1>11, <2>1, <2>4, <3>1, StepServing DEF Polls
      <3>5. QED BY <3>3, <3>4 DEF TypeInv
    <2>7. CASE ~ (answered \/ Waits(r))
      <3>1. End(r, 500) /\ late' = late \union {r} /\ UNCHANGED polls
        BY <1>11, <2>7 DEF Polls
      <3>2. TypeOK'
        <4>1. /\ stage' \in [Requests -> Stages]
              /\ answer' \in [Requests -> {0, 200, 400, 401, 404, 500}]
              /\ txn' \in [Requests -> Txns]
          BY <1>t, <3>1, EndType DEF Txns
        <4>2. QED BY <1>11, <1>t, <2>3, <2>5, <3>1, <4>1, SMTT(30) DEF Polls, TypeOK, Txns
      <3>3. Serving'
        BY <1>11, <2>1, <2>4, <3>1, EndServing DEF Polls
      <3>4. QED BY <3>2, <3>3 DEF TypeInv
    <2>8. QED BY <2>6, <2>7
  <1>12. ASSUME NEW r \in Requests, Commits(r) PROVE TypeInv'
    <2>1. rows' \subseteq Rows
      BY <1>12, <1>t DEF Commits, TypeOK
    <2>2. TypeOK'
      <3>1. /\ stage' \in [Requests -> Stages]
            /\ answer' \in [Requests -> {0, 200, 400, 401, 404, 500}]
            /\ txn' \in [Requests -> Txns]
        BY <1>12, <1>t, EndType DEF Commits, Txns
      <3>2. UNCHANGED <<asked, target, plan, todo, polls, late, files, keys, engineVars, failures>>
        BY <1>12 DEF Commits
      <3>3. UNCHANGED <<cmds, busy, events, lost, sent>>
        BY <3>2 DEF engineVars
      <3>4. QED BY <1>t, <2>1, <3>1, <3>2, <3>3, SMTT(30) DEF TypeOK, Txns
    <2>3. Serving'
      BY <1>12, EndServing DEF Commits, Returns
    <2>4. QED BY <2>2, <2>3 DEF TypeInv
  <1>13. ASSUME NEW r \in Requests, Fails(r) PROVE TypeInv'
    <2>1. failures' \in 0..MaxFailures
      BY <1>13, <1>t, BoundAssumption DEF Fails, Breaks, TypeOK
    <2>2. /\ answer' \in [Requests -> {0, 200, 400, 401, 404, 500}]
          /\ txn' \in [Requests -> Txns]
      <3>1. NoWrites \in Txns
        BY DEF NoWrites, Txns
      <3>2. QED BY <1>13, <1>t, <3>1 DEF Fails, Breaks, TypeOK, Txns
    <2>3. TypeOK'
      BY <1>13, <1>t, <2>1, <2>2 DEF Fails, Breaks, TypeOK, Txns, Stages
    <2>4. Serving'
      BY <1>13, <1>t DEF Fails, Breaks, TypeOK, TypeInv, Serving
    <2>5. QED BY <2>3, <2>4 DEF TypeInv
  <1>14. CASE Takes
    <2>1. Head(cmds) \in Commands /\ Tail(cmds) \in Seq(Commands)
      BY <1>14, <1>t, HeadTailProperties DEF Takes, TypeOK
    <2>2. TypeOK'
      BY <1>14, <1>t, <2>1 DEF Takes, TypeOK
    <2>3. Serving'
      BY <1>14 DEF Takes, TypeInv, Serving
    <2>4. QED BY <2>2, <2>3 DEF TypeInv
  <1>15. CASE Restarts
    <2>1. failures' \in 0..MaxFailures
      BY <1>15, <1>t, BoundAssumption DEF Restarts, TypeOK
    <2>2. TypeOK'
      BY <1>15, <1>t, <2>1 DEF Restarts, TypeOK
    <2>3. Serving'
      BY <1>15 DEF Restarts, TypeInv, Serving
    <2>4. QED BY <2>2, <2>3 DEF TypeInv
  <1>16. ASSUME NEW c \in busy, Responds(c) PROVE TypeInv'
    <2>1. c \in Commands /\ c.by \in Requests
      BY <1>t DEF TypeOK, Commands
    <2>2. events' \in Seq(Commands)
      BY <1>16, <1>t, <2>1, AppendProperties DEF Responds, TypeOK
    <2>3. TypeOK'
      BY <1>16, <1>t, <2>1, <2>2, SMTT(30) DEF Responds, TypeOK
    <2>4. Serving'
      BY <1>16 DEF Responds, TypeInv, Serving
    <2>5. QED BY <2>3, <2>4 DEF TypeInv
  <1>19. ASSUME NEW r \in Requests, Answers(r) PROVE TypeInv'
    <2>1. TypeOK'
      BY <1>19, <1>t DEF Answers, TypeOK, Stages
    <2>2. Serving'
      BY <1>19, <1>t DEF Answers, TypeOK, TypeInv, Serving
    <2>3. QED BY <2>1, <2>2 DEF TypeInv
  <1>20. CASE TakesUnheard
    <2>1. Head(cmds) \in Commands /\ Tail(cmds) \in Seq(Commands)
      BY <1>20, <1>t, HeadTailProperties DEF TakesUnheard, TypeOK
    <2>2. failures' \in 0..MaxFailures
      BY <1>20, <1>t, BoundAssumption DEF TakesUnheard, TypeOK
    <2>3. TypeOK'
      BY <1>20, <1>t, <2>1, <2>2 DEF TakesUnheard, TypeOK
    <2>4. Serving'
      BY <1>20 DEF TakesUnheard, TypeInv, Serving
    <2>5. QED BY <2>3, <2>4 DEF TypeInv
  <1>21. ASSUME NEW c \in busy, RespondsUnheard(c) PROVE TypeInv'
    <2>1. c \in Commands /\ c.by \in Requests
      BY <1>t DEF TypeOK, Commands
    <2>2. failures' \in 0..MaxFailures
      BY <1>21, <1>t, BoundAssumption DEF RespondsUnheard, TypeOK
    <2>3. TypeOK'
      BY <1>21, <1>t, <2>1, <2>2 DEF RespondsUnheard, TypeOK
    <2>4. Serving'
      BY <1>21 DEF RespondsUnheard, TypeInv, Serving
    <2>5. QED BY <2>3, <2>4 DEF TypeInv
  <1>17. CASE UNCHANGED vars
    <2>1. TypeOK'
      BY <1>17, <1>t DEF vars, TypeOK
    <2>2. Serving'
      BY <1>17 DEF vars, TypeInv, Serving
    <2>3. QED BY <2>1, <2>2 DEF TypeInv
  <1>18. QED
    BY <1>1, <1>2, <1>3, <1>4, <1>5, <1>6, <1>7, <1>8, <1>9, <1>10, <1>11, <1>12, <1>13,
       <1>14, <1>15, <1>16, <1>17, <1>19, <1>20, <1>21 DEF Next, Engine, Serve

LEMMA TypeInvariant == Spec => []TypeInv
  <1>1. QED BY InitType, TypeNext, PTL DEF Spec

(* Every variable keeps its type.                                          *)
THEOREM RequestsTypeCorrect == Spec => []TypeOK
  <1>1. TypeInv => TypeOK
    BY DEF TypeInv
  <1>2. QED BY <1>1, TypeInvariant, PTL

(***************************************************************************)
(* What a request has done: its steps so far are those of its plan that    *)
(* are not left to do, and its transaction holds what they wrote.          *)
(***************************************************************************)
TakenOf(p, t) == {p[k] : k \in 1..(Len(p) - Len(t))}

Suffix(p, t) ==
  /\ Len(t) <= Len(p)
  /\ \A k \in 1..Len(t) : t[k] = p[Len(p) - Len(t) + k]

Writing(step, row) == step.act \in {"insert", "delete"} /\ step.what = row[1]

Sound(p, t, code, writes) ==
  /\ Suffix(p, t)
  /\ code \in {400, 401, 404} => \A step \in TakenOf(p, t) : step.act \notin Effects
  /\ \A row \in writes.added \union writes.deleted :
        \E step \in TakenOf(p, t) : Writing(step, row)

Accounted == \A r \in Requests : Sound(plan[r], todo[r], answer[r], txn[r])

LEMMA TailIsSuffix ==
  ASSUME NEW p \in Seq(Steps), NEW t \in Seq(Steps), Suffix(p, t), t # <<>>
  PROVE  /\ Suffix(p, Tail(t))
         /\ TakenOf(p, t) \subseteq TakenOf(p, Tail(t))
         /\ Head(t) \in TakenOf(p, Tail(t))
         /\ Len(p) - Len(t) + 1 \in DOMAIN p
         /\ Head(t) = p[Len(p) - Len(t) + 1]
  <1>1. Len(t) \in Nat \ {0} /\ Len(p) \in Nat
    BY EmptySeq, LenProperties
  <1>2. /\ Tail(t) \in Seq(Steps) /\ Len(Tail(t)) = Len(t) - 1
        /\ \A k \in 1..(Len(t) - 1) : Tail(t)[k] = t[k + 1]
    BY HeadTailProperties
  <1>3. Head(t) = t[1]
    BY HeadTailProperties
  <1>4. Head(t) = p[Len(p) - Len(t) + 1]
    BY <1>1, <1>3 DEF Suffix
  <1>5. Suffix(p, Tail(t))
    <2>1. ASSUME NEW k \in 1..Len(Tail(t))
          PROVE  Tail(t)[k] = p[Len(p) - Len(Tail(t)) + k]
      <3>1. Tail(t)[k] = t[k + 1] /\ k + 1 \in 1..Len(t)
        BY <1>1, <1>2
      <3>2. t[k + 1] = p[Len(p) - Len(t) + (k + 1)]
        BY <3>1 DEF Suffix
      <3>3. Len(p) - Len(t) + (k + 1) = Len(p) - Len(Tail(t)) + k
        BY <1>1, <1>2
      <3>4. QED BY <3>1, <3>2, <3>3
    <2>2. QED BY <1>1, <1>2, <2>1 DEF Suffix
  <1>6. Len(p) - Len(Tail(t)) = Len(p) - Len(t) + 1
    BY <1>1, <1>2
  <1>7. Len(p) - Len(t) + 1 \in 1..(Len(p) - Len(Tail(t))) /\ Len(p) - Len(t) + 1 \in 1..Len(p)
    BY <1>1, <1>6 DEF Suffix
  <1>8. TakenOf(p, t) \subseteq TakenOf(p, Tail(t))
    BY <1>1, <1>6 DEF TakenOf
  <1>9. Head(t) \in TakenOf(p, Tail(t))
    BY <1>4, <1>7 DEF TakenOf
  <1>10. QED BY <1>4, <1>5, <1>7, <1>8, <1>9, LenProperties

LEMMA SoundAdvance ==
  ASSUME NEW p \in Seq(Steps), NEW t \in Seq(Steps), t # <<>>, NEW x, NEW y,
         Sound(p, t, 0, x),
         \A row \in y.added \union y.deleted :
            row \in x.added \union x.deleted \/ Writing(Head(t), row)
  PROVE  Sound(p, Tail(t), 0, y)
  BY TailIsSuffix DEF Sound

LEMMA SoundEnd ==
  ASSUME NEW p, NEW t, NEW a, NEW x, Sound(p, t, a, x), NEW code, code \notin {400, 401, 404}
  PROVE  Sound(p, t, code, NoWrites)
  BY DEF Sound, NoWrites

LEMMA SoundStart ==
  ASSUME NEW p \in Seq(Steps), NEW x, Sound(<<>>, <<>>, 0, x)
  PROVE  Sound(p, p, 0, x)
  <1>1. Len(p) \in Nat /\ Len(<<>>) = 0 /\ Len(p) - Len(p) = 0
    BY LenProperties
  <1>2. TakenOf(<<>>, <<>>) = {} /\ TakenOf(p, p) = {}
    BY <1>1 DEF TakenOf
  <1>3. Suffix(p, p)
    BY <1>1 DEF Suffix
  <1>4. QED BY <1>2, <1>3 DEF Sound

LEMMA SoundMiss ==
  ASSUME NEW i \in DOMAIN Table, NEW p \in Table[i].does, NEW t \in Seq(Steps), t # <<>>,
         NEW x, Sound(p, t, 0, x), Head(t).act \in Checks, NEW code
  PROVE  Sound(p, t, code, NoWrites)
  <1>1. p \in Seq(Steps)
    BY RouteAssumption
  <1>2. /\ Len(p) - Len(t) + 1 \in DOMAIN p
        /\ Head(t) = p[Len(p) - Len(t) + 1]
    BY <1>1, TailIsSuffix DEF Sound
  <1>3. ASSUME NEW step \in TakenOf(p, t) PROVE step.act \notin Effects
    <2>1. PICK k \in 1..(Len(p) - Len(t)) : step = p[k]
      BY DEF TakenOf
    <2>2. Len(p) \in Nat /\ Len(t) \in Nat /\ k \in DOMAIN p
      BY <1>1, <2>1, LenProperties
    <2>3. p[k].act \in Effects => Len(p) - Len(t) + 1 < k
      BY <1>2, <2>2, OrderAssumption
    <2>4. QED BY <2>1, <2>2, <2>3
  <1>4. QED BY <1>3 DEF Sound, NoWrites

(* A step concerns one request, or none.                                   *)
LEMMA OneRequest ==
  ASSUME Accounted, NEW r \in Requests,
         \A s \in Requests : s # r => /\ plan'[s] = plan[s] /\ todo'[s] = todo[s]
                                      /\ answer'[s] = answer[s] /\ txn'[s] = txn[s],
         Sound(plan'[r], todo'[r], answer'[r], txn'[r])
  PROVE  Accounted'
  <1> SUFFICES ASSUME NEW s \in Requests PROVE Sound(plan'[s], todo'[s], answer'[s], txn'[s])
    BY DEF Accounted, Sound, Suffix, TakenOf, Writing
  <1>1. CASE s = r
    BY <1>1
  <1>2. CASE s # r
    BY <1>2 DEF Accounted
  <1>3. QED BY <1>1, <1>2

LEMMA InitAccounted == Init => Accounted
  <1>1. Len(<<>>) = 0
    BY LenProperties
  <1>2. TakenOf(<<>>, <<>>) = {} /\ Suffix(<<>>, <<>>)
    BY <1>1 DEF TakenOf, Suffix
  <1>3. Sound(<<>>, <<>>, 0, NoWrites)
    BY <1>2 DEF Sound, NoWrites
  <1>4. QED BY <1>3 DEF Init, Accounted

LEMMA AccountedNext == TypeInv /\ Accounted /\ [Next]_vars => Accounted'
  <1> SUFFICES ASSUME TypeInv, Accounted, [Next]_vars PROVE Accounted'
    OBVIOUS
  <1>t. TypeOK
    BY DEF TypeInv
  <1>a. \A r \in Requests : /\ plan[r] \in Seq(Steps) /\ todo[r] \in Seq(Steps)
                            /\ Sound(plan[r], todo[r], answer[r], txn[r])
    BY <1>t DEF TypeOK, Accounted
  <1>o. \A r \in Requests : stage[r] = "open" => answer[r] = 0
    BY DEF TypeInv, Serving
  <1>s. ASSUME NEW r \in Requests, UNCHANGED plan,
               \A s \in Requests : s # r => todo'[s] = todo[s],
               NEW code, code \notin {400, 401, 404}, End(r, code), todo'[r] = todo[r]
        PROVE  Accounted'
    <2>1. /\ answer'[r] = code /\ txn'[r] = NoWrites
          /\ \A s \in Requests : s # r => answer'[s] = answer[s] /\ txn'[s] = txn[s]
      BY <1>s, <1>t DEF End, TypeOK
    <2>2. Sound(plan[r], todo[r], code, NoWrites)
      BY <1>a, <1>s, SoundEnd
    <2>3. QED BY <1>s, <2>1, <2>2, OneRequest
  <1>v. ASSUME NEW r \in Requests, NEW act, At(r, act), Advance(r),
               UNCHANGED <<plan, answer, txn>>
        PROVE  Accounted'
    <2>1. /\ todo'[r] = Tail(todo[r]) /\ todo[r] # <<>> /\ stage[r] = "open"
          /\ \A s \in Requests : s # r => todo'[s] = todo[s]
      BY <1>v, <1>t DEF At, Advance, TypeOK
    <2>2. Sound(plan[r], Tail(todo[r]), 0, txn[r])
      BY <1>a, <1>o, <2>1, SoundAdvance
    <2>3. QED BY <1>o, <1>v, <2>1, <2>2, OneRequest
  <1> USE DEF requestVars, engineVars
  <1>1. ASSUME NEW r \in Requests, Begin(r) PROVE Accounted'
    <2>1. /\ stage[r] = "idle" /\ UNCHANGED <<answer, txn>>
          /\ \A s \in Requests : s # r => plan'[s] = plan[s] /\ todo'[s] = todo[s]
          /\ plan'[r] = todo'[r]
      BY <1>1, <1>t DEF Begin, TypeOK
    <2>2. plan[r] = <<>> /\ todo[r] = <<>> /\ answer[r] = 0
      BY <2>1 DEF TypeInv, Serving
    <2>3. plan'[r] \in Seq(Steps)
      BY <1>1, TypeNext DEF Next, TypeInv, TypeOK
    <2>4. Sound(plan'[r], todo'[r], 0, txn[r])
      BY <1>a, <2>1, <2>2, <2>3, SoundStart
    <2>5. QED BY <2>1, <2>2, <2>4, OneRequest
  <1>2. ASSUME NEW r \in Requests, Unauthorized(r) PROVE Accounted'
    <2>1. /\ UNCHANGED <<plan, todo, txn>>
          /\ \A s \in Requests : s # r => answer'[s] = answer[s]
      BY <1>2, <1>t DEF Unauthorized, TypeOK
    <2>2. plan[r] = <<>> /\ todo[r] = <<>>
      BY <1>2 DEF Unauthorized, TypeInv, Serving
    <2>3. TakenOf(<<>>, <<>>) = {}
      BY LenProperties DEF TakenOf
    <2>4. Sound(plan[r], todo[r], answer'[r], txn[r])
      BY <1>a, <2>2, <2>3 DEF Sound
    <2>5. QED BY <2>1, <2>4, OneRequest
  <1>3. ASSUME NEW r \in Requests, Passes(r) PROVE Accounted'
    BY <1>3, <1>v DEF Passes
  <1>4. ASSUME NEW r \in Requests, Misses(r) PROVE Accounted'
    <2>1. PICK act \in Checks : At(r, act)
      BY <1>4 DEF Misses
    <2>2. stage[r] = "open" /\ todo[r] # <<>> /\ Head(todo[r]).act \in Checks
      BY <2>1 DEF At
    <2>3. asked[r] \in DOMAIN Table /\ plan[r] \in Table[Serves[asked[r]]].does
      BY <2>2 DEF TypeInv, Serving
    <2>4. Serves[asked[r]] \in DOMAIN Table
      BY <2>3, RouteAssumption
    <2>5. Sound(plan[r], todo[r], Miss(r), NoWrites)
      BY <1>a, <1>o, <2>2, <2>3, <2>4, SoundMiss
    <2>6. /\ UNCHANGED <<plan, todo>> /\ answer'[r] = Miss(r) /\ txn'[r] = NoWrites
          /\ \A s \in Requests : s # r => answer'[s] = answer[s] /\ txn'[s] = txn[s]
      BY <1>4, <1>t DEF Misses, End, TypeOK
    <2>7. QED BY <2>5, <2>6, OneRequest
  <1>5. ASSUME NEW r \in Requests, Inserts(r) PROVE Accounted'
    <2> DEFINE more == IF What(r) = "webhook_logs" THEN {<<"webhooks", target[r]>>} ELSE {}
    <2>1. /\ At(r, "insert") /\ Advance(r) /\ UNCHANGED <<plan, answer>>
          /\ txn' = [txn EXCEPT ![r].added = @ \union {<<What(r), r>>}, ![r].locked = @ \union more]
      BY <1>5 DEF Inserts
    <2> HIDE DEF more
    <2>2. txn \in [Requests -> Txns]
      BY <1>t DEF TypeOK, Txns
    <2>3. /\ txn'[r].added = txn[r].added \union {<<What(r), r>>}
          /\ txn'[r].deleted = txn[r].deleted
          /\ \A s \in Requests : s # r => txn'[s] = txn[s]
      BY <2>1, <2>2 DEF Txns
    <2>4. /\ todo'[r] = Tail(todo[r]) /\ todo[r] # <<>> /\ stage[r] = "open"
          /\ \A s \in Requests : s # r => todo'[s] = todo[s]
          /\ Head(todo[r]).act = "insert"
      BY <2>1, <1>t DEF At, Advance, TypeOK
    <2>5. Writing(Head(todo[r]), <<What(r), r>>)
      BY <2>4 DEF Writing, What
    <2>6. Sound(plan[r], Tail(todo[r]), 0, txn'[r])
      BY <1>a, <1>o, <2>3, <2>4, <2>5, SoundAdvance
    <2>7. QED BY <1>o, <2>1, <2>3, <2>4, <2>6, OneRequest
  <1>6. ASSUME NEW r \in Requests, Writes(r) PROVE Accounted'
    <2> DEFINE gone == IF At(r, "delete") THEN txn[r].deleted \union {<<What(r), target[r]>>}
                       ELSE txn[r].deleted
    <2>1. /\ At(r, "update") \/ At(r, "delete")
          /\ Advance(r) /\ UNCHANGED <<plan, answer>>
          /\ txn' = [txn EXCEPT ![r].locked = @ \union {<<What(r), target[r]>>}, ![r].deleted = gone]
      BY <1>6 DEF Writes
    <2>2. txn \in [Requests -> Txns]
      BY <1>t DEF TypeOK, Txns
    <2>a. \A row \in gone : row \in txn[r].deleted \/ (At(r, "delete") /\ row = <<What(r), target[r]>>)
      <3>1. CASE At(r, "delete")
        BY <3>1
      <3>2. CASE ~ At(r, "delete")
        BY <3>2
      <3>3. QED BY <3>1, <3>2
    <2> HIDE DEF gone
    <2>3. /\ txn'[r].added = txn[r].added /\ txn'[r].deleted = gone
          /\ \A s \in Requests : s # r => txn'[s] = txn[s]
      BY <1>6, <2>1, <2>2 DEF Txns, Writes
    <2>4. /\ todo'[r] = Tail(todo[r]) /\ todo[r] # <<>> /\ stage[r] = "open"
          /\ \A s \in Requests : s # r => todo'[s] = todo[s]
      BY <1>6, <1>t DEF At, Advance, TypeOK, Writes
    <2>5. At(r, "delete") => Writing(Head(todo[r]), <<What(r), target[r]>>)
      BY DEF Writing, What, At
    <2>6. Sound(plan[r], Tail(todo[r]), 0, txn'[r])
      BY <1>a, <1>o, <2>a, <2>3, <2>4, <2>5, SoundAdvance
    <2>7. QED BY <1>6, <1>o, <2>3, <2>4, <2>6, OneRequest DEF Writes
  <1>7. ASSUME NEW r \in Requests, Raises(r) PROVE Accounted'
    BY <1>7, <1>s DEF Raises, At
  <1>8. ASSUME NEW r \in Requests, Stores(r) PROVE Accounted'
    BY <1>8, <1>v DEF Stores
  <1>9. ASSUME NEW r \in Requests, Caches(r) PROVE Accounted'
    BY <1>9, <1>v DEF Caches
  <1>10. ASSUME NEW r \in Requests, Pushes(r) PROVE Accounted'
    BY <1>10, <1>v DEF Pushes
  <1>11. ASSUME NEW r \in Requests, Polls(r) PROVE Accounted'
    <2> DEFINE answered == <<"res", r>> \in keys
    <2>1. /\ At(r, "await") /\ stage[r] = "open" /\ UNCHANGED plan
          /\ todo' = [todo EXCEPT ![r] = IF answered THEN Tail(@) ELSE @]
      BY <1>11 DEF Polls, At
    <2>2. CASE answered
      <3>1. Advance(r) /\ UNCHANGED <<answer, txn>>
        BY <1>11, <2>1, <2>2 DEF Polls, Advance
      <3>2. QED BY <1>v, <2>1, <3>1
    <2>3. CASE ~ answered /\ Waits(r)
      <3>1. UNCHANGED <<answer, txn>> /\ todo' = todo
        BY <1>11, <1>t, <2>1, <2>3 DEF Polls, TypeOK
      <3>2. QED BY <1>a, <2>1, <3>1, OneRequest
    <2>4. CASE ~ answered /\ ~ Waits(r)
      <3>1. End(r, 500) /\ todo' = todo
        BY <1>11, <1>t, <2>1, <2>4 DEF Polls, TypeOK
      <3>2. todo'[r] = todo[r] /\ \A s \in Requests : s # r => todo'[s] = todo[s]
        BY <3>1
      <3>3. QED BY <1>s, <2>1, <3>1, <3>2
    <2>5. QED BY <2>2, <2>3, <2>4
  <1>12. ASSUME NEW r \in Requests, Commits(r) PROVE Accounted'
    BY <1>12, <1>s DEF Commits
  <1>13. ASSUME NEW r \in Requests, Fails(r) PROVE Accounted'
    <2>1. /\ answer'[r] \in {200, 500} /\ txn'[r] = NoWrites
          /\ \A s \in Requests : s # r => answer'[s] = answer[s] /\ txn'[s] = txn[s]
      BY <1>13, <1>t DEF Fails, Breaks, TypeOK, TypeInv, Serving
    <2>2. Sound(plan[r], todo[r], answer'[r], NoWrites)
      BY <1>a, <2>1, SoundEnd
    <2>3. UNCHANGED <<plan, todo>>
      BY <1>13 DEF Fails
    <2>4. QED BY <1>a, <2>1, <2>2, <2>3 DEF Accounted
  <1>14. CASE Engine \/ UNCHANGED vars
    BY <1>14 DEF Engine, Takes, TakesUnheard, Restarts, Responds, RespondsUnheard, vars, Accounted
  <1>16. ASSUME NEW r \in Requests, Answers(r) PROVE Accounted'
    <2>1. /\ answer'[r] = 200 /\ UNCHANGED <<plan, todo, txn>>
          /\ \A s \in Requests : s # r => answer'[s] = answer[s]
      BY <1>16, <1>t DEF Answers, TypeOK
    <2>2. Sound(plan[r], todo[r], 200, txn[r])
      BY <1>a DEF Sound
    <2>3. QED BY <1>a, <2>1, <2>2 DEF Accounted
  <1>15. QED
    BY <1>1, <1>2, <1>3, <1>4, <1>5, <1>6, <1>7, <1>8, <1>9, <1>10, <1>11, <1>12, <1>13,
       <1>14, <1>16 DEF Next, Serve

LEMMA AccountedInvariant == Spec => [](TypeInv /\ Accounted)
  <1>1. Init => TypeInv /\ Accounted
    BY InitType, InitAccounted
  <1>2. TypeInv /\ Accounted /\ [Next]_vars => (TypeInv /\ Accounted)'
    BY TypeNext, AccountedNext
  <1>3. QED BY <1>1, <1>2, PTL DEF Spec

(* A request that is refused has had no effect: at any number of requests, *)
(* routes and failures, its client may repeat it.                          *)
THEOREM RefusalsLeaveNoTrace == Spec => []RefusedLeavesNoTrace
  <1>1. Accounted => RefusedLeavesNoTrace
    BY DEF Accounted, Sound, RefusedLeavesNoTrace, Taken, TakenOf
  <1>2. QED BY <1>1, AccountedInvariant, PTL

(***************************************************************************)
(* Rows.                                                                   *)
(***************************************************************************)
(* Rows change in a commit, files in a step that stores.                   *)
LEMMA CommitsOnly ==
  ASSUME [Next]_vars, rows' # rows
  PROVE  \E r \in Requests : Commits(r)
  <1>1. ~ UNCHANGED vars
    BY DEF vars
  <1>2. ~ Engine
    BY DEF Engine, Takes, TakesUnheard, Restarts, Responds, RespondsUnheard
  <1>3. \A r \in Requests : ~ Begin(r) /\ ~ Unauthorized(r) /\ ~ Fails(r) /\ ~ Answers(r)
    BY DEF Begin, Unauthorized, Fails, Answers
  <1>4. \A r \in Requests : /\ ~ Passes(r) /\ ~ Misses(r) /\ ~ Inserts(r) /\ ~ Writes(r) /\ ~ Raises(r)
                           /\ ~ Stores(r) /\ ~ Caches(r) /\ ~ Pushes(r) /\ ~ Polls(r)
    BY DEF Passes, Misses, Inserts, Writes, Raises, Stores, Caches, Pushes, Polls
  <1>5. QED BY <1>1, <1>2, <1>3, <1>4 DEF Next, Serve

LEMMA FileSteps ==
  ASSUME [Next]_vars, files' # files
  PROVE  \E r \in Requests : Stores(r)
  <1>1. ~ UNCHANGED vars
    BY DEF vars
  <1>2. ~ Engine
    BY DEF Engine, Takes, TakesUnheard, Restarts, Responds, RespondsUnheard
  <1>3. \A r \in Requests : ~ Begin(r) /\ ~ Unauthorized(r) /\ ~ Fails(r) /\ ~ Answers(r)
    BY DEF Begin, Unauthorized, Fails, Answers
  <1>4. \A r \in Requests : /\ ~ Passes(r) /\ ~ Misses(r) /\ ~ Inserts(r) /\ ~ Writes(r) /\ ~ Raises(r)
                           /\ ~ Caches(r) /\ ~ Pushes(r) /\ ~ Polls(r) /\ ~ Commits(r)
    BY DEF Passes, Misses, Inserts, Writes, Raises, Caches, Pushes, Polls, Commits
  <1>5. QED BY <1>1, <1>2, <1>3, <1>4 DEF Next, Serve

LEMMA RowsStep ==
  ASSUME TypeInv, Accounted, [Next]_vars,
         NEW row \in (rows \ rows') \union (rows' \ rows)
  PROVE  \E r \in Requests : /\ stage[r] \in {"open", "closing"} /\ stage'[r] = "ended"
                             /\ answer'[r] = 200
                             /\ \E step \in Taken(r) : /\ step.act \in {"insert", "delete"}
                                                       /\ step.what = row[1]
  <1> USE DEF requestVars, engineVars
  <1>1. rows' # rows
    OBVIOUS
  <1>2. PICK r \in Requests : Commits(r)
    BY <1>1, CommitsOnly
  <1>3. row \in txn[r].added \union txn[r].deleted
    BY <1>2 DEF Commits
  <1>4. stage[r] \in {"open", "closing"} /\ stage'[r] = "ended" /\ answer'[r] = 200
    BY <1>2 DEF Commits, Returns, End, TypeInv, TypeOK
  <1>5. \E step \in TakenOf(plan[r], todo[r]) : Writing(step, row)
    BY <1>3 DEF Accounted, Sound
  <1>6. QED BY <1>4, <1>5 DEF Taken, TakenOf, Writing

(* Rows come and go only as a request that is answered 200 ends, whose     *)
(* steps have inserted or deleted in their table.                          *)
THEOREM RowsFollowAnswers == Spec => RowsChangeWithAnswers
  <1>1. TypeInv /\ Accounted /\ [Next]_vars =>
          [\A row \in (rows \ rows') \union (rows' \ rows) :
             \E r \in Requests : /\ stage[r] \in {"open", "closing"} /\ stage'[r] = "ended"
                                 /\ answer'[r] = 200
                                 /\ \E step \in Taken(r) : /\ step.act \in {"insert", "delete"}
                                                           /\ step.what = row[1]]_vars
    BY RowsStep
  <1>2. QED BY <1>1, AccountedInvariant, PTL DEF Spec, RowsChangeWithAnswers

(***************************************************************************)
(* What one request does to itself and to the others.                      *)
(***************************************************************************)
Own(r) == Begin(r) \/ Unauthorized(r) \/ Serve(r) \/ Fails(r)

Same(r) ==
  /\ stage'[r] = stage[r] /\ target'[r] = target[r] /\ plan'[r] = plan[r] /\ todo'[r] = todo[r]
  /\ answer'[r] = answer[r] /\ txn'[r] = txn[r]

LEMMA OthersStay ==
  ASSUME TypeOK, NEW s \in Requests, Own(s), NEW r \in Requests, r # s
  PROVE  Same(r)
  <1> USE DEF TypeOK, Same, requestVars, engineVars
  <1>1. CASE Begin(s)
    BY <1>1 DEF Begin
  <1>2. CASE Unauthorized(s)
    BY <1>2 DEF Unauthorized
  <1>3. CASE Passes(s) \/ Stores(s) \/ Pushes(s) \/ Caches(s)
    BY <1>3 DEF Passes, Stores, Pushes, Caches, Advance
  <1>4. CASE Misses(s) \/ Raises(s) \/ Answers(s) \/ Commits(s) \/ Fails(s)
    BY <1>4 DEF Misses, Raises, Answers, Commits, Fails, Breaks, End
  <1>5. CASE Inserts(s)
    BY <1>5 DEF Inserts, Advance
  <1>6. CASE Writes(s)
    BY <1>6 DEF Writes, Advance
  <1>7. CASE Polls(s)
    BY <1>7 DEF Polls, End
  <1>8. QED BY <1>1, <1>2, <1>3, <1>4, <1>5, <1>6, <1>7 DEF Own, Serve

LEMMA OwnOrSame ==
  ASSUME TypeOK, [Next]_vars, NEW r \in Requests
  PROVE  Own(r) \/ Same(r)
  <1>1. CASE Engine \/ UNCHANGED vars
    BY <1>1 DEF Engine, Takes, TakesUnheard, Restarts, Responds, RespondsUnheard, vars, requestVars,
                Same
  <1>2. ASSUME NEW s \in Requests, Own(s) PROVE Own(r) \/ Same(r)
    BY <1>2, OthersStay
  <1>3. QED BY <1>1, <1>2 DEF Next, Own

(* How a request goes on: by a step, with its answer, or to its end.       *)
GoesOn(r) ==
  /\ stage[r] = "open" /\ stage'[r] = "open" /\ UNCHANGED <<target, plan, answer>>
  /\ todo'[r] = todo[r] \/ (todo[r] # <<>> /\ todo'[r] = Tail(todo[r]))

Ends(r) ==
  /\ stage[r] \in {"open", "closing"} /\ stage'[r] \in {"ended", "failed"}
  /\ UNCHANGED <<target, plan, todo>>
  /\ txn'[r] = NoWrites
  /\ answer'[r] = 200 /\ stage'[r] = "ended" => Commits(r) \/ Misses(r)

LEMMA HowItGoes ==
  ASSUME TypeInv, NEW r \in Requests, Serve(r) \/ Fails(r)
  PROVE  GoesOn(r) \/ Answers(r) \/ Ends(r)
  <1>0. TypeOK
    BY DEF TypeInv
  <1> USE <1>0 DEF TypeOK, At, requestVars, engineVars
  <1>1. CASE Passes(r) \/ Stores(r) \/ Pushes(r) \/ Inserts(r) \/ Writes(r)
    <2>1. /\ Advance(r) /\ UNCHANGED <<stage, target, plan, answer>>
          /\ stage[r] = "open" /\ todo[r] # <<>>
      BY <1>1 DEF Passes, Stores, Pushes, Inserts, Writes
    <2>2. QED BY <2>1 DEF Advance, GoesOn
  <1>2. CASE Caches(r)
    BY <1>2 DEF Caches, Advance, GoesOn
  <1>3. CASE Misses(r) \/ Commits(r)
    BY <1>3 DEF Misses, Commits, Returns, End, Ends
  <1>4. CASE Raises(r)
    <2>1. /\ End(r, 500) /\ stage[r] = "open" /\ UNCHANGED <<target, plan, todo>>
      BY <1>4 DEF Raises
    <2>2. QED BY <2>1 DEF End, Ends
  <1>7. CASE Fails(r)
    BY <1>7 DEF Fails, Breaks, Ends
  <1>5. CASE Polls(r)
    <2>1. CASE <<"res", r>> \in keys \/ Waits(r)
      BY <1>5, <2>1 DEF Polls, GoesOn
    <2>2. CASE ~ (<<"res", r>> \in keys \/ Waits(r))
      BY <1>5, <2>2 DEF Polls, End, Ends
    <2>3. QED BY <2>1, <2>2
  <1>6. QED BY <1>1, <1>2, <1>3, <1>4, <1>5, <1>7 DEF Serve

LEMMA TakenMono ==
  ASSUME NEW p \in Seq(Steps), NEW t \in Seq(Steps), NEW u,
         u = t \/ (t # <<>> /\ u = Tail(t))
  PROVE  TakenOf(p, t) \subseteq TakenOf(p, u)
  <1>1. Len(p) \in Nat /\ Len(t) \in Nat
    BY LenProperties
  <1>2. CASE u = t
    BY <1>2
  <1>3. CASE t # <<>> /\ u = Tail(t)
    <2>1. Len(u) = Len(t) - 1
      BY <1>3, HeadTailProperties
    <2>2. QED BY <1>1, <2>1 DEF TakenOf
  <1>4. QED BY <1>2, <1>3

(* The steps taken so far only become more; an idle request has none.      *)
LEMMA TakenGrows ==
  ASSUME TypeInv, Accounted, [Next]_vars, NEW r \in Requests, Taken(r) # {}
  PROVE  Taken(r) \subseteq Taken(r)' /\ target'[r] = target[r]
  <1>1. TypeOK /\ Taken(r) = TakenOf(plan[r], todo[r]) /\ plan[r] \in Seq(Steps) /\ todo[r] \in Seq(Steps)
    BY DEF TypeInv, TypeOK, Taken, TakenOf
  <1>2. CASE Same(r)
    BY <1>2 DEF Same, Taken
  <1>3. CASE Begin(r) \/ Unauthorized(r)
    <2>1. plan[r] = <<>> /\ todo[r] = <<>>
      BY <1>3 DEF Begin, Unauthorized, TypeInv, Serving
    <2>2. QED BY <2>1, LenProperties DEF Taken
  <1>4. CASE GoesOn(r) \/ Answers(r) \/ Ends(r)
    <2>1. /\ plan'[r] = plan[r] /\ target'[r] = target[r]
          /\ todo'[r] = todo[r] \/ (todo[r] # <<>> /\ todo'[r] = Tail(todo[r]))
      BY <1>4 DEF GoesOn, Answers, Ends
    <2>2. TakenOf(plan[r], todo[r]) \subseteq TakenOf(plan[r], todo'[r])
      BY <1>1, <2>1, TakenMono
    <2>3. Taken(r)' = TakenOf(plan'[r], todo'[r])
      BY DEF Taken, TakenOf
    <2>4. QED BY <1>1, <2>1, <2>2, <2>3
  <1>5. QED BY <1>1, <1>2, <1>3, <1>4, OwnOrSame, HowItGoes DEF Own

(***************************************************************************)
(* The order of two steps in what is left to do.                           *)
(***************************************************************************)
LEMMA StepIsRecord == \A s \in Steps : s = StepOf(s.act, s.what)
  BY DEF Steps, StepOf

LEMMA BeforeTail ==
  ASSUME NEW t \in Seq(Steps), t # <<>>, NEW first, NEW then, Before(first, then, t)
  PROVE  Head(t) # then /\ (Head(t) # first => Before(first, then, Tail(t)))
  <1>1. /\ Len(t) \in Nat \ {0} /\ DOMAIN t = 1..Len(t) /\ Head(t) = t[1]
        /\ Tail(t) \in Seq(Steps) /\ Len(Tail(t)) = Len(t) - 1
        /\ \A k \in 1..(Len(t) - 1) : Tail(t)[k] = t[k + 1]
    BY LenProperties, EmptySeq, HeadTailProperties
  <1>2. DOMAIN Tail(t) = 1..(Len(t) - 1)
    BY <1>1, LenProperties
  <1>3. Head(t) # then
    <2>1. 1 \in DOMAIN t /\ 1..(1 - 1) = {}
      BY <1>1
    <2>2. QED BY <1>1, <2>1 DEF Before
  <1>4. ASSUME Head(t) # first, NEW k \in DOMAIN Tail(t), Tail(t)[k] = then
        PROVE  \E j \in 1..(k - 1) : Tail(t)[j] = first
    <2>1. k + 1 \in DOMAIN t /\ t[k + 1] = then
      BY <1>1, <1>2, <1>4
    <2>2. PICK j \in 1..((k + 1) - 1) : t[j] = first
      BY <2>1 DEF Before
    <2>3. j # 1
      BY <1>1, <1>4, <2>2
    <2>4. j - 1 \in 1..(k - 1) /\ j - 1 \in 1..(Len(t) - 1) /\ (j - 1) + 1 = j
      BY <1>1, <1>2, <2>3
    <2>5. Tail(t)[j - 1] = first
      BY <1>1, <2>2, <2>4
    <2>6. QED BY <2>4, <2>5
  <1>5. QED BY <1>3, <1>4 DEF Before

(* An open request's next step is a step of a method of the table.         *)
LEMMA HeadOfPlan ==
  ASSUME TypeInv, Accounted, NEW r \in Requests, stage[r] = "open"
  PROVE  \E i \in DOMAIN Table :
           /\ plan[r] \in Table[i].does
           /\ todo[r] # <<>> => \E k \in DOMAIN plan[r] :
                /\ k = Len(plan[r]) - Len(todo[r]) + 1
                /\ Head(todo[r]) = plan[r][k] /\ Head(todo[r]) \in Steps
  <1>1. plan[r] \in Seq(Steps) /\ todo[r] \in Seq(Steps) /\ Suffix(plan[r], todo[r])
    BY DEF TypeInv, TypeOK, Accounted, Sound
  <1>2. PICK i \in DOMAIN Table : plan[r] \in Table[i].does
    BY RouteAssumption DEF TypeInv, Serving
  <1>3. QED BY <1>1, <1>2, TailIsSuffix, HeadTailProperties

(***************************************************************************)
(* Files: a media row is only written when its file is on disk, and a file *)
(* leaves the disk only by a step that stays taken.                        *)
(***************************************************************************)
HasFile(id) ==
  \/ id \in files
  \/ \E s \in Requests : target[s] = id /\ \E step \in Taken(s) : step.act = "unlink"

SaveMedia == StepOf("save", "media")
InsertMedia == StepOf("insert", "media")

Stored ==
  /\ \A id \in Ids : <<"media", id>> \in rows => HasFile(id)
  /\ \A r \in Requests, id \in Ids : <<"media", id>> \in txn[r].added => HasFile(id)
  /\ \A r \in Requests : stage[r] = "open" =>
        HasFile(r) \/ Before(SaveMedia, InsertMedia, todo[r])

LEMMA FileStays ==
  ASSUME TypeInv, Accounted, [Next]_vars, NEW id \in Ids, HasFile(id)
  PROVE  HasFile(id)'
  <1>1. CASE id \in files /\ id \in files'
    BY <1>1 DEF HasFile
  <1>2. CASE id \in files /\ id \notin files'
    <2>1. PICK s \in Requests : Stores(s)
      BY <1>2, FileSteps
    <2>2. At(s, "unlink") /\ id = target[s]
      BY <1>2, <2>1 DEF Stores, FileOf
    <2>3. /\ stage[s] = "open" /\ todo[s] # <<>> /\ Head(todo[s]).act = "unlink"
          /\ todo'[s] = Tail(todo[s]) /\ plan' = plan /\ target' = target
      BY <2>1, <2>2 DEF Stores, At, Advance, TypeInv, TypeOK
    <2>4. plan[s] \in Seq(Steps) /\ todo[s] \in Seq(Steps) /\ Suffix(plan[s], todo[s])
      BY DEF TypeInv, TypeOK, Accounted, Sound
    <2>5. Head(todo[s]) \in TakenOf(plan[s], Tail(todo[s]))
      BY <2>3, <2>4, TailIsSuffix
    <2>6. Taken(s)' = TakenOf(plan'[s], todo'[s])
      BY DEF Taken, TakenOf
    <2>7. Head(todo[s]) \in Taken(s)' /\ target'[s] = id
      BY <2>2, <2>3, <2>5, <2>6
    <2>8. QED BY <2>3, <2>7 DEF HasFile
  <1>3. ASSUME NEW s \in Requests, target[s] = id, NEW step \in Taken(s), step.act = "unlink"
        PROVE  HasFile(id)'
    <2>1. step \in Taken(s)' /\ target'[s] = id
      BY <1>3, TakenGrows
    <2>2. QED BY <1>3, <2>1 DEF HasFile
  <1>4. QED BY <1>1, <1>2, <1>3 DEF HasFile

(* What a step adds to the transaction and takes out of it.                *)
LEMMA WritesBy ==
  ASSUME TypeInv, NEW r \in Requests, Serve(r) \/ Fails(r), GoesOn(r)
  PROVE  /\ txn[r].added \subseteq txn'[r].added
         /\ \A row \in txn'[r].added : row \in txn[r].added \/ (At(r, "insert") /\ row = <<What(r), r>>)
         /\ \A row \in txn'[r].deleted :
               row \in txn[r].deleted \/ (At(r, "delete") /\ row = <<What(r), target[r]>>)
         /\ At(r, "insert") => <<What(r), r>> \in txn'[r].added
         /\ At(r, "save") => r \in files'
  <1>1. TypeOK /\ txn \in [Requests -> Txns]
    BY DEF TypeInv, TypeOK, Txns
  <1>2. stage'[r] = "open" /\ stage[r] = "open"
    BY DEF GoesOn
  <1> USE DEF requestVars, engineVars
  <1>3. CASE Inserts(r)
    <2> DEFINE more == IF What(r) = "webhook_logs" THEN {<<"webhooks", target[r]>>} ELSE {}
    <2>1. /\ At(r, "insert")
          /\ txn' = [txn EXCEPT ![r].added = @ \union {<<What(r), r>>}, ![r].locked = @ \union more]
      BY <1>3 DEF Inserts
    <2> HIDE DEF more
    <2>2. /\ txn'[r].added = txn[r].added \union {<<What(r), r>>}
          /\ txn'[r].deleted = txn[r].deleted
      BY <1>1, <2>1 DEF Txns
    <2>3. QED BY <2>1, <2>2 DEF At
  <1>4. CASE Writes(r)
    <2> DEFINE gone == IF At(r, "delete") THEN txn[r].deleted \union {<<What(r), target[r]>>}
                       ELSE txn[r].deleted
    <2>1. /\ At(r, "update") \/ At(r, "delete")
          /\ txn' = [txn EXCEPT ![r].locked = @ \union {<<What(r), target[r]>>}, ![r].deleted = gone]
      BY <1>4 DEF Writes
    <2>2. \A row \in gone : row \in txn[r].deleted \/ (At(r, "delete") /\ row = <<What(r), target[r]>>)
      <3>1. CASE At(r, "delete")
        BY <3>1
      <3>2. CASE ~ At(r, "delete")
        BY <3>2
      <3>3. QED BY <3>1, <3>2
    <2> HIDE DEF gone
    <2>3. txn'[r].added = txn[r].added /\ txn'[r].deleted = gone
      BY <1>1, <2>1 DEF Txns
    <2>4. QED BY <2>1, <2>2, <2>3 DEF At
  <1>5. CASE Stores(r)
    BY <1>5 DEF Stores, At, FileOf
  <1>6. CASE Passes(r) \/ Caches(r) \/ Pushes(r)
    BY <1>6 DEF Passes, Caches, Pushes, At, Checks
  <1>7. CASE Polls(r)
    <2>1. <<"res", r>> \in keys \/ Waits(r)
      BY <1>1, <1>2, <1>7 DEF Polls, End, TypeOK
    <2>2. UNCHANGED txn /\ At(r, "await")
      BY <1>7, <2>1 DEF Polls
    <2>3. QED BY <2>2 DEF At
  <1>8. CASE Misses(r) \/ Raises(r) \/ Commits(r) \/ Answers(r) \/ Fails(r)
    <2>1. (\E code : End(r, code)) \/ Answers(r) \/ Breaks(r)
      BY <1>8 DEF Misses, Raises, Commits, Fails
    <2>2. QED BY <1>1, <1>2, <2>1 DEF End, Answers, Breaks, TypeOK
  <1>9. QED BY <1>3, <1>4, <1>5, <1>6, <1>7, <1>8 DEF Serve

LEMMA InitStored == Init => Stored
  <1> SUFFICES ASSUME Init PROVE Stored
    OBVIOUS
  <1>1. \A id \in Ids : <<"media", id>> \in rows => id \in files
    BY DEF Init
  <1>2. \A r \in Requests : txn[r].added = {} /\ stage[r] # "open"
    BY DEF Init, NoWrites
  <1>3. QED BY <1>1, <1>2 DEF Stored, HasFile

(* Until the file is there, the plan saves it before it inserts the row.   *)
LEMMA StoredTodo ==
  ASSUME TypeInv, Accounted, Stored, [Next]_vars, NEW r \in Requests, stage'[r] = "open"
  PROVE  HasFile(r)' \/ Before(SaveMedia, InsertMedia, todo'[r])
  <1>0. todo[r] \in Seq(Steps) /\ r \in Ids
    BY DEF TypeInv, TypeOK, Ids
  <1>1. HasFile(r) => HasFile(r)'
    BY <1>0, FileStays
  <1>2. CASE Same(r)
    BY <1>1, <1>2 DEF Same, Stored
  <1>3. CASE Begin(r)
    <2>1. PICK i \in Asks[r] : todo'[r] \in Table[Serves[i]].does
      BY <1>3 DEF Begin, TypeInv, TypeOK
    <2>2. Serves[i] \in DOMAIN Table
      BY RouteAssumption
    <2>3. Before(SaveMedia, InsertMedia, todo'[r])
      BY <2>1, <2>2, StorageAssumption DEF SaveMedia, InsertMedia
    <2>4. QED BY <2>3
  <1>4. CASE Unauthorized(r)
    BY <1>4 DEF Unauthorized, TypeInv, TypeOK
  <1>5. CASE Answers(r) \/ Ends(r)
    BY <1>5 DEF Answers, Ends, TypeInv, TypeOK
  <1>6. CASE GoesOn(r) /\ (Serve(r) \/ Fails(r))
    <2>1. HasFile(r) \/ Before(SaveMedia, InsertMedia, todo[r])
      BY <1>6 DEF GoesOn, Stored
    <2>2. CASE todo'[r] = todo[r]
      BY <1>1, <2>1, <2>2
    <2>3. CASE todo[r] # <<>> /\ todo'[r] = Tail(todo[r])
      <3>1. CASE Head(todo[r]) = SaveMedia
        <4>1. At(r, "save")
          BY <1>6, <2>3, <3>1 DEF At, SaveMedia, StepOf, GoesOn
        <4>2. r \in files'
          BY <1>6, <4>1, WritesBy
        <4>3. QED BY <4>2 DEF HasFile
      <3>2. CASE Head(todo[r]) # SaveMedia
        BY <1>0, <1>1, <2>1, <2>3, <3>2, BeforeTail
      <3>3. QED BY <3>1, <3>2
    <2>4. QED BY <1>6, <2>2, <2>3 DEF GoesOn
  <1>7. QED BY <1>2, <1>3, <1>4, <1>5, <1>6, OwnOrSame, HowItGoes DEF Own, TypeInv

LEMMA StoredAdded ==
  ASSUME TypeInv, Accounted, Stored, [Next]_vars, NEW r \in Requests, NEW id \in Ids,
         <<"media", id>> \in txn'[r].added
  PROVE  HasFile(id)'
  <1>1. ASSUME <<"media", id>> \in txn[r].added PROVE HasFile(id)'
    BY <1>1, FileStays DEF Stored
  <1>2. CASE Same(r) \/ Begin(r) \/ Unauthorized(r) \/ Answers(r)
    BY <1>1, <1>2 DEF Same, Begin, Unauthorized, Answers
  <1>3. CASE Ends(r)
    BY <1>3 DEF Ends, NoWrites
  <1>4. CASE GoesOn(r) /\ (Serve(r) \/ Fails(r))
    <2>1. <<"media", id>> \in txn[r].added \/ (At(r, "insert") /\ What(r) = "media" /\ id = r)
      BY <1>4, WritesBy
    <2>2. ASSUME At(r, "insert"), What(r) = "media", id = r PROVE HasFile(id)'
      <3>1. todo[r] # <<>> /\ todo[r] \in Seq(Steps) /\ stage[r] = "open" /\ Head(todo[r]).act = "insert"
            /\ Head(todo[r]).what = "media"
        BY <2>2 DEF At, What, TypeInv, TypeOK
      <3>2. Head(todo[r]) = InsertMedia
        BY <3>1, StepIsRecord, HeadTailProperties DEF InsertMedia
      <3>3. HasFile(r)
        BY <3>1, <3>2, BeforeTail DEF Stored
      <3>4. QED BY <2>2, <3>3, FileStays
    <2>3. QED BY <1>1, <2>1, <2>2
  <1>5. QED BY <1>2, <1>3, <1>4, OwnOrSame, HowItGoes DEF Own, TypeInv

LEMMA StoredNext == TypeInv /\ Accounted /\ Stored /\ [Next]_vars => Stored'
  <1> SUFFICES ASSUME TypeInv, Accounted, Stored, [Next]_vars PROVE Stored'
    OBVIOUS
  <1>1. ASSUME NEW id \in Ids, <<"media", id>> \in rows' PROVE HasFile(id)'
    <2>1. CASE <<"media", id>> \in rows
      BY <2>1, FileStays DEF Stored
    <2>2. CASE <<"media", id>> \notin rows
      <3>1. PICK r \in Requests : Commits(r)
        BY <1>1, <2>2, CommitsOnly
      <3>2. <<"media", id>> \in txn[r].added
        BY <1>1, <2>2, <3>1 DEF Commits
      <3>3. QED BY <3>2, FileStays DEF Stored
    <2>3. QED BY <2>1, <2>2
  <1>2. QED BY <1>1, StoredAdded, StoredTodo DEF Stored

(* Whatever uploads, deletions and failures interleave, a media row has    *)
(* its file, or a request for that media has removed it.                   *)
THEOREM MediaRowsHaveFiles == Spec => []MediaRowHasFile
  <1>1. Init => Stored
    BY InitStored
  <1>2. TypeInv /\ Accounted /\ Stored /\ [Next]_vars => Stored'
    BY StoredNext
  <1>3. Stored => MediaRowHasFile
    BY DEF Stored, HasFile, MediaRowHasFile
  <1>4. QED BY <1>1, <1>2, <1>3, AccountedInvariant, PTL DEF Spec

(***************************************************************************)
(* Messages: the row is in the transaction when the command goes out, is   *)
(* still there while an answer waits for its commit, and nothing takes it  *)
(* out of the table once it is committed.                                  *)
(***************************************************************************)
PushMessage == StepOf("push", "send_message")
InsertMessage == StepOf("insert", "messages")
RowOf(r) == <<"messages", r>>

(* The command of r's message is out.                                      *)
Told(r) ==
  \/ r \in sent
  \/ \E c \in busy : c.by = r /\ c.action = "send_message"
  \/ \E i \in DOMAIN cmds : cmds[i].by = r /\ cmds[i].action = "send_message"

NoChecks(steps) == \A k \in DOMAIN steps : steps[k].act \notin Checks

Posted ==
  \A r \in Requests :
    /\ Told(r) => /\ stage[r] # "idle"
                  /\ stage[r] = "open" => RowOf(r) \in txn[r].added /\ NoChecks(todo[r])
                  /\ stage[r] = "closing" => RowOf(r) \in txn[r].added
                  /\ answer[r] = 200 /\ stage[r] = "ended" => RowOf(r) \in rows
    /\ stage[r] = "open" => RowOf(r) \in txn[r].added \/ Before(InsertMessage, PushMessage, todo[r])
    /\ \A row \in txn[r].deleted : row[1] # "messages"

LEMMA InitPosted == Init => Posted
  <1> SUFFICES ASSUME Init, NEW r \in Requests
               PROVE  /\ ~ Told(r) /\ stage[r] # "open" /\ txn[r].deleted = {}
    BY DEF Posted
  <1>1. DOMAIN cmds = {}
    BY DEF Init
  <1>2. QED BY <1>1 DEF Init, Told, NoWrites

LEMMA RowStays ==
  ASSUME TypeInv, Posted, [Next]_vars, NEW r \in Requests, RowOf(r) \in rows
  PROVE  RowOf(r) \in rows'
  <1>1. CASE rows' = rows
    BY <1>1
  <1>2. CASE rows' # rows
    <2>1. PICK s \in Requests : Commits(s)
      BY <1>2, CommitsOnly
    <2>2. RowOf(r) \notin txn[s].deleted
      BY DEF Posted, RowOf
    <2>3. QED BY <2>1, <2>2 DEF Commits
  <1>3. QED BY <1>1, <1>2

LEMMA NewCommand ==
  ASSUME TypeInv, NEW s \in Requests, Pushes(s)
  PROVE  [by |-> s, action |-> What(s), nth |-> Len(todo[s])] \in Commands
  <1>1. todo[s] \in Seq(Steps) /\ todo[s] # <<>>
    BY DEF Pushes, At, TypeInv, TypeOK
  <1>2. Head(todo[s]) \in Steps /\ Len(todo[s]) \in Nat
    BY <1>1, HeadTailProperties, LenProperties
  <1>3. QED BY <1>2 DEF What, Steps, Commands

(* A message's command goes out by its request only.                       *)
LEMMA ToldBy ==
  ASSUME TypeInv, [Next]_vars, NEW r \in Requests, Told(r)'
  PROVE  Told(r) \/ (Pushes(r) /\ What(r) = "send_message")
  <1>0. cmds \in Seq(Commands) /\ busy \subseteq Commands
    BY DEF TypeInv, TypeOK
  <1> USE DEF engineVars, requestVars
  <1>1. ASSUME NEW s \in Requests, Pushes(s) PROVE Told(r) \/ (Pushes(r) /\ What(r) = "send_message")
    <2> DEFINE c == [by |-> s, action |-> What(s), nth |-> Len(todo[s])]
    <2>1. cmds' = Append(cmds, c) /\ sent' = sent /\ busy' = busy
      BY <1>1 DEF Pushes
    <2>2. /\ Len(cmds) \in Nat /\ DOMAIN cmds = 1..Len(cmds) /\ DOMAIN cmds' = 1..(Len(cmds) + 1)
          /\ \A i \in 1..Len(cmds) : cmds'[i] = cmds[i]
          /\ cmds'[Len(cmds) + 1] = c
      <3>1. c \in Commands
        BY <1>1, NewCommand
      <3> HIDE DEF c
      <3>2. QED BY <1>0, <2>1, <3>1, AppendProperties, LenProperties
    <2>3. CASE r \in sent \/ \E b \in busy : b.by = r /\ b.action = "send_message"
      BY <2>3 DEF Told
    <2>4. CASE \E i \in DOMAIN cmds' : cmds'[i].by = r /\ cmds'[i].action = "send_message"
      <3>1. PICK i \in DOMAIN cmds' : cmds'[i].by = r /\ cmds'[i].action = "send_message"
        BY <2>4
      <3>2. CASE i \in 1..Len(cmds)
        BY <2>2, <3>1, <3>2 DEF Told
      <3>3. CASE i = Len(cmds) + 1
        BY <1>1, <2>2, <3>1, <3>3
      <3>4. QED BY <2>2, <3>2, <3>3
    <2>5. QED BY <2>1, <2>3, <2>4 DEF Told
  <1>2. CASE Takes \/ TakesUnheard
    <2>1. /\ cmds # <<>> /\ cmds' = Tail(cmds) /\ busy' \subseteq busy \union {Head(cmds)}
          /\ sent' = sent
      BY <1>2 DEF Takes, TakesUnheard
    <2>2. /\ Len(cmds) \in Nat \ {0} /\ DOMAIN cmds = 1..Len(cmds) /\ Head(cmds) = cmds[1]
          /\ DOMAIN cmds' = 1..(Len(cmds) - 1)
          /\ \A i \in 1..(Len(cmds) - 1) : cmds'[i] = cmds[i + 1]
      BY <1>0, <2>1, HeadTailProperties, LenProperties, EmptySeq
    <2>3. 1 \in DOMAIN cmds /\ \A i \in DOMAIN cmds' : i + 1 \in DOMAIN cmds
      BY <2>2
    <2>4. QED BY <2>1, <2>2, <2>3 DEF Told
  <1>3. ASSUME NEW c \in busy, Responds(c) \/ RespondsUnheard(c) PROVE Told(r)
    <2>1. cmds' = cmds /\ busy' \subseteq busy /\ sent' \subseteq sent \union {c.by}
          /\ (sent' = sent \/ c.action = "send_message")
      BY <1>3 DEF Responds, RespondsUnheard
    <2>2. QED BY <1>3, <2>1 DEF Told
  <1>4. CASE Restarts
    BY <1>4 DEF Restarts, Told
  <1>5. CASE UNCHANGED <<cmds, busy, sent>>
    BY <1>5 DEF Told
  <1>6. ASSUME NEW s \in Requests, Begin(s) \/ Unauthorized(s) \/ Serve(s) \/ Fails(s), ~ Pushes(s)
        PROVE  UNCHANGED <<cmds, busy, sent>>
    BY <1>6 DEF Serve, Begin, Unauthorized, Passes, Misses, Inserts, Writes, Raises, Stores, Caches,
                Polls, Answers, Commits, Fails
  <1>7. CASE UNCHANGED vars
    BY <1>5, <1>7 DEF vars
  <1>8. QED BY <1>1, <1>2, <1>3, <1>4, <1>5, <1>6, <1>7 DEF Next, Engine

LEMMA PostedTodo ==
  ASSUME TypeInv, Accounted, Posted, [Next]_vars, NEW r \in Requests, stage'[r] = "open"
  PROVE  RowOf(r) \in txn'[r].added \/ Before(InsertMessage, PushMessage, todo'[r])
  <1>0. todo[r] \in Seq(Steps)
    BY DEF TypeInv, TypeOK
  <1>1. CASE Same(r)
    BY <1>1 DEF Same, Posted
  <1>2. CASE Begin(r)
    <2>1. PICK i \in Asks[r] : todo'[r] \in Table[Serves[i]].does
      BY <1>2 DEF Begin, TypeInv, TypeOK
    <2>2. Serves[i] \in DOMAIN Table
      BY RouteAssumption
    <2>3. Before(InsertMessage, PushMessage, todo'[r])
      BY <2>1, <2>2, StorageAssumption DEF InsertMessage, PushMessage
    <2>4. QED BY <2>3
  <1>3. CASE Unauthorized(r)
    BY <1>3 DEF Unauthorized, TypeInv, TypeOK
  <1>4. CASE Answers(r) \/ Ends(r)
    BY <1>4 DEF Answers, Ends, TypeInv, TypeOK
  <1>5. CASE GoesOn(r) /\ (Serve(r) \/ Fails(r))
    <2>1. RowOf(r) \in txn[r].added \/ Before(InsertMessage, PushMessage, todo[r])
      BY <1>5 DEF GoesOn, Posted
    <2>2. txn[r].added \subseteq txn'[r].added
      BY <1>5, WritesBy
    <2>3. CASE todo'[r] = todo[r]
      BY <2>1, <2>2, <2>3
    <2>4. CASE todo[r] # <<>> /\ todo'[r] = Tail(todo[r])
      <3>1. CASE Head(todo[r]) = InsertMessage
        <4>1. At(r, "insert") /\ What(r) = "messages"
          BY <1>5, <2>4, <3>1 DEF At, What, InsertMessage, StepOf, GoesOn
        <4>2. QED BY <1>5, <4>1, WritesBy DEF RowOf
      <3>2. CASE Head(todo[r]) # InsertMessage
        BY <1>0, <2>1, <2>2, <2>4, <3>2, BeforeTail
      <3>3. QED BY <3>1, <3>2
    <2>5. QED BY <1>5, <2>3, <2>4 DEF GoesOn
  <1>6. QED BY <1>1, <1>2, <1>3, <1>4, <1>5, OwnOrSame, HowItGoes DEF Own, TypeInv

LEMMA PostedDeleted ==
  ASSUME TypeInv, Accounted, Posted, [Next]_vars, NEW r \in Requests, NEW row \in txn'[r].deleted
  PROVE  row[1] # "messages"
  <1>1. CASE row \in txn[r].deleted
    BY <1>1 DEF Posted
  <1>2. CASE Same(r) \/ Begin(r) \/ Unauthorized(r) \/ Answers(r)
    BY <1>1, <1>2 DEF Same, Begin, Unauthorized, Answers
  <1>3. CASE Ends(r)
    BY <1>3 DEF Ends, NoWrites
  <1>4. CASE GoesOn(r) /\ (Serve(r) \/ Fails(r))
    <2>1. row \in txn[r].deleted \/ (At(r, "delete") /\ row = <<What(r), target[r]>>)
      BY <1>4, WritesBy
    <2>2. ASSUME At(r, "delete"), What(r) = "messages" PROVE FALSE
      <3>1. /\ stage[r] = "open" /\ todo[r] # <<>>
            /\ Head(todo[r]).act = "delete" /\ Head(todo[r]).what = "messages"
        BY <2>2 DEF At, What
      <3>2. PICK i \in DOMAIN Table : plan[r] \in Table[i].does /\ \E k \in DOMAIN plan[r] :
              Head(todo[r]) = plan[r][k] /\ Head(todo[r]) \in Steps
        BY <3>1, HeadOfPlan
      <3>3. Head(todo[r]) = StepOf("delete", "messages")
        BY <3>1, <3>2, StepIsRecord
      <3>4. QED BY <3>2, <3>3, StorageAssumption
    <2>3. QED BY <1>1, <2>1, <2>2
  <1>5. QED BY <1>2, <1>3, <1>4, OwnOrSame, HowItGoes DEF Own, TypeInv

LEMMA PlaceAfter ==
  ASSUME NEW p \in Nat, NEW t \in Nat, t <= p, NEW k \in 1..(t - 1), NEW u, u = t - 1
  PROVE  /\ p - u + k = p - t + 1 + k
         /\ p - t + 1 + k \in 1..p
         /\ ~ (p - t + 1 + k < p - t + 1)
  OBVIOUS

(* When a step with an effect is next, no check is left after it.          *)
LEMMA NoCheckAfter ==
  ASSUME TypeInv, Accounted, NEW r \in Requests, stage[r] = "open", todo[r] # <<>>,
         Head(todo[r]).act \in Effects
  PROVE  NoChecks(Tail(todo[r]))
  <1>1. plan[r] \in Seq(Steps) /\ todo[r] \in Seq(Steps) /\ Suffix(plan[r], todo[r])
    BY DEF TypeInv, TypeOK, Accounted, Sound
  <1>2. PICK i \in DOMAIN Table : plan[r] \in Table[i].does
    BY HeadOfPlan
  <1> DEFINE n == Len(plan[r]) - Len(todo[r]) + 1
  <1>3. n \in DOMAIN plan[r] /\ Head(todo[r]) = plan[r][n] /\ Suffix(plan[r], Tail(todo[r]))
    BY <1>1, TailIsSuffix
  <1>4. /\ Len(todo[r]) \in Nat \ {0} /\ Len(plan[r]) \in Nat /\ DOMAIN plan[r] = 1..Len(plan[r])
        /\ Tail(todo[r]) \in Seq(Steps) /\ Len(Tail(todo[r])) = Len(todo[r]) - 1
    BY <1>1, LenProperties, EmptySeq, HeadTailProperties
  <1>5. ASSUME NEW k \in DOMAIN Tail(todo[r]) PROVE Tail(todo[r])[k].act \notin Checks
    <2>1. k \in 1..(Len(todo[r]) - 1)
      BY <1>4, LenProperties
    <2>2. Tail(todo[r])[k] = plan[r][Len(plan[r]) - Len(Tail(todo[r])) + k]
      BY <1>3, <1>4, <2>1 DEF Suffix
    <2>3. Len(todo[r]) <= Len(plan[r])
      BY <1>1 DEF Suffix
    <2>4. /\ Len(plan[r]) - Len(Tail(todo[r])) + k = n + k
          /\ n + k \in 1..Len(plan[r]) /\ ~ (n + k < n)
      BY <1>4, <2>1, <2>3, PlaceAfter
    <2>5. n + k \in DOMAIN plan[r] /\ ~ (n + k < n)
      BY <1>4, <2>4
    <2>6. plan[r][n + k].act \notin Checks
      BY <1>2, <1>3, <2>5, OrderAssumption
    <2>7. QED BY <2>2, <2>4, <2>6
  <1>6. QED BY <1>5 DEF NoChecks

(* A command that goes out leaves a request with the row in its            *)
(* transaction and nothing left that could refuse it.                      *)
LEMMA PostedPush ==
  ASSUME TypeInv, Accounted, Posted, NEW r \in Requests, Pushes(r), What(r) = "send_message"
  PROVE  /\ stage'[r] = "open" /\ answer'[r] = 0
         /\ RowOf(r) \in txn'[r].added /\ NoChecks(todo'[r])
  <1>1. /\ stage[r] = "open" /\ todo[r] # <<>> /\ todo[r] \in Seq(Steps)
        /\ Head(todo[r]).act = "push" /\ Head(todo[r]).what = "send_message"
        /\ todo'[r] = Tail(todo[r]) /\ UNCHANGED <<stage, answer, txn>>
    BY DEF Pushes, At, Advance, What, TypeInv, TypeOK
  <1>2. Head(todo[r]) = PushMessage
    BY <1>1, StepIsRecord, HeadTailProperties DEF PushMessage
  <1>3. RowOf(r) \in txn[r].added
    BY <1>1, <1>2, BeforeTail DEF Posted
  <1>4. NoChecks(Tail(todo[r]))
    BY <1>1, NoCheckAfter DEF Effects
  <1>5. QED BY <1>1, <1>3, <1>4 DEF TypeInv, Serving

LEMMA PostedTold ==
  ASSUME TypeInv, Accounted, Posted, [Next]_vars, NEW r \in Requests, Told(r)'
  PROVE  /\ stage'[r] # "idle"
         /\ stage'[r] = "open" => RowOf(r) \in txn'[r].added /\ NoChecks(todo'[r])
         /\ stage'[r] = "closing" => RowOf(r) \in txn'[r].added
         /\ answer'[r] = 200 /\ stage'[r] = "ended" => RowOf(r) \in rows'
  <1>0. todo[r] \in Seq(Steps) /\ (stage[r] = "open" => answer[r] = 0)
    BY DEF TypeInv, TypeOK, Serving
  <1>1. CASE Pushes(r) /\ What(r) = "send_message"
    BY <1>1, PostedPush
  <1>2. CASE Told(r)
    <2>1. /\ stage[r] # "idle"
          /\ stage[r] = "open" => RowOf(r) \in txn[r].added /\ NoChecks(todo[r])
          /\ stage[r] = "closing" => RowOf(r) \in txn[r].added
          /\ answer[r] = 200 /\ stage[r] = "ended" => RowOf(r) \in rows
      BY <1>2 DEF Posted
    <2>2. CASE Same(r)
      BY <2>1, <2>2, RowStays DEF Same
    <2>3. CASE Begin(r) \/ Unauthorized(r)
      BY <2>1, <2>3 DEF Begin, Unauthorized
    <2>4. CASE GoesOn(r) /\ (Serve(r) \/ Fails(r))
      <3>1. /\ stage[r] = "open" /\ stage'[r] = "open" /\ answer'[r] = 0
            /\ todo'[r] = todo[r] \/ (todo[r] # <<>> /\ todo'[r] = Tail(todo[r]))
        BY <1>0, <2>4 DEF GoesOn
      <3>2. RowOf(r) \in txn'[r].added
        BY <2>1, <2>4, <3>1, WritesBy
      <3>3. NoChecks(todo'[r])
        <4>1. CASE todo'[r] = todo[r]
          BY <2>1, <3>1, <4>1
        <4>2. CASE todo[r] # <<>> /\ todo'[r] = Tail(todo[r])
          <5>1. /\ Len(todo[r]) \in Nat \ {0} /\ DOMAIN todo[r] = 1..Len(todo[r])
                /\ DOMAIN todo'[r] = 1..(Len(todo[r]) - 1)
                /\ \A k \in 1..(Len(todo[r]) - 1) : todo'[r][k] = todo[r][k + 1]
            BY <1>0, <4>2, LenProperties, EmptySeq, HeadTailProperties
          <5>2. \A k \in DOMAIN todo'[r] : k + 1 \in DOMAIN todo[r] /\ todo'[r][k] = todo[r][k + 1]
            BY <5>1
          <5>3. QED BY <2>1, <3>1, <5>2 DEF NoChecks
        <4>3. QED BY <3>1, <4>1, <4>2
      <3>4. QED BY <3>1, <3>2, <3>3
    <2>5. CASE Ends(r)
      <3>1. /\ stage[r] \in {"open", "closing"} /\ stage'[r] \in {"ended", "failed"}
            /\ answer'[r] = 200 /\ stage'[r] = "ended" => Commits(r) \/ Misses(r)
        BY <2>5 DEF Ends
      <3>2. ~ Misses(r)
        <4>1. (1 \in DOMAIN todo[r] /\ Head(todo[r]) = todo[r][1]) \/ todo[r] = <<>>
          BY <1>0, LenProperties, EmptySeq, HeadTailProperties
        <4>2. QED BY <2>1, <3>1, <4>1 DEF Misses, At, NoChecks
      <3>3. Commits(r) => RowOf(r) \in rows'
        BY <2>1, <3>1 DEF Commits, Posted, RowOf
      <3>4. QED BY <3>1, <3>2, <3>3
    <2>7. CASE Answers(r)
      <3>1. stage[r] = "open" /\ stage'[r] = "closing" /\ txn' = txn
        BY <2>7 DEF Answers, Returns, TypeInv, TypeOK
      <3>2. QED BY <2>1, <3>1
    <2>6. QED BY <2>2, <2>3, <2>4, <2>5, <2>7, OwnOrSame, HowItGoes DEF Own, TypeInv
  <1>3. QED BY <1>1, <1>2, ToldBy

LEMMA PostedNext == TypeInv /\ Accounted /\ Posted /\ [Next]_vars => Posted'
  BY PostedTold, PostedTodo, PostedDeleted DEF Posted

(* A message that was sent and whose request was answered 200 and has      *)
(* ended is in the table for good, at any number of requests, unless the   *)
(* request failed, be it in a commit behind its answer.                    *)
THEOREM SentMessagesHaveRows == Spec => []SentMessageHasRow
  <1>1. TypeInv /\ Accounted /\ Posted /\ [Next]_vars => Posted'
    BY PostedNext
  <1>2. Posted /\ TypeInv => SentMessageHasRow
    BY DEF Posted, Told, RowOf, SentMessageHasRow, TypeInv, TypeOK
  <1>3. QED BY <1>1, <1>2, InitPosted, AccountedInvariant, PTL DEF Spec

(***************************************************************************)
(* Commands: the places of a command are counted, and a request's plan     *)
(* says which commands it has pushed so far, each under its own number.    *)
(***************************************************************************)
Command(r, step, n) == [by |-> r, action |-> step.what, nth |-> n]

PushesIn(p, t) == {k \in 1..(Len(p) - Len(t)) : p[k].act = "push"}

PushedOf(r, p, t) == {Command(r, p[k], Len(p) - k + 1) : k \in PushesIn(p, t)}

Fate(c) ==
  Cardinality(Spots(cmds, {c})) + Cardinality(Spots(events, {c}))
    + ZeroOne(c \in busy) + ZeroOne(c \in lost)

Fated == \A c \in Commands : Fate(c) = ZeroOne(c \in PushedOf(c.by, plan[c.by], todo[c.by]))

(* A step that is no push leaves the commands of a request as they are, a  *)
(* push adds one that was not among them.                                  *)
LEMMA PushedAdvance ==
  ASSUME NEW r, NEW p \in Seq(Steps), NEW t \in Seq(Steps), Suffix(p, t), t # <<>>
  PROVE  /\ Head(t).act # "push" => PushedOf(r, p, Tail(t)) = PushedOf(r, p, t)
         /\ Head(t).act = "push" =>
              /\ PushedOf(r, p, Tail(t)) = PushedOf(r, p, t) \union {Command(r, Head(t), Len(t))}
              /\ Command(r, Head(t), Len(t)) \notin PushedOf(r, p, t)
  <1> DEFINE n == Len(p) - Len(t) + 1
  <1>1. Head(t) = p[n]
    BY TailIsSuffix
  <1>2. /\ Len(t) \in Nat \ {0} /\ Len(p) \in Nat /\ Len(t) <= Len(p)
        /\ Len(Tail(t)) = Len(t) - 1
    BY EmptySeq, LenProperties, HeadTailProperties DEF Suffix
  <1>3. /\ 1..(Len(p) - Len(Tail(t))) = (1..(Len(p) - Len(t))) \union {n}
        /\ n \notin 1..(Len(p) - Len(t)) /\ Len(p) - n + 1 = Len(t)
    BY <1>2
  <1>4. \A k \in 1..(Len(p) - Len(t)) : Len(p) - k + 1 # Len(t)
    BY <1>2
  <1> HIDE DEF n
  <1>5. CASE Head(t).act # "push"
    <2>1. PushesIn(p, Tail(t)) = PushesIn(p, t)
      BY <1>1, <1>3, <1>5 DEF PushesIn
    <2>2. QED BY <1>5, <2>1 DEF PushedOf
  <1>6. CASE Head(t).act = "push"
    <2>1. PushesIn(p, Tail(t)) = PushesIn(p, t) \union {n}
      BY <1>1, <1>3, <1>6 DEF PushesIn
    <2>2. Command(r, p[n], Len(p) - n + 1) = Command(r, Head(t), Len(t))
      BY <1>1, <1>3
    <2>3. PushedOf(r, p, Tail(t)) = PushedOf(r, p, t) \union {Command(r, Head(t), Len(t))}
      BY <2>1, <2>2 DEF PushedOf
    <2>4. \A k \in PushesIn(p, t) : Command(r, p[k], Len(p) - k + 1).nth # Command(r, Head(t), Len(t)).nth
      BY <1>4 DEF PushesIn, Command
    <2>5. QED BY <1>6, <2>3, <2>4 DEF PushedOf
  <1>7. QED BY <1>5, <1>6

LEMMA PushedStart ==
  ASSUME NEW r, NEW p \in Seq(Steps)
  PROVE  PushedOf(r, p, p) = {}
  <1>1. Len(p) \in Nat /\ 1..(Len(p) - Len(p)) = {}
    BY LenProperties
  <1>2. QED BY <1>1 DEF PushedOf, PushesIn

LEMMA InitFated == Init => Fated
  <1> SUFFICES ASSUME Init, NEW c \in Commands
               PROVE  Fate(c) = ZeroOne(c \in PushedOf(c.by, plan[c.by], todo[c.by]))
    BY DEF Fated
  <1>1. c.by \in Requests
    BY DEF Commands
  <1>2. <<>> \in Seq(Steps) /\ plan[c.by] = <<>> /\ todo[c.by] = <<>>
    BY <1>1 DEF Init
  <1>3. PushedOf(c.by, <<>>, <<>>) = {}
    BY <1>2, PushedStart
  <1>4. Cardinality(Spots(cmds, {c})) = 0 /\ Cardinality(Spots(events, {c})) = 0
    BY SpotsEmpty DEF Init
  <1>5. QED BY <1>2, <1>3, <1>4 DEF Init, Fate, ZeroOne

(* The places of a command are counted by natural numbers.                 *)
LEMMA FateNats ==
  ASSUME TypeInv, NEW c
  PROVE  /\ Cardinality(Spots(cmds, {c})) \in Nat /\ Cardinality(Spots(events, {c})) \in Nat
         /\ \A b : ZeroOne(b) \in {0, 1}
  BY SpotsFinite DEF TypeInv, TypeOK, ZeroOne

(* What the engine's steps and a push move, a command being counted once.  *)
LEMMA FatePush ==
  ASSUME TypeInv, Accounted, Fated, NEW r \in Requests, Pushes(r)
  PROVE  Fated'
  <1> DEFINE d == Command(r, Head(todo[r]), Len(todo[r]))
  <1>1. /\ plan[r] \in Seq(Steps) /\ todo[r] \in Seq(Steps) /\ todo[r] # <<>>
        /\ Suffix(plan[r], todo[r]) /\ cmds \in Seq(Commands)
        /\ Head(todo[r]).act = "push"
    BY DEF TypeInv, TypeOK, Accounted, Sound, Pushes, At
  <1>2. /\ cmds' = Append(cmds, d) /\ UNCHANGED <<events, busy, lost, plan>>
        /\ todo'[r] = Tail(todo[r])
        /\ \A s \in Requests : s # r => todo'[s] = todo[s]
    BY DEF Pushes, Advance, Command, What, engineVars, TypeInv, TypeOK
  <1>3. d \in Commands
    BY NewCommand DEF Command, What
  <1>4. d.by = r
    BY DEF Command
  <1>5. /\ PushedOf(r, plan[r], Tail(todo[r])) = PushedOf(r, plan[r], todo[r]) \union {d}
        /\ d \notin PushedOf(r, plan[r], todo[r])
    BY <1>1, PushedAdvance
  <1> HIDE DEF d
  <1> SUFFICES ASSUME NEW c \in Commands
               PROVE  Fate(c)' = ZeroOne(c \in PushedOf(c.by, plan'[c.by], todo'[c.by]))
    BY DEF Fated, PushedOf, PushesIn, Command
  <1>6. c.by \in Requests
    BY DEF Commands
  <1>7. Cardinality(Spots(cmds, {c})) + Cardinality(Spots(events, {c}))
          + ZeroOne(c \in busy) + ZeroOne(c \in lost)
          = ZeroOne(c \in PushedOf(c.by, plan[c.by], todo[c.by]))
    BY DEF Fated, Fate
  <1>8. Cardinality(Spots(cmds', {c})) = Cardinality(Spots(cmds, {c})) + ZeroOne(d \in {c})
    BY <1>1, <1>2, <1>3, SpotsAppend
  <1>9. ZeroOne(c \in PushedOf(c.by, plan'[c.by], todo'[c.by]))
          = ZeroOne(c \in PushedOf(c.by, plan[c.by], todo[c.by])) + ZeroOne(d \in {c})
    <2>1. CASE c = d
      BY <1>2, <1>4, <1>5, <2>1 DEF ZeroOne
    <2>2. CASE c # d /\ c.by = r
      BY <1>2, <1>5, <2>2 DEF ZeroOne
    <2>3. CASE c # d /\ c.by # r
      BY <1>2, <1>6, <2>3 DEF ZeroOne
    <2>4. QED BY <2>1, <2>2, <2>3
  <1>10. Fate(c)' = Cardinality(Spots(cmds', {c})) + Cardinality(Spots(events, {c}))
                      + ZeroOne(c \in busy) + ZeroOne(c \in lost)
    BY <1>2 DEF Fate, Spots, ZeroOne
  <1>11. PICK q \in Nat, e \in Nat, b \in Nat, l \in Nat :
           /\ q = Cardinality(Spots(cmds, {c})) /\ e = Cardinality(Spots(events, {c}))
           /\ b = ZeroOne(c \in busy) /\ l = ZeroOne(c \in lost)
    BY FateNats DEF ZeroOne
  <1>12. ZeroOne(d \in {c}) \in Nat
    BY FateNats DEF ZeroOne
  <1>13. QED BY <1>7, <1>8, <1>9, <1>10, <1>11, <1>12

(* The head of the list is being executed.                                 *)
LEMMA FateTakes ==
  ASSUME TypeInv, Fated, Takes, NEW c \in Commands
  PROVE  Fate(c)' = Fate(c)
  <1>1. /\ cmds # <<>> /\ cmds' = Tail(cmds) /\ busy' = busy \union {Head(cmds)}
        /\ UNCHANGED <<events, lost>> /\ cmds \in Seq(Commands)
    BY DEF Takes, TypeInv, TypeOK
  <1>2. Cardinality(Spots(cmds', {c})) + ZeroOne(Head(cmds) \in {c}) = Cardinality(Spots(cmds, {c}))
    BY <1>1, SpotsTail
  <1>3. Cardinality(Spots(cmds', {c})) \in Nat
    BY <1>1, SpotsFinite, HeadTailProperties
  <1>4. Fate(c) \in {0, 1}
    BY DEF Fated, ZeroOne
  <1>5. PICK q \in Nat, e \in Nat, b \in {0, 1}, l \in {0, 1}, h \in {0, 1} :
           /\ q = Cardinality(Spots(cmds', {c})) /\ e = Cardinality(Spots(events, {c}))
           /\ b = ZeroOne(c \in busy) /\ l = ZeroOne(c \in lost)
           /\ h = ZeroOne(Head(cmds) \in {c})
    BY <1>3, FateNats DEF ZeroOne
  <1>6. Fate(c) = q + h + e + b + l
    BY <1>2, <1>5 DEF Fate
  <1>7. ZeroOne(c \in busy') = b + h
    <2>1. CASE Head(cmds) = c
      <3>1. h = 1
        BY <1>5, <2>1 DEF ZeroOne
      <3>2. b = 0
        BY <1>4, <1>6, <3>1
      <3>3. c \in busy'
        BY <1>1, <2>1
      <3>4. QED BY <3>1, <3>2, <3>3 DEF ZeroOne
    <2>2. CASE Head(cmds) # c
      BY <1>1, <1>5, <2>2 DEF ZeroOne
    <2>3. QED BY <2>1, <2>2
  <1>8. Fate(c)' = q + e + (b + h) + l
    BY <1>1, <1>5, <1>7 DEF Fate, Spots, ZeroOne
  <1>9. QED BY <1>6, <1>8

(* A command that was executed is answered.                                *)
LEMMA FateResponds ==
  ASSUME TypeInv, Fated, NEW d \in busy, Responds(d), NEW c \in Commands
  PROVE  Fate(c)' = Fate(c)
  <1>1. /\ events' = Append(events, d) /\ busy' = busy \ {d} /\ UNCHANGED <<cmds, lost>>
        /\ events \in Seq(Commands) /\ d \in Commands
    BY DEF Responds, TypeInv, TypeOK
  <1>2. Cardinality(Spots(events', {c})) = Cardinality(Spots(events, {c})) + ZeroOne(d \in {c})
    BY <1>1, SpotsAppend
  <1>3. ZeroOne(c \in busy') + ZeroOne(d \in {c}) = ZeroOne(c \in busy)
    <2>1. CASE c = d
      BY <1>1, <2>1 DEF ZeroOne
    <2>2. CASE c # d
      BY <1>1, <2>2 DEF ZeroOne
    <2>3. QED BY <2>1, <2>2
  <1>4. PICK q \in Nat, e \in Nat, b \in {0, 1}, l \in {0, 1}, h \in {0, 1} :
           /\ q = Cardinality(Spots(cmds, {c})) /\ e = Cardinality(Spots(events, {c}))
           /\ b = ZeroOne(c \in busy') /\ l = ZeroOne(c \in lost)
           /\ h = ZeroOne(d \in {c})
    BY FateNats DEF ZeroOne
  <1>5. Fate(c) = q + e + (b + h) + l
    BY <1>3, <1>4 DEF Fate
  <1>6. Fate(c)' = q + (e + h) + b + l
    BY <1>1, <1>2, <1>4 DEF Fate, Spots, ZeroOne
  <1>7. QED BY <1>5, <1>6

(* What was being executed goes down with the engine.                      *)
LEMMA FateRestarts ==
  ASSUME TypeInv, Fated, Restarts, NEW c \in Commands
  PROVE  Fate(c)' = Fate(c)
  <1>1. busy' = {} /\ lost' = lost \union busy /\ UNCHANGED <<cmds, events>>
    BY DEF Restarts
  <1>2. Fate(c) \in {0, 1}
    BY DEF Fated, ZeroOne
  <1>3. PICK q \in Nat, e \in Nat, b \in {0, 1}, l \in {0, 1} :
           /\ q = Cardinality(Spots(cmds, {c})) /\ e = Cardinality(Spots(events, {c}))
           /\ b = ZeroOne(c \in busy) /\ l = ZeroOne(c \in lost)
    BY FateNats DEF ZeroOne
  <1>4. Fate(c) = q + e + b + l
    BY <1>3 DEF Fate
  <1>5. ZeroOne(c \in lost') = b + l /\ ZeroOne(c \in busy') = 0
    <2>1. b + l # 2
      BY <1>2, <1>4
    <2>2. QED BY <1>1, <1>3, <2>1 DEF ZeroOne
  <1>6. Fate(c)' = q + e + 0 + (b + l)
    BY <1>1, <1>3, <1>5 DEF Fate, Spots, ZeroOne
  <1>7. QED BY <1>4, <1>6

(* The head of the list is lost with the reply that carried it.            *)
LEMMA FateTakesUnheard ==
  ASSUME TypeInv, Fated, TakesUnheard, NEW c \in Commands
  PROVE  Fate(c)' = Fate(c)
  <1>1. /\ cmds # <<>> /\ cmds' = Tail(cmds) /\ lost' = lost \union {Head(cmds)}
        /\ UNCHANGED <<events, busy>> /\ cmds \in Seq(Commands)
    BY DEF TakesUnheard, TypeInv, TypeOK
  <1>2. Cardinality(Spots(cmds', {c})) + ZeroOne(Head(cmds) \in {c}) = Cardinality(Spots(cmds, {c}))
    BY <1>1, SpotsTail
  <1>3. Cardinality(Spots(cmds', {c})) \in Nat
    BY <1>1, SpotsFinite, HeadTailProperties
  <1>4. Fate(c) \in {0, 1}
    BY DEF Fated, ZeroOne
  <1>5. PICK q \in Nat, e \in Nat, b \in {0, 1}, l \in {0, 1}, h \in {0, 1} :
           /\ q = Cardinality(Spots(cmds', {c})) /\ e = Cardinality(Spots(events, {c}))
           /\ b = ZeroOne(c \in busy) /\ l = ZeroOne(c \in lost)
           /\ h = ZeroOne(Head(cmds) \in {c})
    BY <1>3, FateNats DEF ZeroOne
  <1>6. Fate(c) = q + h + e + b + l
    BY <1>2, <1>5 DEF Fate
  <1>7. ZeroOne(c \in lost') = l + h
    <2>1. CASE Head(cmds) = c
      <3>1. h = 1
        BY <1>5, <2>1 DEF ZeroOne
      <3>2. l = 0
        BY <1>4, <1>6, <3>1
      <3>3. c \in lost'
        BY <1>1, <2>1
      <3>4. QED BY <3>1, <3>2, <3>3 DEF ZeroOne
    <2>2. CASE Head(cmds) # c
      BY <1>1, <1>5, <2>2 DEF ZeroOne
    <2>3. QED BY <2>1, <2>2
  <1>8. Fate(c)' = q + e + b + (l + h)
    BY <1>1, <1>5, <1>7 DEF Fate, Spots, ZeroOne
  <1>9. QED BY <1>6, <1>8

(* A command that was executed is lost with its answer.                    *)
LEMMA FateRespondsUnheard ==
  ASSUME TypeInv, Fated, NEW d \in busy, RespondsUnheard(d), NEW c \in Commands
  PROVE  Fate(c)' = Fate(c)
  <1>1. busy' = busy \ {d} /\ lost' = lost \union {d} /\ UNCHANGED <<cmds, events>>
    BY DEF RespondsUnheard
  <1>2. Fate(c) \in {0, 1}
    BY DEF Fated, ZeroOne
  <1>3. PICK q \in Nat, e \in Nat, b \in {0, 1}, l \in {0, 1} :
           /\ q = Cardinality(Spots(cmds, {c})) /\ e = Cardinality(Spots(events, {c}))
           /\ b = ZeroOne(c \in busy) /\ l = ZeroOne(c \in lost)
    BY FateNats DEF ZeroOne
  <1>4. Fate(c) = q + e + b + l
    BY <1>3 DEF Fate
  <1>5. ZeroOne(c \in busy') + ZeroOne(c \in lost') = b + l
    <2>1. b + l # 2
      BY <1>2, <1>3, <1>4
    <2>2. CASE c = d
      BY <1>1, <1>3, <2>1, <2>2 DEF ZeroOne
    <2>3. CASE c # d
      BY <1>1, <1>3, <2>3 DEF ZeroOne
    <2>4. QED BY <2>2, <2>3
  <1>6. ZeroOne(c \in lost') \in Nat /\ ZeroOne(c \in busy') \in Nat
    BY DEF ZeroOne
  <1>7. Fate(c)' = q + e + ZeroOne(c \in busy') + ZeroOne(c \in lost')
    BY <1>1, <1>3 DEF Fate, Spots, ZeroOne
  <1>8. QED BY <1>3, <1>4, <1>5, <1>6, <1>7

(* Only a push gets past a push.                                           *)
LEMMA StaysAtPush ==
  ASSUME TypeInv, NEW r \in Requests, Serve(r) \/ Fails(r), ~ Pushes(r), todo'[r] # todo[r]
  PROVE  Head(todo[r]).act # "push"
  <1>1. ~ (Misses(r) \/ Raises(r) \/ Answers(r) \/ Commits(r) \/ Fails(r))
    BY DEF Misses, Raises, Answers, Commits, Fails
  <1>2. QED BY <1>1 DEF Serve, Passes, Inserts, Writes, Stores, Caches, Polls, At, Checks

(* A step of a request that is no push leaves every command where it is,   *)
(* and does not change which ones the request has pushed.                  *)
LEMMA FateStep ==
  ASSUME TypeInv, Accounted, Fated, [Next]_vars, NEW s \in Requests, Own(s), ~ Pushes(s)
  PROVE  Fated'
  <1>0. TypeOK
    BY DEF TypeInv
  <1>1. UNCHANGED <<cmds, events, busy, lost>>
    BY DEF Own, Serve, Begin, Unauthorized, Passes, Misses, Inserts, Writes, Raises, Stores, Caches,
           Polls, Answers, Commits, Fails, engineVars
  <1>2. ASSUME NEW r \in Requests
        PROVE  PushedOf(r, plan'[r], todo'[r]) = PushedOf(r, plan[r], todo[r])
    <2>1. /\ plan[r] \in Seq(Steps) /\ todo[r] \in Seq(Steps) /\ Suffix(plan[r], todo[r])
      BY <1>0 DEF TypeOK, Accounted, Sound
    <2>2. CASE r # s
      BY <1>0, <2>2, OthersStay DEF Same
    <2>3. CASE r = s /\ Begin(r)
      <3>1. plan'[r] \in Seq(Steps) /\ todo'[r] = plan'[r] /\ plan[r] = todo[r]
        BY <1>0, <2>3, TypeNext DEF Begin, TypeInv, TypeOK, Serving
      <3>2. QED BY <2>1, <3>1, PushedStart
    <2>4. CASE r = s /\ Unauthorized(r)
      BY <2>4 DEF Unauthorized
    <2>5. CASE r = s /\ (Answers(r) \/ Ends(r))
      BY <2>5 DEF Answers, Ends
    <2>6. CASE r = s /\ GoesOn(r) /\ (Serve(r) \/ Fails(r))
      <3>1. CASE todo'[r] = todo[r]
        BY <2>6, <3>1 DEF GoesOn
      <3>2. CASE todo[r] # <<>> /\ todo'[r] = Tail(todo[r]) /\ Head(todo[r]).act # "push"
        BY <2>1, <2>6, <3>2, PushedAdvance DEF GoesOn
      <3>3. Head(todo[r]).act # "push" \/ todo'[r] = todo[r]
        BY <1>0, <2>6, StaysAtPush
      <3>4. QED BY <2>6, <3>1, <3>2, <3>3 DEF GoesOn
    <2>7. QED BY <2>2, <2>3, <2>4, <2>5, <2>6, HowItGoes DEF Own
  <1>3. QED
    <2> SUFFICES ASSUME NEW c \in Commands
                 PROVE  Fate(c)' = ZeroOne(c \in PushedOf(c.by, plan'[c.by], todo'[c.by]))
      BY DEF Fated, PushedOf, PushesIn, Command
    <2>1. c.by \in Requests /\ Fate(c) = ZeroOne(c \in PushedOf(c.by, plan[c.by], todo[c.by]))
      BY DEF Commands, Fated
    <2>2. Fate(c)' = Fate(c)
      BY <1>1 DEF Fate, Spots, ZeroOne
    <2>3. QED BY <1>2, <2>1, <2>2

LEMMA FatedNext == TypeInv /\ Accounted /\ Fated /\ [Next]_vars => Fated'
  <1> SUFFICES ASSUME TypeInv, Accounted, Fated, [Next]_vars PROVE Fated'
    OBVIOUS
  <1>1. ASSUME \A c \in Commands : Fate(c)' = Fate(c), UNCHANGED <<plan, todo>>
        PROVE  Fated'
    BY <1>1 DEF Fated, PushedOf, PushesIn, Command
  <1>2. CASE Takes
    BY <1>1, <1>2, FateTakes DEF Takes, requestVars
  <1>3. CASE Restarts
    BY <1>1, <1>3, FateRestarts DEF Restarts, requestVars
  <1>4. ASSUME NEW d \in busy, Responds(d) PROVE Fated'
    BY <1>1, <1>4, FateResponds DEF Responds, requestVars
  <1>8. CASE TakesUnheard
    BY <1>1, <1>8, FateTakesUnheard DEF TakesUnheard, requestVars
  <1>9. ASSUME NEW d \in busy, RespondsUnheard(d) PROVE Fated'
    BY <1>1, <1>9, FateRespondsUnheard DEF RespondsUnheard, requestVars
  <1>5. CASE UNCHANGED vars
    <2>1. UNCHANGED <<cmds, events, busy, lost, plan, todo>>
      BY <1>5 DEF vars, requestVars, engineVars
    <2>2. \A c \in Commands : Fate(c)' = Fate(c)
      BY <2>1 DEF Fate, Spots, ZeroOne
    <2>3. QED BY <1>1, <2>1, <2>2
  <1>6. ASSUME NEW r \in Requests, Own(r) PROVE Fated'
    BY <1>6, FatePush, FateStep
  <1>7. QED BY <1>2, <1>3, <1>4, <1>5, <1>6, <1>8, <1>9 DEF Next, Engine, Own

(* However requests, executions, engine restarts and failures of Redis     *)
(* overlap, a command that was pushed is in the list, being executed,      *)
(* answered once or lost.                                                  *)
THEOREM CommandsHaveOneFate == Spec => []OneFatePerCommand
  <1>1. TypeInv /\ Fated => OneFatePerCommand
    <2> SUFFICES ASSUME TypeInv, Fated, NEW r \in Requests, NEW c \in Pushed(r)
                 PROVE  Cardinality({i \in DOMAIN cmds : cmds[i] = c})
                        + Cardinality({i \in DOMAIN events : events[i] = c})
                        + Cardinality({k \in 1..2 : c \in <<busy, lost>>[k]}) = 1
      BY DEF OneFatePerCommand
    <2>1. c \in PushedOf(r, plan[r], todo[r]) /\ c.by = r
      BY DEF Pushed, PushedOf, PushesIn, Command
    <2>2. c \in Commands
      <3>1. plan[r] \in Seq(Steps) /\ todo[r] \in Seq(Steps)
        BY DEF TypeInv, TypeOK
      <3>2. PICK k \in PushesIn(plan[r], todo[r]) : c = Command(r, plan[r][k], Len(plan[r]) - k + 1)
        BY <2>1 DEF PushedOf
      <3>3. Len(plan[r]) \in Nat /\ Len(todo[r]) \in Nat /\ DOMAIN plan[r] = 1..Len(plan[r])
        BY <3>1, LenProperties
      <3>4. k \in DOMAIN plan[r] /\ Len(plan[r]) - k + 1 \in Nat
        BY <3>3 DEF PushesIn
      <3>5. plan[r][k] \in Steps
        BY <3>1, <3>4
      <3>6. QED BY <3>2, <3>4, <3>5 DEF Command, Commands, Steps
    <2>3. Fate(c) = 1
      BY <2>1, <2>2 DEF Fated, ZeroOne
    <2>4. /\ {i \in DOMAIN cmds : cmds[i] = c} = Spots(cmds, {c})
          /\ {i \in DOMAIN events : events[i] = c} = Spots(events, {c})
      BY DEF Spots
    <2>5. Cardinality({k \in 1..2 : c \in <<busy, lost>>[k]}) = ZeroOne(c \in busy) + ZeroOne(c \in lost)
      BY InTwoSets
    <2>6. PICK q \in Nat, e \in Nat, n \in Nat :
           /\ q = Cardinality({i \in DOMAIN cmds : cmds[i] = c})
           /\ e = Cardinality({i \in DOMAIN events : events[i] = c})
           /\ n = Cardinality({k \in 1..2 : c \in <<busy, lost>>[k]})
      <3>1. Cardinality(Spots(cmds, {c})) \in Nat /\ Cardinality(Spots(events, {c})) \in Nat
        BY FateNats
      <3>2. ZeroOne(c \in busy) + ZeroOne(c \in lost) \in Nat
        BY DEF ZeroOne
      <3>3. QED BY <2>4, <2>5, <3>1, <3>2
    <2>7. PICK b \in Nat, l \in Nat : b = ZeroOne(c \in busy) /\ l = ZeroOne(c \in lost)
      BY DEF ZeroOne
    <2>8. q = Cardinality(Spots(cmds, {c})) /\ e = Cardinality(Spots(events, {c})) /\ n = b + l
      BY <2>4, <2>5, <2>6, <2>7
    <2>9. q + e + b + l = 1
      BY <2>3, <2>7, <2>8 DEF Fate
    <2>10. q + e + n = 1
      BY <2>8, <2>9
    <2>11. QED BY <2>6, <2>10
  <1>2. QED BY <1>1, InitFated, FatedNext, AccountedInvariant, PTL DEF Spec
=============================================================================
