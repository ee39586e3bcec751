---------------------------- MODULE ApiRequests ----------------------------
(***************************************************************************)
(* The requests of the API under way: the steps of the service method that *)
(* serves each, the session per request of get_db, the files of the media  *)
(* service, and the command queue with the engine at its other end.        *)
(*                                                                         *)
(* Table is the list of routes and Serves the route that serves a request  *)
(* meant for each (module ApiRoutes gives both for this application).  A   *)
(* request reads committed rows only; what it writes is flushed at once,   *)
(* which locks existing rows until its end, and committed after the        *)
(* handler has returned, unless an exception of the handler rolls it back. *)
(* The exit code of get_db commits before the answer is sent or after it:  *)
(* FastAPI has had both orders, and requirements.txt pins neither.         *)
(* What the columns hold is left out: an UPDATE locks its row and no more. *)
(***************************************************************************)
EXTENDS Naturals, Sequences, FiniteSets

CONSTANTS
    Requests,     \* HTTP requests, each served once; also the id of the row it inserts
    Old,          \* the id of the rows and the file that are there from the start
    Table,        \* the routes, in the order in which they are matched
    Serves,       \* the route that serves a request meant for a route
    Asks,         \* the routes a request may be meant for
    Names,        \* the names of commands, tables and keys: strings
    MaxPolls,     \* polls before _publish_and_wait gives up (300 in the code)
    MaxFailures   \* bound: failing requests, engine restarts, answers Redis loses

Acts == {"push", "await", "find", "seek", "insert", "update", "delete", "raise",
         "save", "unlink", "open", "forget", "peek", "fill", "refuse"}
Steps == [act : Acts, what : Names]

\* What may end a request before it has had an effect, and what has one.
Checks == {"find", "seek", "open", "refuse"}
Effects == {"push", "save", "unlink", "insert", "update", "delete"}

Tables == {"messages", "chats", "contacts", "groups", "media", "webhooks", "channels"}

ASSUME NameAssumption == Tables \union {"webhooks", "res", "presence"} \subseteq Names
ASSUME RequestAssumption == Old \notin Requests
ASSUME BoundAssumption == MaxPolls \in Nat /\ MaxFailures \in Nat
ASSUME RouteAssumption ==
    /\ Serves \in [DOMAIN Table -> DOMAIN Table]
    /\ Asks \in [Requests -> SUBSET (DOMAIN Table)]
    /\ \A i \in DOMAIN Table : /\ Table[i].does \subseteq Seq(Steps)
                               /\ Table[i].falsy \in {200, 400, 404}

\* The services look up what they need before their first effect.
ASSUME OrderAssumption ==
    \A i \in DOMAIN Table : \A steps \in Table[i].does :
        \A j, k \in DOMAIN steps :
            steps[j].act \in Effects /\ steps[k].act \in Checks => k < j

\* `first` comes before `then` in the steps.
Before(first, then, steps) ==
    \A k \in DOMAIN steps : steps[k] = then => \E j \in 1..(k - 1) : steps[j] = first

StepOf(act, what) == [act |-> act, what |-> what]

\* They store the row of a message before they push it, and a file before its
\* row; none deletes a message.
ASSUME StorageAssumption ==
    \A i \in DOMAIN Table : \A steps \in Table[i].does :
        /\ Before(StepOf("insert", "messages"), StepOf("push", "send_message"), steps)
        /\ Before(StepOf("save", "media"), StepOf("insert", "media"), steps)
        /\ \A k \in DOMAIN steps : steps[k] # StepOf("delete", "messages")

Stages == {"idle", "open", "closing", "ended", "failed"}

VARIABLES
    stage,      \* "idle", "open", "closing" (answered, not committed), "ended" or "failed"
    asked,      \* the route a request is meant for
    target,     \* the id in its path
    plan,       \* the steps of the method that serves it
    todo,       \* those it has not taken yet
    polls,      \* polls of the wait it is in
    answer,     \* the status it was answered with, 0 before
    late,       \* requests that gave up their wait for the engine
    txn,        \* what a request has written and locked in its transaction
    rows,       \* the committed rows, as table and id
    files,      \* the media files on disk
    keys,       \* Redis keys: the answers wa:res:{request_id} and the presence cache
    cmds,       \* wa:cmd:queue, oldest first
    busy,       \* commands the engine is executing
    events,     \* the answers in wa:events:queue, oldest first
    lost,       \* history: commands that went down with the engine or in Redis, or whose
                \* answer did
    sent,       \* requests whose message the engine has handed to WhatsApp
    failures    \* failures so far, for the bound

requestVars == <<stage, asked, target, plan, todo, polls, answer, late, txn>>
engineVars == <<cmds, busy, events, lost, sent>>
vars == <<requestVars, rows, files, keys, engineVars, failures>>

Ids == Requests \union {Old}
Rows == Names \X Ids
NoWrites == [added |-> {}, deleted |-> {}, locked |-> {}]
Commands == [by : Requests, action : Names, nth : Nat]

----------------------------------------------------------------------------
Init ==
    /\ stage = [r \in Requests |-> "idle"]
    /\ asked = [r \in Requests |-> 0]
    /\ target = [r \in Requests |-> Old]
    /\ plan = [r \in Requests |-> <<>>]
    /\ todo = [r \in Requests |-> <<>>]
    /\ polls = [r \in Requests |-> 0]
    /\ answer = [r \in Requests |-> 0]
    /\ late = {}
    /\ txn = [r \in Requests |-> NoWrites]
    /\ rows = Tables \X {Old}
    /\ files = {Old}
    /\ keys = {}
    /\ cmds = <<>> /\ busy = {} /\ events = <<>> /\ lost = {} /\ sent = {}
    /\ failures = 0

\* A request whose key verify_api_key and verify_channel_access accept, for a
\* row that is there or was there, or will be: any but the one it inserts.
Begin(r) ==
    /\ stage[r] = "idle"
    /\ \E i \in Asks[r], id \in Ids \ {r} : \E steps \in Table[Serves[i]].does :
        /\ asked' = [asked EXCEPT ![r] = i]
        /\ target' = [target EXCEPT ![r] = id]
        /\ plan' = [plan EXCEPT ![r] = steps]
        /\ todo' = [todo EXCEPT ![r] = steps]
    /\ stage' = [stage EXCEPT ![r] = "open"]
    /\ UNCHANGED <<polls, answer, late, txn, rows, files, keys, engineVars, failures>>

\* The dependencies of the route raise 401 or 403 before the handler runs.
Unauthorized(r) ==
    /\ stage[r] = "idle"
    /\ stage' = [stage EXCEPT ![r] = "ended"]
    /\ answer' = [answer EXCEPT ![r] = 401]
    /\ UNCHANGED <<asked, target, plan, todo, polls, late, txn, rows, files, keys,
                   engineVars, failures>>

\* The next step of an open request is `act`.
At(r, act) == stage[r] = "open" /\ todo[r] # <<>> /\ Head(todo[r]).act = act
What(r) == Head(todo[r]).what
Advance(r) == todo' = [todo EXCEPT ![r] = Tail(@)]

\* The request is answered and its session closed; what it has flushed is
\* rolled back, unless the step commits it.
End(r, code) ==
    /\ stage' = [stage EXCEPT ![r] = "ended"]
    /\ answer' = [answer EXCEPT ![r] = code]
    /\ txn' = [txn EXCEPT ![r] = NoWrites]

\* Another request's transaction has a lock on the row.
Locked(r, row) == \E s \in Requests \ {r} : row \in txn[s].locked

----------------------------------------------------------------------------
(* The steps of the services. *)

Found(r) ==
    CASE Head(todo[r]).act = "open" -> target[r] \in files
      [] Head(todo[r]).act = "refuse" -> FALSE
      [] OTHER -> <<What(r), target[r]>> \in rows

Passes(r) ==
    /\ \E act \in Checks : At(r, act)
    /\ Found(r)
    /\ Advance(r)
    /\ UNCHANGED <<stage, asked, target, plan, polls, answer, late, txn, rows, files, keys,
                   engineVars, failures>>

\* A row that is not there is a falsy value, a dict (seek) or, when the file
\* is missing, a FileNotFoundError; a body that is refused is a 400.
Miss(r) ==
    CASE Head(todo[r]).act = "find" -> Table[Serves[asked[r]]].falsy
      [] Head(todo[r]).act = "seek" -> 200
      [] Head(todo[r]).act = "open" -> 404
      [] OTHER -> 400

Misses(r) ==
    /\ \E act \in Checks : At(r, act)
    /\ ~ Found(r)
    /\ End(r, Miss(r))
    /\ UNCHANGED <<asked, target, plan, todo, polls, late, rows, files, keys, engineVars, failures>>

\* db.add and flush.  The log of a webhook test refers to its webhook, which
\* may be gone since it was read.
Inserts(r) ==
    LET parent == <<"webhooks", target[r]>>
        log == What(r) = "webhook_logs"
    IN  /\ At(r, "insert")
        /\ log => ~ Locked(r, parent) /\ parent \in rows
        /\ Advance(r)
        /\ txn' = [txn EXCEPT ![r].added = @ \union {<<What(r), r>>},
                              ![r].locked = @ \union (IF log THEN {parent} ELSE {})]
        /\ UNCHANGED <<stage, asked, target, plan, polls, answer, late, rows, files, keys,
                       engineVars, failures>>

\* An UPDATE or DELETE waits for the row.  A DELETE that finds it gone is
\* only warned of.
Writes(r) ==
    LET row == <<What(r), target[r]>>
    IN  /\ At(r, "update") \/ At(r, "delete")
        /\ ~ Locked(r, row)
        /\ At(r, "update") => row \in rows
        /\ Advance(r)
        /\ txn' = [txn EXCEPT ![r].locked = @ \union {row},
                              ![r].deleted = IF At(r, "delete") THEN @ \union {row} ELSE @]
        /\ UNCHANGED <<stage, asked, target, plan, polls, answer, late, rows, files, keys,
                       engineVars, failures>>

\* A statement that raises: an UPDATE of a row that is gone (StaleDataError),
\* a log without its webhook (IntegrityError), and delete_message's AttributeError.
Raises(r) ==
    /\ \/ At(r, "raise")
       \/ At(r, "update") /\ <<What(r), target[r]>> \notin rows
       \/ At(r, "insert") /\ What(r) = "webhook_logs" /\ <<"webhooks", target[r]>> \notin rows
    /\ End(r, 500)
    /\ UNCHANGED <<asked, target, plan, todo, polls, late, rows, files, keys, engineVars, failures>>

\* Mutation: the file is stored under the name the client gave it.
FileOf_GivenName(id) == Old

\* The name of a stored file: the id of its media, then the client's name.
FileOf(id) == id

\* open(..., "wb") and os.remove, whose failure is only logged.
Stores(r) ==
    /\ \/ At(r, "save") /\ files' = files \union {FileOf(r)}
       \/ At(r, "unlink") /\ files' \in {files, files \ {FileOf(target[r])}}
    /\ Advance(r)
    /\ UNCHANGED <<stage, asked, target, plan, polls, answer, late, txn, rows, keys,
                   engineVars, failures>>

\* get_presence returns what it finds in its cache.
Cached(r) == At(r, "peek") /\ <<"presence", target[r]>> \in keys

\* The presence cache; logout's DEL of the keys of a session concerns no key here.
Caches(r) ==
    /\ \E act \in {"peek", "fill", "forget"} : At(r, act)
    /\ ~ Cached(r)
    /\ Advance(r)
    /\ keys' = IF At(r, "fill") THEN keys \union {<<"presence", target[r]>>} ELSE keys
    /\ UNCHANGED <<stage, asked, target, plan, polls, answer, late, txn, rows, files,
                   engineVars, failures>>

\* LPUSH to wa:cmd:queue with a fresh request_id.
Pushes(r) ==
    /\ At(r, "push")
    /\ cmds' = Append(cmds, [by |-> r, action |-> What(r), nth |-> Len(todo[r])])
    /\ Advance(r)
    /\ UNCHANGED <<stage, asked, target, plan, polls, answer, late, txn, rows, files, keys,
                   busy, events, lost, sent, failures>>

\* Mutation: one poll more than `timeout * 10`.
Waits_OneMore(r) == polls[r] <= MaxPolls

\* for _ in range(timeout * 10)
Waits(r) == polls[r] < MaxPolls

\* Mutation: a wait that ends without an answer is reported as not found.
Polls_NotFound(r) ==
    /\ At(r, "await")
    /\ IF Waits(r)
       THEN polls' = [polls EXCEPT ![r] = @ + 1] /\ UNCHANGED <<stage, answer, txn, late>>
       ELSE End(r, 404) /\ late' = late \union {r} /\ UNCHANGED polls
    /\ UNCHANGED <<asked, target, plan, todo, rows, files, keys, engineVars, failures>>

\* Mutation: the loop polls until there is an answer.
Polls_Forever(r) ==
    /\ At(r, "await")
    /\ <<"res", r>> \in keys
    /\ Advance(r)
    /\ keys' = keys \ {<<"res", r>>}
    /\ UNCHANGED <<stage, asked, target, plan, polls, answer, late, txn, rows, files,
                   engineVars, failures>>

\* One round of the loop in _publish_and_wait; after the last, TimeoutError.
Polls(r) ==
    LET reply == <<"res", r>>
        answered == reply \in keys
    IN  /\ At(r, "await")
        /\ todo' = [todo EXCEPT ![r] = IF answered THEN Tail(@) ELSE @]
        /\ keys' = keys \ {reply}
        /\ IF answered \/ Waits(r)
           THEN /\ polls' = [polls EXCEPT ![r] = IF answered THEN @ ELSE @ + 1]
                /\ UNCHANGED <<stage, answer, txn, late>>
           ELSE End(r, 500) /\ late' = late \union {r} /\ UNCHANGED polls
        /\ UNCHANGED <<asked, target, plan, rows, files, engineVars, failures>>

\* The handler has returned, or is about to with what it found in the cache.
Returns(r) == stage[r] = "open" /\ (todo[r] # <<>> => Cached(r))

\* The answer is sent before get_db commits.
Answers(r) ==
    /\ Returns(r)
    /\ stage' = [stage EXCEPT ![r] = "closing"]
    /\ answer' = [answer EXCEPT ![r] = 200]
    /\ UNCHANGED <<asked, target, plan, todo, polls, late, txn, rows, files, keys, engineVars,
                   failures>>

\* Mutation: get_db closes the session without a commit.
Commits_Never(r) ==
    /\ Returns(r) \/ stage[r] = "closing"
    /\ End(r, 200)
    /\ UNCHANGED <<asked, target, plan, todo, polls, late, rows, files, keys, engineVars, failures>>

\* get_db commits; a handler that was not yet answered now is.
Commits(r) ==
    /\ Returns(r) \/ stage[r] = "closing"
    /\ rows' = (rows \union txn[r].added) \ txn[r].deleted
    /\ End(r, 200)
    /\ UNCHANGED <<asked, target, plan, todo, polls, late, files, keys, engineVars, failures>>

\* The request ends with an exception; an answer that is out stays what it is.
Breaks(r) ==
    /\ stage[r] \in {"open", "closing"}
    /\ failures < MaxFailures
    /\ failures' = failures + 1
    /\ stage' = [stage EXCEPT ![r] = "failed"]
    /\ answer' = [answer EXCEPT ![r] = IF stage[r] = "open" THEN 500 ELSE @]
    /\ txn' = [txn EXCEPT ![r] = NoWrites]

\* Mutation: the session is closed without its rollback, as if in autocommit.
Fails_Keeps(r) ==
    /\ Breaks(r)
    /\ rows' = (rows \union txn[r].added) \ txn[r].deleted
    /\ UNCHANGED <<asked, target, plan, todo, polls, late, files, keys, engineVars>>

\* PostgreSQL, in a statement or in the commit, Redis or the disk fails, or
\* the process stops.
Fails(r) ==
    /\ Breaks(r)
    /\ UNCHANGED <<asked, target, plan, todo, polls, late, rows, files, keys, engineVars>>

----------------------------------------------------------------------------
(* The engine. *)

\* The actions handleCommand has a case for.
EngineActions ==
    {"start_session", "stop_session", "delete_session", "get_session_status",
     "list_sessions", "get_qr", "send_message", "delete_message", "forward_message"}

\* RPOP; the handler is not awaited, so several commands may be under way.
Takes ==
    /\ cmds # <<>>
    /\ cmds' = Tail(cmds)
    /\ busy' = busy \union {Head(cmds)}
    /\ UNCHANGED <<requestVars, rows, files, keys, events, lost, sent, failures>>

\* How a command may end: without a case, and always for forward_message,
\* with an error; otherwise as the session and Baileys have it.
Outcomes(action) ==
    IF action \in EngineActions \ {"forward_message"} THEN BOOLEAN ELSE {FALSE}

\* Mutation: a failed command is not answered, as if respondToCommand were
\* missing from the catch.
Responds_SuccessOnly(c) ==
    /\ c \in busy
    /\ busy' = busy \ {c}
    /\ \E done \in Outcomes(c.action) :
        /\ events' = IF done THEN Append(events, c) ELSE events
        /\ sent' = IF done /\ c.action = "send_message" THEN sent \union {c.by} ELSE sent
    /\ UNCHANGED <<requestVars, rows, files, keys, cmds, lost, failures>>

\* respondToCommand publishes a command.response, which RedisBridge.publish
\* pushes to the list of events; it writes no key wa:res:{request_id}.
Responds(c) ==
    /\ c \in busy
    /\ busy' = busy \ {c}
    /\ events' = Append(events, c)
    /\ \E done \in Outcomes(c.action) :
        sent' = IF done /\ c.action = "send_message" THEN sent \union {c.by} ELSE sent
    /\ UNCHANGED <<requestVars, rows, files, keys, cmds, lost, failures>>

\* publish returns early while Redis is away and swallows the failure of its
\* LPUSH: what the command was for is done, and nobody hears of it.
RespondsUnheard(c) ==
    /\ c \in busy
    /\ failures < MaxFailures
    /\ failures' = failures + 1
    /\ busy' = busy \ {c}
    /\ lost' = lost \union {c}
    /\ \E done \in Outcomes(c.action) :
        sent' = IF done /\ c.action = "send_message" THEN sent \union {c.by} ELSE sent
    /\ UNCHANGED <<requestVars, rows, files, keys, cmds, events>>

\* Redis answers an RPOP and the connection breaks before the reply is in.
TakesUnheard ==
    /\ cmds # <<>>
    /\ failures < MaxFailures
    /\ failures' = failures + 1
    /\ cmds' = Tail(cmds)
    /\ lost' = lost \union {Head(cmds)}
    /\ UNCHANGED <<requestVars, rows, files, keys, busy, events, sent>>

\* The engine process stops and is started again.
Restarts ==
    /\ busy # {}
    /\ failures < MaxFailures
    /\ failures' = failures + 1
    /\ busy' = {}
    /\ lost' = lost \union busy
    /\ UNCHANGED <<requestVars, rows, files, keys, cmds, events, sent>>

----------------------------------------------------------------------------
Serve(r) ==
    \/ Passes(r) \/ Misses(r) \/ Inserts(r) \/ Writes(r) \/ Raises(r)
    \/ Stores(r) \/ Caches(r) \/ Pushes(r) \/ Polls(r) \/ Answers(r) \/ Commits(r)

Engine ==
    \/ Takes \/ TakesUnheard \/ Restarts
    \/ \E c \in busy : Responds(c) \/ RespondsUnheard(c)

Next == Engine \/ \E r \in Requests : Begin(r) \/ Unauthorized(r) \/ Serve(r) \/ Fails(r)

Spec == Init /\ [][Next]_vars

\* An open request is served; nothing is asked of the engine.
Fairness == \A r \in Requests : WF_vars(Serve(r))

FairSpec == Spec /\ Fairness

----------------------------------------------------------------------------
(* Properties. *)

\* Every variable keeps its type.
TypeOK ==
    /\ stage \in [Requests -> Stages]
    /\ asked \in [Requests -> DOMAIN Table \union {0}]
    /\ target \in [Requests -> Ids]
    /\ plan \in [Requests -> Seq(Steps)]
    /\ todo \in [Requests -> Seq(Steps)]
    /\ polls \in [Requests -> 0..MaxPolls]
    /\ answer \in [Requests -> {0, 200, 400, 401, 404, 500}]
    /\ late \subseteq Requests
    /\ txn \in [Requests -> [added : SUBSET Rows, deleted : SUBSET Rows, locked : SUBSET Rows]]
    /\ rows \subseteq Rows
    /\ files \subseteq Ids
    /\ keys \subseteq Names \X Ids
    /\ cmds \in Seq(Commands)
    /\ busy \subseteq Commands
    /\ events \in Seq(Commands)
    /\ lost \subseteq Commands
    /\ sent \subseteq Requests
    /\ failures \in 0..MaxFailures

\* The steps a request has taken.
Taken(r) == {plan[r][k] : k \in 1..(Len(plan[r]) - Len(todo[r]))}

\* The commands a request has pushed, as they are in the list.
Pushed(r) ==
    {[by |-> r, action |-> plan[r][k].what, nth |-> Len(plan[r]) - k + 1] :
        k \in {k \in 1..(Len(plan[r]) - Len(todo[r])) : plan[r][k].act = "push"}}

\* A client that is answered 400, 401 or 404 may repeat its request: the API
\* has neither told the engine anything nor touched a row or a file for it.
RefusedLeavesNoTrace ==
    \A r \in Requests : answer[r] \in {400, 401, 404} =>
        \A step \in Taken(r) : step.act \notin Effects

\* Rows appear and disappear only as a request that is answered 200 ends and
\* has inserted or deleted them: get_db rolls back whatever a request that
\* fails has flushed, at whichever step it fails, its commit included.
RowsChangeWithAnswers ==
    [][\A row \in (rows \ rows') \union (rows' \ rows) :
          \E r \in Requests : /\ stage[r] \in {"open", "closing"} /\ stage'[r] = "ended"
                              /\ answer'[r] = 200
                              /\ \E step \in Taken(r) : /\ step.act \in {"insert", "delete"}
                                                        /\ step.what = row[1]]_vars

\* Uploads and deletions write the disk at once and the row at the end.  The
\* file of a committed media row is there unless a request for that very
\* media has removed it (and then failed, or is about to delete the row).
MediaRowHasFile ==
    \A id \in Ids : <<"media", id>> \in rows =>
        \/ id \in files
        \/ \E r \in Requests : target[r] = id /\ \E step \in Taken(r) : step.act = "unlink"

\* The command of a message is out before its row is committed, the engine
\* may send it at once, and the client may be told 200 before the commit.  A
\* message that was sent and whose request was answered 200 and has ended is
\* in the table for good, unless the request failed on its way, which
\* includes a commit that fails behind the answer.
SentMessageHasRow ==
    \A r \in sent : answer[r] = 200 /\ stage[r] = "ended" => <<"messages", r>> \in rows

\* However requests and executions overlap, each command that was pushed is
\* at one place: in the list, being executed, answered once, or lost in a
\* failure of the engine or of Redis.
OneFatePerCommand ==
    \A r \in Requests : \A c \in Pushed(r) :
        Cardinality({i \in DOMAIN cmds : cmds[i] = c})
        + Cardinality({i \in DOMAIN events : events[i] = c})
        + Cardinality({k \in 1..2 : c \in <<busy, lost>>[k]}) = 1

\* Requests wait for row locks and for the engine, which may never answer:
\* all the same each request ends.
EveryRequestEnds ==
    \A r \in Requests : stage[r] \in {"open", "closing"} ~> stage[r] \in {"ended", "failed"}

----------------------------------------------------------------------------
(* What the source says and the code does not do. *)

\* "El engine no respondió al comando": no request gives up its wait for a
\* command that the engine has answered.
TimeoutMeansNoAnswer ==
    \A r \in late : \A i \in DOMAIN events : events[i].by # r
=============================================================================
