--------------------------- MODULE ChannelService ---------------------------
(***************************************************************************)
(* The channel rows of the API and the commands that go with them:         *)
(* api/app/services/channel_service.py, the requests of                    *)
(* api/app/routers/channels.py and settings.py that call it, and the       *)
(* session per request of api/app/database.py.                             *)
(*                                                                         *)
(* A request reads its row, works on the copy in its SQLAlchemy session,   *)
(* flushes what it changed and pushes its commands in the order of its     *)
(* operation; get_db commits after the handler.  PostgreSQL runs at READ   *)
(* COMMITTED: a read does not wait, an UPDATE waits for the transaction    *)
(* that updated the row last and keeps the row until its own end.  A flush *)
(* with nothing to write sends no statement and so takes no lock.          *)
(*                                                                         *)
(* The engine is reduced to the last lifecycle command it executed for a   *)
(* channel; its own interleavings and restarts are those of EngineSession. *)
(* Left out: the API keys, and the keys wa:qr and wa:status, which no      *)
(* operation that changes a row looks at.                                  *)
(***************************************************************************)
EXTENDS Naturals, Sequences, FiniteSets

CONSTANTS
  Channels,     \* channel ids
  Requests,     \* HTTP requests, each served once
  NoOne,        \* no request: an unlocked row, the name a row starts with
  Kinds,        \* the operations requests ask for, among AllKinds
  MaxFailures   \* bound: requests that fail and are rolled back

AllKinds == {"create", "start", "stop", "logout", "delete", "update", "merge", "reset"}

ASSUME KindAssumption == Kinds \subseteq AllKinds
ASSUME RequestAssumption == NoOne \notin Requests /\ IsFiniteSet(Requests)
ASSUME FailureAssumption == MaxFailures \in Nat

VARIABLES
  row,          \* the committed rows of the table channels
  lock,         \* the request whose UPDATE holds a row
  job,          \* operation and channel of a request
  phase,        \* where a request stands
  seen, want,   \* the row a request has read, and its copy after the assignments
  todo,         \* what the operation still awaits before it returns
  queue,        \* wa:cmd:queue, oldest command first
  session,      \* channels whose session the engine was last told to run
  overlapped,   \* history: requests that ran while another one held a copy of the row
  loose,        \* history: channels a command was pushed for that no row lock ordered
  failures      \* number of failed requests, for the bound

requestVars == <<job, phase, seen, want, todo>>
vars == <<row, lock, requestVars, queue, session, overlapped, loose, failures>>

Lifecycle == {"start", "stop", "logout"}
Commands == {"start_session", "stop_session", "logout", "delete_session"}
Columns == {"state", "status", "phone", "name", "settings"}
Rows == [state : {"absent", "active", "deleted"}, status : {"connecting", "disconnected"},
         phone : BOOLEAN, name : Requests \union {NoOne}, settings : SUBSET Requests]
Jobs == [kind : Kinds, ch : Channels]

NoRow == [state |-> "absent", status |-> "disconnected", phone |-> FALSE, name |-> NoOne,
          settings |-> {}]
Paired == [NoRow EXCEPT !.state = "active", !.status = "connecting", !.phone = TRUE]
-----------------------------------------------------------------------------
(* The operations: what each assigns to the row it has read, and what it   *)
(* awaits in which order after that.  A request names what it writes.      *)

CreateChannel(r, read) == [NoRow EXCEPT !.state = "active", !.name = r]
StartSession(r, read) == [read EXCEPT !.status = "connecting"]

(* Mutation: the engine's word for it, which is no status of the column.   *)
StopSession_EngineStatus(r, read) == [read EXCEPT !.status = "stopped"]

StopSession(r, read) == [read EXCEPT !.status = "disconnected"]
LogoutSession(r, read) == [read EXCEPT !.status = "disconnected", !.phone = FALSE]
DeleteChannel(r, read) == [read EXCEPT !.state = "deleted"]
UpdateChannel(r, read) == [read EXCEPT !.name = r, !.settings = {r}]
UpdateSettings(r, read) == [read EXCEPT !.settings = @ \union {r}]
ResetSettings(r, read) == [read EXCEPT !.settings = {}]

Assigned(r, read) ==
  CASE job[r].kind = "create" -> CreateChannel(r, read)
    [] job[r].kind = "start"  -> StartSession(r, read)
    [] job[r].kind = "stop"   -> StopSession(r, read)
    [] job[r].kind = "logout" -> LogoutSession(r, read)
    [] job[r].kind = "delete" -> DeleteChannel(r, read)
    [] job[r].kind = "update" -> UpdateChannel(r, read)
    [] job[r].kind = "merge"  -> UpdateSettings(r, read)
    [] job[r].kind = "reset"  -> ResetSettings(r, read)

(* Mutation: the command goes out before the row is written.               *)
Awaits_PushFirst(kind) ==
  CASE kind = "start"  -> <<"start_session", "flush">>
    [] kind = "stop"   -> <<"stop_session", "flush">>
    [] kind = "logout" -> <<"logout", "delete_session", "flush">>
    [] OTHER           -> <<"flush">>

Awaits(kind) ==
  CASE kind = "start"  -> <<"flush", "start_session">>
    [] kind = "stop"   -> <<"flush", "stop_session">>
    [] kind = "logout" -> <<"logout", "delete_session", "flush">>
    [] OTHER           -> <<"flush">>

(* The columns the unit of work finds changed.  update_settings merges     *)
(* into the dict the session has loaded and assigns the same object: it    *)
(* compares equal to itself, unless `or {}` made a new one.                *)
Dirty(r) ==
  {c \in Columns : /\ want[r][c] # seen[r][c]
                   /\ ~(job[r].kind = "merge" /\ seen[r].settings # {})}

Channel(r) == job[r].ch
Open(ch) == {r \in Requests : Channel(r) = ch /\ phase[r] = "open"}
Pushed(r) ==
  \E i \in 1..(Len(Awaits(job[r].kind)) - Len(todo[r])) : Awaits(job[r].kind)[i] \in Commands

(* A lifecycle operation whose push its own UPDATE does not order.         *)
Unordered(r) == job[r].kind \in Lifecycle /\ (job[r].kind = "logout" \/ Dirty(r) = {})
-----------------------------------------------------------------------------
Init ==
  /\ row \in [Channels -> {NoRow, [NoRow EXCEPT !.state = "active"], Paired}]
  /\ session = {ch \in Channels : row[ch].status = "connecting"}
  /\ job \in [Requests -> Jobs]
  /\ lock = [ch \in Channels |-> NoOne]
  /\ phase = [r \in Requests |-> "idle"]
  /\ seen = [r \in Requests |-> NoRow]
  /\ want = [r \in Requests |-> NoRow]
  /\ todo = [r \in Requests |-> <<>>]
  /\ queue = <<>>
  /\ overlapped = {} /\ loose = {} /\ failures = 0

(* A request gets its row; ids are fresh, so a creation is alone with its. *)
Begin(r) ==
  LET ch == Channel(r)
      others == Open(ch)
  IN /\ phase[r] = "idle"
     /\ row[ch].state = IF job[r].kind = "create" THEN "absent" ELSE "active"
     /\ job[r].kind = "create" => others = {}
     /\ phase' = [phase EXCEPT ![r] = "open"]
     /\ seen' = [seen EXCEPT ![r] = row[ch]]
     /\ want' = [want EXCEPT ![r] = Assigned(r, row[ch])]
     /\ todo' = [todo EXCEPT ![r] = Awaits(job[r].kind)]
     /\ overlapped' = overlapped \union others \union (IF others = {} THEN {} ELSE {r})
     /\ UNCHANGED <<row, lock, job, queue, session, loose, failures>>

(* get_channel finds no active row: nothing is done.                       *)
NotFound(r) ==
  /\ phase[r] = "idle"
  /\ job[r].kind # "create"
  /\ row[Channel(r)].state # "active"
  /\ phase' = [phase EXCEPT ![r] = "done"]
  /\ UNCHANGED <<row, lock, job, seen, want, todo, queue, session, overlapped, loose, failures>>

Awaited(r, what) ==
  /\ phase[r] = "open"
  /\ todo[r] # <<>>
  /\ Head(todo[r]) = what
  /\ todo' = [todo EXCEPT ![r] = Tail(@)]

Flush(r) ==
  /\ Awaited(r, "flush")
  /\ IF Dirty(r) = {}
     THEN UNCHANGED lock
     ELSE lock[Channel(r)] = NoOne /\ lock' = [lock EXCEPT ![Channel(r)] = r]
  /\ UNCHANGED <<row, job, phase, seen, want, queue, session, overlapped, loose, failures>>

(* _publish_command.                                                       *)
Publish(r) ==
  \E command \in Commands :
    /\ Awaited(r, command)
    /\ queue' = Append(queue, [command |-> command, ch |-> Channel(r)])
    /\ UNCHANGED <<row, lock, job, phase, seen, want, session, overlapped, loose, failures>>

Unlocked(r) == [ch \in Channels |-> IF lock[ch] = r THEN NoOne ELSE lock[ch]]

(* Mutation: the whole copy is saved, not the columns that changed.        *)
Stored_WholeCopy(r) == want[r]

(* The row with the columns of the UPDATE of request r.                    *)
Stored(r) ==
  [c \in Columns |-> IF c \in Dirty(r) THEN want[r][c] ELSE row[Channel(r)][c]]

Commit(r) ==
  /\ phase[r] = "open" /\ todo[r] = <<>>
  /\ phase' = [phase EXCEPT ![r] = "done"]
  /\ row' = [row EXCEPT ![Channel(r)] = Stored(r)]
  /\ lock' = Unlocked(r)
  /\ loose' = loose \union (IF Unordered(r) /\ r \in overlapped THEN {Channel(r)} ELSE {})
  /\ UNCHANGED <<job, seen, want, todo, queue, session, overlapped, failures>>

(* Mutation: the session is not rolled back.                               *)
Fail_NoRollback(r) ==
  /\ phase[r] = "open"
  /\ failures < MaxFailures
  /\ failures' = failures + 1
  /\ phase' = [phase EXCEPT ![r] = "failed"]
  /\ loose' = loose \union (IF Pushed(r) THEN {Channel(r)} ELSE {})
  /\ UNCHANGED <<row, lock, job, seen, want, todo, queue, session, overlapped>>

(* PostgreSQL or Redis fails, the process is stopped: the transaction is   *)
(* rolled back, the commands that are out stay out.                        *)
Fail(r) ==
  /\ phase[r] = "open"
  /\ failures < MaxFailures
  /\ failures' = failures + 1
  /\ phase' = [phase EXCEPT ![r] = "failed"]
  /\ lock' = Unlocked(r)
  /\ loose' = loose \union (IF Pushed(r) THEN {Channel(r)} ELSE {})
  /\ UNCHANGED <<row, job, seen, want, todo, queue, session, overlapped>>

(* handleCommand: it has no case for the "logout" of logout_session.       *)
Execute ==
  /\ queue # <<>>
  /\ queue' = Tail(queue)
  /\ session' = CASE Head(queue).command = "start_session" -> session \union {Head(queue).ch}
                  [] Head(queue).command = "logout" -> session
                  [] OTHER -> session \ {Head(queue).ch}
  /\ UNCHANGED <<row, lock, requestVars, overlapped, loose, failures>>

Serve(r) == Begin(r) \/ NotFound(r) \/ Flush(r) \/ Publish(r) \/ Commit(r)
Next == Execute \/ \E r \in Requests : Serve(r) \/ Fail(r)
Spec == Init /\ [][Next]_vars

(* A request that was read is served to its end, unless it fails.          *)
Fairness ==
  /\ WF_vars(Execute)
  /\ \A r \in Requests : WF_vars(Flush(r) \/ Publish(r) \/ Commit(r))
FairSpec == Spec /\ Fairness
-----------------------------------------------------------------------------
(* Properties.                                                             *)

(* Every variable keeps its type.                                          *)
TypeOK ==
  /\ row \in [Channels -> Rows]
  /\ lock \in [Channels -> Requests \union {NoOne}]
  /\ job \in [Requests -> Jobs]
  /\ phase \in [Requests -> {"idle", "open", "done", "failed"}]
  /\ seen \in [Requests -> Rows]
  /\ want \in [Requests -> Rows]
  /\ todo \in [Requests -> Seq(Commands \union {"flush"})]
  /\ queue \in Seq([command : Commands, ch : Channels])
  /\ session \in SUBSET Channels
  /\ overlapped \in SUBSET Requests
  /\ loose \in SUBSET Channels
  /\ failures \in Nat

Settled(ch) ==
  /\ row[ch].state = "active"
  /\ Open(ch) = {}
  /\ \A i \in DOMAIN queue : queue[i].ch # ch

(* start_session and stop_session flush before they push and commit after: *)
(* the lock on the row orders the commands as the writes.  However they    *)
(* interleave and fail, once a channel is settled its row says what the    *)
(* engine was told last, unless a command went out unordered: one of a     *)
(* request that failed, of a logout, or of a request that found its status *)
(* in the row, while another request was at work on the channel.           *)
RowTellsTheSession ==
  \A ch \in Channels : Settled(ch) /\ ch \notin loose =>
    (row[ch].status = "connecting" <=> ch \in session)

Writes(kind) ==
  CASE kind = "create" -> Columns
    [] kind \in {"start", "stop"} -> {"status"}
    [] kind = "logout" -> {"status", "phone"}
    [] kind = "delete" -> {"state"}
    [] kind = "update" -> {"name", "settings"}
    [] OTHER -> {"settings"}

(* Each request writes from a copy that others may have outdated: a commit *)
(* changes no column but those its own operation assigns, so a renaming    *)
(* undoes no stop and a stop no renaming.  Of two operations that assign   *)
(* one column the last to commit wins; what that does to the merges of the *)
(* settings is MergesAreKept.                                              *)
CommitsOwnColumns ==
  [][\A ch \in Channels, c \in Columns : row'[ch][c] # row[ch][c] =>
       \E r \in Requests : /\ Channel(r) = ch /\ c \in Writes(job[r].kind)
                           /\ phase[r] = "open" /\ phase'[r] = "done"]_vars

(* Requests wait for one another on the row while one awaits Redis and its *)
(* commit; all the same none stays under way.                              *)
EveryRequestEnds == <>[](\A r \in Requests : phase[r] # "open")
-----------------------------------------------------------------------------
(* What the source says and the code does not do.                          *)

(* "Actualiza la configuración del canal (merge con existente)": what a    *)
(* request answered with success has merged into the settings stays there, *)
(* as long as no other operation replaces them.                            *)
MergesAreKept ==
  \A r \in Requests :
    /\ job[r].kind = "merge" /\ phase[r] = "done" /\ r \in want[r].settings
    /\ \A s \in Requests : Channel(s) = Channel(r) => job[s].kind \notin {"update", "reset"}
    => r \in row[Channel(r)].settings
=============================================================================
