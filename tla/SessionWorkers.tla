--------------------------- MODULE SessionWorkers ---------------------------
(***************************************************************************)
(* SESSION_WORKER_MODE=pool: the runtimes of one shard live in a child     *)
(* process, and the registry of the backend holds a RemoteSessionRuntime   *)
(* proxy for each.  The two processes exchange messages over a pipe that   *)
(* keeps their order; the child may die at any moment, with messages       *)
(* unread in both directions, and the parent learns of it later.           *)
(*                                                                         *)
(* A proxy answers status() from the state the child last reported; the    *)
(* registry decides by it what may be evicted.                             *)
(***************************************************************************)
EXTENDS Naturals, Sequences, FiniteSets

CONSTANTS
  Sessions,     \* sessions of the shard
  Rpcs,         \* bound: request ids, taken in order and reused once answered
  Calling,      \* bound: sessions that get calls other than messages
  MaxSessions,  \* maxSessionsPerWorker
  MaxDeaths,    \* bound: deaths of the child and failed boots
  None

ASSUME WorkersAssumption ==
  /\ Rpcs \subseteq Nat /\ MaxSessions \in Nat \ {0} /\ MaxDeaths \in Nat
  /\ None \notin Rpcs \cup Sessions
  /\ \A s \in Sessions : None \notin {<<"wake", s>>, <<"sendEvent", s>>, <<"call", s>>}

VARIABLES
  row,       \* the status column of each session
  registry,  \* SessionManager: "none", "waking" (inflight) or "held"
  waiting,   \* requests that await the wake: subset of {"sendEvent", "call"}
  proxy,     \* worker.sessions: "none", or the status the child last reported
  pending,   \* worker.pending: the request each id stands for, or None
  worker,    \* "ready", "dead" (the parent does not know), "down", "booting"
  timer,     \* is the respawn timer set?
  toChild, toParent,   \* the two directions of the pipe
  child,     \* the child's runtimes
  turn,      \* the turn that serves each sendEvent, in its runtime or after it
  deaths

parent == <<registry, waiting, proxy, pending, timer>>
pipe   == <<toChild, toParent>>
inside == <<child, turn>>
vars   == <<row, parent, worker, pipe, inside, deaths>>

-----------------------------------------------------------------------------
\* rpc: the wake it answers; unsent: an event whose append has not returned;
\* missed (history): its last status event was dropped.
NoRuntime == [phase |-> "none", rpc |-> None, sm |-> "idle",
              unsent |-> FALSE, missed |-> FALSE]
\* kept: is its runtime still the one of the session?
NoTurn == [s |-> None, phase |-> "none", kept |-> TRUE]

Init ==
  /\ row = [s \in Sessions |-> "idle"]
  /\ registry = [s \in Sessions |-> "none"]
  /\ waiting = [s \in Sessions |-> {}]
  /\ proxy = [s \in Sessions |-> "none"]
  /\ pending = [i \in Rpcs |-> None]
  /\ worker = "ready" /\ timer = FALSE
  /\ toChild = <<>> /\ toParent = <<>>
  /\ child = [s \in Sessions |-> NoRuntime]
  /\ turn = [i \in Rpcs |-> NoTurn]
  /\ deaths = 0

Running(s) == {i \in Rpcs : pending[i] = <<"sendEvent", s>>}
InPipe(i) ==
  \/ \E k \in DOMAIN toChild : toChild[k].id = i
  \/ \E k \in DOMAIN toParent : toParent[k].id = i
  \/ \E s \in Sessions : child[s].rpc = i
  \/ turn[i] # NoTurn
Free == {i \in Rpcs : pending[i] = None /\ ~InPipe(i)}
\* What the wakes on their way will still send.
Promised ==
  {r \in {"sendEvent", "call"} \X Sessions : r[1] \in waiting[r[2]]} \cup
  {r \in {"wake"} \X Sessions :
     registry[r[2]] = "waking" /\ \A i \in Rpcs : pending[i] # r}

Event(s, status)     == [t |-> "event", s |-> s, id |-> None, ok |-> TRUE, status |-> status]
Reply(s, i, status)  == [t |-> "reply", s |-> s, id |-> i, ok |-> TRUE, status |-> status]
Refusal(s, i)        == [t |-> "reply", s |-> s, id |-> i, ok |-> FALSE, status |-> "idle"]

\* rpc: remember the request and write it to the pipe.
Send(op, s) ==
  \E i \in Free :
    /\ \A j \in Free : i <= j
    /\ pending' = [pending EXCEPT ![i] = <<op, s>>]
    /\ toChild' = Append(toChild, [op |-> op, s |-> s, id |-> i])

-----------------------------------------------------------------------------
(* The parent.                                                              *)

\* A request resolves the runtime; the route refuses a message unless the row
\* is idle, and messages of one session come one at a time.
Request(s, op) ==
  /\ Cardinality(Promised) + (IF registry[s] = "none" THEN 2 ELSE 1) <= Cardinality(Free)
  /\ op = "sendEvent" =>
       row[s] = "idle" /\ Running(s) = {} /\ "sendEvent" \notin waiting[s]
  /\ op = "call" => s \in Calling /\ \A i \in Rpcs : pending[i] # <<"call", s>>
  /\ CASE registry[s] = "held" ->
            Send(op, s) /\ UNCHANGED <<registry, waiting, timer, worker>>
       [] registry[s] = "waking" ->
            /\ waiting' = [waiting EXCEPT ![s] = @ \cup {op}]
            /\ UNCHANGED <<registry, timer, worker, pending, toChild>>
       [] registry[s] = "none" ->
            /\ registry' = [registry EXCEPT ![s] = "waking"]
            /\ waiting' = [waiting EXCEPT ![s] = {op}]
            /\ worker' = IF worker = "down" THEN "booting" ELSE worker
            /\ UNCHANGED <<timer, pending, toChild>>
  /\ UNCHANGED <<row, proxy, toParent, inside, deaths>>

\* getOrCreate rejects: its requests fail with it.
WakeRejects(s) ==
  /\ registry' = [registry EXCEPT ![s] = "none"]
  /\ waiting' = [waiting EXCEPT ![s] = {}]

\* pool.wake once the worker is there: the proxy enters the map before its RPC.
PoolWakes(s) ==
  /\ registry[s] = "waking" /\ proxy[s] = "none" /\ worker \in {"ready", "dead"}
  /\ IF Cardinality({x \in Sessions : proxy[x] # "none"}) >= MaxSessions
     THEN WakeRejects(s) /\ UNCHANGED <<proxy, pending, toChild>>
     ELSE /\ proxy' = [proxy EXCEPT ![s] = "idle"]
          /\ Send("wake", s)
          /\ UNCHANGED <<registry, waiting>>
  /\ UNCHANGED <<row, timer, worker, toParent, inside, deaths>>

\* The continuation of a wake: into the registry, and the requests go out.
WakeResolves(s, i, status) ==
  /\ registry' = [registry EXCEPT ![s] = "held"]
  /\ waiting' = [waiting EXCEPT ![s] = {}]
  /\ proxy' = [proxy EXCEPT ![s] = status]
  /\ \E f \in [waiting[s] -> Free] :
       /\ \A a, b \in waiting[s] : f[a] = f[b] => a = b
       /\ \A a \in waiting[s], j \in Free : j < f[a] => \E b \in waiting[s] : f[b] = j
       /\ "sendEvent" \in waiting[s] => \A a \in waiting[s] : f["sendEvent"] <= f[a]
       /\ pending' = [j \in Rpcs |->
                        IF j = i THEN None
                        ELSE IF \E op \in waiting[s] : f[op] = j
                        THEN <<CHOOSE op \in waiting[s] : f[op] = j, s>>
                        ELSE pending[j]]
       /\ toChild' = toChild \o
            (IF "sendEvent" \in waiting[s]
             THEN <<[op |-> "sendEvent", s |-> s, id |-> f["sendEvent"]]>> ELSE <<>>) \o
            (IF "call" \in waiting[s]
             THEN <<[op |-> "call", s |-> s, id |-> f["call"]]>> ELSE <<>>)

\* onChildMessage: a state goes to the proxy now registered for the session.
ParentReads ==
  LET m == Head(toParent)
      s == m.s
  IN  /\ toParent # <<>>
      /\ toParent' = Tail(toParent)
      /\ IF m.t = "event"
         THEN /\ proxy' = [proxy EXCEPT ![s] = IF @ = "none" THEN @ ELSE m.status]
              /\ UNCHANGED <<registry, waiting, pending, toChild>>
         ELSE IF pending[m.id] = <<"wake", s>>
         THEN IF m.ok THEN WakeResolves(s, m.id, m.status)
              ELSE /\ WakeRejects(s)
                   /\ proxy' = [proxy EXCEPT ![s] = "none"]
                   /\ pending' = [pending EXCEPT ![m.id] = None]
                   /\ UNCHANGED toChild
         ELSE /\ pending' = [pending EXCEPT ![m.id] = None]
              /\ UNCHANGED <<registry, waiting, proxy, toChild>>
      /\ UNCHANGED <<row, timer, worker, inside, deaths>>

\* By its timer or for the capacity, the registry evicts what reports idle.
Evictable(s) == registry[s] = "held" /\ proxy[s] = "idle"

\* registry.dispose, proxy.dispose, transport.dispose: nobody awaits the RPC.
DisposeSilent(s) == UNCHANGED toChild
Dispose(s) == toChild' = Append(toChild, [op |-> "dispose", s |-> s, id |-> None])
Evict(s) ==
  /\ Evictable(s)
  /\ registry' = [registry EXCEPT ![s] = "none"]
  /\ proxy' = [proxy EXCEPT ![s] = "none"]
  /\ Dispose(s)
  /\ UNCHANGED <<row, waiting, pending, timer, worker, toParent, inside, deaths>>

-----------------------------------------------------------------------------
(* The child.                                                               *)

Answer(m) == toParent' = Append(toParent, m)

\* handleRpc up to its first await.
ChildReads ==
  LET m == Head(toChild)
      s == m.s
      o == child[s]
  IN  /\ worker = "ready" /\ toChild # <<>>
      /\ toChild' = Tail(toChild)
      /\ CASE m.op = "wake" /\ o.phase = "none" ->
                /\ child' = [child EXCEPT ![s] = [NoRuntime EXCEPT !.phase = "waking",
                                                                   !.rpc = m.id]]
                /\ UNCHANGED <<toParent, turn>>
           [] m.op = "wake" /\ o.phase # "none" ->
                Answer(Reply(s, m.id, o.sm)) /\ UNCHANGED inside
           [] m.op = "dispose" ->
                /\ child' = [child EXCEPT ![s] = NoRuntime]
                /\ turn' = [i \in Rpcs |-> [turn[i] EXCEPT !.kept = @ /\ turn[i].s # s]]
                /\ UNCHANGED toParent
           [] m.op \in {"sendEvent", "call"} /\ o.phase = "none" ->
                Answer(Refusal(s, m.id)) /\ UNCHANGED inside
           [] m.op = "sendEvent" /\ o.phase # "none" ->
                /\ turn' = [turn EXCEPT ![m.id] = [s |-> s, phase |-> "accepted", kept |-> TRUE]]
                /\ UNCHANGED <<toParent, child>>
           [] m.op = "call" /\ o.phase # "none" ->
                Answer(Reply(s, m.id, o.sm)) /\ UNCHANGED inside
      /\ UNCHANGED <<row, parent, worker, deaths>>

ChildWakes(s) ==
  /\ worker = "ready" /\ child[s].phase = "waking"
  /\ child' = [child EXCEPT ![s].phase = "awake", ![s].rpc = None]
  /\ row' = [row EXCEPT ![s] = "idle"]
  /\ Answer(Reply(s, child[s].rpc, "idle"))
  /\ UNCHANGED <<parent, worker, toChild, turn, deaths>>

ChildWakeFails(s) ==
  /\ worker = "ready" /\ child[s].phase = "waking"
  /\ child' = [child EXCEPT ![s] = NoRuntime]
  /\ Answer(Refusal(s, child[s].rpc))
  /\ UNCHANGED <<row, parent, worker, toChild, turn, deaths>>

\* A turn announces a status: row, state machine and an event on its way.
\* One whose runtime was disposed still writes the row, but nothing forwards.
Announce(i, status) ==
  /\ row' = [row EXCEPT ![turn[i].s] = status]
  /\ child' = IF turn[i].kept
              THEN [child EXCEPT ![turn[i].s].sm = status, ![turn[i].s].unsent = TRUE]
              ELSE child

TurnStarts(i) ==
  /\ worker = "ready" /\ turn[i].phase = "accepted"
  /\ turn' = [turn EXCEPT ![i].phase = "driving"]
  /\ Announce(i, "running")
  /\ UNCHANGED <<parent, worker, pipe, deaths>>

\* The settlement; its status event is being appended while the transcript is
\* stored, and the reply to sendEvent comes last.
TurnSettles(i) ==
  /\ worker = "ready" /\ turn[i].phase = "driving"
  /\ turn' = [turn EXCEPT ![i].phase = "storing"]
  /\ Announce(i, "idle")
  /\ UNCHANGED <<parent, worker, pipe, deaths>>

TurnReplies(i) ==
  /\ worker = "ready" /\ turn[i].phase = "storing"
  /\ turn' = [turn EXCEPT ![i] = NoTurn]
  /\ Answer(Reply(turn[i].s, i, "idle"))
  /\ UNCHANGED <<row, parent, worker, toChild, child, deaths>>

\* forwardEvents: an appended event goes up with the state of this moment.
ForwardEvent(s) ==
  /\ worker = "ready" /\ child[s].unsent
  /\ child' = [child EXCEPT ![s].unsent = FALSE, ![s].missed = FALSE]
  /\ Answer(Event(s, child[s].sm))
  /\ UNCHANGED <<row, parent, worker, toChild, turn, deaths>>

\* An append that failed for the third time: the event is not fanned out, and
\* nothing goes up in its place.
DropEvent(s) ==
  /\ worker = "ready" /\ child[s].unsent
  /\ child' = [child EXCEPT ![s].unsent = FALSE, ![s].missed = TRUE]
  /\ UNCHANGED <<row, parent, worker, pipe, turn, deaths>>

-----------------------------------------------------------------------------
(* The death of the child, and its successor.                               *)

ChildDies ==
  /\ worker = "ready" /\ deaths < MaxDeaths
  /\ worker' = "dead" /\ deaths' = deaths + 1
  /\ child' = [s \in Sessions |-> NoRuntime]
  /\ turn' = [i \in Rpcs |-> NoTurn]
  /\ UNCHANGED <<row, parent, pipe>>

\* onChildExit: proxies are lost and forgotten, requests in flight rejected;
\* wakes that have no proxy yet go on with the next worker.
LeavePending  == UNCHANGED pending
RejectPending == pending' = [i \in Rpcs |-> None]
ParentSeesExit ==
  /\ worker = "dead"
  /\ worker' = "down" /\ timer' = TRUE
  /\ proxy' = [s \in Sessions |-> "none"]
  /\ registry' = [s \in Sessions |-> IF proxy[s] # "none" THEN "none" ELSE registry[s]]
  /\ waiting' = [s \in Sessions |-> IF proxy[s] # "none" THEN {} ELSE waiting[s]]
  /\ RejectPending
  /\ toChild' = <<>> /\ toParent' = <<>>
  /\ UNCHANGED <<row, inside, deaths>>

\* ensureWorker, by the respawn timer or for a wake that waits.
Spawn ==
  /\ worker = "down"
  /\ timer \/ \E s \in Sessions : registry[s] = "waking"
  /\ worker' = "booting" /\ timer' = FALSE
  /\ UNCHANGED <<row, registry, waiting, proxy, pending, pipe, inside, deaths>>

WorkerReady ==
  /\ worker = "booting" /\ worker' = "ready"
  /\ UNCHANGED <<row, parent, pipe, inside, deaths>>

\* init_error or an exit before ready: the wakes that wait for the worker fail;
\* only the exit sets a timer.
BootFails ==
  /\ worker = "booting" /\ deaths < MaxDeaths
  /\ worker' = "down" /\ deaths' = deaths + 1
  /\ registry' = [s \in Sessions |-> IF registry[s] = "waking" THEN "none" ELSE registry[s]]
  /\ waiting' = [s \in Sessions |-> {}]
  /\ timer' \in {timer, TRUE}
  /\ UNCHANGED <<row, proxy, pending, pipe, inside>>

-----------------------------------------------------------------------------
ChildStep(s) ==
  \/ ChildWakes(s) \/ ChildWakeFails(s) \/ ForwardEvent(s) \/ DropEvent(s)
TurnStep(i) == TurnStarts(i) \/ TurnSettles(i) \/ TurnReplies(i)

Next ==
  \/ \E s \in Sessions :
       \/ \E op \in {"sendEvent", "call"} : Request(s, op)
       \/ PoolWakes(s) \/ Evict(s) \/ ChildStep(s)
  \/ ParentReads \/ ChildReads
  \/ \E i \in Rpcs : TurnStep(i)
  \/ ChildDies \/ ParentSeesExit \/ Spawn \/ WorkerReady \/ BootFails

Spec == Init /\ [][Next]_vars

(* Both processes read their pipe, awaits return, a turn ends, the exit of  *)
(* the child is reported and a spawn is answered.                           *)
LiveSpec ==
  /\ Spec
  /\ WF_vars(ParentReads) /\ WF_vars(ChildReads)
  /\ \A s \in Sessions :
       /\ WF_vars(PoolWakes(s)) /\ WF_vars(ChildWakes(s) \/ ChildWakeFails(s))
       /\ WF_vars(ForwardEvent(s) \/ DropEvent(s))
  /\ \A i \in Rpcs : WF_vars(TurnStep(i))
  /\ WF_vars(ParentSeesExit) /\ WF_vars(Spawn) /\ WF_vars(WorkerReady \/ BootFails)

-----------------------------------------------------------------------------
About(s) ==
  \/ \E k \in DOMAIN toChild : toChild[k].s = s
  \/ \E k \in DOMAIN toParent : toParent[k].s = s
Settled(s) ==
  /\ worker = "ready" /\ registry[s] # "waking" /\ ~About(s)
  /\ ~child[s].unsent /\ child[s].phase # "waking"

(* Once nothing about a session is in the pipe, parent and child agree: a   *)
(* proxy stands for a runtime and tells its true status, unless the event   *)
(* that last told it was dropped, and the child has no runtime the registry *)
(* let go of.  Otherwise a runtime is leaked, or a request sent to none.    *)
QuietMeansAgreed ==
  \A s \in Sessions :
    Settled(s) =>
      IF registry[s] = "held"
      THEN /\ child[s].phase = "awake"
           /\ child[s].missed \/ proxy[s] = child[s].sm
      ELSE child[s].phase = "none"

(* "Staleness is bounded by IPC latency": with nothing left in the pipe the *)
(* cached status is the runtime's.  FALSE: a dropped event leaves it behind *)
(* for as long as the runtime announces nothing else.                       *)
StatusIsFresh ==
  \A s \in Sessions : Settled(s) /\ registry[s] = "held" => proxy[s] = child[s].sm

(* "A running runtime is NEVER evicted": no dispose reaches a runtime in    *)
(* the middle of a turn.  FALSE: the registry decides by a status that lags *)
(* behind a message already sent.                                           *)
NoTurnDisposed == \A i \in Rpcs : turn[i].kept

(* Every request to a child is answered, or rejected when the child dies:   *)
(* there is no timeout that would end the wait of its caller.               *)
RequestsSettle == \A i \in Rpcs : pending[i] # None ~> pending[i] = None

(* A row does not say running for ever: the turn ends or its worker's death *)
(* is made up for, as the session re-wakes on the next request.             *)
RunningEnds == \A s \in Sessions : row[s] = "running" ~> row[s] = "idle"
=============================================================================
