------------------------------ MODULE Subagents ------------------------------
(***************************************************************************)
(* The multiagent coordinators of one node (domain/multiagent): delegation *)
(* to child threads, follow-up turns, blocking requests posted across to   *)
(* the primary thread, the per-session cap on turns, the node-wide budget  *)
(* of live threads, and the virtual machines the threads run in.           *)
(*                                                                         *)
(* A turn is one call of runOne or sendMessage; a child thread, its agent  *)
(* session, its virtual machine and its blocking request carry the name of *)
(* the turn that made them.  runSingle and each step of runChain are       *)
(* Delegate of one turn.                                                   *)
(*                                                                         *)
(* Races names the interleavings a run admits beyond the orderly ones:     *)
(*   "lateSpawn"     dispose runs while a spawn is between two awaits      *)
(*   "sameThread"    a follow-up reaches a thread that is mid-turn         *)
(***************************************************************************)
EXTENDS Naturals, FiniteSets

CONSTANTS
    Coordinators,   \* primary sessions with a roster
    Shared,         \* those in shared mode; the others are isolated
    MaxTurns,       \* bound: turns asked of the node
    Asking,         \* bound: the turns that may raise a blocking request
    Cap,            \* MAX_CONCURRENT_THREADS
    NodeMax,        \* MAX_THREADS_PER_NODE
    Races,
    None            \* no thread, no virtual machine

ASSUME SharedAssumption == Shared \subseteq Coordinators
ASSUME BoundsAssumption == Cap \in Nat \ {0} /\ NodeMax \in Nat \ {0}
ASSUME NoneAssumption == MaxTurns \in Nat /\ None \notin 1 .. MaxTurns

\* Turns are numbered in the order they are asked for.
Turns == 1 .. MaxTurns

VARIABLES
    turn,       \* where each turn stands
    coord,      \* the fields of each SubagentCoordinator
    thread,     \* the fields of each ThreadRuntime
    pending,    \* CrossPostCoordinator.pending of each coordinator
    sessions,   \* agent sessions not disposed
    vms,        \* virtual machines not destroyed
    used        \* ThreadBudget.used

vars == <<turn, coord, thread, pending, sessions, vms, used>>

Spawning == {"creating", "provisioning"}
InFlight == Spawning \cup {"running"}

TurnState ==
    [at : {"none", "settled", "requires_action"} \cup InFlight,
     of : Coordinators \cup {None},
     on : Turns \cup {None},
     asked : BOOLEAN]

CoordState ==
    [inFlightTurns : 0 .. Cap,
     threads : SUBSET Turns,
     running : SUBSET Turns,
     sharedSandbox : Turns \cup {None},
     cached : Turns \cup {None},
     phase : {"open", "disposing", "failed", "disposed"},
     todo : SUBSET Turns]

ThreadState ==
    [status : {"none", "idle", "running", "terminated"},
     vm : Turns \cup {None},
     unresolvedBlocks : SUBSET Turns]

TypeOK ==
    /\ turn \in [Turns -> TurnState]
    /\ coord \in [Coordinators -> CoordState]
    /\ thread \in [Turns -> ThreadState]
    /\ pending \in [Coordinators -> SUBSET Turns]
    /\ sessions \subseteq Turns
    /\ vms \subseteq Turns
    /\ used \in 0 .. NodeMax

Init ==
    /\ turn = [t \in Turns |-> [at |-> "none", of |-> None, on |-> None,
                                asked |-> FALSE]]
    /\ coord = [c \in Coordinators |->
                   [inFlightTurns |-> 0, threads |-> {}, running |-> {},
                    sharedSandbox |-> None, cached |-> None,
                    phase |-> "open", todo |-> {}]]
    /\ thread = [t \in Turns |-> [status |-> "none", vm |-> None,
                                  unresolvedBlocks |-> {}]]
    /\ pending = [c \in Coordinators |-> {}]
    /\ sessions = {}
    /\ vms = {}
    /\ used = 0

Fresh(asked) ==
    \A t \in asked :
        /\ turn[t].at = "none"
        /\ \A o \in Turns : o < t /\ turn[o].at = "none" => o \in asked

TurnsOf(c) == {t \in Turns : turn[t].of = c}
SpawnsOf(c) == {t \in TurnsOf(c) : turn[t].at \in Spawning}
TurnsOn(u) == {t \in Turns : turn[t].on = u /\ turn[t].at = "running"}

(***************************************************************************)
(* release and settle floor their counters at zero.                        *)
(***************************************************************************)
Less(n, k) == IF k =< n THEN n - k ELSE 0

(***************************************************************************)
(* admit: refused by a disposed coordinator, and past the cap.             *)
(***************************************************************************)
Admits(c, n) ==
    /\ coord[c].phase = "open"
    /\ coord[c].inFlightTurns + n =< Cap

-----------------------------------------------------------------------------
(***************************************************************************)
(* runParallel admits the whole fan-out, then starts every task.  A task   *)
(* that names no agent of the roster, or finds the node's budget spent,    *)
(* settles at once; the others hold a slot and wait for their session.     *)
(***************************************************************************)
DelegateUnsettled(c, fanout) ==
    /\ Admits(c, Cardinality(fanout))
    /\ Fresh(fanout)
    /\ \E spawned \in SUBSET fanout :
          /\ used + Cardinality(spawned) =< NodeMax
          /\ used' = used + Cardinality(spawned)
          /\ turn' = [t \in Turns |->
                IF t \in spawned
                THEN [turn[t] EXCEPT !.at = "creating", !.of = c]
                ELSE IF t \in fanout
                THEN [turn[t] EXCEPT !.at = "settled", !.of = c]
                ELSE turn[t]]
          /\ coord' = [coord EXCEPT
                ![c].inFlightTurns = @ + Cardinality(fanout)]
    /\ UNCHANGED <<thread, pending, sessions, vms>>

Delegate(c, fanout) ==
    /\ Admits(c, Cardinality(fanout))
    /\ Fresh(fanout)
    /\ \E spawned \in SUBSET fanout :
          /\ used + Cardinality(spawned) =< NodeMax
          /\ used' = used + Cardinality(spawned)
          /\ turn' = [t \in Turns |->
                IF t \in spawned
                THEN [turn[t] EXCEPT !.at = "creating", !.of = c]
                ELSE IF t \in fanout
                THEN [turn[t] EXCEPT !.at = "settled", !.of = c]
                ELSE turn[t]]
          /\ coord' = [coord EXCEPT
                ![c].inFlightTurns = @ + Cardinality(spawned)]
    /\ UNCHANGED <<thread, pending, sessions, vms>>

(***************************************************************************)
(* The turn leaves runOne with an error before its thread exists.          *)
(***************************************************************************)
SpawnFails(t) ==
    /\ turn' = [turn EXCEPT ![t].at = "settled"]
    /\ coord' = [coord EXCEPT ![turn[t].of].inFlightTurns = Less(@, 1)]
    /\ used' = Less(used, 1)
    /\ UNCHANGED <<thread, pending, vms>>

CreateFails(t) ==
    /\ turn[t].at = "creating"
    /\ SpawnFails(t)
    /\ UNCHANGED sessions

ProvisionFailsUncharged(t) ==
    /\ turn[t].at = "provisioning"
    /\ turn' = [turn EXCEPT ![t].at = "settled"]
    /\ coord' = [coord EXCEPT ![turn[t].of].inFlightTurns = Less(@, 1)]
    /\ sessions' = sessions \ {t}
    /\ UNCHANGED <<thread, pending, vms, used>>

ProvisionFails(t) ==
    /\ turn[t].at = "provisioning"
    /\ SpawnFails(t)
    /\ sessions' = sessions \ {t}

(***************************************************************************)
(* The thread enters the coordinator's maps and its first turn starts.     *)
(* Nothing looks at the disposed flag again.                               *)
(***************************************************************************)
Register(t, vm) ==
    LET c == turn[t].of IN
    /\ turn' = [turn EXCEPT ![t].at = "running", ![t].on = t]
    /\ thread' = [thread EXCEPT ![t] =
          [status |-> "running", vm |-> vm, unresolvedBlocks |-> {}]]
    /\ coord' = [coord EXCEPT
          ![c].threads = @ \cup {t},
          ![c].running = @ \cup {t},
          ![c].sharedSandbox = IF c \in Shared THEN vm ELSE @,
          ![c].cached = IF c \in Shared THEN vm ELSE @]
    /\ UNCHANGED <<pending, used>>

(***************************************************************************)
(* The session is created; in shared mode the virtual machine the          *)
(* allocator has cached is used, otherwise one is provisioned.  The cache  *)
(* is tested before the await: first threads that start together provision *)
(* one each, and the last stays cached.                                    *)
(***************************************************************************)
CreatedWarm(t) ==
    LET c == turn[t].of IN
    /\ turn[t].at = "creating"
    /\ c \in Shared /\ coord[c].cached # None
    /\ sessions' = sessions \cup {t}
    /\ Register(t, coord[c].cached)
    /\ UNCHANGED vms

CreatedCold(t) ==
    LET c == turn[t].of IN
    /\ turn[t].at = "creating"
    /\ c \in Shared => coord[c].cached = None
    /\ sessions' = sessions \cup {t}
    /\ turn' = [turn EXCEPT ![t].at = "provisioning"]
    /\ UNCHANGED <<coord, thread, pending, vms, used>>

Provisioned(t) ==
    /\ turn[t].at = "provisioning"
    /\ vms' = vms \cup {t}
    /\ Register(t, t)
    /\ UNCHANGED sessions

-----------------------------------------------------------------------------
(***************************************************************************)
(* sendMessage: a follow-up turn t on the thread u.  A thread whose last   *)
(* turn threw is still addressable, and refuses the turn; the finally      *)
(* block settles it all the same.                                          *)
(***************************************************************************)
FollowUp(c, u, t) ==
    /\ Admits(c, 1)
    /\ u \in coord[c].threads
    /\ Fresh({t})
    /\ "sameThread" \in Races \/ TurnsOn(u) = {}
    /\ thread[u].status # "terminated"
    /\ turn' = [turn EXCEPT ![t].at = "running", ![t].of = c, ![t].on = u]
    /\ thread' = [thread EXCEPT ![u].status = "running",
                                ![u].unresolvedBlocks = {}]
    /\ coord' = [coord EXCEPT ![c].inFlightTurns = @ + 1,
                              ![c].running = @ \cup {u}]
    /\ UNCHANGED <<pending, sessions, vms, used>>

FollowUpRefused(c, u, t) ==
    /\ Admits(c, 1)
    /\ u \in coord[c].threads
    /\ Fresh({t})
    /\ thread[u].status = "terminated"
    /\ turn' = [turn EXCEPT ![t].at = "settled", ![t].of = c]
    /\ coord' = [coord EXCEPT ![c].running = @ \ {u}]
    /\ UNCHANGED <<thread, pending, sessions, vms, used>>

(***************************************************************************)
(* handleBlocking: the request is recorded on the thread before it is      *)
(* posted across, and the turn goes on.  A disposed thread has             *)
(* unsubscribed from its session and hears no request.                     *)
(***************************************************************************)
BlockLate(t) ==
    LET c == turn[t].of IN
    /\ t \in Asking /\ turn[t].at = "running" /\ ~turn[t].asked
    /\ turn[t].on \in coord[c].threads
    /\ turn' = [turn EXCEPT ![t].asked = TRUE]
    /\ pending' = [pending EXCEPT ![c] = @ \cup {t}]
    /\ UNCHANGED <<coord, thread, sessions, vms, used>>

Block(t) ==
    LET c == turn[t].of IN
    /\ t \in Asking /\ turn[t].at = "running" /\ ~turn[t].asked
    /\ turn[t].on \in coord[c].threads
    /\ turn' = [turn EXCEPT ![t].asked = TRUE]
    /\ thread' = [thread EXCEPT ![turn[t].on].unresolvedBlocks = @ \cup {t}]
    /\ pending' = [pending EXCEPT ![c] = @ \cup {t}]
    /\ UNCHANGED <<coord, sessions, vms, used>>

(***************************************************************************)
(* The requests in blocks are resolved: each leaves pending, and the set   *)
(* of its thread.                                                          *)
(***************************************************************************)
Resolve(c, blocks) ==
    /\ pending' = [pending EXCEPT ![c] = @ \ blocks]
    /\ thread' = [u \in Turns |->
          [thread[u] EXCEPT !.unresolvedBlocks = @ \ blocks]]

(***************************************************************************)
(* applyToolConfirmation, applyCustomToolResult; abortAll on an interrupt. *)
(***************************************************************************)
Answer(c, b) ==
    /\ b \in pending[c]
    /\ Resolve(c, {b})
    /\ UNCHANGED <<turn, coord, sessions, vms, used>>

AbortAll(c) ==
    /\ pending[c] # {}
    /\ Resolve(c, pending[c])
    /\ UNCHANGED <<turn, coord, sessions, vms, used>>

(***************************************************************************)
(* The prompt settles.  The status is written whatever it has become       *)
(* meanwhile, a disposed thread's too.                                     *)
(***************************************************************************)
Outcome(t, ok) ==
    IF ok /\ thread[turn[t].on].unresolvedBlocks # {}
    THEN "requires_action" ELSE "settled"

TurnEnds(t) ==
    LET c == turn[t].of
        u == turn[t].on
    IN  /\ turn[t].at = "running"
        /\ \E ok \in BOOLEAN :
              /\ turn' = [turn EXCEPT ![t] =
                    [at |-> Outcome(t, ok), of |-> c, on |-> None,
                     asked |-> FALSE]]
              /\ thread' = [thread EXCEPT ![u].status =
                                IF ok THEN "idle" ELSE "terminated"]
        /\ coord' = [coord EXCEPT ![c].inFlightTurns = Less(@, 1),
                                  ![c].running = @ \ {u}]
        /\ UNCHANGED <<pending, sessions, vms, used>>

-----------------------------------------------------------------------------
(***************************************************************************)
(* disposeThread: out of the maps, session disposed, slot returned, and in *)
(* isolated mode the virtual machine released.  The release may reject     *)
(* after all that: the thread keeps a machine nobody will destroy.         *)
(***************************************************************************)
DropThreadAndVm(c, u, released) ==
    /\ thread' = [thread EXCEPT ![u].status = "terminated", ![u].vm = None]
    /\ sessions' = sessions \ {u}
    /\ used' = Less(used, 1)
    /\ vms' = IF released THEN vms \ {thread[u].vm} ELSE vms

DropThread(c, u, released) ==
    /\ thread' = [thread EXCEPT ![u].status = "terminated",
                                ![u].vm = IF released THEN None ELSE @]
    /\ sessions' = sessions \ {u}
    /\ used' = Less(used, 1)
    /\ vms' = IF released /\ c \notin Shared THEN vms \ {thread[u].vm} ELSE vms

\* A shared machine is not released with a thread.
Releases(c) == IF c \in Shared THEN {TRUE} ELSE BOOLEAN

DisposeThread(c, u) ==
    /\ u \in coord[c].threads
    /\ \E released \in Releases(c) : DropThread(c, u, released)
    /\ coord' = [coord EXCEPT ![c].threads = @ \ {u},
                              ![c].running = @ \ {u}]
    /\ UNCHANGED <<turn, pending>>

(***************************************************************************)
(* dispose: the flag, then one thread after the other with an await for    *)
(* each, then the shared virtual machine and the pending requests.  A      *)
(* release that rejects ends it there, and no second call resumes it.      *)
(***************************************************************************)
Dispose(c) ==
    /\ coord[c].phase = "open"
    /\ "lateSpawn" \in Races \/ SpawnsOf(c) = {}
    /\ coord' = [coord EXCEPT ![c].phase = "disposing",
                              ![c].todo = coord[c].threads]
    /\ UNCHANGED <<turn, thread, pending, sessions, vms, used>>

DisposeNext(c, u) ==
    /\ coord[c].phase = "disposing"
    /\ u \in coord[c].todo \cap coord[c].threads
    /\ \E released \in Releases(c) :
          /\ DropThread(c, u, released)
          /\ coord' = [coord EXCEPT
                ![c].threads = @ \ {u},
                ![c].running = @ \ {u},
                ![c].todo = @ \ {u},
                ![c].phase = IF released THEN @ ELSE "failed"]
    /\ UNCHANGED <<turn, pending>>

DisposeLast(c, released) ==
    LET vm == coord[c].sharedSandbox
        destroyed == vm # None /\ vm = coord[c].cached /\ released
    IN  /\ coord[c].phase = "disposing"
        /\ coord[c].todo \cap coord[c].threads = {}
        /\ coord' = [coord EXCEPT
              ![c].sharedSandbox = None,
              ![c].cached = IF destroyed THEN None ELSE @,
              ![c].phase = IF released THEN "disposed" ELSE "failed"]
        /\ vms' = IF destroyed THEN vms \ {vm} ELSE vms
        /\ UNCHANGED <<turn, sessions, used>>

\* As DisposeEnd without the requests.
DisposeEndUnanswered(c) ==
    /\ DisposeLast(c, TRUE)
    /\ UNCHANGED <<thread, pending>>

DisposeEnd(c) ==
    /\ DisposeLast(c, TRUE)
    /\ Resolve(c, pending[c])

\* destroy rejects: the requests stay unanswered.
DisposeEndFails(c) ==
    /\ coord[c].sharedSandbox # None /\ coord[c].sharedSandbox = coord[c].cached
    /\ DisposeLast(c, FALSE)
    /\ UNCHANGED <<thread, pending>>

-----------------------------------------------------------------------------
Spawn(t) ==
    \/ CreateFails(t) \/ CreatedWarm(t) \/ CreatedCold(t)
    \/ ProvisionFails(t) \/ Provisioned(t)

Closing(c) ==
    \/ DisposeEnd(c) \/ DisposeEndFails(c)
    \/ \E u \in Turns : DisposeNext(c, u)

Next ==
    \/ \E c \in Coordinators, fanout \in SUBSET Turns \ {{}} :
          Delegate(c, fanout)
    \/ \E t \in Turns : Spawn(t)
    \/ \E c \in Coordinators, u, t \in Turns :
          FollowUp(c, u, t) \/ FollowUpRefused(c, u, t)
    \/ \E t \in Turns : Block(t) \/ TurnEnds(t)
    \/ \E c \in Coordinators, b \in Turns : Answer(c, b)
    \/ \E c \in Coordinators : AbortAll(c) \/ Dispose(c) \/ Closing(c)
    \/ \E c \in Coordinators, u \in Turns : DisposeThread(c, u)

(***************************************************************************)
(* A call on the factory, the allocator or the session is answered, with a *)
(* result or an error; dispose, once called, goes on.                      *)
(***************************************************************************)
Fairness ==
    /\ \A t \in Turns : WF_vars(Spawn(t)) /\ WF_vars(TurnEnds(t))
    /\ \A c \in Coordinators : WF_vars(Closing(c))

Spec == Init /\ [][Next]_vars /\ Fairness

-----------------------------------------------------------------------------
(***************************************************************************)
(* The node's budget is charged for exactly the threads its coordinators   *)
(* hold and the spawns under way: no failed spawn, failed turn or disposal *)
(* leaves a slot behind or returns one twice (R6.4).                       *)
(***************************************************************************)
BudgetIsLive ==
    used = Cardinality(UNION {coord[c].threads \cup SpawnsOf(c) :
                                 c \in Coordinators})

(***************************************************************************)
(* The number the cap is measured against is the number of turns admitted  *)
(* and not settled, however each of them ended.                            *)
(***************************************************************************)
CapCountsTurns ==
    \A c \in Coordinators :
        coord[c].inFlightTurns =
            Cardinality({t \in TurnsOf(c) : turn[t].at \in InFlight})

(***************************************************************************)
(* Both counters are what they count, whatever failed on the way.          *)
(***************************************************************************)
CountersMatch == BudgetIsLive /\ CapCountsTurns

(***************************************************************************)
(* A thread that can be addressed has its virtual machine: disposing of a  *)
(* sibling in shared mode does not take it away.                           *)
(***************************************************************************)
VmsServeThreads ==
    \A c \in Coordinators : \A u \in coord[c].threads : thread[u].vm \in vms

(***************************************************************************)
(* A turn that settles while its own request still waits for the user      *)
(* reports requires_action and not completion.                             *)
(***************************************************************************)
BlockedTurnSaysSo ==
    [][\A t \in Turns :
          turn[t].at = "running" /\ t \in pending[turn[t].of]
             /\ turn'[t].at # "running" /\ thread'[turn[t].on].status = "idle"
          => turn'[t].at = "requires_action"]_vars

(***************************************************************************)
(* A disposal that no release cuts short comes to an end, and then no      *)
(* thread, turn, agent session or unanswered request of the session is     *)
(* left, nor in isolated mode a machine, but for those of threads disposed *)
(* of before whose own release rejected.                                   *)
(***************************************************************************)
Freed(c) ==
    /\ coord[c].threads = {} /\ coord[c].inFlightTurns = 0
    /\ TurnsOf(c) \cap sessions = {} /\ pending[c] = {}
    /\ c \notin Shared => TurnsOf(c) \cap vms \subseteq {u \in Turns : thread[u].vm = u}

DisposeFrees ==
    \A c \in Coordinators :
        coord[c].phase # "open" ~> coord[c].phase = "failed" \/ Freed(c)

(***************************************************************************)
(* The shared allocator "provisions exactly one sandbox on first use and   *)
(* returns it for every subsequent thread" (modes.ts).                     *)
(***************************************************************************)
OneSharedVm == \A c \in Shared : Cardinality(TurnsOf(c) \cap vms) =< 1

(***************************************************************************)
(* dispose disposes of "all child threads + release[s] every sandbox       *)
(* handle allocated" (coordinator.ts).                                     *)
(***************************************************************************)
DisposeReleasesAll ==
    \A c \in Coordinators :
        coord[c].phase = "disposed" /\ SpawnsOf(c) = {}
            => coord[c].threads = {} /\ TurnsOf(c) \cap vms = {}
=============================================================================
