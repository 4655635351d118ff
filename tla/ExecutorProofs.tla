--------------------------- MODULE ExecutorProofs ---------------------------
(***************************************************************************)
(* Proofs about work that one process hands to another and must not run    *)
(* twice or drop: the occurrences of a cron job, which any node may claim, *)
(* for any number of nodes, any schedule and window, and any number of     *)
(* failures; and the sessions a pool hands to its worker, for any          *)
(* sessions, any number of request ids, any cap and any number of deaths   *)
(* of the worker.  The two share no state.                                 *)
(***************************************************************************)
EXTENDS Scheduler, SessionWorkers, TLAPS

-----------------------------------------------------------------------------
(* The cron scheduler.                                                      *)


(* The row of a run in progress is claimed until its outcome is written and *)
(* triggered from then on.                                                  *)
Claims ==
  \A n \in Nodes :
    /\ pc[n] \in {"run", "record"} => run[at[n]] = "claimed"
    /\ pc[n] \in {"pause", "finish"} => run[at[n]] = "triggered"
    /\ pc[n] = "release" => run[at[n]] \in {"claimed", "triggered"}

(* The one session beyond the failed runs is recorded, or a node is about   *)
(* to record it.                                                            *)
LastSession ==
  \A t \in Occurrences :
    fired[t] > cut[t] =>
      run[t] = "triggered" \/ \E n \in Nodes : pc[n] = "record" /\ at[n] = t

RunsInv == CronTypeOK /\ Claims /\ OneExecutor /\ LastSession /\ NoDoubleFire

-----------------------------------------------------------------------------

(* Neither the clock nor the job's owner touches a row or a run. *)
LEMMA OwnerPreserves ==
  ASSUME RunsInv, Advance \/ Owner
  PROVE  RunsInv'
<1>1. CASE Advance
  BY <1>1, SchedulerAssumption
     DEF Advance, RunsInv, CronTypeOK, Claims, OneExecutor, LastSession, NoDoubleFire,
     tickVars, runVars, seen, Holding, Beating
<1>2. CASE Owner
  BY <1>2
     DEF Owner, Pause, Unpause, Archive, RunsInv, CronTypeOK, Claims, OneExecutor, LastSession,
     NoDoubleFire, tickVars, runVars, seen, Holding, Beating
<1> QED BY <1>1, <1>2

(* A lease lapses on a claim that no run in progress holds. *)
LEMMA LapsePreserves ==
  ASSUME RunsInv, NEW t \in Occurrences, LeaseLapses(t)
  PROVE  RunsInv'
<1> USE DEF LeaseLapses, tickVars, runVars, seen
<1>1. CronTypeOK' BY DEF RunsInv, CronTypeOK, RowStates, Holding, Beating
<1>2. Claims' BY DEF RunsInv, CronTypeOK, Claims, Holding, Beating
<1>3. OneExecutor' BY DEF RunsInv, OneExecutor
<1>4. LastSession' BY DEF RunsInv, CronTypeOK, LastSession
<1>5. NoDoubleFire' BY DEF RunsInv, NoDoubleFire
<1> QED BY <1>1, <1>2, <1>3, <1>4, <1>5 DEF RunsInv

(* A row a node can take is in nobody's hands. *)
LEMMA TakePreserves ==
  ASSUME RunsInv, NEW n \in Nodes, NEW t \in Occurrences, NEW b \in BOOLEAN,
         pc[n] \notin Holding, run[t] \in {"absent", "unclaimed", "stale"},
         Take(n, t, b),
         todo' \in [Nodes -> SUBSET Occurrences], due' \in [Nodes -> SUBSET Occurrences],
         UNCHANGED <<clock, status, now, misses, outcome, seen, faults>>
  PROVE  RunsInv'
<1> USE DEF Take, seen
<1>1. CronTypeOK' BY DEF RunsInv, CronTypeOK, RowStates, Holding, Beating
<1>2. \A m \in Nodes : pc[m] \in Holding => at[m] # t
  BY DEF RunsInv, Claims, Holding, Beating
<1>3. Claims' BY <1>2 DEF RunsInv, CronTypeOK, Claims, Holding, Beating
<1>4. OneExecutor' BY <1>2 DEF RunsInv, CronTypeOK, OneExecutor, Holding, Beating
<1>5. LastSession'
  BY <1>2 DEF RunsInv, CronTypeOK, LastSession, Holding, Beating
<1>6. NoDoubleFire' BY DEF RunsInv, NoDoubleFire
<1> QED BY <1>1, <1>3, <1>4, <1>5, <1>6 DEF RunsInv

(* A step that ends or begins no run and leaves the rows alone. *)
LEMMA TickPreserves ==
  ASSUME RunsInv, NEW n \in Nodes,
         pc[n] \notin Holding,
         NEW p \in {"rest", "scan", "recover", "fire"}, pc' = [pc EXCEPT ![n] = p],
         now' \in [Nodes -> 0..MaxTime], todo' \in [Nodes -> SUBSET Occurrences],
         due' \in [Nodes -> SUBSET Occurrences], misses' \in [Nodes -> SUBSET Occurrences],
         \A u \in Occurrences : run'[u] = run[u] \/ (run[u] = "absent" /\ run'[u] = "unclaimed"),
         run' \in [Occurrences -> RowStates],
         UNCHANGED <<clock, status, runVars, seen, faults>>
  PROVE  RunsInv'
<1> USE DEF runVars, seen
<1>1. CronTypeOK' BY DEF RunsInv, CronTypeOK, Holding, Beating
<1>2. Claims' BY DEF RunsInv, CronTypeOK, Claims, Holding, Beating
<1>3. OneExecutor' BY DEF RunsInv, CronTypeOK, OneExecutor, Holding, Beating
<1>4. LastSession' BY DEF RunsInv, CronTypeOK, LastSession, Holding, Beating
<1>5. NoDoubleFire' BY DEF RunsInv, NoDoubleFire
<1> QED BY <1>1, <1>2, <1>3, <1>4, <1>5 DEF RunsInv

LEMMA SweepPreserves ==
  ASSUME RunsInv, NEW n \in Nodes, Sweep(n)
  PROVE  RunsInv'
<1>0. CronTypeOK /\ SchedulerAssumption BY SchedulerAssumption DEF RunsInv
<1>1. CASE TickStart(n)
  BY <1>0, <1>1, TickPreserves DEF TickStart, CronTypeOK, Holding, Beating
<1>2. CASE Scan(n)
  BY <1>0, <1>2, TickPreserves DEF Scan, CronTypeOK, Holding, Beating
<1>3. ASSUME NEW t \in Occurrences, Recover(n, t) PROVE RunsInv'
  <2>0. todo' \in [Nodes -> SUBSET Occurrences] BY <1>0, <1>3 DEF Recover, CronTypeOK
  <2>1. CASE Open(t)
    <3>1. Take(n, t, TRUE) BY <1>3, <2>1 DEF Recover
    <3>2. run[t] \in {"absent", "unclaimed", "stale"} BY <2>1 DEF Open
    <3>3. pc[n] \notin Holding BY <1>3 DEF Recover, Holding, Beating
    <3> QED BY <1>0, <1>3, <2>0, <3>1, <3>2, <3>3, TakePreserves DEF Recover, CronTypeOK
  <2>2. CASE ~Open(t)
    <3>1. pc' = [pc EXCEPT ![n] = "recover"] BY <1>0, <1>3, <2>2 DEF Recover, CronTypeOK, Take
    <3>2. pc[n] \notin Holding BY <1>3 DEF Recover, Holding, Beating
    <3>3. UNCHANGED <<run, at, recovering>> BY <1>3, <2>2 DEF Recover
    <3> QED BY <1>0, <1>3, <2>0, <3>1, <3>2, <3>3, TickPreserves DEF Recover, CronTypeOK, runVars
  <2> QED BY <2>1, <2>2
<1>4. CASE ListActiveJobs(n)
  <2>0. pc[n] \notin Holding BY <1>4 DEF ListActiveJobs, Holding, Beating
  <2>1. UNCHANGED <<clock, status, run, runVars, seen, faults>>
    BY <1>4 DEF ListActiveJobs
  <2>2. run' \in [Occurrences -> RowStates] BY <1>0, <2>1 DEF CronTypeOK
  <2>3. /\ now' \in [Nodes -> 0..MaxTime] /\ todo' \in [Nodes -> SUBSET Occurrences]
        /\ due' \in [Nodes -> SUBSET Occurrences] /\ misses' \in [Nodes -> SUBSET Occurrences]
    <3>1. CASE DropTick(n) BY <1>0, <3>1 DEF DropTick, CronTypeOK
    <3>2. CASE UNCHANGED <<now, todo>>
               /\ \E D, M \in SUBSET Occurrences :
                     due' = [due EXCEPT ![n] = D] /\ misses' = [misses EXCEPT ![n] = M]
      BY <1>0, <3>2 DEF CronTypeOK
    <3> QED BY <1>4, <3>1, <3>2 DEF ListActiveJobs
  <2>4. pc' = [pc EXCEPT ![n] = "fire"] \/ pc' = [pc EXCEPT ![n] = "rest"]
    BY <1>4 DEF ListActiveJobs
  <2> QED BY <2>0, <2>1, <2>2, <2>3, <2>4, TickPreserves
<1>5. ASSUME NEW t \in Occurrences, FireOccurrence(n, t) PROVE RunsInv'
  <2>0. due' \in [Nodes -> SUBSET Occurrences] BY <1>0, <1>5 DEF FireOccurrence, CronTypeOK
  <2>1. pc[n] \notin Holding BY <1>5 DEF FireOccurrence, Holding, Beating
  <2>2. CASE run[t] = "absent"
    <3>1. Take(n, t, FALSE) BY <1>5, <2>2 DEF FireOccurrence
    <3> QED BY <1>0, <1>5, <2>0, <2>1, <2>2, <3>1, TakePreserves DEF FireOccurrence, CronTypeOK
  <2>3. CASE run[t] # "absent"
    <3>1. pc' = [pc EXCEPT ![n] = "fire"] BY <1>0, <1>5, <2>3 DEF FireOccurrence, CronTypeOK
    <3>2. UNCHANGED <<run, at, recovering>> BY <1>5, <2>3 DEF FireOccurrence
    <3> QED
      BY <1>0, <1>5, <2>0, <2>1, <3>1, <3>2, TickPreserves DEF FireOccurrence, CronTypeOK, runVars
  <2> QED BY <2>2, <2>3
<1>6. CASE RecordSkipped(n)
  <2>1. run' \in [Occurrences -> RowStates]
    BY <1>0, <1>6 DEF RecordSkipped, CronTypeOK, RowStates
  <2>2. \A u \in Occurrences : run'[u] = run[u] \/ (run[u] = "absent" /\ run'[u] = "unclaimed")
    BY <1>6 DEF RecordSkipped
  <2>3. pc[n] \notin Holding BY <1>6 DEF RecordSkipped, Holding, Beating
  <2>4. /\ now' \in [Nodes -> 0..MaxTime] /\ todo' \in [Nodes -> SUBSET Occurrences]
        /\ due' \in [Nodes -> SUBSET Occurrences] /\ misses' \in [Nodes -> SUBSET Occurrences]
    BY <1>0, <1>6 DEF RecordSkipped, DropTick, CronTypeOK
  <2>5. pc' = [pc EXCEPT ![n] = "rest"] /\ UNCHANGED <<clock, status, runVars, seen, faults>>
    BY <1>6 DEF RecordSkipped
  <2> QED BY <2>1, <2>2, <2>3, <2>4, <2>5, TickPreserves
<1> QED BY <1>1, <1>2, <1>3, <1>4, <1>5, <1>6 DEF Sweep

(* What createSession answers is written once, by the node that holds the   *)
(* claim.                                                                   *)
LEMMA ExecutionPreserves ==
  ASSUME RunsInv, NEW n \in Nodes, Execution(n)
  PROVE  RunsInv'
<1>0. CronTypeOK BY DEF RunsInv
<1>1. CASE TryExecute(n)
  <2> USE <1>1 DEF TryExecute, tickVars
  <2>0. at[n] \in Occurrences /\ run[at[n]] = "claimed" /\ pc[n] = "run"
    BY <1>0 DEF RunsInv, CronTypeOK, Claims, Holding, Beating
  <2>1. CronTypeOK' BY <1>0, <2>0 DEF CronTypeOK, Holding, Beating
  <2>2. Claims' BY <1>0, <2>0 DEF RunsInv, CronTypeOK, Claims
  <2>3. OneExecutor' BY <1>0, <2>0 DEF RunsInv, CronTypeOK, OneExecutor, Holding, Beating
  <2>4. \A m \in Nodes : pc[m] = "record" => at[m] # at[n]
    BY <2>0 DEF RunsInv, OneExecutor, Holding, Beating
  <2>5. fired[at[n]] <= cut[at[n]] BY <1>0, <2>0, <2>4 DEF RunsInv, CronTypeOK, LastSession
  <2>6. LastSession' BY <1>0, <2>0, <2>5 DEF RunsInv, CronTypeOK, LastSession
  <2>7. NoDoubleFire' BY <1>0, <2>0, <2>5 DEF RunsInv, CronTypeOK, NoDoubleFire
  <2> QED BY <2>1, <2>2, <2>3, <2>6, <2>7 DEF RunsInv
<1>2. CASE RecordOutcome(n)
  <2> USE <1>2 DEF RecordOutcome, tickVars, seen
  <2>0. at[n] \in Occurrences /\ pc[n] = "record" BY <1>0 DEF CronTypeOK, Holding, Beating
  <2>1. CronTypeOK' BY <1>0, <2>0 DEF CronTypeOK, RowStates, Holding, Beating
  <2>2. \A m \in Nodes : m # n /\ pc[m] \in Holding => at[m] # at[n]
    BY <2>0 DEF RunsInv, OneExecutor, Holding, Beating
  <2>3. Claims' BY <1>0, <2>0, <2>2 DEF RunsInv, CronTypeOK, Claims, Holding, Beating
  <2>4. OneExecutor' BY <1>0, <2>0 DEF RunsInv, CronTypeOK, OneExecutor, Holding, Beating
  <2>5. LastSession' BY <1>0, <2>0, <2>2 DEF RunsInv, CronTypeOK, LastSession
  <2>6. NoDoubleFire' BY DEF RunsInv, NoDoubleFire
  <2> QED BY <2>1, <2>3, <2>4, <2>5, <2>6 DEF RunsInv
<1>3. CASE AutoPause(n)
  BY <1>0, <1>3
     DEF AutoPause, RunsInv, CronTypeOK, Claims, OneExecutor, LastSession, NoDoubleFire,
     tickVars, runVars, seen, Holding, Beating
<1>4. CASE Finish(n)
  <2> USE <1>4 DEF Finish, Forget, tickVars, seen
  <2>1. CronTypeOK' BY <1>0 DEF CronTypeOK, Holding, Beating
  <2>2. Claims' BY <1>0 DEF RunsInv, CronTypeOK, Claims
  <2>3. OneExecutor' BY <1>0 DEF RunsInv, CronTypeOK, OneExecutor, Holding, Beating
  <2>4. LastSession' BY <1>0 DEF RunsInv, CronTypeOK, LastSession
  <2>5. NoDoubleFire' BY DEF RunsInv, NoDoubleFire
  <2> QED BY <2>1, <2>2, <2>3, <2>4, <2>5 DEF RunsInv
<1>5. CASE Release(n)
  <2> USE <1>5 DEF Release, Forget, tickVars, seen
  <2>0. at[n] \in Occurrences /\ pc[n] = "release" BY <1>0 DEF CronTypeOK, Holding, Beating
  <2>1. CronTypeOK'
    <3>1. run' \in [Occurrences -> RowStates] BY <1>0, <2>0 DEF CronTypeOK, RowStates
    <3>2. /\ pc' \in [Nodes -> {"rest", "scan", "recover", "fire"} \cup Holding]
          /\ at' \in [Nodes -> Occurrences \cup {0}]
          /\ \A m \in Nodes : pc'[m] \in Holding => at'[m] \in Occurrences
      BY <1>0 DEF CronTypeOK, Holding, Beating
    <3> QED BY <1>0, <3>1, <3>2 DEF CronTypeOK
  <2>2. \A m \in Nodes : m # n /\ pc[m] \in Holding => at[m] # at[n]
    BY <2>0 DEF RunsInv, OneExecutor, Holding, Beating
  <2>3. Claims' BY <1>0, <2>0, <2>2 DEF RunsInv, CronTypeOK, Claims, Holding, Beating
  <2>4. OneExecutor' BY <1>0, <2>0 DEF RunsInv, CronTypeOK, OneExecutor, Holding, Beating
  <2>5. LastSession' BY <1>0, <2>0, <2>2 DEF RunsInv, CronTypeOK, LastSession, Holding, Beating
  <2>6. NoDoubleFire' BY DEF RunsInv, NoDoubleFire
  <2> QED BY <2>1, <2>3, <2>4, <2>5, <2>6 DEF RunsInv
<1> QED BY <1>1, <1>2, <1>3, <1>4, <1>5 DEF Execution

(* A run that ends early gives its occurrence another session to spend only *)
(* if it may have created one.                                              *)
LEMMA FailurePreserves ==
  ASSUME RunsInv, NEW n \in Nodes, Failure(n)
  PROVE  RunsInv'
<1>0. CronTypeOK BY DEF RunsInv
<1>1. ASSUME CutShort(n), UNCHANGED <<run, fired>>
      PROVE  /\ cut' \in [Occurrences -> Nat]
             /\ \A t \in Occurrences : cut'[t] >= cut[t]
             /\ pc[n] = "record" => cut'[at[n]] = cut[at[n]] + 1
  BY <1>0, <1>1 DEF CutShort, CronTypeOK, Holding, Beating
<1>2. ASSUME CutShort(n), UNCHANGED <<run, fired>>,
             \A m \in Nodes : m # n => pc'[m] = pc[m] /\ at'[m] = at[m]
      PROVE  LastSession' /\ NoDoubleFire'
  <2>1. NoDoubleFire' BY <1>0, <1>1, <1>2 DEF RunsInv, CronTypeOK, NoDoubleFire
  <2>2. ASSUME NEW t \in Occurrences, fired'[t] > cut'[t]
        PROVE  run'[t] = "triggered" \/ \E m \in Nodes : pc'[m] = "record" /\ at'[m] = t
    <3>1. fired[t] > cut[t] BY <1>0, <1>1, <1>2, <2>2 DEF CronTypeOK
    <3>2. ~(pc[n] = "record" /\ at[n] = t)
      BY <1>0, <1>1, <1>2, <2>2 DEF RunsInv, CronTypeOK, NoDoubleFire
    <3> QED BY <1>2, <3>1, <3>2 DEF RunsInv, LastSession
  <2> QED BY <2>1, <2>2 DEF LastSession
<1>3. CASE RunFails(n)
  <2> USE <1>3 DEF RunFails, tickVars, runVars
  <2>1. CutShort(n) /\ UNCHANGED <<run, fired, at>> /\ pc' = [pc EXCEPT ![n] = "release"]
    OBVIOUS
  <2>2. LastSession' /\ NoDoubleFire' BY <1>0, <1>2, <2>1 DEF CronTypeOK
  <2>3. CronTypeOK' BY <1>0, <1>1, <2>1 DEF CronTypeOK, Fault, Holding, Beating
  <2>4. Claims' BY <1>0 DEF RunsInv, CronTypeOK, Claims
  <2>5. OneExecutor' BY <1>0 DEF RunsInv, CronTypeOK, OneExecutor, Holding, Beating
  <2> QED BY <2>2, <2>3, <2>4, <2>5 DEF RunsInv
<1>4. CASE TickFails(n)
  <2> USE <1>4 DEF TickFails, Forget
  <2>1. CutShort(n) /\ UNCHANGED <<run, fired>> /\ pc' = [pc EXCEPT ![n] = "rest"]
        /\ at' = [at EXCEPT ![n] = 0]
    OBVIOUS
  <2>2. LastSession' /\ NoDoubleFire' BY <1>0, <1>2, <2>1 DEF CronTypeOK
  <2>3. /\ now' \in [Nodes -> 0..MaxTime] /\ todo' \in [Nodes -> SUBSET Occurrences]
        /\ due' \in [Nodes -> SUBSET Occurrences] /\ misses' \in [Nodes -> SUBSET Occurrences]
    BY <1>0, SchedulerAssumption DEF DropTick, CronTypeOK
  <2>4. CronTypeOK'
    <3>1. /\ pc' \in [Nodes -> {"rest", "scan", "recover", "fire"} \cup Holding]
          /\ at' \in [Nodes -> Occurrences \cup {0}]
          /\ \A m \in Nodes : pc'[m] \in Holding => at'[m] \in Occurrences
      BY <1>0, <2>1 DEF CronTypeOK, Holding, Beating
    <3>2. /\ recovering' \in [Nodes -> BOOLEAN] /\ faults' \in Nat
          /\ outcome' \in [Nodes -> {"none", "session", "error", "pausing"}]
      BY <1>0 DEF CronTypeOK, Fault
    <3> QED BY <1>0, <1>1, <2>1, <2>3, <3>1, <3>2 DEF CronTypeOK
  <2>5. Claims' BY <1>0, <2>1 DEF RunsInv, CronTypeOK, Claims
  <2>6. OneExecutor' BY <1>0, <2>1 DEF RunsInv, CronTypeOK, OneExecutor, Holding, Beating
  <2> QED BY <2>2, <2>4, <2>5, <2>6 DEF RunsInv
<1> QED BY <1>3, <1>4 DEF Failure

-----------------------------------------------------------------------------

LEMMA InitEstablishes == CronInit => RunsInv
BY SchedulerAssumption
   DEF CronInit, RunsInv, CronTypeOK, Claims, OneExecutor, LastSession, NoDoubleFire,
   RowStates, Holding, Beating

LEMMA NextPreserves == RunsInv /\ [CronNext]_cronVars => RunsInv'
<1> SUFFICES ASSUME RunsInv, [CronNext]_cronVars PROVE RunsInv'
  OBVIOUS
<1>1. CASE Advance \/ Owner BY <1>1, OwnerPreserves
<1>2. CASE \E t \in Occurrences : LeaseLapses(t) BY <1>2, LapsePreserves
<1>3. CASE \E n \in Nodes : Sweep(n) \/ Execution(n) \/ Failure(n)
  BY <1>3, SweepPreserves, ExecutionPreserves, FailurePreserves
<1>4. CASE UNCHANGED cronVars
  BY <1>4 DEF cronVars, RunsInv, CronTypeOK, Claims, OneExecutor, LastSession, NoDoubleFire,
     tickVars, runVars, seen
<1> QED BY <1>1, <1>2, <1>3, <1>4 DEF CronNext

LEMMA CronInductive == CronSpec => []RunsInv
BY InitEstablishes, NextPreserves, PTL DEF CronSpec

(* Every variable keeps its type, and a node in a run has an occurrence in  *)
(* hand.                                                                    *)
THEOREM CronTypeCorrect == CronSpec => []CronTypeOK
BY CronInductive, PTL DEF RunsInv

(* However many nodes tick, recover and fail, no occurrence is run by two   *)
(* live nodes at once.                                                      *)
THEOREM OccurrenceHasOneExecutor == CronSpec => []OneExecutor
BY CronInductive, PTL DEF RunsInv

(* Each occurrence gets one session and at most one more for each of its    *)
(* runs that failed between creating a session and recording it.            *)
THEOREM OccurrenceFiresOnce == CronSpec => []NoDoubleFire
BY CronInductive, PTL DEF RunsInv

-----------------------------------------------------------------------------
(* The cursor: what it passes without a row is in some tick's hands.        *)

Covered(t) == \E n \in Nodes : t \in due[n] \cup misses[n]

(* A tick lists its occurrences after its recovery scan, and all at once.   *)
ListedLate ==
  \A n \in Nodes :
    (pc[n] \in {"rest", "scan", "recover", "release"} \/ (pc[n] \in Beating /\ recovering[n]))
      => due[n] = {} /\ misses[n] = {}

(* An occurrence before one that a tick has in hand has its row or is in    *)
(* hand too: recording the later one moves the cursor past neither.         *)
BelowCovered ==
  \A n \in Nodes : \A u \in due[n] \cup misses[n] : \A t \in Occurrences :
    t < u /\ run[t] = "absent" => Covered(t)

MissInv == ListedLate /\ (faults = 0 => BelowCovered /\ NoMissForgotten)

LEMMA BeyondRows ==
  ASSUME NEW t \in Occurrences, run[t] = "absent", ~Beyond(t)
  PROVE  \E u \in Occurrences : run[u] # "absent" /\ t < u
<1>1. PICK u \in Occurrences : run[u] # "absent" /\ ~(u < t) BY DEF Beyond
<1>2. u # t BY <1>1
<1>3. u \in Int /\ t \in Int BY SchedulerAssumption
<1> QED BY <1>1, <1>2, <1>3

(* A step that neither records nor drops an occurrence. *)
LEMMA HandsKept ==
  ASSUME MissInv, ListedLate', faults' \in Nat, faults \in Nat, faults' >= faults,
         \A t \in Occurrences : run[t] = "absent" <=> run'[t] = "absent",
         UNCHANGED <<due, misses>>
  PROVE  MissInv'
<1> SUFFICES ASSUME faults = 0 PROVE BelowCovered' /\ NoMissForgotten' BY DEF MissInv
<1>1. BelowCovered' BY DEF MissInv, BelowCovered, Covered
<1>2. NoMissForgotten' BY DEF MissInv, NoMissForgotten, Beyond
<1> QED BY <1>1, <1>2

(* A fault voids the promise: only the order of the tick has to be kept. *)
LEMMA AfterFault == ASSUME ListedLate', faults' # 0 PROVE MissInv'
BY DEF MissInv

LEMMA SweepMisses == ASSUME CronTypeOK, MissInv, NEW n \in Nodes, Sweep(n) PROVE MissInv'
<1> USE DEF CronTypeOK
<1>1. CASE TickStart(n) \/ Scan(n) \/ \E t \in Occurrences : Recover(n, t)
  <2>1. UNCHANGED <<due, misses, faults>> BY <1>1 DEF TickStart, Scan, Recover
  <2>2. \A t \in Occurrences : run[t] = "absent" <=> run'[t] = "absent"
    BY <1>1 DEF TickStart, Scan, Recover, Take, Open
  <2>3. ListedLate'
    BY <1>1, <2>1 DEF TickStart, Scan, Recover, Take, MissInv, ListedLate, Beating, runVars
  <2> QED BY <2>1, <2>2, <2>3, HandsKept
<1>2. CASE ListActiveJobs(n)
  <2>1. due[n] = {} /\ misses[n] = {} BY <1>2 DEF ListActiveJobs, MissInv, ListedLate
  <2>2. UNCHANGED <<run, recovering, faults>> BY <1>2 DEF ListActiveJobs, runVars
  <2>3. CASE status # "active"
    <3>1. pc' = [pc EXCEPT ![n] = "rest"] /\ due' = due /\ misses' = misses
      <4>1. /\ pc' = [pc EXCEPT ![n] = "rest"]
            /\ due' = [due EXCEPT ![n] = {}] /\ misses' = [misses EXCEPT ![n] = {}]
        BY <1>2, <2>3 DEF ListActiveJobs, DropTick
      <4>2. due' = due BY <2>1, <4>1
      <4>3. misses' = misses BY <2>1, <4>1
      <4> QED BY <4>1, <4>2, <4>3
    <3>2. ListedLate' BY <2>1, <2>2, <3>1 DEF MissInv, ListedLate, Beating
    <3> QED BY <2>2, <3>1, <3>2, HandsKept
  <2>4. CASE status = "active"
    <3> DEFINE since == {t \in Occurrences : t <= now[n] /\ Beyond(t)}
    <3>1. /\ pc' = [pc EXCEPT ![n] = "fire"]
          /\ due' = [due EXCEPT ![n] = {t \in since : InWindow(n, t)}]
          /\ misses' = [misses EXCEPT ![n] = {t \in since : ~InWindow(n, t)}]
      BY <1>2, <2>4 DEF ListActiveJobs
    <3>2. due'[n] \cup misses'[n] = since
          /\ \A m \in Nodes : m # n => due'[m] = due[m] /\ misses'[m] = misses[m]
      BY <3>1
    <3>3. ListedLate' BY <2>2, <3>1, <3>2 DEF MissInv, ListedLate, Beating
    <3>4. \A t : Covered(t) => Covered(t)' BY <2>1, <3>2 DEF Covered
    <3>5. ASSUME faults = 0 PROVE NoMissForgotten'
      BY <2>2, <3>4, <3>5 DEF MissInv, NoMissForgotten, Beyond, Covered
    <3>6. ASSUME faults = 0, NEW u \in since, NEW t \in Occurrences, t < u, run[t] = "absent"
          PROVE  Covered(t)'
      <4>1. CASE Beyond(t)
        <5>1. t <= now[n]
          <6>1. t \in Int /\ u \in Int /\ now[n] \in Int /\ u <= now[n] BY SchedulerAssumption
          <6> QED BY <3>6, <6>1
        <5> QED BY <3>2, <4>1, <5>1 DEF Covered
      <4>2. CASE ~Beyond(t)
        <5>1. Covered(t) BY <3>6, <4>2 DEF MissInv, NoMissForgotten, Covered
        <5> QED BY <3>4, <5>1
      <4> QED BY <4>1, <4>2
    <3> HIDE DEF since
    <3>7. ASSUME faults = 0 PROVE BelowCovered'
      <4> SUFFICES ASSUME NEW m \in Nodes, NEW u \in due'[m] \cup misses'[m],
           NEW t \in Occurrences,
                          t < u, run'[t] = "absent"
                   PROVE  Covered(t)'
        BY DEF BelowCovered
      <4>1. CASE m = n BY <2>2, <3>2, <3>6, <3>7, <4>1
      <4>2. CASE m # n BY <2>2, <3>2, <3>4, <3>7, <4>2 DEF MissInv, BelowCovered
      <4> QED BY <4>1, <4>2
    <3> QED BY <2>2, <3>3, <3>5, <3>7 DEF MissInv
  <2> QED BY <2>3, <2>4
<1>3. ASSUME NEW v \in Occurrences, FireOccurrence(n, v) PROVE MissInv'
  <2>1. /\ v \in due[n] /\ due' = [due EXCEPT ![n] = @ \ {v}]
        /\ UNCHANGED <<misses, faults>>
        /\ \/ pc' = [pc EXCEPT ![n] = "run"] /\ recovering' = [recovering EXCEPT ![n] = FALSE]
           \/ UNCHANGED <<pc, recovering>>
    BY <1>3 DEF FireOccurrence, Take
  <2>2. run'[v] # "absent" /\ \A t \in Occurrences : t # v => run'[t] = run[t]
    BY <1>3 DEF FireOccurrence, Take
  <2>3. ListedLate' BY <1>3, <2>1 DEF FireOccurrence, MissInv, ListedLate, Beating
  <2>4. \A t : t # v /\ Covered(t) => Covered(t)' BY <2>1 DEF Covered
  <2>5. ASSUME faults = 0 PROVE BelowCovered'
    <3> SUFFICES ASSUME NEW m \in Nodes, NEW u \in due'[m] \cup misses'[m], NEW t \in Occurrences,
                        t < u, run'[t] = "absent"
                 PROVE  Covered(t)'
      BY DEF BelowCovered
    <3>1. t # v /\ run[t] = "absent" /\ u \in due[m] \cup misses[m] BY <2>1, <2>2
    <3>2. Covered(t) BY <2>5, <3>1 DEF MissInv, BelowCovered
    <3> QED BY <2>4, <3>1, <3>2
  <2>6. ASSUME faults = 0 PROVE NoMissForgotten'
    <3> SUFFICES ASSUME NEW t \in Occurrences, run'[t] = "absent", ~Beyond(t)' PROVE Covered(t)'
      BY DEF NoMissForgotten, Covered
    <3>1. t # v /\ run[t] = "absent" BY <2>2
    <3>2. Covered(t)
      <4>1. CASE ~Beyond(t) BY <2>6, <3>1, <4>1 DEF MissInv, NoMissForgotten, Covered
      <4>2. CASE Beyond(t)
        <5>1. PICK u \in Occurrences : run'[u] # "absent" /\ ~(u < t) BY DEF Beyond
        <5>2. u = v BY <2>2, <4>2, <5>1 DEF Beyond
        <5>3. t < v BY <3>1, <5>1, <5>2, SchedulerAssumption
        <5> QED BY <2>1, <2>6, <3>1, <5>3 DEF MissInv, BelowCovered
      <4> QED BY <4>1, <4>2
    <3> QED BY <2>4, <3>1, <3>2
  <2> QED BY <2>1, <2>3, <2>5, <2>6 DEF MissInv
<1>4. CASE RecordSkipped(n)
  <2>1. /\ due[n] = {} /\ due' = due /\ misses' = [misses EXCEPT ![n] = {}]
        /\ pc' = [pc EXCEPT ![n] = "rest"] /\ UNCHANGED <<recovering, faults>>
    BY <1>4 DEF RecordSkipped, DropTick, runVars
  <2>2. run' = [t \in Occurrences |->
                  IF t \in misses[n] /\ run[t] = "absent" THEN "unclaimed" ELSE run[t]]
    BY <1>4 DEF RecordSkipped
  <2>3. ListedLate' BY <2>1 DEF MissInv, ListedLate, Beating
  <2>4. \A t \in Occurrences : run'[t] = "absent" => run[t] = "absent" /\ t \notin misses[n]
    BY <2>2
  <2>5. \A t \in Occurrences : run'[t] = "absent" /\ Covered(t) => Covered(t)'
    BY <2>1, <2>4 DEF Covered
  <2>6. ASSUME faults = 0 PROVE BelowCovered'
    <3> SUFFICES ASSUME NEW m \in Nodes, NEW u \in due'[m] \cup misses'[m], NEW t \in Occurrences,
                        t < u, run'[t] = "absent"
                 PROVE  Covered(t)'
      BY DEF BelowCovered
    <3>1. run[t] = "absent" /\ u \in due[m] \cup misses[m] BY <2>1, <2>4
    <3> QED BY <2>5, <2>6, <3>1 DEF MissInv, BelowCovered
  <2>7. ASSUME faults = 0 PROVE NoMissForgotten'
    <3> SUFFICES ASSUME NEW t \in Occurrences, run'[t] = "absent", ~Beyond(t)' PROVE Covered(t)'
      BY DEF NoMissForgotten, Covered
    <3>1. run[t] = "absent" BY <2>4
    <3>2. Covered(t)
      <4>1. CASE ~Beyond(t) BY <2>7, <3>1, <4>1 DEF MissInv, NoMissForgotten, Covered
      <4>2. CASE Beyond(t)
        <5>1. PICK u \in Occurrences : run'[u] # "absent" /\ ~(u < t) BY DEF Beyond
        <5>2. run[u] = "absent" /\ u \in misses[n] BY <2>2, <4>2, <5>1 DEF Beyond
        <5>3. u # t BY <5>1
        <5>4. t < u BY <5>1, <5>3, SchedulerAssumption
        <5> QED BY <2>7, <3>1, <5>2, <5>4 DEF MissInv, BelowCovered
      <4> QED BY <4>1, <4>2
    <3> QED BY <2>5, <3>2
  <2> QED BY <2>1, <2>3, <2>6, <2>7 DEF MissInv
<1> QED BY <1>1, <1>2, <1>3, <1>4 DEF Sweep

LEMMA ExecutionMisses ==
  ASSUME RunsInv, MissInv, NEW n \in Nodes, Execution(n) PROVE MissInv'
<1>1. UNCHANGED <<due, misses, faults>>
  BY DEF Execution, TryExecute, RecordOutcome, AutoPause, Finish, Release, tickVars
<1>2. \A t \in Occurrences : run[t] = "absent" <=> run'[t] = "absent"
  <2>1. pc[n] \in {"record", "release"} => run[at[n]] # "absent" BY DEF RunsInv, Claims
  <2> QED
    BY <2>1
       DEF Execution, TryExecute, RecordOutcome, AutoPause, Finish, Release, RunsInv, CronTypeOK
<1>3. ListedLate'
  BY <1>1 DEF Execution, TryExecute, RecordOutcome, AutoPause, Finish, Release, Forget, MissInv,
     ListedLate, Beating, runVars, RunsInv, CronTypeOK
<1>4. faults \in Nat BY DEF RunsInv, CronTypeOK
<1> QED BY <1>1, <1>2, <1>3, <1>4, HandsKept

LEMMA FailureMisses ==
  ASSUME RunsInv, MissInv, NEW n \in Nodes, Failure(n) PROVE MissInv'
<1>1. faults' # 0 BY DEF Failure, RunFails, TickFails, Fault, RunsInv, CronTypeOK
<1>2. ListedLate'
  BY DEF Failure, RunFails, TickFails, DropTick, Forget, MissInv, ListedLate, Beating, tickVars,
     runVars, RunsInv, CronTypeOK
<1> QED BY <1>1, <1>2, AfterFault

LEMMA OtherMisses ==
  ASSUME RunsInv, MissInv,
         Advance \/ Owner \/ (\E t \in Occurrences : LeaseLapses(t)) \/ UNCHANGED cronVars
  PROVE  MissInv'
<1>1. UNCHANGED <<due, misses, pc, recovering, faults>>
  BY DEF Advance, Owner, Pause, Unpause, Archive, LeaseLapses, tickVars, runVars, cronVars
<1>2. \A t \in Occurrences : run[t] = "absent" <=> run'[t] = "absent"
  BY DEF Advance, Owner, Pause, Unpause, Archive, LeaseLapses, cronVars, RunsInv, CronTypeOK
<1>3. ListedLate' BY <1>1 DEF MissInv, ListedLate
<1>4. faults \in Nat BY DEF RunsInv, CronTypeOK
<1> QED BY <1>1, <1>2, <1>3, <1>4, HandsKept

(* As long as nothing fails, an occurrence the cursor has passed has its row or is in some   *)
(* tick's hands, however many nodes tick, recover and record, and the owner pauses.          *)
THEOREM MissesAreKept == CronSpec => []NoMissForgotten
<1>1. CronInit => MissInv
  BY DEF CronInit, MissInv, ListedLate, BelowCovered, NoMissForgotten, Beyond
<1>2. RunsInv /\ MissInv /\ [CronNext]_cronVars => MissInv'
  <2> SUFFICES ASSUME RunsInv, MissInv, [CronNext]_cronVars PROVE MissInv' OBVIOUS
  <2>1. CronTypeOK BY DEF RunsInv
  <2> QED BY <2>1, SweepMisses, ExecutionMisses, FailureMisses, OtherMisses DEF CronNext
<1>3. RunsInv /\ MissInv => NoMissForgotten
  <2> SUFFICES ASSUME RunsInv, MissInv PROVE NoMissForgotten OBVIOUS
  <2>1. CASE faults = 0 BY <2>1 DEF MissInv
  <2>2. CASE faults # 0 BY <2>2 DEF NoMissForgotten
  <2> QED BY <2>1, <2>2
<1> QED BY <1>1, <1>2, <1>3, CronInductive, PTL DEF CronSpec

-----------------------------------------------------------------------------
(* The pool of session workers.                                             *)


Asked     == {"wake", "sendEvent", "call"}
Ops       == Asked \cup {"dispose"}
Downward  == [op : Ops, s : Sessions, id : Rpcs \cup {None}]
Upward    == [t : {"event", "reply"}, s : Sessions, id : Rpcs \cup {None}, ok : BOOLEAN,
              status : {"idle", "running"}]
Runtime   == [phase : {"none", "waking", "awake"}, rpc : Rpcs \cup {None},
              sm : {"idle", "running"}, unsent : BOOLEAN, missed : BOOLEAN]
Turn      == [s : Sessions \cup {None}, phase : {"none", "accepted", "driving", "storing"},
              kept : BOOLEAN]

ParentTypes ==
  /\ registry \in [Sessions -> {"none", "waking", "held"}]
  /\ waiting \in [Sessions -> SUBSET {"sendEvent", "call"}]
  /\ proxy \in [Sessions -> {"none", "idle", "running"}]
  /\ pending \in [Rpcs -> {None} \cup (Asked \X Sessions)]
  /\ timer \in BOOLEAN
PipeTypes == toChild \in Seq(Downward) /\ toParent \in Seq(Upward)
ChildTypes ==
  /\ row \in [Sessions -> {"idle", "running"}]
  /\ worker \in {"ready", "dead", "down", "booting"}
  /\ child \in [Sessions -> Runtime] /\ turn \in [Rpcs -> Turn]
  /\ deaths \in 0..MaxDeaths

TypeOK == ParentTypes /\ PipeTypes /\ ChildTypes

(* What the parent holds about a session: a proxy as long as it is held, a  *)
(* wake in flight only while it wakes.                                      *)
Proxies ==
  /\ \A s \in Sessions : /\ registry[s] = "held" => proxy[s] # "none"
                         /\ registry[s] = "none" => proxy[s] = "none"
  /\ \A i \in Rpcs, s \in Sessions : pending[i] = <<"wake", s>> =>
       /\ registry[s] = "waking" /\ proxy[s] # "none"
       /\ \A j \in Rpcs : pending[j] = <<"wake", s>> => j = i

(* A request id stands for one thing at a time: a request on its way down,  *)
(* the wake or the turn that serves it, or the reply on its way up.         *)
DownUse ==
  \A k \in DOMAIN toChild : LET m == toChild[k] IN
    IF m.id = None THEN m.op = "dispose"
    ELSE /\ pending[m.id] = <<m.op, m.s>> /\ turn[m.id] = NoTurn
         /\ \A l \in DOMAIN toChild : toChild[l].id = m.id => l = k
         /\ \A s \in Sessions : child[s].rpc # m.id
         /\ \A l \in DOMAIN toParent : toParent[l].id # m.id
WakeUse ==
  \A s \in Sessions : child[s].rpc # None =>
    /\ child[s].phase = "waking"
    /\ pending[child[s].rpc] = <<"wake", s>> /\ turn[child[s].rpc] = NoTurn
    /\ \A l \in DOMAIN toParent : toParent[l].id # child[s].rpc
TurnUse ==
  \A i \in Rpcs : turn[i] # NoTurn =>
    /\ turn[i].s \in Sessions /\ turn[i].phase # "none"
    /\ pending[i] = <<"sendEvent", turn[i].s>>
    /\ \A l \in DOMAIN toParent : toParent[l].id # i
UpUse ==
  \A k \in DOMAIN toParent : LET m == toParent[k] IN
    IF m.t = "event" THEN m.id = None
    ELSE /\ m.id # None /\ \E op \in Asked : pending[m.id] = <<op, m.s>>
         /\ \A l \in DOMAIN toParent : toParent[l].id = m.id => l = k
OneUse == DownUse /\ WakeUse /\ TurnUse /\ UpUse

(* What is on its way down about a session, in its order: requests while it *)
(* was held, the dispose that let it go, the next wake.                     *)
Sent(s)        == {k \in DOMAIN toChild : toChild[k].s = s}
Disposing(s)   == \E k \in Sent(s) : toChild[k].op = "dispose"
WakeAnswer(m, s) == m.t = "reply" /\ m.s = s /\ pending[m.id] = <<"wake", s>>

Ordered(s) ==
  /\ \A k, l \in Sent(s) : k < l =>
       /\ toChild[k].op # "wake"
       /\ toChild[k].op = "dispose" => toChild[l].op = "wake"
  /\ registry[s] = "held" => \A k \in Sent(s) : toChild[k].op \in {"sendEvent", "call"}
  /\ proxy[s] = "none" /\ Sent(s) # {} => Disposing(s)
  /\ \A k \in DOMAIN toParent : WakeAnswer(toParent[k], s) => Sent(s) = {}
  /\ child[s].phase = "waking" => Sent(s) = {}

(* What the child has, given what it has not read yet.                      *)
Served(s) ==
  /\ child[s].phase = "none" => child[s] = NoRuntime
  /\ child[s].phase = "waking" => child[s].rpc # None /\ child[s].sm = "idle" /\ ~child[s].unsent
  /\ \A i \in Rpcs : turn[i].s = s /\ turn[i].kept => child[s].phase = "awake"
  /\ worker = "ready" =>
       /\ Disposing(s) \/ registry[s] = "held" => child[s].phase = "awake"
       /\ proxy[s] = "none" /\ Sent(s) = {} => child[s].phase = "none"
       /\ \A k \in DOMAIN toParent : WakeAnswer(toParent[k], s) =>
            child[s].phase = IF toParent[k].ok THEN "awake" ELSE "none"

(* Without a child nothing is left of the last one, once the parent knows.  *)
Gone ==
  /\ worker # "ready" => child = [s \in Sessions |-> NoRuntime] /\ turn = [i \in Rpcs |-> NoTurn]
  /\ worker \in {"down", "booting"} =>
       /\ toChild = <<>> /\ toParent = <<>>
       /\ \A s \in Sessions : proxy[s] = "none"
       /\ \A i \in Rpcs : pending[i] = None

(* The status the proxy will end up with is the runtime's, unless an event  *)
(* that says so is still to be sent, or was dropped.                        *)
Reports(m, s) == m.s = s /\ (m.t = "event" \/ WakeAnswer(m, s))
LastSaid(s, st) ==
  \/ \E k \in DOMAIN toParent :
       /\ Reports(toParent[k], s) /\ toParent[k].status = st
       /\ \A l \in DOMAIN toParent : Reports(toParent[l], s) => l <= k
  \/ /\ \A k \in DOMAIN toParent : ~Reports(toParent[k], s)
     /\ proxy[s] = st
Told(s) ==
  worker = "ready" /\ child[s].phase = "awake"
    /\ (\A k \in Sent(s) : toChild[k].op \in {"sendEvent", "call"})
      => child[s].unsent \/ child[s].missed \/ LastSaid(s, child[s].sm)

Agreed(s) == Ordered(s) /\ Served(s) /\ Told(s)

IInv == TypeOK /\ Proxies /\ OneUse /\ Gone /\ \A s \in Sessions : Agreed(s)

-----------------------------------------------------------------------------
(* Facts about sequences and about the operators of the model.              *)

(* The head of a pipe, and what is left without it. *)
LEMMA PipeHead ==
  ASSUME NEW S, NEW s \in Seq(S), s # <<>>
  PROVE  /\ Head(s) = s[1] /\ Head(s) \in S /\ 1 \in DOMAIN s
         /\ Tail(s) \in Seq(S)
         /\ \A k \in DOMAIN Tail(s) : k + 1 \in DOMAIN s /\ Tail(s)[k] = s[k + 1]
         /\ \A k \in DOMAIN s : k # 1 => k - 1 \in DOMAIN Tail(s) /\ Tail(s)[k - 1] = s[k]
         /\ DOMAIN s \subseteq Nat /\ DOMAIN Tail(s) \subseteq Nat \ {0}
         /\ \A k \in DOMAIN s : k >= 1
OBVIOUS

LEMMA Appended ==
  ASSUME NEW S, NEW s \in Seq(S), NEW x \in S
  PROVE  /\ Append(s, x) \in Seq(S)
         /\ Len(s) \in Nat /\ DOMAIN s = 1..Len(s)
         /\ DOMAIN Append(s, x) = DOMAIN s \cup {Len(s) + 1}
         /\ \A k \in DOMAIN s : Append(s, x)[k] = s[k]
         /\ Append(s, x)[Len(s) + 1] = x
         /\ \A k \in DOMAIN s : k < Len(s) + 1
OBVIOUS

(* An id that is free stands for nothing, wherever one looks. *)
LEMMA FreeId ==
  ASSUME TypeOK, NEW i \in Free
  PROVE  /\ i \in Rpcs /\ i # None /\ pending[i] = None /\ turn[i] = NoTurn
         /\ \A k \in DOMAIN toChild : toChild[k].id # i
         /\ \A k \in DOMAIN toParent : toParent[k].id # i
         /\ \A s \in Sessions : child[s].rpc # i
BY WorkersAssumption DEF Free, InPipe

LEMMA Elements ==
  ASSUME TypeOK
  PROVE  /\ \A k \in DOMAIN toChild : toChild[k] \in Downward
         /\ \A k \in DOMAIN toParent : toParent[k] \in Upward
         /\ DOMAIN toChild = 1..Len(toChild) /\ Len(toChild) \in Nat
         /\ DOMAIN toParent = 1..Len(toParent) /\ Len(toParent) \in Nat
BY DEF TypeOK, PipeTypes

LEMMA InitHolds == ASSUME Init PROVE IInv
<1> USE WorkersAssumption DEF Init
<1>1. TypeOK
  <2>1. ParentTypes BY DEF ParentTypes, Asked
  <2>2. PipeTypes BY DEF PipeTypes
  <2>3. ChildTypes BY DEF ChildTypes, Runtime, Turn, NoRuntime, NoTurn
  <2> QED BY <2>1, <2>2, <2>3 DEF TypeOK
<1>2. DOMAIN toChild = {} /\ DOMAIN toParent = {} OBVIOUS
<1>3. Proxies BY DEF Proxies, Asked
<1>4. OneUse BY <1>2 DEF OneUse, DownUse, WakeUse, TurnUse, UpUse, NoRuntime, NoTurn
<1>5. Gone BY DEF Gone
<1>6. ASSUME NEW s \in Sessions PROVE Agreed(s)
  <2>1. Ordered(s) BY <1>2 DEF Ordered, Sent, NoRuntime, Disposing
  <2>2. Served(s) BY <1>2 DEF Served, Sent, Disposing, NoRuntime, NoTurn
  <2>3. Told(s) BY <1>2 DEF Told, NoRuntime
  <2> QED BY <2>1, <2>2, <2>3 DEF Agreed
<1> QED BY <1>1, <1>3, <1>4, <1>5, <1>6 DEF IInv

-----------------------------------------------------------------------------
(* Types.                                                                   *)

LEMMA ElementsNext ==
  ASSUME TypeOK'
  PROVE  /\ \A k \in DOMAIN toChild' : toChild'[k] \in Downward
         /\ \A k \in DOMAIN toParent' : toParent'[k] \in Upward
         /\ DOMAIN toChild' = 1..Len(toChild') /\ Len(toChild') \in Nat
         /\ DOMAIN toParent' = 1..Len(toParent') /\ Len(toParent') \in Nat
BY DEF TypeOK, PipeTypes

LEMMA RequestTypes ==
  ASSUME TypeOK, NEW s \in Sessions, NEW op \in {"sendEvent", "call"}, Request(s, op)
  PROVE  TypeOK'
<1> USE DEF TypeOK, ParentTypes, PipeTypes, ChildTypes
<1>1. CASE registry[s] = "held"
  <2>1. PICK i \in Free : /\ pending' = [pending EXCEPT ![i] = <<op, s>>]
                          /\ toChild' = Append(toChild, [op |-> op, s |-> s, id |-> i])
    BY <1>1 DEF Request, Send
  <2>2. [op |-> op, s |-> s, id |-> i] \in Downward BY DEF Downward, Ops, Asked, Free
  <2>3. toChild' \in Seq(Downward) BY <2>1, <2>2
  <2>4. pending' \in [Rpcs -> {None} \cup (Asked \X Sessions)]
    <3>1. <<op, s>> \in Asked \X Sessions BY DEF Asked
    <3> QED BY <2>1, <3>1
  <2> QED BY <1>1, <2>3, <2>4 DEF Request, inside
<1>2. CASE registry[s] = "waking"
  <2>1. waiting' = [waiting EXCEPT ![s] = @ \cup {op}] BY <1>2 DEF Request
  <2>2. waiting' \in [Sessions -> SUBSET {"sendEvent", "call"}] BY <2>1
  <2>3. UNCHANGED <<registry, timer, worker, pending, toChild, row, proxy, toParent>>
        /\ UNCHANGED inside /\ UNCHANGED deaths
    BY <1>2 DEF Request
  <2> QED BY <2>2, <2>3 DEF inside
<1>3. CASE registry[s] = "none"
  <2>1. /\ registry' = [registry EXCEPT ![s] = "waking"] /\ waiting' = [waiting EXCEPT ![s] = {op}]
        /\ worker' \in {worker, "booting"}
    BY <1>3 DEF Request
  <2>2. /\ registry' \in [Sessions -> {"none", "waking", "held"}]
        /\ waiting' \in [Sessions -> SUBSET {"sendEvent", "call"}]
    BY <2>1
  <2>3. UNCHANGED <<timer, pending, toChild, row, proxy, toParent>>
        /\ UNCHANGED inside /\ UNCHANGED deaths
    BY <1>3 DEF Request
  <2> QED BY <2>1, <2>2, <2>3 DEF inside
<1> QED BY <1>1, <1>2, <1>3

LEMMA PoolWakesTypes ==
  ASSUME TypeOK, NEW s \in Sessions, PoolWakes(s)
  PROVE  TypeOK'
<1> USE DEF TypeOK, ParentTypes, PipeTypes, ChildTypes
<1>1. CASE Send("wake", s)
  <2>1. PICK i \in Free : /\ pending' = [pending EXCEPT ![i] = <<"wake", s>>]
                          /\ toChild' = Append(toChild, [op |-> "wake", s |-> s, id |-> i])
    BY <1>1 DEF Send
  <2>2. [op |-> "wake", s |-> s, id |-> i] \in Downward BY DEF Downward, Ops, Asked, Free
  <2>3. /\ registry' \in [Sessions -> {"none", "waking", "held"}]
        /\ waiting' \in [Sessions -> SUBSET {"sendEvent", "call"}]
        /\ proxy' \in [Sessions -> {"none", "idle", "running"}]
    BY DEF PoolWakes, WakeRejects
  <2>4. toChild' \in Seq(Downward) BY <2>1, <2>2
  <2>5. pending' \in [Rpcs -> {None} \cup (Asked \X Sessions)]
    <3>1. <<"wake", s>> \in Asked \X Sessions BY DEF Asked
    <3> QED BY <2>1, <3>1
  <2> QED BY <2>3, <2>4, <2>5 DEF PoolWakes, inside
<1>2. CASE WakeRejects(s) /\ UNCHANGED <<proxy, pending, toChild>>
  BY <1>2 DEF PoolWakes, WakeRejects, inside
<1> QED BY <1>1, <1>2 DEF PoolWakes

LEMMA EvictTypes == ASSUME TypeOK, NEW s \in Sessions, Evict(s) PROVE TypeOK'
<1> USE DEF TypeOK, ParentTypes, PipeTypes, ChildTypes
<1>1. [op |-> "dispose", s |-> s, id |-> None] \in Downward BY DEF Downward, Ops, Asked
<1> QED BY <1>1 DEF Evict, Dispose, inside

(* What a wake that resolves does to the requests: its own id is released,  *)
(* and those that waited for it go down the pipe under ids that were free.  *)
SendsWaiting(s, i) ==
  /\ pending'[i] = None
  /\ DOMAIN toChild \subseteq DOMAIN toChild'
  /\ \A k \in DOMAIN toChild : toChild'[k] = toChild[k]
  /\ \A k \in DOMAIN toChild' : k \notin DOMAIN toChild => LET m == toChild'[k] IN
       /\ m.s = s /\ m.op \in {"sendEvent", "call"} /\ m.id \in Free
       /\ pending'[m.id] = <<m.op, s>>
       /\ \A l \in DOMAIN toChild' : toChild'[l].id = m.id => l = k
  /\ \A j \in Rpcs : \/ j # i /\ pending'[j] = pending[j]
                     \/ j = i
                     \/ j \in Free /\ pending'[j] \in {<<"sendEvent", s>>, <<"call", s>>}

(* The messages that a resolved wake releases, and what they stand for. *)
LEMMA Released ==
  ASSUME TypeOK, NEW s \in Sessions, NEW i \in Rpcs, NEW st, pending[i] # None,
         WakeResolves(s, i, st)
  PROVE  /\ toChild' \in Seq(Downward)
         /\ pending' \in [Rpcs -> {None} \cup (Asked \X Sessions)]
         /\ SendsWaiting(s, i)
<1> SUFFICES /\ toChild' \in Seq(Downward)
             /\ pending' \in [Rpcs -> {None} \cup (Asked \X Sessions)]
             /\ pending'[i] = None
             /\ DOMAIN toChild \subseteq DOMAIN toChild'
             /\ \A k \in DOMAIN toChild : toChild'[k] = toChild[k]
             /\ \A k \in DOMAIN toChild' : k \notin DOMAIN toChild => LET m == toChild'[k] IN
                  /\ m.s = s /\ m.op \in {"sendEvent", "call"} /\ m.id \in Free
                  /\ pending'[m.id] = <<m.op, s>>
                  /\ \A l \in DOMAIN toChild' : toChild'[l].id = m.id => l = k
             /\ \A j \in Rpcs : \/ j # i /\ pending'[j] = pending[j]
                                \/ j = i
                                \/ j \in Free /\ pending'[j] \in {<<"sendEvent", s>>, <<"call", s>>}
  BY DEF SendsWaiting
<1> DEFINE A == IF "sendEvent" \in waiting[s] THEN {"sendEvent"} ELSE {}
           first(j)  == [op |-> "sendEvent", s |-> s, id |-> j]
           second(j) == [op |-> "call", s |-> s, id |-> j]
<1>1. waiting[s] \subseteq {"sendEvent", "call"} BY DEF TypeOK, ParentTypes
<1>2. PICK f \in [waiting[s] -> Free] :
        /\ \A a, b \in waiting[s] : f[a] = f[b] => a = b
        /\ pending' = [j \in Rpcs |->
                         IF j = i THEN None
                         ELSE IF \E op \in waiting[s] : f[op] = j
                         THEN <<CHOOSE op \in waiting[s] : f[op] = j, s>>
                         ELSE pending[j]]
        /\ toChild' = toChild \o
             (IF "sendEvent" \in waiting[s] THEN <<first(f["sendEvent"])>> ELSE <<>>) \o
             (IF "call" \in waiting[s] THEN <<second(f["call"])>> ELSE <<>>)
  BY DEF WakeResolves
<1>3. /\ i \notin Free /\ Free \subseteq Rpcs
      /\ \A j \in Free : \A k \in DOMAIN toChild : toChild[k].id # j
  BY FreeId DEF Free
<1>4. \A op \in waiting[s] : pending'[f[op]] = <<op, s>>
  <2> TAKE op \in waiting[s]
  <2>1. f[op] \in Rpcs /\ f[op] # i BY <1>2, <1>3
  <2>2. (CHOOSE o \in waiting[s] : f[o] = f[op]) = op BY <1>2
  <2> QED BY <1>2, <2>1, <2>2
<1>5. \A j \in Rpcs : \/ j = i
                      \/ \E op \in waiting[s] : f[op] = j
                      \/ j # i /\ pending'[j] = pending[j]
  BY <1>2
<1>6. pending' \in [Rpcs -> {None} \cup (Asked \X Sessions)]
  <2>1. \A j \in Rpcs : pending'[j] \in {None} \cup (Asked \X Sessions)
    <3> TAKE j \in Rpcs
    <3>1. CASE \E op \in waiting[s] : f[op] = j
      <4>1. PICK op \in waiting[s] : f[op] = j BY <3>1
      <4>2. pending'[j] = <<op, s>> /\ op \in Asked BY <1>1, <1>4, <4>1 DEF Asked
      <4> QED BY <4>2
    <3>2. CASE j = i BY <1>2, <3>2
    <3>3. CASE pending'[j] = pending[j] BY <3>3 DEF TypeOK, ParentTypes
    <3> QED BY <1>5, <3>1, <3>2, <3>3
  <2> QED BY <1>2, <2>1
<1>7. pending'[i] = None BY <1>2
<1>8. \A j \in Rpcs : \/ j # i /\ pending'[j] = pending[j]
                      \/ j = i
                      \/ j \in Free /\ pending'[j] \in {<<"sendEvent", s>>, <<"call", s>>}
  <2> TAKE j \in Rpcs
  <2>1. CASE \E op \in waiting[s] : f[op] = j
    BY <1>1, <1>2, <1>4, <2>1
  <2> QED BY <1>5, <2>1
<1>9. \A j \in Rpcs : first(j) \in Downward /\ second(j) \in Downward BY DEF Downward, Ops, Asked
<1>10. toChild \in Seq(Downward) BY DEF TypeOK, PipeTypes
<1>11. \A op \in waiting[s] : f[op] \in Free /\ f[op] \in Rpcs BY <1>2, <1>3
<1>12. CASE "sendEvent" \notin waiting[s] /\ "call" \notin waiting[s]
  <2>1. toChild' = toChild BY <1>2, <1>10, <1>12
  <2> QED BY <1>6, <1>7, <1>8, <1>10, <2>1
<1>13. CASE "sendEvent" \in waiting[s] /\ "call" \notin waiting[s]
  <2>1. toChild' = Append(toChild, first(f["sendEvent"])) BY <1>2, <1>10, <1>13
  <2>2. first(f["sendEvent"]) \in Downward BY <1>9, <1>11, <1>13
  <2>3. pending'[f["sendEvent"]] = <<"sendEvent", s>> BY <1>4, <1>13
  <2> DEFINE x == first(f["sendEvent"])
  <2>4. x.s = s /\ x.op = "sendEvent" /\ x.id = f["sendEvent"] OBVIOUS
  <2>5. x.id \in Free BY <2>4, <1>11, <1>13
  <2> HIDE DEF x
  <2> QED BY <1>6, <1>7, <1>8, <1>10, <2>1, <2>2, <2>3, <2>4, <2>5, <1>3, Appended DEF x
<1>14. CASE "sendEvent" \notin waiting[s] /\ "call" \in waiting[s]
  <2>1. toChild' = Append(toChild, second(f["call"])) BY <1>2, <1>10, <1>14
  <2>2. second(f["call"]) \in Downward BY <1>9, <1>11, <1>14
  <2>3. pending'[f["call"]] = <<"call", s>> BY <1>4, <1>14
  <2> DEFINE x == second(f["call"])
  <2>4. x.s = s /\ x.op = "call" /\ x.id = f["call"] OBVIOUS
  <2>5. x.id \in Free BY <2>4, <1>11, <1>14
  <2> HIDE DEF x
  <2> QED BY <1>6, <1>7, <1>8, <1>10, <2>1, <2>2, <2>3, <2>4, <2>5, <1>3, Appended DEF x
<1>15. CASE "sendEvent" \in waiting[s] /\ "call" \in waiting[s]
  <2> DEFINE x == first(f["sendEvent"])
             y == second(f["call"])
  <2>1. toChild' = Append(Append(toChild, x), y) BY <1>2, <1>10, <1>15
  <2>2. x \in Downward /\ y \in Downward BY <1>9, <1>11, <1>15
  <2>3. x.s = s /\ x.op = "sendEvent" /\ x.id = f["sendEvent"] OBVIOUS
  <2>4. y.s = s /\ y.op = "call" /\ y.id = f["call"] OBVIOUS
  <2>5. pending'[x.id] = <<x.op, s>> /\ pending'[y.id] = <<y.op, s>> BY <1>4, <1>15, <2>3, <2>4
  <2>6. x.id \in Free /\ y.id \in Free /\ x.id # y.id BY <1>2, <1>11, <1>15, <2>3, <2>4
  <2> HIDE DEF x, y
  <2>7. /\ Append(toChild, x) \in Seq(Downward)
        /\ DOMAIN Append(toChild, x) = DOMAIN toChild \cup {Len(toChild) + 1}
        /\ \A k \in DOMAIN toChild : Append(toChild, x)[k] = toChild[k]
        /\ Append(toChild, x)[Len(toChild) + 1] = x
        /\ Len(toChild) + 1 \notin DOMAIN toChild
    BY <1>10, <2>2, Appended
  <2> DEFINE m == Len(Append(toChild, x)) + 1
  <2>8. /\ toChild' \in Seq(Downward)
        /\ DOMAIN toChild' = DOMAIN Append(toChild, x) \cup {m}
        /\ \A k \in DOMAIN Append(toChild, x) : toChild'[k] = Append(toChild, x)[k]
        /\ toChild'[m] = y
    BY <2>1, <2>2, <2>7, Appended
  <2>9. \A k \in DOMAIN toChild' :
          \/ k \in DOMAIN toChild /\ toChild'[k] = toChild[k]
          \/ k = Len(toChild) + 1 /\ toChild'[k] = x
          \/ k = m /\ toChild'[k] = y
    BY <2>7, <2>8
  <2> HIDE DEF m
  <2>10. \A k \in DOMAIN toChild' : k \notin DOMAIN toChild =>
           LET n == toChild'[k] IN
              /\ n.s = s /\ n.op \in {"sendEvent", "call"} /\ n.id \in Free
              /\ pending'[n.id] = <<n.op, s>>
              /\ \A l \in DOMAIN toChild' : toChild'[l].id = n.id => l = k
    BY <2>3, <2>4, <2>5, <2>6, <2>9, <1>3
  <2> QED BY <1>6, <1>7, <1>8, <2>7, <2>8, <2>10
<1> QED BY <1>12, <1>13, <1>14, <1>15

LEMMA ParentReadsTypes == ASSUME TypeOK, OneUse, ParentReads PROVE TypeOK'
<1> DEFINE m == Head(toParent)
<1>1. toParent \in Seq(Upward) /\ toParent # <<>> BY DEF TypeOK, PipeTypes, ParentReads
<1>2. m \in Upward /\ m = toParent[1] /\ 1 \in DOMAIN toParent /\ Tail(toParent) \in Seq(Upward)
  BY <1>1, PipeHead
<1>3. m.s \in Sessions /\ m.status \in {"idle", "running"} /\ m.id \in Rpcs \cup {None}
      /\ m.t \in {"event", "reply"} /\ m.ok \in BOOLEAN
  BY <1>2 DEF Upward
<1>4. m.t # "event" => m.id \in Rpcs /\ pending[m.id] # None
  <2>1. \A k \in DOMAIN toParent : toParent[k].t # "event" =>
          toParent[k].id # None /\ \E op \in Asked : pending[toParent[k].id] = <<op,
               toParent[k].s>>
    BY DEF OneUse, UpUse
  <2> HIDE DEF m
  <2>2. m.t # "event" => m.id # None /\ \E op \in Asked : pending[m.id] = <<op, m.s>>
    BY <1>2, <2>1
  <2> QED BY <1>3, <2>2, WorkersAssumption DEF Asked
<1>5. ChildTypes' /\ timer' \in BOOLEAN /\ toParent' \in Seq(Upward)
  BY <1>2 DEF ParentReads, TypeOK, ParentTypes, ChildTypes, inside
<1> USE DEF TypeOK, ParentTypes, PipeTypes
<1>6. CASE m.t = "event" BY <1>3, <1>5, <1>6 DEF ParentReads
<1>7. CASE m.t # "event" /\ pending[m.id] = <<"wake", m.s>> /\ m.ok
  <2>1. WakeResolves(m.s, m.id, m.status) BY <1>7 DEF ParentReads
  <2>2. toChild' \in Seq(Downward)
        /\ pending' \in [Rpcs -> {None} \cup (Asked \X Sessions)]
    <3> HIDE DEF m
    <3> QED BY <1>3, <1>4, <1>7, <2>1, Released
  <2> QED BY <1>3, <1>5, <2>1, <2>2 DEF WakeResolves
<1>8. CASE m.t # "event" /\ pending[m.id] = <<"wake", m.s>> /\ ~m.ok
  BY <1>3, <1>5, <1>8 DEF ParentReads, WakeRejects
<1>9. CASE m.t # "event" /\ pending[m.id] # <<"wake", m.s>>
  BY <1>3, <1>5, <1>9 DEF ParentReads
<1> QED BY <1>6, <1>7, <1>8, <1>9

LEMMA ChildReadsTypes == ASSUME TypeOK, OneUse, ChildReads PROVE TypeOK'
<1> DEFINE m == Head(toChild)
<1>1. toChild \in Seq(Downward) /\ toChild # <<>> BY DEF TypeOK, PipeTypes, ChildReads
<1>2. m \in Downward /\ m = toChild[1] /\ 1 \in DOMAIN toChild /\ Tail(toChild) \in Seq(Downward)
  BY <1>1, PipeHead
<1>3. m.s \in Sessions /\ m.op \in Ops /\ m.id \in Rpcs \cup {None} BY <1>2 DEF Downward
<1>4. ParentTypes' /\ toChild' \in Seq(Downward) /\ row' = row /\ worker' = worker /\ deaths' = deaths
  BY <1>2 DEF ChildReads, TypeOK, ParentTypes, parent
<1>5. child[m.s] \in Runtime /\ child[m.s].sm \in {"idle", "running"}
  BY <1>3 DEF TypeOK, ChildTypes, Runtime
<1>6. /\ Append(toParent, Reply(m.s, m.id, child[m.s].sm)) \in Seq(Upward)
      /\ Append(toParent, Refusal(m.s, m.id)) \in Seq(Upward)
  <2>1. Reply(m.s, m.id, child[m.s].sm) \in Upward /\ Refusal(m.s, m.id) \in Upward
    BY <1>3, <1>5 DEF Reply, Refusal, Upward
  <2> QED BY <2>1 DEF TypeOK, PipeTypes
<1>7. CASE m.op = "wake" /\ child[m.s].phase = "none"
  <2>1. [NoRuntime EXCEPT !.phase = "waking", !.rpc = m.id] \in Runtime
    BY <1>3 DEF NoRuntime, Runtime
  <2> QED BY <1>3, <1>4, <1>7, <2>1 DEF ChildReads, TypeOK, PipeTypes, ChildTypes
<1>8. CASE m.op = "wake" /\ child[m.s].phase # "none"
  BY <1>3, <1>4, <1>6, <1>8 DEF ChildReads, Answer, TypeOK, PipeTypes, ChildTypes, inside
<1>9. CASE m.op = "dispose"
  <2>1. NoRuntime \in Runtime BY DEF NoRuntime, Runtime
  <2>2. \A i \in Rpcs : [turn[i] EXCEPT !.kept = @ /\ turn[i].s # m.s] \in Turn
    BY DEF TypeOK, ChildTypes, Turn
  <2>3. /\ child' = [child EXCEPT ![m.s] = NoRuntime] /\ toParent' = toParent
        /\ turn' = [i \in Rpcs |-> [turn[i] EXCEPT !.kept = @ /\ turn[i].s # m.s]]
    BY <1>9 DEF ChildReads
  <2> HIDE DEF m
  <2> QED BY <1>4, <2>1, <2>2, <2>3 DEF TypeOK, PipeTypes, ChildTypes
<1>10. CASE m.op \in {"sendEvent", "call"} /\ child[m.s].phase = "none"
  BY <1>3, <1>4, <1>6, <1>10 DEF ChildReads, Answer, TypeOK, PipeTypes, ChildTypes, inside
<1>11. CASE m.op = "sendEvent" /\ child[m.s].phase # "none"
  <2>1. [s |-> m.s, phase |-> "accepted", kept |-> TRUE] \in Turn BY <1>3 DEF Turn
  <2> QED BY <1>3, <1>4, <1>11, <2>1 DEF ChildReads, TypeOK, PipeTypes, ChildTypes
<1>12. CASE m.op = "call" /\ child[m.s].phase # "none"
  BY <1>3, <1>4, <1>6, <1>12 DEF ChildReads, Answer, TypeOK, PipeTypes, ChildTypes, inside
<1> QED BY <1>3, <1>7, <1>8, <1>9, <1>10, <1>11, <1>12 DEF Ops, Asked

LEMMA RuntimeTypes ==
  ASSUME TypeOK, OneUse, NEW s \in Sessions, ChildStep(s)
  PROVE  TypeOK'
<1> USE DEF Runtime
<1>1. child[s] \in Runtime BY DEF TypeOK, ChildTypes
<1>2. /\ [child[s] EXCEPT !.phase = "awake", !.rpc = None] \in Runtime /\ NoRuntime \in Runtime
      /\ \A m \in BOOLEAN : [child[s] EXCEPT !.unsent = FALSE, !.missed = m] \in Runtime
  BY <1>1 DEF NoRuntime
<1>3. /\ Reply(s, child[s].rpc, "idle") \in Upward /\ Refusal(s, child[s].rpc) \in Upward
      /\ Event(s, child[s].sm) \in Upward
  BY <1>1 DEF Reply, Refusal, Event, Upward
<1>4. ParentTypes' /\ toChild' = toChild /\ turn' = turn /\ worker' = worker /\ deaths' = deaths
  BY DEF ChildStep, ChildWakes, ChildWakeFails, ForwardEvent, DropEvent, TypeOK, ParentTypes,
         parent, pipe
<1>5. toParent' \in Seq(Upward)
  <2>1. CASE DropEvent(s) BY <2>1 DEF DropEvent, pipe, TypeOK, PipeTypes
  <2>2. CASE ~DropEvent(s)
    <3>1. PICK x \in Upward : toParent' = Append(toParent, x)
      BY <1>3, <2>2 DEF ChildStep, ChildWakes, ChildWakeFails, ForwardEvent, Answer
    <3> QED BY <3>1 DEF TypeOK, PipeTypes
  <2> QED BY <2>1, <2>2
<1>6. row' \in [Sessions -> {"idle", "running"}]
  BY DEF ChildStep, ChildWakes, ChildWakeFails, ForwardEvent, DropEvent, TypeOK, ChildTypes
<1>7. child' \in [Sessions -> Runtime]
  <2>1. CASE ChildWakes(s)
    <3>1. child' = [child EXCEPT ![s] = [child[s] EXCEPT !.phase = "awake", !.rpc = None]]
      BY <2>1 DEF ChildWakes, TypeOK, ChildTypes
    <3> QED BY <1>2, <3>1 DEF TypeOK, ChildTypes
  <2>2. CASE ChildWakeFails(s) BY <1>2, <2>2 DEF ChildWakeFails, TypeOK, ChildTypes
  <2>3. CASE ForwardEvent(s) \/ DropEvent(s)
    <3>1. PICK m \in BOOLEAN :
            child' = [child EXCEPT ![s] = [child[s] EXCEPT !.unsent = FALSE, !.missed = m]]
      BY <2>3 DEF ForwardEvent, DropEvent, TypeOK, ChildTypes
    <3> QED BY <1>2, <3>1 DEF TypeOK, ChildTypes
  <2> QED BY <2>1, <2>2, <2>3 DEF ChildStep
<1> QED BY <1>4, <1>5, <1>6, <1>7 DEF TypeOK, PipeTypes, ChildTypes

LEMMA TurnTypes == ASSUME TypeOK, OneUse, NEW i \in Rpcs, TurnStep(i) PROVE TypeOK'
<1>1. ParentTypes' /\ toChild' = toChild /\ worker' = worker /\ deaths' = deaths
  BY DEF TurnStep, TurnStarts, TurnSettles, TurnReplies, TypeOK, ParentTypes, parent, pipe
<1>2. turn[i] \in Turn BY DEF TypeOK, ChildTypes
<1>3. CASE TurnStarts(i) \/ TurnSettles(i)
  <2>1. PICK ph \in {"driving", "storing"}, st \in {"idle", "running"} :
          Announce(i, st) /\ turn' = [turn EXCEPT ![i].phase = ph] /\ toParent' = toParent
    BY <1>3 DEF TurnStarts, TurnSettles, pipe
  <2>2. [turn[i] EXCEPT !.phase = ph] \in Turn BY <1>2 DEF Turn
  <2>3. turn' \in [Rpcs -> Turn] BY <2>1, <2>2 DEF TypeOK, ChildTypes
  <2>4. row' \in [Sessions -> {"idle", "running"}] BY <2>1 DEF Announce, TypeOK, ChildTypes
  <2>5. child' \in [Sessions -> Runtime]
    <3>1. \A x \in Sessions : [child[x] EXCEPT !.sm = st, !.unsent = TRUE] \in Runtime
      BY DEF TypeOK, ChildTypes, Runtime
    <3> DEFINE s == turn[i].s
    <3>2. child' = child \/ child' = [child EXCEPT ![s].sm = st, ![s].unsent = TRUE]
      BY <2>1 DEF Announce
    <3>3. child \in [Sessions -> Runtime] BY DEF TypeOK, ChildTypes
    <3> HIDE DEF s
    <3>4. CASE s \in Sessions
      <4>1. child' = child \/ child' = [child EXCEPT ![s] = [child[s] EXCEPT !.sm = st,
           !.unsent = TRUE]]
        BY <3>2, <3>3, <3>4
      <4> QED BY <3>1, <3>3, <4>1, <3>4
    <3>5. CASE s \notin Sessions
      BY <3>2, <3>3, <3>5
    <3> QED BY <3>4, <3>5
  <2> QED BY <1>1, <2>1, <2>3, <2>4, <2>5 DEF TypeOK, PipeTypes, ChildTypes
<1>4. CASE TurnReplies(i)
  <2>1. turn[i] # NoTurn BY <1>4 DEF TurnReplies, NoTurn
  <2>2. turn[i].s \in Sessions BY <2>1 DEF OneUse, TurnUse
  <2>3. Reply(turn[i].s, i, "idle") \in Upward BY <2>2 DEF Reply, Upward
  <2>4. NoTurn \in Turn BY DEF NoTurn, Turn
  <2> QED BY <1>1, <1>4, <2>3, <2>4 DEF TurnReplies, Answer, TypeOK, PipeTypes, ChildTypes
<1> QED BY <1>3, <1>4 DEF TurnStep

LEMMA ProcessTypes ==
  ASSUME TypeOK, ChildDies \/ ParentSeesExit \/ Spawn \/ WorkerReady \/ BootFails
  PROVE  TypeOK'
<1> USE WorkersAssumption DEF TypeOK, ParentTypes, PipeTypes, ChildTypes, parent, pipe, inside
<1>1. CASE ChildDies
  <2>1. NoRuntime \in Runtime /\ NoTurn \in Turn BY DEF NoRuntime, NoTurn, Runtime, Turn
  <2> QED BY <1>1, <2>1 DEF ChildDies
<1>2. CASE ParentSeesExit BY <1>2 DEF ParentSeesExit, RejectPending
<1>3. CASE Spawn BY <1>3 DEF Spawn
<1>4. CASE WorkerReady BY <1>4 DEF WorkerReady
<1>5. CASE BootFails
  <2>1. deaths' \in 0..MaxDeaths BY <1>5 DEF BootFails
  <2>2. timer' \in BOOLEAN
    <3>1. timer' = timer \/ timer' = TRUE BY <1>5 DEF BootFails
    <3> QED BY <3>1
  <2> QED BY <1>5, <2>1, <2>2 DEF BootFails
<1> QED BY <1>1, <1>2, <1>3, <1>4, <1>5

-----------------------------------------------------------------------------
(* A step that does not concern a session.                                  *)

(* What either pipe carries about the session is what it carried, d places  *)
(* further down or e places further up.                                     *)
SameDown(x, d) ==
  /\ \A k \in DOMAIN toChild' : toChild'[k].s = x =>
       k + d \in DOMAIN toChild /\ toChild[k + d] = toChild'[k]
  /\ \A k \in DOMAIN toChild : toChild[k].s = x =>
       k - d \in DOMAIN toChild' /\ toChild'[k - d] = toChild[k]
SameUp(x, e) ==
  /\ \A k \in DOMAIN toParent' : toParent'[k].s = x =>
       k + e \in DOMAIN toParent /\ toParent[k + e] = toParent'[k]
  /\ \A k \in DOMAIN toParent : toParent[k].s = x =>
       k - e \in DOMAIN toParent' /\ toParent'[k - e] = toParent[k]
  /\ \A k \in DOMAIN toParent' : toParent'[k].s = x =>
       (WakeAnswer(toParent[k], x)' <=> WakeAnswer(toParent[k + e], x))

LEMMA SameDownOrder ==
  ASSUME TypeOK, TypeOK', NEW x \in Sessions, NEW d \in {0, 1}, SameDown(x, d)
  PROVE  /\ Sent(x)' = {} <=> Sent(x) = {}
         /\ Disposing(x)' <=> Disposing(x)
         /\ (\A k \in Sent(x)' : toChild'[k].op \in {"sendEvent", "call"})
              <=> (\A k \in Sent(x) : toChild[k].op \in {"sendEvent", "call"})
         /\ \A k \in Sent(x)' : k + d \in Sent(x) /\ toChild'[k] = toChild[k + d]
         /\ \A k \in Sent(x) : k - d \in Sent(x)' /\ toChild[k] = toChild'[k - d]
<1>1. \A k \in Sent(x)' : k + d \in Sent(x) /\ toChild'[k] = toChild[k + d]
  BY DEF SameDown, Sent
<1>2. \A k \in Sent(x) : k - d \in Sent(x)' /\ toChild[k] = toChild'[k - d]
  BY DEF SameDown, Sent
<1>3. Sent(x)' = {} <=> Sent(x) = {} BY <1>1, <1>2
<1>4. Disposing(x)' <=> Disposing(x) BY <1>1, <1>2 DEF Disposing
<1> QED BY <1>1, <1>2, <1>3, <1>4

LEMMA Elsewhere ==
  ASSUME TypeOK, TypeOK', NEW x \in Sessions, Agreed(x),
         NEW d \in {0, 1}, NEW e \in {0, 1}, SameDown(x, d), SameUp(x, e),
         child'[x] = child[x], registry'[x] = registry[x], proxy'[x] = proxy[x],
         worker' = worker, \A i \in Rpcs : turn'[i].s = x => turn'[i] = turn[i]
  PROVE  Agreed(x)'
<1>1. /\ Sent(x)' = {} <=> Sent(x) = {}
      /\ Disposing(x)' <=> Disposing(x)
      /\ (\A k \in Sent(x)' : toChild'[k].op \in {"sendEvent", "call"})
           <=> (\A k \in Sent(x) : toChild[k].op \in {"sendEvent", "call"})
      /\ \A k \in Sent(x)' : k + d \in Sent(x) /\ toChild'[k] = toChild[k + d]
  BY SameDownOrder
<1>2. \A k \in DOMAIN toParent' : WakeAnswer(toParent[k], x)' =>
        /\ k + e \in DOMAIN toParent /\ toParent'[k] = toParent[k + e]
        /\ WakeAnswer(toParent[k + e], x)
  BY DEF SameUp, WakeAnswer
<1>3. Ordered(x)'
  <2>1. \A k, l \in Sent(x)' : k < l =>
          /\ toChild'[k].op # "wake"
          /\ toChild'[k].op = "dispose" => toChild'[l].op = "wake"
    <3> TAKE k, l \in Sent(x)'
    <3> HAVE k < l
    <3>1. k \in Nat /\ l \in Nat BY Elements, ElementsNext DEF Sent
    <3>2. k + d < l + d BY <3>1
    <3> QED BY <1>1, <3>2 DEF Agreed, Ordered
  <2> QED BY <1>1, <1>2, <2>1 DEF Agreed, Ordered
<1>4. Served(x)' BY <1>1, <1>2 DEF Agreed, Served
<1>5. Told(x)'
  <2> SUFFICES ASSUME worker' = "ready", child'[x].phase = "awake", ~child'[x].unsent,
                      ~child'[x].missed,
                      \A k \in Sent(x)' : toChild'[k].op \in {"sendEvent", "call"}
               PROVE  LastSaid(x, child[x].sm)'
    BY DEF Told
  <2>1. LastSaid(x, child[x].sm) BY <1>1 DEF Agreed, Told
  <2>2. /\ \A k \in DOMAIN toParent' : Reports(toParent[k], x)' =>
             /\ k + e \in DOMAIN toParent /\ toParent[k + e] = toParent'[k]
             /\ Reports(toParent[k + e], x)
        /\ \A k \in DOMAIN toParent : Reports(toParent[k], x) =>
             /\ k - e \in DOMAIN toParent' /\ toParent'[k - e] = toParent[k]
             /\ Reports(toParent[k - e], x)'
    <3>1. ASSUME NEW k \in DOMAIN toParent', Reports(toParent[k], x)'
          PROVE  /\ k + e \in DOMAIN toParent /\ toParent[k + e] = toParent'[k]
                 /\ Reports(toParent[k + e], x)
      BY <3>1 DEF SameUp, Reports
    <3>2. ASSUME NEW k \in DOMAIN toParent, Reports(toParent[k], x)
          PROVE  /\ k - e \in DOMAIN toParent' /\ toParent'[k - e] = toParent[k]
                 /\ Reports(toParent[k - e], x)'
      <4>1. k - e \in DOMAIN toParent' /\ toParent'[k - e] = toParent[k] /\ toParent[k].s = x
        BY <3>2 DEF SameUp, Reports
      <4>2. k \in Nat /\ (k - e) + e = k BY Elements
      <4>3. WakeAnswer(toParent[k - e], x)' <=> WakeAnswer(toParent[k], x)
        BY <4>1, <4>2 DEF SameUp
      <4> QED BY <3>2, <4>1, <4>3 DEF Reports
    <3> QED BY <3>1, <3>2
  <2>3. DOMAIN toParent \subseteq Nat /\ DOMAIN toParent' \subseteq Nat BY Elements, ElementsNext
  <2> QED BY <2>1, <2>2, <2>3 DEF LastSaid
<1> QED BY <1>3, <1>4, <1>5 DEF Agreed

-----------------------------------------------------------------------------
(* How a pipe that grows or is read looks to a session not concerned.       *)

(* A step that leaves the two pipes and the requests alone leaves the uses  *)
(* of their ids alone, and, the proxy and the child too, what is told.      *)
LEMMA OneUseSame ==
  ASSUME OneUse, UNCHANGED <<toChild, toParent, pending, child, turn>>
  PROVE  OneUse'
<1>1. DownUse' BY DEF OneUse, DownUse
<1>2. WakeUse' BY DEF OneUse, WakeUse
<1>3. TurnUse' BY DEF OneUse, TurnUse
<1>4. UpUse' BY DEF OneUse, UpUse
<1> QED BY <1>1, <1>2, <1>3, <1>4 DEF OneUse

LEMMA ToldSame ==
  ASSUME NEW x, Told(x), worker' = "ready" => worker = "ready",
         UNCHANGED <<toChild, toParent, pending, proxy, child>>
  PROVE  Told(x)'
<1>1. \A k : Reports(toParent[k], x)' <=> Reports(toParent[k], x)
  BY DEF Reports, WakeAnswer
<1>2. \A st : LastSaid(x, st)' <=> LastSaid(x, st) BY <1>1 DEF LastSaid
<1>3. Sent(x)' = Sent(x) BY DEF Sent
<1> QED BY <1>2, <1>3 DEF Told

SameWake(x) == \A i \in Rpcs : pending'[i] = <<"wake", x>> <=> pending[i] = <<"wake", x>>

LEMMA DownGrows ==
  ASSUME TypeOK, NEW x, DOMAIN toChild \subseteq DOMAIN toChild',
         \A k \in DOMAIN toChild : toChild'[k] = toChild[k],
         \A k \in DOMAIN toChild' : k \notin DOMAIN toChild => toChild'[k].s # x
  PROVE  SameDown(x, 0)
<1>1. \A k \in DOMAIN toChild : k - 0 = k /\ k + 0 = k BY Elements
<1>2. \A k \in DOMAIN toChild' : toChild'[k].s = x => k \in DOMAIN toChild OBVIOUS
<1> QED BY <1>1, <1>2 DEF SameDown

LEMMA DownAppended ==
  ASSUME TypeOK, NEW x, NEW m \in Downward, toChild' = Append(toChild, m), m.s # x
  PROVE  SameDown(x, 0)
<1>1. toChild \in Seq(Downward) BY DEF TypeOK, PipeTypes
<1> QED BY <1>1, Appended, DownGrows

LEMMA DownSame == ASSUME TypeOK, NEW x, toChild' = toChild PROVE SameDown(x, 0)
BY DownGrows

LEMMA DownRead ==
  ASSUME TypeOK, NEW x, toChild # <<>>, toChild' = Tail(toChild), Head(toChild).s # x
  PROVE  SameDown(x, 1)
<1>1. toChild \in Seq(Downward) BY DEF TypeOK, PipeTypes
<1>2. /\ \A k \in DOMAIN toChild' : k + 1 \in DOMAIN toChild /\ toChild'[k] = toChild[k + 1]
      /\ \A k \in DOMAIN toChild : k # 1 => k - 1 \in DOMAIN toChild' /\ toChild'[k - 1] = toChild[k]
      /\ Head(toChild) = toChild[1]
  BY <1>1, PipeHead
<1> QED BY <1>2 DEF SameDown

(* Whether a reply answers a wake of the session is as it was. *)
LEMMA SameAnswer ==
  ASSUME TypeOK, OneUse, NEW x, SameWake(x),
         NEW k \in DOMAIN toParent', NEW l \in DOMAIN toParent, toParent'[k] = toParent[l]
  PROVE  WakeAnswer(toParent[k], x)' <=> WakeAnswer(toParent[l], x)
<1>1. CASE toParent[l].t = "event" BY <1>1 DEF WakeAnswer
<1>2. CASE toParent[l].t # "event"
  <2>1. toParent[l].id # None BY <1>2 DEF OneUse, UpUse
  <2>2. toParent[l].id \in Rpcs BY <2>1, Elements DEF Upward
  <2> QED BY <2>2 DEF SameWake, WakeAnswer
<1> QED BY <1>1, <1>2

LEMMA UpGrows ==
  ASSUME TypeOK, OneUse, NEW x, SameWake(x), DOMAIN toParent \subseteq DOMAIN toParent',
         \A k \in DOMAIN toParent : toParent'[k] = toParent[k],
         \A k \in DOMAIN toParent' : k \notin DOMAIN toParent => toParent'[k].s # x
  PROVE  SameUp(x, 0)
<1>1. \A k \in DOMAIN toParent : k - 0 = k /\ k + 0 = k BY Elements
<1>2. \A k \in DOMAIN toParent' : toParent'[k].s = x => k \in DOMAIN toParent OBVIOUS
<1>3. \A k \in DOMAIN toParent' : toParent'[k].s = x =>
        (WakeAnswer(toParent[k], x)' <=> WakeAnswer(toParent[k + 0], x))
  BY <1>1, <1>2, SameAnswer
<1> QED BY <1>1, <1>2, <1>3 DEF SameUp

LEMMA UpAppended ==
  ASSUME TypeOK, OneUse, NEW x, SameWake(x), NEW m \in Upward, toParent' = Append(toParent, m),
         m.s # x
  PROVE  SameUp(x, 0)
<1>1. toParent \in Seq(Upward) BY DEF TypeOK, PipeTypes
<1> QED BY <1>1, Appended, UpGrows

LEMMA UpSame ==
  ASSUME TypeOK, OneUse, NEW x, SameWake(x), toParent' = toParent PROVE SameUp(x, 0)
BY UpGrows

LEMMA UpRead ==
  ASSUME TypeOK, OneUse, NEW x, SameWake(x), toParent # <<>>, toParent' = Tail(toParent),
         Head(toParent).s # x
  PROVE  SameUp(x, 1)
<1>1. toParent \in Seq(Upward) BY DEF TypeOK, PipeTypes
<1>2. /\ \A k \in DOMAIN toParent' : k + 1 \in DOMAIN toParent /\ toParent'[k] = toParent[k + 1]
      /\ \A k \in DOMAIN toParent :
           k # 1 => k - 1 \in DOMAIN toParent' /\ toParent'[k - 1] = toParent[k]
      /\ Head(toParent) = toParent[1]
  BY <1>1, PipeHead
<1>3. \A k \in DOMAIN toParent' : WakeAnswer(toParent[k], x)' <=> WakeAnswer(toParent[k + 1], x)
  BY <1>2, SameAnswer
<1> QED BY <1>2, <1>3 DEF SameUp

-----------------------------------------------------------------------------
(* The parent sends a request.                                              *)

LEMMA SendFacts ==
  ASSUME TypeOK, NEW s \in Sessions, NEW op \in Asked, Send(op, s)
  PROVE  \E i \in Rpcs, n \in Nat :
           /\ i # None /\ i \in Free /\ pending[i] = None
           /\ pending' = [pending EXCEPT ![i] = <<op, s>>]
           /\ DOMAIN toChild' = DOMAIN toChild \cup {n} /\ n \notin DOMAIN toChild
           /\ toChild'[n] = [op |-> op, s |-> s, id |-> i]
           /\ \A k \in DOMAIN toChild : toChild'[k] = toChild[k] /\ k < n
<1>1. PICK i \in Free : /\ pending' = [pending EXCEPT ![i] = <<op, s>>]
                        /\ toChild' = Append(toChild, [op |-> op, s |-> s, id |-> i])
  BY DEF Send
<1>2. i \in Rpcs /\ i # None /\ pending[i] = None BY FreeId
<1>3. [op |-> op, s |-> s, id |-> i] \in Downward BY <1>2 DEF Downward, Ops
<1>4. toChild \in Seq(Downward) BY DEF TypeOK, PipeTypes
<1> DEFINE n == Len(toChild) + 1
<1>5. /\ n \in Nat /\ DOMAIN toChild' = DOMAIN toChild \cup {n} /\ n \notin DOMAIN toChild
      /\ toChild'[n] = [op |-> op, s |-> s, id |-> i]
      /\ \A k \in DOMAIN toChild : toChild'[k] = toChild[k] /\ k < n
  BY <1>1, <1>3, <1>4, Appended
<1> QED BY <1>1, <1>2, <1>5

LEMMA SendOneUse ==
  ASSUME TypeOK, OneUse, NEW s \in Sessions, NEW op \in Asked, Send(op, s),
         UNCHANGED <<toParent, child, turn>>
  PROVE  OneUse' /\ \A x \in Sessions : x # s \/ op # "wake" => SameWake(x)
<1>1. PICK i \in Rpcs, n \in Nat :
           /\ i # None /\ i \in Free /\ pending[i] = None
           /\ pending' = [pending EXCEPT ![i] = <<op, s>>]
           /\ DOMAIN toChild' = DOMAIN toChild \cup {n} /\ n \notin DOMAIN toChild
           /\ toChild'[n] = [op |-> op, s |-> s, id |-> i]
           /\ \A k \in DOMAIN toChild : toChild'[k] = toChild[k] /\ k < n
  BY SendFacts
<1>2. /\ turn[i] = NoTurn /\ \A k \in DOMAIN toChild : toChild[k].id # i
      /\ \A k \in DOMAIN toParent : toParent[k].id # i
      /\ \A x \in Sessions : child[x].rpc # i
  BY <1>1, FreeId
<1>3. pending'[i] = <<op, s>> /\ \A j \in Rpcs : j # i => pending'[j] = pending[j]
  BY <1>1 DEF TypeOK, ParentTypes
<1>4. /\ \A k \in DOMAIN toChild : toChild[k].id \in Rpcs \cup {None}
      /\ \A k \in DOMAIN toParent : toParent[k].id \in Rpcs \cup {None}
      /\ \A x \in Sessions : child[x].rpc \in Rpcs \cup {None}
  BY Elements DEF Downward, Upward, TypeOK, ChildTypes, Runtime
<1>5. DownUse'
  <2>1. ASSUME NEW k \in DOMAIN toChild, toChild[k].id # None
        PROVE  /\ pending'[toChild[k].id] = <<toChild[k].op, toChild[k].s>>
               /\ \A l \in DOMAIN toChild' : toChild'[l].id = toChild[k].id => l = k
    <3>1. toChild[k].id # i /\ toChild[k].id \in Rpcs BY <1>2, <1>4, <2>1
    <3>2. pending[toChild[k].id] = <<toChild[k].op, toChild[k].s>> BY <2>1 DEF OneUse, DownUse
    <3>3. \A l \in DOMAIN toChild : toChild[l].id = toChild[k].id => l = k
      BY <2>1 DEF OneUse, DownUse
    <3>4. toChild'[n].id = i BY <1>1
    <3> QED BY <1>1, <1>3, <3>1, <3>2, <3>3, <3>4
  <2>2. ASSUME NEW k \in DOMAIN toChild
        PROVE  /\ toChild[k].id = None => toChild[k].op = "dispose"
               /\ toChild[k].id # None =>
                    /\ turn[toChild[k].id] = NoTurn
                    /\ \A x \in Sessions : child[x].rpc # toChild[k].id
                    /\ \A l \in DOMAIN toParent : toParent[l].id # toChild[k].id
    BY DEF OneUse, DownUse
  <2> SUFFICES ASSUME NEW k \in DOMAIN toChild'
               PROVE  IF toChild'[k].id = None THEN toChild'[k].op = "dispose"
                      ELSE /\ pending'[toChild'[k].id] = <<toChild'[k].op, toChild'[k].s>>
                           /\ turn'[toChild'[k].id] = NoTurn
                           /\ \A l \in DOMAIN toChild' : toChild'[l].id = toChild'[k].id => l = k
                           /\ \A x \in Sessions : child'[x].rpc # toChild'[k].id
                           /\ \A l \in DOMAIN toParent' : toParent'[l].id # toChild'[k].id
    BY DEF DownUse
  <2>3. CASE k = n
    <3>1. toChild'[k].id = i /\ toChild'[k].op = op /\ toChild'[k].s = s BY <1>1, <2>3
    <3>2. \A l \in DOMAIN toChild' : toChild'[l].id = i => l = k BY <1>1, <1>2, <2>3
    <3> QED BY <1>1, <1>2, <1>3, <3>1, <3>2
  <2>4. CASE k # n
    <3>1. k \in DOMAIN toChild /\ toChild'[k] = toChild[k] BY <1>1, <2>4
    <3> QED BY <2>1, <2>2, <3>1
  <2> QED BY <2>3, <2>4
<1>6. WakeUse' BY <1>2, <1>3, <1>4 DEF OneUse, WakeUse
<1>7. TurnUse' BY <1>2, <1>3 DEF OneUse, TurnUse
<1>8. UpUse' BY <1>2, <1>3, <1>4 DEF OneUse, UpUse
<1>9. \A x \in Sessions : x # s \/ op # "wake" => SameWake(x)
  BY <1>1, <1>3, WorkersAssumption DEF SameWake
<1> QED BY <1>5, <1>6, <1>7, <1>8, <1>9 DEF OneUse

(* A session that does not wake, or has no proxy yet, has no wake anywhere. *)
LEMMA NoWake ==
  ASSUME IInv, NEW s \in Sessions, registry[s] # "waking" \/ proxy[s] = "none"
  PROVE  /\ \A i \in Rpcs : pending[i] # <<"wake", s>>
         /\ \A k \in DOMAIN toParent : ~WakeAnswer(toParent[k], s)
         /\ \A k \in Sent(s) : toChild[k].op # "wake"
         /\ child[s].phase # "waking"
<1> USE DEF IInv
<1>1. \A i \in Rpcs : pending[i] # <<"wake", s>> BY DEF Proxies
<1>2. ASSUME NEW k \in DOMAIN toParent PROVE ~WakeAnswer(toParent[k], s)
  <2>1. toParent[k].t # "event" => toParent[k].id \in Rpcs BY Elements DEF Upward, OneUse, UpUse
  <2> QED BY <1>1, <2>1 DEF WakeAnswer
<1>3. ASSUME NEW k \in Sent(s) PROVE toChild[k].op # "wake"
  <2>1. k \in DOMAIN toChild /\ toChild[k].s = s BY DEF Sent
  <2>2. toChild[k].op # "dispose" =>
          toChild[k].id \in Rpcs /\ pending[toChild[k].id] = <<toChild[k].op, s>>
    BY <2>1, Elements DEF Downward, OneUse, DownUse
  <2> QED BY <1>1, <2>2
<1>4. child[s].phase # "waking"
  BY <1>1 DEF Agreed, Served, OneUse, WakeUse, TypeOK, ChildTypes, Runtime
<1> QED BY <1>1, <1>2, <1>3, <1>4

LEMMA RequestKeeps ==
  ASSUME IInv, NEW s \in Sessions, NEW op \in {"sendEvent", "call"}, Request(s, op)
  PROVE  IInv'
<1> USE DEF IInv
<1>1. TypeOK' BY RequestTypes
<1>2. registry[s] \in {"none", "waking", "held"} BY DEF TypeOK, ParentTypes
<1>3. CASE registry[s] = "held"
  <2>1. Send(op, s) /\ op \in Asked /\ UNCHANGED <<registry, waiting, timer, worker>>
        /\ UNCHANGED <<row, proxy, toParent, inside, deaths>>
    BY <1>3 DEF Request, Asked
  <2>2. OneUse' /\ \A x \in Sessions : SameWake(x)
    <3>1. op # "wake" OBVIOUS
    <3> QED BY <2>1, <3>1, SendOneUse DEF inside
  <2>3. PICK i \in Rpcs, n \in Nat :
             /\ i # None /\ i \in Free /\ pending[i] = None
             /\ pending' = [pending EXCEPT ![i] = <<op, s>>]
             /\ DOMAIN toChild' = DOMAIN toChild \cup {n} /\ n \notin DOMAIN toChild
             /\ toChild'[n] = [op |-> op, s |-> s, id |-> i]
             /\ \A k \in DOMAIN toChild : toChild'[k] = toChild[k] /\ k < n
    BY <2>1, SendFacts
  <2>4. Proxies'
    BY <2>1, <2>2 DEF Proxies, SameWake
  <2>5. Gone'
    <3>1. worker \notin {"down", "booting"} BY <1>3 DEF Gone, Proxies
    <3> QED BY <2>1, <3>1 DEF Gone, inside
  <2>6. ASSUME NEW x \in Sessions, x # s PROVE Agreed(x)'
    <3>1. SameDown(x, 0) BY <2>3, <2>6, DownGrows
    <3>2. SameUp(x, 0) BY <2>1, <2>2, UpSame
    <3> QED BY <1>1, <2>1, <3>1, <3>2, Elsewhere DEF inside
  <2>7. Agreed(s)'
    <3>1. \A k \in DOMAIN toParent : ~WakeAnswer(toParent[k], s) BY <1>3, NoWake
    <3>2. \A k \in DOMAIN toParent' : ~WakeAnswer(toParent[k], s)'
      BY <2>1, <2>2, <3>1, SameAnswer
    <3>3. child[s].phase # "waking" BY <1>3, NoWake
    <3>4. Sent(s)' = Sent(s) \cup {n} BY <2>3 DEF Sent
    <3>5. \A k \in Sent(s) : toChild[k].op \in {"sendEvent", "call"} /\ k \in DOMAIN toChild
      BY <1>3 DEF Agreed, Ordered, Sent
    <3>6. \A k \in Sent(s)' : toChild'[k].op \in {"sendEvent", "call"}
      BY <2>3, <3>4, <3>5
    <3>7. ~Disposing(s) /\ ~Disposing(s)' BY <3>5, <3>6 DEF Disposing
    <3>8. proxy[s] # "none" BY <1>3 DEF Proxies
    <3>9. Ordered(s)' BY <2>1, <3>2, <3>3, <3>6, <3>8 DEF Ordered, inside
    <3>10. Served(s)' BY <1>3, <2>1, <3>2, <3>7, <3>8 DEF Agreed, Served, inside
    <3>11. Told(s)'
      <4>1. \A k \in DOMAIN toParent : Reports(toParent[k], s)' <=> Reports(toParent[k], s)
        BY <2>1, <3>1, <3>2 DEF Reports
      <4>2. Told(s) BY DEF Agreed
      <4> QED BY <2>1, <3>5, <4>1, <4>2 DEF Told, LastSaid, inside
    <3> QED BY <3>9, <3>10, <3>11 DEF Agreed
  <2> QED BY <1>1, <2>2, <2>4, <2>5, <2>6, <2>7
<1>4. CASE registry[s] # "held"
  <2>1. /\ UNCHANGED <<proxy, pending, toChild, toParent, child, turn>>
        /\ registry' = [registry EXCEPT ![s] = "waking"]
        /\ (worker' = worker \/ (worker = "down" /\ worker' = "booting"))
    <3>0. UNCHANGED <<proxy, toParent, child, turn>> BY DEF Request, inside
    <3>1. CASE registry[s] = "waking"
      <4>1. UNCHANGED <<registry, timer, worker, pending, toChild>> BY <3>1 DEF Request
      <4>2. registry = [registry EXCEPT ![s] = "waking"] BY <3>1 DEF TypeOK, ParentTypes
      <4> QED BY <3>0, <4>1, <4>2
    <3>2. CASE registry[s] = "none"
      <4>1. /\ registry' = [registry EXCEPT ![s] = "waking"]
            /\ worker' = IF worker = "down" THEN "booting" ELSE worker
            /\ UNCHANGED <<timer, pending, toChild>>
        BY <3>2 DEF Request
      <4> QED BY <3>0, <4>1
    <3> QED BY <1>2, <1>4, <3>1, <3>2
  <2>2. \A x \in Sessions : registry'[x] = IF x = s THEN "waking" ELSE registry[x]
    BY <2>1 DEF TypeOK, ParentTypes
  <2>3. Proxies' BY <1>4, <2>1, <2>2 DEF Proxies
  <2>4. OneUse' BY <2>1, OneUseSame
  <2>5. Gone' BY <2>1 DEF Gone
  <2>6. ASSUME NEW x \in Sessions PROVE Agreed(x)'
    <3>1. Ordered(x)' BY <2>1, <2>2 DEF Agreed, Ordered, Sent, Disposing, WakeAnswer
    <3>2. Served(x)' BY <2>1, <2>2 DEF Agreed, Served, Sent, Disposing, WakeAnswer
    <3>3. Told(x)' BY <2>1, ToldSame DEF Agreed
    <3> QED BY <3>1, <3>2, <3>3 DEF Agreed
  <2> QED BY <1>1, <2>3, <2>4, <2>5, <2>6
<1> QED BY <1>3, <1>4

LEMMA PoolWakesKeeps == ASSUME IInv, NEW s \in Sessions, PoolWakes(s) PROVE IInv'
<1> USE DEF IInv
<1>1. TypeOK' BY PoolWakesTypes
<1>2. /\ registry[s] = "waking" /\ proxy[s] = "none" /\ worker \in {"ready", "dead"}
      /\ UNCHANGED <<worker, toParent, child, turn>>
  BY DEF PoolWakes, inside
<1>3. /\ \A i \in Rpcs : pending[i] # <<"wake", s>>
      /\ \A k \in DOMAIN toParent : ~WakeAnswer(toParent[k], s)
      /\ \A k \in Sent(s) : toChild[k].op # "wake"
      /\ child[s].phase # "waking"
  BY <1>2, NoWake
<1>4. Gone' BY <1>2 DEF Gone
<1>5. CASE WakeRejects(s) /\ UNCHANGED <<proxy, pending, toChild>>
  <2>1. \A x \in Sessions : registry'[x] = IF x = s THEN "none" ELSE registry[x]
    BY <1>5 DEF WakeRejects, TypeOK, ParentTypes
  <2>2. Proxies' BY <1>2, <1>3, <1>5, <2>1 DEF Proxies
  <2>3. OneUse' BY <1>2, <1>5, OneUseSame
  <2>4. ASSUME NEW x \in Sessions PROVE Agreed(x)'
    <3>1. Ordered(x)' BY <1>2, <1>5, <2>1 DEF Agreed, Ordered, Sent, Disposing, WakeAnswer
    <3>2. Served(x)' BY <1>2, <1>5, <2>1 DEF Agreed, Served, Sent, Disposing, WakeAnswer
    <3>3. Told(x)' BY <1>2, <1>5, ToldSame DEF Agreed
    <3> QED BY <3>1, <3>2, <3>3 DEF Agreed
  <2> QED BY <1>1, <1>4, <2>2, <2>3, <2>4
<1>6. CASE Send("wake", s) /\ proxy' = [proxy EXCEPT ![s] = "idle"] /\ UNCHANGED registry
  <2>1. PICK i \in Rpcs, n \in Nat :
             /\ i # None /\ i \in Free /\ pending[i] = None
             /\ pending' = [pending EXCEPT ![i] = <<"wake", s>>]
             /\ DOMAIN toChild' = DOMAIN toChild \cup {n} /\ n \notin DOMAIN toChild
             /\ toChild'[n] = [op |-> "wake", s |-> s, id |-> i]
             /\ \A k \in DOMAIN toChild : toChild'[k] = toChild[k] /\ k < n
    BY <1>6, SendFacts DEF Asked
  <2>2. OneUse' /\ \A x \in Sessions : x # s => SameWake(x)
    BY <1>2, <1>6, SendOneUse DEF Asked
  <2>3. \A x \in Sessions : proxy'[x] = IF x = s THEN "idle" ELSE proxy[x]
    BY <1>6 DEF TypeOK, ParentTypes
  <2>4. /\ pending'[i] = <<"wake", s>> /\ \A j \in Rpcs : j # i => pending'[j] = pending[j]
    BY <2>1 DEF TypeOK, ParentTypes
  <2>5. Proxies' BY <1>2, <1>3, <1>6, <2>3, <2>4 DEF Proxies
  <2>6. ASSUME NEW x \in Sessions, x # s PROVE Agreed(x)'
    <3>1. SameDown(x, 0) BY <2>1, <2>6, DownGrows
    <3>2. SameUp(x, 0) BY <1>2, <2>2, <2>6, UpSame
    <3> QED BY <1>1, <1>2, <1>6, <2>3, <2>6, <3>1, <3>2, Elsewhere
  <2>7. Agreed(s)'
    <3>1. \A k \in DOMAIN toParent : toParent[k].id # i BY <2>1, FreeId
    <3>2. ASSUME NEW k \in DOMAIN toParent' PROVE ~WakeAnswer(toParent[k], s)'
      <4>1. toParent[k].t # "event" => toParent[k].id \in Rpcs
        BY <1>2, Elements DEF Upward, OneUse, UpUse
      <4> QED BY <1>2, <1>3, <2>4, <3>1, <4>1 DEF WakeAnswer
    <3>3. Sent(s)' = Sent(s) \cup {n} /\ n \notin Sent(s) BY <2>1 DEF Sent
    <3>4. \A k \in Sent(s) : k \in DOMAIN toChild BY DEF Sent
    <3>5. Disposing(s)' <=> Disposing(s) BY <2>1, <3>3, <3>4 DEF Disposing
    <3>6. \A k, l \in Sent(s)' : k < l =>
             /\ toChild'[k].op # "wake"
             /\ toChild'[k].op = "dispose" => toChild'[l].op = "wake"
      <4> TAKE k, l \in Sent(s)'
      <4> HAVE k < l
      <4>1. k \in Sent(s)
        <5>1. l \in Sent(s) \/ l = n BY <3>3
        <5>2. k = n => l \in Nat /\ ~(l < n) BY <5>1, <2>1, ElementsNext, <1>1 DEF Sent
        <5> QED BY <2>1, <3>3, <3>4, Elements
      <4>2. CASE l = n BY <1>3, <2>1, <3>4, <4>1, <4>2
      <4>3. CASE l # n BY <2>1, <3>3, <3>4, <4>1, <4>3 DEF Agreed, Ordered
      <4> QED BY <4>2, <4>3
    <3>7. Ordered(s)' BY <1>2, <1>3, <1>6, <2>3, <3>2, <3>6 DEF Ordered
    <3>8. Served(s)' BY <1>2, <1>6, <2>3, <3>2, <3>5 DEF Agreed, Served
    <3>9. Told(s)' BY <2>1, <3>3 DEF Told
    <3> QED BY <3>7, <3>8, <3>9 DEF Agreed
  <2> QED BY <1>1, <1>4, <2>2, <2>5, <2>6, <2>7
<1> QED BY <1>5, <1>6 DEF PoolWakes

LEMMA EvictKeeps == ASSUME IInv, NEW s \in Sessions, Evict(s) PROVE IInv'
<1> USE DEF IInv
<1>1. TypeOK' BY EvictTypes
<1> DEFINE m == [op |-> "dispose", s |-> s, id |-> None]
           n == Len(toChild) + 1
<1>2. /\ registry[s] = "held" /\ UNCHANGED <<worker, pending, toParent, child, turn>>
      /\ registry' = [registry EXCEPT ![s] = "none"] /\ proxy' = [proxy EXCEPT ![s] = "none"]
      /\ toChild' = Append(toChild, m)
  BY DEF Evict, Evictable, Dispose, inside
<1>3. m \in Downward /\ toChild \in Seq(Downward) BY DEF Downward, Ops, TypeOK, PipeTypes
<1>4. /\ n \in Nat /\ DOMAIN toChild' = DOMAIN toChild \cup {n} /\ n \notin DOMAIN toChild
      /\ toChild'[n] = m
      /\ \A k \in DOMAIN toChild : toChild'[k] = toChild[k] /\ k < n
  BY <1>2, <1>3, Appended
<1>5. m.op = "dispose" /\ m.s = s /\ m.id = None OBVIOUS
<1> HIDE DEF m, n
<1>6. /\ \A i \in Rpcs : pending[i] # <<"wake", s>>
      /\ \A k \in DOMAIN toParent : ~WakeAnswer(toParent[k], s)
      /\ \A k \in Sent(s) : toChild[k].op # "wake"
      /\ child[s].phase # "waking"
  BY <1>2, NoWake
<1>7. \A x \in Sessions : /\ registry'[x] = IF x = s THEN "none" ELSE registry[x]
                          /\ proxy'[x] = IF x = s THEN "none" ELSE proxy[x]
  BY <1>2 DEF TypeOK, ParentTypes
<1>8. Proxies' BY <1>2, <1>6, <1>7 DEF Proxies
<1>9. OneUse'
  <2>1. DownUse' BY <1>2, <1>4, <1>5 DEF OneUse, DownUse
  <2> QED BY <1>2, <2>1 DEF OneUse, WakeUse, TurnUse, UpUse
<1>10. Gone' BY <1>2 DEF Gone, Proxies
<1>11. ASSUME NEW x \in Sessions, x # s PROVE Agreed(x)'
  <2>1. SameDown(x, 0) BY <1>2, <1>3, <1>5, <1>11, DownAppended
  <2>2. SameUp(x, 0) BY <1>2, UpSame DEF SameWake
  <2> QED BY <1>1, <1>2, <1>7, <1>11, <2>1, <2>2, Elsewhere
<1>12. Agreed(s)'
  <2>1. Sent(s)' = Sent(s) \cup {n} BY <1>4, <1>5 DEF Sent
  <2>2. Disposing(s)' BY <1>4, <1>5, <2>1 DEF Disposing
  <2>3. \A k \in Sent(s) : toChild'[k].op \in {"sendEvent", "call"} /\ k < n /\ k \in Nat
    BY <1>2, <1>4, Elements DEF Agreed, Ordered, Sent
  <2>4. \A k \in DOMAIN toParent' : ~WakeAnswer(toParent[k], s)' BY <1>2, <1>6 DEF WakeAnswer
  <2>5. Ordered(s)'
    <3>1. \A k, l \in Sent(s)' : k < l => toChild'[k].op \in {"sendEvent", "call"}
      BY <1>4, <2>1, <2>3
    <3>2. \A k, l \in Sent(s)' : k < l => /\ toChild'[k].op # "wake"
                                          /\ toChild'[k].op # "dispose"
      BY <3>1
    <3>3. registry'[s] # "held" /\ child'[s].phase # "waking" BY <1>2, <1>6, <1>7
    <3> QED BY <2>2, <2>4, <3>2, <3>3 DEF Ordered
  <2>6. Served(s)' BY <1>2, <1>7, <2>1, <2>2, <2>4 DEF Agreed, Served
  <2>7. Told(s)' BY <1>4, <1>5, <2>1 DEF Told
  <2> QED BY <2>5, <2>6, <2>7 DEF Agreed
<1> QED BY <1>1, <1>8, <1>9, <1>10, <1>11, <1>12

-----------------------------------------------------------------------------
(* The parent reads a message.                                              *)

LEMMA ReadOneUse ==
  ASSUME TypeOK, OneUse, toParent # <<>>, toParent' = Tail(toParent), UNCHANGED <<child, turn>>,
         DOMAIN toChild \subseteq DOMAIN toChild',
         \A k \in DOMAIN toChild : toChild'[k] = toChild[k],
         \A k \in DOMAIN toChild' : k \notin DOMAIN toChild => LET m == toChild'[k] IN
           /\ m.id \in Free /\ pending'[m.id] = <<m.op, m.s>>
           /\ \A l \in DOMAIN toChild' : toChild'[l].id = m.id => l = k,
         \A j \in Rpcs : \/ j # Head(toParent).id /\ pending'[j] = pending[j]
                         \/ j = Head(toParent).id
                         \/ j \in Free
  PROVE  OneUse'
<1> DEFINE h == Head(toParent).id
<1>1. toParent \in Seq(Upward) BY DEF TypeOK, PipeTypes
<1>2. /\ \A k \in DOMAIN toParent' : k + 1 \in DOMAIN toParent /\ toParent'[k] = toParent[k + 1]
                                     /\ k + 1 # 1 /\ k \in Nat
      /\ h = toParent[1].id /\ 1 \in DOMAIN toParent
  BY <1>1, PipeHead
<1> HIDE DEF h
<1>3. \A j \in Rpcs : (j # h /\ pending'[j] = pending[j]) \/ j = h \/ j \in Free BY DEF h
<1>4. /\ \A k \in DOMAIN toChild : toChild[k].id \in Rpcs \cup {None}
      /\ \A k \in DOMAIN toParent : toParent[k].id \in Rpcs \cup {None}
      /\ \A x \in Sessions : child[x].rpc \in Rpcs \cup {None}
  BY Elements DEF Downward, Upward, TypeOK, ChildTypes, Runtime
<1>5. \A j \in Free : /\ j \in Rpcs /\ j # None /\ turn[j] = NoTurn
                      /\ \A k \in DOMAIN toChild : toChild[k].id # j
                      /\ \A k \in DOMAIN toParent : toParent[k].id # j
                      /\ \A x \in Sessions : child[x].rpc # j
  BY FreeId
<1>6. \A k \in DOMAIN toParent : toParent[k].id # None /\ toParent[k].id = h => k = 1
  BY <1>2 DEF OneUse, UpUse
<1>7. DownUse'
  <2> SUFFICES ASSUME NEW k \in DOMAIN toChild'
               PROVE  IF toChild'[k].id = None THEN toChild'[k].op = "dispose"
                      ELSE /\ pending'[toChild'[k].id] = <<toChild'[k].op, toChild'[k].s>>
                           /\ turn[toChild'[k].id] = NoTurn
                           /\ \A l \in DOMAIN toChild' : toChild'[l].id = toChild'[k].id => l = k
                           /\ \A s \in Sessions : child[s].rpc # toChild'[k].id
                           /\ \A l \in DOMAIN toParent' : toParent'[l].id # toChild'[k].id
    BY DEF DownUse
  <2>1. CASE k \notin DOMAIN toChild
    <3>1. /\ toChild'[k].id \in Free
          /\ pending'[toChild'[k].id] = <<toChild'[k].op, toChild'[k].s>>
          /\ \A l \in DOMAIN toChild' : toChild'[l].id = toChild'[k].id => l = k
      BY <2>1
    <3> QED BY <1>2, <1>5, <3>1
  <2>2. CASE k \in DOMAIN toChild
    <3>1. toChild'[k] = toChild[k] BY <2>2
    <3>2. CASE toChild[k].id # None
      <4>1. /\ pending[toChild[k].id] = <<toChild[k].op, toChild[k].s>>
            /\ turn[toChild[k].id] = NoTurn
            /\ \A l \in DOMAIN toChild : toChild[l].id = toChild[k].id => l = k
            /\ \A s \in Sessions : child[s].rpc # toChild[k].id
            /\ \A l \in DOMAIN toParent : toParent[l].id # toChild[k].id
        BY <2>2, <3>2 DEF OneUse, DownUse
      <4>2. toChild[k].id \in Rpcs /\ toChild[k].id \notin Free /\ toChild[k].id # h
        BY <1>2, <1>4, <1>5, <2>2, <3>2, <4>1
      <4>3. \A l \in DOMAIN toChild' : toChild'[l].id = toChild[k].id => l = k
        BY <4>1, <4>2
      <4> QED BY <1>2, <1>3, <3>1, <3>2, <4>1, <4>2, <4>3
    <3>3. CASE toChild[k].id = None BY <2>2, <3>1, <3>3 DEF OneUse, DownUse
    <3> QED BY <3>2, <3>3
  <2> QED BY <2>1, <2>2
<1>8. WakeUse'
  <2> SUFFICES ASSUME NEW s \in Sessions, child[s].rpc # None
               PROVE  /\ child[s].phase = "waking"
                      /\ pending'[child[s].rpc] = <<"wake", s>> /\ turn[child[s].rpc] = NoTurn
                      /\ \A l \in DOMAIN toParent' : toParent'[l].id # child[s].rpc
    BY DEF WakeUse
  <2>1. /\ child[s].phase = "waking"
        /\ pending[child[s].rpc] = <<"wake", s>> /\ turn[child[s].rpc] = NoTurn
        /\ \A l \in DOMAIN toParent : toParent[l].id # child[s].rpc
    BY DEF OneUse, WakeUse
  <2>2. child[s].rpc # h /\ child[s].rpc \in Rpcs /\ child[s].rpc \notin Free
    BY <1>2, <1>4, <1>5, <2>1
  <2> QED BY <1>2, <1>3, <2>1, <2>2
<1>9. TurnUse' BY <1>2, <1>3, <1>5 DEF OneUse, TurnUse
<1>10. UpUse'
  <2> SUFFICES ASSUME NEW k \in DOMAIN toParent'
               PROVE  IF toParent'[k].t = "event" THEN toParent'[k].id = None
                      ELSE /\ toParent'[k].id # None
                           /\ \E op \in Asked : pending'[toParent'[k].id] = <<op, toParent'[k].s>>
                           /\ \A l \in DOMAIN toParent' : toParent'[l].id = toParent'[k].id => l = k
    BY DEF UpUse
  <2>1. CASE toParent[k + 1].t = "event" BY <1>2, <2>1 DEF OneUse, UpUse
  <2>2. CASE toParent[k + 1].t # "event"
    <3>1. /\ toParent[k + 1].id # None
          /\ \E op \in Asked : pending[toParent[k + 1].id] = <<op, toParent[k + 1].s>>
          /\ \A l \in DOMAIN toParent : toParent[l].id = toParent[k + 1].id => l = k + 1
      BY <1>2, <2>2 DEF OneUse, UpUse
    <3>2. toParent[k + 1].id # h BY <1>2, <1>6, <3>1
    <3>3. pending'[toParent[k + 1].id] = pending[toParent[k + 1].id]
      BY <1>2, <1>3, <1>4, <1>5, <3>1, <3>2
    <3>4. ASSUME NEW l \in DOMAIN toParent', toParent'[l].id = toParent'[k].id PROVE l = k
      <4>1. l + 1 = k + 1 BY <1>2, <3>1, <3>4
      <4> QED BY <1>2, <4>1
    <3> QED BY <1>2, <2>2, <3>1, <3>3, <3>4
  <2> QED BY <2>1, <2>2
<1> QED BY <1>7, <1>8, <1>9, <1>10 DEF OneUse

(* Nothing else of the session is on its way when the reply to its wake is  *)
(* read, and the wake has ended in the child.                               *)
LEMMA WakeAnswered ==
  ASSUME IInv, NEW s \in Sessions, NEW i \in Rpcs, toParent # <<>>,
         pending[i] = <<"wake", s>>, Head(toParent).id = i, Head(toParent).s = s,
         Head(toParent).t = "reply"
  PROVE  /\ Sent(s) = {} /\ child[s].phase # "waking"
         /\ worker = "ready" => child[s].phase = IF Head(toParent).ok THEN "awake" ELSE "none"
         /\ worker \notin {"down", "booting"}
         /\ registry[s] = "waking"
         /\ \A j \in Rpcs : pending[j] = <<"wake", s>> => j = i
         /\ \A k \in DOMAIN toParent : WakeAnswer(toParent[k], s) => k = 1
<1> USE DEF IInv
<1>1. Head(toParent) = toParent[1] /\ 1 \in DOMAIN toParent
  <2>1. toParent \in Seq(Upward) BY DEF TypeOK, PipeTypes
  <2> QED BY <2>1, PipeHead
<1>2. WakeAnswer(toParent[1], s) BY <1>1 DEF WakeAnswer
<1>3. Sent(s) = {} BY <1>1, <1>2 DEF Agreed, Ordered
<1>4. worker = "ready" => child[s].phase = IF Head(toParent).ok THEN "awake" ELSE "none"
  BY <1>1, <1>2 DEF Agreed, Served
<1>5. worker \notin {"down", "booting"} BY DEF Gone
<1>6. registry[s] = "waking" /\ \A j \in Rpcs : pending[j] = <<"wake", s>> => j = i
  BY DEF Proxies
<1>7. child[s].phase # "waking"
  <2> SUFFICES ASSUME child[s].phase = "waking" PROVE FALSE
    OBVIOUS
  <2>1. child[s].rpc # None BY DEF Agreed, Served
  <2>2. child[s].rpc \in Rpcs BY <2>1 DEF TypeOK, ChildTypes, Runtime
  <2>3. pending[child[s].rpc] = <<"wake", s>> /\ toParent[1].id # child[s].rpc
    BY <1>1, <2>1 DEF OneUse, WakeUse
  <2> QED BY <1>1, <1>6, <2>2, <2>3
<1>8. ASSUME NEW k \in DOMAIN toParent, WakeAnswer(toParent[k], s) PROVE k = 1
  <2>1. toParent[k].id \in Rpcs BY <1>8, Elements DEF WakeAnswer, Upward, OneUse, UpUse
  <2>2. toParent[k].id = toParent[1].id BY <1>1, <1>6, <1>8, <2>1 DEF WakeAnswer
  <2> QED BY <1>1, <1>8, <2>1, <2>2, WorkersAssumption DEF OneUse, UpUse, WakeAnswer
<1> QED BY <1>3, <1>4, <1>5, <1>6, <1>7, <1>8

(* What is left to report once the head of the pipe is read. *)
LEMMA ReportsLeft ==
  ASSUME TypeOK, TypeOK', OneUse, NEW s \in Sessions, toParent # <<>>, toParent' = Tail(toParent),
         \A k \in DOMAIN toParent' :
           toParent[k + 1].s = s => (Reports(toParent[k], s)' <=> Reports(toParent[k + 1], s)),
         NEW st,
         Reports(Head(toParent), s) => proxy'[s] = Head(toParent).status,
         ~Reports(Head(toParent), s) => proxy'[s] = proxy[s],
         LastSaid(s, st)
  PROVE  LastSaid(s, st)'
<1>1. /\ \A k \in DOMAIN toParent' : k + 1 \in DOMAIN toParent /\ toParent'[k] = toParent[k + 1]
                                     /\ k \in Nat \ {0}
      /\ \A k \in DOMAIN toParent : k # 1 => k - 1 \in DOMAIN toParent' /\ toParent'[k - 1] = toParent[k]
      /\ \A k \in DOMAIN toParent : k \in Nat /\ k >= 1
      /\ Head(toParent) = toParent[1] /\ 1 \in DOMAIN toParent
  <2>1. toParent \in Seq(Upward) BY DEF TypeOK, PipeTypes
  <2> QED BY <2>1, PipeHead
<1>2. \A k \in DOMAIN toParent' : Reports(toParent[k], s)' => Reports(toParent[k + 1], s)
  BY <1>1 DEF Reports
<1>3. \A k \in DOMAIN toParent : k # 1 /\ Reports(toParent[k], s) => Reports(toParent[k - 1], s)'
  <2> TAKE k \in DOMAIN toParent
  <2> HAVE k # 1 /\ Reports(toParent[k], s)
  <2>1. k - 1 \in DOMAIN toParent' /\ (k - 1) + 1 = k /\ toParent[k].s = s BY <1>1 DEF Reports
  <2> QED BY <2>1
<1>4. CASE \A k \in DOMAIN toParent : ~Reports(toParent[k], s)
  <2>1. proxy[s] = st /\ ~Reports(Head(toParent), s) BY <1>1, <1>4 DEF LastSaid
  <2>2. \A k \in DOMAIN toParent' : ~Reports(toParent[k], s)' BY <1>1, <1>2, <1>4
  <2> QED BY <2>1, <2>2 DEF LastSaid
<1>5. CASE \E k \in DOMAIN toParent : Reports(toParent[k], s)
  <2>1. PICK k \in DOMAIN toParent : /\ Reports(toParent[k], s) /\ toParent[k].status = st
                                     /\ \A l \in DOMAIN toParent : Reports(toParent[l],
                                          s) => l <= k
    BY <1>5 DEF LastSaid
  <2>2. CASE k = 1
    <3>1. \A l \in DOMAIN toParent' : ~Reports(toParent[l], s)'
      <4> TAKE l \in DOMAIN toParent'
      <4>1. l + 1 \in DOMAIN toParent /\ ~(l + 1 <= 1) BY <1>1
      <4> QED BY <1>2, <2>1, <2>2, <4>1
    <3>2. proxy'[s] = st BY <1>1, <2>1, <2>2
    <3> QED BY <3>1, <3>2 DEF LastSaid
  <2>3. CASE k # 1
    <3>1. k - 1 \in DOMAIN toParent' /\ toParent'[k - 1] = toParent[k] /\ Reports(toParent[k - 1], s)'
      BY <1>1, <1>3, <2>1, <2>3
    <3>2. \A l \in DOMAIN toParent' : Reports(toParent[l], s)' => l <= k - 1
      <4> TAKE l \in DOMAIN toParent'
      <4> HAVE Reports(toParent[l], s)'
      <4>1. l + 1 <= k BY <1>1, <1>2, <2>1
      <4> QED BY <1>1, <4>1
    <3> QED BY <2>1, <3>1, <3>2 DEF LastSaid
  <2> QED BY <2>2, <2>3
<1> QED BY <1>4, <1>5

(* No request is mistaken for none, nor for one of another kind or session. *)
LEMMA NoRequest ==
  ASSUME NEW x \in Sessions
  PROVE  /\ None # <<"wake", x>> /\ None # <<"sendEvent", x>> /\ None # <<"call", x>>
         /\ \A y : <<"sendEvent", y>> # <<"wake", x>> /\ <<"call", y>> # <<"wake", x>>
         /\ \A y : y # x => <<"wake", y>> # <<"wake", x>>
<1>1. None # <<"wake", x>> /\ None # <<"sendEvent", x>> /\ None # <<"call", x>>
  BY WorkersAssumption
<1> QED BY <1>1

(* The parent reads an event: the status goes to the proxy, if there is one. *)
LEMMA EventRead ==
  ASSUME IInv, TypeOK', NEW s \in Sessions, toParent # <<>>, toParent' = Tail(toParent),
         Head(toParent).s = s, Head(toParent).t = "event", Head(toParent).id = None,
         Head(toParent).status \in {"idle", "running"},
         UNCHANGED <<worker, child, turn, registry, waiting, pending, toChild>>,
         proxy' = [proxy EXCEPT ![s] = IF @ = "none" THEN @ ELSE Head(toParent).status]
  PROVE  Proxies' /\ OneUse' /\ \A x \in Sessions : Agreed(x)'
<1> USE DEF IInv
<1>1. \A k \in DOMAIN toParent' : /\ k + 1 \in DOMAIN toParent /\ toParent'[k] = toParent[k + 1]
                                  /\ k \in Nat \ {0}
  <2>1. toParent \in Seq(Upward) BY DEF TypeOK, PipeTypes
  <2> QED BY <2>1, PipeHead
<1>2. /\ \A x \in Sessions : x # s => proxy'[x] = proxy[x]
      /\ proxy'[s] = IF proxy[s] = "none" THEN "none" ELSE Head(toParent).status
  BY DEF TypeOK, ParentTypes
<1>3. \A x \in Sessions : proxy'[x] = "none" <=> proxy[x] = "none" BY <1>2
<1>4. Proxies' BY <1>3 DEF Proxies
<1>5. \A j \in Rpcs : j # Head(toParent).id BY WorkersAssumption
<1>6. OneUse' BY <1>5, ReadOneUse
<1>7. ASSUME NEW x \in Sessions, x # s PROVE Agreed(x)'
  <2>1. SameDown(x, 0) BY DownSame
  <2>2. SameUp(x, 1) BY <1>7, UpRead DEF SameWake
  <2> QED BY <1>2, <1>7, <2>1, <2>2, Elsewhere
<1>8. Agreed(s)'
  <2>1. \A k \in DOMAIN toParent' : WakeAnswer(toParent[k], s)' => WakeAnswer(toParent[k + 1], s)
    BY <1>1 DEF WakeAnswer
  <2>2. Sent(s)' = Sent(s) /\ (Disposing(s)' <=> Disposing(s)) BY DEF Sent, Disposing
  <2>3. Ordered(s)' BY <1>1, <1>3, <2>1, <2>2 DEF Agreed, Ordered
  <2>4. Served(s)' BY <1>1, <1>3, <2>1, <2>2 DEF Agreed, Served
  <2>5. Told(s)'
    <3> SUFFICES ASSUME worker = "ready", child[s].phase = "awake", ~child[s].unsent,
                        ~child[s].missed,
                        \A k \in Sent(s) : toChild[k].op \in {"sendEvent", "call"}
                 PROVE  LastSaid(s, child[s].sm)'
      BY <2>2 DEF Told
    <3>1. LastSaid(s, child[s].sm) BY DEF Agreed, Told
    <3>2. ~Disposing(s)
      <4>1. \A k \in Sent(s) : toChild[k].op # "dispose" OBVIOUS
      <4> QED BY <4>1 DEF Disposing
    <3>3. proxy[s] # "none" BY <3>2 DEF Agreed, Ordered, Served
    <3>4. Reports(Head(toParent), s) BY DEF Reports
    <3>5. \A k \in DOMAIN toParent' : Reports(toParent[k], s)' <=> Reports(toParent[k + 1], s)
      BY <1>1 DEF Reports, WakeAnswer
    <3> QED BY <1>2, <3>1, <3>3, <3>4, <3>5, ReportsLeft
  <2> QED BY <2>3, <2>4, <2>5 DEF Agreed
<1> QED BY <1>4, <1>6, <1>7, <1>8

(* The parent reads the reply to another request than a wake. *)
LEMMA ReplyRead ==
  ASSUME IInv, TypeOK', NEW s \in Sessions, NEW h \in Rpcs, NEW op \in {"sendEvent", "call"},
         toParent # <<>>, toParent' = Tail(toParent), pending[h] = <<op, s>>,
         Head(toParent).s = s, Head(toParent).t = "reply", Head(toParent).id = h,
         UNCHANGED <<worker, child, turn, registry, waiting, proxy, toChild>>,
         pending' = [pending EXCEPT ![h] = None]
  PROVE  Proxies' /\ OneUse' /\ \A x \in Sessions : Agreed(x)'
<1> USE DEF IInv
<1>1. \A k \in DOMAIN toParent' : /\ k + 1 \in DOMAIN toParent /\ toParent'[k] = toParent[k + 1]
                                  /\ k \in Nat \ {0}
  <2>1. toParent \in Seq(Upward) BY DEF TypeOK, PipeTypes
  <2> QED BY <2>1, PipeHead
<1>2. pending'[h] = None /\ \A j \in Rpcs : j # h => pending'[j] = pending[j]
  BY DEF TypeOK, ParentTypes
<1>3. \A x \in Sessions : SameWake(x)
  <2> SUFFICES ASSUME NEW x \in Sessions, NEW j \in Rpcs
               PROVE  pending'[j] = <<"wake", x>> <=> pending[j] = <<"wake", x>>
    BY DEF SameWake
  <2>1. pending[h] # <<"wake", x>> BY NoRequest
  <2> QED BY <1>2, <2>1, NoRequest
<1>4. Proxies' BY <1>3 DEF Proxies, SameWake
<1>5. OneUse'
  <2>1. \A j \in Rpcs : (j # Head(toParent).id /\ pending'[j] = pending[j]) \/ j = Head(toParent).id
    BY <1>2
  <2> QED BY <2>1, ReadOneUse
<1>6. ASSUME NEW x \in Sessions, x # s PROVE Agreed(x)'
  <2>1. SameDown(x, 0) BY DownSame
  <2>2. SameUp(x, 1) BY <1>3, <1>6, UpRead
  <2> QED BY <1>6, <2>1, <2>2, Elsewhere
<1>7. Agreed(s)'
  <2>1. \A k \in DOMAIN toParent' : WakeAnswer(toParent[k], s)' <=> WakeAnswer(toParent[k + 1], s)
    BY <1>1, <1>3, SameAnswer
  <2>2. Sent(s)' = Sent(s) /\ (Disposing(s)' <=> Disposing(s)) BY DEF Sent, Disposing
  <2>3. Ordered(s)' BY <1>1, <2>1, <2>2 DEF Agreed, Ordered
  <2>4. Served(s)' BY <1>1, <2>1, <2>2 DEF Agreed, Served
  <2>5. Told(s)'
    <3> SUFFICES ASSUME worker = "ready", child[s].phase = "awake", ~child[s].unsent,
                        ~child[s].missed,
                        \A k \in Sent(s) : toChild[k].op \in {"sendEvent", "call"}
                 PROVE  LastSaid(s, child[s].sm)'
      BY <2>2 DEF Told
    <3>1. LastSaid(s, child[s].sm) BY DEF Agreed, Told
    <3>2. ~Reports(Head(toParent), s) BY DEF Reports, WakeAnswer
    <3>3. \A k \in DOMAIN toParent' : Reports(toParent[k], s)' <=> Reports(toParent[k + 1], s)
      BY <1>1, <2>1 DEF Reports
    <3> QED BY <3>1, <3>2, <3>3, ReportsLeft
  <2> QED BY <2>3, <2>4, <2>5 DEF Agreed
<1> QED BY <1>4, <1>5, <1>6, <1>7

(* The parent reads that a wake was refused. *)
LEMMA RefusalRead ==
  ASSUME IInv, TypeOK', NEW s \in Sessions, NEW h \in Rpcs,
         toParent # <<>>, toParent' = Tail(toParent), pending[h] = <<"wake", s>>,
         Head(toParent).s = s, Head(toParent).t = "reply", Head(toParent).id = h,
              ~Head(toParent).ok,
         UNCHANGED <<worker, child, turn, toChild>>, WakeRejects(s),
         proxy' = [proxy EXCEPT ![s] = "none"], pending' = [pending EXCEPT ![h] = None]
  PROVE  Proxies' /\ OneUse' /\ \A x \in Sessions : Agreed(x)'
<1> USE DEF IInv
<1>1. /\ Sent(s) = {} /\ child[s].phase # "waking"
      /\ worker = "ready" => child[s].phase = "none"
      /\ \A j \in Rpcs : pending[j] = <<"wake", s>> => j = h
  BY WakeAnswered
<1>2. pending'[h] = None /\ \A j \in Rpcs : j # h => pending'[j] = pending[j]
  BY DEF TypeOK, ParentTypes
<1>3. \A x \in Sessions : /\ registry'[x] = IF x = s THEN "none" ELSE registry[x]
                          /\ proxy'[x] = IF x = s THEN "none" ELSE proxy[x]
  BY DEF WakeRejects, TypeOK, ParentTypes
<1>4. \A x \in Sessions : x # s => SameWake(x)
  <2> SUFFICES ASSUME NEW x \in Sessions, x # s, NEW j \in Rpcs
               PROVE  pending'[j] = <<"wake", x>> <=> pending[j] = <<"wake", x>>
    BY DEF SameWake
  <2>1. pending[h] # <<"wake", x>> BY NoRequest
  <2> QED BY <1>2, <2>1, NoRequest
<1>5. \A j \in Rpcs : pending'[j] # <<"wake", s>> BY <1>1, <1>2, WorkersAssumption
<1>6. Proxies'
  <2>1. \A x \in Sessions : /\ registry'[x] = "held" => proxy'[x] # "none"
                            /\ registry'[x] = "none" => proxy'[x] = "none"
    BY <1>3 DEF Proxies
  <2>2. \A i \in Rpcs, x \in Sessions : pending'[i] = <<"wake", x>> =>
          x # s /\ pending[i] = <<"wake", x>>
    BY <1>4, <1>5 DEF SameWake
  <2>3. ASSUME NEW i \in Rpcs, NEW x \in Sessions, pending'[i] = <<"wake", x>>
        PROVE  /\ registry'[x] = "waking" /\ proxy'[x] # "none"
               /\ \A j \in Rpcs : pending'[j] = <<"wake", x>> => j = i
    <3>1. x # s /\ pending[i] = <<"wake", x>> BY <2>2, <2>3
    <3>2. /\ registry[x] = "waking" /\ proxy[x] # "none"
          /\ \A j \in Rpcs : pending[j] = <<"wake", x>> => j = i
      BY <3>1 DEF Proxies
    <3> QED BY <1>3, <2>2, <3>1, <3>2
  <2> QED BY <2>1, <2>3 DEF Proxies
<1>7. OneUse'
  <2>1. \A j \in Rpcs : (j # Head(toParent).id /\ pending'[j] = pending[j]) \/ j = Head(toParent).id
    BY <1>2
  <2> QED BY <2>1, ReadOneUse
<1>8. ASSUME NEW x \in Sessions, x # s PROVE Agreed(x)'
  <2>1. SameDown(x, 0) BY DownSame
  <2>2. SameUp(x, 1) BY <1>4, <1>8, UpRead
  <2> QED BY <1>3, <1>8, <2>1, <2>2, Elsewhere
<1>9. Agreed(s)'
  <2>1. \A k \in DOMAIN toParent' : ~WakeAnswer(toParent[k], s)'
    <3> SUFFICES ASSUME NEW k \in DOMAIN toParent', WakeAnswer(toParent[k], s)' PROVE FALSE
      OBVIOUS
    <3>1. toParent'[k].id \in Rpcs BY <1>7, ElementsNext DEF WakeAnswer, Upward, OneUse, UpUse
    <3> QED BY <1>5, <3>1 DEF WakeAnswer
  <2>2. Sent(s)' = {} /\ ~Disposing(s)' BY <1>1 DEF Sent, Disposing
  <2>3. Ordered(s)' BY <1>1, <1>3, <2>1, <2>2 DEF Ordered
  <2>4. Served(s)' BY <1>1, <1>3, <2>1, <2>2 DEF Agreed, Served
  <2>5. Told(s)' BY <1>1 DEF Told
  <2> QED BY <2>3, <2>4, <2>5 DEF Agreed
<1> QED BY <1>6, <1>7, <1>8, <1>9

(* The parent reads that a runtime is up: it goes into the registry, and    *)
(* the requests that waited for it go down.                                 *)
LEMMA ResolvedRead ==
  ASSUME IInv, TypeOK', NEW s \in Sessions, NEW h \in Rpcs,
         toParent # <<>>, toParent' = Tail(toParent), pending[h] = <<"wake", s>>,
         Head(toParent).s = s, Head(toParent).t = "reply", Head(toParent).id = h,
              Head(toParent).ok,
         Head(toParent).status \in {"idle", "running"},
         UNCHANGED <<worker, child, turn>>, WakeResolves(s, h, Head(toParent).status)
  PROVE  Proxies' /\ OneUse' /\ \A x \in Sessions : Agreed(x)'
<1> USE DEF IInv
<1>1. /\ Sent(s) = {} /\ child[s].phase # "waking"
      /\ worker = "ready" => child[s].phase = "awake"
      /\ \A j \in Rpcs : pending[j] = <<"wake", s>> => j = h
      /\ \A k \in DOMAIN toParent : WakeAnswer(toParent[k], s) => k = 1
  BY WakeAnswered
<1>2. /\ pending'[h] = None
      /\ DOMAIN toChild \subseteq DOMAIN toChild'
      /\ \A k \in DOMAIN toChild : toChild'[k] = toChild[k]
      /\ \A k \in DOMAIN toChild' : k \notin DOMAIN toChild =>
           /\ toChild'[k].s = s /\ toChild'[k].op \in {"sendEvent",
                "call"} /\ toChild'[k].id \in Free
           /\ pending'[toChild'[k].id] = <<toChild'[k].op, s>>
           /\ \A l \in DOMAIN toChild' : toChild'[l].id = toChild'[k].id => l = k
      /\ \A j \in Rpcs : \/ j # h /\ pending'[j] = pending[j]
                         \/ j = h
                         \/ j \in Free /\ pending'[j] \in {<<"sendEvent", s>>, <<"call", s>>}
  <2>1. pending[h] # None BY NoRequest
  <2> DEFINE st == Head(toParent).status
  <2>2. WakeResolves(s, h, st) OBVIOUS
  <2> HIDE DEF st
  <2>3. SendsWaiting(s, h) BY <2>1, <2>2, Released
  <2> QED BY <2>3 DEF SendsWaiting
<1>3. \A x \in Sessions : /\ registry'[x] = IF x = s THEN "held" ELSE registry[x]
                          /\ proxy'[x] = IF x = s THEN Head(toParent).status ELSE proxy[x]
  BY DEF WakeResolves, TypeOK, ParentTypes
<1>4. \A x \in Sessions : x # s => SameWake(x)
  <2> SUFFICES ASSUME NEW x \in Sessions, x # s, NEW j \in Rpcs
               PROVE  pending'[j] = <<"wake", x>> <=> pending[j] = <<"wake", x>>
    BY DEF SameWake
  <2>1. j \in Free => pending[j] = None BY FreeId
  <2>2. pending[h] # <<"wake", x>> /\ pending'[h] # <<"wake", x>> BY <1>2, NoRequest
  <2>3. CASE j \in Free /\ pending'[j] \in {<<"sendEvent", s>>, <<"call", s>>}
    BY <2>1, <2>3, NoRequest
  <2> QED BY <1>2, <2>2, <2>3
<1>5. ASSUME NEW j \in Rpcs PROVE pending'[j] # <<"wake", s>>
  <2>1. CASE j = h BY <1>2, <2>1, NoRequest
  <2>2. CASE pending'[j] \in {<<"sendEvent", s>>, <<"call", s>>} BY <2>2, NoRequest
  <2> QED BY <1>1, <1>2, <2>1, <2>2
<1>6. Proxies'
  <2>1. \A x \in Sessions : /\ registry'[x] = "held" => proxy'[x] # "none"
                            /\ registry'[x] = "none" => proxy'[x] = "none"
    BY <1>3 DEF Proxies
  <2>2. \A i \in Rpcs, x \in Sessions : pending'[i] = <<"wake", x>> =>
          x # s /\ pending[i] = <<"wake", x>>
    BY <1>4, <1>5 DEF SameWake
  <2>3. \A i \in Rpcs, x \in Sessions : pending'[i] = <<"wake", x>> =>
          /\ registry'[x] = "waking" /\ proxy'[x] # "none"
          /\ \A j \in Rpcs : pending'[j] = <<"wake", x>> => j = i
    BY <1>3, <2>2 DEF Proxies
  <2> QED BY <2>1, <2>3 DEF Proxies
<1>7. OneUse'
  <2>1. \A j \in Rpcs : \/ j # Head(toParent).id /\ pending'[j] = pending[j]
                        \/ j = Head(toParent).id
                        \/ j \in Free
    BY <1>2
  <2> QED BY <1>2, <2>1, ReadOneUse
<1>8. ASSUME NEW x \in Sessions, x # s PROVE Agreed(x)'
  <2>1. SameDown(x, 0) BY <1>2, <1>8, DownGrows
  <2>2. SameUp(x, 1) BY <1>4, <1>8, UpRead
  <2> QED BY <1>3, <1>8, <2>1, <2>2, Elsewhere
<1>9. Agreed(s)'
  <2>1. \A k \in DOMAIN toParent' : ~WakeAnswer(toParent[k], s)'
    <3> SUFFICES ASSUME NEW k \in DOMAIN toParent', WakeAnswer(toParent[k], s)' PROVE FALSE
      OBVIOUS
    <3>1. toParent'[k].id \in Rpcs BY <1>7, ElementsNext DEF WakeAnswer, Upward, OneUse, UpUse
    <3> QED BY <1>5, <3>1 DEF WakeAnswer
  <2>2. \A k \in Sent(s)' : toChild'[k].op \in {"sendEvent", "call"}
    BY <1>1, <1>2 DEF Sent
  <2>3. \A k \in Sent(s)' : toChild'[k].op # "wake" /\ toChild'[k].op # "dispose" BY <2>2
  <2>4. ~Disposing(s)' BY <2>3 DEF Disposing
  <2>5. proxy'[s] # "none" /\ registry'[s] = "held" BY <1>3
  <2>6. Ordered(s)' BY <1>1, <2>1, <2>2, <2>3, <2>5 DEF Ordered
  <2>7. Served(s)' BY <1>1, <2>1, <2>4, <2>5 DEF Agreed, Served
  <2>8. Told(s)'
    <3> SUFFICES ASSUME worker = "ready", child[s].phase = "awake", ~child[s].unsent,
                        ~child[s].missed
                 PROVE  LastSaid(s, child[s].sm)'
      BY DEF Told
    <3>1. LastSaid(s, child[s].sm) BY <1>1 DEF Agreed, Told
    <3>2. Reports(Head(toParent), s) BY DEF Reports, WakeAnswer
    <3>3. \A k \in DOMAIN toParent' : /\ k + 1 \in DOMAIN toParent /\ k + 1 # 1
                                      /\ toParent'[k] = toParent[k + 1]
      <4>1. toParent \in Seq(Upward) BY DEF TypeOK, PipeTypes
      <4> QED BY <4>1, PipeHead
    <3>4. \A k \in DOMAIN toParent' : Reports(toParent[k], s)' <=> Reports(toParent[k + 1], s)
      BY <1>1, <2>1, <3>3 DEF Reports
    <3>5. proxy'[s] = Head(toParent).status BY <1>3
    <3> QED BY <3>1, <3>2, <3>4, <3>5, ReportsLeft
  <2> QED BY <2>6, <2>7, <2>8 DEF Agreed
<1> QED BY <1>6, <1>7, <1>8, <1>9

LEMMA ParentReadsKeeps == ASSUME IInv, ParentReads PROVE IInv'
<1> USE DEF IInv
<1> DEFINE m == Head(toParent)
           s == m.s
           h == m.id
<1>1. TypeOK' BY ParentReadsTypes
<1>2. toParent # <<>> /\ toParent' = Tail(toParent) /\ UNCHANGED <<worker, child, turn>>
  BY DEF ParentReads, inside
<1>3. /\ m = toParent[1] /\ 1 \in DOMAIN toParent /\ m \in Upward
      /\ \A k \in DOMAIN toParent' : k + 1 \in DOMAIN toParent /\ toParent'[k] = toParent[k + 1]
                                     /\ k \in Nat \ {0}
  <2>1. toParent \in Seq(Upward) BY DEF TypeOK, PipeTypes
  <2> QED BY <1>2, <2>1, PipeHead
<1>4. /\ s \in Sessions /\ m.t \in {"event", "reply"} /\ h \in Rpcs \cup {None}
      /\ m.status \in {"idle", "running"}
  BY <1>3 DEF Upward
<1>5. m.t = "event" => h = None
  <2>1. \A k \in DOMAIN toParent : toParent[k].t = "event" => toParent[k].id = None
    BY DEF OneUse, UpUse
  <2> QED BY <1>3, <2>1
<1>6. m.t # "event" => h # None /\ h \in Rpcs /\ \E op \in Asked : pending[h] = <<op, s>>
  <2>1. \A k \in DOMAIN toParent : toParent[k].t # "event" =>
          toParent[k].id # None /\ \E op \in Asked : pending[toParent[k].id] = <<op,
               toParent[k].s>>
    BY DEF OneUse, UpUse
  <2> QED BY <1>3, <1>4, <2>1
<1>7. worker \notin {"down", "booting"} BY <1>2 DEF Gone
<1>8. Gone' BY <1>2, <1>7 DEF Gone
<1>9. CASE m.t = "event"
  <2>1. /\ proxy' = [proxy EXCEPT ![s] = IF @ = "none" THEN @ ELSE m.status]
        /\ UNCHANGED <<registry, waiting, pending, toChild>>
    BY <1>9 DEF ParentReads
  <2>2. m.id = None /\ m.s = s /\ m.status \in {"idle", "running"} BY <1>4, <1>5, <1>9
  <2>3. Proxies' /\ OneUse' /\ \A x \in Sessions : Agreed(x)'
    BY <1>1, <1>2, <1>4, <1>9, <2>1, <2>2, EventRead
  <2> QED BY <1>1, <1>8, <2>3
<1>10. CASE m.t # "event" /\ pending[h] = <<"wake", s>> /\ m.ok
  <2>1. WakeResolves(s, h, m.status) BY <1>10 DEF ParentReads
  <2> QED BY <1>1, <1>2, <1>4, <1>6, <1>8, <1>10, <2>1, ResolvedRead
<1>11. CASE m.t # "event" /\ pending[h] = <<"wake", s>> /\ ~m.ok
  <2>1. /\ WakeRejects(s) /\ proxy' = [proxy EXCEPT ![s] = "none"]
        /\ pending' = [pending EXCEPT ![h] = None] /\ UNCHANGED toChild
    BY <1>11 DEF ParentReads
  <2> QED BY <1>1, <1>2, <1>4, <1>6, <1>8, <1>11, <2>1, RefusalRead
<1>12. CASE m.t # "event" /\ pending[h] # <<"wake", s>>
  <2>1. /\ pending' = [pending EXCEPT ![h] = None]
        /\ UNCHANGED <<registry, waiting, proxy, toChild>>
    BY <1>12 DEF ParentReads
  <2>2. PICK op \in {"sendEvent", "call"} : pending[h] = <<op, s>> BY <1>6, <1>12 DEF Asked
  <2> QED BY <1>1, <1>2, <1>4, <1>6, <1>8, <1>12, <2>1, <2>2, ReplyRead
<1> QED BY <1>9, <1>10, <1>11, <1>12

-----------------------------------------------------------------------------
(* The child reads a message.                                               *)

LEMMA AnswerFacts ==
  ASSUME TypeOK, NEW r \in Upward, toParent' = Append(toParent, r)
  PROVE  \E n \in Nat :
           /\ DOMAIN toParent' = DOMAIN toParent \cup {n} /\ n \notin DOMAIN toParent
           /\ toParent'[n] = r
           /\ \A k \in DOMAIN toParent : toParent'[k] = toParent[k] /\ k < n
<1>1. toParent \in Seq(Upward) BY DEF TypeOK, PipeTypes
<1> QED BY <1>1, Appended

(* What was said last stays so while only other things are said, and what   *)
(* is said at the end is said last.                                         *)
LEMMA LastSaidKept ==
  ASSUME TypeOK, NEW s \in Sessions, NEW st, proxy'[s] = proxy[s],
         DOMAIN toParent \subseteq DOMAIN toParent',
         \A k \in DOMAIN toParent : /\ toParent'[k] = toParent[k]
                                    /\ Reports(toParent[k], s)' <=> Reports(toParent[k], s),
         \A k \in DOMAIN toParent' : k \notin DOMAIN toParent => ~Reports(toParent[k], s)',
         LastSaid(s, st)
  PROVE  LastSaid(s, st)'
<1>1. \A k \in DOMAIN toParent' : Reports(toParent[k],
     s)' => k \in DOMAIN toParent /\ Reports(toParent[k], s)
  OBVIOUS
<1>2. CASE \A k \in DOMAIN toParent : ~Reports(toParent[k], s) BY <1>1, <1>2 DEF LastSaid
<1>3. CASE \E k \in DOMAIN toParent : Reports(toParent[k], s)
  <2>1. PICK k \in DOMAIN toParent : /\ Reports(toParent[k], s) /\ toParent[k].status = st
                                     /\ \A l \in DOMAIN toParent : Reports(toParent[l],
                                          s) => l <= k
    BY <1>3 DEF LastSaid
  <2>2. /\ k \in DOMAIN toParent' /\ Reports(toParent[k], s)' /\ toParent'[k].status = st
        /\ \A l \in DOMAIN toParent' : Reports(toParent[l], s)' => l <= k
    BY <1>1, <2>1
  <2> QED BY <2>2 DEF LastSaid
<1> QED BY <1>2, <1>3

LEMMA LastSaidNew ==
  ASSUME NEW s \in Sessions, NEW n \in DOMAIN toParent', Reports(toParent[n], s)',
         NEW st, toParent'[n].status = st, \A k \in DOMAIN toParent' : k <= n
  PROVE  LastSaid(s, st)'
BY DEF LastSaid

(* What the head of the pipe down stands for. *)
LEMMA HeadUse ==
  ASSUME TypeOK, OneUse, toChild # <<>>, Head(toChild).op # "dispose"
  PROVE  /\ Head(toChild).id # None /\ Head(toChild).id \in Rpcs /\ turn[Head(toChild).id] = NoTurn
         /\ Head(toChild).op \in Asked
         /\ pending[Head(toChild).id] = <<Head(toChild).op, Head(toChild).s>>
         /\ \A k \in DOMAIN toChild : toChild[k].id = Head(toChild).id => k = 1
         /\ \A s \in Sessions : child[s].rpc # Head(toChild).id
         /\ \A l \in DOMAIN toParent : toParent[l].id # Head(toChild).id
<1>1. Head(toChild) = toChild[1] /\ 1 \in DOMAIN toChild /\ Head(toChild) \in Downward
  <2>1. toChild \in Seq(Downward) BY DEF TypeOK, PipeTypes
  <2> QED BY <2>1, PipeHead
<1>2. \A k \in DOMAIN toChild : toChild[k].op # "dispose" =>
        /\ toChild[k].id # None
        /\ pending[toChild[k].id] = <<toChild[k].op,
             toChild[k].s>> /\ turn[toChild[k].id] = NoTurn
        /\ \A l \in DOMAIN toChild : toChild[l].id = toChild[k].id => l = k
        /\ \A s \in Sessions : child[s].rpc # toChild[k].id
        /\ \A l \in DOMAIN toParent : toParent[l].id # toChild[k].id
  BY DEF OneUse, DownUse
<1>3. Head(toChild).id \in Rpcs \cup {None} /\ Head(toChild).op \in Ops BY <1>1 DEF Downward
<1> QED BY <1>1, <1>2, <1>3 DEF Ops

LEMMA AnswerOneUse ==
  ASSUME TypeOK, OneUse, toChild # <<>>, toChild' = Tail(toChild), NEW r \in Upward,
         toParent' = Append(toParent, r), UNCHANGED <<pending, child, turn>>,
         Head(toChild).op # "dispose", r.t = "reply", r.id = Head(toChild).id,
              r.s = Head(toChild).s
  PROVE  OneUse'
<1> DEFINE i == Head(toChild).id
<1>1. PICK n \in Nat :
           /\ DOMAIN toParent' = DOMAIN toParent \cup {n} /\ n \notin DOMAIN toParent
           /\ toParent'[n] = r
           /\ \A k \in DOMAIN toParent : toParent'[k] = toParent[k] /\ k < n
  BY AnswerFacts
<1>2. /\ \A k \in DOMAIN toChild' : /\ k + 1 \in DOMAIN toChild /\ toChild'[k] = toChild[k + 1]
                                    /\ k \in Nat \ {0}
      /\ Head(toChild) = toChild[1] /\ 1 \in DOMAIN toChild /\ Head(toChild) \in Downward
  <2>1. toChild \in Seq(Downward) BY DEF TypeOK, PipeTypes
  <2> QED BY <2>1, PipeHead
<1>3. /\ i # None /\ i \in Rpcs /\ turn[i] = NoTurn
      /\ Head(toChild).op \in Asked /\ pending[i] = <<Head(toChild).op, Head(toChild).s>>
      /\ \A k \in DOMAIN toChild : toChild[k].id = i => k = 1
      /\ \A s \in Sessions : child[s].rpc # i
      /\ \A l \in DOMAIN toParent : toParent[l].id # i
  BY HeadUse
<1> HIDE DEF i
<1>4. r.id = i BY DEF i
<1>5. DownUse'
  <2> SUFFICES ASSUME NEW k \in DOMAIN toChild'
               PROVE  IF toChild'[k].id = None THEN toChild'[k].op = "dispose"
                      ELSE /\ pending[toChild'[k].id] = <<toChild'[k].op, toChild'[k].s>>
                           /\ turn[toChild'[k].id] = NoTurn
                           /\ \A l \in DOMAIN toChild' : toChild'[l].id = toChild'[k].id => l = k
                           /\ \A s \in Sessions : child[s].rpc # toChild'[k].id
                           /\ \A l \in DOMAIN toParent' : toParent'[l].id # toChild'[k].id
    BY DEF DownUse
  <2>1. k + 1 \in DOMAIN toChild /\ toChild'[k] = toChild[k + 1] /\ k + 1 # 1 BY <1>2
  <2>2. toChild'[k].id # i BY <1>3, <2>1
  <2>3. ASSUME toChild'[k].id # None, NEW l \in DOMAIN toChild', toChild'[l].id = toChild'[k].id
        PROVE  l = k
    <3>1. l + 1 = k + 1 BY <1>2, <2>1, <2>3 DEF OneUse, DownUse
    <3> QED BY <1>2, <3>1
  <2>4. \A l \in DOMAIN toParent' : toParent'[l].id = i \/ \E j \in DOMAIN toParent : toParent'[l] = toParent[j]
    BY <1>1, <1>4
  <2>5. IF toChild[k + 1].id = None THEN toChild[k + 1].op = "dispose"
        ELSE /\ pending[toChild[k + 1].id] = <<toChild[k + 1].op, toChild[k + 1].s>>
             /\ turn[toChild[k + 1].id] = NoTurn
             /\ \A s \in Sessions : child[s].rpc # toChild[k + 1].id
             /\ \A l \in DOMAIN toParent : toParent[l].id # toChild[k + 1].id
    BY <2>1 DEF OneUse, DownUse
  <2> QED BY <2>1, <2>2, <2>3, <2>4, <2>5
<1>6. WakeUse' BY <1>1, <1>3, <1>4 DEF OneUse, WakeUse
<1>7. TurnUse' BY <1>1, <1>3, <1>4 DEF OneUse, TurnUse
<1>8. UpUse'
  <2>1. ASSUME NEW k \in DOMAIN toParent
        PROVE  IF toParent'[k].t = "event" THEN toParent'[k].id = None
               ELSE /\ toParent'[k].id # None
                    /\ \E op \in Asked : pending[toParent'[k].id] = <<op, toParent'[k].s>>
                    /\ \A l \in DOMAIN toParent' : toParent'[l].id = toParent'[k].id => l = k
    <3>1. toParent'[k] = toParent[k] BY <1>1
    <3>2. IF toParent[k].t = "event" THEN toParent[k].id = None
               ELSE /\ toParent[k].id # None
                    /\ \E op \in Asked : pending[toParent[k].id] = <<op, toParent[k].s>>
                    /\ \A l \in DOMAIN toParent : toParent[l].id = toParent[k].id => l = k
      BY DEF OneUse, UpUse
    <3>3. toParent[k].id # i BY <1>3
    <3> QED BY <1>1, <1>4, <3>1, <3>2, <3>3
  <2>2. /\ r.t # "event" /\ r.id # None /\ \E op \in Asked : pending[r.id] = <<op, r.s>>
        /\ \A l \in DOMAIN toParent' : toParent'[l].id = r.id => l = n
    BY <1>1, <1>3, <1>4
  <2> QED BY <1>1, <2>1, <2>2 DEF UpUse
<1> QED BY <1>5, <1>6, <1>7, <1>8 DEF OneUse

LEMMA ReadFacts ==
  ASSUME IInv, toChild # <<>>, toChild' = Tail(toChild)
  PROVE  /\ Head(toChild) \in Downward /\ Head(toChild).s \in Sessions
         /\ Head(toChild) = toChild[1] /\ 1 \in Sent(Head(toChild).s)
         /\ \A k \in DOMAIN toChild' : /\ k + 1 \in DOMAIN toChild /\ toChild'[k] = toChild[k + 1]
                                       /\ k \in Nat \ {0}
         /\ \A x \in Sessions :
              /\ \A k \in Sent(x)' : k \in DOMAIN toChild' /\ k + 1 \in Sent(x) /\ 1 < k + 1
              /\ \A k \in Sent(x) : k # 1 => k - 1 \in Sent(x)' /\ toChild'[k - 1] = toChild[k]
         /\ child[Head(toChild).s].phase # "waking"
         /\ \A k \in DOMAIN toParent : ~WakeAnswer(toParent[k], Head(toChild).s)
<1>1. toChild \in Seq(Downward) BY DEF IInv, TypeOK, PipeTypes
<1>2. /\ Head(toChild) \in Downward /\ Head(toChild) = toChild[1] /\ 1 \in DOMAIN toChild
      /\ \A k \in DOMAIN toChild' : /\ k + 1 \in DOMAIN toChild /\ toChild'[k] = toChild[k + 1]
                                    /\ k \in Nat \ {0}
      /\ \A k \in DOMAIN toChild : k # 1 => k - 1 \in DOMAIN toChild' /\ toChild'[k - 1] = toChild[k]
  BY <1>1, PipeHead
<1>3. Head(toChild).s \in Sessions /\ 1 \in Sent(Head(toChild).s) BY <1>2 DEF Downward, Sent
<1>4. \A x \in Sessions :
              /\ \A k \in Sent(x)' : k \in DOMAIN toChild' /\ k + 1 \in Sent(x) /\ 1 < k + 1
              /\ \A k \in Sent(x) : k # 1 => k - 1 \in Sent(x)' /\ toChild'[k - 1] = toChild[k]
  BY <1>2 DEF Sent
<1>5. /\ child[Head(toChild).s].phase # "waking"
      /\ \A k \in DOMAIN toParent : ~WakeAnswer(toParent[k], Head(toChild).s)
  <2>1. Sent(Head(toChild).s) # {} BY <1>3
  <2> QED BY <1>3, <2>1 DEF IInv, Agreed, Ordered
<1> QED BY <1>2, <1>3, <1>4, <1>5

(* The order of what is left is the order it was sent in. *)
LEMMA OrderLeft ==
  ASSUME IInv, toChild # <<>>, toChild' = Tail(toChild), NEW x \in Sessions
  PROVE  \A k, l \in Sent(x)' : k < l =>
           /\ toChild'[k].op # "wake"
           /\ toChild'[k].op = "dispose" => toChild'[l].op = "wake"
<1> TAKE k, l \in Sent(x)'
<1> HAVE k < l
<1>1. /\ k \in DOMAIN toChild' /\ l \in DOMAIN toChild' /\ k + 1 \in Sent(x) /\ l + 1 \in Sent(x)
      /\ toChild'[k] = toChild[k + 1] /\ toChild'[l] = toChild[l + 1] /\ k \in Nat /\ l \in Nat
  BY ReadFacts
<1>2. k + 1 < l + 1 BY <1>1
<1> QED BY <1>1, <1>2 DEF IInv, Agreed, Ordered

LEMMA WakeRead ==
  ASSUME IInv, TypeOK', NEW s \in Sessions, toChild # <<>>, toChild' = Tail(toChild),
         worker = "ready", UNCHANGED <<registry, proxy, pending, worker, toParent, turn>>,
         Head(toChild).s = s, Head(toChild).op = "wake", child[s].phase = "none",
         child' = [child EXCEPT ![s] = [NoRuntime EXCEPT !.phase = "waking",
                                                         !.rpc = Head(toChild).id]]
  PROVE  OneUse' /\ \A x \in Sessions : Agreed(x)'
<1> USE DEF IInv
<1> DEFINE i == Head(toChild).id
<1>1. /\ i # None /\ i \in Rpcs /\ turn[i] = NoTurn /\ pending[i] = <<"wake", s>>
      /\ \A k \in DOMAIN toChild : toChild[k].id = i => k = 1
      /\ \A l \in DOMAIN toParent : toParent[l].id # i
  BY HeadUse
<1> HIDE DEF i
<1>2. /\ \A x \in Sessions : x # s => child'[x] = child[x]
      /\ child'[s].phase = "waking" /\ child'[s].rpc = i
      /\ child'[s].sm = "idle" /\ ~child'[s].unsent
  <2> DEFINE o == [NoRuntime EXCEPT !.phase = "waking", !.rpc = Head(toChild).id]
  <2>1. o.phase = "waking" /\ o.rpc = i /\ o.sm = "idle" /\ ~o.unsent BY DEF NoRuntime, i
  <2>2. child' = [child EXCEPT ![s] = o] /\ child \in [Sessions -> Runtime]
    BY DEF TypeOK, ChildTypes
  <2> HIDE DEF o
  <2> QED BY <2>1, <2>2
<1>3. \A k \in DOMAIN toChild' : /\ k + 1 \in DOMAIN toChild /\ toChild'[k] = toChild[k + 1]
                                 /\ k \in Nat \ {0} /\ k + 1 # 1
  BY ReadFacts
<1>4. Sent(s)' = {}
  <2> SUFFICES ASSUME NEW k \in Sent(s)' PROVE FALSE
    OBVIOUS
  <2>1. k + 1 \in Sent(s) /\ 1 < k + 1 /\ 1 \in Sent(s) /\ toChild[1].op = "wake" BY ReadFacts
  <2> QED BY <2>1 DEF Agreed, Ordered
<1>5. \A k \in DOMAIN toParent : ~WakeAnswer(toParent[k], s) BY ReadFacts
<1>6. OneUse'
  <2>1. DownUse'
    <3> SUFFICES ASSUME NEW k \in DOMAIN toChild'
                 PROVE  IF toChild'[k].id = None THEN toChild'[k].op = "dispose"
                        ELSE /\ pending[toChild'[k].id] = <<toChild'[k].op, toChild'[k].s>>
                             /\ turn[toChild'[k].id] = NoTurn
                             /\ \A l \in DOMAIN toChild' : toChild'[l].id = toChild'[k].id => l = k
                             /\ \A x \in Sessions : child'[x].rpc # toChild'[k].id
                             /\ \A l \in DOMAIN toParent : toParent[l].id # toChild'[k].id
      BY DEF DownUse
    <3>1. IF toChild[k + 1].id = None THEN toChild[k + 1].op = "dispose"
          ELSE /\ pending[toChild[k + 1].id] = <<toChild[k + 1].op, toChild[k + 1].s>>
               /\ turn[toChild[k + 1].id] = NoTurn
               /\ \A l \in DOMAIN toChild : toChild[l].id = toChild[k + 1].id => l = k + 1
               /\ \A x \in Sessions : child[x].rpc # toChild[k + 1].id
               /\ \A l \in DOMAIN toParent : toParent[l].id # toChild[k + 1].id
      BY <1>3 DEF OneUse, DownUse
    <3>2. toChild'[k] = toChild[k + 1] /\ toChild'[k].id # i BY <1>1, <1>3
    <3>3. ASSUME toChild'[k].id # None, NEW l \in DOMAIN toChild', toChild'[l].id = toChild'[k].id
          PROVE  l = k
      <4>1. l + 1 = k + 1 BY <1>3, <3>1, <3>2, <3>3
      <4> QED BY <1>3, <4>1
    <3> QED BY <1>2, <3>1, <3>2, <3>3
  <2>2. WakeUse'
    <3> SUFFICES ASSUME NEW x \in Sessions, child'[x].rpc # None
                 PROVE  /\ child'[x].phase = "waking"
                        /\ pending[child'[x].rpc] = <<"wake", x>> /\ turn[child'[x].rpc] = NoTurn
                        /\ \A l \in DOMAIN toParent : toParent[l].id # child'[x].rpc
      BY DEF WakeUse
    <3>1. CASE x = s BY <1>1, <1>2, <3>1
    <3>2. CASE x # s BY <1>2, <3>2 DEF OneUse, WakeUse
    <3> QED BY <3>1, <3>2
  <2> QED BY <2>1, <2>2 DEF OneUse, TurnUse, UpUse
<1>7. ASSUME NEW x \in Sessions, x # s PROVE Agreed(x)'
  <2>1. SameDown(x, 1) BY <1>7, DownRead
  <2>2. SameUp(x, 0) BY UpSame DEF SameWake
  <2> QED BY <1>2, <1>7, <2>1, <2>2, Elsewhere
<1>8. Agreed(s)'
  <2>1. \A k \in DOMAIN toParent' : ~WakeAnswer(toParent[k], s)' BY <1>5 DEF WakeAnswer
  <2>2. ~Disposing(s)' BY <1>4 DEF Disposing
  <2>3. proxy[s] # "none" /\ registry[s] = "waking" BY <1>1 DEF Proxies
  <2>4. Ordered(s)' BY <1>4, <2>1, <2>3 DEF Ordered
  <2>5. Served(s)' BY <1>1, <1>2, <2>1, <2>2, <2>3 DEF Agreed, Served
  <2>6. Told(s)' BY <1>2 DEF Told
  <2> QED BY <2>4, <2>5, <2>6 DEF Agreed
<1> QED BY <1>6, <1>7, <1>8

LEMMA WakeAnsweredAtOnce ==
  ASSUME IInv, TypeOK', NEW s \in Sessions, toChild # <<>>, toChild' = Tail(toChild),
         worker = "ready", UNCHANGED <<registry, proxy, pending, worker, child, turn>>,
         Head(toChild).s = s, Head(toChild).op = "wake", child[s].phase # "none",
         toParent' = Append(toParent, Reply(s, Head(toChild).id, child[s].sm))
  PROVE  OneUse' /\ \A x \in Sessions : Agreed(x)'
<1> USE DEF IInv
<1> DEFINE r == Reply(s, Head(toChild).id, child[s].sm)
<1>1. r \in Upward
  BY ReadFacts DEF Reply, Upward, Downward, TypeOK, ChildTypes, Runtime
<1>2. /\ r.t = "reply" /\ r.id = Head(toChild).id /\ r.s = s /\ r.ok /\ r.status = child[s].sm
  BY DEF Reply
<1>3. toParent' = Append(toParent, r) OBVIOUS
<1> HIDE DEF r
<1>4. OneUse' BY <1>1, <1>2, <1>3, AnswerOneUse
<1>5. PICK n \in Nat :
           /\ DOMAIN toParent' = DOMAIN toParent \cup {n} /\ n \notin DOMAIN toParent
           /\ toParent'[n] = r
           /\ \A k \in DOMAIN toParent : toParent'[k] = toParent[k] /\ k < n
  BY <1>1, <1>3, AnswerFacts
<1>6. pending[r.id] = <<"wake", s>> /\ r.id \in Rpcs BY <1>2, HeadUse
<1>7. Sent(s)' = {}
  <2> SUFFICES ASSUME NEW k \in Sent(s)' PROVE FALSE
    OBVIOUS
  <2>1. k + 1 \in Sent(s) /\ 1 < k + 1 /\ 1 \in Sent(s) /\ toChild[1].op = "wake" BY ReadFacts
  <2> QED BY <2>1 DEF Agreed, Ordered
<1>8. ASSUME NEW x \in Sessions, x # s PROVE Agreed(x)'
  <2>1. SameDown(x, 1) BY <1>8, DownRead
  <2>2. SameUp(x, 0) BY <1>1, <1>2, <1>3, <1>8, UpAppended DEF SameWake
  <2> QED BY <1>8, <2>1, <2>2, Elsewhere
<1>9. Agreed(s)'
  <2>1. child[s].phase = "awake"
    <3>1. child[s].phase # "waking" BY ReadFacts
    <3> QED BY <3>1 DEF TypeOK, ChildTypes, Runtime
  <2>2. \A k \in DOMAIN toParent : ~WakeAnswer(toParent[k], s) BY ReadFacts
  <2>3. \A k \in DOMAIN toParent' : WakeAnswer(toParent[k], s)' => toParent'[k].ok
    <3>1. toParent'[n].ok BY <1>2, <1>5
    <3>2. \A k \in DOMAIN toParent : ~WakeAnswer(toParent[k], s)'
      BY <1>5, <2>2 DEF WakeAnswer
    <3> QED BY <1>5, <3>1, <3>2
  <2>4. ~Disposing(s)' BY <1>7 DEF Disposing
  <2>5. proxy[s] # "none" /\ registry[s] = "waking" BY <1>6 DEF Proxies
  <2>6. Ordered(s)' BY <1>7, <2>5 DEF Ordered
  <2>7. Served(s)' BY <2>1, <2>3, <2>4, <2>5 DEF Agreed, Served
  <2>8. Told(s)'
    <3>1. Reports(toParent[n], s)' BY <1>2, <1>5, <1>6 DEF Reports, WakeAnswer
    <3>2. \A k \in DOMAIN toParent' : k <= n BY <1>5, Elements
    <3>3. LastSaid(s, child[s].sm)' BY <1>2, <1>5, <3>1, <3>2 DEF LastSaid
    <3> QED BY <3>3 DEF Told
  <2> QED BY <2>6, <2>7, <2>8 DEF Agreed
<1> QED BY <1>4, <1>8, <1>9

LEMMA DisposeRead ==
  ASSUME IInv, TypeOK', NEW s \in Sessions, toChild # <<>>, toChild' = Tail(toChild),
         worker = "ready", UNCHANGED <<registry, proxy, pending, worker, toParent>>,
         Head(toChild).s = s, Head(toChild).op = "dispose",
         child' = [child EXCEPT ![s] = NoRuntime],
         turn' = [i \in Rpcs |-> [turn[i] EXCEPT !.kept = @ /\ turn[i].s # s]]
  PROVE  OneUse' /\ \A x \in Sessions : Agreed(x)'
<1> USE DEF IInv
<1>1. /\ \A x \in Sessions : x # s => child'[x] = child[x]
      /\ child'[s] = NoRuntime /\ NoRuntime.phase = "none" /\ NoRuntime.rpc = None
  BY DEF TypeOK, ChildTypes, NoRuntime
<1>2. \A i \in Rpcs : turn[i] \in Turn BY DEF TypeOK, ChildTypes
<1>3. ASSUME NEW i \in Rpcs
      PROVE  /\ turn'[i].s = turn[i].s /\ turn'[i].phase = turn[i].phase
             /\ turn'[i].kept <=> turn[i].kept /\ turn[i].s # s
             /\ turn[i].s # s => turn'[i] = turn[i]
             /\ turn[i] = NoTurn <=> turn'[i] = NoTurn
  <2>1. turn'[i] = [turn[i] EXCEPT !.kept = turn[i].kept /\ turn[i].s # s] OBVIOUS
  <2>2. turn[i] \in Turn /\ turn'[i] \in Turn BY <1>2 DEF TypeOK, ChildTypes
  <2>3. turn'[i].s = turn[i].s /\ turn'[i].phase = turn[i].phase BY <2>1, <2>2 DEF Turn
  <2>4. turn'[i].kept <=> turn[i].kept /\ turn[i].s # s
    <3>1. turn'[i].kept = (turn[i].kept /\ turn[i].s # s) BY <2>1, <2>2 DEF Turn
    <3> QED BY <3>1
  <2>5. turn[i].s # s => turn'[i] = turn[i]
    <3> SUFFICES ASSUME turn[i].s # s PROVE turn'[i] = turn[i]
      OBVIOUS
    <3>1. turn'[i].kept = turn[i].kept BY <2>2, <2>4 DEF Turn
    <3> QED BY <2>2, <2>3, <3>1 DEF Turn
  <2>6. turn[i] = NoTurn => turn'[i] = NoTurn BY <2>5, WorkersAssumption DEF NoTurn
  <2>7. turn'[i] = NoTurn => turn[i] = NoTurn
    <3> SUFFICES ASSUME turn'[i] = NoTurn PROVE turn[i] = NoTurn
      OBVIOUS
    <3>1. turn[i].s = None BY <2>3 DEF NoTurn
    <3> QED BY <2>5, <3>1, WorkersAssumption
  <2> QED BY <2>3, <2>4, <2>5, <2>6, <2>7
<1>4. \A k \in DOMAIN toChild' : /\ k + 1 \in DOMAIN toChild /\ toChild'[k] = toChild[k + 1]
                                 /\ k \in Nat \ {0}
  BY ReadFacts
<1>5. OneUse'
  <2>1. DownUse'
    <3> SUFFICES ASSUME NEW k \in DOMAIN toChild'
                 PROVE  IF toChild'[k].id = None THEN toChild'[k].op = "dispose"
                        ELSE /\ pending[toChild'[k].id] = <<toChild'[k].op, toChild'[k].s>>
                             /\ turn'[toChild'[k].id] = NoTurn
                             /\ \A l \in DOMAIN toChild' : toChild'[l].id = toChild'[k].id => l = k
                             /\ \A x \in Sessions : child'[x].rpc # toChild'[k].id
                             /\ \A l \in DOMAIN toParent : toParent[l].id # toChild'[k].id
      BY DEF DownUse
    <3>1. IF toChild[k + 1].id = None THEN toChild[k + 1].op = "dispose"
          ELSE /\ pending[toChild[k + 1].id] = <<toChild[k + 1].op, toChild[k + 1].s>>
               /\ turn[toChild[k + 1].id] = NoTurn
               /\ \A l \in DOMAIN toChild : toChild[l].id = toChild[k + 1].id => l = k + 1
               /\ \A x \in Sessions : child[x].rpc # toChild[k + 1].id
               /\ \A l \in DOMAIN toParent : toParent[l].id # toChild[k + 1].id
      BY <1>4 DEF OneUse, DownUse
    <3>2. toChild'[k] = toChild[k + 1] /\ toChild[k + 1].id \in Rpcs \cup {None}
      BY <1>4, Elements DEF Downward
    <3>3. ASSUME toChild'[k].id # None, NEW l \in DOMAIN toChild', toChild'[l].id = toChild'[k].id
          PROVE  l = k
      <4>1. l + 1 = k + 1 BY <1>4, <3>1, <3>2, <3>3
      <4> QED BY <1>4, <4>1
    <3> QED BY <1>1, <1>3, <3>1, <3>2, <3>3
  <2>2. WakeUse'
    <3> SUFFICES ASSUME NEW x \in Sessions, child'[x].rpc # None
                 PROVE  /\ child'[x].phase = "waking"
                        /\ pending[child'[x].rpc] = <<"wake", x>> /\ turn'[child'[x].rpc] = NoTurn
                        /\ \A l \in DOMAIN toParent : toParent[l].id # child'[x].rpc
      BY DEF WakeUse
    <3>1. x # s /\ child'[x] = child[x] BY <1>1
    <3>2. child[x].rpc \in Rpcs BY <3>1 DEF TypeOK, ChildTypes, Runtime
    <3> QED BY <1>3, <3>1, <3>2 DEF OneUse, WakeUse
  <2>3. TurnUse' BY <1>3 DEF OneUse, TurnUse
  <2> QED BY <2>1, <2>2, <2>3 DEF OneUse, UpUse
<1>6. ASSUME NEW x \in Sessions, x # s PROVE Agreed(x)'
  <2>1. SameDown(x, 1) BY <1>6, DownRead
  <2>2. SameUp(x, 0) BY UpSame DEF SameWake
  <2>3. \A i \in Rpcs : turn'[i].s = x => turn'[i] = turn[i] BY <1>3, <1>6
  <2> QED BY <1>1, <1>6, <2>1, <2>2, <2>3, Elsewhere
<1>7. Agreed(s)'
  <2>1. 1 \in Sent(s) /\ toChild[1].op = "dispose" BY ReadFacts
  <2>2. \A k \in Sent(s)' : /\ k \in DOMAIN toChild' /\ k + 1 \in Sent(s) /\ 1 < k + 1
                            /\ toChild'[k] = toChild[k + 1]
    BY ReadFacts
  <2>3. \A k \in Sent(s)' : toChild'[k].op = "wake" BY <2>1, <2>2 DEF Agreed, Ordered
  <2>4. ~Disposing(s)' BY <2>3 DEF Disposing
  <2>5. registry[s] # "held" BY <2>1 DEF Agreed, Ordered
  <2>6. Sent(s)' # {} => proxy[s] # "none"
    <3> SUFFICES ASSUME NEW k \in Sent(s)' PROVE proxy[s] # "none"
      OBVIOUS
    <3>1. k \in DOMAIN toChild' /\ toChild'[k].op = "wake" /\ toChild'[k].s = s
      BY <2>3 DEF Sent
    <3>2. toChild'[k].id \in Rpcs /\ pending[toChild'[k].id] = <<"wake", s>>
      <4>1. toChild'[k].id # None BY <1>5, <3>1 DEF OneUse, DownUse
      <4>2. toChild'[k].id \in Rpcs BY <3>1, <4>1, ElementsNext DEF Downward
      <4>3. \A l \in DOMAIN toChild' : toChild'[l].id # None =>
              pending'[toChild'[l].id] = <<toChild'[l].op, toChild'[l].s>>
        BY <1>5 DEF OneUse, DownUse
      <4> QED BY <3>1, <4>1, <4>2, <4>3
    <3> QED BY <3>2 DEF Proxies
  <2>7. \A k \in DOMAIN toParent : ~WakeAnswer(toParent[k], s) BY ReadFacts
  <2>8. \A k \in DOMAIN toParent' : ~WakeAnswer(toParent[k], s)' BY <2>7 DEF WakeAnswer
  <2>9. Ordered(s)' BY <1>1, <2>5, <2>6, <2>8, OrderLeft DEF Ordered
  <2>10. Served(s)'
    <3>1. \A i \in Rpcs : ~(turn'[i].s = s /\ turn'[i].kept) BY <1>3
    <3> QED BY <1>1, <2>4, <2>5, <2>8, <3>1 DEF Served
  <2>11. Told(s)' BY <1>1 DEF Told
  <2> QED BY <2>9, <2>10, <2>11 DEF Agreed
<1> QED BY <1>5, <1>6, <1>7

(* A message or a call is read: neither says anything about the runtime. *)
LEMMA PlainRead ==
  ASSUME IInv, TypeOK', NEW s \in Sessions, toChild # <<>>, toChild' = Tail(toChild),
         worker = "ready", UNCHANGED <<registry, proxy, pending, worker, child>>,
         Head(toChild).s = s, Head(toChild).op \in {"sendEvent", "call"},
         DOMAIN toParent \subseteq DOMAIN toParent',
         \A k \in DOMAIN toParent : toParent'[k] = toParent[k],
         \A k \in DOMAIN toParent' : k \notin DOMAIN toParent =>
           toParent'[k].t = "reply" /\ toParent'[k].id = Head(toChild).id,
         \A i \in Rpcs : turn'[i].s = s =>
           turn'[i] = turn[i] \/ child[s].phase = "awake"
  PROVE  Agreed(s)'
<1> USE DEF IInv
<1>1. pending[Head(toChild).id] # <<"wake", s>>
  <2>1. Head(toChild).op # "dispose" /\ Head(toChild).op # "wake" OBVIOUS
  <2>2. pending[Head(toChild).id] = <<Head(toChild).op, s>> BY <2>1, HeadUse
  <2> QED BY <2>1, <2>2
<1>2. \A k \in DOMAIN toParent : ~WakeAnswer(toParent[k], s) BY ReadFacts
<1>3. \A k \in DOMAIN toParent' : ~WakeAnswer(toParent[k], s)' BY <1>1, <1>2 DEF WakeAnswer
<1>4. 1 \in Sent(s) /\ toChild[1] = Head(toChild) BY ReadFacts
<1>5. /\ \A k \in Sent(s)' : /\ k \in DOMAIN toChild' /\ k + 1 \in Sent(s)
                             /\ toChild'[k] = toChild[k + 1]
      /\ \A k \in Sent(s) : k # 1 => k - 1 \in Sent(s)' /\ toChild'[k - 1] = toChild[k]
  BY ReadFacts
<1>6. Disposing(s)' <=> Disposing(s)
  <2>1. Disposing(s)' => Disposing(s) BY <1>5 DEF Disposing
  <2>2. ASSUME NEW k \in Sent(s), toChild[k].op = "dispose" PROVE Disposing(s)'
    <3>1. k # 1 BY <1>4, <2>2
    <3> QED BY <1>5, <2>2, <3>1 DEF Disposing
  <2> QED BY <2>1, <2>2 DEF Disposing
<1>7. (\A k \in Sent(s)' : toChild'[k].op \in {"sendEvent", "call"})
        <=> (\A k \in Sent(s) : toChild[k].op \in {"sendEvent", "call"})
  <2>1. ASSUME \A k \in Sent(s)' : toChild'[k].op \in {"sendEvent", "call"}, NEW k \in Sent(s)
        PROVE  toChild[k].op \in {"sendEvent", "call"}
    <3>1. CASE k = 1 BY <1>4, <3>1
    <3>2. CASE k # 1 BY <1>5, <2>1, <3>2
    <3> QED BY <3>1, <3>2
  <2>2. ASSUME \A k \in Sent(s) : toChild[k].op \in {"sendEvent", "call"}, NEW k \in Sent(s)'
        PROVE  toChild'[k].op \in {"sendEvent", "call"}
    BY <1>5, <2>2
  <2> QED BY <2>1, <2>2
<1>8. proxy[s] = "none" => Disposing(s) BY <1>4 DEF Agreed, Ordered
<1>9. child[s].phase # "waking" BY ReadFacts
<1>10. Ordered(s)'
  <2>1. registry[s] = "held" => \A k \in Sent(s)' : toChild'[k].op \in {"sendEvent", "call"}
    BY <1>7 DEF Agreed, Ordered
  <2> QED BY <1>3, <1>6, <1>8, <1>9, <2>1, OrderLeft DEF Ordered
<1>11. Served(s)'
  <2>1. \A i \in Rpcs : turn'[i].s = s /\ turn'[i].kept => child[s].phase = "awake"
    BY DEF Agreed, Served
  <2>2. proxy[s] = "none" => child[s].phase = "awake" /\ Disposing(s) BY <1>8 DEF Agreed, Served
  <2>3. Disposing(s) => Sent(s)' # {} BY <1>6 DEF Disposing
  <2> QED BY <1>3, <1>6, <2>1, <2>2, <2>3 DEF Agreed, Served
<1>12. Told(s)'
  <2> SUFFICES ASSUME child[s].phase = "awake", ~child[s].unsent,
                      ~child[s].missed,
                      \A k \in Sent(s)' : toChild'[k].op \in {"sendEvent", "call"}
               PROVE  LastSaid(s, child[s].sm)'
    BY DEF Told
  <2>1. LastSaid(s, child[s].sm) BY <1>7 DEF Agreed, Told
  <2>2. \A k \in DOMAIN toParent : Reports(toParent[k], s)' <=> Reports(toParent[k], s)
    BY <1>2, <1>3 DEF Reports
  <2>3. \A k \in DOMAIN toParent' : k \notin DOMAIN toParent => ~Reports(toParent[k], s)'
    BY <1>3 DEF Reports
  <2> QED BY <2>1, <2>2, <2>3, LastSaidKept
<1> QED BY <1>10, <1>11, <1>12 DEF Agreed

LEMMA MessageRead ==
  ASSUME IInv, TypeOK', NEW s \in Sessions, toChild # <<>>, toChild' = Tail(toChild),
         worker = "ready", UNCHANGED <<registry, proxy, pending, worker, toParent, child>>,
         Head(toChild).s = s, Head(toChild).op = "sendEvent", child[s].phase # "none",
         turn' = [turn EXCEPT ![Head(toChild).id] =
                    [s |-> s, phase |-> "accepted", kept |-> TRUE]]
  PROVE  OneUse' /\ \A x \in Sessions : Agreed(x)'
<1> USE DEF IInv
<1> DEFINE i == Head(toChild).id
<1>1. /\ i # None /\ i \in Rpcs /\ turn[i] = NoTurn /\ pending[i] = <<"sendEvent", s>>
      /\ \A k \in DOMAIN toChild : toChild[k].id = i => k = 1
      /\ \A x \in Sessions : child[x].rpc # i
      /\ \A l \in DOMAIN toParent : toParent[l].id # i
  BY HeadUse
<1>2. /\ \A j \in Rpcs : j # i => turn'[j] = turn[j]
      /\ turn'[i].s = s /\ turn'[i].phase = "accepted"
  BY <1>1 DEF TypeOK, ChildTypes
<1> HIDE DEF i
<1>3. \A k \in DOMAIN toChild' : /\ k + 1 \in DOMAIN toChild /\ toChild'[k] = toChild[k + 1]
                                 /\ k \in Nat \ {0} /\ k + 1 # 1
  BY ReadFacts
<1>4. OneUse'
  <2>1. DownUse'
    <3> SUFFICES ASSUME NEW k \in DOMAIN toChild'
                 PROVE  IF toChild'[k].id = None THEN toChild'[k].op = "dispose"
                        ELSE /\ pending[toChild'[k].id] = <<toChild'[k].op, toChild'[k].s>>
                             /\ turn'[toChild'[k].id] = NoTurn
                             /\ \A l \in DOMAIN toChild' : toChild'[l].id = toChild'[k].id => l = k
                             /\ \A x \in Sessions : child[x].rpc # toChild'[k].id
                             /\ \A l \in DOMAIN toParent : toParent[l].id # toChild'[k].id
      BY DEF DownUse
    <3>1. IF toChild[k + 1].id = None THEN toChild[k + 1].op = "dispose"
          ELSE /\ pending[toChild[k + 1].id] = <<toChild[k + 1].op, toChild[k + 1].s>>
               /\ turn[toChild[k + 1].id] = NoTurn
               /\ \A l \in DOMAIN toChild : toChild[l].id = toChild[k + 1].id => l = k + 1
               /\ \A x \in Sessions : child[x].rpc # toChild[k + 1].id
               /\ \A l \in DOMAIN toParent : toParent[l].id # toChild[k + 1].id
      BY <1>3 DEF OneUse, DownUse
    <3>2. toChild'[k] = toChild[k + 1] /\ toChild[k + 1].id \in Rpcs \cup {None} /\ toChild[k + 1].id # i
      BY <1>1, <1>3, Elements DEF Downward
    <3>3. ASSUME toChild'[k].id # None, NEW l \in DOMAIN toChild', toChild'[l].id = toChild'[k].id
          PROVE  l = k
      <4>1. l + 1 = k + 1 BY <1>3, <3>1, <3>2, <3>3
      <4> QED BY <1>3, <4>1
    <3> QED BY <1>2, <3>1, <3>2, <3>3
  <2>2. WakeUse'
    <3> SUFFICES ASSUME NEW x \in Sessions, child[x].rpc # None PROVE turn'[child[x].rpc] = NoTurn
      BY DEF OneUse, WakeUse
    <3>1. child[x].rpc \in Rpcs BY DEF TypeOK, ChildTypes, Runtime
    <3> QED BY <1>1, <1>2, <3>1 DEF OneUse, WakeUse
  <2>3. TurnUse' BY <1>1, <1>2 DEF OneUse, TurnUse
  <2> QED BY <2>1, <2>2, <2>3 DEF OneUse, UpUse
<1>5. ASSUME NEW x \in Sessions, x # s PROVE Agreed(x)'
  <2>1. SameDown(x, 1) BY <1>5, DownRead
  <2>2. SameUp(x, 0) BY UpSame DEF SameWake
  <2>3. \A j \in Rpcs : turn'[j].s = x => turn'[j] = turn[j] BY <1>2, <1>5
  <2> QED BY <1>5, <2>1, <2>2, <2>3, Elsewhere
<1>6. Agreed(s)'
  <2>1. child[s].phase = "awake"
    <3>1. child[s].phase # "waking" BY ReadFacts
    <3> QED BY <3>1 DEF TypeOK, ChildTypes, Runtime
  <2> QED BY <2>1, PlainRead
<1> QED BY <1>4, <1>5, <1>6

(* A request is answered at once: a call, or anything of a runtime that is not there. *)
LEMMA AnsweredRead ==
  ASSUME IInv, TypeOK', NEW s \in Sessions, toChild # <<>>, toChild' = Tail(toChild),
         worker = "ready", UNCHANGED <<registry, proxy, pending, worker, child, turn>>,
         Head(toChild).s = s, Head(toChild).op \in {"sendEvent", "call"},
         NEW r \in Upward, r.t = "reply", r.s = s, r.id = Head(toChild).id,
         toParent' = Append(toParent, r)
  PROVE  OneUse' /\ \A x \in Sessions : Agreed(x)'
<1> USE DEF IInv
<1>1. OneUse'
  <2>1. Head(toChild).op # "dispose" OBVIOUS
  <2> QED BY <2>1, AnswerOneUse
<1>2. PICK n \in Nat :
           /\ DOMAIN toParent' = DOMAIN toParent \cup {n} /\ n \notin DOMAIN toParent
           /\ toParent'[n] = r
           /\ \A k \in DOMAIN toParent : toParent'[k] = toParent[k] /\ k < n
  BY AnswerFacts
<1>3. ASSUME NEW x \in Sessions, x # s PROVE Agreed(x)'
  <2>1. SameDown(x, 1) BY <1>3, DownRead
  <2>2. SameUp(x, 0) BY <1>3, UpAppended DEF SameWake
  <2> QED BY <1>3, <2>1, <2>2, Elsewhere
<1>4. Agreed(s)' BY <1>2, PlainRead
<1> QED BY <1>1, <1>3, <1>4

LEMMA ChildReadsKeeps == ASSUME IInv, ChildReads PROVE IInv'
<1> USE DEF IInv
<1> DEFINE m == Head(toChild)
           s == m.s
<1>1. TypeOK' BY ChildReadsTypes
<1>2. /\ toChild # <<>> /\ toChild' = Tail(toChild) /\ worker = "ready"
      /\ UNCHANGED <<registry, proxy, pending, worker>>
  BY DEF ChildReads, parent
<1>3. m \in Downward /\ s \in Sessions BY <1>2, ReadFacts
<1>4. m.op \in Ops /\ m.id \in Rpcs \cup {None} BY <1>3 DEF Downward
<1>5. child[s] \in Runtime /\ child[s].sm \in {"idle", "running"}
  BY <1>3 DEF TypeOK, ChildTypes, Runtime
<1>6. Proxies' BY <1>2 DEF Proxies
<1>7. Gone' BY <1>2 DEF Gone
<1>8. OneUse' /\ \A x \in Sessions : Agreed(x)'
  <2>1. CASE m.op = "wake" /\ child[s].phase = "none"
    <3>1. /\ child' = [child EXCEPT ![s] = [NoRuntime EXCEPT !.phase = "waking", !.rpc = m.id]]
          /\ UNCHANGED <<toParent, turn>>
      BY <2>1 DEF ChildReads
    <3> QED BY <1>1, <1>2, <1>3, <2>1, <3>1, WakeRead
  <2>2. CASE m.op = "wake" /\ child[s].phase # "none"
    <3>1. toParent' = Append(toParent, Reply(s, m.id, child[s].sm)) /\ UNCHANGED <<child, turn>>
      BY <2>2 DEF ChildReads, Answer, inside
    <3> QED BY <1>1, <1>2, <1>3, <2>2, <3>1, WakeAnsweredAtOnce
  <2>3. CASE m.op = "dispose"
    <3>1. /\ child' = [child EXCEPT ![s] = NoRuntime] /\ UNCHANGED toParent
          /\ turn' = [i \in Rpcs |-> [turn[i] EXCEPT !.kept = @ /\ turn[i].s # s]]
      BY <2>3 DEF ChildReads
    <3> QED BY <1>1, <1>2, <1>3, <2>3, <3>1, DisposeRead
  <2>4. CASE m.op = "sendEvent" /\ child[s].phase # "none"
    <3>1. /\ turn' = [turn EXCEPT ![m.id] = [s |-> s, phase |-> "accepted", kept |-> TRUE]]
          /\ UNCHANGED <<toParent, child>>
      BY <2>4 DEF ChildReads
    <3> QED BY <1>1, <1>2, <1>3, <2>4, <3>1, MessageRead
  <2>5. CASE m.op \in {"sendEvent", "call"} /\ (m.op = "call" \/ child[s].phase = "none")
    <3>1. PICK r \in {Reply(s, m.id, child[s].sm), Refusal(s, m.id)} :
            toParent' = Append(toParent, r) /\ UNCHANGED <<child, turn>>
      BY <2>5 DEF ChildReads, Answer, inside
    <3>2. r \in Upward /\ r.t = "reply" /\ r.s = s /\ r.id = m.id
      <4>1. CASE r = Reply(s, m.id, child[s].sm) BY <1>3, <1>4, <1>5, <4>1 DEF Reply, Upward
      <4>2. CASE r = Refusal(s, m.id) BY <1>3, <1>4, <4>2 DEF Refusal, Upward
      <4> QED BY <3>1, <4>1, <4>2
    <3> QED BY <1>1, <1>2, <1>3, <2>5, <3>1, <3>2, AnsweredRead
  <2> QED BY <1>4, <2>1, <2>2, <2>3, <2>4, <2>5 DEF Ops, Asked
<1> QED BY <1>1, <1>6, <1>7, <1>8

-----------------------------------------------------------------------------
(* The runtimes and the turns of the child.                                 *)

LEMMA WakeEnds ==
  ASSUME IInv, TypeOK', NEW s \in Sessions, child[s].phase = "waking", NEW o \in Runtime,
         NEW r \in Upward, worker = "ready",
         UNCHANGED <<registry, proxy, pending, worker, toChild, turn>>,
         child' = [child EXCEPT ![s] = o], toParent' = Append(toParent, r), o.rpc = None,
         r.t = "reply", r.s = s, r.id = child[s].rpc,
         \/ r.ok /\ r.status = "idle" /\ o.phase = "awake" /\ o.sm = "idle"
         \/ ~r.ok /\ o = NoRuntime
  PROVE  OneUse' /\ \A x \in Sessions : Agreed(x)'
<1> USE DEF IInv
<1> DEFINE i == child[s].rpc
<1>1. /\ i \in Rpcs /\ i # None /\ pending[i] = <<"wake", s>> /\ turn[i] = NoTurn
      /\ \A l \in DOMAIN toParent : toParent[l].id # i
  BY DEF Agreed, Served, OneUse, WakeUse, TypeOK, ChildTypes, Runtime
<1>2. child'[s] = o /\ \A x \in Sessions : x # s => child'[x] = child[x]
  BY DEF TypeOK, ChildTypes
<1>3. PICK n \in Nat :
           /\ DOMAIN toParent' = DOMAIN toParent \cup {n} /\ n \notin DOMAIN toParent
           /\ toParent'[n] = r
           /\ \A k \in DOMAIN toParent : toParent'[k] = toParent[k] /\ k < n
  BY AnswerFacts
<1>4. \A k \in DOMAIN toChild : toChild[k].id # None => toChild[k].id # i
  BY DEF OneUse, DownUse
<1>5. \A j \in Rpcs : turn[j] # NoTurn => j # i BY <1>1
<1>6. \A x \in Sessions : x # s /\ child[x].rpc # None => child[x].rpc # i
  BY <1>1, NoRequest DEF OneUse, WakeUse
<1>7. \A l \in DOMAIN toParent' : toParent'[l].id = i \/ (l \in DOMAIN toParent /\ toParent'[l] = toParent[l])
  BY <1>3
<1>8. \A l \in DOMAIN toParent' : toParent'[l].id = i => l = n BY <1>1, <1>3
<1> HIDE DEF i
<1>9. r.id = i BY DEF i
<1>10. OneUse'
  <2>1. DownUse'
    <3> SUFFICES ASSUME NEW k \in DOMAIN toChild'
                 PROVE  IF toChild'[k].id = None THEN toChild'[k].op = "dispose"
                        ELSE /\ pending'[toChild'[k].id] = <<toChild'[k].op, toChild'[k].s>>
                             /\ turn'[toChild'[k].id] = NoTurn
                             /\ \A l \in DOMAIN toChild' : toChild'[l].id = toChild'[k].id => l = k
                             /\ \A x \in Sessions : child'[x].rpc # toChild'[k].id
                             /\ \A l \in DOMAIN toParent' : toParent'[l].id # toChild'[k].id
      BY DEF DownUse
    <3>1. IF toChild[k].id = None THEN toChild[k].op = "dispose"
          ELSE /\ pending[toChild[k].id] = <<toChild[k].op, toChild[k].s>>
               /\ turn[toChild[k].id] = NoTurn
               /\ \A l \in DOMAIN toChild : toChild[l].id = toChild[k].id => l = k
               /\ \A x \in Sessions : child[x].rpc # toChild[k].id
               /\ \A l \in DOMAIN toParent : toParent[l].id # toChild[k].id
      BY DEF OneUse, DownUse
    <3> QED BY <1>2, <1>4, <1>7, <3>1
  <2>2. WakeUse'
    <3> SUFFICES ASSUME NEW x \in Sessions, child'[x].rpc # None
                 PROVE  /\ child'[x].phase = "waking"
                        /\ pending[child'[x].rpc] = <<"wake", x>> /\ turn[child'[x].rpc] = NoTurn
                        /\ \A l \in DOMAIN toParent' : toParent'[l].id # child'[x].rpc
      BY DEF WakeUse
    <3>1. x # s /\ child'[x] = child[x] BY <1>2
    <3> QED BY <1>6, <1>7, <3>1 DEF OneUse, WakeUse
  <2>3. TurnUse' BY <1>5, <1>7 DEF OneUse, TurnUse
  <2>4. UpUse'
    <3>1. ASSUME NEW k \in DOMAIN toParent
          PROVE  IF toParent'[k].t = "event" THEN toParent'[k].id = None
                 ELSE /\ toParent'[k].id # None
                      /\ \E op \in Asked : pending[toParent'[k].id] = <<op, toParent'[k].s>>
                      /\ \A l \in DOMAIN toParent' : toParent'[l].id = toParent'[k].id => l = k
      <4>1. IF toParent[k].t = "event" THEN toParent[k].id = None
                 ELSE /\ toParent[k].id # None
                      /\ \E op \in Asked : pending[toParent[k].id] = <<op, toParent[k].s>>
                      /\ \A l \in DOMAIN toParent : toParent[l].id = toParent[k].id => l = k
        BY DEF OneUse, UpUse
      <4>2. toParent[k].id # i /\ toParent'[k] = toParent[k] BY <1>1, <1>3
      <4> QED BY <1>7, <4>1, <4>2
    <3>2. /\ r.t # "event" /\ r.id # None /\ \E op \in Asked : pending[r.id] = <<op, r.s>>
          /\ \A l \in DOMAIN toParent' : toParent'[l].id = r.id => l = n
      BY <1>1, <1>8, <1>9 DEF Asked
    <3> SUFFICES ASSUME NEW k \in DOMAIN toParent'
                 PROVE  IF toParent'[k].t = "event" THEN toParent'[k].id = None
                        ELSE /\ toParent'[k].id # None
                             /\ \E op \in Asked :
                                  pending'[toParent'[k].id] = <<op, toParent'[k].s>>
                             /\ \A l \in DOMAIN toParent' :
                                  toParent'[l].id = toParent'[k].id => l = k
      BY DEF UpUse
    <3>3. CASE k = n BY <1>3, <3>2, <3>3
    <3>4. CASE k # n BY <1>3, <3>1, <3>4
    <3> QED BY <3>3, <3>4
  <2> QED BY <2>1, <2>2, <2>3, <2>4 DEF OneUse
<1>11. ASSUME NEW x \in Sessions, x # s PROVE Agreed(x)'
  <2>1. SameDown(x, 0) BY DownSame
  <2>2. SameUp(x, 0) BY <1>11, UpAppended DEF SameWake
  <2> QED BY <1>2, <1>11, <2>1, <2>2, Elsewhere
<1>12. Agreed(s)'
  <2>1. Sent(s) = {} /\ Sent(s)' = {} BY DEF Agreed, Ordered, Sent
  <2>2. ~Disposing(s)' BY <2>1 DEF Disposing
  <2>3. \A k \in DOMAIN toParent' : WakeAnswer(toParent[k], s)' => toParent'[k] = r
    <3> SUFFICES ASSUME NEW k \in DOMAIN toParent', k # n, WakeAnswer(toParent[k], s)' PROVE FALSE
      BY <1>3
    <3>1. k \in DOMAIN toParent /\ WakeAnswer(toParent[k], s) BY <1>3 DEF WakeAnswer
    <3>2. toParent[k].id \in Rpcs BY <3>1, Elements DEF WakeAnswer, Upward, OneUse, UpUse
    <3> QED BY <1>1, <3>1, <3>2 DEF WakeAnswer, Proxies
  <2>4. registry[s] = "waking" /\ proxy[s] # "none" BY <1>1 DEF Proxies
  <2>5. \A j \in Rpcs : ~(turn[j].s = s /\ turn[j].kept) BY DEF Agreed, Served
  <2>6. o.phase = (IF r.ok THEN "awake" ELSE "none") BY DEF NoRuntime
  <2>7. Ordered(s)' BY <1>2, <2>1, <2>4 DEF Ordered
  <2>8. Served(s)' BY <1>2, <2>2, <2>3, <2>4, <2>5, <2>6 DEF Served
  <2>9. Told(s)'
    <3> SUFFICES ASSUME o.phase = "awake" PROVE LastSaid(s, o.sm)'
      BY <1>2 DEF Told
    <3>1. Reports(toParent[n], s)' BY <1>1, <1>3, <1>9 DEF Reports, WakeAnswer
    <3>2. \A k \in DOMAIN toParent' : k <= n BY <1>3, Elements
    <3>3. r.status = o.sm BY DEF NoRuntime
    <3> QED BY <1>3, <3>1, <3>2, <3>3 DEF LastSaid
  <2> QED BY <2>7, <2>8, <2>9 DEF Agreed
<1> QED BY <1>10, <1>11, <1>12

LEMMA EventSent ==
  ASSUME IInv, TypeOK', NEW s \in Sessions, ForwardEvent(s)
  PROVE  OneUse' /\ \A x \in Sessions : Agreed(x)'
<1> USE DEF IInv
<1> DEFINE r == Event(s, child[s].sm)
<1>1. /\ worker = "ready" /\ child[s].unsent
      /\ UNCHANGED <<registry, proxy, pending, worker, toChild, turn>>
      /\ toParent' = Append(toParent, r)
  BY DEF ForwardEvent, parent, Answer
<1>2. r \in Upward /\ r.t = "event" /\ r.s = s /\ r.id = None /\ r.status = child[s].sm
  BY DEF Event, Upward, TypeOK, ChildTypes, Runtime
<1> HIDE DEF r
<1>3. /\ \A x \in Sessions : x # s => child'[x] = child[x]
      /\ child'[s].phase = child[s].phase /\ child'[s].rpc = child[s].rpc
      /\ child'[s].sm = child[s].sm
  <2>1. child' = [child EXCEPT ![s] = [child[s] EXCEPT !.unsent = FALSE, !.missed = FALSE]]
    BY DEF ForwardEvent, TypeOK, ChildTypes
  <2>2. child[s] \in Runtime BY DEF TypeOK, ChildTypes
  <2> QED BY <2>1, <2>2 DEF TypeOK, ChildTypes, Runtime
<1>4. PICK n \in Nat :
           /\ DOMAIN toParent' = DOMAIN toParent \cup {n} /\ n \notin DOMAIN toParent
           /\ toParent'[n] = r
           /\ \A k \in DOMAIN toParent : toParent'[k] = toParent[k] /\ k < n
  BY <1>1, <1>2, AnswerFacts
<1>5. OneUse'
  <2>1. \A x \in Sessions : child'[x].rpc = child[x].rpc /\ child'[x].phase = child[x].phase
    BY <1>3
  <2>2. \A l \in DOMAIN toParent' : toParent'[l].id = None \/ (l \in DOMAIN toParent /\ toParent'[l] = toParent[l])
    BY <1>2, <1>4
  <2>3. DownUse' BY <1>1, <2>1, <2>2 DEF OneUse, DownUse
  <2>4. pending' = pending /\ turn' = turn BY <1>1
  <2>5. WakeUse'
    <3> SUFFICES ASSUME NEW x \in Sessions, child[x].rpc # None
                 PROVE  /\ child[x].phase = "waking"
                        /\ pending[child[x].rpc] = <<"wake", x>> /\ turn[child[x].rpc] = NoTurn
                        /\ \A l \in DOMAIN toParent' : toParent'[l].id # child[x].rpc
      BY <2>1, <2>4 DEF WakeUse
    <3>1. /\ child[x].phase = "waking"
          /\ pending[child[x].rpc] = <<"wake", x>> /\ turn[child[x].rpc] = NoTurn
          /\ \A l \in DOMAIN toParent : toParent[l].id # child[x].rpc
      BY DEF OneUse, WakeUse
    <3> QED BY <2>2, <3>1
  <2>6. TurnUse'
    <3> SUFFICES ASSUME NEW i \in Rpcs, turn[i] # NoTurn
                 PROVE  /\ turn[i].s \in Sessions /\ turn[i].phase # "none"
                        /\ pending[i] = <<"sendEvent", turn[i].s>>
                        /\ \A l \in DOMAIN toParent' : toParent'[l].id # i
      BY <2>4 DEF TurnUse
    <3>1. i # None BY WorkersAssumption
    <3>2. /\ turn[i].s \in Sessions /\ turn[i].phase # "none"
          /\ pending[i] = <<"sendEvent", turn[i].s>>
          /\ \A l \in DOMAIN toParent : toParent[l].id # i
      BY DEF OneUse, TurnUse
    <3> QED BY <2>2, <3>1, <3>2
  <2>7. UpUse' BY <1>2, <1>4, <2>2, <2>4 DEF OneUse, UpUse
  <2> QED BY <2>3, <2>5, <2>6, <2>7 DEF OneUse
<1>6. ASSUME NEW x \in Sessions, x # s PROVE Agreed(x)'
  <2>1. SameDown(x, 0) BY <1>1, DownSame
  <2>2. SameUp(x, 0) BY <1>1, <1>2, <1>6, UpAppended DEF SameWake
  <2> QED BY <1>1, <1>3, <1>6, <2>1, <2>2, Elsewhere
<1>7. Agreed(s)'
  <2>1. child[s].phase = "awake"
    BY <1>1 DEF Agreed, Served, NoRuntime, TypeOK, ChildTypes, Runtime
  <2>2. \A k \in DOMAIN toParent' : WakeAnswer(toParent[k], s)' =>
          k \in DOMAIN toParent /\ toParent'[k] = toParent[k] /\ WakeAnswer(toParent[k], s)
    BY <1>1, <1>2, <1>4 DEF WakeAnswer
  <2>3. Sent(s)' = Sent(s) /\ (Disposing(s)' <=> Disposing(s)) BY <1>1 DEF Sent, Disposing
  <2>4. Ordered(s)' BY <1>1, <1>3, <2>1, <2>2, <2>3 DEF Agreed, Ordered
  <2>5. Served(s)' BY <1>1, <1>3, <2>1, <2>2, <2>3 DEF Agreed, Served
  <2>6. Told(s)'
    <3>1. Reports(toParent[n], s)' BY <1>2, <1>4 DEF Reports
    <3>2. \A k \in DOMAIN toParent' : k <= n BY <1>4, Elements
    <3>3. toParent'[n].status = child'[s].sm BY <1>2, <1>3, <1>4
    <3>4. LastSaid(s, child[s].sm)' BY <1>4, <3>1, <3>2, <3>3 DEF LastSaid
    <3> QED BY <3>4 DEF Told
  <2> QED BY <2>4, <2>5, <2>6 DEF Agreed
<1> QED BY <1>5, <1>6, <1>7

(* One that is dropped leaves the pipe as it was, and marks its runtime. *)
LEMMA EventDropped ==
  ASSUME IInv, TypeOK', NEW s \in Sessions, DropEvent(s)
  PROVE  OneUse' /\ \A x \in Sessions : Agreed(x)'
<1> USE DEF IInv
<1>1. /\ worker = "ready" /\ child[s].unsent
      /\ UNCHANGED <<registry, proxy, pending, worker, toChild, toParent, turn>>
  BY DEF DropEvent, parent, pipe
<1>2. /\ \A x \in Sessions : x # s => child'[x] = child[x]
      /\ child'[s].phase = child[s].phase /\ child'[s].rpc = child[s].rpc
      /\ child'[s].missed
  <2>1. child' = [child EXCEPT ![s] = [child[s] EXCEPT !.unsent = FALSE, !.missed = TRUE]]
    BY DEF DropEvent, TypeOK, ChildTypes
  <2>2. child[s] \in Runtime BY DEF TypeOK, ChildTypes
  <2> QED BY <2>1, <2>2 DEF TypeOK, ChildTypes, Runtime
<1>3. OneUse'
  <2>1. \A x \in Sessions : child'[x].rpc = child[x].rpc /\ child'[x].phase = child[x].phase
    BY <1>2
  <2>2. DownUse' BY <1>1, <2>1 DEF OneUse, DownUse
  <2>3. WakeUse' BY <1>1, <2>1 DEF OneUse, WakeUse
  <2>4. TurnUse' BY <1>1 DEF OneUse, TurnUse
  <2>5. UpUse' BY <1>1 DEF OneUse, UpUse
  <2> QED BY <2>2, <2>3, <2>4, <2>5 DEF OneUse
<1>4. ASSUME NEW x \in Sessions, x # s PROVE Agreed(x)'
  <2>1. SameDown(x, 0) BY <1>1, DownSame
  <2>2. SameUp(x, 0) BY <1>1, UpSame DEF SameWake
  <2> QED BY <1>1, <1>2, <1>4, <2>1, <2>2, Elsewhere
<1>5. Agreed(s)'
  <2>1. child[s].phase = "awake"
    BY <1>1 DEF Agreed, Served, NoRuntime, TypeOK, ChildTypes, Runtime
  <2>2. Sent(s)' = Sent(s) /\ (Disposing(s)' <=> Disposing(s)) BY <1>1 DEF Sent, Disposing
  <2>3. \A k : WakeAnswer(toParent[k], s)' <=> WakeAnswer(toParent[k], s) BY <1>1 DEF WakeAnswer
  <2>4. Ordered(s)' BY <1>1, <1>2, <2>1, <2>2, <2>3 DEF Agreed, Ordered
  <2>5. Served(s)' BY <1>1, <1>2, <2>1, <2>2, <2>3 DEF Agreed, Served
  <2>6. Told(s)' BY <1>2 DEF Told
  <2> QED BY <2>4, <2>5, <2>6 DEF Agreed
<1> QED BY <1>3, <1>4, <1>5

LEMMA RuntimeKeeps ==
  ASSUME IInv, NEW s \in Sessions, ChildStep(s)
  PROVE  IInv'
<1> USE DEF IInv
<1>1. TypeOK' BY RuntimeTypes
<1>2. /\ worker = "ready"
      /\ UNCHANGED <<registry, proxy, pending, worker, toChild, turn>>
  BY DEF ChildStep, ChildWakes, ChildWakeFails, ForwardEvent, DropEvent, parent, pipe
<1>3. Proxies' BY <1>2 DEF Proxies
<1>4. Gone' BY <1>2 DEF Gone
<1>5. OneUse' /\ \A x \in Sessions : Agreed(x)'
  <2>1. child[s] \in Runtime /\ child[s].rpc \in Rpcs \cup {None}
    BY DEF TypeOK, ChildTypes, Runtime
  <2>2. CASE ChildWakes(s)
    <3> DEFINE o == [child[s] EXCEPT !.phase = "awake", !.rpc = None]
               r == Reply(s, child[s].rpc, "idle")
    <3>1. child' = [child EXCEPT ![s] = o] /\ toParent' = Append(toParent,
         r) /\ child[s].phase = "waking"
      BY <2>2 DEF ChildWakes, Answer, TypeOK, ChildTypes
    <3>2. o \in Runtime /\ o.rpc = None /\ o.phase = "awake" /\ o.sm = child[s].sm
      BY <2>1 DEF Runtime
    <3>3. r \in Upward /\ r.t = "reply" /\ r.s = s /\ r.id = child[s].rpc /\ r.ok /\ r.status = "idle"
      BY <2>1 DEF Reply, Upward
    <3>4. o.sm = "idle" BY <3>1, <3>2 DEF Agreed, Served
    <3> HIDE DEF o, r
    <3> QED BY <1>1, <1>2, <3>1, <3>2, <3>3, <3>4, WakeEnds
  <2>3. CASE ChildWakeFails(s)
    <3> DEFINE r == Refusal(s, child[s].rpc)
    <3>1. /\ child' = [child EXCEPT ![s] = NoRuntime] /\ toParent' = Append(toParent, r)
          /\ child[s].phase = "waking"
      BY <2>3 DEF ChildWakeFails, Answer
    <3>2. NoRuntime \in Runtime /\ NoRuntime.rpc = None BY DEF Runtime, NoRuntime
    <3>3. r \in Upward /\ r.t = "reply" /\ r.s = s /\ r.id = child[s].rpc /\ ~r.ok
      BY <2>1 DEF Refusal, Upward
    <3> HIDE DEF r
    <3> QED BY <1>1, <1>2, <3>1, <3>2, <3>3, WakeEnds
  <2>4. CASE ForwardEvent(s) BY <1>1, <2>4, EventSent
  <2>5. CASE DropEvent(s) BY <1>1, <2>5, EventDropped
  <2> QED BY <2>2, <2>3, <2>4, <2>5 DEF ChildStep
<1> QED BY <1>1, <1>3, <1>4, <1>5

(* A turn changes the status its runtime reports, and says so by an event. *)
LEMMA TurnMoves ==
  ASSUME IInv, TypeOK', NEW i \in Rpcs, TurnStarts(i) \/ TurnSettles(i)
  PROVE  OneUse' /\ \A x \in Sessions : Agreed(x)'
<1> USE DEF IInv
<1>1. PICK ph \in {"driving", "storing"}, st \in {"idle", "running"} :
        Announce(i, st) /\ turn' = [turn EXCEPT ![i].phase = ph]
  BY DEF TurnStarts, TurnSettles
<1>2. UNCHANGED <<registry, proxy, pending, worker, toChild, toParent>> /\ worker = "ready"
  BY DEF TurnStarts, TurnSettles, parent, pipe
<1>3. turn[i] # NoTurn BY DEF TurnStarts, TurnSettles, NoTurn
<1>4. PICK s \in Sessions : s = turn[i].s BY <1>3 DEF OneUse, TurnUse
<1>5. /\ \A j \in Rpcs : j # i => turn'[j] = turn[j]
      /\ turn'[i].s = s /\ turn'[i].phase = ph /\ turn'[i].kept = turn[i].kept
  BY <1>1, <1>4 DEF TypeOK, ChildTypes, Turn
<1>6. turn'[i] # NoTurn BY <1>5 DEF NoTurn
<1>7. turn[i].kept => child[s].phase = "awake" BY <1>4 DEF Agreed, Served
<1>8. child' = IF turn[i].kept THEN [child EXCEPT ![s].sm = st, ![s].unsent = TRUE] ELSE child
  BY <1>1, <1>4 DEF Announce
<1>9. /\ \A x \in Sessions : x # s => child'[x] = child[x]
      /\ child'[s].phase = child[s].phase /\ child'[s].rpc = child[s].rpc
      /\ child'[s] = child[s] \/ (child'[s].unsent /\ child[s].phase = "awake")
  <2>1. CASE turn[i].kept
    <3>1. child' = [child EXCEPT ![s] = [child[s] EXCEPT !.sm = st, !.unsent = TRUE]]
      BY <1>4, <1>8, <2>1 DEF TypeOK, ChildTypes
    <3>2. child[s] \in Runtime /\ child \in [Sessions -> Runtime] BY <1>4 DEF TypeOK, ChildTypes
    <3> QED BY <1>4, <1>7, <2>1, <3>1, <3>2 DEF Runtime
  <2>2. CASE ~turn[i].kept BY <1>8, <2>2
  <2> QED BY <2>1, <2>2
<1>10. OneUse'
  <2>1. \A x \in Sessions : child'[x].rpc = child[x].rpc /\ child'[x].phase = child[x].phase
    BY <1>9
  <2>2. \A j \in Rpcs : (turn'[j] = NoTurn <=> turn[j] = NoTurn) /\ turn'[j].s = turn[j].s
    BY <1>3, <1>4, <1>5, <1>6
  <2>3. DownUse'
    <3>1. \A k \in DOMAIN toChild : toChild[k].id \in Rpcs \cup {None} BY Elements DEF Downward
    <3> QED BY <1>2, <2>1, <2>2, <3>1 DEF OneUse, DownUse
  <2>4. WakeUse'
    <3>1. \A x \in Sessions : child[x].rpc \in Rpcs \cup {None} BY DEF TypeOK, ChildTypes, Runtime
    <3> QED BY <1>2, <2>1, <2>2, <3>1 DEF OneUse, WakeUse
  <2>5. TurnUse'
    <3>1. \A j \in Rpcs : turn[j] # NoTurn => turn'[j].phase # "none"
      BY <1>5 DEF OneUse, TurnUse
    <3> QED BY <1>2, <2>2, <3>1 DEF OneUse, TurnUse
  <2>6. UpUse' BY <1>2 DEF OneUse, UpUse
  <2> QED BY <2>3, <2>4, <2>5, <2>6 DEF OneUse
<1>11. ASSUME NEW x \in Sessions, x # s PROVE Agreed(x)'
  <2>1. SameDown(x, 0) BY <1>2, DownSame
  <2>2. SameUp(x, 0) BY <1>2, UpSame DEF SameWake
  <2>3. \A j \in Rpcs : turn'[j].s = x => turn'[j] = turn[j] BY <1>5, <1>11
  <2> QED BY <1>2, <1>9, <1>11, <2>1, <2>2, <2>3, Elsewhere
<1>12. Agreed(s)'
  <2>1. Sent(s)' = Sent(s) /\ (Disposing(s)' <=> Disposing(s)) BY <1>2 DEF Sent, Disposing
  <2>2. \A k \in DOMAIN toParent' : WakeAnswer(toParent[k], s)' <=> WakeAnswer(toParent[k], s)
    BY <1>2 DEF WakeAnswer
  <2>3. Ordered(s)' BY <1>2, <1>4, <1>9, <2>1, <2>2 DEF Agreed, Ordered
  <2>4. Served(s)'
    <3>1. /\ child'[s].phase = "none" => child'[s] = NoRuntime
          /\ child'[s].phase = "waking" =>
               child'[s].rpc # None /\ child'[s].sm = "idle" /\ ~child'[s].unsent
      BY <1>4, <1>9 DEF Agreed, Served
    <3>2. \A j \in Rpcs : turn'[j].s = s /\ turn'[j].kept => child'[s].phase = "awake"
      BY <1>4, <1>5, <1>7, <1>9 DEF Agreed, Served
    <3>3. /\ Disposing(s)' \/ registry'[s] = "held" => child'[s].phase = "awake"
          /\ proxy'[s] = "none" /\ Sent(s)' = {} => child'[s].phase = "none"
          /\ \A k \in DOMAIN toParent' : WakeAnswer(toParent[k], s)' =>
               child'[s].phase = IF toParent'[k].ok THEN "awake" ELSE "none"
      BY <1>2, <1>4, <1>9, <2>1, <2>2 DEF Agreed, Served
    <3> QED BY <3>1, <3>2, <3>3 DEF Served
  <2>5. Told(s)'
    <3>1. CASE child'[s].unsent BY <3>1 DEF Told
    <3>2. CASE child'[s] = child[s]
      <4>1. \A k \in DOMAIN toParent' : Reports(toParent[k], s)' <=> Reports(toParent[k], s)
        BY <1>2, <2>2 DEF Reports
      <4> QED BY <1>2, <1>4, <2>1, <3>2, <4>1 DEF Agreed, Told, LastSaid
    <3> QED BY <1>9, <3>1, <3>2
  <2> QED BY <2>3, <2>4, <2>5 DEF Agreed
<1> QED BY <1>10, <1>11, <1>12

LEMMA TurnEnds ==
  ASSUME IInv, TypeOK', NEW i \in Rpcs, TurnReplies(i)
  PROVE  OneUse' /\ \A x \in Sessions : Agreed(x)'
<1> USE DEF IInv
<1>0. PICK s \in Sessions : s = turn[i].s
  <2>1. turn[i] # NoTurn BY DEF TurnReplies, NoTurn
  <2> QED BY <2>1 DEF OneUse, TurnUse
<1> DEFINE r == Reply(s, i, "idle")
<1>1. /\ UNCHANGED <<registry, proxy, pending, worker, toChild, child>> /\ worker = "ready"
      /\ turn' = [turn EXCEPT ![i] = NoTurn] /\ toParent' = Append(toParent, r)
  BY <1>0 DEF TurnReplies, parent, Answer
<1>2. turn[i] # NoTurn BY DEF TurnReplies, NoTurn
<1>3. s \in Sessions /\ pending[i] = <<"sendEvent",
     s>> /\ \A l \in DOMAIN toParent : toParent[l].id # i
  BY <1>0, <1>2 DEF OneUse, TurnUse
<1>4. r \in Upward /\ r.t = "reply" /\ r.s = s /\ r.id = i BY <1>3 DEF Reply, Upward
<1>5. /\ \A j \in Rpcs : j # i => turn'[j] = turn[j]
      /\ turn'[i] = NoTurn /\ NoTurn.s = None
  BY <1>1 DEF TypeOK, ChildTypes, NoTurn
<1> HIDE DEF r
<1>6. PICK n \in Nat :
           /\ DOMAIN toParent' = DOMAIN toParent \cup {n} /\ n \notin DOMAIN toParent
           /\ toParent'[n] = r
           /\ \A k \in DOMAIN toParent : toParent'[k] = toParent[k] /\ k < n
  BY <1>1, <1>4, AnswerFacts
<1>7. \A l \in DOMAIN toParent' : toParent'[l].id = i \/ (l \in DOMAIN toParent /\ toParent'[l] = toParent[l])
  BY <1>4, <1>6
<1>8. OneUse'
  <2>1. \A k \in DOMAIN toChild : toChild[k].id # None => turn'[toChild[k].id] = NoTurn /\ toChild[k].id # i
    <3> TAKE k \in DOMAIN toChild
    <3> HAVE toChild[k].id # None
    <3>1. turn[toChild[k].id] = NoTurn /\ toChild[k].id \in Rpcs
      BY Elements DEF Downward, OneUse, DownUse
    <3> QED BY <1>2, <1>5, <3>1
  <2>2. \A x \in Sessions : child[x].rpc # None => turn'[child[x].rpc] = NoTurn /\ child[x].rpc # i
    <3> TAKE x \in Sessions
    <3> HAVE child[x].rpc # None
    <3>1. turn[child[x].rpc] = NoTurn /\ child[x].rpc \in Rpcs
      BY DEF TypeOK, ChildTypes, Runtime, OneUse, WakeUse
    <3> QED BY <1>2, <1>5, <3>1
  <2>3. DownUse'
    <3> SUFFICES ASSUME NEW k \in DOMAIN toChild'
                 PROVE  IF toChild'[k].id = None THEN toChild'[k].op = "dispose"
                        ELSE /\ pending'[toChild'[k].id] = <<toChild'[k].op, toChild'[k].s>>
                             /\ turn'[toChild'[k].id] = NoTurn
                             /\ \A l \in DOMAIN toChild' : toChild'[l].id = toChild'[k].id => l = k
                             /\ \A x \in Sessions : child'[x].rpc # toChild'[k].id
                             /\ \A l \in DOMAIN toParent' : toParent'[l].id # toChild'[k].id
      BY DEF DownUse
    <3>1. IF toChild[k].id = None THEN toChild[k].op = "dispose"
          ELSE /\ pending[toChild[k].id] = <<toChild[k].op, toChild[k].s>>
               /\ turn[toChild[k].id] = NoTurn
               /\ \A l \in DOMAIN toChild : toChild[l].id = toChild[k].id => l = k
               /\ \A x \in Sessions : child[x].rpc # toChild[k].id
               /\ \A l \in DOMAIN toParent : toParent[l].id # toChild[k].id
      BY <1>1 DEF OneUse, DownUse
    <3> QED BY <1>1, <1>7, <2>1, <3>1
  <2>4. WakeUse'
    <3> SUFFICES ASSUME NEW x \in Sessions, child'[x].rpc # None
                 PROVE  /\ child'[x].phase = "waking"
                        /\ pending'[child'[x].rpc] = <<"wake",
                             x>> /\ turn'[child'[x].rpc] = NoTurn
                        /\ \A l \in DOMAIN toParent' : toParent'[l].id # child'[x].rpc
      BY DEF WakeUse
    <3>1. /\ child[x].phase = "waking" /\ pending[child[x].rpc] = <<"wake", x>>
          /\ \A l \in DOMAIN toParent : toParent[l].id # child[x].rpc
      BY <1>1 DEF OneUse, WakeUse
    <3> QED BY <1>1, <1>7, <2>2, <3>1
  <2>5. TurnUse'
    <3> SUFFICES ASSUME NEW j \in Rpcs, turn'[j] # NoTurn
                 PROVE  /\ turn'[j].s \in Sessions /\ turn'[j].phase # "none"
                        /\ pending'[j] = <<"sendEvent", turn'[j].s>>
                        /\ \A l \in DOMAIN toParent' : toParent'[l].id # j
      BY DEF TurnUse
    <3>1. j # i /\ turn'[j] = turn[j] BY <1>5
    <3> QED BY <1>1, <1>7, <3>1 DEF OneUse, TurnUse
  <2>6. UpUse'
    <3>1. ASSUME NEW k \in DOMAIN toParent
          PROVE  IF toParent'[k].t = "event" THEN toParent'[k].id = None
                 ELSE /\ toParent'[k].id # None
                      /\ \E op \in Asked : pending[toParent'[k].id] = <<op, toParent'[k].s>>
                      /\ \A l \in DOMAIN toParent' : toParent'[l].id = toParent'[k].id => l = k
      <4>1. IF toParent[k].t = "event" THEN toParent[k].id = None
                 ELSE /\ toParent[k].id # None
                      /\ \E op \in Asked : pending[toParent[k].id] = <<op, toParent[k].s>>
                      /\ \A l \in DOMAIN toParent : toParent[l].id = toParent[k].id => l = k
        BY DEF OneUse, UpUse
      <4>2. toParent[k].id # i /\ toParent'[k] = toParent[k] BY <1>3, <1>6
      <4> QED BY <1>7, <4>1, <4>2
    <3>2. i # None BY WorkersAssumption
    <3>3. /\ r.t # "event" /\ r.id # None /\ \E op \in Asked : pending[r.id] = <<op, r.s>>
          /\ \A l \in DOMAIN toParent' : toParent'[l].id = r.id => l = n
      BY <1>3, <1>4, <1>6, <3>2 DEF Asked
    <3> QED BY <1>1, <1>6, <3>1, <3>3, ZenonT(30) DEF UpUse
  <2> QED BY <2>3, <2>4, <2>5, <2>6 DEF OneUse
<1>9. ASSUME NEW x \in Sessions
      PROVE  \A j \in Rpcs : turn'[j].s = x => turn'[j] = turn[j]
  BY <1>5, WorkersAssumption
<1>10. ASSUME NEW x \in Sessions, x # s PROVE Agreed(x)'
  <2>1. SameDown(x, 0) BY <1>1, DownSame
  <2>2. SameUp(x, 0) BY <1>1, <1>4, <1>10, UpAppended DEF SameWake
  <2> QED BY <1>1, <1>9, <1>10, <2>1, <2>2, Elsewhere
<1>11. Agreed(s)'
  <2>1. pending[i] # <<"wake", s>> BY <1>3
  <2>2. \A k \in DOMAIN toParent' : WakeAnswer(toParent[k], s)' =>
          k \in DOMAIN toParent /\ toParent'[k] = toParent[k] /\ WakeAnswer(toParent[k], s)
    BY <1>1, <1>4, <1>6, <2>1 DEF WakeAnswer
  <2>3. Sent(s)' = Sent(s) /\ (Disposing(s)' <=> Disposing(s)) BY <1>1 DEF Sent, Disposing
  <2>4. Ordered(s)' BY <1>1, <1>3, <2>2, <2>3 DEF Agreed, Ordered
  <2>5. Served(s)'
    <3>1. \A j \in Rpcs : turn'[j].s = s /\ turn'[j].kept => child[s].phase = "awake"
      BY <1>3, <1>9 DEF Agreed, Served
    <3> QED BY <1>1, <1>3, <2>2, <2>3, <3>1 DEF Agreed, Served
  <2>6. Told(s)'
    <3> SUFFICES ASSUME child[s].phase = "awake", ~child[s].unsent,
                        ~child[s].missed,
                        \A k \in Sent(s) : toChild[k].op \in {"sendEvent", "call"}
                 PROVE  LastSaid(s, child[s].sm)'
      BY <1>1, <2>3 DEF Told
    <3>1. LastSaid(s, child[s].sm) BY <1>1, <1>3 DEF Agreed, Told
    <3>2. \A k \in DOMAIN toParent : Reports(toParent[k], s)' <=> Reports(toParent[k], s)
      BY <1>1, <1>6 DEF Reports, WakeAnswer
    <3>3. \A k \in DOMAIN toParent' : k \notin DOMAIN toParent => ~Reports(toParent[k], s)'
      BY <1>4, <1>6, <2>2 DEF Reports
    <3>4. child' = child BY <1>1
    <3> QED BY <1>1, <1>3, <1>6, <3>1, <3>2, <3>3, <3>4, LastSaidKept
  <2> QED BY <2>4, <2>5, <2>6 DEF Agreed
<1> QED BY <1>8, <1>10, <1>11

LEMMA TurnKeeps == ASSUME IInv, NEW i \in Rpcs, TurnStep(i) PROVE IInv'
<1> USE DEF IInv
<1>1. TypeOK' BY TurnTypes
<1>2. worker = "ready" /\ UNCHANGED <<registry, proxy, pending, worker>>
  BY DEF TurnStep, TurnStarts, TurnSettles, TurnReplies, parent
<1>3. Proxies' BY <1>2 DEF Proxies
<1>4. Gone' BY <1>2 DEF Gone
<1>5. OneUse' /\ \A x \in Sessions : Agreed(x)' BY <1>1, TurnMoves, TurnEnds DEF TurnStep
<1> QED BY <1>1, <1>3, <1>4, <1>5

-----------------------------------------------------------------------------
(* The death of the child, and its successor.                               *)

LEMMA DeathKeeps == ASSUME IInv, ChildDies PROVE IInv'
<1> USE DEF IInv
<1>1. TypeOK' BY ProcessTypes
<1>2. /\ worker' = "dead" /\ child' = [s \in Sessions |-> NoRuntime]
      /\ turn' = [i \in Rpcs |-> NoTurn]
      /\ UNCHANGED <<registry, proxy, pending, toChild, toParent>>
  BY DEF ChildDies, parent, pipe
<1>3. NoRuntime.phase = "none" /\ NoRuntime.rpc = None /\ NoTurn.s = None
  BY DEF NoRuntime, NoTurn
<1>4. Proxies' BY <1>2 DEF Proxies
<1>5. OneUse'
  <2>1. DownUse'
    <3>1. \A k \in DOMAIN toChild : toChild[k].id \in Rpcs \cup {None} BY Elements DEF Downward
    <3> QED BY <1>2, <1>3, <3>1 DEF OneUse, DownUse
  <2>2. WakeUse' BY <1>2, <1>3 DEF WakeUse
  <2>3. TurnUse' BY <1>2 DEF TurnUse
  <2> QED BY <1>2, <2>1, <2>2, <2>3 DEF OneUse, UpUse
<1>6. Gone' BY <1>2 DEF Gone
<1>7. ASSUME NEW x \in Sessions PROVE Agreed(x)'
  <2>1. Ordered(x)' BY <1>2, <1>3 DEF Agreed, Ordered, Sent, Disposing, WakeAnswer
  <2>2. Served(x)' BY <1>2, <1>3, WorkersAssumption DEF Served
  <2>3. Told(x)' BY <1>2 DEF Told
  <2> QED BY <2>1, <2>2, <2>3 DEF Agreed
<1> QED BY <1>1, <1>4, <1>5, <1>6, <1>7

(* Without a child and with empty pipes the parent has nothing but wakes    *)
(* that wait for the next child.                                            *)
LEMMA Emptied ==
  ASSUME toChild' = <<>>, toParent' = <<>>, child' = [s \in Sessions |-> NoRuntime],
         turn' = [i \in Rpcs |-> NoTurn], \A s \in Sessions : proxy'[s] = "none",
         \A s \in Sessions : registry'[s] # "held", \A i \in Rpcs : pending'[i] = None
  PROVE  Proxies' /\ OneUse' /\ Gone' /\ \A x \in Sessions : Agreed(x)'
<1>1. DOMAIN toChild' = {} /\ DOMAIN toParent' = {} OBVIOUS
<1>2. NoRuntime.phase = "none" /\ NoRuntime.rpc = None /\ NoTurn.s = None
  BY DEF NoRuntime, NoTurn
<1>3. Proxies' BY NoRequest DEF Proxies
<1>4. OneUse' BY <1>1, <1>2 DEF OneUse, DownUse, WakeUse, TurnUse, UpUse
<1>5. Gone' BY DEF Gone
<1>6. ASSUME NEW x \in Sessions PROVE Agreed(x)'
  <2>1. Sent(x)' = {} BY <1>1 DEF Sent
  <2>2. ~Disposing(x)' BY <2>1 DEF Disposing
  <2>3. Ordered(x)' BY <1>1, <1>2, <2>1 DEF Ordered
  <2>4. Served(x)' BY <1>1, <1>2, <2>1, <2>2, WorkersAssumption DEF Served
  <2>5. Told(x)' BY <1>2 DEF Told
  <2> QED BY <2>3, <2>4, <2>5 DEF Agreed
<1> QED BY <1>3, <1>4, <1>5, <1>6

LEMMA ProcessKeeps ==
  ASSUME IInv, ParentSeesExit \/ Spawn \/ WorkerReady \/ BootFails PROVE IInv'
<1> USE DEF IInv
<1>1. TypeOK' BY ProcessTypes
<1>2. child = [s \in Sessions |-> NoRuntime] /\ turn = [i \in Rpcs |-> NoTurn]
      /\ child' = child /\ turn' = turn
  BY DEF ParentSeesExit, Spawn, WorkerReady, BootFails, inside, Gone
<1>3. CASE ParentSeesExit
  <2>1. /\ toChild' = <<>> /\ toParent' = <<>> /\ pending' = [i \in Rpcs |-> None]
        /\ proxy' = [s \in Sessions |-> "none"]
        /\ registry' = [s \in Sessions |-> IF proxy[s] # "none" THEN "none" ELSE registry[s]]
    BY <1>3 DEF ParentSeesExit, RejectPending
  <2>2. \A s \in Sessions : registry'[s] # "held" BY <2>1 DEF Proxies
  <2> QED BY <1>1, <1>2, <2>1, <2>2, Emptied
<1>4. CASE Spawn \/ WorkerReady \/ BootFails
  <2>1. /\ toChild = <<>> /\ toParent = <<>> /\ \A s \in Sessions : proxy[s] = "none"
        /\ \A i \in Rpcs : pending[i] = None
        /\ UNCHANGED <<toChild, toParent, proxy, pending>>
    BY <1>4 DEF Spawn, WorkerReady, BootFails, Gone, parent, pipe
  <2>2. registry' = registry \/
        registry' = [s \in Sessions |-> IF registry[s] = "waking" THEN "none" ELSE registry[s]]
    BY <1>4 DEF Spawn, WorkerReady, BootFails, parent
  <2>3. \A s \in Sessions : registry'[s] # "held" BY <2>1, <2>2 DEF Proxies
  <2> QED BY <1>1, <1>2, <2>1, <2>3, Emptied
<1> QED BY <1>3, <1>4

LEMMA StepKeeps == ASSUME IInv, [Next]_vars PROVE IInv'
<1>1. ASSUME NEW s \in Sessions, NEW op \in {"sendEvent", "call"}, Request(s, op) PROVE IInv'
  BY <1>1, RequestKeeps
<1>2. ASSUME NEW s \in Sessions, PoolWakes(s) PROVE IInv' BY <1>2, PoolWakesKeeps
<1>3. ASSUME NEW s \in Sessions, Evict(s) PROVE IInv' BY <1>3, EvictKeeps
<1>4. ASSUME NEW s \in Sessions, ChildStep(s) PROVE IInv' BY <1>4, RuntimeKeeps DEF ChildStep
<1>5. CASE ParentReads BY <1>5, ParentReadsKeeps
<1>6. CASE ChildReads BY <1>6, ChildReadsKeeps
<1>7. ASSUME NEW i \in Rpcs, TurnStep(i) PROVE IInv' BY <1>7, TurnKeeps
<1>8. CASE ChildDies BY <1>8, DeathKeeps
<1>9. CASE ParentSeesExit \/ Spawn \/ WorkerReady \/ BootFails BY <1>9, ProcessKeeps
<1>10. CASE UNCHANGED vars
  <2> USE <1>10 DEF IInv, vars, parent, pipe, inside
  <2>1. TypeOK' BY DEF TypeOK, ParentTypes, PipeTypes, ChildTypes
  <2>2. Proxies' /\ Gone' BY DEF Proxies, Gone
  <2>3. OneUse' BY OneUseSame
  <2>4. ASSUME NEW x \in Sessions PROVE Agreed(x)'
    <3>1. Ordered(x)' BY DEF Agreed, Ordered, Sent, Disposing, WakeAnswer
    <3>2. Served(x)' BY DEF Agreed, Served, Sent, Disposing, WakeAnswer
    <3>3. Told(x)' BY ToldSame DEF Agreed
    <3> QED BY <3>1, <3>2, <3>3 DEF Agreed
  <2> QED BY <2>1, <2>2, <2>3, <2>4
<1> QED BY <1>1, <1>2, <1>3, <1>4, <1>5, <1>6, <1>7, <1>8, <1>9, <1>10 DEF Next

-----------------------------------------------------------------------------
(* What the invariant says once a session is quiet. *)
LEMMA QuietFollows == ASSUME IInv PROVE QuietMeansAgreed
<1> USE DEF IInv
<1> SUFFICES ASSUME NEW s \in Sessions, Settled(s)
             PROVE  IF registry[s] = "held"
                    THEN /\ child[s].phase = "awake"
                         /\ child[s].missed \/ proxy[s] = child[s].sm
                    ELSE child[s].phase = "none"
  BY DEF QuietMeansAgreed
<1>1. /\ worker = "ready" /\ registry[s] # "waking" /\ ~child[s].unsent
      /\ Sent(s) = {} /\ \A k \in DOMAIN toParent : toParent[k].s # s
  BY DEF Settled, About, Sent
<1>2. CASE registry[s] = "held"
  <2>1. child[s].phase = "awake" BY <1>1, <1>2 DEF Agreed, Served
  <2>2. child[s].missed \/ LastSaid(s, child[s].sm) BY <1>1, <2>1 DEF Agreed, Told
  <2>3. child[s].missed \/ proxy[s] = child[s].sm BY <1>1, <2>2 DEF LastSaid, Reports
  <2> QED BY <1>2, <2>1, <2>3
<1>3. CASE registry[s] # "held"
  <2>1. registry[s] = "none" BY <1>1, <1>3 DEF TypeOK, ParentTypes
  <2>2. proxy[s] = "none" BY <2>1 DEF Proxies
  <2> QED BY <1>1, <1>3, <2>2 DEF Agreed, Served
<1> QED BY <1>2, <1>3

-----------------------------------------------------------------------------
(* The invariant: types, one use for each request id, proxies and runtimes  *)
(* that correspond, and for every session the order of what is said of it.  *)
THEOREM Invariant == Spec => []IInv
<1>1. Init => IInv BY InitHolds
<1>2. IInv /\ [Next]_vars => IInv' BY StepKeeps
<1> QED BY <1>1, <1>2, PTL DEF Spec

(* Once nothing about a session is under way, parent and child agree about  *)
(* it, whatever was evicted with a message in flight; only its status may   *)
(* differ, where the event that last told it was dropped.                   *)
THEOREM QuietAgreement == Spec => []QuietMeansAgreed
<1>1. IInv => QuietMeansAgreed BY QuietFollows
<1> QED BY <1>1, Invariant, PTL

=============================================================================
