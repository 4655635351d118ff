-------------------------- MODULE SubagentsProofs --------------------------
(***************************************************************************)
(* Proofs about the coordinators of one node, for any sessions, any number *)
(* of turns, any cap and any budget.                                       *)
(***************************************************************************)
EXTENDS Subagents, FiniteSetTheorems, TLAPS

(* A turn whose thread, if it has one of its own, exists. *)
Started(t) == turn[t].at \notin {"none"} \cup Spawning

(* Turns, threads and requests belong to the session that made them. *)
Owners ==
    /\ \A t \in Turns : turn[t].at \in InFlight => turn[t].of \in Coordinators
    /\ \A t \in Turns : turn[t].at = "running" =>
          turn[t].on \in Turns /\ Started(turn[t].on)
    /\ \A c \in Coordinators : \A u \in coord[c].threads :
          turn[u].of = c /\ Started(u)
    /\ \A c \in Coordinators : \A t \in pending[c] : turn[t].of = c /\ Started(t)

(* The turns that occupy a slot of the node, and those that occupy one of c. *)
Live == {t \in Turns : \/ turn[t].at \in Spawning
                       \/ \E c \in Coordinators : t \in coord[c].threads}
Busy(c) == {t \in Turns : turn[t].of = c /\ turn[t].at \in InFlight}

Counted ==
    /\ used = Cardinality(Live)
    /\ \A c \in Coordinators : coord[c].inFlightTurns = Cardinality(Busy(c))

(* A session that is being disposed of spawns nothing, and disposes of      *)
(* every thread it has.                                                     *)
ClosesWhole ==
    \A c \in Coordinators :
        /\ coord[c].phase # "open" => SpawnsOf(c) = {}
        /\ coord[c].phase = "disposing" => coord[c].threads \subseteq coord[c].todo

(* A virtual machine serves threads of one session only; in isolated mode   *)
(* only the thread that made it.                                            *)
VmOwners ==
    \A c \in Coordinators :
        /\ coord[c].cached # None =>
              /\ c \in Shared /\ coord[c].cached \in vms
              /\ turn[coord[c].cached].of = c /\ Started(coord[c].cached)
        /\ \A u \in coord[c].threads :
              /\ thread[u].vm \in vms
              /\ turn[thread[u].vm].of = c /\ Started(thread[u].vm)
              /\ c \notin Shared => thread[u].vm = u

(* The request a turn waits for is in the set of its thread. *)
BlocksKept ==
    \A t \in Turns :
        turn[t].at = "running" /\ t \in pending[turn[t].of]
            => t \in thread[turn[t].on].unresolvedBlocks

IInv == /\ TypeOK /\ Owners /\ Counted
        /\ "lateSpawn" \notin Races => ClosesWhole /\ VmOwners
        /\ "sameThread" \notin Races => BlocksKept

-----------------------------------------------------------------------------
LEMMA TurnsFinite == IsFiniteSet(Turns) /\ \A S \in SUBSET Turns : IsFiniteSet(S)
<1>1. IsFiniteSet(Turns) BY NoneAssumption, FS_Interval DEF Turns
<1> QED BY <1>1, FS_Subset

(* What joins a set is counted, what leaves it is subtracted. *)
LEMMA CountJoin ==
    ASSUME NEW S \in SUBSET Turns, NEW T \in SUBSET Turns, S \cap T = {}
    PROVE  /\ Cardinality(S \cup T) = Cardinality(S) + Cardinality(T)
           /\ Cardinality(S) \in Nat /\ Cardinality(T) \in Nat
<1>1. IsFiniteSet(S) /\ IsFiniteSet(T) BY TurnsFinite
<1>2. Cardinality(S) \in Nat /\ Cardinality(T) \in Nat BY <1>1, FS_CardinalityType
<1>3. Cardinality(S \cap T) = 0 BY FS_EmptySet
<1>4. Cardinality(S \cup T) = Cardinality(S) + Cardinality(T) - Cardinality(S \cap T)
  BY <1>1, FS_Union
<1> QED BY <1>2, <1>3, <1>4

LEMMA CountLeave ==
    ASSUME NEW S \in SUBSET Turns, NEW t \in S
    PROVE  /\ Cardinality(S \ {t}) = Less(Cardinality(S), 1)
           /\ Cardinality(S) \in Nat \ {0}
<1>1. IsFiniteSet(S) BY TurnsFinite
<1>2. Cardinality(S \ {t}) = Cardinality(S) - 1 BY <1>1, FS_RemoveElement
<1>3. Cardinality(S) \in Nat /\ Cardinality(S) # 0 BY <1>1, FS_CardinalityType, FS_EmptySet
<1> QED BY <1>2, <1>3 DEF Less

(* Both counters are what the runs check. *)
LEMMA CountedMatches == ASSUME TypeOK, Owners, Counted PROVE CountersMatch
<1>1. UNION {coord[c].threads \cup SpawnsOf(c) : c \in Coordinators} = Live
  BY DEF TypeOK, CoordState, Owners, Live, SpawnsOf, TurnsOf, InFlight, Spawning
<1>2. \A c \in Coordinators : {t \in TurnsOf(c) : turn[t].at \in InFlight} = Busy(c)
  BY DEF TurnsOf, Busy
<1> QED BY <1>1, <1>2 DEF Counted, CountersMatch, BudgetIsLive, CapCountsTurns

LEMMA InitHolds == ASSUME Init PROVE IInv
<1> USE SharedAssumption, BoundsAssumption, NoneAssumption
<1>1. TypeOK BY DEF Init, TypeOK, TurnState, CoordState, ThreadState
<1>2. Owners BY DEF Init, Owners, InFlight, Spawning
<1>3. Live = {} /\ \A c \in Coordinators : Busy(c) = {} BY DEF Init, Live, Busy, InFlight, Spawning
<1>4. Counted BY <1>3, FS_EmptySet DEF Init, Counted
<1>5. ClosesWhole /\ VmOwners BY DEF Init, ClosesWhole, VmOwners
<1>6. BlocksKept BY DEF Init, BlocksKept
<1> QED BY <1>1, <1>2, <1>4, <1>5, <1>6 DEF IInv

-----------------------------------------------------------------------------
(* A turn no thread list, no pending block and no follow-up names may move:  *)
(* the others keep their owners, and it needs one of its own.                *)
LEMMA OwnersKept ==
    ASSUME TypeOK, Owners, NEW t \in Turns,
           \A x \in Turns \ {t} : turn'[x] = turn[x],
           \A x \in Turns : turn[x].at = "running" => turn[x].on # t,
           \A d \in Coordinators : t \notin coord[d].threads /\ t \notin pending[d],
           \A d \in Coordinators : coord'[d].threads = coord[d].threads,
           pending' = pending,
           turn'[t].at \in InFlight => turn'[t].of \in Coordinators,
           turn'[t].at = "running" =>
              \E u \in Turns \ {t} : turn'[t].on = u /\ Started(u)
    PROVE  Owners'
<1>1. \A d \in Coordinators : coord[d].threads \subseteq Turns /\ pending[d] \subseteq Turns
  BY DEF TypeOK, CoordState
<1> HIDE DEF TypeOK
<1>2. \A x \in Turns : turn'[x].at \in InFlight => turn'[x].of \in Coordinators BY DEF Owners
<1>3. \A x \in Turns \ {t} : Started(x) => Started(x)' BY DEF Started
<1>4. \A x \in Turns : turn'[x].at = "running" =>
        turn'[x].on \in Turns /\ turn'[turn'[x].on].at \notin {"none"} \cup Spawning
  BY <1>3 DEF Owners, Started
<1>5. \A d \in Coordinators : \A x \in coord'[d].threads : turn'[x].of = d /\ Started(x)'
  BY <1>1, <1>3 DEF Owners
<1>6. \A d \in Coordinators : \A x \in pending'[d] : turn'[x].of = d /\ Started(x)'
  BY <1>1, <1>3 DEF Owners
<1> QED BY <1>2, <1>4, <1>5, <1>6 DEF Owners, Started

-----------------------------------------------------------------------------
(* A fan-out takes as many slots of the node and of its session as turns    *)
(* spawn, all of them fresh.                                                *)
LEMMA DelegatePreserves ==
    ASSUME IInv, NEW c \in Coordinators, NEW fanout \in SUBSET Turns, Delegate(c, fanout)
    PROVE  IInv'
<1> USE BoundsAssumption DEF IInv
<1>1. PICK spawned \in SUBSET fanout :
          /\ used + Cardinality(spawned) =< NodeMax
          /\ used' = used + Cardinality(spawned)
          /\ turn' = [t \in Turns |->
                IF t \in spawned
                THEN [turn[t] EXCEPT !.at = "creating", !.of = c]
                ELSE IF t \in fanout
                THEN [turn[t] EXCEPT !.at = "settled", !.of = c]
                ELSE turn[t]]
          /\ coord' = [coord EXCEPT
                ![c].inFlightTurns = @ + Cardinality(spawned)]
  BY DEF Delegate
<1>2. coord[c].phase = "open" /\ coord[c].inFlightTurns + Cardinality(fanout) =< Cap
      /\ \A t \in fanout : turn[t].at = "none"
  BY DEF Delegate, Admits, Fresh
<1>3. UNCHANGED <<thread, pending, sessions, vms>> BY DEF Delegate
<1>4. /\ \A t \in spawned : turn'[t].at = "creating" /\ turn'[t].of = c /\ turn'[t].on = turn[t].on
      /\ \A t \in fanout \ spawned : turn'[t].at = "settled" /\ turn'[t].of = c
      /\ \A t \in Turns \ fanout : turn'[t] = turn[t]
  <2>1. \A t \in Turns : turn[t] \in TurnState BY DEF TypeOK
  <2>2. \A t \in spawned :
           turn'[t].at = "creating" /\ turn'[t].of = c /\ turn'[t].on = turn[t].on
    <3> SUFFICES ASSUME NEW t \in spawned
                 PROVE  turn'[t].at = "creating" /\ turn'[t].of = c /\ turn'[t].on = turn[t].on
      OBVIOUS
    <3>1. turn'[t] = [turn[t] EXCEPT !.at = "creating", !.of = c] BY <1>1
    <3> QED BY <2>1, <3>1 DEF TurnState
  <2>3. \A t \in fanout \ spawned : turn'[t].at = "settled" /\ turn'[t].of = c
    <3> SUFFICES ASSUME NEW t \in fanout \ spawned
                 PROVE  turn'[t].at = "settled" /\ turn'[t].of = c
      OBVIOUS
    <3>1. turn'[t] = [turn[t] EXCEPT !.at = "settled", !.of = c] BY <1>1
    <3> QED BY <2>1, <3>1 DEF TurnState
  <2>4. \A t \in Turns \ fanout : turn'[t] = turn[t] BY <1>1
  <2> QED BY <2>2, <2>3, <2>4
<1>5. /\ coord'[c].inFlightTurns = coord[c].inFlightTurns + Cardinality(spawned)
      /\ \A d \in Coordinators : /\ coord'[d].threads = coord[d].threads
                                 /\ coord'[d].cached = coord[d].cached
                                 /\ coord'[d].phase = coord[d].phase
                                 /\ coord'[d].todo = coord[d].todo
      /\ \A d \in Coordinators \ {c} : coord'[d].inFlightTurns = coord[d].inFlightTurns
  BY <1>1 DEF TypeOK, CoordState
<1>6. Cardinality(spawned) \in Nat /\ Cardinality(fanout) \in Nat
      /\ Cardinality(spawned) =< Cardinality(fanout)
  BY TurnsFinite, FS_Subset, FS_CardinalityType
<1>7. TypeOK'
  <2>1. \A t \in Turns, a \in {"creating", "settled"} :
          [turn[t] EXCEPT !.at = a, !.of = c] \in TurnState
    <3>1. \A t \in Turns : turn[t] \in TurnState BY DEF TypeOK
    <3> QED BY <3>1 DEF TurnState, InFlight, Spawning
  <2>2. turn' \in [Turns -> TurnState] BY <1>1, <2>1 DEF TypeOK
  <2>3. coord[c].inFlightTurns + Cardinality(spawned) \in 0 .. Cap
    BY <1>2, <1>6 DEF TypeOK, CoordState
  <2>4. [coord[c] EXCEPT !.inFlightTurns = @ + Cardinality(spawned)] \in CoordState
    BY <2>3 DEF TypeOK, CoordState
  <2>5. coord' \in [Coordinators -> CoordState] BY <1>1, <2>4 DEF TypeOK
  <2>6. used \in 0 .. NodeMax BY DEF TypeOK
  <2>7. used + Cardinality(spawned) =< NodeMax /\ used' = used + Cardinality(spawned) BY <1>1
  <2>8. used' \in 0 .. NodeMax BY <1>6, <2>6, <2>7
  <2>9. /\ thread \in [Turns -> ThreadState] /\ pending \in [Coordinators -> SUBSET Turns]
        /\ sessions \subseteq Turns /\ vms \subseteq Turns
    BY DEF TypeOK
  <2>10. /\ thread' \in [Turns -> ThreadState] /\ pending' \in [Coordinators -> SUBSET Turns]
         /\ sessions' \subseteq Turns /\ vms' \subseteq Turns
    BY <1>3, <2>9
  <2> QED BY <2>2, <2>5, <2>8, <2>10 DEF TypeOK
<1>8. Owners'
  <2>1. \A t \in Turns : turn'[t].at \in InFlight => turn'[t].of \in Coordinators
    BY <1>4 DEF Owners, InFlight, Spawning
  <2>2. \A t \in Turns : Started(t) => turn'[t] = turn[t]
    BY <1>2, <1>4 DEF Started
  <2>3. \A t \in Turns : turn'[t].at = "running" => turn'[t] = turn[t]
    BY <1>4
  <2>4. \A t \in Turns :
           turn'[t].at = "running" => turn'[t].on \in Turns /\ Started(turn[t].on)'
    BY <2>2, <2>3 DEF Owners, Started
  <2>5. \A d \in Coordinators : coord[d].threads \subseteq Turns /\ pending[d] \subseteq Turns
    BY DEF TypeOK, CoordState
  <2>6. \A d \in Coordinators : \A u \in coord'[d].threads : turn'[u].of = d /\ Started(u)'
    BY <1>5, <2>2, <2>5 DEF Owners, Started
  <2>7. \A d \in Coordinators : \A t \in pending'[d] : turn'[t].of = d /\ Started(t)'
    BY <1>3, <2>2, <2>5 DEF Owners, Started
  <2> QED BY <2>1, <2>4, <2>6, <2>7 DEF Owners
<1>9. Counted'
  <2>1. Live' = Live \cup spawned /\ Live \cap spawned = {}
    BY <1>2, <1>4, <1>5 DEF Live, Owners, Started, Spawning
  <2>2. Busy(c)' = Busy(c) \cup spawned /\ Busy(c) \cap spawned = {}
    BY <1>2, <1>4 DEF Busy, InFlight, Spawning
  <2>3. \A d \in Coordinators \ {c} : Busy(d)' = Busy(d)
    BY <1>2, <1>4 DEF Busy, Owners, InFlight, Spawning
  <2>4. Cardinality(Live') = Cardinality(Live) + Cardinality(spawned)
    BY <2>1, CountJoin DEF Live
  <2>5. Cardinality(Busy(c)') = Cardinality(Busy(c)) + Cardinality(spawned)
    BY <2>2, CountJoin DEF Busy
  <2>6. used' = Cardinality(Live') BY <1>1, <2>4 DEF Counted
  <2>7. ASSUME NEW d \in Coordinators
        PROVE  coord'[d].inFlightTurns = Cardinality(Busy(d)')
    <3>1. CASE d = c BY <1>5, <2>5, <3>1 DEF Counted
    <3>2. CASE d # c BY <1>5, <2>3, <3>2 DEF Counted
    <3> QED BY <3>1, <3>2
  <2> QED BY <2>6, <2>7 DEF Counted
<1>10. ASSUME ClosesWhole, VmOwners PROVE (ClosesWhole /\ VmOwners)'
  <2>1. ClosesWhole' BY <1>2, <1>4, <1>5, <1>10 DEF ClosesWhole, SpawnsOf, TurnsOf, Spawning
  <2>2. VmOwners' BY <1>2, <1>3, <1>4, <1>5, <1>10 DEF VmOwners, TypeOK, Started, Spawning
  <2> QED BY <2>1, <2>2
<1>11. ASSUME BlocksKept PROVE BlocksKept'
  BY <1>2, <1>3, <1>4, <1>11 DEF BlocksKept
<1> QED BY <1>7, <1>8, <1>9, <1>10, <1>11

-----------------------------------------------------------------------------
(* The sets that count a spawn count it once. *)
LEMMA SpawnCounted ==
    ASSUME IInv, NEW t \in Turns, turn[t].at \in Spawning
    PROVE  /\ turn[t].of \in Coordinators /\ t \in Live /\ t \in Busy(turn[t].of)
           /\ \A c \in Coordinators : t \notin coord[c].threads /\ t \notin pending[c]
           /\ \A u \in Turns : turn[u].at = "running" => turn[u].on # t
BY DEF IInv, Owners, Live, Busy, Started, InFlight

(* One turn settles or moves on, and its session counts it accordingly. *)
LEMMA SpawnEndPreserves ==
    ASSUME IInv, NEW t \in Turns, turn[t].at \in Spawning, SpawnFails(t),
           sessions' \subseteq sessions
    PROVE  IInv'
<1> USE BoundsAssumption DEF IInv
<1>0. PICK c \in Coordinators : turn[t].of = c BY SpawnCounted
<1> USE <1>0
<1>1. t \in Live /\ t \in Busy(c)
      /\ \A d \in Coordinators : t \notin coord[d].threads /\ t \notin pending[d]
      /\ \A u \in Turns : turn[u].at = "running" => turn[u].on # t
  BY SpawnCounted
<1>2. /\ turn'[t].at = "settled" /\ turn'[t].of = c
      /\ \A u \in Turns \ {t} : turn'[u] = turn[u]
  BY DEF SpawnFails, TypeOK, TurnState
<1>3. /\ coord'[c].inFlightTurns = Less(coord[c].inFlightTurns, 1)
      /\ \A d \in Coordinators : /\ coord'[d].threads = coord[d].threads
                                 /\ coord'[d].cached = coord[d].cached
                                 /\ coord'[d].phase = coord[d].phase
                                 /\ coord'[d].todo = coord[d].todo
      /\ \A d \in Coordinators \ {c} : coord'[d].inFlightTurns = coord[d].inFlightTurns
  BY <1>1 DEF SpawnFails, TypeOK, CoordState
<1>4. UNCHANGED <<thread, pending, vms>> /\ used' = Less(used, 1) BY DEF SpawnFails
<1>5. TypeOK'
  <2>1. [turn[t] EXCEPT !.at = "settled"] \in TurnState
    BY DEF TypeOK, TurnState, InFlight, Spawning
  <2>2. turn' \in [Turns -> TurnState] BY <2>1 DEF SpawnFails, TypeOK
  <2>3. [coord[c] EXCEPT !.inFlightTurns = Less(@, 1)] \in CoordState
    BY <1>1 DEF TypeOK, CoordState, Less
  <2>4. coord' \in [Coordinators -> CoordState] BY <1>1, <2>3 DEF SpawnFails, TypeOK
  <2>5. used' \in 0 .. NodeMax BY <1>4 DEF TypeOK, Less
  <2> QED BY <1>4, <2>2, <2>4, <2>5 DEF TypeOK
<1>6. Owners' BY <1>1, <1>2, <1>3, <1>4, OwnersKept DEF InFlight, Spawning
<1>7. Counted'
  <2>1. Live' = Live \ {t} BY <1>1, <1>2, <1>3 DEF Live, Spawning
  <2>2. Busy(c)' = Busy(c) \ {t} BY <1>2 DEF Busy, InFlight, Spawning
  <2>3. \A d \in Coordinators \ {c} : Busy(d)' = Busy(d) BY <1>2 DEF Busy
  <2>4. Cardinality(Live') = Less(Cardinality(Live), 1) BY <1>1, <2>1, CountLeave DEF Live
  <2>5. Cardinality(Busy(c)') = Less(Cardinality(Busy(c)), 1)
    BY <1>1, <2>2, CountLeave DEF Busy
  <2> QED BY <1>1, <1>3, <1>4, <2>3, <2>4, <2>5 DEF Counted
<1>8. ASSUME ClosesWhole, VmOwners PROVE (ClosesWhole /\ VmOwners)'
  <2>1. ClosesWhole' BY <1>2, <1>3, <1>8 DEF ClosesWhole, SpawnsOf, TurnsOf, Spawning
  <2>2. VmOwners' BY <1>2, <1>3, <1>4, <1>8 DEF VmOwners, TypeOK, Started, Spawning
  <2> QED BY <2>1, <2>2
<1>9. ASSUME BlocksKept PROVE BlocksKept'
  BY <1>1, <1>2, <1>4, <1>9 DEF BlocksKept
<1> QED BY <1>5, <1>6, <1>7, <1>8, <1>9

LEMMA ColdPreserves ==
    ASSUME IInv, NEW t \in Turns, CreatedCold(t)
    PROVE  IInv'
<1> USE DEF IInv
<1>1. turn[t].at = "creating" /\ UNCHANGED <<coord, thread, pending, vms, used>>
  BY DEF CreatedCold
<1>2. t \in Live /\ (\A d \in Coordinators : t \notin coord[d].threads /\ t \notin pending[d])
      /\ \A u \in Turns : turn[u].at = "running" => turn[u].on # t
  BY <1>1, SpawnCounted DEF Spawning
<1>3. /\ turn'[t].at = "provisioning" /\ turn'[t].of = turn[t].of
      /\ \A u \in Turns \ {t} : turn'[u] = turn[u]
  BY DEF CreatedCold, TypeOK, TurnState
<1>4. TypeOK'
  <2>1. [turn[t] EXCEPT !.at = "provisioning"] \in TurnState
    BY DEF TypeOK, TurnState, InFlight, Spawning
  <2>2. turn' \in [Turns -> TurnState] BY <2>1 DEF CreatedCold, TypeOK
  <2>3. sessions' \subseteq Turns BY DEF CreatedCold, TypeOK
  <2> QED BY <1>1, <2>2, <2>3 DEF TypeOK
<1>5. Owners'
  <2>1. \A x \in Turns : turn'[x].at \in InFlight => turn'[x].of \in Coordinators
    BY <1>1, <1>3 DEF Owners, InFlight, Spawning
  <2>2. \A x \in Turns \ {t} : Started(x)' <=> Started(x) BY <1>3 DEF Started
  <2>3. \A x \in Turns : turn'[x].at = "running" =>
          turn'[x].on \in Turns /\ turn'[turn'[x].on].at \notin {"none"} \cup Spawning
    BY <1>2, <1>3, <2>2 DEF Owners, Started
  <2>4. \A d \in Coordinators : \A x \in coord'[d].threads : turn'[x].of = d /\ Started(x)'
    BY <1>1, <1>2, <1>3, <2>2 DEF Owners, TypeOK, CoordState
  <2>5. \A d \in Coordinators : \A x \in pending'[d] : turn'[x].of = d /\ Started(x)'
    BY <1>1, <1>2, <1>3, <2>2 DEF Owners, TypeOK
  <2> QED BY <2>1, <2>3, <2>4, <2>5 DEF Owners, Started
<1>6. Counted'
  <2>1. Live' = Live BY <1>1, <1>3 DEF Live, Spawning
  <2>2. \A d \in Coordinators : Busy(d)' = Busy(d) BY <1>1, <1>3 DEF Busy, InFlight, Spawning
  <2> QED BY <1>1, <2>1, <2>2 DEF Counted
<1>7. ASSUME ClosesWhole, VmOwners PROVE (ClosesWhole /\ VmOwners)'
  <2>1. ClosesWhole' BY <1>1, <1>3, <1>7 DEF ClosesWhole, SpawnsOf, TurnsOf, Spawning
  <2>2. VmOwners' BY <1>1, <1>3, <1>7 DEF VmOwners, TypeOK, Started, Spawning
  <2> QED BY <2>1, <2>2
<1>8. ASSUME BlocksKept PROVE BlocksKept'
  BY <1>1, <1>2, <1>3, <1>8 DEF BlocksKept
<1> QED BY <1>4, <1>5, <1>6, <1>7, <1>8

(* A thread enters the maps with a machine of its session, or with its own. *)
LEMMA RegisterPreserves ==
    ASSUME IInv, NEW t \in Turns, NEW vm \in Turns, turn[t].at \in Spawning, Register(t, vm),
           vms \subseteq vms', vms' \subseteq Turns, sessions' \subseteq Turns,
           "lateSpawn" \notin Races =>
              /\ vm \in vms'
              /\ vm = t \/ (turn[t].of \in Shared /\ turn[vm].of = turn[t].of /\ Started(vm))
    PROVE  IInv'
<1> USE DEF IInv
<1>0. PICK c \in Coordinators : turn[t].of = c BY SpawnCounted
<1> USE <1>0
<1>1. t \in Live /\ t \in Busy(c)
      /\ (\A d \in Coordinators : t \notin coord[d].threads /\ t \notin pending[d])
      /\ \A u \in Turns : turn[u].at = "running" => turn[u].on # t
  BY SpawnCounted
<1>2. /\ turn'[t].at = "running" /\ turn'[t].of = c /\ turn'[t].on = t
      /\ \A u \in Turns \ {t} : turn'[u] = turn[u]
  BY DEF Register, TypeOK, TurnState
<1>3. /\ coord'[c].threads = coord[c].threads \cup {t}
      /\ coord'[c].cached = IF c \in Shared THEN vm ELSE coord[c].cached
      /\ \A d \in Coordinators : /\ coord'[d].inFlightTurns = coord[d].inFlightTurns
                                 /\ coord'[d].phase = coord[d].phase
                                 /\ coord'[d].todo = coord[d].todo
      /\ \A d \in Coordinators \ {c} : coord'[d] = coord[d]
  BY <1>1 DEF Register, TypeOK, CoordState
<1>4. /\ thread'[t] = [status |-> "running", vm |-> vm, unresolvedBlocks |-> {}]
      /\ \A u \in Turns \ {t} : thread'[u] = thread[u]
  BY DEF Register, TypeOK
<1>5. UNCHANGED <<pending, used>> BY DEF Register
<1>6. TypeOK'
  <2>1. [turn[t] EXCEPT !.at = "running", !.on = t] \in TurnState
    BY DEF TypeOK, TurnState, InFlight, Spawning
  <2>2. turn' \in [Turns -> TurnState] BY <2>1 DEF Register, TypeOK
  <2>3. [status |-> "running", vm |-> vm, unresolvedBlocks |-> {}] \in ThreadState
    BY DEF ThreadState
  <2>4. thread' \in [Turns -> ThreadState] BY <2>3 DEF Register, TypeOK
  <2>5. \A th, ru \in SUBSET Turns, sh, ca \in Turns \cup {None} :
          [coord[c] EXCEPT !.threads = th, !.running = ru, !.sharedSandbox = sh, !.cached = ca]
             \in CoordState
    <3>1. coord[c] \in CoordState BY DEF TypeOK
    <3> QED BY <3>1 DEF CoordState
  <2>6. coord' \in [Coordinators -> CoordState]
    <3> DEFINE th == coord[c].threads \cup {t}
               ru == coord[c].running \cup {t}
               sh == IF c \in Shared THEN vm ELSE coord[c].sharedSandbox
               ca == IF c \in Shared THEN vm ELSE coord[c].cached
    <3>1. th \in SUBSET Turns /\ ru \in SUBSET Turns
          /\ sh \in Turns \cup {None} /\ ca \in Turns \cup {None}
      BY DEF TypeOK, CoordState
    <3>2. coord' = [coord EXCEPT ![c] =
             [coord[c] EXCEPT !.threads = th, !.running = ru, !.sharedSandbox = sh, !.cached = ca]]
      BY DEF Register
    <3> HIDE DEF th, ru, sh, ca
    <3> QED BY <2>5, <3>1, <3>2 DEF TypeOK
  <2> QED BY <1>5, <2>2, <2>4, <2>6 DEF TypeOK
<1>7. Owners'
  <2>1. \A u \in Turns : Started(u) => Started(u)' BY <1>2 DEF Started
  <2>2. Started(t)' BY <1>2 DEF Started, Spawning
  <2>3. \A d \in Coordinators, u \in Turns : turn[u].of = d => turn'[u].of = d BY <1>2
  <2>4. \A u \in Turns : turn'[u].at \in InFlight => turn'[u].of \in Coordinators
    BY <1>2 DEF Owners
  <2>5. \A u \in Turns : turn'[u].at = "running" =>
          turn'[u].on \in Turns /\ turn'[turn'[u].on].at \notin {"none"} \cup Spawning
    BY <1>2 DEF Owners, Started, Spawning
  <2>6. \A d \in Coordinators : \A u \in coord'[d].threads :
          turn'[u].of = d /\ Started(u)'
    BY <1>2, <1>3, <2>1, <2>2, <2>3 DEF Owners, TypeOK, CoordState
  <2>7. \A d \in Coordinators : \A u \in pending'[d] : turn'[u].of = d /\ Started(u)'
    BY <1>5, <2>1, <2>3 DEF Owners, TypeOK
  <2> QED BY <2>4, <2>5, <2>6, <2>7 DEF Owners, Started
<1>8. Counted'
  <2>1. Live' = Live BY <1>1, <1>2, <1>3 DEF Live, Spawning
  <2>2. \A d \in Coordinators : Busy(d)' = Busy(d) BY <1>2 DEF Busy, InFlight, Spawning
  <2> QED BY <1>3, <1>5, <2>1, <2>2 DEF Counted
<1>9. ASSUME "lateSpawn" \notin Races, ClosesWhole, VmOwners PROVE (ClosesWhole /\ VmOwners)'
  <2>1. coord[c].phase = "open"
    BY <1>1, <1>9 DEF ClosesWhole, SpawnsOf, TurnsOf
  <2>2. ClosesWhole'
    BY <1>1, <1>2, <1>3, <1>9, <2>1 DEF ClosesWhole, SpawnsOf, TurnsOf, Spawning
  <2>3. VmOwners'
    BY <1>1, <1>2, <1>3, <1>4, <1>9 DEF VmOwners, TypeOK, CoordState, Started, Spawning
  <2> QED BY <2>2, <2>3
<1>10. ASSUME BlocksKept PROVE BlocksKept'
  BY <1>1, <1>2, <1>4, <1>5, <1>10 DEF BlocksKept, Owners
<1> QED BY <1>6, <1>7, <1>8, <1>9, <1>10

LEMMA SpawnPreserves == ASSUME IInv, NEW t \in Turns, Spawn(t) PROVE IInv'
<1> USE NoneAssumption DEF IInv
<1>1. CASE CreateFails(t) BY <1>1, SpawnEndPreserves DEF CreateFails, Spawning
<1>2. CASE ProvisionFails(t) BY <1>2, SpawnEndPreserves DEF ProvisionFails, Spawning
<1>3. CASE CreatedCold(t) BY <1>3, ColdPreserves
<1>4. CASE CreatedWarm(t)
  <2> DEFINE c == turn[t].of
             vm == coord[c].cached
  <2>1. turn[t].at \in Spawning /\ c \in Shared /\ vm # None /\ Register(t, vm)
        /\ vms' = vms /\ sessions' = sessions \cup {t}
    BY <1>4 DEF CreatedWarm, Spawning
  <2>2. c \in Coordinators BY <2>1, SpawnCounted
  <2>3. vm \in Turns BY <2>1, <2>2 DEF TypeOK, CoordState
  <2>4. "lateSpawn" \notin Races => vm \in vms /\ turn[vm].of = c /\ Started(vm)
    BY <2>1, <2>2 DEF VmOwners
  <2>5. vms \subseteq Turns /\ sessions' \subseteq Turns BY <2>1 DEF TypeOK
  <2> HIDE DEF vm
  <2> QED BY <2>1, <2>3, <2>4, <2>5, RegisterPreserves
<1>5. CASE Provisioned(t)
  <2>1. vms' = vms \cup {t} /\ vms' \subseteq Turns /\ sessions' \subseteq Turns
        /\ turn[t].at \in Spawning /\ Register(t, t)
    BY <1>5 DEF Provisioned, TypeOK, Spawning
  <2> QED BY <2>1, RegisterPreserves
<1> QED BY <1>1, <1>2, <1>3, <1>4, <1>5 DEF Spawn

-----------------------------------------------------------------------------
(* A turn that was asked for is new to every set. *)
LEMMA FreshUnknown ==
    ASSUME IInv, NEW t \in Turns, turn[t].at = "none"
    PROVE  /\ t \notin Live /\ \A c \in Coordinators : t \notin Busy(c)
           /\ \A c \in Coordinators : t \notin coord[c].threads /\ t \notin pending[c]
           /\ \A u \in Turns : turn[u].at = "running" => turn[u].on # t
BY DEF IInv, Owners, Live, Busy, Started, InFlight, Spawning

(* A follow-up takes a slot of its session; only when no turn runs on its   *)
(* thread are the requests it forgets nobody's.                             *)
LEMMA FollowUpPreserves ==
    ASSUME IInv, NEW c \in Coordinators, NEW u \in Turns, NEW t \in Turns, FollowUp(c, u, t)
    PROVE  IInv'
<1> USE DEF IInv
<1>1. coord[c].inFlightTurns + 1 =< Cap /\ u \in coord[c].threads /\ turn[t].at = "none"
  BY DEF FollowUp, Admits, Fresh
<1>2. t \notin Live /\ (\A d \in Coordinators : t \notin Busy(d))
      /\ (\A d \in Coordinators : t \notin coord[d].threads /\ t \notin pending[d])
      /\ \A x \in Turns : turn[x].at = "running" => turn[x].on # t
  BY <1>1, FreshUnknown
<1>3. /\ turn'[t].at = "running" /\ turn'[t].of = c /\ turn'[t].on = u
      /\ \A x \in Turns \ {t} : turn'[x] = turn[x]
  BY DEF FollowUp, TypeOK, TurnState
<1>4. /\ coord'[c].inFlightTurns = coord[c].inFlightTurns + 1
      /\ \A d \in Coordinators : /\ coord'[d].threads = coord[d].threads
                                 /\ coord'[d].cached = coord[d].cached
                                 /\ coord'[d].phase = coord[d].phase
                                 /\ coord'[d].todo = coord[d].todo
      /\ \A d \in Coordinators \ {c} : coord'[d].inFlightTurns = coord[d].inFlightTurns
  BY DEF FollowUp, TypeOK, CoordState
<1>5. /\ \A x \in Turns : thread'[x].vm = thread[x].vm
      /\ \A x \in Turns \ {u} : thread'[x] = thread[x]
  BY DEF FollowUp, TypeOK, ThreadState
<1>6. UNCHANGED <<pending, sessions, vms, used>> BY DEF FollowUp
<1>7. TypeOK'
  <2>1. [turn[t] EXCEPT !.at = "running", !.of = c, !.on = u] \in TurnState
    <3>1. turn[t] \in TurnState BY DEF TypeOK
    <3> QED BY <3>1 DEF TurnState, InFlight, Spawning
  <2>2. turn' \in [Turns -> TurnState] BY <2>1 DEF FollowUp, TypeOK
  <2>3. [thread[u] EXCEPT !.status = "running", !.unresolvedBlocks = {}] \in ThreadState
    <3>1. thread[u] \in ThreadState BY DEF TypeOK
    <3> QED BY <3>1 DEF ThreadState
  <2>4. thread' \in [Turns -> ThreadState] BY <2>3 DEF FollowUp, TypeOK
  <2>5. [coord[c] EXCEPT !.inFlightTurns = @ + 1, !.running = @ \cup {u}] \in CoordState
    <3>1. coord[c] \in CoordState BY DEF TypeOK
    <3>2. coord[c].inFlightTurns + 1 \in 0 .. Cap
      BY <1>1, <3>1, BoundsAssumption DEF CoordState
    <3>3. \A n \in 0 .. Cap, ru \in SUBSET Turns :
            [coord[c] EXCEPT !.inFlightTurns = n, !.running = ru] \in CoordState
      BY <3>1 DEF CoordState
    <3>4. coord[c].running \cup {u} \in SUBSET Turns BY <3>1 DEF CoordState
    <3> QED BY <3>2, <3>3, <3>4
  <2>6. coord' \in [Coordinators -> CoordState] BY <2>5 DEF FollowUp, TypeOK
  <2> QED BY <1>6, <2>2, <2>4, <2>6 DEF TypeOK
<1>8. Owners'
  <2>1. u \in Turns \ {t} /\ Started(u)
    BY <1>1, <1>2 DEF Owners, TypeOK, CoordState
  <2> QED BY <1>2, <1>3, <1>4, <1>6, <2>1, OwnersKept
<1>9. Counted'
  <2>1. Live' = Live BY <1>1, <1>3, <1>4 DEF Live, Spawning
  <2>2. Busy(c)' = Busy(c) \cup {t} BY <1>3 DEF Busy, InFlight
  <2>3. \A d \in Coordinators \ {c} : Busy(d)' = Busy(d)
    BY <1>2, <1>3 DEF Busy
  <2>4. Cardinality(Busy(c)') = Cardinality(Busy(c)) + Cardinality({t})
    <3>1. Busy(c) \in SUBSET Turns /\ {t} \in SUBSET Turns /\ Busy(c) \cap {t} = {}
      BY <1>2 DEF Busy
    <3> QED BY <2>2, <3>1, CountJoin
  <2>5. Cardinality({t}) = 1 BY FS_Singleton
  <2> QED BY <1>4, <1>6, <2>1, <2>3, <2>4, <2>5 DEF Counted
<1>10. ASSUME ClosesWhole, VmOwners PROVE (ClosesWhole /\ VmOwners)'
  <2>1. ClosesWhole' BY <1>3, <1>4, <1>10 DEF ClosesWhole, SpawnsOf, TurnsOf, Spawning
  <2>2. \A x \in Turns : Started(x) => Started(x)' /\ turn'[x].of = turn[x].of
    BY <1>1, <1>3 DEF Started
  <2>3. \A d \in Coordinators : coord[d].cached \in Turns \cup {None}
          /\ \A x \in coord[d].threads : x \in Turns
    BY DEF TypeOK, CoordState
  <2>4. vms \subseteq Turns BY DEF TypeOK
  <2>5. VmOwners' BY <1>4, <1>5, <1>6, <1>10, <2>2, <2>3, <2>4 DEF VmOwners, Started
  <2> QED BY <2>1, <2>5
<1>11. ASSUME "sameThread" \notin Races, BlocksKept PROVE BlocksKept'
  <2>1. \A x \in Turns : turn[x].at = "running" => turn[x].on # u
    BY <1>11 DEF FollowUp, TurnsOn
  <2> SUFFICES ASSUME NEW x \in Turns, turn'[x].at = "running", x \in pending[turn'[x].of]
               PROVE  x \in thread'[turn'[x].on].unresolvedBlocks
    BY <1>6 DEF BlocksKept
  <2>2. x # t BY <1>2, <1>3
  <2>3. turn'[x] = turn[x] /\ turn[x].on \in Turns \ {u}
    BY <1>3, <2>1, <2>2 DEF Owners
  <2> QED BY <1>5, <1>11, <2>3 DEF BlocksKept
<1> QED BY <1>7, <1>8, <1>9, <1>10, <1>11

(* A refused follow-up settles and takes nothing. *)
LEMMA RefusedPreserves ==
    ASSUME IInv, NEW c \in Coordinators, NEW u \in Turns, NEW t \in Turns,
           FollowUpRefused(c, u, t)
    PROVE  IInv'
<1> USE DEF IInv
<1>1. turn[t].at = "none" BY DEF FollowUpRefused, Fresh
<1>2. t \notin Live /\ (\A d \in Coordinators : t \notin Busy(d))
      /\ (\A d \in Coordinators : t \notin coord[d].threads /\ t \notin pending[d])
      /\ \A x \in Turns : turn[x].at = "running" => turn[x].on # t
  BY <1>1, FreshUnknown
<1>3. /\ turn'[t].at = "settled" /\ turn'[t].of = c
      /\ \A x \in Turns \ {t} : turn'[x] = turn[x]
  BY DEF FollowUpRefused, TypeOK, TurnState
<1>4. \A d \in Coordinators : /\ coord'[d].inFlightTurns = coord[d].inFlightTurns
                              /\ coord'[d].threads = coord[d].threads
                              /\ coord'[d].cached = coord[d].cached
                              /\ coord'[d].phase = coord[d].phase
                              /\ coord'[d].todo = coord[d].todo
  BY DEF FollowUpRefused, TypeOK, CoordState
<1>5. UNCHANGED <<thread, pending, sessions, vms, used>> BY DEF FollowUpRefused
<1>6. TypeOK'
  <2>1. [turn[t] EXCEPT !.at = "settled", !.of = c] \in TurnState
    <3>1. turn[t] \in TurnState BY DEF TypeOK
    <3> QED BY <3>1 DEF TurnState
  <2>2. turn' \in [Turns -> TurnState] BY <2>1 DEF FollowUpRefused, TypeOK
  <2>3. [coord[c] EXCEPT !.running = @ \ {u}] \in CoordState
    <3>1. coord[c] \in CoordState BY DEF TypeOK
    <3> QED BY <3>1 DEF CoordState
  <2>4. coord' \in [Coordinators -> CoordState] BY <2>3 DEF FollowUpRefused, TypeOK
  <2> QED BY <1>5, <2>2, <2>4 DEF TypeOK
<1>7. Owners' BY <1>2, <1>3, <1>4, <1>5, OwnersKept DEF InFlight, Spawning
<1>8. Counted'
  <2>1. Live' = Live BY <1>1, <1>3, <1>4 DEF Live, Spawning
  <2>2. \A d \in Coordinators : Busy(d)' = Busy(d) BY <1>1, <1>3 DEF Busy, InFlight, Spawning
  <2> QED BY <1>4, <1>5, <2>1, <2>2 DEF Counted
<1>9. ASSUME ClosesWhole, VmOwners PROVE (ClosesWhole /\ VmOwners)'
  <2>1. ClosesWhole' BY <1>3, <1>4, <1>9 DEF ClosesWhole, SpawnsOf, TurnsOf, Spawning
  <2>2. VmOwners' BY <1>1, <1>3, <1>4, <1>5, <1>9 DEF VmOwners, TypeOK, Started, Spawning
  <2> QED BY <2>1, <2>2
<1>10. ASSUME BlocksKept PROVE BlocksKept' BY <1>2, <1>3, <1>5, <1>10 DEF BlocksKept
<1> QED BY <1>6, <1>7, <1>8, <1>9, <1>10

-----------------------------------------------------------------------------
(* Blocking requests move no slot and no machine. *)
LEMMA RequestsPreserve ==
    ASSUME IInv, TypeOK', UNCHANGED <<coord, sessions, vms, used>>,
           \A t \in Turns : /\ turn'[t].at = turn[t].at /\ turn'[t].of = turn[t].of
                            /\ turn'[t].on = turn[t].on,
           \A u \in Turns : thread'[u].vm = thread[u].vm,
           \A c \in Coordinators : \A t \in pending'[c] : turn[t].of = c /\ Started(t),
           BlocksKept => BlocksKept'
    PROVE  IInv'
<1> USE DEF IInv
<1>1. Owners'
  <2>1. \A t \in Turns : turn'[t].at \in InFlight => turn'[t].of \in Coordinators
    BY DEF Owners
  <2>2. \A t \in Turns : turn'[t].at = "running" =>
          turn'[t].on \in Turns /\ turn'[turn'[t].on].at \notin {"none"} \cup Spawning
    BY DEF Owners, Started
  <2>3. \A c \in Coordinators : \A u \in coord[c].threads : turn'[u].of = c /\ Started(u)'
    BY DEF Owners, TypeOK, CoordState, Started
  <2>4. \A c \in Coordinators : \A t \in pending'[c] : turn'[t].of = c /\ Started(t)'
    BY DEF TypeOK, Started
  <2> QED BY <2>1, <2>2, <2>3, <2>4 DEF Owners, Started
<1>2. Live' = Live /\ \A c \in Coordinators : Busy(c)' = Busy(c) BY DEF Live, Busy
<1>3. Counted' BY <1>2 DEF Counted
<1>4. ClosesWhole => ClosesWhole' BY DEF ClosesWhole, SpawnsOf, TurnsOf
<1>5. ASSUME VmOwners PROVE VmOwners'
  <2>1. \A x \in Turns : Started(x) => Started(x)' BY DEF Started
  <2>2. \A d \in Coordinators : coord[d].cached \in Turns \cup {None}
          /\ \A x \in coord[d].threads : x \in Turns
    BY DEF TypeOK, CoordState
  <2>3. vms \subseteq Turns BY DEF TypeOK
  <2> QED BY <1>5, <2>1, <2>2, <2>3 DEF VmOwners
<1> QED BY <1>1, <1>3, <1>4, <1>5

LEMMA BlockPreserves == ASSUME IInv, NEW t \in Turns, Block(t) PROVE IInv'
<1> USE DEF IInv
<1>0. PICK c \in Coordinators : turn[t].of = c BY DEF Block, Owners, InFlight
<1>1. PICK u \in Turns : turn[t].on = u BY DEF Block, Owners
<1>2. /\ turn[t].at = "running"
      /\ turn' = [turn EXCEPT ![t].asked = TRUE]
      /\ thread' = [thread EXCEPT ![u].unresolvedBlocks = @ \cup {t}]
      /\ pending' = [pending EXCEPT ![c] = @ \cup {t}]
      /\ UNCHANGED <<coord, sessions, vms, used>>
  BY <1>0, <1>1 DEF Block
<1>3. TypeOK'
  <2>1. [turn[t] EXCEPT !.asked = TRUE] \in TurnState BY DEF TypeOK, TurnState
  <2>2. turn' \in [Turns -> TurnState] BY <1>2, <2>1 DEF TypeOK
  <2>3. [thread[u] EXCEPT !.unresolvedBlocks = @ \cup {t}] \in ThreadState
    BY DEF TypeOK, ThreadState
  <2>4. thread' \in [Turns -> ThreadState] BY <1>2, <2>3 DEF TypeOK
  <2>5. pending' \in [Coordinators -> SUBSET Turns] BY <1>2 DEF TypeOK
  <2> QED BY <1>2, <2>2, <2>4, <2>5 DEF TypeOK
<1>4. \A x \in Turns : /\ turn'[x].at = turn[x].at /\ turn'[x].of = turn[x].of
                       /\ turn'[x].on = turn[x].on
  BY <1>2 DEF TypeOK, TurnState
<1>5. \A x \in Turns : /\ thread'[x].vm = thread[x].vm
                       /\ thread[x].unresolvedBlocks \subseteq thread'[x].unresolvedBlocks
  BY <1>2 DEF TypeOK, ThreadState
<1>6. t \in thread'[u].unresolvedBlocks BY <1>2 DEF TypeOK, ThreadState
<1>7. \A d \in Coordinators : \A x \in pending'[d] : turn[x].of = d /\ Started(x)
  BY <1>0, <1>2 DEF TypeOK, Owners, Started, Spawning
<1>8. BlocksKept => BlocksKept'
  <2> SUFFICES ASSUME BlocksKept, NEW x \in Turns, turn'[x].at = "running",
                      x \in pending'[turn'[x].of]
               PROVE  x \in thread'[turn'[x].on].unresolvedBlocks
    BY DEF BlocksKept
  <2>1. CASE x = t BY <1>1, <1>4, <1>6, <2>1
  <2>2. CASE x # t
    <3>1. turn[x].of \in Coordinators /\ turn[x].on \in Turns BY <1>4 DEF Owners, InFlight
    <3>2. x \in pending[turn[x].of] BY <1>2, <1>4, <2>2, <3>1 DEF TypeOK
    <3> QED BY <1>4, <1>5, <3>1, <3>2 DEF BlocksKept
  <2> QED BY <2>1, <2>2
<1> QED BY <1>2, <1>3, <1>4, <1>5, <1>7, <1>8, RequestsPreserve

(* A resolved request leaves pending and the set of its thread together. *)
LEMMA ResolvePreserves ==
    ASSUME IInv, NEW c \in Coordinators, NEW blocks \in SUBSET pending[c], Resolve(c, blocks),
           UNCHANGED <<turn, coord, sessions, vms, used>>
    PROVE  IInv'
<1> USE DEF IInv
<1>1. /\ pending'[c] = pending[c] \ blocks
      /\ \A d \in Coordinators \ {c} : pending'[d] = pending[d]
  BY DEF Resolve, TypeOK
<1>2. \A x \in Turns : /\ thread'[x].vm = thread[x].vm
                       /\ thread'[x].unresolvedBlocks = thread[x].unresolvedBlocks \ blocks
  BY DEF Resolve, TypeOK, ThreadState
<1>3. TypeOK'
  <2>1. \A x \in Turns : [thread[x] EXCEPT !.unresolvedBlocks = @ \ blocks] \in ThreadState
    BY DEF TypeOK, ThreadState
  <2>2. thread' \in [Turns -> ThreadState] BY <2>1 DEF Resolve
  <2>3. pending' \in [Coordinators -> SUBSET Turns] BY DEF Resolve, TypeOK
  <2> QED BY <2>2, <2>3 DEF TypeOK
<1>4. \A d \in Coordinators : \A x \in pending'[d] : turn[x].of = d /\ Started(x)
  BY <1>1 DEF Owners, Started
<1>5. BlocksKept => BlocksKept'
  BY <1>1, <1>2 DEF BlocksKept, Owners, InFlight
<1> QED BY <1>2, <1>3, <1>4, <1>5, RequestsPreserve

LEMMA AnswerPreserves ==
    ASSUME IInv, NEW c \in Coordinators, NEW b \in Turns, Answer(c, b) \/ AbortAll(c)
    PROVE  IInv'
<1>1. CASE Answer(c, b) BY <1>1, ResolvePreserves DEF Answer
<1>2. CASE AbortAll(c) BY <1>2, ResolvePreserves DEF AbortAll
<1> QED BY <1>1, <1>2

(* A turn that ends, however it ends, gives its slot of the session back. *)
LEMMA EndPreserves == ASSUME IInv, NEW t \in Turns, TurnEnds(t) PROVE IInv'
<1> USE DEF IInv
<1>0. PICK c \in Coordinators : turn[t].of = c BY DEF TurnEnds, Owners, InFlight
<1>1. PICK u \in Turns : turn[t].on = u BY DEF TurnEnds, Owners
<1>2. PICK ok \in BOOLEAN :
          /\ turn' = [turn EXCEPT ![t] =
                [at |-> Outcome(t, ok), of |-> c, on |-> None, asked |-> FALSE]]
          /\ thread' = [thread EXCEPT ![u].status = IF ok THEN "idle" ELSE "terminated"]
  BY <1>0, <1>1 DEF TurnEnds
<1>3. /\ turn[t].at = "running" /\ UNCHANGED <<pending, sessions, vms, used>>
      /\ coord' = [coord EXCEPT ![c].inFlightTurns = Less(@, 1), ![c].running = @ \ {u}]
  BY <1>0, <1>1 DEF TurnEnds
<1>4. /\ turn'[t].at \in {"settled", "requires_action"} /\ turn'[t].of = c
      /\ \A x \in Turns \ {t} : turn'[x] = turn[x]
  BY <1>2 DEF Outcome, TypeOK
<1>5. \A x \in Turns : /\ thread'[x].vm = thread[x].vm
                       /\ thread'[x].unresolvedBlocks = thread[x].unresolvedBlocks
  BY <1>2 DEF TypeOK, ThreadState
<1>6. /\ coord'[c].inFlightTurns = Less(coord[c].inFlightTurns, 1)
      /\ \A d \in Coordinators : /\ coord'[d].threads = coord[d].threads
                                 /\ coord'[d].cached = coord[d].cached
                                 /\ coord'[d].phase = coord[d].phase
                                 /\ coord'[d].todo = coord[d].todo
      /\ \A d \in Coordinators \ {c} : coord'[d].inFlightTurns = coord[d].inFlightTurns
  BY <1>3 DEF TypeOK, CoordState
<1>7. TypeOK'
  <2>1. [at |-> Outcome(t, ok), of |-> c, on |-> None, asked |-> FALSE] \in TurnState
    BY DEF TurnState, Outcome
  <2>2. turn' \in [Turns -> TurnState] BY <1>2, <2>1 DEF TypeOK
  <2>3. \A st \in {"idle", "terminated"} : [thread[u] EXCEPT !.status = st] \in ThreadState
    BY DEF TypeOK, ThreadState
  <2>4. thread' \in [Turns -> ThreadState] BY <1>2, <2>3 DEF TypeOK
  <2>5. [coord[c] EXCEPT !.inFlightTurns = Less(@, 1), !.running = @ \ {u}] \in CoordState
    <3>1. coord[c] \in CoordState BY DEF TypeOK
    <3>2. Less(coord[c].inFlightTurns, 1) \in 0 .. Cap
      BY <3>1, BoundsAssumption DEF CoordState, Less
    <3>3. \A n \in 0 .. Cap, ru \in SUBSET Turns :
            [coord[c] EXCEPT !.inFlightTurns = n, !.running = ru] \in CoordState
      BY <3>1 DEF CoordState
    <3>4. coord[c].running \ {u} \in SUBSET Turns BY <3>1 DEF CoordState
    <3> QED BY <3>2, <3>3, <3>4
  <2>6. coord' \in [Coordinators -> CoordState] BY <1>3, <2>5 DEF TypeOK
  <2> QED BY <1>3, <2>2, <2>4, <2>6 DEF TypeOK
<1>8. \A x \in Turns : (Started(x) => Started(x)') /\ turn'[x].of = turn[x].of
  BY <1>0, <1>4 DEF Started, Spawning
<1>9. Owners'
  <2>1. \A x \in Turns : turn'[x].at \in InFlight => turn'[x].of \in Coordinators
    BY <1>4 DEF Owners, InFlight, Spawning
  <2>2. \A x \in Turns : turn'[x].at = "running" =>
          turn'[x].on \in Turns /\ turn'[turn'[x].on].at \notin {"none"} \cup Spawning
    BY <1>4, <1>8 DEF Owners, Started
  <2>3. \A d \in Coordinators : \A x \in coord'[d].threads : turn'[x].of = d /\ Started(x)'
    BY <1>6, <1>8 DEF Owners, TypeOK, CoordState
  <2>4. \A d \in Coordinators : \A x \in pending'[d] : turn'[x].of = d /\ Started(x)'
    BY <1>3, <1>8 DEF Owners, TypeOK
  <2> QED BY <2>1, <2>2, <2>3, <2>4 DEF Owners, Started
<1>10. Counted'
  <2>1. Live' = Live BY <1>3, <1>4, <1>6 DEF Live, Spawning
  <2>2. Busy(c)' = Busy(c) \ {t} /\ t \in Busy(c)
    BY <1>0, <1>3, <1>4 DEF Busy, InFlight, Spawning
  <2>3. \A d \in Coordinators \ {c} : Busy(d)' = Busy(d) BY <1>0, <1>4 DEF Busy
  <2>4. Cardinality(Busy(c)') = Less(Cardinality(Busy(c)), 1) BY <2>2, CountLeave DEF Busy
  <2>5. ASSUME NEW d \in Coordinators
        PROVE  coord'[d].inFlightTurns = Cardinality(Busy(d)')
    <3>1. CASE d = c BY <1>6, <2>4, <3>1 DEF Counted
    <3>2. CASE d # c BY <1>6, <2>3, <3>2 DEF Counted
    <3> QED BY <3>1, <3>2
  <2> QED BY <1>3, <2>1, <2>5 DEF Counted
<1>11. ASSUME ClosesWhole, VmOwners PROVE (ClosesWhole /\ VmOwners)'
  <2>1. ClosesWhole' BY <1>4, <1>6, <1>11 DEF ClosesWhole, SpawnsOf, TurnsOf, Spawning
  <2>2. \A d \in Coordinators : coord[d].cached \in Turns \cup {None}
          /\ \A x \in coord[d].threads : x \in Turns
    BY DEF TypeOK, CoordState
  <2>3. vms \subseteq Turns BY DEF TypeOK
  <2>4. vms' = vms BY <1>3
  <2>5. VmOwners' BY <1>5, <1>6, <1>8, <1>11, <2>2, <2>3, <2>4 DEF VmOwners, Started
  <2> QED BY <2>1, <2>5
<1>12. ASSUME BlocksKept PROVE BlocksKept'
  <2> SUFFICES ASSUME NEW x \in Turns, turn'[x].at = "running", x \in pending[turn'[x].of]
               PROVE  x \in thread'[turn'[x].on].unresolvedBlocks
    BY <1>3 DEF BlocksKept
  <2>1. turn'[x] = turn[x] /\ turn[x].on \in Turns BY <1>4 DEF Owners
  <2> QED BY <1>5, <1>12, <2>1 DEF BlocksKept
<1> QED BY <1>7, <1>9, <1>10, <1>11, <1>12

-----------------------------------------------------------------------------
(* A disposed thread returns its slot once, and takes no machine from the   *)
(* threads that stay.                                                       *)
LEMMA DropPreserves ==
    ASSUME IInv, NEW c \in Coordinators, NEW u \in coord[c].threads, NEW released \in BOOLEAN,
           DropThread(c, u, released), UNCHANGED <<turn, pending>>,
           coord' \in [Coordinators -> CoordState],
           \A d \in Coordinators \ {c} : coord'[d] = coord[d],
           coord'[c].inFlightTurns = coord[c].inFlightTurns,
           coord'[c].threads = coord[c].threads \ {u},
           coord'[c].cached = coord[c].cached,
           coord[c].phase # "open" \/ coord'[c].phase = coord[c].phase,
           coord'[c].phase \in {coord[c].phase, "failed"},
           coord[c].todo \ {u} \subseteq coord'[c].todo
    PROVE  IInv'
<1> USE DEF IInv
<1>1. u \in Turns /\ turn[u].of = c /\ Started(u) BY DEF TypeOK, CoordState, Owners
<1>2. \A x \in Turns : /\ thread'[x].unresolvedBlocks = thread[x].unresolvedBlocks
                       /\ x # u => thread'[x] = thread[x]
  BY DEF DropThread, TypeOK, ThreadState
<1>3. used' = Less(used, 1) /\ vms' \subseteq vms /\ sessions' \subseteq sessions
  BY DEF DropThread
<1>4. TypeOK'
  <2>1. [thread[u] EXCEPT !.status = "terminated",
                          !.vm = IF released THEN None ELSE @] \in ThreadState
    <3>1. thread[u] \in ThreadState BY <1>1 DEF TypeOK
    <3>2. \A v \in Turns \cup {None} :
            [thread[u] EXCEPT !.status = "terminated", !.vm = v] \in ThreadState
      BY <3>1 DEF ThreadState
    <3>3. (IF released THEN None ELSE thread[u].vm) \in Turns \cup {None} BY <3>1 DEF ThreadState
    <3> QED BY <3>2, <3>3
  <2>2. thread' \in [Turns -> ThreadState] BY <1>1, <2>1 DEF DropThread, TypeOK
  <2>3. used' \in 0 .. NodeMax BY <1>3, BoundsAssumption DEF TypeOK, Less
  <2> QED BY <1>3, <2>2, <2>3 DEF TypeOK
<1>5. Owners'
  <2>1. turn' = turn /\ pending' = pending
        /\ \A d \in Coordinators : coord'[d].threads \subseteq coord[d].threads
    OBVIOUS
  <2> QED BY <2>1 DEF Owners, Started
<1>6. Counted'
  <2>1. u \in Live BY <1>1 DEF Live
  <2>2. Live' = Live \ {u} BY <1>1 DEF Live, Owners, Started, TypeOK
  <2>3. \A d \in Coordinators : Busy(d)' = Busy(d) BY DEF Busy
  <2>4. Cardinality(Live') = Less(Cardinality(Live), 1) BY <2>1, <2>2, CountLeave DEF Live
  <2> QED BY <1>3, <2>3, <2>4 DEF Counted
<1>7. ASSUME ClosesWhole, VmOwners PROVE (ClosesWhole /\ VmOwners)'
  <2>1. ClosesWhole' BY <1>7 DEF ClosesWhole, SpawnsOf, TurnsOf
  <2>2. vms' = vms \/ (c \notin Shared /\ thread[u].vm = u /\ vms' = vms \ {u})
    BY <1>7 DEF DropThread, VmOwners
  <2>3. VmOwners' BY <1>1, <1>2, <1>7, <2>2 DEF VmOwners, TypeOK, CoordState, Started
  <2> QED BY <2>1, <2>3
<1>8. BlocksKept => BlocksKept' BY <1>2 DEF BlocksKept, Owners
<1> QED BY <1>4, <1>5, <1>6, <1>7, <1>8

-----------------------------------------------------------------------------
LEMMA DisposeThreadPreserves ==
    ASSUME IInv, NEW c \in Coordinators, NEW u \in Turns, DisposeThread(c, u)
    PROVE  IInv'
<1> USE DEF IInv
<1>1. u \in coord[c].threads /\ UNCHANGED <<turn, pending>>
      /\ coord' = [coord EXCEPT ![c].threads = @ \ {u}, ![c].running = @ \ {u}]
  BY DEF DisposeThread
<1>2. PICK released \in BOOLEAN : DropThread(c, u, released) BY DEF DisposeThread, Releases
<1>3. coord' \in [Coordinators -> CoordState]
  <2>1. coord[c] \in CoordState BY DEF TypeOK
  <2>2. [coord[c] EXCEPT !.threads = @ \ {u}, !.running = @ \ {u}] \in CoordState
    BY <2>1 DEF CoordState
  <2> QED BY <1>1, <2>2 DEF TypeOK
<1>4. /\ \A d \in Coordinators \ {c} : coord'[d] = coord[d]
      /\ coord'[c].inFlightTurns = coord[c].inFlightTurns
      /\ coord'[c].threads = coord[c].threads \ {u}
      /\ coord'[c].cached = coord[c].cached
      /\ coord'[c].phase = coord[c].phase
      /\ coord'[c].todo = coord[c].todo
  BY <1>1 DEF TypeOK, CoordState
<1> QED BY <1>1, <1>2, <1>3, <1>4, DropPreserves

LEMMA DisposeNextPreserves ==
    ASSUME IInv, NEW c \in Coordinators, NEW u \in Turns, DisposeNext(c, u)
    PROVE  IInv'
<1> USE DEF IInv
<1>1. PICK released \in BOOLEAN :
          /\ DropThread(c, u, released)
          /\ coord' = [coord EXCEPT
                ![c].threads = @ \ {u},
                ![c].running = @ \ {u},
                ![c].todo = @ \ {u},
                ![c].phase = IF released THEN @ ELSE "failed"]
  BY DEF DisposeNext, Releases
<1>2. u \in coord[c].threads /\ UNCHANGED <<turn, pending>> /\ coord[c].phase = "disposing"
  BY DEF DisposeNext
<1>3. coord' \in [Coordinators -> CoordState]
  <2>1. coord[c] \in CoordState BY DEF TypeOK
  <2>2. \A th, ru, todo \in SUBSET Turns, ph \in {"disposing", "failed"} :
          [coord[c] EXCEPT !.threads = th, !.running = ru, !.todo = todo, !.phase = ph]
             \in CoordState
    BY <2>1 DEF CoordState
  <2>3. /\ coord[c].threads \ {u} \in SUBSET Turns /\ coord[c].running \ {u} \in SUBSET Turns
        /\ coord[c].todo \ {u} \in SUBSET Turns
        /\ (IF released THEN coord[c].phase ELSE "failed") \in {"disposing", "failed"}
    BY <1>2, <2>1 DEF CoordState
  <2> QED BY <1>1, <2>2, <2>3 DEF TypeOK
<1>4. /\ \A d \in Coordinators \ {c} : coord'[d] = coord[d]
      /\ coord'[c].inFlightTurns = coord[c].inFlightTurns
      /\ coord'[c].threads = coord[c].threads \ {u}
      /\ coord'[c].cached = coord[c].cached
      /\ coord'[c].phase \in {coord[c].phase, "failed"}
      /\ coord'[c].todo = coord[c].todo \ {u}
  BY <1>1 DEF TypeOK, CoordState
<1>5. coord[c].phase # "open" \/ coord'[c].phase = coord[c].phase BY <1>2
<1>6. coord[c].todo \ {u} \subseteq coord'[c].todo BY <1>4
<1>7. DropThread(c, u, released) BY <1>1
<1> HIDE DEF IInv
<1> QED BY <1>2, <1>3, <1>4, <1>5, <1>6, <1>7, DropPreserves

(* The call of dispose raises the flag; a spawn that is under way then is   *)
(* what "lateSpawn" admits.                                                 *)
LEMMA DisposePreserves == ASSUME IInv, NEW c \in Coordinators, Dispose(c) PROVE IInv'
<1> USE DEF IInv
<1>1. UNCHANGED <<turn, thread, pending, sessions, vms, used>> BY DEF Dispose
<1>2. /\ coord'[c].todo = coord[c].threads
      /\ \A d \in Coordinators : /\ coord'[d].inFlightTurns = coord[d].inFlightTurns
                                 /\ coord'[d].threads = coord[d].threads
                                 /\ coord'[d].cached = coord[d].cached
      /\ \A d \in Coordinators \ {c} : coord'[d] = coord[d]
  BY DEF Dispose, TypeOK, CoordState
<1>3. TypeOK'
  <2>1. coord[c] \in CoordState BY DEF TypeOK
  <2>2. [coord[c] EXCEPT !.phase = "disposing", !.todo = coord[c].threads] \in CoordState
    BY <2>1 DEF CoordState
  <2>3. coord' \in [Coordinators -> CoordState] BY <2>2 DEF Dispose, TypeOK
  <2> QED BY <1>1, <2>3 DEF TypeOK
<1>4. Owners' BY <1>1, <1>2 DEF Owners, Started
<1>5. Counted'
  <2>1. Live' = Live /\ \A d \in Coordinators : Busy(d)' = Busy(d) BY <1>1, <1>2 DEF Live, Busy
  <2> QED BY <1>1, <1>2, <2>1 DEF Counted
<1>6. ASSUME "lateSpawn" \notin Races, ClosesWhole, VmOwners PROVE (ClosesWhole /\ VmOwners)'
  <2>1. SpawnsOf(c) = {} BY <1>6 DEF Dispose
  <2>2. ClosesWhole' BY <1>1, <1>2, <1>6, <2>1 DEF ClosesWhole, SpawnsOf, TurnsOf
  <2>3. VmOwners' BY <1>1, <1>2, <1>6 DEF VmOwners, Started
  <2> QED BY <2>2, <2>3
<1>7. BlocksKept => BlocksKept' BY <1>1 DEF BlocksKept
<1> QED BY <1>3, <1>4, <1>5, <1>6, <1>7

(* dispose ends when no thread is left: the shared machine serves nobody.   *)
LEMMA DisposeEndPreserves ==
    ASSUME IInv, NEW c \in Coordinators, DisposeEnd(c) \/ DisposeEndFails(c)
    PROVE  IInv'
<1> USE DEF IInv
<1>0. PICK released \in BOOLEAN :
          /\ DisposeLast(c, released)
          /\ Resolve(c, pending[c]) \/ UNCHANGED <<thread, pending>>
  BY DEF DisposeEnd, DisposeEndFails
<1> DEFINE vm == coord[c].sharedSandbox
           destroyed == vm # None /\ vm = coord[c].cached /\ released
           phase == IF released THEN "disposed" ELSE "failed"
<1>1. /\ coord[c].phase = "disposing" /\ coord[c].todo \cap coord[c].threads = {}
      /\ coord' = [coord EXCEPT
              ![c].sharedSandbox = None,
              ![c].cached = IF destroyed THEN None ELSE @,
              ![c].phase = phase]
      /\ vms' = IF destroyed THEN vms \ {vm} ELSE vms
      /\ UNCHANGED <<turn, sessions, used>>
  BY <1>0 DEF DisposeLast
<1>2. /\ coord'[c].cached = IF destroyed THEN None ELSE coord[c].cached
      /\ coord'[c].phase \in {"disposed", "failed"}
      /\ \A d \in Coordinators : /\ coord'[d].inFlightTurns = coord[d].inFlightTurns
                                 /\ coord'[d].threads = coord[d].threads
      /\ \A d \in Coordinators \ {c} : coord'[d] = coord[d]
  BY <1>1 DEF TypeOK, CoordState
<1>3. \A x \in Turns :
        /\ thread'[x].vm = thread[x].vm
        /\ \/ thread'[x].unresolvedBlocks = thread[x].unresolvedBlocks \ pending[c] /\ pending'[c] = {}
           \/ thread'[x] = thread[x] /\ pending'[c] = pending[c]
  BY <1>0 DEF Resolve, TypeOK, ThreadState
<1>4. /\ pending'[c] \subseteq pending[c]
      /\ \A d \in Coordinators \ {c} : pending'[d] = pending[d]
  BY <1>0 DEF Resolve, TypeOK
<1>5. TypeOK'
  <2>1. coord[c] \in CoordState /\ (IF destroyed THEN None ELSE coord[c].cached) \in Turns \cup {None}
    BY DEF TypeOK, CoordState
  <2>2. \A ca \in Turns \cup {None}, ph \in {"disposed", "failed"} :
          [coord[c] EXCEPT !.sharedSandbox = None, !.cached = ca, !.phase = ph] \in CoordState
    BY <2>1 DEF CoordState
  <2>3. coord' \in [Coordinators -> CoordState]
    <3>1. phase \in {"disposed", "failed"} OBVIOUS
    <3> QED BY <1>1, <2>1, <2>2, <3>1 DEF TypeOK
  <2>4. \A x \in Turns : [thread[x] EXCEPT !.unresolvedBlocks = @ \ pending[c]] \in ThreadState
    BY DEF TypeOK, ThreadState
  <2>5. thread' \in [Turns -> ThreadState] BY <1>0, <2>4 DEF Resolve, TypeOK
  <2>6. pending' \in [Coordinators -> SUBSET Turns] BY <1>0 DEF Resolve, TypeOK
  <2>7. vms' \subseteq Turns BY <1>1 DEF TypeOK
  <2> QED BY <1>1, <2>3, <2>5, <2>6, <2>7 DEF TypeOK
<1>6. Owners'
  <2>1. UNCHANGED turn BY <1>1
  <2>2. \A d \in Coordinators : \A x \in coord'[d].threads : turn[x].of = d /\ Started(x)
    BY <1>2 DEF Owners
  <2>3. \A d \in Coordinators : \A x \in pending'[d] : turn[x].of = d /\ Started(x)
    BY <1>4 DEF Owners
  <2> QED BY <2>1, <2>2, <2>3 DEF Owners, Started
<1>7. Counted'
  <2>1. Live' = Live /\ \A d \in Coordinators : Busy(d)' = Busy(d) BY <1>1, <1>2 DEF Live, Busy
  <2> QED BY <1>1, <1>2, <2>1 DEF Counted
<1>8. ASSUME ClosesWhole, VmOwners PROVE (ClosesWhole /\ VmOwners)'
  <2>1. coord[c].threads = {} BY <1>1, <1>8 DEF ClosesWhole
  <2>2. ClosesWhole' BY <1>1, <1>2, <1>8 DEF ClosesWhole, SpawnsOf, TurnsOf
  <2>3. VmOwners'
    <3>1. UNCHANGED turn /\ \A d \in Coordinators : coord[d].threads \subseteq Turns
      BY <1>1 DEF TypeOK, CoordState
    <3>2. CASE ~destroyed
      <4>1. vms' = vms BY <1>1, <3>2
      <4>2. \A d \in Coordinators : coord'[d].cached = coord[d].cached BY <1>2, <3>2
      <4> HIDE DEF vm, destroyed
      <4> QED BY <1>2, <1>3, <1>8, <3>1, <4>1, <4>2 DEF VmOwners, Started
    <3>3. CASE destroyed
      <4>1. turn[vm].of = c /\ vms' = vms \ {vm} BY <1>1, <1>8, <3>3 DEF VmOwners
      <4>2. coord'[c].cached = None BY <1>2, <3>3
      <4> HIDE DEF vm, destroyed
      <4> QED BY <1>2, <1>3, <1>8, <2>1, <3>1, <4>1, <4>2 DEF VmOwners, Started
    <3> QED BY <3>2, <3>3
  <2> QED BY <2>2, <2>3
<1>9. BlocksKept => BlocksKept' BY <1>1, <1>3, <1>4 DEF BlocksKept, Owners, InFlight
<1> QED BY <1>5, <1>6, <1>7, <1>8, <1>9

-----------------------------------------------------------------------------
LEMMA StutterPreserves == ASSUME IInv, UNCHANGED vars PROVE IInv'
BY DEF IInv, vars, TypeOK, Owners, Counted, Live, Busy, ClosesWhole, SpawnsOf, TurnsOf, VmOwners,
   BlocksKept, Started

LEMMA NextPreserves == ASSUME IInv, Next PROVE IInv'
<1>1. CASE \E c \in Coordinators, fanout \in SUBSET Turns \ {{}} : Delegate(c, fanout)
  BY <1>1, DelegatePreserves
<1>2. CASE \E t \in Turns : Spawn(t) BY <1>2, SpawnPreserves
<1>3. CASE \E c \in Coordinators, u, t \in Turns : FollowUp(c, u, t) \/ FollowUpRefused(c, u, t)
  BY <1>3, FollowUpPreserves, RefusedPreserves
<1>4. CASE \E t \in Turns : Block(t) \/ TurnEnds(t) BY <1>4, BlockPreserves, EndPreserves
<1>5. CASE \E c \in Coordinators, b \in Turns : Answer(c, b) BY <1>5, AnswerPreserves
<1>6. ASSUME NEW c \in Coordinators, AbortAll(c) \/ Dispose(c) \/ Closing(c) PROVE IInv'
  <2>1. AbortAll(c) => IInv' BY ResolvePreserves DEF AbortAll
  <2> QED BY <1>6, <2>1, DisposePreserves, DisposeEndPreserves, DisposeNextPreserves DEF Closing
<1>7. CASE \E c \in Coordinators, u \in Turns : DisposeThread(c, u)
  BY <1>7, DisposeThreadPreserves
<1> QED BY <1>1, <1>2, <1>3, <1>4, <1>5, <1>6, <1>7 DEF Next

LEMMA Inductive == Spec => []IInv
<1>1. Init => IInv BY InitHolds
<1>2. IInv /\ [Next]_vars => IInv' BY NextPreserves, StutterPreserves
<1> QED BY <1>1, <1>2, PTL DEF Spec

-----------------------------------------------------------------------------
(* Every field has its type: no session runs more turns than the cap, and   *)
(* the node never holds more threads than its budget.                       *)
THEOREM TypeCorrect == Spec => []TypeOK
<1>1. IInv => TypeOK BY DEF IInv
<1> QED BY <1>1, Inductive, PTL

(* The node's budget and the sessions' turn counts are exact, whatever      *)
(* failed on the way and whatever the calls interleave: this one holds      *)
(* under every race.                                                        *)
THEOREM CountersAreExact == Spec => []CountersMatch
<1>1. IInv => CountersMatch BY CountedMatches DEF IInv
<1> QED BY <1>1, Inductive, PTL

(* Unless dispose overtakes a spawn, a thread that can be addressed has its *)
(* virtual machine, also when first threads start cold together.            *)
THEOREM ThreadsKeepTheirVms ==
    ASSUME "lateSpawn" \notin Races
    PROVE  Spec => []VmsServeThreads
<1>1. IInv => VmsServeThreads BY DEF IInv, VmOwners, VmsServeThreads
<1> QED BY <1>1, Inductive, PTL

(* Nothing but its own end takes a turn out of running. *)
LEMMA OnlyEndsSettle ==
    ASSUME TypeOK, Next, NEW t \in Turns, turn[t].at = "running", turn'[t].at # "running"
    PROVE  TurnEnds(t)
<1> USE DEF TypeOK, TurnState
<1>1. ASSUME NEW c \in Coordinators, NEW fanout \in SUBSET Turns, Delegate(c, fanout) PROVE FALSE
  <2>1. t \notin fanout BY <1>1 DEF Delegate, Fresh
  <2> QED BY <1>1, <2>1 DEF Delegate
<1>2. ASSUME NEW x \in Turns, Spawn(x) PROVE FALSE
  <2>1. x # t BY <1>2 DEF Spawn, CreateFails, CreatedWarm, CreatedCold, ProvisionFails, Provisioned
  <2>2. turn'[t] = turn[t]
    BY <1>2, <2>1 DEF Spawn, CreateFails, CreatedWarm, CreatedCold, ProvisionFails, Provisioned,
       SpawnFails, Register
  <2> QED BY <2>2
<1>3. ASSUME NEW c \in Coordinators, NEW u \in Turns, NEW x \in Turns,
             FollowUp(c, u, x) \/ FollowUpRefused(c, u, x)
      PROVE  FALSE
  <2>1. x # t BY <1>3 DEF FollowUp, FollowUpRefused, Fresh
  <2> QED BY <1>3, <2>1 DEF FollowUp, FollowUpRefused
<1>4. ASSUME NEW x \in Turns, Block(x) PROVE FALSE BY <1>4 DEF Block
<1>5. ASSUME NEW x \in Turns, TurnEnds(x) PROVE x = t BY <1>5 DEF TurnEnds
<1>6. turn' # turn OBVIOUS
<1>7. ASSUME NEW c \in Coordinators, NEW u \in Turns,
             \/ Answer(c, u) \/ AbortAll(c) \/ Dispose(c) \/ DisposeEnd(c) \/ DisposeEndFails(c)
             \/ DisposeNext(c, u) \/ DisposeThread(c, u)
      PROVE  FALSE
  BY <1>6, <1>7 DEF Answer, AbortAll, Dispose, DisposeEnd, DisposeEndFails, DisposeLast, DisposeNext,
     DisposeThread
<1>8. ASSUME NEW c \in Coordinators, AbortAll(c) \/ Dispose(c) \/ Closing(c) PROVE FALSE
  BY <1>7, <1>8 DEF Closing
<1> QED BY <1>1, <1>2, <1>3, <1>4, <1>5, <1>7, <1>8 DEF Next

(* Unless a follow-up reaches a thread mid-turn, a turn that settles while  *)
(* its own request waits for the user reports requires_action.              *)
THEOREM BlockedTurnsReport ==
    ASSUME "sameThread" \notin Races
    PROVE  Spec => BlockedTurnSaysSo
<1> DEFINE Says ==
          \A t \in Turns :
              turn[t].at = "running" /\ t \in pending[turn[t].of]
                 /\ turn'[t].at # "running" /\ thread'[turn[t].on].status = "idle"
              => turn'[t].at = "requires_action"
<1>1. IInv /\ [Next]_vars => [Says]_vars
  <2> SUFFICES ASSUME IInv, Next, NEW t \in Turns, turn[t].at = "running",
                      t \in pending[turn[t].of], turn'[t].at # "running",
                      thread'[turn[t].on].status = "idle"
               PROVE  turn'[t].at = "requires_action"
    BY DEF Says
  <2>1. TurnEnds(t) BY OnlyEndsSettle DEF IInv
  <2>2. turn[t].on \in Turns /\ t \in thread[turn[t].on].unresolvedBlocks
    BY DEF IInv, Owners, BlocksKept
  <2>3. PICK ok \in BOOLEAN :
          /\ turn'[t].at = Outcome(t, ok)
          /\ thread'[turn[t].on].status = IF ok THEN "idle" ELSE "terminated"
    BY <2>1, <2>2 DEF TurnEnds, IInv, TypeOK, TurnState, ThreadState
  <2>4. ok BY <2>3
  <2> QED BY <2>2, <2>3, <2>4 DEF Outcome
<1> QED BY <1>1, Inductive, PTL DEF Spec, BlockedTurnSaysSo

=============================================================================
