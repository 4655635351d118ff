--------------------------- MODULE RegistryProofs ---------------------------
(***************************************************************************)
(* Proofs about the life of a session around its turns, for one backend    *)
(* instance, any sessions and runtimes, any cap of the registry and any    *)
(* number of deaths of the instance and crashes of its VMs.                *)
(***************************************************************************)
EXTENDS SessionRegistry, FiniteSetTheorems, TLAPS

-----------------------------------------------------------------------------
(* Sequences. *)

Rank(D, i) == Cardinality({j \in D : j <= i})

(* Of a finite set of positions, each number up to its size is the rank of  *)
(* one: ranks differ, so they use all the numbers there are.                *)
LEMMA Ranks ==
  ASSUME NEW D, D \subseteq Nat, IsFiniteSet(D)
  PROVE  /\ Cardinality(D) \in Nat
         /\ \A k \in 1..Cardinality(D) :
              \E i \in D : Rank(D, i) = k
         /\ \A i \in D : Rank(D, i) \in 1..Cardinality(D)
         /\ \A i, l \in D :
              Rank(D, i) = Rank(D, l) => i = l
<1> DEFINE Below(i) == {j \in D : j <= i}
           c == Cardinality(D)
<1>1. c \in Nat BY FS_CardinalityType
<1>2. ASSUME NEW i \in D
      PROVE  IsFiniteSet(Below(i)) /\ Cardinality(Below(i)) \in 1..c
  <2>1. Below(i) \in SUBSET D /\ i \in Below(i) OBVIOUS
  <2>2. IsFiniteSet(Below(i)) /\ Cardinality(Below(i)) <= c BY <2>1, FS_Subset
  <2>3. Cardinality(Below(i)) \in Nat BY <2>2, FS_CardinalityType
  <2>4. Cardinality(Below(i)) # 0 BY <2>1, <2>2, FS_EmptySet
  <2> QED BY <1>1, <2>2, <2>3, <2>4
<1>3. ASSUME NEW i \in D, NEW l \in D, i < l
      PROVE  Cardinality(Below(i)) # Cardinality(Below(l))
  <2>1. Below(i) \in SUBSET Below(l)
    <3>1. \A j \in D : j <= i => j <= l BY <1>3
    <3> QED BY <3>1
  <2>2. l \in Below(l) /\ l \notin Below(i) BY <1>3
  <2>3. IsFiniteSet(Below(l)) BY <1>2
  <2> HIDE DEF Below
  <2> QED BY <2>1, <2>2, <2>3, FS_Subset
<1>4. \A i, l \in D : Cardinality(Below(i)) = Cardinality(Below(l)) => i = l
  BY <1>3
<1> DEFINE rank == [i \in D |-> Cardinality(Below(i))]
<1>5. rank \in Injection(D, 1..c) BY <1>2, <1>4 DEF Injection, IsInjective
<1>6. IsFiniteSet(1..c) /\ Cardinality(1..c) = c BY <1>1, FS_Interval
<1>7. rank \in Surjection(D, 1..c)
  <2> HIDE DEF rank, c
  <2>1. Cardinality(D) = Cardinality(1..c) BY <1>6 DEF c
  <2> QED BY <1>5, <1>6, <2>1, FS_Injection
<1>8. \A k \in 1..c : \E i \in D : Cardinality(Below(i)) = k BY <1>7 DEF Surjection
<1> QED BY <1>1, <1>2, <1>4, <1>8 DEF Rank

(* Keep(seq, S) has the elements of seq that are in S, and no others. *)
LEMMA Kept ==
  ASSUME NEW T, NEW seq \in Seq(T), NEW S
  PROVE  /\ Keep(seq, S) \in Seq(T)
         /\ Range(Keep(seq, S)) = Range(seq) \cap S
<1> DEFINE D == {i \in DOMAIN seq : seq[i] \in S}
           c == Cardinality(D)
           At(k) == CHOOSE i \in D : Rank(D, i) = k
<1>1. D \subseteq Nat /\ IsFiniteSet(D)
  <2>1. IsFiniteSet(1..Len(seq)) BY FS_Interval
  <2>2. D \in SUBSET (1..Len(seq)) OBVIOUS
  <2> QED BY <2>1, <2>2, FS_Subset
<1>2. Keep(seq, S) = [k \in 1..c |-> seq[At(k)]] BY DEF Keep, Rank
<1>3. c \in Nat BY <1>1, FS_CardinalityType
<1>4. \A i \in D : i \in DOMAIN seq /\ seq[i] \in T /\ seq[i] \in S OBVIOUS
<1>5. \A i \in DOMAIN seq : seq[i] \in S => i \in D OBVIOUS
<1> HIDE DEF D
<1>6. \A k \in 1..c : At(k) \in D /\ Rank(D, At(k)) = k
  <2> TAKE k \in 1..c
  <2>1. \E i \in D : Rank(D, i) = k BY <1>1, Ranks
  <2> QED BY <2>1, Zenon
<1> HIDE DEF At, c
<1>7. \A i \in D : \E k \in 1..c : At(k) = i
  <2> TAKE i \in D
  <2>1. PICK k \in 1..c : k = Rank(D, i) BY <1>1, Ranks DEF c
  <2>2. At(k) \in D /\ Rank(D, At(k)) = Rank(D, i) BY <1>6, <2>1
  <2>3. At(k) = i BY <1>1, <2>2, Ranks
  <2> QED BY <2>3
<1>8. Keep(seq, S) \in Seq(T)
  <2>1. \A k \in 1..c : seq[At(k)] \in T BY <1>4, <1>6
  <2> QED BY <1>2, <1>3, <2>1
<1>9. DOMAIN Keep(seq, S) = 1..c /\ \A k \in 1..c : Keep(seq, S)[k] = seq[At(k)]
  BY <1>2
<1>10. ASSUME NEW x \in Range(Keep(seq, S)) PROVE x \in Range(seq) \cap S
  BY <1>4, <1>6, <1>9 DEF Range
<1>11. ASSUME NEW x \in Range(seq) \cap S PROVE x \in Range(Keep(seq, S))
  <2>1. PICK i \in DOMAIN seq : seq[i] = x BY DEF Range
  <2>2. PICK k \in 1..c : At(k) = i BY <1>5, <1>7, <2>1
  <2> QED BY <1>9, <2>1, <2>2 DEF Range
<1> QED BY <1>8, <1>10, <1>11

LEMMA WithoutKeeps ==
  ASSUME NEW T, NEW seq \in Seq(T), NEW x
  PROVE  /\ Without(seq, x) \in Seq(T)
         /\ Range(Without(seq, x)) = Range(seq) \ {x}
<1>1. Without(seq, x) \in Seq(T) BY Kept DEF Without
<1>2. Range(Without(seq, x)) = Range(seq) \cap (Range(seq) \ {x}) BY Kept DEF Without
<1> QED BY <1>1, <1>2

LEMMA AppendAdds ==
  ASSUME NEW T, NEW seq \in Seq(T), NEW x \in T
  PROVE  /\ Append(seq, x) \in Seq(T)
         /\ Range(Append(seq, x)) = Range(seq) \cup {x}
<1> DEFINE q == Append(seq, x)
<1>1. /\ q \in Seq(T) /\ Len(q) = Len(seq) + 1
      /\ q[Len(seq) + 1] = x /\ \A i \in 1..Len(seq) : q[i] = seq[i]
  OBVIOUS
<1>2. DOMAIN q = 1..(Len(seq) + 1) /\ DOMAIN seq = 1..Len(seq) /\ Len(seq) \in Nat BY <1>1
<1> HIDE DEF q
<1>3. ASSUME NEW y \in Range(q) PROVE y \in Range(seq) \cup {x}
  <2>1. PICK i \in 1..(Len(seq) + 1) : q[i] = y BY <1>2 DEF Range
  <2>2. i \in 1..Len(seq) \/ i = Len(seq) + 1 BY <1>2
  <2> QED BY <1>1, <1>2, <2>1, <2>2 DEF Range
<1>4. ASSUME NEW y \in Range(seq) \cup {x} PROVE y \in Range(q)
  <2>1. Len(seq) + 1 \in 1..(Len(seq) + 1) /\ 1..Len(seq) \subseteq 1..(Len(seq) + 1) BY <1>2
  <2> QED BY <1>1, <1>2, <2>1 DEF Range
<1> QED BY <1>1, <1>3, <1>4 DEF q

LEMMA LastAdds ==
  ASSUME NEW T, NEW seq \in Seq(T), NEW x \in T
  PROVE  /\ Last(seq, x) \in Seq(T)
         /\ Range(Last(seq, x)) = Range(seq) \cup {x}
<1>1. /\ Without(seq, x) \in Seq(T)
      /\ Range(Without(seq, x)) = Range(seq) \ {x}
  BY WithoutKeeps
<1> QED BY <1>1, AppendAdds DEF Last

LEMMA PrefixRange ==
  ASSUME NEW T, NEW seq \in Seq(T), NEW k \in 0..Len(seq)
  PROVE  /\ SubSeq(seq, 1, k) \in Seq(T)
         /\ Range(SubSeq(seq, 1, k)) \subseteq Range(seq)
BY DEF Range

LEMMA TailRange ==
  ASSUME NEW T, NEW seq \in Seq(T), seq # <<>>
  PROVE  /\ Head(seq) \in Range(seq) /\ Head(seq) \in T
         /\ Tail(seq) \in Seq(T) /\ Range(Tail(seq)) \subseteq Range(seq)
BY DEF Range

-----------------------------------------------------------------------------
(* The invariant. *)

(* The hypotheses: one instance, and an environment that waits out every    *)
(* race but a session that ends while its VM is in use and a death in the   *)
(* middle of a reaper pass.                                                 *)
Alone == \A m, n \in Nodes : m = n
Calm  == Races \subseteq {"endBusy", "reapCut"}

Column == [status : {"idle", "running"} \cup Terminal, handle : BOOLEAN,
           owner : {Nobody} \cup (Nodes \X Nat), aged : BOOLEAN]
Machine == [state : {"absent", "running", "stopped", "crashed"}, worked : BOOLEAN]
Object == [node : Nodes \cup {Nobody}, sess : Sessions \cup {Nobody},
           phase : Phases, sm : {"idle", "running", "terminated"}, turn : Turns,
           stop : {"none", "pending", "stopping"},
           poll : {"none", "provisioning", "saving"}, disposed : BOOLEAN]

StoreTypes ==
  /\ row \in [Sessions -> Column] /\ vm \in [Sessions -> Machine]
  /\ graves \in Seq(Sessions)
MemoryTypes ==
  /\ rt \in [Runtimes -> Object]
  /\ lru \in [Nodes -> Seq(Runtimes)]
  /\ inflight \in [Nodes -> [Sessions -> Runtimes \cup {Nobody}]]
  /\ mail \in [Nodes -> [Sessions -> {"none", "admitted", "queued"}]]
ProcessTypes ==
  /\ up \in [Nodes -> {"up", "down", "reattached"}] /\ boots \in [Nodes -> Nat]
  /\ reap \in [Nodes -> [left : Seq(Sessions), destroyed : BOOLEAN]]
  /\ crashes \in Nat

Waken(r) == rt[r].phase \notin {"unused", "awake"}
Awake(r) == rt[r].phase = "awake"

(* What a runtime may be: unused, being woken, in the registry, or disposed *)
(* and nothing but a checkpoint that runs.                                  *)
Shape(r) ==
  /\ rt[r].phase = "unused" => rt[r] = Blank
  /\ rt[r].phase # "unused" =>
       /\ rt[r].node \in Nodes /\ rt[r].sess \in Sessions /\ up[rt[r].node] = "up"
  /\ Waken(r) => /\ rt[r].turn = "none" /\ rt[r].stop = "none" /\ rt[r].poll = "none"
                 /\ ~rt[r].disposed
  /\ rt[r].disposed =>
       rt[r].turn = "none" /\ rt[r].poll = "none" /\ rt[r].stop = "stopping"
  /\ rt[r].turn \notin {"none", "settling"} => rt[r].stop = "none"

(* A session has one runtime, a disposed one included. *)
Single ==
  \A a, b \in Runtimes :
    rt[a].phase # "unused" /\ rt[b].phase # "unused" /\ rt[a].sess = rt[b].sess => a = b

(* The registry knows it: from `inflight` while it is woken, from the map   *)
(* while it is not disposed.                                                *)
Known(r) ==
  /\ Waken(r) => inflight[rt[r].node][rt[r].sess] = r
  /\ Awake(r) => \A n \in Nodes : inflight[n][rt[r].sess] = Nobody
  /\ Awake(r) /\ ~rt[r].disposed => r \in Range(lru[rt[r].node])
Entries ==
  \A n \in Nodes :
    /\ \A r \in Range(lru[n]) : Awake(r) /\ ~rt[r].disposed
    /\ \A s \in Sessions : inflight[n][s] # Nobody =>
         LET r == inflight[n][s] IN Waken(r) /\ rt[r].sess = s /\ rt[r].node = n
    /\ up[n] # "up" => reap[n].left = <<>> /\ \A s \in Sessions : mail[n][s] = "none"

Memory == Single /\ Entries /\ \A r \in Runtimes : Shape(r) /\ Known(r)

(* A message on its way: the session has not terminated and is in no turn.  *)
Mails ==
  \A n \in Nodes, s \in Sessions : mail[n][s] # "none" =>
    /\ row[s].status # "terminated"
    /\ \A r \in Runtimes : rt[r].sess = s => rt[r].turn = "none"

(* Where a runtime stands, given its row and its VM.  A turn that is marked *)
(* has a VM, and a driven one says so on the row.  A runtime past its wake  *)
(* has a row that knows of the VM, and whoever is about to make a VM anew   *)
(* found none with work in it, or a crashed one.                            *)
Sound(r) ==
  LET s == rt[r].sess IN
  /\ rt[r].turn # "none" \/ Waken(r) => row[s].status # "terminated"
  /\ ~Ended(s) =>
       /\ rt[r].turn \in {"marking", "driving"} => vm[s].state \in {"running", "crashed"}
       /\ rt[r].turn = "driving" => row[s].status = "running"
       /\ rt[r].phase \in {"probing", "starting", "building", "awake"} => row[s].handle
       /\ rt[r].phase = "provisioning" => ~vm[s].worked \/ vm[s].state = "crashed"
       /\ rt[r].poll = "provisioning" => vm[s].state = "crashed"

(* The work in a VM is known to its row. *)
Recorded(s) ==
  /\ vm[s].state = "absent" => ~vm[s].worked
  /\ ~Ended(s) /\ ~row[s].handle => ~vm[s].worked

(* The reaper works on sessions that have ended. *)
Buried ==
  /\ \A s \in Range(graves) : Ended(s)
  /\ \A n \in Nodes : /\ \A s \in Range(reap[n].left) : Ended(s)
                      /\ reap[n].destroyed => reap[n].left # <<>>

Backing ==
  /\ \A r \in Runtimes : rt[r].phase # "unused" => Sound(r)
  /\ \A s \in Sessions : Recorded(s)

Types == StoreTypes /\ MemoryTypes /\ ProcessTypes
IInv == Types /\ Memory /\ Mails /\ Backing /\ Buried

LEMMA InitHolds == ASSUME Init PROVE IInv
<1> USE RegistryAssumption
<1>1. Blank \in Object BY DEF Blank, Object, Phases, Turns
<1>2. StoreTypes BY DEF Init, StoreTypes, Column, Machine, NoVm
<1>3. MemoryTypes BY <1>1 DEF Init, MemoryTypes
<1>4. ProcessTypes BY DEF Init, ProcessTypes
<1>5. Range(<<>>) = {} BY DEF Range
<1>6. Memory
  BY <1>5 DEF Init, Memory, Single, Entries, Shape, Known, Waken, Awake, Blank
<1>7. Mails BY DEF Init, Mails
<1>8. Backing BY DEF Init, Backing, Recorded, NoVm, Blank
<1>9. Buried BY <1>5 DEF Init, Buried
<1> QED BY <1>2, <1>3, <1>4, <1>6, <1>7, <1>8, <1>9 DEF IInv, Types

(* What every step keeps of the work in the VMs. *)
Safe == \A s \in Sessions :
          vm[s].worked /\ vm[s].state # "crashed" /\ ~Ended(s) => vm'[s].worked

-----------------------------------------------------------------------------
(* Writes of a row by a runtime or a request. *)

Elsewhere(s) == \A t \in Sessions : t # s => row'[t] = row[t] /\ vm'[t] = vm[t]
Lasting == \A t \in Sessions : Ended(t) => Ended(t)'

(* A status written over a row that has not terminated: an archived row     *)
(* keeps its own, the graves hold what has ended.                           *)
LEMMA StatusWrites ==
  ASSUME StoreTypes, Buried, NEW s \in Sessions, NEW st \in {"idle", "running"} \cup Terminal,
         SaveStatus(s, st), row[s].status = "terminated" => st \in Terminal
  PROVE  /\ row' \in [Sessions -> Column] /\ graves' \in Seq(Sessions)
         /\ \A t \in Sessions : t # s => row'[t] = row[t]
         /\ row'[s].handle = row[s].handle
         /\ row'[s].status = IF Archived(s) THEN "archived" ELSE st
         /\ \A t \in Range(graves') : Ended(t)'
         /\ Lasting
<1>1. CASE Archived(s)
  BY <1>1 DEF SaveStatus, Archived, StoreTypes, Buried, Lasting, Ended
<1>2. CASE ~Archived(s)
  <2>1. row' = [row EXCEPT ![s] = [row[s] EXCEPT !.status = st, !.aged = FALSE]]
    BY <1>2 DEF SaveStatus, StoreTypes
  <2>2. [row[s] EXCEPT !.status = st, !.aged = FALSE] \in Column
    <3>1. row[s] \in Column BY DEF StoreTypes
    <3> QED BY <3>1 DEF Column
  <2>3. row' \in [Sessions -> Column] /\ \A t \in Sessions : t # s => row'[t] = row[t]
    BY <2>1, <2>2 DEF StoreTypes
  <2>4. row'[s].handle = row[s].handle /\ row'[s].status = st
    BY <2>1 DEF StoreTypes, Column
  <2>5. Lasting BY <1>2, <2>3, <2>4 DEF Lasting, Ended, Archived, Terminal
  <2>6. graves' = IF st \in Terminal THEN Last(graves, s) ELSE Without(graves, s)
    BY <1>2 DEF SaveStatus
  <2>7. CASE st \in Terminal
    <3>1. graves' \in Seq(Sessions) /\ Range(graves') = Range(graves) \cup {s}
      BY <2>6, <2>7, LastAdds DEF StoreTypes
    <3>2. Range(graves) \subseteq Sessions BY DEF StoreTypes, Range
    <3> QED BY <1>2, <2>3, <2>4, <2>5, <2>7, <3>1, <3>2 DEF Buried, Lasting, Ended
  <2>8. CASE st \notin Terminal
    <3>1. graves' \in Seq(Sessions) /\ Range(graves') = Range(graves) \ {s}
      BY <2>6, <2>8, WithoutKeeps DEF StoreTypes
    <3>2. Range(graves) \subseteq Sessions BY DEF StoreTypes, Range
    <3> QED BY <1>2, <2>3, <2>4, <2>5, <3>1, <3>2 DEF Buried, Lasting, Ended
  <2> QED BY <2>7, <2>8
<1> QED BY <1>1, <1>2

LEMMA HandleWrites ==
  ASSUME StoreTypes, Buried, NEW s \in Sessions, SaveHandle(s)
  PROVE  /\ row' \in [Sessions -> Column] /\ graves' \in Seq(Sessions)
         /\ \A t \in Sessions : t # s => row'[t] = row[t]
         /\ row'[s].status = row[s].status /\ (Ended(s) \/ row'[s].handle)
         /\ \A t \in Range(graves') : Ended(t)'
         /\ Lasting
<1>1. CASE Archived(s)
  BY <1>1 DEF SaveHandle, Archived, StoreTypes, Buried, Lasting, Ended, Terminal
<1>2. CASE ~Archived(s)
  <2>1. row' = [row EXCEPT ![s] = [row[s] EXCEPT !.handle = TRUE, !.aged = FALSE]]
    BY <1>2 DEF SaveHandle, StoreTypes
  <2>2. [row[s] EXCEPT !.handle = TRUE, !.aged = FALSE] \in Column
    <3>1. row[s] \in Column BY DEF StoreTypes
    <3> QED BY <3>1 DEF Column
  <2>3. row' \in [Sessions -> Column] /\ \A t \in Sessions : t # s => row'[t] = row[t]
    BY <2>1, <2>2 DEF StoreTypes
  <2>4. row'[s].handle /\ row'[s].status = row[s].status
    BY <2>1 DEF StoreTypes, Column
  <2>5. Lasting BY <2>3, <2>4 DEF Lasting, Ended
  <2>6. graves' \in Seq(Sessions) /\ Range(graves') \subseteq Range(graves) \cup {s}
    BY <1>2, LastAdds DEF SaveHandle, StoreTypes
  <2>7. Ended(s) \/ graves' = graves BY <1>2 DEF SaveHandle
  <2>8. Range(graves) \subseteq Sessions BY DEF StoreTypes, Range
  <2> QED BY <2>3, <2>4, <2>5, <2>6, <2>7, <2>8 DEF Buried, Lasting
<1> QED BY <1>1, <1>2

-----------------------------------------------------------------------------
(* Steps that concern one session. *)

(* A runtime that keeps what its row and its VM are asked about. *)
Same(x) ==
  /\ rt'[x].phase = rt[x].phase /\ rt'[x].sess = rt[x].sess
  /\ rt'[x].turn = rt[x].turn /\ rt'[x].poll = rt[x].poll

LEMMA BackingKept ==
  ASSUME Backing, Memory, NEW s \in Sessions, Elsewhere(s),
         \A x \in Runtimes : rt'[x].phase # "unused" =>
           \/ rt'[x].sess = s /\ Sound(x)'
           \/ rt[x].sess # s /\ Same(x),
         Recorded(s)'
  PROVE  Backing'
<1>1. ASSUME NEW x \in Runtimes, rt'[x].phase # "unused", rt[x].sess # s, Same(x)
      PROVE  Sound(x)'
  <2>1. rt[x].phase # "unused" /\ rt[x].sess \in Sessions /\ Sound(x)
    BY <1>1 DEF Backing, Memory, Shape, Same
  <2>2. row'[rt'[x].sess] = row[rt[x].sess] /\ vm'[rt'[x].sess] = vm[rt[x].sess]
    BY <1>1, <2>1 DEF Elsewhere, Same
  <2> QED BY <1>1, <2>1, <2>2 DEF Sound, Same, Waken, Ended
<1>2. ASSUME NEW t \in Sessions, t # s PROVE Recorded(t)'
  BY <1>2 DEF Backing, Recorded, Elsewhere, Ended
<1> QED BY <1>1, <1>2 DEF Backing

LEMMA BuriedKept ==
  ASSUME ProcessTypes, Buried, Lasting, \A t \in Range(graves') : Ended(t)', UNCHANGED reap
  PROVE  Buried'
<1>1. \A n \in Nodes : Range(reap[n].left) \subseteq Sessions BY DEF ProcessTypes, Range
<1> QED BY <1>1 DEF Buried, Lasting

(* A runtime of the registry moves on in its turn, its checkpoint or its    *)
(* recovery, and stays in the registry.                                     *)
Moves(r, o) ==
  /\ rt' = [rt EXCEPT ![r] = o] /\ UNCHANGED <<lru, inflight, up, reap, mail>>
  /\ Awake(r) /\ ~rt[r].disposed
  /\ o \in Object /\ o.node = rt[r].node /\ o.sess = rt[r].sess
  /\ o.phase = "awake" /\ ~o.disposed
  /\ o.turn \notin {"none", "settling"} => o.stop = "none"

LEMMA MoveKeepsMemory ==
  ASSUME MemoryTypes, Memory, NEW r \in Runtimes, NEW o, Moves(r, o)
  PROVE  Memory' /\ MemoryTypes'
<1>1. rt' \in [Runtimes -> Object] /\ rt'[r] = o /\ \A x \in Runtimes : x # r => rt'[x] = rt[x]
  BY DEF Moves, MemoryTypes
<1>2. MemoryTypes' BY <1>1 DEF Moves, MemoryTypes
<1>3. \A x \in Runtimes : /\ rt'[x].phase = rt[x].phase /\ rt'[x].sess = rt[x].sess
                          /\ rt'[x].node = rt[x].node /\ rt'[x].disposed = rt[x].disposed
  BY <1>1 DEF Moves, Awake, MemoryTypes, Object
<1>4. Single' BY <1>3 DEF Memory, Single
<1>5. ASSUME NEW x \in Runtimes PROVE Shape(x)' /\ Known(x)'
  <2>1. Shape(x) /\ Known(x) BY DEF Memory
  <2>2. Shape(x)'
    <3>1. CASE x = r BY <1>1, <2>1, <3>1 DEF Shape, Moves, Waken, Awake
    <3>2. CASE x # r BY <1>1, <2>1, <3>2 DEF Shape, Moves, Waken, Awake
    <3> QED BY <3>1, <3>2
  <2>3. Known(x)' BY <1>3, <2>1 DEF Known, Moves, Waken, Awake
  <2> QED BY <2>2, <2>3
<1>6. Entries'
  <2>1. \A n \in Nodes : Range(lru[n]) \subseteq Runtimes BY DEF MemoryTypes, Range
  <2>2. \A n \in Nodes, s \in Sessions : inflight[n][s] # Nobody => inflight[n][s] \in Runtimes
    BY DEF MemoryTypes
  <2> QED BY <1>3, <2>1, <2>2 DEF Memory, Entries, Moves, Waken, Awake
<1> QED BY <1>2, <1>4, <1>5, <1>6 DEF Memory

LEMMA Active ==
  ASSUME Memory, NEW r \in Runtimes,
         rt[r].turn # "none" \/ rt[r].poll # "none" \/ rt[r].stop = "pending" \/ Waking(r,
              "awake")
  PROVE  /\ Awake(r) /\ rt[r].sess \in Sessions /\ rt[r].node \in Nodes
         /\ rt[r].turn # "none" \/ rt[r].poll # "none" \/ rt[r].stop = "pending"
              => ~rt[r].disposed
BY DEF Memory, Shape, Waken, Awake, Blank, Waking

LEMMA MoveKeeps ==
  ASSUME IInv, NEW r \in Runtimes, NEW s \in Sessions, s = rt[r].sess, NEW o, Moves(r, o),
         o.turn # "none" => rt[r].turn # "none",
         StoreTypes', ProcessTypes', Elsewhere(s), Lasting,
         \A t \in Range(graves') : Ended(t)',
         row'[s].status = "terminated" => row[s].status = "terminated" \/ rt[r].turn # "none",
         Sound(r)', Recorded(s)'
  PROVE  IInv'
<1> USE DEF IInv, Types
<1>1. rt'[r] = o /\ \A x \in Runtimes : x # r => rt'[x] = rt[x] BY DEF Moves, MemoryTypes
<1>2. Memory' /\ MemoryTypes' BY MoveKeepsMemory
<1>3. Mails'
  <2> SUFFICES ASSUME NEW n \in Nodes, NEW t \in Sessions, mail[n][t] # "none"
               PROVE  /\ row'[t].status # "terminated"
                      /\ \A x \in Runtimes : rt'[x].sess = t => rt'[x].turn = "none"
    BY DEF Mails, Moves
  <2>1. row[t].status # "terminated" /\ \A x \in Runtimes : rt[x].sess = t => rt[x].turn = "none"
    BY DEF Mails
  <2>2. row'[t].status # "terminated"
    <3>1. CASE t = s BY <2>1, <3>1
    <3>2. CASE t # s BY <2>1, <3>2 DEF Elsewhere
    <3> QED BY <3>1, <3>2
  <2>3. ASSUME NEW x \in Runtimes, rt'[x].sess = t PROVE rt'[x].turn = "none"
    <3>1. CASE x = r BY <1>1, <2>1, <2>3, <3>1 DEF Moves
    <3>2. CASE x # r BY <1>1, <2>1, <2>3, <3>2
    <3> QED BY <3>1, <3>2
  <2> QED BY <2>2, <2>3
<1>4. Backing'
  <2>1. ASSUME NEW x \in Runtimes, rt'[x].phase # "unused"
        PROVE  \/ rt'[x].sess = s /\ Sound(x)'
               \/ rt[x].sess # s /\ Same(x)
    <3>1. CASE x = r BY <1>1, <3>1 DEF Moves
    <3>2. CASE x # r
      <4>1. rt'[x] = rt[x] BY <1>1, <3>2
      <4>2. rt[x].sess # s BY <2>1, <3>2, <4>1 DEF Memory, Single, Moves, Awake
      <4> QED BY <4>1, <4>2 DEF Same
    <3> QED BY <3>1, <3>2
  <2> QED BY <2>1, BackingKept
<1>5. Buried' BY BuriedKept DEF Moves
<1> QED BY <1>2, <1>3, <1>4, <1>5

(* ... and writes nothing. *)
LEMMA QuietMoveKeeps ==
  ASSUME IInv, NEW r \in Runtimes, NEW o, Moves(r, o), UNCHANGED <<store, process>>,
         o.turn # "none" => rt[r].turn # "none",
         ~Ended(rt[r].sess) =>
           /\ o.turn \in {"marking", "driving"} => vm[rt[r].sess].state \in {"running", "crashed"}
           /\ o.turn = "driving" => row[rt[r].sess].status = "running"
           /\ o.poll = "provisioning" => vm[rt[r].sess].state = "crashed"
  PROVE  IInv'
<1> USE DEF IInv, Types
<1>1. rt[r].sess \in Sessions BY DEF Moves, Memory, Shape, Awake
<1> PICK s \in Sessions : s = rt[r].sess BY <1>1
<1>2. rt'[r] = o BY DEF Moves, MemoryTypes
<1>3. UNCHANGED <<row, vm, graves, up, boots, reap, crashes>> BY DEF store, process
<1>4. Elsewhere(s) /\ Lasting /\ StoreTypes' /\ ProcessTypes' /\ \A t \in Range(graves') : Ended(t)'
  BY <1>3 DEF Elsewhere, Lasting, Ended, StoreTypes, ProcessTypes, Buried
<1>5. Sound(r) /\ Recorded(s) BY DEF Backing, Moves, Awake
<1>6. Recorded(s)' BY <1>3, <1>5 DEF Recorded, Ended
<1>7. Sound(r)' BY <1>2, <1>3, <1>5 DEF Sound, Ended, Waken, Awake, Moves
<1>8. row'[s].status = "terminated" => row[s].status = "terminated" BY <1>3
<1> QED BY <1>4, <1>6, <1>7, <1>8, MoveKeeps

-----------------------------------------------------------------------------
(* A turn. *)

LEMMA SettlesStopKeeps == ASSUME IInv, NEW r \in Runtimes, TurnSettlesStop(r) PROVE IInv'
<1> USE DEF IInv, Types
<1>1. Turning(r, "settling") BY DEF TurnSettlesStop
<1>2. Awake(r) /\ ~rt[r].disposed /\ rt[r].sess \in Sessions BY <1>1, Active DEF Turning
<1> DEFINE o == [rt[r] EXCEPT !.turn = "probing", !.stop = "none"]
<1>3. rt[r] \in Object BY DEF MemoryTypes
<1>4. /\ o \in Object /\ o.turn = "probing" /\ o.stop = "none" /\ o.phase = rt[r].phase
      /\ o.node = rt[r].node /\ o.sess = rt[r].sess /\ o.disposed = rt[r].disposed
      /\ o.poll = rt[r].poll
  BY <1>3 DEF Object, Turns
<1>5. rt' = [rt EXCEPT ![r] = o] BY DEF TurnSettlesStop, MemoryTypes
<1> HIDE DEF o
<1>6. Moves(r, o) BY <1>2, <1>4, <1>5 DEF TurnSettlesStop, Registry, process, Moves, Awake
<1>7. UNCHANGED <<store, process>> BY DEF TurnSettlesStop
<1>8. Sound(r) BY <1>2 DEF Backing, Awake
<1> QED BY <1>1, <1>4, <1>6, <1>7, <1>8, QuietMoveKeeps DEF Sound, Turning

LEMMA ProbesKeeps == ASSUME IInv, NEW r \in Runtimes, TurnProbes(r) PROVE IInv'
<1> USE DEF IInv, Types
<1>1. Turning(r, "probing") BY DEF TurnProbes
<1>2. Awake(r) /\ ~rt[r].disposed /\ rt[r].sess \in Sessions BY <1>1, Active DEF Turning
<1> DEFINE state == vm[rt[r].sess].state
           o == CASE state = "absent"  -> Collect([rt[r] EXCEPT !.turn = "none"])
                  [] state = "stopped" -> [rt[r] EXCEPT !.turn = "starting"]
                  [] OTHER             -> Begin(rt[r])
<1>3. rt[r] \in Object /\ rt[r].stop = "none"
  BY <1>1 DEF MemoryTypes, Memory, Shape, Turning
<1>4. vm[rt[r].sess] \in Machine BY <1>2 DEF StoreTypes
<1>5. /\ o \in Object /\ o.phase = rt[r].phase /\ o.stop = "none"
      /\ o.node = rt[r].node /\ o.sess = rt[r].sess /\ o.disposed = rt[r].disposed
      /\ o.poll = rt[r].poll
      /\ o.turn \in {"none", "starting", "marking"}
      /\ o.turn = "marking" => state \in {"running", "crashed"}
  <2>1. [rt[r] EXCEPT !.turn = "none"].disposed = FALSE BY <1>2, <1>3 DEF Object
  <2>2. CASE state = "absent"
    BY <1>2, <1>3, <2>1, <2>2 DEF Collect, Object, Turns
  <2>3. CASE state = "stopped"
    BY <1>3, <2>3 DEF Object, Turns
  <2>4. CASE state \in {"running", "crashed"}
    <3>1. o = Begin(rt[r]) BY <2>4
    <3> QED BY <1>3, <2>4, <3>1 DEF Begin, Object, Turns
  <2> QED BY <1>4, <2>2, <2>3, <2>4 DEF Machine
<1>6. rt' = [rt EXCEPT ![r] = o] BY DEF TurnProbes, MemoryTypes
<1> HIDE DEF o
<1>7. Moves(r, o) BY <1>2, <1>5, <1>6 DEF TurnProbes, Registry, process, Moves, Awake
<1>8. UNCHANGED <<store, process>> BY DEF TurnProbes
<1>9. Sound(r) BY <1>2 DEF Backing, Awake
<1> QED BY <1>1, <1>5, <1>7, <1>8, <1>9, QuietMoveKeeps DEF Sound, Turning

LEMMA EndsKeeps == ASSUME IInv, NEW r \in Runtimes, TurnEnds(r) PROVE IInv'
<1> USE DEF IInv, Types
<1>1. Turning(r, "storing") BY DEF TurnEnds
<1>2. Awake(r) /\ ~rt[r].disposed /\ rt[r].sess \in Sessions BY <1>1, Active DEF Turning
<1> DEFINE p == Rested(rt[r])
<1>3. rt[r] \in Object BY DEF MemoryTypes
<1>4. /\ p \in Object /\ p.phase = rt[r].phase /\ p.turn = "none"
      /\ p.node = rt[r].node /\ p.sess = rt[r].sess /\ p.disposed = rt[r].disposed
      /\ p.poll = rt[r].poll
  BY <1>3 DEF Rested, Object, Turns
<1>5. Collect(p) = p BY <1>2, <1>4 DEF Collect
<1>6. rt' = [rt EXCEPT ![r] = Collect(p)]  BY DEF TurnEnds
<1> HIDE DEF p
<1>7. Moves(r, p) BY <1>2, <1>4, <1>5, <1>6 DEF TurnEnds, Registry, process, Moves, Awake
<1>8. UNCHANGED <<store, process>> BY DEF TurnEnds
<1>9. Sound(r) BY <1>2 DEF Backing, Awake
<1> QED BY <1>1, <1>4, <1>7, <1>8, <1>9, QuietMoveKeeps DEF Sound, Turning

LEMMA StopFiresKeeps == ASSUME IInv, NEW r \in Runtimes, StopFires(r) PROVE IInv'
<1> USE DEF IInv, Types
<1>1. rt[r].stop = "pending" BY DEF StopFires
<1>2. Awake(r) /\ ~rt[r].disposed /\ rt[r].sess \in Sessions BY <1>1, Active
<1>3. rt[r].turn \in {"none", "settling"} BY <1>1 DEF Memory, Shape
<1> DEFINE o == [rt[r] EXCEPT !.stop = "stopping"]
<1>4. rt[r] \in Object BY DEF MemoryTypes
<1>5. /\ o \in Object /\ o.phase = rt[r].phase /\ o.turn = rt[r].turn
      /\ o.node = rt[r].node /\ o.sess = rt[r].sess /\ o.disposed = rt[r].disposed
      /\ o.poll = rt[r].poll
  BY <1>4 DEF Object
<1>6. rt' = [rt EXCEPT ![r] = o] BY DEF StopFires, MemoryTypes
<1> HIDE DEF o
<1>7. Moves(r, o) BY <1>2, <1>3, <1>5, <1>6 DEF StopFires, Registry, process, Moves, Awake
<1>8. UNCHANGED <<store, process>> BY DEF StopFires
<1>9. Sound(r) BY <1>2 DEF Backing, Awake
<1> QED BY <1>3, <1>5, <1>7, <1>8, <1>9, QuietMoveKeeps DEF Sound

LEMMA FindsCrashKeeps == ASSUME IInv, NEW r \in Runtimes, PollFindsCrash(r) PROVE IInv'
<1> USE DEF IInv, Types
<1>1. Waking(r, "awake") /\ ~rt[r].disposed /\ vm[rt[r].sess].state = "crashed"
  BY DEF PollFindsCrash, Waking
<1>2. Awake(r) /\ rt[r].sess \in Sessions BY <1>1, Active
<1> DEFINE o == [rt[r] EXCEPT !.poll = "provisioning"]
<1>3. rt[r] \in Object BY DEF MemoryTypes
<1>4. /\ o \in Object /\ o.phase = rt[r].phase /\ o.turn = rt[r].turn /\ o.stop = rt[r].stop
      /\ o.node = rt[r].node /\ o.sess = rt[r].sess /\ o.disposed = rt[r].disposed
  BY <1>3 DEF Object
<1>5. rt' = [rt EXCEPT ![r] = o] BY DEF PollFindsCrash, MemoryTypes
<1>6. o.turn \notin {"none", "settling"} => o.stop = "none" BY <1>4 DEF Memory, Shape
<1> HIDE DEF o
<1>7. Moves(r, o) BY <1>1, <1>2, <1>4, <1>5, <1>6
      DEF PollFindsCrash, Registry, process, Moves, Awake
<1>8. UNCHANGED <<store, process>> BY DEF PollFindsCrash
<1>9. Sound(r) BY <1>2 DEF Backing, Awake
<1> QED BY <1>1, <1>4, <1>7, <1>8, <1>9, QuietMoveKeeps DEF Sound

(* Writes of a VM alone. *)
LEMMA VmWrites ==
  ASSUME StoreTypes, Buried, NEW s \in Sessions, NEW m \in Machine,
         vm' = [vm EXCEPT ![s] = m], UNCHANGED <<row, graves>>
  PROVE  /\ vm'[s] = m /\ Elsewhere(s) /\ Lasting /\ StoreTypes'
         /\ \A t \in Range(graves') : Ended(t)'
BY DEF StoreTypes, Elsewhere, Lasting, Ended, Buried

LEMMA StartedVm ==
  ASSUME StoreTypes, NEW s \in Sessions
  PROVE  \E m \in Machine :
           /\ Started(s) = [vm EXCEPT ![s] = m] /\ m.worked = vm[s].worked
           /\ m.state = IF vm[s].state = "stopped" THEN "running" ELSE vm[s].state
<1>1. vm[s] \in Machine /\ vm = [vm EXCEPT ![s] = vm[s]] BY DEF StoreTypes
<1>2. CASE vm[s].state # "stopped" BY <1>1, <1>2 DEF Started
<1>3. CASE vm[s].state = "stopped"
  <2> DEFINE m == [vm[s] EXCEPT !.state = "running"]
  <2>1. m \in Machine /\ m.worked = vm[s].worked /\ m.state = "running"
    BY <1>1 DEF Machine
  <2>2. Started(s) = [vm EXCEPT ![s] = m] BY <1>3 DEF Started
  <2> HIDE DEF m
  <2> QED BY <1>3, <2>1, <2>2
<1> QED BY <1>2, <1>3

LEMMA TurnStartsVmKeeps == ASSUME IInv, NEW r \in Runtimes, TurnStartsVm(r) PROVE IInv'
<1> USE DEF IInv, Types
<1>1. Turning(r, "starting") BY DEF TurnStartsVm
<1>2. Awake(r) /\ ~rt[r].disposed /\ rt[r].sess \in Sessions BY <1>1, Active DEF Turning
<1> PICK s \in Sessions : s = rt[r].sess BY <1>2
<1>3. PICK m \in Machine :
        /\ Started(s) = [vm EXCEPT ![s] = m] /\ m.worked = vm[s].worked
        /\ m.state = IF vm[s].state = "stopped" THEN "running" ELSE vm[s].state
  BY StartedVm
<1>4. vm' = [vm EXCEPT ![s] = m] /\ UNCHANGED <<row, graves>> BY <1>3 DEF TurnStartsVm
<1>5. /\ vm'[s] = m /\ Elsewhere(s) /\ Lasting /\ StoreTypes'
      /\ \A t \in Range(graves') : Ended(t)'
  BY <1>4, VmWrites
<1> DEFINE o == IF vm[s].state = "absent" THEN Collect([rt[r] EXCEPT !.turn = "none"])
                ELSE Begin(rt[r])
<1>6. rt[r] \in Object /\ rt[r].stop = "none"
  BY <1>1 DEF MemoryTypes, Memory, Shape, Turning
<1>7. /\ o \in Object /\ o.phase = rt[r].phase /\ o.stop = "none"
      /\ o.node = rt[r].node /\ o.sess = rt[r].sess /\ o.disposed = rt[r].disposed
      /\ o.poll = rt[r].poll
      /\ o.turn \in {"none", "marking"}
      /\ o.turn = "marking" => vm[s].state # "absent"
  <2>1. [rt[r] EXCEPT !.turn = "none"].disposed = FALSE BY <1>2, <1>6 DEF Object
  <2>2. CASE vm[s].state = "absent" BY <1>2, <1>6, <2>1, <2>2 DEF Collect, Object, Turns
  <2>3. CASE vm[s].state # "absent" BY <1>6, <2>3 DEF Begin, Object, Turns
  <2> QED BY <2>2, <2>3
<1>8. rt' = [rt EXCEPT ![r] = o] BY DEF TurnStartsVm
<1> HIDE DEF o
<1>9. Moves(r, o) BY <1>2, <1>7, <1>8 DEF TurnStartsVm, Registry, process, Moves, Awake
<1>10. rt'[r] = o BY <1>8 DEF MemoryTypes
<1>11. ProcessTypes' BY DEF TurnStartsVm, process, ProcessTypes
<1>12. Sound(r) /\ Recorded(s) BY <1>2 DEF Backing, Awake
<1>13. vm[s] \in Machine BY DEF StoreTypes
<1>14. Recorded(s)' BY <1>3, <1>4, <1>5, <1>12, <1>13 DEF Recorded, Ended, Machine
<1>15. Sound(r)'
  BY <1>1, <1>2, <1>3, <1>4, <1>5, <1>7, <1>10, <1>12, <1>13
     DEF Sound, Ended, Waken, Awake, Turning, Machine
<1>16. row'[s].status = "terminated" => row[s].status = "terminated" BY <1>4
<1>17. o.turn # "none" => rt[r].turn # "none" BY <1>1 DEF Turning
<1> QED BY <1>5, <1>9, <1>11, <1>14, <1>15, <1>16, <1>17, MoveKeeps

(* A turn that moves on and writes a status: its row is not archived, or    *)
(* keeps the status it had, and no condition is left.                       *)
LEMMA StatusMoveKeeps ==
  ASSUME IInv, NEW r \in Runtimes, NEW o, Moves(r, o), rt[r].turn # "none",
         NEW st \in {"idle", "running", "terminated"}, SaveStatus(rt[r].sess, st),
         UNCHANGED <<vm, process>>, o.poll = rt[r].poll,
         st = "terminated" => o.turn = "none", o.turn # "marking",
         o.turn = "driving" => rt[r].turn = "marking" /\ st = "running"
  PROVE  IInv'
<1> USE DEF IInv, Types
<1>1. rt[r].sess \in Sessions BY DEF Moves, Memory, Shape, Awake
<1> PICK s \in Sessions : s = rt[r].sess BY <1>1
<1>2. Sound(r) /\ Recorded(s) BY DEF Backing, Moves, Awake
<1>3. row[s].status # "terminated" BY <1>2 DEF Sound
<1>4. SaveStatus(s, st) /\ st \in {"idle", "running"} \cup Terminal BY DEF Terminal
<1>5. /\ row' \in [Sessions -> Column] /\ graves' \in Seq(Sessions)
      /\ \A t \in Sessions : t # s => row'[t] = row[t]
      /\ row'[s].handle = row[s].handle
      /\ row'[s].status = IF Archived(s) THEN "archived" ELSE st
      /\ \A t \in Range(graves') : Ended(t)'
      /\ Lasting
  BY <1>3, <1>4, StatusWrites
<1>6. rt'[r] = o BY DEF Moves, MemoryTypes
<1>7. StoreTypes' /\ ProcessTypes' /\ Elsewhere(s)
  BY <1>5 DEF StoreTypes, process, ProcessTypes, Elsewhere
<1>8. Ended(s) => Ended(s)' BY <1>5 DEF Lasting
<1>9. Recorded(s)' BY <1>2, <1>5, <1>8 DEF Recorded
<1>10. Sound(r)'
  BY <1>2, <1>5, <1>6, <1>8 DEF Sound, Waken, Awake, Moves, Ended, Terminal
<1> QED BY <1>5, <1>7, <1>9, <1>10, MoveKeeps

LEMMA MarksRowKeeps == ASSUME IInv, NEW r \in Runtimes, TurnMarksRow(r) PROVE IInv'
<1> USE DEF IInv, Types
<1>1. Turning(r, "marking") BY DEF TurnMarksRow
<1>2. Awake(r) /\ ~rt[r].disposed /\ rt[r].sess \in Sessions BY <1>1, Active DEF Turning
<1> DEFINE o == [rt[r] EXCEPT !.turn = "driving"]
<1>3. rt[r] \in Object /\ rt[r].stop = "none"
  BY <1>1 DEF MemoryTypes, Memory, Shape, Turning
<1>4. /\ o \in Object /\ o.turn = "driving" /\ o.stop = "none" /\ o.phase = rt[r].phase
      /\ o.node = rt[r].node /\ o.sess = rt[r].sess /\ o.disposed = rt[r].disposed
      /\ o.poll = rt[r].poll
  BY <1>3 DEF Object, Turns
<1>5. rt' = [rt EXCEPT ![r] = o] BY DEF TurnMarksRow, MemoryTypes
<1> HIDE DEF o
<1>6. Moves(r, o) BY <1>2, <1>4, <1>5 DEF TurnMarksRow, Registry, process, Moves, Awake
<1>7. SaveStatus(rt[r].sess, "running") /\ UNCHANGED <<vm, process>> BY DEF TurnMarksRow
<1> QED BY <1>1, <1>4, <1>6, <1>7, StatusMoveKeeps DEF Turning

LEMMA SettlesKeeps == ASSUME IInv, NEW r \in Runtimes, TurnSettles(r) PROVE IInv'
<1> USE DEF IInv, Types
<1>1. Turning(r, "driving") BY DEF TurnSettles
<1>2. Awake(r) /\ ~rt[r].disposed /\ rt[r].sess \in Sessions BY <1>1, Active DEF Turning
<1> DEFINE o == [rt[r] EXCEPT !.turn = "storing", !.sm = "idle"]
<1>3. rt[r] \in Object /\ rt[r].stop = "none"
  BY <1>1 DEF MemoryTypes, Memory, Shape, Turning
<1>4. /\ o \in Object /\ o.turn = "storing" /\ o.stop = "none" /\ o.phase = rt[r].phase
      /\ o.node = rt[r].node /\ o.sess = rt[r].sess /\ o.disposed = rt[r].disposed
      /\ o.poll = rt[r].poll
  BY <1>3 DEF Object, Turns
<1>5. rt' = [rt EXCEPT ![r] = o] BY DEF TurnSettles, MemoryTypes
<1> HIDE DEF o
<1>6. Moves(r, o) BY <1>2, <1>4, <1>5 DEF TurnSettles, Registry, process, Moves, Awake
<1>7. SaveStatus(rt[r].sess, "idle") /\ UNCHANGED <<vm, process>> BY DEF TurnSettles
<1> QED BY <1>1, <1>4, <1>6, <1>7, StatusMoveKeeps DEF Turning

LEMMA TerminatesKeeps == ASSUME IInv, NEW r \in Runtimes, TurnTerminates(r) PROVE IInv'
<1> USE DEF IInv, Types
<1>1. Turning(r, "driving") BY DEF TurnTerminates
<1>2. Awake(r) /\ ~rt[r].disposed /\ rt[r].sess \in Sessions BY <1>1, Active DEF Turning
<1> DEFINE o == [rt[r] EXCEPT !.turn = "none", !.sm = "terminated"]
<1>3. rt[r] \in Object /\ rt[r].stop = "none"
  BY <1>1 DEF MemoryTypes, Memory, Shape, Turning
<1>4. /\ o \in Object /\ o.turn = "none" /\ o.stop = "none" /\ o.phase = rt[r].phase
      /\ o.node = rt[r].node /\ o.sess = rt[r].sess /\ o.disposed = rt[r].disposed
      /\ o.poll = rt[r].poll
  BY <1>3 DEF Object, Turns
<1>5. rt' = [rt EXCEPT ![r] = Collect(o)] BY DEF TurnTerminates, MemoryTypes
<1> HIDE DEF o
<1>6. Collect(o) = o BY <1>2, <1>4 DEF Collect
<1>7. Moves(r, o) BY <1>2, <1>4, <1>5, <1>6 DEF TurnTerminates, Registry, process, Moves, Awake
<1>8. SaveStatus(rt[r].sess, "terminated") /\ UNCHANGED <<vm, process>> BY DEF TurnTerminates
<1> QED BY <1>1, <1>4, <1>7, <1>8, StatusMoveKeeps DEF Turning

-----------------------------------------------------------------------------
(* The recovery of a crashed VM. *)

LEMMA PollProvisionsKeeps == ASSUME IInv, NEW r \in Runtimes, PollProvisions(r) PROVE IInv'
<1> USE DEF IInv, Types
<1>1. rt[r].poll = "provisioning" BY DEF PollProvisions
<1>2. Awake(r) /\ ~rt[r].disposed /\ rt[r].sess \in Sessions BY <1>1, Active
<1> PICK s \in Sessions : s = rt[r].sess BY <1>2
<1> DEFINE m == [state |-> "running", worked |-> FALSE]
           o == [rt[r] EXCEPT !.poll = "saving"]
<1>3. m \in Machine /\ m.state = "running" /\ ~m.worked BY DEF Machine
<1>4. vm' = [vm EXCEPT ![s] = m] /\ UNCHANGED <<row, graves>>
  BY DEF PollProvisions, Provisioned
<1> HIDE DEF m
<1>5. /\ vm'[s] = m /\ Elsewhere(s) /\ Lasting /\ StoreTypes'
      /\ \A t \in Range(graves') : Ended(t)'
  BY <1>3, <1>4, VmWrites
<1>6. rt[r] \in Object BY DEF MemoryTypes
<1>7. /\ o \in Object /\ o.phase = rt[r].phase /\ o.turn = rt[r].turn /\ o.stop = rt[r].stop
      /\ o.node = rt[r].node /\ o.sess = rt[r].sess /\ o.disposed = rt[r].disposed
      /\ o.poll = "saving"
  BY <1>6 DEF Object
<1>8. rt' = [rt EXCEPT ![r] = o] BY DEF PollProvisions, MemoryTypes
<1>9. o.turn \notin {"none", "settling"} => o.stop = "none" BY <1>7 DEF Memory, Shape
<1> HIDE DEF o
<1>10. Moves(r, o) BY <1>2, <1>7, <1>8, <1>9 DEF PollProvisions, Registry, process, Moves, Awake
<1>11. rt'[r] = o BY <1>8 DEF MemoryTypes
<1>12. ProcessTypes' BY DEF PollProvisions, process, ProcessTypes
<1>13. Sound(r) /\ Recorded(s) BY <1>2 DEF Backing, Awake
<1>14. Recorded(s)' BY <1>3, <1>4, <1>5 DEF Recorded
<1>15. Sound(r)'
  BY <1>2, <1>3, <1>4, <1>5, <1>7, <1>11, <1>13 DEF Sound, Ended, Waken, Awake
<1>16. row'[s].status = "terminated" => row[s].status = "terminated" BY <1>4
<1> QED BY <1>5, <1>7, <1>10, <1>12, <1>14, <1>15, <1>16, MoveKeeps

(* Without lost saves, the row knows of the VM after it. *)
LEMMA HandlePersists ==
  ASSUME Calm, NEW s, PersistHandle(s) PROVE SaveHandle(s)
BY DEF Calm, PersistHandle

LEMMA PollSavesHandleKeeps ==
  ASSUME Calm, IInv, NEW r \in Runtimes, PollSavesHandle(r) PROVE IInv'
<1> USE DEF IInv, Types
<1>1. rt[r].poll = "saving" BY DEF PollSavesHandle
<1>2. Awake(r) /\ ~rt[r].disposed /\ rt[r].sess \in Sessions BY <1>1, Active
<1> PICK s \in Sessions : s = rt[r].sess BY <1>2
<1>3. SaveHandle(s) BY HandlePersists DEF PollSavesHandle
<1>4. /\ row' \in [Sessions -> Column] /\ graves' \in Seq(Sessions)
      /\ \A t \in Sessions : t # s => row'[t] = row[t]
      /\ row'[s].status = row[s].status /\ (Ended(s) \/ row'[s].handle)
      /\ \A t \in Range(graves') : Ended(t)'
      /\ Lasting
  BY <1>3, HandleWrites
<1> DEFINE o == [rt[r] EXCEPT !.poll = "none"]
<1>5. rt[r] \in Object BY DEF MemoryTypes
<1>6. /\ o \in Object /\ o.phase = rt[r].phase /\ o.turn = rt[r].turn /\ o.stop = rt[r].stop
      /\ o.node = rt[r].node /\ o.sess = rt[r].sess /\ o.disposed = rt[r].disposed
      /\ o.poll = "none"
  BY <1>5 DEF Object
<1>7. rt' = [rt EXCEPT ![r] = Collect(o)] BY DEF PollSavesHandle, MemoryTypes
<1>8. o.turn \notin {"none", "settling"} => o.stop = "none" BY <1>6 DEF Memory, Shape
<1> HIDE DEF o
<1>9. Collect(o) = o BY <1>2, <1>6 DEF Collect
<1>10. Moves(r, o)
  BY <1>2, <1>6, <1>7, <1>8, <1>9 DEF PollSavesHandle, Registry, process, Moves, Awake
<1>11. rt'[r] = o BY <1>7, <1>9 DEF MemoryTypes
<1>12. StoreTypes' /\ ProcessTypes' /\ Elsewhere(s) /\ vm' = vm
  BY <1>4 DEF PollSavesHandle, StoreTypes, process, ProcessTypes, Elsewhere
<1>13. Sound(r) /\ Recorded(s) BY <1>2 DEF Backing, Awake
<1>14. Ended(s)' = Ended(s) BY <1>4 DEF Ended
<1>15. Recorded(s)' BY <1>4, <1>12, <1>13, <1>14 DEF Recorded
<1>16. Sound(r)'
  BY <1>2, <1>4, <1>6, <1>11, <1>12, <1>13, <1>14 DEF Sound, Waken, Awake
<1> QED BY <1>4, <1>6, <1>10, <1>12, <1>15, <1>16, MoveKeeps

-----------------------------------------------------------------------------
(* A runtime is gone: its wake failed, or it was disposed and its checkpoint *)
(* has ended.                                                               *)
LEMMA VanishKeeps ==
  ASSUME IInv, NEW r \in Runtimes, NEW s \in Sessions, s = rt[r].sess,
         Waken(r) \/ rt[r].disposed, rt' = [rt EXCEPT ![r] = Blank],
         UNCHANGED <<lru, up, reap>>, MemoryTypes',
         \A n \in Nodes, t \in Sessions :
           /\ inflight'[n][t] = IF inflight[n][t] = r THEN Nobody ELSE inflight[n][t]
           /\ mail'[n][t] \in {mail[n][t], "none"},
         StoreTypes', ProcessTypes', Elsewhere(s), Lasting,
         \A t \in Range(graves') : Ended(t)',
         row'[s].status = "terminated" => row[s].status = "terminated", Recorded(s)'
  PROVE  IInv'
<1> USE DEF IInv, Types
<1>0. Nobody \notin Sessions /\ Nobody \notin Runtimes BY RegistryAssumption
<1>1. rt'[r] = Blank /\ \A x \in Runtimes : x # r => rt'[x] = rt[x] BY DEF MemoryTypes
<1>2. rt'[r].phase = "unused" /\ rt'[r].sess \notin Sessions BY <1>0, <1>1 DEF Blank
<1>3. rt[r].phase # "unused"
  BY DEF Waken, Memory, Shape, Blank
<1>4. Single' BY <1>1, <1>2 DEF Memory, Single
<1>5. ASSUME NEW x \in Runtimes PROVE Shape(x)' /\ Known(x)'
  <2>1. Shape(x) /\ Known(x) BY DEF Memory
  <2>2. CASE x = r BY <1>1, <2>2 DEF Shape, Known, Waken, Awake, Blank
  <2>3. CASE x # r
    <3>1. Shape(x)' BY <1>1, <2>1, <2>3 DEF Shape, Waken
    <3>2. Waken(x)' => inflight'[rt'[x].node][rt'[x].sess] = x
      BY <1>1, <2>1, <2>3 DEF Shape, Known, Waken
    <3>3. Awake(x)' => \A n \in Nodes : inflight'[n][rt'[x].sess] = Nobody
      BY <1>1, <2>1, <2>3 DEF Shape, Known, Awake
    <3>4. Awake(x)' /\ ~rt'[x].disposed => x \in Range(lru'[rt'[x].node])
      BY <1>1, <2>1, <2>3 DEF Known, Awake
    <3> QED BY <3>1, <3>2, <3>3, <3>4 DEF Known
  <2> QED BY <2>2, <2>3
<1>6. Entries'
  <2> SUFFICES ASSUME NEW n \in Nodes
               PROVE  /\ \A x \in Range(lru'[n]) : Awake(x)' /\ ~rt'[x].disposed
                      /\ \A t \in Sessions : inflight'[n][t] # Nobody =>
                           /\ rt'[inflight'[n][t]].phase \notin {"unused", "awake"}
                           /\ rt'[inflight'[n][t]].sess = t
                           /\ rt'[inflight'[n][t]].node = n
                      /\ up'[n] # "up" => /\ reap'[n].left = <<>>
                                          /\ \A t \in Sessions : mail'[n][t] = "none"
    BY DEF Entries, Waken
  <2>1. Range(lru[n]) \subseteq Runtimes BY DEF MemoryTypes, Range
  <2>2. ASSUME NEW x \in Range(lru'[n]) PROVE Awake(x)' /\ ~rt'[x].disposed
    <3>1. Awake(x) /\ ~rt[x].disposed BY DEF Memory, Entries
    <3>2. x # r BY <3>1 DEF Waken, Awake
    <3> QED BY <1>1, <2>1, <3>1, <3>2 DEF Awake
  <2>3. ASSUME NEW t \in Sessions, inflight'[n][t] # Nobody
        PROVE  /\ rt'[inflight'[n][t]].phase \notin {"unused", "awake"}
               /\ rt'[inflight'[n][t]].sess = t
               /\ rt'[inflight'[n][t]].node = n
    <3>1. inflight'[n][t] = inflight[n][t] /\ inflight[n][t] # r BY <2>3
    <3>2. inflight[n][t] \in Runtimes BY <2>3, <3>1 DEF MemoryTypes
    <3>3. Waken(inflight[n][t]) /\ rt[inflight[n][t]].sess = t /\ rt[inflight[n][t]].node = n
      BY <2>3, <3>1 DEF Memory, Entries
    <3>4. rt'[inflight[n][t]] = rt[inflight[n][t]] BY <1>1, <3>1, <3>2
    <3> QED BY <3>1, <3>3, <3>4 DEF Waken
  <2>4. up'[n] # "up" => /\ reap'[n].left = <<>>
                         /\ \A t \in Sessions : mail'[n][t] = "none"
    BY DEF Memory, Entries
  <2> QED BY <2>2, <2>3, <2>4
<1>7. Memory' BY <1>4, <1>5, <1>6 DEF Memory
<1>8. Mails'
  <2> SUFFICES ASSUME NEW n \in Nodes, NEW t \in Sessions, mail'[n][t] # "none"
               PROVE  /\ row'[t].status # "terminated"
                      /\ \A x \in Runtimes : rt'[x].sess = t => rt'[x].turn = "none"
    BY DEF Mails
  <2>1. /\ row[t].status # "terminated"
        /\ \A x \in Runtimes : rt[x].sess = t => rt[x].turn = "none"
    BY DEF Mails
  <2>2. row'[t].status # "terminated"
    <3>1. CASE t = s BY <2>1, <3>1
    <3>2. CASE t # s BY <2>1, <3>2 DEF Elsewhere
    <3> QED BY <3>1, <3>2
  <2> QED BY <1>1, <1>2, <2>1, <2>2
<1>9. Backing'
  <2>1. ASSUME NEW x \in Runtimes, rt'[x].phase # "unused" PROVE rt[x].sess # s /\ Same(x)
    <3>1. x # r BY <1>2, <2>1
    <3>2. rt'[x] = rt[x] BY <1>1, <3>1
    <3> QED BY <1>3, <2>1, <3>1, <3>2 DEF Memory, Single, Same
  <2> QED BY <1>7, <2>1, BackingKept
<1>10. Buried' BY BuriedKept
<1> QED BY <1>7, <1>8, <1>9, <1>10

LEMMA StopEndsKeeps == ASSUME IInv, NEW r \in Runtimes, StopEnds(r) PROVE IInv'
<1> USE DEF IInv, Types
<1>1. rt[r].stop = "stopping" BY DEF StopEnds
<1>2. Awake(r) /\ rt[r].sess \in Sessions BY <1>1 DEF Memory, Shape, Waken, Awake, Blank
<1> PICK s \in Sessions : s = rt[r].sess BY <1>2
<1>3. rt[r].turn \in {"none", "settling"} BY <1>1 DEF Memory, Shape
<1>4. vm[s] \in Machine BY DEF StoreTypes
<1>5. PICK m \in Machine :
        /\ vm' = [vm EXCEPT ![s] = m] /\ m.worked = vm[s].worked
        /\ m.state = IF vm[s].state = "running" THEN "stopped" ELSE vm[s].state
  <2>1. CASE vm[s].state # "running"
    <3>1. vm' = vm /\ vm = [vm EXCEPT ![s] = vm[s]] BY <2>1 DEF StopEnds, StoreTypes
    <3> QED BY <1>4, <2>1, <3>1
  <2>2. CASE vm[s].state = "running"
    <3> DEFINE p == [vm[s] EXCEPT !.state = "stopped"]
    <3>1. p \in Machine /\ p.worked = vm[s].worked /\ p.state = "stopped"
      BY <1>4 DEF Machine
    <3>2. vm' = [vm EXCEPT ![s] = p] BY <2>2 DEF StopEnds
    <3> HIDE DEF p
    <3> QED BY <2>2, <3>1, <3>2
  <2> QED BY <2>1, <2>2
<1>6. UNCHANGED <<row, graves, lru, inflight, mail>> /\ UNCHANGED <<up, boots, reap, crashes>>
  BY DEF StopEnds, Registry, process
<1>7. /\ vm'[s] = m /\ Elsewhere(s) /\ Lasting /\ StoreTypes'
      /\ \A t \in Range(graves') : Ended(t)'
  BY <1>5, <1>6, VmWrites
<1>8. ProcessTypes' BY <1>6 DEF ProcessTypes
<1>9. Sound(r) /\ Recorded(s) BY <1>2 DEF Backing, Awake
<1>10. Recorded(s)' BY <1>5, <1>6, <1>7, <1>9 DEF Recorded, Ended
<1>11. row'[s].status = "terminated" => row[s].status = "terminated" BY <1>6
<1> DEFINE o == [rt[r] EXCEPT !.stop = "none"]
<1>12. rt[r] \in Object BY DEF MemoryTypes
<1>13. /\ o \in Object /\ o.phase = rt[r].phase /\ o.turn = rt[r].turn /\ o.stop = "none"
       /\ o.node = rt[r].node /\ o.sess = rt[r].sess /\ o.disposed = rt[r].disposed
       /\ o.poll = rt[r].poll
  BY <1>12 DEF Object
<1>14. rt' = [rt EXCEPT ![r] = Collect(o)] BY DEF StopEnds, MemoryTypes
<1> HIDE DEF o
<1>15. CASE rt[r].disposed
  <2>1. Collect(o) = Blank BY <1>13, <1>15 DEF Collect, Memory, Shape
  <2>2. rt' = [rt EXCEPT ![r] = Blank] BY <1>14, <2>1
  <2>3. Blank \in Object BY DEF Blank, Object, Phases, Turns
  <2>4. MemoryTypes' BY <1>6, <2>2, <2>3 DEF MemoryTypes
  <2>5. \A n \in Nodes, t \in Sessions : inflight[n][t] # r
    BY <1>2, RegistryAssumption DEF Memory, Entries, Waken, Awake
  <2>6. \A n \in Nodes, t \in Sessions :
          /\ inflight'[n][t] = IF inflight[n][t] = r THEN Nobody ELSE inflight[n][t]
          /\ mail'[n][t] \in {mail[n][t], "none"}
    BY <1>6, <2>5
  <2>7. UNCHANGED <<lru, up, reap>> BY <1>6
  <2> HIDE DEF IInv, Types
  <2> QED BY <1>7, <1>8, <1>10, <1>11, <1>15, <2>2, <2>4, <2>6, <2>7, VanishKeeps
<1>16. CASE ~rt[r].disposed
  <2>1. Collect(o) = o BY <1>13, <1>16 DEF Collect
  <2>2. Moves(r, o) BY <1>2, <1>6, <1>13, <1>14, <1>16, <2>1 DEF Moves, Awake
  <2>3. rt'[r] = o BY <1>14, <2>1 DEF MemoryTypes
  <2>4. Sound(r)'
    BY <1>2, <1>3, <1>5, <1>6, <1>7, <1>9, <1>13, <2>3 DEF Sound, Ended, Waken, Awake
  <2> QED BY <1>7, <1>8, <1>10, <1>11, <1>13, <2>2, <2>4, MoveKeeps
<1> QED BY <1>15, <1>16

-----------------------------------------------------------------------------
(* A wake. *)

LEMMA Waking1 ==
  ASSUME Memory, NEW r \in Runtimes, NEW p, Waking(r, p), p \notin {"unused", "awake"}
  PROVE  /\ Waken(r) /\ rt[r].sess \in Sessions /\ rt[r].node \in Nodes
         /\ inflight[rt[r].node][rt[r].sess] = r
BY DEF Memory, Shape, Known, Waking, Waken

LEMMA WakeFailsKeeps ==
  ASSUME IInv, NEW r \in Runtimes, Waken(r), WakeFails(r), UNCHANGED <<store, process>>
  PROVE  IInv'
<1> USE DEF IInv, Types
<1>1. rt[r].sess \in Sessions /\ rt[r].node \in Nodes BY DEF Memory, Shape, Waken
<1> PICK s \in Sessions, m \in Nodes : s = rt[r].sess /\ m = rt[r].node BY <1>1
<1>2. /\ rt' = [rt EXCEPT ![r] = Blank]
      /\ inflight' = [inflight EXCEPT ![m] = [inflight[m] EXCEPT ![s] = Nobody]]
      /\ mail' = [mail EXCEPT ![m] = [mail[m] EXCEPT ![s] =
                    IF mail[m][s] = "queued" THEN "none" ELSE mail[m][s]]]
      /\ UNCHANGED lru
  BY DEF WakeFails, MemoryTypes
<1>3. UNCHANGED <<row, vm, graves, up, boots, reap, crashes>> BY DEF store, process
<1>4. Elsewhere(s) /\ Lasting /\ StoreTypes' /\ ProcessTypes' /\ \A t \in Range(graves') : Ended(t)'
  BY <1>3 DEF Elsewhere, Lasting, Ended, StoreTypes, ProcessTypes, Buried
<1>5. Blank \in Object BY DEF Blank, Object, Phases, Turns
<1>6. [inflight[m] EXCEPT ![s] = Nobody] \in [Sessions -> Runtimes \cup {Nobody}]
  BY DEF MemoryTypes
<1>7. [mail[m] EXCEPT ![s] = IF mail[m][s] = "queued" THEN "none" ELSE mail[m][s]]
        \in [Sessions -> {"none", "admitted", "queued"}]
  BY DEF MemoryTypes
<1>8. MemoryTypes' BY <1>2, <1>5, <1>6, <1>7 DEF MemoryTypes
<1>9. inflight[m][s] = r BY DEF Memory, Known
<1>10. \A n \in Nodes, t \in Sessions : inflight[n][t] = r => n = m /\ t = s
  BY RegistryAssumption DEF Memory, Entries
<1>11. ASSUME NEW n \in Nodes, NEW t \in Sessions
       PROVE  /\ inflight'[n][t] = IF inflight[n][t] = r THEN Nobody ELSE inflight[n][t]
              /\ mail'[n][t] \in {mail[n][t], "none"}
  <2>1. CASE n = m
    <3>1. /\ inflight'[n] = [inflight[m] EXCEPT ![s] = Nobody]
          /\ mail'[n] = [mail[m] EXCEPT ![s] =
               IF mail[m][s] = "queued" THEN "none" ELSE mail[m][s]]
      BY <1>2, <2>1 DEF MemoryTypes
    <3>2. CASE t = s BY <1>9, <2>1, <3>1, <3>2 DEF MemoryTypes
    <3>3. CASE t # s BY <1>10, <2>1, <3>1, <3>3 DEF MemoryTypes
    <3> QED BY <3>2, <3>3
  <2>2. CASE n # m BY <1>2, <1>10, <2>2 DEF MemoryTypes
  <2> QED BY <2>1, <2>2
<1>12. Recorded(s)' BY <1>3 DEF Backing, Recorded, Ended
<1>13. row'[s].status = "terminated" => row[s].status = "terminated" BY <1>3
<1>14. UNCHANGED <<lru, up, reap>> BY <1>2, <1>3
<1> QED BY <1>2, <1>4, <1>8, <1>11, <1>12, <1>13, <1>14, VanishKeeps

(* The next await of a wake. *)
LEMMA StepKeeps ==
  ASSUME IInv, NEW r \in Runtimes, NEW s \in Sessions, s = rt[r].sess,
         NEW p \in Phases \ {"unused", "awake"}, Waken(r), Step(r, p),
         UNCHANGED <<lru, inflight, mail, process>>,
         StoreTypes', Elsewhere(s), Lasting, \A t \in Range(graves') : Ended(t)',
         row'[s].status = "terminated" => row[s].status = "terminated",
         Recorded(s)',
         ~Ended(s)' =>
           /\ p \in {"probing", "starting", "building"} => row'[s].handle
           /\ p = "provisioning" => ~vm'[s].worked \/ vm'[s].state = "crashed"
  PROVE  IInv'
<1> USE DEF IInv, Types
<1> DEFINE o == [rt[r] EXCEPT !.phase = p]
<1>1. rt[r] \in Object BY DEF MemoryTypes
<1>2. /\ o \in Object /\ o.phase = p /\ o.turn = rt[r].turn /\ o.stop = rt[r].stop
      /\ o.node = rt[r].node /\ o.sess = rt[r].sess /\ o.disposed = rt[r].disposed
      /\ o.poll = rt[r].poll
  BY <1>1 DEF Object
<1>3. rt' = [rt EXCEPT ![r] = o] BY DEF Step, MemoryTypes
<1> HIDE DEF o
<1>4. rt'[r] = o /\ \A x \in Runtimes : x # r => rt'[x] = rt[x] BY <1>3 DEF MemoryTypes
<1>5. UNCHANGED <<up, boots, reap, crashes>> BY DEF process
<1>6. MemoryTypes' BY <1>2, <1>3 DEF MemoryTypes
<1>7. ProcessTypes' BY <1>5 DEF ProcessTypes
<1>8. \A x \in Runtimes : /\ Awake(x)' = Awake(x) /\ Waken(x)' = Waken(x)
                          /\ (rt'[x].phase = "unused") = (rt[x].phase = "unused")
                          /\ rt'[x].sess = rt[x].sess /\ rt'[x].node = rt[x].node
                          /\ rt'[x].disposed = rt[x].disposed /\ rt'[x].turn = rt[x].turn
  BY <1>2, <1>4 DEF Awake, Waken
<1>9. Single' BY <1>8 DEF Memory, Single
<1>10. ASSUME NEW x \in Runtimes PROVE Shape(x)' /\ Known(x)'
  <2>1. Shape(x) /\ Known(x) BY DEF Memory
  <2>2. Shape(x)'
    <3>1. CASE x = r BY <1>2, <1>4, <1>5, <2>1, <3>1 DEF Shape, Waken
    <3>2. CASE x # r BY <1>4, <1>5, <2>1, <3>2 DEF Shape, Waken
    <3> QED BY <3>1, <3>2
  <2>3. Known(x)' BY <1>8, <2>1 DEF Known
  <2> QED BY <2>2, <2>3
<1>11. Entries'
  <2>1. \A n \in Nodes : Range(lru[n]) \subseteq Runtimes BY DEF MemoryTypes, Range
  <2>2. \A n \in Nodes, t \in Sessions : inflight[n][t] # Nobody => inflight[n][t] \in Runtimes
    BY DEF MemoryTypes
  <2> QED BY <1>5, <1>8, <2>1, <2>2 DEF Memory, Entries
<1>12. Memory' BY <1>9, <1>10, <1>11 DEF Memory
<1>13. Mails'
  <2> SUFFICES ASSUME NEW n \in Nodes, NEW t \in Sessions, mail[n][t] # "none"
               PROVE  /\ row'[t].status # "terminated"
                      /\ \A x \in Runtimes : rt'[x].sess = t => rt'[x].turn = "none"
    BY DEF Mails
  <2>1. CASE t = s BY <1>8, <2>1 DEF Mails
  <2>2. CASE t # s BY <1>8, <2>2 DEF Mails, Elsewhere
  <2> QED BY <2>1, <2>2
<1>14. Sound(r)'
  <2>1. Sound(r) /\ row[s].status # "terminated" BY DEF Backing, Sound, Waken
  <2>2. rt[r].turn = "none" /\ rt[r].poll = "none" BY DEF Memory, Shape
  <2> QED BY <1>2, <1>4, <2>1, <2>2 DEF Sound
<1>15. Backing'
  <2>1. ASSUME NEW x \in Runtimes, rt'[x].phase # "unused"
        PROVE  \/ rt'[x].sess = s /\ Sound(x)'
               \/ rt[x].sess # s /\ Same(x)
    <3>1. CASE x = r BY <1>8, <1>14, <3>1
    <3>2. CASE x # r
      <4>1. rt'[x] = rt[x] BY <1>4, <3>2
      <4>2. rt[x].sess # s BY <2>1, <3>2, <4>1 DEF Memory, Single, Waken
      <4> QED BY <4>1, <4>2 DEF Same
    <3> QED BY <3>1, <3>2
  <2> QED BY <2>1, BackingKept
<1>16. Buried' BY <1>5, BuriedKept
<1> QED BY <1>6, <1>7, <1>12, <1>13, <1>15, <1>16

(* ... writes nothing. *)
LEMMA QuietStepKeeps ==
  ASSUME IInv, NEW r \in Runtimes, NEW p \in Phases \ {"unused", "awake"}, Waken(r), Step(r, p),
         UNCHANGED <<lru, inflight, mail>>, UNCHANGED <<store, process>>,
         ~Ended(rt[r].sess) =>
           /\ p \in {"probing", "starting", "building"} => row[rt[r].sess].handle
           /\ p = "provisioning" =>
                ~vm[rt[r].sess].worked \/ vm[rt[r].sess].state = "crashed"
  PROVE  IInv'
<1> USE DEF IInv, Types
<1>1. rt[r].sess \in Sessions BY DEF Memory, Shape, Waken
<1> PICK s \in Sessions : s = rt[r].sess BY <1>1
<1>2. UNCHANGED <<row, vm, graves>> BY DEF store
<1>3. Elsewhere(s) /\ Lasting /\ StoreTypes' /\ \A t \in Range(graves') : Ended(t)'
  BY <1>2 DEF Elsewhere, Lasting, Ended, StoreTypes, Buried
<1>4. Recorded(s)' BY <1>2 DEF Backing, Recorded, Ended
<1>5. ~Ended(s)' =>
        /\ p \in {"probing", "starting", "building"} => row'[s].handle
        /\ p = "provisioning" => ~vm'[s].worked \/ vm'[s].state = "crashed"
  BY <1>2 DEF Ended
<1>6. row'[s].status = "terminated" => row[s].status = "terminated" BY <1>2
<1> QED BY <1>3, <1>4, <1>5, <1>6, StepKeeps

LEMMA ReadsKeeps == ASSUME IInv, NEW r \in Runtimes, WakeReads(r) PROVE IInv'
<1> USE DEF IInv, Types
<1>1. Waken(r) /\ rt[r].sess \in Sessions BY Waking1 DEF WakeReads
<1>2. UNCHANGED <<store, process>> BY DEF WakeReads
<1>3. CASE Archived(rt[r].sess) BY <1>1, <1>2, <1>3, WakeFailsKeeps DEF WakeReads
<1>4. CASE ~Archived(rt[r].sess)
  <2>1. Recorded(rt[r].sess) BY <1>1 DEF Backing
  <2>2. CASE row[rt[r].sess].handle
    <3>1. Step(r, "probing") /\ UNCHANGED <<lru, inflight, mail>>
      BY <1>4, <2>2 DEF WakeReads
    <3> QED BY <1>1, <1>2, <2>2, <3>1, QuietStepKeeps DEF Phases
  <2>3. CASE ~row[rt[r].sess].handle
    <3>1. Step(r, "provisioning") /\ UNCHANGED <<lru, inflight, mail>>
      BY <1>4, <2>3 DEF WakeReads
    <3>2. ~Ended(rt[r].sess) => ~vm[rt[r].sess].worked BY <2>1, <2>3 DEF Recorded
    <3> QED BY <1>1, <1>2, <3>1, <3>2, QuietStepKeeps DEF Phases
  <2> QED BY <2>2, <2>3
<1> QED BY <1>3, <1>4

LEMMA WakeProbesKeeps == ASSUME IInv, NEW r \in Runtimes, WakeProbes(r) PROVE IInv'
<1> USE DEF IInv, Types
<1>1. Waken(r) /\ rt[r].sess \in Sessions /\ rt[r].phase = "probing"
  BY Waking1 DEF WakeProbes, Waking
<1> PICK s \in Sessions : s = rt[r].sess BY <1>1
<1>2. UNCHANGED <<store, process>> BY DEF WakeProbes
<1>3. vm[s].state \in {"absent", "crashed", "stopped", "running"} BY DEF StoreTypes, Machine
<1>4. Sound(r) BY <1>1 DEF Backing
<1>5. ~Ended(s) => row[s].handle BY <1>1, <1>4 DEF Sound
<1>6. CASE vm[s].state = "absent" BY <1>1, <1>2, <1>6, WakeFailsKeeps DEF WakeProbes
<1>7. CASE vm[s].state = "crashed"
  <2>1. Step(r, "provisioning") /\ UNCHANGED <<lru, inflight, mail>> BY <1>7 DEF WakeProbes
  <2> QED BY <1>1, <1>2, <1>7, <2>1, QuietStepKeeps DEF Phases
<1>8. CASE vm[s].state = "stopped"
  <2>1. Step(r, "starting") /\ UNCHANGED <<lru, inflight, mail>> BY <1>8 DEF WakeProbes
  <2> QED BY <1>1, <1>2, <1>5, <2>1, QuietStepKeeps DEF Phases
<1>9. CASE vm[s].state = "running"
  <2>1. Step(r, "building") /\ UNCHANGED <<lru, inflight, mail>> BY <1>9 DEF WakeProbes
  <2> QED BY <1>1, <1>2, <1>5, <2>1, QuietStepKeeps DEF Phases
<1> QED BY <1>3, <1>6, <1>7, <1>8, <1>9

LEMMA ProvisionsKeeps == ASSUME IInv, NEW r \in Runtimes, WakeProvisions(r) PROVE IInv'
<1> USE DEF IInv, Types
<1>1. Waken(r) /\ rt[r].sess \in Sessions BY Waking1 DEF WakeProvisions
<1> PICK s \in Sessions : s = rt[r].sess BY <1>1
<1> DEFINE m == [state |-> "running", worked |-> FALSE]
<1>2. m \in Machine /\ m.state = "running" /\ ~m.worked BY DEF Machine
<1>3. vm' = [vm EXCEPT ![s] = m] /\ UNCHANGED <<row, graves>>
  BY DEF WakeProvisions, Provisioned
<1> HIDE DEF m
<1>4. /\ vm'[s] = m /\ Elsewhere(s) /\ Lasting /\ StoreTypes'
      /\ \A t \in Range(graves') : Ended(t)'
  BY <1>2, <1>3, VmWrites
<1>5. Step(r, "saving") /\ UNCHANGED <<lru, inflight, mail, process>> BY DEF WakeProvisions
<1>6. Recorded(s)' BY <1>2, <1>4 DEF Recorded
<1> QED BY <1>1, <1>3, <1>4, <1>5, <1>6, StepKeeps DEF Phases

LEMMA WakeStartsVmKeeps == ASSUME IInv, NEW r \in Runtimes, WakeStartsVm(r) PROVE IInv'
<1> USE DEF IInv, Types
<1>1. Waken(r) /\ rt[r].sess \in Sessions /\ rt[r].phase = "starting"
  BY Waking1 DEF WakeStartsVm, Waking
<1> PICK s \in Sessions : s = rt[r].sess BY <1>1
<1>2. Sound(r) /\ Recorded(s) BY <1>1 DEF Backing
<1>3. CASE vm[s].state = "absent"
  <2>1. WakeFails(r) /\ UNCHANGED <<store, process>> BY <1>3 DEF WakeStartsVm, store
  <2> QED BY <1>1, <2>1, WakeFailsKeeps
<1>4. CASE vm[s].state # "absent"
  <2>1. PICK m \in Machine :
          /\ Started(s) = [vm EXCEPT ![s] = m] /\ m.worked = vm[s].worked
          /\ m.state = IF vm[s].state = "stopped" THEN "running" ELSE vm[s].state
    BY StartedVm
  <2>2. vm' = [vm EXCEPT ![s] = m] /\ UNCHANGED <<row, graves>>
    BY <1>4, <2>1 DEF WakeStartsVm
  <2>3. /\ vm'[s] = m /\ Elsewhere(s) /\ Lasting /\ StoreTypes'
        /\ \A t \in Range(graves') : Ended(t)'
    BY <2>2, VmWrites
  <2>4. Step(r, "building") /\ UNCHANGED <<lru, inflight, mail, process>>
    BY <1>4 DEF WakeStartsVm
  <2>5. Recorded(s)' BY <1>2, <1>4, <2>1, <2>2, <2>3 DEF Recorded, Ended
  <2>6. ~Ended(s)' => row'[s].handle BY <1>1, <1>2, <2>2 DEF Sound, Ended
  <2> QED BY <1>1, <2>2, <2>3, <2>4, <2>5, <2>6, StepKeeps DEF Phases
<1> QED BY <1>3, <1>4

LEMMA SavesHandleKeeps ==
  ASSUME Calm, IInv, NEW r \in Runtimes, WakeSavesHandle(r) PROVE IInv'
<1> USE DEF IInv, Types
<1>1. Waken(r) /\ rt[r].sess \in Sessions BY Waking1 DEF WakeSavesHandle
<1> PICK s \in Sessions : s = rt[r].sess BY <1>1
<1>2. SaveHandle(s) BY HandlePersists DEF WakeSavesHandle
<1>3. /\ row' \in [Sessions -> Column] /\ graves' \in Seq(Sessions)
      /\ \A t \in Sessions : t # s => row'[t] = row[t]
      /\ row'[s].status = row[s].status /\ (Ended(s) \/ row'[s].handle)
      /\ \A t \in Range(graves') : Ended(t)'
      /\ Lasting
  BY <1>2, HandleWrites
<1>4. Step(r, "building") /\ UNCHANGED <<vm, lru, inflight, mail, process>>
  BY DEF WakeSavesHandle
<1>5. StoreTypes' /\ Elsewhere(s) BY <1>3, <1>4 DEF StoreTypes, Elsewhere
<1>6. Recorded(s) BY DEF Backing
<1>7. Ended(s)' = Ended(s) BY <1>3 DEF Ended
<1>8. Recorded(s)' BY <1>3, <1>4, <1>6, <1>7 DEF Recorded
<1> QED BY <1>1, <1>3, <1>4, <1>5, <1>7, <1>8, StepKeeps DEF Phases

-----------------------------------------------------------------------------
(* Eviction. *)

(* A runtime at rest is gone at once, or is nothing but its checkpoint. *)
LEMMA EvictedForm ==
  ASSUME NEW o \in Object, ~o.disposed, o.turn = "none", o.poll = "none"
  PROVE  LET d == Disposed(o) IN
         /\ d \in Object
         /\ \/ d = Blank
            \/ /\ d.node = o.node /\ d.sess = o.sess /\ d.phase = o.phase
               /\ d.turn = "none" /\ d.poll = "none" /\ d.stop = "stopping" /\ d.disposed
<1> DEFINE p == [o EXCEPT !.disposed = TRUE, !.stop = IF @ = "pending" THEN "stopping" ELSE @]
<1>1. /\ p \in Object /\ p.disposed /\ p.turn = "none" /\ p.poll = "none"
      /\ p.node = o.node /\ p.sess = o.sess /\ p.phase = o.phase
      /\ p.stop \in {"none", "stopping"}
  BY DEF Object
<1>2. Disposed(o) = Collect(p) BY DEF Disposed
<1>3. Blank \in Object BY DEF Blank, Object, Phases, Turns
<1> HIDE DEF p
<1> QED BY <1>1, <1>2, <1>3 DEF Collect

LEMMA VictimsOf ==
  ASSUME NEW q \in Seq(Runtimes), NEW keep
  PROVE  Victims(q, keep) \subseteq Range(q) \ {keep}
<1> DEFINE S == {x \in Range(q) : x # keep /\ Evictable(x)}
           idle == Keep(q, S)
           over == IF Len(q) > MaxRuntimes THEN Len(q) - MaxRuntimes ELSE 0
           k == IF over < Len(idle) THEN over ELSE Len(idle)
<1>1. idle \in Seq(Runtimes) /\ Range(idle) = Range(q) \cap S BY Kept
<1>2. over \in Nat BY RegistryAssumption
<1>3. k \in 0..Len(idle) BY <1>1, <1>2
<1>4. Victims(q, keep) = Range(SubSeq(idle, 1, k)) BY DEF Victims
<1> HIDE DEF idle, k, over
<1>5. Range(SubSeq(idle, 1, k)) \subseteq Range(idle) BY <1>1, <1>3, PrefixRange
<1> QED BY <1>1, <1>4, <1>5

LEMMA QuietRest ==
  ASSUME Calm, NEW V, Quiet(V), NEW x \in V PROVE rt[x].turn = "none" /\ rt[x].poll = "none"
BY DEF Calm, Quiet, Handling, Recovering

(* The end of a wake: the runtime enters the map, others leave it, and the  *)
(* message that waited begins its turn.                                     *)
LEMMA WakeEndsKeeps ==
  ASSUME Alone, Calm, IInv, NEW r \in Runtimes, WakeEnds(r) PROVE IInv'
<1> USE DEF IInv, Types
<1>1. /\ rt[r].phase = "building" /\ Waken(r)
      /\ rt[r].sess \in Sessions /\ rt[r].node \in Nodes
      /\ inflight[rt[r].node][rt[r].sess] = r
  BY Waking1 DEF WakeEnds, Waking
<1> PICK s \in Sessions, n \in Nodes : s = rt[r].sess /\ n = rt[r].node BY <1>1
<1>2. \A m \in Nodes : m = n BY DEF Alone
<1> DEFINE held == Append(lru[n], r)
           V == Victims(held, r)
           entered == Keep(held, Range(held) \ V)
           o == [rt[r] EXCEPT !.phase = "awake",
                              !.turn = IF mail[n][s] = "queued" THEN "settling" ELSE @]
<1>3. held \in Seq(Runtimes) /\ Range(held) = Range(lru[n]) \cup {r}
  BY AppendAdds DEF MemoryTypes
<1>4. V \subseteq Range(lru[n]) \ {r}
  <2> HIDE DEF held
  <2>1. V \subseteq Range(held) \ {r} BY <1>3, VictimsOf
  <2> QED BY <1>3, <2>1
<1>5. entered \in Seq(Runtimes) /\ Range(entered) = (Range(lru[n]) \cup {r}) \ V
  <2> HIDE DEF held, V
  <2>1. entered \in Seq(Runtimes) /\ Range(entered) = Range(held) \cap (Range(held) \ V)
    BY <1>3, Kept
  <2> QED BY <1>3, <2>1
<1>6. Quiet(V) BY DEF WakeEnds
<1>7. lru' = [lru EXCEPT ![n] = entered] BY DEF WakeEnds
<1>8. rt' = [x \in Runtimes |-> IF x = r THEN o
                                ELSE IF x \in V THEN Disposed(rt[x]) ELSE rt[x]]
  BY DEF WakeEnds
<1>9. /\ inflight' = [inflight EXCEPT ![n] = [inflight[n] EXCEPT ![s] = Nobody]]
      /\ mail' = [mail EXCEPT ![n] = [mail[n] EXCEPT ![s] =
                    IF mail[n][s] = "queued" THEN "none" ELSE mail[n][s]]]
      /\ SaveStatus(s, "idle") /\ UNCHANGED <<vm, process>>
  BY DEF WakeEnds, MemoryTypes
<1>10. rt[r] \in Object /\ Shape(r) /\ Known(r) /\ Sound(r) /\ Recorded(s)
  BY <1>1 DEF MemoryTypes, Memory, Backing
<1>11. /\ o \in Object /\ o.phase = "awake" /\ o.node = n /\ o.sess = s
       /\ o.stop = "none" /\ o.poll = "none" /\ ~o.disposed
       /\ o.turn = IF mail[n][s] = "queued" THEN "settling" ELSE "none"
  BY <1>1, <1>10 DEF Object, Shape, Turns, Phases, Waken
<1> HIDE DEF held, V, entered, o
<1>12. Range(lru[n]) \subseteq Runtimes BY DEF MemoryTypes, Range
<1>13. \A x \in V : /\ x \in Runtimes /\ x # r /\ Awake(x) /\ ~rt[x].disposed
                    /\ rt[x].turn = "none" /\ rt[x].poll = "none"
  BY <1>4, <1>6, <1>12, QuietRest DEF Memory, Entries
<1>14. \A x \in V : /\ rt'[x] \in Object
                    /\ \/ rt'[x] = Blank
                       \/ /\ rt'[x].node = rt[x].node /\ rt'[x].sess = rt[x].sess
                          /\ rt'[x].phase = "awake" /\ rt'[x].turn = "none"
                          /\ rt'[x].poll = "none" /\ rt'[x].stop = "stopping"
                          /\ rt'[x].disposed
  <2> TAKE x \in V
  <2>1. rt'[x] = Disposed(rt[x]) /\ rt[x] \in Object /\ rt[x].phase = "awake"
    BY <1>8, <1>13 DEF MemoryTypes, Awake
  <2> QED BY <1>13, <2>1, EvictedForm
<1>15. rt'[r] = o /\ \A x \in Runtimes : x # r /\ x \notin V => rt'[x] = rt[x] BY <1>8
<1>16. MemoryTypes'
  <2>1. rt' \in [Runtimes -> Object]
    <3>1. \A x \in Runtimes : rt'[x] \in Object BY <1>11, <1>14, <1>15 DEF MemoryTypes
    <3>2. rt' = [x \in Runtimes |-> rt'[x]] BY <1>8
    <3> QED BY <3>1, <3>2
  <2>2. lru' \in [Nodes -> Seq(Runtimes)] BY <1>5, <1>7 DEF MemoryTypes
  <2>3. [inflight[n] EXCEPT ![s] = Nobody] \in [Sessions -> Runtimes \cup {Nobody}]
    BY DEF MemoryTypes
  <2>4. [mail[n] EXCEPT ![s] = IF mail[n][s] = "queued" THEN "none" ELSE mail[n][s]]
          \in [Sessions -> {"none", "admitted", "queued"}]
    BY DEF MemoryTypes
  <2> QED BY <1>9, <2>1, <2>2, <2>3, <2>4 DEF MemoryTypes
<1>17. row[s].status # "terminated" BY <1>1, <1>10 DEF Sound
<1>18. /\ row' \in [Sessions -> Column] /\ graves' \in Seq(Sessions)
       /\ \A t \in Sessions : t # s => row'[t] = row[t]
       /\ row'[s].handle = row[s].handle
       /\ row'[s].status = IF Archived(s) THEN "archived" ELSE "idle"
       /\ \A t \in Range(graves') : Ended(t)'
       /\ Lasting
  BY <1>9, <1>17, StatusWrites
<1>19. UNCHANGED <<vm, up, boots, reap, crashes>> BY <1>9 DEF process
<1>20. StoreTypes' /\ ProcessTypes' /\ Elsewhere(s)
  BY <1>18, <1>19 DEF StoreTypes, ProcessTypes, Elsewhere
<1>21. lru'[n] = entered /\ inflight'[n][s] = Nobody
       /\ (\A t \in Sessions : t # s => inflight'[n][t] = inflight[n][t])
       /\ (\A t \in Sessions : t # s => mail'[n][t] = mail[n][t])
       /\ mail'[n][s] = IF mail[n][s] = "queued" THEN "none" ELSE mail[n][s]
  BY <1>7, <1>9 DEF MemoryTypes
<1>22. \A x \in Runtimes : rt'[x].phase # "unused" =>
         rt[x].phase # "unused" /\ rt'[x].sess = rt[x].sess /\ rt'[x].node = rt[x].node
  BY <1>1, <1>11, <1>13, <1>14, <1>15 DEF Waken, Awake, Blank
<1>23. Single' BY <1>22 DEF Memory, Single
<1>24. ASSUME NEW x \in Runtimes PROVE Shape(x)' /\ Known(x)'
  <2>1. Shape(x) /\ Known(x) BY DEF Memory
  <2>2. CASE x = r
    <3>1. Shape(x)'
      BY <1>1, <1>10, <1>11, <1>15, <1>19, <2>2 DEF Shape, Waken
    <3>2. Known(x)' BY <1>2, <1>4, <1>5, <1>11, <1>15, <1>21, <2>2 DEF Known, Waken, Awake
    <3> QED BY <3>1, <3>2
  <2>3. CASE x \in V
    <3>1. CASE rt'[x] = Blank BY <3>1 DEF Shape, Known, Waken, Awake, Blank
    <3>2. CASE rt'[x] # Blank
      <4>1. /\ rt'[x].node = rt[x].node /\ rt'[x].sess = rt[x].sess
            /\ rt'[x].phase = "awake" /\ rt'[x].turn = "none"
            /\ rt'[x].poll = "none" /\ rt'[x].stop = "stopping" /\ rt'[x].disposed
        BY <1>14, <2>3, <3>2
      <4>2. Awake(x) BY <1>13, <2>3
      <4>3. Shape(x)' BY <1>19, <2>1, <4>1, <4>2 DEF Shape, Waken, Awake
      <4>4. rt[x].sess \in Sessions BY <2>1, <4>2 DEF Shape, Awake
      <4>5. \A m \in Nodes : inflight'[m][rt[x].sess] = Nobody
        BY <1>2, <1>21, <2>1, <4>2, <4>4 DEF Known
      <4>6. Known(x)' BY <4>1, <4>5 DEF Known, Waken, Awake
      <4> QED BY <4>3, <4>6
    <3> QED BY <3>1, <3>2
  <2>4. CASE x # r /\ x \notin V
    <3>1. rt'[x] = rt[x] BY <1>15, <2>4
    <3>2. Shape(x)' BY <1>19, <2>1, <3>1 DEF Shape, Waken
    <3>3. ASSUME rt[x].phase # "unused"
          PROVE rt[x].sess \in Sessions /\ rt[x].node = n /\ rt[x].sess # s
      BY <1>1, <1>2, <2>1, <2>4, <3>3 DEF Shape, Memory, Single, Waken
    <3>4. Waken(x)' => inflight'[rt'[x].node][rt'[x].sess] = x
      BY <1>21, <2>1, <3>1, <3>3 DEF Known, Waken
    <3>5. Awake(x)' => \A m \in Nodes : inflight'[m][rt'[x].sess] = Nobody
      BY <1>2, <1>21, <2>1, <3>1, <3>3 DEF Known, Awake
    <3>6. Awake(x)' /\ ~rt'[x].disposed => x \in Range(lru'[rt'[x].node])
      BY <1>5, <1>21, <2>1, <2>4, <3>1, <3>3 DEF Known, Awake
    <3> QED BY <3>2, <3>4, <3>5, <3>6 DEF Known
  <2> QED BY <2>2, <2>3, <2>4
<1>25. Entries'
  <2> SUFFICES /\ \A x \in Range(lru'[n]) : Awake(x)' /\ ~rt'[x].disposed
               /\ \A t \in Sessions : inflight'[n][t] # Nobody =>
                    /\ rt'[inflight'[n][t]].phase \notin {"unused", "awake"}
                    /\ rt'[inflight'[n][t]].sess = t
                    /\ rt'[inflight'[n][t]].node = n
               /\ up'[n] # "up" => /\ reap'[n].left = <<>>
                                   /\ \A t \in Sessions : mail'[n][t] = "none"
    BY <1>2 DEF Entries, Waken
  <2>1. ASSUME NEW x \in Range(lru'[n]) PROVE Awake(x)' /\ ~rt'[x].disposed
    <3>1. CASE x = r BY <1>11, <1>15, <3>1 DEF Awake
    <3>2. CASE x # r
      <4>1. x \in Range(lru[n]) /\ x \notin V BY <1>5, <1>21, <3>2
      <4>2. rt'[x] = rt[x] BY <1>12, <1>15, <3>2, <4>1
      <4> QED BY <4>1, <4>2 DEF Memory, Entries, Awake
    <3> QED BY <3>1, <3>2
  <2>2. ASSUME NEW t \in Sessions, inflight'[n][t] # Nobody
        PROVE  /\ rt'[inflight'[n][t]].phase \notin {"unused", "awake"}
               /\ rt'[inflight'[n][t]].sess = t
               /\ rt'[inflight'[n][t]].node = n
    <3>1. t # s /\ inflight'[n][t] = inflight[n][t] BY <1>21, <2>2
    <3>2. inflight[n][t] \in Runtimes BY <2>2, <3>1 DEF MemoryTypes
    <3>3. Waken(inflight[n][t]) /\ rt[inflight[n][t]].sess = t /\ rt[inflight[n][t]].node = n
      BY <2>2, <3>1 DEF Memory, Entries
    <3>4. inflight[n][t] # r /\ inflight[n][t] \notin V
      BY <1>13, <3>1, <3>3 DEF Waken, Awake
    <3>5. rt'[inflight[n][t]] = rt[inflight[n][t]] BY <1>15, <3>2, <3>4
    <3> QED BY <3>1, <3>3, <3>5 DEF Waken
  <2>3. up'[n] # "up" => /\ reap'[n].left = <<>>
                         /\ \A t \in Sessions : mail'[n][t] = "none"
    BY <1>1, <1>10, <1>19 DEF Shape, Waken
  <2> QED BY <2>1, <2>2, <2>3
<1>26. Memory' BY <1>23, <1>24, <1>25 DEF Memory
<1>27. Mails'
  <2> SUFFICES ASSUME NEW t \in Sessions, mail'[n][t] # "none"
               PROVE  /\ row'[t].status # "terminated"
                      /\ \A x \in Runtimes : rt'[x].sess = t => rt'[x].turn = "none"
    BY <1>2 DEF Mails
  <2>1. mail[n][t] # "none" BY <1>21
  <2>2. /\ row[t].status # "terminated"
        /\ \A x \in Runtimes : rt[x].sess = t => rt[x].turn = "none"
    BY <2>1 DEF Mails
  <2>3. row'[t].status # "terminated"
    <3>1. CASE t = s BY <1>18, <3>1
    <3>2. CASE t # s BY <1>18, <2>2, <3>2
    <3> QED BY <3>1, <3>2
  <2>4. ASSUME NEW x \in Runtimes, rt'[x].sess = t PROVE rt'[x].turn = "none"
    <3>1. CASE x = r BY <1>11, <1>15, <1>21, <2>4, <3>1
    <3>2. CASE x \in V BY <1>14, <3>2 DEF Blank
    <3>3. CASE x # r /\ x \notin V BY <1>15, <2>2, <2>4, <3>3
    <3> QED BY <3>1, <3>2, <3>3
  <2> QED BY <2>3, <2>4
<1>28. Ended(s) => Ended(s)' BY <1>18 DEF Lasting
<1>29. Recorded(s)' BY <1>10, <1>18, <1>19, <1>28 DEF Recorded
<1>30. Sound(r)'
  BY <1>1, <1>10, <1>11, <1>15, <1>18, <1>28 DEF Sound
<1>31. Backing'
  <2>1. ASSUME NEW x \in Runtimes, rt'[x].phase # "unused"
        PROVE  \/ rt'[x].sess = s /\ Sound(x)'
               \/ rt[x].sess # s /\ Same(x)
    <3>1. CASE x = r BY <1>11, <1>15, <1>30, <3>1
    <3>2. CASE x # r
      <4>1. rt[x].sess # s BY <1>1, <1>22, <2>1, <3>2 DEF Memory, Single, Waken
      <4>2. CASE x \in V BY <1>13, <1>14, <2>1, <4>1, <4>2 DEF Same, Awake, Blank
      <4>3. CASE x \notin V BY <1>15, <3>2, <4>1, <4>3 DEF Same
      <4> QED BY <4>2, <4>3
    <3> QED BY <3>1, <3>2
  <2> QED BY <1>20, <1>29, <2>1, BackingKept
<1>32. Buried' BY <1>18, <1>19, BuriedKept
<1> QED BY <1>16, <1>20, <1>26, <1>27, <1>31, <1>32

(* The idle timer. *)
LEMMA EvictIdleKeeps ==
  ASSUME Alone, Calm, IInv, NEW n \in Nodes, NEW s \in Sessions, EvictIdle(n, s) PROVE IInv'
<1> USE DEF IInv, Types
<1>1. PICK r \in Range(lru[n]) : r = Holder(n, s) /\ rt[r].sess = s
  BY DEF EvictIdle, Holder, Holders
<1>2. \A m \in Nodes : m = n BY DEF Alone
<1>3. r \in Runtimes BY DEF MemoryTypes, Range
<1>4. Awake(r) /\ ~rt[r].disposed BY DEF Memory, Entries
<1>5. Quiet({r}) BY <1>1 DEF EvictIdle
<1>6. rt[r].turn = "none" /\ rt[r].poll = "none" BY <1>5, QuietRest
<1> DEFINE o == Disposed(rt[r])
<1>7. rt' = [rt EXCEPT ![r] = o] /\ lru' = [lru EXCEPT ![n] = Without(lru[n], r)]
  BY <1>1 DEF EvictIdle
<1>8. UNCHANGED <<row, vm, graves, inflight, mail, up, boots, reap, crashes>>
  BY DEF EvictIdle, store, process
<1>9. /\ o \in Object
      /\ \/ o = Blank
         \/ /\ o.node = rt[r].node /\ o.sess = s /\ o.phase = "awake"
            /\ o.turn = "none" /\ o.poll = "none" /\ o.stop = "stopping" /\ o.disposed
  BY <1>1, <1>3, <1>4, <1>6, EvictedForm DEF MemoryTypes, Awake
<1> HIDE DEF o
<1>10. Without(lru[n], r) \in Seq(Runtimes) /\ Range(Without(lru[n], r)) = Range(lru[n]) \ {r}
  BY WithoutKeeps DEF MemoryTypes
<1>11. rt'[r] = o /\ \A x \in Runtimes : x # r => rt'[x] = rt[x]
  BY <1>3, <1>7 DEF MemoryTypes
<1>12. lru'[n] = Without(lru[n], r) BY <1>7 DEF MemoryTypes
<1>13. MemoryTypes' BY <1>7, <1>8, <1>9, <1>10 DEF MemoryTypes
<1>14. \A x \in Runtimes : rt'[x].phase # "unused" =>
         /\ rt[x].phase # "unused" /\ rt'[x].sess = rt[x].sess /\ rt'[x].node = rt[x].node
         /\ rt'[x].phase = rt[x].phase /\ rt'[x].turn = rt[x].turn /\ rt'[x].poll = rt[x].poll
  BY <1>1, <1>3, <1>4, <1>6, <1>9, <1>11 DEF Awake, Blank
<1>15. Single' BY <1>14 DEF Memory, Single
<1>16. ASSUME NEW x \in Runtimes PROVE Shape(x)' /\ Known(x)'
  <2>1. Shape(x) /\ Known(x) BY DEF Memory
  <2>2. CASE x # r
    <3>1. rt'[x] = rt[x] BY <1>11, <2>2
    <3>2. Shape(x)' BY <1>8, <2>1, <3>1 DEF Shape, Waken
    <3>3. Awake(x) => rt[x].node = n BY <1>2, <2>1 DEF Shape, Awake
    <3>4. Known(x)' BY <1>8, <1>10, <1>12, <2>1, <2>2, <3>1, <3>3 DEF Known, Waken, Awake
    <3> QED BY <3>2, <3>4
  <2>3. CASE x = r /\ o = Blank
    BY <1>11, <2>3 DEF Shape, Known, Waken, Awake, Blank
  <2>4. CASE x = r /\ o # Blank
    BY <1>1, <1>4, <1>8, <1>9, <1>11, <2>1, <2>4 DEF Shape, Known, Waken, Awake
  <2> QED BY <2>2, <2>3, <2>4
<1>17. Entries'
  <2> SUFFICES /\ \A x \in Range(lru'[n]) : Awake(x)' /\ ~rt'[x].disposed
               /\ \A t \in Sessions : inflight'[n][t] # Nobody =>
                    /\ rt'[inflight'[n][t]].phase \notin {"unused", "awake"}
                    /\ rt'[inflight'[n][t]].sess = t
                    /\ rt'[inflight'[n][t]].node = n
               /\ up'[n] # "up" => /\ reap'[n].left = <<>>
                                   /\ \A t \in Sessions : mail'[n][t] = "none"
    BY <1>2 DEF Entries, Waken
  <2>1. ASSUME NEW x \in Range(lru'[n]) PROVE Awake(x)' /\ ~rt'[x].disposed
    <3>1. x \in Range(lru[n]) /\ x # r BY <1>10, <1>12
    <3>2. x \in Runtimes BY <3>1 DEF MemoryTypes, Range
    <3> QED BY <1>11, <3>1, <3>2 DEF Memory, Entries, Awake
  <2>2. ASSUME NEW t \in Sessions, inflight'[n][t] # Nobody
        PROVE  /\ rt'[inflight'[n][t]].phase \notin {"unused", "awake"}
               /\ rt'[inflight'[n][t]].sess = t
               /\ rt'[inflight'[n][t]].node = n
    <3>1. inflight[n][t] \in Runtimes BY <1>8, <2>2 DEF MemoryTypes
    <3>2. Waken(inflight[n][t]) /\ rt[inflight[n][t]].sess = t /\ rt[inflight[n][t]].node = n
      BY <1>8, <2>2 DEF Memory, Entries
    <3>3. rt'[inflight[n][t]] = rt[inflight[n][t]]
      BY <1>4, <1>11, <3>1, <3>2 DEF Waken, Awake
    <3> QED BY <1>8, <3>2, <3>3 DEF Waken
  <2>3. up'[n] # "up" => /\ reap'[n].left = <<>>
                         /\ \A t \in Sessions : mail'[n][t] = "none"
    BY <1>8 DEF Memory, Entries
  <2> QED BY <2>1, <2>2, <2>3
<1>18. Memory' BY <1>15, <1>16, <1>17 DEF Memory
<1>19. Mails'
  <2>1. \A x \in Runtimes : rt'[x].turn = "none" \/ rt'[x] = rt[x] BY <1>9, <1>11 DEF Blank
  <2> QED BY <1>8, <2>1 DEF Mails
<1>20. Elsewhere(s) /\ Lasting /\ StoreTypes' /\ ProcessTypes' /\ \A t \in Range(graves') : Ended(t)'
  BY <1>8 DEF Elsewhere, Lasting, Ended, StoreTypes, ProcessTypes, Buried
<1>21. Backing'
  <2>1. Recorded(s)' BY <1>8 DEF Backing, Recorded, Ended
  <2>2. Sound(r) BY <1>3, <1>4 DEF Backing, Awake
  <2>3. rt'[r].phase # "unused" => Sound(r)'
    BY <1>3, <1>8, <1>14, <2>2 DEF Sound, Ended, Waken
  <2>4. ASSUME NEW x \in Runtimes, rt'[x].phase # "unused"
        PROVE  \/ rt'[x].sess = s /\ Sound(x)'
               \/ rt[x].sess # s /\ Same(x)
    <3>1. CASE x = r BY <1>1, <1>14, <2>3, <2>4, <3>1
    <3>2. CASE x # r
      <4>1. rt[x].sess # s BY <1>1, <1>3, <1>4, <1>14, <2>4, <3>2 DEF Memory, Single, Awake
      <4> QED BY <1>11, <3>2, <4>1 DEF Same
    <3> QED BY <3>1, <3>2
  <2> QED BY <1>20, <2>1, <2>4, BackingKept
<1>22. Buried' BY <1>8, <1>20, BuriedKept
<1> QED BY <1>13, <1>18, <1>19, <1>20, <1>21, <1>22

-----------------------------------------------------------------------------
(* Requests. *)

LEMMA PostMessageKeeps ==
  ASSUME Alone, IInv, NEW n \in Nodes, NEW s \in Sessions, PostMessage(n, s) PROVE IInv'
<1> USE DEF IInv, Types
<1>1. UNCHANGED <<row, vm, graves, rt, lru, inflight, up, boots, reap, crashes>>
  BY DEF PostMessage, store, process
<1>2. mail' = [mail EXCEPT ![n] = [mail[n] EXCEPT ![s] = "admitted"]]
  BY DEF PostMessage, MemoryTypes
<1>3. \A m \in Nodes : m = n BY DEF Alone
<1>4. mail'[n] = [mail[n] EXCEPT ![s] = "admitted"] BY <1>2 DEF MemoryTypes
<1>5. \A t \in Sessions : t # s => mail'[n][t] = mail[n][t] BY <1>4 DEF MemoryTypes
<1>6. StoreTypes' /\ ProcessTypes' BY <1>1 DEF StoreTypes, ProcessTypes
<1>7. MemoryTypes'
  <2>1. [mail[n] EXCEPT ![s] = "admitted"] \in [Sessions -> {"none", "admitted", "queued"}]
    BY DEF MemoryTypes
  <2> QED BY <1>1, <1>2, <2>1 DEF MemoryTypes
<1>8. Entries'
  <2>1. up[n] = "up" BY DEF PostMessage
  <2> QED BY <1>1, <1>3, <2>1 DEF Memory, Entries, Waken, Awake
<1>9. Memory' BY <1>1, <1>8 DEF Memory, Single, Shape, Known, Waken, Awake
<1>10. Mails'
  <2>1. row[s].status # "terminated" BY DEF PostMessage
  <2>2. ASSUME NEW x \in Runtimes, rt[x].sess = s PROVE rt[x].turn = "none"
    BY <2>2 DEF PostMessage, Of, Handling, Memory, Shape
  <2>3. ASSUME NEW t \in Sessions, mail'[n][t] # "none"
        PROVE  /\ row[t].status # "terminated"
               /\ \A x \in Runtimes : rt[x].sess = t => rt[x].turn = "none"
    BY <1>5, <2>1, <2>2, <2>3 DEF Mails
  <2> QED BY <1>1, <1>3, <2>3 DEF Mails
<1>11. Backing' BY <1>1 DEF Backing, Recorded, Sound, Ended, Waken
<1>12. Buried' BY <1>1 DEF Buried, Ended
<1> QED BY <1>6, <1>7, <1>9, <1>10, <1>11, <1>12

(* Nothing is written: what is known of rows and VMs stays. *)
LEMMA NothingWritten ==
  ASSUME IInv, UNCHANGED <<store, process>>
  PROVE  /\ UNCHANGED <<row, vm, graves, up, boots, reap, crashes>>
         /\ StoreTypes' /\ ProcessTypes' /\ Buried' /\ Lasting
         /\ \A s \in Sessions : Recorded(s)' /\ Elsewhere(s)
<1>1. UNCHANGED <<row, vm, graves, up, boots, reap, crashes>> BY DEF store, process
<1> QED
  BY <1>1 DEF IInv, Types, StoreTypes, ProcessTypes, Buried, Lasting, Ended, Backing, Recorded,
              Elsewhere

LEMMA HitKeeps ==
  ASSUME Alone, IInv, NEW n \in Nodes, NEW s \in Sessions, NEW message \in BOOLEAN,
         message => mail[n][s] # "none", GetOrCreateHit(n, s, message),
         UNCHANGED <<store, process>>
  PROVE  IInv'
<1> USE DEF IInv, Types
<1>1. PICK r \in Range(lru[n]) : r = Holder(n, s) /\ rt[r].sess = s
  BY DEF GetOrCreateHit, Holder, Holders
<1>2. \A m \in Nodes : m = n BY DEF Alone
<1>3. r \in Runtimes BY DEF MemoryTypes, Range
<1>4. Awake(r) /\ ~rt[r].disposed BY DEF Memory, Entries
<1>5. /\ UNCHANGED <<row, vm, graves, up, boots, reap, crashes>>
      /\ StoreTypes' /\ ProcessTypes' /\ Buried' /\ Lasting
      /\ \A t \in Sessions : Recorded(t)' /\ Elsewhere(t)
  BY NothingWritten
<1> DEFINE o == IF message THEN WithTurn(rt[r]) ELSE rt[r]
<1>6. /\ lru' = [lru EXCEPT ![n] = Last(lru[n], r)]
      /\ rt' = [rt EXCEPT ![r] = o]
      /\ mail' = [mail EXCEPT ![n] =
                    [mail[n] EXCEPT ![s] = IF message THEN "none" ELSE mail[n][s]]]
      /\ inflight' = inflight
  BY <1>1 DEF GetOrCreateHit, MemoryTypes
<1>7. Last(lru[n], r) \in Seq(Runtimes) /\ Range(Last(lru[n], r)) = Range(lru[n])
  <2>1. lru[n] \in Seq(Runtimes) BY DEF MemoryTypes
  <2>2. /\ Last(lru[n], r) \in Seq(Runtimes)
        /\ Range(Last(lru[n], r)) = Range(lru[n]) \cup {r}
    BY <1>3, <2>1, LastAdds
  <2>3. r \in Range(lru[n]) OBVIOUS
  <2> QED BY <2>2, <2>3
<1>8. rt[r] \in Object BY <1>3 DEF MemoryTypes
<1>9. /\ o \in Object /\ o.phase = rt[r].phase /\ o.node = rt[r].node /\ o.sess = rt[r].sess
      /\ o.disposed = rt[r].disposed /\ o.stop = rt[r].stop /\ o.poll = rt[r].poll
      /\ o.turn = IF message THEN "settling" ELSE rt[r].turn
  BY <1>8 DEF WithTurn, Object, Turns
<1> HIDE DEF o
<1>10. rt'[r] = o /\ \A x \in Runtimes : x # r => rt'[x] = rt[x] BY <1>3, <1>6 DEF MemoryTypes
<1>11. \A x \in Runtimes :
         /\ rt'[x].phase = rt[x].phase /\ rt'[x].node = rt[x].node /\ rt'[x].sess = rt[x].sess
         /\ rt'[x].disposed = rt[x].disposed /\ rt'[x].stop = rt[x].stop
         /\ rt'[x].poll = rt[x].poll
         /\ rt'[x].turn = rt[x].turn \/ (x = r /\ message /\ rt'[x].turn = "settling")
         /\ rt[x].phase = "unused" => rt'[x] = rt[x]
  BY <1>4, <1>9, <1>10 DEF Awake
<1>12. Range(lru'[n]) = Range(lru[n]) BY <1>6, <1>7 DEF MemoryTypes
<1>13. /\ mail'[n][s] = IF message THEN "none" ELSE mail[n][s]
       /\ \A t \in Sessions : t # s => mail'[n][t] = mail[n][t]
  BY <1>6 DEF MemoryTypes
<1>14. MemoryTypes'
  <2>1. [mail[n] EXCEPT ![s] = IF message THEN "none" ELSE mail[n][s]]
          \in [Sessions -> {"none", "admitted", "queued"}]
    BY DEF MemoryTypes
  <2> QED BY <1>6, <1>7, <1>9, <2>1 DEF MemoryTypes
<1>15. Single' BY <1>11 DEF Memory, Single
<1>16. ASSUME NEW x \in Runtimes PROVE Shape(x)' /\ Known(x)'
  <2>1. Shape(x) /\ Known(x) BY DEF Memory
  <2>2. Shape(x)' BY <1>4, <1>5, <1>11, <2>1 DEF Shape, Waken, Awake
  <2>3. Awake(x) => rt[x].node = n BY <1>2, <2>1 DEF Shape, Awake
  <2>4. Known(x)' BY <1>6, <1>11, <1>12, <2>1, <2>3 DEF Known, Waken, Awake
  <2> QED BY <2>2, <2>4
<1>17. Entries'
  <2>1. Range(lru[n]) \subseteq Runtimes BY DEF MemoryTypes, Range
  <2>2. \A t \in Sessions : inflight[n][t] # Nobody => inflight[n][t] \in Runtimes
    BY DEF MemoryTypes
  <2>3. \A t \in Sessions : mail[n][t] = "none" => mail'[n][t] = "none" BY <1>13
  <2> QED BY <1>2, <1>5, <1>6, <1>11, <1>12, <2>1, <2>2, <2>3 DEF Memory, Entries, Waken, Awake
<1>18. Memory' BY <1>15, <1>16, <1>17 DEF Memory
<1>19. Mails'
  <2> SUFFICES ASSUME NEW t \in Sessions, mail'[n][t] # "none"
               PROVE  /\ row[t].status # "terminated"
                      /\ \A x \in Runtimes : rt'[x].sess = t => rt'[x].turn = "none"
    BY <1>2, <1>5 DEF Mails
  <2>1. mail[n][t] # "none" /\ ~(t = s /\ message) BY <1>13
  <2> QED BY <1>1, <1>11, <2>1 DEF Mails
<1>20. Sound(r)'
  <2>1. Sound(r) BY <1>3, <1>4 DEF Backing, Awake
  <2>2. message => row[s].status # "terminated" BY DEF Mails
  <2>3. rt'[r].turn = rt[r].turn \/ (rt'[r].turn = "settling" /\ message) BY <1>3, <1>11
  <2> QED BY <1>1, <1>3, <1>4, <1>5, <1>11, <2>1, <2>2, <2>3 DEF Sound, Ended, Waken, Awake
<1>21. Backing'
  <2>1. ASSUME NEW x \in Runtimes, rt'[x].phase # "unused"
        PROVE  \/ rt'[x].sess = s /\ Sound(x)'
               \/ rt[x].sess # s /\ Same(x)
    <3>1. CASE x = r BY <1>1, <1>11, <1>20, <3>1
    <3>2. CASE x # r
      <4>1. rt[x].sess # s BY <1>1, <1>3, <1>4, <1>11, <2>1, <3>2 DEF Memory, Single, Awake
      <4> QED BY <1>10, <3>2, <4>1 DEF Same
    <3> QED BY <3>1, <3>2
  <2> QED BY <1>5, <2>1, BackingKept
<1> QED BY <1>5, <1>14, <1>18, <1>19, <1>21

LEMMA JoinKeeps ==
  ASSUME Alone, IInv, NEW n \in Nodes, NEW s \in Sessions, NEW message \in BOOLEAN,
         message => mail[n][s] # "none", GetOrCreateJoin(n, s, message),
         UNCHANGED <<store, process>>
  PROVE  IInv'
<1> USE DEF IInv, Types
<1>1. /\ UNCHANGED <<row, vm, graves, up, boots, reap, crashes>>
      /\ StoreTypes' /\ ProcessTypes' /\ Buried' /\ Lasting
      /\ \A t \in Sessions : Recorded(t)' /\ Elsewhere(t)
  BY NothingWritten
<1>2. UNCHANGED <<rt, lru, inflight>>
  /\ mail' = [mail EXCEPT ![n] =
                [mail[n] EXCEPT ![s] = IF message THEN "queued" ELSE mail[n][s]]]
  BY DEF GetOrCreateJoin, MemoryTypes
<1>3. \A m \in Nodes, t \in Sessions : mail'[m][t] # "none" <=> mail[m][t] # "none"
  <2> TAKE m \in Nodes, t \in Sessions
  <2>1. CASE m = n
    <3>1. mail'[m] = [mail[n] EXCEPT ![s] = IF message THEN "queued" ELSE mail[n][s]]
      BY <1>2, <2>1 DEF MemoryTypes
    <3> QED BY <2>1, <3>1 DEF MemoryTypes
  <2>2. CASE m # n BY <1>2, <2>2 DEF MemoryTypes
  <2> QED BY <2>1, <2>2
<1>4. [mail[n] EXCEPT ![s] = IF message THEN "queued" ELSE mail[n][s]]
         \in [Sessions -> {"none", "admitted", "queued"}]
  BY DEF MemoryTypes
<1>5. MemoryTypes' BY <1>2, <1>4 DEF MemoryTypes
<1>6. Memory'
  BY <1>1, <1>2, <1>3 DEF Memory, Single, Entries, Shape, Known, Waken, Awake
<1>7. Mails' BY <1>1, <1>2, <1>3 DEF Mails
<1>8. Backing' BY <1>1, <1>2 DEF Backing, Sound, Ended, Waken
<1> QED BY <1>1, <1>5, <1>6, <1>7, <1>8

LEMMA WakeBeginsKeeps ==
  ASSUME Alone, Calm, IInv, NEW n \in Nodes, NEW s \in Sessions, NEW message \in BOOLEAN,
         message => mail[n][s] # "none", up[n] = "up", row[s].status # "terminated",
         GetOrCreateWake(n, s, message), UNCHANGED <<store, process>>
  PROVE  IInv'
<1> USE DEF IInv, Types
<1>0. Nobody \notin Sessions /\ Nobody \notin Runtimes BY RegistryAssumption
<1>1. /\ UNCHANGED <<row, vm, graves, up, boots, reap, crashes>>
      /\ StoreTypes' /\ ProcessTypes' /\ Buried' /\ Lasting
      /\ \A t \in Sessions : Recorded(t)' /\ Elsewhere(t)
  BY NothingWritten
<1>2. \A m \in Nodes : m = n BY DEF Alone
<1> DEFINE o == [Blank EXCEPT !.node = n, !.sess = s, !.phase = "reading"]
<1>3. PICK r \in Runtimes :
        /\ rt[r] = Blank /\ rt' = [rt EXCEPT ![r] = o]
        /\ inflight' = [inflight EXCEPT ![n] = [inflight[n] EXCEPT ![s] = r]]
  BY DEF GetOrCreateWake, MemoryTypes
<1>4. /\ o \in Object /\ o.node = n /\ o.sess = s /\ o.phase = "reading" /\ o.turn = "none"
      /\ o.stop = "none" /\ o.poll = "none" /\ ~o.disposed
  BY DEF Blank, Object, Phases, Turns
<1> HIDE DEF o
<1>5. lru' = lru /\ mail' = [mail EXCEPT ![n] =
                [mail[n] EXCEPT ![s] = IF message THEN "queued" ELSE mail[n][s]]]
  BY DEF GetOrCreateWake, MemoryTypes
<1>6. \A t \in Sessions : mail'[n][t] # "none" <=> mail[n][t] # "none"
  <2>1. mail'[n] = [mail[n] EXCEPT ![s] = IF message THEN "queued" ELSE mail[n][s]]
    BY <1>5 DEF MemoryTypes
  <2> QED BY <2>1 DEF MemoryTypes
<1>7. rt'[r] = o /\ \A x \in Runtimes : x # r => rt'[x] = rt[x] BY <1>3 DEF MemoryTypes
<1>8. inflight'[n][s] = r /\ \A t \in Sessions : t # s => inflight'[n][t] = inflight[n][t]
  BY <1>3 DEF MemoryTypes
<1>9. MemoryTypes'
  <2>1. [mail[n] EXCEPT ![s] = IF message THEN "queued" ELSE mail[n][s]]
          \in [Sessions -> {"none", "admitted", "queued"}]
    BY DEF MemoryTypes
  <2>2. [inflight[n] EXCEPT ![s] = r] \in [Sessions -> Runtimes \cup {Nobody}]
    BY DEF MemoryTypes
  <2> QED BY <1>3, <1>4, <1>5, <2>1, <2>2 DEF MemoryTypes
<1>10. Holders(n, s) = {} /\ inflight[n][s] = Nobody /\ ~CheckpointRuns(s)
  BY DEF GetOrCreateWake, Calm
<1>11. ASSUME NEW x \in Runtimes, rt[x].phase # "unused", rt[x].sess = s PROVE FALSE
  <2>1. Shape(x) /\ Known(x) /\ rt[x].node = n BY <1>2, <1>11 DEF Memory, Shape
  <2>2. CASE Waken(x) BY <1>0, <1>10, <1>11, <2>1, <2>2 DEF Known
  <2>3. CASE ~Waken(x)
    <3>1. Awake(x) BY <1>11, <2>3 DEF Waken, Awake
    <3>2. CASE rt[x].disposed
      BY <1>10, <1>11, <2>1, <3>2 DEF Shape, CheckpointRuns, Of
    <3>3. CASE ~rt[x].disposed
      BY <1>10, <1>11, <2>1, <3>1, <3>3 DEF Known, Holders
    <3> QED BY <3>2, <3>3
  <2> QED BY <2>2, <2>3
<1>12. rt[r].phase = "unused" /\ rt[r].sess = Nobody BY <1>3 DEF Blank
<1>13. Single' BY <1>4, <1>7, <1>11 DEF Memory, Single
<1>14. ASSUME NEW x \in Runtimes PROVE Shape(x)' /\ Known(x)'
  <2>1. Shape(x) /\ Known(x) BY DEF Memory
  <2>2. CASE x = r BY <1>1, <1>4, <1>7, <1>8, <2>2 DEF Shape, Known, Waken, Awake
  <2>3. CASE x # r
    <3>1. rt'[x] = rt[x] BY <1>7, <2>3
    <3>2. Shape(x)' BY <1>1, <2>1, <3>1 DEF Shape, Waken
    <3>3. rt[x].phase # "unused" =>
            rt[x].sess \in Sessions /\ rt[x].sess # s /\ rt[x].node = n
      BY <1>2, <1>11, <2>1 DEF Shape
    <3>4. Known(x)' BY <1>2, <1>5, <1>8, <2>1, <3>1, <3>3 DEF Known, Waken, Awake
    <3> QED BY <3>2, <3>4
  <2> QED BY <2>2, <2>3
<1>15. Entries'
  <2> SUFFICES /\ \A x \in Range(lru'[n]) : Awake(x)' /\ ~rt'[x].disposed
               /\ \A t \in Sessions : inflight'[n][t] # Nobody =>
                    /\ rt'[inflight'[n][t]].phase \notin {"unused", "awake"}
                    /\ rt'[inflight'[n][t]].sess = t
                    /\ rt'[inflight'[n][t]].node = n
               /\ up'[n] # "up" => /\ reap'[n].left = <<>>
                                   /\ \A t \in Sessions : mail'[n][t] = "none"
    BY <1>2 DEF Entries, Waken
  <2>1. ASSUME NEW x \in Range(lru'[n]) PROVE Awake(x)' /\ ~rt'[x].disposed
    <3>1. x \in Range(lru[n]) /\ x \in Runtimes BY <1>5 DEF MemoryTypes, Range
    <3>2. Awake(x) /\ ~rt[x].disposed BY <3>1 DEF Memory, Entries
    <3> QED BY <1>7, <1>12, <3>1, <3>2 DEF Awake
  <2>2. ASSUME NEW t \in Sessions, inflight'[n][t] # Nobody
        PROVE  /\ rt'[inflight'[n][t]].phase \notin {"unused", "awake"}
               /\ rt'[inflight'[n][t]].sess = t
               /\ rt'[inflight'[n][t]].node = n
    <3>1. CASE t = s BY <1>4, <1>7, <1>8, <3>1
    <3>2. CASE t # s
      <4>1. inflight'[n][t] = inflight[n][t] BY <1>8, <3>2
      <4>2. inflight[n][t] \in Runtimes BY <2>2, <4>1 DEF MemoryTypes
      <4>3. Waken(inflight[n][t]) /\ rt[inflight[n][t]].sess = t /\ rt[inflight[n][t]].node = n
        BY <2>2, <4>1 DEF Memory, Entries
      <4>4. rt'[inflight[n][t]] = rt[inflight[n][t]]
        BY <1>7, <1>12, <4>2, <4>3 DEF Waken
      <4> QED BY <4>1, <4>3, <4>4 DEF Waken
    <3> QED BY <3>1, <3>2
  <2> QED BY <1>1, <2>1, <2>2
<1>16. Memory' BY <1>13, <1>14, <1>15 DEF Memory
<1>17. Mails'
  <2>1. \A x \in Runtimes : rt'[x].turn = "none" \/ rt'[x] = rt[x] BY <1>4, <1>7
  <2> QED BY <1>1, <1>2, <1>6, <2>1 DEF Mails
<1>18. Sound(r)' BY <1>1, <1>4, <1>7 DEF Sound
<1>19. Backing'
  <2>1. ASSUME NEW x \in Runtimes, rt'[x].phase # "unused"
        PROVE  \/ rt'[x].sess = s /\ Sound(x)'
               \/ rt[x].sess # s /\ Same(x)
    <3>1. CASE x = r BY <1>4, <1>7, <1>18, <3>1
    <3>2. CASE x # r BY <1>7, <1>11, <2>1, <3>2 DEF Same
    <3> QED BY <3>1, <3>2
  <2> QED BY <1>1, <2>1, BackingKept
<1> QED BY <1>1, <1>9, <1>16, <1>17, <1>19

LEMMA DeliverMessageKeeps ==
  ASSUME Alone, Calm, IInv, NEW n \in Nodes, NEW s \in Sessions, DeliverMessage(n, s)
  PROVE  IInv'
<1>1. mail[n][s] # "none" /\ up[n] = "up" /\ UNCHANGED <<store, process>> BY DEF DeliverMessage
<1>2. row[s].status # "terminated" BY <1>1 DEF IInv, Mails
<1> QED BY <1>1, <1>2, HitKeeps, JoinKeeps, WakeBeginsKeeps DEF DeliverMessage, GetOrCreate

LEMMA TouchKeeps ==
  ASSUME Alone, Calm, IInv, NEW n \in Nodes, NEW s \in Sessions, Touch(n, s) PROVE IInv'
<1>1. up[n] = "up" /\ UNCHANGED <<store, process>> BY DEF Touch
<1>2. row[s].status # "terminated" BY DEF Touch, Calm, Ended, Terminal
<1> QED BY <1>1, <1>2, HitKeeps, JoinKeeps, WakeBeginsKeeps DEF Touch, GetOrCreate

-----------------------------------------------------------------------------
(* Steps that leave the registry alone. *)

LEMMA RestKeepsMemory ==
  ASSUME IInv, UNCHANGED memory,
         \A n \in Nodes : /\ up[n] = "up" => up'[n] = "up"
                          /\ up'[n] # "up" => reap'[n].left = <<>>
  PROVE  Memory' /\ MemoryTypes'
<1> USE DEF IInv, Types
<1>1. UNCHANGED <<rt, lru, inflight, mail>> BY DEF memory
<1>2. MemoryTypes' BY <1>1 DEF MemoryTypes
<1>3. Single' BY <1>1 DEF Memory, Single
<1>4. ASSUME NEW x \in Runtimes PROVE Shape(x)' /\ Known(x)'
  <2>1. Shape(x) /\ Known(x) BY DEF Memory
  <2>2. Shape(x)' BY <1>1, <2>1 DEF Shape, Waken
  <2>3. Known(x)' BY <1>1, <2>1 DEF Known, Waken, Awake
  <2> QED BY <2>2, <2>3
<1>5. Entries' BY <1>1 DEF Memory, Entries, Waken, Awake
<1> QED BY <1>2, <1>3, <1>4, <1>5 DEF Memory

LEMMA RestKeepsMails ==
  ASSUME IInv, UNCHANGED memory,
         \A t \in Sessions : row'[t].status = "terminated" => row[t].status = "terminated"
  PROVE  Mails'
BY DEF IInv, Mails, memory

LEMMA ArchiveKeeps ==
  ASSUME IInv, NEW n \in Nodes, NEW s \in Sessions, Archive(n, s) PROVE IInv'
<1> USE DEF IInv, Types
<1>1. UNCHANGED memory /\ UNCHANGED <<vm, up, boots, reap, crashes>> BY DEF Archive, process
<1>2. /\ row' \in [Sessions -> Column] /\ graves' \in Seq(Sessions)
      /\ \A t \in Sessions : t # s => row'[t] = row[t]
      /\ row'[s].handle = row[s].handle
      /\ row'[s].status = IF Archived(s) THEN "archived" ELSE "archived"
      /\ \A t \in Range(graves') : Ended(t)'
      /\ Lasting
  BY StatusWrites DEF Archive, Terminal
<1>3. StoreTypes' /\ ProcessTypes' BY <1>1, <1>2 DEF StoreTypes, ProcessTypes
<1>4. Memory' /\ MemoryTypes' BY <1>1, RestKeepsMemory DEF Memory, Entries
<1>5. Mails' BY <1>1, <1>2, RestKeepsMails
<1>6. Buried' BY <1>1, <1>2, BuriedKept
<1>7. Ended(s)' BY <1>2 DEF Ended, Terminal
<1>8. Recorded(s)' BY <1>1, <1>7 DEF Backing, Recorded
<1>9. \A x \in Runtimes : rt[x].sess = s => Sound(x)' BY <1>1, <1>2, <1>7 DEF Sound, memory
<1>10. Elsewhere(s) BY <1>1, <1>2 DEF Elsewhere
<1>11. Backing' BY <1>1, <1>8, <1>9, <1>10, BackingKept DEF Same, memory
<1> QED BY <1>3, <1>4, <1>5, <1>6, <1>11

LEMMA WorksKeeps == ASSUME IInv, NEW r \in Runtimes, TurnWorks(r) PROVE IInv'
<1> USE DEF IInv, Types
<1>1. Turning(r, "driving") BY DEF TurnWorks
<1>2. Awake(r) /\ rt[r].sess \in Sessions BY <1>1, Active DEF Turning
<1> PICK s \in Sessions : s = rt[r].sess BY <1>2
<1>3. UNCHANGED memory /\ UNCHANGED <<row, graves, up, boots, reap, crashes>>
  BY DEF TurnWorks, process
<1> DEFINE m == [vm[s] EXCEPT !.worked = TRUE]
<1>4. vm[s] \in Machine BY DEF StoreTypes
<1>5. m \in Machine /\ m.worked /\ m.state = "running" BY <1>4 DEF TurnWorks, Machine
<1>6. vm' = [vm EXCEPT ![s] = m] BY DEF TurnWorks
<1> HIDE DEF m
<1>7. /\ vm'[s] = m /\ Elsewhere(s) /\ Lasting /\ StoreTypes'
      /\ \A t \in Range(graves') : Ended(t)'
  BY <1>3, <1>5, <1>6, VmWrites
<1>8. ProcessTypes' BY <1>3 DEF ProcessTypes
<1>9. Memory' /\ MemoryTypes' BY <1>3, RestKeepsMemory DEF Memory, Entries
<1>10. Mails' BY <1>3, RestKeepsMails
<1>11. Buried' BY <1>3, <1>7, BuriedKept
<1>12. Sound(r) BY <1>2 DEF Backing, Awake
<1>13. Recorded(s)' BY <1>2, <1>3, <1>5, <1>7, <1>12 DEF Recorded, Sound, Ended, Awake
<1>14. rt[r].poll = "provisioning" /\ ~Ended(s) => vm[s].state = "crashed"
  BY <1>12 DEF Sound
<1>15. Sound(r)'
  BY <1>2, <1>3, <1>5, <1>7, <1>12, <1>14 DEF Sound, Ended, memory, Waken, Awake, TurnWorks
<1>16. \A x \in Runtimes : rt[x].phase # "unused" /\ rt[x].sess = s => x = r
  BY <1>2 DEF Memory, Single, Awake
<1>17. Backing' BY <1>3, <1>7, <1>13, <1>15, <1>16, BackingKept DEF Same, memory
<1> QED BY <1>7, <1>8, <1>9, <1>10, <1>11, <1>17

LEMMA VmCrashesKeeps == ASSUME IInv, NEW s \in Sessions, VmCrashes(s) PROVE IInv'
<1> USE DEF IInv, Types
<1>1. UNCHANGED memory /\ UNCHANGED <<row, graves, up, boots, reap>> /\ crashes' = crashes + 1
  BY DEF VmCrashes
<1> DEFINE m == [vm[s] EXCEPT !.state = "crashed"]
<1>2. vm[s] \in Machine BY DEF StoreTypes
<1>3. m \in Machine /\ m.worked = vm[s].worked /\ m.state = "crashed" BY <1>2 DEF Machine
<1>4. vm' = [vm EXCEPT ![s] = m] BY DEF VmCrashes
<1> HIDE DEF m
<1>5. /\ vm'[s] = m /\ Elsewhere(s) /\ Lasting /\ StoreTypes'
      /\ \A t \in Range(graves') : Ended(t)'
  BY <1>1, <1>3, <1>4, VmWrites
<1>6. ProcessTypes' BY <1>1 DEF ProcessTypes
<1>7. Memory' /\ MemoryTypes' BY <1>1, RestKeepsMemory DEF Memory, Entries
<1>8. Mails' BY <1>1, RestKeepsMails
<1>9. Buried' BY <1>1, <1>5, BuriedKept
<1>10. Recorded(s)'
  <2>1. Recorded(s) BY DEF Backing
  <2> QED BY <1>1, <1>3, <1>5, <2>1 DEF Recorded, Ended
<1>11. ASSUME NEW x \in Runtimes, rt[x].phase # "unused", rt[x].sess = s PROVE Sound(x)'
  <2>1. Sound(x) BY <1>11 DEF Backing
  <2> QED BY <1>1, <1>3, <1>5, <1>11, <2>1 DEF Sound, Ended, memory, Waken
<1>12. Backing' BY <1>1, <1>5, <1>10, <1>11, BackingKept DEF Same, memory
<1> QED BY <1>5, <1>6, <1>7, <1>8, <1>9, <1>12

LEMMA LeaseElapsesKeeps == ASSUME IInv, NEW s \in Sessions, LeaseElapses(s) PROVE IInv'
<1> USE DEF IInv, Types
<1>1. UNCHANGED memory /\ UNCHANGED <<vm, graves, up, boots, reap, crashes>>
  BY DEF LeaseElapses, process
<1>2. row' = [row EXCEPT ![s] = [row[s] EXCEPT !.aged = TRUE]]
  BY DEF LeaseElapses, StoreTypes
<1>3. [row[s] EXCEPT !.aged = TRUE] \in Column BY DEF StoreTypes, Column
<1>4. row' \in [Sessions -> Column] BY <1>2, <1>3 DEF StoreTypes
<1>5. \A t \in Sessions : row'[t].status = row[t].status /\ row'[t].handle = row[t].handle
  BY <1>2 DEF StoreTypes, Column
<1>6. Lasting BY <1>5 DEF Lasting, Ended
<1>7. StoreTypes' /\ ProcessTypes' BY <1>1, <1>4 DEF StoreTypes, ProcessTypes
<1>8. Memory' /\ MemoryTypes' BY <1>1, RestKeepsMemory DEF Memory, Entries
<1>9. Mails' BY <1>1, <1>5, RestKeepsMails
<1>10. Range(graves) \subseteq Sessions BY DEF StoreTypes, Range
<1>11. Buried' BY <1>1, <1>6, <1>10, BuriedKept DEF Buried, Lasting
<1>12. ASSUME NEW x \in Runtimes, rt[x].phase # "unused" PROVE Sound(x)'
  <2>1. Sound(x) /\ rt[x].sess \in Sessions BY <1>12 DEF Backing, Memory, Shape
  <2> QED BY <1>1, <1>5, <2>1 DEF Sound, Ended, memory, Waken
<1>13. Backing' BY <1>1, <1>5, <1>12 DEF Backing, Recorded, Ended, memory
<1> QED BY <1>7, <1>8, <1>9, <1>11, <1>13

-----------------------------------------------------------------------------
(* The death of the instance and its boot. *)

(* Every runtime is of the one instance, and none is left while it is down. *)
LEMMA NoneWhileDown ==
  ASSUME Alone, IInv, NEW n \in Nodes
  PROVE  /\ \A x \in Runtimes : rt[x].node # n => rt[x] = Blank
         /\ up[n] # "up" => \A x \in Runtimes : rt[x] = Blank
BY DEF Alone, IInv, Memory, Shape

LEMMA KillKeeps == ASSUME Alone, IInv, NEW n \in Nodes, Kill(n) PROVE IInv'
<1> USE DEF IInv, Types
<1>1. UNCHANGED <<row, vm, graves, boots, crashes>> BY DEF Kill, store
<1>2. \A m \in Nodes : m = n BY DEF Alone
<1>3. rt' = [x \in Runtimes |-> Blank] BY NoneWhileDown DEF Kill
<1>4. /\ up' = [up EXCEPT ![n] = "down"]
      /\ lru' = [lru EXCEPT ![n] = <<>>]
      /\ inflight' = [inflight EXCEPT ![n] = [s \in Sessions |-> Nobody]]
      /\ mail' = [mail EXCEPT ![n] = [s \in Sessions |-> "none"]]
      /\ reap' = [reap EXCEPT ![n] = [left |-> <<>>, destroyed |-> FALSE]]
  BY DEF Kill
<1>5. /\ up'[n] = "down" /\ lru'[n] = <<>> /\ \A s \in Sessions : inflight'[n][s] = Nobody
      /\ \A s \in Sessions : mail'[n][s] = "none"
      /\ reap'[n].left = <<>> /\ ~reap'[n].destroyed
  BY <1>4 DEF MemoryTypes, ProcessTypes
<1>6. Blank \in Object BY DEF Blank, Object, Phases, Turns
<1>7. MemoryTypes' BY <1>3, <1>4, <1>6 DEF MemoryTypes
<1>8. StoreTypes' BY <1>1 DEF StoreTypes
<1>9. ProcessTypes' BY <1>1, <1>4 DEF ProcessTypes
<1>10. Range(<<>>) = {} BY DEF Range
<1>11. \A x \in Runtimes : rt'[x] = Blank BY <1>3
<1>12. \A x \in Runtimes : rt'[x].phase = "unused" /\ rt'[x].turn = "none"
                           /\ rt'[x].stop = "none" /\ ~rt'[x].disposed
  BY <1>11 DEF Blank
<1>13. Single' BY <1>12 DEF Single
<1>14. \A x \in Runtimes : Shape(x)' /\ Known(x)'
  BY <1>11, <1>12 DEF Shape, Known, Waken, Awake
<1>15. Entries' BY <1>2, <1>5, <1>10 DEF Entries
<1>16. Memory' BY <1>13, <1>14, <1>15 DEF Memory
<1>17. Mails' BY <1>2, <1>5 DEF Mails
<1>18. Backing' BY <1>1, <1>12 DEF Backing, Recorded, Ended
<1>19. Buried' BY <1>1, <1>2, <1>5, <1>10 DEF Buried, Ended
<1> QED BY <1>7, <1>8, <1>9, <1>16, <1>17, <1>18, <1>19

(* A boot rewrites rows of a store no runtime stands on. *)
LEMMA BootWrites ==
  ASSUME Alone, IInv, NEW n \in Nodes, up[n] # "up", UNCHANGED <<vm, graves, memory, reap,
         crashes>>,
         row' \in [Sessions -> Column], ProcessTypes',
         \A t \in Sessions :
           /\ row'[t].status = row[t].status
              \/ (row'[t].status = "idle" /\ row[t].status = "running")
           /\ row[t].handle => row'[t].handle
  PROVE  IInv'
<1> USE DEF IInv, Types
<1>1. Lasting /\ \A t \in Sessions : Ended(t)' => Ended(t) BY DEF Lasting, Ended, Terminal
<1>2. StoreTypes' BY DEF StoreTypes
<1>3. \A m \in Nodes : m = n BY DEF Alone
<1>4. reap[n].left = <<>> BY DEF Memory, Entries
<1>5. \A m \in Nodes : reap'[m].left = <<>> BY <1>3, <1>4
<1>6. \A m \in Nodes : up[m] # "up" BY <1>3
<1>7. Memory' /\ MemoryTypes' BY <1>5, <1>6, RestKeepsMemory
<1>8. Mails' BY RestKeepsMails
<1>9. Range(graves) \subseteq Sessions BY DEF StoreTypes, Range
<1>10. Buried' BY <1>1, <1>9, BuriedKept DEF Buried, Lasting
<1>11. \A x \in Runtimes : rt'[x].phase = "unused" BY NoneWhileDown DEF memory, Blank
<1>12. ASSUME NEW t \in Sessions PROVE Recorded(t)'
  BY <1>1 DEF Backing, Recorded, Lasting
<1>13. Backing' BY <1>11, <1>12 DEF Backing
<1> QED BY <1>2, <1>7, <1>8, <1>10, <1>13

LEMMA ReattachesKeeps == ASSUME Alone, IInv, NEW n \in Nodes, BootReattaches(n) PROVE IInv'
<1> USE DEF IInv, Types
<1>1. \A t \in Sessions : row[t] \in Column BY DEF StoreTypes
<1>2. \A t \in Sessions :
        /\ row'[t] \in Column /\ row'[t].status = row[t].status
        /\ row[t].handle => row'[t].handle
  BY <1>1 DEF BootReattaches, Column
<1>3. row' \in [Sessions -> Column] BY <1>2 DEF BootReattaches
<1>4. ProcessTypes'
  <2>1. boots[n] + 1 \in Nat BY DEF ProcessTypes
  <2> QED BY <2>1 DEF ProcessTypes, BootReattaches
<1>5. up[n] # "up" /\ UNCHANGED <<vm, graves, memory, reap, crashes>> BY DEF BootReattaches
<1> QED BY <1>2, <1>3, <1>4, <1>5, BootWrites

LEMMA ResetsKeeps == ASSUME Alone, IInv, NEW n \in Nodes, BootResets(n) PROVE IInv'
<1> USE DEF IInv, Types
<1>1. \A t \in Sessions : row[t] \in Column BY DEF StoreTypes
<1>2. InstanceId(n) \in Nodes \X Nat BY DEF InstanceId, ProcessTypes
<1>3. \A t \in Sessions :
        /\ row'[t] \in Column
        /\ row'[t].status = row[t].status
           \/ (row'[t].status = "idle" /\ row[t].status = "running")
        /\ row[t].handle => row'[t].handle
  <2> TAKE t \in Sessions
  <2>1. CASE Claims(n, t)
    <3>1. row'[t] = [row[t] EXCEPT !.status = "idle", !.owner = InstanceId(n)]
      BY <2>1 DEF BootResets
    <3> HIDE DEF InstanceId
    <3> QED BY <1>1, <1>2, <2>1, <3>1 DEF Column, Claims
  <2>2. CASE ~Claims(n, t)
    <3>1. row'[t] = row[t] BY <2>2 DEF BootResets
    <3> QED BY <1>1, <3>1
  <2> QED BY <2>1, <2>2
<1>4. row' \in [Sessions -> Column] BY <1>3 DEF BootResets
<1>5. ProcessTypes' BY DEF ProcessTypes, BootResets
<1>6. up[n] # "up" /\ UNCHANGED <<vm, graves, memory, reap, crashes>> BY DEF BootResets
<1> QED BY <1>3, <1>4, <1>5, <1>6, BootWrites

-----------------------------------------------------------------------------
(* The reaper. *)

(* What is left of a pass after it moved on to q. *)
LEMMA PassMoves ==
  ASSUME ProcessTypes, NEW n \in Nodes, NEW q \in Seq(Sessions), NEW d \in BOOLEAN,
         reap' = [reap EXCEPT ![n] = [left |-> q, destroyed |-> d]],
         UNCHANGED <<up, boots, crashes>>
  PROVE  /\ ProcessTypes' /\ reap'[n].left = q /\ reap'[n].destroyed = d
         /\ \A m \in Nodes : m # n => reap'[m] = reap[m]
BY DEF ProcessTypes

LEMMA PassForms ==
  ASSUME NEW p \in [left : Seq(Sessions), destroyed : BOOLEAN], NEW q
  PROVE  /\ [p EXCEPT !.left = q] = [left |-> q, destroyed |-> p.destroyed]
         /\ [p EXCEPT !.destroyed = TRUE] = [left |-> p.left, destroyed |-> TRUE]
<1>1. PICK l \in Seq(Sessions), d \in BOOLEAN : p = [left |-> l, destroyed |-> d] OBVIOUS
<1>2. p.left = l /\ p.destroyed = d BY <1>1
<1>3. [p EXCEPT !.left = q] = [left |-> q, destroyed |-> d] BY <1>1
<1>4. PICK e \in BOOLEAN : e = TRUE OBVIOUS
<1>5. [p EXCEPT !.destroyed = e] = [left |-> l, destroyed |-> e] BY <1>1
<1> QED BY <1>2, <1>3, <1>4, <1>5

LEMMA ListsKeeps == ASSUME IInv, NEW n \in Nodes, ReapLists(n) PROVE IInv'
<1> USE DEF IInv, Types
<1>1. UNCHANGED memory /\ UNCHANGED <<row, vm, graves, up, boots, crashes>>
  BY DEF ReapLists, store
<1>2. Reapable \in Seq(Sessions) /\ Range(Reapable) \subseteq Range(graves)
  BY Kept DEF Reapable, StoreTypes
<1> DEFINE k == IF Len(Reapable) < Batch THEN Len(Reapable) ELSE Batch
           q == SubSeq(Reapable, 1, k)
<1>3. k \in 0..Len(Reapable) BY <1>2, RegistryAssumption
<1>4. q \in Seq(Sessions) /\ Range(q) \subseteq Range(graves)
  <2> HIDE DEF k
  <2> QED BY <1>2, <1>3, PrefixRange
<1>5. ~reap[n].destroyed /\ up[n] = "up" BY DEF ReapLists, Buried
<1>6. reap' = [reap EXCEPT ![n] = [left |-> q, destroyed |-> FALSE]]
  <2>1. reap' = [reap EXCEPT ![n].left = q] BY DEF ReapLists
  <2> HIDE DEF q
  <2>2. reap[n] \in [left : Seq(Sessions), destroyed : BOOLEAN] BY DEF ProcessTypes
  <2>3. reap[n].destroyed = FALSE BY <1>5, <2>2
  <2>4. [reap[n] EXCEPT !.left = q] = [left |-> q, destroyed |-> FALSE]
    BY <2>2, <2>3, PassForms
  <2> QED BY <2>1, <2>4 DEF ProcessTypes
<1> HIDE DEF q
<1>7. /\ ProcessTypes' /\ reap'[n].left = q /\ reap'[n].destroyed = FALSE
      /\ \A m \in Nodes : m # n => reap'[m] = reap[m]
  BY <1>1, <1>4, <1>6, PassMoves
<1>8. StoreTypes' BY <1>1 DEF StoreTypes
<1>9. \A m \in Nodes : up'[m] # "up" => reap'[m].left = <<>>
  BY <1>1, <1>5, <1>7 DEF Memory, Entries
<1>10. Memory' /\ MemoryTypes' BY <1>1, <1>9, RestKeepsMemory
<1>11. Mails' BY <1>1, RestKeepsMails
<1>12. Buried' BY <1>1, <1>4, <1>7 DEF Buried, Ended
<1>13. Backing' BY <1>1 DEF Backing, Recorded, Sound, Ended, memory, Waken
<1> QED BY <1>7, <1>8, <1>10, <1>11, <1>12, <1>13

(* The session a pass is at has ended. *)
LEMMA AtEnded ==
  ASSUME IInv, NEW n \in Nodes, reap[n].left # <<>>
  PROVE  /\ reap[n].left \in Seq(Sessions) /\ Head(reap[n].left) \in Sessions
         /\ Ended(Head(reap[n].left)) /\ up[n] = "up"
         /\ Tail(reap[n].left) \in Seq(Sessions)
         /\ Range(Tail(reap[n].left)) \subseteq Range(reap[n].left)
<1>1. reap[n].left \in Seq(Sessions) BY DEF IInv, Types, ProcessTypes
<1> PICK q \in Seq(Sessions) : q = reap[n].left BY <1>1
<1>2. /\ Head(q) \in Range(q) /\ Head(q) \in Sessions
      /\ Tail(q) \in Seq(Sessions) /\ Range(Tail(q)) \subseteq Range(q)
  BY TailRange
<1> QED BY <1>1, <1>2 DEF IInv, Buried, Memory, Entries

LEMMA DestroysKeeps == ASSUME IInv, NEW n \in Nodes, ReapDestroys(n) PROVE IInv'
<1> USE DEF IInv, Types
<1>1. UNCHANGED memory /\ UNCHANGED <<row, graves, up, boots, crashes>> BY DEF ReapDestroys
<1>2. reap[n].left # <<>> /\ ~reap[n].destroyed BY DEF ReapDestroys
<1>3. PICK s \in Sessions : s = Head(reap[n].left) BY <1>2, AtEnded
<1>4. Ended(s) /\ up[n] = "up" BY <1>2, <1>3, AtEnded
<1>5. /\ reap[n] \in [left : Seq(Sessions), destroyed : BOOLEAN]
      /\ Tail(reap[n].left) \in Seq(Sessions)
      /\ Range(Tail(reap[n].left)) \subseteq Range(reap[n].left)
  BY <1>2, AtEnded DEF ProcessTypes
<1>6. vm[s] \in Machine BY DEF StoreTypes
<1>7. PICK q \in Seq(Sessions), d \in BOOLEAN, m \in Machine :
        /\ reap' = [reap EXCEPT ![n] = [left |-> q, destroyed |-> d]]
        /\ vm' = [vm EXCEPT ![s] = m]
        /\ Range(q) \subseteq Range(reap[n].left) /\ (d => q # <<>>)
        /\ m.state = "absent" => ~m.worked
  <2>1. CASE vm[s].state = "absent"
    <3>0. reap[n].destroyed = FALSE BY <1>2, <1>5
    <3>1. [reap[n] EXCEPT !.left = Tail(reap[n].left)]
            = [left |-> Tail(reap[n].left), destroyed |-> FALSE]
      BY <1>5, <3>0, PassForms
    <3>2. reap' = [reap EXCEPT ![n] = [left |-> Tail(reap[n].left), destroyed |-> FALSE]]
      BY <1>3, <2>1, <3>1 DEF ReapDestroys, ProcessTypes
    <3>3. vm' = [vm EXCEPT ![s] = vm[s]] BY <1>3, <2>1 DEF ReapDestroys, StoreTypes
    <3>4. ~vm[s].worked BY <2>1 DEF Backing, Recorded
    <3> QED BY <1>5, <1>6, <3>2, <3>3, <3>4
  <2>2. CASE vm[s].state # "absent"
    <3>1. [reap[n] EXCEPT !.destroyed = TRUE] = [left |-> reap[n].left, destroyed |-> TRUE]
      BY <1>5, PassForms
    <3>2. reap' = [reap EXCEPT ![n] = [left |-> reap[n].left, destroyed |-> TRUE]]
      BY <1>3, <2>2, <3>1 DEF ReapDestroys, ProcessTypes
    <3>3. vm' = [vm EXCEPT ![s] = NoVm] /\ NoVm \in Machine /\ ~NoVm.worked
      BY <1>3, <2>2 DEF ReapDestroys, NoVm, Machine
    <3> QED BY <1>2, <1>5, <3>2, <3>3
  <2> QED BY <2>1, <2>2
<1>8. /\ ProcessTypes' /\ reap'[n].left = q /\ reap'[n].destroyed = d
      /\ \A l \in Nodes : l # n => reap'[l] = reap[l]
  BY <1>1, <1>7, PassMoves
<1>9. /\ vm'[s] = m /\ Elsewhere(s) /\ Lasting /\ StoreTypes'
      /\ \A t \in Range(graves') : Ended(t)'
  BY <1>1, <1>7, VmWrites
<1>10. \A l \in Nodes : up'[l] # "up" => reap'[l].left = <<>>
  BY <1>1, <1>4, <1>8 DEF Memory, Entries
<1>11. Memory' /\ MemoryTypes' BY <1>1, <1>10, RestKeepsMemory
<1>12. Mails' BY <1>1, RestKeepsMails
<1>13. Buried' BY <1>1, <1>7, <1>8, <1>9 DEF Buried, Ended
<1>14. Recorded(s)' BY <1>1, <1>4, <1>7, <1>9 DEF Recorded, Ended
<1>15. ASSUME NEW x \in Runtimes, rt[x].phase # "unused", rt[x].sess = s PROVE Sound(x)'
  <2>1. Sound(x) BY <1>15 DEF Backing
  <2> QED BY <1>1, <1>4, <1>15, <2>1 DEF Sound, Ended, memory, Waken
<1>16. Backing' BY <1>1, <1>9, <1>14, <1>15, BackingKept DEF Same, memory
<1> QED BY <1>8, <1>9, <1>11, <1>12, <1>13, <1>16

LEMMA ClearsKeeps == ASSUME IInv, NEW n \in Nodes, ReapClears(n) PROVE IInv'
<1> USE DEF IInv, Types
<1>1. UNCHANGED memory /\ UNCHANGED <<vm, up, boots, crashes>> BY DEF ReapClears
<1>2. reap[n].left # <<>> BY DEF ReapClears
<1>3. PICK s \in Sessions : s = Head(reap[n].left) BY <1>2, AtEnded
<1>4. Ended(s) /\ up[n] = "up" BY <1>2, <1>3, AtEnded
<1>5. PICK q \in Seq(Sessions) :
        /\ q = Tail(reap[n].left) /\ Range(q) \subseteq Range(reap[n].left)
  BY <1>2, AtEnded
<1>6. reap' = [reap EXCEPT ![n] = [left |-> q, destroyed |-> FALSE]]
  BY <1>5 DEF ReapClears, ProcessTypes
<1>7. /\ ProcessTypes' /\ reap'[n].left = q /\ reap'[n].destroyed = FALSE
      /\ \A l \in Nodes : l # n => reap'[l] = reap[l]
  BY <1>1, <1>6, PassMoves
<1>8. row' = [row EXCEPT ![s] = [row[s] EXCEPT !.handle = FALSE]]
  BY <1>3 DEF ReapClears, StoreTypes
<1>9. [row[s] EXCEPT !.handle = FALSE] \in Column BY DEF StoreTypes, Column
<1>10. /\ row' \in [Sessions -> Column]
       /\ \A t \in Sessions : t # s => row'[t] = row[t]
       /\ row'[s].status = row[s].status
  BY <1>8, <1>9 DEF StoreTypes, Column
<1>11. graves' \in Seq(Sessions) /\ Range(graves') = Range(graves) \cup {s}
  BY <1>3, <1>4, LastAdds DEF ReapClears, StoreTypes
<1>12. StoreTypes' BY <1>1, <1>10, <1>11 DEF StoreTypes
<1>13. \A t \in Sessions : Ended(t)' = Ended(t) BY <1>10 DEF Ended
<1>14. Elsewhere(s) BY <1>1, <1>10 DEF Elsewhere
<1>15. \A l \in Nodes : up'[l] # "up" => reap'[l].left = <<>>
  BY <1>1, <1>4, <1>7 DEF Memory, Entries
<1>16. Memory' /\ MemoryTypes' BY <1>1, <1>15, RestKeepsMemory
<1>17. Mails' BY <1>1, <1>10, RestKeepsMails
<1>18. Buried'
  <2>1. /\ Range(graves) \subseteq Sessions
        /\ \A l \in Nodes : Range(reap[l].left) \subseteq Sessions
    BY DEF StoreTypes, ProcessTypes, Range
  <2> QED BY <1>4, <1>5, <1>7, <1>11, <1>13, <2>1 DEF Buried
<1>19. Recorded(s)' BY <1>1, <1>4, <1>13 DEF Backing, Recorded
<1>20. ASSUME NEW x \in Runtimes, rt[x].phase # "unused", rt[x].sess = s PROVE Sound(x)'
  <2>1. Sound(x) BY <1>20 DEF Backing
  <2> QED BY <1>1, <1>4, <1>10, <1>13, <1>20, <2>1 DEF Sound, memory, Waken
<1>21. Backing' BY <1>1, <1>14, <1>19, <1>20, BackingKept DEF Same, memory
<1> QED BY <1>7, <1>12, <1>16, <1>17, <1>18, <1>21

-----------------------------------------------------------------------------
(* Every step keeps the invariant. *)

LEMMA NextKeeps ==
  ASSUME Alone, Calm, IInv, [Next]_vars PROVE IInv'
<1>1. ASSUME NEW n \in Nodes, NEW s \in Sessions,
             PostMessage(n, s) \/ DeliverMessage(n, s) \/ Touch(n, s)
             \/ Archive(n, s) \/ EvictIdle(n, s)
      PROVE  IInv'
  BY <1>1, PostMessageKeeps, DeliverMessageKeeps, TouchKeeps, ArchiveKeeps, EvictIdleKeeps
<1>2. ASSUME NEW r \in Runtimes, WakeStep(r) PROVE IInv'
  BY <1>2, ReadsKeeps, WakeProbesKeeps, ProvisionsKeeps, WakeStartsVmKeeps, SavesHandleKeeps,
     WakeEndsKeeps DEF WakeStep
<1>3. ASSUME NEW r \in Runtimes, TurnStep(r) PROVE IInv'
  BY <1>3, SettlesStopKeeps, ProbesKeeps, TurnStartsVmKeeps, MarksRowKeeps, SettlesKeeps,
     TerminatesKeeps, EndsKeeps, WorksKeeps DEF TurnStep, TurnMoves
<1>4. ASSUME NEW r \in Runtimes, VmStep(r) PROVE IInv'
  BY <1>4, StopFiresKeeps, StopEndsKeeps, FindsCrashKeeps, PollProvisionsKeeps,
     PollSavesHandleKeeps DEF VmStep
<1>5. ASSUME NEW s \in Sessions, VmCrashes(s) \/ LeaseElapses(s) PROVE IInv'
  BY <1>5, VmCrashesKeeps, LeaseElapsesKeeps
<1>6. ASSUME NEW n \in Nodes, Kill(n) \/ BootStep(n) \/ ReapStep(n) PROVE IInv'
  BY <1>6, KillKeeps, ReattachesKeeps, ResetsKeeps, ListsKeeps, DestroysKeeps, ClearsKeeps
     DEF BootStep, ReapStep
<1>7. CASE UNCHANGED vars
  <2> USE <1>7 DEF vars, store, memory, process, IInv, Types
  <2>1. Types' BY DEF StoreTypes, MemoryTypes, ProcessTypes
  <2>2. (Single /\ Entries)' BY DEF Memory, Single, Entries, Waken, Awake
  <2>3. (\A r \in Runtimes : Shape(r) /\ Known(r))'
    BY DEF Memory, Shape, Known, Waken, Awake
  <2>4. Mails' BY DEF Mails
  <2>5. Backing' BY DEF Backing, Sound, Recorded, Ended, Waken, Awake
  <2>6. Buried' BY DEF Buried, Ended
  <2> QED BY <2>1, <2>2, <2>3, <2>4, <2>5, <2>6 DEF Memory
<1> QED BY <1>1, <1>2, <1>3, <1>4, <1>5, <1>6, <1>7 DEF Next

-----------------------------------------------------------------------------
(* Every step keeps the work. *)


LEMMA MachinesKeep ==
  ASSUME IInv, NEW s \in Sessions, NEW m, vm' = [vm EXCEPT ![s] = m],
         vm[s].worked /\ vm[s].state # "crashed" /\ ~Ended(s) => m.worked
  PROVE  Safe
<1>1. \A t \in Sessions : vm'[t] = IF t = s THEN m ELSE vm[t]
  BY DEF IInv, Types, StoreTypes
<1> QED BY <1>1 DEF Safe

LEMMA StandsStill == ASSUME UNCHANGED vm PROVE Safe
BY DEF Safe

LEMMA StartedSafe ==
  ASSUME IInv, NEW s \in Sessions, vm' = Started(s) PROVE Safe
<1>1. PICK m \in Machine :
        /\ Started(s) = [vm EXCEPT ![s] = m] /\ m.worked = vm[s].worked
        /\ m.state = IF vm[s].state = "stopped" THEN "running" ELSE vm[s].state
  BY StartedVm DEF IInv, Types
<1> QED BY <1>1, MachinesKeep

LEMMA ProvisionedSafe ==
  ASSUME IInv, NEW s \in Sessions, vm' = Provisioned(s),
         ~Ended(s) => ~vm[s].worked \/ vm[s].state = "crashed"
  PROVE  Safe
<1> DEFINE m == [state |-> "running", worked |-> FALSE]
<1>1. vm' = [vm EXCEPT ![s] = m] BY DEF Provisioned
<1> HIDE DEF m
<1> QED BY <1>1, MachinesKeep

LEMMA WakeSafe == ASSUME IInv, NEW r \in Runtimes, WakeStep(r) PROVE Safe
<1>1. CASE WakeReads(r) \/ WakeProbes(r) \/ WakeSavesHandle(r) \/ WakeEnds(r)
  BY <1>1, StandsStill DEF WakeReads, WakeProbes, WakeSavesHandle, WakeEnds, store
<1>2. CASE WakeProvisions(r)
  <2>1. Waken(r) /\ rt[r].sess \in Sessions BY <1>2, Waking1 DEF WakeProvisions, IInv
  <2>2. Sound(r) BY <2>1 DEF IInv, Backing, Waken
  <2> QED BY <1>2, <2>1, <2>2, ProvisionedSafe DEF WakeProvisions, Waking, Sound
<1>3. CASE WakeStartsVm(r)
  <2>1. rt[r].sess \in Sessions BY <1>3, Waking1 DEF WakeStartsVm, IInv
  <2>2. UNCHANGED vm \/ vm' = Started(rt[r].sess) BY <1>3 DEF WakeStartsVm
  <2> QED BY <2>1, <2>2, StandsStill, StartedSafe
<1> QED BY <1>1, <1>2, <1>3 DEF WakeStep

LEMMA TurnSafe == ASSUME IInv, NEW r \in Runtimes, TurnStep(r) PROVE Safe
<1>1. CASE \/ TurnSettlesStop(r) \/ TurnProbes(r) \/ TurnMarksRow(r)
           \/ TurnSettles(r) \/ TurnTerminates(r) \/ TurnEnds(r)
  BY <1>1, StandsStill DEF TurnSettlesStop, TurnProbes, TurnMarksRow, TurnSettles,
     TurnTerminates, TurnEnds, store
<1>2. CASE TurnStartsVm(r)
  <2>1. rt[r].sess \in Sessions BY <1>2, Active DEF TurnStartsVm, Turning, IInv
  <2> QED BY <1>2, <2>1, StartedSafe DEF TurnStartsVm
<1>3. CASE TurnWorks(r)
  <2>1. rt[r].sess \in Sessions BY <1>3, Active DEF TurnWorks, Turning, IInv
  <2> PICK s \in Sessions : s = rt[r].sess BY <2>1
  <2> DEFINE m == [vm[s] EXCEPT !.worked = TRUE]
  <2>2. vm[s] \in Machine BY DEF IInv, Types, StoreTypes
  <2>3. m.worked BY <2>2 DEF Machine
  <2>4. vm' = [vm EXCEPT ![s] = m] BY <1>3 DEF TurnWorks
  <2> HIDE DEF m
  <2> QED BY <2>3, <2>4, MachinesKeep
<1> QED BY <1>1, <1>2, <1>3 DEF TurnStep, TurnMoves

LEMMA VmSafe == ASSUME IInv, NEW r \in Runtimes, VmStep(r) PROVE Safe
<1>1. CASE StopFires(r) \/ PollFindsCrash(r) \/ PollSavesHandle(r)
  BY <1>1, StandsStill DEF StopFires, PollFindsCrash, PollSavesHandle, store
<1>2. CASE StopEnds(r)
  <2>1. rt[r].sess \in Sessions
    BY <1>2 DEF StopEnds, IInv, Memory, Shape, Blank
  <2> PICK s \in Sessions : s = rt[r].sess BY <2>1
  <2> DEFINE m == [vm[s] EXCEPT !.state = "stopped"]
  <2>2. vm[s] \in Machine BY DEF IInv, Types, StoreTypes
  <2>3. m.worked = vm[s].worked BY <2>2 DEF Machine
  <2>4. UNCHANGED vm \/ vm' = [vm EXCEPT ![s] = m] BY <1>2 DEF StopEnds
  <2> HIDE DEF m
  <2> QED BY <2>3, <2>4, MachinesKeep, StandsStill
<1>3. CASE PollProvisions(r)
  <2>1. rt[r].poll # "none" BY <1>3 DEF PollProvisions
  <2>2. Awake(r) /\ rt[r].sess \in Sessions BY <2>1, Active DEF IInv
  <2>3. Sound(r) BY <2>2 DEF IInv, Backing, Awake
  <2> QED BY <1>3, <2>2, <2>3, ProvisionedSafe DEF PollProvisions, Sound
<1> QED BY <1>1, <1>2, <1>3 DEF VmStep

LEMMA ReapSafe == ASSUME IInv, NEW n \in Nodes, ReapStep(n) PROVE Safe
<1>1. CASE ReapLists(n) \/ ReapClears(n)
  BY <1>1, StandsStill DEF ReapLists, ReapClears, store
<1>2. CASE ReapDestroys(n)
  <2>1. PICK s \in Sessions : s = Head(reap[n].left) /\ Ended(s)
    BY <1>2, AtEnded DEF ReapDestroys
  <2>2. UNCHANGED vm \/ vm' = [vm EXCEPT ![s] = NoVm] BY <1>2, <2>1 DEF ReapDestroys
  <2> QED BY <2>1, <2>2, MachinesKeep, StandsStill
<1> QED BY <1>1, <1>2 DEF ReapStep

LEMMA NextSafe == ASSUME IInv, [Next]_vars PROVE Safe
<1>1. ASSUME NEW n \in Nodes, NEW s \in Sessions,
             PostMessage(n, s) \/ DeliverMessage(n, s) \/ Touch(n, s)
             \/ Archive(n, s) \/ EvictIdle(n, s)
      PROVE  Safe
  BY <1>1, StandsStill DEF PostMessage, DeliverMessage, Touch, Archive, EvictIdle, store
<1>2. ASSUME NEW s \in Sessions, VmCrashes(s) \/ LeaseElapses(s) PROVE Safe
  <2>1. CASE LeaseElapses(s) BY <2>1, StandsStill DEF LeaseElapses
  <2>2. CASE VmCrashes(s)
    <3> DEFINE m == [vm[s] EXCEPT !.state = "crashed"]
    <3>1. vm[s] \in Machine BY DEF IInv, Types, StoreTypes
    <3>2. m.worked = vm[s].worked BY <3>1 DEF Machine
    <3>3. vm' = [vm EXCEPT ![s] = m] BY <2>2 DEF VmCrashes
    <3> HIDE DEF m
    <3> QED BY <3>2, <3>3, MachinesKeep
  <2> QED BY <1>2, <2>1, <2>2
<1>3. ASSUME NEW n \in Nodes, Kill(n) \/ BootStep(n) \/ ReapStep(n) PROVE Safe
  BY <1>3, StandsStill, ReapSafe DEF Kill, BootStep, BootReattaches, BootResets, store
<1>4. CASE UNCHANGED vars BY <1>4, StandsStill DEF vars, store
<1> QED BY <1>1, <1>2, <1>3, <1>4, WakeSafe, TurnSafe, VmSafe DEF Next

-----------------------------------------------------------------------------
(* The theorems.                                                            *)

(* The invariant holds in every reachable state.                            *)
LEMMA Invariant == ASSUME Alone, Calm PROVE Spec => []IInv
<1>1. Init => IInv BY InitHolds
<1>2. IInv /\ [Next]_vars => IInv' BY NextKeeps
<1> QED BY <1>1, <1>2, PTL DEF Spec

(* Rows, VMs, runtimes, the registry and the reaper's passes keep the shape *)
(* the code gives them, however often the instance dies and boots.          *)
THEOREM TypeCorrect == ASSUME Alone, Calm PROVE Spec => []TypeOK
<1>1. IInv => TypeOK
  BY DEF IInv, Types, StoreTypes, MemoryTypes, ProcessTypes, TypeOK, Column, Machine, Object
<1> QED BY <1>1, Invariant, PTL

(* While a turn is driven, its row says running and no checkpoint has       *)
(* stopped its VM: settleStop() is awaited before the VM is looked at, a    *)
(* runtime in a turn is not evicted, and a boot resets no row of a runtime. *)
THEOREM BackingCorrect == ASSUME Alone, Calm PROVE Spec => []TurnIsBacked
<1>1. IInv => TurnIsBacked
  <2> SUFFICES ASSUME IInv, NEW r \in Runtimes, rt[r].turn = "driving", ~Ended(rt[r].sess)
               PROVE  /\ row[rt[r].sess].status = "running"
                      /\ vm[rt[r].sess].state \in {"running", "crashed"}
    BY DEF TurnIsBacked
  <2>1. Awake(r) BY Active DEF IInv
  <2>2. Sound(r) BY <2>1 DEF IInv, Backing, Awake
  <2> QED BY <2>2 DEF Sound
<1> QED BY <1>1, Invariant, PTL

(* The files a turn left in a VM are never thrown away before the session   *)
(* has ended, unless the VM crashed: a wake provisions only when the row    *)
(* knows of no VM, and a row that knows of none has a VM without work.      *)
THEOREM WorkCorrect == ASSUME Alone, Calm PROVE Spec => WorkKept
<1>1. IInv /\ [Next]_vars => [\A s \in Sessions :
        vm[s].worked /\ vm[s].state # "crashed" /\ ~Ended(s) => vm'[s].worked]_vars
  BY NextSafe DEF Safe
<1> QED BY <1>1, Invariant, PTL DEF Spec, WorkKept

(* A terminated session stays terminated until it is archived: nothing that *)
(* writes idle or running over a row was begun for a terminated session, or *)
(* is still under way when it terminates.                                   *)
THEOREM TerminatedCorrect == ASSUME Alone, Calm PROVE Spec => TerminatedIsFinal
<1> DEFINE Final == \A s \in Sessions :
                      row[s].status = "terminated" => row'[s].status \in Terminal
<1>1. ASSUME IInv, UNCHANGED row PROVE Final BY <1>1 DEF Terminal
<1>2. ASSUME IInv, NEW s \in Sessions, NEW st \in {"idle", "running"} \cup Terminal,
             SaveStatus(s, st), row[s].status = "terminated" => st \in Terminal
      PROVE  Final
  <2>1. /\ \A t \in Sessions : t # s => row'[t] = row[t]
        /\ row'[s].status = IF Archived(s) THEN "archived" ELSE st
    BY <1>2, StatusWrites DEF IInv, Types
  <2> QED BY <1>2, <2>1 DEF Archived, Terminal
<1>3. ASSUME IInv, NEW s \in Sessions, PersistHandle(s) PROVE Final
  <2>1. CASE UNCHANGED row BY <1>1, <1>3, <2>1
  <2>2. CASE SaveHandle(s)
    <3>1. /\ \A t \in Sessions : t # s => row'[t] = row[t]
          /\ row'[s].status = row[s].status
      BY <1>3, <2>2, HandleWrites DEF IInv, Types
    <3> QED BY <3>1 DEF Terminal
  <2> QED BY <1>3, <2>1, <2>2 DEF PersistHandle
<1> HIDE DEF Final
<1>4. ASSUME IInv, NEW r \in Runtimes, WakeStep(r) PROVE Final
  <2>1. CASE WakeReads(r) \/ WakeProbes(r) \/ WakeProvisions(r) \/ WakeStartsVm(r)
    BY <1>1, <1>4, <2>1 DEF WakeReads, WakeProbes, WakeProvisions, WakeStartsVm, store
  <2>2. CASE WakeSavesHandle(r)
    <3>1. rt[r].sess \in Sessions BY <1>4, <2>2, Waking1 DEF WakeSavesHandle, IInv
    <3> QED BY <1>3, <1>4, <2>2, <3>1 DEF WakeSavesHandle
  <2>3. CASE WakeEnds(r)
    <3>1. Waking(r, "building") /\ SaveStatus(rt[r].sess, "idle") BY <2>3 DEF WakeEnds
    <3>2. Waken(r) /\ rt[r].sess \in Sessions BY <1>4, <3>1, Waking1 DEF IInv
    <3>3. row[rt[r].sess].status # "terminated"
      BY <1>4, <3>2 DEF IInv, Backing, Sound, Waken
    <3> QED BY <1>2, <1>4, <3>1, <3>2, <3>3
  <2> QED BY <1>4, <2>1, <2>2, <2>3 DEF WakeStep
<1>5. ASSUME IInv, NEW r \in Runtimes, TurnStep(r) PROVE Final
  <2>1. CASE TurnSettlesStop(r) \/ TurnProbes(r) \/ TurnStartsVm(r) \/ TurnEnds(r) \/ TurnWorks(r)
    BY <1>1, <1>5, <2>1 DEF TurnSettlesStop, TurnProbes, TurnStartsVm, TurnEnds, TurnWorks, store
  <2>2. CASE TurnMarksRow(r) \/ TurnSettles(r) \/ TurnTerminates(r)
    <3>1. rt[r].turn # "none" BY <2>2 DEF TurnMarksRow, TurnSettles, TurnTerminates, Turning
    <3>2. Awake(r) /\ rt[r].sess \in Sessions BY <1>5, <3>1, Active DEF IInv
    <3>3. row[rt[r].sess].status # "terminated"
      BY <1>5, <3>1, <3>2 DEF IInv, Backing, Sound, Awake
    <3>4. \E st \in {"idle", "running"} \cup Terminal : SaveStatus(rt[r].sess, st)
      BY <2>2 DEF TurnMarksRow, TurnSettles, TurnTerminates, Terminal
    <3> QED BY <1>2, <1>5, <3>2, <3>3, <3>4
  <2> QED BY <1>5, <2>1, <2>2 DEF TurnStep, TurnMoves
<1>6. ASSUME IInv, NEW r \in Runtimes, VmStep(r) PROVE Final
  <2>1. CASE StopFires(r) \/ StopEnds(r) \/ PollFindsCrash(r) \/ PollProvisions(r)
    BY <1>1, <1>6, <2>1 DEF StopFires, StopEnds, PollFindsCrash, PollProvisions, store
  <2>2. CASE PollSavesHandle(r)
    <3>1. rt[r].poll # "none" BY <2>2 DEF PollSavesHandle
    <3>2. rt[r].sess \in Sessions BY <1>6, <3>1, Active DEF IInv
    <3> QED BY <1>3, <1>6, <2>2, <3>2 DEF PollSavesHandle
  <2> QED BY <1>6, <2>1, <2>2 DEF VmStep
<1>7. ASSUME IInv, NEW n \in Nodes, Kill(n) \/ BootStep(n) \/ ReapStep(n) PROVE Final
  <2>1. CASE Kill(n) \/ ReapLists(n) \/ ReapDestroys(n)
    BY <1>1, <1>7, <2>1 DEF Kill, ReapLists, ReapDestroys, store
  <2>2. CASE BootStep(n)
    <3>1. \A t \in Sessions : row[t].status = "terminated" => row'[t] = row[t]
      BY <2>2 DEF BootStep, BootReattaches, BootResets, Claims
    <3> QED BY <3>1 DEF Final, Terminal
  <2>3. CASE ReapClears(n)
    <3>1. row' = [row EXCEPT ![Head(reap[n].left)].handle = FALSE] BY <2>3 DEF ReapClears
    <3>2. Head(reap[n].left) \in Sessions BY <1>7, <2>3, AtEnded DEF ReapClears
    <3>3. \A t \in Sessions : row'[t].status = row[t].status
      BY <1>7, <3>1, <3>2 DEF IInv, Types, StoreTypes, Column
    <3> QED BY <3>3 DEF Final, Terminal
  <2> QED BY <1>7, <2>1, <2>2, <2>3 DEF ReapStep
<1>8. ASSUME IInv, NEW n \in Nodes, NEW s \in Sessions,
             PostMessage(n, s) \/ DeliverMessage(n, s) \/ Touch(n, s)
             \/ Archive(n, s) \/ EvictIdle(n, s)
      PROVE  Final
  <2>1. CASE PostMessage(n, s) \/ DeliverMessage(n, s) \/ Touch(n, s) \/ EvictIdle(n, s)
    BY <1>1, <1>8, <2>1 DEF PostMessage, DeliverMessage, Touch, EvictIdle, store
  <2>2. CASE Archive(n, s) BY <1>2, <1>8, <2>2 DEF Archive, Terminal
  <2> QED BY <1>8, <2>1, <2>2
<1>9. ASSUME IInv, NEW s \in Sessions, VmCrashes(s) \/ LeaseElapses(s) PROVE Final
  <2>1. CASE VmCrashes(s) BY <1>1, <1>9, <2>1 DEF VmCrashes
  <2>2. CASE LeaseElapses(s)
    <3>1. row' = [row EXCEPT ![s].aged = TRUE] BY <2>2 DEF LeaseElapses
    <3>2. \A t \in Sessions : row'[t].status = row[t].status
      BY <1>9, <3>1 DEF IInv, Types, StoreTypes, Column
    <3> QED BY <3>2 DEF Final, Terminal
  <2> QED BY <1>9, <2>1, <2>2
<1>10. IInv /\ [Next]_vars => [\A s \in Sessions :
         row[s].status = "terminated" => row'[s].status \in Terminal]_vars
  BY <1>4, <1>5, <1>6, <1>7, <1>8, <1>9 DEF Next, Final
<1> QED BY <1>10, Invariant, PTL DEF Spec, TerminatedIsFinal

=============================================================================
