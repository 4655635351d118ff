------------------------- MODULE EventStreamProofs -------------------------
(***************************************************************************)
(* Proofs about the projection and the SSE stream, for any number of       *)
(* events, clients and outages, any page size, buffer and number of        *)
(* attempts.                                                               *)
(***************************************************************************)
EXTENDS EventStream, FiniteSetTheorems, TLAPS

WriterTypes ==
  /\ emitted \in 0..MaxEvents /\ chain \in Seq(Events) /\ tries \in 0..Attempts
  /\ reply \in Positions \cup {None}
  /\ pos \in [Events -> Positions \cup {None}]
  /\ awake \in BOOLEAN /\ outages \in 0..MaxOutages

ConnTypes ==
  /\ pc \in [Clients -> {"away", "reading", "frames", "head", "live"}]
  /\ cursor \in [Clients -> 0..(MaxEvents + 1)]
  /\ page \in [Clients -> SUBSET Entry] /\ more \in [Clients -> BOOLEAN]
  /\ sub \in [Clients -> {"none", "open", "closed"}]
  /\ buf \in [Clients -> Seq(Entry)] /\ \A c \in Clients : Len(buf[c]) <= MaxOutbound
  /\ lagFrom \in [Clients -> Positions \cup {None}]
  /\ hand \in [Clients -> Seq(Entry)] /\ \A c \in Clients : Len(hand[c]) <= 1

ClientTypes ==
  /\ lastId \in [Clients -> Positions \cup {None}]
  /\ got \in [Clients -> SUBSET Events]
  /\ told \in [Clients -> Positions \cup {None}]
  /\ excused \in [Clients -> SUBSET Positions]

Types == WriterTypes /\ ConnTypes /\ ClientTypes

-----------------------------------------------------------------------------
(* The writer.                                                              *)

Written == chain # <<>> /\ pos[Head(chain)] # None

(* The chain holds the newest events in order, and of those only its head   *)
(* can have a row.                                                          *)
ChainOrdered ==
  /\ \A i \in 1..Len(chain) : chain[i] <= emitted
  /\ \A i, j \in 1..Len(chain) : i < j => chain[i] < chain[j]
  /\ \A e \in Stored : e <= emitted /\ \A i \in 1..Len(chain) : e <= chain[i]
  /\ reply # None => Written /\ reply = pos[Head(chain)]

(* An event's position is below its number: positions stay in their range.  *)
PosBelow == \A e \in Stored : pos[e] < e

WriterInv == ChainOrdered /\ LogInEmitOrder /\ PosBelow

(* What a connection will still write lies above the client's last id.      *)
Ahead(c) ==
  pc[c] # "away" =>
    /\ lastId[c] < cursor[c]
    /\ pc[c] = "head" => lastId[c] = None
    /\ pc[c] # "frames" => page[c] = {}
    /\ \A x \in page[c] : x.at >= cursor[c]
    /\ \A x, y \in page[c] : x.at = y.at => x = y

-----------------------------------------------------------------------------
(* Facts about the operators of the model.                                  *)

LEMMA LeastNat ==
  ASSUME NEW T \in SUBSET Nat, T # {}
  PROVE  \E m \in T : \A n \in T : m <= n
<1> DEFINE R == {ss \in Nat \X Nat : ss[1] < ss[2]}
<1>1. R = OpToRel(<, Nat) BY DEF OpToRel
<1>2. IsWellFoundedOn(R, Nat) BY <1>1, NatLessThanWellFounded
<1>3. \E m \in T : \A n \in T : ~ (<<n, m>> \in R)
  <2> HIDE DEF R
  <2> QED BY <1>2, WFMin
<1>4. PICK m \in T : \A n \in T : ~ (<<n, m>> \in R) BY <1>3
<1>5. \A n \in T : ~ (n < m)
  <2> TAKE n \in T
  <2>1. <<n, m>> \notin R BY <1>4
  <2> QED BY <2>1
<1> QED BY <1>5

LEMMA Greatest ==
  ASSUME NEW n \in Nat, NEW S \in SUBSET (-1 .. n), S # {}
  PROVE  \E m \in S : \A k \in S : k <= m
<1> DEFINE T == {t \in Nat : n - t \in S}
<1>1. \A k \in S : n - k \in T OBVIOUS
<1>2. T \in SUBSET Nat /\ T # {} BY <1>1
<1>3. PICK t \in T : \A u \in T : t <= u
  <2> HIDE DEF T
  <2> QED BY <1>2, LeastNat
<1>4. n - t \in S OBVIOUS
<1>5. \A k \in S : k <= n - t
  <2> TAKE k \in S
  <2>1. t <= n - k BY <1>1, <1>3
  <2> QED BY <2>1
<1> QED BY <1>4, <1>5

(* The next position is one above the highest stored one. *)
LEMMA HeadIsNext ==
  ASSUME WriterTypes
  PROVE  /\ \A e \in Stored : pos[e] < Head0
         /\ Stored # {} => \E e \in Stored : Head0 = pos[e] + 1
         /\ Stored = {} => Head0 = 0
         /\ Head0 \in Nat
<1> DEFINE S == {pos[e] : e \in Stored} \cup {None}
<1>1. \A e \in Stored : pos[e] \in 0..MaxEvents
  BY StreamAssumption DEF WriterTypes, Stored, Positions
<1>2. S \in SUBSET (-1 .. MaxEvents) /\ S # {}
  BY <1>1, StreamAssumption DEF None
<1>3. \E m \in S : \A k \in S : k <= m
  <2> HIDE DEF S
  <2> QED BY <1>2, Greatest, StreamAssumption
<1>4. Max(S) \in S /\ \A k \in S : Max(S) >= k
  <2> HIDE DEF S
  <2>1. \E m \in S : \A k \in S : m >= k BY <1>2, <1>3, StreamAssumption
  <2> QED BY <2>1 DEF Max
<1>5. Head0 = Max(S) + 1 BY DEF Head0
<1>6. \A e \in Stored : pos[e] <= Max(S) BY <1>1, <1>2, <1>4
<1>7. Stored # {} => Max(S) # None BY <1>1, <1>6, <1>2, <1>4 DEF None
<1> HIDE DEF S
<1>8. Max(S) \in -1 .. MaxEvents BY <1>2, <1>4
<1>9. Max(S) = None \/ \E e \in Stored : Max(S) = pos[e] BY <1>4 DEF S
<1>10. Stored = {} => Max(S) = None BY <1>9
<1> QED BY <1>1, <1>5, <1>6, <1>7, <1>8, <1>9, <1>10, StreamAssumption DEF None

(* The head of the chain, and what is left without it. *)
LEMMA ChainHead ==
  ASSUME NEW S, NEW s \in Seq(S), s # <<>>
  PROVE  /\ Len(s) \in Nat /\ Len(s) >= 1 /\ Head(s) = s[1] /\ Head(s) \in S
         /\ Tail(s) \in Seq(S) /\ Len(Tail(s)) = Len(s) - 1
         /\ \A i \in 1..Len(Tail(s)) : Tail(s)[i] = s[i + 1] /\ i + 1 \in 1..Len(s)
OBVIOUS

LEMMA Appended ==
  ASSUME NEW S, NEW s \in Seq(S), NEW x \in S
  PROVE  /\ Append(s, x) \in Seq(S) /\ Len(Append(s, x)) = Len(s) + 1
         /\ \A i \in 1..Len(s) : Append(s, x)[i] = s[i]
         /\ Append(s, x)[Len(s) + 1] = x
         /\ Len(s) \in Nat
OBVIOUS

-----------------------------------------------------------------------------
(* The writer, whatever the environment does.                               *)

WriterOK == WriterTypes /\ WriterInv

LEMMA InitWriter == ASSUME Init PROVE WriterOK
<1> USE StreamAssumption DEF Init, None
<1>1. WriterTypes BY DEF WriterTypes, Positions
<1>2. Stored = {} BY DEF Stored
<1>3. WriterInv BY <1>2 DEF WriterInv, ChainOrdered, LogInEmitOrder, PosBelow
<1> QED BY <1>1, <1>3 DEF WriterOK

LEMMA EmitWriter == ASSUME WriterOK, Emit PROVE WriterOK'
<1> USE StreamAssumption DEF WriterOK, Emit, WriterTypes
<1>1. emitted + 1 \in Events /\ emitted' \in 0..MaxEvents BY DEF Events
<1>2. /\ chain' \in Seq(Events) /\ Len(chain') = Len(chain) + 1 /\ Len(chain) \in Nat
      /\ \A i \in 1..Len(chain) : chain'[i] = chain[i]
      /\ chain'[Len(chain) + 1] = emitted + 1
  BY <1>1, Appended
<1>3. WriterTypes' BY <1>1, <1>2
<1>4. Stored' = Stored BY DEF Stored
<1>5. reply' # None => Written' /\ reply' = pos'[Head(chain')]
  <2> SUFFICES ASSUME reply # None PROVE chain' # <<>> /\ Head(chain') = Head(chain)
    BY <1>4 DEF WriterInv, ChainOrdered, Written
  <2>1. chain # <<>> BY DEF WriterInv, ChainOrdered, Written
  <2> QED BY <1>1, <1>2, <2>1, ChainHead
<1>6. \A e \in Stored : e \in Events BY DEF Stored
<1>7. ChainOrdered'
  <2>1. \A i \in 1..Len(chain') : chain'[i] <= emitted'
    BY <1>2 DEF WriterInv, ChainOrdered, Events
  <2>2. ASSUME NEW i \in 1..Len(chain'), NEW j \in 1..Len(chain'), i < j
        PROVE  chain'[i] < chain'[j]
    <3>1. i \in 1..Len(chain) /\ chain[i] \in Events /\ chain[i] <= emitted
      BY <1>2, <2>2 DEF WriterInv, ChainOrdered
    <3>2. CASE j = Len(chain) + 1 BY <1>2, <3>1, <3>2 DEF Events
    <3>3. CASE j # Len(chain) + 1 BY <1>2, <2>2, <3>1, <3>3 DEF WriterInv, ChainOrdered
    <3> QED BY <3>2, <3>3
  <2>3. \A e \in Stored : e <= emitted' /\ \A i \in 1..Len(chain') : e <= chain'[i]
    BY <1>2, <1>6 DEF WriterInv, ChainOrdered, Events
  <2> QED BY <1>4, <1>5, <2>1, <2>2, <2>3 DEF ChainOrdered
<1>8. LogInEmitOrder' /\ PosBelow' BY <1>4 DEF WriterInv, LogInEmitOrder, PosBelow
<1> QED BY <1>3, <1>7, <1>8 DEF WriterInv

(* What leaves the chain is its head, written or given up. *)
LEMMA DropHead ==
  ASSUME WriterOK, chain # <<>>, chain' = Tail(chain), reply' = None,
         UNCHANGED <<emitted, pos>>, tries' \in 0..Attempts, awake' = awake, outages' = outages
  PROVE  WriterOK' /\ ~Written'
<1> USE StreamAssumption DEF WriterOK, WriterTypes
<1>1. /\ chain' \in Seq(Events) /\ Len(chain) \in Nat /\ Len(chain) >= 1
      /\ Len(chain') = Len(chain) - 1
      /\ \A i \in 1..Len(chain') : chain'[i] = chain[i + 1] /\ i + 1 \in 1..Len(chain)
  BY ChainHead
<1>2. WriterTypes' BY <1>1
<1>3. Stored' = Stored BY DEF Stored
<1>4. ChainOrdered'
  <2>1. \A i \in 1..Len(chain') : chain'[i] <= emitted'
    BY <1>1 DEF WriterInv, ChainOrdered
  <2>2. \A i, j \in 1..Len(chain') : i < j => chain'[i] < chain'[j]
    BY <1>1 DEF WriterInv, ChainOrdered
  <2>3. \A e \in Stored : e <= emitted' /\ \A i \in 1..Len(chain') : e <= chain'[i]
    BY <1>1 DEF WriterInv, ChainOrdered
  <2> QED BY <1>3, <2>1, <2>2, <2>3 DEF ChainOrdered
<1>5. LogInEmitOrder' /\ PosBelow' BY <1>3 DEF WriterInv, LogInEmitOrder, PosBelow
<1>6. ASSUME Written' PROVE FALSE
  <2>1. Len(chain') >= 1 /\ Head(chain') = chain'[1] BY <1>1, <1>6, ChainHead DEF Written
  <2>2. chain'[1] = chain[2] /\ 1 \in 1..Len(chain) /\ 2 \in 1..Len(chain) BY <1>1, <2>1
  <2>3. chain[1] < chain[2] /\ chain[1] \in Events /\ chain[2] \in Events
    BY <2>2 DEF WriterInv, ChainOrdered
  <2>4. chain[2] \in Stored BY <1>6, <2>1, <2>2, <2>3 DEF Written, Stored
  <2>5. chain[2] <= chain[1] BY <2>2, <2>4 DEF WriterInv, ChainOrdered
  <2> QED BY <2>3, <2>5 DEF Events
<1> QED BY <1>2, <1>4, <1>5, <1>6 DEF WriterInv

(* A committed head gets the next position, unless it has one. *)
LEMMA CommitWriter ==
  ASSUME WriterOK, Commit
  PROVE  /\ WriterOK' /\ Written' /\ Head(chain) \in Events
         /\ \/ pos[Head(chain)] # None /\ pos' = pos
            \/ pos[Head(chain)] = None /\ pos' = [pos EXCEPT ![Head(chain)] = Head0]
<1> USE StreamAssumption DEF WriterOK
<1> DEFINE h == Head(chain)
<1>1. /\ chain # <<>> /\ chain \in Seq(Events) /\ h \in Events /\ h = chain[1]
      /\ Len(chain) \in Nat /\ Len(chain) >= 1 /\ 1 \in 1..Len(chain)
  BY ChainHead DEF Commit, Appending, WriterTypes
<1>2. pos' = IF pos[h] # None THEN pos ELSE [pos EXCEPT ![h] = Head0]
  BY DEF Commit, AppendOnce
<1>3. reply' = pos'[h] /\ tries' = tries + 1 /\ tries < Attempts
      /\ UNCHANGED <<emitted, chain, awake, outages>>
  BY DEF Commit
<1>4. Head0 \in Nat /\ (Stored = {} => Head0 = 0)
      /\ (Stored # {} => \E e \in Stored : Head0 = pos[e] + 1) /\ \A e \in Stored : pos[e] < Head0
  BY HeadIsNext
<1>5. pos[h] = None => \A e \in Stored : e < h /\ e \in Events
  <2> SUFFICES ASSUME pos[h] = None, NEW e \in Stored PROVE e < h /\ e \in Events OBVIOUS
  <2>1. e <= h BY <1>1 DEF WriterInv, ChainOrdered
  <2>2. e # h /\ e \in Events BY DEF Stored
  <2> HIDE DEF h
  <2> QED BY <1>1, <2>1, <2>2 DEF Events
<1>6. pos[h] = None => Head0 < h
  <2> SUFFICES ASSUME pos[h] = None PROVE Head0 < h OBVIOUS
  <2>1. CASE Stored = {} BY <1>1, <1>4, <2>1 DEF Events
  <2>2. CASE Stored # {}
    <3>1. PICK e \in Stored : Head0 = pos[e] + 1 BY <1>4, <2>2
    <3>2. pos[e] < e /\ e < h /\ e \in Events /\ pos[e] \in Positions
      BY <1>5 DEF WriterInv, PosBelow, Stored, WriterTypes
    <3> HIDE DEF h
    <3> QED BY <1>1, <3>1, <3>2 DEF Events, Positions
  <2> QED BY <2>1, <2>2
<1> HIDE DEF h
<1>7. pos' \in [Events -> Positions \cup {None}] /\ pos'[h] \in Positions
  BY <1>1, <1>2, <1>4, <1>6 DEF WriterTypes, Positions, Events, None
<1>8. WriterTypes'
  BY <1>3, <1>7 DEF WriterTypes
<1>9. Written' /\ reply' = pos'[Head(chain')]
  BY <1>1, <1>3, <1>7 DEF Written, h, Positions, None
<1>10. CASE pos[h] # None
  <2>1. pos' = pos /\ Stored' = Stored BY <1>2, <1>10 DEF Stored
  <2>2. ChainOrdered' BY <1>3, <1>9, <2>1 DEF WriterInv, ChainOrdered
  <2>3. LogInEmitOrder' /\ PosBelow' BY <2>1 DEF WriterInv, LogInEmitOrder, PosBelow
  <2> QED BY <1>1, <1>8, <1>9, <1>10, <2>1, <2>2, <2>3 DEF WriterInv, h
<1>11. CASE pos[h] = None
  <2>1. pos' = [pos EXCEPT ![h] = Head0] BY <1>2, <1>11
  <2>2. Stored' = Stored \cup {h} /\ pos'[h] = Head0 /\ \A e \in Stored : pos'[e] = pos[e]
    BY <1>1, <1>4, <1>11, <2>1 DEF Stored, WriterTypes, None
  <2>3. h <= emitted /\ \A i \in 1..Len(chain) : h <= chain[i]
    BY <1>1 DEF WriterInv, ChainOrdered, Events
  <2>4. ChainOrdered' BY <1>3, <1>9, <2>2, <2>3 DEF WriterInv, ChainOrdered
  <2>5. LogInEmitOrder'
    <3> SUFFICES ASSUME NEW e \in Stored', NEW f \in Stored', e < f PROVE pos'[e] < pos'[f]
      BY DEF LogInEmitOrder
    <3>1. CASE f = h BY <1>1, <1>4, <1>5, <1>11, <2>2, <3>1 DEF Events
    <3>2. CASE f # h
      <4>1. e # h BY <1>1, <1>5, <1>11, <2>2, <3>2 DEF Events
      <4> QED BY <2>2, <3>2, <4>1 DEF WriterInv, LogInEmitOrder
    <3> QED BY <3>1, <3>2
  <2>6. PosBelow' BY <1>6, <1>11, <2>2 DEF WriterInv, PosBelow
  <2> QED BY <1>1, <1>8, <1>9, <1>11, <2>1, <2>4, <2>5, <2>6 DEF WriterInv, h
<1> QED BY <1>10, <1>11

LEMMA FailWriter == ASSUME WriterOK, AppendFails \/ ReplyLost PROVE WriterOK'
<1> USE StreamAssumption DEF WriterOK
<1>1. /\ chain # <<>> /\ UNCHANGED <<emitted, pos, awake, outages>> /\ reply' = None
      /\ tries' \in 0..Attempts
      /\ chain' = chain \/ chain' = Tail(chain)
  BY DEF AppendFails, ReplyLost, Failed, Appending, WriterTypes
<1>2. CASE chain' = Tail(chain) BY <1>1, <1>2, DropHead
<1>3. CASE chain' = chain
  <2>1. WriterTypes' BY <1>1, <1>3 DEF WriterTypes
  <2>2. Stored' = Stored BY <1>1 DEF Stored
  <2> QED BY <1>1, <1>3, <2>1, <2>2 DEF WriterInv, ChainOrdered, LogInEmitOrder, PosBelow
<1> QED BY <1>1, <1>2, <1>3

LEMMA FanOutWriter == ASSUME WriterOK, FanOut PROVE WriterOK' /\ ~Written'
<1>1. /\ chain # <<>> /\ chain' = Tail(chain) /\ reply' = None /\ tries' = 0
      /\ UNCHANGED <<emitted, pos, awake, outages>>
  BY DEF FanOut
<1> QED BY <1>1, DropHead, StreamAssumption

(* Retention takes rows from the old end. *)
LEMMA PruneWriter ==
  ASSUME WriterOK, Prune
  PROVE  /\ WriterOK' /\ UNCHANGED <<emitted, chain, tries, reply, awake, conn, client>>
         /\ \E oldest \in Stored :
              /\ Expired(oldest)
              /\ Stored' = {e \in Stored : e > oldest}
              /\ \A e \in Events : pos'[e] = IF e <= oldest THEN None ELSE pos[e]
<1> USE StreamAssumption DEF WriterOK
<1>1. PICK oldest \in Stored :
          /\ Expired(oldest)
          /\ pos' = [e \in Events |-> IF e <= oldest THEN None ELSE pos[e]]
  BY DEF Prune
<1>2. UNCHANGED <<emitted, chain, tries, reply, awake, conn, client>>
      /\ outages' = outages + 1 /\ outages < MaxOutages
  BY DEF Prune
<1>3. Stored' = {e \in Stored : e > oldest} BY <1>1 DEF Stored, Events
<1>4. WriterTypes' BY <1>1, <1>2 DEF WriterTypes
<1>5. \A e \in Stored' : e \in Stored /\ pos'[e] = pos[e] BY <1>1, <1>3 DEF Stored, Events
<1>6. reply # None => Written' /\ reply = pos'[Head(chain)]
  <2> SUFFICES ASSUME reply # None PROVE Written' /\ reply = pos'[Head(chain)] OBVIOUS
  <2>1. Written /\ reply = pos[Head(chain)] BY DEF WriterInv, ChainOrdered
  <2>2. Head(chain) \in Events BY <2>1, ChainHead DEF Written, WriterTypes
  <2>3. oldest < Head(chain) BY <1>1 DEF Expired
  <2>4. pos'[Head(chain)] = pos[Head(chain)] BY <1>1, <2>2, <2>3 DEF Stored, Events
  <2> QED BY <1>2, <2>1, <2>4 DEF Written
<1>7. ChainOrdered' BY <1>2, <1>5, <1>6 DEF WriterInv, ChainOrdered
<1>8. LogInEmitOrder' /\ PosBelow' BY <1>5 DEF WriterInv, LogInEmitOrder, PosBelow
<1> QED BY <1>1, <1>2, <1>3, <1>4, <1>7, <1>8 DEF WriterInv

LEMMA LifeWriter == ASSUME WriterOK, Crash \/ Dispose \/ Wake PROVE WriterOK'
<1> USE StreamAssumption DEF WriterOK
<1>1. /\ Stored' = Stored /\ emitted' = emitted /\ pos' = pos
      /\ \/ chain' = chain /\ reply' = reply
         \/ chain' = <<>> /\ reply' = None
  BY DEF Crash, Dispose, Wake, Stored
<1>2. WriterTypes'
  <2>1. /\ chain' \in Seq(Events) /\ reply' \in Positions \cup {None}
        /\ emitted' \in 0..MaxEvents /\ pos' \in [Events -> Positions \cup {None}]
    <3>1. chain \in Seq(Events) /\ reply \in Positions \cup {None} /\ <<>> \in Seq(Events)
      BY DEF WriterTypes
    <3>2. emitted \in 0..MaxEvents /\ pos \in [Events -> Positions \cup {None}]
      BY DEF WriterTypes
    <3> QED BY <1>1, <3>1, <3>2
  <2>2. tries' \in 0..Attempts /\ outages' \in 0..MaxOutages
    BY DEF WriterTypes, Crash, Dispose, Wake
  <2>3. awake' \in BOOLEAN BY DEF Crash, Dispose, Wake
  <2> QED BY <2>1, <2>2, <2>3 DEF WriterTypes
<1>3. WriterInv' BY <1>1 DEF WriterInv, ChainOrdered, LogInEmitOrder, PosBelow, Written
<1> QED BY <1>2, <1>3

LEMMA SameWriter == ASSUME WriterOK, UNCHANGED writer PROVE WriterOK'
BY DEF WriterOK, WriterTypes, WriterInv, ChainOrdered, LogInEmitOrder, PosBelow, Written, Stored, writer

ClientStep(c) == Connect(c) \/ StreamStep(c) \/ Disconnect(c)

LEMMA ClientKeepsWriter == ASSUME NEW c \in Clients, ClientStep(c) PROVE UNCHANGED writer
BY DEF ClientStep, Connect, StreamStep, Disconnect, ReadPage, WriteRow, ReadHead, TakeNotice,
   TakeEvent, SkipLive, WriteLive, EndStream

LEMMA NextWriter == ASSUME WriterOK, Next PROVE WriterOK'
BY EmitWriter, CommitWriter, FailWriter, FanOutWriter, PruneWriter, LifeWriter, SameWriter,
   ClientKeepsWriter DEF Next, AppendStep, ClientStep

-----------------------------------------------------------------------------
(* The connections, whatever the environment does.                          *)

Conns == ConnTypes /\ ClientTypes

Same(d) ==
  /\ pc'[d] = pc[d] /\ cursor'[d] = cursor[d] /\ page'[d] = page[d] /\ more'[d] = more[d]
  /\ sub'[d] = sub[d] /\ buf'[d] = buf[d] /\ lagFrom'[d] = lagFrom[d] /\ hand'[d] = hand[d]
  /\ lastId'[d] = lastId[d] /\ got'[d] = got[d] /\ told'[d] = told[d] /\ excused'[d] = excused[d]

(* A step of one connection leaves the others alone. *)
LEMMA OneConnection ==
  ASSUME Conns, NEW c \in Clients, ClientStep(c), NEW d \in Clients, d # c
  PROVE  Same(d)
<1> USE DEF Conns, ConnTypes, ClientTypes, Same
<1>1. CASE Connect(c) BY <1>1 DEF Connect
<1>2. CASE ReadPage(c) BY <1>2 DEF ReadPage, client
<1>3. CASE WriteRow(c) BY <1>3 DEF WriteRow, Receive, AfterRow
<1>4. CASE ReadHead(c) BY <1>4 DEF ReadHead, client
<1>5. CASE TakeNotice(c) BY <1>5 DEF TakeNotice
<1>6. CASE TakeEvent(c) BY <1>6 DEF TakeEvent, client
<1>7. CASE SkipLive(c) BY <1>7 DEF SkipLive, client
<1>8. CASE WriteLive(c) BY <1>8 DEF WriteLive, Receive
<1>9. CASE EndStream(c) \/ Disconnect(c) BY <1>9 DEF EndStream, Disconnect, client
<1> QED BY <1>1, <1>2, <1>3, <1>4, <1>5, <1>6, <1>7, <1>8, <1>9 DEF ClientStep, StreamStep

LEMMA RowsOfPage ==
  ASSUME WriterTypes, NEW start
  PROVE  /\ Page(start) \subseteq Stored
         /\ {[event |-> e, at |-> pos[e]] : e \in Page(start)} \in SUBSET Entry
<1>1. Page(start) \subseteq Stored BY DEF Page
<1>2. \A e \in Stored : e \in Events /\ pos[e] \in Positions BY DEF Stored, WriterTypes
<1> QED BY <1>1, <1>2 DEF Entry

LEMMA ConnectConns == ASSUME WriterOK, Conns, NEW c \in Clients, Connect(c) PROVE Conns'
<1> USE StreamAssumption DEF Conns, Connect
<1>1. lastId[c] + 1 \in 0..(MaxEvents + 1) BY DEF ClientTypes, Positions, None
<1>2. <<>> \in Seq(Entry) /\ Len(<<>>) = 0 OBVIOUS
<1>3. /\ pc' \in [Clients -> {"away", "reading", "frames", "head", "live"}]
      /\ cursor' \in [Clients -> 0..(MaxEvents + 1)]
      /\ page' \in [Clients -> SUBSET Entry] /\ lagFrom' \in [Clients -> Positions \cup {None}]
  BY <1>1 DEF ConnTypes
<1>4. more' \in [Clients -> BOOLEAN] BY DEF ConnTypes
<1>5. sub' \in [Clients -> {"none", "open", "closed"}] BY DEF ConnTypes
<1>6. /\ buf' \in [Clients -> Seq(Entry)] /\ \A d \in Clients : Len(buf'[d]) <= MaxOutbound
  BY <1>2 DEF ConnTypes
<1>7. /\ hand' \in [Clients -> Seq(Entry)] /\ \A d \in Clients : Len(hand'[d]) <= 1
  BY <1>2 DEF ConnTypes
<1>8. ClientTypes' BY DEF ClientTypes
<1> QED BY <1>3, <1>4, <1>5, <1>6, <1>7, <1>8 DEF ConnTypes

LEMMA ReadConns ==
  ASSUME WriterOK, Conns, NEW c \in Clients, ReadPage(c) \/ ReadHead(c) PROVE Conns'
<1> USE StreamAssumption DEF Conns, WriterOK
<1>1. CASE ReadPage(c)
  <2>1. page' \in [Clients -> SUBSET Entry] BY <1>1, RowsOfPage DEF ReadPage, ConnTypes
  <2>2. pc' \in [Clients -> {"away", "reading", "frames", "head", "live"}]
    BY <1>1 DEF ReadPage, ConnTypes
  <2>3. more' \in [Clients -> BOOLEAN] BY <1>1 DEF ReadPage, ConnTypes, MorePages
  <2>4. UNCHANGED <<cursor, sub, buf, lagFrom, hand, client>> BY <1>1 DEF ReadPage
  <2> QED BY <2>1, <2>2, <2>3, <2>4 DEF ConnTypes, ClientTypes, client
<1>2. CASE ReadHead(c)
  <2>1. Head0 \in 0..(MaxEvents + 1)
    <3>1. Head0 \in Nat /\ (Stored = {} => Head0 = 0)
          /\ (Stored # {} => \E e \in Stored : Head0 = pos[e] + 1)
      BY HeadIsNext
    <3>2. \A e \in Stored : pos[e] \in 0..MaxEvents BY DEF Stored, WriterTypes, Positions
    <3> QED BY <3>1, <3>2
  <2>2. cursor' \in [Clients -> 0..(MaxEvents + 1)] BY <1>2, <2>1 DEF ReadHead, ConnTypes
  <2>3. pc' \in [Clients -> {"away", "reading", "frames", "head", "live"}]
    BY <1>2 DEF ReadHead, ConnTypes
  <2>4. UNCHANGED <<page, more, sub, buf, lagFrom, hand, client>> BY <1>2 DEF ReadHead
  <2> QED BY <2>2, <2>3, <2>4 DEF ConnTypes, ClientTypes, client
<1> QED BY <1>1, <1>2

LEMMA ReceiveTypes ==
  ASSUME ClientTypes, NEW c \in Clients, NEW entry \in Entry, Receive(c, entry)
  PROVE  ClientTypes'
<1> USE StreamAssumption DEF Receive, ClientTypes
<1>1. entry.at \in Positions /\ entry.event \in Events BY DEF Entry
<1>2. lastId' \in [Clients -> Positions \cup {None}] /\ told' \in [Clients -> Positions \cup {None}]
  BY <1>1
<1>3. got' \in [Clients -> SUBSET Events] BY <1>1
<1>4. excused' \in [Clients -> SUBSET Positions]
  <2>1. CASE told[c] = None BY <2>1
  <2>2. CASE told[c] # None
    <3>1. told[c]..(entry.at - 1) \subseteq Positions BY <1>1, <2>2 DEF Positions
    <3>2. excused' = [excused EXCEPT ![c] = @ \cup (told[c]..(entry.at - 1))] BY <2>2
    <3> QED BY <3>1, <3>2
  <2> QED BY <2>1, <2>2
<1> QED BY <1>2, <1>3, <1>4

LEMMA WriteConns ==
  ASSUME WriterOK, Conns, NEW c \in Clients, WriteRow(c) \/ WriteLive(c) PROVE Conns'
<1> USE StreamAssumption DEF Conns
<1>1. CASE WriteRow(c)
  <2>1. PICK entry \in page[c] :
          /\ Receive(c, entry)
          /\ page' = [page EXCEPT ![c] = @ \ {entry}]
          /\ cursor' = [cursor EXCEPT ![c] = entry.at + 1]
          /\ pc' = [pc EXCEPT ![c] = IF page[c] # {entry} THEN "frames"
                                     ELSE IF more[c] THEN "reading" ELSE "live"]
    BY <1>1 DEF WriteRow, AfterRow
  <2>2. entry \in Entry /\ entry.at + 1 \in 0..(MaxEvents + 1)
    BY DEF ConnTypes, Entry, Positions
  <2>3. ClientTypes' BY <2>1, <2>2, ReceiveTypes
  <2>4. page' \in [Clients -> SUBSET Entry] /\ cursor' \in [Clients -> 0..(MaxEvents + 1)]
    BY <2>1, <2>2 DEF ConnTypes
  <2>5. pc' \in [Clients -> {"away", "reading", "frames", "head", "live"}]
    BY <2>1 DEF ConnTypes
  <2>6. UNCHANGED <<more, sub, buf, lagFrom, hand>> BY <1>1 DEF WriteRow
  <2> QED BY <2>3, <2>4, <2>5, <2>6 DEF ConnTypes
<1>2. CASE WriteLive(c)
  <2> DEFINE entry == hand[c][1]
  <2>1. Receive(c, entry) /\ cursor' = [cursor EXCEPT ![c] = entry.at + 1]
        /\ hand' = [hand EXCEPT ![c] = <<>>] /\ UNCHANGED <<pc, page, more, sub, buf, lagFrom>>
    BY <1>2 DEF WriteLive
  <2>2. entry \in Entry
    <3>1. hand[c] \in Seq(Entry) /\ hand[c] # <<>> BY <1>2 DEF WriteLive, ConnTypes
    <3> QED BY <3>1
  <2>3. entry.at + 1 \in 0..(MaxEvents + 1) BY <2>2 DEF Entry, Positions
  <2>4. ClientTypes' BY <2>1, <2>2, ReceiveTypes
  <2>5. cursor' \in [Clients -> 0..(MaxEvents + 1)] BY <2>1, <2>3 DEF ConnTypes
  <2>6. hand' \in [Clients -> Seq(Entry)] /\ \A d \in Clients : Len(hand'[d]) <= 1
    <3>1. <<>> \in Seq(Entry) /\ Len(<<>>) = 0 OBVIOUS
    <3> QED BY <2>1, <3>1 DEF ConnTypes
  <2> QED BY <2>1, <2>4, <2>5, <2>6 DEF ConnTypes
<1> QED BY <1>1, <1>2

LEMMA TakeConns ==
  ASSUME WriterOK, Conns, NEW c \in Clients,
         TakeNotice(c) \/ TakeEvent(c) \/ SkipLive(c) \/ EndStream(c) \/ Disconnect(c)
  PROVE  Conns'
<1> USE StreamAssumption DEF Conns
<1>0. <<>> \in Seq(Entry) /\ Len(<<>>) = 0 OBVIOUS
<1>1. CASE TakeNotice(c)
  <2>1. lagFrom' \in [Clients -> Positions \cup {None}] BY <1>1 DEF TakeNotice, ConnTypes
  <2>2. told' \in [Clients -> Positions \cup {None}] BY <1>1 DEF TakeNotice, ConnTypes, ClientTypes
  <2> QED BY <1>1, <2>1, <2>2 DEF TakeNotice, ConnTypes, ClientTypes
<1>2. CASE TakeEvent(c)
  <2>1. /\ buf[c] \in Seq(Entry) /\ buf[c] # <<>> /\ Len(buf[c]) <= MaxOutbound
        /\ buf' = [buf EXCEPT ![c] = Tail(buf[c])] /\ hand' = [hand EXCEPT ![c] = <<Head(buf[c])>>]
        /\ UNCHANGED <<pc, cursor, page, more, sub, lagFrom, client>>
    BY <1>2 DEF TakeEvent, ConnTypes
  <2>2. /\ Tail(buf[c]) \in Seq(Entry) /\ Len(Tail(buf[c])) <= MaxOutbound
        /\ <<Head(buf[c])>> \in Seq(Entry) /\ Len(<<Head(buf[c])>>) = 1
    BY <2>1
  <2>3. buf' \in [Clients -> Seq(Entry)] /\ \A d \in Clients : Len(buf'[d]) <= MaxOutbound
    BY <2>1, <2>2 DEF ConnTypes
  <2>4. hand' \in [Clients -> Seq(Entry)] /\ \A d \in Clients : Len(hand'[d]) <= 1
    BY <2>1, <2>2 DEF ConnTypes
  <2> QED BY <2>1, <2>3, <2>4 DEF ConnTypes, ClientTypes, client
<1>3. CASE SkipLive(c)
  <2>1. hand' \in [Clients -> Seq(Entry)] /\ \A d \in Clients : Len(hand'[d]) <= 1
    BY <1>0, <1>3 DEF SkipLive, ConnTypes
  <2> QED BY <1>3, <2>1 DEF SkipLive, ConnTypes, ClientTypes, client
<1>4. CASE EndStream(c) \/ Disconnect(c)
  <2>1. pc' \in [Clients -> {"away", "reading", "frames", "head", "live"}]
        /\ sub' \in [Clients -> {"none", "open", "closed"}]
    BY <1>4 DEF EndStream, Disconnect, ConnTypes
  <2>2. UNCHANGED <<cursor, page, more, buf, lagFrom, hand, client>>
    BY <1>4 DEF EndStream, Disconnect
  <2> QED BY <2>1, <2>2 DEF ConnTypes, ClientTypes, client
<1> QED BY <1>1, <1>2, <1>3, <1>4

LEMMA FanOutConns == ASSUME WriterOK, Conns, FanOut PROVE Conns'
<1> USE StreamAssumption DEF Conns
<1> DEFINE entry == [event |-> Head(chain), at |-> reply]
           more1(c) == Append(buf[c], entry)
<1>1. /\ chain # <<>> /\ reply # None
      /\ hand' = [c \in Clients |->
                    IF Attached(c) /\ Waiting(c) THEN <<entry>> ELSE hand[c]]
      /\ buf' = [c \in Clients |->
                   IF ~Attached(c) \/ Waiting(c) THEN buf[c]
                   ELSE IF Overflows(more1(c)) THEN Tail(more1(c)) ELSE more1(c)]
      /\ lagFrom' = [c \in Clients |->
                       IF Attached(c) /\ ~Waiting(c) /\ Overflows(more1(c)) /\ lagFrom[c] = None
                       THEN more1(c)[1].at ELSE lagFrom[c]]
      /\ UNCHANGED <<pc, cursor, page, more, sub, client>>
  BY DEF FanOut
<1>2. entry \in Entry
  <2>1. Head(chain) \in Events BY <1>1, ChainHead DEF WriterOK, WriterTypes
  <2>2. reply \in Positions BY <1>1 DEF WriterOK, WriterTypes
  <2> QED BY <2>1, <2>2 DEF Entry
<1> HIDE DEF entry
<1>3. ASSUME NEW c \in Clients
      PROVE  /\ more1(c) \in Seq(Entry) /\ Len(more1(c)) <= MaxOutbound + 1
             /\ Len(more1(c)) >= 1 /\ more1(c) # <<>>
             /\ more1(c)[1] \in Entry /\ <<entry>> \in Seq(Entry) /\ Len(<<entry>>) = 1
  <2>1. buf[c] \in Seq(Entry) /\ Len(buf[c]) <= MaxOutbound BY DEF ConnTypes
  <2>2. more1(c) \in Seq(Entry) /\ Len(more1(c)) = Len(buf[c]) + 1 /\ Len(buf[c]) \in Nat
    BY <1>2, <2>1, Appended
  <2> HIDE DEF more1
  <2>3. more1(c)[1] \in Entry BY <2>2
  <2> QED BY <1>2, <2>1, <2>2, <2>3
<1> HIDE DEF more1
<1>4. ASSUME NEW c \in Clients PROVE buf'[c] \in Seq(Entry) /\ Len(buf'[c]) <= MaxOutbound
  <2>1. buf[c] \in Seq(Entry) /\ Len(buf[c]) <= MaxOutbound BY DEF ConnTypes
  <2>2. Tail(more1(c)) \in Seq(Entry) /\ Len(Tail(more1(c))) = Len(more1(c)) - 1
    BY <1>3, ChainHead
  <2>3. CASE Overflows(more1(c)) BY <1>1, <1>3, <2>1, <2>2, <2>3
  <2>4. CASE ~Overflows(more1(c)) BY <1>1, <1>3, <2>1, <2>4 DEF Overflows
  <2> QED BY <2>3, <2>4
<1>5. /\ buf' \in [Clients -> Seq(Entry)] /\ \A c \in Clients : Len(buf'[c]) <= MaxOutbound
  BY <1>1, <1>4
<1>6. /\ hand' \in [Clients -> Seq(Entry)] /\ \A c \in Clients : Len(hand'[c]) <= 1
  <2>1. \A c \in Clients : hand'[c] \in Seq(Entry) /\ Len(hand'[c]) <= 1
    BY <1>1, <1>3 DEF ConnTypes
  <2> QED BY <1>1, <2>1
<1>7. lagFrom' \in [Clients -> Positions \cup {None}]
  <2>1. \A c \in Clients : lagFrom'[c] \in Positions \cup {None}
    BY <1>1, <1>3 DEF ConnTypes, Entry
  <2> QED BY <1>1, <2>1
<1> QED BY <1>1, <1>5, <1>6, <1>7 DEF ConnTypes, ClientTypes, client

LEMMA LifeConns == ASSUME Conns, Crash \/ Dispose PROVE Conns'
<1> USE DEF Conns
<1>1. CASE Crash BY <1>1 DEF Crash, ConnTypes, ClientTypes, client
<1>2. CASE Dispose
  <2>1. sub' \in [Clients -> {"none", "open", "closed"}] BY <1>2 DEF Dispose, ConnTypes
  <2> QED BY <1>2, <2>1 DEF Dispose, ConnTypes, ClientTypes, client
<1> QED BY <1>1, <1>2

LEMMA SameConns == ASSUME Conns, UNCHANGED <<conn, client>> PROVE Conns'
BY DEF Conns, ConnTypes, ClientTypes, conn, client

(* Every other step of the server changes nothing of a connection. *)
LEMMA QuietSteps ==
  ASSUME Emit \/ Commit \/ AppendFails \/ ReplyLost \/ Prune \/ Wake
  PROVE  UNCHANGED <<conn, client>>
BY DEF Emit, Commit, AppendFails, ReplyLost, Prune, Wake

LEMMA NextConns == ASSUME WriterOK, Conns, Next PROVE Conns'
BY ConnectConns, ReadConns, WriteConns, TakeConns, FanOutConns, LifeConns, SameConns, QuietSteps
   DEF Next, AppendStep, StreamStep

LEMMA InitConns == ASSUME Init PROVE Conns
<1> USE StreamAssumption DEF Init, None
<1>1. <<>> \in Seq(Entry) /\ Len(<<>>) = 0 OBVIOUS
<1>2. buf \in [Clients -> Seq(Entry)] /\ \A c \in Clients : Len(buf[c]) <= MaxOutbound
  BY <1>1
<1>3. hand \in [Clients -> Seq(Entry)] /\ \A c \in Clients : Len(hand[c]) <= 1
  BY <1>1
<1>4. ConnTypes BY <1>2, <1>3 DEF ConnTypes
<1>5. ClientTypes BY DEF ClientTypes
<1> QED BY <1>4, <1>5 DEF Conns

(* The types hold, and they are the module's TypeOK. *)
Grounded == WriterOK /\ Conns

LEMMA GroundedTypes == ASSUME Grounded PROVE TypeOK
<1>1. \A c \in Clients : hand[c] = <<>> \/ (hand[c][1] \in Entry /\ Len(hand[c]) = 1)
  <2> TAKE c \in Clients
  <2>1. hand[c] \in Seq(Entry) /\ Len(hand[c]) <= 1 BY DEF Grounded, Conns, ConnTypes
  <2>2. CASE hand[c] # <<>>
    <3>1. Len(hand[c]) \in Nat /\ Len(hand[c]) >= 1 BY <2>1, <2>2, ChainHead
    <3>2. Len(hand[c]) = 1
      <4> DEFINE n == Len(hand[c])
      <4>1. n \in Nat /\ n >= 1 /\ n <= 1 BY <2>1, <3>1
      <4> HIDE DEF n
      <4>2. n = 1 BY <4>1
      <4> QED BY <4>2 DEF n
    <3>3. hand[c][1] \in Entry BY <2>1, <3>2
    <3> QED BY <3>2, <3>3
  <2> QED BY <2>2
<1> QED BY <1>1 DEF Grounded, WriterOK, WriterTypes, Conns, ConnTypes, ClientTypes, TypeOK

LEMMA NextGrounded == ASSUME Grounded, [Next]_vars PROVE Grounded'
<1>1. CASE Next BY <1>1, NextWriter, NextConns DEF Grounded
<1>2. CASE UNCHANGED vars BY <1>2, SameWriter, SameConns DEF Grounded, vars
<1> QED BY <1>1, <1>2

-----------------------------------------------------------------------------
(* Each connection writes above the client's last id, whatever happens.     *)

LEMMA SameAhead == ASSUME NEW d \in Clients, Ahead(d), Same(d) PROVE Ahead(d)'
BY DEF Ahead, Same

LEMMA PageAhead ==
  ASSUME Grounded, NEW c \in Clients, Ahead(c), ReadPage(c)
  PROVE  Ahead(c)'
<1> USE DEF Grounded, Conns
<1>1. /\ pc[c] = "reading" /\ UNCHANGED <<cursor, lastId>>
      /\ page'[c] = {[event |-> e, at |-> pos[e]] : e \in Page(cursor[c])}
      /\ pc'[c] = IF Page(cursor[c]) # {} THEN "frames"
                  ELSE IF cursor[c] > 0 THEN "live" ELSE "head"
  BY DEF ReadPage, ConnTypes, client
<1>2. lastId[c] < cursor[c] /\ lastId[c] \in Positions \cup {None} /\ cursor[c] \in Nat
  BY <1>1 DEF Ahead, ConnTypes, ClientTypes
<1>3. Page(cursor[c]) \subseteq Stored /\ \A e \in Page(cursor[c]) : pos[e] >= cursor[c]
  BY DEF Page
<1>4. ASSUME NEW x \in page'[c], NEW y \in page'[c], x.at = y.at PROVE x = y
  <2>1. PICK e \in Page(cursor[c]) : x = [event |-> e, at |-> pos[e]] BY <1>1
  <2>2. PICK f \in Page(cursor[c]) : y = [event |-> f, at |-> pos[f]] BY <1>1
  <2>3. e \in Stored /\ f \in Stored /\ e \in Events /\ f \in Events /\ pos[e] = pos[f]
    BY <1>3, <1>4, <2>1, <2>2 DEF Stored
  <2>4. pos[e] \in Positions BY <2>3 DEF WriterOK, WriterTypes, Stored
  <2>5. ~(e < f) /\ ~(f < e) BY <2>3, <2>4 DEF WriterOK, WriterInv, LogInEmitOrder, Positions
  <2>6. e = f BY <2>3, <2>5 DEF Events
  <2> QED BY <2>1, <2>2, <2>6
<1>5. pc'[c] = "head" => lastId[c] = None
  BY <1>1, <1>2 DEF Positions, None
<1>6. \A x \in page'[c] : x.at >= cursor[c] BY <1>1, <1>3
<1>7. pc'[c] # "frames" => page'[c] = {} BY <1>1
<1> QED BY <1>1, <1>2, <1>4, <1>5, <1>6, <1>7 DEF Ahead

(* A row is written above the client's last id, and the rest of the page is above it. *)
LEMMA RowAhead ==
  ASSUME Grounded, NEW c \in Clients, Ahead(c), WriteRow(c)
  PROVE  Ahead(c)' /\ lastId'[c] > lastId[c]
<1> USE DEF Grounded, Conns
<1>1. PICK entry \in page[c] :
        /\ \A other \in page[c] : entry.at <= other.at
        /\ lastId'[c] = entry.at /\ cursor'[c] = entry.at + 1 /\ page'[c] = page[c] \ {entry}
        /\ pc'[c] = IF page[c] # {entry} THEN "frames" ELSE IF more[c] THEN "reading" ELSE "live"
  BY DEF WriteRow, AfterRow, Receive, ConnTypes, ClientTypes
<1>2. \A x \in page[c] : x.at \in Positions BY DEF ConnTypes, Entry
<1>3. pc[c] = "frames" /\ lastId[c] < cursor[c] /\ cursor[c] \in Nat
      /\ lastId[c] \in Positions \cup {None}
  BY DEF WriteRow, Ahead, ConnTypes, ClientTypes
<1>4. entry.at >= cursor[c] BY <1>3 DEF Ahead
<1>5. \A x, y \in page[c] : x.at = y.at => x = y BY <1>3 DEF Ahead
<1>6. lastId'[c] > lastId[c] BY <1>1, <1>2, <1>3, <1>4 DEF Positions, None
<1>7. lastId'[c] < cursor'[c] BY <1>1, <1>2 DEF Positions
<1>8. \A x \in page'[c] : x.at >= cursor'[c] BY <1>1, <1>2, <1>5 DEF Positions
<1>9. pc'[c] # "head" /\ (pc'[c] # "frames" => page'[c] = {}) BY <1>1
<1>10. \A x, y \in page'[c] : x.at = y.at => x = y BY <1>1, <1>5
<1> QED BY <1>6, <1>7, <1>8, <1>9, <1>10 DEF Ahead

(* So is an event of the live tail. *)
LEMMA LiveAhead ==
  ASSUME Grounded, NEW c \in Clients, Ahead(c), WriteLive(c)
  PROVE  Ahead(c)' /\ lastId'[c] > lastId[c]
<1> USE DEF Grounded, Conns
<1>1. /\ lastId'[c] = hand[c][1].at /\ cursor'[c] = hand[c][1].at + 1
      /\ pc'[c] = "live" /\ pc[c] = "live" /\ page'[c] = page[c] /\ hand[c] # <<>>
      /\ ~(hand[c][1].at < cursor[c])
  BY DEF WriteLive, Receive, Covered, ConnTypes, ClientTypes
<1>2. hand[c][1] \in Entry
  <2>1. hand[c] \in Seq(Entry) BY DEF ConnTypes
  <2> QED BY <1>1, <2>1
<1>3. hand[c][1].at \in Positions BY <1>2 DEF Entry
<1>4. lastId[c] < cursor[c] /\ cursor[c] \in Nat /\ lastId[c] \in Positions \cup {None}
  BY <1>1 DEF Ahead, ConnTypes, ClientTypes
<1>5. lastId'[c] > lastId[c] BY <1>1, <1>3, <1>4 DEF Positions, None
<1>6. lastId'[c] < cursor'[c] BY <1>1, <1>3 DEF Positions
<1>7. page'[c] = {} BY <1>1 DEF Ahead
<1> QED BY <1>1, <1>5, <1>6, <1>7 DEF Ahead

LEMMA OtherAhead ==
  ASSUME Grounded, NEW c \in Clients, Ahead(c),
         \/ Connect(c) \/ ReadHead(c) \/ TakeNotice(c) \/ TakeEvent(c) \/ SkipLive(c)
         \/ EndStream(c) \/ Disconnect(c)
  PROVE  Ahead(c)' /\ lastId'[c] = lastId[c]
<1> USE DEF Grounded, Conns
<1>1. CASE Connect(c)
  <2>1. /\ pc'[c] = "reading" /\ page'[c] = {} /\ cursor'[c] = lastId[c] + 1
        /\ lastId'[c] = lastId[c] /\ lastId[c] \in Positions \cup {None}
    BY <1>1 DEF Connect, ConnTypes, ClientTypes
  <2> QED BY <2>1 DEF Ahead, Positions, None
<1>2. CASE ReadHead(c)
  <2>1. /\ pc[c] = "head" /\ pc'[c] = "live" /\ page'[c] = page[c] /\ cursor'[c] = Head0
        /\ lastId'[c] = lastId[c]
    BY <1>2 DEF ReadHead, client, ConnTypes
  <2>2. lastId[c] = None /\ page[c] = {} BY <2>1 DEF Ahead
  <2>3. Head0 \in Nat BY HeadIsNext DEF WriterOK
  <2> QED BY <2>1, <2>2, <2>3 DEF Ahead, None
<1>3. CASE TakeNotice(c) BY <1>3 DEF TakeNotice, Ahead
<1>4. CASE TakeEvent(c) BY <1>4 DEF TakeEvent, Ahead, client
<1>5. CASE SkipLive(c) BY <1>5 DEF SkipLive, Ahead, client
<1>6. CASE EndStream(c) \/ Disconnect(c)
  BY <1>6 DEF EndStream, Disconnect, Ahead, client, ConnTypes
<1> QED BY <1>1, <1>2, <1>3, <1>4, <1>5, <1>6

LEMMA ServerAhead ==
  ASSUME Grounded, NEW c \in Clients, Ahead(c),
         Emit \/ AppendStep \/ Prune \/ Crash \/ Dispose \/ Wake \/ UNCHANGED vars
  PROVE  Ahead(c)' /\ lastId'[c] = lastId[c]
<1>1. CASE Emit \/ Commit \/ AppendFails \/ ReplyLost \/ Prune \/ Wake
  BY <1>1, QuietSteps DEF Ahead, conn, client
<1>2. CASE FanOut BY <1>2 DEF FanOut, Ahead, client
<1>3. CASE Crash BY <1>3 DEF Crash, Ahead, client
<1>4. CASE Dispose BY <1>4 DEF Dispose, Ahead, client
<1>5. CASE UNCHANGED vars BY <1>5 DEF vars, conn, client, Ahead
<1> QED BY <1>1, <1>2, <1>3, <1>4, <1>5 DEF AppendStep

LEMMA NextAhead ==
  ASSUME Grounded, [Next]_vars, NEW c \in Clients, Ahead(c)
  PROVE  Ahead(c)' /\ (lastId'[c] # lastId[c] => lastId'[c] > lastId[c])
<1>1. CASE Emit \/ AppendStep \/ Prune \/ Crash \/ Dispose \/ Wake \/ UNCHANGED vars
  BY <1>1, ServerAhead
<1>2. ASSUME NEW d \in Clients, ClientStep(d), d # c
      PROVE  Ahead(c)' /\ lastId'[c] = lastId[c]
  <2>1. Same(c) BY <1>2, OneConnection DEF Grounded
  <2> QED BY <2>1, SameAhead DEF Same
<1>3. CASE ClientStep(c)
  BY <1>3, PageAhead, RowAhead, LiveAhead, OtherAhead DEF ClientStep, StreamStep, ReadPage, client
<1> QED BY <1>1, <1>2, <1>3 DEF Next, ClientStep

(* A row keeps its position until it is pruned. *)
LEMMA RowsStay ==
  ASSUME Grounded, [Next]_vars, NEW e \in Events, pos[e] # None, pos'[e] # None
  PROVE  pos'[e] = pos[e]
<1>1. CASE Commit
  <2>1. \/ pos' = pos
        \/ pos[Head(chain)] = None /\ pos' = [pos EXCEPT ![Head(chain)] = Head0]
    BY <1>1, CommitWriter DEF Grounded
  <2>2. pos \in [Events -> Positions \cup {None}] BY DEF Grounded, WriterOK, WriterTypes
  <2> QED BY <2>1, <2>2
<1>2. CASE Prune BY <1>2, PruneWriter DEF Grounded
<1>3. CASE Emit \/ AppendFails \/ ReplyLost \/ FanOut \/ Crash \/ Dispose \/ Wake
  BY <1>3 DEF Emit, AppendFails, ReplyLost, FanOut, Crash, Dispose, Wake
<1>4. CASE \E c \in Clients : ClientStep(c) BY <1>4, ClientKeepsWriter DEF writer
<1>5. CASE UNCHANGED vars BY <1>5 DEF vars, writer
<1> QED BY <1>1, <1>2, <1>3, <1>4, <1>5 DEF Next, AppendStep, ClientStep

-----------------------------------------------------------------------------
(* Without faults: the projection always keeps its newest row.              *)
Reached(p) == \E e \in Stored : p <= pos[e]

Items(s)  == {s[i] : i \in 1..Len(s)}
Sorted(s) == \A i, j \in 1..Len(s) : i < j => s[i].at < s[j].at

Queued(c) == Items(buf[c])
Held(c)   == Items(hand[c])
Tail1(c)  == Queued(c) \cup Held(c)

(* An entry on its way is the row it was read from, or that row is gone.    *)
Genuine(x) ==
  /\ Reached(x.at)
  /\ pos[x.event] \in {x.at, None}
  /\ \A e \in Stored : pos[e] = x.at => e = x.event
  /\ \A i \in 1..Len(chain) : x.event <= chain[i]
  /\ chain # <<>> /\ x.event = Head(chain) => Written
  /\ x.event <= emitted

(* The starts of gaps a notice told the client of, or will. *)
Marks(c) == {told[c], lagFrom[c]} \ {None}

Safe(c, e) == e \in got[c] \/ pos[e] \in excused[c]

Entries(c) ==
  /\ \A x \in page[c] \cup Tail1(c) : Genuine(x)
  /\ \A x \in Tail1(c) : Written => x.at < pos[Head(chain)]
  /\ \A m \in Marks(c) : Reached(m) /\ (Written => m < pos[Head(chain)])
  /\ cursor[c] > 0 => Reached(cursor[c] - 1)
  /\ lastId[c] # None => Reached(lastId[c])

(* The live tail is in the order of the log; what was dropped from it lies  *)
(* between what was taken and what is buffered.                             *)
TailOrdered(c) ==
  /\ pc[c] = "away" => sub[c] = "none"
  /\ pc[c] # "away" =>
    /\ Sorted(buf[c])
    /\ \A x \in Held(c) : \A y \in Queued(c) : x.at < y.at
    /\ lagFrom[c] # None => /\ \A y \in Queued(c) : lagFrom[c] < y.at
                            /\ \A x \in Held(c) : x.at < lagFrom[c]
    /\ told[c] # None => /\ \A x \in Tail1(c) : told[c] < x.at
                         /\ lagFrom[c] # None => told[c] < lagFrom[c]
    /\ pc[c] # "live" => told[c] = None /\ hand[c] = <<>>
    /\ sub[c] = "none" => hand[c] = <<>> /\ buf[c] = <<>> /\ lagFrom[c] = None

(* What a client is past is received or excused. *)
Behind(c) ==
  \A e \in Stored :
    /\ pos[e] <= lastId[c] => Safe(c, e)
    /\ pc[c] # "away" /\ pos[e] < cursor[c] => Safe(c, e)

OnPage(c, e) == \E x \in page[c] : x.event = e /\ x.at = pos[e]

(* The page holds the first rows from the cursor on. *)
PageFirst(c) ==
  pc[c] = "frames" =>
    \A e \in Stored : pos[e] >= cursor[c] =>
       OnPage(c, e) \/ \A x \in page[c] : x.at < pos[e]

(* When the replay has no page to come, the live tail has the rest: each    *)
(* row is in it, about to be, or was dropped from it under a notice.        *)
InTail(c, e) ==
  \/ \E x \in Tail1(c) : x.event = e
  \/ chain # <<>> /\ e = Head(chain)
  \/ told[c] # None /\ told[c] <= pos[e] /\ \A x \in Tail1(c) : pos[e] < x.at
  \/ lagFrom[c] # None /\ lagFrom[c] <= pos[e] /\ \A x \in Queued(c) : pos[e] < x.at
  \/ ~Attached(c)

Covers(c) ==
  /\ pc[c] = "live" \/ (pc[c] = "frames" /\ ~more[c]) =>
       \A e \in Stored : pos[e] >= cursor[c] =>
          (pc[c] = "frames" /\ OnPage(c, e)) \/ InTail(c, e)
  /\ pc[c] = "head" => Stored = {}

NoGap(c) == Entries(c) /\ TailOrdered(c) /\ Behind(c) /\ PageFirst(c) /\ Covers(c)

(* What a step of the server does to the rows: none is renumbered, the highest position is  *)
(* kept, and a new row is the head of the chain, above all others.                           *)
RowsStep ==
  /\ \A p \in Int : Reached(p) => Reached(p)'
  /\ \A x \in Entry : Genuine(x) => Genuine(x)'
  /\ \A e \in Stored' :
       \/ e \in Stored /\ pos'[e] = pos[e]
       \/ /\ chain # <<>> /\ chain' = chain /\ e = Head(chain)
          /\ \A f \in Stored : pos[f] < pos'[e]
          /\ \A c \in Clients : pc[c] # "head"
  /\ Written' => \/ Written /\ pos'[Head(chain')] = pos[Head(chain)]
                 \/ \A f \in Stored : pos[f] < pos'[Head(chain')]

(* A written head leaves the chain only when it is fanned out. *)
HeadStays ==
  \A e \in Stored' : chain # <<>> /\ e = Head(chain) => chain' # <<>> /\ Head(chain') = e

LEMMA RowTypes ==
  ASSUME WriterOK
  PROVE  \A e \in Stored : e \in Events /\ e \in Nat /\ pos[e] \in Positions /\ pos[e] \in Nat
BY StreamAssumption DEF WriterOK, WriterTypes, Stored, Events, Positions

LEMMA RowTypesNext == ASSUME WriterOK' PROVE \A e \in Stored' : pos'[e] \in Nat
BY StreamAssumption DEF WriterOK, WriterTypes, Stored, Events, Positions

LEMMA EmitRows == ASSUME WriterOK, Emit PROVE RowsStep /\ HeadStays
<1> USE StreamAssumption
<1>1. /\ emitted' = emitted + 1 /\ emitted < MaxEvents /\ chain' = Append(chain, emitted + 1)
      /\ pos' = pos /\ chain \in Seq(Events) /\ emitted \in Nat /\ emitted + 1 \in Events
  BY DEF Emit, WriterOK, WriterTypes, Events
<1>2. /\ chain' \in Seq(Events) /\ Len(chain') = Len(chain) + 1 /\ Len(chain) \in Nat
      /\ \A i \in 1..Len(chain) : chain'[i] = chain[i]
      /\ chain'[Len(chain) + 1] = emitted + 1 /\ chain' # <<>>
  BY <1>1, Appended
<1>3. Stored' = Stored BY <1>1 DEF Stored
<1>4. Head(chain') = chain'[1] BY <1>2, ChainHead
<1>5. chain # <<>> => Head(chain') = Head(chain) BY <1>1, <1>2, <1>4, ChainHead
<1>6. chain = <<>> => Head(chain') = emitted + 1 BY <1>2, <1>4
<1>7. \A e \in Stored : e <= emitted BY DEF WriterOK, WriterInv, ChainOrdered
<1>8. Written' => chain # <<>>
  <2> SUFFICES ASSUME Written', chain = <<>> PROVE FALSE OBVIOUS
  <2>1. emitted + 1 \in Stored BY <1>1, <1>6 DEF Written, Stored
  <2> QED BY <1>1, <1>7, <2>1
<1>9. Written' => Written /\ pos'[Head(chain')] = pos[Head(chain)] BY <1>1, <1>5, <1>8 DEF Written
<1>10. \A p \in Int : Reached(p) => Reached(p)' BY <1>1, <1>3 DEF Reached
<1>11. ASSUME NEW x \in Entry, Genuine(x) PROVE Genuine(x)'
  <2>1. x.at \in Int /\ x.event \in Events BY DEF Entry, Positions
  <2>2. \A i \in 1..Len(chain') : x.event <= chain'[i]
    <3> TAKE i \in 1..Len(chain')
    <3>1. CASE i = Len(chain) + 1 BY <1>1, <1>2, <2>1, <3>1, <1>11 DEF Genuine, Events
    <3>2. CASE i # Len(chain) + 1
      <4>1. i \in 1..Len(chain) BY <1>2, <3>2
      <4> QED BY <1>2, <4>1, <1>11 DEF Genuine
    <3> QED BY <3>1, <3>2
  <2>3. x.event = Head(chain') => Written'
    <3>1. CASE chain = <<>> BY <1>1, <1>6, <2>1, <3>1, <1>11 DEF Genuine, Events
    <3>2. CASE chain # <<>> BY <1>1, <1>2, <1>5, <3>2, <1>11 DEF Genuine, Written
    <3> QED BY <3>1, <3>2
  <2>4. x.event <= emitted' BY <1>1, <2>1, <1>11 DEF Genuine, Events
  <2> QED BY <1>1, <1>3, <1>10, <2>1, <2>2, <2>3, <2>4, <1>11 DEF Genuine
<1>12. HeadStays BY <1>2, <1>5 DEF HeadStays
<1> QED BY <1>1, <1>3, <1>9, <1>10, <1>11, <1>12 DEF RowsStep

LEMMA CommitRows == ASSUME WriterOK, Commit, Faults = {} PROVE RowsStep /\ HeadStays
<1> DEFINE h == Head(chain)
<1>1. /\ chain' = chain /\ chain # <<>> /\ emitted' = emitted /\ h \in Events
      /\ \A c \in Clients : pc[c] # "head"
      /\ Written'
      /\ \/ pos[h] # None /\ pos' = pos
         \/ pos[h] = None /\ pos' = [pos EXCEPT ![h] = Head0]
  BY CommitWriter DEF Commit, Appending
<1>2. HeadStays BY <1>1 DEF HeadStays
<1> HIDE DEF h
<1>3. pos \in [Events -> Positions \cup {None}] BY DEF WriterOK, WriterTypes
<1>4. CASE pos' = pos
  <2>1. Stored' = Stored BY <1>4 DEF Stored
  <2>2. \A p \in Int : Reached(p) => Reached(p)' BY <1>4, <2>1 DEF Reached
  <2>3. \A x \in Entry : Genuine(x) => Genuine(x)' BY <1>1, <1>4, <2>1, <2>2 DEF Genuine, Reached
  <2>4. Written /\ pos'[Head(chain')] = pos[Head(chain)] BY <1>1, <1>4 DEF Written
  <2> QED BY <1>2, <1>4, <2>1, <2>2, <2>3, <2>4 DEF RowsStep
<1>5. CASE pos[h] = None /\ pos' = [pos EXCEPT ![h] = Head0]
  <2>1. Head0 \in Nat /\ \A f \in Stored : pos[f] < Head0 BY HeadIsNext DEF WriterOK
  <2>2. Stored' = Stored \cup {h} /\ pos'[h] = Head0 /\ h \notin Stored
        /\ \A e \in Stored : pos'[e] = pos[e]
    BY <1>1, <1>3, <1>5, <2>1 DEF Stored, None
  <2>3. \A p \in Int : Reached(p) => Reached(p)' BY <2>2 DEF Reached
  <2>4. ASSUME NEW x \in Entry, Genuine(x) PROVE Genuine(x)'
    <3>1. x.at \in Int /\ x.at \in Positions /\ x.event \in Events BY DEF Entry, Positions
    <3>2. x.event # h BY <1>1, <1>5, <2>4 DEF Genuine, Written, h
    <3>3. pos'[x.event] \in {x.at, None} BY <1>3, <1>5, <3>1, <3>2, <2>4 DEF Genuine
    <3>4. x.at < Head0
      <4>1. PICK f \in Stored : x.at <= pos[f] BY <2>4 DEF Genuine, Reached
      <4>2. pos[f] \in Nat BY RowTypes
      <4> QED BY <2>1, <3>1, <4>1, <4>2
    <3>5. \A e \in Stored' : pos'[e] = x.at => e = x.event
      BY <2>1, <2>2, <3>1, <3>4, <2>4 DEF Genuine
    <3> QED BY <1>1, <2>3, <3>1, <3>3, <3>5, <2>4 DEF Genuine
  <2>5. \A f \in Stored : pos[f] < pos'[h] BY <2>1, <2>2
  <2>6. \A e \in Stored' : (e \in Stored /\ pos'[e] = pos[e]) \/ e = Head(chain)
    BY <2>2 DEF h
  <2> QED BY <1>1, <1>2, <2>3, <2>4, <2>5, <2>6 DEF RowsStep, h
<1> QED BY <1>1, <1>4, <1>5

LEMMA DropRows ==
  ASSUME WriterOK, chain # <<>>, chain' = Tail(chain), UNCHANGED <<emitted, pos>>, ~Written'
  PROVE  RowsStep /\ Stored' = Stored
<1>1. Stored' = Stored BY DEF Stored
<1>2. /\ chain \in Seq(Events) /\ Len(chain) \in Nat /\ Len(chain) >= 1 /\ Head(chain) = chain[1]
      /\ chain' \in Seq(Events) /\ Len(chain') = Len(chain) - 1 /\ 1 \in 1..Len(chain)
      /\ \A i \in 1..Len(chain') : chain'[i] = chain[i + 1] /\ i + 1 \in 1..Len(chain)
  BY ChainHead DEF WriterOK, WriterTypes
<1>3. \A p \in Int : Reached(p) => Reached(p)' BY <1>1 DEF Reached
<1>4. ASSUME NEW x \in Entry, Genuine(x) PROVE Genuine(x)'
  <2>1. x.at \in Int /\ x.event \in Nat BY DEF Entry, Positions, Events
  <2>2. \A i \in 1..Len(chain') : x.event <= chain'[i] BY <1>2, <1>4 DEF Genuine
  <2>3. chain' # <<>> => x.event # Head(chain')
    <3> SUFFICES ASSUME chain' # <<>> PROVE x.event # Head(chain') OBVIOUS
    <3>1. Len(chain') >= 1 /\ Head(chain') = chain'[1] BY <1>2, ChainHead
    <3>2. chain'[1] = chain[2] /\ 2 \in 1..Len(chain) BY <1>2, <3>1
    <3>3. chain[1] < chain[2] /\ chain[1] \in Nat /\ chain[2] \in Nat
      <4>1. chain[1] \in Events /\ chain[2] \in Events BY <1>2, <3>2
      <4>2. chain[1] < chain[2] BY <1>2, <3>2 DEF WriterOK, WriterInv, ChainOrdered
      <4> QED BY <4>1, <4>2 DEF Events
    <3>4. x.event <= chain[1] BY <1>2, <1>4 DEF Genuine
    <3> QED BY <2>1, <3>1, <3>2, <3>3, <3>4
  <2> QED BY <1>1, <1>3, <2>1, <2>2, <2>3, <1>4 DEF Genuine
<1> QED BY <1>1, <1>3, <1>4 DEF RowsStep

(* An append is given up only when none of its attempts committed. *)
LEMMA FailRows ==
  ASSUME WriterOK, AppendFails \/ ReplyLost, Faults = {}
  PROVE  RowsStep /\ HeadStays
<1>1. /\ chain # <<>> /\ UNCHANGED <<emitted, pos>>
      /\ \/ chain' = chain
         \/ chain' = Tail(chain) /\ pos[Head(chain)] = None
  BY DEF AppendFails, ReplyLost, Failed, Appending
<1>2. Stored' = Stored BY <1>1 DEF Stored
<1>3. CASE chain' = chain
  <2>1. \A p \in Int : Reached(p) => Reached(p)' BY <1>1, <1>2 DEF Reached
  <2>2. \A x \in Entry : Genuine(x) => Genuine(x)'
    BY <1>1, <1>2, <1>3 DEF Genuine, Reached, Written
  <2>3. Written' => Written /\ pos'[Head(chain')] = pos[Head(chain)] BY <1>1, <1>3 DEF Written
  <2> QED BY <1>1, <1>2, <1>3, <2>1, <2>2, <2>3 DEF RowsStep, HeadStays
<1>4. CASE chain' = Tail(chain) /\ pos[Head(chain)] = None
  <2>1. ~Written'
    <3>1. WriterTypes BY DEF WriterOK
    <3>2. /\ reply' = None /\ tries' \in 0..Attempts /\ UNCHANGED <<awake, outages>>
      BY StreamAssumption DEF AppendFails, ReplyLost, Failed, Appending, WriterOK, WriterTypes
    <3> QED BY <1>1, <1>4, <3>2, DropHead
  <2>2. RowsStep BY <1>1, <1>4, <2>1, DropRows
  <2>3. HeadStays BY <1>2, <1>4 DEF HeadStays, Stored
  <2> QED BY <2>2, <2>3
<1> QED BY <1>1, <1>3, <1>4

(* Retention leaves the newest row, so also that of the chain's head. *)
LEMMA PruneRows == ASSUME WriterOK, Prune, Faults = {} PROVE RowsStep /\ HeadStays
<1>1. /\ UNCHANGED <<emitted, chain>>
      /\ \E oldest \in Stored :
           /\ Expired(oldest)
           /\ Stored' = {e \in Stored : e > oldest}
           /\ \A e \in Events : pos'[e] = IF e <= oldest THEN None ELSE pos[e]
  BY PruneWriter
<1>2. PICK oldest \in Stored :
           /\ Expired(oldest)
           /\ Stored' = {e \in Stored : e > oldest}
           /\ \A e \in Events : pos'[e] = IF e <= oldest THEN None ELSE pos[e]
  BY <1>1
<1>3. PICK newest \in Stored : newest > oldest BY <1>2 DEF Expired
<1>4. \A e \in Stored : e \in Events /\ e \in Nat /\ pos[e] \in Nat BY RowTypes
<1>5. \A e \in Stored' : e \in Stored /\ pos'[e] = pos[e] BY <1>2, <1>4
<1>6. newest \in Stored' BY <1>2, <1>3
<1>7. ASSUME NEW p \in Int, Reached(p) PROVE Reached(p)'
  <2>1. PICK e \in Stored : p <= pos[e] BY <1>7 DEF Reached
  <2>2. CASE e > oldest BY <1>2, <1>5, <2>1, <2>2 DEF Reached
  <2>3. CASE ~(e > oldest)
    <3>1. e < newest BY <1>3, <1>4, <2>3
    <3>2. pos[e] < pos[newest] BY <3>1 DEF WriterOK, WriterInv, LogInEmitOrder
    <3>3. p <= pos'[newest] BY <1>4, <1>5, <1>6, <2>1, <3>2
    <3> QED BY <1>6, <3>3 DEF Reached
  <2> QED BY <2>2, <2>3
<1>8. chain # <<>> => /\ Head(chain) \in Events /\ oldest < Head(chain)
                      /\ pos'[Head(chain)] = pos[Head(chain)]
  <2> SUFFICES ASSUME chain # <<>>
               PROVE  /\ Head(chain) \in Events /\ oldest < Head(chain)
                      /\ pos'[Head(chain)] = pos[Head(chain)]
    OBVIOUS
  <2>1. Head(chain) \in Events /\ Head(chain) = chain[1] /\ 1 \in 1..Len(chain)
    BY ChainHead DEF WriterOK, WriterTypes
  <2>2. newest <= Head(chain) BY <2>1 DEF WriterOK, WriterInv, ChainOrdered
  <2>3. oldest < Head(chain) BY <1>3, <1>4, <2>1, <2>2 DEF Events
  <2> QED BY <1>2, <1>4, <2>1, <2>3 DEF Events
<1>9. Written' => Written /\ pos'[Head(chain')] = pos[Head(chain)] BY <1>1, <1>8 DEF Written
<1>10. ASSUME NEW x \in Entry, Genuine(x) PROVE Genuine(x)'
  <2>1. x.at \in Int /\ x.event \in Events BY DEF Entry, Positions
  <2>2. pos'[x.event] \in {x.at, None} BY <1>2, <2>1, <1>10 DEF Genuine
  <2>3. \A e \in Stored' : pos'[e] = x.at => e = x.event BY <1>5, <1>10 DEF Genuine
  <2>4. chain' # <<>> /\ x.event = Head(chain') => Written'
    BY <1>1, <1>8, <1>10 DEF Genuine, Written
  <2>5. Reached(x.at)' BY <1>7, <2>1, <1>10 DEF Genuine
  <2> QED BY <1>1, <2>2, <2>3, <2>4, <2>5, <1>10 DEF Genuine
<1>11. HeadStays BY <1>1 DEF HeadStays
<1> QED BY <1>5, <1>7, <1>9, <1>10, <1>11 DEF RowsStep

LEMMA LifeRows ==
  ASSUME WriterOK, Crash \/ Dispose \/ Wake
  PROVE  RowsStep /\ (Dispose \/ Wake => HeadStays)
<1>1. /\ UNCHANGED <<emitted, pos>> /\ (chain' = chain \/ chain' = <<>>)
      /\ (Dispose \/ Wake => chain' = chain)
  BY DEF Crash, Dispose, Wake
<1>2. Stored' = Stored BY <1>1 DEF Stored
<1>3. \A p \in Int : Reached(p) => Reached(p)' BY <1>1, <1>2 DEF Reached
<1>4. \A x \in Entry : Genuine(x) => Genuine(x)' BY <1>1, <1>2 DEF Genuine, Reached, Written
<1>5. Written' => Written /\ pos'[Head(chain')] = pos[Head(chain)] BY <1>1 DEF Written
<1> QED BY <1>1, <1>2, <1>3, <1>4, <1>5 DEF RowsStep, HeadStays

(* A page is the first rows from its start, and all of them unless it is full. *)
LEMMA PageIsFirst ==
  ASSUME WriterOK, NEW start \in Nat
  PROVE  /\ \A e \in Stored : pos[e] >= start =>
                e \in Page(start) \/ \A f \in Page(start) : pos[f] < pos[e]
         /\ ~MorePages(Page(start)) => \A e \in Stored : pos[e] >= start => e \in Page(start)
<1> USE StreamAssumption
<1> DEFINE rows == {e \in Stored : pos[e] >= start}
           below(e) == {f \in rows : pos[f] < pos[e]}
<1>1. Page(start) = {e \in rows : Cardinality(below(e)) < PageSize} BY DEF Page
<1>2. \A e \in rows : e \in Stored /\ pos[e] \in Nat /\ pos[e] \in Positions /\ e \in Events
  BY RowTypes
<1>3. IsFiniteSet(rows)
  <2>1. IsFiniteSet(Events) BY FS_Interval DEF Events
  <2>2. rows \subseteq Events BY <1>2
  <2> HIDE DEF rows
  <2> QED BY <2>1, <2>2, FS_Subset
<1> HIDE DEF rows
<1>4. \A e \in rows : below(e) \subseteq rows /\ IsFiniteSet(below(e))
                      /\ Cardinality(below(e)) \in Nat
  <2> TAKE e \in rows
  <2>1. below(e) \subseteq rows OBVIOUS
  <2> HIDE DEF below
  <2> QED BY <1>3, <2>1, FS_Subset, FS_CardinalityType
<1>5. ASSUME NEW e \in rows, NEW f \in rows, pos[e] <= pos[f]
      PROVE  Cardinality(below(e)) <= Cardinality(below(f))
  <2>1. below(e) \subseteq below(f) BY <1>2, <1>5
  <2> HIDE DEF below
  <2> QED BY <1>4, <2>1, FS_Subset
<1>6. ASSUME NEW e \in rows, e \notin Page(start), NEW f \in Page(start)
      PROVE  pos[f] < pos[e]
  <2>1. f \in rows /\ Cardinality(below(f)) < PageSize /\ Cardinality(below(e)) >= PageSize
    <3> HIDE DEF below
    <3> QED BY <1>1, <1>4, <1>6
  <2>2. ~(pos[e] <= pos[f])
    <3> HIDE DEF below
    <3> QED BY <1>4, <1>5, <2>1
  <2> QED BY <1>2, <2>1, <2>2
<1>7. ASSUME Page(start) # rows PROVE Cardinality(Page(start)) = PageSize
  <2> DEFINE rest == rows \ Page(start)
             P    == Page(start)
  <2>1. P \subseteq rows /\ IsFiniteSet(P) /\ Cardinality(P) \in Nat
    <3>1. P \subseteq rows BY <1>1
    <3> QED BY <1>3, <3>1, FS_Subset, FS_CardinalityType
  <2>2. \E e \in rest : \A f \in rest : pos[e] <= pos[f]
    <3> DEFINE T == {pos[e] : e \in rest}
    <3>1. T # {} BY <1>7, <2>1
    <3>2. T \in SUBSET Nat BY <1>2
    <3>3. \E m \in T : \A n \in T : m <= n
      <4> HIDE DEF T
      <4> QED BY <3>1, <3>2, LeastNat
    <3> QED BY <3>3
  <2>3. PICK e \in rest : \A f \in rest : pos[e] <= pos[f] BY <2>2
  <2>4. below(e) = P
    <3>1. ASSUME NEW f \in below(e) PROVE f \in P
      <4>1. f \in rows /\ pos[f] < pos[e] BY <3>1
      <4> QED BY <1>2, <2>3, <4>1
    <3>2. \A f \in P : f \in below(e) BY <1>6, <2>1, <2>3
    <3> HIDE DEF P
    <3> QED BY <3>1, <3>2
  <2>5. Cardinality(P) >= PageSize
    <3>1. e \in rows /\ e \notin Page(start) OBVIOUS
    <3> HIDE DEF below, P
    <3>2. ~(Cardinality(below(e)) < PageSize) BY <1>1, <3>1
    <3> QED BY <2>1, <2>4, <3>2
  <2>6. P # {}
    <3> SUFFICES ASSUME P = {} PROVE FALSE OBVIOUS
    <3>1. Cardinality(P) = 0
      <4> HIDE DEF P
      <4> QED BY FS_EmptySet
    <3> HIDE DEF P
    <3> QED BY <2>5, <3>1
  <2>7. \E g \in P : \A f \in P : pos[f] <= pos[g]
    <3> DEFINE T == {pos[f] : f \in P}
    <3>1. T # {} BY <2>6
    <3>2. T \in SUBSET (-1 .. MaxEvents) BY <1>2, <2>1 DEF Positions
    <3>3. \E m \in T : \A n \in T : n <= m
      <4> HIDE DEF T
      <4> QED BY <3>1, <3>2, Greatest
    <3> QED BY <3>3
  <2>8. PICK g \in P : \A f \in P : pos[f] <= pos[g] BY <2>7
  <2>9. P \ {g} \subseteq below(g)
    <3> SUFFICES ASSUME NEW f \in P, f # g PROVE f \in below(g) OBVIOUS
    <3>1. f \in rows /\ g \in rows BY <2>1
    <3>2. f < g \/ g < f BY <1>2, <3>1 DEF Events
    <3>3. pos[f] # pos[g]
      BY <1>2, <3>1, <3>2 DEF WriterOK, WriterInv, LogInEmitOrder
    <3>4. pos[f] < pos[g] BY <1>2, <2>8, <3>1, <3>3
    <3> QED BY <3>1, <3>4
  <2>10. Cardinality(below(g)) < PageSize
    <3> HIDE DEF below
    <3> QED BY <1>1
  <2>11. Cardinality(P \ {g}) = Cardinality(P) - 1
    <3> HIDE DEF P
    <3> QED BY <2>1, FS_RemoveElement
  <2>12. Cardinality(P \ {g}) <= Cardinality(below(g))
    <3>1. g \in rows BY <2>1
    <3> HIDE DEF P, below
    <3> QED BY <1>4, <2>9, <3>1, FS_Subset
  <2>13. Cardinality(below(g)) \in Nat BY <1>4, <2>1
  <2> HIDE DEF P, below
  <2>14. Cardinality(P) = PageSize BY <2>1, <2>5, <2>10, <2>11, <2>12, <2>13
  <2> QED BY <2>14 DEF P
<1>8. ~MorePages(Page(start)) => Page(start) = rows BY <1>7 DEF MorePages
<1> QED BY <1>6, <1>8 DEF rows

-----------------------------------------------------------------------------
(* Queues of entries.                                                       *)

LEMMA NoItems == Items(<<>>) = {} /\ Sorted(<<>>)
<1>1. Len(<<>>) = 0 /\ 1..0 = {} OBVIOUS
<1> QED BY <1>1 DEF Items, Sorted

LEMMA OneItem ==
  ASSUME NEW s \in Seq(Entry), s # <<>>, Len(s) <= 1
  PROVE  Items(s) = {s[1]} /\ s[1] \in Entry
<1>1. Len(s) \in Nat /\ Len(s) >= 1 /\ Head(s) = s[1] /\ Head(s) \in Entry BY ChainHead
<1> DEFINE n == Len(s)
<1>2. n \in Nat /\ n >= 1 /\ n <= 1 BY <1>1
<1>3. n = 1
  <2> HIDE DEF n
  <2> QED BY <1>2
<1>4. 1..Len(s) = {1} BY <1>3
<1> QED BY <1>1, <1>4 DEF Items

LEMMA HeadAndTail ==
  ASSUME NEW s \in Seq(Entry), s # <<>>, Sorted(s)
  PROVE  /\ Items(s) = {Head(s)} \cup Items(Tail(s)) /\ Head(s) \in Items(s)
         /\ Sorted(Tail(s)) /\ \A y \in Items(Tail(s)) : Head(s).at < y.at
<1>1. /\ Len(s) \in Nat /\ Len(s) >= 1 /\ Head(s) = s[1] /\ Head(s) \in Entry
      /\ Tail(s) \in Seq(Entry) /\ Len(Tail(s)) = Len(s) - 1
      /\ \A i \in 1..Len(Tail(s)) : Tail(s)[i] = s[i + 1] /\ i + 1 \in 1..Len(s)
  BY ChainHead
<1>2. 1 \in 1..Len(s) BY <1>1
<1>3. \A i \in 1..Len(s) : i = 1 \/ (i - 1 \in 1..Len(Tail(s)) /\ s[i] = Tail(s)[i - 1])
  <2> TAKE i \in 1..Len(s)
  <2>1. CASE i # 1
    <3>1. i - 1 \in 1..Len(Tail(s)) /\ (i - 1) + 1 = i BY <1>1, <2>1
    <3>2. Tail(s)[i - 1] = s[(i - 1) + 1] BY <1>1, <3>1
    <3> QED BY <3>1, <3>2
  <2> QED BY <2>1
<1>4. Items(s) = {Head(s)} \cup Items(Tail(s))
  <2>1. ASSUME NEW y \in Items(s) PROVE y = Head(s) \/ y \in Items(Tail(s))
    <3>1. PICK i \in 1..Len(s) : y = s[i] BY DEF Items
    <3> QED BY <1>1, <1>3, <3>1 DEF Items
  <2>2. \A y \in Items(Tail(s)) : y \in Items(s) BY <1>1 DEF Items
  <2>3. Head(s) \in Items(s) BY <1>1, <1>2 DEF Items
  <2> QED BY <2>1, <2>2, <2>3
<1>5. Sorted(Tail(s))
  <2> SUFFICES ASSUME NEW i \in 1..Len(Tail(s)), NEW j \in 1..Len(Tail(s)), i < j
               PROVE  Tail(s)[i].at < Tail(s)[j].at
    BY DEF Sorted
  <2>1. i + 1 \in 1..Len(s) /\ j + 1 \in 1..Len(s) /\ i + 1 < j + 1 BY <1>1
  <2>2. s[i + 1].at < s[j + 1].at BY <2>1 DEF Sorted
  <2> QED BY <1>1, <2>2
<1>6. ASSUME NEW y \in Items(Tail(s)) PROVE Head(s).at < y.at
  <2>1. PICK i \in 1..Len(Tail(s)) : y = Tail(s)[i] BY DEF Items
  <2>2. i + 1 \in 1..Len(s) /\ 1 < i + 1 /\ y = s[i + 1] BY <1>1, <2>1
  <2>3. s[1].at < s[i + 1].at BY <1>2, <2>2 DEF Sorted
  <2> QED BY <1>1, <2>2, <2>3
<1> QED BY <1>1, <1>2, <1>4, <1>5, <1>6

LEMMA AppendItems ==
  ASSUME NEW s \in Seq(Entry), NEW z \in Entry, Sorted(s), \A y \in Items(s) : y.at < z.at
  PROVE  Items(Append(s, z)) = Items(s) \cup {z} /\ Sorted(Append(s, z))
<1> DEFINE t == Append(s, z)
<1>1. /\ t \in Seq(Entry) /\ Len(t) = Len(s) + 1 /\ Len(s) \in Nat
      /\ \A i \in 1..Len(s) : t[i] = s[i]
      /\ t[Len(s) + 1] = z
  BY Appended
<1> HIDE DEF t
<1>2. \A i \in 1..Len(t) : i \in 1..Len(s) \/ i = Len(s) + 1 BY <1>1
<1>3. \A i \in 1..Len(s) : i \in 1..Len(t) BY <1>1
<1>4. Len(s) + 1 \in 1..Len(t) BY <1>1
<1>5. Items(t) = Items(s) \cup {z}
  <2>1. \A y \in Items(t) : y \in Items(s) \/ y = z BY <1>1, <1>2 DEF Items
  <2>2. \A y \in Items(s) : y \in Items(t) BY <1>1, <1>3 DEF Items
  <2>3. z \in Items(t) BY <1>1, <1>4 DEF Items
  <2> QED BY <2>1, <2>2, <2>3
<1>6. Sorted(t)
  <2> SUFFICES ASSUME NEW i \in 1..Len(t), NEW j \in 1..Len(t), i < j PROVE t[i].at < t[j].at
    BY DEF Sorted
  <2>1. i \in 1..Len(s) BY <1>1
  <2>2. CASE j \in 1..Len(s) BY <1>1, <2>1, <2>2 DEF Sorted
  <2>3. CASE j = Len(s) + 1
    <3>1. s[i] \in Items(s) BY <2>1 DEF Items
    <3> QED BY <1>1, <2>1, <2>3, <3>1
  <2> QED BY <1>2, <2>2, <2>3
<1> QED BY <1>5, <1>6 DEF t

-----------------------------------------------------------------------------
(* What a step of the server leaves of a connection's part of the argument. *)

LEMMA StillRows == ASSUME UNCHANGED writer PROVE RowsStep /\ HeadStays
<1>1. UNCHANGED <<emitted, chain, pos>> BY DEF writer
<1>2. Stored' = Stored BY <1>1 DEF Stored
<1>3. \A p \in Int : Reached(p) => Reached(p)' BY <1>1, <1>2 DEF Reached
<1>4. \A x \in Entry : Genuine(x) => Genuine(x)' BY <1>1, <1>2 DEF Genuine, Reached, Written
<1>5. Written' => Written /\ pos'[Head(chain')] = pos[Head(chain)] BY <1>1 DEF Written
<1> QED BY <1>1, <1>2, <1>3, <1>4, <1>5 DEF RowsStep, HeadStays

LEMMA TailTypes ==
  ASSUME Conns, NEW c \in Clients
  PROVE  /\ buf[c] \in Seq(Entry) /\ hand[c] \in Seq(Entry) /\ Len(hand[c]) <= 1
         /\ Tail1(c) \subseteq Entry /\ Queued(c) \subseteq Entry /\ Held(c) \subseteq Entry
         /\ page[c] \subseteq Entry /\ Marks(c) \subseteq Positions
         /\ cursor[c] \in Nat /\ lastId[c] \in Positions \cup {None}
<1>1. buf[c] \in Seq(Entry) /\ hand[c] \in Seq(Entry) /\ Len(hand[c]) <= 1
  BY DEF Conns, ConnTypes
<1>2. ASSUME NEW s \in Seq(Entry) PROVE Items(s) \subseteq Entry BY DEF Items
<1>3. Marks(c) \subseteq Positions BY DEF Marks, Conns, ConnTypes, ClientTypes
<1>4. /\ page[c] \subseteq Entry /\ cursor[c] \in Nat /\ lastId[c] \in Positions \cup {None}
  BY DEF Conns, ConnTypes, ClientTypes
<1> QED BY <1>1, <1>2, <1>3, <1>4 DEF Tail1, Queued, Held

LEMMA EntriesKept ==
  ASSUME Grounded, WriterOK', RowsStep, NEW c \in Clients, Entries(c),
         \A x \in page'[c] \cup Tail1(c)' : x \in page[c] \cup Tail1(c) \/ Genuine(x)',
         \A x \in Tail1(c)' : x \in Tail1(c) \/ ~Written',
         \A m \in Marks(c)' : m \in Marks(c) \/ \E x \in Tail1(c) : m = x.at,
         \/ cursor'[c] = cursor[c] \/ cursor'[c] = 0
         \/ \E p \in Nat : Reached(p) /\ cursor'[c] = p + 1,
         \/ lastId'[c] = lastId[c] \/ \E p \in Nat : Reached(p) /\ lastId'[c] = p
  PROVE  Entries(c)'
<1>1. /\ Tail1(c) \subseteq Entry /\ page[c] \subseteq Entry /\ Marks(c) \subseteq Positions
      /\ cursor[c] \in Nat /\ lastId[c] \in Positions \cup {None}
  BY TailTypes DEF Grounded
<1>2. \A x \in page'[c] \cup Tail1(c)' : Genuine(x)' BY <1>1 DEF RowsStep, Entries
<1>3. \A f \in Stored : pos[f] \in Nat BY RowTypes DEF Grounded
<1>4. Written' => pos'[Head(chain')] \in Nat
  <2>1. \A e \in Stored' : pos'[e] \in Nat BY RowTypesNext
  <2>2. Written' => Head(chain') \in Stored'
    <3> SUFFICES ASSUME Written' PROVE Head(chain') \in Stored' OBVIOUS
    <3>1. chain' # <<>> /\ chain' \in Seq(Events) BY DEF Written, WriterOK, WriterTypes
    <3>2. Head(chain') \in Events BY <3>1
    <3> QED BY <3>2 DEF Written, Stored
  <2> QED BY <2>1, <2>2
<1>5. ASSUME NEW p \in Int, Reached(p), Written, p < pos[Head(chain)]
      PROVE  Written' => p < pos'[Head(chain')]
  <2> SUFFICES ASSUME Written' PROVE p < pos'[Head(chain')] OBVIOUS
  <2>1. CASE pos'[Head(chain')] = pos[Head(chain)] BY <1>5, <2>1
  <2>2. CASE \A f \in Stored : pos[f] < pos'[Head(chain')]
    <3>1. PICK f \in Stored : p <= pos[f] BY <1>5 DEF Reached
    <3> QED BY <1>3, <1>4, <2>2, <3>1
  <2> QED BY <2>1, <2>2 DEF RowsStep
<1>6. ASSUME NEW p \in Int, Reached(p), ~Written
      PROVE  Written' => p < pos'[Head(chain')]
  <2> SUFFICES ASSUME Written' PROVE p < pos'[Head(chain')] OBVIOUS
  <2>1. PICK f \in Stored : p <= pos[f] BY <1>6 DEF Reached
  <2>2. pos[f] < pos'[Head(chain')] BY <1>6 DEF RowsStep
  <2> QED BY <1>3, <1>4, <2>1, <2>2
<1>7. \A x \in Tail1(c)' : Written' => x.at < pos'[Head(chain')]
  <2> SUFFICES ASSUME NEW x \in Tail1(c)', Written' PROVE x.at < pos'[Head(chain')] OBVIOUS
  <2>1. x \in Tail1(c) OBVIOUS
  <2>2. x.at \in Int BY <1>1, <2>1 DEF Entry, Positions
  <2>3. Reached(x.at) /\ (Written => x.at < pos[Head(chain)]) BY <2>1 DEF Entries, Genuine
  <2> QED BY <1>5, <1>6, <2>2, <2>3
<1>8. \A m \in Marks(c)' : Reached(m)' /\ (Written' => m < pos'[Head(chain')])
  <2> TAKE m \in Marks(c)'
  <2>1. m \in Int /\ Reached(m) /\ (Written => m < pos[Head(chain)])
    <3>1. CASE m \in Marks(c) BY <1>1, <3>1 DEF Entries, Positions
    <3>2. CASE \E x \in Tail1(c) : m = x.at
      BY <1>1, <3>2 DEF Entries, Genuine, Entry, Positions
    <3> QED BY <3>1, <3>2
  <2> QED BY <1>5, <1>6, <2>1 DEF RowsStep
<1>9. cursor'[c] > 0 => \E e \in Stored' : cursor'[c] - 1 <= pos'[e]
  <2> SUFFICES ASSUME cursor'[c] > 0 PROVE \E e \in Stored' : cursor'[c] - 1 <= pos'[e] OBVIOUS
  <2>1. \E p \in Nat : Reached(p) /\ cursor'[c] = p + 1
    <3>1. CASE cursor'[c] = cursor[c]
      <4>1. cursor[c] - 1 \in Nat /\ cursor'[c] = (cursor[c] - 1) + 1 BY <1>1, <3>1
      <4>2. Reached(cursor[c] - 1) BY <3>1 DEF Entries
      <4> QED BY <4>1, <4>2
    <3> QED BY <3>1
  <2>2. PICK p \in Nat : Reached(p) /\ cursor'[c] = p + 1 BY <2>1
  <2>3. Reached(p)' BY <2>2 DEF RowsStep
  <2> QED BY <2>2, <2>3 DEF Reached
<1>10. lastId'[c] # None => \E e \in Stored' : lastId'[c] <= pos'[e]
  <2> SUFFICES ASSUME lastId'[c] # None PROVE \E e \in Stored' : lastId'[c] <= pos'[e] OBVIOUS
  <2>1. \E p \in Nat : Reached(p) /\ lastId'[c] = p
    <3>1. CASE lastId'[c] = lastId[c] BY <1>1, <3>1 DEF Entries, Positions
    <3> QED BY <3>1
  <2>2. PICK p \in Nat : Reached(p) /\ lastId'[c] = p BY <2>1
  <2>3. Reached(p)' BY <2>2 DEF RowsStep
  <2> QED BY <2>2, <2>3 DEF Reached
<1>11. /\ cursor'[c] > 0 => Reached(cursor[c] - 1)'
       /\ lastId'[c] # None => Reached(lastId[c])'
  BY <1>9, <1>10 DEF Reached
<1> QED BY <1>2, <1>7, <1>8, <1>11 DEF Entries

(* A new row lies above every position a connection has reached. *)
LEMMA NewRowAbove ==
  ASSUME Grounded, WriterOK', RowsStep, NEW c \in Clients, Entries(c),
         NEW e \in Stored', \A f \in Stored : pos[f] < pos'[e]
  PROVE  /\ lastId[c] < pos'[e] /\ cursor[c] <= pos'[e]
         /\ \A x \in page[c] \cup Tail1(c) : x.at < pos'[e]
<1>1. /\ Tail1(c) \subseteq Entry /\ page[c] \subseteq Entry
      /\ cursor[c] \in Nat /\ lastId[c] \in Positions \cup {None}
  BY TailTypes DEF Grounded
<1>2. \A f \in Stored : pos[f] \in Nat BY RowTypes DEF Grounded
<1>3. pos'[e] \in Nat BY RowTypesNext
<1>4. ASSUME NEW p \in Int, Reached(p) PROVE p < pos'[e] BY <1>2, <1>3, <1>4 DEF Reached
<1>5. lastId[c] < pos'[e]
  <2>1. CASE lastId[c] = None BY <1>3, <2>1 DEF None
  <2>2. CASE lastId[c] # None
    <3>1. lastId[c] \in Int /\ Reached(lastId[c]) BY <1>1, <2>2 DEF Entries, Positions
    <3> QED BY <1>4, <3>1
  <2> QED BY <2>1, <2>2
<1>6. cursor[c] <= pos'[e]
  <2>1. CASE cursor[c] > 0
    <3>1. cursor[c] - 1 \in Int /\ Reached(cursor[c] - 1) BY <1>1, <2>1 DEF Entries
    <3>2. cursor[c] - 1 < pos'[e] BY <1>4, <3>1
    <3> QED BY <1>1, <1>3, <3>2
  <2> QED BY <1>1, <1>3, <2>1
<1>7. ASSUME NEW x \in page[c] \cup Tail1(c) PROVE x.at < pos'[e]
  <2>1. x.at \in Int BY <1>1 DEF Entry, Positions
  <2>2. Reached(x.at) BY DEF Entries, Genuine
  <2> QED BY <1>4, <2>1, <2>2
<1> QED BY <1>5, <1>6, <1>7

LEMMA BehindKept ==
  ASSUME Grounded, WriterOK', RowsStep, NEW c \in Clients, Entries(c), Behind(c),
         pc'[c] \in {pc[c], "away"}, cursor'[c] = cursor[c], lastId'[c] = lastId[c],
         got'[c] = got[c], excused'[c] = excused[c]
  PROVE  Behind(c)'
<1> SUFFICES ASSUME NEW e \in Stored'
             PROVE  /\ pos'[e] <= lastId'[c] => Safe(c, e)'
                    /\ pc'[c] # "away" /\ pos'[e] < cursor'[c] => Safe(c, e)'
  BY DEF Behind
<1>1. CASE e \in Stored /\ pos'[e] = pos[e] BY <1>1 DEF Behind, Safe
<1>2. CASE \A f \in Stored : pos[f] < pos'[e]
  <2>1. lastId[c] < pos'[e] /\ cursor[c] <= pos'[e] BY <1>2, NewRowAbove
  <2>2. pos'[e] \in Nat BY RowTypesNext
  <2>3. cursor[c] \in Nat /\ lastId[c] \in Int
    BY TailTypes, StreamAssumption DEF Grounded, Positions, None
  <2> QED BY <2>1, <2>2, <2>3
<1> QED BY <1>1, <1>2 DEF RowsStep

LEMMA PageKept ==
  ASSUME Grounded, WriterOK', RowsStep, NEW c \in Clients, Entries(c), PageFirst(c),
         pc'[c] \in {pc[c], "away"}, cursor'[c] = cursor[c], page'[c] = page[c]
  PROVE  PageFirst(c)'
<1> SUFFICES ASSUME pc[c] = "frames", NEW e \in Stored', pos'[e] >= cursor'[c]
             PROVE  OnPage(c, e)' \/ \A x \in page'[c] : x.at < pos'[e]
  BY DEF PageFirst
<1>1. CASE e \in Stored /\ pos'[e] = pos[e] BY <1>1 DEF PageFirst, OnPage
<1>2. CASE \A f \in Stored : pos[f] < pos'[e] BY <1>2, NewRowAbove
<1> QED BY <1>1, <1>2 DEF RowsStep

Still(c) ==
  /\ cursor'[c] = cursor[c] /\ page'[c] = page[c] /\ more'[c] = more[c]
  /\ buf'[c] = buf[c] /\ lagFrom'[c] = lagFrom[c] /\ hand'[c] = hand[c]
  /\ lastId'[c] = lastId[c] /\ got'[c] = got[c] /\ told'[c] = told[c] /\ excused'[c] = excused[c]

(* A step of the server that hands out nothing. *)
LEMMA StillGap ==
  ASSUME Grounded, WriterOK', RowsStep, NEW c \in Clients, NoGap(c), Still(c),
         \/ pc'[c] = "away" /\ sub'[c] = "none"
         \/ /\ pc'[c] = pc[c] /\ (Attached(c)' => HeadStays /\ Attached(c))
            /\ (sub'[c] = "none" <=> sub[c] = "none")
  PROVE  NoGap(c)'
<1> USE DEF NoGap
<1>1. Tail1(c)' = Tail1(c) /\ Queued(c)' = Queued(c) /\ Held(c)' = Held(c) /\ Marks(c)' = Marks(c)
      /\ cursor'[c] = cursor[c] /\ lastId'[c] = lastId[c] /\ page'[c] = page[c]
  BY DEF Still, Tail1, Queued, Held, Marks
<1>2. Entries(c)' BY <1>1, EntriesKept
<1>3. TailOrdered(c)' BY <1>1 DEF TailOrdered, Still
<1>4. Behind(c)' BY BehindKept DEF Still
<1>5. PageFirst(c)' BY PageKept DEF Still
<1>6. Covers(c)'
  <2> SUFFICES ASSUME pc'[c] # "away" PROVE Covers(c)' BY DEF Covers
  <2>1. pc'[c] = pc[c] /\ (Attached(c)' => HeadStays /\ Attached(c)) OBVIOUS
  <2>2. pc[c] = "head" => Stored' = {}
    <3> SUFFICES ASSUME pc[c] = "head", NEW e \in Stored' PROVE FALSE OBVIOUS
    <3>1. e \in Stored BY DEF RowsStep
    <3> QED BY <3>1 DEF Covers
  <2>3. ASSUME pc[c] = "live" \/ (pc[c] = "frames" /\ ~more[c]),
               NEW e \in Stored', pos'[e] >= cursor[c]
        PROVE  (pc[c] = "frames" /\ OnPage(c, e)') \/ InTail(c, e)'
    <3>1. CASE e \in Stored /\ pos'[e] = pos[e]
      <4>1. CASE pc[c] = "frames" /\ OnPage(c, e) BY <1>1, <3>1, <4>1 DEF OnPage
      <4>2. CASE InTail(c, e)
        <5>1. CASE \E x \in Tail1(c) : x.event = e BY <1>1, <5>1 DEF InTail
        <5>2. CASE chain # <<>> /\ e = Head(chain) BY <2>1, <5>2 DEF HeadStays, InTail
        <5>3. CASE told[c] # None /\ told[c] <= pos[e] /\ \A x \in Tail1(c) : pos[e] < x.at
          BY <1>1, <3>1, <5>3 DEF InTail, Still
        <5>4. CASE lagFrom[c] # None /\ lagFrom[c] <= pos[e] /\ \A x \in Queued(c) : pos[e] < x.at
          BY <1>1, <3>1, <5>4 DEF InTail, Still
        <5>5. CASE ~Attached(c) BY <2>1, <5>5 DEF InTail
        <5> QED BY <4>2, <5>1, <5>2, <5>3, <5>4, <5>5 DEF InTail
      <4> QED BY <2>3, <3>1, <4>1, <4>2 DEF Covers
    <3>2. CASE chain # <<>> /\ chain' = chain /\ e = Head(chain) BY <3>2 DEF InTail
    <3> QED BY <3>1, <3>2 DEF RowsStep
  <2> QED BY <2>1, <2>2, <2>3 DEF Covers, Still
<1> QED BY <1>2, <1>3, <1>4, <1>5, <1>6

(* So is a step of another connection. *)
LEMMA SameGap ==
  ASSUME Grounded, Grounded', NEW c \in Clients, NoGap(c), Same(c), UNCHANGED writer
  PROVE  NoGap(c)'
<1>1. RowsStep /\ HeadStays BY StillRows
<1>2. Attached(c)' = Attached(c) BY DEF Same, Attached, Waiting
<1> QED BY <1>1, <1>2, StillGap DEF Same, Still, Grounded

LEMMA ServerGap ==
  ASSUME Grounded, Grounded', NEW c \in Clients, NoGap(c), Faults = {},
         Emit \/ Commit \/ AppendFails \/ ReplyLost \/ Prune \/ Crash \/ Dispose \/ Wake
  PROVE  NoGap(c)'
<1> USE DEF Grounded
<1>1. CASE Emit \/ Commit \/ AppendFails \/ ReplyLost \/ Prune \/ Wake
  <2>1. RowsStep /\ HeadStays
    BY <1>1, EmitRows, CommitRows, FailRows, PruneRows, LifeRows
  <2>2. UNCHANGED <<conn, client>> BY <1>1, QuietSteps
  <2>3. Still(c) /\ pc'[c] = pc[c] /\ sub'[c] = sub[c] BY <2>2 DEF conn, client, Still
  <2>4. Attached(c)' = Attached(c) BY <2>2 DEF conn, Attached, Waiting
  <2> QED BY <2>1, <2>3, <2>4, StillGap
<1>2. CASE Crash
  <2>1. RowsStep BY <1>2, LifeRows
  <2>2. Still(c) /\ pc'[c] = "away" /\ sub'[c] = "none" BY <1>2 DEF Crash, client, Still
  <2> QED BY <2>1, <2>2, StillGap
<1>3. CASE Dispose
  <2>1. RowsStep /\ HeadStays BY <1>3, LifeRows
  <2>2. Still(c) /\ pc'[c] = pc[c] BY <1>3 DEF Dispose, client, Still
  <2>3. sub'[c] = IF sub[c] = "open" THEN "closed" ELSE sub[c] BY <1>3 DEF Dispose
  <2>4. Waiting(c)' = Waiting(c) BY <1>3 DEF Dispose, Waiting
  <2>5. Attached(c)' => Attached(c) BY <2>3, <2>4 DEF Attached
  <2> QED BY <2>1, <2>2, <2>3, <2>5, StillGap
<1> QED BY <1>1, <1>2, <1>3

-----------------------------------------------------------------------------
(* The fan-out: the head of the chain joins the tail of each connection.    *)

Fanned == [event |-> Head(chain), at |-> reply]

LEMMA FannedIsLast ==
  ASSUME Grounded, FanOut
  PROVE  /\ RowsStep /\ Stored' = Stored /\ pos' = pos /\ ~Written' /\ Written
         /\ Head(chain) \in Stored /\ chain # <<>>
         /\ \E z \in Entry : /\ z = Fanned /\ z.event = Head(chain) /\ z.at = pos[Head(chain)]
                            /\ Genuine(z)'
                            /\ \A e \in Stored : e = Head(chain) \/ pos[e] < z.at
<1> USE DEF Grounded
<1>1. chain # <<>> /\ chain' = Tail(chain) /\ reply # None /\ UNCHANGED <<emitted, pos>>
  BY DEF FanOut
<1>2. ~Written' BY FanOutWriter
<1>3. RowsStep /\ Stored' = Stored BY <1>1, <1>2, DropRows
<1>4. Written /\ reply = pos[Head(chain)] BY <1>1 DEF WriterOK, WriterInv, ChainOrdered
<1>5. Head(chain) \in Events /\ Head(chain) = chain[1] /\ 1 \in 1..Len(chain) /\ reply \in Positions
  BY <1>1, ChainHead DEF WriterOK, WriterTypes
<1>6. /\ Fanned \in Entry /\ Fanned.event = Head(chain) /\ Fanned.at = pos[Head(chain)]
  BY <1>4, <1>5 DEF Fanned, Entry
<1>7. Head(chain) \in Stored BY <1>4, <1>5 DEF Stored, Written
<1>8. \A e \in Stored : e = Head(chain) \/ pos[e] < Fanned.at
  <2> TAKE e \in Stored
  <2>1. e <= Head(chain) /\ e \in Nat BY <1>5, RowTypes DEF WriterOK, WriterInv, ChainOrdered
  <2>2. CASE e < Head(chain) BY <1>6, <1>7, <2>2 DEF WriterOK, WriterInv, LogInEmitOrder
  <2> QED BY <1>5, <2>1, <2>2 DEF Events
<1>9. Genuine(Fanned)
  <2>1. Reached(Fanned.at)
    <3>1. Fanned.at <= pos[Head(chain)] BY <1>6, <1>7, RowTypes
    <3> QED BY <1>7, <3>1 DEF Reached
  <2>2. pos[Fanned.event] \in {Fanned.at, None} BY <1>6
  <2>3. \A e \in Stored : pos[e] = Fanned.at => e = Fanned.event
    <3> SUFFICES ASSUME NEW e \in Stored, pos[e] = Fanned.at PROVE e = Head(chain) BY <1>6
    <3>1. pos[e] \in Nat BY RowTypes
    <3> QED BY <1>8, <3>1
  <2>4. \A i \in 1..Len(chain) : Fanned.event <= chain[i]
    BY <1>6, <1>7 DEF WriterOK, WriterInv, ChainOrdered
  <2>5. Fanned.event <= emitted BY <1>6, <1>7 DEF WriterOK, WriterInv, ChainOrdered
  <2> QED BY <1>4, <2>1, <2>2, <2>3, <2>4, <2>5 DEF Genuine
<1>10. \E z \in Entry : z = Fanned /\ Genuine(z)'
  <2>1. PICK z \in Entry : z = Fanned BY <1>6
  <2>2. Genuine(z)' BY <1>3, <1>9, <2>1 DEF RowsStep
  <2> QED BY <2>1, <2>2
<1> QED BY <1>1, <1>2, <1>3, <1>4, <1>6, <1>7, <1>8, <1>10

LEMMA FannedTo ==
  ASSUME FanOut, NEW c \in Clients
  PROVE  /\ cursor'[c] = cursor[c] /\ page'[c] = page[c] /\ more'[c] = more[c] /\ pc'[c] = pc[c]
         /\ lastId'[c] = lastId[c] /\ got'[c] = got[c] /\ told'[c] = told[c]
         /\ excused'[c] = excused[c] /\ sub'[c] = sub[c]
         /\ \/ ~Attached(c) /\ UNCHANGED <<buf[c], lagFrom[c], hand[c]>>
            \/ Attached(c) /\ Waiting(c) /\ hand'[c] = <<Fanned>> /\ UNCHANGED <<buf[c], lagFrom[c]>>
            \/ /\ Attached(c) /\ ~Waiting(c) /\ UNCHANGED hand[c]
               /\ \/ buf'[c] = Append(buf[c], Fanned) /\ UNCHANGED lagFrom[c]
                  \/ /\ Len(Append(buf[c], Fanned)) > MaxOutbound
                     /\ buf'[c] = Tail(Append(buf[c], Fanned))
                     /\ lagFrom'[c] = IF lagFrom[c] = None THEN Append(buf[c], Fanned)[1].at
                                      ELSE lagFrom[c]
<1>1. UNCHANGED <<pc, cursor, page, more, sub, lastId, got, told, excused>>
  BY DEF FanOut, client
<1>2. /\ hand'[c] = IF Attached(c) /\ Waiting(c) THEN <<Fanned>> ELSE hand[c]
      /\ buf'[c] = IF ~Attached(c) \/ Waiting(c) THEN buf[c]
                   ELSE IF Len(Append(buf[c], Fanned)) > MaxOutbound
                        THEN Tail(Append(buf[c], Fanned)) ELSE Append(buf[c], Fanned)
      /\ lagFrom'[c] = IF /\ Attached(c) /\ ~Waiting(c) /\ lagFrom[c] = None
                          /\ Len(Append(buf[c], Fanned)) > MaxOutbound
                       THEN Append(buf[c], Fanned)[1].at ELSE lagFrom[c]
  BY DEF FanOut, Fanned, Overflows
<1> QED BY <1>1, <1>2

(* What the step leaves to show once the connection's new tail is known: z is in it, and an *)
(* entry that left it is where the next notice begins or after that.                        *)
LEMMA TailGrows ==
  ASSUME Grounded, Grounded', FanOut, NEW c \in Clients, NoGap(c), TailOrdered(c)',
         NEW z \in Entry, z.event = Head(chain), z.at = pos[Head(chain)], Genuine(z)',
         \A e \in Stored : e = Head(chain) \/ pos[e] < z.at,
         z \in Tail1(c)', Tail1(c)' \subseteq Tail1(c) \cup {z},
         Queued(c)' \subseteq Queued(c) \cup {z},
         \A m \in Marks(c)' : m \in Marks(c) \/ \E x \in Tail1(c) : m = x.at,
         lagFrom[c] # None => lagFrom'[c] = lagFrom[c],
         \A x \in Tail1(c) : \/ x \in Tail1(c)'
                             \/ /\ lagFrom'[c] # None /\ lagFrom'[c] <= x.at
                                /\ \A y \in Queued(c)' : x.at < y.at
  PROVE  NoGap(c)'
<1> USE DEF NoGap
<1>1. RowsStep /\ Stored' = Stored /\ pos' = pos /\ ~Written' BY FannedIsLast
<1>2. /\ cursor'[c] = cursor[c] /\ page'[c] = page[c] /\ more'[c] = more[c] /\ pc'[c] = pc[c]
      /\ lastId'[c] = lastId[c] /\ got'[c] = got[c] /\ told'[c] = told[c]
      /\ excused'[c] = excused[c] /\ sub'[c] = sub[c]
  BY FannedTo
<1>3. Entries(c)' BY <1>1, <1>2, EntriesKept DEF Grounded
<1>4. Behind(c)' BY <1>1, <1>2, BehindKept DEF Grounded
<1>5. PageFirst(c)' BY <1>1, <1>2, PageKept DEF Grounded
<1>6. ASSUME NEW e \in Stored, InTail(c, e), Attached(c) PROVE InTail(c, e)'
  <2>1. CASE e = Head(chain) BY <2>1 DEF InTail
  <2> SUFFICES ASSUME e # Head(chain) PROVE InTail(c, e)' BY <2>1
  <2>2. pos[e] < z.at OBVIOUS
  <2>3. CASE \E x \in Tail1(c) : x.event = e
    <3>1. PICK x \in Tail1(c) : x.event = e BY <2>3
    <3>2. CASE x \in Tail1(c)' BY <3>1, <3>2 DEF InTail
    <3>3. CASE x \notin Tail1(c)'
      <4>1. pos[e] = x.at BY <3>1 DEF Entries, Genuine, Stored
      <4> QED BY <1>1, <3>3, <4>1 DEF InTail
    <3> QED BY <3>2, <3>3
  <2>4. CASE told[c] # None /\ told[c] <= pos[e] /\ \A x \in Tail1(c) : pos[e] < x.at
    BY <1>1, <1>2, <2>2, <2>4 DEF InTail
  <2>5. CASE lagFrom[c] # None /\ lagFrom[c] <= pos[e] /\ \A x \in Queued(c) : pos[e] < x.at
    BY <1>1, <1>2, <2>2, <2>5 DEF InTail
  <2> QED BY <1>6, <2>3, <2>4, <2>5 DEF InTail
<1>7. Attached(c)
  <2> SUFFICES ASSUME ~Attached(c) PROVE FALSE OBVIOUS
  <2>1. UNCHANGED <<buf[c], hand[c]>> BY FannedTo
  <2>2. z \in Tail1(c) BY <2>1 DEF Tail1, Queued, Held
  <2>3. z.at < pos[Head(chain)] BY <2>2, FannedIsLast DEF Entries
  <2>4. z.at \in Nat BY StreamAssumption DEF Entry, Positions
  <2> QED BY <2>3, <2>4
<1>8. Covers(c)'
  <2>1. \A e : OnPage(c, e)' = OnPage(c, e) BY <1>1, <1>2 DEF OnPage
  <2> QED BY <1>1, <1>2, <1>6, <1>7, <2>1 DEF Covers
<1> QED BY <1>3, <1>4, <1>5, <1>8

LEMMA FanOutGap ==
  ASSUME Grounded, Grounded', FanOut, NEW c \in Clients, NoGap(c), Ahead(c)
  PROVE  NoGap(c)'
<1> USE DEF NoGap
<1>1. /\ RowsStep /\ Stored' = Stored /\ pos' = pos /\ Written /\ chain # <<>>
      /\ \E z \in Entry : /\ z = Fanned /\ z.event = Head(chain) /\ z.at = pos[Head(chain)]
                         /\ Genuine(z)' /\ \A e \in Stored : e = Head(chain) \/ pos[e] < z.at
  BY FannedIsLast
<1>2. PICK z \in Entry : /\ z = Fanned /\ z.event = Head(chain) /\ z.at = pos[Head(chain)]
                        /\ Genuine(z)' /\ \A e \in Stored : e = Head(chain) \/ pos[e] < z.at
  BY <1>1
<1>3. /\ cursor'[c] = cursor[c] /\ page'[c] = page[c] /\ more'[c] = more[c] /\ pc'[c] = pc[c]
      /\ lastId'[c] = lastId[c] /\ got'[c] = got[c] /\ told'[c] = told[c]
      /\ excused'[c] = excused[c] /\ sub'[c] = sub[c]
  BY FannedTo
<1>4. /\ buf[c] \in Seq(Entry) /\ hand[c] \in Seq(Entry) /\ Len(hand[c]) <= 1
      /\ Tail1(c) \subseteq Entry /\ Queued(c) \subseteq Entry /\ Held(c) \subseteq Entry
      /\ Marks(c) \subseteq Positions
  BY TailTypes DEF Grounded
<1>5. (\A x \in Tail1(c) : x.at < z.at) /\ \A m \in Marks(c) : m < z.at
  BY <1>1, <1>2 DEF Entries
<1>6. CASE ~Attached(c)
  <2>1. UNCHANGED <<buf[c], lagFrom[c], hand[c]>> BY <1>6, FannedTo
  <2>2. ~Attached(c)' BY <1>3, <1>6, <2>1 DEF Attached, Waiting
  <2>3. Still(c) BY <1>3, <2>1 DEF Still
  <2> QED BY <1>1, <1>3, <2>2, <2>3, StillGap DEF Grounded
<1> SUFFICES ASSUME Attached(c) PROVE NoGap(c)' BY <1>6
<1>7. pc[c] # "away" BY DEF TailOrdered, Attached
<1>8. CASE Waiting(c)
  <2>1. /\ pc[c] = "live" /\ hand[c] = <<>> /\ buf[c] = <<>> /\ lagFrom[c] = None
        /\ hand'[c] = <<z>> /\ buf'[c] = <<>> /\ lagFrom'[c] = None
    BY <1>2, <1>8, FannedTo DEF Waiting
  <2>2. Items(<<z>>) = {z}
    <3>1. <<z>> \in Seq(Entry) /\ <<z>> # <<>> /\ Len(<<z>>) <= 1 /\ <<z>>[1] = z OBVIOUS
    <3> QED BY <3>1, OneItem
  <2>3. Queued(c) = {} /\ Held(c) = {} /\ Queued(c)' = {} /\ Held(c)' = {z} /\ Sorted(buf[c])'
    BY <2>1, <2>2, NoItems DEF Queued, Held
  <2>4. Tail1(c) = {} /\ Tail1(c)' = {z} BY <2>3 DEF Tail1
  <2>5. Marks(c)' = Marks(c) BY <1>3, <2>1 DEF Marks
  <2>6. told[c] # None => told[c] < z.at BY <1>5 DEF Marks
  <2>7. sub[c] # "none" BY DEF Attached
  <2>8. TailOrdered(c)' BY <1>3, <2>1, <2>3, <2>4, <2>6, <2>7 DEF TailOrdered
  <2> QED BY <1>2, <2>1, <2>3, <2>4, <2>5, <2>8, TailGrows
<1> SUFFICES ASSUME ~Waiting(c) PROVE NoGap(c)' BY <1>8
<1> DEFINE b == Append(buf[c], z)
<1>9. /\ b \in Seq(Entry) /\ b # <<>> /\ Len(b) = Len(buf[c]) + 1 /\ Len(buf[c]) \in Nat
      /\ \A i \in 1..Len(buf[c]) : b[i] = buf[c][i]
  <2>1. /\ b \in Seq(Entry) /\ Len(b) = Len(buf[c]) + 1 /\ Len(buf[c]) \in Nat
        /\ \A i \in 1..Len(buf[c]) : b[i] = buf[c][i]
    BY <1>4, Appended
  <2> HIDE DEF b
  <2> QED BY <2>1
<1>10. Sorted(buf[c]) /\ \A y \in Queued(c) : y.at < z.at BY <1>5, <1>7 DEF TailOrdered, Tail1
<1>11. Items(b) = Queued(c) \cup {z} /\ Sorted(b) BY <1>4, <1>10, AppendItems DEF Queued
<1> HIDE DEF b
<1>12. hand'[c] = hand[c] /\ Held(c)' = Held(c) BY FannedTo DEF Held
<1>13. sub[c] # "none" BY DEF Attached
<1>14. CASE buf'[c] = b /\ lagFrom'[c] = lagFrom[c]
  <2>1. Queued(c)' = Queued(c) \cup {z} /\ Sorted(buf[c])' BY <1>11, <1>14 DEF Queued
  <2>2. Tail1(c)' = Tail1(c) \cup {z} BY <1>12, <2>1 DEF Tail1
  <2>3. Marks(c)' = Marks(c) BY <1>3, <1>14 DEF Marks
  <2>4. /\ told[c] # None => told[c] < z.at
        /\ lagFrom[c] # None => lagFrom[c] < z.at
    BY <1>5 DEF Marks
  <2>5. \A x \in Held(c) : x.at < z.at BY <1>5 DEF Tail1
  <2>6. TailOrdered(c)'
    BY <1>3, <1>7, <1>12, <1>13, <1>14, <2>1, <2>2, <2>4, <2>5 DEF TailOrdered
  <2> QED BY <1>2, <1>14, <2>1, <2>2, <2>3, <2>6, TailGrows
<1>15. CASE /\ Len(b) > MaxOutbound /\ buf'[c] = Tail(b)
            /\ lagFrom'[c] = IF lagFrom[c] = None THEN b[1].at ELSE lagFrom[c]
  <2>1. /\ Items(b) = {Head(b)} \cup Queued(c)' /\ Sorted(buf[c])'
        /\ \A y \in Queued(c)' : Head(b).at < y.at
    BY <1>9, <1>11, <1>15, HeadAndTail DEF Queued
  <2>2. Head(b) = b[1] /\ b[1] = buf[c][1] /\ b[1] \in Queued(c) /\ b[1] \in Entry
    <3>1. 1 \in 1..Len(buf[c]) BY <1>9, <1>15, StreamAssumption
    <3>2. Head(b) = b[1] BY <1>9, ChainHead
    <3>3. b[1] \in Queued(c) BY <1>9, <3>1 DEF Queued, Items
    <3> QED BY <1>4, <1>9, <3>1, <3>2, <3>3
  <2> DEFINE y == b[1]
  <2>3. y.at \in Nat /\ z.at \in Nat /\ y.at < z.at
    BY <1>10, <2>2, StreamAssumption DEF Entry, Positions
  <2>4. y \in Tail1(c) /\ y \in Queued(c) /\ y \in Entry BY <2>2 DEF Tail1
  <2>5. lagFrom'[c] = IF lagFrom[c] = None THEN y.at ELSE lagFrom[c] BY <1>15
  <2>6. \A q \in Queued(c)' : y.at < q.at BY <2>1, <2>2
  <2>7. Queued(c) \cup {z} = {y} \cup Queued(c)' BY <1>11, <2>1, <2>2
  <2>8. Tail1(c) \cup {z} = {y} \cup Tail1(c)' BY <1>12, <2>7 DEF Tail1
  <2> HIDE DEF y
  <2>9. z \in Queued(c)' BY <2>3, <2>7
  <2>10. z \in Tail1(c)' BY <2>9 DEF Tail1
  <2>11. lagFrom[c] # None => lagFrom[c] < y.at BY <1>7, <2>4 DEF TailOrdered
  <2>12. lagFrom'[c] # None /\ lagFrom'[c] <= y.at
    <3>1. lagFrom[c] \in Positions \cup {None} BY DEF Grounded, Conns, ConnTypes
    <3> QED BY <2>3, <2>5, <2>11, <3>1 DEF None, Positions
  <2>13. \A q \in Queued(c)' : lagFrom'[c] < q.at
    <3> TAKE q \in Queued(c)'
    <3>1. q \in Entry BY <1>4, <2>7
    <3>2. q.at \in Nat BY <3>1, StreamAssumption DEF Entry, Positions
    <3>3. lagFrom'[c] \in Positions \cup {None} BY DEF Grounded, Conns, ConnTypes
    <3> QED BY <2>3, <2>6, <2>12, <3>2, <3>3 DEF None, Positions
  <2>14. \A x \in Held(c) : x.at < lagFrom'[c]
    BY <1>7, <2>4, <2>5 DEF TailOrdered
  <2>15. told[c] # None => /\ \A x \in Tail1(c) \cup {z} : told[c] < x.at
                          /\ told[c] < lagFrom'[c]
    BY <1>5, <1>7, <2>4, <2>5 DEF TailOrdered, Marks
  <2>16. TailOrdered(c)'
    <3>1. \A x \in Held(c) : \A q \in Queued(c)' : x.at < q.at
      BY <1>5, <1>7, <2>7 DEF TailOrdered, Tail1
    <3>2. told[c] # None => \A x \in Tail1(c)' : told[c] < x.at BY <2>8, <2>15
    <3> QED BY <1>3, <1>7, <1>12, <1>13, <2>1, <2>13, <2>14, <2>15, <3>1, <3>2 DEF TailOrdered
  <2>17. \A m \in Marks(c)' : m \in Marks(c) \/ \E x \in Tail1(c) : m = x.at
    BY <1>3, <2>4, <2>5 DEF Marks
  <2>18. Tail1(c)' \subseteq Tail1(c) \cup {z} /\ Queued(c)' \subseteq Queued(c) \cup {z}
    BY <2>7, <2>8
  <2>19. \A x \in Tail1(c) : \/ x \in Tail1(c)'
                             \/ /\ lagFrom'[c] # None /\ lagFrom'[c] <= x.at
                                /\ \A q \in Queued(c)' : x.at < q.at
    BY <2>6, <2>8, <2>12
  <2> QED BY <1>2, <2>5, <2>10, <2>16, <2>17, <2>18, <2>19, TailGrows
<1> QED BY <1>2, <1>14, <1>15, FannedTo DEF b

-----------------------------------------------------------------------------
(* The steps of a connection.                                               *)

LEMMA ClientRows ==
  ASSUME NEW c \in Clients, ClientStep(c)
  PROVE  /\ RowsStep /\ pos' = pos /\ chain' = chain /\ Stored' = Stored
         /\ \A x : Genuine(x) <=> Genuine(x)'
<1>1. UNCHANGED <<emitted, chain, pos>> /\ UNCHANGED writer BY ClientKeepsWriter DEF writer
<1>2. Stored' = Stored BY <1>1 DEF Stored
<1>3. \A x : Genuine(x) <=> Genuine(x)' BY <1>1, <1>2 DEF Genuine, Reached, Written
<1> QED BY <1>1, <1>2, <1>3, StillRows

LEMMA ConnectGap ==
  ASSUME Grounded, WriterOK', NEW c \in Clients, NoGap(c), Connect(c)
  PROVE  NoGap(c)'
<1> USE DEF NoGap
<1>1. RowsStep /\ pos' = pos /\ chain' = chain /\ Stored' = Stored BY ClientRows DEF ClientStep
<1>2. /\ pc'[c] = "reading" /\ sub'[c] \in {"open", "none"} /\ buf'[c] = <<>> /\ hand'[c] = <<>>
      /\ lagFrom'[c] = None /\ told'[c] = None /\ page'[c] = {} /\ cursor'[c] = lastId[c] + 1
      /\ UNCHANGED <<lastId, got, excused>>
  BY DEF Connect, Grounded, Conns, ConnTypes, ClientTypes
<1>3. Queued(c)' = {} /\ Held(c)' = {} /\ Tail1(c)' = {} /\ Marks(c)' = {} /\ Sorted(buf[c])'
  BY <1>2, NoItems DEF Queued, Held, Tail1, Marks
<1>4. lastId[c] \in Positions \cup {None} BY TailTypes DEF Grounded
<1>5. cursor'[c] = 0 \/ \E p \in Nat : Reached(p) /\ cursor'[c] = p + 1
  <2>1. CASE lastId[c] = None BY <1>2, <2>1 DEF None
  <2>2. CASE lastId[c] # None
    <3>1. lastId[c] \in Nat BY <1>4, <2>2, StreamAssumption DEF Positions
    <3> QED BY <1>2, <2>2, <3>1 DEF Entries
  <2> QED BY <2>1, <2>2
<1>6. Entries(c)' BY <1>1, <1>2, <1>3, <1>5, EntriesKept
<1>7. TailOrdered(c)' BY <1>2, <1>3 DEF TailOrdered
<1>8. Behind(c)'
  <2> SUFFICES ASSUME NEW e \in Stored, pos[e] <= lastId[c] \/ pos[e] < lastId[c] + 1
               PROVE  Safe(c, e)
    BY <1>1, <1>2 DEF Behind, Safe
  <2>1. pos[e] \in Nat /\ lastId[c] \in Int
    BY <1>4, RowTypes, StreamAssumption DEF Grounded, Positions, None
  <2>2. pos[e] <= lastId[c] BY <2>1
  <2> QED BY <2>2 DEF Behind
<1>9. PageFirst(c)' /\ Covers(c)' BY <1>2 DEF PageFirst, Covers
<1> QED BY <1>6, <1>7, <1>8, <1>9

LEMMA ReadPageGap ==
  ASSUME Grounded, WriterOK', NEW c \in Clients, NoGap(c), ReadPage(c)
  PROVE  NoGap(c)'
<1> USE DEF NoGap
<1> DEFINE P == Page(cursor[c])
<1>1. RowsStep /\ pos' = pos /\ chain' = chain /\ Stored' = Stored
      /\ \A x : Genuine(x) <=> Genuine(x)'
  BY ClientRows DEF ClientStep, StreamStep
<1>2. /\ pc[c] = "reading" /\ page'[c] = {[event |-> e, at |-> pos[e]] : e \in P}
      /\ more'[c] = MorePages(P)
      /\ pc'[c] = IF P # {} THEN "frames" ELSE IF cursor[c] > 0 THEN "live" ELSE "head"
      /\ UNCHANGED <<cursor, sub, buf, lagFrom, hand, lastId, got, told, excused>>
  BY DEF ReadPage, client, Grounded, Conns, ConnTypes
<1>3. Queued(c)' = Queued(c) /\ Held(c)' = Held(c) /\ Tail1(c)' = Tail1(c) /\ Marks(c)' = Marks(c)
  BY <1>2 DEF Queued, Held, Tail1, Marks
<1>4. cursor[c] \in Nat BY TailTypes DEF Grounded
<1>5. /\ \A e \in Stored : pos[e] >= cursor[c] => e \in P \/ \A f \in P : pos[f] < pos[e]
      /\ ~MorePages(P) => \A e \in Stored : pos[e] >= cursor[c] => e \in P
  BY <1>4, PageIsFirst DEF Grounded
<1>6. P \subseteq Stored BY DEF Page
<1> HIDE DEF P
<1>7. P = {} => ~MorePages(P)
  <2> SUFFICES ASSUME P = {} PROVE Cardinality(P) # PageSize BY DEF MorePages
  <2> QED BY FS_EmptySet, StreamAssumption
<1>8. \A x \in page'[c] : Genuine(x)
  <2> SUFFICES ASSUME NEW e \in Stored PROVE Genuine([event |-> e, at |-> pos[e]])
    BY <1>2, <1>6
  <2>1. e \in Events /\ e \in Nat /\ pos[e] \in Nat BY RowTypes DEF Grounded
  <2>2. Reached(pos[e]) BY <2>1 DEF Reached
  <2>3. \A f \in Stored : pos[f] = pos[e] => f = e
    <3> SUFFICES ASSUME NEW f \in Stored, pos[f] = pos[e] PROVE f = e OBVIOUS
    <3>1. f \in Nat /\ ~(f < e) /\ ~(e < f)
      BY <2>1, RowTypes DEF Grounded, WriterOK, WriterInv, LogInEmitOrder
    <3> QED BY <2>1, <3>1
  <2>4. e <= emitted /\ \A i \in 1..Len(chain) : e <= chain[i]
    BY DEF Grounded, WriterOK, WriterInv, ChainOrdered
  <2>5. chain # <<>> /\ e = Head(chain) => Written BY DEF Written, Stored
  <2> QED BY <2>2, <2>3, <2>4, <2>5 DEF Genuine
<1>9. Entries(c)' BY <1>1, <1>2, <1>3, <1>8, EntriesKept
<1>10. TailOrdered(c)' BY <1>2, <1>3 DEF TailOrdered
<1>11. Behind(c)' BY <1>1, <1>2 DEF Behind, Safe
<1>12. \A e \in P : OnPage(c, e)'
  <2> TAKE e \in P
  <2>1. [event |-> e, at |-> pos[e]] \in page'[c] BY <1>2
  <2>2. \E x \in page'[c] : x.event = e /\ x.at = pos[e] BY <2>1
  <2> QED BY <1>1, <2>2 DEF OnPage
<1>13. PageFirst(c)'
  <2> SUFFICES ASSUME NEW e \in Stored, pos[e] >= cursor[c]
               PROVE  OnPage(c, e)' \/ \A x \in page'[c] : x.at < pos[e]
    BY <1>1, <1>2 DEF PageFirst
  <2> QED BY <1>2, <1>5, <1>12
<1>14. Covers(c)'
  <2>1. pc'[c] = "frames" /\ ~more'[c] =>
          \A e \in Stored : pos[e] >= cursor[c] => OnPage(c, e)'
    BY <1>2, <1>5, <1>12
  <2>2. P = {} => \A e \in Stored : ~(pos[e] >= cursor[c]) BY <1>5, <1>7
  <2>3. pc'[c] = "head" => Stored = {}
    <3> SUFFICES ASSUME pc'[c] = "head", NEW e \in Stored PROVE FALSE OBVIOUS
    <3>1. cursor[c] = 0 /\ P = {} BY <1>2, <1>4
    <3>2. pos[e] \in Nat BY RowTypes DEF Grounded
    <3> QED BY <2>2, <3>1, <3>2
  <2>4. pc'[c] = "live" => P = {} BY <1>2
  <2> QED BY <1>1, <1>2, <2>1, <2>2, <2>3, <2>4 DEF Covers
<1> QED BY <1>9, <1>10, <1>11, <1>13, <1>14

LEMMA WriteRowGap ==
  ASSUME Grounded, WriterOK', NEW c \in Clients, NoGap(c), Ahead(c), WriteRow(c)
  PROVE  NoGap(c)'
<1> USE DEF NoGap
<1>1. RowsStep /\ pos' = pos /\ chain' = chain /\ Stored' = Stored
      /\ \A x : Genuine(x) <=> Genuine(x)'
  BY ClientRows DEF ClientStep, StreamStep
<1>2. pc[c] = "frames" /\ told[c] = None /\ hand[c] = <<>>
  BY DEF WriteRow, TailOrdered
<1>3. PICK x \in page[c] :
        /\ \A other \in page[c] : x.at <= other.at
        /\ lastId'[c] = x.at /\ got'[c] = got[c] \cup {x.event} /\ told'[c] = None
        /\ excused'[c] = excused[c]
        /\ cursor'[c] = x.at + 1 /\ page'[c] = page[c] \ {x}
        /\ pc'[c] = IF page[c] # {x} THEN "frames" ELSE IF more[c] THEN "reading" ELSE "live"
        /\ UNCHANGED <<more, sub, buf, lagFrom, hand>>
  <2>1. PICK x \in page[c] :
          /\ \A other \in page[c] : x.at <= other.at
          /\ Receive(c, x)
          /\ page' = [page EXCEPT ![c] = @ \ {x}]
          /\ cursor' = [cursor EXCEPT ![c] = AfterRow(c, x)]
          /\ pc' = [pc EXCEPT ![c] = IF page[c] # {x} THEN "frames"
                                    ELSE IF more[c] THEN "reading" ELSE "live"]
    BY DEF WriteRow
  <2>2. /\ lastId'[c] = x.at /\ got'[c] = got[c] \cup {x.event} /\ told'[c] = None
        /\ excused'[c] = excused[c]
    BY <1>2, <2>1 DEF Receive, Grounded, Conns, ConnTypes, ClientTypes
  <2>3. cursor'[c] = x.at + 1 /\ page'[c] = page[c] \ {x}
    BY <2>1 DEF AfterRow, Grounded, Conns, ConnTypes, ClientTypes
  <2>4. pc'[c] = IF page[c] # {x} THEN "frames" ELSE IF more[c] THEN "reading" ELSE "live"
    BY <2>1 DEF Grounded, Conns, ConnTypes, ClientTypes
  <2>5. UNCHANGED <<more, sub, buf, lagFrom, hand>> BY DEF WriteRow
  <2> QED BY <2>1, <2>2, <2>3, <2>4, <2>5
<1>4. Queued(c)' = Queued(c) /\ Held(c)' = Held(c) /\ Tail1(c)' = Tail1(c) /\ Marks(c)' = Marks(c)
  BY <1>2, <1>3 DEF Queued, Held, Tail1, Marks
<1>5. \A y \in page[c] : y.at \in Nat
  BY TailTypes, StreamAssumption DEF Grounded, Entry, Positions
<1>6. x.at >= cursor[c] /\ cursor[c] \in Nat /\ \A y, z \in page[c] : y.at = z.at => y = z
  BY <1>2, TailTypes DEF Ahead, Grounded
<1>7. Entries(c)'
  <2>1. x.at \in Nat /\ Reached(x.at) BY <1>5 DEF Entries, Genuine
  <2> QED BY <1>1, <1>3, <1>4, <2>1, EntriesKept
<1>8. TailOrdered(c)' BY <1>2, <1>3, <1>4 DEF TailOrdered
<1>9. ASSUME NEW e \in Stored, pos[e] <= x.at PROVE Safe(c, e)'
  <2>1. pos[e] \in Nat BY RowTypes DEF Grounded
  <2>2. CASE pos[e] < cursor[c] BY <1>1, <1>2, <1>3, <2>2 DEF Behind, Safe
  <2>3. CASE pos[e] >= cursor[c]
    <3>1. CASE OnPage(c, e)
      <4>1. PICK y \in page[c] : y.event = e /\ y.at = pos[e] BY <3>1 DEF OnPage
      <4>2. y.at = x.at BY <1>3, <1>5, <1>9, <4>1
      <4>3. y = x BY <1>6, <4>2
      <4> QED BY <1>3, <4>1, <4>3 DEF Safe
    <3>2. CASE \A y \in page[c] : y.at < pos[e] BY <1>5, <1>9, <2>1, <3>2
    <3> QED BY <1>2, <2>3, <3>1, <3>2 DEF PageFirst
  <2> QED BY <1>6, <2>1, <2>2, <2>3
<1>10. \A e \in Stored : pos[e] < x.at + 1 => pos[e] <= x.at
  BY <1>5, RowTypes DEF Grounded
<1>11. Behind(c)' BY <1>1, <1>3, <1>9, <1>10 DEF Behind
<1>12. ASSUME NEW e \in Stored, pos[e] >= x.at + 1
       PROVE  pos[e] >= cursor[c] /\ (OnPage(c, e) => OnPage(c, e)')
  <2>1. pos[e] \in Nat BY RowTypes DEF Grounded
  <2>2. pos[e] >= cursor[c] BY <1>5, <1>6, <1>12, <2>1
  <2>3. OnPage(c, e) => OnPage(c, e)'
    <3> SUFFICES ASSUME NEW y \in page[c], y.event = e, y.at = pos[e] PROVE OnPage(c, e)'
      BY DEF OnPage
    <3>1. y # x BY <1>5, <1>12, <2>1
    <3> QED BY <1>1, <1>3, <3>1 DEF OnPage
  <2> QED BY <2>2, <2>3
<1>13. PageFirst(c)' BY <1>1, <1>2, <1>3, <1>12 DEF PageFirst
<1>14. ASSUME NEW e \in Stored, InTail(c, e) PROVE InTail(c, e)'
  <2>1. ~Attached(c) => ~Attached(c)' BY <1>2, <1>3 DEF Attached, Waiting
  <2> QED BY <1>1, <1>2, <1>3, <1>4, <1>14, <2>1 DEF InTail
<1>15. Covers(c)'
  <2>1. pc'[c] # "head" BY <1>3
  <2>2. ASSUME pc'[c] = "live" \/ (pc'[c] = "frames" /\ ~more'[c]),
               NEW e \in Stored, pos[e] >= x.at + 1
        PROVE  (pc'[c] = "frames" /\ OnPage(c, e)') \/ InTail(c, e)'
    <3>1. ~more[c] BY <1>3, <2>2
    <3>2. OnPage(c, e) \/ InTail(c, e) BY <1>2, <1>12, <2>2, <3>1 DEF Covers
    <3>3. CASE OnPage(c, e)
      <4>1. OnPage(c, e)' BY <1>12, <2>2, <3>3
      <4>2. page[c] # {x} BY <1>3, <4>1 DEF OnPage
      <4> QED BY <1>3, <4>1, <4>2
    <3> QED BY <1>14, <3>2, <3>3
  <2> QED BY <1>1, <1>3, <2>1, <2>2 DEF Covers
<1> QED BY <1>7, <1>8, <1>11, <1>13, <1>15

LEMMA ReadHeadGap ==
  ASSUME Grounded, WriterOK', NEW c \in Clients, NoGap(c), Ahead(c), ReadHead(c)
  PROVE  NoGap(c)'
<1> USE DEF NoGap
<1>1. RowsStep /\ pos' = pos /\ chain' = chain /\ Stored' = Stored
      /\ \A x : Genuine(x) <=> Genuine(x)'
  BY ClientRows DEF ClientStep, StreamStep
<1>2. Stored = {} BY DEF ReadHead, Covers
<1>3. /\ pc[c] = "head" /\ pc'[c] = "live" /\ cursor'[c] = 0
      /\ UNCHANGED <<page, more, sub, buf, lagFrom, hand, lastId, got, told, excused>>
  BY <1>2, HeadIsNext DEF ReadHead, client, Grounded, WriterOK, Conns, ConnTypes
<1>4. Queued(c)' = Queued(c) /\ Held(c)' = Held(c) /\ Tail1(c)' = Tail1(c) /\ Marks(c)' = Marks(c)
  BY <1>3 DEF Queued, Held, Tail1, Marks
<1>5. Entries(c)' BY <1>1, <1>3, <1>4, EntriesKept
<1>6. TailOrdered(c)' BY <1>3, <1>4 DEF TailOrdered
<1>7. Behind(c)' /\ PageFirst(c)' /\ Covers(c)' BY <1>1, <1>2, <1>3 DEF Behind, PageFirst, Covers
<1> QED BY <1>5, <1>6, <1>7

(* The notice takes over the gap that the buffer left. *)
LEMMA TakeNoticeGap ==
  ASSUME Grounded, WriterOK', NEW c \in Clients, NoGap(c), TakeNotice(c)
  PROVE  NoGap(c)'
<1> USE DEF NoGap
<1>1. RowsStep /\ pos' = pos /\ chain' = chain /\ Stored' = Stored
      /\ \A x : Genuine(x) <=> Genuine(x)'
  BY ClientRows DEF ClientStep, StreamStep
<1>2. /\ pc[c] = "live" /\ hand[c] = <<>> /\ lagFrom[c] # None
      /\ lagFrom'[c] = None /\ told'[c] = IF told[c] = None THEN lagFrom[c] ELSE told[c]
      /\ UNCHANGED <<pc, cursor, page, more, sub, buf, hand, lastId, got, excused>>
  BY DEF TakeNotice, Grounded, Conns, ConnTypes, ClientTypes
<1>3. Queued(c)' = Queued(c) /\ Held(c)' = {} /\ Held(c) = {} /\ Tail1(c)' = Queued(c)
      /\ Tail1(c) = Queued(c)
  BY <1>2, NoItems DEF Queued, Held, Tail1
<1>4. Marks(c)' \subseteq Marks(c) BY <1>2 DEF Marks
<1>5. sub[c] # "none" BY <1>2 DEF TailOrdered
<1>6. Entries(c)' BY <1>1, <1>2, <1>3, <1>4, EntriesKept
<1>7. TailOrdered(c)' BY <1>2, <1>3, <1>5 DEF TailOrdered
<1>8. Behind(c)' BY <1>1, <1>2 DEF Behind, Safe
<1>9. PageFirst(c)' BY <1>2 DEF PageFirst
<1>10. ASSUME NEW e \in Stored, InTail(c, e) PROVE InTail(c, e)'
  <2>1. Attached(c) BY <1>2, <1>5 DEF Attached, Waiting, Grounded, Conns, ConnTypes
  <2>2. CASE lagFrom[c] # None /\ lagFrom[c] <= pos[e] /\ \A x \in Queued(c) : pos[e] < x.at
    <3>1. told[c] # None => told[c] < lagFrom[c] BY <1>2 DEF TailOrdered
    <3>2. /\ lagFrom[c] \in Positions \cup {None} /\ told[c] \in Positions \cup {None}
          /\ pos[e] \in Nat
      BY RowTypes DEF Grounded, Conns, ConnTypes, ClientTypes
    <3>3. told'[c] # None /\ told'[c] <= pos[e] BY <1>2, <2>2, <3>1, <3>2 DEF Positions, None
    <3> QED BY <1>1, <1>3, <2>2, <3>3 DEF InTail
  <2>3. CASE \E x \in Tail1(c) : x.event = e BY <1>3, <2>3 DEF InTail
  <2>4. CASE chain # <<>> /\ e = Head(chain) BY <1>1, <2>4 DEF InTail
  <2>5. CASE told[c] # None /\ told[c] <= pos[e] /\ \A x \in Tail1(c) : pos[e] < x.at
    BY <1>1, <1>2, <1>3, <2>5 DEF InTail
  <2> QED BY <1>10, <2>1, <2>2, <2>3, <2>4, <2>5 DEF InTail
<1>11. Covers(c)' BY <1>1, <1>2, <1>10 DEF Covers
<1> QED BY <1>6, <1>7, <1>8, <1>9, <1>11

LEMMA TakeEventGap ==
  ASSUME Grounded, WriterOK', NEW c \in Clients, NoGap(c), TakeEvent(c)
  PROVE  NoGap(c)'
<1> USE DEF NoGap
<1>1. RowsStep /\ pos' = pos /\ chain' = chain /\ Stored' = Stored
      /\ \A x : Genuine(x) <=> Genuine(x)'
  BY ClientRows DEF ClientStep, StreamStep
<1>2. /\ pc[c] = "live" /\ hand[c] = <<>> /\ lagFrom[c] = None /\ buf[c] # <<>>
      /\ hand'[c] = <<Head(buf[c])>> /\ buf'[c] = Tail(buf[c])
      /\ UNCHANGED <<pc, cursor, page, more, sub, lagFrom, lastId, got, told, excused>>
  BY DEF TakeEvent, client, Grounded, Conns, ConnTypes
<1>3. buf[c] \in Seq(Entry) BY TailTypes DEF Grounded
<1> DEFINE y == Head(buf[c])
<1>4. /\ Queued(c) = {y} \cup Queued(c)' /\ Sorted(buf[c])'
      /\ \A q \in Queued(c)' : y.at < q.at
  BY <1>2, <1>3, HeadAndTail DEF TailOrdered, Queued
<1>5. Held(c) = {} /\ Held(c)' = {y}
  <2>1. y \in Entry BY <1>2, <1>3, ChainHead
  <2>2. Items(<<y>>) = {y}
    <3> HIDE DEF y
    <3>1. <<y>> \in Seq(Entry) /\ <<y>> # <<>> /\ Len(<<y>>) <= 1 /\ <<y>>[1] = y BY <2>1
    <3> QED BY <3>1, OneItem
  <2> QED BY <1>2, <2>2, NoItems DEF Held
<1> HIDE DEF y
<1>6. Tail1(c)' = Tail1(c) BY <1>4, <1>5 DEF Tail1
<1>7. Marks(c)' = Marks(c) BY <1>2 DEF Marks
<1>8. sub[c] # "none" BY <1>2 DEF TailOrdered
<1>9. Entries(c)' BY <1>1, <1>2, <1>6, <1>7, EntriesKept
<1>10. TailOrdered(c)' BY <1>2, <1>4, <1>5, <1>6, <1>8 DEF TailOrdered
<1>11. Behind(c)' BY <1>1, <1>2 DEF Behind, Safe
<1>12. PageFirst(c)' BY <1>2 DEF PageFirst
<1>13. ASSUME NEW e \in Stored, InTail(c, e) PROVE InTail(c, e)'
  <2>1. Attached(c) BY <1>2, <1>8 DEF Attached, Waiting, Grounded, Conns, ConnTypes
  <2> QED BY <1>1, <1>2, <1>6, <1>13, <2>1 DEF InTail
<1>14. Covers(c)' BY <1>1, <1>2, <1>13 DEF Covers
<1> QED BY <1>9, <1>10, <1>11, <1>12, <1>14

LEMMA SkipLiveGap ==
  ASSUME Grounded, WriterOK', NEW c \in Clients, NoGap(c), SkipLive(c)
  PROVE  NoGap(c)'
<1> USE DEF NoGap
<1>1. RowsStep /\ pos' = pos /\ chain' = chain /\ Stored' = Stored
      /\ \A x : Genuine(x) <=> Genuine(x)'
  BY ClientRows DEF ClientStep, StreamStep
<1> DEFINE x == hand[c][1]
<1>2. /\ pc[c] = "live" /\ hand[c] # <<>> /\ x.at < cursor[c] /\ hand'[c] = <<>>
      /\ UNCHANGED <<pc, cursor, page, more, sub, buf, lagFrom, lastId, got, told, excused>>
  BY DEF SkipLive, Covered, client, Grounded, Conns, ConnTypes
<1>3. hand[c] \in Seq(Entry) /\ Len(hand[c]) <= 1 BY TailTypes DEF Grounded
<1>4. Held(c) = {x} /\ x \in Entry /\ Held(c)' = {} BY <1>2, <1>3, OneItem, NoItems DEF Held
<1> HIDE DEF x
<1>5. Queued(c)' = Queued(c) /\ Tail1(c)' = Queued(c) /\ Tail1(c) = Queued(c) \cup {x}
      /\ Marks(c)' = Marks(c)
  BY <1>2, <1>4 DEF Queued, Tail1, Marks
<1>6. sub[c] # "none" BY <1>2 DEF TailOrdered
<1>7. Entries(c)' BY <1>1, <1>2, <1>5, EntriesKept
<1>8. TailOrdered(c)' BY <1>2, <1>4, <1>5, <1>6 DEF TailOrdered
<1>9. Behind(c)' BY <1>1, <1>2 DEF Behind, Safe
<1>10. PageFirst(c)' BY <1>2 DEF PageFirst
<1>11. ASSUME NEW e \in Stored, pos[e] >= cursor[c], InTail(c, e) PROVE InTail(c, e)'
  <2>1. Attached(c) BY <1>2, <1>6 DEF Attached, Waiting, Grounded, Conns, ConnTypes
  <2>2. CASE \E y \in Tail1(c) : y.event = e
    <3>1. PICK y \in Tail1(c) : y.event = e BY <2>2
    <3>2. y # x
      <4>1. pos[e] = y.at BY <3>1 DEF Entries, Genuine, Stored
      <4>2. x.at \in Nat /\ cursor[c] \in Nat /\ pos[e] \in Nat
        BY <1>4, TailTypes, RowTypes, StreamAssumption DEF Grounded, Entry, Positions
      <4> QED BY <1>2, <1>11, <4>1, <4>2
    <3> QED BY <1>5, <3>1, <3>2 DEF InTail
  <2>3. CASE told[c] # None /\ told[c] <= pos[e] /\ \A y \in Tail1(c) : pos[e] < y.at
    BY <1>1, <1>2, <1>5, <2>3 DEF InTail
  <2> QED BY <1>1, <1>2, <1>5, <1>11, <2>1, <2>2, <2>3 DEF InTail
<1>12. Covers(c)' BY <1>1, <1>2, <1>11 DEF Covers
<1> QED BY <1>7, <1>8, <1>9, <1>10, <1>12

(* An event of the live tail: what the client has not below it lies in the notice's gap. *)
LEMMA WriteLiveGap ==
  ASSUME Grounded, WriterOK', NEW c \in Clients, NoGap(c), WriteLive(c)
  PROVE  NoGap(c)'
<1> USE DEF NoGap
<1>1. RowsStep /\ pos' = pos /\ chain' = chain /\ Stored' = Stored
      /\ \A x : Genuine(x) <=> Genuine(x)'
  BY ClientRows DEF ClientStep, StreamStep
<1> DEFINE x == hand[c][1]
<1>2. /\ pc[c] = "live" /\ hand[c] # <<>> /\ ~(x.at < cursor[c]) /\ hand'[c] = <<>>
      /\ cursor'[c] = x.at + 1 /\ lastId'[c] = x.at /\ got'[c] = got[c] \cup {x.event}
      /\ told'[c] = None
      /\ excused'[c] = IF told[c] = None THEN excused[c]
                       ELSE excused[c] \cup (told[c]..(x.at - 1))
      /\ UNCHANGED <<pc, page, more, sub, buf, lagFrom>>
  BY DEF WriteLive, Receive, Covered, Grounded, Conns, ConnTypes, ClientTypes
<1>3. hand[c] \in Seq(Entry) /\ Len(hand[c]) <= 1 BY TailTypes DEF Grounded
<1>4. Held(c) = {x} /\ x \in Entry /\ Held(c)' = {} BY <1>2, <1>3, OneItem, NoItems DEF Held
<1> HIDE DEF x
<1>5. Queued(c)' = Queued(c) /\ Tail1(c)' = Queued(c) /\ Tail1(c) = Queued(c) \cup {x}
      /\ Marks(c)' \subseteq Marks(c)
  BY <1>2, <1>4 DEF Queued, Tail1, Marks
<1>6. sub[c] # "none" BY <1>2 DEF TailOrdered
<1>7. x.at \in Nat /\ cursor[c] \in Nat
  BY <1>4, TailTypes, StreamAssumption DEF Grounded, Entry, Positions
<1>8. Entries(c)'
  <2>1. Reached(x.at) BY <1>5 DEF Entries, Genuine
  <2> QED BY <1>1, <1>2, <1>5, <1>7, <2>1, EntriesKept
<1>9. TailOrdered(c)' BY <1>2, <1>4, <1>5, <1>6 DEF TailOrdered
<1>10. Attached(c) BY <1>2, <1>6 DEF Attached, Waiting, Grounded, Conns, ConnTypes
<1>11. \A y \in Queued(c) : x.at < y.at BY <1>2, <1>4 DEF TailOrdered
<1>12. \A e \in Stored : \A y \in Tail1(c) : y.event = e => pos[e] = y.at
  BY DEF Entries, Genuine, Stored
<1>13. ASSUME NEW e \in Stored, pos[e] <= x.at PROVE Safe(c, e)'
  <2>1. pos[e] \in Nat BY RowTypes DEF Grounded
  <2>2. CASE pos[e] < cursor[c]
    <3>1. Safe(c, e) BY <1>2, <2>2 DEF Behind
    <3> QED BY <1>1, <1>2, <3>1 DEF Safe
  <2>3. CASE pos[e] >= cursor[c]
    <3>1. InTail(c, e) BY <1>2, <2>3 DEF Covers
    <3>2. CASE \E y \in Tail1(c) : y.event = e
      <4>1. PICK y \in Tail1(c) : y.event = e BY <3>2
      <4>2. pos[e] = y.at BY <1>12, <4>1
      <4>3. y = x BY <1>5, <1>7, <1>11, <1>13, <2>1, <4>2
      <4> QED BY <1>2, <4>1, <4>3 DEF Safe
    <3>3. CASE chain # <<>> /\ e = Head(chain)
      <4>1. Written BY <3>3 DEF Written, Stored
      <4>2. x.at < pos[e] BY <1>5, <3>3, <4>1 DEF Entries
      <4> QED BY <1>7, <1>13, <2>1, <4>2
    <3>4. CASE told[c] # None /\ told[c] <= pos[e] /\ \A y \in Tail1(c) : pos[e] < y.at
      <4>1. pos[e] < x.at BY <1>5, <3>4
      <4>2. told[c] \in Int BY <3>4 DEF Grounded, Conns, ClientTypes, Positions
      <4>3. pos[e] \in told[c]..(x.at - 1) BY <1>7, <2>1, <3>4, <4>1, <4>2
      <4> QED BY <1>1, <1>2, <3>4, <4>3 DEF Safe
    <3>5. CASE lagFrom[c] # None /\ lagFrom[c] <= pos[e] /\ \A y \in Queued(c) : pos[e] < y.at
      <4>1. x.at < lagFrom[c] BY <1>2, <1>4, <3>5 DEF TailOrdered
      <4>2. lagFrom[c] \in Int BY <3>5 DEF Grounded, Conns, ConnTypes, Positions
      <4> QED BY <1>7, <1>13, <2>1, <3>5, <4>1, <4>2
    <3> QED BY <1>10, <3>1, <3>2, <3>3, <3>4, <3>5 DEF InTail
  <2> QED BY <1>7, <2>1, <2>2, <2>3
<1>14. \A e \in Stored : pos[e] < x.at + 1 => pos[e] <= x.at
  BY <1>7, RowTypes DEF Grounded
<1>15. Behind(c)' BY <1>1, <1>2, <1>13, <1>14 DEF Behind
<1>16. PageFirst(c)' BY <1>2 DEF PageFirst
<1>17. ASSUME NEW e \in Stored, pos[e] >= x.at + 1 PROVE InTail(c, e)'
  <2>1. pos[e] \in Nat BY RowTypes DEF Grounded
  <2>2. pos[e] >= cursor[c] /\ x.at < pos[e] BY <1>2, <1>7, <1>17, <2>1
  <2>3. InTail(c, e) BY <1>2, <2>2 DEF Covers
  <2>4. CASE \E y \in Tail1(c) : y.event = e
    <3>1. PICK y \in Tail1(c) : y.event = e BY <2>4
    <3>2. y # x BY <1>7, <1>12, <2>1, <2>2, <3>1
    <3> QED BY <1>5, <3>1, <3>2 DEF InTail
  <2>5. ~(\A y \in Tail1(c) : pos[e] < y.at) BY <1>5, <1>7, <2>1, <2>2
  <2> QED BY <1>1, <1>2, <1>5, <1>10, <2>3, <2>4, <2>5 DEF InTail
<1>18. Covers(c)' BY <1>1, <1>2, <1>17 DEF Covers
<1> QED BY <1>8, <1>9, <1>15, <1>16, <1>18

LEMMA LeaveGap ==
  ASSUME Grounded, WriterOK', NEW c \in Clients, NoGap(c), EndStream(c) \/ Disconnect(c)
  PROVE  NoGap(c)'
<1>1. RowsStep BY ClientRows DEF ClientStep, StreamStep
<1>2. Still(c) BY DEF EndStream, Disconnect, client, Still
<1>3. pc'[c] = "away" /\ sub'[c] = "none"
  BY DEF EndStream, Disconnect, Grounded, Conns, ConnTypes
<1> QED BY <1>1, <1>2, <1>3, StillGap

LEMMA NextGap ==
  ASSUME Grounded, [Next]_vars, Faults = {}, NEW c \in Clients, NoGap(c), Ahead(c)
  PROVE  NoGap(c)'
<1>1. Grounded' BY NextGrounded
<1>2. WriterOK' BY <1>1 DEF Grounded
<1>3. CASE UNCHANGED vars BY <1>1, <1>3, SameGap DEF vars, conn, client, Same
<1>4. CASE Emit \/ Commit \/ AppendFails \/ ReplyLost \/ Prune \/ Crash \/ Dispose \/ Wake
  BY <1>1, <1>4, ServerGap
<1>5. CASE FanOut BY <1>1, <1>5, FanOutGap
<1>6. ASSUME NEW d \in Clients, ClientStep(d), d # c PROVE NoGap(c)'
  <2>1. Same(c) BY <1>6, OneConnection DEF Grounded
  <2>2. UNCHANGED writer BY <1>6, ClientKeepsWriter
  <2> QED BY <1>1, <2>1, <2>2, SameGap
<1>7. CASE ClientStep(c)
  BY <1>2, <1>7, ConnectGap, ReadPageGap, WriteRowGap, ReadHeadGap, TakeNoticeGap, TakeEventGap,
     SkipLiveGap, WriteLiveGap, LeaveGap DEF ClientStep, StreamStep
<1> QED BY <1>3, <1>4, <1>5, <1>6, <1>7 DEF Next, AppendStep, ClientStep

LEMMA InitGap == ASSUME Init, NEW c \in Clients PROVE NoGap(c)
<1>1. Stored = {} BY DEF Init, Stored
<1>2. /\ pc[c] = "away" /\ sub[c] = "none" /\ buf[c] = <<>> /\ hand[c] = <<>> /\ page[c] = {}
      /\ lagFrom[c] = None /\ told[c] = None /\ cursor[c] = 0 /\ lastId[c] = None
  BY DEF Init
<1>3. Tail1(c) = {} /\ Marks(c) = {} BY <1>2, NoItems DEF Tail1, Queued, Held, Marks
<1> QED BY <1>1, <1>2, <1>3 DEF NoGap, Entries, TailOrdered, Behind, PageFirst, Covers

-----------------------------------------------------------------------------
IInv == Grounded /\ \A c \in Clients : Ahead(c)

LEMMA InitIInv == ASSUME Init PROVE IInv
BY InitWriter, InitConns DEF IInv, Grounded, Ahead, Init

LEMMA NextIInv == ASSUME IInv, [Next]_vars PROVE IInv'
BY NextGrounded, NextAhead DEF IInv

LEMMA Inductive == Spec => []IInv
BY InitIInv, NextIInv, PTL DEF Spec

(* Every variable has its type under every fault; in particular the buffer of a slow client *)
(* never outgrows MaxOutbound, however many events are fanned out to it.                     *)
THEOREM TypeCorrect == Spec => []TypeOK
<1>1. IInv => TypeOK BY GroundedTypes DEF IInv
<1> QED BY <1>1, Inductive, PTL

(* The projection's positions follow the order of emission, whatever append is retried,     *)
(* answered late or given up, and whatever retention removes.                                *)
THEOREM LogOrdered == Spec => []LogInEmitOrder
<1>1. IInv => LogInEmitOrder BY DEF IInv, Grounded, WriterOK, WriterInv
<1> QED BY <1>1, Inductive, PTL

(* The ids a client receives only grow, across replay, live tail and reconnects, and no row *)
(* ever changes its position.                                                                *)
THEOREM NumbersKept == Spec => NumberingKept
<1>1. ASSUME IInv, [Next]_vars
      PROVE  [/\ \A c \in Clients : lastId'[c] # lastId[c] => lastId'[c] > lastId[c]
              /\ \A e \in Events : pos[e] # None /\ pos'[e] # None => pos'[e] = pos[e]]_vars
  BY <1>1, NextAhead, RowsStay DEF IInv
<1> QED BY <1>1, Inductive, PTL DEF Spec, NumberingKept

(* Without the three faults of Faults, a gap in what a client received is never silent: each *)
(* row below its last id was received, or lies in a gap whose start a lag notice gave it,    *)
(* however the replay, the live tail, a full buffer, retries, retention, evictions, crashes  *)
(* and reconnects interleave.                                                                *)
THEOREM GapsAreTold == ASSUME Faults = {} PROVE Spec => []NoSilentGap
<1> DEFINE GInv == \A c \in Clients : NoGap(c)
<1>1. Init => GInv BY InitGap
<1>2. IInv /\ GInv /\ [Next]_vars => GInv' BY NextGap DEF IInv
<1>3. IInv /\ GInv => NoSilentGap
  <2> SUFFICES ASSUME IInv, GInv, NEW c \in Clients, NEW e \in Stored, pos[e] < lastId[c]
               PROVE  Safe(c, e)
    BY DEF NoSilentGap, Safe
  <2>1. pos[e] \in Nat /\ lastId[c] \in Int
    BY RowTypes, TailTypes, StreamAssumption DEF IInv, Grounded, Positions, None
  <2> QED BY <2>1 DEF NoGap, Behind
<1> HIDE DEF GInv
<1> QED BY <1>1, <1>2, <1>3, Inductive, PTL DEF Spec

=============================================================================
