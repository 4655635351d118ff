---------------------------- MODULE EventStream ----------------------------
(***************************************************************************)
(* The outbound events of one session: the session_events projection, the  *)
(* OutboundEventStream that appends to it and fans out, and the SSE stream *)
(* that replays the projection and then follows the live tail.             *)
(*                                                                         *)
(* Events are numbered in the order they were emitted.  Each client        *)
(* reconnects with the id of the last frame it received.                   *)
(***************************************************************************)
EXTENDS Integers, Sequences, FiniteSetsExt

CONSTANTS
  MaxEvents,    \* bound: how many events the session emits
  Clients,      \* SSE clients
  PageSize,     \* DEFAULT_REPLAY_PAGE_SIZE
  MaxOutbound,  \* the bound of a subscriber's buffer
  Attempts,     \* how often an append is tried
  MaxOutages,   \* bound: crashes, evictions and prunings together
  Faults        \* which faults the environment makes, see AllFaults

Events == 1..MaxEvents
None   == -1
Positions == 0..MaxEvents

(* "lostCommit": an append is given up although an attempt of it committed  *)
(* (its answer was lost and the attempts left failed).  "headRace": an      *)
(* append may commit between the empty page and the head read of a first    *)
(* connect.  "pruneAll": retention may remove every event of the session.   *)
AllFaults == {"lostCommit", "headRace", "pruneAll"}

ASSUME StreamAssumption ==
  /\ MaxEvents \in Nat /\ MaxOutages \in Nat
  /\ PageSize \in Nat \ {0} /\ MaxOutbound \in Nat \ {0} /\ Attempts \in Nat \ {0}
  /\ Faults \subseteq AllFaults

VARIABLES
  emitted,   \* how many events were emitted
  chain,     \* events behind appendChain; the first is being appended
  tries,     \* attempts the first one has used
  reply,     \* the position Postgres answers it with, once committed
  pos,       \* the projection: the position of each event, None if it has no row
  awake,     \* is the runtime in memory
  outages,   \* crashes, evictions and prunings so far
  pc,        \* where each client's connection is
  cursor,    \* the replay's start, then the live sequence number
  page,      \* events of the page read and not written yet
  more,      \* was that page full
  sub,       \* the connection's Subscriber: "none", "open" or "closed"
  buf,       \* its buffer
  lagFrom,   \* its oldest dropped position not reported yet
  hand,      \* what the iterator handed out and is being written
  lastId,    \* the id of the last frame the client received
  got,       \* the events a client received
  told,      \* the lag notice it received since its last event
  excused    \* positions a notice covered

writer == <<emitted, chain, tries, reply, pos, awake, outages>>
conn   == <<pc, cursor, page, more, sub, buf, lagFrom, hand>>
client == <<lastId, got, told, excused>>
vars   == <<writer, conn, client>>

Init ==
  /\ emitted = 0 /\ chain = <<>> /\ tries = 0 /\ reply = None
  /\ pos = [e \in Events |-> None] /\ awake = TRUE /\ outages = 0
  /\ pc = [c \in Clients |-> "away"] /\ cursor = [c \in Clients |-> 0]
  /\ page = [c \in Clients |-> {}] /\ more = [c \in Clients |-> FALSE]
  /\ sub = [c \in Clients |-> "none"] /\ buf = [c \in Clients |-> <<>>]
  /\ lagFrom = [c \in Clients |-> None] /\ hand = [c \in Clients |-> <<>>]
  /\ lastId = [c \in Clients |-> None] /\ got = [c \in Clients |-> {}]
  /\ told = [c \in Clients |-> None] /\ excused = [c \in Clients |-> {}]

Stored == {e \in Events : pos[e] # None}
HeadByCount == Cardinality(Stored)
Head0  == Max({pos[e] : e \in Stored} \cup {None}) + 1

-----------------------------------------------------------------------------
(* The writer.                                                              *)

Emit ==
  /\ awake /\ emitted < MaxEvents
  /\ emitted' = emitted + 1
  /\ chain' = Append(chain, emitted + 1)
  /\ UNCHANGED <<tries, reply, pos, awake, outages, conn, client>>

\* append is idempotent on the event id: an event that has a row keeps its position.
AppendAgain(e) == [pos EXCEPT ![e] = Head0]
AppendOnce(e) == IF pos[e] # None THEN pos ELSE [pos EXCEPT ![e] = Head0]

Appending == chain # <<>> /\ reply = None

Commit ==
  /\ Appending /\ tries < Attempts
  /\ "headRace" \notin Faults => \A c \in Clients : pc[c] # "head"
  /\ pos' = AppendOnce(Head(chain))
  /\ tries' = tries + 1
  /\ reply' = pos'[Head(chain)]
  /\ UNCHANGED <<emitted, chain, awake, outages, conn, client>>

\* The attempt failed: try again, or give the event up; the chain link stays alive.
Failed(n) ==
  \/ n < Attempts /\ tries' = n /\ UNCHANGED chain
  \/ /\ n = Attempts
     /\ "lostCommit" \notin Faults => pos[Head(chain)] = None
     /\ chain' = Tail(chain) /\ tries' = 0

AppendFails ==
  /\ Appending /\ tries < Attempts
  /\ Failed(tries + 1)
  /\ UNCHANGED <<emitted, reply, pos, awake, outages, conn, client>>

\* The answer of a committed append never arrives.
ReplyLost ==
  /\ chain # <<>> /\ reply # None
  /\ Failed(tries)
  /\ reply' = None
  /\ UNCHANGED <<emitted, pos, awake, outages, conn, client>>

\* A next() that is being awaited finds nothing to take.
Waiting(c) == pc[c] = "live" /\ hand[c] = <<>> /\ buf[c] = <<>> /\ lagFrom[c] = None

Overflows(b) == Len(b) > MaxOutbound

\* The append returned: hand the event to every subscriber still attached, dropping the
\* oldest one of a full buffer.  A closed subscriber is attached until it has drained.
Attached(c) == sub[c] = "open" \/ (sub[c] = "closed" /\ ~Waiting(c))

FanOut ==
  LET entry == [event |-> Head(chain), at |-> reply]
      full(c) == Overflows(Append(buf[c], entry))
  IN
  /\ chain # <<>> /\ reply # None
  /\ hand' = [c \in Clients |->
                IF Attached(c) /\ Waiting(c) THEN <<entry>> ELSE hand[c]]
  /\ buf' = [c \in Clients |->
               IF ~Attached(c) \/ Waiting(c) THEN buf[c]
               ELSE IF full(c) THEN Tail(Append(buf[c], entry)) ELSE Append(buf[c], entry)]
  /\ lagFrom' = [c \in Clients |->
                   IF Attached(c) /\ ~Waiting(c) /\ full(c) /\ lagFrom[c] = None
                   THEN Append(buf[c], entry)[1].at ELSE lagFrom[c]]
  /\ chain' = Tail(chain) /\ tries' = 0 /\ reply' = None
  /\ UNCHANGED <<emitted, pos, awake, outages, pc, cursor, page, more, sub, client>>

\* Retention deletes the oldest rows; none is old enough while its append is running.
Expired(oldest) ==
  /\ reply # None => oldest < Head(chain)
  /\ "pruneAll" \notin Faults => \E e \in Stored : e > oldest

Prune ==
  /\ outages < MaxOutages
  /\ \E oldest \in Stored :
       /\ Expired(oldest)
       /\ pos' = [e \in Events |-> IF e <= oldest THEN None ELSE pos[e]]
  /\ outages' = outages + 1
  /\ UNCHANGED <<emitted, chain, tries, reply, awake, conn, client>>

\* The process dies: queued events, subscribers and connections are lost.
Crash ==
  /\ outages < MaxOutages
  /\ outages' = outages + 1
  /\ chain' = <<>> /\ tries' = 0 /\ reply' = None /\ awake' = FALSE
  /\ pc' = [c \in Clients |-> "away"] /\ sub' = [c \in Clients |-> "none"]
  /\ UNCHANGED <<emitted, pos, cursor, page, more, buf, lagFrom, hand, client>>

\* The runtime is evicted: its subscribers drain what they have and end.  (Its chain is
\* assumed to drain before the session is woken again.)
Dispose ==
  /\ awake /\ outages < MaxOutages
  /\ outages' = outages + 1
  /\ awake' = FALSE
  /\ sub' = [c \in Clients |-> IF sub[c] = "open" THEN "closed" ELSE sub[c]]
  /\ UNCHANGED <<emitted, chain, tries, reply, pos, pc, cursor, page, more, buf, lagFrom,
                 hand, client>>

Wake ==
  /\ ~awake /\ chain = <<>>
  /\ awake' = TRUE
  /\ UNCHANGED <<emitted, chain, tries, reply, pos, outages, conn, client>>

-----------------------------------------------------------------------------
(* The SSE stream of one client.                                            *)

\* The live tail is subscribed to before the replay begins.
Connect(c) ==
  /\ pc[c] = "away"
  /\ pc' = [pc EXCEPT ![c] = "reading"]
  /\ sub' = [sub EXCEPT ![c] = IF awake THEN "open" ELSE "none"]
  /\ buf' = [buf EXCEPT ![c] = <<>>] /\ lagFrom' = [lagFrom EXCEPT ![c] = None]
  /\ hand' = [hand EXCEPT ![c] = <<>>]
  /\ page' = [page EXCEPT ![c] = {}] /\ more' = [more EXCEPT ![c] = FALSE]
  /\ cursor' = [cursor EXCEPT ![c] = lastId[c] + 1]
  /\ told' = [told EXCEPT ![c] = None]
  /\ UNCHANGED <<writer, lastId, got, excused>>

\* The first PageSize rows at or after start.
Page(start) ==
  LET rows == {e \in Stored : pos[e] >= start} IN
  {e \in rows : Cardinality({f \in rows : pos[f] < pos[e]}) < PageSize}

NeverMore(events) == FALSE
MorePages(events) == Cardinality(events) = PageSize

ReadPage(c) ==
  /\ pc[c] = "reading"
  /\ page' = [page EXCEPT ![c] = {[event |-> e, at |-> pos[e]] : e \in Page(cursor[c])}]
  /\ more' = [more EXCEPT ![c] = MorePages(Page(cursor[c]))]
  /\ pc' = [pc EXCEPT ![c] = IF Page(cursor[c]) # {} THEN "frames"
                             ELSE IF cursor[c] > 0 THEN "live" ELSE "head"]
  /\ UNCHANGED <<writer, cursor, sub, buf, lagFrom, hand, client>>

\* A frame with an id reaches the client: what lies between it and the last notice is
\* covered by that notice.
Receive(c, entry) ==
  /\ lastId' = [lastId EXCEPT ![c] = entry.at]
  /\ got' = [got EXCEPT ![c] = @ \cup {entry.event}]
  /\ told' = [told EXCEPT ![c] = None]
  /\ excused' = IF told[c] = None THEN excused
                ELSE [excused EXCEPT ![c] = @ \cup (told[c]..(entry.at - 1))]

\* The next page, and in the end the live tail, starts after the last row written.
AfterCount(c, entry) == cursor[c] + 1
AfterRow(c, entry) == entry.at + 1

WriteRow(c) ==
  /\ pc[c] = "frames"
  /\ \E entry \in page[c] :
       /\ \A other \in page[c] : entry.at <= other.at
       /\ Receive(c, entry)
       /\ page' = [page EXCEPT ![c] = @ \ {entry}]
       /\ cursor' = [cursor EXCEPT ![c] = AfterRow(c, entry)]
       /\ pc' = [pc EXCEPT ![c] = IF page[c] # {entry} THEN "frames"
                                  ELSE IF more[c] THEN "reading" ELSE "live"]
  /\ UNCHANGED <<writer, more, sub, buf, lagFrom, hand>>

\* Nothing was replayed to a first connect: follow on from the projection's head.
ReadHead(c) ==
  /\ pc[c] = "head"
  /\ cursor' = [cursor EXCEPT ![c] = Head0]
  /\ pc' = [pc EXCEPT ![c] = "live"]
  /\ UNCHANGED <<writer, page, more, sub, buf, lagFrom, hand, client>>

\* takeFor: a pending lag notice first, then the oldest buffered event.
TakeNotice(c) ==
  /\ pc[c] = "live" /\ hand[c] = <<>> /\ lagFrom[c] # None
  /\ lagFrom' = [lagFrom EXCEPT ![c] = None]
  /\ told' = [told EXCEPT ![c] = IF @ = None THEN lagFrom[c] ELSE @]
  /\ UNCHANGED <<writer, pc, cursor, page, more, sub, buf, hand, lastId, got, excused>>

TakeEvent(c) ==
  /\ pc[c] = "live" /\ hand[c] = <<>> /\ lagFrom[c] = None /\ buf[c] # <<>>
  /\ hand' = [hand EXCEPT ![c] = <<Head(buf[c])>>]
  /\ buf' = [buf EXCEPT ![c] = Tail(@)]
  /\ UNCHANGED <<writer, pc, cursor, page, more, sub, lagFrom, client>>

\* An event the replay already served is skipped.
NeverCovered(c, entry) == FALSE
Covered(c, entry) == entry.at < cursor[c]

SkipLive(c) ==
  /\ pc[c] = "live" /\ hand[c] # <<>> /\ Covered(c, hand[c][1])
  /\ hand' = [hand EXCEPT ![c] = <<>>]
  /\ UNCHANGED <<writer, pc, cursor, page, more, sub, buf, lagFrom, client>>

WriteLive(c) ==
  /\ pc[c] = "live" /\ hand[c] # <<>> /\ ~Covered(c, hand[c][1])
  /\ Receive(c, hand[c][1])
  /\ cursor' = [cursor EXCEPT ![c] = hand[c][1].at + 1]
  /\ hand' = [hand EXCEPT ![c] = <<>>]
  /\ UNCHANGED <<writer, pc, page, more, sub, buf, lagFrom>>

\* The iterator is done: there was no runtime, or it was disposed and all is drained.
EndStream(c) ==
  /\ pc[c] = "live" /\ hand[c] = <<>>
  /\ sub[c] = "none" \/ (sub[c] = "closed" /\ buf[c] = <<>> /\ lagFrom[c] = None)
  /\ pc' = [pc EXCEPT ![c] = "away"]
  /\ sub' = [sub EXCEPT ![c] = "none"]
  /\ UNCHANGED <<writer, cursor, page, more, buf, lagFrom, hand, client>>

\* The client goes away at any moment; what was not written is lost with the connection.
Disconnect(c) ==
  /\ pc[c] # "away"
  /\ pc' = [pc EXCEPT ![c] = "away"]
  /\ sub' = [sub EXCEPT ![c] = "none"]
  /\ UNCHANGED <<writer, cursor, page, more, buf, lagFrom, hand, client>>

-----------------------------------------------------------------------------
AppendStep == Commit \/ AppendFails \/ ReplyLost \/ FanOut
StreamStep(c) ==
  \/ ReadPage(c) \/ WriteRow(c) \/ ReadHead(c)
  \/ TakeNotice(c) \/ TakeEvent(c) \/ SkipLive(c) \/ WriteLive(c) \/ EndStream(c)

Next ==
  \/ Emit \/ AppendStep \/ Prune \/ Crash \/ Dispose \/ Wake
  \/ \E c \in Clients : Connect(c) \/ StreamStep(c) \/ Disconnect(c)

Spec == Init /\ [][Next]_vars

(* Fairness: Postgres answers or fails each attempt, and a connected stream *)
(* keeps running.  Nobody is obliged to emit, connect or disconnect.        *)
LiveSpec ==
  /\ Spec /\ WF_vars(AppendStep)
  /\ \A c \in Clients : WF_vars(StreamStep(c))

-----------------------------------------------------------------------------
(* Properties                                                               *)

\* Every variable has its type; in particular no buffer outgrows MaxOutbound (R4.3).
Entry == [event : Events, at : Positions]
TypeOK ==
  /\ emitted \in 0..MaxEvents /\ chain \in Seq(Events) /\ tries \in 0..Attempts
  /\ reply \in Positions \cup {None}
  /\ pos \in [Events -> Positions \cup {None}]
  /\ awake \in BOOLEAN /\ outages \in 0..MaxOutages
  /\ pc \in [Clients -> {"away", "reading", "frames", "head", "live"}]
  /\ cursor \in [Clients -> 0..(MaxEvents + 1)]
  /\ page \in [Clients -> SUBSET Entry] /\ more \in [Clients -> BOOLEAN]
  /\ sub \in [Clients -> {"none", "open", "closed"}]
  /\ \A c \in Clients : buf[c] \in Seq(Entry) /\ Len(buf[c]) <= MaxOutbound
  /\ lagFrom \in [Clients -> Positions \cup {None}]
  /\ \A c \in Clients : hand[c] = <<>> \/ (hand[c][1] \in Entry /\ Len(hand[c]) = 1)
  /\ lastId \in [Clients -> Positions \cup {None}]
  /\ got \in [Clients -> SUBSET Events]
  /\ told \in [Clients -> Positions \cup {None}]
  /\ excused \in [Clients -> SUBSET Positions]

\* The projection keeps the order of emission, whatever is retried, lost or pruned.
LogInEmitOrder ==
  \A e, f \in Stored : e < f => pos[e] < pos[f]

\* A client's gap is never silent: an event of the projection below the client's last id
\* was received, or lies in a gap whose start a lag notice gave (R4.2, R4.3).
NoSilentGap ==
  \A c \in Clients : \A e \in Stored :
    pos[e] < lastId[c] => e \in got[c] \/ pos[e] \in excused[c]

\* The numbering is kept: the ids a client receives only grow, across reconnects too, and a
\* retried append never moves an event that has its row already (append is idempotent).
NumberingKept ==
  [][/\ \A c \in Clients : lastId'[c] # lastId[c] => lastId'[c] > lastId[c]
     /\ \A e \in Events : pos[e] # None /\ pos'[e] # None => pos'[e] = pos[e]]_vars

\* A connected client gets every event of the projection, unless it leaves or its notice
\* covers the event.
Owed(c, e) == pos[e] # None /\ sub[c] = "open"
Settled(c, e) == \/ e \in got[c] \/ sub[c] # "open" \/ pos[e] = None
                 \/ pos[e] \in excused[c] \/ (told[c] # None /\ told[c] <= pos[e])
ClientsCatchUp == \A c \in Clients, e \in Events : Owed(c, e) ~> Settled(c, e)

=============================================================================
