--------------------------- MODULE CreateRequests ---------------------------
(***************************************************************************)
(* POST /v1/sessions (and its fork) with an Idempotency-Key.  The          *)
(* middleware claims a row of idempotency_keys before the handler and      *)
(* turns it into the stored response after it; the handler reserves a slot *)
(* of the tenant's concurrent-session quota and then inserts the session;  *)
(* an archive gives the slot back.  No two of these writes share a         *)
(* transaction, requests run on any node, and a node may die between two.  *)
(*                                                                         *)
(* A session is named by the request that made it.                         *)
(***************************************************************************)
EXTENDS Integers, FiniteSets

CONSTANTS
  Requests,   \* requests of one tenant; a retry is a request of its own
  Keys,       \* values of the Idempotency-Key header
  Bodies,     \* request bodies, up to hashBody
  Limit,      \* plan.concurrentSessions
  MaxFaults,  \* bound: deaths in a handler and writes that fail unnoticed
  Outlive,    \* may a handler still run when the lease of its claim is over
  None        \* no header, no answer

ASSUME CreateAssumption ==
  /\ IsFiniteSet(Requests) /\ Limit \in Nat /\ MaxFaults \in Nat
  /\ Outlive \in BOOLEAN
  /\ None \notin Requests \cup Keys

VARIABLES
  req,        \* each request: where it is, its key, body and answer
  keyRow,     \* idempotency_keys
  live,       \* sessions that are not archived
  terminated, \* the ones of them that have terminated
  releasing,  \* archived sessions whose slot has not been given back
  count,      \* tenant_quota_counters.count
  audit,      \* reconcileQuotaCounter between its read and its write: the truth it read,
              \* and whether that is what it should write (history)
  leaked,     \* history: slots nobody will give back
  short,      \* history: sessions whose slot is given back although they exist
  skewed,     \* history: has a reconciliation written anything but the truth
  made, lost, \* history, per key since its row was reaped: the sessions made, and
              \* how many of them have a response that was never stored
  faults

sessions == <<live, terminated, releasing>>
books   == <<leaked, short, skewed>>
slots   == <<sessions, count, audit, books>>
history == <<made, lost>>
vars    == <<req, keyRow, slots, history, faults>>

-----------------------------------------------------------------------------
NoRow == [status |-> "none", body |-> None, answer |-> None,
          stale |-> FALSE, expired |-> FALSE]
Claimed(b)   == [NoRow EXCEPT !.status = "claimed", !.body = b]
Stored(b, a) == [NoRow EXCEPT !.status = "stored", !.body = b, !.answer = a]

Init ==
  /\ req = [r \in Requests |-> [pc |-> "new", key |-> None, body |-> None, answer |-> None]]
  /\ keyRow = [k \in Keys |-> NoRow]
  /\ live = {} /\ terminated = {} /\ releasing = {} /\ count = 0 /\ audit = None
  /\ leaked = 0 /\ short = 0 /\ skewed = FALSE
  /\ made = [k \in Keys |-> {}] /\ lost = [k \in Keys |-> 0]
  /\ faults = 0

Goto(r, pc)   == req' = [req EXCEPT ![r].pc = pc]
Answer(r, a)  == req' = [req EXCEPT ![r].pc = "done", ![r].answer = a]
Fault         == faults < MaxFaults /\ faults' = faults + 1

\* The request has the marker of a won claim and has not come to onSend's end.
Serving == {"check", "reserve", "insert", "compensate", "sendError", "sendOk"}
Holders(k) == {r \in Requests : req[r].key = k /\ req[r].pc \in Serving}

\* The slot of a create between its reservation and its row.
Reserved == {r \in Requests : req[r].pc \in {"insert", "compensate"}}

-----------------------------------------------------------------------------
(* preHandler: claim first, then read what is there.                        *)

Arrive(r, k, b) ==
  /\ req[r].pc = "new"
  /\ req' = [req EXCEPT ![r] = [pc |-> IF k = None THEN "check" ELSE "claim",
                                key |-> k, body |-> b, answer |-> None]]
  /\ UNCHANGED <<keyRow, slots, history, faults>>

\* INSERT ... ON CONFLICT DO NOTHING: an expired row is in the way as well.
ClaimKey(r, otherwise) ==
  LET k == req[r].key IN
  IF keyRow[k].status = "none"
  THEN keyRow' = [keyRow EXCEPT ![k] = Claimed(req[r].body)] /\ Goto(r, "check")
  ELSE otherwise /\ UNCHANGED keyRow

Claim(r) ==
  /\ req[r].pc = "claim"
  /\ ClaimKey(r, Goto(r, "find"))
  /\ UNCHANGED <<slots, history, faults>>

\* As Replay without the comparison of the body hashes.
ReplayAny(r, row) == Answer(r, row.answer)
Replay(r, row) == IF row.body # req[r].body THEN Answer(r, None) ELSE Answer(r, row.answer)

\* findStored, and the branches on what it found.
Find(r) ==
  /\ req[r].pc = "find"
  /\ LET row == keyRow[req[r].key] IN
     CASE row.status = "none" \/ row.expired -> Goto(r, "claimAgain")
       [] row.status = "claimed" /\ ~row.expired -> Goto(r, "reclaim")
       [] row.status = "stored" /\ ~row.expired -> Replay(r, row)
  /\ UNCHANGED <<keyRow, slots, history, faults>>

ClaimAgain(r) ==
  /\ req[r].pc = "claimAgain"
  /\ ClaimKey(r, Answer(r, None))
  /\ UNCHANGED <<slots, history, faults>>

\* As Takeable without the lease.
TakeableFresh(row) == row.status = "claimed"
Takeable(row) == row.status = "claimed" /\ row.stale

\* reclaimStale: one UPDATE, so one of several retries wins.
Reclaim(r) ==
  /\ req[r].pc = "reclaim"
  /\ LET k == req[r].key IN
     IF Takeable(keyRow[k])
     THEN keyRow' = [keyRow EXCEPT ![k] = Claimed(req[r].body)] /\ Goto(r, "check")
     ELSE Answer(r, None) /\ UNCHANGED keyRow
  /\ UNCHANGED <<slots, history, faults>>

-----------------------------------------------------------------------------
(* The handler: createSession, forkSession.                                 *)

\* Validation and the spend gate.
Check(r) ==
  /\ req[r].pc = "check"
  /\ \E next \in {"reserve", "sendError"} : Goto(r, next)
  /\ UNCHANGED <<keyRow, slots, history, faults>>

\* Whoever writes the counter between the read and the write of a reconciliation.
Disturb == audit' = IF audit = None THEN None ELSE [audit EXCEPT !.quiet = FALSE]

\* reserveQuota: the increment is rolled back when it passes the limit.
Reserve(r) ==
  /\ req[r].pc = "reserve"
  /\ IF count + 1 > Limit
     THEN Goto(r, "sendError") /\ UNCHANGED <<count, audit>>
     ELSE Goto(r, "insert") /\ count' = count + 1 /\ Disturb
  /\ UNCHANGED <<keyRow, sessions, books, history, faults>>

\* Its COMMIT takes effect and reports an error: the create gives up, nobody the slot.
ReserveMistold(r) ==
  /\ req[r].pc = "reserve" /\ count + 1 <= Limit
  /\ Fault
  /\ Goto(r, "sendError") /\ count' = count + 1 /\ Disturb
  /\ leaked' = leaked + 1
  /\ UNCHANGED <<keyRow, sessions, short, skewed, history>>

Makes(r) ==
  /\ live' = live \cup {r}
  /\ made' = [k \in Keys |-> IF k = req[r].key THEN made[k] \cup {r} ELSE made[k]]
LoseResponse(r) == lost' = [k \in Keys |-> IF k = req[r].key THEN lost[k] + 1 ELSE lost[k]]

Insert(r) ==
  /\ req[r].pc = "insert"
  /\ Makes(r)
  /\ Goto(r, "sendOk")
  /\ UNCHANGED <<keyRow, terminated, releasing, count, audit, books, lost, faults>>

InsertFails(r) ==
  /\ req[r].pc = "insert"
  /\ Goto(r, "compensate")
  /\ UNCHANGED <<keyRow, slots, history, faults>>

\* The row is there, the insert reported an error: its slot is given back all the same.
InsertMistold(r) ==
  /\ req[r].pc = "insert"
  /\ Fault
  /\ Makes(r) /\ LoseResponse(r)
  /\ Goto(r, "compensate")
  /\ short' = short + 1
  /\ UNCHANGED <<keyRow, terminated, releasing, count, audit, leaked, skewed>>

\* releaseQuota, floored at 0; its caller swallows a failure.
GiveBack ==
  /\ IF count > 0 THEN count' = count - 1 /\ UNCHANGED short
     ELSE short' = (IF short > 0 THEN short - 1 ELSE 0) /\ UNCHANGED count
  /\ Disturb
  /\ UNCHANGED <<leaked, faults>>
GiveBackFails == leaked' = leaked + 1 /\ Disturb /\ Fault /\ UNCHANGED <<count, short>>

\* As Compensate when the failed insert just throws.
CompensateNot(r) ==
  /\ req[r].pc = "compensate"
  /\ Goto(r, "sendError")
  /\ UNCHANGED <<keyRow, slots, history, faults>>
Compensate(r) ==
  /\ req[r].pc = "compensate"
  /\ GiveBack \/ GiveBackFails
  /\ Goto(r, "sendError")
  /\ UNCHANGED <<keyRow, sessions, skewed, history>>

-----------------------------------------------------------------------------
(* onSend.                                                                  *)

\* An error gives up the claim, by key and status only; a failure of the DELETE
\* is swallowed.
SendError(r) ==
  LET k == req[r].key IN
  /\ req[r].pc = "sendError"
  /\ Answer(r, None)
  /\ \/ /\ keyRow' = [x \in Keys |-> IF x = k /\ keyRow[x].status = "claimed"
                                     THEN NoRow ELSE keyRow[x]]
        /\ UNCHANGED faults
     \/ k # None /\ Fault /\ UNCHANGED keyRow
  /\ UNCHANGED <<slots, history>>

\* A success is stored by an upsert; a failure of it is swallowed as well.
SendOk(r) ==
  LET k == req[r].key IN
  /\ req[r].pc = "sendOk"
  /\ Answer(r, r)
  /\ \/ /\ keyRow' = [x \in Keys |-> IF x = k THEN Stored(req[r].body, r) ELSE keyRow[x]]
        /\ UNCHANGED <<lost, faults>>
     \/ k # None /\ Fault /\ LoseResponse(r) /\ UNCHANGED keyRow
  /\ UNCHANGED <<slots, made>>

-----------------------------------------------------------------------------
(* What happens around the requests.                                        *)

\* The node dies with the request in it.
Crash(r) ==
  /\ req[r].pc \in Serving
  /\ Fault
  /\ Goto(r, "dead")
  /\ leaked' = leaked + (IF r \in Reserved THEN 1 ELSE 0)
  /\ IF req[r].pc = "sendOk" THEN LoseResponse(r) ELSE UNCHANGED lost
  /\ UNCHANGED <<keyRow, sessions, count, audit, short, skewed, made>>

\* Five minutes, and then the 24 hours, of a row; created_at starts them anew.
LeaseElapses(k) ==
  /\ keyRow[k].status = "claimed" /\ ~keyRow[k].stale
  /\ Outlive \/ Holders(k) = {}
  /\ keyRow' = [keyRow EXCEPT ![k].stale = TRUE]
  /\ UNCHANGED <<req, slots, history, faults>>

Expires(k) ==
  /\ ~keyRow[k].expired
  /\ keyRow[k].status = "stored" \/ keyRow[k].stale
  /\ keyRow' = [keyRow EXCEPT ![k].expired = TRUE]
  /\ UNCHANGED <<req, slots, history, faults>>

\* startIdempotencyReaper.
Reap(k) ==
  /\ keyRow[k].expired
  /\ keyRow' = [keyRow EXCEPT ![k] = NoRow]
  /\ made' = [made EXCEPT ![k] = {}] /\ lost' = [lost EXCEPT ![k] = 0]
  /\ UNCHANGED <<req, slots, faults>>

\* The session reaches a final status; it keeps its slot until it is archived.
Terminate(s) ==
  /\ terminated' = terminated \cup {s}
  /\ UNCHANGED <<req, keyRow, live, releasing, count, audit, books, history, faults>>

\* deleteSession: the update that archives, and the release after it.
Archive(s) ==
  /\ live' = live \ {s} /\ terminated' = terminated \ {s} /\ releasing' = releasing \cup {s}
  /\ UNCHANGED <<req, keyRow, count, audit, books, history, faults>>

ReleaseSlot(s) ==
  /\ releasing' = releasing \ {s}
  /\ GiveBack \/ GiveBackFails
  /\ UNCHANGED <<req, keyRow, live, terminated, skewed, history>>

\* reconcileQuotaCounter counts the sessions that are idle, running or rescheduling, and
\* then overwrites the counter.  That is the truth if no slot is on its way and every
\* session is counted.
ReconcileReads ==
  /\ audit = None
  /\ audit' = [count |-> Cardinality(live \ terminated),
               quiet |-> Reserved = {} /\ releasing = {} /\ terminated = {}]
  /\ UNCHANGED <<req, keyRow, sessions, count, books, history, faults>>

ReconcileWrites ==
  /\ audit # None
  /\ count' = audit.count /\ audit' = None
  /\ leaked' = 0 /\ short' = 0 /\ skewed' = (skewed \/ ~audit.quiet)
  /\ UNCHANGED <<req, keyRow, sessions, history, faults>>

-----------------------------------------------------------------------------
Step(r) ==
  \/ \E k \in Keys \cup {None}, b \in Bodies : Arrive(r, k, b)
  \/ Claim(r) \/ Find(r) \/ ClaimAgain(r) \/ Reclaim(r)
  \/ Check(r) \/ Reserve(r) \/ ReserveMistold(r)
  \/ Insert(r) \/ InsertFails(r) \/ InsertMistold(r) \/ Compensate(r)
  \/ SendError(r) \/ SendOk(r) \/ Crash(r)

Next ==
  \/ \E r \in Requests : Step(r)
  \/ \E k \in Keys : LeaseElapses(k) \/ Expires(k) \/ Reap(k)
  \/ \E s \in live \ terminated : Terminate(s)
  \/ \E s \in live : Archive(s)
  \/ \E s \in releasing : ReleaseSlot(s)
  \/ ReconcileReads \/ ReconcileWrites

Spec == Init /\ [][Next]_vars

-----------------------------------------------------------------------------
TypeOK ==
  /\ req \in [Requests -> [pc : {"new", "claim", "find", "claimAgain", "reclaim",
                                 "done", "dead"} \cup Serving,
                           key : Keys \cup {None}, body : Bodies \cup {None},
                           answer : Requests \cup {None}]]
  /\ keyRow \in [Keys -> [status : {"none", "claimed", "stored"},
                          body : Bodies \cup {None}, answer : Requests \cup {None},
                          stale : BOOLEAN, expired : BOOLEAN]]
  /\ live \subseteq Requests /\ terminated \subseteq live /\ releasing \subseteq Requests
  /\ count \in Nat /\ audit \in [count : Nat, quiet : BOOLEAN] \cup {None}
  /\ leaked \in Nat /\ short \in Nat /\ skewed \in BOOLEAN
  /\ made \in [Keys -> SUBSET Requests] /\ lost \in [Keys -> Nat]
  /\ faults \in 0..MaxFaults

(* However often a request is repeated under its key, and whoever dies when, *)
(* the mutation is executed once, and once more for each execution whose    *)
(* response was lost before it was stored: takeover by a retry, release     *)
(* after an error and the reaper never run it beside or after a good one.   *)
ExecutedOnce == \A k \in Keys : Cardinality(made[k]) <= 1 + lost[k]

(* Who is answered with a session gave the key and the body it was made     *)
(* with, although rows are taken over and re-stamped by other bodies.       *)
AnswerIsOwn ==
  \A r \in Requests :
    LET a == req[r].answer IN
    (req[r].pc = "done" /\ a # None) => req[a].key = req[r].key /\ req[a].body = req[r].body

(* The counter is the sessions there are, the slots on their way to or from *)
(* one and those that deaths and swallowed failures have leaked, less the   *)
(* ones given back for a session that exists after all (create.ts).  So the *)
(* plan is exceeded only by as many sessions as there were faults.  A       *)
(* reconciliation that meets no slot on its way and no terminated session   *)
(* keeps the books; after any other nothing is promised.                    *)
SlotsAccounted ==
  LET slotsHeld == Cardinality(live) + Cardinality(Reserved) + Cardinality(releasing) IN
  ~skewed => /\ count + short = slotsHeld + leaked
             /\ slotsHeld <= Limit + faults

(* A tenant never has more sessions than its plan allows: the reservation   *)
(* admits "exactly `limit`, never more", and the reconciliation is "safe to *)
(* run concurrently with live traffic" (enforce.ts).                        *)
WithinPlan == Cardinality(live \ terminated) <= Limit
=============================================================================
