----------------------------- MODULE CreateProofs -----------------------------
(***************************************************************************)
(* Proofs about CreateRequests, for every set of requests and keys, every  *)
(* limit and every number of faults.                                       *)
(***************************************************************************)
EXTENDS CreateRequests, FiniteSetTheorems, TLAPS

Looking == {"claim", "find", "claimAgain", "reclaim"}
Past    == {"compensate", "sendError", "sendOk", "done", "dead"}

\* The truth a reconciliation read is still the truth as long as nobody writes the
\* counter: until then sessions are at most archived.  A session was inserted by a
\* request that is past its insert, so no insert finds its session there.
SlotsInv ==
  /\ SlotsAccounted
  /\ short <= faults
  /\ audit # None =>
       (audit.quiet =>
          Reserved = {} /\ audit.count = Cardinality(live) + Cardinality(releasing))
  /\ live \cap releasing = {}
  /\ \A r \in live \cup releasing : req[r].pc \in Past

\* A key has one holder, of a claim that is neither stale nor expired.
ClaimInv ==
  \A k \in Keys :
    /\ \A q, r \in Holders(k) : q = r
    /\ Holders(k) # {} => keyRow[k].status = "claimed" /\ ~keyRow[k].stale /\ ~keyRow[k].expired

\* A session whose response is stored, or is about to be.
Answered(k) == keyRow[k].status = "stored" \/ \E r \in Holders(k) : req[r].pc = "sendOk"
MadeInv ==
  \A k \in Keys :
    /\ Cardinality(made[k]) <= lost[k] + (IF Answered(k) THEN 1 ELSE 0)
    /\ \A r \in made[k] : req[r].pc \in Past

\* What a row or a request answers with was made under the same key and body.
OwnInv ==
  /\ \A r \in Requests : req[r].answer # None =>
       /\ req[req[r].answer].pc # "new"
       /\ req[req[r].answer].key = req[r].key
       /\ req[req[r].answer].body = req[r].body
  /\ \A k \in Keys :
       /\ keyRow[k].answer # None =>
            /\ req[keyRow[k].answer].pc # "new"
            /\ req[keyRow[k].answer].key = k
            /\ req[keyRow[k].answer].body = keyRow[k].body

-----------------------------------------------------------------------------
(* The actions, one name for the groups a proof treats alike.               *)
Handles(r) ==
  \/ Check(r) \/ Reserve(r) \/ ReserveMistold(r)
  \/ Insert(r) \/ InsertFails(r) \/ InsertMistold(r) \/ Compensate(r)
Claims(r) == Claim(r) \/ Find(r) \/ ClaimAgain(r) \/ Reclaim(r)
Ages(k) == LeaseElapses(k) \/ Expires(k) \/ Reap(k)

(* A step of Next is one of these.                                          *)
LEMMA StepCases ==
  ASSUME Next
  PROVE  \/ \E r \in Requests :
              \/ \E k \in Keys \cup {None}, b \in Bodies : Arrive(r, k, b)
              \/ Claims(r) \/ Handles(r) \/ SendError(r) \/ SendOk(r) \/ Crash(r)
         \/ \E k \in Keys : Ages(k)
         \/ \E s \in live : Terminate(s) \/ Archive(s)
         \/ \E s \in releasing : ReleaseSlot(s)
         \/ ReconcileReads \/ ReconcileWrites
BY DEF Next, Step, Claims, Handles, Ages

(* The sets of requests and sessions are finite.                            *)
LEMMA Finite ==
  ASSUME NEW S, S \subseteq Requests
  PROVE  IsFiniteSet(S) /\ Cardinality(S) \in Nat
BY FS_Subset, FS_CardinalityType, CreateAssumption

-----------------------------------------------------------------------------
(* The type invariant.                                                      *)

Pcs == {"new", "claim", "find", "claimAgain", "reclaim", "done", "dead"} \cup Serving
ReqOK == req \in [Requests -> [pc : Pcs, key : Keys \cup {None}, body : Bodies \cup {None},
                               answer : Requests \cup {None}]]
Row == [status : {"none", "claimed", "stored"}, body : Bodies \cup {None},
        answer : Requests \cup {None}, stale : BOOLEAN, expired : BOOLEAN]
RowOK == keyRow \in [Keys -> Row]
SlotOK == /\ live \subseteq Requests /\ terminated \subseteq live /\ releasing \subseteq Requests
          /\ count \in Nat /\ audit \in [count : Nat, quiet : BOOLEAN] \cup {None}
          /\ leaked \in Nat /\ short \in Nat /\ skewed \in BOOLEAN
HistoryOK == made \in [Keys -> SUBSET Requests] /\ lost \in [Keys -> Nat] /\ faults \in 0..MaxFaults

\* Who looks at a row has a key.
LookOK == \A r \in Requests : req[r].pc \in Looking => req[r].key \in Keys
TypeInv == ReqOK /\ RowOK /\ SlotOK /\ HistoryOK /\ LookOK

LEMMA TypeParts == TypeInv => TypeOK
BY DEF TypeInv, TypeOK, ReqOK, RowOK, Row, SlotOK, HistoryOK, Pcs

LEMMA TypeInit == ASSUME Init PROVE TypeInv
<1>1. ReqOK BY DEF Init, ReqOK, Pcs
<1>2. RowOK BY DEF Init, RowOK, Row, NoRow
<1>3. SlotOK BY DEF Init, SlotOK
<1>4. HistoryOK BY CreateAssumption DEF Init, HistoryOK
<1>5. LookOK BY DEF Init, LookOK, Looking
<1> QED BY <1>1, <1>2, <1>3, <1>4, <1>5 DEF TypeInv

LEMMA RowTypes ==
  /\ NoRow \in Row
  /\ \A b \in Bodies \cup {None} : Claimed(b) \in Row
  /\ \A b \in Bodies \cup {None}, a \in Requests : Stored(b, a) \in Row
BY DEF NoRow, Claimed, Stored, Row

LEMMA ArriveType ==
  ASSUME TypeInv, NEW r \in Requests, NEW k \in Keys \cup {None}, NEW b \in Bodies, Arrive(r, k, b)
  PROVE  TypeInv'
<1>1. ReqOK' BY DEF Arrive, TypeInv, ReqOK, Pcs, Serving
<1>2. LookOK' BY DEF Arrive, TypeInv, ReqOK, LookOK, Looking, Pcs, Serving
<1> QED BY <1>1, <1>2 DEF TypeInv, Arrive, slots, sessions, books, history, RowOK, SlotOK, HistoryOK

LEMMA ClaimsType ==
  ASSUME TypeInv, NEW r \in Requests, Claims(r)
  PROVE  TypeInv'
<1>0. req[r].key \in Keys BY DEF Claims, Claim, Find, ClaimAgain, Reclaim, TypeInv, LookOK, Looking
<1>1. CASE Claim(r)
  <2>1. ReqOK' BY <1>0, <1>1 DEF Claim, ClaimKey, Goto, TypeInv, ReqOK, Pcs, Serving
  <2>2. RowOK' BY <1>0, <1>1, RowTypes DEF Claim, ClaimKey, TypeInv, ReqOK, RowOK
  <2>3. LookOK' BY <1>0, <1>1 DEF Claim, ClaimKey, Goto, TypeInv, ReqOK, LookOK, Looking, Pcs, Serving
  <2> QED BY <1>1, <2>1, <2>2, <2>3 DEF Claim, slots, sessions, books, history, SlotOK, HistoryOK, TypeInv
<1>2. CASE Find(r)
  <2>1. \/ Goto(r, "claimAgain") \/ Goto(r, "reclaim") \/ Answer(r, None)
        \/ Answer(r, keyRow[req[r].key].answer)
    BY <1>0, <1>2 DEF Find, Replay, TypeInv, RowOK, Row
  <2>2. keyRow[req[r].key].answer \in Requests \cup {None} BY <1>0 DEF TypeInv, RowOK, Row
  <2>3. ReqOK' BY <2>1, <2>2 DEF Goto, Answer, TypeInv, ReqOK, Pcs, Serving
  <2>4. LookOK' BY <1>0, <2>1, <2>2 DEF Goto, Answer, TypeInv, ReqOK, LookOK, Looking, Pcs, Serving
  <2> QED BY <1>2, <2>3, <2>4 DEF Find, slots, sessions, books, history, RowOK, SlotOK, HistoryOK, TypeInv
<1>3. CASE ClaimAgain(r)
  <2>1. ReqOK' BY <1>0, <1>3 DEF ClaimAgain, ClaimKey, Goto, Answer, TypeInv, ReqOK, Pcs, Serving
  <2>2. RowOK' BY <1>0, <1>3, RowTypes DEF ClaimAgain, ClaimKey, TypeInv, ReqOK, RowOK
  <2>3. LookOK' BY <1>0, <1>3 DEF ClaimAgain, ClaimKey, Goto, Answer, TypeInv, ReqOK, LookOK, Looking, Pcs, Serving
  <2> QED BY <1>3, <2>1, <2>2, <2>3 DEF ClaimAgain, slots, sessions, books, history, SlotOK, HistoryOK, TypeInv
<1>4. CASE Reclaim(r)
  <2>1. ReqOK' BY <1>0, <1>4 DEF Reclaim, Goto, Answer, TypeInv, ReqOK, Pcs, Serving
  <2>2. RowOK' BY <1>0, <1>4, RowTypes DEF Reclaim, TypeInv, ReqOK, RowOK
  <2>3. LookOK' BY <1>0, <1>4 DEF Reclaim, Goto, Answer, TypeInv, ReqOK, LookOK, Looking, Pcs, Serving
  <2> QED BY <1>4, <2>1, <2>2, <2>3 DEF Reclaim, slots, sessions, books, history, SlotOK, HistoryOK, TypeInv
<1> QED BY <1>1, <1>2, <1>3, <1>4 DEF Claims

LEMMA DisturbType ==
  ASSUME SlotOK, Disturb PROVE audit' \in [count : Nat, quiet : BOOLEAN] \cup {None}
BY DEF SlotOK, Disturb

LEMMA GivingType ==
  ASSUME SlotOK, GiveBack \/ GiveBackFails,
         live' \subseteq Requests, terminated' \subseteq live', releasing' \subseteq Requests, skewed' = skewed
  PROVE  SlotOK'
<1>1. audit' \in [count : Nat, quiet : BOOLEAN] \cup {None} BY DisturbType DEF GiveBack, GiveBackFails
<1>2. count' \in Nat /\ leaked' \in Nat /\ short' \in Nat BY DEF SlotOK, GiveBack, GiveBackFails
<1> QED BY <1>1, <1>2 DEF SlotOK

LEMMA HandlesType ==
  ASSUME TypeInv, NEW r \in Requests, Handles(r)
  PROVE  TypeInv'
<1> USE CreateAssumption
<1>1. PICK pc \in Pcs \ Looking : Goto(r, pc)
  BY DEF Handles, Check, Reserve, ReserveMistold, Insert, InsertFails, InsertMistold, Compensate, Pcs, Looking, Serving
<1>2. ReqOK' BY <1>1 DEF Goto, TypeInv, ReqOK
<1>3. LookOK' BY <1>1 DEF Goto, TypeInv, ReqOK, LookOK
<1>4. RowOK'
  BY DEF Handles, Check, Reserve, ReserveMistold, Insert, InsertFails, InsertMistold, Compensate, TypeInv, RowOK
<1>5. SlotOK'
  <2>0. SlotOK BY DEF TypeInv
  <2>1. CASE Check(r) \/ InsertFails(r)
    BY <2>0, <2>1 DEF Check, InsertFails, slots, sessions, books, SlotOK
  <2>2. CASE Reserve(r)
    <3>1. audit' \in [count : Nat, quiet : BOOLEAN] \cup {None}
      BY <2>0, <2>2, DisturbType DEF Reserve, SlotOK
    <3> QED BY <2>0, <2>2, <3>1 DEF Reserve, sessions, books, SlotOK
  <2>3. CASE ReserveMistold(r)
    <3>1. audit' \in [count : Nat, quiet : BOOLEAN] \cup {None}
      BY <2>0, <2>3, DisturbType DEF ReserveMistold
    <3> QED BY <2>0, <2>3, <3>1 DEF ReserveMistold, sessions, SlotOK
  <2>4. CASE Insert(r) \/ InsertMistold(r)
    BY <2>0, <2>4 DEF Insert, InsertMistold, Makes, books, SlotOK
  <2>5. CASE Compensate(r)
    <3>1. (GiveBack \/ GiveBackFails) /\ UNCHANGED <<live, terminated, releasing, skewed>>
      BY <2>5 DEF Compensate, sessions
    <3>2. live \subseteq Requests /\ terminated \subseteq live /\ releasing \subseteq Requests
      BY <2>0 DEF SlotOK
    <3> QED BY <2>0, <3>1, <3>2, GivingType
  <2> QED BY <2>1, <2>2, <2>3, <2>4, <2>5 DEF Handles
<1>6. HistoryOK'
  <2>0. HistoryOK BY DEF TypeInv
  <2>1. faults' = faults \/ (faults < MaxFaults /\ faults' = faults + 1)
    BY DEF Handles, Check, Reserve, ReserveMistold, Insert, InsertFails, InsertMistold, Compensate, GiveBack,
       GiveBackFails, Fault
  <2>2. made' = made \/ Makes(r)
    BY DEF Handles, Check, Reserve, ReserveMistold, Insert, InsertFails, InsertMistold, Compensate, history
  <2>3. lost' = lost \/ LoseResponse(r)
    BY DEF Handles, Check, Reserve, ReserveMistold, Insert, InsertFails, InsertMistold, Compensate, history
  <2>4. made' \in [Keys -> SUBSET Requests] BY <2>0, <2>2 DEF Makes, HistoryOK
  <2>5. lost' \in [Keys -> Nat] BY <2>0, <2>3 DEF LoseResponse, HistoryOK
  <2>6. faults' \in 0..MaxFaults BY <2>0, <2>1 DEF HistoryOK
  <2> QED BY <2>4, <2>5, <2>6 DEF HistoryOK
<1> QED BY <1>2, <1>3, <1>4, <1>5, <1>6 DEF TypeInv

LEMMA SendsType ==
  ASSUME TypeInv, NEW r \in Requests, SendError(r) \/ SendOk(r) \/ Crash(r)
  PROVE  TypeInv'
<1> USE CreateAssumption
<1>1. PICK a \in Requests \cup {None} : Goto(r, "dead") \/ Answer(r, a)
  BY DEF SendError, SendOk, Crash
<1>2. ReqOK' BY <1>1 DEF Goto, Answer, TypeInv, ReqOK, Pcs
<1>3. LookOK' BY <1>1 DEF Goto, Answer, TypeInv, ReqOK, LookOK, Looking
<1>4. RowOK'
  <2>1. req[r].body \in Bodies \cup {None} BY DEF TypeInv, ReqOK
  <2> QED BY <2>1, RowTypes DEF SendError, SendOk, Crash, TypeInv, RowOK
<1>5. SlotOK' BY DEF SendError, SendOk, Crash, slots, sessions, books, TypeInv, SlotOK
<1>6. HistoryOK' BY DEF SendError, SendOk, Crash, LoseResponse, Fault, history, TypeInv, HistoryOK
<1> QED BY <1>2, <1>3, <1>4, <1>5, <1>6 DEF TypeInv

LEMMA OthersType ==
  ASSUME TypeInv,
         \/ \E k \in Keys : Ages(k)
         \/ \E s \in live : Terminate(s) \/ Archive(s)
         \/ \E s \in releasing : ReleaseSlot(s)
         \/ ReconcileReads \/ ReconcileWrites
  PROVE  TypeInv'
<1> USE CreateAssumption
<1>1. ASSUME NEW k \in Keys, Ages(k) PROVE TypeInv'
  <2>1. RowOK'
    <3>1. [keyRow[k] EXCEPT !.stale = TRUE] \in Row /\ [keyRow[k] EXCEPT !.expired = TRUE] \in Row
      BY DEF TypeInv, RowOK, Row
    <3> QED BY <1>1, <3>1, RowTypes DEF Ages, LeaseElapses, Expires, Reap, TypeInv, RowOK
  <2>2. HistoryOK' BY <1>1 DEF Ages, LeaseElapses, Expires, Reap, history, TypeInv, HistoryOK
  <2> QED BY <1>1, <2>1, <2>2 DEF Ages, LeaseElapses, Expires, Reap, slots, sessions, books, ReqOK, LookOK, SlotOK, TypeInv
<1>2. ASSUME NEW s \in live, Terminate(s) \/ Archive(s) PROVE TypeInv'
  BY <1>2 DEF Terminate, Archive, books, history, TypeInv, ReqOK, RowOK, SlotOK, HistoryOK, LookOK
<1>3. ASSUME NEW s \in releasing, ReleaseSlot(s) PROVE TypeInv'
  <2>1. SlotOK'
    <3>1. /\ GiveBack \/ GiveBackFails
          /\ releasing' = releasing \ {s} /\ UNCHANGED <<live, terminated, skewed>>
      BY <1>3 DEF ReleaseSlot
    <3>2. live' \subseteq Requests /\ terminated' \subseteq live' /\ releasing' \subseteq Requests
      BY <3>1 DEF TypeInv, SlotOK
    <3> QED BY <3>1, <3>2, GivingType DEF TypeInv
  <2>2. HistoryOK'
    BY <1>3 DEF ReleaseSlot, GiveBack, GiveBackFails, Fault, history, TypeInv, HistoryOK
  <2> QED BY <1>3, <2>1, <2>2 DEF ReleaseSlot, TypeInv, ReqOK, RowOK, LookOK
<1>4. CASE ReconcileReads
  <2>1. live \ terminated \subseteq Requests BY DEF TypeInv, SlotOK
  <2>2. Cardinality(live \ terminated) \in Nat BY <2>1, Finite
  <2>3. SlotOK'
    BY <1>4, <2>2 DEF ReconcileReads, sessions, books, TypeInv, SlotOK
  <2> QED BY <1>4, <2>3 DEF ReconcileReads, history, TypeInv, ReqOK, RowOK, HistoryOK, LookOK
<1>5. CASE ReconcileWrites
  BY <1>5 DEF ReconcileWrites, sessions, history, TypeInv, ReqOK, RowOK, SlotOK, HistoryOK, LookOK
<1> QED BY <1>1, <1>2, <1>3, <1>4, <1>5

LEMMA TypeStep == ASSUME TypeInv, [Next]_vars PROVE TypeInv'
<1>1. CASE UNCHANGED vars
  BY <1>1 DEF vars, slots, sessions, books, history, TypeInv, ReqOK, RowOK, SlotOK, HistoryOK, LookOK
<1>2. CASE Next
  BY <1>2, StepCases, ArriveType, ClaimsType, HandlesType, SendsType, OthersType
<1> QED BY <1>1, <1>2

(* Types are kept by every step.                                            *)
THEOREM TypeCorrect == Spec => []TypeOK
<1>1. Spec => []TypeInv BY TypeInit, TypeStep, PTL DEF Spec
<1> QED BY <1>1, TypeParts, PTL

-----------------------------------------------------------------------------
(* Answers.  The key and the body of a request are fixed when it arrives.   *)

LEMMA OwnInit == ASSUME Init PROVE OwnInv
BY CreateAssumption DEF Init, OwnInv, NoRow, Looking

\* What the answers of requests and rows were made under stays true of them.
LEMMA OwnKept ==
  ASSUME TypeInv, OwnInv,
         \A r \in Requests : req[r].pc # "new" =>
           /\ req'[r].key = req[r].key /\ req'[r].body = req[r].body /\ req'[r].pc # "new",
         \A r \in Requests :
           \/ req'[r].answer = None
           \/ (req'[r].answer = req[r].answer /\ req'[r].key = req[r].key /\ req'[r].body = req[r].body)
           \/ /\ req[r].pc # "new"
              /\ \/ req'[r].answer = r
                 \/ /\ req[r].key \in Keys
                    /\ req'[r].answer = keyRow[req[r].key].answer
                    /\ req[r].body = keyRow[req[r].key].body,
         \A k \in Keys :
           \/ keyRow'[k].answer = None
           \/ (keyRow'[k].answer = keyRow[k].answer /\ keyRow'[k].body = keyRow[k].body)
           \/ \E r \in Requests : /\ keyRow'[k].answer = r /\ req[r].pc # "new"
                                 /\ keyRow'[k].body = req[r].body /\ req[r].key = k
  PROVE  OwnInv'
<1>1. \A r \in Requests : req[r].answer \in Requests \cup {None} BY DEF TypeInv, ReqOK
<1>2. \A k \in Keys : keyRow[k].answer \in Requests \cup {None} BY DEF TypeInv, RowOK, Row
<1> QED BY <1>1, <1>2 DEF OwnInv

\* A step that only moves a request, and a row to nothing or in its flags.
LEMMA OwnMoves ==
  ASSUME TypeInv, OwnInv, NEW r \in Requests, NEW pc \in Pcs, pc # "new",
         Goto(r, pc) \/ Answer(r, None),
         \A k \in Keys :
           \/ keyRow'[k].answer = None
           \/ (keyRow'[k].answer = keyRow[k].answer /\ keyRow'[k].body = keyRow[k].body)
  PROVE  OwnInv'
<1>1. \A q \in Requests : /\ req'[q].key = req[q].key /\ req'[q].body = req[q].body
                         /\ req'[q].pc \in {pc, "done", req[q].pc}
                         /\ req'[q].answer \in {None, req[q].answer}
  BY DEF Goto, Answer, TypeInv, ReqOK
<1>2. \A q \in Requests : req[q].pc # "new" =>
           /\ req'[q].key = req[q].key /\ req'[q].body = req[q].body /\ req'[q].pc # "new"
  BY <1>1
<1> QED BY <1>1, <1>2, OwnKept

LEMMA OwnStep == ASSUME TypeInv, OwnInv, [Next]_vars PROVE OwnInv'
<1> USE CreateAssumption
<1>1. CASE UNCHANGED <<req, keyRow>>
  BY <1>1 DEF OwnInv
<1>2. ASSUME NEW r \in Requests, NEW k \in Keys \cup {None}, NEW b \in Bodies, Arrive(r, k, b)
      PROVE  OwnInv'
  <2>1. req[r].pc = "new" /\ req'[r].pc # "new" /\ req'[r].answer = None
    BY <1>2 DEF Arrive, TypeInv, ReqOK
  <2>2. \A q \in Requests : q # r => req'[q] = req[q]
    BY <1>2 DEF Arrive, TypeInv, ReqOK
  <2>3. keyRow' = keyRow BY <1>2 DEF Arrive
  <2> QED BY <2>1, <2>2, <2>3, OwnKept
<1>3. ASSUME NEW r \in Requests, Claims(r) PROVE OwnInv'
  <2>0. req[r].key \in Keys /\ req[r].pc # "new"
    BY <1>3 DEF Claims, Claim, Find, ClaimAgain, Reclaim, TypeInv, LookOK, Looking
  <2>1. CASE Find(r)
    <3>1. CASE \/ Goto(r, "claimAgain") \/ Goto(r, "reclaim") \/ Answer(r, None)
      BY <2>1, <3>1, OwnMoves DEF Find, Pcs
    <3>2. CASE Answer(r, keyRow[req[r].key].answer) /\ keyRow[req[r].key].body = req[r].body
      <4>1. /\ req'[r].answer = keyRow[req[r].key].answer /\ req'[r].pc # "new"
            /\ req'[r].key = req[r].key /\ req'[r].body = req[r].body
        BY <3>2 DEF Answer, TypeInv, ReqOK
      <4>2. \A q \in Requests : q # r => req'[q] = req[q]
        BY <3>2 DEF Answer, TypeInv, ReqOK
      <4>3. keyRow' = keyRow BY <2>1 DEF Find
      <4> QED BY <2>0, <3>2, <4>1, <4>2, <4>3, OwnKept
    <3> QED BY <2>0, <2>1, <3>1, <3>2 DEF Find, Replay, TypeInv, RowOK, Row
  <2>2. CASE Claim(r) \/ ClaimAgain(r) \/ Reclaim(r)
    <3>1. \E pc \in {"check", "find"} : Goto(r, pc) \/ Answer(r, None)
      BY <2>2 DEF Claim, ClaimAgain, Reclaim, ClaimKey
    <3>2. keyRow' = keyRow \/ keyRow' = [keyRow EXCEPT ![req[r].key] = Claimed(req[r].body)]
      BY <2>2 DEF Claim, ClaimAgain, Reclaim, ClaimKey
    <3>3. Claimed(req[r].body).answer = None BY DEF Claimed, NoRow
    <3>4. \A k \in Keys : keyRow'[k].answer = None
           \/ (keyRow'[k].answer = keyRow[k].answer /\ keyRow'[k].body = keyRow[k].body)
      BY <3>2, <3>3 DEF TypeInv, RowOK
    <3> QED BY <3>1, <3>4, OwnMoves DEF Pcs, Serving
  <2> QED BY <1>3, <2>1, <2>2 DEF Claims
<1>4. ASSUME NEW r \in Requests, Handles(r) PROVE OwnInv'
  <2>1. \E pc \in Pcs : pc # "new" /\ Goto(r, pc)
    BY <1>4 DEF Handles, Check, Reserve, ReserveMistold, Insert, InsertFails, InsertMistold, Compensate, Pcs, Serving
  <2>2. keyRow' = keyRow
    BY <1>4 DEF Handles, Check, Reserve, ReserveMistold, Insert, InsertFails, InsertMistold, Compensate
  <2> QED BY <2>1, <2>2, OwnMoves
<1>5. ASSUME NEW r \in Requests, SendError(r) \/ Crash(r) PROVE OwnInv'
  <2>1. Goto(r, "dead") \/ Answer(r, None) BY <1>5 DEF SendError, Crash
  <2>2. \A k \in Keys : keyRow'[k] = keyRow[k] \/ keyRow'[k].answer = None
    BY <1>5 DEF SendError, Crash, NoRow
  <2> QED BY <2>1, <2>2, OwnMoves DEF Pcs
<1>6. ASSUME NEW r \in Requests, SendOk(r) PROVE OwnInv'
  <2>1. /\ req[r].pc # "new" /\ req'[r].pc # "new" /\ req'[r].answer = r
        /\ req'[r].key = req[r].key /\ req'[r].body = req[r].body
    BY <1>6 DEF SendOk, Answer, TypeInv, ReqOK
  <2>2. \A q \in Requests : q # r => req'[q] = req[q]
    BY <1>6 DEF SendOk, Answer, TypeInv, ReqOK
  <2>3. \A k \in Keys : keyRow'[k] = keyRow[k]
           \/ (keyRow'[k].answer = r /\ keyRow'[k].body = req[r].body /\ req[r].key = k)
    BY <1>6 DEF SendOk, Stored, NoRow
  <2> QED BY <2>1, <2>2, <2>3, OwnKept
<1>7. ASSUME NEW k \in Keys, Ages(k) PROVE OwnInv'
  <2>1. \A x \in Keys : keyRow'[x].answer = None
           \/ (keyRow'[x].answer = keyRow[x].answer /\ keyRow'[x].body = keyRow[x].body)
    BY <1>7 DEF Ages, LeaseElapses, Expires, Reap, NoRow, TypeInv, RowOK, Row
  <2>2. req' = req BY <1>7 DEF Ages, LeaseElapses, Expires, Reap
  <2> QED BY <2>1, <2>2, OwnKept
<1>8. CASE \/ \E s \in live : Terminate(s) \/ Archive(s)
           \/ \E s \in releasing : ReleaseSlot(s)
           \/ ReconcileReads \/ ReconcileWrites
  BY <1>8, <1>1 DEF Terminate, Archive, ReleaseSlot, ReconcileReads, ReconcileWrites
<1>9. CASE UNCHANGED vars BY <1>1, <1>9 DEF vars
<1> QED BY <1>2, <1>3, <1>4, <1>5, <1>6, <1>7, <1>8, <1>9, StepCases

(* Who is answered with a session gave its key and body.                    *)
THEOREM OwnCorrect == Spec => []AnswerIsOwn
<1>1. TypeInv /\ OwnInv => AnswerIsOwn BY DEF OwnInv, AnswerIsOwn
<1>2. Init => TypeInv /\ OwnInv BY TypeInit, OwnInit
<1>3. TypeInv /\ OwnInv /\ [Next]_vars => (TypeInv /\ OwnInv)' BY TypeStep, OwnStep
<1> QED BY <1>1, <1>2, <1>3, PTL DEF Spec

-----------------------------------------------------------------------------
(* The counter of slots.                                                    *)

\* Only the request that steps enters or leaves the set of reservations.
LEMMA ReservedAfter ==
  ASSUME NEW r \in Requests, \A q \in Requests : q # r => req'[q] = req[q]
  PROVE  /\ req'[r].pc \in {"insert", "compensate"} => Reserved' = Reserved \cup {r}
         /\ req'[r].pc \notin {"insert", "compensate"} => Reserved' = Reserved \ {r}
BY DEF Reserved

LEMMA Plus ==
  ASSUME NEW S, S \subseteq Requests, NEW r \in Requests
  PROVE  /\ r \notin S => Cardinality(S \cup {r}) = Cardinality(S) + 1
         /\ r \in S => Cardinality(S \ {r}) = Cardinality(S) - 1
BY Finite, FS_AddElement, FS_RemoveElement

LEMMA Empty == Cardinality({}) = 0
BY FS_EmptySet

LEMMA SlotsInit == ASSUME Init PROVE SlotsInv
<1>1. Reserved = {} BY DEF Init, Reserved
<1> QED BY <1>1, Empty, CreateAssumption DEF Init, SlotsInv, SlotsAccounted

\* A step of a request that touches no slot.
LEMMA SlotsAlone ==
  ASSUME TypeInv, SlotsInv, NEW r \in Requests, UNCHANGED slots, faults' \in {faults, faults + 1},
         \A q \in Requests : q # r => req'[q] = req[q],
         r \in Reserved <=> req'[r].pc \in {"insert", "compensate"},
         req[r].pc \in Past => req'[r].pc \in Past
  PROVE  SlotsInv'
<1>0. UNCHANGED <<live, releasing, count, audit, leaked, short, skewed>> BY DEF slots, sessions, books
<1>1. Reserved' = Reserved BY ReservedAfter DEF Reserved
<1>2. \A q \in live' \cup releasing' : req'[q].pc \in Past
  BY <1>0 DEF SlotsInv, TypeInv, SlotOK
<1>3. faults' >= faults /\ short' <= faults'
  BY <1>0, CreateAssumption DEF SlotsInv, TypeInv, SlotOK, HistoryOK
<1>4. SlotsAccounted'
  <2>1. Cardinality(live) \in Nat /\ Cardinality(releasing) \in Nat /\ Cardinality(Reserved) \in Nat
    BY Finite DEF TypeInv, SlotOK, Reserved
  <2> QED BY <1>0, <1>1, <1>3, <2>1, CreateAssumption DEF SlotsInv, SlotsAccounted, TypeInv, HistoryOK
<1> QED BY <1>0, <1>1, <1>2, <1>3, <1>4 DEF SlotsInv

\* Whoever writes the counter spoils a reconciliation that is under way.
LEMMA Spoiled ==
  ASSUME TypeInv, Disturb PROVE audit' # None => ~audit'.quiet
BY CreateAssumption DEF Disturb, TypeInv, SlotOK

\* A slot is given back, or nobody will give it back; a counter that is too low for
\* its slots stays at 0.
LEMMA GivenBack ==
  ASSUME TypeInv, SlotsInv, GiveBack \/ GiveBackFails, skewed' = skewed,
         NEW Held, Held = Cardinality(live) + Cardinality(Reserved) + Cardinality(releasing),
         NEW HeldAfter, HeldAfter \in Nat, Held = HeldAfter + 1,
         HeldAfter = Cardinality(live') + Cardinality(Reserved') + Cardinality(releasing')
  PROVE  SlotsAccounted' /\ short' <= faults' /\ (audit' # None => ~audit'.quiet)
<1> USE CreateAssumption
<1>f. count \in Nat /\ leaked \in Nat /\ short \in Nat /\ faults \in Nat BY DEF TypeInv, SlotOK, HistoryOK
<1>1. audit' # None => ~audit'.quiet BY Spoiled DEF GiveBack, GiveBackFails
<1>2. short <= faults BY DEF SlotsInv
<1>3. ~skewed => count + short = Held + leaked /\ Held <= Limit + faults BY DEF SlotsInv, SlotsAccounted
<1>4. CASE GiveBack
  <2>1. leaked' = leaked /\ faults' = faults BY <1>4 DEF GiveBack
  <2>2. \/ count > 0 /\ count' = count - 1 /\ short' = short
        \/ count = 0 /\ count' = 0 /\ short' = (IF short > 0 THEN short - 1 ELSE 0)
    BY <1>f, <1>4 DEF GiveBack
  <2>3. short' <= faults' BY <1>f, <1>2, <2>1, <2>2
  <2>4. ~skewed => count' + short' = HeldAfter + leaked' /\ HeldAfter <= Limit + faults'
    BY <1>f, <1>3, <2>1, <2>2
  <2> QED BY <1>1, <2>3, <2>4 DEF SlotsAccounted
<1>5. CASE GiveBackFails
  <2>1. leaked' = leaked + 1 /\ faults' = faults + 1 /\ count' = count /\ short' = short
    BY <1>5 DEF GiveBackFails, Fault
  <2>3. short' <= faults' BY <1>f, <1>2, <2>1
  <2>4. ~skewed => count' + short' = HeldAfter + leaked' /\ HeldAfter <= Limit + faults'
    BY <1>f, <1>3, <2>1
  <2> QED BY <1>1, <2>3, <2>4 DEF SlotsAccounted
<1> QED BY <1>4, <1>5

LEMMA SlotsStep == ASSUME TypeInv, SlotsInv, [Next]_vars PROVE SlotsInv'
<1> USE CreateAssumption
<1>f. /\ Cardinality(live) \in Nat /\ Cardinality(releasing) \in Nat /\ Cardinality(Reserved) \in Nat
      /\ live \subseteq Requests /\ releasing \subseteq Requests /\ Reserved \subseteq Requests
      /\ count \in Nat /\ leaked \in Nat /\ short \in Nat /\ faults \in Nat
  BY Finite DEF TypeInv, SlotOK, HistoryOK, Reserved
<1>1. CASE UNCHANGED <<req, slots, faults>>
  BY <1>1 DEF SlotsInv, SlotsAccounted, Reserved, slots, sessions, books
<1>2. ASSUME NEW r \in Requests, NEW k \in Keys \cup {None}, NEW b \in Bodies, Arrive(r, k, b)
      PROVE  SlotsInv'
  <2>1. /\ req[r].pc = "new" /\ req'[r].pc \in {"check", "claim"} /\ UNCHANGED <<slots, faults>>
        /\ \A q \in Requests : q # r => req'[q] = req[q]
    BY <1>2 DEF Arrive, TypeInv, ReqOK
  <2> QED BY <2>1, SlotsAlone DEF Reserved, Past
<1>3. ASSUME NEW r \in Requests, Claims(r) PROVE SlotsInv'
  <2>1. req[r].pc \in Looking /\ UNCHANGED <<slots, faults>>
    BY <1>3 DEF Claims, Claim, Find, ClaimAgain, Reclaim, Looking
  <2>2. /\ req'[r].pc \in Looking \cup {"check", "done"}
        /\ \A q \in Requests : q # r => req'[q] = req[q]
    <3>1. \E pc \in Looking \cup {"check"} : Goto(r, pc) \/ \E a : Answer(r, a)
      <4>0. req[r].key \in Keys BY <2>1 DEF TypeInv, LookOK
      <4>1. CASE Find(r)
        BY <4>0, <4>1 DEF Find, Replay, Looking, TypeInv, RowOK, Row
      <4> QED BY <1>3, <4>1 DEF Claims, Claim, ClaimAgain, Reclaim, ClaimKey, Looking
    <3> QED BY <3>1 DEF Goto, Answer, TypeInv, ReqOK
  <2> QED BY <2>1, <2>2, SlotsAlone DEF Reserved, Past, Looking
<1>4. ASSUME NEW r \in Requests, Check(r) \/ InsertFails(r) \/ SendError(r) \/ SendOk(r) PROVE SlotsInv'
  <2>1. UNCHANGED slots /\ faults' \in {faults, faults + 1}
    BY <1>4 DEF Check, InsertFails, SendError, SendOk, Fault
  <2>2. /\ \A q \in Requests : q # r => req'[q] = req[q]
        /\ r \in Reserved <=> req'[r].pc \in {"insert", "compensate"}
        /\ req[r].pc \in Past => req'[r].pc \in Past
    BY <1>4 DEF Check, InsertFails, SendError, SendOk, Goto, Answer, TypeInv, ReqOK, Reserved, Past
  <2> QED BY <2>1, <2>2, SlotsAlone
<1>5. ASSUME NEW r \in Requests, Reserve(r) PROVE SlotsInv'
  <2>1. CASE count + 1 > Limit
    <3>1. /\ \A q \in Requests : q # r => req'[q] = req[q]
          /\ r \notin Reserved /\ req'[r].pc = "sendError" /\ req[r].pc \notin Past
      BY <1>5, <2>1 DEF Reserve, Goto, TypeInv, ReqOK, Reserved, Past
    <3>2. UNCHANGED slots /\ faults' = faults BY <1>5, <2>1 DEF Reserve, slots
    <3> QED BY <3>1, <3>2, SlotsAlone
  <2>2. CASE count + 1 <= Limit
    <3>1. /\ \A q \in Requests : q # r => req'[q] = req[q]
          /\ r \notin Reserved /\ req'[r].pc = "insert" /\ req[r].pc = "reserve"
      BY <1>5, <2>2, <1>f DEF Reserve, Goto, TypeInv, ReqOK, Reserved
    <3>2. Reserved' = Reserved \cup {r} BY <3>1, ReservedAfter
    <3>3. Cardinality(Reserved') = Cardinality(Reserved) + 1 BY <1>f, <3>1, <3>2, Plus
    <3>4. /\ count' = count + 1 /\ Disturb
          /\ UNCHANGED <<live, releasing, leaked, short, skewed, faults>>
      BY <1>5, <2>2, <1>f DEF Reserve, sessions, books
    <3>5. audit' # None => ~audit'.quiet BY <3>4, Spoiled
    <3>6. SlotsAccounted' BY <1>f, <2>2, <3>3, <3>4 DEF SlotsInv, SlotsAccounted
    <3>7. \A q \in live' \cup releasing' : req'[q].pc \in Past
      BY <1>f, <3>1, <3>4 DEF SlotsInv, Past
    <3>8. live' \cap releasing' = {} /\ short' <= faults' BY <3>4 DEF SlotsInv
    <3> QED BY <3>5, <3>6, <3>7, <3>8 DEF SlotsInv
  <2> QED BY <2>1, <2>2, <1>f
<1>6. ASSUME NEW r \in Requests, ReserveMistold(r) PROVE SlotsInv'
  <2>1. /\ \A q \in Requests : q # r => req'[q] = req[q]
        /\ r \notin Reserved /\ req'[r].pc = "sendError" /\ req[r].pc = "reserve"
    BY <1>6 DEF ReserveMistold, Goto, TypeInv, ReqOK, Reserved
  <2>2. Reserved' = Reserved BY <2>1, ReservedAfter
  <2>3. /\ count' = count + 1 /\ leaked' = leaked + 1 /\ faults' = faults + 1 /\ Disturb
        /\ UNCHANGED <<live, releasing, short, skewed>>
    BY <1>6 DEF ReserveMistold, Fault, sessions
  <2>4. audit' # None => ~audit'.quiet BY <2>3, Spoiled
  <2>5. SlotsAccounted' BY <1>f, <2>2, <2>3 DEF SlotsInv, SlotsAccounted
  <2>6. \A q \in live' \cup releasing' : req'[q].pc \in Past
    BY <1>f, <2>1, <2>3 DEF SlotsInv, Past
  <2>7. live' \cap releasing' = {} /\ short' <= faults' BY <1>f, <2>3 DEF SlotsInv
  <2> QED BY <2>4, <2>5, <2>6, <2>7 DEF SlotsInv
<1>7. ASSUME NEW r \in Requests, Insert(r) \/ InsertMistold(r) PROVE SlotsInv'
  <2>1. /\ \A q \in Requests : q # r => req'[q] = req[q]
        /\ r \in Reserved /\ req[r].pc = "insert"
        /\ live' = live \cup {r} /\ UNCHANGED <<releasing, count, audit, leaked, skewed>>
    BY <1>7 DEF Insert, InsertMistold, Makes, Goto, books, TypeInv, ReqOK, Reserved
  <2>2. r \notin live \cup releasing BY <2>1 DEF SlotsInv, Past
  <2>3. Cardinality(live') = Cardinality(live) + 1 BY <1>f, <2>1, <2>2, Plus
  <2>4. \/ req'[r].pc = "sendOk" /\ UNCHANGED <<short, faults>>
        \/ req'[r].pc = "compensate" /\ short' = short + 1 /\ faults' = faults + 1
    BY <1>7 DEF Insert, InsertMistold, Fault, Goto, books, TypeInv, ReqOK
  <2>5. SlotsAccounted'
    <3>1. CASE req'[r].pc = "sendOk"
      <4>1. Reserved' = Reserved \ {r} BY <2>1, <3>1, ReservedAfter
      <4>2. Cardinality(Reserved') = Cardinality(Reserved) - 1 BY <1>f, <2>1, <4>1, Plus
      <4> QED BY <1>f, <2>1, <2>3, <2>4, <3>1, <4>2 DEF SlotsInv, SlotsAccounted
    <3>2. CASE req'[r].pc = "compensate"
      <4>1. Reserved' = Reserved BY <2>1, <3>2, ReservedAfter
      <4> QED BY <1>f, <2>1, <2>3, <2>4, <3>2, <4>1 DEF SlotsInv, SlotsAccounted
    <3> QED BY <2>4, <3>1, <3>2
  <2>6. audit' # None => ~audit'.quiet BY <2>1 DEF SlotsInv, TypeInv, SlotOK
  <2>7. short' <= faults' BY <1>f, <2>4 DEF SlotsInv
  <2>8. \A q \in live' \cup releasing' : req'[q].pc \in Past
    BY <1>f, <2>1, <2>4 DEF SlotsInv, Past
  <2>9. live' \cap releasing' = {} BY <2>1, <2>2 DEF SlotsInv
  <2> QED BY <2>5, <2>6, <2>7, <2>8, <2>9 DEF SlotsInv
<1>8. ASSUME NEW r \in Requests, Compensate(r) PROVE SlotsInv'
  <2>1. /\ \A q \in Requests : q # r => req'[q] = req[q]
        /\ r \in Reserved /\ req'[r].pc = "sendError"
    BY <1>8 DEF Compensate, Goto, TypeInv, ReqOK, Reserved
  <2>2. Reserved' = Reserved \ {r} BY <2>1, ReservedAfter
  <2>3. Cardinality(Reserved') = Cardinality(Reserved) - 1 /\ Cardinality(Reserved') \in Nat
    BY <1>f, <2>1, <2>2, Plus, Finite
  <2>4. (GiveBack \/ GiveBackFails) /\ UNCHANGED <<live, releasing, skewed>>
    BY <1>8 DEF Compensate, sessions
  <2>5. SlotsAccounted' /\ short' <= faults' /\ (audit' # None => ~audit'.quiet)
    <3>1. /\ Cardinality(live') + Cardinality(Reserved') + Cardinality(releasing') \in Nat
          /\ Cardinality(live) + Cardinality(Reserved) + Cardinality(releasing)
             = Cardinality(live') + Cardinality(Reserved') + Cardinality(releasing') + 1
      BY <1>f, <2>3, <2>4
    <3> QED BY <2>4, <3>1, GivenBack
  <2>6. \A q \in live' \cup releasing' : req'[q].pc \in Past
    BY <1>f, <2>1, <2>4 DEF SlotsInv, Past
  <2> QED BY <2>4, <2>5, <2>6 DEF SlotsInv
<1>9. ASSUME NEW r \in Requests, Crash(r) PROVE SlotsInv'
  <2>1. /\ \A q \in Requests : q # r => req'[q] = req[q]
        /\ req'[r].pc = "dead"
    BY <1>9 DEF Crash, Goto, TypeInv, ReqOK
  <2>2. Reserved' = Reserved \ {r} BY <2>1, ReservedAfter
  <2>3. UNCHANGED <<live, releasing, count, audit, short, skewed>> /\ faults' = faults + 1
    BY <1>9 DEF Crash, Fault, sessions
  <2>4. Cardinality(Reserved') + leaked' = Cardinality(Reserved) + leaked
        /\ Cardinality(Reserved') \in Nat /\ leaked' \in Nat /\ Cardinality(Reserved') <= Cardinality(Reserved)
    <3>1. CASE r \in Reserved
      <4>1. Cardinality(Reserved') = Cardinality(Reserved) - 1 /\ Cardinality(Reserved') \in Nat
        BY <1>f, <2>2, <3>1, Plus, Finite
      <4>2. leaked' = leaked + 1 BY <1>9, <3>1 DEF Crash
      <4> QED BY <1>f, <4>1, <4>2
    <3>2. CASE r \notin Reserved
      <4>1. Reserved' = Reserved BY <2>2, <3>2
      <4>2. leaked' = leaked + 0 BY <1>9, <3>2 DEF Crash
      <4> QED BY <1>f, <4>1, <4>2
    <3> QED BY <3>1, <3>2
  <2>5. SlotsAccounted' BY <1>f, <2>3, <2>4 DEF SlotsInv, SlotsAccounted
  <2>6. Reserved = {} => Reserved' = {} BY <2>2
  <2>7. \A q \in live' \cup releasing' : req'[q].pc \in Past
    BY <1>f, <2>1, <2>3 DEF SlotsInv, Past
  <2>8. short' <= faults' BY <1>f, <2>3 DEF SlotsInv
  <2> QED BY <2>3, <2>5, <2>6, <2>7, <2>8 DEF SlotsInv
<1>10. ASSUME NEW z \in live, Terminate(z) PROVE SlotsInv'
  BY <1>10 DEF Terminate, books, SlotsInv, SlotsAccounted, Reserved
<1>11. ASSUME NEW z \in live, Archive(z) PROVE SlotsInv'
  <2>1. /\ live' = live \ {z} /\ releasing' = releasing \cup {z}
        /\ UNCHANGED <<req, count, audit, leaked, short, skewed, faults>>
    BY <1>11 DEF Archive, books
  <2>2. Reserved' = Reserved BY <2>1 DEF Reserved
  <2>3. z \notin releasing /\ z \in Requests BY <1>f DEF SlotsInv
  <2>4. Cardinality(live') = Cardinality(live) - 1 /\ Cardinality(releasing') = Cardinality(releasing) + 1
    BY <1>f, <2>1, <2>3, Plus
  <2>5. SlotsAccounted' BY <1>f, <2>1, <2>2, <2>4 DEF SlotsInv, SlotsAccounted
  <2>6. audit' # None =>
          (audit'.quiet =>
             Reserved' = {} /\ audit'.count = Cardinality(live') + Cardinality(releasing'))
    BY <1>f, <2>1, <2>2, <2>4 DEF SlotsInv
  <2>7. short' <= faults' /\ live' \cap releasing' = {} BY <2>1, <2>3 DEF SlotsInv
  <2>8. \A q \in live' \cup releasing' : req'[q].pc \in Past BY <2>1 DEF SlotsInv
  <2> QED BY <2>5, <2>6, <2>7, <2>8 DEF SlotsInv
<1>12. ASSUME NEW z \in releasing, ReleaseSlot(z) PROVE SlotsInv'
  <2>1. releasing' = releasing \ {z} /\ UNCHANGED <<req, live, skewed>> /\ (GiveBack \/ GiveBackFails)
    BY <1>12 DEF ReleaseSlot
  <2>2. Reserved' = Reserved BY <2>1 DEF Reserved
  <2>3. Cardinality(releasing') = Cardinality(releasing) - 1 /\ Cardinality(releasing') \in Nat
    BY <1>f, <2>1, Plus, Finite
  <2>4. SlotsAccounted' /\ short' <= faults' /\ (audit' # None => ~audit'.quiet)
    <3>1. /\ Cardinality(live') + Cardinality(Reserved') + Cardinality(releasing') \in Nat
          /\ Cardinality(live) + Cardinality(Reserved) + Cardinality(releasing)
             = Cardinality(live') + Cardinality(Reserved') + Cardinality(releasing') + 1
      BY <1>f, <2>1, <2>2, <2>3
    <3> QED BY <2>1, <3>1, GivenBack
  <2> QED BY <2>1, <2>4 DEF SlotsInv
<1>13. CASE ReconcileReads
  <2>1. /\ UNCHANGED <<req, live, releasing, count, leaked, short, skewed, faults>>
        /\ audit' = [count |-> Cardinality(live \ terminated),
                     quiet |-> Reserved = {} /\ releasing = {} /\ terminated = {}]
    BY <1>13 DEF ReconcileReads, sessions, books
  <2>2. Reserved' = Reserved BY <2>1 DEF Reserved
  <2>3. audit'.quiet => Reserved' = {} /\ audit'.count = Cardinality(live') + Cardinality(releasing')
    <3>1. SUFFICES ASSUME Reserved = {} /\ releasing = {} /\ terminated = {}
                   PROVE  Reserved' = {} /\ audit'.count = Cardinality(live') + Cardinality(releasing')
      BY <2>1
    <3>2. live \ terminated = live BY <3>1
    <3>3. audit'.count = Cardinality(live) BY <2>1, <3>2
    <3> QED BY <1>f, <2>1, <2>2, <3>1, <3>3, Empty
  <2>4. SlotsAccounted' BY <2>1, <2>2 DEF SlotsInv, SlotsAccounted
  <2> QED BY <2>1, <2>2, <2>3, <2>4 DEF SlotsInv
<1>14. CASE ReconcileWrites
  <2>1. /\ UNCHANGED <<req, live, releasing, faults>> /\ audit # None /\ audit' = None
        /\ count' = audit.count /\ leaked' = 0 /\ short' = 0 /\ skewed' = (skewed \/ ~audit.quiet)
    BY <1>14 DEF ReconcileWrites, sessions
  <2>2. Reserved' = Reserved BY <2>1 DEF Reserved
  <2>3. SlotsAccounted'
    <3>1. CASE skewed' BY <3>1 DEF SlotsAccounted
    <3>2. CASE ~skewed'
      <4>1. ~skewed /\ audit.quiet BY <2>1, <3>2 DEF TypeInv, SlotOK
      <4>2. Reserved = {} /\ audit.count = Cardinality(live) + Cardinality(releasing)
        BY <2>1, <4>1 DEF SlotsInv
      <4>3. Cardinality(Reserved) = 0 BY <4>2, Empty
      <4> QED BY <1>f, <2>1, <2>2, <4>1, <4>2, <4>3 DEF SlotsInv, SlotsAccounted
    <3> QED BY <3>1, <3>2
  <2>4. short' <= faults' BY <1>f, <2>1
  <2> QED BY <2>1, <2>3, <2>4 DEF SlotsInv
<1>15. ASSUME NEW k \in Keys, Ages(k) PROVE SlotsInv'
  BY <1>15, <1>1 DEF Ages, LeaseElapses, Expires, Reap
<1>16. CASE UNCHANGED vars BY <1>1, <1>16 DEF vars
<1> QED BY <1>2, <1>3, <1>4, <1>5, <1>6, <1>7, <1>8, <1>9, <1>10, <1>11, <1>12, <1>13, <1>14, <1>15, <1>16,
           StepCases DEF Handles

(* However creates fail, are mistold, die and are archived in between, the   *)
(* counter is the slots in use, on their way or leaked, less the ones given *)
(* back too many, and the plan is exceeded by no more than the faults, until *)
(* a reconciliation wrote anything but the truth.                            *)
THEOREM SlotsCorrect == Spec => []SlotsAccounted
<1>1. TypeInv /\ SlotsInv => SlotsAccounted BY DEF SlotsInv
<1>2. Init => TypeInv /\ SlotsInv BY TypeInit, SlotsInit
<1>3. TypeInv /\ SlotsInv /\ [Next]_vars => (TypeInv /\ SlotsInv)' BY TypeStep, SlotsStep
<1> QED BY <1>1, <1>2, <1>3, PTL DEF Spec

-----------------------------------------------------------------------------
(* One execution per key, when no handler outlives the lease of its claim.  *)
Prompt == ~Outlive
Once == ClaimInv /\ MadeInv

LEMMA OnceInit == ASSUME Init PROVE Once
<1>1. \A k \in Keys : Holders(k) = {} BY DEF Init, Holders, Serving
<1>2. \A k \in Keys : made[k] = {} /\ lost[k] = 0 /\ keyRow[k].status = "none" BY DEF Init, NoRow
<1>3. \A k \in Keys : ~Answered(k) BY <1>1, <1>2 DEF Answered
<1>4. \A k \in Keys : Cardinality(made[k]) <= lost[k] + 0 BY <1>2, Empty
<1>5. MadeInv BY <1>2, <1>3, <1>4 DEF MadeInv
<1> QED BY <1>1, <1>5 DEF Once, ClaimInv

\* A step of request r with key k, seen from another key.
LEMMA OnceElsewhere ==
  ASSUME TypeInv, Once, NEW r \in Requests, NEW x \in Keys,
         \A q \in Requests : q # r => req'[q] = req[q],
         req[r].pc \in Past => req'[r].pc \in Past,
         r \notin Holders(x), req'[r].key # x \/ req'[r].pc \notin Serving,
         keyRow'[x] = keyRow[x], made'[x] = made[x], lost'[x] = lost[x]
  PROVE  /\ \A p, q \in Holders(x)' : p = q
         /\ Holders(x)' # {} => keyRow'[x].status = "claimed" /\ ~keyRow'[x].stale /\ ~keyRow'[x].expired
         /\ Cardinality(made'[x]) <= lost'[x] + (IF Answered(x)' THEN 1 ELSE 0)
         /\ \A q \in made'[x] : req'[q].pc \in Past
<1>1. Holders(x)' = Holders(x) BY DEF Holders
<1>2. r \notin Holders(x)' BY <1>1
<1>3. \A q \in Holders(x) : req'[q] = req[q] BY DEF Holders
<1>4. Answered(x)' <=> Answered(x) BY <1>1, <1>3 DEF Answered
<1>5. \A q \in made'[x] : req'[q].pc \in Past BY DEF Once, MadeInv, TypeInv, HistoryOK
<1> QED BY <1>1, <1>4, <1>5 DEF Once, ClaimInv, MadeInv

\* The holder of a claim is alone with it.
LEMMA HolderAlone ==
  ASSUME Once, NEW x \in Keys, NEW r \in Holders(x)
  PROVE  /\ Holders(x) = {r}
         /\ keyRow[x].status = "claimed" /\ ~keyRow[x].stale /\ ~keyRow[x].expired
         /\ Answered(x) <=> req[r].pc = "sendOk"
<1>1. Holders(x) = {r} BY DEF Once, ClaimInv
<1>2. keyRow[x].status = "claimed" /\ ~keyRow[x].stale /\ ~keyRow[x].expired BY <1>1 DEF Once, ClaimInv
<1> QED BY <1>1, <1>2 DEF Answered

\* Without holders, a claim or no row means that no response is stored.
LEMMA Vacant ==
  ASSUME TypeInv, Once, NEW x \in Keys, keyRow[x].status \in {"none", "claimed"},
         keyRow[x].status = "none" \/ keyRow[x].stale
  PROVE  Holders(x) = {} /\ ~Answered(x) /\ Cardinality(made[x]) <= lost[x]
<1>1. Holders(x) = {} BY DEF Once, ClaimInv
<1>2. ~Answered(x) BY <1>1 DEF Answered
<1>3. Cardinality(made[x]) <= lost[x] + 0 BY <1>2 DEF Once, MadeInv
<1>4. Cardinality(made[x]) \in Nat /\ lost[x] \in Nat BY Finite DEF TypeInv, HistoryOK
<1> QED BY <1>1, <1>2, <1>3, <1>4

LEMMA OnceStep == ASSUME Prompt, TypeInv, Once, [Next]_vars PROVE Once'
<1> USE CreateAssumption
<1> DEFINE Good(x) ==
      /\ \A p, q \in Holders(x) : p = q
      /\ Holders(x) # {} => keyRow[x].status = "claimed" /\ ~keyRow[x].stale /\ ~keyRow[x].expired
      /\ Cardinality(made[x]) <= lost[x] + (IF Answered(x) THEN 1 ELSE 0)
      /\ \A q \in made[x] : req[q].pc \in Past
<1>g. \A x \in Keys : Good(x) BY DEF Once, ClaimInv, MadeInv
<1>h. SUFFICES \A x \in Keys : Good(x)' BY DEF Once, ClaimInv, MadeInv
<1>f. \A x \in Keys : made[x] \subseteq Requests /\ Cardinality(made[x]) \in Nat /\ lost[x] \in Nat
  BY Finite DEF TypeInv, HistoryOK
<1>1. CASE UNCHANGED <<req, keyRow, history>>
  BY <1>1, <1>g DEF Holders, Answered, history
<1>2. ASSUME NEW r \in Requests, NEW k \in Keys \cup {None}, NEW b \in Bodies, Arrive(r, k, b)
      PROVE  \A x \in Keys : Good(x)'
  <2>1. /\ req[r].pc = "new" /\ req'[r].key = k /\ req'[r].pc = (IF k = None THEN "check" ELSE "claim")
        /\ UNCHANGED <<keyRow, made, lost>> /\ \A q \in Requests : q # r => req'[q] = req[q]
    BY <1>2 DEF Arrive, history, TypeInv, ReqOK
  <2>2. \A x \in Keys : r \notin Holders(x) /\ (req'[r].key # x \/ req'[r].pc \notin Serving)
    BY <2>1 DEF Holders, Serving
  <2>3. req[r].pc \notin Past BY <2>1 DEF Past
  <2> QED BY <2>1, <2>2, <2>3, OnceElsewhere
<1>3. ASSUME NEW r \in Requests, Claims(r) PROVE \A x \in Keys : Good(x)'
  <2>0. /\ req[r].key \in Keys /\ req[r].pc \notin Serving \cup Past
        /\ UNCHANGED <<made, lost>>
    BY <1>3 DEF Claims, Claim, Find, ClaimAgain, Reclaim, TypeInv, LookOK, Looking, history, Serving, Past
  <2>1. \A x \in Keys : r \notin Holders(x) BY <2>0 DEF Holders
  <2>2. CASE \E pc \in Looking : UNCHANGED keyRow /\ (Goto(r, pc) \/ \E a : Answer(r, a))
    <3>1. req'[r].pc \notin Serving /\ \A q \in Requests : q # r => req'[q] = req[q]
      BY <2>2 DEF Goto, Answer, TypeInv, ReqOK, Looking, Serving
    <3> QED BY <2>0, <2>1, <2>2, <3>1, OnceElsewhere
  <2>3. CASE /\ Goto(r, "check") /\ keyRow' = [keyRow EXCEPT ![req[r].key] = Claimed(req[r].body)]
             /\ keyRow[req[r].key].status \in {"none", "claimed"}
             /\ keyRow[req[r].key].status = "none" \/ keyRow[req[r].key].stale
    <3>0. PICK k \in Keys : k = req[r].key BY <2>0
    <3>1. /\ req'[r].pc = "check" /\ req'[r].key = k
          /\ \A q \in Requests : q # r => req'[q] = req[q]
      BY <2>3, <3>0 DEF Goto, TypeInv, ReqOK
    <3>2. Holders(k) = {} /\ ~Answered(k) /\ Cardinality(made[k]) <= lost[k] BY <2>3, <3>0, Vacant
    <3>3. Holders(k)' = {r} BY <3>1, <3>2 DEF Holders, Serving
    <3>4. keyRow'[k].status = "claimed" /\ ~keyRow'[k].stale /\ ~keyRow'[k].expired
      BY <2>3, <3>0 DEF Claimed, NoRow, TypeInv, RowOK
    <3>5. \A q \in made'[k] : req'[q].pc \in Past
      BY <1>g, <1>f, <2>0, <3>1
    <3>6. Cardinality(made'[k]) <= lost'[k] + (IF Answered(k)' THEN 1 ELSE 0)
      BY <1>f, <2>0, <3>2
    <3>7. Good(k)' BY <3>3, <3>4, <3>5, <3>6
    <3>8. \A x \in Keys : x # k => Good(x)'
      <4>1. \A x \in Keys : x # k => keyRow'[x] = keyRow[x] BY <2>3, <3>0 DEF TypeInv, RowOK
      <4> QED BY <2>0, <2>1, <3>1, <4>1, OnceElsewhere
    <3> QED BY <3>7, <3>8
  <2>4. CASE Find(r)
    <3>1. \/ Goto(r, "claimAgain") \/ Goto(r, "reclaim") \/ Answer(r, None)
          \/ Answer(r, keyRow[req[r].key].answer)
      BY <2>0, <2>4 DEF Find, Replay, TypeInv, RowOK, Row
    <3> QED BY <2>2, <2>4, <3>1 DEF Find, Looking
  <2>5. CASE Claim(r) \/ ClaimAgain(r) \/ Reclaim(r)
    BY <2>2, <2>3, <2>5 DEF Claim, ClaimAgain, Reclaim, ClaimKey, Takeable, Looking
  <2> QED BY <1>3, <2>4, <2>5 DEF Claims
<1>4. ASSUME NEW r \in Requests, Handles(r) PROVE \A x \in Keys : Good(x)'
  <2>1. /\ req[r].pc \in Serving \ {"sendOk"} /\ req'[r].pc \in Serving
        /\ req[r].pc \in Past => req'[r].pc \in Past
        /\ req'[r].key = req[r].key /\ \A q \in Requests : q # r => req'[q] = req[q]
    BY <1>4 DEF Handles, Check, Reserve, ReserveMistold, Insert, InsertFails, InsertMistold, Compensate, Goto,
       TypeInv, ReqOK, Serving, Past
  <2>2. UNCHANGED keyRow
    BY <1>4 DEF Handles, Check, Reserve, ReserveMistold, Insert, InsertFails, InsertMistold, Compensate
  <2>3. \/ UNCHANGED <<made, lost>> /\ req'[r].pc # "sendOk"
        \/ req[r].pc = "insert" /\ Makes(r) /\ UNCHANGED lost /\ req'[r].pc = "sendOk"
        \/ req[r].pc = "insert" /\ Makes(r) /\ LoseResponse(r) /\ req'[r].pc = "compensate"
    BY <1>4 DEF Handles, Check, Reserve, ReserveMistold, Insert, InsertFails, InsertMistold, Compensate, history,
       Goto, TypeInv, ReqOK
  <2>4. ASSUME NEW x \in Keys, x # req[r].key PROVE Good(x)'
    <3>1. r \notin Holders(x) /\ made'[x] = made[x] /\ lost'[x] = lost[x]
      BY <2>3, <2>4 DEF Holders, Makes, LoseResponse
    <3> QED BY <2>1, <2>2, <2>4, <3>1, OnceElsewhere
  <2>5. ASSUME NEW x \in Keys, x = req[r].key PROVE Good(x)'
    <3>1. r \in Holders(x) BY <2>1, <2>5 DEF Holders
    <3>2. /\ Holders(x) = {r} /\ ~Answered(x)
          /\ keyRow[x].status = "claimed" /\ ~keyRow[x].stale /\ ~keyRow[x].expired
      BY <2>1, <3>1, HolderAlone
    <3>3. Holders(x)' = {r} BY <2>1, <2>5, <3>2 DEF Holders
    <3>4. Cardinality(made[x]) <= lost[x] BY <1>f, <1>g, <3>2
    <3>5. Cardinality(made'[x]) <= lost'[x] + (IF Answered(x)' THEN 1 ELSE 0)
      <4>1. CASE UNCHANGED <<made, lost>> BY <1>f, <3>4, <4>1
      <4>2. CASE /\ req[r].pc = "insert" /\ Makes(r)
                 /\ (UNCHANGED lost /\ req'[r].pc = "sendOk") \/ LoseResponse(r)
        <5>1. r \notin made[x] BY <1>g, <4>2 DEF Past
        <5>2. made'[x] = made[x] \cup {r} BY <2>5, <4>2 DEF Makes
        <5>3. Cardinality(made'[x]) = Cardinality(made[x]) + 1 BY <1>f, <5>1, <5>2, Plus
        <5>4. CASE UNCHANGED lost /\ req'[r].pc = "sendOk"
          <6>1. Answered(x)' BY <3>3, <5>4 DEF Answered
          <6> QED BY <1>f, <3>4, <5>3, <5>4, <6>1
        <5>5. CASE LoseResponse(r)
          <6>1. lost'[x] = lost[x] + 1 BY <2>5, <5>5 DEF LoseResponse
          <6> QED BY <1>f, <3>4, <5>3, <6>1
        <5> QED BY <4>2, <5>4, <5>5
      <4> QED BY <2>3, <4>1, <4>2
    <3>6. \A q \in made'[x] : req'[q].pc \in Past
      BY <1>f, <1>g, <2>1, <2>3, <2>5 DEF Past, Makes
    <3> QED BY <2>2, <3>2, <3>3, <3>5, <3>6
  <2> QED BY <2>4, <2>5
<1>5. ASSUME NEW r \in Requests, SendError(r) \/ SendOk(r) \/ Crash(r) PROVE \A x \in Keys : Good(x)'
  <2>1. /\ req[r].pc \in Serving /\ req'[r].pc \in {"done", "dead"}
        /\ req'[r].key = req[r].key /\ \A q \in Requests : q # r => req'[q] = req[q]
    BY <1>5 DEF SendError, SendOk, Crash, Goto, Answer, TypeInv, ReqOK, Serving
  <2>2. UNCHANGED made /\ \A x \in Keys : x # req[r].key => keyRow'[x] = keyRow[x] /\ lost'[x] = lost[x]
    BY <1>5 DEF SendError, SendOk, Crash, LoseResponse, history, TypeInv, RowOK, HistoryOK
  <2>3. ASSUME NEW x \in Keys, x # req[r].key PROVE Good(x)'
    <3>1. r \notin Holders(x) BY <2>3 DEF Holders
    <3> QED BY <2>1, <2>2, <2>3, <3>1, OnceElsewhere DEF Past, Serving
  <2>4. ASSUME NEW x \in Keys, x = req[r].key PROVE Good(x)'
    <3>1. r \in Holders(x) BY <2>1, <2>4 DEF Holders
    <3>2. Holders(x) = {r} /\ (Answered(x) <=> req[r].pc = "sendOk") BY <3>1, HolderAlone
    <3>3. Holders(x)' = {} BY <2>1, <3>2 DEF Holders, Serving
    <3>4. Cardinality(made[x]) <= lost[x] + (IF req[r].pc = "sendOk" THEN 1 ELSE 0) BY <1>g, <3>2
    <3>5. \/ req[r].pc # "sendOk" /\ lost'[x] = lost[x]
          \/ lost'[x] = lost[x] + 1
          \/ keyRow'[x].status = "stored" /\ lost'[x] = lost[x]
      BY <1>5, <2>4 DEF SendError, SendOk, Crash, LoseResponse, history, Stored, NoRow, TypeInv, HistoryOK, RowOK
    <3>6. Cardinality(made'[x]) <= lost'[x] + (IF Answered(x)' THEN 1 ELSE 0)
      <4>1. CASE req[r].pc # "sendOk" /\ lost'[x] = lost[x] BY <1>f, <2>2, <3>4, <4>1
      <4>2. CASE lost'[x] = lost[x] + 1 BY <1>f, <2>2, <3>4, <4>2
      <4>3. CASE keyRow'[x].status = "stored" /\ lost'[x] = lost[x]
        <5>1. Answered(x)' BY <4>3 DEF Answered
        <5> QED BY <1>f, <2>2, <3>4, <4>3, <5>1
      <4> QED BY <3>5, <4>1, <4>2, <4>3
    <3>7. \A q \in made'[x] : req'[q].pc \in Past BY <1>f, <1>g, <2>1, <2>2 DEF Past
    <3> QED BY <3>3, <3>6, <3>7
  <2> QED BY <2>3, <2>4
<1>6. ASSUME NEW k \in Keys, Ages(k) PROVE \A x \in Keys : Good(x)'
  <2>1. UNCHANGED req BY <1>6 DEF Ages, LeaseElapses, Expires, Reap
  <2>2. ASSUME NEW x \in Keys, x # k PROVE Good(x)'
    <3>1. keyRow'[x] = keyRow[x] /\ made'[x] = made[x] /\ lost'[x] = lost[x]
      BY <1>6, <2>2 DEF Ages, LeaseElapses, Expires, Reap, history, TypeInv, RowOK, HistoryOK
    <3> QED BY <1>g, <2>1, <3>1 DEF Holders, Answered
  <2>3. Holders(k) = {} /\ Holders(k)' = {}
    <3>1. Holders(k) = {}
      BY <1>6, <1>g DEF Ages, LeaseElapses, Expires, Reap, Prompt
    <3> QED BY <2>1, <3>1 DEF Holders
  <2>4. CASE LeaseElapses(k) \/ Expires(k)
    <3>1. keyRow'[k].status = keyRow[k].status /\ UNCHANGED <<made, lost>>
      BY <2>4 DEF LeaseElapses, Expires, history, TypeInv, RowOK, Row
    <3>2. Answered(k)' <=> Answered(k) BY <2>3, <3>1 DEF Answered
    <3> QED BY <1>g, <2>1, <2>2, <2>3, <3>1, <3>2
  <2>5. CASE Reap(k)
    <3>1. made'[k] = {} /\ lost'[k] = 0 BY <2>5 DEF Reap, TypeInv, HistoryOK
    <3>2. Cardinality(made'[k]) <= lost'[k] + (IF Answered(k)' THEN 1 ELSE 0) BY <3>1, Empty
    <3>3. Good(k)' BY <2>3, <3>1, <3>2
    <3> QED BY <2>2, <3>3
  <2> QED BY <1>6, <2>4, <2>5 DEF Ages
<1>7. CASE \/ \E s \in live : Terminate(s) \/ Archive(s)
           \/ \E s \in releasing : ReleaseSlot(s)
           \/ ReconcileReads \/ ReconcileWrites
  BY <1>7, <1>1 DEF Terminate, Archive, ReleaseSlot, ReconcileReads, ReconcileWrites
<1>8. CASE UNCHANGED vars BY <1>1, <1>8 DEF vars
<1> QED BY <1>2, <1>3, <1>4, <1>5, <1>6, <1>7, <1>8, StepCases

(* A key is executed once, and once more for each lost response, when no    *)
(* handler outlives the lease of its claim.                                 *)
THEOREM ExecutedCorrect == ASSUME Prompt PROVE Spec => []ExecutedOnce
<1>1. TypeInv /\ Once => ExecutedOnce
  <2>1. ASSUME TypeInv, Once, NEW k \in Keys PROVE Cardinality(made[k]) <= 1 + lost[k]
    <3>1. Cardinality(made[k]) \in Nat /\ lost[k] \in Nat BY <2>1, Finite DEF TypeInv, HistoryOK
    <3> QED BY <2>1, <3>1 DEF Once, MadeInv
  <2> QED BY <2>1 DEF ExecutedOnce
<1>2. Init => TypeInv /\ Once BY TypeInit, OnceInit
<1>3. TypeInv /\ Once /\ [Next]_vars => (TypeInv /\ Once)' BY TypeStep, OnceStep
<1> QED BY <1>1, <1>2, <1>3, PTL DEF Spec
=============================================================================
