-------------------------- MODULE SessionRegistry --------------------------
(***************************************************************************)
(* The life of a session around its turns: the row in Postgres, its        *)
(* microVM, and the runtimes that backend instances wake, evict and lose.  *)
(*                                                                         *)
(* Each instance keeps a registry (SessionManager): a Map of runtimes in   *)
(* least-recently-used order and the promises of wakes in flight.  An      *)
(* instance may die at any point and boot again; its microVMs are detached *)
(* and survive it.  A session's VM has a name derived from the session, so *)
(* the handle column is a flag: does the row know of the VM?               *)
(*                                                                         *)
(* SessionRuntime models what happens inside one runtime; here a turn is   *)
(* only where it touches the row and the VM.                               *)
(***************************************************************************)
EXTENDS Naturals, Sequences, FiniteSets, Functions

CONSTANTS
  Nodes,        \* backend instances over one database and one VM host
  Sessions,
  Talking,      \* the sessions that are sent messages; the others are only touched
  Runtimes,     \* runtime objects, reused once nothing of them is left
  MaxRuntimes,  \* the registry's cap on live runtimes
  Batch,        \* sessions one pass of the sandbox reaper takes
  FixedIds,     \* is INSTANCE_ID configured, or random at every boot?
  MaxKills,     \* bound: deaths of an instance
  MaxCrashes,   \* bound: crashes of a VM
  Races,        \* which races the environment makes, see AllRaces
  Nobody

(* Without a race's name the environment waits it out.  "busyEvict": the    *)
(* registry evicts a runtime a handler or a VM recovery is still active in. *)
(* "quickWake": a session is asked for while the checkpoint of its evicted  *)
(* runtime runs.  "endBusy": a session is archived or terminated while its  *)
(* VM is being made, is crashed or is not on the row yet.  "lostSave":      *)
(* saving the handle fails.  "reapCut": the instance dies between a destroy *)
(* and the clearing of its handle.  "revive": a request that needs the      *)
(* runtime arrives for a terminated session.                                *)
AllRaces == {"busyEvict", "quickWake", "endBusy", "lostSave", "reapCut", "revive"}

ASSUME RegistryAssumption ==
  /\ MaxRuntimes \in Nat \ {0} /\ Batch \in Nat \ {0}
  /\ MaxKills \in Nat /\ MaxCrashes \in Nat
  /\ FixedIds \in BOOLEAN /\ Talking \subseteq Sessions
  /\ Races \subseteq AllRaces
  /\ Nobody \notin Nodes \cup Sessions \cup Runtimes

VARIABLES
  row,       \* [Sessions -> status, handle, owner, aged: untouched for the lease]
  vm,        \* [Sessions -> state, worked: has a turn used this VM?]
  graves,    \* archived and terminated sessions, by updated_at
  rt,        \* the runtime objects
  lru,       \* SessionManager.runtimes of each node, least recently used first
  inflight,  \* SessionManager.inflight: the runtime being woken, or Nobody
  mail,      \* a user.message of a session on its way through a node
  up,        \* "up", "down", "reattached" (half booted)
  boots,     \* boots of each node
  reap,      \* the reaper pass of each node: sessions left, head destroyed?
  crashes    \* crashes of VMs so far

store   == <<row, vm, graves>>
memory  == <<rt, lru, inflight, mail>>
process == <<up, boots, reap, crashes>>
vars    == <<store, memory, process>>

-----------------------------------------------------------------------------
Blank == [node |-> Nobody, sess |-> Nobody, phase |-> "unused", sm |-> "idle",
          turn |-> "none", stop |-> "none", poll |-> "none", disposed |-> FALSE]
NoVm  == [state |-> "absent", worked |-> FALSE]

Init ==
  /\ row = [s \in Sessions |-> [status |-> "idle", handle |-> FALSE,
                                owner |-> Nobody, aged |-> FALSE]]
  /\ vm = [s \in Sessions |-> NoVm]
  /\ graves = <<>>
  /\ rt = [r \in Runtimes |-> Blank]
  /\ lru = [n \in Nodes |-> <<>>]
  /\ inflight = [n \in Nodes |-> [s \in Sessions |-> Nobody]]
  /\ mail = [n \in Nodes |-> [s \in Sessions |-> "none"]]
  /\ up = [n \in Nodes |-> "up"] /\ boots = [n \in Nodes |-> 0]
  /\ reap = [n \in Nodes |-> [left |-> <<>>, destroyed |-> FALSE]]
  /\ crashes = 0

-----------------------------------------------------------------------------
(* What the row, the VM and the runtimes tell.                              *)

Archived(s)  == row[s].status = "archived"
Terminal     == {"archived", "terminated"}
Ended(s)     == row[s].status \in Terminal
Holders(n, s) == {r \in Range(lru[n]) : rt[r].sess = s}
Holder(n, s) == CHOOSE r \in Holders(n, s) : TRUE
Of(s)        == {r \in Runtimes : rt[r].sess = s}

\* A handler of r has not reached sm.start(), or has settled and not ended.
Handling(r)  == rt[r].turn # "none"
Recovering(r) == rt[r].poll # "none"

\* Is the VM of s being made, or unknown to its row, or awaiting recovery?
VmUnsettled(s) ==
  \/ vm[s].state = "crashed"
  \/ vm[s].state # "absent" /\ ~row[s].handle
  \/ \E r \in Of(s) : Recovering(r) \/ rt[r].phase \notin {"unused", "awake"}
CheckpointRuns(s) == \E r \in Of(s) : rt[r].disposed /\ rt[r].stop = "stopping"

\* The subsequence of seq with the elements that are in S.
Keep(seq, S) ==
  LET kept == {i \in DOMAIN seq : seq[i] \in S}
      At(k) == CHOOSE i \in kept : Cardinality({j \in kept : j <= i}) = k
  IN  [k \in 1..Cardinality(kept) |-> seq[At(k)]]
Without(seq, x) == Keep(seq, Range(seq) \ {x})
Last(seq, x)    == Append(Without(seq, x), x)

\* Row updates of the runtime are guarded by status <> 'archived'.
SaveStatus(s, status) ==
  IF Archived(s) THEN UNCHANGED <<row, graves>>
  ELSE /\ row' = [row EXCEPT ![s].status = status, ![s].aged = FALSE]
       /\ graves' = IF status \in Terminal THEN Last(graves, s) ELSE Without(graves, s)
SaveHandle(s) ==
  IF Archived(s) THEN UNCHANGED <<row, graves>>
  ELSE /\ row' = [row EXCEPT ![s].handle = TRUE, ![s].aged = FALSE]
       /\ graves' = IF Ended(s) THEN Last(graves, s) ELSE graves
\* persistSandboxHandle swallows a failure.
PersistHandle(s) ==
  \E saved \in {TRUE} \cup {FALSE : x \in Races \cap {"lostSave"}} :
    IF saved THEN SaveHandle(s) ELSE UNCHANGED <<row, graves>>

\* provision replaces whatever VM has the name.
Provisioned(s) == [vm EXCEPT ![s] = [state |-> "running", worked |-> FALSE]]
Started(s) ==
  IF vm[s].state = "stopped" THEN [vm EXCEPT ![s].state = "running"] ELSE vm

\* A disposed runtime with nothing left to run is garbage.
Collect(o) ==
  IF o.disposed /\ o.turn = "none" /\ o.poll = "none" /\ o.stop = "none"
  THEN Blank ELSE o
\* IdlePolicy.dispose: a pending checkpoint is fired and not awaited.
Disposed(o) ==
  Collect([o EXCEPT !.disposed = TRUE,
                    !.stop = IF @ = "pending" THEN "stopping" ELSE @])

Step(r, phase) == rt' = [rt EXCEPT ![r].phase = phase]

-----------------------------------------------------------------------------
(* Requests: the events route and the routes that only need the runtime.    *)

\* The route answers 409 unless the row says idle, then awaits admission.
PostMessage(n, s) ==
  /\ s \in Talking
  /\ up[n] = "up" /\ row[s].status = "idle" /\ mail[n][s] = "none"
  /\ \A r \in Of(s) : ~Handling(r) \/ rt[r].disposed
  /\ mail' = [mail EXCEPT ![n][s] = "admitted"]
  /\ UNCHANGED <<store, rt, lru, inflight, process>>

\* runtime.sendEvent runs the handler up to its first await.
WithTurn(o) == [o EXCEPT !.turn = "settling"]

GetOrCreateHit(n, s, message) ==
  LET r == Holder(n, s)
  IN  /\ Holders(n, s) # {}
      /\ lru' = [lru EXCEPT ![n] = Last(@, r)]
      /\ rt' = [rt EXCEPT ![r] = IF message THEN WithTurn(@) ELSE @]
      /\ mail' = [mail EXCEPT ![n][s] = IF message THEN "none" ELSE @]
      /\ UNCHANGED inflight

GetOrCreateJoin(n, s, message) ==
  /\ Holders(n, s) = {} /\ inflight[n][s] # Nobody
  /\ mail' = [mail EXCEPT ![n][s] = IF message THEN "queued" ELSE @]
  /\ UNCHANGED <<rt, lru, inflight>>

GetOrCreateWake(n, s, message) ==
  /\ Holders(n, s) = {} /\ inflight[n][s] = Nobody
  /\ "quickWake" \in Races \/ ~CheckpointRuns(s)
  /\ \E r \in Runtimes :
       /\ rt[r] = Blank
       /\ rt' = [rt EXCEPT ![r] = [Blank EXCEPT !.node = n, !.sess = s,
                                                !.phase = "reading"]]
       /\ inflight' = [inflight EXCEPT ![n][s] = r]
  /\ mail' = [mail EXCEPT ![n][s] = IF message THEN "queued" ELSE @]
  /\ UNCHANGED lru

\* As GetOrCreateWake when `inflight` is not consulted.
GetOrCreateUnshared(n, s, message) ==
  \/ GetOrCreateHit(n, s, message)
  \/ /\ Holders(n, s) = {}
     /\ \E r \in Runtimes :
          /\ rt[r] = Blank
          /\ rt' = [rt EXCEPT ![r] = [Blank EXCEPT !.node = n, !.sess = s,
                                                   !.phase = "reading"]]
          /\ inflight' = [inflight EXCEPT ![n][s] = r]
     /\ mail' = [mail EXCEPT ![n][s] = IF message THEN "queued" ELSE @]
     /\ UNCHANGED lru
GetOrCreate(n, s, message) ==
  \/ GetOrCreateHit(n, s, message)
  \/ GetOrCreateJoin(n, s, message)
  \/ GetOrCreateWake(n, s, message)

DeliverMessage(n, s) ==
  /\ up[n] = "up" /\ mail[n][s] = "admitted"
  /\ GetOrCreate(n, s, TRUE)
  /\ UNCHANGED <<store, process>>

\* Any other request that needs the runtime: an interrupt, the outputs.
Touch(n, s) ==
  /\ up[n] = "up" /\ ~Archived(s)
  /\ "revive" \in Races \/ ~Ended(s)
  /\ GetOrCreate(n, s, FALSE)
  /\ UNCHANGED <<store, process>>

\* DELETE /v1/sessions/:id: a soft delete; the runtime is not told.
Archive(n, s) ==
  /\ up[n] = "up" /\ ~Archived(s)
  /\ "endBusy" \in Races \/ ~VmUnsettled(s)
  /\ SaveStatus(s, "archived")
  /\ UNCHANGED <<vm, memory, process>>

-----------------------------------------------------------------------------
(* A wake, from one await to the next.                                      *)

Waking(r, phase) == rt[r].phase = phase

\* The wake rejects: every request that awaited it fails.
WakeFails(r) ==
  LET n == rt[r].node  s == rt[r].sess
  IN  /\ rt' = [rt EXCEPT ![r] = Blank]
      /\ inflight' = [inflight EXCEPT ![n][s] = Nobody]
      /\ mail' = [mail EXCEPT ![n][s] = IF @ = "queued" THEN "none" ELSE @]
      /\ UNCHANGED lru

\* As WakeReads when the stored handle is not looked at.
WakeForgetsHandle(r) ==
  /\ Waking(r, "reading")
  /\ IF Archived(rt[r].sess) THEN WakeFails(r)
     ELSE Step(r, "provisioning") /\ UNCHANGED <<lru, inflight, mail>>
  /\ UNCHANGED <<store, process>>
\* DbSessionStore.get: an archived row is not found.
WakeReads(r) ==
  /\ Waking(r, "reading")
  /\ IF Archived(rt[r].sess) THEN WakeFails(r)
     ELSE /\ Step(r, IF row[rt[r].sess].handle THEN "probing" ELSE "provisioning")
          /\ UNCHANGED <<lru, inflight, mail>>
  /\ UNCHANGED <<store, process>>

\* ensureSandboxRunning with a handle on the record.
WakeProbes(r) ==
  LET state == vm[rt[r].sess].state
  IN  /\ Waking(r, "probing")
      /\ CASE state = "absent"  -> WakeFails(r)
           [] state = "crashed" -> Step(r, "provisioning") /\ UNCHANGED <<lru, inflight, mail>>
           [] state = "stopped" -> Step(r, "starting") /\ UNCHANGED <<lru, inflight, mail>>
           [] state = "running" -> Step(r, "building") /\ UNCHANGED <<lru, inflight, mail>>
      /\ UNCHANGED <<store, process>>

WakeProvisions(r) ==
  /\ Waking(r, "provisioning")
  /\ vm' = Provisioned(rt[r].sess)
  /\ Step(r, "saving")
  /\ UNCHANGED <<row, graves, lru, inflight, mail, process>>

WakeStartsVm(r) ==
  /\ Waking(r, "starting")
  /\ IF vm[rt[r].sess].state = "absent"
     THEN WakeFails(r) /\ UNCHANGED vm
     ELSE /\ vm' = Started(rt[r].sess) /\ Step(r, "building")
          /\ UNCHANGED <<lru, inflight, mail>>
  /\ UNCHANGED <<row, graves, process>>

\* persistSandboxHandle, only for a new VM; a failure is swallowed.
WakeSavesHandle(r) ==
  /\ Waking(r, "saving")
  /\ PersistHandle(rt[r].sess)
  /\ Step(r, "building")
  /\ UNCHANGED <<vm, lru, inflight, mail, process>>

\* The registry never evicts a running runtime.
Evictable(r) == rt[r].sm = "idle"
Quiet(rs) ==
  "busyEvict" \in Races \/ \A r \in rs : ~Handling(r) /\ ~Recovering(r)

\* evictIfOverCapacity(keep): the least recently used idle runtime, until the
\* registry fits or nothing is idle.
Victims(seq, keep) ==
  LET idle == Keep(seq, {x \in Range(seq) : x # keep /\ Evictable(x)})
      over == IF Len(seq) > MaxRuntimes THEN Len(seq) - MaxRuntimes ELSE 0
  IN  Range(SubSeq(idle, 1, IF over < Len(idle) THEN over ELSE Len(idle)))

\* persistStatus of the new runtime, its entry into the map, the eviction of
\* others, and the continuation of every request that awaited the wake.
WakeEnds(r) ==
  LET n == rt[r].node
      s == rt[r].sess
      held == Append(lru[n], r)
      victims == Victims(held, r)
      awake == [rt[r] EXCEPT !.phase = "awake",
                             !.turn = IF mail[n][s] = "queued" THEN "settling" ELSE @]
  IN  /\ Waking(r, "building") /\ Quiet(victims)
      /\ SaveStatus(s, "idle")
      /\ lru' = [lru EXCEPT ![n] = Keep(held, Range(held) \ victims)]
      /\ rt' = [x \in Runtimes |-> IF x = r THEN awake
                                   ELSE IF x \in victims THEN Disposed(rt[x]) ELSE rt[x]]
      /\ inflight' = [inflight EXCEPT ![n][s] = Nobody]
      /\ mail' = [mail EXCEPT ![n][s] = IF @ = "queued" THEN "none" ELSE @]
      /\ UNCHANGED <<vm, process>>

\* The registry's idle timer; a request resets it before its handler starts,
\* and a runtime that is not idle is looked at again later.
EvictIdle(n, s) ==
  LET r == Holder(n, s)
  IN  /\ up[n] = "up" /\ Holders(n, s) # {}
      /\ Evictable(r) /\ rt[r].turn \in {"none", "storing"} /\ Quiet({r})
      /\ lru' = [lru EXCEPT ![n] = Without(@, r)]
      /\ rt' = [rt EXCEPT ![r] = Disposed(@)]
      /\ UNCHANGED <<store, inflight, mail, process>>

-----------------------------------------------------------------------------
(* A turn, where it meets the row and the VM.                               *)

Turning(r, at) == rt[r].turn = at
Registry       == <<lru, inflight, mail>>

\* As TurnSettlesStop when the running checkpoint is not awaited.
TurnSkipsSettle(r) ==
  /\ Turning(r, "settling")
  /\ rt' = [rt EXCEPT ![r].turn = "probing",
                      ![r].stop = IF @ = "pending" THEN "none" ELSE @]
  /\ UNCHANGED <<store, Registry, process>>

\* settleStop() awaits a checkpoint of this runtime; then its timer is cancelled.
TurnSettlesStop(r) ==
  /\ Turning(r, "settling") /\ rt[r].stop # "stopping"
  /\ rt' = [rt EXCEPT ![r].turn = "probing", ![r].stop = "none"]
  /\ UNCHANGED <<store, Registry, process>>

\* status() throws on a VM that is gone; sm.start() follows unless it is stopped.
Begin(o) == [o EXCEPT !.turn = "marking", !.sm = "running"]
TurnProbes(r) ==
  LET state == vm[rt[r].sess].state
  IN  /\ Turning(r, "probing")
      /\ rt' = [rt EXCEPT ![r] =
                  CASE state = "absent"  -> Collect([@ EXCEPT !.turn = "none"])
                    [] state = "stopped" -> [@ EXCEPT !.turn = "starting"]
                    [] OTHER             -> Begin(@)]
      /\ UNCHANGED <<store, Registry, process>>

TurnStartsVm(r) ==
  /\ Turning(r, "starting")
  /\ vm' = Started(rt[r].sess)
  /\ rt' = [rt EXCEPT ![r] = IF vm[rt[r].sess].state = "absent"
                             THEN Collect([@ EXCEPT !.turn = "none"])
                             ELSE Begin(@)]
  /\ UNCHANGED <<row, graves, Registry, process>>

TurnMarksRow(r) ==
  /\ Turning(r, "marking")
  /\ SaveStatus(rt[r].sess, "running")
  /\ rt' = [rt EXCEPT ![r].turn = "driving"]
  /\ UNCHANGED <<vm, Registry, process>>

\* The agent's tools change the filesystem of the VM.
TurnWorks(r) ==
  LET s == rt[r].sess
  IN  /\ Turning(r, "driving") /\ vm[s].state = "running" /\ ~vm[s].worked
      /\ vm' = [vm EXCEPT ![s].worked = TRUE]
      /\ UNCHANGED <<row, graves, memory, process>>

\* onTurnSettled up to its await of the row.
TurnSettles(r) ==
  /\ Turning(r, "driving")
  /\ rt' = [rt EXCEPT ![r].turn = "storing", ![r].sm = "idle"]
  /\ SaveStatus(rt[r].sess, "idle")
  /\ UNCHANGED <<vm, Registry, process>>

\* An unrecoverable error; a terminated runtime stays in the registry, which
\* evicts only idle ones.
TurnTerminates(r) ==
  /\ Turning(r, "driving")
  /\ "endBusy" \in Races \/ ~VmUnsettled(rt[r].sess)
  /\ rt' = [rt EXCEPT ![r] = Collect([@ EXCEPT !.turn = "none", !.sm = "terminated"])]
  /\ SaveStatus(rt[r].sess, "terminated")
  /\ UNCHANGED <<vm, Registry, process>>

\* The transcript is stored; the idle checkpoint is scheduled, by a runtime
\* that was disposed meanwhile too.
Rested(o) == [o EXCEPT !.turn = "none", !.stop = IF @ = "none" THEN "pending" ELSE @]
TurnEnds(r) ==
  /\ Turning(r, "storing")
  /\ rt' = [rt EXCEPT ![r] = Collect(Rested(@))]
  /\ UNCHANGED <<store, Registry, process>>

-----------------------------------------------------------------------------
(* The idle checkpoint and the crash poller of a runtime.                   *)

StopFires(r) ==
  /\ rt[r].stop = "pending"
  /\ rt' = [rt EXCEPT ![r].stop = "stopping"]
  /\ UNCHANGED <<store, Registry, process>>

\* provider.stop; it throws, and is given up, on a VM that is not running.
StopEnds(r) ==
  LET s == rt[r].sess
  IN  /\ rt[r].stop = "stopping"
      /\ vm' = IF vm[s].state = "running" THEN [vm EXCEPT ![s].state = "stopped"] ELSE vm
      /\ rt' = [rt EXCEPT ![r] = Collect([@ EXCEPT !.stop = "none"])]
      /\ UNCHANGED <<row, graves, Registry, process>>

PollFindsCrash(r) ==
  /\ rt[r].phase = "awake" /\ ~rt[r].disposed /\ ~Recovering(r)
  /\ vm[rt[r].sess].state = "crashed"
  /\ rt' = [rt EXCEPT ![r].poll = "provisioning"]
  /\ UNCHANGED <<store, Registry, process>>

PollProvisions(r) ==
  /\ rt[r].poll = "provisioning"
  /\ vm' = Provisioned(rt[r].sess)
  /\ rt' = [rt EXCEPT ![r].poll = "saving"]
  /\ UNCHANGED <<row, graves, Registry, process>>

\* onRecovered persists the new handle.
PollSavesHandle(r) ==
  /\ rt[r].poll = "saving"
  /\ PersistHandle(rt[r].sess)
  /\ rt' = [rt EXCEPT ![r] = Collect([@ EXCEPT !.poll = "none"])]
  /\ UNCHANGED <<vm, Registry, process>>

-----------------------------------------------------------------------------
(* Crashes, time, and the boot of an instance.                              *)

VmCrashes(s) ==
  /\ vm[s].state = "running" /\ crashes < MaxCrashes
  /\ "endBusy" \in Races \/ ~Ended(s)
  /\ vm' = [vm EXCEPT ![s].state = "crashed"]
  /\ crashes' = crashes + 1
  /\ UNCHANGED <<row, graves, memory, up, boots, reap>>

\* A row untouched for INSTANCE_LEASE_MS; only a running one is asked.
LeaseElapses(s) ==
  /\ row[s].status = "running" /\ ~row[s].aged
  /\ row' = [row EXCEPT ![s].aged = TRUE]
  /\ UNCHANGED <<vm, graves, memory, process>>

Kill(n) ==
  /\ up[n] = "up" /\ boots[n] < MaxKills
  /\ "reapCut" \in Races \/ ~reap[n].destroyed
  /\ up' = [up EXCEPT ![n] = "down"]
  /\ rt' = [r \in Runtimes |-> IF rt[r].node = n THEN Blank ELSE rt[r]]
  /\ lru' = [lru EXCEPT ![n] = <<>>]
  /\ inflight' = [inflight EXCEPT ![n] = [s \in Sessions |-> Nobody]]
  /\ mail' = [mail EXCEPT ![n] = [s \in Sessions |-> "none"]]
  /\ reap' = [reap EXCEPT ![n] = [left |-> <<>>, destroyed |-> FALSE]]
  /\ UNCHANGED <<store, boots, crashes>>

\* instanceId of this boot.
InstanceId(n) == IF FixedIds THEN <<n, 0>> ELSE <<n, boots[n]>>

\* The rows of listResumableSessions whose labelled VM survives get its handle.
BootReattaches(n) ==
  /\ up[n] = "down"
  /\ up' = [up EXCEPT ![n] = "reattached"]
  /\ boots' = [boots EXCEPT ![n] = @ + 1]
  /\ row' = [s \in Sessions |->
               IF row[s].status = "running" /\ ~row[s].handle /\ vm[s].state # "absent"
               THEN [row[s] EXCEPT !.handle = TRUE, !.aged = FALSE] ELSE row[s]]
  /\ UNCHANGED <<vm, graves, memory, reap, crashes>>

\* The rows the reset of a boot takes for its own; updated_at is left alone.
ClaimsAll(n, s) == row[s].status # "idle"
Claims(n, s) ==
  /\ row[s].status = "running"
  /\ row[s].owner \in {Nobody, InstanceId(n)} \/ row[s].aged
BootResets(n) ==
  /\ up[n] = "reattached"
  /\ up' = [up EXCEPT ![n] = "up"]
  /\ row' = [s \in Sessions |->
               IF Claims(n, s)
               THEN [row[s] EXCEPT !.status = "idle", !.owner = InstanceId(n)]
               ELSE row[s]]
  /\ UNCHANGED <<vm, graves, memory, boots, reap, crashes>>

-----------------------------------------------------------------------------
(* The sandbox reaper.                                                      *)

Reapable == Keep(graves, {s \in Range(graves) : row[s].handle})

ReapLists(n) ==
  /\ up[n] = "up" /\ reap[n].left = <<>> /\ Reapable # <<>>
  /\ reap' = [reap EXCEPT ![n].left =
                SubSeq(Reapable, 1, IF Len(Reapable) < Batch THEN Len(Reapable) ELSE Batch)]
  /\ UNCHANGED <<store, memory, up, boots, crashes>>

\* destroy throws on a VM that is gone: the row stays for the next pass.
ReapDestroys(n) ==
  LET s == Head(reap[n].left)
  IN  /\ reap[n].left # <<>> /\ ~reap[n].destroyed
      /\ IF vm[s].state = "absent"
         THEN reap' = [reap EXCEPT ![n].left = Tail(@)] /\ UNCHANGED vm
         ELSE /\ vm' = [vm EXCEPT ![s] = NoVm]
              /\ reap' = [reap EXCEPT ![n].destroyed = TRUE]
      /\ UNCHANGED <<row, graves, memory, up, boots, crashes>>

\* clearReapedSandboxHandle touches updated_at.
ReapClears(n) ==
  LET s == Head(reap[n].left)
  IN  /\ reap[n].left # <<>> /\ reap[n].destroyed
      /\ row' = [row EXCEPT ![s].handle = FALSE]
      /\ graves' = IF Ended(s) THEN Last(graves, s) ELSE graves
      /\ reap' = [reap EXCEPT ![n] = [left |-> Tail(@.left), destroyed |-> FALSE]]
      /\ UNCHANGED <<vm, memory, up, boots, crashes>>

-----------------------------------------------------------------------------
WakeStep(r) ==
  \/ WakeReads(r) \/ WakeProbes(r) \/ WakeProvisions(r) \/ WakeStartsVm(r)
  \/ WakeSavesHandle(r) \/ WakeEnds(r)
TurnMoves(r) ==
  \/ TurnSettlesStop(r) \/ TurnProbes(r) \/ TurnStartsVm(r) \/ TurnMarksRow(r)
  \/ TurnSettles(r) \/ TurnTerminates(r) \/ TurnEnds(r)
TurnStep(r) == TurnMoves(r) \/ TurnWorks(r)
VmStep(r) ==
  \/ StopFires(r) \/ StopEnds(r)
  \/ PollFindsCrash(r) \/ PollProvisions(r) \/ PollSavesHandle(r)
BootStep(n) == BootReattaches(n) \/ BootResets(n)
ReapStep(n) == ReapLists(n) \/ ReapDestroys(n) \/ ReapClears(n)

Next ==
  \/ \E n \in Nodes, s \in Sessions :
       PostMessage(n, s) \/ DeliverMessage(n, s) \/ Touch(n, s)
       \/ Archive(n, s) \/ EvictIdle(n, s)
  \/ \E r \in Runtimes : WakeStep(r) \/ TurnStep(r) \/ VmStep(r)
  \/ \E s \in Sessions : VmCrashes(s) \/ LeaseElapses(s)
  \/ \E n \in Nodes : Kill(n) \/ BootStep(n) \/ ReapStep(n)

Spec == Init /\ [][Next]_vars

(* Awaits are answered, a turn ends, a killed instance is restarted, the    *)
(* reaper's interval keeps firing.  Requests, eviction, crashes and time    *)
(* are the environment's.                                                   *)
Fairness ==
  /\ \A r \in Runtimes : /\ WF_vars(WakeStep(r))
                         /\ WF_vars(TurnMoves(r))
                         /\ WF_vars(StopEnds(r))
                         /\ WF_vars(PollProvisions(r) \/ PollSavesHandle(r))
  /\ \A n \in Nodes : WF_vars(BootStep(n)) /\ WF_vars(ReapStep(n))
LiveSpec == Spec /\ Fairness

-----------------------------------------------------------------------------
Phases == {"unused", "reading", "probing", "provisioning", "saving", "starting",
           "building", "awake"}
Turns  == {"none", "settling", "probing", "starting", "marking", "driving", "storing"}

\* The state has the shape the code gives it.
TypeOK ==
  /\ row \in [Sessions -> [status : {"idle", "running"} \cup Terminal, handle : BOOLEAN,
                           owner : {Nobody} \cup (Nodes \X Nat), aged : BOOLEAN]]
  /\ vm \in [Sessions -> [state : {"absent", "running", "stopped", "crashed"},
                          worked : BOOLEAN]]
  /\ graves \in Seq(Sessions)
  /\ rt \in [Runtimes ->
               [node : Nodes \cup {Nobody}, sess : Sessions \cup {Nobody},
                phase : Phases, sm : {"idle", "running", "terminated"}, turn : Turns,
                stop : {"none", "pending", "stopping"},
                poll : {"none", "provisioning", "saving"}, disposed : BOOLEAN]]
  /\ lru \in [Nodes -> Seq(Runtimes)]
  /\ inflight \in [Nodes -> [Sessions -> Runtimes \cup {Nobody}]]
  /\ mail \in [Nodes -> [Sessions -> {"none", "admitted", "queued"}]]
  /\ up \in [Nodes -> {"up", "down", "reattached"}] /\ boots \in [Nodes -> Nat]
  /\ reap \in [Nodes -> [left : Seq(Sessions), destroyed : BOOLEAN]]
  /\ crashes \in Nat

(* While a turn is driven, its row says running, whatever boots and wakes   *)
(* write, and no checkpoint has stopped its VM: a second message is         *)
(* refused, and the tools of the turn have a machine to run on.             *)
TurnIsBacked ==
  \A r \in Runtimes :
    LET s == rt[r].sess
    IN  rt[r].turn = "driving" /\ ~Ended(s)
          => row[s].status = "running" /\ vm[s].state \in {"running", "crashed"}

(* The files a turn left in a VM are never thrown away: through eviction,   *)
(* restarts of the instance and new wakes, a VM that has not crashed is     *)
(* neither replaced nor destroyed before the session has ended.             *)
WorkKept ==
  [][\A s \in Sessions :
       vm[s].worked /\ vm[s].state # "crashed" /\ ~Ended(s) => vm'[s].worked]_vars

(* The VM of an archived or terminated session is destroyed and its handle  *)
(* cleared, even if a runtime still uses it or an instance dies on the way. *)
EndedReaped ==
  \A s \in Sessions :
    Ended(s) ~> (Ended(s) /\ vm[s].state = "absent" /\ ~row[s].handle)

(* A terminated session stays terminated until it is archived.              *)
TerminatedIsFinal ==
  [][\A s \in Sessions : row[s].status = "terminated" => row'[s].status \in Terminal]_vars

(* A row does not say running for ever: the turn ends, or "a restarted      *)
(* instance reclaims its own abandoned rows via the expired-lease path"     *)
(* (app.ts), whatever id it has in this life.                               *)
StaleRunningEnds ==
  \A s \in Sessions : row[s].status = "running" ~> row[s].status # "running"
=============================================================================
