--------------------------- MODULE SessionRuntime ---------------------------
(***************************************************************************)
(* One ManagedSessionRuntime: the driver of a single agent session.        *)
(*                                                                         *)
(* Every inbound event runs as a handler ACTIVATION: an asynchronous       *)
(* function whose code runs without interruption from one await to the     *)
(* next, all activations sharing the fields of the runtime object.  pc[a]  *)
(* names the await activation a is suspended at, and an action is the code *)
(* between two awaits.  A user.message activation drives a prompt of the   *)
(* Pi agent; a prompt may stop on a tool call that waits for the client,   *)
(* and the activation that delivers the last answer drives the same        *)
(* prompt to its end.                                                      *)
(***************************************************************************)
EXTENDS Naturals, FiniteSets

CONSTANTS
  Messages,     \* user.message events, one activation and one prompt each
  Calls,        \* tool calls that wait for an answer; answering one is an activation
  Interrupts,   \* user.interrupt events
  Usage,        \* model requests that report usage
  CallKind,     \* [Calls -> {"confirm", "custom", "tool"}]: who the call waits for
  MaxRetries,   \* MAX_RETRIES of the state machine
  Budget,       \* model requests after which the session budget is exceeded
  Overlap,      \* which overlaps the environment makes, see Overlaps
  NoOne         \* no activation, no prompt, no stop reason

Activations == Messages \cup Calls \cup Interrupts
Drivers     == Messages \cup Calls

(* The overlaps an environment may make; without them an input waits until  *)
(* no handler is active.  "settling": an input arrives while a settlement   *)
(* that already announced idle is still storing the transcript.             *)
(* "redirect": a message follows an interrupt that has been handled, while  *)
(* the interrupted turn's own handler is active.  "paused": a message is    *)
(* posted while an earlier prompt has not ended.  "interrupt", "answer":    *)
(* one arrives while a handler is active.  "fastBlock": a call blocks after *)
(* an answer took the parked prompt and before it is driven again.          *)
Overlaps == {"settling", "redirect", "paused", "interrupt", "answer", "fastBlock"}

ASSUME RuntimeAssumption ==
  /\ MaxRetries \in Nat /\ Budget \in Nat
  /\ CallKind \in [Calls -> {"confirm", "custom", "tool"}]
  /\ Overlap \subseteq Overlaps
  /\ Messages \cap Calls = {} /\ Messages \cap Interrupts = {}
  /\ Calls \cap Interrupts = {}
  /\ NoOne \notin Activations \cup {"completed", "user_interrupt", "budget_exhausted",
                                   "requires_action", "error"}

VARIABLES
  sm,             \* the SessionStateMachine
  row,            \* status and stop reason of the sessions row in Postgres
  turnFlags,      \* whose TurnFlags object this.turnFlags refers to
  flags,          \* the TurnFlags object of each driving activation
  pendingPrompt,  \* the prompt parked by a requires_action settlement
  waiter,         \* whose drive holds requiresActionWaiter
  prompt,         \* the prompt() promise each message created last
  call,           \* what became of each tool call
  callOf,         \* the prompt a tool call belongs to
  told,           \* call ids the client has been given
  idle,           \* IdlePolicy: is its timer set, is a checkpoint in flight
  vm,             \* the sandbox: "running" or "stopped"
  usage,          \* the record-and-enforce task of each model request
  usageTasks,     \* this.usageTasks
  pc,             \* the await each activation is suspended at
  act             \* the locals of each activation

machine  == <<sm, row>>
turn     == <<turnFlags, flags, pendingPrompt, waiter>>
agent    == <<prompt, call, callOf, told>>
sandbox  == <<idle, vm>>
meter    == <<usage, usageTasks>>
vars     == <<machine, turn, agent, sandbox, meter, pc, act>>

-----------------------------------------------------------------------------
(* The state machine: pure functions on its record.                         *)

Transition(s, to, reason) ==
  IF s.status = "terminated" /\ to # "terminated" THEN s
  ELSE [s EXCEPT !.status = to,
                 !.stopReason = IF to = "running" THEN NoOne
                                ELSE IF reason # NoOne THEN reason ELSE @]

Start(s) == Transition([s EXCEPT !.stopReason = NoOne, !.blocking = {}], "running", NoOne)
Stop(s, reason) == Transition([s EXCEPT !.retries = 0], "idle", reason)
RequiresAction(s, ids) ==
  Transition([s EXCEPT !.retries = 0, !.blocking = ids], "idle", "requires_action")
Terminate(s) == Transition(s, "terminated", "error")
RetriesLeft(s) == s.retries < MaxRetries
ScheduleRetry(s) ==
  Transition([s EXCEPT !.retries = @ + 1], "rescheduling", NoOne)

-----------------------------------------------------------------------------
NoFlags == [budget |-> FALSE, requires |-> FALSE, blocking |-> {}]
RowOf(s) == [status |-> s.status, stopReason |-> s.stopReason]
\* driven: the prompt it drives; reason: of its settlement; write: the row it saves;
\* waits: the usage tasks it drains.
NewActivation == [driven |-> NoOne, reason |-> NoOne, waits |-> {},
                  write |-> [status |-> "idle", stopReason |-> "completed"]]

\* wakeInner ends in sm.complete("completed") and a saved row.
Init ==
  /\ sm = [status |-> "idle", stopReason |-> "completed", retries |-> 0, blocking |-> {}]
  /\ row = RowOf(sm)
  /\ turnFlags = NoOne /\ flags = [d \in Drivers |-> NoFlags]
  /\ pendingPrompt = NoOne /\ waiter = NoOne
  /\ prompt = [m \in Messages |-> "none"]
  /\ call = [c \in Calls |-> "none"] /\ callOf = [c \in Calls |-> NoOne]
  /\ told = {}
  /\ idle = [timer |-> FALSE, stopping |-> FALSE] /\ vm = "running"
  /\ usage = [u \in Usage |-> "none"] /\ usageTasks = {}
  /\ pc = [a \in Activations |-> "new"]
  /\ act = [a \in Activations |-> NewActivation]

Ended == {"new", "done", "failed"}
Live  == {a \in Activations : pc[a] \notin Ended}
Quiet == Live = {}
\* Callbacks of a settled promise, which run before any other event.
Microtasks == {d \in Drivers : pc[d] \in {"paused", "resolved", "transient", "fatal"}}

\* Activation a is suspended at p and no microtask is due.
At(a, p) == Microtasks = {} /\ pc[a] = p

Blocked == {c \in Calls : call[c] = "blocked"}
SameCoordinator(c) == {x \in Blocked : CallKind[x] = CallKind[c]}

\* May an input be delivered, given what the environment overlaps?
MayArrive(token) ==
  \/ token \in Overlap
  \/ \A a \in Live : pc[a] = "storing" /\ "settling" \in Overlap

-----------------------------------------------------------------------------
(* user.message: the POST and the handler up to the prompt.                 *)

\* The route reads the row (409 unless idle) and then awaits the runtime.
PostMessage(m) ==
  /\ At(m, "new")
  /\ \/ MayArrive("message")
     \/ "redirect" \in Overlap /\ \E i \in Interrupts : pc[i] = "done"
  /\ "paused" \in Overlap \/ \A n \in Messages : prompt[n] # "inflight"
  /\ row.status = "idle"
  /\ pc' = [pc EXCEPT ![m] = "accepted"]
  /\ UNCHANGED <<machine, turn, agent, sandbox, meter, act>>

StopNotAwaited == TRUE
\* settleStop returns once no checkpoint is in flight (ROB-18).
StopSettled == ~idle.stopping

\* sendEvent: waits for a checkpoint in flight, then cancels the timer and asks
\* for the sandbox status.
SettleStop(m) ==
  /\ At(m, "accepted")
  /\ StopSettled
  /\ idle' = [idle EXCEPT !.timer = FALSE]
  /\ pc' = [pc EXCEPT ![m] = "vmStatus"]
  /\ UNCHANGED <<machine, turn, agent, vm, meter, act>>

\* sm.start() throws on a terminated session: the handler ends there.
BeginRun(a, next) ==
  IF sm.status = "terminated"
  THEN /\ pc' = [pc EXCEPT ![a] = "failed"]
       /\ UNCHANGED <<sm, act>>
  ELSE /\ sm' = Start(sm)
       /\ act' = [act EXCEPT ![a].write = RowOf(sm')]
       /\ pc' = [pc EXCEPT ![a] = next]

SandboxIsUp(m) ==
  /\ At(m, "vmStatus")
  /\ vm # "stopped"
  /\ BeginRun(m, "savingRun")
  /\ UNCHANGED <<row, turn, agent, sandbox, meter>>

SandboxIsStopped(m) ==
  /\ At(m, "vmStatus")
  /\ vm = "stopped"
  /\ pc' = [pc EXCEPT ![m] = "vmStart"]
  /\ UNCHANGED <<machine, turn, agent, sandbox, meter, act>>

SandboxStarted(m) ==
  /\ At(m, "vmStart")
  /\ vm' = "running"
  /\ BeginRun(m, "savingRun")
  /\ UNCHANGED <<row, turn, agent, idle, meter>>

\* provider.start rejects: the handler fails before the turn has begun.
SandboxStartFails(m) ==
  /\ At(m, "vmStart")
  /\ pc' = [pc EXCEPT ![m] = "failed"]
  /\ UNCHANGED <<machine, turn, agent, sandbox, meter, act>>

\* saveStatus writes the values read when it was called.  (Its failure, which
\* persistStatus swallows, is left out: the row would stay as it was.)
SaveStatus(a) == row' = act[a].write

\* this.turnFlags = flags.
KeepSlot(d) == turnFlags' = turnFlags
TakeSlot(d) == turnFlags' = d

\* The turn starts: fresh flags, and prompt() is called and driven.
StartTurn(m) ==
  /\ At(m, "savingRun")
  /\ SaveStatus(m)
  /\ flags' = [flags EXCEPT ![m] = NoFlags]
  /\ TakeSlot(m)
  /\ waiter' = m
  /\ prompt' = [prompt EXCEPT ![m] = "inflight"]
  /\ act' = [act EXCEPT ![m].driven = m]
  /\ pc' = [pc EXCEPT ![m] = "driving"]
  /\ UNCHANGED <<sm, pendingPrompt, call, callOf, told, sandbox, meter>>

-----------------------------------------------------------------------------
(* The agent: tool calls that wait, and prompts that end.                   *)

\* onCoordinatorBlock(ids): mark the turn the slot refers to, release the drive.
MarkBlocked(ids) ==
  flags' = IF turnFlags = NoOne THEN flags
           ELSE [flags EXCEPT ![turnFlags].requires = TRUE,
                              ![turnFlags].blocking = ids]
ReleaseNoDrive(pcs) == pcs
ReleaseDrive(pcs) == IF waiter = NoOne THEN pcs ELSE [pcs EXCEPT ![waiter] = "paused"]

\* A resume has taken this prompt and has not driven it yet.
BetweenDrives(m) == \E c \in Calls : pc[c] = "savingResume" /\ act[c].driven = m

MayBlock(m, c) ==
  /\ Microtasks = {}
  /\ prompt[m] = "inflight"
  /\ callOf[c] = NoOne
  /\ "fastBlock" \in Overlap \/ ~BetweenDrives(m)

\* A gated or client-executed call registers with its coordinator, which reports
\* only the ids it holds itself.  A custom call also announces its own id.
CoordinatorBlocks(m, c) ==
  /\ CallKind[c] \in {"confirm", "custom"}
  /\ MayBlock(m, c)
  /\ call' = [call EXCEPT ![c] = "blocked"]
  /\ callOf' = [callOf EXCEPT ![c] = m]
  /\ told' = IF CallKind[c] = "custom" THEN told \cup {c} ELSE told
  /\ MarkBlocked(SameCoordinator(c) \cup {c})
  /\ pc' = ReleaseDrive(pc) /\ waiter' = NoOne
  /\ UNCHANGED <<machine, turnFlags, pendingPrompt, prompt, sandbox, meter, act>>

\* A self-hosted call is queued for the worker before its result is awaited.
QueueToolCall(m, c) ==
  /\ CallKind[c] = "tool"
  /\ MayBlock(m, c)
  /\ call' = [call EXCEPT ![c] = "queued"]
  /\ callOf' = [callOf EXCEPT ![c] = m]
  /\ UNCHANGED <<machine, turn, prompt, told, sandbox, meter, pc, act>>

\* awaitToolResult: take a buffered result, or block and report every pending id.
AwaitToolResult(c) ==
  /\ Microtasks = {} /\ call[c] \in {"queued", "buffered"}
  /\ "fastBlock" \in Overlap \/ ~BetweenDrives(callOf[c])
  /\ \/ /\ call[c] = "buffered"
        /\ call' = [call EXCEPT ![c] = "answered"]
        /\ UNCHANGED <<flags, waiter, pc>>
     \/ /\ call[c] = "queued"
        /\ call' = [call EXCEPT ![c] = "blocked"]
        /\ MarkBlocked(Blocked \cup {c})
        /\ pc' = ReleaseDrive(pc) /\ waiter' = NoOne
  /\ UNCHANGED <<machine, turnFlags, pendingPrompt, prompt, callOf, told, sandbox,
                 meter, act>>

\* prompt() settles once none of its tool calls is waiting.
PromptSettles(m) == \E outcome \in {"resolved", "transient", "fatal"} :
  /\ Microtasks = {} /\ prompt[m] = "inflight"
  /\ \A c \in Calls : callOf[c] = m => call[c] = "answered"
  /\ prompt' = [prompt EXCEPT ![m] = outcome]
  /\ pc' = [a \in Activations |->
              IF pc[a] = "driving" /\ act[a].driven = m THEN outcome ELSE pc[a]]
  /\ UNCHANGED <<machine, turn, call, callOf, told, sandbox, meter, act>>

-----------------------------------------------------------------------------
(* Usage of a model request: recorded, then checked against the budget.     *)

ReportUsage(u) ==
  /\ Microtasks = {} /\ usage[u] = "none"
  /\ \E m \in Messages : prompt[m] = "inflight"
  /\ usage' = [usage EXCEPT ![u] = "recording"]
  /\ usageTasks' = usageTasks \cup {u}
  /\ UNCHANGED <<machine, turn, agent, sandbox, pc, act>>

Spent == Cardinality({u \in Usage : usage[u] \in {"checking", "done"}})
Exceeded == Spent >= Budget

\* The row is durable; without a turn there is nothing to enforce.
RecordUsage(u) ==
  /\ Microtasks = {} /\ usage[u] = "recording"
  /\ usage' = [usage EXCEPT ![u] = IF turnFlags = NoOne THEN "done" ELSE "checking"]
  /\ UNCHANGED <<machine, turn, agent, sandbox, usageTasks, pc, act>>

\* The verdict goes to the turn the slot refers to when the read returns.
EnforceBudget(u) ==
  /\ Microtasks = {} /\ usage[u] = "checking"
  /\ usage' = [usage EXCEPT ![u] = "done"]
  /\ flags' = IF Exceeded /\ turnFlags # NoOne
              THEN [flags EXCEPT ![turnFlags].budget = TRUE] ELSE flags
  /\ UNCHANGED <<machine, turnFlags, pendingPrompt, waiter, agent, sandbox, usageTasks,
                 pc, act>>

\* drainUsage: the tasks taken when it was called, then every record in flight.
DrainedRecordsOnly(a) == \A u \in Usage : usage[u] # "recording"
Drained(a) ==
  /\ \A u \in act[a].waits : usage[u] = "done"
  /\ \A u \in Usage : usage[u] # "recording"

DrainThen(a, next, reason, locals) ==
  /\ act' = [locals EXCEPT ![a].waits = usageTasks, ![a].reason = reason]
  /\ usageTasks' = {}
  /\ pc' = [pc EXCEPT ![a] = next]

\* Entering onTurnSettled(reason).
Settle(a, reason) == DrainThen(a, "settling", reason, act)

-----------------------------------------------------------------------------
(* The drive returns: the microtasks of runTurnWithRetries and of           *)
(* resumeIfUnblocked.                                                        *)

DrivePaused(d) ==
  /\ pc[d] = "paused"
  /\ pendingPrompt' = act[d].driven
  /\ Settle(d, "requires_action")
  /\ UNCHANGED <<machine, turnFlags, flags, waiter, agent, sandbox, usage>>

\* A message drains the usage before it decides the reason, a resume does not.
DriveResolved(d) ==
  /\ pc[d] = "resolved"
  /\ waiter' = NoOne
  /\ IF d \in Messages THEN DrainThen(d, "draining", NoOne, act)
     ELSE Settle(d, IF flags[d].budget THEN "budget_exhausted" ELSE "completed")
  /\ UNCHANGED <<machine, turnFlags, flags, pendingPrompt, agent, sandbox, usage>>

DecideReason(m) ==
  /\ At(m, "draining")
  /\ Drained(m)
  /\ Settle(m, IF flags[m].budget THEN "budget_exhausted" ELSE "completed")
  /\ UNCHANGED <<machine, turn, agent, sandbox, usage>>

\* A transient rejection of a message is retried, any other one ends the session.
DriveRejected(d) ==
  /\ pc[d] \in {"transient", "fatal"}
  /\ waiter' = NoOne
  /\ \/ /\ d \in Messages /\ pc[d] = "transient" /\ RetriesLeft(sm)
        /\ sm' = ScheduleRetry(sm)
        /\ pc' = [pc EXCEPT ![d] = "savingRetry"]
     \/ /\ ~(d \in Messages /\ pc[d] = "transient" /\ RetriesLeft(sm))
        /\ sm' = Terminate(sm)
        /\ pc' = [pc EXCEPT ![d] = "savingEnd"]
  /\ act' = [act EXCEPT ![d].write = RowOf(sm')]
  /\ UNCHANGED <<row, turnFlags, flags, pendingPrompt, agent, sandbox, meter>>

BackOff(m) ==
  /\ At(m, "savingRetry")
  /\ SaveStatus(m)
  /\ pc' = [pc EXCEPT ![m] = "backoff"]
  /\ UNCHANGED <<sm, turn, agent, sandbox, meter, act>>

RetryDue(m) ==
  /\ At(m, "backoff")
  /\ BeginRun(m, "savingRerun")
  /\ UNCHANGED <<row, turn, agent, sandbox, meter>>

\* The retry keeps its flags object; a block recorded in it wins at once.
RetryPrompt(m) ==
  /\ At(m, "savingRerun")
  /\ SaveStatus(m)
  /\ prompt' = [prompt EXCEPT ![m] = "inflight"]
  /\ waiter' = IF flags[m].requires THEN NoOne ELSE m
  /\ pc' = [pc EXCEPT ![m] = IF flags[m].requires THEN "paused" ELSE "driving"]
  /\ UNCHANGED <<sm, turnFlags, flags, pendingPrompt, call, callOf, told, sandbox,
                 meter, act>>

\* Terminated and saved: a message still settles, a resume ends.
EndSaved(d) ==
  /\ At(d, "savingEnd")
  /\ SaveStatus(d)
  /\ \/ /\ d \in Messages /\ Settle(d, "error")
        /\ UNCHANGED turnFlags
     \/ /\ d \in Calls /\ turnFlags' = NoOne
        /\ pc' = [pc EXCEPT ![d] = "done"]
        /\ UNCHANGED <<act, usageTasks>>
  /\ UNCHANGED <<sm, flags, pendingPrompt, waiter, agent, sandbox, usage>>

-----------------------------------------------------------------------------
(* onTurnSettled.                                                           *)

SettledUnlessCompleted(reason) ==
  IF reason = "completed" THEN sm ELSE Stop(sm, reason)
SettledState(reason) ==
  IF sm.status \notin {"running", "rescheduling"} \/ reason = "user_interrupt" THEN sm
  ELSE IF reason = "requires_action"
       THEN RequiresAction(sm, IF turnFlags = NoOne THEN sm.blocking
                               ELSE flags[turnFlags].blocking)
       ELSE Stop(sm, reason)

SettleIdle(a) ==
  /\ At(a, "settling")
  /\ Drained(a)
  /\ sm.status # "terminated"
  /\ sm' = SettledState(act[a].reason)
  /\ act' = [act EXCEPT ![a].write = RowOf(sm')]
  /\ pc' = [pc EXCEPT ![a] = "savingIdle"]
  /\ UNCHANGED <<row, turn, agent, sandbox, meter>>

\* A terminated session flushes its pending checkpoint and is done.
SettleTerminated(a) ==
  /\ At(a, "settling")
  /\ Drained(a)
  /\ sm.status = "terminated"
  /\ idle' = [timer |-> FALSE, stopping |-> idle.stopping \/ idle.timer]
  /\ act' = [act EXCEPT ![a].write = RowOf(sm)]
  /\ pc' = [pc EXCEPT ![a] = "savingFinal"]
  /\ UNCHANGED <<machine, turn, agent, vm, meter>>

FinalSaved(a) ==
  /\ At(a, "savingFinal") \/ At(a, "savingAdvert")
  /\ SaveStatus(a)
  /\ pc' = [pc EXCEPT ![a] = "done"]
  /\ UNCHANGED <<sm, turn, agent, sandbox, meter, act>>

\* The settled status is durable: status_idle goes out with the ids to answer.
AnnounceIdle(a) ==
  /\ At(a, "savingIdle")
  /\ SaveStatus(a)
  /\ told' = told \cup (IF turnFlags = NoOne THEN {} ELSE flags[turnFlags].blocking)
  /\ pc' = [pc EXCEPT ![a] = "storing"]
  /\ UNCHANGED <<sm, turn, prompt, call, callOf, sandbox, meter, act>>

\* Transcript and memory volumes are stored: arm the idle timer, free the slot.
Stored(a) ==
  /\ At(a, "storing")
  /\ idle' = [idle EXCEPT !.timer = TRUE]
  /\ turnFlags' = NoOne
  /\ pc' = [pc EXCEPT ![a] = "done"]
  /\ UNCHANGED <<machine, flags, pendingPrompt, waiter, agent, vm, meter, act>>

\* Storing throws: neither the timer is armed nor the slot freed.
StoreFails(a) ==
  /\ At(a, "storing")
  /\ pc' = [pc EXCEPT ![a] = "failed"]
  /\ UNCHANGED <<machine, turn, agent, sandbox, meter, act>>

-----------------------------------------------------------------------------
(* Answers: user.tool_confirmation, user.custom_tool_result and             *)
(* user.tool_result, one activation per call answered.                      *)

\* A worker knows the calls it claimed, a client those it has been told.
Known(c) == CallKind[c] = "tool" \/ c \in told

\* A result nobody awaits yet is buffered, and the handler ends.
BufferResult(c) ==
  /\ At(c, "new") /\ call[c] = "queued"
  /\ MayArrive("answer")
  /\ call' = [call EXCEPT ![c] = "buffered"]
  /\ pc' = [pc EXCEPT ![c] = "done"]
  /\ UNCHANGED <<machine, turn, prompt, callOf, told, sandbox, meter, act>>

\* The coordinator re-reports what it still holds (the tool map does not).
Reports(c) == CallKind[c] # "tool" /\ SameCoordinator(c) # {c}
ReportRest(c) ==
  IF Reports(c) THEN MarkBlocked(SameCoordinator(c) \ {c}) /\ waiter' = NoOne
  ELSE UNCHANGED <<flags, waiter>>
PcsAfterReport(c) == IF Reports(c) THEN ReleaseDrive(pc) ELSE pc

\* blockingEventIds() once c is deleted from its map.
RemainingStale(c) == Blocked
Remaining(c) == Blocked \ {c}

\* resumeIfUnblocked takes the parked prompt before its first await.
LeavePrompt == pendingPrompt' = pendingPrompt
TakePrompt == pendingPrompt' = NoOne

\* The status_idle that re-advertises the rest.
ReadvertiseNothing(rest) == told' = told
Readvertise(rest) == told' = told \cup rest

\* resumeIfUnblocked, up to its first await.
AnswerCall(c) ==
  /\ At(c, "new") /\ call[c] = "blocked" /\ Known(c)
  /\ MayArrive("answer")
  /\ call' = [call EXCEPT ![c] = "answered"]
  /\ ReportRest(c)
  /\ LET rest == Remaining(c)
         pcs  == PcsAfterReport(c)
     IN
     \/ /\ pendingPrompt = NoOne
        /\ pc' = [pcs EXCEPT ![c] = "done"]
        /\ UNCHANGED <<sm, pendingPrompt, told, act>>
     \/ /\ pendingPrompt # NoOne /\ rest # {}
        /\ sm' = RequiresAction(sm, rest)
        /\ Readvertise(rest)
        /\ act' = [act EXCEPT ![c].write = RowOf(sm')]
        /\ pc' = [pcs EXCEPT ![c] = "savingAdvert"]
        /\ UNCHANGED pendingPrompt
     \/ /\ pendingPrompt # NoOne /\ rest = {}
        /\ TakePrompt
        /\ UNCHANGED told
        /\ IF sm.status = "terminated"
           THEN pc' = [pcs EXCEPT ![c] = "failed"] /\ UNCHANGED <<sm, act>>
           ELSE /\ sm' = Start(sm)
                /\ act' = [act EXCEPT ![c].write = RowOf(sm'),
                                      ![c].driven = pendingPrompt]
                /\ pc' = [pcs EXCEPT ![c] = "savingResume"]
  /\ UNCHANGED <<row, turnFlags, prompt, callOf, sandbox, meter>>

\* The parked prompt is driven again, under fresh flags; it may have settled.
ResumeTurn(c) ==
  /\ At(c, "savingResume")
  /\ SaveStatus(c)
  /\ flags' = [flags EXCEPT ![c] = NoFlags]
  /\ TakeSlot(c)
  /\ waiter' = c
  /\ pc' = [pc EXCEPT ![c] = IF prompt[act[c].driven] = "inflight" THEN "driving"
                             ELSE prompt[act[c].driven]]
  /\ UNCHANGED <<sm, pendingPrompt, agent, sandbox, meter, act>>

-----------------------------------------------------------------------------
(* user.interrupt.                                                          *)

\* session.abort() is awaited first.
Interrupt(i) ==
  /\ At(i, "new")
  /\ MayArrive("interrupt")
  /\ pc' = [pc EXCEPT ![i] = "aborting"]
  /\ UNCHANGED <<machine, turn, agent, sandbox, meter, act>>

\* Then the two coordinators deny what they hold; self-hosted calls stay pending.
Aborted(i) ==
  /\ At(i, "aborting")
  /\ call' = [c \in Calls |-> IF call[c] = "blocked" /\ CallKind[c] # "tool"
                              THEN "answered" ELSE call[c]]
  /\ pendingPrompt' = NoOne
  /\ sm' = Stop(sm, "user_interrupt")
  /\ Settle(i, "user_interrupt")
  /\ UNCHANGED <<row, turnFlags, flags, waiter, prompt, callOf, told, sandbox, usage>>

-----------------------------------------------------------------------------
(* IdlePolicy.  A checkpoint is assumed to end before the next timer fires. *)

TimerFires ==
  /\ Microtasks = {} /\ idle.timer /\ ~idle.stopping
  /\ idle' = [timer |-> FALSE, stopping |-> TRUE]
  /\ UNCHANGED <<machine, turn, agent, vm, meter, pc, act>>

\* provider.stop succeeds, or fails until its retries are used up.
CheckpointEnds ==
  /\ Microtasks = {} /\ idle.stopping
  /\ idle' = [idle EXCEPT !.stopping = FALSE]
  /\ vm' \in {"stopped", vm}
  /\ UNCHANGED <<machine, turn, agent, meter, pc, act>>

-----------------------------------------------------------------------------
Microtask == \E d \in Drivers : DrivePaused(d) \/ DriveResolved(d) \/ DriveRejected(d)

MessageStep(m) ==
  \/ SettleStop(m) \/ SandboxIsUp(m) \/ SandboxIsStopped(m) \/ SandboxStarted(m)
  \/ SandboxStartFails(m) \/ StartTurn(m) \/ DecideReason(m)
  \/ BackOff(m) \/ RetryDue(m) \/ RetryPrompt(m)

SettleStep(a) ==
  \/ SettleIdle(a) \/ SettleTerminated(a) \/ FinalSaved(a) \/ AnnounceIdle(a)
  \/ Stored(a) \/ StoreFails(a)

UsageStep(u) == RecordUsage(u) \/ EnforceBudget(u)

\* What the runtime does by itself, once its awaits return.
HandlerStep ==
  \/ \E m \in Messages : MessageStep(m)
  \/ \E d \in Drivers : EndSaved(d)
  \/ \E c \in Calls : ResumeTurn(c)
  \/ \E i \in Interrupts : Aborted(i)
  \/ \E a \in Activations : SettleStep(a)
  \/ \E u \in Usage : UsageStep(u)

AgentStep ==
  \/ \E m \in Messages : PromptSettles(m)
  \/ \E m \in Messages, c \in Calls : CoordinatorBlocks(m, c) \/ QueueToolCall(m, c)
  \/ \E c \in Calls : AwaitToolResult(c)
  \/ \E u \in Usage : ReportUsage(u)

ClientStep ==
  \/ \E m \in Messages : PostMessage(m)
  \/ \E c \in Calls : BufferResult(c) \/ AnswerCall(c)
  \/ \E i \in Interrupts : Interrupt(i)

\* Every action but the microtasks waits until no microtask is due.
Next == Microtask \/ HandlerStep \/ AgentStep \/ ClientStep \/ TimerFires \/ CheckpointEnds

Spec == Init /\ [][Next]_vars

(* Fairness: every await of a handler returns, the agent loop ends its      *)
(* prompts and awaits the calls it queued, a provider call returns, and     *)
(* whoever knows of a call answers it.  Messages, interrupts, blocks and    *)
(* usage reports are not owed to anyone.                                    *)
Fairness ==
  /\ WF_vars(Microtask)
  /\ \A m \in Messages : WF_vars(MessageStep(m))
                         /\ WF_vars(PromptSettles(m))
  /\ \A d \in Drivers : WF_vars(EndSaved(d))
  /\ \A c \in Calls : /\ WF_vars(ResumeTurn(c))
                      /\ WF_vars(AwaitToolResult(c))
                      /\ WF_vars(AnswerCall(c))
  /\ \A i \in Interrupts : WF_vars(Aborted(i))
  /\ \A a \in Activations : WF_vars(SettleStep(a))
  /\ \A u \in Usage : WF_vars(UsageStep(u))
  /\ WF_vars(CheckpointEnds)

LiveSpec == Spec /\ Fairness

-----------------------------------------------------------------------------
(* Properties                                                               *)

\* Every variable has its type.
Statuses == {"idle", "running", "rescheduling", "terminated"}
Reasons  == {"completed", "user_interrupt", "budget_exhausted", "requires_action",
             "error", NoOne}
RowType  == [status : Statuses, stopReason : Reasons]
Machine  == [status : Statuses, stopReason : Reasons, retries : 0..MaxRetries,
             blocking : SUBSET Calls]
TurnFlags == [budget : BOOLEAN, requires : BOOLEAN, blocking : SUBSET Calls]
Locals   == [driven : Messages \cup {NoOne}, reason : Reasons,
             write : RowType, waits : SUBSET Usage]
PromptStates == {"none", "inflight", "resolved", "transient", "fatal"}
Pcs == Ended \cup {"accepted", "vmStatus", "vmStart", "savingRun", "driving", "paused",
                   "resolved", "transient", "fatal", "draining", "savingRetry",
                   "backoff", "savingRerun", "savingEnd", "settling", "savingIdle",
                   "storing", "savingFinal", "savingAdvert", "savingResume", "aborting"}
TypeOK ==
  /\ sm \in Machine
  /\ row \in RowType
  /\ turnFlags \in Drivers \cup {NoOne}
  /\ flags \in [Drivers -> TurnFlags]
  /\ pendingPrompt \in Messages \cup {NoOne} /\ waiter \in Drivers \cup {NoOne}
  /\ prompt \in [Messages -> PromptStates]
  /\ call \in [Calls -> {"none", "queued", "buffered", "blocked", "answered"}]
  /\ callOf \in [Calls -> Messages \cup {NoOne}]
  /\ told \subseteq Calls
  /\ idle \in [timer : BOOLEAN, stopping : BOOLEAN] /\ vm \in {"running", "stopped"}
  /\ usage \in [Usage -> {"none", "recording", "checking", "done"}]
  /\ usageTasks \subseteq Usage
  /\ pc \in [Activations -> Pcs]
  /\ act \in [Activations -> Locals]

\* A session that reads running or rescheduling has a handler that will settle it:
\* however the activations interleave, no turn ends leaving the machine running.
WillSettle == {"savingRun", "driving", "paused", "resolved", "transient", "fatal",
               "draining", "savingRetry", "backoff", "savingRerun", "savingEnd",
               "settling", "savingResume"}
NoOrphanRun ==
  sm.status \in {"running", "rescheduling"} => \E d \in Drivers : pc[d] \in WillSettle

\* A prompt has one driver: two activations never drive the same prompt, and a parked
\* prompt is driven by nobody (resumeIfUnblocked takes it before its first await).
Driving(d) == pc[d] \in {"driving", "savingResume"}
OneDriverPerPrompt ==
  /\ \A d, e \in Drivers : d # e /\ Driving(d) /\ Driving(e) =>
       act[d].driven # act[e].driven
  /\ \A d \in Drivers : Driving(d) => act[d].driven # pendingPrompt

\* The sandbox of a turn begun by user.message is up while the prompt runs: no
\* checkpoint is in flight and no idle timer is set (ROB-18, settleStop and cancel).
\* FALSE with the overlap "settling": the tail of a settlement sets the timer again.
SandboxReadyForTurn ==
  \A m \in Messages : pc[m] = "driving" =>
    vm = "running" /\ ~idle.stopping /\ ~idle.timer

\* A driving activation owns the slot that blocks and budget verdicts are written to.
\* FALSE with the overlap "settling": the tail of a settlement clears the next turn's slot.
DriverOwnsFlags == \A d \in Drivers : pc[d] = "driving" => turnFlags = d

\* A turn waiting on calls has told someone a call to answer, and reads requires_action.
SomeoneCanAnswer ==
  Quiet /\ Blocked # {} =>
    (\E c \in Blocked : Known(c)) /\ sm.stopReason = "requires_action"

\* The stop reason of a user.message turn is decided after every reported usage was
\* judged against the budget (ROB-14).
MessageReasonAfterVerdict ==
  [][\A m \in Messages :
       act'[m].reason \in {"completed", "budget_exhausted"} /\ act[m].reason # act'[m].reason
         => \A u \in Usage : usage[u] \notin {"recording", "checking"}]_vars

\* A parked prompt still has a call whose answer will resume it.
NoStrandedPrompt ==
  Quiet /\ pendingPrompt # NoOne /\ sm.status # "terminated" =>
    \E c \in Calls : callOf[c] = pendingPrompt /\ call[c] # "answered"

\* A turn that waits can be resumed: someone was told a call to answer, and a parked prompt
\* has a call left whose answer takes it up again, however the answers were spread.
TurnCanResume == SomeoneCanAnswer /\ NoStrandedPrompt

\* A call that waits is answered in the end: nobody waits for a client that was not told.
CallsAnswered == \A c \in Calls : call[c] \in {"queued", "blocked"} ~> call[c] = "answered"

=============================================================================
