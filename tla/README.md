# TLA+ verification of the Pi Managed Agents backend

Formal models of the backend in `packages/backend/src` and of the two programs that talk to
it, `packages/worker` (the poller of a self-hosted environment) and
`packages/billing-adapter` (payments and auto-charge). Every definition is translated from
the source; `PROJECT.json` names the lines of each one (`map`). Paths below are relative to
`packages/backend/src` unless they start with `packages/`.

1. Inventory: the parts of the system
2. The models, and how they correspond to the code
3. The runs: bounds, and what each one shows
4. Fairness
5. What is proved
6. What is only model-checked
7. Where the code and its documentation disagree
8. What is not modelled
9. Plan

## 1. Inventory

One Node process (Fastify routes and background loops) works on Postgres, an object store
and sandbox virtual machines; several such processes may share one database. A session is
a conversation with an agent: a row in Postgres, a transcript (JSONL, on local disk and in
the object store), a sandbox, and, while it is awake, a runtime object in memory that runs
the agent loop of the Pi library.

| component | state it keeps | operations | what is hard | what makes it correct |
|---|---|---|---|---|
| **Session runtime** `domain/session-manager/{runtime,state-machine,idle-policy,runtime-usage}.ts`, `pi-extensions/{permission-gate,custom-tools}`, `api/events.ts` | state machine, status row, turn flags, parked prompt, waiter, blocked calls, usage tasks, idle timer | one handler per inbound event, drive, settle, retry, resume, checkpoint | handlers interleave at every `await` over shared fields; answers, interrupts and timers race a settlement | one driver per prompt, every run settled, every blocked call advertised, sandbox up during a turn |
| **Event projection and SSE** `session-manager/{outbound-stream,session-events-store}.ts`, `domain/event-stream` | `session_events` rows, append chain, subscriber buffers, cursor of each connection | emit, append with retries, fan out, replay, tail, retention | lost answers, overflow, restarts, replay racing the live tail | in order, once, no silent gap |
| **Self-hosted work queue** `domain/self-hosted`, `packages/worker` | a row per session, pending results in memory, what a worker holds | enqueue, claim, re-queue, post a result, stop, wake | leases, dead workers, eviction, calls arriving during a claim, force stop racing a result | a waiting call is visible to its claimer and is answered |
| **Billing** `domain/billing`, `packages/billing-adapter` | ledger entries, balance, lifecycle, accumulators per process and bucket, charges | append, flush, verify a trial, webhook, auto-charge | retries under a key, overlapping flushes, death between two steps, a webhook racing an answer | every move counted once, never an over-charge, no crossing lost, cap kept |
| **Cron scheduler** `domain/scheduler` | job row, `job_runs` rows with claim and trigger times | tick, recovery scan, fire, record, release, pause, archive | several nodes, dead nodes, half-failed runs | one executor, no double fire, no forgotten miss |
| **Session registry** `app.ts`, `domain/session`, `session-manager/crash-recovery.ts` | one runtime per session and process, eviction timers, session row (status, handle, owner), VMs | wake, evict, archive, boot recovery, reaper, crash poll | wakes racing evictions and archives; deaths of an instance between any two writes; a peer's boot sweep during a turn | a turn keeps its row and its machine, no work lost, ended sessions reaped, no row runs for ever |
| Transcript durability `session-manager/jsonl-sync.ts`, `infra/objectstore` | local file, object, etag | sync, conditional put, restore | two writers, transient store errors | the durable transcript never goes back |
| **Session worker processes** `domain/session-worker` | child processes, proxies, requests in flight, messages in the pipe | spawn, forward, evict, exit, respawn | reports that lag, a child that dies with messages unread | parent and child agree when quiet, each request ends |
| **Webhooks** `domain/webhook` | delivery rows, claims, streaks | fan out, claim, deliver, retry, reap, auto-disable | a slow node reaped by another, failing statements, crashes | an acknowledged delivery stays so, nothing is given up on an active webhook, every row ends |
| **Creation of a session: idempotency and quota** `api/middleware/idempotency.ts`, `domain/quota/enforce.ts`, `domain/session/{create,fork}.ts` | a row per key, a counter per tenant | claim, take over, store, release, reap; reserve, insert, compensate, archive, reconcile | no two of these writes share a transaction | a key runs once, an answer goes to its own request, counter = sessions and slots in flight |
| Rate limit, auth, scopes `api/middleware` | token buckets, key cache | check | - | - |
| Vault `domain/vault` | encrypted credentials | refresh under an advisory lock, revalidate | death between the rotation and the commit | the stored token is usable |
| Outcomes `domain/outcome` | outcome row, iteration | produce, grade, revise | a timed-out producer that goes on | one active outcome |
| **Multi-agent threads** `domain/multiagent` | threads, sandboxes, shared budget, blocking requests | delegate, follow up, block, answer, dispose | spawns of several awaits racing each other and a disposal, each step may fail | counters match, a thread keeps its machine, a disposed session leaves nothing |
| Memory `domain/memory` | memories, versions | write, delete | check-then-act writes | no lost update |
| Sandbox providers, host pool `infra/sandbox*` | placements, host liveness | provision, place, destroy | a crash before the placement is recorded | no leaked machine |
| Resources, contracts, clients, console, telemetry | rows, types, pages | create, read, update | - | - |

How they interact: a route calls the registry, which wakes a runtime; the runtime drives the
agent, whose tool calls go to the sandbox, to the client (through the event stream and back
through `POST /events`) or to the work queue; every event goes through the projection; every
model request is reported to usage recording, hence to metering, hence to the ledger, whose
crossings leave as webhooks that the billing adapter answers with charges. The scheduler
creates sessions through the same service as the API.

`PROJECT.json` lists each of these as a component, and under `hazards` the places where the
code is exposed to what a test would hardly reach.

## 2. The models

### SessionRuntime
One `ManagedSessionRuntime`. JavaScript runs a handler without interruption from one `await`
to the next, so an inbound event is an *activation*, `pc[a]` names the await it is suspended
at, and **an action is the code between two awaits**. Continuations of promises that have
already settled (`Microtask`) run before anything else may happen: every other action is
disabled while one is due, as in the event loop.

| model | code |
|---|---|
| `sm`, `Transition`, `Start`, `Stop`, ... | `SessionStateMachine` |
| `row` | status and stop reason persisted by `persistStatus` |
| `turnFlags`, `flags` | the single slot `this.turnFlags` and the objects it refers to |
| `pendingPrompt`, `waiter` | `this.pendingPrompt`, `requiresActionWaiter` |
| `prompt`, `call`, `callOf`, `told` | the Pi prompt, its tool calls, which ids the client was given |
| `idle`, `vm` | `IdlePolicy`, the sandbox as the runtime sees it |
| `usage`, `usageTasks` | the fire-and-forget record-and-enforce tasks |
| `PostMessage` .. `DecideReason`, `BackOff`, `RetryPrompt` | `onUserMessage`, `driveTurn`, retry loop |
| `CoordinatorBlocks`, `AnswerCall`, `ResumeTurn` | confirmation gate and tool relay, `resumeIfUnblocked` |
| `SettleIdle` .. `Stored` | `onTurnSettled` |

`Overlap` switches on, one by one, the overlaps an environment may cause (a message during
the tail of a settlement, an answer while a handler is active, ...).

### EventStream
The `OutboundEventStream` (serialised append chain with retries, fan-out into bounded
buffers), the `session_events` table (positions, idempotent append, retention) and the SSE
connection (subscribe, paged replay, live tail de-duplicated by position). `Faults` names
three faults of the environment: `lostCommit`, `headRace`, `pruneAll`.

### WorkQueue
The row a session has in `self_hosted_work_queue`, the runtimes that append calls to it and
hold `pendingToolResults`, and workers that claim, run and post. The age of a claim is one
bit (`leaseLapsed`). `Echoing` is the set of workers whose results carry `toolUseId`: a
client of the API may be one, the shipped poller is none (section 7).

### Account, Ledger, Billing
`Account` is the abstract specification: a balance moved only by keyed moves, a key counting
once. `Ledger` is `appendEntry`: one atomic step, because it holds the tenant's row `FOR
UPDATE`. `Billing` composes it with what surrounds it: metering in several processes
(`used`, `held`, `flush`), the trial (`armed`, `verified`, `verify`), payments and
auto-charge (`captured`, `recorded`, `charge`), and implements `Account` under the mapping
`counted <- the entries by key`, `balance <- balance`.

### Scheduler
The tick of several nodes over one job: the recovery scan and its guarded claim, the cursor,
due and missed occurrences, the run of an occurrence (create a session, record it,
auto-pause, archive a one-shot), the release of a failed recovery, leases and heartbeat.
`pc[n]` names the query node `n` issues next; a schedule is the set of its times, the ones
`CronSchedule` enumerates.

### CronSchedule, CronTicks
`cron.ts` as operators: the parsing of a field, the match of a wall clock, the carries of
`addMinute`, the instants a wall clock maps to in a zone, `NextOccurrence` and
`EnumerateOccurrences`. The calendar and the zone are parameters (a zone is its offset before
and after one transition). `MCCronSchedule` holds a small calendar and compares the operators
with a reference as assumptions TLC evaluates: `addMinute` follows `Date.UTC`; only instants
that match fire, and the ones that match and do not fire have a wall time that repeats.
`CronTicks` is the cursor of one job over ticks at arbitrary times.

### WebhookDelivery
Events fan out into one row per webhook (the insert may fail); each node ticks: it reaps rows
whose claim is older than the limit, claims a batch, and calls. `step[n][d]` is the statement
node `n` issues next for delivery `d`, and `copy` the attempt count it read when it claimed:
the late updates of a slow node use that copy and are not guarded by the claim. Disabling a
webhook (a streak, or at once) and marking the delivery are two statements. A statement may
fail without effect (`StatementFails`), or take effect and report an error
(`DisableMistold`, `UpdateMistold`): the retry that follows an error runs on what it left.
`adrift` is a history variable, the deliveries whose claimer lost its claim in one of these
ways.

### SessionRegistry
The runtimes of every process (`rt`, `lru`, `inflight`, and `mail` on its way to them), the
session row (status, handle, owner), the VMs, and what happens to them: a wake (read, probe, start or
provision, save the handle), messages, the idle checkpoint, eviction by the timer or by
capacity, archive, the crash poll, the death of an instance, its boot (reattach, claim
abandoned rows, reset them), and the reaper (list, then destroy and clear one by one).
A turn is its begin, work, settlement and end. `Races` names what the run leaves out:
`busyEvict`, `quickWake`, `endBusy`, `lostSave`, `reapCut`, `revive`, each shown in section 7.

### SessionWorkers
One shard of the worker pool: the parent's map of proxies and pending requests, the pipe in
both directions, and the child's runtimes. Messages are handled in order; a child may die
with messages unread, the parent sees the exit after what was sent before it, rejects what
is pending, forgets the proxies and respawns; a boot may fail and set a timer. `proxy[s]` is
the status the parent has cached, `child[s]` the truth. A status goes up with its event
(`ForwardEvent`), or never, when the event's append failed three times (`DropEvent`; the
history field `missed`). The registry evicts whatever the cached status calls idle, a session
with a message on its way included. `Calling` bounds which sessions get calls other than
messages.

### CreateRequests
`POST /v1/sessions` and its fork under an `Idempotency-Key`: the claim of a row before the
handler, the takeover after the lease, the stored answer, the release after an error, the
hourly reaper; inside, the reservation of a quota slot, the insert of the session, its
compensation; around it the end and the archive of a session, the reconciliation of the
counter, which counts the sessions that have not terminated, deaths of a node, writes whose
failure the code swallows and statements that take effect and report an error (`..Mistold`).
`leaked`, `short`, `skewed`, `made` and `lost` are history variables. `Outlive` says whether
a handler may be slower than the lease of its claim.

### Subagents
The coordinators of several sessions on a node, in shared or isolated mode, over one
`ThreadBudget`. A spawn is suspended in the creation of its session and in the provision of
its machine, so first threads of a shared session may provision at once; a turn runs until
its prompt returns or throws, and may raise a blocking request that is posted across to the
primary thread. `dispose` is a loop with an await per thread, then the shared machine; any
release may reject, which ends it there. `Races` names two interleavings the run leaves out
(section 7).

How the models meet: the runtimes of SessionRegistry and of SessionWorkers are
SessionRuntime reduced to status and turn; the registry calls SessionWorkers where a pool is
configured; CreateRequests makes the row SessionRegistry starts from and archives it.

### MC modules and proof modules
`MC*` modules hold the constant values and symmetry sets of the runs, and `MCCronSchedule` and
`MCScheduler` the assumptions about `cron.ts`.
`SessionRuntimeProofs`, `EventStreamProofs`, `BillingProofs`, `CreateProofs`,
`SubagentsProofs` and `RegistryProofs` hold the theorems of one model each, `QueueProofs`
those of `WorkQueue` and `WebhookDelivery`, `ExecutorProofs` those of `Scheduler` and
`SessionWorkers`. Two models that share a proof module share no state; `WorkQueue` and
`Scheduler` name their parts `QueueInit`, `QueueNext`, `CronInit`, `CronNext` and so on, so
that both can be extended.

Definitions named like `ReplayAny` or `CreditChargeCounting` are plausible bugs of
the definition they precede: the model never uses them. With the definition replaced by the
bug, the property listed beside it in `PROJECT.json` (`mutants`) fails.

## 3. The runs

| run | instance | distinct states | shows |
|---|---|---|---|
| `turn_serial` | 2 messages, 2 confirmations, 1 usage report, 1 retry, budget 1, no overlap | 105,115 | an input that waits for the handlers to be quiet: sandbox up during a turn, the slot owned by its driver, a turn that waits can be resumed, budget verdict before the stop reason, every waiting call answered |
| `turn_overlap` | 2 messages, 1 worker call, 1 interrupt, every overlap | 2.7 million | no prompt has two drivers and no run is left without an activation that settles it |
| `event_stream` | 4 events, 1 client, pages of 2, buffer of 1, 2 attempts, 2 outages | 142,781 | log in emit order, numbering kept, no silent gap, clients catch up |
| `work_queue` | 1 session, 2 calls, 2 workers of which 1 echoes ids, 2 faults | 23,995 | no call is hidden from its claimer or on a row nobody claims, every waiting call is handed out |
| `billing` | 1 process with restarts, 2 buckets of 2 and 1 units, 2 verifications, cap 2, charge 1 | 2.4 million | ledger and trial sound, an abstract account, no over-charge, no lost crossing, real charges counted |
| `scheduler` | 2 nodes, occurrences at 1 and 2, window 1, clock to 3, 2 faults | 1.2 million | one executor, no double fire, no forgotten miss, interrupted runs run again |
| `webhooks` | 2 nodes, 2 events, 1 webhook, 3 attempts, 2 faults | 502,372 | nothing given up while the webhook is active, streaks count real tries, an acknowledged row stays so while its claim holds, every row ends |
| `registry` | 1 instance, room for 1 runtime, 2 sessions of which 1 talks, a random id per boot, 2 deaths, 1 crash of a VM | 228,678 | a turn keeps its row and machine, work is kept, ended sessions are reaped |
| `workers` | 1 shard with room for 1 of 2 sessions, 3 requests, calls to 1 session, 2 deaths or failed boots | 382,300 | parent and child agree when the pipe is quiet, every request ends |
| `create` | 3 requests, 1 key, 2 bodies, limit 2, 1 fault | 3.6 million | a key runs once, an answer is its own request's, every quota slot is accounted for |
| `subagents` | 1 shared and 1 isolated session, 3 turns of which 1 may block, cap 2, budget 2 | 548,272 | counters match, a thread keeps its machine, a blocked turn says so, a disposal ends with what it could free freed |
| `cron_fold` | two expressions, a zone whose clock goes back, forward or stays; a day of 6 hours of 4 minutes | violation | of two wall times named in the repeated hour, the first pass of the later one never fires, section 7 |

Why the bounds are enough. Runtime: two drivers are what it takes to share a slot or a
prompt; the second call makes a partial answer possible; one retry makes both the retry and
its exhaustion happen. Events: four events and pages of two give an empty, a partial and a
full page, and a buffer of one overflows. Queue: the second worker takes over a lapsed
claim; the second call arrives during a claim. Billing: the second bucket lets both lines
be crossed, two units split a bucket over two flushes, two verifications race, cap 2 allows one charge
more than one. Payments by hand take the same step as the webhook of an automatic charge
(`HandleWebhook`) and are left to the proofs (`Checkouts`): the same
instance with one verification and one checkout (3.7 million states) passes as well, but takes
three minutes. Scheduler: window 1 with occurrences at 1 and 2 gives recovery, due and missed
occurrences at one tick, and two faults let a recovery fail too. `CHECK_DEADLOCK FALSE` is
set where the system may stop (all inputs consumed); billing and the scheduler never stop.

Webhooks: two nodes are what it takes to overtake a claim, two events make one disable the
webhook under the other, three attempts give a retry before the last. Registry: one place
for two sessions makes every wake an eviction, two deaths put a boot after a boot, and two
runtimes are reused once they are collected. Workers: as the registry, with a request of each
session and one more in flight when the child dies; calls take the same path for every
session and end at once, so one session has them. Creation: three requests are a claim, a
retry that takes it over and a third that finds what they left; one fault suffices for each
kind of it, and what several add up to is proved; a second body tests the comparison. Subagents: three turns pass
a cap of two and a budget of two, and one of them may be a follow-up on another's thread.
Cron: a transition of one hour, offsets of three and four hours (beyond the window of two the
code scans around its probe), and a day of six hours, so that the repeated or skipped hour,
the hours beside it and the days before and after are all walked; two years of two months,
one month longer in the second, make every carry of `addMinute` happen.

In `turn_serial` the workers' calls are left out (confirmations only), in `turn_overlap`
usage is; the proofs have no such restriction. `work_queue` has one session because sessions
share only the order of the line, in which a re-queued older row may starve a younger
session. Symmetry is used in `turn_overlap` (over messages) and in `create` (over requests
and bodies), neither with a liveness property.

Where a run cannot have everything: `Races = {}` (`registry`, `subagents`), `Outlive = FALSE`
(`create`), `Overlap = {}` (`turn_serial`) and `Faults = {}` (`event_stream`) check what the
code does when the listed windows are not hit. Section 7 lists each window with the constant
that opens it and the property that then fails, so that a reader can repeat it by changing
one line of a configuration. For eleven of them the configuration is there, ready to run
(`tlc -config lost_slot.cfg MCSessionRuntime` and so on): TLC stops at the violation.

## 4. Fairness

Weak fairness of every continuation of an await (database, provider and agent calls return
or fail), of timers that are armed, and of loops that re-arm themselves (the scheduler's
tick, a worker's poll, the lapse of a lease). A client that was told of a call answers it
(`AnswerCall`), because `CallsAnswered` asks whether the *server* leaves it waiting.
`WorkQueue` takes strong fairness of `Claim`: workers poll for ever and a claim takes the
oldest claimable row, but other workers may take it first. Nobody owes the system a message,
an interrupt, a connection, an emitted event, a usage report, a crash or a restart. In the
scheduler the clock stops at `MaxTime` while the ticks go on, and a node that died ticks
again, as its supervisor restarts it.

The later modules follow the same rule. `WebhookDelivery`: the nodes go on ticking and a
claim ages. `SessionRegistry`: what a wake, a turn, a checkpoint, a boot or a pass of the
reaper has begun goes on, and a dead instance boots again; nobody owes a message, an archive,
a crash or an eviction. `SessionWorkers`: the pipe is read, the child answers or dies, an
event is forwarded or dropped, the respawn timer fires. `Subagents`: a call on the factory, the allocator or the session is
answered with a result or an error, and a disposal that has begun goes on. `CreateRequests`
states no liveness: a request whose node died is answered by nobody.

## 5. What is proved

TLAPS checks these for every value of the constants that satisfies the named assumptions
(`RuntimeAssumption`, `StreamAssumption`, `QueueAssumption`, `BillingAssumption`,
`BucketsAssumption`, `SchedulerAssumption`, `WebhookAssumption`, `CreateAssumption`,
`RegistryAssumption`, `WorkersAssumption`, and the three of `Subagents`). Where a theorem has a hypothesis more, it is on the constant that
names the overlaps, faults or races of the environment (or, for the registry, on the number
of instances), it holds of the run of that property, and section 7 or the comment beside the constant shows the behaviour it leaves
out.

**SessionRuntimeProofs** - `TypeCorrect`, `SingleDriver`, `RunsAreSettled`: any number of
messages, calls, interrupts and usage reports, and every overlap. `OneDriverPerPrompt` is
not inductive: it needs to know who may still take a prompt. `Custody` says that an
activation between its first drive and its park or end holds a prompt that nobody else holds
and that is not parked, that messages which have not driven yet created no prompt, and that
the waiter belongs to an activation that is driving; `Settlement` adds to `NoOrphanRun` that only an
interrupt settles as one, and that a failed turn has terminated the machine before it saves
its end. The invariant is `TypeOK /\ Custody /\ Settlement`.

Three theorems are about inputs that wait for the handlers (`Overlap \subseteq {"fastBlock"}`:
the run's own instance, and a call that blocks between the take of a parked prompt and the
drive of its resume), for any number of them. With `"fastBlock"` a resumed turn may wait for
ever (section 7), which is a matter of liveness: it still drives and strands
no prompt. `SerialInv` is their invariant. `Serial` says that one activation is at work; then
`SandboxKept` (once `settleStop` has returned no checkpoint is due)
gives `TurnsRunInALiveSandbox`, and `SlotOwned` (a turn owns `turnFlags` from its first drive
to the end of its settlement) is what the other two build on. `ReasonsFollowVerdicts` needs `UsageKept`: an unfinished usage
task is in `usageTasks` or among those the drain at work waits for, which is true because no
prompt is in flight between a turn's prompts (`OneInFlight`), so nothing reports usage behind
the drain's back. `WaitingTurnsCanResume` assumes `Interrupts = {}` as well, because an
interrupt leaves a self-hosted call waiting on purpose. Its second invariant `AskInv` follows
a prompt from the block to the announcement: in flight it is at hand or parked (`InCustody`),
a call that waits belongs to it (`WaitingCalls`), a parked one has such a call
(`ParkedWaits`), the flags of a turn that stopped for calls name one of them
(`TellsBlocked`), and from the parking on either a settlement will announce it or the session
reads `requires_action` with a call somebody knows (`ParkedSays`).

**EventStreamProofs** - `TypeCorrect`, `LogOrdered`, `NumbersKept`: any number of events,
clients and outages, any page size, buffer and attempts, every fault. The chain of appends
holds the newest events in order and only its head can have a row (`ChainOrdered`); what a
connection still has to write lies above the client's last id (`Ahead`). `GapsAreTold`
(`Faults = {}`): `NoGap` says, of every row below the point a connection has reached, that
the client has it, was told where a gap that holds it starts, or will get it from the page or
the buffered tail, whose lag marks are kept in order (`Entries`, `TailOrdered`, `PageFirst`,
`Covers`). Each step of the replay, the tail, the writer and retention preserves it.

**QueueProofs**, self-hosted work - `QueueTypeCorrect`, `NothingHidden`: any number of sessions, calls, workers,
crashes and evictions. A call in hand is tied to its row by `ClaimCoversCalls`, and a
completed row has nobody waiting (`DoneIsUnawaited`), because a runtime that comes back asks
under fresh ids; the line holds each session once (`LineOfRows`).

**BillingProofs** - `LedgerIsSound` (each entry's running balance, unique keys, lifecycle),
`BillingIsAccount` (every step is a move of `Account` or a stutter), `UsageIsNeverOvercharged`,
`VerifiedTenantsHaveTheirGrant`, both together as `MoneyIsSound`, `BillingTypeCorrect`: any number of processes, buckets,
verifications and checkouts. Never over-charging needs three facts more: an accumulator
holds at most the recorded usage, the amount a flush carries was read from an accumulator
(`FlushesInHand`), and a debit's key is that of its bucket. The grant needs
`MarkAfterGrant`: a verification about to mark has appended the grant. `AppendSound` and
`AppendGrows` isolate what one append does; every other step leaves the ledger alone.
`CrossingsAreKept` adds `FlushesHonest`: a flush forgets only a bucket whose crossings were
announced or that it gave up, and works only on buckets that are held still or settled so.
`CapCountsRealCharges` adds `CapInv`: the amount recorded, with what a run is about to
record, is at most the charge amount times the charges credited in the ledger, and only a
captured charge is credited.

**ExecutorProofs**, cron - `OccurrenceHasOneExecutor`, `OccurrenceFiresOnce`,
`CronTypeCorrect`, `MissesAreKept`: any number of nodes, any schedule and window, any number of faults.
`Claims` ties the row of an occurrence to what its executor is doing (claimed until the
outcome is written, triggered after it); `LastSession` says that a session beyond those of
the cut runs is either recorded or about to be. `OneExecutor` rests on the guarded UPDATE of
the claim and on the heartbeat. `MissesAreKept` is not inductive alone: recording one occurrence
moves the cursor past earlier ones, so `BelowCovered` says that an earlier occurrence without
a row is in some tick's hands too, and `ListedLate` that a tick lists only after its recovery
scan.

**QueueProofs**, webhooks - `TypeCorrect`, `GivenUpCorrect`, `StreakCorrect`, `AckCorrect`: any
number of nodes, webhooks, events, attempts and faults. A node that is about to mark a row
failed has disabled its webhook, or found it disabled, in an earlier statement (be it one
that reported an error), and nothing enables a webhook again; the attempt count a node
carries is at most the tries made; and a row outside `adrift` that is acknowledged has no
node left that works on it: `AckStopsRetries` excuses a claim that overran and a statement
about the row that took effect and reported an error, in which the code does send again
(section 7).

**ExecutorProofs**, session workers - `Invariant`, `QuietAgreement`: any sessions, request
ids, cap, deaths and failed boots, with events dropped at any moment and sessions evicted in
their turns. That parent and child agree once the pipe is quiet about a session is not
inductive: it needs to know what leads them to agree, for every content of the pipe. The
invariant has `Proxies` (the parent has a proxy for what the registry holds, none for what it
does not, and one pending request for a wake), `OneUse` (a request id stands for one thing at
a time: a request on its way down, the wake or the turn that serves it, or the answer on its
way up), `Gone` (a child that is not ready has no runtimes, and once the parent has seen it
exit the pipe is empty), and for each session `Agreed`: what is under way about it is
`Ordered` (requests while it was held, the disposal that let it go, the next wake), what the
child has follows from what it has not read yet (`Served`), and the last status on its way
up, or else the proxy's, is the runtime's unless a report is still to be sent or was dropped
(`Told`; the next report, or a new runtime, ends that).

**RegistryProofs** - `BackingCorrect` (`TurnIsBacked`), `WorkCorrect` (`WorkKept`),
`TerminatedCorrect` (`TerminatedIsFinal`), `TypeCorrect`: any sessions, runtimes, cap and batch,
any number of deaths of the instance and crashes of VMs, fixed or random instance ids. Two
hypotheses: `Alone`, there is one instance (with two the boot of one resets the rows of the
other, section 7), and `Calm`, `Races \subseteq {"endBusy", "reapCut"}`: a session may end
while its VM is being made, and the instance may die in the middle of a reaper pass. Both are
wider than what the run allows, and the other four races break the properties. The argument goes
from memory to the store. `Memory`: a session has one runtime, a disposed one whose
checkpoint runs included (`Single`); what it may be (`Shape`: a runtime being woken has no
turn, checkpoint or recovery, a turn past `settleStop` has no checkpoint due, a disposed
runtime is nothing but its checkpoint); and the registry knows it, from `inflight` while it is
woken and from the map while it is not disposed (`Known`, `Entries`). So a request never starts
a second runtime, and a boot finds none. `Mails`: a message that was admitted belongs to a
session that has not terminated and is in no turn. `Backing`: a turn that is marked has a VM,
a driven one a row that says running; past its wake a runtime has a row that knows of its
VM; and whoever is about to make a VM anew found one without work, or a crashed one (`Sound`);
a row that knows of no VM has a VM without work (`Recorded`). `Buried`: the reaper works on
sessions that have ended. The map of runtimes is a sequence, from which eviction and the
reaper keep some elements: `Ranks` and `Kept` prove, from the theorems on injections between
finite sets, that `Keep` returns the elements it is asked for and no others.

**CreateProofs** - `TypeCorrect`, `OwnCorrect`, `SlotsCorrect`, `ExecutedCorrect`: any number
of requests, keys, bodies and faults. `OwnCorrect` needs no further assumption: the answer of
a stored row is a request that gave the row its key and body. `SlotsCorrect` has no
hypothesis: terminated sessions and reconciliations at any moment included, it counts requests
in sets with the theorems on finite cardinalities; `SlotsInv` adds that a truth the
reconciliation read stays the truth until somebody writes the counter, sessions being at most
archived meanwhile, and that no more slots are given back too many than there were faults.
What `SlotsAccounted` itself leaves open is what follows a reconciliation that met a slot on
its way or a terminated session (`skewed`): there the code breaks the plan, section 7.
`ExecutedCorrect` assumes `Prompt` (`~Outlive`: no handler outlives the lease of its claim);
its invariant says that a key has at most one holder, that a holder that has not inserted yet
adds nothing, and that every session made under the key is stored, about to be stored or lost.

**SubagentsProofs** - `TypeCorrect` and `CountersAreExact` under every race: any number of
sessions and turns, any cap and budget, first threads that provision at once and releases
that reject. The budget is the cardinality of the set of live
threads and spawns, a session's count that of its turns in flight (`Counted`), and each step
moves one element or one fan-out in or out of those sets. `ThreadsKeepTheirVms` assumes that
no spawn outlives `dispose` (`lateSpawn`); its `VmOwners` says whose machine a thread uses.
`BlockedTurnsReport` assumes that no follow-up reaches a thread mid-turn (`sameThread`).

## 6. What is only model-checked

Liveness (`CallsAnswered`, `ClientsCatchUp`, `CallsHandedOut`, `InterruptedRunsAgain`,
`EveryDeliveryEnds`, `EndedReaped`, `RequestsSettle`, `DisposeFrees`) is
out of the prover's reach, and what the recursive search of `CronSchedule` computes is a
matter of induction over data: `MCCronSchedule` compares it with a reference. `DriverOwnsFlags`
is checked only: it holds because its run has one handler at work, and is false otherwise.
Every other property of a passing run is a theorem. The properties of `turn_serial` are
claimed for inputs that wait until the handlers are quiet: section 7 has three of them false
under overlap. `DisposeFrees` says of a coordinator that was told to dispose that it comes to
have no threads, turns, sessions and requests, and in isolated mode no machines but those of
threads disposed of before whose own release rejected, unless a release rejects in the disposal
itself and ends it (`failed`).

## 7. Where the code and its documentation disagree

Shown by a run:
- **cron_fold**: "times that occur twice on a fall-back day fire twice"
  (the repository's `docs/spec/spec.md:1183`, and the header of `cron.ts`). `nextOccurrence` starts at the wall
  minute of the cursor and returns the first later instant of it: when that minute repeats,
  an hour later, before it has looked at the wall minutes in between (`cron.ts:316`). With
  `*/30 1 * * *` it fires 01:00, 01:00 again and the second 01:30; with `* * * * *` it is
  silent for an hour. A job with one wall time a day fires twice as promised, and that is
  what the test has.

Shown by TLC with the configuration named. Each states a sentence of the repository as one
property of the model and stops at its violation:
- **lost_slot** (`DriverOwnsFlags`). Idle is announced (`runtime.ts:1020`) before the transcript
  is stored and the slot is cleared (`runtime.ts:1067`); the events route looks at the status
  alone (`events.ts:191`), so a message accepted in between loses its flags slot, and a call of
  its turn that blocks is recorded nowhere, though the handler is to "flip the in-flight turn to
  `requires_action` (record the full blocking set)" (`runtime.ts:877`).
- **late_checkpoint** (`SandboxReadyForTurn`). In the same window the tail of the settlement
  schedules the idle-stop timer (`runtime.ts:1049`) after the next turn has cancelled it, the
  case "the completing stop leaves this turn's execs hitting a stopped VM" (`runtime.ts:690`) is
  written against.
- **queue_calls** (`CallsReturn`, workers that post as `packages/worker` does). The poller sends
  no `toolUseId` (`poller.ts:174`), the route requires it (`routes.ts:87`), and no call returns,
  though "the worker runs each and POSTs the output back [..] as a `user.tool_result` carrying
  the same `toolUseId`" (`work-queue.ts:62-64`).
- **cap** (`CapRespected`). "The cap can never be exceeded"
  (`packages/billing-adapter/src/auto-charge.ts:12-13`): a webhook that credits a charge first
  makes the engine skip its record (`auto-charge.ts:246`), and the next charge exceeds the cap.
- **registry_ids** (`StaleRunningEnds`, the default: no `INSTANCE_ID`, a random id per boot).
  The reset runs at boot only. The first one stamps a row with the id of that boot; after a turn
  on the row, a second death within the lease leaves it to an id nobody has, and it says running
  until some boot comes after the lease, though "a restarted instance reclaims its own abandoned
  rows via the expired-lease path" (`app.ts:771`).
- **peer_boot** (`TurnIsBacked`, two `Nodes`). `owner_instance_id` is written by the boot reset
  alone, so it is NULL on a session a live instance drives, and the boot of a second instance
  resets it to idle (`app.ts:1205`), though "a second instance can never flip a live instance's
  sessions to idle" (`app.ts:1199`). The events route then accepts a second message for a session
  in a turn.
- **reconcile** (`WithinPlan`, no faults). The counter is overwritten with a count read before it
  (`enforce.ts:581`), without the slots reserved since; it also leaves out terminated sessions
  (`enforce.ts:117`), whose archive returns a slot all the same (`session-repo.ts:651`). Creates
  are to "admit **exactly `limit`**, never more" (`enforce.ts:345`) and the reconciliation is
  "Safe to run concurrently with live traffic" (`enforce.ts:570`). Nothing in production calls it
  yet.
- **shared_vm** (`OneSharedVm`). Two first children of a shared session provision two machines
  (`modes.ts:69`), one of which nobody releases, though the allocator "provisions exactly one
  sandbox on first use and returns it for every subsequent thread" (`modes.ts:52`).
- **late_spawn** (`DisposeReleasesAll`). A spawn under way when `dispose` runs registers its thread
  afterwards (`coordinator.ts:483`), with its slot and its machine, though `dispose` is to
  "release every sandbox handle allocated" (`coordinator.ts:377`).
- **stale_status** (`StatusIsFresh`). An event whose append failed three times is not fanned out
  (`outbound-stream.ts:71`), and the child reports its state with the events it is handed only: a
  lost idle pins the proxy as running, though "the child pushes its state on every transition and
  with every event" and "staleness is bounded by IPC latency" (the repository's
  `docs/session-worker-pool.md:82-85`).
- **busy_evict** (`NoTurnDisposed`). Eviction looks at the cached status alone (`app.ts:409`): a
  message that is in the pipe, or whose running report was dropped, does not keep its runtime,
  though "a running runtime is NEVER evicted" (`app.ts:400`).

Shown by TLC with one constant changed, as named:
- *Runtime*, `Overlap`. `resumeIfUnblocked` clears the parked prompt and awaits the status
  write before it installs flags and waiter (`runtime.ts:956`): with `{"fastBlock"}` a call
  that blocks in between is recorded nowhere and `CallsAnswered` fails.
- *Events*, `Faults`. With `{"headRace"}` the head is read after an empty first page
  (`replay.ts:126`), so an event appended in between is neither replayed nor tailed. With
  `{"lostCommit"}` an event is in history and never on the live tail, though
  `outbound-stream.ts:139` says both drop it. With `{"pruneAll"}` the numbering restarts and
  a client with a larger `Last-Event-ID` sees nothing (`NoSilentGap` in all three).
- *Registry*, `Races`. `busyEvict`: the registry evicts a runtime by a status that is still
  idle though a handler has been accepted (`app.ts:409`; `TurnIsBacked`). `quickWake`: a
  checkpoint fired by an eviction meets the next runtime of the session (`idle-policy.ts:124`;
  `TurnIsBacked`). `endBusy`: a session archived while its VM is made leaves a machine
  without a row, though "a DELETE (soft-archive) or a `terminated` session never leaks its
  microVM" (`app.ts:964`; `EndedReaped`). `lostSave`: a swallowed failure to save a handle
  makes a later wake provision over the work (`runtime.ts:1299`; `WorkKept`). `reapCut`: a
  death between the destroy and the clearing makes every later pass fail on the row
  (`app.ts:1277`; `EndedReaped`). `revive`: a wake writes idle over terminated, though
  "`terminated` is terminal" (`state-machine.ts:167`; `TerminatedIsFinal`, `WorkKept`).
- *Workers*: `RunningEnds` as a property fails: the parent forgets the sessions of a dead
  child, whose row stays running (`pool.ts:343-370`), and the events route answers 409 to
  the message that would wake them, though "the session is NOT lost"
  (`remote-runtime.ts:195`).
- *Creation*, `Outlive = TRUE`: a handler slower than the lease is run twice (`ExecutedOnce`).
- *Subagents*, `Races`. `sameThread`: a follow-up on a thread in a turn clears the first turn's
  requests, which then reports completion (`thread.ts:143`; `BlockedTurnSaysSo`).

Seen while modelling; no run is devoted to them:
- *Runtime.* The idle timer set by an older settlement can checkpoint the sandbox of a
  resumed turn (`idle-policy.ts:4`). A settlement that became stale during a start leaves a
  prompt in flight while the machine reads idle. An interrupt during a backoff does not stop
  the re-prompt. A user message is accepted while the session waits on calls.
- *Events.* The history cursor counts entries where
  positions are meant (`api/events.ts:256`). `dispose` does not wait for the append chain.
- *Queue.* A claim returns every call of the row, answered ones too, and no path completes a
  row of a live session, so old calls are run again. A refused enqueue leaves its id in
  `pendingToolResults`. Results replayed on a wake carry an id the re-run call no longer has.
  A cleanly stopped row is claimed and skipped for ever.
- *Billing.* A process that dies between a debit and its announcement loses the crossing, and
  a second accumulator of a bucket already debited (a restart within the bucket, a replica)
  is never debited. A shutdown flush that overlaps a timer flush across the enrolment of a
  tenant can lose a crossing. The grant forces `active` even when the balance stays at or
  below zero. Redelivered declines count as further consecutive failures.
- *Webhooks.* When the update that acknowledges a delivery takes effect and reports an error,
  the retry that follows (`dispatcher.ts:294-301`) is not guarded by the status: the row goes
  back to pending and is posted again. The row is `adrift` in the model, and
  `AckStopsRetries` excuses it as it does a claim that overran.
- *Creation.* When the insert of a session takes effect and reports an error, its slot is given
  back although the session is there (`create.ts:160`), and the plan is exceeded by one
  (`short`); a reservation of which only the answer is lost leaks a slot.
- *Subagents.* The first release that rejects ends the loop of `dispose` for good
  (`coordinator.ts:384-399`): the threads after it, or the requests of all, stay.
- *Scheduler.* The tick after an unpause fires what fell due during the pause. A one-shot job
  fires every due occurrence of one tick. A range of weekdays that ends in 7 is refused
  (`5-7`) or means Sunday alone (`0-7`), because 7 becomes 0 at both ends (`cron.ts:192`).
  A tick delayed before its recovery scan can fire a row another node recorded as skipped. Misses not recorded
  when their tick failed are forgotten. The release of a recovered run is not guarded by the
  claim's owner. Recovery does not look at the status of the job.

## 8. What is not modelled

Inside the modelled components:
- *Runtime*: a failing status write, sandbox crash recovery, wake and dispose,
  `system.message`, `define_outcome`, memory volumes, tool execution inside the sandbox.
- *Events*: the wire format, deltas, the paginated history route.
- *Queue*: worker keys, work statistics, webhook mode, the spawn executor, environments with
  several queues.
- *Billing*: one tenant, export sinks, the enforcement gate, money conversion, currencies;
  the cap's window does not slide; checkouts are seen through their webhooks only.
- *Scheduler*: manual runs, the quota of
  job creation, chunks of the skipped insert. Assumed: the heartbeat keeps the claim of a
  live node fresh, a release lands within the lease, one clock, and `createSession` fails
  only before its commit. `OneShot` is a constant, FALSE in the runs; the owner may archive
  a job at any moment, which is what a one-shot run does at its end.
- *Webhooks*: registration and deletion, the one-shot test delivery, signatures and address
  checks.
- *Registry*: a graceful close as a step of its own, sandboxes on several hosts, retention of
  events, the listings.
- *Workers*: the bounded buffer of a proxy (as in EventStream), several shards (they share
  nothing), shutdown.
- *Creation*: other routes under the middleware, routes that store no body, the byte and
  spend counters, which are single statements; a write of the middleware that takes effect and
  reports an error.
- *Subagents*: the condensed stream of the primary thread (its consumer ends when it finds
  the stream drained after `dispose` was called, and may miss the ends of threads disposed
  after that), the text a chain passes on, the roster. A thread disposed in a turn reads idle
  again when its prompt returns: the model has it, no property forbids it. The coordinator
  is used by the subagent extension; no route of `app.ts` constructs one yet.

Whole components that are not modelled, each with its reason in `PROJECT.json`: those of the
table in section 1 that are not in bold. Transcript durability, token refresh, memory writes
and host placement have protocols worth a module; the others (middleware lookups, versioned
resource rows, contracts, clients, console, telemetry) have none of several steps.

## 9. Plan

Done, most important first: SessionRuntime and its proofs; EventStream and its proofs;
WorkQueue and its proofs; Ledger, Account, Billing and their proofs; Scheduler and its proofs;
WebhookDelivery and its proofs; SessionRegistry and its proofs; SessionWorkers and its
proofs; CreateRequests and its proofs; Subagents and its proofs; CronSchedule. Every safety
property of the passing runs is a theorem.

Next, in this order:
1. The etag protocol of the transcript beside `SessionRegistry`: *the durable transcript
   never goes back.*
2. Token refresh under the advisory lock; memory writes.
3. An abstract lossless log for `EventStream` to implement.

Composition stays by interface: SessionRuntime assumes of the sandbox and of the clients what
SessionRegistry and EventStream establish, WorkQueue keeps what a wake and an eviction do to
pending results, and Billing takes usage as an input.
