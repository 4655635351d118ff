------------------------ MODULE SessionRuntimeProofs ------------------------
(* Theorems about SessionRuntime, for every set of messages, calls,         *)
(* interrupts and usage reports: types, one driver per prompt and no        *)
(* orphaned run for every overlap, who owns the turn's flags, the sandbox,  *)
(* the verdicts and the answers when inputs wait for the handlers.          *)
EXTENDS SessionRuntime, TLAPS

-----------------------------------------------------------------------------
(* The state machine's operators stay within its type.                      *)

LEMMA TransitionType ==
  ASSUME NEW s \in Machine, NEW to \in Statuses, NEW r \in Reasons
  PROVE  Transition(s, to, r) \in Machine
  BY DEF Machine, Statuses, Reasons, Transition

LEMMA RetryBound == MaxRetries \in Nat BY RuntimeAssumption
LEMMA NoRetryYet == 0 \in 0..MaxRetries BY RetryBound

LEMMA StartType == ASSUME NEW s \in Machine PROVE Start(s) \in Machine
<1> [s EXCEPT !.stopReason = NoOne, !.blocking = {}] \in Machine
  BY DEF Machine, Reasons
<1> QED BY TransitionType DEF Start, Statuses, Reasons

LEMMA StopType ==
  ASSUME NEW s \in Machine, NEW r \in Reasons PROVE Stop(s, r) \in Machine
<1> [s EXCEPT !.retries = 0] \in Machine
  BY NoRetryYet DEF Machine
<1> QED BY TransitionType DEF Stop, Statuses

LEMMA RequiresActionType ==
  ASSUME NEW s \in Machine, NEW ids \in SUBSET Calls
  PROVE  RequiresAction(s, ids) \in Machine
<1> [s EXCEPT !.retries = 0, !.blocking = ids] \in Machine
  BY NoRetryYet DEF Machine
<1> QED BY TransitionType DEF RequiresAction, Statuses, Reasons

LEMMA TerminateType == ASSUME NEW s \in Machine PROVE Terminate(s) \in Machine
  BY TransitionType DEF Terminate, Statuses, Reasons

LEMMA ScheduleRetryType ==
  ASSUME NEW s \in Machine, RetriesLeft(s) PROVE ScheduleRetry(s) \in Machine
<1> s.retries \in 0..MaxRetries BY DEF Machine
<1> s.retries + 1 \in 0..MaxRetries BY RetryBound DEF RetriesLeft
<1> [s EXCEPT !.retries = @ + 1] \in Machine BY DEF Machine
<1> QED BY TransitionType DEF ScheduleRetry, Statuses, Reasons

LEMMA RowOfType == ASSUME NEW s \in Machine PROVE RowOf(s) \in RowType
  BY DEF Machine, RowOf, RowType

-----------------------------------------------------------------------------
(* The inductive invariant: types, custody of prompts, and settlement.      *)

\* The activations that hold a prompt, from its first drive to its park or end.
Holding  == {"driving", "paused", "resolved", "transient", "fatal", "savingRetry",
             "backoff", "savingRerun", "savingResume"}
Upcoming == {"new", "accepted", "vmStatus", "vmStart", "savingRun"}
Holds(d) == pc[d] \in Holding

Held      == \A d \in Drivers : Holds(d) => /\ act[d].driven \in Messages
                                            /\ act[d].driven # pendingPrompt
                                            /\ prompt[act[d].driven] # "none"
OneHolder == \A d, e \in Drivers :
               d # e /\ Holds(d) /\ Holds(e) => act[d].driven # act[e].driven
Parked    == pendingPrompt # NoOne => prompt[pendingPrompt] # "none"
Unbegun   == \A m \in Messages : pc[m] \in Upcoming => prompt[m] = "none"
Waits     == waiter # NoOne => pc[waiter] \in {"driving", "resolved", "transient", "fatal"}
Custody   == Held /\ OneHolder /\ Parked /\ Unbegun /\ Waits

\* Only an interrupt settles as one, and a failed turn has terminated the session.
DriversReason ==
  \A d \in Drivers : pc[d] = "settling" => act[d].reason # "user_interrupt"
EndsTerminated == \A d \in Drivers : pc[d] = "savingEnd" => sm.status = "terminated"
Settlement == NoOrphanRun /\ DriversReason /\ EndsTerminated

IInv == TypeOK /\ Custody /\ Settlement

-----------------------------------------------------------------------------
(* Type correctness.                                                        *)

LEMMA RowIn == TypeOK => RowOf(sm) \in RowType /\ \A a \in Activations : act[a].write \in RowType
  BY DEF TypeOK, Machine, RowOf, RowType, Locals

LEMMA SetWrite ==
  ASSUME TypeOK, NEW a \in Activations, NEW w \in RowType
  PROVE  [act EXCEPT ![a].write = w] \in [Activations -> Locals]
<1> act \in [Activations -> Locals] /\ act[a] \in Locals BY DEF TypeOK
<1> [act[a] EXCEPT !.write = w] \in Locals BY DEF Locals
<1> QED OBVIOUS

LEMMA SetDriven ==
  ASSUME TypeOK, NEW a \in Activations, NEW p \in Messages
  PROVE  [act EXCEPT ![a].driven = p] \in [Activations -> Locals]
<1> act \in [Activations -> Locals] /\ act[a] \in Locals BY DEF TypeOK
<1> [act[a] EXCEPT !.driven = p] \in Locals BY DEF Locals
<1> QED OBVIOUS

LEMMA SetResumed ==
  ASSUME TypeOK, NEW a \in Activations, NEW p \in Messages, NEW w \in RowType
  PROVE  [act EXCEPT ![a].write = w, ![a].driven = p] \in [Activations -> Locals]
<1> act \in [Activations -> Locals] /\ act[a] \in Locals BY DEF TypeOK
<1>1. [[act[a] EXCEPT !.write = w] EXCEPT !.driven = p] \in Locals BY DEF Locals
<1>2. [act EXCEPT ![a].write = w, ![a].driven = p]
        = [act EXCEPT ![a] = [[act[a] EXCEPT !.write = w] EXCEPT !.driven = p]]
  OBVIOUS
<1> QED BY <1>1, <1>2

LEMMA DrainThenType ==
  ASSUME TypeOK, NEW a \in Activations, NEW next \in Pcs, NEW r \in Reasons,
         DrainThen(a, next, r, act)
  PROVE  /\ act' \in [Activations -> Locals]
         /\ usageTasks' \subseteq Usage
         /\ pc' \in [Activations -> Pcs]
<1> act \in [Activations -> Locals] /\ act[a] \in Locals /\ usageTasks \in SUBSET Usage
  BY DEF TypeOK
<1>1. [[act[a] EXCEPT !.waits = usageTasks] EXCEPT !.reason = r] \in Locals BY DEF Locals
<1>2. act' = [act EXCEPT ![a] = [[act[a] EXCEPT !.waits = usageTasks] EXCEPT !.reason = r]]
  BY DEF DrainThen
<1>3. act' \in [Activations -> Locals] BY <1>1, <1>2
<1> QED BY <1>3 DEF DrainThen, TypeOK

LEMMA BeginRunType ==
  ASSUME TypeOK, NEW a \in Activations, NEW next \in Pcs, BeginRun(a, next)
  PROVE  /\ sm' \in Machine
         /\ act' \in [Activations -> Locals]
         /\ pc' \in [Activations -> Pcs]
<1>1. CASE sm.status = "terminated"
  BY <1>1 DEF BeginRun, TypeOK, Pcs, Ended
<1>2. CASE sm.status # "terminated"
  <2>1. sm' \in Machine
    <3> sm' = Start(sm) /\ sm \in Machine BY <1>2 DEF BeginRun, TypeOK
    <3> QED BY StartType
  <2>2. RowOf(sm') \in RowType BY <2>1, RowOfType
  <2>3. act' = [act EXCEPT ![a].write = RowOf(sm')] BY <1>2 DEF BeginRun
  <2>4. act' \in [Activations -> Locals] BY <2>2, <2>3, SetWrite
  <2>5. pc' \in [Activations -> Pcs] BY <1>2 DEF BeginRun, TypeOK
  <2> QED BY <2>1, <2>4, <2>5
<1> QED BY <1>1, <1>2

LEMMA MarkBlockedType ==
  ASSUME TypeOK, NEW ids \in SUBSET Calls, MarkBlocked(ids)
  PROVE  flags' \in [Drivers -> TurnFlags]
<1> flags \in [Drivers -> TurnFlags] BY DEF TypeOK
<1>1. CASE turnFlags = NoOne BY <1>1 DEF MarkBlocked
<1>2. CASE turnFlags # NoOne
  <2>1. turnFlags \in Drivers /\ flags[turnFlags] \in TurnFlags BY <1>2 DEF TypeOK
  <2>2. [[flags[turnFlags] EXCEPT !.requires = TRUE] EXCEPT !.blocking = ids] \in TurnFlags
    BY <2>1 DEF TurnFlags
  <2>3. flags' = [flags EXCEPT ![turnFlags] =
                    [[flags[turnFlags] EXCEPT !.requires = TRUE] EXCEPT !.blocking = ids]]
    BY <1>2 DEF MarkBlocked
  <2> QED BY <2>1, <2>2, <2>3
<1> QED BY <1>1, <1>2

LEMMA ReleaseDriveType == TypeOK => ReleaseDrive(pc) \in [Activations -> Pcs]
  BY DEF TypeOK, ReleaseDrive, Pcs, Drivers, Activations

LEMMA NoFlagsType == NoFlags \in TurnFlags BY DEF NoFlags, TurnFlags

LEMMA DriversAct == /\ Drivers \subseteq Activations /\ Messages \subseteq Drivers
                    /\ Calls \subseteq Drivers /\ Interrupts \subseteq Activations
  BY DEF Drivers, Activations

LEMMA SettledStateType ==
  ASSUME TypeOK, NEW r \in Reasons PROVE SettledState(r) \in Machine
<1> sm \in Machine /\ sm.blocking \in SUBSET Calls BY DEF TypeOK, Machine
<1> (IF turnFlags = NoOne THEN sm.blocking ELSE flags[turnFlags].blocking) \in SUBSET Calls
  BY DEF TypeOK, TurnFlags
<1> QED BY StopType, RequiresActionType DEF SettledState

LEMMA WriteKeeps ==
  ASSUME TypeOK, NEW a \in Activations, NEW w,
         act' = [act EXCEPT ![a].write = w]
  PROVE  \A e \in Activations : /\ act'[e].driven = act[e].driven
                                /\ act'[e].reason = act[e].reason
                                /\ act'[e].waits = act[e].waits
<1> act \in [Activations -> Locals] /\ \A e \in Activations : act[e] \in Locals BY DEF TypeOK
<1> QED BY DEF Locals

LEMMA DrainKeeps ==
  ASSUME TypeOK, NEW a \in Activations, NEW next, NEW r, DrainThen(a, next, r, act)
  PROVE  /\ \A e \in Activations : act'[e].driven = act[e].driven
         /\ \A e \in Activations : e # a => act'[e].reason = act[e].reason
         /\ act'[a].reason = r
         /\ pc' = [pc EXCEPT ![a] = next]
<1> act \in [Activations -> Locals] /\ \A e \in Activations : act[e] \in Locals BY DEF TypeOK
<1>1. act' = [act EXCEPT ![a] = [[act[a] EXCEPT !.waits = usageTasks] EXCEPT !.reason = r]]
  BY DEF DrainThen
<1>2. /\ [[act[a] EXCEPT !.waits = usageTasks] EXCEPT !.reason = r].driven = act[a].driven
      /\ [[act[a] EXCEPT !.waits = usageTasks] EXCEPT !.reason = r].reason = r
  BY DEF Locals
<1> QED BY <1>1, <1>2 DEF DrainThen

LEMMA BeginRunKeeps ==
  ASSUME TypeOK, NEW a \in Activations, NEW next, BeginRun(a, next)
  PROVE  /\ \A e \in Activations : /\ act'[e].driven = act[e].driven
                                   /\ act'[e].reason = act[e].reason
                                   /\ act'[e].waits = act[e].waits
         /\ \/ pc' = [pc EXCEPT ![a] = next] /\ sm.status # "terminated"
            \/ /\ pc' = [pc EXCEPT ![a] = "failed"]
               /\ sm.status = "terminated" /\ sm' = sm
<1>1. CASE sm.status = "terminated" BY <1>1 DEF BeginRun
<1>2. CASE sm.status # "terminated"
  <2>1. act' = [act EXCEPT ![a].write = RowOf(sm')] /\ pc' = [pc EXCEPT ![a] = next]
    BY <1>2 DEF BeginRun
  <2> QED BY <1>2, <2>1, WriteKeeps
<1> QED BY <1>1, <1>2

\* A terminated machine stays terminated, and other transitions reach their status.
LEMMA TransitionStatus ==
  ASSUME NEW s \in Machine, NEW to \in Statuses, NEW r \in Reasons
  PROVE  Transition(s, to, r).status = IF s.status = "terminated" THEN "terminated" ELSE to
  BY DEF Machine, Statuses, Reasons, Transition

LEMMA EndingStatus ==
  ASSUME NEW s \in Machine
  PROVE  /\ Terminate(s).status = "terminated"
         /\ RetriesLeft(s) => ScheduleRetry(s).status
              = IF s.status = "terminated" THEN "terminated" ELSE "rescheduling"
<1>1. Terminate(s).status = "terminated"
  BY TransitionStatus DEF Terminate, Statuses, Reasons
<1>2. ASSUME RetriesLeft(s)
      PROVE  ScheduleRetry(s).status
               = IF s.status = "terminated" THEN "terminated" ELSE "rescheduling"
  <2>1. s.retries + 1 \in 0..MaxRetries
    <3> s.retries \in 0..MaxRetries BY DEF Machine
    <3> QED BY <1>2, RetryBound DEF RetriesLeft
  <2> DEFINE t == [s EXCEPT !.retries = @ + 1]
  <2>2. t \in Machine /\ t.status = s.status BY <2>1 DEF Machine
  <2>3. ScheduleRetry(s) = Transition(t, "rescheduling", NoOne) BY DEF ScheduleRetry
  <2> HIDE DEF t
  <2>4. Transition(t, "rescheduling", NoOne).status
          = IF t.status = "terminated" THEN "terminated" ELSE "rescheduling"
    BY <2>2, TransitionStatus DEF Statuses, Reasons
  <2> QED BY <2>2, <2>3, <2>4
<1> QED BY <1>1, <1>2

LEMMA TypeStep ==
  ASSUME TypeOK, Held, [Next]_vars
  PROVE  TypeOK'
<1> USE DEF At, machine, turn, agent, sandbox, meter
<1>1. ASSUME NEW m \in Messages, PostMessage(m) PROVE TypeOK'
  BY <1>1 DEF PostMessage, TypeOK, Pcs, Ended, PromptStates
<1>2. ASSUME NEW m \in Messages, SettleStop(m) PROVE TypeOK'
  BY <1>2 DEF SettleStop, TypeOK, Pcs, Ended, PromptStates
<1>3. ASSUME NEW m \in Messages, SandboxIsUp(m) PROVE TypeOK'
  <2>1. sm' \in Machine /\ act' \in [Activations -> Locals] /\ pc' \in [Activations -> Pcs]
    BY <1>3, BeginRunType, DriversAct DEF SandboxIsUp, Pcs
  <2> QED BY <1>3, <2>1 DEF SandboxIsUp, TypeOK
<1>4. ASSUME NEW m \in Messages, SandboxIsStopped(m) PROVE TypeOK'
  BY <1>4 DEF SandboxIsStopped, TypeOK, Pcs, Ended, PromptStates
<1>5. ASSUME NEW m \in Messages, SandboxStarted(m) PROVE TypeOK'
  <2>1. sm' \in Machine /\ act' \in [Activations -> Locals] /\ pc' \in [Activations -> Pcs]
    BY <1>5, BeginRunType, DriversAct DEF SandboxStarted, Pcs
  <2> QED BY <1>5, <2>1 DEF SandboxStarted, TypeOK
<1>6. ASSUME NEW m \in Messages, SandboxStartFails(m) PROVE TypeOK'
  BY <1>6 DEF SandboxStartFails, TypeOK, Pcs, Ended, PromptStates
<1>7. ASSUME NEW m \in Messages, StartTurn(m) PROVE TypeOK'
  <2>1. row' \in RowType BY <1>7, RowIn, DriversAct DEF StartTurn, SaveStatus
  <2>2. act' \in [Activations -> Locals] BY <1>7, SetDriven, DriversAct DEF StartTurn
  <2>3. flags' \in [Drivers -> TurnFlags] BY <1>7, NoFlagsType DEF StartTurn, TypeOK
  <2>4. /\ turnFlags' \in Drivers /\ waiter' \in Drivers
        /\ prompt' \in [Messages -> PromptStates] /\ pc' \in [Activations -> Pcs]
    BY <1>7, DriversAct DEF StartTurn, TakeSlot, TypeOK, PromptStates, Pcs
  <2> QED BY <1>7, <2>1, <2>2, <2>3, <2>4 DEF StartTurn, TypeOK
<1>8. ASSUME NEW m \in Messages, DecideReason(m) PROVE TypeOK'
  <2> DEFINE r == IF flags[m].budget THEN "budget_exhausted" ELSE "completed"
  <2>1. DrainThen(m, "settling", r, act) BY <1>8 DEF DecideReason, Settle
  <2>2. r \in Reasons BY DEF Reasons
  <2>3. /\ act' \in [Activations -> Locals] /\ usageTasks' \subseteq Usage
        /\ pc' \in [Activations -> Pcs]
    BY <2>1, <2>2, DrainThenType, DriversAct DEF Pcs
  <2> QED BY <1>8, <2>3 DEF DecideReason, TypeOK
<1>9. ASSUME NEW m \in Messages, BackOff(m) PROVE TypeOK'
  <2>1. row' \in RowType BY <1>9, RowIn, DriversAct DEF BackOff, SaveStatus
  <2> QED BY <1>9, <2>1 DEF BackOff, TypeOK, Pcs
<1>10. ASSUME NEW m \in Messages, RetryDue(m) PROVE TypeOK'
  <2>1. sm' \in Machine /\ act' \in [Activations -> Locals] /\ pc' \in [Activations -> Pcs]
    BY <1>10, BeginRunType, DriversAct DEF RetryDue, Pcs
  <2> QED BY <1>10, <2>1 DEF RetryDue, TypeOK
<1>11. ASSUME NEW m \in Messages, RetryPrompt(m) PROVE TypeOK'
  <2>1. row' \in RowType BY <1>11, RowIn, DriversAct DEF RetryPrompt, SaveStatus
  <2> QED BY <1>11, <2>1, DriversAct DEF RetryPrompt, TypeOK, Pcs, PromptStates
<1>12. ASSUME NEW d \in Drivers, DrivePaused(d) PROVE TypeOK'
  <2>1. /\ act' \in [Activations -> Locals] /\ usageTasks' \subseteq Usage
        /\ pc' \in [Activations -> Pcs]
    BY <1>12, DrainThenType, DriversAct DEF DrivePaused, Settle, Pcs, Reasons
  <2>2. pendingPrompt' \in Messages \cup {NoOne}
    BY <1>12, DriversAct DEF DrivePaused, TypeOK, Locals
  <2> QED BY <1>12, <2>1, <2>2 DEF DrivePaused, TypeOK
<1>13. ASSUME NEW d \in Drivers, DriveResolved(d) PROVE TypeOK'
  <2> DEFINE r == IF flags[d].budget THEN "budget_exhausted" ELSE "completed"
  <2>1. DrainThen(d, "draining", NoOne, act) \/ DrainThen(d, "settling", r, act)
    BY <1>13 DEF DriveResolved, Settle
  <2>2. r \in Reasons /\ NoOne \in Reasons BY DEF Reasons
  <2>3. /\ act' \in [Activations -> Locals] /\ usageTasks' \subseteq Usage
        /\ pc' \in [Activations -> Pcs]
    BY <2>1, <2>2, DrainThenType, DriversAct DEF Pcs
  <2> QED BY <1>13, <2>3 DEF DriveResolved, TypeOK
<1>14. ASSUME NEW d \in Drivers, DriveRejected(d) PROVE TypeOK'
  <2>1. sm' \in Machine
    BY <1>14, TerminateType, ScheduleRetryType DEF DriveRejected, TypeOK
  <2>2. RowOf(sm') \in RowType BY <2>1, RowOfType
  <2>3. act' \in [Activations -> Locals] BY <1>14, <2>2, SetWrite, DriversAct DEF DriveRejected
  <2>4. pc' \in [Activations -> Pcs] BY <1>14 DEF DriveRejected, TypeOK, Pcs
  <2> QED BY <1>14, <2>1, <2>3, <2>4 DEF DriveRejected, TypeOK
<1>15. ASSUME NEW d \in Drivers, EndSaved(d) PROVE TypeOK'
  <2>1. row' \in RowType BY <1>15, RowIn, DriversAct DEF EndSaved, SaveStatus
  <2>2. CASE d \in Messages /\ Settle(d, "error") /\ UNCHANGED turnFlags
    <3>1. /\ act' \in [Activations -> Locals] /\ usageTasks' \subseteq Usage
          /\ pc' \in [Activations -> Pcs]
      BY <2>2, DrainThenType, DriversAct DEF Settle, Pcs, Reasons
    <3> QED BY <1>15, <2>1, <2>2, <3>1 DEF EndSaved, TypeOK
  <2>3. CASE d \in Calls /\ turnFlags' = NoOne /\ pc' = [pc EXCEPT ![d] = "done"]
             /\ UNCHANGED <<act, usageTasks>>
    BY <1>15, <2>1, <2>3 DEF EndSaved, TypeOK, Pcs, Ended
  <2> QED BY <1>15, <2>2, <2>3 DEF EndSaved
<1>16. ASSUME NEW c \in Calls, ResumeTurn(c) PROVE TypeOK'
  <2>1. row' \in RowType BY <1>16, RowIn, DriversAct DEF ResumeTurn, SaveStatus
  <2>2. flags' \in [Drivers -> TurnFlags] BY <1>16, NoFlagsType DEF ResumeTurn, TypeOK
  <2>4. prompt[act[c].driven] \in PromptStates \ {"none"}
    BY <1>16 DEF ResumeTurn, Held, Holds, Holding, TypeOK, PromptStates, Drivers, At
  <2> QED BY <1>16, <2>1, <2>2, <2>4, DriversAct DEF ResumeTurn, TakeSlot, TypeOK, Pcs, PromptStates
<1>17. ASSUME NEW i \in Interrupts, Aborted(i) PROVE TypeOK'
  <2>1. sm' \in Machine BY <1>17, StopType DEF Aborted, TypeOK, Reasons
  <2>2. /\ act' \in [Activations -> Locals] /\ usageTasks' \subseteq Usage
        /\ pc' \in [Activations -> Pcs]
    BY <1>17, DrainThenType, DriversAct DEF Aborted, Settle, Pcs, Reasons
  <2> QED BY <1>17, <2>1, <2>2 DEF Aborted, TypeOK
<1>18. ASSUME NEW a \in Activations, SettleIdle(a) PROVE TypeOK'
  <2>1. act[a].reason \in Reasons BY DEF TypeOK, Locals
  <2>2. sm' \in Machine BY <1>18, <2>1, SettledStateType DEF SettleIdle
  <2>3. RowOf(sm') \in RowType BY <2>2, RowOfType
  <2>4. act' \in [Activations -> Locals] BY <1>18, <2>3, SetWrite DEF SettleIdle
  <2> QED BY <1>18, <2>2, <2>4 DEF SettleIdle, TypeOK, Pcs
<1>19. ASSUME NEW a \in Activations, SettleTerminated(a) PROVE TypeOK'
  <2>1. act' \in [Activations -> Locals] BY <1>19, RowIn, SetWrite DEF SettleTerminated
  <2> QED BY <1>19, <2>1 DEF SettleTerminated, TypeOK, Pcs
<1>20. ASSUME NEW a \in Activations, FinalSaved(a) PROVE TypeOK'
  <2>1. row' \in RowType BY <1>20, RowIn DEF FinalSaved, SaveStatus
  <2> QED BY <1>20, <2>1 DEF FinalSaved, TypeOK, Pcs, Ended
<1>21. ASSUME NEW a \in Activations, AnnounceIdle(a) PROVE TypeOK'
  <2>1. row' \in RowType BY <1>21, RowIn DEF AnnounceIdle, SaveStatus
  <2>2. told' \subseteq Calls BY <1>21 DEF AnnounceIdle, TypeOK, TurnFlags
  <2> QED BY <1>21, <2>1, <2>2 DEF AnnounceIdle, TypeOK, Pcs
<1>22. ASSUME NEW a \in Activations, Stored(a) PROVE TypeOK'
  BY <1>22 DEF Stored, TypeOK, Pcs, Ended
<1>23. ASSUME NEW a \in Activations, StoreFails(a) PROVE TypeOK'
  BY <1>23 DEF StoreFails, TypeOK, Pcs, Ended, PromptStates
<1>24. ASSUME NEW u \in Usage, RecordUsage(u) PROVE TypeOK'
  BY <1>24 DEF RecordUsage, TypeOK, Pcs, Ended, PromptStates
<1>25. ASSUME NEW u \in Usage, EnforceBudget(u) PROVE TypeOK'
  <2>1. usage' = [usage EXCEPT ![u] = "done"] BY <1>25 DEF EnforceBudget
  <2>2. flags' \in [Drivers -> TurnFlags]
    <3>1. flags \in [Drivers -> TurnFlags] /\ (turnFlags # NoOne => turnFlags \in Drivers)
      BY DEF TypeOK
    <3>2. \A d \in Drivers : [flags[d] EXCEPT !.budget = TRUE] \in TurnFlags
      BY <3>1 DEF TurnFlags
    <3>3. \/ flags' = flags
          \/ /\ turnFlags # NoOne
             /\ flags' = [flags EXCEPT ![turnFlags] = [flags[turnFlags] EXCEPT !.budget = TRUE]]
      BY <1>25 DEF EnforceBudget
    <3> QED BY <3>1, <3>2, <3>3
  <2> QED BY <1>25, <2>1, <2>2 DEF EnforceBudget, TypeOK
<1>26. ASSUME NEW u \in Usage, ReportUsage(u) PROVE TypeOK'
  BY <1>26 DEF ReportUsage, TypeOK, Pcs, Ended, PromptStates
<1>27. ASSUME NEW m \in Messages, PromptSettles(m) PROVE TypeOK'
  BY <1>27 DEF PromptSettles, TypeOK, Pcs, Ended, PromptStates
<1>28. ASSUME NEW m \in Messages, NEW c \in Calls, CoordinatorBlocks(m, c) PROVE TypeOK'
  <2>1. SameCoordinator(c) \cup {c} \in SUBSET Calls BY DEF SameCoordinator, Blocked
  <2>2. flags' \in [Drivers -> TurnFlags] BY <1>28, <2>1, MarkBlockedType DEF CoordinatorBlocks
  <2>3. pc' \in [Activations -> Pcs] BY <1>28, ReleaseDriveType DEF CoordinatorBlocks
  <2> QED BY <1>28, <2>2, <2>3 DEF CoordinatorBlocks, TypeOK
<1>29. ASSUME NEW m \in Messages, NEW c \in Calls, QueueToolCall(m, c) PROVE TypeOK'
  BY <1>29 DEF QueueToolCall, TypeOK, Pcs, Ended, PromptStates, MayBlock
<1>30. ASSUME NEW c \in Calls, AwaitToolResult(c) PROVE TypeOK'
  <2>1. CASE call[c] = "buffered" /\ call' = [call EXCEPT ![c] = "answered"]
             /\ UNCHANGED <<flags, waiter, pc>>
    BY <1>30, <2>1 DEF AwaitToolResult, TypeOK
  <2>2. CASE call[c] = "queued" /\ call' = [call EXCEPT ![c] = "blocked"]
             /\ MarkBlocked(Blocked \cup {c})
             /\ pc' = ReleaseDrive(pc) /\ waiter' = NoOne
    <3>1. Blocked \cup {c} \in SUBSET Calls BY DEF Blocked
    <3>2. flags' \in [Drivers -> TurnFlags] BY <2>2, <3>1, MarkBlockedType
    <3>3. pc' \in [Activations -> Pcs] BY <2>2, ReleaseDriveType
    <3> QED BY <1>30, <2>2, <3>2, <3>3 DEF AwaitToolResult, TypeOK
  <2> QED BY <1>30, <2>1, <2>2 DEF AwaitToolResult
<1>31. ASSUME NEW c \in Calls, BufferResult(c) PROVE TypeOK'
  BY <1>31 DEF BufferResult, TypeOK, Pcs, Ended, PromptStates
<1>32. ASSUME NEW c \in Calls, AnswerCall(c) PROVE TypeOK'
  <2> DEFINE pcs == PcsAfterReport(c)
             rest == Remaining(c)
  <2>1. flags' \in [Drivers -> TurnFlags] /\ waiter' \in Drivers \cup {NoOne}
    <3> SameCoordinator(c) \ {c} \in SUBSET Calls BY DEF SameCoordinator, Blocked
    <3> QED BY <1>32, MarkBlockedType DEF AnswerCall, ReportRest, TypeOK
  <2>2. pcs \in [Activations -> Pcs] BY ReleaseDriveType DEF PcsAfterReport, TypeOK
  <2>3. rest \in SUBSET Calls BY DEF Remaining, Blocked
  <2>4. call' \in [Calls -> {"none", "queued", "buffered", "blocked", "answered"}]
    BY <1>32 DEF AnswerCall, TypeOK
  <2>5. ASSUME pendingPrompt = NoOne, pc' = [pcs EXCEPT ![c] = "done"],
               UNCHANGED <<sm, pendingPrompt, told, act>>
        PROVE  TypeOK'
    <3> pc' \in [Activations -> Pcs] BY <2>2, <2>5 DEF Pcs, Ended
    <3> QED BY <1>32, <2>1, <2>4, <2>5 DEF AnswerCall, TypeOK
  <2>6. ASSUME sm' = RequiresAction(sm, rest), Readvertise(rest),
               act' = [act EXCEPT ![c].write = RowOf(sm')],
               pc' = [pcs EXCEPT ![c] = "savingAdvert"], UNCHANGED pendingPrompt
        PROVE  TypeOK'
    <3>1. sm' \in Machine BY <2>3, <2>6, RequiresActionType DEF TypeOK
    <3>2. RowOf(sm') \in RowType BY <3>1, RowOfType
    <3>3. act' \in [Activations -> Locals] BY <2>6, <3>2, SetWrite, DriversAct
    <3>4. pc' \in [Activations -> Pcs] BY <2>2, <2>6 DEF Pcs
    <3>5. told' \subseteq Calls BY <2>3, <2>6 DEF Readvertise, TypeOK
    <3> QED BY <1>32, <2>1, <2>4, <2>6, <3>1, <3>3, <3>4, <3>5 DEF AnswerCall, TypeOK
  <2>7. ASSUME pendingPrompt # NoOne, TakePrompt, UNCHANGED told,
               IF sm.status = "terminated"
               THEN pc' = [pcs EXCEPT ![c] = "failed"] /\ UNCHANGED <<sm, act>>
               ELSE /\ sm' = Start(sm)
                    /\ act' = [act EXCEPT ![c].write = RowOf(sm'),
                                          ![c].driven = pendingPrompt]
                    /\ pc' = [pcs EXCEPT ![c] = "savingResume"]
        PROVE  TypeOK'
    <3>1. sm' \in Machine BY <2>7, StartType DEF TypeOK
    <3>2. RowOf(sm') \in RowType BY <3>1, RowOfType
    <3>3. pendingPrompt \in Messages BY <2>7 DEF TypeOK
    <3>4. act' \in [Activations -> Locals]
      <4>1. CASE sm.status = "terminated" BY <2>7, <4>1 DEF TypeOK
      <4>2. CASE sm.status # "terminated"
        <5>1. [act EXCEPT ![c].write = RowOf(sm'), ![c].driven = pendingPrompt]
                \in [Activations -> Locals]
          BY <3>2, <3>3, SetResumed, DriversAct
        <5>2. act' = [act EXCEPT ![c].write = RowOf(sm'), ![c].driven = pendingPrompt]
          BY <2>7, <4>2
        <5> QED BY <5>1, <5>2
      <4> QED BY <4>1, <4>2
    <3>5. pc' \in [Activations -> Pcs] BY <2>2, <2>7 DEF Pcs, Ended
    <3> QED BY <1>32, <2>1, <2>4, <2>7, <3>1, <3>4, <3>5 DEF AnswerCall, TakePrompt, TypeOK
  <2> QED BY <1>32, <2>5, <2>6, <2>7 DEF AnswerCall
<1>33. ASSUME NEW i \in Interrupts, Interrupt(i) PROVE TypeOK'
  BY <1>33 DEF Interrupt, TypeOK, Pcs, Ended, PromptStates
<1>34. CASE TimerFires
  BY <1>34 DEF TimerFires, TypeOK, Pcs, Ended, PromptStates
<1>35. CASE CheckpointEnds
  BY <1>35 DEF CheckpointEnds, TypeOK, Pcs, Ended, PromptStates
<1>36. CASE UNCHANGED vars
  BY <1>36 DEF vars, TypeOK
<1> QED
  BY <1>1, <1>2, <1>3, <1>4, <1>5, <1>6, <1>7, <1>8, <1>9, <1>10, <1>11, <1>12,
     <1>13, <1>14, <1>15, <1>16, <1>17, <1>18, <1>19, <1>20, <1>21, <1>22, <1>23, <1>24,
     <1>25, <1>26, <1>27, <1>28, <1>29, <1>30, <1>31, <1>32, <1>33, <1>34, <1>35, <1>36
  DEF Next, Microtask, HandlerStep, AgentStep, ClientStep, MessageStep, SettleStep,
      UsageStep

LEMMA CustodyStep ==
  ASSUME TypeOK, TypeOK', Custody, [Next]_vars
  PROVE  Custody'
<1> USE DEF At, Drivers, Activations, machine, turn, agent, sandbox, meter, Custody, Held, OneHolder,
           Parked, Unbegun, Waits, Holds, Holding, Upcoming, TypeOK, Locals
<1>1. ASSUME NEW m \in Messages, PostMessage(m) PROVE Custody'
  BY <1>1 DEF PostMessage
<1>2. ASSUME NEW m \in Messages, SettleStop(m) PROVE Custody'
  BY <1>2 DEF SettleStop
<1>3. ASSUME NEW m \in Messages, SandboxIsUp(m) PROVE Custody'
  <2>1. BeginRun(m, "savingRun") /\ pc[m] = "vmStatus" BY <1>3 DEF SandboxIsUp
  <2>2. /\ \A e \in Drivers : act'[e].driven = act[e].driven
        /\ \E p \in {"savingRun", "failed"} : pc' = [pc EXCEPT ![m] = p]
    BY <2>1, BeginRunKeeps, DriversAct
  <2>3. UNCHANGED <<prompt, pendingPrompt, waiter>> BY <1>3 DEF SandboxIsUp
  <2> HIDE DEF TypeOK, Locals
  <2>4. pc \in [Activations -> Pcs] BY DEF TypeOK
  <2> QED BY <2>1, <2>2, <2>3, <2>4, DriversAct
<1>4. ASSUME NEW m \in Messages, SandboxIsStopped(m) PROVE Custody'
  BY <1>4 DEF SandboxIsStopped
<1>5. ASSUME NEW m \in Messages, SandboxStarted(m) PROVE Custody'
  <2>1. BeginRun(m, "savingRun") /\ pc[m] = "vmStart" BY <1>5 DEF SandboxStarted
  <2>2. /\ \A e \in Drivers : act'[e].driven = act[e].driven
        /\ \E p \in {"savingRun", "failed"} : pc' = [pc EXCEPT ![m] = p]
    BY <2>1, BeginRunKeeps, DriversAct
  <2>3. UNCHANGED <<prompt, pendingPrompt, waiter>> BY <1>5 DEF SandboxStarted
  <2> HIDE DEF TypeOK, Locals
  <2>4. pc \in [Activations -> Pcs] BY DEF TypeOK
  <2> QED BY <2>1, <2>2, <2>3, <2>4, DriversAct
<1>6. ASSUME NEW m \in Messages, SandboxStartFails(m) PROVE Custody'
  BY <1>6 DEF SandboxStartFails
<1>7. ASSUME NEW m \in Messages, StartTurn(m) PROVE Custody'
  <2>1. /\ act'[m].driven = m
        /\ \A e \in Drivers : e # m => act'[e].driven = act[e].driven
    <3> act \in [Activations -> Locals] /\ \A e \in Drivers : act[e] \in Locals
      BY DriversAct DEF TypeOK
    <3> act' = [act EXCEPT ![m].driven = m] BY <1>7 DEF StartTurn
    <3> QED BY DriversAct DEF Locals
  <2>2. /\ pc' = [pc EXCEPT ![m] = "driving"] /\ pc[m] = "savingRun"
        /\ waiter' = m /\ pendingPrompt' = pendingPrompt
        /\ prompt' = [prompt EXCEPT ![m] = "inflight"]
    BY <1>7 DEF StartTurn
  <2>3. \A e \in Drivers : Holds(e) => act[e].driven # m BY <2>2
  <2>4. pendingPrompt # m BY <2>2, RuntimeAssumption, DriversAct
  <2>5. pc \in [Activations -> Pcs] /\ prompt \in [Messages -> PromptStates] OBVIOUS
  <2> HIDE DEF Locals, TypeOK
  <2>6. Held' BY <2>1, <2>2, <2>3, <2>4, <2>5, DriversAct
  <2>7. OneHolder' BY <2>1, <2>2, <2>3, <2>5, DriversAct
  <2>8. Parked' /\ Unbegun' /\ Waits' BY <2>2, <2>5, DriversAct
  <2> QED BY <2>6, <2>7, <2>8
<1>8. ASSUME NEW m \in Messages, DecideReason(m) PROVE Custody'
  BY <1>8 DEF DecideReason, Settle, DrainThen
<1>9. ASSUME NEW m \in Messages, BackOff(m) PROVE Custody'
  BY <1>9 DEF BackOff
<1>10. ASSUME NEW m \in Messages, RetryDue(m) PROVE Custody'
  <2>1. BeginRun(m, "savingRerun") /\ pc[m] = "backoff" BY <1>10 DEF RetryDue
  <2>2. /\ \A e \in Drivers : act'[e].driven = act[e].driven
        /\ \E p \in {"savingRerun", "failed"} : pc' = [pc EXCEPT ![m] = p]
    BY <2>1, BeginRunKeeps, DriversAct
  <2>3. UNCHANGED <<prompt, pendingPrompt, waiter>> BY <1>10 DEF RetryDue
  <2> HIDE DEF TypeOK, Locals
  <2>4. pc \in [Activations -> Pcs] BY DEF TypeOK
  <2> QED BY <2>1, <2>2, <2>3, <2>4, DriversAct
<1>11. ASSUME NEW m \in Messages, RetryPrompt(m) PROVE Custody'
  BY <1>11 DEF RetryPrompt
<1>12. ASSUME NEW d \in Drivers, DrivePaused(d) PROVE Custody'
  BY <1>12 DEF DrivePaused, Settle, DrainThen
<1>13. ASSUME NEW d \in Drivers, DriveResolved(d) PROVE Custody'
  <2>1. \E p \in {"draining", "settling"}, r \in Reasons : DrainThen(d, p, r, act)
    BY <1>13 DEF DriveResolved, Settle, Reasons
  <2>2. /\ \A e \in Drivers : act'[e].driven = act[e].driven
        /\ \E p \in {"draining", "settling"} : pc' = [pc EXCEPT ![d] = p]
    BY <2>1, DrainKeeps, DriversAct
  <2>3. UNCHANGED <<prompt, pendingPrompt>> /\ waiter' = NoOne BY <1>13 DEF DriveResolved
  <2> HIDE DEF TypeOK, Locals
  <2>4. pc \in [Activations -> Pcs] BY DEF TypeOK
  <2> QED BY <2>2, <2>3, <2>4, DriversAct
<1>14. ASSUME NEW d \in Drivers, DriveRejected(d) PROVE Custody'
  BY <1>14 DEF DriveRejected
<1>15. ASSUME NEW d \in Drivers, EndSaved(d) PROVE Custody'
  <2>1. /\ \A e \in Drivers : act'[e].driven = act[e].driven
        /\ \E p \in {"settling", "done"} : pc' = [pc EXCEPT ![d] = p]
    BY <1>15, DrainKeeps, DriversAct DEF EndSaved, Settle
  <2>2. UNCHANGED <<prompt, pendingPrompt, waiter>> /\ pc[d] = "savingEnd" BY <1>15 DEF EndSaved
  <2> HIDE DEF TypeOK, Locals
  <2>3. pc \in [Activations -> Pcs] BY DEF TypeOK
  <2> QED BY <2>1, <2>2, <2>3, DriversAct
<1>16. ASSUME NEW c \in Calls, ResumeTurn(c) PROVE Custody'
  <2> DEFINE p == IF prompt[act[c].driven] = "inflight" THEN "driving"
                  ELSE prompt[act[c].driven]
  <2>1. /\ pc' = [pc EXCEPT ![c] = p] /\ pc[c] = "savingResume" /\ waiter' = c
        /\ UNCHANGED <<prompt, pendingPrompt, act>>
    BY <1>16 DEF ResumeTurn
  <2>2. p \in {"driving", "resolved", "transient", "fatal"}
    BY <2>1, DriversAct DEF PromptStates
  <2> HIDE DEF p, TypeOK, Locals
  <2>3. pc \in [Activations -> Pcs] BY DEF TypeOK
  <2>4. Held' /\ OneHolder' /\ Parked' BY <2>1, <2>2, <2>3, DriversAct
  <2>5. Unbegun' /\ Waits' BY <2>1, <2>2, <2>3, DriversAct, RuntimeAssumption
  <2> QED BY <2>4, <2>5
<1>17. ASSUME NEW i \in Interrupts, Aborted(i) PROVE Custody'
  <2>1. /\ \A e \in Drivers : act'[e].driven = act[e].driven
        /\ pc' = [pc EXCEPT ![i] = "settling"]
    BY <1>17, DrainKeeps, DriversAct DEF Aborted, Settle
  <2>2. UNCHANGED <<prompt, waiter>> /\ pendingPrompt' = NoOne /\ pc[i] = "aborting"
    BY <1>17 DEF Aborted
  <2> HIDE DEF TypeOK, Locals
  <2>3. pc \in [Activations -> Pcs] BY DEF TypeOK
  <2>4. NoOne \notin Messages BY RuntimeAssumption DEF Activations
  <2> QED BY <2>1, <2>2, <2>3, <2>4, DriversAct
<1>18. ASSUME NEW a \in Activations, SettleIdle(a) PROVE Custody'
  BY <1>18 DEF SettleIdle
<1>19. ASSUME NEW a \in Activations, SettleTerminated(a) PROVE Custody'
  BY <1>19 DEF SettleTerminated
<1>20. ASSUME NEW a \in Activations, FinalSaved(a) PROVE Custody'
  BY <1>20 DEF FinalSaved
<1>21. ASSUME NEW a \in Activations, AnnounceIdle(a) PROVE Custody'
  BY <1>21 DEF AnnounceIdle
<1>22. ASSUME NEW a \in Activations, Stored(a) PROVE Custody'
  BY <1>22 DEF Stored
<1>23. ASSUME NEW a \in Activations, StoreFails(a) PROVE Custody'
  BY <1>23 DEF StoreFails
<1>24. ASSUME NEW u \in Usage, RecordUsage(u) PROVE Custody'
  BY <1>24 DEF RecordUsage
<1>25. ASSUME NEW u \in Usage, EnforceBudget(u) PROVE Custody'
  BY <1>25 DEF EnforceBudget
<1>26. ASSUME NEW u \in Usage, ReportUsage(u) PROVE Custody'
  BY <1>26 DEF ReportUsage
<1>27. ASSUME NEW m \in Messages, PromptSettles(m) PROVE Custody'
  BY <1>27 DEF PromptSettles
<1>28. ASSUME NEW m \in Messages, NEW c \in Calls, CoordinatorBlocks(m, c) PROVE Custody'
  BY <1>28 DEF CoordinatorBlocks, MayBlock, ReleaseDrive
<1>29. ASSUME NEW m \in Messages, NEW c \in Calls, QueueToolCall(m, c) PROVE Custody'
  BY <1>29 DEF QueueToolCall, MayBlock
<1>30. ASSUME NEW c \in Calls, AwaitToolResult(c) PROVE Custody'
  BY <1>30 DEF AwaitToolResult, ReleaseDrive
<1>31. ASSUME NEW c \in Calls, BufferResult(c) PROVE Custody'
  BY <1>31 DEF BufferResult
<1>32. ASSUME NEW c \in Calls, AnswerCall(c) PROVE Custody'
  <2> DEFINE pcs == PcsAfterReport(c)
  <2>1. pcs \in [Activations -> Pcs] BY ReleaseDriveType DEF PcsAfterReport
  <2>2. \/ pcs = pc /\ waiter' = waiter
        \/ waiter # NoOne /\ pcs = [pc EXCEPT ![waiter] = "paused"] /\ waiter' = NoOne
        \/ pcs = pc /\ waiter' = NoOne
    BY <1>32 DEF AnswerCall, ReportRest, PcsAfterReport, ReleaseDrive
  <2>3. pc[c] = "new" /\ prompt' = prompt BY <1>32 DEF AnswerCall
  <2>4. pc \in [Activations -> Pcs] /\ waiter \in Drivers \cup {NoOne} OBVIOUS
  <2>5. ASSUME NEW p \in {"done", "savingAdvert", "failed"}, pc' = [pcs EXCEPT ![c] = p],
               \A e \in Drivers : act'[e].driven = act[e].driven,
               pendingPrompt' \in {pendingPrompt, NoOne}
        PROVE  Custody'
    <3> HIDE DEF TypeOK, Locals, pcs
    <3>1. NoOne \notin Messages BY RuntimeAssumption DEF Activations
    <3>2. Held' /\ OneHolder' BY <2>1, <2>2, <2>3, <2>4, <2>5, <3>1, DriversAct
    <3>3. Unbegun' BY <2>1, <2>2, <2>3, <2>4, <2>5, RuntimeAssumption, DriversAct
    <3>4. Parked' /\ Waits' BY <2>1, <2>2, <2>3, <2>4, <2>5, DriversAct
    <3> QED BY <3>2, <3>3, <3>4
  <2>6. ASSUME pendingPrompt \in Messages, pendingPrompt' = NoOne,
               pc' = [pcs EXCEPT ![c] = "savingResume"],
               act'[c].driven = pendingPrompt,
               \A e \in Drivers : e # c => act'[e].driven = act[e].driven
        PROVE  Custody'
    <3> HIDE DEF TypeOK, Locals, pcs
    <3>1. NoOne \notin Messages BY RuntimeAssumption DEF Activations
    <3>2. Held' /\ OneHolder' BY <2>1, <2>2, <2>3, <2>4, <2>6, <3>1, DriversAct
    <3>3. Unbegun' BY <2>1, <2>2, <2>3, <2>4, <2>6, RuntimeAssumption, DriversAct
    <3>4. Parked' /\ Waits' BY <2>1, <2>2, <2>3, <2>4, <2>6, DriversAct
    <3> QED BY <3>2, <3>3, <3>4
  <2>7. CASE pendingPrompt = NoOne /\ pc' = [pcs EXCEPT ![c] = "done"]
             /\ UNCHANGED <<sm, pendingPrompt, told, act>>
    BY <2>5, <2>7
  <2>8. CASE /\ pc' = [pcs EXCEPT ![c] = "savingAdvert"] /\ UNCHANGED pendingPrompt
             /\ act' = [act EXCEPT ![c].write = RowOf(sm')]
    <3> \A e \in Drivers : act'[e].driven = act[e].driven BY <2>8, WriteKeeps, DriversAct
    <3> QED BY <2>5, <2>8
  <2>9. CASE /\ pendingPrompt # NoOne /\ pendingPrompt' = NoOne
             /\ IF sm.status = "terminated"
                THEN pc' = [pcs EXCEPT ![c] = "failed"] /\ UNCHANGED <<sm, act>>
                ELSE /\ sm' = Start(sm)
                     /\ act' = [act EXCEPT ![c].write = RowOf(sm'),
                                           ![c].driven = pendingPrompt]
                     /\ pc' = [pcs EXCEPT ![c] = "savingResume"]
    <3>1. CASE sm.status = "terminated" BY <2>5, <2>9, <3>1
    <3>2. CASE sm.status # "terminated"
      <4>1. act \in [Activations -> Locals] /\ \A e \in Activations : act[e] \in Locals
        OBVIOUS
      <4>2. act' = [act EXCEPT ![c] = [[act[c] EXCEPT !.write = RowOf(sm')]
                                        EXCEPT !.driven = pendingPrompt]]
        BY <2>9, <3>2, ZenonT(30)
      <4>3. [[act[c] EXCEPT !.write = RowOf(sm')]
              EXCEPT !.driven = pendingPrompt].driven = pendingPrompt
        BY <4>1, DriversAct DEF Locals
      <4>4. /\ act'[c].driven = pendingPrompt
            /\ \A e \in Drivers : e # c => act'[e].driven = act[e].driven
        BY <4>1, <4>2, <4>3, DriversAct
      <4> QED BY <2>6, <2>9, <3>2, <4>4
    <3> QED BY <3>1, <3>2
  <2> QED BY <1>32, <2>7, <2>8, <2>9 DEF AnswerCall, TakePrompt
<1>33. ASSUME NEW i \in Interrupts, Interrupt(i) PROVE Custody'
  BY <1>33 DEF Interrupt
<1>34. CASE TimerFires
  BY <1>34 DEF TimerFires
<1>35. CASE CheckpointEnds
  BY <1>35 DEF CheckpointEnds
<1>36. CASE UNCHANGED vars
  BY <1>36 DEF vars
<1> QED
  BY <1>1, <1>2, <1>3, <1>4, <1>5, <1>6, <1>7, <1>8, <1>9, <1>10, <1>11, <1>12,
     <1>13, <1>14, <1>15, <1>16, <1>17, <1>18, <1>19, <1>20, <1>21, <1>22, <1>23, <1>24,
     <1>25, <1>26, <1>27, <1>28, <1>29, <1>30, <1>31, <1>32, <1>33, <1>34, <1>35, <1>36
  DEF Next, Microtask, HandlerStep, AgentStep, ClientStep, MessageStep, SettleStep,
      UsageStep

LEMMA SettlementStep ==
  ASSUME TypeOK, TypeOK', Held, Settlement, [Next]_vars
  PROVE  Settlement'
<1> USE DEF At, Drivers, Activations, machine, turn, agent, sandbox, meter, Settlement, NoOrphanRun,
           WillSettle, DriversReason, EndsTerminated, TypeOK, Locals, Machine
<1>1. ASSUME NEW m \in Messages, PostMessage(m) PROVE Settlement'
  BY <1>1 DEF PostMessage
<1>2. ASSUME NEW m \in Messages, SettleStop(m) PROVE Settlement'
  BY <1>2 DEF SettleStop
<1>3. ASSUME NEW m \in Messages, SandboxIsUp(m) PROVE Settlement'
  <2>1. BeginRun(m, "savingRun") /\ pc[m] = "vmStatus" BY <1>3 DEF SandboxIsUp
  <2>2. /\ \A e \in Drivers : act'[e].reason = act[e].reason
        /\ \/ pc' = [pc EXCEPT ![m] = "savingRun"] /\ sm.status # "terminated"
           \/ /\ pc' = [pc EXCEPT ![m] = "failed"]
              /\ sm.status = "terminated" /\ sm' = sm
    BY <2>1, BeginRunKeeps, DriversAct
  <2> HIDE DEF TypeOK, Locals
  <2>3. pc \in [Activations -> Pcs] BY DEF TypeOK
  <2> QED BY <2>1, <2>2, <2>3, DriversAct
<1>4. ASSUME NEW m \in Messages, SandboxIsStopped(m) PROVE Settlement'
  BY <1>4 DEF SandboxIsStopped
<1>5. ASSUME NEW m \in Messages, SandboxStarted(m) PROVE Settlement'
  <2>1. BeginRun(m, "savingRun") /\ pc[m] = "vmStart" BY <1>5 DEF SandboxStarted
  <2>2. /\ \A e \in Drivers : act'[e].reason = act[e].reason
        /\ \/ pc' = [pc EXCEPT ![m] = "savingRun"] /\ sm.status # "terminated"
           \/ /\ pc' = [pc EXCEPT ![m] = "failed"]
              /\ sm.status = "terminated" /\ sm' = sm
    BY <2>1, BeginRunKeeps, DriversAct
  <2> HIDE DEF TypeOK, Locals
  <2>3. pc \in [Activations -> Pcs] BY DEF TypeOK
  <2> QED BY <2>1, <2>2, <2>3, DriversAct
<1>6. ASSUME NEW m \in Messages, SandboxStartFails(m) PROVE Settlement'
  BY <1>6 DEF SandboxStartFails
<1>7. ASSUME NEW m \in Messages, StartTurn(m) PROVE Settlement'
  BY <1>7 DEF StartTurn, TakeSlot
<1>8. ASSUME NEW m \in Messages, DecideReason(m) PROVE Settlement'
  BY <1>8 DEF DecideReason, Settle, DrainThen
<1>9. ASSUME NEW m \in Messages, BackOff(m) PROVE Settlement'
  BY <1>9 DEF BackOff
<1>10. ASSUME NEW m \in Messages, RetryDue(m) PROVE Settlement'
  BY <1>10 DEF RetryDue, BeginRun, Start, Transition
<1>11. ASSUME NEW m \in Messages, RetryPrompt(m) PROVE Settlement'
  BY <1>11 DEF RetryPrompt
<1>12. ASSUME NEW d \in Drivers, DrivePaused(d) PROVE Settlement'
  BY <1>12 DEF DrivePaused, Settle, DrainThen
<1>13. ASSUME NEW d \in Drivers, DriveResolved(d) PROVE Settlement'
  <2> DEFINE r == IF flags[d].budget THEN "budget_exhausted" ELSE "completed"
  <2>1. DrainThen(d, "draining", NoOne, act) \/ DrainThen(d, "settling", r, act)
    BY <1>13 DEF DriveResolved, Settle
  <2>2. /\ \A e \in Drivers : e # d => act'[e].reason = act[e].reason
        /\ \/ pc' = [pc EXCEPT ![d] = "draining"]
           \/ pc' = [pc EXCEPT ![d] = "settling"] /\ act'[d].reason = r
    BY <2>1, DrainKeeps, DriversAct
  <2>3. sm' = sm BY <1>13 DEF DriveResolved
  <2> HIDE DEF TypeOK, Locals
  <2>4. pc \in [Activations -> Pcs] BY DEF TypeOK
  <2> QED BY <1>13, <2>2, <2>3, <2>4, DriversAct DEF DriveResolved
<1>14. ASSUME NEW d \in Drivers, DriveRejected(d) PROVE Settlement'
  <2>1. /\ \A e \in Drivers : act'[e].reason = act[e].reason
        /\ pc[d] \in {"transient", "fatal"}
    BY <1>14, WriteKeeps, DriversAct DEF DriveRejected
  <2>2. \/ /\ pc' = [pc EXCEPT ![d] = "savingRetry"]
           /\ sm' = ScheduleRetry(sm) /\ RetriesLeft(sm)
        \/ pc' = [pc EXCEPT ![d] = "savingEnd"] /\ sm' = Terminate(sm)
    BY <1>14 DEF DriveRejected
  <2> HIDE DEF TypeOK, Locals, Machine
  <2>3. \/ /\ pc' = [pc EXCEPT ![d] = "savingRetry"]
           /\ sm.status = "terminated" => sm'.status = "terminated"
        \/ pc' = [pc EXCEPT ![d] = "savingEnd"] /\ sm'.status = "terminated"
    BY <2>2, EndingStatus DEF TypeOK
  <2>4. pc \in [Activations -> Pcs] BY DEF TypeOK
  <2> QED BY <2>1, <2>2, <2>3, <2>4, DriversAct
<1>15. ASSUME NEW d \in Drivers, EndSaved(d) PROVE Settlement'
  <2>1. /\ pc[d] = "savingEnd" /\ sm' = sm
        /\ \A e \in Drivers : e # d => act'[e].reason = act[e].reason
        /\ \/ pc' = [pc EXCEPT ![d] = "settling"] /\ act'[d].reason = "error"
           \/ pc' = [pc EXCEPT ![d] = "done"]
    BY <1>15, DrainKeeps, DriversAct DEF EndSaved, Settle
  <2> HIDE DEF TypeOK, Locals
  <2>2. pc \in [Activations -> Pcs] BY DEF TypeOK
  <2> QED BY <2>1, <2>2, DriversAct
<1>16. ASSUME NEW c \in Calls, ResumeTurn(c) PROVE Settlement'
  <2> DEFINE p == IF prompt[act[c].driven] = "inflight" THEN "driving"
                  ELSE prompt[act[c].driven]
  <2>1. /\ pc' = [pc EXCEPT ![c] = p] /\ pc[c] = "savingResume"
        /\ UNCHANGED <<sm, act>>
    BY <1>16 DEF ResumeTurn
  <2>2. p \in {"driving", "resolved", "transient", "fatal"}
    BY <2>1, DriversAct DEF PromptStates, Held, Holds, Holding
  <2> HIDE DEF p, TypeOK, Locals
  <2>3. pc \in [Activations -> Pcs] BY DEF TypeOK
  <2>4. pc'[c] = p /\ \A e \in Drivers : e # c => pc'[e] = pc[e] BY <2>1, <2>3, DriversAct
  <2>5. NoOrphanRun' BY <2>1, <2>2, <2>4, DriversAct
  <2>6. DriversReason' /\ EndsTerminated' BY <2>1, <2>2, <2>4
  <2> QED BY <2>5, <2>6
<1>17. ASSUME NEW i \in Interrupts, Aborted(i) PROVE Settlement'
  <2>1. /\ \A e \in Drivers : e # i => act'[e].reason = act[e].reason
        /\ pc' = [pc EXCEPT ![i] = "settling"]
    BY <1>17, DrainKeeps, DriversAct DEF Aborted, Settle
  <2>2. i \notin Drivers BY RuntimeAssumption
  <2> DEFINE s == [sm EXCEPT !.retries = 0]
  <2>3. s \in Machine /\ s.status = sm.status BY NoRetryYet
  <2>4. sm' = Transition(s, "idle", "user_interrupt") BY <1>17 DEF Aborted, Stop
  <2> HIDE DEF TypeOK, Locals, Machine, s
  <2>5. sm'.status = IF sm.status = "terminated" THEN "terminated" ELSE "idle"
    <3>1. Transition(s, "idle", "user_interrupt").status
            = IF s.status = "terminated" THEN "terminated" ELSE "idle"
      BY <2>3, TransitionStatus DEF Statuses, Reasons
    <3> QED BY <2>3, <2>4, <3>1
  <2>6. \A e \in Drivers : pc'[e] = pc[e]
    BY <2>1, <2>2, DriversAct DEF TypeOK
  <2>7. NoOrphanRun' BY <2>5
  <2>8. DriversReason' /\ EndsTerminated' BY <2>1, <2>2, <2>5, <2>6
  <2> QED BY <2>7, <2>8
<1>18. ASSUME NEW a \in Activations, SettleIdle(a) PROVE Settlement'
  BY <1>18 DEF SettleIdle, SettledState, Stop, RequiresAction, Transition
<1>19. ASSUME NEW a \in Activations, SettleTerminated(a) PROVE Settlement'
  BY <1>19 DEF SettleTerminated
<1>20. ASSUME NEW a \in Activations, FinalSaved(a) PROVE Settlement'
  BY <1>20 DEF FinalSaved
<1>21. ASSUME NEW a \in Activations, AnnounceIdle(a) PROVE Settlement'
  BY <1>21 DEF AnnounceIdle
<1>22. ASSUME NEW a \in Activations, Stored(a) PROVE Settlement'
  BY <1>22 DEF Stored
<1>23. ASSUME NEW a \in Activations, StoreFails(a) PROVE Settlement'
  BY <1>23 DEF StoreFails
<1>24. ASSUME NEW u \in Usage, RecordUsage(u) PROVE Settlement'
  BY <1>24 DEF RecordUsage
<1>25. ASSUME NEW u \in Usage, EnforceBudget(u) PROVE Settlement'
  BY <1>25 DEF EnforceBudget
<1>26. ASSUME NEW u \in Usage, ReportUsage(u) PROVE Settlement'
  BY <1>26 DEF ReportUsage
<1>27. ASSUME NEW m \in Messages, PromptSettles(m) PROVE Settlement'
  BY <1>27 DEF PromptSettles
<1>28. ASSUME NEW m \in Messages, NEW c \in Calls, CoordinatorBlocks(m, c)
      PROVE  Settlement'
  BY <1>28 DEF CoordinatorBlocks, MayBlock, ReleaseDrive
<1>29. ASSUME NEW m \in Messages, NEW c \in Calls, QueueToolCall(m, c) PROVE Settlement'
  BY <1>29 DEF QueueToolCall, MayBlock
<1>30. ASSUME NEW c \in Calls, AwaitToolResult(c) PROVE Settlement'
  BY <1>30 DEF AwaitToolResult, ReleaseDrive
<1>31. ASSUME NEW c \in Calls, BufferResult(c) PROVE Settlement'
  BY <1>31 DEF BufferResult
<1>32. ASSUME NEW c \in Calls, AnswerCall(c) PROVE Settlement'
  <2> DEFINE pcs == PcsAfterReport(c)
  <2>1. pcs \in [Activations -> Pcs] BY ReleaseDriveType DEF PcsAfterReport
  <2>2. pcs = pc \/ (waiter \in Drivers /\ pcs = [pc EXCEPT ![waiter] = "paused"])
    <3>1. waiter \in Drivers \cup {NoOne} OBVIOUS
    <3> HIDE DEF TypeOK, Locals
    <3>2. pcs = pc \/ (waiter # NoOne /\ pcs = [pc EXCEPT ![waiter] = "paused"])
      <4>1. CASE Reports(c) BY <4>1 DEF PcsAfterReport, ReleaseDrive
      <4>2. CASE ~Reports(c) BY <4>2 DEF PcsAfterReport
      <4> QED BY <4>1, <4>2
    <3> QED BY <3>1, <3>2
  <2>3. pc[c] = "new" BY <1>32 DEF AnswerCall
  <2>4. \A e \in Drivers : /\ pc[e] \in WillSettle => pcs[e] \in WillSettle
                           /\ pcs[e] = "settling" => pc[e] = "settling"
                           /\ pcs[e] = "savingEnd" => pc[e] = "savingEnd"
    <3> HIDE DEF TypeOK, Locals, pcs
    <3>1. pc \in [Activations -> Pcs] BY DEF TypeOK
    <3> QED BY <2>2, <3>1, DriversAct
  <2>5. ASSUME NEW p \in {"done", "savingAdvert", "failed", "savingResume"},
               pc' = [pcs EXCEPT ![c] = p],
               \A e \in Drivers : e # c => act'[e].reason = act[e].reason,
               sm.status = "terminated" => sm'.status = "terminated",
               sm'.status \in {"running", "rescheduling"} =>
                 p = "savingResume" \/ sm.status = sm'.status
        PROVE  Settlement'
    <3> HIDE DEF TypeOK, Locals, pcs
    <3>1. pc \in [Activations -> Pcs] BY DEF TypeOK
    <3>2. pc'[c] = p /\ \A e \in Drivers : e # c => pc'[e] = pcs[e]
      BY <2>1, <2>5, DriversAct
    <3>3. NoOrphanRun' BY <2>3, <2>4, <2>5, <3>2, DriversAct
    <3>4. DriversReason' BY <2>4, <2>5, <3>2
    <3>5. EndsTerminated' BY <2>4, <2>5, <3>2
    <3> QED BY <3>3, <3>4, <3>5
  <2>6. CASE pc' = [pcs EXCEPT ![c] = "done"] /\ UNCHANGED <<sm, pendingPrompt, told, act>>
    BY <2>5, <2>6
  <2>7. CASE /\ sm' = RequiresAction(sm, Remaining(c))
             /\ act' = [act EXCEPT ![c].write = RowOf(sm')]
             /\ pc' = [pcs EXCEPT ![c] = "savingAdvert"]
    <3>1. \A e \in Drivers : act'[e].reason = act[e].reason BY <2>7, WriteKeeps, DriversAct
    <3>2. IF sm.status = "terminated" THEN sm'.status = "terminated" ELSE sm'.status = "idle"
      BY <2>7 DEF RequiresAction, Transition
    <3> QED BY <2>5, <2>7, <3>1, <3>2
  <2>8. CASE IF sm.status = "terminated"
             THEN pc' = [pcs EXCEPT ![c] = "failed"] /\ UNCHANGED <<sm, act>>
             ELSE /\ sm' = Start(sm)
                  /\ act' = [act EXCEPT ![c].write = RowOf(sm'),
                                        ![c].driven = pendingPrompt]
                  /\ pc' = [pcs EXCEPT ![c] = "savingResume"]
    <3>1. CASE sm.status = "terminated" BY <2>5, <2>8, <3>1
    <3>2. CASE sm.status # "terminated"
      <4>1. \A e \in Drivers : e # c => act'[e].reason = act[e].reason
        BY <2>8, <3>2, DriversAct
      <4> QED BY <2>5, <2>8, <3>2, <4>1
    <3> QED BY <3>1, <3>2
  <2> QED BY <1>32, <2>6, <2>7, <2>8 DEF AnswerCall
<1>33. ASSUME NEW i \in Interrupts, Interrupt(i) PROVE Settlement'
  BY <1>33 DEF Interrupt
<1>34. CASE TimerFires
  BY <1>34 DEF TimerFires
<1>35. CASE CheckpointEnds
  BY <1>35 DEF CheckpointEnds
<1>36. CASE UNCHANGED vars
  BY <1>36 DEF vars
<1> QED
  BY <1>1, <1>2, <1>3, <1>4, <1>5, <1>6, <1>7, <1>8, <1>9, <1>10, <1>11, <1>12,
     <1>13, <1>14, <1>15, <1>16, <1>17, <1>18, <1>19, <1>20, <1>21, <1>22, <1>23, <1>24,
     <1>25, <1>26, <1>27, <1>28, <1>29, <1>30, <1>31, <1>32, <1>33, <1>34, <1>35, <1>36
  DEF Next, Microtask, HandlerStep, AgentStep, ClientStep, MessageStep, SettleStep,
      UsageStep

-----------------------------------------------------------------------------
(* The inductive invariant.                                                 *)

LEMMA InitInv == Init => IInv
<1> SUFFICES ASSUME Init PROVE IInv OBVIOUS
<1> USE DEF Init
<1>1. TypeOK
  <2>1. sm \in Machine BY NoRetryYet DEF Machine, Statuses, Reasons
  <2>2. row \in RowType BY <2>1, RowOfType
  <2>3. NewActivation \in Locals
    BY DEF NewActivation, Locals, RowType, Statuses, Reasons
  <2>4. flags \in [Drivers -> TurnFlags] BY NoFlagsType
  <2> QED BY <2>1, <2>2, <2>3, <2>4 DEF TypeOK, PromptStates, Pcs, Ended
<1>2. \A a \in Activations : pc[a] = "new" OBVIOUS
<1>3. Custody
  BY <1>2, DriversAct
  DEF Custody, Held, OneHolder, Parked, Unbegun, Waits, Holds, Holding
<1>4. Settlement
  BY <1>2, DriversAct DEF Settlement, NoOrphanRun, DriversReason, EndsTerminated
<1> QED BY <1>1, <1>3, <1>4 DEF IInv

LEMMA Inductive == IInv /\ [Next]_vars => IInv'
<1> SUFFICES ASSUME IInv, [Next]_vars PROVE IInv' OBVIOUS
<1>1. TypeOK' BY TypeStep DEF IInv, Custody
<1>2. Custody' BY <1>1, CustodyStep DEF IInv
<1>3. Settlement' BY <1>1, SettlementStep DEF IInv, Custody
<1> QED BY <1>1, <1>2, <1>3 DEF IInv

LEMMA Invariance == Spec => []IInv
  BY InitInv, Inductive, PTL DEF Spec

-----------------------------------------------------------------------------
(* One handler at a time.  Without overlaps an input waits until no handler *)
(* is active: what then holds of the one activation at work.                *)

Busy(a) == pc[a] \notin Ended

Serial == \A a, b \in Activations : Busy(a) /\ Busy(b) => a = b

\* From its first drive to the end of its settlement, a turn owns the slot.
OwnsSlot == (Holding \ {"savingResume"}) \cup
            {"draining", "savingEnd", "settling", "savingIdle", "storing"}
SlotOwned == \A d \in Drivers : pc[d] \in OwnsSlot => turnFlags = d

\* A drive can be released, and no block was marked in a turn that still drives.
Releasable == \A d \in Drivers : pc[d] = "driving" => waiter = d
Unmarked ==
  \A d \in Drivers :
    pc[d] \in {"driving", "resolved", "transient", "fatal", "savingRetry", "backoff",
               "savingRerun"} => ~flags[d].requires

\* The one prompt in flight: the parked one, or the one at hand; none runs while a
\* turn is being set up, retried or judged.
BetweenPrompts == {"accepted", "vmStatus", "vmStart", "savingRun", "resolved", "transient",
                   "fatal", "savingRetry", "backoff", "savingRerun", "draining"}
OneInFlight ==
  \A p \in Messages : prompt[p] = "inflight" =>
    /\ pendingPrompt # NoOne => p = pendingPrompt
    /\ \A d \in Drivers : /\ Holds(d) => p = act[d].driven
                          /\ pc[d] \notin BetweenPrompts

\* A message drives the prompt it created.
OwnPrompt == \A m \in Messages : Holds(m) => act[m].driven = m

\* A call that waits belongs to a prompt in flight, and a prompt that was parked or is
\* about to be has a call that waits.
WaitingCalls ==
  \A c \in Calls : call[c] \in {"queued", "buffered", "blocked"} =>
    callOf[c] \in Messages /\ prompt[callOf[c]] = "inflight"
WaitsFor(p) == \E c \in Blocked : callOf[c] = p
ParkedWaits == /\ pendingPrompt # NoOne => WaitsFor(pendingPrompt)
               /\ \A d \in Drivers : pc[d] = "paused" => WaitsFor(act[d].driven)

\* An unfinished usage task is known to the next drain, or to the one at work; a message
\* that drains has nothing left to start.
UsageKept ==
  /\ \A u \in Usage : usage[u] \in {"recording", "checking"} =>
       \/ u \in usageTasks
       \/ \E a \in Activations : pc[a] \in {"draining", "settling"} /\ u \in act[a].waits
  /\ \A m \in Messages : pc[m] = "draining" => usageTasks = {}

\* From settleStop on no checkpoint is due, and from the start of the run the sandbox is up.
Prepared == {"vmStatus", "vmStart", "savingRun", "driving", "paused", "resolved", "transient",
             "fatal", "savingRetry", "backoff", "savingRerun"}
SandboxKept ==
  \A m \in Messages :
    /\ pc[m] \in Prepared => ~idle.timer /\ ~idle.stopping
    /\ pc[m] \in Prepared \ {"vmStatus", "vmStart"} => vm = "running"

SerialInv == /\ Serial
             /\ SlotOwned
             /\ Releasable /\ Unmarked
             /\ OwnPrompt /\ OneInFlight
             /\ WaitingCalls /\ ParkedWaits
             /\ UsageKept
             /\ SandboxKept

LEMMA OnlyOne ==
  ASSUME Serial, NEW a \in Activations, pc[a] \notin Ended
  PROVE  \A b \in Activations : b # a => pc[b] \in Ended
  BY DEF Serial, Busy

\* An input arrives only when every handler has ended.
LEMMA ArrivesQuiet ==
  ASSUME Overlap \subseteq {"fastBlock"},
         NEW token \in {"message", "interrupt", "answer"}, MayArrive(token)
  PROVE  \A a \in Activations : pc[a] \in Ended
  BY DEF MayArrive, Live

\* So an answer finds no drive to release.
LEMMA AnswerReleasesNothing ==
  ASSUME Overlap \subseteq {"fastBlock"}, TypeOK, Waits, NEW c \in Calls, AnswerCall(c)
  PROVE  waiter = NoOne /\ PcsAfterReport(c) = pc
<1>1. \A a \in Activations : pc[a] \in Ended BY ArrivesQuiet DEF AnswerCall
<1>2. waiter \in Drivers \cup {NoOne} BY DEF TypeOK
<1>3. waiter = NoOne BY <1>1, <1>2, DriversAct DEF Waits, Ended
<1> QED BY <1>3 DEF PcsAfterReport, ReleaseDrive

LEMMA SerialStep ==
  ASSUME Overlap \subseteq {"fastBlock"}, TypeOK, Waits, Serial, Next
  PROVE  Serial'
<1> USE OnlyOne, ArrivesQuiet, DriversAct DEF At, Busy, Ended
<1>a. pc \in [Activations -> Pcs] BY DEF TypeOK
<1>b. waiter = NoOne \/ (waiter \in Activations /\ pc[waiter] \notin Ended)
  <2>1. waiter \in Drivers \cup {NoOne} BY DEF TypeOK
  <2> QED BY <2>1 DEF Waits
<1>1. ASSUME NEW m \in Messages, PostMessage(m) PROVE Serial'
  BY <1>1, <1>a DEF PostMessage, Serial
<1>2. ASSUME NEW m \in Messages, SettleStop(m) PROVE Serial'
  BY <1>2, <1>a DEF SettleStop, Serial
<1>3. ASSUME NEW m \in Messages, SandboxIsUp(m) PROVE Serial'
  BY <1>3, <1>a DEF SandboxIsUp, BeginRun, Serial
<1>4. ASSUME NEW m \in Messages, SandboxIsStopped(m) PROVE Serial'
  BY <1>4, <1>a DEF SandboxIsStopped, Serial
<1>5. ASSUME NEW m \in Messages, SandboxStarted(m) PROVE Serial'
  BY <1>5, <1>a DEF SandboxStarted, BeginRun, Serial
<1>6. ASSUME NEW m \in Messages, SandboxStartFails(m) PROVE Serial'
  BY <1>6, <1>a DEF SandboxStartFails, Serial
<1>7. ASSUME NEW m \in Messages, StartTurn(m) PROVE Serial'
  BY <1>7, <1>a DEF StartTurn, Serial
<1>8. ASSUME NEW m \in Messages, DecideReason(m) PROVE Serial'
  BY <1>8, <1>a DEF DecideReason, Settle, DrainThen, Serial
<1>9. ASSUME NEW m \in Messages, BackOff(m) PROVE Serial'
  BY <1>9, <1>a DEF BackOff, Serial
<1>10. ASSUME NEW m \in Messages, RetryDue(m) PROVE Serial'
  BY <1>10, <1>a DEF RetryDue, BeginRun, Serial
<1>11. ASSUME NEW m \in Messages, RetryPrompt(m) PROVE Serial'
  BY <1>11, <1>a DEF RetryPrompt, Serial
<1>12. ASSUME NEW d \in Drivers, DrivePaused(d) PROVE Serial'
  BY <1>12, <1>a DEF DrivePaused, Settle, DrainThen, Serial
<1>13. ASSUME NEW d \in Drivers, DriveResolved(d) PROVE Serial'
  BY <1>13, <1>a DEF DriveResolved, Settle, DrainThen, Serial
<1>14. ASSUME NEW d \in Drivers, DriveRejected(d) PROVE Serial'
  BY <1>14, <1>a DEF DriveRejected, Serial
<1>15. ASSUME NEW d \in Drivers, EndSaved(d) PROVE Serial'
  BY <1>15, <1>a DEF EndSaved, Settle, DrainThen, Serial
<1>16. ASSUME NEW c \in Calls, ResumeTurn(c) PROVE Serial'
  BY <1>16, <1>a DEF ResumeTurn, Serial
<1>17. ASSUME NEW i \in Interrupts, Aborted(i) PROVE Serial'
  BY <1>17, <1>a DEF Aborted, Settle, DrainThen, Serial
<1>18. ASSUME NEW a \in Activations, SettleIdle(a) PROVE Serial'
  BY <1>18, <1>a DEF SettleIdle, Serial
<1>19. ASSUME NEW a \in Activations, SettleTerminated(a) PROVE Serial'
  BY <1>19, <1>a DEF SettleTerminated, Serial
<1>20. ASSUME NEW a \in Activations, FinalSaved(a) PROVE Serial'
  BY <1>20, <1>a DEF FinalSaved, Serial
<1>21. ASSUME NEW a \in Activations, AnnounceIdle(a) PROVE Serial'
  BY <1>21, <1>a DEF AnnounceIdle, Serial
<1>22. ASSUME NEW a \in Activations, Stored(a) PROVE Serial'
  BY <1>22, <1>a DEF Stored, Serial
<1>23. ASSUME NEW a \in Activations, StoreFails(a) PROVE Serial'
  BY <1>23, <1>a DEF StoreFails, Serial
<1>24. ASSUME NEW u \in Usage, RecordUsage(u) PROVE Serial'
  BY <1>24, <1>a DEF RecordUsage, Serial
<1>25. ASSUME NEW u \in Usage, EnforceBudget(u) PROVE Serial'
  BY <1>25, <1>a DEF EnforceBudget, Serial
<1>26. ASSUME NEW u \in Usage, ReportUsage(u) PROVE Serial'
  BY <1>26, <1>a DEF ReportUsage, Serial
<1>27. ASSUME NEW m \in Messages, PromptSettles(m) PROVE Serial'
  BY <1>27, <1>a DEF PromptSettles, Serial
<1>28. ASSUME NEW m \in Messages, NEW c \in Calls, CoordinatorBlocks(m, c) PROVE Serial'
  BY <1>28, <1>a, <1>b DEF CoordinatorBlocks, ReleaseDrive, Serial
<1>29. ASSUME NEW m \in Messages, NEW c \in Calls, QueueToolCall(m, c) PROVE Serial'
  BY <1>29, <1>a DEF QueueToolCall, Serial
<1>30. ASSUME NEW c \in Calls, AwaitToolResult(c) PROVE Serial'
  BY <1>30, <1>a, <1>b DEF AwaitToolResult, ReleaseDrive, Serial
<1>31. ASSUME NEW c \in Calls, BufferResult(c) PROVE Serial'
  BY <1>31, <1>a DEF BufferResult, Serial
<1>32. ASSUME NEW c \in Calls, AnswerCall(c) PROVE Serial'
  <2>1. PcsAfterReport(c) = pc BY <1>32, AnswerReleasesNothing
  <2>2. \A e \in Activations : e # c => pc'[e] = pc[e]
    BY <1>32, <1>a, <2>1 DEF AnswerCall
  <2>3. \A e \in Activations : pc[e] \in Ended BY <1>32 DEF AnswerCall
  <2> QED BY <2>2, <2>3 DEF Serial
<1>33. ASSUME NEW i \in Interrupts, Interrupt(i) PROVE Serial'
  BY <1>33, <1>a DEF Interrupt, Serial
<1>34. CASE TimerFires
  BY <1>34, <1>a DEF TimerFires, Serial
<1>35. CASE CheckpointEnds
  BY <1>35, <1>a DEF CheckpointEnds, Serial
<1> QED
  BY <1>1, <1>2, <1>3, <1>4, <1>5, <1>6, <1>7, <1>8, <1>9, <1>10, <1>11, <1>12, <1>13,
     <1>14, <1>15, <1>16, <1>17, <1>18, <1>19, <1>20, <1>21, <1>22, <1>23, <1>24, <1>25,
     <1>26, <1>27, <1>28, <1>29, <1>30, <1>31, <1>32, <1>33, <1>34, <1>35
  DEF Next, Microtask, HandlerStep, AgentStep, ClientStep, MessageStep, SettleStep,
      UsageStep

LEMMA SlotStep ==
  ASSUME Overlap \subseteq {"fastBlock"}, TypeOK, Waits, Serial, SlotOwned, Releasable, Next
  PROVE  SlotOwned' /\ Releasable'
<1> USE OnlyOne, ArrivesQuiet, DriversAct DEF At, Ended
<1>a. pc \in [Activations -> Pcs] BY DEF TypeOK
<1>b. \/ waiter = NoOne
      \/ waiter \in Drivers /\ pc[waiter] \in {"driving", "resolved", "transient", "fatal"}
  <2>1. waiter \in Drivers \cup {NoOne} BY DEF TypeOK
  <2> QED BY <2>1 DEF Waits
<1>c. \A i \in Interrupts : i \notin Drivers BY RuntimeAssumption DEF Drivers
<1>1. ASSUME NEW m \in Messages, PostMessage(m) PROVE SlotOwned' /\ Releasable'
  BY <1>1, <1>a DEF PostMessage, SlotOwned, Releasable, OwnsSlot, Holding, turn
<1>2. ASSUME NEW m \in Messages, SettleStop(m) PROVE SlotOwned' /\ Releasable'
  BY <1>2, <1>a DEF SettleStop, SlotOwned, Releasable, OwnsSlot, Holding, turn
<1>3. ASSUME NEW m \in Messages, SandboxIsUp(m) PROVE SlotOwned' /\ Releasable'
  BY <1>3, <1>a DEF SandboxIsUp, BeginRun, SlotOwned, Releasable, OwnsSlot, Holding, turn
<1>4. ASSUME NEW m \in Messages, SandboxIsStopped(m) PROVE SlotOwned' /\ Releasable'
  BY <1>4, <1>a DEF SandboxIsStopped, SlotOwned, Releasable, OwnsSlot, Holding, turn
<1>5. ASSUME NEW m \in Messages, SandboxStarted(m) PROVE SlotOwned' /\ Releasable'
  BY <1>5, <1>a
  DEF SandboxStarted, BeginRun, SlotOwned, Releasable, OwnsSlot, Holding, turn
<1>6. ASSUME NEW m \in Messages, SandboxStartFails(m) PROVE SlotOwned' /\ Releasable'
  BY <1>6, <1>a DEF SandboxStartFails, SlotOwned, Releasable, OwnsSlot, Holding, turn
<1>7. ASSUME NEW m \in Messages, StartTurn(m) PROVE SlotOwned' /\ Releasable'
  BY <1>7, <1>a DEF StartTurn, TakeSlot, SlotOwned, Releasable, OwnsSlot, Holding, turn
<1>8. ASSUME NEW m \in Messages, DecideReason(m) PROVE SlotOwned' /\ Releasable'
  BY <1>8, <1>a
  DEF DecideReason, Settle, DrainThen, SlotOwned, Releasable, OwnsSlot, Holding, turn
<1>9. ASSUME NEW m \in Messages, BackOff(m) PROVE SlotOwned' /\ Releasable'
  BY <1>9, <1>a DEF BackOff, SlotOwned, Releasable, OwnsSlot, Holding, turn
<1>10. ASSUME NEW m \in Messages, RetryDue(m) PROVE SlotOwned' /\ Releasable'
  BY <1>10, <1>a DEF RetryDue, BeginRun, SlotOwned, Releasable, OwnsSlot, Holding, turn
<1>11. ASSUME NEW m \in Messages, RetryPrompt(m) PROVE SlotOwned' /\ Releasable'
  BY <1>11, <1>a DEF RetryPrompt, SlotOwned, Releasable, OwnsSlot, Holding, turn
<1>12. ASSUME NEW d \in Drivers, DrivePaused(d) PROVE SlotOwned' /\ Releasable'
  BY <1>12, <1>a
  DEF DrivePaused, Settle, DrainThen, SlotOwned, Releasable, OwnsSlot, Holding, turn
<1>13. ASSUME NEW d \in Drivers, DriveResolved(d) PROVE SlotOwned' /\ Releasable'
  BY <1>13, <1>a
  DEF DriveResolved, Settle, DrainThen, SlotOwned, Releasable, OwnsSlot, Holding, turn
<1>14. ASSUME NEW d \in Drivers, DriveRejected(d) PROVE SlotOwned' /\ Releasable'
  BY <1>14, <1>a DEF DriveRejected, SlotOwned, Releasable, OwnsSlot, Holding, turn
<1>15. ASSUME NEW d \in Drivers, EndSaved(d) PROVE SlotOwned' /\ Releasable'
  BY <1>15, <1>a
  DEF EndSaved, Settle, DrainThen, SlotOwned, Releasable, OwnsSlot, Holding, turn
<1>16. ASSUME NEW c \in Calls, ResumeTurn(c) PROVE SlotOwned' /\ Releasable'
  BY <1>16, <1>a DEF ResumeTurn, TakeSlot, SlotOwned, Releasable, OwnsSlot, Holding, turn
<1>17. ASSUME NEW i \in Interrupts, Aborted(i) PROVE SlotOwned' /\ Releasable'
  BY <1>17, <1>a, <1>c
  DEF Aborted, Settle, DrainThen, SlotOwned, Releasable, OwnsSlot, Holding, turn
<1>18. ASSUME NEW a \in Activations, SettleIdle(a) PROVE SlotOwned' /\ Releasable'
  BY <1>18, <1>a DEF SettleIdle, SlotOwned, Releasable, OwnsSlot, Holding, turn
<1>19. ASSUME NEW a \in Activations, SettleTerminated(a) PROVE SlotOwned' /\ Releasable'
  BY <1>19, <1>a DEF SettleTerminated, SlotOwned, Releasable, OwnsSlot, Holding, turn
<1>20. ASSUME NEW a \in Activations, FinalSaved(a) PROVE SlotOwned' /\ Releasable'
  BY <1>20, <1>a DEF FinalSaved, SlotOwned, Releasable, OwnsSlot, Holding, turn
<1>21. ASSUME NEW a \in Activations, AnnounceIdle(a) PROVE SlotOwned' /\ Releasable'
  BY <1>21, <1>a DEF AnnounceIdle, SlotOwned, Releasable, OwnsSlot, Holding, turn
<1>22. ASSUME NEW a \in Activations, Stored(a) PROVE SlotOwned' /\ Releasable'
  BY <1>22, <1>a DEF Stored, SlotOwned, Releasable, OwnsSlot, Holding, turn
<1>23. ASSUME NEW a \in Activations, StoreFails(a) PROVE SlotOwned' /\ Releasable'
  BY <1>23, <1>a DEF StoreFails, SlotOwned, Releasable, OwnsSlot, Holding, turn
<1>24. ASSUME NEW u \in Usage, RecordUsage(u) PROVE SlotOwned' /\ Releasable'
  BY <1>24, <1>a DEF RecordUsage, SlotOwned, Releasable, OwnsSlot, Holding, turn
<1>25. ASSUME NEW u \in Usage, EnforceBudget(u) PROVE SlotOwned' /\ Releasable'
  BY <1>25, <1>a DEF EnforceBudget, SlotOwned, Releasable, OwnsSlot, Holding, turn
<1>26. ASSUME NEW u \in Usage, ReportUsage(u) PROVE SlotOwned' /\ Releasable'
  BY <1>26, <1>a DEF ReportUsage, SlotOwned, Releasable, OwnsSlot, Holding, turn
<1>27. ASSUME NEW m \in Messages, PromptSettles(m) PROVE SlotOwned' /\ Releasable'
  BY <1>27, <1>a DEF PromptSettles, SlotOwned, Releasable, OwnsSlot, Holding, turn
<1>28. ASSUME NEW m \in Messages, NEW c \in Calls, CoordinatorBlocks(m, c)
      PROVE  SlotOwned' /\ Releasable'
  BY <1>28, <1>a, <1>b
  DEF CoordinatorBlocks, ReleaseDrive, MayBlock, SlotOwned, Releasable, OwnsSlot,
      Holding, turn
<1>29. ASSUME NEW m \in Messages, NEW c \in Calls, QueueToolCall(m, c)
      PROVE  SlotOwned' /\ Releasable'
  BY <1>29, <1>a DEF QueueToolCall, SlotOwned, Releasable, OwnsSlot, Holding, turn
<1>30. ASSUME NEW c \in Calls, AwaitToolResult(c) PROVE SlotOwned' /\ Releasable'
  BY <1>30, <1>a, <1>b
  DEF AwaitToolResult, ReleaseDrive, MayBlock, SlotOwned, Releasable, OwnsSlot, Holding,
      turn
<1>31. ASSUME NEW c \in Calls, BufferResult(c) PROVE SlotOwned' /\ Releasable'
  BY <1>31, <1>a DEF BufferResult, SlotOwned, Releasable, OwnsSlot, Holding, turn
<1>32. ASSUME NEW c \in Calls, AnswerCall(c) PROVE SlotOwned' /\ Releasable'
  <2>1. PcsAfterReport(c) = pc /\ waiter = NoOne BY <1>32, AnswerReleasesNothing
  <2>2. \A e \in Activations : e # c => pc'[e] = pc[e]
    BY <1>32, <1>a, <2>1 DEF AnswerCall
  <2>3. \A e \in Activations : pc[e] \in Ended BY <1>32 DEF AnswerCall
  <2>4. pc'[c] \in {"done", "savingAdvert", "failed", "savingResume"}
    BY <1>32, <1>a, <2>1 DEF AnswerCall
  <2> QED BY <2>2, <2>3, <2>4 DEF SlotOwned, Releasable, OwnsSlot, Holding
<1>33. ASSUME NEW i \in Interrupts, Interrupt(i) PROVE SlotOwned' /\ Releasable'
  BY <1>33, <1>a DEF Interrupt, SlotOwned, Releasable, OwnsSlot, Holding, turn
<1>34. CASE TimerFires
  BY <1>34, <1>a DEF TimerFires, SlotOwned, Releasable, OwnsSlot, Holding, turn
<1>35. CASE CheckpointEnds
  BY <1>35, <1>a DEF CheckpointEnds, SlotOwned, Releasable, OwnsSlot, Holding, turn
<1> QED
  BY <1>1, <1>2, <1>3, <1>4, <1>5, <1>6, <1>7, <1>8, <1>9, <1>10, <1>11, <1>12, <1>13,
     <1>14, <1>15, <1>16, <1>17, <1>18, <1>19, <1>20, <1>21, <1>22, <1>23, <1>24, <1>25,
     <1>26, <1>27, <1>28, <1>29, <1>30, <1>31, <1>32, <1>33, <1>34, <1>35
  DEF Next, Microtask, HandlerStep, AgentStep, ClientStep, MessageStep, SettleStep,
      UsageStep

\* A call that blocks does so in the prompt in flight: none but the drive it releases is
\* at work in a turn.
LEMMA BlocksRelease ==
  ASSUME TypeOK, Waits, Releasable, OneInFlight, WaitingCalls, NEW c \in Calls,
         \/ \E m \in Messages : CoordinatorBlocks(m, c)
         \/ AwaitToolResult(c) /\ call[c] = "queued"
  PROVE  \A d \in Drivers : pc'[d] \notin {"driving"} \cup BetweenPrompts
<1>a. pc \in [Activations -> Pcs] BY DEF TypeOK
<1>1. \E p \in Messages : prompt[p] = "inflight"
  BY DEF CoordinatorBlocks, MayBlock, WaitingCalls
<1>2. \A d \in Drivers : pc[d] \notin BetweenPrompts BY <1>1 DEF OneInFlight
<1>3. pc' = ReleaseDrive(pc)
  BY DEF CoordinatorBlocks, AwaitToolResult
<1>4. waiter \in Drivers \cup {NoOne} BY DEF TypeOK
<1>5. NoOne \notin Drivers BY RuntimeAssumption DEF Drivers, Activations
<1>6. CASE waiter = NoOne
  BY <1>2, <1>3, <1>5, <1>6 DEF ReleaseDrive, Releasable
<1>7. CASE waiter # NoOne
  BY <1>a, <1>2, <1>3, <1>4, <1>7, DriversAct DEF ReleaseDrive, Releasable, BetweenPrompts
<1> QED BY <1>6, <1>7

LEMMA UnmarkedStep ==
  ASSUME Overlap \subseteq {"fastBlock"}, TypeOK, Waits, Serial, Releasable, Unmarked, OneInFlight,
         WaitingCalls, Next
  PROVE  Unmarked'
<1> USE OnlyOne, ArrivesQuiet, DriversAct DEF At, Ended
<1>a. pc \in [Activations -> Pcs] /\ flags \in [Drivers -> TurnFlags] BY DEF TypeOK
<1>c. \A i \in Interrupts : i \notin Drivers BY RuntimeAssumption DEF Drivers
<1>1. ASSUME NEW m \in Messages, PostMessage(m) PROVE Unmarked'
  BY <1>1, <1>a DEF PostMessage, Unmarked, turn
<1>2. ASSUME NEW m \in Messages, SettleStop(m) PROVE Unmarked'
  BY <1>2, <1>a DEF SettleStop, Unmarked, turn
<1>3. ASSUME NEW m \in Messages, SandboxIsUp(m) PROVE Unmarked'
  BY <1>3, <1>a DEF SandboxIsUp, BeginRun, Unmarked, turn
<1>4. ASSUME NEW m \in Messages, SandboxIsStopped(m) PROVE Unmarked'
  BY <1>4, <1>a DEF SandboxIsStopped, Unmarked, turn
<1>5. ASSUME NEW m \in Messages, SandboxStarted(m) PROVE Unmarked'
  BY <1>5, <1>a DEF SandboxStarted, BeginRun, Unmarked, turn
<1>6. ASSUME NEW m \in Messages, SandboxStartFails(m) PROVE Unmarked'
  BY <1>6, <1>a DEF SandboxStartFails, Unmarked, turn
<1>7. ASSUME NEW m \in Messages, StartTurn(m) PROVE Unmarked'
  BY <1>7, <1>a DEF StartTurn, TakeSlot, NoFlags, Unmarked, turn
<1>8. ASSUME NEW m \in Messages, DecideReason(m) PROVE Unmarked'
  BY <1>8, <1>a DEF DecideReason, Settle, DrainThen, Unmarked, turn
<1>9. ASSUME NEW m \in Messages, BackOff(m) PROVE Unmarked'
  BY <1>9, <1>a DEF BackOff, Unmarked, turn
<1>10. ASSUME NEW m \in Messages, RetryDue(m) PROVE Unmarked'
  BY <1>10, <1>a DEF RetryDue, BeginRun, Unmarked, turn
<1>11. ASSUME NEW m \in Messages, RetryPrompt(m) PROVE Unmarked'
  BY <1>11, <1>a DEF RetryPrompt, Unmarked, turn
<1>12. ASSUME NEW d \in Drivers, DrivePaused(d) PROVE Unmarked'
  BY <1>12, <1>a DEF DrivePaused, Settle, DrainThen, Unmarked, turn
<1>13. ASSUME NEW d \in Drivers, DriveResolved(d) PROVE Unmarked'
  BY <1>13, <1>a DEF DriveResolved, Settle, DrainThen, Unmarked, turn
<1>14. ASSUME NEW d \in Drivers, DriveRejected(d) PROVE Unmarked'
  BY <1>14, <1>a DEF DriveRejected, Unmarked, turn
<1>15. ASSUME NEW d \in Drivers, EndSaved(d) PROVE Unmarked'
  BY <1>15, <1>a DEF EndSaved, Settle, DrainThen, Unmarked, turn
<1>16. ASSUME NEW c \in Calls, ResumeTurn(c) PROVE Unmarked'
  BY <1>16, <1>a DEF ResumeTurn, TakeSlot, NoFlags, Unmarked, turn
<1>17. ASSUME NEW i \in Interrupts, Aborted(i) PROVE Unmarked'
  BY <1>17, <1>a, <1>c DEF Aborted, Settle, DrainThen, Unmarked, turn
<1>18. ASSUME NEW a \in Activations, SettleIdle(a) PROVE Unmarked'
  BY <1>18, <1>a DEF SettleIdle, Unmarked, turn
<1>19. ASSUME NEW a \in Activations, SettleTerminated(a) PROVE Unmarked'
  BY <1>19, <1>a DEF SettleTerminated, Unmarked, turn
<1>20. ASSUME NEW a \in Activations, FinalSaved(a) PROVE Unmarked'
  BY <1>20, <1>a DEF FinalSaved, Unmarked, turn
<1>21. ASSUME NEW a \in Activations, AnnounceIdle(a) PROVE Unmarked'
  BY <1>21, <1>a DEF AnnounceIdle, Unmarked, turn
<1>22. ASSUME NEW a \in Activations, Stored(a) PROVE Unmarked'
  BY <1>22, <1>a DEF Stored, Unmarked, turn
<1>23. ASSUME NEW a \in Activations, StoreFails(a) PROVE Unmarked'
  BY <1>23, <1>a DEF StoreFails, Unmarked, turn
<1>24. ASSUME NEW u \in Usage, RecordUsage(u) PROVE Unmarked'
  BY <1>24, <1>a DEF RecordUsage, Unmarked, turn
<1>25. ASSUME NEW u \in Usage, EnforceBudget(u) PROVE Unmarked'
  BY <1>25, <1>a DEF EnforceBudget, TurnFlags, Unmarked, turn
<1>26. ASSUME NEW u \in Usage, ReportUsage(u) PROVE Unmarked'
  BY <1>26, <1>a DEF ReportUsage, Unmarked, turn
<1>27. ASSUME NEW m \in Messages, PromptSettles(m) PROVE Unmarked'
  BY <1>27, <1>a DEF PromptSettles, Unmarked, turn
<1>28. ASSUME NEW m \in Messages, NEW c \in Calls, CoordinatorBlocks(m, c) PROVE Unmarked'
  BY <1>28, BlocksRelease DEF Unmarked, BetweenPrompts
<1>29. ASSUME NEW m \in Messages, NEW c \in Calls, QueueToolCall(m, c) PROVE Unmarked'
  BY <1>29, <1>a DEF QueueToolCall, Unmarked, turn
<1>30. ASSUME NEW c \in Calls, AwaitToolResult(c) PROVE Unmarked'
  <2>1. CASE call[c] = "queued" BY <1>30, <2>1, BlocksRelease DEF Unmarked, BetweenPrompts
  <2>2. CASE call[c] # "queued" BY <1>30, <2>2 DEF AwaitToolResult, Unmarked
  <2> QED BY <2>1, <2>2
<1>31. ASSUME NEW c \in Calls, BufferResult(c) PROVE Unmarked'
  BY <1>31, <1>a DEF BufferResult, Unmarked, turn
<1>32. ASSUME NEW c \in Calls, AnswerCall(c) PROVE Unmarked'
  <2>1. PcsAfterReport(c) = pc /\ waiter = NoOne BY <1>32, AnswerReleasesNothing
  <2>2. \A e \in Activations : e # c => pc'[e] = pc[e]
    BY <1>32, <1>a, <2>1 DEF AnswerCall
  <2>3. \A e \in Activations : pc[e] \in Ended BY <1>32 DEF AnswerCall
  <2>4. pc'[c] \in {"done", "savingAdvert", "failed", "savingResume"}
    BY <1>32, <1>a, <2>1 DEF AnswerCall
  <2> QED BY <2>2, <2>3, <2>4 DEF Unmarked
<1>33. ASSUME NEW i \in Interrupts, Interrupt(i) PROVE Unmarked'
  BY <1>33, <1>a DEF Interrupt, Unmarked, turn
<1>34. CASE TimerFires
  BY <1>34, <1>a DEF TimerFires, Unmarked, turn
<1>35. CASE CheckpointEnds
  BY <1>35, <1>a DEF CheckpointEnds, Unmarked, turn
<1> QED
  BY <1>1, <1>2, <1>3, <1>4, <1>5, <1>6, <1>7, <1>8, <1>9, <1>10, <1>11, <1>12, <1>13,
     <1>14, <1>15, <1>16, <1>17, <1>18, <1>19, <1>20, <1>21, <1>22, <1>23, <1>24, <1>25,
     <1>26, <1>27, <1>28, <1>29, <1>30, <1>31, <1>32, <1>33, <1>34, <1>35
  DEF Next, Microtask, HandlerStep, AgentStep, ClientStep, MessageStep, SettleStep,
      UsageStep

LEMMA OwnPromptStep ==
  ASSUME Overlap \subseteq {"fastBlock"}, TypeOK, Waits, Serial, OwnPrompt, Next
  PROVE  OwnPrompt'
<1> USE OnlyOne, ArrivesQuiet, DriversAct DEF At, Ended
<1>a. pc \in [Activations -> Pcs] /\ act \in [Activations -> Locals] BY DEF TypeOK
<1>c. \A i \in Interrupts : i \notin Drivers BY RuntimeAssumption DEF Drivers
<1>d. \A m \in Messages : m \notin Calls BY RuntimeAssumption
<1>1. ASSUME NEW m \in Messages, PostMessage(m) PROVE OwnPrompt'
  BY <1>1, <1>a, <1>d DEF PostMessage, OwnPrompt, Holds, Holding, Locals
<1>2. ASSUME NEW m \in Messages, SettleStop(m) PROVE OwnPrompt'
  BY <1>2, <1>a, <1>d DEF SettleStop, OwnPrompt, Holds, Holding, Locals
<1>3. ASSUME NEW m \in Messages, SandboxIsUp(m) PROVE OwnPrompt'
  BY <1>3, <1>a, <1>d DEF SandboxIsUp, BeginRun, OwnPrompt, Holds, Holding, Locals
<1>4. ASSUME NEW m \in Messages, SandboxIsStopped(m) PROVE OwnPrompt'
  BY <1>4, <1>a, <1>d DEF SandboxIsStopped, OwnPrompt, Holds, Holding, Locals
<1>5. ASSUME NEW m \in Messages, SandboxStarted(m) PROVE OwnPrompt'
  BY <1>5, <1>a, <1>d DEF SandboxStarted, BeginRun, OwnPrompt, Holds, Holding, Locals
<1>6. ASSUME NEW m \in Messages, SandboxStartFails(m) PROVE OwnPrompt'
  BY <1>6, <1>a, <1>d DEF SandboxStartFails, OwnPrompt, Holds, Holding, Locals
<1>7. ASSUME NEW m \in Messages, StartTurn(m) PROVE OwnPrompt'
  BY <1>7, <1>a, <1>d DEF StartTurn, OwnPrompt, Holds, Holding, Locals
<1>8. ASSUME NEW m \in Messages, DecideReason(m) PROVE OwnPrompt'
  BY <1>8, <1>a, <1>d
  DEF DecideReason, Settle, DrainThen, OwnPrompt, Holds, Holding, Locals
<1>9. ASSUME NEW m \in Messages, BackOff(m) PROVE OwnPrompt'
  BY <1>9, <1>a, <1>d DEF BackOff, OwnPrompt, Holds, Holding, Locals
<1>10. ASSUME NEW m \in Messages, RetryDue(m) PROVE OwnPrompt'
  BY <1>10, <1>a, <1>d DEF RetryDue, BeginRun, OwnPrompt, Holds, Holding, Locals
<1>11. ASSUME NEW m \in Messages, RetryPrompt(m) PROVE OwnPrompt'
  BY <1>11, <1>a, <1>d DEF RetryPrompt, OwnPrompt, Holds, Holding, Locals
<1>12. ASSUME NEW d \in Drivers, DrivePaused(d) PROVE OwnPrompt'
  BY <1>12, <1>a, <1>d
  DEF DrivePaused, Settle, DrainThen, OwnPrompt, Holds, Holding, Locals
<1>13. ASSUME NEW d \in Drivers, DriveResolved(d) PROVE OwnPrompt'
  BY <1>13, <1>a, <1>d
  DEF DriveResolved, Settle, DrainThen, OwnPrompt, Holds, Holding, Locals
<1>14. ASSUME NEW d \in Drivers, DriveRejected(d) PROVE OwnPrompt'
  BY <1>14, <1>a, <1>d DEF DriveRejected, OwnPrompt, Holds, Holding, Locals
<1>15. ASSUME NEW d \in Drivers, EndSaved(d) PROVE OwnPrompt'
  BY <1>15, <1>a, <1>d DEF EndSaved, Settle, DrainThen, OwnPrompt, Holds, Holding, Locals
<1>16. ASSUME NEW c \in Calls, ResumeTurn(c) PROVE OwnPrompt'
  BY <1>16, <1>a, <1>d DEF ResumeTurn, OwnPrompt, Holds, Holding, Locals
<1>17. ASSUME NEW i \in Interrupts, Aborted(i) PROVE OwnPrompt'
  BY <1>17, <1>c, <1>a, <1>d
  DEF Aborted, Settle, DrainThen, OwnPrompt, Holds, Holding, Locals
<1>18. ASSUME NEW a \in Activations, SettleIdle(a) PROVE OwnPrompt'
  BY <1>18, <1>a, <1>d DEF SettleIdle, OwnPrompt, Holds, Holding, Locals
<1>19. ASSUME NEW a \in Activations, SettleTerminated(a) PROVE OwnPrompt'
  BY <1>19, <1>a, <1>d DEF SettleTerminated, OwnPrompt, Holds, Holding, Locals
<1>20. ASSUME NEW a \in Activations, FinalSaved(a) PROVE OwnPrompt'
  BY <1>20, <1>a, <1>d DEF FinalSaved, OwnPrompt, Holds, Holding, Locals
<1>21. ASSUME NEW a \in Activations, AnnounceIdle(a) PROVE OwnPrompt'
  BY <1>21, <1>a, <1>d DEF AnnounceIdle, OwnPrompt, Holds, Holding, Locals
<1>22. ASSUME NEW a \in Activations, Stored(a) PROVE OwnPrompt'
  BY <1>22, <1>a, <1>d DEF Stored, OwnPrompt, Holds, Holding, Locals
<1>23. ASSUME NEW a \in Activations, StoreFails(a) PROVE OwnPrompt'
  BY <1>23, <1>a, <1>d DEF StoreFails, OwnPrompt, Holds, Holding, Locals
<1>24. ASSUME NEW u \in Usage, RecordUsage(u) PROVE OwnPrompt'
  BY <1>24, <1>a, <1>d DEF RecordUsage, OwnPrompt, Holds, Holding, Locals
<1>25. ASSUME NEW u \in Usage, EnforceBudget(u) PROVE OwnPrompt'
  BY <1>25, <1>a, <1>d DEF EnforceBudget, OwnPrompt, Holds, Holding, Locals
<1>26. ASSUME NEW u \in Usage, ReportUsage(u) PROVE OwnPrompt'
  BY <1>26, <1>a, <1>d DEF ReportUsage, OwnPrompt, Holds, Holding, Locals
<1>27. ASSUME NEW m \in Messages, PromptSettles(m) PROVE OwnPrompt'
  BY <1>27, <1>a, <1>d DEF PromptSettles, OwnPrompt, Holds, Holding, Locals
<1>28. ASSUME NEW m \in Messages, NEW c \in Calls, CoordinatorBlocks(m, c) PROVE OwnPrompt'
  BY <1>28, <1>a, <1>d
  DEF CoordinatorBlocks, ReleaseDrive, Waits, OwnPrompt, Holds, Holding, Locals
<1>29. ASSUME NEW m \in Messages, NEW c \in Calls, QueueToolCall(m, c) PROVE OwnPrompt'
  BY <1>29, <1>a, <1>d DEF QueueToolCall, OwnPrompt, Holds, Holding, Locals
<1>30. ASSUME NEW c \in Calls, AwaitToolResult(c) PROVE OwnPrompt'
  BY <1>30, <1>a, <1>d
  DEF AwaitToolResult, ReleaseDrive, Waits, OwnPrompt, Holds, Holding, Locals
<1>31. ASSUME NEW c \in Calls, BufferResult(c) PROVE OwnPrompt'
  BY <1>31, <1>a, <1>d DEF BufferResult, OwnPrompt, Holds, Holding, Locals
<1>32. ASSUME NEW c \in Calls, AnswerCall(c) PROVE OwnPrompt'
  <2>1. PcsAfterReport(c) = pc BY <1>32, AnswerReleasesNothing
  <2>2. \A e \in Activations : e # c => pc'[e] = pc[e]
    BY <1>32, <1>a, <2>1 DEF AnswerCall
  <2>3. \A e \in Activations : pc[e] \in Ended BY <1>32 DEF AnswerCall
  <2> QED BY <1>d, <2>2, <2>3 DEF OwnPrompt, Holds, Holding
<1>33. ASSUME NEW i \in Interrupts, Interrupt(i) PROVE OwnPrompt'
  BY <1>33, <1>a, <1>d DEF Interrupt, OwnPrompt, Holds, Holding, Locals
<1>34. CASE TimerFires
  BY <1>34, <1>a, <1>d DEF TimerFires, OwnPrompt, Holds, Holding, Locals
<1>35. CASE CheckpointEnds
  BY <1>35, <1>a, <1>d DEF CheckpointEnds, OwnPrompt, Holds, Holding, Locals
<1> QED
  BY <1>1, <1>2, <1>3, <1>4, <1>5, <1>6, <1>7, <1>8, <1>9, <1>10, <1>11, <1>12, <1>13,
     <1>14, <1>15, <1>16, <1>17, <1>18, <1>19, <1>20, <1>21, <1>22, <1>23, <1>24, <1>25,
     <1>26, <1>27, <1>28, <1>29, <1>30, <1>31, <1>32, <1>33, <1>34, <1>35
  DEF Next, Microtask, HandlerStep, AgentStep, ClientStep, MessageStep, SettleStep,
      UsageStep

LEMMA WaitingCallsStep ==
  ASSUME TypeOK, WaitingCalls, Next
  PROVE  WaitingCalls'
<1> USE DEF WaitingCalls, At, turn, agent
<1>a. /\ call \in [Calls -> {"none", "queued", "buffered", "blocked", "answered"}]
      /\ callOf \in [Calls -> Messages \cup {NoOne}]
      /\ prompt \in [Messages -> PromptStates]
  BY DEF TypeOK
<1>1. ASSUME NEW m \in Messages, PostMessage(m) PROVE WaitingCalls'
  BY <1>1, <1>a DEF PostMessage
<1>2. ASSUME NEW m \in Messages, SettleStop(m) PROVE WaitingCalls'
  BY <1>2, <1>a DEF SettleStop
<1>3. ASSUME NEW m \in Messages, SandboxIsUp(m) PROVE WaitingCalls'
  BY <1>3, <1>a DEF SandboxIsUp
<1>4. ASSUME NEW m \in Messages, SandboxIsStopped(m) PROVE WaitingCalls'
  BY <1>4, <1>a DEF SandboxIsStopped
<1>5. ASSUME NEW m \in Messages, SandboxStarted(m) PROVE WaitingCalls'
  BY <1>5, <1>a DEF SandboxStarted
<1>6. ASSUME NEW m \in Messages, SandboxStartFails(m) PROVE WaitingCalls'
  BY <1>6, <1>a DEF SandboxStartFails
<1>7. ASSUME NEW m \in Messages, StartTurn(m) PROVE WaitingCalls'
  BY <1>7, <1>a DEF StartTurn
<1>8. ASSUME NEW m \in Messages, DecideReason(m) PROVE WaitingCalls'
  BY <1>8, <1>a DEF DecideReason
<1>9. ASSUME NEW m \in Messages, BackOff(m) PROVE WaitingCalls'
  BY <1>9, <1>a DEF BackOff
<1>10. ASSUME NEW m \in Messages, RetryDue(m) PROVE WaitingCalls'
  BY <1>10, <1>a DEF RetryDue
<1>11. ASSUME NEW m \in Messages, RetryPrompt(m) PROVE WaitingCalls'
  BY <1>11, <1>a DEF RetryPrompt
<1>12. ASSUME NEW d \in Drivers, DrivePaused(d) PROVE WaitingCalls'
  BY <1>12, <1>a DEF DrivePaused
<1>13. ASSUME NEW d \in Drivers, DriveResolved(d) PROVE WaitingCalls'
  BY <1>13, <1>a DEF DriveResolved
<1>14. ASSUME NEW d \in Drivers, DriveRejected(d) PROVE WaitingCalls'
  BY <1>14, <1>a DEF DriveRejected
<1>15. ASSUME NEW d \in Drivers, EndSaved(d) PROVE WaitingCalls'
  BY <1>15, <1>a DEF EndSaved
<1>16. ASSUME NEW c \in Calls, ResumeTurn(c) PROVE WaitingCalls'
  BY <1>16, <1>a DEF ResumeTurn
<1>17. ASSUME NEW i \in Interrupts, Aborted(i) PROVE WaitingCalls'
  BY <1>17, <1>a DEF Aborted
<1>18. ASSUME NEW a \in Activations, SettleIdle(a) PROVE WaitingCalls'
  BY <1>18, <1>a DEF SettleIdle
<1>19. ASSUME NEW a \in Activations, SettleTerminated(a) PROVE WaitingCalls'
  BY <1>19, <1>a DEF SettleTerminated
<1>20. ASSUME NEW a \in Activations, FinalSaved(a) PROVE WaitingCalls'
  BY <1>20, <1>a DEF FinalSaved
<1>21. ASSUME NEW a \in Activations, AnnounceIdle(a) PROVE WaitingCalls'
  BY <1>21, <1>a DEF AnnounceIdle
<1>22. ASSUME NEW a \in Activations, Stored(a) PROVE WaitingCalls'
  BY <1>22, <1>a DEF Stored
<1>23. ASSUME NEW a \in Activations, StoreFails(a) PROVE WaitingCalls'
  BY <1>23, <1>a DEF StoreFails
<1>24. ASSUME NEW u \in Usage, RecordUsage(u) PROVE WaitingCalls'
  BY <1>24, <1>a DEF RecordUsage
<1>25. ASSUME NEW u \in Usage, EnforceBudget(u) PROVE WaitingCalls'
  BY <1>25, <1>a DEF EnforceBudget
<1>26. ASSUME NEW u \in Usage, ReportUsage(u) PROVE WaitingCalls'
  BY <1>26, <1>a DEF ReportUsage
<1>27. ASSUME NEW m \in Messages, PromptSettles(m) PROVE WaitingCalls'
  BY <1>27, <1>a DEF PromptSettles
<1>28. ASSUME NEW m \in Messages, NEW c \in Calls, CoordinatorBlocks(m, c)
      PROVE  WaitingCalls'
  BY <1>28, <1>a DEF CoordinatorBlocks, MayBlock
<1>29. ASSUME NEW m \in Messages, NEW c \in Calls, QueueToolCall(m, c) PROVE WaitingCalls'
  BY <1>29, <1>a DEF QueueToolCall, MayBlock
<1>30. ASSUME NEW c \in Calls, AwaitToolResult(c) PROVE WaitingCalls'
  BY <1>30, <1>a DEF AwaitToolResult
<1>31. ASSUME NEW c \in Calls, BufferResult(c) PROVE WaitingCalls'
  BY <1>31, <1>a DEF BufferResult
<1>32. ASSUME NEW c \in Calls, AnswerCall(c) PROVE WaitingCalls'
  BY <1>32, <1>a DEF AnswerCall
<1>33. ASSUME NEW i \in Interrupts, Interrupt(i) PROVE WaitingCalls'
  BY <1>33, <1>a DEF Interrupt
<1>34. CASE TimerFires
  BY <1>34, <1>a DEF TimerFires
<1>35. CASE CheckpointEnds
  BY <1>35, <1>a DEF CheckpointEnds
<1> QED
  BY <1>1, <1>2, <1>3, <1>4, <1>5, <1>6, <1>7, <1>8, <1>9, <1>10, <1>11, <1>12, <1>13,
     <1>14, <1>15, <1>16, <1>17, <1>18, <1>19, <1>20, <1>21, <1>22, <1>23, <1>24, <1>25,
     <1>26, <1>27, <1>28, <1>29, <1>30, <1>31, <1>32, <1>33, <1>34, <1>35
  DEF Next, Microtask, HandlerStep, AgentStep, ClientStep, MessageStep, SettleStep,
      UsageStep

LEMMA OneInFlightStep ==
  ASSUME Overlap \subseteq {"fastBlock"}, TypeOK, Custody, Serial, OneInFlight, OwnPrompt, OwnPrompt',
         WaitingCalls, ParkedWaits, Next
  PROVE  OneInFlight'
<1> USE OnlyOne, ArrivesQuiet, DriversAct DEF At, Ended
<1>a. pc \in [Activations -> Pcs] /\ act \in [Activations -> Locals] BY DEF TypeOK
<1>c. \A i \in Interrupts : i \notin Drivers BY RuntimeAssumption DEF Drivers
<1>d. \A m \in Messages : m \notin Calls BY RuntimeAssumption
<1>e. prompt \in [Messages -> PromptStates] BY DEF TypeOK
<1>f. pendingPrompt \in Messages \cup {NoOne} BY DEF TypeOK
<1>g. pendingPrompt # NoOne => prompt[pendingPrompt] = "inflight"
  BY DEF ParkedWaits, WaitsFor, Blocked, WaitingCalls
<1>h. waiter \in Drivers \cup {NoOne} BY DEF TypeOK
<1>1. ASSUME NEW m \in Messages, PostMessage(m) PROVE OneInFlight'
  BY <1>1, <1>a, <1>d, <1>e
  DEF PostMessage, OneInFlight, BetweenPrompts, Holds, Holding, Locals, turn, agent
<1>2. ASSUME NEW m \in Messages, SettleStop(m) PROVE OneInFlight'
  BY <1>2, <1>a, <1>d, <1>e
  DEF SettleStop, OneInFlight, BetweenPrompts, Holds, Holding, Locals, turn, agent
<1>3. ASSUME NEW m \in Messages, SandboxIsUp(m) PROVE OneInFlight'
  BY <1>3, <1>a, <1>d, <1>e
  DEF SandboxIsUp, BeginRun, OneInFlight, BetweenPrompts, Holds, Holding, Locals, turn,
      agent
<1>4. ASSUME NEW m \in Messages, SandboxIsStopped(m) PROVE OneInFlight'
  BY <1>4, <1>a, <1>d, <1>e
  DEF SandboxIsStopped, OneInFlight, BetweenPrompts, Holds, Holding, Locals, turn, agent
<1>5. ASSUME NEW m \in Messages, SandboxStarted(m) PROVE OneInFlight'
  BY <1>5, <1>a, <1>d, <1>e
  DEF SandboxStarted, BeginRun, OneInFlight, BetweenPrompts, Holds, Holding, Locals,
      turn, agent
<1>6. ASSUME NEW m \in Messages, SandboxStartFails(m) PROVE OneInFlight'
  BY <1>6, <1>a, <1>d, <1>e
  DEF SandboxStartFails, OneInFlight, BetweenPrompts, Holds, Holding, Locals, turn,
      agent
<1>7. ASSUME NEW m \in Messages, StartTurn(m) PROVE OneInFlight'
  <2>1. pc[m] = "savingRun" /\ pendingPrompt' = pendingPrompt
        /\ prompt' = [prompt EXCEPT ![m] = "inflight"]
    BY <1>7 DEF StartTurn
  <2>2. \A p \in Messages : prompt[p] # "inflight"
    BY <2>1 DEF OneInFlight, BetweenPrompts
  <2>3. pendingPrompt = NoOne BY <1>f, <1>g, <2>2
  <2>4. \A p \in Messages : prompt'[p] = "inflight" => p = m BY <1>e, <2>1, <2>2
  <2>5. /\ \A e \in Activations : e # m => pc'[e] \in Ended
        /\ pc'[m] \in {"driving"}
    BY <1>7, <1>g, <1>a DEF StartTurn
  <2>6. act'[m].driven = m BY <2>5 DEF OwnPrompt, Holds, Holding
  <2> QED BY <2>1, <2>3, <2>4, <2>5, <2>6 DEF OneInFlight, Holds, Holding, BetweenPrompts
<1>8. ASSUME NEW m \in Messages, DecideReason(m) PROVE OneInFlight'
  BY <1>8, <1>a, <1>d, <1>e
  DEF DecideReason, Settle, DrainThen, OneInFlight, BetweenPrompts, Holds, Holding,
      Locals, turn, agent
<1>9. ASSUME NEW m \in Messages, BackOff(m) PROVE OneInFlight'
  BY <1>9, <1>a, <1>d, <1>e
  DEF BackOff, OneInFlight, BetweenPrompts, Holds, Holding, Locals, turn, agent
<1>10. ASSUME NEW m \in Messages, RetryDue(m) PROVE OneInFlight'
  BY <1>10, <1>a, <1>d, <1>e
  DEF RetryDue, BeginRun, OneInFlight, BetweenPrompts, Holds, Holding, Locals, turn,
      agent
<1>11. ASSUME NEW m \in Messages, RetryPrompt(m) PROVE OneInFlight'
  <2>1. pc[m] = "savingRerun" /\ pendingPrompt' = pendingPrompt
        /\ prompt' = [prompt EXCEPT ![m] = "inflight"]
    BY <1>11 DEF RetryPrompt
  <2>2. \A p \in Messages : prompt[p] # "inflight"
    BY <2>1 DEF OneInFlight, BetweenPrompts
  <2>3. pendingPrompt = NoOne BY <1>f, <1>g, <2>2
  <2>4. \A p \in Messages : prompt'[p] = "inflight" => p = m BY <1>e, <2>1, <2>2
  <2>5. /\ \A e \in Activations : e # m => pc'[e] \in Ended
        /\ pc'[m] \in {"driving", "paused"}
    BY <1>11, <1>g, <1>a DEF RetryPrompt
  <2>6. act'[m].driven = m BY <2>5 DEF OwnPrompt, Holds, Holding
  <2> QED BY <2>1, <2>3, <2>4, <2>5, <2>6 DEF OneInFlight, Holds, Holding, BetweenPrompts
<1>12. ASSUME NEW d \in Drivers, DrivePaused(d) PROVE OneInFlight'
  BY <1>12, <1>a, <1>d, <1>e
  DEF DrivePaused, Settle, DrainThen, OneInFlight, BetweenPrompts, Holds, Holding,
      Locals, turn, agent
<1>13. ASSUME NEW d \in Drivers, DriveResolved(d) PROVE OneInFlight'
  BY <1>13, <1>a, <1>d, <1>e
  DEF DriveResolved, Settle, DrainThen, OneInFlight, BetweenPrompts, Holds, Holding,
      Locals, turn, agent
<1>14. ASSUME NEW d \in Drivers, DriveRejected(d) PROVE OneInFlight'
  BY <1>14, <1>a, <1>d, <1>e
  DEF DriveRejected, OneInFlight, BetweenPrompts, Holds, Holding, Locals, turn, agent
<1>15. ASSUME NEW d \in Drivers, EndSaved(d) PROVE OneInFlight'
  BY <1>15, <1>a, <1>d, <1>e
  DEF EndSaved, Settle, DrainThen, OneInFlight, BetweenPrompts, Holds, Holding, Locals,
      turn, agent
<1>16. ASSUME NEW c \in Calls, ResumeTurn(c) PROVE OneInFlight'
  BY <1>16, <1>a, <1>d, <1>e
  DEF ResumeTurn, OneInFlight, BetweenPrompts, Holds, Holding, Locals, turn, agent
<1>17. ASSUME NEW i \in Interrupts, Aborted(i) PROVE OneInFlight'
  BY <1>17, <1>c, <1>a, <1>d, <1>e
  DEF Aborted, Settle, DrainThen, OneInFlight, BetweenPrompts, Holds, Holding, Locals,
      turn, agent
<1>18. ASSUME NEW a \in Activations, SettleIdle(a) PROVE OneInFlight'
  BY <1>18, <1>a, <1>d, <1>e
  DEF SettleIdle, OneInFlight, BetweenPrompts, Holds, Holding, Locals, turn, agent
<1>19. ASSUME NEW a \in Activations, SettleTerminated(a) PROVE OneInFlight'
  BY <1>19, <1>a, <1>d, <1>e
  DEF SettleTerminated, OneInFlight, BetweenPrompts, Holds, Holding, Locals, turn, agent
<1>20. ASSUME NEW a \in Activations, FinalSaved(a) PROVE OneInFlight'
  BY <1>20, <1>a, <1>d, <1>e
  DEF FinalSaved, OneInFlight, BetweenPrompts, Holds, Holding, Locals, turn, agent
<1>21. ASSUME NEW a \in Activations, AnnounceIdle(a) PROVE OneInFlight'
  BY <1>21, <1>a, <1>d, <1>e
  DEF AnnounceIdle, OneInFlight, BetweenPrompts, Holds, Holding, Locals, turn, agent
<1>22. ASSUME NEW a \in Activations, Stored(a) PROVE OneInFlight'
  BY <1>22, <1>a, <1>d, <1>e
  DEF Stored, OneInFlight, BetweenPrompts, Holds, Holding, Locals, turn, agent
<1>23. ASSUME NEW a \in Activations, StoreFails(a) PROVE OneInFlight'
  BY <1>23, <1>a, <1>d, <1>e
  DEF StoreFails, OneInFlight, BetweenPrompts, Holds, Holding, Locals, turn, agent
<1>24. ASSUME NEW u \in Usage, RecordUsage(u) PROVE OneInFlight'
  BY <1>24, <1>a, <1>d, <1>e
  DEF RecordUsage, OneInFlight, BetweenPrompts, Holds, Holding, Locals, turn, agent
<1>25. ASSUME NEW u \in Usage, EnforceBudget(u) PROVE OneInFlight'
  BY <1>25, <1>a, <1>d, <1>e
  DEF EnforceBudget, OneInFlight, BetweenPrompts, Holds, Holding, Locals, turn, agent
<1>26. ASSUME NEW u \in Usage, ReportUsage(u) PROVE OneInFlight'
  BY <1>26, <1>a, <1>d, <1>e
  DEF ReportUsage, OneInFlight, BetweenPrompts, Holds, Holding, Locals, turn, agent
<1>27. ASSUME NEW m \in Messages, PromptSettles(m) PROVE OneInFlight'
  BY <1>27, <1>a, <1>d, <1>e
  DEF PromptSettles, OneInFlight, BetweenPrompts, Holds, Holding, Locals, turn, agent
<1>28. ASSUME NEW m \in Messages, NEW c \in Calls, CoordinatorBlocks(m, c)
      PROVE  OneInFlight'
  BY <1>28, <1>h, <1>a, <1>d, <1>e
  DEF CoordinatorBlocks, ReleaseDrive, Waits, Custody, OneInFlight, BetweenPrompts,
      Holds, Holding, Locals, turn, agent
<1>29. ASSUME NEW m \in Messages, NEW c \in Calls, QueueToolCall(m, c) PROVE OneInFlight'
  BY <1>29, <1>a, <1>d, <1>e
  DEF QueueToolCall, OneInFlight, BetweenPrompts, Holds, Holding, Locals, turn, agent
<1>30. ASSUME NEW c \in Calls, AwaitToolResult(c) PROVE OneInFlight'
  BY <1>30, <1>h, <1>a, <1>d, <1>e
  DEF AwaitToolResult, ReleaseDrive, Waits, Custody, OneInFlight, BetweenPrompts, Holds,
      Holding, Locals, turn, agent
<1>31. ASSUME NEW c \in Calls, BufferResult(c) PROVE OneInFlight'
  BY <1>31, <1>a, <1>d, <1>e
  DEF BufferResult, OneInFlight, BetweenPrompts, Holds, Holding, Locals, turn, agent
<1>32. ASSUME NEW c \in Calls, AnswerCall(c) PROVE OneInFlight'
  <2>1. PcsAfterReport(c) = pc BY <1>32, AnswerReleasesNothing DEF Custody
  <2>2. \A e \in Activations : e # c => pc'[e] = pc[e]
    BY <1>32, <1>a, <2>1 DEF AnswerCall
  <2>3. \A e \in Activations : pc[e] \in Ended BY <1>32 DEF AnswerCall
  <2>4. UNCHANGED prompt /\ pendingPrompt' \in {pendingPrompt, NoOne}
    BY <1>32 DEF AnswerCall, TakePrompt
  <2>5. \/ pc'[c] \in {"done", "savingAdvert", "failed"}
        \/ pc'[c] = "savingResume" /\ act'[c].driven = pendingPrompt /\ pendingPrompt # NoOne
    BY <1>32, <1>a, <2>1 DEF AnswerCall, Locals
  <2> QED BY <2>2, <2>3, <2>4, <2>5 DEF OneInFlight, BetweenPrompts, Holds, Holding
<1>33. ASSUME NEW i \in Interrupts, Interrupt(i) PROVE OneInFlight'
  BY <1>33, <1>a, <1>d, <1>e
  DEF Interrupt, OneInFlight, BetweenPrompts, Holds, Holding, Locals, turn, agent
<1>34. CASE TimerFires
  BY <1>34, <1>a, <1>d, <1>e
  DEF TimerFires, OneInFlight, BetweenPrompts, Holds, Holding, Locals, turn, agent
<1>35. CASE CheckpointEnds
  BY <1>35, <1>a, <1>d, <1>e
  DEF CheckpointEnds, OneInFlight, BetweenPrompts, Holds, Holding, Locals, turn, agent
<1> QED
  BY <1>1, <1>2, <1>3, <1>4, <1>5, <1>6, <1>7, <1>8, <1>9, <1>10, <1>11, <1>12, <1>13,
     <1>14, <1>15, <1>16, <1>17, <1>18, <1>19, <1>20, <1>21, <1>22, <1>23, <1>24, <1>25,
     <1>26, <1>27, <1>28, <1>29, <1>30, <1>31, <1>32, <1>33, <1>34, <1>35
  DEF Next, Microtask, HandlerStep, AgentStep, ClientStep, MessageStep, SettleStep,
      UsageStep

\* Answering one of several calls leaves one of the parked prompt's calls waiting.
LEMMA ParkedWaitsStep ==
  ASSUME Overlap \subseteq {"fastBlock"}, TypeOK, Custody, Serial, Releasable, Unmarked, OneInFlight,
         WaitingCalls, ParkedWaits, Next
  PROVE  ParkedWaits'
<1> USE OnlyOne, ArrivesQuiet, DriversAct DEF At, Ended
<1>a. pc \in [Activations -> Pcs] /\ act \in [Activations -> Locals] BY DEF TypeOK
<1>c. \A i \in Interrupts : i \notin Drivers BY RuntimeAssumption DEF Drivers
<1>d. \A m \in Messages : m \notin Calls BY RuntimeAssumption
<1>e. /\ call \in [Calls -> {"none", "queued", "buffered", "blocked", "answered"}]
      /\ callOf \in [Calls -> Messages \cup {NoOne}]
  BY DEF TypeOK
<1>f. \A x \in Calls : callOf[x] = NoOne => call[x] # "blocked"
  BY RuntimeAssumption DEF WaitingCalls, Activations
<1>h. waiter \in Drivers \cup {NoOne} BY DEF TypeOK
<1>j. \A d \in Drivers : Holds(d) => prompt[act[d].driven] \in PromptStates
  BY DEF Custody, Held, TypeOK
<1>i. ASSUME NEW c \in Calls, NEW m \in Messages, callOf'[c] = m, call'[c] = "blocked",
             call[c] # "blocked", prompt[m] = "inflight", Microtasks = {},
             \A x \in Calls : x # c => call'[x] = call[x] /\ callOf'[x] = callOf[x],
             pc' = ReleaseDrive(pc), UNCHANGED <<act, pendingPrompt>>
      PROVE  ParkedWaits'
  <2>1. \A p \in Messages : WaitsFor(p) => WaitsFor(p)'
    BY <1>i DEF WaitsFor, Blocked
  <2>2. WaitsFor(m)' BY <1>i DEF WaitsFor, Blocked
  <2>3. \A d \in Drivers : pc[d] # "paused" BY <1>i DEF Microtasks
  <2>4. pendingPrompt \in Messages \cup {NoOne} BY DEF TypeOK
  <2>5. pendingPrompt # NoOne => \E x \in Blocked' : callOf'[x] = pendingPrompt
    BY <2>1, <2>4 DEF ParkedWaits, WaitsFor
  <2>6. ASSUME NEW d \in Drivers, pc'[d] = "paused" PROVE act[d].driven = m
    <3>1. d = waiter BY <1>a, <1>i, <2>3, <2>6 DEF ReleaseDrive
    <3>2. Holds(d) BY <3>1, RuntimeAssumption DEF Custody, Waits, Holds, Holding, Activations
    <3> QED BY <1>i, <3>2 DEF OneInFlight
  <2>7. \A d \in Drivers : pc'[d] = "paused" =>
                             \E x \in Blocked' : callOf'[x] = act[d].driven
    BY <2>2, <2>6 DEF WaitsFor
  <2>8. UNCHANGED <<act, pendingPrompt>> BY <1>i
  <2> QED BY <2>5, <2>7, <2>8 DEF ParkedWaits, WaitsFor
<1>1. ASSUME NEW m \in Messages, PostMessage(m) PROVE ParkedWaits'
  BY <1>1, <1>a, <1>d, <1>e
  DEF PostMessage, ParkedWaits, WaitsFor, Blocked, Locals, turn, agent
<1>2. ASSUME NEW m \in Messages, SettleStop(m) PROVE ParkedWaits'
  BY <1>2, <1>a, <1>d, <1>e
  DEF SettleStop, ParkedWaits, WaitsFor, Blocked, Locals, turn, agent
<1>3. ASSUME NEW m \in Messages, SandboxIsUp(m) PROVE ParkedWaits'
  BY <1>3, <1>a, <1>d, <1>e
  DEF SandboxIsUp, BeginRun, ParkedWaits, WaitsFor, Blocked, Locals, turn, agent
<1>4. ASSUME NEW m \in Messages, SandboxIsStopped(m) PROVE ParkedWaits'
  BY <1>4, <1>a, <1>d, <1>e
  DEF SandboxIsStopped, ParkedWaits, WaitsFor, Blocked, Locals, turn, agent
<1>5. ASSUME NEW m \in Messages, SandboxStarted(m) PROVE ParkedWaits'
  BY <1>5, <1>a, <1>d, <1>e
  DEF SandboxStarted, BeginRun, ParkedWaits, WaitsFor, Blocked, Locals, turn, agent
<1>6. ASSUME NEW m \in Messages, SandboxStartFails(m) PROVE ParkedWaits'
  BY <1>6, <1>a, <1>d, <1>e
  DEF SandboxStartFails, ParkedWaits, WaitsFor, Blocked, Locals, turn, agent
<1>7. ASSUME NEW m \in Messages, StartTurn(m) PROVE ParkedWaits'
  BY <1>7, <1>a, <1>d, <1>e
  DEF StartTurn, ParkedWaits, WaitsFor, Blocked, Locals, turn, agent
<1>8. ASSUME NEW m \in Messages, DecideReason(m) PROVE ParkedWaits'
  BY <1>8, <1>a, <1>d, <1>e
  DEF DecideReason, Settle, DrainThen, ParkedWaits, WaitsFor, Blocked, Locals, turn,
      agent
<1>9. ASSUME NEW m \in Messages, BackOff(m) PROVE ParkedWaits'
  BY <1>9, <1>a, <1>d, <1>e
  DEF BackOff, ParkedWaits, WaitsFor, Blocked, Locals, turn, agent
<1>10. ASSUME NEW m \in Messages, RetryDue(m) PROVE ParkedWaits'
  BY <1>10, <1>a, <1>d, <1>e
  DEF RetryDue, BeginRun, ParkedWaits, WaitsFor, Blocked, Locals, turn, agent
<1>11. ASSUME NEW m \in Messages, RetryPrompt(m) PROVE ParkedWaits'
  BY <1>11, <1>a, <1>d, <1>e
  DEF RetryPrompt, Unmarked, ParkedWaits, WaitsFor, Blocked, Locals, turn, agent
<1>12. ASSUME NEW d \in Drivers, DrivePaused(d) PROVE ParkedWaits'
  BY <1>12, <1>a, <1>d, <1>e
  DEF DrivePaused, Settle, DrainThen, ParkedWaits, WaitsFor, Blocked, Locals, turn,
      agent
<1>13. ASSUME NEW d \in Drivers, DriveResolved(d) PROVE ParkedWaits'
  BY <1>13, <1>a, <1>d, <1>e
  DEF DriveResolved, Settle, DrainThen, ParkedWaits, WaitsFor, Blocked, Locals, turn,
      agent
<1>14. ASSUME NEW d \in Drivers, DriveRejected(d) PROVE ParkedWaits'
  BY <1>14, <1>a, <1>d, <1>e
  DEF DriveRejected, ParkedWaits, WaitsFor, Blocked, Locals, turn, agent
<1>15. ASSUME NEW d \in Drivers, EndSaved(d) PROVE ParkedWaits'
  BY <1>15, <1>a, <1>d, <1>e
  DEF EndSaved, Settle, DrainThen, ParkedWaits, WaitsFor, Blocked, Locals, turn, agent
<1>16. ASSUME NEW c \in Calls, ResumeTurn(c) PROVE ParkedWaits'
  BY <1>16, <1>a, <1>d, <1>j
  DEF ResumeTurn, PromptStates, ParkedWaits, WaitsFor, Blocked, Locals, turn, agent,
      Holds, Holding
<1>17. ASSUME NEW i \in Interrupts, Aborted(i) PROVE ParkedWaits'
  BY <1>17, <1>c, <1>a, <1>d, <1>e
  DEF Aborted, Settle, DrainThen, ParkedWaits, WaitsFor, Blocked, Locals, turn, agent
<1>18. ASSUME NEW a \in Activations, SettleIdle(a) PROVE ParkedWaits'
  BY <1>18, <1>a, <1>d, <1>e
  DEF SettleIdle, ParkedWaits, WaitsFor, Blocked, Locals, turn, agent
<1>19. ASSUME NEW a \in Activations, SettleTerminated(a) PROVE ParkedWaits'
  BY <1>19, <1>a, <1>d, <1>e
  DEF SettleTerminated, ParkedWaits, WaitsFor, Blocked, Locals, turn, agent
<1>20. ASSUME NEW a \in Activations, FinalSaved(a) PROVE ParkedWaits'
  BY <1>20, <1>a, <1>d, <1>e
  DEF FinalSaved, ParkedWaits, WaitsFor, Blocked, Locals, turn, agent
<1>21. ASSUME NEW a \in Activations, AnnounceIdle(a) PROVE ParkedWaits'
  BY <1>21, <1>a, <1>d, <1>e
  DEF AnnounceIdle, ParkedWaits, WaitsFor, Blocked, Locals, turn, agent
<1>22. ASSUME NEW a \in Activations, Stored(a) PROVE ParkedWaits'
  BY <1>22, <1>a, <1>d, <1>e
  DEF Stored, ParkedWaits, WaitsFor, Blocked, Locals, turn, agent
<1>23. ASSUME NEW a \in Activations, StoreFails(a) PROVE ParkedWaits'
  BY <1>23, <1>a, <1>d, <1>e
  DEF StoreFails, ParkedWaits, WaitsFor, Blocked, Locals, turn, agent
<1>24. ASSUME NEW u \in Usage, RecordUsage(u) PROVE ParkedWaits'
  BY <1>24, <1>a, <1>d, <1>e
  DEF RecordUsage, ParkedWaits, WaitsFor, Blocked, Locals, turn, agent
<1>25. ASSUME NEW u \in Usage, EnforceBudget(u) PROVE ParkedWaits'
  BY <1>25, <1>a, <1>d, <1>e
  DEF EnforceBudget, ParkedWaits, WaitsFor, Blocked, Locals, turn, agent
<1>26. ASSUME NEW u \in Usage, ReportUsage(u) PROVE ParkedWaits'
  BY <1>26, <1>a, <1>d, <1>e
  DEF ReportUsage, ParkedWaits, WaitsFor, Blocked, Locals, turn, agent
<1>27. ASSUME NEW m \in Messages, PromptSettles(m) PROVE ParkedWaits'
  BY <1>27, <1>a, <1>d, <1>e
  DEF PromptSettles, ParkedWaits, WaitsFor, Blocked, Locals, turn, agent
<1>28. ASSUME NEW m \in Messages, NEW c \in Calls, CoordinatorBlocks(m, c)
      PROVE  ParkedWaits'
  BY <1>28, <1>e, <1>f, <1>i DEF CoordinatorBlocks, MayBlock
<1>29. ASSUME NEW m \in Messages, NEW c \in Calls, QueueToolCall(m, c) PROVE ParkedWaits'
  BY <1>29, <1>f, <1>a, <1>d, <1>e
  DEF QueueToolCall, ParkedWaits, WaitsFor, Blocked, Locals, turn, agent, MayBlock
<1>30. ASSUME NEW c \in Calls, AwaitToolResult(c) PROVE ParkedWaits'
  <2>1. CASE call[c] = "queued"
    BY <1>30, <1>e, <1>i, <2>1 DEF AwaitToolResult, WaitingCalls
  <2>2. CASE call[c] = "buffered"
    BY <1>30, <1>a, <1>e, <2>2 DEF AwaitToolResult, ParkedWaits, WaitsFor, Blocked
  <2> QED BY <1>30, <2>1, <2>2 DEF AwaitToolResult
<1>31. ASSUME NEW c \in Calls, BufferResult(c) PROVE ParkedWaits'
  BY <1>31, <1>a, <1>d, <1>e
  DEF BufferResult, ParkedWaits, WaitsFor, Blocked, Locals, turn, agent
<1>32. ASSUME NEW c \in Calls, AnswerCall(c) PROVE ParkedWaits'
  <2>1. PcsAfterReport(c) = pc BY <1>32, AnswerReleasesNothing DEF Custody
  <2>2. \A d \in Drivers : pc'[d] # "paused" BY <1>32, <1>a, <2>1 DEF AnswerCall
  <2>3. ASSUME pendingPrompt' # NoOne PROVE WaitsFor(pendingPrompt)'
    <3>1. pendingPrompt' = pendingPrompt /\ Remaining(c) # {} /\ pendingPrompt # NoOne
      BY <1>32, <2>3 DEF AnswerCall, TakePrompt
    <3>2. PICK x \in Blocked : x # c BY <3>1 DEF Remaining
    <3>3. callOf[x] = pendingPrompt
      BY <3>1, <3>2 DEF WaitingCalls, OneInFlight, Blocked
    <3> QED BY <1>32, <1>e, <3>1, <3>2, <3>3 DEF AnswerCall, WaitsFor, Blocked
  <2> QED BY <2>2, <2>3 DEF ParkedWaits
<1>33. ASSUME NEW i \in Interrupts, Interrupt(i) PROVE ParkedWaits'
  BY <1>33, <1>a, <1>d, <1>e
  DEF Interrupt, ParkedWaits, WaitsFor, Blocked, Locals, turn, agent
<1>34. CASE TimerFires
  BY <1>34, <1>a, <1>d, <1>e
  DEF TimerFires, ParkedWaits, WaitsFor, Blocked, Locals, turn, agent
<1>35. CASE CheckpointEnds
  BY <1>35, <1>a, <1>d, <1>e
  DEF CheckpointEnds, ParkedWaits, WaitsFor, Blocked, Locals, turn, agent
<1> QED
  BY <1>1, <1>2, <1>3, <1>4, <1>5, <1>6, <1>7, <1>8, <1>9, <1>10, <1>11, <1>12, <1>13,
     <1>14, <1>15, <1>16, <1>17, <1>18, <1>19, <1>20, <1>21, <1>22, <1>23, <1>24, <1>25,
     <1>26, <1>27, <1>28, <1>29, <1>30, <1>31, <1>32, <1>33, <1>34, <1>35
  DEF Next, Microtask, HandlerStep, AgentStep, ClientStep, MessageStep, SettleStep,
      UsageStep

(* A run that begins, or finds the session terminated, leaves the usage      *)
(* tasks and their waiters alone.                                            *)
LEMMA BeginRunUsage ==
  ASSUME TypeOK, UsageKept, NEW m \in Messages,
         pc[m] \in {"vmStatus", "vmStart", "backoff"},
         NEW next \in {"savingRun", "savingRerun"}, BeginRun(m, next), UNCHANGED meter
  PROVE  UsageKept'
<1>1. \A e \in Activations : act'[e].waits = act[e].waits BY BeginRunKeeps, DriversAct
<1>2. \E to \in {"savingRun", "savingRerun", "failed"} : pc' = [pc EXCEPT ![m] = to]
  BY DEF BeginRun
<1>3. pc \in [Activations -> Pcs] BY DEF TypeOK
<1>4. \A e \in Activations : e # m => pc'[e] = pc[e] BY <1>2, <1>3
<1>5. pc'[m] \notin {"draining", "settling"} BY <1>2, <1>3, DriversAct
<1>6. usage' = usage /\ usageTasks' = usageTasks BY DEF meter
<1>7. \A e \in Activations :
         /\ pc[e] \in {"draining", "settling"} => pc'[e] = pc[e]
         /\ pc'[e] = "draining" => pc[e] = "draining"
  BY <1>4, <1>5
<1> HIDE DEF TypeOK
<1> QED BY <1>1, <1>6, <1>7, DriversAct DEF UsageKept

LEMMA UsageKeptStep ==
  ASSUME Overlap \subseteq {"fastBlock"}, TypeOK, Waits, Serial, OneInFlight, UsageKept, Next
  PROVE  UsageKept'
<1> USE OnlyOne, ArrivesQuiet, DriversAct DEF At, Ended
<1>a. pc \in [Activations -> Pcs] /\ act \in [Activations -> Locals] BY DEF TypeOK
<1>c. \A i \in Interrupts : i \notin Drivers BY RuntimeAssumption DEF Drivers
<1>d. \A m \in Messages : m \notin Calls BY RuntimeAssumption
<1>e. usage \in [Usage -> {"none", "recording", "checking", "done"}] BY DEF TypeOK
<1>h. waiter \in Drivers \cup {NoOne} BY DEF TypeOK
<1>1. ASSUME NEW m \in Messages, PostMessage(m) PROVE UsageKept'
  BY <1>1, <1>a, <1>d, <1>e DEF PostMessage, UsageKept, Locals, meter
<1>2. ASSUME NEW m \in Messages, SettleStop(m) PROVE UsageKept'
  BY <1>2, <1>a, <1>d, <1>e DEF SettleStop, UsageKept, Locals, meter
<1>3. ASSUME NEW m \in Messages, SandboxIsUp(m) PROVE UsageKept'
  BY <1>3, BeginRunUsage DEF SandboxIsUp
<1>4. ASSUME NEW m \in Messages, SandboxIsStopped(m) PROVE UsageKept'
  BY <1>4, <1>a, <1>d, <1>e DEF SandboxIsStopped, UsageKept, Locals, meter
<1>5. ASSUME NEW m \in Messages, SandboxStarted(m) PROVE UsageKept'
  BY <1>5, BeginRunUsage DEF SandboxStarted
<1>6. ASSUME NEW m \in Messages, SandboxStartFails(m) PROVE UsageKept'
  BY <1>6, <1>a, <1>d, <1>e DEF SandboxStartFails, UsageKept, Locals, meter
<1>7. ASSUME NEW m \in Messages, StartTurn(m) PROVE UsageKept'
  BY <1>7, <1>a, <1>d, <1>e DEF StartTurn, UsageKept, Locals, meter
<1>8. ASSUME NEW m \in Messages, DecideReason(m) PROVE UsageKept'
  BY <1>8, <1>a, <1>d, <1>e
  DEF DecideReason, Settle, DrainThen, UsageKept, Locals, meter, Drained
<1>9. ASSUME NEW m \in Messages, BackOff(m) PROVE UsageKept'
  BY <1>9, <1>a, <1>d, <1>e DEF BackOff, UsageKept, Locals, meter
<1>10. ASSUME NEW m \in Messages, RetryDue(m) PROVE UsageKept'
  BY <1>10, BeginRunUsage DEF RetryDue
<1>11. ASSUME NEW m \in Messages, RetryPrompt(m) PROVE UsageKept'
  BY <1>11, <1>a, <1>d, <1>e DEF RetryPrompt, UsageKept, Locals, meter
<1>12. ASSUME NEW d \in Drivers, DrivePaused(d) PROVE UsageKept'
  BY <1>12, <1>a, <1>d, <1>e DEF DrivePaused, Settle, DrainThen, UsageKept, Locals, meter
<1>13. ASSUME NEW d \in Drivers, DriveResolved(d) PROVE UsageKept'
  BY <1>13, <1>a, <1>d, <1>e
  DEF DriveResolved, Settle, DrainThen, UsageKept, Locals, meter
<1>14. ASSUME NEW d \in Drivers, DriveRejected(d) PROVE UsageKept'
  <2>1. \A e \in Activations : act'[e].waits = act[e].waits
    BY <1>14, WriteKeeps, DriversAct DEF DriveRejected
  <2>2. /\ \A e \in Activations : e # d => pc'[e] = pc[e]
        /\ pc[d] \in {"transient", "fatal"} /\ pc'[d] \in {"savingRetry", "savingEnd"}
    BY <1>14, <1>a DEF DriveRejected
  <2>3. usage' = usage /\ usageTasks' = usageTasks BY <1>14 DEF DriveRejected, meter
  <2>4. \A e \in Activations : /\ pc[e] \in {"draining", "settling"} => pc'[e] = pc[e]
                               /\ pc'[e] = "draining" => pc[e] = "draining"
    BY <2>2
  <2> HIDE DEF TypeOK
  <2> QED BY <2>1, <2>3, <2>4 DEF UsageKept
<1>15. ASSUME NEW d \in Drivers, EndSaved(d) PROVE UsageKept'
  BY <1>15, <1>a, <1>d, <1>e DEF EndSaved, Settle, DrainThen, UsageKept, Locals, meter
<1>16. ASSUME NEW c \in Calls, ResumeTurn(c) PROVE UsageKept'
  BY <1>16, <1>a, <1>d, <1>e DEF ResumeTurn, UsageKept, Locals, meter
<1>17. ASSUME NEW i \in Interrupts, Aborted(i) PROVE UsageKept'
  <2>1. act' = [act EXCEPT ![i].waits = usageTasks, ![i].reason = "user_interrupt"]
        /\ usage' = usage /\ usageTasks' = {} /\ pc' = [pc EXCEPT ![i] = "settling"]
    BY <1>17 DEF Aborted, Settle, DrainThen
  <2>2. act'[i].waits = usageTasks BY <1>a, <2>1 DEF Locals
  <2>3. pc[i] \notin Ended BY <1>17 DEF Aborted
  <2>4. \A b \in Activations : b # i => pc[b] \in Ended BY <2>3
  <2>5. \A u \in Usage : usage[u] \in {"recording", "checking"} => u \in usageTasks
    BY <1>17, <2>4 DEF UsageKept, Aborted
  <2>6. \A m \in Messages : pc'[m] # "draining" BY <1>a, <2>1, <2>4
  <2>7. pc'[i] = "settling" BY <1>a, <2>1
  <2> QED BY <2>1, <2>2, <2>5, <2>6, <2>7 DEF UsageKept
<1>18. ASSUME NEW a \in Activations, SettleIdle(a) PROVE UsageKept'
  BY <1>18, <1>a, <1>d, <1>e DEF SettleIdle, UsageKept, Locals, meter, Drained
<1>19. ASSUME NEW a \in Activations, SettleTerminated(a) PROVE UsageKept'
  BY <1>19, <1>a, <1>d, <1>e DEF SettleTerminated, UsageKept, Locals, meter, Drained
<1>20. ASSUME NEW a \in Activations, FinalSaved(a) PROVE UsageKept'
  BY <1>20, <1>a, <1>d, <1>e DEF FinalSaved, UsageKept, Locals, meter
<1>21. ASSUME NEW a \in Activations, AnnounceIdle(a) PROVE UsageKept'
  BY <1>21, <1>a, <1>d, <1>e DEF AnnounceIdle, UsageKept, Locals, meter
<1>22. ASSUME NEW a \in Activations, Stored(a) PROVE UsageKept'
  BY <1>22, <1>a, <1>d, <1>e DEF Stored, UsageKept, Locals, meter
<1>23. ASSUME NEW a \in Activations, StoreFails(a) PROVE UsageKept'
  BY <1>23, <1>a, <1>d, <1>e DEF StoreFails, UsageKept, Locals, meter
<1>24. ASSUME NEW u \in Usage, RecordUsage(u) PROVE UsageKept'
  BY <1>24, <1>a, <1>d, <1>e DEF RecordUsage, UsageKept, Locals, meter
<1>25. ASSUME NEW u \in Usage, EnforceBudget(u) PROVE UsageKept'
  BY <1>25, <1>a, <1>d, <1>e DEF EnforceBudget, UsageKept, Locals, meter
<1>26. ASSUME NEW u \in Usage, ReportUsage(u) PROVE UsageKept'
  BY <1>26, <1>a, <1>d, <1>e
  DEF ReportUsage, UsageKept, Locals, meter, OneInFlight, BetweenPrompts
<1>27. ASSUME NEW m \in Messages, PromptSettles(m) PROVE UsageKept'
  BY <1>27, <1>a, <1>d, <1>e DEF PromptSettles, UsageKept, Locals, meter
<1>28. ASSUME NEW m \in Messages, NEW c \in Calls, CoordinatorBlocks(m, c) PROVE UsageKept'
  BY <1>28, <1>h, <1>a, <1>d, <1>e
  DEF CoordinatorBlocks, ReleaseDrive, Waits, UsageKept, Locals, meter
<1>29. ASSUME NEW m \in Messages, NEW c \in Calls, QueueToolCall(m, c) PROVE UsageKept'
  BY <1>29, <1>a, <1>d, <1>e DEF QueueToolCall, UsageKept, Locals, meter
<1>30. ASSUME NEW c \in Calls, AwaitToolResult(c) PROVE UsageKept'
  BY <1>30, <1>h, <1>a, <1>d, <1>e
  DEF AwaitToolResult, ReleaseDrive, Waits, UsageKept, Locals, meter
<1>31. ASSUME NEW c \in Calls, BufferResult(c) PROVE UsageKept'
  BY <1>31, <1>a, <1>d, <1>e DEF BufferResult, UsageKept, Locals, meter
<1>32. ASSUME NEW c \in Calls, AnswerCall(c) PROVE UsageKept'
  <2>1. PcsAfterReport(c) = pc BY <1>32, AnswerReleasesNothing
  <2>2. \A e \in Activations : pc[e] \in Ended BY <1>32 DEF AnswerCall
  <2>3. pc'[c] \in {"done", "savingAdvert", "failed", "savingResume"}
        /\ \A e \in Activations : e # c => pc'[e] = pc[e]
    BY <1>32, <1>a, <2>1 DEF AnswerCall
  <2>4. UNCHANGED <<usage, usageTasks>> BY <1>32 DEF AnswerCall, meter
  <2> QED BY <2>2, <2>3, <2>4 DEF UsageKept
<1>33. ASSUME NEW i \in Interrupts, Interrupt(i) PROVE UsageKept'
  BY <1>33, <1>a, <1>d, <1>e DEF Interrupt, UsageKept, Locals, meter
<1>34. CASE TimerFires
  BY <1>34, <1>a, <1>d, <1>e DEF TimerFires, UsageKept, Locals, meter
<1>35. CASE CheckpointEnds
  BY <1>35, <1>a, <1>d, <1>e DEF CheckpointEnds, UsageKept, Locals, meter
<1> QED
  BY <1>1, <1>2, <1>3, <1>4, <1>5, <1>6, <1>7, <1>8, <1>9, <1>10, <1>11, <1>12, <1>13,
     <1>14, <1>15, <1>16, <1>17, <1>18, <1>19, <1>20, <1>21, <1>22, <1>23, <1>24, <1>25,
     <1>26, <1>27, <1>28, <1>29, <1>30, <1>31, <1>32, <1>33, <1>34, <1>35
  DEF Next, Microtask, HandlerStep, AgentStep, ClientStep, MessageStep, SettleStep,
      UsageStep

LEMMA SandboxKeptStep ==
  ASSUME Overlap \subseteq {"fastBlock"}, TypeOK, Waits, Serial, SandboxKept, Next
  PROVE  SandboxKept'
<1> USE OnlyOne, ArrivesQuiet, DriversAct DEF At, Ended
<1>a. pc \in [Activations -> Pcs] /\ act \in [Activations -> Locals] BY DEF TypeOK
<1>c. \A i \in Interrupts : i \notin Drivers BY RuntimeAssumption DEF Drivers
<1>d. \A m \in Messages : m \notin Calls BY RuntimeAssumption
<1>e. idle \in [timer : BOOLEAN, stopping : BOOLEAN] /\ vm \in {"running", "stopped"}
  BY DEF TypeOK
<1>h. waiter \in Drivers \cup {NoOne} BY DEF TypeOK
<1>1. ASSUME NEW m \in Messages, PostMessage(m) PROVE SandboxKept'
  BY <1>1, <1>a, <1>d, <1>e DEF PostMessage, SandboxKept, Prepared, sandbox
<1>2. ASSUME NEW m \in Messages, SettleStop(m) PROVE SandboxKept'
  BY <1>2, <1>a, <1>d, <1>e DEF SettleStop, SandboxKept, Prepared, sandbox, StopSettled
<1>3. ASSUME NEW m \in Messages, SandboxIsUp(m) PROVE SandboxKept'
  BY <1>3, <1>a, <1>d, <1>e DEF SandboxIsUp, BeginRun, SandboxKept, Prepared, sandbox
<1>4. ASSUME NEW m \in Messages, SandboxIsStopped(m) PROVE SandboxKept'
  BY <1>4, <1>a, <1>d, <1>e DEF SandboxIsStopped, SandboxKept, Prepared, sandbox
<1>5. ASSUME NEW m \in Messages, SandboxStarted(m) PROVE SandboxKept'
  BY <1>5, <1>a, <1>d, <1>e DEF SandboxStarted, BeginRun, SandboxKept, Prepared, sandbox
<1>6. ASSUME NEW m \in Messages, SandboxStartFails(m) PROVE SandboxKept'
  BY <1>6, <1>a, <1>d, <1>e DEF SandboxStartFails, SandboxKept, Prepared, sandbox
<1>7. ASSUME NEW m \in Messages, StartTurn(m) PROVE SandboxKept'
  BY <1>7, <1>a, <1>d, <1>e DEF StartTurn, SandboxKept, Prepared, sandbox
<1>8. ASSUME NEW m \in Messages, DecideReason(m) PROVE SandboxKept'
  BY <1>8, <1>a, <1>d, <1>e
  DEF DecideReason, Settle, DrainThen, SandboxKept, Prepared, sandbox
<1>9. ASSUME NEW m \in Messages, BackOff(m) PROVE SandboxKept'
  BY <1>9, <1>a, <1>d, <1>e DEF BackOff, SandboxKept, Prepared, sandbox
<1>10. ASSUME NEW m \in Messages, RetryDue(m) PROVE SandboxKept'
  BY <1>10, <1>a, <1>d, <1>e DEF RetryDue, BeginRun, SandboxKept, Prepared, sandbox
<1>11. ASSUME NEW m \in Messages, RetryPrompt(m) PROVE SandboxKept'
  BY <1>11, <1>a, <1>d, <1>e DEF RetryPrompt, SandboxKept, Prepared, sandbox
<1>12. ASSUME NEW d \in Drivers, DrivePaused(d) PROVE SandboxKept'
  BY <1>12, <1>a, <1>d, <1>e
  DEF DrivePaused, Settle, DrainThen, SandboxKept, Prepared, sandbox
<1>13. ASSUME NEW d \in Drivers, DriveResolved(d) PROVE SandboxKept'
  BY <1>13, <1>a, <1>d, <1>e
  DEF DriveResolved, Settle, DrainThen, SandboxKept, Prepared, sandbox
<1>14. ASSUME NEW d \in Drivers, DriveRejected(d) PROVE SandboxKept'
  BY <1>14, <1>a, <1>d, <1>e DEF DriveRejected, SandboxKept, Prepared, sandbox
<1>15. ASSUME NEW d \in Drivers, EndSaved(d) PROVE SandboxKept'
  BY <1>15, <1>a, <1>d, <1>e
  DEF EndSaved, Settle, DrainThen, SandboxKept, Prepared, sandbox
<1>16. ASSUME NEW c \in Calls, ResumeTurn(c) PROVE SandboxKept'
  BY <1>16, <1>a, <1>d, <1>e DEF ResumeTurn, SandboxKept, Prepared, sandbox
<1>17. ASSUME NEW i \in Interrupts, Aborted(i) PROVE SandboxKept'
  BY <1>17, <1>c, <1>a, <1>d, <1>e
  DEF Aborted, Settle, DrainThen, SandboxKept, Prepared, sandbox
<1>18. ASSUME NEW a \in Activations, SettleIdle(a) PROVE SandboxKept'
  BY <1>18, <1>a, <1>d, <1>e DEF SettleIdle, SandboxKept, Prepared, sandbox
<1>19. ASSUME NEW a \in Activations, SettleTerminated(a) PROVE SandboxKept'
  BY <1>19, <1>a, <1>d, <1>e DEF SettleTerminated, SandboxKept, Prepared, sandbox
<1>20. ASSUME NEW a \in Activations, FinalSaved(a) PROVE SandboxKept'
  BY <1>20, <1>a, <1>d, <1>e DEF FinalSaved, SandboxKept, Prepared, sandbox
<1>21. ASSUME NEW a \in Activations, AnnounceIdle(a) PROVE SandboxKept'
  BY <1>21, <1>a, <1>d, <1>e DEF AnnounceIdle, SandboxKept, Prepared, sandbox
<1>22. ASSUME NEW a \in Activations, Stored(a) PROVE SandboxKept'
  BY <1>22, <1>a, <1>d, <1>e DEF Stored, SandboxKept, Prepared, sandbox
<1>23. ASSUME NEW a \in Activations, StoreFails(a) PROVE SandboxKept'
  BY <1>23, <1>a, <1>d, <1>e DEF StoreFails, SandboxKept, Prepared, sandbox
<1>24. ASSUME NEW u \in Usage, RecordUsage(u) PROVE SandboxKept'
  BY <1>24, <1>a, <1>d, <1>e DEF RecordUsage, SandboxKept, Prepared, sandbox
<1>25. ASSUME NEW u \in Usage, EnforceBudget(u) PROVE SandboxKept'
  BY <1>25, <1>a, <1>d, <1>e DEF EnforceBudget, SandboxKept, Prepared, sandbox
<1>26. ASSUME NEW u \in Usage, ReportUsage(u) PROVE SandboxKept'
  BY <1>26, <1>a, <1>d, <1>e DEF ReportUsage, SandboxKept, Prepared, sandbox
<1>27. ASSUME NEW m \in Messages, PromptSettles(m) PROVE SandboxKept'
  BY <1>27, <1>a, <1>d, <1>e DEF PromptSettles, SandboxKept, Prepared, sandbox
<1>28. ASSUME NEW m \in Messages, NEW c \in Calls, CoordinatorBlocks(m, c)
      PROVE  SandboxKept'
  BY <1>28, <1>h, <1>a, <1>d, <1>e
  DEF CoordinatorBlocks, ReleaseDrive, Waits, SandboxKept, Prepared, sandbox
<1>29. ASSUME NEW m \in Messages, NEW c \in Calls, QueueToolCall(m, c) PROVE SandboxKept'
  BY <1>29, <1>a, <1>d, <1>e DEF QueueToolCall, SandboxKept, Prepared, sandbox
<1>30. ASSUME NEW c \in Calls, AwaitToolResult(c) PROVE SandboxKept'
  BY <1>30, <1>h, <1>a, <1>d, <1>e
  DEF AwaitToolResult, ReleaseDrive, Waits, SandboxKept, Prepared, sandbox
<1>31. ASSUME NEW c \in Calls, BufferResult(c) PROVE SandboxKept'
  BY <1>31, <1>a, <1>d, <1>e DEF BufferResult, SandboxKept, Prepared, sandbox
<1>32. ASSUME NEW c \in Calls, AnswerCall(c) PROVE SandboxKept'
  <2>1. PcsAfterReport(c) = pc BY <1>32, AnswerReleasesNothing
  <2>2. \A m \in Messages : pc'[m] = pc[m] BY <1>32, <1>a, <1>d, <2>1 DEF AnswerCall
  <2> QED BY <1>32, <2>2 DEF AnswerCall, SandboxKept, sandbox
<1>33. ASSUME NEW i \in Interrupts, Interrupt(i) PROVE SandboxKept'
  BY <1>33, <1>a, <1>d, <1>e DEF Interrupt, SandboxKept, Prepared, sandbox
<1>34. CASE TimerFires
  BY <1>34, <1>a, <1>d, <1>e DEF TimerFires, SandboxKept, Prepared, sandbox
<1>35. CASE CheckpointEnds
  BY <1>35, <1>a, <1>d, <1>e DEF CheckpointEnds, SandboxKept, Prepared, sandbox
<1> QED
  BY <1>1, <1>2, <1>3, <1>4, <1>5, <1>6, <1>7, <1>8, <1>9, <1>10, <1>11, <1>12, <1>13,
     <1>14, <1>15, <1>16, <1>17, <1>18, <1>19, <1>20, <1>21, <1>22, <1>23, <1>24, <1>25,
     <1>26, <1>27, <1>28, <1>29, <1>30, <1>31, <1>32, <1>33, <1>34, <1>35
  DEF Next, Microtask, HandlerStep, AgentStep, ClientStep, MessageStep, SettleStep,
      UsageStep

-----------------------------------------------------------------------------
(* Without interrupts either: a prompt in flight is at hand or parked, and  *)
(* a parked one is being settled as such, or the session says what it waits *)
(* for and someone knows a call to answer.                                  *)

InCustody ==
  \A p \in Messages : prompt[p] = "inflight" =>
    p = pendingPrompt \/ \E d \in Drivers : Holds(d) /\ act[d].driven = p

RunsWhileDriven ==
  \A d \in Drivers :
    pc[d] \in {"savingRun", "driving", "paused", "resolved", "transient", "fatal",
               "savingRerun", "savingResume"} => sm.status = "running"

\* A turn that stopped for calls has one of them in its flags, to be announced.
Asks(d) == pc[d] \in {"settling", "savingIdle"} /\ act[d].reason = "requires_action"
TellsBlocked ==
  \A d \in Drivers :
    (pc[d] = "paused" \/ Asks(d)) => \E x \in Blocked : x \in flags[d].blocking

Parking == \E d \in Drivers : pc[d] = "settling" /\ Asks(d) /\ sm.status = "running"
Announced == \/ \E d \in Drivers : pc[d] = "savingIdle" /\ Asks(d)
             \/ \E c \in Blocked : Known(c)
Waiting == /\ sm.status = "idle" /\ sm.stopReason = "requires_action"
           /\ Announced
           /\ \A d \in Drivers : Busy(d) => pc[d] \in {"savingIdle", "storing", "savingAdvert"}
ParkedSays == pendingPrompt # NoOne => Parking \/ Waiting

AskInv == InCustody /\ RunsWhileDriven /\ TellsBlocked /\ ParkedSays

\* What the transitions of a session that is not terminated show.
LEMMA LiveStatus ==
  ASSUME NEW s \in Machine, s.status # "terminated", NEW ids \in SUBSET Calls
  PROVE  /\ Start(s).status = "running"
         /\ RequiresAction(s, ids).status = "idle"
         /\ RequiresAction(s, ids).stopReason = "requires_action"
<1> DEFINE t == [s EXCEPT !.stopReason = NoOne, !.blocking = {}]
           r == [s EXCEPT !.retries = 0, !.blocking = ids]
<1>1. t \in Machine /\ t.status = s.status BY DEF Machine, Reasons
<1>2. r \in Machine /\ r.status = s.status BY NoRetryYet DEF Machine
<1>3. Start(s) = Transition(t, "running", NoOne) BY DEF Start
<1>4. RequiresAction(s, ids) = Transition(r, "idle", "requires_action") BY DEF RequiresAction
<1> HIDE DEF t, r
<1>5. Transition(t, "running", NoOne).status = "running"
  BY <1>1, TransitionStatus DEF Statuses, Reasons
<1>6. Transition(r, "idle", "requires_action").status = "idle"
  BY <1>2, TransitionStatus DEF Statuses, Reasons
<1>7. Transition(r, "idle", "requires_action").stopReason = "requires_action"
  BY <1>2, RuntimeAssumption DEF Transition, Machine
<1> QED BY <1>3, <1>4, <1>5, <1>6, <1>7

LEMMA RunsWhileDrivenStep ==
  ASSUME Overlap \subseteq {"fastBlock"}, Interrupts = {}, TypeOK, Held, Waits, Serial, RunsWhileDriven, Next
  PROVE  RunsWhileDriven'
<1> USE OnlyOne, ArrivesQuiet, DriversAct DEF At, Ended
<1>a. pc \in [Activations -> Pcs] /\ act \in [Activations -> Locals] BY DEF TypeOK
<1>d. \A m \in Messages : m \notin Calls BY RuntimeAssumption
<1>e. sm \in Machine BY DEF TypeOK
<1>f. sm.status # "terminated" => Start(sm).status = "running" BY <1>e, LiveStatus
<1>g. waiter \in Drivers \cup {NoOne} BY DEF TypeOK
<1>1. ASSUME NEW m \in Messages, PostMessage(m) PROVE RunsWhileDriven'
  BY <1>1, <1>a, <1>d DEF PostMessage, RunsWhileDriven, machine
<1>2. ASSUME NEW m \in Messages, SettleStop(m) PROVE RunsWhileDriven'
  BY <1>2, <1>a, <1>d DEF SettleStop, RunsWhileDriven, machine
<1>3. ASSUME NEW m \in Messages, SandboxIsUp(m) PROVE RunsWhileDriven'
  <2>1. /\ \A e \in Activations : e # m => pc'[e] \in Ended
        /\ pc'[m] = "failed" \/ sm'.status = "running"
    BY <1>3, <1>a, <1>f DEF SandboxIsUp, BeginRun
  <2> QED BY <2>1 DEF RunsWhileDriven
<1>4. ASSUME NEW m \in Messages, SandboxIsStopped(m) PROVE RunsWhileDriven'
  BY <1>4, <1>a, <1>d DEF SandboxIsStopped, RunsWhileDriven, machine
<1>5. ASSUME NEW m \in Messages, SandboxStarted(m) PROVE RunsWhileDriven'
  <2>1. /\ \A e \in Activations : e # m => pc'[e] \in Ended
        /\ pc'[m] = "failed" \/ sm'.status = "running"
    BY <1>5, <1>a, <1>f DEF SandboxStarted, BeginRun
  <2> QED BY <2>1 DEF RunsWhileDriven
<1>6. ASSUME NEW m \in Messages, SandboxStartFails(m) PROVE RunsWhileDriven'
  BY <1>6, <1>a, <1>d DEF SandboxStartFails, RunsWhileDriven, machine
<1>7. ASSUME NEW m \in Messages, StartTurn(m) PROVE RunsWhileDriven'
  BY <1>7, <1>a, <1>d DEF StartTurn, RunsWhileDriven, machine
<1>8. ASSUME NEW m \in Messages, DecideReason(m) PROVE RunsWhileDriven'
  BY <1>8, <1>a, <1>d DEF DecideReason, Settle, DrainThen, RunsWhileDriven, machine
<1>9. ASSUME NEW m \in Messages, BackOff(m) PROVE RunsWhileDriven'
  BY <1>9, <1>a, <1>d DEF BackOff, RunsWhileDriven, machine
<1>10. ASSUME NEW m \in Messages, RetryDue(m) PROVE RunsWhileDriven'
  <2>1. /\ \A e \in Activations : e # m => pc'[e] \in Ended
        /\ pc'[m] = "failed" \/ sm'.status = "running"
    BY <1>10, <1>a, <1>f DEF RetryDue, BeginRun
  <2> QED BY <2>1 DEF RunsWhileDriven
<1>11. ASSUME NEW m \in Messages, RetryPrompt(m) PROVE RunsWhileDriven'
  BY <1>11, <1>a, <1>d DEF RetryPrompt, RunsWhileDriven, machine
<1>12. ASSUME NEW d \in Drivers, DrivePaused(d) PROVE RunsWhileDriven'
  BY <1>12, <1>a, <1>d DEF DrivePaused, Settle, DrainThen, RunsWhileDriven, machine
<1>13. ASSUME NEW d \in Drivers, DriveResolved(d) PROVE RunsWhileDriven'
  BY <1>13, <1>a, <1>d DEF DriveResolved, Settle, DrainThen, RunsWhileDriven, machine
<1>14. ASSUME NEW d \in Drivers, DriveRejected(d) PROVE RunsWhileDriven'
  <2>1. pc'[d] \in {"savingRetry", "savingEnd"}
        /\ \A e \in Activations : e # d => pc'[e] \in Ended
    BY <1>14, <1>a DEF DriveRejected
  <2> QED BY <2>1 DEF RunsWhileDriven
<1>15. ASSUME NEW d \in Drivers, EndSaved(d) PROVE RunsWhileDriven'
  BY <1>15, <1>a, <1>d DEF EndSaved, Settle, DrainThen, RunsWhileDriven, machine
<1>16. ASSUME NEW c \in Calls, ResumeTurn(c) PROVE RunsWhileDriven'
  BY <1>16, <1>a, <1>d DEF ResumeTurn, RunsWhileDriven, machine
<1>17. ASSUME NEW i \in Interrupts, Aborted(i) PROVE RunsWhileDriven'
  OBVIOUS
<1>18. ASSUME NEW a \in Activations, SettleIdle(a) PROVE RunsWhileDriven'
  <2>1. pc'[a] = "savingIdle" /\ \A e \in Activations : e # a => pc'[e] \in Ended
    BY <1>18, <1>a DEF SettleIdle
  <2> QED BY <2>1 DEF RunsWhileDriven
<1>19. ASSUME NEW a \in Activations, SettleTerminated(a) PROVE RunsWhileDriven'
  BY <1>19, <1>a, <1>d DEF SettleTerminated, RunsWhileDriven, machine
<1>20. ASSUME NEW a \in Activations, FinalSaved(a) PROVE RunsWhileDriven'
  BY <1>20, <1>a, <1>d DEF FinalSaved, RunsWhileDriven, machine
<1>21. ASSUME NEW a \in Activations, AnnounceIdle(a) PROVE RunsWhileDriven'
  BY <1>21, <1>a, <1>d DEF AnnounceIdle, RunsWhileDriven, machine
<1>22. ASSUME NEW a \in Activations, Stored(a) PROVE RunsWhileDriven'
  BY <1>22, <1>a, <1>d DEF Stored, RunsWhileDriven, machine
<1>23. ASSUME NEW a \in Activations, StoreFails(a) PROVE RunsWhileDriven'
  BY <1>23, <1>a, <1>d DEF StoreFails, RunsWhileDriven, machine
<1>24. ASSUME NEW u \in Usage, RecordUsage(u) PROVE RunsWhileDriven'
  BY <1>24, <1>a, <1>d DEF RecordUsage, RunsWhileDriven, machine
<1>25. ASSUME NEW u \in Usage, EnforceBudget(u) PROVE RunsWhileDriven'
  BY <1>25, <1>a, <1>d DEF EnforceBudget, RunsWhileDriven, machine
<1>26. ASSUME NEW u \in Usage, ReportUsage(u) PROVE RunsWhileDriven'
  BY <1>26, <1>a, <1>d DEF ReportUsage, RunsWhileDriven, machine
<1>27. ASSUME NEW m \in Messages, PromptSettles(m) PROVE RunsWhileDriven'
  BY <1>27, <1>a, <1>d DEF PromptSettles, RunsWhileDriven, machine
<1>28. ASSUME NEW m \in Messages, NEW c \in Calls, CoordinatorBlocks(m, c)
      PROVE  RunsWhileDriven'
  BY <1>28, <1>g, <1>a, <1>d
  DEF CoordinatorBlocks, ReleaseDrive, Waits, RunsWhileDriven, machine
<1>29. ASSUME NEW m \in Messages, NEW c \in Calls, QueueToolCall(m, c)
      PROVE  RunsWhileDriven'
  BY <1>29, <1>a, <1>d DEF QueueToolCall, RunsWhileDriven, machine
<1>30. ASSUME NEW c \in Calls, AwaitToolResult(c) PROVE RunsWhileDriven'
  BY <1>30, <1>g, <1>a, <1>d
  DEF AwaitToolResult, ReleaseDrive, Waits, RunsWhileDriven, machine
<1>31. ASSUME NEW c \in Calls, BufferResult(c) PROVE RunsWhileDriven'
  BY <1>31, <1>a, <1>d DEF BufferResult, RunsWhileDriven, machine
<1>32. ASSUME NEW c \in Calls, AnswerCall(c) PROVE RunsWhileDriven'
  <2>1. PcsAfterReport(c) = pc BY <1>32, AnswerReleasesNothing
  <2>2. \A e \in Activations : pc[e] \in Ended BY <1>32 DEF AnswerCall
  <2>3. \A e \in Activations : e # c => pc'[e] = pc[e] BY <1>32, <1>a, <2>1 DEF AnswerCall
  <2>4. pc'[c] \in {"done", "savingAdvert", "failed"} \/ sm'.status = "running"
    BY <1>32, <1>a, <1>f, <2>1 DEF AnswerCall
  <2> QED BY <2>2, <2>3, <2>4 DEF RunsWhileDriven
<1>33. ASSUME NEW i \in Interrupts, Interrupt(i) PROVE RunsWhileDriven'
  OBVIOUS
<1>34. CASE TimerFires
  BY <1>34, <1>a, <1>d DEF TimerFires, RunsWhileDriven, machine
<1>35. CASE CheckpointEnds
  BY <1>35, <1>a, <1>d DEF CheckpointEnds, RunsWhileDriven, machine
<1> QED
  BY <1>1, <1>2, <1>3, <1>4, <1>5, <1>6, <1>7, <1>8, <1>9, <1>10, <1>11, <1>12, <1>13,
     <1>14, <1>15, <1>16, <1>17, <1>18, <1>19, <1>20, <1>21, <1>22, <1>23, <1>24, <1>25,
     <1>26, <1>27, <1>28, <1>29, <1>30, <1>31, <1>32, <1>33, <1>34, <1>35
  DEF Next, Microtask, HandlerStep, AgentStep, ClientStep, MessageStep, SettleStep,
      UsageStep

LEMMA InCustodyStep ==
  ASSUME Overlap \subseteq {"fastBlock"}, Interrupts = {}, TypeOK, Custody, Serial, OneInFlight, OwnPrompt',
         InCustody, ParkedSays, Next
  PROVE  InCustody'
<1> USE OnlyOne, ArrivesQuiet, DriversAct DEF At, Ended
<1>a. pc \in [Activations -> Pcs] /\ act \in [Activations -> Locals] BY DEF TypeOK
<1>d. \A m \in Messages : m \notin Calls BY RuntimeAssumption
<1>e. prompt \in [Messages -> PromptStates] BY DEF TypeOK
<1>f. pendingPrompt \in Messages \cup {NoOne} BY DEF TypeOK
<1>g. waiter \in Drivers \cup {NoOne} BY DEF TypeOK
<1>h. \A m \in Messages : m \in Drivers BY DEF Drivers
<1>j. \A d \in Drivers : Holds(d) => prompt[act[d].driven] \in PromptStates \ {"none"}
  BY DEF Custody, Held, TypeOK
<1>1. ASSUME NEW m \in Messages, PostMessage(m) PROVE InCustody'
  BY <1>1, <1>a, <1>d, <1>e, <1>h
  DEF PostMessage, InCustody, Holds, Holding, Locals, turn, agent
<1>2. ASSUME NEW m \in Messages, SettleStop(m) PROVE InCustody'
  BY <1>2, <1>a, <1>d, <1>e, <1>h
  DEF SettleStop, InCustody, Holds, Holding, Locals, turn, agent
<1>3. ASSUME NEW m \in Messages, SandboxIsUp(m) PROVE InCustody'
  BY <1>3, <1>a, <1>d, <1>e, <1>h
  DEF SandboxIsUp, BeginRun, InCustody, Holds, Holding, Locals, turn, agent
<1>4. ASSUME NEW m \in Messages, SandboxIsStopped(m) PROVE InCustody'
  BY <1>4, <1>a, <1>d, <1>e, <1>h
  DEF SandboxIsStopped, InCustody, Holds, Holding, Locals, turn, agent
<1>5. ASSUME NEW m \in Messages, SandboxStarted(m) PROVE InCustody'
  BY <1>5, <1>a, <1>d, <1>e, <1>h
  DEF SandboxStarted, BeginRun, InCustody, Holds, Holding, Locals, turn, agent
<1>6. ASSUME NEW m \in Messages, SandboxStartFails(m) PROVE InCustody'
  BY <1>6, <1>a, <1>d, <1>e, <1>h
  DEF SandboxStartFails, InCustody, Holds, Holding, Locals, turn, agent
<1>7. ASSUME NEW m \in Messages, StartTurn(m) PROVE InCustody'
  BY <1>7, <1>a, <1>d, <1>e, <1>h
  DEF StartTurn, InCustody, Holds, Holding, Locals, turn, agent, TakeSlot, OwnPrompt
<1>8. ASSUME NEW m \in Messages, DecideReason(m) PROVE InCustody'
  BY <1>8, <1>a, <1>d, <1>e, <1>h
  DEF DecideReason, Settle, DrainThen, InCustody, Holds, Holding, Locals, turn, agent
<1>9. ASSUME NEW m \in Messages, BackOff(m) PROVE InCustody'
  BY <1>9, <1>a, <1>d, <1>e, <1>h
  DEF BackOff, InCustody, Holds, Holding, Locals, turn, agent
<1>10. ASSUME NEW m \in Messages, RetryDue(m) PROVE InCustody'
  <2>1. \A p \in Messages : prompt[p] # "inflight"
    BY <1>10 DEF RetryDue, OneInFlight, BetweenPrompts
  <2> QED BY <1>10, <2>1 DEF RetryDue, InCustody, agent
<1>11. ASSUME NEW m \in Messages, RetryPrompt(m) PROVE InCustody'
  BY <1>11, <1>a, <1>d, <1>e, <1>h
  DEF RetryPrompt, InCustody, Holds, Holding, Locals, turn, agent, OwnPrompt
<1>12. ASSUME NEW d \in Drivers, DrivePaused(d) PROVE InCustody'
  <2>1. Holds(d) BY <1>12 DEF DrivePaused, Holds, Holding
  <2>2. \A p \in Messages : prompt[p] = "inflight" => p = act[d].driven
    BY <2>1 DEF OneInFlight
  <2> QED BY <1>12, <2>2 DEF DrivePaused, InCustody, agent
<1>13. ASSUME NEW d \in Drivers, DriveResolved(d) PROVE InCustody'
  BY <1>13, <1>a, <1>d, <1>e, <1>h
  DEF DriveResolved, Settle, DrainThen, InCustody, Holds, Holding, Locals, turn, agent,
      OneInFlight, BetweenPrompts
<1>14. ASSUME NEW d \in Drivers, DriveRejected(d) PROVE InCustody'
  BY <1>14, <1>a, <1>d, <1>e, <1>h
  DEF DriveRejected, InCustody, Holds, Holding, Locals, turn, agent, OneInFlight,
      BetweenPrompts
<1>15. ASSUME NEW d \in Drivers, EndSaved(d) PROVE InCustody'
  BY <1>15, <1>a, <1>d, <1>e, <1>h
  DEF EndSaved, Settle, DrainThen, InCustody, Holds, Holding, Locals, turn, agent
<1>16. ASSUME NEW c \in Calls, ResumeTurn(c) PROVE InCustody'
  BY <1>16, <1>j, <1>a, <1>d, <1>e, <1>h
  DEF ResumeTurn, InCustody, Holds, Holding, Locals, turn, agent, TakeSlot, PromptStates
<1>17. ASSUME NEW i \in Interrupts, Aborted(i) PROVE InCustody'
  OBVIOUS
<1>18. ASSUME NEW a \in Activations, SettleIdle(a) PROVE InCustody'
  BY <1>18, <1>a, <1>d, <1>e, <1>h
  DEF SettleIdle, InCustody, Holds, Holding, Locals, turn, agent
<1>19. ASSUME NEW a \in Activations, SettleTerminated(a) PROVE InCustody'
  BY <1>19, <1>a, <1>d, <1>e, <1>h
  DEF SettleTerminated, InCustody, Holds, Holding, Locals, turn, agent
<1>20. ASSUME NEW a \in Activations, FinalSaved(a) PROVE InCustody'
  BY <1>20, <1>a, <1>d, <1>e, <1>h
  DEF FinalSaved, InCustody, Holds, Holding, Locals, turn, agent
<1>21. ASSUME NEW a \in Activations, AnnounceIdle(a) PROVE InCustody'
  BY <1>21, <1>a, <1>d, <1>e, <1>h
  DEF AnnounceIdle, InCustody, Holds, Holding, Locals, turn, agent
<1>22. ASSUME NEW a \in Activations, Stored(a) PROVE InCustody'
  BY <1>22, <1>a, <1>d, <1>e, <1>h
  DEF Stored, InCustody, Holds, Holding, Locals, turn, agent
<1>23. ASSUME NEW a \in Activations, StoreFails(a) PROVE InCustody'
  BY <1>23, <1>a, <1>d, <1>e, <1>h
  DEF StoreFails, InCustody, Holds, Holding, Locals, turn, agent
<1>24. ASSUME NEW u \in Usage, RecordUsage(u) PROVE InCustody'
  BY <1>24, <1>a, <1>d, <1>e, <1>h
  DEF RecordUsage, InCustody, Holds, Holding, Locals, turn, agent
<1>25. ASSUME NEW u \in Usage, EnforceBudget(u) PROVE InCustody'
  BY <1>25, <1>a, <1>d, <1>e, <1>h
  DEF EnforceBudget, InCustody, Holds, Holding, Locals, turn, agent
<1>26. ASSUME NEW u \in Usage, ReportUsage(u) PROVE InCustody'
  BY <1>26, <1>a, <1>d, <1>e, <1>h
  DEF ReportUsage, InCustody, Holds, Holding, Locals, turn, agent
<1>27. ASSUME NEW m \in Messages, PromptSettles(m) PROVE InCustody'
  <2> SUFFICES ASSUME NEW p \in Messages, prompt'[p] = "inflight", p # pendingPrompt
               PROVE  \E d \in Drivers : Holds(d)' /\ act[d].driven = p
    BY <1>27 DEF PromptSettles, InCustody, turn
  <2>1. prompt[p] = "inflight" BY <1>27, <1>e DEF PromptSettles
  <2>2. PICK d \in Drivers : Holds(d) /\ act[d].driven = p BY <2>1 DEF InCustody
  <2>3. Holds(d)' BY <1>27, <2>2 DEF PromptSettles, Holds, Holding
  <2> QED BY <2>2, <2>3
<1>28. ASSUME NEW m \in Messages, NEW c \in Calls, CoordinatorBlocks(m, c) PROVE InCustody'
  BY <1>28, <1>g, <1>a, <1>d, <1>e, <1>h
  DEF CoordinatorBlocks, ReleaseDrive, Waits, Custody, InCustody, Holds, Holding, Locals,
      turn, agent
<1>29. ASSUME NEW m \in Messages, NEW c \in Calls, QueueToolCall(m, c) PROVE InCustody'
  BY <1>29, <1>a, <1>d, <1>e, <1>h
  DEF QueueToolCall, InCustody, Holds, Holding, Locals, turn, agent
<1>30. ASSUME NEW c \in Calls, AwaitToolResult(c) PROVE InCustody'
  BY <1>30, <1>g, <1>a, <1>d, <1>e, <1>h
  DEF AwaitToolResult, ReleaseDrive, Waits, Custody, InCustody, Holds, Holding, Locals,
      turn, agent
<1>31. ASSUME NEW c \in Calls, BufferResult(c) PROVE InCustody'
  BY <1>31, <1>a, <1>d, <1>e, <1>h
  DEF BufferResult, InCustody, Holds, Holding, Locals, turn, agent
<1>32. ASSUME NEW c \in Calls, AnswerCall(c) PROVE InCustody'
  <2>1. PcsAfterReport(c) = pc BY <1>32, AnswerReleasesNothing DEF Custody
  <2>2. \A e \in Activations : pc[e] \in Ended BY <1>32 DEF AnswerCall
  <2>3. \A p \in Messages : prompt[p] = "inflight" => p = pendingPrompt
    BY <2>2 DEF InCustody, Holds, Holding
  <2>4. sm.status = "terminated" => pendingPrompt = NoOne
    BY <2>2 DEF ParkedSays, Parking, Waiting, Asks
  <2>5. \/ pendingPrompt' = pendingPrompt
        \/ pc'[c] = "savingResume" /\ act'[c].driven = pendingPrompt
    BY <1>32, <1>a, <2>1, <2>4 DEF AnswerCall, Locals
  <2>6. UNCHANGED prompt BY <1>32 DEF AnswerCall
  <2> QED BY <2>3, <2>5, <2>6 DEF InCustody, Holds, Holding
<1>33. ASSUME NEW i \in Interrupts, Interrupt(i) PROVE InCustody'
  OBVIOUS
<1>34. CASE TimerFires
  BY <1>34, <1>a, <1>d, <1>e, <1>h
  DEF TimerFires, InCustody, Holds, Holding, Locals, turn, agent
<1>35. CASE CheckpointEnds
  BY <1>35, <1>a, <1>d, <1>e, <1>h
  DEF CheckpointEnds, InCustody, Holds, Holding, Locals, turn, agent
<1> QED
  BY <1>1, <1>2, <1>3, <1>4, <1>5, <1>6, <1>7, <1>8, <1>9, <1>10, <1>11, <1>12, <1>13,
     <1>14, <1>15, <1>16, <1>17, <1>18, <1>19, <1>20, <1>21, <1>22, <1>23, <1>24, <1>25,
     <1>26, <1>27, <1>28, <1>29, <1>30, <1>31, <1>32, <1>33, <1>34, <1>35
  DEF Next, Microtask, HandlerStep, AgentStep, ClientStep, MessageStep, SettleStep,
      UsageStep

\* A call that blocks marks the turn that owns the slot.
LEMMA BlockMarks ==
  ASSUME TypeOK, NEW ids \in SUBSET Calls, MarkBlocked(ids)
  PROVE  /\ turnFlags \in Drivers => flags'[turnFlags].blocking = ids
         /\ \A d \in Drivers : d # turnFlags => flags'[d] = flags[d]
<1> flags \in [Drivers -> TurnFlags] /\ turnFlags \in Drivers \cup {NoOne} BY DEF TypeOK
<1>1. CASE turnFlags = NoOne
  BY <1>1, RuntimeAssumption DEF MarkBlocked, Drivers, Activations
<1>2. CASE turnFlags # NoOne
  <2>1. flags[turnFlags] \in TurnFlags BY <1>2
  <2> DEFINE r == [[flags[turnFlags] EXCEPT !.requires = TRUE] EXCEPT !.blocking = ids]
  <2>2. r.blocking = ids BY <2>1 DEF TurnFlags
  <2>3. flags' = [flags EXCEPT ![turnFlags] = r] BY <1>2 DEF MarkBlocked
  <2> HIDE DEF r
  <2> QED BY <2>2, <2>3
<1> QED BY <1>1, <1>2

LEMMA TellsBlockedStep ==
  ASSUME Overlap \subseteq {"fastBlock"}, Interrupts = {}, TypeOK, Held, Waits, Serial, SlotOwned, WaitingCalls, Unmarked,
         TellsBlocked, Next
  PROVE  TellsBlocked'
<1> USE OnlyOne, ArrivesQuiet, DriversAct DEF At, Ended
<1>a. pc \in [Activations -> Pcs] /\ act \in [Activations -> Locals] BY DEF TypeOK
<1>d. \A m \in Messages : m \notin Calls BY RuntimeAssumption
<1>e. call \in [Calls -> {"none", "queued", "buffered", "blocked", "answered"}]
  BY DEF TypeOK
<1>f. flags \in [Drivers -> TurnFlags] BY DEF TypeOK
<1>g. waiter \in Drivers \cup {NoOne} BY DEF TypeOK
<1>j. \A d \in Drivers : Holds(d) => prompt[act[d].driven] \in PromptStates
  BY DEF Held, TypeOK
<1>h. NoOne # "requires_action" BY RuntimeAssumption
<1>i. ASSUME NEW c \in Calls, NEW ids \in SUBSET Calls, c \in ids, MarkBlocked(ids),
             call' = [call EXCEPT ![c] = "blocked"], pc' = ReleaseDrive(pc), UNCHANGED act
      PROVE  TellsBlocked'
  <2> SUFFICES ASSUME NEW d \in Drivers, pc'[d] = "paused" \/ Asks(d)'
               PROVE  \E x \in Blocked' : x \in flags'[d].blocking
    BY DEF TellsBlocked
  <2>1. \/ pc[d] \in {"paused", "driving", "resolved", "transient", "fatal"}
        \/ pc[d] \in {"settling", "savingIdle"}
    BY <1>a, <1>g, <1>i DEF ReleaseDrive, Asks, Waits
  <2>2. turnFlags = d BY <2>1 DEF SlotOwned, OwnsSlot, Holding
  <2>3. flags'[d].blocking = ids BY <1>i, <2>2, BlockMarks
  <2>4. c \in Blocked' BY <1>e, <1>i DEF Blocked
  <2> QED BY <1>i, <2>3, <2>4
<1>1. ASSUME NEW m \in Messages, PostMessage(m) PROVE TellsBlocked'
  BY <1>1, <1>a, <1>d, <1>e, <1>f, <1>h
  DEF PostMessage, TellsBlocked, Asks, Blocked, Locals, turn, agent
<1>2. ASSUME NEW m \in Messages, SettleStop(m) PROVE TellsBlocked'
  BY <1>2, <1>a, <1>d, <1>e, <1>f, <1>h
  DEF SettleStop, TellsBlocked, Asks, Blocked, Locals, turn, agent
<1>3. ASSUME NEW m \in Messages, SandboxIsUp(m) PROVE TellsBlocked'
  BY <1>3, <1>a, <1>d, <1>e, <1>f, <1>h
  DEF SandboxIsUp, BeginRun, TellsBlocked, Asks, Blocked, Locals, turn, agent
<1>4. ASSUME NEW m \in Messages, SandboxIsStopped(m) PROVE TellsBlocked'
  BY <1>4, <1>a, <1>d, <1>e, <1>f, <1>h
  DEF SandboxIsStopped, TellsBlocked, Asks, Blocked, Locals, turn, agent
<1>5. ASSUME NEW m \in Messages, SandboxStarted(m) PROVE TellsBlocked'
  BY <1>5, <1>a, <1>d, <1>e, <1>f, <1>h
  DEF SandboxStarted, BeginRun, TellsBlocked, Asks, Blocked, Locals, turn, agent
<1>6. ASSUME NEW m \in Messages, SandboxStartFails(m) PROVE TellsBlocked'
  BY <1>6, <1>a, <1>d, <1>e, <1>f, <1>h
  DEF SandboxStartFails, TellsBlocked, Asks, Blocked, Locals, turn, agent
<1>7. ASSUME NEW m \in Messages, StartTurn(m) PROVE TellsBlocked'
  BY <1>7, <1>a, <1>d, <1>e, <1>f, <1>h
  DEF StartTurn, TellsBlocked, Asks, Blocked, Locals, turn, agent, TakeSlot
<1>8. ASSUME NEW m \in Messages, DecideReason(m) PROVE TellsBlocked'
  BY <1>8, <1>a, <1>d, <1>e, <1>f, <1>h
  DEF DecideReason, Settle, DrainThen, TellsBlocked, Asks, Blocked, Locals, turn, agent
<1>9. ASSUME NEW m \in Messages, BackOff(m) PROVE TellsBlocked'
  BY <1>9, <1>a, <1>d, <1>e, <1>f, <1>h
  DEF BackOff, TellsBlocked, Asks, Blocked, Locals, turn, agent
<1>10. ASSUME NEW m \in Messages, RetryDue(m) PROVE TellsBlocked'
  BY <1>10, <1>a, <1>d, <1>e, <1>f, <1>h
  DEF RetryDue, BeginRun, TellsBlocked, Asks, Blocked, Locals, turn, agent
<1>11. ASSUME NEW m \in Messages, RetryPrompt(m) PROVE TellsBlocked'
  BY <1>11, <1>a, <1>d, <1>e, <1>f, <1>h
  DEF RetryPrompt, TellsBlocked, Asks, Blocked, Locals, turn, agent, Unmarked
<1>12. ASSUME NEW d \in Drivers, DrivePaused(d) PROVE TellsBlocked'
  BY <1>12, <1>a, <1>d, <1>e, <1>f, <1>h
  DEF DrivePaused, Settle, DrainThen, TellsBlocked, Asks, Blocked, Locals, turn, agent
<1>13. ASSUME NEW d \in Drivers, DriveResolved(d) PROVE TellsBlocked'
  BY <1>13, <1>a, <1>d, <1>e, <1>f, <1>h
  DEF DriveResolved, Settle, DrainThen, TellsBlocked, Asks, Blocked, Locals, turn, agent
<1>14. ASSUME NEW d \in Drivers, DriveRejected(d) PROVE TellsBlocked'
  BY <1>14, <1>a, <1>d, <1>e, <1>f, <1>h
  DEF DriveRejected, TellsBlocked, Asks, Blocked, Locals, turn, agent
<1>15. ASSUME NEW d \in Drivers, EndSaved(d) PROVE TellsBlocked'
  BY <1>15, <1>a, <1>d, <1>e, <1>f, <1>h
  DEF EndSaved, Settle, DrainThen, TellsBlocked, Asks, Blocked, Locals, turn, agent
<1>16. ASSUME NEW c \in Calls, ResumeTurn(c) PROVE TellsBlocked'
  <2>1. \A e \in Activations : e # c => pc'[e] \in Ended BY <1>16, <1>a DEF ResumeTurn
  <2>2. pc'[c] \notin {"paused", "settling", "savingIdle"}
    BY <1>16, <1>a, <1>j DEF ResumeTurn, PromptStates, Holds, Holding
  <2> QED BY <2>1, <2>2 DEF TellsBlocked, Asks
<1>17. ASSUME NEW i \in Interrupts, Aborted(i) PROVE TellsBlocked'
  OBVIOUS
<1>18. ASSUME NEW a \in Activations, SettleIdle(a) PROVE TellsBlocked'
  BY <1>18, <1>a, <1>d, <1>e, <1>f, <1>h
  DEF SettleIdle, TellsBlocked, Asks, Blocked, Locals, turn, agent
<1>19. ASSUME NEW a \in Activations, SettleTerminated(a) PROVE TellsBlocked'
  BY <1>19, <1>a, <1>d, <1>e, <1>f, <1>h
  DEF SettleTerminated, TellsBlocked, Asks, Blocked, Locals, turn, agent
<1>20. ASSUME NEW a \in Activations, FinalSaved(a) PROVE TellsBlocked'
  BY <1>20, <1>a, <1>d, <1>e, <1>f, <1>h
  DEF FinalSaved, TellsBlocked, Asks, Blocked, Locals, turn, agent
<1>21. ASSUME NEW a \in Activations, AnnounceIdle(a) PROVE TellsBlocked'
  BY <1>21, <1>a, <1>d, <1>e, <1>f, <1>h
  DEF AnnounceIdle, TellsBlocked, Asks, Blocked, Locals, turn, agent
<1>22. ASSUME NEW a \in Activations, Stored(a) PROVE TellsBlocked'
  BY <1>22, <1>a, <1>d, <1>e, <1>f, <1>h
  DEF Stored, TellsBlocked, Asks, Blocked, Locals, turn, agent
<1>23. ASSUME NEW a \in Activations, StoreFails(a) PROVE TellsBlocked'
  BY <1>23, <1>a, <1>d, <1>e, <1>f, <1>h
  DEF StoreFails, TellsBlocked, Asks, Blocked, Locals, turn, agent
<1>24. ASSUME NEW u \in Usage, RecordUsage(u) PROVE TellsBlocked'
  BY <1>24, <1>a, <1>d, <1>e, <1>f, <1>h
  DEF RecordUsage, TellsBlocked, Asks, Blocked, Locals, turn, agent
<1>25. ASSUME NEW u \in Usage, EnforceBudget(u) PROVE TellsBlocked'
  BY <1>25, <1>a, <1>d, <1>e, <1>f, <1>h
  DEF EnforceBudget, TellsBlocked, Asks, Blocked, Locals, turn, agent, TurnFlags
<1>26. ASSUME NEW u \in Usage, ReportUsage(u) PROVE TellsBlocked'
  BY <1>26, <1>a, <1>d, <1>e, <1>f, <1>h
  DEF ReportUsage, TellsBlocked, Asks, Blocked, Locals, turn, agent
<1>27. ASSUME NEW m \in Messages, PromptSettles(m) PROVE TellsBlocked'
  BY <1>27, <1>a, <1>d, <1>e, <1>f, <1>h
  DEF PromptSettles, TellsBlocked, Asks, Blocked, Locals, turn, agent
<1>28. ASSUME NEW m \in Messages, NEW c \in Calls, CoordinatorBlocks(m, c)
      PROVE  TellsBlocked'
  <2>1. SameCoordinator(c) \cup {c} \in SUBSET Calls BY DEF SameCoordinator, Blocked
  <2> QED BY <1>28, <1>i, <2>1 DEF CoordinatorBlocks
<1>29. ASSUME NEW m \in Messages, NEW c \in Calls, QueueToolCall(m, c) PROVE TellsBlocked'
  <2>1. callOf[c] = NoOne BY <1>29 DEF QueueToolCall, MayBlock
  <2>2. call[c] # "blocked" BY <2>1, RuntimeAssumption DEF WaitingCalls, Activations
  <2>3. Blocked \subseteq Blocked' BY <1>29, <1>e, <2>2 DEF QueueToolCall, Blocked
  <2> QED BY <1>29, <2>3 DEF QueueToolCall, TellsBlocked, Asks, turn
<1>30. ASSUME NEW c \in Calls, AwaitToolResult(c) PROVE TellsBlocked'
  <2>1. CASE call[c] = "queued"
    <3>1. Blocked \cup {c} \in SUBSET Calls BY DEF Blocked
    <3> QED BY <1>30, <1>i, <2>1, <3>1 DEF AwaitToolResult
  <2>2. CASE call[c] = "buffered"
    <3>1. Blocked' = Blocked BY <1>30, <1>e, <2>2 DEF AwaitToolResult, Blocked
    <3> QED BY <1>30, <2>2, <3>1 DEF AwaitToolResult, TellsBlocked, Asks
  <2> QED BY <1>30, <2>1, <2>2 DEF AwaitToolResult
<1>31. ASSUME NEW c \in Calls, BufferResult(c) PROVE TellsBlocked'
  BY <1>31, <1>a, <1>d, <1>e, <1>f, <1>h
  DEF BufferResult, TellsBlocked, Asks, Blocked, Locals, turn, agent
<1>32. ASSUME NEW c \in Calls, AnswerCall(c) PROVE TellsBlocked'
  <2>1. PcsAfterReport(c) = pc BY <1>32, AnswerReleasesNothing
  <2>2. \A e \in Activations : pc[e] \in Ended BY <1>32 DEF AnswerCall
  <2>3. \A e \in Activations : e # c => pc'[e] = pc[e] BY <1>32, <1>a, <2>1 DEF AnswerCall
  <2>4. pc'[c] \in {"done", "savingAdvert", "failed", "savingResume"}
    BY <1>32, <1>a, <2>1 DEF AnswerCall
  <2> QED BY <2>2, <2>3, <2>4 DEF TellsBlocked, Asks
<1>33. ASSUME NEW i \in Interrupts, Interrupt(i) PROVE TellsBlocked'
  OBVIOUS
<1>34. CASE TimerFires
  BY <1>34, <1>a, <1>d, <1>e, <1>f, <1>h
  DEF TimerFires, TellsBlocked, Asks, Blocked, Locals, turn, agent
<1>35. CASE CheckpointEnds
  BY <1>35, <1>a, <1>d, <1>e, <1>f, <1>h
  DEF CheckpointEnds, TellsBlocked, Asks, Blocked, Locals, turn, agent
<1> QED
  BY <1>1, <1>2, <1>3, <1>4, <1>5, <1>6, <1>7, <1>8, <1>9, <1>10, <1>11, <1>12, <1>13,
     <1>14, <1>15, <1>16, <1>17, <1>18, <1>19, <1>20, <1>21, <1>22, <1>23, <1>24, <1>25,
     <1>26, <1>27, <1>28, <1>29, <1>30, <1>31, <1>32, <1>33, <1>34, <1>35
  DEF Next, Microtask, HandlerStep, AgentStep, ClientStep, MessageStep, SettleStep,
      UsageStep

LEMMA ParkedSaysStep ==
  ASSUME Overlap \subseteq {"fastBlock"}, Interrupts = {}, TypeOK, Waits, EndsTerminated, Serial, SlotOwned,
         OneInFlight, WaitingCalls, ParkedWaits, RunsWhileDriven, TellsBlocked, ParkedSays, Next
  PROVE  ParkedSays'
<1> USE OnlyOne, ArrivesQuiet, DriversAct DEF At, Ended
<1>a. pc \in [Activations -> Pcs] /\ act \in [Activations -> Locals] BY DEF TypeOK
<1>d. \A m \in Messages : m \notin Calls BY RuntimeAssumption
<1>e. call \in [Calls -> {"none", "queued", "buffered", "blocked", "answered"}]
  BY DEF TypeOK
<1>f. sm \in Machine BY DEF TypeOK
<1>g. waiter \in Drivers \cup {NoOne} BY DEF TypeOK
<1>h. NoOne # "requires_action" /\ NoOne \notin Drivers
  BY RuntimeAssumption DEF Drivers, Activations
<1>i. pendingPrompt # NoOne => \E p \in Messages : prompt[p] = "inflight"
  BY DEF ParkedWaits, WaitsFor, Blocked, WaitingCalls
<1>j. ASSUME NEW d \in Drivers, pc[d] \in BetweenPrompts PROVE pendingPrompt = NoOne
  BY <1>i, <1>j DEF OneInFlight
\* Neither a new call that blocks nor a step beside the handler changes what is said.
<1>k. ASSUME Blocked \subseteq Blocked', told \subseteq told',
             \A d \in Drivers : pc'[d] = pc[d] \/ (pc[d] \in Ended /\ pc'[d] \in Ended),
             UNCHANGED <<sm, pendingPrompt, act>>
      PROVE  ParkedSays'
  <2> SUFFICES ASSUME pendingPrompt # NoOne PROVE Parking' \/ Waiting'
    BY <1>k DEF ParkedSays
  <2>1. CASE Parking
    <3>1. Parking' BY <1>k, <2>1 DEF Parking, Asks
    <3> QED BY <3>1
  <2>2. CASE Waiting
    <3>1. Announced'
      <4>1. CASE \E d \in Drivers : pc[d] = "savingIdle" /\ Asks(d)
        BY <1>k, <4>1 DEF Announced, Asks
      <4>2. CASE \E c \in Blocked : Known(c) BY <1>k, <4>2 DEF Announced, Known
      <4> QED BY <2>2, <4>1, <4>2 DEF Waiting, Announced
    <3> QED BY <1>k, <2>2, <3>1 DEF Waiting, Busy
  <2> QED BY <2>1, <2>2 DEF ParkedSays
<1>l. pendingPrompt # NoOne => waiter = NoOne
  BY <1>g
  DEF ParkedSays, Parking, Waiting, Waits, Busy, Asks, Serial, Drivers, Activations
<1>1. ASSUME NEW m \in Messages, PostMessage(m) PROVE ParkedSays'
  <2>1. pendingPrompt = NoOne BY <1>1, <1>i DEF PostMessage
  <2> QED BY <1>1, <2>1 DEF PostMessage, ParkedSays, turn
<1>2. ASSUME NEW m \in Messages, SettleStop(m) PROVE ParkedSays'
  <2>1. pendingPrompt = NoOne BY <1>2, <1>j DEF SettleStop, BetweenPrompts
  <2> QED BY <1>2, <2>1 DEF SettleStop, turn, ParkedSays
<1>3. ASSUME NEW m \in Messages, SandboxIsUp(m) PROVE ParkedSays'
  <2>1. pendingPrompt = NoOne BY <1>3, <1>j DEF SandboxIsUp, BetweenPrompts
  <2> QED BY <1>3, <2>1 DEF SandboxIsUp, turn, ParkedSays
<1>4. ASSUME NEW m \in Messages, SandboxIsStopped(m) PROVE ParkedSays'
  <2>1. pendingPrompt = NoOne BY <1>4, <1>j DEF SandboxIsStopped, BetweenPrompts
  <2> QED BY <1>4, <2>1 DEF SandboxIsStopped, turn, ParkedSays
<1>5. ASSUME NEW m \in Messages, SandboxStarted(m) PROVE ParkedSays'
  <2>1. pendingPrompt = NoOne BY <1>5, <1>j DEF SandboxStarted, BetweenPrompts
  <2> QED BY <1>5, <2>1 DEF SandboxStarted, turn, ParkedSays
<1>6. ASSUME NEW m \in Messages, SandboxStartFails(m) PROVE ParkedSays'
  <2>1. pendingPrompt = NoOne BY <1>6, <1>j DEF SandboxStartFails, BetweenPrompts
  <2> QED BY <1>6, <2>1 DEF SandboxStartFails, turn, ParkedSays
<1>7. ASSUME NEW m \in Messages, StartTurn(m) PROVE ParkedSays'
  <2>1. pendingPrompt = NoOne BY <1>7, <1>j DEF StartTurn, BetweenPrompts
  <2> QED BY <1>7, <2>1 DEF StartTurn, ParkedSays
<1>8. ASSUME NEW m \in Messages, DecideReason(m) PROVE ParkedSays'
  <2>1. pendingPrompt = NoOne BY <1>8, <1>j DEF DecideReason, BetweenPrompts
  <2> QED BY <1>8, <2>1 DEF DecideReason, turn, ParkedSays
<1>9. ASSUME NEW m \in Messages, BackOff(m) PROVE ParkedSays'
  <2>1. pendingPrompt = NoOne BY <1>9, <1>j DEF BackOff, BetweenPrompts
  <2> QED BY <1>9, <2>1 DEF BackOff, turn, ParkedSays
<1>10. ASSUME NEW m \in Messages, RetryDue(m) PROVE ParkedSays'
  <2>1. pendingPrompt = NoOne BY <1>10, <1>j DEF RetryDue, BetweenPrompts
  <2> QED BY <1>10, <2>1 DEF RetryDue, turn, ParkedSays
<1>11. ASSUME NEW m \in Messages, RetryPrompt(m) PROVE ParkedSays'
  <2>1. pendingPrompt = NoOne BY <1>11, <1>j DEF RetryPrompt, BetweenPrompts
  <2> QED BY <1>11, <2>1 DEF RetryPrompt, ParkedSays
<1>12. ASSUME NEW d \in Drivers, DrivePaused(d) PROVE ParkedSays'
  <2>1. /\ pc'[d] = "settling" /\ act'[d].reason = "requires_action"
        /\ sm' = sm
    BY <1>12, <1>a DEF DrivePaused, Settle, DrainThen, Locals, machine
  <2>2. sm.status = "running" BY <1>12 DEF DrivePaused, RunsWhileDriven
  <2> QED BY <2>1, <2>2 DEF ParkedSays, Parking, Asks
<1>13. ASSUME NEW d \in Drivers, DriveResolved(d) PROVE ParkedSays'
  <2>1. pendingPrompt = NoOne BY <1>13, <1>j DEF DriveResolved, BetweenPrompts
  <2> QED BY <1>13, <2>1 DEF DriveResolved, ParkedSays
<1>14. ASSUME NEW d \in Drivers, DriveRejected(d) PROVE ParkedSays'
  <2>1. pendingPrompt = NoOne BY <1>14, <1>j DEF DriveRejected, BetweenPrompts
  <2> QED BY <1>14, <2>1 DEF DriveRejected, ParkedSays
<1>15. ASSUME NEW d \in Drivers, EndSaved(d) PROVE ParkedSays'
  <2>1. pc[d] = "savingEnd" /\ sm.status = "terminated" BY <1>15 DEF EndSaved, EndsTerminated
  <2>2. pendingPrompt = NoOne BY <2>1 DEF ParkedSays, Parking, Waiting
  <2> QED BY <1>15, <2>2 DEF EndSaved, ParkedSays
<1>16. ASSUME NEW c \in Calls, ResumeTurn(c) PROVE ParkedSays'
  <2>1. pc[c] = "savingResume" BY <1>16 DEF ResumeTurn
  <2>2. pendingPrompt = NoOne
    BY <2>1 DEF ParkedSays, Parking, Waiting, Busy, Asks
  <2> QED BY <1>16, <2>2 DEF ResumeTurn, ParkedSays
<1>17. ASSUME NEW i \in Interrupts, Aborted(i) PROVE ParkedSays'
  OBVIOUS
<1>18. ASSUME NEW a \in Activations, SettleIdle(a) PROVE ParkedSays'
  <2> SUFFICES ASSUME pendingPrompt # NoOne PROVE Waiting'
    BY <1>18 DEF SettleIdle, ParkedSays, turn
  <2>1. pc[a] = "settling" BY <1>18 DEF SettleIdle
  <2>2. \A e \in Activations : e # a => pc[e] \in Ended BY <2>1
  <2>3. Parking
    <3>1. CASE Waiting /\ a \notin Drivers
      <4>1. a \in Interrupts BY <3>1 DEF Drivers, Activations
      <4> QED BY <4>1
    <3> QED BY <2>1, <3>1 DEF ParkedSays, Waiting, Busy
  <2>4. a \in Drivers /\ act[a].reason = "requires_action" /\ sm.status = "running"
    BY <2>2, <2>3 DEF Parking, Asks
  <2> DEFINE ids == IF turnFlags = NoOne THEN sm.blocking ELSE flags[turnFlags].blocking
  <2>5. ids \in SUBSET Calls BY DEF TypeOK, TurnFlags, Machine
  <2>6. sm' = RequiresAction(sm, ids) BY <1>18, <2>4 DEF SettleIdle, SettledState
  <2> HIDE DEF ids
  <2>7. sm'.status = "idle" /\ sm'.stopReason = "requires_action"
    BY <1>f, <2>4, <2>5, <2>6, LiveStatus
  <2>8. pc'[a] = "savingIdle" /\ act'[a].reason = "requires_action"
    BY <1>18, <1>a, <2>4 DEF SettleIdle, Locals
  <2>9. \A e \in Activations : e # a => pc'[e] \in Ended BY <1>18, <1>a, <2>2 DEF SettleIdle
  <2> QED BY <2>4, <2>7, <2>8, <2>9 DEF Waiting, Announced, Asks, Busy
<1>19. ASSUME NEW a \in Activations, SettleTerminated(a) PROVE ParkedSays'
  <2>1. pendingPrompt = NoOne BY <1>19 DEF SettleTerminated, ParkedSays, Parking, Waiting
  <2> QED BY <1>19, <2>1 DEF SettleTerminated, ParkedSays, turn
<1>20. ASSUME NEW a \in Activations, FinalSaved(a) PROVE ParkedSays'
  <2> SUFFICES ASSUME pendingPrompt # NoOne PROVE Waiting'
    BY <1>20 DEF FinalSaved, ParkedSays, turn
  <2>1. pc[a] \in {"savingFinal", "savingAdvert"} BY <1>20 DEF FinalSaved
  <2>2. \A e \in Activations : e # a => pc[e] \in Ended BY <2>1
  <2>3. Waiting BY <2>1, <2>2 DEF ParkedSays, Parking, Asks
  <2>4. \E c \in Blocked : Known(c) BY <2>1, <2>2, <2>3 DEF Waiting, Announced, Asks
  <2>5. \A e \in Activations : pc'[e] \in Ended BY <1>20, <1>a, <2>2 DEF FinalSaved
  <2>6. UNCHANGED <<sm, call, told>> BY <1>20 DEF FinalSaved, machine, agent
  <2> QED BY <2>3, <2>4, <2>5, <2>6 DEF Waiting, Announced, Blocked, Known, Busy
<1>21. ASSUME NEW a \in Activations, AnnounceIdle(a) PROVE ParkedSays'
  <2> SUFFICES ASSUME pendingPrompt # NoOne PROVE Waiting'
    BY <1>21 DEF AnnounceIdle, ParkedSays, turn
  <2>1. pc[a] = "savingIdle" BY <1>21 DEF AnnounceIdle
  <2>2. \A e \in Activations : e # a => pc[e] \in Ended BY <2>1
  <2>3. Waiting BY <2>1, <2>2 DEF ParkedSays, Parking, Asks
  <2>4. a \in Drivers
    <3>1. a \in Interrupts \/ a \in Drivers BY DEF Drivers, Activations
    <3> QED BY <3>1
  <2>5. turnFlags = a /\ turnFlags # NoOne BY <1>h, <2>1, <2>4 DEF SlotOwned, OwnsSlot
  <2>6. told' = told \cup flags[a].blocking BY <1>21, <2>5 DEF AnnounceIdle
  <2>7. UNCHANGED <<sm, call>> BY <1>21 DEF AnnounceIdle
  <2>8. \E c \in Blocked : c \in told' \/ Known(c)
    <3>1. CASE Asks(a) BY <2>4, <2>6, <3>1 DEF TellsBlocked
    <3>2. CASE \E c \in Blocked : Known(c) BY <3>2
    <3> QED BY <2>2, <2>3, <3>1, <3>2 DEF Waiting, Announced, Asks
  <2>9. \E c \in Blocked' : Known(c)' BY <2>6, <2>7, <2>8 DEF Blocked, Known
  <2>10. pc'[a] = "storing" /\ \A e \in Activations : e # a => pc'[e] \in Ended
    BY <1>21, <1>a, <2>2 DEF AnnounceIdle
  <2> QED BY <2>3, <2>7, <2>9, <2>10 DEF Waiting, Announced, Busy
<1>22. ASSUME NEW a \in Activations, Stored(a) PROVE ParkedSays'
  <2> SUFFICES ASSUME pendingPrompt # NoOne PROVE Waiting'
    BY <1>22 DEF Stored, ParkedSays
  <2>1. pc[a] \in {"storing"} BY <1>22 DEF Stored
  <2>2. \A e \in Activations : e # a => pc[e] \in Ended BY <2>1
  <2>3. Waiting BY <2>1, <2>2 DEF ParkedSays, Parking, Asks
  <2>4. \E c \in Blocked : Known(c) BY <2>1, <2>2, <2>3 DEF Waiting, Announced, Asks
  <2>5. \A e \in Activations : pc'[e] \in Ended BY <1>22, <1>a, <2>2 DEF Stored
  <2>6. UNCHANGED <<sm, call, told>> BY <1>22 DEF Stored, machine, agent
  <2> QED BY <2>3, <2>4, <2>5, <2>6 DEF Waiting, Announced, Blocked, Known, Busy
<1>23. ASSUME NEW a \in Activations, StoreFails(a) PROVE ParkedSays'
  <2> SUFFICES ASSUME pendingPrompt # NoOne PROVE Waiting'
    BY <1>23 DEF StoreFails, ParkedSays, turn
  <2>1. pc[a] \in {"storing"} BY <1>23 DEF StoreFails
  <2>2. \A e \in Activations : e # a => pc[e] \in Ended BY <2>1
  <2>3. Waiting BY <2>1, <2>2 DEF ParkedSays, Parking, Asks
  <2>4. \E c \in Blocked : Known(c) BY <2>1, <2>2, <2>3 DEF Waiting, Announced, Asks
  <2>5. \A e \in Activations : pc'[e] \in Ended BY <1>23, <1>a, <2>2 DEF StoreFails
  <2>6. UNCHANGED <<sm, call, told>> BY <1>23 DEF StoreFails, machine, agent
  <2> QED BY <2>3, <2>4, <2>5, <2>6 DEF Waiting, Announced, Blocked, Known, Busy
<1>24. ASSUME NEW u \in Usage, RecordUsage(u) PROVE ParkedSays'
  BY <1>24, <1>k DEF RecordUsage, machine, turn, agent, Blocked
<1>25. ASSUME NEW u \in Usage, EnforceBudget(u) PROVE ParkedSays'
  BY <1>25, <1>k DEF EnforceBudget, machine, agent, Blocked
<1>26. ASSUME NEW u \in Usage, ReportUsage(u) PROVE ParkedSays'
  BY <1>26, <1>k DEF ReportUsage, machine, turn, agent, Blocked
<1>27. ASSUME NEW m \in Messages, PromptSettles(m) PROVE ParkedSays'
  <2> SUFFICES ASSUME pendingPrompt # NoOne PROVE ParkedSays'
    BY <1>27 DEF PromptSettles, ParkedSays, turn
  <2>1. \A d \in Drivers : pc[d] # "driving"
    BY DEF ParkedSays, Parking, Waiting, Busy, Asks
  <2>2. \A d \in Drivers : pc'[d] = pc[d] BY <1>27, <2>1 DEF PromptSettles
  <2> QED BY <1>27, <1>k, <2>2 DEF PromptSettles, machine, turn, Blocked
<1>28. ASSUME NEW m \in Messages, NEW c \in Calls, CoordinatorBlocks(m, c)
      PROVE  ParkedSays'
  <2> SUFFICES ASSUME pendingPrompt # NoOne PROVE ParkedSays'
    BY <1>28 DEF CoordinatorBlocks, ParkedSays
  <2>1. pc' = pc BY <1>28, <1>l DEF CoordinatorBlocks, ReleaseDrive
  <2>2. Blocked \subseteq Blocked' BY <1>28, <1>e DEF CoordinatorBlocks, Blocked
  <2>3. told \subseteq told' BY <1>28 DEF CoordinatorBlocks
  <2> QED BY <1>28, <1>k, <2>1, <2>2, <2>3 DEF CoordinatorBlocks, machine
<1>29. ASSUME NEW m \in Messages, NEW c \in Calls, QueueToolCall(m, c) PROVE ParkedSays'
  <2>1. callOf[c] = NoOne BY <1>29 DEF QueueToolCall, MayBlock
  <2>2. call[c] # "blocked" BY <2>1, RuntimeAssumption DEF WaitingCalls, Activations
  <2>3. Blocked \subseteq Blocked' BY <1>29, <1>e, <2>2 DEF QueueToolCall, Blocked
  <2> QED BY <1>29, <1>k, <2>3 DEF QueueToolCall, machine, turn
<1>30. ASSUME NEW c \in Calls, AwaitToolResult(c) PROVE ParkedSays'
  <2> SUFFICES ASSUME pendingPrompt # NoOne PROVE ParkedSays'
    BY <1>30 DEF AwaitToolResult, ParkedSays
  <2>1. pc' = pc BY <1>30, <1>l DEF AwaitToolResult, ReleaseDrive
  <2>2. Blocked \subseteq Blocked' BY <1>30, <1>e DEF AwaitToolResult, Blocked
  <2> QED BY <1>30, <1>k, <2>1, <2>2 DEF AwaitToolResult, machine
<1>31. ASSUME NEW c \in Calls, BufferResult(c) PROVE ParkedSays'
  <2>1. Blocked \subseteq Blocked' BY <1>31, <1>e DEF BufferResult, Blocked
  <2>2. \A d \in Drivers : pc'[d] = pc[d] \/ (pc[d] \in Ended /\ pc'[d] \in Ended)
    BY <1>31, <1>a DEF BufferResult
  <2> QED BY <1>31, <1>k, <2>1, <2>2 DEF BufferResult, machine, turn
<1>32. ASSUME NEW c \in Calls, AnswerCall(c) PROVE ParkedSays'
  <2> SUFFICES ASSUME pendingPrompt' # NoOne PROVE Waiting'
    BY DEF ParkedSays
  <2>1. PcsAfterReport(c) = pc BY <1>32, AnswerReleasesNothing
  <2>2. \A e \in Activations : pc[e] \in Ended BY <1>32 DEF AnswerCall
  <2>3. /\ pendingPrompt # NoOne
        /\ Remaining(c) # {}
        /\ sm' = RequiresAction(sm, Remaining(c))
        /\ told' = told \cup Remaining(c)
        /\ pc' = [pc EXCEPT ![c] = "savingAdvert"]
        /\ call' = [call EXCEPT ![c] = "answered"]
    BY <1>32, <2>1 DEF AnswerCall, TakePrompt, Readvertise
  <2>4. sm.status # "terminated"
    BY <2>2, <2>3 DEF ParkedSays, Parking, Waiting, Asks
  <2>5. Remaining(c) \in SUBSET Calls BY DEF Remaining, Blocked
  <2>6. sm'.status = "idle" /\ sm'.stopReason = "requires_action"
    BY <1>f, <2>3, <2>4, <2>5, LiveStatus
  <2>7. PICK x \in Remaining(c) : TRUE BY <2>3
  <2>8. x \in Blocked' /\ x \in told' BY <1>e, <2>3, <2>7 DEF Remaining, Blocked
  <2>9. Announced' BY <2>8 DEF Announced, Known
  <2>10. pc'[c] = "savingAdvert" /\ \A e \in Activations : e # c => pc'[e] \in Ended
    BY <1>a, <2>2, <2>3
  <2> QED BY <2>6, <2>9, <2>10 DEF Waiting, Busy
<1>33. ASSUME NEW i \in Interrupts, Interrupt(i) PROVE ParkedSays'
  OBVIOUS
<1>34. CASE TimerFires
  BY <1>34, <1>k DEF TimerFires, machine, turn, agent, Blocked
<1>35. CASE CheckpointEnds
  BY <1>35, <1>k DEF CheckpointEnds, machine, turn, agent, Blocked
<1> QED
  BY <1>1, <1>2, <1>3, <1>4, <1>5, <1>6, <1>7, <1>8, <1>9, <1>10, <1>11, <1>12, <1>13,
     <1>14, <1>15, <1>16, <1>17, <1>18, <1>19, <1>20, <1>21, <1>22, <1>23, <1>24, <1>25,
     <1>26, <1>27, <1>28, <1>29, <1>30, <1>31, <1>32, <1>33, <1>34, <1>35
  DEF Next, Microtask, HandlerStep, AgentStep, ClientStep, MessageStep, SettleStep,
      UsageStep

-----------------------------------------------------------------------------
(* The reason of a message's turn is decided by DecideReason alone.         *)

\* A message that drains carries no reason yet, and no other step gives it one that a
\* budget verdict is owed for.
Verdicts == {"completed", "budget_exhausted"}
Judges(m) == act'[m].reason \in Verdicts => act'[m].reason = act[m].reason

LEMMA OnlyDecideReasonJudges ==
  ASSUME TypeOK, Next
  PROVE  \/ \A n \in Messages : Judges(n)
         \/ \E m \in Messages : DecideReason(m)
<1> SUFFICES ASSUME ~\E m \in Messages : DecideReason(m)
             PROVE  \A n \in Messages : Judges(n)
  OBVIOUS
<1>a. act \in [Activations -> Locals] BY DEF TypeOK
<1>1. ASSUME NEW m \in Messages, PostMessage(m) PROVE \A n \in Messages : Judges(n)
  BY <1>1 DEF PostMessage, Judges, turn, agent, sandbox, machine, meter
<1>2. ASSUME NEW m \in Messages, SettleStop(m) PROVE \A n \in Messages : Judges(n)
  BY <1>2 DEF SettleStop, Judges, turn, agent, sandbox, machine, meter
<1>3. ASSUME NEW m \in Messages, SandboxIsUp(m) PROVE \A n \in Messages : Judges(n)
  BY <1>3, BeginRunKeeps, DriversAct DEF SandboxIsUp, Judges
<1>4. ASSUME NEW m \in Messages, SandboxIsStopped(m) PROVE \A n \in Messages : Judges(n)
  BY <1>4 DEF SandboxIsStopped, Judges, turn, agent, sandbox, machine, meter
<1>5. ASSUME NEW m \in Messages, SandboxStarted(m) PROVE \A n \in Messages : Judges(n)
  BY <1>5, BeginRunKeeps, DriversAct DEF SandboxStarted, Judges
<1>6. ASSUME NEW m \in Messages, SandboxStartFails(m) PROVE \A n \in Messages : Judges(n)
  BY <1>6 DEF SandboxStartFails, Judges, turn, agent, sandbox, machine, meter
<1>7. ASSUME NEW m \in Messages, StartTurn(m) PROVE \A n \in Messages : Judges(n)
  BY <1>7, <1>a DEF StartTurn, Judges, Locals
<1>9. ASSUME NEW m \in Messages, BackOff(m) PROVE \A n \in Messages : Judges(n)
  BY <1>9 DEF BackOff, Judges, turn, agent, sandbox, machine, meter
<1>10. ASSUME NEW m \in Messages, RetryDue(m) PROVE \A n \in Messages : Judges(n)
  BY <1>10, BeginRunKeeps, DriversAct DEF RetryDue, Judges
<1>11. ASSUME NEW m \in Messages, RetryPrompt(m) PROVE \A n \in Messages : Judges(n)
  BY <1>11 DEF RetryPrompt, Judges, turn, agent, sandbox, machine, meter
<1>12. ASSUME NEW d \in Drivers, DrivePaused(d) PROVE \A n \in Messages : Judges(n)
  <2>1. DrainThen(d, "settling", "requires_action", act) BY <1>12 DEF DrivePaused, Settle
  <2>2. /\ \A n \in Messages : n # d => act'[n].reason = act[n].reason
        /\ act'[d].reason = "requires_action"
    BY <2>1, DrainKeeps, DriversAct
  <2> QED BY <2>2 DEF Judges, Verdicts
<1>13. ASSUME NEW d \in Drivers, DriveResolved(d) PROVE \A n \in Messages : Judges(n)
  <2>1. CASE d \in Messages
    <3>1. DrainThen(d, "draining", NoOne, act) BY <1>13, <2>1 DEF DriveResolved
    <3>2. /\ \A n \in Messages : n # d => act'[n].reason = act[n].reason
          /\ act'[d].reason = NoOne
      BY <3>1, DrainKeeps, DriversAct
    <3> QED BY <3>2, RuntimeAssumption DEF Judges, Verdicts
  <2>2. CASE d \notin Messages
    <3>1. PICK r : DrainThen(d, "settling", r, act) BY <1>13, <2>2 DEF DriveResolved, Settle
    <3>2. \A n \in Messages : act'[n].reason = act[n].reason
      BY <2>2, <3>1, DrainKeeps, DriversAct
    <3> QED BY <3>2 DEF Judges
  <2> QED BY <2>1, <2>2
<1>14. ASSUME NEW d \in Drivers, DriveRejected(d) PROVE \A n \in Messages : Judges(n)
  <2>1. act' = [act EXCEPT ![d].write = RowOf(sm')] BY <1>14 DEF DriveRejected
  <2> QED BY <2>1, WriteKeeps, DriversAct DEF Judges
<1>15. ASSUME NEW d \in Drivers, EndSaved(d) PROVE \A n \in Messages : Judges(n)
  <2>1. CASE Settle(d, "error")
    <3>1. DrainThen(d, "settling", "error", act) BY <2>1 DEF Settle
    <3>2. /\ \A n \in Messages : n # d => act'[n].reason = act[n].reason
          /\ act'[d].reason = "error"
      BY <3>1, DrainKeeps, DriversAct
    <3> QED BY <3>2 DEF Judges, Verdicts
  <2>2. CASE act' = act BY <2>2 DEF Judges
  <2> QED BY <1>15, <2>1, <2>2 DEF EndSaved
<1>16. ASSUME NEW c \in Calls, ResumeTurn(c) PROVE \A n \in Messages : Judges(n)
  BY <1>16 DEF ResumeTurn, Judges, turn, agent, sandbox, machine, meter
<1>17. ASSUME NEW i \in Interrupts, Aborted(i) PROVE \A n \in Messages : Judges(n)
  <2>1. DrainThen(i, "settling", "user_interrupt", act) BY <1>17 DEF Aborted, Settle
  <2>2. \A n \in Messages : n # i BY RuntimeAssumption
  <2> QED BY <2>1, <2>2, DrainKeeps, DriversAct DEF Judges, Activations
<1>18. ASSUME NEW a \in Activations, SettleIdle(a) PROVE \A n \in Messages : Judges(n)
  <2>1. PICK w : act' = [act EXCEPT ![a].write = w] BY <1>18 DEF SettleIdle
  <2> QED BY <2>1, WriteKeeps, DriversAct DEF Judges
<1>19. ASSUME NEW a \in Activations, SettleTerminated(a)
      PROVE  \A n \in Messages : Judges(n)
  <2>1. PICK w : act' = [act EXCEPT ![a].write = w] BY <1>19 DEF SettleTerminated
  <2> QED BY <2>1, WriteKeeps, DriversAct DEF Judges
<1>20. ASSUME NEW a \in Activations, FinalSaved(a) PROVE \A n \in Messages : Judges(n)
  BY <1>20 DEF FinalSaved, Judges, turn, agent, sandbox, machine, meter
<1>21. ASSUME NEW a \in Activations, AnnounceIdle(a) PROVE \A n \in Messages : Judges(n)
  BY <1>21 DEF AnnounceIdle, Judges, turn, agent, sandbox, machine, meter
<1>22. ASSUME NEW a \in Activations, Stored(a) PROVE \A n \in Messages : Judges(n)
  BY <1>22 DEF Stored, Judges, turn, agent, sandbox, machine, meter
<1>23. ASSUME NEW a \in Activations, StoreFails(a) PROVE \A n \in Messages : Judges(n)
  BY <1>23 DEF StoreFails, Judges, turn, agent, sandbox, machine, meter
<1>24. ASSUME NEW u \in Usage, RecordUsage(u) PROVE \A n \in Messages : Judges(n)
  BY <1>24 DEF RecordUsage, Judges, turn, agent, sandbox, machine, meter
<1>25. ASSUME NEW u \in Usage, EnforceBudget(u) PROVE \A n \in Messages : Judges(n)
  BY <1>25 DEF EnforceBudget, Judges, turn, agent, sandbox, machine, meter
<1>26. ASSUME NEW u \in Usage, ReportUsage(u) PROVE \A n \in Messages : Judges(n)
  BY <1>26 DEF ReportUsage, Judges, turn, agent, sandbox, machine, meter
<1>27. ASSUME NEW m \in Messages, PromptSettles(m) PROVE \A n \in Messages : Judges(n)
  BY <1>27 DEF PromptSettles, Judges, turn, agent, sandbox, machine, meter
<1>28. ASSUME NEW m \in Messages, NEW c \in Calls, CoordinatorBlocks(m, c)
      PROVE  \A n \in Messages : Judges(n)
  BY <1>28 DEF CoordinatorBlocks, Judges, turn, agent, sandbox, machine, meter
<1>29. ASSUME NEW m \in Messages, NEW c \in Calls, QueueToolCall(m, c)
      PROVE  \A n \in Messages : Judges(n)
  BY <1>29 DEF QueueToolCall, Judges, turn, agent, sandbox, machine, meter
<1>30. ASSUME NEW c \in Calls, AwaitToolResult(c) PROVE \A n \in Messages : Judges(n)
  BY <1>30 DEF AwaitToolResult, Judges, turn, agent, sandbox, machine, meter
<1>31. ASSUME NEW c \in Calls, BufferResult(c) PROVE \A n \in Messages : Judges(n)
  BY <1>31 DEF BufferResult, Judges, turn, agent, sandbox, machine, meter
<1>32. ASSUME NEW c \in Calls, AnswerCall(c) PROVE \A n \in Messages : Judges(n)
  <2>1. \A n \in Messages : n # c BY RuntimeAssumption
  <2>2. \/ act' = act
        \/ \E w : act' = [act EXCEPT ![c].write = w]
        \/ \E w, p : act' = [act EXCEPT ![c].write = w, ![c].driven = p]
    BY <1>32 DEF AnswerCall
  <2>3. \A n \in Messages : act'[n] = act[n] BY <1>a, <2>1, <2>2, DriversAct
  <2> QED BY <2>3 DEF Judges
<1>33. ASSUME NEW i \in Interrupts, Interrupt(i) PROVE \A n \in Messages : Judges(n)
  BY <1>33 DEF Interrupt, Judges, turn, agent, sandbox, machine, meter
<1>34. CASE TimerFires
  BY <1>34 DEF TimerFires, Judges, turn, agent, sandbox, machine, meter
<1>35. CASE CheckpointEnds
  BY <1>35 DEF CheckpointEnds, Judges, turn, agent, sandbox, machine, meter
<1> QED
  BY <1>1, <1>2, <1>3, <1>4, <1>5, <1>6, <1>7, <1>9, <1>10, <1>11, <1>12, <1>13, <1>14,
     <1>15, <1>16, <1>17, <1>18, <1>19, <1>20, <1>21, <1>22, <1>23, <1>24, <1>25, <1>26,
     <1>27, <1>28, <1>29, <1>30, <1>31, <1>32, <1>33, <1>34, <1>35
  DEF Next, Microtask, HandlerStep, AgentStep, ClientStep, MessageStep, SettleStep,
      UsageStep

\* A message that has drained, with no other handler at work, leaves no usage unjudged.
LEMMA DecidedAfterVerdicts ==
  ASSUME Serial, UsageKept, NEW m \in Messages, DecideReason(m)
  PROVE  \A u \in Usage : usage[u] \notin {"recording", "checking"}
<1>1. pc[m] = "draining" /\ Drained(m) BY DEF DecideReason, At
<1>2. usageTasks = {} BY <1>1 DEF UsageKept
<1>3. \A a \in Activations : pc[a] \in {"draining", "settling"} => a = m
  BY <1>1, OnlyOne, DriversAct DEF Ended
<1>4. SUFFICES ASSUME NEW u \in Usage, usage[u] \in {"recording", "checking"} PROVE FALSE
  OBVIOUS
<1>5. u \in act[m].waits BY <1>2, <1>3, <1>4 DEF UsageKept
<1> QED BY <1>1, <1>4, <1>5 DEF Drained

-----------------------------------------------------------------------------
(* The two invariants, from the steps of their parts.                       *)

LEMMA InitSerial == Init => SerialInv
<1> SUFFICES ASSUME Init PROVE SerialInv OBVIOUS
<1> USE DEF Init
<1>1. \A a \in Activations : pc[a] = "new" OBVIOUS
<1>2. Serial /\ SlotOwned /\ Releasable /\ Unmarked
  BY <1>1, DriversAct
  DEF Serial, Busy, Ended, SlotOwned, OwnsSlot, Holding, Releasable, Unmarked
<1>3. OwnPrompt /\ OneInFlight
  BY <1>1, DriversAct DEF OwnPrompt, OneInFlight, Holds, Holding
<1>4. WaitingCalls /\ ParkedWaits
  BY <1>1, DriversAct DEF WaitingCalls, ParkedWaits
<1>5. UsageKept /\ SandboxKept
  BY <1>1, DriversAct DEF UsageKept, SandboxKept, Prepared
<1> QED BY <1>2, <1>3, <1>4, <1>5 DEF SerialInv

LEMMA SerialInductive ==
  ASSUME Overlap \subseteq {"fastBlock"}
  PROVE  IInv /\ SerialInv /\ [Next]_vars => SerialInv'
<1> SUFFICES ASSUME IInv, SerialInv, [Next]_vars PROVE SerialInv' OBVIOUS
<1>1. CASE Next
  <2> USE <1>1 DEF IInv, Custody, SerialInv
  <2>1. Serial' BY SerialStep
  <2>2. SlotOwned' /\ Releasable' BY SlotStep
  <2>3. Unmarked' BY UnmarkedStep
  <2>4. OwnPrompt' BY OwnPromptStep
  <2>5. WaitingCalls' BY WaitingCallsStep
  <2>6. OneInFlight' BY <2>4, OneInFlightStep
  <2>7. ParkedWaits' BY ParkedWaitsStep
  <2>8. UsageKept' BY UsageKeptStep
  <2>9. SandboxKept' BY SandboxKeptStep
  <2> QED BY <2>1, <2>2, <2>3, <2>4, <2>5, <2>6, <2>7, <2>8, <2>9
<1>2. CASE UNCHANGED vars
  <2> USE <1>2 DEF vars, machine, turn, agent, sandbox, meter, SerialInv
  <2>1. Serial' /\ SlotOwned' /\ Releasable' /\ Unmarked'
    BY DEF Serial, Busy, SlotOwned, Releasable, Unmarked
  <2>2. OwnPrompt' /\ OneInFlight' BY DEF OwnPrompt, OneInFlight, Holds
  <2>3. WaitingCalls' /\ ParkedWaits'
    BY DEF WaitingCalls, ParkedWaits, WaitsFor, Blocked
  <2>4. UsageKept' /\ SandboxKept' BY DEF UsageKept, SandboxKept
  <2> QED BY <2>1, <2>2, <2>3, <2>4
<1> QED BY <1>1, <1>2

LEMMA SerialInvariance ==
  ASSUME Overlap \subseteq {"fastBlock"}
  PROVE  Spec => [](IInv /\ SerialInv)
<1>1. Init => IInv /\ SerialInv BY InitInv, InitSerial
<1>2. (IInv /\ SerialInv) /\ [Next]_vars => (IInv /\ SerialInv)'
  BY Inductive, SerialInductive
<1> QED BY <1>1, <1>2, PTL DEF Spec

LEMMA InitAsk == Init => AskInv
<1> SUFFICES ASSUME Init PROVE AskInv OBVIOUS
<1> USE DEF Init
<1>1. \A d \in Drivers : pc[d] = "new" BY DriversAct
<1>2. InCustody /\ RunsWhileDriven BY <1>1 DEF InCustody, RunsWhileDriven
<1>3. TellsBlocked BY <1>1 DEF TellsBlocked, Asks
<1>4. ParkedSays BY DEF ParkedSays
<1> QED BY <1>1, <1>2, <1>3, <1>4 DEF AskInv, RunsWhileDriven

LEMMA AskInductive ==
  ASSUME Overlap \subseteq {"fastBlock"}, Interrupts = {}
  PROVE  (IInv /\ SerialInv) /\ AskInv /\ (IInv /\ SerialInv)' /\ [Next]_vars => AskInv'
<1> SUFFICES ASSUME IInv, SerialInv, AskInv, SerialInv', [Next]_vars PROVE AskInv'
  OBVIOUS
<1>1. CASE Next
  <2> USE <1>1 DEF IInv, Custody, Settlement, SerialInv, AskInv
  <2>1. InCustody' BY InCustodyStep
  <2>2. RunsWhileDriven' BY RunsWhileDrivenStep
  <2>3. TellsBlocked' BY TellsBlockedStep
  <2>4. ParkedSays' BY ParkedSaysStep
  <2> QED BY <2>1, <2>2, <2>3, <2>4
<1>2. CASE UNCHANGED vars
  <2> USE <1>2 DEF vars, machine, turn, agent, sandbox, meter, AskInv
  <2>1. InCustody' /\ RunsWhileDriven' BY DEF InCustody, RunsWhileDriven, Holds
  <2>2. TellsBlocked' BY DEF TellsBlocked, Asks, Blocked
  <2>3. ParkedSays'
    BY DEF ParkedSays, Parking, Waiting, Announced, Asks, Blocked, Known, Busy
  <2> QED BY <2>1, <2>2, <2>3
<1> QED BY <1>1, <1>2

LEMMA AskInvariance ==
  ASSUME Overlap \subseteq {"fastBlock"}, Interrupts = {}
  PROVE  Spec => [](IInv /\ SerialInv /\ AskInv)
<1>1. Init => (IInv /\ SerialInv) /\ AskInv BY InitInv, InitSerial, InitAsk
<1>2. (IInv /\ SerialInv) /\ [Next]_vars => (IInv /\ SerialInv)'
  BY Inductive, SerialInductive
<1>3. (IInv /\ SerialInv) /\ AskInv /\ (IInv /\ SerialInv)' /\ [Next]_vars => AskInv'
  BY AskInductive
<1> QED BY <1>1, <1>2, <1>3, PTL DEF Spec

-----------------------------------------------------------------------------
(* The theorems. "Inputs wait for the handlers" is Overlap \subseteq         *)
(* {"fastBlock"}: no message, answer or interrupt arrives while a handler   *)
(* is active, but a call may block between the take of a parked prompt and  *)
(* the drive of its resume.                                                 *)

\* Every variable keeps its type, whatever the sets of activations and the overlaps: in
\* particular the retry counter never passes MaxRetries (runtime.ts, state-machine.ts).
THEOREM TypeCorrect == Spec => []TypeOK
<1>1. IInv => TypeOK BY DEF IInv
<1> QED BY <1>1, Invariance, PTL

\* Two activations of one session never drive the same prompt, and none drives a prompt
\* that is parked for an answer (handleUserMessage, onCoordinatorBlock, resumeIfUnblocked).
THEOREM SingleDriver == Spec => []OneDriverPerPrompt
<1>1. IInv => OneDriverPerPrompt
  BY DEF IInv, Custody, Held, OneHolder, Holds, Holding, OneDriverPerPrompt, Driving
<1> QED BY <1>1, Invariance, PTL

\* A session that reads running or rescheduling always has an activation that will
\* settle it: no interleaving of messages, answers and interrupts orphans the run.
THEOREM RunsAreSettled == Spec => []NoOrphanRun
<1>1. IInv => NoOrphanRun BY DEF IInv, Settlement
<1> QED BY <1>1, Invariance, PTL

\* When inputs wait for the handlers, the prompt of a user.message runs in a sandbox that is
\* up, with no checkpoint under way or due (ROB-18: settleStop, then cancel, then start).
THEOREM TurnsRunInALiveSandbox ==
  ASSUME Overlap \subseteq {"fastBlock"}
  PROVE  Spec => []SandboxReadyForTurn
<1>1. SerialInv => SandboxReadyForTurn
  BY DEF SerialInv, SandboxKept, Prepared, SandboxReadyForTurn
<1> QED BY <1>1, SerialInvariance, PTL

\* When inputs wait for the handlers, a user.message turn is called completed or
\* budget_exhausted only after every reported usage was judged (ROB-14, drainUsage).
THEOREM ReasonsFollowVerdicts ==
  ASSUME Overlap \subseteq {"fastBlock"}
  PROVE  Spec => MessageReasonAfterVerdict
<1>1. ASSUME IInv, SerialInv, Next
      PROVE  \A m \in Messages :
               act'[m].reason \in {"completed", "budget_exhausted"}
                 /\ act[m].reason # act'[m].reason
               => \A u \in Usage : usage[u] \notin {"recording", "checking"}
  <2>1. CASE \A n \in Messages : Judges(n) BY <2>1 DEF Judges, Verdicts
  <2>2. CASE \E m \in Messages : DecideReason(m)
    BY <1>1, <2>2, DecidedAfterVerdicts DEF SerialInv
  <2> QED BY <1>1, <2>1, <2>2, OnlyDecideReasonJudges DEF IInv
<1>2. IInv /\ SerialInv /\ [Next]_vars =>
        [\A m \in Messages :
           act'[m].reason \in {"completed", "budget_exhausted"}
             /\ act[m].reason # act'[m].reason
           => \A u \in Usage : usage[u] \notin {"recording", "checking"}]_vars
  BY <1>1
<1> QED BY <1>2, SerialInvariance, PTL DEF Spec, MessageReasonAfterVerdict

\* When inputs wait for the handlers and nobody interrupts, a turn that waits on calls can be
\* resumed, however many calls block, in whatever order they are answered: the session
\* reads requires_action, someone was told a call to answer, and the parked prompt has a
\* call left (onCoordinatorBlock, resumeIfUnblocked).
THEOREM WaitingTurnsCanResume ==
  ASSUME Overlap \subseteq {"fastBlock"}, Interrupts = {}
  PROVE  Spec => []TurnCanResume
<1>1. ASSUME IInv, SerialInv, AskInv, Quiet PROVE TurnCanResume
  <2>1. \A a \in Activations : pc[a] \in Ended BY <1>1 DEF Quiet, Live
  <2>2. \A d \in Drivers : ~Holds(d) BY <2>1, DriversAct DEF Holds, Holding, Ended
  <2>3. pendingPrompt # NoOne => Waiting
    BY <1>1, <2>1, DriversAct DEF AskInv, ParkedSays, Parking, Ended
  <2>4. pendingPrompt # NoOne => sm.stopReason = "requires_action" /\ \E c \in Blocked : Known(c)
    BY <2>1, <2>3, DriversAct DEF Waiting, Announced, Ended
  <2>5. Blocked # {} => pendingPrompt # NoOne
    <3>1. SUFFICES ASSUME NEW c \in Calls, call[c] = "blocked" PROVE pendingPrompt # NoOne
      BY DEF Blocked
    <3>2. callOf[c] \in Messages /\ prompt[callOf[c]] = "inflight"
      BY <1>1, <3>1 DEF SerialInv, WaitingCalls
    <3>3. callOf[c] = pendingPrompt BY <1>1, <2>2, <3>2 DEF AskInv, InCustody
    <3> QED BY <3>2, <3>3, RuntimeAssumption DEF Activations
  <2>6. SomeoneCanAnswer BY <2>4, <2>5 DEF SomeoneCanAnswer
  <2>7. NoStrandedPrompt
    BY <1>1 DEF SerialInv, ParkedWaits, WaitsFor, Blocked, NoStrandedPrompt
  <2> QED BY <2>6, <2>7 DEF TurnCanResume
<1>2. ~Quiet => TurnCanResume BY DEF TurnCanResume, SomeoneCanAnswer, NoStrandedPrompt
<1>3. IInv /\ SerialInv /\ AskInv => TurnCanResume BY <1>1, <1>2
<1> QED BY <1>3, AskInvariance, PTL

=============================================================================
