------------------------- MODULE ToolWorkflowProofs -------------------------
(***************************************************************************)
(* For any tasks, calls, strategies and faults: an unrepeatable call is    *)
(* invoked at most once, an invocation is approved and written ahead, the  *)
(* checkpoint agrees with the rows, and what is over stays over.           *)
(*                                                                         *)
(* The argument.  Only one task holds a lease copy that is not fenced, so  *)
(* of the tasks about to insert an execution for a call only one can do    *)
(* it, and the execution is started once.  Starting it hands out the one   *)
(* right to invoke the call, which the starting task uses or gives up;     *)
(* recovery invokes again only what may be repeated.                       *)
(***************************************************************************)
EXTENDS ToolWorkflow, TLAPS

-----------------------------------------------------------------------------
(* The fence *)

\* A task with a lease copy that the row's fencing token has not overtaken.
Holder(t) == handle[t] \in {"fresh", "old"} \/ prepared[t] \in {"fresh", "old"}

FenceInv ==
  /\ FenceTypeOK
  /\ run.status = "absent" => \A t \in Tasks : handle[t] = "none" /\ prepared[t] = "none"
  /\ \A s, t \in Tasks : Holder(s) /\ Holder(t) => s = t

\* The targets of LEGAL_RUN_TRANSITIONS are run statuses.
LEMMA LegalTargets ==
  ASSUME NEW s, NEW u \in LegalRunTargets(s)
  PROVE  u \in RunStatus
BY DEF LegalRunTargets, ActiveRunStatuses, RunStatus, TERMINAL_RUN_STATUSES

\* No step of the fence gives a second task a copy that is not fenced.
LEMMA FenceStep == FenceInv /\ [FenceNext]_fenceVars => FenceInv'
<1> SUFFICES ASSUME FenceInv, [FenceNext]_fenceVars PROVE FenceInv'
  OBVIOUS
<1> USE DEF FenceInv, FenceTypeOK, Holder, LeaseState, RunRow, Aged, Fenced
<1>0. /\ "absent" \notin RunStatus /\ "absent" \notin ActiveRunStatuses
      /\ ActiveRunStatuses \subseteq RunStatus
      /\ "resuming" \in RunStatus /\ "cancelled" \in RunStatus
  BY DEF RunStatus, ActiveRunStatuses, TERMINAL_RUN_STATUSES
<1>1. ASSUME NEW t \in Tasks, NEW s \in RunStatus, FenceCreate(t, s) PROVE FenceInv'
  BY <1>0, <1>1 DEF FenceCreate
<1>2. ASSUME NEW t \in Tasks, NEW s \in RunStatus, FenceTransition(t, s) PROVE FenceInv'
  BY <1>0, <1>2 DEF FenceTransition, WriteRun, Current
<1>3. ASSUME NEW t \in Tasks, NEW s \in RunStatus, FenceTransitionPrepared(t, s) PROVE FenceInv'
  BY <1>0, <1>3 DEF FenceTransitionPrepared, Current
<1>4. ASSUME NEW t \in Tasks, NEW s \in RunStatus, FenceFinish(t, s) PROVE FenceInv'
  BY <1>0, <1>4 DEF FenceFinish, Current
<1>5. ASSUME NEW t \in Tasks, FenceHeartbeat(t) PROVE FenceInv'
  BY <1>0, <1>5 DEF FenceHeartbeat, WriteRun, Current
<1>6. ASSUME NEW t \in Tasks, FenceTakeOver(t) PROVE FenceInv'
  BY <1>0, <1>6 DEF FenceTakeOver, NewToken
<1>7. ASSUME NEW t \in Tasks, FenceResumeWaiting(t) PROVE FenceInv'
  BY <1>0, <1>7 DEF FenceResumeWaiting, NewToken
<1>8. ASSUME NEW t \in Tasks, FenceSnapshot(t) PROVE FenceInv'
  BY <1>8 DEF FenceSnapshot
<1>9. ASSUME NEW t \in Tasks, FenceReplace(t) PROVE FenceInv'
  BY <1>9 DEF FenceReplace
<1>10. ASSUME NEW t \in Tasks, FenceAdopt(t) PROVE FenceInv'
  BY <1>10 DEF FenceAdopt
<1>11. ASSUME NEW t \in Tasks, FenceDrop(t) \/ FenceForget(t) PROVE FenceInv'
  BY <1>11 DEF FenceDrop, FenceForget
<1>12. CASE FenceRequestCancellation \/ FenceCancelSetup
  <2>1. \E s \in RunStatus, c \in BOOLEAN, l \in {"live", "expired"} : run' = RunRow(s, c, l)
    <3>1. CASE run.status = "awaiting_user"
      BY Zenon, <1>0, <1>12, <3>1 DEF FenceRequestCancellation, FenceCancelSetup
    <3>2. CASE run.status # "awaiting_user"
      BY Zenon, <1>0, <1>12, <3>2 DEF FenceRequestCancellation, FenceCancelSetup
    <3> QED BY <3>1, <3>2
  <2> QED
    BY <1>0, <1>12, <2>1 DEF FenceRequestCancellation, FenceCancelSetup
<1>13. CASE FenceExpire
  BY <1>13 DEF FenceExpire
<1>14. CASE UNCHANGED fenceVars
  BY <1>14 DEF fenceVars
<1> QED
  BY <1>1, <1>2, <1>3, <1>4, <1>5, <1>6, <1>7, <1>8, <1>9, <1>10, <1>11, <1>12, <1>13, <1>14
  DEF FenceNext

-----------------------------------------------------------------------------
(* Every step of the workflow is a step of the fence or leaves it alone *)

\* Keeping the lease a result was written under is adopting the row's version, or
\* nothing.
LEMMA KeepIsFence ==
  ASSUME FenceTypeOK, NEW w \in Tasks, CanPersist(w), KeepLease(w)
  PROVE  [FenceNext]_fenceVars
<1>1. CASE prepared[w] = "fresh"
  <2>1. prepared' = prepared
    BY <1>1 DEF KeepLease, FenceTypeOK
  <2> QED BY <2>1 DEF KeepLease, fenceVars
<1>2. CASE prepared[w] # "fresh"
  BY Zenon, <1>2 DEF KeepLease, CanPersist, FenceAdopt, FenceNext
<1> QED BY <1>1, <1>2

LEMMA AgentIsFence ==
  ASSUME FenceTypeOK, NEW w \in Tasks, AgentStep(w)
  PROVE  [FenceNext]_fenceVars
<1> USE DEF fenceVars, FenceNext
<1>0. {"running", "completed", "failed_terminal", "cancelled"} \subseteq RunStatus
  BY DEF RunStatus, ActiveRunStatuses, TERMINAL_RUN_STATUSES
<1>1. CASE StartRun(w)
  BY <1>0, <1>1 DEF StartRun
<1>2. CASE RoundFails(w) \/ AnswerText(w) \/ PersistAnswer(w) \/ PersistAnswerFails(w)
  BY <1>2 DEF RoundFails, AnswerText, PersistAnswer, PersistAnswerFails
<1>3. CASE \E c \in Calls : CallTool(w, c)
  BY <1>3 DEF CallTool
<1>4. ASSUME NEW s \in RunStatus, FinishRun(w, s) PROVE FenceNext
  BY <1>4 DEF FinishRun
<1>5. ASSUME NEW s, NEW p, FinishFails(w, s, p) PROVE [FenceNext]_fenceVars
  BY <1>5 DEF FinishFails
<1>6. CASE Complete(w) \/ Fail(w) \/ Abort(w)
  BY <1>0, <1>4, <1>6 DEF Complete, Fail, Abort
<1>7. CASE CompleteRefused(w) \/ FailRefused(w) \/ AbortRefused(w)
  BY <1>5, <1>7 DEF CompleteRefused, FailRefused, AbortRefused
<1> QED BY <1>1, <1>2, <1>3, <1>6, <1>7 DEF AgentStep

LEMMA ToolIsFence ==
  ASSUME FenceTypeOK, NEW w \in Tasks, ToolStep(w)
  PROVE  [FenceNext]_fenceVars
<1> USE DEF fenceVars, FenceNext
<1>1. CASE RequestApproval(w)
  BY <1>1 DEF RequestApproval, RunStatus, ActiveRunStatuses
<1>2. CASE RequestApprovalFails(w) \/ PrepareFails(w) \/ ResultLost(w) \/ ToolReturns(w)
  BY <1>2 DEF RequestApprovalFails, PrepareFails, ResultLost, ToolReturns
<1>3. CASE ReplaceTransitioned(w) \/ Pause(w) \/ Replace(w)
  BY <1>3 DEF ReplaceTransitioned, Pause, Replace
<1>4. CASE PrepareExecution(w) \/ PreDispatchError(w) \/ Dispatch(w)
  BY <1>4 DEF PrepareExecution, PreDispatchError, Dispatch
<1>5. CASE PreDispatchCheck(w)
  BY <1>5 DEF PreDispatchCheck
<1>6. CASE CloseExecution(w) \/ ToolRaises(w)
  <2>1. CanPersist(w) /\ KeepLease(w)
    BY <1>6 DEF CloseExecution, ToolRaises, RecordResult
  <2> QED BY <2>1, KeepIsFence
<1> QED BY <1>1, <1>2, <1>3, <1>4, <1>5, <1>6 DEF ToolStep

LEMMA RecoveryIsFence ==
  ASSUME FenceTypeOK, NEW w \in Tasks, RecoveryStep(w)
  PROVE  [FenceNext]_fenceVars
<1> USE DEF fenceVars, FenceNext
<1>0. BlockedStatuses \cup {"running"} \subseteq RunStatus
  BY DEF RunStatus, ActiveRunStatuses, TERMINAL_RUN_STATUSES, BlockedStatuses
<1>1. CASE Scan(w) \/ Preflight(w) \/ LeaseConflict(w) \/ PrepareRecovery(w)
  BY Zenon, <1>1 DEF Scan, Preflight, LeaseConflict, PrepareRecovery
<1>2. CASE AcquireRun(w)
  BY <1>2 DEF AcquireRun
<1>3. CASE Route(w)
  BY <1>3 DEF Route
<1>4. CASE RefuseRecovery(w) \/ Redispatch(w) \/ RecoveredToolRaises(w) \/ BeginMark(w)
  BY <1>4 DEF RefuseRecovery, Redispatch, RecoveredToolRaises, BeginMark
<1>5. CASE BlockExecution(w)
  BY <1>5 DEF BlockExecution
<1>6. CASE BlockRun(w)
  BY <1>0, <1>6 DEF BlockRun, FinishRun
<1>7. CASE \/ BlockExecutionFails(w) \/ BlockRunRefused(w) \/ PrepareRecoveryFails(w)
           \/ RecoveredResultLost(w) \/ ContinueFails(w)
  BY <1>7 DEF BlockExecutionFails, BlockRunRefused, PrepareRecoveryFails, RecoveredResultLost,
              ContinueFails, GivesUp
<1>8. CASE RecoveredToolReturns(w) \/ RecordRaised(w) \/ MarkUncertain(w)
  <2>1. CanPersist(w) /\ KeepLease(w)
    BY <1>8 DEF RecoveredToolReturns, RecordRaised, MarkUncertain, RecordResult
  <2> QED BY <2>1, KeepIsFence
<1>9. CASE Continue(w)
  BY <1>0, <1>9 DEF Continue
<1> QED
  BY <1>1, <1>2, <1>3, <1>4, <1>5, <1>6, <1>7, <1>8, <1>9 DEF RecoveryStep

LEMMA StepIsFence == FenceTypeOK /\ [Next]_vars => [FenceNext]_fenceVars
<1> SUFFICES ASSUME FenceTypeOK, [Next]_vars PROVE [FenceNext]_fenceVars
  OBVIOUS
<1> USE DEF fenceVars, FenceNext
<1>1. ASSUME NEW w \in Tasks, TaskStep(w) PROVE [FenceNext]_fenceVars
  BY <1>1, AgentIsFence, ToolIsFence, RecoveryIsFence DEF TaskStep
<1>2. ASSUME NEW w \in Tasks, ProducerStep(w) PROVE [FenceNext]_fenceVars
  BY <1>2 DEF ProducerStep, ProducerFails, ProducerEnds, RunStatus, TERMINAL_RUN_STATUSES
<1>3. ASSUME NEW w \in Tasks,
             Heartbeat(w) \/ HeartbeatLost(w) \/ HeartbeatError(w) \/ CancelProducer(w) \/ Crash(w)
      PROVE  [FenceNext]_fenceVars
  BY <1>3 DEF Heartbeat, HeartbeatLost, HeartbeatError, CancelProducer, Crash
<1>4. CASE Expire \/ Damage \/ RequestCancellation \/ \E c \in Calls : Decide(c)
  BY <1>4 DEF Expire, Damage, RequestCancellation, Decide
<1>5. CASE UNCHANGED vars
  BY <1>5 DEF vars
<1> QED BY <1>1, <1>2, <1>3, <1>4, <1>5 DEF Next, EnvironmentStep

\* One task at most holds a lease copy that is not fenced.
THEOREM OneTaskHolds == Spec => []FenceInv
<1>1. Init => FenceInv
  BY DEF Init, FenceInit, FenceInv, FenceTypeOK, Holder, LeaseState, RunRow
<1>2. FenceInv /\ [Next]_vars => FenceInv'
  BY StepIsFence, FenceStep DEF FenceInv
<1> QED BY <1>1, <1>2, PTL DEF Spec

\* Every step of the scheduler, of recovery, of a heartbeat or of a crash moves the
\* lease copies the way RunFence allows, or leaves them alone.
THEOREM WorkflowKeepsFence == Spec => KeepsFence
<1>1. Init => FenceInit
  BY DEF Init
<1>2. FenceInv /\ [Next]_vars => [FenceNext]_fenceVars
  BY StepIsFence DEF FenceInv
<1> QED BY <1>1, <1>2, OneTaskHolds, PTL DEF Spec, KeepsFence, FenceSpec

-----------------------------------------------------------------------------
(* Types *)

\* What Route decides: it never starts a call of its own accord, and recovers one
\* only for an approval that was granted or a checkpoint that names it.
LEMMA RouteFacts ==
  ASSUME TypeOK, NEW w \in Tasks
  PROVE  /\ RouteOf(w)[1] \in {"idle", "block", "blockrun", "recover", "continue"}
         /\ RouteOf(w)[2] \in Modes
         /\ RouteOf(w)[1] = "block" => HasExecution \/ ApprovalToSettle(w)
         /\ RouteOf(w)[1] = "recover" =>
              \/ /\ RouteOf(w)[2] = "forced"
                 /\ ApprovalToSettle(w) /\ Granted(chk.call)
              \/ /\ RouteOf(w)[2] = DispatchAction(chk.call)
                 /\ chk.phase = "execution_dispatching"
         /\ RouteOf(w)[1] = "continue" =>
              chk.phase # "execution_dispatching" /\ run.status \notin TERMINAL_RUN_STATUSES
BY DEF RouteOf, Modes, DispatchAction, NothingToDo

\* What an invocation adds to the count of its call.
LEMMA InvokeAdds ==
  ASSUME TypeOK, NEW c \in Calls \cup {NoCall}, Invoke(c)
  PROVE  /\ effects' \in [Calls -> 0..MaxEffects]
         /\ \A d \in Calls : d # c => effects'[d] = effects[d]
         /\ c \in Calls => effects'[c] \in 1..(effects[c] + 1)
<1> DEFINE n == IF effects[c] < MaxEffects THEN effects[c] + 1 ELSE effects[c]
<1>1. effects' = [effects EXCEPT ![c] = n]
  BY DEF Invoke
<1>2. c \in Calls => n \in 0..MaxEffects /\ n \in 1..(effects[c] + 1)
  BY BoundsAssumption DEF TypeOK
<1> HIDE DEF n
<1>3. effects \in [Calls -> 0..MaxEffects] /\ NoCall \notin Calls
  BY CallsAssumption DEF TypeOK
<1> QED BY Zenon, <1>1, <1>2, <1>3

LEMMA TypeStep == TypeOK /\ FenceTypeOK' /\ [Next]_vars => TypeOK'
<1> SUFFICES ASSUME TypeOK, FenceTypeOK', [Next]_vars PROVE TypeOK'
  OBVIOUS
<1> USE CallsAssumption, BoundsAssumption DEF TypeOK, store, local
<1>0. /\ {"not_started", "executing", "failed_retryable"} \subseteq ExecutionStatus
      /\ TERMINAL_EXECUTION_STATUSES \subseteq ExecutionStatus
      /\ BlockedStatuses \subseteq TERMINAL_EXECUTION_STATUSES
      /\ {"succeeded", "failed_terminal", "uncertain"} \subseteq TERMINAL_EXECUTION_STATUSES
      /\ {"awaiting_user", "approved", "rejected", "expired"} \subseteq ApprovalStatus
      /\ CheckpointPhase = {"run_started", "model_output_committed", "awaiting_approval",
              "execution_dispatching", "execution_result_observed", "run_terminal"}
  BY DEF ExecutionStatus, TERMINAL_EXECUTION_STATUSES, BlockedStatuses, ApprovalStatus,
         CheckpointPhase
<1>1. ASSUME NEW w \in Tasks, NEW p, NEW q \in Places, Moves(w, p, q)
      PROVE  /\ pc' \in [Tasks -> Places] /\ cur' \in [Tasks -> Calls \cup {NoCall}]
             /\ UNCHANGED <<role, mode, beat, faults>>
  BY <1>1 DEF Moves, Goto, Holds
<1>2. ASSUME NEW w \in Tasks, Leaves(w)
      PROVE  /\ pc' \in [Tasks -> Places] /\ cur' \in [Tasks -> Calls \cup {NoCall}]
             /\ role' \in [Tasks -> Roles] /\ mode' \in [Tasks -> Modes]
             /\ beat' \in [Tasks -> Beats]
  BY <1>2 DEF Leaves, Holds, Places, Roles, Modes, Beats
<1>3. ASSUME NEW w \in Tasks, NEW c \in Calls \cup {NoCall}, NEW s \in ExecutionStatus,
             RecordResult(w, c, s)
      PROVE  /\ exec' \in [Calls -> ExecutionStatus \cup {Absent}]
             /\ chk' \in [phase: CheckpointPhase \cup {Absent}, call: Calls \cup {NoCall}, ok: BOOLEAN]
             /\ UNCHANGED <<approval, effects>>
  BY Zenon, <1>0, <1>3 DEF RecordResult, Checkpoint
<1>4. ASSUME NEW c \in Calls \cup {NoCall}, Invoke(c) PROVE effects' \in [Calls -> 0..MaxEffects]
  BY <1>4, InvokeAdds
<1>5. Fault => faults' \in 0..MaxFaults
  BY DEF Fault
<1>c. ASSUME NEW p \in CheckpointPhase, NEW c \in Calls \cup {NoCall}, Checkpoint(p, c)
      PROVE  chk' \in [phase: CheckpointPhase \cup {Absent}, call: Calls \cup {NoCall}, ok: BOOLEAN]
  BY <1>c DEF Checkpoint
<1>6. ASSUME NEW w \in Tasks, AgentStep(w) PROVE TypeOK'
  <2>1. CASE StartRun(w)
    BY <1>0, <2>1 DEF StartRun, Checkpoint, Goto, Places, Beats
  <2>2. CASE RoundFails(w) \/ AnswerText(w) \/ PersistAnswer(w) \/ PersistAnswerFails(w)
    BY <1>0, <1>1, <1>c, <2>2
    DEF RoundFails, AnswerText, PersistAnswer, PersistAnswerFails, Places
  <2>3. CASE \E c \in Calls : CallTool(w, c)
    BY <2>3 DEF CallTool, Holds, Goto, Places
  <2>4. ASSUME NEW s, FinishRun(w, s) PROVE TypeOK'
    BY <1>0, <1>2, <2>4 DEF FinishRun, Checkpoint
  <2>5. ASSUME NEW s, NEW p \in Places, FinishFails(w, s, p) PROVE TypeOK'
    BY <1>2, <2>5 DEF FinishFails, Goto, Beats
  <2>6. CASE Complete(w) \/ Fail(w) \/ Abort(w)
    BY <2>4, <2>6 DEF Complete, Fail, Abort
  <2>7. CASE CompleteRefused(w) \/ FailRefused(w) \/ AbortRefused(w)
    BY <2>5, <2>7 DEF CompleteRefused, FailRefused, AbortRefused, Places
  <2> QED BY <1>6, <2>1, <2>2, <2>3, <2>6, <2>7 DEF AgentStep
<1>7. ASSUME NEW w \in Tasks, ToolStep(w) PROVE TypeOK'
  <2>1. CASE RequestApproval(w)
    BY Zenon, <1>0, <1>1, <1>c, <2>1 DEF RequestApproval, InsertApproval, Places
  <2>2. CASE RequestApprovalFails(w) \/ PrepareFails(w) \/ ReplaceTransitioned(w)
    BY <1>1, <2>2 DEF RequestApprovalFails, PrepareFails, ReplaceTransitioned, Places
  <2>3. CASE Pause(w)
    BY <1>2, <2>3 DEF Pause
  <2>4. CASE PrepareExecution(w)
    BY Zenon, <1>0, <1>1, <1>c, <2>4 DEF PrepareExecution, Places
  <2>5. CASE PreDispatchCheck(w) \/ PreDispatchError(w) \/ ResultLost(w)
    BY <1>1, <2>5 DEF PreDispatchCheck, PreDispatchError, ResultLost, Places
  <2>6. CASE Dispatch(w)
    BY <1>1, <1>4, <2>6 DEF Dispatch, Places
  <2>7. CASE CloseExecution(w) \/ ToolReturns(w) \/ ToolRaises(w)
    BY <1>0, <1>1, <1>3, <2>7 DEF CloseExecution, ToolReturns, ToolRaises, RaisedStatus, Places
  <2>8. CASE Replace(w)
    <3>1. CASE Leaves(w)
      BY <1>2, <2>8, <3>1 DEF Replace
    <3>2. CASE ~Leaves(w)
      BY <2>8, <3>2 DEF Replace, Goto, Holds, Places
    <3> QED BY <3>1, <3>2
  <2> QED BY <1>7, <2>1, <2>2, <2>3, <2>4, <2>5, <2>6, <2>7, <2>8 DEF ToolStep
<1>8. ASSUME NEW w \in Tasks, RecoveryStep(w) PROVE TypeOK'
  <2>0. ASSUME GivesUp(w) PROVE TypeOK'
    BY <1>2, <2>0 DEF GivesUp
  <2>1. CASE Scan(w)
    BY <2>1 DEF Scan, Goto, Places, Roles
  <2>2. CASE Preflight(w)
    <3>1. CASE Leaves(w)
      BY <1>2, <2>2, <3>1 DEF Preflight
    <3>2. CASE ~Leaves(w)
      BY <2>2, <3>2 DEF Preflight, Goto, Places, Modes
    <3> QED BY <3>1, <3>2
  <2>3. CASE AcquireRun(w)
    BY <2>3 DEF AcquireRun, Goto, Places, Beats
  <2>4. CASE LeaseConflict(w)
    BY <1>2, <2>4 DEF LeaseConflict
  <2>5. CASE Route(w)
    <3>1. CASE RouteOf(w)[1] = "idle"
      BY <1>2, <2>5, <3>1 DEF Route
    <3>2. CASE RouteOf(w)[1] # "idle"
      <4>1. /\ pc' = [pc EXCEPT ![w] = RouteOf(w)[1]]
            /\ mode' = [mode EXCEPT ![w] = RouteOf(w)[2]]
            /\ cur' = [cur EXCEPT ![w] = chk.call]
            /\ UNCHANGED <<role, beat, chk, exec, approval, effects, faults>>
        BY <2>5, <3>2 DEF Route, Goto, Holds
      <4>2. RouteOf(w)[1] \in Places /\ RouteOf(w)[2] \in Modes
        BY RouteFacts DEF Places
      <4> QED BY <4>1, <4>2
    <3> QED BY <3>1, <3>2
  <2>6. CASE RefuseRecovery(w) \/ RecoveredToolRaises(w) \/ BeginMark(w)
    BY <1>1, <2>6 DEF RefuseRecovery, RecoveredToolRaises, BeginMark, Places
  <2>7. CASE BlockExecution(w)
    <3>1. /\ exec' \in [Calls -> ExecutionStatus \cup {Absent}]
          /\ chk' \in [phase: CheckpointPhase \cup {Absent}, call: Calls \cup {NoCall}, ok: BOOLEAN]
          /\ UNCHANGED <<approval, effects>>
      <4>1. Checkpoint("execution_result_observed", cur[w]) /\ cur[w] \in Calls \cup {NoCall}
        BY Zenon, <2>7 DEF BlockExecution
      <4>2. UNCHANGED <<approval, effects>>
        BY Zenon, <2>7 DEF BlockExecution
      <4>3. \E s \in BlockedStatuses : exec' = [exec EXCEPT ![cur[w]] = s]
        BY Zenon, <2>7 DEF BlockExecution
      <4>4. exec' \in [Calls -> ExecutionStatus \cup {Absent}]
        BY Zenon, <1>0, <4>3
      <4> QED BY Zenon, <1>0, <1>c, <4>1, <4>2, <4>4
    <3>2. CASE Leaves(w) /\ UNCHANGED faults
      BY <1>2, <3>1, <3>2
    <3>3. CASE ~(Leaves(w) /\ UNCHANGED faults)
      <4>1. AfterBlock(w) \in {"blockrun", "continue"} /\ Moves(w, "block", AfterBlock(w))
        BY <2>7, <3>3 DEF BlockExecution, AfterBlock
      <4> QED BY <1>1, <3>1, <4>1 DEF Places
    <3> QED BY <3>2, <3>3
  <2>8. CASE BlockRun(w)
    BY <1>0, <1>2, <2>8 DEF BlockRun, FinishRun, Checkpoint
  <2>9. CASE \/ BlockExecutionFails(w) \/ BlockRunRefused(w) \/ PrepareRecoveryFails(w)
             \/ RecoveredResultLost(w) \/ ContinueFails(w)
    BY <2>0, <2>9 DEF BlockExecutionFails, BlockRunRefused, PrepareRecoveryFails,
                      RecoveredResultLost, ContinueFails
  <2>10. CASE PrepareRecovery(w)
    <3>1. CASE mode[w] = "forced"
      BY <1>0, <1>1, <1>c, <2>10, <3>1 DEF PrepareRecovery, Places
    <3>2. CASE mode[w] # "forced"
      BY <1>1, <2>10, <3>2 DEF PrepareRecovery, Places
    <3> QED BY <3>1, <3>2
  <2>11. CASE Redispatch(w)
    BY <1>1, <1>4, <2>11 DEF Redispatch, Places
  <2>12. CASE RecoveredToolReturns(w) \/ RecordRaised(w) \/ MarkUncertain(w)
    BY <1>0, <1>1, <1>3, <2>12
    DEF RecoveredToolReturns, RecordRaised, MarkUncertain, RaisedStatus, Places
  <2>13. CASE Continue(w)
    BY <2>13 DEF Continue, Goto, Holds, Places, Modes
  <2> QED
    BY Zenon, <1>8, <2>1, <2>2, <2>3, <2>4, <2>5, <2>6, <2>7, <2>8, <2>9, <2>10, <2>11, <2>12, <2>13
    DEF RecoveryStep
<1>9. ASSUME NEW w \in Tasks, ProducerStep(w) PROVE TypeOK'
  <2>1. CASE ProducerEnds(w)
    BY <1>2, <2>1 DEF ProducerEnds
  <2>2. CASE ProducerFails(w) /\ CanFinish(w, "failed_terminal")
    BY <1>0, <1>c, <2>2 DEF ProducerFails, Beats
  <2>3. CASE ProducerFails(w) /\ ~CanFinish(w, "failed_terminal")
    BY <2>3 DEF ProducerFails, Goto, Holds, Places, Beats
  <2> QED BY <1>9, <2>1, <2>2, <2>3 DEF ProducerStep
<1>10. CASE EnvironmentStep
  <2>1. ASSUME NEW w \in Tasks, Heartbeat(w) \/ HeartbeatLost(w) PROVE TypeOK'
    <3>1. CASE Leaves(w)
      BY <1>2, <2>1, <3>1 DEF Heartbeat, HeartbeatLost
    <3>2. CASE ~Leaves(w)
      BY <2>1, <3>2 DEF Heartbeat, HeartbeatLost, Beats
    <3> QED BY <3>1, <3>2
  <2>2. ASSUME NEW w \in Tasks, HeartbeatError(w) PROVE TypeOK'
    BY <1>5, <2>2 DEF HeartbeatError, Beats
  <2>3. ASSUME NEW w \in Tasks, CancelProducer(w) PROVE TypeOK'
    <3>1. CASE Leaves(w) /\ Fault
      BY <1>2, <1>5, <2>3, <3>1 DEF CancelProducer
    <3>2. CASE ~(Leaves(w) /\ Fault)
      BY <2>3, <3>2 DEF CancelProducer, Goto, Holds, Places, Beats
    <3> QED BY <3>1, <3>2
  <2>4. ASSUME NEW w \in Tasks, Crash(w) PROVE TypeOK'
    BY <1>2, <1>5, <2>4 DEF Crash
  <2>5. CASE Expire \/ Damage
    BY Zenon, <1>5, <2>5 DEF Expire, Damage
  <2>6. CASE RequestCancellation
    BY <1>0, <1>c, <2>6 DEF RequestCancellation
  <2>7. ASSUME NEW c \in Calls, Decide(c) PROVE TypeOK'
    BY <1>0, <2>7 DEF Decide
  <2> QED BY <1>10, <2>1, <2>2, <2>3, <2>4, <2>5, <2>6, <2>7 DEF EnvironmentStep
<1>11. CASE UNCHANGED vars
  BY <1>11 DEF vars, fenceVars
<1> QED BY <1>6, <1>7, <1>8, <1>9, <1>10, <1>11 DEF Next, TaskStep

\* The rows and the tasks keep to the vocabularies of the code, whatever the calls,
\* the tasks and the faults.
THEOREM TypesHold == Spec => []TypeOK
<1>1. Init => TypeOK
  BY CallsAssumption, BoundsAssumption
  DEF Init, TypeOK, FenceInit, FenceTypeOK, LeaseState, RunRow, Places, Roles, Modes, Beats
<1>2. FenceInv' /\ TypeOK /\ [Next]_vars => TypeOK'
  BY TypeStep DEF FenceInv
<1> QED BY <1>1, <1>2, OneTaskHolds, PTL DEF Spec

-----------------------------------------------------------------------------
(* Executions and the right to invoke *)

\* The leaves are first-order: Zenon proves them, and those it does not find cite SMT.
USE Zenon

-----------------------------------------------------------------------------
(* The invariant *)

Unstarted == {Absent, "not_started"}

\* The places where a task works on a call,
CallPlaces == {"request", "prepare", "check", "close", "dispatch", "running", "recover", "mark",
               "redispatch", "rerunning", "raised", "block"}

\* and those where the task that holds the run has no execution in flight.
QuietPlaces == {"model", "request", "requested", "paused", "prepare", "answer", "finish",
                "replace", "continue"}

\* A task with a copy that can write, if the lease has not lapsed.
Writer(w) == handle[w] = "fresh" \/ prepared[w] = "fresh"

\* The right to invoke call c for the first time, which starting its execution gives.
Pending(w, c) ==
  /\ cur[w] = c
  /\ \/ pc[w] \in {"check", "close", "dispatch"}
     \/ pc[w] = "redispatch" /\ mode[w] = "forced"

TaskInv(w) ==
  /\ pc[w] \in CallPlaces => cur[w] \in Calls
  /\ pc[w] \in {"request", "prepare"} /\ Holder(w) => exec[cur[w]] = Absent
  /\ pc[w] \in {"check", "close", "dispatch", "redispatch"} => exec[cur[w]] \notin Unstarted
  /\ pc[w] = "recover" /\ mode[w] = "retry" => exec[cur[w]] \notin Unstarted
  /\ pc[w] = "redispatch" => mode[w] \in {"forced", "retry"}
  /\ pc[w] \in {"recover", "redispatch"} /\ mode[w] = "retry" =>
       StrategyOf[cur[w]] # "manual_uncertain"
  /\ pc[w] \in {"prepare", "check", "close", "dispatch"} => cur[w] \notin NeedsApproval
  /\ pc[w] \in {"recover", "redispatch"} /\ mode[w] \in {"forced", "retry"} =>
       (cur[w] \in NeedsApproval => approval[cur[w]] = "approved")
  /\ pc[w] \in QuietPlaces /\ Holder(w) => \A c \in Calls : exec[c] # "executing"
  /\ chk.phase = "run_terminal" /\ Writer(w) => beat[w] = "ended"
  /\ run.status = "completed" => ~Holder(w)
  /\ pc[w] \in {"idle", "preflight", "acquire", "resume"} => handle[w] = "none" /\ prepared[w] = "none"

CallInv(c) ==
  /\ approval[c] # Absent => exec[c] # Absent
  /\ exec[c] \in Unstarted => effects[c] = 0
  /\ c \in NeedsApproval /\ effects[c] > 0 => approval[c] = "approved"
  /\ StrategyOf[c] = "manual_uncertain" =>
       /\ effects[c] <= 1
       /\ exec[c] = "failed_retryable" => effects[c] = 0
       /\ \A w \in Tasks : Pending(w, c) =>
            /\ effects[c] = 0
            /\ exec[c] # "failed_retryable"
            /\ \A v \in Tasks : Pending(v, c) => v = w

StoreInv ==
  /\ chk.phase \in {"awaiting_approval", "execution_dispatching", "execution_result_observed"} =>
       chk.call \in Calls
  /\ chk.phase = "execution_dispatching" /\ chk.call \in NeedsApproval =>
       approval[chk.call] = "approved"
  /\ run.status = "absent" => \A c \in Calls : exec[c] = Absent
  /\ CheckpointAgrees

WorkInv == TypeOK /\ FenceInv /\ StoreInv /\ (\A w \in Tasks : TaskInv(w)) /\ (\A c \in Calls : CallInv(c))

-----------------------------------------------------------------------------
(* What a step of task w leaves alone, and steps that write no row but the run's *)

SameFor(t) ==
  /\ pc'[t] = pc[t] /\ cur'[t] = cur[t] /\ mode'[t] = mode[t] /\ beat'[t] = beat[t]
  /\ Holder(t)' => Holder(t)
  /\ Writer(t)' => Writer(t)
  /\ handle[t] = "none" => handle'[t] = "none"
  /\ prepared[t] = "none" => prepared'[t] = "none"

Others(w) == \A t \in Tasks : t # w => SameFor(t)

\* What a step of task w may do to the lease copies.
FenceMoves(w) ==
  \/ UNCHANGED fenceVars
  \/ FenceSnapshot(w) \/ FenceReplace(w) \/ FenceDrop(w) \/ FenceForget(w) \/ KeepLease(w)
  \/ FenceHeartbeat(w) \/ FenceTakeOver(w) \/ FenceResumeWaiting(w)
  \/ \E s : \/ FenceCreate(w, s) \/ FenceTransition(w, s) \/ FenceTransitionPrepared(w, s)
            \/ FenceFinish(w, s)

\* What SameFor says of the lease copies holds of every step of the fence that task w takes.
LEMMA FenceOthers ==
  ASSUME FenceTypeOK, NEW w \in Tasks, NEW t \in Tasks, t # w, FenceMoves(w)
  PROVE  /\ Holder(t)' => Holder(t)
         /\ Writer(t)' => Writer(t)
         /\ handle[t] = "none" => handle'[t] = "none"
         /\ prepared[t] = "none" => prepared'[t] = "none"
<1> USE DEF FenceTypeOK, Holder, Writer
<1>1. CASE \/ UNCHANGED fenceVars \/ FenceSnapshot(w) \/ FenceReplace(w) \/ FenceDrop(w)
           \/ FenceForget(w) \/ KeepLease(w)
  BY <1>1 DEF fenceVars, FenceSnapshot, FenceReplace, FenceDrop, FenceForget, KeepLease
<1>2. CASE FenceHeartbeat(w) \/ FenceTakeOver(w) \/ FenceResumeWaiting(w)
  BY <1>2 DEF FenceHeartbeat, WriteRun, FenceTakeOver, FenceResumeWaiting, NewToken, Aged, Fenced
<1>3. ASSUME NEW s, FenceCreate(w, s) \/ FenceTransition(w, s)
      PROVE  /\ Holder(t)' => Holder(t)
             /\ Writer(t)' => Writer(t)
             /\ handle[t] = "none" => handle'[t] = "none"
             /\ prepared[t] = "none" => prepared'[t] = "none"
  BY <1>3 DEF FenceCreate, FenceTransition, WriteRun, Aged
<1>4. ASSUME NEW s, FenceTransitionPrepared(w, s) \/ FenceFinish(w, s)
      PROVE  /\ Holder(t)' => Holder(t)
             /\ Writer(t)' => Writer(t)
             /\ handle[t] = "none" => handle'[t] = "none"
             /\ prepared[t] = "none" => prepared'[t] = "none"
  BY <1>4 DEF FenceTransitionPrepared, FenceFinish, Aged
<1> QED BY <1>1, <1>2, <1>3, <1>4 DEF FenceMoves

\* What the invariant says of a task outlives a step that leaves the task and the rows alone.
LEMMA TaskInvKept ==
  ASSUME NEW t \in Tasks, TaskInv(t), SameFor(t), exec' = exec, approval' = approval,
         chk'.phase = chk.phase, run'.status = "completed" => run.status = "completed"
  PROVE  TaskInv(t)'
<1>1. /\ pc'[t] = pc[t] /\ cur'[t] = cur[t] /\ mode'[t] = mode[t] /\ beat'[t] = beat[t]
      /\ Holder(t)' => Holder(t)
      /\ Writer(t)' => Writer(t)
      /\ handle[t] = "none" => handle'[t] = "none"
      /\ prepared[t] = "none" => prepared'[t] = "none"
  BY DEF SameFor
<1> QED BY ONLY TaskInv(t), exec' = exec, approval' = approval, chk'.phase = chk.phase,
                run'.status = "completed" => run.status = "completed", <1>1
        DEF TaskInv

\* A step that writes no execution, approval or checkpoint preserves the invariant if
\* its task ends in a place that the invariant allows.
LEMMA Calm ==
  ASSUME WorkInv, TypeOK', FenceInv', NEW w \in Tasks, Others(w), TaskInv(w)',
         UNCHANGED <<exec, approval, effects>>, chk'.phase = chk.phase, chk'.call = chk.call,
         run'.status = run.status \/ {run.status, run'.status} \subseteq ActiveRunStatuses,
         \A c \in Calls : Pending(w, c)' => Pending(w, c)
  PROVE  WorkInv'
<1>1. ASSUME NEW t \in Tasks PROVE TaskInv(t)'
  <2>1. CASE t = w
    BY <2>1
  <2>2. CASE t # w
    <3>1. TaskInv(t) /\ SameFor(t)
      BY <2>2 DEF WorkInv, Others
    <3>2. run'.status = "completed" => run.status = "completed"
      BY DEF ActiveRunStatuses
    <3> QED BY <3>1, <3>2, TaskInvKept
  <2> QED BY <2>1, <2>2
<1>2. ASSUME NEW c \in Calls PROVE CallInv(c)'
  <2>1. \A t \in Tasks : Pending(t, c)' => Pending(t, c)
    BY DEF Others, SameFor, Pending
  <2>2. CallInv(c)
    BY DEF WorkInv
  <2> HIDE DEF Pending
  <2> QED BY <2>1, <2>2 DEF CallInv
<1>3. StoreInv'
  BY DEF WorkInv, StoreInv, CheckpointAgrees, HasNonterminalExecution, Nonterminal,
         ActiveRunStatuses, TERMINAL_RUN_STATUSES
<1> QED BY <1>1, <1>2, <1>3 DEF WorkInv

\* A step that moves the execution of call k on and names it in the checkpoint, under
\* a copy that is not fenced, leaves the other tasks and calls as they are.
LEMMA Writes ==
  ASSUME WorkInv, TypeOK', FenceInv', NEW w \in Tasks, Others(w), TaskInv(w)', Holder(w),
         NEW k \in Calls, NEW s, exec' = [exec EXCEPT ![k] = s], CallInv(k)',
         UNCHANGED <<approval, effects>>, run'.status = run.status,
         chk'.call = k,
         \/ chk'.phase = "execution_dispatching" /\ s = "executing"
            /\ (k \in NeedsApproval => approval[k] = "approved")
         \/ chk'.phase = "execution_result_observed"
            /\ s \in {"failed_retryable"} \cup TERMINAL_EXECUTION_STATUSES,
         \A c \in Calls : Nonterminal(c) => c = k,
         \A c \in Calls : c # k => ~Pending(w, c)'
  PROVE  WorkInv'
<1>0. /\ exec \in [Calls -> ExecutionStatus \cup {Absent}]
      /\ s \notin Unstarted
      /\ exec'[k] = s
      /\ \A c \in Calls : c # k => exec'[c] = exec[c] /\ exec[c] # "executing"
  BY DEF WorkInv, TypeOK, Unstarted, Nonterminal, TERMINAL_EXECUTION_STATUSES, BlockedStatuses, Absent
<1>1. ASSUME NEW t \in Tasks PROVE TaskInv(t)'
  <2>1. CASE t = w
    BY <2>1
  <2>2. CASE t # w
    <3>1. TaskInv(t) /\ SameFor(t) /\ ~Holder(t)
      BY <2>2 DEF WorkInv, Others, FenceInv
    <3>2. ~Holder(t)' /\ chk'.phase # "run_terminal"
      BY <3>1 DEF SameFor
    <3>3. /\ pc[t] \in {"check", "close", "dispatch", "redispatch"} => exec'[cur[t]] \notin Unstarted
          /\ pc[t] = "recover" /\ mode[t] = "retry" => exec'[cur[t]] \notin Unstarted
      BY <1>0, <3>1 DEF TaskInv, CallPlaces
    <3> QED BY <3>1, <3>2, <3>3 DEF TaskInv, SameFor
  <2> QED BY <2>1, <2>2
<1>2. ASSUME NEW c \in Calls PROVE CallInv(c)'
  <2>1. CASE c = k
    BY <2>1
  <2>2. CASE c # k
    <3>1. \A t \in Tasks : Pending(t, c)' => Pending(t, c)
      BY <2>2 DEF Others, SameFor, Pending
    <3>2. CallInv(c) /\ exec'[c] = exec[c]
      BY <1>0, <2>2 DEF WorkInv
    <3> QED BY <3>1, <3>2 DEF CallInv
  <2> QED BY <2>1, <2>2
<1>3. StoreInv'
  <2>1. run.status # "absent" /\ run.status # "completed"
    BY DEF WorkInv, FenceInv, Holder, TaskInv
  <2> QED
    BY <1>0, <2>1, CallsAssumption
    DEF WorkInv, StoreInv, CheckpointAgrees, HasNonterminalExecution, Nonterminal,
        TERMINAL_EXECUTION_STATUSES, BlockedStatuses, Absent, Unstarted
<1> QED BY <1>1, <1>2, <1>3 DEF WorkInv

\* A task that moves on, or leaves, changes nobody else's place.
LEMMA MovesOthers ==
  ASSUME TypeOK, NEW w \in Tasks, NEW p, NEW q, Moves(w, p, q)
  PROVE  /\ \A t \in Tasks : t # w => /\ pc'[t] = pc[t] /\ cur'[t] = cur[t]
                                      /\ mode'[t] = mode[t] /\ beat'[t] = beat[t]
         /\ pc[w] = p /\ pc'[w] = q
         /\ q \notin {"model", "fail"} => cur'[w] = cur[w]
         /\ mode'[w] = mode[w] /\ beat'[w] = beat[w]
BY DEF TypeOK, Moves, Goto, Holds

LEMMA MoveKeepsOthers ==
  ASSUME TypeOK, NEW w \in Tasks, NEW p, NEW q, Moves(w, p, q), FenceMoves(w)
  PROVE  Others(w)
<1>1. SUFFICES ASSUME NEW t \in Tasks, t # w
               PROVE  SameFor(t)
  BY DEF Others
<1>2. pc'[t] = pc[t] /\ cur'[t] = cur[t] /\ mode'[t] = mode[t] /\ beat'[t] = beat[t]
  BY <1>1, MovesOthers
<1>3. /\ Holder(t)' => Holder(t)
      /\ Writer(t)' => Writer(t)
      /\ handle[t] = "none" => handle'[t] = "none"
      /\ prepared[t] = "none" => prepared'[t] = "none"
  <2>1. FenceTypeOK
    BY DEF TypeOK
  <2> QED BY <1>1, <2>1, FenceOthers
<1> QED BY <1>2, <1>3 DEF SameFor

LEMMA LeavesOthers ==
  ASSUME TypeOK, NEW w \in Tasks, Leaves(w)
  PROVE  /\ \A t \in Tasks : t # w => /\ pc'[t] = pc[t] /\ cur'[t] = cur[t]
                                      /\ mode'[t] = mode[t] /\ beat'[t] = beat[t]
         /\ pc'[w] = "idle"
BY DEF TypeOK, Leaves, Holds

\* A task that leaves and drops its copies, with nothing written, keeps the invariant.
LEMMA LeaveKeeps ==
  ASSUME WorkInv, TypeOK', FenceInv', NEW w \in Tasks, Leaves(w), UNCHANGED <<store, effects>>,
         FenceDrop(w)
  PROVE  WorkInv'
<1>1. Others(w)
  <2>1. TypeOK /\ FenceTypeOK
    BY DEF WorkInv, TypeOK
  <2>2. FenceMoves(w)
    BY DEF FenceMoves
  <2>3. ASSUME NEW t \in Tasks, t # w PROVE SameFor(t)
    <3>1. pc'[t] = pc[t] /\ cur'[t] = cur[t] /\ mode'[t] = mode[t] /\ beat'[t] = beat[t]
      BY <2>1, <2>3, LeavesOthers
    <3> QED BY <2>1, <2>2, <2>3, <3>1, FenceOthers DEF SameFor
  <2> QED BY <2>3 DEF Others
<1>2. TaskInv(w)' /\ pc'[w] = "idle"
  <2>1. TypeOK /\ FenceTypeOK
    BY DEF WorkInv, TypeOK
  <2> QED BY <2>1, LeavesOthers
      DEF FenceTypeOK, FenceDrop, TaskInv, CallPlaces, QuietPlaces, Writer, Holder
<1> QED BY <1>1, <1>2, Calm DEF Pending, store, FenceDrop

\* The step that ends the run.
LEMMA EndKeeps ==
  ASSUME WorkInv, TypeOK', FenceInv', NEW w \in Tasks, Others(w), TaskInv(w)', Holder(w),
         UNCHANGED <<exec, approval, effects>>, Checkpoint("run_terminal", NoCall),
         run'.status \in TERMINAL_RUN_STATUSES,
         run'.status = "completed" => ~HasNonterminalExecution,
         \A c \in Calls : Pending(w, c)' => Pending(w, c)
  PROVE  WorkInv'
<1>0. chk'.phase = "run_terminal"
  BY DEF Checkpoint
<1>1. ASSUME NEW t \in Tasks PROVE TaskInv(t)'
  <2>1. CASE t = w
    BY <2>1
  <2>2. CASE t # w
    <3>1. TaskInv(t) /\ SameFor(t) /\ ~Holder(t)
      BY <2>2 DEF WorkInv, Others, FenceInv
    <3>2. ~Holder(t)' /\ ~Writer(t)'
      BY <3>1 DEF SameFor, Holder, Writer
    <3> QED BY <3>1, <3>2 DEF TaskInv, SameFor
  <2> QED BY <2>1, <2>2
<1>2. ASSUME NEW c \in Calls PROVE CallInv(c)'
  <2>1. \A t \in Tasks : Pending(t, c)' => Pending(t, c)
    BY DEF Others, SameFor, Pending
  <2>2. CallInv(c)
    BY DEF WorkInv
  <2> QED BY <2>1, <2>2 DEF CallInv
<1>3. StoreInv'
  BY <1>0
  DEF WorkInv, StoreInv, CheckpointAgrees, HasNonterminalExecution, Nonterminal,
      TERMINAL_RUN_STATUSES, ActiveRunStatuses
<1> QED BY <1>1, <1>2, <1>3 DEF WorkInv

LEMMA FinishKeeps ==
  ASSUME WorkInv, TypeOK', FenceInv', NEW w \in Tasks, NEW s \in TERMINAL_RUN_STATUSES, FinishRun(w, s)
  PROVE  WorkInv'
<1>1. Others(w)
  <2>1. TypeOK /\ FenceTypeOK /\ Leaves(w) /\ FenceFinish(w, s)
    BY DEF WorkInv, TypeOK, FinishRun
  <2> QED BY <2>1, LeavesOthers, FenceOthers DEF FenceMoves, Others, SameFor
<1>2. Leaves(w) /\ FenceFinish(w, s) /\ Checkpoint("run_terminal", NoCall)
  BY DEF FinishRun
<1>3. pc'[w] = "idle" /\ handle'[w] = "none" /\ prepared'[w] = "none"
  BY <1>2, LeavesOthers DEF WorkInv, TypeOK, FenceTypeOK, FenceFinish, Aged
<1>4. TaskInv(w)'
  BY <1>3 DEF TaskInv, CallPlaces, QuietPlaces, Writer, Holder
<1>5. Holder(w) /\ run'.status = s /\ (s = "completed" => ~HasNonterminalExecution)
  BY SMT, <1>2 DEF FinishRun, CanFinish, FenceFinish, Current, Holder, RunRow
<1> QED BY <1>1, <1>2, <1>3, <1>4, <1>5, EndKeeps DEF FinishRun, Pending

LEMMA AgentKeeps ==
  ASSUME WorkInv, TypeOK', FenceInv', NEW w \in Tasks, AgentStep(w)
  PROVE  WorkInv'
<1>0. TypeOK /\ FenceTypeOK /\ TaskInv(w) /\ FenceInv
  BY DEF WorkInv, TypeOK
<1>t. {"completed", "failed_terminal", "cancelled"} \subseteq TERMINAL_RUN_STATUSES
  BY DEF TERMINAL_RUN_STATUSES
<1>1. CASE StartRun(w)
  <2>1. /\ run.status = "absent" /\ run'.status = "running" /\ chk'.phase = "run_started"
        /\ pc'[w] = "model" /\ beat'[w] = "on" /\ UNCHANGED <<exec, approval, effects, cur, mode>>
        /\ \A t \in Tasks : t # w => pc'[t] = pc[t] /\ beat'[t] = beat[t]
    BY <1>0, <1>1 DEF StartRun, FenceCreate, RunRow, Checkpoint, Goto, TypeOK
  <2>2. Others(w)
    <3>1. FenceCreate(w, "running")
      BY <1>1 DEF StartRun
    <3> QED BY <1>0, <2>1, <3>1, FenceOthers DEF FenceMoves, Others, SameFor
  <2>3. \A c \in Calls : exec[c] = Absent
    BY <2>1 DEF WorkInv, StoreInv
  <2>4. TaskInv(w)'
    BY <2>1, <2>3 DEF TaskInv, CallPlaces, QuietPlaces, Absent
  <2>5. ASSUME NEW t \in Tasks, t # w PROVE TaskInv(t)'
    <3>1. TaskInv(t) /\ SameFor(t)
      BY <2>2, <2>5 DEF WorkInv, Others
    <3> QED BY <2>1, <3>1 DEF TaskInv, SameFor
  <2>6. ASSUME NEW c \in Calls PROVE CallInv(c)'
    <3>1. \A t \in Tasks : Pending(t, c)' => Pending(t, c)
      BY <2>1, <2>2 DEF Others, SameFor, Pending
    <3>2. CallInv(c)
      BY DEF WorkInv
    <3> QED BY <2>1, <3>1, <3>2 DEF CallInv
  <2>7. StoreInv'
    BY <2>1, <2>3 DEF StoreInv, CheckpointAgrees, HasNonterminalExecution, Nonterminal,
                      Absent, TERMINAL_EXECUTION_STATUSES
  <2> QED BY <2>4, <2>5, <2>6, <2>7 DEF WorkInv
<1>2. CASE RoundFails(w) \/ AnswerText(w) \/ PersistAnswerFails(w)
  <2>1. PICK p, q : /\ Moves(w, p, q) /\ UNCHANGED <<fenceVars, store, effects>>
                    /\ q \in {"fail", "answer"} /\ (q = "answer" => p = "model")
    BY SMT, <1>2 DEF RoundFails, AnswerText, PersistAnswerFails
  <2>2. Others(w)
    BY <1>0, <2>1, MovesOthers, MoveKeepsOthers DEF FenceMoves
  <2>m. pc[w] = p /\ pc'[w] = q /\ beat'[w] = beat[w]
    BY <1>0, <2>1, MovesOthers
  <2>3. TaskInv(w)'
    BY <1>0, <2>1, <2>m DEF TaskInv, CallPlaces, QuietPlaces, Holder, Writer, fenceVars, store
  <2> QED BY <2>1, <2>2, <2>3, <2>m, Calm DEF Pending, fenceVars, store
<1>3. ASSUME NEW c \in Calls, CallTool(w, c) PROVE WorkInv'
  <2>1. /\ FenceSnapshot(w) /\ UNCHANGED <<store, effects, mode, beat>> /\ exec[c] = Absent
        /\ pc[w] = "model" /\ pc'[w] = (IF c \in NeedsApproval THEN "request" ELSE "prepare")
        /\ cur'[w] = c
        /\ \A t \in Tasks : t # w => pc'[t] = pc[t] /\ cur'[t] = cur[t]
    BY <1>0, <1>3 DEF CallTool, Goto, Holds, TypeOK
  <2>2. Others(w)
    BY <1>0, <2>1, FenceOthers DEF FenceMoves, Others, SameFor
  <2>3. (Holder(w)' => Holder(w)) /\ (Writer(w)' => Writer(w)) /\ UNCHANGED run
    BY <1>0, <2>1 DEF FenceSnapshot, Holder, Writer, FenceTypeOK
  <2>4. TaskInv(w)'
    BY <1>0, <2>1, <2>3 DEF TaskInv, CallPlaces, QuietPlaces, store
  <2> QED BY <2>1, <2>2, <2>3, <2>4, Calm DEF Pending, store
<1>4. CASE PersistAnswer(w)
  <2>1. /\ Moves(w, "answer", "finish") /\ UNCHANGED fenceVars /\ UNCHANGED <<exec, approval, effects>>
        /\ Current(handle[w]) /\ chk'.phase = "model_output_committed"
    BY <1>4 DEF PersistAnswer, Checkpoint
  <2>2. Others(w)
    BY <1>0, <2>1, MovesOthers, MoveKeepsOthers DEF FenceMoves
  <2>m. pc[w] = "answer" /\ pc'[w] = "finish" /\ beat'[w] = beat[w]
    BY <1>0, <2>1, MovesOthers
  <2>3. \A c \in Calls : exec[c] # "executing"
    BY <1>0, <2>1, <2>m DEF TaskInv, QuietPlaces, Current, Holder
  <2>4. ASSUME NEW t \in Tasks PROVE TaskInv(t)'
    <3>1. CASE t = w
      <4>1. UNCHANGED <<exec, approval, run>> /\ Holder(w)' = Holder(w) /\ chk'.phase # "run_terminal"
        BY <2>1 DEF fenceVars, Holder
      <4> QED BY <1>0, <2>3, <2>m, <3>1, <4>1 DEF TaskInv, CallPlaces, QuietPlaces
    <3>2. CASE t # w
      <4>1. TaskInv(t) /\ SameFor(t)
        BY <2>2, <3>2 DEF WorkInv, Others
      <4> QED BY <2>1, <4>1 DEF TaskInv, SameFor, fenceVars
    <3> QED BY <3>1, <3>2
  <2>5. ASSUME NEW c \in Calls PROVE CallInv(c)'
    <3>1. \A t \in Tasks : Pending(t, c)' => Pending(t, c)
      BY <2>2, <2>m DEF Others, SameFor, Pending
    <3>2. CallInv(c)
      BY DEF WorkInv
    <3> QED BY <2>1, <3>1, <3>2 DEF CallInv
  <2>6. StoreInv'
    BY <2>1, <2>3
    DEF WorkInv, StoreInv, CheckpointAgrees, HasNonterminalExecution, Nonterminal, fenceVars
  <2> QED BY <2>4, <2>5, <2>6 DEF WorkInv
<1>5. ASSUME NEW s, NEW p \in {"abort", "idle"}, FinishFails(w, s, p), beat[w] # "ended" \/ p = "idle"
      PROVE  WorkInv'
  <2>1. CASE role[w] = "chat" /\ p # "idle"
    <3>1. /\ UNCHANGED fenceVars /\ UNCHANGED <<store, effects, cur, mode>>
          /\ pc'[w] = "abort" /\ beat[w] # "ended"
          /\ \A t \in Tasks : t # w => pc'[t] = pc[t] /\ beat'[t] = beat[t]
      BY SMT, <1>0, <1>5, <2>1 DEF FinishFails, Goto, TypeOK
    <3>2. Others(w)
      BY <1>0, <3>1, FenceOthers DEF FenceMoves, Others, SameFor
    <3>3. TaskInv(w)'
      BY <1>0, <3>1 DEF TaskInv, CallPlaces, QuietPlaces, Holder, Writer, fenceVars, store
    <3> QED BY <3>1, <3>2, <3>3, Calm DEF Pending, fenceVars, store
  <2>2. CASE ~(role[w] = "chat" /\ p # "idle")
    BY <1>5, <2>2, LeaveKeeps DEF FinishFails
  <2> QED BY <2>1, <2>2
<1>6. CASE Complete(w) \/ Fail(w) \/ Abort(w)
  BY <1>t, <1>6, FinishKeeps DEF Complete, Fail, Abort
<1>7. CASE CompleteRefused(w) \/ FailRefused(w) \/ AbortRefused(w)
  BY <1>5, <1>7 DEF CompleteRefused, FailRefused, AbortRefused, Listens
<1> QED BY <1>1, <1>2, <1>3, <1>4, <1>6, <1>7 DEF AgentStep

\* A result is recorded: the execution moves on from EXECUTING, and is closed as
\* FAILED_RETRYABLE only by the task that could have dispatched it.
LEMMA ResultKeeps ==
  ASSUME WorkInv, TypeOK', FenceInv', NEW w \in Tasks, Others(w),
         pc[w] \in {"close", "running", "rerunning", "raised", "mark"}, pc'[w] \in {"replace", "model"},
         NEW s \in {"failed_retryable"} \cup TERMINAL_EXECUTION_STATUSES,
         s = "failed_retryable" => pc[w] = "close",
         RecordResult(w, cur[w], s), run'.status = run.status
  PROVE  WorkInv'
<1>k. PICK k \in Calls : k = cur[w]
  BY DEF WorkInv, TaskInv, CallPlaces
<1>1. /\ k \in Calls /\ exec[k] = "executing" /\ Holder(w) /\ TaskInv(w) /\ CallInv(k)
      /\ exec \in [Calls -> ExecutionStatus \cup {Absent}]
      /\ pc[w] \in CallPlaces
  BY <1>k DEF WorkInv, TypeOK, CallPlaces, RecordResult, CanPersist, Holder
<1>2. /\ exec' = [exec EXCEPT ![k] = s] /\ UNCHANGED <<approval, effects>>
      /\ chk'.phase = "execution_result_observed" /\ chk'.call = k
  BY <1>k DEF RecordResult, Checkpoint
<1>3. \A c \in Calls : Nonterminal(c) => c = k
  BY <1>1 DEF WorkInv, StoreInv, CheckpointAgrees, Nonterminal, TERMINAL_EXECUTION_STATUSES,
              BlockedStatuses, Absent
<1>4. s \notin Unstarted \cup {"executing"}
  BY DEF TERMINAL_EXECUTION_STATUSES, BlockedStatuses, Absent, Unstarted
<1>5. \A c \in Calls : exec'[c] # "executing"
  BY <1>1, <1>2, <1>3, <1>4 DEF Nonterminal, TERMINAL_EXECUTION_STATUSES, BlockedStatuses, Absent
<1>6. TaskInv(w)'
  BY <1>1, <1>2, <1>5 DEF TaskInv, CallPlaces, QuietPlaces
<1>7. \A v \in Tasks : Pending(v, k)' => v # w /\ Pending(v, k)
  BY <1>k DEF Pending, Others, SameFor
<1>8. pc[w] = "close" => Pending(w, k)
  BY <1>k DEF Pending
<1>9. CallInv(k)'
  <2>1. exec'[k] = s
    BY <1>1, <1>2
  <2> QED BY <1>1, <1>2, <1>4, <1>7, <1>8, <2>1 DEF CallInv, Unstarted
<1>10. \A c \in Calls : ~Pending(w, c)'
  BY DEF Pending
<1> QED BY <1>1, <1>2, <1>3, <1>6, <1>9, <1>10, Writes

\* An invocation is the first one of its call, or one that may be repeated.
LEMMA InvokeKeeps ==
  ASSUME WorkInv, TypeOK', FenceInv', NEW w \in Tasks, NEW p, NEW q, Moves(w, p, q),
         \/ p = "dispatch" /\ q = "running" /\ UNCHANGED fenceVars
         \/ p = "redispatch" /\ q = "rerunning" /\ FenceSnapshot(w),
         Invoke(cur[w]), UNCHANGED store
  PROVE  WorkInv'
<1>0. TypeOK /\ FenceTypeOK /\ TaskInv(w) /\ FenceInv
  BY DEF WorkInv, TypeOK
<1>k. PICK k \in Calls : k = cur[w]
  BY <1>0, MovesOthers DEF TaskInv, CallPlaces
<1>1. /\ Others(w) /\ pc[w] = p /\ pc'[w] = q /\ cur'[w] = k /\ beat'[w] = beat[w]
      /\ run' = run
  BY <1>0, <1>k, MovesOthers, MoveKeepsOthers DEF FenceMoves, fenceVars, FenceSnapshot
<1>2. CallInv(k) /\ exec[k] \notin Unstarted
  BY <1>0, <1>k, <1>1 DEF WorkInv, TaskInv, CallPlaces
<1>3. /\ \A d \in Calls : d # k => effects'[d] = effects[d]
      /\ effects'[k] \in 1..(effects[k] + 1) /\ effects[k] \in Nat
  BY SMT, <1>0, <1>k, <1>2, InvokeAdds DEF TypeOK
<1>4. (Holder(w)' => Holder(w)) /\ (Writer(w)' => Writer(w))
  BY <1>0 DEF FenceTypeOK, FenceSnapshot, fenceVars, Holder, Writer
<1>5. ASSUME NEW t \in Tasks PROVE TaskInv(t)'
  <2>1. CASE t = w
    BY <1>0, <1>1, <1>2, <1>4, <2>1 DEF TaskInv, CallPlaces, QuietPlaces, store
  <2>2. CASE t # w
    <3>1. TaskInv(t) /\ SameFor(t)
      BY <1>1, <2>2 DEF WorkInv, Others
    <3> QED BY <1>1, <3>1, TaskInvKept DEF store
  <2> QED BY <2>1, <2>2
<1>6. \A c \in Calls, t \in Tasks : Pending(t, c)' => t # w /\ Pending(t, c)
  BY <1>1 DEF Others, SameFor, Pending
<1>7. StrategyOf[k] = "manual_uncertain" => Pending(w, k)
  BY <1>0, <1>k, <1>1 DEF TaskInv, Pending
<1>8. k \in NeedsApproval => approval[k] = "approved"
  BY <1>0, <1>k, <1>1 DEF TaskInv
<1>9. ASSUME NEW c \in Calls PROVE CallInv(c)'
  <2>1. CallInv(c)
    BY DEF WorkInv
  <2>2. CASE c = k
    <3>1. ASSUME StrategyOf[k] = "manual_uncertain"
          PROVE  effects'[k] <= 1 /\ exec[k] # "failed_retryable" /\ \A t \in Tasks : ~Pending(t, k)'
      <4>1. /\ effects[k] = 0 /\ exec[k] # "failed_retryable"
            /\ \A t \in Tasks : Pending(t, k) => t = w
        BY <1>2, <1>7, <3>1 DEF CallInv
      <4>2. effects'[k] <= 1
        BY ONLY <1>3, <4>1, SMT
      <4> QED BY <1>6, <4>1, <4>2
    <3>2. exec' = exec /\ approval' = approval
      BY DEF store
    <3>3. CallInv(k)'
      BY <1>2, <1>8, <3>1, <3>2 DEF CallInv
    <3> QED BY <2>2, <3>3
  <2>3. CASE c # k
    BY <1>3, <1>6, <2>1, <2>3 DEF CallInv, store
  <2> QED BY <2>2, <2>3
<1>10. StoreInv'
  BY <1>1 DEF WorkInv, StoreInv, CheckpointAgrees, HasNonterminalExecution, Nonterminal, store
<1> QED BY <1>5, <1>9, <1>10 DEF WorkInv

LEMMA ToolKeeps ==
  ASSUME WorkInv, TypeOK', FenceInv', NEW w \in Tasks, ToolStep(w)
  PROVE  WorkInv'
<1>0. TypeOK /\ FenceTypeOK /\ TaskInv(w) /\ FenceInv
  BY DEF WorkInv, TypeOK
<1>n. NoCall \notin Calls
  BY CallsAssumption
\* Steps that write nothing and end where the invariant asks nothing of the call.
<1>c. ASSUME NEW p, NEW q, Moves(w, p, q), UNCHANGED <<store, effects>>, run' = run,
             FenceForget(w) \/ FenceReplace(w) \/ UNCHANGED fenceVars,
             \/ q \in {"fail", "running"}
             \/ q \in {"model", "paused"} /\ p \in {"request", "requested"}
             \/ q \in {"dispatch", "close"} /\ p = "check",
             q = "running" => p = "dispatch"
      PROVE  WorkInv'
  <2>1. Others(w)
    BY <1>0, <1>c, MovesOthers, MoveKeepsOthers DEF FenceMoves
  <2>2. /\ pc[w] = p /\ pc'[w] = q /\ beat'[w] = beat[w] /\ mode'[w] = mode[w]
        /\ q \notin {"model", "fail"} => cur'[w] = cur[w]
    BY <1>0, <1>c, MovesOthers
  <2>3. (Holder(w)' => Holder(w)) /\ (Writer(w)' => Writer(w))
    BY <1>0, <1>c DEF FenceTypeOK, FenceForget, FenceReplace, fenceVars, Holder, Writer
  <2>4. TaskInv(w)'
    BY <1>0, <1>c, <2>2, <2>3 DEF TaskInv, CallPlaces, QuietPlaces, store
  <2>5. \A c \in Calls : Pending(w, c)' => Pending(w, c)
    BY <1>c, <2>2 DEF Pending
  <2> QED BY <1>c, <2>1, <2>4, <2>5, Calm DEF store
<1>1. CASE RequestApproval(w)
  <2>k. PICK k \in Calls : k = cur[w]
    BY <1>0, <1>1 DEF RequestApproval, Moves, TaskInv, CallPlaces
  <2>1. /\ Moves(w, "request", "requested") /\ FenceTransitionPrepared(w, "awaiting_user")
        /\ CanRequest(w) /\ approval' = [approval EXCEPT ![k] = "awaiting_user"]
        /\ exec' = [exec EXCEPT ![k] = "not_started"] /\ UNCHANGED effects
        /\ chk'.phase = "awaiting_approval" /\ chk'.call = k
    BY <1>1, <2>k DEF RequestApproval, InsertApproval, Checkpoint
  <2>2. Others(w) /\ pc[w] = "request" /\ pc'[w] = "requested"
    <3>1. \E u : FenceTransitionPrepared(w, u)
      BY <2>1
    <3>2. Others(w)
      BY <1>0, <2>1, <3>1, MoveKeepsOthers DEF FenceMoves
    <3>3. TypeOK /\ Moves(w, "request", "requested")
      BY <1>0, <2>1
    <3>4. pc[w] = "request" /\ pc'[w] = "requested"
      BY ONLY <3>3, MovesOthers, Zenon
    <3> QED BY <3>2, <3>4
  <2>3. Holder(w) /\ run'.status = "awaiting_user"
    BY <2>1 DEF CanRequest, Current, Holder, FenceTransitionPrepared, RunRow
  <2>4. /\ exec[k] = Absent /\ CallInv(k)
        /\ exec \in [Calls -> ExecutionStatus \cup {Absent}]
        /\ approval \in [Calls -> ApprovalStatus \cup {Absent}]
    BY <1>0, <2>k, <2>2, <2>3 DEF WorkInv, TaskInv, CallPlaces, TypeOK
  <2>5. approval[k] = Absent /\ effects[k] = 0 /\ \A v \in Tasks : ~Pending(v, k)
    BY <2>4 DEF CallInv, WorkInv, TaskInv, Pending, Unstarted
  <2>6. /\ exec'[k] = "not_started" /\ approval'[k] = "awaiting_user"
        /\ \A c \in Calls : c # k => exec'[c] = exec[c] /\ approval'[c] = approval[c]
    BY <2>1, <2>4
  <2>7. \A c \in Calls : exec[c] # "executing" /\ exec'[c] # "executing"
    BY <1>0, <2>2, <2>3, <2>6 DEF TaskInv, QuietPlaces
  <2>8. TaskInv(w)'
    BY <2>1, <2>2, <2>3, <2>7 DEF TaskInv, CallPlaces, QuietPlaces
  <2>9. ASSUME NEW t \in Tasks, t # w PROVE TaskInv(t)'
    <3>1. TaskInv(t) /\ SameFor(t) /\ ~Holder(t)
      BY <2>2, <2>3, <2>9 DEF WorkInv, Others, FenceInv
    <3>2. ~Holder(t)' /\ chk'.phase # "run_terminal"
      BY <2>1, <3>1 DEF SameFor
    <3>3. /\ pc[t] \in {"check", "close", "dispatch", "redispatch"} => exec'[cur[t]] \notin Unstarted
          /\ pc[t] = "recover" /\ mode[t] = "retry" => exec'[cur[t]] \notin Unstarted
          /\ pc[t] \in {"recover", "redispatch"} /\ mode[t] \in {"forced", "retry"} =>
               (cur[t] \in NeedsApproval => approval'[cur[t]] = "approved")
      BY <2>4, <2>5, <2>6, <3>1, CallsAssumption DEF TaskInv, CallPlaces, Unstarted, Absent
    <3> QED BY <3>1, <3>2, <3>3 DEF TaskInv, SameFor
  <2>10. ASSUME NEW c \in Calls PROVE CallInv(c)'
    <3>1. \A t \in Tasks : Pending(t, c)' => Pending(t, c)
      BY <2>2 DEF Others, SameFor, Pending
    <3>2. CallInv(c)
      BY DEF WorkInv
    <3>3. CASE c = k
      <4>1. /\ exec'[c] = "not_started" /\ approval'[c] = "awaiting_user" /\ effects'[c] = 0
            /\ \A v \in Tasks : ~Pending(v, c)'
        BY <2>1, <2>5, <2>6, <3>1, <3>3
      <4> QED BY SMT, <4>1 DEF CallInv, Unstarted, Absent
    <3>4. CASE c # k
      BY <2>1, <2>6, <3>1, <3>2, <3>4 DEF CallInv
    <3> QED BY <3>3, <3>4
  <2>11. StoreInv'
    <3>1. \A c \in Calls : Nonterminal(c)' => c = k
      BY <2>1, <2>6 DEF CanRequest, HasNonterminalExecution, Nonterminal
    <3> QED BY <2>1, <2>3, <2>4, <2>6, <2>7, <3>1 DEF StoreInv, CheckpointAgrees, ActiveRunStatuses
  <2> QED BY <2>8, <2>9, <2>10, <2>11 DEF WorkInv
<1>2. CASE RequestApprovalFails(w) \/ PrepareFails(w) \/ ResultLost(w) \/ ReplaceTransitioned(w)
  BY <1>2, <1>c DEF RequestApprovalFails, PrepareFails, ResultLost, ReplaceTransitioned,
                    FenceForget, FenceReplace
<1>3. CASE Pause(w)
  BY <1>3, LeaveKeeps DEF Pause
<1>4. CASE PrepareExecution(w)
  <2>k. PICK k \in Calls : k = cur[w]
    BY <1>0, <1>4 DEF PrepareExecution, Moves, TaskInv, CallPlaces
  <2>1. /\ Moves(w, "prepare", "check") /\ CanPrepare(w) /\ UNCHANGED fenceVars
        /\ exec' = [exec EXCEPT ![k] = "executing"] /\ UNCHANGED <<approval, effects>>
        /\ chk'.phase = "execution_dispatching" /\ chk'.call = k
    BY <1>4, <2>k DEF PrepareExecution, Checkpoint
  <2>2. Others(w) /\ pc[w] = "prepare" /\ pc'[w] = "check" /\ cur'[w] = k
    <3>1. FenceMoves(w)
      BY <2>1 DEF FenceMoves
    <3>2. Others(w)
      BY <1>0, <2>1, <3>1, MoveKeepsOthers
    <3>3. pc[w] = "prepare" /\ pc'[w] = "check" /\ cur'[w] = cur[w]
      <4>1. TypeOK /\ Moves(w, "prepare", "check") /\ "check" \notin {"model", "fail"}
        BY <1>0, <2>1
      <4> QED BY ONLY <4>1, MovesOthers, Zenon
    <3> QED BY <2>k, <3>2, <3>3
  <2>3. Holder(w) /\ run' = run /\ run.status # "completed"
    BY <1>0, <2>1 DEF CanPrepare, Current, Holder, fenceVars, TaskInv
  <2>4. /\ exec[k] = Absent /\ CallInv(k) /\ k \notin NeedsApproval
        /\ exec \in [Calls -> ExecutionStatus \cup {Absent}]
    BY <1>0, <2>k, <2>2, <2>3 DEF WorkInv, TaskInv, CallPlaces, TypeOK
  <2>5. effects[k] = 0 /\ \A v \in Tasks : ~Pending(v, k)
    BY <2>4 DEF CallInv, WorkInv, TaskInv, Pending, Unstarted
  <2>6. exec'[k] = "executing"
    BY <2>1, <2>4
  <2>7. TaskInv(w)'
    BY <2>1, <2>2, <2>3, <2>4, <2>6 DEF TaskInv, CallPlaces, QuietPlaces, Unstarted, Absent
  <2>8. CallInv(k)'
    <3>1. \A v \in Tasks : Pending(v, k)' => v = w
      BY <2>2, <2>5 DEF Others, SameFor, Pending
    <3> QED BY <2>1, <2>4, <2>5, <2>6, <3>1 DEF CallInv, Unstarted, Absent
  <2>9. \A c \in Calls : Nonterminal(c) => c = k
    BY <2>1 DEF CanPrepare, HasNonterminalExecution
  <2>10. \A c \in Calls : c # k => ~Pending(w, c)'
    BY <2>2 DEF Pending
  <2> QED BY <2>1, <2>2, <2>3, <2>4, <2>7, <2>8, <2>9, <2>10, Writes
<1>5. CASE PreDispatchCheck(w) \/ PreDispatchError(w)
  BY <1>5, <1>c DEF PreDispatchCheck, PreDispatchError, FenceForget, fenceVars
<1>6. CASE Dispatch(w)
  <2>1. Moves(w, "dispatch", "running") /\ Invoke(cur[w]) /\ UNCHANGED fenceVars /\ UNCHANGED store
    BY <1>6 DEF Dispatch
  <2> QED BY <2>1, InvokeKeeps
<1>7. CASE CloseExecution(w) \/ ToolReturns(w) \/ ToolRaises(w)
  <2>1. PICK s \in {"failed_retryable"} \cup TERMINAL_EXECUTION_STATUSES, q \in {"replace", "model"} :
          /\ Moves(w, pc[w], q) /\ pc[w] \in {"close", "running"}
          /\ RecordResult(w, cur[w], s) /\ (KeepLease(w) \/ FenceForget(w))
          /\ s = "failed_retryable" => pc[w] = "close"
    <3>1. {"succeeded", "failed_terminal", "uncertain"} \subseteq TERMINAL_EXECUTION_STATUSES
      BY DEF TERMINAL_EXECUTION_STATUSES
    <3>2. CASE CloseExecution(w)
      <4>1. /\ Moves(w, "close", "replace") /\ KeepLease(w) /\ pc[w] = "close"
            /\ RecordResult(w, cur[w], "failed_retryable")
        BY <3>2 DEF CloseExecution, Moves
      <4> QED BY <4>1
    <3>3. CASE ToolReturns(w)
      <4>1. PICK s \in {"succeeded", "failed_terminal"} : RecordResult(w, cur[w], s)
        BY <3>3 DEF ToolReturns
      <4>2. Moves(w, "running", "model") /\ FenceForget(w) /\ pc[w] = "running" /\ s # "failed_retryable"
        BY <3>3 DEF ToolReturns, Moves
      <4> QED BY <3>1, <4>1, <4>2
    <3>4. CASE ToolRaises(w)
      <4>1. PICK s \in {"uncertain", "failed_terminal"} : s = RaisedStatus(cur[w])
        BY DEF RaisedStatus
      <4>2. /\ Moves(w, "running", "replace") /\ KeepLease(w) /\ pc[w] = "running"
            /\ RecordResult(w, cur[w], s) /\ s # "failed_retryable"
        BY <3>4, <4>1 DEF ToolRaises, Moves
      <4> QED BY <3>1, <4>1, <4>2
    <3> QED BY <1>7, <3>2, <3>3, <3>4
  <2>2. Others(w) /\ pc'[w] = q /\ run' = run
    BY <1>0, <2>1, MovesOthers, MoveKeepsOthers DEF FenceMoves, KeepLease, FenceForget
  <2> QED BY <2>1, <2>2, ResultKeeps
<1>8. CASE Replace(w)
  <2>1. CASE Leaves(w) /\ FenceDrop(w)
    BY <1>8, <2>1, LeaveKeeps DEF Replace
  <2>2. CASE ~(Leaves(w) /\ FenceDrop(w))
    <3>1. /\ FenceReplace(w) /\ UNCHANGED <<store, effects, mode, beat>>
          /\ pc[w] = "replace" /\ pc'[w] \in {"model", "continue", "route"}
          /\ \A t \in Tasks : t # w => pc'[t] = pc[t] /\ cur'[t] = cur[t]
      BY <1>0, <1>8, <2>2 DEF Replace, Goto, Holds, TypeOK
    <3>2. Others(w)
      BY <1>0, <3>1, FenceOthers DEF FenceMoves, Others, SameFor
    <3>3. (Holder(w)' => Holder(w)) /\ (Writer(w)' => Writer(w)) /\ run' = run
      BY <1>0, <3>1 DEF FenceTypeOK, FenceReplace, Holder, Writer
    <3>4. TaskInv(w)'
      BY <1>0, <3>1, <3>3 DEF TaskInv, CallPlaces, QuietPlaces, store
    <3> QED BY <3>1, <3>2, <3>3, <3>4, Calm DEF Pending, store
  <2> QED BY <2>1, <2>2
<1> QED
  BY <1>1, <1>2, <1>3, <1>4, <1>5, <1>6, <1>7, <1>8 DEF ToolStep

-----------------------------------------------------------------------------
(* Recovery preserves the invariant *)

LEMMA RecoveryKeeps ==
  ASSUME WorkInv, TypeOK', FenceInv', NEW w \in Tasks, RecoveryStep(w)
  PROVE  WorkInv'
<1>0. TypeOK /\ FenceTypeOK /\ TaskInv(w) /\ FenceInv /\ StoreInv
  BY DEF WorkInv, TypeOK
<1>g. ASSUME GivesUp(w) PROVE WorkInv'
  BY <1>g, LeaveKeeps DEF GivesUp
\* Steps before the lease is taken: the task has no copies to lose.
<1>p. ASSUME pc[w] \in {"idle", "preflight", "acquire", "resume"},
             pc'[w] \in {"idle", "preflight", "acquire", "resume"},
             UNCHANGED <<fenceVars, store, effects>>,
             \A t \in Tasks : t # w => /\ pc'[t] = pc[t] /\ cur'[t] = cur[t]
                                      /\ mode'[t] = mode[t] /\ beat'[t] = beat[t]
      PROVE  WorkInv'
  <2>1. Others(w)
    BY <1>0, <1>p, FenceOthers DEF FenceMoves, Others, SameFor
  <2>2. TaskInv(w)'
    BY <1>0, <1>p DEF TaskInv, CallPlaces, QuietPlaces, Holder, Writer, fenceVars
  <2> QED BY <1>p, <2>1, <2>2, Calm DEF Pending, store, fenceVars
\* Steps of recover_execution that only read the handle.
<1>s. ASSUME NEW p \in {"recover", "rerunning"}, NEW q \in {"block", "raised", "mark"},
             Moves(w, p, q), FenceSnapshot(w), UNCHANGED <<store, effects>>
      PROVE  WorkInv'
  <2>1. Others(w) /\ pc[w] = p /\ pc'[w] = q /\ cur'[w] = cur[w] /\ beat'[w] = beat[w]
    BY <1>0, <1>s, MovesOthers, MoveKeepsOthers DEF FenceMoves
  <2>2. (Holder(w)' => Holder(w)) /\ (Writer(w)' => Writer(w)) /\ run' = run
    BY <1>0, <1>s DEF FenceTypeOK, FenceSnapshot, Holder, Writer
  <2>3. TaskInv(w)'
    BY <1>0, <1>s, <2>1, <2>2 DEF TaskInv, CallPlaces, QuietPlaces, store
  <2> QED BY <1>s, <2>1, <2>2, <2>3, Calm DEF Pending, store
<1>1. CASE Scan(w)
  BY <1>0, <1>1, <1>p DEF Scan, Goto, TypeOK
<1>2. CASE Preflight(w)
  <2>1. CASE Leaves(w)
    BY <1>0, <1>2, <1>p, <2>1, LeavesOthers DEF Preflight
  <2>2. CASE ~Leaves(w)
    BY <1>0, <1>2, <1>p, <2>2 DEF Preflight, Goto, TypeOK
  <2> QED BY <2>1, <2>2
<1>3. CASE AcquireRun(w)
  <2>1. /\ pc'[w] = "route" /\ UNCHANGED <<store, effects, cur, mode>>
        /\ \A t \in Tasks : t # w => pc'[t] = pc[t] /\ beat'[t] = beat[t]
        /\ FenceTakeOver(w) \/ FenceResumeWaiting(w)
    BY <1>0, <1>3 DEF AcquireRun, Goto, TypeOK
  <2>2. Others(w)
    BY <1>0, <2>1, FenceOthers DEF FenceMoves, Others, SameFor
  <2>3. {run.status, run'.status} \subseteq ActiveRunStatuses
    BY SMT, <2>1 DEF FenceTakeOver, FenceResumeWaiting, RunRow, ActiveRunStatuses
  <2>4. chk.phase # "run_terminal" /\ run'.status # "completed"
    BY <1>0, <2>3 DEF StoreInv, CheckpointAgrees, ActiveRunStatuses, TERMINAL_RUN_STATUSES
  <2>5. TaskInv(w)'
    BY <2>1, <2>4 DEF TaskInv, CallPlaces, QuietPlaces, store
  <2> QED BY <2>1, <2>2, <2>3, <2>5, Calm DEF Pending, store
<1>4. CASE LeaseConflict(w)
  BY <1>0, <1>4, <1>p, LeavesOthers DEF LeaseConflict
<1>5. CASE Route(w)
  <2>1. CASE RouteOf(w)[1] = "idle"
    BY <1>5, <2>1, LeaveKeeps DEF Route
  <2>2. CASE RouteOf(w)[1] # "idle"
    <3>1. /\ pc[w] = "route" /\ pc'[w] = RouteOf(w)[1] /\ mode'[w] = RouteOf(w)[2]
          /\ cur'[w] = chk.call /\ UNCHANGED <<store, effects, beat>>
          /\ \A t \in Tasks : t # w => pc'[t] = pc[t] /\ mode'[t] = mode[t] /\ cur'[t] = cur[t]
          /\ FenceSnapshot(w) \/ UNCHANGED fenceVars
      BY <1>0, <1>5, <2>2 DEF Route, Goto, Holds, TypeOK
    <3>2. Others(w)
      BY <1>0, <3>1, FenceOthers DEF FenceMoves, Others, SameFor
    <3>3. (Holder(w)' => Holder(w)) /\ (Writer(w)' => Writer(w)) /\ run' = run
      BY <1>0, <3>1 DEF FenceTypeOK, FenceSnapshot, fenceVars, Holder, Writer
    <3>4. pc'[w] \in {"block", "blockrun", "recover", "continue"}
      BY <1>0, <2>2, <3>1, RouteFacts
    <3>5. pc'[w] \in {"block", "recover"} => cur'[w] \in Calls
      <4>1. ApprovalToSettle(w) => chk.call \in Calls
        BY CallsAssumption DEF ApprovalToSettle
      <4>2. HasExecution => chk.call \in Calls
        BY <1>0 DEF StoreInv, HasExecution
      <4> QED BY <1>0, <3>1, <4>1, <4>2, RouteFacts DEF HasExecution
    <3>6. ASSUME pc'[w] = "recover"
          PROVE  /\ mode'[w] = "retry" =>
                       exec[chk.call] \notin Unstarted /\ StrategyOf[chk.call] # "manual_uncertain"
                 /\ chk.call \in NeedsApproval => approval[chk.call] = "approved"
      <4>1. CASE mode'[w] = "forced" /\ ApprovalToSettle(w) /\ Granted(chk.call)
        BY <4>1 DEF Granted
      <4>2. CASE mode'[w] = DispatchAction(chk.call) /\ chk.phase = "execution_dispatching"
        BY <1>0, <4>2 DEF StoreInv, CheckpointAgrees, DispatchAction, Unstarted, Absent
      <4> QED BY <1>0, <3>1, <3>6, <4>1, <4>2, RouteFacts
    <3>7. pc'[w] = "continue" /\ Holder(w) => \A c \in Calls : exec[c] # "executing"
      <4>1. pc'[w] = "continue" =>
              chk.phase # "execution_dispatching" /\ run.status \notin TERMINAL_RUN_STATUSES
        BY <1>0, <3>1, RouteFacts
      <4>2. Holder(w) => run.status # "absent"
        BY <1>0 DEF FenceInv, Holder
      <4>3. run.status \in ActiveRunStatuses \cup TERMINAL_RUN_STATUSES \cup {"absent"}
        BY <1>0 DEF FenceTypeOK, RunStatus
      <4> QED BY <1>0, <4>1, <4>2, <4>3 DEF StoreInv, CheckpointAgrees
    <3>8. TaskInv(w)'
      BY <1>0, <3>1, <3>3, <3>4, <3>5, <3>6, <3>7 DEF TaskInv, CallPlaces, QuietPlaces, store
    <3> QED BY <3>1, <3>2, <3>3, <3>4, <3>8, Calm DEF Pending, store
  <2> QED BY <2>1, <2>2
<1>6. CASE RefuseRecovery(w) \/ RecoveredToolRaises(w) \/ BeginMark(w)
  BY <1>6, <1>s DEF RefuseRecovery, RecoveredToolRaises, BeginMark
<1>7. CASE BlockExecution(w)
  <2>k. PICK k \in Calls : k = cur[w]
    BY <1>0, <1>7 DEF BlockExecution, TaskInv, CallPlaces
  <2>1. PICK r \in BlockedStatuses : exec' = [exec EXCEPT ![k] = r]
    BY <1>7, <2>k DEF BlockExecution
  <2>2. /\ UNCHANGED <<approval, effects>>
        /\ chk'.phase = "execution_result_observed" /\ chk'.call = k
        /\ Holder(w) /\ BlockedStatuses \subseteq LegalExecutionTargets(exec[k])
    BY <1>7, <2>k DEF BlockExecution, Checkpoint, CanBlock, Current, Holder
  <2>3. /\ Others(w) /\ run' = run /\ pc'[w] \in {"blockrun", "continue", "idle"}
        /\ pc'[w] = "idle" => handle'[w] = "none" /\ prepared'[w] = "none"
    <3>1. CASE Leaves(w) /\ FenceDrop(w)
      <4>1. Others(w) /\ pc'[w] = "idle"
        BY <1>0, <3>1, LeavesOthers, FenceOthers DEF FenceMoves, Others, SameFor
      <4> QED BY <1>0, <3>1, <4>1 DEF FenceDrop, FenceTypeOK
    <3>2. CASE ~(Leaves(w) /\ FenceDrop(w))
      <4>1. AfterBlock(w) \in {"blockrun", "continue"} /\ Moves(w, "block", AfterBlock(w)) /\ FenceForget(w)
        BY <1>7, <3>2 DEF BlockExecution, AfterBlock
      <4>2. Others(w) /\ pc'[w] = AfterBlock(w)
        BY <1>0, <4>1, MovesOthers, MoveKeepsOthers DEF FenceMoves
      <4> QED BY <4>1, <4>2 DEF FenceForget
    <3> QED BY <3>1, <3>2
  <2>4. /\ CallInv(k) /\ run.status # "completed"
        /\ exec \in [Calls -> ExecutionStatus \cup {Absent}]
    BY <1>0, <2>2 DEF WorkInv, TaskInv, TypeOK
  <2>5. Nonterminal(k)
    BY <2>2 DEF LegalExecutionTargets, BlockedStatuses, Nonterminal, TERMINAL_EXECUTION_STATUSES, Absent
  <2>6. \A c \in Calls : Nonterminal(c) => c = k
    BY <1>0, <2>5 DEF StoreInv, CheckpointAgrees
  <2>7. r \in TERMINAL_EXECUTION_STATUSES /\ r \notin Unstarted \cup {"executing", "failed_retryable"}
    BY <2>1 DEF BlockedStatuses, TERMINAL_EXECUTION_STATUSES, Unstarted, Absent
  <2>8. exec'[k] = r /\ \A c \in Calls : exec'[c] # "executing"
    BY <2>1, <2>4, <2>6, <2>7 DEF Nonterminal, TERMINAL_EXECUTION_STATUSES, BlockedStatuses, Absent
  <2>9. TaskInv(w)'
    BY <2>2, <2>3, <2>4, <2>8 DEF TaskInv, CallPlaces, QuietPlaces
  <2>10. \A v \in Tasks : Pending(v, k)' => Pending(v, k)
    BY <2>3 DEF Others, SameFor, Pending
  <2>11. CallInv(k)'
    BY <2>2, <2>4, <2>7, <2>8, <2>10 DEF CallInv, Unstarted
  <2>12. \A c \in Calls : ~Pending(w, c)'
    BY <2>3 DEF Pending
  <2> QED BY <2>1, <2>2, <2>3, <2>6, <2>7, <2>9, <2>11, <2>12, Writes
<1>8. CASE BlockRun(w)
  BY <1>8, FinishKeeps DEF BlockRun, BlockedStatuses, TERMINAL_RUN_STATUSES
<1>9. CASE \/ BlockExecutionFails(w) \/ BlockRunRefused(w) \/ PrepareRecoveryFails(w)
           \/ RecoveredResultLost(w) \/ ContinueFails(w)
  BY <1>9, <1>g DEF BlockExecutionFails, BlockRunRefused, PrepareRecoveryFails,
                    RecoveredResultLost, ContinueFails
<1>10. CASE PrepareRecovery(w)
  <2>0. /\ Moves(w, "recover", "redispatch") /\ UNCHANGED fenceVars
        /\ UNCHANGED <<approval, effects>> /\ mode[w] \in {"forced", "retry"} /\ CanPrepareRecovery(w)
    BY <1>10 DEF PrepareRecovery
  <2>1. /\ Others(w) /\ pc[w] = "recover" /\ pc'[w] = "redispatch" /\ cur'[w] = cur[w]
        /\ mode'[w] = mode[w] /\ beat'[w] = beat[w] /\ run' = run
        /\ Holder(w)' = Holder(w) /\ Writer(w)' = Writer(w)
    <3>1. Others(w)
      BY <1>0, <2>0, MoveKeepsOthers DEF FenceMoves
    <3>2. /\ pc[w] = "recover" /\ pc'[w] = "redispatch" /\ cur'[w] = cur[w]
          /\ mode'[w] = mode[w] /\ beat'[w] = beat[w]
      <4>1. TypeOK /\ Moves(w, "recover", "redispatch") /\ "redispatch" \notin {"model", "fail"}
        BY <1>0, <2>0
      <4> QED BY ONLY <4>1, MovesOthers, Zenon
    <3>3. run' = run /\ Holder(w)' = Holder(w) /\ Writer(w)' = Writer(w)
      BY <2>0 DEF fenceVars, Holder, Writer
    <3> QED BY <3>1, <3>2, <3>3
  <2>2. CASE mode[w] = "retry"
    <3>1. UNCHANGED <<exec, chk>>
      BY <1>10, <2>2 DEF PrepareRecovery
    <3>2. TaskInv(w)'
      BY <1>0, <2>0, <2>1, <2>2, <3>1 DEF TaskInv, CallPlaces, QuietPlaces
    <3> QED BY <2>0, <2>1, <2>2, <3>1, <3>2, Calm DEF Pending
  <2>3. CASE mode[w] = "forced"
    <3>k. PICK k \in Calls : k = cur[w]
      BY <1>0, <2>1 DEF TaskInv, CallPlaces
    <3>1. /\ exec' = [exec EXCEPT ![k] = "executing"]
          /\ chk'.phase = "execution_dispatching" /\ chk'.call = k
          /\ exec[k] = "not_started" /\ Holder(w)
      BY SMT, <1>10, <2>3, <3>k DEF PrepareRecovery, Checkpoint, CanPrepareRecovery, Current, Holder
    <3>2. /\ CallInv(k) /\ exec \in [Calls -> ExecutionStatus \cup {Absent}]
          /\ run.status # "completed" /\ (k \in NeedsApproval => approval[k] = "approved")
      BY <1>0, <2>1, <2>3, <3>k, <3>1 DEF WorkInv, TypeOK, TaskInv
    <3>3. effects[k] = 0 /\ \A v \in Tasks : ~Pending(v, k)
      BY <3>1, <3>2 DEF CallInv, WorkInv, TaskInv, Pending, Unstarted
    <3>4. exec'[k] = "executing" /\ cur'[w] = k
      BY <2>1, <3>k, <3>1, <3>2
    <3>5. TaskInv(w)'
      BY <2>0, <2>1, <2>3, <3>1, <3>2, <3>4 DEF TaskInv, CallPlaces, QuietPlaces, Unstarted, Absent
    <3>6. CallInv(k)'
      <4>1. \A v \in Tasks : Pending(v, k)' => v = w
        BY <2>1, <3>3 DEF Others, SameFor, Pending
      <4> QED BY <2>0, <3>2, <3>3, <3>4, <4>1 DEF CallInv, Unstarted, Absent
    <3>7. \A c \in Calls : Nonterminal(c) => c = k
      BY <1>0, <3>1 DEF StoreInv, CheckpointAgrees, Nonterminal, TERMINAL_EXECUTION_STATUSES,
                        BlockedStatuses, Absent
    <3>8. \A c \in Calls : c # k => ~Pending(w, c)'
      BY <3>4 DEF Pending
    <3> QED BY <2>0, <2>1, <3>1, <3>2, <3>5, <3>6, <3>7, <3>8, Writes
  <2> QED BY <2>0, <2>2, <2>3
<1>11. CASE Redispatch(w)
  BY <1>11, InvokeKeeps DEF Redispatch
<1>12. CASE RecoveredToolReturns(w) \/ RecordRaised(w) \/ MarkUncertain(w)
  <2>1. PICK s \in TERMINAL_EXECUTION_STATUSES :
          /\ Moves(w, pc[w], "replace") /\ pc[w] \in {"rerunning", "raised", "mark"}
          /\ RecordResult(w, cur[w], s) /\ KeepLease(w)
    BY <1>12 DEF RecoveredToolReturns, RecordRaised, MarkUncertain, RaisedStatus, Moves,
                 TERMINAL_EXECUTION_STATUSES
  <2>2. Others(w) /\ pc'[w] = "replace"
    BY <1>0, <2>1, MovesOthers, MoveKeepsOthers DEF FenceMoves
  <2>r. run' = run
    BY <2>1 DEF KeepLease
  <2>3. s # "failed_retryable"
    BY DEF TERMINAL_EXECUTION_STATUSES, BlockedStatuses
  <2> QED BY <2>1, <2>2, <2>3, <2>r, ResultKeeps
<1>13. CASE Continue(w)
  <2>1. /\ pc[w] = "continue" /\ pc'[w] = "model" /\ UNCHANGED <<store, effects, beat>>
        /\ \A t \in Tasks : t # w => pc'[t] = pc[t] /\ mode'[t] = mode[t] /\ cur'[t] = cur[t]
        /\ \/ UNCHANGED fenceVars
           \/ run.status = "resuming" /\ FenceTransition(w, "running")
    BY <1>0, <1>13 DEF Continue, Goto, Holds, TypeOK
  <2>2. Others(w)
    BY <1>0, <2>1, FenceOthers DEF FenceMoves, Others, SameFor
  <2>3. /\ Holder(w)' => Holder(w)
        /\ Writer(w)' => Writer(w)
        /\ run'.status = run.status \/ {run.status, run'.status} \subseteq ActiveRunStatuses
    BY SMT, <1>0, <2>1
    DEF FenceTypeOK, FenceTransition, WriteRun, Current, Aged, fenceVars, Holder, Writer, RunRow,
        ActiveRunStatuses
  <2>4. TaskInv(w)'
    BY <1>0, <2>1, <2>3 DEF TaskInv, CallPlaces, QuietPlaces, store, ActiveRunStatuses
  <2> QED BY <2>1, <2>2, <2>3, <2>4, Calm DEF Pending, store
<1> QED
  BY <1>1, <1>2, <1>3, <1>4, <1>5, <1>6, <1>7, <1>8, <1>9, <1>10, <1>11, <1>12, <1>13
  DEF RecoveryStep

\* A step of nobody in particular that leaves the rows alone.
LEMMA EnvironmentCalm ==
  ASSUME WorkInv, TypeOK', FenceInv', \A t \in Tasks : SameFor(t),
         UNCHANGED <<exec, approval, effects>>, chk'.phase = chk.phase, chk'.call = chk.call,
         run'.status = run.status
  PROVE  WorkInv'
<1>1. ASSUME NEW t \in Tasks PROVE TaskInv(t)'
  <2>1. TaskInv(t) /\ SameFor(t)
    BY DEF WorkInv
  <2> QED BY <2>1, TaskInvKept
<1>2. ASSUME NEW c \in Calls PROVE CallInv(c)'
  <2>1. \A t \in Tasks : Pending(t, c)' => Pending(t, c)
    BY DEF SameFor, Pending
  <2>2. CallInv(c)
    BY DEF WorkInv
  <2> QED BY <2>1, <2>2 DEF CallInv
<1>3. StoreInv'
  BY DEF WorkInv, StoreInv, CheckpointAgrees, HasNonterminalExecution, Nonterminal
<1> QED BY <1>1, <1>2, <1>3 DEF WorkInv

LEMMA ProducerKeeps ==
  ASSUME WorkInv, TypeOK', FenceInv', NEW w \in Tasks, ProducerStep(w)
  PROVE  WorkInv'
<1>0. TypeOK /\ FenceTypeOK /\ TaskInv(w) /\ FenceInv /\ StoreInv
  BY DEF WorkInv, TypeOK
<1>1. CASE ProducerEnds(w)
  BY <1>1, LeaveKeeps DEF ProducerEnds
<1>2. CASE ProducerFails(w) /\ CanFinish(w, "failed_terminal")
  <2>1. /\ FenceTransition(w, "failed_terminal") /\ Checkpoint("run_terminal", NoCall)
        /\ beat'[w] = "ended" /\ UNCHANGED <<exec, approval, effects, mode, pc, cur>>
        /\ \A t \in Tasks : t # w => beat'[t] = beat[t]
        /\ chk'.phase = "run_terminal"
    BY SMT, <1>0, <1>2 DEF ProducerFails, TypeOK, Checkpoint
  <2>2. Others(w)
    BY <1>0, <2>1, FenceOthers DEF FenceMoves, Others, SameFor
  <2>3. /\ Holder(w) /\ handle[w] # "none" /\ run'.status = "failed_terminal"
        /\ Holder(w)' => Holder(w)
    BY <1>2, <2>1 DEF CanFinish, Current, Holder, FenceTransition, WriteRun, RunRow
  <2>4. TaskInv(w)'
    BY <1>0, <2>1, <2>3 DEF TaskInv
  <2> QED BY <2>1, <2>2, <2>3, <2>4, EndKeeps DEF Pending, TERMINAL_RUN_STATUSES
<1>3. CASE ProducerFails(w) /\ ~CanFinish(w, "failed_terminal")
  <2>1. /\ FenceForget(w) /\ beat[w] = "error" /\ pc'[w] = "abort"
        /\ UNCHANGED <<chk, exec, approval, effects, mode>>
        /\ \A t \in Tasks : t # w => pc'[t] = pc[t] /\ cur'[t] = cur[t] /\ beat'[t] = beat[t]
    BY <1>0, <1>3 DEF ProducerFails, Goto, Holds, TypeOK
  <2>2. Others(w)
    BY <1>0, <2>1, FenceOthers DEF FenceMoves, Others, SameFor
  <2>3. (Holder(w)' => Holder(w)) /\ (Writer(w)' => Writer(w)) /\ run' = run
    BY <1>0, <2>1 DEF FenceTypeOK, FenceForget, Holder, Writer
  <2>4. TaskInv(w)'
    BY <1>0, <2>1, <2>3 DEF TaskInv, CallPlaces, QuietPlaces
  <2> QED BY <2>1, <2>2, <2>3, <2>4, Calm DEF Pending
<1> QED BY <1>1, <1>2, <1>3 DEF ProducerStep

LEMMA EnvironmentKeeps ==
  ASSUME WorkInv, TypeOK', FenceInv', EnvironmentStep
  PROVE  WorkInv'
<1>0. TypeOK /\ FenceTypeOK /\ FenceInv /\ StoreInv
  BY DEF WorkInv, TypeOK
<1>1. ASSUME NEW w \in Tasks, Heartbeat(w) PROVE WorkInv'
  <2>0. /\ FenceHeartbeat(w) /\ UNCHANGED <<chk, exec, approval, effects, pc, cur, mode, beat>>
        /\ TaskInv(w)
    BY <1>1 DEF Heartbeat, store, local, WorkInv
  <2>1. Others(w)
    BY <1>0, <2>0, FenceOthers DEF FenceMoves, Others, SameFor
  <2>2. Holder(w) /\ Writer(w) /\ handle[w] # "none" /\ run'.status = run.status
    BY <2>0 DEF FenceHeartbeat, WriteRun, Current, Holder, Writer, RunRow
  <2>3. TaskInv(w)'
    BY <2>0, <2>2 DEF TaskInv
  <2> QED BY <2>0, <2>1, <2>2, <2>3, Calm DEF Pending
<1>2. ASSUME NEW w \in Tasks, HeartbeatLost(w) \/ HeartbeatError(w) PROVE WorkInv'
  <2>1. CASE Leaves(w) /\ FenceDrop(w)
    BY <1>2, <2>1, LeaveKeeps DEF HeartbeatLost, HeartbeatError, FenceDrop, fenceVars
  <2>2. CASE ~(Leaves(w) /\ FenceDrop(w))
    <3>1. /\ UNCHANGED fenceVars /\ UNCHANGED <<chk, exec, approval, effects, pc, cur, mode>>
          /\ beat[w] = "on" /\ \A t \in Tasks : t # w => beat'[t] = beat[t]
      BY <1>0, <1>2, <2>2 DEF HeartbeatLost, HeartbeatError, store, TypeOK
    <3>2. Others(w) /\ TaskInv(w)
      BY <1>0, <3>1, FenceOthers DEF FenceMoves, Others, SameFor, WorkInv
    <3>3. TaskInv(w)'
      BY <3>1, <3>2 DEF TaskInv, Holder, Writer, fenceVars
    <3> QED BY <3>1, <3>2, <3>3, Calm DEF Pending, fenceVars
  <2> QED BY <2>1, <2>2
<1>3. ASSUME NEW w \in Tasks, CancelProducer(w) PROVE WorkInv'
  <2>1. CASE Leaves(w) /\ FenceDrop(w)
    BY <1>3, <2>1, LeaveKeeps DEF CancelProducer
  <2>2. CASE ~(Leaves(w) /\ FenceDrop(w))
    <3>1. /\ FenceForget(w) /\ beat[w] # "ended" /\ pc'[w] = "abort"
          /\ UNCHANGED <<chk, exec, approval, effects, mode>>
          /\ \A t \in Tasks : t # w => pc'[t] = pc[t] /\ cur'[t] = cur[t] /\ beat'[t] = beat[t]
      BY <1>0, <1>3, <2>2 DEF CancelProducer, Goto, Holds, TypeOK, store
    <3>2. Others(w) /\ TaskInv(w)
      BY <1>0, <3>1, FenceOthers DEF FenceMoves, Others, SameFor, WorkInv
    <3>3. (Holder(w)' => Holder(w)) /\ (Writer(w)' => Writer(w)) /\ run' = run
      BY <1>0, <3>1 DEF FenceTypeOK, FenceForget, Holder, Writer
    <3>4. TaskInv(w)'
      BY <3>1, <3>2, <3>3 DEF TaskInv, CallPlaces, QuietPlaces
    <3> QED BY <3>1, <3>2, <3>3, <3>4, Calm DEF Pending
  <2> QED BY <2>1, <2>2
<1>4. ASSUME NEW w \in Tasks, Crash(w) PROVE WorkInv'
  BY <1>4, LeaveKeeps DEF Crash
<1>5. CASE Expire
  <2>1. /\ UNCHANGED <<chk, exec, approval, effects, pc, cur, mode, beat, handle, prepared>>
        /\ run'.status = run.status
    BY <1>5 DEF Expire, FenceExpire, RunRow, store, local
  <2>2. \A t \in Tasks : SameFor(t)
    BY <2>1 DEF SameFor, Holder, Writer
  <2> QED BY <2>1, <2>2, EnvironmentCalm
<1>6. CASE Damage
  <2>1. /\ UNCHANGED <<run, handle, prepared, exec, approval, effects, pc, cur, mode, beat>>
        /\ chk'.phase = chk.phase /\ chk'.call = chk.call
    BY <1>0, <1>6 DEF Damage, fenceVars, local, TypeOK
  <2>2. \A t \in Tasks : SameFor(t)
    BY <2>1 DEF SameFor, Holder, Writer
  <2> QED BY <2>1, <2>2, EnvironmentCalm
<1>7. CASE RequestCancellation
  <2>0. /\ UNCHANGED <<exec, approval, effects, pc, cur, mode, beat>>
        /\ handle' = Aged(handle) /\ prepared' = Aged(prepared)
    BY <1>7 DEF RequestCancellation, FenceRequestCancellation, local
  <2>1. \A t \in Tasks : SameFor(t) /\ ~Writer(t)'
    BY <1>0, <2>0 DEF FenceTypeOK, Aged, SameFor, Holder, Writer
  <2>2. CASE run.status # "awaiting_user"
    BY <1>7, <2>0, <2>1, <2>2, EnvironmentCalm
    DEF RequestCancellation, FenceRequestCancellation, RunRow
  <2>3. CASE run.status = "awaiting_user"
    <3>1. chk'.phase = "run_terminal" /\ run'.status = "cancelled"
      BY SMT, <1>7, <2>3 DEF RequestCancellation, FenceRequestCancellation, RunRow, Checkpoint
    <3>2. ASSUME NEW t \in Tasks PROVE TaskInv(t)'
      <4>1. TaskInv(t) /\ SameFor(t) /\ ~Writer(t)'
        BY <2>1 DEF WorkInv
      <4> QED BY <2>0, <3>1, <4>1 DEF TaskInv, SameFor
    <3>3. ASSUME NEW c \in Calls PROVE CallInv(c)'
      <4>1. \A t \in Tasks : Pending(t, c)' => Pending(t, c)
        BY <2>0 DEF Pending
      <4>2. CallInv(c)
        BY DEF WorkInv
      <4> QED BY <2>0, <4>1, <4>2 DEF CallInv
    <3>4. StoreInv'
      BY <1>0, <2>0, <3>1
      DEF StoreInv, CheckpointAgrees, HasNonterminalExecution, Nonterminal,
          TERMINAL_RUN_STATUSES, ActiveRunStatuses
    <3> QED BY <3>2, <3>3, <3>4 DEF WorkInv
  <2> QED BY <2>2, <2>3
<1>8. ASSUME NEW d \in Calls, Decide(d) PROVE WorkInv'
  <2>1. /\ UNCHANGED <<run, handle, prepared, chk, exec, effects, pc, cur, mode, beat>>
        /\ approval[d] = "awaiting_user" /\ approval'[d] # Absent
        /\ \A c \in Calls : c # d => approval'[c] = approval[c]
    BY <1>0, <1>8 DEF Decide, fenceVars, local, TypeOK, Absent
  <2>2. ASSUME NEW t \in Tasks PROVE TaskInv(t)'
    <3>1. TaskInv(t) /\ NeedsApproval \subseteq Calls
      BY CallsAssumption DEF WorkInv
    <3> QED BY <2>1, <3>1 DEF TaskInv, Holder, Writer
  <2>3. ASSUME NEW c \in Calls PROVE CallInv(c)'
    <3>1. CallInv(c)
      BY DEF WorkInv
    <3>2. \A t \in Tasks : Pending(t, c)' => Pending(t, c)
      BY <2>1 DEF Pending
    <3> QED BY <2>1, <3>1, <3>2 DEF CallInv, Absent
  <2>4. StoreInv'
    BY <1>0, <2>1, CallsAssumption
    DEF StoreInv, CheckpointAgrees, HasNonterminalExecution, Nonterminal
  <2> QED BY <2>2, <2>3, <2>4 DEF WorkInv
<1> QED BY <1>1, <1>2, <1>3, <1>4, <1>5, <1>6, <1>7, <1>8 DEF EnvironmentStep

-----------------------------------------------------------------------------
(* The theorems *)

LEMMA WorkStep == WorkInv /\ FenceInv' /\ [Next]_vars => WorkInv'
<1> SUFFICES ASSUME WorkInv, FenceInv', [Next]_vars PROVE WorkInv'
  OBVIOUS
<1>1. TypeOK'
  BY TypeStep DEF WorkInv, FenceInv
<1>2. CASE Next
  BY <1>1, <1>2, AgentKeeps, ToolKeeps, RecoveryKeeps, ProducerKeeps, EnvironmentKeeps
  DEF Next, TaskStep
<1>3. CASE UNCHANGED vars
  <2>1. \A t \in Tasks : SameFor(t)
    BY <1>3 DEF vars, fenceVars, local, SameFor, Holder, Writer
  <2> QED BY <1>1, <1>3, <2>1, EnvironmentCalm DEF vars, fenceVars, store
<1> QED BY <1>2, <1>3

LEMMA WorkInvHolds == Spec => []WorkInv
<1>1. Init => WorkInv
  <2> SUFFICES ASSUME Init PROVE WorkInv
    OBVIOUS
  <2>1. TypeOK /\ FenceInv
    BY SMT, CallsAssumption, BoundsAssumption
    DEF Init, TypeOK, FenceInit, FenceInv, FenceTypeOK, Holder, LeaseState, RunRow, Places,
        Roles, Modes, Beats
  <2>2. StoreInv
    BY DEF Init, StoreInv, CheckpointAgrees, HasNonterminalExecution, Nonterminal, FenceInit,
           RunRow, Absent, ActiveRunStatuses
  <2>3. \A w \in Tasks : TaskInv(w)
    BY DEF Init, FenceInit, RunRow, TaskInv, CallPlaces, QuietPlaces, Absent
  <2>4. \A c \in Calls : CallInv(c)
    BY SMT DEF Init, CallInv, Pending, Absent
  <2> QED BY <2>1, <2>2, <2>3, <2>4 DEF WorkInv
<1>2. WorkInv /\ FenceInv' /\ [Next]_vars => WorkInv'
  BY WorkStep
<1> QED BY <1>1, <1>2, OneTaskHolds, PTL DEF Spec

\* However many tasks, crashes, takeovers and retries there are, the scheduler and
\* recovery invoke a call that must not be repeated at most once.
THEOREM ManualCallsInvokedOnce == Spec => []ManualAtMostOnce
<1>1. WorkInv => ManualAtMostOnce
  BY DEF WorkInv, CallInv, ManualAtMostOnce
<1> QED BY <1>1, WorkInvHolds, PTL

\* A call the policy sends to the user is invoked only with the user's approval.
THEOREM ApprovalComesFirst == Spec => []ApprovedBeforeInvoked
<1>1. WorkInv => ApprovedBeforeInvoked
  BY CallsAssumption DEF WorkInv, CallInv, ApprovedBeforeInvoked
<1> QED BY <1>1, WorkInvHolds, PTL

\* The execution row is written ahead of every invocation.
THEOREM InvocationsAreRecorded == Spec => []InvokedIsRecorded
<1>1. WorkInv => InvokedIsRecorded
  BY SMT DEF WorkInv, TypeOK, CallInv, InvokedIsRecorded, Unstarted
<1> QED BY <1>1, WorkInvHolds, PTL

\* The latest checkpoint agrees with the execution it names, at most one execution is
\* under way, and a completed run has none.
THEOREM CheckpointsAgree == Spec => []CheckpointAgrees
<1>1. WorkInv => CheckpointAgrees
  BY DEF WorkInv, StoreInv
<1> QED BY <1>1, WorkInvHolds, PTL

-----------------------------------------------------------------------------
(* What is over stays over *)

LEMMA TerminalRunStays ==
  ASSUME [FenceNext]_fenceVars, run.status \in TERMINAL_RUN_STATUSES
  PROVE  run'.status = run.status
<1>1. /\ LegalRunTargets(run.status) = {}
      /\ run.status \notin ActiveRunStatuses /\ run.status # "absent"
  BY DEF LegalRunTargets, TERMINAL_RUN_STATUSES, ActiveRunStatuses
<1> QED
  BY SMT, <1>1
  DEF FenceNext, fenceVars, RunRow, WriteRun, NewToken, FenceCreate, FenceTransition,
      FenceTransitionPrepared, FenceFinish, FenceHeartbeat, FenceTakeOver, FenceResumeWaiting,
      FenceSnapshot, FenceReplace, FenceAdopt, FenceDrop, FenceForget, FenceRequestCancellation,
      FenceCancelSetup, FenceExpire, ActiveRunStatuses

\* The conjuncts of FinalStep about the rows that belong to a run.
RowsStay ==
  /\ chk.phase = "run_terminal" /\ (\A w \in Tasks : beat[w] # "ended") => exec' = exec /\ chk' = chk
  /\ \A c \in Calls : exec[c] \in TERMINAL_EXECUTION_STATUSES => exec'[c] = exec[c]
  /\ \A c \in Calls : Resolved(c) => approval'[c] = approval[c]

\* A step that moves an execution on starts from one that is not terminal, under a
\* copy that can write.
LEMMA MovesOn ==
  ASSUME WorkInv, NEW w \in Tasks, Writer(w) \/ run.status \in ActiveRunStatuses,
         NEW k, exec[k] \notin TERMINAL_EXECUTION_STATUSES,
         exec' = exec \/ (\E s : exec' = [exec EXCEPT ![k] = s]),
         approval' = approval \/ (~Resolved(k) /\ \E s : approval' = [approval EXCEPT ![k] = s])
  PROVE  RowsStay
<1>1. ~(chk.phase = "run_terminal" /\ \A v \in Tasks : beat[v] # "ended")
  BY DEF WorkInv, TaskInv, StoreInv, CheckpointAgrees, ActiveRunStatuses, TERMINAL_RUN_STATUSES
<1>2. /\ exec \in [Calls -> ExecutionStatus \cup {Absent}]
      /\ approval \in [Calls -> ApprovalStatus \cup {Absent}]
  BY DEF WorkInv, TypeOK
<1> QED BY <1>1, <1>2 DEF RowsStay, Resolved

LEMMA StepsAreFinal ==
  ASSUME WorkInv, Next
  PROVE  RowsStay
<1>0. /\ WorkInv /\ TypeOK /\ StoreInv
      /\ {"not_started", "executing", Absent} \cap TERMINAL_EXECUTION_STATUSES = {}
  BY DEF WorkInv, TERMINAL_EXECUTION_STATUSES, BlockedStatuses, Absent
<1>u. ASSUME UNCHANGED store PROVE RowsStay
  BY <1>u DEF RowsStay, store
<1>r. ASSUME NEW w \in Tasks, NEW s, RecordResult(w, cur[w], s) PROVE RowsStay
  BY <1>0, <1>r, MovesOn DEF RecordResult, CanPersist, Writer, ActiveRunStatuses
<1>f. ASSUME NEW w \in Tasks, NEW s, FinishRun(w, s) PROVE RowsStay
  <2>1. Writer(w) /\ UNCHANGED <<exec, approval>>
    BY <1>f DEF FinishRun, CanFinish, Current, Writer
  <2> QED BY <1>0, <2>1 DEF RowsStay, WorkInv, TaskInv
<1>1. ASSUME NEW w \in Tasks, AgentStep(w) PROVE RowsStay
  <2>1. CASE StartRun(w)
    <3>1. chk.phase # "run_terminal"
      BY <1>0, <2>1 DEF StartRun, FenceCreate, StoreInv, CheckpointAgrees, TERMINAL_RUN_STATUSES
    <3> QED BY <2>1, <3>1 DEF StartRun, RowsStay
  <2>2. CASE PersistAnswer(w)
    <3>1. Writer(w) /\ UNCHANGED <<exec, approval>>
      BY <2>2 DEF PersistAnswer, Current, Writer
    <3> QED BY <1>0, <3>1 DEF RowsStay, WorkInv, TaskInv
  <2>3. CASE Complete(w) \/ Fail(w) \/ Abort(w)
    BY <1>f, <2>3 DEF Complete, Fail, Abort
  <2>4. CASE RoundFails(w) \/ (\E c \in Calls : CallTool(w, c)) \/ AnswerText(w) \/ PersistAnswerFails(w)
    BY <1>u, <2>4 DEF RoundFails, CallTool, AnswerText, PersistAnswerFails
  <2>5. CASE CompleteRefused(w) \/ FailRefused(w) \/ AbortRefused(w)
    BY <1>u, <2>5 DEF CompleteRefused, FailRefused, AbortRefused, FinishFails
  <2> QED BY <1>1, <2>1, <2>2, <2>3, <2>4, <2>5 DEF AgentStep
<1>2. ASSUME NEW w \in Tasks, ToolStep(w) PROVE RowsStay
  <2>1. CASE RequestApproval(w) \/ PrepareExecution(w)
    <3>1. Current(prepared[w]) /\ pc[w] \in {"request", "prepare"}
      BY <2>1 DEF RequestApproval, CanRequest, PrepareExecution, CanPrepare, Moves
    <3>2. cur[w] \in Calls /\ exec[cur[w]] = Absent /\ Writer(w)
      BY <1>0, <3>1 DEF WorkInv, TaskInv, CallPlaces, Current, Holder, Writer
    <3>3. ~Resolved(cur[w])
      BY <1>0, <3>2 DEF WorkInv, CallInv, Resolved, Absent
    <3>4. /\ \E s : exec' = [exec EXCEPT ![cur[w]] = s]
          /\ approval' = approval \/ \E s : approval' = [approval EXCEPT ![cur[w]] = s]
      BY <2>1 DEF RequestApproval, InsertApproval, PrepareExecution
    <3> QED BY <1>0, <3>2, <3>3, <3>4, MovesOn
  <2>2. CASE CloseExecution(w) \/ ToolReturns(w) \/ ToolRaises(w)
    BY <1>r, <2>2 DEF CloseExecution, ToolReturns, ToolRaises
  <2>3. CASE \/ RequestApprovalFails(w) \/ ReplaceTransitioned(w) \/ Pause(w) \/ PrepareFails(w)
             \/ PreDispatchCheck(w) \/ PreDispatchError(w) \/ Dispatch(w) \/ ResultLost(w)
             \/ Replace(w)
    BY <1>u, <2>3 DEF RequestApprovalFails, ReplaceTransitioned, Pause, PrepareFails,
         PreDispatchCheck, PreDispatchError, Dispatch, ResultLost, Replace
  <2> QED BY <1>2, <2>1, <2>2, <2>3 DEF ToolStep
<1>3. ASSUME NEW w \in Tasks, RecoveryStep(w) PROVE RowsStay
  <2>1. CASE BlockExecution(w)
    <3>1. /\ Writer(w) /\ BlockedStatuses \subseteq LegalExecutionTargets(exec[cur[w]])
          /\ UNCHANGED approval /\ \E s : exec' = [exec EXCEPT ![cur[w]] = s]
      BY <2>1 DEF BlockExecution, CanBlock, Current, Writer
    <3>2. exec[cur[w]] \notin TERMINAL_EXECUTION_STATUSES
      BY <3>1 DEF LegalExecutionTargets, BlockedStatuses, TERMINAL_EXECUTION_STATUSES
    <3> QED BY <1>0, <3>1, <3>2, MovesOn
  <2>2. CASE BlockRun(w)
    BY <1>f, <2>2 DEF BlockRun
  <2>3. CASE PrepareRecovery(w)
    <3>1. CASE mode[w] = "forced"
      <4>1. /\ Writer(w) /\ exec[cur[w]] = "not_started" /\ UNCHANGED approval
            /\ \E s : exec' = [exec EXCEPT ![cur[w]] = s]
        BY <2>3, <3>1 DEF PrepareRecovery, CanPrepareRecovery, Current, Writer
      <4> QED BY <1>0, <4>1, MovesOn
    <3>2. CASE mode[w] # "forced"
      BY <1>u, <2>3, <3>2 DEF PrepareRecovery, store
    <3> QED BY <3>1, <3>2
  <2>4. CASE RecoveredToolReturns(w) \/ RecordRaised(w) \/ MarkUncertain(w)
    BY <1>r, <2>4 DEF RecoveredToolReturns, RecordRaised, MarkUncertain
  <2>5. CASE \/ Scan(w) \/ Preflight(w) \/ AcquireRun(w) \/ LeaseConflict(w) \/ Route(w)
             \/ RefuseRecovery(w) \/ Redispatch(w) \/ RecoveredToolRaises(w) \/ BeginMark(w)
             \/ Continue(w)
    BY <1>u, <2>5 DEF Scan, Preflight, AcquireRun, LeaseConflict, Route, RefuseRecovery,
         Redispatch, RecoveredToolRaises, BeginMark, Continue
  <2>6. CASE \/ BlockExecutionFails(w) \/ BlockRunRefused(w) \/ PrepareRecoveryFails(w)
             \/ RecoveredResultLost(w) \/ ContinueFails(w)
    BY <1>u, <2>6 DEF BlockExecutionFails, BlockRunRefused, PrepareRecoveryFails,
         RecoveredResultLost, ContinueFails, GivesUp
  <2> QED BY <1>3, <2>1, <2>2, <2>3, <2>4, <2>5, <2>6 DEF RecoveryStep
<1>4. ASSUME NEW w \in Tasks, ProducerStep(w) PROVE RowsStay
  <2>1. CASE ProducerFails(w) /\ CanFinish(w, "failed_terminal")
    <3>1. Writer(w) /\ UNCHANGED <<exec, approval>>
      BY <2>1 DEF ProducerFails, CanFinish, Current, Writer
    <3> QED BY <1>0, <3>1 DEF RowsStay, WorkInv, TaskInv
  <2>2. CASE ~(ProducerFails(w) /\ CanFinish(w, "failed_terminal"))
    BY <1>4, <1>u, <2>2 DEF ProducerStep, ProducerFails, ProducerEnds, store
  <2> QED BY <2>1, <2>2
<1>5. CASE EnvironmentStep
  <2>1. ASSUME NEW w \in Tasks,
               Heartbeat(w) \/ HeartbeatLost(w) \/ HeartbeatError(w) \/ CancelProducer(w) \/ Crash(w)
        PROVE  RowsStay
    BY <1>u, <2>1 DEF Heartbeat, HeartbeatLost, HeartbeatError, CancelProducer, Crash
  <2>2. CASE Expire
    BY <1>u, <2>2 DEF Expire
  <2>3. CASE Damage \/ RequestCancellation
    <3>1. run.status \in ActiveRunStatuses /\ UNCHANGED <<exec, approval>>
      BY <2>3 DEF Damage, RequestCancellation, FenceRequestCancellation
    <3>2. chk.phase # "run_terminal"
      BY <1>0, <3>1 DEF StoreInv, CheckpointAgrees, ActiveRunStatuses, TERMINAL_RUN_STATUSES
    <3> QED BY <3>1, <3>2 DEF RowsStay
  <2>4. ASSUME NEW c \in Calls, Decide(c) PROVE RowsStay
    BY <1>0, <2>4 DEF Decide, RowsStay, Resolved, TypeOK
  <2> QED BY <1>5, <2>1, <2>2, <2>3, <2>4 DEF EnvironmentStep
<1> QED BY <1>1, <1>2, <1>3, <1>4, <1>5 DEF Next, TaskStep

\* No step leaves a terminal status, revises a decision, or records anything after
\* the terminal checkpoint, but for the agent's task that outlives its failed run.
THEOREM WhatIsOverStaysOver == Spec => FinalIsFinal
<1>1. WorkInv /\ [Next]_vars => [FinalStep]_vars
  <2> SUFFICES ASSUME WorkInv, Next PROVE FinalStep
    OBVIOUS
  <2>1. [FenceNext]_fenceVars
    BY StepIsFence DEF WorkInv, FenceInv
  <2>2. run.status \in TERMINAL_RUN_STATUSES => run'.status = run.status
    BY <2>1, TerminalRunStays
  <2> QED BY <2>2, StepsAreFinal DEF RowsStay, FinalStep
<1> QED BY <1>1, WorkInvHolds, PTL DEF Spec, FinalIsFinal

=============================================================================
