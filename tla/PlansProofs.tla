---------------------------- MODULE PlansProofs -----------------------------
(***************************************************************************)
(* For any drafts, tasks, decisions, runs and faults: the properties of    *)
(* Plans, and that it implements PlanReview.  Each step of a task changes  *)
(* the rows in one of few ways (StoreStep), which PlanStepProofs shows to  *)
(* keep the invariant, as it shows what the step makes of the tasks.       *)
(***************************************************************************)
EXTENDS PlanStepProofs

\* The leaves are first-order: Zenon proves them, and those it does not find cite SMT.
USE Zenon

-----------------------------------------------------------------------------
(* The actions that leave plan, versions, decisions and attempts alone *)

LEMMA PrepareActs ==
  ASSUME PlansInv, NEW t \in Tasks, prepare_final_summary(t)
  PROVE  Acts(t) /\ KeepsStore
<1>1. UNCHANGED <<plan, versions, decisions, active>>
  BY DEF prepare_final_summary, KeepPlan
<1>2. CASE Raise(t)
  BY <1>1, <1>2, Raises
<1>3. CASE ~Raise(t)
  <2>1. /\ load_executable_plan(prepared[t]) /\ ckpt' = Ckpt("final_summary", Steps[Len(Steps)].key)
        /\ Goto(t, "reserve") /\ FenceForget(t) /\ UNCHANGED <<attempts, rounds>>
    BY <1>3 DEF prepare_final_summary
  <2>2. Current(prepared[t]) /\ plan.status # "absent" /\ Rows
    BY <2>1 DEF load_executable_plan, Executable, ActiveVersionApproved, PlansInv
  <2>3. IsCkpt(ckpt')
    <3>1. InOrder(Steps)
      BY <2>2, StepsInOrder
    <3>2. Len(Steps) \in DOMAIN Steps
      <4>1. PICK S : S = {Steps[i] : i \in DOMAIN Steps}
        OBVIOUS
      <4>2. Steps \in Seq(S) /\ Len(Steps) > 0
        BY <3>1, <4>1 DEF InOrder
      <4> QED BY <4>2, SMT
    <3>3. Steps[Len(Steps)].key \in StepKeys \cup {NoKey} /\ "final_summary" \in CkptPhases
      BY <3>1, <3>2 DEF InOrder, CkptPhases
    <3> QED BY <2>1, <3>3, CkptOf
  <2>4. PICK e : task' = [task EXCEPT ![t] = e] /\ Local(e) /\ e # Idle
    BY <2>1, GotoLocal DEF Keyed
  <2> QED BY <1>1, <2>1, <2>2, <2>3, <2>4, GoesOnRecorded, Known
<1> QED BY <1>2, <1>3

-----------------------------------------------------------------------------
(* The actions that change plan, versions, decisions or attempts *)

LEMMA StartActs ==
  ASSUME PlansInv, NEW t \in Tasks, start_next_attempt(t)
  PROVE  Acts(t) /\ (KeepsStore \/ \E k : Starts(k))
<1>1. UNCHANGED <<plan, versions, decisions, active>> /\ task[t].at = "start"
  BY DEF start_next_attempt, KeepPlan
<1>2. CASE Raise(t)
  BY <1>1, <1>2, Raises
<1>3. CASE ~Raise(t) /\ AllSucceeded
  <2>1. Goto(t, "done") /\ FenceForget(t) /\ UNCHANGED <<ckpt, attempts, rounds>>
    BY <1>3 DEF start_next_attempt
  <2>2. PICK e : task' = [task EXCEPT ![t] = e] /\ Local(e) /\ e # Idle
    BY <2>1, GotoLocal DEF Keyed
  <2> QED BY <1>1, <2>1, <2>2, GoesOn, Known
<1>4. CASE ~Raise(t) /\ ~AllSucceeded
  <2>1. /\ load_executable_plan(prepared[t]) /\ StepsMayStart /\ ReadySteps # {}
        /\ ~(Latest[choose_ready_step].n >= AttemptLimit(choose_ready_step))
        /\ create_step_attempt(choose_ready_step, Latest[choose_ready_step].n + 1)
        /\ ckpt' = Ckpt("dispatch_step", choose_ready_step)
        /\ task' = [task EXCEPT ![t] = [@ EXCEPT !.at = "started", !.k = choose_ready_step,
                                                 !.n = Latest[choose_ready_step].n + 1]]
        /\ FenceForget(t) /\ UNCHANGED rounds
    BY <1>4 DEF start_next_attempt
  <2>2. PICK k : k = choose_ready_step
    OBVIOUS
  <2>3. Current(prepared[t]) /\ Runs /\ ~run.cancel /\ ActiveVersionApproved
    BY <2>1, MayExecute DEF load_executable_plan
  <2>4. /\ k \in Keys(Steps) /\ k \in StepKeys /\ is_plan_step_ready(k)
        /\ Latest[k].n + 1 <= MaxStepAttempts
    BY <2>1, <2>2, <2>3, Chosen DEF PlansInv, Store
  <2>5. PICK e : e = WithN(WithK(WithAt(task[t], "started"), k), Latest[k].n + 1)
    OBVIOUS
  <2>6. task' = [task EXCEPT ![t] = e]
    BY <2>1, <2>2, <2>5 DEF WithAt, WithK, WithN
  <2>7. Local(e) /\ e # Idle
    <3>1. "started" \in Keyed \ {"drafted", "materialize"}
      BY DEF Keyed
    <3> QED BY <2>4, <2>5, <3>1, Known, TakesUp
  <2>8. IsCkpt(ckpt')
    <3>1. "dispatch_step" \in CkptPhases /\ k \in StepKeys \cup {NoKey}
      BY <2>4 DEF CkptPhases
    <3> QED BY <2>1, <2>2, <3>1, CkptOf
  <2>9. Acts(t) /\ run' = run
    BY <2>1, <2>3, <2>6, <2>7, <2>8, Moves
  <2>10. Starts(k)
    BY <1>1, <2>1, <2>2, <2>3, <2>4, <2>9 DEF Starts, KeepsPlan
  <2> QED BY <2>9, <2>10
<1> QED BY <1>2, <1>3, <1>4

\* A new run: whoever else was at work on the last one is done.
LEMMA RerunKeepsLocals ==
  ASSUME PlansInv, NEW t \in Tasks, rerun_plan(t)
  PROVE  Locals' /\ Reruns
<1>1. /\ run' = RunRow("running", FALSE, "live") /\ active' = plan.current /\ attempts' = NoAttempts
      /\ plan.status = "approved" /\ plan.approved = plan.current
      /\ run.status \in TERMINAL_RUN_STATUSES /\ UNCHANGED <<plan, versions, decisions>>
      /\ handle' = [s \in Tasks |-> IF s = t THEN "fresh" ELSE "none"]
      /\ prepared' = [s \in Tasks |-> "none"] /\ rounds' = 0 /\ ckpt' = Ckpt("run_started", NoKey)
      /\ task' = [s \in Tasks |-> IF s = t THEN [Idle EXCEPT !.at = "admit"] ELSE Idle]
  BY DEF rerun_plan, start_approved_plan_run_with_checkpoint
<1>2. Copies'
  BY <1>1 DEF Copies, LeaseState, Gone
<1>3. PICK e : e = WithAt(Idle, "admit")
  OBVIOUS
<1>4. Local(e) /\ e # Idle
  BY <1>3, Enters DEF Keyed
<1>5. task' = [s \in Tasks |-> IF s = t THEN e ELSE Idle]
  BY <1>1, <1>3 DEF WithAt
<1>6. task' = [s \in Tasks |-> task'[s]]
      /\ \A s \in Tasks : Local(task'[s]) /\ (task'[s] = Idle => handle'[s] = "none")
  BY <1>1, <1>4, <1>5, IdleIsLocal
<1>7. rounds' \in 0..RoundBudget
  BY <1>1, PlanConstants, SMT
<1>8. IsCkpt(ckpt')
  BY <1>1, TerminalCkpt
<1> QED BY <1>1, <1>2, <1>6, <1>7, <1>8 DEF Locals, Reruns

-----------------------------------------------------------------------------
(* Every step *)

LEMMA StoreStepKeepsStore ==
  ASSUME Store, StoreStep
  PROVE  Store'
BY StoreKept, CancelsKeepsStore, ReusesKeepsStore, StartsKeepsStore, EndsKeepsStore,
   ProposesKeepsStore, ApprovesKeepsStore, RejectsKeepsStore, RevisesKeepsStore,
   ReplansKeepsStore DEF StoreStep

\* Task t moves within a run.
TaskMove(t) == Acts(t) /\ StoreStep /\ UNCHANGED runs

LEMMA KeptMoves ==
  ASSUME NEW t, Acts(t) /\ KeepsStore, UNCHANGED runs
  PROVE  TaskMove(t)
BY DEF TaskMove, StoreStep

LEMMA TaskMoves ==
  ASSUME PlansInv, NEW t \in Tasks, TaskStep(t)
  PROVE  TaskMove(t)
<1>1. CASE BeginRun(t)
  BY <1>1, BeginRunActs, KeptMoves DEF BeginRun, KeepPlan
<1>2. CASE raise_if_cancel_requested(t)
  BY <1>2, CancelCheckActs, KeptMoves DEF raise_if_cancel_requested, KeepPlan
<1>3. CASE EnterRunning(t)
  BY <1>3, EnterRunningActs, KeptMoves DEF EnterRunning, KeepPlan
<1>4. CASE resume_running_attempt(t)
  BY <1>4, ResumeRunningActs, KeptMoves DEF resume_running_attempt, KeepPlan
<1>5. CASE StepAwaitsApproval(t)
  BY <1>5, AwaitApprovalActs, KeptMoves DEF StepAwaitsApproval, KeepPlan
<1>6. CASE replan_terminal_failure(t)
  BY <1>6, ReplanActs, KeptMoves DEF replan_terminal_failure, KeepPlan
<1>7. CASE revision_context(t)
  BY <1>7, ContextActs, KeptMoves DEF revision_context, KeepPlan
<1>8. CASE fail_replan_terminal(t)
  BY <1>8, GiveUpActs, KeptMoves DEF fail_replan_terminal, KeepPlan
<1>9. CASE EnterSummary(t)
  BY <1>9, EnterSummaryActs, KeptMoves DEF EnterSummary, KeepPlan
<1>10. CASE prepare_final_summary(t)
  BY <1>10, PrepareActs, KeptMoves DEF prepare_final_summary, KeepPlan
<1>11. CASE reserve_round_unit(t)
  BY <1>11, ReserveActs, KeptMoves DEF reserve_round_unit, KeepPlan
<1>12. CASE ParkSummary(t)
  BY <1>12, ParkActs, KeptMoves DEF ParkSummary, KeepPlan
<1>13. CASE SaveSummary(t)
  BY <1>13, SaveActs, KeptMoves DEF SaveSummary, KeepPlan
<1>14. CASE BeginSummaryRun(t)
  BY <1>14, BeginSummaryActs, KeptMoves DEF BeginSummaryRun, KeepPlan
<1>15. CASE TerminalizeError(t)
  BY <1>15, EndsActs, KeptMoves DEF TerminalizeError, KeepPlan
<1>16. CASE consume_outcome(t)
  BY <1>16, OutcomeActs, KeptMoves DEF consume_outcome, KeepPlan
<1>17. CASE ContinueRun(t)
  BY <1>17, ContinueActs, KeptMoves DEF ContinueRun, KeepPlan
<1>18. CASE StepUsesTool(t)
  BY <1>18, UseToolActs, KeptMoves DEF StepUsesTool, KeepPlan
<1>19. CASE \E out \in StepOutcomes : run_plan_step(t, out)
  BY <1>19, RunStepActs, KeptMoves DEF run_plan_step, KeepPlan
<1>20. CASE \E draft \in GeneratedDrafts : GenerateRevision(t, draft)
  BY <1>20, GenerateActs, KeptMoves DEF GenerateRevision, KeepPlan
<1>21. CASE \E ok \in BOOLEAN : Summarize(t, ok)
  BY <1>21, SummarizeActs, KeptMoves DEF Summarize, KeepPlan
<1>22. CASE start_next_attempt(t)
  <2>1. UNCHANGED runs
    BY <1>22 DEF start_next_attempt, KeepPlan
  <2> QED BY <1>22, <2>1, StartActs DEF TaskMove, StoreStep
<1>23. CASE finalize_step_attempt(t)
  <2>1. UNCHANGED runs
    BY <1>23 DEF finalize_step_attempt, KeepPlan
  <2> QED BY <1>23, <2>1, FinalizeActs DEF TaskMove, StoreStep
<1>24. CASE cancel_at_boundary(t)
  <2>1. UNCHANGED runs
    BY <1>24 DEF cancel_at_boundary, KeepPlan
  <2> QED BY <1>24, <2>1, CancelActs DEF TaskMove, StoreStep
<1>25. CASE materialize_failure_revision(t)
  <2>1. UNCHANGED runs
    BY <1>25 DEF materialize_failure_revision, KeepPlan
  <2> QED BY <1>25, <2>1, MaterializeActs DEF TaskMove, StoreStep
<1>26. CASE \E same \in BOOLEAN : apply_compatible_reuse(t, same)
  <2>1. UNCHANGED runs
    BY <1>26 DEF apply_compatible_reuse, KeepPlan
  <2> QED BY <1>26, <2>1, ReuseActs DEF TaskMove, StoreStep
<1> QED BY <1>1, <1>2, <1>3, <1>4, <1>5, <1>6, <1>7, <1>8, <1>9, <1>10, <1>11, <1>12, <1>13, <1>14,
       <1>15, <1>16, <1>17, <1>18, <1>19, <1>20, <1>21, <1>22, <1>23, <1>24, <1>25, <1>26 DEF
       TaskStep

\* Users and the clock.
LEMMA OthersMove ==
  ASSUME PlansInv, UserStep \/ Expire
  PROVE  \/ \E t \in Tasks : TaskMove(t) \/ rerun_plan(t)
         \/ Rests /\ StoreStep /\ runs' \in Nat
<1>1. runs \in Nat
  BY DEF PlansInv
<1>2. CASE \E mode \in {"never", "auto", "always"}, answer \in {"plan", "direct", "failed"},
            draft \in GeneratedDrafts : materialize_initial(mode, answer, draft)
  <2>1. PICK mode \in {"never", "auto", "always"}, answer \in {"plan", "direct", "failed"},
             draft \in GeneratedDrafts : materialize_initial(mode, answer, draft)
    BY <1>2
  <2>2. Rests /\ Proposes(draft)
    BY <2>1, ProposeRests
  <2>3. runs' = 1
    BY <2>1 DEF materialize_initial, start_plan_run_with_checkpoint
  <2>4. 1 \in Nat
    BY SMT
  <2> QED BY <2>2, <2>3, <2>4 DEF StoreStep
<1>3. CASE \E id \in DecisionIds, v \in VersionIds, c \in 1..plan.cas : decide(id, v, c)
  <2>1. PICK id \in DecisionIds, v \in VersionIds, c \in 1..plan.cas : decide(id, v, c)
    BY <1>3
  <2>2. ASSUME NEW t \in Tasks, Approve(t, id, v, c)
        PROVE  TaskMove(t)
    <3>1. UNCHANGED runs
      BY <2>2 DEF Approve
    <3> QED BY <2>2, <3>1, ApproveActs DEF TaskMove, StoreStep
  <2>3. CASE Reject(id, v, c)
    <3>1. UNCHANGED runs
      BY <2>3 DEF Reject
    <3> QED BY <1>1, <2>3, <3>1, RejectRests DEF StoreStep
  <2>4. ASSUME NEW draft \in GeneratedDrafts, Revise(id, v, c, draft)
        PROVE  Rests /\ StoreStep /\ runs' \in Nat
    <3>1. UNCHANGED runs
      BY <2>4 DEF Revise
    <3> QED BY <1>1, <2>4, <3>1, ReviseRests DEF StoreStep
  <2> QED BY <2>1, <2>2, <2>3, <2>4 DEF decide
<1>4. ASSUME NEW t \in Tasks, resume_waiting_summary_run(t) \/ ResumeAfterApproval(t)
      PROVE  TaskMove(t)
  <2>1. UNCHANGED runs
    BY <1>4 DEF resume_waiting_summary_run, ResumeAfterApproval, KeepPlan
  <2>2. Acts(t) /\ KeepsStore
    BY <1>4, RecoversActs DEF resume_waiting_summary_run, ResumeAfterApproval
  <2> QED BY <2>1, <2>2, KeptMoves
<1>5. CASE request_cancellation \/ Expire
  <2>1. UNCHANGED runs
    BY <1>5 DEF request_cancellation, Expire, KeepPlan
  <2> QED BY <1>1, <1>5, <2>1, CancellationRests, ExpireRests DEF StoreStep
<1> QED BY <1>2, <1>3, <1>4, <1>5 DEF UserStep

LEMMA EveryStep ==
  ASSUME PlansInv, [Next]_vars
  PROVE  \/ \E t \in Tasks : TaskMove(t) \/ rerun_plan(t)
         \/ Rests /\ StoreStep /\ runs' \in Nat
<1>1. ASSUME NEW t \in Tasks, execute_candidate(t)
      PROVE  TaskMove(t)
  <2>1. UNCHANGED runs
    BY <1>1 DEF execute_candidate, KeepPlan
  <2>2. Acts(t) /\ KeepsStore
    BY <1>1, RecoversActs DEF execute_candidate
  <2> QED BY <2>1, <2>2, KeptMoves
<1>2. ASSUME NEW t \in Tasks, heartbeat_owned_lease(t)
      PROVE  TaskMove(t)
  BY <1>2, HeartbeatActs, KeptMoves DEF heartbeat_owned_lease, KeepPlan
<1>3. ASSUME NEW t \in Tasks,
             Crash(t) \/ \E s \in {"cancelled", "failed_terminal"} : TerminalizeCancelledStream(t, s)
      PROVE  TaskMove(t)
  BY <1>3, EndsActs, KeptMoves DEF Crash, TerminalizeCancelledStream
<1>4. CASE UNCHANGED vars
  <2>1. /\ UNCHANGED <<run, handle, prepared, plan, versions, decisions, active, attempts>>
        /\ UNCHANGED <<ckpt, rounds, task, runs>>
    BY <1>4 DEF vars, fenceVars, planVars
  <2>2. Copies /\ rounds \in 0..RoundBudget /\ IsCkpt(ckpt) /\ IsRun(run) /\ runs \in Nat
    BY DEF PlansInv, Locals, Rows
  <2>3. CopiesAge /\ RunStep
    BY <2>1, <2>2, NothingCopied, SameRow
  <2> QED BY <2>1, <2>2, <2>3 DEF Rests, StoreStep, KeepsStore
<1> QED BY <1>1, <1>2, <1>3, <1>4, TaskMoves, OthersMove DEF Next

LEMMA InvInit ==
  ASSUME Init
  PROVE  PlansInv
<1>1. /\ run = RunRow("absent", FALSE, "expired")
      /\ handle = [t \in Tasks |-> "none"] /\ prepared = [t \in Tasks |-> "none"]
      /\ plan = PlanOf("absent", 0, 0, 0) /\ versions = <<>> /\ active = 0 /\ runs = 0 /\ rounds = 0
      /\ decisions = [i \in DecisionIds |-> NoDecision] /\ attempts = NoAttempts
      /\ ckpt = Ckpt("none", NoKey) /\ task = [t \in Tasks |-> Idle]
  BY DEF Init, FenceInit, PlanOf
<1>2. /\ run.status = "absent" /\ IsRun(run)
  BY <1>1 DEF RunRow, IsRun
<1>3. PICK z : z = 0
  OBVIOUS
<1>4. /\ z \in Nat /\ z \in Versions0 /\ z \in 0..RoundBudget
      /\ versions \in Seq(Valid) /\ Len(versions) = z
  BY <1>1, <1>3, PlanConstants, SMT DEF Versions0
<1>5. IsPlan(plan) /\ plan.status = "absent" /\ plan.current = z /\ plan.approved = z /\ plan.cas = z
  <2>1. PICK s : s = "absent"
    OBVIOUS
  <2>2. plan = PlanOf(s, z, z, z)
    BY <1>1, <1>3, <2>1
  <2>3. PlanIs(plan, s, z, z, z)
    BY <2>2, PlanFields
  <2> QED BY <2>1, <2>3 DEF PlanIs
<1>6. Rows
  BY <1>1, <1>2, <1>3, <1>4, <1>5 DEF Rows, PlanStatus
<1>7. Table /\ Alone
  BY <1>1, NothingAttempted DEF Table, Alone
<1>8. Ledger
  <2>1. \A i \in DecisionIds : decisions[i].action = "none"
    BY <1>1 DEF NoDecision
  <2>2. DOMAIN decisions = DecisionIds
    BY <1>1
  <2> QED BY <1>5, <2>1, <2>2 DEF Ledger, EveryVersionAccounted
<1>9. Copies
  BY <1>1 DEF Copies, LeaseState, Gone
<1>10. IsCkpt(ckpt)
  <2>1. "none" \in CkptPhases /\ NoKey \in StepKeys \cup {NoKey}
    BY DEF CkptPhases
  <2> QED BY <1>1, <2>1, CkptOf
<1>11. Locals
  BY <1>1, <1>3, <1>4, <1>9, <1>10, IdleIsLocal DEF Locals
<1> QED BY <1>1, <1>3, <1>4, <1>6, <1>7, <1>8, <1>11 DEF PlansInv

LEMMA InvNext ==
  ASSUME PlansInv, [Next]_vars
  PROVE  PlansInv'
<1>1. Store /\ Locals /\ runs \in Nat
  BY DEF PlansInv, Store
<1>2. ASSUME NEW t \in Tasks, TaskMove(t)
      PROVE  PlansInv'
  <2>1. Store' /\ runs' \in Nat
    BY <1>1, <1>2, StoreStepKeepsStore DEF TaskMove
  <2>2. Locals'
    BY <1>1, <1>2, ActsKeepsLocals DEF TaskMove
  <2> QED BY <2>1, <2>2 DEF PlansInv, Store
<1>3. ASSUME NEW t \in Tasks, rerun_plan(t)
      PROVE  PlansInv'
  <2>1. Locals' /\ Store'
    BY <1>1, <1>3, RerunKeepsLocals, RerunsKeepsStore
  <2>2. runs' \in Nat
    <3>1. runs' = runs + 1
      BY <1>3 DEF rerun_plan, start_approved_plan_run_with_checkpoint
    <3> QED BY <1>1, <3>1, SMT
  <2> QED BY <2>1, <2>2 DEF PlansInv, Store
<1>4. CASE Rests /\ StoreStep /\ runs' \in Nat
  <2>1. Store' /\ Locals'
    BY <1>1, <1>4, StoreStepKeepsStore, RestsKeepsLocals
  <2> QED BY <1>4, <2>1 DEF PlansInv, Store
<1> QED BY <1>2, <1>3, <1>4, EveryStep

-----------------------------------------------------------------------------
(* The theorems *)

\* The invariant holds of every drafts, tasks, decisions, reruns and faults.
THEOREM PlansInvariant == Spec => []PlansInv
<1>1. Init => PlansInv
  BY InvInit
<1>2. PlansInv /\ [Next]_vars => PlansInv'
  BY InvNext
<1> QED BY <1>1, <1>2, PTL DEF Spec

\* The rows, the attempts, the checkpoint and the round budget stay within
\* their types: in particular no revision exceeds max_revisions, no attempt
\* max_step_attempts, and no round the run's budget.
THEOREM PlansTypes == Spec => []PlansTypeOK
<1>1. ASSUME PlansInv
      PROVE  PlansTypeOK
  <2>1. Rows /\ Table /\ Ledger /\ Locals
    BY <1>1 DEF PlansInv
  <2>2. run \in [status: RunStatus \cup {"absent"}, cancel: BOOLEAN, lease: {"live", "expired"}]
    <3>1. IsRun(run)
      BY <2>1 DEF Rows
    <3> QED BY <3>1, SMT DEF IsRun, RunRow
  <2>3. FenceTypeOK
    BY <2>1, <2>2 DEF FenceTypeOK, Locals, Copies
  <2>4. plan \in [status: PlanStatus, current: 0..(MaxRevisions + 1),
                  approved: 0..(MaxRevisions + 1), cas: Nat]
    <3>1. /\ IsPlan(plan) /\ plan.status \in PlanStatus /\ plan.cas \in Nat
          /\ plan.current \in Versions0 /\ plan.approved \in Versions0
      BY <2>1 DEF Rows
    <3> QED BY <3>1, SMT DEF IsPlan, PlanOf, Versions0
  <2>5. Len(versions) = plan.current /\ active \in 0..plan.current
    <3>1. /\ Len(versions) = plan.current /\ plan.current \in Versions0
          /\ (plan.current = 0 /\ active = 0) \/ active \in 1..plan.current
      BY <2>1 DEF Rows
    <3> QED BY ONLY <3>1, PlanConstants, SMT DEF Versions0
  <2>6. attempts \in [VersionIds -> [StepKeys ->
          [n: 0..MaxStepAttempts, st: PlanStepRunStatus, from: 0..MaxRevisions]]]
    BY <2>1 DEF Table, Attempts
  <2>7. /\ ckpt.phase \in CkptPhases /\ ckpt.key \in StepKeys \cup {NoKey}
        /\ rounds \in 0..RoundBudget
    BY <2>1 DEF Locals, IsCkpt
  <2>8. \A i \in DecisionIds : decisions[i].action \in {"none", "approve", "reject", "revise"}
    BY <2>1 DEF Ledger
  <2> QED BY <2>3, <2>4, <2>5, <2>6, <2>7, <2>8 DEF PlansTypeOK
<1> QED BY <1>1, PlansInvariant, PTL

LEMMA VersionInOrder ==
  ASSUME Rows, NEW v \in 1..Len(versions)
  PROVE  v \in VersionIds /\ InOrder(versions[v])
<1>1. Len(versions) \in Versions0 /\ versions \in Seq(Valid)
  BY DEF Rows
<1>2. v \in VersionIds
  BY <1>1, PlanConstants, SMT DEF Versions0, VersionIds
<1>3. versions[v] \in Valid
  BY <1>1, Indices
<1> QED BY <1>2, <1>3, Ordered

\* Whatever draft a model answers and however tasks crash, race or are
\* recovered, a step is attempted (start_next_attempt) or shown as reused
\* (apply_compatible_reuse) only after all it depends on has succeeded in the
\* same version, whose steps validate_plan_draft has put in such an order.
THEOREM NothingBeforeItsDependencies == Spec => []DependenciesFirst
<1>1. ASSUME PlansInv
      PROVE  DependenciesFirst
  <2>1. Rows /\ Table
    BY <1>1 DEF PlansInv
  <2>2. SUFFICES ASSUME NEW v \in 1..Len(versions), NEW i \in DOMAIN versions[v]
                 PROVE  /\ versions[v][i].deps \subseteq {versions[v][j].key : j \in 1..(i - 1)}
                        /\ attempts[v][versions[v][i].key].n > 0 =>
                             \A d \in versions[v][i].deps : attempts[v][d].st = "succeeded"
    BY DEF DependenciesFirst
  <2>3. v \in VersionIds /\ InOrder(versions[v])
    BY <2>1, VersionInOrder
  <2>4. PICK step, k : step = versions[v][i] /\ k = step.key
    OBVIOUS
  <2>5. k \in StepKeys /\ step.deps \subseteq {versions[v][j].key : j \in 1..(i - 1)}
    BY <2>3, <2>4 DEF InOrder
  <2>6. StepOf(versions[v], k) = step
    BY <2>3, <2>4, StepOfKey
  <2>7. Settled(versions, attempts, v, k)
    BY <2>1, <2>3, <2>5, Typed
  <2>8. attempts[v][k].n > 0 => \A d \in step.deps : attempts[v][d].st = "succeeded"
    BY <2>6, <2>7 DEF Settled
  <2> QED BY <2>4, <2>5, <2>8
<1> QED BY <1>1, PlansInvariant, PTL

\* A reused result is always one that an execution of the same definition
\* produced, computed from the very results the version itself shows: however
\* many revisions and reruns there are, can_reuse_result never chains a reuse
\* onto a reuse nor mixes results of different versions.
THEOREM LineageKept == Spec => []ReuseKeepsLineage
<1>1. ASSUME PlansInv
      PROVE  ReuseKeepsLineage
  <2>1. Rows /\ Table
    BY <1>1 DEF PlansInv
  <2>2. ASSUME NEW v \in 1..Len(versions), NEW k \in Keys(versions[v]), attempts[v][k].from > 0
        PROVE  LET u == attempts[v][k].from IN
               /\ attempts[u][k].st = "succeeded" /\ attempts[u][k].from = 0
               /\ StepOf(versions[u], k).def = StepOf(versions[v], k).def
               /\ \A d \in StepOf(versions[u], k).deps :
                    attempts[v][d].st = "succeeded" /\ attempts[v][d].from = u
    <3>1. v \in VersionIds /\ InOrder(versions[v])
      BY <2>1, VersionInOrder
    <3>2. k \in StepKeys
      BY <3>1, DepsAreKeys
    <3>3. Settled(versions, attempts, v, k) /\ attempts[v][k].from > 0
      BY <2>1, <2>2, <3>1, <3>2, Typed
    <3> QED BY ONLY <3>3 DEF Settled
  <2> QED BY <2>2 DEF ReuseKeepsLineage
<1> QED BY <1>1, PlansInvariant, PTL

\* However decisions race with each other and with a replanning executor, every
\* aggregate version of the plan is one decision or one failure revision
\* (record_decision, finish_revision_decision, append_version).
THEOREM VersionsAccounted == Spec => []EveryVersionAccounted
<1>1. PlansInv => EveryVersionAccounted
  BY DEF PlansInv, Ledger
<1> QED BY <1>1, PlansInvariant, PTL

\* An attempt that ends.
LEMMA EndedHistory ==
  ASSUME AllEnd, NEW v \in VersionIds, NEW k \in StepKeys, attempts'[v][k] # attempts[v][k]
  PROVE  /\ v = active /\ k \in RunningKeys /\ attempts[v][k].st = "running"
         /\ attempts'[v][k].n = attempts[v][k].n /\ attempts'[v][k].from = attempts[v][k].from
         /\ attempts'[v][k].st # "running"
<1>1. v = active /\ k \in RunningKeys
  BY DEF AllEnd
<1> QED BY <1>1 DEF AllEnd, RunningKeys, Latest

\* One that starts.
LEMMA StartedHistory ==
  ASSUME Store, NEW j, Starts(j), NEW v \in VersionIds, NEW k \in StepKeys,
         attempts'[v][k] # attempts[v][k]
  PROVE  /\ v = active /\ k = j /\ attempts[v][k].st \in {"none", "failed_retryable"}
         /\ attempts'[v][k].n = attempts[v][k].n + 1 /\ attempts'[v][k].st = "running"
<1>1. Rows /\ Table /\ Runs
  BY DEF Store, Starts
<1>2. active \in VersionIds /\ InOrder(Steps) /\ j \in Keys(Steps)
  BY <1>1, RunHasPlan DEF Starts
<1>3. j \in StepKeys
  BY <1>2, DepsAreKeys
<1>4. PICK n, x : n = attempts[active][j].n + 1 /\ x = Attempt(n, "running", 0)
  OBVIOUS
<1>5. x.n = n /\ x.st = "running"
  BY <1>4 DEF Attempt
<1>6. /\ attempts'[active][j] = x
      /\ \A u \in VersionIds, i \in StepKeys : u # active \/ i # j => attempts'[u][i] = attempts[u][i]
  <2>1. attempts' = [attempts EXCEPT ![active][j] = x]
    BY <1>4 DEF Starts, create_step_attempt, Latest
  <2>2. attempts \in [VersionIds -> [StepKeys -> Attempts]]
    BY <1>1 DEF Table
  <2> QED BY <1>2, <1>3, <2>1, <2>2, SMT
<1>7. v = active /\ k = j
  BY <1>6
<1>8. attempts[active][j].st \in {"none", "failed_retryable"}
  BY DEF Starts, is_plan_step_ready, Latest
<1> QED BY <1>4, <1>5, <1>6, <1>7, <1>8

\* The steps that change attempts.
LEMMA AttemptSteps ==
  ASSUME Store, StoreStep, attempts' # attempts
  PROVE  Cancels \/ Reuses \/ (\E k : Starts(k)) \/ (\E k, s : Ends(k, s))
BY DEF StoreStep, KeepsStore, Proposes, Approves, Rejects, Revises, Replans

LEMMA HistoryStep ==
  ASSUME Store, StoreStep, NEW v \in VersionIds, NEW k \in StepKeys, attempts'[v][k] # attempts[v][k]
  PROVE  \/ /\ attempts[v][k].st = "running" /\ attempts'[v][k].n = attempts[v][k].n
            /\ attempts'[v][k].from = attempts[v][k].from /\ attempts'[v][k].st # "running"
         \/ /\ attempts[v][k].st \in {"none", "failed_retryable"}
            /\ attempts'[v][k].n = attempts[v][k].n + 1
            /\ attempts'[v][k].st \in {"running", "succeeded"}
<1>1. attempts' # attempts
  OBVIOUS
<1>2. CASE Cancels \/ \E i, s : Ends(i, s)
  <2>1. AllEnd
    BY <1>2, CancelsIsEnd, EndsIsEnd
  <2> QED BY <2>1, EndedHistory
<1>3. CASE \E i : Starts(i)
  <2>1. PICK i : Starts(i)
    BY <1>3
  <2>2. /\ attempts[v][k].st \in {"none", "failed_retryable"}
        /\ attempts'[v][k].n = attempts[v][k].n + 1 /\ attempts'[v][k].st = "running"
    <3>1. Store /\ attempts'[v][k] # attempts[v][k] /\ v \in VersionIds /\ k \in StepKeys
      OBVIOUS
    <3> QED BY ONLY <2>1, <3>1, StartedHistory, SMT
  <2> QED BY <2>2
<1>4. CASE Reuses
  <2>1. /\ v = active /\ Shown(attempts'[active], k) /\ attempts'[v][k].n = 1
        /\ attempts'[v][k].st = "succeeded"
    BY <1>4, ReusesIs
  <2>2. attempts[v][k].n = 0
    BY <2>1 DEF Shown, Latest
  <2>3. attempts[v][k].st = "none"
    <3>1. Settled(versions, attempts, v, k)
      BY Typed DEF Store
    <3> QED BY <2>2, <3>1 DEF Settled
  <2>4. attempts'[v][k].n = attempts[v][k].n + 1
    BY <2>1, <2>2, SMT
  <2> QED BY <2>1, <2>3, <2>4
<1> QED BY <1>1, <1>2, <1>3, <1>4, AttemptSteps

\* A step within a run.
LEMMA WithinRun ==
  ASSUME PlansInv, [Next]_vars, runs' = runs
  PROVE  /\ Store /\ StoreStep
         /\ (\E t \in Tasks : Acts(t)) \/ Rests
<1>1. Store /\ runs \in Nat
  BY DEF PlansInv, Store
<1>2. ASSUME NEW t \in Tasks, rerun_plan(t)
      PROVE  FALSE
  <2>1. runs' = runs + 1
    BY <1>2 DEF rerun_plan, start_approved_plan_run_with_checkpoint
  <2> QED BY ONLY <1>1, <2>1, runs' = runs, SMT
<1> QED BY <1>1, <1>2, EveryStep DEF TaskMove

\* Within a run an attempt that has ended is never written again: whoever
\* crashes, is recovered or comes late, a row goes from running to one end, and
\* a step is tried again only under the next number after a retryable failure.
THEOREM HistoryKept == Spec => AttemptHistory
<1>1. ASSUME PlansInv, [Next]_vars, runs' = runs, NEW v \in VersionIds, NEW k \in StepKeys,
             attempts'[v][k] # attempts[v][k]
      PROVE  \/ /\ attempts[v][k].st = "running" /\ attempts'[v][k].n = attempts[v][k].n
                /\ attempts'[v][k].from = attempts[v][k].from /\ attempts'[v][k].st # "running"
             \/ /\ attempts[v][k].st \in {"none", "failed_retryable"}
                /\ attempts'[v][k].n = attempts[v][k].n + 1
                /\ attempts'[v][k].st \in {"running", "succeeded"}
  <2>1. Store /\ StoreStep
    BY <1>1, WithinRun
  <2> QED BY <1>1, <2>1, HistoryStep
<1>2. PlansInv /\ [Next]_vars =>
        [runs' = runs =>
           \A v \in VersionIds, k \in StepKeys :
             LET old == attempts[v][k]
                 new == attempts'[v][k]
             IN new # old =>
                  \/ old.st = "running" /\ new.n = old.n /\ new.from = old.from /\ new.st # "running"
                  \/ old.st \in {"none", "failed_retryable"} /\ new.n = old.n + 1
                     /\ new.st \in {"running", "succeeded"}]_vars
  BY <1>1
<1> QED BY <1>2, PlansInvariant, PTL DEF Spec, AttemptHistory

\* What a recorded cancellation forbids.
LEMMA CancelledStops ==
  ASSUME Store, StoreStep, run.cancel
  PROVE  /\ run'.status # "completed" \/ run.status = "completed"
         /\ \A v \in VersionIds, k \in StepKeys : attempts'[v][k] # attempts[v][k] =>
              attempts'[v][k].st \notin {"running", "succeeded"}
<1>1. ~Reuses /\ ~(\E k : Starts(k)) /\ ~(\E k, s : Ends(k, s)) /\ ~(\E k, d : Replans(k, d))
  BY DEF Reuses, Starts, Ends, Replans
<1>2. run'.status # "completed" \/ run.status = "completed"
  <2>1. CASE KeepsStore \/ Cancels
    <3>1. RunStep
      BY <2>1, CancelsRow DEF KeepsStore, Store
    <3> QED BY <3>1 DEF RunStep
  <2>2. CASE ~(KeepsStore \/ Cancels)
    <3>1. \E s \in {"awaiting_user", "resuming", "cancelled"} : \E c : run' = RunRow(s, c, "live")
      BY <1>1, <2>2 DEF StoreStep, Proposes, Approves, Rejects, Revises
    <3>2. \A s, c : RunRow(s, c, "live").status = s
      BY DEF RunRow
    <3> QED BY <3>1, <3>2
  <2> QED BY <2>1, <2>2
<1>3. ASSUME NEW v \in VersionIds, NEW k \in StepKeys, attempts'[v][k] # attempts[v][k]
      PROVE  attempts'[v][k].st \notin {"running", "succeeded"}
  <2>1. Cancels
    BY <1>1, <1>3, AttemptSteps
  <2>2. AllEnd /\ \A j \in RunningKeys : attempts'[active][j].st = "cancelled"
    BY <2>1, CancelsIsEnd
  <2>3. v = active /\ k \in RunningKeys
    BY <1>3, <2>2, EndedHistory
  <2> QED BY <2>2, <2>3
<1> QED BY <1>2, <1>3

\* Once a cancellation is recorded nothing starts, succeeds or completes
\* (lock_run_for_execution, cancel_at_boundary), and an executor whose lease was
\* taken over never writes an attempt, a checkpoint, a plan version or the run's
\* status, however late it comes and however often it is overtaken.
THEOREM StoppedWritesNothing == Spec => StoppedNeverWrites
<1>1. ASSUME PlansInv, [Next]_vars, runs' = runs
      PROVE  /\ run.cancel =>
                  /\ run'.status # "completed" \/ run.status = "completed"
                  /\ \A v \in VersionIds, k \in StepKeys :
                       attempts'[v][k] # attempts[v][k] =>
                         attempts'[v][k].st \notin {"running", "succeeded"}
             /\ Writes => \A t \in Tasks : task'[t] # task[t] => handle[t] # "fenced"
  <2>1. Store /\ StoreStep /\ ((\E t \in Tasks : Acts(t)) \/ Rests)
    BY <1>1, WithinRun
  <2>2. ASSUME Writes
        PROVE  \A t \in Tasks : task'[t] # task[t] => handle[t] # "fenced"
    <3>1. CASE Rests
      BY <3>1 DEF Rests
    <3>2. ASSUME NEW t \in Tasks, Acts(t)
          PROVE  \A s \in Tasks : task'[s] # task[s] => handle[s] # "fenced"
      <4>1. handle[t] # "fenced"
        BY <2>2, <3>2 DEF Acts
      <4>2. \A s \in Tasks : s # t => task'[s] = task[s]
        BY <1>1, <3>2, ActsKeepsLocals DEF PlansInv
      <4> QED BY <4>1, <4>2
    <3> QED BY <2>1, <3>1, <3>2
  <2> QED BY <2>1, <2>2, CancelledStops
<1>2. PlansInv /\ [Next]_vars =>
        [runs' = runs =>
           /\ run.cancel =>
                /\ run'.status # "completed" \/ run.status = "completed"
                /\ \A v \in VersionIds, k \in StepKeys :
                     attempts'[v][k] # attempts[v][k] =>
                       attempts'[v][k].st \notin {"running", "succeeded"}
           /\ attempts' # attempts \/ plan' # plan \/ ckpt' # ckpt \/ run'.status # run.status =>
                \A t \in Tasks : task'[t] # task[t] => handle[t] # "fenced"]_vars
  BY <1>1 DEF Writes
<1> QED BY <1>2, PlansInvariant, PTL DEF Spec, StoppedNeverWrites

-----------------------------------------------------------------------------
(* The plan as its user sees it *)

\* The stage a run row r and a plan row p show, and the steps under way in att.
StageOf(r, p) ==
  IF r.status = "absent" THEN "absent"
  ELSE IF r.status \in TERMINAL_RUN_STATUSES THEN "over"
  ELSE IF p.status = "awaiting_approval" THEN "review" ELSE "executing"

BusyOf(r, att) ==
  IF r.status \in ActiveRunStatuses
  THEN {vk \in VersionIds \X StepKeys : att[vk[1]][vk[2]].st = "running"} ELSE {}

LEMMA Stages ==
  ASSUME NEW r, NEW p
  PROVE  /\ r.status = "absent" => StageOf(r, p) = "absent"
         /\ r.status \in TERMINAL_RUN_STATUSES => StageOf(r, p) = "over"
         /\ r.status \in ActiveRunStatuses /\ p.status = "awaiting_approval" => StageOf(r, p) = "review"
         /\ r.status \in ActiveRunStatuses /\ p.status # "awaiting_approval" => StageOf(r, p) = "executing"
<1>1. r.status \in TERMINAL_RUN_STATUSES => r.status # "absent"
  BY DEF TERMINAL_RUN_STATUSES
<1>2. r.status \in ActiveRunStatuses => r.status # "absent" /\ r.status \notin TERMINAL_RUN_STATUSES
  BY DEF ActiveRunStatuses, TERMINAL_RUN_STATUSES
<1> QED BY <1>1, <1>2 DEF StageOf

LEMMA BusyNone ==
  ASSUME NEW r, NEW att,
         \/ r.status \notin ActiveRunStatuses
         \/ \A v \in VersionIds, k \in StepKeys : att[v][k].st # "running"
  PROVE  BusyOf(r, att) = {}
<1>1. \A vk \in VersionIds \X StepKeys : vk[1] \in VersionIds /\ vk[2] \in StepKeys
  OBVIOUS
<1> QED BY <1>1 DEF BusyOf

LEMMA BusyOne ==
  ASSUME NEW r, NEW att, r.status \in ActiveRunStatuses,
         NEW v \in VersionIds, NEW k \in StepKeys, att[v][k].st = "running",
         \A u \in VersionIds, j \in StepKeys : att[u][j].st = "running" => u = v /\ j = k
  PROVE  BusyOf(r, att) = {<<v, k>>}
<1>1. PICK b : b = <<v, k>>
  OBVIOUS
<1>2. b \in VersionIds \X StepKeys /\ b[1] = v /\ b[2] = k
  BY <1>1, SMT
<1>3. \A vk \in VersionIds \X StepKeys : vk[1] \in VersionIds /\ vk[2] \in StepKeys /\ vk = <<vk[1], vk[2]>>
  BY SMT
<1>4. \A vk \in VersionIds \X StepKeys : att[vk[1]][vk[2]].st = "running" => vk = b
  <2> SUFFICES ASSUME NEW vk \in VersionIds \X StepKeys, att[vk[1]][vk[2]].st = "running"
               PROVE  vk = b
    OBVIOUS
  <2>1. vk[1] = v /\ vk[2] = k
    BY <1>3
  <2> QED BY <1>1, <1>3, <2>1
<1>5. att[b[1]][b[2]].st = "running"
  BY <1>2
<1>6. \A vk : vk \in BusyOf(r, att) <=> vk = b
  BY <1>2, <1>4, <1>5 DEF BusyOf
<1> QED BY <1>1, <1>6

\* The abstract step a change of rows is.
LEMMA Unseen ==
  ASSUME StageOf(run', plan') = StageOf(run, plan), plan'.current = plan.current,
         plan'.approved = plan.approved, BusyOf(run', attempts') = BusyOf(run, attempts)
  PROVE  UNCHANGED Review!reviewVars
BY DEF StageOf, BusyOf, Review!reviewVars

LEMMA Over ==
  ASSUME StageOf(run, plan) \in {"review", "executing"}, StageOf(run', plan') = "over",
         plan'.current = plan.current, plan'.approved = plan.approved,
         BusyOf(run', attempts') = {},
         StageOf(run, plan) = "review" => BusyOf(run, attempts) = {}
  PROVE  Review!ReviewNext
<1>1. CASE StageOf(run, plan) = "review"
  BY <1>1 DEF StageOf, BusyOf, Review!Decline, Review!ReviewNext
<1>2. CASE StageOf(run, plan) = "executing"
  BY <1>2 DEF StageOf, BusyOf, Review!Finish, Review!ReviewNext
<1> QED BY <1>1, <1>2

LEMMA SeenKept ==
  ASSUME Store, KeepsStore
  PROVE  Review!ReviewNext \/ UNCHANGED Review!reviewVars
<1>1. /\ Rows /\ Alone /\ RunStep /\ plan' = plan /\ attempts' = attempts
  BY DEF Store, KeepsStore
<1>2. CASE run'.status = run.status \/ (Runs /\ run'.status \in ActiveRunStatuses)
  <2>1. StageOf(run', plan') = StageOf(run, plan)
    <3>1. CASE run'.status = run.status
      BY <1>1, <3>1 DEF StageOf
    <3>2. CASE Runs /\ run'.status \in ActiveRunStatuses
      BY <1>1, <3>2, Stages DEF Runs
    <3> QED BY <1>2, <3>1, <3>2
  <2>2. run'.status \in ActiveRunStatuses <=> run.status \in ActiveRunStatuses
    BY <1>2 DEF Runs
  <2>3. BusyOf(run', attempts') = BusyOf(run, attempts)
    BY <1>1, <2>2 DEF BusyOf
  <2> QED BY <1>1, <2>1, <2>3, Unseen
<1>3. CASE Runs /\ run'.status \in TERMINAL_RUN_STATUSES
  <2>1. StageOf(run', plan') = "over" /\ StageOf(run, plan) \in {"review", "executing"}
    BY <1>3, Stages DEF Runs
  <2>2. run'.status \notin ActiveRunStatuses
    BY <1>3 DEF ActiveRunStatuses, TERMINAL_RUN_STATUSES
  <2>3. BusyOf(run', attempts') = {}
    BY <2>2, BusyNone
  <2>4. StageOf(run, plan) = "review" => BusyOf(run, attempts) = {}
    <3>1. StageOf(run, plan) = "review" => plan.status = "awaiting_approval"
      BY <1>3, Stages DEF Runs
    <3> QED BY <1>1, <3>1, StillReviewed, BusyNone DEF Still
  <2> QED BY <1>1, <2>1, <2>3, <2>4, Over
<1> QED BY <1>1, <1>2, <1>3 DEF RunStep, Runs, RunStatus

\* While a run executes under an approved plan its stage is "executing".
LEMMA SeenExecuting ==
  ASSUME Rows, Runs, plan.status # "awaiting_approval"
  PROVE  StageOf(run, plan) = "executing"
BY Stages DEF Runs

LEMMA SeenStarts ==
  ASSUME Store, NEW j, Starts(j)
  PROVE  Review!ReviewNext
<1>1. /\ Rows /\ Table /\ Alone /\ Runs /\ KeepsPlan /\ run' = run /\ StepsMayStart
      /\ plan.status = "approved" /\ plan.current = plan.approved /\ plan.approved = active
  BY DEF Store, Starts, ActiveVersionApproved
<1>2. active \in VersionIds /\ InOrder(Steps) /\ j \in Keys(Steps)
  BY <1>1, RunHasPlan DEF Starts
<1>3. j \in StepKeys
  BY <1>2, DepsAreKeys
<1>4. Still
  <2> SUFFICES ASSUME NEW v \in VersionIds, NEW k \in StepKeys, attempts[v][k].st = "running"
               PROVE  FALSE
    BY DEF Still
  <2>1. v = active
    BY <1>1 DEF Alone
  <2>2. Settled(versions, attempts, v, k) /\ attempts[v][k].st # "none"
    BY <1>1, Typed
  <2>3. attempts[v][k].n \in Nat
    BY <1>1, Typed
  <2>4. attempts[v][k].n > 0
    <3>1. attempts[v][k].n # 0
      BY <2>2 DEF Settled
    <3> QED BY ONLY <2>3, <3>1, SMT
  <2>5. k \in Keys(Steps)
    BY <2>1, <2>2, <2>4 DEF Settled, Steps
  <2> QED BY <1>1, <2>1, <2>5 DEF StepsMayStart, Latest
<1>5. attempts'[active][j].st = "running"
  <2>1. PICK n, x : n = attempts[active][j].n + 1 /\ x = Attempt(n, "running", 0)
    OBVIOUS
  <2>2. x.st = "running"
    BY <2>1 DEF Attempt
  <2>3. attempts' = [attempts EXCEPT ![active][j] = x]
    BY <2>1 DEF Starts, create_step_attempt, Latest
  <2>4. attempts \in [VersionIds -> [StepKeys -> Attempts]]
    BY <1>1 DEF Table
  <2>5. attempts'[active][j] = x
    BY <1>2, <1>3, <2>3, <2>4, SMT
  <2> QED BY <2>2, <2>5
<1>6. ASSUME NEW v \in VersionIds, NEW k \in StepKeys, attempts'[v][k].st = "running"
      PROVE  v = active /\ k = j
  <2>1. attempts'[v][k] # attempts[v][k]
    BY <1>4, <1>6 DEF Still
  <2> QED BY <1>6, <2>1, StartedHistory, SMT
<1>7. BusyOf(run', attempts') = {<<active, j>>}
  <2>1. run'.status \in ActiveRunStatuses
    BY <1>1 DEF Runs
  <2>2. \A u \in VersionIds, i \in StepKeys : attempts'[u][i].st = "running" => u = active /\ i = j
    BY <1>6
  <2> QED BY ONLY <1>2, <1>3, <1>5, <2>1, <2>2, BusyOne, SMT
<1>8. BusyOf(run, attempts) = {}
  BY <1>4, BusyNone DEF Still
<1>9. StageOf(run, plan) = "executing" /\ StageOf(run', plan') = "executing"
  BY <1>1, SeenExecuting DEF KeepsPlan
<1>10. PICK b : b = <<plan.current, j>> /\ BusyOf(run', attempts') = {b}
  BY <1>1, <1>7
<1>11. plan'.current = plan.current /\ plan'.approved = plan.approved
  BY <1>1 DEF KeepsPlan
<1>12. Review!StartStep
  BY <1>1, <1>3, <1>7, <1>8, <1>9, <1>11 DEF StageOf, BusyOf, Review!StartStep
<1> QED BY <1>12 DEF Review!ReviewNext

LEMMA AllEnded ==
  ASSUME Alone, AllEnd
  PROVE  \A v \in VersionIds, k \in StepKeys : attempts'[v][k].st # "running"
<1> SUFFICES ASSUME NEW v \in VersionIds, NEW k \in StepKeys, attempts'[v][k].st = "running"
             PROVE  FALSE
  OBVIOUS
<1>1. CASE attempts'[v][k] = attempts[v][k]
  <2>1. attempts[v][k].st = "running" /\ v = active
    BY <1>1 DEF Alone
  <2>2. k \in RunningKeys
    BY <2>1 DEF RunningKeys, Latest
  <2> QED BY <2>1, <2>2 DEF AllEnd
<1>2. CASE attempts'[v][k] # attempts[v][k]
  BY <1>2, EndedHistory
<1> QED BY <1>1, <1>2

LEMMA SeenEnds ==
  ASSUME Store, NEW k, NEW s, Ends(k, s)
  PROVE  Review!ReviewNext
<1>1. Alone /\ AllEnd /\ active \in VersionIds /\ k \in StepKeys /\ attempts[active][k].st = "running"
  BY EndsIsEnd DEF Store, Ends, RunningKeys, Latest
<1>2. BusyOf(run', attempts') = {}
  BY <1>1, AllEnded, BusyNone
<1>3. <<active, k>> \in BusyOf(run, attempts)
  <2>1. PICK b : b = <<active, k>>
    OBVIOUS
  <2>2. b \in VersionIds \X StepKeys /\ b[1] = active /\ b[2] = k
    BY <1>1, <2>1, SMT
  <2>3. run.status \in ActiveRunStatuses
    BY DEF Ends, Runs
  <2> QED BY <1>1, <2>1, <2>2, <2>3 DEF BusyOf
<1>4. BusyOf(run, attempts) # {}
  BY <1>3
<1>5. /\ plan'.current = plan.current /\ plan'.approved = plan.approved
      /\ StageOf(run', plan') = StageOf(run, plan)
  BY DEF Ends, KeepsPlan
<1>6. Review!EndStep
  BY <1>2, <1>4, <1>5 DEF StageOf, BusyOf, Review!EndStep
<1> QED BY <1>6 DEF Review!ReviewNext

\* A run that executes is cancelled, or one that is reviewed is declined.
LEMMA SeenCancelled ==
  ASSUME Store, Runs, NEW c, run' = RunRow("cancelled", c, "live"),
         plan'.current = plan.current, plan'.approved = plan.approved
  PROVE  Review!ReviewNext
<1>1. run'.status = "cancelled"
  BY DEF RunRow
<1>2. run'.status \in TERMINAL_RUN_STATUSES /\ run'.status \notin ActiveRunStatuses
  BY <1>1 DEF TERMINAL_RUN_STATUSES, ActiveRunStatuses
<1>3. StageOf(run', plan') = "over" /\ BusyOf(run', attempts') = {}
  BY <1>2, Stages, BusyNone
<1>4. /\ StageOf(run, plan) \in {"review", "executing"}
      /\ StageOf(run, plan) = "review" => plan.status = "awaiting_approval"
  BY Stages DEF Runs
<1>5. StageOf(run, plan) = "review" => BusyOf(run, attempts) = {}
  BY <1>4, StillReviewed, BusyNone DEF Still, Store
<1> QED BY <1>3, <1>4, <1>5, Over

LEMMA SeenReuses ==
  ASSUME Store, Reuses
  PROVE  UNCHANGED Review!reviewVars
<1>1. ASSUME NEW v \in VersionIds, NEW k \in StepKeys
      PROVE  attempts'[v][k].st = "running" <=> attempts[v][k].st = "running"
  <2>1. CASE attempts'[v][k] = attempts[v][k]
    BY <2>1
  <2>2. CASE attempts'[v][k] # attempts[v][k]
    <3>1. v = active /\ Shown(attempts'[active], k) /\ attempts'[v][k].st = "succeeded"
      BY <2>2, ReusesIs
    <3>2. attempts[v][k].n = 0
      BY <3>1 DEF Shown, Latest
    <3>3. Settled(versions, attempts, v, k)
      BY Typed DEF Store
    <3>4. attempts[v][k].st = "none"
      BY <3>2, <3>3 DEF Settled
    <3> QED BY <3>1, <3>4
  <2> QED BY <2>1, <2>2
<1>2. run' = run /\ plan' = plan
  BY DEF Reuses, KeepsPlan
<1>3. \A vk \in VersionIds \X StepKeys :
        attempts'[vk[1]][vk[2]].st = "running" <=> attempts[vk[1]][vk[2]].st = "running"
  <2>1. \A vk \in VersionIds \X StepKeys : vk[1] \in VersionIds /\ vk[2] \in StepKeys
    OBVIOUS
  <2> QED BY <1>1, <2>1
<1>4. \A x : x \in BusyOf(run', attempts') <=> x \in BusyOf(run, attempts)
  BY <1>2, <1>3 DEF BusyOf
<1>5. BusyOf(run', attempts') = BusyOf(run, attempts)
  BY <1>4
<1>6. StageOf(run', plan') = StageOf(run, plan)
  BY <1>2
<1> QED BY <1>2, <1>5, <1>6, Unseen

\* The plan is proposed and its run waits.
LEMMA SeenProposes ==
  ASSUME Store, NEW d, Proposes(d)
  PROVE  Review!ReviewNext
<1>1. Rows /\ run.status = "absent" /\ plan.status = "absent" /\ plan.approved = 0
  BY DEF Store, Proposes, Rows
<1>2. PICK s, c, n, z : s = "awaiting_approval" /\ c = 1 /\ n = 1 /\ z = 0
  OBVIOUS
<1>3. PlanIs(plan', s, n, z, c)
  BY <1>2, PlanFields DEF Proposes, create, PlanOf
<1>4. plan'.status = "awaiting_approval" /\ plan'.current = 1 /\ plan'.approved = 0
  BY <1>2, <1>3 DEF PlanIs
<1>5. run'.status \in ActiveRunStatuses
  <2>1. run'.status = "awaiting_user"
    BY DEF Proposes, RunRow
  <2> QED BY <2>1 DEF ActiveRunStatuses
<1>6. StageOf(run, plan) = "absent" /\ StageOf(run', plan') = "review"
  BY <1>1, <1>4, <1>5, Stages
<1>7. BusyOf(run, attempts) = {}
  <2>1. run.status \notin ActiveRunStatuses
    BY <1>1 DEF ActiveRunStatuses
  <2> QED BY <2>1, BusyNone
<1>8. Still
  <2>1. ASSUME NEW v \in VersionIds, NEW k \in StepKeys, attempts[v][k].st = "running"
        PROVE  FALSE
    <3>1. Table /\ Alone /\ active = 0
      BY <1>1 DEF Store, Rows
    <3>2. v = 0
      BY <2>1, <3>1 DEF Alone
    <3> QED BY ONLY <3>2, v \in VersionIds, PlanConstants, SMT DEF VersionIds
  <2> QED BY <2>1 DEF Still
<1>9. BusyOf(run', attempts') = {}
  BY <1>8, BusyNone DEF Still, Proposes
<1>10. Review!Propose
  BY <1>1, <1>4, <1>6, <1>7, <1>9 DEF StageOf, BusyOf, Review!Propose
<1> QED BY <1>10 DEF Review!ReviewNext

\* The current version is approved and its run goes on.
LEMMA SeenApproves ==
  ASSUME Store, NEW id, NEW v, NEW c, Approves(id, v, c)
  PROVE  Review!ReviewNext
<1>1. PICK a : a = "approve"
  OBVIOUS
<1>2. id \in DecisionIds /\ a \in {"approve", "reject"} /\ record_decision(id, a, v, c)
  BY <1>1 DEF Approves
<1>3. /\ plan.status = "awaiting_approval" /\ plan'.status = "approved"
      /\ plan'.current = plan.current /\ plan'.approved = plan.current
  BY <1>1, <1>2, Recorded DEF PlanIs
<1>4. run.status \in ActiveRunStatuses /\ run'.status \in ActiveRunStatuses
  <2>1. run.status = "awaiting_user" /\ run'.status = "resuming"
    BY DEF Approves, RunRow
  <2> QED BY <2>1 DEF ActiveRunStatuses
<1>5. StageOf(run, plan) = "review" /\ StageOf(run', plan') = "executing"
  BY <1>3, <1>4, Stages
<1>6. Still
  BY <1>3, StillReviewed DEF Store
<1>7. BusyOf(run, attempts) = {} /\ BusyOf(run', attempts') = {}
  BY <1>6, BusyNone DEF Still, Approves
<1>8. Review!ApproveVersion
  BY <1>3, <1>5, <1>7 DEF StageOf, BusyOf, Review!ApproveVersion
<1> QED BY <1>8 DEF Review!ReviewNext

\* The current version is rejected and its run is cancelled.
LEMMA SeenRejects ==
  ASSUME Store, NEW id, NEW v, NEW c, Rejects(id, v, c)
  PROVE  Review!ReviewNext
<1>1. PICK a : a = "reject"
  OBVIOUS
<1>2. id \in DecisionIds /\ a \in {"approve", "reject"} /\ record_decision(id, a, v, c)
  BY <1>1 DEF Rejects
<1>3. plan'.current = plan.current /\ plan'.approved = plan.approved
  BY <1>1, <1>2, Recorded DEF PlanIs
<1>4. Runs
  BY DEF Rejects, Runs, ActiveRunStatuses
<1> QED BY <1>3, <1>4, SeenCancelled DEF Rejects

\* A version is appended while nothing is under way.
LEMMA SeenAppended ==
  ASSUME Store, Still, Runs, NEW d \in Valid, append_version(d), plan.current - 1 < MaxRevisions,
         UNCHANGED attempts, NEW x, run' = RunRow("awaiting_user", x, "live")
  PROVE  Review!ReviewNext
<1>1. Rows /\ plan.status # "absent"
  BY RunHasPlan DEF Store
<1>2. /\ plan'.status = "awaiting_approval" /\ plan'.current = plan.current + 1
      /\ plan'.approved = plan.approved
  BY <1>1, Appended DEF PlanIs
<1>3. run'.status \in ActiveRunStatuses
  <2>1. run'.status = "awaiting_user"
    BY DEF RunRow
  <2> QED BY <2>1 DEF ActiveRunStatuses
<1>4. StageOf(run', plan') = "review"
  BY <1>2, <1>3, Stages
<1>5. BusyOf(run, attempts) = {} /\ BusyOf(run', attempts') = {}
  BY BusyNone DEF Still
<1>6. CASE StageOf(run, plan) = "review"
  <2>1. Review!ReviseVersion
    BY <1>2, <1>4, <1>5, <1>6 DEF StageOf, BusyOf, Review!ReviseVersion
  <2> QED BY <2>1 DEF Review!ReviewNext
<1>7. CASE StageOf(run, plan) = "executing"
  <2>1. Review!ReplanVersion
    BY <1>2, <1>4, <1>5, <1>7 DEF StageOf, BusyOf, Review!ReplanVersion
  <2> QED BY <2>1 DEF Review!ReviewNext
<1> QED BY <1>6, <1>7, Stages DEF Runs

LEMMA SeenRevises ==
  ASSUME Store, NEW id, NEW v, NEW c, NEW d, Revises(id, v, c, d)
  PROVE  Review!ReviewNext
<1>1. plan.status = "awaiting_approval"
  BY DEF Revises, begin_revision_decision, CurrentDecisionTarget
<1>2. Still
  BY <1>1, StillReviewed DEF Store
<1>3. Runs
  BY DEF Revises, Runs, ActiveRunStatuses
<1> QED BY <1>2, <1>3, SeenAppended DEF Revises

LEMMA SeenReplans ==
  ASSUME Store, NEW k, NEW d, Replans(k, d)
  PROVE  Review!ReviewNext
BY ReplansKeepsStore, SeenAppended DEF Replans

\* The approved version is run again.
LEMMA SeenReruns ==
  ASSUME Store, Reruns
  PROVE  Review!ReviewNext
<1>1. /\ run.status \in TERMINAL_RUN_STATUSES /\ run.status \notin ActiveRunStatuses
      /\ plan' = plan /\ plan.status = "approved" /\ plan.approved = plan.current
  BY DEF Reruns, TERMINAL_RUN_STATUSES, ActiveRunStatuses
<1>2. run'.status \in ActiveRunStatuses
  <2>1. run'.status = "running"
    BY DEF Reruns, RunRow
  <2> QED BY <2>1 DEF ActiveRunStatuses
<1>3. StageOf(run, plan) = "over" /\ StageOf(run', plan') = "executing"
  BY <1>1, <1>2, Stages
<1>4. BusyOf(run, attempts) = {}
  BY <1>1, BusyNone
<1>5. BusyOf(run', attempts') = {}
  <2>1. \A v \in VersionIds, k \in StepKeys : attempts'[v][k].st = "none"
    BY NothingAttempted DEF Reruns
  <2> QED BY <2>1, BusyNone
<1>6. Review!Rerun
  BY <1>1, <1>3, <1>4, <1>5 DEF StageOf, BusyOf, Review!Rerun
<1> QED BY <1>6 DEF Review!ReviewNext

LEMMA SeenStep ==
  ASSUME Store, StoreStep
  PROVE  Review!ReviewNext \/ UNCHANGED Review!reviewVars
<1>1. CASE Cancels
  BY <1>1, SeenCancelled DEF Cancels, KeepsPlan
<1>2. CASE KeepsStore
  BY <1>2, SeenKept
<1> QED BY <1>1, <1>2, SeenReuses, SeenStarts, SeenEnds, SeenProposes, SeenApproves, SeenRejects,
           SeenRevises, SeenReplans DEF StoreStep

LEMMA SeenInit ==
  ASSUME Init
  PROVE  Review!ReviewInit
<1>1. run.status = "absent" /\ plan.current = 0 /\ plan.approved = 0
  <2>1. run.status = "absent"
    BY DEF Init, FenceInit, RunRow
  <2> QED BY <2>1 DEF Init
<1>2. run.status \notin ActiveRunStatuses
  BY <1>1 DEF ActiveRunStatuses
<1>3. StageOf(run, plan) = "absent" /\ BusyOf(run, attempts) = {}
  BY <1>1, <1>2, Stages, BusyNone
<1> QED BY <1>1, <1>3 DEF StageOf, BusyOf, Review!ReviewInit

\* Decisions, executors, recovery, cancellation and reruns together implement
\* PlanReview: what is executed is the approved current version, one step at a
\* time, a version is appended and a plan rerun only when nothing is under way,
\* and nothing else is ever seen to happen to a plan.
THEOREM PlansImplementReview == Spec => ImplementsReview
<1>1. ASSUME PlansInv, [Next]_vars
      PROVE  Review!ReviewNext \/ UNCHANGED Review!reviewVars
  <2>1. Store
    BY <1>1 DEF PlansInv, Store
  <2>2. ASSUME NEW t \in Tasks, rerun_plan(t)
        PROVE  Review!ReviewNext
    BY <1>1, <2>1, <2>2, RerunKeepsLocals, SeenReruns
  <2>3. StoreStep \/ \E t \in Tasks : rerun_plan(t)
    BY <1>1, EveryStep DEF TaskMove
  <2> QED BY <2>1, <2>2, <2>3, SeenStep
<1>2. PlansInv /\ [Next]_vars => [Review!ReviewNext]_(Review!reviewVars)
  BY <1>1
<1> QED BY <1>2, SeenInit, PlansInvariant, PTL DEF Spec, ImplementsReview, Review!ReviewSpec

=============================================================================
