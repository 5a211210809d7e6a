------------------------------- MODULE Plans -------------------------------
(***************************************************************************)
(* Durable plans: one plan, its immutable versions, the decisions on it,   *)
(* and the run that executes it (planner/service.py, planner/execution.py, *)
(* storage/repositories/plans.py, api/plans.py and the plan half of        *)
(* workflow/recovery.py).                                                  *)
(*                                                                         *)
(* The run row and the tasks' copies of its lease are those of RunFence.   *)
(* `handle` is the task's RunLeaseHandle, `prepared` the lease the step    *)
(* loop or the replanner took from it and goes on using.  A task is a live *)
(* stream or a recovery (`rec`, which alone has a heartbeat).  What a step *)
(* does with tools is ToolWorkflow; here it writes one checkpoint and one  *)
(* round unit per execution.  After a rerun the rows are those of the new  *)
(* run: a task of the terminal one can no longer write any.                *)
(***************************************************************************)
EXTENDS RunFence, PlanDrafts

CONSTANTS Answers,         \* what the model may answer: raw drafts, NoDraft
          MaxDecisions,    \* bound: decisions recorded
          RoundBudget,     \* units of model and tool rounds one run may use
          GeneratorReserves, \* does the generator call reserve_round
          MaxRuns, MaxFaults \* bounds: runs of the plan; crashes, cancelled streams, slow holders

ASSUME PlanConstants ==
  /\ MaxRevisions \in Nat /\ MaxStepAttempts \in Nat \ {0}
  /\ MaxDecisions \in Nat /\ RoundBudget \in Nat
  /\ \A d \in Answers : /\ d \in Seq({d[i] : i \in DOMAIN d})
                        /\ \A i \in DOMAIN d : d[i].limit \in Nat

VARIABLES plan,       \* [status, current, approved, cas] of the aggregate
          versions,   \* sequence of validated drafts
          decisions,  \* [DecisionIds -> decision or NoDecision]
          active,     \* active_plan_version of the run
          attempts,   \* [version -> [key -> latest attempt]] of the run
          ckpt,       \* latest checkpoint of the run
          rounds,     \* units the run has used
          task,       \* [Tasks -> local state]
          runs, faults

planVars == <<plan, versions, decisions, active, attempts, ckpt, rounds, task, runs, faults>>
vars == <<fenceVars, planVars>>

StepKeys == UNION {Keys(d) : d \in Answers}
VersionIds == 1..(MaxRevisions + 1)
GeneratedDrafts == {PlanGenerator_generate(x, y) : x, y \in Answers}
DecisionIds == 1..MaxDecisions   \* ids clients choose; used in order, names carry no meaning
NoDecision == [action |-> "none", version |-> 0, cas |-> 0]
NoKey == "none"

PlanStatus == {"absent", "awaiting_approval", "approved", "rejected"}
PlanStepRunStatus ==
  {"none", "running", "succeeded", "failed_retryable", "failed_terminal", "cancelled"}
TERMINAL_PLAN_STEP_STATUSES == {"failed_terminal", "cancelled"}

Attempt(n, st, from) == [n |-> n, st |-> st, from |-> from]   \* from: version reused, or 0
NoAttempts == [v \in VersionIds |-> [k \in StepKeys |-> Attempt(0, "none", 0)]]

Ckpt(phase, k) == [phase |-> phase, key |-> k]
CkptPhases == {"none", "plan_awaiting_approval", "run_started", "dispatch_step", "step_tool",
               "select_next", "final_summary", "plan_replan_required", "run_terminal"}

Idle == [at |-> "idle", k |-> NoKey, n |-> 0, out |-> "none", draft |-> NoDraft, rec |-> FALSE,
         resume |-> FALSE, direct |-> FALSE]

Latest == attempts[active]
Steps == versions[active]
RunningKeys == {k \in StepKeys : Latest[k].st = "running"}
AllSucceeded == \A k \in Keys(Steps) : Latest[k].st = "succeeded"

----------------------------------------------------------------------------
(* Conditions of the repository *)

is_plan_run_executable == run.status \in {"resuming", "running"} /\ ~run.cancel

\* Mutant: the lease is not compared.
ExecutableThoughFenced(copy) == is_plan_run_executable

\* lock_run_for_execution: the lease is current and the run may execute.
Executable(copy) == Current(copy) /\ is_plan_run_executable

\* _require_active_plan_version
ActiveVersionApproved ==
  /\ plan.status = "approved"
  /\ plan.current = plan.approved /\ plan.approved = active

load_executable_plan(copy) == Executable(copy) /\ ActiveVersionApproved

\* The results a step is computed from, each of a succeeded attempt.
DependenciesSucceeded(k) == \A d \in StepOf(Steps, k).deps : Latest[d].st = "succeeded"

is_plan_step_ready(k) ==
  /\ Latest[k].st \in {"none", "failed_retryable"}
  /\ DependenciesSucceeded(k)

AttemptLimit(k) == Min({StepOf(Steps, k).limit, MaxStepAttempts})

\* _require_step_ready: nothing of this version runs or has failed for good.
StepsMayStart ==
  \A k \in Keys(Steps) : Latest[k].st \notin {"running"} \cup TERMINAL_PLAN_STEP_STATUSES

ReadySteps == {i \in DOMAIN Steps : is_plan_step_ready(Steps[i].key)}
choose_ready_step == Steps[Min(ReadySteps)].key

require_unambiguous_decision_history(c) ==
  \A i \in DecisionIds : decisions[i] = NoDecision \/ decisions[i].cas # c

\* Mutant: the aggregate version is not compared.
AnyAggregateVersion(v, c) ==
  /\ plan.status = "awaiting_approval" /\ plan.current = v
  /\ require_unambiguous_decision_history(c)

\* A decision is taken on the current version under the current aggregate
\* version, which carries no decision yet.
CurrentDecisionTarget(v, c) ==
  /\ plan.status = "awaiting_approval"
  /\ plan.current = v /\ plan.cas = c
  /\ require_unambiguous_decision_history(c)

----------------------------------------------------------------------------
\* What a rejected or approved run row becomes, and the final checkpoint.
Terminal(t, s) ==
  /\ FenceFinish(t, s)
  /\ ckpt' = Ckpt("run_terminal", NoKey)
  /\ task' = [task EXCEPT ![t] = Idle]

Goto(t, at) == task' = [task EXCEPT ![t].at = at]

\* The task raises; what catches it ends the run (Fail).
Raise(t) ==
  /\ task' = [task EXCEPT ![t] = [Idle EXCEPT !.at = "failed", !.rec = task[t].rec]]
  /\ FenceForget(t) /\ UNCHANGED <<ckpt, attempts, rounds>>

KeepPlan == UNCHANGED <<plan, versions, decisions, active, runs, faults>>

----------------------------------------------------------------------------
(* Proposal and decisions *)

create(draft) ==
  /\ plan' = [status |-> "awaiting_approval", current |-> 1, approved |-> 0, cas |-> 1]
  /\ versions' = <<draft>>

start_plan_run_with_checkpoint ==
  /\ run' = RunRow("awaiting_user", FALSE, "live")
  /\ active' = 1 /\ runs' = 1
  /\ ckpt' = Ckpt("plan_awaiting_approval", NoKey)
  /\ UNCHANGED <<handle, prepared>>

\* Chat routes the request to the planner: plan, waiting run, checkpoint and
\* reference message in one transaction.
materialize_initial(mode, answer, draft) ==
  /\ run.status = "absent"
  /\ PlanningPolicy_decide(mode, TRUE, answer) = "plan"
  /\ draft # NoDraft
  /\ create(draft)
  /\ start_plan_run_with_checkpoint
  /\ UNCHANGED <<decisions, attempts, rounds, task, faults>>

\* No decision under this id: replay_decision returns nothing.
NewDecision(id) ==
  \A i \in DecisionIds : decisions[i] = NoDecision <=> i >= id

record_decision(id, action, v, c) ==
  /\ NewDecision(id)
  /\ CurrentDecisionTarget(v, c)
  /\ decisions' = [decisions EXCEPT ![id] = [action |-> action, version |-> v, cas |-> c]]
  /\ plan' = IF action = "approve"
             THEN [plan EXCEPT !.status = "approved", !.approved = v, !.cas = c + 1]
             ELSE [plan EXCEPT !.status = "rejected", !.cas = c + 1]

\* The claim of a revision and, in the same transaction, its result.
begin_revision_decision(id, v, c) == NewDecision(id) /\ CurrentDecisionTarget(v, c)

finish_revision_decision(id, v, c) ==
  decisions' = [decisions EXCEPT ![id] = [action |-> "revise", version |-> v, cas |-> c]]

resume_waiting_plan_run(t, v) == FenceResumeWaiting(t) /\ active' = v

cancel_waiting_plan_run ==
  /\ run.status = "awaiting_user"
  /\ run' = RunRow("cancelled", run.cancel, "live")
  /\ handle' = Fenced(handle) /\ prepared' = Fenced(prepared)
  /\ ckpt' = Ckpt("run_terminal", NoKey)

\* The waiting run gets a new token and a checkpoint of the new version.
fence_waiting_plan_run ==
  /\ run.status = "awaiting_user"
  /\ run' = RunRow(run.status, run.cancel, "live")
  /\ handle' = Fenced(handle) /\ prepared' = Fenced(prepared)
  /\ ckpt' = Ckpt("plan_awaiting_approval", NoKey)

\* _resolve with approve: the decision, the plan row and the resumed run in one
\* transaction.  A known id returns the recorded decision and changes nothing.
Approve(t, id, v, c) ==
  /\ task[t] = Idle
  /\ record_decision(id, "approve", v, c)
  /\ resume_waiting_plan_run(t, v)
  /\ task' = [task EXCEPT ![t] = [Idle EXCEPT !.at = "admit"]]
  /\ UNCHANGED <<versions, attempts, ckpt, rounds, runs, faults>>

\* _resolve with reject.
Reject(id, v, c) ==
  /\ record_decision(id, "reject", v, c)
  /\ cancel_waiting_plan_run
  /\ UNCHANGED <<versions, active, attempts, rounds, task, runs, faults>>

\* The scope under which a decision is handled names no run.
locate_context == [session |-> TRUE, run |-> FALSE]

\* Reserving a unit for the generation of a revision raises ValueError when
\* the scope names no run.
reserve_revision_round == GeneratorReserves => locate_context.run

insert_version(draft) == versions' = Append(versions, draft)

\* Mutant: the plan stays approved when a version is appended.
AppendKeepingStatus(draft) ==
  /\ insert_version(draft)
  /\ plan' = [plan EXCEPT !.current = plan.current + 1, !.cas = plan.cas + 1]

append_version(draft) ==
  /\ insert_version(draft)
  /\ plan' = [plan EXCEPT !.status = "awaiting_approval",
                          !.current = plan.current + 1, !.cas = plan.cas + 1]

\* _revise: generated outside any transaction, applied if the target is still
\* current.
Revise(id, v, c, draft) ==
  /\ reserve_revision_round
  /\ draft # NoDraft
  /\ begin_revision_decision(id, v, c)
  /\ plan.current - 1 < MaxRevisions
  /\ append_version(draft)
  /\ fence_waiting_plan_run
  /\ finish_revision_decision(id, v, c)
  /\ UNCHANGED <<active, attempts, rounds, task, runs, faults>>

\* decide: the scope is found from the plan id, a known decision is replayed.
decide(id, v, c) ==
  \/ \E t \in Tasks : Approve(t, id, v, c)
  \/ Reject(id, v, c)
  \/ \E draft \in GeneratedDrafts : Revise(id, v, c, draft)

\* The runtime admits the run, or is closing and the request fails.
BeginRun(t) ==
  /\ task[t].at = "admit"
  /\ \/ Goto(t, "boundary") /\ UNCHANGED <<fenceVars, ckpt>>
     \/ Current(handle[t]) /\ Terminal(t, "cancelled")
     \/ ~Current(handle[t]) /\ FenceDrop(t) /\ task' = [task EXCEPT ![t] = Idle]
        /\ UNCHANGED ckpt
  /\ KeepPlan /\ UNCHANGED <<attempts, rounds>>

\* A fresh run row, with no attempts and no units used.
start_approved_plan_run_with_checkpoint(t) ==
  /\ run' = RunRow("running", FALSE, "live")
  /\ handle' = [s \in Tasks |-> IF s = t THEN "fresh" ELSE "none"]
  /\ prepared' = [s \in Tasks |-> "none"]
  /\ active' = plan.current
  /\ attempts' = NoAttempts /\ rounds' = 0 /\ runs' = runs + 1
  /\ ckpt' = Ckpt("run_started", NoKey)

\* POST /plans/{id}/runs: a new run of the approved current version.
rerun_plan(t) ==
  /\ task[t] = Idle /\ runs < MaxRuns
  /\ plan.status = "approved" /\ plan.approved = plan.current
  /\ run.status \in TERMINAL_RUN_STATUSES
  /\ start_approved_plan_run_with_checkpoint(t)
  /\ task' = [s \in Tasks |-> IF s = t THEN [Idle EXCEPT !.at = "admit"] ELSE Idle]
  /\ UNCHANGED <<plan, versions, decisions, faults>>

----------------------------------------------------------------------------
(* The step loop of _execute_to_boundary *)

create_step_attempt(k, n) == attempts' = [attempts EXCEPT ![active][k] = Attempt(n, "running", 0)]

finish_step_attempt(k, status) == attempts' = [attempts EXCEPT ![active][k].st = status]

\* The attempts of the version once those in a set of steps are cancelled.
cancel_step_attempt(keys) ==
  attempts' = [attempts EXCEPT ![active] =
    [k \in StepKeys |-> IF k \in keys THEN [Latest[k] EXCEPT !.st = "cancelled"] ELSE Latest[k]]]

\* The result document of the superseded version's attempt, under its source.
reuse_document == Attempt(1, "succeeded", active - 1)

create_reused_step_attempt(latest, k) == [latest EXCEPT ![k] = reuse_document]

\* Where raise_if_cancel_requested stands, and where it leads.
Checks ==
  [boundary |-> "select", reused |-> "start", done |-> "summary", started |-> "step",
   answered |-> "finalize", failed_step |-> "replan", drafting |-> "generate",
   drafted |-> "materialize"]

\* The loop and the replanner take their lease right after the check.  A
\* request seen by a revision that recovery resumed has no handler.
raise_if_cancel_requested(t) ==
  LET at == task[t].at IN
  /\ at \in DOMAIN Checks
  /\ IF run.cancel \/ run.status = "cancelled"
     THEN /\ task' = [task EXCEPT ![t] = [Idle EXCEPT !.rec = task[t].rec,
                         !.at = IF task[t].direct THEN "failed" ELSE "cancelling"]]
          /\ FenceForget(t)
     ELSE /\ Goto(t, Checks[at])
          /\ IF at \in {"boundary", "failed_step"} THEN FenceSnapshot(t)
             ELSE UNCHANGED fenceVars
  /\ KeepPlan /\ UNCHANGED <<ckpt, attempts, rounds>>

\* A resumed run becomes running, under the lease just taken.
EnterRunning(t) ==
  /\ task[t].at = "select" /\ run.status = "resuming"
  /\ IF Current(prepared[t])
     THEN /\ run' = RunRow("running", run.cancel, "live")
          /\ handle' = [Aged(handle) EXCEPT ![t] = "fresh"]
          /\ prepared' = [Aged(prepared) EXCEPT ![t] = "fresh"]
          /\ UNCHANGED <<ckpt, attempts, rounds, task>>
     ELSE Raise(t)
  /\ KeepPlan

\* Mutant: what the result was computed from is not compared.
ReuseWithoutLineage(k, done) ==
  LET new == StepOf(Steps, k)
      old == StepOf(versions[active - 1], k)
      src == attempts[active - 1][k]
  IN /\ active > 1 /\ k \in Keys(versions[active - 1])
     /\ src.st = "succeeded" /\ src.from = 0
     /\ new.def = old.def /\ new.deps = old.deps

\* Mutant: the definitions of the two steps are not compared.
ReuseOtherDefinition(k, done) ==
  /\ active > 1 /\ k \in Keys(versions[active - 1])
  /\ attempts[active - 1][k].st = "succeeded" /\ attempts[active - 1][k].from = 0
  /\ \A d \in StepOf(Steps, k).deps : done[d].st = "succeeded" /\ done[d].from = active - 1

\* A result of the superseded step is reused when both define the same step,
\* it was executed itself, and the results it was computed from are the very
\* ones reused in this version.
can_reuse_result(k, done) ==
  LET new == StepOf(Steps, k)
      old == StepOf(versions[active - 1], k)
      src == attempts[active - 1][k]
  IN /\ active > 1 /\ k \in Keys(versions[active - 1])
     /\ src.st = "succeeded" /\ src.from = 0
     /\ new.def = old.def
     /\ new.deps = old.deps
     /\ \A d \in new.deps : done[d].st = "succeeded" /\ done[d].from = active - 1

\* The latest attempts once step i has its result, if it has no attempt yet and
\* its result may be reused.
ReuseNext(latest, i) ==
  LET k == Steps[i].key IN
  IF latest[k].n = 0 /\ can_reuse_result(k, latest) THEN create_reused_step_attempt(latest, k)
  ELSE latest

\* The same for every step, in order.
WithReuse ==
  LET f[i \in 0..Len(Steps)] == IF i = 0 THEN Latest ELSE ReuseNext(f[i - 1], i)
  IN f[Len(Steps)]

\* same: the tool catalogue, the policy and the skills are those of the source.
apply_compatible_reuse(t, same) ==
  /\ task[t].at = "select" /\ run.status # "resuming" /\ ~task[t].resume
  /\ IF load_executable_plan(prepared[t])
     THEN /\ attempts' = IF same THEN [attempts EXCEPT ![active] = WithReuse] ELSE attempts
          /\ Goto(t, "reused")
          /\ UNCHANGED <<fenceVars, ckpt, rounds>>
     ELSE Raise(t)
  /\ KeepPlan

start_next_attempt(t) ==
  /\ task[t].at = "start"
  /\ IF ~(load_executable_plan(prepared[t]) /\ StepsMayStart) THEN Raise(t)
     ELSE IF AllSucceeded THEN Goto(t, "done") /\ FenceForget(t) /\ UNCHANGED <<ckpt, attempts, rounds>>
     ELSE IF ReadySteps = {} \/ Latest[choose_ready_step].n >= AttemptLimit(choose_ready_step)
     THEN Raise(t)
     ELSE LET k == choose_ready_step
              n == Latest[k].n + 1
          IN /\ create_step_attempt(k, n)
             /\ ckpt' = Ckpt("dispatch_step", k)
             /\ task' = [task EXCEPT ![t] = [@ EXCEPT !.at = "started", !.k = k, !.n = n]]
             /\ FenceForget(t) /\ UNCHANGED rounds
  /\ KeepPlan

\* Recovery goes on with the one attempt it found running.
resume_running_attempt(t) ==
  /\ task[t].at = "select" /\ run.status # "resuming" /\ task[t].resume
  /\ IF /\ load_executable_plan(prepared[t])
        /\ Cardinality(RunningKeys) = 1
        /\ \A k \in Keys(Steps) : Latest[k].st \notin TERMINAL_PLAN_STEP_STATUSES
        /\ \A k \in RunningKeys : DependenciesSucceeded(k)
     THEN \E k \in RunningKeys :
            /\ task' = [task EXCEPT ![t] = [@ EXCEPT !.at = "started", !.k = k, !.n = Latest[k].n,
                                                     !.resume = FALSE]]
            /\ FenceForget(t) /\ UNCHANGED <<ckpt, attempts, rounds>>
     ELSE Raise(t)
  /\ KeepPlan

\* A step ran a tool: one more unit of the run's budget and a checkpoint.
StepUsesTool(t) ==
  /\ task[t].at = "step"
  /\ IF Current(handle[t]) /\ rounds < RoundBudget
     THEN /\ rounds' = rounds + 1
          /\ ckpt' = Ckpt("step_tool", task[t].k)
          /\ UNCHANGED <<fenceVars, attempts, task>>
     ELSE Raise(t)
  /\ KeepPlan

\* The tool needs an approval: the run waits and the stream ends.
StepAwaitsApproval(t) ==
  /\ task[t].at = "step"
  /\ Current(handle[t]) /\ rounds < RoundBudget
  /\ rounds' = rounds + 1
  /\ ckpt' = Ckpt("step_tool", task[t].k)
  /\ FenceFinish(t, "awaiting_user")
  /\ task' = [task EXCEPT ![t] = Idle]
  /\ KeepPlan /\ UNCHANGED attempts

\* The approval is decided: the run is resumed for the recovery path, which
\* completes the tool call and goes on with the running attempt.
ResumeAfterApproval(t) ==
  /\ task[t] = Idle
  /\ run.status = "awaiting_user" /\ ckpt.phase = "step_tool"
  /\ FenceResumeWaiting(t)
  /\ task' = [task EXCEPT ![t] = [Idle EXCEPT !.at = "recovering", !.rec = TRUE]]
  /\ KeepPlan /\ UNCHANGED <<ckpt, attempts, rounds>>

\* run_plan_step ends: the model reports, gives up retryably or for good,
\* or the call raises.
run_plan_step(t, out) ==
  /\ task[t].at = "step"
  /\ IF out = "raised" THEN Raise(t)
     ELSE /\ task' = [task EXCEPT ![t] = [@ EXCEPT !.at = "answered", !.out = out]]
          /\ UNCHANGED <<fenceVars, ckpt, attempts, rounds>>
  /\ KeepPlan

TargetStatus(t) ==
  CASE task[t].out = "succeeded" -> "succeeded"
    [] task[t].out = "retryable" /\ task[t].n < AttemptLimit(task[t].k) -> "failed_retryable"
    [] OTHER -> "failed_terminal"

finalize_step_attempt(t) ==
  LET k == task[t].k IN
  /\ task[t].at = "finalize"
  /\ IF Executable(handle[t]) /\ Latest[k].st = "running" /\ Latest[k].n = task[t].n
     THEN /\ finish_step_attempt(k, TargetStatus(t))
          /\ ckpt' = Ckpt("select_next", k)
          /\ task' = [task EXCEPT ![t] =
               IF TargetStatus(t) = "failed_terminal" THEN [@ EXCEPT !.at = "failed_step", !.n = 0, !.out = "none"]
               ELSE [Idle EXCEPT !.at = "boundary", !.rec = task[t].rec]]
          /\ UNCHANGED <<fenceVars, rounds>>
     ELSE Raise(t)
  /\ KeepPlan

----------------------------------------------------------------------------
(* Replanning after a step has failed for good *)

\* The boundary is recorded under the lease taken before; without revisions
\* left the run ends.
replan_terminal_failure(t) ==
  /\ task[t].at = "replan"
  /\ IF Latest[task[t].k].st = "failed_terminal" /\ Current(prepared[t])
     THEN /\ ckpt' = Ckpt("plan_replan_required", task[t].k)
          /\ Goto(t, IF plan.current - 1 >= MaxRevisions THEN "give_up" ELSE "context")
          /\ UNCHANGED <<fenceVars, attempts, rounds>>
     ELSE Raise(t)
  /\ KeepPlan

\* The facts of the revision are read under the same lease.
revision_context(t) ==
  /\ task[t].at = "context"
  /\ IF Executable(prepared[t]) /\ plan.current = active
     THEN Goto(t, "drafting") /\ UNCHANGED <<fenceVars, ckpt, attempts, rounds>>
     ELSE Raise(t)
  /\ KeepPlan

\* The generator runs without a transaction; its failure ends the run.
GenerateRevision(t, draft) ==
  /\ task[t].at = "generate"
  /\ IF draft = NoDraft THEN Goto(t, "give_up")
     ELSE task' = [task EXCEPT ![t] = [@ EXCEPT !.at = "drafted", !.draft = draft]]
  /\ UNCHANGED <<fenceVars, ckpt, attempts, rounds>> /\ KeepPlan

\* The new version, the waiting run and its checkpoint, in one transaction
\* under the lease taken before the generation.
materialize_failure_revision(t) ==
  LET draft == task[t].draft IN
  /\ task[t].at = "materialize"
  /\ IF /\ task[t].k \in Keys(draft)
        /\ Executable(prepared[t]) /\ plan.current = active
        /\ plan.current - 1 < MaxRevisions
        /\ Latest[task[t].k].st = "failed_terminal"
     THEN /\ append_version(draft)
          /\ run' = RunRow("awaiting_user", run.cancel, "live")
          /\ handle' = [Aged(handle) EXCEPT ![t] = "none"]
          /\ prepared' = [Aged(prepared) EXCEPT ![t] = "none"]
          /\ ckpt' = Ckpt("plan_awaiting_approval", NoKey)
          /\ task' = [task EXCEPT ![t] = Idle]
          /\ UNCHANGED <<attempts, rounds>>
     ELSE Raise(t) /\ UNCHANGED <<plan, versions>>
  /\ UNCHANGED <<decisions, active, runs, faults>>

fail_replan_terminal(t) ==
  /\ task[t].at = "give_up"
  /\ IF Current(handle[t])
     THEN Terminal(t, "failed_terminal") /\ UNCHANGED <<attempts, rounds>>
     ELSE Raise(t)
  /\ KeepPlan

----------------------------------------------------------------------------
(* The final summary *)

\* complete_final_summary: running again if resumed, then the lease is taken.
EnterSummary(t) ==
  /\ task[t].at = "summary"
  /\ IF run.status = "resuming"
     THEN IF Current(handle[t]) THEN WriteRun(t, "running") /\ UNCHANGED <<ckpt, attempts, rounds, task>>
          ELSE Raise(t)
     ELSE FenceSnapshot(t) /\ Goto(t, "prepare") /\ UNCHANGED <<ckpt, attempts, rounds>>
  /\ KeepPlan

prepare_final_summary(t) ==
  /\ task[t].at = "prepare"
  /\ IF load_executable_plan(prepared[t]) /\ AllSucceeded
     THEN /\ ckpt' = Ckpt("final_summary", Steps[Len(Steps)].key)
          /\ Goto(t, "reserve")
          /\ FenceForget(t) /\ UNCHANGED <<attempts, rounds>>
     ELSE Raise(t)
  /\ KeepPlan

\* Mutant: the budget is off by one.
ReserveBeyondBudget(t) ==
  /\ task[t].at = "reserve"
  /\ IF rounds <= RoundBudget THEN rounds' = rounds + 1 /\ Goto(t, "summarize")
     ELSE Goto(t, "park") /\ UNCHANGED rounds
  /\ UNCHANGED <<fenceVars, ckpt, attempts>> /\ KeepPlan

reserve_round_unit(t) ==
  /\ task[t].at = "reserve"
  /\ IF rounds < RoundBudget THEN rounds' = rounds + 1 /\ Goto(t, "summarize")
     ELSE Goto(t, "park") /\ UNCHANGED rounds
  /\ UNCHANGED <<fenceVars, ckpt, attempts>> /\ KeepPlan

\* The model is asked; a failure or an empty answer parks the run.
Summarize(t, ok) ==
  /\ task[t].at = "summarize"
  /\ Goto(t, IF ok THEN "save" ELSE "park")
  /\ UNCHANGED <<fenceVars, ckpt, attempts, rounds>> /\ KeepPlan

ParkSummary(t) ==
  /\ task[t].at = "park"
  /\ IF Current(handle[t])
     THEN /\ FenceFinish(t, "awaiting_user") /\ task' = [task EXCEPT ![t] = Idle]
          /\ UNCHANGED <<ckpt, attempts, rounds>>
     ELSE Raise(t)
  /\ KeepPlan

\* The summary is saved and the run completed in one transaction.
SaveSummary(t) ==
  /\ task[t].at = "save"
  /\ IF load_executable_plan(handle[t]) /\ AllSucceeded
     THEN Terminal(t, "completed") /\ UNCHANGED <<attempts, rounds>>
     ELSE Raise(t)
  /\ KeepPlan

\* POST /runs/{id}/summary/retry
resume_waiting_summary_run(t) ==
  /\ task[t] = Idle
  /\ ckpt.phase = "final_summary" /\ ActiveVersionApproved /\ AllSucceeded
  /\ FenceResumeWaiting(t)
  /\ task' = [task EXCEPT ![t] = [Idle EXCEPT !.at = "admit_summary"]]
  /\ KeepPlan /\ UNCHANGED <<ckpt, attempts, rounds>>

\* Not admitted, the run waits again.
BeginSummaryRun(t) ==
  /\ task[t].at = "admit_summary"
  /\ \/ Goto(t, "summary") /\ UNCHANGED fenceVars
     \/ /\ Current(handle[t]) /\ FenceFinish(t, "awaiting_user")
        /\ task' = [task EXCEPT ![t] = Idle]
  /\ KeepPlan /\ UNCHANGED <<ckpt, attempts, rounds>>

----------------------------------------------------------------------------
(* How a task ends *)

\* Mutant: attempts that have ended are cancelled too.
CancelFinishedAttempts(t) ==
  /\ task[t].at = "cancelling"
  /\ IF run.status = "cancelled"
     THEN FenceDrop(t) /\ task' = [task EXCEPT ![t] = Idle] /\ UNCHANGED <<ckpt, attempts>>
     ELSE IF /\ handle[t] \in {"fresh", "old"} /\ run.lease = "live"
             /\ run.status \in {"running", "resuming"}
     THEN /\ cancel_step_attempt({k \in StepKeys : Latest[k].n > 0})
          /\ run' = RunRow("cancelled", run.cancel, "live")
          /\ handle' = [Aged(handle) EXCEPT ![t] = "none"]
          /\ prepared' = [Aged(prepared) EXCEPT ![t] = "none"]
          /\ ckpt' = Ckpt("run_terminal", NoKey)
          /\ task' = [task EXCEPT ![t] = Idle]
     ELSE Goto(t, "failed") /\ UNCHANGED <<fenceVars, ckpt, attempts>>
  /\ KeepPlan /\ UNCHANGED rounds

\* The cancellation itself may have moved the row one version on: the lease is
\* read again under its own token.
cancel_at_boundary(t) ==
  /\ task[t].at = "cancelling"
  /\ IF run.status = "cancelled"
     THEN FenceDrop(t) /\ task' = [task EXCEPT ![t] = Idle] /\ UNCHANGED <<ckpt, attempts>>
     ELSE IF /\ handle[t] \in {"fresh", "old"} /\ run.lease = "live"
             /\ run.status \in {"running", "resuming"}
     THEN /\ cancel_step_attempt(RunningKeys)
          /\ run' = RunRow("cancelled", run.cancel, "live")
          /\ handle' = [Aged(handle) EXCEPT ![t] = "none"]
          /\ prepared' = [Aged(prepared) EXCEPT ![t] = "none"]
          /\ ckpt' = Ckpt("run_terminal", NoKey)
          /\ task' = [task EXCEPT ![t] = Idle]
     ELSE Goto(t, "failed") /\ UNCHANGED <<fenceVars, ckpt, attempts>>
  /\ KeepPlan /\ UNCHANGED rounds

\* An exception ends the run if the handle still may: _terminalize_stream_error
\* of a stream, the handler around plan_execution.resume in recovery.
TerminalizeError(t) ==
  /\ task[t].at = "failed"
  /\ IF Current(handle[t]) /\ "failed_terminal" \in LegalRunTargets(run.status)
     THEN Terminal(t, "failed_terminal")
     ELSE FenceDrop(t) /\ task' = [task EXCEPT ![t] = Idle] /\ UNCHANGED ckpt
  /\ KeepPlan /\ UNCHANGED <<attempts, rounds>>

\* The stream's asyncio task is cancelled, by the user or by its deadline.
TerminalizeCancelledStream(t, s) ==
  /\ task[t].at \notin {"idle", "admit", "admit_summary", "failed"} /\ ~task[t].rec
  /\ faults < MaxFaults /\ faults' = faults + 1
  /\ s \in {"cancelled", "failed_terminal"}
  /\ IF Current(handle[t]) /\ s \in LegalRunTargets(run.status) THEN Terminal(t, s)
     ELSE FenceDrop(t) /\ task' = [task EXCEPT ![t] = Idle] /\ UNCHANGED ckpt
  /\ UNCHANGED <<plan, versions, decisions, active, runs, attempts, rounds>>

\* The process stops.
Crash(t) ==
  /\ task[t] # Idle
  /\ faults < MaxFaults /\ faults' = faults + 1
  /\ FenceDrop(t) /\ task' = [task EXCEPT ![t] = Idle]
  /\ UNCHANGED <<plan, versions, decisions, active, runs, attempts, ckpt, rounds>>

\* POST /runs/{id}/cancel: recorded; a waiting run ends at once.
request_cancellation ==
  /\ FenceRequestCancellation
  /\ ckpt' = IF run.status = "awaiting_user" THEN Ckpt("run_terminal", NoKey) ELSE ckpt
  /\ KeepPlan /\ UNCHANGED <<attempts, rounds, task>>

\* The lease runs out: the holder is gone, or (a fault) it is slow and has no
\* heartbeat, or its heartbeat does not get through.
Expire ==
  LET held == \E t \in Tasks : handle[t] \in {"fresh", "old"} IN
  /\ run.status \in ActiveRunStatuses /\ run.lease = "live"
  /\ held => faults < MaxFaults
  /\ faults' = IF held THEN faults + 1 ELSE faults
  /\ FenceExpire
  /\ UNCHANGED <<plan, versions, decisions, active, runs, attempts, ckpt, rounds, task>>

----------------------------------------------------------------------------
(* Recovery *)

\* _validate_plan_context: plan, run, attempts and checkpoint tell one story.
PlanContextValid ==
  /\ IF plan.current # plan.approved
     THEN /\ ckpt.phase = "plan_awaiting_approval"
          /\ plan.status = "awaiting_approval" /\ run.status = "awaiting_user"
     ELSE plan.status = "approved" /\ active = plan.current
  /\ Cardinality(RunningKeys) <= 1
  /\ ckpt.phase = "plan_awaiting_approval" => RunningKeys = {}
  /\ ckpt.phase = "dispatch_step" => RunningKeys = {ckpt.key}
  /\ ckpt.phase \in {"select_next", "final_summary"} => RunningKeys = {}
  /\ ckpt.phase = "plan_replan_required" => Latest[ckpt.key].st = "failed_terminal"

\* _classify, for the checkpoints a plan run can have.
classify ==
  CASE ~PlanContextValid -> "blocked_corrupt"
    [] ckpt.phase = "plan_awaiting_approval" ->
         IF run.status = "awaiting_user" /\ plan.approved # plan.current THEN "await_plan_decision"
         ELSE IF run.status = "resuming" THEN "resume_plan_step" ELSE "blocked_corrupt"
    [] ckpt.phase \in {"dispatch_step", "select_next", "final_summary"} ->
         IF ckpt.phase = "final_summary" /\ run.status = "awaiting_user" THEN "await_user"
         ELSE IF run.status \in {"running", "resuming"} THEN "resume_plan_step"
         ELSE "blocked_corrupt"
    [] ckpt.phase = "plan_replan_required" ->
         IF run.status \in {"running", "resuming"} THEN "resume_plan_revision"
         ELSE "blocked_corrupt"
    [] ckpt.phase = "step_tool" ->
         IF run.status = "awaiting_user" THEN "await_user" ELSE "resume_plan_step"
    [] ckpt.phase = "run_started" -> "resume_plan_step"
    [] OTHER -> "terminal_noop"

Waits == {"await_plan_decision", "await_user", "terminal_noop"}

\* Mutant: recovery leaves runs with a cancellation request to their streams.
SkipCancelledCandidates(t) ==
  /\ task[t] = Idle
  /\ run.status \in ActiveRunStatuses /\ run.lease = "expired" /\ ~run.cancel
  /\ classify \notin Waits
  /\ IF run.status = "awaiting_user" THEN FenceResumeWaiting(t) ELSE FenceTakeOver(t)
  /\ task' = [task EXCEPT ![t] = [Idle EXCEPT !.at = "recovering", !.rec = TRUE]]
  /\ KeepPlan /\ UNCHANGED <<ckpt, attempts, rounds>>

\* A candidate with an expired lease is validated, then taken over (a waiting
\* one that is found corrupt is resumed, to be blocked).
execute_candidate(t) ==
  /\ task[t] = Idle
  /\ run.status \in ActiveRunStatuses /\ run.lease = "expired"
  /\ classify \notin Waits
  /\ IF run.status = "awaiting_user" THEN FenceResumeWaiting(t) ELSE FenceTakeOver(t)
  /\ task' = [task EXCEPT ![t] = [Idle EXCEPT !.at = "recovering", !.rec = TRUE]]
  /\ KeepPlan /\ UNCHANGED <<ckpt, attempts, rounds>>

\* Validated again under the lease; a blocked run is ended.
consume_outcome(t) ==
  /\ task[t].at = "recovering"
  /\ IF classify = "blocked_corrupt" /\ Current(handle[t])
     THEN Terminal(t, "blocked_corrupt")
     ELSE IF classify = "blocked_corrupt" \/ classify \in Waits
     THEN FenceDrop(t) /\ task' = [task EXCEPT ![t] = Idle] /\ UNCHANGED ckpt
     ELSE Goto(t, "continuing") /\ UNCHANGED <<fenceVars, ckpt>>
  /\ KeepPlan /\ UNCHANGED <<attempts, rounds>>

\* The continuation makes the run running, then resumes the plan where its
\* checkpoint stands.  A stale handle raises outside its handler.
ContinueRun(t) ==
  /\ task[t].at = "continuing"
  /\ IF run.status = "resuming"
     THEN IF Current(handle[t]) THEN WriteRun(t, "running") /\ UNCHANGED task
          ELSE FenceDrop(t) /\ task' = [task EXCEPT ![t] = Idle]
     ELSE /\ UNCHANGED fenceVars
          /\ task' = [task EXCEPT ![t] =
               CASE ckpt.phase = "plan_replan_required" ->
                      [@ EXCEPT !.at = "failed_step", !.k = ckpt.key, !.direct = TRUE]
                 [] ckpt.phase = "final_summary" /\ RunningKeys = {} -> [@ EXCEPT !.at = "summary"]
                 [] OTHER -> [@ EXCEPT !.at = "boundary", !.resume = (RunningKeys # {})]]
  /\ KeepPlan /\ UNCHANGED <<ckpt, attempts, rounds>>

\* A recovery keeps its lease alive; a live stream does not.
heartbeat_owned_lease(t) ==
  /\ task[t].rec /\ task[t] # Idle
  /\ FenceHeartbeat(t)
  /\ KeepPlan /\ UNCHANGED <<ckpt, attempts, rounds, task>>

----------------------------------------------------------------------------
Init ==
  /\ FenceInit
  /\ plan = [status |-> "absent", current |-> 0, approved |-> 0, cas |-> 0]
  /\ versions = <<>> /\ active = 0 /\ runs = 0 /\ rounds = 0 /\ faults = 0
  /\ decisions = [i \in DecisionIds |-> NoDecision]
  /\ attempts = NoAttempts
  /\ ckpt = Ckpt("none", NoKey)
  /\ task = [t \in Tasks |-> Idle]

StepOutcomes == {"succeeded", "retryable", "failed", "raised"}

\* What tasks do by themselves once started; users, faults and time apart.
TaskStep(t) ==
  \/ BeginRun(t) \/ raise_if_cancel_requested(t) \/ EnterRunning(t)
  \/ \E same \in BOOLEAN : apply_compatible_reuse(t, same)
  \/ start_next_attempt(t) \/ resume_running_attempt(t)
  \/ StepAwaitsApproval(t)
  \/ \E out \in StepOutcomes : run_plan_step(t, out)
  \/ finalize_step_attempt(t)
  \/ replan_terminal_failure(t) \/ revision_context(t)
  \/ \E draft \in GeneratedDrafts : GenerateRevision(t, draft)
  \/ materialize_failure_revision(t) \/ fail_replan_terminal(t)
  \/ EnterSummary(t) \/ prepare_final_summary(t) \/ reserve_round_unit(t)
  \/ \E ok \in BOOLEAN : Summarize(t, ok)
  \/ ParkSummary(t) \/ SaveSummary(t) \/ BeginSummaryRun(t)
  \/ cancel_at_boundary(t) \/ TerminalizeError(t)
  \/ consume_outcome(t) \/ ContinueRun(t) \/ StepUsesTool(t)

UserStep ==
  \/ \E mode \in {"never", "auto", "always"}, answer \in {"plan", "direct", "failed"},
        draft \in GeneratedDrafts : materialize_initial(mode, answer, draft)
  \/ \E id \in DecisionIds, v \in VersionIds, c \in 1..plan.cas : decide(id, v, c)
  \/ \E t \in Tasks : rerun_plan(t) \/ resume_waiting_summary_run(t) \/ ResumeAfterApproval(t)
  \/ request_cancellation

Next ==
  \/ \E t \in Tasks :
       \/ TaskStep(t) \/ execute_candidate(t) \/ heartbeat_owned_lease(t) \/ Crash(t)
       \/ \E s \in {"cancelled", "failed_terminal"} : TerminalizeCancelledStream(t, s)
  \/ UserStep \/ Expire

Spec == Init /\ [][Next]_vars

\* Tasks make progress, model and tool calls return; the recovery worker keeps
\* scanning; time passes for a lease nobody renews.
Fairness ==
  /\ \A t \in Tasks : WF_vars(TaskStep(t)) /\ WF_vars(execute_candidate(t))
  /\ WF_vars(Expire)

FairSpec == Spec /\ Fairness

----------------------------------------------------------------------------
(* Properties *)

PlansTypeOK ==
  /\ FenceTypeOK
  /\ plan \in [status: PlanStatus, current: 0..(MaxRevisions + 1),
               approved: 0..(MaxRevisions + 1), cas: Nat]
  /\ Len(versions) = plan.current /\ active \in 0..plan.current
  /\ attempts \in [VersionIds -> [StepKeys ->
       [n: 0..MaxStepAttempts, st: PlanStepRunStatus, from: 0..MaxRevisions]]]
  /\ ckpt.phase \in CkptPhases /\ ckpt.key \in StepKeys \cup {NoKey}
  /\ rounds \in 0..RoundBudget
  /\ \A i \in DecisionIds : decisions[i].action \in {"none", "approve", "reject", "revise"}

\* Nothing is attempted before what it depends on has succeeded in the same
\* version (start_next_attempt, apply_compatible_reuse), and a version keeps
\* its steps in an order in which that is possible (validate_plan_draft).
DependenciesFirst ==
  \A v \in 1..Len(versions) : \A i \in DOMAIN versions[v] :
    LET step == versions[v][i] IN
    /\ step.deps \subseteq {versions[v][j].key : j \in 1..(i - 1)}
    /\ attempts[v][step.key].n > 0 => \A d \in step.deps : attempts[v][d].st = "succeeded"

\* Within a run an attempt that has ended never changes: a step is attempted
\* again only under the next number after a retryable failure, and the row of
\* a running attempt is ended once (create_step_attempt, finish_step_attempt,
\* cancel_step_attempt).
AttemptHistory ==
  [][runs' = runs =>
       \A v \in VersionIds, k \in StepKeys :
         LET old == attempts[v][k]
             new == attempts'[v][k]
         IN new # old =>
              \/ old.st = "running" /\ new.n = old.n /\ new.from = old.from /\ new.st # "running"
              \/ old.st \in {"none", "failed_retryable"} /\ new.n = old.n + 1
                 /\ new.st \in {"running", "succeeded"}]_vars

\* A reused result belongs to the version it is shown in: it was produced by
\* an execution of the same definition, and everything it was computed from is
\* the result the version itself shows (can_reuse_result).
ReuseKeepsLineage ==
  \A v \in 1..Len(versions) : \A k \in Keys(versions[v]) :
    LET u == attempts[v][k].from IN
    u > 0 =>
      /\ attempts[u][k].st = "succeeded" /\ attempts[u][k].from = 0
      /\ StepOf(versions[u], k).def = StepOf(versions[v], k).def
      /\ \A d \in StepOf(versions[u], k).deps :
           attempts[v][d].st = "succeeded" /\ attempts[v][d].from = u

\* Nobody works on past a stop.  Once a cancellation is recorded no attempt of
\* the run starts or succeeds and the run does not complete
\* (lock_run_for_execution); and an executor whose lease was taken over writes no
\* attempt, checkpoint, plan version or run status, however far it still runs.
StoppedNeverWrites ==
  [][runs' = runs =>
       /\ run.cancel =>
            /\ run'.status # "completed" \/ run.status = "completed"
            /\ \A v \in VersionIds, k \in StepKeys :
                 attempts'[v][k] # attempts[v][k] =>
                   attempts'[v][k].st \notin {"running", "succeeded"}
       /\ attempts' # attempts \/ plan' # plan \/ ckpt' # ckpt \/ run'.status # run.status =>
            \A t \in Tasks : task'[t] # task[t] => handle[t] # "fenced"]_vars

\* The decisions among ds that took an action.
Done(ds, action) == {i \in DecisionIds : ds[i].action = action}

\* Every aggregate version of the plan is accounted for by one decision or one
\* failure revision: no decision is lost and none is applied twice, even when
\* decisions race with each other and with a replanning executor.
EveryVersionAccounted ==
  plan.status # "absent" =>
    /\ plan.cas = plan.current + Cardinality(Done(decisions, "approve") \cup Done(decisions, "reject"))
    /\ Cardinality(Done(decisions, "revise")) <= plan.current - 1
    /\ plan.approved > 0 => \E i \in Done(decisions, "approve") : decisions[i].version = plan.approved
    /\ plan.status = "rejected" <=> Done(decisions, "reject") # {}

\* The plan as its user sees it.
Review == INSTANCE PlanReview WITH
  StepNames <- StepKeys,
  stage <- IF run.status = "absent" THEN "absent"
           ELSE IF run.status \in TERMINAL_RUN_STATUSES THEN "over"
           ELSE IF plan.status = "awaiting_approval" THEN "review" ELSE "executing",
  version <- plan.current,
  approved <- plan.approved,
  busy <- IF run.status \in ActiveRunStatuses
          THEN {vk \in VersionIds \X StepKeys : attempts[vk[1]][vk[2]].st = "running"} ELSE {}

\* Decisions, executors, recovery and cancellation together keep the promise
\* of PlanReview: only the approved current version is executed, one step at a
\* time, and a failed step leads to review with nothing running.
ImplementsReview == Review!ReviewSpec

\* A run that executes reaches its user or its end, whatever crashes, lost
\* leases and cancellations happen on the way: a cancelled run is ended even
\* if the stream that should end it is gone (recovery takes over).
RunSettles ==
  (run.status \in {"running", "resuming"}) ~> (run.status \notin {"running", "resuming"})

\* "选择批准、拒绝，或填写反馈请求修订" (docs/durable-plans.md:23): a user who is asked
\* to review may ask for a revision while revisions and decision ids remain.
RevisionAvailable ==
  /\ plan.status = "awaiting_approval" /\ run.status = "awaiting_user"
  /\ plan.current - 1 < MaxRevisions
  /\ decisions[MaxDecisions] = NoDecision
  => \E id \in DecisionIds : \E draft \in GeneratedDrafts :
       ENABLED Revise(id, plan.current, plan.cas, draft)

=============================================================================
