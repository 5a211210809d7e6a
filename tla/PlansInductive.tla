-------------------------- MODULE PlansInductive ----------------------------
(***************************************************************************)
(* The inductive invariant of Plans and the ways its rows change.  The     *)
(* rows of plan and run tell one story (Rows); an attempt exists only in a *)
(* version that is or was active, after what it depends on, and a reused   *)
(* one under its source (Table); at most one runs, in the active version,  *)
(* never beside one that failed for good nor during a review (Alone); the  *)
(* decisions account for the plan's versions (Ledger); a task knows its    *)
(* step and its draft where it needs them, and has no lease when idle      *)
(* (Locals).                                                               *)
(***************************************************************************)
EXTENDS Plans

-----------------------------------------------------------------------------
(* The invariant *)

Valid == GeneratedDrafts \ {NoDraft}

\* A validated draft: its steps have keys of their own and come after what they depend on.
InOrder(d) ==
  /\ d \in Seq({d[i] : i \in DOMAIN d}) /\ Len(d) > 0
  /\ \A i \in DOMAIN d : /\ d[i].limit \in Nat /\ d[i].key \in StepKeys
                         /\ d[i].deps \subseteq {d[j].key : j \in 1..(i - 1)}
                         /\ \A j \in DOMAIN d : d[i].key = d[j].key => i = j

PlanOf(s, cur, app, c) == [status |-> s, current |-> cur, approved |-> app, cas |-> c]
IsPlan(p) == p = PlanOf(p.status, p.current, p.approved, p.cas)

IsRun(r) ==
  /\ r = RunRow(r.status, r.cancel, r.lease)
  /\ r.status \in RunStatus \cup {"absent"} /\ r.cancel \in BOOLEAN /\ r.lease \in {"live", "expired"}

Versions0 == 0..(MaxRevisions + 1)

Rows ==
  /\ IsRun(run)
  /\ IsPlan(plan) /\ plan.status \in PlanStatus /\ plan.cas \in Nat
  /\ plan.current \in Versions0 /\ plan.approved \in Versions0
  /\ plan.status = "absent" <=> run.status = "absent"
  /\ plan.status = "absent" => plan.current = 0 /\ plan.approved = 0 /\ active = 0
  /\ plan.status # "absent" => active \in 1..plan.current
  /\ plan.status = "rejected" => run.status \in TERMINAL_RUN_STATUSES
  /\ versions \in Seq(Valid) /\ Len(versions) = plan.current

Attempts == [n: 0..MaxStepAttempts, st: PlanStepRunStatus, from: 0..MaxRevisions]

\* In the versions vs and the attempts att, the attempt of k in v is as it should be.
Settled(vs, att, v, k) ==
  LET a == att[v][k] IN
  /\ a.n = 0 <=> a.st = "none"
  /\ a.n > 0 => /\ k \in Keys(vs[v])
                /\ \A d \in StepOf(vs[v], k).deps : att[v][d].st = "succeeded"
  /\ a.from > 0 =>
       /\ a.from < v /\ a.n > 0
       /\ att[a.from][k].st = "succeeded" /\ att[a.from][k].from = 0
       /\ StepOf(vs[a.from], k).def = StepOf(vs[v], k).def
       /\ \A d \in StepOf(vs[a.from], k).deps :
            att[v][d].st = "succeeded" /\ att[v][d].from = a.from

Table ==
  /\ attempts \in [VersionIds -> [StepKeys -> Attempts]]
  /\ \A v \in VersionIds, k \in StepKeys :
       /\ v > active => attempts[v][k].n = 0
       /\ Settled(versions, attempts, v, k)

Under == {"running"} \cup TERMINAL_PLAN_STEP_STATUSES

Alone ==
  \A v \in VersionIds, k \in StepKeys :
    attempts[v][k].st = "running" =>
      /\ v = active /\ plan.status # "awaiting_approval"
      /\ \A j \in StepKeys : attempts[v][j].st \in Under => j = k

Ledger ==
  /\ \A i \in DecisionIds : decisions[i].action \in {"none", "approve", "reject", "revise"}
  /\ DOMAIN decisions = DecisionIds
  /\ plan.status = "absent" => \A i \in DecisionIds : decisions[i].action = "none"
  /\ EveryVersionAccounted

-----------------------------------------------------------------------------
(* The tasks *)

Keyed == {"started", "step", "answered", "finalize", "failed_step", "replan", "context",
          "drafting", "generate", "drafted", "materialize"}

TaskOf(at, k, n, out, draft, rec, resume, direct) ==
  [at |-> at, k |-> k, n |-> n, out |-> out, draft |-> draft, rec |-> rec,
   resume |-> resume, direct |-> direct]
IsTask(s) == s = TaskOf(s.at, s.k, s.n, s.out, s.draft, s.rec, s.resume, s.direct)

Local(s) ==
  /\ IsTask(s) /\ s.k \in StepKeys \cup {NoKey}
  /\ s.at \in Keyed => s.k \in StepKeys
  /\ s.at \in {"drafted", "materialize"} => s.draft \in Valid

Gone == {"none", "fenced"}

\* The copies of the lease: who is idle has none, and no snapshot outlives its handle's token.
Copies ==
  /\ handle \in [Tasks -> LeaseState] /\ prepared \in [Tasks -> LeaseState]
  /\ \A t \in Tasks : handle[t] = "fenced" => prepared[t] \in Gone

IsCkpt(c) ==
  /\ c.phase \in CkptPhases /\ c.key \in StepKeys \cup {NoKey}
  /\ c.phase = "plan_replan_required" => c.key \in StepKeys

Locals ==
  /\ Copies
  /\ task = [t \in Tasks |-> task[t]]
  /\ \A t \in Tasks : Local(task[t]) /\ (task[t] = Idle => handle[t] = "none")
  /\ rounds \in 0..RoundBudget /\ IsCkpt(ckpt)

PlansInv == Rows /\ Table /\ Alone /\ Ledger /\ Locals /\ runs \in Nat

-----------------------------------------------------------------------------
(* The steps of a task *)

\* What the row becomes.
RunStep ==
  /\ IsRun(run')
  /\ run'.status = run.status \/ (run.status \in ActiveRunStatuses /\ run'.status \in RunStatus)
  /\ run'.status = "completed" => run.status = "completed" \/ ~run.cancel

KeepsStore == UNCHANGED <<plan, versions, decisions, active, attempts>> /\ RunStep

-----------------------------------------------------------------------------
(* What keeps the rows of plan and run, and the attempts *)

Store == Rows /\ Table /\ Alone /\ Ledger

-----------------------------------------------------------------------------
(* The steps that change the attempts of the run *)

KeepsPlan == UNCHANGED <<plan, versions, decisions, active>>

Runs == run.status \in ActiveRunStatuses

Starts(k) ==
  /\ KeepsPlan /\ UNCHANGED run /\ Runs /\ ~run.cancel
  /\ ActiveVersionApproved /\ StepsMayStart
  /\ k \in Keys(Steps) /\ is_plan_step_ready(k) /\ Latest[k].n + 1 <= MaxStepAttempts
  /\ create_step_attempt(k, Latest[k].n + 1)

Ends(k, s) ==
  /\ KeepsPlan /\ UNCHANGED run /\ Runs /\ ~run.cancel
  /\ k \in RunningKeys /\ s \in PlanStepRunStatus \ {"none", "running"}
  /\ finish_step_attempt(k, s)

Cancels ==
  /\ KeepsPlan /\ Runs /\ run' = RunRow("cancelled", run.cancel, "live")
  /\ cancel_step_attempt(RunningKeys)

-----------------------------------------------------------------------------
(* Results of the superseded version *)

Reuses ==
  /\ KeepsPlan /\ UNCHANGED run /\ Runs /\ ~run.cancel
  /\ attempts' = [attempts EXCEPT ![active] = WithReuse]

-----------------------------------------------------------------------------
(* The steps that change the plan *)

Proposes(d) ==
  /\ run.status = "absent" /\ d \in Valid
  /\ create(d) /\ run' = RunRow("awaiting_user", FALSE, "live")
  /\ active' = 1 /\ UNCHANGED <<decisions, attempts>>

Approves(id, v, c) ==
  /\ id \in DecisionIds /\ record_decision(id, "approve", v, c)
  /\ run.status = "awaiting_user" /\ run' = RunRow("resuming", run.cancel, "live")
  /\ active' = v /\ UNCHANGED <<versions, attempts>>

Rejects(id, v, c) ==
  /\ id \in DecisionIds /\ record_decision(id, "reject", v, c)
  /\ run.status = "awaiting_user" /\ run' = RunRow("cancelled", run.cancel, "live")
  /\ UNCHANGED <<versions, active, attempts>>

Revises(id, v, c, d) ==
  /\ id \in DecisionIds /\ d \in Valid
  /\ begin_revision_decision(id, v, c) /\ finish_revision_decision(id, v, c)
  /\ plan.current - 1 < MaxRevisions /\ append_version(d)
  /\ run.status = "awaiting_user" /\ run' = RunRow("awaiting_user", run.cancel, "live")
  /\ UNCHANGED <<active, attempts>>

Replans(k, d) ==
  /\ Runs /\ ~run.cancel /\ k \in StepKeys /\ Latest[k].st = "failed_terminal" /\ d \in Valid
  /\ plan.current - 1 < MaxRevisions /\ append_version(d)
  /\ run' = RunRow("awaiting_user", run.cancel, "live")
  /\ UNCHANGED <<decisions, active, attempts>>

Reruns ==
  /\ plan.status = "approved" /\ plan.approved = plan.current
  /\ run.status \in TERMINAL_RUN_STATUSES /\ run' = RunRow("running", FALSE, "live")
  /\ active' = plan.current /\ attempts' = NoAttempts
  /\ UNCHANGED <<plan, versions, decisions>>

-----------------------------------------------------------------------------
(* Every step *)

\* What becomes of plan, versions, decisions, attempts and the run's row.
StoreStep ==
  \/ KeepsStore \/ Cancels \/ Reuses
  \/ \E k : Starts(k)
  \/ \E k, s : Ends(k, s)
  \/ \E d : Proposes(d)
  \/ \E id, v, c : Approves(id, v, c)
  \/ \E id, v, c : Rejects(id, v, c)
  \/ \E id, v, c, d : Revises(id, v, c, d)
  \/ \E k, d : Replans(k, d)

=============================================================================
