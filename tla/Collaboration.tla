--------------------------- MODULE Collaboration ---------------------------
(***************************************************************************)
(* Agent jobs and teams of one session (collaboration/service.py,          *)
(* repository.py, execution.py): the dispatcher's tick, the executor task  *)
(* of a job with its child run, cancellation, shutdown and restart.        *)
(*                                                                         *)
(* One server process.  A job of a team task is named after its task;      *)
(* Lead and Final are the leader's jobs, Solo a job outside the team.      *)
(***************************************************************************)
EXTENDS Integers, FiniteSetsExt

CONSTANTS Tasks, Depends,     \* tasks of the team, [Tasks -> SUBSET Tasks]
          TeamLimit,          \* jobs the team's token allocation pays for
          MaxJobs, MaxWorkers,
          MaxCollabFaults     \* bound: failures, restarts and cancellations

VARIABLES job,      \* [Jobs -> status], "none" before it is created
          child,    \* [Jobs -> status of its child run, "none" without]
          lease,    \* [Jobs -> is the child run's lease current]
          exec,     \* [Jobs -> [at, had]]: its executor task in this process
          task,     \* [Tasks -> status]
          team,     \* status of the team
          stop,     \* [at, todo, job] of a cancellation
          faults

collabVars == <<job, child, lease, exec, task, team, stop, faults>>

Lead == "lead"
Final == "final"
Solo == "solo"
Jobs == Tasks \cup {Lead, Final, Solo}
TeamJobs == Jobs \ {Solo}
NoJob == "none"
NoExec == [at |-> "none", had |-> FALSE]
NoStop == [at |-> "none", todo |-> {}, job |-> NoJob]

ASSUME CollabConstants ==
  /\ Depends \in [Tasks -> SUBSET Tasks]
  /\ Tasks \cap {Lead, Final, Solo, NoJob} = {}

TERMINAL_JOBS == {"completed", "failed", "cancelled"}
TerminalRun == {"completed", "failed", "cancelled"}
Member(j) == IF j \in Tasks THEN "member" ELSE "leader"
Exists(j) == job[j] # "none"
Unfinished(j) == Exists(j) /\ job[j] \notin TERMINAL_JOBS

----------------------------------------------------------------------------
(* The repository *)

\* update_job, and what it does to a cancellation that has read the job and
\* would write it with the version it read: that write will conflict.
update_job(j, status) ==
  /\ job' = [job EXCEPT ![j] = status]
  /\ stop' = IF stop.at = "update" /\ stop.job = j THEN [stop EXCEPT !.at = "conflict"] ELSE stop

create_job(j) == [job EXCEPT ![j] = "queued"]

\* What create_job admits: as many jobs as the session may have and, in a team,
\* as many as its tokens pay for; a task's job leaves those of the final report.
Affordable(j) ==
  /\ Cardinality({k \in Jobs : Exists(k)}) < MaxJobs
  /\ j \in TeamJobs =>
       Cardinality({k \in TeamJobs : Exists(k)}) + (IF j \in Tasks THEN 2 ELSE 1) <= TeamLimit

\* spawn: a job of the session, outside any team.
spawn ==
  /\ ~Exists(Solo) /\ Affordable(Solo)
  /\ job' = create_job(Solo)
  /\ UNCHANGED <<child, lease, exec, task, team, stop, faults>>

\* create_team comes with the leader's job.
create_team ==
  /\ team = "none" /\ Affordable(Lead) /\ team' = "active"
  /\ job' = create_job(Lead)
  /\ UNCHANGED <<child, lease, exec, task, stop, faults>>

\* create_task: the team is active and the dependencies exist.
create_task(t) ==
  /\ team = "active" /\ task[t] = "none" /\ \A d \in Depends[t] : task[d] # "none"
  /\ task' = [task EXCEPT ![t] = "pending"]
  /\ UNCHANGED <<job, child, lease, exec, team, stop, faults>>

----------------------------------------------------------------------------
(* The dispatcher *)

Busy == {Member(j) : j \in {k \in TeamJobs : Unfinished(k)}}

\* Mutant: a task is ready once its dependencies have ended.
ReadyWhenEnded(t) ==
  task[t] = "pending" /\ \A d \in Depends[t] : task[d] \in {"completed", "failed", "cancelled"}

\* A pending task whose dependencies are completed (claim_task).
TaskReady(t) == task[t] = "pending" /\ \A d \in Depends[t] : task[d] = "completed"

\* _schedule_team_tasks, a ready task with a free member: claimed, with its
\* job; without the means for one the task and the team fail.
claim_task(t) ==
  /\ team = "active" /\ TaskReady(t) /\ "member" \notin Busy
  /\ IF Affordable(t)
     THEN /\ job' = create_job(t)
          /\ task' = [task EXCEPT ![t] = "running"] /\ UNCHANGED team
     ELSE /\ task' = [task EXCEPT ![t] = "failed"] /\ team' = "failed"
          /\ UNCHANGED job
  /\ UNCHANGED <<child, lease, exec, stop, faults>>

AllDone ==
  /\ team = "active" /\ Busy = {}
  /\ \A t \in Tasks : task[t] \in {"none", "completed", "failed", "cancelled"}

Reported == Exists(Final) \/ \A t \in Tasks : task[t] = "none"

\* No job is left for the final report: _schedule_team_tasks raises, and the
\* tick with it, before any job is dispatched.
TickRaises == AllDone /\ ~Reported /\ ~Affordable(Final)

\* _schedule_team_tasks, nothing left to do: the leader reports, then the
\* team ends.
conclude_team ==
  /\ AllDone /\ ~TickRaises
  /\ IF Reported
     THEN /\ team' = IF \A j \in TeamJobs : job[j] \in {"none", "completed"}
                     THEN "completed" ELSE "failed"
          /\ UNCHANGED job
     ELSE job' = create_job(Final) /\ UNCHANGED team
  /\ UNCHANGED <<child, lease, exec, task, stop, faults>>

\* AgentJobExecutor.ready.
ready(j) ==
  \/ child[j] \in {"none", "resolved"} \cup TerminalRun
  \/ child[j] = "running" /\ ~lease[j]

\* tick: a job without a task in this process gets one.
dispatch(j) ==
  /\ ~TickRaises /\ exec[j] = NoExec
  /\ job[j] \in {"queued", "running", "awaiting_user", "interrupted"} /\ ready(j)
  /\ Cardinality({k \in Jobs : exec[k] # NoExec}) < MaxWorkers
  /\ update_job(j, "running")
  /\ exec' = [exec EXCEPT ![j] = [at |-> "start", had |-> child[j] # "none"]]
  /\ UNCHANGED <<child, lease, task, team, faults>>

----------------------------------------------------------------------------
(* The executor task of a job *)

Execs(j, at) == [exec EXCEPT ![j].at = at]

\* __call__: a new child run and its lease; an ended child run gives its
\* result; another one is resumed, with the lease taken over.
begin(j) ==
  /\ exec[j].at = "start"
  /\ IF child[j] \in TerminalRun
     THEN exec' = Execs(j, child[j]) /\ UNCHANGED <<job, child, lease, stop>>
     ELSE /\ exec' = Execs(j, "work")
          /\ child' = [child EXCEPT ![j] = "running"] /\ lease' = [lease EXCEPT ![j] = TRUE]
          /\ IF child[j] = "none" THEN update_job(j, job[j]) ELSE UNCHANGED <<job, stop>>
  /\ UNCHANGED <<task, team, faults>>

\* No runtime, workspace or quota: the exception ends the task.
BeginFails(j, quota) ==
  /\ exec[j].at = "start"
  /\ faults < MaxCollabFaults /\ faults' = faults + 1
  /\ exec' = Execs(j, IF quota \/ exec[j].had THEN "interrupted" ELSE "failed")
  /\ UNCHANGED <<job, child, lease, task, team, stop>>

\* The child run ends, or waits for the user.
work(j, end) ==
  /\ exec[j].at = "work"
  /\ child' = [child EXCEPT ![j] = end]
  /\ lease' = [lease EXCEPT ![j] = FALSE]
  /\ exec' = Execs(j, end)
  /\ UNCHANGED <<job, task, team, stop, faults>>

\* An exception: a started run is failed if the database takes it, a resumed
\* one is left to a later attempt.
WorkFails(j, saved) ==
  LET failed == ~exec[j].had /\ saved IN
  /\ exec[j].at = "work"
  /\ faults < MaxCollabFaults /\ faults' = faults + 1
  /\ child' = IF failed THEN [child EXCEPT ![j] = "failed"] ELSE child
  /\ lease' = IF failed THEN [lease EXCEPT ![j] = FALSE] ELSE lease
  /\ exec' = Execs(j, IF exec[j].had THEN "interrupted" ELSE "failed")
  /\ UNCHANGED <<job, task, team, stop>>

\* Mutant: the result of a cancelled job is written like any other.
WriteResult(j) ==
  /\ exec[j].at \in TERMINAL_JOBS \cup {"awaiting_user", "interrupted"}
  /\ update_job(j, exec[j].at)
  /\ task' = [t \in Tasks |-> IF t = j /\ task[t] = "running" /\ exec[j].at \in TERMINAL_JOBS
                              THEN exec[j].at ELSE task[t]]
  /\ exec' = [exec EXCEPT ![j] = NoExec]
  /\ UNCHANGED <<child, lease, team, faults>>

\* _run, one transaction: the job's status, unless it was cancelled, and the
\* end of its team task.
run(j) ==
  /\ exec[j].at \in TERMINAL_JOBS \cup {"awaiting_user", "interrupted"}
  /\ IF job[j] = "cancelled" THEN UNCHANGED <<job, stop>> ELSE update_job(j, exec[j].at)
  /\ task' = [t \in Tasks |-> IF t = j /\ task[t] = "running" /\ exec[j].at \in TERMINAL_JOBS
                              THEN exec[j].at ELSE task[t]]
  /\ exec' = [exec EXCEPT ![j] = NoExec]
  /\ UNCHANGED <<child, lease, team, faults>>

\* The task was cancelled.  The child run has its cancellation requested, which
\* gives it a version the executor's lease does not have: the end of a run that
\* this executor started is refused, and the error takes the place of the
\* cancellation.  The run is left to executor.cancel.
abort(j) ==
  /\ exec[j].at = "abort"
  /\ exec' = Execs(j, IF child[j] = "running" /\ ~exec[j].had THEN "failed" ELSE "cancelled")
  /\ UNCHANGED <<job, child, lease, task, team, stop, faults>>

\* The same when a tick's _propagate_cancellation asks first, and the work ends
\* before the task is cancelled.
WorkRefused(j) ==
  /\ exec[j].at = "work" /\ job[j] = "cancelled"
  /\ exec' = Execs(j, IF exec[j].had THEN "interrupted" ELSE "failed")
  /\ UNCHANGED <<job, child, lease, task, team, stop, faults>>

\* The user settles the approval the child run waits for.
resolve(j) ==
  /\ child[j] = "awaiting_user" /\ exec[j] = NoExec
  /\ child' = [child EXCEPT ![j] = "resolved"]
  /\ UNCHANGED <<job, lease, exec, task, team, stop, faults>>

LeaseRunsOut(j) ==
  /\ lease[j] /\ exec[j].at # "work"
  /\ lease' = [lease EXCEPT ![j] = FALSE]
  /\ UNCHANGED <<job, child, exec, task, team, stop, faults>>

----------------------------------------------------------------------------
(* Cancellation *)

\* cancel of one job; cancel_team and cancel_session of all of them: the team
\* and its pending tasks first.
request_cancel(todo) ==
  /\ stop = NoStop /\ faults < MaxCollabFaults /\ faults' = faults + 1
  /\ stop' = [NoStop EXCEPT !.at = "read", !.todo = todo]
  /\ IF todo = Jobs /\ team # "none"
     THEN /\ team' = "cancelled"
          /\ task' = [t \in Tasks |-> IF task[t] = "pending" THEN "cancelled" ELSE task[t]]
     ELSE UNCHANGED <<team, task>>
  /\ UNCHANGED <<job, child, lease, exec>>

\* The next unfinished job, as it is read.
cancel_read ==
  LET left == {j \in stop.todo : Unfinished(j)} IN
  /\ stop.at = "read"
  /\ IF left = {} THEN stop' = NoStop
     ELSE LET j == CHOOSE j \in left : TRUE   \* in the order of the list
          IN stop' = [at |-> "update", todo |-> left \ {j}, job |-> j]
  /\ UNCHANGED <<job, child, lease, exec, task, team, faults>>

\* Written if nobody did meanwhile; a conflict gives up, the rest included.
cancel_update ==
  /\ \/ stop.at = "conflict" /\ stop' = NoStop /\ UNCHANGED job
     \/ /\ stop.at = "update" /\ stop' = [stop EXCEPT !.at = "executor"]
        /\ job' = [job EXCEPT ![stop.job] = "cancelled"]
  /\ UNCHANGED <<child, lease, exec, task, team, faults>>

\* executor.cancel: a run nobody executes is taken and cancelled, unless its
\* lease is still current.
ExecutorCancels(j) ==
  exec[j].at # "work" /\ (child[j] \in {"awaiting_user", "resolved"} \/ (child[j] = "running" /\ ~lease[j]))

\* ... then the task of the job is cancelled and awaited.
cancel_executor ==
  LET j == stop.job IN
  /\ stop.at = "executor"
  /\ child' = IF ExecutorCancels(j) THEN [child EXCEPT ![j] = "cancelled"] ELSE child
  /\ exec' = IF exec[j].at \in {"start", "work"} THEN Execs(j, "abort") ELSE exec
  /\ stop' = [stop EXCEPT !.at = "join"]
  /\ UNCHANGED <<job, lease, task, team, faults>>

cancel_join ==
  /\ stop.at = "join" /\ exec[stop.job] = NoExec
  /\ stop' = [stop EXCEPT !.at = "read", !.job = NoJob]
  /\ UNCHANGED <<job, child, lease, exec, task, team, faults>>

\* Mutant: cancelled jobs are not looked at again.
PropagateNothing(j) == FALSE /\ UNCHANGED collabVars

\* _propagate_cancellation: the run of a cancelled job that is not over.
propagate_cancellation(j) ==
  /\ job[j] = "cancelled" /\ ExecutorCancels(j)
  /\ child' = [child EXCEPT ![j] = "cancelled"]
  /\ UNCHANGED <<job, lease, exec, task, team, stop, faults>>

\* The process stops, by close (its jobs are interrupted) or not.
restart(closed) ==
  /\ faults < MaxCollabFaults /\ faults' = faults + 1
  /\ job' = [j \in Jobs |-> IF closed /\ exec[j] # NoExec /\ job[j] = "running"
                            THEN "interrupted" ELSE job[j]]
  /\ exec' = [j \in Jobs |-> NoExec] /\ stop' = NoStop
  /\ UNCHANGED <<child, lease, task, team>>

----------------------------------------------------------------------------
CollabInit ==
  /\ job = [j \in Jobs |-> "none"]
  /\ child = [j \in Jobs |-> "none"] /\ lease = [j \in Jobs |-> FALSE]
  /\ exec = [j \in Jobs |-> NoExec]
  /\ task = [t \in Tasks |-> "none"] /\ team = "none" /\ stop = NoStop /\ faults = 0

RunEnds == {"completed", "failed", "awaiting_user"}

CancelJobsStep == cancel_read \/ cancel_update \/ cancel_executor \/ cancel_join

CollabNext ==
  \/ spawn \/ create_team \/ conclude_team
  \/ \E t \in Tasks : create_task(t) \/ claim_task(t)
  \/ \E j \in Jobs :
       \/ dispatch(j) \/ begin(j) \/ run(j) \/ abort(j) \/ WorkRefused(j) \/ resolve(j) \/ LeaseRunsOut(j)
       \/ propagate_cancellation(j) \/ request_cancel({j})
       \/ \E end \in RunEnds : work(j, end)
       \/ \E yes \in BOOLEAN : BeginFails(j, yes) \/ WorkFails(j, yes)
  \/ request_cancel(Jobs)
  \/ CancelJobsStep
  \/ \E closed \in BOOLEAN : restart(closed)

CollabSpec == CollabInit /\ [][CollabNext]_collabVars

CollabStep(j) ==
  \/ begin(j) \/ run(j) \/ abort(j) \/ WorkRefused(j) \/ LeaseRunsOut(j) \/ propagate_cancellation(j)
  \/ \E end \in RunEnds : work(j, end)

----------------------------------------------------------------------------
(* Properties *)

CollabTypeOK ==
  /\ \A j \in Jobs : job[j] \in {"none", "queued", "running", "awaiting_user", "interrupted"}
                                         \cup TERMINAL_JOBS
  /\ \A j \in Jobs : child[j] \in {"none", "running", "awaiting_user", "resolved"} \cup TerminalRun
  /\ Cardinality({j \in Jobs : exec[j] # NoExec}) <= MaxWorkers
  /\ Cardinality({j \in TeamJobs : Exists(j)}) <= TeamLimit

\* "每个成员同时执行一个分派" (docs/collaboration.md:21): no member of the team has two
\* unfinished jobs, whatever fails, is cancelled or interrupted, and a task
\* was started only when all it depends on was completed.
TeamDiscipline ==
  /\ \A j, k \in TeamJobs : (Unfinished(j) /\ Unfinished(k) /\ Member(j) = Member(k)) => j = k
  /\ \A t \in Tasks : Exists(t) => \A d \in Depends[t] : task[d] = "completed"

\* The status of an ended job is never written again, by an executor that was
\* slow to stop, a dispatcher that read the job earlier or after a restart.
EndedJobsStay ==
  [][\A j \in Jobs : job[j] \in TERMINAL_JOBS => job'[j] = job[j]]_collabVars

\* A cancelled job's child run ends too, even if the process stopped between
\* the two.  The executor of a run can never end it then: its lease has to run
\* out first (cancel, the executor's except clauses, _propagate_cancellation).
CancelReachesChild ==
  \A j \in Jobs : (job[j] = "cancelled") ~> (child[j] \in {"none"} \cup TerminalRun)

=============================================================================
