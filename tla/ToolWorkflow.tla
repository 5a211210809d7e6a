---------------------------- MODULE ToolWorkflow ----------------------------
(***************************************************************************)
(* One durable run from its first checkpoint to its last: the chat task    *)
(* that drives the agent loop and the tool scheduler, the recovery tasks   *)
(* that take the run over when its lease lapses or its approval is         *)
(* decided, the user who decides and cancels, and the crashes in between.  *)
(*                                                                         *)
(* A step is one database transaction, or the stretch of code between two  *)
(* of them.  The run's lease is the fence of RunFence, which RunLease      *)
(* implements; here it is composed with the executions, approvals and      *)
(* checkpoints written under it and with the dispatches to the outside.    *)
(***************************************************************************)
EXTENDS RunFence, Integers

CONSTANTS Calls,          \* tool calls the model may make, each at most once
          NoCall,
          StrategyOf,     \* [Calls -> RecoveryStrategy]
          NeedsApproval,  \* the calls the permission policy sends to the user
          MaxEffects,     \* bound on the dispatches of one call that are told apart
          MaxFaults       \* bound on crashes, damaged checkpoints and lost renewals

ASSUME CallsAssumption ==
  /\ NoCall \notin Calls
  /\ StrategyOf \in [Calls -> RecoveryStrategy]
  /\ NeedsApproval \subseteq Calls
ASSUME BoundsAssumption == MaxEffects \in Nat \ {0} /\ MaxFaults \in Nat

VARIABLES
  chk,       \* latest checkpoint: [phase, call, ok]; ~ok is corrupt or incompatible
  exec,      \* tool_executions: [Calls -> status]
  approval,  \* approval_requests: [Calls -> status]
  effects,   \* [Calls -> how often the tool was really invoked]
  pc,        \* [Tasks -> where the task stands]
  role,      \* [Tasks -> "chat", or how the scan found the run]
  cur,       \* [Tasks -> the call the task is working on]
  mode,      \* [Tasks -> what the tool call or the recovery in hand is for]
  beat,      \* [Tasks -> what the heartbeat and its error have come to]
  faults

local == <<pc, role, cur, mode, beat>>
store == <<chk, exec, approval>>
vars == <<fenceVars, store, effects, local, faults>>

Places ==
  {"idle", "model", "request", "requested", "paused", "prepare", "check", "close",
   "dispatch", "running", "replace", "answer", "finish", "fail", "abort",
   "preflight", "acquire", "resume", "route", "recover", "mark", "redispatch", "rerunning",
   "raised", "block", "blockrun", "continue"}

Roles == {"chat", "expired", "resolved"}

\* "call": scheduler.run.  The others are recovery's: an approved call executed
\* for the first time, a replay or retry, a call to mark uncertain, a rejected
\* or expired approval, and a checkpoint that does not validate.
Modes == {"call", "forced", "retry", "mark", "rejected", "blocked"}

\* "on" while the heartbeat task lives; "error" when a chat heartbeat left an error
\* for the producer; "ended" when the producer has failed the run for it, while the
\* agent's own task still runs.
Beats == {"off", "on", "error", "ended"}

Absent == "absent"

\* The statuses stored in every row, and the places and modes of every task, stay
\* within the vocabularies the code declares.
TypeOK ==
  /\ FenceTypeOK
  /\ chk \in [phase: CheckpointPhase \cup {Absent}, call: Calls \cup {NoCall}, ok: BOOLEAN]
  /\ exec \in [Calls -> ExecutionStatus \cup {Absent}]
  /\ approval \in [Calls -> ApprovalStatus \cup {Absent}]
  /\ effects \in [Calls -> 0..MaxEffects]
  /\ pc \in [Tasks -> Places]
  /\ role \in [Tasks -> Roles]
  /\ cur \in [Tasks -> Calls \cup {NoCall}]
  /\ mode \in [Tasks -> Modes]
  /\ beat \in [Tasks -> Beats]
  /\ faults \in 0..MaxFaults

Init ==
  /\ FenceInit
  /\ chk = [phase |-> Absent, call |-> NoCall, ok |-> TRUE]
  /\ exec = [c \in Calls |-> Absent]
  /\ approval = [c \in Calls |-> Absent]
  /\ effects = [c \in Calls |-> 0]
  /\ pc = [w \in Tasks |-> "idle"]
  /\ role = [w \in Tasks |-> "chat"]
  /\ cur = [w \in Tasks |-> NoCall]
  /\ mode = [w \in Tasks |-> "call"]
  /\ beat = [w \in Tasks |-> "off"]
  /\ faults = 0

-----------------------------------------------------------------------------
(* Helpers *)

Goto(w, p) == pc' = [pc EXCEPT ![w] = p]

\* The call in hand, while there is one.
Holds(w, c) == cur' = [cur EXCEPT ![w] = c]

\* A task moves on; the call is put away where it plays no further part.
Moves(w, from, p) ==
  /\ pc[w] = from
  /\ Goto(w, p)
  /\ Holds(w, IF p \in {"model", "fail"} THEN NoCall ELSE cur[w])
  /\ UNCHANGED <<role, mode, beat, faults>>

\* The task is done with the run: its coroutines end, its lease copies are gone.
Leaves(w) ==
  /\ pc' = [pc EXCEPT ![w] = "idle"]
  /\ role' = [role EXCEPT ![w] = "chat"]
  /\ Holds(w, NoCall)
  /\ mode' = [mode EXCEPT ![w] = "call"]
  /\ beat' = [beat EXCEPT ![w] = "off"]

Checkpoint(p, c) == chk' = [phase |-> p, call |-> c, ok |-> TRUE]

\* NONTERMINAL_EXECUTION_STATUSES: failed_retryable is one of them.
Nonterminal(c) == exec[c] \notin TERMINAL_EXECUTION_STATUSES \cup {Absent}

HasNonterminalExecution == \E c \in Calls : Nonterminal(c)

Resolved(c) == approval[c] \in {"approved", "rejected", "expired"}

\* Mutant: the fencing token of the snapshot is not compared.
CanPersistAnyToken(w) ==
  /\ run.lease = "live"
  /\ \/ prepared[w] = "fresh"
     \/ prepared[w] # "none" /\ run.cancel /\ run.status \in {"running", "resuming"}

\* _lease_for_observed_result: the snapshot, moved to the version a cancellation
\* request left, then checked by current_lease_predicate.
CanPersist(w) ==
  /\ run.lease = "live"
  /\ \/ prepared[w] = "fresh"
     \/ prepared[w] = "old" /\ run.cancel /\ run.status \in {"running", "resuming"}

\* The lease the result was written under, kept for handle.replace.
KeepLease(w) ==
  prepared' = [prepared EXCEPT ![w] = "fresh"] /\ UNCHANGED <<run, handle>>

\* Mutant: the result is stored without its checkpoint.
RecordResultOnly(w, c, s) ==
  /\ CanPersist(w)
  /\ exec[c] = "executing"
  /\ exec' = [exec EXCEPT ![c] = s]
  /\ UNCHANGED <<chk, approval, effects>>

\* complete_execution and the result checkpoint, in one transaction.
RecordResult(w, c, s) ==
  /\ CanPersist(w)
  /\ exec[c] = "executing"
  /\ exec' = [exec EXCEPT ![c] = s]
  /\ Checkpoint("execution_result_observed", c)
  /\ UNCHANGED <<approval, effects>>

Invoke(c) == effects' = [effects EXCEPT ![c] = IF @ < MaxEffects THEN @ + 1 ELSE @]

RecordFails(w) == ~CanPersist(w) \/ exec[cur[w]] # "executing"

-----------------------------------------------------------------------------
(* Starting a run and the agent loop *)

StartRun(w) ==
  /\ pc[w] = "idle"
  /\ FenceCreate(w, "running")
  /\ Checkpoint("run_started", NoCall)
  /\ Goto(w, "model")
  /\ beat' = [beat EXCEPT ![w] = "on"]
  /\ UNCHANGED <<exec, approval, effects, role, cur, mode, faults>>

\* raise_if_cancel_requested before every round, and a failing model call.
RoundFails(w) ==
  /\ Moves(w, "model", "fail")
  /\ UNCHANGED <<fenceVars, store, effects>>

\* The model asks for a tool; the scheduler reads the lease handle.
CallTool(w, c) ==
  /\ pc[w] = "model"
  /\ ~run.cancel
  /\ run.status # "cancelled"
  /\ exec[c] = Absent
  /\ FenceSnapshot(w)
  /\ Holds(w, c)
  /\ Goto(w, IF c \in NeedsApproval THEN "request" ELSE "prepare")
  /\ UNCHANGED <<store, effects, role, mode, beat, faults>>

\* The model answers with text.
AnswerText(w) ==
  /\ ~run.cancel
  /\ run.status # "cancelled"
  /\ Moves(w, "model", "answer")
  /\ UNCHANGED <<fenceVars, store, effects>>

\* persist_assistant_output: the handle's current lease, whatever the run status.
PersistAnswer(w) ==
  /\ Current(handle[w])
  /\ Moves(w, "answer", "finish")
  /\ Checkpoint("model_output_committed", NoCall)
  /\ UNCHANGED <<fenceVars, exec, approval, effects>>

PersistAnswerFails(w) ==
  /\ ~Current(handle[w])
  /\ Moves(w, "answer", "fail")
  /\ UNCHANGED <<fenceVars, store, effects>>

CanFinish(w, s) ==
  /\ Current(handle[w])
  /\ s \in LegalRunTargets(run.status)
  /\ s = "completed" => ~HasNonterminalExecution

\* finish_run_with_checkpoint through the handle; the task then ends.
FinishRun(w, s) ==
  /\ CanFinish(w, s)
  /\ FenceFinish(w, s)
  /\ Checkpoint("run_terminal", NoCall)
  /\ Leaves(w)
  /\ UNCHANGED <<exec, approval, effects, faults>>

\* A finish that raises: the chat stream goes on to its finally clause, a
\* recovery task lets the error escape and drops the run as it stands.
FinishFails(w, s, next) ==
  /\ ~CanFinish(w, s)
  /\ IF role[w] = "chat" /\ next # "idle"
     THEN /\ Goto(w, next)
          /\ beat' = [beat EXCEPT ![w] = "off"]
          /\ UNCHANGED <<fenceVars, role, cur, mode>>
     ELSE Leaves(w) /\ FenceDrop(w)
  /\ UNCHANGED <<store, effects, faults>>

\* The producer takes what the agent's task leaves in the queue, unless the
\* heartbeat's error came first.
Listens(w, p) == pc[w] = p /\ beat[w] \notin {"error", "ended"}

Complete(w) == Listens(w, "finish") /\ FinishRun(w, "completed")

CompleteRefused(w) == Listens(w, "finish") /\ FinishFails(w, "completed", "abort")

Fail(w) == Listens(w, "fail") /\ FinishRun(w, "failed_terminal")

FailRefused(w) == Listens(w, "fail") /\ FinishFails(w, "failed_terminal", "abort")

\* The heartbeat's error fails the run.  The agent's task is cancelled only in the
\* finally clause, after the events of the failure have been sent.
ProducerFails(w) ==
  /\ beat[w] = "error"
  /\ IF CanFinish(w, "failed_terminal")
     THEN /\ FenceTransition(w, "failed_terminal")
          /\ Checkpoint("run_terminal", NoCall)
          /\ beat' = [beat EXCEPT ![w] = "ended"]
          /\ UNCHANGED <<pc, cur>>
     ELSE /\ FenceForget(w)
          /\ Goto(w, "abort")
          /\ Holds(w, NoCall)
          /\ beat' = [beat EXCEPT ![w] = "off"]
          /\ UNCHANGED chk
  /\ UNCHANGED <<exec, approval, effects, role, mode, faults>>

ProducerEnds(w) ==
  /\ beat[w] = "ended"
  /\ Leaves(w)
  /\ FenceDrop(w)
  /\ UNCHANGED <<store, effects, faults>>

\* The finally clause: CANCELLED, or FAILED_TERMINAL when the deadline passed.
Abort(w) ==
  /\ pc[w] = "abort"
  /\ FinishRun(w, "cancelled") \/ FinishRun(w, "failed_terminal")

AbortRefused(w) ==
  /\ pc[w] = "abort"
  /\ FinishFails(w, "cancelled", "idle") \/ FinishFails(w, "failed_terminal", "idle")

-----------------------------------------------------------------------------
(* The tool scheduler *)

CanRequest(w) ==
  /\ Current(prepared[w])
  /\ "awaiting_user" \in LegalRunTargets(run.status)
  /\ ~HasNonterminalExecution

\* The approval row of call c.
InsertApproval(c) == approval' = [approval EXCEPT ![c] = "awaiting_user"]

\* _persist_approval_request: one transaction under the snapshot.
RequestApproval(w) ==
  /\ Moves(w, "request", "requested")
  /\ CanRequest(w)
  /\ FenceTransitionPrepared(w, "awaiting_user")
  /\ InsertApproval(cur[w])
  /\ exec' = [exec EXCEPT ![cur[w]] = "not_started"]
  /\ Checkpoint("awaiting_approval", cur[w])
  /\ UNCHANGED effects

\* A lease whose token or version moved is an InvalidTransitionError, which the
\* scheduler turns into a tool error for the model; a lapsed lease or another
\* active execution ends the round.
RequestApprovalFails(w) ==
  /\ ~CanRequest(w)
  /\ Moves(w, "request",
           IF prepared[w] = "fresh" /\ "awaiting_user" \in LegalRunTargets(run.status)
           THEN "fail" ELSE "model")
  /\ FenceForget(w)
  /\ UNCHANGED <<store, effects>>

\* The handle takes the transitioned lease,
ReplaceTransitioned(w) ==
  /\ Moves(w, "requested", "paused")
  /\ FenceReplace(w)
  /\ UNCHANGED <<store, effects>>

\* and the producer ends without a terminal status.
Pause(w) ==
  /\ Listens(w, "paused")
  /\ Leaves(w)
  /\ FenceDrop(w)
  /\ UNCHANGED <<store, effects, faults>>

\* Mutant: the NOT EXISTS clause on nonterminal executions is missing.
CanPrepareAlways(w) == Current(prepared[w])

CanPrepare(w) == Current(prepared[w]) /\ ~HasNonterminalExecution

\* _prepare_execution: the row, its move to EXECUTING and the checkpoint.
PrepareExecution(w) ==
  /\ Moves(w, "prepare", "check")
  /\ CanPrepare(w)
  /\ exec' = [exec EXCEPT ![cur[w]] = "executing"]
  /\ Checkpoint("execution_dispatching", cur[w])
  /\ UNCHANGED <<fenceVars, approval, effects>>

PrepareFails(w) ==
  /\ ~CanPrepare(w)
  /\ Moves(w, "prepare", "fail")
  /\ FenceForget(w)
  /\ UNCHANGED <<store, effects>>

\* _check_pre_dispatch_cancellation reads the handle, not the snapshot: the row
\* must carry the handle's version, or that version plus the cancellation.
PreDispatchCheck(w) ==
  LET current == handle[w] = "fresh" /\ run.lease = "live" /\ ~run.cancel
      cancelled == /\ handle[w] \in {"fresh", "old"} /\ run.lease = "live"
                   /\ run.cancel /\ run.status \in {"running", "resuming"}
  IN /\ \/ current /\ Moves(w, "check", "dispatch") /\ UNCHANGED fenceVars
        \/ cancelled /\ Moves(w, "check", "close") /\ UNCHANGED fenceVars
        \/ ~current /\ ~cancelled /\ Moves(w, "check", "fail") /\ FenceForget(w)
     /\ UNCHANGED <<store, effects>>

\* An error between preparation and dispatch (a busy database, say).
PreDispatchError(w) ==
  /\ Moves(w, "check", "close")
  /\ UNCHANGED <<fenceVars, store, effects>>

\* The prepared execution is closed without a dispatch.
CloseExecution(w) ==
  /\ Moves(w, "close", "replace")
  /\ KeepLease(w)
  /\ RecordResult(w, cur[w], "failed_retryable")

Dispatch(w) ==
  /\ Moves(w, "dispatch", "running")
  /\ Invoke(cur[w])
  /\ UNCHANGED <<fenceVars, store>>

\* The tool returns: no handle is passed on this path, so none is replaced.
ToolReturns(w) ==
  /\ Moves(w, "running", "model")
  /\ FenceForget(w)
  /\ \E s \in {"succeeded", "failed_terminal"} : RecordResult(w, cur[w], s)

\* Mutant: a raising tool is taken for one that was not dispatched.
RaisedAsRetryable(c) == "failed_retryable"

\* Mutant: the tool's own status word is stored.
RaisedAsError(c) == "error"

\* What a dispatched call is recorded as when its invocation raises.
RaisedStatus(c) ==
  IF StrategyOf[c] = "manual_uncertain" THEN "uncertain" ELSE "failed_terminal"

ToolRaises(w) ==
  /\ Moves(w, "running", "replace")
  /\ KeepLease(w)
  /\ RecordResult(w, cur[w], RaisedStatus(cur[w]))

ResultLost(w) ==
  /\ pc[w] \in {"close", "running"}
  /\ RecordFails(w)
  /\ Moves(w, pc[w], "fail")
  /\ FenceForget(w)
  /\ UNCHANGED <<store, effects>>

\* handle.replace(lease) follows the commit: a heartbeat in between is undone.
Replace(w) ==
  /\ pc[w] = "replace"
  /\ CASE mode[w] = "call" ->
            /\ Goto(w, "model") /\ Holds(w, NoCall)
            /\ FenceReplace(w) /\ UNCHANGED <<role, mode, beat>>
       [] mode[w] = "retry" ->
            Goto(w, "continue") /\ FenceReplace(w) /\ UNCHANGED <<role, cur, mode, beat>>
       [] mode[w] = "forced" /\ (exec[cur[w]] = "succeeded" \/ ~chk.ok) ->
            Goto(w, "route") /\ FenceReplace(w) /\ UNCHANGED <<role, cur, mode, beat>>
       [] OTHER -> Leaves(w) /\ FenceDrop(w)
  /\ UNCHANGED <<store, effects, faults>>

-----------------------------------------------------------------------------
(* The recovery worker *)

HasResolvedApproval == \E c \in Calls : Resolved(c)

\* Mutant: only decided approvals are looked for, lapsed leases are not.
ScanDecided(w) ==
  /\ pc[w] = "idle"
  /\ run.status = "awaiting_user" /\ HasResolvedApproval
  /\ Goto(w, "preflight")
  /\ role' = [role EXCEPT ![w] = "resolved"]
  /\ UNCHANGED <<fenceVars, store, effects, cur, mode, beat, faults>>

\* One row of _load_candidates, with what the query saw.
Scan(w) ==
  /\ pc[w] = "idle"
  /\ run.status \in ActiveRunStatuses
  /\ run.lease = "expired" \/ (run.status = "awaiting_user" /\ HasResolvedApproval)
  /\ Goto(w, "preflight")
  /\ role' = [role EXCEPT ![w] = IF HasResolvedApproval THEN "resolved" ELSE "expired"]
  /\ UNCHANGED <<fenceVars, store, effects, cur, mode, beat, faults>>

AwaitsUser == chk.phase = "awaiting_approval" /\ approval[chk.call] = "awaiting_user"

\* validate_live_run finds nothing to do.
NothingToDo ==
  chk.ok /\ (AwaitsUser \/ chk.phase = "run_terminal" \/ run.status \in TERMINAL_RUN_STATUSES)

\* get_run and validate_live_run, before any lease is taken.
Preflight(w) ==
  /\ pc[w] = "preflight"
  /\ IF run.status \in TERMINAL_RUN_STATUSES \/ NothingToDo
     THEN Leaves(w)
     ELSE /\ Goto(w, IF run.status = "awaiting_user" /\ (role[w] = "resolved" \/ ~chk.ok)
                     THEN "resume" ELSE "acquire")
          /\ mode' = [mode EXCEPT ![w] = IF chk.ok THEN "call" ELSE "blocked"]
          /\ UNCHANGED <<role, cur, beat>>
  /\ UNCHANGED <<fenceVars, store, effects, faults>>

\* acquire_run and resume_waiting_run start a heartbeat with the new lease.
AcquireRun(w) ==
  /\ \/ pc[w] = "acquire" /\ FenceTakeOver(w)
     \/ pc[w] = "resume" /\ FenceResumeWaiting(w)
  /\ Goto(w, "route")
  /\ beat' = [beat EXCEPT ![w] = "on"]
  /\ UNCHANGED <<store, effects, role, cur, mode, faults>>

LeaseConflict(w) ==
  /\ \/ pc[w] = "acquire" /\ (run.status \notin ActiveRunStatuses \/ run.lease = "live")
     \/ pc[w] = "resume" /\ run.status # "awaiting_user"
  /\ Leaves(w)
  /\ UNCHANGED <<fenceVars, store, effects, faults>>

\* _resume_resolved_approval_if_present has an approved or refused call to settle.
ApprovalToSettle(w) ==
  /\ role[w] = "resolved"
  /\ chk.call \in NeedsApproval
  /\ Resolved(chk.call)
  /\ exec[chk.call] = "not_started"

\* The checkpoint row names an execution: an approval's row does not.
HasExecution == chk.phase \in {"execution_dispatching", "execution_result_observed"}

\* Mutant: every dispatched call is taken to be repeatable.
DispatchActionRetry(c) == "retry"

\* _dispatch_recovery_action
DispatchAction(c) == IF StrategyOf[c] = "manual_uncertain" THEN "mark" ELSE "retry"

\* Mutant: an expired approval counts as a granted one.
GrantedUnlessRejected(c) == approval[c] # "rejected"

Granted(c) == approval[c] = "approved"

\* Where _execute_candidate goes with the lease in hand, and in which mode.
RouteOf(w) ==
  CASE mode[w] = "blocked" -> <<IF HasExecution THEN "block" ELSE "blockrun", "blocked">>
    [] ApprovalToSettle(w) /\ Granted(chk.call) -> <<"recover", "forced">>
    [] ApprovalToSettle(w) -> <<"block", "rejected">>
    [] ~chk.ok -> <<IF HasExecution THEN "block" ELSE "blockrun", "blocked">>
    [] NothingToDo -> <<"idle", "call">>
    [] chk.phase = "execution_dispatching" ->
         <<"recover", DispatchAction(chk.call)>>
    [] OTHER -> <<"continue", "call">>

\* _block_execution reads the handle when it starts.
Route(w) ==
  /\ pc[w] = "route"
  /\ IF RouteOf(w)[1] = "idle"
     THEN Leaves(w) /\ FenceDrop(w)
     ELSE /\ Goto(w, RouteOf(w)[1])
          /\ mode' = [mode EXCEPT ![w] = RouteOf(w)[2]]
          /\ Holds(w, chk.call)
          /\ IF RouteOf(w)[1] = "block" THEN FenceSnapshot(w) ELSE UNCHANGED fenceVars
          /\ UNCHANGED <<role, beat>>
  /\ UNCHANGED <<store, effects, faults>>

\* A recovery task that meets an error: the worker logs it and drops the run.
GivesUp(w) ==
  Leaves(w) /\ FenceDrop(w) /\ UNCHANGED <<store, effects, faults>>

\* The input, the builder, the policy or the approval binding do not match.
RefuseRecovery(w) ==
  /\ Moves(w, "recover", "block")
  /\ FenceSnapshot(w)
  /\ UNCHANGED <<store, effects>>

\* Mutant: the execution's own transition table is not consulted.
CanBlockAlways(w) == Current(prepared[w])

CanBlock(w) ==
  Current(prepared[w]) /\ BlockedStatuses \subseteq LegalExecutionTargets(exec[cur[w]])

AfterBlock(w) ==
  CASE mode[w] \in {"blocked", "forced"} -> "blockrun"
    [] mode[w] \in {"rejected", "retry"} -> "continue"
    [] OTHER -> "idle"

\* _block_execution: result message, execution and checkpoint in one transaction.
\* A missing builder ends the recovery there.
BlockExecution(w) ==
  /\ pc[w] = "block"
  /\ CanBlock(w)
  /\ \E s \in BlockedStatuses : exec' = [exec EXCEPT ![cur[w]] = s]
  /\ Checkpoint("execution_result_observed", cur[w])
  /\ \/ AfterBlock(w) # "idle" /\ Moves(w, "block", AfterBlock(w)) /\ FenceForget(w)
     \/ mode[w] \in {"forced", "retry", "mark"} /\ Leaves(w) /\ FenceDrop(w) /\ UNCHANGED faults
  /\ UNCHANGED <<approval, effects>>

BlockExecutionFails(w) == pc[w] = "block" /\ ~CanBlock(w) /\ GivesUp(w)

BlockRun(w) ==
  /\ pc[w] = "blockrun"
  /\ \E s \in BlockedStatuses :
       /\ cur[w] \in Calls /\ exec[cur[w]] \in BlockedStatuses => s = exec[cur[w]]
       /\ FinishRun(w, s)

BlockRunRefused(w) ==
  /\ pc[w] = "blockrun"
  /\ \E s \in BlockedStatuses : ~CanFinish(w, s)
  /\ GivesUp(w)

CanPrepareRecovery(w) ==
  mode[w] = "forced" => Current(handle[w]) /\ exec[cur[w]] = "not_started"

\* _prepare_recovery_execution: an approved call starts, under the handle's lease
\* as it is inside the transaction; a dispatched one is left as it is.  REPLAYING
\* is passed through inside the transaction.
PrepareRecovery(w) ==
  /\ mode[w] \in {"forced", "retry"}
  /\ CanPrepareRecovery(w)
  /\ Moves(w, "recover", "redispatch")
  /\ IF mode[w] = "forced"
     THEN /\ exec' = [exec EXCEPT ![cur[w]] = "executing"]
          /\ Checkpoint("execution_dispatching", cur[w])
     ELSE UNCHANGED <<exec, chk>>
  /\ UNCHANGED <<fenceVars, approval, effects>>

PrepareRecoveryFails(w) ==
  /\ pc[w] = "recover"
  /\ ~CanPrepareRecovery(w)
  /\ GivesUp(w)

\* The prepared execution takes the handle's lease after the transaction, and
\* the invocation runs with no further look at the run.
Redispatch(w) ==
  /\ Moves(w, "redispatch", "rerunning")
  /\ FenceSnapshot(w)
  /\ Invoke(cur[w])
  /\ UNCHANGED store

RecoveredToolReturns(w) ==
  /\ Moves(w, "rerunning", "replace")
  /\ KeepLease(w)
  /\ \E s \in {"succeeded", "failed_terminal"} : RecordResult(w, cur[w], s)

\* The error path, of the invocation or of its construction, reads the handle again
\* before it records the outcome.
RecoveredToolRaises(w) ==
  /\ pc[w] = "rerunning" \/ (pc[w] = "recover" /\ mode[w] = "retry")
  /\ Moves(w, pc[w], "raised")
  /\ FenceSnapshot(w)
  /\ UNCHANGED <<store, effects>>

RecordRaised(w) ==
  /\ Moves(w, "raised", "replace")
  /\ KeepLease(w)
  /\ RecordResult(w, cur[w], RaisedStatus(cur[w]))

\* _mark_uncertain_execution
BeginMark(w) ==
  /\ mode[w] = "mark"
  /\ Moves(w, "recover", "mark")
  /\ FenceSnapshot(w)
  /\ UNCHANGED <<store, effects>>

MarkUncertain(w) ==
  /\ Moves(w, "mark", "replace")
  /\ KeepLease(w)
  /\ RecordResult(w, cur[w], "uncertain")

RecoveredResultLost(w) ==
  /\ pc[w] \in {"rerunning", "raised", "mark"}
  /\ RecordFails(w)
  /\ GivesUp(w)

\* RuntimeRecoveryContinuationService.resume: back to RUNNING and to the model.
Continue(w) ==
  /\ pc[w] = "continue"
  /\ chk.ok \/ mode[w] = "rejected"
  /\ IF run.status = "resuming" THEN FenceTransition(w, "running") ELSE UNCHANGED fenceVars
  /\ Goto(w, "model")
  /\ mode' = [mode EXCEPT ![w] = "call"]
  /\ Holds(w, NoCall)
  /\ UNCHANGED <<store, effects, role, beat, faults>>

ContinueFails(w) ==
  /\ pc[w] = "continue"
  /\ \/ ~chk.ok /\ mode[w] # "rejected"
     \/ run.status = "resuming" /\ ~Current(handle[w])
  /\ GivesUp(w)

-----------------------------------------------------------------------------
(* Heartbeats, users, clocks and faults *)

Heartbeat(w) ==
  /\ beat[w] = "on"
  /\ FenceHeartbeat(w)
  /\ UNCHANGED <<store, effects, local, faults>>

\* StaleFenceError ends a chat stream, with no terminal status written; in a
\* recovery it ends the heartbeat task, and nobody looks at that.
HeartbeatLost(w) ==
  /\ beat[w] = "on"
  /\ ~Current(handle[w])
  /\ IF role[w] = "chat"
     THEN Leaves(w) /\ FenceDrop(w)
     ELSE beat' = [beat EXCEPT ![w] = "off"] /\ UNCHANGED <<fenceVars, pc, role, cur, mode>>
  /\ UNCHANGED <<store, effects, faults>>

Fault == faults < MaxFaults /\ faults' = faults + 1

\* Any other heartbeat error (a busy database): the producer of a chat run hears of
\* it, unless it has the agent's last item to take first.
HeartbeatError(w) ==
  /\ beat[w] = "on"
  /\ Fault
  /\ beat' = [beat EXCEPT ![w] =
                IF role[w] = "chat" /\ pc[w] \notin {"finish", "fail", "paused"}
                THEN "error" ELSE "off"]
  /\ UNCHANGED <<fenceVars, store, effects, pc, role, cur, mode>>

\* The producer is cancelled, by the user, a deadline or a shutdown: once for a
\* chat stream, whose finally clause then runs; a fault for a recovery.
CancelProducer(w) ==
  /\ pc[w] \notin {"idle", "abort"} /\ beat[w] # "ended"
  /\ IF role[w] = "chat"
     THEN /\ Goto(w, "abort")
          /\ Holds(w, NoCall)
          /\ beat' = [beat EXCEPT ![w] = "off"]
          /\ FenceForget(w)
          /\ UNCHANGED <<role, mode, faults>>
     ELSE Leaves(w) /\ FenceDrop(w) /\ Fault
  /\ UNCHANGED <<store, effects>>

\* The process dies: its tasks are gone, the database is as committed.
Crash(w) ==
  /\ pc[w] # "idle"
  /\ Fault
  /\ Leaves(w)
  /\ FenceDrop(w)
  /\ UNCHANGED <<store, effects>>

Renewed == \E w \in Tasks : beat[w] = "on" /\ handle[w] = "fresh"

\* The database clock passes lease_expires_at: always possible when nobody renews
\* the lease, a fault (a stalled process) when somebody does.
Expire ==
  /\ run.lease = "live"
  /\ run.status \in ActiveRunStatuses
  /\ IF Renewed THEN Fault ELSE UNCHANGED faults
  /\ FenceExpire
  /\ UNCHANGED <<store, effects, local>>

\* The latest checkpoint turns out corrupt, or of a version this build cannot read.
Damage ==
  /\ chk.ok
  /\ run.status \in ActiveRunStatuses
  /\ \A w \in Tasks : handle[w] = "none"
  /\ Fault
  /\ chk' = [chk EXCEPT !.ok = FALSE]
  /\ UNCHANGED <<fenceVars, exec, approval, effects, local>>

\* decide_approval: in time, or late, which records the expiry.
Decide(c) ==
  /\ approval[c] = "awaiting_user"
  /\ \E s \in {"approved", "rejected", "expired"} : approval' = [approval EXCEPT ![c] = s]
  /\ UNCHANGED <<fenceVars, chk, exec, effects, local, faults>>

\* request_cancellation: a waiting run ends at once, with its checkpoint.
RequestCancellation ==
  /\ FenceRequestCancellation
  /\ IF run.status = "awaiting_user"
     THEN Checkpoint("run_terminal", NoCall)
     ELSE UNCHANGED chk
  /\ UNCHANGED <<exec, approval, effects, local, faults>>

-----------------------------------------------------------------------------
ProducerStep(w) == ProducerFails(w) \/ ProducerEnds(w)

AgentStep(w) ==
  \/ StartRun(w) \/ RoundFails(w) \/ (\E c \in Calls : CallTool(w, c)) \/ AnswerText(w)
  \/ PersistAnswer(w) \/ PersistAnswerFails(w)
  \/ Complete(w) \/ CompleteRefused(w) \/ Fail(w) \/ FailRefused(w)
  \/ Abort(w) \/ AbortRefused(w)

ToolStep(w) ==
  \/ RequestApproval(w) \/ RequestApprovalFails(w) \/ ReplaceTransitioned(w) \/ Pause(w)
  \/ PrepareExecution(w) \/ PrepareFails(w)
  \/ PreDispatchCheck(w) \/ PreDispatchError(w) \/ CloseExecution(w) \/ Dispatch(w)
  \/ ToolReturns(w) \/ ToolRaises(w) \/ ResultLost(w) \/ Replace(w)

RecoveryStep(w) ==
  \/ Scan(w) \/ Preflight(w) \/ AcquireRun(w) \/ LeaseConflict(w) \/ Route(w)
  \/ RefuseRecovery(w) \/ BlockExecution(w) \/ BlockExecutionFails(w)
  \/ BlockRun(w) \/ BlockRunRefused(w)
  \/ PrepareRecovery(w) \/ PrepareRecoveryFails(w) \/ Redispatch(w)
  \/ RecoveredToolReturns(w) \/ RecoveredToolRaises(w) \/ RecordRaised(w)
  \/ BeginMark(w) \/ MarkUncertain(w) \/ RecoveredResultLost(w)
  \/ Continue(w) \/ ContinueFails(w)

TaskStep(w) == AgentStep(w) \/ ToolStep(w) \/ RecoveryStep(w)

EnvironmentStep ==
  \/ \E w \in Tasks : Heartbeat(w) \/ HeartbeatLost(w) \/ HeartbeatError(w)
                       \/ CancelProducer(w) \/ Crash(w)
  \/ Expire \/ Damage \/ RequestCancellation
  \/ \E c \in Calls : Decide(c)

Next == (\E w \in Tasks : TaskStep(w) \/ ProducerStep(w)) \/ EnvironmentStep

Spec == Init /\ [][Next]_vars

-----------------------------------------------------------------------------
(* What holds of every run *)

\* A tool whose repetition is not known to be harmless is invoked at most once,
\* over all crashes, lost leases, takeovers and retries: recovery marks its
\* execution uncertain and never dispatches it again.
ManualAtMostOnce ==
  \A c \in Calls : StrategyOf[c] = "manual_uncertain" => effects[c] <= 1

\* A call the policy sends to the user is invoked only once the user approved
\* it, whatever scan, takeover or resume found the run in the meantime.
ApprovedBeforeInvoked ==
  \A c \in NeedsApproval : effects[c] > 0 => approval[c] = "approved"

\* The execution row is written ahead: an invoked call never looks like one that
\* was not started; nor, when it must not be repeated, like one that failed
\* before its dispatch.
InvokedIsRecorded ==
  \A c \in Calls : effects[c] > 0 =>
    /\ exec[c] \notin {Absent, "not_started"}
    /\ StrategyOf[c] = "manual_uncertain" => exec[c] # "failed_retryable"

\* The latest checkpoint tells recovery the truth about the call it names, and an
\* execution in flight of a run that is not over is the one it names.  At most one
\* execution of a run is under way, however many tasks believe they drive it; a
\* completed run has none.
CheckpointAgrees ==
  /\ chk.phase = "awaiting_approval" => exec[chk.call] = "not_started"
  /\ chk.phase = "execution_dispatching" => exec[chk.call] = "executing"
  /\ chk.phase = "execution_result_observed" =>
       exec[chk.call] \in {"failed_retryable"} \cup TERMINAL_EXECUTION_STATUSES
  /\ chk.phase = "run_terminal" => run.status \in TERMINAL_RUN_STATUSES
  /\ \A c \in Calls : exec[c] = "executing" /\ run.status \in ActiveRunStatuses =>
       chk.phase = "execution_dispatching" /\ chk.call = c
  /\ \A c, d \in Calls : Nonterminal(c) /\ Nonterminal(d) => c = d
  /\ run.status = "completed" => ~HasNonterminalExecution

FinalStep ==
  /\ run.status \in TERMINAL_RUN_STATUSES => run'.status = run.status
  /\ chk.phase = "run_terminal" /\ (\A w \in Tasks : beat[w] # "ended") =>
       exec' = exec /\ chk' = chk
  /\ \A c \in Calls : exec[c] \in TERMINAL_EXECUTION_STATUSES => exec'[c] = exec[c]
  /\ \A c \in Calls : Resolved(c) => approval'[c] = approval[c]

\* What is over stays over: no status follows a terminal one, no late result
\* overwrites a terminal execution, no decision is revised, and nothing is recorded
\* after the terminal checkpoint.  The last has one exception: the agent's task
\* of a run that was failed for a heartbeat error holds the terminal run's lease until
\* the producer cancels it, and neither executions nor checkpoints look at the status.
FinalIsFinal == [][FinalStep]_vars

\* Every step here is a step of the abstract fence or leaves it alone, so what
\* RunLease shows of the fence holds for the whole workflow: in particular no
\* path of the scheduler or of recovery makes a fenced lease valid again.
KeepsFence == FenceSpec

-----------------------------------------------------------------------------
(* Progress *)

\* The transactions that write under a snapshot taken just before, which a
\* heartbeat may outdate while they wait for the database: not always.  A tool's
\* result is not one of them, since the tool may outlast every heartbeat interval.
SnapshotWrite(w) ==
  \/ PrepareExecution(w) \/ RequestApproval(w)
  \/ RecordRaised(w) \/ MarkUncertain(w) \/ BlockExecution(w)

Fairness ==
  /\ \A w \in Tasks :
       WF_vars(TaskStep(w)) /\ SF_vars(SnapshotWrite(w)) /\ WF_vars(ProducerStep(w))
  /\ WF_vars(Expire /\ ~Renewed)

FairSpec == Spec /\ Fairness

\* Nothing is left to do, or it is the user's turn.
Settled == run.status \notin ActiveRunStatuses \/ AwaitsUser

\* The states recovery cannot lead out of: an execution that is nonterminal and
\* has no way on, so the run may not complete, and a damaged checkpoint of an
\* execution that may not be blocked any more.
Stranded ==
  \/ \E c \in Calls :
       \/ exec[c] = "failed_retryable"
       \/ exec[c] = "not_started" /\ chk.phase # "awaiting_approval"
  \/ ~chk.ok /\ chk.phase = "execution_result_observed"

\* A repeated tool has outlasted the snapshot its result would be written under.
Outlasted == \E w \in Tasks : pc[w] = "rerunning" /\ mode[w] = "retry" /\ RecordFails(w)

\* Whatever crashes, lapses and lost renewals befall it, a run always ends or
\* comes back to its user, unless it is one of the stranded ones, or the result of a
\* call that is safe to repeat is lost each time it is repeated: the call takes
\* longer than a heartbeat interval, and recovery dispatches it again and again.
RunSettles == []<>(Settled \/ Stranded \/ Outlasted)

-----------------------------------------------------------------------------
(* What the documents say, and the code does not keep *)

\* docs/architecture.md: a terminal run leaves no nonterminal execution behind.
\* finish_run_with_checkpoint asks only when the run completes, and
\* request_cancellation never does.
TerminalRunIsClosed == run.status \in TERMINAL_RUN_STATUSES => ~HasNonterminalExecution

\* docs/configuration.md: the lease is no task timeout.  Then a task that still
\* holds the run's current lease can record what its tool returned, however many
\* heartbeats the tool outlived; _persist_execution_result goes by the version
\* the row had before the dispatch.
LeaseIsNoTimeout ==
  \A w \in Tasks :
    pc[w] \in {"running", "rerunning"} /\ Current(handle[w]) /\ ~run.cancel => CanPersist(w)

\* docs/architecture.md: a run with a corrupt or incompatible checkpoint fails
\* closed, to a blocked status.  Once the execution the checkpoint names is
\* terminal, _block_execution raises, time after time.
DamageFailsClosed == ~chk.ok ~> run.status \in TERMINAL_RUN_STATUSES

=============================================================================
