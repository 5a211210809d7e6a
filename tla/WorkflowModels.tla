--------------------------- MODULE WorkflowModels ---------------------------
(***************************************************************************)
(* The status vocabularies and the legal-transition tables that every      *)
(* workflow transaction validates against (workflow/models.py).            *)
(***************************************************************************)

TERMINAL_RUN_STATUSES ==
  {"completed", "failed_terminal", "cancelled",
   "blocked_corrupt", "blocked_incompatible"}

ActiveRunStatuses == {"running", "awaiting_user", "resuming"}

RunStatus == ActiveRunStatuses \cup TERMINAL_RUN_STATUSES

BlockedStatuses == {"blocked_corrupt", "blocked_incompatible"}

\* The targets run status s may move to; a terminal run has no entry, and
\* the empty set is the default of the lookup.
LegalRunTargets(s) ==
  CASE s = "running" -> {"awaiting_user"} \cup TERMINAL_RUN_STATUSES
    [] s = "awaiting_user" -> {"resuming", "cancelled"}
    [] s = "resuming" ->
         {"running", "awaiting_user"} \cup (TERMINAL_RUN_STATUSES \ {"completed"})
    [] OTHER -> {}

ApprovalStatus == {"awaiting_user", "approved", "rejected", "expired"}

TERMINAL_EXECUTION_STATUSES ==
  {"succeeded", "failed_terminal", "uncertain"} \cup BlockedStatuses

ExecutionStatus ==
  {"not_started", "replaying", "executing", "failed_retryable"}
    \cup TERMINAL_EXECUTION_STATUSES

LegalExecutionTargets(s) ==
  CASE s = "not_started" -> {"replaying", "executing"} \cup BlockedStatuses
    [] s = "replaying" -> {"executing"} \cup BlockedStatuses
    [] s = "executing" -> {"failed_retryable"} \cup TERMINAL_EXECUTION_STATUSES
    [] OTHER -> {}

RecoveryStrategy == {"read_only_replay", "idempotent_retry", "manual_uncertain"}

CheckpointPhase ==
  {"run_started", "model_output_committed", "awaiting_approval",
   "execution_dispatching", "execution_result_observed", "run_terminal"}

=============================================================================
