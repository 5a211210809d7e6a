------------------------------ MODULE Account ------------------------------
(***************************************************************************)
(* The life of one e-mail address's account: login, deletion request,      *)
(* recovery and purge (auth/router.py, auth/middleware.py, api/account.py, *)
(* deletion/service.py, deletion/worker.py, repositories/deletions.py).    *)
(* A database transaction is one action.  Verification codes are in        *)
(* VerificationCodes; here the address's owner can always prove it.        *)
(***************************************************************************)
EXTENDS Integers, FiniteSets

CONSTANTS Workers,         \* deletion workers: an old process may still run
          MaxCycles,       \* bound: deletions requested, recovered or done
          MaxPurgeFaults,  \* bound: failed removals, slow workers, ended loops, restarts
          TokenWidth       \* bound: where fencing tokens and versions start again

VARIABLES user,      \* [status, id, epoch]
          delJob,    \* [status, id, due, owner, token, version, live]
          sessions,  \* tokens issued: [id, epoch, cycle]
          recovery,  \* recovery tokens issued: [id, job]
          files,     \* do the account's workspace files exist
          chat,      \* a request of the account in the process: "none", "admitted", "checked", "running"
          chatRun,   \* the row of its run: [status, live, tool]; live: its lease, tool: one EXECUTING
          toolLeft,  \* is an execution of an ended run still EXECUTING
          tenantRevoked,   \* has the process revoked the tenant's runtime
          revoking,  \* request or recover has committed and must still revoke
          purger,    \* [Workers -> [at, id, token, version]]
          cycle, purgeFaults

accountVars == <<user, delJob, sessions, recovery, files, chat, chatRun, toolLeft,
                 tenantRevoked, revoking, purger, cycle, purgeFaults>>

activityVars == <<chat, chatRun, toolLeft>>

ASSUME AccountBounds == TokenWidth \in Nat \ {0}

NoUser == [status |-> "none", id |-> 0, epoch |-> 0]
NoDelJob == [status |-> "none", id |-> 0, due |-> FALSE, owner |-> "none", token |-> 0, version |-> 0, live |-> FALSE]
NoChatRun == [status |-> "none", live |-> FALSE, tool |-> FALSE]
IdleWorker == [at |-> "idle", id |-> 0, token |-> 0, version |-> 0]

----------------------------------------------------------------------------
(* Authentication *)

\* AuthMiddleware: the token's user, of the epoch the token was issued in.
Authenticates(t) == user.status # "none" /\ user.id = t.id /\ user.epoch = t.epoch

\* An account pending deletion is admitted to the deletion routes only.
Admits(t) == Authenticates(t) /\ user.status = "active"

create_user_with_default_workspace == [status |-> "active", id |-> cycle + 1, epoch |-> 0]

\* verify: the account is created when there is none; one that is pending
\* deletion is refused.
verify ==
  /\ user.status # "pending_purge"
  /\ user' = IF user.status = "none" THEN create_user_with_default_workspace ELSE user
  /\ files' = (files \/ user.status = "none")
  /\ sessions' = sessions \cup {[id |-> user'.id, epoch |-> user'.epoch, cycle |-> cycle]}
  /\ UNCHANGED <<delJob, recovery, activityVars, tenantRevoked, revoking, purger, cycle, purgeFaults>>

\* What a request does leaves the account and its deletion alone.
AccountUnchanged == UNCHANGED <<user, delJob, sessions, recovery, files, tenantRevoked, revoking, purger, cycle>>

\* A chat request passes the middleware.
admit_chat(t) ==
  /\ chat = "none" /\ chatRun = NoChatRun /\ t \in sessions /\ Admits(t)
  /\ chat' = "admitted"
  /\ AccountUnchanged /\ UNCHANGED <<chatRun, toolLeft, purgeFaults>>

\* run_setup refuses a revoked tenant; the setup reads the user's row again.
setup_chat ==
  /\ chat = "admitted"
  /\ chat' = IF tenantRevoked \/ user.status # "active" THEN "none" ELSE "checked"
  /\ AccountUnchanged /\ UNCHANGED <<chatRun, toolLeft, purgeFaults>>

\* start_run_with_checkpoint: the run has its row and its lease, whatever
\* became of the user since the setup read it.
start_chat ==
  /\ chat = "checked" /\ chat' = "running"
  /\ chatRun' = [NoChatRun EXCEPT !.status = "running", !.live = TRUE]
  /\ AccountUnchanged /\ UNCHANGED <<toolLeft, purgeFaults>>

\* A tool of the run is executed, and its result is recorded.
execute_tool ==
  /\ chat = "running" /\ chatRun' = [chatRun EXCEPT !.tool = ~@]
  /\ AccountUnchanged /\ UNCHANGED <<chat, toolLeft, purgeFaults>>

\* The run asks for an approval and waits; its lease is left to run out.
await_user ==
  /\ chat = "running" /\ ~chatRun.tool
  /\ chat' = "none" /\ chatRun' = [chatRun EXCEPT !.status = "waiting"]
  /\ AccountUnchanged /\ UNCHANGED <<toolLeft, purgeFaults>>

answer_approval(t) ==
  /\ chatRun.status = "waiting" /\ t \in sessions /\ Admits(t)
  /\ chatRun' = [chatRun EXCEPT !.status = "answered"]
  /\ AccountUnchanged /\ UNCHANGED <<chat, toolLeft, purgeFaults>>

\* Setup and producer are over, by themselves or cancelled.  The end of the run
\* is written, or that fails and is logged; an execution that was cancelled
\* stays EXECUTING, and nothing looks at it once the run has ended.
Stopped(saved) ==
  /\ chat' = IF chat \in {"checked", "running"} THEN "none" ELSE chat
  /\ IF chat = "running" /\ saved
     THEN chatRun' = NoChatRun /\ toolLeft' = (toolLeft \/ chatRun.tool)
     ELSE UNCHANGED <<chatRun, toolLeft>>

end_chat(saved) ==
  /\ chat = "running" /\ Stopped(saved)
  /\ AccountUnchanged /\ UNCHANGED purgeFaults

\* Nobody renews the lease of a run that no producer runs.
run_lease_expires ==
  /\ chatRun.live /\ chat # "running"
  /\ chatRun' = [chatRun EXCEPT !.live = FALSE]
  /\ AccountUnchanged /\ UNCHANGED <<chat, toolLeft, purgeFaults>>

\* WorkflowRecoveryWorker: a run whose lease ran out, or whose approval was
\* answered, goes on, unless the process has revoked the tenant.
recover_run ==
  /\ chat = "none" /\ ~tenantRevoked
  /\ chatRun.status = "answered" \/ (chatRun.status = "running" /\ ~chatRun.live)
  /\ chat' = "running" /\ chatRun' = [chatRun EXCEPT !.status = "running", !.live = TRUE]
  /\ AccountUnchanged /\ UNCHANGED <<toolLeft, purgeFaults>>

----------------------------------------------------------------------------
(* DeletionService *)

\* The user row of a requested deletion: sessions issued so far end with it.
mark_pending_purge == [user EXCEPT !.status = "pending_purge", !.epoch = @ + 1]

\* Mutant: the recovered account is as it was before the deletion.
RestoreEpoch == [user EXCEPT !.status = "active", !.epoch = @ - 1]

\* The user row of a recovered account.
restore_active == [user EXCEPT !.status = "active", !.epoch = @ + 1]

\* Runs that run, valid leases of runs that have not ended, and executions that
\* run, of ended runs too: is there any (count_blocking_activity > 0).
BlockingActivity == chatRun.status = "running" \/ chatRun.live \/ chatRun.tool \/ toolLeft

\* Runs that wait for an approval, or for its answer to be taken, are cancelled.
expire_waiting_work == IF chatRun.status \in {"waiting", "answered"} THEN NoChatRun ELSE chatRun

create_scheduled == [NoDelJob EXCEPT !.status = "scheduled", !.id = cycle + 1]

\* request: refused while a run is active; asked again, it changes nothing.
request_account_deletion(t) ==
  /\ t \in sessions /\ Admits(t) /\ cycle < MaxCycles
  /\ ~BlockingActivity /\ chatRun' = expire_waiting_work
  /\ delJob' = create_scheduled /\ user' = mark_pending_purge
  /\ revoking' = TRUE /\ cycle' = cycle + 1
  /\ UNCHANGED <<sessions, recovery, files, chat, toolLeft, tenantRevoked, purger, purgeFaults>>

\* After the commit the runtime is revoked: its runs are cancelled, and no more start.
revoke_account(saved) ==
  /\ revoking /\ revoking' = FALSE
  /\ tenantRevoked' = TRUE /\ Stopped(saved)
  /\ UNCHANGED <<user, delJob, sessions, recovery, files, purger, cycle, purgeFaults>>

\* Mutant: any account pending deletion can be recovered.
OpenWhilePending == user.status = "pending_purge"

\* The recovery window: the job is scheduled and not due.
RecoveryOpen == user.status = "pending_purge" /\ delJob.status = "scheduled" /\ ~delJob.due

\* verify_deletion_recovery_code binds its token to user and job.
verify_deletion_recovery_code ==
  /\ RecoveryOpen
  /\ recovery' = recovery \cup {[id |-> user.id, job |-> delJob.id]}
  /\ UNCHANGED <<user, delJob, sessions, files, activityVars, tenantRevoked, revoking, purger, cycle, purgeFaults>>

delete_scheduled == NoDelJob

\* recover: the scheduled job is deleted and the account is active again.
recover(r) ==
  /\ r \in recovery /\ r.id = user.id /\ r.job = delJob.id /\ RecoveryOpen /\ cycle < MaxCycles
  /\ delJob' = delete_scheduled /\ user' = restore_active
  /\ revoking' = TRUE /\ cycle' = cycle + 1
  /\ recovery' = recovery \ {r}
  /\ UNCHANGED <<sessions, files, activityVars, tenantRevoked, purger, purgeFaults>>

\* The next fencing token or version.  They are only compared for equality, and
\* starting again makes a stale claim harder to tell, never easier.
Bump(n) == IF n < TokenWidth THEN n + 1 ELSE 1

\* The row as the worker read it: owner, fencing token and version.
Owns(w) ==
  /\ delJob.status = "running" /\ delJob.owner = w
  /\ delJob.token = purger[w].token /\ delJob.version = purger[w].version

\* Time: the job is due; a claim or a heartbeat is too old.
purge_after ==
  /\ delJob.status = "scheduled" /\ ~delJob.due
  /\ delJob' = [delJob EXCEPT !.due = TRUE]
  /\ UNCHANGED <<user, sessions, recovery, files, activityVars, tenantRevoked, revoking, purger, cycle, purgeFaults>>

lease_expires ==
  LET slow == \E w \in Workers : Owns(w) IN    \* under a worker that still works
  /\ delJob.live /\ delJob' = [delJob EXCEPT !.live = FALSE]
  /\ slow => purgeFaults < MaxPurgeFaults
  /\ purgeFaults' = IF slow THEN purgeFaults + 1 ELSE purgeFaults
  /\ UNCHANGED <<user, sessions, recovery, files, activityVars, tenantRevoked, revoking, purger, cycle>>

----------------------------------------------------------------------------
(* DeletionWorker *)

\* Mutant: a running job is never claimed again.
ClaimScheduledOnly == delJob.status = "scheduled" /\ delJob.due

\* next_claimable_tenant_id, and again claim_due.
Claimable ==
  \/ delJob.status = "scheduled" /\ delJob.due
  \/ delJob.status = "running" /\ ~delJob.live

claim_due(w) ==
  /\ purger[w].at = "idle" /\ Claimable
  /\ delJob' = [delJob EXCEPT !.status = "running", !.owner = w, !.live = TRUE,
                              !.token = Bump(@), !.version = Bump(@)]
  /\ purger' = [purger EXCEPT ![w] = [at |-> "revoke", id |-> user.id,
                                      token |-> delJob'.token, version |-> delJob'.version]]
  /\ UNCHANGED <<user, sessions, recovery, files, activityVars, tenantRevoked, revoking, cycle, purgeFaults>>

\* Is the job that the worker claimed one of the account that is there.
OfAccount(w) == purger[w].id = user.id

purge_revoke(w, saved) ==
  /\ purger[w].at = "revoke"
  /\ IF OfAccount(w) THEN tenantRevoked' = TRUE /\ Stopped(saved) ELSE UNCHANGED <<activityVars, tenantRevoked>>
  /\ purger' = [purger EXCEPT ![w].at = "check"]
  /\ UNCHANGED <<user, delJob, sessions, recovery, files, revoking, cycle, purgeFaults>>

\* mark_retryable_error leaves the claim to run out.
mark_retryable_error(w) == IF Owns(w) THEN [delJob EXCEPT !.version = Bump(@)] ELSE delJob

\* ACTIVE_RUNS: anything that may still execute ends the attempt.
purge_check(w) ==
  /\ purger[w].at = "check"
  /\ IF OfAccount(w) /\ BlockingActivity
     THEN purger' = [purger EXCEPT ![w] = IdleWorker] /\ delJob' = mark_retryable_error(w)
     ELSE purger' = [purger EXCEPT ![w].at = "heartbeat"] /\ UNCHANGED delJob
  /\ UNCHANGED <<user, sessions, recovery, files, activityVars, tenantRevoked, revoking, cycle, purgeFaults>>

heartbeat == [delJob EXCEPT !.live = TRUE, !.version = Bump(@)]

\* Before the files are removed and before the rows are: a worker
\* whose claim was taken over stops.
purge_heartbeat(w, at, next) ==
  /\ purger[w].at = at
  /\ IF Owns(w)
     THEN /\ delJob' = heartbeat
          /\ purger' = [purger EXCEPT ![w].at = next, ![w].version = Bump(@)]
     ELSE purger' = [purger EXCEPT ![w] = IdleWorker] /\ UNCHANGED delJob
  /\ UNCHANGED <<user, sessions, recovery, files, activityVars, tenantRevoked, revoking, cycle, purgeFaults>>

\* rmtree of the tenant's workspaces and agent storage, all of it or not.
purge_remove(w) ==
  /\ purger[w].at = "remove"
  /\ files' = (files /\ ~OfAccount(w))
  /\ purger' = [purger EXCEPT ![w].at = "heartbeat2"]
  /\ UNCHANGED <<user, delJob, sessions, recovery, activityVars, tenantRevoked, revoking, cycle, purgeFaults>>

purge_remove_fails(w) ==
  /\ purger[w].at = "remove" /\ purgeFaults < MaxPurgeFaults /\ purgeFaults' = purgeFaults + 1
  /\ delJob' = mark_retryable_error(w)
  /\ purger' = [purger EXCEPT ![w] = IdleWorker]
  /\ UNCHANGED <<user, sessions, recovery, files, activityVars, tenantRevoked, revoking, cycle>>

\* purge_account: every row of the tenant, in one transaction.  A request that
\* was admitted before finds no user, and the next account is another tenant.
purge_account(w) ==
  LET mine == user.status = "pending_purge" /\ OfAccount(w) /\ Owns(w) IN
  /\ purger[w].at = "purge"
  /\ purger' = [purger EXCEPT ![w] = IdleWorker]
  /\ user' = IF mine THEN NoUser ELSE user
  /\ delJob' = IF mine THEN NoDelJob ELSE delJob
  /\ cycle' = IF mine THEN cycle + 1 ELSE cycle
  /\ chat' = IF mine THEN "none" ELSE chat
  /\ chatRun' = IF mine THEN NoChatRun ELSE chatRun
  /\ toolLeft' = (toolLeft /\ ~mine)
  /\ tenantRevoked' = (tenantRevoked /\ ~mine) /\ revoking' = (revoking /\ ~mine)
  /\ UNCHANGED <<sessions, recovery, files, purgeFaults>>

\* Whatever _purge_job or a claim raises outside its try ends the deletion loop,
\* and the job with its claim is left; a restarted process has a new loop.
loop_ends(w) ==
  /\ purger[w].at # "ended" /\ purgeFaults < MaxPurgeFaults /\ purgeFaults' = purgeFaults + 1
  /\ purger' = [purger EXCEPT ![w] = [IdleWorker EXCEPT !.at = "ended"]]
  /\ UNCHANGED <<user, delJob, sessions, recovery, files, activityVars, tenantRevoked, revoking, cycle>>

restart_worker(w) ==
  /\ purger[w] # IdleWorker /\ purgeFaults < MaxPurgeFaults /\ purgeFaults' = purgeFaults + 1
  /\ purger' = [purger EXCEPT ![w] = IdleWorker]
  /\ UNCHANGED <<user, delJob, sessions, recovery, files, activityVars, tenantRevoked, revoking, cycle>>

\* The server restarts: the requests in flight and the set of revoked tenants
\* are gone, the rows of runs and executions are not.
restart_server ==
  /\ purgeFaults < MaxPurgeFaults /\ purgeFaults' = purgeFaults + 1
  /\ tenantRevoked' = FALSE /\ revoking' = FALSE /\ chat' = "none"
  /\ UNCHANGED <<user, delJob, sessions, recovery, files, chatRun, toolLeft, purger, cycle>>

----------------------------------------------------------------------------
AccountInit ==
  /\ user = NoUser /\ delJob = NoDelJob /\ sessions = {} /\ recovery = {}
  /\ files = FALSE /\ chat = "none" /\ chatRun = NoChatRun /\ toolLeft = FALSE
  /\ tenantRevoked = FALSE /\ revoking = FALSE
  /\ purger = [w \in Workers |-> IdleWorker] /\ cycle = 0 /\ purgeFaults = 0

WorkerStep(w) ==
  \/ claim_due(w) \/ (\E saved \in BOOLEAN : purge_revoke(w, saved)) \/ purge_check(w)
  \/ purge_heartbeat(w, "heartbeat", "remove") \/ purge_remove(w)
  \/ purge_heartbeat(w, "heartbeat2", "purge") \/ purge_account(w)

AccountNext ==
  \/ verify \/ (\E t \in sessions : admit_chat(t) \/ answer_approval(t) \/ request_account_deletion(t))
  \/ setup_chat \/ start_chat \/ execute_tool \/ await_user \/ run_lease_expires \/ recover_run
  \/ \E saved \in BOOLEAN : end_chat(saved) \/ revoke_account(saved)
  \/ verify_deletion_recovery_code \/ (\E r \in recovery : recover(r))
  \/ purge_after \/ lease_expires
  \/ \E w \in Workers : WorkerStep(w) \/ purge_remove_fails(w) \/ loop_ends(w) \/ restart_worker(w)
  \/ restart_server

AccountSpec == AccountInit /\ [][AccountNext]_accountVars

----------------------------------------------------------------------------
(* Properties *)

AccountTypeOK ==
  /\ user.status \in {"none", "active", "pending_purge"}
  /\ delJob.status \in {"none", "scheduled", "running"}
  /\ delJob.status # "none" => user.status = "pending_purge"
  /\ chat \in {"none", "admitted", "checked", "running"} /\ (chat = "running" => chatRun.status = "running")
  /\ chatRun = NoChatRun \/ chatRun.status \in {"running", "waiting", "answered"}
  /\ \A w \in Workers : purger[w].token <= TokenWidth /\ purger[w].version <= TokenWidth

\* An account that is active, or that its owner may still recover, has all its
\* files: they are removed only once recovery is closed for good (recover,
\* claim_due, _purge_job).
RecoverableKeepsFiles == (user.status = "active" \/ RecoveryOpen) => files

\* Every login made before a deletion request, a recovery or a purge has ended:
\* AuthMiddleware accepts no token that was issued before the last of them,
\* whatever happened to the account since.
SessionsEnd == \A t \in sessions : Authenticates(t) => t.cycle = cycle

\* The rows that a producer leaves when its end cannot be written or it is
\* cancelled in a tool: nothing settles them in a process that has revoked the
\* tenant, and each blocks the purge.
Abandoned == chat # "running" /\ (chatRun.status = "running" \/ toolLeft)

LoopsEnded == \A w \in Workers : purger[w].at = "ended"

\* A deletion whose time has come is completed, though workers stop, their
\* claims run out, files fail to be removed and runs start late: it stays due
\* for good only if rows are abandoned, or if every deletion loop has ended
\* (run_until_stopped, _purge_job, count_blocking_activity).
DueIsPurged == <>[]delJob.due => <>[](Abandoned \/ LoopsEnded)

=============================================================================
