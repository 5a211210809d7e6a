------------------------------ MODULE RunFence ------------------------------
(***************************************************************************)
(* What the lease on a run row promises, without clocks or counters.       *)
(*                                                                         *)
(* A task keeps up to two copies of the run's lease: `handle`, the shared  *)
(* RunLeaseHandle that heartbeats refresh, and `prepared`, the snapshot an *)
(* operation took before it opened its transaction.  A copy is             *)
(*   "none"    the task holds no lease,                                    *)
(*   "fresh"   the row has not been written since the copy was made,       *)
(*   "old"     the row has a newer version under the same fencing token,   *)
(*   "fenced"  the row has a newer fencing token.                          *)
(* Only a fresh copy of an unexpired lease may write, an old copy becomes  *)
(* fresh again only by being read from the row under its own token, and a  *)
(* fenced one never does.                                                  *)
(***************************************************************************)
EXTENDS WorkflowModels

CONSTANT Tasks        \* the asyncio tasks that may drive this run, of any process

VARIABLES run,        \* [status, cancel (requested), lease (live?)] of the row
          handle, prepared   \* [Tasks -> LeaseState]

fenceVars == <<run, handle, prepared>>

LeaseState == {"none", "fresh", "old", "fenced"}

RunRow(s, c, l) == [status |-> s, cancel |-> c, lease |-> l]

Aged(f) == [t \in Tasks |-> IF f[t] = "fresh" THEN "old" ELSE f[t]]

Fenced(f) == [t \in Tasks |-> IF f[t] = "none" THEN "none" ELSE "fenced"]

FenceTypeOK ==
  /\ run \in [status: RunStatus \cup {"absent"}, cancel: BOOLEAN,
            lease: {"live", "expired"}]
  /\ handle \in [Tasks -> LeaseState]
  /\ prepared \in [Tasks -> LeaseState]

FenceInit ==
  /\ run = RunRow("absent", FALSE, "expired")
  /\ handle = [t \in Tasks |-> "none"]
  /\ prepared = [t \in Tasks |-> "none"]

Current(copy) == copy = "fresh" /\ run.lease = "live"

\* The row is written under t's lease; the new lease is kept in t's handle.
WriteRun(t, s) ==
  /\ Current(handle[t])
  /\ run' = RunRow(s, run.cancel, "live")
  /\ handle' = [Aged(handle) EXCEPT ![t] = "fresh"]
  /\ prepared' = Aged(prepared)

FenceCreate(t, s) ==
  /\ run.status = "absent"
  /\ s \in {"running", "awaiting_user"}
  /\ run' = RunRow(s, FALSE, "live")
  /\ handle' = [handle EXCEPT ![t] = "fresh"]
  /\ UNCHANGED prepared

FenceHeartbeat(t) == WriteRun(t, run.status)

FenceTransition(t, s) == s \in LegalRunTargets(run.status) /\ WriteRun(t, s)

\* The same from the snapshot: the handle is left behind until it is replaced.
FenceTransitionPrepared(t, s) ==
  /\ Current(prepared[t])
  /\ s \in LegalRunTargets(run.status)
  /\ run' = RunRow(s, run.cancel, "live")
  /\ prepared' = [Aged(prepared) EXCEPT ![t] = "fresh"]
  /\ handle' = Aged(handle)

\* A new fencing token: every other copy is fenced, for good.
NewToken(t) ==
  /\ handle' = [Fenced(handle) EXCEPT ![t] = "fresh"]
  /\ prepared' = Fenced(prepared)

FenceTakeOver(t) ==
  /\ run.status \in ActiveRunStatuses
  /\ run.lease = "expired"
  /\ run' = RunRow(run.status, run.cancel, "live")
  /\ NewToken(t)

FenceResumeWaiting(t) ==
  /\ run.status = "awaiting_user"
  /\ run' = RunRow("resuming", run.cancel, "live")
  /\ NewToken(t)

FenceRequestCancellation ==
  /\ run.status \in ActiveRunStatuses
  /\ ~run.cancel
  /\ run' = IF run.status = "awaiting_user"
            THEN RunRow("cancelled", TRUE, "live")
            ELSE RunRow(run.status, TRUE, run.lease)
  /\ handle' = Aged(handle)
  /\ prepared' = Aged(prepared)

FenceCancelSetup ==
  /\ run.lease = "live"
  /\ run.status \in ActiveRunStatuses
  /\ run' = RunRow("cancelled", run.cancel, "live")
  /\ handle' = Aged(handle)
  /\ prepared' = Aged(prepared)

FenceSnapshot(t) ==
  /\ prepared' = [prepared EXCEPT ![t] = handle[t]]
  /\ UNCHANGED <<run, handle>>

FenceReplace(t) ==
  /\ handle' = [handle EXCEPT ![t] = prepared[t]]
  /\ prepared' = [prepared EXCEPT ![t] = "none"]
  /\ UNCHANGED run

FenceAdopt(t) ==
  /\ run.cancel
  /\ run.status \in {"running", "resuming"}
  /\ prepared[t] = "old"
  /\ prepared' = [prepared EXCEPT ![t] = "fresh"]
  /\ UNCHANGED <<run, handle>>

FenceDrop(t) ==
  /\ handle' = [handle EXCEPT ![t] = "none"]
  /\ prepared' = [prepared EXCEPT ![t] = "none"]
  /\ UNCHANGED run

\* The operation that took the snapshot is over.
FenceForget(t) ==
  /\ prepared' = [prepared EXCEPT ![t] = "none"]
  /\ UNCHANGED <<run, handle>>

\* The transition with which the task is done with the run.
FenceFinish(t, s) ==
  /\ s \in LegalRunTargets(run.status)
  /\ Current(handle[t])
  /\ run' = RunRow(s, run.cancel, "live")
  /\ handle' = [Aged(handle) EXCEPT ![t] = "none"]
  /\ prepared' = [Aged(prepared) EXCEPT ![t] = "none"]

FenceExpire ==
  /\ run' = RunRow(run.status, run.cancel, "expired")
  /\ UNCHANGED <<handle, prepared>>

FenceNext ==
  \/ \E t \in Tasks :
       \/ \E s \in RunStatus : FenceCreate(t, s) \/ FenceTransition(t, s)
                                 \/ FenceTransitionPrepared(t, s) \/ FenceFinish(t, s)
       \/ FenceHeartbeat(t) \/ FenceTakeOver(t) \/ FenceResumeWaiting(t)
       \/ FenceSnapshot(t) \/ FenceReplace(t) \/ FenceAdopt(t) \/ FenceDrop(t)
       \/ FenceForget(t)
  \/ FenceRequestCancellation \/ FenceCancelSetup \/ FenceExpire

FenceSpec == FenceInit /\ [][FenceNext]_fenceVars

=============================================================================
