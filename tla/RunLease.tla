------------------------------ MODULE RunLease ------------------------------
(***************************************************************************)
(* The lease columns of one agent_runs row and the copies of it that tasks *)
(* keep: owner, fencing token, version and expiry, as the transactions of  *)
(* storage/repositories/workflow.py read and write them.  `now` is the     *)
(* database clock, the only clock these transactions consult.              *)
(***************************************************************************)
EXTENDS Integers, WorkflowModels

CONSTANTS Tasks,      \* asyncio tasks, of any process
          Owners,     \* runtime_instance_ids
          OwnerOf,    \* [Tasks -> Owners]: two tasks of one runtime share its id
          NoOwner,
          LeaseTTL,   \* lease_ttl_ms, in clock ticks
          MaxNow,     \* bound on the clock
          MaxVersion  \* bound on the writes of the row

ASSUME TasksAssumption == OwnerOf \in [Tasks -> Owners] /\ NoOwner \notin Owners
ASSUME TTLAssumption == LeaseTTL \in Nat \ {0}
ASSUME BoundsAssumption == MaxNow \in Nat /\ MaxVersion \in Nat

VARIABLES now, run, handle, prepared

vars == <<now, run, handle, prepared>>

\* RunLease: what a task carries of the row.
Lease == [owner: Owners \cup {NoOwner}, token: Nat, version: Nat, expires: Nat]

NoLease == [owner |-> NoOwner, token |-> 0, version |-> 0, expires |-> 0]

\* RunRecord: "absent" is the row before it is inserted.
Row == [status: RunStatus \cup {"absent"}, cancel: BOOLEAN,
        owner: Owners \cup {NoOwner}, token: Nat, version: Nat, expires: Nat]

LeaseOf(r) == [owner |-> r.owner, token |-> r.token,
               version |-> r.version, expires |-> r.expires]

\* current_lease_predicate
HasCurrentLease(l) ==
  /\ run.owner = l.owner
  /\ run.token = l.token
  /\ run.version = l.version
  /\ run.expires > now

CanWrite == run.version < MaxVersion

-----------------------------------------------------------------------------
Init ==
  /\ now = 0
  /\ run = [status |-> "absent", cancel |-> FALSE, owner |-> NoOwner,
            token |-> 0, version |-> 0, expires |-> 0]
  /\ handle = [t \in Tasks |-> NoLease]
  /\ prepared = [t \in Tasks |-> NoLease]

CreateRun(t, s) ==
  /\ run.status = "absent"
  /\ s \in {"running", "awaiting_user"}
  /\ CanWrite
  /\ run' = [status |-> s, cancel |-> FALSE, owner |-> OwnerOf[t],
             token |-> 1, version |-> 1, expires |-> now + LeaseTTL]
  /\ handle' = [handle EXCEPT ![t] = LeaseOf(run')]
  /\ UNCHANGED <<now, prepared>>

\* Mutant: the update forgets to bump the version.
WrittenSameVersion(s, c, o, k, e) ==
  [status |-> s, cancel |-> c, owner |-> o, token |-> k,
   version |-> run.version, expires |-> e]

\* An update of the row: status s, cancellation flag c, owner o, token k and
\* expiry e; every update bumps the version.
Written(s, c, o, k, e) ==
  [status |-> s, cancel |-> c, owner |-> o, token |-> k,
   version |-> run.version + 1, expires |-> e]

\* A lease-guarded update renews the lease.
Renewed(s) == Written(s, run.cancel, run.owner, run.token, now + LeaseTTL)

\* Mutant: the fencing token is not incremented.
AcquiredSameToken(t, s) == Written(s, run.cancel, OwnerOf[t], run.token, now + LeaseTTL)

\* An acquisition gives the run to task t under the next fencing token.
Acquired(t, s) == Written(s, run.cancel, OwnerOf[t], run.token + 1, now + LeaseTTL)

\* Mutant: a heartbeat moves the expiry and leaves the version.
RefreshLeaseSameVersion(t) ==
  /\ HasCurrentLease(handle[t])
  /\ CanWrite
  /\ run' = [Renewed(run.status) EXCEPT !.version = run.version]
  /\ handle' = [handle EXCEPT ![t] = LeaseOf(run')]
  /\ UNCHANGED <<now, prepared>>

\* RunLeaseHandle.refresh(heartbeat): the handle is locked around the update.
RefreshLease(t) ==
  /\ HasCurrentLease(handle[t])
  /\ CanWrite
  /\ run' = Renewed(run.status)
  /\ handle' = [handle EXCEPT ![t] = LeaseOf(run')]
  /\ UNCHANGED <<now, prepared>>

\* Mutant: the transition table is not consulted.
TransitionRunUnchecked(t, s) ==
  /\ HasCurrentLease(handle[t])
  /\ CanWrite
  /\ run' = Renewed(s)
  /\ handle' = [handle EXCEPT ![t] = LeaseOf(run')]
  /\ UNCHANGED <<now, prepared>>

\* RunLeaseHandle.refresh(transition_run / finish_run...)
TransitionRun(t, s) ==
  /\ s \in LegalRunTargets(run.status)
  /\ HasCurrentLease(handle[t])
  /\ CanWrite
  /\ run' = Renewed(s)
  /\ handle' = [handle EXCEPT ![t] = LeaseOf(run')]
  /\ UNCHANGED <<now, prepared>>

\* transition_run with the lease read before the transaction (tools/scheduler.py).
TransitionPrepared(t, s) ==
  /\ s \in LegalRunTargets(run.status)
  /\ HasCurrentLease(prepared[t])
  /\ CanWrite
  /\ run' = Renewed(s)
  /\ prepared' = [prepared EXCEPT ![t] = LeaseOf(run')]
  /\ UNCHANGED <<now, handle>>

TakeOverRun(t) ==
  /\ run.status \in ActiveRunStatuses
  /\ run.expires <= now
  /\ CanWrite
  /\ run' = Acquired(t, run.status)
  /\ handle' = [handle EXCEPT ![t] = LeaseOf(run')]
  /\ UNCHANGED <<now, prepared>>

\* No expiry test: a waiting run is resumed whoever holds its lease.
ResumeWaitingRun(t) ==
  /\ run.status = "awaiting_user"
  /\ CanWrite
  /\ run' = Acquired(t, "resuming")
  /\ handle' = [handle EXCEPT ![t] = LeaseOf(run')]
  /\ UNCHANGED <<now, prepared>>

\* No lease is needed and none is handed out; the lease is renewed only when
\* the run was waiting and is cancelled on the spot.
RequestCancellation ==
  /\ run.status \in ActiveRunStatuses
  /\ ~run.cancel
  /\ CanWrite
  /\ run' = IF run.status = "awaiting_user"
            THEN Written("cancelled", TRUE, run.owner, run.token, now + LeaseTTL)
            ELSE Written(run.status, TRUE, run.owner, run.token, run.expires)
  /\ UNCHANGED <<now, handle, prepared>>

\* A cancelled setup reads the row, builds a lease from whatever it finds there
\* and finishes the run with it: the read and the compare-and-set write act as
\* one step, whoever owns the lease by then.
CancelSetup ==
  /\ run.status \in ActiveRunStatuses
  /\ run.expires > now
  /\ CanWrite
  /\ run' = Renewed("cancelled")
  /\ UNCHANGED <<now, handle, prepared>>

\* lease = await run_lease_handle.current()
Snapshot(t) ==
  /\ prepared' = [prepared EXCEPT ![t] = handle[t]]
  /\ UNCHANGED <<now, run, handle>>

\* await run_lease_handle.replace(lease)
ReplaceHandle(t) ==
  /\ handle' = [handle EXCEPT ![t] = prepared[t]]
  /\ prepared' = [prepared EXCEPT ![t] = NoLease]
  /\ UNCHANGED <<now, run>>

\* Mutant: owners are compared and tokens are not.
AdoptObservedAnyToken(t) ==
  /\ run.cancel
  /\ run.status \in {"running", "resuming"}
  /\ prepared[t].owner = run.owner
  /\ prepared' = [prepared EXCEPT ![t] = LeaseOf(run)]
  /\ UNCHANGED <<now, run, handle>>

\* _lease_for_observed_result: a result observed after a cancellation request
\* takes the version the request left, if the token is still its own.
AdoptObserved(t) ==
  /\ run.cancel
  /\ run.status \in {"running", "resuming"}
  /\ prepared[t].owner = run.owner
  /\ prepared[t].token = run.token
  /\ prepared' = [prepared EXCEPT ![t] = LeaseOf(run)]
  /\ UNCHANGED <<now, run, handle>>

\* The task ends or its process dies: its copies are gone, the row stays.
DropLease(t) ==
  /\ handle' = [handle EXCEPT ![t] = NoLease]
  /\ prepared' = [prepared EXCEPT ![t] = NoLease]
  /\ UNCHANGED <<now, run>>

Tick ==
  /\ now < MaxNow
  /\ now' = now + 1
  /\ UNCHANGED <<run, handle, prepared>>

TaskStep(t) ==
  \/ \E s \in RunStatus :
       CreateRun(t, s) \/ TransitionRun(t, s) \/ TransitionPrepared(t, s)
  \/ RefreshLease(t) \/ TakeOverRun(t) \/ ResumeWaitingRun(t)
  \/ Snapshot(t) \/ ReplaceHandle(t) \/ AdoptObserved(t) \/ DropLease(t)

Next == (\E t \in Tasks : TaskStep(t)) \/ RequestCancellation \/ CancelSetup \/ Tick

Spec == Init /\ [][Next]_vars

-----------------------------------------------------------------------------
(* Properties *)

\* Every variable keeps its type; RunLease and RunRecord are these records.
TypeOK ==
  /\ now \in Nat
  /\ run \in Row
  /\ handle \in [Tasks -> Lease]
  /\ prepared \in [Tasks -> Lease]

Copies(t) == {handle[t], prepared[t]}

\* A fencing token names one task: whatever sequence of heartbeats, takeovers,
\* snapshots and replacements produced them, the copies two tasks hold never
\* carry the same token, even when both tasks run in one runtime and so share
\* their lease_owner.  This is what lets current_lease_predicate trust a token.
TokenHeldByOneTask ==
  \A t, u \in Tasks :
    t # u => \A l \in Copies(t), m \in Copies(u) : l.token = m.token => l.token = 0

\* No copy is ahead of the row, and a copy under an older token also has an
\* older version: a fenced copy cannot match the row by coincidence.
CopiesFollowRow ==
  \A t \in Tasks : \A l \in Copies(t) :
    /\ l.token <= run.token
    /\ l.version <= run.version
    /\ l.token < run.token => l.version < run.version

\* The version alone identifies the lease: a copy that agrees with the row on
\* `version` agrees with it on owner, token and expiry.  _validate_run_transition
\* and _lease_for_observed_result compare versions and rely on the rest.
VersionIdentifiesLease ==
  \A t \in Tasks : \A l \in Copies(t) : l.version = run.version => l = LeaseOf(run)

\* The row before its insertion, and the tokens and versions after it.
RowShape ==
  /\ run.status = "absent" <=> run.token = 0
  /\ run.token = 0 <=> run.version = 0
  /\ run.token = 0 => LeaseOf(run) = NoLease /\ ~run.cancel

\* The inductive invariant behind the three lease invariants.
LeaseInv ==
  /\ TypeOK
  /\ RowShape
  /\ CopiesFollowRow
  /\ VersionIdentifiesLease
  /\ TokenHeldByOneTask

RowHistoryStep ==
  run' # run =>
    /\ run'.version = run.version + 1
    /\ run'.token \in {run.token, run.token + 1}
    /\ run'.owner # run.owner => run'.token = run.token + 1
    /\ run.status \in TERMINAL_RUN_STATUSES => run'.status = run.status
    /\ run.cancel => run'.cancel

\* Every change of the row is one version step; a change of owner takes
\* a new fencing token, and tokens are not skipped; a terminal run never
\* changes status, and a cancellation request is never withdrawn.
RowHistory == [][RowHistoryStep]_vars

\* The refinement mapping.
AbsRun == [status |-> run.status, cancel |-> run.cancel,
           lease |-> IF run.expires <= now THEN "expired" ELSE "live"]

AbsCopy(l) ==
  IF l.token = 0 THEN "none"
  ELSE IF l.token # run.token THEN "fenced"
  ELSE IF l.version = run.version THEN "fresh" ELSE "old"

AbsHandle == [t \in Tasks |-> AbsCopy(handle[t])]

AbsPrepared == [t \in Tasks |-> AbsCopy(prepared[t])]

Fence == INSTANCE RunFence WITH run <- AbsRun, handle <- AbsHandle, prepared <- AbsPrepared

\* The row and the copies implement the abstract fence: clocks, versions and
\* tokens decide exactly what "fresh", "old" and "fenced" promise.
ImplementsFence == Fence!FenceSpec

=============================================================================
