----------------------------- MODULE RunProofs -----------------------------
(***************************************************************************)
(* Machine-checked proofs about what a run holds while it works: its lease *)
(* (RunLease), for any tasks, runtimes and TTL, and the tokens reserved    *)
(* for its model calls (Inference), for any calls, runs and limits.        *)
(***************************************************************************)
EXTENDS RunLease, Inference, TLAPS

-----------------------------------------------------------------------------
(* The lease of a run *)

USE DEF LeaseOf, NoLease, Written, Renewed, Acquired

\* LEGAL_RUN_TRANSITIONS leads from active statuses to run statuses only.
LEMMA LegalTargets ==
  ASSUME NEW s, NEW u \in LegalRunTargets(s)
  PROVE  /\ s \in ActiveRunStatuses
         /\ u \in RunStatus
BY DEF LegalRunTargets, ActiveRunStatuses, RunStatus, TERMINAL_RUN_STATUSES

\* The status vocabularies the transactions range over.
LEMMA StatusKinds ==
  /\ "absent" \notin RunStatus
  /\ ActiveRunStatuses \subseteq RunStatus
  /\ ActiveRunStatuses \cap TERMINAL_RUN_STATUSES = {}
  /\ TERMINAL_RUN_STATUSES \subseteq RunStatus
  /\ ActiveRunStatuses = {"running", "awaiting_user", "resuming"}
  /\ "cancelled" \in RunStatus
BY DEF RunStatus, ActiveRunStatuses, TERMINAL_RUN_STATUSES

\* Every transaction and every move of a lease copy keeps the types.
LEMMA TypeStep == TypeOK /\ [Next]_vars => TypeOK'
<1> SUFFICES ASSUME TypeOK, [Next]_vars PROVE TypeOK'
  OBVIOUS
<1> USE TasksAssumption, TTLAssumption, StatusKinds, LegalTargets DEF TypeOK, Row, Lease
<1>1. ASSUME NEW t \in Tasks, NEW s \in RunStatus, CreateRun(t, s) PROVE TypeOK'
  BY <1>1 DEF CreateRun
<1>2. ASSUME NEW t \in Tasks, NEW s \in RunStatus, TransitionRun(t, s) PROVE TypeOK'
  BY <1>2 DEF TransitionRun
<1>3. ASSUME NEW t \in Tasks, NEW s \in RunStatus, TransitionPrepared(t, s) PROVE TypeOK'
  BY <1>3 DEF TransitionPrepared
<1>4. ASSUME NEW t \in Tasks, RefreshLease(t) PROVE TypeOK'
  BY <1>4 DEF RefreshLease
<1>5. ASSUME NEW t \in Tasks, TakeOverRun(t) PROVE TypeOK'
  BY <1>5 DEF TakeOverRun
<1>6. ASSUME NEW t \in Tasks, ResumeWaitingRun(t) PROVE TypeOK'
  BY <1>6 DEF ResumeWaitingRun
<1>7. ASSUME NEW t \in Tasks, Snapshot(t) PROVE TypeOK'
  BY <1>7 DEF Snapshot
<1>8. ASSUME NEW t \in Tasks, ReplaceHandle(t) PROVE TypeOK'
  BY <1>8 DEF ReplaceHandle
<1>9. ASSUME NEW t \in Tasks, AdoptObserved(t) PROVE TypeOK'
  BY <1>9 DEF AdoptObserved
<1>10. ASSUME NEW t \in Tasks, DropLease(t) PROVE TypeOK'
  BY <1>10 DEF DropLease
<1>11. CASE RequestCancellation
  BY <1>11 DEF RequestCancellation
<1>12. CASE CancelSetup
  BY <1>12 DEF CancelSetup
<1>13. CASE Tick
  BY <1>13 DEF Tick
<1>14. CASE UNCHANGED vars
  BY <1>14 DEF vars
<1>q. QED
  BY <1>1, <1>2, <1>3, <1>4, <1>5, <1>6, <1>7, <1>8, <1>9, <1>10, <1>11, <1>12, <1>13,
     <1>14 DEF Next, TaskStep

\* Every transaction and every move of a lease copy preserves LeaseInv.
LEMMA LeaseStep == LeaseInv /\ [Next]_vars => LeaseInv'
<1> SUFFICES ASSUME LeaseInv, [Next]_vars PROVE LeaseInv'
  OBVIOUS
<1>t. TypeOK /\ TypeOK'
  BY TypeStep DEF LeaseInv
<1>u. RowShape /\ CopiesFollowRow /\ VersionIdentifiesLease /\ TokenHeldByOneTask
  BY DEF LeaseInv
<1> DEFINE Rest == RowShape /\ CopiesFollowRow /\ VersionIdentifiesLease /\ TokenHeldByOneTask
<1> USE <1>t, <1>u, TasksAssumption, TTLAssumption, StatusKinds, LegalTargets
<1> USE DEF TypeOK, Row, Lease, Copies, HasCurrentLease
<1>1. ASSUME NEW t \in Tasks, NEW s \in RunStatus, CreateRun(t, s) PROVE Rest'
  <2>1. RowShape'
    BY <1>1 DEF CreateRun, RowShape
  <2>2. CopiesFollowRow'
    BY <1>1 DEF CreateRun, RowShape, CopiesFollowRow
  <2>3. VersionIdentifiesLease'
    BY <1>1 DEF CreateRun, RowShape, CopiesFollowRow, VersionIdentifiesLease
  <2>4. TokenHeldByOneTask'
    BY <1>1 DEF CreateRun, RowShape, CopiesFollowRow, TokenHeldByOneTask
  <2> QED
    BY <2>1, <2>2, <2>3, <2>4
<1>2. ASSUME NEW t \in Tasks, NEW s \in RunStatus, TransitionRun(t, s) PROVE Rest'
  <2>1. RowShape'
    BY <1>2 DEF TransitionRun, RowShape
  <2>2. CopiesFollowRow'
    BY <1>2 DEF TransitionRun, RowShape, CopiesFollowRow
  <2>3. VersionIdentifiesLease'
    BY <1>2 DEF TransitionRun, RowShape, CopiesFollowRow, VersionIdentifiesLease
  <2>4. TokenHeldByOneTask'
    BY <1>2 DEF TransitionRun, RowShape, CopiesFollowRow, TokenHeldByOneTask
  <2> QED
    BY <2>1, <2>2, <2>3, <2>4
<1>3. ASSUME NEW t \in Tasks, NEW s \in RunStatus, TransitionPrepared(t, s) PROVE Rest'
  <2>1. RowShape'
    BY <1>3 DEF TransitionPrepared, RowShape
  <2>2. CopiesFollowRow'
    BY <1>3 DEF TransitionPrepared, RowShape, CopiesFollowRow
  <2>3. VersionIdentifiesLease'
    BY <1>3 DEF TransitionPrepared, RowShape, CopiesFollowRow, VersionIdentifiesLease
  <2>4. TokenHeldByOneTask'
    BY <1>3 DEF TransitionPrepared, RowShape, CopiesFollowRow, TokenHeldByOneTask
  <2> QED
    BY <2>1, <2>2, <2>3, <2>4
<1>4. ASSUME NEW t \in Tasks, RefreshLease(t) PROVE Rest'
  <2>1. RowShape'
    BY <1>4 DEF RefreshLease, RowShape
  <2>2. CopiesFollowRow'
    BY <1>4 DEF RefreshLease, RowShape, CopiesFollowRow
  <2>3. VersionIdentifiesLease'
    BY <1>4 DEF RefreshLease, RowShape, CopiesFollowRow, VersionIdentifiesLease
  <2>4. TokenHeldByOneTask'
    BY <1>4 DEF RefreshLease, RowShape, CopiesFollowRow, TokenHeldByOneTask
  <2> QED
    BY <2>1, <2>2, <2>3, <2>4
<1>5. ASSUME NEW t \in Tasks, TakeOverRun(t) PROVE Rest'
  <2>1. RowShape'
    BY <1>5 DEF TakeOverRun, RowShape
  <2>2. CopiesFollowRow'
    BY <1>5 DEF TakeOverRun, RowShape, CopiesFollowRow
  <2>3. VersionIdentifiesLease'
    BY <1>5 DEF TakeOverRun, RowShape, CopiesFollowRow, VersionIdentifiesLease
  <2>4. TokenHeldByOneTask'
    BY <1>5 DEF TakeOverRun, RowShape, CopiesFollowRow, TokenHeldByOneTask
  <2> QED
    BY <2>1, <2>2, <2>3, <2>4
<1>6. ASSUME NEW t \in Tasks, ResumeWaitingRun(t) PROVE Rest'
  <2>1. RowShape'
    BY <1>6 DEF ResumeWaitingRun, RowShape
  <2>2. CopiesFollowRow'
    BY <1>6 DEF ResumeWaitingRun, RowShape, CopiesFollowRow
  <2>3. VersionIdentifiesLease'
    BY <1>6 DEF ResumeWaitingRun, RowShape, CopiesFollowRow, VersionIdentifiesLease
  <2>4. TokenHeldByOneTask'
    BY <1>6 DEF ResumeWaitingRun, RowShape, CopiesFollowRow, TokenHeldByOneTask
  <2> QED
    BY <2>1, <2>2, <2>3, <2>4
<1>7. ASSUME NEW t \in Tasks, Snapshot(t) PROVE Rest'
  <2>1. RowShape'
    BY <1>7 DEF Snapshot, RowShape
  <2>2. CopiesFollowRow'
    BY <1>7 DEF Snapshot, RowShape, CopiesFollowRow
  <2>3. VersionIdentifiesLease'
    BY <1>7 DEF Snapshot, RowShape, CopiesFollowRow, VersionIdentifiesLease
  <2>4. TokenHeldByOneTask'
    BY <1>7 DEF Snapshot, RowShape, CopiesFollowRow, TokenHeldByOneTask
  <2> QED
    BY <2>1, <2>2, <2>3, <2>4
<1>8. ASSUME NEW t \in Tasks, ReplaceHandle(t) PROVE Rest'
  <2>1. RowShape'
    BY <1>8 DEF ReplaceHandle, RowShape
  <2>2. CopiesFollowRow'
    BY <1>8 DEF ReplaceHandle, RowShape, CopiesFollowRow
  <2>3. VersionIdentifiesLease'
    BY <1>8 DEF ReplaceHandle, RowShape, CopiesFollowRow, VersionIdentifiesLease
  <2>4. TokenHeldByOneTask'
    BY <1>8 DEF ReplaceHandle, RowShape, CopiesFollowRow, TokenHeldByOneTask
  <2> QED
    BY <2>1, <2>2, <2>3, <2>4
<1>9. ASSUME NEW t \in Tasks, AdoptObserved(t) PROVE Rest'
  <2>1. RowShape'
    BY <1>9 DEF AdoptObserved, RowShape
  <2>2. CopiesFollowRow'
    BY <1>9 DEF AdoptObserved, RowShape, CopiesFollowRow
  <2>3. VersionIdentifiesLease'
    BY <1>9 DEF AdoptObserved, RowShape, CopiesFollowRow, VersionIdentifiesLease
  <2>4. TokenHeldByOneTask'
    BY <1>9 DEF AdoptObserved, RowShape, CopiesFollowRow, TokenHeldByOneTask
  <2> QED
    BY <2>1, <2>2, <2>3, <2>4
<1>10. ASSUME NEW t \in Tasks, DropLease(t) PROVE Rest'
  <2>1. RowShape'
    BY <1>10 DEF DropLease, RowShape
  <2>2. CopiesFollowRow'
    BY <1>10 DEF DropLease, RowShape, CopiesFollowRow
  <2>3. VersionIdentifiesLease'
    BY <1>10 DEF DropLease, RowShape, CopiesFollowRow, VersionIdentifiesLease
  <2>4. TokenHeldByOneTask'
    BY <1>10 DEF DropLease, RowShape, CopiesFollowRow, TokenHeldByOneTask
  <2> QED
    BY <2>1, <2>2, <2>3, <2>4
<1>11. ASSUME RequestCancellation PROVE Rest'
  <2>1. RowShape'
    BY <1>11 DEF RequestCancellation, RowShape
  <2>2. CopiesFollowRow'
    BY <1>11 DEF RequestCancellation, RowShape, CopiesFollowRow
  <2>3. VersionIdentifiesLease'
    BY <1>11 DEF RequestCancellation, RowShape, CopiesFollowRow, VersionIdentifiesLease
  <2>4. TokenHeldByOneTask'
    BY <1>11 DEF RequestCancellation, RowShape, CopiesFollowRow, TokenHeldByOneTask
  <2> QED
    BY <2>1, <2>2, <2>3, <2>4
<1>12. ASSUME CancelSetup PROVE Rest'
  <2>1. RowShape'
    BY <1>12 DEF CancelSetup, RowShape
  <2>2. CopiesFollowRow'
    BY <1>12 DEF CancelSetup, RowShape, CopiesFollowRow
  <2>3. VersionIdentifiesLease'
    BY <1>12 DEF CancelSetup, RowShape, CopiesFollowRow, VersionIdentifiesLease
  <2>4. TokenHeldByOneTask'
    BY <1>12 DEF CancelSetup, RowShape, CopiesFollowRow, TokenHeldByOneTask
  <2> QED
    BY <2>1, <2>2, <2>3, <2>4
<1>13. ASSUME Tick PROVE Rest'
  <2>1. RowShape'
    BY <1>13 DEF Tick, RowShape
  <2>2. CopiesFollowRow'
    BY <1>13 DEF Tick, RowShape, CopiesFollowRow
  <2>3. VersionIdentifiesLease'
    BY <1>13 DEF Tick, RowShape, CopiesFollowRow, VersionIdentifiesLease
  <2>4. TokenHeldByOneTask'
    BY <1>13 DEF Tick, RowShape, CopiesFollowRow, TokenHeldByOneTask
  <2> QED
    BY <2>1, <2>2, <2>3, <2>4
<1>14. ASSUME UNCHANGED vars PROVE Rest'
  <2>1. RowShape'
    BY <1>14 DEF vars, RowShape
  <2>2. CopiesFollowRow'
    BY <1>14 DEF vars, RowShape, CopiesFollowRow
  <2>3. VersionIdentifiesLease'
    BY <1>14 DEF vars, RowShape, CopiesFollowRow, VersionIdentifiesLease
  <2>4. TokenHeldByOneTask'
    BY <1>14 DEF vars, RowShape, CopiesFollowRow, TokenHeldByOneTask
  <2> QED
    BY <2>1, <2>2, <2>3, <2>4
<1>q. Rest'
  BY <1>1, <1>2, <1>3, <1>4, <1>5, <1>6, <1>7, <1>8, <1>9, <1>10, <1>11, <1>12, <1>13,
     <1>14 DEF Next, TaskStep
<1> QED
  BY <1>q DEF LeaseInv

\* LeaseInv holds before the run is created.
LEMMA LeaseInit == Init => LeaseInv
BY TasksAssumption
DEF Init, LeaseInv, TypeOK, RowShape, CopiesFollowRow, VersionIdentifiesLease,
    TokenHeldByOneTask, Copies, Row, Lease, RunStatus

\* The lease invariants hold in every reachable state, for any set of tasks and
\* runtimes and any TTL: a fencing token belongs to one task, no copy is ahead
\* of the row, and a matching version is a matching lease.
THEOREM LeaseSafety ==
  Spec => [](TypeOK /\ TokenHeldByOneTask /\ CopiesFollowRow /\ VersionIdentifiesLease)
<1>1. Spec => []LeaseInv
  BY LeaseInit, LeaseStep, PTL DEF Spec
<1>2. LeaseInv => TypeOK /\ TokenHeldByOneTask /\ CopiesFollowRow /\ VersionIdentifiesLease
  BY DEF LeaseInv
<1> QED
  BY <1>1, <1>2, PTL

\* No lease copy a task keeps is ahead of the row, and a copy under an older fencing
\* token also has an older version, whatever order the writers commit in.
THEOREM CopiesFollow == Spec => []CopiesFollowRow
BY LeaseSafety, PTL

\* A copy that agrees with the row on version is the row's lease, which is what
\* _validate_run_transition and _lease_for_observed_result compare.
THEOREM VersionsIdentify == Spec => []VersionIdentifiesLease
BY LeaseSafety, PTL

\* What one transaction may do to the row.
LEMMA RowStep == LeaseInv /\ [Next]_vars => RowHistoryStep
<1> SUFFICES ASSUME LeaseInv, [Next]_vars PROVE RowHistoryStep
  OBVIOUS
<1> USE LegalTargets, StatusKinds DEF LeaseInv, TypeOK, RowShape, Row, RowHistoryStep
<1>1. ASSUME NEW t \in Tasks, NEW s \in RunStatus, CreateRun(t, s) PROVE RowHistoryStep
  BY <1>1 DEF CreateRun
<1>2. ASSUME NEW t \in Tasks, NEW s \in RunStatus, TransitionRun(t, s) PROVE RowHistoryStep
  BY <1>2 DEF TransitionRun
<1>3. ASSUME NEW t \in Tasks, NEW s \in RunStatus, TransitionPrepared(t, s) PROVE RowHistoryStep
  BY <1>3 DEF TransitionPrepared
<1>4. ASSUME NEW t \in Tasks, RefreshLease(t) PROVE RowHistoryStep
  BY <1>4 DEF RefreshLease
<1>5. ASSUME NEW t \in Tasks, TakeOverRun(t) PROVE RowHistoryStep
  BY <1>5 DEF TakeOverRun
<1>6. ASSUME NEW t \in Tasks, ResumeWaitingRun(t) PROVE RowHistoryStep
  BY <1>6 DEF ResumeWaitingRun
<1>7. ASSUME NEW t \in Tasks, Snapshot(t) PROVE RowHistoryStep
  BY <1>7 DEF Snapshot
<1>8. ASSUME NEW t \in Tasks, ReplaceHandle(t) PROVE RowHistoryStep
  BY <1>8 DEF ReplaceHandle
<1>9. ASSUME NEW t \in Tasks, AdoptObserved(t) PROVE RowHistoryStep
  BY <1>9 DEF AdoptObserved
<1>10. ASSUME NEW t \in Tasks, DropLease(t) PROVE RowHistoryStep
  BY <1>10 DEF DropLease
<1>11. ASSUME RequestCancellation PROVE RowHistoryStep
  BY <1>11 DEF RequestCancellation
<1>12. ASSUME CancelSetup PROVE RowHistoryStep
  BY <1>12 DEF CancelSetup
<1>13. ASSUME Tick PROVE RowHistoryStep
  BY <1>13 DEF Tick
<1>14. ASSUME UNCHANGED vars PROVE RowHistoryStep
  BY <1>14 DEF vars
<1> QED
  BY <1>1, <1>2, <1>3, <1>4, <1>5, <1>6, <1>7, <1>8, <1>9, <1>10, <1>11, <1>12, <1>13,
     <1>14 DEF Next, TaskStep

\* Every write of the row is one version step, an owner change takes a new
\* token, terminal statuses are final and cancellation requests are kept.
THEOREM RowHistoryHolds == Spec => RowHistory
<1>1. Spec => []LeaseInv
  BY LeaseInit, LeaseStep, PTL DEF Spec
<1> QED
  BY <1>1, RowStep, PTL DEF Spec, RowHistory

\* A run not yet created is the initial state of the fence.
LEMMA FenceStart == Init => Fence!FenceInit
BY DEF Init, Fence!FenceInit, AbsRun, AbsHandle, AbsPrepared, AbsCopy, Fence!RunRow

\* The tables that RunFence extends, seen through the instance.
LEMMA FenceTables ==
  /\ Fence!ActiveRunStatuses = ActiveRunStatuses
  /\ \A s : Fence!LegalRunTargets(s) = LegalRunTargets(s)
  /\ Fence!RunStatus = RunStatus
BY DEF Fence!ActiveRunStatuses, ActiveRunStatuses, Fence!LegalRunTargets, LegalRunTargets,
       Fence!RunStatus, RunStatus, Fence!TERMINAL_RUN_STATUSES, TERMINAL_RUN_STATUSES

\* How the abstract copies look after a write under the same token ...
LEMMA WriteView ==
  ASSUME LeaseInv, LeaseInv', run'.version = run.version + 1, run'.token = run.token
  PROVE  \A u \in Tasks :
           /\ handle'[u] = handle[u] => AbsHandle'[u] = Fence!Aged(AbsHandle)[u]
           /\ prepared'[u] = prepared[u] => AbsPrepared'[u] = Fence!Aged(AbsPrepared)[u]
           /\ handle'[u] = LeaseOf(run') => AbsHandle'[u] = "fresh"
           /\ prepared'[u] = LeaseOf(run') => AbsPrepared'[u] = "fresh"
BY DEF LeaseInv, TypeOK, Row, Lease, RowShape, CopiesFollowRow, Copies,
       AbsHandle, AbsPrepared, AbsCopy, Fence!Aged

\* ... and after one that takes the next token.
LEMMA AcquireView ==
  ASSUME LeaseInv, LeaseInv', run'.version = run.version + 1, run'.token = run.token + 1
  PROVE  \A u \in Tasks :
           /\ handle'[u] = handle[u] => AbsHandle'[u] = Fence!Fenced(AbsHandle)[u]
           /\ prepared'[u] = prepared[u] => AbsPrepared'[u] = Fence!Fenced(AbsPrepared)[u]
           /\ handle'[u] = LeaseOf(run') => AbsHandle'[u] = "fresh"
BY DEF LeaseInv, TypeOK, Row, Lease, RowShape, CopiesFollowRow, Copies,
       AbsHandle, AbsPrepared, AbsCopy, Fence!Fenced

\* A current lease is a fresh copy of a live lease.
LEMMA CurrentView ==
  ASSUME LeaseInv, NEW t \in Tasks
  PROVE  /\ HasCurrentLease(handle[t]) => Fence!Current(AbsHandle[t])
         /\ HasCurrentLease(prepared[t]) => Fence!Current(AbsPrepared[t])
BY DEF LeaseInv, TypeOK, Row, Lease, RowShape, HasCurrentLease, AbsRun,
       AbsHandle, AbsPrepared, AbsCopy, Fence!Current

\* Every step of the row and its copies is a step of the fence, or none.
LEMMA FenceStep ==
  LeaseInv /\ LeaseInv' /\ [Next]_vars => [Fence!FenceNext]_(Fence!fenceVars)
<1> SUFFICES ASSUME LeaseInv, LeaseInv', [Next]_vars
             PROVE  Fence!FenceNext \/ UNCHANGED Fence!fenceVars
  BY DEF Fence!fenceVars
<1>t. TypeOK /\ RowShape /\ CopiesFollowRow /\ VersionIdentifiesLease
  BY DEF LeaseInv
<1> USE <1>t, TasksAssumption, TTLAssumption, LegalTargets, StatusKinds, FenceTables
<1>1. ASSUME NEW t \in Tasks, NEW s \in RunStatus, CreateRun(t, s)
      PROVE  Fence!FenceCreate(t, s)
  <2>1. AbsRun' = Fence!RunRow(s, FALSE, "live")
    <3>1. run'.status = s /\ run'.cancel = FALSE
      BY <1>1, Zenon DEF CreateRun
    <3>2. ~ (run'.expires <= now')
      BY <1>1 DEF CreateRun, TypeOK
    <3> QED
      BY <3>1, <3>2, Zenon DEF AbsRun, Fence!RunRow
  <2>2. \A u \in Tasks : handle[u].token = 0 /\ prepared[u].token = 0
    BY <1>1 DEF CreateRun, TypeOK, Row, Lease, RowShape, CopiesFollowRow, Copies
  <2>3. AbsHandle' = [AbsHandle EXCEPT ![t] = "fresh"]
    <3>1. handle'[t].token = run'.token /\ handle'[t].version = run'.version /\ run'.token = 1
      BY <1>1 DEF CreateRun, TypeOK
    <3>2. \A u \in Tasks \ {t} : handle'[u] = handle[u]
      BY <1>1 DEF CreateRun, TypeOK
    <3>3. \A u \in Tasks : AbsHandle[u] = "none"
      BY <2>2 DEF AbsHandle, AbsCopy
    <3>4. \A u \in Tasks : AbsHandle'[u] = IF u = t THEN "fresh" ELSE "none"
      BY <2>2, <3>1, <3>2 DEF AbsHandle, AbsCopy
    <3> QED
      BY <3>3, <3>4 DEF AbsHandle
  <2>4. AbsPrepared' = AbsPrepared
    BY <1>1, <2>2 DEF CreateRun, AbsPrepared, AbsCopy
  <2> QED
    BY <1>1, <2>1, <2>3, <2>4 DEF CreateRun, AbsRun, Fence!FenceCreate
<1>2. ASSUME NEW t \in Tasks, NEW s \in RunStatus, TransitionRun(t, s)
      PROVE  Fence!FenceTransition(t, s)
  <2>1. AbsRun' = Fence!RunRow(s, AbsRun.cancel, "live")
    BY <1>2 DEF TransitionRun, TypeOK, Row, Lease, AbsRun, Fence!RunRow, HasCurrentLease
  <2>2. AbsHandle' = [Fence!Aged(AbsHandle) EXCEPT ![t] = "fresh"]
    BY <1>2, WriteView DEF TransitionRun, TypeOK, Row, Lease, AbsHandle, Fence!Aged, Fence!Fenced
  <2>3. AbsPrepared' = Fence!Aged(AbsPrepared)
    BY <1>2, WriteView DEF TransitionRun, TypeOK, Row, Lease, AbsPrepared, Fence!Aged, Fence!Fenced
  <2> QED
    BY <1>2, <2>1, <2>2, <2>3, CurrentView
    DEF TransitionRun, Fence!FenceTransition, Fence!WriteRun, AbsRun
<1>3. ASSUME NEW t \in Tasks, NEW s \in RunStatus, TransitionPrepared(t, s)
      PROVE  Fence!FenceTransitionPrepared(t, s)
  <2>1. AbsRun' = Fence!RunRow(s, AbsRun.cancel, "live")
    BY <1>3 DEF TransitionPrepared, TypeOK, Row, Lease, AbsRun, Fence!RunRow, HasCurrentLease
  <2>2. AbsHandle' = Fence!Aged(AbsHandle)
    BY <1>3, WriteView DEF TransitionPrepared, TypeOK, Row, Lease, AbsHandle, Fence!Aged, Fence!Fenced
  <2>3. AbsPrepared' = [Fence!Aged(AbsPrepared) EXCEPT ![t] = "fresh"]
    BY <1>3, WriteView DEF TransitionPrepared, TypeOK, Row, Lease, AbsPrepared, Fence!Aged, Fence!Fenced
  <2> QED
    BY <1>3, <2>1, <2>2, <2>3, CurrentView
    DEF TransitionPrepared, Fence!FenceTransitionPrepared, AbsRun
<1>4. ASSUME NEW t \in Tasks, RefreshLease(t) PROVE Fence!FenceHeartbeat(t)
  <2>1. AbsRun' = Fence!RunRow(AbsRun.status, AbsRun.cancel, "live")
    BY <1>4 DEF RefreshLease, TypeOK, Row, Lease, AbsRun, Fence!RunRow, HasCurrentLease
  <2>2. AbsHandle' = [Fence!Aged(AbsHandle) EXCEPT ![t] = "fresh"]
    BY <1>4, WriteView DEF RefreshLease, TypeOK, Row, Lease, AbsHandle, Fence!Aged, Fence!Fenced
  <2>3. AbsPrepared' = Fence!Aged(AbsPrepared)
    BY <1>4, WriteView DEF RefreshLease, TypeOK, Row, Lease, AbsPrepared, Fence!Aged, Fence!Fenced
  <2> QED
    BY <1>4, <2>1, <2>2, <2>3, CurrentView
    DEF RefreshLease, Fence!FenceHeartbeat, Fence!WriteRun, AbsRun
<1>5. ASSUME NEW t \in Tasks, TakeOverRun(t) PROVE Fence!FenceTakeOver(t)
  <2>1. AbsRun' = Fence!RunRow(AbsRun.status, AbsRun.cancel, "live")
    BY <1>5 DEF TakeOverRun, TypeOK, Row, Lease, AbsRun, Fence!RunRow, HasCurrentLease
  <2>2. AbsHandle' = [Fence!Fenced(AbsHandle) EXCEPT ![t] = "fresh"]
    BY <1>5, AcquireView DEF TakeOverRun, TypeOK, Row, Lease, AbsHandle, Fence!Aged, Fence!Fenced
  <2>3. AbsPrepared' = Fence!Fenced(AbsPrepared)
    BY <1>5, AcquireView DEF TakeOverRun, TypeOK, Row, Lease, AbsPrepared, Fence!Aged, Fence!Fenced
  <2> QED
    BY <1>5, <2>1, <2>2, <2>3
    DEF TakeOverRun, Fence!FenceTakeOver, Fence!NewToken, AbsRun
<1>6. ASSUME NEW t \in Tasks, ResumeWaitingRun(t) PROVE Fence!FenceResumeWaiting(t)
  <2>1. AbsRun' = Fence!RunRow("resuming", AbsRun.cancel, "live")
    BY <1>6 DEF ResumeWaitingRun, TypeOK, Row, Lease, AbsRun, Fence!RunRow, HasCurrentLease
  <2>2. AbsHandle' = [Fence!Fenced(AbsHandle) EXCEPT ![t] = "fresh"]
    BY <1>6, AcquireView DEF ResumeWaitingRun, TypeOK, Row, Lease, AbsHandle, Fence!Aged, Fence!Fenced
  <2>3. AbsPrepared' = Fence!Fenced(AbsPrepared)
    BY <1>6, AcquireView DEF ResumeWaitingRun, TypeOK, Row, Lease, AbsPrepared, Fence!Aged, Fence!Fenced
  <2> QED
    BY <1>6, <2>1, <2>2, <2>3
    DEF ResumeWaitingRun, Fence!FenceResumeWaiting, Fence!NewToken, AbsRun
<1>7. ASSUME NEW t \in Tasks, Snapshot(t) PROVE Fence!FenceSnapshot(t)
  BY <1>7 DEF Snapshot, TypeOK, AbsRun, AbsHandle, AbsPrepared, AbsCopy, Fence!FenceSnapshot
<1>8. ASSUME NEW t \in Tasks, ReplaceHandle(t) PROVE Fence!FenceReplace(t)
  BY <1>8 DEF ReplaceHandle, TypeOK, AbsRun, AbsHandle, AbsPrepared, AbsCopy, Fence!FenceReplace
<1>9. ASSUME NEW t \in Tasks, AdoptObserved(t)
      PROVE  Fence!FenceAdopt(t) \/ UNCHANGED Fence!fenceVars
  <2>1. run.token # 0 /\ prepared[t].token = run.token
    BY <1>9 DEF AdoptObserved, RowShape
  <2>2. AbsRun' = AbsRun /\ AbsHandle' = AbsHandle
    BY <1>9 DEF AdoptObserved, AbsRun, AbsHandle, AbsCopy
  <2>3. AbsCopy(LeaseOf(run)) = "fresh"
    BY <2>1 DEF AbsCopy, LeaseOf
  <2>4. AbsPrepared' = [AbsPrepared EXCEPT ![t] = "fresh"]
    <3>1. run' = run /\ prepared' = [prepared EXCEPT ![t] = LeaseOf(run)]
      BY <1>9 DEF AdoptObserved
    <3>2. \A u \in Tasks : AbsPrepared'[u] = IF u = t THEN "fresh" ELSE AbsPrepared[u]
      BY <3>1, <2>3 DEF AbsPrepared, AbsCopy, TypeOK
    <3> QED
      BY <3>2 DEF AbsPrepared
  <2>5. AbsPrepared[t] \in {"old", "fresh"}
    BY <2>1 DEF AbsPrepared, AbsCopy
  <2>6. AbsRun.cancel /\ AbsRun.status \in {"running", "resuming"}
    BY <1>9 DEF AdoptObserved, AbsRun
  <2>7. CASE AbsPrepared[t] = "old"
    BY <2>2, <2>4, <2>6, <2>7 DEF Fence!FenceAdopt
  <2>8. CASE AbsPrepared[t] = "fresh"
    <3>1. AbsPrepared' = AbsPrepared
      BY <2>4, <2>8 DEF AbsPrepared
    <3> QED
      BY <2>2, <3>1 DEF Fence!fenceVars
  <2> QED
    BY <2>5, <2>7, <2>8
<1>10. ASSUME NEW t \in Tasks, DropLease(t) PROVE Fence!FenceDrop(t)
  BY <1>10 DEF DropLease, TypeOK, AbsRun, AbsHandle, AbsPrepared, AbsCopy, Fence!FenceDrop
<1>11. ASSUME RequestCancellation PROVE Fence!FenceRequestCancellation
  <2>1. AbsRun' = IF run.status = "awaiting_user" THEN Fence!RunRow("cancelled", TRUE, "live")
                ELSE Fence!RunRow(AbsRun.status, TRUE, AbsRun.lease)
    <3>1. CASE run.status = "awaiting_user"
      <4>1. run'.status = "cancelled" /\ run'.cancel = TRUE
        BY <1>11, <3>1, Zenon DEF RequestCancellation
      <4>2. ~ (run'.expires <= now')
        BY <1>11, <3>1 DEF RequestCancellation, TypeOK
      <4> QED
        BY <3>1, <4>1, <4>2, Zenon DEF AbsRun, Fence!RunRow
    <3>2. CASE run.status # "awaiting_user"
      <4>1. run'.status = run.status /\ run'.cancel = TRUE
        BY <1>11, <3>2, Zenon DEF RequestCancellation
      <4>2. run'.expires = run.expires /\ now' = now
        BY <1>11, <3>2 DEF RequestCancellation
      <4> QED
        BY <3>2, <4>1, <4>2, Zenon DEF AbsRun, Fence!RunRow
    <3> QED
      BY <3>1, <3>2
  <2>2. AbsHandle' = Fence!Aged(AbsHandle)
    BY <1>11, WriteView DEF RequestCancellation, TypeOK, Row, Lease, AbsHandle, Fence!Aged, Fence!Fenced
  <2>3. AbsPrepared' = Fence!Aged(AbsPrepared)
    BY <1>11, WriteView DEF RequestCancellation, TypeOK, Row, Lease, AbsPrepared, Fence!Aged, Fence!Fenced
  <2> QED
    BY <1>11, <2>1, <2>2, <2>3
    DEF RequestCancellation, Fence!FenceRequestCancellation, AbsRun
<1>12. ASSUME CancelSetup PROVE Fence!FenceCancelSetup
  <2>1. AbsRun' = Fence!RunRow("cancelled", AbsRun.cancel, "live")
    BY <1>12 DEF CancelSetup, TypeOK, Row, Lease, AbsRun, Fence!RunRow, HasCurrentLease
  <2>2. AbsHandle' = Fence!Aged(AbsHandle)
    BY <1>12, WriteView DEF CancelSetup, TypeOK, Row, Lease, AbsHandle, Fence!Aged, Fence!Fenced
  <2>3. AbsPrepared' = Fence!Aged(AbsPrepared)
    BY <1>12, WriteView DEF CancelSetup, TypeOK, Row, Lease, AbsPrepared, Fence!Aged, Fence!Fenced
  <2> QED
    BY <1>12, <2>1, <2>2, <2>3
    DEF CancelSetup, Fence!FenceCancelSetup, AbsRun, TypeOK, Row
<1>13. ASSUME Tick PROVE Fence!FenceExpire \/ UNCHANGED Fence!fenceVars
  BY <1>13 DEF Tick, TypeOK, Row, AbsRun, AbsHandle, AbsPrepared, AbsCopy, Fence!RunRow,
     Fence!FenceExpire, Fence!fenceVars
<1>14. ASSUME UNCHANGED vars PROVE UNCHANGED Fence!fenceVars
  BY <1>14 DEF vars, AbsRun, AbsHandle, AbsPrepared, AbsCopy, Fence!fenceVars
<1> QED
  BY <1>1, <1>2, <1>3, <1>4, <1>5, <1>6, <1>7, <1>8, <1>9, <1>10, <1>11, <1>12, <1>13, <1>14
  DEF Next, TaskStep, Fence!FenceNext

\* The clocked, counted lease implements the abstract fence: only a fresh copy
\* of an unexpired lease writes the row, and a fenced copy never does again.
THEOREM LeaseImplementsFence == Spec => ImplementsFence
<1>1. Spec => []LeaseInv
  BY LeaseInit, LeaseStep, PTL DEF Spec
<1> QED
  BY <1>1, FenceStart, FenceStep, PTL DEF Spec, ImplementsFence, Fence!FenceSpec

-----------------------------------------------------------------------------
(* Induction over numbers and finite sets *)

HIDE DEF LeaseOf, NoLease, Written, Renewed, Acquired

\* The leaves are first-order: Zenon proves them, and those it does not find cite SMT.
USE Zenon

INSTANCE FiniteSetTheorems

LEMMA LessIsWellFounded ==
  \E R : IsWellFoundedOn(R, Nat) /\ \A x, y \in Nat : x < y => <<x, y>> \in R
<1>1. IsWellFoundedOn(OpToRel(<, Nat), Nat)
  BY NatLessThanWellFounded
<1>2. \A x, y \in Nat : x < y => <<x, y>> \in OpToRel(<, Nat)
  BY SMT DEF OpToRel
<1> QED BY <1>1, <1>2

\* The least of a set of numbers.
LEMMA Least ==
  ASSUME NEW T, T \subseteq Nat, T # {}
  PROVE  \E x \in T : \A y \in T : x <= y
<1>1. PICK R : IsWellFoundedOn(R, Nat) /\ \A x, y \in Nat : x < y => <<x, y>> \in R
  BY LessIsWellFounded
<1>2. PICK x \in T : \A y \in T : ~(<<y, x>> \in R)
  <2>1. IsWellFoundedOn(R, Nat)
    BY <1>1
  <2>2. T \subseteq Nat /\ T # {}
    OBVIOUS
  <2> HIDE <1>1
  <2> QED BY ONLY <2>1, <2>2, WFMin
<1>3. x \in Nat /\ \A y \in T : y \in Nat
  OBVIOUS
<1>4. \A y \in T : ~(y < x)
  BY <1>1, <1>2, <1>3
<1>5. \A y \in T : x <= y
  BY <1>3, <1>4, SMT
<1> QED BY <1>5

-----------------------------------------------------------------------------
(* Sums *)

First(s) == CHOOSE x \in s : TRUE

\* A set of subsets that grows element by element holds all of them.
LEMMA BySubsets ==
  ASSUME NEW S, IsFiniteSet(S), NEW T, {} \in T,
         \A s \in SUBSET S : s # {} /\ (s \ {First(s)}) \in T => s \in T
  PROVE  \A s \in SUBSET S : s \in T
<1>1. SUFFICES ASSUME NEW s0 \in SUBSET S, s0 \notin T PROVE FALSE
  OBVIOUS
<1> DEFINE sizes == {n \in Nat : \E s \in SUBSET S : s \notin T /\ n = Cardinality(s)}
<1>2. \A s \in SUBSET S : IsFiniteSet(s) /\ Cardinality(s) \in Nat
  BY FS_Subset, FS_CardinalityType
<1>3. sizes \subseteq Nat /\ sizes # {}
  BY <1>1, <1>2
<1>4. PICK n \in sizes : \A m \in sizes : n <= m
  <2> HIDE DEF sizes
  <2> QED BY <1>3, Least
<1>5. PICK s \in SUBSET S : s \notin T /\ n = Cardinality(s)
  BY <1>4
<1>6. s # {} /\ (s \ {First(s)}) \notin T /\ (s \ {First(s)}) \in SUBSET S
  BY <1>5
<1>7. First(s) \in s
  BY <1>6 DEF First
<1>8. Cardinality(s \ {First(s)}) = Cardinality(s) - 1
  BY <1>2, <1>7, FS_RemoveElement
<1>9. Cardinality(s \ {First(s)}) \in sizes
  BY <1>2, <1>6
<1>10. n <= n - 1 /\ n \in Nat
  BY <1>2, <1>4, <1>5, <1>8, <1>9
<1> QED BY ONLY <1>10, SMT

\* The sums of f over the sets of up to k elements.
Upto(S, k) == {s \in SUBSET S : Cardinality(s) <= k}
SumRule(F, f, D) ==
  \A s \in D : F[s] = IF s = {} THEN 0 ELSE f[First(s)] + F[s \ {First(s)}]
SumsTo(F, f, S, k) == F \in [Upto(S, k) -> Int] /\ SumRule(F, f, Upto(S, k))

\* The recursion over subsets that defines a sum has a solution.
LEMMA SumsExist ==
  ASSUME NEW S, IsFiniteSet(S), NEW f \in [S -> Int]
  PROVE  \E F \in [SUBSET S -> Int] : SumRule(F, f, SUBSET S)
<1> DEFINE K == {k \in Nat : ~\E F : SumsTo(F, f, S, k)}
<1>0. \A s \in SUBSET S : IsFiniteSet(s) /\ Cardinality(s) \in Nat
  BY FS_Subset, FS_CardinalityType
<1>1. 0 \notin K
  <2>1. \A s \in Upto(S, 0) : s = {}
    <3> TAKE s \in Upto(S, 0)
    <3>1. s \in SUBSET S /\ Cardinality(s) <= 0
      BY DEF Upto
    <3>2. Cardinality(s) \in Nat /\ IsFiniteSet(s)
      BY <3>1, <1>0
    <3>3. Cardinality(s) = 0
      BY <3>1, <3>2, SMT
    <3> QED BY <3>2, <3>3, FS_EmptySet
  <2>2. PICK F : F = [s \in Upto(S, 0) |-> 0]
    OBVIOUS
  <2>3. 0 \in Int
    BY SMT
  <2>4. SumsTo(F, f, S, 0)
    BY <2>1, <2>2, <2>3 DEF SumsTo, SumRule
  <2> QED BY <2>4
<1>2. ASSUME NEW k \in Nat, NEW F, SumsTo(F, f, S, k)
      PROVE  \E G : SumsTo(G, f, S, k + 1)
  <2>1. PICK G : G = [s \in Upto(S, k + 1) |->
                        IF s \in Upto(S, k) THEN F[s] ELSE f[First(s)] + F[s \ {First(s)}]]
    OBVIOUS
  <2>2. \A s \in Upto(S, k) : s \in Upto(S, k + 1)
    <3> TAKE s \in Upto(S, k)
    <3>1. s \in SUBSET S /\ Cardinality(s) <= k
      BY DEF Upto
    <3>2. Cardinality(s) \in Nat
      BY <3>1, <1>0
    <3>3. Cardinality(s) <= k + 1
      BY <3>1, <3>2, SMT
    <3> QED BY <3>1, <3>3 DEF Upto
  <2>3. ASSUME NEW s \in Upto(S, k + 1), s # {}
        PROVE  First(s) \in S /\ s \ {First(s)} \in Upto(S, k)
    <3>1. s \in SUBSET S /\ Cardinality(s) <= k + 1 /\ First(s) \in s
      BY <2>3 DEF Upto, First
    <3>2. Cardinality(s) \in Nat /\ IsFiniteSet(s)
      BY <3>1, <1>0
    <3>3. Cardinality(s \ {First(s)}) = Cardinality(s) - 1
      BY <3>1, <3>2, FS_RemoveElement
    <3>4. Cardinality(s \ {First(s)}) <= k
      BY <3>1, <3>2, <3>3, SMT
    <3> QED BY <3>1, <3>4 DEF Upto
  <2>4. {} \in Upto(S, k)
    <3>1. Cardinality({}) <= k
      BY FS_EmptySet, SMT
    <3> QED BY <3>1 DEF Upto
  <2>5. \A s \in Upto(S, k) : F[s] \in Int /\ G[s] = F[s]
    BY <1>2, <2>1, <2>2 DEF SumsTo, SumRule
  <2>6. ASSUME NEW s \in Upto(S, k + 1)
        PROVE  G[s] \in Int /\ G[s] = IF s = {} THEN 0 ELSE f[First(s)] + G[s \ {First(s)}]
    <3>1. CASE s = {}
      BY <3>1, <2>4, <2>5, <1>2 DEF SumsTo, SumRule
    <3>2. CASE s # {}
      <4>1. f[First(s)] \in Int /\ F[s \ {First(s)}] \in Int /\ G[s \ {First(s)}] = F[s \ {First(s)}]
        BY <3>2, <2>3, <2>5
      <4>2. f[First(s)] + F[s \ {First(s)}] \in Int
        BY <4>1, SMT
      <4>3. G[s] = f[First(s)] + F[s \ {First(s)}]
        BY <3>2, <2>1, <1>2 DEF SumsTo, SumRule
      <4> QED BY <3>2, <4>1, <4>2, <4>3
    <3> QED BY <3>1, <3>2
  <2>7. G \in [Upto(S, k + 1) -> Int]
    BY <2>1, <2>6
  <2> QED BY <2>6, <2>7 DEF SumsTo, SumRule
<1>3. K = {}
  <2>1. SUFFICES ASSUME K # {} PROVE FALSE
    OBVIOUS
  <2>2. PICK n \in K : \A m \in K : n <= m
    <3>1. K \subseteq Nat
      OBVIOUS
    <3> HIDE DEF K
    <3> QED BY <2>1, <3>1, Least
  <2>3. n \in Nat /\ n # 0
    BY <1>1, <2>2
  <2>4. n - 1 \in Nat /\ (n - 1) + 1 = n /\ ~(n <= n - 1)
    BY <2>3, SMT
  <2>5. n - 1 \notin K
    BY <2>2, <2>4
  <2>6. \E F : SumsTo(F, f, S, n - 1)
    BY <2>4, <2>5
  <2>7. \E G : SumsTo(G, f, S, (n - 1) + 1)
    BY <1>2, <2>4, <2>6
  <2>8. \E G : SumsTo(G, f, S, n)
    BY <2>4, <2>7
  <2> QED BY <2>2, <2>8
<1>4. Upto(S, Cardinality(S)) = SUBSET S /\ Cardinality(S) \in Nat
  BY FS_Subset, FS_CardinalityType DEF Upto
<1>5. PICK F : SumsTo(F, f, S, Cardinality(S))
  BY <1>3, <1>4
<1> QED BY <1>4, <1>5 DEF SumsTo

\* A sum is computed element by element.
LEMMA SumIs ==
  ASSUME NEW S, IsFiniteSet(S), NEW f \in [S -> Int]
  PROVE  \E F : SumRule(F, f, SUBSET S) /\ SumFunction(f) = F[S]
<1>1. PICK G \in [SUBSET S -> Int] : SumRule(G, f, SUBSET S)
  BY SumsExist
<1>2. G = [s \in SUBSET S |-> IF s = {} THEN 0 ELSE f[First(s)] + G[s \ {First(s)}]]
  BY <1>1 DEF SumRule
<1> DEFINE It == CHOOSE it : it = [s \in SUBSET S |-> IF s = {} THEN 0 ELSE f[First(s)] + it[s \ {First(s)}]]
<1>3. It = [s \in SUBSET S |-> IF s = {} THEN 0 ELSE f[First(s)] + It[s \ {First(s)}]]
  BY <1>2
<1>4. SumFunction(f) = It[S]
  <2>1. DOMAIN f = S
    OBVIOUS
  <2> QED BY <2>1 DEF SumFunction, SumFunctionOnSet, FoldFunctionOnSet, MapThenFoldSet, First
<1> HIDE DEF It
<1>5. SumRule(It, f, SUBSET S)
  BY <1>3 DEF SumRule
<1> QED BY <1>4, <1>5

\* One step of the recursion.
LEMMA SumFirst ==
  ASSUME NEW S, NEW f, NEW F, SumRule(F, f, SUBSET S), NEW s \in SUBSET S, s # {}
  PROVE  /\ F[s] = f[First(s)] + F[s \ {First(s)}]
         /\ First(s) \in s /\ First(s) \in S /\ s \ {First(s)} \in SUBSET S
<1>1. First(s) \in s
  BY DEF First
<1> QED BY <1>1 DEF SumRule

LEMMA SumNone ==
  ASSUME NEW S, NEW f, NEW F, SumRule(F, f, SUBSET S)
  PROVE  F[{}] = 0
BY DEF SumRule

\* A sum changes by what one of its terms changes.
LEMMA SumChange ==
  ASSUME NEW S, IsFiniteSet(S), NEW f \in [S -> Int], NEW g \in [S -> Int], NEW c \in S,
         \A x \in S : x # c => g[x] = f[x]
  PROVE  /\ SumFunction(f) \in Int /\ SumFunction(g) \in Int
         /\ SumFunction(g) = SumFunction(f) + (g[c] - f[c])
<1>1. PICK F : SumRule(F, f, SUBSET S) /\ SumFunction(f) = F[S]
  BY SumIs
<1>2. PICK G : SumRule(G, g, SUBSET S) /\ SumFunction(g) = G[S]
  BY SumIs
<1> DEFINE T == {s \in SUBSET S : /\ F[s] \in Int /\ G[s] \in Int
                                  /\ c \in s => G[s] = F[s] + (g[c] - f[c])
                                  /\ c \notin s => G[s] = F[s]}
<1>3. {} \in T
  <2>1. F[{}] = 0 /\ G[{}] = 0
    BY <1>1, <1>2, SumNone
  <2>2. 0 \in Int
    BY SMT
  <2> QED BY <2>1, <2>2
<1>4. ASSUME NEW s \in SUBSET S, s # {}, (s \ {First(s)}) \in T
      PROVE  s \in T
  <2>1. PICK x, t : x = First(s) /\ t = s \ {First(s)}
    OBVIOUS
  <2>2. /\ F[s] = f[x] + F[t] /\ G[s] = g[x] + G[t] /\ x \in s /\ x \in S
        /\ x \notin t /\ \A y : y # x => (y \in s <=> y \in t)
    <3>1. F[s] = f[x] + F[t] /\ x \in s /\ x \in S
      BY <1>1, <1>4, <2>1, SumFirst
    <3>2. G[s] = g[x] + G[t]
      BY <1>2, <1>4, <2>1, SumFirst
    <3> QED BY <2>1, <3>1, <3>2
  <2>3. f[x] \in Int /\ g[x] \in Int /\ f[c] \in Int /\ g[c] \in Int
    BY <2>2
  <2>4. /\ F[t] \in Int /\ G[t] \in Int
        /\ c \in t => G[t] = F[t] + (g[c] - f[c])
        /\ c \notin t => G[t] = F[t]
    BY <1>4, <2>1
  <2>5. F[s] \in Int /\ G[s] \in Int
    BY ONLY <2>2, <2>3, <2>4, SMT
  <2>6. CASE x = c
    <3>1. c \in s /\ G[t] = F[t]
      BY <2>2, <2>4, <2>6
    <3>2. G[s] = F[s] + (g[c] - f[c])
      BY ONLY <2>2, <2>3, <2>4, <2>6, <3>1, SMT
    <3> QED BY <2>5, <3>1, <3>2
  <2>7. CASE x # c
    <3>1. g[x] = f[x] /\ (c \in s <=> c \in t)
      BY <2>2, <2>7
    <3>2. c \in s => G[s] = F[s] + (g[c] - f[c])
      BY ONLY <2>2, <2>3, <2>4, <3>1, SMT
    <3>3. c \notin s => G[s] = F[s]
      BY ONLY <2>2, <2>3, <2>4, <3>1, SMT
    <3> QED BY <2>5, <3>2, <3>3
  <2> QED BY <2>6, <2>7
<1>5. S \in T
  <2> HIDE DEF T
  <2>1. \A s \in SUBSET S : s \in T
    BY <1>3, <1>4, BySubsets
  <2> QED BY <2>1
<1> QED BY <1>1, <1>2, <1>5

\* Sums of smaller terms are smaller.
LEMMA SumOrder ==
  ASSUME NEW S, IsFiniteSet(S), NEW f \in [S -> Int], NEW g \in [S -> Int],
         \A x \in S : f[x] <= g[x]
  PROVE  SumFunction(f) \in Int /\ SumFunction(g) \in Int /\ SumFunction(f) <= SumFunction(g)
<1>1. PICK F : SumRule(F, f, SUBSET S) /\ SumFunction(f) = F[S]
  BY SumIs
<1>2. PICK G : SumRule(G, g, SUBSET S) /\ SumFunction(g) = G[S]
  BY SumIs
<1> DEFINE T == {s \in SUBSET S : F[s] \in Int /\ G[s] \in Int /\ F[s] <= G[s]}
<1>3. {} \in T
  <2>1. F[{}] = 0 /\ G[{}] = 0
    BY <1>1, <1>2, SumNone
  <2>2. 0 \in Int /\ 0 <= 0
    BY SMT
  <2> QED BY <2>1, <2>2
<1>4. ASSUME NEW s \in SUBSET S, s # {}, (s \ {First(s)}) \in T
      PROVE  s \in T
  <2>1. PICK x, t : x = First(s) /\ t = s \ {First(s)}
    OBVIOUS
  <2>2. F[s] = f[x] + F[t] /\ G[s] = g[x] + G[t] /\ x \in S
    <3>1. F[s] = f[x] + F[t] /\ x \in S
      BY <1>1, <1>4, <2>1, SumFirst
    <3>2. G[s] = g[x] + G[t]
      BY <1>2, <1>4, <2>1, SumFirst
    <3> QED BY <3>1, <3>2
  <2>3. f[x] \in Int /\ g[x] \in Int /\ f[x] <= g[x]
    BY <2>2
  <2>4. F[t] \in Int /\ G[t] \in Int /\ F[t] <= G[t]
    BY <1>4, <2>1
  <2>5. F[s] \in Int /\ G[s] \in Int /\ F[s] <= G[s]
    BY ONLY <2>2, <2>3, <2>4, SMT
  <2> QED BY <2>5
<1>5. S \in T
  <2> HIDE DEF T
  <2>1. \A s \in SUBSET S : s \in T
    BY <1>3, <1>4, BySubsets
  <2> QED BY <2>1
<1> QED BY <1>1, <1>2, <1>5

LEMMA SumZero ==
  ASSUME NEW S, IsFiniteSet(S), NEW f \in [S -> Int], \A x \in S : f[x] = 0
  PROVE  SumFunction(f) = 0
<1>1. PICK F : SumRule(F, f, SUBSET S) /\ SumFunction(f) = F[S]
  BY SumIs
<1> DEFINE T == {s \in SUBSET S : F[s] = 0}
<1>3. {} \in T
  BY <1>1, SumNone
<1>4. ASSUME NEW s \in SUBSET S, s # {}, (s \ {First(s)}) \in T
      PROVE  s \in T
  <2>1. F[s] = f[First(s)] + F[s \ {First(s)}] /\ First(s) \in S
    BY <1>1, <1>4, SumFirst
  <2>2. F[s \ {First(s)}] = 0 /\ f[First(s)] = 0
    BY <1>4, <2>1
  <2>3. F[s] = 0
    BY ONLY <2>1, <2>2, SMT
  <2> QED BY <2>3
<1>5. S \in T
  <2> HIDE DEF T
  <2>1. \A s \in SUBSET S : s \in T
    BY <1>3, <1>4, BySubsets
  <2> QED BY <2>1
<1> QED BY <1>1, <1>5

\* A sum of numbers that are not negative is not negative.
LEMMA SumNat ==
  ASSUME NEW S, IsFiniteSet(S), NEW f \in [S -> Nat]
  PROVE  SumFunction(f) \in Nat
<1>1. PICK z : z = [x \in S |-> 0]
  OBVIOUS
<1>2. z \in [S -> Int] /\ (\A x \in S : z[x] = 0) /\ f \in [S -> Int] /\ \A x \in S : z[x] <= f[x]
  BY <1>1, SMT
<1>3. SumFunction(z) = 0
  BY <1>2, SumZero
<1>4. SumFunction(f) \in Int /\ SumFunction(z) <= SumFunction(f)
  BY <1>2, SumOrder
<1> QED BY ONLY <1>3, <1>4, SMT

-----------------------------------------------------------------------------
(* Admission of model calls *)

\* What is reserved for one call, whose record is k, on account a; and what of
\* it is outstanding.
Counted == {"model", "record", "release"}
Reserving == {"reserve", "quota"}
Unbooked(a) == IF a \in InferenceRuns THEN {"model"} ELSE {"model", "record"}
OutPart(k, c, a) == IF a \in AccountsOf(c) /\ k.at \in Unbooked(a) THEN k.res ELSE 0
HeldPart(k, c, a) == IF a \in AccountsOf(c) /\ k.at \in Counted THEN k.res ELSE 0

Held(a) == SumFunction([c \in Calls |-> HeldPart(call[c], c, a)])

CallState == {"new", "wait", "over"} \cup Reserving \cup Counted

IsCall(k) ==
  /\ DOMAIN k = {"at", "est", "remaining", "seen", "res", "used"}
  /\ k.at \in CallState /\ k.est \in Nat /\ k.remaining \in Int /\ k.seen \in Nat
  /\ k.res \in Nat /\ k.used \in Nat

InferenceTypes ==
  /\ total \in [InferenceRuns -> Nat] /\ usage \in [InferenceRuns -> Nat]
  /\ allocated \in [InferenceRuns -> Nat] /\ reserved \in [Accounts -> Int]
  /\ unreserved \in [Accounts -> Nat] /\ late \in [Accounts -> Nat]
  /\ daily \in Nat /\ quotaLock \in [Routers -> Calls \cup {NoCall}]
  /\ DOMAIN call = Calls /\ \A c \in Calls : IsCall(call[c])

\* The counters are the sums of what is reserved for the calls.
Booked == \A a \in Accounts : reserved[a] = Held(a)

\* Only the call with its router's quota lock has read what remains of its run
\* and what was used of the day; so much remains, but for what came late.
Offered ==
  \A c \in Calls : call[c].at \in Reserving =>
    /\ quotaLock[RouterFor(c)] = c
    /\ call[c].remaining + (Spent(RunOf[c]) + Outstanding(RunOf[c]))
         <= Limit(RunOf[c]) + late[RunOf[c]]
    /\ call[c].at = "quota" =>
         Spent(RouterFor(c)) + Outstanding(RouterFor(c))
           <= call[c].seen + (reserved[RouterFor(c)] + late[RouterFor(c)])

UsageSaved == \A r \in InferenceRuns : usage[r] <= total[r]

InferenceInv == InferenceTypes /\ Booked /\ Offered /\ UsageSaved /\ WithinLimits

LEMMA Bounds ==
  /\ IsFiniteSet(Calls) /\ NoCall \notin Calls
  /\ \A c \in Calls : /\ RunOf[c] \in InferenceRuns /\ RouterFor(c) \in Routers
                      /\ RouterFor(c) \notin InferenceRuns /\ RouterFor(c) # RunOf[c]
                      /\ RunOf[c] \in Accounts /\ RouterFor(c) \in Accounts
  /\ \A a \in Accounts : Limit(a) \in Nat
  /\ \A r \in InferenceRuns : MaxRunTokens[r] \in Nat /\ Limit(r) = MaxRunTokens[r]
  /\ Estimates \subseteq Nat /\ Reports \subseteq Nat /\ DailyTokens \in Nat
  /\ ResponseReserve \in Nat /\ JobTokens \in Nat
BY InferenceBounds DEF RouterFor, Accounts, Limit

LEMMA Parts ==
  ASSUME NEW k, IsCall(k), NEW c, NEW a
  PROVE  /\ OutPart(k, c, a) \in Nat /\ HeldPart(k, c, a) \in Nat
         /\ OutPart(k, c, a) <= HeldPart(k, c, a)
<1>1. 0 \in Nat /\ k.res \in Nat /\ 0 <= k.res /\ k.res <= k.res /\ 0 <= 0
  BY SMT DEF IsCall
<1>2. k.at \in Unbooked(a) => k.at \in Counted
  BY DEF Unbooked, Counted
<1> QED BY <1>1, <1>2 DEF OutPart, HeldPart

\* The sums of these parts over the calls.
Part(of, a, k, c) == IF of = "out" THEN OutPart(k, c, a) ELSE HeldPart(k, c, a)
PartSum(of, a) == SumFunction([c \in Calls |-> Part(of, a, call[c], c)])

LEMMA PartSums ==
  \A a : Outstanding(a) = PartSum("out", a) /\ Held(a) = PartSum("held", a)
BY DEF Outstanding, Held, OutPart, Unbooked, Part, PartSum

LEMMA PartSumsPrimed ==
  \A a : Outstanding(a)' = PartSum("out", a)' /\ Held(a)' = PartSum("held", a)'
BY DEF Outstanding, Held, OutPart, HeldPart, Unbooked, Part, PartSum

\* Sums over the calls.
LEMMA CallSum ==
  ASSUME NEW f \in [Calls -> Nat]
  PROVE  SumFunction(f) \in Nat
BY SumNat, Bounds

LEMMA CallSumOrder ==
  ASSUME NEW f \in [Calls -> Nat], NEW g \in [Calls -> Nat], \A c \in Calls : f[c] <= g[c]
  PROVE  SumFunction(f) <= SumFunction(g)
<1>1. f \in [Calls -> Int] /\ g \in [Calls -> Int]
  BY SMT
<1> QED BY <1>1, SumOrder, Bounds

LEMMA CallSumChange ==
  ASSUME NEW f \in [Calls -> Nat], NEW c \in Calls, NEW v \in Nat
  PROVE  SumFunction([f EXCEPT ![c] = v]) = SumFunction(f) + (v - f[c])
<1>1. PICK g : g = [f EXCEPT ![c] = v]
  OBVIOUS
<1>2. f \in [Calls -> Int] /\ g \in [Calls -> Int] /\ g[c] = v
  BY <1>1, SMT
<1>3. \A x \in Calls : x # c => g[x] = f[x]
  BY <1>1
<1>4. IsFiniteSet(Calls)
  BY Bounds
<1>5. SumFunction(g) = SumFunction(f) + (g[c] - f[c])
  BY ONLY <1>2, <1>3, <1>4, c \in Calls, SumChange, SMT
<1> QED BY <1>1, <1>2, <1>5

\* The sums, and what of them is outstanding.
LEMMA SumsInOrder ==
  ASSUME InferenceTypes
  PROVE  \A a : Outstanding(a) \in Nat /\ Held(a) \in Nat /\ Outstanding(a) <= Held(a)
<1>1. \A c \in Calls : IsCall(call[c])
  BY DEF InferenceTypes
<1> TAKE a
<1>2. \A of : [c \in Calls |-> Part(of, a, call[c], c)] \in [Calls -> Nat]
  BY <1>1, Parts DEF Part
<1>3. \A of : PartSum(of, a) \in Nat
  BY <1>2, CallSum DEF PartSum
<1>4. \A c \in Calls : Part("out", a, call[c], c) <= Part("held", a, call[c], c)
  BY <1>1, Parts DEF Part
<1>5. PartSum("out", a) <= PartSum("held", a)
  BY <1>2, <1>4, CallSumOrder DEF PartSum
<1> QED BY <1>3, <1>5, PartSums

LEMMA SumsInOrderPrimed ==
  ASSUME InferenceTypes'
  PROVE  \A a : Outstanding(a)' \in Nat /\ Held(a)' \in Nat
<1>1. \A c \in Calls : IsCall(call'[c])
  BY DEF InferenceTypes, IsCall
<1>2. \A of, a : PartSum(of, a)' \in Nat
  <2> TAKE of, a
  <2>1. [c \in Calls |-> Part(of, a, call'[c], c)] \in [Calls -> Nat]
    BY <1>1, Parts DEF Part
  <2>2. PartSum(of, a)' = SumFunction([d \in Calls |-> Part(of, a, call'[d], d)])
    BY DEF PartSum, Part, OutPart, HeldPart
  <2> QED BY <2>1, <2>2, CallSum
<1> QED BY <1>2, PartSumsPrimed

\* A step of one call changes the sums by what it changes of its own parts.
LEMMA OneCallMoves ==
  ASSUME InferenceTypes, NEW c \in Calls, NEW k, IsCall(k), call' = [call EXCEPT ![c] = k], NEW a
  PROVE  /\ Outstanding(a)' = Outstanding(a) + (OutPart(k, c, a) - OutPart(call[c], c, a))
         /\ Held(a)' = Held(a) + (HeldPart(k, c, a) - HeldPart(call[c], c, a))
<1>1. /\ call'[c] = k /\ \A d \in Calls : d # c => call'[d] = call[d]
      /\ \A d \in Calls : IsCall(call[d])
  BY DEF InferenceTypes
<1>2. ASSUME NEW of
      PROVE  PartSum(of, a)' = PartSum(of, a) + (Part(of, a, k, c) - Part(of, a, call[c], c))
  <2>1. PICK f : f = [d \in Calls |-> Part(of, a, call[d], d)]
    OBVIOUS
  <2>2. f \in [Calls -> Nat] /\ Part(of, a, k, c) \in Nat /\ f[c] = Part(of, a, call[c], c)
    BY <1>1, <2>1, Parts DEF Part
  <2>3. [d \in Calls |-> Part(of, a, call'[d], d)] = [f EXCEPT ![c] = Part(of, a, k, c)]
    <3>1. \A d \in Calls : Part(of, a, call'[d], d) = IF d = c THEN Part(of, a, k, c) ELSE f[d]
      <4> TAKE d \in Calls
      <4>1. CASE d = c
        BY ONLY <4>1, <1>1, Zenon
      <4>2. CASE d # c
        <5>1. call'[d] = call[d] /\ f[d] = Part(of, a, call[d], d)
          BY <4>2, <1>1, <2>1
        <5> QED BY ONLY <4>2, <5>1, Zenon
      <4> QED BY <4>1, <4>2
    <3>2. [f EXCEPT ![c] = Part(of, a, k, c)]
          = [d \in Calls |-> IF d = c THEN Part(of, a, k, c) ELSE f[d]]
      BY <2>2
    <3> QED BY <3>1, <3>2
  <2>4. PartSum(of, a)' = SumFunction([d \in Calls |-> Part(of, a, call'[d], d)])
    BY DEF PartSum, Part, OutPart, HeldPart
  <2>5. SumFunction([f EXCEPT ![c] = Part(of, a, k, c)])
        = SumFunction(f) + (Part(of, a, k, c) - f[c])
    BY <2>2, CallSumChange
  <2> QED BY <2>1, <2>2, <2>3, <2>4, <2>5 DEF PartSum
<1>3. /\ Part("out", a, k, c) = OutPart(k, c, a) /\ Part("held", a, k, c) = HeldPart(k, c, a)
      /\ Part("out", a, call[c], c) = OutPart(call[c], c, a)
      /\ Part("held", a, call[c], c) = HeldPart(call[c], c, a)
  BY DEF Part
<1> QED BY <1>2, <1>3, PartSums, PartSumsPrimed

\* A call under admission counts in no sum.
LEMMA Uncounted ==
  ASSUME NEW k, k.at \notin Counted, NEW c, NEW a
  PROVE  OutPart(k, c, a) = 0 /\ HeldPart(k, c, a) = 0
BY DEF Counted, Unbooked, OutPart, HeldPart

\* The sums stay when an uncounted call remains one.
LEMMA SumsStay ==
  ASSUME InferenceTypes, NEW c \in Calls, NEW k, IsCall(k), call' = [call EXCEPT ![c] = k],
         call[c].at \notin Counted, k.at \notin Counted
  PROVE  \A a : Outstanding(a)' = Outstanding(a) /\ Held(a)' = Held(a)
<1> TAKE a
<1>1. Outstanding(a) \in Nat /\ Held(a) \in Nat
  BY SumsInOrder
<1>2. Outstanding(a)' = Outstanding(a) + (0 - 0) /\ Held(a)' = Held(a) + (0 - 0)
  <2>1. /\ OutPart(k, c, a) = 0 /\ HeldPart(k, c, a) = 0
        /\ OutPart(call[c], c, a) = 0 /\ HeldPart(call[c], c, a) = 0
    BY Uncounted
  <2>2. /\ Outstanding(a)' = Outstanding(a) + (OutPart(k, c, a) - OutPart(call[c], c, a))
        /\ Held(a)' = Held(a) + (HeldPart(k, c, a) - HeldPart(call[c], c, a))
    BY OneCallMoves
  <2> QED BY ONLY <2>1, <2>2, Zenon
<1>3. \A n \in Nat : n + (0 - 0) = n
  BY SMT
<1> QED BY <1>1, <1>2, <1>3

\* The records of the calls after a step of one of them.
LEMMA CallTypes ==
  ASSUME InferenceTypes, NEW c \in Calls, NEW k, IsCall(k), call' = [call EXCEPT ![c] = k]
  PROVE  /\ DOMAIN call' = Calls /\ \A d \in Calls : IsCall(call'[d])
         /\ call'[c] = k /\ \A d \in Calls : d # c => call'[d] = call[d]
BY DEF InferenceTypes

LEMMA OverCall == IsCall(CallOver) /\ CallOver.at = "over"
BY SMT DEF IsCall, CallOver, NewCall, CallState, Reserving, Counted

\* What was spent is a number.
LEMMA SpentTypes ==
  ASSUME InferenceTypes, NEW a \in Accounts
  PROVE  Spent(a) \in Nat /\ unreserved[a] \in Nat /\ late[a] \in Nat
BY DEF InferenceTypes, Spent

LEMMA SpentTypesPrimed ==
  ASSUME InferenceTypes', NEW a \in Accounts
  PROVE  Spent(a)' \in Nat /\ unreserved'[a] \in Nat /\ late'[a] \in Nat
BY DEF InferenceTypes, Spent

\* A step that takes no room but what it counts as unreserved keeps the
\* limits, and what was offered.
LEMMA Settled ==
  ASSUME InferenceInv, InferenceTypes', Booked', UsageSaved', NEW extra,
         \A a \in Accounts :
           /\ extra[a] \in Nat
           /\ unreserved'[a] = unreserved[a] + extra[a] /\ late'[a] = late[a] + extra[a]
           /\ Spent(a)' + Outstanding(a)' <= (Spent(a) + Outstanding(a)) + extra[a],
         \A c \in Calls : call'[c].at \in Reserving =>
           /\ call'[c] = call[c] /\ quotaLock'[RouterFor(c)] = quotaLock[RouterFor(c)]
           /\ reserved'[RouterFor(c)] = reserved[RouterFor(c)]
  PROVE  InferenceInv'
<1>1. InferenceTypes /\ Offered /\ WithinLimits
  BY DEF InferenceInv
<1>2. ASSUME NEW a \in Accounts
      PROVE  /\ Spent(a) \in Nat /\ unreserved[a] \in Nat /\ late[a] \in Nat /\ extra[a] \in Nat
             /\ Spent(a)' \in Nat /\ Outstanding(a) \in Nat /\ Outstanding(a)' \in Nat
             /\ Limit(a) \in Nat /\ reserved[a] \in Int
             /\ unreserved'[a] = unreserved[a] + extra[a] /\ late'[a] = late[a] + extra[a]
             /\ Spent(a)' + Outstanding(a)' <= (Spent(a) + Outstanding(a)) + extra[a]
  <2>1. reserved[a] \in Int /\ extra[a] \in Nat
    BY <1>1 DEF InferenceTypes
  <2>2. Spent(a) \in Nat /\ unreserved[a] \in Nat /\ late[a] \in Nat
    BY <1>1, SpentTypes
  <2>3. Spent(a)' \in Nat
    BY SpentTypesPrimed
  <2>4. Outstanding(a) \in Nat
    BY <1>1, SumsInOrder
  <2>5. Outstanding(a)' \in Nat
    BY SumsInOrderPrimed
  <2>6. Limit(a) \in Nat
    BY Bounds
  <2> QED BY <2>1, <2>2, <2>3, <2>4, <2>5, <2>6
<1>3. WithinLimits'
  <2> SUFFICES ASSUME NEW a \in Accounts, Limit(a) > 0
               PROVE  Spent(a)' + Outstanding(a)' <= Limit(a) + unreserved'[a]
    BY DEF WithinLimits, Limit
  <2>1. PICK s, o, s1, o1 : s = Spent(a) /\ o = Outstanding(a) /\ s1 = Spent(a)' /\ o1 = Outstanding(a)'
    OBVIOUS
  <2>2. s + o <= Limit(a) + unreserved[a]
    BY <1>1, <2>1 DEF WithinLimits
  <2>3. /\ s \in Nat /\ o \in Nat /\ s1 \in Nat /\ o1 \in Nat /\ Limit(a) \in Nat
        /\ unreserved[a] \in Nat /\ extra[a] \in Nat /\ unreserved'[a] = unreserved[a] + extra[a]
        /\ s1 + o1 <= (s + o) + extra[a]
    BY <1>2, <2>1
  <2>4. s1 + o1 <= Limit(a) + unreserved'[a]
    BY ONLY <2>2, <2>3, SMT
  <2> QED BY <2>1, <2>4
<1>4. Offered'
  <2> SUFFICES ASSUME NEW c \in Calls, call'[c].at \in Reserving
               PROVE  /\ quotaLock'[RouterFor(c)] = c
                      /\ call'[c].remaining + (Spent(RunOf[c])' + Outstanding(RunOf[c])')
                           <= Limit(RunOf[c]) + late'[RunOf[c]]
                      /\ call'[c].at = "quota" =>
                           Spent(RouterFor(c))' + Outstanding(RouterFor(c))'
                             <= call'[c].seen + (reserved'[RouterFor(c)] + late'[RouterFor(c)])
    BY DEF Offered, RouterFor, Limit, Reserving
  <2>1. PICK r, q \in Accounts : r = RunOf[c] /\ q = RouterFor(c)
    BY Bounds
  <2>2. call'[c] = call[c] /\ quotaLock'[q] = quotaLock[q] /\ reserved'[q] = reserved[q]
    BY <2>1
  <2>3. /\ quotaLock[q] = c
        /\ call[c].remaining + (Spent(r) + Outstanding(r)) <= Limit(r) + late[r]
        /\ call[c].at = "quota" => Spent(q) + Outstanding(q) <= call[c].seen + (reserved[q] + late[q])
    BY <1>1, <2>1, <2>2 DEF Offered
  <2>4. call[c].remaining \in Int /\ call[c].seen \in Nat
    BY <1>1 DEF InferenceTypes, IsCall
  <2>5. call[c].remaining + (Spent(r)' + Outstanding(r)') <= Limit(r) + late'[r]
    <3>1. PICK s, o, s1, o1 : s = Spent(r) /\ o = Outstanding(r) /\ s1 = Spent(r)' /\ o1 = Outstanding(r)'
      OBVIOUS
    <3>2. /\ s \in Nat /\ o \in Nat /\ s1 \in Nat /\ o1 \in Nat /\ Limit(r) \in Nat
          /\ late[r] \in Nat /\ extra[r] \in Nat /\ late'[r] = late[r] + extra[r]
          /\ s1 + o1 <= (s + o) + extra[r]
      BY <1>2, <3>1
    <3>3. call[c].remaining + (s + o) <= Limit(r) + late[r]
      BY <2>3, <3>1
    <3>4. call[c].remaining + (s1 + o1) <= Limit(r) + late'[r]
      BY ONLY <2>4, <3>2, <3>3, SMT
    <3> QED BY <3>1, <3>4
  <2>6. call[c].at = "quota" =>
          Spent(q)' + Outstanding(q)' <= call[c].seen + (reserved[q] + late'[q])
    <3>1. PICK s, o, s1, o1 : s = Spent(q) /\ o = Outstanding(q) /\ s1 = Spent(q)' /\ o1 = Outstanding(q)'
      OBVIOUS
    <3>2. /\ s \in Nat /\ o \in Nat /\ s1 \in Nat /\ o1 \in Nat /\ reserved[q] \in Int
          /\ late[q] \in Nat /\ extra[q] \in Nat /\ late'[q] = late[q] + extra[q]
          /\ s1 + o1 <= (s + o) + extra[q]
      BY <1>2, <3>1
    <3>3. call[c].at = "quota" => s + o <= call[c].seen + (reserved[q] + late[q])
      BY <2>3, <3>1
    <3>4. call[c].at = "quota" => s1 + o1 <= call[c].seen + (reserved[q] + late'[q])
      BY ONLY <2>4, <3>2, <3>3, SMT
    <3> QED BY <3>1, <3>4
  <2> QED BY <2>1, <2>2, <2>3, <2>5, <2>6
<1> QED BY <1>3, <1>4 DEF InferenceInv

\* A step that books and reserves nothing.
LEMMA Idle ==
  ASSUME InferenceInv, InferenceTypes', Booked', UsageSaved',
         UNCHANGED <<unreserved, late>>,
         \A a \in Accounts : Spent(a)' = Spent(a) /\ Outstanding(a)' <= Outstanding(a),
         \A c \in Calls : call'[c].at \in Reserving =>
           /\ call'[c] = call[c] /\ quotaLock'[RouterFor(c)] = quotaLock[RouterFor(c)]
           /\ reserved'[RouterFor(c)] = reserved[RouterFor(c)]
  PROVE  InferenceInv'
<1>1. PICK extra : extra = [a \in Accounts |-> 0]
  OBVIOUS
<1>2. ASSUME NEW a \in Accounts
      PROVE  /\ extra[a] \in Nat
             /\ unreserved'[a] = unreserved[a] + extra[a] /\ late'[a] = late[a] + extra[a]
             /\ Spent(a)' + Outstanding(a)' <= (Spent(a) + Outstanding(a)) + extra[a]
  <2>1. /\ Spent(a) \in Nat /\ unreserved[a] \in Nat /\ late[a] \in Nat
        /\ Outstanding(a) \in Nat
    BY SpentTypes, SumsInOrder DEF InferenceInv
  <2>2. Outstanding(a)' \in Nat
    BY SumsInOrderPrimed
  <2>3. PICK s, o, o1 : s = Spent(a) /\ o = Outstanding(a) /\ o1 = Outstanding(a)'
    OBVIOUS
  <2>4. extra[a] = 0 /\ o1 <= o
    BY <1>1, <2>3
  <2>5. extra[a] \in Nat /\ unreserved[a] = unreserved[a] + extra[a] /\ late[a] = late[a] + extra[a]
    BY <2>1, <2>4, SMT
  <2>6. s + o1 <= (s + o) + extra[a]
    <3>1. s \in Nat /\ o \in Nat /\ o1 \in Nat
      BY <2>1, <2>2, <2>3
    <3> QED BY ONLY <2>4, <3>1, SMT
  <2> QED BY <2>3, <2>5, <2>6
<1> QED BY <1>2, Settled

\* A step by which an uncounted call goes on or is refused.
LEMMA Refused ==
  ASSUME InferenceInv, NEW c \in Calls, NEW k, IsCall(k), call' = [call EXCEPT ![c] = k],
         call[c].at \notin Counted, k.at \notin Counted, k.at \notin Reserving,
         UNCHANGED <<total, usage, daily, reserved, allocated, unreserved, late>>,
         quotaLock' \in [Routers -> Calls \cup {NoCall}],
         \A d \in Calls : d # c /\ call[d].at \in Reserving =>
           quotaLock'[RouterFor(d)] = quotaLock[RouterFor(d)]
  PROVE  InferenceInv'
<1>1. InferenceTypes
  BY DEF InferenceInv
<1>2. /\ DOMAIN call' = Calls /\ \A d \in Calls : IsCall(call'[d])
      /\ call'[c] = k /\ \A d \in Calls : d # c => call'[d] = call[d]
  BY <1>1, CallTypes
<1>3. InferenceTypes'
  <2>1. \A d \in Calls : IsCall(call[d])'
    BY <1>2 DEF IsCall
  <2> QED BY <1>1, <1>2, <2>1 DEF InferenceTypes
<1>4. \A a : Outstanding(a)' = Outstanding(a) /\ Held(a)' = Held(a)
  BY <1>1, SumsStay
<1>5. Booked'
  BY <1>4 DEF InferenceInv, Booked
<1>6. UsageSaved'
  BY DEF InferenceInv, UsageSaved
<1>7. \A a \in Accounts : Spent(a)' = Spent(a) /\ Outstanding(a)' <= Outstanding(a)
  <2>1. \A n \in Nat : n <= n
    BY SMT
  <2> QED BY <1>1, <1>4, <2>1, SumsInOrder DEF Spent
<1>8. \A d \in Calls : call'[d].at \in Reserving =>
        /\ call'[d] = call[d] /\ quotaLock'[RouterFor(d)] = quotaLock[RouterFor(d)]
        /\ reserved'[RouterFor(d)] = reserved[RouterFor(d)]
  BY <1>2
<1> QED BY <1>3, <1>5, <1>6, <1>7, <1>8, Idle

LEMMA PrepareKeeps ==
  ASSUME InferenceInv, NEW c \in Calls, NEW est \in Estimates, prepare(c, est)
  PROVE  InferenceInv'
<1>1. PICK k : /\ call' = [call EXCEPT ![c] = k]
               /\ k = CallOver \/ k = [call[c] EXCEPT !.at = "wait", !.est = est]
  BY DEF prepare
<1>2. IsCall(call[c]) /\ est \in Nat /\ quotaLock' \in [Routers -> Calls \cup {NoCall}]
  BY Bounds DEF InferenceInv, InferenceTypes, prepare
<1>3. IsCall(k) /\ k.at \in {"over", "wait"}
  <2>1. CASE k = CallOver
    BY <2>1, OverCall
  <2>2. CASE k = [call[c] EXCEPT !.at = "wait", !.est = est]
    BY ONLY <1>2, <2>2, SMT DEF IsCall, CallState
  <2> QED BY <1>1, <2>1, <2>2
<1>4. call[c].at \notin Counted /\ k.at \notin Counted /\ k.at \notin Reserving
  BY <1>3 DEF prepare, Counted, Reserving
<1> QED BY <1>1, <1>2, <1>3, <1>4, Refused DEF prepare

\* The lock of a router is held by the only call that is reserving there.
LEMMA OneReserves ==
  ASSUME InferenceInv, NEW c \in Calls, NEW d \in Calls, d # c, RouterFor(d) = RouterFor(c),
         quotaLock[RouterFor(c)] \in {c, NoCall}
  PROVE  call[d].at \notin Reserving
BY Bounds DEF InferenceInv, Offered

\* The runs of different routers are different.
LEMMA OtherRouter ==
  ASSUME NEW c \in Calls, NEW d \in Calls, RouterFor(d) # RouterFor(c)
  PROVE  /\ RunOf[d] # RunOf[c] /\ RunOf[d] \notin AccountsOf(c) /\ RouterFor(d) \notin AccountsOf(c)
         /\ RunOf[c] \in AccountsOf(c) /\ RouterFor(c) \in AccountsOf(c)
<1>1. RunOf[d] # RunOf[c]
  BY DEF RouterFor
<1>2. RunOf[d] # RouterFor(c) /\ RouterFor(d) # RunOf[c]
  BY Bounds
<1> QED BY <1>1, <1>2 DEF AccountsOf

\* _reserve reads what remains; what is reserved is at least what is outstanding.
LEMMA ReserveKeeps ==
  ASSUME InferenceInv, NEW c \in Calls, reserve(c)
  PROVE  InferenceInv'
<1>1. PICK r \in InferenceRuns, q \in Routers : r = RunOf[c] /\ q = RouterFor(c) /\ r \in Accounts
  BY Bounds
<1>2. PICK m : m = MaxRunTokens[r] - total[r] - reserved[r]
  OBVIOUS
<1>3. InferenceTypes /\ IsCall(call[c])
  BY DEF InferenceInv, InferenceTypes
<1>4. /\ total[r] \in Nat /\ reserved[r] = Held(r) /\ Held(r) \in Nat /\ Outstanding(r) \in Nat
      /\ Outstanding(r) <= Held(r) /\ MaxRunTokens[r] \in Nat /\ Limit(r) = MaxRunTokens[r]
      /\ Spent(r) = total[r]
  BY <1>1, <1>3, SumsInOrder, Bounds DEF InferenceInv, InferenceTypes, Booked, Spent
<1>5. m \in Int /\ m + (Spent(r) + Outstanding(r)) <= Limit(r) + 0
  <2>1. PICK s, o, h, l : s = total[r] /\ o = Outstanding(r) /\ h = Held(r) /\ l = MaxRunTokens[r]
    OBVIOUS
  <2>2. m = l - s - h /\ s \in Nat /\ o \in Nat /\ h \in Nat /\ l \in Nat /\ o <= h
    BY <1>2, <1>4, <2>1
  <2>3. m \in Int /\ m + (s + o) <= l + 0
    BY ONLY <2>2, SMT
  <2> QED BY <1>4, <2>1, <2>3
<1>6. PICK k : k = [call[c] EXCEPT !.at = "reserve", !.remaining = m]
  OBVIOUS
<1>7. call' = [call EXCEPT ![c] = k]
  BY <1>1, <1>2, <1>6 DEF reserve
<1>8. IsCall(k) /\ k.at = "reserve" /\ k.remaining = m
  BY ONLY <1>3, <1>5, <1>6, SMT DEF IsCall, CallState, Reserving
<1>9. call[c].at \notin Counted /\ k.at \notin Counted
  BY <1>8 DEF reserve, Counted
<1>10. /\ DOMAIN call' = Calls /\ \A d \in Calls : IsCall(call'[d])
       /\ call'[c] = k /\ \A d \in Calls : d # c => call'[d] = call[d]
  BY <1>3, <1>7, <1>8, CallTypes
<1>11. /\ quotaLock[q] = NoCall /\ quotaLock' = [quotaLock EXCEPT ![q] = c]
       /\ late' = [a \in Accounts |-> IF a \in AccountsOf(c) THEN 0 ELSE late[a]]
       /\ quotaLock \in [Routers -> Calls \cup {NoCall}] /\ late \in [Accounts -> Nat]
  BY <1>1, <1>3 DEF reserve, InferenceTypes
<1>12. InferenceTypes'
  <2>1. \A d \in Calls : IsCall(call[d])'
    BY <1>10 DEF IsCall
  <2>2. quotaLock' \in [Routers -> Calls \cup {NoCall}]
    BY <1>11
  <2>3. late' \in [Accounts -> Nat]
    <3>1. 0 \in Nat
      BY SMT
    <3> QED BY <1>11, <3>1
  <2> QED BY <1>3, <1>10, <2>1, <2>2, <2>3 DEF InferenceTypes, reserve
<1>13. \A a : Outstanding(a)' = Outstanding(a) /\ Held(a)' = Held(a) /\ Spent(a)' = Spent(a)
  BY <1>3, <1>7, <1>8, <1>9, SumsStay DEF Spent, reserve
<1>14. Booked' /\ UsageSaved' /\ WithinLimits'
  BY <1>13 DEF InferenceInv, Booked, UsageSaved, WithinLimits, Limit, reserve
<1>15. Offered'
  <2> SUFFICES ASSUME NEW d \in Calls, call'[d].at \in Reserving
               PROVE  /\ quotaLock'[RouterFor(d)] = d
                      /\ call'[d].remaining + (Spent(RunOf[d])' + Outstanding(RunOf[d])')
                           <= Limit(RunOf[d]) + late'[RunOf[d]]
                      /\ call'[d].at = "quota" =>
                           Spent(RouterFor(d))' + Outstanding(RouterFor(d))'
                             <= call'[d].seen + (reserved'[RouterFor(d)] + late'[RouterFor(d)])
    BY DEF Offered, RouterFor, Limit, Reserving
  <2>1. CASE d = c
    <3>1. late'[r] = 0 /\ quotaLock'[q] = c
      BY <1>1, <1>11 DEF AccountsOf
    <3> QED BY <2>1, <3>1, <1>1, <1>5, <1>8, <1>10, <1>13
  <2>2. CASE d # c
    <3>1. call[d].at \in Reserving /\ call'[d] = call[d]
      BY <2>2, <1>10
    <3>2. RouterFor(d) # RouterFor(c)
      BY <1>1, <1>11, <2>2, <3>1, OneReserves
    <3>3. RunOf[d] \notin AccountsOf(c) /\ RouterFor(d) \notin AccountsOf(c)
      BY <3>2, OtherRouter
    <3>4. RunOf[d] \in Accounts /\ RouterFor(d) \in Accounts /\ RouterFor(d) \in Routers
      BY Bounds
    <3>5. late'[RunOf[d]] = late[RunOf[d]] /\ late'[RouterFor(d)] = late[RouterFor(d)]
      BY <1>11, <3>3, <3>4
    <3>6. quotaLock'[RouterFor(d)] = quotaLock[RouterFor(d)]
      BY <1>1, <1>11, <3>2, <3>4
    <3>7. reserved' = reserved
      BY DEF reserve
    <3> QED BY <1>13, <3>1, <3>5, <3>6, <3>7 DEF InferenceInv, Offered
  <2> QED BY <2>1, <2>2
<1> QED BY <1>12, <1>14, <1>15 DEF InferenceInv

\* ... and what was allocated and used of the day.
LEMMA ReadKeeps ==
  ASSUME InferenceInv, NEW c \in Calls, reserve_read(c)
  PROVE  InferenceInv'
<1>1. PICK r \in InferenceRuns, q \in Routers :
        /\ r = RunOf[c] /\ q = RouterFor(c) /\ r \in Accounts /\ q \in Accounts /\ q \notin InferenceRuns
  BY Bounds
<1>2. InferenceTypes /\ IsCall(call[c]) /\ call[c].at = "reserve"
  BY DEF InferenceInv, InferenceTypes, reserve_read
<1>3. PICK m : m = call[c].remaining - allocated[r]
  OBVIOUS
<1>4. allocated[r] \in Nat /\ call[c].remaining \in Int /\ daily \in Nat
  BY <1>2 DEF InferenceTypes, IsCall
<1>5. m \in Int /\ m <= call[c].remaining
  BY ONLY <1>3, <1>4, SMT
<1>6. PICK k : k = [call[c] EXCEPT !.at = "quota", !.seen = daily, !.remaining = m]
  OBVIOUS
<1>7. call' = [call EXCEPT ![c] = k]
  BY <1>1, <1>3, <1>6 DEF reserve_read
<1>8. IsCall(k) /\ k.at = "quota" /\ k.remaining = m /\ k.seen = daily
  BY ONLY <1>2, <1>3, <1>4, <1>5, <1>6, SMT DEF IsCall, CallState, Reserving
<1>9. call[c].at \notin Counted /\ k.at \notin Counted
  BY <1>2, <1>8 DEF Counted
<1>10. /\ DOMAIN call' = Calls /\ \A d \in Calls : IsCall(call'[d])
       /\ call'[c] = k /\ \A d \in Calls : d # c => call'[d] = call[d]
  BY <1>2, <1>7, <1>8, CallTypes
<1>11. UNCHANGED <<total, usage, daily, reserved, quotaLock, allocated, unreserved, late>>
  BY DEF reserve_read
<1>12. InferenceTypes'
  <2>1. \A d \in Calls : IsCall(call[d])'
    BY <1>10 DEF IsCall
  <2> QED BY <1>2, <1>10, <1>11, <2>1 DEF InferenceTypes
<1>13. \A a : Outstanding(a)' = Outstanding(a) /\ Held(a)' = Held(a) /\ Spent(a)' = Spent(a)
  BY <1>2, <1>7, <1>8, <1>9, <1>11, SumsStay DEF Spent
<1>14. Booked' /\ UsageSaved' /\ WithinLimits'
  BY <1>11, <1>13 DEF InferenceInv, Booked, UsageSaved, WithinLimits, Limit
<1>15. Offered'
  <2> SUFFICES ASSUME NEW d \in Calls, call'[d].at \in Reserving
               PROVE  /\ quotaLock[RouterFor(d)] = d
                      /\ call'[d].remaining + (Spent(RunOf[d]) + Outstanding(RunOf[d]))
                           <= Limit(RunOf[d]) + late[RunOf[d]]
                      /\ call'[d].at = "quota" =>
                           Spent(RouterFor(d)) + Outstanding(RouterFor(d))
                             <= call'[d].seen + (reserved[RouterFor(d)] + late[RouterFor(d)])
    BY <1>11, <1>13 DEF Offered, RouterFor, Limit, Reserving
  <2>1. CASE d = c
    <3>1. /\ quotaLock[q] = c
          /\ call[c].remaining + (Spent(r) + Outstanding(r)) <= Limit(r) + late[r]
      BY <1>1, <1>2 DEF InferenceInv, Offered, Reserving
    <3>2. /\ Spent(r) \in Nat /\ Outstanding(r) \in Nat /\ Limit(r) \in Nat /\ late[r] \in Nat
      BY <1>1, <1>2, SpentTypes, SumsInOrder, Bounds
    <3>3. m + (Spent(r) + Outstanding(r)) <= Limit(r) + late[r]
      <4>1. PICK s, o, l : s = Spent(r) /\ o = Outstanding(r) /\ l = Limit(r)
        OBVIOUS
      <4>2. /\ s \in Nat /\ o \in Nat /\ l \in Nat /\ late[r] \in Nat
            /\ call[c].remaining + (s + o) <= l + late[r]
        BY <3>1, <3>2, <4>1
      <4>3. m + (s + o) <= l + late[r]
        BY ONLY <1>4, <1>5, <4>2, SMT
      <4> QED BY <4>1, <4>3
    <3>4. Spent(q) + Outstanding(q) <= daily + (reserved[q] + late[q])
      <4>1. PICK o, h : o = Outstanding(q) /\ h = Held(q)
        OBVIOUS
      <4>2. o \in Nat /\ h \in Nat /\ o <= h /\ reserved[q] = h /\ late[q] \in Nat /\ Spent(q) = daily
        BY <1>1, <1>2, <4>1, SumsInOrder DEF InferenceTypes, InferenceInv, Booked, Spent
      <4>3. daily + o <= daily + (h + late[q])
        BY ONLY <1>4, <4>2, SMT
      <4> QED BY <4>1, <4>2, <4>3
    <3> QED BY <2>1, <3>1, <3>3, <3>4, <1>1, <1>8, <1>10
  <2>2. CASE d # c
    BY <2>2, <1>10 DEF InferenceInv, Offered
  <2> QED BY <2>1, <2>2
<1> QED BY <1>12, <1>14, <1>15 DEF InferenceInv

\* The reservation fits into what remains.
LEMMA ReservationFits ==
  ASSUME NEW rem \in Int, NEW est \in Nat, ~(rem <= est)
  PROVE  ReservationOf(rem, est) \in Nat /\ ReservationOf(rem, est) <= rem
<1>1. PICK x \in Nat : x = rem - est
  BY SMT
<1>2. ResponseReserve \in Nat
  BY Bounds
<1>3. \E y \in {ResponseReserve, x} : \A z \in {ResponseReserve, x} : y =< z
  <2>1. ResponseReserve =< ResponseReserve /\ x =< x /\ (ResponseReserve =< x \/ x =< ResponseReserve)
    BY <1>2, SMT
  <2> QED BY <2>1
<1>4. PICK y : y = Min({ResponseReserve, x})
  OBVIOUS
<1>5. y \in {ResponseReserve, x} /\ y =< x
  BY <1>3, <1>4 DEF Min
<1>6. y \in Nat
  BY <1>2, <1>5
<1>7. ReservationOf(rem, est) = est + y
  BY <1>1, <1>4 DEF ReservationOf
<1> QED BY ONLY <1>1, <1>5, <1>6, <1>7, rem \in Int, est \in Nat, SMT

\* A call's tokens are reserved, of its run and of the day.
LEMMA AdmitKeeps ==
  ASSUME InferenceInv, NEW c \in Calls, call[c].at = "quota",
         NEW res, res = ReservationOf(call[c].remaining, call[c].est),
         ~(call[c].remaining <= call[c].est), DailyAdmits(c, res),
         call' = [call EXCEPT ![c] = [NewCall EXCEPT !.at = "model", !.res = res]],
         reserved' = [a \in Accounts |-> IF a \in AccountsOf(c) THEN reserved[a] + res ELSE reserved[a]],
         unreserved' = [a \in Accounts |-> IF a \in AccountsOf(c) THEN late[a] ELSE unreserved[a]],
         quotaLock' = [quotaLock EXCEPT ![RouterFor(c)] = NoCall],
         UNCHANGED <<total, usage, daily, allocated, late>>
  PROVE  InferenceInv'
<1>1. InferenceTypes /\ IsCall(call[c])
  BY DEF InferenceInv, InferenceTypes
<1>2. /\ call[c].remaining \in Int /\ call[c].est \in Nat /\ call[c].seen \in Nat
      /\ reserved \in [Accounts -> Int] /\ unreserved \in [Accounts -> Nat] /\ late \in [Accounts -> Nat]
      /\ quotaLock \in [Routers -> Calls \cup {NoCall}]
  BY <1>1 DEF IsCall, InferenceTypes
<1>3. res \in Nat /\ res <= call[c].remaining
  BY <1>2, ReservationFits
<1>4. PICK r \in InferenceRuns, q \in Routers :
        /\ r = RunOf[c] /\ q = RouterFor(c) /\ r \in Accounts /\ q \in Accounts /\ q \notin InferenceRuns
  BY Bounds
<1>5. PICK k : k = [NewCall EXCEPT !.at = "model", !.res = res]
  OBVIOUS
<1>6. IsCall(k) /\ k.at = "model" /\ k.res = res
  BY ONLY <1>3, <1>5, SMT DEF IsCall, CallState, NewCall, Counted
<1>7. /\ DOMAIN call' = Calls /\ \A d \in Calls : IsCall(call'[d])
      /\ call'[c] = k /\ \A d \in Calls : d # c => call'[d] = call[d]
  BY <1>1, <1>5, <1>6, CallTypes
<1>8. ASSUME NEW a
      PROVE  /\ Outstanding(a)' = Outstanding(a) + (IF a \in AccountsOf(c) THEN res ELSE 0)
             /\ Held(a)' = Held(a) + (IF a \in AccountsOf(c) THEN res ELSE 0)
             /\ Outstanding(a) \in Nat /\ Held(a) \in Nat /\ Outstanding(a) <= Held(a)
  <2>1. PICK x : x = IF a \in AccountsOf(c) THEN res ELSE 0
    OBVIOUS
  <2>2. OutPart(k, c, a) = x /\ HeldPart(k, c, a) = x
    BY <1>6, <2>1 DEF OutPart, HeldPart, Unbooked, Counted
  <2>3. OutPart(call[c], c, a) = 0 /\ HeldPart(call[c], c, a) = 0
    <3>1. call[c].at \notin Counted
      BY DEF Counted
    <3> QED BY <3>1, Uncounted
  <2>4. /\ Outstanding(a)' = Outstanding(a) + (OutPart(k, c, a) - OutPart(call[c], c, a))
        /\ Held(a)' = Held(a) + (HeldPart(k, c, a) - HeldPart(call[c], c, a))
    BY <1>1, <1>5, <1>6, OneCallMoves
  <2>5. Outstanding(a)' = Outstanding(a) + (x - 0) /\ Held(a)' = Held(a) + (x - 0)
    BY ONLY <2>2, <2>3, <2>4, Zenon
  <2>6. x - 0 = x
    BY <1>3, <2>1, SMT
  <2>7. Outstanding(a) \in Nat /\ Held(a) \in Nat /\ Outstanding(a) <= Held(a)
    BY <1>1, SumsInOrder
  <2> QED BY <2>1, <2>5, <2>6, <2>7
<1>9. \A d \in Calls : d # c /\ call[d].at \in Reserving => RouterFor(d) # q
  BY <1>4, OneReserves DEF InferenceInv, Offered, Reserving
<1>10. InferenceTypes'
  <2>1. \A d \in Calls : IsCall(call[d])'
    BY <1>7 DEF IsCall
  <2>2. reserved' \in [Accounts -> Int]
    <3>1. \A n \in Int : n + res \in Int
      BY <1>3, SMT
    <3> QED BY <1>2, <3>1
  <2>3. unreserved' \in [Accounts -> Nat]
    BY <1>2
  <2>4. quotaLock' \in [Routers -> Calls \cup {NoCall}]
    BY <1>2
  <2> QED BY <1>1, <1>7, <2>1, <2>2, <2>3, <2>4 DEF InferenceTypes
<1>11. Booked'
  <2> SUFFICES ASSUME NEW a \in Accounts PROVE reserved'[a] = Held(a)'
    BY DEF Booked
  <2>1. reserved[a] = Held(a) /\ Held(a) \in Nat
    BY <1>8 DEF InferenceInv, Booked
  <2>2. Held(a) + 0 = Held(a)
    BY <2>1, SMT
  <2>3. reserved'[a] = IF a \in AccountsOf(c) THEN reserved[a] + res ELSE reserved[a]
    OBVIOUS
  <2> QED BY <1>8, <2>1, <2>2, <2>3
<1>12. UsageSaved'
  BY DEF InferenceInv, UsageSaved
<1>13. \A a : Spent(a)' = Spent(a)
  BY DEF Spent
<1>14. Offered'
  <2> SUFFICES ASSUME NEW d \in Calls, call'[d].at \in Reserving
               PROVE  /\ quotaLock'[RouterFor(d)] = d
                      /\ call'[d].remaining + (Spent(RunOf[d])' + Outstanding(RunOf[d])')
                           <= Limit(RunOf[d]) + late'[RunOf[d]]
                      /\ call'[d].at = "quota" =>
                           Spent(RouterFor(d))' + Outstanding(RouterFor(d))'
                             <= call'[d].seen + (reserved'[RouterFor(d)] + late'[RouterFor(d)])
    BY DEF Offered, RouterFor, Limit, Reserving
  <2>1. d # c
    BY <1>6, <1>7 DEF Reserving
  <2>2. call'[d] = call[d] /\ call[d].at \in Reserving
    BY <1>7, <2>1
  <2>3. RouterFor(d) # RouterFor(c)
    BY <1>4, <1>9, <2>1, <2>2
  <2>4. RunOf[d] \notin AccountsOf(c) /\ RouterFor(d) \notin AccountsOf(c)
    BY <2>3, OtherRouter
  <2>5. RunOf[d] \in Accounts /\ RouterFor(d) \in Accounts /\ RouterFor(d) \in Routers
    BY Bounds
  <2>6. quotaLock'[RouterFor(d)] = quotaLock[RouterFor(d)] /\ reserved'[RouterFor(d)] = reserved[RouterFor(d)]
    BY <1>2, <2>3, <2>4, <2>5
  <2>7. \A a : a \notin AccountsOf(c) => Outstanding(a)' = Outstanding(a)
    <3>1. \A n \in Nat : n + 0 = n
      BY SMT
    <3> QED BY <1>8, <3>1
  <2> QED BY <1>13, <2>2, <2>4, <2>6, <2>7 DEF InferenceInv, Offered
<1>15. /\ Spent(r) \in Nat /\ Spent(q) \in Nat /\ late[r] \in Nat /\ late[q] \in Nat
       /\ Limit(r) \in Nat /\ DailyTokens \in Nat /\ reserved[q] \in Int
       /\ Outstanding(r) \in Nat /\ Outstanding(q) \in Nat
  BY <1>1, <1>2, <1>4, <1>8, SpentTypes, Bounds
<1>16. (Spent(r) + (Outstanding(r) + res)) <= Limit(r) + late[r]
  <2>1. PICK s, o, l : s = Spent(r) /\ o = Outstanding(r) /\ l = Limit(r)
    OBVIOUS
  <2>2. call[c].remaining + (s + o) <= l + late[r]
    BY <1>4, <2>1 DEF InferenceInv, Offered, Reserving
  <2>3. s \in Nat /\ o \in Nat /\ l \in Nat /\ late[r] \in Nat
    BY <1>15, <2>1
  <2>4. s + (o + res) <= l + late[r]
    BY ONLY <1>2, <1>3, <2>2, <2>3, SMT
  <2> QED BY <2>1, <2>4
<1>17. DailyTokens > 0 => (Spent(q) + (Outstanding(q) + res)) <= DailyTokens + late[q]
  <2>1. PICK s, o, l : s = Spent(q) /\ o = Outstanding(q) /\ l = DailyTokens
    OBVIOUS
  <2>2. s + o <= call[c].seen + (reserved[q] + late[q])
    BY <1>4, <2>1 DEF InferenceInv, Offered, Reserving
  <2>3. l = 0 \/ call[c].seen + reserved[q] + res <= l
    BY <1>4, <2>1 DEF DailyAdmits
  <2>4. s \in Nat /\ o \in Nat /\ l \in Nat /\ late[q] \in Nat /\ reserved[q] \in Int
    BY <1>15, <2>1
  <2>5. l > 0 => s + (o + res) <= l + late[q]
    BY ONLY <1>2, <1>3, <2>2, <2>3, <2>4, SMT
  <2> QED BY <2>1, <2>5
<1>18. WithinLimits'
  <2> SUFFICES ASSUME NEW a \in Accounts, Limit(a) > 0
               PROVE  Spent(a) + Outstanding(a)' <= Limit(a) + unreserved'[a]
    BY <1>13 DEF WithinLimits, Limit
  <2>1. CASE a \in AccountsOf(c)
    <3>1. unreserved'[a] = late[a] /\ Outstanding(a)' = Outstanding(a) + res
      BY <1>8, <2>1
    <3>2. a = r \/ a = q
      BY <1>4, <2>1 DEF AccountsOf
    <3>3. Limit(q) = DailyTokens
      BY <1>4 DEF Limit
    <3> QED BY <1>16, <1>17, <3>1, <3>2, <3>3
  <2>2. CASE a \notin AccountsOf(c)
    <3>1. unreserved'[a] = unreserved[a] /\ Outstanding(a)' = Outstanding(a) + 0 /\ Outstanding(a) \in Nat
      BY <1>8, <2>2
    <3>2. Outstanding(a) + 0 = Outstanding(a)
      BY <3>1, SMT
    <3> QED BY <3>1, <3>2 DEF InferenceInv, WithinLimits
  <2> QED BY <2>1, <2>2
<1> QED BY <1>10, <1>11, <1>12, <1>14, <1>18 DEF InferenceInv

LEMMA ReserveRestKeeps ==
  ASSUME InferenceInv, NEW c \in Calls, reserve_rest(c)
  PROVE  InferenceInv'
<1>1. PICK res : res = ReservationOf(call[c].remaining, call[c].est)
  OBVIOUS
<1>2. call[c].at = "quota" /\ quotaLock' = [quotaLock EXCEPT ![RouterFor(c)] = NoCall]
  BY DEF reserve_rest
<1>3. CASE call[c].remaining <= call[c].est \/ ~DailyAdmits(c, res)
  <2>1. /\ call' = [call EXCEPT ![c] = CallOver]
        /\ UNCHANGED <<total, usage, daily, reserved, allocated, unreserved, late>>
    BY <1>1, <1>3 DEF reserve_rest
  <2>2. call[c].at \notin Counted /\ CallOver.at \notin Counted /\ CallOver.at \notin Reserving
    BY <1>2, OverCall DEF Counted, Reserving
  <2>3. quotaLock \in [Routers -> Calls \cup {NoCall}] /\ quotaLock[RouterFor(c)] = c
    BY <1>2 DEF InferenceInv, InferenceTypes, Offered, Reserving
  <2>4. quotaLock' \in [Routers -> Calls \cup {NoCall}]
    BY <1>2, <2>3
  <2>5. ASSUME NEW d \in Calls, d # c, call[d].at \in Reserving
        PROVE  quotaLock'[RouterFor(d)] = quotaLock[RouterFor(d)]
    <3>1. RouterFor(d) # RouterFor(c)
      BY <2>3, <2>5, OneReserves
    <3>2. RouterFor(d) \in Routers
      BY Bounds
    <3> QED BY <1>2, <2>3, <3>1, <3>2
  <2> QED BY <2>1, <2>2, <2>4, <2>5, OverCall, Refused
<1>4. CASE ~(call[c].remaining <= call[c].est) /\ DailyAdmits(c, res)
  <2>1. /\ call' = [call EXCEPT ![c] = [NewCall EXCEPT !.at = "model", !.res = res]]
        /\ reserved' = [a \in Accounts |-> IF a \in AccountsOf(c) THEN reserved[a] + res ELSE reserved[a]]
        /\ unreserved' = [a \in Accounts |-> IF a \in AccountsOf(c) THEN late[a] ELSE unreserved[a]]
        /\ UNCHANGED <<total, usage, daily, allocated, late>>
    BY <1>1, <1>4 DEF reserve_rest
  <2> QED BY <1>1, <1>2, <1>4, <2>1, AdmitKeeps
<1> QED BY <1>3, <1>4

\* A step of a call that has its reservation, after which the call keeps it:
\* what it adds is covered by what it may still add less, or is counted as
\* unreserved.
LEMMA SpentKeeps ==
  ASSUME InferenceInv, NEW c \in Calls, NEW k, IsCall(k), call' = [call EXCEPT ![c] = k],
         call[c].at \in {"model", "record"}, k.at \in {"record", "release"}, k.res = call[c].res,
         total' \in [InferenceRuns -> Nat], daily' \in Nat, usage' \in [InferenceRuns -> Nat],
         \A r \in InferenceRuns : usage'[r] <= total'[r],
         NEW extra,
         unreserved' = [a \in Accounts |-> unreserved[a] + extra[a]],
         late' = [a \in Accounts |-> late[a] + extra[a]],
         \A a \in Accounts :
           /\ extra[a] \in Nat
           /\ Spent(a)' + OutPart(k, c, a) <= (Spent(a) + OutPart(call[c], c, a)) + extra[a],
         UNCHANGED <<reserved, quotaLock, allocated>>
  PROVE  InferenceInv'
<1>1. InferenceTypes /\ IsCall(call[c])
  BY DEF InferenceInv, InferenceTypes
<1>2. /\ DOMAIN call' = Calls /\ \A e \in Calls : IsCall(call'[e])
      /\ call'[c] = k /\ \A e \in Calls : e # c => call'[e] = call[e]
  BY <1>1, CallTypes
<1>3. ASSUME NEW a
      PROVE  /\ OutPart(k, c, a) \in Nat /\ OutPart(call[c], c, a) \in Nat
             /\ Outstanding(a) \in Nat /\ Held(a) \in Nat /\ Held(a)' = Held(a)
             /\ Outstanding(a)' = Outstanding(a) + (OutPart(k, c, a) - OutPart(call[c], c, a))
  <2>1. HeldPart(k, c, a) = HeldPart(call[c], c, a) /\ HeldPart(call[c], c, a) \in Nat
    BY <1>1, Parts DEF HeldPart, Counted
  <2>2. /\ Outstanding(a)' = Outstanding(a) + (OutPart(k, c, a) - OutPart(call[c], c, a))
        /\ Held(a)' = Held(a) + (HeldPart(k, c, a) - HeldPart(call[c], c, a))
    BY <1>1, OneCallMoves
  <2>3. Outstanding(a) \in Nat /\ Held(a) \in Nat
    BY <1>1, SumsInOrder
  <2>4. \A m, n \in Nat : m + (n - n) = m
    BY SMT
  <2>5. Held(a)' = Held(a)
    BY ONLY <2>1, <2>2, <2>3, <2>4, Zenon
  <2> QED BY <1>1, <2>2, <2>3, <2>5, Parts
<1>4. InferenceTypes'
  <2>1. \A e \in Calls : IsCall(call[e])'
    BY <1>2 DEF IsCall
  <2>2. \A a, b \in Nat : a + b \in Nat
    BY SMT
  <2>3. unreserved \in [Accounts -> Nat] /\ late \in [Accounts -> Nat]
    BY <1>1 DEF InferenceTypes
  <2>4. \A a \in Accounts : unreserved[a] + extra[a] \in Nat /\ late[a] + extra[a] \in Nat
    BY <2>2, <2>3
  <2>5. unreserved' \in [Accounts -> Nat] /\ late' \in [Accounts -> Nat]
    BY <2>4
  <2> QED BY <1>1, <1>2, <2>1, <2>5 DEF InferenceTypes
<1>5. Booked'
  BY <1>3 DEF InferenceInv, Booked
<1>6. UsageSaved'
  BY DEF UsageSaved
<1>7. ASSUME NEW a \in Accounts
      PROVE  Spent(a)' + Outstanding(a)' <= (Spent(a) + Outstanding(a)) + extra[a]
  <2>1. PICK s, s1, o, x, y : /\ s = Spent(a) /\ s1 = Spent(a)' /\ o = Outstanding(a)
                              /\ x = OutPart(call[c], c, a) /\ y = OutPart(k, c, a)
    OBVIOUS
  <2>2. s \in Nat /\ s1 \in Nat
    BY <1>1, <1>4, <2>1, SpentTypes, SpentTypesPrimed
  <2>3. /\ o \in Nat /\ x \in Nat /\ y \in Nat /\ Outstanding(a)' = o + (y - x)
    BY <1>3, <2>1
  <2>4. s1 + y <= (s + x) + extra[a] /\ extra[a] \in Nat
    BY <2>1
  <2>5. s1 + (o + (y - x)) <= (s + o) + extra[a]
    BY ONLY <2>2, <2>3, <2>4, SMT
  <2> QED BY <2>1, <2>3, <2>5
<1>8. \A e \in Calls : call'[e].at \in Reserving =>
        /\ call'[e] = call[e] /\ quotaLock'[RouterFor(e)] = quotaLock[RouterFor(e)]
        /\ reserved'[RouterFor(e)] = reserved[RouterFor(e)]
  BY <1>2 DEF Reserving
<1> QED BY <1>4, <1>5, <1>6, <1>7, <1>8, Settled

\* What a use exceeds its reservation by.
LEMMA ExcessIs ==
  ASSUME NEW c \in Calls, IsCall(call[c]), NEW used \in Nat
  PROVE  Excess(c, used) \in Nat /\ used <= call[c].res + Excess(c, used)
<1>1. call[c].res \in Nat
  BY DEF IsCall
<1> QED BY <1>1, SMT DEF Excess

\* The model answers.
LEMMA CompleteKeeps ==
  ASSUME InferenceInv, NEW c \in Calls, NEW used \in Reports, complete(c, used)
  PROVE  InferenceInv'
<1>1. PICK r \in InferenceRuns : r = RunOf[c] /\ r \in Accounts
  BY Bounds
<1>2. InferenceTypes /\ IsCall(call[c]) /\ call[c].at = "model" /\ used \in Nat
  BY Bounds DEF InferenceInv, InferenceTypes, complete
<1>3. PICK extra : extra = [a \in Accounts |-> IF a = r THEN Excess(c, used) ELSE 0]
  OBVIOUS
<1>4. PICK k : k = [call[c] EXCEPT !.at = "record", !.used = used]
  OBVIOUS
<1>5. call' = [call EXCEPT ![c] = k]
  BY <1>4 DEF complete
<1>6. IsCall(k) /\ k.at = "record" /\ k.res = call[c].res
  BY ONLY <1>2, <1>4, SMT DEF IsCall, CallState, Counted
<1>7. total \in [InferenceRuns -> Nat] /\ total' = [total EXCEPT ![r] = total[r] + used]
      /\ daily \in Nat /\ daily' = daily /\ usage \in [InferenceRuns -> Nat] /\ usage' = usage
      /\ UNCHANGED <<reserved, quotaLock, allocated>>
  BY <1>1, <1>2 DEF InferenceTypes, complete
<1>8. total[r] + used \in Nat /\ usage[r] <= total[r] + used
  <2>1. usage[r] <= total[r] /\ usage[r] \in Nat /\ total[r] \in Nat
    BY <1>7 DEF InferenceInv, UsageSaved
  <2> QED BY ONLY <1>2, <2>1, SMT
<1>9. total' \in [InferenceRuns -> Nat] /\ \A q \in InferenceRuns : usage'[q] <= total'[q]
  BY <1>7, <1>8 DEF InferenceInv, UsageSaved
<1>10. /\ unreserved' = [a \in Accounts |-> unreserved[a] + extra[a]]
       /\ late' = [a \in Accounts |-> late[a] + extra[a]]
  BY <1>1, <1>3 DEF complete, Beside
<1>11. Excess(c, used) \in Nat /\ used <= call[c].res + Excess(c, used) /\ call[c].res \in Nat
  BY <1>2, ExcessIs DEF IsCall
<1>12. ASSUME NEW a \in Accounts
       PROVE  /\ extra[a] \in Nat
              /\ Spent(a)' + OutPart(k, c, a) <= (Spent(a) + OutPart(call[c], c, a)) + extra[a]
  <2>1. extra[a] \in Nat /\ 0 \in Nat
    <3>1. 0 \in Nat
      BY SMT
    <3> QED BY <1>3, <1>11, <3>1
  <2>2. OutPart(k, c, a) \in Nat /\ OutPart(call[c], c, a) \in Nat
    BY <1>2, <1>6, Parts
  <2>3. CASE a = r
    <3>1. OutPart(k, c, a) = 0 /\ OutPart(call[c], c, a) = call[c].res
      BY <1>1, <1>2, <1>6, <2>3 DEF OutPart, Unbooked, AccountsOf
    <3>2. Spent(a) = total[r] /\ Spent(a)' = total[r] + used /\ extra[a] = Excess(c, used)
      BY <1>3, <1>7, <2>3 DEF Spent
    <3>3. PICK t, x : t = total[r] /\ x = Excess(c, used)
      OBVIOUS
    <3>4. t \in Nat /\ x \in Nat /\ used <= call[c].res + x
      BY <1>7, <1>11, <3>3
    <3>5. (t + used) + 0 <= (t + call[c].res) + x
      BY ONLY <1>2, <1>11, <3>4, SMT
    <3> QED BY <2>1, <3>1, <3>2, <3>3, <3>5
  <2>4. CASE a # r
    <3>1. Spent(a)' = Spent(a) /\ extra[a] = 0 /\ Spent(a) \in Nat
      BY <1>2, <1>3, <1>7, <2>4, SpentTypes DEF Spent
    <3>2. OutPart(k, c, a) = OutPart(call[c], c, a)
      BY <1>1, <1>2, <1>6, <2>4, Bounds DEF OutPart, Unbooked, AccountsOf
    <3>3. PICK s, o : s = Spent(a) /\ o = OutPart(call[c], c, a)
      OBVIOUS
    <3>4. s + o <= (s + o) + 0
      <4>1. s \in Nat /\ o \in Nat
        BY <2>2, <3>1, <3>3
      <4> QED BY ONLY <4>1, SMT
    <3> QED BY <2>1, <3>1, <3>2, <3>3, <3>4
  <2> QED BY <2>3, <2>4
<1> QED BY <1>2, <1>5, <1>6, <1>7, <1>9, <1>10, <1>12, SpentKeeps

\* What was used is saved.
LEMMA RecordKeeps ==
  ASSUME InferenceInv, NEW c \in Calls, record(c)
  PROVE  InferenceInv'
<1>1. PICK r \in InferenceRuns, q \in Routers : r = RunOf[c] /\ q = RouterFor(c)
  BY Bounds
<1>2. InferenceTypes /\ IsCall(call[c]) /\ call[c].at = "record"
  BY DEF InferenceInv, InferenceTypes, record
<1>3. PICK used \in Nat : used = call[c].used
  BY <1>2 DEF IsCall
<1>4. PICK extra : extra = [a \in Accounts |-> IF a \in InferenceRuns THEN 0
                              ELSE IF a = RouterFor(c) THEN Excess(c, used) ELSE used]
  OBVIOUS
<1>5. PICK k : k = [call[c] EXCEPT !.at = "release", !.used = 0]
  OBVIOUS
<1>6. call' = [call EXCEPT ![c] = k]
  BY <1>5 DEF record
<1>7. IsCall(k) /\ k.at = "release" /\ k.res = call[c].res
  BY ONLY <1>2, <1>5, SMT DEF IsCall, CallState, Counted
<1>8. /\ total \in [InferenceRuns -> Nat] /\ usage \in [InferenceRuns -> Nat] /\ daily \in Nat
      /\ daily' = daily + used /\ total' = total /\ usage' = [usage EXCEPT ![r] = total[r]]
      /\ UNCHANGED <<reserved, quotaLock, allocated>>
  BY <1>1, <1>2, <1>3 DEF InferenceTypes, record
<1>9. daily' \in Nat
  <2>1. daily + used \in Nat
    BY <1>3, <1>8, SMT
  <2> QED BY <1>8, <2>1
<1>10. \A p \in InferenceRuns : usage'[p] <= total'[p]
  <2> TAKE p \in InferenceRuns
  <2>1. total[p] <= total[p] /\ usage[p] <= total[p]
    <3>1. total[p] <= total[p]
      BY <1>8, SMT
    <3> QED BY <3>1 DEF InferenceInv, UsageSaved
  <2>2. usage'[p] = usage[p] \/ (p = r /\ usage'[p] = total[r])
    BY <1>8
  <2> QED BY <1>8, <2>1, <2>2
<1>11. usage' \in [InferenceRuns -> Nat] /\ total' \in [InferenceRuns -> Nat]
  BY <1>8
<1>12. /\ unreserved' = [a \in Accounts |-> unreserved[a] + extra[a]]
       /\ late' = [a \in Accounts |-> late[a] + extra[a]]
  BY <1>3, <1>4 DEF record, Beside
<1>13. Excess(c, used) \in Nat /\ used <= call[c].res + Excess(c, used) /\ call[c].res \in Nat
  BY <1>2, ExcessIs DEF IsCall
<1>14. ASSUME NEW a \in Accounts
       PROVE  /\ extra[a] \in Nat
              /\ Spent(a)' + OutPart(k, c, a) <= (Spent(a) + OutPart(call[c], c, a)) + extra[a]
  <2>1. extra[a] \in Nat /\ 0 \in Nat
    <3>1. 0 \in Nat
      BY SMT
    <3> QED BY <1>4, <1>13, <3>1
  <2>2. OutPart(k, c, a) = 0 /\ OutPart(call[c], c, a) \in Nat
    BY <1>2, <1>7, Parts DEF OutPart, Unbooked
  <2>3. CASE a \in InferenceRuns
    <3>1. Spent(a)' = Spent(a) /\ extra[a] = 0 /\ Spent(a) \in Nat
      BY <1>2, <1>4, <1>8, <2>3, SpentTypes DEF Spent
    <3>2. PICK s, o : s = Spent(a) /\ o = OutPart(call[c], c, a)
      OBVIOUS
    <3>3. s + 0 <= (s + o) + 0
      <4>1. s \in Nat /\ o \in Nat
        BY <2>2, <3>1, <3>2
      <4> QED BY ONLY <4>1, SMT
    <3> QED BY <2>1, <2>2, <3>1, <3>2, <3>3
  <2>4. CASE a \notin InferenceRuns
    <3>1. Spent(a) = daily /\ Spent(a)' = daily + used
      BY <1>8, <2>4 DEF Spent
    <3>2. used <= OutPart(call[c], c, a) + extra[a]
      <4>1. CASE a = RouterFor(c)
        <5>1. OutPart(call[c], c, a) = call[c].res /\ extra[a] = Excess(c, used)
          BY <1>2, <1>4, <2>4, <4>1 DEF OutPart, Unbooked, AccountsOf
        <5> QED BY <1>13, <5>1
      <4>2. CASE a # RouterFor(c)
        <5>1. extra[a] = used
          BY <1>4, <2>4, <4>2
        <5>2. \A o, u \in Nat : u <= o + u
          BY SMT
        <5> QED BY <1>3, <2>2, <5>1, <5>2
      <4> QED BY <4>1, <4>2
    <3>3. PICK o, x : o = OutPart(call[c], c, a) /\ x = extra[a]
      OBVIOUS
    <3>4. (daily + used) + 0 <= (daily + o) + x
      <4>1. daily \in Nat /\ used \in Nat /\ o \in Nat /\ x \in Nat /\ used <= o + x
        BY <1>3, <1>8, <2>1, <2>2, <3>2, <3>3
      <4> QED BY ONLY <4>1, SMT
    <3> QED BY <2>1, <2>2, <3>1, <3>3, <3>4
  <2> QED BY <2>3, <2>4
<1> QED BY <1>2, <1>6, <1>7, <1>8, <1>9, <1>10, <1>11, <1>12, <1>14, SpentKeeps

\* The call of the model fails.
LEMMA FailKeeps ==
  ASSUME InferenceInv, NEW c \in Calls, CallFails(c)
  PROVE  InferenceInv'
<1>1. InferenceTypes /\ IsCall(call[c]) /\ call[c].at \in {"model", "record"}
  BY DEF InferenceInv, InferenceTypes, CallFails
<1>2. PICK k : k = [call[c] EXCEPT !.at = "release", !.used = 0]
  OBVIOUS
<1>3. call' = [call EXCEPT ![c] = k]
  BY <1>2 DEF CallFails
<1>4. IsCall(k) /\ k.at = "release" /\ k.res = call[c].res
  BY ONLY <1>1, <1>2, SMT DEF IsCall, CallState, Counted
<1>5. UNCHANGED <<total, usage, daily, reserved, quotaLock, allocated, unreserved, late>>
  BY DEF CallFails
<1>6. /\ total' \in [InferenceRuns -> Nat] /\ daily' \in Nat /\ usage' \in [InferenceRuns -> Nat]
      /\ unreserved \in [Accounts -> Nat] /\ late \in [Accounts -> Nat]
      /\ \A r \in InferenceRuns : usage'[r] <= total'[r]
  BY <1>1, <1>5 DEF InferenceTypes, InferenceInv, UsageSaved
<1>7. PICK extra : extra = [a \in Accounts |-> 0]
  OBVIOUS
<1>8. ASSUME NEW a \in Accounts
      PROVE  /\ extra[a] \in Nat
             /\ unreserved[a] = unreserved[a] + extra[a] /\ late[a] = late[a] + extra[a]
             /\ Spent(a)' + OutPart(k, c, a) <= (Spent(a) + OutPart(call[c], c, a)) + extra[a]
  <2>1. OutPart(k, c, a) = 0 /\ OutPart(call[c], c, a) \in Nat /\ extra[a] = 0 /\ Spent(a)' = Spent(a)
    BY <1>1, <1>4, <1>5, <1>7, Parts DEF OutPart, Unbooked, Spent
  <2>2. Spent(a) \in Nat /\ unreserved[a] \in Nat /\ late[a] \in Nat
    BY <1>1, SpentTypes
  <2>3. PICK s, o : s = Spent(a) /\ o = OutPart(call[c], c, a)
    OBVIOUS
  <2>4. s + 0 <= (s + o) + 0
    <3>1. s \in Nat /\ o \in Nat
      BY <2>1, <2>2, <2>3
    <3> QED BY ONLY <3>1, SMT
  <2>5. 0 \in Nat /\ \A n \in Nat : n = n + 0
    BY SMT
  <2> QED BY <1>5, <2>1, <2>2, <2>3, <2>4, <2>5
<1>9. /\ unreserved' = [a \in Accounts |-> unreserved[a] + extra[a]]
      /\ late' = [a \in Accounts |-> late[a] + extra[a]]
  <2>1. unreserved = [a \in Accounts |-> unreserved[a]] /\ late = [a \in Accounts |-> late[a]]
    BY <1>6
  <2> QED BY <1>5, <1>8, <2>1
<1> QED BY <1>1, <1>3, <1>4, <1>5, <1>6, <1>8, <1>9, SpentKeeps

\* The reservation is given back.
LEMMA ReleaseKeeps ==
  ASSUME InferenceInv, NEW c \in Calls, release(c)
  PROVE  InferenceInv'
<1>1. InferenceTypes /\ IsCall(call[c]) /\ call[c].at = "release" /\ quotaLock[RouterFor(c)] = NoCall
  BY DEF InferenceInv, InferenceTypes, release
<1>2. PICK n \in Nat : n = call[c].res
  BY <1>1 DEF IsCall
<1>3. /\ call' = [call EXCEPT ![c] = CallOver]
      /\ UNCHANGED <<total, usage, daily, quotaLock, allocated, unreserved, late>>
      /\ reserved' = [a \in Accounts |-> IF a \in AccountsOf(c) THEN reserved[a] - n ELSE reserved[a]]
  BY <1>2 DEF release
<1>4. /\ DOMAIN call' = Calls /\ \A e \in Calls : IsCall(call'[e])
      /\ call'[c] = CallOver /\ \A e \in Calls : e # c => call'[e] = call[e]
  BY <1>1, <1>3, CallTypes, OverCall
<1>5. ASSUME NEW a
      PROVE  /\ Outstanding(a)' = Outstanding(a) /\ Outstanding(a) \in Nat
             /\ Held(a)' = IF a \in AccountsOf(c) THEN Held(a) - n ELSE Held(a)
  <2>1. OutPart(CallOver, c, a) = 0 /\ HeldPart(CallOver, c, a) = 0
    <3>1. CallOver.at \notin Counted
      BY OverCall DEF Counted
    <3> QED BY <3>1, Uncounted
  <2>2. /\ OutPart(call[c], c, a) = 0
        /\ HeldPart(call[c], c, a) = IF a \in AccountsOf(c) THEN n ELSE 0
    BY <1>1, <1>2 DEF OutPart, HeldPart, Unbooked, Counted
  <2>3. /\ Outstanding(a)' = Outstanding(a) + (OutPart(CallOver, c, a) - OutPart(call[c], c, a))
        /\ Held(a)' = Held(a) + (HeldPart(CallOver, c, a) - HeldPart(call[c], c, a))
    BY <1>1, <1>3, OneCallMoves, OverCall
  <2>4. Outstanding(a) \in Nat /\ Held(a) \in Nat
    BY <1>1, SumsInOrder
  <2>5. \A m \in Nat : m + (0 - 0) = m /\ m + (0 - n) = m - n
    BY <1>2, SMT
  <2> QED BY <2>1, <2>2, <2>3, <2>4, <2>5
<1>6. reserved \in [Accounts -> Int]
  BY <1>1 DEF InferenceTypes
<1>7. InferenceTypes'
  <2>1. \A e \in Calls : IsCall(call[e])'
    BY <1>4 DEF IsCall
  <2>2. \A a \in Int : a - n \in Int
    BY <1>2, SMT
  <2>3. reserved' \in [Accounts -> Int]
    BY <1>3, <1>6, <2>2
  <2> QED BY <1>1, <1>3, <1>4, <2>1, <2>3 DEF InferenceTypes
<1>8. Booked'
  BY <1>3, <1>5, <1>6 DEF InferenceInv, Booked
<1>9. UsageSaved'
  BY <1>3 DEF InferenceInv, UsageSaved
<1>10. \A a \in Accounts : Spent(a)' = Spent(a) /\ Outstanding(a)' <= Outstanding(a)
  <2>1. \A m \in Nat : m <= m
    BY SMT
  <2> QED BY <1>3, <1>5, <2>1 DEF Spent
<1>11. ASSUME NEW e \in Calls, call'[e].at \in Reserving
       PROVE  /\ call'[e] = call[e] /\ quotaLock'[RouterFor(e)] = quotaLock[RouterFor(e)]
              /\ reserved'[RouterFor(e)] = reserved[RouterFor(e)]
  <2>1. e # c
    BY <1>4, <1>11, OverCall DEF Reserving
  <2>2. call'[e] = call[e] /\ call[e].at \in Reserving
    BY <1>4, <1>11, <2>1
  <2>3. RouterFor(e) # RouterFor(c)
    BY <1>1, <2>1, <2>2, OneReserves
  <2>4. RouterFor(e) \notin AccountsOf(c) /\ RouterFor(e) \in Accounts
    BY <2>3, OtherRouter, Bounds
  <2> QED BY <1>3, <2>2, <2>4
<1> QED BY <1>3, <1>7, <1>8, <1>9, <1>10, <1>11, Idle

\* Nothing but the allocations changes, or nothing at all.
LEMMA AsideKeeps ==
  ASSUME InferenceInv, allocated' \in [InferenceRuns -> Nat],
         UNCHANGED <<total, usage, daily, reserved, quotaLock, call, unreserved, late>>
  PROVE  InferenceInv'
<1>1. \A a : Outstanding(a)' = Outstanding(a) /\ Held(a)' = Held(a) /\ Spent(a)' = Spent(a)
  BY DEF Outstanding, Held, HeldPart, Spent
<1>2. InferenceTypes'
  BY DEF InferenceInv, InferenceTypes, IsCall
<1>3. Booked' /\ UsageSaved'
  BY <1>1 DEF InferenceInv, Booked, UsageSaved
<1>4. \A a \in Accounts : Spent(a)' = Spent(a) /\ Outstanding(a)' <= Outstanding(a)
  <2>1. \A m \in Nat : m <= m
    BY SMT
  <2> QED BY <1>1, <2>1, SumsInOrder DEF InferenceInv
<1> QED BY <1>2, <1>3, <1>4, Idle

\* The process restarts: nothing is reserved or under way.
LEMMA RestartKeeps ==
  ASSUME InferenceInv, Restart
  PROVE  InferenceInv'
<1>1. InferenceTypes
  BY DEF InferenceInv
<1>2. /\ DOMAIN call' = Calls /\ \A c \in Calls : call'[c] = NewCall \/ call'[c] = CallOver
      /\ total' = usage /\ UNCHANGED <<usage, daily, allocated, unreserved, late>>
      /\ reserved' = [a \in Accounts |-> 0] /\ quotaLock' = [q \in Routers |-> NoCall]
  BY DEF Restart
<1>3. IsCall(NewCall) /\ NewCall.at = "new"
  BY SMT DEF IsCall, NewCall, CallState, Reserving, Counted
<1>4. \A c \in Calls : IsCall(call'[c]) /\ call'[c].at \notin Counted /\ call'[c].at \notin Reserving
  BY <1>2, <1>3, OverCall DEF Counted, Reserving
<1>5. 0 \in Int /\ 0 \in Nat
  BY SMT
<1>6. InferenceTypes'
  <2>1. \A c \in Calls : IsCall(call[c])'
    BY <1>4 DEF IsCall
  <2> QED BY <1>1, <1>2, <1>5, <2>1 DEF InferenceTypes
<1>7. \A of, a : PartSum(of, a)' = 0
  <2> TAKE of, a
  <2>1. PICK f : f = [c \in Calls |-> Part(of, a, call'[c], c)]
    OBVIOUS
  <2>2. \A c \in Calls : f[c] = 0
    BY <1>4, <2>1, Uncounted DEF Part
  <2>3. f \in [Calls -> Int]
    BY <1>5, <2>1, <2>2
  <2>4. SumFunction(f) = 0
    BY <2>2, <2>3, SumZero, Bounds
  <2>5. PartSum(of, a)' = SumFunction([c \in Calls |-> Part(of, a, call'[c], c)])
    BY DEF PartSum, Part, OutPart, HeldPart
  <2> QED BY <2>1, <2>4, <2>5
<1>8. \A a : Outstanding(a)' = 0 /\ Held(a)' = 0
  BY <1>7, PartSumsPrimed
<1>9. Booked' /\ Offered'
  BY <1>2, <1>4, <1>8 DEF Booked, Offered
<1>10. UsageSaved'
  <2>1. \A r \in InferenceRuns : usage[r] <= usage[r]
    BY <1>1, SMT DEF InferenceTypes
  <2> QED BY <1>2, <2>1 DEF UsageSaved
<1>11. WithinLimits'
  <2> SUFFICES ASSUME NEW a \in Accounts, Limit(a) > 0
               PROVE  Spent(a)' + Outstanding(a)' <= Limit(a) + unreserved[a]
    BY <1>2 DEF WithinLimits, Limit
  <2>1. PICK s, s1, o, l : s = Spent(a) /\ s1 = Spent(a)' /\ o = Outstanding(a) /\ l = Limit(a)
    OBVIOUS
  <2>2. s \in Nat /\ s1 \in Nat /\ o \in Nat /\ unreserved[a] \in Nat /\ l \in Nat
    BY <1>1, <1>6, <2>1, SpentTypes, SpentTypesPrimed, SumsInOrder, Bounds
  <2>3. s + o <= l + unreserved[a]
    BY <2>1 DEF InferenceInv, WithinLimits
  <2>4. s1 <= s
    <3>1. CASE a \in InferenceRuns
      BY <1>2, <2>1, <3>1 DEF Spent, InferenceInv, UsageSaved
    <3>2. CASE a \notin InferenceRuns
      <4>1. s1 = s
        BY <1>2, <2>1, <3>2 DEF Spent
      <4> QED BY ONLY <2>2, <4>1, SMT
    <3> QED BY <3>1, <3>2
  <2>5. s1 + 0 <= l + unreserved[a]
    BY ONLY <2>2, <2>3, <2>4, SMT
  <2> QED BY <1>8, <2>1, <2>5
<1> QED BY <1>6, <1>9, <1>10, <1>11 DEF InferenceInv

LEMMA InferenceStarts == InferenceInit => InferenceInv
<1> SUFFICES ASSUME InferenceInit PROVE InferenceInv
  OBVIOUS
<1>1. 0 \in Int /\ 0 \in Nat /\ 0 <= 0 /\ 0 + 0 = 0
  BY SMT
<1>2. IsCall(NewCall) /\ NewCall.at = "new"
  BY SMT DEF IsCall, NewCall, CallState, Reserving, Counted
<1>3. /\ total = [r \in InferenceRuns |-> 0] /\ usage = [r \in InferenceRuns |-> 0]
      /\ allocated = [r \in InferenceRuns |-> 0] /\ quotaLock = [q \in Routers |-> NoCall]
      /\ reserved = [a \in Accounts |-> 0] /\ unreserved = [a \in Accounts |-> 0]
      /\ late = [a \in Accounts |-> 0] /\ daily = 0 /\ call = [c \in Calls |-> NewCall]
  BY DEF InferenceInit
<1>4. InferenceTypes
  BY <1>1, <1>2, <1>3 DEF InferenceTypes
<1>5. \A of, a : PartSum(of, a) = 0
  <2> TAKE of, a
  <2>1. PICK f : f = [c \in Calls |-> Part(of, a, call[c], c)]
    OBVIOUS
  <2>2. \A c \in Calls : f[c] = 0
    <3>1. NewCall.at \notin Counted
      BY <1>2 DEF Counted
    <3>2. \A c \in Calls : call[c] = NewCall
      BY <1>3
    <3> QED BY <2>1, <3>1, <3>2, Uncounted DEF Part
  <2>3. f \in [Calls -> Int]
    BY <1>1, <2>1, <2>2
  <2>4. SumFunction(f) = 0
    BY <2>2, <2>3, SumZero, Bounds
  <2> QED BY <2>1, <2>4 DEF PartSum
<1>6. \A a : Outstanding(a) = 0 /\ Held(a) = 0
  BY <1>5, PartSums
<1>7. Booked /\ Offered /\ UsageSaved
  BY <1>1, <1>2, <1>3, <1>6 DEF Booked, Offered, UsageSaved, Reserving
<1>8. ASSUME NEW a \in Accounts
      PROVE  Spent(a) + Outstanding(a) <= Limit(a) + unreserved[a]
  <2>1. Spent(a) = 0 /\ unreserved[a] = 0 /\ Limit(a) \in Nat
    BY <1>3, Bounds DEF Spent
  <2>2. 0 + 0 <= Limit(a) + 0
    BY <2>1, SMT
  <2> QED BY <1>6, <2>1, <2>2
<1>9. WithinLimits
  BY <1>8 DEF WithinLimits
<1> QED BY <1>4, <1>7, <1>9 DEF InferenceInv

LEMMA InferenceStep ==
  ASSUME InferenceInv, [InferenceNext]_inferenceVars
  PROVE  InferenceInv'
<1>1. ASSUME NEW c \in Calls, NEW est \in Estimates, prepare(c, est) PROVE InferenceInv'
  BY <1>1, PrepareKeeps
<1>2. ASSUME NEW c \in Calls, reserve(c) PROVE InferenceInv'
  BY <1>2, ReserveKeeps
<1>3. ASSUME NEW c \in Calls, reserve_read(c) PROVE InferenceInv'
  BY <1>3, ReadKeeps
<1>4. ASSUME NEW c \in Calls, reserve_rest(c) PROVE InferenceInv'
  BY <1>4, ReserveRestKeeps
<1>5. ASSUME NEW c \in Calls, record(c) PROVE InferenceInv'
  BY <1>5, RecordKeeps
<1>6. ASSUME NEW c \in Calls, CallFails(c) PROVE InferenceInv'
  BY <1>6, FailKeeps
<1>7. ASSUME NEW c \in Calls, release(c) PROVE InferenceInv'
  BY <1>7, ReleaseKeeps
<1>8. ASSUME NEW c \in Calls, NEW used \in Reports, complete(c, used) PROVE InferenceInv'
  BY <1>8, CompleteKeeps
<1>9. allocated \in [InferenceRuns -> Nat]
  BY DEF InferenceInv, InferenceTypes
<1>10. ASSUME NEW r \in InferenceRuns, allocate(r) PROVE InferenceInv'
  <2>1. \A n \in Nat : n + JobTokens \in Nat
    BY Bounds, SMT
  <2>2. allocated' \in [InferenceRuns -> Nat]
    BY <1>9, <1>10, <2>1 DEF allocate
  <2> QED BY <1>10, <2>2, AsideKeeps DEF allocate
<1>11. CASE Restart
  BY <1>11, RestartKeeps
<1>12. CASE UNCHANGED inferenceVars
  BY <1>9, <1>12, AsideKeeps DEF inferenceVars
<1> QED BY <1>1, <1>2, <1>3, <1>4, <1>5, <1>6, <1>7, <1>8, <1>10, <1>11, <1>12 DEF InferenceNext

\* max_run_tokens and the daily limit hold for what was used and what is
\* reserved, but for what providers reported beyond a reservation, or what was
\* used through another router, since the last call was admitted (_reserve):
\* for any number of calls, runs and routers.
THEOREM LimitsHold == InferenceSpec => []WithinLimits
<1>1. InferenceInit => InferenceInv
  BY InferenceStarts
<1>2. InferenceInv /\ [InferenceNext]_inferenceVars => InferenceInv'
  BY InferenceStep
<1>3. InferenceInv => WithinLimits
  BY DEF InferenceInv
<1> QED BY <1>1, <1>2, <1>3, PTL DEF InferenceSpec

=============================================================================
