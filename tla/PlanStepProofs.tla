-------------------------- MODULE PlanStepProofs ----------------------------
(***************************************************************************)
(* What the steps of Plans do.  First, what each action makes of the task  *)
(* that takes it, of the copies of the lease, of the checkpoint and of the *)
(* row of the run: one task moves, and it writes only under a lease that   *)
(* was not taken over.  Then, what validation promises of a draft, and     *)
(* that plan, versions, decisions, attempts and the row of the run stay as *)
(* the invariant says through every change the steps make to them.         *)
(***************************************************************************)
EXTENDS PlansInductive, TLAPS

\* The leaves are first-order: Zenon proves them, and those it does not find cite SMT.
USE Zenon

-----------------------------------------------------------------------------
(* What a step makes of a task *)

LEMMA IdleIsLocal == Local(Idle) /\ Idle.at = "idle"
<1>1. Idle = TaskOf("idle", NoKey, 0, "none", NoDraft, FALSE, FALSE, FALSE)
  BY DEF Idle, TaskOf
<1>2. IsTask(Idle) /\ Idle.at = "idle" /\ Idle.k = NoKey
  BY <1>1 DEF IsTask, TaskOf
<1> QED BY <1>2 DEF Local, Keyed

WithAt(s, x) == [s EXCEPT !.at = x]
WithK(s, x) == [s EXCEPT !.k = x]
WithN(s, x) == [s EXCEPT !.n = x]
WithOut(s, x) == [s EXCEPT !.out = x]
WithDraft(s, x) == [s EXCEPT !.draft = x]
WithRec(s, x) == [s EXCEPT !.rec = x]
WithResume(s, x) == [s EXCEPT !.resume = x]
WithDirect(s, x) == [s EXCEPT !.direct = x]

LEMMA OneTaskField ==
  ASSUME NEW s, IsTask(s), NEW x
  PROVE  /\ WithAt(s, x) = TaskOf(x, s.k, s.n, s.out, s.draft, s.rec, s.resume, s.direct)
         /\ WithK(s, x) = TaskOf(s.at, x, s.n, s.out, s.draft, s.rec, s.resume, s.direct)
         /\ WithN(s, x) = TaskOf(s.at, s.k, x, s.out, s.draft, s.rec, s.resume, s.direct)
         /\ WithOut(s, x) = TaskOf(s.at, s.k, s.n, x, s.draft, s.rec, s.resume, s.direct)
         /\ WithDraft(s, x) = TaskOf(s.at, s.k, s.n, s.out, x, s.rec, s.resume, s.direct)
         /\ WithRec(s, x) = TaskOf(s.at, s.k, s.n, s.out, s.draft, x, s.resume, s.direct)
         /\ WithResume(s, x) = TaskOf(s.at, s.k, s.n, s.out, s.draft, s.rec, x, s.direct)
         /\ WithDirect(s, x) = TaskOf(s.at, s.k, s.n, s.out, s.draft, s.rec, s.resume, x)
<1>1. WithAt(s, x) = TaskOf(x, s.k, s.n, s.out, s.draft, s.rec, s.resume, s.direct)
  BY SMT DEF IsTask, TaskOf, WithAt
<1>2. WithK(s, x) = TaskOf(s.at, x, s.n, s.out, s.draft, s.rec, s.resume, s.direct)
  BY SMT DEF IsTask, TaskOf, WithK
<1>3. WithN(s, x) = TaskOf(s.at, s.k, x, s.out, s.draft, s.rec, s.resume, s.direct)
  BY SMT DEF IsTask, TaskOf, WithN
<1>4. WithOut(s, x) = TaskOf(s.at, s.k, s.n, x, s.draft, s.rec, s.resume, s.direct)
  BY SMT DEF IsTask, TaskOf, WithOut
<1>5. WithDraft(s, x) = TaskOf(s.at, s.k, s.n, s.out, x, s.rec, s.resume, s.direct)
  BY SMT DEF IsTask, TaskOf, WithDraft
<1>6. WithRec(s, x) = TaskOf(s.at, s.k, s.n, s.out, s.draft, x, s.resume, s.direct)
  BY SMT DEF IsTask, TaskOf, WithRec
<1>7. WithResume(s, x) = TaskOf(s.at, s.k, s.n, s.out, s.draft, s.rec, x, s.direct)
  BY SMT DEF IsTask, TaskOf, WithResume
<1>8. WithDirect(s, x) = TaskOf(s.at, s.k, s.n, s.out, s.draft, s.rec, s.resume, x)
  BY SMT DEF IsTask, TaskOf, WithDirect
<1> QED BY <1>1, <1>2, <1>3, <1>4, <1>5, <1>6, <1>7, <1>8

\* The place, the step and the draft of task r.
Holds(r, at, k, d) == IsTask(r) /\ r.at = at /\ r.k = k /\ r.draft = d

LEMMA HoldsThem ==
  ASSUME NEW at, NEW k, NEW n, NEW out, NEW d, NEW rec, NEW res, NEW dir, NEW r,
         r = TaskOf(at, k, n, out, d, rec, res, dir)
  PROVE  Holds(r, at, k, d)
BY DEF Holds, IsTask, TaskOf

LEMMA FieldHolds ==
  ASSUME NEW s, NEW at, NEW k, NEW d, Holds(s, at, k, d), NEW x
  PROVE  /\ Holds(WithAt(s, x), x, k, d) /\ Holds(WithK(s, x), at, x, d)
         /\ Holds(WithDraft(s, x), at, k, x)
         /\ Holds(WithN(s, x), at, k, d) /\ Holds(WithOut(s, x), at, k, d)
         /\ Holds(WithRec(s, x), at, k, d) /\ Holds(WithResume(s, x), at, k, d)
         /\ Holds(WithDirect(s, x), at, k, d)
<1>1. IsTask(s) /\ s.at = at /\ s.k = k /\ s.draft = d
  BY DEF Holds
<1>2. Holds(WithAt(s, x), x, k, d)
  <2>1. WithAt(s, x) = TaskOf(x, s.k, s.n, s.out, s.draft, s.rec, s.resume, s.direct)
    BY <1>1, OneTaskField
  <2> QED BY <1>1, <2>1, HoldsThem
<1>3. Holds(WithK(s, x), at, x, d)
  <2>1. WithK(s, x) = TaskOf(s.at, x, s.n, s.out, s.draft, s.rec, s.resume, s.direct)
    BY <1>1, OneTaskField
  <2> QED BY <1>1, <2>1, HoldsThem
<1>4. Holds(WithN(s, x), at, k, d)
  <2>1. WithN(s, x) = TaskOf(s.at, s.k, x, s.out, s.draft, s.rec, s.resume, s.direct)
    BY <1>1, OneTaskField
  <2> QED BY <1>1, <2>1, HoldsThem
<1>5. Holds(WithOut(s, x), at, k, d)
  <2>1. WithOut(s, x) = TaskOf(s.at, s.k, s.n, x, s.draft, s.rec, s.resume, s.direct)
    BY <1>1, OneTaskField
  <2> QED BY <1>1, <2>1, HoldsThem
<1>6. Holds(WithDraft(s, x), at, k, x)
  <2>1. WithDraft(s, x) = TaskOf(s.at, s.k, s.n, s.out, x, s.rec, s.resume, s.direct)
    BY <1>1, OneTaskField
  <2> QED BY <1>1, <2>1, HoldsThem
<1>7. Holds(WithRec(s, x), at, k, d)
  <2>1. WithRec(s, x) = TaskOf(s.at, s.k, s.n, s.out, s.draft, x, s.resume, s.direct)
    BY <1>1, OneTaskField
  <2> QED BY <1>1, <2>1, HoldsThem
<1>8. Holds(WithResume(s, x), at, k, d)
  <2>1. WithResume(s, x) = TaskOf(s.at, s.k, s.n, s.out, s.draft, s.rec, x, s.direct)
    BY <1>1, OneTaskField
  <2> QED BY <1>1, <2>1, HoldsThem
<1>9. Holds(WithDirect(s, x), at, k, d)
  <2>1. WithDirect(s, x) = TaskOf(s.at, s.k, s.n, s.out, s.draft, s.rec, s.resume, x)
    BY <1>1, OneTaskField
  <2> QED BY <1>1, <2>1, HoldsThem
<1> QED BY <1>2, <1>3, <1>4, <1>5, <1>6, <1>7, <1>8, <1>9

LEMMA HoldsLocal ==
  ASSUME NEW r, NEW at, NEW k, NEW d, Holds(r, at, k, d), at # "idle",
         k \in StepKeys \cup {NoKey}, at \in Keyed => k \in StepKeys,
         at \in {"drafted", "materialize"} => d \in Valid
  PROVE  Local(r) /\ r # Idle
BY IdleIsLocal DEF Local, Holds

\* A task that enters, or fails, keeps nothing of its step.
LEMMA Enters ==
  ASSUME NEW a, a \notin Keyed, a # "idle", NEW r
  PROVE  /\ Local(WithAt(Idle, a)) /\ WithAt(Idle, a) # Idle
         /\ Local(WithRec(WithAt(Idle, a), r)) /\ WithRec(WithAt(Idle, a), r) # Idle
         /\ Local(WithAt(WithRec(Idle, r), a)) /\ WithAt(WithRec(Idle, r), a) # Idle
<1>1. Holds(Idle, "idle", NoKey, NoDraft)
  BY DEF Holds, Idle, IsTask, TaskOf
<1>2. Holds(WithAt(Idle, a), a, NoKey, NoDraft) /\ Holds(WithRec(Idle, r), "idle", NoKey, NoDraft)
  BY <1>1, FieldHolds
<1>3. /\ Holds(WithRec(WithAt(Idle, a), r), a, NoKey, NoDraft)
      /\ Holds(WithAt(WithRec(Idle, r), a), a, NoKey, NoDraft)
  BY <1>2, FieldHolds
<1>4. \A w : Holds(w, a, NoKey, NoDraft) => Local(w) /\ w # Idle
  BY HoldsLocal DEF Keyed
<1> QED BY <1>2, <1>3, <1>4

\* It goes to another place, and keeps its step and its draft.
LEMMA Goes ==
  ASSUME NEW s, Local(s), NEW a, a # "idle",
         a \in Keyed => s.k \in StepKeys, a \in {"drafted", "materialize"} => s.draft \in Valid
  PROVE  /\ Local(WithAt(s, a)) /\ WithAt(s, a) # Idle
         /\ \A x : Local(WithOut(WithAt(s, a), x)) /\ WithOut(WithAt(s, a), x) # Idle
         /\ \A x, y : /\ Local(WithOut(WithN(WithAt(s, a), x), y))
                      /\ WithOut(WithN(WithAt(s, a), x), y) # Idle
         /\ \A x : Local(WithResume(WithAt(s, a), x)) /\ WithResume(WithAt(s, a), x) # Idle
<1>1. PICK r : r = WithAt(s, a)
  OBVIOUS
<1>2. Holds(s, s.at, s.k, s.draft)
  BY DEF Holds, Local
<1>3. Holds(r, a, s.k, s.draft)
  BY <1>1, <1>2, FieldHolds
<1>4. \A x : /\ Holds(WithOut(r, x), a, s.k, s.draft) /\ Holds(WithN(r, x), a, s.k, s.draft)
             /\ Holds(WithResume(r, x), a, s.k, s.draft)
  BY <1>3, FieldHolds
<1>5. \A x, y : Holds(WithOut(WithN(r, x), y), a, s.k, s.draft)
  BY <1>4, FieldHolds
<1>6. \A w : Holds(w, a, s.k, s.draft) => Local(w) /\ w # Idle
  BY HoldsLocal DEF Local
<1> QED BY <1>1, <1>3, <1>4, <1>5, <1>6

\* It takes up step k.
LEMMA TakesUp ==
  ASSUME NEW s, Local(s), NEW a, a \in Keyed \ {"drafted", "materialize"}, NEW k \in StepKeys
  PROVE  /\ \A x : /\ Local(WithN(WithK(WithAt(s, a), k), x))
                   /\ WithN(WithK(WithAt(s, a), k), x) # Idle
         /\ \A x, y : /\ Local(WithResume(WithN(WithK(WithAt(s, a), k), x), y))
                      /\ WithResume(WithN(WithK(WithAt(s, a), k), x), y) # Idle
         /\ \A x : /\ Local(WithDirect(WithK(WithAt(s, a), k), x))
                   /\ WithDirect(WithK(WithAt(s, a), k), x) # Idle
<1>1. PICK r : r = WithK(WithAt(s, a), k)
  OBVIOUS
<1>2. Holds(s, s.at, s.k, s.draft)
  BY DEF Holds, Local
<1>3. Holds(WithAt(s, a), a, s.k, s.draft)
  BY <1>2, FieldHolds
<1>4. Holds(r, a, k, s.draft)
  BY <1>1, <1>3, FieldHolds
<1>5. \A x : Holds(WithN(r, x), a, k, s.draft) /\ Holds(WithDirect(r, x), a, k, s.draft)
  BY <1>4, FieldHolds
<1>6. \A x, y : Holds(WithResume(WithN(r, x), y), a, k, s.draft)
  BY <1>5, FieldHolds
<1>7. \A w : Holds(w, a, k, s.draft) => Local(w) /\ w # Idle
  <2>1. a # "idle" /\ a \notin {"drafted", "materialize"}
    BY DEF Keyed
  <2> QED BY <2>1, HoldsLocal
<1> QED BY <1>1, <1>5, <1>6, <1>7

LEMMA TakesDraft ==
  ASSUME NEW s, Local(s), s.k \in StepKeys, NEW d \in Valid
  PROVE  /\ Local(WithDraft(WithAt(s, "drafted"), d))
         /\ WithDraft(WithAt(s, "drafted"), d) # Idle
<1>1. Holds(s, s.at, s.k, s.draft)
  BY DEF Holds, Local
<1>2. Holds(WithAt(s, "drafted"), "drafted", s.k, s.draft)
  BY <1>1, FieldHolds
<1>3. Holds(WithDraft(WithAt(s, "drafted"), d), "drafted", s.k, d)
  BY <1>2, FieldHolds
<1> QED BY <1>3, HoldsLocal

-----------------------------------------------------------------------------
(* The copies of the lease *)

\* The copies go on being right, and nobody but t gets one.
CopiesStep(t) ==
  /\ Copies'
  /\ \A s \in Tasks \ {t} : handle[s] = "none" => handle'[s] = "none"

\* Nobody gets one.
CopiesAge ==
  /\ Copies'
  /\ \A s \in Tasks : handle[s] = "none" => handle'[s] = "none"

LEMMA AgedCopies ==
  ASSUME NEW f, f \in [Tasks -> LeaseState]
  PROVE  /\ Aged(f) \in [Tasks -> LeaseState] /\ Fenced(f) \in [Tasks -> LeaseState]
         /\ \A s \in Tasks : /\ Aged(f)[s] = "none" <=> f[s] = "none"
                             /\ Aged(f)[s] = "fenced" <=> f[s] = "fenced"
                             /\ f[s] = "none" => Fenced(f)[s] = "none"
                             /\ Fenced(f)[s] \in Gone
BY SMT DEF Aged, Fenced, LeaseState, Gone

LEMMA Drops ==
  ASSUME Copies, NEW t \in Tasks, FenceDrop(t)
  PROVE  CopiesStep(t) /\ handle'[t] = "none" /\ run' = run
BY SMT DEF Copies, FenceDrop, CopiesStep, LeaseState, Gone

LEMMA Forgets ==
  ASSUME Copies, NEW t \in Tasks, FenceForget(t)
  PROVE  CopiesStep(t) /\ handle' = handle /\ run' = run
BY SMT DEF Copies, FenceForget, CopiesStep, LeaseState, Gone

LEMMA Snapshots ==
  ASSUME Copies, NEW t \in Tasks, FenceSnapshot(t)
  PROVE  CopiesStep(t) /\ handle' = handle /\ run' = run
BY SMT DEF Copies, FenceSnapshot, CopiesStep, LeaseState, Gone

LEMMA NothingCopied ==
  ASSUME Copies, UNCHANGED <<handle, prepared>>, NEW t
  PROVE  CopiesStep(t) /\ CopiesAge
BY SMT DEF Copies, CopiesStep, CopiesAge

\* t has finished with the row, or written it: the other copies are aged.
LEMMA AgesOthers ==
  ASSUME Copies, NEW t \in Tasks, NEW x \in {"none", "fresh"},
         handle' = [Aged(handle) EXCEPT ![t] = x],
         \/ prepared' = Aged(prepared)
         \/ prepared' = [Aged(prepared) EXCEPT ![t] = x]
  PROVE  CopiesStep(t) /\ handle'[t] = x
<1>1. x \in LeaseState /\ x \in {"none", "fresh"}
  BY DEF LeaseState
<1>2. /\ Aged(handle) \in [Tasks -> LeaseState] /\ Aged(prepared) \in [Tasks -> LeaseState]
      /\ \A s \in Tasks : /\ Aged(handle)[s] = "none" <=> handle[s] = "none"
                          /\ Aged(handle)[s] = "fenced" <=> handle[s] = "fenced"
                          /\ Aged(prepared)[s] = "none" <=> prepared[s] = "none"
                          /\ Aged(prepared)[s] = "fenced" <=> prepared[s] = "fenced"
  BY AgedCopies DEF Copies
<1> QED BY <1>1, <1>2, SMT DEF Copies, CopiesStep, Gone

LEMMA AgesAll ==
  ASSUME Copies, handle' = Aged(handle), prepared' = Aged(prepared)
  PROVE  CopiesAge
<1>1. /\ Aged(handle) \in [Tasks -> LeaseState] /\ Aged(prepared) \in [Tasks -> LeaseState]
      /\ \A s \in Tasks : /\ Aged(handle)[s] = "none" <=> handle[s] = "none"
                          /\ Aged(handle)[s] = "fenced" <=> handle[s] = "fenced"
                          /\ Aged(prepared)[s] = "none" <=> prepared[s] = "none"
                          /\ Aged(prepared)[s] = "fenced" <=> prepared[s] = "fenced"
  BY AgedCopies DEF Copies
<1> QED BY <1>1, SMT DEF Copies, CopiesAge, Gone

LEMMA FencesAll ==
  ASSUME Copies, handle' = Fenced(handle), prepared' = Fenced(prepared)
  PROVE  CopiesAge
<1>1. /\ Fenced(handle) \in [Tasks -> LeaseState] /\ Fenced(prepared) \in [Tasks -> LeaseState]
      /\ \A s \in Tasks : /\ handle[s] = "none" => Fenced(handle)[s] = "none"
                          /\ Fenced(prepared)[s] \in Gone
  BY AgedCopies DEF Copies
<1> QED BY <1>1, SMT DEF Copies, CopiesAge, Gone

LEMMA FencesOthers ==
  ASSUME Copies, NEW t \in Tasks, NewToken(t)
  PROVE  CopiesStep(t) /\ handle'[t] = "fresh"
<1>1. /\ Fenced(handle) \in [Tasks -> LeaseState] /\ Fenced(prepared) \in [Tasks -> LeaseState]
      /\ \A s \in Tasks : /\ handle[s] = "none" => Fenced(handle)[s] = "none"
                          /\ Fenced(prepared)[s] \in Gone
  BY AgedCopies DEF Copies
<1>2. "fresh" \in LeaseState /\ "fresh" # "fenced"
  BY DEF LeaseState
<1> QED BY <1>1, <1>2, SMT DEF Copies, CopiesStep, NewToken, Gone

-----------------------------------------------------------------------------
(* The steps of a task *)

Writes == attempts' # attempts \/ plan' # plan \/ ckpt' # ckpt \/ run'.status # run.status

\* Task t alone moves; it writes only if its lease was not taken over.
Acts(t) ==
  /\ CopiesStep(t)
  /\ task' = [task EXCEPT ![t] = task'[t]]
  /\ Local(task'[t]) /\ (task'[t] = Idle => handle'[t] = "none")
  /\ rounds' \in 0..RoundBudget /\ IsCkpt(ckpt')
  /\ Writes => handle[t] # "fenced"

\* No task moves.
Rests ==
  /\ CopiesAge /\ UNCHANGED task
  /\ rounds' \in 0..RoundBudget /\ IsCkpt(ckpt')

LEMMA ActsKeepsLocals ==
  ASSUME Locals, NEW t \in Tasks, Acts(t)
  PROVE  Locals' /\ \A s \in Tasks : s # t => task'[s] = task[s]
<1>1. task = [s \in Tasks |-> task[s]]
  BY DEF Locals
<1>2. task' = [s \in Tasks |-> IF s = t THEN task'[t] ELSE task[s]]
  BY <1>1, SMT DEF Acts
<1>3. task' = [s \in Tasks |-> task'[s]]
  BY <1>2, SMT
<1>4. \A s \in Tasks : s # t => task'[s] = task[s]
  BY <1>2
<1>5. ASSUME NEW s \in Tasks
      PROVE  Local(task'[s]) /\ (task'[s] = Idle => handle'[s] = "none")
  <2>1. CASE s = t
    BY <2>1 DEF Acts
  <2>2. CASE s # t
    <3>1. Local(task[s]) /\ (task[s] = Idle => handle[s] = "none")
      BY DEF Locals
    <3>2. handle[s] = "none" => handle'[s] = "none"
      BY <2>2 DEF Acts, CopiesStep
    <3> QED BY <1>4, <2>2, <3>1, <3>2
  <2> QED BY <2>1, <2>2
<1> QED BY <1>3, <1>4, <1>5 DEF Acts, Locals, CopiesStep

LEMMA RestsKeepsLocals ==
  ASSUME Locals, Rests
  PROVE  Locals'
<1>1. \A s \in Tasks : handle[s] = "none" => handle'[s] = "none"
  BY DEF Rests, CopiesAge
<1> QED BY <1>1 DEF Rests, Locals, CopiesAge

LEMMA TaskSet ==
  ASSUME Locals, NEW t \in Tasks, NEW e, task' = [task EXCEPT ![t] = e]
  PROVE  task'[t] = e /\ task' = [task EXCEPT ![t] = task'[t]]
<1>1. task'[t] = e
  BY DEF Locals
<1> QED BY <1>1

LEMMA LocalTask ==
  ASSUME Locals, NEW t \in Tasks
  PROVE  Local(task[t]) /\ (task[t] = Idle => handle[t] = "none") /\ Copies
BY DEF Locals

LEMMA RowWritten ==
  ASSUME IsRun(run), NEW s, s \in RunStatus, run.status \in ActiveRunStatuses,
         s = "completed" => ~run.cancel,
         NEW l, l \in {"live", "expired"}, run' = RunRow(s, run.cancel, l)
  PROVE  RunStep /\ run'.status = s
<1>1. run'.status = s /\ run'.cancel = run.cancel /\ run'.lease = l
      /\ run' = RunRow(run'.status, run'.cancel, run'.lease)
  BY DEF RunRow
<1> QED BY <1>1 DEF RunStep, IsRun

LEMMA SameRow ==
  ASSUME IsRun(run), run' = run
  PROVE  RunStep
BY DEF RunStep

LEMMA Legal ==
  ASSUME NEW r, NEW s, s \in LegalRunTargets(r)
  PROVE  r \in ActiveRunStatuses /\ s \in RunStatus
<1>1. CASE r = "running"
  BY <1>1, SMT DEF LegalRunTargets, ActiveRunStatuses, RunStatus, TERMINAL_RUN_STATUSES
<1>2. CASE r = "awaiting_user"
  BY <1>2, SMT DEF LegalRunTargets, ActiveRunStatuses, RunStatus, TERMINAL_RUN_STATUSES
<1>3. CASE r = "resuming"
  BY <1>3, SMT DEF LegalRunTargets, ActiveRunStatuses, RunStatus, TERMINAL_RUN_STATUSES
<1>4. CASE r \notin {"running", "awaiting_user", "resuming"}
  BY <1>4, SMT DEF LegalRunTargets
<1> QED BY <1>1, <1>2, <1>3, <1>4

LEMMA CkptOf ==
  ASSUME NEW c, NEW p \in CkptPhases, NEW k \in StepKeys \cup {NoKey}, c = Ckpt(p, k),
         p = "plan_replan_required" => k \in StepKeys
  PROVE  IsCkpt(c)
<1>1. c.phase = p /\ c.key = k
  BY DEF Ckpt
<1> QED BY <1>1 DEF IsCkpt

LEMMA TerminalCkpt == IsCkpt(Ckpt("run_terminal", NoKey)) /\ IsCkpt(Ckpt("plan_awaiting_approval", NoKey))
                      /\ IsCkpt(Ckpt("run_started", NoKey))
<1>1. {"run_terminal", "plan_awaiting_approval", "run_started"} \subseteq CkptPhases
  BY DEF CkptPhases
<1>2. NoKey \in StepKeys \cup {NoKey}
  OBVIOUS
<1> QED BY <1>1, <1>2, CkptOf

\* The common endings of a step.
LEMMA Raises ==
  ASSUME PlansInv, NEW t \in Tasks, Raise(t), UNCHANGED <<plan, versions, decisions, active>>
  PROVE  Acts(t) /\ KeepsStore
<1>1. Local(task[t]) /\ Copies /\ Locals /\ IsRun(run)
  BY LocalTask DEF PlansInv, Locals, Rows
<1>2. CopiesStep(t) /\ run' = run
  BY <1>1, Forgets DEF Raise
<1>3. PICK e : e = WithRec(WithAt(Idle, "failed"), task[t].rec)
  OBVIOUS
<1>4. task'[t] = e /\ task' = [task EXCEPT ![t] = task'[t]]
  <2>1. task' = [task EXCEPT ![t] = e]
    BY <1>3 DEF Raise, WithAt, WithRec
  <2> QED BY <1>1, <2>1, TaskSet
<1>5. Local(e) /\ e # Idle
  BY <1>3, Enters DEF Keyed
<1>6. UNCHANGED <<ckpt, attempts, rounds>>
  BY DEF Raise
<1>7. RunStep
  BY <1>1, <1>2, SameRow
<1> QED BY <1>1, <1>2, <1>4, <1>5, <1>6, <1>7 DEF Acts, KeepsStore, Locals, Writes

LEMMA Terminates ==
  ASSUME PlansInv, NEW t \in Tasks, NEW s, Terminal(t, s), s = "completed" => ~run.cancel,
         UNCHANGED <<plan, versions, decisions, active, attempts, rounds>>
  PROVE  Acts(t) /\ KeepsStore /\ run'.status = s
<1>1. Locals /\ Copies /\ IsRun(run) /\ rounds \in 0..RoundBudget
  BY DEF PlansInv, Locals, Rows
<1>2. /\ s \in LegalRunTargets(run.status) /\ handle[t] = "fresh"
      /\ run' = RunRow(s, run.cancel, "live")
      /\ handle' = [Aged(handle) EXCEPT ![t] = "none"]
      /\ prepared' = [Aged(prepared) EXCEPT ![t] = "none"]
  BY DEF Terminal, FenceFinish, Current
<1>3. CopiesStep(t) /\ handle'[t] = "none"
  BY <1>1, <1>2, AgesOthers
<1>4. RunStep /\ run'.status = s
  BY <1>1, <1>2, Legal, RowWritten
<1>5. task'[t] = Idle /\ task' = [task EXCEPT ![t] = task'[t]]
  BY <1>1, TaskSet DEF Terminal
<1>6. IsCkpt(ckpt')
  BY TerminalCkpt DEF Terminal
<1> QED BY <1>1, <1>2, <1>3, <1>4, <1>5, <1>6, IdleIsLocal DEF Acts, KeepsStore

\* The task is done with the run, which waits for its user.
LEMMA Waiting ==
  ASSUME PlansInv, NEW t \in Tasks, FenceFinish(t, "awaiting_user"),
         task' = [task EXCEPT ![t] = Idle], IsCkpt(ckpt'), rounds' \in 0..RoundBudget,
         UNCHANGED <<plan, versions, decisions, active, attempts>>
  PROVE  Acts(t) /\ KeepsStore
<1>1. Locals /\ Copies /\ IsRun(run)
  BY DEF PlansInv, Locals, Rows
<1>2. /\ "awaiting_user" \in LegalRunTargets(run.status) /\ handle[t] = "fresh"
      /\ run' = RunRow("awaiting_user", run.cancel, "live")
      /\ handle' = [Aged(handle) EXCEPT ![t] = "none"]
      /\ prepared' = [Aged(prepared) EXCEPT ![t] = "none"]
  BY DEF FenceFinish, Current
<1>3. CopiesStep(t) /\ handle'[t] = "none"
  BY <1>1, <1>2, AgesOthers
<1>4. RunStep
  BY <1>1, <1>2, Legal, RowWritten
<1>5. task'[t] = Idle /\ task' = [task EXCEPT ![t] = task'[t]]
  BY <1>1, TaskSet
<1> QED BY <1>1, <1>2, <1>3, <1>4, <1>5, IdleIsLocal DEF Acts, KeepsStore

\* The task is gone.
LEMMA Leaves ==
  ASSUME PlansInv, NEW t \in Tasks, FenceDrop(t), task' = [task EXCEPT ![t] = Idle],
         UNCHANGED <<plan, versions, decisions, active, attempts, rounds, ckpt>>
  PROVE  Acts(t) /\ KeepsStore
<1>1. Locals /\ Copies /\ IsRun(run) /\ rounds \in 0..RoundBudget /\ IsCkpt(ckpt)
  BY DEF PlansInv, Locals, Rows
<1>2. CopiesStep(t) /\ handle'[t] = "none" /\ run' = run
  BY <1>1, Drops
<1>3. RunStep
  BY <1>1, <1>2, SameRow
<1>4. task'[t] = Idle /\ task' = [task EXCEPT ![t] = task'[t]]
  BY <1>1, TaskSet
<1> QED BY <1>1, <1>2, <1>3, <1>4, IdleIsLocal DEF Acts, KeepsStore, Writes

\* The task goes on elsewhere, without a write.
LEMMA GoesOn ==
  ASSUME PlansInv, NEW t \in Tasks, NEW e, task' = [task EXCEPT ![t] = e], Local(e), e # Idle,
         FenceForget(t) \/ FenceSnapshot(t) \/ UNCHANGED fenceVars,
         UNCHANGED <<plan, versions, decisions, active, attempts, ckpt>>, rounds' \in 0..RoundBudget
  PROVE  Acts(t) /\ KeepsStore
<1>1. Locals /\ Copies /\ IsRun(run) /\ IsCkpt(ckpt)
  BY DEF PlansInv, Locals, Rows
<1>2. CopiesStep(t) /\ run' = run
  BY <1>1, Forgets, Snapshots, NothingCopied DEF fenceVars
<1>3. RunStep
  BY <1>1, <1>2, SameRow
<1>4. task'[t] = e /\ task' = [task EXCEPT ![t] = task'[t]]
  BY <1>1, TaskSet
<1> QED BY <1>1, <1>2, <1>3, <1>4 DEF Acts, KeepsStore, Writes

\* The same, with a checkpoint that only a copy of the current lease may write.
LEMMA GoesOnRecorded ==
  ASSUME PlansInv, NEW t \in Tasks, NEW e, task' = [task EXCEPT ![t] = e], Local(e), e # Idle,
         FenceForget(t) \/ UNCHANGED fenceVars, Current(handle[t]) \/ Current(prepared[t]),
         UNCHANGED <<plan, versions, decisions, active, attempts>>, rounds' \in 0..RoundBudget,
         IsCkpt(ckpt')
  PROVE  Acts(t) /\ KeepsStore
<1>1. Locals /\ Copies /\ IsRun(run)
  BY DEF PlansInv, Locals, Rows
<1>2. CopiesStep(t) /\ run' = run
  BY <1>1, Forgets, NothingCopied DEF fenceVars
<1>3. RunStep
  BY <1>1, <1>2, SameRow
<1>4. task'[t] = e /\ task' = [task EXCEPT ![t] = task'[t]]
  BY <1>1, TaskSet
<1>5. handle[t] # "fenced"
  BY <1>1 DEF Copies, Gone, Current
<1> QED BY <1>1, <1>2, <1>3, <1>4, <1>5 DEF Acts, KeepsStore

\* The row is written under the lease of the handle, or a new one is taken.
LEMMA WritesRow ==
  ASSUME PlansInv, NEW t \in Tasks, NEW s, WriteRun(t, s), UNCHANGED task,
         s = run.status \/ (s \in RunStatus \ {"completed"} /\ run.status \in ActiveRunStatuses),
         UNCHANGED <<plan, versions, decisions, active, attempts, ckpt, rounds>>, task[t] # Idle
  PROVE  Acts(t) /\ KeepsStore
<1>1. Locals /\ Copies /\ IsRun(run) /\ rounds \in 0..RoundBudget /\ IsCkpt(ckpt) /\ Local(task[t])
  BY DEF PlansInv, Locals, Rows
<1>2. /\ handle[t] = "fresh" /\ run' = RunRow(s, run.cancel, "live")
      /\ handle' = [Aged(handle) EXCEPT ![t] = "fresh"] /\ prepared' = Aged(prepared)
  BY DEF WriteRun, Current
<1>3. CopiesStep(t)
  BY <1>1, <1>2, AgesOthers
<1>4. RunStep
  <2>1. CASE s = run.status
    <3>1. /\ run'.status = s /\ run'.cancel = run.cancel /\ run'.lease = "live"
          /\ run' = RunRow(run'.status, run'.cancel, run'.lease)
      BY <1>2 DEF RunRow
    <3> QED BY <1>1, <2>1, <3>1 DEF RunStep, IsRun
  <2>2. CASE s \in RunStatus \ {"completed"} /\ run.status \in ActiveRunStatuses
    BY <1>1, <1>2, <2>2, RowWritten
  <2> QED BY <2>1, <2>2
<1>5. task' = [task EXCEPT ![t] = task'[t]]
  BY <1>1 DEF Locals
<1> QED BY <1>1, <1>2, <1>3, <1>4, <1>5 DEF Acts, KeepsStore

LEMMA TakesOver ==
  ASSUME PlansInv, NEW t \in Tasks, task[t] = Idle, FenceResumeWaiting(t) \/ FenceTakeOver(t),
         NEW e, task' = [task EXCEPT ![t] = e], Local(e), e # Idle,
         UNCHANGED <<plan, versions, decisions, active, attempts, ckpt, rounds>>
  PROVE  Acts(t) /\ KeepsStore
<1>1. /\ Locals /\ Copies /\ IsRun(run) /\ rounds \in 0..RoundBudget /\ IsCkpt(ckpt)
      /\ handle[t] = "none"
  BY DEF PlansInv, Locals, Rows
<1>2. PICK s \in RunStatus \ {"completed"} : run' = RunRow(s, run.cancel, "live")
  BY DEF FenceResumeWaiting, FenceTakeOver, RunStatus, ActiveRunStatuses
<1>3. run.status \in ActiveRunStatuses /\ NewToken(t)
  BY DEF FenceResumeWaiting, FenceTakeOver, ActiveRunStatuses
<1>4. CopiesStep(t)
  BY <1>1, <1>3, FencesOthers
<1>5. RunStep
  BY <1>1, <1>2, <1>3, RowWritten
<1>6. task'[t] = e /\ task' = [task EXCEPT ![t] = task'[t]]
  BY <1>1, TaskSet
<1> QED BY <1>1, <1>4, <1>5, <1>6 DEF Acts, KeepsStore

-----------------------------------------------------------------------------
(* The actions that leave plan, versions, decisions and attempts alone *)

\* What is known of the task in every one of them.
LEMMA Known ==
  ASSUME PlansInv, NEW t \in Tasks
  PROVE  /\ Local(task[t]) /\ (task[t] = Idle => handle[t] = "none")
         /\ Locals /\ Copies /\ IsRun(run) /\ rounds \in 0..RoundBudget /\ IsCkpt(ckpt)
         /\ (task[t] = Idle => task[t].at = "idle")
BY IdleIsLocal DEF PlansInv, Locals, Rows

\* Going to a place that asks for nothing, or that keeps the step.
LEMMA GotoLocal ==
  ASSUME PlansInv, NEW t \in Tasks, NEW a, a # "idle",
         a \in Keyed => task[t].at \in Keyed,
         a \in {"drafted", "materialize"} => task[t].at \in {"drafted", "materialize"},
         Goto(t, a)
  PROVE  \E e : task' = [task EXCEPT ![t] = e] /\ Local(e) /\ e # Idle
<1>1. Local(task[t])
  BY Known
<1>2. a \in Keyed => task[t].k \in StepKeys
  BY <1>1 DEF Local
<1>3. a \in {"drafted", "materialize"} => task[t].draft \in Valid
  BY <1>1 DEF Local
<1>4. PICK e : e = WithAt(task[t], a)
  OBVIOUS
<1>5. Local(e) /\ e # Idle
  BY <1>1, <1>2, <1>3, <1>4, Goes
<1>6. task' = [task EXCEPT ![t] = e]
  BY <1>4 DEF Goto, WithAt
<1> QED BY <1>5, <1>6

LEMMA BeginRunActs ==
  ASSUME PlansInv, NEW t \in Tasks, BeginRun(t)
  PROVE  Acts(t) /\ KeepsStore
<1>1. UNCHANGED <<plan, versions, decisions, active, attempts, rounds>> /\ task[t].at = "admit"
  BY DEF BeginRun, KeepPlan
<1>2. CASE Goto(t, "boundary") /\ UNCHANGED <<fenceVars, ckpt>>
  <2>1. PICK e : task' = [task EXCEPT ![t] = e] /\ Local(e) /\ e # Idle
    BY <1>2, GotoLocal DEF Keyed
  <2> QED BY <1>1, <1>2, <2>1, GoesOn, Known
<1>3. CASE Terminal(t, "cancelled")
  BY <1>1, <1>3, Terminates
<1>4. CASE FenceDrop(t) /\ task' = [task EXCEPT ![t] = Idle] /\ UNCHANGED ckpt
  BY <1>1, <1>4, Leaves
<1> QED BY <1>2, <1>3, <1>4 DEF BeginRun

LEMMA CancelCheckActs ==
  ASSUME PlansInv, NEW t \in Tasks, raise_if_cancel_requested(t)
  PROVE  Acts(t) /\ KeepsStore
<1>1. UNCHANGED <<plan, versions, decisions, active, attempts, rounds, ckpt>>
      /\ task[t].at \in DOMAIN Checks
  BY DEF raise_if_cancel_requested, KeepPlan
<1>2. CASE run.cancel \/ run.status = "cancelled"
  <2>1. PICK a : a = IF task[t].direct THEN "failed" ELSE "cancelling"
    OBVIOUS
  <2>2. FenceForget(t) /\ task' = [task EXCEPT ![t] = WithAt(WithRec(Idle, task[t].rec), a)]
    BY <1>2, <2>1 DEF raise_if_cancel_requested, WithAt, WithRec
  <2>3. a \notin Keyed /\ a # "idle"
    BY <2>1 DEF Keyed
  <2>4. PICK e : e = WithAt(WithRec(Idle, task[t].rec), a)
    OBVIOUS
  <2>5. Local(e) /\ e # Idle
    BY <2>3, <2>4, Enters
  <2> QED BY <1>1, <2>2, <2>4, <2>5, GoesOn, Known
<1>3. CASE ~(run.cancel \/ run.status = "cancelled")
  <2>1. /\ Goto(t, Checks[task[t].at])
        /\ FenceSnapshot(t) \/ UNCHANGED fenceVars
    BY <1>3 DEF raise_if_cancel_requested
  <2>2. PICK a : a = Checks[task[t].at]
    OBVIOUS
  <2>3. /\ a # "idle" /\ (a \in Keyed => task[t].at \in Keyed)
        /\ (a \in {"drafted", "materialize"} => task[t].at \in {"drafted", "materialize"})
    BY <1>1, <2>2, SMT DEF Checks, Keyed
  <2>4. PICK e : task' = [task EXCEPT ![t] = e] /\ Local(e) /\ e # Idle
    BY <2>1, <2>2, <2>3, GotoLocal
  <2> QED BY <1>1, <2>1, <2>4, GoesOn, Known
<1> QED BY <1>2, <1>3

LEMMA EnterRunningActs ==
  ASSUME PlansInv, NEW t \in Tasks, EnterRunning(t)
  PROVE  Acts(t) /\ KeepsStore
<1>1. /\ UNCHANGED <<plan, versions, decisions, active>>
      /\ task[t].at = "select" /\ run.status = "resuming"
  BY DEF EnterRunning, KeepPlan
<1>2. CASE Current(prepared[t])
  <2>1. /\ run' = RunRow("running", run.cancel, "live")
        /\ handle' = [Aged(handle) EXCEPT ![t] = "fresh"]
        /\ prepared' = [Aged(prepared) EXCEPT ![t] = "fresh"]
        /\ UNCHANGED <<ckpt, attempts, rounds, task>>
    BY <1>2 DEF EnterRunning
  <2>2. /\ Locals /\ Copies /\ IsRun(run) /\ rounds \in 0..RoundBudget /\ IsCkpt(ckpt)
        /\ Local(task[t]) /\ task[t] # Idle
    BY <1>1, Known
  <2>3. CopiesStep(t)
    BY <2>1, <2>2, AgesOthers
  <2>4. RunStep
    <3>1. "running" \in RunStatus /\ run.status \in ActiveRunStatuses
      BY <1>1 DEF RunStatus, ActiveRunStatuses
    <3> QED BY <2>1, <2>2, <3>1, RowWritten
  <2>5. task' = [task EXCEPT ![t] = task'[t]]
    BY <2>1, <2>2 DEF Locals
  <2>6. handle[t] # "fenced"
    BY <1>2, <2>2 DEF Copies, Gone, Current
  <2> QED BY <1>1, <2>1, <2>2, <2>3, <2>4, <2>5, <2>6 DEF Acts, KeepsStore
<1>3. CASE ~Current(prepared[t])
  <2>1. Raise(t)
    BY <1>3 DEF EnterRunning
  <2> QED BY <1>1, <2>1, Raises
<1> QED BY <1>2, <1>3

LEMMA ResumeRunningActs ==
  ASSUME PlansInv, NEW t \in Tasks, resume_running_attempt(t)
  PROVE  Acts(t) /\ KeepsStore
<1>1. UNCHANGED <<plan, versions, decisions, active>>
  BY DEF resume_running_attempt, KeepPlan
<1>2. CASE Raise(t)
  BY <1>1, <1>2, Raises
<1>3. CASE ~Raise(t)
  <2>1. PICK k \in RunningKeys :
          /\ task' = [task EXCEPT ![t] = [@ EXCEPT !.at = "started", !.k = k, !.n = Latest[k].n,
                                                   !.resume = FALSE]]
          /\ FenceForget(t) /\ UNCHANGED <<ckpt, attempts, rounds>>
    BY <1>3 DEF resume_running_attempt
  <2>2. PICK no, e : /\ no = FALSE
                     /\ e = WithResume(WithN(WithK(WithAt(task[t], "started"), k), Latest[k].n), no)
    OBVIOUS
  <2>3. task' = [task EXCEPT ![t] = e]
    BY <2>1, <2>2 DEF WithAt, WithK, WithN, WithResume
  <2>4. Local(e) /\ e # Idle
    <3>1. k \in StepKeys /\ Local(task[t])
      BY Known DEF RunningKeys
    <3>2. "started" \in Keyed \ {"drafted", "materialize"}
      BY DEF Keyed
    <3> QED BY <2>2, <3>1, <3>2, TakesUp
  <2> QED BY <1>1, <2>1, <2>3, <2>4, GoesOn, Known
<1> QED BY <1>2, <1>3

LEMMA UseToolActs ==
  ASSUME PlansInv, NEW t \in Tasks, StepUsesTool(t)
  PROVE  Acts(t) /\ KeepsStore
<1>1. UNCHANGED <<plan, versions, decisions, active>> /\ task[t].at = "step"
  BY DEF StepUsesTool, KeepPlan
<1>2. CASE Raise(t)
  BY <1>1, <1>2, Raises
<1>3. CASE ~Raise(t)
  <2>1. /\ Current(handle[t]) /\ rounds < RoundBudget /\ rounds' = rounds + 1
        /\ ckpt' = Ckpt("step_tool", task[t].k) /\ UNCHANGED <<fenceVars, attempts, task>>
    BY <1>3 DEF StepUsesTool
  <2>2. Local(task[t]) /\ task[t] # Idle /\ rounds \in 0..RoundBudget /\ Locals
    BY <1>1, Known
  <2>3. rounds' \in 0..RoundBudget
    BY <2>1, <2>2, PlanConstants, SMT
  <2>4. IsCkpt(ckpt')
    <3>1. "step_tool" \in CkptPhases /\ task[t].k \in StepKeys \cup {NoKey}
      BY <2>2 DEF CkptPhases, Local
    <3> QED BY <2>1, <3>1, CkptOf
  <2>5. task' = [task EXCEPT ![t] = task[t]]
    BY <2>1, <2>2 DEF Locals
  <2> QED BY <1>1, <2>1, <2>2, <2>3, <2>4, <2>5, GoesOnRecorded
<1> QED BY <1>2, <1>3

LEMMA AwaitApprovalActs ==
  ASSUME PlansInv, NEW t \in Tasks, StepAwaitsApproval(t)
  PROVE  Acts(t) /\ KeepsStore
<1>1. /\ UNCHANGED <<plan, versions, decisions, active, attempts>>
      /\ rounds < RoundBudget /\ rounds' = rounds + 1 /\ ckpt' = Ckpt("step_tool", task[t].k)
      /\ FenceFinish(t, "awaiting_user") /\ task' = [task EXCEPT ![t] = Idle]
  BY DEF StepAwaitsApproval, KeepPlan
<1>2. Local(task[t]) /\ rounds \in 0..RoundBudget
  BY Known
<1>3. rounds' \in 0..RoundBudget
  BY <1>1, <1>2, PlanConstants, SMT
<1>4. IsCkpt(ckpt')
  <2>1. "step_tool" \in CkptPhases /\ task[t].k \in StepKeys \cup {NoKey}
    BY <1>2 DEF CkptPhases, Local
  <2> QED BY <1>1, <2>1, CkptOf
<1> QED BY <1>1, <1>3, <1>4, Waiting

LEMMA RecoversActs ==
  ASSUME PlansInv, NEW t \in Tasks, task[t] = Idle,
         FenceResumeWaiting(t) \/ FenceTakeOver(t), KeepPlan, UNCHANGED <<ckpt, attempts, rounds>>,
         \/ task' = [task EXCEPT ![t] = [Idle EXCEPT !.at = "recovering", !.rec = TRUE]]
         \/ task' = [task EXCEPT ![t] = [Idle EXCEPT !.at = "admit_summary"]]
  PROVE  Acts(t) /\ KeepsStore
<1>1. PICK yes, e : /\ yes = TRUE /\ task' = [task EXCEPT ![t] = e]
                    /\ \/ e = WithRec(WithAt(Idle, "recovering"), yes)
                       \/ e = WithAt(Idle, "admit_summary")
  BY DEF WithAt, WithRec
<1>2. Local(e) /\ e # Idle
  <2>1. "recovering" \notin Keyed /\ "admit_summary" \notin Keyed
    BY DEF Keyed
  <2> QED BY <1>1, <2>1, Enters
<1> QED BY <1>1, <1>2, TakesOver DEF KeepPlan

LEMMA RunStepActs ==
  ASSUME PlansInv, NEW t \in Tasks, NEW out, run_plan_step(t, out)
  PROVE  Acts(t) /\ KeepsStore
<1>1. UNCHANGED <<plan, versions, decisions, active>> /\ task[t].at = "step"
  BY DEF run_plan_step, KeepPlan
<1>2. CASE Raise(t)
  BY <1>1, <1>2, Raises
<1>3. CASE ~Raise(t)
  <2>1. PICK e : /\ e = WithOut(WithAt(task[t], "answered"), out)
                 /\ task' = [task EXCEPT ![t] = e]
                 /\ UNCHANGED <<fenceVars, ckpt, attempts, rounds>>
    BY <1>3 DEF run_plan_step, WithAt, WithOut
  <2>2. Local(task[t]) /\ task[t].k \in StepKeys
    BY <1>1, Known DEF Local, Keyed
  <2>3. Local(e) /\ e # Idle
    BY <2>1, <2>2, Goes
  <2> QED BY <1>1, <2>1, <2>3, GoesOn, Known
<1> QED BY <1>2, <1>3

LEMMA ReplanActs ==
  ASSUME PlansInv, NEW t \in Tasks, replan_terminal_failure(t)
  PROVE  Acts(t) /\ KeepsStore
<1>1. UNCHANGED <<plan, versions, decisions, active>> /\ task[t].at = "replan"
  BY DEF replan_terminal_failure, KeepPlan
<1>2. CASE Raise(t)
  BY <1>1, <1>2, Raises
<1>3. CASE ~Raise(t)
  <2>1. PICK a \in {"give_up", "context"} :
          /\ Current(prepared[t]) /\ ckpt' = Ckpt("plan_replan_required", task[t].k)
          /\ Goto(t, a) /\ UNCHANGED <<fenceVars, attempts, rounds>>
    BY <1>3 DEF replan_terminal_failure
  <2>2. Local(task[t]) /\ task[t].k \in StepKeys /\ task[t].at \in Keyed
    BY <1>1, Known DEF Local, Keyed
  <2>3. PICK e : task' = [task EXCEPT ![t] = e] /\ Local(e) /\ e # Idle
    BY <2>1, <2>2, GotoLocal
  <2>4. IsCkpt(ckpt')
    <3>1. "plan_replan_required" \in CkptPhases
      BY DEF CkptPhases
    <3> QED BY <2>1, <2>2, <3>1, CkptOf
  <2> QED BY <1>1, <2>1, <2>3, <2>4, GoesOnRecorded, Known
<1> QED BY <1>2, <1>3

LEMMA ContextActs ==
  ASSUME PlansInv, NEW t \in Tasks, revision_context(t)
  PROVE  Acts(t) /\ KeepsStore
<1>1. UNCHANGED <<plan, versions, decisions, active>> /\ task[t].at = "context"
  BY DEF revision_context, KeepPlan
<1>2. CASE Raise(t)
  BY <1>1, <1>2, Raises
<1>3. CASE ~Raise(t)
  <2>1. Goto(t, "drafting") /\ UNCHANGED <<fenceVars, ckpt, attempts, rounds>>
    BY <1>3 DEF revision_context
  <2>2. PICK e : task' = [task EXCEPT ![t] = e] /\ Local(e) /\ e # Idle
    BY <1>1, <2>1, GotoLocal DEF Keyed
  <2> QED BY <1>1, <2>1, <2>2, GoesOn, Known
<1> QED BY <1>2, <1>3

LEMMA GenerateActs ==
  ASSUME PlansInv, NEW t \in Tasks, NEW draft \in GeneratedDrafts, GenerateRevision(t, draft)
  PROVE  Acts(t) /\ KeepsStore
<1>1. /\ UNCHANGED <<plan, versions, decisions, active, attempts, ckpt, rounds>>
      /\ UNCHANGED fenceVars /\ task[t].at = "generate"
  BY DEF GenerateRevision, KeepPlan
<1>2. PICK e : task' = [task EXCEPT ![t] = e] /\ Local(e) /\ e # Idle
  <2>1. CASE draft = NoDraft
    <3>1. Goto(t, "give_up")
      BY <2>1 DEF GenerateRevision
    <3>2. "give_up" \notin Keyed
      BY DEF Keyed
    <3> QED BY <3>1, <3>2, GotoLocal
  <2>2. CASE draft # NoDraft
    <3>1. PICK e : /\ e = WithDraft(WithAt(task[t], "drafted"), draft)
                   /\ task' = [task EXCEPT ![t] = e]
      BY <2>2 DEF GenerateRevision, WithAt, WithDraft
    <3>2. Local(task[t]) /\ task[t].k \in StepKeys /\ draft \in Valid
      BY <1>1, <2>2, Known DEF Local, Keyed, Valid
    <3> QED BY <3>1, <3>2, TakesDraft
  <2> QED BY <2>1, <2>2
<1> QED BY <1>1, <1>2, GoesOn, Known

LEMMA GiveUpActs ==
  ASSUME PlansInv, NEW t \in Tasks, fail_replan_terminal(t)
  PROVE  Acts(t) /\ KeepsStore
<1>1. UNCHANGED <<plan, versions, decisions, active>>
  BY DEF fail_replan_terminal, KeepPlan
<1>2. CASE Raise(t)
  BY <1>1, <1>2, Raises
<1>3. CASE ~Raise(t)
  BY <1>1, <1>3, Terminates DEF fail_replan_terminal
<1> QED BY <1>2, <1>3

LEMMA EnterSummaryActs ==
  ASSUME PlansInv, NEW t \in Tasks, EnterSummary(t)
  PROVE  Acts(t) /\ KeepsStore
<1>1. UNCHANGED <<plan, versions, decisions, active>> /\ task[t].at = "summary"
  BY DEF EnterSummary, KeepPlan
<1>2. CASE Raise(t)
  BY <1>1, <1>2, Raises
<1>3. CASE run.status = "resuming" /\ ~Raise(t)
  <2>1. WriteRun(t, "running") /\ UNCHANGED <<ckpt, attempts, rounds, task>>
    BY <1>3 DEF EnterSummary
  <2>2. "running" \in RunStatus \ {"completed"} /\ run.status \in ActiveRunStatuses
    BY <1>3 DEF RunStatus, ActiveRunStatuses
  <2>3. task[t] # Idle
    BY <1>1, Known
  <2> QED BY <1>1, <2>1, <2>2, <2>3, WritesRow
<1>4. CASE run.status # "resuming"
  <2>1. FenceSnapshot(t) /\ Goto(t, "prepare") /\ UNCHANGED <<ckpt, attempts, rounds>>
    BY <1>4 DEF EnterSummary
  <2>2. PICK e : task' = [task EXCEPT ![t] = e] /\ Local(e) /\ e # Idle
    BY <2>1, GotoLocal DEF Keyed
  <2> QED BY <1>1, <2>1, <2>2, GoesOn, Known
<1> QED BY <1>2, <1>3, <1>4

LEMMA ReserveActs ==
  ASSUME PlansInv, NEW t \in Tasks, reserve_round_unit(t)
  PROVE  Acts(t) /\ KeepsStore
<1>1. UNCHANGED <<plan, versions, decisions, active, ckpt, attempts>> /\ UNCHANGED fenceVars
  BY DEF reserve_round_unit, KeepPlan
<1>2. PICK a \in {"summarize", "park"} : Goto(t, a)
  BY DEF reserve_round_unit
<1>3. PICK e : task' = [task EXCEPT ![t] = e] /\ Local(e) /\ e # Idle
  BY <1>2, GotoLocal DEF Keyed
<1>4. rounds' \in 0..RoundBudget
  <2>1. rounds \in 0..RoundBudget /\ (rounds' = rounds \/ (rounds < RoundBudget /\ rounds' = rounds + 1))
    BY Known DEF reserve_round_unit
  <2> QED BY <2>1, PlanConstants, SMT
<1> QED BY <1>1, <1>3, <1>4, GoesOn

LEMMA SummarizeActs ==
  ASSUME PlansInv, NEW t \in Tasks, NEW ok, Summarize(t, ok)
  PROVE  Acts(t) /\ KeepsStore
<1>1. UNCHANGED <<plan, versions, decisions, active, ckpt, attempts, rounds>> /\ UNCHANGED fenceVars
  BY DEF Summarize, KeepPlan
<1>2. PICK a \in {"save", "park"} : Goto(t, a)
  BY DEF Summarize
<1>3. PICK e : task' = [task EXCEPT ![t] = e] /\ Local(e) /\ e # Idle
  BY <1>2, GotoLocal DEF Keyed
<1> QED BY <1>1, <1>3, GoesOn, Known

LEMMA ParkActs ==
  ASSUME PlansInv, NEW t \in Tasks, ParkSummary(t)
  PROVE  Acts(t) /\ KeepsStore
<1>1. UNCHANGED <<plan, versions, decisions, active>>
  BY DEF ParkSummary, KeepPlan
<1>2. CASE Raise(t)
  BY <1>1, <1>2, Raises
<1>3. CASE ~Raise(t)
  BY <1>1, <1>3, Waiting, Known DEF ParkSummary
<1> QED BY <1>2, <1>3

LEMMA SaveActs ==
  ASSUME PlansInv, NEW t \in Tasks, SaveSummary(t)
  PROVE  Acts(t) /\ KeepsStore
<1>1. UNCHANGED <<plan, versions, decisions, active>>
  BY DEF SaveSummary, KeepPlan
<1>2. CASE Raise(t)
  BY <1>1, <1>2, Raises
<1>3. CASE ~Raise(t)
  <2>1. ~run.cancel /\ Terminal(t, "completed") /\ UNCHANGED <<attempts, rounds>>
    BY <1>3 DEF SaveSummary, load_executable_plan, Executable, is_plan_run_executable
  <2> QED BY <1>1, <2>1, Terminates
<1> QED BY <1>2, <1>3

LEMMA BeginSummaryActs ==
  ASSUME PlansInv, NEW t \in Tasks, BeginSummaryRun(t)
  PROVE  Acts(t) /\ KeepsStore
<1>1. UNCHANGED <<plan, versions, decisions, active, ckpt, attempts, rounds>>
  BY DEF BeginSummaryRun, KeepPlan
<1>2. CASE Goto(t, "summary") /\ UNCHANGED fenceVars
  <2>1. PICK e : task' = [task EXCEPT ![t] = e] /\ Local(e) /\ e # Idle
    BY <1>2, GotoLocal DEF Keyed
  <2> QED BY <1>1, <1>2, <2>1, GoesOn, Known
<1>3. CASE FenceFinish(t, "awaiting_user") /\ task' = [task EXCEPT ![t] = Idle]
  BY <1>1, <1>3, Waiting, Known
<1> QED BY <1>2, <1>3 DEF BeginSummaryRun

LEMMA EndsActs ==
  ASSUME PlansInv, NEW t \in Tasks,
         TerminalizeError(t) \/ Crash(t)
           \/ \E s \in {"cancelled", "failed_terminal"} : TerminalizeCancelledStream(t, s)
  PROVE  Acts(t) /\ KeepsStore
<1>1. UNCHANGED <<plan, versions, decisions, active, attempts, rounds>>
  BY DEF TerminalizeError, TerminalizeCancelledStream, Crash, KeepPlan
<1>2. CASE \E s \in {"cancelled", "failed_terminal"} : Terminal(t, s)
  BY <1>1, <1>2, Terminates
<1>3. CASE FenceDrop(t) /\ task' = [task EXCEPT ![t] = Idle] /\ UNCHANGED ckpt
  BY <1>1, <1>3, Leaves
<1> QED BY <1>2, <1>3 DEF TerminalizeError, TerminalizeCancelledStream, Crash

LEMMA OutcomeActs ==
  ASSUME PlansInv, NEW t \in Tasks, consume_outcome(t)
  PROVE  Acts(t) /\ KeepsStore
<1>1. UNCHANGED <<plan, versions, decisions, active, attempts, rounds>>
  BY DEF consume_outcome, KeepPlan
<1>2. CASE Terminal(t, "blocked_corrupt")
  BY <1>1, <1>2, Terminates
<1>3. CASE FenceDrop(t) /\ task' = [task EXCEPT ![t] = Idle] /\ UNCHANGED ckpt
  BY <1>1, <1>3, Leaves
<1>4. CASE Goto(t, "continuing") /\ UNCHANGED <<fenceVars, ckpt>>
  <2>1. PICK e : task' = [task EXCEPT ![t] = e] /\ Local(e) /\ e # Idle
    BY <1>4, GotoLocal DEF Keyed
  <2> QED BY <1>1, <1>4, <2>1, GoesOn, Known
<1> QED BY <1>2, <1>3, <1>4 DEF consume_outcome

LEMMA ContinueActs ==
  ASSUME PlansInv, NEW t \in Tasks, ContinueRun(t)
  PROVE  Acts(t) /\ KeepsStore
<1>1. UNCHANGED <<plan, versions, decisions, active, ckpt, attempts, rounds>> /\ task[t].at = "continuing"
  BY DEF ContinueRun, KeepPlan
<1>2. CASE WriteRun(t, "running") /\ UNCHANGED task /\ run.status = "resuming"
  <2>1. "running" \in RunStatus \ {"completed"} /\ run.status \in ActiveRunStatuses
    BY <1>2 DEF RunStatus, ActiveRunStatuses
  <2>2. task[t] # Idle
    BY <1>1, Known
  <2> QED BY <1>1, <1>2, <2>1, <2>2, WritesRow
<1>3. CASE FenceDrop(t) /\ task' = [task EXCEPT ![t] = Idle]
  BY <1>1, <1>3, Leaves
<1>4. CASE run.status # "resuming"
  <2>1. UNCHANGED fenceVars
    BY <1>4 DEF ContinueRun
  <2>2. PICK yes, b : yes = TRUE /\ b = (RunningKeys # {})
    OBVIOUS
  <2>3. PICK e : /\ task' = [task EXCEPT ![t] = e]
                 /\ \/ ckpt.phase = "plan_replan_required"
                       /\ e = WithDirect(WithK(WithAt(task[t], "failed_step"), ckpt.key), yes)
                    \/ e = WithAt(task[t], "summary")
                    \/ e = WithResume(WithAt(task[t], "boundary"), b)
    <3>1. CASE ckpt.phase = "plan_replan_required"
      BY <1>4, <2>2, <3>1 DEF ContinueRun, WithAt, WithK, WithDirect
    <3>2. CASE ckpt.phase # "plan_replan_required" /\ ckpt.phase = "final_summary" /\ RunningKeys = {}
      BY <1>4, <3>2 DEF ContinueRun, WithAt
    <3>3. CASE ckpt.phase # "plan_replan_required" /\ ~(ckpt.phase = "final_summary" /\ RunningKeys = {})
      BY <1>4, <2>2, <3>3 DEF ContinueRun, WithAt, WithResume
    <3> QED BY <3>1, <3>2, <3>3
  <2>4. Local(task[t]) /\ IsCkpt(ckpt)
    BY Known
  <2>5. Local(e) /\ e # Idle
    <3>1. CASE ckpt.phase = "plan_replan_required"
               /\ e = WithDirect(WithK(WithAt(task[t], "failed_step"), ckpt.key), yes)
      <4>1. ckpt.key \in StepKeys
        BY <2>4, <3>1 DEF IsCkpt
      <4>2. "failed_step" \in Keyed \ {"drafted", "materialize"}
        BY DEF Keyed
      <4> QED BY <2>4, <3>1, <4>1, <4>2, TakesUp
    <3>2. CASE e = WithAt(task[t], "summary")
      BY <2>4, <3>2, Goes DEF Keyed
    <3>3. CASE e = WithResume(WithAt(task[t], "boundary"), b)
      BY <2>4, <3>3, Goes DEF Keyed
    <3> QED BY <2>3, <3>1, <3>2, <3>3
  <2> QED BY <1>1, <2>1, <2>3, <2>5, GoesOn, Known
<1> QED BY <1>2, <1>3, <1>4 DEF ContinueRun

LEMMA HeartbeatActs ==
  ASSUME PlansInv, NEW t \in Tasks, heartbeat_owned_lease(t)
  PROVE  Acts(t) /\ KeepsStore
BY WritesRow DEF heartbeat_owned_lease, KeepPlan, FenceHeartbeat

\* A request to cancel and the clock move no task.
LEMMA CancellationRests ==
  ASSUME PlansInv, request_cancellation
  PROVE  Rests /\ KeepsStore
<1>1. /\ FenceRequestCancellation /\ UNCHANGED <<plan, versions, decisions, active, attempts, rounds, task>>
      /\ ckpt' \in {ckpt, Ckpt("run_terminal", NoKey)}
  BY DEF request_cancellation, KeepPlan
<1>2. Locals /\ Copies /\ IsRun(run) /\ rounds \in 0..RoundBudget /\ IsCkpt(ckpt)
  BY DEF PlansInv, Locals, Rows
<1>3. CopiesAge
  BY <1>1, <1>2, AgesAll DEF FenceRequestCancellation
<1>4. IsCkpt(ckpt')
  BY <1>1, <1>2, TerminalCkpt
<1>5. RunStep
  <2>1. PICK yes : yes = TRUE /\ yes \in BOOLEAN
    OBVIOUS
  <2>2. PICK s \in {run.status, "cancelled"}, l \in {"live", "expired"} : run' = RunRow(s, yes, l)
    BY <1>1, <1>2, <2>1 DEF FenceRequestCancellation, IsRun
  <2>3. run'.status = s /\ run'.cancel = yes /\ run'.lease = l
        /\ run' = RunRow(run'.status, run'.cancel, run'.lease)
    BY <2>2 DEF RunRow
  <2>4. run.status \in ActiveRunStatuses /\ run.status \in RunStatus /\ "cancelled" \in RunStatus
    BY <1>1 DEF FenceRequestCancellation, ActiveRunStatuses, RunStatus, TERMINAL_RUN_STATUSES
  <2> QED BY <2>1, <2>2, <2>3, <2>4 DEF RunStep, IsRun, ActiveRunStatuses
<1> QED BY <1>1, <1>2, <1>3, <1>4, <1>5 DEF Rests, KeepsStore

LEMMA ExpireRests ==
  ASSUME PlansInv, Expire
  PROVE  Rests /\ KeepsStore
<1>1. /\ run' = RunRow(run.status, run.cancel, "expired")
      /\ UNCHANGED <<plan, versions, decisions, active, attempts, rounds, task, ckpt>>
      /\ UNCHANGED <<handle, prepared>>
  BY DEF Expire, FenceExpire
<1>2. Locals /\ Copies /\ IsRun(run) /\ rounds \in 0..RoundBudget /\ IsCkpt(ckpt)
  BY DEF PlansInv, Locals, Rows
<1>3. CopiesAge
  BY <1>1, <1>2, NothingCopied
<1>4. RunStep
  <2>1. run'.status = run.status /\ run'.cancel = run.cancel /\ run'.lease = "expired"
        /\ run' = RunRow(run'.status, run'.cancel, run'.lease)
    BY <1>1 DEF RunRow
  <2> QED BY <1>2, <2>1 DEF RunStep, IsRun
<1> QED BY <1>1, <1>2, <1>3, <1>4 DEF Rests, KeepsStore

-----------------------------------------------------------------------------
(* The actions that change plan, versions, decisions or attempts *)

LEMMA Moves ==
  ASSUME PlansInv, NEW t \in Tasks, NEW e, task' = [task EXCEPT ![t] = e], Local(e), e # Idle,
         FenceForget(t) \/ UNCHANGED fenceVars, Current(handle[t]) \/ Current(prepared[t]),
         rounds' = rounds, IsCkpt(ckpt')
  PROVE  Acts(t) /\ run' = run
<1>1. Locals /\ Copies /\ rounds \in 0..RoundBudget
  BY DEF PlansInv, Locals
<1>2. CopiesStep(t) /\ run' = run
  BY <1>1, Forgets, NothingCopied DEF fenceVars
<1>3. task'[t] = e /\ task' = [task EXCEPT ![t] = task'[t]]
  BY <1>1, TaskSet
<1>4. handle[t] # "fenced"
  BY <1>1 DEF Copies, Gone, Current
<1> QED BY <1>1, <1>2, <1>3, <1>4 DEF Acts

\* Done with a row it has written under a lease that was not taken over.
LEMMA Hands ==
  ASSUME PlansInv, NEW t \in Tasks, task' = [task EXCEPT ![t] = Idle], handle[t] # "fenced",
         handle' = [Aged(handle) EXCEPT ![t] = "none"],
         prepared' = [Aged(prepared) EXCEPT ![t] = "none"], rounds' = rounds, IsCkpt(ckpt')
  PROVE  Acts(t)
<1>1. Locals /\ Copies /\ rounds \in 0..RoundBudget
  BY DEF PlansInv, Locals
<1>2. CopiesStep(t) /\ handle'[t] = "none"
  BY <1>1, AgesOthers
<1>3. task'[t] = Idle /\ task' = [task EXCEPT ![t] = task'[t]]
  BY <1>1, TaskSet
<1> QED BY <1>1, <1>2, <1>3, IdleIsLocal DEF Acts

LEMMA MayExecute ==
  ASSUME NEW copy, Executable(copy)
  PROVE  Current(copy) /\ Runs /\ ~run.cancel
BY DEF Executable, is_plan_run_executable, Runs, ActiveRunStatuses

LEMMA ReuseActs ==
  ASSUME PlansInv, NEW t \in Tasks, NEW same \in BOOLEAN, apply_compatible_reuse(t, same)
  PROVE  Acts(t) /\ (KeepsStore \/ Reuses)
<1>1. UNCHANGED <<plan, versions, decisions, active>> /\ task[t].at = "select"
  BY DEF apply_compatible_reuse, KeepPlan
<1>2. CASE Raise(t)
  BY <1>1, <1>2, Raises
<1>3. CASE ~Raise(t)
  <2>1. /\ load_executable_plan(prepared[t]) /\ Goto(t, "reused") /\ UNCHANGED <<fenceVars, ckpt, rounds>>
        /\ \/ attempts' = attempts
           \/ attempts' = [attempts EXCEPT ![active] = WithReuse]
    BY <1>3 DEF apply_compatible_reuse
  <2>2. Current(prepared[t]) /\ Runs /\ ~run.cancel
    BY <2>1, MayExecute DEF load_executable_plan
  <2>3. PICK e : task' = [task EXCEPT ![t] = e] /\ Local(e) /\ e # Idle
    BY <2>1, GotoLocal DEF Keyed
  <2>4. IsCkpt(ckpt') /\ rounds' = rounds /\ UNCHANGED fenceVars /\ rounds \in 0..RoundBudget
    BY <2>1, Known
  <2>5. Acts(t) /\ run' = run
    BY <2>2, <2>3, <2>4, Moves
  <2>6. CASE attempts' = attempts
    <3>1. UNCHANGED <<plan, versions, decisions, active, attempts, ckpt>> /\ rounds' \in 0..RoundBudget
      BY <1>1, <2>1, <2>4, <2>6
    <3> QED BY <2>3, <2>4, <3>1, GoesOn
  <2>7. CASE attempts' = [attempts EXCEPT ![active] = WithReuse]
    BY <1>1, <2>2, <2>5, <2>7 DEF Reuses, KeepsPlan
  <2> QED BY <2>1, <2>5, <2>6, <2>7
<1> QED BY <1>2, <1>3

LEMMA FinalizeActs ==
  ASSUME PlansInv, NEW t \in Tasks, finalize_step_attempt(t)
  PROVE  Acts(t) /\ (KeepsStore \/ \E k, s : Ends(k, s))
<1>1. UNCHANGED <<plan, versions, decisions, active>> /\ task[t].at = "finalize"
  BY DEF finalize_step_attempt, KeepPlan
<1>2. CASE Raise(t)
  BY <1>1, <1>2, Raises
<1>3. CASE ~Raise(t)
  <2>1. PICK k, s : k = task[t].k /\ s = TargetStatus(t)
    OBVIOUS
  <2>2. /\ Executable(handle[t]) /\ Latest[k].st = "running" /\ finish_step_attempt(k, s)
        /\ ckpt' = Ckpt("select_next", k) /\ UNCHANGED <<fenceVars, rounds>>
        /\ task' = [task EXCEPT ![t] =
               IF s = "failed_terminal" THEN [@ EXCEPT !.at = "failed_step", !.n = 0, !.out = "none"]
               ELSE [Idle EXCEPT !.at = "boundary", !.rec = task[t].rec]]
    BY <1>3, <2>1 DEF finalize_step_attempt
  <2>3. Current(handle[t]) /\ Runs /\ ~run.cancel
    BY <2>2, MayExecute
  <2>4. k \in StepKeys /\ Local(task[t])
    BY <1>1, <2>1, Known DEF Local, Keyed
  <2>5. s \in PlanStepRunStatus \ {"none", "running"}
    BY <2>1 DEF TargetStatus, PlanStepRunStatus
  <2>6. PICK z, e : /\ z = 0
                    /\ e = IF s = "failed_terminal" THEN WithOut(WithN(WithAt(task[t], "failed_step"), z), "none")
                           ELSE WithRec(WithAt(Idle, "boundary"), task[t].rec)
    OBVIOUS
  <2>7. task' = [task EXCEPT ![t] = e]
    BY <2>2, <2>6 DEF WithAt, WithN, WithOut, WithRec
  <2>8. Local(e) /\ e # Idle
    <3>1. "boundary" \notin Keyed
      BY DEF Keyed
    <3>2. CASE s = "failed_terminal"
      <4>1. e = WithOut(WithN(WithAt(task[t], "failed_step"), z), "none")
        BY <2>6, <3>2
      <4> QED BY <2>1, <2>4, <4>1, Goes
    <3>3. CASE s # "failed_terminal"
      BY <2>6, <3>1, <3>3, Enters
    <3> QED BY <3>2, <3>3
  <2>9. IsCkpt(ckpt')
    <3>1. "select_next" \in CkptPhases /\ k \in StepKeys \cup {NoKey}
      BY <2>4 DEF CkptPhases
    <3> QED BY <2>2, <3>1, CkptOf
  <2>10. Acts(t) /\ run' = run
    BY <2>2, <2>3, <2>7, <2>8, <2>9, Moves
  <2>11. Ends(k, s)
    BY <1>1, <2>2, <2>3, <2>4, <2>5, <2>10 DEF Ends, KeepsPlan, RunningKeys
  <2> QED BY <2>10, <2>11
<1> QED BY <1>2, <1>3

LEMMA CancelActs ==
  ASSUME PlansInv, NEW t \in Tasks, cancel_at_boundary(t)
  PROVE  Acts(t) /\ (KeepsStore \/ Cancels)
<1>1. UNCHANGED <<plan, versions, decisions, active, rounds>> /\ task[t].at = "cancelling"
  BY DEF cancel_at_boundary, KeepPlan
<1> DEFINE held == /\ handle[t] \in {"fresh", "old"} /\ run.lease = "live"
                   /\ run.status \in {"running", "resuming"}
<1>2. CASE run.status = "cancelled"
  BY <1>1, <1>2, Leaves DEF cancel_at_boundary
<1>3. CASE run.status # "cancelled" /\ held
  <2>1. /\ cancel_step_attempt(RunningKeys) /\ run' = RunRow("cancelled", run.cancel, "live")
        /\ handle' = [Aged(handle) EXCEPT ![t] = "none"]
        /\ prepared' = [Aged(prepared) EXCEPT ![t] = "none"]
        /\ ckpt' = Ckpt("run_terminal", NoKey) /\ task' = [task EXCEPT ![t] = Idle]
    BY <1>3 DEF cancel_at_boundary
  <2>2. Acts(t)
    BY <1>1, <1>3, <2>1, Hands, TerminalCkpt
  <2>3. Runs
    BY <1>3 DEF Runs, ActiveRunStatuses
  <2> QED BY <1>1, <2>1, <2>2, <2>3 DEF Cancels, KeepsPlan
<1>4. CASE run.status # "cancelled" /\ ~held
  <2>1. Goto(t, "failed") /\ UNCHANGED <<fenceVars, ckpt, attempts>>
    BY <1>4 DEF cancel_at_boundary
  <2>2. PICK e : task' = [task EXCEPT ![t] = e] /\ Local(e) /\ e # Idle
    BY <2>1, GotoLocal DEF Keyed
  <2> QED BY <1>1, <2>1, <2>2, GoesOn, Known
<1> QED BY <1>2, <1>3, <1>4

LEMMA MaterializeActs ==
  ASSUME PlansInv, NEW t \in Tasks, materialize_failure_revision(t)
  PROVE  Acts(t) /\ (KeepsStore \/ \E k, d : Replans(k, d))
<1>1. UNCHANGED <<decisions, active>> /\ task[t].at = "materialize"
  BY DEF materialize_failure_revision
<1>2. CASE Raise(t) /\ UNCHANGED <<plan, versions>>
  BY <1>1, <1>2, Raises
<1>3. CASE ~(Raise(t) /\ UNCHANGED <<plan, versions>>)
  <2>1. PICK k, d : k = task[t].k /\ d = task[t].draft
    OBVIOUS
  <2>2. /\ Executable(prepared[t]) /\ plan.current - 1 < MaxRevisions
        /\ Latest[k].st = "failed_terminal" /\ append_version(d)
        /\ run' = RunRow("awaiting_user", run.cancel, "live")
        /\ handle' = [Aged(handle) EXCEPT ![t] = "none"]
        /\ prepared' = [Aged(prepared) EXCEPT ![t] = "none"]
        /\ ckpt' = Ckpt("plan_awaiting_approval", NoKey)
        /\ task' = [task EXCEPT ![t] = Idle] /\ UNCHANGED <<attempts, rounds>>
    BY <1>3, <2>1 DEF materialize_failure_revision
  <2>3. Current(prepared[t]) /\ Runs /\ ~run.cancel
    BY <2>2, MayExecute
  <2>4. k \in StepKeys /\ d \in Valid
    <3>1. Local(task[t])
      BY Known
    <3> QED BY <1>1, <2>1, <3>1 DEF Local, Keyed
  <2>5. handle[t] # "fenced"
    BY <2>3, Known DEF Copies, Gone, Current
  <2>6. Acts(t)
    BY <2>2, <2>5, Hands, TerminalCkpt
  <2>7. Replans(k, d)
    BY <1>1, <2>2, <2>3, <2>4 DEF Replans
  <2> QED BY <2>6, <2>7
<1> QED BY <1>2, <1>3

LEMMA ApproveActs ==
  ASSUME PlansInv, NEW t \in Tasks, NEW id \in DecisionIds, NEW v, NEW c, Approve(t, id, v, c)
  PROVE  Acts(t) /\ Approves(id, v, c)
<1>1. /\ task[t] = Idle /\ record_decision(id, "approve", v, c) /\ active' = v
      /\ run.status = "awaiting_user" /\ run' = RunRow("resuming", run.cancel, "live") /\ NewToken(t)
      /\ task' = [task EXCEPT ![t] = [Idle EXCEPT !.at = "admit"]]
      /\ UNCHANGED <<versions, attempts, ckpt, rounds>>
  BY DEF Approve, resume_waiting_plan_run, FenceResumeWaiting
<1>2. Locals /\ Copies /\ rounds \in 0..RoundBudget /\ IsCkpt(ckpt) /\ handle[t] = "none"
  BY <1>1, Known
<1>3. CopiesStep(t)
  BY <1>1, <1>2, FencesOthers
<1>4. PICK e : e = WithAt(Idle, "admit")
  OBVIOUS
<1>5. Local(e) /\ e # Idle
  BY <1>4, Enters DEF Keyed
<1>6. task'[t] = e /\ task' = [task EXCEPT ![t] = task'[t]]
  <2>1. task' = [task EXCEPT ![t] = e]
    BY <1>1, <1>4 DEF WithAt
  <2> QED BY <1>2, <2>1, TaskSet
<1> QED BY <1>1, <1>2, <1>3, <1>5, <1>6 DEF Acts, Approves

LEMMA RejectRests ==
  ASSUME PlansInv, NEW id \in DecisionIds, NEW v, NEW c, Reject(id, v, c)
  PROVE  Rests /\ Rejects(id, v, c)
<1>1. /\ record_decision(id, "reject", v, c) /\ UNCHANGED <<versions, active, attempts, rounds, task>>
      /\ run.status = "awaiting_user" /\ run' = RunRow("cancelled", run.cancel, "live")
      /\ handle' = Fenced(handle) /\ prepared' = Fenced(prepared) /\ ckpt' = Ckpt("run_terminal", NoKey)
  BY DEF Reject, cancel_waiting_plan_run
<1>2. Copies /\ rounds \in 0..RoundBudget
  BY DEF PlansInv, Locals
<1> QED BY <1>1, <1>2, FencesAll, TerminalCkpt DEF Rests, Rejects

LEMMA ReviseRests ==
  ASSUME PlansInv, NEW id \in DecisionIds, NEW v, NEW c, NEW d \in GeneratedDrafts,
         Revise(id, v, c, d)
  PROVE  Rests /\ Revises(id, v, c, d)
<1>1. /\ begin_revision_decision(id, v, c) /\ finish_revision_decision(id, v, c) /\ d # NoDraft
      /\ plan.current - 1 < MaxRevisions /\ append_version(d)
      /\ UNCHANGED <<active, attempts, rounds, task>>
      /\ run.status = "awaiting_user" /\ run' = RunRow(run.status, run.cancel, "live")
      /\ handle' = Fenced(handle) /\ prepared' = Fenced(prepared)
      /\ ckpt' = Ckpt("plan_awaiting_approval", NoKey)
  BY DEF Revise, fence_waiting_plan_run
<1>2. Copies /\ rounds \in 0..RoundBudget
  BY DEF PlansInv, Locals
<1>3. Rests
  BY <1>1, <1>2, FencesAll, TerminalCkpt DEF Rests
<1>4. d \in Valid
  BY <1>1 DEF Valid
<1> QED BY <1>1, <1>3, <1>4 DEF Revises

LEMMA ProposeRests ==
  ASSUME PlansInv, NEW mode, NEW answer, NEW d \in GeneratedDrafts,
         materialize_initial(mode, answer, d)
  PROVE  Rests /\ Proposes(d)
<1>1. /\ run.status = "absent" /\ d # NoDraft /\ create(d)
      /\ run' = RunRow("awaiting_user", FALSE, "live") /\ active' = 1
      /\ ckpt' = Ckpt("plan_awaiting_approval", NoKey)
      /\ UNCHANGED <<handle, prepared, decisions, attempts, rounds, task>>
  BY DEF materialize_initial, start_plan_run_with_checkpoint
<1>2. Copies /\ rounds \in 0..RoundBudget
  BY DEF PlansInv, Locals
<1>3. CopiesAge
  BY <1>1, <1>2, NothingCopied
<1>4. d \in Valid
  BY <1>1 DEF Valid
<1> QED BY <1>1, <1>2, <1>3, <1>4, TerminalCkpt DEF Rests, Proposes

-----------------------------------------------------------------------------
(* Induction and recursion on the natural numbers.  Sets and functions take *)
(* the place of predicates and operators.                                  *)

INSTANCE FiniteSetTheorems

LEMMA LessIsWellFounded ==
  \E R : IsWellFoundedOn(R, Nat) /\ \A x, y \in Nat : x < y => <<x, y>> \in R
<1>1. IsWellFoundedOn(OpToRel(<, Nat), Nat)
  BY NatLessThanWellFounded
<1>2. \A x, y \in Nat : x < y => <<x, y>> \in OpToRel(<, Nat)
  BY SMT DEF OpToRel
<1> QED BY <1>1, <1>2

\* The least of a set of numbers.
LEMMA Least ==
  ASSUME NEW T, T \subseteq Nat, T # {}
  PROVE  \E x \in T : \A y \in T : x <= y
<1>1. PICK R : IsWellFoundedOn(R, Nat) /\ \A x, y \in Nat : x < y => <<x, y>> \in R
  BY LessIsWellFounded
<1>2. PICK x \in T : \A y \in T : ~(<<y, x>> \in R)
  <2>1. IsWellFoundedOn(R, Nat)
    BY <1>1
  <2>2. T \subseteq Nat /\ T # {}
    OBVIOUS
  <2> HIDE <1>1
  <2> QED BY ONLY <2>1, <2>2, WFMin
<1>3. x \in Nat /\ \A y \in T : y \in Nat
  OBVIOUS
<1>4. \A y \in T : ~(y < x)
  BY <1>1, <1>2, <1>3
<1>5. \A y \in T : x <= y
  BY <1>3, <1>4, SMT
<1> QED BY <1>5

\* Induction up to N.
LEMMA Inductively ==
  ASSUME NEW N \in Nat, NEW S, 0 \in S, \A n \in 0..(N - 1) : n \in S => n + 1 \in S
  PROVE  \A n \in 0..N : n \in S
<1>1. SUFFICES ASSUME {n \in 0..N : n \notin S} # {}
               PROVE  FALSE
  OBVIOUS
<1>2. PICK x \in {n \in 0..N : n \notin S} : \A y \in {n \in 0..N : n \notin S} : x <= y
  <2>1. {n \in 0..N : n \notin S} \subseteq Nat
    BY SMT
  <2> QED BY <1>1, <2>1, Least
<1>3. x \in 0..N /\ x \notin S
  OBVIOUS
<1>4. x # 0
  BY <1>3
<1>5. x - 1 \in 0..(N - 1) /\ x - 1 \in 0..N /\ (x - 1) + 1 = x /\ ~(x <= x - 1)
  BY <1>3, <1>4, SMT
<1>6. x - 1 \in S
  BY <1>2, <1>5
<1> QED BY <1>3, <1>5, <1>6

\* The first values of the function that begins with z and goes on by G.
Begins(f, n, z, G) == f[0] = z /\ \A m \in 1..n : f[m] = G[<<f[m - 1], m>>]

LEMMA RecursiveFunction ==
  ASSUME NEW N \in Nat, NEW V, NEW z \in V, NEW G, G \in [V \X (1..N) -> V]
  PROVE  \E f \in [0..N -> V] : Begins(f, N, z, G)
<1> DEFINE S == {n \in 0..N : \E f \in [0..n -> V] : Begins(f, n, z, G)}
<1>1. 0 \in S
  <2>1. PICK f : f = [m \in 0..0 |-> z]
    OBVIOUS
  <2>2. f \in [0..0 -> V] /\ f[0] = z /\ 1..0 = {} /\ 0 \in 0..N
    BY <2>1, SMT
  <2> QED BY <2>2 DEF Begins
<1>2. ASSUME NEW n \in 0..(N - 1), n \in S
      PROVE  n + 1 \in S
  <2>1. PICK f \in [0..n -> V] : Begins(f, n, z, G)
    BY <1>2
  <2>2. PICK g : g = [m \in 0..(n + 1) |-> IF m = n + 1 THEN G[<<f[n], n + 1>>] ELSE f[m]]
    OBVIOUS
  <2>3. f[n] \in V /\ n + 1 \in 1..N /\ n \in 0..n
    BY SMT
  <2>4. G[<<f[n], n + 1>>] \in V
    BY <2>3
  <2>5. \A m \in 0..(n + 1) : m # n + 1 => m \in 0..n
    BY SMT
  <2>6. \A m \in 0..n : m \in 0..(n + 1) /\ m # n + 1
    BY SMT
  <2>7. \A m \in 0..n : g[m] = f[m]
    BY <2>2, <2>6
  <2>8. g[n + 1] = G[<<f[n], n + 1>>]
    <3>1. n + 1 \in 0..(n + 1)
      BY SMT
    <3> QED BY <2>2, <3>1
  <2>9. g \in [0..(n + 1) -> V]
    BY <2>2, <2>4, <2>5
  <2>10. Begins(g, n + 1, z, G)
    <3>1. g[0] = z
      <4>1. 0 \in 0..n
        BY SMT
      <4> QED BY <2>1, <2>7, <4>1 DEF Begins
    <3>2. ASSUME NEW m \in 1..(n + 1)
          PROVE  g[m] = G[<<g[m - 1], m>>]
      <4>1. CASE m = n + 1
        <5>1. m - 1 = n
          BY <4>1, SMT
        <5> QED BY <2>3, <2>7, <2>8, <4>1, <5>1
      <4>2. CASE m # n + 1
        <5>1. m \in 1..n /\ m \in 0..n /\ m - 1 \in 0..n
          BY <4>2, SMT
        <5> QED BY <2>1, <2>7, <5>1 DEF Begins
      <4> QED BY <4>1, <4>2
    <3> QED BY <3>1, <3>2 DEF Begins
  <2>11. n + 1 \in 0..N
    BY SMT
  <2> QED BY <2>9, <2>10, <2>11
<1>3. N \in S
  <2>1. N \in 0..N
    BY SMT
  <2> HIDE DEF S
  <2> QED BY <1>1, <1>2, <2>1, Inductively
<1> QED BY <1>3

\* It is the value of the definition f[n \in 0..N] == IF n = 0 THEN z ELSE G[<<f[n - 1], n>>].
LEMMA RecursiveEquation ==
  ASSUME NEW N \in Nat, NEW V, NEW f \in [0..N -> V], NEW z, NEW G, Begins(f, N, z, G)
  PROVE  f = [n \in 0..N |-> IF n = 0 THEN z ELSE G[<<f[n - 1], n>>]]
<1>1. f = [n \in 0..N |-> f[n]]
  OBVIOUS
<1>2. ASSUME NEW n \in 0..N
      PROVE  f[n] = IF n = 0 THEN z ELSE G[<<f[n - 1], n>>]
  <2>1. n # 0 => n \in 1..N
    BY SMT
  <2> QED BY <2>1 DEF Begins
<1> QED BY <1>1, <1>2

LEMMA OneMore ==
  ASSUME NEW N \in Nat, NEW S, S \subseteq 1..N, NEW x \in 1..N, x \notin S
  PROVE  Cardinality(S) \in Nat /\ Cardinality(S \cup {x}) = Cardinality(S) + 1
<1>1. IsFiniteSet(1..N)
  <2>1. 1 \in Int /\ N \in Int
    BY SMT
  <2> QED BY <2>1, FS_Interval
<1>2. IsFiniteSet(S)
  BY <1>1, FS_Subset
<1> QED BY <1>2, FS_AddElement, FS_CardinalityType

LEMMA SomeMany ==
  ASSUME NEW N \in Nat, NEW S, S \subseteq 1..N
  PROVE  Cardinality(S) \in Nat
<1>1. IsFiniteSet(1..N)
  <2>1. 1 \in Int /\ N \in Int
    BY SMT
  <2> QED BY <2>1, FS_Interval
<1>2. IsFiniteSet(S)
  BY <1>1, FS_Subset
<1> QED BY <1>2, FS_CardinalityType

LEMMA NoMore == Cardinality({}) = 0
BY FS_EmptySet

-----------------------------------------------------------------------------
(* What validation promises of a draft *)

LEMMA MinOf ==
  ASSUME NEW T, T \subseteq Nat, T # {}
  PROVE  Min(T) \in T
<1>1. \E x \in T : \A y \in T : x <= y
  BY Least
<1> QED BY <1>1 DEF Min

Elements(s) == {s[i] : i \in DOMAIN s}

\* Part of an order: keys of their own, and each after what it depends on.
InSequence(p) ==
  \A i \in DOMAIN p : /\ p[i].deps \subseteq {p[j].key : j \in 1..(i - 1)}
                      /\ \A j \in DOMAIN p : p[i].key = p[j].key => i = j

Orders(s) == {p \in Seq(Elements(s)) : InSequence(p)}

LEMMA Indices ==
  ASSUME NEW S, NEW p \in Seq(S)
  PROVE  DOMAIN p = 1..Len(p) /\ Len(p) \in Nat /\ \A i \in DOMAIN p : p[i] \in S /\ i \in Nat
BY SMT

LEMMA Placing ==
  ASSUME NEW s, s \in Seq(Elements(s)), NEW p \in Orders(s)
  PROVE  PlaceNext(s, p) \in Orders(s)
<1> DEFINE ready == {i \in DOMAIN s : s[i].key \notin Keys(p) /\ s[i].deps \subseteq Keys(p)}
<1>1. PlaceNext(s, p) = IF ready = {} THEN p ELSE Append(p, s[Min(ready)])
  BY DEF PlaceNext
<1>2. CASE ready = {}
  BY <1>1, <1>2
<1>3. CASE ready # {}
  <2>1. ready \subseteq Nat
    BY Indices
  <2>2. PICK i \in ready : i = Min(ready)
    BY <1>3, <2>1, MinOf
  <2>3. PICK e \in Elements(s) : e = s[i] /\ e.key \notin Keys(p) /\ e.deps \subseteq Keys(p)
    BY DEF Elements
  <2>4. PICK q, S : q = Append(p, e) /\ S = Elements(s)
    OBVIOUS
  <2>5. PlaceNext(s, p) = q
    BY <1>1, <1>3, <2>2, <2>3, <2>4
  <2>6. p \in Seq(S) /\ e \in S /\ InSequence(p)
    BY <2>4 DEF Orders
  <2>7. /\ q \in Seq(S) /\ DOMAIN q = 1..(Len(p) + 1) /\ DOMAIN p = 1..Len(p) /\ Len(p) \in Nat
        /\ \A j \in 1..Len(p) : q[j] = p[j]
        /\ q[Len(p) + 1] = e
    BY <2>4, <2>6, SMT
  <2>8. ASSUME NEW j \in DOMAIN q
        PROVE  /\ q[j].deps \subseteq {q[m].key : m \in 1..(j - 1)}
               /\ \A m \in DOMAIN q : q[j].key = q[m].key => j = m
    <3>1. \A m \in DOMAIN q : m \in DOMAIN p \/ m = Len(p) + 1
      BY <2>7, SMT
    <3>2. CASE j = Len(p) + 1
      <4>1. j - 1 = Len(p)
        BY <2>7, <3>2, SMT
      <4>2. Keys(p) = {q[m].key : m \in 1..(j - 1)}
        BY <2>7, <4>1 DEF Keys
      <4>3. \A m \in DOMAIN p : p[m].key # e.key
        BY <2>3 DEF Keys
      <4> QED BY <2>3, <2>7, <3>1, <3>2, <4>2, <4>3
    <3>3. CASE j \in DOMAIN p
      <4>1. /\ p[j].deps \subseteq {p[m].key : m \in 1..(j - 1)}
            /\ \A m \in DOMAIN p : p[j].key = p[m].key => j = m
        BY <2>6, <3>3 DEF InSequence
      <4>2. q[j] = p[j] /\ \A m \in 1..(j - 1) : m \in DOMAIN p
        BY <2>7, <3>3, SMT
      <4>3. {p[m].key : m \in 1..(j - 1)} = {q[m].key : m \in 1..(j - 1)}
        BY <2>7, <4>2
      <4>4. p[j].key # e.key
        BY <2>3, <3>3 DEF Keys
      <4> QED BY <2>7, <3>1, <4>1, <4>2, <4>3, <4>4
    <3> QED BY <3>1, <3>2, <3>3
  <2>9. InSequence(q)
    BY <2>8 DEF InSequence
  <2> QED BY <2>4, <2>5, <2>7, <2>9 DEF Orders
<1> QED BY <1>2, <1>3

\* Whatever was placed is an order, if the draft has a cycle or not.
LEMMA PlacedInOrder ==
  ASSUME NEW s, s \in Seq(Elements(s))
  PROVE  Placed(s) \in Orders(s)
<1>1. PICK N, V : N = Len(s) /\ V = Orders(s)
  OBVIOUS
<1>2. N \in Nat /\ <<>> \in V
  <2>1. PICK S : S = Elements(s)
    OBVIOUS
  <2>2. s \in Seq(S)
    BY <2>1
  <2>3. N \in Nat /\ <<>> \in Seq(S) /\ DOMAIN <<>> = {}
    BY <1>1, <2>2, SMT
  <2> QED BY <1>1, <2>1, <2>3 DEF Orders, InSequence
<1>3. \A p \in V : PlaceNext(s, p) \in V
  BY <1>1, Placing
<1>4. PICK G : G = [x \in V \X (1..N) |-> PlaceNext(s, x[1])]
  OBVIOUS
<1>5. \A p \in V, n \in 1..N : G[<<p, n>>] = PlaceNext(s, p)
  BY <1>4
<1>6. G \in [V \X (1..N) -> V]
  <2>1. \A x \in V \X (1..N) : PlaceNext(s, x[1]) \in V
    BY <1>3
  <2> QED BY <1>4, <2>1
<1>7. PICK f \in [0..N -> V] : Begins(f, N, <<>>, G)
  BY <1>2, <1>6, RecursiveFunction
<1>8. f = [n \in 0..N |-> IF n = 0 THEN <<>> ELSE PlaceNext(s, f[n - 1])]
  <2>1. f = [n \in 0..N |-> f[n]]
    OBVIOUS
  <2>2. ASSUME NEW n \in 0..N
        PROVE  f[n] = IF n = 0 THEN <<>> ELSE PlaceNext(s, f[n - 1])
    <3>1. n # 0 => n \in 1..N /\ n - 1 \in 0..N
      BY <1>2, SMT
    <3>2. n # 0 => f[n] = G[<<f[n - 1], n>>] /\ f[n - 1] \in V
      BY <1>7, <3>1 DEF Begins
    <3>3. n = 0 => f[n] = <<>>
      BY <1>7 DEF Begins
    <3> QED BY <1>5, <3>1, <3>2, <3>3
  <2> QED BY <2>1, <2>2
<1>9. PICK g : /\ g = [n \in 0..N |-> IF n = 0 THEN <<>> ELSE PlaceNext(s, g[n - 1])]
               /\ Placed(s) = g[N]
  <2> DEFINE h == CHOOSE h : h = [n \in 0..N |-> IF n = 0 THEN <<>> ELSE PlaceNext(s, h[n - 1])]
  <2>1. Placed(s) = h[N]
    BY <1>1 DEF Placed
  <2>2. h = [n \in 0..N |-> IF n = 0 THEN <<>> ELSE PlaceNext(s, h[n - 1])]
    BY <1>8
  <2> HIDE DEF h
  <2> QED BY <2>1, <2>2
<1>10. N \in {n \in 0..N : g[n] \in V}
  <2> DEFINE S == {n \in 0..N : g[n] \in V}
  <2>1. 0 \in S
    <3>1. 0 \in 0..N
      BY <1>2, SMT
    <3> QED BY <1>2, <1>9, <3>1
  <2>2. ASSUME NEW n \in 0..(N - 1), n \in S
        PROVE  n + 1 \in S
    <3>1. n + 1 \in 0..N /\ n + 1 # 0 /\ (n + 1) - 1 = n
      BY <1>2, SMT
    <3>2. g[n + 1] = PlaceNext(s, g[n])
      BY <1>9, <3>1
    <3> QED BY <1>3, <2>2, <3>1, <3>2
  <2>3. N \in 0..N
    BY <1>2, SMT
  <2> HIDE DEF S
  <2>4. N \in S
    BY <1>2, <2>1, <2>2, <2>3, Inductively
  <2> QED BY <2>4 DEF S
<1> QED BY <1>1, <1>9, <1>10

\* What a generated draft is, whichever of its answers the model was asked for.
LEMMA Ordered ==
  ASSUME NEW d \in Valid
  PROVE  InOrder(d)
<1>1. PICK s \in Answers : d = validate_plan_draft(s)
  <2>1. PICK x \in Answers, y \in Answers : d = PlanGenerator_generate(x, y)
    BY SMT DEF Valid, GeneratedDrafts
  <2> QED BY <2>1 DEF PlanGenerator_generate
<1>2. d = Placed(s) /\ d # <<>>
  BY <1>1 DEF Valid, validate_plan_draft, NoDraft
<1>3. s \in Seq(Elements(s)) /\ \A i \in DOMAIN s : s[i].limit \in Nat
  BY PlanConstants DEF Elements
<1>4. d \in Seq(Elements(s)) /\ InSequence(d)
  BY <1>2, <1>3, PlacedInOrder DEF Orders
<1>5. \A e \in Elements(s) : e.limit \in Nat /\ e.key \in StepKeys
  <2>1. Keys(s) \subseteq StepKeys
    BY DEF StepKeys
  <2> QED BY <1>3, <2>1 DEF Elements, Keys
<1>6. Len(d) > 0 /\ \A i \in DOMAIN d : d[i] \in Elements(s)
  <2>1. PICK S : S = Elements(s)
    OBVIOUS
  <2>2. d \in Seq(S)
    BY <1>4, <2>1
  <2>3. Len(d) > 0 /\ \A i \in DOMAIN d : d[i] \in S
    BY <1>2, <2>2, SMT
  <2> QED BY <2>1, <2>3
<1>7. d \in Seq({d[i] : i \in DOMAIN d})
  <2>1. PICK S : S = Elements(s)
    OBVIOUS
  <2>2. d \in Seq(S)
    BY <1>4, <2>1
  <2> QED BY <2>2, SMT
<1> QED BY <1>4, <1>5, <1>6, <1>7 DEF InOrder, InSequence

-----------------------------------------------------------------------------
(* The actions that leave plan, versions, decisions and attempts alone *)

LEMMA StepsInOrder ==
  ASSUME Rows, plan.status # "absent"
  PROVE  active \in 1..Len(versions) /\ active \in VersionIds /\ InOrder(Steps)
<1>1. active \in 1..plan.current /\ Len(versions) = plan.current /\ plan.current \in Versions0
      /\ versions \in Seq(Valid)
  BY DEF Rows
<1>2. active \in 1..Len(versions) /\ active \in VersionIds
  BY <1>1, PlanConstants, SMT DEF Versions0, VersionIds
<1>3. versions[active] \in Valid
  BY <1>1, <1>2, Indices
<1> QED BY <1>2, <1>3, Ordered DEF Steps

-----------------------------------------------------------------------------
(* What keeps the rows of plan and run, and the attempts *)

LEMMA RowsKept ==
  ASSUME Rows, RunStep, UNCHANGED <<plan, versions, active>>
  PROVE  Rows'
<1>1. /\ IsRun(run')
      /\ run'.status = run.status \/ (run.status \in ActiveRunStatuses /\ run'.status \in RunStatus)
  BY DEF RunStep
<1>2. run'.status = "absent" <=> run.status = "absent"
  BY <1>1 DEF RunStatus, ActiveRunStatuses, TERMINAL_RUN_STATUSES
<1>3. run.status \in TERMINAL_RUN_STATUSES => run'.status = run.status
  BY <1>1 DEF ActiveRunStatuses, TERMINAL_RUN_STATUSES
<1> QED BY <1>1, <1>2, <1>3 DEF Rows

LEMMA StoreKept ==
  ASSUME Store, KeepsStore
  PROVE  Store'
<1>1. UNCHANGED <<plan, versions, decisions, active, attempts>> /\ RunStep
      /\ Rows /\ Table /\ Alone /\ Ledger
  BY DEF Store, KeepsStore
<1>2. Table' /\ Alone' /\ Ledger'
  BY <1>1 DEF Table, Alone, Ledger, EveryVersionAccounted
<1>3. Rows'
  BY <1>1, RowsKept
<1> QED BY <1>2, <1>3 DEF Store

\* The versions vs are the first ones of ws.
Grows(vs, ws) == \A v \in 1..Len(vs) : ws[v] = vs[v]

\* What has succeeded stays as it is.
KeepsResults(att, new) ==
  \A v \in VersionIds, k \in StepKeys : att[v][k].st = "succeeded" => new[v][k] = att[v][k]

LEMMA Typed ==
  ASSUME Table, NEW v \in VersionIds, NEW k \in StepKeys
  PROVE  /\ attempts[v][k] \in Attempts /\ attempts[v][k].n \in Nat
         /\ attempts[v][k].from \in Nat /\ attempts[v][k].st \in PlanStepRunStatus
         /\ (v > active => attempts[v][k].n = 0) /\ Settled(versions, attempts, v, k)
<1>1. attempts[v][k] \in Attempts /\ (v > active => attempts[v][k].n = 0)
      /\ Settled(versions, attempts, v, k)
  BY DEF Table
<1>2. \A a \in Attempts : a.n \in Nat /\ a.from \in Nat /\ a.st \in PlanStepRunStatus
  BY PlanConstants, SMT DEF Attempts
<1> QED BY <1>1, <1>2

\* The steps a step of a validated draft depends on are steps of the draft.
LEMMA StepOfKey ==
  ASSUME NEW d, InOrder(d), NEW i \in DOMAIN d
  PROVE  StepOf(d, d[i].key) = d[i] /\ d[i].deps \subseteq StepKeys
<1>1. \A j \in DOMAIN d : d[j].key = d[i].key => j = i
  BY DEF InOrder
<1>2. (CHOOSE j \in DOMAIN d : d[j].key = d[i].key) = i
  BY <1>1
<1>3. \A j \in 1..(i - 1) : d[j].key \in StepKeys
  <2>1. \A j \in 1..(i - 1) : j \in DOMAIN d
    <3>1. PICK S : S = {d[j] : j \in DOMAIN d}
      OBVIOUS
    <3>2. d \in Seq(S)
      BY <3>1 DEF InOrder
    <3> QED BY <3>2, SMT
  <2> QED BY <2>1 DEF InOrder
<1>4. d[i].deps \subseteq {d[j].key : j \in 1..(i - 1)}
  BY DEF InOrder
<1> QED BY <1>2, <1>3, <1>4 DEF StepOf

LEMMA DepsAreKeys ==
  ASSUME NEW d, InOrder(d), NEW k \in Keys(d)
  PROVE  StepOf(d, k).deps \subseteq StepKeys /\ k \in StepKeys /\ StepOf(d, k).limit \in Nat
<1>1. PICK i \in DOMAIN d : k = d[i].key
  BY DEF Keys
<1>2. d[i].key \in StepKeys /\ d[i].limit \in Nat
  BY DEF InOrder
<1> QED BY <1>1, <1>2, StepOfKey

\* The versions that have attempts are validated drafts.
LEMMA AttemptedVersion ==
  ASSUME Rows, Table, NEW v \in VersionIds, NEW k \in StepKeys, attempts[v][k].n > 0
  PROVE  /\ plan.status # "absent" /\ v \in 1..Len(versions) /\ v <= active
         /\ InOrder(versions[v]) /\ k \in Keys(versions[v])
<1>1. ~(v > active) /\ k \in Keys(versions[v])
  <2>1. attempts[v][k].n # 0
    BY Typed, SMT
  <2>2. ~(v > active)
    BY <2>1, Typed
  <2> QED BY <2>2, Typed DEF Settled
<1>2. plan.status # "absent"
  <2>1. ~(v > 0)  => FALSE
    BY SMT DEF VersionIds
  <2> QED BY <1>1, <2>1 DEF Rows
<1>3. active \in 1..plan.current /\ Len(versions) = plan.current /\ plan.current \in Nat
  BY <1>2, PlanConstants, SMT DEF Rows, Versions0
<1>4. v \in 1..Len(versions) /\ v <= active
  BY <1>1, <1>3, SMT DEF VersionIds
<1>5. versions[v] \in Valid
  BY <1>4, Indices DEF Rows
<1> QED BY <1>1, <1>2, <1>4, <1>5, Ordered

\* An attempt stays as it should be when it ends, and when others start, end or are reused.
LEMMA SettledKept ==
  ASSUME Rows, Table, NEW vs, NEW att, Grows(versions, vs), KeepsResults(attempts, att),
         NEW v \in VersionIds, NEW k \in StepKeys,
         att[v][k].n = attempts[v][k].n, att[v][k].from = attempts[v][k].from,
         att[v][k].st = "none" <=> attempts[v][k].st = "none"
  PROVE  Settled(vs, att, v, k)
<1>1. PICK a, b : a = attempts[v][k] /\ b = att[v][k]
  OBVIOUS
<1>2. /\ a.n \in Nat /\ a.from \in Nat /\ b.n = a.n /\ b.from = a.from
      /\ b.st = "none" <=> a.st = "none"
      /\ a.n = 0 <=> a.st = "none"
      /\ a.from > 0 => a.n > 0
  BY <1>1, Typed DEF Settled
<1>3. CASE a.n = 0
  <2>1. ~(a.n > 0) /\ ~(a.from > 0)
    BY <1>2, <1>3, SMT
  <2> QED BY <1>1, <1>2, <2>1 DEF Settled
<1>4. CASE a.n # 0
  <2>1. attempts[v][k].n > 0
    BY <1>1, <1>2, <1>4, SMT
  <2>2. v \in 1..Len(versions) /\ InOrder(versions[v]) /\ k \in Keys(versions[v])
    BY <2>1, AttemptedVersion
  <2>3. vs[v] = versions[v]
    BY <2>2 DEF Grows
  <2>4. \A d \in StepOf(versions[v], k).deps : d \in StepKeys /\ attempts[v][d].st = "succeeded"
    BY <2>1, <2>2, DepsAreKeys, Typed DEF Settled
  <2>5. \A d \in StepOf(vs[v], k).deps : att[v][d].st = "succeeded"
    BY <2>3, <2>4 DEF KeepsResults
  <2>6. ASSUME a.from > 0
        PROVE  /\ a.from < v
               /\ att[a.from][k].st = "succeeded" /\ att[a.from][k].from = 0
               /\ StepOf(vs[a.from], k).def = StepOf(vs[v], k).def
               /\ \A d \in StepOf(vs[a.from], k).deps :
                    att[v][d].st = "succeeded" /\ att[v][d].from = a.from
    <3>1. /\ a.from < v
          /\ attempts[a.from][k].st = "succeeded" /\ attempts[a.from][k].from = 0
          /\ StepOf(versions[a.from], k).def = StepOf(versions[v], k).def
          /\ \A d \in StepOf(versions[a.from], k).deps :
               attempts[v][d].st = "succeeded" /\ attempts[v][d].from = a.from
      <4>1. Settled(versions, attempts, v, k) /\ attempts[v][k].from > 0 /\ attempts[v][k].from = a.from
        BY <1>1, <2>6, Typed
      <4> QED BY ONLY <4>1 DEF Settled
    <3>2. a.from \in VersionIds
      BY <1>2, <2>6, <3>1, PlanConstants, SMT DEF VersionIds
    <3>3. attempts[a.from][k].n > 0
      <4>1. attempts[a.from][k].n \in Nat /\ attempts[a.from][k].n # 0
        BY <3>1, <3>2, Typed DEF Settled
      <4> QED BY <4>1, SMT
    <3>4. a.from \in 1..Len(versions) /\ InOrder(versions[a.from]) /\ k \in Keys(versions[a.from])
      BY <3>2, <3>3, AttemptedVersion
    <3>5. vs[a.from] = versions[a.from]
      BY <3>4 DEF Grows
    <3>6. StepOf(versions[a.from], k).deps \subseteq StepKeys
      BY <3>4, DepsAreKeys
    <3> QED BY <2>3, <3>1, <3>2, <3>5, <3>6 DEF KeepsResults
  <2>7. /\ att[v][k].n = a.n /\ att[v][k].from = a.from /\ a.n > 0
        /\ a.n = 0 <=> att[v][k].st = "none"
    BY <1>1, <1>2, <2>1
  <2>8. k \in Keys(vs[v])
    BY <2>2, <2>3
  <2> QED BY <2>5, <2>6, <2>7, <2>8 DEF Settled
<1> QED BY <1>3, <1>4

\* The table after a step in which only attempts of the active version change.
LEMMA TableStep ==
  ASSUME Rows, Table, attempts' \in [VersionIds -> [StepKeys -> Attempts]],
         Grows(versions, versions'), KeepsResults(attempts, attempts'), active' = active,
         \A v \in VersionIds, k \in StepKeys : attempts'[v][k] # attempts[v][k] =>
           v = active /\ Settled(versions', attempts', v, k)
  PROVE  Table'
<1>1. ASSUME NEW v \in VersionIds, NEW k \in StepKeys
      PROVE  (v > active' => attempts'[v][k].n = 0) /\ Settled(versions', attempts', v, k)
  <2>1. CASE attempts'[v][k] = attempts[v][k]
    <3>1. Settled(versions', attempts', v, k)
      BY <2>1, SettledKept
    <3> QED BY <2>1, <3>1, Typed
  <2>2. CASE attempts'[v][k] # attempts[v][k]
    <3>1. v = active /\ Settled(versions', attempts', v, k)
      BY <2>2
    <3>2. ~(v > active)
      BY <3>1, SMT DEF VersionIds
    <3> QED BY <3>1, <3>2
  <2> QED BY <2>1, <2>2
<1> QED BY <1>1 DEF Table, Settled

\* One entry of the table is replaced.
LEMMA OneEntry ==
  ASSUME NEW T, NEW f \in [VersionIds -> [StepKeys -> T]], NEW u \in VersionIds, NEW j \in StepKeys,
         NEW x \in T, NEW g, g = [f EXCEPT ![u][j] = x]
  PROVE  /\ g \in [VersionIds -> [StepKeys -> T]] /\ g[u][j] = x
         /\ \A v \in VersionIds, k \in StepKeys : v # u \/ k # j => g[v][k] = f[v][k]
BY SMT

\* A version of it is.
LEMMA OneVersion ==
  ASSUME NEW T, NEW f \in [VersionIds -> [StepKeys -> T]], NEW u \in VersionIds,
         NEW h \in [StepKeys -> T], NEW g, g = [f EXCEPT ![u] = h]
  PROVE  /\ g \in [VersionIds -> [StepKeys -> T]]
         /\ \A k \in StepKeys : g[u][k] = h[k]
         /\ \A v \in VersionIds, k \in StepKeys : v # u => g[v][k] = f[v][k]
BY SMT

LEMMA AttemptIs ==
  ASSUME NEW n \in 0..MaxStepAttempts, NEW st \in PlanStepRunStatus, NEW from \in 0..MaxRevisions,
         NEW x, x = Attempt(n, st, from)
  PROVE  x \in Attempts /\ x.n = n /\ x.st = st /\ x.from = from
BY SMT DEF Attempt, Attempts

LEMMA StatusSet ==
  ASSUME NEW a \in Attempts, NEW st \in PlanStepRunStatus, NEW b, b = [a EXCEPT !.st = st]
  PROVE  b \in Attempts /\ b.n = a.n /\ b.st = st /\ b.from = a.from
BY SMT DEF Attempts

-----------------------------------------------------------------------------
(* The steps that change the attempts of the run *)

\* Whoever runs has a plan, and its active version is a validated draft.
LEMMA RunHasPlan ==
  ASSUME Rows, Runs
  PROVE  /\ plan.status \in {"awaiting_approval", "approved"}
         /\ active \in 1..Len(versions) /\ active \in VersionIds /\ InOrder(Steps)
<1>1. run.status # "absent" /\ run.status \notin TERMINAL_RUN_STATUSES
  BY DEF Runs, ActiveRunStatuses, TERMINAL_RUN_STATUSES
<1>2. plan.status \in {"awaiting_approval", "approved"} /\ plan.status # "absent"
  BY <1>1 DEF Rows, PlanStatus
<1> QED BY <1>2, StepsInOrder

LEMMA PlanKept ==
  ASSUME Rows, Ledger, KeepsPlan, UNCHANGED run
  PROVE  Rows' /\ Ledger' /\ Grows(versions, versions')
<1>1. RunStep
  BY DEF Rows, RunStep
<1>2. Rows'
  BY <1>1, RowsKept DEF KeepsPlan, Rows
<1> QED BY <1>2 DEF KeepsPlan, Ledger, EveryVersionAccounted, Grows

\* An attempt under way: of the active version, alone, of one of its steps.
LEMMA OnlyRunning ==
  ASSUME Store, NEW v \in VersionIds, NEW k \in StepKeys, attempts[v][k].st \in Under
  PROVE  /\ attempts[v][k].n > 0 /\ k \in Keys(versions[v])
         /\ (attempts[v][k].st = "running" =>
               /\ v = active /\ k \in RunningKeys /\ RunningKeys = {k}
               /\ plan.status # "awaiting_approval"
               /\ \A j \in StepKeys : attempts[v][j].st \in Under => j = k)
<1>1. Rows /\ Table /\ Alone
  BY DEF Store
<1>2. attempts[v][k].n \in Nat /\ attempts[v][k].n # 0
  <2>1. attempts[v][k].st # "none"
    BY DEF Under, TERMINAL_PLAN_STEP_STATUSES
  <2> QED BY <1>1, <2>1, Typed DEF Settled
<1>3. attempts[v][k].n > 0
  BY <1>2, SMT
<1>4. k \in Keys(versions[v])
  BY <1>1, <1>3, AttemptedVersion
<1>5. ASSUME attempts[v][k].st = "running"
      PROVE  /\ v = active /\ k \in RunningKeys /\ RunningKeys = {k}
             /\ plan.status # "awaiting_approval"
             /\ \A j \in StepKeys : attempts[v][j].st \in Under => j = k
  <2>1. /\ v = active /\ plan.status # "awaiting_approval"
        /\ \A j \in StepKeys : attempts[v][j].st \in Under => j = k
    BY <1>1, <1>5 DEF Alone
  <2>2. \A j \in RunningKeys : j \in StepKeys /\ attempts[v][j].st \in Under
    BY <2>1 DEF RunningKeys, Latest, Under
  <2>3. k \in RunningKeys
    BY <1>5, <2>1 DEF RunningKeys, Latest
  <2> QED BY <2>1, <2>2, <2>3
<1> QED BY <1>3, <1>4, <1>5

LEMMA StartsKeepsStore ==
  ASSUME Store, NEW k, Starts(k)
  PROVE  Store'
<1>1. Rows /\ Table /\ Alone /\ Ledger /\ KeepsPlan /\ UNCHANGED run /\ Runs
  BY DEF Store, Starts
<1>2. plan.status = "approved" /\ active \in VersionIds /\ InOrder(Steps)
      /\ active \in 1..Len(versions) /\ Steps = versions[active]
  BY <1>1, RunHasPlan DEF Starts, ActiveVersionApproved, Steps
<1>3. k \in Keys(Steps) /\ k \in StepKeys /\ StepOf(Steps, k).deps \subseteq StepKeys
  BY <1>2, DepsAreKeys DEF Starts
<1>4. PICK n, x : n = attempts[active][k].n + 1 /\ x = Attempt(n, "running", 0)
  OBVIOUS
<1>5. n \in 0..MaxStepAttempts /\ n > 0 /\ n # 0
  <2>1. attempts[active][k].n \in Nat /\ attempts[active][k].n + 1 <= MaxStepAttempts
    BY <1>1, <1>2, <1>3, Typed DEF Starts, Latest
  <2> QED BY <1>4, <2>1, PlanConstants, SMT
<1>6. x \in Attempts /\ x.n = n /\ x.st = "running" /\ x.from = 0
  <2>1. "running" \in PlanStepRunStatus /\ 0 \in 0..MaxRevisions
    BY PlanConstants, SMT DEF PlanStepRunStatus
  <2>2. x = Attempt(n, "running", 0) /\ n \in 0..MaxStepAttempts
    BY <1>4, <1>5
  <2> QED BY ONLY <2>1, <2>2, AttemptIs, SMT
<1>7. /\ attempts' \in [VersionIds -> [StepKeys -> Attempts]] /\ attempts'[active][k] = x
      /\ \A v \in VersionIds, j \in StepKeys : v # active \/ j # k => attempts'[v][j] = attempts[v][j]
  <2>1. attempts' = [attempts EXCEPT ![active][k] = x]
    BY <1>4 DEF Starts, create_step_attempt, Latest
  <2>2. attempts \in [VersionIds -> [StepKeys -> Attempts]]
    BY <1>1 DEF Table
  <2> QED BY <1>2, <1>3, <1>6, <2>1, <2>2, OneEntry
<1>8. attempts[active][k].st \in {"none", "failed_retryable"}
      /\ \A d \in StepOf(Steps, k).deps : attempts[active][d].st = "succeeded"
  BY DEF Starts, is_plan_step_ready, DependenciesSucceeded, Latest
<1>9. KeepsResults(attempts, attempts')
  <2>1. ASSUME NEW v \in VersionIds, NEW j \in StepKeys, attempts[v][j].st = "succeeded"
        PROVE  attempts'[v][j] = attempts[v][j]
    <3>1. v # active \/ j # k
      BY <1>8, <2>1
    <3> QED BY <1>7, <3>1
  <2> QED BY <2>1 DEF KeepsResults
<1>10. Rows' /\ Ledger' /\ Grows(versions, versions')
  BY <1>1, PlanKept
<1>11. Settled(versions', attempts', active, k)
  <2>1. versions' = versions
    BY <1>1 DEF KeepsPlan
  <2>2. \A d \in StepOf(versions[active], k).deps : attempts'[active][d].st = "succeeded"
    BY <1>2, <1>3, <1>8, <1>9 DEF KeepsResults
  <2>3. ~(x.from > 0)
    BY <1>6, SMT
  <2> QED BY <1>2, <1>3, <1>5, <1>6, <1>7, <2>1, <2>2, <2>3 DEF Settled
<1>12. Table'
  <2>1. active' = active
    BY <1>1 DEF KeepsPlan
  <2>2. \A v \in VersionIds, j \in StepKeys : attempts'[v][j] # attempts[v][j] =>
          v = active /\ Settled(versions', attempts', v, j)
    BY <1>7, <1>11
  <2> QED BY <1>1, <1>7, <1>9, <1>10, <2>1, <2>2, TableStep
<1>13. \A j \in StepKeys : attempts[active][j].st \notin Under
  <2>1. SUFFICES ASSUME NEW j \in StepKeys, attempts[active][j].st \in Under
                 PROVE  FALSE
    OBVIOUS
  <2>2. j \in Keys(Steps)
    BY <1>2, <2>1, OnlyRunning
  <2> QED BY <2>1, <2>2 DEF Starts, StepsMayStart, Latest, Under
<1>14. Alone'
  <2>1. active' = active /\ plan'.status = "approved"
    BY <1>1, <1>2 DEF KeepsPlan
  <2>2. ASSUME NEW v \in VersionIds, NEW j \in StepKeys, attempts'[v][j].st = "running"
        PROVE  v = active /\ \A i \in StepKeys : attempts'[v][i].st \in Under => i = j
    <3>1. v = active /\ j = k
      <4>1. SUFFICES ASSUME v # active \/ j # k
                     PROVE  FALSE
        OBVIOUS
      <4>2. attempts[v][j].st = "running"
        BY <1>7, <2>2, <4>1
      <4>3. v = active
        BY <1>1, <4>2 DEF Alone
      <4> QED BY <1>13, <4>2, <4>3 DEF Under
    <3> QED BY <1>7, <1>13, <3>1
  <2> QED BY <2>1, <2>2 DEF Alone
<1> QED BY <1>10, <1>12, <1>14 DEF Store

\* Every attempt under way has ended, one way or another.
AllEnd ==
  /\ attempts' \in [VersionIds -> [StepKeys -> Attempts]]
  /\ \A v \in VersionIds, k \in StepKeys : v # active \/ k \notin RunningKeys =>
       attempts'[v][k] = attempts[v][k]
  /\ \A k \in RunningKeys :
       /\ attempts'[active][k].n = attempts[active][k].n
       /\ attempts'[active][k].from = attempts[active][k].from
       /\ attempts'[active][k].st \notin {"none", "running"}

LEMMA AllEndKeeps ==
  ASSUME Store, AllEnd, KeepsPlan, active \in VersionIds
  PROVE  Table' /\ Alone' /\ Ledger'
<1>1. Rows /\ Table /\ Alone /\ Ledger
  BY DEF Store
<1>2. KeepsResults(attempts, attempts')
  <2>1. ASSUME NEW v \in VersionIds, NEW j \in StepKeys, attempts[v][j].st = "succeeded"
        PROVE  attempts'[v][j] = attempts[v][j]
    <3>1. v # active \/ j \notin RunningKeys
      BY <2>1 DEF RunningKeys, Latest
    <3> QED BY <3>1 DEF AllEnd
  <2> QED BY <2>1 DEF KeepsResults
<1>3. Grows(versions, versions') /\ active' = active
  BY DEF KeepsPlan, Grows
<1>4. ASSUME NEW k \in RunningKeys
      PROVE  Settled(versions', attempts', active, k)
  <2>1. k \in StepKeys /\ attempts[active][k].st = "running"
    BY DEF RunningKeys, Latest
  <2>2. /\ attempts'[active][k].n = attempts[active][k].n
        /\ attempts'[active][k].from = attempts[active][k].from
        /\ attempts'[active][k].st = "none" <=> attempts[active][k].st = "none"
    BY <2>1 DEF AllEnd
  <2> QED BY <1>1, <1>2, <1>3, <2>1, <2>2, SettledKept
<1>5. Table'
  <2>1. attempts' \in [VersionIds -> [StepKeys -> Attempts]]
    BY DEF AllEnd
  <2>2. \A v \in VersionIds, j \in StepKeys : attempts'[v][j] # attempts[v][j] =>
          v = active /\ Settled(versions', attempts', v, j)
    BY <1>4 DEF AllEnd
  <2> QED BY <1>1, <1>2, <1>3, <2>1, <2>2, TableStep
<1>6. \A v \in VersionIds, k \in StepKeys : attempts'[v][k].st # "running"
  <2>1. SUFFICES ASSUME NEW v \in VersionIds, NEW k \in StepKeys, attempts'[v][k].st = "running"
                 PROVE  FALSE
    OBVIOUS
  <2>2. v # active \/ k \notin RunningKeys
    BY <2>1 DEF AllEnd
  <2>3. attempts[v][k].st = "running"
    BY <2>1, <2>2 DEF AllEnd
  <2> QED BY <1>1, <2>2, <2>3 DEF Alone, RunningKeys, Latest
<1>7. Alone'
  BY <1>6 DEF Alone
<1>8. Ledger'
  BY <1>1 DEF KeepsPlan, Ledger, EveryVersionAccounted
<1> QED BY <1>5, <1>7, <1>8

LEMMA EndsIsEnd ==
  ASSUME Store, NEW k, NEW s, Ends(k, s)
  PROVE  /\ AllEnd /\ active \in VersionIds /\ k \in StepKeys /\ RunningKeys = {k}
         /\ attempts'[active][k].st = s
<1>1. Rows /\ Table /\ Runs /\ k \in StepKeys /\ attempts[active][k].st = "running"
  BY DEF Store, Ends, RunningKeys, Latest
<1>2. active \in VersionIds
  BY <1>1, RunHasPlan
<1>3. RunningKeys = {k}
  BY <1>1, <1>2, OnlyRunning DEF Under
<1>4. PICK a \in Attempts : a = attempts[active][k]
  BY <1>1, <1>2, Typed
<1>5. PICK b : b = [a EXCEPT !.st = s]
  OBVIOUS
<1>6. b \in Attempts /\ b.n = a.n /\ b.st = s /\ b.from = a.from
  <2>1. s \in PlanStepRunStatus
    BY DEF Ends
  <2> QED BY <1>5, <2>1, StatusSet
<1>7. /\ attempts' \in [VersionIds -> [StepKeys -> Attempts]] /\ attempts'[active][k] = b
      /\ \A v \in VersionIds, j \in StepKeys : v # active \/ j # k => attempts'[v][j] = attempts[v][j]
  <2>1. attempts' = [attempts EXCEPT ![active][k] = b]
    BY <1>4, <1>5 DEF Ends, finish_step_attempt
  <2>2. attempts \in [VersionIds -> [StepKeys -> Attempts]]
    BY <1>1 DEF Table
  <2> QED BY <1>1, <1>2, <1>6, <2>1, <2>2, OneEntry
<1>8. s \notin {"none", "running"}
  BY DEF Ends
<1>9. AllEnd
  BY <1>3, <1>4, <1>6, <1>7, <1>8 DEF AllEnd
<1> QED BY <1>1, <1>2, <1>3, <1>6, <1>7, <1>9

LEMMA EndsKeepsStore ==
  ASSUME Store, NEW k, NEW s, Ends(k, s)
  PROVE  Store'
<1>1. AllEnd /\ active \in VersionIds /\ KeepsPlan /\ UNCHANGED run /\ Rows /\ Ledger
  BY EndsIsEnd DEF Ends, Store
<1> QED BY <1>1, AllEndKeeps, PlanKept DEF Store

LEMMA CancelsIsEnd ==
  ASSUME Store, Cancels
  PROVE  /\ AllEnd /\ active \in VersionIds
         /\ \A k \in RunningKeys : attempts'[active][k].st = "cancelled"
<1>1. Rows /\ Table /\ Runs
  BY DEF Store, Cancels
<1>2. active \in VersionIds
  BY <1>1, RunHasPlan
<1>3. PICK h : h = [k \in StepKeys |-> IF k \in RunningKeys THEN [Latest[k] EXCEPT !.st = "cancelled"] ELSE Latest[k]]
  OBVIOUS
<1>4. ASSUME NEW k \in StepKeys
      PROVE  /\ h[k] \in Attempts
             /\ k \notin RunningKeys => h[k] = attempts[active][k]
             /\ k \in RunningKeys => /\ h[k].n = attempts[active][k].n
                                     /\ h[k].from = attempts[active][k].from
                                     /\ h[k].st = "cancelled"
  <2>1. PICK a \in Attempts : a = Latest[k] /\ a = attempts[active][k]
    BY <1>1, <1>2, Typed DEF Latest
  <2>2. CASE k \in RunningKeys
    <3>1. PICK c \in PlanStepRunStatus : c = "cancelled"
      BY DEF PlanStepRunStatus
    <3>2. PICK b : b = [a EXCEPT !.st = c]
      OBVIOUS
    <3>3. h[k] = b
      BY <1>3, <2>1, <2>2, <3>1, <3>2
    <3>4. b \in Attempts /\ b.n = a.n /\ b.st = c /\ b.from = a.from
      BY <3>2, StatusSet
    <3> QED BY <2>1, <2>2, <3>1, <3>3, <3>4
  <2>3. CASE k \notin RunningKeys
    BY <1>3, <2>1, <2>3
  <2> QED BY <2>2, <2>3
<1>5. h \in [StepKeys -> Attempts]
  <2>1. h = [k \in StepKeys |-> h[k]]
    BY <1>3
  <2> QED BY <1>4, <2>1
<1>6. /\ attempts' \in [VersionIds -> [StepKeys -> Attempts]]
      /\ \A k \in StepKeys : attempts'[active][k] = h[k]
      /\ \A v \in VersionIds, k \in StepKeys : v # active => attempts'[v][k] = attempts[v][k]
  <2>1. attempts' = [attempts EXCEPT ![active] = h]
    BY <1>3 DEF Cancels, cancel_step_attempt
  <2>2. attempts \in [VersionIds -> [StepKeys -> Attempts]]
    BY <1>1 DEF Table
  <2> QED BY <1>2, <1>5, <2>1, <2>2, OneVersion
<1>7. RunningKeys \subseteq StepKeys
  BY DEF RunningKeys
<1>8. AllEnd
  BY <1>4, <1>6, <1>7 DEF AllEnd
<1> QED BY <1>2, <1>4, <1>6, <1>7, <1>8

LEMMA CancelsRow ==
  ASSUME Rows, Cancels
  PROVE  RunStep /\ run'.status = "cancelled"
<1>1. "cancelled" \in RunStatus /\ IsRun(run) /\ Runs
  BY DEF RunStatus, TERMINAL_RUN_STATUSES, Rows, Cancels
<1>2. run'.status = "cancelled" /\ run'.cancel = run.cancel /\ run'.lease = "live"
      /\ run' = RunRow(run'.status, run'.cancel, run'.lease)
  BY DEF Cancels, RunRow
<1> QED BY <1>1, <1>2 DEF RunStep, IsRun, Runs

LEMMA CancelsKeepsStore ==
  ASSUME Store, Cancels
  PROVE  Store'
<1>1. AllEnd /\ active \in VersionIds /\ KeepsPlan /\ Rows
  BY CancelsIsEnd DEF Cancels, Store
<1>2. Rows'
  BY <1>1, CancelsRow, RowsKept DEF KeepsPlan
<1> QED BY <1>1, <1>2, AllEndKeeps DEF Store

-----------------------------------------------------------------------------
(* Results of the superseded version *)

\* Step k of f shows the result of the superseded version, as can_reuse_result allows.
Shown(f, k) ==
  /\ Latest[k].n = 0 /\ f[k] = reuse_document
  /\ active > 1 /\ k \in Keys(Steps) /\ k \in Keys(versions[active - 1])
  /\ attempts[active - 1][k].st = "succeeded" /\ attempts[active - 1][k].from = 0
  /\ StepOf(Steps, k).def = StepOf(versions[active - 1], k).def
  /\ StepOf(Steps, k).deps = StepOf(versions[active - 1], k).deps
  /\ \A d \in StepOf(Steps, k).deps : f[d].st = "succeeded" /\ f[d].from = active - 1

WithSomeReuse ==
  {f \in [StepKeys -> Attempts] : \A k \in StepKeys : f[k] = Latest[k] \/ Shown(f, k)}

LEMMA ReuseDocument ==
  ASSUME Rows, active \in VersionIds
  PROVE  /\ reuse_document \in Attempts /\ reuse_document.n = 1
         /\ reuse_document.st = "succeeded" /\ reuse_document.from = active - 1
<1>1. 1 \in 0..MaxStepAttempts /\ active - 1 \in 0..MaxRevisions
  BY PlanConstants, SMT DEF VersionIds
<1>2. "succeeded" \in PlanStepRunStatus
  BY DEF PlanStepRunStatus
<1>3. PICK x, n, u, st : x = reuse_document /\ n = 1 /\ u = active - 1 /\ st = "succeeded"
  OBVIOUS
<1>4. x = Attempt(n, st, u) /\ n \in 0..MaxStepAttempts /\ u \in 0..MaxRevisions /\ st \in PlanStepRunStatus
  <2>1. x = Attempt(n, st, u)
    BY <1>3 DEF reuse_document
  <2> QED BY <1>1, <1>2, <1>3, <2>1
<1>5. x \in Attempts /\ x.n = n /\ x.st = st /\ x.from = u
  BY ONLY <1>4, AttemptIs, SMT
<1> QED BY <1>3, <1>5

LEMMA ReuseOneMore ==
  ASSUME Rows, Table, active \in VersionIds, InOrder(Steps), NEW f \in WithSomeReuse, NEW i \in DOMAIN Steps
  PROVE  ReuseNext(f, i) \in WithSomeReuse
<1>1. PICK k \in StepKeys : k = Steps[i].key /\ k \in Keys(Steps)
  BY DEF InOrder, Keys
<1>2. CASE ~(f[k].n = 0 /\ can_reuse_result(k, f))
  BY <1>1, <1>2 DEF ReuseNext
<1>3. CASE f[k].n = 0 /\ can_reuse_result(k, f)
  <2>1. PICK g : g = [f EXCEPT ![k] = reuse_document] /\ ReuseNext(f, i) = g
    BY <1>1, <1>3 DEF ReuseNext, create_reused_step_attempt
  <2>2. f \in [StepKeys -> Attempts] /\ \A j \in StepKeys : f[j] = Latest[j] \/ Shown(f, j)
    BY DEF WithSomeReuse
  <2>3. reuse_document \in Attempts /\ reuse_document.n # 0
    BY ReuseDocument, SMT
  <2>4. g \in [StepKeys -> Attempts] /\ g[k] = reuse_document /\ \A j \in StepKeys \ {k} : g[j] = f[j]
    BY <2>1, <2>2, <2>3
  <2>5. f[k] = Latest[k] /\ Latest[k].n = 0
    BY <1>3, <2>2, <2>3 DEF Shown
  <2>6. f[k].st # "succeeded"
    <3>1. attempts[active][k].st = "none"
      BY <2>5, Typed DEF Latest, Settled
    <3> QED BY <2>5, <3>1 DEF Latest
  <2>7. StepOf(Steps, k).deps \subseteq StepKeys
    BY <1>1, DepsAreKeys
  <2>8. Shown(g, k)
    <3>1. \A d \in StepOf(Steps, k).deps : f[d].st = "succeeded" /\ f[d].from = active - 1
      BY <1>3 DEF can_reuse_result
    <3>2. \A d \in StepOf(Steps, k).deps : g[d] = f[d]
      BY <2>4, <2>6, <2>7, <3>1
    <3>3. /\ active > 1 /\ k \in Keys(versions[active - 1])
          /\ attempts[active - 1][k].st = "succeeded" /\ attempts[active - 1][k].from = 0
          /\ StepOf(Steps, k).def = StepOf(versions[active - 1], k).def
          /\ StepOf(Steps, k).deps = StepOf(versions[active - 1], k).deps
      BY <1>3 DEF can_reuse_result
    <3> QED BY <1>1, <2>4, <2>5, <3>1, <3>2, <3>3 DEF Shown
  <2>9. ASSUME NEW j \in StepKeys, j # k, Shown(f, j)
        PROVE  Shown(g, j)
    <3>1. StepOf(Steps, j).deps \subseteq StepKeys
      BY <2>9, DepsAreKeys DEF Shown
    <3>2. \A d \in StepOf(Steps, j).deps : g[d] = f[d]
      BY <2>4, <2>6, <2>9, <3>1 DEF Shown
    <3> QED BY <2>4, <2>9, <3>2 DEF Shown
  <2>10. \A j \in StepKeys : g[j] = Latest[j] \/ Shown(g, j)
    BY <2>2, <2>4, <2>8, <2>9
  <2> QED BY <2>1, <2>4, <2>10 DEF WithSomeReuse
<1> QED BY <1>2, <1>3

LEMMA ReuseIsShown ==
  ASSUME Rows, Table, active \in VersionIds, InOrder(Steps)
  PROVE  WithReuse \in WithSomeReuse
<1>1. PICK N, V, D : N = Len(Steps) /\ V = WithSomeReuse /\ D = DOMAIN Steps
  OBVIOUS
<1>2. N \in Nat /\ D = 1..N
  <2>1. PICK S : S = {Steps[i] : i \in DOMAIN Steps}
    OBVIOUS
  <2>2. Steps \in Seq(S)
    BY <2>1 DEF InOrder
  <2> QED BY <1>1, <2>2, Indices
<1>3. Latest \in V
  <2>1. Latest \in [StepKeys -> Attempts]
    BY DEF Table, Latest
  <2> QED BY <1>1, <2>1 DEF WithSomeReuse
<1>4. \A p \in V, i \in 1..N : ReuseNext(p, i) \in V
  BY <1>1, <1>2, ReuseOneMore
<1>5. PICK G : G = [x \in V \X (1..N) |-> ReuseNext(x[1], x[2])]
  OBVIOUS
<1>6. \A p \in V, n \in 1..N : G[<<p, n>>] = ReuseNext(p, n)
  BY <1>5
<1>7. G \in [V \X (1..N) -> V]
  <2>1. \A x \in V \X (1..N) : ReuseNext(x[1], x[2]) \in V
    BY <1>4
  <2> QED BY <1>5, <2>1
<1>8. PICK f \in [0..N -> V] : Begins(f, N, Latest, G)
  BY <1>2, <1>3, <1>7, RecursiveFunction
<1>9. f = [n \in 0..N |-> IF n = 0 THEN Latest ELSE ReuseNext(f[n - 1], n)]
  <2>1. f = [n \in 0..N |-> f[n]]
    OBVIOUS
  <2>2. ASSUME NEW n \in 0..N
        PROVE  f[n] = IF n = 0 THEN Latest ELSE ReuseNext(f[n - 1], n)
    <3>1. n # 0 => n \in 1..N /\ n - 1 \in 0..N
      BY <1>2, SMT
    <3>2. n # 0 => f[n] = G[<<f[n - 1], n>>] /\ f[n - 1] \in V
      BY <1>8, <3>1 DEF Begins
    <3>3. n = 0 => f[n] = Latest
      BY <1>8 DEF Begins
    <3> QED BY <1>6, <3>1, <3>2, <3>3
  <2> QED BY <2>1, <2>2
<1>10. PICK g : /\ g = [n \in 0..N |-> IF n = 0 THEN Latest ELSE ReuseNext(g[n - 1], n)]
                /\ WithReuse = g[N]
  <2> DEFINE h == CHOOSE h : h = [n \in 0..N |-> IF n = 0 THEN Latest ELSE ReuseNext(h[n - 1], n)]
  <2>1. WithReuse = h[N]
    BY <1>1 DEF WithReuse
  <2>2. h = [n \in 0..N |-> IF n = 0 THEN Latest ELSE ReuseNext(h[n - 1], n)]
    BY <1>9
  <2> HIDE DEF h
  <2> QED BY <2>1, <2>2
<1>11. N \in {n \in 0..N : g[n] \in V}
  <2> DEFINE S == {n \in 0..N : g[n] \in V}
  <2>1. 0 \in S
    <3>1. 0 \in 0..N
      BY <1>2, SMT
    <3> QED BY <1>3, <1>10, <3>1
  <2>2. ASSUME NEW n \in 0..(N - 1), n \in S
        PROVE  n + 1 \in S
    <3>1. n + 1 \in 0..N /\ n + 1 # 0 /\ (n + 1) - 1 = n /\ n + 1 \in 1..N
      BY <1>2, SMT
    <3>2. g[n + 1] = ReuseNext(g[n], n + 1)
      BY <1>10, <3>1
    <3> QED BY <1>4, <2>2, <3>1, <3>2
  <2>3. N \in 0..N
    BY <1>2, SMT
  <2> HIDE DEF S
  <2>4. N \in S
    BY <1>2, <2>1, <2>2, <2>3, Inductively
  <2> QED BY <2>4 DEF S
<1> QED BY <1>1, <1>10, <1>11

LEMMA ReusesIs ==
  ASSUME Store, Reuses
  PROVE  /\ active \in VersionIds /\ active \in 1..Len(versions)
         /\ attempts' \in [VersionIds -> [StepKeys -> Attempts]]
         /\ \A v \in VersionIds, k \in StepKeys : attempts'[v][k] # attempts[v][k] =>
              /\ v = active /\ Shown(attempts'[active], k)
              /\ attempts'[v][k].n = 1 /\ attempts'[v][k].st = "succeeded"
              /\ attempts'[v][k].from = active - 1
<1>1. Rows /\ Table /\ Runs
  BY DEF Store, Reuses
<1>2. active \in VersionIds /\ active \in 1..Len(versions) /\ InOrder(Steps)
  BY <1>1, RunHasPlan
<1>3. PICK h \in WithSomeReuse : h = WithReuse
  BY <1>1, <1>2, ReuseIsShown
<1>4. h \in [StepKeys -> Attempts] /\ \A k \in StepKeys : h[k] = Latest[k] \/ Shown(h, k)
  BY DEF WithSomeReuse
<1>5. attempts \in [VersionIds -> [StepKeys -> Attempts]] /\ attempts' = [attempts EXCEPT ![active] = h]
  BY <1>1, <1>3 DEF Table, Reuses
<1>6. /\ attempts' \in [VersionIds -> [StepKeys -> Attempts]] /\ attempts'[active] = h
      /\ \A k \in StepKeys : attempts'[active][k] = h[k]
      /\ \A v \in VersionIds, k \in StepKeys : v # active => attempts'[v][k] = attempts[v][k]
  BY <1>2, <1>4, <1>5, OneVersion
<1>7. ASSUME NEW v \in VersionIds, NEW k \in StepKeys, attempts'[v][k] # attempts[v][k]
      PROVE  /\ v = active /\ Shown(attempts'[active], k)
             /\ attempts'[v][k].n = 1 /\ attempts'[v][k].st = "succeeded"
             /\ attempts'[v][k].from = active - 1
  <2>1. v = active
    BY <1>6, <1>7
  <2>2. Shown(h, k)
    BY <1>4, <1>6, <1>7, <2>1 DEF Latest
  <2>3. attempts'[v][k] = reuse_document
    BY <1>6, <2>1, <2>2 DEF Shown
  <2> QED BY <1>1, <1>2, <1>6, <2>1, <2>2, <2>3, ReuseDocument
<1> QED BY <1>2, <1>6, <1>7

LEMMA ReusesKeepsStore ==
  ASSUME Store, Reuses
  PROVE  Store'
<1>1. Rows /\ Table /\ Alone /\ Ledger /\ KeepsPlan /\ UNCHANGED run
  BY DEF Store, Reuses
<1>2. /\ active \in VersionIds
      /\ attempts' \in [VersionIds -> [StepKeys -> Attempts]]
      /\ \A v \in VersionIds, k \in StepKeys : attempts'[v][k] # attempts[v][k] =>
           /\ v = active /\ Shown(attempts'[active], k)
           /\ attempts'[v][k].n = 1 /\ attempts'[v][k].st = "succeeded"
           /\ attempts'[v][k].from = active - 1
  BY ReusesIs
<1>3. Rows' /\ Ledger' /\ Grows(versions, versions')
  BY <1>1, PlanKept
<1>4. KeepsResults(attempts, attempts')
  <2>1. ASSUME NEW v \in VersionIds, NEW j \in StepKeys, attempts[v][j].st = "succeeded"
        PROVE  attempts'[v][j] = attempts[v][j]
    <3>1. attempts[v][j].n # 0
      BY <1>1, <2>1, Typed DEF Settled
    <3>2. ~(v = active /\ Shown(attempts'[active], j))
      BY <3>1 DEF Shown, Latest
    <3> QED BY <1>2, <3>2
  <2> QED BY <2>1 DEF KeepsResults
<1>5. ASSUME NEW k \in StepKeys, attempts'[active][k] # attempts[active][k]
      PROVE  Settled(versions', attempts', active, k)
  <2>1. /\ Shown(attempts'[active], k) /\ attempts'[active][k].n = 1
        /\ attempts'[active][k].st = "succeeded" /\ attempts'[active][k].from = active - 1
    BY <1>2, <1>5
  <2>2. versions' = versions
    BY <1>1 DEF KeepsPlan
  <2>3. active > 1 /\ active - 1 \in VersionIds /\ active - 1 < active /\ active - 1 > 0
        /\ active - 1 # active /\ attempts'[active][k].n > 0 /\ attempts'[active][k].n # 0
    <3>1. active > 1 /\ active \in VersionIds /\ attempts'[active][k].n = 1
      BY <1>2, <2>1 DEF Shown
    <3> QED BY ONLY <3>1, PlanConstants, SMT DEF VersionIds
  <2>4. attempts'[active - 1][k] = attempts[active - 1][k]
    BY <1>2, <2>3
  <2>5. /\ k \in Keys(versions[active])
        /\ \A d \in StepOf(versions[active], k).deps :
             attempts'[active][d].st = "succeeded" /\ attempts'[active][d].from = active - 1
        /\ attempts'[active - 1][k].st = "succeeded" /\ attempts'[active - 1][k].from = 0
        /\ StepOf(versions[active], k).def = StepOf(versions[active - 1], k).def
        /\ StepOf(versions[active], k).deps = StepOf(versions[active - 1], k).deps
    BY <2>1, <2>4 DEF Shown, Steps
  <2> QED BY <2>1, <2>2, <2>3, <2>5 DEF Settled
<1>6. Table'
  <2>1. active' = active
    BY <1>1 DEF KeepsPlan
  <2> QED BY <1>1, <1>2, <1>3, <1>4, <1>5, <2>1, TableStep
<1>7. Alone'
  <2>1. active' = active /\ plan' = plan
    BY <1>1 DEF KeepsPlan
  <2>2. ASSUME NEW v \in VersionIds, NEW j \in StepKeys, attempts'[v][j].st \in Under
        PROVE  attempts'[v][j] = attempts[v][j]
    BY <1>2, <2>2 DEF Under, TERMINAL_PLAN_STEP_STATUSES
  <2>3. ASSUME NEW v \in VersionIds, NEW j \in StepKeys, attempts'[v][j].st = "running"
        PROVE  /\ v = active /\ plan.status # "awaiting_approval"
               /\ \A i \in StepKeys : attempts'[v][i].st \in Under => i = j
    <3>1. attempts[v][j].st = "running"
      BY <2>2, <2>3 DEF Under
    <3>2. v = active /\ plan.status # "awaiting_approval"
          /\ \A i \in StepKeys : attempts[v][i].st \in Under => i = j
      BY <1>1, <3>1 DEF Alone
    <3> QED BY <2>2, <3>2
  <2> QED BY <2>1, <2>3 DEF Alone
<1> QED BY <1>3, <1>6, <1>7 DEF Store

-----------------------------------------------------------------------------
(* The steps that change the plan *)

\* The columns of plan row p.
PlanIs(p, s, cur, app, c) ==
  IsPlan(p) /\ p.status = s /\ p.current = cur /\ p.approved = app /\ p.cas = c

LEMMA PlanFields ==
  ASSUME NEW s, NEW cur, NEW app, NEW c, NEW p, p = PlanOf(s, cur, app, c)
  PROVE  PlanIs(p, s, cur, app, c)
BY DEF PlanOf, IsPlan, PlanIs

WithStatus(p, x) == [p EXCEPT !.status = x]
WithCurrent(p, x) == [p EXCEPT !.current = x]
WithApproved(p, x) == [p EXCEPT !.approved = x]
WithCas(p, x) == [p EXCEPT !.cas = x]

LEMMA OnePlanField ==
  ASSUME NEW s, NEW cur, NEW app, NEW c, NEW p, PlanIs(p, s, cur, app, c), NEW x
  PROVE  /\ PlanIs(WithStatus(p, x), x, cur, app, c) /\ PlanIs(WithCurrent(p, x), s, x, app, c)
         /\ PlanIs(WithApproved(p, x), s, cur, x, c) /\ PlanIs(WithCas(p, x), s, cur, app, x)
<1>1. p = PlanOf(s, cur, app, c)
  BY DEF PlanIs, IsPlan
<1>2. WithStatus(p, x) = PlanOf(x, cur, app, c)
  BY <1>1, SMT DEF PlanOf, WithStatus
<1>3. WithCurrent(p, x) = PlanOf(s, x, app, c)
  BY <1>1, SMT DEF PlanOf, WithCurrent
<1>4. WithApproved(p, x) = PlanOf(s, cur, x, c)
  BY <1>1, SMT DEF PlanOf, WithApproved
<1>5. WithCas(p, x) = PlanOf(s, cur, app, x)
  BY <1>1, SMT DEF PlanOf, WithCas
<1>6. PlanIs(WithStatus(p, x), x, cur, app, c)
  BY ONLY <1>2, PlanFields, Zenon
<1>7. PlanIs(WithCurrent(p, x), s, x, app, c)
  BY ONLY <1>3, PlanFields, Zenon
<1>8. PlanIs(WithApproved(p, x), s, cur, x, c)
  BY ONLY <1>4, PlanFields, Zenon
<1>9. PlanIs(WithCas(p, x), s, cur, app, x)
  BY ONLY <1>5, PlanFields, Zenon
<1> QED BY <1>6, <1>7, <1>8, <1>9

LEMMA PlanSet ==
  ASSUME NEW p, IsPlan(p), NEW s, NEW x, NEW c
  PROVE  /\ PlanIs(WithCas(WithApproved(WithStatus(p, s), x), c), s, p.current, x, c)
         /\ PlanIs(WithCas(WithStatus(p, s), c), s, p.current, p.approved, c)
         /\ PlanIs(WithCas(WithCurrent(WithStatus(p, s), x), c), s, x, p.approved, c)
<1>1. PlanIs(p, p.status, p.current, p.approved, p.cas)
  BY DEF PlanIs
<1>2. PICK q, r, t : q = WithStatus(p, s) /\ r = WithApproved(q, x) /\ t = WithCurrent(q, x)
  OBVIOUS
<1>3. PlanIs(q, s, p.current, p.approved, p.cas)
  BY <1>1, <1>2, OnePlanField
<1>4. PlanIs(r, s, p.current, x, p.cas) /\ PlanIs(t, s, x, p.approved, p.cas)
  BY <1>2, <1>3, OnePlanField
<1>5. PlanIs(WithCas(q, c), s, p.current, p.approved, c)
  BY <1>3, OnePlanField
<1>6. PlanIs(WithCas(r, c), s, p.current, x, c) /\ PlanIs(WithCas(t, c), s, x, p.approved, c)
  BY <1>4, OnePlanField
<1> QED BY <1>2, <1>5, <1>6

Actions == {"none", "approve", "reject", "revise"}

\* A new decision is one more of its kind.
LEMMA Decided ==
  ASSUME Ledger, NEW id \in DecisionIds, NewDecision(id), NEW a \in Actions \ {"none"}, NEW v, NEW c,
         decisions' = [decisions EXCEPT ![id] = [action |-> a, version |-> v, cas |-> c]]
  PROVE  /\ DOMAIN decisions' = DecisionIds
         /\ \A i \in DecisionIds : decisions'[i].action \in Actions
         /\ decisions'[id].version = v
         /\ \A i \in DecisionIds : i # id => decisions'[i] = decisions[i]
         /\ Done(decisions', a) = Done(decisions, a) \cup {id}
         /\ \A b \in Actions \ {"none"} :
              id \notin Done(decisions, b) /\ (b # a => Done(decisions', b) = Done(decisions, b))
<1>1. PICK e : e = [action |-> a, version |-> v, cas |-> c]
  OBVIOUS
<1>2. e.action = a /\ e.version = v
  BY <1>1
<1>3. DOMAIN decisions = DecisionIds /\ \A i \in DecisionIds : decisions[i].action \in Actions
  BY DEF Ledger, Actions
<1>4. /\ DOMAIN decisions' = DecisionIds /\ decisions'[id] = e
      /\ \A i \in DecisionIds : i # id => decisions'[i] = decisions[i]
  BY <1>1, <1>3
<1>5. decisions[id].action = "none"
  <2>1. id >= id
    BY SMT DEF DecisionIds
  <2>2. decisions[id] = NoDecision
    BY <2>1 DEF NewDecision
  <2>3. NoDecision.action = "none"
    BY DEF NoDecision
  <2> QED BY <2>2, <2>3
<1>6. Done(decisions', a) = Done(decisions, a) \cup {id}
  BY <1>2, <1>4 DEF Done
<1>7. \A b \in Actions \ {"none"} : id \notin Done(decisions, b)
  BY <1>5 DEF Done
<1>8. ASSUME NEW b \in Actions \ {"none"}, b # a
      PROVE  Done(decisions', b) = Done(decisions, b)
  BY <1>2, <1>4, <1>7, <1>8 DEF Done
<1> QED BY <1>2, <1>3, <1>4, <1>6, <1>7, <1>8 DEF Actions

\* The rows of a plan that exists.
LEMMA RowsNow ==
  ASSUME NEW s, NEW cur, NEW app, NEW c, PlanIs(plan', s, cur, app, c),
         s \in PlanStatus \ {"absent"}, c \in Nat, cur \in Versions0, app \in Versions0,
         IsRun(run'), run'.status # "absent", s = "rejected" => run'.status \in TERMINAL_RUN_STATUSES,
         active' \in 1..cur, versions' \in Seq(Valid), Len(versions') = cur
  PROVE  Rows'
<1>1. /\ IsPlan(plan') /\ plan'.status = s /\ plan'.current = cur /\ plan'.approved = app
      /\ plan'.cas = c
  BY DEF PlanIs
<1>2. s \in PlanStatus /\ s # "absent"
  OBVIOUS
<1> QED BY <1>1, <1>2 DEF Rows

\* The attempts stay when versions are added and a later one becomes active.
LEMMA TableKept ==
  ASSUME Rows, Table, UNCHANGED attempts, Grows(versions, versions'),
         \A v \in VersionIds : v > active' => v > active
  PROVE  Table'
<1>1. KeepsResults(attempts, attempts')
  BY DEF KeepsResults
<1>2. ASSUME NEW v \in VersionIds, NEW k \in StepKeys
      PROVE  (v > active' => attempts'[v][k].n = 0) /\ Settled(versions', attempts', v, k)
  <2>1. Settled(versions', attempts', v, k)
    BY <1>1, SettledKept
  <2> QED BY <2>1, Typed
<1>3. attempts' \in [VersionIds -> [StepKeys -> Attempts]]
  BY DEF Table
<1> QED BY <1>2, <1>3 DEF Table

\* Nothing is under way.
Still == \A v \in VersionIds, k \in StepKeys : attempts[v][k].st # "running"

LEMMA StillReviewed ==
  ASSUME Alone, plan.status = "awaiting_approval"
  PROVE  Still
BY DEF Alone, Still

LEMMA StaysStill ==
  ASSUME Still, UNCHANGED attempts
  PROVE  Alone'
BY DEF Alone, Still

\* What the ledger says of a plan that exists.
Accounted(s, cur, app, c, ds) ==
  /\ c = cur + Cardinality(Done(ds, "approve") \cup Done(ds, "reject"))
  /\ Cardinality(Done(ds, "revise")) <= cur - 1
  /\ app > 0 => \E i \in Done(ds, "approve") : ds[i].version = app
  /\ s = "rejected" <=> Done(ds, "reject") # {}

LEMMA Counts ==
  ASSUME Rows, Ledger, plan.status # "absent"
  PROVE  /\ Accounted(plan.status, plan.current, plan.approved, plan.cas, decisions)
         /\ plan.cas \in Nat /\ plan.current \in Nat /\ plan.approved \in Nat
<1>1. plan.cas \in Nat /\ plan.current \in Nat /\ plan.approved \in Nat
  BY PlanConstants, SMT DEF Rows, Versions0
<1>2. EveryVersionAccounted /\ plan.status # "absent"
  BY DEF Ledger
<1>3. Accounted(plan.status, plan.current, plan.approved, plan.cas, decisions)
  BY ONLY <1>2 DEF EveryVersionAccounted, Accounted
<1> QED BY <1>1, <1>3

LEMMA LedgerNow ==
  ASSUME NEW s, NEW cur, NEW app, NEW c, PlanIs(plan', s, cur, app, c), s # "absent",
         DOMAIN decisions' = DecisionIds, \A i \in DecisionIds : decisions'[i].action \in Actions,
         Accounted(s, cur, app, c, decisions')
  PROVE  Ledger'
<1>1. plan'.status = s /\ plan'.current = cur /\ plan'.approved = app /\ plan'.cas = c
  BY DEF PlanIs
<1>2. Accounted(plan'.status, plan'.current, plan'.approved, plan'.cas, decisions')
  BY <1>1
<1>3. EveryVersionAccounted'
  BY ONLY <1>2 DEF EveryVersionAccounted, Accounted
<1>4. plan'.status # "absent"
  BY <1>1
<1> QED BY <1>3, <1>4 DEF Ledger, Actions

\* The decisions that took an action, and one more.
LEMMA DoneOneMore ==
  ASSUME NEW S, S \subseteq DecisionIds, NEW id \in DecisionIds, id \notin S
  PROVE  Cardinality(S) \in Nat /\ Cardinality(S \cup {id}) = Cardinality(S) + 1
BY OneMore, PlanConstants DEF DecisionIds

\* The ledger after each kind of decision, and after a revision nobody asked for.
LEMMA Ledgers ==
  ASSUME NEW s, NEW cur \in Nat, NEW app \in Nat, NEW c \in Nat, Ledger,
         Accounted(s, cur, app, c, decisions), s = "awaiting_approval", cur > 0,
         NEW id \in DecisionIds, NewDecision(id), NEW a \in Actions \ {"none"},
         decisions' = [decisions EXCEPT ![id] = [action |-> a, version |-> cur, cas |-> c]]
  PROVE  /\ a = "approve" => Accounted("approved", cur, cur, c + 1, decisions')
         /\ a = "reject" => Accounted("rejected", cur, app, c + 1, decisions')
         /\ a = "revise" => Accounted("awaiting_approval", cur + 1, app, c + 1, decisions')
<1> DEFINE D(b) == Done(decisions, b)
           E(b) == Done(decisions', b)
<1>1. /\ decisions'[id].version = cur
      /\ \A i \in DecisionIds : i # id => decisions'[i] = decisions[i]
      /\ E(a) = D(a) \cup {id}
      /\ \A b \in Actions \ {"none"} : id \notin D(b) /\ (b # a => E(b) = D(b))
  BY Decided
<1>2. /\ c = cur + Cardinality(D("approve") \cup D("reject")) /\ Cardinality(D("revise")) <= cur - 1
      /\ app > 0 => \E i \in D("approve") : decisions[i].version = app
      /\ D("reject") = {}
  BY DEF Accounted
<1>3. \A b : D(b) \subseteq DecisionIds
  BY DEF Done
<1>4. {"approve", "reject", "revise"} \subseteq Actions \ {"none"}
  BY DEF Actions
<1>5. app > 0 => \E i \in E("approve") : decisions'[i].version = app
  <2>1. SUFFICES ASSUME app > 0
                 PROVE  \E i \in E("approve") : decisions'[i].version = app
    OBVIOUS
  <2>2. PICK i \in D("approve") : decisions[i].version = app
    BY <1>2, <2>1
  <2>3. i # id /\ i \in DecisionIds
    BY <1>1, <1>3, <1>4
  <2>4. D("approve") \subseteq E("approve")
    BY <1>1, <1>4
  <2> QED BY <1>1, <2>2, <2>3, <2>4
<1> HIDE DEF D, E
<1>6. CASE a = "approve"
  <2>1. E("approve") \cup E("reject") = (D("approve") \cup D("reject")) \cup {id}
        /\ E("revise") = D("revise") /\ E("reject") = {} /\ id \in E("approve")
    BY <1>1, <1>2, <1>4, <1>6
  <2>2. id \notin D("approve") \cup D("reject") /\ D("approve") \cup D("reject") \subseteq DecisionIds
    BY <1>1, <1>3, <1>4
  <2>3. Cardinality(E("approve") \cup E("reject")) = Cardinality(D("approve") \cup D("reject")) + 1
        /\ Cardinality(D("approve") \cup D("reject")) \in Nat
    BY <2>1, <2>2, DoneOneMore
  <2>4. c + 1 = cur + Cardinality(E("approve") \cup E("reject")) /\ Cardinality(E("revise")) <= cur - 1
    BY <1>2, <2>1, <2>3, SMT
  <2> QED BY <1>1, <1>6, <2>1, <2>4 DEF Accounted, E
<1>7. CASE a = "reject"
  <2>1. E("approve") \cup E("reject") = (D("approve") \cup D("reject")) \cup {id}
        /\ E("revise") = D("revise") /\ E("reject") # {}
    BY <1>1, <1>2, <1>4, <1>7
  <2>2. id \notin D("approve") \cup D("reject") /\ D("approve") \cup D("reject") \subseteq DecisionIds
    BY <1>1, <1>3, <1>4
  <2>3. Cardinality(E("approve") \cup E("reject")) = Cardinality(D("approve") \cup D("reject")) + 1
        /\ Cardinality(D("approve") \cup D("reject")) \in Nat
    BY <2>1, <2>2, DoneOneMore
  <2>4. c + 1 = cur + Cardinality(E("approve") \cup E("reject")) /\ Cardinality(E("revise")) <= cur - 1
    BY <1>2, <2>1, <2>3, SMT
  <2> QED BY <1>5, <1>7, <2>1, <2>4 DEF Accounted, E
<1>8. CASE a = "revise"
  <2>1. E("approve") \cup E("reject") = D("approve") \cup D("reject")
        /\ E("revise") = D("revise") \cup {id} /\ E("reject") = {}
    BY <1>1, <1>2, <1>4, <1>8
  <2>2. id \notin D("approve") \cup D("reject") /\ D("approve") \cup D("reject") \subseteq DecisionIds
        /\ id \notin D("revise") /\ D("revise") \subseteq DecisionIds
    BY <1>1, <1>3, <1>4
  <2>3. Cardinality(E("revise")) = Cardinality(D("revise")) + 1
        /\ Cardinality(D("approve") \cup D("reject")) \in Nat /\ Cardinality(D("revise")) \in Nat
    BY <2>1, <2>2, DoneOneMore
  <2>4. PICK x \in Nat, y \in Nat : x = Cardinality(D("approve") \cup D("reject")) /\ y = Cardinality(D("revise"))
    BY <2>3
  <2>5. c = cur + x /\ y <= cur - 1
    BY <1>2, <2>4
  <2>6. c + 1 = (cur + 1) + x /\ y + 1 <= (cur + 1) - 1
    BY ONLY <2>5, cur \in Nat, x \in Nat, y \in Nat, SMT
  <2>7. c + 1 = (cur + 1) + Cardinality(E("approve") \cup E("reject"))
        /\ Cardinality(E("revise")) <= (cur + 1) - 1
    BY <2>1, <2>3, <2>4, <2>6
  <2> QED BY <1>5, <1>8, <2>1, <2>7 DEF Accounted, E
<1> QED BY <1>6, <1>7, <1>8

LEMMA RowIs ==
  ASSUME NEW s \in RunStatus, NEW c \in BOOLEAN, run' = RunRow(s, c, "live")
  PROVE  IsRun(run') /\ run'.status = s /\ run'.status # "absent"
<1>1. run'.status = s /\ run'.cancel = c /\ run'.lease = "live"
      /\ run' = RunRow(run'.status, run'.cancel, run'.lease)
  BY DEF RunRow
<1>2. s # "absent"
  BY DEF RunStatus, ActiveRunStatuses, TERMINAL_RUN_STATUSES
<1> QED BY <1>1, <1>2 DEF IsRun

LEMMA ProposesKeepsStore ==
  ASSUME Store, NEW d, Proposes(d)
  PROVE  Store'
<1>1. Rows /\ Table /\ Alone /\ Ledger /\ run.status = "absent" /\ d \in Valid
      /\ UNCHANGED <<decisions, attempts>> /\ active' = 1 /\ versions' = <<d>>
  BY DEF Store, Proposes, create
<1>2. plan.status = "absent" /\ active = 0 /\ plan.current = 0 /\ Len(versions) = 0
  BY <1>1 DEF Rows
<1>3. PICK one, s : one = 1 /\ s = "awaiting_approval"
  OBVIOUS
<1>4. PlanIs(plan', s, one, 0, one)
  <2>1. plan' = PlanOf(s, one, 0, one)
    BY <1>3 DEF Proposes, create, PlanOf
  <2> QED BY <2>1, PlanFields
<1>5. /\ versions' \in Seq(Valid) /\ Len(versions') = one /\ one \in Versions0 /\ 0 \in Versions0
      /\ active' \in 1..one /\ one \in Nat /\ 1..0 = {}
  <2>1. PICK V : V = Valid
    OBVIOUS
  <2>2. d \in V /\ versions' = <<d>> /\ active' = 1
    BY <1>1, <2>1
  <2>3. versions' \in Seq(V) /\ Len(versions') = 1 /\ 1 \in 0..(MaxRevisions + 1)
        /\ 0 \in 0..(MaxRevisions + 1) /\ active' \in 1..1 /\ 1 \in Nat /\ 1..0 = {}
    BY ONLY <2>2, PlanConstants, SMT
  <2> QED BY <1>3, <2>1, <2>3 DEF Versions0
<1>6. IsRun(run') /\ run'.status # "absent"
  <2>1. "awaiting_user" \in RunStatus /\ FALSE \in BOOLEAN
    BY DEF RunStatus, ActiveRunStatuses
  <2> QED BY <2>1, RowIs DEF Proposes
<1>7. s \in PlanStatus \ {"absent"} /\ s # "rejected"
  BY <1>3 DEF PlanStatus
<1>8. Rows'
  BY <1>4, <1>5, <1>6, <1>7, RowsNow
<1>9. \A v \in VersionIds, k \in StepKeys : attempts[v][k].n = 0
  <2>1. \A v \in VersionIds : v > 0
    BY SMT DEF VersionIds
  <2> QED BY <1>1, <1>2, <2>1, Typed
<1>10. Table'
  <2>1. Grows(versions, versions')
    BY <1>2, <1>5 DEF Grows
  <2>2. \A v \in VersionIds : v > active
    BY <1>2, SMT DEF VersionIds
  <2> QED BY <1>1, <2>1, <2>2, TableKept
<1>11. Alone'
  <2>1. ASSUME NEW v \in VersionIds, NEW k \in StepKeys
        PROVE  attempts[v][k].st # "running"
    <3>1. attempts[v][k].n = 0 /\ Settled(versions, attempts, v, k)
      BY <1>1, <1>9, Typed
    <3> QED BY <3>1 DEF Settled
  <2> QED BY <1>1, <2>1, StaysStill DEF Still
<1>12. Ledger'
  <2>1. \A a \in {"approve", "reject", "revise"} : Done(decisions', a) = {}
    BY <1>1, <1>2 DEF Ledger, Done
  <2>2. /\ Done(decisions', "approve") \cup Done(decisions', "reject") = {}
        /\ Done(decisions', "revise") = {} /\ Done(decisions', "reject") = {}
    BY <2>1
  <2>3. 1 = 1 + Cardinality({}) /\ Cardinality({}) <= 1 - 1 /\ ~(0 > 0)
    BY NoMore, SMT
  <2>4. Accounted(s, one, 0, one, decisions')
    BY <1>3, <1>7, <2>2, <2>3 DEF Accounted
  <2>5. DOMAIN decisions' = DecisionIds /\ \A i \in DecisionIds : decisions'[i].action \in Actions
    BY <1>1 DEF Ledger, Actions
  <2> QED BY <1>4, <1>7, <2>4, <2>5, LedgerNow
<1> QED BY <1>8, <1>10, <1>11, <1>12 DEF Store

\* A plan that exists, in numbers.
LEMMA PlanNumbers ==
  ASSUME Rows, plan.status # "absent"
  PROVE  /\ plan.cas \in Nat /\ plan.current \in Nat /\ plan.approved \in Nat /\ plan.cas + 1 \in Nat
         /\ plan.current > 0 /\ plan.current \in 1..plan.current /\ active \in 1..plan.current
         /\ plan.current \in Versions0 /\ plan.approved \in Versions0 /\ plan.current \in VersionIds
         /\ active \in Nat /\ active <= plan.current
<1>1. /\ plan.cas \in Nat /\ plan.current \in Versions0 /\ plan.approved \in Versions0
      /\ active \in 1..plan.current
  BY DEF Rows
<1> QED BY ONLY <1>1, PlanConstants, SMT DEF Versions0, VersionIds

LEMMA Appended ==
  ASSUME Rows, NEW d \in Valid, append_version(d), plan.status # "absent",
         plan.current - 1 < MaxRevisions
  PROVE  /\ PlanIs(plan', "awaiting_approval", plan.current + 1, plan.approved, plan.cas + 1)
         /\ versions' \in Seq(Valid) /\ Len(versions') = plan.current + 1 /\ Grows(versions, versions')
         /\ plan.current + 1 \in Versions0 /\ active \in 1..(plan.current + 1)
<1>1. PlanIs(plan', "awaiting_approval", plan.current + 1, plan.approved, plan.cas + 1)
  <2>1. PICK s, x, c : s = "awaiting_approval" /\ x = plan.current + 1 /\ c = plan.cas + 1
    OBVIOUS
  <2>2. plan' = WithCas(WithCurrent(WithStatus(plan, s), x), c)
    BY <2>1 DEF append_version, WithCas, WithCurrent, WithStatus
  <2>3. IsPlan(plan)
    BY DEF Rows
  <2>4. PlanIs(WithCas(WithCurrent(WithStatus(plan, s), x), c), s, x, plan.approved, c)
    BY <2>3, PlanSet
  <2> QED BY <2>1, <2>2, <2>4
<1>2. versions' \in Seq(Valid) /\ Len(versions') = plan.current + 1 /\ Grows(versions, versions')
  <2>1. PICK V : V = Valid
    OBVIOUS
  <2>2. d \in V /\ versions \in Seq(V) /\ versions' = Append(versions, d) /\ Len(versions) = plan.current
    BY <2>1 DEF append_version, insert_version, Rows
  <2>3. versions' \in Seq(V) /\ Len(versions') = plan.current + 1
        /\ \A v \in 1..Len(versions) : versions'[v] = versions[v]
    BY ONLY <2>2, SMT
  <2> QED BY <2>1, <2>3 DEF Grows
<1>3. plan.current + 1 \in Versions0 /\ active \in 1..(plan.current + 1)
  <2>1. plan.current \in Nat /\ active \in 1..plan.current
    BY PlanNumbers
  <2> QED BY ONLY <2>1, plan.current - 1 < MaxRevisions, PlanConstants, SMT DEF Versions0
<1> QED BY <1>1, <1>2, <1>3

\* What a recorded decision writes.
LEMMA Recorded ==
  ASSUME Store, NEW id \in DecisionIds, NEW a \in {"approve", "reject"}, NEW v, NEW c,
         record_decision(id, a, v, c)
  PROVE  /\ v = plan.current /\ c = plan.cas /\ plan.status = "awaiting_approval" /\ Ledger'
         /\ a = "approve" => PlanIs(plan', "approved", plan.current, plan.current, plan.cas + 1)
         /\ a = "reject" => PlanIs(plan', "rejected", plan.current, plan.approved, plan.cas + 1)
<1>1. /\ Rows /\ Ledger /\ NewDecision(id) /\ v = plan.current /\ c = plan.cas
      /\ plan.status = "awaiting_approval"
      /\ decisions' = [decisions EXCEPT ![id] = [action |-> a, version |-> v, cas |-> c]]
  BY DEF Store, record_decision, CurrentDecisionTarget
<1>2. a = "approve" => PlanIs(plan', "approved", plan.current, plan.current, plan.cas + 1)
  <2>1. SUFFICES ASSUME a = "approve"
                 PROVE  PlanIs(plan', "approved", plan.current, plan.current, plan.cas + 1)
    OBVIOUS
  <2>2. PICK s, e : s = "approved" /\ e = plan.cas + 1
    OBVIOUS
  <2>3. plan' = WithCas(WithApproved(WithStatus(plan, s), v), e)
    BY <1>1, <2>1, <2>2 DEF record_decision, WithCas, WithApproved, WithStatus
  <2>4. PlanIs(WithCas(WithApproved(WithStatus(plan, s), v), e), s, plan.current, v, e)
    BY <1>1, PlanSet DEF Rows
  <2> QED BY <1>1, <2>2, <2>3, <2>4
<1>3. a = "reject" => PlanIs(plan', "rejected", plan.current, plan.approved, plan.cas + 1)
  <2>1. SUFFICES ASSUME a = "reject"
                 PROVE  PlanIs(plan', "rejected", plan.current, plan.approved, plan.cas + 1)
    OBVIOUS
  <2>2. PICK s, e : s = "rejected" /\ e = plan.cas + 1
    OBVIOUS
  <2>3. plan' = WithCas(WithStatus(plan, s), e)
    BY <1>1, <2>1, <2>2 DEF record_decision, WithCas, WithStatus
  <2>4. PlanIs(WithCas(WithStatus(plan, s), e), s, plan.current, plan.approved, e)
    BY <1>1, PlanSet DEF Rows
  <2> QED BY <2>2, <2>3, <2>4
<1>4. /\ Accounted(plan.status, plan.current, plan.approved, plan.cas, decisions) /\ plan.current > 0
      /\ plan.cas \in Nat /\ plan.current \in Nat /\ plan.approved \in Nat
  BY <1>1, Counts, PlanNumbers
<1>5. a \in Actions \ {"none"}
  BY DEF Actions
<1>6. DOMAIN decisions' = DecisionIds /\ \A i \in DecisionIds : decisions'[i].action \in Actions
  BY <1>1, <1>5, Decided
<1>7. /\ a = "approve" => Accounted("approved", plan.current, plan.current, plan.cas + 1, decisions')
      /\ a = "reject" => Accounted("rejected", plan.current, plan.approved, plan.cas + 1, decisions')
  BY <1>1, <1>4, <1>5, Ledgers
<1>8. Ledger'
  <2>1. CASE a = "approve"
    <3>1. PICK s, e : s = "approved" /\ e = plan.cas + 1
      OBVIOUS
    <3>2. s # "absent"
      BY <3>1
    <3> QED BY <1>2, <1>6, <1>7, <2>1, <3>1, <3>2, LedgerNow
  <2>2. CASE a = "reject"
    <3>1. PICK s, e : s = "rejected" /\ e = plan.cas + 1
      OBVIOUS
    <3>2. s # "absent"
      BY <3>1
    <3> QED BY <1>3, <1>6, <1>7, <2>2, <3>1, <3>2, LedgerNow
  <2> QED BY <2>1, <2>2
<1> QED BY <1>1, <1>2, <1>3, <1>8

LEMMA ApprovesKeepsStore ==
  ASSUME Store, NEW id, NEW v, NEW c, Approves(id, v, c)
  PROVE  Store'
<1>1. /\ Rows /\ Table /\ Alone /\ UNCHANGED <<versions, attempts>> /\ active' = v
      /\ run' = RunRow("resuming", run.cancel, "live")
  BY DEF Store, Approves
<1>2. /\ v = plan.current /\ plan.status = "awaiting_approval" /\ Ledger'
      /\ PlanIs(plan', "approved", plan.current, plan.current, plan.cas + 1)
  <2>1. PICK a \in {"approve", "reject"} : a = "approve"
    OBVIOUS
  <2> QED BY <2>1, Recorded DEF Approves
<1>3. /\ plan.cas + 1 \in Nat /\ plan.current \in 1..plan.current /\ plan.current \in Versions0
      /\ active \in Nat /\ plan.current \in Nat /\ active <= plan.current
  BY <1>1, <1>2, PlanNumbers
<1>4. IsRun(run') /\ run'.status # "absent"
  <2>1. "resuming" \in RunStatus /\ run.cancel \in BOOLEAN
    BY <1>1 DEF RunStatus, ActiveRunStatuses, Rows, IsRun
  <2> QED BY <1>1, <2>1, RowIs
<1>5. Rows'
  <2>1. PICK s, e : s = "approved" /\ e = plan.cas + 1
    OBVIOUS
  <2>2. s \in PlanStatus \ {"absent"} /\ s # "rejected"
    BY <2>1 DEF PlanStatus
  <2>3. versions' \in Seq(Valid) /\ Len(versions') = plan.current
    BY <1>1 DEF Rows
  <2> QED BY <1>1, <1>2, <1>3, <1>4, <2>1, <2>2, <2>3, RowsNow
<1>6. Table'
  <2>1. \A u \in VersionIds : u > active' => u > active
    <3>1. active' = plan.current
      BY <1>1, <1>2
    <3> QED BY ONLY <1>3, <3>1, SMT DEF VersionIds
  <2>2. Grows(versions, versions')
    BY <1>1 DEF Grows
  <2> QED BY <1>1, <2>1, <2>2, TableKept
<1>7. Alone'
  BY <1>1, <1>2, StillReviewed, StaysStill
<1> QED BY <1>2, <1>5, <1>6, <1>7 DEF Store

LEMMA RejectsKeepsStore ==
  ASSUME Store, NEW id, NEW v, NEW c, Rejects(id, v, c)
  PROVE  Store'
<1>1. /\ Rows /\ Table /\ Alone /\ UNCHANGED <<versions, attempts, active>>
      /\ run' = RunRow("cancelled", run.cancel, "live")
  BY DEF Store, Rejects
<1>2. /\ plan.status = "awaiting_approval" /\ Ledger'
      /\ PlanIs(plan', "rejected", plan.current, plan.approved, plan.cas + 1)
  <2>1. PICK a \in {"approve", "reject"} : a = "reject"
    OBVIOUS
  <2> QED BY <2>1, Recorded DEF Rejects
<1>3. /\ plan.cas + 1 \in Nat /\ active \in 1..plan.current /\ plan.current \in Versions0
      /\ plan.approved \in Versions0
  BY <1>1, <1>2, PlanNumbers
<1>4. IsRun(run') /\ run'.status # "absent" /\ run'.status \in TERMINAL_RUN_STATUSES
  <2>1. "cancelled" \in RunStatus /\ run.cancel \in BOOLEAN /\ "cancelled" \in TERMINAL_RUN_STATUSES
    BY <1>1 DEF RunStatus, TERMINAL_RUN_STATUSES, Rows, IsRun
  <2> QED BY <1>1, <2>1, RowIs
<1>5. Rows'
  <2>1. PICK s, e : s = "rejected" /\ e = plan.cas + 1
    OBVIOUS
  <2>2. s \in PlanStatus \ {"absent"}
    BY <2>1 DEF PlanStatus
  <2>3. versions' \in Seq(Valid) /\ Len(versions') = plan.current
    BY <1>1 DEF Rows
  <2> QED BY <1>1, <1>2, <1>3, <1>4, <2>1, <2>2, <2>3, RowsNow
<1>6. Table'
  <2>1. Grows(versions, versions')
    BY <1>1 DEF Grows
  <2> QED BY <1>1, <2>1, TableKept
<1>7. Alone'
  BY <1>1, <1>2, StillReviewed, StaysStill
<1> QED BY <1>2, <1>5, <1>6, <1>7 DEF Store

\* A version is added for review, whoever asked for it.
LEMMA AppendKeeps ==
  ASSUME Store, NEW d \in Valid, append_version(d), plan.status # "absent",
         plan.current - 1 < MaxRevisions, Still, UNCHANGED <<active, attempts>>,
         run.cancel \in BOOLEAN, run' = RunRow("awaiting_user", run.cancel, "live")
  PROVE  Rows' /\ Table' /\ Alone'
<1>1. Rows /\ Table
  BY DEF Store
<1>2. PICK s, cur, e : s = "awaiting_approval" /\ cur = plan.current + 1 /\ e = plan.cas + 1
  OBVIOUS
<1>3. /\ PlanIs(plan', s, cur, plan.approved, e)
      /\ versions' \in Seq(Valid) /\ Len(versions') = cur /\ Grows(versions, versions')
      /\ cur \in Versions0 /\ active \in 1..cur
  BY <1>1, <1>2, Appended
<1>4. e \in Nat /\ plan.approved \in Versions0
  BY <1>1, <1>2, PlanNumbers
<1>5. IsRun(run') /\ run'.status # "absent"
  <2>1. "awaiting_user" \in RunStatus
    BY DEF RunStatus, ActiveRunStatuses
  <2> QED BY <2>1, RowIs
<1>6. s \in PlanStatus \ {"absent"} /\ s # "rejected"
  BY <1>2 DEF PlanStatus
<1>7. active' \in 1..cur
  BY <1>3
<1>8. Rows'
  BY <1>3, <1>4, <1>5, <1>6, <1>7, RowsNow
<1>9. Table'
  BY <1>1, <1>3, TableKept
<1> QED BY <1>8, <1>9, StaysStill

LEMMA RevisesKeepsStore ==
  ASSUME Store, NEW id, NEW v, NEW c, NEW d, Revises(id, v, c, d)
  PROVE  Store'
<1>1. /\ Rows /\ Alone /\ Ledger /\ d \in Valid /\ id \in DecisionIds /\ NewDecision(id)
      /\ v = plan.current /\ c = plan.cas /\ plan.status = "awaiting_approval"
      /\ decisions' = [decisions EXCEPT ![id] = [action |-> "revise", version |-> v, cas |-> c]]
      /\ append_version(d) /\ plan.current - 1 < MaxRevisions /\ UNCHANGED <<active, attempts>>
      /\ run' = RunRow("awaiting_user", run.cancel, "live")
  BY DEF Store, Revises, begin_revision_decision, finish_revision_decision, CurrentDecisionTarget
<1>2. Still /\ run.cancel \in BOOLEAN /\ plan.status # "absent"
  BY <1>1, StillReviewed DEF Rows, IsRun
<1>3. Rows' /\ Table' /\ Alone'
  BY <1>1, <1>2, AppendKeeps
<1>4. /\ Accounted(plan.status, plan.current, plan.approved, plan.cas, decisions) /\ plan.current > 0
      /\ plan.cas \in Nat /\ plan.current \in Nat /\ plan.approved \in Nat
  BY <1>1, <1>2, Counts, PlanNumbers
<1>5. PICK a \in Actions \ {"none"} : a = "revise"
  BY DEF Actions
<1>6. PICK s, cur, e : s = "awaiting_approval" /\ cur = plan.current + 1 /\ e = plan.cas + 1
  OBVIOUS
<1>7. DOMAIN decisions' = DecisionIds /\ \A i \in DecisionIds : decisions'[i].action \in Actions
  BY <1>1, <1>5, Decided
<1>8. Accounted(s, cur, plan.approved, e, decisions')
  BY <1>1, <1>4, <1>5, <1>6, Ledgers
<1>9. PlanIs(plan', s, cur, plan.approved, e) /\ s # "absent"
  BY <1>1, <1>2, <1>6, Appended
<1>10. Ledger'
  BY <1>7, <1>8, <1>9, LedgerNow
<1> QED BY <1>3, <1>10 DEF Store

LEMMA ReplansKeepsStore ==
  ASSUME Store, NEW k, NEW d, Replans(k, d)
  PROVE  Store' /\ Still
<1>1. /\ Rows /\ Ledger /\ Runs /\ k \in StepKeys /\ attempts[active][k].st = "failed_terminal"
      /\ d \in Valid /\ append_version(d) /\ plan.current - 1 < MaxRevisions
      /\ UNCHANGED <<decisions, active, attempts>> /\ run' = RunRow("awaiting_user", run.cancel, "live")
  BY DEF Store, Replans, Latest
<1>2. plan.status \in {"awaiting_approval", "approved"} /\ run.cancel \in BOOLEAN
  BY <1>1, RunHasPlan DEF Rows, IsRun
<1>3. Still
  <2>1. SUFFICES ASSUME NEW v \in VersionIds, NEW j \in StepKeys, attempts[v][j].st = "running"
                 PROVE  FALSE
    BY DEF Still
  <2>2. v = active /\ \A i \in StepKeys : attempts[v][i].st \in Under => i = j
    BY <2>1, OnlyRunning DEF Under
  <2>3. "failed_terminal" \in Under
    BY DEF Under, TERMINAL_PLAN_STEP_STATUSES
  <2> QED BY <1>1, <2>1, <2>2, <2>3
<1>4. Rows' /\ Table' /\ Alone'
  BY <1>1, <1>2, <1>3, AppendKeeps
<1>5. /\ Accounted(plan.status, plan.current, plan.approved, plan.cas, decisions)
      /\ plan.cas \in Nat /\ plan.current \in Nat
  BY <1>1, <1>2, Counts
<1>6. PICK s, cur, e : s = "awaiting_approval" /\ cur = plan.current + 1 /\ e = plan.cas + 1
  OBVIOUS
<1>7. Accounted(s, cur, plan.approved, e, decisions)
  <2>1. PICK x, y : /\ x = Cardinality(Done(decisions, "approve") \cup Done(decisions, "reject"))
                    /\ y = Cardinality(Done(decisions, "revise"))
    OBVIOUS
  <2>2. x \in Nat /\ y \in Nat
    <3>1. \A a : Done(decisions, a) \subseteq 1..MaxDecisions
      BY DEF Done, DecisionIds
    <3>2. Done(decisions, "approve") \cup Done(decisions, "reject") \subseteq 1..MaxDecisions
      BY <3>1
    <3> QED BY <2>1, <3>1, <3>2, SomeMany, PlanConstants
  <2>3. plan.cas = plan.current + x /\ y <= plan.current - 1
    BY <1>5, <2>1 DEF Accounted
  <2>4. e = cur + x /\ y <= cur - 1
    BY ONLY <1>5, <1>6, <2>2, <2>3, SMT
  <2>5. Done(decisions, "reject") = {}
    BY <1>2, <1>5 DEF Accounted
  <2>6. plan.approved > 0 => \E i \in Done(decisions, "approve") : decisions[i].version = plan.approved
    BY <1>5 DEF Accounted
  <2>7. s # "rejected"
    BY <1>6
  <2> QED BY <2>1, <2>4, <2>5, <2>6, <2>7 DEF Accounted
<1>8. PlanIs(plan', s, cur, plan.approved, e) /\ s # "absent"
  BY <1>1, <1>2, <1>6, Appended
<1>9. /\ DOMAIN decisions' = DecisionIds /\ Accounted(s, cur, plan.approved, e, decisions')
      /\ \A i \in DecisionIds : decisions'[i].action \in Actions
  BY <1>1, <1>7 DEF Ledger, Actions
<1>10. Ledger'
  BY <1>8, <1>9, LedgerNow
<1> QED BY <1>3, <1>4, <1>10 DEF Store

\* Before the first attempt of a run.
LEMMA NothingAttempted ==
  ASSUME NEW vs, NEW att, att = NoAttempts
  PROVE  /\ att \in [VersionIds -> [StepKeys -> Attempts]]
         /\ \A v \in VersionIds, k \in StepKeys :
              att[v][k].n = 0 /\ att[v][k].st = "none" /\ Settled(vs, att, v, k)
<1>1. PICK x : x = Attempt(0, "none", 0)
  OBVIOUS
<1>2. x \in Attempts /\ x.n = 0 /\ x.st = "none" /\ x.from = 0
  <2>1. 0 \in 0..MaxStepAttempts /\ "none" \in PlanStepRunStatus /\ 0 \in 0..MaxRevisions
    BY PlanConstants, SMT DEF PlanStepRunStatus
  <2> QED BY ONLY <1>1, <2>1, AttemptIs, SMT
<1>3. \A v \in VersionIds, k \in StepKeys : att[v][k] = x
  BY <1>1 DEF NoAttempts
<1>4. att \in [VersionIds -> [StepKeys -> Attempts]]
  BY <1>1, <1>2, SMT DEF NoAttempts
<1>5. ~(0 > 0)
  BY SMT
<1> QED BY <1>2, <1>3, <1>4, <1>5 DEF Settled

LEMMA RerunsKeepsStore ==
  ASSUME Store, Reruns
  PROVE  Store'
<1>1. /\ Rows /\ Ledger /\ plan.status = "approved" /\ UNCHANGED <<plan, versions, decisions>>
      /\ active' = plan.current /\ attempts' = NoAttempts /\ run' = RunRow("running", FALSE, "live")
  BY DEF Store, Reruns
<1>2. IsRun(run') /\ run'.status # "absent"
  <2>1. "running" \in RunStatus /\ FALSE \in BOOLEAN
    BY DEF RunStatus, ActiveRunStatuses
  <2> QED BY <1>1, <2>1, RowIs
<1>3. plan.current \in 1..plan.current
  BY <1>1, PlanNumbers
<1>4. Rows'
  BY <1>1, <1>2, <1>3 DEF Rows
<1>5. Table' /\ Alone'
  BY <1>1, NothingAttempted DEF Table, Alone
<1>6. Ledger'
  BY <1>1 DEF Ledger, EveryVersionAccounted
<1> QED BY <1>4, <1>5, <1>6 DEF Store

-----------------------------------------------------------------------------
(* The actions that change plan, versions, decisions or attempts *)

\* The step chosen is one of the active version, ready and within its attempts.
LEMMA Chosen ==
  ASSUME Store, Runs, ReadySteps # {}, NEW k, k = choose_ready_step,
         ~(Latest[k].n >= AttemptLimit(k))
  PROVE  /\ k \in Keys(Steps) /\ k \in StepKeys /\ is_plan_step_ready(k)
         /\ Latest[k].n + 1 <= MaxStepAttempts
<1>1. Rows /\ Table
  BY DEF Store
<1>2. InOrder(Steps) /\ active \in VersionIds
  BY <1>1, RunHasPlan
<1>3. ReadySteps \subseteq Nat
  <2>1. PICK S : S = {Steps[i] : i \in DOMAIN Steps}
    OBVIOUS
  <2>2. Steps \in Seq(S)
    BY <1>2, <2>1 DEF InOrder
  <2> QED BY <2>2, Indices DEF ReadySteps
<1>4. PICK i \in ReadySteps : i = Min(ReadySteps)
  BY <1>3, MinOf
<1>5. i \in DOMAIN Steps /\ k = Steps[i].key /\ is_plan_step_ready(k)
  BY <1>4 DEF ReadySteps, choose_ready_step
<1>6. k \in Keys(Steps)
  BY <1>5 DEF Keys
<1>7. k \in StepKeys /\ StepOf(Steps, k).limit \in Nat
  BY <1>2, <1>6, DepsAreKeys
<1>8. Latest[k].n \in Nat
  BY <1>1, <1>2, <1>7, Typed DEF Latest
<1>9. Latest[k].n + 1 <= MaxStepAttempts
  <2>1. PICK m, S : m = AttemptLimit(k) /\ S = {StepOf(Steps, k).limit, MaxStepAttempts}
    OBVIOUS
  <2>2. m \in S /\ \A y \in S : m <= y
    <3>1. S \subseteq Nat /\ S # {}
      BY <1>7, <2>1, PlanConstants
    <3>2. m = Min(S)
      BY <2>1 DEF AttemptLimit
    <3> QED BY <3>1, <3>2, Least DEF Min
  <2>3. m \in Nat /\ m <= MaxStepAttempts
    BY <1>7, <2>1, <2>2, PlanConstants
  <2>4. ~(Latest[k].n >= m)
    BY <2>1
  <2> QED BY ONLY <1>8, <2>3, <2>4, PlanConstants, SMT
<1> QED BY <1>5, <1>6, <1>7, <1>9

=============================================================================
