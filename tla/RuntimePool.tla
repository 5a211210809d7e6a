---------------------------- MODULE RuntimePool ----------------------------
(***************************************************************************)
(* The runtimes of the tenants, at most MaxResident of them in memory      *)
(* (runtime/pool.py), and the counters that tell whether one may be        *)
(* evicted (runtime/models.py, runtime/factory.py).                        *)
(*                                                                         *)
(* Callers are asyncio tasks.  A task runs until it is suspended: in the   *)
(* queue of a lock that is taken, in the creation of a runtime, or while   *)
(* it uses one.  Closing a runtime and taking a free lock do not suspend:  *)
(* `turn` is the task that goes on running.  A lock is the FIFO queue of   *)
(* its holder and its waiters.                                             *)
(***************************************************************************)
EXTENDS Integers, Sequences, FiniteSetsExt

CONSTANTS Tenants, Callers,
          MaxResident,   \* max_resident_tenants
          MaxOps         \* bound: operations begun

ASSUME PoolConstants == IsFiniteSet(Tenants) /\ IsFiniteSet(Callers) /\ "capacity" \notin Tenants

VARIABLES resident,   \* [Tenants -> runtime or NoRuntime]
          locks,      \* [Tenants \cup {"capacity"} -> Seq(Callers)]
          caller,     \* [Callers -> local state]
          rows,       \* [Tenants -> what the database says of the tenant's run]
          poolClosed, ops,
          turn        \* the caller that has not been suspended, or NoOne

poolVars == <<resident, locks, caller, rows, poolClosed, ops, turn>>

NoRuntime == [id |-> 0, available |-> FALSE, idle |-> FALSE,
              active |-> 0, executing |-> 0, checkpointed |-> 0, tools |-> 0]
AtRest == [at |-> "rest", tenant |-> "none", victims |-> <<>>, id |-> 0, recovery |-> FALSE]

NoOne == "nobody"

Resident == {t \in Tenants : resident[t] # NoRuntime}
Snapshot(order) == [i \in DOMAIN order |-> <<order[i], resident[order[i]].id>>]
Orders(S) == {o \in [1..Cardinality(S) -> S] : \A i, j \in 1..Cardinality(S) : o[i] = o[j] => i = j}

Holds(p, l) == locks[l] # <<>> /\ Head(locks[l]) = p
Join(q, p, l) == [q EXCEPT ![l] = Append(@, p)]
Release(q, ls) == [l \in DOMAIN q |-> IF l \in ls THEN Tail(q[l]) ELSE q[l]]

\* The lock a caller goes for next.
Awaited(c) ==
  CASE c.at \in {"acquire", "revoke"} -> c.tenant
    [] c.at \in {"capacity", "close"} -> "capacity"
    [] c.at \in {"evict", "close_one"} -> Head(c.victims)[1]
    [] OTHER -> "none"

\* The step of a caller that may run; it runs on if the lock it asks for is free.
Turn(p) ==
  /\ turn \in {p, NoOne}
  /\ turn' = IF Awaited(caller'[p]) # "none" /\ Head(locks'[Awaited(caller'[p])]) = p
             THEN p ELSE NoOne

----------------------------------------------------------------------------
(* A runtime *)

\* Mutant: the runs that execute are not counted.
EvictThoughExecuting(r) ==
  /\ r.idle
  /\ r.active = 0 \/ (r.tools = 0 /\ r.checkpointed <= r.active)

can_evict(r) ==
  /\ r.idle /\ r.executing = 0
  /\ r.active = 0 \/ (r.active = r.checkpointed /\ r.tools = 0)

touch(r) == [r EXCEPT !.idle = FALSE]

\* What the rows of a tenant amount to.
get_runtime_counters(row) ==
  [active |-> IF row = "none" THEN 0 ELSE 1,
   executing |-> IF row = "executing" THEN 1 ELSE 0,
   checkpointed |-> IF row = "waiting" THEN 1 ELSE 0]

apply_workflow_counters(r, counters) ==
  [r EXCEPT !.active = counters.active, !.executing = counters.executing,
            !.checkpointed = counters.checkpointed]

\* The runtime the caller was given, if it is still there and usable.
Usable(p) ==
  LET r == resident[caller[p].tenant] IN r.id = caller[p].id /\ r.available

Counted(p, r) ==
  IF resident[caller[p].tenant].id = caller[p].id
  THEN resident' = [resident EXCEPT ![caller[p].tenant] = touch(r)]
  ELSE UNCHANGED resident   \* a runtime nobody can reach any more

begin_run(p) ==
  LET r == resident[caller[p].tenant] IN
  /\ caller[p].at = "given"
  /\ IF Usable(p)
     THEN /\ Counted(p, [r EXCEPT !.active = @ + 1, !.executing = @ + 1])
          /\ caller' = [caller EXCEPT ![p].at = "run"]
     ELSE caller' = [caller EXCEPT ![p] = AtRest] /\ UNCHANGED resident
  /\ UNCHANGED <<locks, rows, poolClosed, ops>>

mark_tool_execution_started(p) ==
  /\ caller[p].at = "run"
  /\ Counted(p, [resident[caller[p].tenant] EXCEPT !.tools = @ + 1])
  /\ caller' = [caller EXCEPT ![p].at = "tool"]
  /\ UNCHANGED <<locks, rows, poolClosed, ops>>

mark_tool_execution_finished(p) ==
  /\ caller[p].at = "tool"
  /\ Counted(p, [resident[caller[p].tenant] EXCEPT !.tools = @ - 1])
  /\ caller' = [caller EXCEPT ![p].at = "run"]
  /\ UNCHANGED <<locks, rows, poolClosed, ops>>

\* The run waits for an approval, its checkpoint persisted.
mark_awaiting_user(p) ==
  LET r == resident[caller[p].tenant] IN
  /\ caller[p].at = "run"
  /\ Counted(p, [r EXCEPT !.executing = @ - 1, !.checkpointed = @ + 1])
  /\ caller' = [caller EXCEPT ![p].at = "waiting"]
  /\ UNCHANGED <<locks, rows, poolClosed, ops>>

\* RuntimeExecutionLease.close; a recovery has brought the crashed run to its end.
EndRun(p) ==
  LET r == resident[caller[p].tenant]
      at == caller[p].at
  IN /\ at \in {"run", "tool", "waiting"}
     /\ Counted(p, [r EXCEPT !.active = @ - 1,
                             !.executing = IF at = "waiting" THEN @ ELSE @ - 1,
                             !.checkpointed = IF at = "waiting" THEN @ - 1 ELSE @,
                             !.tools = IF at = "tool" THEN @ - 1 ELSE @])
     /\ rows' = IF caller[p].recovery THEN [rows EXCEPT ![caller[p].tenant] = "none"] ELSE rows
     /\ caller' = [caller EXCEPT ![p] = AtRest]
     /\ UNCHANGED <<locks, poolClosed, ops>>

\* The time since the last use passes idle_ttl_ms.
IdleExpires(t) ==
  /\ t \in Resident /\ ~resident[t].idle
  /\ resident' = [resident EXCEPT ![t].idle = TRUE]
  /\ turn = NoOne
  /\ UNCHANGED <<locks, caller, rows, poolClosed, ops, turn>>

----------------------------------------------------------------------------
(* acquire *)

\* A caller with an operation of its own; the recovery worker comes for a run
\* a crash has left executing.
Begin(p, t, at) ==
  /\ caller[p] = AtRest /\ ops < MaxOps
  /\ ops' = ops + 1
  /\ locks' = Join(locks, p, t)
  /\ caller' = [caller EXCEPT ![p] = [AtRest EXCEPT !.at = at, !.tenant = t, !.id = ops + 1,
                  !.recovery = (at = "acquire" /\ rows[t] = "executing")]]
  /\ UNCHANGED <<resident, rows, poolClosed>>

acquire(p, t) == ~poolClosed /\ Begin(p, t, "acquire")

\* Under the tenant's lock: the resident runtime, an error, or on to the
\* capacity lock.
acquire_resident(p) ==
  LET t == caller[p].tenant
      r == resident[t]
  IN /\ caller[p].at = "acquire" /\ Holds(p, t)
     /\ IF r = NoRuntime
        THEN /\ locks' = Join(locks, p, "capacity")
             /\ caller' = [caller EXCEPT ![p].at = "capacity"]
             /\ UNCHANGED resident
        ELSE /\ locks' = Release(locks, {t})
             /\ IF poolClosed \/ ~r.available
                THEN caller' = [caller EXCEPT ![p] = AtRest] /\ UNCHANGED resident
                ELSE /\ caller' = [caller EXCEPT ![p].at = "given", ![p].id = r.id]
                     /\ resident' = [resident EXCEPT ![t] = touch(r)]
     /\ UNCHANGED <<rows, poolClosed, ops>>

\* Leaves the pool with an error.
Refuse(p, extra) ==
  /\ locks' = Release(locks, {caller[p].tenant, "capacity"} \cup extra)
  /\ caller' = [caller EXCEPT ![p] = AtRest]

\* What the caller does with the runtimes still to be tried: the next one's
\* lock; after the last the creation, or RuntimeCapacityError.
Onward(p, left, room, released) ==
  IF left # <<>>
  THEN /\ locks' = Join(Release(locks, released), p, Head(left)[1])
       /\ caller' = [caller EXCEPT ![p].at = "evict", ![p].victims = left]
  ELSE IF room
  THEN /\ locks' = Release(locks, released)
       /\ caller' = [caller EXCEPT ![p].at = "create", ![p].victims = <<>>]
  ELSE Refuse(p, released)

\* _ensure_capacity, evict_idle: a full pool tries the runtimes it has now.
ensure_capacity(p) ==
  LET room == Cardinality(Resident) < MaxResident IN
  /\ caller[p].at = "capacity" /\ Holds(p, "capacity")
  /\ IF poolClosed THEN Refuse(p, {})
     ELSE IF room THEN Onward(p, <<>>, TRUE, {})
     ELSE \E order \in Orders(Resident) : Onward(p, Snapshot(order), FALSE, {})
  /\ UNCHANGED <<resident, rows, poolClosed, ops>>

\* Under the other tenant's lock: the runtime seen before is closed if it is
\* still there and idle; if closing fails it stays, unavailable.
evict_if_safe(p, closes) ==
  LET v == Head(caller[p].victims)[1]
      r == resident[v]
      evicts == r # NoRuntime /\ r.id = Head(caller[p].victims)[2] /\ can_evict(r)
      left == IF evicts /\ closes THEN Resident \ {v} ELSE Resident
  IN /\ caller[p].at = "evict" /\ Holds(p, v)
     /\ resident' = IF ~evicts THEN resident
                    ELSE IF closes THEN [resident EXCEPT ![v] = NoRuntime]
                    ELSE [resident EXCEPT ![v].available = FALSE]
     /\ Onward(p, Tail(caller[p].victims), Cardinality(left) < MaxResident, {v})
     /\ UNCHANGED <<rows, poolClosed, ops>>

\* factory.create: a runtime with the tenant's counters ...
load_workflow_counters(t) == get_runtime_counters(rows[t])

create(p) ==
  LET t == caller[p].tenant
      r == [NoRuntime EXCEPT !.id = caller[p].id, !.available = TRUE]
  IN /\ caller[p].at = "create" /\ ~poolClosed
     /\ resident' = [resident EXCEPT ![t] = apply_workflow_counters(r, load_workflow_counters(t))]
     /\ locks' = Release(locks, {t, "capacity"})
     /\ caller' = [caller EXCEPT ![p].at = "given"]
     /\ UNCHANGED <<rows, poolClosed, ops>>

\* ... or an error, with what was built cleaned up.
create_fails(p) ==
  /\ caller[p].at = "create" /\ Refuse(p, {})
  /\ UNCHANGED <<resident, rows, poolClosed, ops>>

----------------------------------------------------------------------------
(* revoke and close *)

\* The runtime of a tenant whose account is deleted or restored.
revoke(p, t) == Begin(p, t, "revoke")

CloseRuntime(t, closes) ==
  resident' = IF resident[t] = NoRuntime THEN resident
              ELSE IF closes THEN [resident EXCEPT ![t] = NoRuntime]
              ELSE [resident EXCEPT ![t].available = FALSE]

revoke_runtime(p, closes) ==
  LET t == caller[p].tenant IN
  /\ caller[p].at = "revoke" /\ Holds(p, t)
  /\ CloseRuntime(t, closes)
  /\ locks' = Release(locks, {t})
  /\ caller' = [caller EXCEPT ![p] = AtRest]
  /\ UNCHANGED <<rows, poolClosed, ops>>

\* Shutdown: no new runtimes from now on, then those there are, one by one.
close(p) ==
  /\ caller[p] = AtRest /\ ~poolClosed /\ ops < MaxOps
  /\ ops' = ops + 1
  /\ poolClosed' = TRUE
  /\ locks' = Join(locks, p, "capacity")
  /\ caller' = [caller EXCEPT ![p].at = "close"]
  /\ UNCHANGED <<resident, rows>>

NextToClose(p, left, released) ==
  IF left = <<>>
  THEN /\ locks' = Release(locks, released) /\ caller' = [caller EXCEPT ![p] = AtRest]
  ELSE /\ locks' = Join(Release(locks, released), p, Head(left)[1])
       /\ caller' = [caller EXCEPT ![p].at = "close_one", ![p].victims = left]

close_snapshot(p) ==
  /\ caller[p].at = "close" /\ Holds(p, "capacity")
  /\ \E order \in Orders(Resident) : NextToClose(p, Snapshot(order), {"capacity"})
  /\ UNCHANGED <<resident, rows, poolClosed, ops>>

close_one(p, closes) ==
  LET v == Head(caller[p].victims) IN
  /\ caller[p].at = "close_one" /\ Holds(p, v[1])
  /\ IF resident[v[1]].id = v[2] THEN CloseRuntime(v[1], closes) ELSE UNCHANGED resident
  /\ NextToClose(p, Tail(caller[p].victims), {v[1]})
  /\ UNCHANGED <<rows, poolClosed, ops>>

----------------------------------------------------------------------------
PoolInit ==
  /\ resident = [t \in Tenants |-> NoRuntime]
  /\ locks = [l \in Tenants \cup {"capacity"} |-> <<>>]
  /\ caller = [p \in Callers |-> AtRest]
  /\ rows \in [Tenants -> {"none", "executing", "waiting"}]
  /\ poolClosed = FALSE /\ ops = 0 /\ turn = NoOne

\* What a caller does by itself once it has begun; its run ends some time.
CallerStep(p) ==
  /\ \/ acquire_resident(p) \/ ensure_capacity(p) \/ close_snapshot(p)
     \/ \E done \in BOOLEAN :
          evict_if_safe(p, done) \/ revoke_runtime(p, done) \/ close_one(p, done)
     \/ create(p) \/ create_fails(p) \/ begin_run(p) \/ EndRun(p)
  /\ Turn(p)

PoolNext ==
  \/ \E p \in Callers :
       \/ CallerStep(p)
       \/ /\ \/ close(p)
             \/ mark_tool_execution_started(p) \/ mark_tool_execution_finished(p)
             \/ mark_awaiting_user(p)
             \/ \E t \in Tenants : acquire(p, t) \/ revoke(p, t)
          /\ Turn(p)
  \/ \E t \in Tenants : IdleExpires(t)

PoolSpec == PoolInit /\ [][PoolNext]_poolVars

----------------------------------------------------------------------------
(* Properties *)

PoolTypeOK ==
  /\ \A t \in Tenants : resident[t].available \in BOOLEAN
       /\ \A c \in {"active", "executing", "checkpointed", "tools"} : resident[t][c] \in 0..(MaxOps + 1)
  /\ Cardinality(Resident) <= MaxResident
  /\ \A l \in DOMAIN locks : Len(locks[l]) <= Cardinality(Callers)

\* A runtime on which a run executes stays resident and available: whoever
\* needs its place (_ensure_capacity) leaves it alone; only the revocation of
\* the tenant or the shutdown of the pool takes it away.
RunKeepsRuntime ==
  [][\A p \in Callers :
       (caller[p].at \in {"run", "tool"} /\ Usable(p)) =>
         \/ LET r == resident'[caller[p].tenant] IN r.id = caller[p].id /\ r.available
         \/ \E q \in Callers : caller[q].at \in {"revoke", "close_one"} /\ caller'[q] # caller[q]]_poolVars

\* "容量满时先尝试回收安全的 idle runtime，否则返回带 `Retry-After` 的 `503`"
\* (docs/architecture.md:91): whoever asks for a runtime is answered, so no callers
\* wait for each other's locks in a circle.
NoCircularWait ==
  LET blocks(q, p) == /\ Awaited(caller[p]) # "none" /\ q # p
                      /\ Holds(q, Awaited(caller[p]))
  IN \A S \in SUBSET Callers \ {{}} : \E p \in S : \A q \in S : ~blocks(q, p)

=============================================================================
