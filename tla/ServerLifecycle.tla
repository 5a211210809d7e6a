--------------------------- MODULE ServerLifecycle ---------------------------
(***************************************************************************)
(* The lifespan of the server process (server.py, lifespan): start-up, the *)
(* four background loops, and the shutdown in which the loops and the runs *)
(* they started are brought to rest before the database is disposed of.    *)
(* A run that executes is only counted here: BackgroundRuns has the detail *)
(* of the manager, RuntimePool that of the pool.                           *)
(***************************************************************************)
EXTENDS Integers

CONSTANTS MaxProducers,       \* bound: runs executing at a time
          MaxCloseFaults      \* bound: times that closing the manager may fail

ASSUME LifecycleBounds == MaxProducers \in Nat /\ MaxCloseFaults \in Nat

VARIABLES life,         \* starting, failing (start-up raised), serving, stopping, down
          stage,        \* where start-up or shutdown stands
          loops,        \* the tasks of the loops
          stopSet,      \* the loops whose stop event is set
          manager,      \* BackgroundRunManager: closed, a queued message, runs executing
          pool,         \* RuntimePool: none, open, closed
          database,     \* none, open, disposed
          primary,      \* an error is to be raised at the end
          closeFaults   \* times that closing the manager failed

lifecycleVars == <<life, stage, loops, stopSet, manager, pool, database, primary, closeFaults>>

WorkerLoops == {"recovery", "deletion", "auth_cleanup"}
Loops == WorkerLoops \cup {"collaboration"}
Over == {"none", "ended", "raised"}

Stage(s) == stage' = s
KeepTasks == UNCHANGED <<loops, stopSet, manager, closeFaults>>

LifecycleInit ==
  /\ life = "starting" /\ stage = "factory" /\ loops = [l \in Loops |-> "none"] /\ stopSet = {}
  /\ manager = [closed |-> FALSE, queued |-> FALSE, running |-> 0]
  /\ pool = "none" /\ database = "none" /\ primary = FALSE /\ closeFaults = 0

----------------------------------------------------------------------------
(* Start-up *)

\* Start-up raises: what exists so far is closed, the collaboration service
\* first, and the error raised.
startup_fails ==
  /\ life = "starting"
  /\ life' = "failing" /\ primary' = TRUE /\ stopSet' = {"collaboration"}
  /\ Stage("close_collaboration")
  /\ UNCHANGED <<loops, manager, pool, database, closeFaults>>

create_runtime_factory ==
  /\ life = "starting" /\ stage = "factory"
  /\ database' = "open" /\ pool' = "open" /\ Stage("probe")
  /\ KeepTasks /\ UNCHANGED <<life, primary>>

\* The authentication settings and the sandbox were accepted.
probe_startup ==
  /\ life = "starting" /\ stage = "probe" /\ Stage("collaboration")
  /\ KeepTasks /\ UNCHANGED <<life, pool, database, primary>>

start_collaboration(enabled) ==
  /\ life = "starting" /\ stage = "collaboration"
  /\ loops' = [loops EXCEPT !["collaboration"] = IF enabled THEN "ready" ELSE "none"]
  /\ Stage("connect")
  /\ UNCHANGED <<life, stopSet, manager, pool, database, primary, closeFaults>>

\* The database was reached: the workers start, the deletion worker only with a
\* sandbox that is ready, and the server accepts requests.
start_workers(ready) ==
  /\ life = "starting" /\ stage = "connect"
  /\ loops' = [l \in Loops |-> IF l = "collaboration" THEN loops[l]
                              ELSE IF l = "deletion" /\ ~ready THEN "none" ELSE "ready"]
  /\ life' = "serving" /\ Stage("serving")
  /\ UNCHANGED <<stopSet, manager, pool, database, primary, closeFaults>>

----------------------------------------------------------------------------
(* The loops, and the runs of the background manager *)

LoopTo(l, s) ==
  /\ loops' = [loops EXCEPT ![l] = s]
  /\ UNCHANGED <<life, stage, stopSet, manager, pool, database, primary, closeFaults>>

loop_checks(l) == loops[l] = "ready" /\ LoopTo(l, IF l \in stopSet THEN "ended" ELSE "working")

loop_worked(l) == loops[l] = "working" /\ LoopTo(l, "waiting")

\* Only the collaboration loop catches what its round raises.
loop_raises(l) == loops[l] = "working" /\ LoopTo(l, IF l = "collaboration" THEN "waiting" ELSE "raised")

\* The interval passes, or the stop event is set.
loop_waited(l) == loops[l] = "waiting" /\ LoopTo(l, "ready")

Manager(m) ==
  /\ manager' = m
  /\ UNCHANGED <<life, stage, loops, stopSet, pool, database, primary, closeFaults>>

\* A request of a user, or the recovery worker, has a run executed; the manager
\* refuses once it is closed.
run_starts ==
  /\ life = "serving" \/ loops["recovery"] = "working"
  /\ ~manager.closed /\ manager.running < MaxProducers
  /\ Manager([manager EXCEPT !.running = @ + 1])

message_queued ==
  /\ life = "serving" /\ ~manager.closed /\ manager.running > 0
  /\ Manager([manager EXCEPT !.queued = TRUE])

\* A run ends, and a message that waits for it is started.
run_ends ==
  /\ manager.running > 0
  /\ Manager(IF manager.queued /\ ~manager.closed THEN [manager EXCEPT !.queued = FALSE]
             ELSE [manager EXCEPT !.running = @ - 1])

----------------------------------------------------------------------------
(* Shutdown, and the end of a failed start-up *)

shutdown ==
  /\ life = "serving"
  /\ life' = "stopping" /\ stopSet' = {"collaboration"} /\ Stage("close_collaboration")
  /\ UNCHANGED <<loops, manager, pool, database, primary, closeFaults>>

\* CollaborationService.close waits for the round under way and then for its
\* jobs; after it the task of the loop is awaited.
close_collaboration ==
  /\ stage = "close_collaboration" /\ loops["collaboration"] # "working"
  /\ Stage("join_collaboration")
  /\ KeepTasks /\ UNCHANGED <<life, pool, database, primary>>

join_collaboration ==
  /\ stage = "join_collaboration" /\ loops["collaboration"] \in Over
  /\ Stage(IF life = "stopping" THEN "close_background" ELSE "stop_workers")
  /\ KeepTasks /\ UNCHANGED <<life, pool, database, primary>>

\* BackgroundRunManager.close: from its first step on nothing new starts.  The
\* queued messages are then marked cancelled in the database, which may fail,
\* and after them the runs are cancelled.
close_background ==
  /\ stage = "close_background"
  /\ manager' = [manager EXCEPT !.closed = TRUE]
  /\ Stage("close_runs")
  /\ UNCHANGED <<life, loops, stopSet, pool, database, primary, closeFaults>>

RunsClosed == manager' = [closed |-> TRUE, queued |-> FALSE, running |-> 0] /\ UNCHANGED closeFaults

CloseFails ==
  /\ manager.queued /\ closeFaults < MaxCloseFaults
  /\ closeFaults' = closeFaults + 1 /\ manager' = [manager EXCEPT !.closed = TRUE]

close_runs ==
  /\ stage = "close_runs" /\ Stage("stop_workers")
  /\ \/ RunsClosed /\ UNCHANGED primary
     \/ CloseFails /\ primary' = TRUE
  /\ UNCHANGED <<life, loops, stopSet, pool, database>>

stop_workers ==
  /\ stage = "stop_workers" /\ stopSet' = Loops /\ Stage("join_workers")
  /\ UNCHANGED <<life, loops, manager, pool, database, primary, closeFaults>>

\* The tasks are awaited one after the other; what ended a loop is raised here.
join_workers ==
  /\ stage = "join_workers" /\ \A l \in WorkerLoops : loops[l] \in Over
  /\ primary' = (primary \/ \E l \in WorkerLoops : loops[l] = "raised")
  /\ Stage(IF pool = "none" THEN "dispose" ELSE "close_pool")
  /\ KeepTasks /\ UNCHANGED <<life, pool, database>>

\* Mutant: the pool closes the runtimes and leaves the runs to the manager.
PoolClosedOnly ==
  /\ stage = "close_pool" /\ Stage("dispose")
  /\ pool' = "closed" /\ primary' \in {primary, TRUE}
  /\ KeepTasks /\ UNCHANGED <<life, database>>

\* RuntimePool.close closes the manager once more and then every runtime, of
\* which some may raise; a manager that raises leaves the runtimes open.
close_pool ==
  /\ stage = "close_pool" /\ Stage("dispose")
  /\ \/ RunsClosed /\ pool' = "closed" /\ primary' \in {primary, TRUE}
     \/ CloseFails /\ primary' = TRUE /\ UNCHANGED pool
  /\ UNCHANGED <<life, loops, stopSet, database>>

\* Nothing to dispose of when the factory was never made.
dispose ==
  /\ stage = "dispose" /\ life' = "down" /\ Stage("down")
  /\ \/ database' = (IF database = "none" THEN "none" ELSE "disposed") /\ UNCHANGED primary
     \/ database = "open" /\ primary' = TRUE /\ UNCHANGED database
  /\ KeepTasks /\ UNCHANGED pool

LifecycleNext ==
  \/ startup_fails \/ create_runtime_factory \/ probe_startup
  \/ \E b \in BOOLEAN : start_collaboration(b) \/ start_workers(b)
  \/ \E l \in Loops : loop_checks(l) \/ loop_worked(l) \/ loop_raises(l) \/ loop_waited(l)
  \/ run_starts \/ message_queued \/ run_ends
  \/ shutdown \/ close_collaboration \/ join_collaboration \/ close_background \/ close_runs
  \/ stop_workers \/ join_workers \/ close_pool \/ dispose

LifecycleSpec == LifecycleInit /\ [][LifecycleNext]_lifecycleVars

----------------------------------------------------------------------------
LifecycleTypeOK ==
  /\ life \in {"starting", "failing", "serving", "stopping", "down"}
  /\ loops \in [Loops -> Over \cup {"ready", "working", "waiting"}] /\ stopSet \subseteq Loops
  /\ manager \in [closed : BOOLEAN, queued : BOOLEAN, running : 0..MaxProducers]
  /\ pool \in {"none", "open", "closed"} /\ database \in {"none", "open", "disposed"}
  /\ primary \in BOOLEAN /\ closeFaults \in 0..MaxCloseFaults

\* The database is disposed of only when no loop and no run can still use it,
\* also after a failed start-up, with loops that have raised, with runs that
\* the recovery worker starts during the shutdown, and when the manager's first
\* close failed half way (lifespan and RuntimePool.close).
QuietWhenDisposed ==
  database = "disposed" => (\A l \in Loops : loops[l] \in Over) /\ manager.running = 0

=============================================================================
