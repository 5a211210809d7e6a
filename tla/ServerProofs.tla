---------------------------- MODULE ServerProofs ----------------------------
(***************************************************************************)
(* The proofs about what a server process holds: its database, the commands *)
(* it runs, and the runtimes of its tenants.                               *)
(***************************************************************************)
EXTENDS ServerLifecycle, SandboxRunner, RuntimePool, FiniteSetTheorems, TLAPS

-----------------------------------------------------------------------------
(***************************************************************************)
(* The database outlives everything that uses it: QuietWhenDisposed, for   *)
(* any number of runs, as long as closing the background manager fails at  *)
(* most once.  The inductive invariant says what each stage of start-up    *)
(* and shutdown has already brought to rest.                               *)
(***************************************************************************)

StartStages == {"factory", "probe", "collaboration", "connect"}
PoolClosing == {"close_pool", "dispose", "down"}
WorkersStopping == {"stop_workers", "join_workers"}
RunsClosing == {"close_background", "close_runs"}
CollaborationClosing == {"close_collaboration", "join_collaboration"}
Stages == StartStages \cup {"serving"} \cup CollaborationClosing \cup RunsClosing
            \cup WorkersStopping \cup PoolClosing

\* Where the process is in its life tells where start-up or shutdown stands.
StageOfLife ==
  /\ stage \in Stages
  /\ life = "starting" <=> stage \in StartStages
  /\ life = "serving" <=> stage = "serving"
  /\ life = "down" <=> stage = "down"
  /\ stage \in RunsClosing => life = "stopping"

\* Before the workers run nothing starts a run.
NothingStarted ==
  life \in {"starting", "failing"} =>
    /\ \A l \in WorkerLoops : loops[l] = "none"
    /\ manager.running = 0 /\ manager.queued = FALSE

\* What shutdown has awaited so far stays over.
LoopsOver ==
  /\ stage \in RunsClosing \cup WorkersStopping \cup PoolClosing => loops["collaboration"] \in Over
  /\ stage \in PoolClosing => \A l \in WorkerLoops : loops[l] \in Over

\* The manager is closed before the runs are; they are gone unless its close
\* has failed, and the pool's second close ends them then.
RunsOver ==
  /\ life \in {"serving", "stopping"} \/ stage \in StartStages \ {"factory"} => pool # "none"
  /\ stage \in StartStages \cup {"serving"} \cup CollaborationClosing \cup RunsClosing => closeFaults = 0
  /\ life = "stopping" /\ stage \in {"close_runs"} \cup WorkersStopping \cup PoolClosing => manager.closed
  /\ stage \in WorkersStopping \cup {"close_pool"} /\ closeFaults = 0 =>
       manager.running = 0 /\ manager.queued = FALSE
  /\ stage \in {"dispose", "down"} => manager.running = 0
  /\ database = "disposed" => stage = "down"

LifecycleInv == LifecycleTypeOK /\ StageOfLife /\ NothingStarted /\ LoopsOver /\ RunsOver

\* The process begins with nothing started.
LEMMA LifecycleInitially == LifecycleInit => LifecycleInv
<1> SUFFICES ASSUME LifecycleInit PROVE LifecycleInv
  OBVIOUS
<1> USE DEF LifecycleInit, Stages, StartStages, PoolClosing, WorkersStopping, RunsClosing,
            CollaborationClosing
<1>1. LifecycleTypeOK
  <2>1. loops \in [Loops -> Over \cup {"ready", "working", "waiting"}]
    BY DEF Over
  <2>2. manager \in [closed : BOOLEAN, queued : BOOLEAN, running : 0..MaxProducers]
    BY LifecycleBounds DEF LifecycleBounds
  <2>3. closeFaults \in 0..MaxCloseFaults
    BY LifecycleBounds DEF LifecycleBounds
  <2> QED
    BY <2>1, <2>2, <2>3 DEF LifecycleTypeOK
<1>2. StageOfLife
  BY DEF StageOfLife
<1>3. NothingStarted
  BY DEF NothingStarted, Loops
<1>4. LoopsOver /\ RunsOver
  BY DEF LoopsOver, RunsOver
<1> QED
  BY <1>1, <1>2, <1>3, <1>4 DEF LifecycleInv

\* However closing the manager ends, what is left of it is well formed.
LEMMA ManagerCloses ==
  ASSUME LifecycleTypeOK, RunsClosed \/ CloseFails
  PROVE  /\ manager' \in [closed : BOOLEAN, queued : BOOLEAN, running : 0..MaxProducers]
         /\ closeFaults' \in 0..MaxCloseFaults
<1>1. CASE RunsClosed
  <2>1. 0 \in 0..MaxProducers
    BY LifecycleBounds DEF LifecycleBounds
  <2> QED
    BY <1>1, <2>1 DEF RunsClosed, LifecycleTypeOK
<1>2. CASE CloseFails
  <2>1. /\ manager' = [manager EXCEPT !.closed = TRUE]
        /\ closeFaults < MaxCloseFaults /\ closeFaults' = closeFaults + 1
    BY <1>2 DEF CloseFails
  <2>2. manager' \in [closed : BOOLEAN, queued : BOOLEAN, running : 0..MaxProducers]
    BY <2>1 DEF LifecycleTypeOK
  <2>3. closeFaults' \in 0..MaxCloseFaults
    BY <2>1, LifecycleBounds DEF LifecycleBounds, LifecycleTypeOK
  <2> QED
    BY <2>2, <2>3
<1> QED
  BY <1>1, <1>2

\* Every step keeps the types.
LEMMA LifecycleTypes == LifecycleInv /\ [LifecycleNext]_lifecycleVars => LifecycleTypeOK'
<1> SUFFICES ASSUME LifecycleInv, [LifecycleNext]_lifecycleVars PROVE LifecycleTypeOK'
  OBVIOUS
<1> USE LifecycleBounds
    DEF LifecycleBounds, LifecycleInv, LifecycleTypeOK, Over, Loops, WorkerLoops, Stage, KeepTasks
<1>1. CASE startup_fails
  BY <1>1 DEF startup_fails
<1>2. CASE create_runtime_factory
  BY <1>2 DEF create_runtime_factory
<1>3. CASE probe_startup
  BY <1>3 DEF probe_startup
<1>4. ASSUME NEW b \in BOOLEAN, start_collaboration(b) PROVE LifecycleTypeOK'
  BY <1>4 DEF start_collaboration
<1>5. ASSUME NEW b \in BOOLEAN, start_workers(b) PROVE LifecycleTypeOK'
  BY <1>5 DEF start_workers
<1>6. ASSUME NEW l \in Loops, loop_checks(l) PROVE LifecycleTypeOK'
  BY <1>6 DEF loop_checks, LoopTo
<1>7. ASSUME NEW l \in Loops, loop_worked(l) PROVE LifecycleTypeOK'
  BY <1>7 DEF loop_worked, LoopTo
<1>8. ASSUME NEW l \in Loops, loop_raises(l) PROVE LifecycleTypeOK'
  BY <1>8 DEF loop_raises, LoopTo
<1>9. ASSUME NEW l \in Loops, loop_waited(l) PROVE LifecycleTypeOK'
  BY <1>9 DEF loop_waited, LoopTo
<1>10. CASE run_starts
  BY <1>10 DEF run_starts, Manager
<1>11. CASE message_queued
  BY <1>11 DEF message_queued, Manager
<1>12. CASE run_ends
  <2>1. /\ manager.closed \in BOOLEAN /\ manager.queued \in BOOLEAN
        /\ manager.running \in 1..MaxProducers /\ manager.running - 1 \in 0..MaxProducers
    BY <1>12 DEF run_ends
  <2>2. CASE manager' = [manager EXCEPT !.queued = FALSE]
    BY <1>12, <2>1, <2>2 DEF run_ends, Manager
  <2>3. CASE manager' = [manager EXCEPT !.running = @ - 1]
    BY <1>12, <2>1, <2>3 DEF run_ends, Manager
  <2> QED
    BY <1>12, <2>2, <2>3 DEF run_ends, Manager
<1>13. CASE shutdown
  BY <1>13 DEF shutdown
<1>14. CASE close_collaboration
  BY <1>14 DEF close_collaboration
<1>15. CASE join_collaboration
  BY <1>15 DEF join_collaboration
<1>16. CASE close_background
  BY <1>16 DEF close_background
<1>17. CASE close_runs
  <2>1. RunsClosed \/ CloseFails
    BY <1>17 DEF close_runs
  <2>2. /\ manager' \in [closed : BOOLEAN, queued : BOOLEAN, running : 0..MaxProducers]
        /\ closeFaults' \in 0..MaxCloseFaults
    BY <2>1, ManagerCloses
  <2>3. primary' \in BOOLEAN
    <3>1. primary' = primary \/ primary' = TRUE
      BY <1>17 DEF close_runs
    <3>2. primary \in BOOLEAN
      OBVIOUS
    <3> QED
      BY <3>1, <3>2, Zenon
  <2>4. UNCHANGED <<life, loops, stopSet, pool, database>>
    BY <1>17 DEF close_runs
  <2> QED
    BY <2>2, <2>3, <2>4
<1>18. CASE stop_workers
  BY <1>18 DEF stop_workers
<1>19. CASE join_workers
  BY <1>19 DEF join_workers
<1>20. CASE close_pool
  <2>1. RunsClosed \/ CloseFails
    BY <1>20 DEF close_pool
  <2>2. /\ manager' \in [closed : BOOLEAN, queued : BOOLEAN, running : 0..MaxProducers]
        /\ closeFaults' \in 0..MaxCloseFaults
    BY <2>1, ManagerCloses
  <2>3. primary' \in BOOLEAN
    <3>1. primary' = primary \/ primary' = TRUE
      BY <1>20 DEF close_pool
    <3>2. primary \in BOOLEAN
      OBVIOUS
    <3> QED
      BY <3>1, <3>2, Zenon
  <2>4. pool' \in {pool, "closed"} /\ UNCHANGED <<life, loops, stopSet, database>>
    BY <1>20 DEF close_pool
  <2> QED
    BY <2>2, <2>3, <2>4
<1>21. CASE dispose
  BY <1>21 DEF dispose
<1>22. CASE UNCHANGED lifecycleVars
  BY <1>22 DEF lifecycleVars
<1> QED
  BY <1>1, <1>2, <1>3, <1>4, <1>5, <1>6, <1>7, <1>8, <1>9, <1>10, <1>11, <1>12, <1>13, <1>14, <1>15, <1>16, <1>17, <1>18, <1>19, <1>20, <1>21, <1>22 DEF LifecycleNext

\* Every step leaves at rest what start-up and shutdown brought to rest.
LEMMA LifecycleStep ==
  ASSUME MaxCloseFaults <= 1
  PROVE  LifecycleInv /\ [LifecycleNext]_lifecycleVars => (StageOfLife /\ NothingStarted /\ LoopsOver /\ RunsOver)'
<1> SUFFICES ASSUME LifecycleInv, [LifecycleNext]_lifecycleVars
             PROVE  (StageOfLife /\ NothingStarted /\ LoopsOver /\ RunsOver)'
  OBVIOUS
<1> USE LifecycleBounds
    DEF LifecycleBounds, LifecycleInv, LifecycleTypeOK, Over, Loops, WorkerLoops, Stage, KeepTasks,
        StageOfLife, NothingStarted, LoopsOver, RunsOver, Stages, StartStages, PoolClosing,
        WorkersStopping, RunsClosing, CollaborationClosing
<1>1. CASE startup_fails
  BY <1>1 DEF startup_fails
<1>2. CASE create_runtime_factory
  BY <1>2 DEF create_runtime_factory
<1>3. CASE probe_startup
  BY <1>3 DEF probe_startup
<1>4. ASSUME NEW b \in BOOLEAN, start_collaboration(b) PROVE (StageOfLife /\ NothingStarted /\ LoopsOver /\ RunsOver)'
  BY <1>4 DEF start_collaboration
<1>5. ASSUME NEW b \in BOOLEAN, start_workers(b) PROVE (StageOfLife /\ NothingStarted /\ LoopsOver /\ RunsOver)'
  BY <1>5 DEF start_workers
<1>6. ASSUME NEW l \in Loops, loop_checks(l) PROVE (StageOfLife /\ NothingStarted /\ LoopsOver /\ RunsOver)'
  BY <1>6 DEF loop_checks, LoopTo
<1>7. ASSUME NEW l \in Loops, loop_worked(l) PROVE (StageOfLife /\ NothingStarted /\ LoopsOver /\ RunsOver)'
  BY <1>7 DEF loop_worked, LoopTo
<1>8. ASSUME NEW l \in Loops, loop_raises(l) PROVE (StageOfLife /\ NothingStarted /\ LoopsOver /\ RunsOver)'
  BY <1>8 DEF loop_raises, LoopTo
<1>9. ASSUME NEW l \in Loops, loop_waited(l) PROVE (StageOfLife /\ NothingStarted /\ LoopsOver /\ RunsOver)'
  BY <1>9 DEF loop_waited, LoopTo
<1>10. CASE run_starts
  BY <1>10 DEF run_starts, Manager
<1>11. CASE message_queued
  BY <1>11 DEF message_queued, Manager
<1>12. CASE run_ends
  BY <1>12 DEF run_ends, Manager
<1>13. CASE shutdown
  BY <1>13 DEF shutdown
<1>14. CASE close_collaboration
  BY <1>14 DEF close_collaboration
<1>15. CASE join_collaboration
  BY <1>15 DEF join_collaboration
<1>16. CASE close_background
  BY <1>16 DEF close_background
<1>17. CASE close_runs
  BY <1>17 DEF close_runs, RunsClosed, CloseFails
<1>18. CASE stop_workers
  BY <1>18 DEF stop_workers
<1>19. CASE join_workers
  BY <1>19 DEF join_workers
<1>20. CASE close_pool
  <2>1. CASE RunsClosed
    BY <1>20, <2>1 DEF close_pool, RunsClosed
  <2>2. CASE CloseFails
    <3>1. closeFaults = 0 /\ manager.queued
      BY <2>2 DEF CloseFails
    <3> QED
      BY <1>20, <3>1 DEF close_pool
  <2> QED
    BY <1>20, <2>1, <2>2 DEF close_pool
<1>21. CASE dispose
  BY <1>21 DEF dispose
<1>22. CASE UNCHANGED lifecycleVars
  BY <1>22 DEF lifecycleVars
<1> QED
  BY <1>1, <1>2, <1>3, <1>4, <1>5, <1>6, <1>7, <1>8, <1>9, <1>10, <1>11, <1>12, <1>13, <1>14, <1>15, <1>16, <1>17, <1>18, <1>19, <1>20, <1>21, <1>22 DEF LifecycleNext

\* The database is disposed of only when no loop and no run can still use it
\* (lifespan, RuntimePool.close), if closing the manager fails at most once.
THEOREM DisposedIsQuiet ==
  ASSUME MaxCloseFaults <= 1
  PROVE  LifecycleSpec => []QuietWhenDisposed
<1>1. LifecycleInv /\ [LifecycleNext]_lifecycleVars => LifecycleInv'
  BY LifecycleTypes, LifecycleStep DEF LifecycleInv
<1>2. LifecycleInv => QuietWhenDisposed
  BY DEF LifecycleInv, LifecycleTypeOK, LoopsOver, RunsOver, QuietWhenDisposed, Loops, WorkerLoops,
         PoolClosing
<1> QED
  BY LifecycleInitially, <1>1, <1>2, PTL DEF LifecycleSpec

-----------------------------------------------------------------------------
(***************************************************************************)
(* CommandAccounted for every output limit and every number of chunks and  *)
(* cancellations.  The invariant below says what each place of the run     *)
(* knows: what is kept and what is in the pipe is all the output as long   *)
(* as the limit is not reached; a reader that has returned found its pipe  *)
(* empty and without a writer; and after SIGKILL nobody is left that did   *)
(* not get it, since the killed do not fork.                               *)
(***************************************************************************)

\* Nothing of a stream is lost before the limit is reached.
OutputKept == limitStream = "none" => \A s \in Streams : captured[s] + piped[s] = emitted[s]

\* What the return of a helper task tells.
HelpersKnow ==
  /\ \A s \in Streams : s \in helpers => piped[s] = 0 /\ holders = {}
  /\ "proc_wait" \in helpers => "leader" \notin group

\* Before the spawn nothing runs, and before its end nothing comes back; the
\* directory is made, and the leader of an interrupted spawn is killed.
NotSpawned ==
  /\ launch \in {"new", "spawn"} => group = {}
  /\ launch \in {"new", "spawn"} \cup Spawning => helpers = {}
  /\ launch = "spawn" => privateRoot
  /\ launch = "reaping" => interruptedAt = "spawning" /\ "leader" \notin group \ killed

\* What the reason to stop tells.
ReasonKnows ==
  /\ launch \in {"new", "spawn", "waiting"} \cup Spawning => stopReason = "none"
  /\ stopReason = "completed" => helpers = Helpers /\ limitStream = "none" /\ launch \in {"draining"} \cup LaunchOver
  /\ stopReason = "overflow" => limitStream # "none"
  /\ launch = "killing" => group \subseteq killed
  /\ launch \in {"terminating", "killing", "draining"} => stopReason # "none"
  /\ launch = "draining" /\ stopReason # "completed" => group \subseteq killed

\* What a result tells.
ResultKnows ==
  result.state = "completed" => stopReason = "completed" /\ result.out = captured /\ launch = "returned"

\* The inductive invariant.
SandboxInv ==
  /\ SandboxTypeOK
  /\ OutputKept
  /\ HelpersKnow
  /\ NotSpawned
  /\ ReasonKnows
  /\ ResultKnows
  /\ CommandAccounted

\* The invariant holds when nothing has been launched.
LEMMA SandboxStarts == SandboxInit => SandboxInv
<1> USE SandboxBounds DEF SandboxBounds, SandboxInit, NoResult, Streams, Helpers, Spawning, Running, LaunchOver, Processes
<1> SUFFICES ASSUME SandboxInit
             PROVE  SandboxInv
  OBVIOUS
<1>1. emitted \in [Streams -> 0..MaxChunksOut] /\ piped \in [Streams -> Nat] /\ captured \in [Streams -> 0..CaptureLimit]
  OBVIOUS
<1>2. SandboxTypeOK
  <2>1. interrupts \in 0..MaxInterrupts
    OBVIOUS
  <2> QED
    BY <1>1, <2>1, Zenon DEF SandboxTypeOK
<1>3. OutputKept /\ HelpersKnow /\ NotSpawned
  BY DEF OutputKept, HelpersKnow, NotSpawned
<1>4. ReasonKnows /\ ResultKnows
  BY DEF ReasonKnows, ResultKnows
<1>5. CommandAccounted
  BY DEF CommandAccounted
<1> QED
  BY <1>2, <1>3, <1>4, <1>5 DEF SandboxInv

\* Every step keeps it.
LEMMA SandboxKeeps == SandboxInv /\ [SandboxNext]_sandboxVars => SandboxInv'
<1> USE SandboxBounds DEF SandboxBounds, SandboxInv, SandboxTypeOK, OutputKept, HelpersKnow, NotSpawned, ReasonKnows,
        ResultKnows, CommandAccounted, Streams, Helpers, Spawning, Running, LaunchOver, Processes,
        commandVars, captureVars, directoryVars, endVars, Leave, Removed
<1> SUFFICES ASSUME SandboxInv, [SandboxNext]_sandboxVars
             PROVE  SandboxInv'
  OBVIOUS
<1>1. ASSUME NEW ok \in BOOLEAN, build_launch_spec(ok)
      PROVE  SandboxInv'
  BY <1>1 DEF build_launch_spec
<1>2. ASSUME NEW ok \in BOOLEAN, spawn_process(ok)
      PROVE  SandboxInv'
  <2>1. SandboxTypeOK'
    BY <1>2 DEF spawn_process
  <2>2. OutputKept'
    BY <1>2 DEF spawn_process
  <2>3. HelpersKnow'
    BY <1>2 DEF spawn_process
  <2>4. NotSpawned'
    BY <1>2 DEF spawn_process
  <2>5. ReasonKnows'
    BY <1>2 DEF spawn_process
  <2>6. ResultKnows'
    BY <1>2 DEF spawn_process
  <2>7. CommandAccounted'
    BY <1>2 DEF spawn_process
  <2> QED
    BY <2>1, <2>2, <2>3, <2>4, <2>5, <2>6, <2>7
<1>3. ASSUME NEW ok \in BOOLEAN, write_stdin(ok)
      PROVE  SandboxInv'
  BY <1>3 DEF write_stdin, HelperStep, HelperRuns
<1>4. CASE fork
  <2>1. SandboxTypeOK'
    BY <1>4 DEF fork
  <2>2. OutputKept'
    BY <1>4 DEF fork
  <2>3. HelpersKnow'
    BY <1>4 DEF fork
  <2>4. NotSpawned'
    BY <1>4 DEF fork
  <2>5. ReasonKnows'
    BY <1>4 DEF fork
  <2>6. ResultKnows'
    BY <1>4 DEF fork
  <2>7. CommandAccounted'
    BY <1>4 DEF fork
  <2> QED
    BY <2>1, <2>2, <2>3, <2>4, <2>5, <2>6, <2>7
<1>5. ASSUME NEW s \in Streams, write_output(s)
      PROVE  SandboxInv'
  <2>1. SandboxTypeOK'
    BY <1>5 DEF write_output
  <2>2. OutputKept'
    BY <1>5 DEF write_output
  <2>3. HelpersKnow'
    BY <1>5 DEF write_output
  <2>4. NotSpawned'
    BY <1>5 DEF write_output
  <2>5. ReasonKnows'
    BY <1>5 DEF write_output
  <2>6. ResultKnows'
    BY <1>5 DEF write_output
  <2>7. CommandAccounted'
    BY <1>5 DEF write_output
  <2> QED
    BY <2>1, <2>2, <2>3, <2>4, <2>5, <2>6, <2>7
<1>6. ASSUME NEW s \in Streams, read_stream(s)
      PROVE  SandboxInv'
  <2>1. SandboxTypeOK'
    <3>a. CASE piped[s] > 0
      <4>1. piped' = [piped EXCEPT ![s] = @ - 1] /\ piped[s] - 1 \in Nat
        BY <1>6, <3>a DEF read_stream
      <4>2. piped' \in [Streams -> Nat]
        BY <4>1
      <4>3. CASE limitStream # "none"
        BY <1>6, <3>a, <4>2, <4>3 DEF read_stream, HelperStep, HelperRuns
      <4>4. CASE limitStream = "none" /\ captured[s] + 1 > CaptureLimit
        <5>1. captured' = [t \in Streams |-> 0] /\ limitStream' = s
          BY <1>6, <3>a, <4>4 DEF read_stream, KeptChunk
        <5>2. captured' \in [Streams -> 0..CaptureLimit]
          BY <5>1
        <5> QED
          BY <1>6, <3>a, <4>2, <5>1, <5>2 DEF read_stream, HelperStep, HelperRuns
      <4>5. CASE limitStream = "none" /\ ~(captured[s] + 1 > CaptureLimit)
        <5>1. captured' = [captured EXCEPT ![s] = @ + 1] /\ limitStream' = limitStream
          BY <1>6, <3>a, <4>5 DEF read_stream, KeptChunk
        <5>2. captured' \in [Streams -> 0..CaptureLimit]
          BY <4>5, <5>1
        <5> QED
          BY <1>6, <3>a, <4>2, <5>1, <5>2 DEF read_stream, HelperStep, HelperRuns
      <4> QED
        BY <4>3, <4>4, <4>5
    <3>b. CASE ~(piped[s] > 0)
      BY <1>6, <3>b DEF read_stream, HelperStep, HelperRuns
    <3> QED
      BY <3>a, <3>b
  <2>2. OutputKept'
    BY <1>6 DEF read_stream, HelperStep, HelperRuns, KeptChunk
  <2>3. HelpersKnow'
    BY <1>6 DEF read_stream, HelperStep, HelperRuns, KeptChunk
  <2>4. NotSpawned'
    BY <1>6 DEF read_stream, HelperStep, HelperRuns, KeptChunk
  <2>5. ReasonKnows'
    BY <1>6 DEF read_stream, HelperStep, HelperRuns, KeptChunk
  <2>6. ResultKnows'
    BY <1>6 DEF read_stream, HelperStep, HelperRuns, KeptChunk
  <2>7. CommandAccounted'
    BY <1>6 DEF read_stream, HelperStep, HelperRuns, KeptChunk
  <2> QED
    BY <2>1, <2>2, <2>3, <2>4, <2>5, <2>6, <2>7
<1>7. ASSUME NEW p \in Processes, exit(p)
      PROVE  SandboxInv'
  <2>1. SandboxTypeOK'
    BY <1>7 DEF exit
  <2>2. OutputKept'
    BY <1>7 DEF exit
  <2>3. HelpersKnow'
    BY <1>7 DEF exit
  <2>4. NotSpawned'
    BY <1>7 DEF exit
  <2>5. ReasonKnows'
    BY <1>7 DEF exit
  <2>6. ResultKnows'
    BY <1>7 DEF exit
  <2>7. CommandAccounted'
    BY <1>7 DEF exit
  <2> QED
    BY <2>1, <2>2, <2>3, <2>4, <2>5, <2>6, <2>7
<1>8. CASE close_sandbox
  <2>1. SandboxTypeOK'
    BY <1>8 DEF close_sandbox
  <2>2. OutputKept'
    BY <1>8 DEF close_sandbox
  <2>3. HelpersKnow'
    BY <1>8 DEF close_sandbox
  <2>4. NotSpawned'
    BY <1>8 DEF close_sandbox
  <2>5. ReasonKnows'
    BY <1>8 DEF close_sandbox
  <2>6. ResultKnows'
    BY <1>8 DEF close_sandbox
  <2>7. CommandAccounted'
    BY <1>8 DEF close_sandbox
  <2> QED
    BY <2>1, <2>2, <2>3, <2>4, <2>5, <2>6, <2>7
<1>9. CASE proc_wait
  BY <1>9 DEF proc_wait, HelperStep, HelperRuns
<1>10. CASE wait_first
  BY <1>10 DEF wait_first, StopReasons, Stop, HelpersDone
<1>11. CASE terminate_process_group
  <2>1. SandboxTypeOK'
    BY <1>11 DEF terminate_process_group, GroupGone
  <2>2. OutputKept'
    BY <1>11 DEF terminate_process_group, GroupGone
  <2>3. HelpersKnow'
    BY <1>11 DEF terminate_process_group, GroupGone
  <2>4. NotSpawned'
    BY <1>11 DEF terminate_process_group, GroupGone
  <2>5. ReasonKnows'
    BY <1>11 DEF terminate_process_group, GroupGone
  <2>6. ResultKnows'
    BY <1>11 DEF terminate_process_group, GroupGone
  <2>7. CommandAccounted'
    BY <1>11 DEF terminate_process_group, GroupGone
  <2> QED
    BY <2>1, <2>2, <2>3, <2>4, <2>5, <2>6, <2>7
<1>12. CASE finalize_run
  <2>1. SandboxTypeOK'
    BY <1>12 DEF finalize_run, build_result_for_completion, NoResult
  <2>2. OutputKept'
    BY <1>12 DEF finalize_run, build_result_for_completion, NoResult
  <2>3. HelpersKnow'
    BY <1>12 DEF finalize_run, build_result_for_completion, NoResult
  <2>4. NotSpawned'
    BY <1>12 DEF finalize_run, build_result_for_completion, NoResult
  <2>5. ReasonKnows'
    BY <1>12 DEF finalize_run, build_result_for_completion, NoResult
  <2>6. ResultKnows'
    BY <1>12 DEF finalize_run, build_result_for_completion, NoResult
  <2>7. CommandAccounted'
    BY <1>12 DEF finalize_run, build_result_for_completion, NoResult
  <2> QED
    BY <2>1, <2>2, <2>3, <2>4, <2>5, <2>6, <2>7
<1>13. CASE interrupt
  <2>a. interrupts' \in 0..MaxInterrupts
    BY <1>13 DEF interrupt
  <2>b. CASE launch = "waiting"
    BY <1>13, <2>a, <2>b DEF interrupt, Stop
  <2>c. CASE launch = "spawning"
    <3>1. SandboxTypeOK'
      BY <1>13, <2>a, <2>c DEF interrupt, AbandonSpawn
    <3>2. OutputKept'
      BY <1>13, <2>a, <2>c DEF interrupt, AbandonSpawn
    <3>3. HelpersKnow'
      BY <1>13, <2>a, <2>c DEF interrupt, AbandonSpawn
    <3>4. NotSpawned'
      BY <1>13, <2>a, <2>c DEF interrupt, AbandonSpawn
    <3>5. ReasonKnows'
      BY <1>13, <2>a, <2>c DEF interrupt, AbandonSpawn
    <3>6. ResultKnows'
      BY <1>13, <2>a, <2>c DEF interrupt, AbandonSpawn
    <3>7. CommandAccounted'
      BY <1>13, <2>a, <2>c DEF interrupt, AbandonSpawn
    <3> QED
      BY <3>1, <3>2, <3>3, <3>4, <3>5, <3>6, <3>7
  <2>d. CASE launch \notin {"waiting", "spawning"}
    <3>0. launch' = "raised" /\ privateRoot' \in BOOLEAN /\ interruptedAt' = launch /\ UNCHANGED killed
      BY <1>13, <2>d DEF interrupt
    <3>1. SandboxTypeOK'
      BY <1>13, <2>a, <2>d, <3>0 DEF interrupt
    <3>2. OutputKept'
      BY <1>13, <2>a, <2>d, <3>0 DEF interrupt
    <3>3. HelpersKnow'
      BY <1>13, <2>a, <2>d, <3>0 DEF interrupt
    <3>4. NotSpawned'
      BY <1>13, <2>a, <2>d, <3>0 DEF interrupt
    <3>5. ReasonKnows'
      BY <1>13, <2>a, <2>d, <3>0 DEF interrupt
    <3>6. ResultKnows'
      BY <1>13, <2>a, <2>d, <3>0 DEF interrupt
    <3>7. CommandAccounted'
      BY <1>13, <2>a, <2>d, <3>0 DEF interrupt
    <3> QED
      BY <3>1, <3>2, <3>3, <3>4, <3>5, <3>6, <3>7
  <2> QED
    BY <2>b, <2>c, <2>d
<1>14. CASE UNCHANGED sandboxVars
  BY <1>14 DEF sandboxVars
<1>15. ASSUME NEW p \in Processes, redirect(p)
       PROVE  SandboxInv'
  <2>1. SandboxTypeOK'
    <3>1. holders' \subseteq group'
      BY <1>15 DEF redirect
    <3>2. UNCHANGED <<launch, stopReason, group, emitted, captured, limitStream, killed, piped, helpers,
                      stdinFailed, privateRoot, managerRoot, result, interrupts, interruptedAt>>
      BY <1>15 DEF redirect
    <3> QED
      BY <3>1, <3>2, Zenon
  <2>2. OutputKept'
    BY <1>15 DEF redirect
  <2>3. HelpersKnow'
    BY <1>15 DEF redirect
  <2>4. NotSpawned'
    BY <1>15 DEF redirect
  <2>5. ReasonKnows'
    BY <1>15 DEF redirect
  <2>6. ResultKnows'
    BY <1>15 DEF redirect
  <2>7. CommandAccounted'
    BY <1>15 DEF redirect
  <2> QED
    BY <2>1, <2>2, <2>3, <2>4, <2>5, <2>6, <2>7
<1>16. CASE create_run_context
  <2>1. SandboxTypeOK'
    BY <1>16 DEF create_run_context
  <2>2. OutputKept'
    BY <1>16 DEF create_run_context
  <2>3. HelpersKnow'
    BY <1>16 DEF create_run_context
  <2>4. NotSpawned'
    BY <1>16 DEF create_run_context
  <2>5. ReasonKnows'
    BY <1>16 DEF create_run_context
  <2>6. ResultKnows'
    BY <1>16 DEF create_run_context
  <2>7. CommandAccounted'
    BY <1>16 DEF create_run_context
  <2> QED
    BY <2>1, <2>2, <2>3, <2>4, <2>5, <2>6, <2>7
<1>17. CASE reap_spawn
  <2>1. SandboxTypeOK'
    BY <1>17 DEF reap_spawn
  <2>2. OutputKept'
    BY <1>17 DEF reap_spawn
  <2>3. HelpersKnow'
    BY <1>17 DEF reap_spawn
  <2>4. NotSpawned'
    BY <1>17 DEF reap_spawn
  <2>5. ReasonKnows'
    BY <1>17 DEF reap_spawn
  <2>6. ResultKnows'
    BY <1>17 DEF reap_spawn
  <2>7. CommandAccounted'
    BY <1>17 DEF reap_spawn
  <2> QED
    BY <2>1, <2>2, <2>3, <2>4, <2>5, <2>6, <2>7
<1> QED
  BY <1>1, <1>2, <1>3, <1>4, <1>5, <1>6, <1>7, <1>8, <1>9, <1>10, <1>11, <1>12, <1>13, <1>14, <1>15, <1>16,
     <1>17 DEF SandboxNext

\* A result without a mark is whole, nothing that was not sent SIGKILL survives but in
\* the named cases, and no directory is taken from a launch (SandboxManager.run and
\* close, SandboxProcessRunner.run).
THEOREM CommandsAccounted == SandboxSpec => []CommandAccounted
<1>1. SandboxInv => CommandAccounted
  BY DEF SandboxInv
<1> QED
  BY <1>1, SandboxStarts, SandboxKeeps, PTL DEF SandboxSpec

-----------------------------------------------------------------------------
(***************************************************************************)
(* For any tenants, callers and capacity: a runtime on which a run         *)
(* executes is not evicted.  The invariant says that a runtime counts all  *)
(* the runs that execute on it.  For that a runtime must be known by its   *)
(* identity: the one a caller will create is new to everybody, and while a *)
(* caller goes for the capacity its tenant has no runtime, because the     *)
(* caller holds the tenant's lock.                                         *)
(***************************************************************************)

\* The leaves are first-order: Zenon proves them, and those it does not find cite SMT.
USE Zenon

Locks == Tenants \cup {"capacity"}

IsCaller(c) == c = [at |-> c.at, tenant |-> c.tenant, victims |-> c.victims, id |-> c.id,
                    recovery |-> c.recovery]
IsRuntime(r) ==
  /\ r = [id |-> r.id, available |-> r.available, idle |-> r.idle, active |-> r.active,
          executing |-> r.executing, checkpointed |-> r.checkpointed, tools |-> r.tools]
  /\ r.executing \in Int

\* On the way to a runtime, with one, and for the first with the tenant's lock.
Pending(c) == c.at \in {"acquire", "capacity", "evict", "create"}
Given(c) == c.at \in {"given", "run", "tool", "waiting"}
Holding(c) == c.at \in {"capacity", "evict", "create"}

PoolTypes ==
  /\ caller = [p \in Callers |-> caller[p]] /\ \A p \in Callers : IsCaller(caller[p])
  /\ resident = [t \in Tenants |-> resident[t]] /\ \A t \in Tenants : IsRuntime(resident[t])
  /\ locks \in [Locks -> Seq(Callers)] /\ ops \in Nat
  /\ \A p \in Callers : caller[p].victims \in Seq(Tenants \X Nat)
  /\ \A p \in Callers : caller[p].at \in {"evict", "close_one"} => caller[p].victims # <<>>
  /\ \A p \in Callers : caller[p].at = "revoke" => caller[p].tenant \in Tenants

\* The identities of runtimes, those to come included.
Ids ==
  /\ \A p \in Callers : Pending(caller[p]) \/ Given(caller[p]) =>
       caller[p].id \in Nat \ {0} /\ caller[p].id <= ops /\ caller[p].tenant \in Tenants
  /\ \A t \in Tenants : resident[t].id \in Nat /\ resident[t].id <= ops
  /\ \A t \in Tenants : resident[t].id = 0 => resident[t] = NoRuntime
  /\ \A p, q \in Callers : Pending(caller[p]) /\ q # p /\ (Pending(caller[q]) \/ Given(caller[q])) =>
       caller[q].id # caller[p].id
  /\ \A p \in Callers : Pending(caller[p]) => \A t \in Tenants : resident[t].id # caller[p].id

\* A caller that goes for the capacity.
Holder(p) ==
  /\ Holds(p, caller[p].tenant) /\ resident[caller[p].tenant] = NoRuntime
  /\ caller[p].at \in {"evict", "create"} => Holds(p, "capacity")
  /\ caller[p].at = "evict" => \A i \in DOMAIN caller[p].victims : caller[p].victims[i][1] # caller[p].tenant

Holders == \A p \in Callers : Holding(caller[p]) => Holder(p)

\* The runs that execute on the runtime of t, and the counter.
RunsOn(t) ==
  {p \in Callers : caller[p].at \in {"run", "tool"} /\ caller[p].tenant = t /\ caller[p].id = resident[t].id}

Counts == \A t \in Tenants : Cardinality(RunsOn(t)) <= resident[t].executing

PoolInv == PoolTypes /\ Ids /\ Holders /\ Counts

-----------------------------------------------------------------------------
(* What a step does to each part *)

\* Only p and its place change.
Step(p, c) == caller' = [caller EXCEPT ![p] = c]

LEMMA CallerMoves ==
  ASSUME PoolTypes, NEW p \in Callers, NEW c, Step(p, c)
  PROVE  /\ caller' = [q \in Callers |-> caller'[q]] /\ caller'[p] = c
         /\ \A q \in Callers : q # p => caller'[q] = caller[q]
BY SMT DEF PoolTypes, Step

\* Nobody but p loses a lock.
OthersHold(p) == \A q \in Callers, l \in Locks : q # p /\ Holds(q, l) => Holds(q, l)'

\* Releasing locks p holds, then joining the queue of another one.
LEMMA Releases ==
  ASSUME PoolTypes, NEW p \in Callers, NEW ls, \A l \in ls \cap Locks : Holds(p, l),
         NEW Q, Q = Release(locks, ls)
  PROVE  /\ Q \in [Locks -> Seq(Callers)]
         /\ \A l \in Locks : l \notin ls => Q[l] = locks[l]
         /\ \A q \in Callers, l \in Locks : q # p /\ Holds(q, l) => Q[l] = locks[l]
<1>1. Q = [l \in Locks |-> IF l \in ls THEN Tail(locks[l]) ELSE locks[l]]
  BY DEF Release, PoolTypes
<1>2. \A l \in ls \cap Locks : Tail(locks[l]) \in Seq(Callers)
  BY SMT DEF PoolTypes, Holds
<1>3. \A l \in Locks : locks[l] \in Seq(Callers)
  BY DEF PoolTypes
<1>4. Q \in [Locks -> Seq(Callers)]
  BY <1>1, <1>2, <1>3
<1>5. \A q \in Callers, l \in Locks : q # p /\ Holds(q, l) => l \notin ls
  BY DEF Holds
<1> QED BY <1>1, <1>4, <1>5

LEMMA Joins ==
  ASSUME NEW Q \in [Locks -> Seq(Callers)], NEW p \in Callers, NEW l \in Locks, NEW R, R = Join(Q, p, l)
  PROVE  /\ R \in [Locks -> Seq(Callers)]
         /\ \A k \in Locks : Q[k] # <<>> => R[k] # <<>> /\ Head(R[k]) = Head(Q[k])
<1>1. R = [Q EXCEPT ![l] = Append(Q[l], p)]
  BY DEF Join
<1>2. Append(Q[l], p) \in Seq(Callers)
  BY SMT
<1>3. R \in [Locks -> Seq(Callers)] /\ R[l] = Append(Q[l], p) /\ \A k \in Locks : k # l => R[k] = Q[k]
  BY <1>1, <1>2
<1>4. Q[l] # <<>> => Append(Q[l], p) # <<>> /\ Head(Append(Q[l], p)) = Head(Q[l])
  BY SMT
<1> QED BY <1>3, <1>4

\* The queues after a step of p: it has released ls and joined l.
LEMMA LocksMove ==
  ASSUME PoolTypes, NEW p \in Callers, NEW ls, \A l \in ls \cap Locks : Holds(p, l),
         \/ locks' = locks
         \/ locks' = Release(locks, ls)
         \/ \E l \in Locks : locks' = Join(Release(locks, ls), p, l)
         \/ \E l \in Locks : locks' = Join(locks, p, l)
  PROVE  /\ locks' \in [Locks -> Seq(Callers)] /\ OthersHold(p)
         /\ \A l \in Locks : l \notin ls /\ Holds(p, l) => Holds(p, l)'
<1> DEFINE Q == Release(locks, ls)
<1>0. locks \in [Locks -> Seq(Callers)]
  BY DEF PoolTypes
<1>1. /\ Q \in [Locks -> Seq(Callers)]
      /\ \A l \in Locks : l \notin ls => Q[l] = locks[l]
      /\ \A q \in Callers, l \in Locks : q # p /\ Holds(q, l) => Q[l] = locks[l]
  BY Releases
<1> HIDE DEF Q
<1>2. CASE locks' = locks
  BY <1>0, <1>2 DEF OthersHold, Holds
<1>3. CASE locks' = Q
  BY <1>1, <1>3 DEF OthersHold, Holds
<1>4. ASSUME NEW l \in Locks, locks' = Join(Q, p, l)
      PROVE  /\ locks' \in [Locks -> Seq(Callers)] /\ OthersHold(p)
             /\ \A k \in Locks : k \notin ls /\ Holds(p, k) => Holds(p, k)'
  <2>1. /\ locks' \in [Locks -> Seq(Callers)]
        /\ \A k \in Locks : Q[k] # <<>> => locks'[k] # <<>> /\ Head(locks'[k]) = Head(Q[k])
    BY SMT, <1>1, <1>4, Joins
  <2> QED BY <1>1, <2>1 DEF OthersHold, Holds
<1>5. ASSUME NEW l \in Locks, locks' = Join(locks, p, l)
      PROVE  /\ locks' \in [Locks -> Seq(Callers)] /\ OthersHold(p)
             /\ \A k \in Locks : k \notin ls /\ Holds(p, k) => Holds(p, k)'
  <2>1. /\ locks' \in [Locks -> Seq(Callers)]
        /\ \A k \in Locks : locks[k] # <<>> => locks'[k] # <<>> /\ Head(locks'[k]) = Head(locks[k])
    BY <1>0, <1>5, Joins
  <2> QED BY <2>1 DEF OthersHold, Holds
<1> QED BY <1>2, <1>3, <1>4, <1>5 DEF Q

LEMMA IdsMove ==
  ASSUME PoolTypes, Ids, NEW p \in Callers, \A q \in Callers : q # p => caller'[q] = caller[q],
         ops' \in Nat, ops <= ops',
         Pending(caller'[p]) \/ Given(caller'[p]) => caller'[p].tenant \in Tenants,
         Pending(caller'[p]) => \/ Pending(caller[p]) /\ caller'[p].id = caller[p].id
                                \/ caller'[p].id = ops + 1 /\ ops' = ops + 1,
         Given(caller'[p]) => \/ (Pending(caller[p]) \/ Given(caller[p])) /\ caller'[p].id = caller[p].id
                              \/ \E t \in Tenants : caller'[p].id = resident[t].id /\ resident[t].id # 0,
         \A t \in Tenants : \/ resident'[t].id \in {resident[t].id, 0}
                            \/ Pending(caller[p]) /\ ~Pending(caller'[p]) /\ resident'[t].id = caller[p].id,
         \A t \in Tenants : resident'[t].id = 0 => resident'[t] = NoRuntime
  PROVE  Ids'
<1>0. ops \in Nat
  BY DEF PoolTypes
<1>1. ASSUME NEW q \in Callers, Pending(caller'[q]) \/ Given(caller'[q])
      PROVE  caller'[q].id \in Nat \ {0} /\ caller'[q].id <= ops' /\ caller'[q].tenant \in Tenants
  <2>1. caller'[q].tenant \in Tenants
    BY <1>1 DEF Ids
  <2>2. \/ caller'[q].id \in Nat \ {0} /\ caller'[q].id <= ops
        \/ caller'[q].id = ops + 1 /\ ops' = ops + 1
    <3>1. CASE q # p
      BY <1>1, <3>1 DEF Ids
    <3>2. CASE q = p /\ Pending(caller'[p])
      BY <3>2 DEF Ids
    <3>3. CASE q = p /\ Given(caller'[p])
      BY <3>3 DEF Ids
    <3> QED BY <1>1, <3>1, <3>2, <3>3
  <2> QED BY SMT, <1>0, <2>1, <2>2
<1>2. ASSUME NEW t \in Tenants
      PROVE  resident'[t].id \in Nat /\ resident'[t].id <= ops'
  <2>1. \/ resident'[t].id \in Nat /\ resident'[t].id <= ops
        \/ resident'[t].id = 0
    BY DEF Ids
  <2> QED BY SMT, <1>0, <2>1
<1>3. \A q \in Callers : Pending(caller'[q]) => \A t \in Tenants : resident'[t].id # caller'[q].id
  BY SMT, <1>0 DEF Ids
<1>4. \A q, s \in Callers : Pending(caller'[q]) /\ s # q /\ (Pending(caller'[s]) \/ Given(caller'[s])) =>
        caller'[s].id # caller'[q].id
  BY SMT, <1>0 DEF Ids
<1> QED BY <1>1, <1>2, <1>3, <1>4 DEF Ids, Pending, Given

LEMMA HoldersMove ==
  ASSUME PoolTypes, Ids, Holders, NEW p \in Callers, \A q \in Callers : q # p => caller'[q] = caller[q],
         OthersHold(p), Holding(caller'[p]) => Holder(p)',
         \A t \in Tenants : resident[t] = NoRuntime => resident'[t] = NoRuntime \/ Holds(p, t)
  PROVE  Holders'
<1> SUFFICES ASSUME NEW q \in Callers, Holding(caller'[q]), q # p PROVE Holder(q)'
  BY DEF Holders, Holding
<1>1. Holder(q) /\ caller'[q] = caller[q] /\ caller[q].tenant \in Tenants
  BY DEF Holders, Holding, Ids, Pending
<1>2. ~Holds(p, caller[q].tenant)
  BY <1>1 DEF Holder, Holds
<1>3. \A l \in Locks : Holds(q, l) => Holds(q, l)'
  BY DEF OthersHold
<1> QED BY <1>1, <1>2, <1>3 DEF Holder, Locks, Holds

\* The counter of a runtime and the runs on it.
LEMMA RunsOnFinite == ASSUME NEW t PROVE IsFiniteSet(RunsOn(t)) /\ Cardinality(RunsOn(t)) \in Nat
<1>1. RunsOn(t) \subseteq Callers
  BY DEF RunsOn
<1> QED BY <1>1, PoolConstants, FS_Subset, FS_CardinalityType

LEMMA RunsOnFiniteThen == ASSUME NEW t PROVE IsFiniteSet(RunsOn(t)') /\ Cardinality(RunsOn(t)') \in Nat
<1>1. RunsOn(t)' \subseteq Callers
  BY DEF RunsOn
<1> QED BY <1>1, PoolConstants, FS_Subset, FS_CardinalityType

LEMMA CountsFewer ==
  ASSUME NEW t, Cardinality(RunsOn(t)) <= resident[t].executing, RunsOn(t)' \subseteq RunsOn(t),
         resident[t].executing \in Int, resident'[t].executing = resident[t].executing
  PROVE  (Cardinality(RunsOn(t)) <= resident[t].executing)'
<1>1. Cardinality(RunsOn(t)') <= Cardinality(RunsOn(t))
  BY RunsOnFinite, FS_Subset
<1> QED BY SMT, <1>1, RunsOnFinite, RunsOnFiniteThen

LEMMA CountsMore ==
  ASSUME NEW t, NEW p, Cardinality(RunsOn(t)) <= resident[t].executing, RunsOn(t)' \subseteq RunsOn(t) \cup {p},
         resident[t].executing \in Int, resident'[t].executing = resident[t].executing + 1
  PROVE  (Cardinality(RunsOn(t)) <= resident[t].executing)'
<1> DEFINE R == RunsOn(t) \cup {p}
<1>0. Cardinality(RunsOn(t)) \in Nat
  BY RunsOnFinite
<1>1. IsFiniteSet(R) /\ (Cardinality(R) = Cardinality(RunsOn(t)) \/ Cardinality(R) = Cardinality(RunsOn(t)) + 1)
  BY RunsOnFinite, FS_AddElement
<1>2. Cardinality(RunsOn(t)') <= Cardinality(R)
  BY <1>1, FS_Subset
<1> HIDE DEF R
<1> QED BY SMT, <1>0, <1>1, <1>2, RunsOnFiniteThen

LEMMA CountsLess ==
  ASSUME NEW t, NEW p \in RunsOn(t), Cardinality(RunsOn(t)) <= resident[t].executing,
         RunsOn(t)' \subseteq RunsOn(t) \ {p},
         resident[t].executing \in Int, resident'[t].executing = resident[t].executing - 1
  PROVE  (Cardinality(RunsOn(t)) <= resident[t].executing)'
<1> DEFINE R == RunsOn(t) \ {p}
<1>0. Cardinality(RunsOn(t)) \in Nat
  BY RunsOnFinite
<1>1. IsFiniteSet(R) /\ Cardinality(R) = Cardinality(RunsOn(t)) - 1
  BY RunsOnFinite, FS_RemoveElement
<1>2. Cardinality(RunsOn(t)') <= Cardinality(R)
  BY <1>1, FS_Subset
<1> HIDE DEF R
<1> QED BY SMT, <1>0, <1>1, <1>2, RunsOnFiniteThen

LEMMA CountsNone ==
  ASSUME NEW t, RunsOn(t)' = {}, resident'[t].executing \in Nat
  PROVE  (Cardinality(RunsOn(t)) <= resident[t].executing)'
<1>1. Cardinality({}) = 0
  BY FS_EmptySet
<1>2. 0 <= resident'[t].executing
  BY SMT
<1> QED BY <1>1, <1>2

\* A step that changes the runs of no runtime but that of t0, nor its counter.
LEMMA CountsMove ==
  ASSUME PoolTypes, Counts, NEW t0,
         \A t \in Tenants : t # t0 => /\ resident'[t].executing = resident[t].executing
                                      /\ RunsOn(t)' \subseteq RunsOn(t),
         t0 \in Tenants => (Cardinality(RunsOn(t0)) <= resident[t0].executing)'
  PROVE  Counts'
<1> SUFFICES ASSUME NEW t \in Tenants, t # t0 PROVE (Cardinality(RunsOn(t)) <= resident[t].executing)'
  BY DEF Counts
<1>1. Cardinality(RunsOn(t)) <= resident[t].executing /\ resident[t].executing \in Int
  BY DEF Counts, PoolTypes, IsRuntime
<1> QED BY <1>1, CountsFewer

LEMMA TypesMove ==
  ASSUME PoolTypes, NEW p \in Callers, NEW c, Step(p, c), IsCaller(c), c.victims \in Seq(Tenants \X Nat),
         c.at \in {"evict", "close_one"} => c.victims # <<>>, c.at = "revoke" => c.tenant \in Tenants,
         resident' = [t \in Tenants |-> resident'[t]], \A t \in Tenants : IsRuntime(resident'[t]),
         locks' \in [Locks -> Seq(Callers)], ops' \in Nat
  PROVE  PoolTypes'
<1>1. /\ caller' = [q \in Callers |-> caller'[q]] /\ caller'[p] = c
      /\ \A q \in Callers : q # p => caller'[q] = caller[q]
  BY CallerMoves
<1>2. \A q \in Callers : IsCaller(caller'[q]) /\ caller'[q].victims \in Seq(Tenants \X Nat)
  BY <1>1 DEF PoolTypes
<1>3. /\ \A q \in Callers : caller'[q].at \in {"evict", "close_one"} => caller'[q].victims # <<>>
      /\ \A q \in Callers : caller'[q].at = "revoke" => caller'[q].tenant \in Tenants
  BY <1>1 DEF PoolTypes
<1> QED BY <1>1, <1>2, <1>3 DEF PoolTypes, IsCaller, IsRuntime

LEMMA RestFields ==
  /\ IsCaller(AtRest) /\ AtRest.at = "rest" /\ AtRest.victims \in Seq(Tenants \X Nat) /\ AtRest.id = 0
  /\ IsRuntime(NoRuntime) /\ NoRuntime.id = 0 /\ NoRuntime.executing = 0 /\ ~NoRuntime.available
<1>1. IsCaller(AtRest) /\ AtRest.at = "rest" /\ AtRest.victims = <<>> /\ AtRest.id = 0
  BY DEF AtRest, IsCaller
<1>2. /\ NoRuntime = [id |-> NoRuntime.id, available |-> NoRuntime.available, idle |-> NoRuntime.idle,
                      active |-> NoRuntime.active, executing |-> NoRuntime.executing,
                      checkpointed |-> NoRuntime.checkpointed, tools |-> NoRuntime.tools]
      /\ NoRuntime.id = 0 /\ NoRuntime.executing = 0 /\ NoRuntime.available = FALSE
  BY DEF NoRuntime
<1>3. 0 \in Int /\ <<>> \in Seq(Tenants \X Nat)
  BY SMT
<1> QED BY <1>1, <1>2, <1>3 DEF IsRuntime

\* What becomes of the runtimes: each stays as it is, or no run executes on it, or its
\* tenant is revoked or the pool closed.
Kept ==
  \A t \in Tenants :
    \/ resident'[t].id = resident[t].id /\ resident'[t].available = resident[t].available
    \/ resident[t].id = 0
    \/ resident[t].executing = 0
    \/ \E q \in Callers : caller[q].at \in {"revoke", "close_one"} /\ caller'[q] # caller[q]

\* The runtime of t0, and only that, becomes r.
LEMMA OneRuntime ==
  ASSUME PoolTypes, NEW t0 \in Tenants, NEW r, IsRuntime(r), resident' = [resident EXCEPT ![t0] = r]
  PROVE  /\ resident' = [t \in Tenants |-> resident'[t]] /\ \A t \in Tenants : IsRuntime(resident'[t])
         /\ resident'[t0] = r /\ \A t \in Tenants : t # t0 => resident'[t] = resident[t]
<1>1. /\ resident' = [t \in Tenants |-> resident'[t]] /\ resident'[t0] = r
      /\ \A t \in Tenants : t # t0 => resident'[t] = resident[t]
  BY SMT DEF PoolTypes
<1> QED BY <1>1 DEF PoolTypes

\* A step of a caller with a runtime, on the runtime it was given if that is still there.
LEMMA OnRuntime ==
  ASSUME PoolInv, NEW p \in Callers, Given(caller[p]), NEW c, Step(p, c), IsCaller(c),
         c = AtRest \/ (Given(c) /\ c.tenant = caller[p].tenant /\ c.id = caller[p].id
                        /\ c.victims = caller[p].victims),
         UNCHANGED <<locks, ops>>, NEW t0, t0 = caller[p].tenant,
         \/ UNCHANGED resident
         \/ /\ resident[t0].id = caller[p].id
            /\ \E r : /\ IsRuntime(r) /\ resident' = [resident EXCEPT ![t0] = r]
                      /\ r.id = resident[t0].id /\ r.available = resident[t0].available,
         (Cardinality(RunsOn(t0)) <= resident[t0].executing)'
  PROVE  PoolInv' /\ Kept
<1>0. PoolTypes /\ Ids /\ Holders /\ Counts
  BY DEF PoolInv
<1>1. /\ caller' = [q \in Callers |-> caller'[q]] /\ caller'[p] = c
      /\ \A q \in Callers : q # p => caller'[q] = caller[q]
  BY <1>0, CallerMoves
<1>2. t0 \in Tenants /\ caller[p].id # 0
  BY <1>0 DEF Ids
<1>3. /\ resident' = [t \in Tenants |-> resident'[t]] /\ \A t \in Tenants : IsRuntime(resident'[t])
      /\ \A t \in Tenants : t # t0 => resident'[t] = resident[t]
      /\ resident'[t0].id = resident[t0].id /\ resident'[t0].available = resident[t0].available
      /\ resident'[t0] = resident[t0] \/ resident[t0].id = caller[p].id
  <2>1. CASE UNCHANGED resident
    BY <1>0, <2>1 DEF PoolTypes
  <2>2. CASE /\ resident[t0].id = caller[p].id
             /\ \E r : /\ IsRuntime(r) /\ resident' = [resident EXCEPT ![t0] = r]
                       /\ r.id = resident[t0].id /\ r.available = resident[t0].available
    <3>1. PICK r : /\ IsRuntime(r) /\ resident' = [resident EXCEPT ![t0] = r]
                   /\ r.id = resident[t0].id /\ r.available = resident[t0].available
      BY <2>2
    <3>2. /\ resident' = [t \in Tenants |-> resident'[t]] /\ \A t \in Tenants : IsRuntime(resident'[t])
          /\ resident'[t0] = r /\ \A t \in Tenants : t # t0 => resident'[t] = resident[t]
      BY <1>0, <1>2, <3>1, OneRuntime
    <3> QED BY <2>2, <3>1, <3>2
  <2> QED BY <2>1, <2>2
<1>4. ~Pending(c) /\ ~Holding(c) /\ c.at \notin {"evict", "close_one", "revoke"} /\ c.victims \in Seq(Tenants \X Nat)
  <2>1. CASE c = AtRest
    BY <2>1, RestFields DEF Pending, Holding
  <2>2. CASE Given(c) /\ c.victims = caller[p].victims
    BY <1>0, <2>2 DEF Pending, Holding, Given, PoolTypes
  <2> QED BY <2>1, <2>2
<1>5. PoolTypes'
  BY <1>0, <1>3, <1>4, TypesMove DEF PoolTypes
<1>6. Ids'
  <2>1. ops \in Nat /\ ops <= ops
    BY SMT, <1>0 DEF PoolTypes
  <2>2. Given(c) => c.tenant \in Tenants /\ c.id = caller[p].id
    BY <1>2, RestFields DEF Given
  <2>3. \A t \in Tenants : resident'[t].id = resident[t].id
    BY <1>3
  <2>4. \A t \in Tenants : resident'[t].id = 0 => resident'[t] = NoRuntime
    BY <1>0, <1>2, <1>3 DEF Ids
  <2> QED BY <1>0, <1>1, <1>4, <2>1, <2>2, <2>3, <2>4, IdsMove
<1>7. Holders'
  <2>1. OthersHold(p)
    BY DEF OthersHold, Holds
  <2>2. \A t \in Tenants : resident[t] = NoRuntime => resident'[t] = NoRuntime
    BY <1>2, <1>3, RestFields
  <2> QED BY <1>0, <1>1, <1>4, <2>1, <2>2, HoldersMove
<1>8. Counts'
  <2>1. ASSUME NEW t \in Tenants, t # t0
        PROVE  resident'[t].executing = resident[t].executing /\ RunsOn(t)' \subseteq RunsOn(t)
    <3>1. resident'[t] = resident[t]
      BY <1>3, <2>1
    <3>2. ~(c.at \in {"run", "tool"} /\ c.tenant = t)
      BY <2>1, RestFields
    <3> QED BY <1>1, <3>1, <3>2 DEF RunsOn
  <2> QED BY <1>0, <2>1, CountsMove
<1>9. Kept
  BY <1>3 DEF Kept
<1> QED BY <1>5, <1>6, <1>7, <1>8, <1>9 DEF PoolInv

-----------------------------------------------------------------------------
(* Runs on a runtime *)

RuntimeOf(i, v, d, a, e, k, n) ==
  [id |-> i, available |-> v, idle |-> d, active |-> a, executing |-> e, checkpointed |-> k, tools |-> n]

\* A runtime with other counters, just used.
Recounted(r, a, e, k, n) == RuntimeOf(r.id, r.available, FALSE, a, e, k, n)

LEMMA RecountedFields ==
  ASSUME NEW r, NEW a, NEW e \in Int, NEW k, NEW n
  PROVE  /\ IsRuntime(Recounted(r, a, e, k, n)) /\ Recounted(r, a, e, k, n).executing = e
         /\ Recounted(r, a, e, k, n).id = r.id /\ Recounted(r, a, e, k, n).available = r.available
BY DEF RuntimeOf, Recounted, IsRuntime

\* One field after the other.
SetIdle(r, x) == [r EXCEPT !.idle = x]
SetActive(r, x) == [r EXCEPT !.active = x]
SetExecuting(r, x) == [r EXCEPT !.executing = x]
SetCheckpointed(r, x) == [r EXCEPT !.checkpointed = x]
SetTools(r, x) == [r EXCEPT !.tools = x]

LEMMA IdleField ==
  ASSUME NEW i, NEW v, NEW d, NEW a, NEW e, NEW k, NEW n, NEW x
  PROVE  SetIdle(RuntimeOf(i, v, d, a, e, k, n), x) = RuntimeOf(i, v, x, a, e, k, n)
BY SMT DEF RuntimeOf, SetIdle

LEMMA ActiveField ==
  ASSUME NEW i, NEW v, NEW d, NEW a, NEW e, NEW k, NEW n, NEW x
  PROVE  SetActive(RuntimeOf(i, v, d, a, e, k, n), x) = RuntimeOf(i, v, d, x, e, k, n)
BY SMT DEF RuntimeOf, SetActive

LEMMA ExecutingField ==
  ASSUME NEW i, NEW v, NEW d, NEW a, NEW e, NEW k, NEW n, NEW x
  PROVE  SetExecuting(RuntimeOf(i, v, d, a, e, k, n), x) = RuntimeOf(i, v, d, a, x, k, n)
BY SMT DEF RuntimeOf, SetExecuting

LEMMA CheckpointedField ==
  ASSUME NEW i, NEW v, NEW d, NEW a, NEW e, NEW k, NEW n, NEW x
  PROVE  SetCheckpointed(RuntimeOf(i, v, d, a, e, k, n), x) = RuntimeOf(i, v, d, a, e, x, n)
BY SMT DEF RuntimeOf, SetCheckpointed

LEMMA ToolsField ==
  ASSUME NEW i, NEW v, NEW d, NEW a, NEW e, NEW k, NEW n, NEW x
  PROVE  SetTools(RuntimeOf(i, v, d, a, e, k, n), x) = RuntimeOf(i, v, d, a, e, k, x)
BY SMT DEF RuntimeOf, SetTools

LEMMA Touched ==
  ASSUME NEW r, NEW x, NEW y, NEW z, NEW w
  PROVE  touch(RuntimeOf(r.id, r.available, r.idle, x, y, z, w)) = Recounted(r, x, y, z, w)
<1>1. \A f : SetIdle(RuntimeOf(r.id, r.available, r.idle, x, y, z, w), f) = RuntimeOf(r.id, r.available, f, x, y, z, w)
  BY SMT, IdleField
<1> QED BY <1>1 DEF Recounted, touch, SetIdle

LEMMA AllCounters ==
  ASSUME NEW r, IsRuntime(r), NEW a, NEW e, NEW k, NEW n
  PROVE  touch(SetTools(SetCheckpointed(SetExecuting(SetActive(r, a), e), k), n)) = Recounted(r, a, e, k, n)
<1> DEFINE R(x, y, z, w) == RuntimeOf(r.id, r.available, r.idle, x, y, z, w)
<1>0. r = R(r.active, r.executing, r.checkpointed, r.tools)
  BY DEF IsRuntime, RuntimeOf
<1>1. SetActive(r, a) = R(a, r.executing, r.checkpointed, r.tools)
  BY SMT, <1>0, ActiveField
<1>2. SetExecuting(SetActive(r, a), e) = R(a, e, r.checkpointed, r.tools)
  BY SMT, <1>1, ExecutingField
<1>3. SetCheckpointed(SetExecuting(SetActive(r, a), e), k) = R(a, e, k, r.tools)
  BY SMT, <1>2, CheckpointedField
<1>4. SetTools(SetCheckpointed(SetExecuting(SetActive(r, a), e), k), n) = R(a, e, k, n)
  BY SMT, <1>3, ToolsField
<1> QED BY <1>4, Touched

LEMMA CountersChange ==
  ASSUME NEW r, IsRuntime(r), NEW a, NEW e, NEW k, NEW n
  PROVE  /\ touch([r EXCEPT !.active = a, !.executing = e]) = Recounted(r, a, e, r.checkpointed, r.tools)
         /\ touch([r EXCEPT !.tools = n]) = Recounted(r, r.active, r.executing, r.checkpointed, n)
         /\ touch([r EXCEPT !.executing = e, !.checkpointed = k]) = Recounted(r, r.active, e, k, r.tools)
         /\ touch(r) = Recounted(r, r.active, r.executing, r.checkpointed, r.tools)
<1> DEFINE R(x, y, z, w) == RuntimeOf(r.id, r.available, r.idle, x, y, z, w)
<1>0. r = R(r.active, r.executing, r.checkpointed, r.tools)
  BY DEF IsRuntime, RuntimeOf
<1>1. SetActive(r, a) = R(a, r.executing, r.checkpointed, r.tools)
  BY SMT, <1>0, ActiveField
<1>2. SetExecuting(SetActive(r, a), e) = R(a, e, r.checkpointed, r.tools)
  BY SMT, <1>1, ExecutingField
<1>3. SetExecuting(r, e) = R(r.active, e, r.checkpointed, r.tools)
  BY SMT, <1>0, ExecutingField
<1>4. SetCheckpointed(SetExecuting(r, e), k) = R(r.active, e, k, r.tools)
  BY SMT, <1>3, CheckpointedField
<1>5. SetTools(r, n) = R(r.active, r.executing, r.checkpointed, n)
  BY SMT, <1>0, ToolsField
<1>6. /\ [r EXCEPT !.active = a, !.executing = e] = SetExecuting(SetActive(r, a), e)
      /\ [r EXCEPT !.executing = e, !.checkpointed = k] = SetCheckpointed(SetExecuting(r, e), k)
      /\ [r EXCEPT !.tools = n] = SetTools(r, n)
  BY DEF SetActive, SetExecuting, SetCheckpointed, SetTools
<1>7. \A x, y, z, w : touch(R(x, y, z, w)) = Recounted(r, x, y, z, w)
  BY Touched
<1> HIDE DEF R
<1>8. touch([r EXCEPT !.active = a, !.executing = e]) = Recounted(r, a, e, r.checkpointed, r.tools)
  BY SMT, <1>2, <1>6, <1>7
<1>9. touch([r EXCEPT !.tools = n]) = Recounted(r, r.active, r.executing, r.checkpointed, n)
  BY SMT, <1>5, <1>6, <1>7
<1>10. touch([r EXCEPT !.executing = e, !.checkpointed = k]) = Recounted(r, r.active, e, k, r.tools)
  BY SMT, <1>4, <1>6, <1>7
<1>11. touch(r) = Recounted(r, r.active, r.executing, r.checkpointed, r.tools)
  BY <1>0, <1>7
<1> QED BY <1>8, <1>9, <1>10, <1>11

\* The place of a caller alone.
Placed(p, at) == caller' = [caller EXCEPT ![p].at = at]
PlacedAs(p, at, c) ==
  /\ Step(p, c) /\ IsCaller(c) /\ c.at = at /\ c.tenant = caller[p].tenant
  /\ c.id = caller[p].id /\ c.victims = caller[p].victims

LEMMA PlaceMoves ==
  ASSUME PoolTypes, NEW p \in Callers, NEW at, Placed(p, at)
  PROVE  \E c : PlacedAs(p, at, c)
<1> DEFINE c == [caller[p] EXCEPT !.at = at]
<1>1. Step(p, c)
  BY DEF Step, Placed
<1>2. c = [at |-> at, tenant |-> caller[p].tenant, victims |-> caller[p].victims, id |-> caller[p].id,
           recovery |-> caller[p].recovery]
  <2>1. caller[p] = [at |-> caller[p].at, tenant |-> caller[p].tenant, victims |-> caller[p].victims,
                     id |-> caller[p].id, recovery |-> caller[p].recovery]
    BY Zenon DEF PoolTypes, IsCaller
  <2> QED BY ONLY <2>1, SMT
<1>3. IsCaller(c) /\ c.at = at /\ c.tenant = caller[p].tenant
      /\ c.id = caller[p].id /\ c.victims = caller[p].victims
  BY <1>2 DEF IsCaller
<1> HIDE DEF c
<1> QED BY <1>1, <1>3 DEF PlacedAs

\* A run begins, its tools begin and end, it waits and ends.
LEMMA RunsMove ==
  ASSUME PoolInv, NEW p \in Callers,
         \/ begin_run(p) \/ mark_tool_execution_started(p) \/ mark_tool_execution_finished(p)
         \/ mark_awaiting_user(p) \/ EndRun(p)
  PROVE  PoolInv' /\ Kept
<1>a. PICK t0 : t0 = caller[p].tenant
  OBVIOUS
<1>b. PICK r : r = resident[t0]
  OBVIOUS
<1>0. PoolTypes /\ Ids /\ Counts
  BY DEF PoolInv
<1>1. Given(caller[p])
  BY DEF begin_run, mark_tool_execution_started, mark_tool_execution_finished, mark_awaiting_user, EndRun,
         Given
<1>2. UNCHANGED <<locks, ops>>
  BY DEF begin_run, mark_tool_execution_started, mark_tool_execution_finished, mark_awaiting_user, EndRun
<1>3. t0 \in Tenants /\ IsRuntime(r) /\ r.executing \in Int /\ Cardinality(RunsOn(t0)) <= r.executing
  BY <1>0, <1>1, <1>a, <1>b DEF Ids, PoolTypes, Counts, IsRuntime
<1>c. r.executing \in Int /\ r.executing + 1 \in Int /\ r.executing - 1 \in Int
  BY SMT, <1>3
\* The caller goes to c, the runtime gets other counters if it is the caller's.
<1>4. ASSUME NEW c, Step(p, c), IsCaller(c), NEW a, NEW e \in Int, NEW k, NEW n,
             c = AtRest \/ (Given(c) /\ c.tenant = t0 /\ c.id = caller[p].id /\ c.victims = caller[p].victims),
             NEW x, Counted(p, x), touch(x) = Recounted(r, a, e, k, n),
             r.id = caller[p].id =>
               \/ e = r.executing /\ (c.at \in {"run", "tool"} => caller[p].at \in {"run", "tool"})
               \/ e = r.executing + 1
               \/ e = r.executing - 1 /\ caller[p].at \in {"run", "tool"} /\ c.at \notin {"run", "tool"}
      PROVE  PoolInv' /\ Kept
  <2>1. /\ caller'[p] = c /\ \A q \in Callers : q # p => caller'[q] = caller[q]
    BY <1>0, <1>4, CallerMoves
  <2>2. CASE r.id = caller[p].id
    <3> DEFINE R == Recounted(r, a, e, k, n)
    <3>1. IsRuntime(R) /\ R.executing = e /\ R.id = r.id /\ R.available = r.available
      <4>1. e \in Int
        BY <1>4
      <4> QED BY SMT, <4>1, RecountedFields
    <3>2. resident' = [resident EXCEPT ![t0] = R]
      BY <1>4, <1>a, <1>b, <2>2 DEF Counted
    <3> HIDE DEF R
    <3>3. resident'[t0] = R
      BY <1>0, <1>3, <3>1, <3>2, OneRuntime
    <3>4. \A q \in Callers : q # p => (q \in RunsOn(t0)' <=> q \in RunsOn(t0))
      <4>1. resident'[t0].id = resident[t0].id
        BY <1>b, <3>1, <3>3
      <4> QED BY <2>1, <4>1 DEF RunsOn
    <3>5. resident'[t0].executing = e /\ resident[t0].executing = r.executing
      BY <1>b, <3>1, <3>3
    <3>6. (Cardinality(RunsOn(t0)) <= resident[t0].executing)'
      <4>1. CASE e = r.executing /\ (c.at \in {"run", "tool"} => caller[p].at \in {"run", "tool"})
        <5>1. p \in RunsOn(t0)' => p \in RunsOn(t0)
          BY <1>a, <1>b, <2>1, <2>2, <4>1 DEF RunsOn
        <5>2. RunsOn(t0)' \subseteq RunsOn(t0)
          BY <3>4, <5>1 DEF RunsOn
        <5> QED BY <1>3, <3>5, <4>1, <5>2, CountsFewer
      <4>2. CASE e = r.executing + 1
        <5>1. RunsOn(t0)' \subseteq RunsOn(t0) \cup {p}
          BY <3>4 DEF RunsOn
        <5> QED BY <1>3, <3>5, <4>2, <5>1, CountsMore
      <4>3. CASE e = r.executing - 1 /\ caller[p].at \in {"run", "tool"} /\ c.at \notin {"run", "tool"}
        <5>1. p \in RunsOn(t0)
          BY <1>a, <1>b, <2>2, <4>3 DEF RunsOn
        <5>2. RunsOn(t0)' \subseteq RunsOn(t0) \ {p}
          BY <2>1, <3>4, <4>3 DEF RunsOn
        <5> QED BY <1>3, <3>5, <4>3, <5>1, <5>2, CountsLess
      <4> QED BY <1>4, <2>2, <4>1, <4>2, <4>3
    <3> QED BY <1>a, <1>b, <1>1, <1>2, <1>4, <2>2, <3>1, <3>2, <3>6, OnRuntime
  <2>3. CASE r.id # caller[p].id
    <3>1. UNCHANGED resident
      BY <1>4, <1>a, <1>b, <2>3 DEF Counted
    <3>2. \A q \in Callers : q \in RunsOn(t0)' => q \in RunsOn(t0)
      <4>1. c = AtRest \/ c.id = caller[p].id
        BY <1>4
      <4>2. p \notin RunsOn(t0)'
        BY <1>b, <2>1, <2>3, <3>1, <4>1, RestFields DEF RunsOn
      <4> QED BY <2>1, <3>1, <4>2 DEF RunsOn
    <3>3. (Cardinality(RunsOn(t0)) <= resident[t0].executing)'
      <4>1. RunsOn(t0)' \subseteq RunsOn(t0)
        BY <3>2 DEF RunsOn
      <4>2. resident'[t0].executing = resident[t0].executing /\ resident[t0].executing = r.executing
        BY <1>b, <3>1
      <4> QED BY <1>3, <4>1, <4>2, CountsFewer
    <3> QED BY <1>a, <1>1, <1>2, <1>4, <3>1, <3>3, OnRuntime
  <2> QED BY <2>2, <2>3
<1>5. CASE begin_run(p)
  <2>1. CASE ~Usable(p)
    <3>1. Step(p, AtRest) /\ UNCHANGED resident
      BY <1>5, <2>1 DEF begin_run, Step
    <3>2. (Cardinality(RunsOn(t0)) <= resident[t0].executing)'
      <4>1. caller'[p] = AtRest /\ \A q \in Callers : q # p => caller'[q] = caller[q]
        BY <1>0, <3>1, CallerMoves
      <4>2. RunsOn(t0)' \subseteq RunsOn(t0)
        BY <3>1, <4>1, RestFields DEF RunsOn
      <4> QED BY <1>3, <1>b, <3>1, <4>2, CountsFewer
    <3> QED BY <1>1, <1>2, <1>a, <3>1, <3>2, OnRuntime, RestFields
  <2>2. CASE Usable(p)
    <3>1. Placed(p, "run")
      BY <1>5, <2>2 DEF Placed, begin_run
    <3>2. PICK c : PlacedAs(p, "run", c)
      BY <1>0, <3>1, PlaceMoves
    <3>3. PICK x : Counted(p, x) /\ touch(x) = Recounted(r, r.active + 1, r.executing + 1, r.checkpointed, r.tools)
      <4>1. Counted(p, [r EXCEPT !.active = r.active + 1, !.executing = r.executing + 1])
        BY <1>5, <1>a, <1>b, <2>2 DEF begin_run
      <4>2. touch([r EXCEPT !.active = r.active + 1, !.executing = r.executing + 1])
            = Recounted(r, r.active + 1, r.executing + 1, r.checkpointed, r.tools)
        BY <1>3, CountersChange
      <4> QED BY <4>1, <4>2
    <3>4. Given(c) /\ c.tenant = t0
      BY <1>a, <3>2 DEF Given, PlacedAs
    <3> QED BY <1>c, <1>4, <3>2, <3>3, <3>4 DEF PlacedAs
  <2> QED BY <2>1, <2>2
<1>6. CASE mark_tool_execution_started(p)
  <2>1. Placed(p, "tool")
    BY <1>6 DEF Placed, mark_tool_execution_started
  <2>2. PICK c : PlacedAs(p, "tool", c)
    BY <1>0, <2>1, PlaceMoves
  <2>3. PICK x : Counted(p, x) /\ touch(x) = Recounted(r, r.active, r.executing, r.checkpointed, r.tools + 1)
    <3>1. Counted(p, [r EXCEPT !.tools = r.tools + 1])
      BY <1>6, <1>a, <1>b DEF mark_tool_execution_started
    <3>2. touch([r EXCEPT !.tools = r.tools + 1]) = Recounted(r, r.active, r.executing, r.checkpointed, r.tools + 1)
      BY <1>3, CountersChange
    <3> QED BY <3>1, <3>2
  <2>4. Given(c) /\ c.tenant = t0 /\ caller[p].at \in {"run", "tool"}
    BY <1>6, <1>a, <2>2 DEF mark_tool_execution_started, Given, PlacedAs
  <2> QED BY <1>c, <1>4, <2>2, <2>3, <2>4 DEF PlacedAs
<1>7. CASE mark_tool_execution_finished(p)
  <2>1. Placed(p, "run")
    BY <1>7 DEF Placed, mark_tool_execution_finished
  <2>2. PICK c : PlacedAs(p, "run", c)
    BY <1>0, <2>1, PlaceMoves
  <2>3. PICK x : Counted(p, x) /\ touch(x) = Recounted(r, r.active, r.executing, r.checkpointed, r.tools - 1)
    <3>1. Counted(p, [r EXCEPT !.tools = r.tools - 1])
      BY <1>7, <1>a, <1>b DEF mark_tool_execution_finished
    <3>2. touch([r EXCEPT !.tools = r.tools - 1]) = Recounted(r, r.active, r.executing, r.checkpointed, r.tools - 1)
      BY <1>3, CountersChange
    <3> QED BY <3>1, <3>2
  <2>4. Given(c) /\ c.tenant = t0 /\ caller[p].at \in {"run", "tool"}
    BY <1>7, <1>a, <2>2 DEF mark_tool_execution_finished, Given, PlacedAs
  <2> QED BY <1>c, <1>4, <2>2, <2>3, <2>4 DEF PlacedAs
<1>8. CASE mark_awaiting_user(p)
  <2>1. Placed(p, "waiting")
    BY <1>8 DEF Placed, mark_awaiting_user
  <2>2. PICK c : PlacedAs(p, "waiting", c)
    BY <1>0, <2>1, PlaceMoves
  <2>3. PICK x : Counted(p, x) /\ touch(x) = Recounted(r, r.active, r.executing - 1, r.checkpointed + 1, r.tools)
    <3>1. Counted(p, [r EXCEPT !.executing = r.executing - 1, !.checkpointed = r.checkpointed + 1])
      BY <1>8, <1>a, <1>b DEF mark_awaiting_user
    <3>2. touch([r EXCEPT !.executing = r.executing - 1, !.checkpointed = r.checkpointed + 1])
          = Recounted(r, r.active, r.executing - 1, r.checkpointed + 1, r.tools)
      BY <1>3, CountersChange
    <3> QED BY <3>1, <3>2
  <2>4. Given(c) /\ c.tenant = t0 /\ caller[p].at \in {"run", "tool"} /\ c.at \notin {"run", "tool"}
    BY <1>8, <1>a, <2>2 DEF mark_awaiting_user, Given, PlacedAs
  <2> QED BY <1>c, <1>4, <2>2, <2>3, <2>4 DEF PlacedAs
<1>9. CASE EndRun(p)
  <2>1. Step(p, AtRest) /\ caller[p].at \in {"run", "tool", "waiting"}
    BY <1>9 DEF EndRun, Step
  <2>2. PICK e, k, n : /\ e = IF caller[p].at = "waiting" THEN r.executing ELSE r.executing - 1
                       /\ k = IF caller[p].at = "waiting" THEN r.checkpointed - 1 ELSE r.checkpointed
                       /\ n = IF caller[p].at = "tool" THEN r.tools - 1 ELSE r.tools
    OBVIOUS
  <2>3. PICK x : Counted(p, x) /\ touch(x) = Recounted(r, r.active - 1, e, k, n)
    <3> DEFINE y == SetTools(SetCheckpointed(SetExecuting(SetActive(r, r.active - 1), e), k), n)
    <3>1. Counted(p, [r EXCEPT !.active = r.active - 1, !.executing = e, !.checkpointed = k, !.tools = n])
      BY <1>9, <1>a, <1>b, <2>2 DEF EndRun
    <3>2. [r EXCEPT !.active = r.active - 1, !.executing = e, !.checkpointed = k, !.tools = n] = y
      BY DEF SetActive, SetExecuting, SetCheckpointed, SetTools
    <3>3. Counted(p, y)
      BY SMT, <3>1, <3>2
    <3>4. touch(y) = Recounted(r, r.active - 1, e, k, n)
      BY <1>3, AllCounters
    <3> QED BY <3>3, <3>4
  <2>4. /\ e \in Int
        /\ \/ e = r.executing /\ caller[p].at = "waiting"
           \/ e = r.executing - 1 /\ caller[p].at \in {"run", "tool"}
    BY <1>c, <2>1, <2>2
  <2> QED BY <1>4, <2>1, <2>3, <2>4, RestFields
<1> QED BY <1>5, <1>6, <1>7, <1>8, <1>9

-----------------------------------------------------------------------------
(* The way to a runtime, and the end of one *)

\* What a step of p, that goes to c, may do to a runtime: remove it, keep it in
\* place, or put a new one under the lock of its tenant.
RuntimeChange(p, c) ==
  \/ UNCHANGED resident
  \/ \E t0 \in Tenants : \E r :
       /\ IsRuntime(r) /\ resident' = [resident EXCEPT ![t0] = r]
       /\ \/ r = NoRuntime
          \/ resident[t0].id # 0 /\ r.id = resident[t0].id /\ r.executing = resident[t0].executing
          \/ /\ Pending(caller[p]) /\ ~Pending(c) /\ Holds(p, t0)
             /\ r.id = caller[p].id /\ r.executing \in Nat
       /\ \/ r.id = resident[t0].id /\ r.available = resident[t0].available
          \/ resident[t0].id = 0
          \/ resident[t0].executing = 0
          \/ caller[p].at \in {"revoke", "close_one"} /\ c # caller[p]

RuntimesMove(p, c) ==
  /\ resident' = [t \in Tenants |-> resident'[t]] /\ \A t \in Tenants : IsRuntime(resident'[t])
  /\ \A t \in Tenants :
       \/ resident'[t] = resident[t]
       \/ resident'[t] = NoRuntime
       \/ resident[t].id # 0 /\ resident'[t].id = resident[t].id /\ resident'[t].executing = resident[t].executing
       \/ /\ Pending(caller[p]) /\ ~Pending(c) /\ Holds(p, t)
          /\ resident'[t].id = caller[p].id /\ resident'[t].executing \in Nat
  /\ \A t \in Tenants :
       \/ resident'[t].id = resident[t].id /\ resident'[t].available = resident[t].available
       \/ resident[t].id = 0
       \/ resident[t].executing = 0
       \/ caller[p].at \in {"revoke", "close_one"} /\ c # caller[p]

LEMMA RuntimesChange ==
  ASSUME PoolTypes, NEW p \in Callers, NEW c, RuntimeChange(p, c)
  PROVE  RuntimesMove(p, c)
<1>1. CASE UNCHANGED resident
  BY <1>1 DEF RuntimesMove, PoolTypes
<1>2. ASSUME NEW t0 \in Tenants, NEW r, IsRuntime(r), resident' = [resident EXCEPT ![t0] = r],
             \/ r = NoRuntime
             \/ resident[t0].id # 0 /\ r.id = resident[t0].id /\ r.executing = resident[t0].executing
             \/ /\ Pending(caller[p]) /\ ~Pending(c) /\ Holds(p, t0)
                /\ r.id = caller[p].id /\ r.executing \in Nat,
             \/ r.id = resident[t0].id /\ r.available = resident[t0].available
             \/ resident[t0].id = 0
             \/ resident[t0].executing = 0
             \/ caller[p].at \in {"revoke", "close_one"} /\ c # caller[p]
      PROVE  RuntimesMove(p, c)
  <2>1. /\ resident' = [t \in Tenants |-> resident'[t]] /\ \A t \in Tenants : IsRuntime(resident'[t])
        /\ resident'[t0] = r /\ \A t \in Tenants : t # t0 => resident'[t] = resident[t]
    BY <1>2, OneRuntime
  <2> QED BY <1>2, <2>1 DEF RuntimesMove
<1> QED BY <1>1, <1>2 DEF RuntimeChange

\* A caller that goes to c holds what it needs there.
StillHolds(p, c, ls) ==
  Holding(c) =>
    /\ c.tenant = caller[p].tenant /\ c.tenant \notin ls
    /\ Holds(p, c.tenant) /\ resident[c.tenant] = NoRuntime
    /\ c.at \in {"evict", "create"} => Holds(p, "capacity") /\ "capacity" \notin ls
    /\ c.at = "evict" => \A i \in DOMAIN c.victims : c.victims[i][1] # c.tenant

\* The callers' identities after a step of p to c.
Numbered(p, c) ==
  /\ ops' \in Nat /\ ops <= ops'
  /\ Pending(c) \/ Given(c) \/ c.at = "revoke" => c.tenant \in Tenants
  /\ Pending(c) => \/ Pending(caller[p]) /\ c.id = caller[p].id
                   \/ c.id = ops + 1 /\ ops' = ops + 1
  /\ Given(c) => \/ (Pending(caller[p]) \/ Given(caller[p])) /\ c.id = caller[p].id
                 \/ \E t \in Tenants : c.id = resident[t].id /\ resident[t].id # 0

LEMMA PoolMove ==
  ASSUME PoolInv, NEW p \in Callers, NEW c, Step(p, c), IsCaller(c), c.victims \in Seq(Tenants \X Nat),
         c.at \in {"evict", "close_one"} => c.victims # <<>>, c.at \notin {"run", "tool"},
         Numbered(p, c), RuntimeChange(p, c),
         NEW ls, \A l \in ls \cap Locks : Holds(p, l), StillHolds(p, c, ls),
         \/ locks' = locks
         \/ locks' = Release(locks, ls)
         \/ \E l \in Locks : locks' = Join(Release(locks, ls), p, l)
         \/ \E l \in Locks : locks' = Join(locks, p, l)
  PROVE  PoolInv' /\ Kept
<1>0. PoolTypes /\ Ids /\ Holders /\ Counts
  BY DEF PoolInv
<1>1. /\ caller' = [q \in Callers |-> caller'[q]] /\ caller'[p] = c
      /\ \A q \in Callers : q # p => caller'[q] = caller[q]
  BY <1>0, CallerMoves
<1>2. RuntimesMove(p, c)
  BY <1>0, RuntimesChange
<1>3. /\ locks' \in [Locks -> Seq(Callers)] /\ OthersHold(p)
      /\ \A l \in Locks : l \notin ls /\ Holds(p, l) => Holds(p, l)'
  BY <1>0, LocksMove
<1>4. PoolTypes'
  BY <1>0, <1>2, <1>3, TypesMove DEF RuntimesMove, Numbered
<1>5. \A t \in Tenants : resident'[t].id = 0 => resident'[t] = NoRuntime
  BY <1>0, <1>2 DEF RuntimesMove, Ids
<1>6. Ids'
  <2>1. \A t \in Tenants : \/ resident'[t].id \in {resident[t].id, 0}
                           \/ Pending(caller[p]) /\ ~Pending(caller'[p]) /\ resident'[t].id = caller[p].id
    BY <1>1, <1>2, RestFields DEF RuntimesMove
  <2> QED BY <1>0, <1>1, <1>5, <2>1, IdsMove DEF Numbered
<1>7. Holders'
  <2>1. \A t \in Tenants : resident[t] = NoRuntime => resident'[t] = NoRuntime \/ Holds(p, t)
    BY <1>2, RestFields DEF RuntimesMove
  <2>2. Holding(c) => Holder(p)'
    <3> SUFFICES ASSUME Holding(c) PROVE Holder(p)'
      OBVIOUS
    <3>1. Pending(c) /\ c.tenant \in Tenants /\ c.tenant \in Locks /\ "capacity" \in Locks
      BY DEF Holding, Pending, Numbered, Locks
    <3>2. resident'[c.tenant] = NoRuntime
      BY <1>2, <3>1, RestFields DEF RuntimesMove, StillHolds
    <3>3. Holds(p, c.tenant)' /\ (c.at \in {"evict", "create"} => Holds(p, "capacity")')
      BY <1>3, <3>1 DEF StillHolds, Holds
    <3> QED BY <1>1, <3>2, <3>3 DEF Holder, StillHolds, Holds
  <2> QED BY <1>0, <1>1, <1>3, <2>1, <2>2, HoldersMove
<1>8. Counts'
  <2> SUFFICES ASSUME NEW t \in Tenants PROVE (Cardinality(RunsOn(t)) <= resident[t].executing)'
    BY DEF Counts
  <2>1. Cardinality(RunsOn(t)) <= resident[t].executing /\ resident[t].executing \in Int
    BY <1>0 DEF Counts, PoolTypes, IsRuntime
  <2>2. p \notin RunsOn(t)'
    BY <1>1 DEF RunsOn
  <2>3. CASE resident'[t].id = resident[t].id /\ resident'[t].executing = resident[t].executing
    <3>1. RunsOn(t)' \subseteq RunsOn(t)
      BY <1>1, <2>2, <2>3 DEF RunsOn
    <3> QED BY <2>1, <2>3, <3>1, CountsFewer
  <2>4. CASE resident'[t] = NoRuntime
    <3>1. RunsOn(t)' = {}
      <4>1. \A q \in Callers : Given(caller[q]) => caller[q].id # 0
        BY <1>0 DEF Ids
      <4> QED BY <1>1, <2>2, <2>4, <4>1, RestFields DEF RunsOn, Given
    <3>2. resident'[t].executing \in Nat
      BY SMT, <2>4, RestFields
    <3> QED BY <3>1, <3>2, CountsNone
  <2>5. CASE /\ Pending(caller[p]) /\ resident'[t].id = caller[p].id /\ resident'[t].executing \in Nat
    <3>1. \A q \in Callers : q # p /\ Given(caller[q]) => caller[q].id # caller[p].id
      BY <1>0, <2>5 DEF Ids
    <3>2. RunsOn(t)' = {}
      BY <1>1, <2>2, <2>5, <3>1 DEF RunsOn, Given
    <3> QED BY <2>5, <3>2, CountsNone
  <2> QED BY <1>2, <2>3, <2>4, <2>5 DEF RuntimesMove
<1>9. Kept
  BY <1>1, <1>2 DEF RuntimesMove, Kept
<1> QED BY <1>4, <1>6, <1>7, <1>8, <1>9 DEF PoolInv

-----------------------------------------------------------------------------
(* The actions of the pool *)

CallerOf(a, t, v, i, y) == [at |-> a, tenant |-> t, victims |-> v, id |-> i, recovery |-> y]
PutAt(c, x) == [c EXCEPT !.at = x]
PutTenant(c, x) == [c EXCEPT !.tenant = x]
PutVictims(c, x) == [c EXCEPT !.victims = x]
PutId(c, x) == [c EXCEPT !.id = x]
PutRecovery(c, x) == [c EXCEPT !.recovery = x]

LEMMA AtField ==
  ASSUME NEW a, NEW t, NEW v, NEW i, NEW y, NEW x PROVE PutAt(CallerOf(a, t, v, i, y), x) = CallerOf(x, t, v, i, y)
BY SMT DEF CallerOf, PutAt

LEMMA TenantField ==
  ASSUME NEW a, NEW t, NEW v, NEW i, NEW y, NEW x PROVE PutTenant(CallerOf(a, t, v, i, y), x) = CallerOf(a, x, v, i, y)
BY SMT DEF CallerOf, PutTenant

LEMMA VictimsField ==
  ASSUME NEW a, NEW t, NEW v, NEW i, NEW y, NEW x PROVE PutVictims(CallerOf(a, t, v, i, y), x) = CallerOf(a, t, x, i, y)
BY SMT DEF CallerOf, PutVictims

LEMMA IdField ==
  ASSUME NEW a, NEW t, NEW v, NEW i, NEW y, NEW x PROVE PutId(CallerOf(a, t, v, i, y), x) = CallerOf(a, t, v, x, y)
BY SMT DEF CallerOf, PutId

LEMMA RecoveryField ==
  ASSUME NEW a, NEW t, NEW v, NEW i, NEW y, NEW x PROVE PutRecovery(CallerOf(a, t, v, i, y), x) = CallerOf(a, t, v, i, x)
BY SMT DEF CallerOf, PutRecovery

LEMMA CallerFields ==
  ASSUME NEW a, NEW t, NEW v, NEW i, NEW y, NEW c, c = CallerOf(a, t, v, i, y)
  PROVE  IsCaller(c) /\ c.at = a /\ c.tenant = t /\ c.victims = v /\ c.id = i
BY DEF CallerOf, IsCaller

\* The caller that begins an operation.
BeginnerOf(at, t, i, y) == [AtRest EXCEPT !.at = at, !.tenant = t, !.id = i, !.recovery = y]

LEMMA Beginner ==
  ASSUME NEW at, NEW t, NEW i, NEW y
  PROVE  BeginnerOf(at, t, i, y) = CallerOf(at, t, <<>>, i, y)
<1>0. \E z : AtRest = CallerOf("rest", "none", <<>>, 0, z)
  BY DEF AtRest, CallerOf
<1>1. PICK z : AtRest = CallerOf("rest", "none", <<>>, 0, z)
  BY <1>0
<1>2. PutAt(AtRest, at) = CallerOf(at, "none", <<>>, 0, z)
  BY SMT, <1>1, AtField
<1>3. PutTenant(PutAt(AtRest, at), t) = CallerOf(at, t, <<>>, 0, z)
  BY SMT, <1>2, TenantField
<1>4. PutId(PutTenant(PutAt(AtRest, at), t), i) = CallerOf(at, t, <<>>, i, z)
  BY SMT, <1>3, IdField
<1>5. PutRecovery(PutId(PutTenant(PutAt(AtRest, at), t), i), y) = CallerOf(at, t, <<>>, i, y)
  BY SMT, <1>4, RecoveryField
<1>6. BeginnerOf(at, t, i, y) = PutRecovery(PutId(PutTenant(PutAt(AtRest, at), t), i), y)
  BY DEF BeginnerOf, PutAt, PutTenant, PutId, PutRecovery
<1> QED BY SMT, <1>5, <1>6

\* The place of a caller and one more field.
PlacedWithId(p, at, x) == caller' = [caller EXCEPT ![p].at = at, ![p].id = x]
PlacedWithVictims(p, at, x) == caller' = [caller EXCEPT ![p].at = at, ![p].victims = x]

MovedTo(p, c, at, v, i) ==
  /\ Step(p, c) /\ IsCaller(c) /\ c.at = at /\ c.tenant = caller[p].tenant
  /\ c.victims = v /\ c.id = i

LEMMA TwoFields ==
  ASSUME PoolTypes, NEW p \in Callers, NEW at, NEW x
  PROVE  /\ PlacedWithId(p, at, x) => \E c : MovedTo(p, c, at, caller[p].victims, x)
         /\ PlacedWithVictims(p, at, x) => \E c : MovedTo(p, c, at, x, caller[p].id)
<1> DEFINE C(a, v, i) == CallerOf(a, caller[p].tenant, v, i, caller[p].recovery)
<1>0. caller[p] = C(caller[p].at, caller[p].victims, caller[p].id)
  BY DEF PoolTypes, IsCaller, CallerOf
<1>1. PutAt(caller[p], at) = C(at, caller[p].victims, caller[p].id)
  BY SMT, <1>0, AtField
<1>2. PutId(PutAt(caller[p], at), x) = C(at, caller[p].victims, x)
  BY SMT, <1>1, IdField
<1>3. PutVictims(PutAt(caller[p], at), x) = C(at, x, caller[p].id)
  BY SMT, <1>1, VictimsField
<1>4. ASSUME PlacedWithId(p, at, x)
      PROVE  Step(p, PutId(PutAt(caller[p], at), x))
  BY <1>4 DEF PoolTypes, Step, PutId, PutAt, PlacedWithId
<1>5. ASSUME PlacedWithVictims(p, at, x)
      PROVE  Step(p, PutVictims(PutAt(caller[p], at), x))
  BY <1>5 DEF PoolTypes, Step, PutVictims, PutAt, PlacedWithVictims
<1>6. ASSUME NEW v, NEW i, NEW c, c = C(at, v, i)
      PROVE  IsCaller(c) /\ c.at = at /\ c.tenant = caller[p].tenant /\ c.victims = v /\ c.id = i
  BY SMT, <1>6, CallerFields
<1> HIDE DEF C
<1>7. ASSUME PlacedWithId(p, at, x)
      PROVE  \E c : MovedTo(p, c, at, caller[p].victims, x)
  <2>1. PICK c : c = C(at, caller[p].victims, x)
    OBVIOUS
  <2>2. Step(p, c)
    BY <1>2, <1>4, <1>7, <2>1
  <2>3. IsCaller(c) /\ c.at = at /\ c.tenant = caller[p].tenant /\ c.victims = caller[p].victims /\ c.id = x
    BY SMT, <1>6, <2>1
  <2> QED BY <2>2, <2>3 DEF MovedTo
<1>8. ASSUME PlacedWithVictims(p, at, x)
      PROVE  \E c : MovedTo(p, c, at, x, caller[p].id)
  <2>1. PICK c : c = C(at, x, caller[p].id)
    OBVIOUS
  <2>2. Step(p, c)
    BY <1>3, <1>5, <1>8, <2>1
  <2>3. IsCaller(c) /\ c.at = at /\ c.tenant = caller[p].tenant /\ c.victims = x /\ c.id = caller[p].id
    BY SMT, <1>6, <2>1
  <2> QED BY <2>2, <2>3 DEF MovedTo
<1> QED BY <1>7, <1>8

LEMMA Begins ==
  ASSUME PoolInv, NEW p \in Callers, NEW t \in Tenants, NEW at \in {"acquire", "revoke"}, Begin(p, t, at)
  PROVE  PoolInv' /\ Kept
<1>0. ops \in Nat /\ ops + 1 \in Nat /\ ops <= ops + 1 /\ <<>> \in Seq(Tenants \X Nat)
  BY SMT DEF PoolInv, PoolTypes
<1>1. PICK y : Step(p, BeginnerOf(at, t, ops + 1, y))
  BY DEF Begin, Step, BeginnerOf
<1>2. PICK c : Step(p, c) /\ c = CallerOf(at, t, <<>>, ops + 1, y)
  BY SMT, <1>1, Beginner
<1>3. Step(p, c) /\ IsCaller(c) /\ c.at = at /\ c.tenant = t /\ c.victims = <<>> /\ c.id = ops + 1
  BY SMT, <1>2, CallerFields
<1>4. ops' = ops + 1 /\ locks' = Join(locks, p, t) /\ UNCHANGED resident /\ t \in Locks
  BY DEF Begin, Locks
<1>5. Numbered(p, c) /\ RuntimeChange(p, c) /\ StillHolds(p, c, {})
  BY <1>0, <1>3, <1>4 DEF Numbered, RuntimeChange, StillHolds, Pending, Given, Holding
<1>6. c.victims \in Seq(Tenants \X Nat) /\ c.at \notin {"evict", "close_one", "run", "tool"}
  BY <1>0, <1>3
<1> QED BY <1>3, <1>4, <1>5, <1>6, PoolMove

LEMMA Closes ==
  ASSUME PoolInv, NEW p \in Callers, close(p)
  PROVE  PoolInv' /\ Kept
<1>0. ops \in Nat /\ ops + 1 \in Nat /\ ops <= ops + 1 /\ PoolTypes
  BY SMT DEF PoolInv, PoolTypes
<1>1. Placed(p, "close")
  BY DEF close, Placed
<1>2. PICK c : PlacedAs(p, "close", c)
  BY <1>0, <1>1, PlaceMoves
<1>3. ops' = ops + 1 /\ locks' = Join(locks, p, "capacity") /\ UNCHANGED resident /\ "capacity" \in Locks
  BY DEF close, Locks
<1>4. Numbered(p, c) /\ RuntimeChange(p, c) /\ StillHolds(p, c, {})
  BY <1>0, <1>2, <1>3 DEF Numbered, RuntimeChange, StillHolds, Pending, Given, Holding, PlacedAs
<1>5. /\ Step(p, c) /\ IsCaller(c) /\ c.victims \in Seq(Tenants \X Nat)
      /\ c.at \notin {"evict", "close_one", "run", "tool"}
  BY <1>0, <1>2 DEF PlacedAs, PoolTypes
<1> QED BY <1>3, <1>4, <1>5, PoolMove

\* A caller leaves the pool.
LEMMA Leaves ==
  ASSUME PoolInv, NEW p \in Callers, Step(p, AtRest), UNCHANGED ops, RuntimeChange(p, AtRest),
         NEW ls, \A l \in ls \cap Locks : Holds(p, l), locks' = Release(locks, ls)
  PROVE  PoolInv' /\ Kept
<1>0. ops \in Nat /\ ops <= ops
  BY SMT DEF PoolInv, PoolTypes
<1>1. Numbered(p, AtRest) /\ StillHolds(p, AtRest, ls) /\ AtRest.at \notin {"evict", "close_one", "run", "tool"}
  BY <1>0, RestFields DEF Numbered, StillHolds, Pending, Given, Holding
<1> QED BY <1>1, RestFields, PoolMove

LEMMA AcquiresResident ==
  ASSUME PoolInv, NEW p \in Callers, acquire_resident(p)
  PROVE  PoolInv' /\ Kept
<1>a. PICK t : t = caller[p].tenant
  OBVIOUS
<1>b. PICK r : r = resident[t]
  OBVIOUS
<1>0. /\ PoolTypes /\ ops \in Nat /\ ops <= ops /\ UNCHANGED ops /\ Pending(caller[p]) /\ Holds(p, t)
      /\ caller[p].at = "acquire"
  BY SMT, <1>a DEF PoolInv, PoolTypes, acquire_resident, Pending
<1>1. t \in Tenants /\ t \in Locks /\ "capacity" \in Locks /\ IsRuntime(r)
      /\ (r.id = 0 => r = NoRuntime)
  BY <1>0, <1>a, <1>b DEF PoolInv, Ids, Locks, PoolTypes
<1>2. CASE r = NoRuntime
  <2>1. locks' = Join(locks, p, "capacity") /\ Placed(p, "capacity") /\ UNCHANGED resident
    BY <1>2, <1>a, <1>b DEF acquire_resident, Placed
  <2>2. PICK c : PlacedAs(p, "capacity", c)
    BY <1>0, <2>1, PlaceMoves
  <2>3. Numbered(p, c) /\ RuntimeChange(p, c) /\ StillHolds(p, c, {})
    BY <1>0, <1>1, <1>2, <1>a, <1>b, <2>1, <2>2
       DEF Numbered, RuntimeChange, StillHolds, Pending, Given, Holding, PlacedAs
  <2>4. /\ Step(p, c) /\ IsCaller(c) /\ c.victims \in Seq(Tenants \X Nat)
        /\ c.at \notin {"evict", "close_one", "run", "tool"}
    BY <1>0, <2>2 DEF PlacedAs, PoolTypes
  <2> QED BY <1>1, <2>1, <2>3, <2>4, PoolMove
<1>3. CASE r # NoRuntime /\ (poolClosed \/ ~r.available)
  <2>1. locks' = Release(locks, {t}) /\ Step(p, AtRest) /\ UNCHANGED resident
    BY <1>3, <1>a, <1>b DEF acquire_resident, Step
  <2> QED BY <1>0, <2>1, Leaves DEF RuntimeChange
<1>4. CASE r # NoRuntime /\ ~(poolClosed \/ ~r.available)
  <2>1. /\ locks' = Release(locks, {t}) /\ PlacedWithId(p, "given", r.id)
        /\ resident' = [resident EXCEPT ![t] = touch(r)]
    BY <1>4, <1>a, <1>b DEF acquire_resident, PlacedWithId
  <2>a. PICK c : MovedTo(p, c, "given", caller[p].victims, r.id)
    BY <1>0, <2>1, TwoFields
  <2>2. /\ Step(p, c) /\ IsCaller(c) /\ c.at = "given" /\ c.tenant = caller[p].tenant
        /\ c.victims = caller[p].victims /\ c.id = r.id
    BY <2>a DEF MovedTo
  <2>3. PICK x : /\ resident' = [resident EXCEPT ![t] = x] /\ IsRuntime(x)
                 /\ x.id = r.id /\ x.executing = r.executing /\ x.available = r.available
    <3>1. touch(r) = Recounted(r, r.active, r.executing, r.checkpointed, r.tools)
      BY <1>1, CountersChange
    <3>2. r.executing \in Int
      BY <1>1 DEF IsRuntime
    <3>3. PICK x : x = touch(r)
      OBVIOUS
    <3>4. IsRuntime(x) /\ x.id = r.id /\ x.executing = r.executing /\ x.available = r.available
      BY SMT, <3>1, <3>2, <3>3, RecountedFields
    <3> QED BY <2>1, <3>3, <3>4
  <2>4. RuntimeChange(p, c)
    BY <1>1, <1>4, <1>b, <2>3 DEF RuntimeChange
  <2>5. Numbered(p, c) /\ StillHolds(p, c, {t})
    BY <1>0, <1>1, <1>4, <1>a, <1>b, <2>2 DEF Numbered, StillHolds, Pending, Given, Holding
  <2>6. c.victims \in Seq(Tenants \X Nat) /\ c.at \notin {"evict", "close_one", "run", "tool"}
    BY <1>0, <2>2 DEF PoolTypes
  <2> QED BY <1>0, <2>1, <2>2, <2>4, <2>5, <2>6, PoolMove
<1> QED BY <1>2, <1>3, <1>4

\* Onwards to the next runtime, the creation or an error.
LEMMA GoesOnward ==
  ASSUME PoolInv, NEW p \in Callers, caller[p].at \in {"capacity", "evict"}, Holds(p, "capacity"),
         NEW left \in Seq(Tenants \X Nat), \A i \in DOMAIN left : left[i][1] # caller[p].tenant,
         NEW room, NEW released, \A l \in released : Holds(p, l),
         caller[p].tenant \notin released, "capacity" \notin released,
         Onward(p, left, room, released), UNCHANGED ops, \A c : RuntimeChange(p, c)
  PROVE  PoolInv' /\ Kept
<1>0. /\ PoolTypes /\ ops \in Nat /\ ops <= ops /\ Pending(caller[p]) /\ Holder(p)
      /\ <<>> \in Seq(Tenants \X Nat)
  BY SMT DEF PoolInv, PoolTypes, Pending, Holders, Holding
<1>1. caller[p].tenant \in Tenants
  BY <1>0 DEF PoolInv, Ids
<1>2. ASSUME NEW at \in {"evict", "create"}, NEW v \in Seq(Tenants \X Nat), PlacedWithVictims(p, at, v),
             at = "evict" => v # <<>> /\ \A i \in DOMAIN v : v[i][1] # caller[p].tenant,
             \/ locks' = Release(locks, released)
             \/ \E l \in Locks : locks' = Join(Release(locks, released), p, l)
      PROVE  PoolInv' /\ Kept
  <2>1. PICK c : MovedTo(p, c, at, v, caller[p].id)
    BY <1>0, <1>2, TwoFields
  <2>2. /\ Step(p, c) /\ IsCaller(c) /\ c.at = at /\ c.tenant = caller[p].tenant
        /\ c.victims = v /\ c.id = caller[p].id
    BY <2>1 DEF MovedTo
  <2>3. Numbered(p, c)
    BY <1>0, <1>1, <1>2, <2>2 DEF Numbered, Pending, Given
  <2>4. StillHolds(p, c, released)
    BY <1>0, <1>2, <2>2 DEF StillHolds, Holder
  <2>5. c.at \notin {"run", "tool"} /\ (c.at \in {"evict", "close_one"} => c.victims # <<>>)
    BY <1>2, <2>2
  <2> QED BY <1>2, <2>2, <2>3, <2>4, <2>5, PoolMove
<1>3. CASE left # <<>>
  <2>1. Head(left)[1] \in Locks
    <3>1. Head(left) \in Tenants \X Nat
      BY SMT, <1>3
    <3>2. \A e \in Tenants \X Nat : e[1] \in Tenants
      OBVIOUS
    <3> QED BY <3>1, <3>2 DEF Locks
  <2>2. PlacedWithVictims(p, "evict", left) /\ locks' = Join(Release(locks, released), p, Head(left)[1])
    BY <1>3 DEF Onward, PlacedWithVictims
  <2> QED BY <1>2, <1>3, <2>1, <2>2
<1>4. CASE left = <<>> /\ room
  <2>1. PlacedWithVictims(p, "create", <<>>) /\ locks' = Release(locks, released)
    BY <1>4 DEF Onward, PlacedWithVictims
  <2> QED BY <1>0, <1>2, <2>1
<1>5. CASE left = <<>> /\ ~room
  <2> DEFINE ls == {caller[p].tenant, "capacity"} \cup released
  <2>1. Step(p, AtRest) /\ locks' = Release(locks, ls)
    BY <1>5 DEF Onward, Refuse, Step
  <2>2. \A l \in ls : Holds(p, l)
    BY <1>0 DEF Holder
  <2> HIDE DEF ls
  <2> QED BY <2>1, <2>2, Leaves
<1> QED BY <1>3, <1>4, <1>5

\* The runtimes there are, in some order.
LEMMA Snapshots ==
  ASSUME PoolTypes, Ids, NEW order \in Orders(Resident)
  PROVE  /\ Snapshot(order) \in Seq(Tenants \X Nat)
         /\ \A i \in DOMAIN Snapshot(order) : resident[Snapshot(order)[i][1]] # NoRuntime
<1>1. Resident \subseteq Tenants /\ \A t \in Resident : resident[t].id \in Nat /\ resident[t] # NoRuntime
  BY DEF Resident, Ids
<1>2. PICK n \in Nat : order \in [1..n -> Resident]
  <2>1. Cardinality(Resident) \in Nat
    BY <1>1, PoolConstants, FS_Subset, FS_CardinalityType
  <2> QED BY <2>1 DEF Orders
<1>3. Snapshot(order) = [i \in 1..n |-> <<order[i], resident[order[i]].id>>]
  BY <1>2 DEF Snapshot
<1>4. \A i \in 1..n : order[i] \in Resident
  BY <1>2
<1>5. \A i \in 1..n : <<order[i], resident[order[i]].id>> \in Tenants \X Nat
  BY <1>1, <1>4
<1>6. Snapshot(order) \in [1..n -> Tenants \X Nat]
  BY <1>3, <1>5
<1>7. Snapshot(order) \in Seq(Tenants \X Nat)
  BY SMT, <1>2, <1>6
<1>8. \A i \in 1..n : Snapshot(order)[i][1] = order[i]
  <2>1. \A a, b : <<a, b>>[1] = a
    OBVIOUS
  <2>2. \A i \in 1..n : Snapshot(order)[i] = <<order[i], resident[order[i]].id>>
    BY <1>3
  <2> QED BY SMT, <2>1, <2>2
<1>9. DOMAIN Snapshot(order) = 1..n
  BY <1>3
<1> QED BY <1>1, <1>4, <1>7, <1>8, <1>9

LEMMA EnsuresCapacity ==
  ASSUME PoolInv, NEW p \in Callers, ensure_capacity(p)
  PROVE  PoolInv' /\ Kept
<1>0. /\ PoolTypes /\ Ids /\ Holder(p) /\ caller[p].at = "capacity" /\ Holds(p, "capacity")
      /\ UNCHANGED <<resident, ops>> /\ \A c : RuntimeChange(p, c)
  BY DEF PoolInv, Holders, Holding, ensure_capacity, RuntimeChange
<1>1. CASE Refuse(p, {})
  <2> DEFINE ls == {caller[p].tenant, "capacity"} \cup {}
  <2>1. Step(p, AtRest) /\ locks' = Release(locks, ls)
    BY <1>1 DEF Refuse, Step
  <2>2. \A l \in ls : Holds(p, l)
    BY <1>0 DEF Holder
  <2> HIDE DEF ls
  <2> QED BY <1>0, <2>1, <2>2, Leaves
<1>2. CASE Onward(p, <<>>, TRUE, {})
  <2>1. PICK left, none : left = <<>> /\ none = {}
    OBVIOUS
  <2>2. left \in Seq(Tenants \X Nat) /\ DOMAIN left = {}
    BY SMT, <2>1
  <2>3. PICK room : Onward(p, left, room, none)
    BY <1>2, <2>1
  <2> QED BY <1>0, <2>1, <2>2, <2>3, GoesOnward
<1>3. ASSUME NEW order \in Orders(Resident), Onward(p, Snapshot(order), FALSE, {})
      PROVE  PoolInv' /\ Kept
  <2>1. PICK left, none : left = Snapshot(order) /\ none = {}
    OBVIOUS
  <2>2. left \in Seq(Tenants \X Nat)
    BY <1>0, <1>3, <2>1, Snapshots
  <2>3. \A i \in DOMAIN left : left[i][1] # caller[p].tenant
    BY <1>0, <1>3, <2>1, Snapshots DEF Holder
  <2>4. PICK room : Onward(p, left, room, none)
    BY <1>3, <2>1
  <2>5. (\A l \in none : Holds(p, l)) /\ caller[p].tenant \notin none /\ "capacity" \notin none
    BY <2>1
  <2> QED BY <1>0, <2>2, <2>3, <2>4, <2>5, GoesOnward
<1> QED BY <1>1, <1>2, <1>3 DEF ensure_capacity

\* A runtime without availability.
LEMMA Unavailable ==
  ASSUME NEW r, IsRuntime(r)
  PROVE  /\ IsRuntime([r EXCEPT !.available = FALSE]) /\ [r EXCEPT !.available = FALSE].id = r.id
         /\ [r EXCEPT !.available = FALSE].executing = r.executing
<1>1. PICK d, x : x = [r EXCEPT !.available = d] /\ d = FALSE
  OBVIOUS
<1>2. x = RuntimeOf(r.id, d, r.idle, r.active, r.executing, r.checkpointed, r.tools)
  BY SMT, <1>1 DEF RuntimeOf, IsRuntime
<1>3. IsRuntime(x) /\ x.id = r.id /\ x.executing = r.executing
  BY <1>2 DEF RuntimeOf, IsRuntime
<1> QED BY <1>1, <1>3

\* What closing the runtime of v does.
LEMMA RuntimeEnds ==
  ASSUME PoolInv, NEW p \in Callers, NEW v \in Tenants, resident[v] # NoRuntime, NEW c,
         \/ resident' = [resident EXCEPT ![v] = NoRuntime]
         \/ resident' = [resident EXCEPT ![v].available = FALSE],
         \/ resident[v].executing = 0
         \/ caller[p].at \in {"revoke", "close_one"} /\ c # caller[p]
  PROVE  RuntimeChange(p, c)
<1>1. IsRuntime(resident[v]) /\ resident[v].id # 0
  BY DEF PoolInv, PoolTypes, Ids
<1>2. CASE resident' = [resident EXCEPT ![v] = NoRuntime]
  BY <1>2, RestFields DEF RuntimeChange
<1>3. CASE resident' = [resident EXCEPT ![v].available = FALSE]
  <2>1. PICK x : x = [resident[v] EXCEPT !.available = FALSE]
    OBVIOUS
  <2>2. IsRuntime(x) /\ x.id = resident[v].id /\ x.executing = resident[v].executing
    BY <1>1, <2>1, Unavailable
  <2>3. resident' = [resident EXCEPT ![v] = x]
    BY <1>3, <2>1
  <2> QED BY <1>1, <2>2, <2>3 DEF RuntimeChange
<1> QED BY <1>2, <1>3

\* The first of the victims and the rest.
LEMMA VictimsFields ==
  ASSUME NEW w \in Seq(Tenants \X Nat), w # <<>>
  PROVE  /\ Head(w)[1] \in Tenants /\ Tail(w) \in Seq(Tenants \X Nat) /\ Tail(w) # w /\ Head(w) = w[1]
         /\ 1 \in DOMAIN w
         /\ \A i \in DOMAIN Tail(w) : i + 1 \in DOMAIN w /\ Tail(w)[i] = w[i + 1]
<1>1. Head(w) \in Tenants \X Nat
  BY SMT
<1>2. \A e \in Tenants \X Nat : e[1] \in Tenants
  OBVIOUS
<1>3. Tail(w) \in Seq(Tenants \X Nat) /\ Len(Tail(w)) = Len(w) - 1 /\ Len(w) \in Nat
  BY SMT
<1>4. Tail(w) # w
  <2>1. \A n \in Nat : n - 1 # n
    BY SMT
  <2> QED BY <1>3, <2>1
<1>5. Head(w) = w[1] /\ 1 \in DOMAIN w
  BY SMT
<1>6. \A i \in DOMAIN Tail(w) : i + 1 \in DOMAIN w /\ Tail(w)[i] = w[i + 1]
  <2>1. DOMAIN Tail(w) = 1..(Len(w) - 1) /\ DOMAIN w = 1..Len(w)
    BY SMT, <1>3
  <2>2. \A i \in 1..(Len(w) - 1) : Tail(w)[i] = w[i + 1]
    BY SMT
  <2>3. \A i \in 1..(Len(w) - 1) : i + 1 \in 1..Len(w)
    BY SMT, <1>3
  <2> QED BY <2>1, <2>2, <2>3
<1> QED BY <1>1, <1>2, <1>3, <1>4, <1>5, <1>6

LEMMA EvictsIfSafe ==
  ASSUME PoolInv, NEW p \in Callers, NEW closes, evict_if_safe(p, closes)
  PROVE  PoolInv' /\ Kept
<1>a. PICK w : w = caller[p].victims
  OBVIOUS
<1>b. PICK v : v = Head(w)[1]
  OBVIOUS
<1>0. /\ caller[p].at = "evict" /\ Holds(p, v) /\ UNCHANGED ops
  BY <1>a, <1>b DEF evict_if_safe
<1>1. Holder(p) /\ w \in Seq(Tenants \X Nat) /\ w # <<>>
  BY <1>0, <1>a DEF PoolInv, Holders, Holding, PoolTypes
<1>2. /\ v \in Tenants /\ Tail(w) \in Seq(Tenants \X Nat) /\ Head(w) = w[1] /\ 1 \in DOMAIN w
      /\ \A i \in DOMAIN Tail(w) : i + 1 \in DOMAIN w /\ Tail(w)[i] = w[i + 1]
  BY <1>1, <1>b, VictimsFields
<1>3. v # caller[p].tenant /\ \A i \in DOMAIN Tail(w) : Tail(w)[i][1] # caller[p].tenant
  BY <1>0, <1>1, <1>2, <1>a, <1>b DEF Holder
<1>4. v # "capacity" /\ Holds(p, "capacity")
  BY <1>0, <1>1, <1>2, PoolConstants DEF Holder
<1>5. PICK room : Onward(p, Tail(w), room, {v})
  BY <1>a, <1>b DEF evict_if_safe
<1>6. \/ UNCHANGED resident
      \/ /\ resident[v] # NoRuntime /\ can_evict(resident[v])
         /\ \/ resident' = [resident EXCEPT ![v] = NoRuntime]
            \/ resident' = [resident EXCEPT ![v].available = FALSE]
  BY <1>a, <1>b DEF evict_if_safe
<1>7. \A c : RuntimeChange(p, c)
  <2>1. CASE UNCHANGED resident
    BY <2>1 DEF RuntimeChange
  <2>2. CASE ~UNCHANGED resident
    <3>1. resident[v].executing = 0
      BY <1>6, <2>2 DEF can_evict
    <3> QED BY <1>2, <1>6, <2>2, <3>1, RuntimeEnds
  <2> QED BY <2>1, <2>2
<1> QED BY <1>0, <1>2, <1>3, <1>4, <1>5, <1>7, GoesOnward

\* The runtime a caller creates.
IdOf(r, x) == [r EXCEPT !.id = x]
AvailableOf(r, x) == [r EXCEPT !.available = x]

NewOf(i, k) == apply_workflow_counters([NoRuntime EXCEPT !.id = i, !.available = TRUE], k)

LEMMA NewRuntime ==
  ASSUME NEW i, NEW k, NEW x, x = NewOf(i, k)
  PROVE  /\ x.id = i /\ x.executing = k.executing
         /\ x = [id |-> x.id, available |-> x.available, idle |-> x.idle, active |-> x.active,
                 executing |-> x.executing, checkpointed |-> x.checkpointed, tools |-> x.tools]
<1>1. PICK d, f, z : d = TRUE /\ f = FALSE /\ z = RuntimeOf(0, f, f, 0, 0, 0, 0) /\ NoRuntime = z
  BY DEF NoRuntime, RuntimeOf
<1>2. IdOf(z, i) = RuntimeOf(i, f, f, 0, 0, 0, 0)
  BY SMT, <1>1 DEF IdOf, RuntimeOf
<1>3. AvailableOf(RuntimeOf(i, f, f, 0, 0, 0, 0), d) = RuntimeOf(i, d, f, 0, 0, 0, 0)
  BY SMT DEF AvailableOf, RuntimeOf
<1>4. [NoRuntime EXCEPT !.id = i, !.available = TRUE] = AvailableOf(IdOf(z, i), d)
  BY <1>1 DEF AvailableOf, IdOf
<1>5. [NoRuntime EXCEPT !.id = i, !.available = TRUE] = RuntimeOf(i, d, f, 0, 0, 0, 0)
  BY <1>2, <1>3, <1>4
<1>6. x = SetCheckpointed(SetExecuting(SetActive(RuntimeOf(i, d, f, 0, 0, 0, 0), k.active), k.executing),
                          k.checkpointed)
  BY <1>5 DEF NewOf, apply_workflow_counters, SetActive, SetExecuting, SetCheckpointed
<1>7. SetActive(RuntimeOf(i, d, f, 0, 0, 0, 0), k.active) = RuntimeOf(i, d, f, k.active, 0, 0, 0)
  BY SMT, ActiveField
<1>8. SetExecuting(RuntimeOf(i, d, f, k.active, 0, 0, 0), k.executing)
      = RuntimeOf(i, d, f, k.active, k.executing, 0, 0)
  BY SMT, ExecutingField
<1>9. SetCheckpointed(RuntimeOf(i, d, f, k.active, k.executing, 0, 0), k.checkpointed)
      = RuntimeOf(i, d, f, k.active, k.executing, k.checkpointed, 0)
  BY SMT, CheckpointedField
<1>10. x = RuntimeOf(i, d, f, k.active, k.executing, k.checkpointed, 0)
  BY <1>6, <1>7, <1>8, <1>9
<1> QED BY SMT, <1>10 DEF RuntimeOf

LEMMA Creates ==
  ASSUME PoolInv, NEW p \in Callers, create(p)
  PROVE  PoolInv' /\ Kept
<1>a. PICK t : t = caller[p].tenant
  OBVIOUS
<1>0. /\ PoolTypes /\ ops \in Nat /\ ops <= ops /\ UNCHANGED ops /\ Pending(caller[p]) /\ Holder(p)
      /\ caller[p].at = "create"
  BY SMT DEF PoolInv, PoolTypes, Pending, create, Holders, Holding
<1>1. t \in Tenants /\ resident[t] = NoRuntime /\ Holds(p, t) /\ Holds(p, "capacity")
  BY <1>0, <1>a DEF PoolInv, Ids, Holder
<1>2. Placed(p, "given") /\ locks' = Release(locks, {t, "capacity"})
  BY <1>a DEF create, Placed
<1>3. PICK c : PlacedAs(p, "given", c)
  BY <1>0, <1>2, PlaceMoves
<1>4. PICK x : x = NewOf(caller[p].id, load_workflow_counters(t)) /\ resident' = [resident EXCEPT ![t] = x]
  BY <1>a DEF create, NewOf
<1>5. load_workflow_counters(t).executing \in {0, 1}
  BY DEF load_workflow_counters, get_runtime_counters
<1>6. IsRuntime(x) /\ x.id = caller[p].id /\ x.executing \in Nat
  <2>1. /\ x.id = caller[p].id /\ x.executing = load_workflow_counters(t).executing
        /\ x = [id |-> x.id, available |-> x.available, idle |-> x.idle, active |-> x.active,
                executing |-> x.executing, checkpointed |-> x.checkpointed, tools |-> x.tools]
    BY SMT, <1>4, NewRuntime
  <2>2. x.executing \in Nat /\ x.executing \in Int
    BY SMT, <1>5, <2>1
  <2> QED BY <2>1, <2>2 DEF IsRuntime
<1>7. RuntimeChange(p, c)
  <2>1. ~Pending(c)
    BY <1>3 DEF PlacedAs, Pending
  <2> QED BY <1>0, <1>1, <1>4, <1>6, <2>1, RestFields DEF RuntimeChange
<1>8. Numbered(p, c) /\ StillHolds(p, c, {t, "capacity"})
  BY <1>0, <1>1, <1>3, <1>a DEF Numbered, StillHolds, Pending, Given, Holding, PlacedAs
<1>9. /\ Step(p, c) /\ IsCaller(c) /\ c.victims \in Seq(Tenants \X Nat)
      /\ c.at \notin {"evict", "close_one", "run", "tool"}
  BY <1>0, <1>3 DEF PlacedAs, PoolTypes
<1> QED BY <1>1, <1>2, <1>7, <1>8, <1>9, PoolMove

LEMMA CreationFails ==
  ASSUME PoolInv, NEW p \in Callers, create_fails(p)
  PROVE  PoolInv' /\ Kept
<1>0. /\ Holder(p) /\ caller[p].at = "create" /\ UNCHANGED <<resident, ops>> /\ RuntimeChange(p, AtRest)
  BY DEF PoolInv, Holders, Holding, create_fails, RuntimeChange
<1> DEFINE ls == {caller[p].tenant, "capacity"} \cup {}
<1>1. Step(p, AtRest) /\ locks' = Release(locks, ls)
  BY DEF create_fails, Refuse, Step
<1>2. \A l \in ls : Holds(p, l)
  BY <1>0 DEF Holder
<1> HIDE DEF ls
<1> QED BY <1>0, <1>1, <1>2, Leaves

LEMMA Revokes ==
  ASSUME PoolInv, NEW p \in Callers, NEW closes, revoke_runtime(p, closes)
  PROVE  PoolInv' /\ Kept
<1>a. PICK t : t = caller[p].tenant
  OBVIOUS
<1>0. /\ caller[p].at = "revoke" /\ Holds(p, t) /\ UNCHANGED ops
      /\ Step(p, AtRest) /\ locks' = Release(locks, {t}) /\ CloseRuntime(t, closes)
  BY <1>a DEF revoke_runtime, Step
<1>1. t \in Tenants /\ AtRest # caller[p]
  BY <1>0, <1>a, RestFields DEF PoolInv, PoolTypes
<1>2. CASE resident[t] = NoRuntime
  BY <1>0, <1>2, Leaves DEF CloseRuntime, RuntimeChange
<1>3. CASE resident[t] # NoRuntime
  <2>1. \/ resident' = [resident EXCEPT ![t] = NoRuntime]
        \/ resident' = [resident EXCEPT ![t].available = FALSE]
    BY <1>0, <1>3 DEF CloseRuntime
  <2>2. RuntimeChange(p, AtRest)
    BY <1>0, <1>1, <1>3, <2>1, RuntimeEnds
  <2> QED BY <1>0, <2>2, Leaves
<1> QED BY <1>2, <1>3

\* The next runtime the shutdown closes, or its end.
LEMMA ClosesNext ==
  ASSUME PoolInv, NEW p \in Callers, NEW left \in Seq(Tenants \X Nat),
         NEW released, \A l \in released : Holds(p, l), NextToClose(p, left, released), UNCHANGED ops,
         \A c : (c.at = "rest" \/ c.victims = left) => RuntimeChange(p, c)
  PROVE  PoolInv' /\ Kept
<1>0. PoolTypes /\ ops \in Nat /\ ops <= ops
  BY SMT DEF PoolInv, PoolTypes
<1>1. CASE left = <<>>
  <2>1. Step(p, AtRest) /\ locks' = Release(locks, released) /\ RuntimeChange(p, AtRest)
    BY <1>1, RestFields DEF NextToClose, Step
  <2> QED BY <2>1, Leaves
<1>2. CASE left # <<>>
  <2>1. Head(left)[1] \in Locks
    BY <1>2, VictimsFields DEF Locks
  <2>2. PlacedWithVictims(p, "close_one", left) /\ locks' = Join(Release(locks, released), p, Head(left)[1])
    BY <1>2 DEF NextToClose, PlacedWithVictims
  <2>3. PICK c : MovedTo(p, c, "close_one", left, caller[p].id)
    BY <1>0, <2>2, TwoFields
  <2>4. /\ Step(p, c) /\ IsCaller(c) /\ c.at = "close_one" /\ c.victims = left
    BY <2>3 DEF MovedTo
  <2>5. Numbered(p, c) /\ StillHolds(p, c, released) /\ c.at \notin {"run", "tool"}
    BY <1>0, <2>4 DEF Numbered, StillHolds, Pending, Given, Holding
  <2>6. RuntimeChange(p, c)
    BY <2>4
  <2> QED BY <1>2, <2>1, <2>2, <2>4, <2>5, <2>6, PoolMove
<1> QED BY <1>1, <1>2

LEMMA ClosesSnapshot ==
  ASSUME PoolInv, NEW p \in Callers, close_snapshot(p)
  PROVE  PoolInv' /\ Kept
<1>0. /\ PoolTypes /\ Ids /\ Holds(p, "capacity") /\ UNCHANGED <<resident, ops>> /\ \A c : RuntimeChange(p, c)
  BY DEF PoolInv, close_snapshot, RuntimeChange
<1>1. PICK order \in Orders(Resident) : NextToClose(p, Snapshot(order), {"capacity"})
  BY DEF close_snapshot
<1>2. PICK left, ls : left = Snapshot(order) /\ ls = {"capacity"}
  OBVIOUS
<1>3. left \in Seq(Tenants \X Nat) /\ NextToClose(p, left, ls) /\ \A l \in ls : Holds(p, l)
  BY <1>0, <1>1, <1>2, Snapshots
<1> QED BY <1>0, <1>3, ClosesNext

LEMMA ClosesOne ==
  ASSUME PoolInv, NEW p \in Callers, NEW closes, close_one(p, closes)
  PROVE  PoolInv' /\ Kept
<1>a. PICK w : w = caller[p].victims
  OBVIOUS
<1>b. PICK v : v = Head(w)[1]
  OBVIOUS
<1>0. /\ caller[p].at = "close_one" /\ Holds(p, v) /\ UNCHANGED ops
      /\ NextToClose(p, Tail(w), {v}) /\ (CloseRuntime(v, closes) \/ UNCHANGED resident)
  BY <1>a, <1>b DEF close_one
<1>1. w \in Seq(Tenants \X Nat) /\ w # <<>>
  BY <1>0, <1>a DEF PoolInv, PoolTypes
<1>2. v \in Tenants /\ Tail(w) \in Seq(Tenants \X Nat) /\ Tail(w) # w
  BY <1>1, <1>b, VictimsFields
<1>3. ASSUME NEW c, c.at = "rest" \/ c.victims = Tail(w)
      PROVE  RuntimeChange(p, c)
  <2>1. c # caller[p]
    BY <1>0, <1>2, <1>3, <1>a
  <2>2. CASE UNCHANGED resident
    BY <2>2 DEF RuntimeChange
  <2>3. CASE ~UNCHANGED resident
    <3>1. /\ resident[v] # NoRuntime
          /\ \/ resident' = [resident EXCEPT ![v] = NoRuntime]
             \/ resident' = [resident EXCEPT ![v].available = FALSE]
      BY <1>0, <2>3 DEF CloseRuntime
    <3> QED BY <1>0, <1>2, <2>1, <3>1, RuntimeEnds
  <2> QED BY <2>2, <2>3
<1> QED BY <1>0, <1>2, <1>3, ClosesNext

\* Time passes.
LEMMA Idles ==
  ASSUME PoolInv, NEW t0 \in Tenants, IdleExpires(t0)
  PROVE  PoolInv' /\ Kept
<1>0. PoolTypes /\ Ids /\ Holders /\ Counts /\ UNCHANGED <<locks, caller, ops>>
  BY DEF PoolInv, IdleExpires
<1>1. PICK r : r = resident[t0]
  OBVIOUS
<1>2. IsRuntime(r) /\ r # NoRuntime /\ r.id # 0
  BY <1>0, <1>1 DEF PoolTypes, IdleExpires, Resident, Ids
<1>3. PICK x : resident' = [resident EXCEPT ![t0] = x] /\ \E d : x = SetIdle(r, d)
  BY <1>1 DEF IdleExpires, SetIdle
<1>4. IsRuntime(x) /\ x.id = r.id /\ x.executing = r.executing /\ x.available = r.available
  <2>1. PICK d : x = SetIdle(r, d)
    BY <1>3
  <2>2. r = RuntimeOf(r.id, r.available, r.idle, r.active, r.executing, r.checkpointed, r.tools)
    BY <1>2 DEF IsRuntime, RuntimeOf
  <2>3. x = RuntimeOf(r.id, r.available, d, r.active, r.executing, r.checkpointed, r.tools)
    BY SMT, <2>1, <2>2, IdleField
  <2> QED BY <1>2, <2>3 DEF IsRuntime, RuntimeOf
<1>5. /\ resident' = [t \in Tenants |-> resident'[t]] /\ \A t \in Tenants : IsRuntime(resident'[t])
      /\ resident'[t0] = x /\ \A t \in Tenants : t # t0 => resident'[t] = resident[t]
  BY <1>0, <1>3, <1>4, OneRuntime
<1>6. \A t \in Tenants : /\ resident'[t].id = resident[t].id /\ resident'[t].executing = resident[t].executing
                         /\ resident'[t].available = resident[t].available
                         /\ resident[t] = NoRuntime => resident'[t] = NoRuntime
                         /\ resident[t].id = 0 => resident'[t] = NoRuntime
  BY <1>0, <1>1, <1>2, <1>4, <1>5 DEF Ids
<1>7. PoolTypes'
  BY <1>0, <1>5 DEF PoolTypes, IsCaller, IsRuntime
<1>8. Ids'
  <2>1. \A p \in Callers : Pending(caller[p])' <=> Pending(caller[p])
    BY <1>0 DEF Pending
  <2>2. \A p \in Callers : Given(caller[p])' <=> Given(caller[p])
    BY <1>0 DEF Given
  <2>3. ops' = ops /\ caller' = caller
    BY <1>0
  <2>4. \A t \in Tenants : /\ resident'[t].id = resident[t].id
                           /\ resident[t].id = 0 => resident'[t] = NoRuntime
    BY <1>6
  <2>5. \A p \in Callers : Pending(caller'[p]) \/ Given(caller'[p]) =>
          caller'[p].id \in Nat \ {0} /\ caller'[p].id <= ops' /\ caller'[p].tenant \in Tenants
    BY <1>0, <2>3 DEF Ids
  <2>6. \A t \in Tenants : /\ resident'[t].id \in Nat /\ resident'[t].id <= ops'
                           /\ resident'[t].id = 0 => resident'[t] = NoRuntime
    BY <1>0, <2>3, <2>4 DEF Ids
  <2>7. \A p, q \in Callers : Pending(caller'[p]) /\ q # p /\ (Pending(caller'[q]) \/ Given(caller'[q])) =>
          caller'[q].id # caller'[p].id
    BY <1>0, <2>3 DEF Ids
  <2>8. \A p \in Callers : Pending(caller'[p]) => \A t \in Tenants : resident'[t].id # caller'[p].id
    BY <1>0, <2>3, <2>4 DEF Ids
  <2> QED BY <2>5, <2>6, <2>7, <2>8 DEF Ids, Pending, Given
<1>9. Holders'
  BY <1>0, <1>6 DEF Holders, Holder, Holding, Holds, Ids, Pending
<1>10. \A t \in Tenants : RunsOn(t)' = RunsOn(t)
  BY <1>0, <1>6 DEF RunsOn
<1>11. Counts'
  BY <1>0, <1>6, <1>10 DEF Counts
<1> QED BY <1>6, <1>7, <1>8, <1>9, <1>11 DEF PoolInv, Kept

-----------------------------------------------------------------------------
LEMMA PoolStarts == PoolInit => PoolInv
<1> SUFFICES ASSUME PoolInit PROVE PoolInv
  OBVIOUS
<1>0. 0 \in Nat /\ 0 <= 0 /\ <<>> \in Seq(Callers) /\ <<>> \in Seq(Tenants \X Nat)
  BY SMT
<1>1. \A p \in Callers : caller[p] = AtRest
  BY DEF PoolInit
<1>2. \A t \in Tenants : resident[t] = NoRuntime
  BY DEF PoolInit
<1>3. PoolTypes
  BY <1>0, <1>1, <1>2, RestFields DEF PoolInit, PoolTypes, Locks
<1>4. Ids /\ Holders
  BY <1>0, <1>1, <1>2, RestFields DEF PoolInit, Ids, Holders, Pending, Given, Holding
<1>5. Counts
  <2>1. \A t \in Tenants : RunsOn(t) = {}
    BY <1>1, RestFields DEF RunsOn
  <2>2. Cardinality({}) = 0
    BY FS_EmptySet
  <2> QED BY <1>0, <1>2, <2>1, <2>2, RestFields DEF Counts
<1> QED BY <1>3, <1>4, <1>5 DEF PoolInv

LEMMA PoolKeeps == PoolInv /\ [PoolNext]_poolVars => PoolInv' /\ (Kept \/ UNCHANGED poolVars)
<1> SUFFICES ASSUME PoolInv, [PoolNext]_poolVars PROVE PoolInv' /\ (Kept \/ UNCHANGED poolVars)
  OBVIOUS
<1>1. ASSUME NEW p \in Callers, CallerStep(p) PROVE PoolInv' /\ Kept
  <2>1. CASE acquire_resident(p)
    BY <2>1, AcquiresResident
  <2>2. CASE ensure_capacity(p)
    BY <2>2, EnsuresCapacity
  <2>3. CASE close_snapshot(p)
    BY <2>3, ClosesSnapshot
  <2>4. ASSUME NEW done \in BOOLEAN, evict_if_safe(p, done) PROVE PoolInv' /\ Kept
    BY <2>4, EvictsIfSafe
  <2>5. ASSUME NEW done \in BOOLEAN, revoke_runtime(p, done) PROVE PoolInv' /\ Kept
    BY <2>5, Revokes
  <2>6. ASSUME NEW done \in BOOLEAN, close_one(p, done) PROVE PoolInv' /\ Kept
    BY <2>6, ClosesOne
  <2>7. CASE create(p)
    BY <2>7, Creates
  <2>8. CASE create_fails(p)
    BY <2>8, CreationFails
  <2>9. CASE begin_run(p) \/ EndRun(p)
    BY <2>9, RunsMove
  <2> QED BY <1>1, <2>1, <2>2, <2>3, <2>4, <2>5, <2>6, <2>7, <2>8, <2>9 DEF CallerStep
<1>2. ASSUME NEW p \in Callers,
             mark_tool_execution_started(p) \/ mark_tool_execution_finished(p) \/ mark_awaiting_user(p)
      PROVE  PoolInv' /\ Kept
  BY <1>2, RunsMove
<1>3. ASSUME NEW p \in Callers, close(p) PROVE PoolInv' /\ Kept
  BY <1>3, Closes
<1>4. ASSUME NEW p \in Callers, NEW t \in Tenants, acquire(p, t) \/ revoke(p, t) PROVE PoolInv' /\ Kept
  <2>1. CASE acquire(p, t)
    BY <2>1, Begins DEF acquire
  <2>2. CASE revoke(p, t)
    BY <2>2, Begins DEF revoke
  <2> QED BY <1>4, <2>1, <2>2
<1>5. ASSUME NEW t \in Tenants, IdleExpires(t) PROVE PoolInv' /\ Kept
  BY <1>5, Idles
<1>6. CASE UNCHANGED poolVars
  <2>1. UNCHANGED <<resident, locks, caller, ops>>
    BY <1>6 DEF poolVars
  <2> QED BY <1>6, <2>1 DEF PoolInv, PoolTypes, Ids, Holders, Holder, Holds, Counts, RunsOn,
                            IsCaller, IsRuntime, Pending, Given, Holding
<1> QED BY <1>1, <1>2, <1>3, <1>4, <1>5, <1>6 DEF PoolNext

\* A runtime on which a run executes is kept: its counter of executing runs is at
\* least one, and can_evict asks for none.
LEMMA RunsAreCounted ==
  ASSUME PoolInv, Kept, NEW p \in Callers, caller[p].at \in {"run", "tool"}, Usable(p)
  PROVE  \/ LET r == resident'[caller[p].tenant] IN r.id = caller[p].id /\ r.available
         \/ \E q \in Callers : caller[q].at \in {"revoke", "close_one"} /\ caller'[q] # caller[q]
<1>a. PICK t : t = caller[p].tenant
  OBVIOUS
<1>1. t \in Tenants /\ caller[p].id # 0
  BY <1>a DEF PoolInv, Ids, Given
<1>2. resident[t].id = caller[p].id /\ resident[t].available
  BY <1>a DEF Usable
<1>3. p \in RunsOn(t)
  BY <1>2, <1>a DEF RunsOn
<1>4. Cardinality(RunsOn(t)) <= resident[t].executing
  BY <1>1 DEF PoolInv, Counts
<1>5. Cardinality(RunsOn(t)) # 0
  BY <1>3, RunsOnFinite, FS_EmptySet
<1>6. resident[t].executing # 0
  <2>1. Cardinality(RunsOn(t)) \in Nat /\ resident[t].executing \in Int
    BY <1>1, RunsOnFinite DEF PoolInv, PoolTypes, IsRuntime
  <2> QED BY SMT, <1>4, <1>5, <2>1
<1> QED BY <1>1, <1>2, <1>6, <1>a DEF Kept

\* Whoever needs the place of a runtime leaves one alone on which a run executes
\* (_ensure_capacity, evict_if_safe, can_evict); only the revocation of the tenant and
\* the shutdown of the pool take it away.
THEOREM RunsKeepRuntimes == PoolSpec => RunKeepsRuntime
<1>1. PoolInv /\ [PoolNext]_poolVars =>
        [\A p \in Callers :
           (caller[p].at \in {"run", "tool"} /\ Usable(p)) =>
             \/ LET r == resident'[caller[p].tenant] IN r.id = caller[p].id /\ r.available
             \/ \E q \in Callers : caller[q].at \in {"revoke", "close_one"} /\ caller'[q] # caller[q]]_poolVars
  BY PoolKeeps, RunsAreCounted
<1>2. PoolSpec => []PoolInv
  BY PoolStarts, PoolKeeps, PTL DEF PoolSpec
<1> QED BY <1>1, <1>2, PTL DEF PoolSpec, RunKeepsRuntime

=============================================================================
