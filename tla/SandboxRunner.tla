---------------------------- MODULE SandboxRunner ----------------------------
(***************************************************************************)
(* One command in the sandbox (governance/sandbox/manager.py, runner.py,   *)
(* environment.py): the private directory of the launch, the process group *)
(* the command starts, the tasks that read its output, feed its input and  *)
(* wait for it, and the end of the run by completion, output limit,        *)
(* timeout, cancellation or error.                                         *)
(*                                                                         *)
(* The command is its leader and one descendant in the same group.  SIGTERM*)
(* has no effect of its own: a process may exit at any time, and one that  *)
(* ignores the signal does not.  Output is counted in chunks.              *)
(***************************************************************************)
EXTENDS Integers, FiniteSets

CONSTANTS CaptureLimit,    \* MAX_CAPTURE_BYTES_PER_STREAM, in chunks
          MaxChunksOut,    \* bound: chunks a stream is given
          MaxInterrupts    \* bound: cancellations of the task

ASSUME SandboxBounds == CaptureLimit \in Nat /\ MaxChunksOut \in Nat /\ MaxInterrupts \in Nat

VARIABLES launch,          \* where SandboxManager.run is
          stopReason,
          group, holders,  \* live processes of the group; those with the pipes
          killed,          \* those that were sent SIGKILL
          emitted, piped, captured,   \* per stream: in all, not yet read, kept
          limitStream,
          helpers,         \* the tasks of _RunContext that have returned
          stdinFailed,
          privateRoot, managerRoot,   \* the directories exist
          result, interrupts, interruptedAt

sandboxVars == <<launch, stopReason, group, holders, killed, emitted, piped, captured, limitStream,
                 helpers, stdinFailed, privateRoot, managerRoot, result, interrupts, interruptedAt>>

Streams == {"stdout", "stderr"}
Helpers == Streams \cup {"stdin", "proc_wait"}
Processes == {"leader", "child"}
Spawning == {"spawning", "reaping"}
Running == {"waiting", "terminating", "killing", "draining"}
LaunchOver == {"returned", "raised"}
NoResult == [state |-> "none", out |-> [s \in Streams |-> 0]]

\* What the command and its helpers are made of, and where the run is.
commandVars == <<group, holders, emitted>>
captureVars == <<captured, limitStream>>
directoryVars == <<privateRoot, managerRoot>>
endVars == <<result, interrupts, interruptedAt>>

SandboxInit ==
  /\ launch = "new" /\ stopReason = "none" /\ group = {} /\ holders = {} /\ killed = {}
  /\ emitted = [s \in Streams |-> 0] /\ piped = emitted /\ captured = emitted
  /\ limitStream = "none" /\ helpers = {} /\ stdinFailed = FALSE
  /\ privateRoot = FALSE /\ managerRoot = TRUE
  /\ result = NoResult /\ interrupts = 0 /\ interruptedAt = "none"

----------------------------------------------------------------------------
(* SandboxManager *)

\* rmtree with ignore_errors: a read-only tree, or a process that still writes
\* to it, leaves the directory.
Removed == privateRoot' \in BOOLEAN

\* The launch gets its directory, below the manager's, which is made again if
\* it is gone.  A profile that is not ready is an error; so is a backend that
\* cannot build the command line, and the directory is removed.
build_launch_spec(ok) ==
  /\ launch = "new"
  /\ launch' = IF ok THEN "spawn" ELSE "raised"
  /\ IF ok THEN privateRoot' = TRUE ELSE Removed
  /\ managerRoot' \in {managerRoot, TRUE} /\ (privateRoot' => managerRoot')
  /\ UNCHANGED <<stopReason, commandVars, captureVars, killed, piped, helpers, stdinFailed, endVars>>

\* The manager's directory goes when no launch has one in it; else close raises
\* and changes nothing.
close_sandbox ==
  /\ managerRoot /\ ~privateRoot /\ managerRoot' = FALSE
  /\ UNCHANGED <<launch, stopReason, commandVars, captureVars, killed, piped, helpers, stdinFailed,
                 privateRoot, endVars>>

\* The finally clause of SandboxManager.run.
Leave(how) == launch' = how /\ Removed

----------------------------------------------------------------------------
(* The command: external *)

write_output(s) ==
  /\ holders # {} /\ emitted[s] < MaxChunksOut
  /\ emitted' = [emitted EXCEPT ![s] = @ + 1] /\ piped' = [piped EXCEPT ![s] = @ + 1]
  /\ UNCHANGED <<launch, stopReason, group, holders, captureVars, killed, helpers, stdinFailed,
                 directoryVars, endVars>>

\* A descendant, with the pipes its parent has.
fork ==
  /\ "leader" \in group \ killed /\ "child" \notin group
  /\ group' = group \cup {"child"}
  /\ holders' = IF "leader" \in holders THEN holders \cup {"child"} ELSE holders
  /\ UNCHANGED <<launch, stopReason, emitted, captureVars, killed, piped, helpers, stdinFailed,
                 directoryVars, endVars>>

\* A process sends its output elsewhere.
redirect(p) ==
  /\ p \in holders \ killed /\ holders' = holders \ {p}
  /\ UNCHANGED <<launch, stopReason, group, emitted, captureVars, killed, piped, helpers, stdinFailed,
                 directoryVars, endVars>>

exit(p) ==
  /\ p \in group /\ group' = group \ {p} /\ holders' = holders \ {p}
  /\ UNCHANGED <<launch, stopReason, emitted, captureVars, killed, piped, helpers, stdinFailed,
                 directoryVars, endVars>>

----------------------------------------------------------------------------
(* SandboxProcessRunner: the helper tasks *)

\* create_subprocess_exec starts the process, then awaits its pipes.
spawn_process(ok) ==
  /\ launch = "spawn"
  /\ IF ok
     THEN /\ launch' = "spawning" /\ UNCHANGED privateRoot
          /\ group' = {"leader"} /\ holders' = {"leader"}
     ELSE Leave("raised") /\ UNCHANGED <<group, holders>>
  /\ UNCHANGED <<stopReason, emitted, captureVars, killed, piped, helpers, stdinFailed, managerRoot,
                 endVars>>

create_run_context ==
  /\ launch = "spawning" /\ launch' = "waiting"
  /\ UNCHANGED <<stopReason, commandVars, captureVars, killed, piped, helpers, stdinFailed,
                 directoryVars, endVars>>

\* asyncio kills the leader of the process it was interrupted at, and no other
\* process of its group ...
AbandonSpawn == launch' = "reaping" /\ killed' = killed \cup (group \cap {"leader"})

\* ... and waits for it.
reap_spawn ==
  /\ launch = "reaping" /\ "leader" \notin group /\ Leave("raised")
  /\ UNCHANGED <<stopReason, commandVars, captureVars, killed, piped, helpers, stdinFailed, managerRoot,
                 endVars>>

\* A helper task goes on as long as the run has not collected it.
HelperRuns(h) == launch \in Running \ {"draining"} /\ h \notin helpers

HelperStep(h) ==
  /\ HelperRuns(h)
  /\ UNCHANGED <<launch, stopReason, commandVars, killed, directoryVars, endVars>>

\* The chunk read is kept; past the limit nothing is, nor was anything.
KeptChunk(s) ==
  IF captured[s] + 1 > CaptureLimit
  THEN limitStream' = s /\ captured' = [t \in Streams |-> 0]
  ELSE captured' = [captured EXCEPT ![s] = @ + 1] /\ UNCHANGED limitStream

read_stream(s) ==
  /\ HelperStep(s)
  /\ IF piped[s] > 0
     THEN /\ piped' = [piped EXCEPT ![s] = @ - 1] /\ UNCHANGED helpers
          /\ IF limitStream # "none" THEN UNCHANGED captureVars ELSE KeptChunk(s)
     ELSE /\ holders = {} /\ helpers' = helpers \cup {s}
          /\ UNCHANGED <<captureVars, piped>>
  /\ UNCHANGED stdinFailed

\* A broken pipe is as good as success; another error ends the gather.
write_stdin(ok) ==
  /\ HelperStep("stdin")
  /\ helpers' = helpers \cup {"stdin"} /\ stdinFailed' = ~ok
  /\ UNCHANGED <<captureVars, piped>>

proc_wait ==
  /\ HelperStep("proc_wait") /\ "leader" \notin group
  /\ helpers' = helpers \cup {"proc_wait"}
  /\ UNCHANGED <<captureVars, piped, stdinFailed>>

----------------------------------------------------------------------------
(* SandboxProcessRunner: run and its end *)

\* Mutant: the end of the process counts, not that of its output.
HelpersDoneOnExit == {"stdin", "proc_wait"} \subseteq helpers /\ ~stdinFailed

HelpersDone == helpers = Helpers /\ ~stdinFailed

\* Why asyncio.wait comes back: cancellation is in interrupt.
StopReasons ==
  {r \in {"timed_out", "overflow", "failed", "completed"} :
     /\ r = "overflow" => limitStream # "none"
     /\ r = "failed" => stdinFailed
     /\ r = "completed" => HelpersDone /\ limitStream = "none"}

\* Whatever the reason but completion, the group is told to terminate.
Stop(r) ==
  /\ stopReason' = r
  /\ launch' = IF r = "completed" THEN "draining" ELSE "terminating"

wait_first ==
  /\ launch = "waiting" /\ \E r \in StopReasons : Stop(r)
  /\ UNCHANGED <<commandVars, captureVars, killed, piped, helpers, stdinFailed, directoryVars, endVars>>

GroupGone == group = {}

\* Until the group is gone or the grace period is over; then SIGKILL, and the
\* same once more.
terminate_process_group ==
  /\ \/ launch = "terminating" /\ ~GroupGone /\ launch' = "killing" /\ killed' = group
     \/ launch = "terminating" /\ GroupGone /\ launch' = "draining" /\ UNCHANGED killed
     \/ launch = "killing" /\ launch' = "draining" /\ UNCHANGED killed
  /\ UNCHANGED <<stopReason, commandVars, captureVars, piped, helpers, stdinFailed, directoryVars, endVars>>

\* The output limit comes before the timeout, and gives no output.
build_result_for_completion ==
  IF limitStream # "none" THEN [NoResult EXCEPT !.state = "output_limit_exceeded"]
  ELSE [state |-> IF stopReason = "timed_out" THEN "timed_out" ELSE "completed", out |-> captured]

\* The helpers are cancelled and collected; a cancellation or an error is
\* raised again, any other run returns its result.
finalize_run ==
  /\ launch = "draining"
  /\ IF stopReason \in {"cancelled", "failed"} THEN Leave("raised") /\ UNCHANGED result
     ELSE Leave("returned") /\ result' = build_result_for_completion
  /\ UNCHANGED <<stopReason, commandVars, captureVars, killed, piped, helpers, stdinFailed, managerRoot,
                 interrupts, interruptedAt>>

\* The task is cancelled, by the tool's timeout, the run's deadline or its
\* owner.  While it waits, the run cleans up after itself; a cancellation that
\* comes during that ends it there.
interrupt ==
  /\ launch \in Running \cup Spawning /\ interrupts < MaxInterrupts /\ interrupts' = interrupts + 1
  /\ CASE launch = "waiting" -> Stop("cancelled") /\ UNCHANGED <<killed, privateRoot, interruptedAt>>
       [] launch = "spawning" -> AbandonSpawn /\ interruptedAt' = launch /\ UNCHANGED <<stopReason, privateRoot>>
       [] OTHER -> Leave("raised") /\ interruptedAt' = launch /\ UNCHANGED <<stopReason, killed>>
  /\ UNCHANGED <<commandVars, captureVars, piped, helpers, stdinFailed, managerRoot, result>>

----------------------------------------------------------------------------
SandboxNext ==
  \/ \E ok \in BOOLEAN : build_launch_spec(ok) \/ spawn_process(ok) \/ write_stdin(ok)
  \/ \E s \in Streams : write_output(s) \/ read_stream(s)
  \/ \E p \in Processes : redirect(p) \/ exit(p)
  \/ fork \/ close_sandbox \/ create_run_context \/ reap_spawn \/ proc_wait \/ wait_first \/ terminate_process_group \/ finalize_run \/ interrupt

SandboxSpec == SandboxInit /\ [][SandboxNext]_sandboxVars

\* Types; no more than the limit is kept of a stream.
SandboxTypeOK ==
  /\ launch \in {"new", "spawn"} \cup Spawning \cup Running \cup LaunchOver
  /\ stopReason \in {"none", "completed", "overflow", "timed_out", "cancelled", "failed"}
  /\ group \subseteq Processes /\ holders \subseteq group /\ killed \subseteq Processes
  /\ emitted \in [Streams -> 0..MaxChunksOut] /\ piped \in [Streams -> Nat]
  /\ captured \in [Streams -> 0..CaptureLimit]
  /\ limitStream \in {"none"} \cup Streams /\ helpers \subseteq Helpers
  /\ stdinFailed \in BOOLEAN /\ privateRoot \in BOOLEAN /\ managerRoot \in BOOLEAN
  /\ interrupts \in 0..MaxInterrupts /\ interruptedAt \in {"none"} \cup Spawning \cup Running

\* What a caller of SandboxManager.run may rely on, however the output, the exits,
\* the timers and the cancellations interleave.  A result without a mark is whole:
\* the leader has ended and all that was written is in it.  The leader does not
\* survive the run without having been sent SIGKILL, unless a second cancellation
\* cut the grace period of SIGTERM short; nor does a descendant, unless so, or the
\* command completed and left it without the pipes, or the cancellation came
\* while the command was being spawned.  The launch's directory is there as long
\* as it runs, and the manager's as long as a launch's is, be it one that could
\* not be removed.
CommandAccounted ==
  /\ result.state = "completed" => "leader" \notin group /\ result.out = emitted
  /\ launch \in LaunchOver /\ "leader" \in group \ killed => interruptedAt = "terminating"
  /\ launch \in LaunchOver /\ ~(group \subseteq killed) =>
       stopReason = "completed" \/ interruptedAt \in Spawning \cup {"terminating"}
  /\ launch \in Spawning \cup Running => privateRoot
  /\ privateRoot => managerRoot

=============================================================================
