# MultiClaw: a TLA+ model of its runs and of the services around them

MultiClaw is a multi-tenant agent server, one process on one machine with a
database. A chat request starts a *run*: a row of `agent_runs` that a task drives
through model rounds and tool calls while it records checkpoints, executions and
approvals, so that another task can pick the run up after a crash. This project
models that core, durable plans on top of it, and the services around them;
checks the models with TLC; and proves the most important invariants with TLAPS.

Paths are relative to `src/src/multiclaw/`; documents are under `src/docs/`.

## The system and its modules

| Part | Module | State and actions |
|---|---|---|
| Status tables (`workflow/models.py`) | `WorkflowModels` | vocabularies and legal transitions |
| Run lease (`storage/repositories/workflow.py`) | `RunLease`, abstract `RunFence` | the row's owner, token, version, expiry and the copies tasks keep; create, heartbeat, transition, take over, resume, cancel, finish |
| Coordinator, scheduler, recovery (`workflow/`, `tools/scheduler.py`) | `ToolWorkflow` | one run's checkpoint, executions and approvals; `pc` of chat and recovery tasks; a step is one write transaction or the code between two |
| Plan drafts (`planner/policy.py`, `validation.py`, `generator.py`) | `PlanDrafts` | routing, canonical order, depth, the two-attempt generator, as operators |
| Durable plans (`planner/execution.py`, `service.py`, `repositories/plans.py`) | `Plans`, abstract `PlanReview` | versions, decisions, attempts, rounds, checkpoint; propose, decide, revise, execute, reuse, replan, cancel, summarise, recover, rerun |
| Chat stream (`api/chat.py`, `stream.py`) | `ChatStream` | route, agent's task, heartbeat, token and event queue, cancellation requests, the client's view of the chunks |
| Agent loop (`agent/`, `llm/router.py`) | `AgentLoop` | messages, rounds, batches, repeats, reflection, compaction, steering, attempts of a request, in the four forms the loop has |
| Background runs (`runtime/background.py`, `api/runs.py`) | `BackgroundRuns`, `EventJournal` | admission, setup, producers, queue and its worker, cancellation, revocation, close; journal, markers, live mirror, subscriber |
| Runtime pool (`runtime/pool.py`, `models.py`) | `RuntimePool` | residents and their counters, FIFO locks; acquire, evict, revoke, close |
| Inference (`runtime/inference.py`) | `Inference` | totals and reservations of runs, and of the day as each runtime's router sees it |
| Collaboration (`collaboration/`) | `Collaboration`, `Workspaces` | jobs, teams, tasks, child runs, ticks, restart; Git workspaces, diffs, acceptance, discard, crash |
| Account and deletion (`deletion/`, `auth/`, `api/account.py`) | `Account`, `VerificationCodes` | user row, epochs, logins, deletion job, purge workers and their loops, files, the rows of a run that block a deletion; codes from request to use |
| Secrets (`secrets/`) | `Secrets` | rows, keyring, a rotation's batch |
| MCP (`mcp/`) | `Mcp` | connection, client's lock, breaker, calling threads, event loop |
| Server (`server.py`) | `ServerLifecycle` | loops, run manager, pool, database; start-up, failed start-up, shutdown |
| Sandbox (`governance/sandbox/runner.py`, `manager.py`) | `SandboxRunner` | process group, output, helper tasks, directories; spawn, read, wait, terminate, finalise, and a cancellation at each of them |

`RunLease` implements `RunFence` (`ImplementsFence`). `ToolWorkflow` and `Plans`
use the run row and the lease copies of `RunFence`, so the lease is modelled once
in detail and used abstractly where it is composed with the rest. `Plans`
implements `PlanReview` (`ImplementsReview`).
`MCRunLease`, `MCToolWorkflow`, `MCPlans`, `MCServices` and `MCRuntimePool` are
instances for TLC; the modules named `...Proofs` hold theorems, and
`PlansInductive` the inductive invariant of `Plans`.

Operators commented `Mutant:` are faulty variants of the definition that follows
them. Each property fails when its variant is put in that definition's place.

What makes the system hard: several tasks may believe they drive one run;
heartbeats write the row they protect, so each of them outdates lease snapshots;
a process may die between a dispatch and its record; decisions, cancellations and
deadlines come at any await; scans and ticks act on what they read earlier.

### Abstractions worth knowing

- In `ToolWorkflow` a call is made at most once by the model; `Preflight` reads run
  and checkpoint in one step; damage happens while nobody holds the lease; policy
  and argument mismatches in recovery are one action, `RefuseRecovery`.
- In `Plans` a step is its key, dependencies, limit and definition. What a step
  does with tools is left to `ToolWorkflow`. `GeneratorReserves` says whether the
  generator calls `reserve_round`; generators are a parameter of
  `PlanningService`. Those of the tests do not, the one the server installs does,
  and then no user revision succeeds (see below); the other runs use FALSE so
  that revisions happen.
- A request of `BackgroundRuns` is a chat, a direct start or a queued message of
  one session; in `Inference` tokens are small numbers; in `AgentLoop` a message
  counts one against the context window and a batch is its length and
  fingerprint.
- In `Workspaces` a file has parts and a patch has a hunk for each part it changes:
  `git apply` compares the hunks only, but writes whole files, one by one, from what
  it read. Both steps are actions, and people may edit in between.
- In `Inference` each runtime has a router with a lock and a counter of its own; the
  day's usage is shared by all of them. `unreserved` and `late` are history: what was
  booked that no reservation of the account covers.
- In `Account` a chat run is its row: status, valid lease, an execution under way;
  `toolLeft` is an execution that stayed EXECUTING when its run ended. Fencing tokens
  and versions count round (`TokenWidth`): they are only compared, and a smaller
  width makes stale claims harder to tell.
- Removal of a sandbox's directory ignores errors, and anything may be left of it.
- In `ChatStream` a chunk is its kind and its call. `Fits` is the order a client
  relies on. `row` is the status the handler gave the run.
- In `SandboxRunner` the command is a leader and one descendant of its group.

## Runs

| Run | Shows |
|---|---|
| `run_lease` | one task per token, stale copies never match, row history, refinement of `RunFence` |
| `tool_workflow` | approval before invocation, write-ahead, checkpoint agreement, refinement, with two calls |
| `tool_workflow_faults` | at-most-once, finality and progress, with one call and one fault |
| `plans` | dependency order, lineage of reused results, accounting of decisions, attempt history, fencing and cancellation, refinement of `PlanReview` |
| `plans_progress` | a plan run comes to rest, over two runs of the plan |
| `services` | types and one or two promises of each of fifteen services |
| `services_progress` | queued messages settle, cancellation reaches child runs, due deletions are purged, MCP calls return |
| `terminal_run`, `lease_timeout`, `damage`, `pool_deadlock`, `plan_revision` | violated; see "Where code and documents differ" |

`services` and `services_progress` explore the services one after the other:
`Init` chooses one and the others stand still. What a service sees of another
is in its own module (a run that is only counted in `ServerLifecycle`, the child
run in `Collaboration`), so this loses no interaction a module models, and one run
covers what would else be fifteen.

What the properties of `services` say, by service:

| Property | Promise |
|---|---|
| `RunKeepsRuntime` | a runtime that executes a run is taken away only by revocation or shutdown |
| `OneRequestAtATime` | a session executes one request, whatever is queued, cancelled or revoked |
| `ReplayExactOrError` | the replay of an ended run is exact or refused, whatever was pruned, while there is room for the pruning markers |
| `WithinLimits` | used and reserved tokens stay within the run's and the day's limit, but for what was reported beyond a reservation or used through another router since the last admission |
| `TeamDiscipline`, `EndedJobsStay` | one assignment per member, dependencies first; ended jobs are not rewritten |
| `AcceptedAsReviewed` | what is applied is what was reviewed, and what people write elsewhere is kept, except in the interval `accept`'s docstring warns of |
| `RecoverableKeepsFiles`, `SessionsEnd` | no file goes while recovery is open; logins end with their cycle |
| `SecretsReadable` | rotation neither loses nor resurrects a secret |
| `CodeOpensOnce` | a code opens one session at most |
| `ConversationSound` | requests hold whole exchanges; the user is told one attempt's answer |
| `QuietWhenDisposed` | nothing is left when the database is disposed of |
| `CommandAccounted` | unmarked results are whole, processes are killed (exceptions below), directories live as long as the launch |
| `StreamIsTrue` | chunks are in order and say what the row says; no run and no runtime lease is left behind (exceptions below) |

### Bounds, and why they are enough

`run_lease`: four writes and a clock of twice the TTL let a lease be created,
lapse, be taken over and written again while old copies survive; three tasks give
two of one runtime and one of another. `tool_workflow`: two tasks are an old
driver and its successor, and either becomes the other's successor again; one call
needs approval and must not be repeated, the other is repeatable. `MaxFaults`
bounds crashes, damaged checkpoints, heartbeat errors, stalls and cancelled
recoveries; lapses, cancellations and decisions are not faults and are unbounded.
`plans`: three steps, one independent and two in a chain, in drafts that differ in
a definition or have a cycle, one revision, two decisions, a fault, two tasks;
`plans_progress` has one step that may be tried twice and a rerun.

`services`: a pool of one for two tenants; a chat, a direct start and two messages
for a queue of one; a journal that keeps two of four events; three calls of two
runs on two routers that cannot all fit, with reports below and above what is
reserved; a task that depends on another; two purge workers over three cycles; two
secrets with a batch of one, three key versions; two wrong guesses per code; two
workspaces, a file of two parts that both may change and another file; three rounds
with batches of two; one failing close; one chunk more than is kept, two
cancellations; two tool calls, a delta and one failing write in the stream (text
that alternates with reasoning takes two deltas: left to the proof). Each is the
smallest at which the limit, the race or the retry happens. `MCServices` narrows
some further (single jobs without a team, the second workspace at once and in one of the like parts, codes of
one purpose, no agent that outlives its stream).

Deadlock is not checked: a finished run, or a bound reached, really stops.
Circular waiting is a property of its own, `NoCircularWait`.

### Fairness

`ToolWorkflow`: weak fairness of every task's and producer's next step (the event
loop runs ready coroutines), of the expiry of a lease nobody renews (time passes),
and strong fairness of the transactions that write under a lease snapshot. The last
is a real assumption: heartbeats can outdate snapshots again and again. It is not
made of a tool's result, whose snapshot is as old as the tool is slow. `RunSettles`
excepts `Stranded` runs: those with a `failed_retryable` execution (nonterminal and
without a successor), with a `not_started` execution whose checkpoint has moved on,
and with a damaged checkpoint that names a finished execution; and runs whose
repeatable call has outlasted its snapshot (`Outlasted`), since each recovery may
repeat it with the same end. `Plans`: weak fairness of tasks, recovery candidates
and expiry. `MCServices`: weak fairness of setups, producers, the queue worker, the
canceller, time, the deletion workers as long as their loop lives, the dispatcher
(its loop catches whatever a tick raises, `server.py:566`), and the MCP loop.
Nothing is assumed of users, servers, heartbeats or faults. `DueIsPurged` excepts
deletions held up by `Abandoned` rows or because all loops have ended,
`CallsReturn` a call whose own connection timed out (all below).

## Where code and documents differ

1. *Terminal runs with open executions* (`terminal_run`). `docs/architecture.md:135`
   says that a terminal run leaves no nonterminal execution. The code asks only on
   completion; a waiting run that is cancelled keeps its `not_started` execution.
2. *Heartbeats and results* (`lease_timeout`). `docs/configuration.md:77` says that
   the lease is no task timeout. A result is recorded under the lease read before
   the dispatch; a heartbeat during the tool bumps the version and the record is
   refused although the lease was never lost.
3. *Damaged checkpoints* (`damage`). `docs/architecture.md:130` says that they fail
   closed. When the checkpoint names a finished execution, blocking that execution
   first is an illegal transition, at every attempt.
4. *Lock order of the pool* (`pool_deadlock`). `docs/architecture.md:91` promises a
   runtime or a 503. `acquire` holds the capacity lock while it waits, in
   `evict_idle`, for the lock of a tenant who waits for the capacity lock.
5. *Plan revision* (`plan_revision`). `docs/durable-plans.md:23` offers a revision.
   The decision's context has no run id, and the installed generator reserves a
   round, which needs one.

Behaviours the models have that a reader may not expect:

- A chat run failed for a heartbeat error leaves its agent's task running until the
  finally clause, under the terminal run's valid lease (exception in `FinalIsFinal`).
- A deadline or cancellation that meets the finally clause of the chat stream skips
  the terminal write and the release of the runtime; a deadline after the last
  chunk appends an error after the finish (`docs/api.md:88` has one or the other);
  a setup that runs out of time while the run is made leaves it running. A request
  for cancellation moves the row's version on, so that the cancelled stream cannot
  record its end. These, a failed write and a lost lease, are the exceptions in
  `StreamIsTrue`; recovery takes the runs up later.
- For the same reason the executor of a cancelled job cannot end its child run: the
  error replaces the cancellation, and the run is ended by a tick once its lease has
  run out (`abort`, `WorkRefused`, `propagate_cancellation` in `Collaboration`).
- A run left running, or an execution left EXECUTING, by a producer that was cancelled
  or could not write its end blocks the purge of its account: the process that revoked
  the tenant never recovers it. `docs/multi-tenant-operations.md:61` has operators
  look for such rows. An error outside `_purge_job`'s try ends the process's deletion
  loop.
- A connection made for one MCP call that times out raises `TimeoutError`, which
  `_run_sync` takes for its own poll: the calling thread polls for ever.
- Reservations cover what is asked of a provider, not what it reports, and each
  runtime counts only its own: the day's limit can be passed by both.
- A queued message is reported `failed` once it has run: the queue's `setup` in
  `api/runs.py:256` keeps the response to itself and returns nothing.
- A subscriber to a live run can miss events: the mirror is trimmed while it is
  read (`runtime/background.py:217, 300`). `ReplayExactOrError` is about ended runs.
- A crash between RUNNING and a plan's first checkpoint ends in BLOCKED_CORRUPT;
  a cancellation during the final summary ends in FAILED_TERMINAL; a cancelled
  waiting run leaves its plan awaiting approval.
- Cancelling a job of a team that is queued or waits leaves its task `running`.
- Acceptance of a workspace is applied before it is recorded; a crash in between
  leaves it applied, and the retry is refused.
- `git apply` writes back what it read: an edit of a person to a file of the patch in
  between is lost.
- A second cancellation during the grace period of SIGTERM ends the sandbox's
  cleanup; one while the command is spawned has asyncio kill its leader only; and a
  completed command may leave a descendant without the pipes.
- With two failing closes the shutdown disposes of the database under a run.

## Proofs

All theorems hold for every value of the constants under the named assumptions of
the modules (`TasksAssumption`, `CallsAssumption`, `...Bounds`, `...Constants`).

- `RunProofs`: `TokenHeldByOneTask`, `CopiesFollowRow`, `VersionIdentifiesLease`,
  `RowHistory`, `ImplementsFence`. None of the first three is inductive alone: a new
  token or version is unlike every copy's only because no copy is ahead of the
  row, which needs `RowShape`. `LeaseInv` joins them; the refinement has a case for
  each action.
  `WithinLimits`, for any calls, runs, routers and limits: the counters of reserved
  tokens are the sums of what the calls hold (`Booked`), and what the call with the
  quota lock has read as remaining does remain until it reserves, but for what came
  late, because else what is booked meanwhile was reserved (`Offered`). That a sum over all
  calls changes by the part of the one call that moves (`SumFunction`, a fold) is
  proved by induction over the subsets of the calls.
- `ConversationProofs`: `ConversationSound`, for any steering, batches, retries and
  context limit. Between a batch and its results the messages are whole exchanges
  and one unanswered batch, everywhere else they are whole (`Between`; in
  `handle_message`, where a call may stay unanswered, the compactor refuses the
  request instead). Steering, the objective and the summary go between exchanges,
  and compaction keeps or drops exchanges (`Closed`), so that what it selects, in
  order, is whole again; where a kept message ends up is the number of kept ones
  before it (`Rank`). `ReplayExactOrError`, for any runs, events and retention,
  assuming `Cardinality(Runs) <= MaxMarkers`: an event that is not retained is at
  or below its run's `expired_through` (`StoreInv`), so a read that passes the
  check has all that is past its cursor. With more runs in a session than markers,
  the marker of a pruned run may be forgotten and the assumption is needed.
- `ToolWorkflowProofs`: `KeepsFence` and types: at most one of any number of chat and
  recovery tasks holds a copy the token has not overtaken (`FenceInv`).
  `ManualAtMostOnce`, `ApprovedBeforeInvoked`,
  `InvokedIsRecorded`, `CheckpointAgrees`, `FinalIsFinal`, for any number of
  tasks, calls and faults. The inductive invariant is `WorkInv`: types, `FenceInv`,
  `StoreInv` (the checkpoint and the executions), `TaskInv` (what a task's place
  says about its call) and `CallInv` (what the rows say about the effects; of an
  unrepeatable call only one task can be about to make it). Each action is a lemma.
- `ServerProofs`: `QuietWhenDisposed`, assuming at most one failing close; the
  invariant says at each stage which loops are over and that no run can start.
  `CommandAccounted`; what is captured is all that was written until a limit or a
  stop, and each helper task knows why it ended. `RunKeepsRuntime`, for any
  tenants, callers and capacity: a runtime's number is of one creation (`Ids`),
  who goes for a place holds the locks that keep the tenant's runtime absent
  (`Holders`), and the counter of executing runs is at least the number of callers
  that run on the runtime (`Counts`), so that eviction, which asks the counter,
  never meets one of them.
- `TenantProofs`: `SessionsEnd`, because epochs grow with every cycle;
  `RecoverableKeepsFiles`, because a claimed job is past recovery.
  `SecretsReadable`; a batch holds only rows that were right when read, and the
  compare-and-swap admits only rows that have not changed. `CodeOpensOnce`; a code
  in use has guesses left. `TeamDiscipline` and `EndedJobsStay`, for any jobs,
  tasks and dependencies; the invariant says who may still write a job (`Written`)
  and that a task's job exists only once the task is claimed (`Claimed`).
  `AcceptedAsReviewed`, for any workspaces, files and parts: an acceptance under
  way holds a combined patch of diffs the user has seen, these do not overlap, and
  once it has read the files each hunk fits what it read. `OneRequestAtATime`, for
  any requests: while the manager is open, who is set up or produces is the one the
  session is reserved for (`Admission`).
- `ChatProofs`: `StreamIsTrue`, for any calls, deltas and failed writes. The parts
  the generator remembers as open are those its client has (`Telling`); each call is
  in the queue once and its result once, after it, and the generator's count is of
  the calls it has shown without a result (`Working`); whoever is over has left its
  last item (`Closing`). What the client is told at the end follows (`Ends`).

- `PlansProofs`, for any drafts, tasks, decisions, faults and bounds: `PlansTypeOK`,
  `DependenciesFirst`, `ReuseKeepsLineage`, `EveryVersionAccounted`, `AttemptHistory`,
  `StoppedNeverWrites` and `ImplementsReview`. The inductive invariant is `PlansInv`
  of `PlansInductive`: plan and run rows fit (`Rows`), every attempt is `Settled`
  (`Table`), one at most runs, in the active version and not during a review
  (`Alone`), the decisions account for the versions (`Ledger`), and each task knows
  its step, its draft and its lease (`Locals`). Each step of a task changes the rows
  in one of ten ways (`StoreStep`). `PlanStepProofs` shows that each of these
  keeps the first four parts, and what `validate_plan_draft` returns for any draft;
  it shows too, action by action, what becomes of the task and its lease.
  `DependenciesFirst` and `ReuseKeepsLineage` need each other's parts of `Settled`: a
  result is reused only under dependencies reused from the same version.
  `ImplementsReview` needs `Alone`: without it a failed step could be replanned while
  another one runs.

What a recursive function computes is proved by induction on sets of numbers
(`Inductively`, `RecursiveFunction` in `PlanStepProofs`; `BySubsets` in
`RunProofs`), with sets and functions in
place of the predicates and operators of the library's induction theorems.

Only model-checked:

- `ServicesTypeOK`, the types of all services at once. The proofs use types of
  their own, part of each inductive invariant.
- `Mcp`, whose promise is progress.
- Every progress property: liveness under fairness is out of the prover's reach.

## Not modelled

- *Data behind one step*: prompts, memory retrieval and ranking, provider formats,
  skills, tool bodies, event payloads, redaction, logging.
- *Operating system and network*: sandbox command lines and profiles, MCP
  transports, mail, cryptography.
- *Declarations*: schema, dialects, settings, table metadata of collaboration.
- *Plain rows*: chat sessions, listings, health reports, the frontend.
- *Sub-agents* (`agent/delegation.py`): the agent loop with read-only tools inside
  one tool call.
- *Many runs at once in recovery*: the modules follow one run, so the batch limit of
  the scan (`workflow/recovery.py:789`) is not explored.
