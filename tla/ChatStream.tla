----------------------------- MODULE ChatStream -----------------------------
(***************************************************************************)
(* The chat route from the user's message to the end of its event stream   *)
(* (api/chat.py _chat, stream.py): the route's preparation, the agent's    *)
(* task that fills the token queue and, through the event router, the      *)
(* event queue, the heartbeat's task, and the generator that turns both    *)
(* queues into chunks for the client and records how the run ends.         *)
(*                                                                         *)
(* A chunk is its kind and the call it is about; texts, names and payloads *)
(* are left out, and of the events only the request for approval, the one  *)
(* that becomes more than a transient part.  A step runs from one await to *)
(* the next; what a handler does between two yields concerns nobody else.  *)
(***************************************************************************)
EXTENDS Integers, Sequences

CONSTANTS MaxStreamCalls,  \* bound: tool calls the model makes
          MaxTexts,        \* bound: deltas of text and reasoning
          MaxStoreFaults   \* bound: writes the database fails

VARIABLES route,           \* where the route and its generator are
          row,             \* the run's status, until another worker has it
          agentTask,       \* [at, made, batch, results] of the agent
          tokens,          \* token_queue
          approvalEvent,   \* the call whose approval request is in event_queue
          sse,             \* the generator's open parts, and what the client has
          resultsDue,         \* pending_tool_results
          taken,           \* another worker has the run
          cancelRequested, \* POST /runs/{id}/cancel has moved the row's version on
          fenceLost, terminal, paused,
          beating,         \* the heartbeat's task runs
          leased,          \* the run's lease on the runtime is open
          cut,             \* where cancellation or deadline met no handler's cleanup
          texts, storeFaults

streamVars == <<route, row, agentTask, tokens, approvalEvent, sse, resultsDue, taken, cancelRequested,
                fenceLost, terminal, paused, beating, leased, cut, texts, storeFaults>>

\* What the generator, the agent and the heartbeat change of each other's.
flagVars == <<taken, cancelRequested, fenceLost, terminal, paused, beating, leased, cut, storeFaults>>
agentVars == <<agentTask, texts>>

StreamCalls == 1..MaxStreamCalls   \* in the order in which the model makes them
NoCallEvent == 0
Consuming == {"items", "check", "recheck"}
Recording == {"completing", "failing"}
Streaming == Consuming \cup Recording

----------------------------------------------------------------------------
(* The client: external.  It takes chunk k about call c. *)

NewClient ==
  [started |-> FALSE, parts |-> {}, step |-> FALSE, inputs |-> {}, outputs |-> {},
   failed |-> FALSE, finish |-> "none", ok |-> TRUE]

Fits(cl, k, c) ==
  /\ cl.started = (k # "start") /\ cl.finish = "none"
  /\ cl.failed => k \in {"error", "stop", "finish-error"}
  /\ k = "start-step" => ~cl.step
  /\ k \in {"finish-step", "text-start", "reasoning-start"} => cl.step /\ cl.parts = {}
  /\ k \in {"text-delta", "text-end"} => cl.parts = {"text"}
  /\ k \in {"reasoning-delta", "reasoning-end"} => cl.parts = {"reasoning"}
  /\ k = "tool-input-available" => cl.step /\ cl.parts = {} /\ c \notin cl.inputs
  /\ k \in {"tool-output-available", "tool-approval-request"} =>
       cl.step /\ cl.parts = {} /\ c \in cl.inputs \ cl.outputs
  /\ k \in {"stop", "tool-calls"} => cl.parts = {} /\ ~cl.step

Received(cl, k, c) ==
  [started |-> TRUE,
   parts   |-> CASE k = "text-start" -> cl.parts \cup {"text"}
                 [] k = "reasoning-start" -> cl.parts \cup {"reasoning"}
                 [] k = "text-end" -> cl.parts \ {"text"}
                 [] k = "reasoning-end" -> cl.parts \ {"reasoning"}
                 [] OTHER -> cl.parts,
   step    |-> k = "start-step" \/ (cl.step /\ k # "finish-step"),
   inputs  |-> IF k = "tool-input-available" THEN cl.inputs \cup {c} ELSE cl.inputs,
   outputs |-> IF k = "tool-output-available" THEN cl.outputs \cup {c} ELSE cl.outputs,
   failed  |-> cl.failed \/ k = "error",
   finish  |-> IF k \in {"stop", "tool-calls", "finish-error"} THEN k ELSE cl.finish,
   ok      |-> cl.ok /\ Fits(cl, k, c)]

----------------------------------------------------------------------------
(* The generator's parts, as functions of s = sse *)

Yield(s, k, c) == [s EXCEPT !.client = Received(@, k, c)]

open_step(s) == IF s.step THEN s ELSE Yield([s EXCEPT !.step = TRUE], "start-step", NoCallEvent)

close_step(s) == IF s.step THEN Yield([s EXCEPT !.step = FALSE], "finish-step", NoCallEvent) ELSE s

close_text_part(s) == IF s.text THEN Yield([s EXCEPT !.text = FALSE], "text-end", NoCallEvent) ELSE s

close_reasoning_part(s) ==
  IF s.reasoning THEN Yield([s EXCEPT !.reasoning = FALSE], "reasoning-end", NoCallEvent) ELSE s

close_open_parts(s) == close_text_part(close_reasoning_part(s))

tool_input(s, c) == Yield([s EXCEPT !.inputs = @ \cup {c}], "tool-input-available", c)

\* The event in the queue, if any: a call the client has not seen is shown first.
drain_event_queue(s) ==
  LET opened == close_open_parts(open_step(s))
      shown  == IF approvalEvent \in s.inputs THEN opened ELSE tool_input(opened, approvalEvent)
  IN IF approvalEvent = NoCallEvent THEN s
     ELSE Yield(shown, "tool-approval-request", approvalEvent)

\* What precedes every last chunk.
ClosedUp(s) == close_step(close_open_parts(drain_event_queue(s)))

text_item(s) ==
  LET t == close_reasoning_part(open_step(s))
      u == IF t.text THEN t ELSE Yield([t EXCEPT !.text = TRUE], "text-start", NoCallEvent)
  IN Yield(u, "text-delta", NoCallEvent)

reasoning_item(s) ==
  LET t == close_text_part(open_step(s))
      u == IF t.reasoning THEN t ELSE Yield([t EXCEPT !.reasoning = TRUE], "reasoning-start", NoCallEvent)
  IN Yield(u, "reasoning-delta", NoCallEvent)

tool_call_item(s, c) == tool_input(close_open_parts(open_step(s)), c)

\* The step ends with the last result that is due.
tool_result_item(s, c, due) ==
  LET t == Yield(close_open_parts(s), "tool-output-available", c)
  IN IF due = 0 THEN close_step(t) ELSE t

----------------------------------------------------------------------------
(* Before the stream *)

\* The run's row is given status s, unless the lease or its version is not the
\* row's or the transition not legal; or the database fails and it is not.
CurrentLease == ~taken /\ ~cancelRequested

CanRecord(s) == CurrentLease /\ (row = "running" \/ (row = "awaiting_user" /\ s = "cancelled"))

StoreFails == storeFaults < MaxStoreFaults /\ storeFaults' = storeFaults + 1

TriesToRecord(s) ==
  \/ CanRecord(s) /\ row' = s /\ UNCHANGED storeFaults
  \/ ~CanRecord(s) /\ UNCHANGED <<row, storeFaults>>
  \/ StoreFails /\ UNCHANGED row

\* The session is found or made, the user's message saved and committed.
chat_setup(ok) ==
  /\ route = "new" /\ route' = IF ok THEN "message" ELSE "over"
  /\ UNCHANGED <<row, agentVars, tokens, approvalEvent, sse, resultsDue, flagVars>>

\* A request that is to be planned gets a stream of its own: the plan that waits
\* for its approval, or the error; only a draft that could not be generated
\* leaves a run.
plan_route(how) ==
  LET begun == Yield(sse, "start", NoCallEvent) IN
  /\ route = "message" /\ route' = "over"
  /\ row' = CASE how = "no_draft" -> "failed_terminal"
              [] how = "proposed" -> "awaiting_user"
              [] OTHER -> row
  /\ sse' = CASE how = "unavailable" -> sse
              [] how = "proposed" -> Yield(begun, "tool-calls", NoCallEvent)
              [] OTHER -> Yield(Yield(begun, "error", NoCallEvent), "stop", NoCallEvent)
  /\ UNCHANGED <<agentVars, tokens, approvalEvent, resultsDue, flagVars>>

\* The run of a direct request, and its lease on the runtime.
start_direct ==
  /\ route = "message" /\ route' = "open" /\ row' = "running" /\ leased' = TRUE
  /\ UNCHANGED <<agentVars, tokens, approvalEvent, sse, resultsDue, taken, cancelRequested, fenceLost, terminal, paused,
                 beating, cut, storeFaults>>

\* The quota is used up, or the run just made is not valid (it fails), or the
\* runtime is gone (it is cancelled).
refuse_direct ==
  /\ route = "message" /\ route' = "over"
  /\ \/ UNCHANGED <<row, storeFaults>>
     \/ \E s \in {"failed_terminal", "cancelled"} : row' = s /\ UNCHANGED storeFaults
     \/ StoreFails /\ row' = "running"
  /\ UNCHANGED <<agentVars, tokens, approvalEvent, sse, resultsDue, taken, cancelRequested, fenceLost, terminal, paused,
                 beating, leased, cut>>

\* The setup is out of time while the run is made: no handler catches that.
setup_timeout ==
  /\ route = "message" /\ route' = "over"
  /\ row' \in {"none", "running"} /\ cut' = "setup"
  /\ UNCHANGED <<agentVars, tokens, approvalEvent, sse, resultsDue, taken, cancelRequested, fenceLost, terminal, paused,
                 beating, leased, storeFaults>>

\* No producer for the stream: the run is cancelled, whether the manager
\* refused it or the setup was cancelled.
not_started ==
  /\ route = "open" /\ route' = "over" /\ leased' = FALSE
  /\ TriesToRecord("cancelled")
  /\ UNCHANGED <<agentVars, tokens, approvalEvent, sse, resultsDue, taken, cancelRequested, fenceLost, terminal, paused,
                 beating, cut>>

begin_stream ==
  /\ route = "open" /\ route' = "items"
  /\ agentTask' = [agentTask EXCEPT !.at = "model"] /\ beating' = TRUE
  /\ sse' = open_step(Yield(sse, "start", NoCallEvent))
  /\ UNCHANGED <<row, tokens, approvalEvent, resultsDue, texts, taken, cancelRequested, fenceLost, terminal, paused,
                 leased, cut, storeFaults>>

----------------------------------------------------------------------------
(* The agent's task, run_stream *)

Item(k, c) == [k |-> k, c |-> c]

\* The agent puts one more item into the queue and is at a.
Puts(k, c, a) ==
  /\ tokens' = Append(tokens, Item(k, c)) /\ agentTask' = a
  /\ UNCHANGED <<route, row, approvalEvent, sse, resultsDue, flagVars>>

agent_writes(k) ==
  /\ agentTask.at = "model" /\ texts < MaxTexts /\ texts' = texts + 1
  /\ Puts(k, NoCallEvent, agentTask)

\* The n calls of a round are announced together, before the first is executed.
agent_calls(n) ==
  LET b == [i \in 1..n |-> agentTask.made + i] IN
  /\ agentTask.at = "model" /\ agentTask.made + n \in StreamCalls
  /\ tokens' = tokens \o [i \in 1..n |-> Item("tool_call", b[i])]
  /\ agentTask' = [agentTask EXCEPT !.at = "tools", !.batch = b, !.made = @ + n]
  /\ UNCHANGED <<route, row, approvalEvent, sse, resultsDue, texts, flagVars>>

\* The next call of the batch has a result, or asks for approval: the row is
\* waiting, the event published, and the rest of the batch left out.
agent_executes(asks) ==
  LET b == agentTask.batch IN
  /\ agentTask.at = "tools" /\ b # <<>>
  /\ agentTask' = [agentTask EXCEPT !.batch = IF asks THEN <<>> ELSE Tail(b),
                                    !.results = Append(@, [call |-> Head(b), asks |-> asks])]
  /\ IF asks THEN row = "running" /\ CurrentLease /\ row' = "awaiting_user" /\ approvalEvent' = Head(b)
     ELSE UNCHANGED <<row, approvalEvent>>
  /\ UNCHANGED <<route, tokens, sse, resultsDue, texts, flagVars>>

\* The results are reported when all are there.
agent_reports ==
  LET r == agentTask.results
      next == IF Len(r) = 1 THEN "model" ELSE "tools" IN
  /\ agentTask.at = "tools" /\ agentTask.batch = <<>>
  /\ IF Head(r).asks THEN Puts("waiting", NoCallEvent, [agentTask EXCEPT !.at = "over"])
     ELSE Puts("tool_result", Head(r).call, [agentTask EXCEPT !.at = next, !.results = Tail(r)])
  /\ UNCHANGED texts

\* The answer is complete, or the agent fails; another handler may just end.
agent_ends(k) ==
  /\ agentTask.at = "model" \/ (k = "error" /\ agentTask.at = "tools")
  /\ IF k = "silent" THEN /\ agentTask' = [agentTask EXCEPT !.at = "silent"]
                          /\ UNCHANGED <<route, row, tokens, approvalEvent, sse, resultsDue, flagVars>>
     ELSE Puts(k, NoCallEvent, [agentTask EXCEPT !.at = "over"])
  /\ UNCHANGED texts

----------------------------------------------------------------------------
(* The heartbeat's task *)

\* The agent's task after its cancellation.
Ended(a) == IF a.at = "silent" THEN a ELSE [a EXCEPT !.at = "over"]

\* Another worker takes the run over: its lease has expired,
\* or the approval it waits for is decided.
lose_lease ==
  /\ route \in Streaming \cup {"ending", "raised"} /\ row \in {"running", "awaiting_user"}
  /\ ~taken /\ taken' = TRUE
  /\ UNCHANGED <<route, row, agentVars, tokens, approvalEvent, sse, resultsDue, cancelRequested, fenceLost,
                 terminal, paused, beating, leased, cut, storeFaults>>

\* The user asks for the run's cancellation: a waiting run is cancelled, of a
\* running one the request is noted, and with it a version that no lease has.
\* The producer is cancelled next (cancel_stream).
request_cancellation ==
  /\ route \in Streaming \cup {"open", "ending", "raised"} /\ row \in {"running", "awaiting_user"}
  /\ CurrentLease /\ cancelRequested' = TRUE
  /\ row' = IF row = "awaiting_user" THEN "cancelled" ELSE row
  /\ UNCHANGED <<route, agentVars, tokens, approvalEvent, sse, resultsDue, taken, fenceLost, terminal,
                 paused, beating, leased, cut, storeFaults>>

\* StaleFenceError ends the agent's task, another error does not.
heartbeat_run_lease ==
  /\ route \in Streaming \cup {"ending", "raised"} /\ beating /\ ~terminal /\ beating' = FALSE
  /\ tokens' = Append(tokens, Item("error", NoCallEvent))
  /\ \/ /\ ~CurrentLease /\ fenceLost' = TRUE /\ UNCHANGED storeFaults
        /\ agentTask' = Ended(agentTask)
     \/ StoreFails /\ UNCHANGED <<agentTask, fenceLost>>
  /\ UNCHANGED <<route, row, approvalEvent, sse, resultsDue, taken, cancelRequested, terminal, paused, leased, cut, texts>>

----------------------------------------------------------------------------
(* The generator, event_stream *)

\* The next item.  An answer is recorded before it is closed, a failure too
\* unless the fence is lost; an answer that comes then is dropped.
handle_item ==
  LET it  == Head(tokens)
      due == IF it.k = "tool_result" /\ resultsDue > 0 THEN resultsDue - 1
             ELSE IF it.k = "tool_call" THEN resultsDue + 1 ELSE resultsDue
      last == it.k = "waiting" \/ (it.k = "error" /\ fenceLost)
  IN
  /\ route = "items" /\ tokens # <<>> /\ tokens' = Tail(tokens)
  /\ route' = CASE last -> "ending"
                [] it.k = "error" /\ ~fenceLost -> "failing"
                [] it.k = "done" /\ ~fenceLost -> "completing"
                [] OTHER -> "items"
  /\ paused' = (it.k = "waiting")
  /\ resultsDue' = IF it.k = "waiting" THEN 0 ELSE due
  /\ sse' = CASE it.k = "token" -> text_item(sse)
              [] it.k = "reasoning" -> reasoning_item(sse)
              [] it.k = "tool_call" -> tool_call_item(sse, it.c)
              [] it.k = "tool_result" -> tool_result_item(sse, it.c, due)
              [] it.k = "waiting" -> Yield(ClosedUp(sse), "tool-calls", NoCallEvent)
              [] it.k = "error" /\ fenceLost -> Yield(ClosedUp(sse), "error", NoCallEvent)
              [] OTHER -> sse
  /\ approvalEvent' = IF last THEN NoCallEvent ELSE approvalEvent
  /\ UNCHANGED <<row, agentVars, taken, cancelRequested, fenceLost, terminal, beating, leased, cut, storeFaults>>

\* No item left: the events, then a look at the agent's task, twice.
look_around ==
  /\ \/ /\ route = "items" /\ tokens = <<>> /\ route' = "check"
        /\ sse' = drain_event_queue(sse) /\ approvalEvent' = NoCallEvent
     \/ /\ route = "check"
        /\ route' = IF agentTask.at \in {"over", "silent"} /\ tokens = <<>> THEN "recheck" ELSE "items"
        /\ UNCHANGED <<sse, approvalEvent>>
     \/ /\ route = "recheck" /\ tokens # <<>> /\ route' = "items"
        /\ UNCHANGED <<sse, approvalEvent>>
     \/ /\ route = "recheck" /\ tokens = <<>> /\ route' = "ending"
        /\ sse' = Yield(ClosedUp(sse), "stop", NoCallEvent) /\ approvalEvent' = NoCallEvent
  /\ UNCHANGED <<row, agentVars, tokens, resultsDue, flagVars>>

\* Mutant: the client is told first.
ToldBeforeRecorded(s, k) ==
  /\ sse' = Yield(ClosedUp(sse), k, NoCallEvent) /\ approvalEvent' = NoCallEvent
  /\ route' = "ending" /\ UNCHANGED <<row, terminal, storeFaults>>

\* The end is recorded and told, or the write raises.
RecordAndTell(s, k) ==
  \/ /\ CanRecord(s) /\ row' = s /\ terminal' = TRUE /\ route' = "ending"
     /\ sse' = Yield(ClosedUp(sse), k, NoCallEvent) /\ approvalEvent' = NoCallEvent
     /\ UNCHANGED storeFaults
  \/ /\ route' = "raised" /\ UNCHANGED <<row, terminal, sse, approvalEvent>>
     /\ (~CanRecord(s) /\ UNCHANGED storeFaults) \/ StoreFails

persist_terminal ==
  /\ \/ route = "completing" /\ RecordAndTell("completed", "stop")
     \/ route = "failing" /\ RecordAndTell("failed_terminal", "error")
  /\ UNCHANGED <<agentVars, tokens, resultsDue, taken, cancelRequested, fenceLost, paused, beating, leased, cut>>

\* The chunks of a producer whose source raises.
ErrorChunks(s) == Yield(Yield(s, "error", NoCallEvent), "finish-error", NoCallEvent)

\* The finally clause; an error that comes out of the generator ends the
\* journal with the producer's own chunks.
end_stream ==
  /\ route \in {"ending", "raised"} /\ route' = "over"
  /\ agentTask' = Ended(agentTask) /\ beating' = FALSE /\ leased' = FALSE
  /\ IF terminal \/ fenceLost \/ paused THEN UNCHANGED <<row, storeFaults>>
     ELSE \E s \in {"cancelled", "failed_terminal"} : TriesToRecord(s)
  /\ sse' = IF route = "raised" THEN ErrorChunks(sse) ELSE sse
  /\ UNCHANGED <<tokens, approvalEvent, resultsDue, taken, cancelRequested, fenceLost, terminal, paused, cut, texts>>

\* The producer is cancelled, or (late) is out of time or cannot journal a chunk,
\* which is told.  The write of the end that was under way may be there.  The
\* last chunk may be told already; a finally clause under way is not completed.
cancel_stream(late) ==
  /\ \/ /\ route \in Streaming /\ route' = IF late THEN "raised" ELSE "ending"
        /\ \/ UNCHANGED row
           \/ route = "completing" /\ CanRecord("completed") /\ row' = "completed"
           \/ route = "failing" /\ CanRecord("failed_terminal") /\ row' = "failed_terminal"
        /\ UNCHANGED <<sse, cut>>
     \/ /\ route = "ending" /\ cut = "no" /\ cut' = "told"
        /\ route' = IF late THEN "raised" ELSE "ending"
        /\ UNCHANGED <<row, sse>>
     \/ /\ route \in {"ending", "raised"} /\ route' = "over" /\ cut' = "finally"
        /\ sse' = IF late THEN ErrorChunks(sse) ELSE sse
        /\ UNCHANGED row
  /\ UNCHANGED <<agentVars, tokens, approvalEvent, resultsDue, taken, cancelRequested, fenceLost, terminal, paused,
                 beating, leased, storeFaults>>

----------------------------------------------------------------------------
StreamInit ==
  /\ route = "new" /\ row = "none" /\ tokens = <<>> /\ approvalEvent = NoCallEvent
  /\ agentTask = [at |-> "off", made |-> 0, batch |-> <<>>, results |-> <<>>]
  /\ sse = [text |-> FALSE, reasoning |-> FALSE, step |-> FALSE, inputs |-> {}, client |-> NewClient]
  /\ resultsDue = 0 /\ texts = 0 /\ storeFaults = 0
  /\ taken = FALSE /\ cancelRequested = FALSE /\ fenceLost = FALSE /\ terminal = FALSE /\ paused = FALSE
  /\ beating = FALSE /\ leased = FALSE /\ cut = "no"

StreamNext ==
  \/ \E yes \in BOOLEAN : chat_setup(yes) \/ agent_executes(yes) \/ cancel_stream(yes)
  \/ \E how \in {"unavailable", "no_draft", "error", "proposed"} : plan_route(how)
  \/ start_direct \/ refuse_direct \/ setup_timeout \/ not_started \/ begin_stream
  \/ \E k \in {"token", "reasoning"} : agent_writes(k)
  \/ \E n \in StreamCalls : agent_calls(n)
  \/ agent_reports \/ \E k \in {"done", "error", "silent"} : agent_ends(k)
  \/ lose_lease \/ request_cancellation \/ heartbeat_run_lease
  \/ handle_item \/ look_around \/ persist_terminal \/ end_stream

StreamSpec == StreamInit /\ [][StreamNext]_streamVars

StreamTypeOK ==
  /\ route \in {"new", "message", "open", "ending", "raised", "over"} \cup Streaming
  /\ row \in {"none", "running", "awaiting_user", "completed", "failed_terminal", "cancelled"}
  /\ agentTask.at \in {"off", "model", "tools", "over", "silent"}
  /\ cut \in {"no", "setup", "told", "finally"}
  /\ approvalEvent \in {NoCallEvent} \cup StreamCalls
  /\ resultsDue \in 0..MaxStreamCalls /\ texts \in 0..MaxTexts /\ storeFaults \in 0..MaxStoreFaults

\* What the client is told is in order and is true, in whichever order items,
\* events, heartbeats, failing writes, cancellation and the deadline come.  Every
\* chunk fits the ones before it: parts lie in a step and are closed before it is,
\* an output or a request for approval follows the one input of its call, nothing
\* follows a finish (docs/api.md:76-90).  "stop" is told of a run that is
\* recorded as completed, "tool-calls" of one that waits or was cancelled while it
\* did.  As long as a call is executed the runtime is marked as executing one.
\* The route leaves no run running and no lease on the runtime.  The exceptions
\* are a failed write, a lost lease, a request for cancellation (with the version
\* it moves on, the end cannot be recorded: the row stays running until its lease
\* expires), a setup out of time, and a cancellation or deadline after the last
\* chunk (its errors follow the finish) or in the finally clause (which is not
\* completed).
StreamIsTrue ==
  LET told == sse.client IN
  /\ told.ok \/ cut \in {"told", "finally"}
  /\ told.finish = "stop" /\ ~told.failed => row = "completed" \/ agentTask.at = "silent"
  /\ told.finish = "tool-calls" => row = "awaiting_user" \/ (row = "cancelled" /\ cancelRequested)
  /\ route \in Consuming /\ agentTask.at = "tools" =>
       resultsDue > 0 \/ \E i \in DOMAIN tokens : tokens[i].k = "tool_call"
  /\ route = "over" /\ cut \in {"no", "told"} => ~leased /\ (row = "running" => ~CurrentLease \/ storeFaults > 0)

=============================================================================
