----------------------------- MODULE AgentLoop -----------------------------
(***************************************************************************)
(* The agent's loop of model requests and tool batches (agent/multiclaw.py *)
(* with agent/tool_batch.py, agent/resilience.py, agent/compaction.py),    *)
(* down to the attempts of one request (llm/router.py).  One conversation, *)
(* in one of the four forms the code has of the loop:                      *)
(*   "stream"    handle_message_stream      "message"  handle_message      *)
(*   "recovery"  _continue_from_messages    "step"     run_plan_step       *)
(* Texts are abstracted; a batch of tool calls is its length and its       *)
(* fingerprint, every message counts one against the context window.       *)
(* What the workflow records of a round is in ToolWorkflow and Plans, the  *)
(* token budget in Inference; here a request may be refused by it.         *)
(***************************************************************************)
EXTENDS Integers, Sequences, FiniteSetsExt

CONSTANTS MaxRounds,        \* agent.max_tool_rounds
          RepeatLimit,      \* agent.no_progress_repeat_limit
          MaxReflections,   \* agent.reflection_max_attempts
          MaxLlmRetries,    \* llm.max_retries
          ContextLimit,     \* messages that fit into the context window
          Steers,           \* instructions a user may add while the run executes
          Prints,           \* fingerprints of calls and of results
          MaxBatch, MaxChunks, MaxResumes

ASSUME LoopBounds ==
  /\ {MaxRounds, RepeatLimit, MaxBatch} \subseteq Nat \ {0}
  /\ {MaxReflections, MaxLlmRetries, ContextLimit, MaxChunks, MaxResumes} \subseteq Nat

VARIABLES mode, at, rnd,
          msgs,        \* the caller's list of messages
          ask,         \* the model request under way
          toolBatch,   \* the calls the model asked for
          resilience,  \* the resilience controller
          invalid,     \* invalid_terminal_responses
          control,     \* steering of the run's control, not collected yet
          collected,   \* steering of the run's inference budget
          cancelled,   \* cancellation was requested
          loopOutcome, resumes

talkVars == <<rnd, msgs, resilience, invalid>>
runVars == <<mode, control, collected, cancelled, resumes>>
stepVars == <<at, ask, toolBatch, loopOutcome>>
loopVars == <<talkVars, runVars, stepVars>>

----------------------------------------------------------------------------
(* Messages *)

Msg(role, id) == [role |-> role, id |-> id, n |-> 0]
CallsMsg(n) == [role |-> "assistant", id |-> "calls", n |-> n]
Result(i) == [role |-> "tool", id |-> "result", n |-> i]

Has(ms, m) == \E i \in DOMAIN ms : ms[i] = m

\* _groups accepts the messages: every call is directly followed by its
\* results and there is no other result.
Whole(ms) ==
  \A i \in DOMAIN ms :
    IF ms[i].role = "tool"
    THEN \E j \in 1..(i - 1) : ms[j].role = "assistant" /\ ms[i].n = i - j /\ ms[i].n <= ms[j].n
    ELSE \A k \in 1..ms[i].n : i + k \in DOMAIN ms /\ ms[i + k] = Result(k)

Pinned(ms) ==
  LET users == {i \in DOMAIN ms : ms[i].role = "user"}
  IN {i \in DOMAIN ms : ms[i].role = "system"}
     \cup (IF users = {} THEN {} ELSE {Min(users), Max(users)})

\* Mutant: the newest messages are kept, not the newest exchanges.
ExchangeOfMessage(ms, i) == i

\* The message that starts the exchange of message i.
ExchangeOf(ms, i) == IF ms[i].role = "tool" THEN i - ms[i].n ELSE i

\* The messages a request over the limit keeps: the pinned ones and the newest
\* exchanges that fit beside them and the summary; an earlier summary is not kept.
Kept(ms) ==
  LET pinned == Pinned(ms)
      free   == {i \in DOMAIN ms \ pinned : ms[i].id # "summary"}
      room   == ContextLimit - Cardinality(pinned)
  IN pinned \cup {i \in free : Cardinality({j \in free : j >= ExchangeOf(ms, i)})
                               <= room - Min({1, room})}

\* list.insert, counting from 1.
insert(ms, p, m) == SubSeq(ms, 1, p - 1) \o <<m>> \o SubSeq(ms, p, Len(ms))

\* _insert_bounded_summary: after the first message of the user, if it fits.
insert_bounded_summary(ms) ==
  LET users == {i \in DOMAIN ms : ms[i].role = "user"}
  IN IF Len(ms) + 1 > ContextLimit THEN ms
     ELSE insert(ms, IF users = {} THEN 1 ELSE Min(users) + 1, Msg("assistant", "summary"))

select(ms, indices) ==
  [k \in 1..Cardinality(indices) |->
     ms[CHOOSE i \in indices : Cardinality({j \in indices : j <= i}) = k]]

\* ContextCompactor.prepare refuses messages that are not whole exchanges, and
\* pinned messages that do not fit.
Preparable(ms) == Whole(ms) /\ (Len(ms) > ContextLimit => Cardinality(Pinned(ms)) <= ContextLimit)

compact(ms) ==
  IF Len(ms) <= ContextLimit THEN ms ELSE insert_bounded_summary(select(ms, Kept(ms)))

\* _prepare adds what the user said meanwhile, and once there is more than one
\* message of the user, the objective.
add_steering(ms, steers) ==
  LET said == [i \in DOMAIN steers |-> Msg("user", steers[i])]
  IN ms \o select(said, {i \in DOMAIN said : ~Has(ms, said[i])})

add_objective(ms) ==
  IF /\ Cardinality({i \in DOMAIN ms : ms[i].role = "user"}) > 1
     /\ ~Has(ms, Msg("system", "objective"))
  THEN insert(ms, 2, Msg("system", "objective"))
  ELSE ms

\* The request _prepare makes of the messages, if it does not refuse them.
Prepared(ms, steers) ==
  {compact(full) : full \in {f \in {add_objective(add_steering(ms, steers))} : Preparable(f)}}

----------------------------------------------------------------------------
(* The resilience controller *)

NoPrint == "none"
NewController(on) ==
  [on |-> on, call |-> NoPrint, calls |-> 0, result |-> NoPrint, results |-> 0, used |-> 0]

next_repeats(previous, current, repeats) == IF previous = current THEN repeats + 1 ELSE 1

observe_calls(s, p) == [s EXCEPT !.call = p, !.calls = next_repeats(s.call, p, s.calls)]
observe_results(s, p) == [s EXCEPT !.result = p, !.results = next_repeats(s.result, p, s.results)]

mark_reflection_used(s) == [s EXCEPT !.used = Min({@ + 1, MaxReflections})]

decision(s, repeats) ==
  CASE ~s.on \/ repeats < RepeatLimit -> "continue"
    [] OTHER -> IF s.used < MaxReflections THEN "reflect" ELSE "terminate"

----------------------------------------------------------------------------
(* How a loop goes on and ends *)

NoAsk == [for |-> "nothing", n |-> 0, got |-> <<>>, sent |-> <<>>]
NoBatch == [n |-> 0, done |-> 0]

EndsAs(how) == at' = "end" /\ loopOutcome' = how /\ ask' = NoAsk /\ toolBatch' = NoBatch

\* The next round; after the last one a final summary, or, in a plan step, the
\* step's failure.
NextRound ==
  IF rnd + 1 < MaxRounds
  THEN /\ at' = "round" /\ rnd' = rnd + 1
       /\ ask' = NoAsk /\ toolBatch' = NoBatch /\ UNCHANGED loopOutcome
  ELSE /\ UNCHANGED rnd
       /\ IF mode = "step" THEN EndsAs("failed")
          ELSE at' = "summary" /\ ask' = NoAsk /\ toolBatch' = NoBatch /\ UNCHANGED loopOutcome

\* The loop is left and a final answer asked for, or a reflection.
Goes(to) == at' = to /\ ask' = NoAsk /\ toolBatch' = NoBatch /\ UNCHANGED loopOutcome

\* A request that fails: a reflection is given up and the loop with it, a final
\* summary is replaced by a fixed text that is not saved, anything else is raised.
RequestFails(for) ==
  CASE for = "round" -> EndsAs("raised")
    [] for = "reflect" -> Goes("summary")
    [] OTHER -> EndsAs(CASE mode = "stream" -> "fallback"
                         [] mode = "message" -> "error"
                         [] OTHER -> "raised")

----------------------------------------------------------------------------
(* A request of the model *)

\* The caller's cancellation check, then _prepare, which may also find the
\* budget used up; base is the caller's own list exactly when own.
begin_request(for, base, own) ==
  /\ IF cancelled
     THEN EndsAs("cancelled") /\ UNCHANGED <<msgs, control, collected>>
     ELSE /\ control' = <<>> /\ collected' = collected \o control
          /\ \/ RequestFails(for) /\ UNCHANGED msgs
             \/ \E sent \in Prepared(base, collected \o control) :
                  /\ ask' = [for |-> for, n |-> 0, got |-> <<>>, sent |-> sent]
                  /\ msgs' = IF own THEN sent ELSE msgs
                  /\ at' = "model" /\ UNCHANGED <<loopOutcome, toolBatch>>
  /\ UNCHANGED <<mode, rnd, resilience, invalid, cancelled, resumes>>

start_round == at = "round" /\ begin_request("round", msgs, TRUE)

attempt_reflection ==
  at = "reflect" /\ begin_request("reflect", Append(msgs, Msg("system", "reflect")), FALSE)

\* _generate_final_summary, and its second request when the first answer has
\* tool markup in it.
generate_final_summary ==
  \/ at = "summary" /\ begin_request("summary", msgs, TRUE)
  \/ at = "resummary" /\ begin_request("resummary", <<Msg("system", "plain")>> \o msgs, FALSE)

Streamed == mode = "stream" /\ ask.for # "reflect"

\* One attempt of stream_completion delivers an event.
stream_event ==
  /\ at = "model" /\ Streamed /\ Len(ask.got) < MaxChunks
  /\ ask' = [ask EXCEPT !.got = Append(@, ask.n)]
  /\ UNCHANGED <<talkVars, runVars, at, toolBatch, loopOutcome>>

CanRetry == ask.n < MaxLlmRetries /\ ask.got = <<>>

\* An HTTP error: a retryable one is retried as long as attempts are left.
http_error(retryable) ==
  /\ at = "model"
  /\ IF retryable /\ CanRetry
     THEN ask' = [ask EXCEPT !.n = @ + 1] /\ UNCHANGED <<at, loopOutcome, toolBatch>>
     ELSE RequestFails(ask.for)
  /\ UNCHANGED <<talkVars, runVars>>

\* An answer that cannot be parsed, or an error event of the stream.
invalid_response ==
  /\ at = "model" /\ RequestFails(ask.for)
  /\ UNCHANGED <<talkVars, runVars>>

\* A streamed round that runs into a timeout of its own ends with an error event.
round_timeout ==
  /\ mode = "stream" /\ (at \in {"round", "batch"} \/ (at = "model" /\ ask.for = "round"))
  /\ EndsAs("timeout")
  /\ UNCHANGED <<talkVars, runVars>>

----------------------------------------------------------------------------
(* What is done with an answer *)

\* A round answered in text: saved and done; saving it may fail.
text_answer ==
  /\ at = "model" /\ ask.for = "round" /\ mode # "step"
  /\ EndsAs("answered") \/ EndsAs("raised")
  /\ UNCHANGED <<talkVars, runVars>>

\* A round answered with tool calls: in "stream" and "message" a batch that
\* repeats asks for a reflection first, a recovered loop only ever terminates.
tool_calls(n, p) ==
  LET s == IF mode = "step" THEN resilience ELSE observe_calls(resilience, p)
      d == decision(s, s.calls)
  IN /\ at = "model" /\ ask.for = "round" /\ resilience' = s
     /\ CASE mode # "step" /\ d = "terminate" -> Goes("summary") /\ UNCHANGED msgs
          [] mode \in {"stream", "message"} /\ d = "reflect" -> Goes("reflect") /\ UNCHANGED msgs
          [] OTHER -> /\ msgs' = Append(msgs, CallsMsg(n)) /\ toolBatch' = [n |-> n, done |-> 0]
                      /\ at' = "batch" /\ ask' = NoAsk /\ UNCHANGED loopOutcome
     /\ UNCHANGED <<runVars, rnd, invalid>>

\* A plan step is completed by one valid call of complete_plan_step ...
complete_plan_step ==
  /\ at = "model" /\ ask.for = "round" /\ mode = "step"
  /\ EndsAs("completed")
  /\ UNCHANGED <<talkVars, runVars>>

\* ... and text, an invalid call or one among others is asked for again, at most
\* MaxReflections times.
invalid_terminal_response ==
  /\ at = "model" /\ ask.for = "round" /\ mode = "step"
  /\ invalid' = invalid + 1
  /\ IF invalid' >= MaxReflections + 1
     THEN EndsAs("failed") /\ UNCHANGED <<msgs, rnd>>
     ELSE msgs' = Append(msgs, Msg("system", "protocol")) /\ NextRound
  /\ UNCHANGED <<runVars, resilience>>

\* A reflection becomes a message of the loop and uses up the round.
reflected ==
  /\ at = "model" /\ ask.for = "reflect"
  /\ resilience' = mark_reflection_used(resilience)
  /\ msgs' = Append(msgs, Msg("system", "feedback")) /\ NextRound
  /\ UNCHANGED <<runVars, invalid>>

\* The final summary: saved and done, or asked for once more.
summary_answer(markup) ==
  /\ at = "model" /\ ask.for \in {"summary", "resummary"}
  /\ IF markup /\ ask.for = "summary" THEN Goes("resummary")
     ELSE EndsAs("answered") \/ EndsAs(IF mode = "message" THEN "error" ELSE "raised")
  /\ UNCHANGED <<talkVars, runVars>>

----------------------------------------------------------------------------
(* A batch of tool calls *)

\* One call of the batch has its result.
OneDone == toolBatch' = [toolBatch EXCEPT !.done = @ + 1] /\ UNCHANGED <<at, ask, loopOutcome>>

\* ToolBatchExecutor.execute: a call that waits for approval cuts the batch.
Cut == toolBatch' = [n |-> toolBatch.done + 1, done |-> toolBatch.done + 1] /\ UNCHANGED <<at, ask, loopOutcome>>

\* The calls run one after the other, each after a cancellation check unless its
\* tool is unknown.
execute_one(known) ==
  /\ at = "batch" /\ toolBatch.done < toolBatch.n
  /\ known => mode # "message"
  /\ IF known /\ cancelled THEN EndsAs("cancelled")
     ELSE \/ OneDone
          \/ known /\ (EndsAs("raised") \/ EndsAs("awaiting"))
  /\ UNCHANGED <<talkVars, runVars>>

\* handle_message runs its tools outside a workflow run: a tool that fails or is
\* denied has an error for its result, and one that needs approval has that as
\* its result, after which the loop goes on.  What can raise is the validation of
\* the arguments and the audit log.
run_ephemeral ==
  /\ at = "batch" /\ toolBatch.done < toolBatch.n /\ mode = "message"
  /\ IF cancelled THEN EndsAs("cancelled") ELSE OneDone \/ Cut \/ EndsAs("raised")
  /\ UNCHANGED <<talkVars, runVars>>

\* The results are added to the messages and, in "stream" and "message",
\* compared with the previous ones.
batch_returns(p) ==
  LET s == IF mode \in {"stream", "message"} THEN observe_results(resilience, p) ELSE resilience
      d == IF mode \in {"stream", "message"} THEN decision(s, s.results) ELSE "continue"
  IN /\ at = "batch" /\ toolBatch.done = toolBatch.n
     /\ msgs' = msgs \o [i \in 1..toolBatch.n |-> Result(i)]
     /\ resilience' = s
     /\ CASE d = "continue" -> NextRound
          [] d = "reflect" -> Goes("reflect") /\ UNCHANGED rnd
          [] OTHER -> Goes("summary") /\ UNCHANGED rnd
     /\ UNCHANGED <<runVars, invalid>>

\* A result cannot be remembered.
remember_fails ==
  /\ at = "batch" /\ toolBatch.done = toolBatch.n /\ mode # "step"
  /\ EndsAs("raised")
  /\ UNCHANGED <<talkVars, runVars>>

----------------------------------------------------------------------------
(* Around the loop *)

\* BackgroundRunManager.steer: saved as a message of the chat, and queued.
steer(s) ==
  /\ at # "end" /\ mode # "message" /\ s \notin Range(control \o collected)
  /\ control' = Append(control, s)
  /\ UNCHANGED <<talkVars, stepVars, mode, collected, cancelled, resumes>>

cancel_loop ==
  /\ at # "end" /\ ~cancelled /\ cancelled' = TRUE
  /\ UNCHANGED <<talkVars, stepVars, mode, control, collected, resumes>>

\* What a loop starts from, where recovered is the one tool call whose result is
\* known, and chat what the user has said in the session.
FirstMessages(m, recovered, chat) ==
  <<Msg("system", "prompt")>>
  \o (IF m = "step" THEN <<Msg("system", "step")>> ELSE <<>>)
  \o <<Msg("user", "task")>>
  \o (IF m = "step" THEN <<>> ELSE [i \in DOMAIN chat |-> Msg("user", chat[i])])
  \o (IF recovered THEN <<CallsMsg(1), Result(1)>> ELSE <<>>)

\* The call that waited was decided: recovery builds the messages anew, from
\* the chat and that call.
resume_recovery ==
  /\ at = "end" /\ loopOutcome = "awaiting" /\ resumes < MaxResumes
  /\ mode' = IF mode = "step" THEN "step" ELSE "recovery"
  /\ msgs' = FirstMessages(mode', TRUE, collected \o control)
  /\ at' = "round" /\ rnd' = 0 /\ resilience' = NewController(resilience.on) /\ invalid' = 0
  /\ control' = <<>> /\ collected' = <<>> /\ loopOutcome' = "none" /\ resumes' = resumes + 1
  /\ UNCHANGED <<ask, toolBatch, cancelled>>

LoopInit ==
  /\ mode \in {"stream", "message", "recovery", "step"}
  /\ \E recovered \in BOOLEAN :
       /\ recovered => mode \in {"recovery", "step"}
       /\ msgs = FirstMessages(mode, recovered, <<>>)
  /\ \E on \in BOOLEAN : resilience = NewController(on)
  /\ at = "round" /\ rnd = 0 /\ ask = NoAsk /\ toolBatch = NoBatch /\ invalid = 0
  /\ control = <<>> /\ collected = <<>> /\ cancelled = FALSE /\ loopOutcome = "none" /\ resumes = 0

LoopStep ==
  \/ start_round \/ attempt_reflection \/ generate_final_summary
  \/ stream_event \/ invalid_response \/ round_timeout
  \/ \E retryable \in BOOLEAN : http_error(retryable)
  \/ text_answer \/ complete_plan_step \/ invalid_terminal_response \/ reflected
  \/ \E n \in 1..MaxBatch, p \in Prints : tool_calls(n, p)
  \/ \E markup \in BOOLEAN : summary_answer(markup)
  \/ \E known \in BOOLEAN : execute_one(known)
  \/ run_ephemeral
  \/ remember_fails \/ \E p \in Prints : batch_returns(p)

LoopNext ==
  \/ LoopStep
  \/ \E s \in Steers : steer(s)
  \/ cancel_loop
  \/ resume_recovery

LoopSpec == LoopInit /\ [][LoopNext]_loopVars

----------------------------------------------------------------------------
(* Properties *)

LoopTypeOK ==
  /\ at \in {"round", "model", "batch", "reflect", "summary", "resummary", "end"}
  /\ (at = "end") = (loopOutcome # "none")
  /\ rnd < MaxRounds /\ resilience.used <= MaxReflections /\ ask.n <= MaxLlmRetries

\* Every request that is sent consists of whole exchanges: an assistant's tool
\* calls directly followed by the results of all of them, although the loop
\* reflects between a call and its execution, steering is put in between
\* requests, exchanges are compacted away and a recovered loop is given only
\* one call of a batch.  And but for handle_message, which goes on after a call
\* that waits for approval, the loop never asks with messages that
\* ContextCompactor._groups would refuse.
ExchangesWhole ==
  /\ Whole(ask.sent)
  /\ mode # "message" /\ at \in {"round", "reflect", "summary", "resummary"} => Whole(msgs)

\* What a subscriber is shown of a round, and what is saved as the answer, comes
\* from one attempt of the request: no text is shown twice because
\* stream_completion tried again.
StreamedOnce == \A i \in DOMAIN ask.got : ask.got[i] = ask.n

\* Both ends of the loop: what the model is asked is whole exchanges, what the
\* user is told of its answer is one attempt's.
ConversationSound == ExchangesWhole /\ StreamedOnce

=============================================================================
