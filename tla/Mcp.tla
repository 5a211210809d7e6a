-------------------------------- MODULE Mcp --------------------------------
(***************************************************************************)
(* Calls of the tools of one MCP server (mcp/manager.py, client.py,        *)
(* circuit_breaker.py, tool_adapter.py).  A tool call blocks a thread; the *)
(* manager's own event loop connects, calls with retries, refreshes the    *)
(* tool list, and is stopped with the runtime.  The server (external) may  *)
(* answer, fail or stay silent.                                            *)
(***************************************************************************)
EXTENDS Integers, Sequences, FiniteSets

CONSTANTS ToolCalls,
          MaxRetries,      \* _MAX_RETRIES
          Threshold        \* _THRESHOLD of the circuit breaker

VARIABLES usesSecrets,  \* does the server's configuration refer to secrets
          loop,       \* the event loop: "none", "running", "stopping", "stopped", "gone"
          server,     \* ServerState.status: "none", "pending", "connected", "failed", "disconnected"
          session,    \* has the manager's client a session
          breaker,    \* [failures, opened, cooled]
          rpcLock,    \* the client's _rpc_lock: its holder and its waiters
          toolCall    \* [ToolCalls -> [at, attempt]]

mcpVars == <<usesSecrets, loop, server, session, breaker, rpcLock, toolCall>>

NewToolCall == [at |-> "new", attempt |-> 0]
Closed == [failures |-> 0, opened |-> FALSE, cooled |-> FALSE]
Refresh == "refresh"     \* the refresh of the tool list, in rpcLock

OnLoop == loop \in {"running", "stopping"}

----------------------------------------------------------------------------
(* The circuit breaker *)

is_open == breaker.failures >= Threshold /\ breaker.opened /\ ~breaker.cooled

record_success == Closed

\* The time of opening is set once: a failure after the cooldown does not
\* set it again.
record_failure ==
  LET n == breaker.failures + 1 IN
  [breaker EXCEPT !.failures = n, !.opened = @ \/ n >= Threshold]

cooldown ==
  /\ breaker.opened /\ ~breaker.cooled
  /\ breaker' = [breaker EXCEPT !.cooled = TRUE]
  /\ UNCHANGED <<loop, server, session, rpcLock, toolCall>>

----------------------------------------------------------------------------
(* The manager *)

\* connect_servers starts the loop ...
connect_servers ==
  /\ loop = "none" /\ loop' = "running" /\ server' = "pending"
  /\ UNCHANGED <<session, breaker, rpcLock, toolCall>>

\* ... and connects; a server with secrets only lists its tools and is left.
connect_server(connects) ==
  /\ loop = "running" /\ server = "pending"
  /\ server' = IF connects THEN "connected" ELSE "failed"
  /\ session' = (connects /\ ~usesSecrets)
  /\ UNCHANGED <<loop, breaker, rpcLock, toolCall>>

\* stop, once connect_servers has returned: the client is disconnected, ...
disconnect_all ==
  /\ loop = "running" /\ server # "pending" /\ loop' = "stopping"
  /\ UNCHANGED <<server, session, breaker, rpcLock, toolCall>>

disconnect_server ==
  /\ loop = "stopping" /\ session /\ session' = FALSE /\ server' = "disconnected"
  /\ UNCHANGED <<loop, breaker, rpcLock, toolCall>>

\* ... the loop ends where it is, then states and breakers are forgotten.
stop_manager ==
  /\ \/ loop = "stopping" /\ ~session /\ loop' = "stopped" /\ UNCHANGED <<server, breaker>>
     \/ loop = "stopped" /\ loop' = "gone" /\ server' = "none" /\ breaker' = Closed
  /\ UNCHANGED <<session, rpcLock, toolCall>>

----------------------------------------------------------------------------
(* A tool call *)

At(c, at) == [toolCall EXCEPT ![c].at = at]

\* What call_tool records of a failed call: a server has a breaker from its
\* connection to the end of the manager.
Recorded(b) == IF server = "none" THEN breaker ELSE b

\* call_tool, in its thread: refused while the breaker is open; handed to
\* the loop, which must run.
call_tool(c) ==
  /\ toolCall[c].at = "new"
  /\ IF is_open THEN toolCall' = At(c, "raised") /\ UNCHANGED breaker
     ELSE IF OnLoop THEN toolCall' = At(c, "async") /\ UNCHANGED breaker
     ELSE toolCall' = At(c, "raised") /\ breaker' = Recorded(record_failure)
  /\ UNCHANGED <<loop, server, session, rpcLock>>

\* _call_tool_async: the connected client, or one made for this call.  The
\* TimeoutError of its connection is not turned into another error.
call_tool_async(c, connection) ==
  /\ OnLoop /\ toolCall[c].at = "async"
  /\ toolCall' = At(c, IF session THEN "attempt"
                       ELSE IF server = "none" \/ ~usesSecrets THEN "error"
                       ELSE connection)
  /\ UNCHANGED <<loop, server, session, breaker, rpcLock>>

\* The next attempt, or ConnectionError after the last.
Retried(c) ==
  IF toolCall[c].attempt + 1 < MaxRetries
  THEN [toolCall EXCEPT ![c].at = "backoff", ![c].attempt = @ + 1]
  ELSE At(c, "error")

\* MCPClient.call_tool: without a session an error, else the lock's queue.
\* A client made for the call has its own lock.
attempt_call(c) ==
  /\ OnLoop /\ toolCall[c].at = "attempt"
  /\ IF usesSecrets THEN toolCall' = At(c, "rpc") /\ UNCHANGED rpcLock
     ELSE IF session THEN toolCall' = At(c, "rpc") /\ rpcLock' = Append(rpcLock, c)
     ELSE toolCall' = Retried(c) /\ UNCHANGED rpcLock
  /\ UNCHANGED <<loop, server, session, breaker>>

Turns(c) == OnLoop /\ toolCall[c].at = "rpc" /\ (IF usesSecrets THEN TRUE ELSE Head(rpcLock) = c)
Unlocked == IF usesSecrets THEN rpcLock ELSE Tail(rpcLock)

\* The server answers, an error it reports included.
call_answered(c) ==
  /\ Turns(c) /\ (usesSecrets \/ session) /\ rpcLock' = Unlocked
  /\ toolCall' = At(c, "answered")
  /\ UNCHANGED <<loop, server, session, breaker>>

\* Mutant: the server is waited for without a timeout.
WaitsForever(c) == FALSE /\ UNCHANGED mcpVars

\* The timeout of the call (the server may have executed it), or a session
\* that was closed while the call waited for the lock.
call_timeout(c) ==
  /\ Turns(c) /\ rpcLock' = Unlocked /\ toolCall' = Retried(c)
  /\ UNCHANGED <<loop, server, session, breaker>>

\* Authentication and unknown tools are not retried; other errors are.
call_error(c, fatal) ==
  /\ Turns(c) /\ rpcLock' = Unlocked
  /\ toolCall' = IF fatal THEN At(c, "error") ELSE Retried(c)
  /\ UNCHANGED <<loop, server, session, breaker>>

backoff(c) ==
  /\ OnLoop /\ toolCall[c].at = "backoff" /\ toolCall' = At(c, "attempt")
  /\ UNCHANGED <<loop, server, session, breaker, rpcLock>>

\* The thread, polling, finds the result.  A coroutine's own TimeoutError is to
\* it a poll that found nothing: concurrent.futures raises the same class, and
\* the thread of a call that "timed out" polls for ever.
run_sync(c) ==
  /\ toolCall[c].at \in {"answered", "error"}
  /\ toolCall' = At(c, IF toolCall[c].at = "answered" THEN "returned" ELSE "raised")
  /\ breaker' = Recorded(IF toolCall[c].at = "answered" THEN record_success ELSE record_failure)
  /\ UNCHANGED <<loop, server, session, rpcLock>>

\* The server announces other tools: they are listed under the lock.
refresh_tools ==
  /\ OnLoop /\ session /\ \A i \in DOMAIN rpcLock : rpcLock[i] # Refresh
  /\ rpcLock' = Append(rpcLock, Refresh)
  /\ UNCHANGED <<loop, server, session, breaker, toolCall>>

discover_tools ==
  /\ OnLoop /\ rpcLock # <<>> /\ Head(rpcLock) = Refresh
  /\ rpcLock' = Tail(rpcLock)
  /\ UNCHANGED <<loop, server, session, breaker, toolCall>>

----------------------------------------------------------------------------
McpInit ==
  /\ usesSecrets \in BOOLEAN
  /\ loop = "none" /\ server = "none" /\ session = FALSE /\ breaker = Closed
  /\ rpcLock = <<>> /\ toolCall = [c \in ToolCalls |-> NewToolCall]

\* What the loop and the thread do for a call whatever the server does.
CallStep(c) ==
  \/ attempt_call(c) \/ backoff(c) \/ call_timeout(c) \/ run_sync(c)
  \/ \E connection \in {"attempt", "error", "timed out"} : call_tool_async(c, connection)

McpNext ==
  /\ \/ connect_servers \/ disconnect_all \/ disconnect_server \/ stop_manager \/ cooldown
     \/ refresh_tools \/ discover_tools
     \/ \E connects \in BOOLEAN : connect_server(connects)
     \/ \E c \in ToolCalls : CallStep(c) \/ call_tool(c) \/ call_answered(c)
     \/ \E c \in ToolCalls, fatal \in BOOLEAN : call_error(c, fatal)
  /\ UNCHANGED usesSecrets

McpSpec == McpInit /\ [][McpNext]_mcpVars

----------------------------------------------------------------------------
(* Properties *)

McpTypeOK ==
  /\ \A c \in ToolCalls : toolCall[c].attempt \in 0..(MaxRetries - 1) 
  /\ session => server = "connected"
  /\ usesSecrets => rpcLock = <<>>

\* The connection made for a call, with the secrets of the server's
\* configuration, was not answered in time.
ConnectTimedOut(c) == usesSecrets /\ toolCall[c].at = "timed out"

\* A thread that has called a tool gets a result or an error, though the
\* server stays silent at every attempt and other calls and refreshes hold the
\* client's lock; unless the runtime stops its manager meanwhile, or it is the
\* connection made for the call that the server leaves unanswered (call_tool,
\* call_tool_with_retry, _run_sync).
CallsReturn ==
  \A c \in ToolCalls :
    (toolCall[c].at # "new") ~> \/ toolCall[c].at \in {"returned", "raised"}
                                \/ loop \in {"stopped", "gone"}
                                \/ ConnectTimedOut(c)

=============================================================================
