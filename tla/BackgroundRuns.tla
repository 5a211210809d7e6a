--------------------------- MODULE BackgroundRuns ---------------------------
(***************************************************************************)
(* The runs of one session in one process: admission, setup, producers,    *)
(* the queue of messages and its worker, cancellation and shutdown         *)
(* (runtime/background.py, and the routes of api/chat.py, api/runs.py,     *)
(* api/plans.py that use it).                                              *)
(*                                                                         *)
(* A request is a chat (it owns a setup task), a direct start (the plan    *)
(* and summary routes, recovery) or a queued message (the queue worker     *)
(* owns its setup).  A step runs from one await to the next.               *)
(***************************************************************************)
EXTENDS Integers, Sequences, FiniteSetsExt

CONSTANTS Chats, Directs, Messages,   \* requests, by kind
          MaxQueue,                   \* max_queued_messages
          MaxCancels                  \* bound: cancellations of the session

VARIABLES admitted,    \* is the session in _admitted
          setup,       \* the request in _setups, or NoRequest
          producers,   \* requests with a producer
          queue,       \* sequence of messages
          entry,       \* [Messages -> status of the run_queue entry]
          worker,      \* [at, req] of the queue worker
          request,     \* [Requests -> where its handler or setup is]
          outcome,     \* [Messages -> how its run stands]
          canceller,   \* [at, kind, pending] of cancel_session, revoke or close
          revoked, managerClosed, cancels

backgroundVars == <<admitted, setup, producers, queue, entry, worker, request, outcome,
                    canceller, revoked, managerClosed, cancels>>

Requests == Chats \cup Directs \cup Messages
NoRequest == "none"

ASSUME BackgroundConstants ==
  /\ Chats \cap Directs = {} /\ Chats \cap Messages = {} /\ Directs \cap Messages = {}
  /\ NoRequest \notin Requests

NoWorker == [at |-> "none", req |-> NoRequest]
NoCanceller == [at |-> "none", kind |-> "none", pending |-> {}]

Refusing == managerClosed \/ revoked
active_session == setup # NoRequest \/ producers # {}

\* Mutant: an admitted request does not make the session busy.
BusyWhenActive == active_session

session_busy == admitted \/ active_session

\* _start_queue_worker, in the state a step leads to.
start_queue_worker(adm, set, prod, q, w) ==
  IF Refusing \/ set # NoRequest \/ prod # {} \/ adm \/ q = <<>> \/ w # NoWorker THEN w
  ELSE [at |-> "top", req |-> NoRequest]

\* Mutant: nobody looks at the queue when the session becomes free.
ReleaseQuietly(set, prod) == admitted' = FALSE /\ UNCHANGED worker

\* release_session: the worker may start.
release_session(set, prod) ==
  /\ admitted' = FALSE
  /\ worker' = start_queue_worker(FALSE, set, prod, queue, worker)

----------------------------------------------------------------------------
(* Requests *)

\* The runs of rs stand at x; only those of messages are kept.
OutcomeOf(rs, x) == [m \in Messages |-> IF m \in rs THEN x ELSE outcome[m]]

\* reserve_session, in the chat route and in session_admission: 409 if busy.
reserve_session(r) ==
  /\ r \in Chats \cup Directs /\ request[r] = "new"
  /\ IF session_busy
     THEN request' = [request EXCEPT ![r] = "over"] /\ UNCHANGED admitted
     ELSE request' = [request EXCEPT ![r] = "admitted"] /\ admitted' = TRUE
  /\ UNCHANGED <<setup, producers, queue, entry, worker, outcome, canceller, revoked,
                 managerClosed, cancels>>

\* run_setup of a chat, once its session is committed (or was not).
run_setup(r, committed) ==
  /\ r \in Chats /\ request[r] = "admitted"
  /\ IF ~committed \/ Refusing
     THEN /\ release_session(setup, producers)
          /\ request' = [request EXCEPT ![r] = "over"] /\ UNCHANGED setup
     ELSE IF setup # NoRequest
     THEN request' = [request EXCEPT ![r] = "over"] /\ UNCHANGED <<admitted, setup, worker>>
     ELSE setup' = r /\ request' = [request EXCEPT ![r] = "setup"] /\ UNCHANGED <<admitted, worker>>
  /\ UNCHANGED <<producers, queue, entry, outcome, canceller, revoked, managerClosed, cancels>>

\* The setup of r is over: a chat releases the session, a message's worker goes on.
SetupOver(r, to, prod) ==
  /\ setup' = NoRequest
  /\ request' = [request EXCEPT ![r] = to]
  /\ IF r \in Chats THEN release_session(NoRequest, prod) ELSE UNCHANGED <<admitted, worker>>

SetupFails(r) ==
  /\ setup = r /\ request[r] = "setup"
  /\ SetupOver(r, "over", producers)
  /\ UNCHANGED <<producers, queue, entry, outcome, canceller, revoked, managerClosed, cancels>>

\* start: a producer for the run, if the manager takes any.
start(r) ==
  /\ \/ setup = r /\ request[r] = "setup"
     \/ r \in Directs /\ request[r] = "admitted"
  /\ IF Refusing
     THEN IF r \in Directs
          THEN /\ release_session(setup, producers) /\ request' = [request EXCEPT ![r] = "over"]
               /\ UNCHANGED <<producers, outcome, setup>>
          ELSE SetupOver(r, "over", producers) /\ UNCHANGED <<producers, outcome>>
     ELSE /\ producers' = producers \cup {r}
          /\ outcome' = OutcomeOf({r}, "active")
          /\ request' = [request EXCEPT ![r] = "started"]
          /\ UNCHANGED <<admitted, worker, setup>>
  /\ UNCHANGED <<queue, entry, canceller, revoked, managerClosed, cancels>>

\* wait_started: the first event is there, and the response is returned; or
\* it took too long, and background_response cancels the producer.
wait_started(r, late) ==
  LET prod == IF late THEN producers \ {r} ELSE producers IN
  /\ request[r] = "started"
  /\ producers' = prod
  /\ outcome' = IF late /\ r \in producers THEN OutcomeOf({r}, "cancelled") ELSE outcome
  /\ IF r \in Directs
     THEN release_session(setup, prod) /\ request' = [request EXCEPT ![r] = "over"] /\ UNCHANGED setup
     ELSE SetupOver(r, "over", prod)
  /\ UNCHANGED <<queue, entry, canceller, revoked, managerClosed, cancels>>

\* _produce ends: the stream is over, an error or the deadline is journalled.
produce(r, end) ==
  /\ r \in producers
  /\ producers' = producers \ {r}
  /\ outcome' = OutcomeOf({r}, end)
  /\ worker' = start_queue_worker(admitted, setup, producers \ {r}, queue, worker)
  /\ UNCHANGED <<admitted, setup, queue, entry, request, canceller, revoked, managerClosed, cancels>>

----------------------------------------------------------------------------
(* The queue *)

\* queue_message: the bound is checked and the entry saved ...
queue_message(m) ==
  /\ m \in Messages /\ request[m] = "new"
  /\ IF Refusing \/ Len(queue) >= MaxQueue
     THEN request' = [request EXCEPT ![m] = "over"] /\ UNCHANGED entry
     ELSE /\ request' = [request EXCEPT ![m] = "saved"]
          /\ entry' = [entry EXCEPT ![m] = "queued"]
  /\ UNCHANGED <<admitted, setup, producers, queue, worker, outcome, canceller, revoked,
                 managerClosed, cancels>>

\* Mutant: the bound is not checked again.
EnqueueUnchecked(m) ==
  /\ request[m] = "saved"
  /\ request' = [request EXCEPT ![m] = "queued"]
  /\ queue' = Append(queue, m)
  /\ worker' = start_queue_worker(admitted, setup, producers, Append(queue, m), worker)
  /\ UNCHANGED <<admitted, setup, producers, entry, outcome, canceller, revoked,
                 managerClosed, cancels>>

\* ... and checked again when the message is enqueued.
enqueue(m) ==
  /\ request[m] = "saved"
  /\ IF Refusing \/ Len(queue) >= MaxQueue
     THEN /\ entry' = [entry EXCEPT ![m] = "failed"]
          /\ request' = [request EXCEPT ![m] = "over"]
          /\ UNCHANGED <<queue, worker>>
     ELSE /\ request' = [request EXCEPT ![m] = "queued"]
          /\ queue' = Append(queue, m)
          /\ worker' = start_queue_worker(admitted, setup, producers, Append(queue, m), worker)
          /\ UNCHANGED entry
  /\ UNCHANGED <<admitted, setup, producers, outcome, canceller, revoked, managerClosed, cancels>>

\* _drain_queue ends; what is still queued gets a new worker if it may run.
WorkerExits(adm) ==
  /\ admitted' = adm
  /\ worker' = start_queue_worker(adm, setup, producers, queue, NoWorker)

\* The next message, if the session is free.
drain_queue ==
  /\ worker.at = "top"
  /\ IF queue = <<>> \/ Refusing \/ active_session \/ admitted
     THEN WorkerExits(admitted) /\ UNCHANGED queue
     ELSE /\ admitted' = TRUE
          /\ queue' = Tail(queue)
          /\ worker' = [at |-> "take", req |-> Head(queue)]
  /\ UNCHANGED <<setup, producers, entry, request, outcome, canceller, revoked, managerClosed, cancels>>

\* Its entry is running; then its own run_setup.
BeginOperation ==
  LET m == worker.req IN
  /\ worker.at = "take"
  /\ entry' = [entry EXCEPT ![m] = "running"]
  /\ IF Refusing \/ setup # NoRequest
     THEN worker' = [worker EXCEPT !.at = "report"] /\ UNCHANGED <<setup, request>>
     ELSE /\ setup' = m /\ request' = [request EXCEPT ![m] = "setup"]
          /\ worker' = [worker EXCEPT !.at = "operation"]
  /\ UNCHANGED <<admitted, producers, queue, outcome, canceller, revoked, managerClosed, cancels>>

\* The setup has ended, or was cancelled under the worker.
EndOperation ==
  /\ worker.at = "operation" /\ setup # worker.req
  /\ worker' = [worker EXCEPT !.at = IF request[worker.req] = "cancelled" THEN "abandon" ELSE "report"]
  /\ UNCHANGED <<admitted, setup, producers, queue, entry, request, outcome, canceller,
                 revoked, managerClosed, cancels>>

\* What the queued operation reports.  Its setup returns no response, so that
\* reading the stream of the response raises whatever became of the run.
execute(m) == "failed"

ReportOperation ==
  /\ worker.at = "report"
  /\ entry' = [entry EXCEPT ![worker.req] = execute(worker.req)]
  /\ admitted' = FALSE   \* release_session finds the worker itself still registered
  /\ worker' = [at |-> "top", req |-> NoRequest]
  /\ UNCHANGED <<setup, producers, queue, request, outcome, canceller, revoked, managerClosed, cancels>>

\* The worker was cancelled: its entry is too, and it ends.
AbandonOperation ==
  /\ worker.at = "abandon"
  /\ entry' = [entry EXCEPT ![worker.req] = "cancelled"]
  /\ WorkerExits(FALSE)
  /\ UNCHANGED <<setup, producers, queue, request, outcome, canceller, revoked, managerClosed, cancels>>

----------------------------------------------------------------------------
(* Cancellation *)

\* cancel: the producer of a run is cancelled and awaited, or, before it has
\* one, the setup the run is bound to.
cancel(r) ==
  /\ cancels < MaxCancels /\ cancels' = cancels + 1
  /\ r \in producers \/ (setup = r /\ request[r] = "setup")
  /\ outcome' = OutcomeOf({r}, "cancelled")
  /\ IF r \in producers
     THEN /\ producers' = producers \ {r}
          /\ worker' = start_queue_worker(admitted, setup, producers \ {r}, queue, worker)
          /\ UNCHANGED <<admitted, setup, request>>
     ELSE SetupOver(r, "cancelled", producers) /\ UNCHANGED producers
  /\ UNCHANGED <<queue, entry, canceller, revoked, managerClosed>>

Queued == {queue[i] : i \in DOMAIN queue}

\* cancel_session, by itself or in revoke, takes the queue away first.
cancel_session(kind) ==
  /\ canceller = NoCanceller /\ cancels < MaxCancels /\ cancels' = cancels + 1
  /\ revoked' = (revoked \/ kind = "revoke")
  /\ canceller' = [at |-> "entries", kind |-> kind, pending |-> Queued]
  /\ queue' = <<>>
  /\ UNCHANGED <<admitted, setup, producers, entry, worker, request, outcome, managerClosed>>

\* close refuses new work and cancels the setup first.
close_manager ==
  /\ canceller = NoCanceller /\ ~managerClosed /\ managerClosed' = TRUE
  /\ canceller' = [at |-> "entries", kind |-> "close", pending |-> {}]
  /\ IF setup = NoRequest THEN UNCHANGED <<admitted, setup, producers, worker, request, outcome>>
     ELSE /\ producers' = producers \ {setup}
          /\ outcome' = OutcomeOf({setup}, "cancelled")
          /\ SetupOver(setup, "cancelled", producers \ {setup})
  /\ UNCHANGED <<queue, entry, revoked, cancels>>

\* The entries taken are cancelled, then the setup with its producer, the
\* worker and every producer.  A worker in its operation saves its entry as
\* cancelled; one that was saving its entry, or whose setup was cancelled
\* under it (it is saving then), ends without.
CancelExecution ==
  LET saving == worker.at \in {"report", "abandon"} \/ (worker.at = "operation" /\ setup = worker.req)
      gone   == saving \/ worker.at = "top"
      adm    == admitted /\ ~saving /\ setup \notin Chats
  IN
  /\ canceller.at = "entries"
  /\ entry' = [m \in Messages |-> IF m \in canceller.pending \/ (canceller.kind = "close" /\ m \in Queued)
                                  THEN "cancelled" ELSE entry[m]]
  /\ queue' = IF canceller.kind = "close" THEN <<>> ELSE queue
  /\ setup' = NoRequest
  /\ request' = IF setup = NoRequest THEN request ELSE [request EXCEPT ![setup] = "cancelled"]
  /\ producers' = {}
  /\ outcome' = OutcomeOf(producers \cup {setup}, "cancelled")
  /\ admitted' = adm
  /\ worker' = IF gone \/ worker = NoWorker THEN start_queue_worker(adm, NoRequest, {}, queue', NoWorker)
               ELSE [worker EXCEPT !.at = "abandon"]
  /\ canceller' = [canceller EXCEPT !.at = "join"]
  /\ UNCHANGED <<revoked, managerClosed, cancels>>

\* The cancelled worker has ended; close forgets the admissions.
CancelDone ==
  /\ canceller.at = "join" /\ worker.at # "abandon"
  /\ canceller' = NoCanceller
  /\ admitted' = (admitted /\ canceller.kind # "close")
  /\ UNCHANGED <<setup, producers, queue, entry, worker, request, outcome, revoked, managerClosed, cancels>>

----------------------------------------------------------------------------
BackgroundInit ==
  /\ admitted = FALSE /\ setup = NoRequest /\ producers = {} /\ queue = <<>>
  /\ entry = [m \in Messages |-> "none"]
  /\ worker = NoWorker /\ canceller = NoCanceller
  /\ request = [r \in Requests |-> "new"]
  /\ outcome = [m \in Messages |-> "none"]
  /\ revoked = FALSE /\ managerClosed = FALSE /\ cancels = 0

Ends == {"completed", "failed"}

\* What tasks do by themselves; setups and producers come to an end.
SetupStep(r) == \E yes \in BOOLEAN : run_setup(r, yes) \/ wait_started(r, yes)
StartStep(r) == start(r) \/ enqueue(r)
ProduceStep(r) == \E end \in Ends : produce(r, end)
QueueStep == drain_queue \/ BeginOperation \/ EndOperation \/ ReportOperation \/ AbandonOperation
CancelStep == CancelExecution \/ CancelDone

BackgroundNext ==
  \/ \E r \in Requests : SetupStep(r) \/ StartStep(r) \/ ProduceStep(r)
  \/ QueueStep \/ CancelStep
  \/ \E r \in Requests : reserve_session(r) \/ queue_message(r) \/ SetupFails(r) \/ cancel(r)
  \/ \E kind \in {"session", "revoke"} : cancel_session(kind)
  \/ close_manager

BackgroundSpec == BackgroundInit /\ [][BackgroundNext]_backgroundVars

----------------------------------------------------------------------------
(* Properties *)

BackgroundTypeOK ==
  /\ setup \in Requests \cup {NoRequest} /\ producers \subseteq Requests
  /\ Len(queue) <= MaxQueue
  /\ \A m \in Messages : entry[m] \in {"none", "queued", "running", "failed", "cancelled"}

\* The session executes one request at a time: no request is set up or
\* produces while another one does (reserve_session, _drain_queue), whatever
\* is cancelled, revoked or queued meanwhile.
OneRequestAtATime ==
  \A q, r \in producers \cup ({setup} \ {NoRequest}) : q = r

\* list_queue: an unfinished entry nobody works on is shown as interrupted.
list_queue(m) ==
  IF /\ entry[m] \in {"queued", "running"}
     /\ m \notin Queued /\ m # worker.req
  THEN "interrupted" ELSE entry[m]

\* Every message that was accepted gets its turn or its end: no hand-over
\* between handlers, producers, the worker and a cancellation leaves it
\* waiting in the queue of a free session.
MessagesSettle ==
  \A m \in Messages :
    (request[m] = "queued" /\ list_queue(m) \in {"queued", "running"})
      ~> (list_queue(m) \notin {"queued", "running"})

=============================================================================
