----------------------------- MODULE ChatProofs -----------------------------
(***************************************************************************)
(* For any numbers of calls, deltas and faults: what the client of a chat  *)
(* is told is in order and true.  What the generator keeps of its open     *)
(* parts is what the client has (Telling).  The queue holds each call once *)
(* and each result once, after its call; what the agent still works on is  *)
(* shown or in the queue, without a result there; and the generator counts *)
(* the calls it has shown without one (Working).  An agent that is over,   *)
(* and a heartbeat that has lost the fence, have left their last item in   *)
(* the queue (Closing).  The end follows from these (Ends).                *)
(***************************************************************************)
EXTENDS ChatStream, FiniteSets, TLAPS

\* The leaves are first-order: Zenon proves them, and those it does not find cite SMT.
USE Zenon

-----------------------------------------------------------------------------
(* The generator's parts *)

SseOf(t, r, st, i, cl) == [text |-> t, reasoning |-> r, step |-> st, inputs |-> i, client |-> cl]
IsSse(s) == s = SseOf(s.text, s.reasoning, s.step, s.inputs, s.client)

SetText(s, x) == [s EXCEPT !.text = x]
SetReasoning(s, x) == [s EXCEPT !.reasoning = x]
SetStep(s, x) == [s EXCEPT !.step = x]
SetInputs(s, x) == [s EXCEPT !.inputs = x]
SetClient(s, x) == [s EXCEPT !.client = x]

LEMMA SseFields ==
  ASSUME NEW t, NEW r, NEW st, NEW i, NEW cl, NEW s, s = SseOf(t, r, st, i, cl)
  PROVE  IsSse(s) /\ s.text = t /\ s.reasoning = r /\ s.step = st /\ s.inputs = i /\ s.client = cl
BY DEF IsSse, SseOf

LEMMA OneSseField ==
  ASSUME NEW s, IsSse(s), NEW x
  PROVE  /\ SetText(s, x) = SseOf(x, s.reasoning, s.step, s.inputs, s.client)
         /\ SetReasoning(s, x) = SseOf(s.text, x, s.step, s.inputs, s.client)
         /\ SetStep(s, x) = SseOf(s.text, s.reasoning, x, s.inputs, s.client)
         /\ SetInputs(s, x) = SseOf(s.text, s.reasoning, s.step, x, s.client)
         /\ SetClient(s, x) = SseOf(s.text, s.reasoning, s.step, s.inputs, x)
<1>1. SetText(s, x) = SseOf(x, s.reasoning, s.step, s.inputs, s.client)
  BY SMT DEF IsSse, SseOf, SetText
<1>2. SetReasoning(s, x) = SseOf(s.text, x, s.step, s.inputs, s.client)
  BY SMT DEF IsSse, SseOf, SetReasoning
<1>3. SetStep(s, x) = SseOf(s.text, s.reasoning, x, s.inputs, s.client)
  BY SMT DEF IsSse, SseOf, SetStep
<1>4. SetInputs(s, x) = SseOf(s.text, s.reasoning, s.step, x, s.client)
  BY SMT DEF IsSse, SseOf, SetInputs
<1>5. SetClient(s, x) = SseOf(s.text, s.reasoning, s.step, s.inputs, x)
  BY SMT DEF IsSse, SseOf, SetClient
<1> QED BY <1>1, <1>2, <1>3, <1>4, <1>5

\* Open for the client: the parts a generator in mode m has opened.
Modes == {"none", "text", "reasoning"}
PartsIn(m) == IF m = "none" THEN {} ELSE {m}

\* The generator s and its client agree: mode m, inputs i, outputs o, no end yet.
Told(s, m, i, o) ==
  /\ IsSse(s) /\ s.inputs = i /\ (s.text <=> m = "text") /\ (s.reasoning <=> m = "reasoning")
  /\ s.client.started = TRUE /\ s.client.finish = "none" /\ ~s.client.failed /\ s.client.ok
  /\ (s.client.step <=> s.step) /\ s.client.parts = PartsIn(m)
  /\ s.client.inputs = i /\ s.client.outputs = o

\* The client r is cl with chunk k about c.
Took(r, cl, k, c) ==
  /\ r.started = TRUE
  /\ r.parts = CASE k = "text-start" -> cl.parts \cup {"text"}
                 [] k = "reasoning-start" -> cl.parts \cup {"reasoning"}
                 [] k = "text-end" -> cl.parts \ {"text"}
                 [] k = "reasoning-end" -> cl.parts \ {"reasoning"}
                 [] OTHER -> cl.parts
  /\ r.step <=> (k = "start-step" \/ (cl.step /\ k # "finish-step"))
  /\ r.inputs = IF k = "tool-input-available" THEN cl.inputs \cup {c} ELSE cl.inputs
  /\ r.outputs = IF k = "tool-output-available" THEN cl.outputs \cup {c} ELSE cl.outputs
  /\ r.failed <=> (cl.failed \/ k = "error")
  /\ r.finish = IF k \in {"stop", "tool-calls", "finish-error"} THEN k ELSE cl.finish
  /\ r.ok <=> (cl.ok /\ Fits(cl, k, c))

LEMMA ReceivedTook ==
  ASSUME NEW cl, NEW k, NEW c, NEW r, r = Received(cl, k, c)
  PROVE  Took(r, cl, k, c)
BY DEF Received, Took

LEMMA Yielding ==
  ASSUME NEW s, IsSse(s), NEW k, NEW c, NEW y, y = Yield(s, k, c)
  PROVE  /\ IsSse(y) /\ y.text = s.text /\ y.reasoning = s.reasoning /\ y.step = s.step
         /\ y.inputs = s.inputs /\ Took(y.client, s.client, k, c)
<1>1. y = SetClient(s, Received(s.client, k, c))
  BY DEF Yield, SetClient
<1>2. y = SseOf(s.text, s.reasoning, s.step, s.inputs, Received(s.client, k, c))
  BY <1>1, OneSseField
<1>3. /\ IsSse(y) /\ y.text = s.text /\ y.reasoning = s.reasoning /\ y.step = s.step
      /\ y.inputs = s.inputs /\ y.client = Received(s.client, k, c)
  BY SMT, <1>2, SseFields
<1> QED BY <1>3, ReceivedTook

\* A field set and a chunk yielded.
LEMMA StepChunk ==
  ASSUME NEW s, IsSse(s), NEW x, NEW k, NEW c, NEW y, y = Yield(SetStep(s, x), k, c)
  PROVE  /\ IsSse(y) /\ y.text = s.text /\ y.reasoning = s.reasoning /\ y.step = x
         /\ y.inputs = s.inputs /\ Took(y.client, s.client, k, c)
<1>1. PICK t : t = SetStep(s, x)
  OBVIOUS
<1>2. /\ IsSse(t) /\ t.text = s.text /\ t.reasoning = s.reasoning /\ t.step = x
      /\ t.inputs = s.inputs /\ t.client = s.client
  BY SMT, <1>1, OneSseField, SseFields
<1>3. /\ IsSse(y) /\ y.text = t.text /\ y.reasoning = t.reasoning /\ y.step = t.step
      /\ y.inputs = t.inputs /\ Took(y.client, t.client, k, c)
  BY SMT, <1>1, <1>2, Yielding
<1> QED BY <1>2, <1>3

LEMMA TextChunk ==
  ASSUME NEW s, IsSse(s), NEW x, NEW k, NEW c, NEW y, y = Yield(SetText(s, x), k, c)
  PROVE  /\ IsSse(y) /\ y.text = x /\ y.reasoning = s.reasoning /\ y.step = s.step
         /\ y.inputs = s.inputs /\ Took(y.client, s.client, k, c)
<1>1. PICK t : t = SetText(s, x)
  OBVIOUS
<1>2. /\ IsSse(t) /\ t.text = x /\ t.reasoning = s.reasoning /\ t.step = s.step
      /\ t.inputs = s.inputs /\ t.client = s.client
  BY SMT, <1>1, OneSseField, SseFields
<1>3. /\ IsSse(y) /\ y.text = t.text /\ y.reasoning = t.reasoning /\ y.step = t.step
      /\ y.inputs = t.inputs /\ Took(y.client, t.client, k, c)
  BY SMT, <1>1, <1>2, Yielding
<1> QED BY <1>2, <1>3

LEMMA ReasoningChunk ==
  ASSUME NEW s, IsSse(s), NEW x, NEW k, NEW c, NEW y, y = Yield(SetReasoning(s, x), k, c)
  PROVE  /\ IsSse(y) /\ y.text = s.text /\ y.reasoning = x /\ y.step = s.step
         /\ y.inputs = s.inputs /\ Took(y.client, s.client, k, c)
<1>1. PICK t : t = SetReasoning(s, x)
  OBVIOUS
<1>2. /\ IsSse(t) /\ t.text = s.text /\ t.reasoning = x /\ t.step = s.step
      /\ t.inputs = s.inputs /\ t.client = s.client
  BY SMT, <1>1, OneSseField, SseFields
<1>3. /\ IsSse(y) /\ y.text = t.text /\ y.reasoning = t.reasoning /\ y.step = t.step
      /\ y.inputs = t.inputs /\ Took(y.client, t.client, k, c)
  BY SMT, <1>1, <1>2, Yielding
<1> QED BY <1>2, <1>3

LEMMA InputsChunk ==
  ASSUME NEW s, IsSse(s), NEW x, NEW k, NEW c, NEW y, y = Yield(SetInputs(s, x), k, c)
  PROVE  /\ IsSse(y) /\ y.text = s.text /\ y.reasoning = s.reasoning /\ y.step = s.step
         /\ y.inputs = x /\ Took(y.client, s.client, k, c)
<1>1. PICK t : t = SetInputs(s, x)
  OBVIOUS
<1>2. /\ IsSse(t) /\ t.text = s.text /\ t.reasoning = s.reasoning /\ t.step = s.step
      /\ t.inputs = x /\ t.client = s.client
  BY SMT, <1>1, OneSseField, SseFields
<1>3. /\ IsSse(y) /\ y.text = t.text /\ y.reasoning = t.reasoning /\ y.step = t.step
      /\ y.inputs = t.inputs /\ Took(y.client, t.client, k, c)
  BY SMT, <1>1, <1>2, Yielding
<1> QED BY <1>2, <1>3

\* The generator's parts keep it in agreement with the client.
LEMMA OpensStep ==
  ASSUME NEW s, NEW m, NEW i, NEW o, Told(s, m, i, o), NEW y, y = open_step(s)
  PROVE  Told(y, m, i, o) /\ y.step
<1>1. CASE s.step
  BY <1>1 DEF open_step
<1>2. CASE ~s.step
  <2>1. PICK x : x = TRUE
    OBVIOUS
  <2>2. y = Yield(SetStep(s, x), "start-step", NoCallEvent)
    BY <1>2, <2>1 DEF open_step, SetStep
  <2>3. /\ IsSse(y) /\ y.text = s.text /\ y.reasoning = s.reasoning /\ y.step = x
        /\ y.inputs = s.inputs /\ Took(y.client, s.client, "start-step", NoCallEvent)
    BY SMT, <2>2, StepChunk DEF Told
  <2>4. Fits(s.client, "start-step", NoCallEvent)
    BY <1>2 DEF Told, Fits
  <2>5. /\ y.client.started = TRUE /\ y.client.parts = s.client.parts /\ y.client.step
        /\ y.client.inputs = s.client.inputs /\ y.client.outputs = s.client.outputs
        /\ ~y.client.failed /\ y.client.finish = "none" /\ y.client.ok
    BY <2>3, <2>4 DEF Took, Told
  <2> QED BY <2>1, <2>3, <2>5 DEF Told
<1> QED BY <1>1, <1>2

LEMMA ClosesStep ==
  ASSUME NEW s, NEW i, NEW o, Told(s, "none", i, o), NEW y, y = close_step(s)
  PROVE  Told(y, "none", i, o) /\ ~y.step
<1>1. CASE ~s.step
  BY <1>1 DEF close_step
<1>2. CASE s.step
  <2>1. PICK x : x = FALSE
    OBVIOUS
  <2>2. y = Yield(SetStep(s, x), "finish-step", NoCallEvent)
    BY <1>2, <2>1 DEF close_step, SetStep
  <2>3. /\ IsSse(y) /\ y.text = s.text /\ y.reasoning = s.reasoning /\ y.step = x
        /\ y.inputs = s.inputs /\ Took(y.client, s.client, "finish-step", NoCallEvent)
    BY SMT, <2>2, StepChunk DEF Told
  <2>4. Fits(s.client, "finish-step", NoCallEvent)
    BY <1>2 DEF Told, Fits, PartsIn
  <2>5. /\ y.client.started = TRUE /\ y.client.parts = s.client.parts /\ ~y.client.step
        /\ y.client.inputs = s.client.inputs /\ y.client.outputs = s.client.outputs
        /\ ~y.client.failed /\ y.client.finish = "none" /\ y.client.ok
    BY <2>3, <2>4 DEF Took, Told
  <2> QED BY <2>1, <2>3, <2>5 DEF Told
<1> QED BY <1>1, <1>2

LEMMA ClosesText ==
  ASSUME NEW s, NEW m \in Modes, NEW i, NEW o, Told(s, m, i, o), NEW y, y = close_text_part(s)
  PROVE  Told(y, IF m = "text" THEN "none" ELSE m, i, o) /\ y.step = s.step
<1>1. CASE m # "text"
  BY <1>1 DEF close_text_part, Told
<1>2. CASE m = "text"
  <2>1. PICK x : x = FALSE
    OBVIOUS
  <2>2. y = Yield(SetText(s, x), "text-end", NoCallEvent)
    BY <1>2, <2>1 DEF close_text_part, SetText, Told
  <2>3. /\ IsSse(y) /\ y.text = x /\ y.reasoning = s.reasoning /\ y.step = s.step
        /\ y.inputs = s.inputs /\ Took(y.client, s.client, "text-end", NoCallEvent)
    BY SMT, <2>2, TextChunk DEF Told
  <2>4. Fits(s.client, "text-end", NoCallEvent)
    BY <1>2 DEF Told, Fits, PartsIn
  <2>5. /\ y.client.started = TRUE /\ y.client.parts = s.client.parts \ {"text"} /\ (y.client.step <=> s.client.step)
        /\ y.client.inputs = s.client.inputs /\ y.client.outputs = s.client.outputs
        /\ ~y.client.failed /\ y.client.finish = "none" /\ y.client.ok
    BY <2>3, <2>4 DEF Took, Told
  <2>6. y.client.parts = PartsIn("none") /\ ~s.reasoning
    BY <1>2, <2>5 DEF Told, PartsIn
  <2>7. Told(y, "none", i, o)
    BY <2>1, <2>3, <2>5, <2>6 DEF Told
  <2> QED BY <1>2, <2>3, <2>7
<1> QED BY <1>1, <1>2

LEMMA ClosesReasoning ==
  ASSUME NEW s, NEW m \in Modes, NEW i, NEW o, Told(s, m, i, o), NEW y, y = close_reasoning_part(s)
  PROVE  Told(y, IF m = "reasoning" THEN "none" ELSE m, i, o) /\ y.step = s.step
<1>1. CASE m # "reasoning"
  BY <1>1 DEF close_reasoning_part, Told
<1>2. CASE m = "reasoning"
  <2>1. PICK x : x = FALSE
    OBVIOUS
  <2>2. y = Yield(SetReasoning(s, x), "reasoning-end", NoCallEvent)
    BY <1>2, <2>1 DEF close_reasoning_part, SetReasoning, Told
  <2>3. /\ IsSse(y) /\ y.text = s.text /\ y.reasoning = x /\ y.step = s.step
        /\ y.inputs = s.inputs /\ Took(y.client, s.client, "reasoning-end", NoCallEvent)
    BY SMT, <2>2, ReasoningChunk DEF Told
  <2>4. Fits(s.client, "reasoning-end", NoCallEvent)
    BY <1>2 DEF Told, Fits, PartsIn
  <2>5. /\ y.client.started = TRUE /\ y.client.parts = s.client.parts \ {"reasoning"}
        /\ (y.client.step <=> s.client.step)
        /\ y.client.inputs = s.client.inputs /\ y.client.outputs = s.client.outputs
        /\ ~y.client.failed /\ y.client.finish = "none" /\ y.client.ok
    BY <2>3, <2>4 DEF Took, Told
  <2>6. y.client.parts = PartsIn("none") /\ ~s.text
    BY <1>2, <2>5 DEF Told, PartsIn
  <2>7. Told(y, "none", i, o)
    BY <2>1, <2>3, <2>5, <2>6 DEF Told
  <2> QED BY <1>2, <2>3, <2>7
<1> QED BY <1>1, <1>2

LEMMA ClosesParts ==
  ASSUME NEW s, NEW m \in Modes, NEW i, NEW o, Told(s, m, i, o), NEW y, y = close_open_parts(s)
  PROVE  Told(y, "none", i, o) /\ y.step = s.step
<1>1. PICK t : t = close_reasoning_part(s)
  OBVIOUS
<1>2. PICK n : n = IF m = "reasoning" THEN "none" ELSE m
  OBVIOUS
<1>3. Told(t, n, i, o) /\ t.step = s.step
  BY <1>1, <1>2, ClosesReasoning
<1>4. n \in Modes /\ n # "reasoning"
  BY <1>2 DEF Modes
<1>5. PICK l : l = IF n = "text" THEN "none" ELSE n
  OBVIOUS
<1>6. y = close_text_part(t)
  BY <1>1 DEF close_open_parts
<1>7. Told(y, l, i, o) /\ y.step = t.step
  BY <1>3, <1>4, <1>5, <1>6, ClosesText
<1>8. l = "none"
  BY <1>4, <1>5 DEF Modes
<1> QED BY <1>3, <1>7, <1>8

LEMMA ShowsInput ==
  ASSUME NEW s, NEW i, NEW o, Told(s, "none", i, o), s.step, NEW c, c \notin i, NEW y, y = tool_input(s, c)
  PROVE  Told(y, "none", i \cup {c}, o) /\ y.step
<1>1. PICK x : x = i \cup {c}
  OBVIOUS
<1>2. y = Yield(SetInputs(s, x), "tool-input-available", c)
  BY <1>1 DEF tool_input, SetInputs, Told
<1>3. /\ IsSse(y) /\ y.text = s.text /\ y.reasoning = s.reasoning /\ y.step = s.step
      /\ y.inputs = x /\ Took(y.client, s.client, "tool-input-available", c)
  <2>1. IsSse(s)
    BY DEF Told
  <2> QED BY <1>2, <2>1, InputsChunk
<1>4. Fits(s.client, "tool-input-available", c)
  BY DEF Told, Fits, PartsIn
<1>5. /\ y.client.started = TRUE /\ y.client.parts = s.client.parts /\ (y.client.step <=> s.client.step)
      /\ y.client.inputs = s.client.inputs \cup {c} /\ y.client.outputs = s.client.outputs
      /\ ~y.client.failed /\ y.client.finish = "none" /\ y.client.ok
  BY <1>3, <1>4 DEF Took, Told
<1> QED BY <1>1, <1>3, <1>5 DEF Told

LEMMA ShowsRequest ==
  ASSUME NEW s, NEW i, NEW o, Told(s, "none", i, o), s.step, NEW c, c \in i, c \notin o,
         NEW y, y = Yield(s, "tool-approval-request", c)
  PROVE  Told(y, "none", i, o) /\ y.step
<1>3. /\ IsSse(y) /\ y.text = s.text /\ y.reasoning = s.reasoning /\ y.step = s.step
      /\ y.inputs = s.inputs /\ Took(y.client, s.client, "tool-approval-request", c)
  <2>1. IsSse(s)
    BY DEF Told
  <2>2. PICK k : k = "tool-approval-request"
    OBVIOUS
  <2>3. y = Yield(s, k, c)
    BY <2>2
  <2>4. /\ IsSse(y) /\ y.text = s.text /\ y.reasoning = s.reasoning /\ y.step = s.step
        /\ y.inputs = s.inputs /\ Took(y.client, s.client, k, c)
    BY <2>1, <2>3, Yielding
  <2> QED BY <2>2, <2>4
<1>4. Fits(s.client, "tool-approval-request", c)
  BY DEF Told, Fits, PartsIn
<1>5. /\ y.client.started = TRUE /\ y.client.parts = s.client.parts /\ (y.client.step <=> s.client.step)
      /\ y.client.inputs = s.client.inputs /\ y.client.outputs = s.client.outputs
      /\ ~y.client.failed /\ y.client.finish = "none" /\ y.client.ok
  BY <1>3, <1>4 DEF Took, Told
<1> QED BY <1>3, <1>5 DEF Told

\* y is s with its event told.
Drained(y, s, i, o) ==
  \E n \in Modes : \E j :
    /\ Told(y, n, j, o) /\ (n # "none" => y.step) /\ (s.step => y.step)
    /\ approvalEvent \in i \cup {NoCallEvent} => j = i

LEMMA DrainsEvents ==
  ASSUME NEW s, NEW m \in Modes, NEW i, NEW o, Told(s, m, i, o), m # "none" => s.step, approvalEvent \notin o,
         NEW y, y = drain_event_queue(s)
  PROVE  Drained(y, s, i, o)
<1>1. CASE approvalEvent = NoCallEvent
  <2>1. y = s
    BY <1>1 DEF drain_event_queue
  <2> QED BY <2>1 DEF Drained
<1>2. CASE approvalEvent # NoCallEvent
  <2>1. PICK t : t = open_step(s)
    OBVIOUS
  <2>2. Told(t, m, i, o) /\ t.step
    BY <2>1, OpensStep
  <2>3. PICK u : u = close_open_parts(t)
    OBVIOUS
  <2>4. Told(u, "none", i, o) /\ u.step
    BY <2>2, <2>3, ClosesParts
  <2>5. PICK v : v = IF approvalEvent \in s.inputs THEN u ELSE tool_input(u, approvalEvent)
    OBVIOUS
  <2>6. s.inputs = i
    BY DEF Told
  <2>7. y = Yield(v, "tool-approval-request", approvalEvent)
    BY <1>2, <2>1, <2>3, <2>5 DEF drain_event_queue
  <2>8. PICK j : j = IF approvalEvent \in i THEN i ELSE i \cup {approvalEvent}
    OBVIOUS
  <2>9. Told(v, "none", j, o) /\ v.step
    <3>1. CASE approvalEvent \in i
      BY <2>4, <2>5, <2>6, <2>8, <3>1
    <3>2. CASE approvalEvent \notin i
      <4>1. v = tool_input(u, approvalEvent) /\ j = i \cup {approvalEvent}
        BY <2>5, <2>6, <2>8, <3>2
      <4> QED BY <2>4, <3>2, <4>1, ShowsInput
    <3> QED BY <3>1, <3>2
  <2>10. approvalEvent \in j
    BY <2>8
  <2>11. Told(y, "none", j, o) /\ y.step
    BY <2>7, <2>9, <2>10, ShowsRequest
  <2>12. "none" \in Modes
    BY DEF Modes
  <2> QED BY <1>2, <2>8, <2>11, <2>12 DEF Drained
<1> QED BY <1>1, <1>2

LEMMA ClosesUp ==
  ASSUME NEW s, NEW m \in Modes, NEW i, NEW o, Told(s, m, i, o), m # "none" => s.step, approvalEvent \notin o,
         NEW y, y = ClosedUp(s)
  PROVE  \E j : Told(y, "none", j, o) /\ ~y.step
<1>1. PICK t : t = drain_event_queue(s)
  OBVIOUS
<1>2. PICK n \in Modes : \E j : Told(t, n, j, o)
  <2>1. Drained(t, s, i, o)
    BY <1>1, DrainsEvents
  <2> QED BY <2>1 DEF Drained
<1>j. PICK j : Told(t, n, j, o)
  BY <1>2
<1>3. PICK u : u = close_open_parts(t)
  OBVIOUS
<1>4. Told(u, "none", j, o)
  BY <1>3, <1>j, ClosesParts
<1>5. y = close_step(u)
  BY <1>1, <1>3 DEF ClosedUp
<1> QED BY <1>4, <1>5, ClosesStep

\* The last chunk.
LEMMA Finishes ==
  ASSUME NEW s, NEW i, NEW o, Told(s, "none", i, o), ~s.step, NEW k \in {"stop", "tool-calls"},
         NEW y, y = Yield(s, k, NoCallEvent)
  PROVE  IsSse(y) /\ y.client.ok /\ y.client.finish = k /\ ~y.client.failed
<1>1. IsSse(s)
  BY DEF Told
<1>2. IsSse(y) /\ Took(y.client, s.client, k, NoCallEvent)
  BY SMT, <1>1, Yielding
<1>3. Fits(s.client, k, NoCallEvent)
  BY DEF Told, Fits, PartsIn
<1> QED BY <1>2, <1>3 DEF Took, Told

\* An error, while nothing is finished.
LEMMA TellsError ==
  ASSUME NEW s, IsSse(s), s.client.started = TRUE, s.client.finish = "none", s.client.ok,
         NEW y, y = Yield(s, "error", NoCallEvent)
  PROVE  IsSse(y) /\ y.client.ok /\ y.client.finish = "none" /\ y.client.failed /\ y.client.started = TRUE
<1>1. IsSse(y) /\ Took(y.client, s.client, "error", NoCallEvent)
  BY SMT, Yielding
<1>2. Fits(s.client, "error", NoCallEvent)
  BY DEF Fits
<1> QED BY <1>1, <1>2 DEF Took

LEMMA ErrorsFinish ==
  ASSUME NEW s, IsSse(s), NEW y, y = ErrorChunks(s)
  PROVE  IsSse(y) /\ y.client.finish = "finish-error"
<1>1. PICK t : t = Yield(s, "error", NoCallEvent)
  OBVIOUS
<1>2. IsSse(t)
  BY SMT, <1>1, Yielding
<1>3. y = Yield(t, "finish-error", NoCallEvent)
  BY <1>1 DEF ErrorChunks
<1>4. IsSse(y) /\ Took(y.client, t.client, "finish-error", NoCallEvent)
  BY SMT, <1>2, <1>3, Yielding
<1> QED BY <1>4 DEF Took

LEMMA TellsErrors ==
  ASSUME NEW s, IsSse(s), s.client.started = TRUE, s.client.finish = "none", s.client.ok,
         NEW y, y = ErrorChunks(s)
  PROVE  IsSse(y) /\ y.client.ok /\ y.client.finish = "finish-error" /\ y.client.failed
<1>1. PICK t : t = Yield(s, "error", NoCallEvent)
  OBVIOUS
<1>2. IsSse(t) /\ t.client.ok /\ t.client.finish = "none" /\ t.client.failed /\ t.client.started = TRUE
  BY <1>1, TellsError
<1>3. y = Yield(t, "finish-error", NoCallEvent)
  BY <1>1 DEF ErrorChunks
<1>4. IsSse(y) /\ Took(y.client, t.client, "finish-error", NoCallEvent)
  BY SMT, <1>2, <1>3, Yielding
<1>5. Fits(t.client, "finish-error", NoCallEvent)
  BY <1>2 DEF Fits
<1> QED BY <1>2, <1>4, <1>5 DEF Took

LEMMA TellsText ==
  ASSUME NEW s, NEW m \in Modes, NEW i, NEW o, Told(s, m, i, o), NEW y, y = text_item(s)
  PROVE  Told(y, "text", i, o) /\ y.step
<1>1. PICK q : q = open_step(s)
  OBVIOUS
<1>2. Told(q, m, i, o) /\ q.step
  BY <1>1, OpensStep
<1>3. PICK t : t = close_reasoning_part(q)
  OBVIOUS
<1>4. PICK n : n = IF m = "reasoning" THEN "none" ELSE m
  OBVIOUS
<1>5. Told(t, n, i, o) /\ t.step
  BY <1>2, <1>3, <1>4, ClosesReasoning
<1>6. n \in {"none", "text"}
  BY <1>4 DEF Modes
<1>7. PICK u : u = IF t.text THEN t ELSE Yield([t EXCEPT !.text = TRUE], "text-start", NoCallEvent)
  OBVIOUS
<1>8. Told(u, "text", i, o) /\ u.step
  <2>1. CASE n = "text"
    <3>1. u = t
      BY <1>5, <1>7, <2>1 DEF Told
    <3> QED BY <1>5, <2>1, <3>1
  <2>2. CASE n = "none"
    <3>1. PICK x : x = TRUE
      OBVIOUS
    <3>2. ~t.text /\ ~t.reasoning /\ IsSse(t)
      BY <1>5, <2>2 DEF Told
    <3>3. u = Yield(SetText(t, x), "text-start", NoCallEvent)
      BY <1>7, <3>1, <3>2 DEF SetText
    <3>4. /\ IsSse(u) /\ u.text = x /\ u.reasoning = t.reasoning /\ u.step = t.step
          /\ u.inputs = t.inputs /\ Took(u.client, t.client, "text-start", NoCallEvent)
      BY SMT, <3>2, <3>3, TextChunk
    <3>5. Fits(t.client, "text-start", NoCallEvent)
      BY <1>5, <2>2 DEF Told, Fits, PartsIn
    <3>6. /\ u.client.started = TRUE /\ u.client.parts = t.client.parts \cup {"text"} /\ (u.client.step <=> t.client.step)
          /\ u.client.inputs = t.client.inputs /\ u.client.outputs = t.client.outputs
          /\ ~u.client.failed /\ u.client.finish = "none" /\ u.client.ok
      BY <1>5, <3>4, <3>5 DEF Took, Told
    <3>7. u.client.parts = PartsIn("text")
      BY <1>5, <2>2, <3>6 DEF Told, PartsIn
    <3> QED BY <1>5, <3>1, <3>2, <3>4, <3>6, <3>7 DEF Told
  <2> QED BY <1>6, <2>1, <2>2
<1>9. y = Yield(u, "text-delta", NoCallEvent)
  BY <1>1, <1>3, <1>7 DEF text_item
<1>10. IsSse(u)
  BY <1>8 DEF Told
<1>11. /\ IsSse(y) /\ y.text = u.text /\ y.reasoning = u.reasoning /\ y.step = u.step
       /\ y.inputs = u.inputs /\ Took(y.client, u.client, "text-delta", NoCallEvent)
  BY SMT, <1>9, <1>10, Yielding
<1>12. Fits(u.client, "text-delta", NoCallEvent)
  BY <1>8 DEF Told, Fits, PartsIn
<1>13. /\ y.client.started = TRUE /\ y.client.parts = u.client.parts /\ (y.client.step <=> u.client.step)
       /\ y.client.inputs = u.client.inputs /\ y.client.outputs = u.client.outputs
       /\ ~y.client.failed /\ y.client.finish = "none" /\ y.client.ok
  BY <1>8, <1>11, <1>12 DEF Took, Told
<1> QED BY <1>8, <1>11, <1>13 DEF Told

LEMMA TellsReasoning ==
  ASSUME NEW s, NEW m \in Modes, NEW i, NEW o, Told(s, m, i, o), NEW y, y = reasoning_item(s)
  PROVE  Told(y, "reasoning", i, o) /\ y.step
<1>1. PICK q : q = open_step(s)
  OBVIOUS
<1>2. Told(q, m, i, o) /\ q.step
  BY <1>1, OpensStep
<1>3. PICK t : t = close_text_part(q)
  OBVIOUS
<1>4. PICK n : n = IF m = "text" THEN "none" ELSE m
  OBVIOUS
<1>5. Told(t, n, i, o) /\ t.step
  BY <1>2, <1>3, <1>4, ClosesText
<1>6. n \in {"none", "reasoning"}
  BY <1>4 DEF Modes
<1>7. PICK u : u = IF t.reasoning THEN t ELSE Yield([t EXCEPT !.reasoning = TRUE], "reasoning-start", NoCallEvent)
  OBVIOUS
<1>8. Told(u, "reasoning", i, o) /\ u.step
  <2>1. CASE n = "reasoning"
    <3>1. u = t
      BY <1>5, <1>7, <2>1 DEF Told
    <3> QED BY <1>5, <2>1, <3>1
  <2>2. CASE n = "none"
    <3>1. PICK x : x = TRUE
      OBVIOUS
    <3>2. ~t.text /\ ~t.reasoning /\ IsSse(t)
      BY <1>5, <2>2 DEF Told
    <3>3. u = Yield(SetReasoning(t, x), "reasoning-start", NoCallEvent)
      BY <1>7, <3>1, <3>2 DEF SetReasoning
    <3>4. /\ IsSse(u) /\ u.text = t.text /\ u.reasoning = x /\ u.step = t.step
          /\ u.inputs = t.inputs /\ Took(u.client, t.client, "reasoning-start", NoCallEvent)
      BY SMT, <3>2, <3>3, ReasoningChunk
    <3>5. Fits(t.client, "reasoning-start", NoCallEvent)
      BY <1>5, <2>2 DEF Told, Fits, PartsIn
    <3>6. /\ u.client.started = TRUE /\ u.client.parts = t.client.parts \cup {"reasoning"}
          /\ (u.client.step <=> t.client.step)
          /\ u.client.inputs = t.client.inputs /\ u.client.outputs = t.client.outputs
          /\ ~u.client.failed /\ u.client.finish = "none" /\ u.client.ok
      BY <1>5, <3>4, <3>5 DEF Took, Told
    <3>7. u.client.parts = PartsIn("reasoning")
      BY <1>5, <2>2, <3>6 DEF Told, PartsIn
    <3> QED BY <1>5, <3>1, <3>2, <3>4, <3>6, <3>7 DEF Told
  <2> QED BY <1>6, <2>1, <2>2
<1>9. y = Yield(u, "reasoning-delta", NoCallEvent)
  BY <1>1, <1>3, <1>7 DEF reasoning_item
<1>10. IsSse(u)
  BY <1>8 DEF Told
<1>11. /\ IsSse(y) /\ y.text = u.text /\ y.reasoning = u.reasoning /\ y.step = u.step
       /\ y.inputs = u.inputs /\ Took(y.client, u.client, "reasoning-delta", NoCallEvent)
  BY SMT, <1>9, <1>10, Yielding
<1>12. Fits(u.client, "reasoning-delta", NoCallEvent)
  BY <1>8 DEF Told, Fits, PartsIn
<1>13. /\ y.client.started = TRUE /\ y.client.parts = u.client.parts /\ (y.client.step <=> u.client.step)
       /\ y.client.inputs = u.client.inputs /\ y.client.outputs = u.client.outputs
       /\ ~y.client.failed /\ y.client.finish = "none" /\ y.client.ok
  BY <1>8, <1>11, <1>12 DEF Took, Told
<1> QED BY <1>8, <1>11, <1>13 DEF Told

LEMMA TellsCall ==
  ASSUME NEW s, NEW m \in Modes, NEW i, NEW o, Told(s, m, i, o), NEW c, c \notin i, NEW y, y = tool_call_item(s, c)
  PROVE  Told(y, "none", i \cup {c}, o) /\ y.step
<1>1. PICK t : t = open_step(s)
  OBVIOUS
<1>2. Told(t, m, i, o) /\ t.step
  BY <1>1, OpensStep
<1>3. PICK u : u = close_open_parts(t)
  OBVIOUS
<1>4. Told(u, "none", i, o) /\ u.step
  BY <1>2, <1>3, ClosesParts
<1>5. y = tool_input(u, c)
  BY <1>1, <1>3 DEF tool_call_item
<1> QED BY <1>4, <1>5, ShowsInput

LEMMA TellsResult ==
  ASSUME NEW s, NEW m \in Modes, NEW i, NEW o, Told(s, m, i, o), s.step, NEW c, c \in i, c \notin o,
         NEW due, NEW y, y = tool_result_item(s, c, due)
  PROVE  Told(y, "none", i, o \cup {c}) /\ (due # 0 => y.step)
<1>1. PICK t : t = close_open_parts(s)
  OBVIOUS
<1>2. Told(t, "none", i, o) /\ t.step
  BY <1>1, ClosesParts
<1>3. PICK k : k = "tool-output-available"
  OBVIOUS
<1>4. PICK u : u = Yield(t, k, c)
  OBVIOUS
<1>5. IsSse(t)
  BY <1>2 DEF Told
<1>6. /\ IsSse(u) /\ u.text = t.text /\ u.reasoning = t.reasoning /\ u.step = t.step
      /\ u.inputs = t.inputs /\ Took(u.client, t.client, k, c)
  BY SMT, <1>4, <1>5, Yielding
<1>7. Fits(t.client, "tool-output-available", c)
  BY <1>2 DEF Told, Fits, PartsIn
<1>8. /\ u.client.started = TRUE /\ u.client.parts = t.client.parts /\ (u.client.step <=> t.client.step)
      /\ u.client.inputs = t.client.inputs /\ u.client.outputs = t.client.outputs \cup {c}
      /\ ~u.client.failed /\ u.client.finish = "none" /\ u.client.ok
  BY <1>2, <1>3, <1>6, <1>7 DEF Took, Told
<1>9. Told(u, "none", i, o \cup {c}) /\ u.step
  BY <1>2, <1>6, <1>8 DEF Told
<1>10. CASE due = 0
  <2>1. y = close_step(u)
    BY <1>1, <1>3, <1>4, <1>10 DEF tool_result_item
  <2> QED BY <1>9, <1>10, <2>1, ClosesStep
<1>11. CASE due # 0
  BY <1>1, <1>3, <1>4, <1>9, <1>11 DEF tool_result_item
<1> QED BY <1>10, <1>11

\* The stream begins.
Fresh(s) == s = [text |-> FALSE, reasoning |-> FALSE, step |-> FALSE, inputs |-> {}, client |-> NewClient]

LEMMA FreshClient ==
  ASSUME NEW s, Fresh(s)
  PROVE  s.client.ok /\ s.client.finish = "none"
BY DEF Fresh, NewClient

LEMMA Begins ==
  ASSUME NEW s, Fresh(s), NEW t, t = Yield(s, "start", NoCallEvent)
  PROVE  Told(t, "none", {}, {}) /\ ~t.step
<1>1. IsSse(s) /\ ~s.text /\ ~s.reasoning /\ ~s.step /\ s.inputs = {} /\ s.client = NewClient
  BY DEF Fresh, IsSse, SseOf
<1>2. /\ IsSse(t) /\ t.text = s.text /\ t.reasoning = s.reasoning /\ t.step = s.step
      /\ t.inputs = s.inputs /\ Took(t.client, s.client, "start", NoCallEvent)
  <2>1. IsSse(s)
    BY <1>1
  <2> QED BY SMT, <2>1, Yielding
<1>3. PICK cl : cl = s.client
  OBVIOUS
<1>4. /\ cl.started = FALSE /\ cl.parts = {} /\ ~cl.step /\ cl.inputs = {} /\ cl.outputs = {}
      /\ cl.failed = FALSE /\ cl.finish = "none" /\ cl.ok
  <2>1. cl = NewClient
    BY <1>1, <1>3
  <2> QED BY SMT, <2>1 DEF NewClient
<1>5. Fits(cl, "start", NoCallEvent)
  BY <1>4 DEF Fits
<1>6. Told(t, "none", {}, {})
  <2>1. Took(t.client, cl, "start", NoCallEvent)
    BY <1>2, <1>3
  <2>2. /\ t.client.started = TRUE /\ t.client.parts = cl.parts /\ ~t.client.step
        /\ t.client.inputs = cl.inputs /\ t.client.outputs = cl.outputs
        /\ ~t.client.failed /\ t.client.finish = "none" /\ t.client.ok
    BY <1>4, <1>5, <2>1 DEF Took
  <2>3. t.client.parts = PartsIn("none")
    BY <1>4, <2>2 DEF PartsIn
  <2> QED BY <1>1, <1>2, <1>4, <2>2, <2>3 DEF Told
<1> QED BY <1>1, <1>2, <1>6

LEMMA TellsStart ==
  ASSUME NEW s, Fresh(s), NEW y, y = open_step(Yield(s, "start", NoCallEvent))
  PROVE  Told(y, "none", {}, {}) /\ y.step
BY Begins, OpensStep

\* A stream that tells no more than an error.
LEMMA TellsFailure ==
  ASSUME NEW s, NEW i, NEW o, Told(s, "none", i, o), ~s.step,
         NEW y, y = Yield(Yield(s, "error", NoCallEvent), "stop", NoCallEvent)
  PROVE  IsSse(y) /\ y.client.ok /\ y.client.finish = "stop" /\ y.client.failed
<1>1. PICK t : t = Yield(s, "error", NoCallEvent)
  OBVIOUS
<1>2. IsSse(s) /\ s.client.started = TRUE /\ s.client.finish = "none" /\ s.client.ok
  BY DEF Told
<1>3. IsSse(t) /\ t.client.ok /\ t.client.finish = "none" /\ t.client.failed /\ t.client.started = TRUE
  BY <1>1, <1>2, TellsError
<1>4. t.client.parts = {} /\ ~t.client.step
  <2>1. Took(t.client, s.client, "error", NoCallEvent)
    BY SMT, <1>1, <1>2, Yielding
  <2> QED BY <2>1 DEF Took, Told, PartsIn
<1>5. IsSse(y) /\ Took(y.client, t.client, "stop", NoCallEvent)
  BY SMT, <1>1, <1>3, Yielding
<1>6. Fits(t.client, "stop", NoCallEvent)
  BY <1>3, <1>4 DEF Fits
<1> QED BY <1>3, <1>5, <1>6 DEF Took

-----------------------------------------------------------------------------
(* The invariant *)

IsAgent(a) == a = [at |-> a.at, made |-> a.made, batch |-> a.batch, results |-> a.results]

Kinds == {"token", "reasoning", "tool_call", "tool_result", "waiting", "error", "done"}
Items == {Item(k, c) : k \in Kinds, c \in Nat}

StreamTypes ==
  /\ IsSse(sse) /\ tokens \in Seq(Items) /\ IsAgent(agentTask) /\ agentTask.made \in Nat
  /\ agentTask.batch \in Seq(Nat) /\ agentTask.results \in Seq([call : Nat, asks : BOOLEAN])
  /\ agentTask.at = "tools" => agentTask.batch # <<>> \/ agentTask.results # <<>>
  /\ storeFaults \in Nat

\* Each call is in the queue w once and not yet shown, each result once and after its call.
Queued(w, made, i, o) ==
  /\ \A x \in DOMAIN w : w[x].k = "tool_call" => w[x].c \in 1..made /\ w[x].c \notin i
  /\ \A x, y \in DOMAIN w : w[x].k = "tool_call" /\ w[y].k = "tool_call" /\ w[x].c = w[y].c => x = y
  /\ \A x \in DOMAIN w : w[x].k = "tool_result" =>
       /\ w[x].c \notin o
       /\ w[x].c \in i \/ \E y \in DOMAIN w : y < x /\ w[y].k = "tool_call" /\ w[y].c = w[x].c
  /\ \A x, y \in DOMAIN w : w[x].k = "tool_result" /\ w[y].k = "tool_result" /\ w[x].c = w[y].c => x = y

\* Call c is shown or in the queue, and has no result in either.
Awaited(c, w, i, o) ==
  /\ c \in i \/ \E x \in DOMAIN w : w[x].k = "tool_call" /\ w[x].c = c
  /\ c \notin o /\ \A x \in DOMAIN w : w[x].k = "tool_result" => w[x].c # c

\* What the agent works on: its batch b and the results r it has not reported.
AtWork(b, r, w, i, o) ==
  /\ \A x \in DOMAIN b : Awaited(b[x], w, i, o)
  /\ \A x \in DOMAIN r : Awaited(r[x].call, w, i, o)
  /\ \A x, y \in DOMAIN b : b[x] = b[y] => x = y
  /\ \A x, y \in DOMAIN r : r[x].call = r[y].call => x = y
  /\ \A x \in DOMAIN b, y \in DOMAIN r : b[x] # r[y].call

\* The run waits, or did so until its cancellation was asked for.
Waits == row = "awaiting_user" \/ (row = "cancelled" /\ cancelRequested)

USE DEF CurrentLease, Waits

\* Before the stream.
Before ==
  /\ route \in {"new", "message"} => row = "none" /\ ~leased
  /\ route = "open" => row = "running"
  /\ route \in {"new", "message", "open"} =>
       /\ Fresh(sse) /\ tokens = <<>> /\ approvalEvent = NoCallEvent /\ resultsDue = 0 /\ agentTask.at = "off"
       /\ agentTask.made = 0 /\ agentTask.batch = <<>> /\ agentTask.results = <<>>
       /\ ~terminal /\ ~paused /\ ~fenceLost /\ cut = "no"

\* While it runs.
Telling ==
  route \in Streaming =>
    /\ cut = "no" /\ ~terminal /\ ~paused
    /\ \E m \in Modes : Told(sse, m, sse.inputs, sse.client.outputs) /\ (m # "none" => sse.step)
    /\ resultsDue > 0 => sse.step

HasItem(w, K) == \E x \in DOMAIN w : w[x].k \in K
Asks(r) == \E x \in DOMAIN r : r[x].asks
AsksFor(r, c) == \E x \in DOMAIN r : r[x].asks /\ r[x].call = c

\* The agent a, the queue w, what is shown (i, o), the event ev and the results due.
Work(a, w, i, o, ev, due) ==
  /\ i \subseteq 1..a.made /\ o \subseteq i /\ due = Cardinality(i \ o)
  /\ Queued(w, a.made, i, o) /\ AtWork(a.batch, a.results, w, i, o)
  /\ ev # NoCallEvent => AsksFor(a.results, ev)

Working ==
  route \in Streaming =>
    /\ Work(agentTask, tokens, sse.inputs, sse.client.outputs, approvalEvent, resultsDue)
    /\ Asks(agentTask.results) \/ HasItem(tokens, {"waiting"}) => Waits

LastItems == {"done", "error", "waiting"}

\* The queue holds the last item of an agent that is over and of a heartbeat that has
\* lost the fence, as long as the generator takes items.
Closing ==
  route \in Consuming =>
    /\ agentTask.at = "over" => HasItem(tokens, LastItems)
    /\ fenceLost => HasItem(tokens, {"error"})
    /\ route = "recheck" => agentTask.at \in {"over", "silent"}

\* How it ends.
Ends ==
  /\ cut \in {"no", "setup", "told", "finally"} /\ (fenceLost => ~CurrentLease)
  /\ terminal => row \in {"completed", "failed_terminal"}
  /\ paused => Waits
  /\ cut \in {"no", "setup"} => sse.client.ok
  /\ cut = "setup" => route = "over"
  /\ route = "raised" /\ cut = "no" => sse.client.started = TRUE /\ sse.client.finish = "none"
  /\ sse.client.finish = "tool-calls" => Waits /\ (paused \/ route = "over")
  /\ sse.client.finish = "stop" /\ ~sse.client.failed => row = "completed" \/ agentTask.at = "silent"
  /\ route = "over" /\ cut \in {"no", "told"} => ~leased /\ (row = "running" => ~CurrentLease \/ storeFaults > 0)

StreamInv == StreamTypes /\ Before /\ Telling /\ Working /\ Closing /\ Ends

-----------------------------------------------------------------------------
(* The queue *)

\* v is w and x at n.
Extended(v, w, n, x) ==
  /\ DOMAIN v = DOMAIN w \cup {n} /\ n \notin DOMAIN w /\ v[n] = x
  /\ \A y \in DOMAIN w : v[y] = w[y] /\ y < n /\ ~(n < y)

LEMMA Appended ==
  ASSUME NEW S, NEW w \in Seq(S), NEW x \in S, NEW v, v = Append(w, x)
  PROVE  v \in Seq(S) /\ \E n : Extended(v, w, n, x)
<1>1. v \in Seq(S) /\ Extended(v, w, Len(w) + 1, x)
  BY SMT DEF Extended
<1> QED BY <1>1

\* v is w without its head.
After(x) == x + 1
Dropped(v, w) ==
  /\ 1 \in DOMAIN w /\ \A x \in DOMAIN w : ~(x < 1)
  /\ \A x \in DOMAIN v : After(x) \in DOMAIN w /\ After(x) # 1 /\ v[x] = w[After(x)]
  /\ \A x, y \in DOMAIN v : (After(x) = After(y) => x = y) /\ (After(x) < After(y) => x < y)
  /\ \A x \in DOMAIN w : x # 1 => \E y \in DOMAIN v : x = After(y)

LEMMA TailDropped ==
  ASSUME NEW S, NEW w \in Seq(S), w # <<>>, NEW v, v = Tail(w)
  PROVE  v \in Seq(S) /\ Dropped(v, w) /\ Head(w) = w[1] /\ w[1] \in S
<1>1. /\ v \in Seq(S) /\ Head(w) = w[1] /\ w[1] \in S /\ Len(w) \in Nat \ {0}
      /\ DOMAIN w = 1..Len(w) /\ DOMAIN v = 1..(Len(w) - 1)
  BY SMT
<1>2. \A x \in DOMAIN v : v[x] = w[x + 1]
  BY SMT
<1>3. 1 \in DOMAIN w /\ \A x \in DOMAIN w : ~(x < 1)
  BY SMT, <1>1
<1>4. \A x \in DOMAIN v : x + 1 \in DOMAIN w /\ x + 1 # 1
  BY SMT, <1>1
<1>5. \A x, y \in DOMAIN v : (x + 1 = y + 1 => x = y) /\ (x + 1 < y + 1 => x < y)
  BY SMT, <1>1
<1>6. ASSUME NEW x \in DOMAIN w, x # 1 PROVE \E y \in DOMAIN v : x = y + 1
  <2>1. x - 1 \in DOMAIN v /\ x = (x - 1) + 1
    BY SMT, <1>1, <1>6
  <2> QED BY <2>1
<1> QED BY <1>1, <1>2, <1>3, <1>4, <1>5, <1>6 DEF Dropped, After

\* An item that is neither a call nor a result.
Other(x) == x.k # "tool_call" /\ x.k # "tool_result"

LEMMA PutsOther ==
  ASSUME NEW v, NEW w, NEW n, NEW x, Extended(v, w, n, x), Other(x), NEW made, NEW i, NEW o, Queued(w, made, i, o)
  PROVE  Queued(v, made, i, o) /\ \A c : Awaited(c, w, i, o) => Awaited(c, v, i, o)
<1>1. \A y \in DOMAIN v : v[y].k \in {"tool_call", "tool_result"} => y \in DOMAIN w /\ v[y] = w[y]
  BY DEF Extended, Other
<1>2. \A y \in DOMAIN w : y \in DOMAIN v /\ v[y] = w[y]
  BY DEF Extended
<1>3. \A y \in DOMAIN v : v[y].k = "tool_call" => v[y].c \in 1..made /\ v[y].c \notin i
  BY <1>1 DEF Queued
<1>4. \A y, z \in DOMAIN v : v[y].k = "tool_call" /\ v[z].k = "tool_call" /\ v[y].c = v[z].c => y = z
  BY <1>1 DEF Queued
<1>5. \A y \in DOMAIN v : v[y].k = "tool_result" => v[y].c \notin o
  BY <1>1 DEF Queued
<1>6. ASSUME NEW y \in DOMAIN v, v[y].k = "tool_result"
      PROVE  v[y].c \in i \/ \E z \in DOMAIN v : z < y /\ v[z].k = "tool_call" /\ v[z].c = v[y].c
  <2>1. y \in DOMAIN w /\ v[y] = w[y]
    BY <1>1, <1>6
  <2>2. w[y].c \in i \/ \E z \in DOMAIN w : z < y /\ w[z].k = "tool_call" /\ w[z].c = w[y].c
    BY <1>6, <2>1 DEF Queued
  <2> QED BY <1>2, <2>1, <2>2
<1>7. \A y, z \in DOMAIN v : v[y].k = "tool_result" /\ v[z].k = "tool_result" /\ v[y].c = v[z].c => y = z
  BY <1>1 DEF Queued
<1>8. Queued(v, made, i, o)
  BY <1>3, <1>4, <1>5, <1>6, <1>7 DEF Queued
<1>9. ASSUME NEW c, Awaited(c, w, i, o) PROVE Awaited(c, v, i, o)
  BY <1>1, <1>2, <1>9 DEF Awaited
<1> QED BY <1>8, <1>9

LEMMA PutsResult ==
  ASSUME NEW v, NEW w, NEW n, NEW x, Extended(v, w, n, x), x.k = "tool_result",
         NEW made, NEW i, NEW o, Queued(w, made, i, o), Awaited(x.c, w, i, o)
  PROVE  Queued(v, made, i, o) /\ \A c : Awaited(c, w, i, o) /\ c # x.c => Awaited(c, v, i, o)
<1>1. \A y \in DOMAIN v : (y \in DOMAIN w /\ v[y] = w[y]) \/ (y = n /\ v[y] = x)
  BY DEF Extended
<1>2. \A y \in DOMAIN w : y \in DOMAIN v /\ v[y] = w[y] /\ y < n
  BY DEF Extended
<1>3. \A y \in DOMAIN v : v[y].k = "tool_call" => y \in DOMAIN w /\ v[y] = w[y]
  BY <1>1
<1>4. \A y \in DOMAIN v : v[y].k = "tool_call" => v[y].c \in 1..made /\ v[y].c \notin i
  BY <1>3 DEF Queued
<1>5. \A y, z \in DOMAIN v : v[y].k = "tool_call" /\ v[z].k = "tool_call" /\ v[y].c = v[z].c => y = z
  BY <1>3 DEF Queued
<1>6. \A y \in DOMAIN v : v[y].k = "tool_result" => v[y].c \notin o
  BY <1>1 DEF Queued, Awaited
<1>7. ASSUME NEW y \in DOMAIN v, v[y].k = "tool_result"
      PROVE  v[y].c \in i \/ \E z \in DOMAIN v : z < y /\ v[z].k = "tool_call" /\ v[z].c = v[y].c
  <2>1. CASE y \in DOMAIN w /\ v[y] = w[y]
    <3>1. w[y].c \in i \/ \E z \in DOMAIN w : z < y /\ w[z].k = "tool_call" /\ w[z].c = w[y].c
      BY <1>7, <2>1 DEF Queued
    <3> QED BY <1>2, <2>1, <3>1
  <2>2. CASE y = n /\ v[y] = x
    BY <1>2, <2>2 DEF Awaited
  <2> QED BY <1>1, <2>1, <2>2
<1>8. \A y, z \in DOMAIN v : v[y].k = "tool_result" /\ v[z].k = "tool_result" /\ v[y].c = v[z].c => y = z
  BY <1>1 DEF Queued, Awaited
<1>9. Queued(v, made, i, o)
  BY <1>4, <1>5, <1>6, <1>7, <1>8 DEF Queued
<1>10. ASSUME NEW c, Awaited(c, w, i, o), c # x.c PROVE Awaited(c, v, i, o)
  BY <1>1, <1>2, <1>10 DEF Awaited
<1> QED BY <1>9, <1>10

LEMMA TakesOther ==
  ASSUME NEW v, NEW w, Dropped(v, w), Other(w[1]), NEW made, NEW i, NEW o, Queued(w, made, i, o)
  PROVE  Queued(v, made, i, o) /\ \A c : Awaited(c, w, i, o) => Awaited(c, v, i, o)
<1>a. \A y \in DOMAIN v : After(y) \in DOMAIN w /\ After(y) # 1 /\ v[y] = w[After(y)]
  BY DEF Dropped
<1>b. /\ \A y, z \in DOMAIN v : After(y) = After(z) => y = z
      /\ 1 \in DOMAIN w /\ \A x \in DOMAIN w : ~(x < 1)
  BY DEF Dropped
<1>1. \A y \in DOMAIN v : v[y].k = "tool_call" => v[y].c \in 1..made /\ v[y].c \notin i
  BY SMT, <1>a, <1>b DEF Queued
<1>2. \A y, z \in DOMAIN v : v[y].k = "tool_call" /\ v[z].k = "tool_call" /\ v[y].c = v[z].c => y = z
  BY SMT, <1>a, <1>b DEF Queued
<1>3. \A y, z \in DOMAIN v : v[y].k = "tool_result" /\ v[z].k = "tool_result" /\ v[y].c = v[z].c => y = z
  BY SMT, <1>a, <1>b DEF Queued
<1>4. \A y \in DOMAIN v : v[y].k = "tool_result" => v[y].c \notin o
  BY SMT, <1>a, <1>b DEF Queued
<1>5. ASSUME NEW y \in DOMAIN v, v[y].k = "tool_result"
      PROVE  v[y].c \in i \/ \E z \in DOMAIN v : z < y /\ v[z].k = "tool_call" /\ v[z].c = v[y].c
  <2>1. After(y) \in DOMAIN w /\ v[y] = w[After(y)]
    BY DEF Dropped
  <2>2. w[After(y)].c \in i \/ \E z \in DOMAIN w : z < After(y) /\ w[z].k = "tool_call" /\ w[z].c = w[After(y)].c
    BY <1>5, <2>1 DEF Queued
  <2>3. ASSUME NEW z \in DOMAIN w, z < After(y), w[z].k = "tool_call", w[z].c = w[After(y)].c
        PROVE  \E a \in DOMAIN v : a < y /\ v[a].k = "tool_call" /\ v[a].c = v[y].c
    <3>1. PICK a \in DOMAIN v : z = After(a)
      BY <2>3 DEF Dropped, Other
    <3>2. a < y /\ v[a] = w[z]
      BY <2>3, <3>1 DEF Dropped
    <3> QED BY <2>1, <2>3, <3>2
  <2> QED BY <2>1, <2>2, <2>3
<1>6. Queued(v, made, i, o)
  BY <1>1, <1>2, <1>3, <1>4, <1>5 DEF Queued
<1>7. ASSUME NEW c, Awaited(c, w, i, o) PROVE Awaited(c, v, i, o)
  <2>1. ASSUME NEW z \in DOMAIN w, w[z].k = "tool_call"
        PROVE  \E a \in DOMAIN v : v[a] = w[z]
    <3>1. PICK a \in DOMAIN v : z = After(a)
      BY <2>1 DEF Dropped, Other
    <3> QED BY <1>a, <3>1
  <2>2. \A a \in DOMAIN v : \E z \in DOMAIN w : v[a] = w[z]
    BY <1>a
  <2>3. c \in i \/ \E x \in DOMAIN v : v[x].k = "tool_call" /\ v[x].c = c
    BY <1>7, <2>1 DEF Awaited
  <2>4. c \notin o /\ \A x \in DOMAIN v : v[x].k = "tool_result" => v[x].c # c
    BY <1>7, <2>2 DEF Awaited
  <2> QED BY <2>3, <2>4 DEF Awaited
<1> QED BY <1>6, <1>7

CallTaken(c, v, w, made, i, j, o) ==
  /\ c \in 1..made /\ c \notin i /\ Queued(v, made, j, o)
  /\ \A d : Awaited(d, w, i, o) => Awaited(d, v, j, o)

LEMMA TakesCall ==
  ASSUME NEW v, NEW w, Dropped(v, w), w[1].k = "tool_call", NEW made, NEW i, NEW o, Queued(w, made, i, o),
         NEW c, c = w[1].c, NEW j, j = i \cup {c}
  PROVE  CallTaken(c, v, w, made, i, j, o)
<1>a. \A y \in DOMAIN v : After(y) \in DOMAIN w /\ After(y) # 1 /\ v[y] = w[After(y)]
  BY DEF Dropped
<1>b. /\ \A y, z \in DOMAIN v : After(y) = After(z) => y = z
      /\ 1 \in DOMAIN w /\ \A x \in DOMAIN w : ~(x < 1)
  BY DEF Dropped
<1>0. c \in 1..made /\ c \notin i
  BY SMT, <1>a, <1>b DEF Queued
<1>1. \A y \in DOMAIN v : v[y].k = "tool_call" => v[y].c \in 1..made /\ v[y].c \notin i /\ v[y].c # c
  BY SMT, <1>a, <1>b DEF Queued
<1>2. \A y, z \in DOMAIN v : v[y].k = "tool_call" /\ v[z].k = "tool_call" /\ v[y].c = v[z].c => y = z
  BY SMT, <1>a, <1>b DEF Queued
<1>3. \A y, z \in DOMAIN v : v[y].k = "tool_result" /\ v[z].k = "tool_result" /\ v[y].c = v[z].c => y = z
  BY SMT, <1>a, <1>b DEF Queued
<1>4. \A y \in DOMAIN v : v[y].k = "tool_result" => v[y].c \notin o
  BY SMT, <1>a, <1>b DEF Queued
<1>5. ASSUME NEW y \in DOMAIN v, v[y].k = "tool_result"
      PROVE  v[y].c \in j \/ \E z \in DOMAIN v : z < y /\ v[z].k = "tool_call" /\ v[z].c = v[y].c
  <2>1. After(y) \in DOMAIN w /\ v[y] = w[After(y)]
    BY DEF Dropped
  <2>2. w[After(y)].c \in i \/ \E z \in DOMAIN w : z < After(y) /\ w[z].k = "tool_call" /\ w[z].c = w[After(y)].c
    BY <1>5, <2>1 DEF Queued
  <2>3. ASSUME NEW z \in DOMAIN w, z < After(y), w[z].k = "tool_call", w[z].c = w[After(y)].c, z # 1
        PROVE  \E a \in DOMAIN v : a < y /\ v[a].k = "tool_call" /\ v[a].c = v[y].c
    <3>1. PICK a \in DOMAIN v : z = After(a)
      BY <2>3 DEF Dropped
    <3>2. a < y /\ v[a] = w[z]
      BY <2>3, <3>1 DEF Dropped
    <3> QED BY <2>1, <2>3, <3>2
  <2> QED BY <2>1, <2>2, <2>3
<1>6. Queued(v, made, j, o)
  BY <1>1, <1>2, <1>3, <1>4, <1>5 DEF Queued
<1>7. ASSUME NEW d, Awaited(d, w, i, o) PROVE Awaited(d, v, j, o)
  <2>1. ASSUME NEW z \in DOMAIN w, z # 1
        PROVE  \E a \in DOMAIN v : v[a] = w[z]
    <3>1. PICK a \in DOMAIN v : z = After(a)
      BY <2>1 DEF Dropped
    <3> QED BY <1>a, <3>1
  <2>2. \A a \in DOMAIN v : \E z \in DOMAIN w : v[a] = w[z]
    BY <1>a
  <2>3. d \in j \/ \E x \in DOMAIN v : v[x].k = "tool_call" /\ v[x].c = d
    <3>1. CASE d \in i
      BY <3>1
    <3>2. ASSUME NEW x \in DOMAIN w, w[x].k = "tool_call", w[x].c = d
          PROVE  d = c \/ \E y \in DOMAIN v : v[y].k = "tool_call" /\ v[y].c = d
      BY <2>1, <3>2
    <3> QED BY <1>7, <3>1, <3>2 DEF Awaited
  <2>4. d \notin o /\ \A x \in DOMAIN v : v[x].k = "tool_result" => v[x].c # d
    BY <1>7, <2>2 DEF Awaited
  <2> QED BY <2>3, <2>4 DEF Awaited
<1> QED BY <1>0, <1>6, <1>7 DEF CallTaken

LEMMA TakesResult ==
  ASSUME NEW v, NEW w, Dropped(v, w), w[1].k = "tool_result", NEW made, NEW i, NEW o, Queued(w, made, i, o),
         NEW c, c = w[1].c, NEW p, p = o \cup {c}
  PROVE  /\ c \in i /\ c \notin o /\ Queued(v, made, i, p)
         /\ \A d : Awaited(d, w, i, o) => Awaited(d, v, i, p)
<1>a. \A y \in DOMAIN v : After(y) \in DOMAIN w /\ After(y) # 1 /\ v[y] = w[After(y)]
  BY DEF Dropped
<1>b. /\ \A y, z \in DOMAIN v : After(y) = After(z) => y = z
      /\ 1 \in DOMAIN w /\ \A x \in DOMAIN w : ~(x < 1)
  BY DEF Dropped
<1>0. c \in i /\ c \notin o
  BY SMT, <1>a, <1>b DEF Queued
<1>1. \A y \in DOMAIN v : v[y].k = "tool_call" => v[y].c \in 1..made /\ v[y].c \notin i
  BY SMT, <1>a, <1>b DEF Queued
<1>2. \A y, z \in DOMAIN v : v[y].k = "tool_call" /\ v[z].k = "tool_call" /\ v[y].c = v[z].c => y = z
  BY SMT, <1>a, <1>b DEF Queued
<1>3. \A y, z \in DOMAIN v : v[y].k = "tool_result" /\ v[z].k = "tool_result" /\ v[y].c = v[z].c => y = z
  BY SMT, <1>a, <1>b DEF Queued
<1>4. \A y \in DOMAIN v : v[y].k = "tool_result" => v[y].c \notin o /\ v[y].c # c
  BY SMT, <1>a, <1>b DEF Queued
<1>5. ASSUME NEW y \in DOMAIN v, v[y].k = "tool_result"
      PROVE  v[y].c \in i \/ \E z \in DOMAIN v : z < y /\ v[z].k = "tool_call" /\ v[z].c = v[y].c
  <2>1. After(y) \in DOMAIN w /\ v[y] = w[After(y)]
    BY DEF Dropped
  <2>2. w[After(y)].c \in i \/ \E z \in DOMAIN w : z < After(y) /\ w[z].k = "tool_call" /\ w[z].c = w[After(y)].c
    BY <1>5, <2>1 DEF Queued
  <2>3. ASSUME NEW z \in DOMAIN w, z < After(y), w[z].k = "tool_call", w[z].c = w[After(y)].c
        PROVE  \E a \in DOMAIN v : a < y /\ v[a].k = "tool_call" /\ v[a].c = v[y].c
    <3>1. PICK a \in DOMAIN v : z = After(a)
      BY <2>3 DEF Dropped
    <3>2. a < y /\ v[a] = w[z]
      BY <2>3, <3>1 DEF Dropped
    <3> QED BY <2>1, <2>3, <3>2
  <2> QED BY <2>1, <2>2, <2>3
<1>6. Queued(v, made, i, p)
  BY <1>1, <1>2, <1>3, <1>4, <1>5 DEF Queued
<1>7. ASSUME NEW d, Awaited(d, w, i, o) PROVE Awaited(d, v, i, p)
  <2>1. ASSUME NEW z \in DOMAIN w, z # 1
        PROVE  \E a \in DOMAIN v : v[a] = w[z]
    <3>1. PICK a \in DOMAIN v : z = After(a)
      BY <2>1 DEF Dropped
    <3> QED BY <1>a, <3>1
  <2>2. \A a \in DOMAIN v : \E z \in DOMAIN w : v[a] = w[z]
    BY <1>a
  <2>3. d # c
    BY <1>7 DEF Awaited, Dropped
  <2>4. ASSUME NEW z \in DOMAIN w, w[z].k = "tool_call" PROVE z # 1
    BY <2>4
  <2>5. d \in i \/ \E x \in DOMAIN v : v[x].k = "tool_call" /\ v[x].c = d
    <3>1. ASSUME NEW x \in DOMAIN w, w[x].k = "tool_call", w[x].c = d
          PROVE  \E y \in DOMAIN v : v[y].k = "tool_call" /\ v[y].c = d
      BY <2>1, <2>4, <3>1
    <3> QED BY <1>7, <3>1 DEF Awaited
  <2>6. d \notin p /\ \A x \in DOMAIN v : v[x].k = "tool_result" => v[x].c # d
    BY <1>7, <2>2, <2>3 DEF Awaited
  <2> QED BY <2>5, <2>6 DEF Awaited
<1> QED BY <1>0, <1>6, <1>7

LEMMA ItemFields == \A k, c : Item(k, c).k = k /\ Item(k, c).c = c
BY DEF Item

LEMMA ItemIn == \A k \in Kinds, c \in Nat : Item(k, c) \in Items
BY SMT DEF Items

IsJoin(v, w, t, l, n) ==
  /\ l \in Nat /\ DOMAIN w = 1..l /\ DOMAIN v = 1..(l + n)
  /\ \A x \in DOMAIN w : x \in DOMAIN v /\ v[x] = w[x]
  /\ \A y \in 1..n : l + y \in DOMAIN v /\ v[l + y] = t[y]
  /\ \A x \in DOMAIN v : x \notin DOMAIN w => x - l \in 1..n /\ x = l + (x - l)

\* The calls that follow the first made ones.
\* b is a round of n calls, t their announcement.
Round(b, t, made, n) ==
  /\ b \in Seq(Nat) /\ t \in Seq(Items) /\ Len(t) = n /\ DOMAIN b = 1..n
  /\ \A y \in 1..n : b[y] = made + y /\ t[y].k = "tool_call" /\ t[y].c = made + y

LEMMA Announced ==
  ASSUME NEW n \in Nat, NEW made \in Nat, NEW b, b = [y \in 1..n |-> made + y],
         NEW t, t = [y \in 1..n |-> Item("tool_call", b[y])]
  PROVE  Round(b, t, made, n)
<1>1. \A y \in 1..n : b[y] = made + y /\ made + y \in Nat
  BY SMT
<1>2. b \in Seq(Nat) /\ DOMAIN b = 1..n
  BY SMT, <1>1
<1>3. \A y \in 1..n : t[y] = Item("tool_call", b[y])
  OBVIOUS
<1>4. "tool_call" \in Kinds
  BY DEF Kinds
<1>5. \A y \in 1..n : t[y].k = "tool_call" /\ t[y].c = b[y] /\ t[y] \in Items
  BY SMT, <1>1, <1>3, <1>4, ItemFields, ItemIn
<1>6. t \in [1..n -> Items]
  BY <1>5
<1>7. t \in Seq(Items) /\ Len(t) = n
  BY SMT, <1>6
<1> QED BY <1>1, <1>2, <1>5, <1>7 DEF Round

\* With the n calls put, w is v.
CallsPut(w, v, made, n, i, o) ==
  /\ Queued(v, made + n, i, o)
  /\ \A c : Awaited(c, w, i, o) => Awaited(c, v, i, o) /\ c \in 1..made
  /\ \A y \in 1..n : made + y \notin 1..made /\ Awaited(made + y, v, i, o)
  /\ \A K : HasItem(v, K) => HasItem(w, K) \/ "tool_call" \in K
  /\ \A K : HasItem(w, K) => HasItem(v, K)

LEMMA PutsCalls ==
  ASSUME NEW n \in Nat, NEW made \in Nat, NEW i, NEW o, i \subseteq 1..made, o \subseteq i,
         NEW w, Queued(w, made, i, o), NEW l, NEW t, NEW v, IsJoin(v, w, t, l, n),
         \A y \in 1..n : t[y].k = "tool_call" /\ t[y].c = made + y
  PROVE  CallsPut(w, v, made, n, i, o)
<1>7. l \in Nat /\ DOMAIN v = 1..(l + n)
  BY DEF IsJoin
<1>8. \A x \in DOMAIN w : x \in DOMAIN v /\ v[x] = w[x]
  BY DEF IsJoin
<1>9. \A y \in 1..n : l + y \in DOMAIN v /\ v[l + y] = t[y]
  BY DEF IsJoin
<1>10. \A x \in DOMAIN v : x \notin DOMAIN w => x - l \in 1..n /\ x = l + (x - l)
  BY DEF IsJoin
<1>11. ASSUME NEW x \in DOMAIN v, x \notin DOMAIN w
       PROVE  v[x].k = "tool_call" /\ v[x].c = made + (x - l)
  <2>1. PICK y \in 1..n : y = x - l /\ x = l + y
    BY <1>10, <1>11
  <2>2. v[x] = t[y]
    BY <1>9, <2>1
  <2> QED BY <2>1, <2>2
<1>12. \A x \in DOMAIN w : w[x].k \in {"tool_call", "tool_result"} => w[x].c \in 1..made
  BY DEF Queued
<1>13. \A x \in 1..made : x \in 1..(made + n) /\ \A y \in 1..n : x # made + y
  BY SMT
<1>14. \A y \in 1..n : made + y \in 1..(made + n) /\ made + y \notin 1..made
  BY SMT
<1>d. ASSUME NEW x \in DOMAIN w, w[x].k = "tool_call", NEW y \in DOMAIN v, y \notin DOMAIN w
      PROVE  w[x].c # v[y].c
  <2>1. w[x].c \in 1..made
    BY <1>12, <1>d
  <2>2. y - l \in 1..n /\ v[y].c = made + (y - l)
    BY <1>10, <1>11, <1>d
  <2> QED BY <1>13, <2>1, <2>2
<1>15. \A x \in DOMAIN v : v[x].k = "tool_call" => v[x].c \in 1..(made + n) /\ v[x].c \notin i
  <2>1. \A x \in DOMAIN w : w[x].k = "tool_call" => w[x].c \in 1..(made + n) /\ w[x].c \notin i
    BY <1>13 DEF Queued
  <2>2. ASSUME NEW x \in DOMAIN v, x \notin DOMAIN w PROVE v[x].c \in 1..(made + n) /\ v[x].c \notin i
    <3>1. x - l \in 1..n /\ v[x].c = made + (x - l)
      BY <1>10, <1>11, <2>2
    <3> QED BY <1>14, <3>1
  <2> QED BY <1>8, <2>1, <2>2
<1>16. ASSUME NEW x \in DOMAIN v, NEW y \in DOMAIN v, v[x].k = "tool_call", v[y].k = "tool_call", v[x].c = v[y].c
       PROVE  x = y
  <2>1. CASE x \in DOMAIN w /\ y \in DOMAIN w
    BY <1>8, <1>16, <2>1 DEF Queued
  <2>2. CASE x \in DOMAIN w /\ y \notin DOMAIN w
    BY <1>8, <1>16, <1>d, <2>2
  <2>3. CASE x \notin DOMAIN w /\ y \in DOMAIN w
    BY <1>8, <1>16, <1>d, <2>3
  <2>4. CASE x \notin DOMAIN w /\ y \notin DOMAIN w
    <3>1. made + (x - l) = made + (y - l)
      BY <1>11, <1>16, <2>4
    <3>2. x \in Int /\ y \in Int
      BY SMT, <1>7
    <3> QED BY SMT, <1>7, <3>1, <3>2
  <2> QED BY <2>1, <2>2, <2>3, <2>4
<1>17. \A x \in DOMAIN v : v[x].k = "tool_result" => x \in DOMAIN w /\ v[x] = w[x]
  BY <1>8, <1>11
<1>18. ASSUME NEW x \in DOMAIN v, v[x].k = "tool_result"
       PROVE  /\ v[x].c \notin o
              /\ v[x].c \in i \/ \E y \in DOMAIN v : y < x /\ v[y].k = "tool_call" /\ v[y].c = v[x].c
  <2>1. x \in DOMAIN w /\ v[x] = w[x]
    BY <1>17, <1>18
  <2>2. w[x].c \notin o /\ (w[x].c \in i \/ \E y \in DOMAIN w : y < x /\ w[y].k = "tool_call" /\ w[y].c = w[x].c)
    BY <1>18, <2>1 DEF Queued
  <2> QED BY <1>8, <2>1, <2>2
<1>19. ASSUME NEW x \in DOMAIN v, NEW y \in DOMAIN v, v[x].k = "tool_result", v[y].k = "tool_result", v[x].c = v[y].c
       PROVE  x = y
  <2>1. x \in DOMAIN w /\ v[x] = w[x] /\ y \in DOMAIN w /\ v[y] = w[y]
    BY <1>17, <1>19
  <2> QED BY <1>19, <2>1 DEF Queued
<1>20. Queued(v, made + n, i, o)
  BY <1>15, <1>16, <1>18, <1>19 DEF Queued
<1>21. ASSUME NEW c, Awaited(c, w, i, o) PROVE Awaited(c, v, i, o) /\ c \in 1..made
  <2>1. c \in i \/ \E x \in DOMAIN v : v[x].k = "tool_call" /\ v[x].c = c
    BY <1>8, <1>21 DEF Awaited
  <2>2. c \notin o /\ \A x \in DOMAIN v : v[x].k = "tool_result" => v[x].c # c
    BY <1>17, <1>21 DEF Awaited
  <2>3. c \in 1..made
    <3>1. c \in i => c \in 1..made
      OBVIOUS
    <3>2. \A x \in DOMAIN w : w[x].k = "tool_call" => w[x].c \in 1..made
      BY <1>12
    <3> QED BY <1>21, <3>1, <3>2 DEF Awaited
  <2> QED BY <2>1, <2>2, <2>3 DEF Awaited
<1>22. ASSUME NEW y \in 1..n PROVE Awaited(made + y, v, i, o)
  <2>1. v[l + y].k = "tool_call" /\ v[l + y].c = made + y
    BY <1>9
  <2>2. \A x \in DOMAIN v : v[x].k = "tool_result" => v[x].c # made + y
    BY <1>12, <1>14, <1>17
  <2>3. made + y \notin o
    BY <1>14
  <2> QED BY <1>9, <2>1, <2>2, <2>3 DEF Awaited
<1>23. \A K : HasItem(v, K) => HasItem(w, K) \/ "tool_call" \in K
  BY <1>8, <1>11 DEF HasItem
<1>24. \A K : HasItem(w, K) => HasItem(v, K)
  BY <1>8 DEF HasItem
<1> QED BY <1>14, <1>20, <1>21, <1>22, <1>23, <1>24 DEF CallsPut

LEMMA ItemPut ==
  ASSUME NEW v, NEW w, NEW n, NEW x, Extended(v, w, n, x), NEW K
  PROVE  HasItem(v, K) <=> HasItem(w, K) \/ x.k \in K
BY DEF Extended, HasItem

LEMMA ItemTaken ==
  ASSUME NEW v, NEW w, Dropped(v, w), NEW K
  PROVE  HasItem(w, K) <=> HasItem(v, K) \/ w[1].k \in K
<1>1. ASSUME HasItem(v, K) PROVE HasItem(w, K)
  BY <1>1 DEF HasItem, Dropped
<1>2. ASSUME NEW x \in DOMAIN w, w[x].k \in K, w[1].k \notin K PROVE HasItem(v, K)
  <2>1. PICK y \in DOMAIN v : x = After(y)
    BY <1>2 DEF Dropped
  <2>2. v[y] = w[x]
    BY <2>1 DEF Dropped
  <2> QED BY <1>2, <2>1, <2>2 DEF HasItem
<1>3. w[1].k \in K => HasItem(w, K)
  BY DEF Dropped, HasItem
<1> QED BY <1>1, <1>2, <1>3 DEF HasItem

-----------------------------------------------------------------------------
(* The agent *)

AgentOf(at, made, b, r) == [at |-> at, made |-> made, batch |-> b, results |-> r]
SetAt(a, x) == [a EXCEPT !.at = x]
SetMade(a, x) == [a EXCEPT !.made = x]
SetBatch(a, x) == [a EXCEPT !.batch = x]
SetResults(a, x) == [a EXCEPT !.results = x]

LEMMA AgentFields ==
  ASSUME NEW at, NEW made, NEW b, NEW r, NEW a, a = AgentOf(at, made, b, r)
  PROVE  IsAgent(a) /\ a.at = at /\ a.made = made /\ a.batch = b /\ a.results = r
BY DEF AgentOf, IsAgent

LEMMA OneAgentField ==
  ASSUME NEW a, IsAgent(a), NEW x
  PROVE  /\ SetAt(a, x) = AgentOf(x, a.made, a.batch, a.results)
         /\ SetMade(a, x) = AgentOf(a.at, x, a.batch, a.results)
         /\ SetBatch(a, x) = AgentOf(a.at, a.made, x, a.results)
         /\ SetResults(a, x) = AgentOf(a.at, a.made, a.batch, x)
<1>1. SetAt(a, x) = AgentOf(x, a.made, a.batch, a.results)
  BY SMT DEF IsAgent, AgentOf, SetAt
<1>2. SetMade(a, x) = AgentOf(a.at, x, a.batch, a.results)
  BY SMT DEF IsAgent, AgentOf, SetMade
<1>3. SetBatch(a, x) = AgentOf(a.at, a.made, x, a.results)
  BY SMT DEF IsAgent, AgentOf, SetBatch
<1>4. SetResults(a, x) = AgentOf(a.at, a.made, a.batch, x)
  BY SMT DEF IsAgent, AgentOf, SetResults
<1> QED BY <1>1, <1>2, <1>3, <1>4

\* The agent is at another place.
LEMMA AgentAt ==
  ASSUME NEW a, IsAgent(a), NEW x, NEW y, y = SetAt(a, x)
  PROVE  IsAgent(y) /\ y.at = x /\ y.made = a.made /\ y.batch = a.batch /\ y.results = a.results
<1>1. y = AgentOf(x, a.made, a.batch, a.results)
  BY OneAgentField
<1> QED BY SMT, <1>1, AgentFields

\* It is cancelled.
HasEnded(y, a) ==
  /\ IsAgent(y) /\ y.made = a.made /\ y.batch = a.batch /\ y.results = a.results
  /\ y.at = IF a.at = "silent" THEN "silent" ELSE "over"

LEMMA AgentEnded ==
  ASSUME NEW a, IsAgent(a), NEW y, y = Ended(a)
  PROVE  HasEnded(y, a)
<1>1. CASE a.at = "silent"
  BY <1>1 DEF Ended, HasEnded
<1>2. CASE a.at # "silent"
  <2>1. y = SetAt(a, "over")
    BY <1>2 DEF Ended, SetAt
  <2>2. IsAgent(y) /\ y.at = "over" /\ y.made = a.made /\ y.batch = a.batch /\ y.results = a.results
    BY SMT, <2>1, AgentAt
  <2> QED BY <1>2, <2>2 DEF HasEnded
<1> QED BY <1>1, <1>2

\* The agent a after its calls, an execution and a report.
WithCalls(a, at, b, n) == [a EXCEPT !.at = at, !.batch = b, !.made = @ + n]
WithResult(a, b, x) == [a EXCEPT !.batch = b, !.results = Append(@, x)]
WithReport(a, at, r) == [a EXCEPT !.at = at, !.results = r]

\* It has made n more calls.
LEMMA AgentCalls ==
  ASSUME NEW a, IsAgent(a), NEW at, NEW b, NEW n, NEW y,
         y = WithCalls(a, at, b, n)
  PROVE  IsAgent(y) /\ y.at = at /\ y.made = a.made + n /\ y.batch = b /\ y.results = a.results
<1>1. PICK p : p = SetAt(a, at)
  OBVIOUS
<1>2. IsAgent(p) /\ p.at = at /\ p.made = a.made /\ p.batch = a.batch /\ p.results = a.results
  BY SMT, <1>1, AgentAt
<1>3. PICK q : q = SetBatch(p, b)
  OBVIOUS
<1>4. q = AgentOf(p.at, p.made, b, p.results)
  BY <1>2, <1>3, OneAgentField
<1>5. IsAgent(q) /\ q.at = p.at /\ q.made = p.made /\ q.batch = b /\ q.results = p.results
  BY SMT, <1>4, AgentFields
<1>6. y = SetMade(q, q.made + n)
  BY <1>1, <1>3 DEF SetAt, SetBatch, SetMade, WithCalls
<1>7. y = AgentOf(q.at, q.made + n, q.batch, q.results)
  BY <1>5, <1>6, OneAgentField
<1> QED BY SMT, <1>2, <1>5, <1>7, AgentFields

\* It has executed a call.
LEMMA AgentExecutes ==
  ASSUME NEW a, IsAgent(a), NEW b, NEW x, NEW y,
         y = WithResult(a, b, x)
  PROVE  IsAgent(y) /\ y.at = a.at /\ y.made = a.made /\ y.batch = b /\ y.results = Append(a.results, x)
<1>1. PICK q : q = SetBatch(a, b)
  OBVIOUS
<1>2. q = AgentOf(a.at, a.made, b, a.results)
  BY <1>1, OneAgentField
<1>3. IsAgent(q) /\ q.at = a.at /\ q.made = a.made /\ q.batch = b /\ q.results = a.results
  BY SMT, <1>2, AgentFields
<1>4. y = SetResults(q, Append(q.results, x))
  BY <1>1 DEF SetBatch, SetResults, WithResult
<1>5. PICK z : z = Append(q.results, x)
  OBVIOUS
<1>6. y = AgentOf(q.at, q.made, q.batch, z)
  BY <1>3, <1>4, <1>5, OneAgentField
<1>7. IsAgent(y) /\ y.at = q.at /\ y.made = q.made /\ y.batch = q.batch /\ y.results = z
  BY SMT, <1>6, AgentFields
<1> QED BY <1>3, <1>5, <1>7

\* It has reported a result.
LEMMA AgentReports ==
  ASSUME NEW a, IsAgent(a), NEW at, NEW r, NEW y,
         y = WithReport(a, at, r)
  PROVE  IsAgent(y) /\ y.at = at /\ y.made = a.made /\ y.batch = a.batch /\ y.results = r
<1>1. PICK p : p = SetAt(a, at)
  OBVIOUS
<1>2. IsAgent(p) /\ p.at = at /\ p.made = a.made /\ p.batch = a.batch /\ p.results = a.results
  BY SMT, <1>1, AgentAt
<1>3. y = SetResults(p, r)
  BY <1>1 DEF SetAt, SetResults, WithReport
<1>4. y = AgentOf(p.at, p.made, p.batch, r)
  BY <1>2, <1>3, OneAgentField
<1> QED BY SMT, <1>2, <1>4, AgentFields

-----------------------------------------------------------------------------
(* The agent's work and the queue *)

\* What keeps calls waiting keeps the agent at work.
LEMMA WorkGoesOn ==
  ASSUME NEW b, NEW r, NEW w, NEW i, NEW o, AtWork(b, r, w, i, o), NEW v, NEW j, NEW p,
         \A c : Awaited(c, w, i, o) => Awaited(c, v, j, p)
  PROVE  AtWork(b, r, v, j, p)
BY DEF AtWork

LEMMA WorkPuts ==
  ASSUME NEW a, NEW w, NEW i, NEW o, NEW ev, NEW due, Work(a, w, i, o, ev, due),
         NEW v, NEW n, NEW x, Extended(v, w, n, x), Other(x),
         NEW y, y.made = a.made, y.batch = a.batch, y.results = a.results
  PROVE  Work(y, v, i, o, ev, due)
<1>1. Queued(v, a.made, i, o) /\ \A c : Awaited(c, w, i, o) => Awaited(c, v, i, o)
  BY PutsOther DEF Work
<1>2. AtWork(a.batch, a.results, v, i, o)
  BY <1>1, WorkGoesOn DEF Work
<1> QED BY <1>1, <1>2 DEF Work

CallsMade(y, a, b, m, n) == a.made = m /\ y.made = m + n /\ y.batch = b /\ y.results = a.results

LEMMA WorkCalls ==
  ASSUME NEW a, NEW w, NEW i, NEW o, NEW ev, NEW due, Work(a, w, i, o, ev, due),
         NEW m \in Nat, NEW n \in Nat, NEW b, NEW t, Round(b, t, m, n),
         NEW v, CallsPut(w, v, m, n, i, o),
         NEW y, CallsMade(y, a, b, m, n)
  PROVE  Work(y, v, i, o, ev, due)
<1>0. /\ a.made \in Nat /\ b \in Seq(Nat) /\ DOMAIN b = 1..n /\ \A z \in 1..n : b[z] = a.made + z
      /\ Queued(v, a.made + n, i, o)
      /\ \A c : Awaited(c, w, i, o) => Awaited(c, v, i, o) /\ c \in 1..a.made
      /\ \A z \in 1..n : a.made + z \notin 1..a.made /\ Awaited(a.made + z, v, i, o)
  BY DEF Round, CallsPut, CallsMade
<1>1. i \subseteq 1..(a.made + n)
  <2>1. \A c \in 1..a.made : c \in 1..(a.made + n)
    BY SMT, <1>0
  <2> QED BY <2>1 DEF Work
<1>2. \A x, z \in 1..n : a.made + x = a.made + z => x = z
  BY SMT, <1>0
<1>3. \A x \in DOMAIN b : Awaited(b[x], v, i, o)
  BY <1>0
<1>4. \A x \in DOMAIN a.results : Awaited(a.results[x].call, v, i, o) /\ a.results[x].call \in 1..a.made
  BY <1>0 DEF Work, AtWork
<1>5. ASSUME NEW x \in DOMAIN b, NEW z \in DOMAIN b, b[x] = b[z] PROVE x = z
  <2>1. x \in 1..n /\ z \in 1..n
    BY <1>0
  <2>2. a.made + x = a.made + z
    BY <1>0, <1>5, <2>1
  <2> QED BY <1>2, <2>1, <2>2
<1>6. \A x \in DOMAIN b, z \in DOMAIN a.results : b[x] # a.results[z].call
  BY <1>0, <1>4
<1>7. AtWork(b, a.results, v, i, o)
  <2>1. \A x, z \in DOMAIN a.results : a.results[x].call = a.results[z].call => x = z
    BY DEF Work, AtWork
  <2> QED BY <1>3, <1>4, <1>5, <1>6, <2>1 DEF AtWork
<1> QED BY <1>0, <1>1, <1>7 DEF Work, CallsMade

\* The call at the head of the batch is executed: what is left of the batch is c,
\* the results s are one more.
Rest(c, b) ==
  /\ \A x \in DOMAIN c : After(x) \in DOMAIN b /\ After(x) # 1 /\ c[x] = b[After(x)]
  /\ \A x, y \in DOMAIN c : After(x) = After(y) => x = y

LEMMA WorkExecutes ==
  ASSUME NEW a, NEW w, NEW i, NEW o, NEW ev, NEW due, Work(a, w, i, o, ev, due), 1 \in DOMAIN a.batch,
         NEW c, Rest(c, a.batch), NEW s, NEW n, NEW x, Extended(s, a.results, n, x), x.call = a.batch[1],
         NEW y, y.made = a.made, y.batch = c, y.results = s,
         NEW f, f = ev \/ (f = x.call /\ x.asks)
  PROVE  Work(y, w, i, o, f, due)
<1>0. PICK b : b = a.batch /\ 1 \in DOMAIN b /\ Rest(c, b) /\ x.call = b[1]
  OBVIOUS
<1>1. PICK r : r = a.results /\ Extended(s, r, n, x)
  OBVIOUS
<1>2. AtWork(b, r, w, i, o)
  BY <1>0, <1>1 DEF Work
<1>3. \A z \in DOMAIN c : Awaited(c[z], w, i, o)
  BY <1>0, <1>2 DEF Rest, AtWork
<1>4. \A z \in DOMAIN s : (z \in DOMAIN r /\ s[z] = r[z]) \/ (z = n /\ s[z] = x)
  BY <1>1 DEF Extended
<1>5. \A z \in DOMAIN s : Awaited(s[z].call, w, i, o)
  BY <1>0, <1>2, <1>4 DEF AtWork
<1>a. /\ \A z, u \in DOMAIN b : b[z] = b[u] => z = u
      /\ \A z, u \in DOMAIN r : r[z].call = r[u].call => z = u
      /\ \A z \in DOMAIN b, u \in DOMAIN r : b[z] # r[u].call
  BY <1>2 DEF AtWork
<1>b. \A z \in DOMAIN c : After(z) \in DOMAIN b /\ After(z) # 1 /\ c[z] = b[After(z)]
  BY <1>0 DEF Rest
<1>6. ASSUME NEW z \in DOMAIN c, NEW u \in DOMAIN c, c[z] = c[u] PROVE z = u
  <2>1. After(z) \in DOMAIN b /\ c[z] = b[After(z)] /\ After(u) \in DOMAIN b /\ c[u] = b[After(u)]
    BY <1>b
  <2>2. b[After(z)] = b[After(u)]
    BY <1>6, <2>1
  <2>3. After(z) = After(u)
    BY <1>a, <2>1, <2>2
  <2> QED BY <1>0, <2>3 DEF Rest
<1>7. ASSUME NEW z \in DOMAIN s, NEW u \in DOMAIN s, s[z].call = s[u].call PROVE z = u
  <2>1. CASE z \in DOMAIN r /\ s[z] = r[z]
    <3>1. CASE u \in DOMAIN r /\ s[u] = r[u]
      BY <1>7, <1>a, <2>1, <3>1
    <3>2. CASE u = n /\ s[u] = x
      <4>1. b[1] = r[z].call
        BY <1>0, <1>7, <2>1, <3>2
      <4> QED BY <1>0, <1>a, <2>1, <4>1
    <3> QED BY <1>4, <3>1, <3>2
  <2>2. CASE z = n /\ s[z] = x
    <3>1. CASE u \in DOMAIN r /\ s[u] = r[u]
      <4>1. b[1] = r[u].call
        BY <1>0, <1>7, <2>2, <3>1
      <4> QED BY <1>0, <1>a, <3>1, <4>1
    <3>2. CASE u = n /\ s[u] = x
      BY <2>2, <3>2
    <3> QED BY <1>4, <3>1, <3>2
  <2> QED BY <1>4, <2>1, <2>2
<1>8. ASSUME NEW z \in DOMAIN c, NEW u \in DOMAIN s PROVE c[z] # s[u].call
  <2>1. After(z) \in DOMAIN b /\ After(z) # 1 /\ c[z] = b[After(z)]
    BY <1>b
  <2>2. CASE u \in DOMAIN r /\ s[u] = r[u]
    BY <1>a, <2>1, <2>2
  <2>3. CASE u = n /\ s[u] = x
    BY <1>0, <1>a, <2>1, <2>3
  <2> QED BY <1>4, <2>2, <2>3
<1>9. AtWork(c, s, w, i, o)
  BY <1>3, <1>5, <1>6, <1>7, <1>8 DEF AtWork
<1>10. f # NoCallEvent => AsksFor(s, f)
  <2>1. ASSUME f = x.call, x.asks PROVE AsksFor(s, f)
    BY <1>1, <2>1 DEF AsksFor, Extended
  <2>2. ASSUME NEW g, AsksFor(r, g) PROVE AsksFor(s, g)
    BY <1>1, <2>2 DEF AsksFor, Extended
  <2> QED BY <1>1, <2>1, <2>2 DEF Work
<1> QED BY <1>9, <1>10 DEF Work

\* The first result is reported.
LEMMA WorkReports ==
  ASSUME NEW a, NEW w, NEW i, NEW o, NEW ev, NEW due, Work(a, w, i, o, ev, due), 1 \in DOMAIN a.results,
         ~a.results[1].asks, DOMAIN a.batch = {},
         NEW s, Dropped(s, a.results), NEW v, NEW n, NEW x, Extended(v, w, n, x), x.k = "tool_result", x.c = a.results[1].call,
         NEW y, y.made = a.made, y.batch = a.batch, y.results = s
  PROVE  Work(y, v, i, o, ev, due)
<1>1. PICK r : r = a.results /\ Dropped(s, r) /\ 1 \in DOMAIN r /\ x.c = r[1].call /\ ~r[1].asks
  OBVIOUS
<1>2. AtWork(a.batch, r, w, i, o)
  BY <1>1 DEF Work
<1>3. Awaited(x.c, w, i, o)
  BY <1>1, <1>2 DEF AtWork
<1>4. Queued(v, a.made, i, o) /\ \A c : Awaited(c, w, i, o) /\ c # x.c => Awaited(c, v, i, o)
  BY <1>3, PutsResult DEF Work
<1>5. \A z \in DOMAIN s : After(z) \in DOMAIN r /\ After(z) # 1 /\ s[z] = r[After(z)]
  BY <1>1 DEF Dropped
<1>6. \A z, u \in DOMAIN s : After(z) = After(u) => z = u
  BY <1>1 DEF Dropped
<1>a. /\ \A z \in DOMAIN r : Awaited(r[z].call, w, i, o)
      /\ \A z, u \in DOMAIN r : r[z].call = r[u].call => z = u
  BY <1>2 DEF AtWork
<1>7. ASSUME NEW z \in DOMAIN s PROVE Awaited(s[z].call, v, i, o)
  <2>1. After(z) \in DOMAIN r /\ After(z) # 1 /\ s[z] = r[After(z)]
    BY <1>5
  <2>2. r[After(z)].call # x.c
    BY <1>1, <1>a, <2>1
  <2> QED BY <1>4, <1>a, <2>1, <2>2
<1>8. ASSUME NEW z \in DOMAIN s, NEW u \in DOMAIN s, s[z].call = s[u].call PROVE z = u
  <2>1. After(z) \in DOMAIN r /\ s[z] = r[After(z)] /\ After(u) \in DOMAIN r /\ s[u] = r[After(u)]
    BY <1>5
  <2>2. r[After(z)].call = r[After(u)].call
    BY <1>8, <2>1
  <2>3. After(z) = After(u)
    BY <1>a, <2>1, <2>2
  <2> QED BY <1>6, <2>3
<1>9. AtWork(a.batch, s, v, i, o)
  BY <1>7, <1>8 DEF AtWork
<1>10. ASSUME NEW g, AsksFor(r, g) PROVE AsksFor(s, g)
  <2>1. PICK z \in DOMAIN r : r[z].asks /\ r[z].call = g
    BY <1>10 DEF AsksFor
  <2>2. PICK u \in DOMAIN s : z = After(u)
    BY <1>1, <2>1 DEF Dropped
  <2>3. s[u] = r[z]
    BY <1>5, <2>2
  <2> QED BY <2>1, <2>2, <2>3 DEF AsksFor
<1> QED BY <1>1, <1>4, <1>9, <1>10 DEF Work

\* The generator takes an item.
LEMMA WorkTakes ==
  ASSUME NEW a, NEW w, NEW i, NEW o, NEW ev, NEW due, Work(a, w, i, o, ev, due), NEW v, Dropped(v, w), Other(w[1])
  PROVE  Work(a, v, i, o, ev, due)
<1>1. Queued(v, a.made, i, o) /\ \A c : Awaited(c, w, i, o) => Awaited(c, v, i, o)
  BY TakesOther DEF Work
<1>2. AtWork(a.batch, a.results, v, i, o)
  BY <1>1, WorkGoesOn DEF Work
<1> QED BY <1>1, <1>2 DEF Work

AfterCall(c, a, v, i, j, o, ev, due) == c \notin i /\ Work(a, v, j, o, ev, due + 1)

AfterResult(c, a, v, i, o, p, ev, due) ==
  c \in i /\ c \notin o /\ due \in Nat /\ due > 0 /\ Work(a, v, i, p, ev, due - 1)

-----------------------------------------------------------------------------
(* The steps of the agent and of the heartbeat *)

Early == {"new", "message", "open"}

\* The generator is where it was, and has told what it had told.
LEMMA OthersMove ==
  ASSUME StreamInv, UNCHANGED <<route, sse, resultsDue, terminal, paused, leased, cut>>, StreamTypes', route \notin Early,
         route \in Streaming =>
           /\ Work(agentTask', tokens', sse.inputs, sse.client.outputs, approvalEvent', resultsDue)
           /\ Asks(agentTask'.results) \/ HasItem(tokens', {"waiting"}) => Waits',
         Closing',
         \/ row' = row
         \/ row = "running" /\ row' = "awaiting_user"
         \/ row = "awaiting_user" /\ row' = "cancelled" /\ cancelRequested',
         cancelRequested => cancelRequested',
         fenceLost' => ~CurrentLease', ~CurrentLease => ~CurrentLease', storeFaults > 0 => storeFaults' > 0,
         agentTask.at = "silent" => agentTask'.at = "silent"
  PROVE  StreamInv'
<1>1. Before'
  BY DEF Before, Early
<1>2. Telling'
  BY DEF StreamInv, Telling, Told, IsSse, SseOf
<1>3. Working'
  BY DEF Working
<1>4. Ends'
  BY DEF StreamInv, Ends, IsSse, SseOf
<1> QED BY <1>1, <1>2, <1>3, <1>4 DEF StreamInv

LEMMA AgentStarted ==
  ASSUME StreamInv, agentTask.at # "off"
  PROVE  route \notin Early
BY DEF StreamInv, Before, Early

\* One more item, neither a call nor a result, while the agent works or stops.
LEMMA PutsAnother ==
  ASSUME StreamInv, route \notin Early, NEW k \in Kinds, k \notin {"tool_call", "tool_result"},
         tokens' = Append(tokens, Item(k, NoCallEvent)),
         UNCHANGED <<route, row, approvalEvent, sse, resultsDue, terminal, paused, leased, cut, cancelRequested>>,
         IsAgent(agentTask'), agentTask'.made = agentTask.made, agentTask'.batch = agentTask.batch,
         agentTask'.results = agentTask.results, agentTask'.at = "tools" => agentTask.at = "tools",
         agentTask'.at = "over" => agentTask.at = "over" \/ k \in LastItems,
         agentTask.at \in {"over", "silent"} => agentTask'.at = agentTask.at,
         k = "waiting" => Asks(agentTask.results),
         storeFaults' \in Nat, storeFaults > 0 => storeFaults' > 0, ~CurrentLease => ~CurrentLease',
         fenceLost' => ~CurrentLease' /\ (fenceLost \/ k = "error")
  PROVE  StreamInv'
<1>1. StreamTypes
  BY DEF StreamInv
<1>2. Item(k, NoCallEvent) \in Items
  <2>1. NoCallEvent \in Nat
    BY SMT DEF NoCallEvent
  <2> QED BY <2>1, ItemIn
<1>3. PICK x : x = Item(k, NoCallEvent)
  OBVIOUS
<1>4. x.k = k
  BY <1>3, ItemFields
<1>5. tokens \in Seq(Items)
  BY <1>1 DEF StreamTypes
<1>6. tokens' \in Seq(Items) /\ \E n : Extended(tokens', tokens, n, x)
  BY <1>2, <1>3, <1>5, Appended
<1>7. PICK n : Extended(tokens', tokens, n, x)
  BY <1>6
<1>8. StreamTypes'
  BY <1>1, <1>6 DEF StreamTypes
<1>9. Other(x)
  BY <1>4 DEF Other
<1>10. \A K : HasItem(tokens', K) <=> HasItem(tokens, K) \/ k \in K
  BY <1>4, <1>7, ItemPut
<1>11. ASSUME route \in Streaming
       PROVE  /\ Work(agentTask', tokens', sse.inputs, sse.client.outputs, approvalEvent', resultsDue)
              /\ Asks(agentTask'.results) \/ HasItem(tokens', {"waiting"}) => Waits'
  <2>1. /\ Work(agentTask, tokens, sse.inputs, sse.client.outputs, approvalEvent, resultsDue)
        /\ Asks(agentTask.results) \/ HasItem(tokens, {"waiting"}) => Waits
    BY <1>11 DEF StreamInv, Working
  <2>2. Work(agentTask', tokens', sse.inputs, sse.client.outputs, approvalEvent, resultsDue)
    BY <1>7, <1>9, <2>1, WorkPuts
  <2> QED BY <1>10, <2>1, <2>2
<1>12. Closing'
  <2>1. route \in Consuming =>
          /\ agentTask.at = "over" => HasItem(tokens, LastItems)
          /\ fenceLost => HasItem(tokens, {"error"})
          /\ route = "recheck" => agentTask.at \in {"over", "silent"}
    BY DEF StreamInv, Closing
  <2> QED BY <1>10, <2>1 DEF Closing
<1> QED BY <1>1, <1>8, <1>11, <1>12, OthersMove

LEMMA Writes ==
  ASSUME StreamInv, NEW k \in {"token", "reasoning"}, agent_writes(k)
  PROVE  StreamInv'
<1>1. /\ agentTask.at = "model" /\ tokens' = Append(tokens, Item(k, NoCallEvent)) /\ agentTask' = agentTask
      /\ UNCHANGED <<route, row, approvalEvent, sse, resultsDue, taken, cancelRequested, fenceLost, terminal, paused, beating,
                     leased, cut, storeFaults>>
  BY DEF agent_writes, Puts, flagVars
<1>2. StreamTypes /\ Ends
  BY DEF StreamInv
<1>3. k \in Kinds /\ k \notin {"tool_call", "tool_result"} /\ k # "waiting"
  BY DEF Kinds
<1>4. IsAgent(agentTask) /\ storeFaults \in Nat /\ (fenceLost => ~CurrentLease)
  BY <1>2 DEF StreamTypes, Ends
<1> QED BY <1>1, <1>3, <1>4, AgentStarted, PutsAnother

LEMMA AgentEnds ==
  ASSUME StreamInv, NEW k \in {"done", "error", "silent"}, agent_ends(k)
  PROVE  StreamInv'
<1>1. StreamTypes /\ Ends
  BY DEF StreamInv
<1>2. IsAgent(agentTask) /\ storeFaults \in Nat /\ (fenceLost => ~CurrentLease) /\ agentTask.at \in {"model", "tools"}
  BY <1>1 DEF StreamTypes, Ends, agent_ends
<1>3. CASE k = "silent"
  <2>1. agentTask' = SetAt(agentTask, "silent")
    BY <1>3 DEF agent_ends, SetAt
  <2>2. /\ IsAgent(agentTask') /\ agentTask'.at = "silent" /\ agentTask'.made = agentTask.made
        /\ agentTask'.batch = agentTask.batch /\ agentTask'.results = agentTask.results
    BY SMT, <1>2, <2>1, AgentAt
  <2>3. UNCHANGED <<route, row, tokens, approvalEvent, sse, resultsDue, taken, cancelRequested, fenceLost, terminal, paused, beating,
                    leased, cut, storeFaults>>
    BY <1>3 DEF agent_ends, flagVars
  <2>4. StreamTypes' /\ route \notin Early
    BY <1>1, <1>2, <2>2, <2>3, AgentStarted DEF StreamTypes
  <2>5. ASSUME route \in Streaming
        PROVE  /\ Work(agentTask', tokens', sse.inputs, sse.client.outputs, approvalEvent', resultsDue)
               /\ Asks(agentTask'.results) \/ HasItem(tokens', {"waiting"}) => Waits'
    BY <2>2, <2>3, <2>5 DEF StreamInv, Working, Work
  <2>6. Closing'
    BY <1>2, <2>2, <2>3 DEF StreamInv, Closing
  <2> QED BY <1>2, <2>2, <2>3, <2>4, <2>5, <2>6, OthersMove
<1>4. CASE k # "silent"
  <2>1. /\ agentTask' = SetAt(agentTask, "over") /\ tokens' = Append(tokens, Item(k, NoCallEvent))
        /\ UNCHANGED <<route, row, approvalEvent, sse, resultsDue, taken, cancelRequested, fenceLost, terminal, paused, beating,
                       leased, cut, storeFaults>>
    BY <1>4 DEF agent_ends, Puts, flagVars, SetAt
  <2>2. /\ IsAgent(agentTask') /\ agentTask'.at = "over" /\ agentTask'.made = agentTask.made
        /\ agentTask'.batch = agentTask.batch /\ agentTask'.results = agentTask.results
    BY SMT, <1>2, <2>1, AgentAt
  <2>3. k \in Kinds /\ k \notin {"tool_call", "tool_result"} /\ k # "waiting" /\ k \in LastItems
    BY <1>4 DEF Kinds, LastItems
  <2> QED BY <1>2, <2>1, <2>2, <2>3, AgentStarted, PutsAnother
<1> QED BY <1>3, <1>4

\* What is left of a batch that is executed, and the result.
LEMMA RestOf ==
  ASSUME NEW b \in Seq(Nat), b # <<>>, NEW asks \in BOOLEAN, NEW c, c = IF asks THEN <<>> ELSE Tail(b),
         NEW x, x = [call |-> Head(b), asks |-> asks]
  PROVE  /\ c \in Seq(Nat) /\ Rest(c, b) /\ 1 \in DOMAIN b /\ Head(b) = b[1] /\ b[1] \in Nat
         /\ x \in [call : Nat, asks : BOOLEAN] /\ x.call = b[1] /\ x.asks = asks
<1>1. PICK v : v = Tail(b)
  OBVIOUS
<1>2. v \in Seq(Nat) /\ Dropped(v, b) /\ Head(b) = b[1] /\ b[1] \in Nat
  BY <1>1, TailDropped
<1>3. 1 \in DOMAIN b /\ Rest(v, b)
  BY <1>2 DEF Dropped, Rest
<1>4. <<>> \in Seq(Nat) /\ DOMAIN <<>> = {}
  BY SMT
<1>5. Rest(<<>>, b)
  BY <1>4 DEF Rest
<1>6. c \in Seq(Nat) /\ Rest(c, b)
  BY <1>1, <1>2, <1>3, <1>4, <1>5
<1>7. x.call = Head(b) /\ x.asks = asks /\ x \in [call : Nat, asks : BOOLEAN]
  BY SMT, <1>2
<1> QED BY <1>2, <1>3, <1>6, <1>7

Results == [call : Nat, asks : BOOLEAN]

LEMMA Executes ==
  ASSUME StreamInv, NEW asks \in BOOLEAN, agent_executes(asks)
  PROVE  StreamInv'
<1>1. PICK b : b = agentTask.batch
  OBVIOUS
<1>2. PICK c : c = IF asks THEN <<>> ELSE Tail(b)
  OBVIOUS
<1>3. PICK x : x = [call |-> Head(b), asks |-> asks]
  OBVIOUS
<1>4. /\ agentTask.at = "tools" /\ b # <<>> /\ agentTask' = WithResult(agentTask, c, x)
      /\ asks => row = "running" /\ row' = "awaiting_user" /\ approvalEvent' = Head(b)
      /\ ~asks => UNCHANGED <<row, approvalEvent>>
      /\ UNCHANGED <<route, tokens, sse, resultsDue, taken, cancelRequested, fenceLost, terminal, paused, beating, leased, cut,
                     storeFaults>>
  BY <1>1, <1>2, <1>3 DEF agent_executes, WithResult, flagVars
<1>5. StreamTypes /\ Ends
  BY DEF StreamInv
<1>6. /\ IsAgent(agentTask) /\ storeFaults \in Nat /\ (fenceLost => ~CurrentLease)
      /\ b \in Seq(Nat) /\ agentTask.results \in Seq(Results)
  BY <1>1, <1>5 DEF StreamTypes, Ends, Results
<1>7. /\ c \in Seq(Nat) /\ Rest(c, b) /\ 1 \in DOMAIN b /\ Head(b) = b[1]
      /\ x \in Results /\ x.call = b[1] /\ x.asks = asks
  BY <1>2, <1>3, <1>4, <1>6, RestOf DEF Results
<1>8. PICK s : s = Append(agentTask.results, x)
  OBVIOUS
<1>9. s \in Seq(Results) /\ \E n : Extended(s, agentTask.results, n, x)
  BY <1>6, <1>7, <1>8, Appended
<1>10. PICK n : Extended(s, agentTask.results, n, x)
  BY <1>9
<1>11. /\ IsAgent(agentTask') /\ agentTask'.at = agentTask.at /\ agentTask'.made = agentTask.made
       /\ agentTask'.batch = c /\ agentTask'.results = s
  <2>1. /\ IsAgent(agentTask') /\ agentTask'.at = agentTask.at /\ agentTask'.made = agentTask.made
        /\ agentTask'.batch = c /\ agentTask'.results = Append(agentTask.results, x)
    BY SMT, <1>4, <1>6, AgentExecutes
  <2> QED BY <1>8, <2>1
<1>12. s # <<>>
  BY SMT, <1>6, <1>7, <1>8
<1>13. StreamTypes' /\ route \notin Early
  BY <1>4, <1>5, <1>7, <1>9, <1>11, <1>12, AgentStarted DEF StreamTypes, Results
<1>14. ASSUME route \in Streaming
       PROVE  /\ Work(agentTask', tokens', sse.inputs, sse.client.outputs, approvalEvent', resultsDue)
              /\ Asks(agentTask'.results) \/ HasItem(tokens', {"waiting"}) => Waits'
  <2>1. PICK i, o : i = sse.inputs /\ o = sse.client.outputs
    OBVIOUS
  <2>2. /\ Work(agentTask, tokens, i, o, approvalEvent, resultsDue)
        /\ Asks(agentTask.results) \/ HasItem(tokens, {"waiting"}) => Waits
    BY <1>14, <2>1 DEF StreamInv, Working
  <2>3. approvalEvent' = approvalEvent \/ (approvalEvent' = x.call /\ x.asks)
    BY <1>4, <1>7
  <2>4. 1 \in DOMAIN agentTask.batch /\ Rest(c, agentTask.batch) /\ x.call = agentTask.batch[1]
    BY <1>1, <1>7
  <2>5. Work(agentTask', tokens, i, o, approvalEvent', resultsDue)
    BY <1>10, <1>11, <1>12, <2>2, <2>3, <2>4, WorkExecutes
  <2>6. Asks(agentTask'.results) => Asks(agentTask.results) \/ asks
    BY <1>7, <1>10, <1>11 DEF Extended, Asks
  <2> QED BY <1>4, <2>1, <2>2, <2>5, <2>6
<1>15. Closing'
  BY <1>4, <1>11 DEF StreamInv, Closing
<1> QED BY <1>4, <1>6, <1>11, <1>13, <1>14, <1>15, OthersMove

\* A result at the head of those to be reported.
LEMMA ReportOf ==
  ASSUME NEW r \in Seq(Results), r # <<>>, NEW s, s = Tail(r)
  PROVE  /\ s \in Seq(Results) /\ Dropped(s, r) /\ Head(r) = r[1] /\ 1 \in DOMAIN r
         /\ r[1].call \in Nat /\ (Len(r) # 1 => s # <<>>)
<1>1. s \in Seq(Results) /\ Dropped(s, r) /\ Head(r) = r[1] /\ r[1] \in Results
  BY TailDropped
<1>2. r[1].call \in Nat
  BY SMT, <1>1 DEF Results
<1>3. Len(r) # 1 => s # <<>>
  <2>1. Len(r) \in Nat \ {0} /\ Len(s) = Len(r) - 1
    BY SMT
  <2>2. Len(<<>>) = 0
    BY SMT
  <2>3. PICK l : l = Len(r)
    OBVIOUS
  <2>4. l \in Nat /\ l # 0 /\ (s = <<>> => l - 1 = 0)
    BY <2>1, <2>2, <2>3
  <2>5. s = <<>> => l = 1
    BY SMT, <2>4
  <2> QED BY <2>3, <2>5
<1> QED BY <1>1, <1>2, <1>3 DEF Dropped

LEMMA Reports ==
  ASSUME StreamInv, agent_reports
  PROVE  StreamInv'
<1>1. PICK r : r = agentTask.results
  OBVIOUS
<1>2. agentTask.at = "tools" /\ agentTask.batch = <<>>
  BY DEF agent_reports
<1>3. StreamTypes /\ Ends
  BY DEF StreamInv
<1>4. /\ IsAgent(agentTask) /\ storeFaults \in Nat /\ (fenceLost => ~CurrentLease)
      /\ r \in Seq(Results) /\ tokens \in Seq(Items)
  BY <1>1, <1>3 DEF StreamTypes, Ends, Results
<1>5. route \notin Early
  BY <1>2, AgentStarted
<1>6. CASE Head(r).asks
  <2>1. /\ agentTask' = SetAt(agentTask, "over") /\ tokens' = Append(tokens, Item("waiting", NoCallEvent))
        /\ UNCHANGED <<route, row, approvalEvent, sse, resultsDue, taken, cancelRequested, fenceLost, terminal, paused, beating,
                       leased, cut, storeFaults>>
    BY <1>1, <1>6 DEF agent_reports, Puts, flagVars, SetAt
  <2>2. /\ IsAgent(agentTask') /\ agentTask'.at = "over" /\ agentTask'.made = agentTask.made
        /\ agentTask'.batch = agentTask.batch /\ agentTask'.results = agentTask.results
    BY SMT, <1>4, <2>1, AgentAt
  <2>3. PICK k : k = "waiting"
    OBVIOUS
  <2>4. k \in Kinds /\ k \notin {"tool_call", "tool_result"} /\ k \in LastItems
    BY <2>3 DEF Kinds, LastItems
  <2>5. Asks(agentTask.results)
    <3>1. r # <<>>
      BY <1>1, <1>2, <1>3 DEF StreamTypes
    <3>2. Head(r) = r[1] /\ 1 \in DOMAIN r
      BY <1>4, <3>1, ReportOf
    <3> QED BY <1>1, <1>6, <3>2 DEF Asks
  <2> QED BY <1>2, <1>4, <1>5, <2>1, <2>2, <2>3, <2>4, <2>5, PutsAnother
<1>7. CASE ~Head(r).asks
  <2>1. PICK s, c, at : s = Tail(r) /\ c = Head(r).call /\ at = IF Len(r) = 1 THEN "model" ELSE "tools"
    OBVIOUS
  <2>2. /\ agentTask' = WithReport(agentTask, at, s) /\ tokens' = Append(tokens, Item("tool_result", c))
        /\ UNCHANGED <<route, row, approvalEvent, sse, resultsDue, taken, cancelRequested, fenceLost, terminal, paused, beating,
                       leased, cut, storeFaults>>
    BY <1>1, <1>7, <2>1 DEF agent_reports, Puts, flagVars, WithReport
  <2>3. r # <<>>
    BY <1>1, <1>2, <1>3 DEF StreamTypes
  <2>4. /\ s \in Seq(Results) /\ Dropped(s, r) /\ Head(r) = r[1] /\ 1 \in DOMAIN r
        /\ r[1].call \in Nat /\ (at = "tools" => s # <<>>)
    BY <1>4, <2>1, <2>3, ReportOf
  <2>5. /\ IsAgent(agentTask') /\ agentTask'.at = at /\ agentTask'.made = agentTask.made
        /\ agentTask'.batch = agentTask.batch /\ agentTask'.results = s
    BY SMT, <1>4, <2>2, AgentReports
  <2>6. PICK x : x = Item("tool_result", c)
    OBVIOUS
  <2>7. x.k = "tool_result" /\ x.c = r[1].call /\ x.c \in Nat
    <3>1. x.k = "tool_result" /\ x.c = c
      BY <2>6, ItemFields
    <3> QED BY <2>1, <2>4, <3>1
  <2>8. x \in Items
    <3>1. "tool_result" \in Kinds /\ c \in Nat
      BY <2>1, <2>4 DEF Kinds
    <3> QED BY <2>6, <3>1, ItemIn
  <2>9. tokens' \in Seq(Items) /\ \E n : Extended(tokens', tokens, n, x)
    BY <1>4, <2>2, <2>6, <2>8, Appended
  <2>10. PICK n : Extended(tokens', tokens, n, x)
    BY <2>9
  <2>11. StreamTypes'
    BY <1>3, <2>2, <2>4, <2>5, <2>9 DEF StreamTypes, Results
  <2>12. \A K : HasItem(tokens', K) <=> HasItem(tokens, K) \/ x.k \in K
    BY <2>10, ItemPut
  <2>13. ASSUME route \in Streaming
         PROVE  /\ Work(agentTask', tokens', sse.inputs, sse.client.outputs, approvalEvent', resultsDue)
                /\ Asks(agentTask'.results) \/ HasItem(tokens', {"waiting"}) => Waits'
    <3>1. PICK i, o : i = sse.inputs /\ o = sse.client.outputs
      OBVIOUS
    <3>2. /\ Work(agentTask, tokens, i, o, approvalEvent, resultsDue)
          /\ Asks(agentTask.results) \/ HasItem(tokens, {"waiting"}) => Waits
      BY <2>13, <3>1 DEF StreamInv, Working
    <3>3. 1 \in DOMAIN agentTask.results /\ ~agentTask.results[1].asks /\ Dropped(s, agentTask.results)
          /\ x.c = agentTask.results[1].call
      BY <1>1, <1>7, <2>4, <2>7
    <3>4. DOMAIN agentTask.batch = {}
      <4>1. DOMAIN <<>> = {}
        BY SMT
      <4> QED BY <1>2, <4>1
    <3>5. Work(agentTask', tokens', i, o, approvalEvent, resultsDue)
      BY <2>5, <2>7, <2>10, <3>2, <3>3, <3>4, WorkReports
    <3>6. Asks(agentTask'.results) => Asks(agentTask.results)
      BY <2>5, <3>3 DEF Dropped, Asks
    <3> QED BY <2>2, <2>7, <2>12, <3>1, <3>2, <3>5, <3>6
  <2>14. Closing'
    <3>1. agentTask'.at \in {"model", "tools"}
      BY <2>1, <2>5
    <3> QED BY <1>2, <2>2, <2>12, <3>1 DEF StreamInv, Closing
  <2> QED BY <1>2, <1>4, <1>5, <2>2, <2>5, <2>11, <2>13, <2>14, OthersMove
<1> QED BY <1>6, <1>7

LEMMA LosesLease ==
  ASSUME StreamInv, lose_lease
  PROVE  StreamInv'
<1>1. route \notin Early
  BY DEF lose_lease, Early, Streaming, Consuming, Recording
<1>2. UNCHANGED <<route, row, agentTask, tokens, approvalEvent, sse, resultsDue, fenceLost, terminal,
                  paused, beating, leased, cut, storeFaults, cancelRequested>> /\ taken'
  BY DEF lose_lease, agentVars
<1>3. StreamTypes' /\ Closing'
  BY <1>2 DEF StreamInv, StreamTypes, Closing
<1>4. Working
  BY DEF StreamInv
<1> QED BY <1>1, <1>2, <1>3, <1>4, OthersMove DEF Working

LEMMA AsksCancellation ==
  ASSUME StreamInv, request_cancellation
  PROVE  StreamInv'
<1>1. /\ UNCHANGED <<route, agentTask, tokens, approvalEvent, sse, resultsDue, taken, fenceLost, terminal, paused, leased,
                     cut, storeFaults>>
      /\ cancelRequested' = TRUE
      /\ row' = row \/ (row = "awaiting_user" /\ row' = "cancelled")
  BY DEF request_cancellation, agentVars
<1>2. StreamTypes' /\ Closing'
  BY <1>1 DEF StreamInv, StreamTypes, Closing
<1>3. Working /\ Ends /\ Before
  BY DEF StreamInv
<1>4. CASE route \in Early
  <2>1. route = "open" /\ row' = row
    BY <1>1, <1>3, <1>4 DEF request_cancellation, Early, Streaming, Consuming, Recording, Before
  <2>2. Before'
    BY <1>1, <1>3, <2>1 DEF Before
  <2>3. route' \notin Streaming
    BY <1>1, <2>1 DEF Streaming, Consuming, Recording
  <2>4. Telling' /\ Working'
    BY <2>3 DEF Telling, Working
  <2>5. Ends'
    BY <1>1, <1>3, <2>1 DEF Ends
  <2> QED BY <1>2, <2>2, <2>4, <2>5 DEF StreamInv
<1>5. CASE route \notin Early
  <2>1. Waits => Waits'
    BY <1>1
  <2>2. route \in Streaming =>
          /\ Work(agentTask', tokens', sse.inputs, sse.client.outputs, approvalEvent', resultsDue)
          /\ Asks(agentTask'.results) \/ HasItem(tokens', {"waiting"}) => Waits'
    BY <1>1, <1>3, <2>1 DEF Working
  <2>3. /\ fenceLost' => ~CurrentLease'
        /\ ~CurrentLease => ~CurrentLease'
    BY <1>1
  <2> QED BY <1>1, <1>2, <1>5, <2>2, <2>3, OthersMove
<1> QED BY <1>4, <1>5

LEMMA Beats ==
  ASSUME StreamInv, heartbeat_run_lease
  PROVE  StreamInv'
<1>1. StreamTypes /\ Ends
  BY DEF StreamInv
<1>2. IsAgent(agentTask) /\ storeFaults \in Nat /\ (fenceLost => ~CurrentLease)
  BY <1>1 DEF StreamTypes, Ends
<1>3. /\ tokens' = Append(tokens, Item("error", NoCallEvent))
      /\ UNCHANGED <<route, row, approvalEvent, sse, resultsDue, taken, cancelRequested, terminal, paused, leased, cut>>
  BY DEF heartbeat_run_lease
<1>4. PICK k : k = "error"
  OBVIOUS
<1>5. k \in Kinds /\ k \notin {"tool_call", "tool_result"} /\ k # "waiting" /\ k \in LastItems
  BY <1>4 DEF Kinds, LastItems
<1>6. \/ ~CurrentLease /\ fenceLost' = TRUE /\ UNCHANGED storeFaults /\ agentTask' = Ended(agentTask)
      \/ storeFaults' = storeFaults + 1 /\ UNCHANGED <<agentTask, fenceLost>>
  BY DEF heartbeat_run_lease, StoreFails
<1>7. storeFaults' \in Nat /\ (storeFaults > 0 => storeFaults' > 0)
  <2>1. CASE UNCHANGED storeFaults
    BY <1>2, <2>1
  <2>2. CASE storeFaults' = storeFaults + 1
    BY SMT, <1>2, <2>2
  <2> QED BY <1>6, <2>1, <2>2
<1>8. /\ IsAgent(agentTask') /\ agentTask'.made = agentTask.made /\ agentTask'.batch = agentTask.batch
      /\ agentTask'.results = agentTask.results /\ (agentTask'.at = "tools" => agentTask.at = "tools")
      /\ agentTask.at \in {"over", "silent"} => agentTask'.at = agentTask.at
  <2>1. CASE agentTask' = agentTask
    BY <1>2, <2>1
  <2>2. CASE agentTask' = Ended(agentTask)
    BY <1>2, <2>2, AgentEnded DEF HasEnded
  <2> QED BY <1>6, <2>1, <2>2
<1>9. route \notin Early
  BY DEF heartbeat_run_lease, Early, Streaming, Consuming, Recording
<1>10. fenceLost' => ~CurrentLease' /\ (fenceLost \/ k = "error")
  BY <1>2, <1>3, <1>4, <1>6
<1> QED BY <1>3, <1>4, <1>5, <1>7, <1>8, <1>9, <1>10, PutsAnother

-----------------------------------------------------------------------------
(* The steps of the route before its stream *)

\* Once the stream is over, or about to be, only its end matters.
LEMMA NoMoreStream ==
  ASSUME route' \in {"ending", "raised", "over"}, StreamTypes', Ends'
  PROVE  StreamInv'
<1>1. Before'
  BY DEF Before
<1>2. route' \notin Streaming
  BY DEF Streaming, Consuming, Recording
<1>3. Telling' /\ Working' /\ Closing'
  BY <1>2 DEF Telling, Working, Closing, Streaming
<1> QED BY <1>1, <1>3 DEF StreamInv

\* What there is before the stream.
LEMMA EarlyState ==
  ASSUME StreamInv, route \in Early
  PROVE  /\ Fresh(sse) /\ sse.client.ok /\ sse.client.finish = "none"
         /\ ~terminal /\ ~paused /\ ~fenceLost /\ cut = "no" /\ storeFaults \in Nat
<1>1. /\ Fresh(sse) /\ ~terminal /\ ~paused /\ ~fenceLost /\ cut = "no" /\ storeFaults \in Nat
  BY DEF StreamInv, StreamTypes, Before, Early
<1> QED BY <1>1, FreshClient

\* A route that ends without a stream.
LEMMA EndsEarly ==
  ASSUME StreamInv, route \in Early, route' = "over", UNCHANGED <<sse, agentTask, tokens, terminal, paused, fenceLost>>,
         storeFaults' \in Nat, cut' = cut \/ cut' = "setup",
         cut' = "no" => ~leased' /\ (row' = "running" => ~CurrentLease' \/ storeFaults' > 0)
  PROVE  StreamInv'
<1>1. /\ sse.client.ok /\ sse.client.finish = "none"
      /\ ~terminal /\ ~paused /\ ~fenceLost /\ cut = "no" /\ storeFaults \in Nat
  BY EarlyState
<1>2. StreamTypes'
  BY DEF StreamInv, StreamTypes
<1>3. Ends'
  BY <1>1 DEF Ends
<1> QED BY <1>2, <1>3, NoMoreStream

LEMMA SetsUp ==
  ASSUME StreamInv, NEW ok \in BOOLEAN, chat_setup(ok)
  PROVE  StreamInv'
<1>1. /\ route = "new" /\ route' = IF ok THEN "message" ELSE "over"
      /\ UNCHANGED <<row, agentTask, tokens, approvalEvent, sse, resultsDue, taken, cancelRequested, fenceLost, terminal, paused,
                     beating, leased, cut, storeFaults>>
  BY DEF chat_setup, agentVars, flagVars
<1>2. row = "none" /\ ~leased /\ StreamTypes /\ route \in Early
  BY <1>1 DEF StreamInv, Before, Early
<1>3. CASE ok
  <2>1. StreamTypes' /\ Before' /\ Ends'
    BY <1>1, <1>3 DEF StreamInv, StreamTypes, Before, Ends
  <2>2. route' \notin Streaming
    BY <1>1, <1>3 DEF Streaming, Consuming, Recording
  <2>3. Telling' /\ Working' /\ Closing'
    BY <2>2 DEF Telling, Working, Closing, Streaming
  <2> QED BY <2>1, <2>3 DEF StreamInv
<1>4. CASE ~ok
  BY <1>1, <1>2, <1>4, EndsEarly DEF StreamTypes
<1> QED BY <1>3, <1>4

LEMMA PlansRoute ==
  ASSUME StreamInv, NEW how \in {"unavailable", "no_draft", "error", "proposed"}, plan_route(how)
  PROVE  StreamInv'
<1>1. /\ route = "message" /\ route' = "over"
      /\ UNCHANGED <<agentTask, tokens, approvalEvent, resultsDue, taken, cancelRequested, fenceLost, terminal, paused, beating, leased,
                     cut, storeFaults>>
  BY DEF plan_route, agentVars, flagVars
<1>2. row = "none" /\ ~leased /\ StreamTypes /\ route \in Early
  BY <1>1 DEF StreamInv, Before, Early
<1>3. /\ Fresh(sse) /\ sse.client.ok /\ sse.client.finish = "none"
      /\ ~terminal /\ ~paused /\ ~fenceLost /\ cut = "no" /\ storeFaults \in Nat
  BY <1>2, EarlyState
<1>4. row' # "running"
  BY <1>2 DEF plan_route
<1>5. PICK t : t = Yield(sse, "start", NoCallEvent)
  OBVIOUS
<1>6. Told(t, "none", {}, {}) /\ ~t.step
  BY <1>3, <1>5, Begins
<1>7. /\ IsSse(sse') /\ sse'.client.ok
      /\ sse'.client.finish = "tool-calls" => Waits'
      /\ sse'.client.finish = "stop" => sse'.client.failed
  <2>1. CASE how = "unavailable"
    <3>1. sse' = sse
      BY <2>1 DEF plan_route
    <3> QED BY <1>2, <1>3, <3>1 DEF StreamTypes
  <2>2. CASE how = "proposed"
    <3>1. sse' = Yield(t, "tool-calls", NoCallEvent) /\ row' = "awaiting_user"
      BY <1>5, <2>2 DEF plan_route
    <3>2. PICK k : k = "tool-calls"
      OBVIOUS
    <3>3. IsSse(sse') /\ sse'.client.ok /\ sse'.client.finish = k
      BY <1>6, <3>1, <3>2, Finishes
    <3> QED BY <3>1, <3>2, <3>3
  <2>3. CASE how \in {"no_draft", "error"}
    <3>1. sse' = Yield(Yield(t, "error", NoCallEvent), "stop", NoCallEvent)
      BY <1>5, <2>3 DEF plan_route
    <3>2. IsSse(sse') /\ sse'.client.ok /\ sse'.client.finish = "stop" /\ sse'.client.failed
      BY <1>6, <3>1, TellsFailure
    <3> QED BY <3>2
  <2> QED BY <2>1, <2>2, <2>3
<1>8. StreamTypes'
  BY <1>1, <1>2, <1>7 DEF StreamTypes
<1>9. Ends'
  BY <1>1, <1>2, <1>3, <1>4, <1>7 DEF Ends
<1> QED BY <1>1, <1>8, <1>9, NoMoreStream

LEMMA StartsDirect ==
  ASSUME StreamInv, start_direct
  PROVE  StreamInv'
<1>1. /\ route = "message" /\ route' = "open" /\ row' = "running"
      /\ UNCHANGED <<agentTask, tokens, approvalEvent, sse, resultsDue, taken, cancelRequested, fenceLost, terminal, paused, cut,
                     storeFaults>>
  BY DEF start_direct, agentVars
<1>2. StreamTypes' /\ Before'
  BY <1>1 DEF StreamInv, StreamTypes, Before
<1>3. route \in Early
  BY <1>1 DEF Early
<1>4. Ends'
  BY <1>1, <1>3, EarlyState DEF Ends
<1>5. route' \notin Streaming
  BY <1>1 DEF Streaming, Consuming, Recording
<1>6. Telling' /\ Working' /\ Closing'
  BY <1>5 DEF Telling, Working, Closing, Streaming
<1> QED BY <1>2, <1>4, <1>6 DEF StreamInv

\* One more fault of the database.
LEMMA Fault ==
  ASSUME storeFaults \in Nat, StoreFails
  PROVE  storeFaults' \in Nat /\ storeFaults' > 0
<1>1. storeFaults' = storeFaults + 1
  BY DEF StoreFails
<1> QED BY SMT, <1>1

LEMMA RefusesDirect ==
  ASSUME StreamInv, refuse_direct
  PROVE  StreamInv'
<1>1. /\ route = "message" /\ route' = "over"
      /\ UNCHANGED <<agentTask, tokens, sse, taken, cancelRequested, fenceLost, terminal, paused, leased, cut>>
  BY DEF refuse_direct, agentVars
<1>2. row = "none" /\ ~leased /\ StreamTypes /\ route \in Early
  BY <1>1 DEF StreamInv, Before, Early
<1>3. storeFaults \in Nat
  BY <1>2 DEF StreamTypes
<1>4. storeFaults' \in Nat /\ (row' = "running" => storeFaults' > 0)
  BY <1>2, <1>3, Fault DEF refuse_direct
<1> QED BY <1>1, <1>2, <1>4, EndsEarly

LEMMA SetupTimesOut ==
  ASSUME StreamInv, setup_timeout
  PROVE  StreamInv'
<1>1. /\ route = "message" /\ route' = "over" /\ cut' = "setup"
      /\ UNCHANGED <<agentTask, tokens, sse, fenceLost, terminal, paused, storeFaults>>
  BY DEF setup_timeout, agentVars
<1>2. route \in Early
  BY <1>1 DEF Early
<1>3. storeFaults \in Nat
  BY DEF StreamInv, StreamTypes
<1> QED BY <1>1, <1>2, <1>3, EndsEarly

\* The run's row after an attempt to record its end.
LEMMA Recorded ==
  ASSUME storeFaults \in Nat, NEW s, s # "running", TriesToRecord(s)
  PROVE  /\ storeFaults' \in Nat /\ (storeFaults > 0 => storeFaults' > 0)
         /\ row' = "running" => ~CurrentLease \/ storeFaults' > 0
         /\ row' # row => row' = s /\ CanRecord(s)
<1>1. CASE CanRecord(s) /\ row' = s /\ UNCHANGED storeFaults
  BY <1>1
<1>2. CASE ~CanRecord(s) /\ UNCHANGED <<row, storeFaults>>
  BY <1>2 DEF CanRecord
<1>3. CASE StoreFails /\ UNCHANGED row
  BY <1>3, Fault
<1> QED BY <1>1, <1>2, <1>3 DEF TriesToRecord

LEMMA NotStarted ==
  ASSUME StreamInv, not_started
  PROVE  StreamInv'
<1>1. /\ route = "open" /\ route' = "over" /\ leased' = FALSE /\ TriesToRecord("cancelled")
      /\ UNCHANGED <<agentTask, tokens, sse, taken, cancelRequested, fenceLost, terminal, paused, cut>>
  BY DEF not_started, agentVars
<1>2. route \in Early /\ storeFaults \in Nat
  BY <1>1 DEF StreamInv, StreamTypes, Early
<1>3. storeFaults' \in Nat /\ (row' = "running" => ~CurrentLease \/ storeFaults' > 0)
  BY <1>1, <1>2, Recorded
<1> QED BY <1>1, <1>2, <1>3, EndsEarly

-----------------------------------------------------------------------------
(* The steps of the generator *)

\* The event's call has no output, and is shown once the queue is empty.
LEMMA EventOpen ==
  ASSUME StreamInv, route \in Streaming
  PROVE  /\ approvalEvent \notin sse.client.outputs
         /\ tokens = <<>> => approvalEvent \in sse.inputs \cup {NoCallEvent}
<1>1. PICK i, o : i = sse.inputs /\ o = sse.client.outputs
  OBVIOUS
<1>2. Work(agentTask, tokens, i, o, approvalEvent, resultsDue)
  BY <1>1 DEF StreamInv, Working
<1>3. CASE approvalEvent = NoCallEvent
  <2>1. NoCallEvent \notin 1..agentTask.made
    BY SMT DEF NoCallEvent
  <2>2. o \subseteq 1..agentTask.made
    BY <1>2 DEF Work
  <2> QED BY <1>1, <1>3, <2>1, <2>2
<1>4. CASE approvalEvent # NoCallEvent
  <2>1. Awaited(approvalEvent, tokens, i, o)
    BY <1>2, <1>4 DEF Work, AtWork, AsksFor
  <2>2. DOMAIN <<>> = {}
    BY SMT
  <2> QED BY <1>1, <2>1, <2>2 DEF Awaited
<1> QED BY <1>3, <1>4

\* The last chunks.
LEMMA LastChunk ==
  ASSUME StreamInv, route \in Streaming, NEW k \in {"stop", "tool-calls"}, NEW y, y = Yield(ClosedUp(sse), k, NoCallEvent)
  PROVE  IsSse(y) /\ y.client.ok /\ y.client.finish = k /\ ~y.client.failed
<1>1. PICK m \in Modes : Told(sse, m, sse.inputs, sse.client.outputs) /\ (m # "none" => sse.step)
  BY DEF StreamInv, Telling
<1>2. PICK i, o : i = sse.inputs /\ o = sse.client.outputs
  OBVIOUS
<1>3. PICK t : t = ClosedUp(sse)
  OBVIOUS
<1>4. approvalEvent \notin o
  BY <1>2, EventOpen
<1>5. PICK j : Told(t, "none", j, o) /\ ~t.step
  BY <1>1, <1>2, <1>3, <1>4, ClosesUp
<1> QED BY <1>3, <1>5, Finishes

LEMMA LastError ==
  ASSUME StreamInv, route \in Streaming, NEW y, y = Yield(ClosedUp(sse), "error", NoCallEvent)
  PROVE  IsSse(y) /\ y.client.ok /\ y.client.finish = "none"
<1>1. PICK m \in Modes : Told(sse, m, sse.inputs, sse.client.outputs) /\ (m # "none" => sse.step)
  BY DEF StreamInv, Telling
<1>2. PICK i, o : i = sse.inputs /\ o = sse.client.outputs
  OBVIOUS
<1>3. PICK t : t = ClosedUp(sse)
  OBVIOUS
<1>4. approvalEvent \notin o
  BY <1>2, EventOpen
<1>5. PICK j : Told(t, "none", j, o) /\ ~t.step
  BY <1>1, <1>2, <1>3, <1>4, ClosesUp
<1>6. IsSse(t) /\ t.client.started = TRUE /\ t.client.finish = "none" /\ t.client.ok
  BY <1>5 DEF Told
<1> QED BY <1>3, <1>6, TellsError

\* While the stream goes on.
LEMMA InStream ==
  ASSUME StreamInv, route \in Streaming
  PROVE  /\ sse.client.started = TRUE /\ sse.client.finish = "none" /\ ~sse.client.failed /\ sse.client.ok
         /\ cut = "no" /\ ~terminal /\ ~paused /\ (fenceLost => ~CurrentLease) /\ StreamTypes
<1>1. PICK m \in Modes : Told(sse, m, sse.inputs, sse.client.outputs)
  BY DEF StreamInv, Telling
<1> QED BY <1>1 DEF StreamInv, Telling, Told, Ends

\* The stream goes on.
LEMMA GoesOn ==
  ASSUME StreamInv, route \in Streaming, route' \in Streaming, StreamTypes',
         UNCHANGED <<row, agentTask, taken, cancelRequested, fenceLost, terminal, leased, cut, storeFaults>>, ~paused',
         NEW m \in Modes, NEW i, NEW o, Told(sse', m, i, o), m # "none" => sse'.step, resultsDue' > 0 => sse'.step,
         Work(agentTask, tokens', i, o, approvalEvent', resultsDue'),
         HasItem(tokens', {"waiting"}) => HasItem(tokens, {"waiting"}), Closing'
  PROVE  StreamInv'
<1>1. cut = "no" /\ ~terminal /\ ~paused /\ (fenceLost => ~CurrentLease)
  BY InStream
<1>2. /\ sse'.inputs = i /\ sse'.client.outputs = o /\ sse'.client.ok /\ sse'.client.started = TRUE
      /\ sse'.client.finish = "none"
  BY DEF Told
<1>3. route' \notin {"new", "message", "open", "over", "raised"}
  BY DEF Streaming, Consuming, Recording
<1>4. Before'
  BY <1>3 DEF Before
<1>5. Telling'
  BY <1>1, <1>2 DEF Telling
<1>6. Working'
  BY <1>2 DEF StreamInv, Working
<1>7. Ends'
  BY <1>1, <1>2, <1>3 DEF Ends
<1> QED BY <1>4, <1>5, <1>6, <1>7 DEF StreamInv

\* The item at the head of the queue.
Taking == route = "items" /\ tokens # <<>> /\ tokens' = Tail(tokens)

LEMMA TakesItem ==
  ASSUME StreamInv, Taking
  PROVE  /\ tokens' \in Seq(Items) /\ Dropped(tokens', tokens) /\ Head(tokens) = tokens[1] /\ tokens[1].k \in Kinds
         /\ \A K : HasItem(tokens, K) <=> HasItem(tokens', K) \/ tokens[1].k \in K
<1>1. tokens \in Seq(Items) /\ tokens # <<>> /\ tokens' = Tail(tokens)
  BY DEF StreamInv, StreamTypes, Taking
<1>2. tokens' \in Seq(Items) /\ Dropped(tokens', tokens) /\ Head(tokens) = tokens[1] /\ tokens[1] \in Items
  BY <1>1, TailDropped
<1>3. PICK k \in Kinds, c \in Nat : tokens[1] = Item(k, c)
  <2>1. tokens[1] \in Items
    BY <1>2
  <2> QED BY SMT, <2>1 DEF Items
<1>4. tokens[1].k = k
  BY <1>3, ItemFields
<1>5. \A K : HasItem(tokens, K) <=> HasItem(tokens', K) \/ tokens[1].k \in K
  BY <1>2, ItemTaken
<1> QED BY <1>2, <1>3, <1>4, <1>5

\* It takes a delta, a call or a result; or an answer that it drops.
LEMMA TakesOn ==
  ASSUME StreamInv, Taking, route' = "items", tokens[1].k \notin LastItems \/ (tokens[1].k = "done" /\ fenceLost),
         UNCHANGED <<row, agentTask, taken, cancelRequested, fenceLost, terminal, leased, cut, storeFaults>>, ~paused',
         NEW m \in Modes, NEW i, NEW o, Told(sse', m, i, o), m # "none" => sse'.step, resultsDue' > 0 => sse'.step,
         Work(agentTask, tokens', i, o, approvalEvent', resultsDue')
  PROVE  StreamInv'
<1>1. route \in Streaming /\ route' \in Streaming
  BY DEF Taking, Streaming, Consuming
<1>2. tokens' \in Seq(Items) /\ \A K : HasItem(tokens, K) <=> HasItem(tokens', K) \/ tokens[1].k \in K
  BY TakesItem
<1>3. StreamTypes'
  <2>1. IsSse(sse')
    BY DEF Told
  <2> QED BY <1>2, <2>1 DEF StreamInv, StreamTypes
<1>4. Closing'
  <2>1. route \in Consuming
    BY DEF Taking, Consuming
  <2>2. (agentTask.at = "over" => HasItem(tokens, LastItems)) /\ (fenceLost => HasItem(tokens, {"error"}))
    BY <2>1 DEF StreamInv, Closing
  <2>3. HasItem(tokens', {"error"}) => HasItem(tokens', LastItems)
    BY DEF HasItem, LastItems
  <2>4. fenceLost => HasItem(tokens', {"error"})
    BY <1>2, <2>2 DEF LastItems
  <2>5. agentTask.at = "over" => HasItem(tokens', LastItems)
    BY <1>2, <2>2, <2>3, <2>4
  <2> QED BY <2>4, <2>5 DEF Closing
<1> QED BY <1>1, <1>2, <1>3, <1>4, GoesOn

\* What a step that takes an item does, for each kind of item.
Kept == UNCHANGED <<row, agentTask, taken, cancelRequested, fenceLost, terminal, leased, cut, storeFaults>>
OpenParts(m) == Told(sse, m, sse.inputs, sse.client.outputs) /\ (m # "none" => sse.step)

LEMMA Generator ==
  ASSUME StreamInv, route \in Streaming
  PROVE  /\ \E m \in Modes : OpenParts(m)
         /\ resultsDue > 0 => sse.step
         /\ Work(agentTask, tokens, sse.inputs, sse.client.outputs, approvalEvent, resultsDue)
         /\ Asks(agentTask.results) \/ HasItem(tokens, {"waiting"}) => Waits
BY DEF StreamInv, Telling, Working, OpenParts

\* Text, reasoning, or an answer that is dropped.
LEMMA TakesDelta ==
  ASSUME StreamInv, Taking, route' = "items", Kept, ~paused', UNCHANGED <<approvalEvent, resultsDue>>,
         NEW k, k = tokens[1].k,
         \/ k = "token" /\ sse' = text_item(sse)
         \/ k = "reasoning" /\ sse' = reasoning_item(sse)
         \/ k = "done" /\ fenceLost /\ sse' = sse
  PROVE  StreamInv'
<1>1. route \in Streaming
  BY DEF Taking, Streaming, Consuming
<1>2. PICK i, o : i = sse.inputs /\ o = sse.client.outputs
  OBVIOUS
<1>3. PICK m \in Modes : Told(sse, m, i, o) /\ (m # "none" => sse.step)
  BY <1>1, <1>2, Generator DEF OpenParts
<1>4. Work(agentTask, tokens, i, o, approvalEvent, resultsDue) /\ (resultsDue > 0 => sse.step)
  BY <1>1, <1>2, Generator
<1>5. Dropped(tokens', tokens)
  BY TakesItem
<1>6. Other(tokens[1]) /\ (k \notin LastItems \/ (k = "done" /\ fenceLost))
  BY DEF Other, LastItems
<1>7. Work(agentTask, tokens', i, o, approvalEvent', resultsDue')
  BY <1>4, <1>5, <1>6, WorkTakes
<1>8. \E n \in Modes : Told(sse', n, i, o) /\ (n # "none" => sse'.step) /\ (sse.step => sse'.step)
  <2>1. CASE sse' = text_item(sse)
    <3>1. Told(sse', "text", i, o) /\ sse'.step
      BY <1>3, <2>1, TellsText
    <3> QED BY <3>1 DEF Modes
  <2>2. CASE sse' = reasoning_item(sse)
    <3>1. Told(sse', "reasoning", i, o) /\ sse'.step
      BY <1>3, <2>2, TellsReasoning
    <3> QED BY <3>1 DEF Modes
  <2>3. CASE sse' = sse
    BY <1>3, <2>3
  <2> QED BY <2>1, <2>2, <2>3
<1>9. PICK n \in Modes : Told(sse', n, i, o) /\ (n # "none" => sse'.step) /\ (sse.step => sse'.step)
  BY <1>8
<1>10. resultsDue' > 0 => sse'.step
  BY <1>4, <1>9
<1> QED BY <1>6, <1>7, <1>9, <1>10, TakesOn DEF Kept

\* The answer, or an error: it is going to be recorded.
LEMMA TakesEnd ==
  ASSUME StreamInv, Taking, route' \in Recording, Kept, ~paused', UNCHANGED <<approvalEvent, resultsDue, sse>>,
         tokens[1].k \in {"done", "error"}
  PROVE  StreamInv'
<1>1. route \in Streaming /\ route' \in Streaming /\ route' \notin Consuming
  BY DEF Taking, Streaming, Consuming, Recording
<1>2. PICK i, o : i = sse.inputs /\ o = sse.client.outputs
  OBVIOUS
<1>3. PICK m \in Modes : Told(sse, m, i, o) /\ (m # "none" => sse.step)
  BY <1>1, <1>2, Generator DEF OpenParts
<1>4. Work(agentTask, tokens, i, o, approvalEvent, resultsDue) /\ (resultsDue > 0 => sse.step)
  BY <1>1, <1>2, Generator
<1>5. /\ tokens' \in Seq(Items) /\ Dropped(tokens', tokens)
      /\ \A K : HasItem(tokens, K) <=> HasItem(tokens', K) \/ tokens[1].k \in K
  BY TakesItem
<1>6. Other(tokens[1])
  BY DEF Other
<1>7. Work(agentTask, tokens', i, o, approvalEvent', resultsDue')
  BY <1>4, <1>5, <1>6, WorkTakes
<1>8. StreamTypes'
  BY <1>5 DEF StreamInv, StreamTypes, Kept
<1>9. Closing'
  BY <1>1 DEF Closing
<1>10. Told(sse', m, i, o) /\ (m # "none" => sse'.step) /\ (resultsDue' > 0 => sse'.step)
  BY <1>3, <1>4
<1>11. HasItem(tokens', {"waiting"}) => HasItem(tokens, {"waiting"})
  BY <1>5
<1> QED BY <1>1, <1>7, <1>8, <1>9, <1>10, <1>11, GoesOn DEF Kept

\* The stream of a run that waits, or of one that lost its fence.
LEMMA TakesLast ==
  ASSUME StreamInv, Taking, route' = "ending", Kept, NEW k, k = tokens[1].k, paused' = (k = "waiting"),
         \/ k = "waiting" /\ sse' = Yield(ClosedUp(sse), "tool-calls", NoCallEvent)
         \/ k = "error" /\ fenceLost /\ sse' = Yield(ClosedUp(sse), "error", NoCallEvent)
  PROVE  StreamInv'
<1>1. route \in Streaming
  BY DEF Taking, Streaming, Consuming
<1>2. /\ tokens' \in Seq(Items)
      /\ \A K : HasItem(tokens, K) <=> HasItem(tokens', K) \/ k \in K
  BY TakesItem
<1>3. cut = "no" /\ ~terminal /\ (fenceLost => ~CurrentLease) /\ StreamTypes
  BY <1>1, InStream
<1>4. /\ IsSse(sse') /\ sse'.client.ok
      /\ sse'.client.finish = "none" \/ (sse'.client.finish = "tool-calls" /\ paused')
  <2>1. CASE k = "waiting" /\ sse' = Yield(ClosedUp(sse), "tool-calls", NoCallEvent)
    <3>1. PICK z \in {"stop", "tool-calls"} : z = "tool-calls"
      OBVIOUS
    <3>2. IsSse(sse') /\ sse'.client.ok /\ sse'.client.finish = z
      BY <1>1, <2>1, <3>1, LastChunk
    <3> QED BY <2>1, <3>1, <3>2
  <2>2. CASE sse' = Yield(ClosedUp(sse), "error", NoCallEvent)
    BY <1>1, <2>2, LastError
  <2> QED BY <2>1, <2>2
<1>5. paused' => Waits
  BY <1>1, <1>2, Generator
<1>6. StreamTypes'
  BY <1>2, <1>3, <1>4 DEF StreamTypes, Kept
<1>7. Ends'
  BY <1>3, <1>4, <1>5 DEF Ends, Kept
<1> QED BY <1>6, <1>7, NoMoreStream

LEMMA LooksAround ==
  ASSUME StreamInv, look_around
  PROVE  StreamInv'
<1>1. /\ Kept /\ UNCHANGED <<tokens, resultsDue, paused>> /\ route \in Streaming /\ route \in Consuming
  BY DEF look_around, Kept, agentVars, flagVars, Streaming, Consuming
<1>2. /\ cut = "no" /\ ~terminal /\ ~paused /\ (fenceLost => ~CurrentLease) /\ StreamTypes /\ sse.client.ok
      /\ sse.client.finish = "none"
  BY <1>1, InStream
<1>3. PICK i, o : i = sse.inputs /\ o = sse.client.outputs
  OBVIOUS
<1>4. PICK m \in Modes : Told(sse, m, i, o) /\ (m # "none" => sse.step)
  BY <1>1, <1>3, Generator DEF OpenParts
<1>5. Work(agentTask, tokens, i, o, approvalEvent, resultsDue) /\ (resultsDue > 0 => sse.step)
  BY <1>1, <1>3, Generator
<1>6. CASE /\ route = "items" /\ tokens = <<>> /\ route' = "check"
           /\ sse' = drain_event_queue(sse) /\ approvalEvent' = NoCallEvent
  <2>1. approvalEvent \notin o /\ approvalEvent \in i \cup {NoCallEvent}
    BY <1>1, <1>3, <1>6, EventOpen
  <2>2. PICK n \in Modes : \E j :
          /\ Told(sse', n, j, o) /\ (n # "none" => sse'.step) /\ (sse.step => sse'.step)
          /\ approvalEvent \in i \cup {NoCallEvent} => j = i
    <3>1. Drained(sse', sse, i, o)
      BY <1>4, <1>6, <2>1, DrainsEvents
    <3> QED BY <3>1 DEF Drained
  <2>3. Told(sse', n, i, o) /\ (n # "none" => sse'.step) /\ (sse.step => sse'.step)
    BY <2>1, <2>2
  <2>4. Work(agentTask, tokens', i, o, approvalEvent', resultsDue')
    BY <1>1, <1>5, <1>6 DEF Work
  <2>5. StreamTypes'
    <3>1. IsSse(sse')
      BY <2>3 DEF Told
    <3> QED BY <1>1, <1>2, <3>1 DEF StreamTypes, Kept
  <2>6. Closing'
    BY <1>1, <1>6 DEF StreamInv, Closing, Kept
  <2>7. route' \in Streaming /\ ~paused' /\ (resultsDue' > 0 => sse'.step)
    BY <1>1, <1>2, <1>5, <1>6, <2>3 DEF Streaming, Consuming
  <2> QED BY <1>1, <2>3, <2>4, <2>5, <2>6, <2>7, GoesOn DEF Kept
<1>7. CASE /\ UNCHANGED <<sse, approvalEvent>>
           /\ \/ route = "check" /\ route' = IF agentTask.at \in {"over", "silent"} /\ tokens = <<>> THEN "recheck" ELSE "items"
              \/ route = "recheck" /\ tokens # <<>> /\ route' = "items"
  <2>1. Told(sse', m, i, o) /\ (m # "none" => sse'.step)
    BY <1>4, <1>7
  <2>2. Work(agentTask, tokens', i, o, approvalEvent', resultsDue')
    BY <1>1, <1>5, <1>7
  <2>3. StreamTypes'
    BY <1>1, <1>2, <1>7 DEF StreamTypes, Kept
  <2>4. Closing'
    BY <1>1, <1>7 DEF StreamInv, Closing, Kept
  <2>5. route' \in Streaming /\ ~paused' /\ (resultsDue' > 0 => sse'.step)
    BY <1>1, <1>2, <1>5, <1>7 DEF Streaming, Consuming
  <2> QED BY <1>1, <2>1, <2>2, <2>3, <2>4, <2>5, GoesOn DEF Kept
<1>8. CASE /\ route = "recheck" /\ tokens = <<>> /\ route' = "ending"
           /\ sse' = Yield(ClosedUp(sse), "stop", NoCallEvent)
  <2>1. PICK k \in {"stop", "tool-calls"} : k = "stop"
    OBVIOUS
  <2>2. IsSse(sse') /\ sse'.client.ok /\ sse'.client.finish = k
    BY <1>1, <1>8, <2>1, LastChunk
  <2>3. ~HasItem(tokens, LastItems)
    <3>1. DOMAIN <<>> = {}
      BY SMT
    <3> QED BY <1>8, <3>1 DEF HasItem
  <2>4. agentTask.at = "silent"
    BY <1>1, <1>8, <2>3 DEF StreamInv, Closing
  <2>5. StreamTypes'
    BY <1>1, <1>2, <2>2 DEF StreamTypes, Kept
  <2>6. Ends'
    BY <1>1, <1>2, <1>8, <2>1, <2>2, <2>4 DEF Ends, Kept
  <2> QED BY <1>8, <2>5, <2>6, NoMoreStream
<1> QED BY <1>6, <1>7, <1>8 DEF look_around

LEMMA Records ==
  ASSUME StreamInv, persist_terminal
  PROVE  StreamInv'
<1>1. /\ UNCHANGED <<agentTask, tokens, taken, cancelRequested, fenceLost, paused, leased, cut>> /\ route \in Streaming
  BY DEF persist_terminal, agentVars, Streaming, Recording
<1>2. /\ cut = "no" /\ ~terminal /\ ~paused /\ (fenceLost => ~CurrentLease) /\ StreamTypes /\ sse.client.ok
      /\ sse.client.started = TRUE /\ sse.client.finish = "none"
  BY <1>1, InStream
<1>3. storeFaults \in Nat
  BY <1>2 DEF StreamTypes
<1>4. CASE route' = "raised" /\ UNCHANGED <<row, terminal, sse, approvalEvent>> /\ (UNCHANGED storeFaults \/ StoreFails)
  <2>1. storeFaults' \in Nat
    BY <1>3, <1>4, Fault
  <2>2. StreamTypes'
    BY <1>1, <1>2, <1>4, <2>1 DEF StreamTypes
  <2>3. Ends'
    BY <1>1, <1>2, <1>4 DEF Ends
  <2> QED BY <1>4, <2>2, <2>3, NoMoreStream
<1>5. CASE /\ row' = "completed" /\ terminal' = TRUE /\ route' = "ending" /\ UNCHANGED storeFaults
           /\ sse' = Yield(ClosedUp(sse), "stop", NoCallEvent)
  <2>1. PICK k \in {"stop", "tool-calls"} : k = "stop"
    OBVIOUS
  <2>2. IsSse(sse') /\ sse'.client.ok /\ sse'.client.finish = k
    BY <1>1, <1>5, <2>1, LastChunk
  <2>3. StreamTypes'
    BY <1>1, <1>2, <1>5, <2>2 DEF StreamTypes
  <2>4. Ends'
    BY <1>1, <1>2, <1>5, <2>1, <2>2 DEF Ends
  <2> QED BY <1>5, <2>3, <2>4, NoMoreStream
<1>6. CASE /\ row' = "failed_terminal" /\ terminal' = TRUE /\ route' = "ending" /\ UNCHANGED storeFaults
           /\ sse' = Yield(ClosedUp(sse), "error", NoCallEvent)
  <2>1. IsSse(sse') /\ sse'.client.ok /\ sse'.client.finish = "none"
    BY <1>1, <1>6, LastError
  <2>2. StreamTypes'
    BY <1>1, <1>2, <1>6, <2>1 DEF StreamTypes
  <2>3. Ends'
    BY <1>1, <1>2, <1>6, <2>1 DEF Ends
  <2> QED BY <1>6, <2>2, <2>3, NoMoreStream
<1>7. CASE RecordAndTell("completed", "stop")
  BY <1>4, <1>5, <1>7 DEF RecordAndTell
<1>8. CASE RecordAndTell("failed_terminal", "error")
  BY <1>4, <1>6, <1>8 DEF RecordAndTell
<1> QED BY <1>7, <1>8 DEF persist_terminal

LEMMA EndsStream ==
  ASSUME StreamInv, end_stream
  PROVE  StreamInv'
<1>1. /\ route \in {"ending", "raised"} /\ route' = "over" /\ agentTask' = Ended(agentTask) /\ leased' = FALSE
      /\ sse' = (IF route = "raised" THEN ErrorChunks(sse) ELSE sse)
      /\ UNCHANGED <<tokens, taken, cancelRequested, fenceLost, terminal, paused, cut>>
  BY DEF end_stream
<1>2. StreamTypes /\ Ends
  BY DEF StreamInv
<1>3. IsSse(sse) /\ IsAgent(agentTask) /\ storeFaults \in Nat
  BY <1>2 DEF StreamTypes
<1>4. HasEnded(agentTask', agentTask)
  BY <1>1, <1>3, AgentEnded
<1>5. /\ IsSse(sse') /\ (cut \in {"no", "setup"} => sse'.client.ok)
      /\ sse' = sse \/ sse'.client.finish = "finish-error"
  <2>1. CASE route = "ending"
    BY <1>1, <1>2, <1>3, <2>1 DEF Ends
  <2>2. CASE route = "raised"
    <3>1. sse' = ErrorChunks(sse)
      BY <1>1, <2>2
    <3>2. IsSse(sse') /\ sse'.client.finish = "finish-error"
      BY <1>3, <3>1, ErrorsFinish
    <3>3. CASE cut = "no"
      <4>1. sse.client.started = TRUE /\ sse.client.finish = "none" /\ sse.client.ok
        BY <1>2, <2>2, <3>3 DEF Ends
      <4>2. sse'.client.ok
        BY <1>3, <3>1, <4>1, TellsErrors
      <4> QED BY <3>2, <4>2
    <3>4. cut # "setup"
      BY <1>2, <2>2 DEF Ends
    <3> QED BY <3>2, <3>3, <3>4
  <2> QED BY <1>1, <2>1, <2>2
<1>6. /\ storeFaults' \in Nat
      /\ row' = "running" => ~CurrentLease \/ storeFaults' > 0
      /\ row' = row \/ (row \in {"running", "awaiting_user"} /\ ~terminal /\ ~paused)
  <2>1. CASE terminal \/ fenceLost \/ paused
    BY <1>2, <1>3, <2>1 DEF end_stream, Ends
  <2>2. CASE ~(terminal \/ fenceLost \/ paused)
    <3>1. PICK s \in {"cancelled", "failed_terminal"} : TriesToRecord(s)
      BY <2>2 DEF end_stream
    <3>2. /\ storeFaults' \in Nat /\ (row' = "running" => ~CurrentLease \/ storeFaults' > 0)
          /\ row' # row => CanRecord(s)
      BY <1>3, <3>1, Recorded
    <3> QED BY <2>2, <3>2 DEF CanRecord
  <2> QED BY <2>1, <2>2
<1>7. StreamTypes'
  BY <1>1, <1>2, <1>4, <1>5, <1>6 DEF StreamTypes, HasEnded
<1>8. Ends'
  <2>1. agentTask.at = "silent" => agentTask'.at = "silent"
    BY <1>4 DEF HasEnded
  <2>2. sse'.client.finish = "tool-calls" => Waits'
    BY <1>1, <1>2, <1>5, <1>6 DEF Ends
  <2>3. sse'.client.finish = "stop" /\ ~sse'.client.failed => row' = "completed" \/ agentTask'.at = "silent"
    BY <1>2, <1>5, <1>6, <2>1 DEF Ends
  <2>4. (terminal' => row' \in {"completed", "failed_terminal"}) /\ (paused' => Waits')
    BY <1>1, <1>2, <1>6 DEF Ends
  <2>5. cut' \in {"no", "setup", "told", "finally"} /\ (fenceLost' => ~CurrentLease')
    BY <1>1, <1>2 DEF Ends
  <2> QED BY <1>1, <1>5, <1>6, <2>2, <2>3, <2>4, <2>5 DEF Ends
<1> QED BY <1>1, <1>7, <1>8, NoMoreStream

LEMMA Cancels ==
  ASSUME StreamInv, NEW late \in BOOLEAN, cancel_stream(late)
  PROVE  StreamInv'
<1>1. UNCHANGED <<agentTask, tokens, taken, cancelRequested, fenceLost, terminal, paused, leased, storeFaults>>
  BY DEF cancel_stream, agentVars
<1>2. StreamTypes /\ Ends
  BY DEF StreamInv
<1>3. CASE /\ route \in Streaming /\ route' \in {"raised", "ending"} /\ UNCHANGED <<sse, cut>>
           /\ row' = row \/ row' \in {"completed", "failed_terminal"}
  <2>1. /\ cut = "no" /\ ~terminal /\ ~paused /\ (fenceLost => ~CurrentLease) /\ sse.client.ok
        /\ sse.client.started = TRUE /\ sse.client.finish = "none"
    BY <1>3, InStream
  <2>2. StreamTypes'
    BY <1>1, <1>2, <1>3 DEF StreamTypes
  <2>3. Ends'
    BY <1>1, <1>3, <2>1 DEF Ends
  <2> QED BY <1>3, <2>2, <2>3, NoMoreStream
<1>4. CASE route = "ending" /\ cut' = "told" /\ route' \in {"raised", "ending"} /\ UNCHANGED <<row, sse>>
  <2>1. StreamTypes'
    BY <1>1, <1>2, <1>4 DEF StreamTypes
  <2>2. Ends'
    BY <1>1, <1>2, <1>4 DEF Ends
  <2> QED BY <1>4, <2>1, <2>2, NoMoreStream
<1>5. CASE /\ route' = "over" /\ cut' = "finally" /\ UNCHANGED row /\ sse' = (IF late THEN ErrorChunks(sse) ELSE sse)
  <2>1. IsSse(sse)
    BY <1>2 DEF StreamTypes
  <2>2. IsSse(sse') /\ (sse' = sse \/ sse'.client.finish = "finish-error")
    <3>1. CASE late
      <4>1. sse' = ErrorChunks(sse)
        BY <1>5, <3>1
      <4> QED BY <2>1, <4>1, ErrorsFinish
    <3>2. CASE ~late
      BY <1>5, <2>1, <3>2
    <3> QED BY <3>1, <3>2
  <2>3. StreamTypes'
    BY <1>1, <1>2, <2>2 DEF StreamTypes
  <2>4. Ends'
    BY <1>1, <1>2, <1>5, <2>2 DEF Ends
  <2> QED BY <1>5, <2>3, <2>4, NoMoreStream
<1> QED BY <1>3, <1>4, <1>5 DEF cancel_stream

-----------------------------------------------------------------------------
(* What takes a count of a set, or a sequence joined to another *)

INSTANCE FiniteSetTheorems
INSTANCE SequenceTheorems

LEMMA Joined ==
  ASSUME NEW S, NEW w \in Seq(S), NEW t \in Seq(S), NEW n \in Nat, Len(t) = n, NEW l, l = Len(w), NEW v, v = w \o t
  PROVE  v \in Seq(S) /\ IsJoin(v, w, t, l, n)
<1>a. Len(w) \in Nat /\ DOMAIN w = 1..Len(w) /\ DOMAIN t = 1..Len(t)
  BY SMT
<1>b. v \in Seq(S) /\ Len(v) = Len(w) + Len(t)
  BY ConcatProperties
<1>c. DOMAIN v = 1..Len(v)
  BY SMT, <1>b
<1>1. l \in Nat /\ DOMAIN w = 1..l /\ v \in Seq(S) /\ DOMAIN v = 1..(l + n) /\ DOMAIN t = 1..n
  BY <1>a, <1>b, <1>c
<1>2. \A x \in DOMAIN w : x \in DOMAIN v /\ v[x] = w[x]
  BY SMT, <1>1
<1>3. \A y \in 1..n : l + y \in DOMAIN v /\ v[l + y] = t[y]
  BY SMT, <1>1
<1>4. \A x \in DOMAIN v : x \notin DOMAIN w => x - l \in 1..n /\ x = l + (x - l)
  BY SMT, <1>1
<1> QED BY <1>1, <1>2, <1>3, <1>4 DEF IsJoin

LEMMA Calls ==
  ASSUME StreamInv, NEW n \in StreamCalls, agent_calls(n)
  PROVE  StreamInv'
<1>0. PICK b : b = [y \in 1..n |-> agentTask.made + y]
  OBVIOUS
<1>1. /\ agentTask.at = "model" /\ tokens' = tokens \o [y \in 1..n |-> Item("tool_call", b[y])]
      /\ agentTask' = [agentTask EXCEPT !.at = "tools", !.batch = b, !.made = @ + n]
      /\ UNCHANGED <<route, row, approvalEvent, sse, resultsDue, taken, cancelRequested, fenceLost, terminal, paused, beating,
                     leased, cut, storeFaults>>
  BY <1>0 DEF agent_calls, flagVars
<1>2. StreamTypes /\ Ends
  BY DEF StreamInv
<1>3. /\ IsAgent(agentTask) /\ storeFaults \in Nat /\ (fenceLost => ~CurrentLease) /\ agentTask.made \in Nat
      /\ tokens \in Seq(Items)
  BY <1>2 DEF StreamTypes, Ends
<1>4. n \in Nat /\ n # 0
  BY SMT DEF StreamCalls
<1>5. PICK m : m = agentTask.made
  OBVIOUS
<1>6. PICK t : t = [y \in 1..n |-> Item("tool_call", b[y])]
  OBVIOUS
<1>7. b = [y \in 1..n |-> m + y] /\ m \in Nat
  BY <1>0, <1>3, <1>5
<1>r. Round(b, t, m, n)
  BY <1>4, <1>6, <1>7, Announced
<1>8. /\ b \in Seq(Nat) /\ t \in Seq(Items) /\ Len(t) = n
      /\ \A y \in 1..n : t[y].k = "tool_call" /\ t[y].c = m + y
  BY <1>r DEF Round
<1>9. PICK l : l = Len(tokens)
  OBVIOUS
<1>10. tokens' \in Seq(Items) /\ IsJoin(tokens', tokens, t, l, n)
  <2>1. tokens' = tokens \o t
    BY <1>1, <1>6
  <2> QED BY <1>3, <1>4, <1>8, <1>9, <2>1, Joined
<1>11. /\ IsAgent(agentTask') /\ agentTask'.at = "tools" /\ agentTask'.made = m + n
       /\ agentTask'.batch = b /\ agentTask'.results = agentTask.results
  <2>1. agentTask' = WithCalls(agentTask, "tools", b, n)
    BY <1>1 DEF WithCalls
  <2>2. /\ IsAgent(agentTask') /\ agentTask'.at = "tools" /\ agentTask'.made = agentTask.made + n
        /\ agentTask'.batch = b /\ agentTask'.results = agentTask.results
    BY SMT, <1>3, <2>1, AgentCalls
  <2> QED BY <1>5, <2>2
<1>12. m + n \in Nat /\ b # <<>>
  <2>1. DOMAIN b = 1..n /\ b \in Seq(Nat)
    BY <1>r DEF Round
  <2> QED BY SMT, <1>4, <1>7, <2>1
<1>13. StreamTypes' /\ route \notin Early
  BY <1>1, <1>2, <1>8, <1>10, <1>11, <1>12, AgentStarted DEF StreamTypes
<1>14. ASSUME route \in Streaming
       PROVE  /\ Work(agentTask', tokens', sse.inputs, sse.client.outputs, approvalEvent', resultsDue)
              /\ Asks(agentTask'.results) \/ HasItem(tokens', {"waiting"}) => Waits'
              /\ \A K : HasItem(tokens, K) => HasItem(tokens', K)
  <2>1. PICK i, o : i = sse.inputs /\ o = sse.client.outputs
    OBVIOUS
  <2>2. /\ Work(agentTask, tokens, i, o, approvalEvent, resultsDue)
        /\ Asks(agentTask.results) \/ HasItem(tokens, {"waiting"}) => Waits
    BY <1>14, <2>1 DEF StreamInv, Working
  <2>3. i \subseteq 1..m /\ o \subseteq i /\ Queued(tokens, m, i, o)
    BY <1>5, <2>2 DEF Work
  <2>4. CallsPut(tokens, tokens', m, n, i, o)
    BY <1>4, <1>7, <1>8, <1>10, <2>3, PutsCalls
  <2>5. Work(agentTask', tokens', i, o, approvalEvent, resultsDue)
    <3>1. CallsMade(agentTask', agentTask, b, m, n)
      BY <1>5, <1>11 DEF CallsMade
    <3>2. Work(agentTask, tokens, i, o, approvalEvent, resultsDue)
      BY <2>2
    <3> QED BY <1>4, <1>7, <1>r, <2>4, <3>1, <3>2, WorkCalls
  <2>6. /\ \A K : HasItem(tokens', K) => HasItem(tokens, K) \/ "tool_call" \in K
        /\ \A K : HasItem(tokens, K) => HasItem(tokens', K)
    BY <2>4 DEF CallsPut
  <2> QED BY <1>1, <1>11, <2>1, <2>2, <2>5, <2>6
<1>15. Closing'
  <2>1. Consuming \subseteq Streaming
    BY DEF Streaming
  <2> QED BY <1>1, <1>11, <1>14, <2>1 DEF StreamInv, Closing
<1> QED BY <1>1, <1>3, <1>11, <1>13, <1>14, <1>15, OthersMove

LEMMA WorkTakesCall ==
  ASSUME NEW a, NEW w, NEW i, NEW o, NEW ev, NEW due, Work(a, w, i, o, ev, due), NEW v, Dropped(v, w),
         w[1].k = "tool_call", NEW c, c = w[1].c, NEW j, j = i \cup {c}, a.made \in Nat
  PROVE  AfterCall(c, a, v, i, j, o, ev, due)
<1>1. PICK m : m = a.made
  OBVIOUS
<1>2. Queued(w, m, i, o) /\ o \subseteq i /\ i \subseteq 1..m /\ due = Cardinality(i \ o)
  BY <1>1 DEF Work
<1>3. /\ c \in 1..m /\ c \notin i /\ Queued(v, m, j, o)
      /\ \A d : Awaited(d, w, i, o) => Awaited(d, v, j, o)
  <2>1. Queued(w, m, i, o)
    BY <1>2
  <2>2. CallTaken(c, v, w, m, i, j, o)
    BY <2>1, TakesCall
  <2> QED BY <2>2 DEF CallTaken
<1>4. AtWork(a.batch, a.results, v, j, o)
  BY <1>3, WorkGoesOn DEF Work
<1>5. IsFiniteSet(i \ o)
  <2>1. IsFiniteSet(1..m)
    BY SMT, <1>1, FS_Interval
  <2>2. (i \ o) \subseteq 1..m
    BY <1>2
  <2> QED BY <2>1, <2>2, FS_Subset
<1>6. j \ o = (i \ o) \cup {c} /\ c \notin i \ o
  BY <1>2, <1>3
<1>7. Cardinality(j \ o) = due + 1
  <2>1. Cardinality((i \ o) \cup {c}) = Cardinality(i \ o) + 1
    <3>1. PICK S : S = i \ o
      OBVIOUS
    <3>2. IsFiniteSet(S) /\ c \notin S
      BY <1>5, <1>6, <3>1
    <3>3. Cardinality(S \cup {c}) = Cardinality(S) + 1
      BY <3>2, FS_AddElement
    <3> QED BY <3>1, <3>3
  <2> QED BY <1>2, <1>6, <2>1
<1> QED BY <1>1, <1>2, <1>3, <1>4, <1>7 DEF Work, AfterCall

LEMMA WorkTakesResult ==
  ASSUME NEW a, NEW w, NEW i, NEW o, NEW ev, NEW due, Work(a, w, i, o, ev, due), NEW v, Dropped(v, w),
         w[1].k = "tool_result", NEW c, c = w[1].c, NEW p, p = o \cup {c}, a.made \in Nat
  PROVE  AfterResult(c, a, v, i, o, p, ev, due)
<1>1. PICK m : m = a.made
  OBVIOUS
<1>2. Queued(w, m, i, o) /\ o \subseteq i /\ i \subseteq 1..m /\ due = Cardinality(i \ o)
  BY <1>1 DEF Work
<1>3. /\ c \in i /\ c \notin o /\ Queued(v, m, i, p)
      /\ \A d : Awaited(d, w, i, o) => Awaited(d, v, i, p)
  <2>1. Queued(w, m, i, o)
    BY <1>2
  <2> QED BY SMT, <2>1, TakesResult
<1>4. AtWork(a.batch, a.results, v, i, p)
  BY <1>3, WorkGoesOn DEF Work
<1>5. IsFiniteSet(i \ o)
  <2>1. IsFiniteSet(1..m)
    BY SMT, <1>1, FS_Interval
  <2>2. (i \ o) \subseteq 1..m
    BY <1>2
  <2> QED BY <2>1, <2>2, FS_Subset
<1>6. i \ p = (i \ o) \ {c} /\ c \in i \ o /\ p \subseteq i
  BY <1>2, <1>3
<1>7. Cardinality((i \ o) \ {c}) = due - 1 /\ due \in Nat
  <2>1. Cardinality((i \ o) \ {c}) = Cardinality(i \ o) - 1
    <3>1. PICK S : S = i \ o
      OBVIOUS
    <3>2. IsFiniteSet(S) /\ c \in S
      BY <1>5, <1>6, <3>1
    <3>3. Cardinality(S \ {c}) = Cardinality(S) - 1
      BY <3>2, FS_RemoveElement
    <3> QED BY <3>1, <3>3
  <2>2. Cardinality(i \ o) \in Nat
    BY <1>5, FS_CardinalityType
  <2> QED BY <1>2, <2>1, <2>2
<1>8. due > 0
  <2>1. i \ o # {}
    BY <1>6
  <2>2. Cardinality(i \ o) # 0
    BY <1>5, <2>1, FS_EmptySet
  <2> QED BY SMT, <1>2, <1>7, <2>2
<1>9. due - 1 = Cardinality(i \ p)
  BY <1>6, <1>7
<1> QED BY <1>1, <1>2, <1>3, <1>4, <1>6, <1>7, <1>8, <1>9 DEF Work, AfterResult

LEMMA BeginsStream ==
  ASSUME StreamInv, begin_stream
  PROVE  StreamInv'
<1>1. /\ route = "open" /\ route' = "items" /\ agentTask' = SetAt(agentTask, "model")
      /\ sse' = open_step(Yield(sse, "start", NoCallEvent))
      /\ UNCHANGED <<row, tokens, approvalEvent, resultsDue, taken, cancelRequested, fenceLost, terminal, paused, leased, cut, storeFaults>>
  BY DEF begin_stream, SetAt
<1>2. /\ Fresh(sse) /\ tokens = <<>> /\ approvalEvent = NoCallEvent /\ resultsDue = 0
      /\ agentTask.made = 0 /\ agentTask.batch = <<>> /\ agentTask.results = <<>>
      /\ ~terminal /\ ~paused /\ ~fenceLost /\ cut = "no"
  BY <1>1 DEF StreamInv, Before
<1>3. StreamTypes
  BY DEF StreamInv
<1>4. IsAgent(agentTask)
  BY <1>3 DEF StreamTypes
<1>5. /\ IsAgent(agentTask') /\ agentTask'.at = "model" /\ agentTask'.made = agentTask.made
      /\ agentTask'.batch = agentTask.batch /\ agentTask'.results = agentTask.results
  BY SMT, <1>1, <1>4, AgentAt
<1>6. Told(sse', "none", {}, {}) /\ sse'.step
  BY <1>1, <1>2, TellsStart
<1>7. IsSse(sse') /\ sse'.inputs = {} /\ sse'.client.outputs = {} /\ sse'.client.ok /\ sse'.client.finish = "none"
  BY <1>6 DEF Told
<1>8. StreamTypes'
  BY <1>1, <1>3, <1>5, <1>7 DEF StreamTypes
<1>9. Before'
  BY <1>1 DEF Before
<1>10. Telling'
  <2>1. "none" \in Modes
    BY DEF Modes
  <2> QED BY <1>1, <1>2, <1>6, <1>7, <2>1 DEF Telling
<1>11. Closing'
  BY <1>1, <1>2, <1>5 DEF Closing
<1>12. Ends'
  BY <1>1, <1>2, <1>7 DEF Ends
<1>13. Working'
  <2>1. DOMAIN <<>> = {}
    BY SMT
  <2>2. Queued(<<>>, 0, {}, {}) /\ AtWork(<<>>, <<>>, <<>>, {}, {})
    BY <2>1 DEF Queued, AtWork
  <2>3. 0 = Cardinality({} \ {})
    <3>1. {} \ {} = {}
      OBVIOUS
    <3> QED BY <3>1, FS_EmptySet
  <2>4. Work(agentTask', tokens', {}, {}, approvalEvent', resultsDue')
    BY <1>1, <1>2, <1>5, <2>2, <2>3 DEF Work
  <2>5. ~Asks(agentTask'.results) /\ ~HasItem(tokens', {"waiting"})
    BY <1>1, <1>2, <1>5, <2>1 DEF Asks, HasItem
  <2> QED BY <1>7, <2>4, <2>5 DEF Working
<1> QED BY <1>8, <1>9, <1>10, <1>11, <1>12, <1>13 DEF StreamInv

LEMMA TakesCallItem ==
  ASSUME StreamInv, Taking, route' = "items", Kept, ~paused', UNCHANGED approvalEvent,
         tokens[1].k = "tool_call", NEW c, c = tokens[1].c,
         resultsDue' = resultsDue + 1, sse' = tool_call_item(sse, c)
  PROVE  StreamInv'
<1>1. route \in Streaming
  BY DEF Taking, Streaming, Consuming
<1>2. PICK i, o : i = sse.inputs /\ o = sse.client.outputs
  OBVIOUS
<1>3. PICK m \in Modes : Told(sse, m, i, o)
  BY <1>1, <1>2, Generator DEF OpenParts
<1>4. Work(agentTask, tokens, i, o, approvalEvent, resultsDue)
  BY <1>1, <1>2, Generator
<1>5. Dropped(tokens', tokens) /\ agentTask.made \in Nat
  BY TakesItem DEF StreamInv, StreamTypes
<1>6. PICK j : j = i \cup {c}
  OBVIOUS
<1>7. c \notin i /\ Work(agentTask, tokens', j, o, approvalEvent, resultsDue + 1)
  <2>1. AfterCall(c, agentTask, tokens', i, j, o, approvalEvent, resultsDue)
    BY <1>4, <1>5, <1>6, WorkTakesCall
  <2> QED BY <2>1 DEF AfterCall
<1>8. Told(sse', "none", j, o) /\ sse'.step
  BY <1>3, <1>6, <1>7, TellsCall
<1>9. "none" \in Modes /\ "tool_call" \notin LastItems
  BY DEF Modes, LastItems
<1>10. PICK n \in Modes : n = "none"
  BY <1>9
<1>11. Told(sse', n, j, o) /\ Work(agentTask, tokens', j, o, approvalEvent', resultsDue')
  BY <1>7, <1>8, <1>10
<1> QED BY <1>8, <1>9, <1>11, TakesOn DEF Kept

LEMMA TakesResultItem ==
  ASSUME StreamInv, Taking, route' = "items", Kept, ~paused', UNCHANGED approvalEvent,
         tokens[1].k = "tool_result", NEW c, c = tokens[1].c,
         resultsDue' = (IF resultsDue > 0 THEN resultsDue - 1 ELSE resultsDue),
         sse' = tool_result_item(sse, c, resultsDue')
  PROVE  StreamInv'
<1>1. route \in Streaming
  BY DEF Taking, Streaming, Consuming
<1>2. PICK i, o : i = sse.inputs /\ o = sse.client.outputs
  OBVIOUS
<1>3. PICK m \in Modes : Told(sse, m, i, o)
  BY <1>1, <1>2, Generator DEF OpenParts
<1>4. Work(agentTask, tokens, i, o, approvalEvent, resultsDue) /\ (resultsDue > 0 => sse.step)
  BY <1>1, <1>2, Generator
<1>5. Dropped(tokens', tokens) /\ agentTask.made \in Nat
  BY TakesItem DEF StreamInv, StreamTypes
<1>6. PICK p : p = o \cup {c}
  OBVIOUS
<1>7. /\ c \in i /\ c \notin o /\ resultsDue \in Nat /\ resultsDue > 0
      /\ Work(agentTask, tokens', i, p, approvalEvent, resultsDue - 1)
  <2>1. AfterResult(c, agentTask, tokens', i, o, p, approvalEvent, resultsDue)
    BY <1>4, <1>5, <1>6, WorkTakesResult
  <2> QED BY <2>1 DEF AfterResult
<1>8. resultsDue' = resultsDue - 1 /\ sse.step
  BY <1>4, <1>7
<1>9. PICK due : due = resultsDue'
  OBVIOUS
<1>10. Told(sse', "none", i, p) /\ (due # 0 => sse'.step)
  BY <1>3, <1>6, <1>7, <1>8, <1>9, TellsResult
<1>11. "none" \in Modes /\ "tool_result" \notin LastItems
  BY DEF Modes, LastItems
<1>12. PICK n \in Modes : n = "none"
  BY <1>11
<1>13. Told(sse', n, i, p) /\ Work(agentTask, tokens', i, p, approvalEvent', resultsDue')
  BY <1>7, <1>8, <1>10, <1>12
<1>14. due > 0 => due # 0
  BY SMT
<1>15. resultsDue' > 0 => sse'.step
  BY <1>9, <1>10, <1>14
<1> QED BY <1>11, <1>12, <1>13, <1>15, TakesOn DEF Kept

LEMMA HandlesItem ==
  ASSUME StreamInv, handle_item
  PROVE  StreamInv'
<1>1. Taking /\ Kept
  BY DEF handle_item, Taking, Kept, agentVars
<1>2. Head(tokens) = tokens[1] /\ tokens[1].k \in Kinds
  BY <1>1, TakesItem
<1>3. PICK it : it = tokens[1]
  OBVIOUS
<1>4. /\ paused' = (it.k = "waiting")
      /\ it.k = "token" => route' = "items" /\ sse' = text_item(sse) /\ UNCHANGED <<approvalEvent, resultsDue>>
      /\ it.k = "reasoning" => route' = "items" /\ sse' = reasoning_item(sse) /\ UNCHANGED <<approvalEvent, resultsDue>>
  BY <1>2, <1>3 DEF handle_item
<1>5. it.k = "tool_call" =>
        /\ route' = "items" /\ UNCHANGED approvalEvent /\ resultsDue' = resultsDue + 1
        /\ sse' = tool_call_item(sse, it.c)
  BY <1>2, <1>3 DEF handle_item
<1>6. it.k = "tool_result" =>
        /\ route' = "items" /\ UNCHANGED approvalEvent
        /\ resultsDue' = (IF resultsDue > 0 THEN resultsDue - 1 ELSE resultsDue)
        /\ sse' = tool_result_item(sse, it.c, resultsDue')
  BY <1>2, <1>3 DEF handle_item
<1>7. it.k = "waiting" => route' = "ending" /\ sse' = Yield(ClosedUp(sse), "tool-calls", NoCallEvent)
  BY <1>2, <1>3 DEF handle_item
<1>8. it.k = "error" =>
        IF fenceLost THEN route' = "ending" /\ sse' = Yield(ClosedUp(sse), "error", NoCallEvent)
        ELSE route' = "failing" /\ UNCHANGED <<approvalEvent, resultsDue, sse>>
  BY <1>2, <1>3 DEF handle_item
<1>9. it.k = "done" =>
        /\ UNCHANGED <<approvalEvent, resultsDue, sse>>
        /\ route' = IF fenceLost THEN "items" ELSE "completing"
  BY <1>2, <1>3 DEF handle_item
<1>10. CASE it.k \in {"token", "reasoning"}
  BY <1>1, <1>3, <1>4, <1>10, TakesDelta
<1>11. CASE it.k = "tool_call"
  BY <1>1, <1>3, <1>4, <1>5, <1>11, TakesCallItem
<1>12. CASE it.k = "tool_result"
  BY <1>1, <1>3, <1>4, <1>6, <1>12, TakesResultItem
<1>13. CASE it.k = "waiting"
  BY <1>1, <1>3, <1>4, <1>7, <1>13, TakesLast
<1>14. CASE it.k = "error"
  <2>1. CASE fenceLost
    BY <1>1, <1>3, <1>4, <1>8, <1>14, <2>1, TakesLast
  <2>2. CASE ~fenceLost
    BY <1>1, <1>3, <1>4, <1>8, <1>14, <2>2, TakesEnd DEF Recording
  <2> QED BY <2>1, <2>2
<1>15. CASE it.k = "done"
  <2>1. CASE fenceLost
    BY <1>1, <1>3, <1>4, <1>9, <1>15, <2>1, TakesDelta
  <2>2. CASE ~fenceLost
    BY <1>1, <1>3, <1>4, <1>9, <1>15, <2>2, TakesEnd DEF Recording
  <2> QED BY <2>1, <2>2
<1> QED BY <1>2, <1>3, <1>10, <1>11, <1>12, <1>13, <1>14, <1>15 DEF Kinds

-----------------------------------------------------------------------------
(* The stream *)

LEMMA StreamBegins == StreamInit => StreamInv
<1> SUFFICES ASSUME StreamInit PROVE StreamInv
  OBVIOUS
<1>1. Fresh(sse)
  BY DEF StreamInit, Fresh
<1>2. sse.client.ok /\ sse.client.finish = "none"
  BY <1>1, FreshClient
<1>3. /\ IsAgent(agentTask) /\ agentTask.at = "off" /\ agentTask.made = 0
      /\ agentTask.batch = <<>> /\ agentTask.results = <<>>
  BY DEF StreamInit, IsAgent
<1>4. IsSse(sse)
  BY <1>1 DEF Fresh, IsSse, SseOf
<1>5. StreamTypes
  <2>1. <<>> \in Seq(Items) /\ <<>> \in Seq(Nat) /\ <<>> \in Seq([call : Nat, asks : BOOLEAN]) /\ 0 \in Nat
    BY SMT
  <2> QED BY <1>3, <1>4, <2>1 DEF StreamInit, StreamTypes
<1>6. Before
  BY <1>1, <1>3 DEF StreamInit, Before
<1>7. route \notin Streaming
  BY DEF StreamInit, Streaming, Consuming, Recording
<1>8. Telling /\ Working /\ Closing
  BY <1>7 DEF Telling, Working, Closing, Streaming
<1>9. Ends
  BY <1>2 DEF StreamInit, Ends
<1> QED BY <1>5, <1>6, <1>8, <1>9 DEF StreamInv

LEMMA StreamStep == StreamInv /\ [StreamNext]_streamVars => StreamInv'
<1> SUFFICES ASSUME StreamInv, [StreamNext]_streamVars PROVE StreamInv'
  OBVIOUS
<1>1. CASE UNCHANGED streamVars
  <2>1. UNCHANGED <<route, row, agentTask, tokens, approvalEvent, sse, resultsDue, taken, cancelRequested, fenceLost, terminal, paused,
                    leased, cut, storeFaults>>
    BY <1>1 DEF streamVars
  <2>2. StreamTypes' /\ Before'
    BY <2>1 DEF StreamInv, StreamTypes, Before, Fresh
  <2>3. Telling' /\ Closing'
    BY <2>1 DEF StreamInv, Telling, Closing
  <2>4. Ends'
    BY <2>1 DEF StreamInv, Ends
  <2>5. Working'
    BY <2>1 DEF StreamInv, Working
  <2> QED BY <2>2, <2>3, <2>4, <2>5 DEF StreamInv
<1>2. CASE \E yes \in BOOLEAN : chat_setup(yes) \/ agent_executes(yes) \/ cancel_stream(yes)
  BY <1>2, SetsUp, Executes, Cancels
<1>3. CASE \E how \in {"unavailable", "no_draft", "error", "proposed"} : plan_route(how)
  BY <1>3, PlansRoute
<1>4. CASE start_direct \/ refuse_direct \/ setup_timeout \/ not_started \/ begin_stream
  BY <1>4, StartsDirect, RefusesDirect, SetupTimesOut, NotStarted, BeginsStream
<1>5. CASE \E k \in {"token", "reasoning"} : agent_writes(k)
  BY <1>5, Writes
<1>6. CASE \E n \in StreamCalls : agent_calls(n)
  BY <1>6, Calls
<1>7. CASE agent_reports \/ \E k \in {"done", "error", "silent"} : agent_ends(k)
  BY <1>7, Reports, AgentEnds
<1>8. CASE lose_lease \/ request_cancellation \/ heartbeat_run_lease
  BY <1>8, LosesLease, AsksCancellation, Beats
<1>9. CASE handle_item \/ look_around \/ persist_terminal \/ end_stream
  BY <1>9, HandlesItem, LooksAround, Records, EndsStream
<1> QED BY <1>1, <1>2, <1>3, <1>4, <1>5, <1>6, <1>7, <1>8, <1>9 DEF StreamNext

\* The results that are due while a call of the agent's is executed.
LEMMA CallShown ==
  ASSUME StreamInv, route \in Consuming, agentTask.at = "tools"
  PROVE  resultsDue > 0 \/ \E x \in DOMAIN tokens : tokens[x].k = "tool_call"
<1>1. route \in Streaming /\ StreamTypes
  BY DEF Streaming, StreamInv
<1>2. PICK i, o : i = sse.inputs /\ o = sse.client.outputs
  OBVIOUS
<1>3. Work(agentTask, tokens, i, o, approvalEvent, resultsDue)
  BY <1>1, <1>2, Generator
<1>4. \E c : Awaited(c, tokens, i, o)
  <2>1. agentTask.batch # <<>> => 1 \in DOMAIN agentTask.batch
    BY SMT, <1>1 DEF StreamTypes
  <2>2. agentTask.results # <<>> => 1 \in DOMAIN agentTask.results
    BY SMT, <1>1 DEF StreamTypes
  <2>3. agentTask.batch # <<>> \/ agentTask.results # <<>>
    BY <1>1 DEF StreamTypes
  <2> QED BY <1>3, <2>1, <2>2, <2>3 DEF Work, AtWork
<1>5. PICK c : Awaited(c, tokens, i, o)
  BY <1>4
<1>6. CASE c \in i
  <2>1. PICK S : S = i \ o
    OBVIOUS
  <2>2. c \in S /\ S \subseteq 1..agentTask.made /\ resultsDue = Cardinality(S)
    BY <1>3, <1>5, <1>6, <2>1 DEF Work, Awaited
  <2>3. agentTask.made \in Nat
    BY <1>1 DEF StreamTypes
  <2>4. IsFiniteSet(1..agentTask.made)
    BY SMT, <2>3, FS_Interval
  <2>5. IsFiniteSet(S)
    BY <2>2, <2>4, FS_Subset
  <2>6. Cardinality(S) \in Nat /\ Cardinality(S) # 0
    <3>1. Cardinality(S) \in Nat /\ (Cardinality(S) = 0 <=> S = {})
      BY <2>5, FS_CardinalityType, FS_EmptySet
    <3> QED BY <2>2, <3>1
  <2>7. resultsDue > 0
    BY SMT, <2>2, <2>6
  <2> QED BY <2>7
<1>7. CASE c \notin i
  BY <1>5, <1>7 DEF Awaited
<1> QED BY <1>6, <1>7

LEMMA InvTrue == StreamInv => StreamIsTrue
<1> SUFFICES ASSUME StreamInv PROVE StreamIsTrue
  OBVIOUS
<1>1. Ends
  BY DEF StreamInv
<1>2. route \in Consuming /\ agentTask.at = "tools" => resultsDue > 0 \/ \E x \in DOMAIN tokens : tokens[x].k = "tool_call"
  BY CallShown
<1>3. sse.client.ok \/ cut \in {"told", "finally"}
  BY <1>1 DEF Ends
<1> QED BY <1>1, <1>2, <1>3 DEF StreamIsTrue, Ends

\* What the client of api/chat.py's event_stream is told is in order and true, for any
\* numbers of calls, deltas and failed writes: whatever the order of the agent's items, the
\* events, the heartbeat's errors, the recording of the end, cancellation and the deadline.
THEOREM StreamTellsTruth == StreamSpec => []StreamIsTrue
<1>1. StreamInv /\ [StreamNext]_streamVars => StreamInv'
  BY StreamStep
<1> QED BY StreamBegins, <1>1, InvTrue, PTL DEF StreamSpec


=============================================================================
