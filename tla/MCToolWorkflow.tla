--------------------------- MODULE MCToolWorkflow ---------------------------
(* Small instances of ToolWorkflow for TLC. *)
EXTENDS ToolWorkflow, FiniteSets, TLC

CONSTANTS c1, c2

\* c1 must not be repeated, c2 is safe to repeat.
MCStrategy == [c \in Calls |-> IF c = c1 THEN "manual_uncertain" ELSE "idempotent_retry"]

\* The behaviours in which the model makes one call, of either kind.
Made == {c \in Calls : exec[c] # Absent \/ \E w \in Tasks : cur[w] = c}
OneCallNext ==
  \/ \E w \in Tasks :
       \/ AgentStep(w) /\ Cardinality(Made') <= 1
       \/ ToolStep(w) \/ RecoveryStep(w) \/ ProducerStep(w)
  \/ EnvironmentStep
OneCallSpec == Init /\ [][OneCallNext]_vars /\ Fairness

Symmetry == Permutations(Tasks)

=============================================================================
