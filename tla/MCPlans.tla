------------------------------ MODULE MCPlans ------------------------------
(* Small instances of Plans for TLC. *)
EXTENDS Plans, TLC

CONSTANTS a, b, c

Step(k, deps, limit, def) == [key |-> k, deps |-> deps, limit |-> limit, def |-> def]

\* c after a and b on its own; the same with another a; a cycle.
Draft == <<Step(c, {a}, 1, 1), Step(a, {}, 1, 1), Step(b, {}, 1, 1)>>
Changed == <<Step(a, {}, 1, 2), Step(c, {a}, 1, 1), Step(b, {}, 2, 1)>>
Cycle == <<Step(a, {b}, 1, 1), Step(b, {a}, 1, 1)>>

MCAnswers == {Draft, Changed, Cycle, NoDraft}
MCValid == {Draft, Changed}

\* One step that may be tried twice.
Single == <<Step(a, {}, 2, 1)>>
MCSingle == {Single, NoDraft}

Symmetry == Permutations(Tasks)

=============================================================================
