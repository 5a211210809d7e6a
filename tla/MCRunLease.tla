----------------------------- MODULE MCRunLease -----------------------------
(* Two tasks of one runtime and one of another contend for one run. *)
EXTENDS RunLease

CONSTANTS t1, t2, t3, r1, r2

MCTasks == {t1, t2, t3}
MCOwners == {r1, r2}
MCOwnerOf == [t \in MCTasks |-> IF t = t3 THEN r2 ELSE r1]

=============================================================================
