---------------------------- MODULE MCRuntimePool ----------------------------
(* Four callers of a pool that has room for one of two tenants. *)
EXTENDS RuntimePool, TLC

Symmetry == Permutations(Callers)

=============================================================================
