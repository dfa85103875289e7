------------------------------ MODULE MCTenants ------------------------------
(* Constants for TLC: the platform's administrator and one more user. *)
EXTENDS Tenants, TLC

CONSTANTS adm, u1, p1, p2

Symmetry == Permutations(Procs)
=============================================================================
