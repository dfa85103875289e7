--------------------------------- MODULE MCMfa ---------------------------------
(* Constants for TLC. *)
EXTENDS Mfa, TLC

CONSTANTS p1, p2

ProcSymmetry == Permutations(Procs)
=============================================================================
