----------------------------- MODULE MCRateLimits -----------------------------
(* Constants for TLC. *)
EXTENDS RateLimits, TLC

CONSTANTS p1, p2

ProcSymmetry == Permutations(Procs)
=============================================================================
