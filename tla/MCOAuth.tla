-------------------------------- MODULE MCOAuth --------------------------------
(* Constants for TLC: whose address each subject has. *)
EXTENDS OAuth, TLC

CONSTANTS u1, u2, t1, google, github, s1, s2, p1, p2

\* every subject has the address of u1
MCOneEmail == [s \in Subjects |-> u1]
MCNoPairs == {}

\* the providers are interchangeable
Symmetry == Permutations(Procs) \cup Permutations(Providers)
=============================================================================
