------------------------------- MODULE MCInvites -------------------------------
(* Constants for TLC: whose the roles are. *)
EXTENDS Invites, TLC

CONSTANTS t1, t2, clerk, orgadmin, p1, p2, u1, u2

\* clerk is a role of the second organisation: the first may not give it
MCRoleTenant == (clerk :> t2) @@ (orgadmin :> Platform)

Symmetry == Permutations(Procs) \cup Permutations(Users)
=============================================================================
