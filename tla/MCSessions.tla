------------------------------ MODULE MCSessions ------------------------------
(* Constants for TLC: what the users of an instance start with. *)
EXTENDS Sessions, TLC

CONSTANTS d1, u1, t1, t2, p1, p2

MCNoPairs == {}
MCOneTenant == {<<u1, t1>>}

ProcSymmetry == Permutations(Procs)
=============================================================================
