------------------------------ MODULE MCSessions ------------------------------
(* Instances of Sessions for TLC.                                          *)
EXTENDS Sessions, TLC

CONSTANTS p1, p2, t1, t2, ana, beto, w1, w2

Symmetric == Permutations(Terminals) \cup Permutations(Passwords)
=============================================================================
