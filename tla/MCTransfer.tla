------------------------------ MODULE MCTransfer ------------------------------
(* An instance of Transfer for TLC: several downloads of one movie, of two *)
(* full packets and a short one.                                           *)
EXTENDS Transfer, TLC

CONSTANTS d1, d2, up

MovieOf == [d \in Downloads |-> up]
SizeOf  == up :> 5
=============================================================================
