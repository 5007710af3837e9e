------------------------------ MODULE MCTickets ------------------------------
(* Instances of Tickets for TLC.                                           *)
EXTENDS Tickets, TLC

CONSTANTS p1, p2, p3, p4, ana, beto, alien, brazil

ZeroAndTwo == (ana :> 0) @@ (beto :> 2)
LevelTwo   == (ana :> 2)

(* The behaviours in which no save fails.                                  *)
SpecFilesWhole == Init /\ [][Next /\ behind' = {}]_vars
=============================================================================
