------------------------------- MODULE MCFront -------------------------------
(* Instance of Front: two terminals, the server and one child.  Every file *)
(* of up to four lines is loaded; terminals come with one of them.       *)
EXTENDS Front

L(n, g, v) == [name |-> n, gen |-> g, value |-> v]

MCLines == {L(1, 1, 20), L(4, 1, 31), L(4, 3, 25), L(2, 1, 5), Malformed}
MCFiles ==
  [lines : UNION {[1..n -> MCLines] : n \in 0..4}, newline : BOOLEAN]

MCOpened ==
  {[lines |-> <<L(4, 1, 31), L(1, 1, 20), L(2, 1, 5), L(4, 3, 25)>>, newline |-> FALSE]}

MCRequests ==
  {[op |-> "list_movies", gen |-> 1], [op |-> "list_movies", gen |-> 2],
   [op |-> "list_gens", gen |-> None], [op |-> "list_users", gen |-> None],
   [op |-> "start", gen |-> None], [op |-> "ack", gen |-> None]}
=============================================================================
