------------------------------ MODULE TicketBook ------------------------------
(***************************************************************************)
(* What a buyer may expect of the ticket office, with no processes, files  *)
(* or crashes: a number is sold once, a ticket starts out bound to the     *)
(* movie that was bought with the downloads that were sold, and each use   *)
(* takes one of them until it is gone.  Tickets implements this as long as *)
(* one up-to-date process writes and what it could not save is not         *)
(* forgotten.                                                              *)
(***************************************************************************)
EXTENDS Naturals

CONSTANTS
    Numbers,     \* ticket numbers
    Movies,
    Downloads,   \* how many downloads a ticket may be sold for
    NoTicket

VARIABLES
    book,   \* the tickets that can still be used
    next,   \* no number from here on has been given to a sale
    sold    \* the numbers that were sold, and the movie of each

vars == <<book, next, sold>>

Init ==
    /\ book = [n \in Numbers |-> NoTicket]
    /\ next = 0
    /\ sold = [n \in Numbers |-> NoTicket]

(* A sale begins by taking a number; if it is abandoned the number is lost. *)
Reserve ==
    /\ next' = next + 1
    /\ UNCHANGED <<book, sold>>

Sell ==
    \E n \in Numbers, m \in Movies, q \in Downloads :
        /\ n < next
        /\ sold[n] = NoTicket
        /\ sold' = [sold EXCEPT ![n] = m]
        /\ book' = [book EXCEPT ![n] = [path |-> m, left |-> q]]
        /\ UNCHANGED next

Use ==
    \E n \in Numbers :
        /\ book[n] # NoTicket
        /\ book' = [book EXCEPT ![n] =
                       IF @.left = 1 THEN NoTicket
                                     ELSE [path |-> @.path, left |-> @.left - 1]]
        /\ UNCHANGED <<next, sold>>

Next == Reserve \/ Sell \/ Use

Spec == Init /\ [][Next]_vars
=============================================================================
