------------------------------ MODULE Dictionary ------------------------------
(***************************************************************************)
(* What the callers of the hash table expect of it: a set of elements in   *)
(* which a key occurs at most once.                                        *)
(***************************************************************************)

CONSTANTS
    Keys,
    Elements,
    Key,        \* Key[e]: the key of e
    NoMemory,   \* TRUE if an insertion that takes place may answer No
    Yes, Erased, No   \* the answers other than an element

VARIABLES
    stored,   \* the elements in the dictionary
    answer    \* what the last operation answered

vars == <<stored, answer>>

Matching(k) == {e \in stored : Key[e] = k}

Init == stored = {} /\ answer = No

Insert ==
    \E e \in Elements :
        IF Matching(Key[e]) = {}
        THEN /\ stored' = stored \cup {e}
             /\ answer' = Yes \/ (NoMemory /\ answer' = No)
        ELSE stored' = stored /\ answer' = No

Delete ==
    \E k \in Keys :
        /\ stored' = stored \ Matching(k)
        /\ answer' = IF Matching(k) = {} THEN No ELSE Erased

Find ==
    \E k \in Keys :
        /\ stored' = stored
        /\ IF Matching(k) = {} THEN answer' = No ELSE answer' \in Matching(k)

Next == Insert \/ Delete \/ Find

Spec == Init /\ [][Next]_vars
=============================================================================
