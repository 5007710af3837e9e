------------------------------ MODULE MCPurchase ------------------------------
(* Instances of Purchase for TLC.                                          *)
EXTENDS Purchase, TLC

CONSTANTS p1, p2, visa, master, typo, ana, beto, r1, r2, r3

(* r1 and r2 want the money of one account, which has enough for one of    *)
(* them and then exactly the price of the other; r3 names a service that   *)
(* has no such account, or (Unknown) a service that does not exist.        *)
On(f) == [r \in Purchases |-> f[r]]

AskedOf   == On((r1 :> visa) @@ (r2 :> visa) @@ (r3 :> master))
Unknown   == On((r1 :> visa) @@ (r2 :> visa) @@ (r3 :> typo))
AccountOf == On((r1 :> ana) @@ (r2 :> ana) @@ (r3 :> beto))
PriceOf   == On((r1 :> 3) @@ (r2 :> 2) @@ (r3 :> 2))
Money     == (visa :> (ana :> 4 @@ beto :> 3)) @@ (master :> (ana :> 2 @@ beto :> 0))
Known     == {<<visa, ana>>, <<master, ana>>, <<visa, beto>>}

Symmetric == Permutations(Process)
=============================================================================
