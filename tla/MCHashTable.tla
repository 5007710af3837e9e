----------------------------- MODULE MCHashTable -----------------------------
(* Instances of HashTable for TLC.                                         *)
EXTENDS HashTable, TLC

CONSTANTS a, b, c, d, a1, a2, b1, c1, d1

(* The sums of characters of four user names: some share a home in each    *)
(* table size, and 5, 12, 26 all do in the one of 7 slots.                 *)
CodeSum == (a :> 5) @@ (b :> 26) @@ (c :> 12) @@ (d :> 20)
CodeSumHash(k, size) == CodeSum[k] % size

KeyOf == (a1 :> a) @@ (a2 :> a) @@ (b1 :> b) @@ (c1 :> c) @@ (d1 :> d)
=============================================================================
