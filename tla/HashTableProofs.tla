--------------------------- MODULE HashTableProofs ---------------------------
(***************************************************************************)
(* Proofs about module HashTable, for any keys, elements, hash function    *)
(* and initial size: the invariants, that no search probes for ever as     *)
(* long as memory for the growth is found, and that the table then is a    *)
(* dictionary.                                                             *)
(***************************************************************************)
EXTENDS HashTable, FiniteSetTheorems, TLAPS

(***************************************************************************)
(* Probing: the nearest slot of a set exists and is unique.                *)
(***************************************************************************)

LEMMA LeastNumber ==
    ASSUME NEW T \in SUBSET Nat, T # {}
    PROVE  \E x \in T : \A y \in T : x <= y
<1>1. \E R : /\ IsWellFoundedOn(R, Nat)
             /\ \A x, y \in Nat : <<y, x>> \in R <=> y < x
  <2> DEFINE R == OpToRel(<, Nat)
  <2>1. IsWellFoundedOn(R, Nat)
    BY NatLessThanWellFounded
  <2>2. \A x, y \in Nat : <<y, x>> \in R <=> y < x
    BY DEF OpToRel
  <2> HIDE DEF R
  <2> QED
    BY <2>1, <2>2
<1>2. PICK R : /\ IsWellFoundedOn(R, Nat)
               /\ \A x, y \in Nat : <<y, x>> \in R <=> y < x
  BY <1>1
<1>3. PICK x \in T : \A y \in T : ~(<<y, x>> \in R)
  BY <1>2, WFMin
<1>4. ASSUME NEW y \in T
      PROVE  x <= y
  <2>1. x \in Nat /\ y \in Nat
    OBVIOUS
  <2>2. ~(y < x)
    BY <1>2, <1>3, <2>1
  <2> QED
    BY <2>1, <2>2
<1> QED
  BY <1>4

LEMMA TurnsType ==
    ASSUME NEW dim \in Nat, NEW home \in Slots(dim), NEW p \in Slots(dim)
    PROVE  Turns(home, p, dim) \in Slots(dim)
BY DEF Turns, Slots

LEMMA TurnsInjective ==
    ASSUME NEW dim \in Nat, NEW home \in Slots(dim),
           NEW p \in Slots(dim), NEW q \in Slots(dim),
           Turns(home, p, dim) = Turns(home, q, dim)
    PROVE  p = q
BY DEF Turns, Slots

LEMMA NearestExists ==
    ASSUME NEW dim \in Nat, NEW home \in Slots(dim),
           NEW S \in SUBSET Slots(dim), S # {}
    PROVE  IsNearest(Nearest(S, home, dim), S, home, dim)
<1> DEFINE T == {Turns(home, q, dim) : q \in S}
<1>1. \A q \in S : Turns(home, q, dim) \in Nat
  BY TurnsType DEF Slots
<1>2. PICK t \in T : \A u \in T : t <= u
  <2>1. T \in SUBSET Nat /\ T # {}
    BY <1>1
  <2> QED
    BY <2>1, LeastNumber
<1>3. PICK p \in S : t = Turns(home, p, dim)
  BY <1>2
<1>4. \A q \in S : Turns(home, p, dim) <= Turns(home, q, dim)
  BY <1>2, <1>3
<1>5. \E q \in S : IsNearest(q, S, home, dim)
  BY <1>4 DEF IsNearest
<1> QED
  BY <1>5 DEF Nearest, IsNearest

LEMMA NearestUnique ==
    ASSUME NEW dim \in Nat, NEW home \in Slots(dim), NEW S \in SUBSET Slots(dim),
           NEW p, NEW q, IsNearest(p, S, home, dim), IsNearest(q, S, home, dim)
    PROVE  p = q
<1>1. p \in Slots(dim) /\ q \in Slots(dim)
  BY DEF IsNearest
<1>2. Turns(home, p, dim) \in Int /\ Turns(home, q, dim) \in Int
  BY <1>1, TurnsType DEF Slots
<1>3. Turns(home, p, dim) = Turns(home, q, dim)
  BY <1>2 DEF IsNearest
<1> QED
  BY <1>1, <1>3, TurnsInjective

(***************************************************************************)
(* Tables in which each element is where the probe for its key ends.       *)
(***************************************************************************)

Dims == 1 .. MaxDim

Placed(table, dim) ==
    \A p \in Slots(dim) : table[p] \in Elements =>
        IsNearest(p, Stops(table, dim, Key[table[p]]), hkey(Key[table[p]], dim), dim)

LEMMA HomeType ==
    ASSUME NEW k \in Keys, NEW dim \in Dims
    PROVE  dim \in Nat /\ hkey(k, dim) \in Slots(dim)
BY ConstantsAssumption DEF Dims, Slots

LEMMA SearchEndsAtStop ==
    ASSUME NEW dim \in Dims, NEW table, NEW k \in Keys, Stops(table, dim, k) # {}
    PROVE  IsNearest(SearchEnd(table, dim, k), Stops(table, dim, k), hkey(k, dim), dim)
BY HomeType, NearestExists DEF SearchEnd, Stops

(* A key is found where it is stored.                                      *)
LEMMA SearchFinds ==
    ASSUME NEW dim \in Dims, NEW table \in [Slots(dim) -> Slot], Placed(table, dim),
           NEW k \in Keys, NEW p \in Slots(dim), Holds(table, p, k)
    PROVE  Stops(table, dim, k) # {} /\ SearchEnd(table, dim, k) = p
<1>1. IsNearest(p, Stops(table, dim, k), hkey(k, dim), dim)
  BY DEF Placed, Holds
<1>2. Stops(table, dim, k) # {} /\ Stops(table, dim, k) \in SUBSET Slots(dim)
  BY <1>1 DEF IsNearest, Stops
<1>3. IsNearest(SearchEnd(table, dim, k), Stops(table, dim, k), hkey(k, dim), dim)
  BY <1>2, SearchEndsAtStop
<1> QED
  BY <1>1, <1>2, <1>3, HomeType, NearestUnique

LEMMA KeysAreDistinct ==
    ASSUME NEW dim \in Dims, NEW table \in [Slots(dim) -> Slot], Placed(table, dim),
           NEW p \in Slots(dim), NEW q \in Slots(dim),
           table[p] \in Elements, table[q] \in Elements,
           Key[table[p]] = Key[table[q]]
    PROVE  p = q
<1>1. Key[table[p]] \in Keys
  BY ConstantsAssumption
<1>2. Holds(table, p, Key[table[p]]) /\ Holds(table, q, Key[table[p]])
  BY DEF Holds
<1> QED
  BY <1>1, <1>2, SearchFinds

LEMMA HasIsStored ==
    ASSUME NEW dim \in Dims, NEW table \in [Slots(dim) -> Slot], Placed(table, dim),
           NEW k \in Keys, Stops(table, dim, k) # {}
    PROVE  /\ SearchEnd(table, dim, k) \in Slots(dim)
           /\ Has(table, dim, k) <=> \E p \in Slots(dim) : Holds(table, p, k)
           /\ ~Has(table, dim, k) => table[SearchEnd(table, dim, k)] = PHYSICAL
<1>1. SearchEnd(table, dim, k) \in Stops(table, dim, k)
  BY SearchEndsAtStop DEF IsNearest
<1> QED
  BY <1>1, SearchFinds DEF Has, Stops

(***************************************************************************)
(* What an insertion and a deletion do to such a table.                    *)
(***************************************************************************)

LEMMA FreeSlotIsFree ==
    ASSUME NEW dim \in Dims, NEW table \in [Slots(dim) -> Slot], Placed(table, dim),
           NEW k \in Keys, Stops(table, dim, k) # {}, ~Has(table, dim, k)
    PROVE  LET f == FreeSlot(table, dim, k) IN
           /\ f \in Slots(dim)
           /\ table[f] \in {PHYSICAL, LOGICAL}
           /\ \A q \in Stops(table, dim, k) :
                 Turns(hkey(k, dim), f, dim) <= Turns(hkey(k, dim), q, dim)
<1> DEFINE s == SearchEnd(table, dim, k)
           home == hkey(k, dim)
           H == Holes(table, dim, k)
<1>1. IsNearest(s, Stops(table, dim, k), home, dim)
  BY SearchEndsAtStop
<1>2. s \in Slots(dim) /\ table[s] = PHYSICAL
  BY HasIsStored
<1>3. CASE H = {}
  BY <1>1, <1>2, <1>3 DEF FreeSlot, IsNearest
<1>4. CASE H # {}
  <2>1. H \in SUBSET Slots(dim)
    BY DEF Holes
  <2>2. IsNearest(Nearest(H, home, dim), H, home, dim)
    BY <1>4, <2>1, HomeType, NearestExists
  <2>3. PICK f \in H : f = FreeSlot(table, dim, k)
    BY <1>4, <2>2 DEF FreeSlot, IsNearest
  <2>4. f \in Slots(dim) /\ table[f] = LOGICAL /\ Turns(home, f, dim) < Turns(home, s, dim)
    BY <2>3 DEF Holes
  <2>5. \A q \in Slots(dim) : Turns(home, q, dim) \in Int
    BY HomeType, TurnsType DEF Slots
  <2>6. ASSUME NEW q \in Stops(table, dim, k)
        PROVE  Turns(home, f, dim) <= Turns(home, q, dim)
    <3>1. q \in Slots(dim) /\ Turns(home, s, dim) <= Turns(home, q, dim)
      BY <1>1 DEF IsNearest, Stops
    <3> QED
      BY <1>2, <2>4, <2>5, <3>1
  <2> QED
    BY <2>3, <2>4, <2>6
<1> QED
  BY <1>3, <1>4

LEMMA PutKeepsPlaced ==
    ASSUME NEW dim \in Dims, NEW table \in [Slots(dim) -> Slot], Placed(table, dim),
           NEW e \in Elements, Stops(table, dim, Key[e]) # {}, ~Has(table, dim, Key[e])
    PROVE  Placed(Put(table, dim, e), dim)
<1> DEFINE k == Key[e]
           new == Put(table, dim, e)
<1>1. k \in Keys
  BY ConstantsAssumption
<1>2. PICK f \in Slots(dim) : f = FreeSlot(table, dim, k)
  BY <1>1, FreeSlotIsFree
<1>3. /\ table[f] \in {PHYSICAL, LOGICAL}
      /\ \A q \in Stops(table, dim, k) :
             Turns(hkey(k, dim), f, dim) <= Turns(hkey(k, dim), q, dim)
  BY <1>1, <1>2, FreeSlotIsFree
<1>4. new = [table EXCEPT ![f] = e]
  BY <1>2 DEF Put
<1>5. \A p \in Slots(dim) : ~Holds(table, p, k)
  BY <1>1, HasIsStored
<1>6. new[f] = e /\ \A p \in Slots(dim) : p # f => new[p] = table[p]
  BY <1>4
<1> HIDE DEF new
<1>7. e \notin {PHYSICAL, LOGICAL}
  BY ConstantsAssumption
<1>8. IsNearest(f, Stops(new, dim, k), hkey(k, dim), dim)
  <2>1. f \in Stops(new, dim, k)
    BY <1>6 DEF Stops, Holds
  <2>2. ASSUME NEW q \in Stops(new, dim, k), q # f
        PROVE  q \in Stops(table, dim, k)
    BY <1>6, <2>2 DEF Stops, Holds
  <2>3. Turns(hkey(k, dim), f, dim) \in Int
    BY <1>1, HomeType, TurnsType DEF Slots
  <2> QED
    BY <1>3, <2>1, <2>2, <2>3 DEF IsNearest
<1>9. ASSUME NEW p \in Slots(dim), p # f, new[p] \in Elements
      PROVE  IsNearest(p, Stops(new, dim, Key[new[p]]), hkey(Key[new[p]], dim), dim)
  <2>1. new[p] = table[p] /\ Key[table[p]] # k
    BY <1>5, <1>6, <1>9 DEF Holds
  <2>2. Stops(new, dim, Key[new[p]]) \subseteq Stops(table, dim, Key[table[p]])
    BY <1>6, <1>7, <2>1 DEF Stops, Holds
  <2>3. p \in Stops(new, dim, Key[new[p]])
    BY <1>9 DEF Stops, Holds
  <2>4. IsNearest(p, Stops(table, dim, Key[table[p]]), hkey(Key[table[p]], dim), dim)
    BY <1>9, <2>1 DEF Placed
  <2> QED
    BY <2>1, <2>2, <2>3, <2>4 DEF IsNearest
<1> QED
  BY <1>6, <1>8, <1>9 DEF Placed, new

LEMMA MarkKeepsPlaced ==
    ASSUME NEW dim \in Dims, NEW table \in [Slots(dim) -> Slot], Placed(table, dim),
           NEW pos \in Slots(dim), table[pos] \in Elements,
           NEW new, new = [table EXCEPT ![pos] = LOGICAL]
    PROVE  Placed(new, dim)
<1>1. new[pos] = LOGICAL /\ \A p \in Slots(dim) : p # pos => new[p] = table[p]
  OBVIOUS
<1>2. LOGICAL \notin Elements /\ LOGICAL # PHYSICAL
  BY ConstantsAssumption
<1>3. ASSUME NEW p \in Slots(dim), new[p] \in Elements
      PROVE  IsNearest(p, Stops(new, dim, Key[new[p]]), hkey(Key[new[p]], dim), dim)
  <2>1. new[p] = table[p]
    BY <1>1, <1>2, <1>3
  <2>2. IsNearest(p, Stops(table, dim, Key[table[p]]), hkey(Key[table[p]], dim), dim)
    BY <1>3, <2>1 DEF Placed
  <2>3. Stops(new, dim, Key[new[p]]) \subseteq Stops(table, dim, Key[table[p]])
    BY <1>1, <1>2, <2>1 DEF Stops, Holds
  <2>4. p \in Stops(new, dim, Key[new[p]])
    BY <1>3 DEF Stops, Holds
  <2> QED
    BY <2>1, <2>2, <2>3, <2>4 DEF IsNearest
<1> QED
  BY <1>3 DEF Placed

(* A slot may only become PHYSICAL if the one after it is: a probe that    *)
(* went through it would have stopped there.                               *)
LEMMA ClearKeepsPlaced ==
    ASSUME NEW dim \in Dims, NEW table \in [Slots(dim) -> Slot], Placed(table, dim),
           NEW pos \in Slots(dim), table[pos] \in Elements,
           NEW next, next = IF pos + 1 = dim THEN 0 ELSE pos + 1,
           table[next] = PHYSICAL,
           NEW new, new = [table EXCEPT ![pos] = PHYSICAL]
    PROVE  Placed(new, dim)
<1>1. new[pos] = PHYSICAL /\ \A p \in Slots(dim) : p # pos => new[p] = table[p]
  OBVIOUS
<1>2. PHYSICAL \notin Elements
  BY ConstantsAssumption
<1>3. next \in Slots(dim) /\ next # pos
  BY <1>2 DEF Slots, Dims
<1>4. ASSUME NEW p \in Slots(dim), new[p] \in Elements
      PROVE  IsNearest(p, Stops(new, dim, Key[new[p]]), hkey(Key[new[p]], dim), dim)
  <2> DEFINE k == Key[table[p]]
             home == hkey(k, dim)
  <2>1. new[p] = table[p] /\ p # pos
    BY <1>1, <1>2, <1>4
  <2>2. IsNearest(p, Stops(table, dim, k), home, dim)
    BY <1>4, <2>1 DEF Placed
  <2>3. p \in Stops(new, dim, k)
    BY <1>4, <2>1 DEF Stops, Holds
  <2>4. Stops(new, dim, k) \subseteq Stops(table, dim, k) \cup {pos}
    BY <1>1 DEF Stops, Holds
  <2>5. k \in Keys
    BY <1>4, <2>1, ConstantsAssumption
  <2>6. Turns(home, p, dim) <= Turns(home, next, dim)
    BY <1>3, <2>2 DEF IsNearest, Stops
  <2>7. p # next
    BY <1>2, <1>4, <2>1
  <2>8. Turns(home, p, dim) # Turns(home, next, dim)
    BY <1>3, <2>5, <2>7, HomeType, TurnsInjective
  <2>9. Turns(home, p, dim) <= Turns(home, pos, dim)
    <3>1. home \in Slots(dim) /\ dim \in Nat
      BY <2>5, HomeType
    <3> QED
      BY <1>3, <2>6, <2>8, <3>1 DEF Turns, Slots
  <2> QED
    BY <2>1, <2>2, <2>3, <2>4, <2>9 DEF IsNearest
<1> QED
  BY <1>4 DEF Placed

(***************************************************************************)
(* Counting the slots that are not PHYSICAL.                               *)
(***************************************************************************)

Used(table, dim) == {p \in Slots(dim) : table[p] # PHYSICAL}

LEMMA SlotsFinite ==
    ASSUME NEW dim \in Nat
    PROVE  IsFiniteSet(Slots(dim)) /\ Cardinality(Slots(dim)) = dim
BY FS_Interval DEF Slots

LEMMA UsedFinite ==
    ASSUME NEW dim \in Nat, NEW table
    PROVE  IsFiniteSet(Used(table, dim)) /\ Cardinality(Used(table, dim)) \in Nat
<1>1. Used(table, dim) \in SUBSET Slots(dim)
  BY DEF Used
<1> QED
  BY <1>1, SlotsFinite, FS_Subset, FS_CardinalityType

LEMMA EmptyIsUnused ==
    ASSUME NEW dim \in Nat
    PROVE  Cardinality(Used(Empty(dim), dim)) = 0
<1>1. Used(Empty(dim), dim) = {}
  BY DEF Used, Empty
<1> QED
  BY <1>1, FS_EmptySet

(* One PHYSICAL slot is enough for every probe to stop.                    *)
LEMMA ProbesStop ==
    ASSUME NEW dim \in Nat, NEW table, Cardinality(Used(table, dim)) < dim, NEW k
    PROVE  Stops(table, dim, k) # {}
<1>1. Used(table, dim) # Slots(dim)
  BY SlotsFinite
<1>2. PICK p \in Slots(dim) : p \notin Used(table, dim)
  BY <1>1 DEF Used
<1> QED
  BY <1>2 DEF Used, Stops

LEMMA PutUsesOneMore ==
    ASSUME NEW dim \in Dims, NEW table \in [Slots(dim) -> Slot], Placed(table, dim),
           NEW e \in Elements, Stops(table, dim, Key[e]) # {}, ~Has(table, dim, Key[e])
    PROVE  /\ Put(table, dim, e) \in [Slots(dim) -> Slot]
           /\ Cardinality(Used(Put(table, dim, e), dim)) <= Cardinality(Used(table, dim)) + 1
<1>1. PICK f \in Slots(dim) : f = FreeSlot(table, dim, Key[e])
  BY FreeSlotIsFree, ConstantsAssumption
<1>2. PICK new \in [Slots(dim) -> Slot] : new = Put(table, dim, e)
  BY <1>1 DEF Put, Slot
<1>3. \A p \in Slots(dim) : p # f => new[p] = table[p]
  BY <1>1, <1>2 DEF Put
<1>4. Used(new, dim) \in SUBSET (Used(table, dim) \cup {f})
  BY <1>3 DEF Used
<1>5. /\ IsFiniteSet(Used(table, dim) \cup {f})
      /\ Cardinality(Used(table, dim) \cup {f}) <= Cardinality(Used(table, dim)) + 1
      /\ Cardinality(Used(table, dim) \cup {f}) \in Nat
  BY UsedFinite, FS_AddElement, FS_CardinalityType DEF Dims
<1>6. Cardinality(Used(new, dim)) <= Cardinality(Used(table, dim) \cup {f})
  BY <1>4, <1>5, FS_Subset
<1>7. Cardinality(Used(new, dim)) \in Nat /\ Cardinality(Used(table, dim)) \in Nat
  BY UsedFinite DEF Dims
<1> QED
  BY <1>2, <1>5, <1>6, <1>7

LEMMA DeleteUsesNoMore ==
    ASSUME NEW dim \in Dims, NEW table, NEW new, Used(new, dim) \subseteq Used(table, dim)
    PROVE  Cardinality(Used(new, dim)) <= Cardinality(Used(table, dim))
<1>1. Used(new, dim) \in SUBSET Used(table, dim)
  OBVIOUS
<1> QED
  BY <1>1, UsedFinite, FS_Subset DEF Dims
-----------------------------------------------------------------------------
(***************************************************************************)
(* The inductive invariant.  That an element is found is not inductive:    *)
(* Rehash inserts into a table that must have room and must not hold the   *)
(* key yet.                                                                *)
(***************************************************************************)

Apart(size) ==
    \A p \in Slots(tabledim), q \in Slots(size) :
        q >= i /\ htable[p] \in Elements /\ backup[q] \in Elements
            => Key[htable[p]] # Key[backup[q]]

Rehashing(size) ==
    /\ tabledim = 2 * size + 1
    /\ backup \in [Slots(size) -> Slot]
    /\ Placed(backup, size)
    /\ qtty <= i /\ i <= size
    /\ Apart(size)

TableInv ==
    /\ TypeOK
    /\ Placed(htable, tabledim)
    /\ Cardinality(Used(htable, tabledim)) <= qtty
    /\ pc = "rehash" => \E size \in Dims : Rehashing(size)
    /\ pc # "rehash" => backup = Empty(0) /\ i = 0

(* The table an insertion works on, made if need be.                       *)
LEMMA TableFacts ==
    ASSUME TableInv
    PROVE  /\ Dim \in Dims
           /\ Table \in [Slots(Dim) -> Slot]
           /\ Placed(Table, Dim)
           /\ Cardinality(Used(Table, Dim)) <= qtty
<1>1. CASE tabledim = 0
  <2>1. Dim = InitSize /\ Table = Empty(InitSize)
    BY <1>1 DEF Dim, Table
  <2>2. Placed(Empty(InitSize), InitSize)
    BY ConstantsAssumption DEF Placed, Empty
  <2> QED
    BY <2>1, <2>2, EmptyIsUnused, ConstantsAssumption
    DEF TableInv, TypeOK, Dims, Empty, Slot
<1>2. CASE tabledim # 0
  BY <1>2 DEF TableInv, TypeOK, Dims, Dim, Table
<1> QED
  BY <1>1, <1>2

LEMMA TableInvInit == Init => TableInv
<1> SUFFICES ASSUME Init PROVE TableInv
  OBVIOUS
<1>1. Slots(0) = {}
  BY DEF Slots
<1>2. TypeOK
  BY <1>1, ConstantsAssumption DEF Init, TypeOK, Empty
<1>3. Placed(htable, tabledim)
  BY <1>1 DEF Init, Placed
<1>4. Cardinality(Used(htable, tabledim)) <= qtty
  BY EmptyIsUnused DEF Init
<1> QED
  BY <1>2, <1>3, <1>4 DEF Init, TableInv

(* Operations that leave the table alone.                                  *)
LEMMA ReadKeeps ==
    ASSUME TableInv, UNCHANGED <<htable, tabledim, qtty, backup, i>>,
           pc # "rehash", pc' \in {"idle", "hung"}, answer' \in Elements \cup {Yes, Erased, No}
    PROVE  TableInv'
BY DEF TableInv, TypeOK, Placed, Used, Stops, Holds, IsNearest, Slots, Turns

LEMMA HInsertKeeps ==
    ASSUME TableInv, NEW e \in Elements, HInsert(e) \/ HInsertNoMemory(e)
    PROVE  TableInv'
<1>1. PICK dim \in Dims : dim = Dim
  BY TableFacts
<1>2. PICK table \in [Slots(dim) -> Slot] : table = Table
  BY <1>1, TableFacts
<1>3. Placed(table, dim) /\ Cardinality(Used(table, dim)) <= qtty
  BY <1>1, <1>2, TableFacts
<1>4. /\ Stops(table, dim, Key[e]) # {} /\ ~Has(table, dim, Key[e])
      /\ pc = "idle" /\ pc' = "idle"
      /\ htable' = Put(table, dim, e) /\ tabledim' = dim /\ qtty' = qtty + 1
      /\ UNCHANGED <<backup, i>> /\ answer' \in {Yes, No}
  BY <1>1, <1>2 DEF HInsert, HInsertNoMemory, Store
<1>5. PICK new \in [Slots(dim) -> Slot] : new = Put(table, dim, e)
  BY <1>3, <1>4, PutUsesOneMore
<1>6. Placed(new, dim) /\ Cardinality(Used(new, dim)) <= qtty + 1
  <2>1. Cardinality(Used(new, dim)) <= Cardinality(Used(table, dim)) + 1
    BY <1>3, <1>4, <1>5, PutUsesOneMore
  <2> QED
    BY <1>3, <1>4, <1>5, <2>1, UsedFinite, PutKeepsPlaced DEF TableInv, TypeOK, Dims
<1>7. htable' = new /\ tabledim' = dim
  BY <1>4, <1>5
<1>8. TypeOK'
  BY <1>4, <1>7 DEF TableInv, TypeOK, Dims
<1>9. Placed(htable, tabledim)' /\ Cardinality(Used(htable, tabledim))' <= qtty'
  BY <1>4, <1>6, <1>7 DEF Placed, Used, Stops, Holds, IsNearest, Slots, Turns
<1> QED
  BY <1>4, <1>8, <1>9 DEF TableInv

LEMMA HInsertGrowsKeeps ==
    ASSUME TableInv, NEW e \in Elements, HInsertGrows(e)
    PROVE  TableInv'
<1>1. PICK size \in Dims : size = Dim
  BY TableFacts
<1>2. PICK table \in [Slots(size) -> Slot] : table = Table
  BY <1>1, TableFacts
<1>3. Placed(table, size)
  BY <1>1, <1>2, TableFacts
<1>4. /\ Stops(table, size, Key[e]) # {} /\ ~Has(table, size, Key[e])
      /\ pc' = "rehash" /\ answer' = Yes /\ i' = 0 /\ qtty' = 0
      /\ backup' = Put(table, size, e)
      /\ tabledim' = 2 * size + 1 /\ htable' = Empty(2 * size + 1)
      /\ 2 * size + 1 <= MaxDim
  BY <1>1, <1>2 DEF HInsertGrows, Store
<1>5. PICK old \in [Slots(size) -> Slot] : old = Put(table, size, e)
  BY <1>3, <1>4, PutUsesOneMore
<1>6. Placed(old, size)
  BY <1>3, <1>4, <1>5, PutKeepsPlaced
<1>7. PICK dim \in Dims : dim = 2 * size + 1
  BY <1>4, ConstantsAssumption DEF Dims
<1>8. htable' = Empty(dim) /\ tabledim' = dim /\ backup' = old
  BY <1>4, <1>5, <1>7
<1>9. \A p \in Slots(dim) : htable'[p] \notin Elements
  BY <1>8, ConstantsAssumption DEF Empty
<1>10. TypeOK'
  BY <1>4, <1>7, <1>8, ConstantsAssumption DEF TypeOK, Dims, Empty, Slot
<1>11. Placed(htable, tabledim)'
  BY <1>8, <1>9 DEF Placed
<1>12. Cardinality(Used(htable, tabledim))' <= qtty'
  <2>1. Cardinality(Used(Empty(dim), dim)) = 0
    BY EmptyIsUnused DEF Dims
  <2>2. Used(htable, tabledim)' = Used(Empty(dim), dim)
    BY <1>8 DEF Used
  <2> QED
    BY <1>4, <2>1, <2>2
<1>13. Rehashing(size)'
  <2>1. Apart(size)'
    BY <1>8, <1>9 DEF Apart
  <2>2. Placed(backup, size)'
    BY <1>6, <1>8 DEF Placed, Stops, Holds, IsNearest, Slots, Turns
  <2> QED
    BY <1>4, <1>5, <1>8, <2>1, <2>2 DEF Rehashing, Dims
<1> QED
  BY <1>4, <1>10, <1>11, <1>12, <1>13 DEF TableInv

(* While Rehash runs the new table has room, and the key of the next       *)
(* element is not in it yet.                                               *)
LEMMA RehashHasRoom ==
    ASSUME TableInv, pc = "rehash", i \in DOMAIN backup, backup[i] \in Elements
    PROVE  /\ tabledim \in Dims
           /\ Stops(htable, tabledim, Key[backup[i]]) # {}
           /\ ~Has(htable, tabledim, Key[backup[i]])
<1>1. PICK size \in Dims : Rehashing(size)
  BY DEF TableInv
<1>2. i \in Slots(size)
  BY <1>1 DEF Rehashing
<1>3. PICK dim \in Dims : dim = tabledim /\ i < dim /\ qtty < dim
  BY <1>1, <1>2 DEF Rehashing, TableInv, TypeOK, Dims, Slots
<1>4. PICK table \in [Slots(dim) -> Slot] : table = htable
  BY <1>3 DEF TableInv, TypeOK
<1>5. Placed(table, dim) /\ Cardinality(Used(table, dim)) < dim
  BY <1>3, <1>4, UsedFinite DEF TableInv, TypeOK, Dims
<1>6. PICK k \in Keys : k = Key[backup[i]]
  BY ConstantsAssumption
<1>7. Stops(table, dim, k) # {}
  BY <1>5, ProbesStop DEF Dims
<1>8. \A p \in Slots(dim) : ~Holds(table, p, k)
  BY <1>1, <1>2, <1>3, <1>4, <1>6 DEF Rehashing, Apart, Holds, TableInv, TypeOK
<1>9. ~Has(table, dim, k)
  BY <1>5, <1>7, <1>8, HasIsStored
<1> QED
  BY <1>3, <1>4, <1>6, <1>7, <1>9

LEMMA RehashTurnKeeps ==
    ASSUME TableInv, RehashTurn
    PROVE  TableInv'
<1>1. PICK size \in Dims : Rehashing(size)
  BY DEF TableInv, RehashTurn
<1>2. i \in Slots(size) /\ i' = i + 1 /\ UNCHANGED <<pc, tabledim, backup, answer>>
  BY <1>1 DEF Rehashing, RehashTurn
<1>3. PICK dim \in Dims : dim = tabledim
  BY <1>1 DEF Rehashing, TableInv, TypeOK, Dims
<1>4. PICK table \in [Slots(dim) -> Slot] : table = htable
  BY <1>3 DEF TableInv, TypeOK
<1>5. Placed(table, dim) /\ Cardinality(Used(table, dim)) <= qtty
  BY <1>3, <1>4 DEF TableInv
<1>6. Placed(backup, size)'
  BY <1>1, <1>2 DEF Rehashing, Placed, Stops, Holds, IsNearest, Slots, Turns
<1>7. CASE backup[i] \notin Elements
  <2>1. UNCHANGED <<htable, qtty>>
    BY <1>7 DEF RehashTurn
  <2>2. Placed(htable, tabledim)' /\ Cardinality(Used(htable, tabledim))' <= qtty'
    BY <1>2, <2>1 DEF TableInv, Placed, Used, Stops, Holds, IsNearest, Slots, Turns
  <2>3. Apart(size)'
    BY <1>1, <1>2, <2>1 DEF Rehashing, Apart, TableInv, TypeOK, Slots
  <2>4. Rehashing(size)'
    BY <1>1, <1>2, <1>6, <2>1, <2>3 DEF Rehashing, TableInv, TypeOK, Dims, Slots
  <2>5. TypeOK'
    BY <1>1, <1>2, <2>1 DEF TableInv, TypeOK, Rehashing, Slots, Dims
  <2> QED
    BY <1>2, <2>2, <2>4, <2>5 DEF TableInv, RehashTurn
<1>8. CASE backup[i] \in Elements
  <2>1. PICK e \in Elements : e = backup[i]
    BY <1>8
  <2>2. Stops(table, dim, Key[e]) # {} /\ ~Has(table, dim, Key[e])
    BY <1>2, <1>3, <1>4, <1>8, <2>1, RehashHasRoom DEF RehashTurn
  <2>3. htable' = Put(table, dim, e) /\ tabledim' = dim /\ qtty' = qtty + 1
    BY <1>2, <1>3, <1>4, <1>8, <2>1 DEF RehashTurn
  <2>4. PICK new \in [Slots(dim) -> Slot] : new = Put(table, dim, e)
    BY <1>5, <2>2, PutUsesOneMore
  <2>5. Placed(new, dim) /\ Cardinality(Used(new, dim)) <= qtty + 1
    <3>1. Cardinality(Used(new, dim)) <= Cardinality(Used(table, dim)) + 1
      BY <1>5, <2>2, <2>4, PutUsesOneMore
    <3> QED
      BY <1>5, <2>2, <2>4, <3>1, UsedFinite, PutKeepsPlaced DEF TableInv, TypeOK, Dims
  <2>6. Placed(htable, tabledim)' /\ Cardinality(Used(htable, tabledim))' <= qtty'
    BY <2>3, <2>4, <2>5 DEF Placed, Used, Stops, Holds, IsNearest, Slots, Turns
  <2>7. ASSUME NEW p \in Slots(dim), NEW q \in Slots(size),
               q >= i + 1, new[p] \in Elements, backup[q] \in Elements
        PROVE  Key[new[p]] # Key[backup[q]]
    <3>1. PICK f \in Slots(dim) : f = FreeSlot(table, dim, Key[e])
      BY <1>5, <2>2, FreeSlotIsFree, ConstantsAssumption
    <3>2. CASE p = f
      <4>1. new[p] = e
        BY <2>4, <3>1, <3>2 DEF Put
      <4>2. q # i
        BY <1>2, <2>7 DEF Slots
      <4> QED
        BY <1>1, <1>2, <2>1, <2>7, <4>1, <4>2, KeysAreDistinct DEF Rehashing
    <3>3. CASE p # f
      <4>1. new[p] = htable[p]
        BY <1>4, <2>4, <3>1, <3>3 DEF Put
      <4>2. q >= i
        BY <1>2, <2>7 DEF Slots
      <4> QED
        BY <1>1, <1>3, <2>7, <4>1, <4>2 DEF Rehashing, Apart
    <3> QED
      BY <3>2, <3>3
  <2>8. Rehashing(size)'
    <3>1. Apart(size)'
      BY <1>2, <2>3, <2>4, <2>7 DEF Apart
    <3> QED
      BY <1>1, <1>2, <1>6, <2>3, <3>1 DEF Rehashing, TableInv, TypeOK, Dims, Slots
  <2>9. TypeOK'
    BY <1>1, <1>2, <1>3, <2>3, <2>4 DEF TableInv, TypeOK, Rehashing, Slots, Dims
  <2> QED
    BY <1>2, <2>6, <2>8, <2>9 DEF TableInv, RehashTurn
<1> QED
  BY <1>7, <1>8

LEMMA RehashReturnsKeeps ==
    ASSUME TableInv, RehashReturns
    PROVE  TableInv'
<1>1. UNCHANGED <<htable, tabledim, qtty, answer>> /\ pc' = "idle"
  BY DEF RehashReturns
<1>2. backup' = Empty(0) /\ i' = 0
  BY DEF RehashReturns
<1>3. Placed(htable, tabledim)' /\ Cardinality(Used(htable, tabledim))' <= qtty'
  BY <1>1 DEF TableInv, Placed, Used, Stops, Holds, IsNearest, Slots, Turns
<1>4. TypeOK'
  <2>1. backup' \in [Slots(0) -> Slot] /\ i' \in Nat /\ i' <= 0
    BY <1>2 DEF Empty, Slots
  <2>2. \E dim \in 0 .. MaxDim : backup' \in [Slots(dim) -> Slot] /\ i' <= dim
    BY <2>1, ConstantsAssumption
  <2> QED
    BY <1>1, <2>1, <2>2 DEF TableInv, TypeOK
<1> QED
  BY <1>1, <1>2, <1>3, <1>4 DEF TableInv

LEMMA HDeleteKeeps ==
    ASSUME TableInv, NEW k \in Keys, HDelete(k)
    PROVE  TableInv'
<1>1. PICK dim \in Dims : dim = tabledim
  BY DEF HDelete, TableInv, TypeOK, Dims
<1>2. PICK table \in [Slots(dim) -> Slot] : table = htable
  BY <1>1 DEF TableInv, TypeOK
<1>3. Placed(table, dim) /\ Cardinality(Used(table, dim)) <= qtty
  BY <1>1, <1>2 DEF TableInv
<1>4. Stops(table, dim, k) # {} /\ Has(table, dim, k)
  BY <1>1, <1>2 DEF HDelete
<1>5. PICK pos \in Slots(dim) : pos = SearchEnd(table, dim, k)
  BY <1>3, <1>4, HasIsStored
<1>6. table[pos] \in Elements
  BY <1>4, <1>5 DEF Has, Holds
<1>7. PICK next : next = IF pos + 1 = dim THEN 0 ELSE pos + 1
  OBVIOUS
<1>8. PICK mark \in {PHYSICAL, LOGICAL} :
          /\ mark = IF table[next] = PHYSICAL THEN PHYSICAL ELSE LOGICAL
          /\ htable' = [table EXCEPT ![pos] = mark]
  BY <1>1, <1>2, <1>5, <1>7 DEF HDelete, NextSlot
<1>9. PICK new \in [Slots(dim) -> Slot] : new = [table EXCEPT ![pos] = mark]
  BY <1>8 DEF Slot
<1>10. Placed(new, dim)
  BY <1>3, <1>6, <1>7, <1>8, <1>9, MarkKeepsPlaced, ClearKeepsPlaced
<1>11. Cardinality(Used(new, dim)) <= qtty
  <2>1. table[pos] # PHYSICAL
    BY <1>6, ConstantsAssumption
  <2>2. Used(new, dim) \subseteq Used(table, dim)
    BY <1>9, <2>1 DEF Used
  <2>3. Cardinality(Used(new, dim)) <= Cardinality(Used(table, dim))
    BY <2>2, DeleteUsesNoMore
  <2> QED
    BY <1>3, <2>3, UsedFinite DEF TableInv, TypeOK, Dims
<1>12. htable' = new /\ tabledim' = dim /\ UNCHANGED <<pc, qtty, backup, i>> /\ answer' = Erased
  BY <1>1, <1>8, <1>9 DEF HDelete
<1>13. Placed(htable, tabledim)' /\ Cardinality(Used(htable, tabledim))' <= qtty'
  BY <1>10, <1>11, <1>12 DEF Placed, Used, Stops, Holds, IsNearest, Slots, Turns
<1>14. TypeOK'
  BY <1>1, <1>12 DEF TableInv, TypeOK
<1> QED
  BY <1>12, <1>13, <1>14 DEF TableInv, HDelete

LEMMA LookupAnswers ==
    ASSUME TableInv, NEW k \in Keys, Lookup(k)
    PROVE  answer' \in Elements \cup {No}
BY DEF Lookup, Has, Holds

LEMMA TableInvStep == TableInv /\ [Next]_vars => TableInv'
<1> SUFFICES ASSUME TableInv, [Next]_vars
             PROVE  TableInv'
  OBVIOUS
<1>1. ASSUME NEW e \in Elements, HInsertRepeated(e)
      PROVE  TableInv'
  BY <1>1, ReadKeeps DEF HInsertRepeated
<1>2. ASSUME NEW k \in Keys, HDeleteMissing(k) \/ Lookup(k) \/ NeverReturns(k)
      PROVE  TableInv'
  BY <1>2, ReadKeeps, LookupAnswers DEF HDeleteMissing, Lookup, NeverReturns, TableInv, TypeOK
<1>3. CASE UNCHANGED vars
  BY <1>3 DEF vars, TableInv, TypeOK, Placed, Used, Stops, Holds, IsNearest, Slots, Turns,
              Rehashing, Apart
<1> QED
  BY <1>1, <1>2, <1>3, HInsertKeeps, HInsertGrowsKeeps, HDeleteKeeps,
     RehashTurnKeeps, RehashReturnsKeeps
  DEF Next
-----------------------------------------------------------------------------
(* The table is well formed in every reachable state, with or without      *)
(* memory for its growth.                                                  *)
THEOREM TypeCorrect == Spec => []TypeOK
<1>1. Spec => []TableInv
  BY TableInvInit, TableInvStep, PTL DEF Spec
<1>2. TableInv => TypeOK
  BY DEF TableInv
<1> QED
  BY <1>1, <1>2, PTL

(* Each element is found by the search for its key, whatever insertions,   *)
(* deletions and rehashes led to the table; no key is in it twice.         *)
THEOREM ElementsAreFound == Spec => []EveryElementIsFound
<1>1. Spec => []TableInv
  BY TableInvInit, TableInvStep, PTL DEF Spec
<1>2. ASSUME TableInv
      PROVE  EveryElementIsFound
  <2> SUFFICES ASSUME NEW p \in Slots(tabledim), htable[p] \in Elements
               PROVE  SearchEnd(htable, tabledim, Key[htable[p]]) = p
    BY DEF EveryElementIsFound
  <2>1. tabledim \in Dims /\ htable \in [Slots(tabledim) -> Slot] /\ Placed(htable, tabledim)
    BY <1>2 DEF TableInv, TypeOK, Dims, Slots
  <2>2. Key[htable[p]] \in Keys /\ Holds(htable, p, Key[htable[p]])
    BY ConstantsAssumption DEF Holds
  <2> QED
    BY <2>1, <2>2, SearchFinds
<1> QED
  BY <1>1, <1>2, PTL

(* A table within its load limit has a PHYSICAL slot, where all probes end. *)
LEMMA LoadLimitStopsProbes ==
    ASSUME TableInv, NEW k \in Keys, NeverReturns(k)
    PROVE  Overloaded(qtty, tabledim)
<1> SUFFICES ASSUME ~Overloaded(qtty, tabledim)
             PROVE  FALSE
  OBVIOUS
<1>1. tabledim \in Dims
  BY DEF NeverReturns, TableInv, TypeOK, Dims
<1>2. Cardinality(Used(htable, tabledim)) < tabledim
  BY <1>1, UsedFinite DEF NeverReturns, TableInv, TypeOK, Overloaded, Dims
<1> QED
  BY <1>1, <1>2, ProbesStop DEF NeverReturns, Dims, TableInv, TypeOK

(* The insertions of Rehash stay within the limit of the new table.        *)
LEMMA RehashRunsOnce ==
    ASSUME TableInv, pc = "rehash"
    PROVE  ~Overloaded(qtty, tabledim)
<1>1. PICK size \in Dims : Rehashing(size)
  BY DEF TableInv
<1> QED
  BY <1>1 DEF Rehashing, Overloaded, TableInv, TypeOK, Dims

LEMMA HungIsOverloaded ==
    ASSUME TableInv, SearchesEnd, [Next]_vars, pc' = "hung"
    PROVE  Overloaded(qtty, tabledim)'
<1>1. ASSUME NEW k \in Keys, NeverReturns(k)
      PROVE  Overloaded(qtty, tabledim)'
  BY <1>1, LoadLimitStopsProbes DEF NeverReturns, Overloaded
<1>2. ASSUME NEW e \in Elements,
             HInsertRepeated(e) \/ HInsert(e) \/ HInsertGrows(e) \/ HInsertNoMemory(e)
      PROVE  FALSE
  BY <1>2 DEF HInsertRepeated, HInsert, HInsertGrows, HInsertNoMemory, Store
<1>3. ASSUME NEW k \in Keys, HDeleteMissing(k) \/ HDelete(k) \/ Lookup(k)
      PROVE  FALSE
  BY <1>3 DEF HDeleteMissing, HDelete, Lookup
<1>4. ASSUME RehashTurn \/ RehashReturns
      PROVE  FALSE
  BY <1>4 DEF RehashTurn, RehashReturns
<1>5. CASE UNCHANGED vars
  BY <1>5 DEF vars, SearchesEnd, Overloaded
<1> QED
  BY <1>1, <1>2, <1>3, <1>4, <1>5 DEF Next

(* A search only runs for ever in a table that failed to grow, and Rehash  *)
(* is never called by its own insertions.                                  *)
THEOREM SearchesDoEnd == Spec => []SearchesEnd
<1>1. Init => TableInv
  BY TableInvInit
<1>2. TableInv /\ [Next]_vars => TableInv'
  BY TableInvStep
<1>3. Init => SearchesEnd
  BY DEF Init, SearchesEnd
<1>4. TableInv => (pc = "rehash" => ~Overloaded(qtty, tabledim))
  BY RehashRunsOnce
<1>5. TableInv' => (pc = "rehash" => ~Overloaded(qtty, tabledim))'
  BY <1>4, PTL
<1>6. TableInv /\ TableInv' /\ SearchesEnd /\ [Next]_vars => SearchesEnd'
  BY <1>5, HungIsOverloaded DEF SearchesEnd
<1> QED
  BY <1>1, <1>2, <1>3, <1>6, PTL DEF Spec

(* Between operations at most 60 % of the slots are not PHYSICAL.          *)
HasRoom ==
    /\ pc # "hung"
    /\ pc = "idle" => ~Overloaded(qtty, tabledim)

LEMMA HasRoomStep ==
    ASSUME ~GrowthMayFail, TableInv, HasRoom, [Next]_vars
    PROVE  HasRoom'
<1>1. ASSUME NEW e \in Elements, HInsert(e) \/ HInsertRepeated(e) \/ HInsertGrows(e)
      PROVE  HasRoom'
  BY <1>1 DEF HInsert, HInsertRepeated, HInsertGrows, HasRoom
<1>2. ASSUME NEW k \in Keys, HDeleteMissing(k) \/ HDelete(k) \/ Lookup(k)
      PROVE  HasRoom'
  BY <1>2 DEF HDeleteMissing, HDelete, Lookup, HasRoom
<1>3. ASSUME NEW k \in Keys, NeverReturns(k)
      PROVE  FALSE
  BY <1>3, LoadLimitStopsProbes DEF NeverReturns, HasRoom
<1>4. CASE RehashTurn
  BY <1>4 DEF RehashTurn, HasRoom
<1>5. CASE RehashReturns
  <2>1. PICK size \in Dims : Rehashing(size)
    BY <1>5 DEF TableInv, RehashReturns
  <2>2. ~Overloaded(qtty, tabledim)
    BY <2>1 DEF Rehashing, Overloaded, TableInv, TypeOK, Dims
  <2> QED
    BY <1>5, <2>2 DEF RehashReturns, HasRoom
<1>6. CASE UNCHANGED vars
  BY <1>6 DEF vars, HasRoom
<1> QED
  BY <1>1, <1>2, <1>3, <1>4, <1>5, <1>6 DEF Next, HInsertNoMemory

(* As long as memory for the growth is found no operation probes for ever. *)
THEOREM SearchesDoReturn == ~GrowthMayFail /\ Spec => []SearchesReturn
<1> SUFFICES ASSUME ~GrowthMayFail
             PROVE  Spec => []SearchesReturn
  OBVIOUS
<1>1. Spec => []TableInv
  BY TableInvInit, TableInvStep, PTL DEF Spec
<1>2. Init => HasRoom
  BY DEF Init, HasRoom, Overloaded
<1>3. TableInv /\ HasRoom /\ [Next]_vars => HasRoom'
  BY HasRoomStep
<1>4. HasRoom => SearchesReturn
  BY DEF HasRoom, SearchesReturn
<1> QED
  BY <1>1, <1>2, <1>3, <1>4, PTL DEF Spec
-----------------------------------------------------------------------------
(***************************************************************************)
(* HashTable implements Dictionary.                                        *)
(***************************************************************************)

(* The elements in the slots of a table from slot n on.                    *)
Elems(table, n, dim) == {e \in Elements : \E p \in Slots(dim) : p >= n /\ table[p] = e}

LEMMA StoredIdle ==
    ASSUME TableInv, pc # "rehash"
    PROVE  Stored = Elems(Table, 0, Dim)
<1>1. DOMAIN backup = {}
  BY DEF TableInv, Empty, Slots
<1>2. Stored = Elems(htable, 0, tabledim)
  BY <1>1 DEF Stored, Elems, Slots
<1>3. CASE tabledim = 0
  BY <1>2, <1>3, ConstantsAssumption DEF Elems, Table, Dim, Empty, Slots
<1> QED
  BY <1>2, <1>3 DEF Table, Dim

LEMMA PutAdds ==
    ASSUME NEW dim \in Dims, NEW table \in [Slots(dim) -> Slot], Placed(table, dim),
           NEW e \in Elements, Stops(table, dim, Key[e]) # {}, ~Has(table, dim, Key[e])
    PROVE  /\ Elems(Put(table, dim, e), 0, dim) = Elems(table, 0, dim) \cup {e}
           /\ \A x \in Elems(table, 0, dim) : Key[x] # Key[e]
<1>1. PICK f \in Slots(dim) : f = FreeSlot(table, dim, Key[e]) /\ table[f] \in {PHYSICAL, LOGICAL}
  BY FreeSlotIsFree, ConstantsAssumption
<1>2. PICK new \in [Slots(dim) -> Slot] : new = Put(table, dim, e)
  BY PutUsesOneMore
<1>3. new[f] = e /\ \A p \in Slots(dim) : p # f => new[p] = table[p]
  BY <1>1, <1>2 DEF Put
<1>4. table[f] \notin Elements
  BY <1>1, ConstantsAssumption
<1>5. Elems(new, 0, dim) = Elems(table, 0, dim) \cup {e}
  BY <1>3, <1>4 DEF Elems, Slots
<1>6. \A p \in Slots(dim) : ~Holds(table, p, Key[e])
  BY HasIsStored, ConstantsAssumption
<1> QED
  BY <1>2, <1>5, <1>6 DEF Elems, Holds

(* What a search tells of the elements with a key.                         *)
LEMMA SearchMatches ==
    ASSUME NEW dim \in Dims, NEW table \in [Slots(dim) -> Slot], Placed(table, dim),
           NEW k \in Keys, Stops(table, dim, k) # {},
           NEW M, M = {e \in Elems(table, 0, dim) : Key[e] = k}
    PROVE  M = IF Has(table, dim, k) THEN {table[SearchEnd(table, dim, k)]} ELSE {}
<1>1. CASE Has(table, dim, k)
  <2>1. PICK pos \in Slots(dim) : pos = SearchEnd(table, dim, k) /\ Holds(table, pos, k)
    BY <1>1, HasIsStored DEF Has
  <2>2. table[pos] \in M
    BY <2>1 DEF Holds, Elems, Slots
  <2>3. ASSUME NEW e \in M
        PROVE  e = table[pos]
    <3>1. PICK p \in Slots(dim) : table[p] = e
      BY DEF Elems
    <3> QED
      BY <2>1, <3>1, KeysAreDistinct DEF Holds, Elems
  <2> QED
    BY <1>1, <2>1, <2>2, <2>3
<1>2. CASE ~Has(table, dim, k)
  BY <1>2, HasIsStored DEF Elems, Holds
<1> QED
  BY <1>1, <1>2

LEMMA MatchingIdle ==
    ASSUME TableInv, pc # "rehash", NEW k \in Keys, Stops(Table, Dim, k) # {}
    PROVE  Contents!Matching(k) =
               IF Has(Table, Dim, k) THEN {Table[SearchEnd(Table, Dim, k)]} ELSE {}
<1>1. Contents!Matching(k) = {e \in Elems(Table, 0, Dim) : Key[e] = k}
  BY StoredIdle DEF Contents!Matching
<1> QED
  BY <1>1, TableFacts, SearchMatches

LEMMA HInsertRefines ==
    ASSUME TableInv, NEW e \in Elements,
           HInsert(e) \/ HInsertGrows(e) \/ HInsertNoMemory(e)
    PROVE  Contents!Insert
<1>1. /\ pc = "idle" /\ (answer' = Yes \/ (GrowthMayFail /\ answer' = No))
      /\ Stops(Table, Dim, Key[e]) # {} /\ ~Has(Table, Dim, Key[e])
  BY DEF HInsert, HInsertGrows, HInsertNoMemory, Store
<1>2. Contents!Matching(Key[e]) = {}
  BY <1>1, MatchingIdle, ConstantsAssumption
<1>3. Elems(Put(Table, Dim, e), 0, Dim) = Stored \cup {e}
  BY <1>1, TableFacts, PutAdds, StoredIdle
<1>4. Stored' = Elems(Put(Table, Dim, e), 0, Dim)
  <2>1. PICK dim \in Dims : dim = Dim
    BY TableFacts
  <2>2. PICK new \in [Slots(dim) -> Slot] : new = Put(Table, Dim, e)
    BY <1>1, <2>1, TableFacts, PutUsesOneMore
  <2>3. CASE HInsert(e) \/ HInsertNoMemory(e)
    <3>1. htable' = new /\ tabledim' = dim /\ DOMAIN backup' = {}
      BY <1>1, <2>1, <2>2, <2>3 DEF HInsert, HInsertNoMemory, TableInv, Empty, Slots
    <3> QED
      BY <2>1, <2>2, <3>1 DEF Stored, Elems, Slots
  <2>4. CASE HInsertGrows(e)
    <3>1. backup' = new /\ i' = 0 /\ htable' = Empty(tabledim')
      BY <2>1, <2>2, <2>4 DEF HInsertGrows
    <3>2. \A p \in Slots(tabledim') : htable'[p] \notin Elements
      BY <3>1, ConstantsAssumption DEF Empty
    <3> QED
      BY <2>1, <2>2, <3>1, <3>2 DEF Stored, Elems
  <2> QED
    BY <2>3, <2>4
<1> QED
  BY <1>1, <1>2, <1>3, <1>4 DEF Contents!Insert

LEMMA RepeatedRefines ==
    ASSUME TableInv, NEW e \in Elements, HInsertRepeated(e)
    PROVE  Contents!Insert
<1>1. Contents!Matching(Key[e]) # {}
  BY MatchingIdle, ConstantsAssumption DEF HInsertRepeated
<1>2. Stored' = Stored
  BY DEF HInsertRepeated, Stored
<1> QED
  BY <1>1, <1>2 DEF Contents!Insert, HInsertRepeated

(* A turn of Rehash moves an element from the old table to the new one.    *)
LEMMA RehashRefines ==
    ASSUME TableInv, RehashTurn
    PROVE  Stored' = Stored /\ answer' = answer
<1>1. PICK size \in Dims : Rehashing(size)
  BY DEF TableInv, RehashTurn
<1>2. i \in Slots(size) /\ i' = i + 1 /\ DOMAIN backup = Slots(size)
  BY <1>1 DEF Rehashing, RehashTurn
<1>3. UNCHANGED <<tabledim, backup, answer>>
  BY DEF RehashTurn
<1>4. Stored = Elems(htable, 0, tabledim) \cup Elems(backup, i, size)
  BY <1>2 DEF Stored, Elems, Slots
<1>5. Stored' = Elems(htable', 0, tabledim) \cup Elems(backup, i + 1, size)
  BY <1>2, <1>3 DEF Stored, Elems, Slots
<1>6. CASE backup[i] \notin Elements
  <2>1. Elems(backup, i, size) = Elems(backup, i + 1, size)
    BY <1>2, <1>6 DEF Elems, Slots
  <2>2. htable' = htable
    BY <1>6 DEF RehashTurn
  <2> QED
    BY <1>3, <1>4, <1>5, <2>1, <2>2
<1>7. CASE backup[i] \in Elements
  <2>1. Elems(backup, i, size) = Elems(backup, i + 1, size) \cup {backup[i]}
    BY <1>2, <1>7 DEF Elems, Slots
  <2>2. /\ tabledim \in Dims
        /\ Stops(htable, tabledim, Key[backup[i]]) # {}
        /\ ~Has(htable, tabledim, Key[backup[i]])
    BY <1>7, RehashHasRoom DEF RehashTurn
  <2>3. htable' = Put(htable, tabledim, backup[i])
    BY <1>7 DEF RehashTurn
  <2>4. Elems(htable', 0, tabledim) = Elems(htable, 0, tabledim) \cup {backup[i]}
    BY <1>7, <2>2, <2>3, PutAdds DEF TableInv, TypeOK
  <2> QED
    BY <1>3, <1>4, <1>5, <2>1, <2>4
<1> QED
  BY <1>6, <1>7

LEMMA RehashReturnRefines ==
    ASSUME TableInv, RehashReturns
    PROVE  Stored' = Stored /\ answer' = answer
<1>1. PICK size \in Dims : Rehashing(size)
  BY DEF TableInv, RehashReturns
<1>2. \A p \in DOMAIN backup : ~(p >= i)
  BY <1>1 DEF Rehashing, RehashReturns, TableInv, TypeOK, Slots, Dims
<1>3. DOMAIN backup' = {} /\ UNCHANGED <<htable, tabledim, answer>>
  BY DEF RehashReturns, Empty, Slots
<1> QED
  BY <1>2, <1>3 DEF Stored

LEMMA HDeleteRefines ==
    ASSUME TableInv, NEW k \in Keys, HDelete(k)
    PROVE  Contents!Delete
<1>1. PICK dim \in Dims : dim = tabledim /\ dim = Dim /\ htable = Table
  BY DEF HDelete, TableInv, TypeOK, Dims, Dim, Table
<1>2. PICK table \in [Slots(dim) -> Slot] : table = htable
  BY <1>1 DEF TableInv, TypeOK
<1>3. /\ pc = "idle" /\ answer' = Erased /\ UNCHANGED <<tabledim, backup, i>>
      /\ Stops(table, dim, k) # {} /\ Has(table, dim, k)
  BY <1>1, <1>2 DEF HDelete
<1>4. PICK pos \in Slots(dim) : pos = SearchEnd(table, dim, k) /\ Holds(table, pos, k)
  BY <1>1, <1>2, <1>3, HasIsStored DEF TableInv, Has
<1>5. PICK mark \in {PHYSICAL, LOGICAL} : htable' = [table EXCEPT ![pos] = mark]
  BY <1>1, <1>2, <1>4 DEF HDelete
<1>6. Contents!Matching(k) = {table[pos]}
  BY <1>1, <1>2, <1>3, <1>4, MatchingIdle
<1>7. \A p \in Slots(dim) : p # pos => htable'[p] = table[p] /\ table[p] # table[pos]
  BY <1>1, <1>2, <1>4, <1>5, KeysAreDistinct DEF TableInv, Holds
<1>8. htable'[pos] \notin Elements
  BY <1>5, ConstantsAssumption
<1>9. DOMAIN backup = {} /\ DOMAIN backup' = {}
  BY <1>3 DEF TableInv, Empty, Slots
<1>10. Stored' = Stored \ {table[pos]}
  BY <1>1, <1>2, <1>3, <1>4, <1>7, <1>8, <1>9 DEF Stored
<1> QED
  BY <1>3, <1>6, <1>10 DEF Contents!Delete

LEMMA ReadRefines ==
    ASSUME TableInv, NEW k \in Keys, HDeleteMissing(k) \/ Lookup(k)
    PROVE  Contents!Delete \/ Contents!Find
<1>1. pc = "idle" /\ Stored' = Stored
  BY DEF HDeleteMissing, Lookup, Stored
<1>2. CASE tabledim = 0
  <2>1. answer' = No
    BY <1>2 DEF HDeleteMissing, Lookup
  <2>2. Stored = {}
    BY <1>1, <1>2 DEF Stored, TableInv, Empty, Slots
  <2> QED
    BY <1>1, <2>1, <2>2 DEF Contents!Delete, Contents!Find, Contents!Matching
<1>3. CASE tabledim # 0
  <2>1. htable = Table /\ tabledim = Dim /\ Stops(htable, tabledim, k) # {}
    BY <1>3 DEF Table, Dim, HDeleteMissing, Lookup
  <2>2. Contents!Matching(k) =
            IF Has(htable, tabledim, k) THEN {htable[SearchEnd(htable, tabledim, k)]} ELSE {}
    BY <1>1, <2>1, MatchingIdle
  <2>3. CASE HDeleteMissing(k)
    BY <1>1, <1>3, <2>2, <2>3 DEF HDeleteMissing, Contents!Delete
  <2>4. CASE Lookup(k)
    BY <1>1, <1>3, <2>2, <2>4 DEF Lookup, Contents!Find
  <2> QED
    BY <2>3, <2>4
<1> QED
  BY <1>2, <1>3

LEMMA StepRefines ==
    ASSUME TableInv, [Next]_vars
    PROVE  [Contents!Next]_Contents!vars
<1>1. ASSUME NEW k \in Keys, NeverReturns(k)
      PROVE  UNCHANGED Contents!vars
  BY <1>1 DEF NeverReturns, Stored, Contents!vars
<1>2. ASSUME RehashTurn \/ RehashReturns
      PROVE  UNCHANGED Contents!vars
  BY <1>2, RehashRefines, RehashReturnRefines DEF Contents!vars
<1>3. CASE UNCHANGED vars
  BY <1>3 DEF vars, Contents!vars, Stored
<1> QED
  BY <1>1, <1>2, <1>3, HInsertRefines, RepeatedRefines, HDeleteRefines, ReadRefines
  DEF Next, Contents!Next

(* The hash table is a dictionary: linear probing, deletion marks and      *)
(* rehashing are invisible, and a growth that fails loses nothing.         *)
THEOREM TableImplementsDictionary == Spec => ImplementsDictionary
<1>1. Spec => []TableInv
  BY TableInvInit, TableInvStep, PTL DEF Spec
<1>2. Init => Contents!Init
  BY DEF Init, Contents!Init, Stored, Empty, Slots
<1>3. TableInv /\ [Next]_vars => [Contents!Next]_Contents!vars
  BY StepRefines
<1> QED
  BY <1>1, <1>2, <1>3, PTL DEF Spec, ImplementsDictionary, Contents!Spec
=============================================================================
