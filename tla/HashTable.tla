------------------------------ MODULE HashTable ------------------------------
(***************************************************************************)
(* The hash table of the three servers (src/Server/hashADT.c, with copies  *)
(* in Lookup and Payment): open addressing with linear probing.  Sessions, *)
(* tickets, the movie catalogue, payment servers and accounts live in one. *)
(*                                                                         *)
(* A deletion leaves a LOGICAL slot behind when the probe of another key   *)
(* may run through it; only PHYSICAL slots, or the key itself, stop a      *)
(* probe, and the counter that would stop it after one turn (iter) is      *)
(* never incremented: with no PHYSICAL slot left a search does not return. *)
(*                                                                         *)
(* The loop of Rehash is modelled turn by turn; no other operation runs in *)
(* between (one thread).  Allocation may fail for the bigger table when    *)
(* GrowthMayFail; a failing allocation of an element is not modelled.      *)
(***************************************************************************)
EXTENDS Integers

CONSTANTS
    Keys,
    Elements,
    Key,             \* Key[e]: what hcmp compares
    hkey(_, _),      \* hkey(k, d): home slot of key k in a table of d slots
    InitSize,        \* TABLE_INIT_SIZE
    MaxDim,          \* bound: slots of the largest table
    MaxQtty,         \* bound: insertions into a table that fails to grow
    GrowthMayFail,   \* TRUE if malloc may fail in Rehash
    PHYSICAL, LOGICAL,
    Yes, Erased, No  \* answers: inserted, deleted, neither (1, 1 and 0 or -1)

ASSUME ConstantsAssumption ==
    /\ Key \in [Elements -> Keys]
    /\ InitSize \in Nat \ {0} /\ MaxDim \in Nat /\ InitSize <= MaxDim
    /\ MaxQtty \in Nat
    /\ \A k \in Keys, d \in 1 .. MaxDim : hkey(k, d) \in 0 .. d - 1
    /\ GrowthMayFail \in BOOLEAN
    /\ {PHYSICAL, LOGICAL, Yes, Erased, No} \cap Elements = {}
    /\ PHYSICAL # LOGICAL /\ Yes # No

VARIABLES
    pc,         \* "idle", in the loop of "rehash", or "hung" in a search
    htable,     \* slot -> element, PHYSICAL or LOGICAL
    tabledim,   \* slots of htable; 0 before the first insertion
    qtty,       \* insertions since htable was made: HDelete does not touch it
    backup,     \* the table that Rehash empties
    i,          \* next slot of backup
    answer      \* what the last operation answered

vars == <<pc, htable, tabledim, qtty, backup, i, answer>>

Slot == Elements \cup {PHYSICAL, LOGICAL}
Slots(dim) == 0 .. dim - 1

Empty(dim) == [p \in Slots(dim) |-> PHYSICAL]

(***************************************************************************)
(* Probing                                                                 *)
(***************************************************************************)

(* Turns of pos = (pos + 1) % dim from slot home to slot p.                *)
Turns(home, p, dim) == IF p >= home THEN p - home ELSE p + dim - home

IsNearest(p, S, home, dim) ==
    /\ p \in S
    /\ \A q \in S : Turns(home, p, dim) <= Turns(home, q, dim)

Nearest(S, home, dim) == CHOOSE p \in S : IsNearest(p, S, home, dim)

Holds(table, p, k) == table[p] \in Elements /\ Key[table[p]] = k

(* Where a probe for k may stop, and where it does.                        *)
Stops(table, dim, k) == {p \in Slots(dim) : table[p] = PHYSICAL \/ Holds(table, p, k)}

SearchEnd(table, dim, k) == Nearest(Stops(table, dim, k), hkey(k, dim), dim)

(* HInsert once the probe has ended on a PHYSICAL slot: the element goes   *)
(* into the first LOGICAL slot that was met, or into that one.             *)
Holes(table, dim, k) ==
    {p \in Slots(dim) :
        /\ table[p] = LOGICAL
        /\ Turns(hkey(k, dim), p, dim)
               < Turns(hkey(k, dim), SearchEnd(table, dim, k), dim)}

FreeSlot(table, dim, k) ==
    IF Holes(table, dim, k) = {} THEN SearchEnd(table, dim, k)
    ELSE Nearest(Holes(table, dim, k), hkey(k, dim), dim)

Put(table, dim, e) == [table EXCEPT ![FreeSlot(table, dim, Key[e])] = e]

Has(table, dim, k) == Holds(table, SearchEnd(table, dim, k), k)

(* load > LIMIT, with LIMIT = 0.6.                                         *)
Overloaded(n, dim) == 5 * n > 3 * dim

-----------------------------------------------------------------------------
(***************************************************************************)
(* Operations                                                              *)
(***************************************************************************)

(* NewHash: calloc, the table itself comes with the first insertion.       *)
Init ==
    /\ pc = "idle"
    /\ htable = Empty(0)
    /\ tabledim = 0
    /\ qtty = 0
    /\ backup = Empty(0)
    /\ i = 0
    /\ answer = No

(* The table HInsert works on: InitTable on the first call.                *)
Dim   == IF tabledim = 0 THEN InitSize ELSE tabledim
Table == IF tabledim = 0 THEN Empty(InitSize) ELSE htable

HInsertRepeated(e) ==
    /\ pc = "idle"
    /\ Stops(Table, Dim, Key[e]) # {}
    /\ Has(Table, Dim, Key[e])
    /\ answer' = No
    /\ UNCHANGED <<pc, htable, tabledim, qtty, backup, i>>

Store(e) ==
    /\ pc = "idle"
    /\ Stops(Table, Dim, Key[e]) # {}
    /\ ~Has(Table, Dim, Key[e])
    /\ Overloaded(qtty + 1, Dim) => 2 * Dim + 1 <= MaxDim

HInsert(e) ==
    /\ Store(e)
    /\ ~Overloaded(qtty + 1, Dim)
    /\ htable' = Put(Table, Dim, e)
    /\ tabledim' = Dim
    /\ qtty' = qtty + 1
    /\ answer' = Yes
    /\ UNCHANGED <<pc, backup, i>>

(* Mutant of HInsertGrows: the new size is set but the old slots are kept  *)
(* (no InitTable).                                                         *)
HInsertGrowsKeepsSlots(e) ==
    /\ Store(e)
    /\ Overloaded(qtty + 1, Dim)
    /\ backup' = Put(Table, Dim, e)
    /\ i' = 0
    /\ tabledim' = 2 * Dim + 1
    /\ htable' = Put(Table, Dim, e)
    /\ qtty' = 0
    /\ pc' = "rehash"
    /\ answer' = Yes

(* The insertion that makes the table too full calls Rehash.               *)
HInsertGrows(e) ==
    /\ Store(e)
    /\ Overloaded(qtty + 1, Dim)
    /\ backup' = Put(Table, Dim, e)
    /\ i' = 0
    /\ tabledim' = 2 * Dim + 1
    /\ htable' = Empty(2 * Dim + 1)
    /\ qtty' = 0
    /\ pc' = "rehash"
    /\ answer' = Yes

(* ... and if Rehash finds no memory, the element is in but the answer 0.  *)
HInsertNoMemory(e) ==
    /\ GrowthMayFail
    /\ qtty < MaxQtty
    /\ Store(e)
    /\ Overloaded(qtty + 1, Dim)
    /\ htable' = Put(Table, Dim, e)
    /\ tabledim' = Dim
    /\ qtty' = qtty + 1
    /\ answer' = No
    /\ UNCHANGED <<pc, backup, i>>

(* One turn of the loop: an occupied slot is inserted into the new table   *)
(* by HInsert, which counts it.                                            *)
RehashTurn ==
    /\ pc = "rehash"
    /\ i \in DOMAIN backup
    /\ IF backup[i] \in Elements
       THEN /\ htable' = Put(htable, tabledim, backup[i])
            /\ qtty' = qtty + 1
       ELSE UNCHANGED <<htable, qtty>>
    /\ i' = i + 1
    /\ UNCHANGED <<pc, tabledim, backup, answer>>

(* Mutant of RehashReturns: the loop stops one slot early.                 *)
RehashReturnsEarly ==
    /\ pc = "rehash"
    /\ i + 1 \notin DOMAIN backup
    /\ pc' = "idle"
    /\ backup' = Empty(0)
    /\ i' = 0
    /\ UNCHANGED <<htable, tabledim, qtty, answer>>

RehashReturns ==
    /\ pc = "rehash"
    /\ i \notin DOMAIN backup
    /\ pc' = "idle"
    /\ backup' = Empty(0)
    /\ i' = 0
    /\ UNCHANGED <<htable, tabledim, qtty, answer>>

(* HDelete, which finds nothing in a table that was never made.            *)
HDeleteMissing(k) ==
    /\ pc = "idle"
    /\ tabledim # 0 => Stops(htable, tabledim, k) # {} /\ ~Has(htable, tabledim, k)
    /\ answer' = No
    /\ UNCHANGED <<pc, htable, tabledim, qtty, backup, i>>

NextSlot(p) == IF p + 1 = tabledim THEN 0 ELSE p + 1

(* Mutants of HDelete: qtty counts what is stored, and every slot that is  *)
(* emptied is free.                                                        *)
HDeleteUncounts(k) ==
    LET pos == SearchEnd(htable, tabledim, k) IN
    /\ pc = "idle"
    /\ tabledim # 0
    /\ Stops(htable, tabledim, k) # {}
    /\ Has(htable, tabledim, k)
    /\ htable' = [htable EXCEPT ![pos] =
                     IF htable[NextSlot(pos)] = PHYSICAL THEN PHYSICAL ELSE LOGICAL]
    /\ qtty' = qtty - 1
    /\ answer' = Erased
    /\ UNCHANGED <<pc, tabledim, backup, i>>

HDeleteLeavesNoMark(k) ==
    /\ pc = "idle"
    /\ tabledim # 0
    /\ Stops(htable, tabledim, k) # {}
    /\ Has(htable, tabledim, k)
    /\ htable' = [htable EXCEPT ![SearchEnd(htable, tabledim, k)] = PHYSICAL]
    /\ answer' = Erased
    /\ UNCHANGED <<pc, tabledim, qtty, backup, i>>

HDelete(k) ==
    LET pos == SearchEnd(htable, tabledim, k) IN
    /\ pc = "idle"
    /\ tabledim # 0
    /\ Stops(htable, tabledim, k) # {}
    /\ Has(htable, tabledim, k)
    /\ htable' = [htable EXCEPT ![pos] =
                     IF htable[NextSlot(pos)] = PHYSICAL THEN PHYSICAL ELSE LOGICAL]
    /\ answer' = Erased
    /\ UNCHANGED <<pc, tabledim, qtty, backup, i>>

(* Lookup and then GetHElement at the position it answers.                 *)
Lookup(k) ==
    /\ pc = "idle"
    /\ tabledim # 0 => Stops(htable, tabledim, k) # {}
    /\ answer' = IF tabledim # 0 /\ Has(htable, tabledim, k)
                 THEN htable[SearchEnd(htable, tabledim, k)] ELSE No
    /\ UNCHANGED <<pc, htable, tabledim, qtty, backup, i>>

(* HInsert, HDelete or Lookup of a key for which no probe stops.           *)
NeverReturns(k) ==
    /\ pc = "idle"
    /\ tabledim # 0
    /\ Stops(htable, tabledim, k) = {}
    /\ pc' = "hung"
    /\ UNCHANGED <<htable, tabledim, qtty, backup, i, answer>>

Next ==
    \/ \E e \in Elements :
          HInsertRepeated(e) \/ HInsert(e) \/ HInsertGrows(e) \/ HInsertNoMemory(e)
    \/ \E k \in Keys :
          HDeleteMissing(k) \/ HDelete(k) \/ Lookup(k) \/ NeverReturns(k)
    \/ RehashTurn
    \/ RehashReturns

Spec == Init /\ [][Next]_vars
-----------------------------------------------------------------------------
(***************************************************************************)
(* Properties                                                              *)
(***************************************************************************)

(* The type invariant.                                                     *)
TypeOK ==
    /\ pc \in {"idle", "rehash", "hung"}
    /\ tabledim \in 0 .. MaxDim
    /\ htable \in [Slots(tabledim) -> Slot]
    /\ qtty \in Nat
    /\ i \in Nat
    /\ \E dim \in 0 .. MaxDim : backup \in [Slots(dim) -> Slot] /\ i <= dim
    /\ answer \in Elements \cup {Yes, Erased, No}

(* No operation probes for ever in a table within its load limit.  The     *)
(* loops have no other exit than a PHYSICAL slot or the key, and deletions *)
(* leave LOGICAL slots behind: it is that qtty counts all insertions and   *)
(* never goes down that keeps a PHYSICAL slot.                             *)
(* The insertions of Rehash never overload the new table: they end, and do *)
(* not call Rehash again while it holds the only pointer to the old table. *)
SearchesEnd ==
    /\ pc = "hung" => Overloaded(qtty, tabledim)
    /\ pc = "rehash" => ~Overloaded(qtty, tabledim)

(* Whatever mix of slots deletions have left, each element is where the    *)
(* search for its key ends; in particular no key is stored twice.          *)
EveryElementIsFound ==
    \A p \in Slots(tabledim) :
        htable[p] \in Elements => SearchEnd(htable, tabledim, Key[htable[p]]) = p

(* Between the turns of Rehash an element is in the new table or still in  *)
(* the old one.                                                            *)
Stored ==
    {e \in Elements :
        \/ \E p \in Slots(tabledim) : htable[p] = e
        \/ \E p \in DOMAIN backup : p >= i /\ backup[p] = e}

Contents == INSTANCE Dictionary WITH stored <- Stored, NoMemory <- GrowthMayFail

(* The table is a dictionary: probing, deletion marks and rehashing cannot *)
(* be told from the outside, and when the growth fails nothing is lost or  *)
(* stored twice.                                                           *)
ImplementsDictionary == Contents!Spec

(* What the comments say and the code does not keep: hashADT.c:85, :114.   *)
(* A search goes over the table at most once.                              *)
SearchesReturn == pc # "hung"
=============================================================================
