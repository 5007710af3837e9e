---------------------------- MODULE PaymentProofs ----------------------------
(* Theorems about PaymentService, for any orders, accounts and files.      *)
EXTENDS PaymentService, FiniteSetTheorems, WellFoundedInduction, TLAPS

-----------------------------------------------------------------------------
(* A save that is read again gives the table back.                         *)

LEMMA NatWellFounded == IsWellFoundedOn({ss \in Nat \X Nat : ss[1] < ss[2]}, Nat)
  <1>1. IsWellFoundedOn(OpToRel(<, Nat), Nat)
    BY NatLessThanWellFounded, Zenon
  <1>. QED BY <1>1, Zenon DEF OpToRel

LEMMA Minimal ==
    ASSUME NEW R, NEW S, IsWellFoundedOn(R, S), NEW T, T \subseteq S, T # {}
    PROVE  \E x \in T : \A y \in T : <<y, x>> \notin R
  BY WFMin

LEMMA MinIsIn ==
    ASSUME NEW T \in SUBSET Nat, T # {}
    PROVE  Min(T) \in T
  <1>. DEFINE R == {ss \in Nat \X Nat : ss[1] < ss[2]}
  <1>1. IsWellFoundedOn(R, Nat)
    BY NatWellFounded
  <1>2. \A x, y \in T : <<y, x>> \notin R => x <= y
    OBVIOUS
  <1>. HIDE DEF R
  <1>3. \E x \in T : \A y \in T : <<y, x>> \notin R
    BY ONLY T \in SUBSET Nat, T # {}, <1>1, Minimal, Zenon
  <1>4. \E x \in T : \A y \in T : x <= y
    BY <1>2, <1>3
  <1>. QED BY <1>4 DEF Min

(* The lines that hload reads, and those of one name.                      *)
Read(f) == {i \in DOMAIN f.lines : Malformed \notin {f.lines[j] : j \in 1..i}}
NamesIn(f) == {f.lines[i].accountName : i \in Read(f)}
LinesOf(f, n) == {i \in Read(f) : f.lines[i].accountName = n}

LEMMA LoadIsFunction ==
    ASSUME NEW f, f.header = TRUE
    PROVE  LoadHashTable(f) = [n \in NamesIn(f) |-> f.lines[Min(LinesOf(f, n))].amount]
  BY DEF LoadHashTable, Read, NamesIn, LinesOf

LEMMA FirstLine ==
    ASSUME NEW f, f.lines \in Seq(Account \cup {Malformed}), NEW n \in NamesIn(f)
    PROVE  /\ Min(LinesOf(f, n)) \in Read(f)
           /\ f.lines[Min(LinesOf(f, n))].accountName = n
           /\ f.lines[Min(LinesOf(f, n))] \in Account
  <1>1. DOMAIN f.lines = 1..Len(f.lines) /\ Len(f.lines) \in Nat
        /\ \A i \in DOMAIN f.lines : f.lines[i] \in Account \cup {Malformed}
    OBVIOUS
  <1>2. LinesOf(f, n) \in SUBSET Nat /\ LinesOf(f, n) # {}
    BY <1>1 DEF LinesOf, NamesIn, Read
  <1>3. Min(LinesOf(f, n)) \in LinesOf(f, n)
    BY <1>2, MinIsIn
  <1>4. \A i \in Read(f) : f.lines[i] \in Account
    BY <1>1 DEF Read
  <1>. QED BY <1>3, <1>4 DEF LinesOf

(* Tables have finitely many accounts.                                     *)
Table == UNION {[S -> Nat] : S \in {T \in SUBSET Accounts : IsFiniteSet(T)}}

FileType == [header : BOOLEAN, lines : Seq(Account \cup {Malformed})]

LEMMA LoadType ==
    ASSUME NEW f \in FileType
    PROVE  LoadHashTable(f) \in Table
  <1>1. f.header \in BOOLEAN /\ f.lines \in Seq(Account \cup {Malformed})
    BY DEF FileType
  <1>2. CASE ~f.header
    <2>1. LoadHashTable(f) = NoAccounts
      BY <1>2 DEF LoadHashTable
    <2>2. NoAccounts \in [{} -> Nat]
      BY DEF NoAccounts
    <2>3. IsFiniteSet({})
      BY FS_EmptySet
    <2>. QED BY <2>1, <2>2, <2>3 DEF Table
  <1>3. CASE f.header
    <2>1. f.header = TRUE
      BY <1>1, <1>3
    <2>2. \A n \in NamesIn(f) : f.lines[Min(LinesOf(f, n))] \in Account
                                /\ f.lines[Min(LinesOf(f, n))].accountName = n
      BY <1>1, FirstLine
    <2>3. LoadHashTable(f) \in [NamesIn(f) -> Nat]
      <3>1. LoadHashTable(f) = [n \in NamesIn(f) |-> f.lines[Min(LinesOf(f, n))].amount]
        BY <2>1, LoadIsFunction, Zenon
      <3>2. \A n \in NamesIn(f) : f.lines[Min(LinesOf(f, n))].amount \in Nat
        BY <2>2 DEF Account
      <3>. QED BY <3>1, <3>2
    <2>4. NamesIn(f) \subseteq Accounts
      BY <2>2 DEF Account
    <2>5. IsFiniteSet(NamesIn(f))
      <3>. DEFINE name == [i \in Read(f) |-> f.lines[i].accountName]
      <3>1. IsFiniteSet(1..Len(f.lines)) /\ Read(f) \subseteq 1..Len(f.lines)
        BY <1>1, FS_Interval DEF Read
      <3>2. IsFiniteSet(Read(f))
        BY <3>1, FS_Subset
      <3>3. name \in Surjection(Read(f), NamesIn(f))
        BY DEF NamesIn, Surjection
      <3>. QED BY <3>2, <3>3, FS_Surjection
    <2>. QED BY <2>3, <2>4, <2>5 DEF Table
  <1>. QED BY <1>1, <1>2, <1>3

LEMMA SetToSeqIsBijection ==
    ASSUME NEW S, IsFiniteSet(S)
    PROVE  /\ Cardinality(S) \in Nat
           /\ SetToSeq(S) \in [1..Cardinality(S) -> S]
           /\ \A x \in S : \E i \in 1..Cardinality(S) : SetToSeq(S)[i] = x
  <1>. DEFINE k == Cardinality(S)
              f == SetToSeq(S)
  <1>1. k \in Nat /\ ExistsBijection(1..k, S)
    BY FS_CardinalityType
  <1>2. \E g \in [1..k -> S] : IsInjective(g)
    BY <1>1 DEF ExistsBijection, Bijection, Injection
  <1>3. f \in [1..k -> S] /\ IsInjective(f)
    BY <1>2 DEF SetToSeq
  <1>4. f \in Injection(1..k, S)
    BY <1>3 DEF Injection
  <1>5. Cardinality(1..k) = k
    BY <1>1, FS_Interval
  <1>. HIDE DEF f
  <1>6. f \in Surjection(1..k, S)
    BY <1>4, <1>5, FS_Injection
  <1>. QED BY <1>1, <1>3, <1>6 DEF Surjection, f

LEMMA SavedIsLoaded ==
    ASSUME NEW t \in Table
    PROVE  LoadHashTable(SaveHashTable(t)) = t
  <1>. DEFINE S == DOMAIN t
              Line(n) == [accountName |-> n, amount |-> t[n]]
              E == {Line(n) : n \in S}
              f == SaveHashTable(t)
              k == Cardinality(E)
  <1>1. t \in [S -> Nat] /\ S \subseteq Accounts /\ IsFiniteSet(S)
    BY DEF Table
  <1>2. IsFiniteSet(E)
    <2>1. [n \in S |-> Line(n)] \in Surjection(S, E)
      BY DEF Surjection
    <2>. HIDE DEF E, S
    <2>. QED BY <1>1, <2>1, FS_Surjection
  <1>3. E \subseteq Account /\ Malformed \notin E
    BY <1>1, PaymentAssumption DEF Account
  <1>4. f.header = TRUE /\ f.lines = SetToSeq(E)
    BY DEF SaveHashTable
  <1>5. \A e \in E : e.accountName \in S /\ e.amount = t[e.accountName]
    OBVIOUS
  <1>6. \A n \in S : Line(n) \in E /\ Line(n).accountName = n
    OBVIOUS
  <1>. HIDE DEF E, f, Line
  <1>7. /\ k \in Nat /\ f.lines \in [1..k -> E]
        /\ \A e \in E : \E i \in 1..k : f.lines[i] = e
    BY <1>2, <1>4, SetToSeqIsBijection
  <1>8. f.lines \in Seq(Account \cup {Malformed})
    BY <1>3, <1>7
  <1>9. Read(f) = 1..k
    BY <1>3, <1>7 DEF Read
  <1>10. NamesIn(f) = S
    <2>1. \A i \in 1..k : f.lines[i].accountName \in S
      BY <1>5, <1>7
    <2>2. \A n \in S : \E i \in 1..k : f.lines[i].accountName = n
      BY <1>6, <1>7
    <2>. QED BY <1>9, <2>1, <2>2 DEF NamesIn
  <1>11. \A n \in S : f.lines[Min(LinesOf(f, n))].amount = t[n]
    <2>. TAKE n \in S
    <2>1. /\ Min(LinesOf(f, n)) \in 1..k
          /\ f.lines[Min(LinesOf(f, n))].accountName = n
      BY <1>8, <1>9, <1>10, FirstLine
    <2>. QED BY <1>5, <1>7, <2>1
  <1>12. LoadHashTable(f) = [n \in S |-> t[n]]
    <2>1. LoadHashTable(f) = [n \in NamesIn(f) |-> f.lines[Min(LinesOf(f, n))].amount]
      BY <1>4, LoadIsFunction, Zenon
    <2>. QED BY <1>10, <1>11, <2>1
  <1>. QED BY <1>1, <1>12 DEF f

-----------------------------------------------------------------------------
(* What PayMovie charges.                                                  *)

LEMMA Division ==
    ASSUME NEW s \in Nat, NEW f \in Nat \ {0}
    PROVE  /\ (s \div f) * f = s - (s % f)
           /\ s - (s % f) \in Nat
           /\ s >= f => s - (s % f) > 0
  OBVIOUS

LEMMA Costs ==
    ASSUME NEW o \in Orders
    PROVE  /\ Charged(Order[o].price) = Cost(o)
           /\ Cost(o) \in Nat
           /\ InOrder(o) => Cost(o) > 0
  <1>1. Order[o].price \in Nat /\ Unit \in Nat \ {0}
    BY PaymentAssumption
  <1>. QED BY <1>1, Division DEF Charged, Cost, InOrder

-----------------------------------------------------------------------------
(* Sums of what orders cost.  MapThenSumSet takes the elements out of a    *)
(* set in an order that CHOOSE fixes; the sum does not depend on it.       *)

Total(S) == MapThenSumSet(Cost, S)

Chosen(S) == CHOOSE x \in S : TRUE

SumStep(g, s) == IF s = {} THEN 0 ELSE Cost(Chosen(s)) + g[s \ {Chosen(s)}]

IsSum(g, S) == g = [s \in SUBSET S |-> SumStep(g, s)]

LEMMA ChosenIsIn == \A S : S # {} => Chosen(S) \in S
  BY DEF Chosen

(* A set of natural numbers that has no least element is empty.            *)
LEMMA NoLeast ==
    ASSUME NEW Bad \in SUBSET Nat, \A n \in Bad : \E m \in Bad : m < n
    PROVE  Bad = {}
  <1>. DEFINE R == {ss \in Nat \X Nat : ss[1] < ss[2]}
  <1>1. IsWellFoundedOn(R, Nat)
    BY NatWellFounded
  <1>2. \A m, n \in Bad : m < n => <<m, n>> \in R
    OBVIOUS
  <1>. HIDE DEF R
  <1>3. Bad # {} => \E n \in Bad : \A m \in Bad : <<m, n>> \notin R
    BY ONLY Bad \in SUBSET Nat, <1>1, Minimal, Zenon
  <1>. QED BY <1>2, <1>3

(* The recursive function in MapThenFoldSet exists: by induction on the    *)
(* size of the sets it is defined for.                                     *)
LEMMA SumsExist ==
    ASSUME NEW S, IsFiniteSet(S)
    PROVE  \E g : IsSum(g, S)
  <1>. DEFINE Small(n) == {s \in SUBSET S : Cardinality(s) <= n}
              Works(g, n) == g = [s \in Small(n) |-> SumStep(g, s)]
              Bad == {n \in Nat : ~ \E g : Works(g, n)}
  <1>1. \A s \in SUBSET S : IsFiniteSet(s) /\ Cardinality(s) \in Nat
    BY FS_Subset, FS_CardinalityType
  <1>2. 0 \notin Bad
    <2>. DEFINE g == [s \in Small(0) |-> 0]
    <2>1. \A s \in Small(0) : s = {}
      BY <1>1, FS_EmptySet
    <2>2. \A s \in Small(0) : SumStep(g, s) = 0
      BY <2>1 DEF SumStep
    <2>3. Works(g, 0)
      <3>. HIDE DEF Small
      <3>. QED BY <2>2
    <2>. QED BY <2>3
  <1>3. ASSUME NEW n \in Nat \ {0}, NEW g, Works(g, n - 1)
        PROVE  \E h : Works(h, n)
    <2>. DEFINE h == [s \in Small(n) |-> SumStep(g, s)]
    <2>1. \A s \in Small(n) : s # {} => s \ {Chosen(s)} \in Small(n - 1)
      <3>. TAKE s \in Small(n)
      <3>. HAVE s # {}
      <3>1. Chosen(s) \in s
        BY ChosenIsIn
      <3>2. Cardinality(s \ {Chosen(s)}) = Cardinality(s) - 1 /\ Cardinality(s) \in Nat
        <4>. HIDE DEF Small
        <4>1. s \in SUBSET S
          BY DEF Small
        <4>. QED BY <1>1, <3>1, <4>1, FS_RemoveElement
      <3>. QED BY <3>2
    <2>2. \A s \in Small(n - 1) : s \in Small(n)
      BY <1>1
    <2>3. \A s \in Small(n - 1) : h[s] = g[s]
      <3>. HIDE DEF Small
      <3>. QED BY <1>3, <2>2
    <2>. HIDE DEF h
    <2>4. \A s \in Small(n) : SumStep(h, s) = SumStep(g, s)
      BY <2>1, <2>3 DEF SumStep
    <2>5. Works(h, n)
      <3>. HIDE DEF Small
      <3>. QED BY <2>4 DEF h
    <2>. QED BY <2>5
  <1>4. \A n \in Bad : \E m \in Bad : m < n
    <2>. TAKE n \in Bad
    <2>1. n \in Nat \ {0}
      BY <1>2
    <2>2. n - 1 \in Bad
      <3>1. (\E g : Works(g, n - 1)) => \E h : Works(h, n)
        <4>. HIDE DEF Works
        <4>. QED BY <1>3, <2>1
      <3>2. n - 1 \in Nat
        BY <2>1
      <3>3. ~ \E h : Works(h, n)
        <4>. HIDE DEF Works
        <4>. QED OBVIOUS
      <3>. HIDE DEF Works
      <3>. QED BY <3>1, <3>2, <3>3
    <2>. HIDE DEF Bad
    <2>. QED BY <2>1, <2>2
  <1>5. Bad = {}
    <2>1. Bad \in SUBSET Nat
      OBVIOUS
    <2>. HIDE DEF Bad
    <2>. QED BY <1>4, <2>1, NoLeast
  <1>6. Small(Cardinality(S)) = SUBSET S /\ Cardinality(S) \in Nat
    BY FS_Subset, FS_CardinalityType
  <1>7. PICK g : Works(g, Cardinality(S))
    BY <1>5, <1>6
  <1>. QED BY <1>6, <1>7 DEF IsSum

LEMMA TotalIsSum ==
    ASSUME NEW S, IsFiniteSet(S)
    PROVE  \E g : IsSum(g, S) /\ Total(S) = g[S]
  <1>. DEFINE g == CHOOSE g : g = [s \in SUBSET S |-> SumStep(g, s)]
  <1>1. Total(S) = g[S]
    BY DEF Total, MapThenSumSet, MapThenFoldSet, SumStep, Chosen
  <1>2. g = [s \in SUBSET S |-> SumStep(g, s)]
    BY SumsExist DEF IsSum
  <1>. QED BY <1>1, <1>2, Zenon DEF IsSum

(* Two such functions agree where both are defined.                        *)
LEMMA SumsAgree ==
    ASSUME NEW S, NEW T, IsFiniteSet(S), T \in SUBSET S,
           NEW g, NEW h, IsSum(g, S), IsSum(h, T)
    PROVE  g[T] = h[T]
  <1>. DEFINE Bad == {Cardinality(s) : s \in {t \in SUBSET T : g[t] # h[t]}}
  <1>1. \A s \in SUBSET T : IsFiniteSet(s) /\ Cardinality(s) \in Nat
    BY FS_Subset, FS_CardinalityType
  <1>2. \A s \in SUBSET T : g[s] = SumStep(g, s) /\ h[s] = SumStep(h, s)
    <2>1. \A s \in SUBSET T : s \in SUBSET S
      OBVIOUS
    <2>. QED BY <2>1 DEF IsSum
  <1>3. \A n \in Bad : \E m \in Bad : m < n
    <2>. TAKE n \in Bad
    <2>1. PICK s \in SUBSET T : n = Cardinality(s) /\ g[s] # h[s]
      OBVIOUS
    <2>. DEFINE t == s \ {Chosen(s)}
    <2>2. s # {} /\ g[t] # h[t]
      BY <1>2, <2>1 DEF SumStep
    <2>3. t \in SUBSET T /\ Chosen(s) \in s
      BY <2>2, ChosenIsIn
    <2>4. Cardinality(t) = n - 1 /\ n \in Nat
      BY <1>1, <2>1, <2>3, FS_RemoveElement
    <2>5. Cardinality(t) \in Bad
      BY <2>2, <2>3
    <2>. HIDE DEF Bad, t
    <2>. QED BY <2>4, <2>5
  <1>4. Bad \in SUBSET Nat
    BY <1>1
  <1>5. Bad = {}
    <2>. HIDE DEF Bad
    <2>. QED BY <1>3, <1>4, NoLeast
  <1>6. g[T] # h[T] => Cardinality(T) \in Bad
    OBVIOUS
  <1>. QED BY <1>5, <1>6

LEMMA TotalStep ==
    ASSUME NEW S, IsFiniteSet(S)
    PROVE  Total(S) = IF S = {} THEN 0 ELSE Cost(Chosen(S)) + Total(S \ {Chosen(S)})
  <1>. DEFINE T == S \ {Chosen(S)}
  <1>1. PICK g : IsSum(g, S) /\ Total(S) = g[S]
    BY TotalIsSum
  <1>2. Total(S) = SumStep(g, S)
    <2>1. g[S] = SumStep(g, S)
      BY <1>1 DEF IsSum
    <2>. QED BY <1>1, <2>1
  <1>3. IsFiniteSet(T)
    BY FS_RemoveElement
  <1>4. PICK h : IsSum(h, T) /\ Total(T) = h[T]
    BY <1>3, TotalIsSum
  <1>5. g[T] = h[T]
    <2>1. T \in SUBSET S
      OBVIOUS
    <2>. HIDE DEF T
    <2>. QED BY <1>1, <1>4, <2>1, SumsAgree
  <1>. QED BY <1>2, <1>4, <1>5 DEF SumStep

LEMMA TotalIsNat ==
    ASSUME NEW S \in SUBSET Orders, IsFiniteSet(S)
    PROVE  Total(S) \in Nat
  <1>. DEFINE Bad == {Cardinality(s) : s \in {t \in SUBSET S : Total(t) \notin Nat}}
  <1>1. \A s \in SUBSET S : IsFiniteSet(s) /\ Cardinality(s) \in Nat
    BY FS_Subset, FS_CardinalityType
  <1>2. \A n \in Bad : \E m \in Bad : m < n
    <2>. TAKE n \in Bad
    <2>1. PICK s \in SUBSET S : n = Cardinality(s) /\ Total(s) \notin Nat
      OBVIOUS
    <2>. DEFINE t == s \ {Chosen(s)}
    <2>2. s # {} /\ Total(s) = Cost(Chosen(s)) + Total(t)
      <3>1. Total(s) = IF s = {} THEN 0 ELSE Cost(Chosen(s)) + Total(t)
        <4>1. IsFiniteSet(s)
          BY <1>1
        <4>. QED BY <4>1, TotalStep
      <3>. QED BY <2>1, <3>1
    <2>3. t \in SUBSET S /\ Chosen(s) \in s /\ Chosen(s) \in Orders
      BY <2>2, ChosenIsIn
    <2>4. Cost(Chosen(s)) \in Nat
      BY <2>3, Costs
    <2>5. Total(t) \notin Nat
      BY <2>1, <2>2, <2>4
    <2>6. Cardinality(t) = n - 1 /\ n \in Nat
      BY <1>1, <2>1, <2>3, FS_RemoveElement
    <2>7. Cardinality(t) \in Bad
      BY <2>3, <2>5
    <2>. HIDE DEF Bad, t
    <2>. QED BY <2>6, <2>7
  <1>3. Bad \in SUBSET Nat
    BY <1>1
  <1>4. Bad = {}
    <2>. HIDE DEF Bad
    <2>. QED BY <1>2, <1>3, NoLeast
  <1>. QED BY <1>4

(* Any element may be taken out first.                                     *)
LEMMA TotalWithout ==
    ASSUME NEW S \in SUBSET Orders, IsFiniteSet(S), NEW o \in S
    PROVE  Total(S) = Cost(o) + Total(S \ {o})
  <1>. DEFINE Fails(t) == \E x \in t : Total(t) # Cost(x) + Total(t \ {x})
              Bad == {Cardinality(s) : s \in {t \in SUBSET S : Fails(t)}}
  <1>1. \A s \in SUBSET S : /\ IsFiniteSet(s) /\ Cardinality(s) \in Nat
                            /\ s \in SUBSET Orders
    BY FS_Subset, FS_CardinalityType
  <1>2. \A n \in Bad : \E m \in Bad : m < n
    <2>. TAKE n \in Bad
    <2>1. PICK s \in SUBSET S : n = Cardinality(s) /\ Fails(s)
      OBVIOUS
    <2>2. PICK x \in s : Total(s) # Cost(x) + Total(s \ {x})
      BY <2>1
    <2>. DEFINE p == Chosen(s)
                t == s \ {p}
                u == s \ {x}
    <2>3. p \in s /\ t \in SUBSET S /\ u \in SUBSET S
      BY <2>2, ChosenIsIn
    <2>4. Total(s) = Cost(p) + Total(t)
      BY <1>1, <2>2, TotalStep
    <2>5. p # x
      BY <2>2, <2>4
    <2>6. x \in t /\ p \in u /\ t \ {x} = u \ {p}
      BY <2>2, <2>3, <2>5
    <2>7. /\ Cost(p) \in Nat /\ Cost(x) \in Nat /\ Total(t \ {x}) \in Nat
      <3>1. t \ {x} \in SUBSET S
        OBVIOUS
      <3>2. t \ {x} \in SUBSET Orders /\ IsFiniteSet(t \ {x})
        BY <1>1, <3>1
      <3>3. p \in Orders /\ x \in Orders
        BY <2>2, <2>3
      <3>. QED BY <3>2, <3>3, Costs, TotalIsNat
    <2>. HIDE DEF p
    <2>8. Fails(t) \/ Fails(u)
      <3>. SUFFICES ASSUME ~Fails(t), ~Fails(u)
                    PROVE  FALSE
        OBVIOUS
      <3>1. Total(t) = Cost(x) + Total(t \ {x})
        BY <2>6
      <3>2. Total(u) = Cost(p) + Total(u \ {p})
        BY <2>6
      <3>3. Total(t \ {x}) = Total(u \ {p}) /\ Total(s) # Cost(x) + Total(u)
        BY <2>2, <2>6
      <3>. HIDE DEF t, u
      <3>. QED BY <2>4, <2>7, <3>1, <3>2, <3>3
    <2>9. Cardinality(t) = n - 1 /\ Cardinality(u) = n - 1 /\ n \in Nat
      BY <1>1, <2>1, <2>2, <2>3, FS_RemoveElement
    <2>10. Cardinality(t) \in Bad \/ Cardinality(u) \in Bad
      <3>. HIDE DEF Fails, t, u
      <3>. QED BY <2>3, <2>8
    <2>. HIDE DEF Bad, t, u
    <2>. QED BY <2>9, <2>10
  <1>3. Bad \in SUBSET Nat
    BY <1>1
  <1>4. Bad = {}
    <2>. HIDE DEF Bad
    <2>. QED BY <1>2, <1>3, NoLeast
  <1>. QED BY <1>4

-----------------------------------------------------------------------------
(* The books: what the table and the file hold when orders were paid.      *)

Owed(n, S) == {o \in S : Order[o].account = n}

Within(t, f, S) ==
  /\ DOMAIN t \subseteq DOMAIN LoadHashTable(f)
  /\ \A n \in DOMAIN t : 0 <= t[n] /\ t[n] <= LoadHashTable(f)[n] - Total(Owed(n, S))

Exact(t, f, S) ==
  /\ DOMAIN t = DOMAIN LoadHashTable(f)
  /\ \A n \in DOMAIN t : t[n] = LoadHashTable(f)[n] - Total(Owed(n, S))

Paid == {S \in SUBSET Orders : IsFiniteSet(S)}

LEMMA OwedIsTotal ==
    ASSUME NEW S \in Paid, NEW n
    PROVE  Total(Owed(n, S)) \in Nat
  <1>1. Owed(n, S) \in SUBSET S
    BY DEF Owed
  <1>2. Owed(n, S) \in SUBSET Orders /\ IsFiniteSet(Owed(n, S))
    BY <1>1, FS_Subset DEF Paid
  <1>. QED BY <1>2, TotalIsNat

LEMMA OwedGrows ==
    ASSUME NEW S \in Paid, NEW o \in Orders, o \notin S, NEW n
    PROVE  /\ S \cup {o} \in Paid
           /\ n = Order[o].account =>
                Total(Owed(n, S \cup {o})) = Cost(o) + Total(Owed(n, S))
           /\ n # Order[o].account => Owed(n, S \cup {o}) = Owed(n, S)
  <1>1. S \cup {o} \in Paid
    BY FS_AddElement DEF Paid
  <1>2. ASSUME n = Order[o].account
        PROVE  Total(Owed(n, S \cup {o})) = Cost(o) + Total(Owed(n, S))
    <2>. DEFINE T == Owed(n, S \cup {o})
    <2>1. T \in SUBSET (S \cup {o})
      BY DEF Owed
    <2>2. T \in SUBSET Orders /\ IsFiniteSet(T)
      BY <1>1, <2>1, FS_Subset DEF Paid
    <2>3. o \in T /\ T \ {o} = Owed(n, S)
      BY <1>2 DEF Owed
    <2>4. Total(T) = Cost(o) + Total(T \ {o})
      <3>. HIDE DEF T
      <3>. QED BY <2>2, <2>3, TotalWithout
    <2>. QED BY <2>3, <2>4
  <1>3. n # Order[o].account => Owed(n, S \cup {o}) = Owed(n, S)
    BY DEF Owed
  <1>. QED BY <1>1, <1>2, <1>3

(* The balance of an order's account after the order.                      *)
After(t, o) ==
  [n \in DOMAIN t |-> IF n = Order[o].account THEN t[n] - Cost(o) ELSE t[n]]

LEMMA DebitKeepsBooks ==
    ASSUME NEW t \in Table, NEW f \in Files, NEW S \in Paid, NEW o \in Orders, o \notin S,
           Order[o].account \in DOMAIN t, Cost(o) <= t[Order[o].account]
    PROVE  /\ After(t, o) \in Table
           /\ Within(t, f, S) => Within(After(t, o), f, S \cup {o})
           /\ Exact(t, f, S) => Exact(After(t, o), f, S \cup {o})
  <1>. DEFINE first == LoadHashTable(f)
              a == After(t, o)
  <1>1. Cost(o) \in Nat
    BY Costs
  <1>2. t \in [DOMAIN t -> Nat] /\ DOMAIN t \subseteq Accounts /\ IsFiniteSet(DOMAIN t)
    BY DEF Table
  <1>3. first \in [DOMAIN first -> Nat]
    BY LoadType, PaymentAssumption DEF Table, FileType
  <1>4. /\ DOMAIN a = DOMAIN t
        /\ \A n \in DOMAIN t : a[n] = IF n = Order[o].account THEN t[n] - Cost(o) ELSE t[n]
    BY DEF After
  <1>5. \A n \in DOMAIN t : a[n] \in Nat
    BY <1>1, <1>2, <1>4
  <1>6. a \in Table
    <2>1. a \in [DOMAIN t -> Nat]
      BY <1>5 DEF After
    <2>. HIDE DEF a
    <2>. QED BY <1>2, <2>1 DEF Table
  <1>7. \A n : /\ Total(Owed(n, S)) \in Nat
               /\ Total(Owed(n, S \cup {o})) =
                    IF n = Order[o].account THEN Cost(o) + Total(Owed(n, S))
                    ELSE Total(Owed(n, S))
    BY OwedIsTotal, OwedGrows
  <1>. HIDE DEF a, first
  <1>8. ASSUME NEW n \in DOMAIN t, n \in DOMAIN first
        PROVE  /\ 0 <= a[n]
               /\ t[n] <= first[n] - Total(Owed(n, S)) =>
                    a[n] <= first[n] - Total(Owed(n, S \cup {o}))
               /\ t[n] = first[n] - Total(Owed(n, S)) =>
                    a[n] = first[n] - Total(Owed(n, S \cup {o}))
    <2>1. t[n] \in Nat /\ first[n] \in Nat /\ a[n] \in Nat
      BY <1>2, <1>3, <1>5, <1>8
    <2>2. Total(Owed(n, S)) \in Nat
      BY <1>7
    <2>3. CASE n = Order[o].account
      <3>1. a[n] = t[n] - Cost(o) /\ Total(Owed(n, S \cup {o})) = Cost(o) + Total(Owed(n, S))
        BY <1>4, <1>7, <2>3
      <3>. QED BY <1>1, <2>1, <2>2, <3>1
    <2>4. CASE n # Order[o].account
      <3>1. a[n] = t[n] /\ Total(Owed(n, S \cup {o})) = Total(Owed(n, S))
        BY <1>4, <1>7, <2>4
      <3>. QED BY <2>1, <2>2, <3>1
    <2>. QED BY <2>3, <2>4
  <1>9. Within(t, f, S) => Within(a, f, S \cup {o})
    BY <1>4, <1>8 DEF Within, first
  <1>10. Exact(t, f, S) => Exact(a, f, S \cup {o})
    BY <1>4, <1>8 DEF Exact, first
  <1>. QED BY <1>6, <1>9, <1>10 DEF a

(* What is cut off of an amount makes it smaller.                          *)
LEMMA CutIsLess ==
    ASSUME NEW a \in Nat, NEW b \in CutAmounts(a)
    PROVE  b \in Nat /\ b <= a
  <1>1. Unit \in Nat \ {0}
    BY PaymentAssumption
  <1>2. \A m \in Nat, k \in Nat \ {0} : m \div k \in Nat /\ m \div k <= m
    OBVIOUS
  <1>3. \A m \in Nat, k \in Nat \ {0} : (m \div k) * k <= m
    OBVIOUS
  <1>4. \A k, m, u \in Nat : k <= m => k * u \in Nat /\ k * u <= m * u
    OBVIOUS
  <1>5. \A n \in 0 .. 9 : 10 ^ n \in Nat \ {0}
    <2>. TAKE n \in 0 .. 9
    <2>1. \/ n = 0 \/ n = 1 \/ n = 2 \/ n = 3 \/ n = 4
          \/ n = 5 \/ n = 6 \/ n = 7 \/ n = 8 \/ n = 9
      OBVIOUS
    <2>2. CASE n = 0
      BY <2>2
    <2>3. CASE n = 1
      BY <2>3
    <2>4. CASE n = 2
      BY <2>4
    <2>5. CASE n = 3
      BY <2>5
    <2>6. CASE n = 4
      BY <2>6
    <2>7. CASE n = 5
      BY <2>7
    <2>8. CASE n = 6
      BY <2>8
    <2>9. CASE n = 7
      BY <2>9
    <2>10. CASE n = 8
      BY <2>10
    <2>11. CASE n = 9
      BY <2>11
    <2>. QED BY <2>1, <2>2, <2>3, <2>4, <2>5, <2>6, <2>7, <2>8, <2>9, <2>10, <2>11
  <1>6. CASE b = (a \div 10) * 10
    BY <1>6
  <1>7. ASSUME NEW n \in 0 .. 9, b = ((a \div Unit) \div 10 ^ n) * Unit
        PROVE  b \in Nat /\ b <= a
    <2>. DEFINE m == a \div Unit
                k == m \div 10 ^ n
    <2>1. m \in Nat /\ m * Unit <= a
      BY <1>1, <1>2, <1>3
    <2>2. k \in Nat /\ k <= m
      <3>. HIDE DEF m
      <3>. QED BY <1>2, <1>5, <2>1
    <2>3. k * Unit \in Nat /\ k * Unit <= m * Unit /\ m * Unit \in Nat
      <3>. HIDE DEF k, m
      <3>. QED BY <1>1, <1>4, <2>1, <2>2
    <2>4. b = k * Unit
      BY <1>7
    <2>. HIDE DEF k, m
    <2>. QED BY <2>1, <2>3, <2>4
  <1>. QED BY <1>6, <1>7 DEF CutAmounts

(* A file whose lines are all of a table, or cut, has no more in it.       *)
LEMMA BoundedLines ==
    ASSUME NEW t \in Table, NEW f \in FileType, f.header = TRUE,
           \A i \in DOMAIN f.lines : /\ f.lines[i].accountName \in DOMAIN t
                                     /\ f.lines[i].amount <= t[f.lines[i].accountName]
    PROVE  /\ DOMAIN LoadHashTable(f) \subseteq DOMAIN t
           /\ \A n \in DOMAIN LoadHashTable(f) : LoadHashTable(f)[n] <= t[n]
  <1>1. LoadHashTable(f) = [n \in NamesIn(f) |-> f.lines[Min(LinesOf(f, n))].amount]
    BY LoadIsFunction, Zenon
  <1>2. \A n \in NamesIn(f) : /\ Min(LinesOf(f, n)) \in DOMAIN f.lines
                              /\ f.lines[Min(LinesOf(f, n))].accountName = n
    BY FirstLine DEF Read, FileType
  <1>. QED BY <1>1, <1>2

LEMMA SavedLines ==
    ASSUME NEW t \in Table
    PROVE  /\ SaveHashTable(t) \in FileType
           /\ SaveHashTable(t).header = TRUE
           /\ \A i \in DOMAIN SaveHashTable(t).lines :
                \E n \in DOMAIN t :
                   SaveHashTable(t).lines[i] = [accountName |-> n, amount |-> t[n]]
  <1>. DEFINE S == DOMAIN t
              Line(n) == [accountName |-> n, amount |-> t[n]]
              E == {Line(n) : n \in S}
              f == SaveHashTable(t)
              k == Cardinality(E)
  <1>1. t \in [S -> Nat] /\ S \subseteq Accounts /\ IsFiniteSet(S)
    BY DEF Table
  <1>2. IsFiniteSet(E)
    <2>1. [n \in S |-> Line(n)] \in Surjection(S, E)
      BY DEF Surjection
    <2>. HIDE DEF E, S
    <2>. QED BY <1>1, <2>1, FS_Surjection
  <1>3. E \subseteq Account
    BY <1>1 DEF Account
  <1>4. f = [header |-> TRUE, lines |-> SetToSeq(E)]
    BY DEF SaveHashTable
  <1>5. \A e \in E : \E n \in DOMAIN t : e = Line(n)
    OBVIOUS
  <1>. HIDE DEF E, Line, f
  <1>6. k \in Nat /\ SetToSeq(E) \in [1..k -> E]
    BY <1>2, SetToSeqIsBijection
  <1>7. SetToSeq(E) \in Seq(Account \cup {Malformed})
    BY <1>3, <1>6
  <1>8. f \in FileType /\ f.header = TRUE /\ f.lines = SetToSeq(E)
    BY <1>4, <1>7 DEF FileType
  <1>9. \A i \in DOMAIN f.lines : \E n \in DOMAIN t : f.lines[i] = Line(n)
    BY <1>5, <1>6, <1>8
  <1>. QED BY <1>8, <1>9 DEF f, Line

(* A save that was cut is a file, and nobody has more in it.               *)
LEMMA PartsAreLess ==
    ASSUME NEW t \in Table, NEW f \in PartlySaved(t)
    PROVE  /\ f \in FileType
           /\ DOMAIN LoadHashTable(f) \subseteq DOMAIN t
           /\ \A n \in DOMAIN LoadHashTable(f) : LoadHashTable(f)[n] <= t[n]
  <1>1. t \in [DOMAIN t -> Nat] /\ DOMAIN t \subseteq Accounts /\ IsFiniteSet(DOMAIN t)
    BY DEF Table
  <1>2. CASE f = Truncated
    <2>1. f \in FileType
      BY <1>2 DEF Truncated, FileType
    <2>2. LoadHashTable(f) = NoAccounts
      BY <1>2 DEF Truncated, LoadHashTable
    <2>. QED BY <2>1, <2>2 DEF NoAccounts
  <1>3. ASSUME NEW S \in SUBSET DOMAIN t
        PROVE  /\ SaveHashTable(Restrict(t, S)) \in FileType
               /\ SaveHashTable(Restrict(t, S)).header = TRUE
               /\ \A i \in DOMAIN SaveHashTable(Restrict(t, S)).lines :
                    /\ SaveHashTable(Restrict(t, S)).lines[i].accountName \in DOMAIN t
                    /\ SaveHashTable(Restrict(t, S)).lines[i].amount
                         <= t[SaveHashTable(Restrict(t, S)).lines[i].accountName]
    <2>. DEFINE r == Restrict(t, S)
    <2>1. r \in [S -> Nat] /\ \A n \in S : r[n] = t[n]
      BY <1>1 DEF Restrict
    <2>2. r \in Table /\ DOMAIN r = S
      <3>1. S \in SUBSET Accounts /\ IsFiniteSet(S)
        BY <1>1, FS_Subset
      <3>. HIDE DEF r
      <3>. QED BY <2>1, <3>1 DEF Table
    <2>. HIDE DEF r
    <2>3. /\ SaveHashTable(r) \in FileType /\ SaveHashTable(r).header = TRUE
          /\ \A i \in DOMAIN SaveHashTable(r).lines :
               \E n \in DOMAIN r :
                  SaveHashTable(r).lines[i] = [accountName |-> n, amount |-> r[n]]
      BY <2>2, SavedLines
    <2>4. \A i \in DOMAIN SaveHashTable(r).lines :
            /\ SaveHashTable(r).lines[i].accountName \in DOMAIN t
            /\ SaveHashTable(r).lines[i].amount <= t[SaveHashTable(r).lines[i].accountName]
      <3>. TAKE i \in DOMAIN SaveHashTable(r).lines
      <3>1. PICK n \in S : SaveHashTable(r).lines[i] = [accountName |-> n, amount |-> r[n]]
        BY <2>2, <2>3
      <3>2. r[n] = t[n] /\ t[n] \in Nat /\ n \in DOMAIN t
        BY <1>1, <2>1
      <3>. QED BY <3>1, <3>2
    <2>. QED BY <2>3, <2>4 DEF r
  <1>4. ASSUME NEW S \in SUBSET DOMAIN t, f = SaveHashTable(Restrict(t, S))
        PROVE  /\ f \in FileType
               /\ DOMAIN LoadHashTable(f) \subseteq DOMAIN t
               /\ \A n \in DOMAIN LoadHashTable(f) : LoadHashTable(f)[n] <= t[n]
    <2>1. /\ f \in FileType /\ f.header = TRUE
          /\ \A i \in DOMAIN f.lines : /\ f.lines[i].accountName \in DOMAIN t
                                       /\ f.lines[i].amount <= t[f.lines[i].accountName]
      BY <1>3, <1>4
    <2>. QED BY <2>1, BoundedLines
  <1>5. ASSUME NEW S \in SUBSET DOMAIN t, NEW n \in DOMAIN t \ S, NEW a \in CutAmounts(t[n]),
               f = [SaveHashTable(Restrict(t, S)) EXCEPT
                      !.lines = Append(@, [accountName |-> n, amount |-> a])]
        PROVE  /\ f \in FileType
               /\ DOMAIN LoadHashTable(f) \subseteq DOMAIN t
               /\ \A m \in DOMAIN LoadHashTable(f) : LoadHashTable(f)[m] <= t[m]
    <2>. DEFINE part == SaveHashTable(Restrict(t, S))
                line == [accountName |-> n, amount |-> a]
    <2>1. /\ part \in FileType /\ part.header = TRUE
          /\ \A i \in DOMAIN part.lines : /\ part.lines[i].accountName \in DOMAIN t
                                          /\ part.lines[i].amount <= t[part.lines[i].accountName]
      BY <1>3
    <2>2. t[n] \in Nat /\ n \in Accounts
      BY <1>1
    <2>3. a \in Nat /\ a <= t[n]
      BY <2>2, CutIsLess
    <2>4. /\ line \in Account /\ line.accountName \in DOMAIN t
          /\ line.amount <= t[line.accountName]
      BY <2>2, <2>3 DEF Account
    <2>5. f = [part EXCEPT !.lines = Append(@, line)]
      BY <1>5
    <2>. HIDE DEF part, line
    <2>6. part.lines \in Seq(Account \cup {Malformed})
      BY <2>1 DEF FileType
    <2>7. /\ f = [header |-> TRUE, lines |-> Append(part.lines, line)]
      BY <2>1, <2>5 DEF FileType
    <2>8. Append(part.lines, line) \in Seq(Account \cup {Malformed})
      BY <2>4, <2>6
    <2>9. f \in FileType /\ f.header = TRUE /\ f.lines = Append(part.lines, line)
      BY <2>7, <2>8 DEF FileType
    <2>10. \A i \in DOMAIN f.lines : (i \in DOMAIN part.lines /\ f.lines[i] = part.lines[i])
                                      \/ f.lines[i] = line
      BY <2>6, <2>9
    <2>11. \A i \in DOMAIN f.lines : /\ f.lines[i].accountName \in DOMAIN t
                                     /\ f.lines[i].amount <= t[f.lines[i].accountName]
      <3>. TAKE i \in DOMAIN f.lines
      <3>1. CASE i \in DOMAIN part.lines /\ f.lines[i] = part.lines[i]
        BY <2>1, <3>1
      <3>2. CASE f.lines[i] = line
        BY <2>4, <3>2
      <3>. QED BY <2>10, <3>1, <3>2
    <2>. QED BY <2>9, <2>11, BoundedLines
  <1>. QED BY <1>2, <1>4, <1>5 DEF PartlySaved

LEMMA PartKeepsBooks ==
    ASSUME NEW t \in Table, NEW f \in PartlySaved(t), NEW g \in Files, NEW S \in Paid,
           Within(t, g, S)
    PROVE  f \in FileType /\ Within(LoadHashTable(f), g, S)
  <1>. DEFINE l == LoadHashTable(f)
              first == LoadHashTable(g)
  <1>1. /\ f \in FileType /\ DOMAIN l \subseteq DOMAIN t
        /\ \A n \in DOMAIN l : l[n] <= t[n]
    BY PartsAreLess
  <1>2. t \in [DOMAIN t -> Nat]
    BY DEF Table
  <1>3. l \in [DOMAIN l -> Nat]
    BY <1>1, LoadType DEF Table
  <1>4. first \in [DOMAIN first -> Nat]
    BY LoadType, PaymentAssumption DEF Table, FileType
  <1>5. \A n : Total(Owed(n, S)) \in Nat
    BY OwedIsTotal
  <1>6. /\ DOMAIN t \subseteq DOMAIN first
        /\ \A n \in DOMAIN t : t[n] <= first[n] - Total(Owed(n, S))
    BY DEF Within
  <1>. HIDE DEF l, first
  <1>7. ASSUME NEW n \in DOMAIN l
        PROVE  0 <= l[n] /\ l[n] <= first[n] - Total(Owed(n, S))
    <2>1. l[n] \in Nat /\ t[n] \in Nat /\ first[n] \in Nat /\ l[n] <= t[n]
          /\ t[n] <= first[n] - Total(Owed(n, S))
      BY <1>1, <1>2, <1>3, <1>4, <1>6
    <2>. QED BY <1>5, <2>1
  <1>8. DOMAIN l \subseteq DOMAIN first
    BY <1>1, <1>6
  <1>. QED BY <1>1, <1>7, <1>8 DEF Within, l, first

-----------------------------------------------------------------------------
(* A request is understood as it was meant, or not at all.                 *)
Parsed(o) == [accountName |-> Order[o].account, amount |-> Cost(o)]

LEMMA ParsedIsNotNone ==
    ASSUME NEW o \in Orders
    PROVE  Parsed(o) # None
  <1>1. Parsed(o) \in Account
    BY Costs, PaymentAssumption DEF Parsed, Account
  <1>. QED BY <1>1, PaymentAssumption

LEMMA RequestIsParsed ==
    ASSUME NEW o \in Orders
    PROVE  /\ ParsePSRequest(MakePSRequest(o)) \in {Parsed(o), None}
           /\ ParsePSRequest(MakePSRequest(o)) = Parsed(o) => Cost(o) > 0
           /\ InOrder(o) => ParsePSRequest(MakePSRequest(o)) = Parsed(o)
  <1>. DEFINE text == MakePSRequest(o)
  <1>1. /\ Len(text) = 6
        /\ \A i \in 1..6 : text[i].title = Titles[i]
        /\ text[2].field = Order[o].service
        /\ text[3].field = [name |-> Order[o].account, length |-> Order[o].nameLength]
        /\ text[4].field = Order[o].number
        /\ text[5].field = Order[o].key
        /\ text[6].field = [value |-> Cost(o), decimals |-> 2]
    BY Costs DEF MakePSRequest
  <1>. HIDE DEF text
  <1>2. /\ ValidateRequest(text[1].field, 1)
        /\ ValidateRequest(text[2].field, 2) <=>
             Order[o].service.length \in 1..20 /\ Order[o].service.made_of # "other"
        /\ ValidateRequest(text[3].field, 3) <=> Order[o].nameLength \in 1..63
        /\ ValidateRequest(text[4].field, 4) <=>
             (Order[o].number.length > 0 => Order[o].number.made_of = "digits")
        /\ ValidateRequest(text[5].field, 5) <=> Order[o].key > 0
        /\ ValidateRequest(text[6].field, 6) <=> Cost(o) > 0
    BY <1>1 DEF ValidateRequest
  <1>3. ParsePSRequest(text) =
          IF \A i \in 1..6 : ValidateRequest(text[i].field, i) THEN Parsed(o) ELSE None
    BY <1>1 DEF ParsePSRequest, Parsed
  <1>4. InOrder(o) => \A i \in 1..6 : ValidateRequest(text[i].field, i)
    BY <1>2, Costs DEF InOrder
  <1>. QED BY <1>2, <1>3, <1>4, ParsedIsNotNone DEF text

LEMMA CutRequestIsRefused ==
    ASSUME NEW o \in Orders, NEW text \in CutRequests(MakePSRequest(o))
    PROVE  text = MakePSRequest(o) \/ ParsePSRequest(text) = None
  <1>. DEFINE whole == MakePSRequest(o)
  <1>1. whole \in Seq({whole[i] : i \in 1..6}) /\ Len(whole) = 6
    BY DEF MakePSRequest
  <1>2. ASSUME NEW k \in 0..6, text = SubSeq(whole, 1, k)
        PROVE  text = whole \/ ParsePSRequest(text) = None
    <2>. HIDE DEF whole
    <2>1. CASE k = 6
      BY <1>1, <1>2, <2>1
    <2>2. CASE k # 6
      <3>1. Len(text) = k /\ ~(k >= 6)
        BY <1>1, <1>2, <2>2
      <3>. QED BY <3>1 DEF ParsePSRequest
    <2>. QED BY <2>1, <2>2
  <1>3. ASSUME NEW v, NEW d \in {0, 1},
               text = [whole EXCEPT ![6].field = [value |-> v, decimals |-> d]]
        PROVE  ParsePSRequest(text) = None
    <2>1. text[6].field.decimals = d
      BY <1>3 DEF MakePSRequest
    <2>2. ~ValidateRequest(text[6].field, 6)
      BY <2>1 DEF ValidateRequest
    <2>. QED BY <2>2 DEF ParsePSRequest
  <1>4. \/ \E k \in 0..6 : text = SubSeq(whole, 1, k)
        \/ \E v \in CutAmounts(whole[6].field.value), d \in {0, 1} :
              text = [whole EXCEPT ![6].field = [value |-> v, decimals |-> d]]
    BY DEF CutRequests
  <1>. QED BY <1>2, <1>3, <1>4

(* So is a reply.                                                          *)
LEMMA ReplyIsParsed ==
    ASSUME NEW s \in 0..3
    PROVE  /\ ParsePSReply(MakePSReply(s)) = s
           /\ \A text \in CutReplies(MakePSReply(s)) : ParsePSReply(text) \in {s, None}
  <1>. DEFINE whole == MakePSReply(s)
  <1>1. whole \in Seq({whole[1], whole[2]}) /\ Len(whole) = 2
    BY DEF MakePSReply
  <1>a. whole[1].title = "PaymentService/1.0 " /\ whole[1].field = s
    BY DEF MakePSReply
  <1>b. /\ s = 0 => whole[2].title = "Transaction:"
        /\ s # 0 => whole[2].title = "Reason:" /\ whole[2].field # ""
    BY DEF MakePSReply
  <1>. HIDE DEF whole
  <1>2. ParsePSReply(whole) = s
    <2>1. Len(whole) >= 2
      BY <1>1
    <2>2. whole[1].field \in 0..3
      BY <1>a, Zenon
    <2>3. IF whole[1].field = 0 THEN whole[2].title = "Transaction:"
          ELSE whole[2].title = "Reason:" /\ whole[2].field # ""
      BY <1>a, <1>b
    <2>. QED BY <1>a, <2>1, <2>2, <2>3, Zenon DEF ParsePSReply
  <1>3. ASSUME NEW k \in 0..2
        PROVE  ParsePSReply(SubSeq(whole, 1, k)) \in {s, None}
    <2>1. CASE k = 2
      <3>1. SubSeq(whole, 1, 2) = whole
        BY <1>1
      <3>. QED BY <1>2, <2>1, <3>1
    <2>2. CASE k # 2
      <3>1. ~(Len(SubSeq(whole, 1, k)) >= 2)
        BY <1>1, <2>2
      <3>. QED BY <3>1 DEF ParsePSReply
    <2>. QED BY <2>1, <2>2
  <1>4. ParsePSReply(<<[whole[1] EXCEPT !.field = 0]>>) = None
    BY DEF ParsePSReply
  <1>5. ParsePSReply([whole EXCEPT ![2].field = ""]) \in {s, None}
    <2>. DEFINE text == [whole EXCEPT ![2].field = ""]
    <2>1. text[1] = whole[1]
      BY <1>1
    <2>2. text[1].field = s
      BY <1>a, <2>1
    <2>. HIDE DEF text
    <2>. QED BY <2>2 DEF ParsePSReply, text
  <1>6. \A text \in CutReplies(whole) :
          \/ \E k \in 0..2 : text = SubSeq(whole, 1, k)
          \/ text = <<[whole[1] EXCEPT !.field = 0]>>
          \/ text = [whole EXCEPT ![2].field = ""]
    BY DEF CutReplies
  <1>. QED BY <1>2, <1>3, <1>4, <1>5, <1>6 DEF whole

LEMMA Results ==
    /\ Result(0) = "OK" /\ Result(1) = "ERROR" /\ Result(2) = "USER_ERROR"
    /\ Result(3) = "NO_CASH" /\ Result(None) = "ERROR"
  BY PaymentAssumption DEF Result

-----------------------------------------------------------------------------
(* The inductive invariant.                                                *)

Busy == {"charged", "truncated", "saved"}

Types ==
  /\ stage \in [Orders -> {"unsent", "sent", "read", "answered", "closed"}]
  /\ told \in [Orders -> {None, "gone", "OK", "ERROR", "USER_ERROR", "NO_CASH"}]
  /\ taken \in [Orders -> Nat]
  /\ DOMAIN request = Orders /\ DOMAIN reply = Orders
  /\ pc \in {"down", "loop"} \cup Busy
  /\ pc \in Busy => job \in Orders /\ stage[job] = "read"
  /\ torn \in BOOLEAN /\ lost \in BOOLEAN
  /\ provided \in Files

(* While nothing is missing in it, the table has the accounts of the first *)
(* file, and so has the file; between two orders they agree.               *)
Agreeing ==
  /\ pc # "down" /\ ~lost => psDatabase \in [DOMAIN opening -> Nat]
  /\ ~torn => LoadHashTable(file) \in [DOMAIN opening -> Nat]
  /\ pc \in {"loop", "saved"} /\ flawed = {} /\ ~lost /\ ~torn =>
       LoadHashTable(file) = psDatabase

(* What was charged is saved before it is answered.                        *)
Saving ==
  /\ pc # "down" => saved \subseteq charged
  /\ pc \in {"charged", "truncated"} => job \in charged
  /\ pc = "truncated" => torn /\ charged \subseteq saved
  /\ pc = "saved" => job \in saved \cup flawed

NoCash(o) ==
  LET n == Order[o].account IN
  flawed = {} =>
    /\ n \in DOMAIN opening
    /\ torn \/ LoadHashTable(file)[n] <= Cost(o)
    /\ lost \/ pc = "down" \/ psDatabase[n] <= Cost(o)

(* What is true of an order that was answered with a status.               *)
Answered(o, s) ==
  /\ s = 0 => taken[o] = Cost(o) /\ Cost(o) > 0 /\ o \in saved \cup flawed
  /\ s # 0 => taken[o] = 0
  /\ s = 1 => ~InOrder(o) \/ o \in unsure
  /\ s = 2 => Order[o].account \notin DOMAIN opening \/ o \in flawed
  /\ s = 3 => NoCash(o)

Unpaid(o) == stage[o] \in {"unsent", "sent"} => taken[o] = 0

Untold(o) ==
  /\ stage[o] = "unsent" => told[o] \in {None, "ERROR"}
  /\ stage[o] # "answered" => told[o] \in {None, "ERROR", "gone"}
  /\ told[o] = "gone" => o \in unsure
  /\ stage[o] \notin {"unsent", "answered"} /\ told[o] = "ERROR" => o \in unsure

Unread(o) ==
  stage[o] = "sent" => \/ request[o] = MakePSRequest(o)
                       \/ ParsePSRequest(request[o]) = None /\ told[o] = "gone"

BeingServed(o) ==
  stage[o] = "read" => /\ pc \in Busy /\ job = o
                       /\ taken[o] = Cost(o) /\ Cost(o) > 0
                       /\ reply[o] = MakePSReply(0)

AnsweredRightly(o) ==
  stage[o] = "answered" =>
    \E s \in 0..3 : /\ reply[o] = MakePSReply(s) /\ Answered(o, s)
                    /\ told[o] \in {None, "ERROR", "gone", Result(s)}

OrderIsRight(o) ==
  /\ Unpaid(o) /\ Untold(o) /\ Unread(o) /\ BeingServed(o) /\ AnsweredRightly(o)
  /\ ChargedIsTold(o) /\ ErrorIsJustified(o)

Inv == Types /\ Agreeing /\ Saving /\ \A o \in Orders : OrderIsRight(o)

LEMMA InvInit == Init => Inv
  <1>. SUFFICES ASSUME Init
                PROVE  Inv
    OBVIOUS
  <1>1. Types
    BY DEF Init, Types, Busy
  <1>2. LoadHashTable(file) \in Table /\ opening = LoadHashTable(file)
    BY LoadType, PaymentAssumption DEF Init, opening, FileType
  <1>3. LoadHashTable(file) \in [DOMAIN opening -> Nat]
    BY <1>2 DEF Table
  <1>4. Agreeing /\ Saving
    BY <1>3 DEF Init, Agreeing, Saving
  <1>5. \A o \in Orders : OrderIsRight(o)
    BY PaymentAssumption
    DEF Init, OrderIsRight, Unpaid, Untold, Unread, BeingServed, AnsweredRightly,
        ChargedIsTold, ErrorIsJustified
  <1>. QED BY <1>1, <1>4, <1>5 DEF Inv

LEMMA InvImplies == Inv => ToldWhatHappened
  <1>. SUFFICES ASSUME Inv, NEW o \in Orders
                PROVE  /\ ChargedIsTold(o) /\ OkIsPaid(o) /\ ErrorIsJustified(o)
                       /\ UserErrorIsJustified(o) /\ NoCashIsJustified(o)
    BY DEF ToldWhatHappened
  <1>1. ChargedIsTold(o) /\ ErrorIsJustified(o) /\ Untold(o) /\ AnsweredRightly(o)
    BY DEF Inv, OrderIsRight
  <1>2. CASE told[o] \in {"OK", "USER_ERROR", "NO_CASH"}
    <2>1. stage[o] = "answered"
      BY <1>1, <1>2, PaymentAssumption DEF Untold
    <2>2. PICK s \in 0..3 : Answered(o, s) /\ told[o] \in {None, "ERROR", "gone", Result(s)}
      BY <1>1, <2>1 DEF AnsweredRightly
    <2>3. told[o] = Result(s)
      BY <1>2, <2>2, PaymentAssumption
    <2>4. /\ told[o] = "OK" => s = 0
          /\ told[o] = "USER_ERROR" => s = 2
          /\ told[o] = "NO_CASH" => s = 3
      BY <2>3, Results
    <2>. QED
      BY <1>1, <2>2, <2>4
      DEF Answered, NoCash, OkIsPaid, UserErrorIsJustified, NoCashIsJustified
  <1>3. CASE told[o] \notin {"OK", "USER_ERROR", "NO_CASH"}
    BY <1>1, <1>3 DEF OkIsPaid, UserErrorIsJustified, NoCashIsJustified
  <1>. QED BY <1>2, <1>3

-----------------------------------------------------------------------------
(* The status of a request tells what is true of the order.                *)
LEMMA StatusIsRight ==
    ASSUME Inv, NEW o \in Orders, stage[o] = "sent"
    PROVE  /\ StatusOf(o) \in 0..3
           /\ StatusOf(o) = 0 =>
                /\ ParsePSRequest(request[o]) = Parsed(o) /\ Cost(o) > 0
                /\ Order[o].account \in DOMAIN psDatabase
                /\ ~(psDatabase[Order[o].account] - Cost(o) <= 0)
           /\ StatusOf(o) = 1 => ~InOrder(o) \/ o \in unsure
           /\ StatusOf(o) = 2 => Order[o].account \notin DOMAIN psDatabase
           /\ StatusOf(o) = 3 => /\ Order[o].account \in DOMAIN psDatabase
                                 /\ psDatabase[Order[o].account] - Cost(o) <= 0
  <1>. DEFINE parsed == ParsePSRequest(request[o])
              n == Order[o].account
  <1>1. Unread(o) /\ Untold(o)
    BY DEF Inv, OrderIsRight
  <1>2. \/ parsed = Parsed(o) /\ Cost(o) > 0
        \/ parsed = None /\ (~InOrder(o) \/ o \in unsure)
    BY <1>1, RequestIsParsed DEF Unread, Untold
  <1>. HIDE DEF parsed
  <1>3. CASE parsed = None
    <2>1. StatusOf(o) = 1
      BY <1>3 DEF StatusOf, parsed
    <2>. QED BY <1>2, <1>3, <2>1, ParsedIsNotNone
  <1>4. CASE parsed = Parsed(o) /\ Cost(o) > 0
    <2>1. parsed # None /\ parsed.accountName = n /\ parsed.amount = Cost(o)
      BY <1>4, ParsedIsNotNone DEF Parsed
    <2>2. StatusOf(o) = IF n \notin DOMAIN psDatabase THEN 2
                        ELSE IF psDatabase[n] - Cost(o) <= 0 THEN 3 ELSE 0
      BY <2>1 DEF StatusOf, parsed
    <2>. QED BY <1>4, <2>2 DEF parsed
  <1>. QED BY <1>2, <1>3, <1>4

LEMMA OpeningIsTable == Types => opening \in Table
  BY LoadType, PaymentAssumption DEF Types, opening, FileType

(* History only grows.                                                     *)
LEMMA Grows ==
    ASSUME Inv, Next
    PROVE  /\ provided' = provided /\ opening' = opening
           /\ saved \subseteq saved' /\ flawed \subseteq flawed' /\ unsure \subseteq unsure'
  <1>1. /\ provided' = provided
        /\ flawed \subseteq flawed' /\ unsure \subseteq unsure'
        /\ saved' = saved \/ OpenFile
    BY DEF Next, CannotPay, SendOrder, SendPart, GivesUp, Receive, ReceivePart, Refuse,
           NoMemory, Charge, InitPaymentServer, OpenFile, OpenFails, WriteFile, WriteFails,
           SendReply, Crash, service, books
  <1>2. OpenFile => saved \subseteq saved'
    BY DEF Inv, Saving, OpenFile
  <1>. QED BY <1>1, <1>2 DEF opening

(* The table after a debit.                                                *)
LEMMA Debited ==
    ASSUME Inv, NEW o \in Orders, Charge(o), ~lost
    PROVE  /\ psDatabase' \in [DOMAIN opening -> Nat]
           /\ \A n \in DOMAIN opening : psDatabase'[n] <= psDatabase[n]
  <1>. DEFINE n == Order[o].account
              S == DOMAIN opening
              rest == HDelete(psDatabase, n)
  <1>1. psDatabase \in [S -> Nat] /\ Cost(o) \in Nat
    BY Costs DEF Inv, Agreeing, Charge
  <1>2. /\ ParsePSRequest(request[o]) = Parsed(o) /\ Cost(o) > 0
        /\ n \in S /\ ~(psDatabase[n] - Cost(o) <= 0)
    BY <1>1, StatusIsRight DEF Charge
  <1>3. psDatabase' = HInsert(rest, n, psDatabase[n] - Cost(o))
    BY <1>2 DEF Charge, Parsed
  <1>4. rest = [m \in S \ {n} |-> psDatabase[m]]
    BY <1>1 DEF HDelete, Restrict
  <1>. HIDE DEF rest, S
  <1>5. psDatabase' = [m \in S |-> IF m = n THEN psDatabase[n] - Cost(o) ELSE psDatabase[m]]
    <2>1. DOMAIN rest = S \ {n} /\ n \notin DOMAIN rest
      BY <1>4
    <2>2. psDatabase' = [m \in DOMAIN rest \cup {n} |->
                           IF m = n THEN psDatabase[n] - Cost(o) ELSE rest[m]]
      BY <1>3, <2>1 DEF HInsert
    <2>3. DOMAIN rest \cup {n} = S /\ \A m \in S \ {n} : rest[m] = psDatabase[m]
      BY <1>2, <1>4, <2>1
    <2>. QED BY <2>2, <2>3
  <1>6. psDatabase[n] - Cost(o) \in Nat /\ psDatabase[n] - Cost(o) <= psDatabase[n]
    BY <1>1, <1>2
  <1>. QED BY <1>1, <1>5, <1>6 DEF S

(* What InitPaymentServer finds in a file that is whole, and what          *)
(* WriteFile leaves there.                                                 *)
LEMMA Opened ==
    ASSUME Inv, InitPaymentServer, ~lost'
    PROVE  ~torn /\ psDatabase' = LoadHashTable(file)
  BY DEF Inv, Types, InitPaymentServer

LEMMA Written ==
    ASSUME Inv, WriteFile, ~lost
    PROVE  /\ LoadHashTable(file') = psDatabase
           /\ psDatabase \in [DOMAIN opening -> Nat]
  <1>1. psDatabase \in [DOMAIN opening -> Nat]
    BY DEF Inv, Agreeing, WriteFile
  <1>2. DOMAIN opening \in {T \in SUBSET Accounts : IsFiniteSet(T)}
    BY OpeningIsTable DEF Inv, Table
  <1>3. psDatabase \in Table
    BY <1>1, <1>2 DEF Table
  <1>. QED BY <1>1, <1>3, SavedIsLoaded DEF WriteFile

(* Whoever has no cash does not get any.                                   *)
LEMMA NoCashStays ==
    ASSUME Inv, Next, NEW o \in Orders, NoCash(o)
    PROVE  NoCash(o)'
  <1>. DEFINE n == Order[o].account
  <1>. SUFFICES ASSUME flawed' = {}
                PROVE  /\ n \in DOMAIN opening'
                       /\ torn' \/ LoadHashTable(file')[n] <= Cost(o)
                       /\ lost' \/ pc' = "down" \/ psDatabase'[n] <= Cost(o)
    BY DEF NoCash, Cost
  <1>1. flawed = {} /\ opening' = opening
    BY Grows
  <1>2. /\ n \in DOMAIN opening
        /\ torn \/ LoadHashTable(file)[n] <= Cost(o)
        /\ lost \/ pc = "down" \/ psDatabase[n] <= Cost(o)
    BY <1>1 DEF NoCash
  <1>4. CASE \E p \in Orders : Charge(p)
    <2>1. PICK p \in Orders : Charge(p)
      BY <1>4
    <2>2. file' = file /\ torn' = torn /\ lost' = lost /\ pc = "loop" /\ lost \in BOOLEAN
      BY <2>1 DEF Charge, Inv, Types
    <2>3. ~lost => psDatabase'[n] <= Cost(o)
      <3>. SUFFICES ASSUME ~lost
                    PROVE  psDatabase'[n] <= Cost(o)
        OBVIOUS
      <3>1. /\ psDatabase' \in [DOMAIN opening -> Nat] /\ psDatabase'[n] <= psDatabase[n]
        BY <1>2, <2>1, Debited
      <3>2. psDatabase \in [DOMAIN opening -> Nat] /\ psDatabase[n] <= Cost(o)
        BY <1>2, <2>2 DEF Inv, Agreeing
      <3>3. Cost(o) \in Nat
        BY Costs
      <3>. QED BY <1>2, <3>1, <3>2, <3>3
    <2>. QED BY <1>1, <1>2, <2>2, <2>3
  <1>5. CASE InitPaymentServer
    <2>1. file' = file /\ torn' = torn /\ lost' \in BOOLEAN
      BY <1>5 DEF InitPaymentServer, Inv, Types
    <2>2. ~lost' => psDatabase'[n] <= Cost(o)
      BY <1>2, <1>5, Opened
    <2>. QED BY <1>1, <1>2, <2>1, <2>2
  <1>6. CASE OpenFile
    BY <1>1, <1>2, <1>6 DEF OpenFile
  <1>7. CASE WriteFile
    <2>1. psDatabase' = psDatabase /\ torn' = lost /\ lost' = lost /\ pc # "down"
          /\ lost \in BOOLEAN
      BY <1>7 DEF WriteFile, Inv, Types
    <2>2. ~lost => LoadHashTable(file') = psDatabase
      BY <1>7, Written
    <2>. QED BY <1>1, <1>2, <2>1, <2>2
  <1>8. CASE WriteFails
    BY <1>1, <1>2, <1>8 DEF WriteFails, Inv, Saving, books
  <1>9. CASE Crash
    <2>1. pc' = "down" /\ torn' = torn /\ (file' = file \/ torn)
      BY <1>9 DEF Crash, Inv, Saving, books
    <2>. QED BY <1>1, <1>2, <2>1
  <1>10. CASE OpenFails \/ SendReply
    BY <1>1, <1>2, <1>10 DEF OpenFails, SendReply, books
  <1>11. CASE \E p \in Orders : \/ CannotPay(p) \/ SendOrder(p) \/ SendPart(p) \/ GivesUp(p)
                              \/ Receive(p) \/ ReceivePart(p) \/ Refuse(p) \/ NoMemory(p)
    <2>1. file' = file /\ psDatabase' = psDatabase /\ pc' = pc /\ torn' = torn /\ lost' = lost
      BY <1>11 DEF CannotPay, SendOrder, SendPart, GivesUp, Receive, ReceivePart, Refuse,
                   NoMemory, service, books
    <2>. QED BY <1>1, <1>2, <2>1
  <1>. QED
    BY <1>4, <1>5, <1>6, <1>7, <1>8, <1>9, <1>10, <1>11 DEF Next

-----------------------------------------------------------------------------
(* Each part of the invariant is kept.                                     *)

LEMMA TypesStep ==
    ASSUME Inv, Next
    PROVE  Types'
  <1>. USE DEF Types, Inv
  <1>1. ASSUME NEW o \in Orders, \/ CannotPay(o) \/ SendOrder(o) \/ SendPart(o) \/ GivesUp(o)
                                 \/ Refuse(o) \/ NoMemory(o)
        PROVE  Types'
    BY <1>1, Results DEF CannotPay, SendOrder, SendPart, GivesUp, Refuse, NoMemory, service,
                         books, Busy
  <1>2. ASSUME NEW o \in Orders, Receive(o) \/ ReceivePart(o)
        PROVE  Types'
    <2>1. \E status \in (0..3) \cup {None} : told' = [told EXCEPT ![o] = Result(status)]
      <3>1. AnsweredRightly(o)
        BY DEF OrderIsRight
      <3>2. PICK s \in 0..3 : reply[o] = MakePSReply(s)
        BY <1>2, <3>1 DEF AnsweredRightly, Receive, ReceivePart
      <3>. QED BY <1>2, <3>2, ReplyIsParsed DEF Receive, ReceivePart
    <2>2. \A status \in (0..3) \cup {None} :
            Result(status) \in {"OK", "ERROR", "USER_ERROR", "NO_CASH"}
      BY Results
    <2>3. UNCHANGED <<service, stage, request, reply, books>>
      BY <1>2 DEF Receive, ReceivePart
    <2>. QED BY <2>1, <2>2, <2>3 DEF service, books
  <1>3. ASSUME NEW o \in Orders, Charge(o)
        PROVE  Types'
    <2>1. ParsePSRequest(request[o]) = Parsed(o)
      BY <1>3, StatusIsRight DEF Charge
    <2>2. taken' = [taken EXCEPT ![o] = @ + Cost(o)] /\ Cost(o) \in Nat
      BY <1>3, <2>1, Costs DEF Charge, Parsed
    <2>3. taken' \in [Orders -> Nat]
      BY <2>2
    <2>. QED BY <1>3, <2>3 DEF Charge, Busy
  <1>4. CASE InitPaymentServer
    BY <1>4 DEF InitPaymentServer, Busy
  <1>5. CASE OpenFile \/ OpenFails \/ WriteFile \/ WriteFails
    BY <1>5 DEF OpenFile, OpenFails, WriteFile, WriteFails, books, Busy
  <1>6. CASE SendReply
    BY <1>6 DEF SendReply, books, Busy
  <1>7. CASE Crash
    <2>1. stage' \in [Orders -> {"unsent", "sent", "read", "answered", "closed"}]
      BY <1>7 DEF Crash
    <2>. QED BY <1>7, <2>1 DEF Crash, books, Busy
  <1>. QED
    BY <1>1, <1>2, <1>3, <1>4, <1>5, <1>6, <1>7 DEF Next

LEMMA AgreeingStep ==
    ASSUME Inv, Next
    PROVE  Agreeing'
  <1>. DEFINE S == DOMAIN opening
  <1>1. /\ pc # "down" /\ ~lost => psDatabase \in [S -> Nat]
        /\ ~torn => LoadHashTable(file) \in [S -> Nat]
        /\ pc \in {"loop", "saved"} /\ flawed = {} /\ ~lost /\ ~torn =>
             LoadHashTable(file) = psDatabase
    BY DEF Inv, Agreeing
  <1>2. opening' = opening /\ (flawed' = {} => flawed = {})
    BY Grows
  <1>. SUFFICES /\ pc' # "down" /\ ~lost' => psDatabase' \in [S -> Nat]
                /\ ~torn' => LoadHashTable(file') \in [S -> Nat]
                /\ pc' \in {"loop", "saved"} /\ flawed' = {} /\ ~lost' /\ ~torn' =>
                     LoadHashTable(file') = psDatabase'
    BY <1>2 DEF Agreeing
  <1>. HIDE DEF S
  <1>3. CASE \E p \in Orders : Charge(p)
    <2>1. PICK p \in Orders : Charge(p)
      BY <1>3
    <2>2. file' = file /\ torn' = torn /\ lost' = lost /\ pc' = "charged"
      BY <2>1 DEF Charge
    <2>3. ~lost => psDatabase' \in [S -> Nat]
      BY <2>1, Debited DEF S
    <2>. QED BY <1>1, <2>2, <2>3
  <1>4. CASE InitPaymentServer
    <2>1. file' = file /\ torn' = torn
      BY <1>4 DEF InitPaymentServer
    <2>2. ~lost' => ~torn /\ psDatabase' = LoadHashTable(file)
      BY <1>4, Opened
    <2>. QED BY <1>1, <2>1, <2>2
  <1>5. CASE OpenFile
    BY <1>1, <1>5 DEF OpenFile
  <1>6. CASE OpenFails
    <2>1. /\ file' = file /\ psDatabase' = psDatabase /\ torn' = torn /\ lost' = lost
          /\ pc # "down" /\ flawed' # {}
      BY <1>6 DEF OpenFails
    <2>. QED BY <1>1, <2>1
  <1>7. CASE WriteFile
    <2>1. psDatabase' = psDatabase /\ torn' = lost /\ lost' = lost
      BY <1>7 DEF WriteFile
    <2>2. ~lost => LoadHashTable(file') = psDatabase /\ psDatabase \in [S -> Nat]
      BY <1>7, Written DEF S
    <2>. QED BY <2>1, <2>2
  <1>8. CASE WriteFails
    <2>1. psDatabase' = psDatabase /\ torn' = torn /\ lost' = lost /\ torn /\ pc # "down"
      BY <1>8 DEF WriteFails, Inv, Saving, books
    <2>. QED BY <1>1, <2>1
  <1>9. CASE SendReply
    BY <1>1, <1>2, <1>9 DEF SendReply, books
  <1>10. CASE Crash
    <2>1. pc' = "down" /\ torn' = torn /\ (file' = file \/ torn)
      BY <1>10 DEF Crash, Inv, Saving, books
    <2>. QED BY <1>1, <2>1
  <1>11. CASE \E p \in Orders : \/ CannotPay(p) \/ SendOrder(p) \/ SendPart(p) \/ GivesUp(p)
                              \/ Receive(p) \/ ReceivePart(p) \/ Refuse(p) \/ NoMemory(p)
    <2>1. file' = file /\ psDatabase' = psDatabase /\ pc' = pc /\ torn' = torn /\ lost' = lost
      BY <1>11 DEF CannotPay, SendOrder, SendPart, GivesUp, Receive, ReceivePart, Refuse,
                   NoMemory, service, books
    <2>. QED BY <1>1, <1>2, <2>1
  <1>. QED
    BY <1>3, <1>4, <1>5, <1>6, <1>7, <1>8, <1>9, <1>10, <1>11 DEF Next

LEMMA SavingStep ==
    ASSUME Inv, Next
    PROVE  Saving'
  <1>. USE DEF Saving, Inv
  <1>1. CASE \E p \in Orders : \/ CannotPay(p) \/ SendOrder(p) \/ SendPart(p) \/ GivesUp(p)
                             \/ Receive(p) \/ ReceivePart(p) \/ Refuse(p) \/ NoMemory(p)
    <2>1. /\ pc' = pc /\ job' = job /\ saved' = saved /\ charged' = charged /\ torn' = torn
      BY <1>1 DEF CannotPay, SendOrder, SendPart, GivesUp, Receive, ReceivePart, Refuse,
                  NoMemory, service, books
    <2>2. flawed \subseteq flawed'
      BY Grows
    <2>. QED BY <2>1, <2>2
  <1>2. CASE \E p \in Orders : Charge(p)
    BY <1>2 DEF Charge
  <1>3. CASE InitPaymentServer
    BY <1>3 DEF InitPaymentServer
  <1>4. CASE OpenFile \/ OpenFails \/ WriteFile \/ WriteFails
    BY <1>4 DEF OpenFile, OpenFails, WriteFile, WriteFails, books
  <1>5. CASE SendReply
    BY <1>5 DEF SendReply, books
  <1>6. CASE Crash
    BY <1>6 DEF Crash, books
  <1>. QED
    BY <1>1, <1>2, <1>3, <1>4, <1>5, <1>6 DEF Next

-----------------------------------------------------------------------------
(* Orders.  What was answered stays true, and a step disturbs no order but *)
(* its own.                                                                *)

LEMMA AnsweredStays ==
    ASSUME Inv, Next, NEW o \in Orders, NEW s \in 0..3, Answered(o, s), taken'[o] = taken[o]
    PROVE  Answered(o, s)'
  <1>1. /\ opening' = opening
        /\ saved \subseteq saved' /\ flawed \subseteq flawed' /\ unsure \subseteq unsure'
    BY Grows
  <1>2. NoCash(o) => NoCash(o)'
    BY NoCashStays
  <1>. QED BY <1>1, <1>2 DEF Answered, InOrder, Cost

LEMMA OthersStay ==
    ASSUME Inv, Next, NEW o \in Orders,
           stage'[o] = stage[o], told'[o] = told[o], taken'[o] = taken[o],
           request'[o] = request[o] \/ stage[o] # "sent", reply'[o] = reply[o],
           stage[o] = "read" => pc' \in Busy /\ job' = job
    PROVE  OrderIsRight(o)'
  <1>1. unsure \subseteq unsure'
    BY Grows
  <1>2. OrderIsRight(o)
    BY DEF Inv
  <1>3. AnsweredRightly(o)'
    <2>. SUFFICES ASSUME stage[o] = "answered"
                  PROVE  \E s \in 0..3 : /\ reply'[o] = MakePSReply(s) /\ Answered(o, s)'
                                         /\ told'[o] \in {None, "ERROR", "gone", Result(s)}
      BY DEF AnsweredRightly
    <2>1. PICK s \in 0..3 : /\ reply[o] = MakePSReply(s) /\ Answered(o, s)
                            /\ told[o] \in {None, "ERROR", "gone", Result(s)}
      BY <1>2 DEF OrderIsRight, AnsweredRightly
    <2>2. Answered(o, s)'
      BY <2>1, AnsweredStays
    <2>. QED BY <2>1, <2>2
  <1>4. (Unpaid(o) /\ Untold(o) /\ Unread(o) /\ BeingServed(o))'
    BY <1>1, <1>2 DEF OrderIsRight, Unpaid, Untold, Unread, BeingServed, MakePSRequest, Cost
  <1>5. (ChargedIsTold(o) /\ ErrorIsJustified(o))'
    BY <1>1, <1>2 DEF OrderIsRight, ChargedIsTold, ErrorIsJustified, Cost, InOrder
  <1>. QED BY <1>3, <1>4, <1>5 DEF OrderIsRight

(* The steps of a movie server with its own order.                         *)
LEMMA SendingKeeps ==
    ASSUME Inv, Next, NEW o \in Orders, CannotPay(o) \/ SendOrder(o) \/ SendPart(o)
    PROVE  OrderIsRight(o)'
  <1>1. /\ Unpaid(o) /\ Untold(o) /\ stage[o] = "unsent" /\ told[o] = None
        /\ taken'[o] = taken[o] /\ taken[o] = 0
    BY DEF Inv, OrderIsRight, Unpaid, CannotPay, SendOrder, SendPart, books
  <1>2. CASE CannotPay(o)
    <2>1. told'[o] = "ERROR" /\ stage'[o] = "unsent"
      BY <1>1, <1>2, Results DEF CannotPay, Inv, Types
    <2>. QED
      BY <1>1, <2>1, PaymentAssumption
      DEF OrderIsRight, Unpaid, Untold, Unread, BeingServed, AnsweredRightly,
          ChargedIsTold, ErrorIsJustified
  <1>3. CASE SendOrder(o)
    <2>1. told'[o] = None /\ stage'[o] = "sent" /\ request'[o] = MakePSRequest(o)
      BY <1>1, <1>3 DEF SendOrder, Inv, Types
    <2>. QED
      BY <1>1, <2>1, PaymentAssumption
      DEF OrderIsRight, Unpaid, Untold, Unread, BeingServed, AnsweredRightly,
          ChargedIsTold, ErrorIsJustified, MakePSRequest
  <1>4. CASE SendPart(o)
    <2>1. /\ told'[o] = "gone" /\ stage'[o] = "sent" /\ o \in unsure'
          /\ request'[o] \in CutRequests(MakePSRequest(o))
      BY <1>1, <1>4 DEF SendPart, Inv, Types
    <2>2. request'[o] = MakePSRequest(o) \/ ParsePSRequest(request'[o]) = None
      BY <2>1, CutRequestIsRefused
    <2>. QED
      BY <1>1, <2>1, <2>2
      DEF OrderIsRight, Unpaid, Untold, Unread, BeingServed, AnsweredRightly,
          ChargedIsTold, ErrorIsJustified, MakePSRequest
  <1>. QED BY <1>2, <1>3, <1>4

LEMMA GivingUpKeeps ==
    ASSUME Inv, Next, NEW o \in Orders, GivesUp(o)
    PROVE  OrderIsRight(o)'
  <1>1. /\ OrderIsRight(o) /\ stage'[o] = stage[o] /\ taken'[o] = taken[o]
        /\ request'[o] = request[o] /\ reply'[o] = reply[o] /\ pc' = pc /\ job' = job
        /\ told'[o] = "ERROR" /\ o \in unsure' /\ stage[o] # "unsent" /\ told[o] = None
    BY Results DEF Inv, Types, GivesUp, service, books
  <1>2. AnsweredRightly(o)'
    <2>. SUFFICES ASSUME stage[o] = "answered"
                  PROVE  \E s \in 0..3 : reply'[o] = MakePSReply(s) /\ Answered(o, s)'
      BY <1>1 DEF AnsweredRightly
    <2>1. PICK s \in 0..3 : reply[o] = MakePSReply(s) /\ Answered(o, s)
      BY <1>1 DEF OrderIsRight, AnsweredRightly
    <2>. QED BY <1>1, <2>1, AnsweredStays
  <1>3. (Unpaid(o) /\ Untold(o) /\ Unread(o) /\ BeingServed(o))'
    BY <1>1, PaymentAssumption
    DEF OrderIsRight, Unpaid, Untold, Unread, BeingServed, MakePSRequest, Cost
  <1>4. (ChargedIsTold(o) /\ ErrorIsJustified(o))'
    BY <1>1 DEF OrderIsRight, ChargedIsTold, ErrorIsJustified, Cost, InOrder
  <1>. QED BY <1>2, <1>3, <1>4 DEF OrderIsRight

LEMMA ReceivingKeeps ==
    ASSUME Inv, Next, NEW o \in Orders, Receive(o) \/ ReceivePart(o)
    PROVE  OrderIsRight(o)'
  <1>1. /\ OrderIsRight(o) /\ stage[o] = "answered" /\ stage'[o] = "answered"
        /\ taken'[o] = taken[o] /\ reply'[o] = reply[o]
    BY DEF Inv, Receive, ReceivePart, books
  <1>2. PICK s \in 0..3 : reply[o] = MakePSReply(s) /\ Answered(o, s)
    BY <1>1 DEF OrderIsRight, AnsweredRightly
  <1>3. Answered(o, s)'
    BY <1>1, <1>2, AnsweredStays
  <1>4. \/ told'[o] = Result(s)
        \/ told'[o] = "ERROR" /\ o \in unsure'
    <2>1. CASE Receive(o)
      BY <1>2, <2>1, ReplyIsParsed DEF Receive, Inv, Types
    <2>2. CASE ReceivePart(o)
      <3>1. PICK text \in CutReplies(reply[o]) :
              /\ told'[o] = Result(ParsePSReply(text))
              /\ ParsePSReply(text) = None => o \in unsure'
        BY <2>2 DEF ReceivePart, Inv, Types
      <3>2. ParsePSReply(text) \in {s, None}
        BY <1>2, <3>1, ReplyIsParsed
      <3>. QED BY <3>1, <3>2, Results
    <2>. QED BY <2>1, <2>2
  <1>5. told'[o] \in {"OK", "ERROR", "USER_ERROR", "NO_CASH"}
        /\ (Result(s) = "ERROR" => s = 1) /\ (s = 0 => Result(s) = "OK")
    BY <1>4, Results
  <1>6. AnsweredRightly(o)'
    BY <1>1, <1>2, <1>3, <1>4 DEF AnsweredRightly
  <1>7. (Unpaid(o) /\ Untold(o) /\ Unread(o) /\ BeingServed(o))'
    BY <1>1, <1>5 DEF Unpaid, Untold, Unread, BeingServed
  <1>8. ChargedIsTold(o)'
    <2>1. taken[o] > 0 => taken[o] = Cost(o)
      BY <1>1 DEF OrderIsRight, ChargedIsTold
    <2>2. taken[o] > 0 => s = 0
      BY <1>2 DEF Answered
    <2>. QED BY <1>1, <1>4, <1>5, <2>1, <2>2 DEF ChargedIsTold, Cost
  <1>9. ErrorIsJustified(o)'
    <2>1. s = 1 => ~InOrder(o) \/ o \in unsure'
      BY <1>3 DEF Answered, InOrder
    <2>. QED BY <1>4, <1>5, <2>1 DEF ErrorIsJustified, InOrder
  <1>. QED BY <1>6, <1>7, <1>8, <1>9 DEF OrderIsRight

(* The steps of the service with the order it serves.                      *)
LEMMA RefusingKeeps ==
    ASSUME Inv, Next, NEW o \in Orders, Refuse(o)
    PROVE  OrderIsRight(o)'
  <1>. DEFINE n == Order[o].account
  <1>a. stage[o] = "sent"
    BY DEF Refuse
  <1>b. PICK s \in 0..3 : s = StatusOf(o)
    BY <1>a, StatusIsRight
  <1>1. /\ OrderIsRight(o) /\ pc = "loop" /\ stage[o] = "sent" /\ s # 0
        /\ stage'[o] = "answered" /\ reply'[o] = MakePSReply(s)
        /\ UNCHANGED <<service, told, taken, torn, lost, unsure, saved>>
        /\ flawed' = IF lost THEN flawed \cup {o} ELSE flawed
    BY <1>b DEF Inv, Types, Refuse
  <1>2. /\ s = 1 => ~InOrder(o) \/ o \in unsure
        /\ s = 2 => n \notin DOMAIN psDatabase
        /\ s = 3 => n \in DOMAIN psDatabase /\ psDatabase[n] - Cost(o) <= 0
    BY <1>a, <1>b, StatusIsRight
  <1>3. taken[o] = 0 /\ told[o] \in {None, "ERROR", "gone"}
    BY <1>1 DEF OrderIsRight, Unpaid, Untold
  <1>4. /\ opening' = opening
        /\ ~lost => psDatabase \in [DOMAIN opening -> Nat]
        /\ ~lost /\ ~torn /\ flawed = {} => LoadHashTable(file) = psDatabase
    BY <1>1, Grows DEF Inv, Agreeing
  <1>5. s = 3 => NoCash(o)'
    <2>. SUFFICES ASSUME s = 3, flawed' = {}
                  PROVE  /\ n \in DOMAIN opening
                         /\ torn \/ LoadHashTable(file)[n] <= Cost(o)
                         /\ lost \/ pc = "down" \/ psDatabase[n] <= Cost(o)
      BY <1>1, <1>4 DEF NoCash, Cost, service
    <2>1. ~lost /\ flawed = {}
      BY <1>1
    <2>2. psDatabase[n] \in Nat /\ Cost(o) \in Nat /\ n \in DOMAIN opening
      BY <1>2, <1>4, <2>1, Costs
    <2>3. psDatabase[n] <= Cost(o)
      BY <1>2, <2>2
    <2>. QED BY <1>4, <2>1, <2>2, <2>3
  <1>6. s = 2 => n \notin DOMAIN opening \/ o \in flawed'
    BY <1>1, <1>2, <1>4
  <1>7. Answered(o, s)'
    BY <1>1, <1>2, <1>3, <1>4, <1>5, <1>6 DEF Answered, InOrder
  <1>8. AnsweredRightly(o)'
    BY <1>1, <1>2, <1>3, <1>7 DEF AnsweredRightly
  <1>9. (Unpaid(o) /\ Untold(o) /\ Unread(o) /\ BeingServed(o))'
    BY <1>1 DEF OrderIsRight, Unpaid, Untold, Unread, BeingServed
  <1>10. (ChargedIsTold(o) /\ ErrorIsJustified(o))'
    BY <1>1, <1>3 DEF OrderIsRight, ChargedIsTold, ErrorIsJustified, InOrder
  <1>. QED BY <1>8, <1>9, <1>10 DEF OrderIsRight

LEMMA ClosingKeeps ==
    ASSUME Inv, Next, NEW o \in Orders, stage[o] # "unsent", stage'[o] = "closed",
           stage[o] \in {"sent", "read"}, UNCHANGED <<told, taken, unsure>>
    PROVE  OrderIsRight(o)'
  BY DEF Inv, OrderIsRight, Unpaid, Untold, Unread, BeingServed, AnsweredRightly,
         ChargedIsTold, ErrorIsJustified, Cost, InOrder

LEMMA ChargingKeeps ==
    ASSUME Inv, Next, NEW o \in Orders, Charge(o)
    PROVE  OrderIsRight(o)'
  <1>1. /\ OrderIsRight(o) /\ stage[o] = "sent" /\ taken[o] = 0
        /\ ParsePSRequest(request[o]) = Parsed(o) /\ Cost(o) > 0
    BY StatusIsRight DEF Inv, Charge, OrderIsRight, Unpaid
  <1>2. Unread(o) /\ Untold(o)
    BY <1>1 DEF OrderIsRight
  <1>3. /\ stage'[o] = "read" /\ pc' \in Busy /\ job' = o /\ reply'[o] = MakePSReply(0)
        /\ UNCHANGED <<told, unsure>>
    BY DEF Inv, Types, Charge, Busy
  <1>4. taken'[o] = Cost(o)
    <2>1. taken' = [taken EXCEPT ![o] = @ + Cost(o)]
      BY <1>1 DEF Charge, Parsed
    <2>2. Cost(o) \in Nat /\ taken \in [Orders -> Nat]
      BY Costs DEF Inv, Types
    <2>. QED BY <1>1, <2>1, <2>2
  <1>5. told[o] \in {"ERROR", "gone"} => o \in unsure
    BY <1>1, <1>2 DEF Untold
  <1>. QED
    BY <1>1, <1>2, <1>3, <1>4, <1>5
    DEF OrderIsRight, Unpaid, Untold, Unread, BeingServed, AnsweredRightly,
        ChargedIsTold, ErrorIsJustified, Cost, InOrder

LEMMA ReplyingKeeps ==
    ASSUME Inv, Next, SendReply, NEW o \in Orders, job = o
    PROVE  OrderIsRight(o)'
  <1>1. /\ OrderIsRight(o) /\ stage[o] = "read" /\ o \in saved \cup flawed
        /\ stage'[o] = "answered" /\ UNCHANGED <<told, taken, reply, unsure, saved, flawed>>
    BY DEF Inv, Types, Saving, SendReply, Busy, books
  <1>2. taken[o] = Cost(o) /\ Cost(o) > 0 /\ reply[o] = MakePSReply(0)
    BY <1>1 DEF OrderIsRight, BeingServed
  <1>3. Answered(o, 0)'
    BY <1>1, <1>2 DEF Answered, Cost
  <1>4. told[o] \in {None, "ERROR", "gone"} /\ (told[o] = "ERROR" => o \in unsure)
    BY <1>1 DEF OrderIsRight, Untold
  <1>5. AnsweredRightly(o)'
    BY <1>1, <1>2, <1>3, <1>4 DEF AnsweredRightly
  <1>6. (Unpaid(o) /\ Untold(o) /\ Unread(o) /\ BeingServed(o))'
    BY <1>1 DEF OrderIsRight, Unpaid, Untold, Unread, BeingServed
  <1>7. (ChargedIsTold(o) /\ ErrorIsJustified(o))'
    BY <1>1, <1>4 DEF OrderIsRight, ChargedIsTold, ErrorIsJustified, Cost, InOrder
  <1>. QED BY <1>5, <1>6, <1>7 DEF OrderIsRight

LEMMA OrdersStep ==
    ASSUME Inv, Next, NEW o \in Orders
    PROVE  OrderIsRight(o)'
  <1>. DEFINE Same == /\ stage'[o] = stage[o] /\ told'[o] = told[o] /\ taken'[o] = taken[o]
                      /\ request'[o] = request[o] \/ stage[o] # "sent"
                      /\ reply'[o] = reply[o]
                      /\ stage[o] = "read" => pc' \in Busy /\ job' = job
  <1>1. Same => OrderIsRight(o)'
    BY OthersStay
  <1>2. stage[o] = "read" => pc \in Busy /\ job = o
    BY DEF Inv, OrderIsRight, BeingServed
  <1>3. ASSUME NEW p \in Orders, CannotPay(p) \/ SendOrder(p) \/ SendPart(p)
        PROVE  OrderIsRight(o)'
    <2>1. CASE p = o
      BY <1>3, <2>1, SendingKeeps
    <2>2. CASE p # o
      BY <1>1, <1>2, <1>3, <2>2
      DEF CannotPay, SendOrder, SendPart, Inv, Types, service, books
    <2>. QED BY <2>1, <2>2
  <1>4. ASSUME NEW p \in Orders, GivesUp(p)
        PROVE  OrderIsRight(o)'
    <2>1. CASE p = o
      BY <1>4, <2>1, GivingUpKeeps
    <2>2. CASE p # o
      BY <1>1, <1>2, <1>4, <2>2 DEF GivesUp, Inv, Types, service, books
    <2>. QED BY <2>1, <2>2
  <1>5. ASSUME NEW p \in Orders, Receive(p) \/ ReceivePart(p)
        PROVE  OrderIsRight(o)'
    <2>1. CASE p = o
      BY <1>5, <2>1, ReceivingKeeps
    <2>2. CASE p # o
      BY <1>1, <1>2, <1>5, <2>2 DEF Receive, ReceivePart, Inv, Types, service, books
    <2>. QED BY <2>1, <2>2
  <1>6. ASSUME NEW p \in Orders, Refuse(p)
        PROVE  OrderIsRight(o)'
    <2>1. CASE p = o
      BY <1>6, <2>1, RefusingKeeps
    <2>2. CASE p # o
      BY <1>1, <1>2, <1>6, <2>2 DEF Refuse, Inv, Types, service
    <2>. QED BY <2>1, <2>2
  <1>7. ASSUME NEW p \in Orders, NoMemory(p)
        PROVE  OrderIsRight(o)'
    <2>1. CASE p = o
      BY <1>7, <2>1, ClosingKeeps DEF NoMemory, Inv, Types, books
    <2>2. CASE p # o
      BY <1>1, <1>2, <1>7, <2>2 DEF NoMemory, Inv, Types, books
    <2>. QED BY <2>1, <2>2
  <1>8. ASSUME NEW p \in Orders, Charge(p)
        PROVE  OrderIsRight(o)'
    <2>1. CASE p = o
      BY <1>8, <2>1, ChargingKeeps
    <2>2. CASE p # o
      BY <1>1, <1>2, <1>8, <2>2 DEF Charge, Inv, Types, Busy
    <2>. QED BY <2>1, <2>2
  <1>9. CASE InitPaymentServer
    BY <1>1, <1>2, <1>9 DEF InitPaymentServer, Busy
  <1>10. CASE OpenFile \/ OpenFails \/ WriteFile \/ WriteFails
    BY <1>1, <1>2, <1>10 DEF OpenFile, OpenFails, WriteFile, WriteFails, books, Busy
  <1>11. CASE SendReply
    <2>1. CASE job = o
      BY <1>11, <2>1, ReplyingKeeps
    <2>2. CASE job # o
      BY <1>1, <1>2, <1>11, <2>2 DEF SendReply, Inv, Types, Busy, books
    <2>. QED BY <2>1, <2>2
  <1>12. CASE Crash
    <2>1. CASE stage[o] \in {"sent", "read"}
      BY <1>12, <2>1, ClosingKeeps DEF Crash, books
    <2>2. CASE stage[o] \notin {"sent", "read"}
      BY <1>1, <1>12, <2>2 DEF Crash, books
    <2>. QED BY <2>1, <2>2
  <1>. QED
    BY <1>3, <1>4, <1>5, <1>6, <1>7, <1>8, <1>9, <1>10, <1>11, <1>12 DEF Next

LEMMA Stutters == Inv /\ UNCHANGED vars => Inv'
  BY DEF vars, service, books, Inv, Types, Agreeing, Saving, OrderIsRight, Unpaid, Untold,
         Unread, BeingServed, AnsweredRightly, Answered, NoCash, ChargedIsTold,
         ErrorIsJustified, opening, InOrder, Cost, MakePSRequest

-----------------------------------------------------------------------------
(* The books are kept.  A debit that is not saved is known as such when    *)
(* the service goes on; what is written is the table with all debits; and  *)
(* an order that was not read yet was not paid.                            *)

Books ==
  /\ file \in FileType
  /\ charged \in Paid /\ saved \in Paid
  /\ \A o \in Orders : stage[o] \in {"unsent", "sent"} => o \notin charged \cup saved
  /\ pc # "down" => /\ psDatabase \in Table
                    /\ Within(psDatabase, provided, charged)
                    /\ lost \/ Exact(psDatabase, provided, charged)
  /\ Within(LoadHashTable(file), provided, saved)
  /\ torn \/ Exact(LoadHashTable(file), provided, saved)
  /\ pc = "loop" => charged \ saved \subseteq flawed
  /\ pc = "charged" => charged \ saved \subseteq flawed \cup {job}
  /\ pc \in {"truncated", "saved"} => charged \ saved \subseteq flawed
  /\ DOMAIN LoadHashTable(provided) = {} => pc \notin Busy /\ file = provided

LEMMA BooksAreAccounts == Books => AccountsAreKept
  <1>. SUFFICES ASSUME Books
                PROVE  AccountsAreKept
    OBVIOUS
  <1>1. \A n, S : MapThenSumSet(Cost, {o \in S : Order[o].account = n}) = Total(Owed(n, S))
    BY DEF Total, Owed
  <1>2. \A n, S : Balance(n, S) = LoadHashTable(provided)[n] - Total(Owed(n, S))
    BY <1>1 DEF Balance, opening
  <1>3. \A t, S : Holds(t, S) <=> Within(t, provided, S)
    BY <1>2 DEF Holds, Within, opening
  <1>4. \A t, S : HoldsAll(t, S) <=> Exact(t, provided, S)
    BY <1>2 DEF HoldsAll, Exact, opening
  <1>. QED BY <1>3, <1>4 DEF Books, AccountsAreKept, opening

LEMMA NothingOwed ==
    ASSUME NEW n
    PROVE  Total(Owed(n, {})) = 0
  <1>1. Owed(n, {}) = {} /\ IsFiniteSet({})
    BY FS_EmptySet DEF Owed
  <1>. QED BY <1>1, TotalStep

LEMMA EmptyIsWithin ==
    ASSUME NEW f, NEW S
    PROVE  Within(NoAccounts, f, S)
  BY DEF Within, NoAccounts

LEMMA InitBooks == Init => Books
  <1>. SUFFICES ASSUME Init
                PROVE  Books
    OBVIOUS
  <1>. DEFINE t == LoadHashTable(file)
  <1>1. file \in FileType /\ provided = file
    BY PaymentAssumption DEF Init, FileType
  <1>2. t \in [DOMAIN t -> Nat]
    BY <1>1, LoadType DEF Table
  <1>3. {} \in Paid
    BY FS_EmptySet DEF Paid
  <1>. HIDE DEF t
  <1>4. \A n \in DOMAIN t : t[n] \in Nat /\ t[n] = t[n] - Total(Owed(n, {}))
    BY <1>2, NothingOwed
  <1>5. Within(t, file, {}) /\ Exact(t, file, {})
    BY <1>4 DEF Within, Exact, t
  <1>. QED BY <1>1, <1>3, <1>5 DEF Init, Books, Busy, t

(* Steps that touch neither the table nor the file nor the history of      *)
(* what was paid.                                                          *)
LEMMA BooksStay ==
    ASSUME Books,
           UNCHANGED <<file, psDatabase, provided, charged, saved, torn, lost, pc, job>>,
           flawed \subseteq flawed',
           \A o \in Orders : stage'[o] \in {"unsent", "sent"} => stage[o] \in {"unsent", "sent"}
    PROVE  Books'
  BY DEF Books

LEMMA QuietBooks ==
    ASSUME Inv, Books, Next, NEW o \in Orders,
           \/ CannotPay(o) \/ SendOrder(o) \/ SendPart(o) \/ GivesUp(o) \/ Receive(o)
           \/ ReceivePart(o) \/ Refuse(o) \/ NoMemory(o)
    PROVE  Books'
  <1>1. flawed \subseteq flawed'
    BY Grows
  <1>2. UNCHANGED <<file, psDatabase, provided, charged, saved, torn, lost, pc, job>>
    BY DEF CannotPay, SendOrder, SendPart, GivesUp, Receive, ReceivePart, Refuse, NoMemory,
           service, books
  <1>3. \A p \in Orders : stage'[p] \in {"unsent", "sent"} => stage[p] \in {"unsent", "sent"}
    <2>1. stage \in [Orders -> {"unsent", "sent", "read", "answered", "closed"}]
      BY DEF Inv, Types
    <2>. QED BY <2>1 DEF CannotPay, SendOrder, SendPart, GivesUp, Receive, ReceivePart, Refuse,
                         NoMemory
  <1>. QED BY <1>1, <1>2, <1>3, BooksStay

(* The debit.                                                              *)
LEMMA ChargeIsDebit ==
    ASSUME Inv, NEW o \in Orders, Charge(o)
    PROVE  psDatabase' = After(psDatabase, o)
  <1>. DEFINE n == Order[o].account
              rest == HDelete(psDatabase, n)
  <1>1. ParsePSRequest(request[o]) = Parsed(o) /\ n \in DOMAIN psDatabase
    BY StatusIsRight DEF Charge
  <1>2. psDatabase' = HInsert(rest, n, psDatabase[n] - Cost(o))
    BY <1>1 DEF Charge, Parsed
  <1>3. rest = [m \in DOMAIN psDatabase \ {n} |-> psDatabase[m]]
    BY DEF HDelete, Restrict
  <1>4. DOMAIN rest = DOMAIN psDatabase \ {n} /\ n \notin DOMAIN rest
    BY <1>3
  <1>. HIDE DEF rest
  <1>5. psDatabase' = [m \in DOMAIN rest \cup {n} |->
                         IF m = n THEN psDatabase[n] - Cost(o) ELSE rest[m]]
    BY <1>2, <1>4 DEF HInsert
  <1>6. /\ DOMAIN rest \cup {n} = DOMAIN psDatabase
        /\ \A m \in DOMAIN psDatabase \ {n} : rest[m] = psDatabase[m]
    BY <1>1, <1>3, <1>4
  <1>. QED BY <1>5, <1>6 DEF After

LEMMA ChargeBooks ==
    ASSUME Inv, Books, NEW o \in Orders, Charge(o)
    PROVE  Books'
  <1>. DEFINE n == Order[o].account
  <1>1. /\ pc = "loop" /\ stage[o] = "sent" /\ provided \in Files
        /\ lost \in BOOLEAN /\ stage \in [Orders -> {"unsent", "sent", "read", "answered", "closed"}]
    BY DEF Inv, Types, Charge
  <1>2. /\ ParsePSRequest(request[o]) = Parsed(o)
        /\ n \in DOMAIN psDatabase /\ ~(psDatabase[n] - Cost(o) <= 0)
    BY StatusIsRight DEF Charge
  <1>3. /\ psDatabase \in Table
        /\ Within(psDatabase, provided, charged)
        /\ lost \/ Exact(psDatabase, provided, charged)
        /\ charged \in Paid /\ o \notin charged /\ o \notin saved
    BY <1>1 DEF Books
  <1>4. psDatabase' = After(psDatabase, o)
    BY ChargeIsDebit
  <1>5. Cost(o) <= psDatabase[n]
    <2>1. Cost(o) \in Nat /\ psDatabase[n] \in Nat
      BY <1>2, <1>3, Costs DEF Table
    <2>. QED BY <1>2, <2>1
  <1>6. /\ After(psDatabase, o) \in Table
        /\ Within(After(psDatabase, o), provided, charged \cup {o})
        /\ lost \/ Exact(After(psDatabase, o), provided, charged \cup {o})
    BY <1>1, <1>2, <1>3, <1>5, DebitKeepsBooks
  <1>7. charged \cup {o} \in Paid
    BY <1>3, OwedGrows
  <1>8. /\ UNCHANGED <<file, provided, saved, torn, lost>>
        /\ charged' = charged \cup {o} /\ pc' = "charged" /\ job' = o
        /\ flawed \subseteq flawed' /\ stage' = [stage EXCEPT ![o] = "read"]
    BY DEF Charge
  <1>9. DOMAIN LoadHashTable(provided) # {}
    BY <1>2, <1>3 DEF Within
  <1>10. \A p \in Orders : stage'[p] \in {"unsent", "sent"} => p \notin charged' \cup saved'
    BY <1>1, <1>8 DEF Books
  <1>11. charged' \ saved' \subseteq flawed' \cup {job'}
    BY <1>1, <1>8 DEF Books
  <1>. QED BY <1>4, <1>6, <1>7, <1>8, <1>9, <1>10, <1>11 DEF Books

LEMMA StartBooks ==
    ASSUME Inv, Books, InitPaymentServer
    PROVE  Books'
  <1>1. /\ pc' = "loop" /\ charged' = saved
        /\ UNCHANGED <<file, stage, provided, saved, torn, flawed>>
        /\ file \in FileType /\ saved \in Paid
    BY DEF InitPaymentServer, Books
  <1>2. PICK opened \in BOOLEAN :
          /\ psDatabase' = IF opened THEN LoadHashTable(file) ELSE NoAccounts
          /\ lost' = (torn \/ ~opened)
    BY DEF InitPaymentServer
  <1>3. /\ Within(LoadHashTable(file), provided, saved)
        /\ torn \/ Exact(LoadHashTable(file), provided, saved)
    BY DEF Books
  <1>4. /\ psDatabase' \in Table
        /\ Within(psDatabase', provided', charged')
        /\ lost' \/ Exact(psDatabase', provided', charged')
    <2>1. CASE opened
      BY <1>1, <1>2, <1>3, <2>1, LoadType
    <2>2. CASE ~opened
      <3>1. NoAccounts \in Table
        <4>1. NoAccounts \in [{} -> Nat] /\ IsFiniteSet({})
          BY FS_EmptySet DEF NoAccounts
        <4>. QED BY <4>1 DEF Table
      <3>. QED BY <1>1, <1>2, <2>2, <3>1, EmptyIsWithin
    <2>. QED BY <2>1, <2>2
  <1>. QED BY <1>1, <1>4 DEF Books, Busy

LEMMA TruncatedIsEmpty ==
    /\ Truncated \in FileType
    /\ LoadHashTable(Truncated) = NoAccounts
  <1>1. Truncated \in FileType
    BY DEF Truncated, FileType
  <1>2. LoadHashTable(Truncated) = NoAccounts
    BY DEF Truncated, LoadHashTable
  <1>. QED BY <1>1, <1>2

(* A save: the file is emptied, filled, or left as it was.                 *)
LEMMA SavingBooks ==
    ASSUME Inv, Books, OpenFile \/ OpenFails \/ WriteFile \/ SendReply
    PROVE  Books'
  <1>1. CASE OpenFile
    <2>1. /\ file' = Truncated /\ saved' = charged /\ torn' = TRUE
          /\ pc = "charged" /\ pc' = "truncated"
          /\ UNCHANGED <<psDatabase, stage, provided, charged, lost, flawed>>
      BY <1>1 DEF OpenFile
    <2>2. file' \in FileType /\ Within(LoadHashTable(file'), provided', saved')
      BY <2>1, TruncatedIsEmpty, EmptyIsWithin
    <2>. QED BY <2>1, <2>2 DEF Books, Busy
  <1>2. CASE OpenFails
    <2>1. /\ flawed' = flawed \cup {job} /\ pc = "charged" /\ pc' = "saved"
          /\ UNCHANGED <<file, psDatabase, stage, provided, charged, saved, torn, lost>>
      BY <1>2 DEF OpenFails
    <2>. QED BY <2>1 DEF Books, Busy
  <1>3. CASE WriteFile
    <2>1. /\ file' = SaveHashTable(psDatabase) /\ torn' = lost
          /\ pc = "truncated" /\ pc' = "saved"
          /\ UNCHANGED <<psDatabase, stage, provided, charged, saved, lost, flawed>>
      BY <1>3 DEF WriteFile
    <2>2. /\ psDatabase \in Table
          /\ Within(psDatabase, provided, charged)
          /\ lost \/ Exact(psDatabase, provided, charged)
          /\ DOMAIN LoadHashTable(provided) # {}
      BY <2>1 DEF Books, Busy
    <2>3. saved = charged
      BY <2>1 DEF Inv, Saving
    <2>4. file' \in FileType /\ LoadHashTable(file') = psDatabase
      BY <2>1, <2>2, SavedIsLoaded, SavedLines
    <2>. QED BY <2>1, <2>2, <2>3, <2>4 DEF Books, Busy
  <1>4. CASE SendReply
    <2>1. /\ pc = "saved" /\ pc' = "loop"
          /\ UNCHANGED <<file, psDatabase, provided, charged, saved, torn, lost, flawed>>
          /\ stage' = [stage EXCEPT ![job] = "answered"]
      BY <1>4 DEF SendReply, books
    <2>2. stage \in [Orders -> {"unsent", "sent", "read", "answered", "closed"}]
      BY DEF Inv, Types
    <2>3. \A p \in Orders : stage'[p] \in {"unsent", "sent"} => stage[p] \in {"unsent", "sent"}
      BY <2>1, <2>2
    <2>. QED BY <2>1, <2>3 DEF Books, Busy
  <1>. QED BY <1>1, <1>2, <1>3, <1>4

(* A save that is cut, by a full disk or by the end of the service.        *)
LEMMA CutBooks ==
    ASSUME Inv, Books, WriteFails \/ Crash
    PROVE  Books'
  <1>1. /\ torn \in BOOLEAN /\ provided \in Files
        /\ pc = "truncated" => torn = TRUE /\ saved = charged
        /\ stage \in [Orders -> {"unsent", "sent", "read", "answered", "closed"}]
    BY DEF Inv, Types, Saving
  <1>2. ASSUME pc = "truncated", file' \in PartlySaved(psDatabase)
        PROVE  file' \in FileType /\ Within(LoadHashTable(file'), provided, saved)
    <2>1. /\ psDatabase \in Table /\ charged \in Paid /\ saved = charged
          /\ Within(psDatabase, provided, charged)
      BY <1>1, <1>2 DEF Books
    <2>2. PICK f \in PartlySaved(psDatabase) : file' = f
      BY <1>2
    <2>. QED BY <1>1, <2>1, <2>2, PartKeepsBooks
  <1>3. CASE WriteFails
    <2>1. /\ file' \in PartlySaved(psDatabase) /\ pc = "truncated" /\ pc' = "saved"
          /\ UNCHANGED <<psDatabase, stage, provided, charged, saved, torn, lost, flawed>>
      BY <1>3 DEF WriteFails, books
    <2>. QED BY <1>1, <1>2, <2>1 DEF Books, Busy
  <1>4. CASE Crash
    <2>1. /\ pc' = "down"
          /\ UNCHANGED <<provided, charged, saved, torn, lost, flawed>>
          /\ \/ pc = "truncated" /\ file' \in PartlySaved(psDatabase)
             \/ pc # "truncated" /\ file' = file
          /\ stage' = [o \in Orders |-> IF stage[o] \in {"sent", "read"} THEN "closed"
                                        ELSE stage[o]]
      BY <1>4 DEF Crash, books
    <2>2. \A p \in Orders : stage'[p] \in {"unsent", "sent"} => stage[p] \in {"unsent", "sent"}
      BY <1>1, <2>1
    <2>3. DOMAIN LoadHashTable(provided) = {} => file' = provided
      BY <2>1 DEF Books, Busy
    <2>4. CASE pc = "truncated" /\ file' \in PartlySaved(psDatabase)
      BY <1>1, <1>2, <2>1, <2>2, <2>3, <2>4 DEF Books, Busy
    <2>5. CASE pc # "truncated" /\ file' = file
      BY <2>1, <2>2, <2>3, <2>5 DEF Books, Busy
    <2>. QED BY <2>1, <2>4, <2>5
  <1>. QED BY <1>3, <1>4

LEMMA NextBooks == Inv /\ Books /\ [Next]_vars => Books'
  <1>. SUFFICES ASSUME Inv, Books, [Next]_vars
                PROVE  Books'
    OBVIOUS
  <1>1. CASE UNCHANGED vars
    BY <1>1 DEF vars, service, books, Books
  <1>2. CASE Next
    BY <1>2, QuietBooks, ChargeBooks, StartBooks, SavingBooks, CutBooks DEF Next
  <1>. QED BY <1>1, <1>2

-----------------------------------------------------------------------------
(* A sale.  What the table has and the file has not is the order that is   *)
(* being served, and others that were answered all the same; the account   *)
(* that is charged has something left.                                     *)

Pending ==
  /\ \A o \in charged \cup saved : taken[o] > 0
  /\ pc # "down" =>
       \A o \in charged \ saved : (pc \in Busy /\ o = job) \/ stage[o] = "answered"
  /\ pc = "charged" => /\ job \notin saved
                       /\ Order[job].account \in DOMAIN psDatabase
                       /\ psDatabase[Order[job].account] > 0

LEMMA ChargePending ==
    ASSUME Inv, Books, Pending, NEW o \in Orders, Charge(o)
    PROVE  Pending'
  <1>. DEFINE n == Order[o].account
  <1>1. /\ pc = "loop" /\ stage[o] = "sent"
        /\ pc' = "charged" /\ job' = o /\ saved' = saved /\ charged' = charged \cup {o}
        /\ stage' = [stage EXCEPT ![o] = "read"]
    BY DEF Charge
  <1>2. /\ ParsePSRequest(request[o]) = Parsed(o) /\ Cost(o) > 0
        /\ n \in DOMAIN psDatabase /\ ~(psDatabase[n] - Cost(o) <= 0)
    BY <1>1, StatusIsRight DEF Charge
  <1>3. psDatabase \in Table /\ o \notin charged /\ o \notin saved
    BY <1>1 DEF Books
  <1>4. psDatabase' = After(psDatabase, o)
    BY ChargeIsDebit
  <1>5. n \in DOMAIN psDatabase' /\ psDatabase'[n] = psDatabase[n] - Cost(o)
    BY <1>2, <1>4 DEF After
  <1>6. psDatabase'[n] > 0
    <2>1. psDatabase[n] \in Nat /\ Cost(o) \in Nat
      BY <1>2, <1>3, Costs DEF Table
    <2>. QED BY <1>2, <1>5, <2>1
  <1>7. \A p \in charged' \cup saved' : taken'[p] > 0
    <2>1. taken' = [taken EXCEPT ![o] = @ + Cost(o)]
      BY <1>2 DEF Charge, Parsed
    <2>2. taken \in [Orders -> Nat] /\ taken[o] = 0
      BY <1>1 DEF Inv, Types, OrderIsRight, Unpaid
    <2>3. taken'[o] > 0 /\ \A p \in Orders \ {o} : taken'[p] = taken[p]
      BY <1>2, <2>1, <2>2, Costs
    <2>4. charged \cup saved \subseteq Orders
      BY DEF Books, Paid
    <2>. QED BY <1>1, <2>3, <2>4 DEF Pending
  <1>8. \A p \in charged' \ saved' : p = o \/ stage'[p] = "answered"
    <2>1. stage \in [Orders -> {"unsent", "sent", "read", "answered", "closed"}]
      BY DEF Inv, Types
    <2>2. charged \subseteq Orders
      BY DEF Books, Paid
    <2>3. \A p \in charged \ saved : stage[p] = "answered"
      BY <1>1 DEF Pending, Busy
    <2>. QED BY <1>1, <2>1, <2>2, <2>3
  <1>. QED BY <1>1, <1>3, <1>5, <1>6, <1>7, <1>8 DEF Pending, Busy

LEMMA QuietPending ==
    ASSUME Inv, Books, Pending, NEW o \in Orders,
           \/ CannotPay(o) \/ SendOrder(o) \/ SendPart(o) \/ GivesUp(o) \/ Receive(o)
           \/ ReceivePart(o) \/ Refuse(o) \/ NoMemory(o)
    PROVE  Pending'
  <1>1. UNCHANGED <<psDatabase, taken, charged, saved, pc, job>>
    BY DEF CannotPay, SendOrder, SendPart, GivesUp, Receive, ReceivePart, Refuse, NoMemory,
           service, books
  <1>2. \A p \in Orders : stage[p] = "answered" => stage'[p] = "answered"
    <2>1. stage \in [Orders -> {"unsent", "sent", "read", "answered", "closed"}]
      BY DEF Inv, Types
    <2>. QED BY <2>1 DEF CannotPay, SendOrder, SendPart, GivesUp, Receive, ReceivePart, Refuse,
                         NoMemory
  <1>3. charged \subseteq Orders
    BY DEF Books, Paid
  <1>. QED BY <1>1, <1>2, <1>3 DEF Pending

LEMMA NextPending == Inv /\ Books /\ Pending /\ [Next]_vars => Pending'
  <1>. SUFFICES ASSUME Inv, Books, Pending, [Next]_vars
                PROVE  Pending'
    OBVIOUS
  <1>1. CASE UNCHANGED vars
    BY <1>1 DEF vars, service, books, Pending
  <1>2. CASE InitPaymentServer
    BY <1>2 DEF InitPaymentServer, Pending
  <1>3. CASE OpenFile
    BY <1>3 DEF OpenFile, Pending, Inv, Saving
  <1>4. CASE OpenFails \/ WriteFile \/ WriteFails
    BY <1>4 DEF OpenFails, WriteFile, WriteFails, Pending, Busy, books
  <1>5. CASE SendReply
    <2>1. /\ pc = "saved" /\ pc' = "loop" /\ stage' = [stage EXCEPT ![job] = "answered"]
          /\ UNCHANGED <<taken, charged, saved>>
      BY <1>5 DEF SendReply, books
    <2>2. /\ stage \in [Orders -> {"unsent", "sent", "read", "answered", "closed"}]
          /\ charged \subseteq Orders
      BY DEF Inv, Types, Books, Paid
    <2>3. \A p \in charged \ saved : p = job \/ stage[p] = "answered"
      BY <2>1 DEF Pending
    <2>4. \A p \in charged \ saved : stage'[p] = "answered"
      BY <2>1, <2>2, <2>3
    <2>. QED BY <2>1, <2>4 DEF Pending
  <1>6. CASE Crash
    BY <1>6 DEF Crash, Pending, books
  <1>. QED
    BY <1>1, <1>2, <1>3, <1>4, <1>5, <1>6, QuietPending, ChargePending DEF Next

(* The balances of a sale are those of the orders that were saved.         *)
OnBook(S) == [n \in Accounts |-> IF n \notin DOMAIN opening THEN 0
                                 ELSE opening[n] - Total(Owed(n, S))]

LEMMA BalanceIs == \A n, S : Balance(n, S) = opening[n] - Total(Owed(n, S))
  <1>1. \A n, S : MapThenSumSet(Cost, {o \in S : Order[o].account = n}) = Total(Owed(n, S))
    BY DEF Total, Owed
  <1>. QED BY <1>1 DEF Balance

LEMMA OnFileIs == Inv /\ Books => OnFile = OnBook(saved)
  <1>. SUFFICES ASSUME Inv, Books
                PROVE  OnFile = OnBook(saved)
    OBVIOUS
  <1>1. torn \in BOOLEAN
    BY DEF Inv, Types
  <1>2. ~torn => /\ DOMAIN LoadHashTable(file) = DOMAIN opening
                 /\ \A n \in DOMAIN opening :
                      LoadHashTable(file)[n] = opening[n] - Total(Owed(n, saved))
    BY DEF Books, Exact, opening
  <1>. QED BY <1>1, <1>2, BalanceIs DEF OnFile, OnBook

LEMMA OnFileNext == Inv' /\ Books' => OnFile' = OnBook(saved)'
  <1>. DEFINE IsOnBook == OnFile = OnBook(saved)
  <1>1. Inv /\ Books => IsOnBook
    BY OnFileIs
  <1>. HIDE DEF IsOnBook
  <1>2. Inv' /\ Books' => IsOnBook'
    BY <1>1, PTL
  <1>. QED BY <1>2 DEF IsOnBook

LEMMA SaleInit == Init => Sale!Init
  <1>. SUFFICES ASSUME Init
                PROVE  Sale!Init
    OBVIOUS
  <1>1. torn = FALSE /\ saved = {} /\ \A o \in Orders : told[o] = None
    BY DEF Init
  <1>2. LoadHashTable(file) \in [DOMAIN LoadHashTable(file) -> Nat]
    BY LoadType, PaymentAssumption DEF Init, FileType, Table
  <1>3. OnFile \in [Accounts -> Nat]
    BY <1>1, <1>2 DEF OnFile
  <1>4. {o \in Orders : told[o] = "OK"} = {} /\ Refused = {}
    BY <1>1, PaymentAssumption DEF Refused
  <1>. QED BY <1>1, <1>3, <1>4 DEF Sale!Init

LEMMA SaleStutters ==
    ASSUME Inv, Books, Inv', Books', UNCHANGED <<provided, saved>>, Refused' = Refused,
           \A o \in Orders : told'[o] = "OK" <=> told[o] = "OK"
    PROVE  UNCHANGED Sale!vars
  <1>1. OnFile = OnBook(saved) /\ OnFile' = OnBook(saved)'
    BY OnFileIs, OnFileNext
  <1>2. OnBook(saved)' = OnBook(saved)
    BY DEF OnBook, opening
  <1>. QED BY <1>1, <1>2 DEF Sale!vars

(* A movie server tells a buyer.                                           *)
LEMMA SaleTells ==
    ASSUME Inv, Books, Inv', Books', UNCHANGED <<provided, saved>>, NEW o \in Orders,
           told[o] = None, UNCHANGED unsure,
           NEW r \in {"OK", "ERROR", "USER_ERROR", "NO_CASH"},
           told' = [told EXCEPT ![o] = r],
           r = "OK" <=> o \in saved
    PROVE  [Sale!Next]_(Sale!vars)
  <1>1. OnFile = OnBook(saved) /\ OnFile' = OnBook(saved)'
    BY OnFileIs, OnFileNext
  <1>2. OnFile' = OnFile
    BY <1>1 DEF OnBook, opening
  <1>3. told'[o] = r /\ \A p \in Orders \ {o} : told'[p] = told[p]
    BY DEF Inv, Types
  <1>4. o \notin Refused /\ told[o] # "OK"
    BY PaymentAssumption DEF Refused
  <1>5. CASE r = "OK"
    <2>1. Refused' = Refused
      BY <1>3, <1>4, <1>5 DEF Refused
    <2>2. {p \in Orders : told'[p] = "OK"} = {p \in Orders : told[p] = "OK"} \cup {o}
      BY <1>3, <1>5
    <2>3. Sale!Deliver(o)
      BY <1>2, <1>4, <1>5, <2>1, <2>2 DEF Sale!Deliver
    <2>. QED BY <2>3 DEF Sale!Next
  <1>6. CASE r # "OK"
    <2>1. {p \in Orders : told'[p] = "OK"} = {p \in Orders : told[p] = "OK"}
      BY <1>3, <1>4, <1>6
    <2>2. CASE r = "ERROR" /\ o \in unsure
      <3>1. Refused' = Refused
        BY <1>3, <1>4, <2>2 DEF Refused
      <3>. QED BY <1>2, <2>1, <3>1 DEF Sale!vars
    <2>3. CASE ~(r = "ERROR" /\ o \in unsure)
      <3>1. Refused' = Refused \cup {o}
        BY <1>3, <1>6, <2>3 DEF Refused
      <3>2. Sale!Refuse(o)
        BY <1>2, <1>6, <2>1, <3>1 DEF Sale!Refuse
      <3>. QED BY <3>2 DEF Sale!Next
    <2>. QED BY <2>2, <2>3
  <1>. QED BY <1>5, <1>6

(* What a movie server reads of a reply.                                   *)
LEMMA SaleReceives ==
    ASSUME Inv, Books, Pending, Inv', Books', NEW o \in Orders, AnsweredIsSaved,
           Receive(o) \/ ReceivePart(o)
    PROVE  [Sale!Next]_(Sale!vars)
  <1>1. /\ stage[o] = "answered" /\ told[o] = None
        /\ UNCHANGED <<provided, saved>>
    BY DEF Receive, ReceivePart, books
  <1>2. PICK s \in 0..3 : reply[o] = MakePSReply(s) /\ Answered(o, s)
    BY <1>1 DEF Inv, OrderIsRight, AnsweredRightly
  <1>3. s = 0 <=> o \in saved
    <2>1. taken[o] \in Nat /\ (s = 0 => taken[o] > 0) /\ (s # 0 => taken[o] = 0)
      BY <1>2 DEF Answered, Inv, Types
    <2>2. o \in saved => taken[o] > 0
      BY DEF Pending
    <2>. QED BY <1>1, <2>1, <2>2 DEF AnsweredIsSaved
  <1>4. PICK t \in {s, None} :
          /\ told' = [told EXCEPT ![o] = Result(t)]
          /\ unsure' = IF t = None THEN unsure \cup {o} ELSE unsure
    <2>1. s # None
      BY PaymentAssumption
    <2>2. CASE Receive(o)
      BY <1>2, <2>1, <2>2, ReplyIsParsed DEF Receive
    <2>3. CASE ReceivePart(o)
      BY <1>2, <2>3, ReplyIsParsed DEF ReceivePart
    <2>. QED BY <2>2, <2>3
  <1>5. CASE t = None
    <2>1. told' = [told EXCEPT ![o] = "ERROR"] /\ unsure' = unsure \cup {o}
      BY <1>4, <1>5, Results
    <2>2. told'[o] = "ERROR" /\ \A p \in Orders \ {o} : told'[p] = told[p]
      BY <2>1 DEF Inv, Types
    <2>3. Refused' = Refused
      BY <1>1, <2>1, <2>2, PaymentAssumption DEF Refused
    <2>4. \A p \in Orders : told'[p] = "OK" <=> told[p] = "OK"
      BY <1>1, <2>2, PaymentAssumption
    <2>. QED BY <1>1, <2>3, <2>4, SaleStutters
  <1>6. CASE t # None
    <2>. DEFINE r == Result(s)
    <2>1. told' = [told EXCEPT ![o] = r] /\ unsure' = unsure
      BY <1>4, <1>6
    <2>2. r \in {"OK", "ERROR", "USER_ERROR", "NO_CASH"} /\ (r = "OK" <=> s = 0)
      BY Results
    <2>. HIDE DEF r
    <2>. QED BY <1>1, <1>3, <2>1, <2>2, SaleTells
  <1>. QED BY <1>5, <1>6

LEMMA SaleGivesUp ==
    ASSUME Inv, Books, Pending, Inv', Books', NEW o \in Orders,
           CannotPay(o) \/ GivesUp(o) \/ SendPart(o)
    PROVE  [Sale!Next]_(Sale!vars)
  <1>1. told[o] = None /\ UNCHANGED <<provided, saved>>
    BY DEF CannotPay, GivesUp, SendPart, books
  <1>2. CASE CannotPay(o)
    <2>1. told' = [told EXCEPT ![o] = "ERROR"] /\ unsure' = unsure /\ stage[o] = "unsent"
      BY <1>2, Results DEF CannotPay
    <2>2. o \notin saved
      BY <2>1 DEF Books
    <2>. QED BY <1>1, <2>1, <2>2, SaleTells
  <1>3. CASE GivesUp(o) \/ SendPart(o)
    <2>1. /\ told' = [told EXCEPT ![o] = "ERROR"] \/ told' = [told EXCEPT ![o] = "gone"]
          /\ unsure' = unsure \cup {o}
      BY <1>3, Results DEF GivesUp, SendPart
    <2>2. told'[o] \in {"ERROR", "gone"} /\ \A p \in Orders \ {o} : told'[p] = told[p]
      BY <2>1 DEF Inv, Types
    <2>3. Refused' = Refused
      BY <1>1, <2>1, <2>2, PaymentAssumption DEF Refused
    <2>4. \A p \in Orders : told'[p] = "OK" <=> told[p] = "OK"
      BY <1>1, <2>2, PaymentAssumption
    <2>. QED BY <1>1, <2>3, <2>4, SaleStutters
  <1>. QED BY <1>2, <1>3

(* The money of one order leaves one account, when the file is opened.     *)
LEMMA SalePays ==
    ASSUME Inv, Books, Pending, Inv', Books', AnsweredIsSaved, OpenFile
    PROVE  [Sale!Next]_(Sale!vars)
  <1>. DEFINE n == Order[job].account
  <1>1. /\ pc = "charged" /\ saved' = charged /\ UNCHANGED <<provided, told, unsure>>
        /\ job \in Orders /\ stage[job] = "read"
    BY DEF OpenFile, Inv, Types, Busy
  <1>2. job \in charged /\ job \notin saved /\ saved \subseteq charged
    BY <1>1 DEF Inv, Saving, Pending
  <1>3. charged = saved \cup {job}
    <2>1. \A p \in charged \ saved : p = job
      <3>1. \A p \in charged \ saved : taken[p] > 0 /\ (p = job \/ stage[p] = "answered")
        BY <1>1 DEF Pending
      <3>2. charged \subseteq Orders
        BY DEF Books, Paid
      <3>. QED BY <3>1, <3>2 DEF AnsweredIsSaved
    <2>. QED BY <1>2, <2>1
  <1>4. job \notin Refused
    <2>1. Untold(job)
      BY <1>1 DEF Inv, OrderIsRight
    <2>. QED BY <1>1, <2>1, PaymentAssumption DEF Untold, Refused
  <1>5. /\ saved \in Paid
        /\ n \in DOMAIN opening /\ n \in Accounts /\ opening \in [DOMAIN opening -> Nat]
        /\ psDatabase[n] \in Nat /\ psDatabase[n] > 0
        /\ psDatabase[n] <= opening[n] - Total(Owed(n, charged))
    <2>1. psDatabase \in Table /\ Within(psDatabase, provided, charged) /\ saved \in Paid
      BY <1>1 DEF Books
    <2>2. n \in DOMAIN psDatabase /\ psDatabase[n] > 0
      BY <1>1 DEF Pending
    <2>. QED BY <1>1, <2>1, <2>2, OpeningIsTable, PaymentAssumption
             DEF Within, Table, opening, Inv
  <1>6. /\ Total(Owed(n, charged)) = Cost(job) + Total(Owed(n, saved))
        /\ \A m \in Accounts \ {n} : Owed(m, charged) = Owed(m, saved)
        /\ Total(Owed(n, saved)) \in Nat /\ Cost(job) \in Nat
    BY <1>1, <1>2, <1>3, <1>5, OwedGrows, OwedIsTotal, Costs
  <1>7. OnFile = OnBook(saved) /\ OnFile' = OnBook(charged)
    <2>1. OnFile = OnBook(saved) /\ OnFile' = OnBook(saved)'
      BY OnFileIs, OnFileNext
    <2>2. OnBook(saved)' = OnBook(charged)
      BY <1>1 DEF OnBook, opening
    <2>. QED BY <2>1, <2>2
  <1>8. OnFile[n] > Cost(job)
    <2>1. OnFile[n] = opening[n] - Total(Owed(n, saved)) /\ opening[n] \in Nat
      BY <1>5, <1>7 DEF OnBook
    <2>. HIDE DEF n
    <2>. QED BY <1>5, <1>6, <2>1
  <1>9. OnFile' = [OnFile EXCEPT ![n] = @ - Cost(job)]
    <2>1. DOMAIN OnFile = Accounts /\ DOMAIN OnFile' = Accounts
      BY <1>7 DEF OnBook
    <2>2. OnFile'[n] = OnFile[n] - Cost(job)
      <3>1. /\ OnFile[n] = opening[n] - Total(Owed(n, saved))
            /\ OnFile'[n] = opening[n] - Total(Owed(n, charged))
            /\ opening[n] \in Nat
        BY <1>5, <1>7 DEF OnBook
      <3>. HIDE DEF n
      <3>. QED BY <1>6, <3>1
    <2>3. \A m \in Accounts \ {n} : OnFile'[m] = OnFile[m]
      BY <1>6, <1>7 DEF OnBook
    <2>. QED BY <1>7, <2>1, <2>2, <2>3 DEF OnBook
  <1>10. Refused' = Refused
    BY <1>1 DEF Refused
  <1>11. Sale!Pay(job, "service")
    <2>. HIDE DEF n
    <2>. QED BY <1>1, <1>2, <1>3, <1>4, <1>8, <1>9, <1>10 DEF Sale!Pay, n
  <1>. QED BY <1>1, <1>11 DEF Sale!Next

(* The other steps of the service are none of a sale.                      *)
LEMMA SaleIsQuiet ==
    ASSUME Inv, Books, Inv', Books',
           UNCHANGED <<provided, saved, told, unsure>>
    PROVE  [Sale!Next]_(Sale!vars)
  <1>1. Refused' = Refused
    BY DEF Refused
  <1>. QED BY <1>1, SaleStutters

LEMMA SaleStep ==
    Inv /\ Books /\ Pending /\ Inv' /\ Books' /\ [Next]_vars =>
      [AnsweredIsSaved => Sale!Next]_(Sale!vars)
  <1>. SUFFICES ASSUME Inv, Books, Pending, Inv', Books', [Next]_vars, AnsweredIsSaved
                PROVE  [Sale!Next]_(Sale!vars)
    OBVIOUS
  <1>1. CASE UNCHANGED vars
    BY <1>1, SaleIsQuiet DEF vars, books
  <1>2. ASSUME NEW o \in Orders, SendOrder(o) \/ Refuse(o) \/ NoMemory(o) \/ Charge(o)
        PROVE  [Sale!Next]_(Sale!vars)
    BY <1>2, SaleIsQuiet DEF SendOrder, Refuse, NoMemory, Charge, books
  <1>3. CASE InitPaymentServer \/ OpenFails \/ WriteFile \/ WriteFails \/ SendReply \/ Crash
    BY <1>3, SaleIsQuiet
    DEF InitPaymentServer, OpenFails, WriteFile, WriteFails, SendReply, Crash, books
  <1>. QED BY <1>1, <1>2, <1>3, SaleReceives, SaleGivesUp, SalePays DEF Next

-----------------------------------------------------------------------------
(* The theorems.                                                           *)

LEMMA AlwaysInv == Spec => []Inv
  <1>1. Inv /\ [Next]_vars => Inv'
    BY TypesStep, AgreeingStep, SavingStep, OrdersStep, Stutters DEF Inv
  <1>. QED BY InvInit, <1>1, PTL DEF Spec

(* Whatever arrives cut, dies or cannot be saved: who was charged is told  *)
(* OK (or the movie server stopped waiting), OK is paid and saved, and     *)
(* ERROR, USER_ERROR and NO_CASH have their reasons.                       *)
THEOREM BuyersAreToldWhatHappened == Spec => []ToldWhatHappened
  BY AlwaysInv, InvImplies, PTL

(* For any number of orders and accounts and any file: no account is lost  *)
(* or changed but by the orders that were paid, every cut save leaves at   *)
(* most what was there, and the next whole save has everything again.      *)
THEOREM AccountsStayKept == Spec => []AccountsAreKept
  BY AlwaysInv, InitBooks, NextBooks, BooksAreAccounts, PTL DEF Spec

(* One service sells as MovieSale promises, whatever it is sold for and    *)
(* wherever it dies: the price of an order leaves the account once, from   *)
(* more than that, before the buyer hears OK; whoever hears that there is  *)
(* no ticket was not charged.  (While each answered order is on file.)     *)
THEOREM PaymentsAreSales == Spec => ImplementsMovieSale
  <1>1. Init => Pending
    BY DEF Init, Pending
  <1>. QED
    BY AlwaysInv, InitBooks, NextBooks, <1>1, NextPending, SaleInit, SaleStep, PTL
    DEF Spec, ImplementsMovieSale
=============================================================================
