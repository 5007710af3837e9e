---------------------------- MODULE TicketsProofs ----------------------------
(***************************************************************************)
(* Proofs about module Tickets: its type invariant, and the three          *)
(* properties of the sales, for any number of processes, users, movies,    *)
(* ticket numbers and values of the byte.                                  *)
(***************************************************************************)
EXTENDS Tickets, TLAPS

(* The place of a ticket is a ticket or empty, never both.                 *)
LEMMA EntryIsNotEmpty ==
    /\ \A e \in Entry : e # NoTicket
    /\ \A s \in Sale : s # NoTicket
BY ConstantsAssumption

LEMMA DecrementType ==
    \A b \in 0 .. ByteValues - 1 : Decrement(b) \in 0 .. ByteValues - 1
BY ConstantsAssumption DEF Decrement

LEMMA EmptyTableType == EmptyTable \in Table /\ EmptyTable \in Book
BY DEF EmptyTable, Table, Book

LEMMA InsertType ==
    ASSUME NEW table \in Table, NEW n \in TicketNo, NEW e \in Entry
    PROVE  Insert(table, n, e) \in Table
BY DEF Insert, Table

LEMMA DiscountType ==
    ASSUME NEW table \in Table, NEW n \in TicketNo, table[n] # NoTicket
    PROVE  Discount(table, n) \in Table
<1>1. table[n] \in Entry
  BY DEF Table
<1>2. Decrement(table[n].n_downloads) \in 0 .. ByteValues - 1
  BY <1>1, DecrementType DEF Entry
<1>3. [path |-> table[n].path, n_downloads |-> Decrement(table[n].n_downloads)] \in Entry
  BY <1>1, <1>2 DEF Entry
<1> QED
  BY <1>3 DEF Discount, Table

LEMMA ShortTablesType ==
    ASSUME NEW table \in Table
    PROVE  ShortTables(table) \subseteq Table
BY DEF ShortTables, Table

(* What a save may leave of the two files.                                 *)
LEMMA SaveTypes ==
    ASSUME TypeOK
    PROVE  /\ \A n \in 0 .. MaxTickets :
                 SaveCounter(n) => tickets_free' \in 0 .. MaxTickets /\ behind' \subseteq FileNames
           /\ \A table \in Table :
                 SaveHashTable(table) => tickets_data' \in Table /\ behind' \subseteq FileNames
<1>1. /\ behind \subseteq FileNames /\ tickets_data \in Table
      /\ tickets_free \in 0 .. MaxTickets /\ 0 \in 0 .. MaxTickets
  BY ConstantsAssumption DEF TypeOK
<1>2. ASSUME NEW n \in 0 .. MaxTickets, SaveCounter(n)
      PROVE  tickets_free' \in 0 .. MaxTickets /\ behind' \subseteq FileNames
  BY <1>1, <1>2 DEF SaveCounter, ShortCounters, FileNames
<1>3. ASSUME NEW table \in Table, SaveHashTable(table)
      PROVE  tickets_data' \in Table /\ behind' \subseteq FileNames
  <2>1. ShortTables(table) \subseteq Table
    BY ShortTablesType
  <2> QED
    BY <1>1, <1>3, <2>1 DEF SaveHashTable, FileNames
<1> QED
  BY <1>2, <1>3

-----------------------------------------------------------------------------
(* The type invariant of the ticket office, for every value of the         *)
(* constants: no step leaves a table, a file or a counter ill formed.      *)
THEOREM TypeCorrect == Spec => []TypeOK
<1>1. Init => TypeOK
  <2> SUFFICES ASSUME Init PROVE TypeOK
    OBVIOUS
  <2>1. /\ pc \in [Process -> {"down", "loop", "paying", "paid", "numbered", "sending"}]
        /\ \A p \in Process : pc[p] \in {"down", "loop"}
    BY DEF Init
  <2>2. /\ tickets_generated \in [Process -> Table]
        /\ tickets_data \in Table
        /\ handed \in Book
    BY EmptyTableType DEF Init
  <2>3. /\ tickets_counter \in [Process -> 0 .. MaxTickets]
        /\ tickets_free \in 0 .. MaxTickets
        /\ discounted \in [TicketNo -> 0 .. MaxServed]
        /\ sent \in [TicketNo -> Nat]
    BY ConstantsAssumption DEF Init
  <2>4. job \in [Process -> Jobs \cup {NoJob}]
    BY DEF Init
  <2>5. /\ repeated \in BOOLEAN
        /\ stale \in [Process -> BOOLEAN]
        /\ diverged \in BOOLEAN
        /\ behind \subseteq FileNames
        /\ forgotten \in BOOLEAN
    BY DEF Init
  <2> QED
    BY <2>1, <2>2, <2>3, <2>4, <2>5 DEF TypeOK
<1>2. TypeOK /\ [Next]_vars => TypeOK'
  <2> SUFFICES ASSUME TypeOK, [Next]_vars
               PROVE  TypeOK'
    OBVIOUS
  <2> USE DEF TypeOK
  <2>1. ASSUME NEW p \in Process, NEW u \in Users, NEW m \in Movies, BuyRequest(p, u, m)
        PROVE  TypeOK'
    BY <2>1 DEF BuyRequest, memory, disk, history, Jobs
  <2>2. ASSUME NEW p \in Process, PaymentFails(p)
        PROVE  TypeOK'
    BY <2>2 DEF PaymentFails, memory, disk, history
  <2>3. ASSUME NEW p \in Process, PaymentSucceeds(p)
        PROVE  TypeOK'
    BY <2>3 DEF PaymentSucceeds, memory, disk, history
  <2>4. ASSUME NEW p \in Process, TakeNumber(p)
        PROVE  TypeOK'
    <3>1. /\ pc[p] = "paid" /\ job[p] \in Jobs
          /\ tickets_counter[p] \in TicketNo
      BY <2>4, ConstantsAssumption DEF TakeNumber, TicketNo
    <3>2. /\ tickets_counter' \in [Process -> 0 .. MaxTickets]
          /\ tickets_free' \in 0 .. MaxTickets
          /\ behind' \subseteq FileNames
      <4>1. tickets_counter[p] + 1 \in 0 .. MaxTickets
        BY <3>1, ConstantsAssumption DEF TicketNo
      <4> QED
        BY <2>4, <4>1, SaveTypes DEF TakeNumber
    <3>3. [job[p] EXCEPT !.ticket = tickets_counter[p]] \in Jobs
      BY <3>1 DEF Jobs
    <3>4. job' = [job EXCEPT ![p] = [job[p] EXCEPT !.ticket = tickets_counter[p]]]
      BY <2>4 DEF TakeNumber
    <3>5. /\ job' \in [Process -> Jobs \cup {NoJob}]
          /\ job'[p] \in Jobs /\ job'[p].ticket \in TicketNo
          /\ \A q \in Process : q # p => job'[q] = job[q]
      BY <3>1, <3>3, <3>4 DEF Jobs
    <3>6. /\ stale' \in [Process -> BOOLEAN]
          /\ diverged' \in BOOLEAN
      BY <2>4 DEF TakeNumber, NoteChange, Running
    <3>7. /\ pc' = [pc EXCEPT ![p] = "numbered"]
          /\ \A q \in Process : q # p => tickets_counter'[q] = tickets_counter[q]
      BY <2>4 DEF TakeNumber
    <3> QED
      BY <2>4, <3>2, <3>5, <3>6, <3>7 DEF TakeNumber
  <2>5. ASSUME NEW p \in Process, IssueTicket(p)
        PROVE  TypeOK'
    <3> DEFINE n == job[p].ticket
               level == Level[job[p].user]
               entry == [path |-> job[p].path, n_downloads |-> level]
    <3>1. pc[p] = "numbered" /\ job[p] \in Jobs /\ n \in TicketNo
      BY <2>5 DEF IssueTicket
    <3>2. level \in 0 .. ByteValues - 1 /\ job[p].path \in Movies
      BY <3>1, ConstantsAssumption DEF Jobs
    <3>3. entry \in Entry /\ [path |-> job[p].path, level |-> level] \in Sale
      BY <3>2 DEF Entry, Sale
    <3>4. Issued(p) \in Table
      BY <3>1, <3>3, InsertType DEF Issued
    <3>5. /\ tickets_generated' \in [Process -> Table]
          /\ tickets_data' \in Table
          /\ behind' \subseteq FileNames
          /\ handed' \in Book
      BY <2>5, <3>1, <3>3, <3>4, SaveTypes DEF IssueTicket, Book
    <3>6. /\ repeated' \in BOOLEAN
          /\ stale' \in [Process -> BOOLEAN]
          /\ diverged' \in BOOLEAN
      BY <2>5 DEF IssueTicket, NoteChange, Running
    <3> QED
      BY <2>5, <3>5, <3>6 DEF IssueTicket
  <2>6. ASSUME NEW p \in Process, NEW n \in TicketNo, StartDownloadNoFork(p, n)
        PROVE  TypeOK'
    <3>1. Discount(tickets_generated[p], n) \in Table
      BY <2>6, DiscountType DEF StartDownloadNoFork, DiscountDownload
    <3>2. /\ discounted' \in [TicketNo -> 0 .. MaxServed]
          /\ tickets_data' \in Table
          /\ behind' \subseteq FileNames
      BY <2>6, <3>1, SaveTypes, ConstantsAssumption DEF StartDownloadNoFork, DiscountDownload
    <3> QED
      BY <2>6, <3>1, <3>2 DEF StartDownloadNoFork, DiscountDownload, Running
  <2>7. ASSUME NEW p \in Process, NEW n \in TicketNo, NEW child \in Process,
               StartDownload(p, n, child)
        PROVE  TypeOK'
    <3>1. Discount(tickets_generated[p], n) \in Table
      BY <2>7, DiscountType DEF StartDownload, DiscountDownload
    <3>2. /\ discounted' \in [TicketNo -> 0 .. MaxServed]
          /\ sent' \in [TicketNo -> Nat]
      BY <2>7, ConstantsAssumption DEF StartDownload, DiscountDownload
    <3>3. /\ tickets_generated' \in [Process -> Table]
          /\ tickets_data' \in Table
          /\ behind' \subseteq FileNames
      BY <2>7, <3>1, SaveTypes DEF StartDownload, DiscountDownload
    <3>4. /\ stale' \in [Process -> BOOLEAN]
          /\ diverged' \in BOOLEAN
      BY <2>7 DEF StartDownload, DiscountDownload, Running
    <3>5. /\ tickets_counter' \in [Process -> 0 .. MaxTickets]
          /\ \A q \in Process : q # child => tickets_counter'[q] = tickets_counter[q]
          /\ pc' = [pc EXCEPT ![child] = "sending"]
          /\ UNCHANGED <<job, tickets_free, handed, repeated, forgotten>>
      BY <2>7 DEF StartDownload, DiscountDownload
    <3> QED
      BY <3>2, <3>3, <3>4, <3>5
  <2>8. ASSUME NEW p \in Process, SendMovieReturns(p)
        PROVE  TypeOK'
    BY <2>8 DEF SendMovieReturns, memory, disk, history
  <2>9. ASSUME NEW p \in Process, Fail(p)
        PROVE  TypeOK'
    <3>1. Dies(p)
      BY <2>9 DEF Fail, Crash, CrashSavingCounter, CrashSavingTickets
    <3>2. /\ pc' = [pc EXCEPT ![p] = "down"]
          /\ tickets_generated' \in [Process -> Table]
          /\ tickets_counter' \in [Process -> 0 .. MaxTickets]
          /\ job' \in [Process -> Jobs \cup {NoJob}]
          /\ stale' \in [Process -> BOOLEAN]
          /\ \A q \in Process : q # p => /\ job'[q] = job[q]
                                         /\ tickets_counter'[q] = tickets_counter[q]
      BY <3>1, EmptyTableType, ConstantsAssumption DEF Dies
    <3>3. /\ tickets_data' \in Table
          /\ tickets_free' \in 0 .. MaxTickets
          /\ behind' \subseteq FileNames
      <4>1. CASE Crash(p)
        BY <4>1 DEF Crash, disk
      <4>2. CASE CrashSavingCounter(p)
        BY <4>2, ConstantsAssumption DEF CrashSavingCounter, ShortCounters, FileNames
      <4>3. CASE CrashSavingTickets(p)
        <5>1. ASSUME pc[p] = "numbered"
              PROVE  Issued(p) \in Table
          <6>1. job[p] \in Jobs /\ job[p].ticket \in TicketNo
            BY <5>1
          <6>2. [path |-> job[p].path, n_downloads |-> Level[job[p].user]] \in Entry
            BY <6>1, ConstantsAssumption DEF Jobs, Entry
          <6> QED
            BY <6>1, <6>2, InsertType DEF Issued
        <5>2. \A n \in TicketNo : tickets_generated[p][n] # NoTicket =>
                  Discount(tickets_generated[p], n) \in Table
          BY DiscountType
        <5> QED
          BY <4>3, <5>1, <5>2, ShortTablesType DEF CrashSavingTickets, FileNames
      <4> QED
        BY <2>9, <4>1, <4>2, <4>3 DEF Fail
    <3>4. /\ forgotten' \in BOOLEAN
          /\ UNCHANGED <<handed, repeated, discounted, sent, diverged>>
      BY <3>1 DEF Dies
    <3> QED
      BY <3>2, <3>3, <3>4
  <2>10. ASSUME NEW p \in Process, Restart(p)
         PROVE  TypeOK'
    <3>1. PICK opened \in SUBSET FileNames :
              /\ tickets_generated' = [tickets_generated EXCEPT ![p] =
                     IF "tickets_data" \in opened THEN tickets_data ELSE EmptyTable]
              /\ tickets_counter' = [tickets_counter EXCEPT ![p] =
                     IF "tickets_free" \in opened THEN tickets_free ELSE 0]
              /\ forgotten' = (forgotten \/ opened # FileNames)
      BY <2>10 DEF Restart
    <3>2. /\ tickets_generated' \in [Process -> Table]
          /\ tickets_counter' \in [Process -> 0 .. MaxTickets]
          /\ \A q \in Process : q # p => tickets_counter'[q] = tickets_counter[q]
      BY <3>1, EmptyTableType, ConstantsAssumption
    <3>3. /\ pc' = [pc EXCEPT ![p] = "loop"]
          /\ UNCHANGED <<job, disk, handed, repeated, discounted, sent, stale, diverged, behind>>
      BY <2>10 DEF Restart
    <3> QED
      BY <3>1, <3>2, <3>3 DEF disk
  <2>11. CASE UNCHANGED vars
    BY <2>11 DEF vars, memory, disk, history
  <2> QED
    BY <2>1, <2>2, <2>3, <2>4, <2>5, <2>6, <2>7, <2>8, <2>9, <2>10, <2>11
    DEF Next, Purchase, Pay, Serve
<1> QED
  BY <1>1, <1>2, PTL DEF Spec
-----------------------------------------------------------------------------
(***************************************************************************)
(* The sales.  None of the three properties is inductive: that a number is *)
(* new depends on the counter being ahead of every sale, that on the       *)
(* memory of the up-to-date processes being the same, and the files where  *)
(* no save failed, and on nobody else having sold since.                   *)
(***************************************************************************)

(* The tables that count are those of each process that is up to date, and *)
(* the files unless their last save failed, which they all made good for   *)
(* when no such process is left.                                           *)
Agreement ==
    /\ \A p \in Process : UpToDate(p) => /\ tickets_generated[p] = CurrentTickets
                                         /\ tickets_counter[p] = CurrentCounter
    /\ "tickets_data" \notin behind => tickets_data = CurrentTickets
    /\ "tickets_free" \notin behind => tickets_free = CurrentCounter
    /\ behind # {} => \E p \in Process : UpToDate(p)

(* One ticket number: not sold and unused, or sold and fully accounted for. *)
Accounted(n) ==
    IF handed[n] = NoTicket
    THEN CurrentTickets[n] = NoTicket /\ discounted[n] = 0 /\ sent[n] = 0
    ELSE sent[n] <= discounted[n] /\ Keeps(CurrentTickets, n)

NumberIsNew(p) ==
    pc[p] = "numbered" /\ ~stale[p] =>
        /\ job[p].ticket < CurrentCounter
        /\ handed[job[p].ticket] = NoTicket

SalesInv ==
    Coherent =>
        /\ ~repeated
        /\ Agreement
        /\ \A p \in Process : NumberIsNew(p)
        /\ \A n \in TicketNo : handed[n] # NoTicket => n < CurrentCounter
        /\ \A n \in TicketNo : Accounted(n)

(* Whichever process CHOOSE takes.                                         *)
LEMMA CurrentTypes ==
    ASSUME TypeOK
    PROVE  CurrentTickets \in Table /\ CurrentCounter \in 0 .. MaxTickets
BY DEF CurrentTickets, CurrentCounter, TypeOK

LEMMA CurrentIs ==
    ASSUME NEW t, NEW c,
           \A p \in Process : UpToDate(p) => tickets_generated[p] = t /\ tickets_counter[p] = c,
           (\A p \in Process : ~UpToDate(p)) => tickets_data = t /\ tickets_free = c
    PROVE  CurrentTickets = t /\ CurrentCounter = c
BY DEF CurrentTickets, CurrentCounter

LEMMA CurrentWillBe ==
    ASSUME NEW t, NEW c,
           \A p \in Process :
               UpToDate(p)' => tickets_generated'[p] = t /\ tickets_counter'[p] = c,
           (\A p \in Process : ~UpToDate(p)') => tickets_data' = t /\ tickets_free' = c
    PROVE  CurrentTickets' = t /\ CurrentCounter' = c
BY DEF CurrentTickets, CurrentCounter

LEMMA SalesInvInit == Init => SalesInv
<1> SUFFICES ASSUME Init
             PROVE  SalesInv
  OBVIOUS
<1>1. CurrentTickets = EmptyTable /\ CurrentCounter = 0
  BY CurrentIs DEF Init
<1>2. Agreement
  BY <1>1 DEF Init, Agreement
<1> QED
  BY <1>1, <1>2 DEF Init, SalesInv, NumberIsNew, Accounted, EmptyTable

(* What the accounts say depends on nothing else.                          *)
LEMMA SameAccounts ==
    ASSUME SalesInv, Coherent,
           UNCHANGED <<handed, discounted, sent, repeated>>,
           CurrentTickets' = CurrentTickets, CurrentCounter' = CurrentCounter,
           Agreement',
           \A p \in Process : NumberIsNew(p)'
    PROVE  SalesInv'
<1>1. /\ \A n \in TicketNo : handed[n] # NoTicket => n < CurrentCounter
      /\ \A n \in TicketNo : Accounted(n)
      /\ ~repeated
  BY DEF SalesInv
<1>2. \A n \in TicketNo : Accounted(n)'
  BY <1>1 DEF Accounted, Keeps
<1> QED
  BY <1>1, <1>2 DEF SalesInv

(* A step that touches neither files nor history and lets only processes   *)
(* with unchanged tables run keeps the invariant.                          *)
LEMMA QuietStep ==
    ASSUME TypeOK, SalesInv, UNCHANGED <<memory, disk, history>>,
           \A p \in Process :
               /\ Running(p)' <=> Running(p)
               /\ (pc[p] = "numbered")' => pc[p] = "numbered" /\ UNCHANGED job[p]
    PROVE  SalesInv' /\ CurrentTickets' = CurrentTickets /\ CurrentCounter' = CurrentCounter
<1>1. \A p \in Process : UpToDate(p)' <=> UpToDate(p)
  BY DEF UpToDate, history
<1>2. \/ \E p \in Process : UpToDate(p)
      \/ \A p \in Process : ~UpToDate(p)
  OBVIOUS
<1>3. (CHOOSE p \in Process : UpToDate(p)') = (CHOOSE p \in Process : UpToDate(p))
  BY <1>1
<1>4. CurrentTickets' = CurrentTickets /\ CurrentCounter' = CurrentCounter
  BY <1>1, <1>3 DEF CurrentTickets, CurrentCounter, memory, disk
<1>5. ASSUME Coherent'
      PROVE  SalesInv'
  <2>1. Coherent
    BY <1>5 DEF Coherent, history
  <2>2. Agreement'
    BY <2>1, <1>1, <1>4 DEF SalesInv, Agreement, memory, disk, history
  <2>3. \A p \in Process : NumberIsNew(p)'
    BY <2>1, <1>4 DEF SalesInv, NumberIsNew, history
  <2> QED
    BY <2>1, <2>2, <2>3, <1>4, SameAccounts DEF history
<1> QED
  BY <1>4, <1>5 DEF SalesInv

-----------------------------------------------------------------------------
(* A number is taken: the counter that counts goes up by one, and only the *)
(* process that took it is up to date.                                     *)
LEMMA NumberTaken ==
    ASSUME TypeOK, SalesInv, NEW p \in Process, TakeNumber(p), Coherent'
    PROVE  /\ Coherent /\ ~stale[p]
           /\ CurrentTickets' = CurrentTickets
           /\ CurrentCounter' = CurrentCounter + 1
           /\ tickets_counter[p] = CurrentCounter
           /\ tickets_counter[p] \in TicketNo
           /\ UpToDate(p)'
           /\ \A q \in Process : UpToDate(q)' => q = p
           /\ Agreement'
<1>1. Coherent /\ ~stale[p] /\ pc[p] = "paid"
  BY DEF TakeNumber, NoteChange, Coherent
<1>2. UpToDate(p) /\ Agreement
  BY <1>1 DEF SalesInv, UpToDate, Running
<1>3. /\ tickets_counter[p] = CurrentCounter
      /\ tickets_generated[p] = CurrentTickets
  BY <1>2 DEF Agreement
<1>4. tickets_counter[p] \in TicketNo
  BY <1>1, ConstantsAssumption DEF TypeOK, TicketNo
<1>5. UpToDate(p)' /\ \A q \in Process : UpToDate(q)' => q = p
  BY <1>1 DEF TakeNumber, NoteChange, UpToDate, Running, TypeOK
<1>6. /\ tickets_generated'[p] = CurrentTickets
      /\ tickets_counter'[p] = CurrentCounter + 1
  BY <1>3 DEF TakeNumber, TypeOK
<1>7. CurrentTickets' = CurrentTickets /\ CurrentCounter' = CurrentCounter + 1
  <2> DEFINE t == CurrentTickets
             c == CurrentCounter + 1
  <2>1. \A q \in Process : UpToDate(q)' => tickets_generated'[q] = t /\ tickets_counter'[q] = c
    BY <1>5, <1>6
  <2>2. ~(\A q \in Process : ~UpToDate(q)')
    BY <1>5
  <2> HIDE DEF t, c
  <2>3. CurrentTickets' = t /\ CurrentCounter' = c
    BY <2>1, <2>2, CurrentWillBe
  <2> QED
    BY <2>3 DEF t, c
<1>8. /\ "tickets_data" \notin behind' => tickets_data' = CurrentTickets
      /\ "tickets_free" \notin behind' => tickets_free' = CurrentCounter + 1
  BY <1>2, <1>3 DEF TakeNumber, SaveCounter, Agreement
<1>9. Agreement'
  BY <1>5, <1>6, <1>7, <1>8 DEF Agreement
<1> QED
  BY <1>1, <1>3, <1>4, <1>5, <1>7, <1>9

LEMMA TakeNumberKeeps ==
    ASSUME TypeOK, SalesInv, NEW p \in Process, TakeNumber(p)
    PROVE  SalesInv'
<1> SUFFICES ASSUME Coherent'
             PROVE  SalesInv'
  BY DEF SalesInv
<1>1. UNCHANGED <<handed, discounted, sent, repeated>>
  BY DEF TakeNumber
<1>2. /\ Coherent /\ ~stale[p]
      /\ CurrentTickets' = CurrentTickets
      /\ CurrentCounter' = CurrentCounter + 1
      /\ tickets_counter[p] = CurrentCounter
      /\ tickets_counter[p] \in TicketNo
      /\ \A q \in Process : UpToDate(q)' => q = p
      /\ Agreement'
  BY NumberTaken
<1>3. CurrentCounter \in Nat
  BY CurrentTypes, ConstantsAssumption
<1>4. handed[tickets_counter[p]] = NoTicket
  BY <1>2, <1>3 DEF SalesInv
<1>5. job'[p].ticket = tickets_counter[p]
  BY DEF TakeNumber, TypeOK, Jobs
<1>6. NumberIsNew(p)'
  BY <1>1, <1>2, <1>3, <1>4, <1>5 DEF NumberIsNew
<1>7. \A q \in Process : NumberIsNew(q)'
  BY <1>2, <1>6 DEF NumberIsNew, UpToDate, Running
<1>8. \A n \in TicketNo : handed'[n] # NoTicket => n < CurrentCounter'
  BY <1>1, <1>2, <1>3 DEF SalesInv, TicketNo
<1>9. \A n \in TicketNo : Accounted(n)'
  BY <1>1, <1>2 DEF SalesInv, Accounted, Keeps
<1> QED
  BY <1>1, <1>2, <1>7, <1>8, <1>9 DEF SalesInv

(* A ticket is sold: it was not, and is now in the table that counts.      *)
LEMMA TicketSold ==
    ASSUME TypeOK, SalesInv, NEW p \in Process, IssueTicket(p), Coherent'
    PROVE  \E n \in TicketNo, level \in 0 .. ByteValues - 1, m \in Movies :
             /\ Coherent
             /\ n < CurrentCounter
             /\ handed[n] = NoTicket
             /\ CurrentTickets[n] = NoTicket /\ discounted[n] = 0 /\ sent[n] = 0
             /\ CurrentTickets' = [CurrentTickets EXCEPT ![n] = [path |-> m, n_downloads |-> level]]
             /\ CurrentCounter' = CurrentCounter
             /\ handed' = [handed EXCEPT ![n] = [path |-> m, level |-> level]]
             /\ ~repeated'
             /\ pc'[p] = "loop"
             /\ \A q \in Process : UpToDate(q)' => q = p
             /\ Agreement'
<1>1. Coherent /\ ~stale[p] /\ pc[p] = "numbered" /\ job[p] \in Jobs
  BY DEF IssueTicket, NoteChange, Coherent, TypeOK
<1>2. PICK n \in TicketNo : n = job[p].ticket
  BY <1>1 DEF TypeOK
<1>3. PICK level \in 0 .. ByteValues - 1 : level = Level[job[p].user]
  BY <1>1, ConstantsAssumption DEF Jobs
<1>4. PICK m \in Movies : m = job[p].path
  BY <1>1 DEF Jobs
<1> DEFINE entry == [path |-> m, n_downloads |-> level]
           table == [CurrentTickets EXCEPT ![n] = entry]
<1>5. UpToDate(p) /\ Agreement
  BY <1>1 DEF SalesInv, UpToDate, Running
<1>6. /\ tickets_counter[p] = CurrentCounter
      /\ tickets_generated[p] = CurrentTickets
  BY <1>5 DEF Agreement
<1>7. n < CurrentCounter /\ handed[n] = NoTicket
  BY <1>1, <1>2 DEF SalesInv, NumberIsNew
<1>8. CurrentTickets[n] = NoTicket /\ discounted[n] = 0 /\ sent[n] = 0
  BY <1>1, <1>7 DEF SalesInv, Accounted
<1>9. Issued(p) = table
  BY <1>2, <1>3, <1>4, <1>6, <1>8 DEF Issued, Insert
<1>10. UpToDate(p)' /\ \A q \in Process : UpToDate(q)' => q = p
  BY <1>1 DEF IssueTicket, NoteChange, UpToDate, Running, TypeOK
<1>11. tickets_generated'[p] = table /\ tickets_counter'[p] = CurrentCounter
  BY <1>6, <1>9 DEF IssueTicket, TypeOK
<1>12. /\ "tickets_data" \notin behind' => tickets_data' = table
       /\ "tickets_free" \notin behind' => tickets_free' = CurrentCounter
  BY <1>5, <1>6, <1>9 DEF IssueTicket, SaveHashTable, Agreement
<1>13. /\ handed' = [handed EXCEPT ![n] = [path |-> m, level |-> level]]
       /\ ~repeated'
       /\ pc'[p] = "loop"
  BY <1>1, <1>2, <1>3, <1>4, <1>7 DEF IssueTicket, SalesInv, TypeOK
<1> HIDE DEF table
<1>14. CurrentTickets' = table /\ CurrentCounter' = CurrentCounter
  <2> DEFINE c == CurrentCounter
  <2>1. \A q \in Process : UpToDate(q)' => tickets_generated'[q] = table /\ tickets_counter'[q] = c
    BY <1>10, <1>11
  <2>2. ~(\A q \in Process : ~UpToDate(q)')
    BY <1>10
  <2> HIDE DEF c
  <2>3. CurrentTickets' = table /\ CurrentCounter' = c
    BY <2>1, <2>2, CurrentWillBe
  <2> QED
    BY <2>3 DEF c
<1>15. Agreement'
  BY <1>10, <1>11, <1>12, <1>14 DEF Agreement
<1> QED
  BY <1>1, <1>7, <1>8, <1>10, <1>13, <1>14, <1>15 DEF table

LEMMA IssueTicketKeeps ==
    ASSUME TypeOK, SalesInv, NEW p \in Process, IssueTicket(p)
    PROVE  SalesInv'
<1> SUFFICES ASSUME Coherent'
             PROVE  SalesInv'
  BY DEF SalesInv
<1>1. PICK n \in TicketNo, level \in 0 .. ByteValues - 1, m \in Movies :
             /\ Coherent
             /\ n < CurrentCounter
             /\ handed[n] = NoTicket
             /\ CurrentTickets[n] = NoTicket /\ discounted[n] = 0 /\ sent[n] = 0
             /\ CurrentTickets' = [CurrentTickets EXCEPT ![n] = [path |-> m, n_downloads |-> level]]
             /\ CurrentCounter' = CurrentCounter
             /\ handed' = [handed EXCEPT ![n] = [path |-> m, level |-> level]]
             /\ ~repeated'
             /\ pc'[p] = "loop"
             /\ \A q \in Process : UpToDate(q)' => q = p
             /\ Agreement'
  BY TicketSold
<1>2. UNCHANGED <<discounted, sent>>
  BY DEF IssueTicket
<1>3. CurrentTickets \in Table /\ handed \in Book
  BY CurrentTypes DEF TypeOK
<1> DEFINE entry == [path |-> m, n_downloads |-> level]
           sale  == [path |-> m, level |-> level]
<1>4. entry \in Entry /\ sale \in Sale
  BY DEF Entry, Sale
<1>5. entry # NoTicket /\ sale # NoTicket
  BY <1>4, EntryIsNotEmpty
<1>6. \A q \in Process : NumberIsNew(q)'
  BY <1>1 DEF NumberIsNew, UpToDate, Running
<1>7. \A k \in TicketNo : handed'[k] # NoTicket => k < CurrentCounter'
  BY <1>1, <1>3 DEF SalesInv, Book
<1>8. Accounted(n)'
  <2>1. CurrentTickets'[n] = entry /\ handed'[n] = sale
    BY <1>1, <1>3 DEF Table, Book
  <2>2. Quota(level) \in Nat
    BY ConstantsAssumption DEF Quota
  <2> QED
    BY <1>1, <1>2, <1>5, <2>1, <2>2 DEF Accounted, Keeps
<1>9. ASSUME NEW k \in TicketNo, k # n
      PROVE  Accounted(k)'
  <2>1. CurrentTickets'[k] = CurrentTickets[k] /\ handed'[k] = handed[k]
    BY <1>1, <1>3, <1>9 DEF Table, Book
  <2> QED
    BY <1>1, <1>2, <2>1 DEF SalesInv, Accounted, Keeps
<1> QED
  BY <1>1, <1>6, <1>7, <1>8, <1>9 DEF SalesInv

(* The discount of one download keeps the account of every number.         *)
LEMMA DiscountKeepsAccounts ==
    ASSUME TypeOK, NEW n \in TicketNo, CurrentTickets[n] # NoTicket,
           CurrentTickets' = Discount(CurrentTickets, n),
           discounted' = [discounted EXCEPT ![n] = @ + 1],
           sent' \in {sent, [sent EXCEPT ![n] = @ + 1]},
           UNCHANGED handed,
           \A k \in TicketNo : Accounted(k)
    PROVE  \A k \in TicketNo : Accounted(k)'
<1>0. CurrentTickets \in Table
  BY CurrentTypes
<1>1. ASSUME NEW k \in TicketNo, k # n
      PROVE  Accounted(k)'
  <2>1. /\ CurrentTickets'[k] = CurrentTickets[k] /\ discounted'[k] = discounted[k]
        /\ sent'[k] = sent[k] /\ handed'[k] = handed[k]
    BY <1>0, <1>1 DEF Discount, TypeOK, Table
  <2> QED
    BY <2>1 DEF Accounted, Keeps
<1>2. Accounted(n)'
  <2>1. PICK entry \in Entry : entry = CurrentTickets[n]
    BY <1>0 DEF Table
  <2>2. handed[n] # NoTicket /\ Accounted(n)
    BY DEF Accounted
  <2>3. PICK sale \in Sale : sale = handed[n]
    BY <2>2 DEF TypeOK, Book
  <2>4. /\ discounted[n] \in Nat /\ discounted'[n] = discounted[n] + 1
        /\ sent[n] \in Nat /\ sent'[n] \in {sent[n], sent[n] + 1}
        /\ handed'[n] = sale
    BY <2>3, ConstantsAssumption DEF TypeOK
  <2> DEFINE left == Decrement(entry.n_downloads)
             rest == [path |-> entry.path, n_downloads |-> left]
  <2>5. CurrentTickets'[n] = IF left > 0 THEN rest ELSE NoTicket
    BY <1>0, <2>1 DEF Discount, Table
  <2>6. entry.n_downloads \in 0 .. ByteValues - 1 /\ entry.path \in Movies
    BY DEF Entry
  <2>7. left \in 0 .. ByteValues - 1
    BY <2>6, DecrementType
  <2>8. rest # NoTicket
    BY <2>6, <2>7, EntryIsNotEmpty DEF Entry
  <2>9. IF left > 0 THEN Quota(left) + 1 = Quota(entry.n_downloads)
                    ELSE Quota(entry.n_downloads) = 1
    BY <2>6, ConstantsAssumption DEF Decrement, Quota
  <2>10. /\ sent[n] <= discounted[n]
         /\ entry.path = sale.path
         /\ Quota(entry.n_downloads) + discounted[n] = Quota(sale.level)
    BY <2>1, <2>2, <2>3 DEF Accounted, Keeps
  <2>11. Quota(left) \in Nat /\ Quota(entry.n_downloads) \in Nat /\ Quota(sale.level) \in Nat
    BY <2>6, <2>7, ConstantsAssumption DEF Quota, Sale
  <2>12. /\ sent'[n] <= discounted'[n]
         /\ left > 0 => Quota(left) + discounted'[n] = Quota(sale.level)
         /\ ~(left > 0) => discounted'[n] = Quota(sale.level)
    BY <2>4, <2>7, <2>9, <2>10, <2>11
  <2>13. CASE left > 0
    <3>1. CurrentTickets'[n] = rest /\ rest.path = sale.path /\ rest.n_downloads = left
      BY <2>5, <2>10, <2>13
    <3> QED
      BY <2>2, <2>3, <2>4, <2>8, <2>12, <2>13, <3>1 DEF Accounted, Keeps
  <2>14. CASE ~(left > 0)
    <3>1. CurrentTickets'[n] = NoTicket
      BY <2>5, <2>14
    <3> QED
      BY <2>2, <2>3, <2>4, <2>12, <2>14, <3>1 DEF Accounted, Keeps
  <2> QED
    BY <2>13, <2>14
<1> QED
  BY <1>1, <1>2

(* A download is started: its discount is in the table that counts, and    *)
(* the child has that table as well.                                       *)
LEMMA DownloadDiscounted ==
    ASSUME TypeOK, SalesInv, Coherent', NEW p \in Process, NEW n \in TicketNo,
           \/ StartDownloadNoFork(p, n)
           \/ \E child \in Process : StartDownload(p, n, child)
    PROVE  /\ Coherent
           /\ CurrentTickets[n] # NoTicket
           /\ CurrentTickets' = Discount(CurrentTickets, n)
           /\ CurrentCounter' = CurrentCounter
           /\ Agreement'
           /\ \A q \in Process : UpToDate(q)' => pc'[q] # "numbered"
<1> DEFINE t == Discount(CurrentTickets, n)
           c == CurrentCounter
<1>1. DiscountDownload(p, n)
  BY DEF StartDownloadNoFork, StartDownload
<1>2. Coherent /\ ~stale[p] /\ pc[p] = "loop"
  BY <1>1 DEF DiscountDownload, Coherent
<1>3. UpToDate(p) /\ Agreement
  BY <1>2 DEF SalesInv, UpToDate, Running
<1>4. tickets_generated[p] = CurrentTickets /\ tickets_counter[p] = CurrentCounter
  BY <1>3 DEF Agreement
<1>5. /\ CurrentTickets[n] # NoTicket
      /\ "tickets_data" \notin behind' => tickets_data' = t
      /\ "tickets_free" \notin behind' => tickets_free' = c
  BY <1>1, <1>3, <1>4 DEF DiscountDownload, SaveHashTable, Agreement
<1>6. ASSUME NEW q \in Process, UpToDate(q)'
      PROVE  /\ tickets_generated'[q] = t
             /\ tickets_counter'[q] = c
             /\ pc'[q] # "numbered"
  <2>1. CASE StartDownloadNoFork(p, n)
    <3>1. q = p
      BY <1>6, <2>1 DEF StartDownloadNoFork, UpToDate, Running, TypeOK
    <3> QED
      BY <1>2, <1>4, <2>1, <3>1 DEF StartDownloadNoFork, TypeOK
  <2>2. ASSUME NEW child \in Process, StartDownload(p, n, child)
        PROVE  /\ tickets_generated'[q] = t
               /\ tickets_counter'[q] = c
               /\ pc'[q] # "numbered"
    <3>1. q \in {p, child}
      BY <1>6, <2>2 DEF StartDownload, UpToDate, Running, TypeOK
    <3>2. child # p
      BY <1>2, <2>2 DEF StartDownload, Running
    <3> QED
      BY <1>2, <1>4, <2>2, <3>1, <3>2 DEF StartDownload, TypeOK
  <2> QED
    BY <2>1, <2>2
<1>7. UpToDate(p)'
  BY <1>2 DEF StartDownloadNoFork, StartDownload, UpToDate, Running, TypeOK
<1> HIDE DEF t, c
<1>8. CurrentTickets' = t /\ CurrentCounter' = c
  BY <1>6, <1>7, CurrentWillBe
<1>9. Agreement'
  BY <1>5, <1>6, <1>7, <1>8 DEF Agreement
<1> QED
  BY <1>2, <1>5, <1>6, <1>8, <1>9 DEF t, c

LEMMA StartDownloadKeeps ==
    ASSUME TypeOK, SalesInv, NEW p \in Process, NEW n \in TicketNo,
           \/ StartDownloadNoFork(p, n)
           \/ \E child \in Process : StartDownload(p, n, child)
    PROVE  SalesInv'
<1> SUFFICES ASSUME Coherent'
             PROVE  SalesInv'
  BY DEF SalesInv
<1>1. /\ Coherent
      /\ CurrentTickets[n] # NoTicket
      /\ CurrentTickets' = Discount(CurrentTickets, n)
      /\ CurrentCounter' = CurrentCounter
      /\ Agreement'
      /\ \A q \in Process : UpToDate(q)' => pc'[q] # "numbered"
  BY DownloadDiscounted
<1>2. /\ discounted' = [discounted EXCEPT ![n] = @ + 1]
      /\ UNCHANGED <<handed, repeated>>
  BY DEF StartDownloadNoFork, StartDownload, DiscountDownload
<1>3. sent' \in {sent, [sent EXCEPT ![n] = @ + 1]}
  BY DEF StartDownloadNoFork, StartDownload
<1>4. \A k \in TicketNo : Accounted(k)'
  BY <1>1, <1>2, <1>3, DiscountKeepsAccounts DEF SalesInv
<1>5. \A q \in Process : NumberIsNew(q)'
  BY <1>1 DEF NumberIsNew, UpToDate, Running
<1> QED
  BY <1>1, <1>2, <1>4, <1>5 DEF SalesInv

(* The tables that count survive a process, in another one or in the files. *)
LEMMA FailForgetsNothing ==
    ASSUME TypeOK, SalesInv, NEW p \in Process, Fail(p), Coherent'
    PROVE  /\ Coherent
           /\ CurrentTickets' = CurrentTickets
           /\ CurrentCounter' = CurrentCounter
           /\ Agreement'
           /\ \A q \in Process : UpToDate(q)' => q # p
<1> DEFINE t == CurrentTickets
           c == CurrentCounter
<1>1. Dies(p)
  BY DEF Fail, Crash, CrashSavingCounter, CrashSavingTickets
<1>2. /\ Coherent
      /\ behind' = {} \/ \E q \in Process \ {p} : UpToDate(q)
  BY <1>1 DEF Dies, Coherent
<1>3. Agreement
  BY <1>2 DEF SalesInv
<1>4. ~UpToDate(p)' /\ \A q \in Process : q # p => UpToDate(q)' = UpToDate(q)
  BY <1>1 DEF Dies, UpToDate, Running, TypeOK
<1>5. \A q \in Process : UpToDate(q)' =>
          /\ q # p
          /\ tickets_generated'[q] = t
          /\ tickets_counter'[q] = c
  BY <1>1, <1>3, <1>4 DEF Dies, TypeOK, Agreement
<1>6. /\ behind \subseteq behind'
      /\ "tickets_data" \notin behind' => UNCHANGED tickets_data
      /\ "tickets_free" \notin behind' => UNCHANGED tickets_free
  BY DEF Fail, Crash, CrashSavingCounter, CrashSavingTickets, disk
<1>7. /\ "tickets_data" \notin behind' => tickets_data' = t
      /\ "tickets_free" \notin behind' => tickets_free' = c
  BY <1>3, <1>6 DEF Agreement
<1>8. behind' # {} => \E q \in Process : UpToDate(q)'
  BY <1>2, <1>4
<1> HIDE DEF t, c
<1>9. CurrentTickets' = t /\ CurrentCounter' = c
  BY <1>5, <1>7, <1>8, CurrentWillBe
<1>10. Agreement'
  BY <1>5, <1>7, <1>8, <1>9 DEF Agreement
<1> QED
  BY <1>2, <1>5, <1>9, <1>10 DEF t, c

LEMMA FailKeeps ==
    ASSUME TypeOK, SalesInv, NEW p \in Process, Fail(p)
    PROVE  SalesInv'
<1> SUFFICES ASSUME Coherent'
             PROVE  SalesInv'
  BY DEF SalesInv
<1>1. /\ Coherent
      /\ CurrentTickets' = CurrentTickets
      /\ CurrentCounter' = CurrentCounter
      /\ Agreement'
      /\ \A q \in Process : UpToDate(q)' => q # p
  BY FailForgetsNothing
<1>2. Dies(p)
  BY DEF Fail, Crash, CrashSavingCounter, CrashSavingTickets
<1>3. UNCHANGED <<handed, discounted, sent, repeated>>
  BY <1>2 DEF Dies
<1>4. \A q \in Process : NumberIsNew(q)'
  <2>1. ~(pc'[p] = "numbered")
    BY <1>2 DEF Dies, TypeOK
  <2>2. \A q \in Process : q # p =>
            pc'[q] = pc[q] /\ job'[q] = job[q] /\ stale'[q] = stale[q]
    BY <1>2 DEF Dies, TypeOK
  <2> QED
    BY <1>1, <1>3, <2>1, <2>2 DEF SalesInv, NumberIsNew
<1> QED
  BY <1>1, <1>3, <1>4, SameAccounts

LEMMA RestartForgetsNothing ==
    ASSUME TypeOK, SalesInv, NEW p \in Process, Restart(p), Coherent'
    PROVE  /\ Coherent
           /\ CurrentTickets' = CurrentTickets
           /\ CurrentCounter' = CurrentCounter
           /\ Agreement'
<1> DEFINE t == CurrentTickets
           c == CurrentCounter
<1>1. /\ UNCHANGED <<disk, behind, stale, diverged>>
      /\ pc' = [pc EXCEPT ![p] = "loop"]
      /\ \A q \in Process : ~Running(q)
  BY DEF Restart
<1>2. Coherent
  BY DEF Restart, Coherent
<1>3. /\ tickets_generated'[p] = tickets_data
      /\ tickets_counter'[p] = tickets_free
  BY DEF Restart, Coherent, FileNames, TypeOK
<1>4. Agreement /\ behind = {}
  BY <1>1, <1>2 DEF SalesInv, Agreement, UpToDate
<1>5. tickets_data = t /\ tickets_free = c
  BY <1>4 DEF Agreement
<1>6. \A q \in Process : UpToDate(q)' => q = p
  BY <1>1 DEF UpToDate, Running, TypeOK
<1> HIDE DEF t, c
<1>7. CurrentTickets' = t /\ CurrentCounter' = c
  BY <1>1, <1>3, <1>5, <1>6, CurrentWillBe DEF disk
<1>8. Agreement'
  BY <1>1, <1>3, <1>4, <1>5, <1>6, <1>7 DEF Agreement, disk
<1> QED
  BY <1>2, <1>7, <1>8 DEF t, c

LEMMA RestartKeeps ==
    ASSUME TypeOK, SalesInv, NEW p \in Process, Restart(p)
    PROVE  SalesInv'
<1> SUFFICES ASSUME Coherent'
             PROVE  SalesInv'
  BY DEF SalesInv
<1>1. /\ Coherent
      /\ CurrentTickets' = CurrentTickets
      /\ CurrentCounter' = CurrentCounter
      /\ Agreement'
  BY RestartForgetsNothing
<1>2. UNCHANGED <<handed, discounted, sent, repeated>>
  BY DEF Restart
<1>3. \A q \in Process : pc'[q] # "numbered"
  BY DEF Restart, Running, TypeOK
<1> QED
  BY <1>1, <1>2, <1>3, SameAccounts DEF NumberIsNew

(* The steps that only move one process along.                             *)
LEMMA QuietSteps ==
    ASSUME TypeOK, SalesInv, NEW p \in Process,
           \/ \E u \in Users, m \in Movies : BuyRequest(p, u, m)
           \/ PaymentFails(p)
           \/ PaymentSucceeds(p)
           \/ SendMovieReturns(p)
    PROVE  /\ SalesInv' /\ UNCHANGED handed
           /\ CurrentTickets' = CurrentTickets /\ CurrentCounter' = CurrentCounter
<1>1. UNCHANGED <<memory, disk, history>>
  BY DEF BuyRequest, PaymentFails, PaymentSucceeds, SendMovieReturns
<1>2. \A q \in Process :
          /\ Running(q)' <=> Running(q)
          /\ (pc[q] = "numbered")' => pc[q] = "numbered" /\ UNCHANGED job[q]
  BY DEF BuyRequest, PaymentFails, PaymentSucceeds, SendMovieReturns, Running, TypeOK
<1>3. UNCHANGED handed
  BY <1>1 DEF history
<1> QED
  BY <1>1, <1>2, <1>3, QuietStep

LEMMA StutteringStep ==
    ASSUME TypeOK, SalesInv, UNCHANGED vars
    PROVE  /\ SalesInv' /\ UNCHANGED handed
           /\ CurrentTickets' = CurrentTickets /\ CurrentCounter' = CurrentCounter
<1>1. UNCHANGED <<memory, disk, history>> /\ UNCHANGED <<pc, job>>
  BY DEF vars
<1>2. \A q \in Process :
          /\ Running(q)' <=> Running(q)
          /\ (pc[q] = "numbered")' => pc[q] = "numbered" /\ UNCHANGED job[q]
  BY <1>1 DEF Running
<1>3. UNCHANGED handed
  BY <1>1 DEF history
<1> QED
  BY <1>1, <1>2, <1>3, QuietStep

LEMMA SalesInvStep == TypeOK /\ SalesInv /\ [Next]_vars => SalesInv'
<1> SUFFICES ASSUME TypeOK, SalesInv, [Next]_vars
             PROVE  SalesInv'
  OBVIOUS
<1>1. CASE UNCHANGED vars
  BY <1>1, StutteringStep
<1>2. ASSUME NEW p \in Process, Purchase(p) \/ Serve(p) \/ Fail(p) \/ Restart(p)
      PROVE  SalesInv'
  BY <1>2, QuietSteps, TakeNumberKeeps, IssueTicketKeeps, StartDownloadKeeps, FailKeeps,
     RestartKeeps
  DEF Purchase, Pay, Serve
<1> QED
  BY <1>1, <1>2 DEF Next

(* What the invariant says of the sales.                                   *)
LEMMA SalesInvImplies ==
    TypeOK /\ SalesInv => NumbersAreUnique /\ SoldIsOnDisk /\ SentWithinQuota
<1> SUFFICES ASSUME TypeOK, SalesInv, Coherent
             PROVE  ~repeated /\ SoldIsOnDisk /\ SentWithinQuota
  BY DEF NumbersAreUnique, SoldIsOnDisk, SentWithinQuota
<1>1. SoldIsOnDisk
  <2>1. Agreement /\ \A n \in TicketNo : Keeps(CurrentTickets, n)
    BY DEF SalesInv, Accounted, Keeps
  <2>2. "tickets_data" \in behind \/ tickets_data = CurrentTickets
    BY <2>1 DEF Agreement
  <2>3. \A p \in Process : UpToDate(p) => tickets_generated[p] = CurrentTickets
    BY <2>1 DEF Agreement
  <2> QED
    BY <2>1, <2>2, <2>3 DEF SoldIsOnDisk
<1>2. ASSUME NEW n \in TicketNo, sent[n] > 0
      PROVE  handed[n] # NoTicket /\ sent[n] <= Quota(handed[n].level)
  <2>1. Accounted(n) /\ handed[n] # NoTicket
    BY <1>2 DEF SalesInv, Accounted
  <2>2. /\ sent[n] \in Nat /\ discounted[n] \in Nat
        /\ CurrentTickets[n] # NoTicket => Quota(CurrentTickets[n].n_downloads) \in Nat
        /\ Quota(handed[n].level) \in Nat
    <3>1. handed[n] \in Sale
      BY <2>1 DEF TypeOK, Book
    <3>2. CurrentTickets[n] # NoTicket => CurrentTickets[n] \in Entry
      BY CurrentTypes DEF Table
    <3> QED
      BY <3>1, <3>2, ConstantsAssumption DEF TypeOK, Quota, Sale, Entry
  <2>3. sent[n] <= discounted[n] /\ discounted[n] <= Quota(handed[n].level)
    BY <2>1, <2>2 DEF Accounted, Keeps
  <2> QED
    BY <2>1, <2>2, <2>3
<1> QED
  BY <1>1, <1>2 DEF SalesInv, SentWithinQuota

LEMMA SalesInvAlways == Spec => [](TypeOK /\ SalesInv)
<1>1. Spec => []TypeOK
  BY TypeCorrect
<1>2. Init => SalesInv
  BY SalesInvInit
<1>3. TypeOK /\ SalesInv /\ [Next]_vars => SalesInv'
  BY SalesInvStep
<1> QED
  BY <1>1, <1>2, <1>3, PTL DEF Spec

(* As long as one up-to-date process at a time sells, and does not die     *)
(* with what could not be saved: no number is sold twice, although saves   *)
(* fail, the counter is saved before the ticket and any process may crash  *)
(* between the two saves.                                                  *)
THEOREM NumbersAreSoldOnce == Spec => []NumbersAreUnique
<1>1. TypeOK /\ SalesInv => NumbersAreUnique
  BY SalesInvImplies
<1> QED
  BY <1>1, SalesInvAlways, PTL

(* ... the files whose last save did not fail, and the memory of that      *)
(* process in any case, say what was sold and how much of it is left.      *)
THEOREM SalesAreOnDisk == Spec => []SoldIsOnDisk
<1>1. TypeOK /\ SalesInv => SoldIsOnDisk
  BY SalesInvImplies
<1> QED
  BY <1>1, SalesInvAlways, PTL

(* ... and nobody gets more downloads than were sold.                      *)
THEOREM NobodyGetsMore == Spec => []SentWithinQuota
<1>1. TypeOK /\ SalesInv => SentWithinQuota
  BY SalesInvImplies
<1> QED
  BY <1>1, SalesInvAlways, PTL
-----------------------------------------------------------------------------
(***************************************************************************)
(* Tickets implements TicketBook.                                          *)
(***************************************************************************)

LEMMA BookInit == Init => OnSale!Init
<1> SUFFICES ASSUME Init
             PROVE  OnSale!Init
  OBVIOUS
<1>1. CurrentTickets = EmptyTable /\ CurrentCounter = 0
  BY CurrentIs DEF Init
<1> QED
  BY <1>1 DEF Init, OnSale!Init, Usables, SoldMovies, EmptyTable

(* A step that leaves the tables that count and the sales alone is         *)
(* invisible.                                                              *)
LEMMA BookStutter ==
    ASSUME CurrentTickets' = CurrentTickets, CurrentCounter' = CurrentCounter,
           UNCHANGED handed
    PROVE  UNCHANGED OnSale!vars
BY DEF OnSale!vars, Usables, SoldMovies

LEMMA BookReserve ==
    ASSUME TypeOK, SalesInv, Coherent', NEW p \in Process, TakeNumber(p)
    PROVE  OnSale!Reserve
<1>1. CurrentTickets' = CurrentTickets /\ CurrentCounter' = CurrentCounter + 1
  BY NumberTaken
<1>2. UNCHANGED handed
  BY DEF TakeNumber
<1> QED
  BY <1>1, <1>2 DEF OnSale!Reserve, Usables, SoldMovies

LEMMA BookSell ==
    ASSUME TypeOK, SalesInv, Coherent', NEW p \in Process, IssueTicket(p)
    PROVE  OnSale!Sell
<1>1. PICK n \in TicketNo, level \in 0 .. ByteValues - 1, m \in Movies :
             /\ Coherent
             /\ n < CurrentCounter
             /\ handed[n] = NoTicket
             /\ CurrentTickets[n] = NoTicket /\ discounted[n] = 0 /\ sent[n] = 0
             /\ CurrentTickets' = [CurrentTickets EXCEPT ![n] = [path |-> m, n_downloads |-> level]]
             /\ CurrentCounter' = CurrentCounter
             /\ handed' = [handed EXCEPT ![n] = [path |-> m, level |-> level]]
             /\ ~repeated'
             /\ pc'[p] = "loop"
             /\ \A q \in Process : UpToDate(q)' => q = p
             /\ Agreement'
  BY TicketSold
<1> DEFINE entry == [path |-> m, n_downloads |-> level]
           sale  == [path |-> m, level |-> level]
<1>2. entry # NoTicket /\ sale # NoTicket
  BY EntryIsNotEmpty DEF Entry, Sale
<1>3. CurrentTickets \in Table /\ handed \in Book
  BY CurrentTypes DEF TypeOK
<1>4. Usables(CurrentTickets)' =
         [Usables(CurrentTickets) EXCEPT ![n] = [path |-> m, left |-> Quota(level)]]
  <2>1. CurrentTickets'[n] = entry
    BY <1>1, <1>3 DEF Table
  <2>2. \A k \in TicketNo : k # n => CurrentTickets'[k] = CurrentTickets[k]
    BY <1>1, <1>3 DEF Table
  <2> DEFINE F == Usables(CurrentTickets)
             G == Usables(CurrentTickets)'
             item == [path |-> m, left |-> Quota(level)]
  <2>3. F = [k \in TicketNo |-> F[k]] /\ G = [k \in TicketNo |-> G[k]]
    BY DEF Usables
  <2>4. G[n] = item
    BY <1>2, <2>1 DEF Usables
  <2>5. \A k \in TicketNo : k # n => G[k] = F[k]
    BY <2>2 DEF Usables
  <2> HIDE DEF F, G, item
  <2>6. G = [F EXCEPT ![n] = item]
    BY <2>3, <2>4, <2>5
  <2> QED
    BY <2>6 DEF F, G, item
<1>5. SoldMovies' = [SoldMovies EXCEPT ![n] = m]
  <2>1. handed'[n] = sale
    BY <1>1, <1>3 DEF Book
  <2>2. \A k \in TicketNo : k # n => handed'[k] = handed[k]
    BY <1>1, <1>3 DEF Book
  <2> DEFINE F == SoldMovies
             G == SoldMovies'
  <2>3. F = [k \in TicketNo |-> F[k]] /\ G = [k \in TicketNo |-> G[k]]
    BY DEF SoldMovies
  <2>4. G[n] = m
    BY <1>2, <2>1 DEF SoldMovies
  <2>5. \A k \in TicketNo : k # n => G[k] = F[k]
    BY <2>2 DEF SoldMovies
  <2> HIDE DEF F, G
  <2>6. G = [F EXCEPT ![n] = m]
    BY <2>3, <2>4, <2>5
  <2> QED
    BY <2>6 DEF F, G
<1>6. Quota(level) \in 1 .. ByteValues
  BY ConstantsAssumption DEF Quota
<1>7. SoldMovies[n] = NoTicket
  BY <1>1 DEF SoldMovies
<1> QED
  BY <1>1, <1>4, <1>5, <1>6, <1>7 DEF OnSale!Sell

LEMMA BookUse ==
    ASSUME TypeOK, SalesInv, Coherent', NEW p \in Process, NEW n \in TicketNo,
           \/ StartDownloadNoFork(p, n)
           \/ \E child \in Process : StartDownload(p, n, child)
    PROVE  OnSale!Use
<1>1. /\ CurrentTickets[n] # NoTicket
      /\ CurrentTickets' = Discount(CurrentTickets, n)
      /\ CurrentCounter' = CurrentCounter
  BY DownloadDiscounted
<1>2. UNCHANGED handed
  BY DEF StartDownloadNoFork, StartDownload, DiscountDownload
<1>3. CurrentTickets \in Table
  BY CurrentTypes
<1>4. PICK entry \in Entry : entry = CurrentTickets[n]
  BY <1>1, <1>3 DEF Table
<1> DEFINE left == Decrement(entry.n_downloads)
           rest == [path |-> entry.path, n_downloads |-> left]
           book == Usables(CurrentTickets)
<1>5. /\ entry.n_downloads \in 0 .. ByteValues - 1 /\ entry.path \in Movies
      /\ left \in 0 .. ByteValues - 1
  BY DecrementType DEF Entry
<1>6. rest # NoTicket
  BY <1>5, EntryIsNotEmpty DEF Entry
<1>7. CurrentTickets'[n] = IF left > 0 THEN rest ELSE NoTicket
  BY <1>1, <1>3, <1>4 DEF Discount, Table
<1>8. \A k \in TicketNo : k # n => CurrentTickets'[k] = CurrentTickets[k]
  BY <1>1, <1>3 DEF Discount, Table
<1>9. IF left > 0 THEN Quota(left) = Quota(entry.n_downloads) - 1 /\ Quota(entry.n_downloads) # 1
                  ELSE Quota(entry.n_downloads) = 1
  BY <1>5, ConstantsAssumption DEF Decrement, Quota
<1>10. book[n] = [path |-> entry.path, left |-> Quota(entry.n_downloads)]
  BY <1>1, <1>4 DEF Usables
<1> DEFINE used == IF book[n].left = 1 THEN NoTicket
                   ELSE [path |-> book[n].path, left |-> book[n].left - 1]
<1>11. book[n] # NoTicket
  <2>1. Quota(entry.n_downloads) \in 1 .. ByteValues
    BY <1>5, ConstantsAssumption DEF Quota
  <2>2. [path |-> entry.path, left |-> Quota(entry.n_downloads)] \in Usable
    BY <1>5, <2>1 DEF Usable
  <2> QED
    BY <1>10, <2>2, ConstantsAssumption
<1>12. Usables(CurrentTickets)' = [book EXCEPT ![n] = used]
  <2>1. Usables(CurrentTickets)'[n] = used
    BY <1>6, <1>7, <1>9, <1>10 DEF Usables
  <2>2. \A k \in TicketNo : k # n => Usables(CurrentTickets)'[k] = book[k]
    BY <1>8 DEF Usables
  <2>3. /\ Usables(CurrentTickets)' = [k \in TicketNo |-> Usables(CurrentTickets)'[k]]
        /\ book = [k \in TicketNo |-> book[k]]
    BY DEF Usables
  <2> HIDE DEF book, used
  <2> QED
    BY <2>1, <2>2, <2>3
<1>13. SoldMovies' = SoldMovies
  BY <1>2 DEF SoldMovies
<1> QED
  BY <1>1, <1>11, <1>12, <1>13 DEF OnSale!Use

(* Every step of the only writer is a step of the book or invisible to it. *)
LEMMA BookStep ==
    ASSUME TypeOK, SalesInv, Next, Coherent'
    PROVE  OnSale!Next \/ UNCHANGED OnSale!vars
<1>1. ASSUME NEW p \in Process,
             \/ \E u \in Users, m \in Movies : BuyRequest(p, u, m)
             \/ PaymentFails(p)
             \/ PaymentSucceeds(p)
             \/ SendMovieReturns(p)
      PROVE  UNCHANGED OnSale!vars
  BY <1>1, QuietSteps, BookStutter
<1>2. ASSUME NEW p \in Process, Fail(p)
      PROVE  UNCHANGED OnSale!vars
  <2>1. UNCHANGED handed
    BY <1>2 DEF Fail, Crash, CrashSavingCounter, CrashSavingTickets, Dies
  <2> QED
    BY <1>2, <2>1, FailForgetsNothing, BookStutter
<1>3. ASSUME NEW p \in Process, Restart(p)
      PROVE  UNCHANGED OnSale!vars
  <2>1. UNCHANGED handed
    BY <1>3 DEF Restart
  <2> QED
    BY <1>3, <2>1, RestartForgetsNothing, BookStutter
<1>4. ASSUME NEW p \in Process, NEW n \in TicketNo,
             StartDownloadNoFork(p, n) \/ \E child \in Process : StartDownload(p, n, child)
      PROVE  OnSale!Use
  BY <1>4, BookUse
<1> QED
  BY <1>1, <1>2, <1>3, <1>4, BookReserve, BookSell
  DEF Next, Purchase, Pay, Serve, OnSale!Next

(* As long as one up-to-date process at a time sells, and does not die     *)
(* with what could not be saved, its tables and the files, together with   *)
(* what the buyers were told, are a ticket book: failing saves, crashes    *)
(* between saves and within them, restarts and forks cannot be seen in it. *)
THEOREM OneWriterImplementsTicketBook == SpecOneWriter => ImplementsTicketBook
<1>1. SpecOneWriter => Spec
  BY PTL DEF SpecOneWriter, Spec
<1>2. Spec => []TypeOK
  BY TypeCorrect
<1>3. Init => SalesInv /\ OnSale!Init
  BY SalesInvInit, BookInit
<1>4. TypeOK /\ SalesInv /\ [Next]_vars => SalesInv'
  BY SalesInvStep
<1>5. TypeOK /\ SalesInv /\ [Next /\ Coherent']_vars => [OnSale!Next]_OnSale!vars
  <2>1. ASSUME TypeOK, SalesInv, UNCHANGED vars
        PROVE  UNCHANGED OnSale!vars
    BY <2>1, StutteringStep, BookStutter
  <2>2. ASSUME TypeOK, SalesInv, Next, Coherent'
        PROVE  OnSale!Next \/ UNCHANGED OnSale!vars
    BY <2>2, BookStep
  <2> QED
    BY <2>1, <2>2
<1> QED
  BY <1>1, <1>2, <1>3, <1>4, <1>5, PTL
  DEF Spec, SpecOneWriter, ImplementsTicketBook, OnSale!Spec
=============================================================================
