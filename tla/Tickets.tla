------------------------------- MODULE Tickets -------------------------------
(***************************************************************************)
(* The ticket office of the movie server (src/Server/server.c): selling a  *)
(* ticket, starting a download with it, the two files the server keeps     *)
(* (tickets_data, tickets_free), crashes, restarts and the fork() that     *)
(* every started download performs.                                        *)
(*                                                                         *)
(* The child of that fork() sends the movie and then returns from Session  *)
(* into the accept loop it was forked from, so it becomes a second server  *)
(* with its own copy of the tables of its parent.  A process is therefore  *)
(* an index of every in-memory variable; only the two files are shared.    *)
(*                                                                         *)
(* Who may call (UserCanAcces) is the business of module Sessions, what    *)
(* PayMovie does that of module Purchase: here a request that reaches the  *)
(* ticket code has passed the first, and the second may answer anything.   *)
(***************************************************************************)
EXTENDS Integers

CONSTANTS
    Process,      \* slots for server processes (the operating system's pids)
    Users,        \* registered clients
    Movies,       \* titles of movies_location.txt
    Level,        \* Level[u]: download level of u in the LDAP directory
    ByteValues,   \* values of an unsigned char: 256 in the build
    MaxTickets,   \* bound: ticket numbers handed out by one process
    MaxServed,    \* bound: downloads discounted from one ticket number
    NoTicket      \* an empty place of a table

TicketNo == 0 .. MaxTickets - 1

(* ticket_info_t: the path stands for the movie, the MD5 is a literal.     *)
Entry == [path : Movies, n_downloads : 0 .. ByteValues - 1]
Table == [TicketNo -> Entry \cup {NoTicket}]

(* What a buyer was told: the movie bought and the level it was sold at.   *)
Sale  == [path : Movies, level : 0 .. ByteValues - 1]
Book  == [TicketNo -> Sale \cup {NoTicket}]

(* A ticket as its holder counts it.                                       *)
Usable == [path : Movies, left : 1 .. ByteValues]

ASSUME ConstantsAssumption ==
    /\ MaxTickets \in Nat \ {0}
    /\ MaxServed \in Nat
    /\ ByteValues \in Nat \ {0, 1}
    /\ Level \in [Users -> 0 .. ByteValues - 1]
    /\ NoTicket \notin Entry \cup Sale \cup Usable

EmptyTable == [n \in TicketNo |-> NoTicket]

VARIABLES
    pc,                  \* what each process is doing
    tickets_generated,   \* in memory: ticket number -> movie, downloads left
    tickets_counter,     \* in memory: next ticket number
    job,                 \* in memory: the purchase being served
    tickets_data,        \* on disk: image of some tickets_generated
    tickets_free,        \* on disk: image of some tickets_counter
    (* History, read by no guard of the code: *)
    handed,              \* last sale announced for each ticket number
    repeated,            \* a number was announced to two buyers
    discounted,          \* downloads discounted from each ticket number
    sent,                \* processes forked to send the movie of each number
    stale,               \* another process went on after p's tables were copied
    diverged,            \* a stale process has sold or discounted
    behind,              \* files whose last save failed
    forgotten            \* what such a file lacks was in no memory any more

memory  == <<tickets_generated, tickets_counter>>
disk    == <<tickets_data, tickets_free>>
history == <<handed, repeated, discounted, sent, stale, diverged, behind, forgotten>>
vars    == <<pc, memory, job, disk, history>>

Running(p) == pc[p] # "down"

UpToDate(p) == Running(p) /\ ~stale[p]

FileNames == {"tickets_free", "tickets_data"}

NoJob == [user |-> "none"]
Jobs  == [user : Users, path : Movies, ticket : TicketNo \cup {MaxTickets}]

(***************************************************************************)
(* Table operations                                                        *)
(***************************************************************************)

(* HInsert: a number that is already in the table is not inserted again    *)
(* (the caller does not look at the answer).                               *)
Insert(table, n, entry) ==
    IF table[n] = NoTicket THEN [table EXCEPT ![n] = entry] ELSE table

(* n_downloads -= 1 on an unsigned char.                                   *)
Decrement(byte) == IF byte = 0 THEN ByteValues - 1 ELSE byte - 1

(* Mutant of Discount: the ticket goes back after its last download too.   *)
DiscountKeepsLast(table, n) ==
    [table EXCEPT ![n].n_downloads = Decrement(@)]

(* Take the ticket out and put it back unless its last download was used.  *)
Discount(table, n) ==
    LET left == Decrement(table[n].n_downloads) IN
    [table EXCEPT ![n] = IF left > 0
                         THEN [path |-> table[n].path, n_downloads |-> left]
                         ELSE NoTicket]

(* The table with the ticket that p is selling, worth the level of its     *)
(* buyer.                                                                  *)
Issued(p) ==
    Insert(tickets_generated[p], job[p].ticket,
           [path |-> job[p].path, n_downloads |-> Level[job[p].user]])

(***************************************************************************)
(* Saving.  Nobody looks at what SaveCounter and SaveHashTable return: the *)
(* file may not open, and stays what it was, or the disk may be full after *)
(* fopen has truncated it, and it is short.                                *)
(***************************************************************************)

(* A short counter reads as 0, a short table as some of its entries.       *)
ShortCounters == {0}
ShortTables(table) ==
    {[n \in TicketNo |-> IF n \in whole THEN table[n] ELSE NoTicket]
        : whole \in SUBSET TicketNo}

SaveCounter(n) ==
    \/ /\ tickets_free' = n
       /\ behind' = behind \ {"tickets_free"}
    \/ /\ tickets_free' \in {tickets_free} \cup ShortCounters
       /\ behind' = behind \cup {"tickets_free"}

SaveHashTable(table) ==
    \/ /\ tickets_data' = table
       /\ behind' = behind \ {"tickets_data"}
    \/ /\ tickets_data' \in {tickets_data} \cup ShortTables(table)
       /\ behind' = behind \cup {"tickets_data"}

(* History of a change by p, saved or not: every other running copy is now *)
(* out of date.                                                            *)
NoteChange(p) ==
    /\ stale' = [q \in Process |-> IF q = p THEN stale[p] ELSE Running(q)]
    /\ diverged' = (diverged \/ stale[p])

-----------------------------------------------------------------------------
(***************************************************************************)
(* Actions                                                                 *)
(***************************************************************************)

(* The first process: tables read from the files, or empty without files.  *)
Init ==
    \E first \in Process :
        /\ pc = [p \in Process |-> IF p = first THEN "loop" ELSE "down"]
        /\ tickets_generated = [p \in Process |-> EmptyTable]
        /\ tickets_counter = [p \in Process |-> 0]
        /\ job = [p \in Process |-> NoJob]
        /\ tickets_data = EmptyTable
        /\ tickets_free = 0
        /\ handed = EmptyTable
        /\ repeated = FALSE
        /\ discounted = [n \in TicketNo |-> 0]
        /\ sent = [n \in TicketNo |-> 0]
        /\ stale = [p \in Process |-> FALSE]
        /\ diverged = FALSE
        /\ behind = {}
        /\ forgotten = FALSE

(* A buy request of a user with a session, for a movie of the catalogue:   *)
(* the process calls PayMovie and blocks in it.                            *)
BuyRequest(p, u, m) ==
    /\ pc[p] = "loop"
    /\ tickets_counter[p] < MaxTickets
    /\ pc' = [pc EXCEPT ![p] = "paying"]
    /\ job' = [job EXCEPT ![p] = [user |-> u, path |-> m, ticket |-> MaxTickets]]
    /\ UNCHANGED <<memory, disk, history>>

(* PayMovie answers anything but PAY_OK: the buyer gets an error code.     *)
PaymentFails(p) ==
    /\ pc[p] = "paying"
    /\ pc' = [pc EXCEPT ![p] = "loop"]
    /\ job' = [job EXCEPT ![p] = NoJob]
    /\ UNCHANGED <<memory, disk, history>>

PaymentSucceeds(p) ==
    /\ pc[p] = "paying"
    /\ pc' = [pc EXCEPT ![p] = "paid"]
    /\ UNCHANGED <<memory, job, disk, history>>

(* Mutants of TakeNumber: the counter is saved before it is incremented,   *)
(* the ticket is given the incremented one, and the process waits when the *)
(* number is in its table already.                                         *)
TakeNumberSavedFirst(p) ==
    /\ pc[p] = "paid"
    /\ job' = [job EXCEPT ![p].ticket = tickets_counter[p]]
    /\ tickets_counter' = [tickets_counter EXCEPT ![p] = @ + 1]
    /\ SaveCounter(tickets_counter[p])
    /\ pc' = [pc EXCEPT ![p] = "numbered"]
    /\ NoteChange(p)
    /\ UNCHANGED <<tickets_generated, tickets_data, handed, repeated, discounted, sent,
                   forgotten>>

TakeNumberIncremented(p) ==
    /\ pc[p] = "paid"
    /\ job' = [job EXCEPT ![p].ticket = tickets_counter[p] + 1]
    /\ tickets_counter' = [tickets_counter EXCEPT ![p] = @ + 1]
    /\ SaveCounter(tickets_counter[p] + 1)
    /\ pc' = [pc EXCEPT ![p] = "numbered"]
    /\ NoteChange(p)
    /\ UNCHANGED <<tickets_generated, tickets_data, handed, repeated, discounted, sent,
                   forgotten>>

TakeNumberOnlyNew(p) ==
    /\ pc[p] = "paid"
    /\ tickets_generated[p][tickets_counter[p]] = NoTicket
    /\ job' = [job EXCEPT ![p].ticket = tickets_counter[p]]
    /\ tickets_counter' = [tickets_counter EXCEPT ![p] = @ + 1]
    /\ SaveCounter(tickets_counter[p] + 1)
    /\ pc' = [pc EXCEPT ![p] = "numbered"]
    /\ NoteChange(p)
    /\ UNCHANGED <<tickets_generated, tickets_data, handed, repeated, discounted, sent,
                   forgotten>>

(* First half of MakeTicket: take the number, save the next one.           *)
TakeNumber(p) ==
    /\ pc[p] = "paid"
    /\ job' = [job EXCEPT ![p].ticket = tickets_counter[p]]
    /\ tickets_counter' = [tickets_counter EXCEPT ![p] = @ + 1]
    /\ SaveCounter(tickets_counter[p] + 1)
    /\ pc' = [pc EXCEPT ![p] = "numbered"]
    /\ NoteChange(p)
    /\ UNCHANGED <<tickets_generated, tickets_data, handed, repeated, discounted, sent,
                   forgotten>>

(* Mutant of IssueTicket: the table is saved before the ticket is in it.   *)
IssueTicketSavedFirst(p) ==
    LET n    == job[p].ticket
        sale == [path |-> job[p].path, level |-> Level[job[p].user]]
    IN
    /\ pc[p] = "numbered"
    /\ tickets_generated' = [tickets_generated EXCEPT ![p] = Issued(p)]
    /\ SaveHashTable(tickets_generated[p])
    /\ handed' = [handed EXCEPT ![n] = sale]
    /\ repeated' = (repeated \/ handed[n] # NoTicket)
    /\ pc' = [pc EXCEPT ![p] = "loop"]
    /\ job' = [job EXCEPT ![p] = NoJob]
    /\ NoteChange(p)
    /\ UNCHANGED <<tickets_counter, tickets_free, discounted, sent, forgotten>>

(* Second half of MakeTicket and the answer: once the directory has told   *)
(* the level of the buyer, the ticket goes into the table and, with the    *)
(* whole table, to disk.                                                   *)
IssueTicket(p) ==
    LET n    == job[p].ticket
        sale == [path |-> job[p].path, level |-> Level[job[p].user]]
    IN
    /\ pc[p] = "numbered"
    /\ tickets_generated' = [tickets_generated EXCEPT ![p] = Issued(p)]
    /\ SaveHashTable(Issued(p))
    /\ handed' = [handed EXCEPT ![n] = sale]
    /\ repeated' = (repeated \/ handed[n] # NoTicket)
    /\ pc' = [pc EXCEPT ![p] = "loop"]
    /\ job' = [job EXCEPT ![p] = NoJob]
    /\ NoteChange(p)
    /\ UNCHANGED <<tickets_counter, tickets_free, discounted, sent, forgotten>>

(* DOWNLOAD_START_OK for a ticket this process knows: one download is      *)
(* discounted and saved, and then fork() is called.                        *)
DiscountDownload(p, n) ==
    /\ pc[p] = "loop"
    /\ tickets_generated[p][n] # NoTicket
    /\ discounted[n] < MaxServed
    /\ SaveHashTable(Discount(tickets_generated[p], n))
    /\ discounted' = [discounted EXCEPT ![n] = @ + 1]
    /\ diverged' = (diverged \/ stale[p])
    /\ UNCHANGED <<tickets_free, handed, repeated, forgotten>>

(* fork() = -1: ERROR, the connection is closed and nobody sends the file. *)
StartDownloadNoFork(p, n) ==
    /\ DiscountDownload(p, n)
    /\ tickets_generated' = [tickets_generated EXCEPT ![p] = Discount(@, n)]
    /\ stale' = [q \in Process |-> IF q = p THEN stale[p] ELSE Running(q)]
    /\ UNCHANGED <<pc, job, tickets_counter, sent>>

(* fork() in p: child is a copy of p that sends the movie.                 *)
StartDownload(p, n, child) ==
    LET table == Discount(tickets_generated[p], n) IN
    /\ ~Running(child)
    /\ DiscountDownload(p, n)
    /\ tickets_generated' = [tickets_generated EXCEPT ![p] = table, ![child] = table]
    /\ tickets_counter' = [tickets_counter EXCEPT ![child] = tickets_counter[p]]
    /\ pc' = [pc EXCEPT ![child] = "sending"]
    /\ sent' = [sent EXCEPT ![n] = @ + 1]
    /\ stale' = [q \in Process |-> IF q \in {p, child} THEN stale[p] ELSE Running(q)]
    /\ UNCHANGED job

(* SendMovie returns, well or badly: UserStartDownload returns OK in the   *)
(* child as well, and the child goes back to the select() loop.            *)
SendMovieReturns(p) ==
    /\ pc[p] = "sending"
    /\ pc' = [pc EXCEPT ![p] = "loop"]
    /\ UNCHANGED <<memory, job, disk, history>>

(***************************************************************************)
(* Crashes and restarts                                                    *)
(***************************************************************************)

(* What only the memory of p has is forgotten with it: a file may be       *)
(* behind, and no other process has tables that are up to date.            *)
Dies(p) ==
    /\ Running(p)
    /\ pc' = [pc EXCEPT ![p] = "down"]
    /\ tickets_generated' = [tickets_generated EXCEPT ![p] = EmptyTable]
    /\ tickets_counter' = [tickets_counter EXCEPT ![p] = 0]
    /\ job' = [job EXCEPT ![p] = NoJob]
    /\ stale' = [stale EXCEPT ![p] = FALSE]
    /\ forgotten' = (forgotten \/ (behind' # {} /\ \A q \in Process \ {p} : ~UpToDate(q)))
    /\ UNCHANGED <<handed, repeated, discounted, sent, diverged>>

(* A signal, FATAL_ERROR, or the exit(1) of GetUserLevel when the LDAP     *)
(* search of IssueTicket fails.                                            *)
Crash(p) ==
    /\ UNCHANGED <<disk, behind>>
    /\ Dies(p)

(* ... between the fopen("wb+") of SaveCounter, which truncates, and its   *)
(* fclose.                                                                 *)
CrashSavingCounter(p) ==
    /\ pc[p] = "paid"
    /\ tickets_free' \in ShortCounters
    /\ behind' = behind \cup {"tickets_free"}
    /\ Dies(p)
    /\ UNCHANGED tickets_data

(* ... or between the fopen("w+") of SaveHashTable and its fclose.         *)
CrashSavingTickets(p) ==
    /\ \/ /\ pc[p] = "numbered"
          /\ tickets_data' \in ShortTables(Issued(p))
       \/ /\ pc[p] = "loop"
          /\ \E n \in TicketNo :
                /\ tickets_generated[p][n] # NoTicket
                /\ tickets_data' \in ShortTables(Discount(tickets_generated[p], n))
    /\ behind' = behind \cup {"tickets_data"}
    /\ Dies(p)
    /\ UNCHANGED tickets_free

(* Mutant of Restart: the counter is read back but not the tickets.        *)
RestartWithoutTickets(p) ==
    /\ \A q \in Process : ~Running(q)
    /\ pc' = [pc EXCEPT ![p] = "loop"]
    /\ tickets_counter' = [tickets_counter EXCEPT ![p] = tickets_free]
    /\ UNCHANGED <<tickets_generated, job, disk, history>>

(* InitServer: the port can only be bound when no process holds it.  A     *)
(* file that does not open is taken for an empty one.                      *)
Restart(p) ==
    /\ \A q \in Process : ~Running(q)
    /\ pc' = [pc EXCEPT ![p] = "loop"]
    /\ \E opened \in SUBSET FileNames :
          /\ tickets_generated' = [tickets_generated EXCEPT ![p] =
                 IF "tickets_data" \in opened THEN tickets_data ELSE EmptyTable]
          /\ tickets_counter' = [tickets_counter EXCEPT ![p] =
                 IF "tickets_free" \in opened THEN tickets_free ELSE 0]
          /\ forgotten' = (forgotten \/ opened # FileNames)
    /\ UNCHANGED <<job, disk, handed, repeated, discounted, sent, stale, diverged, behind>>

-----------------------------------------------------------------------------
Pay(p) ==
    \/ PaymentFails(p)
    \/ PaymentSucceeds(p)
    \/ TakeNumber(p)

Purchase(p) == Pay(p) \/ IssueTicket(p)

Serve(p) ==
    \/ \E u \in Users, m \in Movies : BuyRequest(p, u, m)
    \/ \E n \in TicketNo :
          \/ StartDownloadNoFork(p, n)
          \/ \E child \in Process : StartDownload(p, n, child)
    \/ SendMovieReturns(p)

Fail(p) ==
    \/ Crash(p)
    \/ CrashSavingCounter(p)
    \/ CrashSavingTickets(p)

Next == \E p \in Process : Purchase(p) \/ Serve(p) \/ Fail(p) \/ Restart(p)

Spec == Init /\ [][Next]_vars

(* Only a purchase under way must go on, as long as its waits have a       *)
(* timeout: the search for the level of the buyer, before the ticket is    *)
(* issued, has none.                                                       *)
FairSpec == Spec /\ \A p \in Process : WF_vars(Pay(p))
-----------------------------------------------------------------------------
(***************************************************************************)
(* Properties                                                              *)
(***************************************************************************)

(* The type invariant.                                                     *)
TypeOK ==
    /\ pc \in [Process -> {"down", "loop", "paying", "paid", "numbered", "sending"}]
    /\ tickets_generated \in [Process -> Table]
    /\ tickets_counter \in [Process -> 0 .. MaxTickets]
    /\ job \in [Process -> Jobs \cup {NoJob}]
    /\ \A p \in Process :
          /\ pc[p] \in {"paying", "paid", "numbered"} => job[p] \in Jobs
          /\ pc[p] \in {"paying", "paid"} => tickets_counter[p] < MaxTickets
          /\ pc[p] = "numbered" => job[p].ticket \in TicketNo
    /\ tickets_data \in Table
    /\ tickets_free \in 0 .. MaxTickets
    /\ handed \in Book
    /\ repeated \in BOOLEAN
    /\ discounted \in [TicketNo -> 0 .. MaxServed]
    /\ sent \in [TicketNo -> Nat]
    /\ stale \in [Process -> BOOLEAN]
    /\ diverged \in BOOLEAN
    /\ behind \subseteq FileNames
    /\ forgotten \in BOOLEAN

(* The properties of the sales hold as long as only processes whose tables *)
(* were current sold and discounted, and the last of them did not die      *)
(* before a save that had failed was made good by the next one.  Both      *)
(* provisos are needed: see section 2 of the README.                       *)
Coherent == ~diverged /\ ~forgotten

(* No number is announced to two buyers, not even across a crash between   *)
(* the charge and the ticket, or a restart (MakeTicket saves the counter   *)
(* before the ticket).                                                     *)
NumbersAreUnique == Coherent => ~repeated

(* A download starts at level downloads; the byte of a ticket of level 0   *)
(* wraps, which makes it a ticket of ByteValues downloads.                 *)
Quota(level) == IF level = 0 THEN ByteValues ELSE level

(* A table agrees with what was sold: an announced ticket is in it, bound  *)
(* to the movie bought, with exactly the downloads that were not           *)
(* discounted yet, and it is only missing once all were.                   *)
Keeps(table, n) ==
    handed[n] # NoTicket =>
        IF table[n] = NoTicket
        THEN discounted[n] = Quota(handed[n].level)
        ELSE /\ table[n].path = handed[n].path
             /\ Quota(table[n].n_downloads) + discounted[n] = Quota(handed[n].level)

(* What was sold is what the file says, unless its last save failed, and   *)
(* what an up-to-date process has in memory in any case: the next save     *)
(* that does not fail makes good for those that did.                       *)
SoldIsOnDisk ==
    Coherent =>
        \A n \in TicketNo :
            /\ "tickets_data" \in behind \/ Keeps(tickets_data, n)
            /\ \A p \in Process : UpToDate(p) => Keeps(tickets_generated[p], n)

(* Nobody is sent a movie more often than the ticket was sold for.         *)
SentWithinQuota ==
    Coherent => \A n \in TicketNo :
                    sent[n] > 0 => /\ handed[n] # NoTicket
                                   /\ sent[n] <= Quota(handed[n].level)

(* The behaviours in which one up-to-date process at a time sells and      *)
(* discounts, and nothing that could not be saved is forgotten.            *)
SpecOneWriter == Init /\ [][Next /\ Coherent']_vars

(* The tables that count: those of a process that is up to date, or the    *)
(* files when none is.                                                     *)
CurrentTickets ==
    IF \E p \in Process : UpToDate(p)
    THEN tickets_generated[CHOOSE p \in Process : UpToDate(p)]
    ELSE tickets_data

CurrentCounter ==
    IF \E p \in Process : UpToDate(p)
    THEN tickets_counter[CHOOSE p \in Process : UpToDate(p)]
    ELSE tickets_free

(* They, and what the buyers know, as a ticket book.                       *)
Usables(table) ==
    [n \in TicketNo |->
        IF table[n] = NoTicket THEN NoTicket
        ELSE [path |-> table[n].path, left |-> Quota(table[n].n_downloads)]]

SoldMovies ==
    [n \in TicketNo |-> IF handed[n] = NoTicket THEN NoTicket ELSE handed[n].path]

OnSale == INSTANCE TicketBook WITH
    Numbers   <- TicketNo,
    Downloads <- 1 .. ByteValues,
    book      <- Usables(CurrentTickets),
    next      <- CurrentCounter,
    sold      <- SoldMovies

(* In them the office is a ticket book: failing and cut saves, crashes     *)
(* between two saves, restarts from the files and the forks themselves     *)
(* cannot be told from the outside.                                        *)
ImplementsTicketBook == OnSale!Spec

(* A purchase that began is answered, or its process died, or stands for   *)
(* ever in the search of the directory for the level of the buyer          *)
(* (GetUserLevel: ldap_search_s waits without a timeout).                  *)
PurchaseIsAnswered ==
    \A p \in Process :
        pc[p] = "paying" ~> \/ pc[p] \in {"loop", "down"}
                            \/ [](pc[p] = "numbered")

(* What the documentation says and the code does not keep.                 *)

(* server.c:793: before a download permissions and download level are      *)
(* verified.                                                               *)
SentWithinLevel ==
    \A n \in TicketNo :
        handed[n] # NoTicket => sent[n] <= handed[n].level
=============================================================================
