------------------------------- MODULE Purchase -------------------------------
(***************************************************************************)
(* A purchase from end to end: the terminal that waits ten seconds, the    *)
(* movie server (UserBuyMovie and PayMovie in src/Server/server.c) with    *)
(* its cache of payment services, the UDP exchange with the lookup server  *)
(* (src/Lookup/lookup.c) and the payment services (src/Payment/payment.c)  *)
(* with their accounts in memory and on disk.                              *)
(*                                                                         *)
(* Every wait has a timeout: three tries of three seconds for the lookup,  *)
(* ten seconds for the payment, ten for the terminal.  No timeout is told  *)
(* to the other side, so an order may be executed, or a ticket made, for   *)
(* somebody who has given up.                                              *)
(*                                                                         *)
(* A datagram may be lost or late.  The movie server binds the same port   *)
(* for each lookup and does not compare the name in an answer with the one *)
(* it asked for: a late answer is taken for the answer of the next lookup. *)
(*                                                                         *)
(* MakeTicket is one step here and two in module Tickets.  A payment       *)
(* service saves its accounts or cannot open the file, and answers in      *)
(* either case; a file that is cut, or cannot be read at the start, is in  *)
(* module PaymentService.  Each movie server is a process, as in Tickets;  *)
(* each has a cache of its own, and all share the lookup port.             *)
(***************************************************************************)
EXTENDS Integers

CONSTANTS
    Process,      \* slots for movie servers
    Purchases,    \* "buy" commands, each typed once
    Services,     \* payment services that exist and that the lookup server knows
    Names,        \* names of payment services that may be typed
    Accounts,
    Asked,        \* Asked[r]: the service that purchase r names
    Account,      \* Account[r]: the account that it names
    Price,        \* Price[r]: of the movie, in hundredths
    Unit,         \* hundredths in one: 100
    Misspelt,     \* purchases with a password or an account name of the wrong form
    Holders,      \* <<s, a>>: account a exists in service s
    Opening,      \* Opening[s][a]: the money in it at first
    Tries,        \* queries sent to the lookup server: 3
    None

ASSUME ConstantsAssumption ==
    /\ Services \subseteq Names
    /\ Asked \in [Purchases -> Names]
    /\ Account \in [Purchases -> Accounts]
    /\ Price \in [Purchases -> Nat]
    /\ Unit \in Nat \ {0}
    /\ Misspelt \subseteq Purchases
    /\ Holders \subseteq Services \X Accounts
    /\ Opening \in [Services -> [Accounts -> Nat]]
    /\ Tries \in Nat \ {0}
    /\ None \notin Purchases \cup Services

VARIABLES
    buyer,            \* purchase -> "idle", "waiting" or what it ended with
    requests,         \* purchases whose connection was not served yet
    pc,               \* what each movie server is doing
    job,              \* ... for which purchase
    intentos,         \* ... how often it has asked the lookup server
    location,         \* ... the service it was sent to
    payment_buffer,   \* ... services in its cache
    queries, answers, \* datagrams on their way to and from the lookup server
    up,               \* payment services that run
    order,            \* payment order of a purchase, then the answer to it
    payee,            \* ... the service that it was sent to
    psDatabase,       \* service -> account -> money, in memory
    PAYMENT_DB,       \* the same on disk
    tickets,          \* purchases that MakeTicket made a ticket for
    (* History, read by no guard of the code: *)
    unsaved,          \* service -> debits that only its memory has
    charged,          \* purchase -> services whose file says it was paid
    unsure            \* purchases whose payment the movie server gave up

shop    == <<pc, job, intentos, location, payment_buffer>>
network == <<queries, answers>>
payment == <<up, order, payee, psDatabase, PAYMENT_DB, unsaved, charged>>
vars    == <<buyer, requests, shop, network, payment, tickets, unsure>>

Datagram == [purchase : Purchases, try : 1 .. Tries]

Bank == [Services -> [Accounts -> Int]]

(* PayMovie takes the price as an int.                                     *)
Amount == [r \in Purchases |-> (Price[r] \div Unit) * Unit]

(* ParsePSRequest accepts the order of r.                                  *)
WellFormed(r) == r \notin Misspelt /\ Amount[r] > 0

Serving(p) == pc[p] \notin {"loop", "down"}

Init ==
    /\ buyer = [r \in Purchases |-> "idle"]
    /\ requests = {}
    /\ pc = [p \in Process |-> "loop"]
    /\ job = [p \in Process |-> None]
    /\ intentos = [p \in Process |-> 0]
    /\ location = [p \in Process |-> None]
    /\ payment_buffer = [p \in Process |-> {}]
    /\ queries = {} /\ answers = {}
    /\ up = Services
    /\ order = [r \in Purchases |-> "unsent"]
    /\ payee = [r \in Purchases |-> None]
    /\ psDatabase = Opening /\ PAYMENT_DB = Opening
    /\ tickets = {}
    /\ unsaved = [s \in Services |-> {}]
    /\ charged = [r \in Purchases |-> {}]
    /\ unsure = {}

-----------------------------------------------------------------------------
(***************************************************************************)
(* The terminal                                                            *)
(***************************************************************************)

Buy(r) ==
    /\ buyer[r] = "idle"
    /\ \E p \in Process : pc[p] # "down"
    /\ buyer' = [buyer EXCEPT ![r] = "waiting"]
    /\ requests' = requests \cup {r}
    /\ UNCHANGED <<shop, network, payment, tickets, unsure>>

(* The connection is refused, or nothing came in ten seconds: the terminal *)
(* prints an error, which changes nothing at the server.                   *)
GivesUp(r) ==
    /\ \/ buyer[r] = "waiting"
       \/ buyer[r] = "idle" /\ \A p \in Process : pc[p] = "down"
    /\ buyer' = [buyer EXCEPT ![r] = "no_answer"]
    /\ UNCHANGED <<requests, shop, network, payment, tickets, unsure>>

(***************************************************************************)
(* The movie server                                                        *)
(***************************************************************************)

(* What reaches a buyer who still waits.                                   *)
Told(r, code) ==
    buyer' = IF buyer[r] = "waiting" THEN [buyer EXCEPT ![r] = code] ELSE buyer

(* UserBuyMovie answers, and the server is back in its loop.               *)
Answer(p, code) ==
    /\ Told(job[p], code)
    /\ pc' = [pc EXCEPT ![p] = "loop"]
    /\ job' = [job EXCEPT ![p] = None]
    /\ intentos' = [intentos EXCEPT ![p] = 0]
    /\ location' = [location EXCEPT ![p] = None]

(* No session, or no such movie.                                           *)
Deny(p, r) ==
    /\ pc[p] = "loop"
    /\ r \in requests
    /\ requests' = requests \ {r}
    /\ Told(r, "denied")
    /\ UNCHANGED <<shop, network, payment, tickets, unsure>>

(* PayMovie with a location in the cache that is fresh.                    *)
UseCache(p, r) ==
    /\ pc[p] = "loop"
    /\ r \in requests
    /\ Asked[r] \in payment_buffer[p]
    /\ requests' = requests \ {r}
    /\ pc' = [pc EXCEPT ![p] = "located"]
    /\ job' = [job EXCEPT ![p] = r]
    /\ location' = [location EXCEPT ![p] = Asked[r]]
    /\ UNCHANGED <<buyer, intentos, payment_buffer, network, payment, tickets, unsure>>

PortTaken == \E q \in Process : pc[q] = "asking"

(* ... with none, or one that is out of date and is dropped.  Whether it   *)
(* is depends on the clock and on the key field, which is read as the time *)
(* to live.                                                                *)
AskLookup(p, r) ==
    /\ pc[p] = "loop"
    /\ r \in requests
    /\ requests' = requests \ {r}
    /\ payment_buffer' = [payment_buffer EXCEPT ![p] = @ \ {Asked[r]}]
    /\ ~PortTaken
    /\ pc' = [pc EXCEPT ![p] = "asking"]
    /\ job' = [job EXCEPT ![p] = r]
    /\ intentos' = [intentos EXCEPT ![p] = 1]
    /\ queries' = queries \cup {[purchase |-> r, try |-> 1]}
    /\ UNCHANGED <<buyer, location, answers, payment, tickets, unsure>>

(* Another movie server holds the port: sends and receives fail at once.   *)
CannotAsk(p, r) ==
    /\ pc[p] = "loop"
    /\ r \in requests
    /\ requests' = requests \ {r}
    /\ payment_buffer' = [payment_buffer EXCEPT ![p] = @ \ {Asked[r]}]
    /\ PortTaken
    /\ Told(r, "error")
    /\ UNCHANGED <<pc, job, intentos, location, network, payment, tickets, unsure>>

(* Mutant of AskAgain: the tries are not counted.                          *)
AskAgainUncounted(p) ==
    /\ pc[p] = "asking"
    /\ intentos[p] < Tries
    /\ queries' = queries \cup {[purchase |-> job[p], try |-> intentos[p] + 1]}
    /\ UNCHANGED <<buyer, requests, shop, answers, payment, tickets, unsure>>

(* Three seconds without an answer.                                        *)
AskAgain(p) ==
    /\ pc[p] = "asking"
    /\ intentos[p] < Tries
    /\ intentos' = [intentos EXCEPT ![p] = @ + 1]
    /\ queries' = queries \cup {[purchase |-> job[p], try |-> intentos[p] + 1]}
    /\ UNCHANGED <<buyer, requests, pc, job, location, payment_buffer, answers, payment, tickets, unsure>>

(* ... for the last time: CONNECTION ERROR.                                *)
LookupTimesOut(p) ==
    /\ pc[p] = "asking"
    /\ intentos[p] = Tries
    /\ Answer(p, "error")
    /\ UNCHANGED <<requests, payment_buffer, network, payment, tickets, unsure>>

(* Mutant of ReceiveLocation: NOT_EXISTS is not looked for.                *)
ReceiveLocationUnchecked(p, d) ==
    /\ pc[p] = "asking"
    /\ d \in answers
    /\ answers' = answers \ {d}
    /\ location' = [location EXCEPT ![p] = Asked[d.purchase]]
    /\ payment_buffer' = [payment_buffer EXCEPT ![p] = @ \cup {Asked[d.purchase]}]
    /\ pc' = [pc EXCEPT ![p] = "located"]
    /\ intentos' = [intentos EXCEPT ![p] = 0]
    /\ UNCHANGED <<buyer, job, requests, queries, payment, tickets, unsure>>

(* Whatever arrives at the port is the answer.                             *)
ReceiveLocation(p, d) ==
    LET name == Asked[d.purchase] IN
    /\ pc[p] = "asking"
    /\ d \in answers
    /\ answers' = answers \ {d}
    /\ IF name \in Services
       THEN /\ location' = [location EXCEPT ![p] = name]
            /\ payment_buffer' = [payment_buffer EXCEPT ![p] = @ \cup {name}]
            /\ pc' = [pc EXCEPT ![p] = "located"]
            /\ intentos' = [intentos EXCEPT ![p] = 0]
            /\ UNCHANGED <<buyer, job>>
       ELSE /\ Answer(p, "server_error")
            /\ UNCHANGED payment_buffer
    /\ UNCHANGED <<requests, queries, payment, tickets, unsure>>

(* connectTCP fails, or the connection breaks while the order is sent.     *)
CannotPay(p) ==
    /\ pc[p] = "located"
    /\ Answer(p, "error")
    /\ UNCHANGED <<requests, payment_buffer, network, payment, tickets, unsure>>

(* Mutant of SendOrder: exitPipe is still set from an earlier request.     *)
SendOrderFlagSet(p) ==
    LET r == job[p] IN
    /\ pc[p] = "located"
    /\ location[p] \in up
    /\ Answer(p, "error")
    /\ order' = [order EXCEPT ![r] = "sent"]
    /\ payee' = [payee EXCEPT ![r] = location[p]]
    /\ UNCHANGED <<requests, payment_buffer, network, up, psDatabase, PAYMENT_DB,
                   unsaved, charged, tickets, unsure>>

SendOrder(p) ==
    LET r == job[p] IN
    /\ pc[p] = "located"
    /\ location[p] \in up
    /\ pc' = [pc EXCEPT ![p] = "paying"]
    /\ order' = [order EXCEPT ![r] = "sent"]
    /\ payee' = [payee EXCEPT ![r] = location[p]]
    /\ UNCHANGED <<buyer, requests, job, intentos, location, payment_buffer, network,
                   up, psDatabase, PAYMENT_DB, unsaved, charged, tickets, unsure>>

(* Mutant of PaymentSucceeds: the status code is not looked at.            *)
PaymentSucceedsAnyCode(p) ==
    /\ pc[p] = "paying"
    /\ order[job[p]] \in {"success", "no_cash", "user_error", "bad_request"}
    /\ pc' = [pc EXCEPT ![p] = "paid"]
    /\ UNCHANGED <<buyer, requests, job, intentos, location, payment_buffer, network,
                   payment, tickets, unsure>>

(* PAY_OK.                                                                 *)
PaymentSucceeds(p) ==
    /\ pc[p] = "paying"
    /\ order[job[p]] = "success"
    /\ pc' = [pc EXCEPT ![p] = "paid"]
    /\ UNCHANGED <<buyer, requests, job, intentos, location, payment_buffer, network,
                   payment, tickets, unsure>>

(* The status code of the payment service, as the buyer is told it.        *)
PaymentRefused(p) ==
    /\ pc[p] = "paying"
    /\ order[job[p]] \in {"no_cash", "user_error", "bad_request"}
    /\ Answer(p, IF order[job[p]] = "bad_request" THEN "error" ELSE order[job[p]])
    /\ UNCHANGED <<requests, payment_buffer, network, payment, tickets, unsure>>

(* Ten seconds without an answer, or the payment service died: PAY_ERROR.  *)
PaymentTimesOut(p) ==
    /\ pc[p] = "paying"
    /\ Answer(p, "error")
    /\ unsure' = unsure \cup {job[p]}
    /\ UNCHANGED <<requests, payment_buffer, network, payment, tickets>>

IssueTicket(p) ==
    /\ pc[p] = "paid"
    /\ tickets' = tickets \cup {job[p]}
    /\ Answer(p, "ok")
    /\ UNCHANGED <<requests, payment_buffer, network, payment, unsure>>

(* A movie server dies with its cache and the connections it accepted.     *)
Crash(p) ==
    /\ pc[p] # "down"
    /\ pc' = [pc EXCEPT ![p] = "down"]
    /\ job' = [job EXCEPT ![p] = None]
    /\ intentos' = [intentos EXCEPT ![p] = 0]
    /\ location' = [location EXCEPT ![p] = None]
    /\ payment_buffer' = [payment_buffer EXCEPT ![p] = {}]
    /\ unsure' = IF pc[p] \in {"paying", "paid"} THEN unsure \cup {job[p]} ELSE unsure
    /\ \E left \in SUBSET requests :
          /\ (\A q \in Process : pc'[q] = "down") => left = {}
          /\ requests' = left
    /\ UNCHANGED <<buyer, network, payment, tickets>>

Restart(p) ==
    /\ \A q \in Process : pc[q] = "down"
    /\ pc' = [pc EXCEPT ![p] = "loop"]
    /\ UNCHANGED <<buyer, requests, job, intentos, location, payment_buffer, network,
                   payment, tickets, unsure>>

(***************************************************************************)
(* The lookup server and the datagrams                                     *)
(***************************************************************************)

(* The answer to d carries the name that d asked for, or NOT_EXISTS.       *)
LookupAnswers(d) ==
    /\ d \in queries
    /\ queries' = queries \ {d}
    /\ answers' = answers \cup {d}
    /\ UNCHANGED <<buyer, requests, shop, payment, tickets, unsure>>

Lose(d) ==
    /\ d \in queries \cup answers
    /\ queries' = queries \ {d}
    /\ answers' = answers \ {d}
    /\ UNCHANGED <<buyer, requests, shop, payment, tickets, unsure>>

(***************************************************************************)
(* The payment services                                                    *)
(***************************************************************************)

(* An order that s has not looked at, when s is not in the middle of one.  *)
Takes(s, r) ==
    /\ s \in up
    /\ order[r] = "sent" /\ payee[r] = s
    /\ \A q \in Purchases : ~(order[q] = "debited" /\ payee[q] = s)

Exists(s, r) == <<s, Account[r]>> \in Holders

(* amount - price < EPSILON refuses an exact balance as well.              *)
Enough(s, r) == psDatabase[s][Account[r]] > Amount[r]

Refuse(s, r) ==
    /\ Takes(s, r)
    /\ \E code \in {"bad_request", "user_error", "no_cash"} :
          /\ CASE code = "bad_request" -> ~WellFormed(r)
               [] code = "user_error"  -> WellFormed(r) /\ ~Exists(s, r)
               [] code = "no_cash"     -> WellFormed(r) /\ Exists(s, r) /\ ~Enough(s, r)
          /\ order' = [order EXCEPT ![r] = code]
    /\ UNCHANGED <<buyer, requests, shop, network, up, payee, psDatabase, PAYMENT_DB,
                   unsaved, charged, tickets, unsure>>

Debit(s, r) ==
    /\ Takes(s, r)
    /\ WellFormed(r) /\ Exists(s, r) /\ Enough(s, r)
    /\ psDatabase' = [psDatabase EXCEPT ![s][Account[r]] = @ - Amount[r]]
    /\ order' = [order EXCEPT ![r] = "debited"]
    /\ unsaved' = [unsaved EXCEPT ![s] = @ \cup {r}]
    /\ UNCHANGED <<buyer, requests, shop, network, up, payee, PAYMENT_DB, charged, tickets, unsure>>

(* SaveHashTable writes all accounts, with the debits of earlier orders    *)
(* whose save failed.                                                      *)
Save(s) ==
    /\ PAYMENT_DB' = [PAYMENT_DB EXCEPT ![s] = psDatabase[s]]
    /\ charged' = [q \in Purchases |->
                      IF q \in unsaved[s] THEN charged[q] \cup {s} ELSE charged[q]]
    /\ unsaved' = [unsaved EXCEPT ![s] = {}]

(* The accounts are saved, or the file does not open, and the answer is    *)
(* sent: what SaveHashTable returns is not looked at.                      *)
SaveAndAnswer(s, r) ==
    /\ s \in up
    /\ order[r] = "debited" /\ payee[r] = s
    /\ Save(s) \/ UNCHANGED <<PAYMENT_DB, charged, unsaved>>
    /\ order' = [order EXCEPT ![r] = "success"]
    /\ UNCHANGED <<buyer, requests, shop, network, up, payee, psDatabase, tickets, unsure>>

(* Orders that were not answered are gone with their connections, and what *)
(* was not saved with the memory.                                          *)
ServiceCrashes(s) ==
    /\ s \in up
    /\ up' = up \ {s}
    /\ unsaved' = [unsaved EXCEPT ![s] = {}]
    /\ order' = [r \in Purchases |->
                    IF payee[r] = s /\ order[r] \in {"sent", "debited"} THEN "broken"
                    ELSE order[r]]
    /\ UNCHANGED <<buyer, requests, shop, network, payee, psDatabase, PAYMENT_DB,
                   charged, tickets, unsure>>

ServiceRestarts(s) ==
    /\ s \in Services \ up
    /\ up' = up \cup {s}
    /\ psDatabase' = [psDatabase EXCEPT ![s] = PAYMENT_DB[s]]
    /\ UNCHANGED <<buyer, requests, shop, network, order, payee, PAYMENT_DB, unsaved,
                   charged, tickets, unsure>>

-----------------------------------------------------------------------------
(* PayMovie of a movie server: every wait in it has a timeout.             *)
PayMovie(p) ==
    \/ AskAgain(p)
    \/ LookupTimesOut(p)
    \/ \E d \in Datagram : ReceiveLocation(p, d)
    \/ CannotPay(p)
    \/ SendOrder(p)
    \/ PaymentSucceeds(p)
    \/ PaymentRefused(p)
    \/ PaymentTimesOut(p)

GoOn(p) == PayMovie(p) \/ IssueTicket(p)

Accept(p, r) == Deny(p, r) \/ UseCache(p, r) \/ AskLookup(p, r) \/ CannotAsk(p, r)

Next ==
    \/ \E r \in Purchases : Buy(r) \/ GivesUp(r)
    \/ \E p \in Process :
          \/ \E r \in Purchases : Accept(p, r)
          \/ GoOn(p)
          \/ Crash(p)
          \/ Restart(p)
    \/ \E d \in Datagram : LookupAnswers(d) \/ Lose(d)
    \/ \E s \in Services :
          \/ \E r \in Purchases : Refuse(s, r) \/ Debit(s, r) \/ SaveAndAnswer(s, r)
          \/ ServiceCrashes(s)
          \/ ServiceRestarts(s)

Spec == Init /\ [][Next]_vars

(* A purchase that was begun goes on while its waits have a timeout: the   *)
(* search for the level of the buyer, before the ticket is issued, has     *)
(* none.                                                                   *)
FairSpec == Spec /\ \A p \in Process : WF_vars(PayMovie(p))
-----------------------------------------------------------------------------
(***************************************************************************)
(* Properties                                                              *)
(***************************************************************************)

(* The type invariant.                                                     *)
TypeOK ==
    /\ buyer \in [Purchases -> {"idle", "waiting", "no_answer", "denied", "error",
                                "server_error", "user_error", "no_cash", "ok"}]
    /\ requests \subseteq Purchases
    /\ pc \in [Process -> {"down", "loop", "asking", "located", "paying", "paid"}]
    /\ job \in [Process -> Purchases \cup {None}]
    /\ intentos \in [Process -> 0 .. Tries]
    /\ location \in [Process -> Services \cup {None}]
    /\ \A p \in Process :
          /\ Serving(p) <=> job[p] \in Purchases
          /\ pc[p] \in {"located", "paying", "paid"} <=> location[p] \in Services
          /\ pc[p] = "asking" <=> intentos[p] # 0
    /\ payment_buffer \in [Process -> SUBSET Services]
    /\ queries \subseteq Datagram /\ answers \subseteq Datagram
    /\ up \subseteq Services
    /\ order \in [Purchases -> {"unsent", "sent", "debited", "success", "bad_request",
                                "user_error", "no_cash", "broken"}]
    /\ payee \in [Purchases -> Services \cup {None}]
    /\ psDatabase \in Bank /\ PAYMENT_DB \in Bank
    /\ tickets \subseteq Purchases
    /\ unsaved \in [Services -> SUBSET Purchases]
    /\ charged \in [Purchases -> SUBSET Services]
    /\ unsure \subseteq Purchases

Paid == {r \in Purchases : charged[r] # {}}

(* Buyers who were told that they get no ticket, by a server that was not  *)
(* left in doubt about the payment.                                        *)
Refused ==
    {r \in Purchases :
        \/ buyer[r] \in {"denied", "server_error", "user_error", "no_cash"}
        \/ buyer[r] = "error" /\ r \notin unsure}

Shop == INSTANCE MovieSale WITH
    balance <- PAYMENT_DB, paid <- Paid, delivered <- tickets, refused <- Refused

(* Each order that was answered with a success is on file: no payment      *)
(* service failed to save its accounts, or its next order repaired that    *)
(* before it died.  It is needed: see section 2 of the README.             *)
AnsweredIsSaved == \A r \in Purchases : order[r] = "success" => charged[r] # {}

(* Whatever is lost, late or crashes, as long as the payment services      *)
(* saved what they answered: the accounts on disk change by the price of   *)
(* a purchase, once, each ticket was paid for before, and who was refused  *)
(* is not charged, then or later.                                          *)
ImplementsMovieSale ==
    Shop!Init /\ [][AnsweredIsSaved => Shop!Next]_(Shop!vars)

(* Money without a ticket: only when the movie server stopped waiting for  *)
(* the payment service or crashed after it sent the order.                 *)
MoneyIsNotLost ==
    \A r \in Paid \ unsure :
        \/ r \in tickets
        \/ \E p \in Process : pc[p] \in {"paying", "paid"} /\ job[p] = r

(* A purchase ends: the server comes back to its loop, however many        *)
(* datagrams are lost and whatever the payment services do; or it stands   *)
(* for ever in the search of the directory for the level of the buyer,     *)
(* with the order paid.                                                    *)
PurchaseEnds ==
    \A p \in Process : Serving(p) ~> ~Serving(p) \/ [](pc[p] = "paid")

(* What the documentation says and the code does not keep.                 *)

(* client.1:101: the buyer says which payment service is to be used.       *)
ChargedWhereAsked == \A r \in Purchases : charged[r] \subseteq {Asked[r]}
=============================================================================
