--------------------------- MODULE PaymentService ---------------------------
(* A payment service (src/Payment) and the way an order takes to it and    *)
(* back: PayMovie of the movie server writes a request of six lines        *)
(* (paymentServerLib.c); Session of payment.c parses it, looks the account *)
(* up, debits it in memory, saves all accounts to a file and then replies  *)
(* with two lines.                                                         *)
(*                                                                         *)
(* The file is truncated before it is written.  The service may die at any *)
(* moment, the disk may be full and the file may not open; the movie       *)
(* server may die or stop waiting, so that a text may arrive cut.          *)
(*                                                                         *)
(* In Purchase a service saves in one step and what it is sent is whole.   *)
(* Amounts are in hundredths: what "%0.2f" keeps of a float is exact for   *)
(* the balances and the whole prices that the assumption allows.           *)
EXTENDS Integers, Sequences, FiniteSetsExt, SequencesExt

CONSTANTS
  Orders,         \* orders of movie servers, each over its own connection
  Order,          \* what the buyer, the catalogue and the lookup server say
  Accounts,       \* names of accounts
  Malformed,      \* a line of the file with less than four fields
  Files,          \* what payment.csv may be when the service is installed
  Unit,           \* hundredths in one: 100
  None

(* Of a text matter how long it is and which characters are in it.         *)
Word == [length : Nat, made_of : {"digits", "alphanumeric", "other"}]

(* A line holds a name, two fields that nobody reads, and the balance.     *)
Account == [accountName : Accounts, amount : Nat]

ASSUME PaymentAssumption ==
  /\ \A o \in Orders :
       /\ Order[o].service \in Word /\ Order[o].number \in Word
       /\ Order[o].account \in Accounts /\ Order[o].nameLength \in Nat
       /\ Order[o].key \in Int
       /\ Order[o].price \in Nat
  /\ Files \subseteq [header : BOOLEAN, lines : Seq(Account \cup {Malformed})]
  /\ Malformed \notin Account
  /\ Unit \in Nat \ {0}
  /\ None \notin Orders \cup Account \cup 0..3
                \cup {"OK", "ERROR", "USER_ERROR", "NO_CASH", "gone"}

VARIABLES
  file,           \* PAYMENT_DB
  pc,             \* where the service is, "down" when it does not run
  job,            \* ... and for which order
  psDatabase,     \* its table: account -> balance
  stage,          \* of each connection
  request, reply, \* the texts on it
  told,           \* what UserBuyMovie makes of it
  (* History, read by no guard of the code: *)
  provided,       \* the file at first
  taken,          \* what was taken for each order
  charged, saved, \* orders whose debit the table has, and the file
  torn, lost,     \* something is missing in the file, in the table
  flawed,         \* orders served with a lossy table, or not saved
  unsure          \* orders that a movie server stopped waiting for

service == <<file, pc, job, psDatabase>>
books   == <<provided, taken, charged, saved, torn, lost, flawed>>
vars    == <<service, stage, request, reply, told, books, unsure>>

-----------------------------------------------------------------------------
(***************************************************************************)
(* The texts                                                               *)
(***************************************************************************)

Titles == <<"CHARGE PaymentService/1.0", "ClientServer:", "AccountName:",
            "AccountNumber:", "SecurityCode:", "Amount:">>

(* PayMovie takes the price as an int.                                     *)
Charged(price) == (price \div Unit) * Unit

(* PayMovie and MakePSRequest: one field to a line, the amount with two    *)
(* decimals.                                                               *)
MakePSRequest(o) ==
  LET order == Order[o]
      fields == <<None, order.service,
                  [name |-> order.account, length |-> order.nameLength],
                  order.number, order.key,
                  [value |-> Charged(order.price), decimals |-> 2]>>
  IN [i \in 1..6 |-> [title |-> Titles[i], field |-> fields[i]]]

(* What is read of an amount whose last characters are missing: the last   *)
(* decimal, or all but some digits of the whole units, of which there are  *)
(* at most ten.                                                            *)
CutAmounts(amount) ==
  {amount, (amount \div 10) * 10}
    \cup {k * Unit : k \in {(amount \div Unit) \div 10 ^ n : n \in 0..9} \ {0}}

(* What a movie server that dies while it sends leaves on the connection:  *)
(* lines may be missing, or digits of the amount, the decimals first.  (Of *)
(* a text that lacks lines it does not matter where the last one ends.)    *)
CutRequests(text) ==
  {SubSeq(text, 1, k) : k \in 0..6}
    \cup {[text EXCEPT ![6].field = [value |-> v, decimals |-> d]]
            : v \in CutAmounts(text[6].field.value), d \in {0, 1}}

(* Mutant of ValidateRequest: the decimals of the amount are not counted.  *)
ValidateRequestAnyDecimals(field, lineNumber) ==
  CASE lineNumber = 1 -> TRUE
    [] lineNumber = 2 -> field.length \in 1..20 /\ field.made_of # "other"
    [] lineNumber = 3 -> field.length \in 1..63
    [] lineNumber = 4 -> field.length > 0 => field.made_of = "digits"
    [] lineNumber = 5 -> field > 0
    [] lineNumber = 6 -> field.value > 0

ValidateRequest(field, lineNumber) ==
  CASE lineNumber = 1 -> TRUE
    [] lineNumber = 2 -> field.length \in 1..20 /\ field.made_of # "other"
    [] lineNumber = 3 -> field.length \in 1..63
    [] lineNumber = 4 -> field.length > 0 => field.made_of = "digits"
    [] lineNumber = 5 -> field > 0
    [] lineNumber = 6 -> field.value > 0 /\ field.decimals = 2

(* Lines are read in this order, and what follows them is not read.        *)
ParsePSRequest(text) ==
  IF /\ Len(text) >= 6
     /\ \A i \in 1..6 : /\ text[i].title = Titles[i]
                        /\ ValidateRequest(text[i].field, i)
  THEN [accountName |-> text[3].field.name, amount |-> text[6].field.value]
  ELSE None

MakePSReply(statusCode) ==
  <<[title |-> "PaymentService/1.0 ", field |-> statusCode],
    IF statusCode = 0 THEN [title |-> "Transaction:", field |-> "number"]
    ELSE [title |-> "Reason:", field |-> "text"]>>

(* Of a number that is cut off, atoi makes 0; the number of a transaction  *)
(* is not looked at.                                                       *)
CutReplies(text) ==
  {SubSeq(text, 1, k) : k \in 0..2}
    \cup {<<[text[1] EXCEPT !.field = 0]>>}
    \cup {[text EXCEPT ![2].field = ""]}

ParsePSReply(text) ==
  IF /\ Len(text) >= 2
     /\ text[1].title = "PaymentService/1.0 " /\ text[1].field \in 0..3
     /\ IF text[1].field = 0 THEN text[2].title = "Transaction:"
        ELSE text[2].title = "Reason:" /\ text[2].field # ""
  THEN text[1].field
  ELSE None

(* What PayMovie returns, as UserBuyMovie tells it to the terminal.        *)
Result(status) ==
  CASE status = 0 -> "OK"
    [] status = 2 -> "USER_ERROR"
    [] status = 3 -> "NO_CASH"
    [] status \in {1, None} -> "ERROR"

-----------------------------------------------------------------------------
(***************************************************************************)
(* The table and the file                                                  *)
(***************************************************************************)

NoAccounts == [n \in {} |-> 0]

(* hload reads up to the first malformed line, and HInsert refuses a name  *)
(* that is already there.  Without the right header nothing is read.       *)
LoadHashTable(f) ==
  LET read == {i \in DOMAIN f.lines : Malformed \notin {f.lines[j] : j \in 1..i}}
      names == {f.lines[i].accountName : i \in read}
      First(n) == Min({i \in read : f.lines[i].accountName = n})
  IN IF f.header THEN [n \in names |-> f.lines[First(n)].amount] ELSE NoAccounts

(* Mutant of SaveHashTable: the header is left out.                        *)
SaveHashTableBare(table) ==
  [header |-> FALSE,
   lines  |-> SetToSeq({[accountName |-> n, amount |-> table[n]] : n \in DOMAIN table})]

SaveHashTable(table) ==
  [header |-> TRUE,
   lines  |-> SetToSeq({[accountName |-> n, amount |-> table[n]] : n \in DOMAIN table})]

Truncated == [header |-> FALSE, lines |-> <<>>]

(* What is on disk when not all of the table was written: in which order   *)
(* the slots are saved is left open.                                       *)
PartlySaved(table) ==
  {Truncated} \cup
  UNION {LET part == SaveHashTable(Restrict(table, S)) IN
         {part} \cup {[part EXCEPT !.lines = Append(@, line)]
                        : line \in UNION {{[accountName |-> n, amount |-> a]
                                             : a \in CutAmounts(table[n])}
                                           : n \in DOMAIN table \ S}}
         : S \in SUBSET DOMAIN table}

HDelete(table, name) == Restrict(table, DOMAIN table \ {name})

HInsert(table, name, amount) ==
  IF name \in DOMAIN table THEN table
  ELSE [n \in DOMAIN table \cup {name} |-> IF n = name THEN amount ELSE table[n]]

-----------------------------------------------------------------------------
(***************************************************************************)
(* The movie servers                                                       *)
(***************************************************************************)

Init ==
  /\ file \in Files
  /\ pc = "down" /\ job = None
  /\ psDatabase = NoAccounts
  /\ stage = [o \in Orders |-> "unsent"]
  /\ request = [o \in Orders |-> <<>>] /\ reply = [o \in Orders |-> <<>>]
  /\ told = [o \in Orders |-> None]
  /\ provided = file
  /\ taken = [o \in Orders |-> 0]
  /\ charged = {} /\ saved = {}
  /\ torn = FALSE /\ lost = FALSE /\ flawed = {}
  /\ unsure = {}

(* connectTCP or MakePSRequest fails.                                      *)
CannotPay(o) ==
  /\ stage[o] = "unsent" /\ told[o] = None
  /\ told' = [told EXCEPT ![o] = Result(None)]
  /\ UNCHANGED <<service, stage, request, reply, books, unsure>>

SendOrder(o) ==
  /\ stage[o] = "unsent" /\ told[o] = None
  /\ pc # "down"
  /\ stage' = [stage EXCEPT ![o] = "sent"]
  /\ request' = [request EXCEPT ![o] = MakePSRequest(o)]
  /\ UNCHANGED <<service, reply, told, books, unsure>>

(* The movie server dies before or after the last byte.                    *)
SendPart(o) ==
  /\ stage[o] = "unsent" /\ told[o] = None
  /\ pc # "down"
  /\ stage' = [stage EXCEPT ![o] = "sent"]
  /\ \E text \in CutRequests(MakePSRequest(o)) : request' = [request EXCEPT ![o] = text]
  /\ told' = [told EXCEPT ![o] = "gone"]
  /\ unsure' = unsure \cup {o}
  /\ UNCHANGED <<service, reply, books>>

(* Ten seconds have passed, or the connection was closed.                  *)
GivesUp(o) ==
  /\ stage[o] # "unsent" /\ told[o] = None
  /\ told' = [told EXCEPT ![o] = Result(None)]
  /\ unsure' = unsure \cup {o}
  /\ UNCHANGED <<service, stage, request, reply, books>>

Receive(o) ==
  /\ stage[o] = "answered" /\ told[o] = None
  /\ told' = [told EXCEPT ![o] = Result(ParsePSReply(reply[o]))]
  /\ UNCHANGED <<service, stage, request, reply, books, unsure>>

(* The rest of the reply does not come: what there is is parsed.           *)
ReceivePart(o) ==
  /\ stage[o] = "answered" /\ told[o] = None
  /\ \E text \in CutReplies(reply[o]) :
       /\ told' = [told EXCEPT ![o] = Result(ParsePSReply(text))]
       /\ unsure' = IF ParsePSReply(text) = None THEN unsure \cup {o} ELSE unsure
  /\ UNCHANGED <<service, stage, request, reply, books>>

-----------------------------------------------------------------------------
(***************************************************************************)
(* The payment service                                                     *)
(***************************************************************************)

(* InitPaymentServer.  A file that cannot be opened is an empty table, and *)
(* the service runs all the same.                                          *)
InitPaymentServer ==
  /\ pc = "down"
  /\ pc' = "loop"
  /\ \E opened \in BOOLEAN :
       /\ psDatabase' = IF opened THEN LoadHashTable(file) ELSE NoAccounts
       /\ lost' = (torn \/ ~opened)
  /\ charged' = saved
  /\ UNCHANGED <<file, job, stage, request, reply, told, provided, taken, saved,
                 torn, flawed, unsure>>

(* Mutant of StatusOf: an order may empty the account.                     *)
StatusOfEmptying(o) ==
  LET parsed == ParsePSRequest(request[o]) IN
  IF parsed = None THEN 1
  ELSE IF parsed.accountName \notin DOMAIN psDatabase THEN 2
  ELSE IF psDatabase[parsed.accountName] - parsed.amount < 0 THEN 3
  ELSE 0

(* The status with which Session answers: a malformed request, an unknown  *)
(* account, not enough money, or success.  amount - price < EPSILON also   *)
(* refuses an order for the whole balance.                                 *)
StatusOf(o) ==
  LET parsed == ParsePSRequest(request[o]) IN
  IF parsed = None THEN 1
  ELSE IF parsed.accountName \notin DOMAIN psDatabase THEN 2
  ELSE IF psDatabase[parsed.accountName] - parsed.amount <= 0 THEN 3
  ELSE 0

Refuse(o) ==
  /\ pc = "loop" /\ stage[o] = "sent"
  /\ StatusOf(o) # 0
  /\ reply' = [reply EXCEPT ![o] = MakePSReply(StatusOf(o))]
  /\ stage' = [stage EXCEPT ![o] = "answered"]
  /\ request' = [request EXCEPT ![o] = <<>>]
  /\ flawed' = IF lost THEN flawed \cup {o} ELSE flawed
  /\ UNCHANGED <<service, told, provided, taken, charged, saved, torn, lost, unsure>>

(* MakePSReply returns NULL: the connection is closed without a reply, and *)
(* nothing is taken.                                                       *)
NoMemory(o) ==
  /\ pc = "loop" /\ stage[o] = "sent"
  /\ stage' = [stage EXCEPT ![o] = "closed"]
  /\ request' = [request EXCEPT ![o] = <<>>]
  /\ UNCHANGED <<file, pc, job, psDatabase, reply, told, books, unsure>>

(* GetHElement gives a copy; the copy is debited and put in the place of   *)
(* the entry.                                                              *)
Charge(o) ==
  LET parsed == ParsePSRequest(request[o])
      name   == parsed.accountName
  IN
  /\ pc = "loop" /\ stage[o] = "sent"
  /\ StatusOf(o) = 0
  /\ reply' = [reply EXCEPT ![o] = MakePSReply(0)]
  /\ psDatabase' = HInsert(HDelete(psDatabase, name), name, psDatabase[name] - parsed.amount)
  /\ pc' = "charged" /\ job' = o
  /\ stage' = [stage EXCEPT ![o] = "read"]
  /\ taken' = [taken EXCEPT ![o] = @ + parsed.amount]
  /\ charged' = charged \cup {o}
  /\ flawed' = IF lost THEN flawed \cup {o} ELSE flawed
  /\ request' = [request EXCEPT ![o] = <<>>]
  /\ UNCHANGED <<file, told, provided, saved, torn, lost, unsure>>

(* fopen(path, "w+") empties the file.                                     *)
OpenFile ==
  /\ pc = "charged"
  /\ pc' = "truncated"
  /\ file' = Truncated
  /\ saved' = charged
  /\ torn' = TRUE
  /\ UNCHANGED <<job, psDatabase, stage, request, reply, told,
                 provided, taken, charged, lost, flawed, unsure>>

(* What SaveHashTable returns is not looked at.                            *)
OpenFails ==
  /\ pc = "charged"
  /\ pc' = "saved"
  /\ flawed' = flawed \cup {job}
  /\ UNCHANGED <<file, job, psDatabase, stage, request, reply, told,
                 provided, taken, charged, saved, torn, lost, unsure>>

WriteFile ==
  /\ pc = "truncated"
  /\ pc' = "saved"
  /\ file' = SaveHashTable(psDatabase)
  /\ torn' = lost
  /\ UNCHANGED <<job, psDatabase, stage, request, reply, told,
                 provided, taken, charged, saved, lost, flawed, unsure>>

(* The disk is full; neither fprintf nor fclose is looked at.              *)
WriteFails ==
  /\ pc = "truncated"
  /\ pc' = "saved"
  /\ file' \in PartlySaved(psDatabase)
  /\ UNCHANGED <<job, psDatabase, stage, request, reply, told, books, unsure>>

SendReply ==
  /\ pc = "saved"
  /\ pc' = "loop" /\ job' = None
  /\ stage' = [stage EXCEPT ![job] = "answered"]
  /\ UNCHANGED <<file, psDatabase, request, reply, told, books, unsure>>

(* A signal, or a request that did not arrive at all (strlen(NULL)).  What *)
(* was not answered is gone with its connection.                           *)
Crash ==
  /\ pc # "down"
  /\ pc' = "down" /\ job' = None
  /\ psDatabase' = NoAccounts
  /\ file' \in IF pc = "truncated" THEN PartlySaved(psDatabase) ELSE {file}
  /\ stage' = [o \in Orders |-> IF stage[o] \in {"sent", "read"} THEN "closed" ELSE stage[o]]
  /\ request' = [o \in Orders |-> <<>>]
  /\ UNCHANGED <<reply, told, books, unsure>>

Next ==
  \/ \E o \in Orders :
       \/ CannotPay(o) \/ SendOrder(o) \/ SendPart(o)
       \/ GivesUp(o) \/ Receive(o) \/ ReceivePart(o)
       \/ Refuse(o) \/ NoMemory(o) \/ Charge(o)
  \/ InitPaymentServer
  \/ OpenFile \/ OpenFails \/ WriteFile \/ WriteFails \/ SendReply
  \/ Crash

Spec == Init /\ [][Next]_vars

-----------------------------------------------------------------------------
(***************************************************************************)
(* Properties                                                              *)
(***************************************************************************)

opening == LoadHashTable(provided)

(* What the order o takes from its account.                                *)
Cost(o) == Order[o].price - (Order[o].price % Unit)

(* What an account should hold once the orders in S were paid from it.     *)
Balance(n, S) == opening[n] - MapThenSumSet(Cost, {o \in S : Order[o].account = n})

Holds(table, S) ==
  /\ DOMAIN table \subseteq DOMAIN opening
  /\ \A n \in DOMAIN table : 0 <= table[n] /\ table[n] <= Balance(n, S)

HoldsAll(table, S) ==
  /\ DOMAIN table = DOMAIN opening
  /\ \A n \in DOMAIN table : table[n] = Balance(n, S)

(* No account is lost and none changes but by the orders that were paid:   *)
(* the table of a running service has all debits, the file those up to the *)
(* last save that could be opened.  Whatever cuts a save in two, nobody    *)
(* gets money back by it, and a service that lives on repairs the file     *)
(* with the next save.  A file in which no account was found is never      *)
(* overwritten.                                                            *)
AccountsAreKept ==
  /\ pc # "down" => /\ Holds(psDatabase, charged)
                    /\ lost \/ HoldsAll(psDatabase, charged)
  /\ Holds(LoadHashTable(file), saved)
  /\ torn \/ HoldsAll(LoadHashTable(file), saved)
  /\ pc = "loop" => charged \ saved \subseteq flawed
  /\ DOMAIN opening = {} => file = provided

(* An order that a service can carry out.                                  *)
InOrder(o) ==
  /\ Order[o].service.length \in 1..20 /\ Order[o].service.made_of # "other"
  /\ Order[o].nameLength \in 1..63
  /\ Order[o].number.made_of = "digits"
  /\ Order[o].key > 0
  /\ Order[o].price >= Unit

(* Nobody is charged but once, the price without its cents, and for no     *)
(* other answer than OK.                                                   *)
ChargedIsTold(o) ==
  taken[o] > 0 => /\ taken[o] = Cost(o)
                  /\ told[o] \in {None, "OK"} \/ o \in unsure

(* OK: the money was taken, and that was saved.                            *)
OkIsPaid(o) == told[o] = "OK" => taken[o] > 0 /\ o \in saved \cup flawed

(* ERROR: the order was not in order, or the movie server cannot know.     *)
ErrorIsJustified(o) ==
  told[o] = "ERROR" => stage[o] = "unsent" \/ ~InOrder(o) \/ o \in unsure

(* USER_ERROR: there is no such account.                                   *)
UserErrorIsJustified(o) ==
  told[o] = "USER_ERROR" => Order[o].account \notin DOMAIN opening \/ o \in flawed

(* NO_CASH: the account never again has more than that, neither in the     *)
(* table nor in the file, as long as every save can be opened.             *)
NoCashIsJustified(o) ==
  LET n == Order[o].account IN
  told[o] = "NO_CASH" /\ flawed = {} =>
    /\ n \in DOMAIN opening
    /\ torn \/ LoadHashTable(file)[n] <= Cost(o)
    /\ lost \/ pc = "down" \/ psDatabase[n] <= Cost(o)

(* The buyer is told what happened to the money, by way of two texts of    *)
(* which either may arrive cut, and however often the service dies.        *)
ToldWhatHappened ==
  \A o \in Orders :
    /\ ChargedIsTold(o)
    /\ OkIsPaid(o)
    /\ ErrorIsJustified(o)
    /\ UserErrorIsJustified(o)
    /\ NoCashIsJustified(o)

(* The accounts as the file has them, and as it should while a save is cut *)
(* or under way.                                                           *)
OnFile ==
  LET table == IF torn THEN opening ELSE LoadHashTable(file)
  IN [n \in Accounts |-> IF n \notin DOMAIN table THEN 0
                         ELSE IF torn THEN Balance(n, saved) ELSE table[n]]

(* Buyers who were told that they get no ticket, by a movie server that    *)
(* was not left in doubt about the payment.                                *)
Refused ==
  {o \in Orders : \/ told[o] \in {"USER_ERROR", "NO_CASH"}
                  \/ told[o] = "ERROR" /\ o \notin unsure}

Sale == INSTANCE MovieSale WITH
  Purchases <- Orders,
  Services  <- {"service"},
  Account   <- [o \in Orders |-> Order[o].account],
  Amount    <- [o \in Orders |-> Cost(o)],
  balance   <- [s \in {"service"} |-> OnFile],
  paid      <- saved,
  delivered <- {o \in Orders : told[o] = "OK"},
  refused   <- Refused

(* What was answered with a success is on file: no save of it failed to    *)
(* open the file, or a later one succeeded before the service died.        *)
AnsweredIsSaved ==
  \A o \in Orders : stage[o] = "answered" /\ taken[o] > 0 => o \in saved

(* One service, seen from the file and the buyers, sells as MovieSale      *)
(* promises and Purchase uses it: however texts and saves are cut and the  *)
(* service dies, each step takes the price of one order out of one         *)
(* account that has more, once, or tells one buyer what is true of it.     *)
ImplementsMovieSale ==
  Sale!Init /\ [][AnsweredIsSaved => Sale!Next]_(Sale!vars)
=============================================================================
