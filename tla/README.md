# MovieStore: specifications, model checking and proofs

MovieStore (2009, C) is a shop of movies: terminals log in at a movie server,
buy tickets there with the money they have at a payment server, and download
the movies that their tickets are for. This directory holds its TLA+
specification: what each part does, what is checked of it with TLC on small
instances, and what is proved of it with TLAPS for instances of every size.

Contents: 1 the system, 2 the modules, 3 the checks, 4 the proofs, 5 what is not
modelled and what comes next.

## 1. The system

Four programs. Every exchange between them is one request and one answer over a
TCP connection of its own, except the lookup (one UDP datagram each way) and the
transfer of a movie (a TCP connection that the *server* opens to the terminal).

    terminal (Client/) --TCP--> movie server (Server/) --UDP--> lookup server (Lookup/)
         ^                        |      |    |
         |------- movie, TCP -----+      |    +--LDAP--> directory of accounts
                                         +-------TCP---> payment servers (Payment/)

| component | state | operations | what is hard |
|---|---|---|---|
| ticket office, `Server/server.c` | `tickets_generated` (hash table), `tickets_counter`, their files `tickets_data`, `tickets_free` | `UserBuyMovie` + `MakeTicket`, `UserDownload`, `UserStartDownload` (discount, save, **fork**) | two files saved one after the other, crashes between them, processes with copies of the same tables, an `unsigned char` counter |
| sessions, `Server/server.c`, `Client/client.c`, `Server/client_ldap.c` | `users_online`; the directory's accounts; `log_user`, `log_passwd` of each terminal | login, registration, password change, logout, exit; `UserCanAcces` before each service | terminals give up after 10 s while the server may be busy for 19: late execution, reordering; several terminals on one account; copies after fork |
| hash table, `Server/hashADT.c` (almost the same file in `Lookup/`, `Payment/`) | `table`, `tabledim`, `qtty` | `HInsert`, `Rehash`, `HDelete`, `Lookup`, `GetHElement`, save and load | open addressing with three slot states, growth inside an insertion, loops without a bound |
| purchase, `Server/server.c` | `payment_buffer` (cache of locations), one exchange under way | `PayMovie`, `SendPaymentServerLocationRequest`, `PaymentServerCacheSearch` | UDP loss and delay on a fixed port, three tries, 10 s timeout of the payment: money gone and no ticket |
| payment server, `Payment/` | accounts in memory and `PAYMENT_DB` | `Session`: debit, save, answer | crash between debit and save, answer to nobody |
| lookup server, `Lookup/` | table read once from a file | answers one name | the answer carries a TTL that is always 0 |
| transfer, `SendMovie` / `NewDownload` | the file on both sides | split, send, write by packet number | broken connections, a partial file, SIGPIPE |
| accept loop, `StartServer`, `TCPLib.c` | the descriptors, `afds`, `rfds`, `exitPipe`; the queue of the socket | accept, receive a size and then a message, `Session`, close | a host that vanishes within a message stops the server; after a fork parent and child read the same connections |
| catalogue, `movieDB.c`, `listADT.c`, `database_handler.c` | genres, ordered lists of movies, `file_paths` | built at start, then only read | the order relies on `strcmp` returning exactly -1, a last line without newline, lists sent in two messages |
| command interpreter, `Client/Prompt.c`, `tree.c`, `scannerADT.c`, `client.c` | the line, the token given back, who is logged in (twice: prompt and client) | read a line, find the command, call the server, say what came of it | cut lines, tokens handed back, statuses whose numbers overlap, a name kept in two places |
| binary messages, `app.h`, `Get...Data` and `Get...Pack` of `client.c` and `server.c` | none | pack and unpack a struct, cypher it in blocks | each side has its own list of offsets; longs of 4 or 8 bytes; padding that is not sent |
| text protocol of payments, `paymentServerLib.c`, `scannerPS.c` | none | make, validate and parse requests and replies | texts that arrive cut, an amount that lost its last characters |
| `cypher.c`, `config_parser.c`, `fileHandler.c`, `counter.c`, `UDPLib.c` | none | helpers and wrappers | pure, or system calls |

The server is one thread that serves one connection at a time. The concurrency of
this system is that of several terminals and several servers, of processes that
give up waiting for one another, and of the child that every download forks: it
sends the movie and then *returns from* `Session` *into the accept loop*
(`server.c:810-823`), so that from then on there are two movie servers with a copy
each of every table, one pair of files and one listening socket. All the modules
of the movie server therefore index its memory by a process.

What makes each part correct:

* ticket office: a number is sold once, what was sold is on disk, and nobody gets
  more downloads than were sold, across crashes and restarts;
* sessions: the open session of a user has the password of the account, nobody
  gets a session without the password, and a terminal that thinks it is logged in
  is, unless something it could not see happened;
* hash table: it is a dictionary, and its probing loops end;
* purchase and payment: a ticket is paid for, nobody pays twice, who is refused is
  not charged;
* payment server: no account is lost and none changes but by what was paid, and the
  buyer is told what happened to the money;
* transfer: what the terminal keeps as a complete file is the movie;
* command interpreter: what is typed is what runs, and what is printed is what the
  server did;
* accept loop: no descriptor is lost, no connection is forgotten or served twice, and
  a terminal that is slow stops nobody;
* catalogue and messages: a customer is shown all of the catalogue, and what one side
  reads from a message is what the other wrote.

## 2. The modules

| module | models | with |
|---|---|---|
| `TicketBook` | the promise of the ticket office: a book of tickets, sold once each, used download by download | |
| `Tickets` | buying, downloading, forking, crashing, restarting | implements `TicketBook` |
| `MCTickets` | its instances | |
| `TicketsProofs` | its theorems | |
| `Dictionary` | the promise of the hash table: a partial map from keys to elements | |
| `HashTable` | `hashADT.c`, slot by slot | implements `Dictionary` |
| `MCHashTable`, `HashTableProofs` | its instance and its theorems | |
| `Sessions` | terminals, users online, directory | |
| `MCSessions`, `SessionsProofs` | its instances and its theorems | |
| `MovieSale` | the promise of a purchase: one debit, then the ticket; no debit after a refusal | |
| `Purchase` | terminals, movie servers, the lookup exchange, payment services | implements `MovieSale` |
| `MCPurchase`, `PurchaseProofs` | its instances and its theorems | |
| `Transfer` | a download between server and terminal, packet by packet | |
| `MCTransfer`, `TransferProofs` | its instance and its theorems | |
| `PaymentService` | one payment server, its file, and the texts of the orders and replies | the detail of what `Purchase` does in one step; implements `MovieSale` |
| `MCPayment`, `PaymentProofs` | its instance and its theorems | |
| `Console` | the prompt of a terminal: line, scanner, command tree, client, messages | |
| `MCConsole`, `ConsoleProofs` | its instance and its theorems | |
| `Catalogue` | how the catalogue is loaded and asked | part of `Front` |
| `Layouts` | the binary messages, copy by copy | operators used in `Front` |
| `Front` | the accept loop, its connections, lists, and the fork into the loop | `Catalogue` and `Layouts` composed with it |
| `MCFront`, `FrontProofs` | its instance and its theorems | |

### Tickets

`pc[p]` says where process `p` is: in the accept loop, in `PayMovie` (`paying`),
back from it with `PAY_OK` (`paid`), between the two saves of `MakeTicket`
(`numbered`), in `SendMovie` (`sending`), or gone (`down`). `tickets_generated` and
`tickets_counter` are its memory, `tickets_data` and `tickets_free` the files.
`MakeTicket` is two actions because a crash or another process may come between
its two saves: `TakeNumber` (the counter is incremented and saved) and
`IssueTicket` (the entry is inserted and the whole table saved; then the buyer is
answered). `StartDownload` and `StartDownloadNoFork` are `UserStartDownload` with
`fork()` succeeding and failing. What `PayMovie` does is left open here
(`PaymentSucceeds`, `PaymentFails`), and a request that is denied changes nothing and
is a stuttering step.

A save is one step with three outcomes, because nobody looks at what `SaveCounter` and
`SaveHashTable` return (lines 806, 1115 and 1127): the file is written, or it did not open
and stays what it was, or the disk was full after `fopen` had truncated it and it is short
(`ShortCounters`: `LoadCounter` reads a short file as 0; `ShortTables`: some of the entries).
The sale or the download goes on in each case. A crash *inside* a save leaves a short file as
well (`CrashSavingCounter`, `CrashSavingTickets`). `Crash` stands for a signal and for the
`exit` in `GetUserLevel` when its LDAP search fails, which is after the payment.
`Restart` is `InitServer`, possible once no process holds the port; a file that does not open
is taken for an empty one.

History variables, read by no guard: `handed` (what buyers were told), `repeated`,
`discounted`, `sent`, `stale` (another process went on since `p` copied its tables),
`diverged` (a stale process has sold or discounted), `behind` (the files whose last save
failed), `forgotten` (what such a file lacks was in the memory of no up-to-date process any
more, or a file did not open at a restart).

The properties of the sales hold under `Coherent == ~diverged /\ ~forgotten`. Both provisos are
real. With a stale writer, the run `tickets_two_servers` shows what becomes of the
promise. And when the last up-to-date process dies while a file is behind, the code sells a
number again (the counter was not saved) or gives discounted downloads back (the table was
not), and nothing in it notices: TLC finds counterexamples to `NumbersAreUnique` and to
`SentWithinQuota` within a few steps if `forgotten` is taken out of `Coherent`. What the proviso does *not* excuse is a save that fails while its process lives:
each save writes the whole counter and the whole table, so that the next one that succeeds
makes good for those that did not, and until then numbers, movies and downloads must be right
in memory (`SoldIsOnDisk` says so of the files that are not behind and of every up-to-date
process; `ImplementsTicketBook` reads the book from an up-to-date process while there is one and
from the files otherwise). Everything up to that point is covered: failing and short saves,
crashes between saves, restarts, forks, and the failing `fork`.

A ticket is worth the level of its buyer in downloads. `n_downloads` is an
`unsigned char` that is decremented before it is compared with 0, so a ticket sold at
level 0 is worth 256 downloads (`Quota`); the ledger property `SoldIsOnDisk` counts it
as what it is, since no document says what level 0 buys. No property is about that wrap.

Two things are left out on purpose: descriptors that were ready when the child
was forked are served by both processes (the loop over `rfds` goes on in both), and
the two steps `UserDownload` and `UserStartDownload` of the terminal are one here,
since the first only reads.

### HashTable

The table is a sequence of slots, each with a state of its own (empty, in use,
and the two deleted states `PHYSICAL` and `LOGICAL` of `hashADT.c`). Hash function,
keys and elements are constants. An insertion is `HInsert`, or `HInsertRepeated`
(the key is there), or `HInsertGrows` when the load passes 60 %: that allocates a
table of `2 * tabledim + 1` slots and then re-inserts one old slot after the other
(`RehashTurn`), with the loop of `Rehash` in `pc`, up to `RehashReturns`. When memory
runs out (`HInsertNoMemory`, only with `GrowthMayFail`) the element *was* stored but
the answer is no. The probing loops of `HInsert` and `Lookup` compare a variable that
they never increment with the size of the table; the condition therefore never ends
them, and `NeverReturns` is the step of a search that finds neither its key nor an
empty slot. Not modelled: the iterator (unused), a failing `malloc` of the element
itself. Saving and loading are in `Tickets` and `PaymentService`.

`qtty` counts insertions and is not lowered by `HDelete`, so that a table of logins
that come and go grows for ever (`hashADT.c:139`); `MaxQtty` and `MaxDim` bound that, and
no property is about it. Known behaviour: a table that could not grow may fill up, and
then the search for a name that is not there never returns (`hashADT.c:80`);
`SearchesEnd` says that this is the only cause, and that the insertions made by `Rehash`
never start a `Rehash` of their own.

### Sessions

A request is a record with the terminal's header; `requests` holds the
connections not served yet, served in *any* order (the loop goes by descriptor),
and possibly long after the sender timed out (`TimesOut`). `Answer` reaches only a
terminal that still waits for that very request. `users_online` is per process,
`directory` is the one LDAP directory. The actions of the terminals are the
functions of `client.c` up to `SendRequest`, then `Receive` or `TimesOut`; those of
the server are one per handler and outcome. `UserLogin` of a terminal that believes
to be logged in closes that session first (`LoginAfterLogout`). The services that
only ask for permission are one operation, `use`.

History: `unsure` has the terminals whose belief was overtaken by something they
could not see (their own timeout, another terminal's action on the same account, a
crash); `apart` is TRUE once one truth became two: a fork copied the sessions, or
the directory refused a password that the session took. Known behaviour: that refused
change is answered with `CHANGE_OK` (`server.c:449` does not look at what LDAP returns),
so that the user's next login needs the old password. `SessionHasAccountPassword` and
`BeliefIsRight` end there.

`SessionsAreAuthenticated` needs no such proviso. It is about each step: a session opens where none
was, with the password that the directory has at that moment; the password of an open session
is replaced only by that of a request which carries the password that the session has *when the
request is served* (`ChangesPasswd`), so that a late request of somebody who knew an older one
changes nothing; a fork copies. `UserBuyMovie` looks for the movie after it has checked the
session, and answers that it does not exist whoever asks (`RefuseUse`).

### Purchase

The whole way of a "buy" command, with each purchase `r` typed once and named by
what is typed: a service (`Asked`, perhaps one that does not exist), an account, a
price. `pc[p]` is the place of movie server `p` in `UserBuyMovie`: in its loop, `asking`
the lookup server, `located` (it has an address), `paying` (the order is sent), `paid`
(`PAY_OK`), `down`. Several servers exist because of the forks; each has a cache
(`payment_buffer`) of its own and all bind the same UDP port, so that only one can
ask at a time (`PortTaken`, `CannotAsk`).

| actions | code |
|---|---|
| `Buy`, `GivesUp` | `UserBuyMovie` and `SendBuyRequest` of `client.c`; the request stays with the server when the terminal gives up |
| `Deny`, `UseCache`, `AskLookup`, `CannotAsk` | `UserBuyMovie` of `server.c` up to the first wait |
| `AskAgain`, `LookupTimesOut`, `ReceiveLocation` | `SendPaymentServerLocationRequest`, then the insertion into the cache |
| `CannotPay`, `SendOrder`, `PaymentSucceeds`, `PaymentRefused`, `PaymentTimesOut` | `PayMovie` from `connectTCP` on |
| `IssueTicket` | `MakeTicket` and the answer |
| `LookupAnswers`, `Lose` | `Session` of `lookup.c`, the network |
| `Refuse`, `Debit`, `SaveAndAnswer` | `Session` of `payment.c`, which may die between debit and save, and whose save may fail without its noticing |
| `Crash`, `Restart`, `ServiceCrashes`, `ServiceRestarts` | the processes |

Queries and answers are sets of datagrams, delivered in any order, late or never. An
answer is taken by whoever is `asking`, for whatever: no name is compared. Whether a
cached location is out of date is left open (`UseCache` or `AskLookup`), since the
code compares the age with the number in the field `key`. A payment order is one TCP
connection, so it has one state, `order[r]`, from `unsent` to the status code or to
`broken` when the service died. Amounts are in hundredths and orders in whole units
(`Amount`: `PayMovie` takes an `int`); `Enough` refuses the exact balance, as the
comparison with `EPSILON` does.

History: `charged[r]` (services whose file says that `r` was paid) and `unsure`
(purchases whose payment the movie server stopped waiting for, or was carrying when
it crashed: it cannot know whether they were paid). `MoneyIsNotLost` says that money
without a ticket has no other cause. `unsaved[s]` has the debits that only the memory of the
payment service `s` has: `Session` answers a success whatever `SaveHashTable` returns, and its
next save takes all of them to the file (`Save`).

`ImplementsMovieSale` has one proviso, on the state before a step: each order that was answered with
a success is on file (`AnsweredIsSaved`). It is the proviso of `PaymentService`, and needed for the same
reason: after a save that did not open, the buyer has a ticket that no file says was paid for, and if
the service dies before its next save it never is. From a state in which every success is on
file, each step must be one of the sale, the failing save included.

Left to other modules: who may buy (`Deny` is a free choice; `Sessions`), the two
saves of `MakeTicket` (`Tickets`), a file of accounts that is cut or that cannot be read at the
start (`PaymentService`). The payment service checks
neither the account number nor the security code, and so the model has neither.

### Transfer

Each "download" command `d` has a sender (`SendMovie`, in the child that the server
forked) and a receiver (`NewDownload`, in a child of the terminal's downloader). Their
connection is a stream, so two counters are enough for it: `i[d]`, the packets sent, and
`n_packet[d]`, the packets the receiver has counted. `file[m]` says of each place in
the terminal's file of `m` whether the right data is there. All downloads of one
movie write that one file, and it is truncated twice for each of them: by the command
(`CreateFile`, before it asks the server to start) and by the first packet
(`fopen(..., "wb+")`). Each turn of the receiver flushes, so a packet is one step.

| actions | code |
|---|---|
| `UserDownload` | `UserDownload` of `client.c` from the granted answer on; a refusal changes nothing and stutters |
| `StartSending`, `NotSent` | `UserStartDownload` and the connection of `SendMovie`; the connection may fail |
| `SendPacket`, `StopSending` | the loop of `SendMovie`, its end, its death, `SIGPIPE` |
| `Accept`, `DownloaderEnds` | `InitDownloader`, which `UserExit` kills |
| `Receive`, `ReceiveGarbage`, `ReceiverDies` | `NewDownload` |

`ReceiveGarbage` is what `receiveTCP` makes of a connection that ended or of a packet
of which only a part came in ten seconds: it only looks for a negative result of
`recv`, so that the child goes on with memory that was not filled. The child may die
of it, write it, or take it for the last packet and announce a complete download; or go on
counting, up to whatever `total_packets` that memory holds (`MaxTotal` stands for the largest
`unsigned long`), since at the end of a connection `recv` returns at once and no timeout applies.
No document promises more of a broken connection, and a file that was truncated again
while it was being written cannot be whole. The history variable `disturbed` therefore
has the downloads to which one of these happened (and `lost` those that no longer know
where in the stream they are), and `AnnouncedIsWhole` is about all the others. `DownloadEnds` excepts
the downloads in `lost` only, and `TypeOK` bounds the packets counted by the packets there are
for all that are not. A write that fails on the terminal's own disk, whose result nobody looks
at either (`client.c:286`), is not modelled.

### PaymentService

One payment server from the texts it gets to the file it keeps. A connection of a movie
server is an order `o`, and `stage[o]` its place: `unsent`, `sent` (the request waits to be
read), `read` (debited, not yet answered), `answered`, or `closed` without an answer. `pc` is the
place of the service: `down`, in its `loop`, `charged` (the table is debited), `truncated`
(`fopen` has emptied the file) and `saved`.

| actions | code |
|---|---|
| `CannotPay`, `SendOrder`, `SendPart`, `GivesUp`, `Receive`, `ReceivePart` | `PayMovie` of `server.c`, `MakePSRequest`, `ParsePSReply`, and `UserBuyMovie` for what is told |
| `InitPaymentServer` | `InitPaymentServer`, `LoadHashTable`, `hload`; the file may not open, and the service runs all the same |
| `Refuse`, `NoMemory`, `Charge` | `Session` of `payment.c` with `ParsePSRequest`, `ValidateRequest`, `GetHElement`, `HDelete`, `HInsert`, `MakePSReply` |
| `OpenFile`, `OpenFails`, `WriteFile`, `WriteFails` | `SaveHashTable`, whose result nobody looks at |
| `SendReply`, `Crash` | the end of `Session`; a signal, or the `NULL` of a request that never came |

Of a text, each line has a title and a field, and of a field what `ValidateRequest` looks at:
its length and the kind of its characters. `CutRequests` and `CutReplies` are all that may be
left of a text when its sender stops: lines are missing, or digits of the amount. Amounts
are in hundredths. Assumed of the inputs, because the code does: fields fit their buffers,
lines have fewer than 50 characters, balances and amounts are numbers below 65536 (so
that hundredths are exact in a `float`).

History: `provided` (the file at first), `taken[o]`, `charged` and `saved` (orders whose debit the table
and the file have), `torn` and `lost` (something is missing in the file, in the table), `flawed`
(orders served with a table that lacks accounts, or whose save did not open), `unsure`
(orders that a movie server stopped waiting for, or of which it got no whole answer).

`ImplementsMovieSale` looks at the service from its file and its buyers, as `Purchase` looks at
several of them: a sale is paid when the save with its debit opens the file (`saved`), delivered when its buyer is
told `OK`, refused when the buyer is told so without a doubt left (`Refused`). The balances are those that a
service that starts now would find (`OnFile`); an account that is not there has nothing, and of a
file that a save left torn, where the next start loses accounts, it is what is owed to its owners,
the first balance less what was charged. Each step is then a step of the sale or a stuttering step,
under one proviso, on the state before the step: what was answered with `OK` is in the
file (`AnsweredIsSaved`). It fails when `SaveHashTable` could not open the file: the answer goes out all the
same, and until a later save takes the debit with it the buyer has a ticket that is not paid for; a crash
before that leaves it so.

Known behaviour that the properties allow for, and name: an order for the exact balance is
refused; cents are not charged, and a price below 1 is always an error (`PayMovie` takes an
`int`); the account number and the security code are never compared; a service name with
other than letters and digits is always refused; lines after a malformed one disappear
with the next save; a file without the right header is an empty table, and the service runs
with it; a save that is cut loses accounts at the next start; what `SaveHashTable` returns is not
looked at, so that a debit whose save did not open is undone by a crash.

### Console

`pc` says what the terminal does: `prompt`, `reading` (walking the command tree, at `node`), `calling` the
server, logging out first (`relogin`, `leaving`), or over. A word is a value with a length, and a
token a piece of it, since `fgets` cuts a line that is too long anywhere and the rest is read as
the next command. `SaveToken` drops tokens of one character, `ReadToken` gives the saved token
back first. `MayAnswer` has the codes with which a server can answer each command (or
`connect`, `send`, `receive` failing at any place, and a connection that ends, of which `receiveTCP`
makes a code of zeros: `Exchanges`), `Says` the message that `client.c` and the switch in
`Prompt.c` make of a code together, `NextUser` and `NextLogUser` what becomes of the two
copies of the user's name. `did` and `answered` are history: what the server did, and whether the
terminal heard of it.

Known behaviour, excluded by name in `RunsWhatWasTyped` (`Plain`) or within what the other properties
allow: a ticket of one digit is lost (`download 5` is no command, and `download 5 12` asks for
12); a `new` that times out says that the name is taken, `listmovies` and `listgens` that the genre
does not exist, a download whose file cannot be made that the ticket is used up; `Cuenta
invalida` is never printed, because the enums of `client.h` and of the protocol differ; after a
login under another name that fails, the prompt may go on to show the name that was logged
out; the end of the input crashes the terminal.

### Front, Catalogue, Layouts

`Front` is `StartServer`: `select`, `accept`, then for each descriptor in `rfds` a receive, one handler, an
answer and `close`. `unread[c]` has the parts of a request that are sent and not read; `receiveTCP`
reads first the size and then the message (`ReceiveSize`, `ReceiveData`), and waits for both. A terminal
gives up or dies (`GivesUp`) with its end of the connection visible to the server, or its host
vanishes (`Vanishes`) and nothing is ever visible again. A process of the server may die anywhere (`Dies`: a
signal, `FATAL_ERROR` of `UserLogin`, or `ListUsers`, which frees a pointer that it never set when it
has refused). Five kinds of request are told apart: the three lists (`ListMoviesByGen`, `ListGens`,
`ListUsers`), which are answered by a header and then, perhaps, by a list (`AnswerHeader`,
`AnswerList`, `NoList`, with `exitPipe` set by `SIGPIPE` between the two), the start of a download, which
forks, and all others, which are answered by one message (`Answer`; what they do is in `Sessions`,
`Tickets` and `Purchase`). Of the list of users only that it is one is modelled, not what is in it. `Fork` gives
the child copies of everything; both come back into the loop over `rfds`. `AnswerUnpaid` leaks the descriptor
that a failed `connectTCP` leaves open; when none is left, `AcceptFails` ends the server.

A terminal reads what is there when the connection ends, or when ten seconds go by in the middle of a
message, and `receiveTCP` fills up with zeros (`ReceiveLess`). A header of zeros is taken for "there is no list", and
behind a good header the entries that did not come are shown blank. `TerminalGetsTheCatalogue` therefore says
two things: a list that is shown is the one that was asked for, and an empty or a blank one is shown only
for what is not there, or on a connection that was `broken` (its process died, or the timeout fell into a message) or
`inherited` by a child. That the loop itself never closes on a terminal before its answer is complete is
the part that takes work: no descriptor may be closed, forgotten or cut off by the `SIGPIPE` of another
terminal.

`Catalogue` is the loading of the file of movies, line by line, into the lists of genres and
movies, before the loop starts: `Insert` goes on only while the comparison is exactly -1, and
`strcmp` is therefore either the sign or the difference. `Layouts` has, for each message, the order of the fields in
the struct and the copies (`memmove`) of its writer and of its reader, and computes byte by byte
which fields arrive, for longs of four and of eight bytes, and for the blocks of the cipher.
The exchanges of `Front` use both: a list that is shown is the catalogue's
(`TerminalGetsTheCatalogue`), and its records decode (`MessagesArriveWhole`).

Known behaviour, named in the properties: with longs of eight bytes only the first movie of a list
arrives whole; the last user of a list loses the level and the end of the description unless the list fills
its block; the start of a download copies the port in place of the ticket, of which ten characters survive
(a ticket has at most that many); the last line of a catalogue without a newline loses the last digit of
its price; a host that vanishes between the size and the message blocks the server for good; a failed
`accept`, or no free descriptor, ends it; a terminal that closes before it sends anything leaves the size
uninitialised (`ReceiveNoSize`, `ReceiveNull`, `IgnoreJunk` are what may come of it).

## 3. What TLC checks

Run `tlc -config <cfg> <module>`.

| run | shows | instance |
|---|---|---|
| `tickets_one_writer` | `NumbersAreUnique`, `SoldIsOnDisk`, `SentWithinQuota`, and that the tables that count and the two files implement `TicketBook`, in every behaviour with one up-to-date writer in which nothing that could not be saved is forgotten | 2 processes, 2 users of levels 0 and 2, 2 movies, 2 tickets, 3 downloads each, bytes of 3 values |
| `tickets_all` | `TypeOK`, and every purchase is answered unless its process dies or stands in the search of the directory; no restriction on forks, staleness or saves | 3 processes, 1 user of level 2, 1 ticket, 2 downloads |
| `tickets_two_servers` (violation) | `SentWithinLevel`: after a download, parent and child each discount from their own table, on files that are always whole | 4 processes, 1 user of level 2 |
| `hash_table` | `EveryElementIsFound`, `SearchesEnd`, and that the table implements `Dictionary` | tables of 3, 7 and 15 slots, 4 keys whose hashes collide, up to 6 insertions, growth may fail |
| `sessions_safety` | `SessionHasAccountPassword`, `BeliefIsRight`, `SessionsAreAuthenticated` | 2 processes, 2 terminals, one account, 2 passwords, 4 requests, LDAP may fail |
| `purchase_safety` | `MoneyIsNotLost`, and that a purchase implements `MovieSale` from every state in which what was answered is on file | 2 movie servers, 3 purchases, 2 payment services, 2 accounts, one try |
| `purchase_fair` | `TypeOK`, `PurchaseEnds` | 2 movie servers, 2 purchases (one misspelt, of a service that does not exist), 2 tries |
| `purchase_service` (violation) | `ChargedWhereAsked`: a late answer sends the order elsewhere | 1 movie server, 2 purchases |
| `transfer` | `TypeOK`, `AnnouncedIsWhole`, `DownloadEnds` | 2 downloads of one movie of three packets, the last one short; totals of up to 5 packets in memory that was not filled |
| `payment` | `AccountsAreKept`, `ToldWhatHappened`, and that the service implements `MovieSale` | 3 orders on one account, 3 files of accounts, crashes and failing saves everywhere |
| `console` | `TypeOK`, `RunsWhatWasTyped`, `PromptNamesSession`, `WhatIsSaidIsTrue`, `DeniedIsLoggedOut`, `LinesAreAnswered` | 28 lines, words of 1 to 10 letters, a buffer of 24 characters |
| `front` | `TypeOK`, `CatalogueIsComplete`, `DescriptorsAreOpen`, `ServedOnce`, `BlockedOnlyByLost`, `TerminalGetsTheCatalogue`, `MessagesArriveWhole`, `ServedAtLast` | 2 connections, the server and a child, 2 descriptors; every catalogue of up to 4 lines is loaded, one is served |

Why these bounds are enough to be interesting. Tickets: two numbers make a number
that is sold twice possible, a level above the number of downloads discounted and
a level of 0 both occur, and two processes are a stale one and a writer (three, in `tickets_all`, a stale one, its child and a writer); with 3
values of a byte the wrap-around happens within the three downloads. HashTable: the
hash values are those of four short names such that three share a home slot in
the table of 7 and two in the table of 3, so probes cross deletion marks; the
instance grows twice. Sessions: 4 requests allow a login, a change, a logout and one
late request of the other terminal on the same account; terminals and passwords
are symmetric. Purchase: the first two purchases want the money of one account of one
service, which is enough for one of them and then exactly the price of the other, and the
second may find the service in the cache; the third names another service that has no such
account. Two servers compete for the port, and since a server asks again
within one purchase or for the next, one try per purchase has late answers too; the
second try matters for the loop that counts them, in `purchase_fair`. `Unit` is 2 where
the code has 100, so that a price with a remainder exists. Transfer: two writers of one
file disturb each other in every order, and three packets have a first, a middle and a
short last one; that `SplitFile` also counts enough packets for a size that is a multiple
of the packet is proved for all sizes. Payment: of two prices (11.50 and 2) on one account of
13.05, 13.00 or of a file with a wrong header, one order leaves less than the other, both
together are exactly the balance or leave five hundredths of it, and the third price is below one unit; the first file has
the account twice, the second a malformed line in the middle. Console: every command has a good line, and there are
lines with a word of one letter at each place where a token is given back, lines with an
argument too few and too many, and some longer than the buffer whose rest is a command itself. Front:
two descriptors are as many as connections, so that a leaked one leaves too few; one child has inherited
connections in every stage; catalogues of four lines have a genre twice, movies out of order and
repeated, and malformed lines at every place. A violation run is an instance where the code does what a comment or
a manual page says it does not; see `findings` in `PROJECT.json`.

Bounds in guards: `MaxTickets` (no purchase starts when the numbers are used up),
`MaxServed` (downloads of one number), `MaxQtty`/`MaxDim` (insertions and size of a table),
`MaxRequests` (no command starts that could send more), `Opened` (the catalogues with which terminals
come). `hash_table` turns deadlock checking off since a table at its bounds and the step that
never returns both stop; `tickets_one_writer` does so since at its bounds the only step left may be the death of the
process that alone knows what was not saved, which the specification of that run excludes; `transfer`, `payment`, `console` and `front` do so since their downloads, orders,
users and connections come to an end.

Fairness. What is assumed is that a process goes on where the code cannot wait, or waits with a timeout.
`Tickets` and `Purchase`: a purchase that was begun goes on in `PayMovie` (`WF(Pay(p))`, `WF(PayMovie(p))`), because each
wait in it has a timeout (three times 3 s for the lookup, 10 s for the payment). What comes after is
`MakeTicket`, whose `ldap_search_s` (`client_ldap.c:235`) has none, on a connection that a forked child shares: `IssueTicket` is not
fair, and `PurchaseIsAnswered` and `PurchaseEnds` say that a purchase ends *or* its process stands
there for ever. Nothing is assumed of terminals, downloads (`SendMovie` has no timeout), restarts, the
network, the lookup server or the payment services.
`Sessions` and `PaymentService`: none; their properties are about safety. `Console`: the terminal goes on
(`WF(Terminal)`), because its socket has a receive timeout; nothing is assumed of who types or of the
server. `Front`: each process goes on when it can and waits for nobody (`WF(Server(p) /\ ~Waits(p))`): a `recv` with nothing to
return is not enabled, and `Waits(p)` are the handlers that ask the directory, and the send of a list, which may block on a full
buffer; `ServedAtLast` excepts a process that stands in one of them for ever. A terminal that has sent the size
sends the message (`WF(SendData(c))`, which a
host that vanished no longer can); nothing is assumed of terminals otherwise.
`Transfer`: only a receiver that was accepted goes on (`WF(Child(d))`), because
`InitDownloader` gives its socket a timeout of ten seconds; nothing is assumed of the
sender, of the command or of `Accept`, and nothing is promised of a receiver that has lost its place. No action of the environment is fair.

## 4. What is proved

For every value of the constants that meets the `ASSUME` of its module (finite or
not), with `tlapm` and no unproved leaf.

* `TicketsProofs`: `TypeCorrect`; `NumbersAreSoldOnce`, `SalesAreOnDisk` and `NobodyGetsMore` (`NumbersAreUnique`,
  `SoldIsOnDisk` and `SentWithinQuota`); `OneWriterImplementsTicketBook`. Since a file may lack what could not be
  saved, the inductive invariant must say how memories and files hang together without trusting either:
  the processes that are up to date have the same tables (`Agreement`), which the files that are not
  `behind` have too; if a file is behind, such a process exists, or `forgotten` is TRUE; the tables that count keep
  what was sold (`Accounted`), and every number that was announced is below their counter, as is the one that an
  up-to-date process has taken and nobody was told (`NumberIsNew`). From it each action is a step of the ticket book or a stuttering step.
* `HashTableProofs`: `TypeCorrect`; `ElementsAreFound`; `SearchesDoEnd` (`SearchesEnd`);
  `SearchesDoReturn`; `TableImplementsDictionary`. The heart is an invariant about probe
  sequences: each stored element lies on the probe of its key with no empty
  slot before it, and no key is stored twice. A deletion leaves the mark that keeps
  the probes of other keys whole. That a probe ends needs counting: the used slots
  are no more than `qtty`, so below the load limit some slot is empty.
* `SessionsProofs`: `TypeCorrect`; `SessionsFollowAccounts` (`SessionHasAccountPassword`),
  by the invariant `OneTruth`: until a fork or a refused change, at most one process
  runs and each open session of it has the account's password;
  `SessionsNeedThePassword` (`SessionsAreAuthenticated`), action by action, where the change of a password needs that
  `UserCanAcces` has compared the password in the request with that of the session;
  `TerminalsBelieveRight` (`BeliefIsRight`), by the invariant `Beliefs`: the request that a terminal
  waits for carries the terminal's own name and arguments, and is gone once the answer is in its
  socket (`Corresponds`); and what a terminal that was not overtaken *will* believe when it has read that
  answer is what the server holds (`Sure`). It needs `OneTruth`, because `is_log` tells a
  terminal that its password is the account's, and it takes that for the session's.
* `PurchaseProofs`: `TypeCorrect`; `MoneyStays` (`MoneyIsNotLost`); `PurchasesAreSales`
  (`ImplementsMovieSale`, with its proviso), from the inductive invariant `Orderly`. Its parts: a purchase
  has one server, once (`OneServer`); the place of the purchase tells the state of
  its order, and nothing was answered while it is served (`InTurn`); only
  successful orders were charged, and neither a ticket nor a refusal contradicts
  that (`Settled`); what only the memory of a payment service has are debits of orders that were sent to
  it, one of them at most not answered (`Unwritten`), and while it is no more than one, memory and file differ by
  just that amount (`Balanced`, both in `Books`); an order that may cost money has a server
  that waits for it, unless it was given up (`Awaited`). The refinement needs `Books` to
  see in the save the debit of the abstract sale, for which `AnsweredIsSaved` leaves just one debit to be saved, and `Settled` to see that who was
  refused has no order on the way.
* `TransferProofs`: `TypeCorrect`; `AnnouncementsAreTrue` (`AnnouncedIsWhole`). `TypeCorrect`
  holds the bound that matters: a receiver that keeps its place in the stream never counts more packets than were split
  off. (One that has lost it does; of it only the width of the counter is proved.) The inductive invariant `Filling`: whatever an undisturbed receiver has counted is
  in the file, and if it is done it has counted all; a step of another download of the
  movie either leaves what is there or disturbs this one. That `SplitFile` packets are enough
  for the whole file is arithmetic on quotients (`Division`, `SplitFileSuffices`).
* `ConsoleProofs`: `PromptAgrees`, `ConsoleTellsTheTruth` and `DeniedAreLoggedOut`
  (`PromptNamesSession`, `WhatIsSaidIsTrue`, `DeniedIsLoggedOut`), which
  are inductive together: a message resets the prompt's name exactly when its code resets the
  client's (`Switches`), and between the logout inside a login and its answer the requests
  speak for nobody. `LinesRunAsTyped` (`RunsWhatWasTyped`) rests on `LineInv`: while a line that fits is
  walked down the command tree, the scanner has all its tokens, the first of them perhaps given back
  (`Scanned`), and it is the name at none of the nodes that were passed; so what a node reads is what was
  typed (`ScannedIsRead`), and who comes to the last node has no command. `ConsoleTypesAreRight` (`TypeOK`) is
  about the lines that do not fit: what `ReadLine` leaves of a line, cut at any character, is pieces of the
  words that were typed (`BetweenType`), and a login has the argument from which its name is taken. It
  needs that the recursive functions `Begins` and `FlattenSeq` exist at all (`RecursionExists`) and what holds
  of all their values (`Climbs`), both from the fact that a set of numbers without a least element is empty.
* `FrontProofs`: `LoopIsInvariant`; `DescriptorsStayOpen` (`DescriptorsAreOpen`); `RequestsAreServedOnce`
  (`ServedOnce`); `OnlyTheLostBlock` (`BlockedOnlyByLost`). The inductive invariant `LoopInv`: the sets of
  the loop and the open descriptors agree; the request of a terminal is at one place, not sent, unread,
  read by one process or acted on (`OnePlace`); and who waits for the rest of a message has taken its size
  out of the connection, so that nobody else can (`SizeIsTaken`). That is what makes the connections that
  parent and child share safe. A second invariant, `Exclusive`, rests on it: a
  connection that no child has inherited is in the queue or at one descriptor, except the one
  that a fork shares until both have closed it (`QueueIsDistinct`, `OneOwner`); so nobody else
  empties what select has found ready (`ReadyIsReadable`), and behind a size the rest is there
  once its terminal has sent it (`RestIsThere`).
  That the lowest ready descriptor is one of the ready ones needs the well-foundedness of numbers (`LowestIsIn`).
  `LoopIsExclusive` states it. `CatalogueStaysComplete` (`CatalogueIsComplete`) rests on `CatInv`: the lists hold what
  the lines read so far say (`ListsAreLines`), each path is that of the first line with its name (`PathsAreFirst`), and
  the lists are in order, with each name once, if `strcmp` gives the sign (`ListsAreSorted`). With a `strcmp` that gives differences they are
  not, and an insertion may pass its place, or stop before an element that is there; what saves the
  catalogue is that nothing is ever dropped, which is what the proof shows of one insertion into any list
  whatever its order. `ListsAreShownRight` (`TerminalGetsTheCatalogue`) follows one request through typing, the
  connection, `receiveTCP`, the two answers and the fork (`Answering`): what a process is about to answer is what
  was typed at the other end, and what is on its way belongs to it. It needs all the invariants before it. That nothing but a
  lost connection leaves a terminal with less than its answer is a second invariant (`Awaited`, `AnswersAreKept`): a terminal that
  has not left, and whose connection is neither `broken` nor `inherited`, is in the queue, at a descriptor of a live process
  that will answer it, or has its whole answer in its inbox; so that a connection that ends with nothing in it is one of the others.
  `MessagesDoArrive` (`MessagesArriveWhole`) is about the layouts alone. A field arrives whole if the two sides
  agree on the steps before it and what can be read of the message goes to its end (`FieldArrives`), in any
  record of a list whose records have one length on both sides: for copies as long as their fields that step over no
  less, only one move reaches each byte, on either side (`ProperMoves`), wherever the struct has the field. This holds
  of every list of distinct fields (`NothingLost`), so that of most messages nothing is to be computed; what is left are the three that
  the sides disagree on. That offsets grow, and agree where the steps do, rests on what a fold over a set
  is: it takes out one element after the other (`SumTakesOne`), and any of them could be the first (`SumWithout`).
  `TypesAreRight` is `TypeOK`, put together from the types in each of them.
* `PaymentProofs`: `BuyersAreToldWhatHappened` (`ToldWhatHappened`) and `AccountsStayKept`
  (`AccountsAreKept`) and `PaymentsAreSales` (`ImplementsMovieSale`). For the first, two things make it more than
  bookkeeping. A text that arrives cut is understood as it was meant or not at all
  (`CutRequestIsRefused`, `ReplyIsParsed`), so the price charged is the price asked. And that an account
  *never again* has the money that it lacked for a `NO_CASH` needs the table and the file to
  agree between two orders while nothing is missing in either (`Agreeing`), through every save,
  crash and restart: for that, a table that is saved and read again is the same
  (`SavedIsLoaded`, about `SetToSeq` and the first line of each name, by facts on finite sets). The
  rest of the invariant says of each order what is true of it at each place of its
  connection (`OrderIsRight`), and that what was charged is saved before it is answered (`Saving`). The second adds the invariant
  `Books`: table and file each have exactly what the first file had less the sum of the orders that were paid
  (`Exact`), or no more than that once a save was cut (`Within`), and an order that was not read was not
  paid, so that a debit takes one more term out of the sum. That a sum over a set of orders
  exists, whatever order `CHOOSE` takes them in, and grows by one term with one order (`SumsExist`, `TotalStep`) is
  proved without an induction theorem, by a minimal counterexample. The third follows from both: by `Books`, the
  balances of `OnFile` are a function of the set `saved` alone (`OnFileIs`), so that a step changes them only when it
  opens the file for a debit, which is then the only one that was pending (`Pending`: table and file differ by the order that
  is being served and by orders that were answered though their save did not open), and that the account had more is what `StatusOf` had found
  (`SalePays`); and by `OrderIsRight` who is told is told what happened.

Each of these proofs names what it assumes of the constants: the `ASSUME` of the module, which TLC evaluates on
the instances, and nothing else.

Every safety property that a passing run checks is a theorem. Only model-checked: the liveness properties `PurchaseIsAnswered`, `PurchaseEnds`,
`DownloadEnds`, `LinesAreAnswered` and `ServedAtLast`, since liveness under fairness is outside what `tlapm` proves.

## 5. Not modelled, and the plan

Not modelled for good: DES and MD5 (third party; the cipher is taken to give back what it
was given), logging, the debug and unused modules; `config_parser.c` and the command lines (checks of
addresses and ports, made once at start, of which nothing depends but whether the
program starts); of the sockets, only that they fail, break, fall silent and time out. Modelled, and
promised by nobody, so that no property is about it beyond the provisos of section 2: what the files of tickets are
worth once an outdated process wrote them or what was not saved is forgotten, a debit that was answered and never saved, a
receiver that has lost its place, a session after the directory refused its new password. Not modelled: a write that
fails on the disk of a terminal. `PROJECT.json` lists
every component with its status, and under `hazards` what can go wrong in this code, with
the property that would notice.

What could come next: `Front` composed with `Sessions` and `Tickets` in one instance, where today it treats their requests as one kind.
