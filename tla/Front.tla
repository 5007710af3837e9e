-------------------------------- MODULE Front --------------------------------
(* The accept loop of the movie server (StartServer) and the exchanges that *)
(* it serves: select says which connections can be read, each of these is  *)
(* read once, answered and closed, one after the other.  receiveTCP reads  *)
(* the size of a message and then the message, and waits for both, in the  *)
(* server without a timeout.  A terminal may die or give up anywhere, or   *)
(* its host may vanish so that nothing more ever comes from it, not even   *)
(* an end; a process of the server may die anywhere.                       *)
(*                                                                         *)
(* When a connection ends, recv returns less than it should and nobody     *)
(* looks: receiveTCP returns zeros, and a terminal takes them for its      *)
(* answer.  A list of which only the header came is shown blank.           *)
(*                                                                         *)
(* A download forks, and the child returns into the loop with a copy of    *)
(* everything: the descriptors, which of them were ready, and the socket   *)
(* on which new connections arrive.                                        *)
EXTENDS Catalogue, Layouts

CONSTANTS
  Clients,     \* connections, each made once, by the terminals
  Process,     \* the server and the children it may fork
  First,       \* the process that InitServer runs in
  FDs,         \* descriptors for connections; the lowest free one is taken
  Requests,    \* what terminals ask for
  Opened,      \* bound: catalogues with which terminals come
  Queue,       \* length of the queue of connections not accepted
  None, Nobody, Junk,
  Leaked       \* behind a descriptor that nobody closes any more

(* "ack": the requests answered by one message (login, register, password, *)
(* logout, buy, download).                                                 *)
Lists == {"list_movies", "list_gens", "list_users"}
Ops == Lists \cup {"start", "ack"}

ASSUME FrontAssumption ==
  /\ First \in Process
  /\ FDs \subseteq Nat \ {0} /\ IsFiniteSet(FDs)
  /\ Requests \subseteq [op : Ops, gen : Genres \cup {None}]
  /\ \A r \in Requests : r.op = "list_movies" => r.gen \in Genres
  /\ Nobody \notin Requests /\ Junk \notin Requests /\ Nobody # Junk
  /\ None \notin Clients /\ Leaked \notin Clients \cup {None}

VARIABLES
  (* The processes. *)
  pc,         \* where in StartServer and Session
  open,       \* the connection behind each descriptor
  afds, rfds, \* the sets of the select loop, without the passive socket
  fd,         \* the descriptor that is served
  request,    \* what was read from it
  exitPipe,   \* set by SIGPIPE
  (* The connections. *)
  backlog,    \* not accepted yet, in order
  stage,      \* what the terminal does
  typed,      \* what it asks for
  unread,     \* what it sent, the size first, and nobody has read
  inbox,      \* what it was sent and has not read
  shown,      \* what it shows at the end
  (* History. *)
  served,     \* how often the request was acted on
  inherited,  \* connections that a child got with the fork
  broken      \* connections lost with the process that had them, or timed
              \* out in the middle of a message

procVars == <<pc, open, afds, rfds, fd, request, exitPipe>>
connVars == <<backlog, stage, typed, unread, inbox, shown>>
history == <<served, inherited, broken>>
vars == <<procVars, connVars, history, catVars>>

Alive(p) == pc[p] \notin {"unborn", "ended"}
Listening == \E p \in Process : Alive(p)

(* The end of a connection is read like data.                              *)
Readable(c) == unread[c] # {} \/ stage[c] = "closed"

Client(p) == open[p][fd[p]]

Lowest(ds) == CHOOSE d \in ds : \A e \in ds : d <= e

NextPc(ready) == IF ready = {} THEN "select" ELSE "serve"

-----------------------------------------------------------------------------

Init ==
  /\ CatInit
  /\ pc = [p \in Process |-> "unborn"]
  /\ open = [p \in Process |-> [d \in FDs |-> None]]
  /\ afds = [p \in Process |-> {}]
  /\ rfds = [p \in Process |-> {}]
  /\ fd = [p \in Process |-> 0]
  /\ request = [p \in Process |-> Nobody]
  /\ exitPipe = [p \in Process |-> 0]
  /\ backlog = <<>>
  /\ stage = [c \in Clients |-> "idle"]
  /\ typed = [c \in Clients |-> None]
  /\ unread = [c \in Clients |-> {}]
  /\ inbox = [c \in Clients |-> <<>>]
  /\ shown = [c \in Clients |-> None]
  /\ served = [c \in Clients |-> 0]
  /\ inherited = {}
  /\ broken = {}

Load ==
  /\ CatNext
  /\ UNCHANGED <<procVars, connVars, history>>

(* InitServer returned OK.                                                 *)
Start ==
  /\ starting = "ready" /\ pc[First] = "unborn" /\ file \in Opened
  /\ pc' = [pc EXCEPT ![First] = "select"]
  /\ UNCHANGED <<open, afds, rfds, fd, request, exitPipe, connVars, history, catVars>>

-----------------------------------------------------------------------------
(* The terminals: SendRequest, SendListMoviesRequest and their like.       *)

Connect(c) ==
  /\ stage[c] = "idle" /\ Listening /\ Len(backlog) < Queue
  /\ \E r \in Requests : typed' = [typed EXCEPT ![c] = r]
  /\ stage' = [stage EXCEPT ![c] = "connected"]
  /\ backlog' = Append(backlog, c)
  /\ UNCHANGED <<procVars, unread, inbox, shown, history, catVars>>

SendSize(c) ==
  /\ stage[c] = "connected"
  /\ stage' = [stage EXCEPT ![c] = "half"]
  /\ unread' = [unread EXCEPT ![c] = {"size"}]
  /\ UNCHANGED <<procVars, backlog, typed, inbox, shown, history, catVars>>

(* A download is started by SendSignal, which waits for no answer.         *)
SendData(c) ==
  /\ stage[c] = "half"
  /\ stage' = [stage EXCEPT ![c] = IF typed[c].op = "start" THEN "closed" ELSE "waiting"]
  /\ unread' = [unread EXCEPT ![c] = @ \cup {"data"}]
  /\ UNCHANGED <<procVars, backlog, typed, inbox, shown, history, catVars>>

(* The only answer, or the header of a list; the list is a message of its  *)
(* own.                                                                    *)
Receive(c) ==
  /\ stage[c] = "waiting" /\ inbox[c] # <<>>
  /\ LET ack == Head(inbox[c]) IN
     IF ack.code = "LIST_OK" /\ typed[c].op \in Lists
     THEN stage' = [stage EXCEPT ![c] = "listing"] /\ UNCHANGED shown
     ELSE /\ stage' = [stage EXCEPT ![c] = "closed"]
          /\ shown' = [shown EXCEPT ![c] = ack]
  /\ inbox' = [inbox EXCEPT ![c] = Tail(@)]
  /\ UNCHANGED <<procVars, backlog, typed, unread, history, catVars>>

ReceiveList(c) ==
  /\ stage[c] = "listing" /\ inbox[c] # <<>>
  /\ stage' = [stage EXCEPT ![c] = "closed"]
  /\ shown' = [shown EXCEPT ![c] = Head(inbox[c])]
  /\ inbox' = [inbox EXCEPT ![c] = Tail(@)]
  /\ UNCHANGED <<procVars, backlog, typed, unread, history, catVars>>

(* No process has the connection, and what was sent has been read.         *)
Ended(c) ==
  /\ inbox[c] = <<>> /\ \A i \in 1..Len(backlog) : backlog[i] # c
  /\ \A p \in Process, d \in FDs : open[p][d] # c

(* recv returns less than a message, because the connection has ended or   *)
(* because its ten seconds went by in the middle: the rest is zeros.  Of a *)
(* header these mean that there is no list; a list has as many entries as  *)
(* its header said, and those that did not come are blank (or, of users,   *)
(* what deciphering makes of zeros).                                       *)
ReceiveLess(c) ==
  /\ stage[c] \in {"waiting", "listing"}
  /\ \/ Ended(c) /\ UNCHANGED broken
     \/ broken' = broken \cup {c}
  /\ stage' = [stage EXCEPT ![c] = "closed"]
  /\ shown' = [shown EXCEPT ![c] = [code |-> IF stage[c] = "listing" THEN "BLANK"
                                           ELSE IF typed[c].op \in Lists THEN "LIST_ERROR"
                                           ELSE "ZERO"]]
  /\ inbox' = [inbox EXCEPT ![c] = <<>>]
  /\ UNCHANGED <<procVars, backlog, typed, unread, served, inherited, catVars>>

(* The timeout of its socket, a reset of the connection, or its own end.   *)
GivesUp(c) ==
  /\ stage[c] \in {"connected", "half", "waiting", "listing"}
  /\ stage' = [stage EXCEPT ![c] = "closed"]
  /\ inbox' = [inbox EXCEPT ![c] = <<>>]
  /\ UNCHANGED <<procVars, backlog, typed, unread, shown, history, catVars>>

Vanishes(c) ==
  /\ stage[c] \in {"connected", "half", "waiting", "listing"}
  /\ stage' = [stage EXCEPT ![c] = "lost"]
  /\ inbox' = [inbox EXCEPT ![c] = <<>>]
  /\ UNCHANGED <<procVars, backlog, typed, unread, shown, history, catVars>>

Terminal(c) ==
  \/ Connect(c) \/ SendSize(c) \/ SendData(c) \/ Receive(c) \/ ReceiveList(c)
  \/ ReceiveLess(c) \/ GivesUp(c) \/ Vanishes(c)

-----------------------------------------------------------------------------
(* The loop.                                                               *)

(* The process exits or dies: its descriptors are closed.                  *)
Held(p) == {open[p][d] : d \in FDs} \cap Clients
Ends(p) ==
  /\ pc' = [pc EXCEPT ![p] = "ended"]
  /\ open' = [open EXCEPT ![p] = [d \in FDs |-> None]]
  /\ afds' = [afds EXCEPT ![p] = {}]
  /\ rfds' = [rfds EXCEPT ![p] = {}]
  /\ exitPipe' = [exitPipe EXCEPT ![p] = 0]
  /\ broken' = broken \cup Held(p)
  /\ UNCHANGED <<fd, request, served, inherited>>

(* malloc or HInsert fails in UserLogin or UserNewPasswd (FATAL_ERROR), or *)
(* ListUsers, which has refused, frees a pointer that it never set; a bad  *)
(* access or a signal may come anywhere.                                   *)
Dies(p) ==
  /\ Alive(p)
  /\ Ends(p)
  /\ UNCHANGED <<connVars, catVars>>

(* Mutant of Select: every connection is served whenever one is ready.     *)
SelectAll(p) ==
  LET ready == {d \in afds[p] : Readable(open[p][d])} IN
  /\ pc[p] = "select"
  /\ ready # {} \/ backlog # <<>>
  /\ rfds' = [rfds EXCEPT ![p] = afds[p]]
  /\ pc' = [pc EXCEPT ![p] = IF backlog # <<>> THEN "accept" ELSE "serve"]
  /\ UNCHANGED <<open, afds, fd, request, exitPipe, connVars, history, catVars>>

Select(p) ==
  LET ready == {d \in afds[p] : Readable(open[p][d])} IN
  /\ pc[p] = "select"
  /\ ready # {} \/ backlog # <<>>
  /\ rfds' = [rfds EXCEPT ![p] = ready]
  /\ pc' = [pc EXCEPT ![p] = IF backlog # <<>> THEN "accept" ELSE "serve"]
  /\ UNCHANGED <<open, afds, fd, request, exitPipe, connVars, history, catVars>>

Free(p) == {d \in FDs : open[p][d] = None}

(* Mutant of Accept: the new connection is not added to afds.              *)
AcceptUnwatched(p) ==
  /\ pc[p] = "accept" /\ backlog # <<>> /\ Free(p) # {}
  /\ LET d == Lowest(Free(p)) IN
     open' = [open EXCEPT ![p][d] = Head(backlog)]
  /\ backlog' = Tail(backlog)
  /\ pc' = [pc EXCEPT ![p] = NextPc(rfds[p])]
  /\ UNCHANGED <<afds, rfds, fd, request, exitPipe, stage, typed, unread, inbox, shown,
                 history, catVars>>

(* The new connection is served in a later round.  If another process has  *)
(* accepted it in the meantime, acceptTCP waits for the next one.          *)
Accept(p) ==
  /\ pc[p] = "accept" /\ backlog # <<>> /\ Free(p) # {}
  /\ LET d == Lowest(Free(p)) IN
     /\ open' = [open EXCEPT ![p][d] = Head(backlog)]
     /\ afds' = [afds EXCEPT ![p] = @ \cup {d}]
  /\ backlog' = Tail(backlog)
  /\ pc' = [pc EXCEPT ![p] = NextPc(rfds[p])]
  /\ UNCHANGED <<rfds, fd, request, exitPipe, stage, typed, unread, inbox, shown,
                 history, catVars>>

(* Mutant of AcceptFails: the error goes unnoticed.                        *)
AcceptFailsUnnoticed(p) ==
  /\ pc[p] = "accept" /\ backlog # <<>>
  /\ Free(p) = {} \/ stage[Head(backlog)] \in {"closed", "lost"}
  /\ afds' = [afds EXCEPT ![p] = @ \cup {0}]
  /\ pc' = [pc EXCEPT ![p] = NextPc(rfds[p])]
  /\ backlog' = Tail(backlog)
  /\ UNCHANGED <<open, rfds, fd, request, exitPipe, stage, typed, unread, inbox, shown,
                 history, catVars>>

(* No descriptor is left, or the terminal has aborted the connection: the  *)
(* server ends.                                                            *)
AcceptFails(p) ==
  /\ pc[p] = "accept" /\ backlog # <<>>
  /\ \/ Free(p) = {} /\ UNCHANGED backlog
     \/ stage[Head(backlog)] \in {"closed", "lost"} /\ backlog' = Tail(backlog)
  /\ Ends(p)
  /\ UNCHANGED <<stage, typed, unread, inbox, shown, catVars>>

-----------------------------------------------------------------------------
(* receiveTCP.                                                             *)

(* The first recv, of the descriptors in their order.                      *)
ReceiveSize(p) ==
  LET d == Lowest(rfds[p])
      c == open[p][d] IN
  /\ pc[p] = "serve" /\ rfds[p] # {}
  /\ "size" \in unread[c]
  /\ unread' = [unread EXCEPT ![c] = @ \ {"size"}]
  /\ fd' = [fd EXCEPT ![p] = d]
  /\ pc' = [pc EXCEPT ![p] = "receive"]
  /\ UNCHANGED <<open, afds, rfds, request, exitPipe, backlog, stage, typed, inbox, shown,
                 history, catVars>>

(* Nothing but the end comes, or another process has taken the size: the   *)
(* size stays what it was in fresh memory, or is made of data.  Session    *)
(* then takes what follows for a request: mostly it has opCode 0 and no    *)
(* name, or an opCode that does not exist.                                 *)
ReceiveNoSize(p) ==
  LET d == Lowest(rfds[p])
      c == open[p][d] IN
  /\ pc[p] = "serve" /\ rfds[p] # {}
  /\ Readable(c) /\ "size" \notin unread[c]
  /\ unread' = [unread EXCEPT ![c] = {}]
  /\ fd' = [fd EXCEPT ![p] = d]
  /\ \E r \in {Nobody, Junk} : request' = [request EXCEPT ![p] = r]
  /\ pc' = [pc EXCEPT ![p] = "answer"]
  /\ UNCHANGED <<open, afds, rfds, exitPipe, backlog, stage, typed, inbox, shown,
                 history, catVars>>

(* Or calloc cannot give it what it wants and Session reads from NULL.     *)
ReceiveNull(p) ==
  LET c == open[p][Lowest(rfds[p])] IN
  /\ pc[p] = "serve" /\ rfds[p] # {}
  /\ Readable(c) /\ "size" \notin unread[c]
  /\ Ends(p)
  /\ UNCHANGED <<connVars, catVars>>

(* Mutant of ReceiveData: the memory of an earlier request is used again.  *)
ReceiveDataStale(p) ==
  LET c == Client(p) IN
  /\ pc[p] = "receive" /\ Readable(c)
  /\ request' = [request EXCEPT ![p] =
                   IF unread[c] = {} THEN Nobody ELSE IF @ \in Requests THEN @ ELSE typed[c]]
  /\ unread' = [unread EXCEPT ![c] = {}]
  /\ pc' = [pc EXCEPT ![p] = "answer"]
  /\ UNCHANGED <<open, afds, rfds, fd, exitPipe, backlog, stage, typed, inbox, shown,
                 history, catVars>>

(* The second recv.  calloc has filled with zeros what does not come.      *)
ReceiveData(p) ==
  LET c == Client(p) IN
  /\ pc[p] = "receive" /\ Readable(c)
  /\ request' = [request EXCEPT ![p] = IF unread[c] # {} THEN typed[c] ELSE Nobody]
  /\ unread' = [unread EXCEPT ![c] = {}]
  /\ pc' = [pc EXCEPT ![p] = "answer"]
  /\ UNCHANGED <<open, afds, rfds, fd, exitPipe, backlog, stage, typed, inbox, shown,
                 history, catVars>>

-----------------------------------------------------------------------------
(* Session.                                                                *)

(* A message to a terminal that has closed gives a SIGPIPE, sooner or      *)
(* later.                                                                  *)
Send(p, message) ==
  LET c == Client(p) IN
  /\ inbox' = [inbox EXCEPT ![c] =
                 IF stage[c] \in {"closed", "lost"} THEN @ ELSE Append(@, message)]
  /\ \/ UNCHANGED exitPipe
     \/ stage[c] = "closed" /\ exitPipe' = [exitPipe EXCEPT ![p] = 1]

Serves(p) ==
  served' = [served EXCEPT ![Client(p)] = @ + 1]

(* Mutant of Closed: FD_CLR is forgotten.                                  *)
ClosedNotCleared(p) ==
  /\ open' = [open EXCEPT ![p][fd[p]] = None]
  /\ rfds' = [rfds EXCEPT ![p] = @ \ {fd[p]}]
  /\ pc' = [pc EXCEPT ![p] = NextPc(rfds[p] \ {fd[p]})]
  /\ UNCHANGED <<afds, fd, request>>

(* Session has returned: close and FD_CLR, then the next descriptor.       *)
Closed(p) ==
  /\ open' = [open EXCEPT ![p][fd[p]] = None]
  /\ afds' = [afds EXCEPT ![p] = @ \ {fd[p]}]
  /\ rfds' = [rfds EXCEPT ![p] = @ \ {fd[p]}]
  /\ pc' = [pc EXCEPT ![p] = NextPc(rfds[p] \ {fd[p]})]
  /\ UNCHANGED <<fd, request>>

Answer(p) ==
  /\ pc[p] = "answer" /\ request[p] \in Requests /\ request[p].op = "ack"
  /\ Send(p, [code |-> "ACK"])
  /\ Serves(p)
  /\ pc' = [pc EXCEPT ![p] = "finish"]
  /\ UNCHANGED <<open, afds, rfds, fd, request, backlog, stage, typed, unread, shown,
                 inherited, broken, catVars>>

(* An order that cannot be paid because connectTCP fails, or because the   *)
(* payment service hangs up, leaves a socket open for ever.                *)
AnswerUnpaid(p) ==
  /\ pc[p] = "answer" /\ request[p] \in Requests /\ request[p].op = "ack"
  /\ Free(p) # {}
  /\ open' = [open EXCEPT ![p][Lowest(Free(p))] = Leaked]
  /\ Send(p, [code |-> "ACK"])
  /\ Serves(p)
  /\ pc' = [pc EXCEPT ![p] = "finish"]
  /\ UNCHANGED <<afds, rfds, fd, request, backlog, stage, typed, unread, shown,
                 inherited, broken, catVars>>

(* A request of zeros is a login without a name.                           *)
RefuseNobody(p) ==
  /\ pc[p] = "answer" /\ request[p] = Nobody
  /\ Send(p, [code |-> "USER_ERROR"])
  /\ pc' = [pc EXCEPT ![p] = "finish"]
  /\ UNCHANGED <<open, afds, rfds, fd, request, backlog, stage, typed, unread, shown,
                 history, catVars>>

(* Session returns ERROR without an answer.                                *)
IgnoreJunk(p) ==
  /\ pc[p] = "answer" /\ request[p] = Junk
  /\ Closed(p)
  /\ UNCHANGED <<exitPipe, connVars, history, catVars>>

(* What ListMoviesByGen, ListGens and ListUsers send.  There is no list of *)
(* users for a terminal without a session; what is in it is not modelled.  *)
NoneToList(r) ==
  \/ r.op = "list_movies" /\ GetMoviesByGenre(r.gen) = <<>>
  \/ r.op = "list_gens" /\ ListGenre = <<>>
Headers(r) ==
  IF r.op = "list_users" THEN {"LIST_OK", "REFUSED"}
  ELSE IF NoneToList(r) THEN {"LIST_ERROR"} ELSE {"LIST_OK"}
ListFor(r) ==
  IF r.op = "list_users" THEN [code |-> "USERS"]
  ELSE IF r.op = "list_movies" THEN [code |-> "LIST", movies |-> GetMoviesByGenre(r.gen)]
  ELSE [code |-> "LIST", gens |-> ListGenre]

(* The first of two messages, of which the second may not follow.          *)
AnswerHeader(p) ==
  /\ pc[p] = "answer" /\ request[p] \in Requests /\ request[p].op \in Lists
  /\ \E code \in Headers(request[p]) :
       /\ Send(p, [code |-> code])
       /\ pc' = [pc EXCEPT ![p] = IF code = "LIST_OK" THEN "list" ELSE "refused"]
  /\ Serves(p)
  /\ UNCHANGED <<open, afds, rfds, fd, request, backlog, stage, typed, unread, shown,
                 inherited, broken, catVars>>

AnswerList(p) ==
  /\ pc[p] = "list" /\ exitPipe[p] = 0
  /\ Send(p, ListFor(request[p]))
  /\ pc' = [pc EXCEPT ![p] = "finish"]
  /\ UNCHANGED <<open, afds, rfds, fd, request, backlog, stage, typed, unread, shown,
                 history, catVars>>

NoList(p) ==
  /\ pc[p] = "refused" \/ (pc[p] = "list" /\ exitPipe[p] = 1)
  /\ Closed(p)
  /\ exitPipe' = [exitPipe EXCEPT ![p] = 0]
  /\ UNCHANGED <<connVars, history, catVars>>

(* After its last message each handler clears the flag.                    *)
Finish(p) ==
  /\ pc[p] = "finish"
  /\ Closed(p)
  /\ exitPipe' = [exitPipe EXCEPT ![p] = 0]
  /\ UNCHANGED <<connVars, history, catVars>>

(* UserStartDownload is refused, or fork fails.                            *)
StartRefused(p) ==
  /\ pc[p] = "answer" /\ request[p] \in Requests /\ request[p].op = "start"
  /\ Closed(p) /\ Serves(p)
  /\ UNCHANGED <<exitPipe, connVars, inherited, broken, catVars>>

(* Mutant of Fork: the child begins with the request.                      *)
ForkAtRequest(p, child) ==
  /\ pc[p] = "answer" /\ request[p] \in Requests /\ request[p].op = "start"
  /\ pc[child] = "unborn" /\ child # First
  /\ pc' = [pc EXCEPT ![p] = "finish", ![child] = "answer"]
  /\ open' = [open EXCEPT ![child] = open[p]]
  /\ afds' = [afds EXCEPT ![child] = afds[p]]
  /\ rfds' = [rfds EXCEPT ![child] = rfds[p]]
  /\ fd' = [fd EXCEPT ![child] = fd[p]]
  /\ request' = [request EXCEPT ![child] = request[p]]
  /\ inherited' = inherited \cup {open[p][d] : d \in afds[p] \ {fd[p]}}
  /\ Serves(p)
  /\ UNCHANGED <<exitPipe, connVars, broken, catVars>>

(* It is granted: the parent goes on with the loop at once, the child when *)
(* it has sent the movie.                                                  *)
Fork(p, child) ==
  /\ pc[p] = "answer" /\ request[p] \in Requests /\ request[p].op = "start"
  /\ pc[child] = "unborn" /\ child # First
  /\ pc' = [pc EXCEPT ![p] = "finish", ![child] = "sending"]
  /\ open' = [open EXCEPT ![child] = open[p]]
  /\ afds' = [afds EXCEPT ![child] = afds[p]]
  /\ rfds' = [rfds EXCEPT ![child] = rfds[p]]
  /\ fd' = [fd EXCEPT ![child] = fd[p]]
  /\ request' = [request EXCEPT ![child] = request[p]]
  /\ inherited' = inherited \cup {open[p][d] : d \in afds[p] \ {fd[p]}}
  /\ Serves(p)
  /\ UNCHANGED <<exitPipe, connVars, broken, catVars>>

SendMovieReturns(p) ==
  /\ pc[p] = "sending"
  /\ Closed(p)
  /\ UNCHANGED <<exitPipe, connVars, history, catVars>>

Session(p) ==
  \/ Answer(p) \/ AnswerUnpaid(p) \/ RefuseNobody(p) \/ IgnoreJunk(p)
  \/ AnswerHeader(p) \/ AnswerList(p) \/ NoList(p) \/ Finish(p)
  \/ StartRefused(p) \/ \E child \in Process : Fork(p, child)

Server(p) ==
  \/ Select(p) \/ Accept(p) \/ AcceptFails(p)
  \/ ReceiveSize(p) \/ ReceiveNoSize(p) \/ ReceiveNull(p) \/ ReceiveData(p)
  \/ Session(p)

Next ==
  \/ Load \/ Start
  \/ \E c \in Clients : Terminal(c)
  \/ \E p \in Process : Server(p) \/ SendMovieReturns(p) \/ Dies(p)

Spec == Init /\ [][Next]_vars

(* The process stands in a search of the directory, which has no timeout,  *)
(* or in the send of a list to a terminal that does not read it.           *)
Waits(p) ==
  \/ pc[p] = "list" /\ exitPipe[p] = 0
  \/ pc[p] = "answer" /\ request[p] = Nobody
  \/ pc[p] = "answer" /\ request[p] \in Requests /\ request[p].op \in {"ack", "list_users"}

(* The server goes on when it does not wait for anybody, and a terminal    *)
(* that is between the two sends of sendTCP does not stay there.           *)
FairSpec ==
  /\ Spec
  /\ \A p \in Process : WF_vars(Server(p) /\ ~Waits(p))
  /\ \A c \in Clients : WF_vars(SendData(c))

-----------------------------------------------------------------------------
(* What comes through, field by field.                                     *)

(* The messages that make up a request, behind the header.                 *)
Messages(long, op) ==
  {Header(long)} \cup
  CASE op = "ack"         -> {Login(long), NewUser(long), Buy(long), Request(long)}
    [] op = "list_movies" -> {ListMovies(long)}
    [] op \in {"list_gens", "list_users"} -> {}
    [] op = "start"       -> {DownloadStart(long)}

Fields(message) == {message.struct[i] : i \in DOMAIN message.struct}
WholeMessage(message) == Total(message.writer)

(* What of a message does not come through.                                *)
Lost(long, message) ==
  Fields(message) \ Arriving(long, message, 1, WholeMessage(message))

(* For each way to make a request, what of it.                             *)
Losses == [long \in LongSizes |-> [op \in Ops |->
             UNION {Lost(long, m) : m \in Messages(long, op)}]]

(* What of the answers of the servers and of the parts of a movie.         *)
AnswersLost == [long \in LongSizes |->
  UNION {Lost(long, m) : m \in {Header(long), Ack(long), BuyTicket(long), Gens(long),
                                Packet(long), Location(long)}}]

(* What of the answer to a download.                                       *)
DownloadHeaderLost == [long \in LongSizes |-> Lost(long, DownloadHeader(long))]

(* What of the cyphered messages: an order and a new password, which are   *)
(* sent with their padding, and the k-th of n users, sent without.         *)
CypheredLost == [long \in LongSizes |->
  (Fields(Buy(long)) \ Arriving(long, Buy(long), 1, BuySent(long)))
    \cup (Fields(Login(long)) \ Arriving(long, Login(long), 1, PasswordSent(long)))]
UsersLost == [long \in LongSizes |-> [n \in 1..3 |-> [k \in 1..n |->
  Fields(Users(long)) \ Arriving(long, Users(long), k, UsersSent(long, n))]]]

(* Of the k-th movie of a list, what does.                                 *)
Decoded == [long \in LongSizes |-> [k \in 1..3 |->
              Arriving(long, Movies(long), k, 3 * WholeMessage(Movies(long)))]]

TicketBytes == [long \in LongSizes |->
  Leading(long, DownloadStart(long), 1, WholeMessage(DownloadStart(long)), "ticket")]

-----------------------------------------------------------------------------
(* Properties.                                                             *)

Stages == {"idle", "connected", "half", "waiting", "listing", "closed", "lost"}
Messaged ==
  [code : {"ACK", "USER_ERROR", "LIST_ERROR", "LIST_OK", "REFUSED", "USERS", "BLANK", "ZERO"}]
    \cup [code : {"LIST"}, gens : Seq(Genres)]
    \cup [code : {"LIST"}, movies : Seq(Movie)]

(* Types; afds never has another descriptor than those of connections (not *)
(* the error that acceptTCP returns).                                      *)
TypeOK ==
  /\ CatTypeOK
  /\ pc \in [Process -> {"unborn", "select", "accept", "serve", "receive", "answer",
                         "list", "refused", "finish", "sending", "ended"}]
  /\ open \in [Process -> [FDs -> Clients \cup {None, Leaked}]]
  /\ afds \in [Process -> SUBSET FDs]
  /\ rfds \in [Process -> SUBSET FDs]
  /\ fd \in [Process -> FDs \cup {0}]
  /\ request \in [Process -> Requests \cup {Nobody, Junk}]
  /\ exitPipe \in [Process -> {0, 1}]
  /\ backlog \in Seq(Clients)
  /\ stage \in [Clients -> Stages]
  /\ typed \in [Clients -> Requests \cup {None}]
  /\ unread \in [Clients -> SUBSET {"size", "data"}]
  /\ inbox \in [Clients -> Seq(Messaged)]
  /\ shown \in [Clients -> Messaged \cup {None}]
  /\ served \in [Clients -> Nat]
  /\ inherited \subseteq Clients /\ broken \subseteq Clients

(* The sets of the select loop and the descriptors agree: select is called *)
(* for the open connections and no other, what is served is ready and open *)
(* (close and FD_CLR go together on every path, and lists that give up in  *)
(* the middle are closed too), and no connection is left behind.  With the *)
(* connection its SIGPIPE is forgotten: the flag that it sets never cuts   *)
(* the answer to the next terminal.                                        *)
DescriptorsAreOpen ==
  \A p \in Process :
    /\ afds[p] = {d \in FDs : open[p][d] \in Clients}
    /\ rfds[p] \subseteq afds[p]
    /\ pc[p] \in {"receive", "answer", "list", "refused", "finish", "sending"} =>
         fd[p] \in rfds[p]
    /\ pc[p] = "serve" => rfds[p] # {}
    /\ exitPipe[p] = 1 => pc[p] \in {"list", "refused", "finish"}

(* A request is acted on once: a child that returns into the loop with the *)
(* connections of its parent does not repeat what either of them reads.    *)
ServedOnce == \A c \in Clients : served[c] <= 1

(* The process stands in a recv that has nothing to return.                *)
StandsFor(p, c) ==
  \/ pc[p] = "serve" /\ c = open[p][Lowest(rfds[p])] /\ ~Readable(c)
  \/ pc[p] = "receive" /\ c = Client(p) /\ ~Readable(c)

(* A terminal that is connected and silent stops nobody.  The server only  *)
(* stands still for a message of which the size has come and the rest not, *)
(* or, once it has forked, for a connection that parent and child share.   *)
BlockedOnlyByLost ==
  \A p \in Process, c \in Clients :
    StandsFor(p, c) => stage[c] \in {"half", "lost"} \/ c \in inherited

(* The list that a terminal gets is the catalogue: all the genres, or all  *)
(* the movies of the genre it asked for, never the list of another one     *)
(* that the same process has served before.  (What of each entry comes     *)
(* through is MessagesArriveWhole; with longs of eight bytes only the      *)
(* first movie does.)  A terminal that has nothing to show, or shows blank *)
(* entries, has asked for what is not there, or has lost its connection:   *)
(* with the process that had it, in the middle of a message, or to parent  *)
(* and child who both read it.  The server closes on nobody else before    *)
(* its answer is complete.                                                 *)
TerminalGetsTheCatalogue ==
  \A c \in Clients : shown[c] # None =>
    /\ shown[c].code \in {"LIST", "USERS"} => shown[c] = ListFor(typed[c])
    /\ shown[c].code = "LIST_ERROR" =>
         NoneToList(typed[c]) \/ c \in broken \cup inherited
    /\ shown[c].code \in {"BLANK", "ZERO"} => c \in broken \cup inherited

(* What one side reads from a message is what the other wrote, with longs  *)
(* of either size: the fields are at the same place on both sides, the     *)
(* padding of a cyphered message is sent with it, and the struct that      *)
(* UserDownload sends instead of its packing has the status, the title and *)
(* the path where the terminal looks for them.  Of the start of a download *)
(* the ticket comes through up to ten characters, more than a ticket has.  *)
(* The last of the users of a list comes without the level and the end of  *)
(* the description, unless the list fills its last block.  A list of       *)
(* movies comes with what the terminal shows, but with longs of eight      *)
(* bytes only the first of them: the two programs then disagree on the     *)
(* length of a record.                                                     *)
MessagesArriveWhole ==
  /\ \A p \in Process : pc[p] = "answer" /\ request[p] \in Requests =>
       \A long \in LongSizes :
         /\ Losses[long][request[p].op] \subseteq {"ticket"}
         /\ "ticket" \in Losses[long][request[p].op] =>
              request[p].op = "start" /\ TicketBytes[long] = 10
  /\ \A long \in LongSizes :
       /\ AnswersLost[long] = {}
       /\ CypheredLost[long] = {}
       /\ DownloadHeaderLost[long] \subseteq {"total_packets", "size"}
       /\ \A n \in 1..3, k \in 1..3 : k <= n =>
            UsersLost[long][n][k] \subseteq
              (IF k < n THEN {"passwd"} ELSE {"passwd", "desc", "level"})
       /\ \A k \in 1..3 : long = 4 \/ k = 1 =>
            {"name", "gen", "plot", "duration", "value"} \subseteq Decoded[long][k]

(* A request that was sent whole is acted on while its terminal waits: no  *)
(* connection is forgotten, and no other terminal that comes, gives up or  *)
(* is slow to send keeps the server from it.  What does: the end of a      *)
(* process, a directory that never answers or a terminal that does not     *)
(* read its list, a host that vanishes within a message, and a fork, after *)
(* which parent and child read the same connections and accept from the    *)
(* same queue.                                                             *)
ServedAtLast ==
  \A c \in Clients :
    (stage[c] = "waiting") ~>
      \/ served[c] > 0 \/ stage[c] # "waiting"
      \/ \E p \in Process : pc[p] = "ended"
      \/ \E p \in Process : []Waits(p)
      \/ \E p \in Process, b \in Clients :
           StandsFor(p, b) /\ (stage[b] = "lost" \/ b \in inherited)
      \/ c \in inherited
      \/ \E p \in Process : pc[p] = "accept" /\ backlog = <<>>
=============================================================================
