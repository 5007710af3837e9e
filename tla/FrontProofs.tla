----------------------------- MODULE FrontProofs -----------------------------
(* Theorems about Front, for every number of terminals, processes and     *)
(* descriptors, every catalogue and every length of the queue.            *)
EXTENDS Front, FiniteSetTheorems, WellFoundedInduction, TLAPS

USE DEF history

-----------------------------------------------------------------------------
(* The least number of a set; the lowest descriptor is one of its set.    *)

LEMMA NatWellFounded == IsWellFoundedOn({ss \in Nat \X Nat : ss[1] < ss[2]}, Nat)
  <1>1. IsWellFoundedOn(OpToRel(<, Nat), Nat)
    BY NatLessThanWellFounded, Zenon
  <1>. QED BY <1>1, Zenon DEF OpToRel

LEMMA Minimal ==
    ASSUME NEW R, NEW S, IsWellFoundedOn(R, S), NEW T, T \subseteq S, T # {}
    PROVE  \E x \in T : \A y \in T : <<y, x>> \notin R
  BY WFMin

LEMMA LeastIsMin ==
    ASSUME NEW S \in SUBSET Nat, S # {}
    PROVE  Min(S) \in S /\ \A i \in S : Min(S) <= i
  <1>. DEFINE R == {ss \in Nat \X Nat : ss[1] < ss[2]}
  <1>1. IsWellFoundedOn(R, Nat)
    BY NatWellFounded
  <1>2. \A i, j \in S : <<j, i>> \notin R => i <= j
    OBVIOUS
  <1>. HIDE DEF R
  <1>3. \E i \in S : \A j \in S : <<j, i>> \notin R
    BY <1>1, Minimal, Zenon
  <1>4. \E i \in S : \A j \in S : i <= j
    BY <1>2, <1>3
  <1>. QED BY <1>4 DEF Min

LEMMA LowestIsIn ==
    ASSUME NEW ds \in SUBSET FDs, ds # {}
    PROVE  Lowest(ds) \in ds
  <1>1. ds \in SUBSET Nat
    BY FrontAssumption
  <1>2. Min(ds) \in ds /\ \A d \in ds : Min(ds) <= d
    BY <1>1, LeastIsMin
  <1>. QED BY <1>2 DEF Lowest

-----------------------------------------------------------------------------
(* The inductive invariant.                                               *)

Places == {"unborn", "select", "accept", "serve", "receive", "answer", "list", "refused",
           "finish", "sending", "ended"}

LoopTypes ==
  /\ pc \in [Process -> Places]
  /\ open \in [Process -> [FDs -> Clients \cup {None, Leaked}]]
  /\ afds \in [Process -> SUBSET FDs]
  /\ rfds \in [Process -> SUBSET FDs]
  /\ fd \in [Process -> FDs \cup {0}]
  /\ request \in [Process -> Requests \cup {Nobody, Junk}]
  /\ exitPipe \in [Process -> {0, 1}]
  /\ backlog \in Seq(Clients)
  /\ stage \in [Clients -> Stages]
  /\ typed \in [Clients -> Requests \cup {None}]
  /\ unread \in [Clients -> SUBSET {"size", "data"}]
  /\ served \in [Clients -> {0, 1}]

(* The process has read the request of c and not acted on it yet.         *)
HasRequest(p, c) ==
  pc[p] = "answer" /\ request[p] \in Requests /\ Client(p) = c

(* The request of a terminal is at one place: not sent, unread, read by   *)
(* one process, or acted on.                                              *)
OnePlace ==
  \A c \in Clients :
    /\ stage[c] # "idle" => typed[c] \in Requests
    /\ stage[c] \in {"idle", "connected"} => unread[c] = {}
    /\ stage[c] = "half" => "data" \notin unread[c]
    /\ stage[c] \in {"idle", "connected", "half"} \/ "data" \in unread[c] =>
         served[c] = 0 /\ \A p \in Process : ~HasRequest(p, c)
    /\ served[c] = 1 => \A p \in Process : ~HasRequest(p, c)
    /\ \A p, q \in Process : HasRequest(p, c) /\ HasRequest(q, c) => p = q

(* Who waits for the rest of a message has its size.                      *)
SizeIsTaken ==
  \A p \in Process : pc[p] = "receive" =>
    /\ "size" \notin unread[Client(p)]
    /\ stage[Client(p)] \notin {"idle", "connected"}

LoopInv == LoopTypes /\ DescriptorsAreOpen /\ OnePlace /\ SizeIsTaken

LEMMA InitLoopInv == Init => LoopInv
  <1>. SUFFICES ASSUME Init PROVE LoopInv
    OBVIOUS
  <1>1. LoopTypes
    BY FrontAssumption DEF Init, LoopTypes, Places, Stages
  <1>2. DescriptorsAreOpen
    BY FrontAssumption DEF Init, DescriptorsAreOpen
  <1>3. OnePlace /\ SizeIsTaken
    BY DEF Init, OnePlace, SizeIsTaken, HasRequest
  <1>. QED BY <1>1, <1>2, <1>3 DEF LoopInv

(* Who serves a connection has it open.                                   *)
LEMMA ClientIsClient ==
    ASSUME LoopInv, NEW p \in Process,
           pc[p] \in {"receive", "answer", "list", "refused", "finish", "sending"}
    PROVE  fd[p] \in rfds[p] /\ fd[p] \in FDs /\ Client(p) \in Clients
  BY DEF LoopInv, LoopTypes, DescriptorsAreOpen, Client

LEMMA ServedIsClient ==
    ASSUME LoopInv, NEW p \in Process, pc[p] = "serve"
    PROVE  /\ Lowest(rfds[p]) \in rfds[p] /\ Lowest(rfds[p]) \in FDs
           /\ open[p][Lowest(rfds[p])] \in Clients
  <1>1. rfds[p] \in SUBSET FDs /\ rfds[p] # {} /\ rfds[p] \subseteq afds[p]
    BY DEF LoopInv, LoopTypes, DescriptorsAreOpen
  <1>2. Lowest(rfds[p]) \in rfds[p]
    BY <1>1, LowestIsIn
  <1>. QED BY <1>1, <1>2 DEF LoopInv, DescriptorsAreOpen

-----------------------------------------------------------------------------
(* The steps of terminals and of the loading keep it.                     *)

LEMMA LoadKeeps ==
    ASSUME LoopInv, Load \/ UNCHANGED vars
    PROVE  LoopInv'
  BY DEF Load, LoopInv, LoopTypes, DescriptorsAreOpen, OnePlace, SizeIsTaken, HasRequest,
         Client, vars, procVars, connVars

LEMMA StartKeeps ==
    ASSUME LoopInv, Start
    PROVE  LoopInv'
  <1>1. LoopTypes'
    BY FrontAssumption DEF Start, LoopInv, LoopTypes, Places, connVars
  <1>2. DescriptorsAreOpen'
    BY DEF Start, LoopInv, LoopTypes, DescriptorsAreOpen
  <1>3. OnePlace' /\ SizeIsTaken'
    BY DEF Start, LoopInv, LoopTypes, OnePlace, SizeIsTaken, HasRequest, Client, connVars
  <1>. QED BY <1>1, <1>2, <1>3 DEF LoopInv

LEMMA TerminalKeeps ==
    ASSUME LoopInv, NEW c \in Clients, Terminal(c)
    PROVE  LoopInv'
  <1>. USE DEF LoopInv
  <1>1. UNCHANGED <<pc, open, afds, rfds, fd, request, exitPipe, served>>
    BY DEF Terminal, Connect, SendSize, SendData, Receive, ReceiveList, ReceiveLess, GivesUp,
           Vanishes, procVars
  <1>2. DescriptorsAreOpen'
    BY <1>1 DEF DescriptorsAreOpen
  <1>3. CASE Connect(c)
    <2>1. LoopTypes'
      BY <1>1, <1>3 DEF Connect, LoopTypes, Stages
    <2>2. OnePlace' /\ SizeIsTaken'
      BY <1>1, <1>3 DEF Connect, LoopTypes, OnePlace, SizeIsTaken, HasRequest, Client
    <2>. QED BY <1>2, <2>1, <2>2
  <1>4. CASE SendSize(c)
    <2>1. LoopTypes'
      BY <1>1, <1>4 DEF SendSize, LoopTypes, Stages
    <2>2. OnePlace' /\ SizeIsTaken'
      BY <1>1, <1>4 DEF SendSize, LoopTypes, OnePlace, SizeIsTaken, HasRequest, Client
    <2>. QED BY <1>2, <2>1, <2>2
  <1>5. CASE SendData(c)
    <2>1. LoopTypes'
      BY <1>1, <1>5 DEF SendData, LoopTypes, Stages
    <2>2. OnePlace' /\ SizeIsTaken'
      BY <1>1, <1>5 DEF SendData, LoopTypes, OnePlace, SizeIsTaken, HasRequest, Client
    <2>. QED BY <1>2, <2>1, <2>2
  <1>6. CASE Receive(c) \/ ReceiveList(c) \/ ReceiveLess(c) \/ GivesUp(c) \/ Vanishes(c)
    <2>1. /\ UNCHANGED <<backlog, typed, unread>>
          /\ stage[c] \notin {"idle"}
          /\ \E s \in {"listing", "closed", "lost"} : stage' = [stage EXCEPT ![c] = s]
      BY <1>6 DEF Receive, ReceiveList, ReceiveLess, GivesUp, Vanishes
    <2>2. LoopTypes'
      BY <1>1, <2>1 DEF LoopTypes, Stages
    <2>3. OnePlace' /\ SizeIsTaken'
      BY <1>1, <2>1 DEF LoopTypes, OnePlace, SizeIsTaken, HasRequest, Client
    <2>. QED BY <1>2, <2>2, <2>3
  <1>. QED BY <1>3, <1>4, <1>5, <1>6 DEF Terminal

-----------------------------------------------------------------------------
(* The steps of the loop keep it.                                         *)

LEMMA SelectKeeps ==
    ASSUME LoopInv, NEW p \in Process, Select(p)
    PROVE  LoopInv'
  <1>. USE DEF LoopInv
  <1>1. LoopTypes'
    BY DEF Select, LoopTypes, Places, connVars
  <1>2. DescriptorsAreOpen'
    BY DEF Select, LoopTypes, DescriptorsAreOpen
  <1>3. OnePlace' /\ SizeIsTaken'
    BY DEF Select, LoopTypes, OnePlace, SizeIsTaken, HasRequest, Client, connVars
  <1>. QED BY <1>1, <1>2, <1>3

LEMMA AcceptKeeps ==
    ASSUME LoopInv, NEW p \in Process, Accept(p)
    PROVE  LoopInv'
  <1>. USE DEF LoopInv
  <1>. DEFINE d == Lowest(Free(p))
              c == Head(backlog)
  <1>1. d \in FDs /\ open[p][d] = None
    <2>1. Free(p) \in SUBSET FDs /\ Free(p) # {}
      BY DEF Accept, Free
    <2>. QED BY <2>1, LowestIsIn DEF Free
  <1>2. c \in Clients /\ Tail(backlog) \in Seq(Clients)
    BY DEF Accept, LoopTypes
  <1>3. /\ open' = [open EXCEPT ![p][d] = c] /\ afds' = [afds EXCEPT ![p] = @ \cup {d}]
        /\ backlog' = Tail(backlog) /\ pc[p] = "accept"
        /\ pc' = [pc EXCEPT ![p] = NextPc(rfds[p])]
        /\ UNCHANGED <<rfds, fd, request, exitPipe, stage, typed, unread, served>>
    BY DEF Accept
  <1>. HIDE DEF d, c
  <1>4. LoopTypes'
    BY <1>1, <1>2, <1>3 DEF LoopTypes, Places, NextPc
  <1>5. DescriptorsAreOpen'
    BY <1>1, <1>2, <1>3, FrontAssumption DEF LoopTypes, DescriptorsAreOpen, NextPc
  <1>6. OnePlace' /\ SizeIsTaken'
    BY <1>1, <1>3 DEF LoopTypes, OnePlace, SizeIsTaken, HasRequest, Client, NextPc
  <1>. QED BY <1>4, <1>5, <1>6

(* A process that ends.                                                   *)
LEMMA EndsKeeps ==
    ASSUME LoopInv, NEW p \in Process, Ends(p), backlog' \in Seq(Clients),
           UNCHANGED <<stage, typed, unread, served>>
    PROVE  LoopInv'
  <1>. USE DEF LoopInv
  <1>1. LoopTypes'
    BY DEF Ends, LoopTypes, Places
  <1>2. DescriptorsAreOpen'
    BY FrontAssumption DEF Ends, LoopTypes, DescriptorsAreOpen
  <1>3. OnePlace' /\ SizeIsTaken'
    BY DEF Ends, LoopTypes, OnePlace, SizeIsTaken, HasRequest, Client
  <1>. QED BY <1>1, <1>2, <1>3

LEMMA FailureKeeps ==
    ASSUME LoopInv, NEW p \in Process, AcceptFails(p) \/ ReceiveNull(p) \/ Dies(p)
    PROVE  LoopInv'
  <1>1. Ends(p) /\ UNCHANGED <<stage, typed, unread, served>>
    BY DEF AcceptFails, ReceiveNull, Dies, Ends, connVars
  <1>2. backlog' \in Seq(Clients)
    <2>1. backlog \in Seq(Clients)
      BY DEF LoopInv, LoopTypes
    <2>2. CASE AcceptFails(p)
      BY <2>1, <2>2 DEF AcceptFails
    <2>3. CASE ReceiveNull(p) \/ Dies(p)
      BY <2>1, <2>3 DEF ReceiveNull, Dies, connVars
    <2>. QED BY <2>2, <2>3
  <1>. QED BY <1>1, <1>2, EndsKeeps

LEMMA ReceiveSizeKeeps ==
    ASSUME LoopInv, NEW p \in Process, ReceiveSize(p)
    PROVE  LoopInv'
  <1>. USE DEF LoopInv
  <1>. DEFINE d == Lowest(rfds[p])
              c == open[p][d]
  <1>1. d \in rfds[p] /\ d \in FDs /\ c \in Clients /\ pc[p] = "serve"
    BY ServedIsClient DEF ReceiveSize
  <1>2. /\ "size" \in unread[c] /\ unread' = [unread EXCEPT ![c] = @ \ {"size"}]
        /\ fd' = [fd EXCEPT ![p] = d] /\ pc' = [pc EXCEPT ![p] = "receive"]
        /\ UNCHANGED <<open, afds, rfds, request, exitPipe, backlog, stage, typed, served>>
    BY DEF ReceiveSize
  <1>. HIDE DEF d
  <1>4. LoopTypes'
    BY <1>1, <1>2 DEF LoopTypes, Places
  <1>5. DescriptorsAreOpen'
    BY <1>1, <1>2 DEF LoopTypes, DescriptorsAreOpen
  <1>6. OnePlace'
    BY <1>1, <1>2 DEF LoopTypes, OnePlace, HasRequest, Client
  <1>7. SizeIsTaken'
    BY <1>1, <1>2 DEF LoopTypes, OnePlace, SizeIsTaken, Client
  <1>. QED BY <1>4, <1>5, <1>6, <1>7

LEMMA ReceiveNoSizeKeeps ==
    ASSUME LoopInv, NEW p \in Process, ReceiveNoSize(p)
    PROVE  LoopInv'
  <1>. USE DEF LoopInv
  <1>. DEFINE d == Lowest(rfds[p])
              c == open[p][d]
  <1>1. d \in rfds[p] /\ d \in FDs /\ c \in Clients /\ pc[p] = "serve"
    BY ServedIsClient DEF ReceiveNoSize
  <1>2. /\ unread' = [unread EXCEPT ![c] = {}]
        /\ fd' = [fd EXCEPT ![p] = d] /\ pc' = [pc EXCEPT ![p] = "answer"]
        /\ UNCHANGED <<open, afds, rfds, exitPipe, backlog, stage, typed, served>>
    BY DEF ReceiveNoSize
  <1>3. PICK r \in {Nobody, Junk} : request' = [request EXCEPT ![p] = r]
    BY DEF ReceiveNoSize
  <1>. HIDE DEF d
  <1>4. LoopTypes'
    BY <1>1, <1>2, <1>3 DEF LoopTypes, Places
  <1>5. DescriptorsAreOpen'
    BY <1>1, <1>2 DEF LoopTypes, DescriptorsAreOpen
  <1>6. OnePlace'
    <2>1. request'[p] \notin Requests
      BY <1>3, FrontAssumption DEF LoopTypes
    <2>. QED BY <1>1, <1>2, <1>3, <2>1 DEF LoopTypes, OnePlace, HasRequest, Client
  <1>7. SizeIsTaken'
    BY <1>1, <1>2 DEF LoopTypes, SizeIsTaken, Client
  <1>. QED BY <1>4, <1>5, <1>6, <1>7

LEMMA ReceiveDataKeeps ==
    ASSUME LoopInv, NEW p \in Process, ReceiveData(p)
    PROVE  LoopInv'
  <1>. USE DEF LoopInv
  <1>. DEFINE c == Client(p)
  <1>1. c \in Clients /\ pc[p] = "receive"
    BY ClientIsClient DEF ReceiveData
  <1>2. /\ unread' = [unread EXCEPT ![c] = {}] /\ pc' = [pc EXCEPT ![p] = "answer"]
        /\ request' = [request EXCEPT ![p] = IF unread[c] # {} THEN typed[c] ELSE Nobody]
        /\ UNCHANGED <<open, afds, rfds, fd, exitPipe, backlog, stage, typed, served>>
    BY DEF ReceiveData
  <1>3. "size" \notin unread[c] /\ stage[c] \notin {"idle", "connected"}
    BY <1>1 DEF SizeIsTaken
  <1>4. typed[c] \in Requests
    BY <1>1, <1>3 DEF OnePlace
  <1>5. \A b \in Clients : HasRequest(p, b)' => b = c /\ "data" \in unread[c]
    BY <1>1, <1>2, <1>3, FrontAssumption DEF LoopTypes, HasRequest, Client
  <1>6. \A q \in Process, b \in Clients : q # p => (HasRequest(q, b)' <=> HasRequest(q, b))
    BY <1>2 DEF LoopTypes, HasRequest, Client
  <1>. HIDE DEF c
  <1>7. LoopTypes'
    BY <1>1, <1>2, <1>4 DEF LoopTypes, Places
  <1>8. DescriptorsAreOpen'
    BY <1>1, <1>2 DEF LoopTypes, DescriptorsAreOpen, c
  <1>9. OnePlace'
    <2>. SUFFICES ASSUME NEW b \in Clients
                  PROVE  /\ stage[b] # "idle" => typed[b] \in Requests
                         /\ stage[b] \in {"idle", "connected"} => unread'[b] = {}
                         /\ stage[b] = "half" => "data" \notin unread'[b]
                         /\ stage[b] \in {"idle", "connected", "half"} \/ "data" \in unread'[b] =>
                              served[b] = 0 /\ \A q \in Process : ~HasRequest(q, b)'
                         /\ served[b] = 1 => \A q \in Process : ~HasRequest(q, b)'
                         /\ \A q, r \in Process :
                              HasRequest(q, b)' /\ HasRequest(r, b)' => q = r
      BY <1>2 DEF OnePlace
    <2>1. unread'[b] = IF b = c THEN {} ELSE unread[b]
      BY <1>1, <1>2 DEF LoopTypes
    <2>. QED BY <1>1, <1>5, <1>6, <2>1 DEF OnePlace
  <1>10. SizeIsTaken'
    BY <1>1, <1>2 DEF LoopTypes, SizeIsTaken, Client
  <1>. QED BY <1>7, <1>8, <1>9, <1>10

-----------------------------------------------------------------------------
(* The steps of Session keep it.                                          *)

(* Acting on a request: the process goes on to something else.            *)
LEMMA ServingKeeps ==
    ASSUME LoopInv, NEW p \in Process,
           pc[p] = "answer", request[p] \in Requests, Serves(p),
           \A r \in Process, b \in Clients :
             HasRequest(r, b)' <=> HasRequest(r, b) /\ r # p,
           UNCHANGED <<stage, typed, unread>>
    PROVE  OnePlace' /\ served' \in [Clients -> {0, 1}]
  <1>1. PICK c \in Clients : c = Client(p)
    BY ClientIsClient
  <1>2. HasRequest(p, c)
    BY <1>1 DEF HasRequest
  <1>3. /\ served[c] = 0 /\ "data" \notin unread[c]
        /\ stage[c] \notin {"idle", "connected", "half"}
    BY <1>2 DEF LoopInv, LoopTypes, OnePlace
  <1>4. served' = [served EXCEPT ![c] = 1]
    BY <1>1, <1>3 DEF LoopInv, LoopTypes, Serves
  <1>5. \A r \in Process : ~HasRequest(r, c)'
    <2>1. \A r \in Process : HasRequest(r, c) => r = p
      BY <1>2, Zenon DEF LoopInv, OnePlace
    <2>. QED BY <2>1
  <1>6. served' \in [Clients -> {0, 1}]
    BY <1>4 DEF LoopInv, LoopTypes
  <1>7. OnePlace'
    BY <1>3, <1>4, <1>5 DEF LoopInv, LoopTypes, OnePlace
  <1>. QED BY <1>6, <1>7

(* Closing a connection that is served, with or without acting on it.     *)
LEMMA ClosedKeeps ==
    ASSUME LoopInv, NEW p \in Process, Closed(p),
           pc[p] \in {"answer", "list", "refused", "finish", "sending"},
           \/ UNCHANGED served
           \/ pc[p] = "answer" /\ request[p] \in Requests /\ Serves(p),
           \/ exitPipe' = [exitPipe EXCEPT ![p] = 0]
           \/ UNCHANGED exitPipe /\ pc[p] \in {"answer", "sending"},
           UNCHANGED <<backlog, stage, typed, unread>>
    PROVE  LoopInv'
  <1>. USE DEF LoopInv
  <1>1. fd[p] \in rfds[p] /\ fd[p] \in FDs /\ Client(p) \in Clients
    BY ClientIsClient
  <1>2. \A r \in Process, b \in Clients : HasRequest(r, b)' <=> HasRequest(r, b) /\ r # p
    BY DEF Closed, NextPc, LoopTypes, HasRequest, Client
  <1>3. OnePlace' /\ served' \in [Clients -> {0, 1}]
    <2>1. CASE UNCHANGED served
      BY <1>2, <2>1 DEF LoopTypes, OnePlace
    <2>2. CASE pc[p] = "answer" /\ request[p] \in Requests /\ Serves(p)
      BY <1>2, <2>2, ServingKeeps
    <2>. QED BY <2>1, <2>2
  <1>4. LoopTypes'
    BY <1>1, <1>3 DEF Closed, NextPc, LoopTypes, Places
  <1>5. DescriptorsAreOpen'
    BY <1>1, FrontAssumption DEF Closed, NextPc, LoopTypes, DescriptorsAreOpen
  <1>6. SizeIsTaken'
    BY DEF Closed, NextPc, LoopTypes, SizeIsTaken, Client
  <1>. QED BY <1>3, <1>4, <1>5, <1>6

LEMMA ClosingKeeps ==
    ASSUME LoopInv, NEW p \in Process,
           IgnoreJunk(p) \/ NoList(p) \/ Finish(p) \/ StartRefused(p) \/ SendMovieReturns(p)
    PROVE  LoopInv'
  <1>1. /\ Closed(p) /\ pc[p] \in {"answer", "list", "refused", "finish", "sending"}
        /\ \/ UNCHANGED served
           \/ pc[p] = "answer" /\ request[p] \in Requests /\ Serves(p)
        /\ \/ exitPipe' = [exitPipe EXCEPT ![p] = 0]
           \/ UNCHANGED exitPipe /\ pc[p] \in {"answer", "sending"}
        /\ UNCHANGED <<backlog, stage, typed, unread>>
    BY DEF IgnoreJunk, NoList, Finish, StartRefused, SendMovieReturns, connVars
  <1>. QED BY <1>1, ClosedKeeps

(* Sending something while the connection stays open.                     *)
LEMMA SentKeeps ==
    ASSUME LoopInv, NEW p \in Process, NEW place \in {"list", "refused", "finish"},
           pc[p] \in {"answer", "list"}, pc' = [pc EXCEPT ![p] = place],
           exitPipe' \in {exitPipe, [exitPipe EXCEPT ![p] = 1]},
           \/ UNCHANGED open
           \/ Free(p) # {} /\ open' = [open EXCEPT ![p][Lowest(Free(p))] = Leaked],
           \/ UNCHANGED served
           \/ pc[p] = "answer" /\ request[p] \in Requests /\ Serves(p),
           UNCHANGED <<afds, rfds, fd, request, backlog, stage, typed, unread>>
    PROVE  LoopInv'
  <1>. USE DEF LoopInv
  <1>1. fd[p] \in rfds[p] /\ fd[p] \in FDs /\ Client(p) \in Clients
    BY ClientIsClient
  <1>2. /\ open' \in [Process -> [FDs -> Clients \cup {None, Leaked}]]
        /\ \A q \in Process : q # p => open'[q] = open[q]
        /\ \A d \in FDs : open[p][d] \in Clients => open'[p][d] = open[p][d]
        /\ \A d \in FDs : open'[p][d] \in Clients => open[p][d] \in Clients
    <2>1. CASE UNCHANGED open
      BY <2>1 DEF LoopTypes
    <2>2. CASE Free(p) # {} /\ open' = [open EXCEPT ![p][Lowest(Free(p))] = Leaked]
      <3>1. Lowest(Free(p)) \in FDs /\ open[p][Lowest(Free(p))] = None
        <4>1. Free(p) \in SUBSET FDs
          BY DEF Free
        <4>. QED BY <2>2, <4>1, LowestIsIn DEF Free
      <3>. QED BY <2>2, <3>1, FrontAssumption DEF LoopTypes
    <2>. QED BY <2>1, <2>2
  <1>3. \A r \in Process, b \in Clients : HasRequest(r, b)' <=> HasRequest(r, b) /\ r # p
    <2>1. \A r \in Process : r # p => (pc'[r] = pc[r] /\ Client(r)' = Client(r))
      BY <1>2 DEF LoopTypes, Client
    <2>2. pc'[p] # "answer"
      BY DEF LoopTypes
    <2>. QED BY <2>1, <2>2 DEF HasRequest
  <1>4. OnePlace' /\ served' \in [Clients -> {0, 1}]
    <2>1. CASE UNCHANGED served
      BY <1>3, <2>1 DEF LoopTypes, OnePlace
    <2>2. CASE pc[p] = "answer" /\ request[p] \in Requests /\ Serves(p)
      BY <1>3, <2>2, ServingKeeps
    <2>. QED BY <2>1, <2>2
  <1>5. LoopTypes'
    BY <1>2, <1>4 DEF LoopTypes, Places
  <1>6. DescriptorsAreOpen'
    BY <1>1, <1>2 DEF LoopTypes, DescriptorsAreOpen
  <1>7. SizeIsTaken'
    BY <1>2 DEF LoopTypes, SizeIsTaken, Client
  <1>. QED BY <1>4, <1>5, <1>6, <1>7

LEMMA AnsweringKeeps ==
    ASSUME LoopInv, NEW p \in Process,
           Answer(p) \/ AnswerUnpaid(p) \/ RefuseNobody(p) \/ AnswerHeader(p) \/ AnswerList(p)
    PROVE  LoopInv'
  <1>1. \E place \in {"list", "refused", "finish"} : pc' = [pc EXCEPT ![p] = place]
    BY DEF Answer, AnswerUnpaid, RefuseNobody, AnswerHeader, AnswerList
  <1>2. exitPipe' \in {exitPipe, [exitPipe EXCEPT ![p] = 1]}
    BY DEF Answer, AnswerUnpaid, RefuseNobody, AnswerHeader, AnswerList, Send
  <1>3. /\ pc[p] \in {"answer", "list"}
        /\ \/ UNCHANGED open
           \/ Free(p) # {} /\ open' = [open EXCEPT ![p][Lowest(Free(p))] = Leaked]
        /\ \/ UNCHANGED served
           \/ pc[p] = "answer" /\ request[p] \in Requests /\ Serves(p)
        /\ UNCHANGED <<afds, rfds, fd, request, backlog, stage, typed, unread>>
    BY DEF Answer, AnswerUnpaid, RefuseNobody, AnswerHeader, AnswerList
  <1>. QED BY <1>1, <1>2, <1>3, SentKeeps

LEMMA ForkKeeps ==
    ASSUME LoopInv, NEW p \in Process, NEW child \in Process, Fork(p, child)
    PROVE  LoopInv'
  <1>. USE DEF LoopInv
  <1>1. fd[p] \in rfds[p] /\ fd[p] \in FDs /\ Client(p) \in Clients
    BY ClientIsClient DEF Fork
  <1>2. p # child /\ exitPipe[child] = 0
    BY DEF Fork, LoopTypes, DescriptorsAreOpen
  <1>3. \A r \in Process, b \in Clients : HasRequest(r, b)' <=> HasRequest(r, b) /\ r # p
    BY <1>2 DEF Fork, LoopTypes, HasRequest, Client
  <1>4. OnePlace' /\ served' \in [Clients -> {0, 1}]
    BY <1>3, ServingKeeps DEF Fork, connVars
  <1>5. LoopTypes'
    BY <1>4 DEF Fork, LoopTypes, Places, connVars
  <1>6. DescriptorsAreOpen'
    BY <1>1, <1>2 DEF Fork, LoopTypes, DescriptorsAreOpen
  <1>7. SizeIsTaken'
    BY <1>2 DEF Fork, LoopTypes, SizeIsTaken, Client, connVars
  <1>. QED BY <1>4, <1>5, <1>6, <1>7

LEMMA NextKeeps == LoopInv /\ [Next]_vars => LoopInv'
  <1>. SUFFICES ASSUME LoopInv, [Next]_vars PROVE LoopInv'
    OBVIOUS
  <1>1. CASE Load \/ UNCHANGED vars
    BY <1>1, LoadKeeps
  <1>2. CASE Start
    BY <1>2, StartKeeps
  <1>3. ASSUME NEW c \in Clients, Terminal(c) PROVE LoopInv'
    BY <1>3, TerminalKeeps
  <1>4. ASSUME NEW p \in Process, Server(p) \/ SendMovieReturns(p) \/ Dies(p) PROVE LoopInv'
    <2>1. CASE Session(p)
      BY <2>1, FailureKeeps, ClosingKeeps, AnsweringKeeps, ForkKeeps DEF Session
    <2>. QED BY <1>4, <2>1, SelectKeeps, AcceptKeeps, FailureKeeps, ReceiveSizeKeeps,
                ReceiveNoSizeKeeps, ReceiveDataKeeps, ClosingKeeps DEF Server
  <1>. QED BY <1>1, <1>2, <1>3, <1>4 DEF Next

-----------------------------------------------------------------------------
(* Who can stand still: the invariant behind BlockedOnlyByLost.           *)

Serving == {"receive", "answer", "list", "refused", "finish", "sending"}

Queued(c) == \E i \in 1..Len(backlog) : backlog[i] = c

(* A connection is in the queue once, or has been accepted; and if no     *)
(* child has inherited it, it is at one descriptor of one process, except *)
(* that a fork shares the one that is served until both have closed it.   *)
QueueIsDistinct ==
  /\ \A i, j \in 1..Len(backlog) : backlog[i] = backlog[j] => i = j
  /\ \A c \in Clients : Queued(c) => stage[c] # "idle"
  /\ \A p \in Process, d \in FDs : open[p][d] \in Clients =>
       stage[open[p][d]] # "idle" /\ ~Queued(open[p][d])

OneOwner ==
  \A p, q \in Process, d, e \in FDs :
    open[p][d] \in Clients \ inherited /\ open[q][e] = open[p][d] =>
      \/ p = q /\ d = e
      \/ d = fd[p] /\ e = fd[q] /\ {pc[p], pc[q]} \subseteq {"finish", "sending"}

(* What select said is still so, except for the one that is being read.   *)
ReadyIsReadable ==
  \A p \in Process, d \in FDs :
    d \in rfds[p] /\ open[p][d] \notin inherited /\ ~(d = fd[p] /\ pc[p] \in Serving) =>
      Readable(open[p][d])

(* Behind the size of a message that was sent whole is the rest of it.    *)
RestIsThere ==
  /\ \A c \in Clients :
       "size" \in unread[c] /\ stage[c] \in {"waiting", "listing"} => "data" \in unread[c]
  /\ \A p \in Process :
       pc[p] = "receive" /\ Client(p) \notin inherited
         /\ stage[Client(p)] \in {"waiting", "listing"} => "data" \in unread[Client(p)]

Exclusive == QueueIsDistinct /\ OneOwner /\ ReadyIsReadable /\ RestIsThere

LEMMA InitExclusive == Init => Exclusive
  BY FrontAssumption DEF Init, Exclusive, QueueIsDistinct, Queued, OneOwner,
     ReadyIsReadable, RestIsThere

LEMMA LoadIsExclusive ==
    ASSUME Exclusive, Load \/ UNCHANGED vars
    PROVE  Exclusive'
  BY DEF Load, Exclusive, QueueIsDistinct, Queued, OneOwner, ReadyIsReadable, RestIsThere,
     Readable, Client, vars, procVars, connVars

LEMMA StartIsExclusive ==
    ASSUME LoopInv, Exclusive, Start
    PROVE  Exclusive'
  <1>1. LoopTypes /\ DescriptorsAreOpen
    BY DEF LoopInv
  <1>2. open[First] = open'[First] /\ rfds'[First] = rfds[First]
    BY DEF Start
  <1>. QED BY <1>1 DEF Start, LoopTypes, DescriptorsAreOpen, Exclusive, QueueIsDistinct, Queued,
     OneOwner, ReadyIsReadable, RestIsThere, Readable, Client, Serving, connVars

-----------------------------------------------------------------------------
(* Terminals.                                                             *)

LEMMA ConnectIsExclusive ==
    ASSUME LoopInv, Exclusive, NEW c \in Clients, Connect(c)
    PROVE  Exclusive'
  <1>. USE DEF Exclusive
  <1>1. /\ backlog \in Seq(Clients) /\ backlog' = Append(backlog, c)
        /\ stage[c] = "idle" /\ stage' = [stage EXCEPT ![c] = "connected"]
        /\ stage \in [Clients -> Stages]
        /\ UNCHANGED <<pc, open, rfds, fd, unread, inherited>>
    BY DEF LoopInv, LoopTypes, Connect, procVars
  <1>2. /\ Len(backlog') = Len(backlog) + 1 /\ Len(backlog) \in Nat
        /\ \A i \in 1..Len(backlog) : backlog'[i] = backlog[i]
        /\ backlog'[Len(backlog) + 1] = c
    BY <1>1
  <1>3. \A b \in Clients : Queued(b)' => Queued(b) \/ b = c
    BY <1>2 DEF Queued
  <1>4. ~Queued(c)
    BY <1>1 DEF QueueIsDistinct
  <1>5. \A i, j \in 1..Len(backlog') : backlog'[i] = backlog'[j] => i = j
    BY <1>2, <1>4 DEF QueueIsDistinct, Queued
  <1>6. QueueIsDistinct'
    BY <1>1, <1>3, <1>5 DEF QueueIsDistinct
  <1>7. OneOwner' /\ ReadyIsReadable' /\ RestIsThere'
    <2>1. unread[c] = {}
      BY <1>1 DEF LoopInv, OnePlace
    <2>. QED BY <1>1, <2>1 DEF OneOwner, ReadyIsReadable, RestIsThere, Readable, Client
  <1>. QED BY <1>6, <1>7

(* What a terminal does later makes its connection more readable.         *)
LEMMA TerminalIsExclusive ==
    ASSUME LoopInv, Exclusive, NEW c \in Clients, Terminal(c)
    PROVE  Exclusive'
  <1>. USE DEF Exclusive
  <1>1. CASE Connect(c)
    BY <1>1, ConnectIsExclusive
  <1>2. CASE ~Connect(c)
    <2>1. /\ UNCHANGED <<pc, open, rfds, fd, backlog, inherited>> /\ stage[c] # "idle"
          /\ \E s \in {"half", "waiting", "listing", "closed", "lost"} :
               stage' = [stage EXCEPT ![c] = s]
      BY <1>2 DEF Terminal, SendSize, SendData, Receive, ReceiveList, ReceiveLess, GivesUp,
         Vanishes, procVars
    <2>2. stage \in [Clients -> Stages] /\ unread \in [Clients -> SUBSET {"size", "data"}]
      BY DEF LoopInv, LoopTypes
    <2>3. QueueIsDistinct'
      BY <2>1, <2>2 DEF QueueIsDistinct, Queued
    <2>4. OneOwner'
      BY <2>1 DEF OneOwner
    <2>5. /\ Readable(c) => Readable(c)'
          /\ \A b \in Clients : b # c => unread'[b] = unread[b] /\ stage'[b] = stage[b]
          /\ stage'[c] \in {"waiting", "listing"} =>
               \/ "data" \in unread'[c]
               \/ stage[c] \in {"waiting", "listing"} /\ unread'[c] = unread[c]
      BY <1>2, <2>2 DEF Terminal, SendSize, SendData, Receive, ReceiveList, ReceiveLess, GivesUp,
         Vanishes, Readable
    <2>6. \A b \in Clients : Readable(b) => Readable(b)'
      BY <2>5 DEF Readable
    <2>7. ReadyIsReadable'
      <3>1. \A p \in Process : \A d \in rfds[p] : d \in FDs /\ open[p][d] \in Clients
        BY DEF LoopInv, DescriptorsAreOpen
      <3>. QED BY <2>1, <2>6, <3>1 DEF ReadyIsReadable
    <2>8. RestIsThere'
      <3>1. \A p \in Process : pc[p] = "receive" => Client(p) \in Clients
        BY ClientIsClient
      <3>2. \A p \in Process : Client(p)' = Client(p)
        BY <2>1 DEF Client
      <3>. QED BY <2>1, <2>5, <3>1, <3>2 DEF RestIsThere
    <2>. QED BY <2>3, <2>4, <2>7, <2>8
  <1>. QED BY <1>1, <1>2

-----------------------------------------------------------------------------
(* The loop.                                                              *)

LEMMA SelectIsExclusive ==
    ASSUME LoopInv, Exclusive, NEW p \in Process, Select(p)
    PROVE  Exclusive'
  <1>. USE DEF Exclusive
  <1>1. /\ pc[p] = "select" /\ pc' \in {[pc EXCEPT ![p] = s] : s \in {"accept", "serve"}}
        /\ rfds' = [rfds EXCEPT ![p] = {d \in afds[p] : Readable(open[p][d])}]
        /\ UNCHANGED <<open, fd, backlog, stage, unread, inherited>>
        /\ pc \in [Process -> Places] /\ rfds \in [Process -> SUBSET FDs]
    BY DEF Select, LoopInv, LoopTypes, connVars
  <1>2. QueueIsDistinct'
    BY <1>1 DEF QueueIsDistinct, Queued
  <1>3. OneOwner'
    BY <1>1 DEF OneOwner
  <1>4. ReadyIsReadable'
    BY <1>1 DEF ReadyIsReadable, Readable, Serving
  <1>5. RestIsThere'
    BY <1>1 DEF RestIsThere, Client
  <1>. QED BY <1>2, <1>3, <1>4, <1>5

LEMMA AcceptIsExclusive ==
    ASSUME LoopInv, Exclusive, NEW p \in Process, Accept(p)
    PROVE  Exclusive'
  <1>. USE DEF Exclusive
  <1>1. PICK n \in FDs : n = Lowest(Free(p)) /\ open[p][n] = None
    <2>1. Free(p) \in SUBSET FDs /\ Free(p) # {}
      BY DEF Accept, Free
    <2>. QED BY <2>1, LowestIsIn DEF Free
  <1>2. backlog \in Seq(Clients) /\ backlog # <<>> /\ backlog' = Tail(backlog)
    BY DEF Accept, LoopInv, LoopTypes
  <1>3. PICK c \in Clients : c = Head(backlog)
    BY <1>2
  <1>4. /\ c = backlog[1] /\ Len(backlog) \in Nat \ {0}
        /\ Len(backlog') = Len(backlog) - 1
        /\ \A i \in 1..Len(backlog') : backlog'[i] = backlog[i + 1]
    BY <1>2, <1>3
  <1>5. /\ open' = [open EXCEPT ![p][n] = c] /\ pc[p] = "accept"
        /\ pc' \in {[pc EXCEPT ![p] = s] : s \in {"select", "serve"}}
        /\ UNCHANGED <<rfds, fd, stage, unread, inherited>>
        /\ open \in [Process -> [FDs -> Clients \cup {None, Leaked}]]
        /\ pc \in [Process -> Places]
    BY <1>1, <1>3 DEF Accept, NextPc, LoopInv, LoopTypes
  <1>6. Queued(c) /\ ~Queued(c)' /\ \A b \in Clients : Queued(b)' => Queued(b)
    <2>1. Queued(c) /\ \A b \in Clients : Queued(b)' => Queued(b)
      BY <1>4 DEF Queued
    <2>2. \A i \in 1..Len(backlog') : backlog'[i] # c
      BY <1>4 DEF QueueIsDistinct
    <2>. QED BY <2>1, <2>2 DEF Queued
  <1>7. \A q \in Process, d \in FDs : open[q][d] # c
    BY <1>3, <1>6 DEF QueueIsDistinct
  <1>8. \A q \in Process, d \in FDs :
          open'[q][d] = IF q = p /\ d = n THEN c ELSE open[q][d]
    BY <1>1, <1>5
  <1>9. QueueIsDistinct'
    <2>1. \A i, j \in 1..Len(backlog') : backlog'[i] = backlog'[j] => i = j
      BY <1>4 DEF QueueIsDistinct
    <2>2. stage[c] # "idle"
      BY <1>3, <1>6 DEF QueueIsDistinct
    <2>3. ASSUME NEW q \in Process, NEW d \in FDs, open'[q][d] \in Clients
          PROVE  (stage[open[q][d]] # "idle" /\ ~Queued(open[q][d]))'
      <3>1. CASE q = p /\ d = n
        BY <1>5, <1>6, <1>8, <2>2, <3>1
      <3>2. CASE ~(q = p /\ d = n)
        BY <1>5, <1>6, <1>8, <2>3, <3>2 DEF QueueIsDistinct
      <3>. QED BY <3>1, <3>2
    <2>. QED BY <1>5, <1>6, <2>1, <2>3 DEF QueueIsDistinct
  <1>10. OneOwner'
    BY <1>5, <1>7, <1>8 DEF OneOwner
  <1>11. \A q \in Process : n \in rfds[q] => q # p
    BY <1>1, FrontAssumption DEF LoopInv, DescriptorsAreOpen
  <1>12. ReadyIsReadable'
    BY <1>5, <1>8, <1>11 DEF ReadyIsReadable, Readable, Serving
  <1>13. RestIsThere'
    BY <1>1, <1>5, <1>8, ClientIsClient DEF RestIsThere, Client
  <1>. QED BY <1>9, <1>10, <1>12, <1>13

(* Fewer descriptors are open, and the queue may have lost its head.      *)
LEMMA EndIsExclusive ==
    ASSUME LoopInv, Exclusive, NEW p \in Process, Ends(p),
           backlog' = backlog \/ (backlog # <<>> /\ backlog' = Tail(backlog)),
           UNCHANGED <<stage, unread, inherited>>
    PROVE  Exclusive'
  <1>. USE DEF Exclusive
  <1>1. \A q \in Process, d \in FDs :
          /\ open'[q][d] = IF q = p THEN None ELSE open[q][d]
          /\ rfds'[q] = IF q = p THEN {} ELSE rfds[q]
          /\ pc'[q] = IF q = p THEN "ended" ELSE pc[q]
          /\ fd'[q] = fd[q]
    BY DEF Ends, LoopInv, LoopTypes
  <1>2. QueueIsDistinct'
    <2>1. CASE backlog' = backlog
      BY <1>1, <2>1, FrontAssumption DEF QueueIsDistinct, Queued
    <2>2. CASE backlog # <<>> /\ backlog' = Tail(backlog)
      <3>1. /\ Len(backlog) \in Nat \ {0} /\ Len(backlog') = Len(backlog) - 1
            /\ \A i \in 1..Len(backlog') : backlog'[i] = backlog[i + 1]
        BY <2>2 DEF LoopInv, LoopTypes
      <3>2. \A i, j \in 1..Len(backlog') : backlog'[i] = backlog'[j] => i = j
        BY <3>1 DEF QueueIsDistinct
      <3>3. \A b \in Clients : Queued(b)' => Queued(b)
        BY <3>1 DEF Queued
      <3>. QED BY <1>1, <3>2, <3>3, FrontAssumption DEF QueueIsDistinct
    <2>. QED BY <2>1, <2>2
  <1>3. OneOwner'
    BY <1>1, FrontAssumption DEF OneOwner
  <1>4. ReadyIsReadable'
    BY <1>1 DEF ReadyIsReadable, Readable
  <1>5. RestIsThere'
    <2>1. \A q \in Process : q # p => pc'[q] = pc[q] /\ Client(q)' = Client(q)
      BY <1>1 DEF Ends, LoopInv, LoopTypes, Client
    <2>2. pc'[p] # "receive"
      BY DEF Ends, LoopInv, LoopTypes
    <2>. QED BY <2>1, <2>2 DEF RestIsThere
  <1>. QED BY <1>2, <1>3, <1>4, <1>5

LEMMA FailureIsExclusive ==
    ASSUME LoopInv, Exclusive, NEW p \in Process,
           AcceptFails(p) \/ ReceiveNull(p) \/ Dies(p)
    PROVE  Exclusive'
  <1>1. /\ Ends(p) /\ UNCHANGED <<stage, unread, inherited>>
        /\ backlog' = backlog \/ (backlog # <<>> /\ backlog' = Tail(backlog))
    BY DEF AcceptFails, ReceiveNull, Dies, Ends, connVars
  <1>. QED BY <1>1, EndIsExclusive

-----------------------------------------------------------------------------
(* receiveTCP takes from a connection what no other process reads.        *)

LEMMA ReadIsExclusive ==
    ASSUME LoopInv, Exclusive, NEW p \in Process, NEW c \in Clients, NEW d \in FDs,
           open[p][d] = c, fd' = [fd EXCEPT ![p] = d],
           \/ pc[p] = "serve" /\ "size" \in unread[c]
                /\ pc' = [pc EXCEPT ![p] = "receive"]
                /\ unread' = [unread EXCEPT ![c] = @ \ {"size"}]
           \/ (pc[p] = "serve" \/ (pc[p] = "receive" /\ fd[p] = d))
                /\ pc' = [pc EXCEPT ![p] = "answer"]
                /\ unread' = [unread EXCEPT ![c] = {}],
           UNCHANGED <<open, afds, rfds, backlog, stage, inherited>>
    PROVE  Exclusive'
  <1>. USE DEF Exclusive
  <1>1. /\ pc \in [Process -> Places] /\ fd \in [Process -> FDs \cup {0}]
        /\ unread \in [Clients -> SUBSET {"size", "data"}]
        /\ pc[p] \notin {"finish", "sending"} /\ pc'[p] \in {"receive", "answer"}
        /\ \A q \in Process : q # p => pc'[q] = pc[q] /\ fd'[q] = fd[q]
        /\ fd'[p] = d
    BY DEF LoopInv, LoopTypes
  <1>2. \A q \in Process, e \in FDs : open[q][e] = c /\ c \notin inherited => q = p /\ e = d
    BY <1>1 DEF OneOwner
  <1>3. \A b \in Clients : b # c => unread'[b] = unread[b]
    BY <1>1
  <1>4. QueueIsDistinct'
    BY DEF QueueIsDistinct, Queued
  <1>5. OneOwner'
    <2>1. ASSUME NEW q \in Process, NEW r \in Process, NEW e \in FDs, NEW f \in FDs,
                 open[q][e] \in Clients \ inherited, open[r][f] = open[q][e],
                 ~(q = r /\ e = f)
          PROVE  e = fd'[q] /\ f = fd'[r] /\ {pc'[q], pc'[r]} \subseteq {"finish", "sending"}
      BY <1>1, <2>1 DEF OneOwner
    <2>. QED BY <2>1 DEF OneOwner
  <1>6. ReadyIsReadable'
    <2>1. ASSUME NEW q \in Process, NEW e \in FDs, e \in rfds[q], open[q][e] \notin inherited,
                 ~(e = fd'[q] /\ pc'[q] \in Serving)
          PROVE  Readable(open[q][e])'
      <3>1. ~(e = fd[q] /\ pc[q] \in Serving)
        BY <1>1, <2>1 DEF Serving
      <3>2. Readable(open[q][e]) /\ open[q][e] \in Clients
        BY <2>1, <3>1 DEF ReadyIsReadable, LoopInv, DescriptorsAreOpen
      <3>3. open[q][e] # c
        BY <1>1, <1>2, <2>1 DEF Serving
      <3>. QED BY <1>3, <3>2, <3>3 DEF Readable
    <2>. QED BY <2>1 DEF ReadyIsReadable
  <1>7. RestIsThere'
    <2>1. \A b \in Clients :
            "size" \in unread'[b] /\ stage[b] \in {"waiting", "listing"} => "data" \in unread'[b]
      BY <1>1 DEF RestIsThere
    <2>2. ASSUME NEW q \in Process, pc'[q] = "receive", Client(q)' \notin inherited,
                 stage[Client(q)'] \in {"waiting", "listing"}
          PROVE  "data" \in unread'[Client(q)']
      <3>1. CASE q = p
        BY <1>1, <2>2, <3>1 DEF RestIsThere, Client
      <3>2. CASE q # p
        <4>1. pc[q] = "receive" /\ Client(q)' = Client(q) /\ Client(q) \in Clients /\ fd[q] \in FDs
          BY <1>1, <2>2, <3>2, ClientIsClient DEF Client
        <4>2. Client(q) # c
          BY <1>2, <2>2, <3>2, <4>1 DEF Client
        <4>. QED BY <1>3, <2>2, <4>1, <4>2 DEF RestIsThere
      <3>. QED BY <3>1, <3>2
    <2>. QED BY <2>1, <2>2 DEF RestIsThere
  <1>. QED BY <1>4, <1>5, <1>6, <1>7

LEMMA ReceiveIsExclusive ==
    ASSUME LoopInv, Exclusive, NEW p \in Process,
           ReceiveSize(p) \/ ReceiveNoSize(p) \/ ReceiveData(p)
    PROVE  Exclusive'
  <1>1. CASE ReceiveSize(p) \/ ReceiveNoSize(p)
    <2>1. PICK d \in FDs : d = Lowest(rfds[p]) /\ open[p][d] \in Clients
      BY <1>1, ServedIsClient DEF ReceiveSize, ReceiveNoSize
    <2>2. PICK c \in Clients : c = open[p][d]
      BY <2>1
    <2>. QED BY <1>1, <2>1, <2>2, ReadIsExclusive DEF ReceiveSize, ReceiveNoSize
  <1>2. CASE ReceiveData(p)
    <2>1. PICK d \in FDs : d = fd[p] /\ open[p][d] \in Clients
      BY <1>2, ClientIsClient DEF ReceiveData, Client
    <2>2. PICK c \in Clients : c = open[p][d]
      BY <2>1
    <2>3. fd' = [fd EXCEPT ![p] = d]
      BY <1>2, <2>1 DEF ReceiveData, LoopInv, LoopTypes
    <2>. QED BY <1>2, <2>1, <2>2, <2>3, ReadIsExclusive DEF ReceiveData, Client
  <1>. QED BY <1>1, <1>2

-----------------------------------------------------------------------------
(* Session.                                                               *)

LEMMA ClosedIsExclusive ==
    ASSUME LoopInv, Exclusive, NEW p \in Process, Closed(p),
           pc[p] \in {"answer", "list", "refused", "finish", "sending"},
           UNCHANGED <<backlog, stage, unread, inherited>>
    PROVE  Exclusive'
  <1>. USE DEF Exclusive
  <1>1. fd[p] \in rfds[p] /\ fd[p] \in FDs /\ Client(p) \in Clients
    BY ClientIsClient
  <1>2. /\ pc'[p] \in {"select", "serve"} /\ UNCHANGED fd
        /\ \A q \in Process : q # p => pc'[q] = pc[q] /\ rfds'[q] = rfds[q]
        /\ rfds'[p] = rfds[p] \ {fd[p]}
        /\ \A q \in Process, d \in FDs :
             open'[q][d] = IF q = p /\ d = fd[p] THEN None ELSE open[q][d]
    BY <1>1 DEF Closed, NextPc, LoopInv, LoopTypes
  <1>3. QueueIsDistinct'
    BY <1>2, FrontAssumption DEF QueueIsDistinct, Queued
  <1>4. OneOwner'
    <2>1. ASSUME NEW q \in Process, NEW r \in Process, NEW e \in FDs, NEW f \in FDs,
                 open'[q][e] \in Clients \ inherited, open'[r][f] = open'[q][e],
                 ~(q = r /\ e = f)
          PROVE  e = fd[q] /\ f = fd[r] /\ {pc'[q], pc'[r]} \subseteq {"finish", "sending"}
      <3>1. /\ open'[q][e] = open[q][e] /\ open'[r][f] = open[r][f]
            /\ ~(q = p /\ e = fd[p]) /\ ~(r = p /\ f = fd[p])
        BY <1>2, <2>1, FrontAssumption
      <3>2. e = fd[q] /\ f = fd[r] /\ {pc[q], pc[r]} \subseteq {"finish", "sending"}
        BY <2>1, <3>1 DEF OneOwner
      <3>. QED BY <1>2, <3>1, <3>2
    <2>. QED BY <1>2, <2>1 DEF OneOwner
  <1>5. ReadyIsReadable'
    <2>1. ASSUME NEW q \in Process, NEW d \in FDs, d \in rfds'[q], open'[q][d] \notin inherited,
                 ~(d = fd[q] /\ pc'[q] \in Serving)
          PROVE  Readable(open[q][d])'
      <3>1. open'[q][d] = open[q][d] /\ d \in rfds[q] /\ ~(d = fd[q] /\ pc[q] \in Serving)
        BY <1>2, <2>1
      <3>. QED BY <2>1, <3>1 DEF ReadyIsReadable, Readable
    <2>. QED BY <1>2, <2>1 DEF ReadyIsReadable
  <1>6. RestIsThere'
    BY <1>2, ClientIsClient DEF RestIsThere, Client
  <1>. QED BY <1>3, <1>4, <1>5, <1>6

LEMMA ClosingIsExclusive ==
    ASSUME LoopInv, Exclusive, NEW p \in Process,
           IgnoreJunk(p) \/ NoList(p) \/ Finish(p) \/ StartRefused(p) \/ SendMovieReturns(p)
    PROVE  Exclusive'
  <1>1. /\ Closed(p) /\ pc[p] \in {"answer", "list", "refused", "finish", "sending"}
        /\ UNCHANGED <<backlog, stage, unread, inherited>>
    BY DEF IgnoreJunk, NoList, Finish, StartRefused, SendMovieReturns, connVars
  <1>. QED BY <1>1, ClosedIsExclusive

LEMMA AnsweringIsExclusive ==
    ASSUME LoopInv, Exclusive, NEW p \in Process,
           Answer(p) \/ AnswerUnpaid(p) \/ RefuseNobody(p) \/ AnswerHeader(p) \/ AnswerList(p)
    PROVE  Exclusive'
  <1>. USE DEF Exclusive
  <1>1. /\ \E place \in {"list", "refused", "finish"} : pc' = [pc EXCEPT ![p] = place]
        /\ pc[p] \in {"answer", "list"}
        /\ UNCHANGED <<afds, rfds, fd, backlog, stage, unread, inherited>>
    BY DEF Answer, AnswerUnpaid, RefuseNobody, AnswerHeader, AnswerList
  <1>2. \/ UNCHANGED open
        \/ Free(p) # {} /\ open' = [open EXCEPT ![p][Lowest(Free(p))] = Leaked]
    BY DEF Answer, AnswerUnpaid, RefuseNobody, AnswerHeader, AnswerList
  <1>3. \A q \in Process, d \in FDs :
          open'[q][d] = open[q][d] \/ (open[q][d] = None /\ open'[q][d] = Leaked)
    <2>1. Free(p) \in SUBSET FDs
      BY DEF Free
    <2>2. Free(p) # {} => Lowest(Free(p)) \in FDs /\ open[p][Lowest(Free(p))] = None
      BY <2>1, LowestIsIn DEF Free
    <2>3. CASE Free(p) # {} /\ open' = [open EXCEPT ![p][Lowest(Free(p))] = Leaked]
      <3>1. PICK n \in FDs : n = Lowest(Free(p)) /\ open[p][n] = None
        BY <2>2, <2>3
      <3>2. open' = [open EXCEPT ![p][n] = Leaked]
        BY <2>3, <3>1
      <3>. QED BY <3>1, <3>2 DEF LoopInv, LoopTypes
    <2>. QED BY <1>2, <2>3
  <1>4. \A q \in Process, d \in FDs :
          open[q][d] \in Clients \/ open'[q][d] \in Clients => open'[q][d] = open[q][d]
    BY <1>3, FrontAssumption
  <1>5. /\ pc'[p] \in {"list", "refused", "finish"} /\ \A q \in Process : q # p => pc'[q] = pc[q]
    BY <1>1 DEF LoopInv, LoopTypes
  <1>6. QueueIsDistinct'
    BY <1>1, <1>4 DEF QueueIsDistinct, Queued
  <1>7. OneOwner'
    <2>1. ASSUME NEW q \in Process, NEW r \in Process, NEW e \in FDs, NEW f \in FDs,
                 open'[q][e] \in Clients \ inherited, open'[r][f] = open'[q][e],
                 ~(q = r /\ e = f)
          PROVE  e = fd[q] /\ f = fd[r] /\ {pc'[q], pc'[r]} \subseteq {"finish", "sending"}
      BY <1>1, <1>4, <1>5, <2>1 DEF OneOwner
    <2>. QED BY <1>1, <2>1 DEF OneOwner
  <1>8. ReadyIsReadable'
    <2>1. \A q \in Process : \A d \in rfds[q] : d \in FDs /\ open[q][d] \in Clients
      BY DEF LoopInv, DescriptorsAreOpen
    <2>. QED BY <1>1, <1>4, <1>5, <2>1 DEF ReadyIsReadable, Readable, Serving
  <1>9. RestIsThere'
    <2>1. \A q \in Process : pc'[q] = "receive" => pc[q] = "receive" /\ Client(q)' = Client(q)
      BY <1>1, <1>4, <1>5, ClientIsClient DEF Client
    <2>. QED BY <1>1, <2>1 DEF RestIsThere
  <1>. QED BY <1>6, <1>7, <1>8, <1>9

(* The child shares with its parent the connection that is served, which  *)
(* both only close, and what it has inherited.                            *)
LEMMA ForkIsExclusive ==
    ASSUME LoopInv, Exclusive, NEW p \in Process, NEW child \in Process, Fork(p, child)
    PROVE  Exclusive'
  <1>. USE DEF Exclusive
  <1>1. fd[p] \in rfds[p] /\ fd[p] \in FDs /\ Client(p) \in Clients
    BY ClientIsClient DEF Fork
  <1>2. /\ p # child /\ pc[p] = "answer" /\ pc[child] = "unborn"
        /\ pc'[p] = "finish" /\ pc'[child] = "sending"
        /\ \A q \in Process \ {p, child} : pc'[q] = pc[q]
        /\ \A q \in Process : LET from == IF q = child THEN p ELSE q IN
             open'[q] = open[from] /\ rfds'[q] = rfds[from] /\ fd'[q] = fd[from]
        /\ inherited' = inherited \cup {open[p][d] : d \in afds[p] \ {fd[p]}}
        /\ UNCHANGED <<backlog, stage, unread>>
    BY DEF Fork, LoopInv, LoopTypes, connVars
  <1>3. \A d \in FDs \ {fd[p]} : open[p][d] \in Clients => open[p][d] \in inherited'
    BY <1>2 DEF LoopInv, DescriptorsAreOpen
  <1>4. QueueIsDistinct'
    BY <1>2 DEF QueueIsDistinct, Queued
  <1>5. OneOwner'
    <2>1. ASSUME NEW q \in Process, NEW r \in Process, NEW e \in FDs, NEW f \in FDs,
                 open'[q][e] \in Clients \ inherited', open'[r][f] = open'[q][e],
                 ~(q = r /\ e = f)
          PROVE  e = fd'[q] /\ f = fd'[r] /\ {pc'[q], pc'[r]} \subseteq {"finish", "sending"}
      <3>1. CASE q \in {p, child} /\ r \in {p, child}
        BY <1>2, <1>3, <2>1, <3>1
      <3>2. CASE q \notin {p, child} /\ r \notin {p, child}
        BY <1>2, <2>1, <3>2 DEF OneOwner
      <3>3. CASE q \in {p, child} /\ r \notin {p, child}
        <4>1. open'[q] = open[p] /\ open'[r] = open[r] /\ open[p][e] \in Clients \ inherited
          BY <1>2, <2>1, <3>3
        <4>. QED BY <1>2, <2>1, <3>3, <4>1 DEF OneOwner
      <3>4. CASE q \notin {p, child} /\ r \in {p, child}
        <4>1. open'[q] = open[q] /\ open'[r] = open[p] /\ open[q][e] \in Clients \ inherited
          BY <1>2, <2>1, <3>4
        <4>. QED BY <1>2, <2>1, <3>4, <4>1 DEF OneOwner
      <3>. QED BY <3>1, <3>2, <3>3, <3>4
    <2>. QED BY <2>1 DEF OneOwner
  <1>6. ReadyIsReadable'
    <2>1. ASSUME NEW q \in Process, NEW d \in FDs, d \in rfds'[q], open'[q][d] \notin inherited',
                 ~(d = fd'[q] /\ pc'[q] \in Serving)
          PROVE  Readable(open[q][d])'
      <3>1. q \notin {p, child}
        <4>1. d \in rfds[p] /\ q \in {p, child} => open[p][d] \in Clients
          BY DEF LoopInv, DescriptorsAreOpen
        <4>. QED BY <1>2, <1>3, <2>1, <4>1 DEF Serving
      <3>. QED BY <1>2, <2>1, <3>1 DEF ReadyIsReadable, Readable
    <2>. QED BY <2>1 DEF ReadyIsReadable
  <1>7. RestIsThere'
    BY <1>2 DEF RestIsThere, Client
  <1>. QED BY <1>4, <1>5, <1>6, <1>7

LEMMA NextIsExclusive == LoopInv /\ Exclusive /\ [Next]_vars => Exclusive'
  <1>. SUFFICES ASSUME LoopInv, Exclusive, [Next]_vars PROVE Exclusive'
    OBVIOUS
  <1>1. CASE Load \/ UNCHANGED vars
    BY <1>1, LoadIsExclusive
  <1>2. CASE Start
    BY <1>2, StartIsExclusive
  <1>3. ASSUME NEW c \in Clients, Terminal(c) PROVE Exclusive'
    BY <1>3, TerminalIsExclusive
  <1>4. ASSUME NEW p \in Process, Server(p) \/ SendMovieReturns(p) \/ Dies(p) PROVE Exclusive'
    <2>1. CASE Session(p)
      BY <2>1, FailureIsExclusive, ClosingIsExclusive, AnsweringIsExclusive, ForkIsExclusive
         DEF Session
    <2>. QED BY <1>4, <2>1, SelectIsExclusive, AcceptIsExclusive, FailureIsExclusive,
                ReceiveIsExclusive, ClosingIsExclusive DEF Server
  <1>. QED BY <1>1, <1>2, <1>3, <1>4 DEF Next

LEMMA ExclusiveBlocks == LoopInv /\ Exclusive => BlockedOnlyByLost
  <1>. SUFFICES ASSUME LoopInv, Exclusive, NEW p \in Process, NEW c \in Clients,
                       StandsFor(p, c), c \notin inherited
                PROVE  stage[c] \in {"half", "lost"}
    BY DEF BlockedOnlyByLost
  <1>1. CASE pc[p] = "serve" /\ c = open[p][Lowest(rfds[p])] /\ ~Readable(c)
    BY <1>1, ServedIsClient DEF Exclusive, ReadyIsReadable, Serving
  <1>2. CASE pc[p] = "receive" /\ c = Client(p) /\ ~Readable(c)
    <2>1. /\ stage[c] \in Stages
          /\ stage[c] \notin {"idle", "connected", "waiting", "listing", "closed"}
      BY <1>2 DEF LoopInv, LoopTypes, SizeIsTaken, Exclusive, RestIsThere, Readable
    <2>. QED BY <2>1 DEF Stages
  <1>. QED BY <1>1, <1>2 DEF StandsFor

-----------------------------------------------------------------------------
(* The lists of the catalogue.                                            *)

(* Whatever strcmp returns, it tells equal names from different ones; only*)
(* if it returns signs does -1 stand for all that is smaller.             *)
LEMMA ComparesWell ==
    ASSUME strcmp \in {"sign", "difference"}, NEW a \in Nat, NEW b \in Nat
    PROVE  /\ Compare(a, b) = 0 <=> a = b
           /\ strcmp = "sign" => (Compare(a, b) = -1 <=> a < b)
           /\ Compare(a, b) = -1 => a < b
  BY DEF Compare

LEMMA PassedStops ==
    ASSUME NEW keys, Len(keys) \in Nat, NEW k
    PROVE  /\ Passed(keys, k) \in 0..Len(keys)
           /\ \A i \in 1..Passed(keys, k) : Compare(keys[i], k) = -1
           /\ Passed(keys, k) < Len(keys) => Compare(keys[Passed(keys, k) + 1], k) # -1
  <1>. DEFINE stops == {i \in 1..Len(keys) : Compare(keys[i], k) # -1}
  <1>1. CASE stops = {}
    BY <1>1 DEF Passed
  <1>2. CASE stops # {}
    <2>1. Min(stops) \in stops /\ \A i \in stops : Min(stops) <= i
      <3>1. stops \in SUBSET Nat
        OBVIOUS
      <3>. HIDE DEF stops
      <3>. QED BY <1>2, <3>1, LeastIsMin
    <2>2. Passed(keys, k) = Min(stops) - 1
      BY <1>2 DEF Passed
    <2>3. PICK m : m = Min(stops)
      OBVIOUS
    <2>4. m \in 1..Len(keys) /\ Compare(keys[m], k) # -1 /\ Passed(keys, k) = m - 1
      BY <2>1, <2>2, <2>3
    <2>5. \A i \in 1..(m - 1) : Compare(keys[i], k) = -1
      BY <2>1, <2>3, <2>4
    <2>. HIDE DEF stops
    <2>. QED BY <2>4, <2>5
  <1>. QED BY <1>1, <1>2

Listed(x, list) == \E i \in 1..Len(list) : list[i] = x

(* What new is if x, with the key k, goes into the list: the list if it   *)
(* has the key, or else the list with x in front of an element.           *)
Added(list, keys, x, k, new) ==
  \/ new = list /\ \E i \in 1..Len(list) : keys[i] = k
  \/ \E i \in 1..(Len(list) + 1) :
       /\ Len(new) = Len(list) + 1
       /\ \A j \in 1..(Len(list) + 1) :
            new[j] = IF j < i THEN list[j] ELSE IF j = i THEN x ELSE list[j - 1]
       /\ \A j \in 1..(i - 1) : keys[j] < k
       /\ strcmp = "sign" /\ i <= Len(list) => k < keys[i]

(* Insert leaves a list with the key alone, and puts anything else in     *)
(* front of the first element that it does not pass.                      *)
LEMMA InsertAdds ==
    ASSUME strcmp \in {"sign", "difference"}, NEW S, NEW list \in Seq(S), NEW keys,
           Len(keys) = Len(list), \A i \in 1..Len(list) : keys[i] \in Nat,
           NEW x \in S, NEW k \in Nat
    PROVE  /\ Insert(list, keys, x, k) \in Seq(S)
           /\ Added(list, keys, x, k, Insert(list, keys, x, k))
  <1>1. Len(keys) \in Nat
    OBVIOUS
  <1>2. PICK i \in 1..(Len(list) + 1) : i = Passed(keys, k) + 1
    BY <1>1, PassedStops
  <1>3. \A j \in 1..(i - 1) : Compare(keys[j], k) = -1
    BY <1>1, <1>2, PassedStops
  <1>4. \A j \in 1..(i - 1) : keys[j] < k
    BY <1>3, ComparesWell
  <1>5. i <= Len(list) => Compare(keys[i], k) # -1
    BY <1>1, <1>2, PassedStops
  <1>6. CASE i <= Len(keys) /\ Compare(keys[i], k) = 0
    <2>1. Insert(list, keys, x, k) = list
      BY <1>2, <1>6 DEF Insert
    <2>2. keys[i] = k
      BY <1>6, ComparesWell
    <2>. QED BY <1>6, <2>1, <2>2 DEF Added
  <1>7. CASE ~(i <= Len(keys) /\ Compare(keys[i], k) = 0)
    <2>1. Insert(list, keys, x, k) = SubSeq(list, 1, i - 1) \o <<x>> \o SubSeq(list, i, Len(list))
      BY <1>2, <1>7 DEF Insert, InsertAt
    <2>2. /\ SubSeq(list, 1, i - 1) \in Seq(S) /\ Len(SubSeq(list, 1, i - 1)) = i - 1
          /\ \A j \in 1..(i - 1) : SubSeq(list, 1, i - 1)[j] = list[j]
      OBVIOUS
    <2>3. /\ SubSeq(list, i, Len(list)) \in Seq(S)
          /\ Len(SubSeq(list, i, Len(list))) = Len(list) + 1 - i
          /\ \A j \in 1..(Len(list) + 1 - i) : SubSeq(list, i, Len(list))[j] = list[j + i - 1]
      OBVIOUS
    <2>4. PICK before, after : before = SubSeq(list, 1, i - 1) /\ after = SubSeq(list, i, Len(list))
      OBVIOUS
    <2>5. \A a, b \in Seq(S) :
            /\ a \o <<x>> \o b \in Seq(S) /\ Len(a \o <<x>> \o b) = Len(a) + 1 + Len(b)
            /\ \A j \in 1..(Len(a) + 1 + Len(b)) : (a \o <<x>> \o b)[j] =
                 IF j <= Len(a) THEN a[j] ELSE IF j = Len(a) + 1 THEN x ELSE b[j - Len(a) - 1]
      OBVIOUS
    <2>6. before \in Seq(S) /\ after \in Seq(S)
      BY <2>2, <2>3, <2>4
    <2>. DEFINE all == before \o <<x>> \o after
    <2>7. /\ all \in Seq(S) /\ Len(all) = Len(before) + 1 + Len(after)
          /\ \A j \in 1..(Len(before) + 1 + Len(after)) : all[j] =
               IF j <= Len(before) THEN before[j]
               ELSE IF j = Len(before) + 1 THEN x ELSE after[j - Len(before) - 1]
      BY <2>5, <2>6
    <2>8. Insert(list, keys, x, k) = all
      BY <2>1, <2>4
    <2>. HIDE DEF all
    <2>9. /\ Len(before) = i - 1 /\ Len(after) = Len(list) + 1 - i
          /\ \A j \in 1..(i - 1) : before[j] = list[j]
          /\ \A j \in 1..(Len(list) + 1 - i) : after[j] = list[j + i - 1]
      BY <2>2, <2>3, <2>4
    <2>10. /\ all \in Seq(S) /\ Len(all) = Len(list) + 1
           /\ \A j \in 1..(Len(list) + 1) : all[j] =
                IF j < i THEN list[j] ELSE IF j = i THEN x ELSE list[j - 1]
      BY <2>7, <2>9
    <2>11. /\ Insert(list, keys, x, k) \in Seq(S)
          /\ Len(Insert(list, keys, x, k)) = Len(list) + 1
          /\ \A j \in 1..(Len(list) + 1) : Insert(list, keys, x, k)[j] =
               IF j < i THEN list[j] ELSE IF j = i THEN x ELSE list[j - 1]
      BY <2>8, <2>10
    <2>12. strcmp = "sign" /\ i <= Len(list) => k < keys[i]
      BY <1>5, <1>7, ComparesWell
    <2>. QED BY <1>4, <2>11, <2>12 DEF Added
  <1>. QED BY <1>6, <1>7

LEMMA AddedIsListed ==
    ASSUME NEW S, NEW list \in Seq(S), NEW new \in Seq(S), NEW keys, NEW x, NEW k,
           Added(list, keys, x, k, new)
    PROVE  /\ \A m \in S : Listed(m, list) => Listed(m, new)
           /\ \A m \in S : Listed(m, new) => Listed(m, list) \/ m = x
           /\ \/ new = list /\ \E i \in 1..Len(list) : keys[i] = k
              \/ Len(new) = Len(list) + 1 /\ Listed(x, new)
  <1>1. CASE new = list /\ \E i \in 1..Len(list) : keys[i] = k
    BY <1>1
  <1>2. ASSUME NEW i \in 1..(Len(list) + 1), Len(new) = Len(list) + 1,
               \A j \in 1..(Len(list) + 1) :
                 new[j] = IF j < i THEN list[j] ELSE IF j = i THEN x ELSE list[j - 1]
        PROVE  /\ \A m \in S : Listed(m, list) => Listed(m, new)
               /\ \A m \in S : Listed(m, new) => Listed(m, list) \/ m = x
               /\ Listed(x, new)
    <2>1. Listed(x, new)
      BY <1>2 DEF Listed
    <2>2. ASSUME NEW m \in S, NEW j \in 1..Len(list), list[j] = m PROVE Listed(m, new)
      <3>1. CASE j < i
        BY <1>2, <2>2, <3>1 DEF Listed
      <3>2. CASE j >= i
        <4>1. new[j + 1] = m /\ j + 1 \in 1..Len(new)
          BY <1>2, <2>2, <3>2
        <4>. QED BY <4>1 DEF Listed
      <3>. QED BY <3>1, <3>2
    <2>3. ASSUME NEW m \in S, NEW j \in 1..(Len(list) + 1), new[j] = m, m # x
          PROVE  Listed(m, list)
      <3>1. CASE j < i
        BY <1>2, <2>3, <3>1 DEF Listed
      <3>2. CASE j > i
        BY <1>2, <2>3, <3>2 DEF Listed
      <3>. QED BY <1>2, <2>3, <3>1, <3>2
    <2>. QED BY <1>2, <2>1, <2>2, <2>3 DEF Listed
  <1>. QED BY <1>1, <1>2 DEF Added

-----------------------------------------------------------------------------
(* The invariant of the catalogue.                                        *)

Sorted(movies) ==
  \A i, k \in 1..Len(movies) : i < k => movies[i].name < movies[k].name

(* What a list of movies may have: a line that was read, or what ReadLine *)
(* made of the last one.                                                  *)
IsLine(movie, g) ==
  /\ movie.gen = g
  /\ \/ movie \in Lines
     \/ /\ n_lines = Len(file.lines) /\ n_lines > 0 /\ ~file.newline
        /\ movie.name = file.lines[n_lines].name

ListsAreLines ==
  /\ \A j \in 1..n_lines : file.lines[j] \in Movie
  /\ cantGenre = Len(genreList)
  /\ \A g \in Genres : Len(movieList[g]) <= cantMoviesGenre[g]
  /\ \A g \in Genres : Listed(g, genreList) <=> \E j \in 1..n_lines : file.lines[j].gen = g
  /\ \A g \in Genres, movie \in Movie : Listed(movie, movieList[g]) => IsLine(movie, g)
  /\ \A j \in 1..n_lines : \E movie \in Movie :
       /\ Listed(movie, movieList[file.lines[j].gen])
       /\ movie.name = file.lines[j].name

(* A name leads to the genre of the first line with it.                   *)
PathsAreFirst ==
  /\ \A j \in 1..n_lines : file.lines[j].name \in DOMAIN file_paths
  /\ \A n \in DOMAIN file_paths : \E j \in 1..n_lines :
       /\ file.lines[j].name = n /\ file.lines[j].gen = file_paths[n].gen
       /\ \A i \in 1..(j - 1) : file.lines[i].name # n

(* If strcmp returns signs, a list in which every name is once, and at the*)
(* price at which it is sold if the name leads to this genre.             *)
ListsAreSorted ==
  strcmp = "sign" => \A g \in Genres :
    /\ Sorted(movieList[g])
    /\ \A movie \in Movie :
         Listed(movie, movieList[g]) /\ file_paths[movie.name].gen = g =>
           file_paths[movie.name] = movie

CatInv == CatTypeOK /\ ListsAreLines /\ PathsAreFirst /\ ListsAreSorted

LEMMA InitCatInv == CatInit => CatInv
  <1>. SUFFICES ASSUME CatInit PROVE CatInv
    OBVIOUS
  <1>1. file.lines \in Seq(Movie \cup {Malformed})
    BY CatalogueAssumption DEF CatInit
  <1>2. CatTypeOK
    BY <1>1 DEF CatInit, CatTypeOK
  <1>3. ListsAreLines /\ PathsAreFirst /\ ListsAreSorted
    BY DEF CatInit, ListsAreLines, PathsAreFirst, ListsAreSorted, Listed, Sorted
  <1>. QED BY <1>2, <1>3 DEF CatInv

(* A list in order stays in order, and ignores a name that it has.        *)
LEMMA SortedStays ==
    ASSUME strcmp = "sign", NEW list \in Seq(Movie), Sorted(list), NEW movie \in Movie,
           NEW i \in 1..(Len(list) + 1), NEW new \in Seq(Movie), Len(new) = Len(list) + 1,
           \A j \in 1..(Len(list) + 1) :
             new[j] = IF j < i THEN list[j] ELSE IF j = i THEN movie ELSE list[j - 1],
           \A j \in 1..(i - 1) : list[j].name < movie.name,
           i <= Len(list) => movie.name < list[i].name
    PROVE  Sorted(new) /\ \A m \in Movie : Listed(m, list) => m.name # movie.name
  <1>1. \A m \in Movie : m.name \in Nat
    BY CatalogueAssumption DEF Movie
  <1>2. \A j \in 1..Len(list) : list[j].name \in Nat
    BY <1>1
  <1>3. movie.name \in Nat
    BY <1>1
  <1>4. \A j \in i..Len(list) : movie.name < list[j].name
    <2>. SUFFICES ASSUME NEW j \in i..Len(list) PROVE movie.name < list[j].name
      OBVIOUS
    <2>1. i \in 1..Len(list) /\ j \in 1..Len(list)
      OBVIOUS
    <2>2. list[i].name \in Nat /\ list[j].name \in Nat /\ movie.name < list[i].name
      BY <1>2, <2>1
    <2>3. i < j => list[i].name < list[j].name
      BY <2>1 DEF Sorted
    <2>. QED BY <1>3, <2>2, <2>3
  <1>5. ASSUME NEW a \in 1..Len(new), NEW b \in 1..Len(new), a < b
        PROVE  new[a].name < new[b].name
    <2>1. CASE a < i /\ b < i
      BY <1>5, <2>1 DEF Sorted
    <2>2. CASE a < i /\ b = i
      BY <1>5, <2>2
    <2>3. CASE a < i /\ b > i
      <3>1. a \in 1..(i - 1) /\ b - 1 \in i..Len(list)
        BY <2>3
      <3>2. list[a].name < movie.name /\ movie.name < list[b - 1].name
        BY <1>4, <3>1
      <3>3. new[a] = list[a] /\ new[b] = list[b - 1]
        BY <2>3
      <3>4. list[a].name \in Nat /\ list[b - 1].name \in Nat
        BY <1>2, <3>1
      <3>. QED BY <1>3, <3>2, <3>3, <3>4
    <2>4. CASE a = i /\ b > i
      <3>1. b - 1 \in i..Len(list)
        BY <2>4
      <3>2. new[a] = movie /\ new[b] = list[b - 1]
        BY <2>4
      <3>. QED BY <1>4, <3>1, <3>2
    <2>5. CASE a > i /\ b > i
      <3>1. a - 1 \in 1..Len(list) /\ b - 1 \in 1..Len(list) /\ a - 1 < b - 1
        BY <1>5, <2>5
      <3>2. list[a - 1].name < list[b - 1].name
        BY <3>1 DEF Sorted
      <3>. QED BY <2>5, <3>2
    <2>. QED BY <1>5, <2>1, <2>2, <2>3, <2>4, <2>5
  <1>6. \A m \in Movie : Listed(m, list) => m.name # movie.name
    BY <1>2, <1>3, <1>4 DEF Listed
  <1>. QED BY <1>5, <1>6 DEF Sorted

LEMMA MovieGoesIn ==
    ASSUME strcmp \in {"sign", "difference"}, NEW list \in Seq(Movie), NEW movie \in Movie,
           NEW new, new = Insert(list, NamesOf(list), movie, movie.name)
    PROVE  /\ new \in Seq(Movie) /\ Len(new) <= Len(list) + 1
           /\ \E m \in Movie : Listed(m, new) /\ m.name = movie.name
           /\ \A m \in Movie : Listed(m, list) => Listed(m, new)
           /\ \A m \in Movie : Listed(m, new) => Listed(m, list) \/ m = movie
           /\ strcmp = "sign" /\ Sorted(list) =>
                /\ Sorted(new)
                /\ new = list \/ \A m \in Movie : Listed(m, list) => m.name # movie.name
  <1>1. \A m \in Movie : m.name \in Nat
    BY CatalogueAssumption DEF Movie
  <1>2. PICK keys : keys = NamesOf(list)
    OBVIOUS
  <1>3. Len(keys) = Len(list) /\ \A i \in 1..Len(list) : keys[i] = list[i].name
    <2>1. keys = [i \in 1..Len(list) |-> list[i].name]
      BY <1>2 DEF NamesOf
    <2>. QED BY <2>1
  <1>4. new \in Seq(Movie) /\ Added(list, keys, movie, movie.name, new)
    <2>1. \A i \in 1..Len(list) : keys[i] \in Nat
      BY <1>1, <1>3
    <2>2. new = Insert(list, keys, movie, movie.name)
      BY <1>2
    <2>. QED BY <1>1, <1>3, <2>1, <2>2, InsertAdds
  <1>5. /\ \A m \in Movie : Listed(m, list) => Listed(m, new)
        /\ \A m \in Movie : Listed(m, new) => Listed(m, list) \/ m = movie
        /\ \/ new = list /\ \E i \in 1..Len(list) : keys[i] = movie.name
           \/ Len(new) = Len(list) + 1 /\ Listed(movie, new)
    BY <1>4, AddedIsListed
  <1>6. \E m \in Movie : Listed(m, new) /\ m.name = movie.name
    BY <1>3, <1>5 DEF Listed
  <1>7. ASSUME strcmp = "sign", Sorted(list)
        PROVE  /\ Sorted(new)
               /\ new = list \/ \A m \in Movie : Listed(m, list) => m.name # movie.name
    <2>1. CASE new = list
      BY <1>7, <2>1
    <2>2. CASE new # list
      <3>1. PICK i \in 1..(Len(list) + 1) :
              /\ Len(new) = Len(list) + 1
              /\ \A j \in 1..(Len(list) + 1) :
                   new[j] = IF j < i THEN list[j] ELSE IF j = i THEN movie ELSE list[j - 1]
              /\ \A j \in 1..(i - 1) : keys[j] < movie.name
              /\ strcmp = "sign" /\ i <= Len(list) => movie.name < keys[i]
        BY <1>4, <2>2 DEF Added
      <3>2. /\ \A j \in 1..(i - 1) : list[j].name < movie.name
            /\ i <= Len(list) => movie.name < list[i].name
        BY <1>3, <1>7, <3>1
      <3>. QED BY <1>4, <1>7, <3>1, <3>2, SortedStays
    <2>. QED BY <2>1, <2>2
  <1>. QED BY <1>4, <1>5, <1>6, <1>7

LEMMA GenreGoesIn ==
    ASSUME strcmp \in {"sign", "difference"}, NEW list \in Seq(Genres), NEW gen \in Genres,
           ~Listed(gen, list), NEW new, new = Insert(list, list, gen, gen)
    PROVE  /\ new \in Seq(Genres) /\ Len(new) = Len(list) + 1
           /\ \A g \in Genres : Listed(g, new) <=> Listed(g, list) \/ g = gen
  <1>1. /\ \A i \in 1..Len(list) : list[i] \in Nat
        /\ gen \in Nat
    <2>1. \A g \in Genres : g \in Nat
      BY CatalogueAssumption
    <2>2. \A i \in 1..Len(list) : list[i] \in Genres
      OBVIOUS
    <2>. QED BY <2>1, <2>2
  <1>2. new \in Seq(Genres) /\ Added(list, list, gen, gen, new)
    BY <1>1, InsertAdds
  <1>3. /\ \A g \in Genres : Listed(g, list) => Listed(g, new)
        /\ \A g \in Genres : Listed(g, new) => Listed(g, list) \/ g = gen
        /\ \/ new = list /\ \E i \in 1..Len(list) : list[i] = gen
           \/ Len(new) = Len(list) + 1 /\ Listed(gen, new)
    BY <1>2, AddedIsListed
  <1>. QED BY <1>2, <1>3 DEF Listed

LEMMA HasGenreIsListed ==
    ASSUME CatTypeOK, ListsAreLines, NEW g \in Genres
    PROVE  HasGenre(g) <=> Listed(g, genreList)
  <1>1. \A i \in 1..Len(genreList) : genreList[i] \in Nat /\ i <= cantGenre
    <2>1. \A h \in Genres : h \in Nat
      BY CatalogueAssumption
    <2>2. genreList \in Seq(Genres) /\ cantGenre = Len(genreList)
      BY DEF CatTypeOK, ListsAreLines
    <2>3. \A i \in 1..Len(genreList) : genreList[i] \in Genres
      BY <2>2
    <2>. QED BY <2>1, <2>2, <2>3
  <1>2. g \in Nat
    BY CatalogueAssumption
  <1>3. strcmp \in {"sign", "difference"}
    BY DEF CatTypeOK
  <1>. QED BY <1>1, <1>2, <1>3, ComparesWell DEF HasGenre, Listed

(* What LoadMovie reads: a movie with the name and the genre of the line. *)
LEMMA BuiltFromLine ==
    ASSUME CatTypeOK, n_lines < Len(file.lines), file.lines[n_lines + 1] # Malformed,
           NEW movie \in BuildMovie(n_lines + 1)
    PROVE  /\ file.lines[n_lines + 1] \in Movie /\ movie \in Movie
           /\ movie.name = file.lines[n_lines + 1].name
           /\ movie.gen = file.lines[n_lines + 1].gen
           /\ \/ movie = file.lines[n_lines + 1]
              \/ n_lines + 1 = Len(file.lines) /\ ~file.newline
  <1>1. n_lines + 1 \in 1..Len(file.lines)
    BY CatalogueAssumption DEF CatTypeOK
  <1>2. file.lines \in Seq(Movie \cup {Malformed}) /\ file.newline \in BOOLEAN
    BY CatalogueAssumption DEF CatTypeOK
  <1>3. PICK line \in Movie : line = file.lines[n_lines + 1]
    BY <1>1, <1>2
  <1>4. CASE Whole(n_lines + 1)
    BY <1>3, <1>4 DEF BuildMovie
  <1>5. CASE ~Whole(n_lines + 1)
    <2>1. n_lines + 1 = Len(file.lines) /\ ~file.newline
      BY <1>1, <1>2, <1>5 DEF Whole
    <2>2. \E v \in Nat : movie = [line EXCEPT !.value = v]
      <3>1. PICK v \in IF line.value >= 10 THEN {line.value \div 10} ELSE Values :
              movie = [line EXCEPT !.value = v]
        BY <1>3, <1>5 DEF BuildMovie
      <3>2. line.value \in Nat
        BY DEF Movie
      <3>3. line.value \div 10 \in Nat
        BY <3>2
      <3>4. v \in Nat
        BY <3>3, CatalogueAssumption
      <3>. QED BY <3>1, <3>4
    <2>3. movie \in Movie /\ movie.name = line.name /\ movie.gen = line.gen
      BY <2>2 DEF Movie
    <2>. QED BY <1>3, <2>1, <2>3
  <1>. QED BY <1>4, <1>5

LEMMA LoadMovieKeepsCatalogue ==
    ASSUME CatInv, LoadMovie
    PROVE  CatInv'
  <1>1. CatTypeOK /\ ListsAreLines /\ PathsAreFirst /\ ListsAreSorted
    BY DEF CatInv
  <1>. USE <1>1
  <1>2. /\ n_lines' = n_lines + 1 /\ n_lines < Len(file.lines)
        /\ file.lines[n_lines + 1] # Malformed
        /\ UNCHANGED <<strcmp, file, starting>>
    BY DEF LoadMovie
  <1>3. PICK movie \in Movie :
          /\ genreList' = IF HasGenre(movie.gen) THEN genreList
                          ELSE Insert(genreList, genreList, movie.gen, movie.gen)
          /\ cantGenre' = IF HasGenre(movie.gen) THEN cantGenre ELSE cantGenre + 1
          /\ movieList' = [movieList EXCEPT ![movie.gen] =
                             Insert(@, NamesOf(@), movie, movie.name)]
          /\ cantMoviesGenre' = [cantMoviesGenre EXCEPT ![movie.gen] = @ + 1]
          /\ file_paths' = [n \in DOMAIN file_paths \cup {movie.name} |->
                              IF n \in DOMAIN file_paths THEN file_paths[n] ELSE movie]
          /\ movie.name = file.lines[n_lines + 1].name
          /\ movie.gen = file.lines[n_lines + 1].gen
          /\ \/ movie = file.lines[n_lines + 1]
             \/ n_lines + 1 = Len(file.lines) /\ ~file.newline
    BY <1>2, BuiltFromLine DEF LoadMovie
  <1>4. file.lines[n_lines + 1] \in Movie
    BY <1>2, BuiltFromLine DEF LoadMovie
  <1>5. PICK gen \in Genres, name \in Names : gen = movie.gen /\ name = movie.name
    BY <1>3, <1>4 DEF Movie
  <1>6. Len(file.lines) \in Nat /\ n_lines \in 0..Len(file.lines)
    BY CatalogueAssumption DEF CatTypeOK
  (* The genres. *)
  <1>7. /\ genreList' \in Seq(Genres) /\ cantGenre' = Len(genreList')
        /\ \A g \in Genres : Listed(g, genreList') <=> Listed(g, genreList) \/ g = gen
    <2>1. HasGenre(gen) <=> Listed(gen, genreList)
      BY HasGenreIsListed
    <2>2. CASE HasGenre(gen)
      BY <1>3, <1>5, <2>1, <2>2 DEF CatTypeOK, ListsAreLines
    <2>3. CASE ~HasGenre(gen)
      <3>1. genreList \in Seq(Genres) /\ cantGenre = Len(genreList)
            /\ strcmp \in {"sign", "difference"}
        BY DEF CatTypeOK, ListsAreLines
      <3>2. genreList' = Insert(genreList, genreList, gen, gen) /\ cantGenre' = cantGenre + 1
        BY <1>3, <1>5, <2>3
      <3>. QED BY <2>1, <2>3, <3>1, <3>2, GenreGoesIn
    <2>. QED BY <2>2, <2>3
  (* The movies. *)
  <1>8. PICK list \in Seq(Movie) : list = movieList[gen]
    BY DEF CatTypeOK
  <1>9. PICK new : new = Insert(list, NamesOf(list), movie, movie.name)
    OBVIOUS
  <1>10. /\ new \in Seq(Movie) /\ Len(new) <= Len(list) + 1
         /\ \E m \in Movie : Listed(m, new) /\ m.name = movie.name
         /\ \A m \in Movie : Listed(m, list) => Listed(m, new)
         /\ \A m \in Movie : Listed(m, new) => Listed(m, list) \/ m = movie
         /\ strcmp = "sign" =>
              /\ Sorted(new)
              /\ new = list \/ \A m \in Movie : Listed(m, list) => m.name # movie.name
    <2>1. strcmp \in {"sign", "difference"} /\ (strcmp = "sign" => Sorted(list))
      BY <1>8 DEF CatTypeOK, ListsAreSorted
    <2>2. new \in Seq(Movie) /\ Len(new) <= Len(list) + 1
      BY <1>9, <2>1, MovieGoesIn
    <2>3. \E m \in Movie : Listed(m, new) /\ m.name = movie.name
      BY <1>9, <2>1, MovieGoesIn
    <2>4. \A m \in Movie : Listed(m, list) => Listed(m, new)
      BY <1>9, <2>1, MovieGoesIn
    <2>5. \A m \in Movie : Listed(m, new) => Listed(m, list) \/ m = movie
      BY <1>9, <2>1, MovieGoesIn
    <2>6. strcmp = "sign" =>
            /\ Sorted(new)
            /\ new = list \/ \A m \in Movie : Listed(m, list) => m.name # movie.name
      BY <1>9, <2>1, MovieGoesIn
    <2>. QED BY <2>2, <2>3, <2>4, <2>5, <2>6
  <1>11. /\ movieList' = [movieList EXCEPT ![gen] = new]
         /\ movieList'[gen] = new /\ \A g \in Genres : g # gen => movieList'[g] = movieList[g]
    BY <1>3, <1>5, <1>8, <1>9 DEF CatTypeOK
  <1>12. CatTypeOK'
    <2>1. movieList' \in [Genres -> Seq(Movie)]
      BY <1>10, <1>11 DEF CatTypeOK
    <2>2. cantMoviesGenre' \in [Genres -> Nat] /\ cantGenre' \in Nat
      BY <1>3, <1>5, <1>7 DEF CatTypeOK
    <2>3. DOMAIN file_paths' \subseteq Names /\ \A n \in DOMAIN file_paths' : file_paths'[n] \in Movie
      <3>1. DOMAIN file_paths' = DOMAIN file_paths \cup {name}
        BY <1>3, <1>5
      <3>2. \A n \in DOMAIN file_paths' : file_paths'[n] \in {file_paths[n], movie}
        BY <1>3
      <3>. QED BY <1>3, <3>1, <3>2 DEF CatTypeOK
    <2>4. n_lines' \in 0..Len(file'.lines)
      BY <1>2, <1>6
    <2>5. strcmp' \in {"sign", "difference"} /\ file' \in Files
          /\ starting' \in {"loading", "ready", "failed"}
      BY <1>2 DEF CatTypeOK
    <2>. QED BY <1>7, <2>1, <2>2, <2>3, <2>4, <2>5 DEF CatTypeOK
  <1>13. \A j \in 1..n_lines' : j \in 1..n_lines \/ j = n_lines + 1
    BY <1>2, <1>6
  <1>14. 1..n_lines \subseteq 1..n_lines' /\ n_lines + 1 \in 1..n_lines'
    BY <1>2, <1>6
  <1>15. \A m \in Movie, g \in Genres : IsLine(m, g) => IsLine(m, g)'
    BY <1>2, <1>6, <1>14 DEF IsLine, Lines
  <1>16. IsLine(movie, gen)'
    <2>1. CASE movie = file.lines[n_lines + 1]
      BY <1>2, <1>5, <1>14, <2>1 DEF IsLine, Lines
    <2>2. CASE n_lines + 1 = Len(file.lines) /\ ~file.newline
      BY <1>2, <1>3, <1>4, <1>5, <1>6, <2>2 DEF IsLine
    <2>. QED BY <1>3, <1>4, <2>1, <2>2
  <1>17. ListsAreLines'
    <2>1. \A j \in 1..n_lines' : file.lines[j] \in Movie
      BY <1>3, <1>4, <1>13 DEF ListsAreLines
    <2>2. \A g \in Genres : Len(movieList'[g]) <= cantMoviesGenre'[g]
      <3>1. Len(list) <= cantMoviesGenre[gen] /\ cantMoviesGenre \in [Genres -> Nat]
        BY <1>8 DEF ListsAreLines, CatTypeOK
      <3>2. Len(new) <= cantMoviesGenre'[gen]
        BY <1>3, <1>5, <1>10, <3>1
      <3>3. \A g \in Genres : g # gen => cantMoviesGenre'[g] = cantMoviesGenre[g]
        BY <1>3, <1>5, <3>1
      <3>. QED BY <1>11, <3>2, <3>3 DEF ListsAreLines
    <2>3. \A g \in Genres : Listed(g, genreList') <=> \E j \in 1..n_lines' : file.lines[j].gen = g
      <3>1. file.lines[n_lines + 1].gen = gen
        BY <1>3, <1>4, <1>5
      <3>. QED BY <1>7, <1>13, <1>14, <3>1 DEF ListsAreLines
    <2>4. \A g \in Genres, m \in Movie : Listed(m, movieList'[g]) => IsLine(m, g)'
      BY <1>8, <1>10, <1>11, <1>15, <1>16 DEF ListsAreLines
    <2>5. ASSUME NEW j \in 1..n_lines'
          PROVE  \E m \in Movie :
                   Listed(m, movieList'[file.lines[j].gen]) /\ m.name = file.lines[j].name
      <3>1. file.lines[j] \in Movie /\ file.lines[j].gen \in Genres
        BY <2>1 DEF Movie
      <3>2. CASE j = n_lines + 1
        BY <1>3, <1>4, <1>5, <1>10, <1>11, <3>2
      <3>3. CASE j \in 1..n_lines
        BY <1>8, <1>10, <1>11, <3>1, <3>3 DEF ListsAreLines
      <3>. QED BY <1>13, <3>2, <3>3
    <2>. QED BY <1>2, <1>7, <2>1, <2>2, <2>3, <2>4, <2>5 DEF ListsAreLines
  <1>18. PathsAreFirst'
    <2>1. \A j \in 1..n_lines' : file.lines[j].name \in DOMAIN file_paths'
      BY <1>3, <1>4, <1>13 DEF PathsAreFirst
    <2>2. ASSUME NEW n \in DOMAIN file_paths'
          PROVE  \E j \in 1..n_lines' :
                   /\ file.lines[j].name = n /\ file.lines[j].gen = file_paths'[n].gen
                   /\ \A i \in 1..(j - 1) : file.lines[i].name # n
      <3>1. CASE n \in DOMAIN file_paths
        BY <1>3, <1>14, <3>1 DEF PathsAreFirst
      <3>2. CASE n \notin DOMAIN file_paths
        <4>1. n = movie.name /\ file_paths'[n] = movie
          BY <1>3, <2>2, <3>2
        <4>2. \A i \in 1..n_lines : file.lines[i].name # n
          BY <3>2 DEF PathsAreFirst
        <4>3. \A i \in 1..(n_lines + 1 - 1) : file.lines[i].name # n
          BY <1>6, <4>2
        <4>4. PICK j \in 1..n_lines' : j = n_lines + 1
          BY <1>14
        <4>5. file.lines[j].name = n /\ file.lines[j].gen = file_paths'[n].gen
          BY <1>3, <1>4, <4>1, <4>4
        <4>6. j - 1 = n_lines + 1 - 1
          BY <1>6, <4>4
        <4>7. \A i \in 1..(j - 1) : file.lines[i].name # n
          BY <4>3, <4>6, Zenon
        <4>. QED BY <4>5, <4>7
      <3>. QED BY <3>1, <3>2
    <2>. QED BY <1>2, <2>1, <2>2 DEF PathsAreFirst
  <1>19. ListsAreSorted'
    <2>. SUFFICES ASSUME strcmp = "sign", NEW g \in Genres
                  PROVE  /\ Sorted(movieList'[g])
                         /\ \A m \in Movie :
                              Listed(m, movieList'[g]) /\ file_paths'[m.name].gen = g =>
                                file_paths'[m.name] = m
      BY <1>2 DEF ListsAreSorted
    <2>1. Sorted(movieList'[g])
      BY <1>10, <1>11 DEF ListsAreSorted
    <2>2. ASSUME NEW m \in Movie, Listed(m, movieList[g]), file_paths'[m.name].gen = g
          PROVE  file_paths'[m.name] = m
      <3>1. IsLine(m, g)
        BY <2>2 DEF ListsAreLines
      <3>2. m.name \in DOMAIN file_paths
        <4>1. \E j \in 1..n_lines : file.lines[j].name = m.name
          BY <1>6, <3>1 DEF IsLine, Lines
        <4>. QED BY <4>1 DEF PathsAreFirst
      <3>3. file_paths'[m.name] = file_paths[m.name]
        BY <1>3, <3>2
      <3>. QED BY <2>2, <3>3 DEF ListsAreSorted
    <2>3. ASSUME g = gen, new # list, file_paths'[movie.name].gen = g
          PROVE  file_paths'[movie.name] = movie
      <3>1. CASE movie.name \notin DOMAIN file_paths
        BY <1>3, <3>1
      <3>2. CASE movie.name \in DOMAIN file_paths
        <4>1. file_paths[movie.name].gen = gen
          BY <1>3, <2>3, <3>2
        <4>2. PICK j \in 1..n_lines : file.lines[j].name = name /\ file.lines[j].gen = gen
          BY <1>5, <3>2, <4>1 DEF PathsAreFirst
        <4>3. \E m \in Movie : Listed(m, list) /\ m.name = name
          BY <1>8, <4>2 DEF ListsAreLines
        <4>. QED BY <1>5, <1>10, <2>3, <4>3
      <3>. QED BY <3>1, <3>2
    <2>. QED BY <1>8, <1>10, <1>11, <2>1, <2>2, <2>3
  <1>. QED BY <1>12, <1>17, <1>18, <1>19 DEF CatInv

LEMMA OtherStepsKeepCatalogue ==
    ASSUME [Next]_vars
    PROVE  Load \/ UNCHANGED catVars
  <1>1. CASE Start \/ UNCHANGED vars
    BY <1>1 DEF Start, vars
  <1>2. ASSUME NEW c \in Clients, Terminal(c) PROVE UNCHANGED catVars
    BY <1>2, Zenon DEF Terminal, Connect, SendSize, SendData, Receive, ReceiveList, ReceiveLess,
       GivesUp, Vanishes
  <1>3. ASSUME NEW p \in Process, Session(p) \/ SendMovieReturns(p) \/ Dies(p) PROVE UNCHANGED catVars
    BY <1>3, Zenon DEF Session, Answer, AnswerUnpaid, RefuseNobody, IgnoreJunk, Dies,
       AnswerHeader, AnswerList, NoList, Finish, StartRefused, Fork, SendMovieReturns
  <1>4. ASSUME NEW p \in Process, Server(p) PROVE UNCHANGED catVars
    BY <1>3, <1>4, Zenon DEF Server, Select, Accept, AcceptFails, ReceiveSize, ReceiveNoSize,
       ReceiveNull, ReceiveData
  <1>. QED BY <1>1, <1>2, <1>3, <1>4 DEF Next

LEMMA NextKeepsCatalogue == CatInv /\ [Next]_vars => CatInv'
  <1>. SUFFICES ASSUME CatInv, [Next]_vars PROVE CatInv'
    OBVIOUS
  <1>1. CASE LoadMovie
    BY <1>1, LoadMovieKeepsCatalogue
  <1>2. CASE LoadFails \/ LoadEnds \/ UNCHANGED catVars
    <2>1. /\ UNCHANGED <<strcmp, file, n_lines, genreList, movieList, cantGenre,
                         cantMoviesGenre, file_paths>>
          /\ starting' \in {starting, "ready", "failed"}
      BY <1>2 DEF LoadFails, LoadEnds, catVars
    <2>2. CatTypeOK'
      BY <2>1 DEF CatInv, CatTypeOK
    <2>3. ListsAreLines' /\ PathsAreFirst' /\ ListsAreSorted'
      BY <2>1 DEF CatInv, ListsAreLines, PathsAreFirst, ListsAreSorted, IsLine, Lines
    <2>. QED BY <2>2, <2>3 DEF CatInv
  <1>. QED BY <1>1, <1>2, OtherStepsKeepCatalogue DEF Load, CatNext

(* What the handlers read is the lists, whole.                            *)
LEMMA ListsAreWhole ==
    ASSUME CatInv
    PROVE  /\ ListGenre = genreList
           /\ \A g \in Genres : GetMoviesByGenre(g) =
                IF Listed(g, genreList) THEN movieList[g] ELSE <<>>
  <1>1. genreList \in Seq(Genres) /\ cantGenre = Len(genreList)
    BY DEF CatInv, CatTypeOK, ListsAreLines
  <1>2. ListGenre = genreList
    BY <1>1 DEF ListGenre, Smaller
  <1>3. ASSUME NEW g \in Genres
        PROVE  GetMoviesByGenre(g) = IF Listed(g, genreList) THEN movieList[g] ELSE <<>>
    <2>1. HasGenre(g) <=> Listed(g, genreList)
      BY HasGenreIsListed DEF CatInv
    <2>2. movieList[g] \in Seq(Movie) /\ Len(movieList[g]) <= cantMoviesGenre[g]
          /\ cantMoviesGenre[g] \in Nat
      BY DEF CatInv, CatTypeOK, ListsAreLines
    <2>3. SubSeq(movieList[g], 1, Smaller(Len(movieList[g]), cantMoviesGenre[g])) = movieList[g]
      BY <2>2 DEF Smaller
    <2>. QED BY <2>1, <2>3 DEF GetMoviesByGenre
  <1>. QED BY <1>2, <1>3

LEMMA CatInvIsComplete == CatInv => CatalogueIsComplete
  <1>. SUFFICES ASSUME CatInv PROVE CatalogueIsComplete
    OBVIOUS
  <1>1. CatTypeOK /\ ListsAreLines /\ PathsAreFirst /\ ListsAreSorted
    BY DEF CatInv
  <1>2. ListGenre = genreList
    BY ListsAreWhole
  <1>3. \A g \in Genres : GetMoviesByGenre(g) =
          IF Listed(g, genreList) THEN movieList[g] ELSE <<>>
    BY ListsAreWhole
  <1>4. ASSUME NEW movie \in Lines
        PROVE  /\ \E i \in 1..Len(ListGenre) : ListGenre[i] = movie.gen
               /\ \E i \in 1..Len(GetMoviesByGenre(movie.gen)) :
                    GetMoviesByGenre(movie.gen)[i].name = movie.name
    <2>1. PICK j \in 1..n_lines : movie = file.lines[j]
      BY DEF Lines
    <2>2. movie \in Movie /\ movie.gen \in Genres
      BY <1>1, <2>1 DEF ListsAreLines, Movie
    <2>3. Listed(movie.gen, genreList)
      BY <1>1, <2>1, <2>2 DEF ListsAreLines
    <2>4. PICK m \in Movie : Listed(m, movieList[movie.gen]) /\ m.name = movie.name
      BY <1>1, <2>1 DEF ListsAreLines
    <2>. QED BY <1>2, <1>3, <2>2, <2>3, <2>4 DEF Listed
  <1>5. ASSUME NEW i \in 1..Len(ListGenre)
        PROVE  \E movie \in Lines : movie.gen = ListGenre[i]
    <2>1. genreList[i] \in Genres /\ Listed(genreList[i], genreList)
      BY <1>1, <1>2 DEF CatTypeOK, Listed
    <2>2. PICK j \in 1..n_lines : file.lines[j].gen = genreList[i]
      BY <1>1, <2>1 DEF ListsAreLines
    <2>. QED BY <1>2, <2>2 DEF Lines
  <1>6. ASSUME NEW g \in Genres, NEW i \in 1..Len(GetMoviesByGenre(g)),
               NEW movie, movie = GetMoviesByGenre(g)[i]
        PROVE  movie \in Movie /\ Listed(movie, movieList[g]) /\ IsLine(movie, g)
    <2>1. movieList[g] \in Seq(Movie)
      BY <1>1 DEF CatTypeOK
    <2>2. GetMoviesByGenre(g) = movieList[g]
      BY <1>3, <1>6
    <2>3. movie \in Movie /\ Listed(movie, movieList[g])
      BY <1>6, <2>1, <2>2 DEF Listed
    <2>. QED BY <1>1, <2>3 DEF ListsAreLines
  <1>7. ASSUME NEW g \in Genres, NEW i \in 1..Len(GetMoviesByGenre(g)),
               NEW movie, movie = GetMoviesByGenre(g)[i],
               NEW first, first = Min({j \in 1..n_lines : file.lines[j].name = movie.name})
        PROVE  /\ MovieValue(movie.name) # -1
               /\ strcmp = "sign" /\ file.lines[first].gen = g
                    => MovieValue(movie.name) = movie.value
    <2>1. movie \in Movie /\ Listed(movie, movieList[g]) /\ IsLine(movie, g)
      BY <1>6, <1>7
    <2>2. \E j \in 1..n_lines : file.lines[j].name = movie.name
      <3>1. n_lines \in Nat
        BY <1>1, CatalogueAssumption DEF CatTypeOK
      <3>. QED BY <2>1, <3>1 DEF IsLine, Lines
    <2>3. movie.name \in DOMAIN file_paths
      BY <1>1, <2>2 DEF PathsAreFirst
    <2>4. MovieValue(movie.name) = file_paths[movie.name].value
      BY <2>3 DEF MovieValue
    <2>5. file_paths[movie.name].value \in Nat
      BY <1>1, <2>3 DEF CatTypeOK, Movie
    <2>6. ASSUME strcmp = "sign", file.lines[first].gen = g
          PROVE  MovieValue(movie.name) = movie.value
      <3>1. PICK j \in 1..n_lines :
              /\ file.lines[j].name = movie.name
              /\ file.lines[j].gen = file_paths[movie.name].gen
              /\ \A k \in 1..(j - 1) : file.lines[k].name # movie.name
        BY <1>1, <2>3 DEF PathsAreFirst
      <3>2. first = j
        <4>. DEFINE S == {k \in 1..n_lines : file.lines[k].name = movie.name}
        <4>1. S \in SUBSET Nat /\ j \in S
          BY <3>1
        <4>2. first \in S /\ first <= j
          BY <1>7, <4>1, LeastIsMin
        <4>3. first \in 1..n_lines /\ file.lines[first].name = movie.name
          BY <4>2
        <4>. QED BY <3>1, <4>2, <4>3
      <3>. QED BY <1>1, <2>1, <2>4, <2>6, <3>1, <3>2 DEF ListsAreSorted
    <2>. QED BY <2>4, <2>5, <2>6
  <1>8. \A g \in Genres : \A i \in 1..Len(GetMoviesByGenre(g)) :
          IsLine(GetMoviesByGenre(g)[i], g)
    BY <1>6
  <1>9. \A g \in Genres : \A i \in 1..Len(GetMoviesByGenre(g)) :
          LET movie == GetMoviesByGenre(g)[i] IN
          \/ movie.gen = g /\ movie \in Lines
          \/ /\ n_lines = Len(file.lines) /\ ~file.newline
             /\ movie.gen = g /\ movie.name = file.lines[n_lines].name
    BY <1>8 DEF IsLine
  <1>10. \A g \in Genres : \A i \in 1..Len(GetMoviesByGenre(g)) :
           LET movie == GetMoviesByGenre(g)[i]
               first == Min({j \in 1..n_lines : file.lines[j].name = movie.name}) IN
           /\ MovieValue(movie.name) # -1
           /\ strcmp = "sign" /\ file.lines[first].gen = g
                => MovieValue(movie.name) = movie.value
    BY <1>7
  <1>. QED BY <1>4, <1>5, <1>9, <1>10, Zenon DEF CatalogueIsComplete

-----------------------------------------------------------------------------
(* What terminals are sent: the invariant behind TerminalGetsTheCatalogue *)
(* and the rest of the types.                                             *)

(* A connection that broke, or that parent and child both read.           *)
Shared == broken \cup inherited

(* What terminals have lost stays lost.                                   *)
Grow ==
  /\ broken \subseteq broken' /\ broken' \subseteq Clients
  /\ inherited \subseteq inherited' /\ inherited' \subseteq Clients

Right(c, message) ==
  /\ message.code \in {"LIST", "USERS"} => message = ListFor(typed[c])
  /\ message.code = "LIST_ERROR" => NoneToList(typed[c]) \/ c \in Shared
  /\ message.code \in {"BLANK", "ZERO"} => c \in Shared

AnswerTypes ==
  /\ inbox \in [Clients -> Seq(Messaged)]
  /\ shown \in [Clients -> Messaged \cup {None}]
  /\ inherited \subseteq Clients /\ broken \subseteq Clients

(* What a process answers is what was typed at the other end of the       *)
(* connection that it serves.                                             *)
ReadIsTyped ==
  \A p \in Process :
    /\ pc[p] \in {"answer", "list"} /\ request[p] \in Requests => request[p] = typed[Client(p)]
    /\ pc[p] = "list" => request[p] \in Requests /\ request[p].op \in Lists

AnswersAreRight ==
  \A c \in Clients :
    /\ \A i \in 1..Len(inbox[c]) : Right(c, inbox[c][i])
    /\ shown[c] # None => Right(c, shown[c])
    /\ stage[c] = "idle" => inbox[c] = <<>> /\ shown[c] = None

(* Nobody comes before the catalogue is loaded.                           *)
LoadedFirst ==
  /\ \A p \in Process : pc[p] # "unborn" => starting = "ready"
  /\ \A c \in Clients : stage[c] # "idle" => starting = "ready"

Answering == AnswerTypes /\ ReadIsTyped /\ AnswersAreRight /\ LoadedFirst

LEMMA InitAnswering == Init => Answering
  BY DEF Init, Answering, AnswerTypes, ReadIsTyped, AnswersAreRight, LoadedFirst

LEMMA NextGrows ==
    ASSUME LoopInv, Answering, [Next]_vars
    PROVE  Grow
  <1>1. broken \subseteq Clients /\ inherited \subseteq Clients
    BY DEF Answering, AnswerTypes
  <1>2. CASE UNCHANGED <<broken, inherited>>
    BY <1>1, <1>2 DEF Grow
  <1>3. ASSUME NEW p \in Process, Ends(p) PROVE Grow
    BY <1>1, <1>3 DEF Ends, Held, Grow
  <1>4. CASE Load \/ Start \/ UNCHANGED vars
    BY <1>2, <1>4 DEF Load, Start, vars
  <1>5. ASSUME NEW c \in Clients, Terminal(c) PROVE Grow
    <2>1. CASE ReceiveLess(c)
      BY <1>1, <2>1 DEF ReceiveLess, Grow
    <2>2. CASE ~ReceiveLess(c)
      <3>1. UNCHANGED <<broken, inherited>>
        BY <1>5, <2>2, Zenon DEF Terminal, Connect, SendSize, SendData, Receive, ReceiveList,
           GivesUp, Vanishes
      <3>. QED BY <1>2, <3>1
    <2>. QED BY <2>1, <2>2
  <1>6. ASSUME NEW p \in Process, NEW child \in Process, Fork(p, child) PROVE Grow
    <2>1. \A d \in afds[p] : open[p][d] \in Clients
      BY DEF LoopInv, DescriptorsAreOpen
    <2>. QED BY <1>1, <1>6, <2>1 DEF Fork, Grow
  <1>7. ASSUME NEW p \in Process, AcceptFails(p) \/ ReceiveNull(p) \/ Dies(p) PROVE Grow
    BY <1>3, <1>7 DEF AcceptFails, ReceiveNull, Dies
  <1>8. ASSUME NEW p \in Process, Session(p) \/ SendMovieReturns(p) PROVE Grow
    <2>1. CASE \E child \in Process : Fork(p, child)
      BY <1>6, <2>1
    <2>2. CASE ~\E child \in Process : Fork(p, child)
      <3>1. UNCHANGED <<broken, inherited>>
        BY <1>8, <2>2, Zenon DEF Session, Answer, AnswerUnpaid, RefuseNobody, IgnoreJunk,
           AnswerHeader, AnswerList, NoList, Finish, StartRefused, SendMovieReturns
      <3>. QED BY <1>2, <3>1
    <2>. QED BY <2>1, <2>2
  <1>9. ASSUME NEW p \in Process,
               Select(p) \/ Accept(p) \/ ReceiveSize(p) \/ ReceiveNoSize(p) \/ ReceiveData(p)
        PROVE  Grow
    BY <1>2, <1>9, Zenon DEF Select, Accept, ReceiveSize, ReceiveNoSize, ReceiveData
  <1>. QED BY <1>4, <1>5, <1>7, <1>8, <1>9 DEF Next, Server

(* While the catalogue and what was typed stay, so does what is right.    *)
LEMMA RightStays ==
    ASSUME UNCHANGED catVars, Grow, NEW c, NEW message, typed'[c] = typed[c]
    PROVE  Right(c, message) => Right(c, message)'
  <1>1. \A r : ListFor(r)' = ListFor(r) /\ (NoneToList(r)' <=> NoneToList(r))
    BY DEF ListFor, NoneToList, catVars, GetMoviesByGenre, HasGenre, Compare, ListGenre
  <1>2. Shared \subseteq Shared'
    BY DEF Shared, Grow
  <1>. QED BY <1>1, <1>2 DEF Right

LEMMA LoadAnswers ==
    ASSUME LoopInv, Answering, Grow, Load \/ Start
    PROVE  Answering'
  <1>1. CASE Load
    <2>1. /\ starting = "loading" /\ UNCHANGED <<procVars, connVars>>
      BY <1>1 DEF Load, CatNext, LoadMovie, LoadFails, LoadEnds
    <2>2. \A p \in Process : pc[p] = "unborn"
      BY <2>1 DEF Answering, LoadedFirst
    <2>3. \A c \in Clients : stage[c] = "idle" /\ inbox[c] = <<>> /\ shown[c] = None
      BY <2>1 DEF Answering, LoadedFirst, AnswersAreRight
    <2>4. UNCHANGED <<pc, stage, inbox, shown>>
      BY <2>1 DEF procVars, connVars
    <2>. QED BY <2>2, <2>3, <2>4 DEF Answering, AnswerTypes, ReadIsTyped, AnswersAreRight, LoadedFirst,
       Grow, Right
  <1>2. CASE Start
    <2>1. /\ starting = "ready" /\ pc' = [pc EXCEPT ![First] = "select"]
          /\ UNCHANGED <<open, fd, request, stage, typed, inbox, shown, catVars>>
      BY <1>2 DEF Start, connVars
    <2>2. pc \in [Process -> Places]
      BY DEF LoopInv, LoopTypes
    <2>3. \A c \in Clients : \A m : Right(c, m) => Right(c, m)'
      BY <2>1, RightStays
    <2>4. starting' = "ready"
      BY <2>1 DEF catVars
    <2>5. AnswerTypes'
      BY <2>1 DEF Answering, AnswerTypes, Grow
    <2>6. ReadIsTyped'
      BY <2>1, <2>2 DEF Answering, ReadIsTyped, Client
    <2>7. AnswersAreRight'
      BY <2>1, <2>3 DEF Answering, AnswersAreRight
    <2>. QED BY <2>4, <2>5, <2>6, <2>7 DEF Answering, LoadedFirst
  <1>. QED BY <1>1, <1>2

-----------------------------------------------------------------------------
(* That a terminal is answered as long as its connection is its own: then *)
(* nothing but an answer, or the death of a process, ends it.             *)

Going(c) == stage[c] \in {"connected", "half", "waiting", "listing"}
Owned(c) == \E p \in Process, d \in FDs : Alive(p) /\ open[p][d] = c
Taken(c) == \E p \in Process : pc[p] = "receive" /\ Client(p) = c

(* The next that the terminal reads is the header of a list.              *)
HeaderFirst(c) ==
  inbox[c] # <<>> /\ Head(inbox[c]).code = "LIST_OK" /\ typed[c].op \in Lists

(* All that a terminal still waits for is in its inbox; all but a list.   *)
Due(c) ==
  /\ stage[c] \in {"waiting", "listing"} /\ inbox[c] # <<>>
  /\ stage[c] = "waiting" /\ HeaderFirst(c) => Tail(inbox[c]) # <<>>
HalfDue(c) == stage[c] = "listing" \/ (stage[c] = "waiting" /\ HeaderFirst(c))

(* How far the process is that serves a terminal which has not left.      *)
Answers(p, c) ==
  /\ pc[p] = "answer" => request[p] \in Requests /\ stage[c] = "waiting"
  /\ pc[p] = "list" => exitPipe[p] = 0 /\ HalfDue(c)
  /\ pc[p] \in {"refused", "finish"} => Due(c)
  /\ pc[p] # "sending"

Promised(c) ==
  /\ Going(c) => Due(c) \/ Queued(c) \/ Owned(c)
  /\ served[c] = 0 => inbox[c] = <<>> /\ stage[c] # "listing"
  /\ stage[c] = "half" \/ "data" \in unread[c] => "size" \in unread[c] \/ Taken(c)
  /\ stage[c] = "waiting" => typed[c].op # "start"
  /\ \A p \in Process :
       Going(c) /\ pc[p] \in Serving \ {"receive"} /\ Client(p) = c => Answers(p, c)

Awaited == \A c \in Clients \ Shared : Promised(c)

(* The server ends a connection that did not break after its answer.      *)
LEMMA LessIsShared ==
    ASSUME Awaited, NEW c \in Clients, ReceiveLess(c)
    PROVE  c \in Shared'
  <1>1. CASE broken' = broken \cup {c}
    BY <1>1 DEF Shared
  <1>2. CASE Ended(c) /\ UNCHANGED broken
    <2>1. Going(c) /\ ~Queued(c) /\ ~Owned(c) /\ ~Due(c)
      BY <1>2 DEF ReceiveLess, Ended, Going, Queued, Owned, Due
    <2>2. c \in Shared
      BY <2>1 DEF Awaited, Promised
    <2>. QED BY <1>2, <2>2 DEF Shared, ReceiveLess
  <1>. QED BY <1>1, <1>2 DEF ReceiveLess

-----------------------------------------------------------------------------
(* Terminals.                                                             *)

LEMMA ConnectAnswers ==
    ASSUME LoopInv, Exclusive, Answering, Grow, NEW c \in Clients, Connect(c)
    PROVE  Answering'
  <1>1. PICK r \in Requests : typed' = [typed EXCEPT ![c] = r]
    BY DEF Connect
  <1>2. /\ stage[c] = "idle" /\ Listening /\ stage' = [stage EXCEPT ![c] = "connected"]
        /\ UNCHANGED <<pc, open, fd, request, inbox, shown, catVars>>
    BY DEF Connect, procVars
  <1>3. stage \in [Clients -> Stages] /\ typed \in [Clients -> Requests \cup {None}]
    BY DEF LoopInv, LoopTypes
  <1>4. starting' = "ready"
    BY <1>2 DEF Listening, Alive, Answering, LoadedFirst, catVars
  <1>5. \A p \in Process : pc[p] \in {"answer", "list"} => Client(p) \in Clients /\ Client(p) # c
    <2>. SUFFICES ASSUME NEW p \in Process, pc[p] \in {"answer", "list"}
                  PROVE  Client(p) \in Clients /\ Client(p) # c
      OBVIOUS
    <2>1. fd[p] \in FDs /\ Client(p) \in Clients
      BY ClientIsClient
    <2>2. stage[Client(p)] # "idle"
      BY <2>1 DEF Exclusive, QueueIsDistinct, Client
    <2>. QED BY <1>2, <2>1, <2>2
  <1>6. AnswerTypes'
    BY <1>2 DEF Answering, AnswerTypes, Grow
  <1>7. ReadIsTyped'
    BY <1>1, <1>2, <1>3, <1>5 DEF Answering, ReadIsTyped, Client
  <1>8. AnswersAreRight'
    <2>1. \A b \in Clients \ {c} : \A m : Right(b, m) => Right(b, m)'
      BY <1>1, <1>2, <1>3, RightStays
    <2>2. inbox[c] = <<>> /\ shown[c] = None
      BY <1>2 DEF Answering, AnswersAreRight
    <2>. QED BY <1>2, <1>3, <2>1, <2>2 DEF Answering, AnswersAreRight
  <1>. QED BY <1>4, <1>6, <1>7, <1>8 DEF Answering, LoadedFirst

(* What it reads it takes out of its inbox and may show.                  *)
LEMMA ReadingAnswers ==
    ASSUME LoopInv, Answering, Grow, NEW c \in Clients,
           stage[c] # "idle", NEW s \in Stages \ {"idle"}, stage' = [stage EXCEPT ![c] = s],
           \/ UNCHANGED <<inbox, shown>>
           \/ /\ inbox[c] # <<>> /\ inbox' = [inbox EXCEPT ![c] = Tail(@)]
              /\ shown' \in {shown, [shown EXCEPT ![c] = Head(inbox[c])]}
           \/ /\ inbox' = [inbox EXCEPT ![c] = <<>>]
              /\ \/ shown' = shown
                 \/ \E m \in Messaged : Right(c, m)' /\ shown' = [shown EXCEPT ![c] = m],
           UNCHANGED <<pc, open, fd, request, typed, catVars>>
    PROVE  Answering'
  <1>1. stage \in [Clients -> Stages]
    BY DEF LoopInv, LoopTypes
  <1>2. /\ inbox \in [Clients -> Seq(Messaged)] /\ shown \in [Clients -> Messaged \cup {None}]
    BY DEF Answering, AnswerTypes
  <1>3. \A b \in Clients : \A m : Right(b, m) => Right(b, m)'
    BY RightStays
  <1>4. LoadedFirst' /\ ReadIsTyped'
    BY <1>1 DEF Answering, LoadedFirst, ReadIsTyped, Client, catVars
  <1>5. CASE UNCHANGED <<inbox, shown>>
    <2>1. AnswerTypes' /\ AnswersAreRight'
      BY <1>1, <1>3, <1>5 DEF Answering, AnswerTypes, AnswersAreRight, Grow
    <2>. QED BY <1>4, <2>1 DEF Answering
  <1>6. CASE /\ inbox[c] # <<>> /\ inbox' = [inbox EXCEPT ![c] = Tail(@)]
             /\ shown' \in {shown, [shown EXCEPT ![c] = Head(inbox[c])]}
    <2>1. PICK box \in Seq(Messaged) : box = inbox[c]
      BY <1>2
    <2>2. /\ Head(box) = box[1] /\ Head(box) \in Messaged /\ Tail(box) \in Seq(Messaged)
          /\ 1 \in 1..Len(box) /\ Len(Tail(box)) = Len(box) - 1
          /\ \A i \in 1..Len(Tail(box)) : Tail(box)[i] = box[i + 1] /\ i + 1 \in 1..Len(box)
      BY <1>6, <2>1
    <2>3. inbox' = [inbox EXCEPT ![c] = Tail(box)] /\ shown' \in {shown, [shown EXCEPT ![c] = Head(box)]}
      BY <1>6, <2>1
    <2>4. AnswerTypes'
      BY <1>2, <2>2, <2>3 DEF AnswerTypes, Grow
    <2>5. \A i \in 1..Len(box) : Right(c, box[i])
      BY <2>1 DEF Answering, AnswersAreRight
    <2>6. \A i \in 1..Len(Tail(box)) : Right(c, Tail(box)[i])
      BY <2>2, <2>5
    <2>7. Right(c, Head(box))
      BY <2>2, <2>5
    <2>8. AnswersAreRight'
      BY <1>1, <1>2, <1>3, <2>3, <2>6, <2>7 DEF Answering, AnswersAreRight
    <2>. QED BY <1>4, <2>4, <2>8 DEF Answering
  <1>7. CASE /\ inbox' = [inbox EXCEPT ![c] = <<>>]
             /\ \/ shown' = shown
                \/ \E m \in Messaged : Right(c, m)' /\ shown' = [shown EXCEPT ![c] = m]
    <2>1. <<>> \in Seq(Messaged) /\ Len(<<>>) = 0
      OBVIOUS
    <2>2. AnswerTypes'
      BY <1>2, <1>7, <2>1 DEF AnswerTypes, Grow
    <2>3. inbox'[c] = <<>> /\ \A b \in Clients \ {c} : inbox'[b] = inbox[b] /\ shown'[b] = shown[b]
      BY <1>2, <1>7
    <2>4. shown'[c] = shown[c] \/ Right(c, shown[c])'
      BY <1>2, <1>7
    <2>5. AnswersAreRight'
      BY <1>1, <1>3, <2>1, <2>3, <2>4 DEF Answering, AnswersAreRight
    <2>. QED BY <1>4, <2>2, <2>5 DEF Answering
  <1>. QED BY <1>5, <1>6, <1>7

LEMMA TerminalAnswers ==
    ASSUME LoopInv, Exclusive, Answering, Awaited, Grow, NEW c \in Clients, Terminal(c)
    PROVE  Answering'
  <1>1. CASE Connect(c)
    BY <1>1, ConnectAnswers
  <1>2. CASE ~Connect(c)
    <2>1. /\ stage[c] # "idle"
          /\ \E s \in {"half", "waiting", "listing", "closed", "lost"} :
               stage' = [stage EXCEPT ![c] = s]
          /\ UNCHANGED <<pc, open, fd, request, typed, catVars>>
      BY <1>2 DEF Terminal, SendSize, SendData, Receive, ReceiveList, ReceiveLess, GivesUp,
         Vanishes, procVars
    <2>2. PICK s \in Stages \ {"idle"} : stage' = [stage EXCEPT ![c] = s]
      BY <2>1 DEF Stages
    <2>3. CASE ReceiveLess(c)
      <3>1. PICK code \in {"BLANK", "ZERO", "LIST_ERROR"} :
              shown' = [shown EXCEPT ![c] = [code |-> code]]
        BY <2>3 DEF ReceiveLess
      <3>2. PICK m \in Messaged : m = [code |-> code]
        BY <3>1 DEF Messaged
      <3>3. c \in Shared'
        BY <2>3, LessIsShared
      <3>4. m.code = code
        BY <3>2
      <3>5. Right(c, m)'
        BY <3>1, <3>3, <3>4 DEF Right
      <3>6. shown' = [shown EXCEPT ![c] = m] /\ inbox' = [inbox EXCEPT ![c] = <<>>]
        BY <2>3, <3>1, <3>2 DEF ReceiveLess
      <3>. QED BY <2>1, <2>2, <3>5, <3>6, ReadingAnswers
    <2>4. CASE ~ReceiveLess(c)
      <3>1. \/ UNCHANGED <<inbox, shown>>
            \/ /\ inbox[c] # <<>> /\ inbox' = [inbox EXCEPT ![c] = Tail(@)]
               /\ shown' \in {shown, [shown EXCEPT ![c] = Head(inbox[c])]}
            \/ inbox' = [inbox EXCEPT ![c] = <<>>] /\ shown' = shown
        BY <1>2, <2>4 DEF Terminal, SendSize, SendData, Receive, ReceiveList, GivesUp, Vanishes
      <3>. QED BY <2>1, <2>2, <3>1, ReadingAnswers
    <2>. QED BY <2>3, <2>4
  <1>. QED BY <1>1, <1>2

-----------------------------------------------------------------------------
(* The loop.                                                              *)

(* A step that sends nothing: who answers goes on with the same request,  *)
(* or has just read what is none, or what was typed.                      *)
LEMMA QuietAnswers ==
    ASSUME Answering, Grow,
           UNCHANGED <<stage, typed, inbox, shown, catVars>>,
           \A q \in Process : pc'[q] # "unborn" => starting = "ready",
           \A q \in Process : pc'[q] \in {"answer", "list"} =>
             \/ pc'[q] = pc[q] /\ request'[q] = request[q] /\ Client(q)' = Client(q)
             \/ pc'[q] = "answer" /\ (request'[q] \in Requests => request'[q] = typed[Client(q)'])
    PROVE  Answering'
  <1>1. \A b \in Clients : \A m : Right(b, m) => Right(b, m)'
    BY RightStays
  <1>2. AnswerTypes' /\ AnswersAreRight'
    BY <1>1 DEF Answering, AnswerTypes, AnswersAreRight, Grow
  <1>3. ReadIsTyped'
    BY DEF Answering, ReadIsTyped
  <1>4. LoadedFirst'
    BY DEF Answering, LoadedFirst, catVars
  <1>. QED BY <1>2, <1>3, <1>4 DEF Answering

LEMMA LoopAnswers ==
    ASSUME LoopInv, Answering, Grow, NEW p \in Process,
           \/ Select(p) \/ Accept(p) \/ AcceptFails(p) \/ ReceiveNull(p) \/ Dies(p)
           \/ IgnoreJunk(p) \/ NoList(p) \/ Finish(p) \/ StartRefused(p) \/ SendMovieReturns(p)
    PROVE  Answering'
  <1>. DEFINE place == {"select", "accept", "serve", "ended"}
  <1>1. /\ pc[p] # "unborn" /\ \E s \in place : pc' = [pc EXCEPT ![p] = s]
        /\ \A q \in Process : q # p => open'[q] = open[q]
        /\ UNCHANGED <<fd, request, stage, typed, inbox, shown, catVars>>
    <2>1. CASE Select(p)
      BY <2>1 DEF Select, connVars
    <2>2. CASE Accept(p)
      <3>1. pc' = [pc EXCEPT ![p] = NextPc(rfds[p])] /\ NextPc(rfds[p]) \in place
        BY <2>2 DEF Accept, NextPc
      <3>2. /\ \A q \in Process : q # p => open'[q] = open[q]
            /\ pc[p] # "unborn"
            /\ UNCHANGED <<fd, request, stage, typed, inbox, shown, catVars>>
        BY <2>2 DEF Accept, LoopInv, LoopTypes
      <3>. QED BY <3>1, <3>2
    <2>3. CASE AcceptFails(p) \/ ReceiveNull(p) \/ Dies(p)
      BY <2>3 DEF AcceptFails, ReceiveNull, Dies, Ends, Alive, connVars, LoopInv, LoopTypes
    <2>4. CASE IgnoreJunk(p) \/ NoList(p) \/ Finish(p) \/ StartRefused(p) \/ SendMovieReturns(p)
      <3>1. /\ Closed(p) /\ pc[p] # "unborn"
            /\ UNCHANGED <<stage, typed, inbox, shown, catVars>>
        BY <2>4 DEF IgnoreJunk, NoList, Finish, StartRefused, SendMovieReturns, connVars
      <3>2. NextPc(rfds[p] \ {fd[p]}) \in place
        BY DEF NextPc
      <3>. QED BY <3>1, <3>2 DEF Closed, LoopInv, LoopTypes
    <2>. QED BY <2>1, <2>2, <2>3, <2>4
  <1>2. pc \in [Process -> Places]
    BY DEF LoopInv, LoopTypes
  <1>3. pc'[p] \in place /\ \A q \in Process : q # p => pc'[q] = pc[q]
    BY <1>1, <1>2
  <1>4. \A q \in Process : pc'[q] # "unborn" => starting = "ready"
    BY <1>1, <1>3 DEF Answering, LoadedFirst
  <1>5. \A q \in Process : pc'[q] \in {"answer", "list"} =>
          pc'[q] = pc[q] /\ request'[q] = request[q] /\ Client(q)' = Client(q)
    BY <1>1, <1>3 DEF Client
  <1>. QED BY <1>1, <1>4, <1>5, QuietAnswers

LEMMA ReceivingAnswers ==
    ASSUME LoopInv, Answering, Grow, NEW p \in Process,
           ReceiveSize(p) \/ ReceiveNoSize(p) \/ ReceiveData(p)
    PROVE  Answering'
  <1>1. /\ pc \in [Process -> Places] /\ fd \in [Process -> FDs \cup {0}]
        /\ request \in [Process -> Requests \cup {Nobody, Junk}]
    BY DEF LoopInv, LoopTypes
  <1>2. /\ pc[p] # "unborn" /\ pc'[p] \in {"receive", "answer"}
        /\ \A q \in Process : q # p => /\ pc'[q] = pc[q] /\ fd'[q] = fd[q]
                                       /\ request'[q] = request[q]
        /\ UNCHANGED <<open, stage, typed, inbox, shown, catVars>>
    BY <1>1 DEF ReceiveSize, ReceiveNoSize, ReceiveData
  <1>3. \A q \in Process : pc'[q] # "unborn" => starting = "ready"
    BY <1>2 DEF Answering, LoadedFirst
  <1>4. pc'[p] = "answer" /\ request'[p] \in Requests => request'[p] = typed[Client(p)']
    <2>1. CASE ReceiveSize(p)
      BY <1>1, <2>1 DEF ReceiveSize
    <2>2. CASE ReceiveNoSize(p)
      BY <1>1, <2>2, FrontAssumption DEF ReceiveNoSize
    <2>3. CASE ReceiveData(p)
      BY <1>1, <2>3, FrontAssumption DEF ReceiveData, Client
    <2>. QED BY <2>1, <2>2, <2>3
  <1>5. \A q \in Process : pc'[q] \in {"answer", "list"} =>
          \/ pc'[q] = pc[q] /\ request'[q] = request[q] /\ Client(q)' = Client(q)
          \/ pc'[q] = "answer" /\ (request'[q] \in Requests => request'[q] = typed[Client(q)'])
    BY <1>2, <1>4 DEF Client
  <1>. QED BY <1>2, <1>3, <1>5, QuietAnswers

LEMMA ForkAnswers ==
    ASSUME LoopInv, Answering, Grow, NEW p \in Process, NEW child \in Process, Fork(p, child)
    PROVE  Answering'
  <1>1. /\ pc[p] = "answer" /\ pc'[p] = "finish" /\ pc'[child] = "sending"
        /\ \A q \in Process \ {p, child} : /\ pc'[q] = pc[q] /\ fd'[q] = fd[q]
                                           /\ request'[q] = request[q] /\ open'[q] = open[q]
        /\ UNCHANGED <<stage, typed, inbox, shown, catVars>>
    BY DEF Fork, LoopInv, LoopTypes, connVars
  <1>2. \A q \in Process : pc'[q] # "unborn" => starting = "ready"
    BY <1>1 DEF Answering, LoadedFirst
  <1>3. \A q \in Process : pc'[q] \in {"answer", "list"} =>
          pc'[q] = pc[q] /\ request'[q] = request[q] /\ Client(q)' = Client(q)
    BY <1>1 DEF Client
  <1>. QED BY <1>1, <1>2, <1>3, QuietAnswers

(* A message goes to the terminal whose request is answered.              *)
LEMMA SendingAnswers ==
    ASSUME LoopInv, Exclusive, Answering, Grow, NEW p \in Process,
           pc[p] \in {"answer", "list"},
           NEW place \in {"list", "refused", "finish"}, pc' = [pc EXCEPT ![p] = place],
           place = "list" => /\ request[p] \in Requests
                             /\ request[p].op \in Lists,
           NEW message \in Messaged, Send(p, message), Right(Client(p), message),
           \A q \in Process, d \in FDs : open[q][d] \in Clients => open'[q][d] = open[q][d],
           UNCHANGED <<fd, request, stage, typed, shown, catVars>>
    PROVE  Answering'
  <1>1. PICK c \in Clients : c = Client(p)
    BY ClientIsClient
  <1>2. stage[c] # "idle"
    BY <1>1, ClientIsClient DEF Exclusive, QueueIsDistinct, Client
  <1>3. PICK box \in Seq(Messaged) : box = inbox[c]
    BY DEF Answering, AnswerTypes
  <1>4. \E new \in {box, Append(box, message)} : inbox' = [inbox EXCEPT ![c] = new]
    BY <1>1, <1>3 DEF Send
  <1>5. PICK new \in {box, Append(box, message)} : inbox' = [inbox EXCEPT ![c] = new]
    BY <1>4
  <1>6. new \in Seq(Messaged)
    BY <1>5
  <1>7. /\ pc \in [Process -> Places] /\ inbox \in [Clients -> Seq(Messaged)]
    BY DEF LoopInv, LoopTypes, Answering, AnswerTypes
  <1>8. \A b \in Clients : \A m : Right(b, m) => Right(b, m)'
    BY RightStays
  <1>9. \A i \in 1..Len(new) : Right(c, new[i])
    <2>1. \A i \in 1..Len(box) : Right(c, box[i])
      BY <1>3 DEF Answering, AnswersAreRight
    <2>2. Right(c, message)
      BY <1>1
    <2>3. CASE new = box
      BY <2>1, <2>3
    <2>4. CASE new = Append(box, message)
      <3>1. /\ Len(new) = Len(box) + 1 /\ new[Len(box) + 1] = message
            /\ \A i \in 1..Len(box) : new[i] = box[i]
        BY <2>4
      <3>2. \A i \in 1..Len(new) : i \in 1..Len(box) \/ i = Len(box) + 1
        BY <3>1
      <3>. QED BY <2>1, <2>2, <3>1, <3>2
    <2>. QED BY <2>3, <2>4
  <1>10. AnswerTypes'
    BY <1>5, <1>6 DEF Answering, AnswerTypes, Grow
  <1>11. AnswersAreRight'
    BY <1>2, <1>5, <1>7, <1>8, <1>9 DEF Answering, AnswersAreRight
  <1>12. ReadIsTyped'
    <2>1. \A q \in Process : pc[q] \in {"answer", "list"} => Client(q)' = Client(q)
      BY ClientIsClient DEF Client
    <2>2. pc'[p] = place /\ \A q \in Process : q # p => pc'[q] = pc[q]
      BY <1>7
    <2>. QED BY <2>1, <2>2 DEF Answering, ReadIsTyped
  <1>13. LoadedFirst'
    BY <1>7 DEF Answering, LoadedFirst, catVars
  <1>. QED BY <1>10, <1>11, <1>12, <1>13 DEF Answering

(* What is sent is a message.                                             *)
LEMMA ListIsMessage ==
    ASSUME CatInv, NEW r \in Requests, r.op \in Lists
    PROVE  ListFor(r) \in Messaged
  <1>1. \A g \in Genres : GetMoviesByGenre(g) \in Seq(Movie)
    <2>1. movieList \in [Genres -> Seq(Movie)] /\ <<>> \in Seq(Movie)
      BY DEF CatInv, CatTypeOK
    <2>2. \A g \in Genres : GetMoviesByGenre(g) \in {movieList[g], <<>>}
      BY ListsAreWhole
    <2>. QED BY <2>1, <2>2
  <1>2. ListGenre \in Seq(Genres)
    BY ListsAreWhole DEF CatInv, CatTypeOK
  <1>3. CASE r.op = "list_movies"
    <2>1. r.gen \in Genres
      BY <1>3, FrontAssumption
    <2>. QED BY <1>1, <1>3, <2>1 DEF ListFor, Messaged
  <1>4. CASE r.op = "list_gens"
    BY <1>2, <1>4 DEF ListFor, Messaged
  <1>5. CASE r.op = "list_users"
    BY <1>5 DEF ListFor, Messaged
  <1>. QED BY <1>3, <1>4, <1>5 DEF Lists

LEMMA AnsweringAnswers ==
    ASSUME LoopInv, Exclusive, CatInv, Answering, Grow, NEW p \in Process,
           Answer(p) \/ AnswerUnpaid(p) \/ RefuseNobody(p) \/ AnswerHeader(p) \/ AnswerList(p)
    PROVE  Answering'
  <1>1. /\ pc[p] \in {"answer", "list"}
        /\ UNCHANGED <<fd, request, stage, typed, shown, catVars>>
    BY DEF Answer, AnswerUnpaid, RefuseNobody, AnswerHeader, AnswerList
  <1>2. \A q \in Process, d \in FDs : open[q][d] \in Clients => open'[q][d] = open[q][d]
    <2>1. CASE UNCHANGED open
      BY <2>1
    <2>2. CASE Free(p) # {} /\ open' = [open EXCEPT ![p][Lowest(Free(p))] = Leaked]
      <3>1. Free(p) \in SUBSET FDs
        BY DEF Free
      <3>2. PICK n \in FDs : n = Lowest(Free(p)) /\ open[p][n] = None
        BY <2>2, <3>1, LowestIsIn DEF Free
      <3>3. open' = [open EXCEPT ![p][n] = Leaked]
        BY <2>2, <3>2
      <3>. QED BY <3>2, <3>3, FrontAssumption DEF LoopInv, LoopTypes
    <2>. QED BY <2>1, <2>2 DEF Answer, AnswerUnpaid, RefuseNobody, AnswerHeader, AnswerList
  <1>3. CASE Answer(p) \/ AnswerUnpaid(p) \/ RefuseNobody(p)
    <2>1. PICK message \in {[code |-> "ACK"], [code |-> "USER_ERROR"]} : Send(p, message)
      BY <1>3 DEF Answer, AnswerUnpaid, RefuseNobody
    <2>2. message \in Messaged
      BY <2>1 DEF Messaged
    <2>3. Right(Client(p), message)
      BY <2>1 DEF Right
    <2>4. pc' = [pc EXCEPT ![p] = "finish"]
      BY <1>3 DEF Answer, AnswerUnpaid, RefuseNobody
    <2>. QED BY <1>1, <1>2, <2>1, <2>2, <2>3, <2>4, SendingAnswers
  <1>4. CASE AnswerHeader(p)
    <2>1. PICK code \in Headers(request[p]) :
            /\ Send(p, [code |-> code])
            /\ pc' = [pc EXCEPT ![p] = IF code = "LIST_OK" THEN "list" ELSE "refused"]
      BY <1>4 DEF AnswerHeader
    <2>2. PICK message : message = [code |-> code]
      OBVIOUS
    <2>3. request[p] \in Requests /\ request[p].op \in Lists
      BY <1>4 DEF AnswerHeader
    <2>4. message \in Messaged
      BY <2>1, <2>2 DEF Messaged, Headers
    <2>5. request[p] = typed[Client(p)]
      BY <1>1, <2>3 DEF Answering, ReadIsTyped
    <2>6. Right(Client(p), message)
      BY <2>1, <2>2, <2>5 DEF Right, Headers
    <2>7. PICK place \in {"list", "refused", "finish"} : pc' = [pc EXCEPT ![p] = place]
      BY <2>1
    <2>. QED BY <1>1, <1>2, <2>1, <2>2, <2>3, <2>4, <2>6, <2>7, SendingAnswers
  <1>5. CASE AnswerList(p)
    <2>1. PICK message : message = ListFor(request[p])
      OBVIOUS
    <2>2. /\ pc[p] = "list"
          /\ Send(p, message) /\ pc' = [pc EXCEPT ![p] = "finish"]
      BY <1>5, <2>1 DEF AnswerList
    <2>3. /\ request[p] \in Requests /\ request[p].op \in Lists
          /\ request[p] = typed[Client(p)]
      BY <2>2 DEF Answering, ReadIsTyped
    <2>4. message \in Messaged
      BY <2>1, <2>3, ListIsMessage
    <2>5. Right(Client(p), message)
      BY <2>1, <2>3 DEF Right, ListFor
    <2>. QED BY <1>1, <1>2, <2>2, <2>4, <2>5, SendingAnswers
  <1>. QED BY <1>3, <1>4, <1>5

LEMMA NextAnswers ==
    LoopInv /\ Exclusive /\ CatInv /\ Answering /\ Awaited /\ [Next]_vars => Answering'
  <1>. SUFFICES ASSUME LoopInv, Exclusive, CatInv, Answering, Awaited, [Next]_vars
                PROVE  Answering'
    OBVIOUS
  <1>0. Grow
    BY NextGrows
  <1>1. CASE Load \/ Start
    BY <1>0, <1>1, LoadAnswers
  <1>2. CASE UNCHANGED vars
    <2>1. UNCHANGED <<pc, open, fd, request, stage, typed, inbox, shown, catVars>>
      BY <1>2 DEF vars, procVars, connVars
    <2>2. \A q \in Process : pc'[q] # "unborn" => starting = "ready"
      BY <2>1 DEF Answering, LoadedFirst
    <2>. QED BY <1>0, <2>1, <2>2, QuietAnswers DEF Client
  <1>3. ASSUME NEW c \in Clients, Terminal(c) PROVE Answering'
    BY <1>0, <1>3, TerminalAnswers
  <1>4. ASSUME NEW p \in Process, Server(p) \/ SendMovieReturns(p) \/ Dies(p) PROVE Answering'
    <2>1. CASE Session(p)
      BY <1>0, <2>1, LoopAnswers, AnsweringAnswers, ForkAnswers DEF Session
    <2>. QED BY <1>0, <1>4, <2>1, LoopAnswers, ReceivingAnswers DEF Server
  <1>. QED BY <1>1, <1>2, <1>3, <1>4 DEF Next

-----------------------------------------------------------------------------
(* The steps keep what is awaited.                                        *)

LEMMA InitAwaited == Init => Awaited
  BY DEF Init, Awaited, Promised, Going

LEMMA TailKeeps ==
    ASSUME NEW S, NEW s \in Seq(S), s # <<>>, NEW x, Head(s) # x,
           \E i \in 1..Len(s) : s[i] = x
    PROVE  \E i \in 1..Len(Tail(s)) : Tail(s)[i] = x
  <1>1. PICK i \in 1..Len(s) : s[i] = x
    OBVIOUS
  <1>2. i # 1 /\ i - 1 \in 1..Len(Tail(s)) /\ Tail(s)[i - 1] = s[i]
    BY <1>1
  <1>. QED BY <1>1, <1>2

(* For a terminal that a step does not concern, and has not cut off.      *)
LEMMA PromiseStays ==
    ASSUME NEW c, Promised(c),
           stage'[c] = stage[c], typed'[c] = typed[c], unread'[c] = unread[c],
           inbox'[c] = inbox[c], served'[c] \in {served[c], 1},
           Going(c) => Due(c) \/ Queued(c)' \/ Owned(c)',
           Taken(c) => Taken(c)',
           Going(c) => \A q \in Process : pc'[q] \in Serving \ {"receive"} /\ Client(q)' = c =>
             /\ pc'[q] = pc[q] /\ Client(q) = c
             /\ request'[q] = request[q] /\ exitPipe'[q] = exitPipe[q]
    PROVE  Promised(c)'
  <1>1. /\ Going(c)' <=> Going(c)
        /\ Due(c)' <=> Due(c)
        /\ HalfDue(c)' <=> HalfDue(c)
    BY DEF Going, Due, HalfDue, HeaderFirst
  <1>2. Going(c)' => Due(c)' \/ Queued(c)' \/ Owned(c)'
    BY <1>1
  <1>3. served'[c] = 0 => inbox'[c] = <<>> /\ stage'[c] # "listing"
    BY DEF Promised
  <1>4. stage'[c] = "half" \/ "data" \in unread'[c] => "size" \in unread'[c] \/ Taken(c)'
    BY DEF Promised
  <1>5. ASSUME NEW q \in Process, Going(c), pc'[q] \in Serving \ {"receive"}, Client(q)' = c
        PROVE  Answers(q, c)'
    <2>1. /\ pc'[q] = pc[q] /\ Client(q) = c
          /\ request'[q] = request[q] /\ exitPipe'[q] = exitPipe[q]
      BY <1>5
    <2>2. Answers(q, c)
      BY <1>5, <2>1 DEF Promised
    <2>. QED BY <1>1, <2>1, <2>2 DEF Answers
  <1>6. stage'[c] = "waiting" => typed'[c].op # "start"
    BY DEF Promised
  <1>. QED BY <1>1, <1>2, <1>3, <1>4, <1>5, <1>6 DEF Promised

(* For a terminal that leaves.                                            *)
LEMMA LeavesPromise ==
    ASSUME NEW c, Promised(c), stage'[c] \in {"closed", "lost"}, unread'[c] = unread[c],
           served'[c] = 0 => served[c] = 0 /\ inbox'[c] = <<>>, Taken(c) => Taken(c)'
    PROVE  Promised(c)'
  BY DEF Promised, Going

LEMMA QuietAwaits ==
    ASSUME LoopInv, Awaited, Grow, Load \/ Start \/ UNCHANGED vars
    PROVE  Awaited'
  <1>1. UNCHANGED <<open, fd, request, exitPipe, connVars, served>>
    BY DEF Load, Start, vars, procVars
  <1>2. pc' = pc \/ (pc[First] = "unborn" /\ pc' = [pc EXCEPT ![First] = "select"])
    BY DEF Load, Start, vars, procVars
  <1>3. \A q \in Process : pc'[q] = pc[q] \/ (pc[q] = "unborn" /\ pc'[q] = "select")
    BY <1>2 DEF LoopInv, LoopTypes
  <1>4. \A q \in Process : Client(q)' = Client(q)
    BY <1>1 DEF Client
  <1>. SUFFICES ASSUME NEW c \in Clients \ Shared' PROVE Promised(c)'
    BY DEF Awaited
  <1>5. Promised(c)
    BY DEF Awaited, Shared, Grow
  <1>6. Queued(c)' <=> Queued(c)
    BY <1>1 DEF Queued, connVars
  <1>7. (Owned(c) => Owned(c)') /\ (Taken(c) => Taken(c)')
    BY <1>1, <1>3, <1>4 DEF Owned, Taken, Alive
  <1>8. Going(c) => Due(c) \/ Queued(c)' \/ Owned(c)'
    BY <1>5, <1>6, <1>7 DEF Promised
  <1>9. /\ stage'[c] = stage[c] /\ typed'[c] = typed[c] /\ unread'[c] = unread[c]
        /\ inbox'[c] = inbox[c] /\ served'[c] = served[c]
    BY <1>1 DEF connVars
  <1>10. \A q \in Process : pc'[q] \in Serving \ {"receive"} /\ Client(q)' = c =>
           /\ pc'[q] = pc[q] /\ Client(q) = c
           /\ request'[q] = request[q] /\ exitPipe'[q] = exitPipe[q]
    BY <1>1, <1>3, <1>4 DEF Serving
  <1>. QED BY <1>5, <1>7, <1>8, <1>9, <1>10, PromiseStays

LEMMA TerminalAwaits ==
    ASSUME LoopInv, Exclusive, Answering, Awaited, Grow, NEW b \in Clients, Terminal(b)
    PROVE  Awaited'
  <1>1. /\ UNCHANGED <<pc, open, fd, request, exitPipe, served, inherited>>
        /\ backlog' \in {backlog, Append(backlog, b)}
        /\ \A c \in Clients \ {b} : /\ stage'[c] = stage[c] /\ typed'[c] = typed[c]
                                    /\ unread'[c] = unread[c] /\ inbox'[c] = inbox[c]
    BY DEF Terminal, Connect, SendSize, SendData, Receive, ReceiveList, ReceiveLess, GivesUp,
       Vanishes, procVars, LoopInv, LoopTypes, Answering, AnswerTypes
  <1>2. \A q \in Process : Client(q)' = Client(q)
    BY <1>1 DEF Client
  <1>. SUFFICES ASSUME NEW c \in Clients \ Shared' PROVE Promised(c)'
    BY DEF Awaited
  <1>3. Promised(c)
    BY DEF Awaited, Shared, Grow
  <1>4. Queued(c) => Queued(c)'
    <2>1. backlog \in Seq(Clients)
      BY DEF LoopInv, LoopTypes
    <2>2. \A i \in 1..Len(backlog) : i \in 1..Len(backlog') /\ backlog'[i] = backlog[i]
      BY <1>1, <2>1
    <2>. QED BY <2>2 DEF Queued
  <1>5. (Owned(c)' <=> Owned(c)) /\ (Taken(c)' <=> Taken(c))
    BY <1>1, <1>2 DEF Owned, Taken, Alive
  <1>6. CASE c # b
    <2>1. Going(c) => Due(c) \/ Queued(c)' \/ Owned(c)'
      BY <1>3, <1>4, <1>5 DEF Promised
    <2>. QED BY <1>1, <1>2, <1>3, <1>5, <1>6, <2>1, PromiseStays
  <1>7. CASE c = b
    <2>1. /\ stage \in [Clients -> Stages] /\ unread \in [Clients -> SUBSET {"size", "data"}]
          /\ typed \in [Clients -> Requests \cup {None}] /\ inbox \in [Clients -> Seq(Messaged)]
          /\ served[c] \in {0, 1}
      BY DEF LoopInv, LoopTypes, Answering, AnswerTypes
    <2>2. CASE Connect(c)
      <3>1. /\ stage[c] = "idle" /\ stage'[c] = "connected" /\ unread'[c] = unread[c]
            /\ inbox'[c] = inbox[c] /\ backlog' = Append(backlog, c)
        BY <2>1, <2>2 DEF Connect
      <3>2. Queued(c)'
        BY <3>1 DEF Queued, LoopInv, LoopTypes
      <3>3. unread[c] = {} /\ served[c] = 0
        BY <3>1 DEF LoopInv, OnePlace
      <3>4. \A q \in Process : pc[q] \in Serving => Client(q) # c
        BY <3>1, ClientIsClient DEF Exclusive, QueueIsDistinct, Client, Serving
      <3>5. inbox[c] = <<>>
        BY <1>3, <3>3 DEF Promised
      <3>. QED BY <1>1, <1>2, <3>1, <3>2, <3>3, <3>4, <3>5 DEF Promised
    <2>3. CASE SendSize(c) \/ SendData(c)
      <3>1. /\ stage[c] \in {"connected", "half"} /\ inbox'[c] = inbox[c] /\ typed'[c] = typed[c]
            /\ backlog' = backlog
        BY <2>3 DEF SendSize, SendData
      <3>2. Going(c) /\ ~Due(c) /\ ~HalfDue(c)
        BY <3>1 DEF Going, Due, HalfDue
      <3>3. Queued(c)' \/ Owned(c)'
        BY <1>3, <1>4, <1>5, <3>2 DEF Promised
      <3>4. \A q \in Process : ~(pc[q] \in Serving \ {"receive"} /\ Client(q) = c)
        BY <1>3, <3>1, <3>2 DEF Promised, Answers, Serving
      <3>5. served[c] = 0 /\ inbox'[c] = <<>>
        <4>1. stage[c] \in {"connected", "half"} => served[c] = 0
          BY DEF LoopInv, OnePlace
        <4>. QED BY <1>3, <3>1, <4>1 DEF Promised
      <3>6. /\ stage'[c] # "listing"
            /\ stage'[c] = "waiting" => typed'[c].op # "start"
            /\ "size" \in unread'[c] \/ Taken(c)'
        BY <1>3, <1>5, <2>1, <2>3 DEF SendSize, SendData, Promised
      <3>. QED BY <1>1, <1>2, <3>3, <3>4, <3>5, <3>6 DEF Promised
    <2>4. CASE Receive(c) /\ HeaderFirst(c)
      <3>1. /\ stage[c] = "waiting" /\ stage'[c] = "listing" /\ unread'[c] = unread[c]
            /\ inbox[c] # <<>> /\ inbox'[c] = Tail(inbox[c]) /\ backlog' = backlog
        BY <2>1, <2>4 DEF Receive, HeaderFirst
      <3>2. served[c] = 1
        BY <1>3, <2>1, <3>1 DEF Promised
      <3>3. Due(c) => Due(c)'
        BY <2>4, <3>1 DEF Due
      <3>4. HalfDue(c)'
        BY <3>1 DEF HalfDue
      <3>5. Going(c)' => Due(c)' \/ Queued(c)' \/ Owned(c)'
        BY <1>3, <1>4, <1>5, <3>1, <3>3 DEF Promised, Going
      <3>6. ASSUME NEW q \in Process, pc'[q] \in Serving \ {"receive"}, Client(q)' = c
            PROVE  Answers(q, c)'
        <4>1. Answers(q, c)
          BY <1>1, <1>2, <1>3, <3>1, <3>6 DEF Promised, Going
        <4>2. pc[q] # "answer"
          BY <1>1, <1>2, <3>2, <3>6, <4>1 DEF Answers, LoopInv, OnePlace, HasRequest
        <4>. QED BY <1>1, <3>3, <3>4, <4>1, <4>2 DEF Answers
      <3>7. "data" \in unread'[c] => "size" \in unread'[c] \/ Taken(c)'
        BY <1>3, <1>5, <3>1 DEF Promised
      <3>. QED BY <1>1, <3>1, <3>2, <3>5, <3>6, <3>7 DEF Promised
    <2>5. CASE \/ Receive(c) /\ ~HeaderFirst(c)
               \/ ReceiveList(c) \/ ReceiveLess(c) \/ GivesUp(c) \/ Vanishes(c)
      <3>1. stage'[c] \in {"closed", "lost"} /\ unread'[c] = unread[c]
        BY <2>1, <2>5 DEF Receive, HeaderFirst, ReceiveList, ReceiveLess, GivesUp, Vanishes
      <3>2. inbox[c] # <<>> \/ inbox'[c] = <<>>
        BY <2>1, <2>5 DEF Receive, ReceiveList, ReceiveLess, GivesUp, Vanishes
      <3>3. served'[c] = 0 => served[c] = 0 /\ inbox'[c] = <<>>
        BY <1>1, <1>3, <3>2 DEF Promised
      <3>. QED BY <1>3, <1>5, <3>1, <3>3, LeavesPromise
    <2>. QED BY <1>7, <2>2, <2>3, <2>4, <2>5 DEF Terminal
  <1>. QED BY <1>6, <1>7

(* What a process closes has its answer, or has left; with a process that *)
(* ends, its connections break.                                           *)
LEMMA LoopAwaits ==
    ASSUME LoopInv, Exclusive, Answering, Awaited, Grow, NEW p \in Process,
           \/ Select(p) \/ Accept(p) \/ AcceptFails(p) \/ ReceiveNull(p) \/ Dies(p)
           \/ IgnoreJunk(p) \/ NoList(p) \/ Finish(p) \/ StartRefused(p) \/ SendMovieReturns(p)
    PROVE  Awaited'
  <1>. DEFINE place == {"select", "accept", "serve", "ended"}
              closing == \/ IgnoreJunk(p) \/ NoList(p) \/ Finish(p) \/ StartRefused(p)
                         \/ SendMovieReturns(p)
              ending == AcceptFails(p) \/ ReceiveNull(p) \/ Dies(p)
  <1>1. /\ pc \in [Process -> Places] /\ exitPipe \in [Process -> {0, 1}]
        /\ open \in [Process -> [FDs -> Clients \cup {None, Leaked}]]
        /\ backlog \in Seq(Clients)
    BY DEF LoopInv, LoopTypes
  <1>2. ASSUME closing
        PROVE  /\ Closed(p) /\ pc[p] \in Serving \ {"receive"}
               /\ \A q \in Process : q # p => exitPipe'[q] = exitPipe[q]
               /\ UNCHANGED <<connVars, broken, inherited>>
               /\ NextPc(rfds[p] \ {fd[p]}) \in {"select", "serve"}
    BY <1>1, <1>2 DEF IgnoreJunk, NoList, Finish, StartRefused, SendMovieReturns, Serving, NextPc
  <1>3. ASSUME ending
        PROVE  /\ Ends(p) /\ Alive(p)
               /\ UNCHANGED <<stage, typed, unread, inbox>>
               /\ \/ UNCHANGED backlog
                  \/ /\ backlog # <<>> /\ backlog' = Tail(backlog)
                     /\ stage[Head(backlog)] \in {"closed", "lost"}
    BY <1>3 DEF AcceptFails, ReceiveNull, Dies, Alive, connVars
  <1>4. /\ Alive(p) /\ pc'[p] \in place
        /\ \A q \in Process : q # p => /\ pc'[q] = pc[q] /\ open'[q] = open[q]
                                       /\ exitPipe'[q] = exitPipe[q]
        /\ UNCHANGED <<fd, request, stage, typed, unread, inbox>>
    <2>1. CASE Select(p) \/ Accept(p)
      BY <1>1, <2>1 DEF Select, Accept, NextPc, Alive, connVars
    <2>2. CASE ending
      <3>. HIDE DEF ending
      <3>. QED BY <1>1, <1>3, <2>2 DEF Ends
    <2>3. CASE closing
      <3>. HIDE DEF closing
      <3>1. /\ Closed(p) /\ pc[p] \in Serving \ {"receive"}
            /\ NextPc(rfds[p] \ {fd[p]}) \in {"select", "serve"} /\ UNCHANGED connVars
            /\ \A q \in Process : q # p => exitPipe'[q] = exitPipe[q]
        BY <1>2, <2>3
      <3>. QED BY <1>1, <3>1 DEF Closed, Alive, Serving, connVars
    <2>. QED BY <2>1, <2>2, <2>3
  <1>5. \A q \in Process : q # p => Client(q)' = Client(q)
    BY <1>4 DEF Client
  <1>. SUFFICES ASSUME NEW c \in Clients \ Shared' PROVE Promised(c)'
    BY DEF Awaited
  <1>6. Promised(c)
    BY DEF Awaited, Shared, Grow
  <1>7. served'[c] \in {served[c], 1}
    <2>1. CASE StartRefused(p)
      <3>1. served' = [served EXCEPT ![Client(p)] = @ + 1] /\ HasRequest(p, Client(p))
        BY <2>1 DEF StartRefused, Serves, HasRequest
      <3>2. Client(p) \in Clients
        BY <2>1, ClientIsClient DEF StartRefused
      <3>3. served \in [Clients -> {0, 1}]
        BY DEF LoopInv, LoopTypes
      <3>4. served[Client(p)] = 0
        BY <3>1, <3>2, <3>3 DEF LoopInv, OnePlace
      <3>. QED BY <3>1, <3>2, <3>3, <3>4
    <2>2. CASE ~StartRefused(p)
      <3>1. UNCHANGED served
        BY <2>2, Zenon DEF Select, Accept, AcceptFails, ReceiveNull, Dies, Ends, IgnoreJunk,
           NoList, Finish, SendMovieReturns
      <3>. QED BY <3>1
    <2>. QED BY <2>1, <2>2
  <1>8. ASSUME ending PROVE \A d \in FDs : open[p][d] # c
    <2>1. Ends(p) /\ c \notin broken'
      BY <1>3, <1>8 DEF Shared
    <2>. QED BY <2>1 DEF Ends, Held
  <1>9. Taken(c) => Taken(c)'
    <2>. SUFFICES ASSUME NEW q \in Process, pc[q] = "receive", Client(q) = c PROVE Taken(c)'
      BY DEF Taken
    <2>1. CASE q # p
      BY <1>4, <1>5, <2>1 DEF Taken
    <2>2. CASE q = p
      <3>1. ending
        BY <1>2, <2>2 DEF Select, Accept
      <3>2. fd[p] \in FDs
        BY <2>2, ClientIsClient
      <3>. QED BY <1>8, <2>2, <3>1, <3>2 DEF Client
    <2>. QED BY <2>1, <2>2
  <1>10. Going(c) => Due(c) \/ Queued(c)' \/ Owned(c)'
    <2>. SUFFICES ASSUME Going(c), ~Due(c) PROVE Queued(c)' \/ Owned(c)'
      OBVIOUS
    <2>1. Queued(c) \/ Owned(c)
      BY <1>6 DEF Promised
    <2>2. ASSUME NEW q \in Process, NEW d \in FDs, q # p, Alive(q), open[q][d] = c
          PROVE  Owned(c)'
      BY <1>4, <2>2 DEF Owned, Alive
    <2>3. CASE Select(p)
      BY <1>4, <2>1, <2>3 DEF Select, Queued, Owned, Alive, connVars
    <2>4. CASE Accept(p)
      <3>1. PICK n \in FDs : n = Lowest(Free(p)) /\ open[p][n] = None
        <4>1. Free(p) \in SUBSET FDs /\ Free(p) # {}
          BY <2>4 DEF Free, Accept
        <4>. QED BY <4>1, LowestIsIn DEF Free
      <3>2. /\ open' = [open EXCEPT ![p][n] = Head(backlog)]
            /\ backlog # <<>> /\ backlog' = Tail(backlog)
        BY <2>4, <3>1 DEF Accept
      <3>3. c # None
        BY FrontAssumption
      <3>0. \A q \in Process : Alive(q) => Alive(q)'
        BY <1>1, <1>4, <2>4 DEF Accept, NextPc, Alive
      <3>4. Owned(c) => Owned(c)'
        <4>1. \A q \in Process, d \in FDs : open[q][d] = c => open'[q][d] = c
          BY <1>1, <3>1, <3>2, <3>3
        <4>. QED BY <3>0, <4>1 DEF Owned
      <3>5. CASE Head(backlog) = c
        <4>1. open'[p][n] = c
          BY <1>1, <3>1, <3>2, <3>5
        <4>. QED BY <1>4, <3>0, <4>1 DEF Owned
      <3>6. CASE Head(backlog) # c
        <4>1. Queued(c) => Queued(c)'
          BY <1>1, <3>2, <3>6, TailKeeps DEF Queued
        <4>. QED BY <2>1, <3>4, <4>1
      <3>. QED BY <3>5, <3>6
    <2>5. CASE ending
      <3>1. Queued(c) => Queued(c)'
        <4>. HIDE DEF ending
        <4>1. CASE UNCHANGED backlog
          BY <4>1 DEF Queued
        <4>2. CASE backlog # <<>> /\ backlog' = Tail(backlog) /\ stage[Head(backlog)] \in {"closed", "lost"}
          <5>1. Head(backlog) # c
            BY <4>2 DEF Going
          <5>2. Queued(c) => \E i \in 1..Len(Tail(backlog)) : Tail(backlog)[i] = c
            BY <1>1, <4>2, <5>1, TailKeeps DEF Queued
          <5>. QED BY <4>2, <5>2 DEF Queued
        <4>. QED BY <1>3, <2>5, <4>1, <4>2
      <3>2. Owned(c) => Owned(c)'
        BY <1>8, <2>2, <2>5 DEF Owned
      <3>. QED BY <2>1, <3>1, <3>2
    <2>6. CASE closing
      <3>. HIDE DEF closing
      <3>1. /\ Closed(p) /\ pc[p] \in Serving \ {"receive"} /\ UNCHANGED backlog
        BY <1>2, <2>6 DEF connVars
      <3>2. Queued(c) => Queued(c)'
        BY <3>1 DEF Queued
      <3>3. Client(p) # c
        <4>. SUFFICES ASSUME Client(p) = c PROVE FALSE
          OBVIOUS
        <4>1. Answers(p, c)
          BY <1>6, <3>1 DEF Promised
        <4>2. CASE IgnoreJunk(p)
          BY <4>1, <4>2, FrontAssumption DEF IgnoreJunk, Answers
        <4>3. CASE NoList(p)
          BY <4>1, <4>3 DEF NoList, Answers
        <4>4. CASE Finish(p) \/ SendMovieReturns(p)
          BY <4>1, <4>4 DEF Finish, SendMovieReturns, Answers
        <4>5. CASE StartRefused(p)
          <5>1. request[p] \in Requests /\ request[p].op = "start" /\ stage[c] = "waiting"
            BY <4>1, <4>5 DEF StartRefused, Answers
          <5>2. request[p] = typed[c]
            BY <4>5, <5>1 DEF StartRefused, Answering, ReadIsTyped
          <5>. QED BY <1>6, <5>1, <5>2 DEF Promised
        <4>. QED BY <2>6, <4>2, <4>3, <4>4, <4>5 DEF closing
      <3>4. \A d \in FDs : open[p][d] = c => open'[p][d] = c
        BY <1>1, <3>1, <3>3 DEF Closed, Client
      <3>5. Owned(c) => Owned(c)'
        <4>1. Alive(p)'
          BY <1>1, <3>1, <1>2, <2>6 DEF Closed, Alive
        <4>. QED BY <2>2, <3>4, <4>1 DEF Owned
      <3>. QED BY <2>1, <3>2, <3>5
    <2>. QED BY <2>3, <2>4, <2>5, <2>6
  <1>11. \A q \in Process : pc'[q] \in Serving \ {"receive"} /\ Client(q)' = c =>
           /\ pc'[q] = pc[q] /\ Client(q) = c
           /\ request'[q] = request[q] /\ exitPipe'[q] = exitPipe[q]
    BY <1>4, <1>5 DEF Serving
  <1>. QED BY <1>4, <1>6, <1>7, <1>9, <1>10, <1>11, PromiseStays

(* What a process reads from a terminal that has not left is its request. *)
LEMMA ReceivingAwaits ==
    ASSUME LoopInv, Exclusive, Answering, Awaited, Grow, NEW p \in Process,
           ReceiveSize(p) \/ ReceiveNoSize(p) \/ ReceiveData(p)
    PROVE  Awaited'
  <1>1. /\ pc \in [Process -> Places] /\ fd \in [Process -> FDs \cup {0}]
        /\ request \in [Process -> Requests \cup {Nobody, Junk}]
        /\ unread \in [Clients -> SUBSET {"size", "data"}] /\ served \in [Clients -> {0, 1}]
        /\ stage \in [Clients -> Stages]
    BY DEF LoopInv, LoopTypes
  <1>2. /\ pc[p] \in {"serve", "receive"} /\ pc'[p] \in {"receive", "answer"}
        /\ \A q \in Process : q # p => /\ pc'[q] = pc[q] /\ fd'[q] = fd[q]
                                       /\ request'[q] = request[q]
        /\ UNCHANGED <<open, exitPipe, backlog, stage, typed, inbox, served, broken, inherited>>
    BY <1>1 DEF ReceiveSize, ReceiveNoSize, ReceiveData
  <1>3. \A q \in Process : q # p => Client(q)' = Client(q)
    BY <1>2 DEF Client
  <1>4. PICK b \in Clients :
          /\ Client(p)' = b /\ \A a \in Clients : a # b => unread'[a] = unread[a]
          /\ pc[p] = "receive" => Client(p) = b
          /\ pc[p] = "serve" => b = open[p][Lowest(rfds[p])]
    <2>1. CASE ReceiveSize(p) \/ ReceiveNoSize(p)
      <3>1. open[p][Lowest(rfds[p])] \in Clients
        BY <2>1, ServedIsClient DEF ReceiveSize, ReceiveNoSize
      <3>. QED BY <1>1, <2>1, <3>1 DEF ReceiveSize, ReceiveNoSize, Client
    <2>2. CASE ReceiveData(p)
      <3>1. Client(p) \in Clients
        BY <2>2, ClientIsClient DEF ReceiveData
      <3>. QED BY <1>1, <2>2, <3>1 DEF ReceiveData, Client
    <2>. QED BY <2>1, <2>2
  <1>. SUFFICES ASSUME NEW c \in Clients \ Shared' PROVE Promised(c)'
    BY DEF Awaited
  <1>5. Promised(c)
    BY DEF Awaited, Shared, Grow
  <1>6. (Queued(c)' <=> Queued(c)) /\ (Owned(c) => Owned(c)')
    BY <1>2 DEF Queued, Owned, Alive
  <1>7. Going(c) => Due(c) \/ Queued(c)' \/ Owned(c)'
    BY <1>5, <1>6 DEF Promised
  <1>8. \A q \in Process : q # p /\ pc'[q] \in Serving \ {"receive"} /\ Client(q)' = c =>
          /\ pc'[q] = pc[q] /\ Client(q) = c
          /\ request'[q] = request[q] /\ exitPipe'[q] = exitPipe[q]
    BY <1>2, <1>3
  <1>9. (Due(c)' <=> Due(c)) /\ (HalfDue(c)' <=> HalfDue(c)) /\ (Going(c)' <=> Going(c))
    BY <1>2 DEF Due, HalfDue, HeaderFirst, Going
  <1>10. CASE c # b
    <2>1. Taken(c) => Taken(c)'
      BY <1>2, <1>3, <1>4, <1>10 DEF Taken
    <2>2. \A q \in Process : pc'[q] \in Serving \ {"receive"} /\ Client(q)' = c =>
            /\ pc'[q] = pc[q] /\ Client(q) = c
            /\ request'[q] = request[q] /\ exitPipe'[q] = exitPipe[q]
      BY <1>4, <1>8, <1>10
    <2>3. unread'[c] = unread[c]
      BY <1>4, <1>10
    <2>. QED BY <1>2, <1>5, <1>7, <2>1, <2>2, <2>3, PromiseStays
  <1>11. CASE c = b
    <2>1. ASSUME Taken(c)' \/ (unread'[c] = {} /\ stage[c] # "half"), Going(c) => Answers(p, c)'
          PROVE  Promised(c)'
      <3>1. ASSUME NEW q \in Process, Going(c)', pc'[q] \in Serving \ {"receive"}, Client(q)' = c
            PROVE  Answers(q, c)'
        <4>1. CASE q = p
          BY <1>9, <2>1, <3>1, <4>1
        <4>2. CASE q # p
          <5>1. /\ pc'[q] = pc[q] /\ Client(q) = c
                /\ request'[q] = request[q] /\ exitPipe'[q] = exitPipe[q]
            BY <1>8, <3>1, <4>2
          <5>2. Answers(q, c)
            BY <1>5, <1>9, <3>1, <5>1 DEF Promised
          <5>. QED BY <1>2, <1>9, <5>1, <5>2 DEF Answers
        <4>. QED BY <4>1, <4>2
      <3>2. /\ Going(c)' => Due(c)' \/ Queued(c)' \/ Owned(c)'
            /\ served'[c] = 0 => inbox'[c] = <<>> /\ stage'[c] # "listing"
            /\ stage'[c] = "waiting" => typed'[c].op # "start"
        BY <1>2, <1>5, <1>7, <1>9 DEF Promised
      <3>3. stage'[c] = "half" \/ "data" \in unread'[c] => "size" \in unread'[c] \/ Taken(c)'
        BY <1>2, <2>1
      <3>. QED BY <3>1, <3>2, <3>3 DEF Promised
    <2>2. CASE ReceiveSize(p)
      <3>1. pc'[p] = "receive"
        BY <1>1, <2>2 DEF ReceiveSize
      <3>2. Taken(c)'
        BY <1>4, <1>11, <3>1 DEF Taken
      <3>3. Answers(p, c)'
        BY <3>1 DEF Answers
      <3>. QED BY <2>1, <3>2, <3>3
    <2>3. CASE ReceiveNoSize(p)
      <3>1. /\ pc[p] = "serve" /\ Readable(c) /\ "size" \notin unread[c] /\ unread'[c] = {}
        BY <1>1, <1>4, <1>11, <2>3 DEF ReceiveNoSize
      <3>2. ~Taken(c)
        <4>. SUFFICES ASSUME NEW q \in Process, pc[q] = "receive", Client(q) = c PROVE FALSE
          BY DEF Taken
        <4>1. fd[q] \in FDs /\ open[q][fd[q]] = c
          BY ClientIsClient DEF Client
        <4>2. Lowest(rfds[p]) \in FDs /\ open[p][Lowest(rfds[p])] = c
          BY <1>4, <1>11, <3>1, ServedIsClient
        <4>3. c \in Clients \ inherited
          BY <1>2 DEF Shared
        <4>. QED BY <3>1, <4>1, <4>2, <4>3 DEF Exclusive, OneOwner
      <3>3. "data" \notin unread[c] /\ stage[c] # "half"
        BY <1>5, <3>1, <3>2 DEF Promised
      <3>4. ~Going(c)
        BY <1>1, <3>1, <3>3 DEF Readable, Going
      <3>. QED BY <2>1, <3>1, <3>3, <3>4
    <2>4. CASE ReceiveData(p)
      <3>1. /\ pc[p] = "receive" /\ pc'[p] = "answer" /\ Client(p) = c /\ Readable(c)
            /\ unread'[c] = {}
            /\ request'[p] = IF unread[c] # {} THEN typed[c] ELSE Nobody
        BY <1>1, <1>4, <1>11, <2>4 DEF ReceiveData
      <3>2. "size" \notin unread[c] /\ stage[c] \notin {"idle", "connected"}
        BY <3>1 DEF LoopInv, SizeIsTaken
      <3>3. stage[c] = "closed" \/ "data" \in unread[c]
        BY <1>1, <3>1, <3>2 DEF Readable
      <3>4. "data" \in unread[c] => served[c] = 0 /\ stage[c] # "half"
        BY DEF LoopInv, OnePlace
      <3>5. stage[c] # "idle" => typed[c] \in Requests
        BY DEF LoopInv, OnePlace
      <3>6. Going(c) => stage[c] = "waiting" /\ typed[c] \in Requests /\ unread[c] # {}
        BY <1>5, <3>2, <3>3, <3>4, <3>5 DEF Going, Promised
      <3>7. Going(c) => Answers(p, c)'
        BY <1>2, <3>1, <3>6 DEF Answers
      <3>8. stage[c] # "half"
        BY <3>3, <3>4
      <3>. QED BY <2>1, <3>1, <3>7, <3>8
    <2>. QED BY <2>2, <2>3, <2>4
  <1>. QED BY <1>10, <1>11

(* A terminal that has not left gets what it is sent, and that is all of  *)
(* its answer, or the header of a list.                                   *)
LEMMA AnsweringAwaits ==
    ASSUME LoopInv, Exclusive, CatInv, Answering, Awaited, Grow, NEW p \in Process,
           Answer(p) \/ AnswerUnpaid(p) \/ RefuseNobody(p) \/ AnswerHeader(p) \/ AnswerList(p)
    PROVE  Awaited'
  <1>1. /\ pc \in [Process -> Places] /\ exitPipe \in [Process -> {0, 1}]
        /\ served \in [Clients -> {0, 1}] /\ inbox \in [Clients -> Seq(Messaged)]
        /\ stage \in [Clients -> Stages]
        /\ open \in [Process -> [FDs -> Clients \cup {None, Leaked}]]
    BY DEF LoopInv, LoopTypes, Answering, AnswerTypes
  <1>2. /\ pc[p] \in {"answer", "list"} /\ pc'[p] \in {"list", "refused", "finish"}
        /\ \A q \in Process : q # p => /\ pc'[q] = pc[q] /\ exitPipe'[q] = exitPipe[q]
        /\ UNCHANGED <<fd, request, backlog, stage, typed, unread, broken, inherited>>
    BY <1>1 DEF Answer, AnswerUnpaid, RefuseNobody, AnswerHeader, AnswerList, Send
  <1>3. \A q \in Process, d \in FDs : open[q][d] \in Clients => open'[q][d] = open[q][d]
    <2>1. CASE UNCHANGED open
      BY <2>1
    <2>2. CASE Free(p) # {} /\ open' = [open EXCEPT ![p][Lowest(Free(p))] = Leaked]
      <3>1. Free(p) \in SUBSET FDs
        BY DEF Free
      <3>2. PICK n \in FDs : n = Lowest(Free(p)) /\ open[p][n] = None
        BY <2>2, <3>1, LowestIsIn DEF Free
      <3>3. open' = [open EXCEPT ![p][n] = Leaked]
        BY <2>2, <3>2
      <3>. QED BY <1>1, <3>2, <3>3, FrontAssumption
    <2>. QED BY <2>1, <2>2 DEF Answer, AnswerUnpaid, RefuseNobody, AnswerHeader, AnswerList
  <1>4. \A q \in Process : pc[q] \in Serving => Client(q)' = Client(q)
    BY <1>2, <1>3, ClientIsClient DEF Client, Serving
  <1>5. PICK b \in Clients : b = Client(p)
    BY <1>2, ClientIsClient
  <1>6. PICK message \in Messaged :
          /\ inbox' = [inbox EXCEPT ![b] =
                         IF stage[b] \in {"closed", "lost"} THEN @ ELSE Append(@, message)]
          /\ exitPipe' = exitPipe \/ stage[b] = "closed"
          /\ pc[p] = "answer" => /\ message.code = "LIST_OK" => /\ pc'[p] = "list"
                                                                /\ request[p] \in Requests
                                                                /\ request[p].op \in Lists
                                 /\ message.code # "LIST_OK" => pc'[p] # "list"
          /\ pc[p] = "list" => pc'[p] = "finish"
    <2>1. CASE Answer(p) \/ AnswerUnpaid(p) \/ RefuseNobody(p)
      <3>1. PICK message \in {[code |-> "ACK"], [code |-> "USER_ERROR"]} : Send(p, message)
        BY <2>1 DEF Answer, AnswerUnpaid, RefuseNobody
      <3>2. message \in Messaged
        BY <3>1 DEF Messaged
      <3>3. pc[p] = "answer" /\ pc'[p] = "finish"
        BY <1>1, <2>1 DEF Answer, AnswerUnpaid, RefuseNobody
      <3>4. message.code # "LIST_OK"
        BY <3>1
      <3>. QED BY <1>5, <3>1, <3>2, <3>3, <3>4 DEF Send
    <2>2. CASE AnswerHeader(p)
      <3>1. PICK code \in Headers(request[p]) :
              /\ Send(p, [code |-> code])
              /\ pc' = [pc EXCEPT ![p] = IF code = "LIST_OK" THEN "list" ELSE "refused"]
        BY <2>2 DEF AnswerHeader
      <3>2. PICK message \in Messaged : message = [code |-> code]
        BY <3>1 DEF Headers, Messaged
      <3>3. /\ Send(p, message) /\ message.code = code
            /\ pc'[p] = IF code = "LIST_OK" THEN "list" ELSE "refused"
            /\ pc[p] = "answer" /\ request[p] \in Requests /\ request[p].op \in Lists
        BY <1>1, <2>2, <3>1, <3>2 DEF AnswerHeader
      <3>. QED BY <1>5, <3>3 DEF Send
    <2>3. CASE AnswerList(p)
      <3>1. PICK message : message = ListFor(request[p])
        OBVIOUS
      <3>2. request[p] \in Requests /\ request[p].op \in Lists
        BY <2>3 DEF AnswerList, Answering, ReadIsTyped
      <3>3. message \in Messaged
        BY <3>1, <3>2, ListIsMessage
      <3>4. Send(p, message) /\ pc[p] = "list" /\ pc'[p] = "finish"
        BY <1>1, <2>3, <3>1 DEF AnswerList
      <3>. QED BY <1>5, <3>3, <3>4 DEF Send
    <2>. QED BY <2>1, <2>2, <2>3
  <1>7. \A c \in Clients : served'[c] \in {served[c], 1}
    <2>1. CASE UNCHANGED served
      BY <2>1
    <2>2. CASE served' = [served EXCEPT ![b] = @ + 1] /\ HasRequest(p, b)
      <3>1. served[b] = 0
        BY <1>1, <2>2 DEF LoopInv, OnePlace
      <3>. QED BY <1>1, <2>2, <3>1
    <2>. QED BY <1>5, <2>1, <2>2 DEF Answer, AnswerUnpaid, RefuseNobody, AnswerHeader,
                                    AnswerList, Serves, HasRequest
  <1>. SUFFICES ASSUME NEW c \in Clients \ Shared' PROVE Promised(c)'
    BY DEF Awaited
  <1>8. Promised(c)
    BY DEF Awaited, Shared, Grow
  <1>9. /\ Queued(c)' <=> Queued(c)
        /\ Owned(c) => Owned(c)'
        /\ Taken(c) => Taken(c)'
        /\ Going(c)' <=> Going(c)
    <2>1. \A q \in Process : Alive(q) => Alive(q)'
      BY <1>2 DEF Alive
    <2>2. \A q \in Process : pc[q] = "receive" => q # p
      BY <1>2
    <2>. QED BY <1>2, <1>3, <1>4, <2>1, <2>2 DEF Queued, Owned, Taken, Going, Serving
  <1>10. \A q \in Process : pc'[q] \in Serving \ {"receive"} /\ Client(q)' = c =>
           pc[q] \in Serving \ {"receive"} /\ Client(q) = c
    BY <1>2, <1>4 DEF Serving
  <1>11. Going(c) => Due(c) \/ Queued(c)' \/ Owned(c)'
    BY <1>8, <1>9 DEF Promised
  <1>12. CASE c # b
    <2>1. \A q \in Process : pc'[q] \in Serving \ {"receive"} /\ Client(q)' = c =>
            /\ pc'[q] = pc[q] /\ Client(q) = c
            /\ request'[q] = request[q] /\ exitPipe'[q] = exitPipe[q]
      BY <1>2, <1>5, <1>10, <1>12
    <2>2. inbox'[c] = inbox[c]
      BY <1>6, <1>12
    <2>. QED BY <1>2, <1>7, <1>8, <1>9, <1>11, <2>1, <2>2, PromiseStays
  <1>13. CASE c = b /\ ~Going(c)
    <2>1. stage[c] # "idle"
      BY <1>2, <1>5, <1>13, ClientIsClient DEF Exclusive, QueueIsDistinct, Client
    <2>2. stage[c] \in {"closed", "lost"}
      BY <1>1, <1>13, <2>1 DEF Going, Stages
    <2>3. inbox'[c] = inbox[c]
      BY <1>1, <1>6, <1>13, <2>2
    <2>. QED BY <1>2, <1>7, <1>8, <1>9, <1>13, <2>3, PromiseStays
  <1>14. CASE c = b /\ Going(c)
    <2>1. Answers(p, c)
      BY <1>2, <1>5, <1>8, <1>14 DEF Promised, Serving
    <2>2. PICK box \in Seq(Messaged) : box = inbox[c]
      BY <1>1
    <2>3. inbox'[c] = Append(box, message) /\ exitPipe' = exitPipe
      BY <1>1, <1>6, <1>14, <2>2 DEF Going
    <2>4. /\ Append(box, message) # <<>>
          /\ box = <<>> => Head(Append(box, message)) = message
          /\ box # <<>> => Tail(Append(box, message)) # <<>>
      BY <2>2
    <2>5. ASSUME NEW q \in Process, q # p, pc'[q] \in Serving \ {"receive"}, Client(q)' = c
          PROVE  FALSE
      <3>1. pc[q] \in Serving /\ Client(q) = c
        BY <1>10, <2>5
      <3>2. fd[q] \in FDs /\ fd[p] \in FDs /\ open[q][fd[q]] = c /\ open[p][fd[p]] = c
        BY <1>2, <1>5, <1>14, <3>1, ClientIsClient DEF Client, Serving
      <3>3. c \in Clients \ inherited
        BY <1>2 DEF Shared
      <3>. QED BY <1>2, <2>5, <3>2, <3>3 DEF Exclusive, OneOwner
    <2>6. \E d \in FDs : Alive(p)' /\ open'[p][d] = c
      BY <1>2, <1>3, <1>5, <1>14, ClientIsClient DEF Client, Alive
    <2>7. Owned(c)'
      BY <2>6 DEF Owned
    <2>8. served'[c] # 0 /\ Answers(p, c)'
      <3>1. CASE pc[p] = "answer"
        <4>1. stage[c] = "waiting" /\ request[p] \in Requests /\ HasRequest(p, c)
          BY <1>5, <1>14, <2>1, <3>1 DEF Answers, HasRequest
        <4>2. served[c] = 0
          BY <1>1, <4>1 DEF LoopInv, OnePlace
        <4>3. box = <<>>
          BY <1>8, <2>2, <4>2 DEF Promised
        <4>4. request[p] = typed[c]
          BY <1>5, <1>14, <3>1, <4>1 DEF Answering, ReadIsTyped
        <4>5. served'[c] = 1
          BY <1>1, <1>5, <1>14, <3>1, <4>1, <4>2, FrontAssumption DEF Answer, AnswerUnpaid,
             RefuseNobody, AnswerHeader, AnswerList, Serves
        <4>6. CASE message.code = "LIST_OK"
          <5>1. HeaderFirst(c)' /\ pc'[p] = "list"
            BY <1>2, <1>6, <2>3, <2>4, <3>1, <4>3, <4>4, <4>6 DEF HeaderFirst
          <5>2. exitPipe'[p] = 0
            BY <1>1, <2>3, <3>1 DEF LoopInv, DescriptorsAreOpen
          <5>. QED BY <1>2, <4>1, <4>5, <5>1, <5>2 DEF Answers, HalfDue
        <4>7. CASE message.code # "LIST_OK"
          <5>1. ~HeaderFirst(c)' /\ pc'[p] \in {"refused", "finish"}
            BY <1>2, <1>6, <2>3, <2>4, <3>1, <4>3, <4>7 DEF HeaderFirst
          <5>2. Due(c)'
            BY <1>2, <2>3, <2>4, <4>1, <5>1 DEF Due
          <5>. QED BY <4>5, <5>1, <5>2 DEF Answers
        <4>. QED BY <4>6, <4>7
      <3>2. CASE pc[p] = "list"
        <4>1. HalfDue(c)
          BY <2>1, <3>2 DEF Answers
        <4>2. served[c] # 0
          BY <1>8, <4>1 DEF Promised, HalfDue, HeaderFirst
        <4>3. served'[c] # 0
          BY <1>7, <4>2
        <4>4. stage[c] = "waiting" => box # <<>>
          BY <2>2, <4>1 DEF HalfDue, HeaderFirst
        <4>5. Due(c)'
          BY <1>2, <2>3, <2>4, <4>1, <4>4 DEF Due, HalfDue
        <4>6. pc'[p] = "finish"
          BY <1>6, <3>2
        <4>. QED BY <4>3, <4>5, <4>6 DEF Answers
      <3>. QED BY <1>2, <3>1, <3>2
    <2>9. \A q \in Process :
            Going(c)' /\ pc'[q] \in Serving \ {"receive"} /\ Client(q)' = c => Answers(q, c)'
      BY <2>5, <2>8
    <2>10. /\ stage'[c] = "half" \/ "data" \in unread'[c] => "size" \in unread'[c] \/ Taken(c)'
           /\ stage'[c] = "waiting" => typed'[c].op # "start"
      BY <1>2, <1>8, <1>9 DEF Promised
    <2>. QED BY <2>7, <2>8, <2>9, <2>10 DEF Promised
  <1>. QED BY <1>12, <1>13, <1>14

(* Who starts a download does not wait, and what the child gets besides   *)
(* is inherited.                                                          *)
LEMMA ForkAwaits ==
    ASSUME LoopInv, Exclusive, Answering, Awaited, Grow,
           NEW p \in Process, NEW child \in Process, Fork(p, child)
    PROVE  Awaited'
  <1>1. /\ pc \in [Process -> Places] /\ served \in [Clients -> {0, 1}]
        /\ fd \in [Process -> FDs \cup {0}]
        /\ open \in [Process -> [FDs -> Clients \cup {None, Leaked}]]
    BY DEF LoopInv, LoopTypes
  <1>2. /\ pc[p] = "answer" /\ pc[child] = "unborn"
        /\ request[p] \in Requests /\ request[p].op = "start"
        /\ pc'[p] = "finish" /\ pc'[child] = "sending"
        /\ \A q \in Process \ {p, child} :
             /\ pc'[q] = pc[q] /\ fd'[q] = fd[q] /\ open'[q] = open[q]
             /\ request'[q] = request[q]
        /\ open'[p] = open[p] /\ fd'[p] = fd[p] /\ open'[child] = open[p] /\ fd'[child] = fd[p]
        /\ UNCHANGED <<exitPipe, connVars>>
        /\ served' = [served EXCEPT ![Client(p)] = @ + 1]
    BY <1>1 DEF Fork, Serves, LoopInv, LoopTypes
  <1>3. PICK b \in Clients : b = Client(p)
    BY <1>2, ClientIsClient
  <1>4. HasRequest(p, b) /\ served[b] = 0
    BY <1>1, <1>2, <1>3 DEF HasRequest, LoopInv, OnePlace
  <1>5. Client(p)' = b /\ Client(child)' = b /\ \A q \in Process \ {p, child} : Client(q)' = Client(q)
    BY <1>2, <1>3 DEF Client
  <1>. SUFFICES ASSUME NEW c \in Clients \ Shared' PROVE Promised(c)'
    BY DEF Awaited
  <1>6. Promised(c)
    BY DEF Awaited, Shared, Grow
  <1>7. c = b => ~Going(c)
    <2>. SUFFICES ASSUME c = b, Going(c) PROVE FALSE
      OBVIOUS
    <2>1. stage[c] = "waiting"
      BY <1>2, <1>3, <1>6 DEF Promised, Serving, Answers
    <2>2. request[p] = typed[c]
      BY <1>2, <1>3 DEF Answering, ReadIsTyped
    <2>. QED BY <1>2, <1>6, <2>1, <2>2 DEF Promised
  <1>8. Taken(c) => Taken(c)'
    BY <1>2, <1>5 DEF Taken
  <1>9. Owned(c) => Owned(c)'
    <2>1. \A q \in Process : Alive(q) => Alive(q)' /\ open'[q] = open[q]
      BY <1>2 DEF Alive
    <2>. QED BY <2>1 DEF Owned
  <1>10. Queued(c)' <=> Queued(c)
    BY <1>2 DEF Queued, connVars
  <1>11. Going(c) => Due(c) \/ Queued(c)' \/ Owned(c)'
    BY <1>6, <1>9, <1>10 DEF Promised
  <1>12. Going(c) => \A q \in Process : pc'[q] \in Serving \ {"receive"} /\ Client(q)' = c =>
           /\ pc'[q] = pc[q] /\ Client(q) = c
           /\ request'[q] = request[q] /\ exitPipe'[q] = exitPipe[q]
    BY <1>2, <1>5, <1>7
  <1>13. /\ stage'[c] = stage[c] /\ typed'[c] = typed[c] /\ unread'[c] = unread[c]
         /\ inbox'[c] = inbox[c] /\ served'[c] \in {served[c], 1}
    BY <1>1, <1>2, <1>3, <1>4 DEF connVars
  <1>. QED BY <1>6, <1>8, <1>11, <1>12, <1>13, PromiseStays

LEMMA NextAwaits ==
    LoopInv /\ Exclusive /\ CatInv /\ Answering /\ Awaited /\ [Next]_vars => Awaited'
  <1>. SUFFICES ASSUME LoopInv, Exclusive, CatInv, Answering, Awaited, [Next]_vars
                PROVE  Awaited'
    OBVIOUS
  <1>1. Grow
    BY NextGrows
  <1>2. CASE Load \/ Start \/ UNCHANGED vars
    BY <1>1, <1>2, QuietAwaits
  <1>3. ASSUME NEW c \in Clients, Terminal(c) PROVE Awaited'
    BY <1>1, <1>3, TerminalAwaits
  <1>4. ASSUME NEW p \in Process, Server(p) \/ SendMovieReturns(p) \/ Dies(p) PROVE Awaited'
    <2>1. CASE Session(p)
      BY <1>1, <2>1, LoopAwaits, AnsweringAwaits, ForkAwaits DEF Session
    <2>. QED BY <1>1, <1>4, <2>1, LoopAwaits, ReceivingAwaits DEF Server
  <1>. QED BY <1>2, <1>3, <1>4 DEF Next

-----------------------------------------------------------------------------
(* Sums.  Upto is the fold of the library, a function on the subsets of a *)
(* set which takes its elements out in an order of its own: the function  *)
(* exists, does not depend on the set around, and takes any element first.*)

LEMMA NoLeast ==
    ASSUME NEW Bad \in SUBSET Nat, \A n \in Bad : \E m \in Bad : m < n
    PROVE  Bad = {}
  <1>. SUFFICES ASSUME Bad # {} PROVE FALSE
    OBVIOUS
  <1>1. PICK n : n \in Bad /\ \A m \in Bad : n <= m
    BY LeastIsMin
  <1>2. PICK m \in Bad : m < n
    BY <1>1
  <1>. QED BY <1>1, <1>2

Sum(f, S) == FoldFunctionOnSet(+, 0, f, S)

Chosen(S) == CHOOSE x \in S : TRUE

SumStep(f, g, s) == IF s = {} THEN 0 ELSE f[Chosen(s)] + g[s \ {Chosen(s)}]

IsSum(f, g, S) == g = [s \in SUBSET S |-> SumStep(f, g, s)]

LEMMA ChosenIsIn == \A S : S # {} => Chosen(S) \in S
  BY DEF Chosen

(* By induction on the size of the subsets.                               *)
LEMMA SumsExist ==
    ASSUME NEW f, NEW S, IsFiniteSet(S)
    PROVE  \E g : IsSum(f, g, S)
  <1>. DEFINE Small(n) == {s \in SUBSET S : Cardinality(s) <= n}
              Works(g, n) == g = [s \in Small(n) |-> SumStep(f, g, s)]
              Bad == {n \in Nat : ~ \E g : Works(g, n)}
  <1>1. \A s \in SUBSET S : IsFiniteSet(s) /\ Cardinality(s) \in Nat
    BY FS_Subset, FS_CardinalityType
  <1>2. 0 \notin Bad
    <2>. DEFINE g == [s \in Small(0) |-> 0]
    <2>1. \A s \in Small(0) : s = {}
      BY <1>1, FS_EmptySet
    <2>2. \A s \in Small(0) : SumStep(f, g, s) = 0
      BY <2>1 DEF SumStep
    <2>3. Works(g, 0)
      <3>. HIDE DEF Small
      <3>. QED BY <2>2
    <2>. QED BY <2>3
  <1>3. ASSUME NEW n \in Nat \ {0}, NEW g, Works(g, n - 1)
        PROVE  \E h : Works(h, n)
    <2>. DEFINE h == [s \in Small(n) |-> SumStep(f, g, s)]
    <2>1. \A s \in Small(n) : s # {} => s \ {Chosen(s)} \in Small(n - 1)
      <3>. TAKE s \in Small(n)
      <3>. HAVE s # {}
      <3>1. Chosen(s) \in s
        BY ChosenIsIn
      <3>2. Cardinality(s \ {Chosen(s)}) = Cardinality(s) - 1 /\ Cardinality(s) \in Nat
        <4>. HIDE DEF Small
        <4>1. s \in SUBSET S
          BY DEF Small
        <4>. QED BY <1>1, <3>1, <4>1, FS_RemoveElement
      <3>. QED BY <3>2
    <2>2. \A s \in Small(n - 1) : s \in Small(n)
      BY <1>1
    <2>3. \A s \in Small(n - 1) : h[s] = g[s]
      <3>. HIDE DEF Small
      <3>. QED BY <1>3, <2>2
    <2>. HIDE DEF h
    <2>4. \A s \in Small(n) : SumStep(f, h, s) = SumStep(f, g, s)
      BY <2>1, <2>3 DEF SumStep
    <2>5. Works(h, n)
      <3>. HIDE DEF Small
      <3>. QED BY <2>4 DEF h
    <2>. QED BY <2>5
  <1>4. \A n \in Bad : \E m \in Bad : m < n
    <2>. TAKE n \in Bad
    <2>1. n \in Nat \ {0}
      BY <1>2
    <2>2. n - 1 \in Bad
      <3>1. (\E g : Works(g, n - 1)) => \E h : Works(h, n)
        <4>. HIDE DEF Works
        <4>. QED BY <1>3, <2>1
      <3>2. n - 1 \in Nat
        BY <2>1
      <3>3. ~ \E h : Works(h, n)
        <4>. HIDE DEF Works
        <4>. QED OBVIOUS
      <3>. HIDE DEF Works
      <3>. QED BY <3>1, <3>2, <3>3
    <2>. HIDE DEF Bad
    <2>. QED BY <2>1, <2>2
  <1>5. Bad = {}
    <2>1. Bad \in SUBSET Nat
      OBVIOUS
    <2>. HIDE DEF Bad
    <2>. QED BY <1>4, <2>1, NoLeast
  <1>6. Small(Cardinality(S)) = SUBSET S /\ Cardinality(S) \in Nat
    BY FS_Subset, FS_CardinalityType
  <1>7. PICK g : Works(g, Cardinality(S))
    BY <1>5, <1>6
  <1>. QED BY <1>6, <1>7 DEF IsSum

LEMMA SumIsChosen ==
    ASSUME NEW f, NEW S, IsFiniteSet(S)
    PROVE  \E g : IsSum(f, g, S) /\ Sum(f, S) = g[S]
  <1>. DEFINE g == CHOOSE g : g = [s \in SUBSET S |-> SumStep(f, g, s)]
  <1>1. Sum(f, S) = g[S]
    BY DEF Sum, FoldFunctionOnSet, MapThenFoldSet, SumStep, Chosen
  <1>2. g = [s \in SUBSET S |-> SumStep(f, g, s)]
    BY SumsExist DEF IsSum
  <1>. QED BY <1>1, <1>2, Zenon DEF IsSum

(* On a subset of both, two such functions agree.                         *)
LEMMA SumsAgree ==
    ASSUME NEW f, NEW S, NEW T, IsFiniteSet(S), T \in SUBSET S,
           NEW g, NEW h, IsSum(f, g, S), IsSum(f, h, T)
    PROVE  g[T] = h[T]
  <1>. DEFINE Bad == {Cardinality(s) : s \in {t \in SUBSET T : g[t] # h[t]}}
  <1>1. \A s \in SUBSET T : IsFiniteSet(s) /\ Cardinality(s) \in Nat
    BY FS_Subset, FS_CardinalityType
  <1>2. \A s \in SUBSET T : g[s] = SumStep(f, g, s) /\ h[s] = SumStep(f, h, s)
    <2>1. \A s \in SUBSET T : s \in SUBSET S
      OBVIOUS
    <2>. QED BY <2>1 DEF IsSum
  <1>3. \A n \in Bad : \E m \in Bad : m < n
    <2>. TAKE n \in Bad
    <2>1. PICK s \in SUBSET T : n = Cardinality(s) /\ g[s] # h[s]
      OBVIOUS
    <2>. DEFINE t == s \ {Chosen(s)}
    <2>2. s # {} /\ g[t] # h[t]
      BY <1>2, <2>1 DEF SumStep
    <2>3. t \in SUBSET T /\ Chosen(s) \in s
      BY <2>2, ChosenIsIn
    <2>4. Cardinality(t) = n - 1 /\ n \in Nat
      BY <1>1, <2>1, <2>3, FS_RemoveElement
    <2>5. Cardinality(t) \in Bad
      BY <2>2, <2>3
    <2>. HIDE DEF Bad, t
    <2>. QED BY <2>4, <2>5
  <1>4. Bad \in SUBSET Nat
    BY <1>1
  <1>5. Bad = {}
    <2>. HIDE DEF Bad
    <2>. QED BY <1>3, <1>4, NoLeast
  <1>6. g[T] # h[T] => Cardinality(T) \in Bad
    OBVIOUS
  <1>. QED BY <1>5, <1>6

(* What the definition of a fold says, without its function.              *)
LEMMA SumTakesOne ==
    ASSUME NEW f, NEW S, IsFiniteSet(S)
    PROVE  Sum(f, S) = IF S = {} THEN 0 ELSE f[Chosen(S)] + Sum(f, S \ {Chosen(S)})
  <1>. DEFINE T == S \ {Chosen(S)}
  <1>1. PICK g : IsSum(f, g, S) /\ Sum(f, S) = g[S]
    BY SumIsChosen
  <1>2. Sum(f, S) = SumStep(f, g, S)
    <2>1. g[S] = SumStep(f, g, S)
      BY <1>1 DEF IsSum
    <2>. QED BY <1>1, <2>1
  <1>3. IsFiniteSet(T)
    BY FS_RemoveElement
  <1>4. PICK h : IsSum(f, h, T) /\ Sum(f, T) = h[T]
    BY <1>3, SumIsChosen
  <1>5. g[T] = h[T]
    <2>1. T \in SUBSET S
      OBVIOUS
    <2>. HIDE DEF T
    <2>. QED BY <1>1, <1>4, <2>1, SumsAgree
  <1>. QED BY <1>2, <1>4, <1>5 DEF SumStep

LEMMA SumIsNat ==
    ASSUME NEW f, NEW S, IsFiniteSet(S), \A x \in S : f[x] \in Nat
    PROVE  Sum(f, S) \in Nat
  <1>. DEFINE Bad == {Cardinality(s) : s \in {t \in SUBSET S : Sum(f, t) \notin Nat}}
  <1>1. \A s \in SUBSET S : IsFiniteSet(s) /\ Cardinality(s) \in Nat
    BY FS_Subset, FS_CardinalityType
  <1>2. \A n \in Bad : \E m \in Bad : m < n
    <2>. TAKE n \in Bad
    <2>1. PICK s \in SUBSET S : n = Cardinality(s) /\ Sum(f, s) \notin Nat
      OBVIOUS
    <2>. DEFINE t == s \ {Chosen(s)}
    <2>2. s # {} /\ Sum(f, s) = f[Chosen(s)] + Sum(f, t)
      <3>1. Sum(f, s) = IF s = {} THEN 0 ELSE f[Chosen(s)] + Sum(f, t)
        <4>1. IsFiniteSet(s)
          BY <1>1
        <4>. QED BY <4>1, SumTakesOne
      <3>. QED BY <2>1, <3>1
    <2>3. t \in SUBSET S /\ Chosen(s) \in s
      BY <2>2, ChosenIsIn
    <2>4. f[Chosen(s)] \in Nat
      BY <2>3
    <2>5. Sum(f, t) \notin Nat
      BY <2>1, <2>2, <2>4
    <2>6. Cardinality(t) = n - 1 /\ n \in Nat
      BY <1>1, <2>1, <2>3, FS_RemoveElement
    <2>7. Cardinality(t) \in Bad
      BY <2>3, <2>5
    <2>. HIDE DEF Bad, t
    <2>. QED BY <2>6, <2>7
  <1>3. Bad \in SUBSET Nat
    BY <1>1
  <1>4. Bad = {}
    <2>. HIDE DEF Bad
    <2>. QED BY <1>2, <1>3, NoLeast
  <1>. QED BY <1>4

(* Of a smallest set for which it fails, take both elements out.          *)
LEMMA SumWithout ==
    ASSUME NEW f, NEW S, IsFiniteSet(S), \A x \in S : f[x] \in Nat, NEW o \in S
    PROVE  Sum(f, S) = f[o] + Sum(f, S \ {o})
  <1>. DEFINE Fails(t) == \E x \in t : Sum(f, t) # f[x] + Sum(f, t \ {x})
              Bad == {Cardinality(s) : s \in {t \in SUBSET S : Fails(t)}}
  <1>1. \A s \in SUBSET S : IsFiniteSet(s) /\ Cardinality(s) \in Nat
    BY FS_Subset, FS_CardinalityType
  <1>2. \A n \in Bad : \E m \in Bad : m < n
    <2>. TAKE n \in Bad
    <2>1. PICK s \in SUBSET S : n = Cardinality(s) /\ Fails(s)
      OBVIOUS
    <2>2. PICK x \in s : Sum(f, s) # f[x] + Sum(f, s \ {x})
      BY <2>1
    <2>. DEFINE p == Chosen(s)
                t == s \ {p}
                u == s \ {x}
    <2>3. p \in s /\ t \in SUBSET S /\ u \in SUBSET S
      BY <2>2, ChosenIsIn
    <2>4. Sum(f, s) = f[p] + Sum(f, t)
      BY <1>1, <2>2, SumTakesOne
    <2>5. p # x
      BY <2>2, <2>4
    <2>6. x \in t /\ p \in u /\ t \ {x} = u \ {p}
      BY <2>2, <2>3, <2>5
    <2>7. /\ f[p] \in Nat /\ f[x] \in Nat /\ Sum(f, t \ {x}) \in Nat
      <3>1. t \ {x} \in SUBSET S
        OBVIOUS
      <3>2. IsFiniteSet(t \ {x}) /\ \A y \in t \ {x} : f[y] \in Nat
        BY <1>1, <3>1
      <3>. QED BY <2>2, <2>3, <3>2, SumIsNat
    <2>. HIDE DEF p
    <2>8. Fails(t) \/ Fails(u)
      <3>. SUFFICES ASSUME ~Fails(t), ~Fails(u)
                    PROVE  FALSE
        OBVIOUS
      <3>1. Sum(f, t) = f[x] + Sum(f, t \ {x})
        BY <2>6
      <3>2. Sum(f, u) = f[p] + Sum(f, u \ {p})
        BY <2>6
      <3>3. Sum(f, t \ {x}) = Sum(f, u \ {p}) /\ Sum(f, s) # f[x] + Sum(f, u)
        BY <2>2, <2>6
      <3>. HIDE DEF t, u
      <3>. QED BY <2>4, <2>7, <3>1, <3>2, <3>3
    <2>9. Cardinality(t) = n - 1 /\ Cardinality(u) = n - 1 /\ n \in Nat
      BY <1>1, <2>1, <2>2, <2>3, FS_RemoveElement
    <2>10. Cardinality(t) \in Bad \/ Cardinality(u) \in Bad
      <3>. HIDE DEF Fails, t, u
      <3>. QED BY <2>3, <2>8
    <2>. HIDE DEF Bad, t, u
    <2>. QED BY <2>9, <2>10
  <1>3. Bad \in SUBSET Nat
    BY <1>1
  <1>4. Bad = {}
    <2>. HIDE DEF Bad
    <2>. QED BY <1>2, <1>3, NoLeast
  <1>. QED BY <1>4

(* Sums of the values at 1..n.                                            *)
LEMMA UptoNext ==
    ASSUME NEW n \in Nat, NEW f, \A i \in 1..n : f[i] \in Nat
    PROVE  /\ Upto(f, n) \in Nat
           /\ n > 0 => Upto(f, n) = Upto(f, n - 1) + f[n]
           /\ n = 0 => Upto(f, n) = 0
  <1>1. IsFiniteSet(1..n)
    BY FS_Interval
  <1>2. Upto(f, n) = Sum(f, 1..n) /\ Upto(f, n - 1) = Sum(f, 1..(n - 1))
    BY DEF Upto, Sum
  <1>3. Sum(f, 1..n) \in Nat
    BY <1>1, SumIsNat
  <1>4. ASSUME n > 0
        PROVE  Sum(f, 1..n) = Sum(f, 1..(n - 1)) + f[n]
    <2>1. n \in 1..n /\ (1..n) \ {n} = 1..(n - 1)
      BY <1>4
    <2>2. Sum(f, 1..n) = f[n] + Sum(f, 1..(n - 1))
      BY <1>1, <2>1, SumWithout
    <2>3. IsFiniteSet(1..(n - 1)) /\ \A i \in 1..(n - 1) : f[i] \in Nat
      BY <2>1, FS_Interval
    <2>4. Sum(f, 1..(n - 1)) \in Nat /\ f[n] \in Nat
      BY <2>1, <2>3, SumIsNat
    <2>. QED BY <2>2, <2>4
  <1>5. ASSUME n = 0
        PROVE  Sum(f, 1..n) = 0
    <2>1. 1..n = {}
      BY <1>5
    <2>. QED BY <1>1, <2>1, SumTakesOne
  <1>. QED BY <1>2, <1>3, <1>4, <1>5

(* They grow with n.                                                      *)
LEMMA UptoGrows ==
    ASSUME NEW n \in Nat, NEW f, \A i \in 1..n : f[i] \in Nat,
           NEW m \in 0..n
    PROVE  Upto(f, m) \in Nat /\ Upto(f, m) <= Upto(f, n)
  <1>. DEFINE Bad == {l \in m..n : ~(Upto(f, m) <= Upto(f, l))}
  <1>1. \A l \in 0..n : /\ Upto(f, l) \in Nat
                        /\ l > 0 => Upto(f, l) = Upto(f, l - 1) + f[l] /\ f[l] \in Nat
    BY UptoNext
  <1>2. \A l \in Bad : \E k \in Bad : k < l
    <2>. TAKE l \in Bad
    <2>1. l # m /\ l \in m..n
      BY <1>1
    <2>2. l - 1 \in m..n /\ l > 0 /\ l - 1 \in 0..n
      BY <2>1
    <2>3. l - 1 \in Bad
      BY <1>1, <2>1, <2>2
    <2>. QED BY <2>1, <2>3
  <1>3. Bad \in SUBSET Nat
    OBVIOUS
  <1>4. Bad = {}
    <2>. HIDE DEF Bad
    <2>. QED BY <1>2, <1>3, NoLeast
  <1>. QED BY <1>1, <1>4

(* They agree where the values do.                                        *)
LEMMA UptoAgrees ==
    ASSUME NEW n \in Nat, NEW f, NEW g,
           \A i \in 1..n : f[i] \in Nat /\ g[i] = f[i]
    PROVE  Upto(f, n) = Upto(g, n)
  <1>. DEFINE Bad == {l \in 0..n : Upto(f, l) # Upto(g, l)}
  <1>1. \A l \in 0..n : /\ l > 0 => /\ Upto(f, l) = Upto(f, l - 1) + f[l]
                                    /\ Upto(g, l) = Upto(g, l - 1) + f[l]
                        /\ l = 0 => Upto(f, l) = 0 /\ Upto(g, l) = 0
    BY UptoNext
  <1>2. \A l \in Bad : \E k \in Bad : k < l
    <2>. TAKE l \in Bad
    <2>1. l > 0 /\ l - 1 \in 0..n
      BY <1>1
    <2>2. l - 1 \in Bad
      BY <1>1, <2>1
    <2>. QED BY <2>1, <2>2
  <1>3. Bad \in SUBSET Nat
    OBVIOUS
  <1>4. Bad = {}
    <2>. HIDE DEF Bad
    <2>. QED BY <1>2, <1>3, NoLeast
  <1>. QED BY <1>4

-----------------------------------------------------------------------------
(* One byte, and all bytes of a field.                                    *)

Arrives(long, message, k, sent, b) ==
  \E r \in Reads(Moves(long, message.struct, message.reader), b) :
    LET q == (k - 1) * Total(message.reader) + r.at + (b - r.byte)
        length == Total(message.writer)
    IN /\ q < sent
       /\ q \div length = k - 1
       /\ \E w \in Writes(Moves(long, message.struct, message.writer), q % length) :
            w.byte + ((q % length) - w.at) = b

LEMMA LeadingCounts ==
    ASSUME NEW long, NEW message, NEW k, NEW sent, NEW field
    PROVE  LET missing == {b \in 0..(Bytes(long)[field] - 1) :
                             ~Arrives(long, message, k, sent,
                                      Address(long, message.struct, field) + b)}
           IN Leading(long, message, k, sent, field) =
                IF missing = {} THEN Bytes(long)[field] ELSE Min(missing)
  BY DEF Leading, Arrives

(* A field arrives whole if each of its bytes does.                       *)
LEMMA WholeField ==
    ASSUME NEW long, NEW message, NEW k, NEW sent, NEW field,
           \A b \in 0..(Bytes(long)[field] - 1) :
             Arrives(long, message, k, sent, Address(long, message.struct, field) + b)
    PROVE  Leading(long, message, k, sent, field) = Bytes(long)[field]
  <1>. DEFINE width == Bytes(long)[field]
              start == Address(long, message.struct, field)
              missing == {b \in 0..(width - 1) : ~Arrives(long, message, k, sent, start + b)}
  <1>1. Leading(long, message, k, sent, field) = IF missing = {} THEN width ELSE Min(missing)
    BY LeadingCounts
  <1>2. missing = {}
    OBVIOUS
  <1>. HIDE DEF missing, width
  <1>. QED BY <1>1, <1>2 DEF width

(* The place of a byte of record k + 1.                                   *)
LEMMA InRecord ==
    ASSUME NEW length \in Nat, NEW x \in 0..(length - 1), NEW k \in Nat
    PROVE  /\ k * length \in Nat
           /\ (k * length + x) \div length = k /\ (k * length + x) % length = x
  OBVIOUS

LEMMA LastOfOne ==
    ASSUME NEW moves, NEW i \in Nat
    PROVE  LastOf(moves, {i}) = {moves[i]}
  <1>1. Max({i}) = i
    BY DEF Max
  <1>. QED BY <1>1 DEF LastOf

(* A byte arrives if one move of either side reaches it, and they meet.   *)
LEMMA ByteArrives ==
    ASSUME NEW long, NEW message, NEW k \in Nat \ {0}, NEW sent \in Nat, NEW b,
           NEW r, NEW w, NEW x,
           Reads(Moves(long, message.struct, message.reader), b) = {r},
           Writes(Moves(long, message.struct, message.writer), x) = {w},
           x = r.at + (b - r.byte), w.byte + (x - w.at) = b,
           Total(message.writer) \in Nat, x \in 0..(Total(message.writer) - 1),
           (k - 1) * Total(message.reader) = (k - 1) * Total(message.writer),
           (k - 1) * Total(message.writer) + x < sent,
           r.at \in Nat, r.byte \in Nat, b \in Nat
    PROVE  Arrives(long, message, k, sent, b)
  <1>. DEFINE length == Total(message.writer)
              q == (k - 1) * Total(message.reader) + r.at + (b - r.byte)
  <1>1. PICK m \in Nat : m = k - 1
    OBVIOUS
  <1>2. /\ m * length \in Nat
        /\ (m * length + x) \div length = m /\ (m * length + x) % length = x
    <2>. HIDE DEF q
    <2>1. length \in Nat /\ x \in 0..(length - 1)
      OBVIOUS
    <2>. HIDE DEF length
    <2>. QED BY <2>1, InRecord
  <1>3. q = m * length + x /\ q \div length = k - 1 /\ q % length = x
    <2>1. q = m * length + x
      <3>. DEFINE p == (k - 1) * Total(message.reader)
      <3>1. p = m * length /\ q = p + r.at + (b - r.byte)
        BY <1>1
      <3>2. p \in Nat
        BY <1>2, <3>1
      <3>. HIDE DEF p, q, length
      <3>. QED BY <3>1, <3>2
    <2>. HIDE DEF q, length
    <2>. QED BY <1>1, <1>2, <2>1
  <1>4. q < sent
    BY <1>1, <1>3
  <1>. HIDE DEF q, length
  <1>5. \E v \in Writes(Moves(long, message.struct, message.writer), q % length) :
          v.byte + ((q % length) - v.at) = b
    BY <1>3
  <1>. QED BY <1>3, <1>4, <1>5 DEF Arrives, q, length

(* The same of the first record, where nothing is to be multiplied.       *)
LEMMA FirstByteArrives ==
    ASSUME NEW long, NEW message, NEW sent \in Nat, NEW b, NEW r, NEW w, NEW x,
           Reads(Moves(long, message.struct, message.reader), b) = {r},
           Writes(Moves(long, message.struct, message.writer), x) = {w},
           x = r.at + (b - r.byte), w.byte + (x - w.at) = b,
           Total(message.writer) \in Nat, Total(message.reader) \in Nat,
           x \in 0..(Total(message.writer) - 1), x < sent,
           r.at \in Nat, r.byte \in Nat, b \in Nat
    PROVE  Arrives(long, message, 1, sent, b)
  <1>. DEFINE k == 1
  <1>1. /\ k \in Nat \ {0} /\ k - 1 = 0
        /\ 0 * Total(message.reader) = 0 /\ 0 * Total(message.writer) = 0
        /\ 0 + x < sent
    OBVIOUS
  <1>. HIDE DEF k
  <1>2. Arrives(long, message, k, sent, b)
    BY <1>1, ByteArrives
  <1>. QED BY <1>2 DEF k

-----------------------------------------------------------------------------
(* Layouts that have their fields one after the other.                    *)

FieldNames == DOMAIN Bytes(4)

LEMMA Widths ==
    ASSUME NEW long \in LongSizes, NEW f \in FieldNames
    PROVE  Bytes(long)[f] \in Nat \ {0}
  BY DEF LongSizes, FieldNames, Bytes

Distinct(fields) ==
  /\ fields \in Seq(FieldNames)
  /\ \A i, j \in 1..Len(fields) : fields[i] = fields[j] => i = j

AllIn(fields, struct) ==
  \A i \in 1..Len(fields) : \E j \in 1..Len(struct) : fields[i] = struct[j]

Wide(long, fields) == [i \in DOMAIN fields |-> Bytes(long)[fields[i]]]

(* Each copy has the length of its field and steps over no less.          *)
Proper(long, layout, fields) ==
  /\ DOMAIN layout = 1..Len(fields) /\ Len(layout) = Len(fields)
  /\ \A i \in 1..Len(fields) :
       /\ layout[i].field = fields[i]
       /\ layout[i].bytes = Bytes(long)[fields[i]]
       /\ layout[i].step \in Nat /\ layout[i].bytes <= layout[i].step

(* Sums of widths or steps.                                               *)
LEMMA Apart ==
    ASSUME NEW n \in Nat, NEW f, \A i \in 1..n : f[i] \in Nat,
           NEW i \in 1..n
    PROVE  /\ Upto(f, i - 1) \in Nat /\ Upto(f, i) \in Nat
           /\ Upto(f, i) = Upto(f, i - 1) + f[i]
           /\ Upto(f, i) <= Upto(f, n)
           /\ \A j \in 1..n : /\ j < i => Upto(f, j - 1) + f[j] <= Upto(f, i - 1)
                              /\ j > i => Upto(f, i) <= Upto(f, j - 1)
  <1>1. \A j \in 1..n : /\ Upto(f, j - 1) \in Nat /\ Upto(f, j) \in Nat
                        /\ Upto(f, j) = Upto(f, j - 1) + f[j]
    <2>. TAKE j \in 1..n
    <2>1. j \in Nat /\ j > 0 /\ \A l \in 1..j : f[l] \in Nat
      OBVIOUS
    <2>2. Upto(f, j) \in Nat /\ Upto(f, j) = Upto(f, j - 1) + f[j]
      BY <2>1, UptoNext
    <2>3. j - 1 \in Nat /\ \A l \in 1..(j - 1) : f[l] \in Nat
      BY <2>1
    <2>4. Upto(f, j - 1) \in Nat
      BY <2>3, UptoNext
    <2>. QED BY <2>2, <2>4
  <1>2. \A j, m \in 0..n : m <= j => Upto(f, m) <= Upto(f, j)
    <2>. SUFFICES ASSUME NEW j \in 0..n, NEW m \in 0..j
                  PROVE  Upto(f, m) <= Upto(f, j)
      OBVIOUS
    <2>. QED BY UptoGrows
  <1>3. Upto(f, i) <= Upto(f, n)
    BY <1>2
  <1>4. ASSUME NEW j \in 1..n
        PROVE  /\ j < i => Upto(f, j - 1) + f[j] <= Upto(f, i - 1)
               /\ j > i => Upto(f, i) <= Upto(f, j - 1)
    <2>1. j < i => Upto(f, j) <= Upto(f, i - 1)
      BY <1>2
    <2>2. j > i => Upto(f, i) <= Upto(f, j - 1)
      BY <1>2
    <2>. QED BY <1>1, <2>1, <2>2
  <1>. QED BY <1>1, <1>3, <1>4

(* The address of the i-th field of a struct.                             *)
LEMMA Addresses ==
    ASSUME NEW long, NEW struct, Distinct(struct), NEW i \in 1..Len(struct)
    PROVE  Address(long, struct, struct[i]) = Upto(Wide(long, struct), i - 1)
  <1>1. DOMAIN struct = 1..Len(struct)
    BY DEF Distinct
  <1>2. (CHOOSE j \in DOMAIN struct : struct[j] = struct[i]) = i
    BY <1>1 DEF Distinct
  <1>. QED BY <1>2 DEF Address, Wide

(* The only move of a layout that reaches a place.                        *)
LEMMA OnlyMove ==
    ASSUME NEW moves, NEW i \in DOMAIN moves, DOMAIN moves \in SUBSET Nat, NEW b,
           b \in moves[i].byte .. (moves[i].byte + moves[i].bytes - 1),
           \A j \in DOMAIN moves \ {i} :
             b \notin moves[j].byte .. (moves[j].byte + moves[j].bytes - 1)
    PROVE  Reads(moves, b) = {moves[i]}
  <1>1. {j \in DOMAIN moves : b \in moves[j].byte .. (moves[j].byte + moves[j].bytes - 1)} = {i}
    OBVIOUS
  <1>. QED BY <1>1, LastOfOne DEF Reads

LEMMA OnlyWrite ==
    ASSUME NEW moves, NEW i \in DOMAIN moves, DOMAIN moves \in SUBSET Nat, NEW q,
           q \in moves[i].at .. (moves[i].at + moves[i].bytes - 1),
           \A j \in DOMAIN moves \ {i} :
             q \notin moves[j].at .. (moves[j].at + moves[j].bytes - 1)
    PROVE  Writes(moves, q) = {moves[i]}
  <1>1. {j \in DOMAIN moves : q \in moves[j].at .. (moves[j].at + moves[j].bytes - 1)} = {i}
    OBVIOUS
  <1>. QED BY <1>1, LastOfOne DEF Writes

(* Copy i of a layout moves byte c of its field, and no other copy does.  *)
Moved(long, struct, layout, i, field, c) ==
  LET moves == Moves(long, struct, layout)
      start == Address(long, struct, field)
      at    == Offset(layout, i)
  IN /\ start \in Nat /\ at \in Nat
     /\ moves[i] = [at |-> at, byte |-> start, bytes |-> Bytes(long)[field]]
     /\ Reads(moves, start + c) = {moves[i]}
     /\ Writes(moves, at + c) = {moves[i]}
     /\ Total(layout) \in Nat /\ at + c < Total(layout)

(* In a proper layout neither fields nor copies overlap.                  *)
LEMMA ProperMoves ==
    ASSUME NEW long \in LongSizes, NEW struct, Distinct(struct),
           NEW fields, Distinct(fields),
           AllIn(fields, struct),
           NEW layout, Proper(long, layout, fields),
           NEW i \in 1..Len(fields), NEW c \in 0..(Bytes(long)[fields[i]] - 1)
    PROVE  Moved(long, struct, layout, i, fields[i], c)
  <1>. DEFINE moves == Moves(long, struct, layout)
              n == Len(fields)
              steps == Steps(layout)
              wide == Wide(long, struct)
              width(j) == Bytes(long)[fields[j]]
              start(j) == Address(long, struct, fields[j])
  <1>1. n \in Nat /\ DOMAIN layout = 1..n /\ Len(layout) = n
    BY DEF Distinct, Proper
  <1>2. \A j \in 1..n : width(j) \in Nat \ {0}
    BY Widths DEF Distinct
  <1>3. \A j \in 1..n : steps[j] = layout[j].step /\ steps[j] \in Nat /\ width(j) <= steps[j]
    BY <1>1 DEF Steps, Proper
  <1>4. /\ DOMAIN moves = 1..n
        /\ \A j \in 1..n : moves[j] = [at |-> Offset(layout, j), byte |-> start(j),
                                       bytes |-> width(j)]
    BY <1>1 DEF Moves, Proper
  <1>5. \A j \in 1..n :
          /\ Offset(layout, j) \in Nat
          /\ Offset(layout, j) + steps[j] <= Total(layout)
          /\ Total(layout) \in Nat
          /\ \A l \in 1..n : /\ l < j => Offset(layout, l) + steps[l] <= Offset(layout, j)
                             /\ l > j => Offset(layout, j) + steps[j] <= Offset(layout, l)
    <2>. TAKE j \in 1..n
    <2>1. \A l \in 1..n : steps[l] \in Nat
      BY <1>3
    <2>. HIDE DEF steps
    <2>2. /\ Upto(steps, j - 1) \in Nat /\ Upto(steps, j) = Upto(steps, j - 1) + steps[j]
          /\ Upto(steps, j) <= Upto(steps, n) /\ Upto(steps, n) \in Nat
          /\ \A l \in 1..n : /\ l < j => Upto(steps, l - 1) + steps[l] <= Upto(steps, j - 1)
                             /\ l > j => Upto(steps, j) <= Upto(steps, l - 1)
      BY <1>1, <2>1, Apart, UptoNext
    <2>3. (\A l \in 1..n : Offset(layout, l) = Upto(steps, l - 1)) /\ Total(layout) = Upto(steps, n)
      BY <1>1 DEF Offset, Total, steps
    <2>. QED BY <2>2, <2>3
  <1>6. \A j \in 1..n :
          /\ start(j) \in Nat
          /\ \A l \in 1..n \ {j} : \/ start(l) + width(l) <= start(j)
                                   \/ start(j) + width(j) <= start(l)
    <2>. DEFINE m == Len(struct)
    <2>1. m \in Nat /\ \A p \in 1..m : wide[p] \in Nat /\ wide[p] = Bytes(long)[struct[p]]
      <3>1. m \in Nat /\ DOMAIN struct = 1..m /\ \A p \in 1..m : struct[p] \in FieldNames
        BY DEF Distinct
      <3>. QED BY <3>1, Widths DEF Wide
    <2>2. \A p \in 1..m : Address(long, struct, struct[p]) = Upto(wide, p - 1)
      BY Addresses
    <2>. HIDE DEF wide, m
    <2>3. \A p, q \in 1..m : p # q =>
            /\ Upto(wide, p - 1) \in Nat /\ Upto(wide, q - 1) \in Nat
            /\ \/ Upto(wide, p - 1) + wide[p] <= Upto(wide, q - 1)
               \/ Upto(wide, q - 1) + wide[q] <= Upto(wide, p - 1)
      <3>1. \A q \in 1..m : \A p \in 1..m :
              p < q => Upto(wide, p - 1) + wide[p] <= Upto(wide, q - 1)
        BY <2>1, Apart
      <3>2. \A p \in 1..m : Upto(wide, p - 1) \in Nat
        BY <2>1, Apart
      <3>3. \A p, q \in 1..m : p # q => p < q \/ q < p
        BY <2>1
      <3>. QED BY <3>1, <3>2, <3>3
    <2>4. \A p \in 1..m : Upto(wide, p - 1) \in Nat
      BY <2>1, Apart
    <2>. TAKE j \in 1..n
    <2>5. PICK p \in 1..m : fields[j] = struct[p]
      BY DEF m, AllIn
    <2>6. start(j) \in Nat
      BY <2>2, <2>4, <2>5
    <2>7. ASSUME NEW l \in 1..n \ {j}
          PROVE  \/ start(l) + width(l) <= start(j)
                 \/ start(j) + width(j) <= start(l)
      <3>1. PICK q \in 1..m : fields[l] = struct[q]
        BY DEF m, AllIn
      <3>2. p # q
        BY <2>5, <3>1 DEF Distinct
      <3>3. /\ start(j) = Upto(wide, p - 1) /\ start(l) = Upto(wide, q - 1)
            /\ width(j) = wide[p] /\ width(l) = wide[q]
        BY <2>1, <2>2, <2>5, <3>1
      <3>. HIDE DEF start, width
      <3>. QED BY <2>3, <3>2, <3>3
    <2>. QED BY <2>6, <2>7
  <1>. HIDE DEF moves, width, start, steps
  <1>7. c \in 0..(width(i) - 1)
    BY DEF width
  <1>a. \A j \in 1..n : /\ moves[j].at = Offset(layout, j)
                        /\ moves[j].byte = start(j) /\ moves[j].bytes = width(j)
    BY <1>4
  <1>b. i \in DOMAIN moves /\ DOMAIN moves = 1..n /\ DOMAIN moves \in SUBSET Nat
    BY <1>1, <1>4
  <1>8. Reads(moves, start(i) + c) = {moves[i]}
    <2>. DEFINE b == start(i) + c
    <2>1. b \in moves[i].byte .. (moves[i].byte + moves[i].bytes - 1)
      BY <1>2, <1>6, <1>7, <1>a
    <2>2. \A j \in DOMAIN moves \ {i} :
            b \notin moves[j].byte .. (moves[j].byte + moves[j].bytes - 1)
      <3>. TAKE j \in DOMAIN moves \ {i}
      <3>1. j \in (1..n) \ {i}
        BY <1>b
      <3>2. /\ start(i) \in Nat /\ width(i) \in Nat /\ start(j) \in Nat /\ width(j) \in Nat
            /\ start(j) + width(j) <= start(i) \/ start(i) + width(i) <= start(j)
        BY <1>2, <1>6, <3>1
      <3>3. moves[j].byte = start(j) /\ moves[j].bytes = width(j)
        BY <1>a, <3>1
      <3>. HIDE DEF n
      <3>. QED BY <1>7, <3>2, <3>3
    <2>. HIDE DEF b
    <2>3. Reads(moves, b) = {moves[i]}
      BY ONLY <1>b, <2>1, <2>2, OnlyMove
    <2>. QED BY <2>3 DEF b
  <1>9. Writes(moves, Offset(layout, i) + c) = {moves[i]}
    <2>. DEFINE q == Offset(layout, i) + c
    <2>1. q \in moves[i].at .. (moves[i].at + moves[i].bytes - 1)
      BY <1>2, <1>5, <1>7, <1>a
    <2>2. \A j \in DOMAIN moves \ {i} :
            q \notin moves[j].at .. (moves[j].at + moves[j].bytes - 1)
      <3>. TAKE j \in DOMAIN moves \ {i}
      <3>1. j \in (1..n) \ {i}
        BY <1>b
      <3>2. /\ width(i) \in Nat /\ width(j) \in Nat
            /\ width(i) <= steps[i] /\ width(j) <= steps[j]
            /\ steps[i] \in Nat /\ steps[j] \in Nat
        BY <1>2, <1>3, <3>1
      <3>3. /\ Offset(layout, i) \in Nat /\ Offset(layout, j) \in Nat
            /\ \/ Offset(layout, j) + steps[j] <= Offset(layout, i)
               \/ Offset(layout, i) + steps[i] <= Offset(layout, j)
        <4>1. j < i \/ j > i
          BY <1>1, <3>1
        <4>. QED BY <1>5, <3>1, <4>1
      <3>4. moves[j].at = Offset(layout, j) /\ moves[j].bytes = width(j)
        BY <1>a, <3>1
      <3>. HIDE DEF n
      <3>. QED BY <1>7, <3>2, <3>3, <3>4
    <2>. HIDE DEF q
    <2>3. Writes(moves, q) = {moves[i]}
      BY ONLY <1>b, <2>1, <2>2, OnlyWrite
    <2>. QED BY <2>3 DEF q
  <1>10. Total(layout) \in Nat /\ Offset(layout, i) + c < Total(layout)
    BY <1>2, <1>3, <1>5, <1>7
  <1>. QED BY <1>4, <1>5, <1>6, <1>8, <1>9, <1>10 DEF moves, start, width, Moved

(* A field arrives whole if the layouts agree on what is before it, and   *)
(* what can be read of the message goes to its end.                       *)
LEMMA FieldArrives ==
    ASSUME NEW long \in LongSizes, NEW message, Distinct(message.struct),
           NEW fields, Distinct(fields), AllIn(fields, message.struct),
           Proper(long, message.writer, fields), Proper(long, message.reader, fields),
           NEW i \in 1..Len(fields),
           \A j \in 1..(i - 1) : message.writer[j].step = message.reader[j].step,
           NEW k \in Nat \ {0}, NEW sent \in Nat,
           (k - 1) * Total(message.reader) = (k - 1) * Total(message.writer),
           (k - 1) * Total(message.writer) + Offset(message.writer, i)
              + Bytes(long)[fields[i]] <= sent
    PROVE  Leading(long, message, k, sent, fields[i]) = Bytes(long)[fields[i]]
  <1>. DEFINE written == Moves(long, message.struct, message.writer)
              read == Moves(long, message.struct, message.reader)
              start == Address(long, message.struct, fields[i])
              at == Offset(message.writer, i)
              width == Bytes(long)[fields[i]]
              length == Total(message.writer)
  <1>1. width \in Nat \ {0}
    BY Widths DEF Distinct
  <1>2. ASSUME NEW c \in 0..(width - 1)
        PROVE  /\ start \in Nat /\ at \in Nat /\ length \in Nat
               /\ written[i] = [at |-> at, byte |-> start, bytes |-> width]
               /\ Writes(written, at + c) = {written[i]}
               /\ at + c < length
    <2>1. Moved(long, message.struct, message.writer, i, fields[i], c)
      BY ProperMoves
    <2>. QED BY <2>1 DEF Moved
  <1>3. ASSUME NEW c \in 0..(width - 1)
        PROVE  /\ read[i] = [at |-> Offset(message.reader, i), byte |-> start, bytes |-> width]
               /\ Reads(read, start + c) = {read[i]}
    <2>1. Moved(long, message.struct, message.reader, i, fields[i], c)
      BY ProperMoves
    <2>. QED BY <2>1 DEF Moved
  <1>4. Offset(message.reader, i) = at
    <2>. DEFINE f == Steps(message.writer)
                g == Steps(message.reader)
    <2>1. \A j \in 1..(i - 1) : f[j] \in Nat /\ g[j] = f[j]
      BY DEF Proper, Steps
    <2>2. i - 1 \in Nat
      BY DEF Distinct
    <2>3. Upto(f, i - 1) = Upto(g, i - 1)
      <3>. HIDE DEF f, g
      <3>. QED BY <2>1, <2>2, UptoAgrees
    <2>. QED BY <2>3 DEF Offset
  <1>5. ASSUME NEW c \in 0..(width - 1)
        PROVE  Arrives(long, message, k, sent, start + c)
    <2>. DEFINE r == read[i]
                w == written[i]
                x == at + c
                b == start + c
                p == (k - 1) * length
    <2>1. /\ start \in Nat /\ at \in Nat /\ length \in Nat /\ c \in Nat /\ c + 1 <= width
          /\ r = [at |-> at, byte |-> start, bytes |-> width]
          /\ w = [at |-> at, byte |-> start, bytes |-> width]
      BY <1>1, <1>2, <1>3, <1>4
    <2>2. Reads(read, b) = {r} /\ Writes(written, x) = {w} /\ x < length
      BY <1>2, <1>3
    <2>3. p \in Nat
      <3>. HIDE DEF length
      <3>. QED BY <2>1
    <2>4. p + x < sent
      <3>1. p + at + width <= sent
        OBVIOUS
      <3>. HIDE DEF p, at, width
      <3>. QED BY <1>1, <2>1, <2>3, <3>1
    <2>5. /\ x = r.at + (b - r.byte) /\ w.byte + (x - w.at) = b
          /\ x \in 0..(length - 1) /\ r.at \in Nat /\ r.byte \in Nat /\ b \in Nat
      <3>1. x = at + c /\ b = start + c /\ x < length
        BY <2>2
      <3>2. r.at = at /\ r.byte = start /\ w.at = at /\ w.byte = start
        BY <2>1
      <3>. HIDE DEF x, b, r, w, at, start, length
      <3>. QED BY <2>1, <3>1, <3>2
    <2>. HIDE DEF x, b, r, w
    <2>6. Arrives(long, message, k, sent, b)
      BY <2>1, <2>2, <2>4, <2>5, ByteArrives
    <2>. QED BY <2>6 DEF b
  <1>. HIDE DEF start, width
  <1>6. \A c \in 0..(width - 1) : Arrives(long, message, k, sent, start + c)
    BY <1>5
  <1>. QED BY <1>6, WholeField DEF start, width

(* So do all fields of a message whose sides agree.                       *)
LEMMA PlainIsProper ==
    ASSUME NEW long \in LongSizes, NEW fields, Distinct(fields)
    PROVE  Proper(long, Plain(long, fields), fields)
  <1>1. DOMAIN fields = 1..Len(fields) /\ Len(fields) \in Nat
    BY DEF Distinct
  <1>2. \A i \in 1..Len(fields) : Bytes(long)[fields[i]] \in Nat
    BY Widths DEF Distinct
  <1>. QED BY <1>1, <1>2 DEF Proper, Plain, Copy

LEMMA ProperTotal ==
    ASSUME NEW long, NEW fields, Distinct(fields), NEW layout, Proper(long, layout, fields)
    PROVE  Total(layout) \in Nat
  <1>. DEFINE f == Steps(layout)
              n == Len(layout)
  <1>1. n \in Nat /\ \A i \in 1..n : f[i] \in Nat
    BY DEF Proper, Steps, Distinct
  <1>. HIDE DEF f, n
  <1>2. Upto(f, n) \in Nat
    BY <1>1, UptoNext
  <1>. QED BY <1>2 DEF f, n, Total

LEMMA PlainTotal ==
    ASSUME NEW long \in LongSizes, NEW fields, Distinct(fields)
    PROVE  Total(Plain(long, fields)) \in Nat
  BY PlainIsProper, ProperTotal

LEMMA SameArrives ==
    ASSUME NEW long \in LongSizes, NEW struct, Distinct(struct),
           NEW fields, Distinct(fields), AllIn(fields, struct),
           NEW i \in 1..Len(fields), NEW k \in Nat \ {0}, NEW sent \in Nat,
           (k - 1) * Total(Plain(long, fields)) + Offset(Plain(long, fields), i)
              + Bytes(long)[fields[i]] <= sent
    PROVE  fields[i] \in Arriving(long, Same(long, struct, fields), k, sent)
  <1>. DEFINE message == Same(long, struct, fields)
              layout == Plain(long, fields)
  <1>1. message.struct = struct /\ message.writer = layout /\ message.reader = layout
    BY DEF Same, Message
  <1>2. Proper(long, layout, fields)
    BY PlainIsProper
  <1>. HIDE DEF message, layout
  <1>3. Leading(long, message, k, sent, fields[i]) = Bytes(long)[fields[i]]
    BY <1>1, <1>2, FieldArrives DEF layout
  <1>4. PICK j \in 1..Len(struct) : fields[i] = struct[j]
    BY DEF AllIn
  <1>5. DOMAIN struct = 1..Len(struct)
    BY DEF Distinct
  <1>. QED BY <1>1, <1>3, <1>4, <1>5 DEF Arriving, message

(* All of a record that can be read to its end.                           *)
LEMMA RecordArrives ==
    ASSUME NEW long \in LongSizes, NEW struct, Distinct(struct),
           NEW fields, Distinct(fields), AllIn(fields, struct),
           NEW k \in Nat \ {0}, NEW sent \in Nat, k * Total(Plain(long, fields)) <= sent
    PROVE  \A i \in 1..Len(fields) :
             fields[i] \in Arriving(long, Same(long, struct, fields), k, sent)
  <1>. TAKE i \in 1..Len(fields)
  <1>. DEFINE layout == Plain(long, fields)
              width == Bytes(long)[fields[i]]
              at == Offset(layout, i)
              length == Total(layout)
  <1>1. Proper(long, layout, fields)
    BY PlainIsProper
  <1>2. width \in Nat \ {0}
    BY Widths DEF Distinct
  <1>3. Moved(long, struct, layout, i, fields[i], width - 1)
    <2>1. width - 1 \in 0..(width - 1)
      BY <1>2
    <2>. HIDE DEF layout
    <2>. QED BY <1>1, <2>1, ProperMoves
  <1>4. at \in Nat /\ length \in Nat /\ at + (width - 1) < length
    BY <1>3 DEF Moved
  <1>5. (k - 1) * length + at + width <= sent
    <2>1. k * length <= sent
      OBVIOUS
    <2>. HIDE DEF length, at, width
    <2>2. (k - 1) * length = k * length - length /\ k * length \in Nat
      BY <1>4
    <2>. QED BY <1>2, <1>4, <2>1, <2>2
  <1>. QED BY <1>5, SameArrives

(* All of a single message.                                               *)
LEMMA MessageArrives ==
    ASSUME NEW long \in LongSizes, NEW struct, Distinct(struct),
           NEW fields, Distinct(fields), AllIn(fields, struct), AllIn(struct, fields),
           NEW sent \in Nat, Total(Plain(long, fields)) <= sent
    PROVE  Fields(Same(long, struct, fields))
             \subseteq Arriving(long, Same(long, struct, fields), 1, sent)
  <1>1. Total(Plain(long, fields)) \in Nat
    BY PlainTotal
  <1>2. 1 * Total(Plain(long, fields)) <= sent
    <2>. DEFINE t == Total(Plain(long, fields))
    <2>. HIDE DEF t
    <2>. QED BY <1>1 DEF t
  <1>3. \A i \in 1..Len(fields) :
          fields[i] \in Arriving(long, Same(long, struct, fields), 1, sent)
    BY <1>2, RecordArrives
  <1>4. Fields(Same(long, struct, fields)) = {struct[i] : i \in 1..Len(struct)}
    BY DEF Fields, Same, Message, Distinct
  <1>. QED BY <1>3, <1>4 DEF AllIn

LEMMA NothingLost ==
    ASSUME NEW long \in LongSizes, NEW struct, Distinct(struct),
           NEW fields, Distinct(fields), AllIn(fields, struct), AllIn(struct, fields)
    PROVE  Lost(long, Same(long, struct, fields)) = {}
  <1>. DEFINE t == Total(Plain(long, fields))
  <1>1. t \in Nat /\ t <= t
    BY PlainTotal
  <1>2. WholeMessage(Same(long, struct, fields)) = t
    BY DEF WholeMessage, Same, Message
  <1>. QED BY <1>1, <1>2, MessageArrives DEF Lost

-----------------------------------------------------------------------------
(* The messages.                                                          *)

(* The structs of which both sides copy the fields in memory order.        *)
LEMMA Structs ==
    /\ Distinct(<<"opCode", "total_objects", "user", "passwd">>)
    /\ Distinct(<<"user", "passwd">>)
    /\ Distinct(<<"gen">>)
    /\ Distinct(<<"ticket">>)
    /\ Distinct(<<"movie_name", "pay_name", "pay_user", "pay_passwd">>)
    /\ Distinct(<<"ret_code">>)
    /\ Distinct(<<"ret_code", "ticket">>)
    /\ Distinct(<<"n_packet", "total_packets", "title", "size">>)
    /\ Distinct(<<"server", "host", "port", "key", "TTL">>)
  BY DEF Distinct, FieldNames, Bytes

LEMMA InOrderNothingLost ==
    ASSUME NEW long \in LongSizes, NEW fields, Distinct(fields)
    PROVE  Lost(long, Same(long, fields, fields)) = {}
  <1>1. AllIn(fields, fields)
    BY DEF AllIn
  <1>. QED BY <1>1, NothingLost

LEMMA NothingLostOf ==
    ASSUME NEW long \in LongSizes
    PROVE  \A m \in {Header(long), Login(long), ListMovies(long), Request(long), Buy(long),
                  Ack(long), BuyTicket(long), Gens(long), Packet(long), Location(long)} :
             Lost(long, m) = {}
  <1>1. Lost(long, Header(long)) = {}
    BY Structs, InOrderNothingLost DEF Header
  <1>2. Lost(long, Login(long)) = {}
    BY Structs, InOrderNothingLost DEF Login
  <1>3. Lost(long, ListMovies(long)) = {} /\ Lost(long, Gens(long)) = {}
    BY Structs, InOrderNothingLost DEF ListMovies, Gens
  <1>4. Lost(long, Request(long)) = {}
    BY Structs, InOrderNothingLost DEF Request
  <1>5. Lost(long, Buy(long)) = {}
    BY Structs, InOrderNothingLost DEF Buy
  <1>6. Lost(long, Ack(long)) = {}
    BY Structs, InOrderNothingLost DEF Ack
  <1>7. Lost(long, BuyTicket(long)) = {}
    BY Structs, InOrderNothingLost DEF BuyTicket
  <1>8. Lost(long, Packet(long)) = {}
    BY Structs, InOrderNothingLost DEF Packet
  <1>9. Lost(long, Location(long)) = {}
    BY Structs, InOrderNothingLost DEF Location
  <1>. QED BY <1>1, <1>2, <1>3, <1>4, <1>5, <1>6, <1>7, <1>8, <1>9

(* The fields of a new user are sent in another order than they have in   *)
(* memory.                                                                *)
LEMMA NewUserLosesNothing ==
    ASSUME NEW long \in LongSizes
    PROVE  Lost(long, NewUser(long)) = {}
  <1>. DEFINE struct == <<"user", "passwd", "desc", "mail", "level">>
              fields == <<"user", "passwd", "mail", "desc", "level">>
  <1>1. Distinct(struct) /\ Distinct(fields)
    BY DEF Distinct, FieldNames, Bytes
  <1>2. AllIn(fields, struct) /\ AllIn(struct, fields)
    BY DEF AllIn
  <1>. HIDE DEF struct, fields
  <1>3. Lost(long, Same(long, struct, fields)) = {}
    BY <1>1, <1>2, NothingLost
  <1>. QED BY <1>3 DEF NewUser, struct, fields

(* The start of a download: the second copy of the port is twice as long. *)
DownloadMoves ==
  <<[at |-> 0, byte |-> 0, bytes |-> 20], [at |-> 20, byte |-> 20, bytes |-> 10],
    [at |-> 30, byte |-> 20, bytes |-> 20]>>

LEMMA StartMoves ==
    ASSUME NEW long \in LongSizes
    PROVE  LET start == DownloadStart(long) IN
           /\ Moves(long, start.struct, start.writer) = DownloadMoves
           /\ Moves(long, start.struct, start.reader) = DownloadMoves
           /\ Total(start.writer) = 50 /\ Total(start.reader) = 50
           /\ Address(long, start.struct, "ip") = 0
           /\ Address(long, start.struct, "port") = 20
           /\ Address(long, start.struct, "ticket") = 30
  <1>. DEFINE start == DownloadStart(long)
              f == Steps(start.writer)
              struct == <<"ip", "port", "ticket">>
              g == Wide(long, struct)
  <1>1. /\ f = <<20, 10, 20>> /\ start.reader = start.writer /\ start.struct = struct
        /\ start.writer = <<Copy("ip", 20, 20), Copy("port", 10, 10), Copy("port", 20, 20)>>
    BY DEF DownloadStart, Message, Steps, Copy
  <1>2. g = <<20, 10, 20>>
    BY DEF Wide, Bytes
  <1>3. Distinct(struct)
    BY DEF Distinct, FieldNames, Bytes
  <1>4. ASSUME NEW h, h = <<20, 10, 20>>
        PROVE  Upto(h, 0) = 0 /\ Upto(h, 1) = 20 /\ Upto(h, 2) = 30 /\ Upto(h, 3) = 50
    <2>1. h[1] = 20 /\ h[2] = 10 /\ h[3] = 20 /\ \A i \in 1..3 : h[i] \in Nat
      BY <1>4
    <2>2. Upto(h, 0) = 0
      BY UptoNext
    <2>3. Upto(h, 1) = Upto(h, 0) + 20
      BY <2>1, UptoNext
    <2>4. Upto(h, 2) = Upto(h, 1) + 10
      BY <2>1, UptoNext
    <2>5. Upto(h, 3) = Upto(h, 2) + 20
      BY <2>1, UptoNext
    <2>. QED BY <2>2, <2>3, <2>4, <2>5
  <1>5. /\ Offset(start.writer, 1) = 0 /\ Offset(start.writer, 2) = 20
        /\ Offset(start.writer, 3) = 30
    <2>1. Upto(f, 0) = 0 /\ Upto(f, 1) = 20 /\ Upto(f, 2) = 30
      BY <1>1, <1>4
    <2>. QED BY <2>1 DEF Offset
  <1>6. Total(start.writer) = 50
    <2>1. Upto(f, 3) = 50
      BY <1>1, <1>4
    <2>2. Len(start.writer) = 3
      BY <1>1
    <2>. QED BY <2>1, <2>2 DEF Total
  <1>7. /\ Address(long, struct, "ip") = 0 /\ Address(long, struct, "port") = 20
        /\ Address(long, struct, "ticket") = 30
    <2>1. Upto(g, 0) = 0 /\ Upto(g, 1) = 20 /\ Upto(g, 2) = 30
      <3>. HIDE DEF g
      <3>. QED BY <1>2, <1>4
    <2>2. \A i \in 1..3 : Address(long, struct, struct[i]) = Upto(g, i - 1)
      <3>1. Len(struct) = 3
        OBVIOUS
      <3>. HIDE DEF struct
      <3>. QED BY <1>3, <3>1, Addresses
    <2>3. struct[1] = "ip" /\ struct[2] = "port" /\ struct[3] = "ticket"
      OBVIOUS
    <2>. HIDE DEF struct, g
    <2>. QED BY <2>1, <2>2, <2>3
  <1>8. Moves(long, struct, start.writer) = DownloadMoves
    <2>. DEFINE w == start.writer
    <2>1. /\ DOMAIN w = 1..3
          /\ w[1].field = "ip" /\ w[2].field = "port" /\ w[3].field = "port"
          /\ w[1].bytes = 20 /\ w[2].bytes = 10 /\ w[3].bytes = 20
      BY <1>1 DEF Copy
    <2>2. \A i \in 1..3 : Moves(long, struct, w)[i] = DownloadMoves[i]
      <3>. HIDE DEF w, struct
      <3>1. \A i \in 1..3 : Moves(long, struct, w)[i] =
              [at |-> Offset(w, i), byte |-> Address(long, struct, w[i].field),
               bytes |-> w[i].bytes]
        BY <2>1 DEF Moves
      <3>2. Offset(w, 1) = 0 /\ Offset(w, 2) = 20 /\ Offset(w, 3) = 30
        BY <1>5 DEF w
      <3>. QED BY <1>7, <2>1, <3>1, <3>2 DEF DownloadMoves
    <2>. DEFINE moves == Moves(long, struct, w)
    <2>3. moves = [i \in 1..3 |-> moves[i]]
      <3>. HIDE DEF w, struct
      <3>. QED BY <2>1 DEF Moves
    <2>4. DownloadMoves = [i \in 1..3 |-> DownloadMoves[i]]
      BY DEF DownloadMoves
    <2>. HIDE DEF moves
    <2>. QED BY <2>2, <2>3, <2>4 DEF moves
  <1>. HIDE DEF start, struct
  <1>. QED BY <1>1, <1>6, <1>7, <1>8 DEF start

(* Which of the moves counts for a byte of the struct and of the message. *)
LEMMA StartBytes ==
    /\ \A b \in 0..19 : Reads(DownloadMoves, b) = {DownloadMoves[1]}
    /\ \A b \in 20..39 : Reads(DownloadMoves, b) = {DownloadMoves[3]}
    /\ \A b \in 40..49 : Reads(DownloadMoves, b) = {}
    /\ \A q \in 0..19 : Writes(DownloadMoves, q) = {DownloadMoves[1]}
    /\ \A q \in 30..49 : Writes(DownloadMoves, q) = {DownloadMoves[3]}
  <1>. DEFINE m == DownloadMoves
              Reading(b) == {i \in DOMAIN m : b \in m[i].byte .. (m[i].byte + m[i].bytes - 1)}
              Writing(q) == {i \in DOMAIN m : q \in m[i].at .. (m[i].at + m[i].bytes - 1)}
  <1>1. /\ DOMAIN m = {1, 2, 3}
        /\ m[1].at = 0 /\ m[1].byte = 0 /\ m[1].bytes = 20
        /\ m[2].at = 20 /\ m[2].byte = 20 /\ m[2].bytes = 10
        /\ m[3].at = 30 /\ m[3].byte = 20 /\ m[3].bytes = 20
    BY DEF DownloadMoves
  <1>. HIDE DEF m
  <1>2. /\ \A b \in 0..19 : Reading(b) = {1}
        /\ \A b \in 20..29 : Reading(b) = {2, 3}
        /\ \A b \in 30..39 : Reading(b) = {3}
        /\ \A b \in 40..49 : Reading(b) = {}
    BY <1>1
  <1>3. /\ \A q \in 0..19 : Writing(q) = {1}
        /\ \A q \in 30..49 : Writing(q) = {3}
    BY <1>1
  <1>4. (\A b : Reads(m, b) = LastOf(m, Reading(b))) /\ \A q : Writes(m, q) = LastOf(m, Writing(q))
    BY DEF Reads, Writes
  <1>5. LastOf(m, {2, 3}) = {m[3]}
    <2>1. Max({2, 3}) = 3
      BY DEF Max
    <2>. QED BY <2>1 DEF LastOf
  <1>6. LastOf(m, {1}) = {m[1]} /\ LastOf(m, {3}) = {m[3]} /\ LastOf(m, {}) = {}
    BY LastOfOne DEF LastOf
  <1>7. \A b \in 20..39 : b \in 20..29 \/ b \in 30..39
    OBVIOUS
  <1>. HIDE DEF Reading, Writing
  <1>8. /\ \A b \in 0..19 : Reads(m, b) = {m[1]}
        /\ \A b \in 40..49 : Reads(m, b) = {}
    BY <1>2, <1>4, <1>6
  <1>9. \A b \in 20..39 : Reads(m, b) = {m[3]}
    BY <1>2, <1>4, <1>5, <1>6, <1>7
  <1>10. /\ \A q \in 0..19 : Writes(m, q) = {m[1]}
         /\ \A q \in 30..49 : Writes(m, q) = {m[3]}
    BY <1>3, <1>4, <1>6
  <1>. QED BY <1>8, <1>9, <1>10, Zenon DEF m

(* Of the ticket the last ten bytes are never read.                       *)
LEMMA StartArrives ==
    ASSUME NEW long \in LongSizes
    PROVE  LET start == DownloadStart(long) IN
           /\ Leading(long, start, 1, 50, "ip") = 20
           /\ Leading(long, start, 1, 50, "port") = 10
           /\ Leading(long, start, 1, 50, "ticket") = 10
  <1>. DEFINE start == DownloadStart(long)
              m == DownloadMoves
  <1>1. /\ Moves(long, start.struct, start.writer) = m
        /\ Moves(long, start.struct, start.reader) = m
        /\ Total(start.writer) = 50 /\ Total(start.reader) = 50
        /\ Address(long, start.struct, "ip") = 0
        /\ Address(long, start.struct, "port") = 20
        /\ Address(long, start.struct, "ticket") = 30
    BY StartMoves
  <1>2. Bytes(long)["ip"] = 20 /\ Bytes(long)["port"] = 10 /\ Bytes(long)["ticket"] = 20
    BY DEF Bytes
  <1>3. /\ m[1].at = 0 /\ m[1].byte = 0 /\ m[3].at = 30 /\ m[3].byte = 20
    BY DEF DownloadMoves
  <1>. HIDE DEF start, m
  <1>4. ASSUME NEW b \in 0..39
        PROVE  Arrives(long, start, 1, 50, b)
    <2>1. CASE b \in 0..19
      <3>1. Reads(m, b) = {m[1]} /\ Writes(m, b) = {m[1]}
        BY <2>1, StartBytes DEF m
      <3>2. /\ b = m[1].at + (b - m[1].byte) /\ m[1].byte + (b - m[1].at) = b
            /\ b \in 0..(Total(start.writer) - 1) /\ b < 50 /\ b \in Nat /\ 50 \in Nat
            /\ Total(start.writer) \in Nat /\ Total(start.reader) \in Nat
            /\ m[1].at \in Nat /\ m[1].byte \in Nat
        BY <1>1, <1>3, <2>1
      <3>3. /\ Reads(Moves(long, start.struct, start.reader), b) = {m[1]}
            /\ Writes(Moves(long, start.struct, start.writer), b) = {m[1]}
        BY <1>1, <3>1
      <3>. QED BY ONLY <3>2, <3>3, FirstByteArrives
    <2>2. CASE b \in 20..39
      <3>. DEFINE q == b + 10
      <3>1. q \in 30..49
        BY <2>2
      <3>2. Reads(m, b) = {m[3]} /\ Writes(m, q) = {m[3]}
        BY <2>2, <3>1, StartBytes DEF m
      <3>3. /\ q = m[3].at + (b - m[3].byte) /\ m[3].byte + (q - m[3].at) = b
            /\ q \in 0..(Total(start.writer) - 1) /\ q < 50 /\ b \in Nat /\ 50 \in Nat
            /\ Total(start.writer) \in Nat /\ Total(start.reader) \in Nat
            /\ m[3].at \in Nat /\ m[3].byte \in Nat
        BY <1>1, <1>3, <3>1
      <3>4. /\ Reads(Moves(long, start.struct, start.reader), b) = {m[3]}
            /\ Writes(Moves(long, start.struct, start.writer), q) = {m[3]}
        BY <1>1, <3>2
      <3>. HIDE DEF q
      <3>. QED BY ONLY <3>3, <3>4, FirstByteArrives
    <2>. QED BY <2>1, <2>2
  <1>5. Leading(long, start, 1, 50, "ip") = 20
    <2>1. \A b \in 0..(20 - 1) : Arrives(long, start, 1, 50, 0 + b)
      BY <1>4
    <2>. QED BY <1>1, <1>2, <2>1, WholeField
  <1>6. Leading(long, start, 1, 50, "port") = 10
    <2>1. \A b \in 0..(10 - 1) : Arrives(long, start, 1, 50, 20 + b)
      BY <1>4
    <2>. QED BY <1>1, <1>2, <2>1, WholeField
  <1>7. Leading(long, start, 1, 50, "ticket") = 10
    <2>. DEFINE missing == {b \in 0..(20 - 1) : ~Arrives(long, start, 1, 50, 30 + b)}
    <2>1. Leading(long, start, 1, 50, "ticket") = IF missing = {} THEN 20 ELSE Min(missing)
      BY <1>1, <1>2, LeadingCounts
    <2>2. \A b \in 0..9 : b \notin missing
      BY <1>4
    <2>3. \A b \in 10..19 : b \in missing
      <3>. TAKE b \in 10..19
      <3>1. Reads(m, 30 + b) = {}
        BY StartBytes DEF m
      <3>2. ~Arrives(long, start, 1, 50, 30 + b)
        BY <1>1, <3>1 DEF Arrives
      <3>. QED BY <3>2
    <2>4. missing = 10..19
      <3>1. \A b \in missing : b \in 0..9 \/ b \in 10..19
        OBVIOUS
      <3>. HIDE DEF missing
      <3>. QED BY <2>2, <2>3, <3>1
    <2>5. Min(10..19) = 10
      BY DEF Min
    <2>6. 10 \in 10..19
      OBVIOUS
    <2>. HIDE DEF missing
    <2>. QED BY <2>1, <2>4, <2>5, <2>6
  <1>. QED BY <1>5, <1>6, <1>7 DEF start

LEMMA StartLosesTheTicket ==
    ASSUME NEW long \in LongSizes
    PROVE  Lost(long, DownloadStart(long)) \subseteq {"ticket"} /\ TicketBytes[long] = 10
  <1>. DEFINE start == DownloadStart(long)
  <1>1. WholeMessage(start) = 50
    BY StartMoves DEF WholeMessage
  <1>2. Fields(start) = {"ip", "port", "ticket"} /\ start.struct = <<"ip", "port", "ticket">>
    BY DEF Fields, DownloadStart, Message
  <1>3. {"ip", "port"} \subseteq Arriving(long, start, 1, 50)
    <2>1. Bytes(long)["ip"] = 20 /\ Bytes(long)["port"] = 10
      BY DEF Bytes
    <2>2. /\ Leading(long, start, 1, 50, "ip") = 20
          /\ Leading(long, start, 1, 50, "port") = 10
      BY StartArrives
    <2>3. {"ip", "port"} \subseteq {start.struct[i] : i \in DOMAIN start.struct}
      BY <1>2
    <2>. HIDE DEF start
    <2>. QED BY <2>1, <2>2, <2>3 DEF Arriving
  <1>4. TicketBytes[long] = 10
    BY <1>1, StartArrives DEF TicketBytes
  <1>. HIDE DEF start
  <1>. QED BY <1>1, <1>2, <1>3, <1>4 DEF Lost, start

(* What a terminal asks for, and what it is answered.                     *)
LEMMA RequestsArrive ==
    ASSUME NEW long \in LongSizes, NEW op \in Ops
    PROVE  /\ Losses[long][op] \subseteq {"ticket"}
           /\ "ticket" \in Losses[long][op] => op = "start" /\ TicketBytes[long] = 10
  <1>1. Losses[long][op] = UNION {Lost(long, m) : m \in Messages(long, op)}
    BY DEF Losses
  <1>2. /\ Lost(long, Header(long)) = {} /\ Lost(long, Login(long)) = {}
        /\ Lost(long, Buy(long)) = {} /\ Lost(long, Request(long)) = {}
        /\ Lost(long, ListMovies(long)) = {} /\ Lost(long, NewUser(long)) = {}
    BY NothingLostOf, NewUserLosesNothing
  <1>3. op # "start" => Messages(long, op) \subseteq
          {Header(long), Login(long), NewUser(long), Buy(long), Request(long), ListMovies(long)}
    BY DEF Ops, Lists, Messages
  <1>4. op = "start" => Messages(long, op) = {Header(long), DownloadStart(long)}
    BY DEF Messages
  <1>5. op # "start" => Losses[long][op] = {}
    BY <1>1, <1>2, <1>3
  <1>6. op = "start" => Losses[long][op] \subseteq {"ticket"}
    BY <1>1, <1>2, <1>4, StartLosesTheTicket
  <1>. QED BY <1>5, <1>6, StartLosesTheTicket

LEMMA AnswersArrive ==
    ASSUME NEW long \in LongSizes
    PROVE  AnswersLost[long] = {}
  <1>1. \A m \in {Header(long), Ack(long), BuyTicket(long), Gens(long), Packet(long),
                  Location(long)} : Lost(long, m) = {}
    BY NothingLostOf
  <1>. QED BY <1>1 DEF AnswersLost

(* The cyphered messages, which are sent with their padding.              *)
LEMMA PaddingIsEnough ==
    ASSUME NEW size \in Nat
    PROVE  WholeBlocks(Padded(size)) \in Nat /\ size <= WholeBlocks(Padded(size))
  <1>1. Padded(size) \in Nat /\ Padded(size) % 8 = 0 /\ size <= Padded(size)
    BY DEF Padded, Block
  <1>. QED BY <1>1 DEF WholeBlocks, Block

LEMMA CypheredArrive ==
    ASSUME NEW long \in LongSizes
    PROVE  CypheredLost[long] = {}
  <1>1. ASSUME NEW fields, Distinct(fields)
        PROVE  LET message == Same(long, fields, fields) IN
               Fields(message) \subseteq
                 Arriving(long, message, 1, WholeBlocks(Padded(Total(message.writer))))
    <2>. DEFINE message == Same(long, fields, fields)
                size == Total(message.writer)
                sent == WholeBlocks(Padded(size))
    <2>1. message.writer = Plain(long, fields)
      BY DEF Same, Message
    <2>2. size \in Nat
      BY <1>1, <2>1, PlainTotal
    <2>3. sent \in Nat /\ size <= sent
      <3>. HIDE DEF size
      <3>. QED BY <2>2, PaddingIsEnough
    <2>4. AllIn(fields, fields)
      BY DEF AllIn
    <2>. HIDE DEF sent
    <2>5. Total(Plain(long, fields)) <= sent
      BY <2>1, <2>3
    <2>6. Fields(Same(long, fields, fields))
             \subseteq Arriving(long, Same(long, fields, fields), 1, sent)
      BY <1>1, <2>3, <2>4, <2>5, MessageArrives
    <2>. QED BY <2>6 DEF sent
  <1>2. Fields(Buy(long)) \subseteq Arriving(long, Buy(long), 1, BuySent(long))
    BY <1>1, Structs DEF Buy, BuySent
  <1>3. Fields(Login(long)) \subseteq Arriving(long, Login(long), 1, PasswordSent(long))
    BY <1>1, Structs DEF Login, PasswordSent
  <1>. QED BY <1>2, <1>3 DEF CypheredLost

(* Messages of which the sides do not agree.                              *)
LEMMA AgreedArrives ==
    ASSUME NEW long \in LongSizes, NEW message, Distinct(message.struct),
           Proper(long, message.writer, message.struct),
           Proper(long, message.reader, message.struct),
           NEW i \in 1..Len(message.struct),
           \A j \in 1..(i - 1) : message.writer[j].step = message.reader[j].step,
           NEW k \in Nat \ {0}, NEW sent \in Nat,
           (k - 1) * Total(message.reader) = (k - 1) * Total(message.writer),
           k * Total(message.writer) <= sent
    PROVE  message.struct[i] \in Arriving(long, message, k, sent)
  <1>. DEFINE fields == message.struct
              layout == message.writer
              width == Bytes(long)[fields[i]]
              at == Offset(layout, i)
              length == Total(layout)
  <1>0. AllIn(fields, fields)
    BY DEF AllIn
  <1>1. width \in Nat \ {0}
    BY Widths DEF Distinct
  <1>2. Moved(long, fields, layout, i, fields[i], width - 1)
    <2>1. width - 1 \in 0..(width - 1)
      BY <1>1
    <2>. HIDE DEF layout
    <2>. QED BY <1>0, <2>1, ProperMoves DEF layout
  <1>3. at \in Nat /\ length \in Nat /\ at + (width - 1) < length
    BY <1>2 DEF Moved
  <1>4. (k - 1) * length + at + width <= sent
    <2>1. k * length <= sent
      OBVIOUS
    <2>. HIDE DEF length, at, width
    <2>2. (k - 1) * length = k * length - length /\ k * length \in Nat
      BY <1>3
    <2>. QED BY <1>1, <1>3, <2>1, <2>2
  <1>5. Leading(long, message, k, sent, fields[i]) = Bytes(long)[fields[i]]
    BY <1>0, <1>4, FieldArrives
  <1>6. DOMAIN message.struct = 1..Len(message.struct)
    BY DEF Distinct
  <1>. QED BY <1>5, <1>6 DEF Arriving

(* What the sides agree on arrives of the first record.                   *)
LEMMA FirstAgreed ==
    ASSUME NEW long \in LongSizes, NEW message, Distinct(message.struct),
           Proper(long, message.writer, message.struct),
           Proper(long, message.reader, message.struct),
           NEW i \in 1..Len(message.struct),
           \A j \in 1..(i - 1) : message.writer[j].step = message.reader[j].step,
           NEW sent \in Nat, Total(message.writer) <= sent
    PROVE  message.struct[i] \in Arriving(long, message, 1, sent)
  <1>. DEFINE k == 1
              length == Total(message.writer)
              step == Total(message.reader)
  <1>1. length \in Nat /\ step \in Nat
    BY ProperTotal
  <1>2. k \in Nat \ {0} /\ (k - 1) * step = (k - 1) * length /\ k * length <= sent
    <2>1. length <= sent
      OBVIOUS
    <2>. HIDE DEF length, step
    <2>. QED BY <1>1, <2>1
  <1>. HIDE DEF k
  <1>3. message.struct[i] \in Arriving(long, message, k, sent)
    BY <1>2, AgreedArrives
  <1>. QED BY <1>3 DEF k

(* One longer step.                                                       *)
Stepping(layout, i, step) == [layout EXCEPT ![i].step = step]

LEMMA StepIsProper ==
    ASSUME NEW long \in LongSizes, NEW fields, Distinct(fields),
           NEW i \in 1..Len(fields), NEW step \in Nat, Bytes(long)[fields[i]] <= step,
           NEW plain, plain = Plain(long, fields),
           NEW longer, longer = Stepping(plain, i, step)
    PROVE  /\ Proper(long, longer, fields) /\ longer[i].step = step
           /\ \A j \in (1..Len(fields)) \ {i} : longer[j].step = plain[j].step
  <1>1. /\ DOMAIN plain = 1..Len(fields) /\ Len(plain) = Len(fields) /\ Len(fields) \in Nat
        /\ \A j \in 1..Len(fields) :
             /\ plain[j].field = fields[j] /\ plain[j].bytes = Bytes(long)[fields[j]]
             /\ plain[j].step \in Nat /\ plain[j].bytes <= plain[j].step
             /\ plain[j] = [field |-> plain[j].field, bytes |-> plain[j].bytes,
                            step |-> plain[j].step]
    <2>1. Proper(long, plain, fields) /\ Len(fields) \in Nat
      BY PlainIsProper DEF Distinct
    <2>2. DOMAIN fields = 1..Len(fields)
      BY DEF Distinct
    <2>. QED BY <2>1, <2>2 DEF Proper, Plain, Copy
  <1>2. DOMAIN longer = 1..Len(fields) /\ Len(longer) = Len(fields)
    <2>1. longer = [j \in 1..Len(fields) |-> IF j = i THEN [plain[i] EXCEPT !.step = step]
                                                      ELSE plain[j]]
      BY <1>1 DEF Stepping
    <2>. QED BY <1>1, <2>1
  <1>3. \A j \in (1..Len(fields)) \ {i} : longer[j] = plain[j]
    BY <1>1 DEF Stepping
  <1>4. longer[i] = [field |-> plain[i].field, bytes |-> plain[i].bytes, step |-> step]
    BY <1>1 DEF Stepping
  <1>5. plain[i].bytes <= step
    BY <1>1
  <1>6. Proper(long, longer, fields)
    <2>1. \A j \in 1..Len(fields) :
            /\ longer[j].field = fields[j] /\ longer[j].bytes = Bytes(long)[fields[j]]
            /\ longer[j].step \in Nat /\ longer[j].bytes <= longer[j].step
      BY <1>1, <1>3, <1>4, <1>5
    <2>. QED BY <1>2, <2>1 DEF Proper
  <1>. QED BY <1>3, <1>4, <1>6

(* The header of a download: the writer's path has two bytes behind it.   *)
LEMMA DownloadHeaderArrives ==
    ASSUME NEW long \in LongSizes
    PROVE  DownloadHeaderLost[long] \subseteq {"total_packets", "size"}
  <1>. DEFINE fields == <<"status", "title", "path", "total_packets", "size">>
              message == DownloadHeader(long)
              writer == message.writer
              reader == message.reader
  <1>1. Distinct(fields) /\ Len(fields) = 5 /\ fields[3] = "path"
    BY DEF Distinct, FieldNames, Bytes
  <1>2. Bytes(long)["path"] = 4096
    BY DEF Bytes
  <1>3. /\ message.struct = fields /\ reader = Plain(long, fields)
        /\ writer = [Plain(long, fields) EXCEPT ![3].step = 4096 + 2]
    <2>1. Len(fields) = 5
      OBVIOUS
    <2>. QED BY DEF DownloadHeader, Message
  <1>4. fields[1] = "status" /\ fields[2] = "title"
        /\ DOMAIN fields = 1..5
        /\ fields[4] = "total_packets" /\ fields[5] = "size"
    OBVIOUS
  <1>. HIDE DEF fields
  <1>a. Total(message.writer) = WholeMessage(message)
    BY DEF WholeMessage
  <1>b. message.struct = fields /\ reader = Plain(long, fields)
    BY <1>3
  <1>c. Distinct(fields)
    BY <1>1
  <1>. HIDE DEF message, writer, reader
  <1>5. Proper(long, writer, fields) /\ \A j \in 1..(3 - 1) : writer[j].step = reader[j].step
    <2>. DEFINE i == 3
                step == 4096 + 2
    <2>1. /\ i \in 1..Len(fields) /\ step \in Nat /\ Bytes(long)[fields[i]] <= step
          /\ writer = Stepping(reader, i, step)
      BY <1>1, <1>2, <1>3 DEF Stepping
    <2>. HIDE DEF i, step
    <2>2. /\ Proper(long, writer, fields)
          /\ \A j \in (1..Len(fields)) \ {i} : writer[j].step = reader[j].step
      BY <1>b, <1>c, <2>1, StepIsProper
    <2>. QED BY <1>1, <2>2 DEF i
  <1>6. Proper(long, reader, fields)
    BY <1>1, <1>3, PlainIsProper
  <1>7. ASSUME NEW i \in 1..3
        PROVE  fields[i] \in Arriving(long, message, 1, WholeMessage(message))
    <2>1. i \in 1..Len(fields) /\ \A j \in 1..(i - 1) : writer[j].step = reader[j].step
      BY <1>1, <1>5
    <2>2. /\ Distinct(message.struct) /\ i \in 1..Len(message.struct)
          /\ Proper(long, message.writer, message.struct)
          /\ Proper(long, message.reader, message.struct)
          /\ \A j \in 1..(i - 1) : message.writer[j].step = message.reader[j].step
      BY <1>b, <1>c, <1>5, <1>6, <2>1 DEF writer, reader
    <2>3. Total(message.writer) \in Nat
      BY <2>2, ProperTotal
    <2>4. Total(message.writer) <= Total(message.writer)
      BY <2>3
    <2>5. message.struct[i] \in Arriving(long, message, 1, Total(message.writer))
      BY <2>2, <2>3, <2>4, FirstAgreed
    <2>. QED BY <1>a, <1>b, <2>5
  <1>8. {"status", "title", "path"} \subseteq Arriving(long, message, 1, WholeMessage(message))
    BY <1>1, <1>4, <1>7
  <1>9. Fields(message) \subseteq {"status", "title", "path", "total_packets", "size"}
    BY <1>1, <1>3, <1>4 DEF Fields
  <1>. QED BY <1>8, <1>9 DEF DownloadHeaderLost, Lost, message

(* A list of movies: where a float was written a u_size is stepped over.  *)
LEMMA MoviesArrive ==
    ASSUME NEW long \in LongSizes, NEW k \in 1..3, long = 4 \/ k = 1
    PROVE  {"name", "gen", "plot", "duration", "value"} \subseteq Decoded[long][k]
  <1>. DEFINE fields == <<"name", "gen", "plot", "duration", "size", "value", "MD5">>
              message == Movies(long)
              writer == message.writer
              reader == message.reader
              sent == 3 * WholeMessage(message)
  <1>1. Distinct(fields) /\ Len(fields) = 7
    BY DEF Distinct, FieldNames, Bytes
  <1>2. /\ fields[1] = "name" /\ fields[2] = "gen" /\ fields[3] = "plot"
        /\ fields[4] = "duration" /\ fields[6] = "value"
    OBVIOUS
  <1>3. message.struct = fields /\ writer = Plain(long, fields)
    BY DEF Movies, Message
  <1>4. reader = Stepping(writer, 6, long)
    BY DEF Movies, Message, Stepping
  <1>5. long \in Nat /\ Bytes(long)["value"] = 4 /\ 4 <= long
    BY DEF Bytes, LongSizes
  <1>6. Distinct(fields)
    BY <1>1
  <1>7. sent = 3 * Total(message.writer)
    BY DEF WholeMessage
  <1>. HIDE DEF fields, message, writer, reader, sent
  <1>8. Proper(long, writer, fields)
    BY <1>3, <1>6, PlainIsProper
  <1>9. /\ Proper(long, reader, fields)
        /\ \A j \in (1..Len(fields)) \ {6} : reader[j].step = writer[j].step
        /\ long = 4 => reader[6].step = writer[6].step
    <2>. DEFINE i == 6
    <2>1. /\ i \in 1..Len(fields) /\ Bytes(long)[fields[i]] <= long
          /\ reader = Stepping(writer, i, long)
      BY <1>1, <1>2, <1>4, <1>5
    <2>. HIDE DEF i
    <2>2. /\ Proper(long, reader, fields) /\ reader[i].step = long
          /\ \A j \in (1..Len(fields)) \ {i} : reader[j].step = writer[j].step
      BY <1>3, <1>5, <1>6, <2>1, StepIsProper
    <2>3. writer[i].step = Bytes(long)[fields[i]]
      <3>1. DOMAIN fields = 1..Len(fields)
        BY <1>6 DEF Distinct
      <3>2. Plain(long, fields)[i].step = Bytes(long)[fields[i]]
        BY <2>1, <3>1 DEF Plain, Copy
      <3>. QED BY <1>3, <3>2
    <2>4. long = 4 => reader[i].step = writer[i].step
      BY <1>2, <1>5, <2>2, <2>3 DEF i
    <2>. QED BY <2>2, <2>4 DEF i
  <1>a. /\ Distinct(message.struct)
        /\ Proper(long, message.writer, message.struct)
        /\ Proper(long, message.reader, message.struct)
        /\ Len(message.struct) = 7
    BY <1>1, <1>3, <1>6, <1>8, <1>9 DEF writer, reader
  <1>b. \A j \in (1..7) \ {6} : message.reader[j].step = message.writer[j].step
    BY <1>1, <1>9 DEF writer, reader
  <1>c. Total(message.writer) \in Nat /\ Total(message.reader) \in Nat
    BY <1>a, ProperTotal
  <1>d. sent \in Nat /\ \A l \in 1..3 : l * Total(message.writer) <= sent
    <2>. DEFINE length == Total(message.writer)
    <2>1. length \in Nat /\ sent = 3 * length
      BY <1>7, <1>c
    <2>. HIDE DEF length
    <2>2. 1 * length <= sent /\ 2 * length <= sent /\ 3 * length <= sent /\ sent \in Nat
      BY <2>1
    <2>3. \A l \in 1..3 : l = 1 \/ l = 2 \/ l = 3
      OBVIOUS
    <2>. QED BY <2>2, <2>3 DEF length
  <1>e. ASSUME NEW i \in 1..6
        PROVE  message.struct[i] \in Arriving(long, message, k, sent)
    <2>1. /\ i \in 1..Len(message.struct)
          /\ \A j \in 1..(i - 1) : message.writer[j].step = message.reader[j].step
      BY <1>a, <1>b
    <2>2. CASE k = 1
      <3>1. Total(message.writer) <= sent
        BY <1>c, <1>d
      <3>. QED BY <1>a, <1>d, <2>1, <2>2, <3>1, FirstAgreed
    <2>3. CASE long = 4
      <3>1. Total(message.reader) = Total(message.writer)
        <4>. DEFINE f == Steps(message.writer)
                    g == Steps(message.reader)
        <4>1. \A j \in 1..7 : message.reader[j].step = message.writer[j].step
          BY <1>9, <1>b, <2>3 DEF writer, reader
        <4>2. \A j \in 1..7 : f[j] \in Nat /\ g[j] = f[j]
          BY <1>a, <4>1 DEF Proper, Steps
        <4>3. Len(message.writer) = 7 /\ Len(message.reader) = 7
          BY <1>a DEF Proper
        <4>4. Upto(f, 7) = Upto(g, 7)
          <5>. HIDE DEF f, g
          <5>. QED BY <4>2, UptoAgrees
        <4>. QED BY <4>3, <4>4 DEF Total
      <3>2. (k - 1) * Total(message.reader) = (k - 1) * Total(message.writer)
        BY <3>1
      <3>3. k \in Nat \ {0} /\ k * Total(message.writer) <= sent
        BY <1>d
      <3>. QED BY <1>a, <1>d, <2>1, <3>2, <3>3, AgreedArrives
    <2>. QED BY <2>2, <2>3
  <1>f. /\ message.struct[1] = "name" /\ message.struct[2] = "gen"
        /\ message.struct[3] = "plot" /\ message.struct[4] = "duration"
        /\ message.struct[6] = "value"
    BY <1>2, <1>3
  <1>g. Decoded[long][k] = Arriving(long, message, k, sent)
    BY DEF Decoded, message, sent
  <1>. QED BY <1>e, <1>f, <1>g

(* A list of users, sent without its padding: of the last user at least   *)
(* the names arrive, of the others all that the terminal reads.           *)
LEMMA UserOffsets ==
    ASSUME NEW long \in LongSizes
    PROVE  LET layout == Plain(long, <<"user", "mail", "desc", "level">>) IN
           Offset(layout, 1) = 0 /\ Offset(layout, 2) = 50 /\ Total(layout) = 401
  <1>. DEFINE fields == <<"user", "mail", "desc", "level">>
              layout == Plain(long, fields)
              f == Steps(layout)
  <1>1. /\ DOMAIN layout = 1..4 /\ Len(layout) = 4
        /\ f[1] = 50 /\ f[2] = 50 /\ f[3] = 300 /\ f[4] = 1
    BY DEF Plain, Copy, Steps, Bytes
  <1>2. \A i \in 1..4 : f[i] \in Nat
    BY <1>1
  <1>. HIDE DEF layout
  <1>3. Offset(layout, 1) = Upto(f, 0) /\ Offset(layout, 2) = Upto(f, 1)
        /\ Total(layout) = Upto(f, 4)
    BY <1>1 DEF Offset, Total
  <1>. HIDE DEF f
  <1>4. Upto(f, 0) = 0
    BY UptoNext
  <1>5. Upto(f, 1) = Upto(f, 0) + 50
    BY <1>1, <1>2, UptoNext
  <1>6. Upto(f, 2) = Upto(f, 1) + 50
    BY <1>1, <1>2, UptoNext
  <1>7. Upto(f, 3) = Upto(f, 2) + 300
    BY <1>1, <1>2, UptoNext
  <1>8. Upto(f, 4) = Upto(f, 3) + 1
    BY <1>1, <1>2, UptoNext
  <1>. QED BY <1>3, <1>4, <1>5, <1>6, <1>7, <1>8 DEF layout

LEMMA UsersArrive ==
    ASSUME NEW long \in LongSizes, NEW n \in 1..3, NEW k \in 1..n
    PROVE  UsersLost[long][n][k] \subseteq
             (IF k < n THEN {"passwd"} ELSE {"passwd", "desc", "level"})
  <1>. DEFINE struct == <<"user", "passwd", "desc", "mail", "level">>
              fields == <<"user", "mail", "desc", "level">>
              layout == Plain(long, fields)
              message == Users(long)
              sent == UsersSent(long, n)
              arriving == Arriving(long, message, k, sent)
  <1>1. Distinct(struct) /\ Distinct(fields) /\ AllIn(fields, struct)
    BY DEF Distinct, FieldNames, Bytes, AllIn
  <1>2. /\ fields[1] = "user" /\ fields[2] = "mail" /\ fields[3] = "desc"
        /\ fields[4] = "level" /\ Len(fields) = 4
    OBVIOUS
  <1>3. message = Same(long, struct, fields)
    BY DEF Users
  <1>4. Fields(message) = {"user", "passwd", "desc", "mail", "level"}
    BY DEF Users, Same, Message, Fields
  <1>5. /\ Offset(layout, 1) = 0 /\ Offset(layout, 2) = 50 /\ Total(layout) = 401
        /\ Bytes(long)["user"] = 50 /\ Bytes(long)["mail"] = 50
    BY UserOffsets DEF Bytes
  <1>6. sent \in Nat /\ n * 401 <= sent + 7
    <2>1. message.writer = layout
      BY DEF Users, Same, Message
    <2>2. sent = WholeBlocks(n * 401)
      <3>. HIDE DEF layout, message
      <3>. QED BY <1>5, <2>1 DEF UsersSent, message
    <2>3. n * 401 \in Nat
      OBVIOUS
    <2>. QED BY <2>2, <2>3 DEF WholeBlocks, Block
  <1>7. UsersLost[long][n][k] = Fields(message) \ arriving
    BY DEF UsersLost
  <1>8. Distinct(struct) /\ Distinct(fields) /\ AllIn(fields, struct) /\ k \in Nat \ {0}
    BY <1>1
  <1>. HIDE DEF struct, fields, layout, message, sent
  <1>9. {"user", "mail"} \subseteq arriving
    <2>1. (k - 1) * 401 + 100 <= n * 401 - 7
      OBVIOUS
    <2>2. \A i \in {1, 2} :
            /\ i \in 1..Len(fields)
            /\ (k - 1) * Total(layout) + Offset(layout, i) + Bytes(long)[fields[i]] <= sent
      BY <1>2, <1>5, <1>6, <2>1
    <2>3. ASSUME NEW i \in {1, 2}
          PROVE  fields[i] \in arriving
      BY <1>3, <1>6, <1>8, <2>2, SameArrives DEF layout
    <2>. QED BY <1>2, <2>3
  <1>10. ASSUME k < n
         PROVE  {"user", "mail", "desc", "level"} \subseteq arriving
    <2>1. k * Total(layout) <= sent
      <3>1. k * 401 <= n * 401 - 401
        BY <1>10
      <3>. QED BY <1>5, <1>6, <3>1
    <2>2. \A i \in 1..Len(fields) : fields[i] \in arriving
      BY <1>3, <1>6, <1>8, <2>1, RecordArrives DEF layout
    <2>. QED BY <1>2, <2>2
  <1>. HIDE DEF arriving
  <1>. QED BY <1>4, <1>7, <1>9, <1>10

(* The types play no part in it: what arrives depends on the layouts.     *)
LEMMA MessagesAreWhole == MessagesArriveWhole
  <1>1. ASSUME NEW p \in Process, request[p] \in Requests, NEW long \in LongSizes
        PROVE  /\ Losses[long][request[p].op] \subseteq {"ticket"}
               /\ "ticket" \in Losses[long][request[p].op] =>
                    request[p].op = "start" /\ TicketBytes[long] = 10
    <2>1. request[p].op \in Ops
      BY <1>1, FrontAssumption
    <2>. QED BY <2>1, RequestsArrive
  <1>2. ASSUME NEW long \in LongSizes
        PROVE  /\ AnswersLost[long] = {}
               /\ CypheredLost[long] = {}
               /\ DownloadHeaderLost[long] \subseteq {"total_packets", "size"}
    BY AnswersArrive, CypheredArrive, DownloadHeaderArrives
  <1>3. ASSUME NEW long \in LongSizes
        PROVE  \A n \in 1..3, k \in 1..3 : k <= n =>
                 UsersLost[long][n][k] \subseteq
                   (IF k < n THEN {"passwd"} ELSE {"passwd", "desc", "level"})
    <2>1. \A n \in 1..3, k \in 1..3 : k <= n => k \in 1..n
      OBVIOUS
    <2>. QED BY <2>1, UsersArrive
  <1>4. ASSUME NEW long \in LongSizes
        PROVE  \A k \in 1..3 : long = 4 \/ k = 1 =>
                 {"name", "gen", "plot", "duration", "value"} \subseteq Decoded[long][k]
    BY MoviesArrive
  <1>. QED BY <1>1, <1>2, <1>3, <1>4, Zenon DEF MessagesArriveWhole

-----------------------------------------------------------------------------
(* The theorems.                                                          *)

(* The lists of genres and movies hold what the lines that were read say, *)
(* a path leads to the first line of its name, and where strcmp returns   *)
(* signs each list is in order and has a name once (movieDB.c, listADT.c).*)
THEOREM CatalogueIsKept == Spec => []CatInv
  <1>1. Init => CatInv
    BY InitCatInv DEF Init
  <1>. QED BY <1>1, NextKeepsCatalogue, PTL DEF Spec

(* The loop of StartServer: the sets of select and the open descriptors   *)
(* agree, a request is at one place, and who waits for the rest of a      *)
(* message has taken its size.                                            *)
THEOREM LoopIsInvariant == Spec => []LoopInv
  BY InitLoopInv, NextKeeps, PTL DEF Spec

(* However many terminals come, and however many processes there are, each*)
(* of them calls select for its open connections and no other, serves only*)
(* what is ready and open, and keeps no SIGPIPE for the next terminal.    *)
THEOREM DescriptorsStayOpen == Spec => []DescriptorsAreOpen
  BY LoopIsInvariant, PTL DEF LoopInv

(* However many children have inherited a connection, a request is acted  *)
(* on at most once.                                                       *)
THEOREM RequestsAreServedOnce == Spec => []ServedOnce
  <1>1. LoopInv => ServedOnce
    BY DEF LoopInv, LoopTypes, ServedOnce
  <1>. QED BY <1>1, LoopIsInvariant, PTL

(* A connection that no child inherited is in the queue or at one         *)
(* descriptor of one process, so that what select found there to be read  *)
(* is still there when receiveTCP reads it.                               *)
THEOREM LoopIsExclusive == Spec => []Exclusive
  <1>1. LoopInv /\ Exclusive /\ [Next]_vars => Exclusive'
    BY NextIsExclusive
  <1>. QED BY <1>1, InitExclusive, LoopIsInvariant, PTL DEF Spec

(* What a process is about to send, what is on its way and what a terminal*)
(* shows all belong to the request that was typed there, and a connection *)
(* that did not break is not closed before its answer is complete (Session*)
(* of server.c and the two exchanges of a list in client.c).              *)
THEOREM AnswersAreKept == Spec => [](Answering /\ Awaited)
  <1>1. Init => Answering /\ Awaited
    BY InitAnswering, InitAwaited
  <1>2. LoopInv /\ Exclusive /\ CatInv /\ (Answering /\ Awaited) /\ [Next]_vars
          => (Answering /\ Awaited)'
    BY NextAnswers, NextAwaits
  <1>. QED BY <1>1, <1>2, LoopIsInvariant, LoopIsExclusive, CatalogueIsKept, PTL DEF Spec

(* However many terminals come, and in whatever order they send, stop and *)
(* vanish: no process stands in receiveTCP for a connection of its own    *)
(* unless the size of a message has come and its rest has not.            *)
THEOREM OnlyTheLostBlock == Spec => []BlockedOnlyByLost
  BY LoopIsExclusive, LoopIsInvariant, ExclusiveBlocks, PTL

(* Whatever strcmp returns and whatever file is loaded, of any length: a  *)
(* customer finds the movies of all the lines that were read, and nothing *)
(* else, and what is found can be bought at the price that is listed, as  *)
(* far as CatalogueIsComplete says.                                       *)
THEOREM CatalogueStaysComplete == Spec => []CatalogueIsComplete
  BY CatalogueIsKept, CatInvIsComplete, PTL

(* Whatever the processes serve before and between, and wherever one of   *)
(* them dies: the list that a terminal gets is what the catalogue has for *)
(* what was typed there, and it shows nothing, or the blank entries that  *)
(* receiveTCP makes of a list which did not come, only when the catalogue *)
(* has nothing or its connection broke or was shared by a fork.           *)
THEOREM ListsAreShownRight == Spec => []TerminalGetsTheCatalogue
  <1>1. Answering => TerminalGetsTheCatalogue
    BY DEF Answering, AnswersAreRight, TerminalGetsTheCatalogue, Right, Shared
  <1>. QED BY <1>1, AnswersAreKept, PTL

(* The types of the catalogue, of the processes, of the connections and of*)
(* the messages; a descriptor of the select loop is never an error that   *)
(* acceptTCP returned.                                                    *)
THEOREM TypesAreRight == Spec => []TypeOK
  <1>1. CatInv /\ LoopInv /\ Answering => TypeOK
    <2>1. LoopTypes => served \in [Clients -> Nat]
      BY DEF LoopTypes
    <2>. QED BY <2>1, Zenon DEF CatInv, LoopInv, LoopTypes, Places, Answering, AnswerTypes, TypeOK
  <1>. QED BY <1>1, CatalogueIsKept, LoopIsInvariant, AnswersAreKept, PTL

(* With longs of either size, and for each of the messages that the two   *)
(* programs put together and take apart: all arrives but the end of the   *)
(* ticket of a download, the two numbers behind the path of its answer,   *)
(* the end of a last user, and what a list of movies says of its size     *)
(* (the functions Get...Data and Get...Pack of client.c and server.c).    *)
THEOREM MessagesDoArrive == Spec => []MessagesArriveWhole
  BY MessagesAreWhole, PTL
=============================================================================
