------------------------------- MODULE Transfer -------------------------------
(***************************************************************************)
(* The download of movies by one terminal: the command "download"          *)
(* (UserDownload in src/Client/client.c), the process that sends the movie *)
(* (SendMovie in src/Server/server.c), and the processes that receive it   *)
(* (InitDownloader and NewDownload in src/Client/client.c).                *)
(*                                                                         *)
(* Each download has a sender and a receiver of its own, and all the       *)
(* downloads of one movie write the same file of the terminal.  Two things *)
(* truncate it: the command, before it asks for the movie, and the first   *)
(* packet of each transfer.                                                *)
(*                                                                         *)
(* The receiver counts the packets it gets.  At the end of a connection    *)
(* that broke, or after a timeout in the middle of a packet, receiveTCP    *)
(* returns memory that it did not fill: the receiver may die of it, take   *)
(* it for the last packet, or take it for one more packet and write it,    *)
(* again and again, until it has counted as many as that memory says.      *)
(***************************************************************************)
EXTENDS Integers

CONSTANTS
    Movies,
    Downloads,   \* "download" commands, each typed once
    Movie,       \* Movie[d]: what the ticket of d is for
    Size,        \* Size[m]: of the file of movie m
    FileSize,    \* _FILE_SIZE_, the size of a packet: 100
    MaxTotal     \* the largest unsigned long

ASSUME ConstantsAssumption ==
    /\ Movie \in [Downloads -> Movies]
    /\ Size \in [Movies -> Nat]
    /\ FileSize \in Nat \ {0}
    /\ MaxTotal \in Nat
    /\ \A m \in Movies : Size[m] \div FileSize + 1 <= MaxTotal

VARIABLES
    sender,      \* download -> "idle", "asked", "sending" or "closed"
    i,           \* ... packets that SendMovie has sent
    receiver,    \* ... "none", "queued", "open", "done" or "dead"
    n_packet,    \* ... packets that NewDownload has counted
    listening,   \* InitDownloader runs
    file,        \* movie -> packet -> what the terminal has in its place
    (* History, read by no guard of the code: *)
    lost,        \* downloads whose receiver has lost its place in the stream
    disturbed    \* downloads whose file was truncated or spoilt after they opened it

vars == <<sender, i, receiver, n_packet, listening, file, lost, disturbed>>

SplitFile(m) == Size[m] \div FileSize + 1

(* Places in the file of m.                                                *)
Places(m) == 0 .. SplitFile(m) - 1

Total(d) == SplitFile(Movie[d])

Truncated(m) == [k \in Places(m) |-> "absent"]

(* Downloads that have opened the file of m.                               *)
Writers(m) == {d \in Downloads : Movie[d] = m /\ n_packet[d] > 0}

(* The file of d for its next packet: the first one opens it anew.         *)
Opened(d) == IF n_packet[d] = 0 THEN Truncated(Movie[d]) ELSE file[Movie[d]]

Init ==
    /\ sender = [d \in Downloads |-> "idle"]
    /\ i = [d \in Downloads |-> 0]
    /\ receiver = [d \in Downloads |-> "none"]
    /\ n_packet = [d \in Downloads |-> 0]
    /\ listening = TRUE
    /\ file = [m \in Movies |-> Truncated(m)]
    /\ lost = {}
    /\ disturbed = {}

-----------------------------------------------------------------------------
(***************************************************************************)
(* The command                                                             *)
(***************************************************************************)

(* CreateFile, then the signal to the server, which may fail.  A command   *)
(* that is denied before changes nothing.                                  *)
UserDownload(d) ==
    LET m == Movie[d] IN
    /\ sender[d] = "idle"
    /\ file' = [file EXCEPT ![m] = Truncated(m)]
    /\ disturbed' = disturbed \cup Writers(m)
    /\ \E next \in {"asked", "closed"} : sender' = [sender EXCEPT ![d] = next]
    /\ UNCHANGED <<i, receiver, n_packet, listening, lost>>

(***************************************************************************)
(* The server                                                              *)
(***************************************************************************)

(* connectTCP to the port of the terminal.                                 *)
StartSending(d) ==
    /\ sender[d] = "asked"
    /\ listening
    /\ sender' = [sender EXCEPT ![d] = "sending"]
    /\ receiver' = [receiver EXCEPT ![d] = "queued"]
    /\ UNCHANGED <<i, n_packet, listening, file, lost, disturbed>>

(* The request is denied, the ticket is used up, fork or connect fails.    *)
NotSent(d) ==
    /\ sender[d] = "asked"
    /\ sender' = [sender EXCEPT ![d] = "closed"]
    /\ UNCHANGED <<i, receiver, n_packet, listening, file, lost, disturbed>>

SendPacket(d) ==
    /\ sender[d] = "sending"
    /\ i[d] < Total(d)
    /\ i' = [i EXCEPT ![d] = @ + 1]
    /\ UNCHANGED <<sender, receiver, n_packet, listening, file, lost, disturbed>>

(* All was sent, or the process dies, perhaps in the middle of a packet,   *)
(* or it gets SIGPIPE and gives up.                                        *)
StopSending(d) ==
    /\ sender[d] = "sending"
    /\ sender' = [sender EXCEPT ![d] = "closed"]
    /\ UNCHANGED <<i, receiver, n_packet, listening, file, lost, disturbed>>

(***************************************************************************)
(* The terminal's downloader and its children                              *)
(***************************************************************************)

Accept(d) ==
    /\ listening
    /\ receiver[d] = "queued"
    /\ receiver' = [receiver EXCEPT ![d] = "open"]
    /\ UNCHANGED <<sender, i, n_packet, listening, file, lost, disturbed>>

(* The user left the prompt, or fork failed.                               *)
DownloaderEnds ==
    /\ listening
    /\ listening' = FALSE
    /\ receiver' = [d \in Downloads |-> IF receiver[d] = "queued" THEN "dead" ELSE receiver[d]]
    /\ UNCHANGED <<sender, i, n_packet, file, lost, disturbed>>

(* Mutant of Receive: the loop ends one packet early.                      *)
ReceiveOneLess(d) ==
    LET m == Movie[d]
        k == n_packet[d] IN
    /\ receiver[d] = "open"
    /\ d \notin lost
    /\ k < i[d]
    /\ file' = [file EXCEPT ![m] = [Opened(d) EXCEPT ![k] = "right"]]
    /\ disturbed' = IF k = 0 THEN disturbed \cup Writers(m) ELSE disturbed
    /\ n_packet' = [n_packet EXCEPT ![d] = k + 1]
    /\ receiver' = [receiver EXCEPT ![d] = IF k + 2 >= Total(d) THEN "done" ELSE "open"]
    /\ UNCHANGED <<sender, i, listening, lost>>

(* Mutant of Receive: the loop ends one packet late.                       *)
ReceiveOneMore(d) ==
    LET m == Movie[d]
        k == n_packet[d] IN
    /\ receiver[d] = "open"
    /\ d \notin lost
    /\ k < i[d]
    /\ file' = [file EXCEPT ![m] = [Opened(d) EXCEPT ![k] = "right"]]
    /\ disturbed' = IF k = 0 THEN disturbed \cup Writers(m) ELSE disturbed
    /\ n_packet' = [n_packet EXCEPT ![d] = k + 1]
    /\ UNCHANGED <<sender, i, receiver, listening, lost>>

(* A packet arrives; the first one opens the file.                         *)
Receive(d) ==
    LET m == Movie[d]
        k == n_packet[d] IN
    /\ receiver[d] = "open"
    /\ d \notin lost
    /\ k < i[d]
    /\ file' = [file EXCEPT ![m] = [Opened(d) EXCEPT ![k] = "right"]]
    /\ disturbed' = IF k = 0 THEN disturbed \cup Writers(m) ELSE disturbed
    /\ n_packet' = [n_packet EXCEPT ![d] = k + 1]
    /\ receiver' = [receiver EXCEPT ![d] = IF k + 1 >= Total(d) THEN "done" ELSE "open"]
    /\ UNCHANGED <<sender, i, listening, lost>>

(* recv returns less than a packet, which is not looked at: the connection *)
(* was closed, or ten seconds went by in the middle of a packet and the    *)
(* rest of it is taken for the next.  What comes out has any title, number *)
(* and total.                                                              *)
ReceiveGarbage(d) ==
    LET m == Movie[d] IN
    /\ receiver[d] = "open"
    /\ sender[d] = "closed" \/ n_packet[d] < i[d] \/ d \in lost
    /\ lost' = lost \cup {d}
    /\ disturbed' = disturbed \cup Writers(m) \cup {d}
    /\ \/ file' = file
       \/ file' = [file EXCEPT ![m] = Opened(d)]
       \/ \E k \in Places(m) : file' = [file EXCEPT ![m] = [Opened(d) EXCEPT ![k] = "wrong"]]
    /\ n_packet' = [n_packet EXCEPT ![d] = @ + 1]
    /\ \E total \in 0 .. MaxTotal :
          receiver' = [receiver EXCEPT ![d] = IF n_packet[d] + 1 >= total THEN "done" ELSE "open"]
    /\ UNCHANGED <<sender, i, listening>>

(* Mutant of ReceiverDies: the socket has no timeout.                      *)
ReceiverDiesAtEnd(d) ==
    /\ receiver[d] = "open"
    /\ sender[d] = "closed"
    /\ receiver' = [receiver EXCEPT ![d] = "dead"]
    /\ UNCHANGED <<sender, i, n_packet, listening, file, lost, disturbed>>

(* Ten seconds without a packet, a reset, or a bad access on garbage.      *)
ReceiverDies(d) ==
    /\ receiver[d] = "open"
    /\ receiver' = [receiver EXCEPT ![d] = "dead"]
    /\ UNCHANGED <<sender, i, n_packet, listening, file, lost, disturbed>>

-----------------------------------------------------------------------------
Child(d) == Receive(d) \/ ReceiveGarbage(d) \/ ReceiverDies(d)

Next ==
    \/ \E d \in Downloads :
          \/ UserDownload(d)
          \/ StartSending(d)
          \/ NotSent(d)
          \/ SendPacket(d)
          \/ StopSending(d)
          \/ Accept(d)
          \/ Child(d)
    \/ DownloaderEnds

Spec == Init /\ [][Next]_vars

(* NewDownload waits ten seconds for a packet.                             *)
FairSpec == Spec /\ \A d \in Downloads : WF_vars(Child(d))
-----------------------------------------------------------------------------
(***************************************************************************)
(* Properties                                                              *)
(***************************************************************************)

(* The type invariant.                                                     *)
TypeOK ==
    /\ sender \in [Downloads -> {"idle", "asked", "sending", "closed"}]
    /\ receiver \in [Downloads -> {"none", "queued", "open", "done", "dead"}]
    /\ i \in [Downloads -> Nat] /\ n_packet \in [Downloads -> Nat]
    /\ \A d \in Downloads :
          /\ i[d] <= Total(d)
          /\ LET most == IF d \in lost THEN MaxTotal ELSE Total(d) IN
                /\ n_packet[d] <= most
                /\ receiver[d] = "open" => n_packet[d] < most
          /\ sender[d] \in {"idle", "asked"} => i[d] = 0 /\ receiver[d] = "none"
          /\ n_packet[d] > 0 => receiver[d] \in {"open", "done", "dead"}
    /\ listening \in BOOLEAN
    /\ \A m \in Movies : file[m] \in [Places(m) -> {"absent", "right", "wrong"}]
    /\ file = [m \in Movies |-> file[m]]
    /\ lost \subseteq disturbed /\ disturbed \subseteq Downloads

(* The part of the movie that packet k carries is not empty.               *)
HasData(m, k) == k * FileSize < Size[m]

(* SplitFile counts enough packets for the whole of a file.                *)
Whole(m) ==
    /\ \A k \in 0 .. Size[m] : HasData(m, k) => k \in Places(m)
    /\ \A k \in Places(m) : HasData(m, k) => file[m][k] = "right"

(* "Termine de transmitir" is true: a file whose download came to its end  *)
(* is the movie, whatever other downloads of it are under way, as long as  *)
(* no connection broke and nobody truncated it after this one began.       *)
AnnouncedIsWhole ==
    \A d \in Downloads \ disturbed : receiver[d] = "done" => Whole(Movie[d])

(* A receiver does not wait for ever, whatever becomes of the sender and   *)
(* of the connection: it ends, or has lost its place.  One that has lost   *)
(* its place may never end: when the connection is closed no timeout       *)
(* applies, and it counts up to whatever memory it did not fill says.      *)
DownloadEnds ==
    \A d \in Downloads :
        receiver[d] = "open" ~> receiver[d] \in {"done", "dead"} \/ d \in lost
=============================================================================
