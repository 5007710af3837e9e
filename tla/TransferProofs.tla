---------------------------- MODULE TransferProofs ----------------------------
(***************************************************************************)
(* Theorems about Transfer, for any number of downloads and movies, and    *)
(* for files and packets of any size.                                      *)
(***************************************************************************)
EXTENDS Transfer, TLAPS

LEMMA Division ==
    ASSUME NEW s \in Nat, NEW f \in Nat \ {0}
    PROVE  s \div f \in Nat /\ s < (s \div f + 1) * f
  OBVIOUS

LEMMA Fewer ==
    ASSUME NEW f \in Nat \ {0}, NEW s \in Nat, NEW t \in Nat, NEW k \in Nat,
           s < t * f, k * f < s
    PROVE  k < t
  OBVIOUS

LEMMA TotalIsPositive == \A m \in Movies : SplitFile(m) \in Nat \ {0}
<1> SUFFICES ASSUME NEW m \in Movies
             PROVE  SplitFile(m) \in Nat \ {0}
  OBVIOUS
<1>1. Size[m] \in Nat /\ FileSize \in Nat \ {0}
  BY ConstantsAssumption
<1>2. Size[m] \div FileSize \in Nat
  BY <1>1, Division
<1> QED
  BY <1>2 DEF SplitFile

LEMMA TotalIsBounded == MaxTotal \in Nat /\ \A m \in Movies : SplitFile(m) <= MaxTotal
<1>1. MaxTotal \in Nat
  BY ConstantsAssumption
<1>2. ASSUME NEW m \in Movies
      PROVE  SplitFile(m) <= MaxTotal
  <2>1. Size[m] \div FileSize + 1 <= MaxTotal
    BY ConstantsAssumption, Zenon
  <2> QED
    BY <2>1, Zenon DEF SplitFile
<1> QED
  BY <1>1, <1>2

LEMMA SplitFileSuffices ==
    ASSUME NEW m \in Movies, NEW k \in Nat, HasData(m, k)
    PROVE  k \in Places(m)
<1>1. Size[m] \in Nat /\ FileSize \in Nat \ {0}
  BY ConstantsAssumption
<1>2. SplitFile(m) \in Nat /\ Size[m] < SplitFile(m) * FileSize
  <2>1. Size[m] \div FileSize \in Nat /\ Size[m] < (Size[m] \div FileSize + 1) * FileSize
    BY <1>1, Division
  <2> QED
    BY <2>1 DEF SplitFile
<1>3. k < SplitFile(m)
  <2>1. k * FileSize < Size[m]
    BY DEF HasData
  <2> DEFINE t == SplitFile(m)
             s == Size[m]
             f == FileSize
  <2>2. /\ f \in Nat \ {0} /\ s \in Nat /\ t \in Nat /\ s < t * f /\ k * f < s
    BY <1>1, <1>2, <2>1
  <2> HIDE DEF t, s, f
  <2>3. k < t
    BY <2>2, Fewer
  <2> QED
    BY <2>3 DEF t
<1> QED
  BY <1>2, <1>3 DEF Places
-----------------------------------------------------------------------------
(* What an undisturbed receiver has counted is in the file.                *)
Filling ==
    \A d \in Downloads \ disturbed :
        /\ \A k \in 0 .. n_packet[d] - 1 : file[Movie[d]][k] = "right"
        /\ receiver[d] = "done" => n_packet[d] = Total(d)

Inv == TypeOK /\ Filling

LEMMA InvInit == Init => Inv
<1> SUFFICES ASSUME Init
             PROVE  Inv
  OBVIOUS
<1>1. \A d \in Downloads : Total(d) \in Nat \ {0}
  BY TotalIsPositive, ConstantsAssumption DEF Total
<1>2. TypeOK
  BY <1>1 DEF Init, TypeOK, Truncated
<1>3. Filling
  BY DEF Init, Filling
<1> QED
  BY <1>2, <1>3 DEF Inv

(* The file that a step of d leaves.                                       *)
LEMMA OpenedIsAFile ==
    ASSUME TypeOK, NEW d \in Downloads
    PROVE  /\ Opened(d) \in [Places(Movie[d]) -> {"absent", "right", "wrong"}]
           /\ n_packet[d] > 0 => Opened(d) = file[Movie[d]]
<1> DEFINE File == [Places(Movie[d]) -> {"absent", "right", "wrong"}]
<1>1. Movie[d] \in Movies
  BY ConstantsAssumption
<1>2. file[Movie[d]] \in File /\ n_packet[d] \in Nat
  BY <1>1 DEF TypeOK
<1>3. Truncated(Movie[d]) \in File
  BY DEF Truncated
<1> HIDE DEF File
<1>4. Opened(d) \in File /\ (n_packet[d] > 0 => Opened(d) = file[Movie[d]])
  BY <1>2, <1>3 DEF Opened
<1> QED
  BY <1>4 DEF File

LEMMA TypeStep == TypeOK /\ [Next]_vars => TypeOK'
<1> SUFFICES ASSUME TypeOK, [Next]_vars
             PROVE  TypeOK'
  OBVIOUS
<1>a. /\ \A d \in Downloads : /\ Movie[d] \in Movies
                             /\ Total(d) \in Nat \ {0} /\ Total(d) <= MaxTotal
      /\ MaxTotal \in Nat
  BY TotalIsPositive, TotalIsBounded, ConstantsAssumption DEF Total
<1> DEFINE most(d) == IF d \in lost THEN MaxTotal ELSE Total(d)
<1>1. ASSUME NEW d \in Downloads, UserDownload(d)
      PROVE  TypeOK'
  <2>1. Truncated(Movie[d]) \in [Places(Movie[d]) -> {"absent", "right", "wrong"}]
    BY DEF Truncated
  <2>2. Writers(Movie[d]) \subseteq Downloads
    BY DEF Writers
  <2>3. /\ UNCHANGED <<i, receiver, n_packet, listening, lost>>
        /\ disturbed' = disturbed \cup Writers(Movie[d])
        /\ sender[d] = "idle" /\ file' = [file EXCEPT ![Movie[d]] = Truncated(Movie[d])]
        /\ sender' \in {[sender EXCEPT ![d] = "asked"], [sender EXCEPT ![d] = "closed"]}
    BY <1>1 DEF UserDownload
  <2> QED
    BY <1>a, <2>1, <2>2, <2>3 DEF TypeOK
<1>2. ASSUME NEW d \in Downloads,
             \/ StartSending(d) \/ NotSent(d) \/ SendPacket(d) \/ StopSending(d)
             \/ Accept(d) \/ ReceiverDies(d)
      PROVE  TypeOK'
  BY <1>a, <1>2
  DEF StartSending, NotSent, SendPacket, StopSending, Accept, ReceiverDies, TypeOK
<1>3. ASSUME NEW d \in Downloads, Receive(d)
      PROVE  TypeOK'
  <2> DEFINE m == Movie[d]
             k == n_packet[d]
  <2>1. m \in Movies /\ k \in Nat /\ k < Total(d) /\ receiver[d] = "open"
    BY <1>3, <1>a DEF Receive, TypeOK
  <2>2. k \in Places(m)
    BY <1>a, <2>1 DEF Places, Total
  <2>3. [Opened(d) EXCEPT ![k] = "right"] \in [Places(m) -> {"absent", "right", "wrong"}]
    BY <2>2, OpenedIsAFile
  <2>4. Writers(m) \subseteq Downloads
    BY DEF Writers
  <2>5. /\ UNCHANGED <<sender, i, listening, lost>>
        /\ disturbed' \in {disturbed, disturbed \cup Writers(m)}
        /\ file' = [file EXCEPT ![m] = [Opened(d) EXCEPT ![k] = "right"]]
        /\ n_packet' = [n_packet EXCEPT ![d] = k + 1]
        /\ receiver' = [receiver EXCEPT ![d] = IF k + 1 >= Total(d) THEN "done" ELSE "open"]
    BY <1>3 DEF Receive
  <2>6. file' = [n \in Movies |-> file'[n]]
        /\ \A n \in Movies : file'[n] \in [Places(n) -> {"absent", "right", "wrong"}]
    BY <2>1, <2>3, <2>5 DEF TypeOK
  <2>7. /\ i' = i /\ sender' = sender
        /\ n_packet' \in [Downloads -> Nat]
        /\ receiver' \in [Downloads -> {"none", "queued", "open", "done", "dead"}]
        /\ \A e \in Downloads :
              /\ n_packet'[e] <= most(e)
              /\ receiver'[e] = "open" => n_packet'[e] < most(e)
              /\ sender[e] \in {"idle", "asked"} => receiver'[e] = "none"
              /\ n_packet'[e] > 0 => receiver'[e] \in {"open", "done", "dead"}
    BY <1>a, <2>1, <2>5 DEF TypeOK
  <2> QED
    BY <2>4, <2>5, <2>6, <2>7 DEF TypeOK
<1>4. ASSUME NEW d \in Downloads, ReceiveGarbage(d)
      PROVE  TypeOK'
  <2> DEFINE m == Movie[d]
             k == n_packet[d]
             File == [Places(m) -> {"absent", "right", "wrong"}]
  <2>1. m \in Movies /\ k \in Nat /\ k < MaxTotal /\ receiver[d] = "open"
    BY <1>4, <1>a DEF ReceiveGarbage, TypeOK
  <2>2. PICK f \in File : file' = [file EXCEPT ![m] = f]
    <3>1. \/ file' = [file EXCEPT ![m] = file[m]] /\ file[m] \in File
          \/ file' = [file EXCEPT ![m] = Opened(d)]
          \/ \E q \in Places(m) : file' = [file EXCEPT ![m] = [Opened(d) EXCEPT ![q] = "wrong"]]
      BY <1>4, <2>1 DEF ReceiveGarbage, TypeOK
    <3>2. Opened(d) \in File /\ \A q \in Places(m) : [Opened(d) EXCEPT ![q] = "wrong"] \in File
      BY OpenedIsAFile
    <3> QED
      BY <3>1, <3>2
  <2>3. Writers(m) \subseteq Downloads
    BY DEF Writers
  <2>4. PICK next \in {"done", "open"} :
            /\ receiver' = [receiver EXCEPT ![d] = next]
            /\ next = "open" => k + 1 < MaxTotal
    <3>1. PICK total \in 0 .. MaxTotal :
              receiver' = [receiver EXCEPT ![d] = IF k + 1 >= total THEN "done" ELSE "open"]
      BY <1>4 DEF ReceiveGarbage
    <3>2. CASE k + 1 >= total
      BY <3>1, <3>2
    <3>3. CASE ~(k + 1 >= total)
      <4>1. k + 1 < MaxTotal
        BY <1>a, <2>1, <3>3
      <4> QED
        BY <3>1, <3>3, <4>1
    <3> QED
      BY <3>2, <3>3
  <2>5. /\ UNCHANGED <<sender, i, listening>> /\ lost' = lost \cup {d}
        /\ disturbed' = disturbed \cup Writers(m) \cup {d}
        /\ n_packet' = [n_packet EXCEPT ![d] = k + 1]
    BY <1>4 DEF ReceiveGarbage
  <2>6. file' = [n \in Movies |-> file'[n]]
        /\ \A n \in Movies : file'[n] \in [Places(n) -> {"absent", "right", "wrong"}]
    BY <2>1, <2>2 DEF TypeOK
  <2>7. /\ n_packet' \in [Downloads -> Nat]
        /\ receiver' \in [Downloads -> {"none", "queued", "open", "done", "dead"}]
        /\ \A e \in Downloads :
              LET more == IF e \in lost' THEN MaxTotal ELSE Total(e) IN
              /\ n_packet'[e] <= more
              /\ receiver'[e] = "open" => n_packet'[e] < more
              /\ sender[e] \in {"idle", "asked"} => receiver'[e] = "none"
              /\ n_packet'[e] > 0 => receiver'[e] \in {"open", "done", "dead"}
    BY <1>a, <2>1, <2>4, <2>5 DEF TypeOK
  <2> QED
    BY <2>3, <2>5, <2>6, <2>7 DEF TypeOK
<1>5. CASE DownloaderEnds
  BY <1>5 DEF DownloaderEnds, TypeOK
<1>6. CASE UNCHANGED vars
  BY <1>6 DEF vars, TypeOK
<1> QED
  BY <1>1, <1>2, <1>3, <1>4, <1>5, <1>6 DEF Next, Child

LEMMA FillingStep == Inv /\ [Next]_vars => Filling'
<1> SUFFICES ASSUME Inv, [Next]_vars
             PROVE  Filling'
  OBVIOUS
<1> USE DEF Inv
<1>a. \A d \in Downloads : Movie[d] \in Movies /\ n_packet[d] \in Nat /\ Total(d) \in Nat \ {0}
  BY TotalIsPositive, ConstantsAssumption DEF Total, TypeOK
<1>1. ASSUME UNCHANGED <<n_packet, file, disturbed>>,
             \A d \in Downloads : receiver'[d] = "done" => receiver[d] = "done"
      PROVE  Filling'
  BY <1>1 DEF Filling, Total
(* A step that disturbs all the writers of m but perhaps d.                *)
<1>2. ASSUME NEW m \in Movies, disturbed \cup Writers(m) \subseteq disturbed',
             \A n \in Movies : n # m => file'[n] = file[n],
             NEW e \in Downloads, e \in disturbed' \/ (n_packet'[e] = n_packet[e] /\ receiver'[e] = receiver[e]),
             \A d \in Downloads : d # e => n_packet'[d] = n_packet[d] /\ receiver'[d] = receiver[d]
      PROVE  Filling'
  <2> SUFFICES ASSUME NEW d \in Downloads \ disturbed'
               PROVE  /\ \A k \in 0 .. n_packet'[d] - 1 : file'[Movie[d]][k] = "right"
                      /\ receiver'[d] = "done" => n_packet'[d] = Total(d)
    BY DEF Filling, Total
  <2>1. d \in Downloads \ disturbed /\ n_packet'[d] = n_packet[d] /\ receiver'[d] = receiver[d]
    BY <1>2
  <2>2. receiver'[d] = "done" => n_packet'[d] = Total(d)
    BY <2>1 DEF Filling
  <2>3. CASE Movie[d] = m
    <3>1. n_packet[d] = 0
      BY <1>a, <1>2, <2>1, <2>3 DEF Writers
    <3> QED
      BY <2>1, <2>2, <3>1
  <2>4. CASE Movie[d] # m
    BY <1>a, <1>2, <2>1, <2>2, <2>4 DEF Filling
  <2> QED
    BY <2>3, <2>4
<1>3. ASSUME NEW d \in Downloads, UserDownload(d)
      PROVE  Filling'
  BY <1>a, <1>2, <1>3 DEF UserDownload, TypeOK
<1>4. ASSUME NEW d \in Downloads, ReceiveGarbage(d)
      PROVE  Filling'
  <2>1. /\ disturbed' = disturbed \cup Writers(Movie[d]) \cup {d}
        /\ \E f : file' = [file EXCEPT ![Movie[d]] = f]
        /\ n_packet' = [n_packet EXCEPT ![d] = @ + 1]
        /\ \E next : receiver' = [receiver EXCEPT ![d] = next]
    <3>1. \E f : file' = [file EXCEPT ![Movie[d]] = f]
      <4>1. \/ file' = [file EXCEPT ![Movie[d]] = file[Movie[d]]]
            \/ file' = [file EXCEPT ![Movie[d]] = Opened(d)]
            \/ \E q \in Places(Movie[d]) :
                  file' = [file EXCEPT ![Movie[d]] = [Opened(d) EXCEPT ![q] = "wrong"]]
        BY <1>4, <1>a DEF ReceiveGarbage, TypeOK
      <4> QED
        BY <4>1
    <3> QED
      BY <1>4, <3>1 DEF ReceiveGarbage
  <2> QED
    BY <1>a, <1>2, <2>1 DEF TypeOK
<1>5. ASSUME NEW d \in Downloads, Receive(d)
      PROVE  Filling'
  <2> DEFINE m == Movie[d]
             k == n_packet[d]
  <2>1. /\ m \in Movies /\ k \in Nat /\ k < Total(d) /\ k \in Places(m)
        /\ file' = [file EXCEPT ![m] = [Opened(d) EXCEPT ![k] = "right"]]
        /\ n_packet' = [n_packet EXCEPT ![d] = k + 1]
        /\ receiver' = [receiver EXCEPT ![d] = IF k + 1 >= Total(d) THEN "done" ELSE "open"]
        /\ disturbed' = IF k = 0 THEN disturbed \cup Writers(m) ELSE disturbed
    <3>1. receiver[d] = "open" /\ k < Total(d)
      BY <1>5, <1>a DEF Receive, TypeOK
    <3>2. k \in Places(m)
      BY <1>a, <3>1 DEF Places, Total
    <3> QED
      BY <1>5, <1>a, <3>1, <3>2 DEF Receive
  <2>2. file'[m] = [Opened(d) EXCEPT ![k] = "right"] /\ \A n \in Movies : n # m => file'[n] = file[n]
    BY <2>1 DEF TypeOK
  <2>3. /\ file'[m][k] = "right"
        /\ \A j \in Places(m) : Opened(d)[j] = "right" => file'[m][j] = "right"
    <3> DEFINE new == [Opened(d) EXCEPT ![k] = "right"]
    <3>1. new[k] = "right" /\ \A j \in Places(m) : Opened(d)[j] = "right" => new[j] = "right"
      BY <2>1, OpenedIsAFile
    <3> QED
      BY <2>2, <3>1
  <2>4. ASSUME NEW e \in Downloads \ disturbed', e # d
        PROVE  /\ \A j \in 0 .. n_packet'[e] - 1 : file'[Movie[e]][j] = "right"
               /\ receiver'[e] = "done" => n_packet'[e] = Total(e)
    <3>1. e \in Downloads \ disturbed /\ n_packet'[e] = n_packet[e] /\ receiver'[e] = receiver[e]
      BY <2>1, <2>4 DEF TypeOK
    <3>2. receiver'[e] = "done" => n_packet'[e] = Total(e)
      BY <3>1 DEF Filling
    <3>3. CASE Movie[e] # m
      BY <1>a, <2>2, <3>1, <3>2, <3>3 DEF Filling
    <3>4. CASE Movie[e] = m /\ k = 0
      <4>1. n_packet[e] = 0
        BY <1>a, <2>1, <2>4, <3>1, <3>4 DEF Writers
      <4> QED
        BY <3>1, <3>2, <4>1
    <3>5. CASE Movie[e] = m /\ k # 0
      <4>1. Opened(d) = file[m]
        BY <1>a, <3>5, OpenedIsAFile
      <4>2. ASSUME NEW j \in 0 .. n_packet[e] - 1
            PROVE  file'[m][j] = "right"
        <5>1. n_packet[e] <= SplitFile(m) /\ SplitFile(m) \in Nat
          <6>1. e \notin lost
            BY <3>1 DEF TypeOK
          <6>2. n_packet[e] <= Total(e)
            BY <3>1, <6>1 DEF TypeOK
          <6> QED
            BY <1>a, <2>1, <3>5, <6>2, TotalIsPositive DEF Total
        <5>2. j \in Places(m)
          BY <1>a, <4>2, <5>1 DEF Places
        <5>3. file[m][j] = "right"
          BY <3>1, <3>5, <4>2 DEF Filling
        <5> QED
          BY <2>3, <4>1, <5>2, <5>3
      <4> QED
        BY <3>1, <3>2, <3>5, <4>2
    <3> QED
      BY <3>3, <3>4, <3>5
  <2>5. ASSUME d \notin disturbed'
        PROVE  /\ \A j \in 0 .. n_packet'[d] - 1 : file'[m][j] = "right"
               /\ receiver'[d] = "done" => n_packet'[d] = Total(d)
    <3>1. d \notin disturbed /\ n_packet'[d] = k + 1
      BY <2>1, <2>5 DEF TypeOK
    <3>2. receiver'[d] = "done" => n_packet'[d] = Total(d)
      <4>1. receiver'[d] = IF k + 1 >= Total(d) THEN "done" ELSE "open"
        BY <2>1 DEF TypeOK
      <4> QED
        BY <1>a, <2>1, <3>1, <4>1
    <3>3. ASSUME NEW j \in 0 .. k
          PROVE  file'[m][j] = "right"
      <4>1. CASE j = k
        BY <2>3, <4>1
      <4>2. CASE j # k
        <5>1. j \in 0 .. k - 1 /\ k > 0
          BY <2>1, <3>3, <4>2
        <5>2. Opened(d) = file[m]
          BY <5>1, OpenedIsAFile
        <5>3. j \in Places(m)
          <6>1. k < SplitFile(m) /\ SplitFile(m) \in Nat
            BY <2>1, TotalIsPositive DEF Total
          <6> QED
            BY <2>1, <5>1, <6>1 DEF Places
        <5>4. file[m][j] = "right"
          BY <3>1, <5>1 DEF Filling
        <5> QED
          BY <2>3, <5>2, <5>3, <5>4
      <4> QED
        BY <4>1, <4>2
    <3> QED
      BY <2>1, <3>1, <3>2, <3>3
  <2> QED
    BY <2>4, <2>5 DEF Filling, Total
<1>6. ASSUME NEW d \in Downloads,
             \/ StartSending(d) \/ NotSent(d) \/ SendPacket(d) \/ StopSending(d)
             \/ Accept(d) \/ ReceiverDies(d)
      PROVE  Filling'
  BY <1>1, <1>6
  DEF StartSending, NotSent, SendPacket, StopSending, Accept, ReceiverDies, TypeOK
<1>7. CASE DownloaderEnds
  BY <1>1, <1>7 DEF DownloaderEnds
<1>8. CASE UNCHANGED vars
  BY <1>1, <1>8 DEF vars
<1> QED
  BY <1>3, <1>4, <1>5, <1>6, <1>7, <1>8 DEF Next, Child

(* Types, and how far both ends have come.                                 *)
THEOREM TypeCorrect == Spec => []TypeOK
  BY InvInit, TypeStep, PTL DEF Spec, Inv

(* An undisturbed download that came to its end has left the whole movie.  *)
THEOREM AnnouncementsAreTrue == Spec => []AnnouncedIsWhole
<1>1. Inv => AnnouncedIsWhole
  <2> SUFFICES ASSUME Inv, NEW d \in Downloads \ disturbed, receiver[d] = "done"
               PROVE  Whole(Movie[d])
    BY DEF AnnouncedIsWhole
  <2> DEFINE m == Movie[d]
  <2>1. m \in Movies /\ Size[m] \in Nat
    BY ConstantsAssumption
  <2>2. \A k \in 0 .. Size[m] : HasData(m, k) => k \in Places(m)
    BY <2>1, SplitFileSuffices
  <2>3. n_packet[d] = SplitFile(m) /\ \A k \in 0 .. n_packet[d] - 1 : file[m][k] = "right"
    BY DEF Inv, Filling, Total
  <2> QED
    BY <2>2, <2>3 DEF Whole, Places
<1>2. Inv /\ [Next]_vars => Inv'
  BY TypeStep, FillingStep DEF Inv
<1> QED
  BY <1>1, <1>2, InvInit, PTL DEF Spec
=============================================================================
