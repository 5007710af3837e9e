---------------------------- MODULE PurchaseProofs ----------------------------
(***************************************************************************)
(* Theorems about Purchase, for any number of movie servers, purchases,    *)
(* payment services, accounts and tries.                                   *)
(***************************************************************************)
EXTENDS Purchase, TLAPS

(* A purchase is served by one process, once.                              *)
OneServer ==
    /\ \A p, q \in Process : Serving(p) /\ Serving(q) /\ job[p] = job[q] => p = q
    /\ \A p \in Process : Serving(p) => job[p] \notin requests /\ buyer[job[p]] # "idle"
    /\ \A r \in requests : buyer[r] # "idle"

(* Nothing came of r yet.                                                  *)
NotYet(r) == buyer[r] \in {"idle", "waiting", "no_answer"} /\ r \notin tickets \cup unsure

(* What the place of a purchase says of its payment order.                 *)
InTurn ==
    /\ \A r \in Purchases :
          buyer[r] = "idle" \/ r \in requests => NotYet(r) /\ order[r] = "unsent"
    /\ \A p \in Process :
          /\ Serving(p) => NotYet(job[p])
          /\ pc[p] \in {"asking", "located"} => order[job[p]] = "unsent"
          /\ pc[p] = "paying" => order[job[p]] # "unsent"
          /\ pc[p] = "paid" => order[job[p]] = "success"

(* Money was taken only for orders that succeeded: there is no ticket for  *)
(* another, and no refusal for these.                                      *)
Settled ==
    /\ \A r \in Purchases : charged[r] # {} => order[r] = "success"
    /\ \A r \in tickets : order[r] = "success"
    /\ \A r \in Refused : order[r] \in {"unsent", "bad_request", "user_error", "no_cash"}

(* Memory and disk of a running service are the same, or differ by the     *)
(* order it has debited and not saved yet.  (When a save failed before,    *)
(* they differ by more, and nothing is promised of the file.)              *)
Balanced(s) ==
    /\ unsaved[s] = {} => psDatabase[s] = PAYMENT_DB[s]
    /\ \A r \in Purchases :
          unsaved[s] = {r} =>
              /\ PAYMENT_DB[s][Account[r]] > Amount[r]
              /\ psDatabase[s] = [PAYMENT_DB[s] EXCEPT ![Account[r]] = @ - Amount[r]]

(* What only the memory of a running service has are debits of orders that *)
(* were sent to it, the one it is at among them.                           *)
Unwritten(s) ==
    /\ s \notin up => unsaved[s] = {}
    /\ \A r \in unsaved[s] :
          order[r] \in {"debited", "success"} /\ payee[r] = s /\ charged[r] = {}
    /\ \A q, r \in unsaved[s] : order[q] = "debited" /\ order[r] = "debited" => q = r

Books ==
    /\ \A r \in Purchases : order[r] = "debited" => payee[r] \in up /\ r \in unsaved[payee[r]]
    /\ \A s \in Services : Unwritten(s)
    /\ \A s \in up : Balanced(s)

(* Every order that may cost money has a process that waits for its        *)
(* answer, unless it was given up or led to a ticket.                      *)
Costly(r) == order[r] \in {"sent", "debited", "success"}

Open == Purchases \ (tickets \cup unsure)

Waits(p) == pc[p] \in {"paying", "paid"}

Awaited == \A r \in Open : Costly(r) => \E p \in Process : Waits(p) /\ job[p] = r

Orderly == OneServer /\ InTurn /\ Settled /\ Books /\ Awaited
-----------------------------------------------------------------------------
LEMMA AmountIsInt == Amount \in [Purchases -> Int]
  BY ConstantsAssumption DEF Amount

LEMMA TypeInit == Init => TypeOK
<1> SUFFICES ASSUME Init
             PROVE  TypeOK
  OBVIOUS
<1>1. Opening \in Bank /\ 0 \in 0 .. Tries
  BY ConstantsAssumption DEF Bank
<1> QED
  BY <1>1, ConstantsAssumption DEF Init, TypeOK, Serving

LEMMA TypeStep == TypeOK /\ [Next]_vars => TypeOK'
<1> SUFFICES ASSUME TypeOK, [Next]_vars
             PROVE  TypeOK'
  OBVIOUS
<1> USE ConstantsAssumption DEF TypeOK, Serving
<1>1. ASSUME NEW r \in Purchases, Buy(r) \/ GivesUp(r)
      PROVE  TypeOK'
  BY <1>1 DEF Buy, GivesUp, shop, network, payment
<1>2. ASSUME NEW p \in Process, NEW r \in Purchases, Accept(p, r)
      PROVE  TypeOK'
  <2>1. CASE Deny(p, r)
    BY <2>1 DEF Deny, Told, shop, network, payment
  <2>2. CASE UseCache(p, r)
    BY <2>2 DEF UseCache, network, payment
  <2>3. CASE AskLookup(p, r)
    BY <2>3 DEF AskLookup, payment, Datagram
  <2>4. CASE CannotAsk(p, r)
    BY <2>4 DEF CannotAsk, Told, network, payment
  <2> QED
    BY <1>2, <2>1, <2>2, <2>3, <2>4 DEF Accept
<1>3. ASSUME NEW p \in Process, GoOn(p)
      PROVE  TypeOK'
  <2>1. CASE AskAgain(p)
    BY <2>1 DEF AskAgain, payment, Datagram
  <2>2. CASE LookupTimesOut(p)
    BY <2>2 DEF LookupTimesOut, Answer, Told, network, payment
  <2>3. ASSUME NEW d \in Datagram, ReceiveLocation(p, d)
        PROVE  TypeOK'
    <3> DEFINE name == Asked[d.purchase]
    <3>1. CASE name \in Services
      <4>1. /\ UNCHANGED <<buyer, job, requests, queries, up, order, payee, psDatabase,
                          PAYMENT_DB, unsaved, charged, tickets, unsure>>
            /\ pc[p] = "asking" /\ answers' \subseteq answers
            /\ pc' = [pc EXCEPT ![p] = "located"]
            /\ intentos' = [intentos EXCEPT ![p] = 0]
            /\ location' = [location EXCEPT ![p] = name]
        BY <2>3, <3>1 DEF ReceiveLocation, payment
      <4>2. payment_buffer' \in [Process -> SUBSET Services]
        BY <2>3, <3>1 DEF ReceiveLocation
      <4>3. 0 \in 0 .. Tries /\ None \notin Services
        OBVIOUS
      <4>4. /\ location' \in [Process -> Services \cup {None}]
            /\ \A q \in Process :
                  /\ Serving(q)' <=> job'[q] \in Purchases
                  /\ pc'[q] \in {"located", "paying", "paid"} <=> location'[q] \in Services
                  /\ pc'[q] = "asking" <=> intentos'[q] # 0
        BY <3>1, <4>1, <4>3
      <4> QED
        BY <3>1, <4>1, <4>2, <4>3, <4>4
    <3>2. CASE name \notin Services
      <4>1. /\ UNCHANGED <<requests, payment_buffer, queries, up, order, payee, psDatabase,
                          PAYMENT_DB, unsaved, charged, tickets, unsure>>
            /\ pc[p] = "asking" /\ answers' \subseteq answers
            /\ Answer(p, "server_error")
        BY <2>3, <3>2 DEF ReceiveLocation, payment
      <4> QED
        BY <4>1 DEF Answer, Told
    <3> QED
      BY <3>1, <3>2
  <2>4. CASE CannotPay(p)
    BY <2>4 DEF CannotPay, Answer, Told, network, payment
  <2>5. CASE SendOrder(p)
    BY <2>5 DEF SendOrder, network
  <2>6. CASE PaymentSucceeds(p)
    BY <2>6 DEF PaymentSucceeds, network, payment
  <2>7. CASE PaymentRefused(p)
    BY <2>7 DEF PaymentRefused, Answer, Told, network, payment
  <2>8. CASE PaymentTimesOut(p)
    BY <2>8 DEF PaymentTimesOut, Answer, Told, network, payment
  <2>9. CASE IssueTicket(p)
    BY <2>9 DEF IssueTicket, Answer, Told, network, payment
  <2> QED
    BY <1>3, <2>1, <2>2, <2>3, <2>4, <2>5, <2>6, <2>7, <2>8, <2>9 DEF GoOn, PayMovie
<1>4. ASSUME NEW p \in Process, Crash(p) \/ Restart(p)
      PROVE  TypeOK'
  <2>1. CASE Crash(p)
    <3>1. requests' \subseteq Purchases /\ unsure' \subseteq Purchases
      BY <2>1 DEF Crash
    <3> QED
      BY <2>1, <3>1 DEF Crash, network, payment
  <2>2. CASE Restart(p)
    BY <2>2 DEF Restart, network, payment
  <2> QED
    BY <1>4, <2>1, <2>2
<1>5. ASSUME NEW d \in Datagram, LookupAnswers(d) \/ Lose(d)
      PROVE  TypeOK'
  BY <1>5 DEF LookupAnswers, Lose, shop, payment
<1>6. ASSUME NEW s \in Services, NEW r \in Purchases,
             Refuse(s, r) \/ Debit(s, r) \/ SaveAndAnswer(s, r)
      PROVE  TypeOK'
  <2>1. CASE Refuse(s, r)
    BY <2>1 DEF Refuse, shop, network
  <2>2. CASE Debit(s, r)
    <3>1. psDatabase' \in Bank
      <4>1. Account[r] \in Accounts /\ psDatabase[s][Account[r]] - Amount[r] \in Int
        BY AmountIsInt DEF Bank
      <4> QED
        BY <2>2, <4>1 DEF Debit, Bank
    <3> QED
      BY <2>2, <3>1 DEF Debit, shop, network
  <2>3. CASE SaveAndAnswer(s, r)
    <3>1. /\ PAYMENT_DB' \in Bank
          /\ unsaved' \in [Services -> SUBSET Purchases]
          /\ charged' \in [Purchases -> SUBSET Services]
      <4>1. CASE Save(s)
        <5>1. psDatabase[s] \in [Accounts -> Int]
          BY DEF Bank
        <5> QED
          BY <4>1, <5>1 DEF Save, Bank
      <4>2. CASE UNCHANGED <<PAYMENT_DB, charged, unsaved>>
        BY <4>2
      <4> QED
        BY <2>3, <4>1, <4>2 DEF SaveAndAnswer
    <3> QED
      BY <2>3, <3>1 DEF SaveAndAnswer, shop, network
  <2> QED
    BY <1>6, <2>1, <2>2, <2>3
<1>7. ASSUME NEW s \in Services, ServiceCrashes(s) \/ ServiceRestarts(s)
      PROVE  TypeOK'
  <2>1. CASE ServiceCrashes(s)
    BY <2>1 DEF ServiceCrashes, shop, network
  <2>2. CASE ServiceRestarts(s)
    <3>1. psDatabase' \in Bank
      BY <2>2 DEF ServiceRestarts, Bank
    <3> QED
      BY <2>2, <3>1 DEF ServiceRestarts, shop, network
  <2> QED
    BY <1>7, <2>1, <2>2
<1>8. CASE UNCHANGED vars
  BY <1>8 DEF vars, shop, network, payment
<1> QED
  BY <1>1, <1>2, <1>3, <1>4, <1>5, <1>6, <1>7, <1>8 DEF Next

(* Types, with the ties between pc and the registers of a server.          *)
THEOREM TypeCorrect == Spec => []TypeOK
  BY TypeInit, TypeStep, PTL DEF Spec
-----------------------------------------------------------------------------
LEMMA OrderlyInit == Init => Orderly
<1> SUFFICES ASSUME Init
             PROVE  Orderly
  OBVIOUS
<1>1. Refused = {}
  BY DEF Init, Refused
<1> QED
  BY <1>1 DEF Init, Orderly, OneServer, InTurn, NotYet, Settled, Books, Balanced, Unwritten, Awaited, Open,
         Costly, Serving

LEMMA OneServerStep == TypeOK /\ OneServer /\ [Next]_vars => OneServer'
<1> SUFFICES ASSUME TypeOK, OneServer, [Next]_vars
             PROVE  OneServer'
  OBVIOUS
<1> USE ConstantsAssumption DEF OneServer, Serving
<1>1. ASSUME NEW r \in Purchases, Buy(r) \/ GivesUp(r)
      PROVE  OneServer'
  BY <1>1 DEF Buy, GivesUp, shop, TypeOK
<1>2. ASSUME NEW p \in Process, NEW r \in Purchases, Accept(p, r)
      PROVE  OneServer'
  <2>1. /\ r \in requests /\ requests' = requests \ {r} /\ pc[p] = "loop"
        /\ \/ UNCHANGED <<pc, job>>
           \/ /\ pc' \in {[pc EXCEPT ![p] = "located"], [pc EXCEPT ![p] = "asking"]}
              /\ job' = [job EXCEPT ![p] = r]
        /\ \A q \in Purchases : buyer'[q] = "idle" => buyer[q] = "idle"
    BY <1>2 DEF Accept, Deny, UseCache, AskLookup, CannotAsk, Told, shop, TypeOK
  <2>2. CASE UNCHANGED <<pc, job>>
    BY <2>1, <2>2 DEF TypeOK
  <2>3. CASE /\ pc' \in {[pc EXCEPT ![p] = "located"], [pc EXCEPT ![p] = "asking"]}
             /\ job' = [job EXCEPT ![p] = r]
    BY <2>1, <2>3 DEF TypeOK
  <2> QED
    BY <2>1, <2>2, <2>3
<1>3. ASSUME NEW p \in Process, GoOn(p)
      PROVE  OneServer'
  <2>1. /\ requests' = requests /\ (pc'[p] # "loop" => job' = job)
        /\ (pc'[p] = "loop" => job' = [job EXCEPT ![p] = None])
        /\ Serving(p)
        /\ \A q \in Process : q # p => pc'[q] = pc[q]
        /\ \A r \in Purchases : buyer'[r] = "idle" => buyer[r] = "idle"
    BY <1>3 DEF GoOn, PayMovie, AskAgain, LookupTimesOut, ReceiveLocation, CannotPay, SendOrder,
                PaymentSucceeds, PaymentRefused, PaymentTimesOut, IssueTicket, Answer, Told, TypeOK
  <2>2. requests \subseteq Purchases /\ \A q \in Process : Serving(q) => job[q] \in Purchases
    BY DEF TypeOK
  <2>3. \A q \in Process : Serving(q)' => Serving(q) /\ job'[q] = job[q]
    <3>1. job \in [Process -> Purchases \cup {None}]
      BY DEF TypeOK
    <3> QED
      BY <2>1, <3>1
  <2> QED
    BY <2>1, <2>2, <2>3
<1>4. ASSUME NEW p \in Process, Crash(p)
      PROVE  OneServer'
  BY <1>4 DEF Crash, TypeOK
<1>5. ASSUME NEW p \in Process, Restart(p)
      PROVE  OneServer'
  BY <1>5 DEF Restart, TypeOK
<1>6. CASE UNCHANGED <<buyer, requests, pc, job>>
  BY <1>6
<1> QED
  BY <1>1, <1>2, <1>3, <1>4, <1>5, <1>6
  DEF Next, LookupAnswers, Lose, Refuse, Debit, SaveAndAnswer, ServiceCrashes, ServiceRestarts,
      vars, shop

(* The steps in which a server answers its buyer.                          *)
Answers(p) ==
    \/ LookupTimesOut(p)
    \/ \E d \in Datagram : Asked[d.purchase] \notin Services /\ ReceiveLocation(p, d)
    \/ CannotPay(p)
    \/ PaymentRefused(p)
    \/ PaymentTimesOut(p)
    \/ IssueTicket(p)

LEMMA AnswersAre ==
    ASSUME TypeOK, NEW p \in Process, Answers(p)
    PROVE  /\ Serving(p) /\ job[p] \in Purchases
           /\ pc' = [pc EXCEPT ![p] = "loop"] /\ job' = [job EXCEPT ![p] = None]
           /\ UNCHANGED <<requests, order, payee, charged, up, psDatabase, PAYMENT_DB>>
           /\ tickets' \in {tickets, tickets \cup {job[p]}}
           /\ unsure' \in {unsure, unsure \cup {job[p]}}
           /\ \A r \in Purchases : r # job[p] => buyer'[r] = buyer[r]
           /\ buyer'[job[p]] # buyer[job[p]] =>
                  /\ buyer[job[p]] = "waiting"
                  /\ buyer'[job[p]] \in {"error", "server_error", "user_error", "no_cash", "ok"}
<1>1. PICK code \in {"error", "server_error", "user_error", "no_cash", "ok"} :
          Told(job[p], code)
  BY DEF Answers, LookupTimesOut, ReceiveLocation, CannotPay, PaymentRefused, PaymentTimesOut,
         IssueTicket, Answer
<1>2. Serving(p) /\ job[p] \in Purchases
  BY DEF Answers, LookupTimesOut, ReceiveLocation, CannotPay, PaymentRefused, PaymentTimesOut,
         IssueTicket, TypeOK, Serving
<1>3. /\ pc' = [pc EXCEPT ![p] = "loop"] /\ job' = [job EXCEPT ![p] = None]
      /\ UNCHANGED <<requests, order, payee, charged, up, psDatabase, PAYMENT_DB>>
      /\ tickets' \in {tickets, tickets \cup {job[p]}}
      /\ unsure' \in {unsure, unsure \cup {job[p]}}
  BY DEF Answers, LookupTimesOut, ReceiveLocation, CannotPay, PaymentRefused, PaymentTimesOut,
         IssueTicket, Answer, payment
<1> QED
  BY <1>1, <1>2, <1>3 DEF Told, TypeOK

LEMMA InTurnStep == TypeOK /\ OneServer /\ InTurn /\ [Next]_vars => InTurn'
<1> SUFFICES ASSUME TypeOK, OneServer, InTurn, [Next]_vars
             PROVE  InTurn'
  OBVIOUS
<1> USE ConstantsAssumption DEF OneServer, Serving, NotYet
<1>1. ASSUME NEW r \in Purchases, Buy(r) \/ GivesUp(r)
      PROVE  InTurn'
  <2>1. /\ UNCHANGED <<pc, job, order, tickets, unsure>>
        /\ requests' \subseteq requests \cup {r} /\ (requests' # requests => buyer[r] = "idle")
        /\ \A q \in Purchases : q # r => buyer'[q] = buyer[q]
        /\ buyer[r] \in {"idle", "waiting"} /\ buyer'[r] \in {"waiting", "no_answer"}
    BY <1>1 DEF Buy, GivesUp, shop, payment, TypeOK
  <2>2. \A q \in Purchases : NotYet(q) => NotYet(q)'
    BY <2>1
  <2>3. \A q \in Purchases :
           buyer'[q] = "idle" \/ q \in requests' => buyer[q] = "idle" \/ q \in requests
    BY <2>1
  <2>4. \A q \in Process : Serving(q) => job[q] \in Purchases
    BY DEF TypeOK
  <2> QED
    BY <2>1, <2>2, <2>3, <2>4 DEF InTurn
<1>2. ASSUME NEW p \in Process, NEW r \in Purchases, Accept(p, r)
      PROVE  InTurn'
  <2>1. /\ r \in requests /\ requests' = requests \ {r} /\ pc[p] = "loop"
        /\ UNCHANGED <<order, tickets, unsure>>
    BY <1>2 DEF Accept, Deny, UseCache, AskLookup, CannotAsk, payment
  <2>2. CASE UseCache(p, r) \/ AskLookup(p, r)
    BY <2>1, <2>2 DEF UseCache, AskLookup, InTurn, TypeOK
  <2>3. CASE Deny(p, r) \/ CannotAsk(p, r)
    BY <2>1, <2>3 DEF Deny, CannotAsk, Told, shop, InTurn, TypeOK
  <2> QED
    BY <1>2, <2>2, <2>3 DEF Accept
<1>3. ASSUME NEW p \in Process, Answers(p)
      PROVE  InTurn'
  <2>1. /\ Serving(p) /\ UNCHANGED <<requests, order>>
        /\ pc' = [pc EXCEPT ![p] = "loop"] /\ job' = [job EXCEPT ![p] = None]
    BY <1>3, AnswersAre
  <2>2. ASSUME NEW r \in Purchases, r # job[p]
        PROVE  buyer'[r] = buyer[r] /\ (NotYet(r) => NotYet(r)')
    BY <1>3, <2>2, AnswersAre
  <2>3. buyer'[job[p]] # "idle" /\ job[p] \notin requests
    <3>1. buyer[job[p]] # "idle" /\ job[p] \notin requests
      BY <2>1
    <3> QED
      BY <1>3, <3>1, AnswersAre
  <2>4. ASSUME NEW r \in Purchases, buyer'[r] = "idle" \/ r \in requests'
        PROVE  NotYet(r)' /\ order'[r] = "unsent"
    <3>1. r # job[p]
      BY <2>1, <2>3, <2>4
    <3>2. NotYet(r) /\ order[r] = "unsent"
      BY <2>1, <2>2, <2>4, <3>1 DEF InTurn
    <3> QED
      BY <2>1, <2>2, <3>1, <3>2
  <2>5. ASSUME NEW q \in Process, Serving(q)'
        PROVE  q # p /\ pc'[q] = pc[q] /\ job'[q] = job[q] /\ NotYet(job[q])'
    <3>1. q # p /\ pc'[q] = pc[q] /\ job'[q] = job[q]
      BY <2>1, <2>5 DEF TypeOK
    <3>2. job[q] \in Purchases /\ job[q] # job[p] /\ NotYet(job[q])
      BY <2>1, <2>5, <3>1 DEF InTurn, TypeOK
    <3> QED
      BY <2>2, <3>1, <3>2
  <2> QED
    BY <2>1, <2>4, <2>5 DEF InTurn
<1>4. ASSUME NEW p \in Process, GoOn(p), ~Answers(p)
      PROVE  InTurn'
  <2>1. /\ UNCHANGED <<requests, buyer, tickets, unsure, job>> /\ Serving(p)
        /\ \/ order' = order /\ pc' = pc
           \/ order' = order /\ pc[p] = "asking" /\ pc' = [pc EXCEPT ![p] = "located"]
           \/ SendOrder(p)
           \/ order' = order /\ order[job[p]] = "success" /\ pc' = [pc EXCEPT ![p] = "paid"]
    BY <1>4 DEF GoOn, PayMovie, Answers, AskAgain, ReceiveLocation, SendOrder, PaymentSucceeds, payment
  <2>2. job[p] \in Purchases
    BY <2>1 DEF TypeOK
  <2>3. CASE order' = order
    BY <2>1, <2>2, <2>3 DEF InTurn, TypeOK, SendOrder
  <2>4. CASE SendOrder(p)
    BY <2>1, <2>2, <2>4 DEF InTurn, TypeOK, SendOrder
  <2> QED
    BY <2>1, <2>3, <2>4
<1>5. ASSUME NEW p \in Process, Crash(p)
      PROVE  InTurn'
  BY <1>5 DEF Crash, payment, InTurn, TypeOK
<1>6. ASSUME NEW p \in Process, Restart(p)
      PROVE  InTurn'
  BY <1>6 DEF Restart, payment, InTurn, TypeOK
<1>7. ASSUME UNCHANGED <<buyer, requests, pc, job, tickets, unsure>>,
             \A r \in Purchases :
                order'[r] # order[r] => order[r] \in {"sent", "debited"} /\ order'[r] # "unsent"
      PROVE  InTurn'
  BY <1>7 DEF InTurn, TypeOK
<1>8. ASSUME NEW s \in Services, NEW r \in Purchases,
             Refuse(s, r) \/ Debit(s, r) \/ SaveAndAnswer(s, r)
      PROVE  InTurn'
  BY <1>7, <1>8 DEF Refuse, Takes, Debit, SaveAndAnswer, shop, TypeOK
<1>9. ASSUME NEW s \in Services, ServiceCrashes(s) \/ ServiceRestarts(s)
      PROVE  InTurn'
  BY <1>7, <1>9 DEF ServiceCrashes, ServiceRestarts, shop, TypeOK
<1>10. CASE UNCHANGED <<buyer, requests, pc, job, tickets, unsure, order>>
  BY <1>7, <1>10
<1> QED
  BY <1>1, <1>2, <1>3, <1>4, <1>5, <1>6, <1>8, <1>9, <1>10
  DEF Next, LookupAnswers, Lose, vars, shop, payment

LEMMA AnswersSettle ==
    ASSUME TypeOK, OneServer, InTurn, Settled, NEW p \in Process, Answers(p)
    PROVE  Settled'
<1> DEFINE r == job[p]
<1>1. /\ r \in Purchases /\ NotYet(r) /\ r \notin Refused
      /\ UNCHANGED <<order, charged>> /\ unsure' \in {unsure, unsure \cup {r}}
      /\ \A q \in Purchases : q # r => buyer'[q] = buyer[q]
  BY AnswersAre DEF InTurn, NotYet, Refused
<1>2. ASSUME NEW q \in tickets'
      PROVE  order[q] = "success"
  BY <1>2 DEF Answers, LookupTimesOut, ReceiveLocation, CannotPay, PaymentRefused,
              PaymentTimesOut, IssueTicket, Settled, InTurn
<1>3. ASSUME r \in Refused'
      PROVE  order[r] \in {"unsent", "bad_request", "user_error", "no_cash"}
  <2>1. ~IssueTicket(p) /\ ~PaymentTimesOut(p)
    BY <1>1, <1>3 DEF IssueTicket, PaymentTimesOut, Answer, Told, Refused, NotYet, TypeOK
  <2> QED
    BY <2>1
    DEF Answers, LookupTimesOut, ReceiveLocation, CannotPay, PaymentRefused, InTurn
<1>4. ASSUME NEW q \in Refused', q # r
      PROVE  q \in Refused
  BY <1>1, <1>4 DEF Refused
<1> HIDE DEF r
<1> QED
  BY <1>1, <1>2, <1>3, <1>4 DEF Settled

LEMMA SettledStep == TypeOK /\ OneServer /\ InTurn /\ Settled /\ Books /\ [Next]_vars => Settled'
<1> SUFFICES ASSUME TypeOK, OneServer, InTurn, Settled, Books, [Next]_vars
             PROVE  Settled'
  OBVIOUS
<1>1. ASSUME Refused' \subseteq Refused, UNCHANGED <<order, charged, tickets>>
      PROVE  Settled'
  BY <1>1 DEF Settled
<1>2. ASSUME NEW r \in Purchases, Buy(r) \/ GivesUp(r)
      PROVE  Settled'
  BY <1>1, <1>2 DEF Buy, GivesUp, payment, Refused, TypeOK
<1>3. ASSUME NEW p \in Process, NEW r \in Purchases, Accept(p, r)
      PROVE  Settled'
  <2>1. /\ r \in requests /\ order[r] = "unsent"
        /\ UNCHANGED <<order, charged, tickets, unsure>>
        /\ \A q \in Purchases : q # r => buyer'[q] = buyer[q]
    BY <1>3 DEF Accept, Deny, UseCache, AskLookup, CannotAsk, Told, payment, InTurn, TypeOK
  <2> QED
    BY <2>1 DEF Settled, Refused
<1>4. ASSUME NEW p \in Process, GoOn(p), ~Answers(p)
      PROVE  Settled'
  <2>1. UNCHANGED <<buyer, charged, tickets, unsure>> /\ (SendOrder(p) \/ order' = order)
    BY <1>4 DEF GoOn, PayMovie, Answers, AskAgain, ReceiveLocation, SendOrder, PaymentSucceeds, payment
  <2>2. CASE order' = order
    BY <1>1, <2>1, <2>2 DEF Refused
  <2>3. CASE SendOrder(p)
    <3>1. /\ order' = [order EXCEPT ![job[p]] = "sent"]
          /\ job[p] \in Purchases \ Refused /\ order[job[p]] = "unsent"
      BY <2>3 DEF SendOrder, InTurn, NotYet, Refused, Serving, TypeOK
    <3> QED
      BY <2>1, <3>1 DEF Settled, Refused, TypeOK
  <2> QED
    BY <2>1, <2>2, <2>3
<1>5. ASSUME NEW p \in Process, Crash(p) \/ Restart(p)
      PROVE  Settled'
  BY <1>1, <1>5 DEF Crash, Restart, payment, Refused
<1>6. ASSUME NEW s \in Services, NEW r \in Purchases,
             Refuse(s, r) \/ Debit(s, r) \/ SaveAndAnswer(s, r)
      PROVE  Settled'
  <2>1. UNCHANGED <<buyer, tickets, unsure>> /\ order[r] \in {"sent", "debited"}
    BY <1>6 DEF Refuse, Takes, Debit, SaveAndAnswer
  <2>2. CASE Refuse(s, r) \/ Debit(s, r)
    BY <2>1, <2>2 DEF Refuse, Debit, Settled, Refused, TypeOK
  <2>3. CASE SaveAndAnswer(s, r)
    <3>1. /\ order[r] = "debited" /\ order' = [order EXCEPT ![r] = "success"]
          /\ \A q \in Purchases : charged'[q] # charged[q] => q \in unsaved[s]
      BY <2>3 DEF SaveAndAnswer, Save, TypeOK
    <3>2. \A q \in unsaved[s] : order'[q] = "success"
      <4>1. r \in unsaved[s] /\ Unwritten(s)
        BY <2>3, <3>1 DEF Books, SaveAndAnswer
      <4> QED
        BY <3>1, <4>1 DEF Unwritten, TypeOK
    <3>3. \A q \in Purchases : charged'[q] # {} => order'[q] = "success"
      BY <3>1, <3>2 DEF Settled, TypeOK
    <3>4. Refused' = Refused /\ r \notin Refused /\ r \notin tickets
      BY <2>1, <3>1 DEF Settled, Refused
    <3> QED
      BY <2>1, <3>1, <3>3, <3>4 DEF Settled, TypeOK
  <2> QED
    BY <1>6, <2>2, <2>3
<1>7. ASSUME NEW s \in Services, ServiceCrashes(s) \/ ServiceRestarts(s)
      PROVE  Settled'
  BY <1>7 DEF ServiceCrashes, ServiceRestarts, Settled, Refused, TypeOK
<1>8. CASE UNCHANGED <<buyer, order, charged, tickets, unsure>>
  BY <1>1, <1>8 DEF Refused
<1> QED
  BY <1>2, <1>3, <1>4, <1>5, <1>6, <1>7, <1>8, AnswersSettle
  DEF Next, LookupAnswers, Lose, vars, payment
-----------------------------------------------------------------------------
LEMMA StaysBalanced ==
    ASSUME NEW s, Balanced(s), unsaved'[s] = unsaved[s],
           psDatabase'[s] = psDatabase[s], PAYMENT_DB'[s] = PAYMENT_DB[s]
    PROVE  Balanced(s)'
BY DEF Balanced

(* A step that changes only orders that no service has debited.            *)
LEMMA BooksStay ==
    ASSUME TypeOK, Books, UNCHANGED <<up, psDatabase, PAYMENT_DB, unsaved, charged>>,
           \A r \in Purchases :
              \/ order'[r] = order[r] /\ payee'[r] = payee[r]
              \/ order[r] \notin {"debited", "success"} /\ order'[r] # "debited"
    PROVE  Books'
<1>1. \A s \in up' : Balanced(s)'
  BY StaysBalanced DEF Books
<1>2. ASSUME NEW s \in Services
      PROVE  Unwritten(s)'
  <2>1. Unwritten(s) /\ unsaved[s] \subseteq Purchases
    BY DEF Books, TypeOK
  <2>2. \A r \in unsaved[s] : order'[r] = order[r] /\ payee'[r] = payee[r]
    BY <2>1 DEF Unwritten
  <2> QED
    BY <2>1, <2>2 DEF Unwritten
<1>3. \A r \in Purchases :
         order'[r] = "debited" => payee'[r] \in up' /\ r \in unsaved'[payee'[r]]
  BY DEF Books
<1> QED
  BY <1>1, <1>2, <1>3 DEF Books

LEMMA BooksStep == TypeOK /\ InTurn /\ Settled /\ Books /\ [Next]_vars => Books'
<1> SUFFICES ASSUME TypeOK, InTurn, Settled, Books, [Next]_vars
             PROVE  Books'
  OBVIOUS
<1>1. CASE UNCHANGED payment
  BY <1>1, BooksStay DEF payment
<1>2. ASSUME NEW p \in Process, SendOrder(p)
      PROVE  Books'
  <2>1. /\ job[p] \in Purchases /\ order[job[p]] = "unsent"
        /\ order' = [order EXCEPT ![job[p]] = "sent"]
        /\ payee' = [payee EXCEPT ![job[p]] = location[p]]
        /\ UNCHANGED <<up, psDatabase, PAYMENT_DB, unsaved, charged>>
    BY <1>2 DEF SendOrder, InTurn, Serving, TypeOK
  <2> QED
    BY <2>1, BooksStay DEF TypeOK
<1>3. ASSUME NEW s \in Services, NEW r \in Purchases, Refuse(s, r)
      PROVE  Books'
  <2>1. PICK code \in {"bad_request", "user_error", "no_cash"} :
            order' = [order EXCEPT ![r] = code]
    BY <1>3 DEF Refuse
  <2>2. order[r] = "sent" /\ UNCHANGED <<up, payee, psDatabase, PAYMENT_DB, unsaved, charged>>
    BY <1>3 DEF Refuse, Takes
  <2> QED
    BY <2>1, <2>2, BooksStay DEF TypeOK
<1>4. ASSUME NEW s \in Services, NEW r \in Purchases, Debit(s, r)
      PROVE  Books'
  <2>1. /\ s \in up /\ order[r] = "sent" /\ payee[r] = s
        /\ order' = [order EXCEPT ![r] = "debited"]
        /\ unsaved' = [unsaved EXCEPT ![s] = @ \cup {r}]
        /\ UNCHANGED <<up, payee, PAYMENT_DB, charged>>
        /\ \A q \in Purchases : ~(order[q] = "debited" /\ payee[q] = s)
    BY <1>4 DEF Debit, Takes
  <2>2. unsaved'[s] = unsaved[s] \cup {r} /\ \A t \in Services : t # s => unsaved'[t] = unsaved[t]
    BY <2>1 DEF TypeOK
  <2>3. \A t \in Services : t # s => psDatabase'[t] = psDatabase[t]
    BY <1>4 DEF Debit, TypeOK, Bank
  <2>4. Balanced(s)'
    <3>1. r \notin unsaved[s] /\ Balanced(s)
      BY <2>1 DEF Books, Unwritten, TypeOK
    <3>2. unsaved'[s] # {}
      BY <2>2
    <3>3. ASSUME NEW q \in Purchases, unsaved'[s] = {q}
          PROVE  q = r /\ unsaved[s] = {}
      BY <2>2, <3>1, <3>3
    <3>4. ASSUME unsaved[s] = {}
          PROVE  /\ PAYMENT_DB[s][Account[r]] > Amount[r]
                 /\ psDatabase'[s] = [PAYMENT_DB[s] EXCEPT ![Account[r]] = @ - Amount[r]]
      <4>1. psDatabase[s] = PAYMENT_DB[s]
        BY <3>1, <3>4 DEF Balanced
      <4> QED
        BY <1>4, <4>1 DEF Debit, Enough, TypeOK, Bank
    <3> QED
      BY <2>1, <3>2, <3>3, <3>4 DEF Balanced
  <2>5. ASSUME NEW t \in up', t # s
        PROVE  Balanced(t)'
    <3>1. t \in Services /\ Balanced(t)
      BY <2>1, <2>5 DEF Books, TypeOK
    <3> QED
      BY <2>1, <2>2, <2>3, <2>5, <3>1, StaysBalanced
  <2>6. ASSUME NEW t \in Services
        PROVE  Unwritten(t)'
    <3>1. Unwritten(t) /\ unsaved[t] \subseteq Purchases
      BY DEF Books, TypeOK
    <3>2. charged[r] = {}
      BY <2>1 DEF Settled
    <3>3. \A q \in unsaved[t] : q # r
      BY <2>1, <3>1 DEF Unwritten
    <3>4. \A q \in unsaved[t] : order'[q] = order[q]
      BY <2>1, <3>1, <3>3 DEF TypeOK
    <3>5. CASE t = s
      <4>1. \A q \in unsaved[s] : order[q] # "debited"
        BY <2>1, <3>1, <3>5 DEF Unwritten
      <4> QED
        BY <2>1, <2>2, <3>1, <3>2, <3>4, <3>5, <4>1 DEF Unwritten, TypeOK
    <3>6. CASE t # s
      BY <2>1, <2>2, <3>1, <3>4, <3>6 DEF Unwritten
    <3> QED
      BY <3>5, <3>6
  <2>7. \A q \in Purchases :
           order'[q] = "debited" => payee'[q] \in up' /\ q \in unsaved'[payee'[q]]
    <3>1. \A q \in Purchases : q # r => order'[q] = order[q]
      BY <2>1 DEF TypeOK
    <3>2. \A q \in Purchases :
             order[q] = "debited" => payee[q] \in Services /\ q \in unsaved[payee[q]]
      BY DEF Books, TypeOK
    <3>3. \A t \in Services : unsaved[t] \subseteq unsaved'[t]
      BY <2>2
    <3> QED
      BY <2>1, <2>2, <3>1, <3>2, <3>3 DEF Books
  <2> QED
    BY <2>1, <2>4, <2>5, <2>6, <2>7 DEF Books
<1>5. ASSUME NEW s \in Services, NEW r \in Purchases, SaveAndAnswer(s, r)
      PROVE  Books'
  <2>1. /\ s \in up /\ order[r] = "debited" /\ payee[r] = s
        /\ order' = [order EXCEPT ![r] = "success"]
        /\ UNCHANGED <<up, payee, psDatabase>>
        /\ Save(s) \/ UNCHANGED <<PAYMENT_DB, charged, unsaved>>
    BY <1>5 DEF SaveAndAnswer
  <2>2. r \in unsaved[s] /\ Unwritten(s)
    BY <2>1 DEF Books
  <2>3. \A q \in Purchases : order'[q] = "debited" => order[q] = "debited" /\ q # r /\ payee[q] # s
    <3>1. \A q \in Purchases : order[q] = "debited" /\ payee[q] = s => q = r
      BY <2>1, <2>2 DEF Books, Unwritten
    <3> QED
      BY <2>1, <3>1 DEF TypeOK
  <2>4. /\ \A t \in Services : t # s => /\ unsaved'[t] = unsaved[t]
                                       /\ PAYMENT_DB'[t] = PAYMENT_DB[t]
        /\ \A q \in Purchases : q \notin unsaved[s] => charged'[q] = charged[q]
        /\ \/ unsaved'[s] = {} /\ PAYMENT_DB'[s] = psDatabase[s]
           \/ UNCHANGED <<PAYMENT_DB, charged, unsaved>>
    BY <2>1 DEF Save, TypeOK, Bank
  <2>5. Balanced(s)'
    <3>1. CASE unsaved'[s] = {} /\ PAYMENT_DB'[s] = psDatabase[s]
      BY <2>1, <3>1 DEF Balanced
    <3>2. CASE UNCHANGED <<PAYMENT_DB, charged, unsaved>>
      BY <2>1, <3>2, StaysBalanced DEF Books
    <3> QED
      BY <2>4, <3>1, <3>2
  <2>6. ASSUME NEW t \in up', t # s
        PROVE  Balanced(t)'
    <3>1. t \in Services /\ Balanced(t)
      BY <2>1, <2>6 DEF Books, TypeOK
    <3> QED
      BY <2>1, <2>4, <2>6, <3>1, StaysBalanced
  <2>7. ASSUME NEW t \in Services
        PROVE  Unwritten(t)'
    <3>1. Unwritten(t) /\ unsaved[t] \subseteq Purchases
      BY DEF Books, TypeOK
    <3>2. \A q \in Purchases : order[q] \in {"debited", "success"} => order'[q] \in {"debited", "success"}
      BY <2>1 DEF TypeOK
    <3>3. CASE t # s
      <4>1. \A q \in unsaved[t] : q \notin unsaved[s]
        BY <2>2, <3>1, <3>3 DEF Unwritten
      <4>2. \A q \in unsaved[t] : charged'[q] = charged[q]
        BY <2>4, <3>1, <4>1
      <4> QED
        BY <2>1, <2>3, <2>4, <3>1, <3>2, <3>3, <4>2 DEF Unwritten
    <3>4. CASE t = s /\ unsaved'[s] = {}
      BY <3>4 DEF Unwritten
    <3>5. CASE t = s /\ UNCHANGED <<PAYMENT_DB, charged, unsaved>>
      BY <2>1, <2>3, <3>1, <3>2, <3>5 DEF Unwritten
    <3> QED
      BY <2>4, <3>3, <3>4, <3>5
  <2>8. \A q \in Purchases :
           order'[q] = "debited" => payee'[q] \in up' /\ q \in unsaved'[payee'[q]]
    <3>1. \A q \in Purchases :
             order[q] = "debited" => payee[q] \in Services /\ q \in unsaved[payee[q]]
      BY DEF Books, TypeOK
    <3> QED
      BY <2>1, <2>3, <2>4, <3>1 DEF Books
  <2> QED
    BY <2>5, <2>6, <2>7, <2>8 DEF Books
<1>6. ASSUME NEW s \in Services, ServiceCrashes(s)
      PROVE  Books'
  <2>1. /\ up' = up \ {s} /\ UNCHANGED <<payee, psDatabase, PAYMENT_DB, charged>>
        /\ unsaved'[s] = {} /\ \A t \in Services : t # s => unsaved'[t] = unsaved[t]
        /\ \A q \in Purchases :
              /\ payee[q] = s => order'[q] # "debited"
              /\ payee[q] # s => order'[q] = order[q]
    BY <1>6 DEF ServiceCrashes, TypeOK
  <2>2. ASSUME NEW t \in up'
        PROVE  Balanced(t)'
    <3>1. t \in Services /\ t # s /\ Balanced(t)
      BY <2>1, <2>2 DEF Books, TypeOK
    <3> QED
      BY <2>1, <3>1, StaysBalanced
  <2>3. ASSUME NEW t \in Services
        PROVE  Unwritten(t)'
    <3>1. Unwritten(t) /\ unsaved[t] \subseteq Purchases
      BY DEF Books, TypeOK
    <3>2. CASE t = s
      BY <2>1, <3>2 DEF Unwritten
    <3>3. CASE t # s
      <4>1. \A q \in unsaved[t] : order'[q] = order[q]
        BY <2>1, <3>1, <3>3 DEF Unwritten
      <4> QED
        BY <2>1, <3>1, <3>3, <4>1 DEF Unwritten
    <3> QED
      BY <3>2, <3>3
  <2>4. \A q \in Purchases :
           order'[q] = "debited" => payee'[q] \in up' /\ q \in unsaved'[payee'[q]]
    <3>1. \A q \in Purchases :
             order[q] = "debited" => payee[q] \in Services /\ q \in unsaved[payee[q]]
      BY DEF Books, TypeOK
    <3> QED
      BY <2>1, <3>1 DEF Books
  <2> QED
    BY <2>2, <2>3, <2>4 DEF Books
<1>7. ASSUME NEW s \in Services, ServiceRestarts(s)
      PROVE  Books'
  <2>1. /\ s \notin up /\ up' = up \cup {s}
        /\ UNCHANGED <<order, payee, PAYMENT_DB, unsaved, charged>>
        /\ psDatabase'[s] = PAYMENT_DB[s]
        /\ \A t \in Services : t # s => psDatabase'[t] = psDatabase[t]
    BY <1>7 DEF ServiceRestarts, TypeOK, Bank
  <2>2. unsaved[s] = {} /\ \A t \in Services : Unwritten(t)'
    BY <2>1 DEF Unwritten, Books
  <2>3. Balanced(s)'
    BY <2>1, <2>2 DEF Balanced
  <2>4. ASSUME NEW t \in up', t # s
        PROVE  Balanced(t)'
    <3>1. t \in Services /\ Balanced(t)
      BY <2>1, <2>4 DEF Books, TypeOK
    <3> QED
      BY <2>1, <2>4, <3>1, StaysBalanced
  <2>5. \A q \in Purchases :
           order'[q] = "debited" => payee'[q] \in up' /\ q \in unsaved'[payee'[q]]
    BY <2>1 DEF Books
  <2> QED
    BY <2>2, <2>3, <2>4, <2>5 DEF Books
<1>8. ASSUME NEW p \in Process, NEW r \in Purchases, Accept(p, r)
      PROVE  UNCHANGED payment
  BY <1>8 DEF Accept, Deny, UseCache, AskLookup, CannotAsk
<1>9. ASSUME NEW p \in Process, GoOn(p), ~SendOrder(p)
      PROVE  UNCHANGED payment
  BY <1>9 DEF GoOn, PayMovie, AskAgain, LookupTimesOut, ReceiveLocation, CannotPay, PaymentSucceeds,
              PaymentRefused, PaymentTimesOut, IssueTicket
<1>10. ASSUME NEW p \in Process, Crash(p) \/ Restart(p)
       PROVE  UNCHANGED payment
  BY <1>10 DEF Crash, Restart
<1>11. ASSUME NEW r \in Purchases, Buy(r) \/ GivesUp(r)
       PROVE  UNCHANGED payment
  BY <1>11 DEF Buy, GivesUp
<1>12. ASSUME NEW d \in Datagram, LookupAnswers(d) \/ Lose(d)
       PROVE  UNCHANGED payment
  BY <1>12 DEF LookupAnswers, Lose
<1>13. UNCHANGED vars => UNCHANGED payment
  BY DEF vars
<1> QED
  BY <1>1, <1>2, <1>3, <1>4, <1>5, <1>6, <1>7, <1>8, <1>9, <1>10, <1>11, <1>12, <1>13 DEF Next

LEMMA AwaitedStep == TypeOK /\ Awaited /\ [Next]_vars => Awaited'
<1> SUFFICES ASSUME TypeOK, Awaited, [Next]_vars
             PROVE  Awaited'
  OBVIOUS
<1> DEFINE NoneNew == \A r \in Open' : Costly(r)' => r \in Open /\ Costly(r)
           GoesOnWaiting(p) == Waits(p) => Waits(p)' /\ job'[p] = job[p]
<1>1. ASSUME NoneNew, \A p \in Process : GoesOnWaiting(p)
      PROVE  Awaited'
  BY <1>1 DEF Awaited
<1>2. ASSUME NoneNew, NEW p \in Process, \A q \in Process : q # p => GoesOnWaiting(q),
             \A r \in Open' : Costly(r)' => ~(Waits(p) /\ job[p] = r)
      PROVE  Awaited'
  BY <1>2 DEF Awaited
<1>3. ASSUME UNCHANGED <<order, tickets, unsure>>
      PROVE  NoneNew
  BY <1>3 DEF Open, Costly
<1>4. ASSUME UNCHANGED <<pc, job>>, NEW p \in Process
      PROVE  GoesOnWaiting(p)
  BY <1>4 DEF Waits
<1>5. ASSUME UNCHANGED <<pc, job, order, tickets, unsure>>
      PROVE  Awaited'
  BY <1>1, <1>3, <1>4, <1>5
<1>6. ASSUME NEW p \in Process, NEW r \in Purchases, Accept(p, r)
      PROVE  Awaited'
  <2>1. /\ UNCHANGED <<order, tickets, unsure>> /\ pc[p] = "loop"
        /\ \A q \in Process : q # p => pc'[q] = pc[q] /\ job'[q] = job[q]
    BY <1>6 DEF Accept, Deny, UseCache, AskLookup, CannotAsk, shop, payment, TypeOK
  <2>2. \A q \in Process : GoesOnWaiting(q)
    BY <2>1 DEF Waits
  <2> QED
    BY <1>1, <1>3, <2>1, <2>2
<1>7. ASSUME NEW p \in Process, Answers(p)
      PROVE  Awaited'
  <2>1. /\ order' = order /\ tickets \subseteq tickets' /\ unsure \subseteq unsure'
        /\ \A q \in Process : q # p => pc'[q] = pc[q] /\ job'[q] = job[q]
    BY <1>7, AnswersAre DEF TypeOK
  <2>2. NoneNew /\ \A q \in Process : q # p => GoesOnWaiting(q)
    BY <2>1 DEF Open, Costly, Waits
  <2>3. Waits(p) => job[p] \in tickets' \cup unsure' \/ ~Costly(job[p])
    BY <1>7
    DEF Answers, LookupTimesOut, ReceiveLocation, CannotPay, PaymentRefused, PaymentTimesOut,
        IssueTicket, Waits, Costly
  <2>4. \A r \in Open' : Costly(r)' => ~(Waits(p) /\ job[p] = r)
    BY <2>1, <2>3 DEF Open, Costly
  <2> QED
    BY <1>2, <2>2, <2>4
<1>8. ASSUME NEW p \in Process, GoOn(p), ~Answers(p)
      PROVE  Awaited'
  <2>1. /\ UNCHANGED <<job, tickets, unsure>>
        /\ \/ SendOrder(p)
           \/ order' = order /\ pc' = pc
           \/ order' = order /\ pc[p] = "asking" /\ \A q \in Process : q # p => pc'[q] = pc[q]
           \/ order' = order /\ pc' = [pc EXCEPT ![p] = "paid"]
    BY <1>8 DEF GoOn, PayMovie, Answers, AskAgain, ReceiveLocation, SendOrder, PaymentSucceeds, payment, TypeOK
  <2>2. CASE order' = order
    <3>1. \A q \in Process : GoesOnWaiting(q)
      BY <2>1, <2>2 DEF Waits, SendOrder, TypeOK
    <3> QED
      BY <1>1, <1>3, <2>1, <2>2, <3>1
  <2>3. CASE SendOrder(p)
    <3>1. /\ \A r \in Purchases : r # job[p] => order'[r] = order[r]
          /\ pc' = [pc EXCEPT ![p] = "paying"] /\ pc[p] = "located"
      BY <2>3 DEF SendOrder, TypeOK
    <3>2. Waits(p)' /\ job'[p] = job[p] /\ \A q \in Process : GoesOnWaiting(q)
      BY <2>1, <3>1 DEF Waits, TypeOK
    <3>3. \A r \in Open' : r # job[p] => r \in Open /\ (Costly(r)' => Costly(r))
      BY <2>1, <3>1 DEF Open, Costly
    <3> QED
      BY <3>2, <3>3 DEF Awaited
  <2> QED
    BY <2>1, <2>2, <2>3
<1>9. ASSUME NEW p \in Process, Crash(p)
      PROVE  Awaited'
  <2>1. /\ UNCHANGED <<order, tickets>> /\ unsure \subseteq unsure'
        /\ \A q \in Process : q # p => pc'[q] = pc[q] /\ job'[q] = job[q]
        /\ Waits(p) => job[p] \in unsure'
    BY <1>9 DEF Crash, payment, Waits, TypeOK
  <2>2. NoneNew /\ \A q \in Process : q # p => GoesOnWaiting(q)
    BY <2>1 DEF Open, Costly, Waits
  <2>3. \A r \in Open' : ~(Waits(p) /\ job[p] = r)
    BY <2>1 DEF Open
  <2> QED
    BY <1>2, <2>2, <2>3
<1>10. ASSUME NEW p \in Process, Restart(p)
       PROVE  Awaited'
  <2>1. /\ UNCHANGED <<order, tickets, unsure, job>> /\ pc[p] = "down"
        /\ pc' = [pc EXCEPT ![p] = "loop"]
    BY <1>10 DEF Restart, payment
  <2>2. \A q \in Process : GoesOnWaiting(q)
    BY <2>1 DEF Waits, TypeOK
  <2> QED
    BY <1>1, <1>3, <2>1, <2>2
<1>11. ASSUME UNCHANGED <<pc, job, tickets, unsure>>, \A r \in Purchases : Costly(r)' => Costly(r)
       PROVE  Awaited'
  <2>1. NoneNew
    BY <1>11 DEF Open
  <2> QED
    BY <1>1, <1>4, <1>11, <2>1
<1>12. ASSUME NEW s \in Services, NEW r \in Purchases,
              Refuse(s, r) \/ Debit(s, r) \/ SaveAndAnswer(s, r)
       PROVE  Awaited'
  <2>1. UNCHANGED <<pc, job, tickets, unsure>> /\ Costly(r)
    BY <1>12 DEF Refuse, Takes, Debit, SaveAndAnswer, shop, Costly
  <2>2. \A q \in Purchases : Costly(q)' => Costly(q)
    BY <1>12, <2>1 DEF Refuse, Debit, SaveAndAnswer, Costly, TypeOK
  <2> QED
    BY <1>11, <2>1, <2>2
<1>13. ASSUME NEW s \in Services, ServiceCrashes(s)
       PROVE  Awaited'
  <2>1. UNCHANGED <<pc, job, tickets, unsure>> /\ \A q \in Purchases : Costly(q)' => Costly(q)
    BY <1>13 DEF ServiceCrashes, shop, Costly
  <2> QED
    BY <1>11, <2>1
<1> QED
  BY <1>5, <1>6, <1>7, <1>8, <1>9, <1>10, <1>12, <1>13
  DEF Next, Buy, GivesUp, LookupAnswers, Lose, ServiceRestarts, vars, shop, payment

LEMMA OrderlyStep == TypeOK /\ Orderly /\ [Next]_vars => Orderly'
  BY OneServerStep, InTurnStep, SettledStep, BooksStep, AwaitedStep DEF Orderly

(* The inductive invariant behind the theorems that follow.                *)
THEOREM PurchasesAreOrderly == Spec => [](TypeOK /\ Orderly)
  BY TypeInit, TypeStep, OrderlyInit, OrderlyStep, PTL DEF Spec

(* Money without a ticket: only when the movie server gave the payment up  *)
(* or crashed.                                                             *)
THEOREM MoneyStays == Spec => []MoneyIsNotLost
<1>1. TypeOK /\ Orderly => MoneyIsNotLost
  BY DEF Orderly, Settled, Awaited, Open, Costly, Waits, MoneyIsNotLost, Paid
<1> QED
  BY <1>1, PurchasesAreOrderly, PTL
-----------------------------------------------------------------------------
LEMMA ShopInit == Init => Shop!Init
<1> SUFFICES ASSUME Init
             PROVE  Shop!Init
  OBVIOUS
<1>1. Paid = {} /\ Refused = {}
  BY DEF Init, Paid, Refused
<1> QED
  BY <1>1, ConstantsAssumption DEF Init, Shop!Init

LEMMA ShopStutters ==
    UNCHANGED <<PAYMENT_DB, charged, tickets>> /\ Refused' = Refused => UNCHANGED Shop!vars
  BY DEF Shop!vars, Paid

LEMMA ShopRefuses ==
    ASSUME NEW r \in Purchases, r \notin Paid, Refused' \in {Refused, Refused \cup {r}},
           UNCHANGED <<PAYMENT_DB, charged, tickets>>
    PROVE  [Shop!Next]_Shop!vars
<1>1. Paid' = Paid
  BY DEF Paid
<1> QED
  BY <1>1 DEF Shop!Next, Shop!Refuse, Shop!vars

LEMMA ShopStep ==
    TypeOK /\ Orderly /\ [Next]_vars => [AnsweredIsSaved => Shop!Next]_Shop!vars
<1> SUFFICES ASSUME TypeOK, Orderly, [Next]_vars, AnsweredIsSaved
             PROVE  [Shop!Next]_Shop!vars
  OBVIOUS
<1>a. OneServer /\ InTurn /\ Settled /\ Books
  BY DEF Orderly
<1>1. CASE UNCHANGED <<buyer, PAYMENT_DB, charged, tickets, unsure>>
  BY <1>1, ShopStutters DEF Refused
<1>2. ASSUME NEW r \in Purchases, Buy(r) \/ GivesUp(r)
      PROVE  [Shop!Next]_Shop!vars
  <2>1. Refused' = Refused /\ UNCHANGED <<PAYMENT_DB, charged, tickets>>
    BY <1>2 DEF Buy, GivesUp, payment, Refused, TypeOK
  <2> QED
    BY <2>1, ShopStutters
<1>3. ASSUME NEW p \in Process, NEW r \in Purchases, Accept(p, r)
      PROVE  [Shop!Next]_Shop!vars
  <2>1. /\ r \in requests /\ order[r] = "unsent"
        /\ UNCHANGED <<PAYMENT_DB, charged, tickets, unsure>>
        /\ \A q \in Purchases : q # r => buyer'[q] = buyer[q]
    BY <1>a, <1>3
    DEF Accept, Deny, UseCache, AskLookup, CannotAsk, Told, payment, InTurn, TypeOK
  <2>2. r \notin Paid /\ r \notin Refused
    BY <1>a, <2>1 DEF Paid, Settled, InTurn, NotYet, Refused
  <2>3. Refused' \in {Refused, Refused \cup {r}}
    BY <2>1, <2>2 DEF Refused
  <2> QED
    BY <2>1, <2>2, <2>3, ShopRefuses
<1>4. ASSUME NEW p \in Process, Answers(p)
      PROVE  [Shop!Next]_Shop!vars
  <2> DEFINE r == job[p]
  <2>1. /\ r \in Purchases /\ NotYet(r)
        /\ UNCHANGED <<PAYMENT_DB, charged, order>>
        /\ unsure' \in {unsure, unsure \cup {r}}
        /\ \A q \in Purchases : q # r => buyer'[q] = buyer[q]
    BY <1>a, <1>4, AnswersAre DEF InTurn
  <2>2. r \notin Refused
    BY <2>1 DEF NotYet, Refused
  <2>3. \A q \in Purchases : q # r => (q \in Refused' <=> q \in Refused)
    BY <2>1 DEF Refused
  <2>4. CASE IssueTicket(p)
    <3>1. r \in Paid \ (tickets \cup Refused) /\ tickets' = tickets \cup {r}
      BY <1>a, <2>1, <2>2, <2>4
      DEF IssueTicket, InTurn, Settled, Paid, NotYet, AnsweredIsSaved
    <3>2. r \notin Refused'
      BY <2>1, <2>4 DEF IssueTicket, Answer, Told, Refused, NotYet, TypeOK
    <3>3. Refused' = Refused /\ Paid' = Paid
      BY <2>1, <2>2, <2>3, <3>2 DEF Paid, Refused
    <3> QED
      BY <2>1, <3>1, <3>3 DEF Shop!Next, Shop!Deliver
  <2>5. CASE PaymentTimesOut(p)
    <3>1. r \notin Refused' /\ tickets' = tickets
      BY <2>1, <2>5 DEF PaymentTimesOut, Answer, Told, Refused, NotYet, TypeOK
    <3>2. Refused' = Refused
      BY <2>2, <2>3, <3>1 DEF Refused
    <3> QED
      BY <2>1, <3>1, <3>2, ShopStutters
  <2>6. CASE ~IssueTicket(p) /\ ~PaymentTimesOut(p)
    <3>1. order[r] # "success" /\ tickets' = tickets
      BY <1>a, <1>4, <2>6
      DEF Answers, LookupTimesOut, ReceiveLocation, CannotPay, PaymentRefused, InTurn
    <3>2. r \notin Paid
      BY <1>a, <2>1, <3>1 DEF Settled, Paid
    <3>3. Refused' \in {Refused, Refused \cup {r}}
      BY <2>2, <2>3 DEF Refused
    <3> QED
      BY <2>1, <3>1, <3>2, <3>3, ShopRefuses
  <2> QED
    BY <2>4, <2>5, <2>6
<1>5. ASSUME NEW p \in Process, GoOn(p), ~Answers(p)
      PROVE  UNCHANGED <<buyer, PAYMENT_DB, charged, tickets, unsure>>
  BY <1>5 DEF GoOn, PayMovie, Answers, AskAgain, ReceiveLocation, SendOrder, PaymentSucceeds, payment
<1>6. ASSUME NEW p \in Process, Crash(p) \/ Restart(p)
      PROVE  [Shop!Next]_Shop!vars
  <2>1. /\ UNCHANGED <<buyer, PAYMENT_DB, charged, tickets>>
        /\ \/ unsure' = unsure
           \/ Serving(p) /\ unsure' = unsure \cup {job[p]}
    <3>1. CASE Crash(p)
      <4>1. UNCHANGED <<buyer, payment, tickets>>
        BY <3>1 DEF Crash
      <4>2. unsure' = IF pc[p] \in {"paying", "paid"} THEN unsure \cup {job[p]} ELSE unsure
        BY <3>1 DEF Crash
      <4> QED
        BY <4>1, <4>2 DEF payment, Serving
    <3>2. CASE Restart(p)
      BY <3>2 DEF Restart, payment
    <3> QED
      BY <1>6, <3>1, <3>2
  <2>2. Serving(p) => job[p] \notin Refused
    BY <1>a DEF InTurn, NotYet, Refused
  <2>3. Refused' = Refused
    BY <2>1, <2>2 DEF Refused, NotYet, InTurn
  <2> QED
    BY <2>1, <2>3, ShopStutters
<1>7. ASSUME NEW s \in Services, NEW r \in Purchases, SaveAndAnswer(s, r), ~Save(s)
      PROVE  UNCHANGED <<buyer, PAYMENT_DB, charged, tickets, unsure>>
  BY <1>7 DEF SaveAndAnswer
<1>9. ASSUME NEW s \in Services, NEW r \in Purchases, SaveAndAnswer(s, r), Save(s)
      PROVE  [Shop!Next]_Shop!vars
  <2>1. /\ s \in up /\ order[r] = "debited" /\ payee[r] = s
        /\ PAYMENT_DB' = [PAYMENT_DB EXCEPT ![s] = psDatabase[s]]
        /\ UNCHANGED <<buyer, tickets, unsure>>
    BY <1>9 DEF SaveAndAnswer, Save
  <2>2. unsaved[s] = {r}
    <3>1. r \in unsaved[s] /\ Unwritten(s) /\ unsaved[s] \subseteq Purchases
      BY <1>a, <2>1 DEF Books, TypeOK
    <3>2. \A q \in unsaved[s] : order[q] = "debited"
      BY <3>1 DEF Unwritten, AnsweredIsSaved
    <3> QED
      BY <2>1, <3>1, <3>2 DEF Unwritten
  <2>3. /\ PAYMENT_DB[s][Account[r]] > Amount[r]
        /\ psDatabase[s] = [PAYMENT_DB[s] EXCEPT ![Account[r]] = @ - Amount[r]]
    BY <1>a, <2>1, <2>2 DEF Books, Balanced
  <2>4. PAYMENT_DB' = [PAYMENT_DB EXCEPT ![s][Account[r]] = @ - Amount[r]]
    BY <2>1, <2>3 DEF TypeOK, Bank
  <2>5. r \notin Paid \cup Refused
    BY <1>a, <2>1 DEF Settled, Paid
  <2>6. Paid' = Paid \cup {r}
    <3>1. charged' = [q \in Purchases |-> IF q = r THEN charged[q] \cup {s} ELSE charged[q]]
      BY <1>9, <2>2 DEF Save
    <3>2. \A q \in Purchases : charged'[q] # {} <=> q = r \/ charged[q] # {}
      BY <3>1
    <3> QED
      BY <3>2 DEF Paid
  <2>7. Refused' = Refused
    BY <2>1 DEF Refused
  <2> QED
    BY <2>1, <2>3, <2>4, <2>5, <2>6, <2>7 DEF Shop!Next, Shop!Pay
<1>8. ASSUME NEW s \in Services, NEW r \in Purchases, Refuse(s, r) \/ Debit(s, r)
      PROVE  UNCHANGED <<buyer, PAYMENT_DB, charged, tickets, unsure>>
  BY <1>8 DEF Refuse, Debit
<1> QED
  BY <1>1, <1>2, <1>3, <1>4, <1>5, <1>6, <1>7, <1>8, <1>9
  DEF Next, LookupAnswers, Lose, ServiceCrashes, ServiceRestarts, vars, payment

(* As long as what was answered with a success is on file: the accounts    *)
(* change by the price of a purchase, once; each ticket was paid for       *)
(* before it is made; who was refused is not charged.                      *)
THEOREM PurchasesAreSales == Spec => ImplementsMovieSale
  BY PurchasesAreOrderly, ShopInit, ShopStep, PTL DEF Spec, ImplementsMovieSale
=============================================================================
