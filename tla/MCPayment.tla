------------------------------ MODULE MCPayment ------------------------------
(* An instance of PaymentService for TLC.                                  *)
EXTENDS PaymentService, TLC

CONSTANTS o1, o2, o3, ana, beto

Letters == [length |-> 4, made_of |-> "alphanumeric"]
Digits  == [length |-> 3, made_of |-> "digits"]

BuyFor(price) ==
  [service |-> Letters, account |-> ana, nameLength |-> 3, number |-> Digits,
   key |-> 7, price |-> price]

(* Orders of 11 and of 2 units, and one of less than a unit.               *)
ThreeOrders == (o1 :> BuyFor(1150)) @@ (o2 :> BuyFor(200)) @@ (o3 :> BuyFor(75))

Entry(n, a) == [accountName |-> n, amount |-> a]

(* An account that is there twice, and enough for both orders; exactly as  *)
(* much as both cost, and a line that ends the reading; another header.    *)
SomeFiles ==
  {[header |-> TRUE, lines |-> <<Entry(ana, 1305), Entry(beto, 300), Entry(ana, 900)>>],
   [header |-> TRUE, lines |-> <<Entry(ana, 1300), Malformed, Entry(beto, 300)>>],
   [header |-> FALSE, lines |-> <<Entry(ana, 400)>>]}
=============================================================================
