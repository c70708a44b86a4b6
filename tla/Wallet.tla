------------------------------- MODULE Wallet -------------------------------
(***************************************************************************)
(* What the billing tables promise, without reservations, transactions or  *)
(* ledger entries: a user has credit; an order is billed to a user, is     *)
(* then charged once or waived, and a waived order can still be charged    *)
(* once.  A charge is taken from the credit in the same step and never     *)
(* changes afterwards.                                                     *)
(***************************************************************************)
EXTENDS Integers

CONSTANTS Users, NoUser, Orders, Prices, Deposits

States == {"unused", "due", "waived", "charged"}
Bills  == [state : States, user : Users \cup {NoUser}, charge : Prices]
Unused == [state |-> "unused", user |-> NoUser, charge |-> 0]

VARIABLES
  credit,   \* user -> credit, whether held by an open order or not
  bill      \* order -> its bill

wvars == <<credit, bill>>

WInit ==
  /\ credit = [u \in Users |-> 0]
  /\ bill = [o \in Orders |-> Unused]

Deposit(u) ==
  /\ \E amount \in Deposits : credit' = [credit EXCEPT ![u] = @ + amount]
  /\ UNCHANGED bill

Invoice(o, u) ==
  /\ bill[o].state = "unused"
  /\ bill' = [bill EXCEPT ![o] = [state |-> "due", user |-> u, charge |-> 0]]
  /\ UNCHANGED credit

Charge(o, price) ==
  /\ bill[o].state \in {"due", "waived"}
  /\ bill' = [bill EXCEPT ![o].state = "charged", ![o].charge = price]
  /\ credit' = [credit EXCEPT ![bill[o].user] = @ - price]

Waive(o) ==
  /\ bill[o].state = "due"
  /\ bill' = [bill EXCEPT ![o].state = "waived"]
  /\ UNCHANGED credit

WNext ==
  \/ \E u \in Users : Deposit(u)
  \/ \E o \in Orders :
       \/ \E u \in Users : Invoice(o, u)
       \/ \E price \in Prices : Charge(o, price)
       \/ Waive(o)

WSpec == WInit /\ [][WNext]_wvars
=============================================================================
