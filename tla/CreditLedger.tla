---------------------------- MODULE CreditLedger ----------------------------
(***************************************************************************)
(* The money of the Go backend: the tables credit_accounts,                *)
(* billing_orders, credit_ledger_entries and redeem_codes as the           *)
(* transactions of backend/internal/repository/finance.go and              *)
(* SwitchTaskLogicalRoute (logical_models.go) change them.                 *)
(*                                                                         *)
(* Settling, refunding, restoring and re-pricing an order first READ the   *)
(* order row (tx.First, without a row lock) and later write the account    *)
(* and the order from what was read.  A worker's open transaction is kept  *)
(* in tx with the row it saw.  Serializable says what the database makes   *)
(* of the gap between the two:                                             *)
(*   TRUE   SQLite: a deferred transaction that read a row another         *)
(*          connection has since changed cannot write; it rolls back;      *)
(*   FALSE  PostgreSQL at its default READ COMMITTED: the write goes       *)
(*          through, and only the WHERE clause of each UPDATE is evaluated *)
(*          on current data.                                               *)
(* All other transactions are one guarded UPDATE each, hence atomic.       *)
(***************************************************************************)
EXTENDS Integers, Sums

CONSTANTS
  Users,         \* users with a credit account
  NoUser,        \* user of an order slot that is not in use
  MaxOrders,     \* bound: billing orders ever created
  Workers,       \* goroutines, of any instance, that run billing transactions
  Amounts,       \* amounts an order can reserve (0: a zero-priced token order)
  Actuals,       \* amounts token usage can come to
  Deltas,        \* amounts an administrator can add or take
  RewardKeys,    \* reference keys of once-only rewards (registration, sign-in)
  RedeemCodes,   \* redeem codes
  MaxCredit,     \* bound: net credit ever handed to one user
  Serializable   \* see above

ASSUME LedgerAssumption ==
  /\ NoUser \notin Users
  /\ MaxOrders \in Nat
  /\ Amounts \subseteq Nat
  /\ Actuals \subseteq Nat
  /\ Deltas \subseteq Int
  /\ MaxCredit \in Nat
  /\ Serializable \in BOOLEAN

Orders == 1 .. MaxOrders
Gains  == {d \in Deltas : d > 0}

\* A zero-priced token order behaves as a fixed order of amount 0 everywhere
\* below, so "token" stands for an order with a token price.
Modes    == {"fixed", "token"}
Statuses == {"none", "reserved", "running", "uncertain", "settled", "refunded"}
Open     == {"reserved", "running", "uncertain"}

OrderRows ==
  [status : Statuses, user : Users \cup {NoUser}, mode : Modes,
   amount : Amounts \cup {0}, actual : Actuals \cup Amounts \cup {0}]
NoOrder == [status |-> "none", user |-> NoUser, mode |-> "fixed",
            amount |-> 0, actual |-> 0]

Operations == {"settle", "refund", "restore", "switch"}
Idle       == [op |-> "idle"]

VARIABLES
  account,    \* user -> [available, reserved], in microcredits
  order,      \* billing order row
  credited,   \* user -> sum of the ledger entries that name no order
  entries,    \* order -> sums of the deltas of the ledger entries naming it
  rewarded,   \* reference keys already in the ledger
  redeemed,   \* codes no longer unused
  tx          \* worker -> its open transaction: operation, order, row read

vars == <<account, order, credited, entries, rewarded, redeemed, tx>>

Columns == [available : Int, reserved : Int]
Zero    == [available |-> 0, reserved |-> 0]

TypeOK ==
  /\ account \in [Users -> [available : Int, reserved : Nat]]
  /\ order \in [Orders -> OrderRows]
  /\ credited \in [Users -> Int]
  /\ entries \in [Orders -> Columns]
  /\ rewarded \subseteq RewardKeys
  /\ redeemed \subseteq RedeemCodes
  /\ tx \in [Workers -> {Idle} \cup
                        [op : Operations, order : Orders, seen : OrderRows]]

Init ==
  /\ account = [u \in Users |-> Zero]
  /\ order = [o \in Orders |-> NoOrder]
  /\ credited = [u \in Users |-> 0]
  /\ entries = [o \in Orders |-> Zero]
  /\ rewarded = {}
  /\ redeemed = {}
  /\ tx = [w \in Workers |-> Idle]

-----------------------------------------------------------------------------
(***************************************************************************)
(* Ledger entries.  Every change of an account writes entries with the     *)
(* same deltas: Credit those that name no order, Book those of an order.   *)
(***************************************************************************)
Add(row, available, reserved) ==
  [available |-> row.available + available, reserved |-> row.reserved + reserved]

\* Mutant: the account moves, the ledger entry is forgotten.
CreditUnlogged(u, amount) ==
  /\ account' = [account EXCEPT ![u] = Add(@, amount, 0)]
  /\ UNCHANGED credited

Credit(u, amount) ==
  /\ account' = [account EXCEPT ![u] = Add(@, amount, 0)]
  /\ credited' = [credited EXCEPT ![u] = @ + amount]

Book(o, u, available, reserved) ==
  /\ account' = [account EXCEPT ![u] = Add(@, available, reserved)]
  /\ entries' = [entries EXCEPT ![o] = Add(@, available, reserved)]

\* Mutant: taking credit without asking whether it is available.
AdjustCreditsUnchecked(u, amount) ==
  /\ credited[u] + amount <= MaxCredit
  /\ Credit(u, amount)
  /\ UNCHANGED <<order, entries, rewarded, redeemed, tx>>

\* AdjustCredits: an administrator grants, or takes what is available.
AdjustCredits(u, amount) ==
  /\ credited[u] + amount <= MaxCredit
  /\ amount < 0 => account[u].available + amount >= 0
  /\ Credit(u, amount)
  /\ UNCHANGED <<order, entries, rewarded, redeemed, tx>>

\* GrantCreditsOnce: the unique reference key is taken before the account moves.
GrantCreditsOnce(u, key, amount) ==
  /\ credited[u] + amount <= MaxCredit
  /\ key \notin rewarded
  /\ rewarded' = rewarded \cup {key}
  /\ Credit(u, amount)
  /\ UNCHANGED <<order, entries, redeemed, tx>>

\* RedeemCode: unused -> redeemed is a conditional update.
RedeemCode(u, code, amount) ==
  /\ credited[u] + amount <= MaxCredit
  /\ code \notin redeemed
  /\ redeemed' = redeemed \cup {code}
  /\ Credit(u, amount)
  /\ UNCHANGED <<order, entries, rewarded, tx>>

-----------------------------------------------------------------------------
\* reserveBillingOrder: the account must cover the amount.  Orders are numbered
\* as they are created.
ReserveBillingOrder(o, u, mode, amount) ==
  /\ \A p \in Orders : (order[p].status = "none") <=> (p >= o)
  /\ account[u].available >= amount
  /\ order' = [order EXCEPT ![o] =
       [status |-> "reserved", user |-> u, mode |-> mode,
        amount |-> amount, actual |-> 0]]
  /\ Book(o, u, -amount, amount)
  /\ UNCHANGED <<credited, rewarded, redeemed, tx>>

MarkBillingRunning(o) ==
  /\ order[o].status = "reserved"
  /\ order' = [order EXCEPT ![o].status = "running"]
  /\ UNCHANGED <<account, credited, entries, rewarded, redeemed, tx>>

\* Mutant: a refunded order can be put up for review again.
MarkUncertainAnytime(o) ==
  /\ order[o].status \in {"reserved", "running", "refunded"}
  /\ order' = [order EXCEPT ![o].status = "uncertain"]
  /\ UNCHANGED <<account, credited, entries, rewarded, redeemed, tx>>

MarkBillingUncertain(o) ==
  /\ order[o].status \in {"reserved", "running"}
  /\ order' = [order EXCEPT ![o].status = "uncertain"]
  /\ UNCHANGED <<account, credited, entries, rewarded, redeemed, tx>>

-----------------------------------------------------------------------------
(***************************************************************************)
(* The read-then-write transactions.                                       *)
(***************************************************************************)

\* Mutant: the early return on a settled order is missing.
AcceptsSettled(op) ==
  CASE op \in {"settle", "refund"} -> Open \cup {"settled"}
    [] op = "restore"              -> {"refunded"}
    [] op = "switch"               -> {"reserved", "running"}

\* The statuses of the row read on which the operation goes on; on any other
\* it returns at once, with nil or an error.
Accepts(op) ==
  CASE op \in {"settle", "refund"} -> Open
    [] op = "restore"              -> {"refunded"}
    [] op = "switch"               -> {"reserved", "running"}

Begin(w, op, o) ==
  /\ tx[w] = Idle
  /\ order[o].status \in Accepts(op)
  /\ tx' = [tx EXCEPT ![w] = [op |-> op, order |-> o, seen |-> order[o]]]
  /\ UNCHANGED <<account, order, credited, entries, rewarded, redeemed>>

\* Mutant: the database lets a write on a stale row through.
CommittingStale(w, op) ==
  /\ tx[w] # Idle
  /\ tx[w].op = op
  /\ tx' = [tx EXCEPT ![w] = Idle]
  /\ UNCHANGED <<credited, rewarded, redeemed>>

\* Worker w is about to commit operation op.
Committing(w, op) ==
  /\ tx[w] # Idle
  /\ tx[w].op = op
  /\ Serializable => order[tx[w].order] = tx[w].seen
  /\ tx' = [tx EXCEPT ![w] = Idle]
  /\ UNCHANGED <<credited, rewarded, redeemed>>

\* UPDATE credit_accounts ... WHERE reserved_microcredits >= released.
Covers(u, released) == account[u].reserved >= released

SetOrder(o, status, actual) ==
  order' = [order EXCEPT ![o].status = status, ![o].actual = actual]

SettleFixed(w) ==
  /\ Committing(w, "settle")
  /\ LET o == tx[w].order  seen == tx[w].seen IN
     /\ seen.mode = "fixed"
     /\ Covers(seen.user, seen.amount)
     /\ Book(o, seen.user, 0, -seen.amount)
     /\ SetOrder(o, "settled", seen.amount)

\* Mutant: the difference between reservation and usage is never moved.
SettleTokenReserved(w, actual) ==
  /\ Committing(w, "settle")
  /\ LET o == tx[w].order  seen == tx[w].seen IN
     /\ seen.mode = "token"
     /\ Covers(seen.user, seen.amount)
     /\ Book(o, seen.user, 0, -seen.amount)
     /\ SetOrder(o, "settled", actual)

\* Mutant: the difference is moved without its ledger entry.
SettleTokenUnlogged(w, actual) ==
  /\ Committing(w, "settle")
  /\ LET o == tx[w].order  seen == tx[w].seen IN
     /\ seen.mode = "token"
     /\ Covers(seen.user, seen.amount)
     /\ account' = [account EXCEPT ![seen.user] =
                      Add(@, seen.amount - actual, -seen.amount)]
     /\ entries' = [entries EXCEPT ![o] = Add(@, 0, -seen.amount)]
     /\ SetOrder(o, "settled", actual)

\* The usage of a token order decides: less than was reserved comes back, more
\* is taken from the available credit, without asking whether it is there.
SettleToken(w, actual) ==
  /\ Committing(w, "settle")
  /\ LET o == tx[w].order  seen == tx[w].seen IN
     /\ seen.mode = "token"
     /\ Covers(seen.user, seen.amount)
     /\ Book(o, seen.user, seen.amount - actual, -seen.amount)
     /\ SetOrder(o, "settled", actual)

RefundBillingOrder(w) ==
  /\ Committing(w, "refund")
  /\ LET o == tx[w].order  seen == tx[w].seen IN
     /\ Covers(seen.user, seen.amount)
     /\ Book(o, seen.user, seen.amount, -seen.amount)
     /\ SetOrder(o, "refunded", order[o].actual)

\* Mutant: the last update does not repeat the status condition.
RestoreUnguarded(w, actual) ==
  /\ Committing(w, "restore")
  /\ LET o == tx[w].order  seen == tx[w].seen IN
     /\ seen.mode = "fixed" => actual = seen.amount
     /\ Book(o, seen.user, -actual, 0)
     /\ SetOrder(o, "settled", actual)

\* Mutant: the charge is taken from the reserved column, as a settlement's is.
RestoreFromReserved(w, actual) ==
  /\ Committing(w, "restore")
  /\ LET o == tx[w].order  seen == tx[w].seen IN
     /\ order[o].status = "refunded"
     /\ seen.mode = "fixed" => actual = seen.amount
     /\ Book(o, seen.user, 0, -actual)
     /\ SetOrder(o, "settled", actual)

\* The only one of the four whose last update repeats the status condition.
RestoreRefundedBillingOrder(w, actual) ==
  /\ Committing(w, "restore")
  /\ LET o == tx[w].order  seen == tx[w].seen IN
     /\ order[o].status = "refunded"
     /\ seen.mode = "fixed" => actual = seen.amount
     /\ Book(o, seen.user, -actual, 0)
     /\ SetOrder(o, "settled", actual)

\* Mutant: the order is re-priced and its reservation is not.
SwitchUnreserved(w, mode, amount) ==
  /\ Committing(w, "switch")
  /\ LET o == tx[w].order IN
     /\ order[o].status \in {"reserved", "running"}
     /\ order' = [order EXCEPT ![o].mode = mode, ![o].amount = amount]
  /\ UNCHANGED <<account, entries>>

\* Failing over to a route with another price moves the difference.
SwitchTaskLogicalRoute(w, mode, amount) ==
  /\ Committing(w, "switch")
  /\ amount > 0
  /\ LET o == tx[w].order  seen == tx[w].seen
         delta == amount - seen.amount IN
     /\ delta > 0 => account[seen.user].available >= delta
     /\ delta < 0 => Covers(seen.user, -delta)
     /\ order[o].status \in {"reserved", "running"}
     /\ order' = [order EXCEPT ![o].mode = mode, ![o].amount = amount]
     /\ Book(o, seen.user, -delta, delta)

\* Roll back: a guard above failed, the database refused, the usage is missing.
Rollback(w) ==
  /\ tx[w] # Idle
  /\ tx' = [tx EXCEPT ![w] = Idle]
  /\ UNCHANGED <<account, order, credited, entries, rewarded, redeemed>>

\* A token settlement that rolled back after reading the usage records the
\* usage on the order in a statement of its own.
RollbackSettleToken(w, actual) ==
  /\ tx[w] # Idle
  /\ tx[w].op = "settle" /\ tx[w].seen.mode = "token"
  /\ order[tx[w].order].status \notin {"settled", "refunded"}
  /\ order' = [order EXCEPT ![tx[w].order].actual = actual]
  /\ tx' = [tx EXCEPT ![w] = Idle]
  /\ UNCHANGED <<account, credited, entries, rewarded, redeemed>>

-----------------------------------------------------------------------------
Accounts ==
  \E u \in Users :
    \/ \E d \in Deltas : AdjustCredits(u, d)
    \/ \E k \in RewardKeys, g \in Gains : GrantCreditsOnce(u, k, g)
    \/ \E c \in RedeemCodes, g \in Gains : RedeemCode(u, c, g)

Orderly ==
  \E o \in Orders :
    \/ \E u \in Users, m \in Modes, a \in Amounts : ReserveBillingOrder(o, u, m, a)
    \/ MarkBillingRunning(o)
    \/ MarkBillingUncertain(o)

Transactions ==
  \E w \in Workers :
    \/ \E op \in Operations, o \in Orders : Begin(w, op, o)
    \/ SettleFixed(w)
    \/ \E a \in Actuals : SettleToken(w, a)
    \/ RefundBillingOrder(w)
    \/ \E a \in Actuals \cup Amounts : RestoreRefundedBillingOrder(w, a)
    \/ \E m \in Modes, a \in Amounts : SwitchTaskLogicalRoute(w, m, a)
    \/ Rollback(w)
    \/ \E a \in Actuals : RollbackSettleToken(w, a)

Next == Accounts \/ Orderly \/ Transactions

Spec == Init /\ [][Next]_vars

-----------------------------------------------------------------------------
(***************************************************************************)
(* Properties.                                                             *)
(***************************************************************************)
OfUser(u, f) == [o \in Orders |-> IF order[o].user = u THEN f[o] ELSE 0]

\* Every account is the sum of its ledger entries, column by column: no path
\* of finance.go moves credit without the matching credit_ledger_entries.
AccountReplaysLedger ==
  \A u \in Users :
    /\ account[u].available =
         credited[u] + SumTo(OfUser(u, [o \in Orders |-> entries[o].available]), MaxOrders)
    /\ account[u].reserved =
         SumTo(OfUser(u, [o \in Orders |-> entries[o].reserved]), MaxOrders)

\* The entries of one order say what its status says: an open order holds its
\* amount, a settled one was charged its actual amount once, a refunded one
\* gave everything back.  Broken by any double settlement or double release.
EntriesOf(row) ==
  CASE row.status \in Open    -> [available |-> -row.amount, reserved |-> row.amount]
    [] row.status = "settled" -> [available |-> -row.actual, reserved |-> 0]
    [] row.status \in {"none", "refunded"} -> Zero

OrderEntriesMatchStatus == \A o \in Orders : entries[o] = EntriesOf(order[o])

\* The reserved credit of a user is what the user's open orders reserved, so
\* each of them can still be settled or refunded ("reserved credit balance is
\* inconsistent" never happens).
ReservedIsHeldByOpenOrders ==
  \A u \in Users :
    account[u].reserved =
      SumTo(OfUser(u, [o \in Orders |-> IF order[o].status \in Open
                                        THEN order[o].amount ELSE 0]), MaxOrders)

\* No credit appears or disappears: what a user was given is available,
\* reserved or charged by a settled order.
CreditConserved ==
  \A u \in Users :
    credited[u] =
      account[u].available + account[u].reserved
      + SumTo(OfUser(u, [o \in Orders |-> IF order[o].status = "settled"
                                          THEN order[o].actual ELSE 0]), MaxOrders)

\* A settled order stays settled at the same amount; RefundBillingOrder refuses
\* it: "settled billing order requires a manual refund" (finance.go:951).
SettledIsFinal ==
  [][\A o \in Orders :
       order[o].status = "settled" => order'[o] = order[o]]_vars

\* A balance goes below zero only when an order is settled for more than was
\* reserved or a refunded order is charged again; reservations, re-pricing and
\* administrators never overdraw, whatever the isolation.
OverdraftOnlyByCharge ==
  [][\A u \in Users :
       /\ account'[u].available < 0
       /\ account'[u].available < account[u].available
       => \E o \in Orders : order[o].user = u /\ order'[o].status = "settled"]_vars

\* Charging from available credit alone, which only manual recovery does,
\* happens at the refunded -> settled step and so once per refund, also when
\* two recoveries run concurrently without serializable transactions
\* (comment of RestoreRefundedBillingOrder).
RestoreChargesOnce ==
  [][\A o \in Orders :
       /\ order[o].status # "none"
       /\ entries'[o].available < entries[o].available
       /\ entries'[o].reserved = entries[o].reserved
       => order[o].status = "refunded" /\ order'[o].status = "settled"]_vars

\* The abstract wallet these tables implement.
BillState ==
  [status \in Statuses |->
     CASE status = "none"     -> "unused"
       [] status \in Open     -> "due"
       [] status = "refunded" -> "waived"
       [] status = "settled"  -> "charged"]

AbstractCredit == [u \in Users |-> account[u].available + account[u].reserved]
AbstractBill ==
  [o \in Orders |-> [state  |-> BillState[order[o].status],
                     user   |-> order[o].user,
                     charge |-> IF order[o].status = "settled"
                                THEN order[o].actual ELSE 0]]

AbstractWallet == INSTANCE Wallet WITH
  Prices <- Actuals \cup Amounts \cup {0},
  Deposits <- Deltas,
  credit <- AbstractCredit,
  bill   <- AbstractBill

\* Under serializable transactions every step of the tables is a step of the
\* wallet: an order is charged at most once and only what it was charged
\* leaves the user's credit.
ImplementsWallet == AbstractWallet!WSpec
=============================================================================
