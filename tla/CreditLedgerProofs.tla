------------------------- MODULE CreditLedgerProofs -------------------------
(***************************************************************************)
(* Theorems about CreditLedger, for every set of users, orders, workers    *)
(* and amounts.                                                            *)
(***************************************************************************)
EXTENDS CreditLedger, SumsTheorems

AccountRow == [available : Int, reserved : Nat]

\* Book is well typed when the order's release is covered.
LEMMA BookType ==
  ASSUME TypeOK, NEW o \in Orders, NEW u \in Users, NEW a \in Int, NEW r \in Int,
         account[u].reserved + r >= 0, Book(o, u, a, r)
  PROVE  /\ account' \in [Users -> AccountRow]
         /\ entries' \in [Orders -> Columns]
<1>1. account[u] \in AccountRow /\ entries[o] \in Columns
  BY DEF TypeOK, AccountRow
<1>2. Add(account[u], a, r) \in AccountRow
  BY <1>1 DEF Add, AccountRow
<1>3. Add(entries[o], a, r) \in Columns
  BY <1>1 DEF Add, Columns
<1>4. account' = [account EXCEPT ![u] = Add(account[u], a, r)]
  BY DEF Book
<1>5. entries' = [entries EXCEPT ![o] = Add(entries[o], a, r)]
  BY DEF Book
<1>6. account \in [Users -> AccountRow] /\ entries \in [Orders -> Columns]
  BY DEF TypeOK, AccountRow
<1>7. QED
  BY <1>2, <1>3, <1>4, <1>5, <1>6

\* Credit is well typed.
LEMMA CreditType ==
  ASSUME TypeOK, NEW u \in Users, NEW a \in Int, Credit(u, a)
  PROVE  /\ account' \in [Users -> AccountRow]
         /\ credited' \in [Users -> Int]
<1>1. account[u] \in AccountRow /\ credited[u] \in Int
  BY DEF TypeOK, AccountRow
<1>2. Add(account[u], a, 0) \in AccountRow
  BY <1>1 DEF Add, AccountRow
<1>3. account' = [account EXCEPT ![u] = Add(account[u], a, 0)]
  BY DEF Credit
<1>4. account \in [Users -> AccountRow] /\ credited \in [Users -> Int]
  BY DEF TypeOK, AccountRow
<1>5. credited[u] + a \in Int
  BY <1>1
<1>6. credited' = [credited EXCEPT ![u] = credited[u] + a]
  BY DEF Credit
<1>7. QED
  BY <1>2, <1>3, <1>4, <1>5, <1>6

\* What the rest of the transactions rely on: an order slot that is not in use
\* has no user and no entries, and the row a transaction read was in a status
\* its operation accepts and belongs to the user the order still belongs to.
RowsOK ==
  \A o \in Orders :
    /\ order[o].status = "none" => order[o].user = NoUser /\ entries[o] = Zero
    /\ order[o].status # "none" => order[o].user \in Users

TxOK ==
  \A w \in Workers :
    tx[w] # Idle => /\ tx[w].seen.status \in Accepts(tx[w].op)
                    /\ tx[w].seen.user \in Users
                    /\ order[tx[w].order].user = tx[w].seen.user

IInv == TypeOK /\ RowsOK /\ TxOK

\* A transaction about to commit, with the types of what it read.
LEMMA CommittingFacts ==
  ASSUME IInv, NEW w \in Workers, NEW op \in Operations, Committing(w, op)
  PROVE  /\ tx[w] # Idle
         /\ tx[w].op = op
         /\ tx[w].order \in Orders
         /\ tx[w].seen \in OrderRows
         /\ tx[w].seen.status \in Accepts(op)
         /\ tx[w].seen.user \in Users
         /\ tx[w].seen.amount \in Nat
         /\ order[tx[w].order] \in OrderRows
         /\ order[tx[w].order].user = tx[w].seen.user
         /\ order[tx[w].order].status # "none"
         /\ Serializable => order[tx[w].order] = tx[w].seen
         /\ tx' = [tx EXCEPT ![w] = Idle]
<1>1. tx[w] # Idle /\ tx[w].op = op /\ tx' = [tx EXCEPT ![w] = Idle]
      /\ (Serializable => order[tx[w].order] = tx[w].seen)
  BY DEF Committing
<1>2. tx[w] \in [op : Operations, order : Orders, seen : OrderRows]
  BY <1>1 DEF IInv, TypeOK
<1>3. tx[w].order \in Orders /\ tx[w].seen \in OrderRows
  BY <1>2
<1>4. order[tx[w].order] \in OrderRows
  BY <1>3 DEF IInv, TypeOK
<1>5. tx[w].seen.amount \in Nat
  <2>1. tx[w].seen.amount \in Amounts \cup {0}
    BY <1>3 DEF OrderRows
  <2>2. Amounts \cup {0} \subseteq Nat
    BY LedgerAssumption
  <2>3. QED
    BY <2>1, <2>2
<1>6. /\ tx[w].seen.status \in Accepts(op)
      /\ tx[w].seen.user \in Users
      /\ order[tx[w].order].user = tx[w].seen.user
  BY <1>1 DEF IInv, TxOK
<1>7. order[tx[w].order].status # "none"
  BY <1>3, <1>6, LedgerAssumption DEF IInv, RowsOK
<1>8. QED
  BY <1>1, <1>3, <1>4, <1>5, <1>6, <1>7

(***************************************************************************)
(* A posting: order o gets a row of the same user, and the two columns of  *)
(* the user's account and of the order's entries move by a and r.          *)
(***************************************************************************)
Row(o, row) ==
  /\ o \in Orders
  /\ row \in OrderRows
  /\ order[o].status # "none"
  /\ row.status # "none"
  /\ row.user = order[o].user
  /\ order' = [order EXCEPT ![o] = row]

Posting(o, row, a, r) ==
  /\ Row(o, row)
  /\ a \in Int /\ r \in Int
  /\ account[order[o].user].reserved + r >= 0
  /\ Book(o, order[o].user, a, r)

Done(w) ==
  /\ tx' = [tx EXCEPT ![w] = Idle]
  /\ UNCHANGED <<credited, rewarded, redeemed>>

\* The row a terminal update leaves.
Closed(row, status, actual) == [row EXCEPT !.status = status, !.actual = actual]

LEMMA SetOrderRow ==
  ASSUME TypeOK, NEW o \in Orders, order[o].status # "none",
         NEW status \in Statuses \ {"none"},
         NEW actual \in Actuals \cup Amounts \cup {0},
         SetOrder(o, status, actual)
  PROVE  /\ Row(o, Closed(order[o], status, actual))
         /\ Closed(order[o], status, actual).status = status
         /\ Closed(order[o], status, actual).actual = actual
         /\ Closed(order[o], status, actual).amount = order[o].amount
<1>1. order \in [Orders -> OrderRows] /\ order[o] \in OrderRows
  BY DEF TypeOK
<1>2. Closed(order[o], status, actual) \in OrderRows
  BY <1>1 DEF Closed, OrderRows
<1>3. order' = [order EXCEPT ![o] = Closed(order[o], status, actual)]
  BY <1>1 DEF SetOrder, Closed, OrderRows
<1>4. /\ Closed(order[o], status, actual).user = order[o].user
      /\ Closed(order[o], status, actual).status = status
      /\ Closed(order[o], status, actual).actual = actual
      /\ Closed(order[o], status, actual).amount = order[o].amount
  BY <1>1 DEF Closed, OrderRows
<1>5. QED
  BY <1>2, <1>3, <1>4 DEF Row

LEMMA SettleFixedPosts ==
  ASSUME IInv, NEW w \in Workers, SettleFixed(w)
  PROVE  /\ Posting(tx[w].order,
                    Closed(order[tx[w].order], "settled", tx[w].seen.amount),
                    0, -tx[w].seen.amount)
         /\ Done(w)
<1> DEFINE o == tx[w].order
           seen == tx[w].seen
<1>1. Committing(w, "settle") /\ "settle" \in Operations
  BY DEF SettleFixed, Operations
<1>2. /\ o \in Orders /\ seen \in OrderRows /\ seen.amount \in Nat
      /\ order[o].user = seen.user /\ order[o].status # "none" /\ seen.user \in Users
  BY <1>1, CommittingFacts
<1>3. seen.amount \in Actuals \cup Amounts \cup {0}
  BY <1>2 DEF OrderRows
<1>4. "settled" \in Statuses \ {"none"}
  BY DEF Statuses
<1>5. Row(o, Closed(order[o], "settled", seen.amount))
  BY <1>2, <1>3, <1>4, SetOrderRow DEF SettleFixed, IInv
<1>6. Covers(seen.user, seen.amount) /\ Book(o, seen.user, 0, -seen.amount)
  BY DEF SettleFixed
<1>7. account[seen.user].reserved \in Nat
  BY <1>2 DEF IInv, TypeOK
<1>8. account[seen.user].reserved + (-seen.amount) >= 0 /\ -seen.amount \in Int
  BY <1>2, <1>6, <1>7 DEF Covers
<1>9. Posting(o, Closed(order[o], "settled", seen.amount), 0, -seen.amount)
  BY <1>2, <1>5, <1>6, <1>8 DEF Posting
<1>10. Done(w)
  BY <1>1 DEF Committing, Done
<1>11. QED
  BY <1>9, <1>10

LEMMA SettleTokenPosts ==
  ASSUME IInv, NEW w \in Workers, NEW actual \in Actuals, SettleToken(w, actual)
  PROVE  /\ Posting(tx[w].order, Closed(order[tx[w].order], "settled", actual),
                    tx[w].seen.amount - actual, -tx[w].seen.amount)
         /\ Done(w)
<1> DEFINE o == tx[w].order
           seen == tx[w].seen
<1>1. Committing(w, "settle") /\ "settle" \in Operations
  BY DEF SettleToken, Operations
<1>2. /\ o \in Orders /\ seen.amount \in Nat
      /\ order[o].user = seen.user /\ order[o].status # "none" /\ seen.user \in Users
  BY <1>1, CommittingFacts
<1>3. actual \in Actuals \cup Amounts \cup {0} /\ actual \in Nat
  BY LedgerAssumption
<1>4. "settled" \in Statuses \ {"none"}
  BY DEF Statuses
<1>5. Row(o, Closed(order[o], "settled", actual))
  BY <1>2, <1>3, <1>4, SetOrderRow DEF SettleToken, IInv
<1>6. Covers(seen.user, seen.amount) /\ Book(o, seen.user, seen.amount - actual, -seen.amount)
  BY DEF SettleToken
<1>7. account[seen.user].reserved \in Nat
  BY <1>2 DEF IInv, TypeOK
<1>8. /\ account[seen.user].reserved + (-seen.amount) >= 0
      /\ -seen.amount \in Int /\ seen.amount - actual \in Int
  BY <1>2, <1>3, <1>6, <1>7 DEF Covers
<1>9. Posting(o, Closed(order[o], "settled", actual), seen.amount - actual, -seen.amount)
  BY <1>2, <1>5, <1>6, <1>8 DEF Posting
<1>10. Done(w)
  BY <1>1 DEF Committing, Done
<1>11. QED
  BY <1>9, <1>10

LEMMA RefundPosts ==
  ASSUME IInv, NEW w \in Workers, RefundBillingOrder(w)
  PROVE  /\ Posting(tx[w].order,
                    Closed(order[tx[w].order], "refunded", order[tx[w].order].actual),
                    tx[w].seen.amount, -tx[w].seen.amount)
         /\ Done(w)
<1> DEFINE o == tx[w].order
           seen == tx[w].seen
<1>1. Committing(w, "refund") /\ "refund" \in Operations
  BY DEF RefundBillingOrder, Operations
<1>2. /\ o \in Orders /\ seen.amount \in Nat /\ order[o] \in OrderRows
      /\ order[o].user = seen.user /\ order[o].status # "none" /\ seen.user \in Users
  BY <1>1, CommittingFacts
<1>3. order[o].actual \in Actuals \cup Amounts \cup {0}
  BY <1>2 DEF OrderRows
<1>4. "refunded" \in Statuses \ {"none"}
  BY DEF Statuses
<1>5. Row(o, Closed(order[o], "refunded", order[o].actual))
  BY <1>2, <1>3, <1>4, SetOrderRow DEF RefundBillingOrder, IInv
<1>6. Covers(seen.user, seen.amount) /\ Book(o, seen.user, seen.amount, -seen.amount)
  BY DEF RefundBillingOrder
<1>7. account[seen.user].reserved \in Nat
  BY <1>2 DEF IInv, TypeOK
<1>8. account[seen.user].reserved + (-seen.amount) >= 0 /\ -seen.amount \in Int
  BY <1>2, <1>6, <1>7 DEF Covers
<1>9. Posting(o, Closed(order[o], "refunded", order[o].actual), seen.amount, -seen.amount)
  BY <1>2, <1>5, <1>6, <1>8 DEF Posting
<1>10. Done(w)
  BY <1>1 DEF Committing, Done
<1>11. QED
  BY <1>9, <1>10

LEMMA RestorePosts ==
  ASSUME IInv, NEW w \in Workers, NEW actual \in Actuals \cup Amounts,
         RestoreRefundedBillingOrder(w, actual)
  PROVE  /\ Posting(tx[w].order, Closed(order[tx[w].order], "settled", actual), -actual, 0)
         /\ order[tx[w].order].status = "refunded"
         /\ Done(w)
<1> DEFINE o == tx[w].order
           seen == tx[w].seen
<1>1. Committing(w, "restore") /\ "restore" \in Operations
  BY DEF RestoreRefundedBillingOrder, Operations
<1>2. /\ o \in Orders /\ seen.amount \in Nat
      /\ order[o].user = seen.user /\ order[o].status # "none" /\ seen.user \in Users
  BY <1>1, CommittingFacts
<1>3. actual \in Actuals \cup Amounts \cup {0} /\ actual \in Nat /\ -actual \in Int
  BY LedgerAssumption
<1>4. "settled" \in Statuses \ {"none"}
  BY DEF Statuses
<1>5. Row(o, Closed(order[o], "settled", actual))
  BY <1>2, <1>3, <1>4, SetOrderRow DEF RestoreRefundedBillingOrder, IInv
<1>6. Book(o, seen.user, -actual, 0) /\ order[o].status = "refunded"
  BY DEF RestoreRefundedBillingOrder
<1>7. account[seen.user].reserved \in Nat
  BY <1>2 DEF IInv, TypeOK
<1>8. account[seen.user].reserved + 0 >= 0
  BY <1>7
<1>9. Posting(o, Closed(order[o], "settled", actual), -actual, 0)
  BY <1>2, <1>3, <1>5, <1>6, <1>8 DEF Posting
<1>10. Done(w)
  BY <1>1 DEF Committing, Done
<1>11. QED
  BY <1>6, <1>9, <1>10

\* The row a change of price leaves.
Repriced(row, mode, amount) == [row EXCEPT !.mode = mode, !.amount = amount]

LEMMA SwitchPosts ==
  ASSUME IInv, NEW w \in Workers, NEW mode \in Modes, NEW amount \in Amounts,
         SwitchTaskLogicalRoute(w, mode, amount)
  PROVE  /\ Posting(tx[w].order, Repriced(order[tx[w].order], mode, amount),
                    -(amount - tx[w].seen.amount), amount - tx[w].seen.amount)
         /\ order[tx[w].order].status \in {"reserved", "running"}
         /\ Repriced(order[tx[w].order], mode, amount).status = order[tx[w].order].status
         /\ Repriced(order[tx[w].order], mode, amount).amount = amount
         /\ Done(w)
<1> DEFINE o == tx[w].order
           seen == tx[w].seen
           d == amount - tx[w].seen.amount
<1>1. Committing(w, "switch") /\ "switch" \in Operations
  BY DEF SwitchTaskLogicalRoute, Operations
<1>2. /\ o \in Orders /\ seen.amount \in Nat /\ order[o] \in OrderRows
      /\ order[o].user = seen.user /\ order[o].status # "none" /\ seen.user \in Users
  BY <1>1, CommittingFacts
<1>3. amount \in Nat /\ d \in Int /\ -d \in Int
  BY <1>2, LedgerAssumption
<1>4. /\ Repriced(order[o], mode, amount) \in OrderRows
      /\ Repriced(order[o], mode, amount).user = order[o].user
      /\ Repriced(order[o], mode, amount).status = order[o].status
      /\ Repriced(order[o], mode, amount).amount = amount
  BY <1>2 DEF Repriced, OrderRows
<1>5. /\ order' = [order EXCEPT ![o].mode = mode, ![o].amount = amount]
      /\ Book(o, seen.user, -d, d)
      /\ d < 0 => Covers(seen.user, -d)
      /\ order[o].status \in {"reserved", "running"}
  BY DEF SwitchTaskLogicalRoute
<1>6. order' = [order EXCEPT ![o] = Repriced(order[o], mode, amount)]
  <2>1. order \in [Orders -> OrderRows]
    BY DEF IInv, TypeOK
  <2>2. QED
    BY <1>2, <1>5, <2>1 DEF Repriced, OrderRows
<1>7. Row(o, Repriced(order[o], mode, amount))
  BY <1>2, <1>4, <1>6 DEF Row
<1>8. account[seen.user].reserved + d >= 0
  <2>1. account[seen.user].reserved \in Nat
    BY <1>2 DEF IInv, TypeOK
  <2>2. d < 0 => account[seen.user].reserved >= -d
    BY <1>5 DEF Covers
  <2> HIDE DEF d
  <2>3. QED
    BY <1>3, <2>1, <2>2
<1>9. Posting(o, Repriced(order[o], mode, amount), -d, d)
  <2> HIDE DEF d
  <2>1. QED
    BY <1>2, <1>3, <1>5, <1>7, <1>8 DEF Posting
<1>10. Done(w)
  BY <1>1 DEF Committing, Done
<1>11. QED
  BY <1>4, <1>5, <1>9, <1>10

(***************************************************************************)
(* Every step is one of six kinds.                                         *)
(***************************************************************************)
CreditStep ==
  /\ \E u \in Users, d \in Deltas : Credit(u, d)
  /\ rewarded' \subseteq RewardKeys /\ redeemed' \subseteq RedeemCodes
  /\ UNCHANGED <<order, entries, tx>>

ReserveStep ==
  \E o \in Orders, u \in Users, m \in Modes, a \in Amounts : ReserveBillingOrder(o, u, m, a)

PostingStep ==
  \E w \in Workers, row \in OrderRows, a \in Int, r \in Int :
    /\ tx[w] # Idle
    /\ Posting(tx[w].order, row, a, r)
    /\ Done(w)

\* Marking an order, or noting the usage of a settlement that rolled back.
RowStep ==
  /\ \E o \in Orders, row \in OrderRows : Row(o, row)
  /\ tx' = tx \/ \E w \in Workers : tx' = [tx EXCEPT ![w] = Idle]
  /\ UNCHANGED <<account, credited, entries, rewarded, redeemed>>

BeginStep == \E w \in Workers, op \in Operations, o \in Orders : Begin(w, op, o)

RollbackStep == \E w \in Workers : Rollback(w)

Commits(w) ==
  \/ SettleFixed(w)
  \/ \E a \in Actuals : SettleToken(w, a)
  \/ RefundBillingOrder(w)
  \/ \E a \in Actuals \cup Amounts : RestoreRefundedBillingOrder(w, a)
  \/ \E m \in Modes, a \in Amounts : SwitchTaskLogicalRoute(w, m, a)

LEMMA CommitPosts ==
  ASSUME IInv, NEW w \in Workers, Commits(w)
  PROVE  PostingStep
<1>1. tx[w] # Idle
  BY DEF Commits, SettleFixed, SettleToken, RefundBillingOrder,
         RestoreRefundedBillingOrder, SwitchTaskLogicalRoute, Committing
<1>2. SUFFICES \E row, a, r : Posting(tx[w].order, row, a, r) /\ Done(w)
  BY <1>1 DEF PostingStep, Posting, Row
<1>3. CASE SettleFixed(w)
  BY <1>3, SettleFixedPosts
<1>4. CASE \E a \in Actuals : SettleToken(w, a)
  BY <1>4, SettleTokenPosts
<1>5. CASE RefundBillingOrder(w)
  BY <1>5, RefundPosts
<1>6. CASE \E a \in Actuals \cup Amounts : RestoreRefundedBillingOrder(w, a)
  BY <1>6, RestorePosts
<1>7. CASE \E m \in Modes, a \in Amounts : SwitchTaskLogicalRoute(w, m, a)
  BY <1>7, SwitchPosts
<1>8. QED
  BY <1>3, <1>4, <1>5, <1>6, <1>7 DEF Commits

LEMMA MarkIsRowStep ==
  ASSUME IInv, NEW o \in Orders, MarkBillingRunning(o) \/ MarkBillingUncertain(o)
  PROVE  RowStep
<1>1. order \in [Orders -> OrderRows] /\ order[o] \in OrderRows
  BY DEF IInv, TypeOK
<1>2. PICK status \in {"running", "uncertain"} :
        /\ order[o].status # "none"
        /\ order' = [order EXCEPT ![o].status = status]
  BY DEF MarkBillingRunning, MarkBillingUncertain
<1> DEFINE row == [order[o] EXCEPT !.status = status]
<1>3. row \in OrderRows /\ row.status # "none" /\ row.user = order[o].user
  BY <1>1 DEF OrderRows, Statuses
<1>4. order' = [order EXCEPT ![o] = row]
  BY <1>1, <1>2 DEF OrderRows
<1>5. Row(o, row)
  BY <1>2, <1>3, <1>4 DEF Row
<1>6. UNCHANGED <<account, credited, entries, rewarded, redeemed, tx>>
  BY DEF MarkBillingRunning, MarkBillingUncertain
<1>7. QED
  BY <1>3, <1>5, <1>6 DEF RowStep

LEMMA UsageIsRowStep ==
  ASSUME IInv, NEW w \in Workers, NEW actual \in Actuals, RollbackSettleToken(w, actual)
  PROVE  RowStep
<1> DEFINE o == tx[w].order
           row == [order[o] EXCEPT !.actual = actual]
<1>1. tx[w] # Idle
  BY DEF RollbackSettleToken
<1>2. tx[w] \in [op : Operations, order : Orders, seen : OrderRows]
  BY <1>1 DEF IInv, TypeOK
<1>3. o \in Orders
  BY <1>2
<1>4. order \in [Orders -> OrderRows] /\ order[o] \in OrderRows
  BY <1>3 DEF IInv, TypeOK
<1>5. order[o].status # "none"
  BY <1>1, <1>3, LedgerAssumption DEF IInv, TxOK, RowsOK
<1>6. row \in OrderRows /\ row.status # "none" /\ row.user = order[o].user
  BY <1>4, <1>5 DEF OrderRows
<1>7. order' = [order EXCEPT ![o] = row]
  BY <1>3, <1>4 DEF OrderRows, RollbackSettleToken
<1>8. Row(o, row)
  BY <1>3, <1>5, <1>6, <1>7 DEF Row
<1>9. /\ tx' = [tx EXCEPT ![w] = Idle]
      /\ UNCHANGED <<account, credited, entries, rewarded, redeemed>>
  BY DEF RollbackSettleToken
<1>10. QED
  BY <1>3, <1>6, <1>8, <1>9 DEF RowStep

LEMMA StepKinds ==
  ASSUME IInv, Next
  PROVE  CreditStep \/ ReserveStep \/ PostingStep \/ RowStep \/ BeginStep \/ RollbackStep
<1>1. CASE Accounts
  <2>1. Gains \subseteq Deltas
    BY DEF Gains
  <2>2. rewarded \subseteq RewardKeys /\ redeemed \subseteq RedeemCodes
    BY DEF IInv, TypeOK
  <2>3. CreditStep
    BY <1>1, <2>1, <2>2 DEF Accounts, AdjustCredits, GrantCreditsOnce, RedeemCode, CreditStep
  <2>4. QED
    BY <2>3
<1>2. CASE Orderly
  BY <1>2, MarkIsRowStep DEF Orderly, ReserveStep
<1>3. CASE Transactions
  BY <1>3, CommitPosts, UsageIsRowStep DEF Transactions, Commits, BeginStep, RollbackStep
<1>4. QED
  BY <1>1, <1>2, <1>3 DEF Next

(***************************************************************************)
(* Type correctness.                                                       *)
(***************************************************************************)
LEMMA RowKeeps ==
  ASSUME IInv, NEW o \in Orders, NEW row \in OrderRows, Row(o, row)
  PROVE  /\ order' \in [Orders -> OrderRows]
         /\ \A p \in Orders : order'[p].user = order[p].user
         /\ \A p \in Orders : order'[p].status = "none" <=> order[p].status = "none"
<1>1. order \in [Orders -> OrderRows]
  BY DEF IInv, TypeOK
<1>2. order' = [order EXCEPT ![o] = row]
  BY DEF Row
<1>3. row.user = order[o].user /\ row.status # "none" /\ order[o].status # "none"
  BY DEF Row
<1>4. QED
  BY <1>1, <1>2, <1>3

LEMMA IInvInit == Init => IInv
<1>1. SUFFICES ASSUME Init PROVE IInv
  OBVIOUS
<1>2. NoOrder \in OrderRows
  BY DEF NoOrder, OrderRows, Statuses, Modes
<1>3. Zero \in AccountRow /\ Zero \in Columns
  BY DEF Zero, AccountRow, Columns
<1>4. TypeOK
  BY <1>1, <1>2, <1>3 DEF Init, TypeOK, AccountRow
<1>5. RowsOK
  BY <1>1 DEF Init, RowsOK, NoOrder
<1>6. TxOK
  BY <1>1 DEF Init, TxOK
<1>7. QED
  BY <1>4, <1>5, <1>6 DEF IInv

LEMMA IInvStep == IInv /\ [Next]_vars => IInv'
<1>1. SUFFICES ASSUME IInv, [Next]_vars PROVE IInv'
  OBVIOUS
<1>a. /\ account \in [Users -> AccountRow]
      /\ order \in [Orders -> OrderRows]
      /\ credited \in [Users -> Int]
      /\ entries \in [Orders -> Columns]
      /\ rewarded \subseteq RewardKeys
      /\ redeemed \subseteq RedeemCodes
      /\ tx \in [Workers -> {Idle} \cup [op : Operations, order : Orders, seen : OrderRows]]
  BY <1>1 DEF IInv, TypeOK, AccountRow
<1>b. RowsOK /\ TxOK
  BY <1>1 DEF IInv
<1>c. SUFFICES /\ account' \in [Users -> AccountRow]
               /\ order' \in [Orders -> OrderRows]
               /\ credited' \in [Users -> Int]
               /\ entries' \in [Orders -> Columns]
               /\ rewarded' \subseteq RewardKeys
               /\ redeemed' \subseteq RedeemCodes
               /\ tx' \in [Workers -> {Idle} \cup
                             [op : Operations, order : Orders, seen : OrderRows]]
               /\ RowsOK' /\ TxOK'
  BY DEF IInv, TypeOK, AccountRow
<1>2. CASE CreditStep
  <2>1. PICK u \in Users, d \in Deltas : Credit(u, d)
    BY <1>2 DEF CreditStep
  <2>2. d \in Int
    BY LedgerAssumption
  <2>3. account' \in [Users -> AccountRow] /\ credited' \in [Users -> Int]
    BY <1>1, <2>1, <2>2, CreditType DEF IInv
  <2>4. UNCHANGED <<order, entries, tx>> /\ rewarded' \subseteq RewardKeys
        /\ redeemed' \subseteq RedeemCodes
    BY <1>2 DEF CreditStep
  <2>5. RowsOK' /\ TxOK'
    BY <1>b, <2>4 DEF RowsOK, TxOK
  <2>6. QED
    BY <1>a, <2>3, <2>4, <2>5
<1>3. CASE ReserveStep
  <2>1. PICK o \in Orders, u \in Users, m \in Modes, a \in Amounts :
          ReserveBillingOrder(o, u, m, a)
    BY <1>3 DEF ReserveStep
  <2> DEFINE row == [status |-> "reserved", user |-> u, mode |-> m, amount |-> a, actual |-> 0]
  <2>2. row \in OrderRows
    BY DEF OrderRows, Statuses
  <2>3. a \in Nat /\ -a \in Int /\ a \in Int
    BY LedgerAssumption
  <2>4. /\ order' = [order EXCEPT ![o] = row]
        /\ Book(o, u, -a, a)
        /\ UNCHANGED <<credited, rewarded, redeemed, tx>>
        /\ order[o].status = "none"
    <3>1. \A p \in Orders : (order[p].status = "none") <=> (p >= o)
      BY <2>1 DEF ReserveBillingOrder
    <3>2. o >= o
      BY LedgerAssumption DEF Orders
    <3>3. QED
      BY <2>1, <3>1, <3>2 DEF ReserveBillingOrder
  <2>5. account[u].reserved + a >= 0
    <3>1. account[u].reserved \in Nat
      BY <1>a DEF AccountRow
    <3>2. QED
      BY <2>3, <3>1
  <2>6. account' \in [Users -> AccountRow] /\ entries' \in [Orders -> Columns]
    BY <1>1, <2>3, <2>4, <2>5, BookType DEF IInv
  <2>7. order' \in [Orders -> OrderRows]
    BY <1>a, <2>2, <2>4
  <2>8. RowsOK'
    <3>1. entries' = [entries EXCEPT ![o] = Add(@, -a, a)]
      BY <2>4 DEF Book
    <3>2. \A p \in Orders : p # o => entries'[p] = entries[p] /\ order'[p] = order[p]
      BY <1>a, <2>4, <3>1
    <3>3. order'[o].status = "reserved" /\ order'[o].user = u
      BY <1>a, <2>4
    <3>4. QED
      BY <1>b, <3>2, <3>3 DEF RowsOK
  <2>9. TxOK'
    <3>1. SUFFICES ASSUME NEW w \in Workers, tx[w] # Idle
                   PROVE  order'[tx[w].order].user = order[tx[w].order].user
      BY <1>b, <2>4 DEF TxOK
    <3>2. tx[w].order \in Orders
      BY <1>a, <3>1
    <3>3. tx[w].order # o
      BY <1>b, <2>4, <3>1, <3>2, LedgerAssumption DEF TxOK, RowsOK
    <3>4. QED
      BY <1>a, <2>4, <3>2, <3>3
  <2>10. QED
    BY <1>a, <2>4, <2>6, <2>7, <2>8, <2>9
<1>4. CASE PostingStep
  <2>1. PICK w \in Workers, row \in OrderRows, a \in Int, r \in Int :
          tx[w] # Idle /\ Posting(tx[w].order, row, a, r) /\ Done(w)
    BY <1>4 DEF PostingStep
  <2> DEFINE o == tx[w].order
  <2>2. /\ o \in Orders /\ Row(o, row) /\ order[o].status # "none"
        /\ account[order[o].user].reserved + r >= 0
        /\ Book(o, order[o].user, a, r)
    BY <2>1 DEF Posting, Row
  <2>3. order[o].user \in Users
    BY <1>b, <2>2 DEF RowsOK
  <2>4. account' \in [Users -> AccountRow] /\ entries' \in [Orders -> Columns]
    BY <1>1, <2>2, <2>3, BookType DEF IInv
  <2>5. /\ order' \in [Orders -> OrderRows]
        /\ \A p \in Orders : order'[p].user = order[p].user
        /\ \A p \in Orders : order'[p].status = "none" <=> order[p].status = "none"
    BY <1>1, <2>2, RowKeeps
  <2>6. tx' = [tx EXCEPT ![w] = Idle] /\ UNCHANGED <<credited, rewarded, redeemed>>
    BY <2>1 DEF Done
  <2>7. RowsOK'
    <3>1. entries' = [entries EXCEPT ![o] = Add(@, a, r)]
      BY <2>2 DEF Book
    <3>2. \A p \in Orders : p # o => entries'[p] = entries[p]
      BY <1>a, <3>1
    <3>3. QED
      BY <1>b, <2>2, <2>5, <3>2 DEF RowsOK
  <2>8. TxOK'
    BY <1>a, <1>b, <2>5, <2>6 DEF TxOK
  <2>9. QED
    BY <1>a, <2>4, <2>5, <2>6, <2>7, <2>8
<1>5. CASE RowStep
  <2>1. PICK o \in Orders, row \in OrderRows : Row(o, row)
    BY <1>5 DEF RowStep
  <2>2. /\ order' \in [Orders -> OrderRows]
        /\ \A p \in Orders : order'[p].user = order[p].user
        /\ \A p \in Orders : order'[p].status = "none" <=> order[p].status = "none"
    BY <1>1, <2>1, RowKeeps
  <2>3. UNCHANGED <<account, credited, entries, rewarded, redeemed>>
    BY <1>5 DEF RowStep
  <2>4. tx' = tx \/ \E w \in Workers : tx' = [tx EXCEPT ![w] = Idle]
    BY <1>5 DEF RowStep
  <2>5. RowsOK'
    BY <1>b, <2>2, <2>3 DEF RowsOK
  <2>6. TxOK'
    BY <1>a, <1>b, <2>2, <2>4 DEF TxOK
  <2>7. QED
    BY <1>a, <2>2, <2>3, <2>4, <2>5, <2>6
<1>6. CASE BeginStep
  <2>1. PICK w \in Workers, op \in Operations, o \in Orders : Begin(w, op, o)
    BY <1>6 DEF BeginStep
  <2>2. /\ tx' = [tx EXCEPT ![w] = [op |-> op, order |-> o, seen |-> order[o]]]
        /\ order[o].status \in Accepts(op)
        /\ UNCHANGED <<account, order, credited, entries, rewarded, redeemed>>
    BY <2>1 DEF Begin
  <2>3. order[o].status # "none"
    BY <2>2 DEF Accepts, Open, Operations
  <2>4. order[o].user \in Users
    BY <1>b, <2>3 DEF RowsOK
  <2>5. RowsOK'
    BY <1>b, <2>2 DEF RowsOK
  <2>6. TxOK'
    BY <1>a, <1>b, <2>2, <2>4 DEF TxOK
  <2>7. QED
    BY <1>a, <2>2, <2>5, <2>6
<1>7. CASE RollbackStep
  BY <1>7, <1>a, <1>b DEF RollbackStep, Rollback, RowsOK, TxOK
<1>8. CASE UNCHANGED vars
  BY <1>8, <1>a, <1>b DEF vars, RowsOK, TxOK
<1>9. QED
  BY <1>1, <1>2, <1>3, <1>4, <1>5, <1>6, <1>7, <1>8, StepKinds

LEMMA InductiveInvariant == Spec => []IInv
BY IInvInit, IInvStep, PTL DEF Spec

\* Types hold in every reachable state; in particular the reserved column never
\* goes negative, under either isolation level.
THEOREM Typed == Spec => []TypeOK
<1>1. IInv => TypeOK
  BY DEF IInv
<1>2. QED
  BY <1>1, InductiveInvariant, PTL

(***************************************************************************)
(* The ledger replays the accounts.                                        *)
(***************************************************************************)
LEMMA OrdersAreRows == MaxOrders \in Nat /\ Orders = 1 .. MaxOrders
BY LedgerAssumption DEF Orders

\* A column of the orders of one user.
LEMMA OfUserColumn ==
  ASSUME NEW u \in Users, NEW f, f \in [Orders -> Int]
  PROVE  OfUser(u, f) \in [1 .. MaxOrders -> Int]
<1>1. \A o \in Orders : (IF order[o].user = u THEN f[o] ELSE 0) \in Int
  OBVIOUS
<1>2. QED
  BY <1>1, OrdersAreRows DEF OfUser

\* The column after the step.
NewColumn(u, f) == [o \in Orders |-> IF order'[o].user = u THEN f[o] ELSE 0]

\* Column f becomes g: only row o, which is or becomes a row of u, grows, by d.
ColumnGrows(u, o, d, f, g) ==
  /\ f \in [Orders -> Int] /\ g \in [Orders -> Int]
  /\ order'[o].user = u
  /\ \A p \in Orders : p # o => order'[p].user = order[p].user /\ g[p] = f[p]
  /\ \/ order[o].user = u /\ g[o] = f[o] + d
     \/ order[o].user = NoUser /\ g[o] = d

\* The sum of a column whose entry in one row of user u grows by d.
LEMMA OfUserGrows ==
  ASSUME IInv, NEW u \in Users, NEW o \in Orders, NEW d \in Int,
         NEW f, NEW g, ColumnGrows(u, o, d, f, g), NEW v \in Users
  PROVE  SumTo(NewColumn(v, g), MaxOrders)
           = SumTo(OfUser(v, f), MaxOrders) + (IF v = u THEN d ELSE 0)
<1> DEFINE F == OfUser(v, f)
           G == [p \in Orders |-> IF order'[p].user = v THEN g[p] ELSE 0]
<1>0. /\ f \in [Orders -> Int] /\ g \in [Orders -> Int]
      /\ order'[o].user = u
      /\ \A p \in Orders : p # o => order'[p].user = order[p].user /\ g[p] = f[p]
      /\ \/ order[o].user = u /\ g[o] = f[o] + d
         \/ order[o].user = NoUser /\ g[o] = d
  BY DEF ColumnGrows
<1>1. F \in [1 .. MaxOrders -> Int]
  BY <1>0, OfUserColumn
<1>2. G \in [1 .. MaxOrders -> Int]
  <2>1. \A p \in Orders : (IF order'[p].user = v THEN g[p] ELSE 0) \in Int
    BY <1>0
  <2>2. QED
    BY <2>1, OrdersAreRows
<1>3. \A p \in 1 .. MaxOrders : p # o => G[p] = F[p]
  BY <1>0, OrdersAreRows DEF OfUser
<1>4. F[o] = (IF order[o].user = v THEN f[o] ELSE 0) /\ F[o] \in Int
  BY <1>0, <1>1, OrdersAreRows DEF OfUser
<1>5. G[o] = (IF u = v THEN g[o] ELSE 0) /\ G[o] \in Int
  BY <1>0, <1>2, OrdersAreRows
<1>6. G[o] = F[o] + (IF v = u THEN d ELSE 0)
  <2>1. NoUser # v /\ f[o] \in Int /\ g[o] \in Int
    BY <1>0, LedgerAssumption
  <2> HIDE DEF F, G
  <2>2. CASE v = u
    BY <1>0, <1>4, <1>5, <2>1, <2>2
  <2>3. CASE v # u
    BY <1>0, <1>4, <1>5, <2>1, <2>3
  <2>4. QED
    BY <2>2, <2>3
<1>7. SumTo(F, MaxOrders) \in Int
  BY <1>1, OrdersAreRows, SumToInt
<1>8. SumTo(G, MaxOrders) = SumTo(F, MaxOrders) + G[o] - F[o]
  <2> HIDE DEF F, G
  <2>1. QED
    BY <1>1, <1>2, <1>3, OrdersAreRows, SumToUpdate
<1>9. SumTo(G, MaxOrders) = SumTo(F, MaxOrders) + (IF v = u THEN d ELSE 0)
  <2> HIDE DEF F, G
  <2> DEFINE S == SumTo(F, MaxOrders)
             D == IF v = u THEN d ELSE 0
  <2>1. S \in Int /\ D \in Int /\ F[o] \in Int
    BY <1>4, <1>7
  <2>2. SumTo(G, MaxOrders) = S + (F[o] + D) - F[o]
    BY <1>6, <1>8
  <2> HIDE DEF S, D
  <2>3. S + (F[o] + D) - F[o] = S + D
    BY ONLY <2>1
  <2>4. SumTo(G, MaxOrders) = S + D
    BY <2>2, <2>3
  <2>5. QED
    BY <2>4 DEF S, D
<1>10. NewColumn(v, g) = G
  BY DEF NewColumn
<1>11. QED
  BY <1>9, <1>10

\* Booking an order of user u, old or just created, keeps the replay.
LEMMA BookReplays ==
  ASSUME IInv, IInv', AccountReplaysLedger,
         NEW u \in Users, NEW o \in Orders, NEW a \in Int, NEW r \in Int,
         Book(o, u, a, r), credited' = credited,
         order'[o].user = u,
         \A p \in Orders : p # o => order'[p].user = order[p].user,
         order[o].user = u \/ (order[o].user = NoUser /\ entries[o] = Zero)
  PROVE  AccountReplaysLedger'
<1> DEFINE fa == [p \in Orders |-> entries[p].available]
           ga == [p \in Orders |-> entries'[p].available]
           fr == [p \in Orders |-> entries[p].reserved]
           gr == [p \in Orders |-> entries'[p].reserved]
<1>1. /\ account \in [Users -> AccountRow] /\ entries \in [Orders -> Columns]
      /\ entries' \in [Orders -> Columns] /\ credited \in [Users -> Int]
  BY DEF IInv, TypeOK, AccountRow
<1>2. /\ fa \in [Orders -> Int] /\ ga \in [Orders -> Int]
      /\ fr \in [Orders -> Int] /\ gr \in [Orders -> Int]
  BY <1>1 DEF Columns
<1>3. /\ entries'[o].available = entries[o].available + a
      /\ entries'[o].reserved = entries[o].reserved + r
      /\ \A p \in Orders : p # o => entries'[p] = entries[p]
  <2>1. entries' = [entries EXCEPT ![o] = Add(entries[o], a, r)]
    BY DEF Book
  <2>2. QED
    BY <1>1, <2>1 DEF Add
<1>4. \A v \in Users :
        /\ account'[v].available = account[v].available + (IF v = u THEN a ELSE 0)
        /\ account'[v].reserved = account[v].reserved + (IF v = u THEN r ELSE 0)
  <2>1. account' = [account EXCEPT ![u] = Add(account[u], a, r)]
    BY DEF Book
  <2>2. TAKE v \in Users
  <2>3. account[v].available \in Int /\ account[v].reserved \in Int
    BY <1>1 DEF AccountRow
  <2>4. CASE v = u
    BY <1>1, <2>1, <2>4 DEF Add
  <2>5. CASE v # u
    BY <1>1, <2>1, <2>3, <2>5
  <2>6. QED
    BY <2>4, <2>5
<1>5. \/ order[o].user = u /\ ga[o] = fa[o] + a
      \/ order[o].user = NoUser /\ ga[o] = a
  BY <1>3 DEF Zero
<1>6. \/ order[o].user = u /\ gr[o] = fr[o] + r
      \/ order[o].user = NoUser /\ gr[o] = r
  BY <1>3 DEF Zero
<1>7. \A p \in Orders : p # o => order'[p].user = order[p].user /\ ga[p] = fa[p]
  BY <1>3
<1>8. \A p \in Orders : p # o => order'[p].user = order[p].user /\ gr[p] = fr[p]
  BY <1>3
<1>9. SUFFICES ASSUME NEW v \in Users
      PROVE /\ account'[v].available = credited[v] + SumTo(NewColumn(v, ga), MaxOrders)
            /\ account'[v].reserved = SumTo(NewColumn(v, gr), MaxOrders)
  BY DEF AccountReplaysLedger, OfUser, NewColumn
<1>10. SumTo(NewColumn(v, ga), MaxOrders)
         = SumTo(OfUser(v, fa), MaxOrders) + (IF v = u THEN a ELSE 0)
  <2>1. ColumnGrows(u, o, a, fa, ga)
    BY <1>2, <1>5, <1>7 DEF ColumnGrows
  <2> HIDE DEF fa, ga
  <2>2. QED
    BY <2>1, OfUserGrows
<1>11. SumTo(NewColumn(v, gr), MaxOrders)
         = SumTo(OfUser(v, fr), MaxOrders) + (IF v = u THEN r ELSE 0)
  <2>1. ColumnGrows(u, o, r, fr, gr)
    BY <1>2, <1>6, <1>8 DEF ColumnGrows
  <2> HIDE DEF fr, gr
  <2>2. QED
    BY <2>1, OfUserGrows
<1>12. /\ account[v].available = credited[v] + SumTo(OfUser(v, fa), MaxOrders)
       /\ account[v].reserved = SumTo(OfUser(v, fr), MaxOrders)
  BY DEF AccountReplaysLedger
<1>13. /\ SumTo(OfUser(v, fa), MaxOrders) \in Int
       /\ SumTo(OfUser(v, fr), MaxOrders) \in Int
       /\ credited[v] \in Int
  <2> HIDE DEF fa, fr
  <2>1. QED
    BY <1>1, <1>2, OfUserColumn, OrdersAreRows, SumToInt
<1>14. QED
  <2> HIDE DEF fa, fr, ga, gr
  <2>1. account'[v].available = account[v].available + (IF v = u THEN a ELSE 0)
        /\ account'[v].reserved = account[v].reserved + (IF v = u THEN r ELSE 0)
    BY <1>4
  <2>2. QED
    BY <1>10, <1>11, <1>12, <1>13, <2>1

LEMMA ReplayStep == IInv /\ IInv' /\ AccountReplaysLedger /\ [Next]_vars => AccountReplaysLedger'
<1>1. SUFFICES ASSUME IInv, IInv', AccountReplaysLedger, [Next]_vars
               PROVE  AccountReplaysLedger'
  OBVIOUS
<1>2. CASE CreditStep
  <2>1. PICK u \in Users, d \in Deltas : Credit(u, d)
    BY <1>2 DEF CreditStep
  <2>2. UNCHANGED <<order, entries>>
    BY <1>2 DEF CreditStep
  <2>3. d \in Int /\ account \in [Users -> AccountRow] /\ credited \in [Users -> Int]
        /\ entries \in [Orders -> Columns]
    BY <1>1, LedgerAssumption DEF IInv, TypeOK, AccountRow
  <2> DEFINE fa == [p \in Orders |-> entries[p].available]
             fr == [p \in Orders |-> entries[p].reserved]
  <2>4. SUFFICES ASSUME NEW v \in Users
        PROVE /\ account'[v].available = credited'[v] + SumTo(OfUser(v, fa), MaxOrders)
              /\ account'[v].reserved = SumTo(OfUser(v, fr), MaxOrders)
    BY <2>2 DEF AccountReplaysLedger, OfUser
  <2>5. /\ account[v].available = credited[v] + SumTo(OfUser(v, fa), MaxOrders)
        /\ account[v].reserved = SumTo(OfUser(v, fr), MaxOrders)
    BY <1>1 DEF AccountReplaysLedger
  <2>6. SumTo(OfUser(v, fa), MaxOrders) \in Int
    <3>1. fa \in [Orders -> Int]
      BY <2>3 DEF Columns
    <3> HIDE DEF fa
    <3>2. QED
      BY <3>1, OfUserColumn, OrdersAreRows, SumToInt
  <2>7. account' = [account EXCEPT ![u] = Add(account[u], d, 0)]
        /\ credited' = [credited EXCEPT ![u] = credited[u] + d]
    BY <2>1 DEF Credit
  <2> HIDE DEF fa, fr
  <2>8. CASE v = u
    <3>1. /\ account'[v].available = account[v].available + d
          /\ account'[v].reserved = account[v].reserved + 0
          /\ credited'[v] = credited[v] + d
      BY <2>3, <2>7, <2>8 DEF Add
    <3>2. account[v].available \in Int /\ account[v].reserved \in Int /\ credited[v] \in Int
      BY <2>3 DEF AccountRow
    <3>3. QED
      BY <2>3, <2>5, <2>6, <3>1, <3>2
  <2>9. CASE v # u
    BY <2>3, <2>5, <2>7, <2>9
  <2>10. QED
    BY <2>8, <2>9
<1>3. CASE ReserveStep
  <2>1. PICK o \in Orders, u \in Users, m \in Modes, a \in Amounts :
          ReserveBillingOrder(o, u, m, a)
    BY <1>3 DEF ReserveStep
  <2>2. a \in Int /\ -a \in Int
    BY LedgerAssumption
  <2>3. order[o].status = "none"
    <3>1. \A p \in Orders : (order[p].status = "none") <=> (p >= o)
      BY <2>1 DEF ReserveBillingOrder
    <3>2. o >= o
      BY LedgerAssumption DEF Orders
    <3>3. QED
      BY <3>1, <3>2
  <2>4. Book(o, u, -a, a) /\ credited' = credited
        /\ order' = [order EXCEPT ![o] =
             [status |-> "reserved", user |-> u, mode |-> m, amount |-> a, actual |-> 0]]
    BY <2>1 DEF ReserveBillingOrder
  <2>5. order \in [Orders -> OrderRows]
    BY <1>1 DEF IInv, TypeOK
  <2>6. order'[o].user = u /\ \A p \in Orders : p # o => order'[p].user = order[p].user
    BY <2>4, <2>5
  <2>7. order[o].user = NoUser /\ entries[o] = Zero
    BY <1>1, <2>3 DEF IInv, RowsOK
  <2>8. QED
    BY <1>1, <2>2, <2>4, <2>6, <2>7, BookReplays
<1>4. CASE PostingStep
  <2>1. PICK w \in Workers, row \in OrderRows, a \in Int, r \in Int :
          tx[w] # Idle /\ Posting(tx[w].order, row, a, r) /\ Done(w)
    BY <1>4 DEF PostingStep
  <2> DEFINE o == tx[w].order
  <2>2. o \in Orders /\ Row(o, row) /\ order[o].status # "none"
        /\ Book(o, order[o].user, a, r) /\ credited' = credited
    BY <2>1 DEF Posting, Row, Done
  <2>3. order[o].user \in Users
    BY <1>1, <2>2 DEF IInv, RowsOK
  <2>4. \A p \in Orders : order'[p].user = order[p].user
    BY <1>1, <2>2, RowKeeps
  <2> HIDE DEF o
  <2>5. QED
    BY <1>1, <2>2, <2>3, <2>4, BookReplays
<1>5. CASE RowStep
  <2>1. PICK o \in Orders, row \in OrderRows : Row(o, row)
    BY <1>5 DEF RowStep
  <2>2. \A p \in Orders : order'[p].user = order[p].user
    BY <1>1, <2>1, RowKeeps
  <2>3. UNCHANGED <<account, credited, entries>>
    BY <1>5 DEF RowStep
  <2>4. \A u \in Users :
          /\ OfUser(u, [p \in Orders |-> entries[p].available])'
               = OfUser(u, [p \in Orders |-> entries[p].available])
          /\ OfUser(u, [p \in Orders |-> entries[p].reserved])'
               = OfUser(u, [p \in Orders |-> entries[p].reserved])
    BY <2>2, <2>3 DEF OfUser
  <2>5. QED
    BY <1>1, <2>3, <2>4 DEF AccountReplaysLedger
<1>6. CASE BeginStep
  <2>1. UNCHANGED <<account, credited, entries, order>>
    BY <1>6 DEF BeginStep, Begin
  <2>. QED BY <1>1, <2>1 DEF AccountReplaysLedger, OfUser
<1>7. CASE RollbackStep
  BY <1>1, <1>7 DEF RollbackStep, Rollback, AccountReplaysLedger, OfUser
<1>8. CASE UNCHANGED vars
  BY <1>1, <1>8 DEF vars, AccountReplaysLedger, OfUser
<1>9. QED
  BY <1>1, <1>2, <1>3, <1>4, <1>5, <1>6, <1>7, <1>8, StepKinds

\* A column of zeros sums to zero.
LEMMA SumOfZeros ==
  ASSUME NEW f, f \in [1 .. MaxOrders -> Int], \A o \in 1 .. MaxOrders : f[o] = 0
  PROVE  SumTo(f, MaxOrders) = 0
<1>1. \A o \in 1 .. MaxOrders : f[o] + f[o] + f[o] = 0
  OBVIOUS
<1>2. SumTo(f, MaxOrders) + SumTo(f, MaxOrders) + SumTo(f, MaxOrders) = 0
  BY <1>1, OrdersAreRows, SumToCancel
<1>3. SumTo(f, MaxOrders) \in Int
  BY OrdersAreRows, SumToInt
<1>4. QED
  BY <1>2, <1>3

LEMMA ReplayInit == Init => AccountReplaysLedger
<1>1. SUFFICES ASSUME Init, NEW u \in Users
      PROVE /\ 0 = 0 + SumTo(OfUser(u, [o \in Orders |-> 0]), MaxOrders)
            /\ 0 = SumTo(OfUser(u, [o \in Orders |-> 0]), MaxOrders)
  BY DEF Init, Zero, AccountReplaysLedger
<1> DEFINE f == OfUser(u, [o \in Orders |-> 0])
<1>2. f \in [1 .. MaxOrders -> Int]
  BY OfUserColumn
<1>3. \A o \in 1 .. MaxOrders : f[o] = 0
  BY OrdersAreRows DEF OfUser
<1>4. SumTo(f, MaxOrders) = 0
  <2> HIDE DEF f
  <2>1. QED
    BY <1>2, <1>3, SumOfZeros
<1>5. QED
  BY <1>4

\* Under either isolation level an account can be recomputed from the ledger.
THEOREM Replayed == Spec => []AccountReplaysLedger
BY ReplayInit, ReplayStep, InductiveInvariant, PTL DEF Spec

(***************************************************************************)
(* Serializable transactions: what was read is what is overwritten.        *)
(***************************************************************************)
Moves(old, new) ==
  \/ old \in Open /\ new \in Open \cup {"refunded", "settled"}
  \/ old = "refunded" /\ new = "settled"

SafePosting(o, row, a, r) ==
  /\ Posting(o, row, a, r)
  /\ Moves(order[o].status, row.status)
  /\ Add(EntriesOf(order[o]), a, r) = EntriesOf(row)

SafeRow(o, row) ==
  /\ Row(o, row)
  /\ order[o].status \in Open /\ row.status \in Open
  /\ row.amount = order[o].amount

LEMMA SettleFixedSafe ==
  ASSUME Serializable, IInv, NEW w \in Workers, SettleFixed(w)
  PROVE  /\ SafePosting(tx[w].order,
                        Closed(order[tx[w].order], "settled", tx[w].seen.amount),
                        0, -tx[w].seen.amount)
         /\ Done(w)
<1> DEFINE o == tx[w].order
           n == tx[w].seen.amount
           row == Closed(order[o], "settled", n)
<1>1. Committing(w, "settle") /\ "settle" \in Operations
  BY DEF SettleFixed, Operations
<1>2. /\ order[o] = tx[w].seen /\ n \in Nat /\ o \in Orders /\ order[o] \in OrderRows
      /\ order[o].status \in Open
  BY <1>1, CommittingFacts DEF Accepts
<1>3. row.status = "settled" /\ row.actual = n
  BY <1>2 DEF Closed, OrderRows
<1>4. Moves(order[o].status, row.status)
  BY <1>2, <1>3 DEF Moves
<1>5. EntriesOf(order[o]) = [available |-> -n, reserved |-> n]
  BY <1>2 DEF EntriesOf, Open
<1>6. EntriesOf(row) = [available |-> -n, reserved |-> 0]
  <2> HIDE DEF row
  <2>1. QED
    BY <1>3 DEF EntriesOf, Open
<1>7. Add([available |-> -n, reserved |-> n], 0, -n) = [available |-> -n, reserved |-> 0]
  <2> HIDE DEF n
  <2>1. QED
    BY <1>2 DEF Add
<1>8. QED
  BY <1>4, <1>5, <1>6, <1>7, SettleFixedPosts DEF SafePosting

LEMMA SettleTokenSafe ==
  ASSUME Serializable, IInv, NEW w \in Workers, NEW actual \in Actuals,
         SettleToken(w, actual)
  PROVE  /\ SafePosting(tx[w].order, Closed(order[tx[w].order], "settled", actual),
                        tx[w].seen.amount - actual, -tx[w].seen.amount)
         /\ Done(w)
<1> DEFINE o == tx[w].order
           n == tx[w].seen.amount
           row == Closed(order[o], "settled", actual)
<1>1. Committing(w, "settle") /\ "settle" \in Operations
  BY DEF SettleToken, Operations
<1>2. /\ order[o] = tx[w].seen /\ n \in Nat /\ o \in Orders /\ order[o] \in OrderRows
      /\ order[o].status \in Open
  BY <1>1, CommittingFacts DEF Accepts
<1>3. row.status = "settled" /\ row.actual = actual
  BY <1>2 DEF Closed, OrderRows
<1>4. Moves(order[o].status, row.status)
  BY <1>2, <1>3 DEF Moves
<1>5. EntriesOf(order[o]) = [available |-> -n, reserved |-> n]
  BY <1>2 DEF EntriesOf, Open
<1>6. EntriesOf(row) = [available |-> -actual, reserved |-> 0]
  <2> HIDE DEF row
  <2>1. QED
    BY <1>3 DEF EntriesOf, Open
<1>7. Add([available |-> -n, reserved |-> n], n - actual, -n)
        = [available |-> -actual, reserved |-> 0]
  <2> HIDE DEF n
  <2>1. actual \in Int
    BY LedgerAssumption
  <2>2. QED
    BY <1>2, <2>1 DEF Add
<1>8. QED
  BY <1>4, <1>5, <1>6, <1>7, SettleTokenPosts DEF SafePosting

LEMMA RefundSafe ==
  ASSUME Serializable, IInv, NEW w \in Workers, RefundBillingOrder(w)
  PROVE  /\ SafePosting(tx[w].order,
                        Closed(order[tx[w].order], "refunded", order[tx[w].order].actual),
                        tx[w].seen.amount, -tx[w].seen.amount)
         /\ Done(w)
<1> DEFINE o == tx[w].order
           n == tx[w].seen.amount
           row == Closed(order[o], "refunded", order[o].actual)
<1>1. Committing(w, "refund") /\ "refund" \in Operations
  BY DEF RefundBillingOrder, Operations
<1>2. /\ order[o] = tx[w].seen /\ n \in Nat /\ o \in Orders /\ order[o] \in OrderRows
      /\ order[o].status \in Open
  BY <1>1, CommittingFacts DEF Accepts
<1>3. row.status = "refunded"
  BY <1>2 DEF Closed, OrderRows
<1>4. Moves(order[o].status, row.status)
  BY <1>2, <1>3 DEF Moves
<1>5. EntriesOf(order[o]) = [available |-> -n, reserved |-> n]
  BY <1>2 DEF EntriesOf, Open
<1>6. EntriesOf(row) = Zero
  <2> HIDE DEF row
  <2>1. QED
    BY <1>3 DEF EntriesOf, Open
<1>7. Add([available |-> -n, reserved |-> n], n, -n) = Zero
  <2> HIDE DEF n
  <2>1. QED
    BY <1>2 DEF Add, Zero
<1>8. QED
  BY <1>4, <1>5, <1>6, <1>7, RefundPosts DEF SafePosting

LEMMA RestoreSafe ==
  ASSUME Serializable, IInv, NEW w \in Workers, NEW actual \in Actuals \cup Amounts,
         RestoreRefundedBillingOrder(w, actual)
  PROVE  /\ SafePosting(tx[w].order, Closed(order[tx[w].order], "settled", actual),
                        -actual, 0)
         /\ Done(w)
<1> DEFINE o == tx[w].order
           row == Closed(order[o], "settled", actual)
<1>1. Committing(w, "restore") /\ "restore" \in Operations
  BY DEF RestoreRefundedBillingOrder, Operations
<1>2. /\ o \in Orders /\ order[o] \in OrderRows /\ order[o].status = "refunded"
  BY <1>1, CommittingFacts DEF RestoreRefundedBillingOrder
<1>3. row.status = "settled" /\ row.actual = actual
  BY <1>2 DEF Closed, OrderRows
<1>4. Moves(order[o].status, row.status)
  BY <1>2, <1>3 DEF Moves
<1>5. EntriesOf(order[o]) = Zero
  BY <1>2 DEF EntriesOf, Open
<1>6. EntriesOf(row) = [available |-> -actual, reserved |-> 0]
  <2> HIDE DEF row
  <2>1. QED
    BY <1>3 DEF EntriesOf, Open
<1>7. Add(Zero, -actual, 0) = [available |-> -actual, reserved |-> 0]
  <2>1. actual \in Int
    BY LedgerAssumption
  <2>2. QED
    BY <2>1 DEF Add, Zero
<1>8. QED
  BY <1>4, <1>5, <1>6, <1>7, RestorePosts DEF SafePosting

LEMMA SwitchSafe ==
  ASSUME Serializable, IInv, NEW w \in Workers, NEW mode \in Modes, NEW amount \in Amounts,
         SwitchTaskLogicalRoute(w, mode, amount)
  PROVE  /\ SafePosting(tx[w].order, Repriced(order[tx[w].order], mode, amount),
                        -(amount - tx[w].seen.amount), amount - tx[w].seen.amount)
         /\ Done(w)
<1> DEFINE o == tx[w].order
           n == tx[w].seen.amount
           row == Repriced(order[o], mode, amount)
<1>1. Committing(w, "switch") /\ "switch" \in Operations
  BY DEF SwitchTaskLogicalRoute, Operations
<1>2. /\ order[o] = tx[w].seen /\ n \in Nat /\ o \in Orders /\ order[o] \in OrderRows
      /\ order[o].status \in {"reserved", "running"}
  BY <1>1, CommittingFacts DEF Accepts
<1>3. row.status = order[o].status /\ row.amount = amount
  BY <1>2 DEF Repriced, OrderRows
<1>4. Moves(order[o].status, row.status)
  BY <1>2, <1>3 DEF Moves, Open
<1>5. EntriesOf(order[o]) = [available |-> -n, reserved |-> n]
  BY <1>2 DEF EntriesOf, Open
<1>6. EntriesOf(row) = [available |-> -amount, reserved |-> amount]
  <2> HIDE DEF row
  <2>1. QED
    BY <1>2, <1>3 DEF EntriesOf, Open
<1>7. Add([available |-> -n, reserved |-> n], -(amount - n), amount - n)
        = [available |-> -amount, reserved |-> amount]
  <2> HIDE DEF n
  <2>1. amount \in Int
    BY LedgerAssumption
  <2>2. QED
    BY <1>2, <2>1 DEF Add
<1>8. QED
  BY <1>4, <1>5, <1>6, <1>7, SwitchPosts DEF SafePosting

SafePostingStep ==
  \E w \in Workers, row \in OrderRows, a \in Int, r \in Int :
    /\ SafePosting(tx[w].order, row, a, r)
    /\ Done(w)

SafeRowStep ==
  /\ \E o \in Orders, row \in OrderRows : SafeRow(o, row)
  /\ UNCHANGED <<account, credited, entries>>

\* The steps of the serializable system.
LEMMA SafeStepKinds ==
  ASSUME Serializable, IInv, Next
  PROVE  CreditStep \/ ReserveStep \/ SafePostingStep \/ SafeRowStep
           \/ UNCHANGED <<account, order, credited, entries>>
<1>1. CASE Accounts
  <2>1. Gains \subseteq Deltas
    BY DEF Gains
  <2>2. rewarded \subseteq RewardKeys /\ redeemed \subseteq RedeemCodes
    BY DEF IInv, TypeOK
  <2>3. CreditStep
    BY <1>1, <2>1, <2>2 DEF Accounts, AdjustCredits, GrantCreditsOnce, RedeemCode, CreditStep
  <2>4. QED
    BY <2>3
<1>2. ASSUME NEW o \in Orders, MarkBillingRunning(o) \/ MarkBillingUncertain(o)
      PROVE  SafeRowStep
  <2>1. order \in [Orders -> OrderRows] /\ order[o] \in OrderRows
    BY DEF IInv, TypeOK
  <2>2. PICK status \in {"running", "uncertain"} :
          /\ order[o].status \in Open
          /\ order' = [order EXCEPT ![o].status = status]
          /\ UNCHANGED <<account, credited, entries>>
    BY <1>2 DEF MarkBillingRunning, MarkBillingUncertain, Open
  <2> DEFINE row == [order[o] EXCEPT !.status = status]
  <2>3. /\ row \in OrderRows /\ row.status = status
        /\ row.user = order[o].user /\ row.amount = order[o].amount
    BY <2>1 DEF OrderRows, Statuses
  <2>4. order' = [order EXCEPT ![o] = row]
    BY <2>1, <2>2 DEF OrderRows
  <2> HIDE DEF row
  <2>5. SafeRow(o, row)
    BY <2>2, <2>3, <2>4 DEF SafeRow, Row, Open
  <2>6. QED
    BY <2>2, <2>3, <2>5 DEF SafeRowStep
<1>3. CASE Orderly
  BY <1>2, <1>3 DEF Orderly, ReserveStep
<1>4. ASSUME NEW w \in Workers, NEW actual \in Actuals, RollbackSettleToken(w, actual)
      PROVE  SafeRowStep
  <2> DEFINE o == tx[w].order
             row == [order[o] EXCEPT !.actual = actual]
  <2>1. tx[w] # Idle /\ order[o].status \notin {"settled", "refunded"}
    BY <1>4 DEF RollbackSettleToken
  <2>2. tx[w] \in [op : Operations, order : Orders, seen : OrderRows]
    BY <2>1 DEF IInv, TypeOK
  <2>3. o \in Orders
    BY <2>2
  <2>4. order \in [Orders -> OrderRows] /\ order[o] \in OrderRows
    BY <2>3 DEF IInv, TypeOK
  <2>5. order[o].status # "none"
    BY <2>1, <2>3, LedgerAssumption DEF IInv, TxOK, RowsOK
  <2>6. order[o].status \in Open
    BY <2>1, <2>4, <2>5 DEF OrderRows, Statuses, Open
  <2>7. /\ row \in OrderRows /\ row.status = order[o].status
        /\ row.user = order[o].user /\ row.amount = order[o].amount
    BY <2>4 DEF OrderRows
  <2>8. order' = [order EXCEPT ![o] = row] /\ UNCHANGED <<account, credited, entries>>
    BY <1>4, <2>3, <2>4 DEF OrderRows, RollbackSettleToken
  <2> HIDE DEF row
  <2>9. SafeRow(o, row)
    BY <2>3, <2>5, <2>6, <2>7, <2>8 DEF SafeRow, Row
  <2>10. QED
    BY <2>3, <2>7, <2>8, <2>9 DEF SafeRowStep
<1>5. ASSUME NEW w \in Workers, Commits(w) PROVE SafePostingStep
  <2>1. SUFFICES \E row, a, r : SafePosting(tx[w].order, row, a, r) /\ Done(w)
    BY DEF SafePostingStep, SafePosting, Posting, Row
  <2>2. CASE SettleFixed(w)
    BY <2>2, SettleFixedSafe
  <2>3. CASE \E a \in Actuals : SettleToken(w, a)
    BY <2>3, SettleTokenSafe
  <2>4. CASE RefundBillingOrder(w)
    BY <2>4, RefundSafe
  <2>5. CASE \E a \in Actuals \cup Amounts : RestoreRefundedBillingOrder(w, a)
    BY <2>5, RestoreSafe
  <2>6. CASE \E m \in Modes, a \in Amounts : SwitchTaskLogicalRoute(w, m, a)
    BY <2>6, SwitchSafe
  <2>7. QED
    BY <1>5, <2>2, <2>3, <2>4, <2>5, <2>6 DEF Commits
<1>6. CASE Transactions
  BY <1>4, <1>5, <1>6 DEF Transactions, Commits, Begin, Rollback
<1>7. QED
  BY <1>1, <1>3, <1>6 DEF Next

LEMMA EntriesInit == Init => OrderEntriesMatchStatus
BY DEF Init, OrderEntriesMatchStatus, EntriesOf, NoOrder, Open

LEMMA EntriesStep ==
  ASSUME Serializable
  PROVE  IInv /\ OrderEntriesMatchStatus /\ [Next]_vars => OrderEntriesMatchStatus'
<1>1. SUFFICES ASSUME IInv, OrderEntriesMatchStatus, [Next]_vars
               PROVE  OrderEntriesMatchStatus'
  OBVIOUS
<1>2. order \in [Orders -> OrderRows] /\ entries \in [Orders -> Columns]
  BY <1>1 DEF IInv, TypeOK
<1>3. CASE UNCHANGED <<order, entries>>
  BY <1>1, <1>3 DEF OrderEntriesMatchStatus, EntriesOf
<1>4. CASE ReserveStep
  <2>1. PICK o \in Orders, u \in Users, m \in Modes, a \in Amounts :
          ReserveBillingOrder(o, u, m, a)
    BY <1>4 DEF ReserveStep
  <2> DEFINE row == [status |-> "reserved", user |-> u, mode |-> m, amount |-> a, actual |-> 0]
  <2>2. a \in Int
    BY LedgerAssumption
  <2>3. order[o].status = "none"
    <3>1. \A p \in Orders : (order[p].status = "none") <=> (p >= o)
      BY <2>1 DEF ReserveBillingOrder
    <3>2. o >= o
      BY LedgerAssumption DEF Orders
    <3>3. QED
      BY <3>1, <3>2
  <2>4. order' = [order EXCEPT ![o] = row]
    BY <2>1 DEF ReserveBillingOrder
  <2>5. entries' = [entries EXCEPT ![o] = Add(entries[o], -a, a)]
    BY <2>1 DEF ReserveBillingOrder, Book
  <2>6. entries[o] = Zero
    BY <1>1, <2>3 DEF IInv, RowsOK
  <2>7. Add(Zero, -a, a) = [available |-> -a, reserved |-> a]
    BY <2>2 DEF Add, Zero
  <2>8. EntriesOf(row) = [available |-> -a, reserved |-> a]
    BY DEF EntriesOf, Open
  <2>9. QED
    BY <1>1, <1>2, <2>4, <2>5, <2>6, <2>7, <2>8 DEF OrderEntriesMatchStatus
<1>5. CASE SafePostingStep
  <2>1. PICK w \in Workers, row \in OrderRows, a \in Int, r \in Int :
          SafePosting(tx[w].order, row, a, r)
    BY <1>5 DEF SafePostingStep
  <2> DEFINE o == tx[w].order
  <2>2. /\ o \in Orders
        /\ order' = [order EXCEPT ![o] = row]
        /\ entries' = [entries EXCEPT ![o] = Add(entries[o], a, r)]
        /\ Add(EntriesOf(order[o]), a, r) = EntriesOf(row)
    BY <2>1 DEF SafePosting, Posting, Row, Book
  <2> HIDE DEF o
  <2>3. QED
    BY <1>1, <1>2, <2>2 DEF OrderEntriesMatchStatus
<1>6. CASE SafeRowStep
  <2>1. PICK o \in Orders, row \in OrderRows : SafeRow(o, row)
    BY <1>6 DEF SafeRowStep
  <2>2. order' = [order EXCEPT ![o] = row] /\ entries' = entries
    BY <1>6, <2>1 DEF SafeRowStep, SafeRow, Row
  <2>3. EntriesOf(row) = EntriesOf(order[o])
    BY <2>1 DEF SafeRow, EntriesOf, Open
  <2>4. QED
    BY <1>1, <1>2, <2>2, <2>3 DEF OrderEntriesMatchStatus
<1>7. CASE CreditStep
  BY <1>3, <1>7 DEF CreditStep
<1>8. QED
  BY <1>1, <1>3, <1>4, <1>5, <1>6, <1>7, SafeStepKinds DEF vars

\* With serializable transactions the entries of every order are those its
\* status calls for: nothing is settled or released twice.
THEOREM EntriesMatch == Serializable => (Spec => []OrderEntriesMatchStatus)
<1>1. ASSUME Serializable PROVE Spec => []OrderEntriesMatchStatus
  <2>1. IInv /\ OrderEntriesMatchStatus /\ [Next]_vars => OrderEntriesMatchStatus'
    BY <1>1, EntriesStep
  <2>2. QED
    BY <2>1, EntriesInit, InductiveInvariant, PTL DEF Spec
<1>2. QED
  BY <1>1

(***************************************************************************)
(* The two balances.                                                       *)
(***************************************************************************)
\* What the entries of one order come to, by status.
LEMMA EntriesByStatus ==
  ASSUME IInv, OrderEntriesMatchStatus, NEW o \in Orders
  PROVE  /\ order[o].amount \in Int /\ order[o].actual \in Int
         /\ entries[o].reserved = (IF order[o].status \in Open THEN order[o].amount ELSE 0)
         /\ entries[o].available + entries[o].reserved
              + (IF order[o].status = "settled" THEN order[o].actual ELSE 0) = 0
<1>1. order[o] \in OrderRows
  BY DEF IInv, TypeOK
<1>2. order[o].amount \in Int /\ order[o].actual \in Int
  <2>1. order[o].amount \in Amounts \cup {0} /\ order[o].actual \in Actuals \cup Amounts \cup {0}
    BY <1>1 DEF OrderRows
  <2>2. Amounts \cup {0} \subseteq Int /\ Actuals \cup Amounts \cup {0} \subseteq Int
    BY LedgerAssumption
  <2>3. QED
    BY <2>1, <2>2
<1>3. entries[o] = EntriesOf(order[o])
  BY DEF OrderEntriesMatchStatus
<1>4. CASE order[o].status \in Open
  <2>1. entries[o] = [available |-> -order[o].amount, reserved |-> order[o].amount]
    BY <1>3, <1>4 DEF EntriesOf, Open
  <2>2. order[o].status # "settled"
    BY <1>4 DEF Open
  <2>3. QED
    BY <1>2, <1>4, <2>1, <2>2
<1>5. CASE order[o].status = "settled"
  <2>1. entries[o] = [available |-> -order[o].actual, reserved |-> 0]
    BY <1>3, <1>5 DEF EntriesOf, Open
  <2>2. order[o].status \notin Open
    BY <1>5 DEF Open
  <2>3. QED
    BY <1>2, <1>5, <2>1, <2>2
<1>6. CASE order[o].status \in {"none", "refunded"}
  <2>1. entries[o] = Zero
    BY <1>3, <1>6 DEF EntriesOf, Open
  <2>2. order[o].status \notin Open /\ order[o].status # "settled"
    BY <1>6 DEF Open
  <2>3. QED
    BY <1>2, <2>1, <2>2 DEF Zero
<1>7. QED
  BY <1>1, <1>4, <1>5, <1>6 DEF OrderRows, Statuses, Open

LEMMA ReservedFollows ==
  IInv /\ AccountReplaysLedger /\ OrderEntriesMatchStatus => ReservedIsHeldByOpenOrders
<1>1. SUFFICES ASSUME IInv, AccountReplaysLedger, OrderEntriesMatchStatus, NEW u \in Users
      PROVE account[u].reserved =
              SumTo(OfUser(u, [o \in Orders |-> IF order[o].status \in Open
                                                THEN order[o].amount ELSE 0]), MaxOrders)
  BY DEF ReservedIsHeldByOpenOrders
<1>2. [o \in Orders |-> entries[o].reserved]
        = [o \in Orders |-> IF order[o].status \in Open THEN order[o].amount ELSE 0]
  BY <1>1, EntriesByStatus
<1>3. QED
  BY <1>1, <1>2 DEF AccountReplaysLedger

LEMMA ConservationFollows ==
  IInv /\ AccountReplaysLedger /\ OrderEntriesMatchStatus => CreditConserved
<1> DEFINE fa == [o \in Orders |-> entries[o].available]
           fr == [o \in Orders |-> entries[o].reserved]
           fs == [o \in Orders |-> IF order[o].status = "settled" THEN order[o].actual ELSE 0]
<1>1. SUFFICES ASSUME IInv, AccountReplaysLedger, OrderEntriesMatchStatus, NEW u \in Users
      PROVE credited[u] = account[u].available + account[u].reserved
                            + SumTo(OfUser(u, fs), MaxOrders)
  BY DEF CreditConserved
<1> DEFINE f == OfUser(u, fa)
           g == OfUser(u, fr)
           h == OfUser(u, fs)
<1>2. fa \in [Orders -> Int] /\ fr \in [Orders -> Int] /\ fs \in [Orders -> Int]
  <2>1. entries \in [Orders -> Columns]
    BY <1>1 DEF IInv, TypeOK
  <2>2. \A o \in Orders : order[o].actual \in Int
    BY <1>1, EntriesByStatus
  <2>3. QED
    BY <2>1, <2>2 DEF Columns
<1>3. /\ f \in [1 .. MaxOrders -> Int]
      /\ g \in [1 .. MaxOrders -> Int]
      /\ h \in [1 .. MaxOrders -> Int]
  <2> HIDE DEF fa, fr, fs
  <2>1. QED
    BY <1>2, OfUserColumn
<1>4. \A o \in 1 .. MaxOrders : f[o] + g[o] + h[o] = 0
  <2>1. TAKE o \in 1 .. MaxOrders
  <2>2. o \in Orders
    BY OrdersAreRows
  <2>3. fa[o] + fr[o] + fs[o] = 0
    BY <1>1, <2>2, EntriesByStatus
  <2>4. CASE order[o].user = u
    <3>1. f[o] = fa[o] /\ g[o] = fr[o] /\ h[o] = fs[o]
      BY <2>2, <2>4 DEF OfUser
    <3> HIDE DEF f, g, h, fa, fr, fs
    <3>2. QED
      BY <2>3, <3>1
  <2>5. CASE order[o].user # u
    <3>1. f[o] = 0 /\ g[o] = 0 /\ h[o] = 0
      BY <2>2, <2>5 DEF OfUser
    <3> HIDE DEF f, g, h
    <3>2. QED
      BY <3>1
  <2>6. QED
    BY <2>4, <2>5
<1>5. SumTo(f, MaxOrders) + SumTo(g, MaxOrders) + SumTo(h, MaxOrders) = 0
  <2> HIDE DEF f, g, h
  <2>1. QED
    BY <1>3, <1>4, OrdersAreRows, SumToCancel
<1>6. /\ SumTo(f, MaxOrders) \in Int
      /\ SumTo(g, MaxOrders) \in Int
      /\ SumTo(h, MaxOrders) \in Int
  <2> HIDE DEF f, g, h
  <2>1. QED
    BY <1>3, OrdersAreRows, SumToInt
<1>7. /\ account[u].available = credited[u] + SumTo(f, MaxOrders)
      /\ account[u].reserved = SumTo(g, MaxOrders)
      /\ credited[u] \in Int
  BY <1>1 DEF AccountReplaysLedger, IInv, TypeOK
<1>8. QED
  <2> HIDE DEF f, g
  <2> DEFINE x == SumTo(f, MaxOrders)
             y == SumTo(g, MaxOrders)
             z == SumTo(h, MaxOrders)
  <2>1. x \in Int /\ y \in Int /\ z \in Int /\ credited[u] \in Int /\ x + y + z = 0
    BY <1>5, <1>6, <1>7
  <2>2. account[u].available = credited[u] + x /\ account[u].reserved = y
    BY <1>7
  <2> HIDE DEF x, y, z
  <2>3. credited[u] = (credited[u] + x) + y + z
    BY ONLY <2>1
  <2>4. credited[u] = account[u].available + account[u].reserved + z
    BY <2>2, <2>3
  <2>5. QED
    BY <2>4 DEF z

\* With serializable transactions the reserved credit is what the open orders
\* reserved: each can still be closed.
THEOREM ReservedHeld == Serializable => (Spec => []ReservedIsHeldByOpenOrders)
<1>1. ASSUME Serializable PROVE Spec => []ReservedIsHeldByOpenOrders
  <2>1. Spec => []OrderEntriesMatchStatus
    BY <1>1, EntriesMatch
  <2>2. QED
    BY <2>1, InductiveInvariant, Replayed, ReservedFollows, PTL
<1>2. QED
  BY <1>1

\* With serializable transactions no credit appears or disappears.
THEOREM Conserved == Serializable => (Spec => []CreditConserved)
<1>1. ASSUME Serializable PROVE Spec => []CreditConserved
  <2>1. Spec => []OrderEntriesMatchStatus
    BY <1>1, EntriesMatch
  <2>2. QED
    BY <2>1, InductiveInvariant, Replayed, ConservationFollows, PTL
<1>2. QED
  BY <1>1

LEMMA SettledStep ==
  ASSUME Serializable, IInv, [Next]_vars, NEW p \in Orders, order[p].status = "settled"
  PROVE  order'[p] = order[p]
<1>1. order \in [Orders -> OrderRows]
  BY DEF IInv, TypeOK
<1>2. CASE UNCHANGED order
  BY <1>2
<1>3. CASE ReserveStep
  <2>1. PICK o \in Orders, u \in Users, m \in Modes, a \in Amounts :
          ReserveBillingOrder(o, u, m, a)
    BY <1>3 DEF ReserveStep
  <2>2. \A q \in Orders : (order[q].status = "none") <=> (q >= o)
    BY <2>1 DEF ReserveBillingOrder
  <2>3. o >= o
    BY LedgerAssumption DEF Orders
  <2>4. p # o
    BY <2>2, <2>3
  <2>5. QED
    BY <1>1, <2>1, <2>4 DEF ReserveBillingOrder
<1>4. CASE SafePostingStep
  BY <1>1, <1>4 DEF SafePostingStep, SafePosting, Posting, Row, Moves, Open
<1>5. CASE SafeRowStep
  BY <1>1, <1>5 DEF SafeRowStep, SafeRow, Row, Open
<1>6. CASE CreditStep
  BY <1>2, <1>6 DEF CreditStep
<1>7. QED
  BY <1>2, <1>3, <1>4, <1>5, <1>6, SafeStepKinds DEF vars

\* With serializable transactions a settled order never changes again.
THEOREM SettledFinal == Serializable => (Spec => SettledIsFinal)
<1>1. ASSUME Serializable PROVE Spec => SettledIsFinal
  <2>1. IInv /\ [Next]_vars =>
          [\A o \in Orders : order[o].status = "settled" => order'[o] = order[o]]_vars
    BY <1>1, SettledStep
  <2>2. QED
    BY <2>1, InductiveInvariant, PTL DEF Spec, SettledIsFinal
<1>2. QED
  BY <1>1

(***************************************************************************)
(* The tables implement the wallet.                                        *)
(***************************************************************************)
\* A user's credit moves by the sum of the two deltas.
LEMMA AbstractCreditMoves ==
  ASSUME IInv, NEW u \in Users, NEW a \in Int, NEW r \in Int,
         account' = [account EXCEPT ![u] = Add(account[u], a, r)]
  PROVE  AbstractCredit' = [AbstractCredit EXCEPT ![u] = AbstractCredit[u] + (a + r)]
<1>1. account \in [Users -> AccountRow]
  BY DEF IInv, TypeOK, AccountRow
<1>2. ASSUME NEW v \in Users
      PROVE  account'[v].available + account'[v].reserved
               = IF v = u THEN account[u].available + account[u].reserved + (a + r)
                 ELSE account[v].available + account[v].reserved
  <2>1. CASE v = u
    <3>1. account'[v].available = account[u].available + a
          /\ account'[v].reserved = account[u].reserved + r
      BY <1>1, <2>1 DEF Add
    <3>2. account[u].available \in Int /\ account[u].reserved \in Int
      BY <1>1 DEF AccountRow
    <3>3. QED
      BY <2>1, <3>1, <3>2
  <2>2. CASE v # u
    BY <1>1, <2>2
  <2>3. QED
    BY <2>1, <2>2
<1>3. QED
  BY <1>2 DEF AbstractCredit

\* A change of one order row is a change of one bill.
BillOf(row) ==
  [state  |-> BillState[row.status],
   user   |-> row.user,
   charge |-> IF row.status = "settled" THEN row.actual ELSE 0]

LEMMA AbstractBillMoves ==
  ASSUME IInv, NEW o \in Orders, NEW row, order' = [order EXCEPT ![o] = row]
  PROVE  /\ AbstractBill[o] = BillOf(order[o])
         /\ AbstractBill' = [AbstractBill EXCEPT ![o] = BillOf(row)]
<1>1. order \in [Orders -> OrderRows]
  BY DEF IInv, TypeOK
<1>2. AbstractBill = [p \in Orders |-> BillOf(order[p])]
  BY DEF AbstractBill, BillOf
<1>3. AbstractBill' = [p \in Orders |-> BillOf(order'[p])]
  BY DEF AbstractBill, BillOf
<1>4. QED
  BY <1>1, <1>2, <1>3

\* What an order's entries add up to.
Total(columns) == columns.available + columns.reserved

LEMMA TotalOfEntries ==
  ASSUME NEW row \in OrderRows
  PROVE  /\ EntriesOf(row) \in Columns
         /\ Total(EntriesOf(row)) = (IF row.status = "settled" THEN -row.actual ELSE 0)
         /\ row.actual \in Int
<1>1. row.amount \in Int /\ row.actual \in Int
  <2>1. row.amount \in Amounts \cup {0} /\ row.actual \in Actuals \cup Amounts \cup {0}
    BY DEF OrderRows
  <2>2. Amounts \cup {0} \subseteq Int /\ Actuals \cup Amounts \cup {0} \subseteq Int
    BY LedgerAssumption
  <2>3. QED
    BY <2>1, <2>2
<1>2. CASE row.status \in Open
  <2>1. EntriesOf(row) = [available |-> -row.amount, reserved |-> row.amount]
    BY <1>2 DEF EntriesOf, Open
  <2>2. row.status # "settled"
    BY <1>2 DEF Open
  <2>3. QED
    BY <1>1, <2>1, <2>2 DEF Columns, Total
<1>3. CASE row.status = "settled"
  <2>1. EntriesOf(row) = [available |-> -row.actual, reserved |-> 0]
    BY <1>3 DEF EntriesOf, Open
  <2>2. QED
    BY <1>1, <1>3, <2>1 DEF Columns, Total
<1>4. CASE row.status \in {"none", "refunded"}
  <2>1. EntriesOf(row) = Zero
    BY <1>4 DEF EntriesOf, Open
  <2>2. QED
    BY <1>1, <1>4, <2>1 DEF Columns, Total, Zero
<1>5. QED
  BY <1>2, <1>3, <1>4 DEF OrderRows, Statuses, Open

\* A safe posting moves the credit by what the order becomes charged.
LEMMA SafePostingTotal ==
  ASSUME NEW old \in OrderRows, NEW row \in OrderRows, NEW a \in Int, NEW r \in Int,
         old.status # "settled", Add(EntriesOf(old), a, r) = EntriesOf(row)
  PROVE  a + r = (IF row.status = "settled" THEN -row.actual ELSE 0)
<1> DEFINE e == EntriesOf(old)
<1>1. e \in Columns /\ Total(e) = 0
  BY TotalOfEntries
<1>2. Total(EntriesOf(row)) = (IF row.status = "settled" THEN -row.actual ELSE 0)
  BY TotalOfEntries
<1>3. Add(e, a, r).available = e.available + a /\ Add(e, a, r).reserved = e.reserved + r
  BY DEF Add
<1> HIDE DEF e
<1>4. Total(Add(e, a, r)) = (e.available + a) + (e.reserved + r)
  BY <1>3 DEF Total
<1>5. e.available \in Int /\ e.reserved \in Int /\ e.available + e.reserved = 0
  BY <1>1 DEF Columns, Total
<1>6. (e.available + a) + (e.reserved + r) = a + r
  BY <1>5
<1>7. Total(Add(e, a, r)) = Total(EntriesOf(row))
  BY DEF e
<1>8. QED
  BY <1>2, <1>4, <1>6, <1>7

LEMMA WalletInit == Init => AbstractWallet!WInit
<1>1. SUFFICES ASSUME Init PROVE AbstractWallet!WInit
  OBVIOUS
<1>2. AbstractCredit = [u \in Users |-> 0]
  BY <1>1 DEF Init, AbstractCredit, Zero
<1>3. BillState["none"] = "unused"
  BY DEF BillState, Statuses, Open
<1>4. AbstractBill = [o \in Orders |-> AbstractWallet!Unused]
  BY <1>1, <1>3 DEF Init, AbstractBill, NoOrder, AbstractWallet!Unused
<1>5. QED
  BY <1>2, <1>4 DEF AbstractWallet!WInit

LEMMA WalletStep ==
  ASSUME Serializable
  PROVE  IInv /\ [Next]_vars => [AbstractWallet!WNext]_(AbstractWallet!wvars)
<1>1. SUFFICES ASSUME IInv, [Next]_vars
               PROVE  AbstractWallet!WNext \/ UNCHANGED <<AbstractCredit, AbstractBill>>
  BY DEF AbstractWallet!wvars
<1>2. /\ order \in [Orders -> OrderRows]
      /\ account \in [Users -> AccountRow]
  BY <1>1 DEF IInv, TypeOK, AccountRow
<1>3. /\ \A s \in Open : BillState[s] = "due"
      /\ BillState["none"] = "unused"
      /\ BillState["refunded"] = "waived"
      /\ BillState["settled"] = "charged"
  BY DEF BillState, Statuses, Open
<1>4. CASE UNCHANGED <<account, order>>
  BY <1>4 DEF AbstractCredit, AbstractBill
<1>5. CASE CreditStep
  <2>1. PICK u \in Users, d \in Deltas : Credit(u, d)
    BY <1>5 DEF CreditStep
  <2>2. d \in Int /\ order' = order
    BY <1>5, LedgerAssumption DEF CreditStep
  <2>3. AbstractCredit' = [AbstractCredit EXCEPT ![u] = AbstractCredit[u] + (d + 0)]
    <3>1. account' = [account EXCEPT ![u] = Add(account[u], d, 0)]
      BY <2>1 DEF Credit
    <3>2. d \in Int /\ 0 \in Int
      BY <2>2
    <3>3. QED
      BY <1>1, <3>1, <3>2, AbstractCreditMoves
  <2>4. d + 0 = d
    BY <2>2
  <2>5. AbstractBill' = AbstractBill
    BY <2>2 DEF AbstractBill
  <2>6. AbstractWallet!Deposit(u)
    BY <2>3, <2>4, <2>5 DEF AbstractWallet!Deposit
  <2>7. QED
    BY <2>6 DEF AbstractWallet!WNext
<1>6. CASE ReserveStep
  <2>1. PICK o \in Orders, u \in Users, m \in Modes, a \in Amounts :
          ReserveBillingOrder(o, u, m, a)
    BY <1>6 DEF ReserveStep
  <2> DEFINE row == [status |-> "reserved", user |-> u, mode |-> m, amount |-> a, actual |-> 0]
  <2>2. a \in Int /\ -a \in Int /\ -a + a = 0
    BY LedgerAssumption
  <2>3. order[o].status = "none"
    <3>1. \A p \in Orders : (order[p].status = "none") <=> (p >= o)
      BY <2>1 DEF ReserveBillingOrder
    <3>2. o >= o
      BY LedgerAssumption DEF Orders
    <3>3. QED
      BY <3>1, <3>2
  <2>4. order' = [order EXCEPT ![o] = row]
        /\ account' = [account EXCEPT ![u] = Add(account[u], -a, a)]
    BY <2>1 DEF ReserveBillingOrder, Book
  <2>5. AbstractCredit' = AbstractCredit
    <3>1. AbstractCredit' = [AbstractCredit EXCEPT ![u] = AbstractCredit[u] + (-a + a)]
      BY <1>1, <2>2, <2>4, AbstractCreditMoves
    <3>2. AbstractCredit \in [Users -> Int]
      BY <1>2 DEF AbstractCredit, AccountRow
    <3>3. AbstractCredit[u] + (-a + a) = AbstractCredit[u]
      BY <2>2, <3>2
    <3>4. QED
      BY <3>1, <3>2, <3>3
  <2>6. BillOf(row) = [state |-> "due", user |-> u, charge |-> 0]
    BY <1>3 DEF BillOf, Open
  <2>7. AbstractBill[o].state = "unused"
    BY <1>3, <2>3 DEF AbstractBill
  <2>8. AbstractBill' = [AbstractBill EXCEPT ![o] = [state |-> "due", user |-> u, charge |-> 0]]
    <3> HIDE DEF row
    <3>1. QED
      BY <1>1, <2>4, <2>6, AbstractBillMoves
  <2>9. AbstractWallet!Invoice(o, u)
    BY <2>5, <2>7, <2>8 DEF AbstractWallet!Invoice
  <2>10. QED
    BY <2>9 DEF AbstractWallet!WNext
<1>7. CASE SafePostingStep
  <2>1. PICK w \in Workers, row \in OrderRows, a \in Int, r \in Int :
          SafePosting(tx[w].order, row, a, r)
    BY <1>7 DEF SafePostingStep
  <2> DEFINE o == tx[w].order
             u == order[o].user
  <2>2. /\ o \in Orders /\ order[o].status # "none" /\ row.user = u
        /\ order' = [order EXCEPT ![o] = row]
        /\ account' = [account EXCEPT ![u] = Add(account[u], a, r)]
        /\ Moves(order[o].status, row.status)
        /\ Add(EntriesOf(order[o]), a, r) = EntriesOf(row)
    BY <2>1 DEF SafePosting, Posting, Row, Book
  <2>3. u \in Users /\ order[o] \in OrderRows
    BY <1>1, <1>2, <2>2 DEF IInv, RowsOK
  <2>4. order[o].status # "settled"
    BY <2>2 DEF Moves, Open
  <2> HIDE DEF o, u
  <2>5. a + r = (IF row.status = "settled" THEN -row.actual ELSE 0)
    BY <2>2, <2>3, <2>4, SafePostingTotal
  <2>6. AbstractCredit' = [AbstractCredit EXCEPT ![u] = AbstractCredit[u] + (a + r)]
    BY <1>1, <2>2, <2>3, AbstractCreditMoves
  <2>7. /\ AbstractBill[o] = BillOf(order[o])
        /\ AbstractBill' = [AbstractBill EXCEPT ![o] = BillOf(row)]
    BY <1>1, <2>2, AbstractBillMoves
  <2>8. AbstractCredit \in [Users -> Int] /\ AbstractBill \in [Orders -> AbstractWallet!Bills]
    <3>1. AbstractCredit \in [Users -> Int]
      BY <1>2 DEF AbstractCredit, AccountRow
    <3>2. ASSUME NEW p \in Orders PROVE BillOf(order[p]) \in AbstractWallet!Bills
      <4>1. order[p] \in OrderRows
        BY <1>2
      <4>2. BillState[order[p].status] \in AbstractWallet!States
        BY <1>3, <4>1 DEF OrderRows, Statuses, Open, AbstractWallet!States
      <4>3. QED
        BY <4>1, <4>2 DEF OrderRows, BillOf, AbstractWallet!Bills
    <3>3. AbstractBill = [p \in Orders |-> BillOf(order[p])]
      BY DEF AbstractBill, BillOf
    <3>4. QED
      BY <3>1, <3>2, <3>3
  <2>9. AbstractBill[o].user = u /\ AbstractBill[o].state = BillState[order[o].status]
    BY <2>7 DEF BillOf, u
  <2>10. CASE row.status = "settled"
    <3>1. AbstractBill[o].state \in {"due", "waived"}
      BY <1>3, <2>2, <2>9, <2>10 DEF Moves
    <3>2. BillOf(row) = [state |-> "charged", user |-> u, charge |-> row.actual]
      BY <1>3, <2>2, <2>10 DEF BillOf
    <3>3. AbstractBill' = [AbstractBill EXCEPT ![o].state = "charged", ![o].charge = row.actual]
      BY <2>2, <2>7, <2>8, <2>9, <3>2 DEF AbstractWallet!Bills
    <3>4. row.actual \in Int /\ row.actual \in Actuals \cup Amounts \cup {0}
      BY TotalOfEntries DEF OrderRows
    <3>5. AbstractCredit[u] + (a + r) = AbstractCredit[u] - row.actual
      <4>1. a + r = -row.actual
        BY <2>5, <2>10
      <4>2. AbstractCredit[u] \in Int
        BY <2>3, <2>8
      <4>3. AbstractCredit[u] + (-row.actual) = AbstractCredit[u] - row.actual
        BY ONLY <3>4, <4>2
      <4>4. QED
        BY <4>1, <4>3
    <3>6. AbstractWallet!Charge(o, row.actual)
      BY <2>6, <2>9, <3>1, <3>3, <3>5 DEF AbstractWallet!Charge
    <3>7. QED
      BY <2>2, <3>4, <3>6 DEF AbstractWallet!WNext
  <2>11. CASE row.status # "settled"
    <3>1. a + r = 0
      BY <2>5, <2>11
    <3>2. AbstractCredit[u] \in Int
      BY <2>3, <2>8
    <3>3. AbstractCredit[u] + (a + r) = AbstractCredit[u]
      BY <3>1, <3>2
    <3>4. AbstractCredit' = AbstractCredit
      BY <2>6, <2>8, <3>3
    <3>5. order[o].status \in Open /\ row.status \in Open \cup {"refunded"}
      BY <2>2, <2>11 DEF Moves
    <3>6. AbstractBill[o] = [state |-> "due", user |-> u, charge |-> 0]
      BY <1>3, <2>4, <2>7, <3>5 DEF BillOf, u
    <3>7. CASE row.status \in Open
      <4>1. BillOf(row) = [state |-> "due", user |-> u, charge |-> 0]
        BY <1>3, <2>2, <2>11, <3>7 DEF BillOf
      <4>2. AbstractBill' = AbstractBill
        BY <2>7, <2>8, <3>6, <4>1
      <4>3. QED
        BY <3>4, <4>2
    <3>8. CASE row.status = "refunded"
      <4>1. BillOf(row) = [state |-> "waived", user |-> u, charge |-> 0]
        BY <1>3, <2>2, <2>11, <3>8 DEF BillOf
      <4>2. AbstractBill' = [AbstractBill EXCEPT ![o].state = "waived"]
        <5>1. [AbstractBill[o] EXCEPT !.state = "waived"]
                = [state |-> "waived", user |-> u, charge |-> 0]
          BY <3>6
        <5>2. AbstractBill' = [AbstractBill EXCEPT ![o] = [AbstractBill[o] EXCEPT !.state = "waived"]]
          BY <2>7, <4>1, <5>1
        <5>3. QED
          BY <5>2
      <4>3. AbstractWallet!Waive(o)
        BY <3>4, <3>6, <4>2 DEF AbstractWallet!Waive
      <4>4. QED
        BY <2>2, <4>3 DEF AbstractWallet!WNext
    <3>9. QED
      BY <3>5, <3>7, <3>8
  <2>12. QED
    BY <2>10, <2>11
<1>8. CASE SafeRowStep
  <2>1. PICK o \in Orders, row \in OrderRows : SafeRow(o, row)
    BY <1>8 DEF SafeRowStep
  <2>2. /\ order' = [order EXCEPT ![o] = row] /\ account' = account
        /\ row.user = order[o].user
        /\ order[o].status \in Open /\ row.status \in Open
    BY <1>8, <2>1 DEF SafeRowStep, SafeRow, Row
  <2>3. BillOf(row) = BillOf(order[o])
    BY <1>3, <2>2 DEF BillOf, Open
  <2>4. AbstractBill' = [AbstractBill EXCEPT ![o] = AbstractBill[o]]
    BY <1>1, <2>2, <2>3, AbstractBillMoves
  <2>5. AbstractBill' = AbstractBill
    BY <2>4 DEF AbstractBill
  <2>6. QED
    BY <2>2, <2>5 DEF AbstractCredit
<1>9. QED
  BY <1>1, <1>4, <1>5, <1>6, <1>7, <1>8, SafeStepKinds DEF vars

\* With serializable transactions the tables implement the wallet: reading an
\* order and writing it later is as good as charging or waiving it at once.
THEOREM WalletImplemented == Serializable => (Spec => ImplementsWallet)
<1>1. ASSUME Serializable PROVE Spec => ImplementsWallet
  <2>1. IInv /\ [Next]_vars => [AbstractWallet!WNext]_(AbstractWallet!wvars)
    BY <1>1, WalletStep
  <2>2. QED
    BY <2>1, WalletInit, InductiveInvariant, PTL
       DEF Spec, ImplementsWallet, AbstractWallet!WSpec
<1>2. QED
  BY <1>1

-----------------------------------------------------------------------------
(***************************************************************************)
(* Who takes available credit.                                             *)
(***************************************************************************)
\* What a booking does to the columns.
LEMMA BookMoves ==
  ASSUME TypeOK, NEW o \in Orders, NEW u \in Users, NEW a \in Int, NEW r \in Int,
         Book(o, u, a, r)
  PROVE  /\ account'[u].available = account[u].available + a
         /\ \A v \in Users \ {u} : account'[v] = account[v]
         /\ entries'[o].available = entries[o].available + a
         /\ entries'[o].reserved = entries[o].reserved + r
         /\ \A p \in Orders \ {o} : entries'[p] = entries[p]
<1>1. /\ account \in [Users -> AccountRow] /\ entries \in [Orders -> Columns]
  BY DEF TypeOK, AccountRow
<1>2. account' = [account EXCEPT ![u] = Add(account[u], a, r)]
      /\ entries' = [entries EXCEPT ![o] = Add(entries[o], a, r)]
  BY DEF Book
<1>3. account'[u] = Add(account[u], a, r) /\ entries'[o] = Add(entries[o], a, r)
  BY <1>1, <1>2
<1>. QED BY <1>1, <1>2, <1>3 DEF Add

\* An order is settled, by a charge that may exceed what was reserved.
Charges(w) ==
  \/ SettleFixed(w)
  \/ \E a \in Actuals : SettleToken(w, a)
  \/ \E a \in Actuals \cup Amounts : RestoreRefundedBillingOrder(w, a)

\* A charge moves the credit of the user whose order it settles.
LEMMA ChargeSettles ==
  ASSUME IInv, NEW w \in Workers, Charges(w)
  PROVE  /\ tx[w].order \in Orders
         /\ order'[tx[w].order].status = "settled"
         /\ \A v \in Users : v # order[tx[w].order].user => account'[v] = account[v]
<1>. DEFINE o == tx[w].order
<1>1. PICK row \in OrderRows, a \in Int, r \in Int :
        Posting(o, row, a, r) /\ row.status = "settled"
  <2>1. ASSUME NEW row, NEW a, NEW r, Posting(o, row, a, r), row.status = "settled"
        PROVE  \E s \in OrderRows, b \in Int, c \in Int : Posting(o, s, b, c) /\ s.status = "settled"
    BY <2>1 DEF Posting, Row
  <2>2. ASSUME NEW actual \in Actuals \cup Amounts \cup {0}, NEW a, NEW r,
               Posting(o, Closed(order[o], "settled", actual), a, r)
        PROVE  Closed(order[o], "settled", actual).status = "settled"
    <3>1. o \in Orders
      BY <2>2 DEF Posting, Row
    <3>2. order[o] \in OrderRows
      BY <3>1 DEF IInv, TypeOK
    <3>. QED BY <3>2 DEF Closed, OrderRows
  <2>3. CASE SettleFixed(w)
    <3>1. tx[w].seen.amount \in Amounts \cup {0}
      <4>1. Committing(w, "settle") /\ "settle" \in Operations
        BY <2>3 DEF SettleFixed, Operations
      <4>2. tx[w].seen \in OrderRows
        BY <4>1, CommittingFacts
      <4>. QED BY <4>2 DEF OrderRows
    <3>2. Posting(o, Closed(order[o], "settled", tx[w].seen.amount), 0, -tx[w].seen.amount)
      BY <2>3, SettleFixedPosts
    <3>. QED BY <2>1, <2>2, <3>1, <3>2
  <2>4. ASSUME NEW actual \in Actuals, SettleToken(w, actual)
        PROVE  \E s \in OrderRows, b \in Int, c \in Int : Posting(o, s, b, c) /\ s.status = "settled"
    BY <2>1, <2>2, <2>4, SettleTokenPosts
  <2>5. ASSUME NEW actual \in Actuals \cup Amounts, RestoreRefundedBillingOrder(w, actual)
        PROVE  \E s \in OrderRows, b \in Int, c \in Int : Posting(o, s, b, c) /\ s.status = "settled"
    BY <2>1, <2>2, <2>5, RestorePosts
  <2>. QED BY <2>3, <2>4, <2>5 DEF Charges
<1>2. o \in Orders /\ order' = [order EXCEPT ![o] = row] /\ Book(o, order[o].user, a, r)
      /\ order[o].status # "none"
  BY <1>1 DEF Posting, Row
<1>3. order[o].user \in Users
  BY <1>2 DEF IInv, RowsOK
<1>4. order'[o].status = "settled"
  BY <1>1, <1>2 DEF IInv, TypeOK
<1>5. \A v \in Users \ {order[o].user} : account'[v] = account[v]
  <2>1. TypeOK /\ a \in Int /\ r \in Int /\ Book(o, order[o].user, a, r)
    BY <1>1, <1>2 DEF IInv
  <2>. QED BY <1>2, <1>3, <2>1, BookMoves
<1>. QED BY <1>2, <1>4, <1>5

\* A step that is no charge leaves no balance below zero that it took from.
LEMMA OthersCover ==
  ASSUME IInv, Next, ~ \E w \in Workers : Charges(w), NEW u \in Users
  PROVE  account'[u].available >= 0 \/ account'[u].available >= account[u].available
<1>1. TypeOK /\ account \in [Users -> AccountRow] /\ account[u].available \in Int
  BY DEF IInv, TypeOK, AccountRow
<1>2. CASE UNCHANGED account
  BY <1>1, <1>2
<1>3. CASE Accounts
  <2>1. PICK v \in Users, d \in Deltas :
          Credit(v, d) /\ (d < 0 => account[v].available + d >= 0)
    BY <1>3, LedgerAssumption DEF Accounts, AdjustCredits, GrantCreditsOnce, RedeemCode, Gains
  <2>2. d \in Int
    BY LedgerAssumption
  <2>3. account' = [account EXCEPT ![v] = Add(account[v], d, 0)]
    BY <2>1 DEF Credit
  <2>4. u # v => account'[u] = account[u]
    BY <1>1, <2>3
  <2>5. account'[v].available = account[v].available + d
    <3>1. account'[v] = Add(account[v], d, 0)
      BY <1>1, <2>3
    <3>. QED BY <3>1 DEF Add
  <2>. QED BY <1>1, <2>1, <2>2, <2>4, <2>5
<1>4. ASSUME NEW o \in Orders, NEW v \in Users, NEW m \in Modes, NEW a \in Amounts,
             ReserveBillingOrder(o, v, m, a)
      PROVE  account'[u].available >= 0 \/ account'[u].available >= account[u].available
  <2>1. a \in Int /\ -a \in Int /\ Book(o, v, -a, a) /\ account[v].available >= a
    BY <1>4, LedgerAssumption DEF ReserveBillingOrder
  <2>2. account'[v].available = account[v].available + (-a) /\ (u # v => account'[u] = account[u])
    BY <1>1, <2>1, BookMoves
  <2>. QED BY <1>1, <2>1, <2>2
<1>5. ASSUME NEW w \in Workers, RefundBillingOrder(w)
      PROVE  account'[u].available >= 0 \/ account'[u].available >= account[u].available
  <2>1. Committing(w, "refund") /\ "refund" \in Operations
    BY <1>5 DEF RefundBillingOrder, Operations
  <2>2. /\ tx[w].order \in Orders /\ tx[w].seen.user \in Users /\ tx[w].seen.amount \in Nat
    BY <2>1, CommittingFacts
  <2>3. Book(tx[w].order, tx[w].seen.user, tx[w].seen.amount, -tx[w].seen.amount)
    BY <1>5 DEF RefundBillingOrder
  <2>4. /\ account'[tx[w].seen.user].available
             = account[tx[w].seen.user].available + tx[w].seen.amount
        /\ u # tx[w].seen.user => account'[u] = account[u]
    <3>1. tx[w].seen.amount \in Int /\ -tx[w].seen.amount \in Int
      BY <2>2
    <3>. QED BY <1>1, <2>2, <2>3, <3>1, BookMoves
  <2>. QED BY <1>1, <2>2, <2>4
<1>6. ASSUME NEW w \in Workers, NEW m \in Modes, NEW a \in Amounts, SwitchTaskLogicalRoute(w, m, a)
      PROVE  account'[u].available >= 0 \/ account'[u].available >= account[u].available
  <2>1. Committing(w, "switch") /\ "switch" \in Operations
    BY <1>6 DEF SwitchTaskLogicalRoute, Operations
  <2>2. /\ tx[w].order \in Orders /\ tx[w].seen.user \in Users /\ tx[w].seen.amount \in Nat
    BY <2>1, CommittingFacts
  <2>. DEFINE d == a - tx[w].seen.amount
  <2>3. d \in Int /\ -d \in Int
    BY <2>2, LedgerAssumption
  <2>4. /\ Book(tx[w].order, tx[w].seen.user, -d, d)
        /\ d > 0 => account[tx[w].seen.user].available >= d
    BY <1>6 DEF SwitchTaskLogicalRoute
  <2>. HIDE DEF d
  <2>5. /\ account'[tx[w].seen.user].available = account[tx[w].seen.user].available + (-d)
        /\ u # tx[w].seen.user => account'[u] = account[u]
    BY <1>1, <2>2, <2>3, <2>4, BookMoves
  <2>6. account[tx[w].seen.user].available \in Int
    BY <1>1, <2>2 DEF AccountRow
  <2>. QED BY <1>1, <2>3, <2>4, <2>5, <2>6
<1>7. \/ UNCHANGED account \/ Accounts
      \/ \E o \in Orders, v \in Users, m \in Modes, a \in Amounts : ReserveBillingOrder(o, v, m, a)
      \/ \E w \in Workers : \/ RefundBillingOrder(w)
                            \/ \E m \in Modes, a \in Amounts : SwitchTaskLogicalRoute(w, m, a)
  BY DEF Next, Orderly, Transactions, Charges, MarkBillingRunning, MarkBillingUncertain, Begin,
         Rollback, RollbackSettleToken
<1>. QED BY <1>2, <1>3, <1>4, <1>5, <1>6, <1>7

\* Only a settlement, or the charge of a refunded order, takes credit that is
\* not there: reservations, re-pricing and administrators ask for it first,
\* under either isolation level.
THEOREM OnlyChargesOverdraw == Spec => OverdraftOnlyByCharge
<1>1. ASSUME IInv, [Next]_vars, NEW u \in Users,
             account'[u].available < 0, account'[u].available < account[u].available
      PROVE  \E o \in Orders : order[o].user = u /\ order'[o].status = "settled"
  <2>1. account \in [Users -> AccountRow] /\ account' \in [Users -> AccountRow]
    BY <1>1, IInvStep DEF IInv, TypeOK, AccountRow
  <2>2. account[u].available \in Int /\ account'[u].available \in Int
    BY <2>1 DEF AccountRow
  <2>3. account'[u] # account[u]
    BY <1>1, <2>2
  <2>4. Next
    BY <1>1, <2>3 DEF vars
  <2>5. PICK w \in Workers : Charges(w)
    BY <1>1, <2>2, <2>4, OthersCover
  <2>. QED BY <1>1, <2>3, <2>5, ChargeSettles
<1>2. IInv /\ [Next]_vars =>
        [\A u \in Users :
           /\ account'[u].available < 0
           /\ account'[u].available < account[u].available
           => \E o \in Orders : order[o].user = u /\ order'[o].status = "settled"]_vars
  BY <1>1
<1>. QED BY <1>2, InductiveInvariant, PTL DEF Spec, OverdraftOnlyByCharge

\* No order is reserved for nothing.
NothingIsFree == 0 \notin Amounts

\* An order, and the row a transaction read, has an amount that was asked for.
PricedOK ==
  /\ \A o \in Orders : order[o].status # "none" => order[o].amount \in Amounts
  /\ \A w \in Workers : tx[w] # Idle => tx[w].seen.amount \in Amounts

\* Every step leaves the amounts priced.
LEMMA PricedStep ==
  ASSUME IInv, PricedOK, [Next]_vars
  PROVE  PricedOK'
<1>1. order \in [Orders -> OrderRows]
      /\ tx \in [Workers -> {Idle} \cup [op : Operations, order : Orders, seen : OrderRows]]
  BY DEF IInv, TypeOK
<1>. DEFINE Amount(o) == order'[o].status # "none" => order'[o].amount \in Amounts
<1>2. ASSUME UNCHANGED tx \/ \E w \in Workers : tx' = [tx EXCEPT ![w] = Idle],
             \A o \in Orders : Amount(o)
      PROVE  PricedOK'
  BY <1>1, <1>2 DEF PricedOK
<1>3. ASSUME NEW o \in Orders, NEW row, order' = [order EXCEPT ![o] = row], row.amount \in Amounts
      PROVE  \A p \in Orders : Amount(p)
  BY <1>1, <1>3 DEF PricedOK
<1>4. CASE UNCHANGED <<order, tx>>
  BY <1>4 DEF PricedOK
<1>5. ASSUME NEW o \in Orders, NEW u \in Users, NEW m \in Modes, NEW a \in Amounts,
             ReserveBillingOrder(o, u, m, a)
      PROVE  PricedOK'
  <2>. DEFINE row == [status |-> "reserved", user |-> u, mode |-> m, amount |-> a, actual |-> 0]
  <2>1. order' = [order EXCEPT ![o] = row] /\ row.amount \in Amounts /\ UNCHANGED tx
    BY <1>5 DEF ReserveBillingOrder
  <2>. HIDE DEF row
  <2>. QED BY <1>2, <1>3, <2>1
<1>6. ASSUME NEW o \in Orders, MarkBillingRunning(o) \/ MarkBillingUncertain(o)
      PROVE  PricedOK'
  <2>1. PICK status : order' = [order EXCEPT ![o].status = status] /\ order[o].status # "none"
                      /\ UNCHANGED tx
    BY <1>6 DEF MarkBillingRunning, MarkBillingUncertain
  <2>2. [order[o] EXCEPT !.status = status].amount = order[o].amount
    BY <1>1 DEF OrderRows
  <2>3. order' = [order EXCEPT ![o] = [order[o] EXCEPT !.status = status]]
    BY <2>1
  <2>. QED BY <1>2, <1>3, <2>1, <2>2, <2>3 DEF PricedOK
<1>7. ASSUME NEW w \in Workers, NEW op \in Operations, NEW o \in Orders, Begin(w, op, o)
      PROVE  PricedOK'
  <2>1. /\ tx' = [tx EXCEPT ![w] = [op |-> op, order |-> o, seen |-> order[o]]]
        /\ UNCHANGED order /\ order[o].status # "none"
    BY <1>7 DEF Begin, Accepts, Operations, Open
  <2>. QED BY <1>1, <2>1 DEF PricedOK
<1>8. ASSUME NEW w \in Workers, NEW m \in Modes, NEW a \in Amounts, SwitchTaskLogicalRoute(w, m, a)
      PROVE  PricedOK'
  <2>1. /\ Posting(tx[w].order, Repriced(order[tx[w].order], m, a),
                   -(a - tx[w].seen.amount), a - tx[w].seen.amount)
        /\ Repriced(order[tx[w].order], m, a).amount = a /\ Done(w)
    BY <1>8, SwitchPosts
  <2>2. /\ tx[w].order \in Orders
        /\ order' = [order EXCEPT ![tx[w].order] = Repriced(order[tx[w].order], m, a)]
        /\ tx' = [tx EXCEPT ![w] = Idle]
    BY <2>1 DEF Posting, Row, Done
  <2>. QED BY <1>2, <1>3, <2>1, <2>2
<1>9. ASSUME NEW w \in Workers, NEW o \in Orders, NEW status, NEW actual, order[o].status # "none",
             order' = [order EXCEPT ![o] = Closed(order[o], status, actual)],
             tx' = [tx EXCEPT ![w] = Idle]
      PROVE  PricedOK'
  <2>1. Closed(order[o], status, actual).amount = order[o].amount
    BY <1>1 DEF Closed, OrderRows
  <2>. QED BY <1>2, <1>3, <1>9, <2>1 DEF PricedOK
<1>10. ASSUME NEW w \in Workers, Charges(w) \/ RefundBillingOrder(w)
       PROVE  PricedOK'
  <2>1. PICK status, actual, a, r :
          Posting(tx[w].order, Closed(order[tx[w].order], status, actual), a, r) /\ Done(w)
    BY <1>10, SettleFixedPosts, SettleTokenPosts, RefundPosts, RestorePosts DEF Charges
  <2>. QED BY <1>9, <2>1 DEF Posting, Row, Done
<1>11. ASSUME NEW w \in Workers, NEW a \in Actuals, RollbackSettleToken(w, a)
       PROVE  PricedOK'
  <2>. DEFINE o == tx[w].order
  <2>1. /\ tx[w] # Idle /\ tx' = [tx EXCEPT ![w] = Idle]
        /\ order' = [order EXCEPT ![o].actual = a]
    BY <1>11 DEF RollbackSettleToken
  <2>2. o \in Orders
    BY <1>1, <2>1
  <2>3. order[o].status # "none"
    BY <2>1, <2>2, LedgerAssumption DEF IInv, TxOK, RowsOK
  <2>4. order' = [order EXCEPT ![o] = [order[o] EXCEPT !.actual = a]]
    BY <2>1
  <2>5. [order[o] EXCEPT !.actual = a].amount = order[o].amount
    BY <1>1, <2>2 DEF OrderRows
  <2>6. order[o].amount \in Amounts
    BY <2>2, <2>3 DEF PricedOK
  <2>. QED BY <1>2, <1>3, <2>1, <2>2, <2>4, <2>5, <2>6
<1>12. ASSUME NEW w \in Workers, Rollback(w)
       PROVE  PricedOK'
  BY <1>1, <1>2, <1>12 DEF Rollback, PricedOK
<1>13. CASE Accounts
  BY <1>4, <1>13 DEF Accounts, AdjustCredits, GrantCreditsOnce, RedeemCode
<1>. QED BY <1>4, <1>5, <1>6, <1>7, <1>8, <1>10, <1>11, <1>12, <1>13
         DEF Next, Orderly, Transactions, Charges, vars

\* Credit is taken from what is available alone only from a refunded order.
LEMMA AvailableAlone ==
  ASSUME NothingIsFree, IInv, PricedOK, [Next]_vars, NEW o \in Orders,
         order[o].status # "none",
         entries'[o].available < entries[o].available,
         entries'[o].reserved = entries[o].reserved
  PROVE  order[o].status = "refunded" /\ order'[o].status = "settled"
<1>1. TypeOK /\ entries \in [Orders -> Columns]
  BY DEF IInv, TypeOK
<1>2. entries[o].available \in Int /\ entries[o].reserved \in Int
  BY <1>1 DEF Columns
<1>3. entries'[o] # entries[o]
  BY <1>2
<1>4. ASSUME NEW w \in Workers, NEW row, NEW a \in Int, NEW r \in Int,
             Posting(tx[w].order, row, a, r)
      PROVE  tx[w].order = o /\ r = 0 /\ a < 0
  <2>1. tx[w].order \in Orders /\ Book(tx[w].order, order[tx[w].order].user, a, r)
        /\ order[tx[w].order].user \in Users
    BY <1>4 DEF Posting, Row, IInv, RowsOK
  <2>2. /\ entries'[tx[w].order].available = entries[tx[w].order].available + a
        /\ entries'[tx[w].order].reserved = entries[tx[w].order].reserved + r
        /\ \A p \in Orders \ {tx[w].order} : entries'[p] = entries[p]
    BY <1>1, <2>1, BookMoves
  <2>3. tx[w].order = o
    BY <1>3, <2>2
  <2>. QED BY <1>2, <2>2, <2>3
<1>5. ASSUME NEW w \in Workers, NEW op \in Operations, Committing(w, op)
      PROVE  tx[w].seen.amount \in Nat \ {0} /\ tx[w].order \in Orders
  <2>1. tx[w] # Idle /\ tx[w].order \in Orders
    BY <1>5, CommittingFacts
  <2>2. tx[w].seen.amount \in Amounts
    BY <2>1 DEF PricedOK
  <2>. QED BY <2>1, <2>2, LedgerAssumption DEF NothingIsFree
<1>6. ASSUME NEW w \in Workers, SettleFixed(w) PROVE FALSE
  <2>1. Posting(tx[w].order, Closed(order[tx[w].order], "settled", tx[w].seen.amount),
                0, -tx[w].seen.amount)
    BY <1>6, SettleFixedPosts
  <2>2. tx[w].seen.amount \in Nat \ {0}
    BY <1>5, <1>6 DEF SettleFixed, Operations
  <2>3. 0 \in Int /\ -tx[w].seen.amount \in Int /\ -tx[w].seen.amount # 0
    BY <2>2
  <2>4. -tx[w].seen.amount = 0
    BY <1>4, <2>1, <2>3
  <2>. QED BY <2>3, <2>4
<1>7. ASSUME NEW w \in Workers, NEW a \in Actuals, SettleToken(w, a) PROVE FALSE
  <2>1. Posting(tx[w].order, Closed(order[tx[w].order], "settled", a),
                tx[w].seen.amount - a, -tx[w].seen.amount)
    BY <1>7, SettleTokenPosts
  <2>2. tx[w].seen.amount \in Nat \ {0} /\ a \in Nat
    BY <1>5, <1>7, LedgerAssumption DEF SettleToken, Operations
  <2>3. tx[w].seen.amount - a \in Int /\ -tx[w].seen.amount \in Int /\ -tx[w].seen.amount # 0
    BY <2>2
  <2>. QED BY <1>4, <2>1, <2>3
<1>8. ASSUME NEW w \in Workers, RefundBillingOrder(w) PROVE FALSE
  <2>1. Posting(tx[w].order,
                Closed(order[tx[w].order], "refunded", order[tx[w].order].actual),
                tx[w].seen.amount, -tx[w].seen.amount)
    BY <1>8, RefundPosts
  <2>2. tx[w].seen.amount \in Nat \ {0}
    BY <1>5, <1>8 DEF RefundBillingOrder, Operations
  <2>3. tx[w].seen.amount \in Int /\ -tx[w].seen.amount \in Int /\ -tx[w].seen.amount # 0
    BY <2>2
  <2>. QED BY <1>4, <2>1, <2>3
<1>9. ASSUME NEW w \in Workers, NEW m \in Modes, NEW a \in Amounts, SwitchTaskLogicalRoute(w, m, a)
      PROVE  FALSE
  <2>. DEFINE d == a - tx[w].seen.amount
  <2>1. Posting(tx[w].order, Repriced(order[tx[w].order], m, a), -d, d)
    BY <1>9, SwitchPosts
  <2>2. tx[w].seen.amount \in Nat /\ a \in Nat
    BY <1>5, <1>9, LedgerAssumption DEF SwitchTaskLogicalRoute, Operations
  <2>3. d \in Int /\ -d \in Int
    BY <2>2
  <2>. HIDE DEF d
  <2>4. d = 0 /\ -d < 0
    BY <1>4, <2>1, <2>3
  <2>. QED BY <2>4
<1>10. ASSUME NEW w \in Workers, NEW a \in Actuals \cup Amounts, RestoreRefundedBillingOrder(w, a)
       PROVE  order[o].status = "refunded" /\ order'[o].status = "settled"
  <2>1. Posting(tx[w].order, Closed(order[tx[w].order], "settled", a), -a, 0)
        /\ order[tx[w].order].status = "refunded"
    BY <1>10, RestorePosts
  <2>2. -a \in Int
    BY LedgerAssumption
  <2>3. tx[w].order = o
    BY <1>4, <2>1, <2>2
  <2>4. order'[tx[w].order].status = "settled"
    BY <1>10, ChargeSettles DEF Charges
  <2>. QED BY <2>1, <2>3, <2>4
<1>11. ASSUME NEW p \in Orders, NEW u \in Users, NEW m \in Modes, NEW a \in Amounts,
              ReserveBillingOrder(p, u, m, a)
       PROVE  FALSE
  <2>1. p >= p /\ (order[p].status = "none" <=> p >= p)
    BY <1>11, LedgerAssumption DEF ReserveBillingOrder, Orders
  <2>2. p # o
    BY <2>1
  <2>3. a \in Int /\ -a \in Int /\ Book(p, u, -a, a)
    BY <1>11, LedgerAssumption DEF ReserveBillingOrder
  <2>. QED BY <1>1, <1>3, <2>2, <2>3, BookMoves
<1>12. \/ \E w \in Workers :
             \/ SettleFixed(w) \/ \E a \in Actuals : SettleToken(w, a)
             \/ RefundBillingOrder(w)
             \/ \E a \in Actuals \cup Amounts : RestoreRefundedBillingOrder(w, a)
             \/ \E m \in Modes, a \in Amounts : SwitchTaskLogicalRoute(w, m, a)
       \/ \E p \in Orders, u \in Users, m \in Modes, a \in Amounts : ReserveBillingOrder(p, u, m, a)
  BY <1>3 DEF Next, Accounts, Orderly, Transactions, AdjustCredits, GrantCreditsOnce, RedeemCode,
     Credit, MarkBillingRunning, MarkBillingUncertain, Begin, Rollback, RollbackSettleToken, vars
<1>. QED BY <1>6, <1>7, <1>8, <1>9, <1>10, <1>11, <1>12

\* A refunded order is charged again at most once per refund, also when two
\* recoveries run without serializable transactions.
THEOREM RestoredOnce == NothingIsFree => (Spec => RestoreChargesOnce)
<1>1. ASSUME NothingIsFree PROVE Spec => RestoreChargesOnce
  <2>1. Init => PricedOK
    BY DEF Init, PricedOK, NoOrder
  <2>2. IInv /\ PricedOK /\ [Next]_vars => PricedOK'
    BY PricedStep
  <2>3. IInv /\ PricedOK /\ [Next]_vars =>
          [\A o \in Orders :
             /\ order[o].status # "none"
             /\ entries'[o].available < entries[o].available
             /\ entries'[o].reserved = entries[o].reserved
             => order[o].status = "refunded" /\ order'[o].status = "settled"]_vars
    BY <1>1, AvailableAlone
  <2>. QED BY <2>1, <2>2, <2>3, InductiveInvariant, PTL DEF Spec, RestoreChargesOnce
<1>. QED BY <1>1
=============================================================================
