SPECIFICATION Spec
CONSTANTS
  Users = {u1}
  NoUser = nobody
  MaxOrders = 2
  Workers = {w1, w2}
  Amounts = {1, 2}
  Actuals = {0, 2}
  Deltas <- Grants
  RewardKeys = {}
  RedeemCodes = {}
  MaxCredit = 2
  Serializable = TRUE
SYMMETRY Symmetry
INVARIANTS
  TypeOK
  AccountReplaysLedger
  OrderEntriesMatchStatus
  ReservedIsHeldByOpenOrders
  CreditConserved
PROPERTIES
  SettledIsFinal
  ImplementsWallet
CHECK_DEADLOCK FALSE
