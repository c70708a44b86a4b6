SPECIFICATION Spec
CONSTANTS
  Users = {u1}
  NoUser = nobody
  MaxOrders = 2
  Workers = {w1, w2}
  Amounts = {1}
  Actuals = {2}
  Deltas <- Grants
  RewardKeys = {signup}
  RedeemCodes = {code}
  MaxCredit = 2
  Serializable = FALSE
SYMMETRY Symmetry
PROPERTIES
  
  RestoreChargesOnce
CHECK_DEADLOCK FALSE
