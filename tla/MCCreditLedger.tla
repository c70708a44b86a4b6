--------------------------- MODULE MCCreditLedger ---------------------------
(***************************************************************************)
(* Instances of CreditLedger for TLC.                                      *)
(***************************************************************************)
EXTENDS CreditLedger, TLC

Grants == {-1, 2}

Symmetry == Permutations(Workers) \cup Permutations(Users)
=============================================================================
