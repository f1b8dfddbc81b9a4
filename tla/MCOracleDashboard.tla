-------------------------- MODULE MCOracleDashboard --------------------------
(***************************************************************************)
(* A small instance of the contract and its reader: two accounts, two      *)
(* airnodes, the ETH/USD template and another one; a negative, a valid and *)
(* a price that no longer fits u128.                                       *)
(***************************************************************************)
EXTENDS OracleDashboard, TLC

PriceWords == {-1, 7, 8}
Interchangeable == Permutations(Account) \cup Permutations(Airnode)
=============================================================================
