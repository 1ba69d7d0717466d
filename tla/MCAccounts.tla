------------------------------ MODULE MCAccounts ------------------------------
(***************************************************************************)
(* Accounts on a small instance, where wallets and ids differ in name only.*)
(***************************************************************************)
EXTENDS Accounts, TLC

Symmetry == Permutations(Wallet) \cup Permutations(Id)
===============================================================================
