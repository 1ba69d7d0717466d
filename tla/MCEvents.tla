------------------------------- MODULE MCEvents -------------------------------
(***************************************************************************)
(* Events on small instances, where wallets differ in their names only.    *)
(***************************************************************************)
EXTENDS Events, TLC

Symmetry == Permutations(Wallet)

(* Bound for the early run: a behaviour is followed up to the first        *)
(* account that is closed.  Closing takes nothing back, and the core run   *)
(* closes accounts in every order.                                         *)
NoneClosed == \A w \in Wallet : participant[w].status # "closed"
===============================================================================
