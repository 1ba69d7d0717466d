-------------------------------- MODULE MCRound -------------------------------
(***************************************************************************)
(* Round on small instances.                                               *)
(***************************************************************************)
EXTENDS Round, TLC

(* Wallets differ in nothing but their names: sound for the runs that      *)
(* check invariants and action properties.                                 *)
Symmetry == Permutations(Wallet)

(* Bound for the weighted and the liveness run: accounts stay open.        *)
(* Closing takes nothing back, and the core run closes accounts in every   *)
(* order.                                                                  *)
NoneClosed == \A w \in Wallet : participant[w].status # "closed"

OpenSpec == Init /\ [][Next /\ NoneClosed']_vars

(* The liveness run breaks the same symmetry in another way, since a       *)
(* symmetry set is not sound there: wallets buy for the first time in one  *)
(* fixed order, so an account's index is its wallet's rank.  Only the      *)
(* first may have a second ticket, which at the fee of that run decides    *)
(* whether the pool has a lamport for each of two winners.                 *)
Rank ==
  CHOOSE rank \in [Wallet -> 0..Cardinality(Wallet) - 1] :
    \A v, w \in Wallet : v # w => rank[v] # rank[w]

InOrder ==
  \A w \in Buyers' :
    /\ participant'[w].participant_index = Rank[w]
    /\ Rank[w] > 0 => participant'[w].tickets_bought = 1

LiveSpec == Init /\ [][Next /\ InOrder /\ NoneClosed']_vars /\ Fairness
===============================================================================
