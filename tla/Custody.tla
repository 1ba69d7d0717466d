-------------------------------- MODULE Custody -------------------------------
(***************************************************************************)
(* What the program promises of the money, whoever sends which call when:  *)
(* deposits are taken while a round is open; then it ends in one of two    *)
(* ways, once.  Either equal shares go to the winners, each once, and what *)
(* the shares leave over goes to the authority with the last of them; or   *)
(* every depositor gets its deposit back, once, and then the authority     *)
(* gets what the vault held before the first deposit.                      *)
(***************************************************************************)
EXTENDS Integers, FiniteSets, FiniteSetsExt

CONSTANTS
  Depositor,      \* wallets
  Keeper,         \* the authority, not a depositor
  Rent            \* what the vault holds before the first deposit

VARIABLES
  outcome,        \* "open", "shares" or "refunds"
  deposits,       \* what each wallet has put in
  vault,          \* what the program holds
  winners,        \* wallets that are due a share
  share,          \* what each of them is due
  received        \* what each wallet, and the keeper, got out

vars == <<outcome, deposits, vault, winners, share, received>>

Total == MapThenSumSet(LAMBDA w : deposits[w], Depositor)

(* Nobody has been paid twice, so a share or a refund received is one due. *)
Unpaid(S) == { w \in S : received[w] = 0 }

Init ==
  /\ outcome = "open"
  /\ deposits = [w \in Depositor |-> 0]
  /\ vault = Rent
  /\ winners = {} /\ share = 0
  /\ received = [w \in Depositor \cup {Keeper} |-> 0]

Deposit ==
  /\ outcome = "open"
  /\ \E w \in Depositor :
       /\ deposits'[w] > deposits[w]
       /\ deposits' = [deposits EXCEPT ![w] = deposits'[w]]
       /\ vault' = vault + deposits'[w] - deposits[w]
  /\ UNCHANGED <<outcome, winners, share, received>>

DecideShares ==
  /\ outcome = "open"
  /\ outcome' = "shares"
  /\ winners' \subseteq { w \in Depositor : deposits[w] > 0 } /\ winners' # {}
  /\ share' > 0 /\ share' * Cardinality(winners') <= Total
  /\ UNCHANGED <<deposits, vault, received>>

DecideRefunds ==
  /\ outcome = "open"
  /\ outcome' = "refunds"
  /\ UNCHANGED <<deposits, vault, winners, share, received>>

(* Some winners are paid, and with the last of them the keeper.            *)
PayShares ==
  /\ outcome = "shares"
  /\ \E S \in (SUBSET Unpaid(winners)) \ {{}} :
       LET rest == vault - share * Cardinality(S)
       IN  IF S = Unpaid(winners)
           THEN /\ vault' = 0
                /\ received' = [ r \in DOMAIN received |->
                     IF r \in S THEN share ELSE IF r = Keeper THEN rest ELSE received[r] ]
           ELSE /\ vault' = rest
                /\ received' = [ r \in DOMAIN received |->
                     IF r \in S THEN share ELSE received[r] ]
  /\ UNCHANGED <<outcome, deposits, winners, share>>

Refund(w) ==
  /\ outcome = "refunds"
  /\ deposits[w] > 0 /\ received[w] = 0
  /\ vault' = vault - deposits[w]
  /\ received' = [received EXCEPT ![w] = deposits[w]]
  /\ UNCHANGED <<outcome, deposits, winners, share>>

ReturnRent ==
  /\ outcome = "refunds"
  /\ \A w \in Depositor : received[w] = deposits[w]
  /\ vault = Rent /\ vault' = 0
  /\ received' = [received EXCEPT ![Keeper] = Rent]
  /\ UNCHANGED <<outcome, deposits, winners, share>>

Next ==
  \/ Deposit \/ DecideShares \/ DecideRefunds \/ PayShares
  \/ \E w \in Depositor : Refund(w)
  \/ ReturnRent

Spec == Init /\ [][Next]_vars
===============================================================================
