----------------------------- MODULE LotteryRules -----------------------------
(***************************************************************************)
(* The arithmetic rules of a lottery round that no account owns: the cap   *)
(* on the number of winners, the service fee, the split of the pool, and   *)
(* the weighted vote on the number of winners kept in the VoteTally        *)
(* account (state/config.rs, state/vote_tally.rs, utils/validation.rs).    *)
(***************************************************************************)
EXTENDS Integers

(* The widest winner bitmap a Lottery account is sized for.                *)
MAX_WINNERS == 256

(* Stands for i64::MAX: later than every attestation.                      *)
I64_MAX == 2147483647

AtMost(a, b) == IF a <= b THEN a ELSE b

AtLeast(a, b) == IF a >= b THEN a ELSE b

(***************************************************************************)
(* Winner cap and money.                                                   *)
(***************************************************************************)
EffectiveMaxWinners(cap, participants) ==
  IF participants <= 1
  THEN 1
  ELSE AtMost(AtLeast(AtMost(cap, MAX_WINNERS), 1), participants - 1)

ServiceFee(funds, bps) == (funds * bps) \div 10000

WinnersPool(funds, bps) == funds - ServiceFee(funds, bps)

(***************************************************************************)
(* The vote tally. weights and first_seen have one entry per count that    *)
(* the tally was opened for; the unused entry 0 of the Rust vectors is     *)
(* left out.                                                               *)
(***************************************************************************)
NewTally(maxWinners) ==
  [ created     |-> TRUE,
    max_winners |-> maxWinners,
    processed   |-> 0,
    weights     |-> [c \in 1..maxWinners |-> 0],
    first_seen  |-> [c \in 1..maxWinners |-> I64_MAX] ]

NoTally == [NewTally(0) EXCEPT !.created = FALSE]

AddVote(tally, count, weight, at) ==
  IF count \in 1..tally.max_winners
  THEN [tally EXCEPT !.weights[count]    = @ + weight,
                     !.first_seen[count] = AtMost(@, at)]
  ELSE tally

(* Mutant: a tie goes to the larger number of winners.                     *)
BeatsUpward(tally, a, b) ==
  \/ tally.weights[a] > tally.weights[b]
  \/ tally.weights[a] = tally.weights[b] /\ a > b

(* a beats b: more tickets, else voted for earlier, else fewer winners.    *)
Beats(tally, a, b) ==
  \/ tally.weights[a] > tally.weights[b]
  \/ /\ tally.weights[a] = tally.weights[b]
     /\ \/ tally.first_seen[a] < tally.first_seen[b]
        \/ tally.first_seen[a] = tally.first_seen[b] /\ a < b

SelectedWinners(tally, participants) ==
  LET voted == { c \in 1..AtMost(tally.max_winners, participants - 1) :
                   tally.weights[c] > 0 }
  IN  IF participants <= 1 \/ voted = {}
      THEN 1
      ELSE CHOOSE c \in voted : \A d \in voted \ {c} : Beats(tally, c, d)
===============================================================================
