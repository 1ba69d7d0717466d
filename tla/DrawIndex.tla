------------------------------- MODULE DrawIndex ------------------------------
(***************************************************************************)
(* draw_index of finalize_winners.rs: one number below the tickets that    *)
(* remain, out of hashes of the seed, the round and a nonce.  A hash is    *)
(* read as a 128-bit sample; samples below a floor are rejected, so that   *)
(* the remainder by the number of tickets favours none of them.  Nothing   *)
(* is known of a sample but its width.                                     *)
(***************************************************************************)
EXTENDS Integers, FiniteSets

CONSTANTS
  SAMPLES,      \* number of samples: 2^128
  MAX_TICKETS,  \* largest u64
  MAX_NONCE     \* largest u32

ASSUME DrawAssumption ==
  /\ SAMPLES \in Nat /\ MAX_TICKETS \in Nat /\ MAX_NONCE \in Nat
  /\ MAX_TICKETS < SAMPLES

VARIABLES
  remaining,    \* the argument of this name: tickets that remain
  nonce,        \* hashes taken so far
  status,       \* "drawing", "drawn" (Ok) or "failed" (WinnerSelectionFailed)
  index         \* the number drawn

vars == <<remaining, nonce, status, index>>

Sample == 0..SAMPLES - 1

(* Mutant: every sample is taken.                                          *)
NoFloor(modulus) == 0

(* Mutant: a whole period more than needed is rejected.                    *)
WholePeriod(modulus) == (SAMPLES % modulus) + modulus

(* modulus.wrapping_neg() % modulus: on an integer of this width, minus    *)
(* the modulus is SAMPLES - modulus.                                       *)
RejectionFloor(modulus) == (SAMPLES - modulus) % modulus

Accepted(modulus) == { s \in Sample : s >= RejectionFloor(modulus) }

(* Mutant: tickets are counted from 1.                                     *)
OneBased(sample, modulus) == (sample % modulus) + 1

Index(sample, modulus) == sample % modulus

Init ==
  /\ remaining \in 1..MAX_TICKETS
  /\ nonce = 0
  /\ status = "drawing"
  /\ index = 0

(* The hash with this nonce is at or above the floor.                      *)
Take ==
  /\ status = "drawing"
  /\ \E sample \in Accepted(remaining) : index' = Index(sample, remaining)
  /\ status' = "drawn"
  /\ UNCHANGED <<remaining, nonce>>

(* It is below: the next nonce, if there is one.                           *)
Reject ==
  /\ status = "drawing"
  /\ Sample \ Accepted(remaining) # {}
  /\ IF nonce < MAX_NONCE
     THEN nonce' = nonce + 1 /\ UNCHANGED status
     ELSE status' = "failed" /\ UNCHANGED nonce
  /\ UNCHANGED <<remaining, index>>

Next == Take \/ Reject

Spec == Init /\ [][Next]_vars

(***************************************************************************)
(* Properties.                                                             *)
(***************************************************************************)
(* What the selection pass relies on: an index below the tickets that      *)
(* remain, whatever became of the draw.                                    *)
TypeOK ==
  /\ remaining \in 1..MAX_TICKETS
  /\ nonce \in 0..MAX_NONCE
  /\ status \in {"drawing", "drawn", "failed"}
  /\ index \in 0..remaining - 1

(* The samples that draw ticket t.                                         *)
SamplesFor(t, modulus) == { s \in Accepted(modulus) : Index(s, modulus) = t }

(* The draw is fair: whatever number of tickets remains, every one of them *)
(* is drawn by the same number of samples, and by at least one.            *)
Uniform ==
  \A t \in 0..remaining - 1 :
    Cardinality(SamplesFor(t, remaining)) = SAMPLES \div remaining

(* A draw takes few hashes: less than a modulus of samples is rejected,    *)
(* and at most as many as are accepted.                                    *)
FewRejected ==
  LET rejected == Sample \ Accepted(remaining)
  IN  /\ Cardinality(rejected) < remaining
      /\ Cardinality(rejected) <= Cardinality(Accepted(remaining))
===============================================================================
