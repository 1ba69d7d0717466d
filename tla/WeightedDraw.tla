------------------------------ MODULE WeightedDraw ----------------------------
(***************************************************************************)
(* What finalization promises: a weighted draw without replacement.  A     *)
(* pool of entries is fixed once, then one whole winner is drawn at a      *)
(* time; a draw is a number below the tickets that remain, and the winner  *)
(* is the entry whose tickets cover it when the entries that remain stand  *)
(* in index order.  There are no chunks, passes, pages or flags here.      *)
(***************************************************************************)
EXTENDS Integers, FiniteSets, FiniteSetsExt, Sequences

CONSTANT Entrant   \* the wallets that may be in the pool

VARIABLES
  pool,      \* set of entries, empty until it is fixed
  goal,      \* number of winners
  draw,      \* the number drawn for the next winner
  winners    \* sequence of entries

vars == <<pool, goal, draw, winners>>

DrawEntry == [index : Nat, wallet : Entrant, tickets : Nat \ {0}]

Tickets(S) == MapThenSumSet(LAMBDA e : e.tickets, S)

Left(drawn) == pool \ { drawn[i] : i \in 1..Len(drawn) }

Ahead(e) == Tickets({ f \in Left(winners) : f.index < e.index })

Covers(e) == draw \in Ahead(e)..Ahead(e) + e.tickets - 1

Init == pool = {} /\ goal = 0 /\ draw = 0 /\ winners = <<>>

Fix ==
  /\ pool = {}
  /\ pool' \subseteq DrawEntry /\ pool' # {}
  /\ \A e, f \in pool' : e # f => e.index # f.index /\ e.wallet # f.wallet
  /\ goal' \in 1..Cardinality(pool')
  /\ draw' \in 0..Tickets(pool') - 1
  /\ UNCHANGED winners

Draw ==
  /\ Len(winners) < goal
  /\ \E e \in Left(winners) : Covers(e) /\ winners' = Append(winners, e)
  /\ IF Len(winners') < goal
     THEN draw' \in 0..Tickets(Left(winners')) - 1
     ELSE UNCHANGED draw
  /\ UNCHANGED <<pool, goal>>

Next == Fix \/ Draw

Spec == Init /\ [][Next]_vars
===============================================================================
