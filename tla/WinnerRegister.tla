---------------------------- MODULE WinnerRegister ----------------------------
(***************************************************************************)
(* What the winner pages and the payout bitmaps promise together: a book   *)
(* of winners that only grows until it is closed, and, once closed, a mark *)
(* that each entry gets at most once.  There are no pages, bytes or bits.  *)
(***************************************************************************)
EXTENDS Integers, Sequences

CONSTANT Winner      \* entries: a wallet with its tickets

VARIABLES
  book,      \* sequence of the winners
  closed,    \* the book is complete
  paid       \* the indexes, from 0, of the winners paid

vars == <<book, closed, paid>>

Init == book = <<>> /\ closed = FALSE /\ paid = {}

Record(winner) ==
  /\ ~closed
  /\ book' = Append(book, winner)
  /\ UNCHANGED <<closed, paid>>

RecordLast(winner) ==
  /\ ~closed
  /\ book' = Append(book, winner)
  /\ closed' = TRUE
  /\ UNCHANGED paid

Pay(index) ==
  /\ closed
  /\ index \in 0..Len(book) - 1 /\ index \notin paid
  /\ paid' = paid \cup {index}
  /\ UNCHANGED <<book, closed>>

Next ==
  \/ \E winner \in Winner : Record(winner) \/ RecordLast(winner)
  \/ \E index \in 0..Len(book) - 1 : Pay(index)

Spec == Init /\ [][Next]_vars
===============================================================================
