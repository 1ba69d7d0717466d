------------------------------ MODULE WinnerPages -----------------------------
(***************************************************************************)
(* The winner pages as the program keeps them: account bytes.  A page has  *)
(* a header that is read and written whole, then a fixed number of entries *)
(* and a bitmap that are read and written in place by offset               *)
(* (WinnerPage in state/finalization_ledger.rs); the Lottery account has a *)
(* bitmap of its own over the indexes of all pages (state/lottery.rs).     *)
(* A byte is the set of its bits that are raised.                          *)
(***************************************************************************)
EXTENDS Integers, FiniteSets, FiniteSetsExt, Sequences

CONSTANTS
  Winner,                \* inputs: entries [wallet |-> number, tickets |-> number]
  WINNERS_PER_PAGE,      \* 100
  MAX_WINNERS,           \* 256
  BITS,                  \* bits of a byte: 8
  PREFIX_BYTES,          \* header before the count: 48
  COUNT_BYTES,           \* width of the count: 2
  RESERVED_BYTES,        \* header after the count: 64
  WALLET_BYTES,          \* width of a wallet: 32
  TICKET_BYTES           \* width of a number of tickets: 8

ASSUME PagesAssumption ==
  /\ WINNERS_PER_PAGE \in Nat \ {0} /\ MAX_WINNERS \in Nat \ {0}
  /\ BITS \in Nat \ {0}
  /\ PREFIX_BYTES \in Nat /\ COUNT_BYTES \in Nat /\ RESERVED_BYTES \in Nat
  /\ WALLET_BYTES \in Nat /\ TICKET_BYTES \in Nat

VARIABLES
  data,                  \* the bytes of each page account, <<>> before it exists
  selected_count,        \* FinalizationLedger::selected_count
  winners_count,         \* Lottery::winners_count, 0 until finalization completes
  paid_winners_bitmap    \* Lottery::paid_winners_bitmap, a sequence of bytes

vars == <<data, selected_count, winners_count, paid_winners_bitmap>>

(***************************************************************************)
(* Bytes.  Positions count from 0, the bytes of an account from 1.         *)
(***************************************************************************)
Byte == SUBSET (0..BITS - 1)

(* The little-endian bytes of a number, and the number they stand for.     *)
Bytes(number, width) ==
  [ k \in 1..width |->
      { b \in 0..BITS - 1 : (number \div 2^(BITS * (k - 1) + b)) % 2 = 1 } ]

Number(bytes) ==
  MapThenSumSet(LAMBDA k : MapThenSumSet(LAMBDA b : 2^(BITS * (k - 1) + b), bytes[k]),
                DOMAIN bytes)

Slice(bytes, offset, width) == SubSeq(bytes, offset + 1, offset + width)

(* Mutant: what follows the bytes written is cut off.                      *)
WriteToEnd(bytes, offset, written) == SubSeq(bytes, 1, offset) \o written

Overwrite(bytes, offset, written) ==
  [ k \in DOMAIN bytes |->
      IF k \in offset + 1..offset + Len(written) THEN written[k - offset] ELSE bytes[k] ]

DivCeil(a, b) == (a + b - 1) \div b

(* What the program writes fits its field: read back, it is the number     *)
(* that was written.                                                       *)
ASSUME FieldsAssumption ==
  /\ \A winner \in Winner :
       /\ winner = [wallet |-> winner.wallet, tickets |-> winner.tickets]
       /\ Number(Bytes(winner.wallet, WALLET_BYTES)) = winner.wallet
       /\ Number(Bytes(winner.tickets, TICKET_BYTES)) = winner.tickets
  /\ \A count \in 0..WINNERS_PER_PAGE : Number(Bytes(count, COUNT_BYTES)) = count

(***************************************************************************)
(* Layout of a page.                                                       *)
(***************************************************************************)
HEADER_SIZE == PREFIX_BYTES + COUNT_BYTES + RESERVED_BYTES

SELECTED_WINNER_SIZE == WALLET_BYTES + TICKET_BYTES

(* Mutant: the entries begin where the reserved bytes do.                  *)
EntryOverHeader(offset) ==
  PREFIX_BYTES + COUNT_BYTES + offset * SELECTED_WINNER_SIZE

entry_offset(offset) == HEADER_SIZE + offset * SELECTED_WINNER_SIZE

(* Mutant: the number of tickets of an entry is not counted.               *)
BitmapOverEntries == HEADER_SIZE + WINNERS_PER_PAGE * WALLET_BYTES

BITMAP_OFFSET == HEADER_SIZE + WINNERS_PER_PAGE * SELECTED_WINNER_SIZE

BITMAP_SIZE == DivCeil(WINNERS_PER_PAGE, BITS)

SIZE == BITMAP_OFFSET + BITMAP_SIZE

PageIndex == 0..(MAX_WINNERS - 1) \div WINNERS_PER_PAGE

Zeros(width) == [k \in 1..width |-> {}]

(* The header: discriminator, lottery, generation and page index, which    *)
(* are the same every time, the count, and reserved zeros.                 *)
Header(count) ==
  [k \in 1..PREFIX_BYTES |-> 0..BITS - 1]
    \o Bytes(count, COUNT_BYTES) \o Zeros(RESERVED_BYTES)

Count(page) == Number(Slice(page, PREFIX_BYTES, COUNT_BYTES))

(* WinnerPage::winner.                                                     *)
EntryOf(page, offset) ==
  [ wallet  |-> Number(Slice(page, entry_offset(offset), WALLET_BYTES)),
    tickets |-> Number(Slice(page, entry_offset(offset) + WALLET_BYTES, TICKET_BYTES)) ]

(* Byte offset \div BITS of a bitmap, and the bit in it.                   *)
Raised(bitmap, index) == index % BITS \in bitmap[(index \div BITS) + 1]

Raise(bitmap, index) == [bitmap EXCEPT ![(index \div BITS) + 1] = @ \cup {index % BITS}]

BitmapOf(page) == Slice(page, BITMAP_OFFSET, BITMAP_SIZE)

(* WinnerPage::is_paid.                                                    *)
PaidOnPage(page, offset) == offset < Count(page) /\ Raised(BitmapOf(page), offset)

(***************************************************************************)
(* Operations.                                                             *)
(***************************************************************************)
Init ==
  /\ data = [p \in PageIndex |-> <<>>]
  /\ selected_count = 0
  /\ winners_count = 0
  /\ paid_winners_bitmap = Zeros(DivCeil(MAX_WINNERS, BITS))

Opened(p) == IF data[p] = <<>> THEN Zeros(SIZE) ELSE data[p]

(* load_or_create_winner_page, WinnerPage::append, then the header back.   *)
Appended(p, winner) ==
  LET offset == IF data[p] = <<>> THEN 0 ELSE Count(data[p])
      entry  == Bytes(winner.wallet, WALLET_BYTES) \o Bytes(winner.tickets, TICKET_BYTES)
  IN  Overwrite(Overwrite(Opened(p), entry_offset(offset), entry), 0, Header(offset + 1))

(* initialize_settlement clears the bytes that hold the bits of count      *)
(* winners.                                                                *)
Cleared(bitmap, count) ==
  [k \in DOMAIN bitmap |-> IF k <= DivCeil(count, BITS) THEN {} ELSE bitmap[k]]

(* The winner of a round goes to the page its index belongs to; with the   *)
(* last one initialize_settlement clears the bytes of the bitmap in use.   *)
RecordWinner(winner, last) ==
  LET p     == selected_count \div WINNERS_PER_PAGE
      count == selected_count + 1
  IN  /\ winners_count = 0
      /\ count <= MAX_WINNERS
      /\ data[p] # <<>> => Count(data[p]) < WINNERS_PER_PAGE
      /\ data' = [data EXCEPT ![p] = Appended(p, winner)]
      /\ selected_count' = count
      /\ winners_count' = IF last THEN count ELSE 0
      /\ paid_winners_bitmap' =
           IF last THEN Cleared(paid_winners_bitmap, count) ELSE paid_winners_bitmap

(* Lottery::is_winner_paid.                                                *)
PaidInLottery(index) == index < winners_count /\ Raised(paid_winners_bitmap, index)

(* One entry of a payout batch: skipped if paid, refused if it is not      *)
(* there or the two bitmaps disagree,                                      *)
MayPay(index) ==
  LET p      == index \div WINNERS_PER_PAGE
      offset == index % WINNERS_PER_PAGE
  IN  /\ index < winners_count
      /\ data[p] # <<>> /\ offset < Count(data[p])
      /\ ~PaidOnPage(data[p], offset) /\ ~PaidInLottery(index)

(* else marked in both.                                                    *)
PayWinner(index) ==
  LET p      == index \div WINNERS_PER_PAGE
      offset == index % WINNERS_PER_PAGE
  IN  /\ MayPay(index)
      /\ data' = [data EXCEPT ![p] =
           Overwrite(@, BITMAP_OFFSET, Raise(BitmapOf(@), offset))]
      /\ paid_winners_bitmap' = Raise(paid_winners_bitmap, index)
      /\ UNCHANGED <<selected_count, winners_count>>

EntryAt(index) == EntryOf(data[index \div WINNERS_PER_PAGE], index % WINNERS_PER_PAGE)

Book == [k \in 1..selected_count |-> EntryAt(k - 1)]

(* A wallet is drawn once.                                                 *)
Unrecorded == { w \in Winner : \A k \in 1..selected_count : Book[k].wallet # w.wallet }

Next ==
  \/ \E winner \in Unrecorded, last \in BOOLEAN : RecordWinner(winner, last)
  \/ \E index \in 0..winners_count - 1 : PayWinner(index)

Spec == Init /\ [][Next]_vars

(***************************************************************************)
(* Properties.                                                             *)
(***************************************************************************)
(* A page keeps its size, and every byte is a byte.                        *)
TypeOK ==
  /\ data \in [PageIndex -> {<<>>} \cup [1..SIZE -> Byte]]
  /\ selected_count \in 0..MAX_WINNERS
  /\ winners_count \in {0, selected_count}
  /\ paid_winners_bitmap \in [1..DivCeil(MAX_WINNERS, BITS) -> Byte]

(* A winner in the book can be paid until it is: no write to a page or to  *)
(* a bitmap, of this or of another entry, puts an unpaid entry out of      *)
(* reach or the two bitmaps at odds.                                       *)
Payable ==
  \A index \in 0..winners_count - 1 :
    PaidInLottery(index) \/ MayPay(index)

Register ==
  INSTANCE WinnerRegister WITH
    book   <- Book,
    closed <- winners_count # 0,
    paid   <- { k \in 0..selected_count - 1 : PaidInLottery(k) }

(* Read back from the bytes, the pages are a book of winners that keeps    *)
(* every entry as it was recorded, across pages and whatever is paid, and  *)
(* a payment marks the entry paid and no other.                            *)
ImplementsRegister == Register!Spec
===============================================================================
