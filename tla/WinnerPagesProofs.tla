--------------------------- MODULE WinnerPagesProofs --------------------------
(***************************************************************************)
(* The bytes of the winner pages are a register of winners, for pages of   *)
(* any size, fields of any width and any number of winners.                *)
(*                                                                         *)
(* Nothing here looks inside a field: FieldsAssumption says that a number  *)
(* read from where it was written is that number. What is proved is that   *)
(* it stays where it was written. Fields of a page do not overlap (Sizes), *)
(* so an append or a mark leaves every other field alone (PutIs, MarkIs);  *)
(* the count of a page says how many of its entries are in the book        *)
(* (Filled); and an entry has its bit on the page exactly when it has its  *)
(* bit in the Lottery account, none having one before the book is closed   *)
(* (Marks).                                                                *)
(***************************************************************************)
EXTENDS WinnerPages, SequenceTheorems, TLAPS

(***************************************************************************)
(* Division.                                                               *)
(***************************************************************************)
(* Quotient and remainder.                                                 *)
LEMMA Division ==
  ASSUME NEW a \in Nat, NEW m \in Nat \ {0}
  PROVE  a \div m \in Nat /\ a % m \in 0..m - 1 /\ a = (a \div m) * m + (a % m)
<1> DEFINE d == a \div m
           r == a % m
<1>1. d \in Int /\ r \in 0..m - 1 /\ a = d * m + r OBVIOUS
<1> HIDE DEF d, r
<1>2. d >= 0
  <2> SUFFICES ASSUME d <= -1 PROVE FALSE BY <1>1
  <2>1. (-1 - d) * m \in Nat BY <1>1
  <2>2. (-1 - d) * m = -m - d * m BY <1>1
  <2>3. d * m \in Int BY <1>1
  <2> QED BY <1>1, <2>1, <2>2, <2>3
<1>3. d \in Nat /\ r \in 0..m - 1 /\ a = d * m + r BY <1>1, <1>2
<1> QED BY <1>3, Zenon DEF d, r

(* Products grow with their factors.                                       *)
LEMMA Product ==
  ASSUME NEW a \in Nat, NEW b \in Nat, a <= b, NEW s \in Nat
  PROVE  a * s \in Nat /\ b * s \in Nat /\ a * s <= b * s
<1>1. a * s \in Nat /\ b * s \in Nat OBVIOUS
<1>2. (b - a) * s \in Nat OBVIOUS
<1>3. (b - a) * s = b * s - a * s OBVIOUS
<1> QED BY <1>1, <1>2, <1>3

(* The quotient is q in the q-th stretch of m numbers, and only there.     *)
LEMMA Stretch ==
  ASSUME NEW a \in Nat, NEW m \in Nat \ {0}, NEW q \in Nat
  PROVE  a \div m = q <=> q * m <= a /\ a < q * m + m
<1> DEFINE d == a \div m
           r == a % m
<1>1. d \in Nat /\ r \in 0..m - 1 /\ a = d * m + r BY Division
<1> HIDE DEF d, r
<1>2. q * m \in Nat /\ d * m \in Nat BY <1>1
<1>3. CASE d = q BY <1>1, <1>2, <1>3 DEF d
<1>4. CASE d < q
  <2>1. (d + 1) * m <= q * m BY <1>1, <1>4, Product
  <2>2. (d + 1) * m = d * m + m BY <1>1
  <2> QED BY <1>1, <1>2, <1>4, <2>1, <2>2 DEF d
<1>5. CASE d > q
  <2>1. (q + 1) * m <= d * m BY <1>1, <1>5, Product
  <2>2. (q + 1) * m = q * m + m OBVIOUS
  <2> QED BY <1>1, <1>2, <1>5, <2>1, <2>2 DEF d
<1> QED BY <1>1, <1>3, <1>4, <1>5

(* DivCeil(a, m) stretches hold a numbers.                                 *)
LEMMA Ceiling ==
  ASSUME NEW a \in Nat, NEW m \in Nat \ {0}
  PROVE  /\ DivCeil(a, m) \in Nat
         /\ \A i \in 0..a - 1 : (i \div m) + 1 \in 1..DivCeil(a, m)
<1> DEFINE c == DivCeil(a, m)
<1>1. a + m - 1 \in Nat OBVIOUS
<1>2. c \in Nat /\ a + m - 1 < c * m + m BY <1>1, Division, Stretch DEF DivCeil
<1> HIDE DEF c
<1>3. ASSUME NEW i \in 0..a - 1 PROVE (i \div m) + 1 \in 1..c
  <2> DEFINE d == i \div m
  <2>1. d \in Nat /\ d * m <= i BY Division, Stretch
  <2> HIDE DEF d
  <2>2. CASE d < c BY <1>2, <2>1, <2>2 DEF d
  <2>3. CASE c <= d
    <3>1. c * m <= d * m /\ c * m \in Nat /\ d * m \in Nat BY <1>2, <2>1, <2>3, Product
    <3> QED BY <1>2, <2>1, <3>1
  <2> QED BY <1>2, <2>1, <2>2, <2>3
<1> QED BY <1>2, <1>3 DEF c

(***************************************************************************)
(* Bitmaps.                                                                *)
(***************************************************************************)
(* A bitmap for n entries.                                                 *)
Bitmap(n) == [1..DivCeil(n, BITS) -> Byte]

(* No entry has its bit in a bitmap of zeros.                              *)
LEMMA NoneRaised ==
  ASSUME NEW n \in Nat
  PROVE  /\ Zeros(DivCeil(n, BITS)) \in Bitmap(n)
         /\ \A i \in 0..n - 1 : ~Raised(Zeros(DivCeil(n, BITS)), i)
<1>1. \A i \in 0..n - 1 : (i \div BITS) + 1 \in 1..DivCeil(n, BITS)
  BY PagesAssumption, Ceiling
<1> QED BY <1>1 DEF Zeros, Raised, Bitmap, Byte

(* Raising a bit raises the bit of one entry and of no other.              *)
LEMMA RaisedOnce ==
  ASSUME NEW n \in Nat, NEW bitmap \in Bitmap(n), NEW i \in 0..n - 1
  PROVE  /\ Raise(bitmap, i) \in Bitmap(n)
         /\ \A j \in 0..n - 1 : Raised(Raise(bitmap, i), j) <=> j = i \/ Raised(bitmap, j)
<1> DEFINE place(j) == (j \div BITS) + 1
           bit(j)   == j % BITS
           w        == DivCeil(n, BITS)
<1>1. BITS \in Nat \ {0} BY PagesAssumption
<1>2. \A j \in 0..n - 1 :
        /\ place(j) \in 1..w /\ bit(j) \in 0..BITS - 1
        /\ j = (place(j) - 1) * BITS + bit(j)
  <2> SUFFICES ASSUME NEW j \in 0..n - 1
               PROVE  /\ place(j) \in 1..w /\ bit(j) \in 0..BITS - 1
                      /\ j = (place(j) - 1) * BITS + bit(j)
    OBVIOUS
  <2>1. place(j) \in 1..w BY <1>1, Ceiling
  <2>2. j \div BITS \in Nat /\ bit(j) \in 0..BITS - 1 /\ j = (j \div BITS) * BITS + bit(j)
    <3>1. j \in Nat OBVIOUS
    <3> QED BY <1>1, <3>1, Division, Zenon
  <2>3. (j \div BITS) + 1 - 1 = j \div BITS BY <2>2
  <2> QED BY <2>1, <2>2, <2>3
<1>3. Raise(bitmap, i) = [bitmap EXCEPT ![place(i)] = bitmap[place(i)] \cup {bit(i)}]
  BY DEF Raise
<1>4. \A b : \A j : Raised(b, j) <=> bit(j) \in b[place(j)] BY DEF Raised
<1> HIDE DEF place, bit, w
<1>5. bitmap \in [1..w -> SUBSET (0..BITS - 1)] BY DEF Bitmap, Byte, w
<1>6. Raise(bitmap, i) \in [1..w -> SUBSET (0..BITS - 1)]
  <2>1. bitmap[place(i)] \cup {bit(i)} \in SUBSET (0..BITS - 1) BY <1>2, <1>5
  <2> QED BY <1>3, <1>5, <2>1
<1>7. ASSUME NEW j \in 0..n - 1
      PROVE  Raised(Raise(bitmap, i), j) <=> j = i \/ Raised(bitmap, j)
  <2>1. CASE place(j) # place(i)
    <3>1. Raise(bitmap, i)[place(j)] = bitmap[place(j)] BY <1>2, <1>3, <1>5, <2>1
    <3>2. j # i BY <2>1
    <3> QED BY <1>4, <3>1, <3>2
  <2>2. CASE place(j) = place(i)
    <3>1. Raise(bitmap, i)[place(j)] = bitmap[place(j)] \cup {bit(i)}
      BY <1>2, <1>3, <1>5, <2>2
    <3>2. bit(j) = bit(i) <=> j = i
      <4>1. bit(j) = bit(i) => j = i BY <1>2, <2>2
      <4> QED BY <4>1
    <3> QED BY <1>4, <3>1, <3>2
  <2> QED BY <2>1, <2>2
<1> QED BY <1>6, <1>7 DEF Bitmap, Byte, w

(***************************************************************************)
(* Fields of a page.                                                       *)
(***************************************************************************)
Page == [1..SIZE -> Byte]

(* The sizes are numbers; entries lie behind the header, one behind the    *)
(* other, and the bitmap behind all of them.                               *)
LEMMA Sizes ==
  /\ PREFIX_BYTES \in Nat /\ COUNT_BYTES \in Nat
  /\ WALLET_BYTES \in Nat /\ TICKET_BYTES \in Nat
  /\ HEADER_SIZE \in Nat /\ PREFIX_BYTES + COUNT_BYTES <= HEADER_SIZE
  /\ SELECTED_WINNER_SIZE = WALLET_BYTES + TICKET_BYTES
  /\ BITMAP_OFFSET \in Nat /\ HEADER_SIZE <= BITMAP_OFFSET
  /\ BITMAP_SIZE \in Nat \ {0} /\ SIZE = BITMAP_OFFSET + BITMAP_SIZE
  /\ \A o \in 0..WINNERS_PER_PAGE - 1 :
       /\ entry_offset(o) \in Nat
       /\ HEADER_SIZE <= entry_offset(o)
       /\ entry_offset(o) + SELECTED_WINNER_SIZE <= BITMAP_OFFSET
  /\ \A o, r \in 0..WINNERS_PER_PAGE - 1 :
       o < r => entry_offset(o) + SELECTED_WINNER_SIZE <= entry_offset(r)
<1> DEFINE s == SELECTED_WINNER_SIZE
           h == HEADER_SIZE
           n == WINNERS_PER_PAGE
<1>1. /\ PREFIX_BYTES \in Nat /\ COUNT_BYTES \in Nat /\ RESERVED_BYTES \in Nat
      /\ WALLET_BYTES \in Nat /\ TICKET_BYTES \in Nat
      /\ n \in Nat \ {0} /\ BITS \in Nat \ {0}
  BY PagesAssumption
<1>2. h \in Nat /\ PREFIX_BYTES + COUNT_BYTES <= h BY <1>1 DEF HEADER_SIZE
<1>3. s = WALLET_BYTES + TICKET_BYTES /\ s \in Nat BY <1>1 DEF SELECTED_WINNER_SIZE
<1>4. \A o : entry_offset(o) = h + o * s BY DEF entry_offset
<1>5. BITMAP_OFFSET = h + n * s BY DEF BITMAP_OFFSET
<1>6. BITMAP_SIZE \in Nat \ {0} /\ SIZE = BITMAP_OFFSET + BITMAP_SIZE
  <2>1. /\ DivCeil(n, BITS) \in Nat
        /\ \A i \in 0..n - 1 : (i \div BITS) + 1 \in 1..DivCeil(n, BITS)
    BY <1>1, Ceiling
  <2>2. 0 \in 0..n - 1 BY <1>1
  <2>3. DivCeil(n, BITS) # 0 BY <2>1, <2>2
  <2> QED BY <2>1, <2>3 DEF BITMAP_SIZE, SIZE
<1> HIDE DEF s, h, n
<1>7. n * s \in Nat BY <1>1, <1>3
<1>8. ASSUME NEW o \in 0..n - 1
      PROVE  o * s \in Nat /\ o * s + s <= n * s
  <2>1. (o + 1) * s <= n * s BY <1>1, <1>3, Product
  <2>2. (o + 1) * s = o * s + s /\ o * s \in Nat BY <1>3
  <2> QED BY <2>1, <2>2
<1>9. ASSUME NEW o \in 0..n - 1, NEW r \in 0..n - 1, o < r
      PROVE  o * s + s <= r * s
  <2>1. (o + 1) * s <= r * s BY <1>1, <1>3, <1>9, Product
  <2>2. (o + 1) * s = o * s + s BY <1>3
  <2> QED BY <2>1, <2>2
<1>10. \A o \in 0..n - 1 :
         /\ entry_offset(o) \in Nat /\ h <= entry_offset(o)
         /\ entry_offset(o) + s <= BITMAP_OFFSET
  BY <1>2, <1>3, <1>4, <1>5, <1>7, <1>8
<1>11. \A o, r \in 0..n - 1 : o < r => entry_offset(o) + s <= entry_offset(r)
  BY <1>2, <1>3, <1>4, <1>8, <1>9
<1> QED BY <1>1, <1>2, <1>3, <1>5, <1>6, <1>7, <1>10, <1>11 DEF s, h, n

(* A slice holds the bytes it was cut from.                                *)
LEMMA SliceIs ==
  ASSUME NEW page \in Page, NEW offset \in Nat, NEW width \in Nat, offset + width <= SIZE
  PROVE  /\ Slice(page, offset, width) \in [1..width -> Byte]
         /\ \A k \in 1..width : Slice(page, offset, width)[k] = page[offset + k]
<1> DEFINE lo == offset + 1
           hi == offset + width
           s  == SubSeq(page, lo, hi)
<1>1. lo \in Int /\ hi \in Int /\ \A i \in lo..hi : page[i] \in Byte BY Sizes DEF Page
<1> HIDE DEF lo, hi
<1>2. /\ s \in Seq(Byte)
      /\ Len(s) = IF lo <= hi THEN hi - lo + 1 ELSE 0
      /\ \A i \in 1..hi - lo + 1 : s[i] = page[lo + i - 1]
  BY <1>1, SubSeqProperties
<1> HIDE DEF s
<1>3. Len(s) = width /\ hi - lo + 1 = width BY <1>2 DEF lo, hi
<1>4. s \in [1..width -> Byte] BY <1>2, <1>3
<1>5. \A k \in 1..width : s[k] = page[offset + k]
  <2> SUFFICES ASSUME NEW k \in 1..width PROVE s[k] = page[offset + k] OBVIOUS
  <2>1. s[k] = page[lo + k - 1] BY <1>2, <1>3
  <2>2. lo + k - 1 = offset + k BY DEF lo
  <2> QED BY <2>1, <2>2
<1> QED BY <1>4, <1>5 DEF s, lo, hi, Slice

(* The bytes of a page from an offset on are those of t.                   *)
Holds(page, offset, width, t) == \A k \in 1..width : page[offset + k] = t[k]

(* Two pages have the same bytes from an offset on.                        *)
Alike(a, b, offset, width) == \A k \in 1..width : a[offset + k] = b[offset + k]

(* Then so do their slices.                                                *)
LEMMA SliceSame ==
  ASSUME NEW a \in Page, NEW b \in Page, NEW offset \in Nat, NEW width \in Nat,
         offset + width <= SIZE, Alike(a, b, offset, width)
  PROVE  Slice(a, offset, width) = Slice(b, offset, width)
<1> DEFINE s == Slice(a, offset, width)
           t == Slice(b, offset, width)
<1>1. /\ s \in [1..width -> Byte] /\ t \in [1..width -> Byte]
      /\ \A k \in 1..width : s[k] = a[offset + k]
      /\ \A k \in 1..width : t[k] = b[offset + k]
  BY SliceIs
<1> HIDE DEF s, t
<1>2. \A k \in 1..width : s[k] = t[k] BY <1>1 DEF Alike
<1>3. s = t BY <1>1, <1>2
<1> QED BY <1>3 DEF s, t

(* A slice of just the bytes of t is t.                                    *)
LEMMA SliceEquals ==
  ASSUME NEW page \in Page, NEW offset \in Nat, NEW width \in Nat, offset + width <= SIZE,
         NEW t \in [1..width -> Byte], Holds(page, offset, width, t)
  PROVE  Slice(page, offset, width) = t
<1> DEFINE s == Slice(page, offset, width)
<1>1. s \in [1..width -> Byte] /\ \A k \in 1..width : s[k] = page[offset + k]
  BY SliceIs
<1> HIDE DEF s
<1>2. s = t BY <1>1 DEF Holds
<1> QED BY <1>2 DEF s

(* Overwriting changes the bytes written and no others.                    *)
LEMMA OverwriteIs ==
  ASSUME NEW page \in Page, NEW offset \in Nat,
         NEW width \in Nat, NEW written \in [1..width -> Byte], Len(written) = width
  PROVE  /\ Overwrite(page, offset, written) \in Page
         /\ \A k \in 1..SIZE :
              Overwrite(page, offset, written)[k]
                = IF k \in offset + 1..offset + width THEN written[k - offset] ELSE page[k]
<1> DEFINE o == Overwrite(page, offset, written)
           n == SIZE
<1>0. n \in Nat /\ page \in [1..n -> Byte] BY Sizes DEF Page
<1>1. o = [k \in 1..n |->
             IF k \in offset + 1..offset + width THEN written[k - offset] ELSE page[k]]
  BY <1>0 DEF Overwrite
<1> HIDE DEF o, n
<1>2. \A k \in 1..n : k \in offset + 1..offset + width => k - offset \in 1..width
  BY <1>0
<1>3. \A k \in 1..n : o[k] = IF k \in offset + 1..offset + width
                               THEN written[k - offset] ELSE page[k]
  BY <1>1
<1>4. \A k \in 1..n : o[k] \in Byte BY <1>0, <1>2, <1>3
<1>5. o \in [1..n -> Byte] BY <1>1, <1>4
<1> QED BY <1>3, <1>5 DEF o, n, Page

(* The bytes of a number.                                                  *)
LEMMA BytesIs ==
  ASSUME NEW number, NEW width \in Nat
  PROVE  /\ Bytes(number, width) \in [1..width -> Byte]
         /\ Bytes(number, width) \in Seq(Byte) /\ Len(Bytes(number, width)) = width
<1>1. Bytes(number, width) \in [1..width -> Byte] BY DEF Bytes, Byte
<1> HIDE DEF Bytes
<1> QED BY <1>1

(* The header, with the count in its place.                                *)
LEMMA HeaderIs ==
  ASSUME NEW count
  PROVE  /\ Header(count) \in [1..HEADER_SIZE -> Byte] /\ Len(Header(count)) = HEADER_SIZE
         /\ \A k \in 1..COUNT_BYTES :
              Header(count)[PREFIX_BYTES + k] = Bytes(count, COUNT_BYTES)[k]
<1> DEFINE a == [k \in 1..PREFIX_BYTES |-> 0..BITS - 1]
           b == Bytes(count, COUNT_BYTES)
           c == Zeros(RESERVED_BYTES)
<1>1. PREFIX_BYTES \in Nat /\ COUNT_BYTES \in Nat /\ RESERVED_BYTES \in Nat
  BY PagesAssumption
<1>2. a \in Seq(Byte) /\ Len(a) = PREFIX_BYTES
  <2>1. a \in [1..PREFIX_BYTES -> Byte] BY DEF Byte
  <2> HIDE DEF a
  <2> QED BY <1>1, <2>1
<1>3. b \in Seq(Byte) /\ Len(b) = COUNT_BYTES BY <1>1, BytesIs
<1>4. c \in Seq(Byte) /\ Len(c) = RESERVED_BYTES
  <2>1. c \in [1..RESERVED_BYTES -> Byte] BY DEF Zeros, Byte
  <2> HIDE DEF c
  <2> QED BY <1>1, <2>1
<1>5. Header(count) = (a \o b) \o c BY DEF Header
<1> HIDE DEF a, b, c
<1>6. /\ a \o b \in Seq(Byte) /\ Len(a \o b) = PREFIX_BYTES + COUNT_BYTES
      /\ \A i \in 1..PREFIX_BYTES + COUNT_BYTES :
           (a \o b)[i] = IF i <= PREFIX_BYTES THEN a[i] ELSE b[i - PREFIX_BYTES]
  BY <1>2, <1>3, ConcatProperties
<1> DEFINE ab == a \o b
<1> HIDE DEF ab
<1>7. /\ ab \in Seq(Byte) /\ Len(ab) = PREFIX_BYTES + COUNT_BYTES
      /\ \A i \in 1..PREFIX_BYTES + COUNT_BYTES :
           ab[i] = IF i <= PREFIX_BYTES THEN a[i] ELSE b[i - PREFIX_BYTES]
  BY <1>6 DEF ab
<1>8. /\ ab \o c \in Seq(Byte)
      /\ Len(ab \o c) = PREFIX_BYTES + COUNT_BYTES + RESERVED_BYTES
      /\ \A i \in 1..PREFIX_BYTES + COUNT_BYTES + RESERVED_BYTES :
           (ab \o c)[i] = IF i <= PREFIX_BYTES + COUNT_BYTES THEN ab[i]
                          ELSE c[i - (PREFIX_BYTES + COUNT_BYTES)]
  <2> DEFINE l == PREFIX_BYTES + COUNT_BYTES
  <2>1. l \in Nat /\ Len(ab) = l BY <1>1, <1>7
  <2> HIDE DEF l
  <2>2. /\ ab \o c \in Seq(Byte) /\ Len(ab \o c) = l + RESERVED_BYTES
        /\ \A i \in 1..l + RESERVED_BYTES :
             (ab \o c)[i] = IF i <= l THEN ab[i] ELSE c[i - l]
    BY <1>4, <1>7, <2>1, ConcatProperties
  <2> QED BY <2>2 DEF l
<1> DEFINE hd == ab \o c
<1>9. \A k \in 1..COUNT_BYTES : hd[PREFIX_BYTES + k] = b[k]
  <2> SUFFICES ASSUME NEW k \in 1..COUNT_BYTES PROVE hd[PREFIX_BYTES + k] = b[k] OBVIOUS
  <2> DEFINE i == PREFIX_BYTES + k
  <2>1. /\ i \in 1..PREFIX_BYTES + COUNT_BYTES
        /\ i \in 1..PREFIX_BYTES + COUNT_BYTES + RESERVED_BYTES
        /\ i <= PREFIX_BYTES + COUNT_BYTES /\ ~(i <= PREFIX_BYTES) /\ i - PREFIX_BYTES = k
    BY <1>1
  <2> HIDE DEF i
  <2>2. hd[i] = ab[i] BY <1>8, <2>1
  <2>3. ab[i] = b[i - PREFIX_BYTES] BY <1>7, <2>1
  <2> QED BY <2>1, <2>2, <2>3 DEF i
<1>10. hd \in Seq(Byte) /\ Len(hd) = HEADER_SIZE BY <1>8 DEF HEADER_SIZE
<1> HIDE DEF hd
<1>11. hd \in [1..HEADER_SIZE -> Byte] BY <1>10, LenProperties
<1> QED BY <1>5, <1>9, <1>10, <1>11 DEF hd, ab, b

(***************************************************************************)
(* The two writes to a page: an append, which puts an entry and then the   *)
(* header, and a mark.                                                     *)
(***************************************************************************)
Entry(winner) == Bytes(winner.wallet, WALLET_BYTES) \o Bytes(winner.tickets, TICKET_BYTES)

Put(page, o, winner) ==
  Overwrite(Overwrite(page, entry_offset(o), Entry(winner)), 0, Header(o + 1))

Mark(page, o) == Overwrite(page, BITMAP_OFFSET, Raise(BitmapOf(page), o))

CountField(page) == Slice(page, PREFIX_BYTES, COUNT_BYTES)

(* An entry is its two fields, one behind the other.                       *)
LEMMA EntryIs ==
  ASSUME NEW winner
  PROVE  /\ Entry(winner) \in [1..SELECTED_WINNER_SIZE -> Byte]
         /\ Len(Entry(winner)) = SELECTED_WINNER_SIZE
         /\ \A k \in 1..WALLET_BYTES :
              Entry(winner)[k] = Bytes(winner.wallet, WALLET_BYTES)[k]
         /\ \A k \in 1..TICKET_BYTES :
              Entry(winner)[WALLET_BYTES + k] = Bytes(winner.tickets, TICKET_BYTES)[k]
<1> DEFINE a == Bytes(winner.wallet, WALLET_BYTES)
           b == Bytes(winner.tickets, TICKET_BYTES)
<1>1. WALLET_BYTES \in Nat /\ TICKET_BYTES \in Nat BY PagesAssumption
<1>2. a \in Seq(Byte) /\ Len(a) = WALLET_BYTES BY <1>1, BytesIs
<1>3. b \in Seq(Byte) /\ Len(b) = TICKET_BYTES BY <1>1, BytesIs
<1> HIDE DEF a, b
<1> DEFINE e == a \o b
<1>4. /\ e \in Seq(Byte) /\ Len(e) = WALLET_BYTES + TICKET_BYTES
      /\ \A i \in 1..WALLET_BYTES + TICKET_BYTES :
           e[i] = IF i <= WALLET_BYTES THEN a[i] ELSE b[i - WALLET_BYTES]
  BY <1>2, <1>3, ConcatProperties
<1> HIDE DEF e
<1>5. \A k \in 1..WALLET_BYTES : e[k] = a[k] BY <1>1, <1>4
<1>6. \A k \in 1..TICKET_BYTES : e[WALLET_BYTES + k] = b[k]
  <2> SUFFICES ASSUME NEW k \in 1..TICKET_BYTES PROVE e[WALLET_BYTES + k] = b[k] OBVIOUS
  <2> DEFINE i == WALLET_BYTES + k
  <2>1. /\ i \in 1..WALLET_BYTES + TICKET_BYTES
        /\ ~(i <= WALLET_BYTES) /\ i - WALLET_BYTES = k
    BY <1>1
  <2> HIDE DEF i
  <2>2. e[i] = b[i - WALLET_BYTES] BY <1>4, <2>1
  <2> QED BY <2>1, <2>2 DEF i
<1>7. e \in [1..SELECTED_WINNER_SIZE -> Byte] /\ Len(e) = SELECTED_WINNER_SIZE
  BY <1>4, LenProperties DEF SELECTED_WINNER_SIZE
<1> QED BY <1>5, <1>6, <1>7 DEF e, a, b, Entry

(* Pages that agree on the bytes of an entry hold the same entry.          *)
LEMMA SameEntry ==
  ASSUME NEW a \in Page, NEW b \in Page, NEW o \in 0..WINNERS_PER_PAGE - 1,
         Alike(a, b, entry_offset(o), SELECTED_WINNER_SIZE)
  PROVE  EntryOf(a, o) = EntryOf(b, o)
<1> DEFINE e == entry_offset(o)
<1>1. /\ e \in Nat /\ WALLET_BYTES \in Nat /\ TICKET_BYTES \in Nat /\ SIZE \in Nat
      /\ SELECTED_WINNER_SIZE = WALLET_BYTES + TICKET_BYTES
      /\ e + SELECTED_WINNER_SIZE <= SIZE
  BY Sizes
<1> HIDE DEF e
<1>2. \A k \in 1..SELECTED_WINNER_SIZE : a[e + k] = b[e + k] BY DEF Alike, e
<1>3. Slice(a, e, WALLET_BYTES) = Slice(b, e, WALLET_BYTES)
  <2>1. e + WALLET_BYTES <= SIZE BY <1>1
  <2>2. Alike(a, b, e, WALLET_BYTES) BY <1>1, <1>2 DEF Alike
  <2> QED BY <1>1, <2>1, <2>2, SliceSame
<1>4. Slice(a, e + WALLET_BYTES, TICKET_BYTES) = Slice(b, e + WALLET_BYTES, TICKET_BYTES)
  <2> DEFINE f == e + WALLET_BYTES
  <2>1. f \in Nat /\ f + TICKET_BYTES <= SIZE BY <1>1
  <2>2. ASSUME NEW k \in 1..TICKET_BYTES PROVE a[f + k] = b[f + k]
    <3>1. WALLET_BYTES + k \in 1..SELECTED_WINNER_SIZE BY <1>1
    <3>2. f + k = e + (WALLET_BYTES + k) BY <1>1
    <3>3. a[e + (WALLET_BYTES + k)] = b[e + (WALLET_BYTES + k)] BY <1>2, <3>1
    <3> QED BY <3>2, <3>3
  <2> HIDE DEF f
  <2>3. Alike(a, b, f, TICKET_BYTES) BY <2>2 DEF Alike
  <2>4. Slice(a, f, TICKET_BYTES) = Slice(b, f, TICKET_BYTES)
    BY <1>1, <2>1, <2>3, SliceSame
  <2> QED BY <2>4 DEF f
<1> QED BY <1>3, <1>4 DEF EntryOf, e

(* Pages that agree on the bytes of the bitmap hold the same bitmap.       *)
LEMMA SameBitmap ==
  ASSUME NEW a \in Page, NEW b \in Page,
         Alike(a, b, BITMAP_OFFSET, BITMAP_SIZE)
  PROVE  BitmapOf(a) = BitmapOf(b)
<1>1. BITMAP_OFFSET \in Nat /\ BITMAP_SIZE \in Nat /\ BITMAP_OFFSET + BITMAP_SIZE <= SIZE
  BY Sizes
<1> QED BY <1>1, SliceSame DEF BitmapOf

(* The bitmap of a page is one for its entries.                            *)
LEMMA BitmapIs ==
  ASSUME NEW page \in Page
  PROVE  /\ BitmapOf(page) \in Bitmap(WINNERS_PER_PAGE)
         /\ BITMAP_SIZE = DivCeil(WINNERS_PER_PAGE, BITS)
         /\ Bitmap(WINNERS_PER_PAGE) = [1..BITMAP_SIZE -> Byte]
<1>1. BitmapOf(page) \in [1..BITMAP_SIZE -> Byte] 
  <2>1. BITMAP_OFFSET \in Nat /\ BITMAP_SIZE \in Nat /\ BITMAP_OFFSET + BITMAP_SIZE <= SIZE
    BY Sizes
  <2> QED BY <2>1, SliceIs DEF BitmapOf
<1> QED BY <1>1 DEF Bitmap, BITMAP_SIZE

(* An append: the count and the entry are as written, the other entries    *)
(* and the bitmap as they were.                                            *)
LEMMA PutIs ==
  ASSUME NEW page \in Page, NEW o \in 0..WINNERS_PER_PAGE - 1, NEW winner \in Winner
  PROVE  /\ Put(page, o, winner) \in Page
         /\ CountField(Put(page, o, winner)) = Bytes(o + 1, COUNT_BYTES)
         /\ EntryOf(Put(page, o, winner), o) = winner
         /\ \A r \in 0..WINNERS_PER_PAGE - 1 :
              r # o => EntryOf(Put(page, o, winner), r) = EntryOf(page, r)
         /\ BitmapOf(Put(page, o, winner)) = BitmapOf(page)
<1> DEFINE e     == entry_offset(o)
           s     == SELECTED_WINNER_SIZE
           h     == HEADER_SIZE
           entry == Entry(winner)
           head  == Header(o + 1)
           mid   == Overwrite(page, e, entry)
           put   == Overwrite(mid, 0, head)
<1>1. /\ e \in Nat /\ s \in Nat /\ h \in Nat /\ SIZE \in Nat /\ h <= e /\ e + s <= BITMAP_OFFSET
      /\ BITMAP_OFFSET \in Nat /\ BITMAP_SIZE \in Nat /\ SIZE = BITMAP_OFFSET + BITMAP_SIZE
      /\ h <= BITMAP_OFFSET
  BY Sizes
<1>2. entry \in [1..s -> Byte] /\ Len(entry) = s BY EntryIs
<1>3. head \in [1..h -> Byte] /\ Len(head) = h BY HeaderIs
<1> HIDE DEF e, s, h, entry, head, mid, put
<1>5. /\ mid \in Page
      /\ \A k \in 1..SIZE : mid[k] = IF k \in e + 1..e + s THEN entry[k - e] ELSE page[k]
  BY <1>1, <1>2, OverwriteIs DEF mid
<1>6. /\ put \in Page
      /\ \A k \in 1..SIZE : put[k] = IF k \in 0 + 1..0 + h THEN head[k - 0] ELSE mid[k]
  <2> DEFINE z == 0
  <2>1. z \in Nat OBVIOUS
  <2> HIDE DEF z
  <2>2. /\ Overwrite(mid, z, head) \in Page
        /\ \A k \in 1..SIZE : Overwrite(mid, z, head)[k] =
             IF k \in z + 1..z + h THEN head[k - z] ELSE mid[k]
    BY <1>1, <1>3, <1>5, <2>1, OverwriteIs
  <2> QED BY <2>2, Zenon DEF put, z
<1>7. ASSUME NEW k \in 1..SIZE
      PROVE  /\ k <= h => put[k] = head[k]
             /\ k > h /\ k \notin e + 1..e + s => put[k] = page[k]
             /\ k \in e + 1..e + s => put[k] = entry[k - e]
  <2>1. put[k] = IF k \in 0 + 1..0 + h THEN head[k - 0] ELSE mid[k] BY <1>6
  <2>2. k \in 0 + 1..0 + h <=> k <= h BY <1>1
  <2>3. k - 0 = k OBVIOUS
  <2>4. mid[k] = IF k \in e + 1..e + s THEN entry[k - e] ELSE page[k] BY <1>5
  <2>5. k \in e + 1..e + s => k > h BY <1>1
  <2> QED BY <1>1, <2>1, <2>2, <2>3, <2>4, <2>5
<1>8. CountField(put) = Bytes(o + 1, COUNT_BYTES)
  <2>1. /\ PREFIX_BYTES \in Nat /\ COUNT_BYTES \in Nat /\ PREFIX_BYTES + COUNT_BYTES <= h
    BY Sizes DEF h
  <2>2. Bytes(o + 1, COUNT_BYTES) \in [1..COUNT_BYTES -> Byte] BY <2>1, BytesIs
  <2>3. ASSUME NEW k \in 1..COUNT_BYTES
        PROVE  put[PREFIX_BYTES + k] = Bytes(o + 1, COUNT_BYTES)[k]
    <3>1. PREFIX_BYTES + k \in 1..SIZE /\ PREFIX_BYTES + k <= h BY <1>1, <2>1
    <3>2. put[PREFIX_BYTES + k] = head[PREFIX_BYTES + k] BY <1>7, <3>1
    <3>3. head[PREFIX_BYTES + k] = Bytes(o + 1, COUNT_BYTES)[k] BY HeaderIs DEF head
    <3> QED BY <3>2, <3>3
  <2>4. PREFIX_BYTES + COUNT_BYTES <= SIZE BY <1>1, <2>1
  <2>5. Holds(put, PREFIX_BYTES, COUNT_BYTES, Bytes(o + 1, COUNT_BYTES))
    BY <2>3 DEF Holds
  <2>6. Slice(put, PREFIX_BYTES, COUNT_BYTES) = Bytes(o + 1, COUNT_BYTES)
    BY <1>6, <2>1, <2>2, <2>4, <2>5, SliceEquals
  <2> QED BY <2>6 DEF CountField
<1>9. EntryOf(put, o) = winner
  <2>1. WALLET_BYTES \in Nat /\ TICKET_BYTES \in Nat /\ s = WALLET_BYTES + TICKET_BYTES
    BY Sizes DEF s
  <2>2. \A k \in 1..s : put[e + k] = entry[k]
    <3> SUFFICES ASSUME NEW k \in 1..s PROVE put[e + k] = entry[k] OBVIOUS
    <3> DEFINE i == e + k
    <3>1. i \in 1..SIZE /\ i \in e + 1..e + s /\ i - e = k BY <1>1
    <3> HIDE DEF i
    <3>2. put[i] = entry[i - e] BY <1>7, <3>1
    <3> QED BY <3>1, <3>2 DEF i
  <2>3. Slice(put, e, WALLET_BYTES) = Bytes(winner.wallet, WALLET_BYTES)
    <3>1. Bytes(winner.wallet, WALLET_BYTES) \in [1..WALLET_BYTES -> Byte] BY <2>1, BytesIs
    <3>2. \A k \in 1..WALLET_BYTES : entry[k] = Bytes(winner.wallet, WALLET_BYTES)[k]
      BY EntryIs DEF entry
    <3>3. \A k \in 1..WALLET_BYTES : put[e + k] = Bytes(winner.wallet, WALLET_BYTES)[k]
      BY <2>1, <2>2, <3>2
    <3>4. e + WALLET_BYTES <= SIZE BY <1>1, <2>1
    <3>5. Holds(put, e, WALLET_BYTES, Bytes(winner.wallet, WALLET_BYTES)) BY <3>3 DEF Holds
    <3> QED BY <1>1, <1>6, <2>1, <3>1, <3>4, <3>5, SliceEquals
  <2>4. Slice(put, e + WALLET_BYTES, TICKET_BYTES) = Bytes(winner.tickets, TICKET_BYTES)
    <3> DEFINE f == e + WALLET_BYTES
               t == Bytes(winner.tickets, TICKET_BYTES)
    <3>1. t \in [1..TICKET_BYTES -> Byte] BY <2>1, BytesIs
    <3>2. ASSUME NEW k \in 1..TICKET_BYTES PROVE put[f + k] = t[k]
      <4>1. WALLET_BYTES + k \in 1..s /\ f + k = e + (WALLET_BYTES + k) BY <1>1, <2>1
      <4>2. put[e + (WALLET_BYTES + k)] = entry[WALLET_BYTES + k] BY <2>2, <4>1
      <4>3. entry[WALLET_BYTES + k] = t[k] BY EntryIs DEF entry
      <4> QED BY <4>1, <4>2, <4>3
    <3>3. f \in Nat /\ f + TICKET_BYTES <= SIZE BY <1>1, <2>1
    <3> HIDE DEF f, t
    <3>4. Holds(put, f, TICKET_BYTES, t) BY <3>2 DEF Holds
    <3>5. Slice(put, f, TICKET_BYTES) = t
      BY <1>6, <2>1, <3>1, <3>3, <3>4, SliceEquals
    <3> QED BY <3>5 DEF f, t
  <2>5. EntryOf(put, o) = [ wallet  |-> Number(Bytes(winner.wallet, WALLET_BYTES)),
                            tickets |-> Number(Bytes(winner.tickets, TICKET_BYTES)) ]
    BY <2>3, <2>4 DEF EntryOf, e
  <2>6. /\ winner = [wallet |-> winner.wallet, tickets |-> winner.tickets]
        /\ Number(Bytes(winner.wallet, WALLET_BYTES)) = winner.wallet
        /\ Number(Bytes(winner.tickets, TICKET_BYTES)) = winner.tickets
    BY FieldsAssumption
  <2> QED BY <2>5, <2>6
<1>10. ASSUME NEW r \in 0..WINNERS_PER_PAGE - 1, r # o
       PROVE  EntryOf(put, r) = EntryOf(page, r)
  <2>1. /\ entry_offset(r) \in Nat /\ h <= entry_offset(r)
        /\ entry_offset(r) + s <= BITMAP_OFFSET
    BY Sizes DEF h, s
  <2>2. entry_offset(r) + s <= e \/ e + s <= entry_offset(r)
    <3>1. o \in Nat /\ r \in Nat /\ (r < o \/ o < r) BY <1>10, PagesAssumption
    <3> QED BY <3>1, Sizes DEF e, s
  <2>3. ASSUME NEW k \in 1..s PROVE put[entry_offset(r) + k] = page[entry_offset(r) + k]
    <3> DEFINE i == entry_offset(r) + k
    <3>1. i \in 1..SIZE /\ i > h /\ i \notin e + 1..e + s BY <1>1, <2>1, <2>2
    <3> HIDE DEF i
    <3>2. put[i] = page[i] BY <1>7, <3>1
    <3> QED BY <3>2 DEF i
  <2>4. Alike(put, page, entry_offset(r), SELECTED_WINNER_SIZE) BY <2>3 DEF Alike, s
  <2> QED BY <1>6, <2>4, SameEntry
<1>11. BitmapOf(put) = BitmapOf(page)
  <2>1. ASSUME NEW k \in 1..BITMAP_SIZE
        PROVE  put[BITMAP_OFFSET + k] = page[BITMAP_OFFSET + k]
    <3> DEFINE i == BITMAP_OFFSET + k
    <3>1. i \in 1..SIZE /\ i > h /\ i \notin e + 1..e + s BY <1>1
    <3> HIDE DEF i
    <3>2. put[i] = page[i] BY <1>7, <3>1
    <3> QED BY <3>2 DEF i
  <2>2. Alike(put, page, BITMAP_OFFSET, BITMAP_SIZE) BY <2>1 DEF Alike
  <2> QED BY <1>6, <2>2, SameBitmap
<1>12. Put(page, o, winner) = put BY DEF Put, put, mid, head, entry, e
<1> QED BY <1>6, <1>8, <1>9, <1>10, <1>11, <1>12

(* A mark: the bit of the entry is raised; count and entries stay.         *)
LEMMA MarkIs ==
  ASSUME NEW page \in Page, NEW o \in 0..WINNERS_PER_PAGE - 1
  PROVE  /\ Mark(page, o) \in Page
         /\ CountField(Mark(page, o)) = CountField(page)
         /\ \A r \in 0..WINNERS_PER_PAGE - 1 : EntryOf(Mark(page, o), r) = EntryOf(page, r)
         /\ \A r \in 0..WINNERS_PER_PAGE - 1 :
              Raised(BitmapOf(Mark(page, o)), r) <=> r = o \/ Raised(BitmapOf(page), r)
<1> DEFINE b    == BITMAP_OFFSET
           w    == BITMAP_SIZE
           bits == Raise(BitmapOf(page), o)
           mark == Overwrite(page, b, bits)
<1>1. /\ b \in Nat /\ w \in Nat /\ SIZE = b + w /\ HEADER_SIZE <= b /\ HEADER_SIZE \in Nat
  BY Sizes
<1>2. /\ bits \in [1..w -> Byte]
      /\ \A r \in 0..WINNERS_PER_PAGE - 1 :
           Raised(bits, r) <=> r = o \/ Raised(BitmapOf(page), r)
  BY PagesAssumption, BitmapIs, RaisedOnce
<1> HIDE DEF b, w, bits, mark
<1>4. Len(bits) = w BY <1>1, <1>2
<1>5. /\ mark \in Page
      /\ \A k \in 1..SIZE : mark[k] = IF k \in b + 1..b + w THEN bits[k - b] ELSE page[k]
  BY <1>1, <1>2, <1>4, OverwriteIs DEF mark
<1>6. ASSUME NEW k \in 1..SIZE, k <= b PROVE mark[k] = page[k]
  <2>1. k \notin b + 1..b + w BY <1>1, <1>6
  <2> QED BY <1>5, <2>1
<1>7. CountField(mark) = CountField(page)
  <2>1. PREFIX_BYTES \in Nat /\ COUNT_BYTES \in Nat /\ PREFIX_BYTES + COUNT_BYTES <= b
    BY Sizes DEF b
  <2>2. ASSUME NEW k \in 1..COUNT_BYTES PROVE mark[PREFIX_BYTES + k] = page[PREFIX_BYTES + k]
    <3>1. PREFIX_BYTES + k \in 1..SIZE /\ PREFIX_BYTES + k <= b BY <1>1, <2>1
    <3> QED BY <1>6, <3>1
  <2>3. PREFIX_BYTES + COUNT_BYTES <= SIZE BY <1>1, <2>1
  <2>4. Alike(mark, page, PREFIX_BYTES, COUNT_BYTES) BY <2>2 DEF Alike
  <2>5. Slice(mark, PREFIX_BYTES, COUNT_BYTES) = Slice(page, PREFIX_BYTES, COUNT_BYTES)
    BY <1>5, <2>1, <2>3, <2>4, SliceSame
  <2> QED BY <2>5 DEF CountField
<1>8. ASSUME NEW r \in 0..WINNERS_PER_PAGE - 1 PROVE EntryOf(mark, r) = EntryOf(page, r)
  <2>1. /\ entry_offset(r) \in Nat /\ SELECTED_WINNER_SIZE \in Nat
        /\ entry_offset(r) + SELECTED_WINNER_SIZE <= b
    BY Sizes DEF b
  <2>2. ASSUME NEW k \in 1..SELECTED_WINNER_SIZE
        PROVE  mark[entry_offset(r) + k] = page[entry_offset(r) + k]
    <3>1. entry_offset(r) + k \in 1..SIZE /\ entry_offset(r) + k <= b BY <1>1, <2>1
    <3> QED BY <1>6, <3>1
  <2>3. Alike(mark, page, entry_offset(r), SELECTED_WINNER_SIZE) BY <2>2 DEF Alike
  <2> QED BY <1>5, <2>3, SameEntry
<1>9. BitmapOf(mark) = bits
  <2>1. ASSUME NEW k \in 1..w PROVE mark[b + k] = bits[k]
    <3> DEFINE i == b + k
    <3>1. i \in 1..SIZE /\ i \in b + 1..b + w /\ i - b = k BY <1>1
    <3> HIDE DEF i
    <3>2. mark[i] = bits[i - b] BY <1>5, <3>1
    <3> QED BY <3>1, <3>2 DEF i
  <2>2. b + w <= SIZE /\ SIZE \in Nat BY <1>1
  <2>3. Holds(mark, b, w, bits) BY <2>1 DEF Holds
  <2>4. Slice(mark, b, w) = bits BY <1>1, <1>2, <1>5, <2>2, <2>3, SliceEquals
  <2> QED BY <2>4 DEF BitmapOf, b, w
<1>10. Mark(page, o) = mark BY DEF Mark, mark, bits, b
<1> QED BY <1>2, <1>5, <1>7, <1>8, <1>9, <1>10

(***************************************************************************)
(* The inductive invariant.                                                *)
(***************************************************************************)
(* Entries of the book on a page that has one.                             *)
EntriesOn(p) ==
  IF selected_count <= p * WINNERS_PER_PAGE + WINNERS_PER_PAGE
  THEN selected_count - p * WINNERS_PER_PAGE
  ELSE WINNERS_PER_PAGE

(* Pages exist as far as the book reaches, and say how many entries of it  *)
(* they hold.                                                              *)
Filled ==
  \A p \in PageIndex :
    /\ data[p] = <<>> <=> selected_count <= p * WINNERS_PER_PAGE
    /\ data[p] # <<>> => CountField(data[p]) = Bytes(EntriesOn(p), COUNT_BYTES)

(* The bit of an entry on its page.                                        *)
PageBit(i) == Raised(BitmapOf(data[i \div WINNERS_PER_PAGE]), i % WINNERS_PER_PAGE)

(* Before the book is closed no bit is raised; after, the two bitmaps      *)
(* agree on every entry.                                                   *)
Marks ==
  /\ winners_count = 0 =>
       /\ paid_winners_bitmap = Zeros(DivCeil(MAX_WINNERS, BITS))
       /\ \A p \in PageIndex : data[p] # <<>> => BitmapOf(data[p]) = Zeros(BITMAP_SIZE)
  /\ \A i \in 0..winners_count - 1 : PageBit(i) <=> Raised(paid_winners_bitmap, i)

IInv == TypeOK /\ Filled /\ Marks

(* A page is not an empty account.                                         *)
LEMMA PageNotEmpty == <<>> \notin Page /\ SIZE \in Nat \ {0}
<1>1. SIZE \in Nat \ {0} BY Sizes
<1>2. \A x \in Page : DOMAIN x = 1..SIZE BY DEF Page
<1>3. 1 \in 1..SIZE BY <1>1
<1>4. DOMAIN <<>> = {} OBVIOUS
<1> QED BY <1>1, <1>2, <1>3, <1>4

(* What is there is a page.                                                *)
LEMMA DataIs ==
  ASSUME TypeOK, NEW p \in PageIndex, data[p] # <<>> PROVE data[p] \in Page
  BY DEF TypeOK, Page

(* Indexes of winners have a page.                                         *)
LEMMA PageOfIndex ==
  ASSUME NEW i \in 0..MAX_WINNERS - 1
  PROVE  /\ i \div WINNERS_PER_PAGE \in PageIndex
         /\ i % WINNERS_PER_PAGE \in 0..WINNERS_PER_PAGE - 1
         /\ i = (i \div WINNERS_PER_PAGE) * WINNERS_PER_PAGE + (i % WINNERS_PER_PAGE)
<1> DEFINE m == WINNERS_PER_PAGE
           q == i \div m
           t == (MAX_WINNERS - 1) \div m
<1>1. m \in Nat \ {0} /\ MAX_WINNERS - 1 \in Nat /\ i \in Nat /\ i <= MAX_WINNERS - 1
  BY PagesAssumption
<1>2. q \in Nat /\ i % m \in 0..m - 1 /\ i = q * m + (i % m) BY <1>1, Division
<1>3. t \in Nat /\ MAX_WINNERS - 1 < t * m + m BY <1>1, Division, Stretch
<1>4. q * m <= i BY <1>1, <1>2, Stretch
<1> HIDE DEF m, q, t
<1>5. q <= t
  <2> SUFFICES ASSUME t < q PROVE FALSE BY <1>2, <1>3
  <2>1. (t + 1) * m <= q * m BY <1>1, <1>2, <1>3, Product
  <2>2. (t + 1) * m = t * m + m /\ t * m \in Nat /\ q * m \in Nat BY <1>1, <1>2, <1>3
  <2> QED BY <1>1, <1>3, <1>4, <2>1, <2>2
<1> QED BY <1>2, <1>3, <1>5 DEF PageIndex, q, m, t

(* The count that is read from a page is the number of its entries.        *)
LEMMA CountIs ==
  ASSUME TypeOK, Filled, NEW p \in PageIndex, data[p] # <<>>
  PROVE  Count(data[p]) = EntriesOn(p) /\ EntriesOn(p) \in 1..WINNERS_PER_PAGE
<1>1. p \in Nat /\ WINNERS_PER_PAGE \in Nat \ {0} /\ selected_count \in Nat
  BY PagesAssumption DEF PageIndex, TypeOK
<1>2. p * WINNERS_PER_PAGE \in Nat BY <1>1
<1>3. selected_count > p * WINNERS_PER_PAGE BY <1>1, <1>2 DEF Filled
<1>4. EntriesOn(p) \in 1..WINNERS_PER_PAGE BY <1>1, <1>2, <1>3 DEF EntriesOn
<1>5. Count(data[p]) = Number(Bytes(EntriesOn(p), COUNT_BYTES))
  BY DEF Filled, Count, CountField
<1>6. EntriesOn(p) \in 0..WINNERS_PER_PAGE BY <1>1, <1>4
<1> QED BY <1>4, <1>5, <1>6, FieldsAssumption

(* Every entry of the book is on a page, below its count.                  *)
LEMMA PlaceOf ==
  ASSUME TypeOK, Filled, NEW i \in 0..selected_count - 1
  PROVE  /\ i \in 0..MAX_WINNERS - 1
         /\ i \div WINNERS_PER_PAGE \in PageIndex
         /\ i % WINNERS_PER_PAGE \in 0..WINNERS_PER_PAGE - 1
         /\ data[i \div WINNERS_PER_PAGE] # <<>>
         /\ data[i \div WINNERS_PER_PAGE] \in Page
         /\ i % WINNERS_PER_PAGE < Count(data[i \div WINNERS_PER_PAGE])
<1> DEFINE m == WINNERS_PER_PAGE
           q == i \div m
           o == i % m
<1>1. /\ m \in Nat \ {0} /\ MAX_WINNERS \in Nat /\ selected_count \in 0..MAX_WINNERS
      /\ i \in 0..MAX_WINNERS - 1 /\ i < selected_count /\ i \in Nat
  BY PagesAssumption DEF TypeOK
<1>2. q \in PageIndex /\ o \in 0..m - 1 /\ i = q * m + o
  <2>1. i \in 0..MAX_WINNERS - 1 BY <1>1
  <2> QED BY <2>1, PageOfIndex, Zenon
<1> HIDE DEF m, q, o
<1>3. q \in Nat /\ q * m \in Nat
  <2>1. q \in Nat BY <1>2 DEF PageIndex
  <2> QED BY <1>1, <2>1
<1>4. ~(selected_count <= q * m) BY <1>1, <1>2, <1>3
<1>5. data[q] # <<>> BY <1>2, <1>4 DEF Filled, m
<1>6. data[q] \in Page BY <1>2, <1>5, DataIs
<1>7. Count(data[q]) = EntriesOn(q) BY <1>2, <1>5, CountIs
<1>8. EntriesOn(q) = IF selected_count <= q * m + m THEN selected_count - q * m ELSE m
  BY DEF EntriesOn, m
<1>9. o < EntriesOn(q) BY <1>1, <1>2, <1>3, <1>8
<1> QED BY <1>1, <1>2, <1>5, <1>6, <1>7, <1>9 DEF m, q, o

(* The invariant holds at the beginning.                                   *)
LEMMA InitHolds == Init => IInv
<1> SUFFICES ASSUME Init PROVE IInv OBVIOUS
<1>1. /\ data = [p \in PageIndex |-> <<>>] /\ selected_count = 0 /\ winners_count = 0
      /\ paid_winners_bitmap = Zeros(DivCeil(MAX_WINNERS, BITS))
  BY DEF Init
<1>2. MAX_WINNERS \in Nat /\ WINNERS_PER_PAGE \in Nat BY PagesAssumption
<1>3. paid_winners_bitmap \in [1..DivCeil(MAX_WINNERS, BITS) -> Byte]
  BY <1>1, <1>2, NoneRaised DEF Bitmap
<1>4. TypeOK BY <1>1, <1>2, <1>3 DEF TypeOK
<1>5. Filled
  <2> SUFFICES ASSUME NEW p \in PageIndex PROVE data[p] = <<>> /\ 0 <= p * WINNERS_PER_PAGE
    BY <1>1 DEF Filled
  <2>1. p \in Nat BY DEF PageIndex
  <2>2. p * WINNERS_PER_PAGE \in Nat BY <1>2, <2>1
  <2> QED BY <1>1, <2>2
<1>6. Marks BY <1>1 DEF Marks
<1> QED BY <1>4, <1>5, <1>6 DEF IInv

(***************************************************************************)
(* A winner is recorded.                                                   *)
(***************************************************************************)
(* The page that is appended to, created if need be, has no bit raised.    *)
LEMMA OpenedIs ==
  ASSUME IInv, winners_count = 0, NEW p \in PageIndex
  PROVE  Opened(p) \in Page /\ BitmapOf(Opened(p)) = Zeros(BITMAP_SIZE)
<1>1. CASE data[p] # <<>>
  <2>1. Opened(p) = data[p] BY <1>1 DEF Opened
  <2>2. data[p] \in Page BY <1>1, DataIs DEF IInv
  <2>3. BitmapOf(data[p]) = Zeros(BITMAP_SIZE) BY <1>1 DEF IInv, Marks
  <2> QED BY <2>1, <2>2, <2>3
<1>2. CASE data[p] = <<>>
  <2> DEFINE z == Zeros(SIZE)
             y == Zeros(BITMAP_SIZE)
  <2>1. Opened(p) = z BY <1>2 DEF Opened
  <2>2. /\ BITMAP_OFFSET \in Nat /\ BITMAP_SIZE \in Nat /\ SIZE \in Nat
        /\ SIZE = BITMAP_OFFSET + BITMAP_SIZE
    BY Sizes
  <2>3. /\ z \in [1..SIZE -> Byte] /\ \A k \in 1..SIZE : z[k] = {}
        /\ y \in [1..BITMAP_SIZE -> Byte] /\ \A k \in 1..BITMAP_SIZE : y[k] = {}
    BY DEF Zeros, Byte
  <2> HIDE DEF z, y
  <2>4. \A k \in 1..BITMAP_SIZE : z[BITMAP_OFFSET + k] = y[k]
    <3> SUFFICES ASSUME NEW k \in 1..BITMAP_SIZE PROVE z[BITMAP_OFFSET + k] = y[k] OBVIOUS
    <3>1. BITMAP_OFFSET + k \in 1..SIZE BY <2>2
    <3> QED BY <2>3, <3>1
  <2>5. Slice(z, BITMAP_OFFSET, BITMAP_SIZE) = y
    <3>1. z \in Page BY <2>3 DEF Page
    <3>2. Holds(z, BITMAP_OFFSET, BITMAP_SIZE, y) BY <2>4 DEF Holds
    <3>3. BITMAP_OFFSET + BITMAP_SIZE <= SIZE BY <2>2
    <3> QED BY <2>2, <2>3, <3>1, <3>2, <3>3, SliceEquals
  <2>6. BitmapOf(z) = y BY <2>5 DEF BitmapOf
  <2> QED BY <2>1, <2>3, <2>6 DEF Page, y
<1> QED BY <1>1, <1>2

(* The append is at the place of the next index.                           *)
LEMMA RecordIs ==
  ASSUME IInv, NEW winner \in Winner, NEW last \in BOOLEAN, RecordWinner(winner, last),
         NEW p, p = selected_count \div WINNERS_PER_PAGE,
         NEW o, o = selected_count % WINNERS_PER_PAGE
  PROVE  /\ p \in PageIndex /\ o \in 0..WINNERS_PER_PAGE - 1
         /\ selected_count = p * WINNERS_PER_PAGE + o
         /\ selected_count \in 0..MAX_WINNERS - 1
         /\ data' = [data EXCEPT ![p] = Put(Opened(p), o, winner)]
<1> DEFINE m == WINNERS_PER_PAGE
           n == selected_count
<1>1. m \in Nat \ {0} /\ MAX_WINNERS \in Nat \ {0} /\ n \in Nat
  BY PagesAssumption DEF IInv, TypeOK
<1>2. /\ winners_count = 0 /\ n + 1 <= MAX_WINNERS
      /\ data' = [data EXCEPT ![p] = Appended(p, winner)]
  BY DEF RecordWinner
<1>3. n \in 0..MAX_WINNERS - 1 BY <1>1, <1>2
<1>4. p \in PageIndex /\ o \in 0..m - 1 /\ n = p * m + o BY <1>3, PageOfIndex, Zenon
<1>5. p \in Nat BY <1>4 DEF PageIndex
<1>6. p * m \in Nat BY <1>1, <1>5
<1> DEFINE offset == IF data[p] = <<>> THEN 0 ELSE Count(data[p])
<1> HIDE DEF m, n
<1>7. offset = o
  <2>1. CASE data[p] = <<>>
    <3>1. n <= p * m BY <1>4, <2>1 DEF IInv, Filled, m, n
    <3> QED BY <1>1, <1>4, <1>6, <2>1, <3>1
  <2>2. CASE data[p] # <<>>
    <3>1. Count(data[p]) = EntriesOn(p) BY <1>4, <2>2, CountIs DEF IInv
    <3>2. EntriesOn(p) = IF n <= p * m + m THEN n - p * m ELSE m BY DEF EntriesOn, m, n
    <3>3. EntriesOn(p) = o BY <1>1, <1>4, <1>6, <3>2
    <3> QED BY <2>2, <3>1, <3>3
  <2> QED BY <2>1, <2>2
<1>8. Appended(p, winner) = Put(Opened(p), offset, winner)
  BY DEF Appended, Put, Entry, offset
<1> HIDE DEF offset
<1> QED BY <1>2, <1>3, <1>4, <1>7, <1>8 DEF m, n

(* An append is to the register what Append is to a sequence, and keeps    *)
(* the invariant.                                                          *)
LEMMA RecordKeeps ==
  ASSUME IInv, NEW winner \in Winner, NEW last \in BOOLEAN, RecordWinner(winner, last),
         NEW n, n = selected_count
  PROVE  /\ IInv'
         /\ EntryAt(n)' = winner
         /\ \A i \in 0..n - 1 : EntryAt(i)' = EntryAt(i)
         /\ \A i \in 0..n : ~PaidInLottery(i)'
<1> DEFINE m == WINNERS_PER_PAGE
<1>a. PICK p : p = n \div m OBVIOUS
<1>b. PICK o : o = n % m OBVIOUS
<1>c. PICK put : put = Put(Opened(p), o, winner) OBVIOUS
<1>1. /\ p \in PageIndex /\ o \in 0..m - 1 /\ n = p * m + o /\ n \in 0..MAX_WINNERS - 1
      /\ data' = [data EXCEPT ![p] = put]
  BY <1>a, <1>b, <1>c, RecordIs
<1>2. /\ winners_count = 0 /\ selected_count' = n + 1
      /\ winners_count' = IF last THEN n + 1 ELSE 0
      /\ paid_winners_bitmap' = IF last THEN Cleared(paid_winners_bitmap, n + 1)
                                ELSE paid_winners_bitmap
  BY DEF RecordWinner
<1>3. Opened(p) \in Page /\ BitmapOf(Opened(p)) = Zeros(BITMAP_SIZE)
  BY <1>1, <1>2, OpenedIs
<1>4. /\ put \in Page
      /\ CountField(put) = Bytes(o + 1, COUNT_BYTES)
      /\ EntryOf(put, o) = winner
      /\ \A r \in 0..m - 1 : r # o => EntryOf(put, r) = EntryOf(Opened(p), r)
      /\ BitmapOf(put) = Zeros(BITMAP_SIZE)
  BY <1>1, <1>3, <1>c, PutIs
<1>5. /\ m \in Nat \ {0} /\ MAX_WINNERS \in Nat \ {0} /\ n \in Nat /\ p \in Nat
      /\ p * m \in Nat
  <2>1. m \in Nat \ {0} /\ MAX_WINNERS \in Nat \ {0} BY PagesAssumption
  <2>2. p \in Nat BY <1>1 DEF PageIndex
  <2> QED BY <1>1, <2>1, <2>2
<1>6. TypeOK /\ Filled /\ Marks BY DEF IInv
<1>7. data \in [PageIndex -> {<<>>} \cup Page] BY <1>6 DEF TypeOK, Page
<1>8. ASSUME NEW i \in Nat
      PROVE  /\ i \div m \in Nat /\ i % m \in 0..m - 1 /\ i = (i \div m) * m + (i % m)
  BY <1>5, Division
<1> HIDE DEF m
<1>9. data' \in [PageIndex -> {<<>>} \cup Page]
  BY <1>1, <1>4, <1>7
<1>10. data'[p] = put /\ \A q \in PageIndex : q # p => data'[q] = data[q]
  BY <1>1, <1>7
<1>11. put # <<>> BY <1>4, PageNotEmpty
<1>12. /\ paid_winners_bitmap = Zeros(DivCeil(MAX_WINNERS, BITS))
       /\ paid_winners_bitmap' = Zeros(DivCeil(MAX_WINNERS, BITS))
  <2>1. paid_winners_bitmap = Zeros(DivCeil(MAX_WINNERS, BITS)) BY <1>2, <1>6 DEF Marks
  <2>2. Cleared(Zeros(DivCeil(MAX_WINNERS, BITS)), n + 1) = Zeros(DivCeil(MAX_WINNERS, BITS))
    BY DEF Cleared, Zeros
  <2> QED BY <1>2, <2>1, <2>2
<1>13. TypeOK'
  <2>1. Zeros(DivCeil(MAX_WINNERS, BITS)) \in [1..DivCeil(MAX_WINNERS, BITS) -> Byte]
    BY <1>5, NoneRaised DEF Bitmap
  <2>2. n + 1 \in 0..MAX_WINNERS BY <1>1, <1>5
  <2> QED BY <1>2, <1>9, <1>12, <2>1, <2>2 DEF TypeOK, Page
<1>14. Filled'
  <2> SUFFICES ASSUME NEW q \in PageIndex
               PROVE  /\ data'[q] = <<>> <=> selected_count' <= q * m
                      /\ data'[q] # <<>> => CountField(data'[q]) = Bytes(EntriesOn(q)', COUNT_BYTES)
    BY DEF Filled, CountField, m
  <2>1. q \in Nat BY DEF PageIndex
  <2>2. q * m \in Nat BY <1>5, <2>1
  <2>3. EntriesOn(q)' = IF n + 1 <= q * m + m THEN n + 1 - q * m ELSE m
    <3>1. EntriesOn(q)' = IF selected_count' <= q * m + m THEN selected_count' - q * m ELSE m
      BY DEF EntriesOn, m
    <3>2. selected_count' = n + 1 BY <1>2
    <3> QED BY <1>5, <2>2, <3>1, <3>2
  <2>4. EntriesOn(q) = IF n <= q * m + m THEN n - q * m ELSE m
    BY DEF EntriesOn, m
  <2>5. data[q] = <<>> <=> n <= q * m BY <1>6 DEF Filled, m
  <2>6. CASE q = p
    <3>1. EntriesOn(q)' = o + 1 BY <1>1, <1>5, <2>3, <2>6
    <3>2. ~(n + 1 <= q * m) BY <1>1, <1>5, <2>6
    <3> QED BY <1>2, <1>4, <1>10, <1>11, <2>6, <3>1, <3>2
  <2>7. CASE q < p
    <3>1. (q + 1) * m <= p * m BY <1>5, <2>1, <2>7, Product
    <3>2. (q + 1) * m = q * m + m BY <1>5, <2>1
    <3>3. q * m + m <= n BY <1>1, <1>5, <2>2, <3>1, <3>2
    <3>4. EntriesOn(q)' = EntriesOn(q) BY <1>5, <2>2, <2>3, <2>4, <3>3
    <3>5. ~(n <= q * m) /\ ~(n + 1 <= q * m) BY <1>5, <2>2, <3>3
    <3>6. data'[q] = data[q] BY <1>5, <1>10, <2>1, <2>7
    <3>7. data[q] # <<>> => CountField(data[q]) = Bytes(EntriesOn(q), COUNT_BYTES)
      BY <1>6 DEF Filled
    <3> QED BY <1>2, <2>5, <3>4, <3>5, <3>6, <3>7
  <2>8. CASE p < q
    <3>1. (p + 1) * m <= q * m BY <1>5, <2>1, <2>8, Product
    <3>2. (p + 1) * m = p * m + m BY <1>5
    <3>3. n + 1 <= q * m BY <1>1, <1>5, <2>2, <3>1, <3>2
    <3>4. data'[q] = data[q] BY <1>5, <1>10, <2>1, <2>8
    <3>5. n <= q * m BY <1>5, <2>2, <3>3
    <3> QED BY <1>2, <2>5, <3>3, <3>4, <3>5
  <2> QED BY <1>5, <2>1, <2>6, <2>7, <2>8
<1>15. \A q \in PageIndex : data'[q] # <<>> => BitmapOf(data'[q]) = Zeros(BITMAP_SIZE)
  BY <1>2, <1>4, <1>6, <1>10 DEF Marks
<1>16. Marks'
  <2>1. ASSUME NEW i \in 0..winners_count' - 1
        PROVE  PageBit(i)' <=> Raised(paid_winners_bitmap', i)
    <3>1. i \in 0..selected_count' - 1 /\ i \in 0..MAX_WINNERS - 1
      BY <1>1, <1>2, <1>5
    <3>2. /\ i \div m \in PageIndex /\ i % m \in 0..m - 1 /\ data'[i \div m] # <<>>
      <4>1. /\ i \div m \in PageIndex /\ i % m \in 0..m - 1
            /\ i = (i \div m) * m + (i % m)
        BY <3>1, PageOfIndex DEF m
      <4>2. i \div m \in Nat BY <4>1 DEF PageIndex
      <4>3. (i \div m) * m \in Nat BY <1>5, <4>2
      <4> DEFINE d == i \div m
      <4> HIDE DEF d
      <4>4. ~(selected_count' <= d * m) BY <1>2, <1>5, <3>1, <4>1, <4>3 DEF d
      <4>5. d \in PageIndex BY <4>1 DEF d
      <4>6. data'[d] # <<>> BY <1>14, <4>4, <4>5 DEF Filled, m
      <4> QED BY <4>1, <4>6 DEF d
    <3>3. BitmapOf(data'[i \div m]) = Zeros(BITMAP_SIZE) BY <1>15, <3>2
    <3>4. ~Raised(Zeros(BITMAP_SIZE), i % m)
      BY <1>5, <3>2, NoneRaised DEF BITMAP_SIZE, m
    <3>5. ~Raised(Zeros(DivCeil(MAX_WINNERS, BITS)), i) BY <1>5, <3>1, NoneRaised
    <3>6. PageBit(i)' <=> Raised(BitmapOf(data'[i \div m]), i % m)
      BY DEF PageBit, BitmapOf, m
    <3> QED BY <1>12, <3>3, <3>4, <3>5, <3>6
  <2>2. \A q \in PageIndex : data'[q] # <<>> => BitmapOf(data[q])' = Zeros(BITMAP_SIZE)
    BY <1>15 DEF BitmapOf
  <2> QED BY <1>12, <2>1, <2>2 DEF Marks
<1>17. EntryAt(n)' = winner
  <2>1. EntryAt(n)' = EntryOf(data'[p], o) BY <1>a, <1>b DEF EntryAt, EntryOf, m
  <2> QED BY <1>4, <1>10, <2>1
<1>18. ASSUME NEW i \in 0..n - 1 PROVE EntryAt(i)' = EntryAt(i)
  <2>1. /\ i \div m \in PageIndex /\ i % m \in 0..m - 1 /\ data[i \div m] # <<>>
    BY <1>6, <1>18, PlaceOf DEF m
  <2>2. EntryAt(i)' = EntryOf(data'[i \div m], i % m) BY DEF EntryAt, EntryOf, m
  <2>3. EntryAt(i) = EntryOf(data[i \div m], i % m) BY DEF EntryAt, m
  <2>4. CASE i \div m = p
    <3>1. i \in Nat /\ i # n BY <1>5, <1>18
    <3>2. i = (i \div m) * m + (i % m) BY <1>8, <3>1
    <3>3. i % m # o
      <4> SUFFICES ASSUME i % m = o PROVE i = n BY <3>1
      <4>1. i = p * m + o BY <2>4, <3>2, Zenon
      <4> QED BY <1>1, <4>1
    <3>4. Opened(p) = data[p] BY <2>1, <2>4 DEF Opened
    <3>5. EntryOf(put, i % m) = EntryOf(data[p], i % m) BY <1>4, <2>1, <3>3, <3>4
    <3> QED BY <1>10, <2>2, <2>3, <2>4, <3>5
  <2>5. CASE i \div m # p BY <1>10, <2>1, <2>2, <2>3, <2>5
  <2> QED BY <2>4, <2>5
<1>19. ASSUME NEW i \in 0..n PROVE ~PaidInLottery(i)'
  <2>1. i \in 0..MAX_WINNERS - 1 BY <1>1, <1>5
  <2>2. ~Raised(Zeros(DivCeil(MAX_WINNERS, BITS)), i) BY <1>5, <2>1, NoneRaised
  <2>3. PaidInLottery(i)' => Raised(paid_winners_bitmap', i)
    BY DEF PaidInLottery, Raised
  <2> QED BY <1>12, <2>2, <2>3
<1> QED BY <1>13, <1>14, <1>16, <1>17, <1>18, <1>19 DEF IInv

(***************************************************************************)
(* An entry is paid.                                                       *)
(***************************************************************************)
(* A payment raises the entry's two bits, changes no entry of the book and *)
(* no bit of another, and keeps the invariant.                             *)
LEMMA PayKeeps ==
  ASSUME IInv, NEW index \in 0..winners_count - 1, PayWinner(index)
  PROVE  /\ IInv'
         /\ \A i \in 0..selected_count - 1 : EntryAt(i)' = EntryAt(i)
         /\ \A i \in 0..selected_count - 1 :
              PaidInLottery(i)' <=> i = index \/ PaidInLottery(i)
<1> DEFINE m == WINNERS_PER_PAGE
<1>a. PICK p : p = index \div m OBVIOUS
<1>b. PICK o : o = index % m OBVIOUS
<1>c. PICK mark : mark = Mark(data[p], o) OBVIOUS
<1>1. TypeOK /\ Filled /\ Marks BY DEF IInv
<1>2. /\ data' = [data EXCEPT ![p] = mark]
      /\ paid_winners_bitmap' = Raise(paid_winners_bitmap, index)
      /\ selected_count' = selected_count /\ winners_count' = winners_count
  BY <1>a, <1>b, <1>c DEF PayWinner, Mark
<1>3. /\ m \in Nat \ {0} /\ MAX_WINNERS \in Nat \ {0}
      /\ selected_count \in 0..MAX_WINNERS /\ winners_count = selected_count
      /\ index \in 0..selected_count - 1 /\ index \in 0..MAX_WINNERS - 1
  BY <1>1, PagesAssumption DEF TypeOK
<1>4. /\ p \in PageIndex /\ o \in 0..m - 1 /\ data[p] # <<>> /\ data[p] \in Page
  BY <1>1, <1>3, <1>a, <1>b, PlaceOf
<1>5. /\ mark \in Page /\ CountField(mark) = CountField(data[p])
      /\ \A r \in 0..m - 1 : EntryOf(mark, r) = EntryOf(data[p], r)
      /\ \A r \in 0..m - 1 :
           Raised(BitmapOf(mark), r) <=> r = o \/ Raised(BitmapOf(data[p]), r)
  BY <1>4, <1>c, MarkIs
<1>6. mark # <<>> BY <1>5, PageNotEmpty
<1>7. data \in [PageIndex -> {<<>>} \cup Page] BY <1>1 DEF TypeOK, Page
<1>8. /\ data' \in [PageIndex -> {<<>>} \cup Page]
      /\ data'[p] = mark /\ \A q \in PageIndex : q # p => data'[q] = data[q]
  BY <1>2, <1>4, <1>5, <1>7
<1>9. /\ paid_winners_bitmap' \in Bitmap(MAX_WINNERS)
      /\ \A j \in 0..MAX_WINNERS - 1 :
           Raised(paid_winners_bitmap', j) <=> j = index \/ Raised(paid_winners_bitmap, j)
  <2>1. paid_winners_bitmap \in Bitmap(MAX_WINNERS) BY <1>1 DEF TypeOK, Bitmap
  <2> QED BY <1>2, <1>3, <2>1, RaisedOnce
<1>10. ASSUME NEW i \in 0..selected_count - 1
       PROVE  /\ i \div m \in PageIndex /\ i % m \in 0..m - 1 /\ i \in 0..MAX_WINNERS - 1
              /\ i \div m = p /\ i % m = o <=> i = index
  <2>1. /\ i \div m \in PageIndex /\ i % m \in 0..m - 1 /\ i \in 0..MAX_WINNERS - 1
    BY <1>1, PlaceOf
  <2>2. i = (i \div m) * m + (i % m) BY <2>1, PageOfIndex
  <2>3. index = p * m + o BY <1>3, <1>a, <1>b, PageOfIndex
  <2>4. ASSUME i \div m = p, i % m = o PROVE i = index
    BY <2>2, <2>3, <2>4, Zenon
  <2> QED BY <1>a, <1>b, <2>1, <2>4, Zenon
<1> HIDE DEF m
<1>11. TypeOK' BY <1>1, <1>2, <1>8, <1>9 DEF TypeOK, Page, Bitmap
<1>12. Filled'
  <2> SUFFICES ASSUME NEW q \in PageIndex
               PROVE  /\ data'[q] = <<>> <=> selected_count' <= q * m
                      /\ data'[q] # <<>> => CountField(data'[q]) = Bytes(EntriesOn(q)', COUNT_BYTES)
    BY DEF Filled, CountField, m
  <2>1. EntriesOn(q)' = EntriesOn(q) BY <1>2 DEF EntriesOn
  <2>2. /\ data[q] = <<>> <=> selected_count <= q * m
        /\ data[q] # <<>> => CountField(data[q]) = Bytes(EntriesOn(q), COUNT_BYTES)
    BY <1>1 DEF Filled, m
  <2>3. CASE q = p BY <1>2, <1>4, <1>5, <1>6, <1>8, <2>1, <2>2, <2>3
  <2>4. CASE q # p BY <1>2, <1>8, <2>1, <2>2, <2>4
  <2> QED BY <2>3, <2>4
<1>13. Marks'
  <2>1. winners_count' # 0 BY <1>2, <1>3
  <2>2. ASSUME NEW i \in 0..winners_count' - 1
        PROVE  PageBit(i)' <=> Raised(paid_winners_bitmap', i)
    <3>1. i \in 0..selected_count - 1 /\ i \in 0..winners_count - 1 BY <1>2, <1>3
    <3>2. /\ i \div m \in PageIndex /\ i % m \in 0..m - 1 /\ i \in 0..MAX_WINNERS - 1
          /\ i \div m = p /\ i % m = o <=> i = index
      BY <1>10, <3>1
    <3>3. PageBit(i) <=> Raised(paid_winners_bitmap, i) BY <1>1, <3>1 DEF Marks
    <3>4. PageBit(i) <=> Raised(BitmapOf(data[i \div m]), i % m) BY DEF PageBit, m
    <3>5. PageBit(i)' <=> Raised(BitmapOf(data'[i \div m]), i % m)
      BY DEF PageBit, BitmapOf, m
    <3>6. Raised(paid_winners_bitmap', i) <=> i = index \/ Raised(paid_winners_bitmap, i)
      BY <1>9, <3>2
    <3>7. CASE i \div m = p
      <4>1. Raised(BitmapOf(mark), i % m) <=> i % m = o \/ Raised(BitmapOf(data[p]), i % m)
        BY <1>5, <3>2
      <4> QED BY <1>8, <3>2, <3>3, <3>4, <3>5, <3>6, <3>7, <4>1
    <3>8. CASE i \div m # p
      <4>1. data'[i \div m] = data[i \div m] BY <1>8, <3>2, <3>8
      <4> QED BY <3>2, <3>3, <3>4, <3>5, <3>6, <3>8, <4>1
    <3> QED BY <3>7, <3>8
  <2> QED BY <2>1, <2>2 DEF Marks
<1>14. ASSUME NEW i \in 0..selected_count - 1 PROVE EntryAt(i)' = EntryAt(i)
  <2>1. i \div m \in PageIndex /\ i % m \in 0..m - 1 BY <1>10
  <2>2. EntryAt(i)' = EntryOf(data'[i \div m], i % m) BY DEF EntryAt, EntryOf, m
  <2>3. EntryAt(i) = EntryOf(data[i \div m], i % m) BY DEF EntryAt, m
  <2>4. CASE i \div m = p BY <1>5, <1>8, <2>1, <2>2, <2>3, <2>4
  <2>5. CASE i \div m # p BY <1>8, <2>1, <2>2, <2>3, <2>5
  <2> QED BY <2>4, <2>5
<1>15. ASSUME NEW i \in 0..selected_count - 1
       PROVE  PaidInLottery(i)' <=> i = index \/ PaidInLottery(i)
  <2>1. i \in 0..MAX_WINNERS - 1 /\ i < winners_count BY <1>3, <1>10
  <2>2. PaidInLottery(i)' <=> Raised(paid_winners_bitmap', i)
    BY <1>2, <2>1 DEF PaidInLottery, Raised
  <2>3. PaidInLottery(i) <=> Raised(paid_winners_bitmap, i) BY <2>1 DEF PaidInLottery
  <2> QED BY <1>9, <2>1, <2>2, <2>3
<1> QED BY <1>11, <1>12, <1>13, <1>14, <1>15 DEF IInv

(***************************************************************************)
(* The theorems.                                                           *)
(***************************************************************************)
(* The invariant holds throughout.                                         *)
LEMMA Invariance == Spec => []IInv
<1>1. IInv /\ [Next]_vars => IInv'
  <2> SUFFICES ASSUME IInv, [Next]_vars PROVE IInv' OBVIOUS
  <2>1. ASSUME NEW winner \in Unrecorded, NEW last \in BOOLEAN, RecordWinner(winner, last)
        PROVE  IInv'
    <3>1. PICK n : n = selected_count OBVIOUS
    <3>2. winner \in Winner BY DEF Unrecorded
    <3> QED BY <2>1, <3>1, <3>2, RecordKeeps
  <2>2. ASSUME NEW index \in 0..winners_count - 1, PayWinner(index) PROVE IInv'
    BY <2>2, PayKeeps
  <2>3. CASE UNCHANGED vars
    <3>1. UNCHANGED <<data, selected_count, winners_count, paid_winners_bitmap>>
      BY <2>3 DEF vars
    <3>2. TypeOK' BY <3>1 DEF IInv, TypeOK
    <3>3. Filled' BY <3>1 DEF IInv, Filled, EntriesOn, CountField
    <3>4. Marks' BY <3>1 DEF IInv, Marks, PageBit, BitmapOf, Raised
    <3> QED BY <3>2, <3>3, <3>4 DEF IInv
  <2> QED BY <2>1, <2>2, <2>3 DEF Next
<1> QED BY <1>1, InitHolds, PTL DEF Spec

(* Pages keep their size and their bytes are bytes, for any page size,     *)
(* widths and number of winners (state/finalization_ledger.rs).            *)
THEOREM PagesTypeCorrect == Spec => []TypeOK
<1>1. IInv => TypeOK BY DEF IInv
<1> QED BY <1>1, Invariance, PTL

(* An entry of the closed book that is not marked in the Lottery account   *)
(* passes every check of a payout batch, whatever was recorded and paid    *)
(* before (settle_payout_batch.rs).                                        *)
THEOREM WinnersStayPayable == Spec => []Payable
<1>1. ASSUME IInv PROVE Payable
  <2> SUFFICES ASSUME NEW index \in 0..winners_count - 1, ~PaidInLottery(index)
               PROVE  MayPay(index)
    BY DEF Payable
  <2> DEFINE p == index \div WINNERS_PER_PAGE
             o == index % WINNERS_PER_PAGE
  <2>1. index < winners_count /\ index \in 0..selected_count - 1
    BY <1>1, PagesAssumption DEF IInv, TypeOK
  <2>2. data[p] # <<>> /\ o < Count(data[p]) BY <1>1, <2>1, PlaceOf DEF IInv
  <2>3. PageBit(index) <=> Raised(paid_winners_bitmap, index)
    BY <1>1 DEF IInv, Marks
  <2>4. ~Raised(paid_winners_bitmap, index) BY <2>1 DEF PaidInLottery
  <2>5. ~PaidOnPage(data[p], o) BY <2>3, <2>4 DEF PaidOnPage, PageBit
  <2> QED BY <2>1, <2>2, <2>5 DEF MayPay
<1> QED BY <1>1, Invariance, PTL

(* Read back from its bytes, the book begins empty.                        *)
LEMMA RegisterInit == Init => Register!Init
<1> SUFFICES ASSUME Init PROVE Register!Init OBVIOUS
<1>1. selected_count = 0 /\ winners_count = 0 BY DEF Init
<1>2. Book = <<>> BY <1>1 DEF Book
<1>3. { k \in 0..selected_count - 1 : PaidInLottery(k) } = {} BY <1>1
<1> QED BY <1>1, <1>2, <1>3 DEF Register!Init

(* A function on 1..n is a sequence of that length.                        *)
LEMMA SequenceIs ==
  ASSUME NEW n \in Nat, NEW b, b = [k \in 1..n |-> b[k]],
         NEW S, \A k \in 1..n : b[k] \in S
  PROVE  b \in Seq(S) /\ Len(b) = n
<1>1. b \in [1..n -> S] OBVIOUS
<1> QED BY <1>1

(* c has the elements of b, which are n, and then e.                       *)
Extends(n, b, c, e) ==
  /\ b = [k \in 1..n |-> b[k]] /\ c = [k \in 1..n + 1 |-> c[k]]
  /\ \A k \in 1..n : c[k] = b[k]
  /\ c[n + 1] = e

(* Then c is b with e appended.                                            *)
LEMMA BookGrows ==
  ASSUME NEW n \in Nat, NEW b, NEW c, NEW e, Extends(n, b, c, e) PROVE c = Append(b, e)
<1> DEFINE S == { b[k] : k \in 1..n } \cup {e}
           a == Append(b, e)
<1>1. e \in S /\ \A k \in 1..n : b[k] \in S OBVIOUS
<1> HIDE DEF S
<1>2. b \in Seq(S) /\ Len(b) = n BY <1>1, SequenceIs DEF Extends
<1>3. /\ a \in Seq(S) /\ Len(a) = n + 1
      /\ \A k \in 1..n : a[k] = b[k]
      /\ a[n + 1] = e
  BY <1>1, <1>2, AppendProperties
<1> HIDE DEF a
<1>4. a \in [1..n + 1 -> S] BY <1>3, LenProperties
<1>5. a = [k \in 1..n + 1 |-> a[k]] BY <1>4
<1>6. \A k \in 1..n + 1 : c[k] = a[k]
  <2> SUFFICES ASSUME NEW k \in 1..n + 1 PROVE c[k] = a[k] OBVIOUS
  <2>1. CASE k \in 1..n BY <1>3, <2>1 DEF Extends
  <2>2. CASE k = n + 1 BY <1>3, <2>2 DEF Extends
  <2> QED BY <2>1, <2>2
<1>7. c = a BY <1>5, <1>6 DEF Extends
<1> QED BY <1>7 DEF a

(* The entries of the register that are paid.                              *)
PaidEntries == { k \in 0..selected_count - 1 : PaidInLottery(k) }

(* Recording a winner is recording it in the register.                     *)
LEMMA RegisterRecord ==
  ASSUME IInv, NEW winner \in Unrecorded, NEW last \in BOOLEAN, RecordWinner(winner, last)
  PROVE  Register!Next
<1>1. PICK n : n = selected_count OBVIOUS
<1>2. winner \in Winner BY DEF Unrecorded
<1>3. /\ EntryAt(n)' = winner /\ \A i \in 0..n - 1 : EntryAt(i)' = EntryAt(i)
      /\ \A i \in 0..n : ~PaidInLottery(i)'
  BY <1>1, <1>2, RecordKeeps
<1>4. /\ winners_count = 0 /\ selected_count' = n + 1
      /\ winners_count' = IF last THEN n + 1 ELSE 0
  BY <1>1 DEF RecordWinner
<1>5. n \in Nat BY <1>1, PagesAssumption DEF IInv, TypeOK
<1>6. Book' = Append(Book, winner)
  <2>1. PICK b : b = Book OBVIOUS
  <2>2. PICK c : c = Book' OBVIOUS
  <2>3. b = [k \in 1..n |-> EntryAt(k - 1)] BY <1>1, <2>1 DEF Book
  <2>4. c = [k \in 1..n + 1 |-> EntryAt(k - 1)'] BY <1>4, <2>2 DEF Book
  <2>5. \A k \in 1..n : c[k] = b[k]
    <3> SUFFICES ASSUME NEW k \in 1..n PROVE c[k] = b[k] OBVIOUS
    <3>1. k - 1 \in 0..n - 1 /\ k \in 1..n + 1 BY <1>5
    <3>2. EntryAt(k - 1)' = EntryAt(k - 1) BY <1>3, <3>1
    <3> QED BY <2>3, <2>4, <3>1, <3>2
  <2>6. c[n + 1] = winner
    <3>1. n + 1 \in 1..n + 1 /\ (n + 1) - 1 = n BY <1>5
    <3>2. c[n + 1] = EntryAt((n + 1) - 1)' BY <2>4, <3>1
    <3>3. EntryAt((n + 1) - 1)' = EntryAt(n)' BY <3>1
    <3> QED BY <1>3, <3>2, <3>3
  <2>7. b = [k \in 1..n |-> b[k]] /\ c = [k \in 1..n + 1 |-> c[k]] BY <2>3, <2>4
  <2>8. Extends(n, b, c, winner) BY <2>5, <2>6, <2>7 DEF Extends
  <2>9. c = Append(b, winner) BY <1>5, <2>8, BookGrows
  <2> QED BY <2>1, <2>2, <2>9
<1>7. PaidEntries = {} BY <1>4, <1>5 DEF PaidEntries, PaidInLottery, IInv, TypeOK
<1>8. PaidEntries' = {}
  <2>1. PaidEntries' = { k \in 0..n : PaidInLottery(k)' }
    <3>1. selected_count' - 1 = n BY <1>4, <1>5
    <3> QED BY <3>1 DEF PaidEntries
  <2> QED BY <1>3, <2>1
<1>9. CASE last
  <2>1. winners_count' # 0 BY <1>4, <1>5, <1>9
  <2>2. Register!RecordLast(winner)
    BY <1>4, <1>6, <1>7, <1>8, <2>1 DEF Register!RecordLast, PaidEntries
  <2> QED BY <1>2, <2>2 DEF Register!Next
<1>10. CASE ~last
  <2>1. ~(winners_count' # 0) BY <1>4, <1>10
  <2>2. Register!Record(winner)
    BY <1>4, <1>6, <1>7, <1>8, <2>1 DEF Register!Record, PaidEntries
  <2> QED BY <1>2, <2>2 DEF Register!Next
<1> QED BY <1>9, <1>10

(* Paying an entry is paying it in the register.                           *)
LEMMA RegisterPay ==
  ASSUME IInv, NEW index \in 0..winners_count - 1, PayWinner(index)
  PROVE  Register!Next
<1>1. PICK n : n = selected_count OBVIOUS
<1>2. /\ \A i \in 0..n - 1 : EntryAt(i)' = EntryAt(i)
      /\ \A i \in 0..n - 1 : PaidInLottery(i)' <=> i = index \/ PaidInLottery(i)
  BY <1>1, PayKeeps
<1>3. /\ selected_count' = n /\ winners_count' = winners_count /\ ~PaidInLottery(index)
  BY <1>1 DEF PayWinner, MayPay
<1>4. n \in Nat /\ winners_count = n /\ winners_count # 0 /\ index \in 0..n - 1
  BY <1>1, PagesAssumption DEF IInv, TypeOK
<1>5. Book' = Book
  <2>1. Book = [k \in 1..n |-> EntryAt(k - 1)] BY <1>1 DEF Book
  <2>2. Book' = [k \in 1..n |-> EntryAt(k - 1)'] BY <1>3 DEF Book
  <2>3. \A k \in 1..n : EntryAt(k - 1)' = EntryAt(k - 1)
    <3> SUFFICES ASSUME NEW k \in 1..n PROVE EntryAt(k - 1)' = EntryAt(k - 1) OBVIOUS
    <3>1. k - 1 \in 0..n - 1 BY <1>4
    <3> QED BY <1>2, <3>1
  <2> QED BY <2>1, <2>2, <2>3
<1>6. Len(Book) = n
  <2>1. PICK b : b = Book OBVIOUS
  <2>2. b = [k \in 1..n |-> EntryAt(k - 1)] BY <1>1, <2>1 DEF Book
  <2>3. PICK S : S = { b[k] : k \in 1..n } OBVIOUS
  <2>4. b = [k \in 1..n |-> b[k]] BY <2>2
  <2>5. \A k \in 1..n : b[k] \in S BY <2>3
  <2>6. Len(b) = n BY <1>4, <2>4, <2>5, SequenceIs
  <2> QED BY <2>1, <2>6
<1>7. PaidEntries' = PaidEntries \cup {index}
  <2>1. PaidEntries' = { k \in 0..n - 1 : PaidInLottery(k)' } BY <1>3 DEF PaidEntries
  <2>2. PaidEntries = { k \in 0..n - 1 : PaidInLottery(k) } BY <1>1 DEF PaidEntries
  <2> QED BY <1>2, <1>4, <2>1, <2>2
<1>8. index \notin PaidEntries BY <1>3 DEF PaidEntries
<1>9. Register!Pay(index)
  BY <1>3, <1>4, <1>5, <1>6, <1>7, <1>8 DEF Register!Pay, PaidEntries
<1> QED BY <1>4, <1>6, <1>9 DEF Register!Next

(* Every step is one of the register, or none.                             *)
LEMMA RegisterNext == IInv /\ [Next]_vars => [Register!Next]_(Register!vars)
<1> SUFFICES ASSUME IInv, [Next]_vars PROVE [Register!Next]_(Register!vars) OBVIOUS
<1>1. ASSUME NEW winner \in Unrecorded, NEW last \in BOOLEAN, RecordWinner(winner, last)
      PROVE  Register!Next
  BY <1>1, RegisterRecord
<1>2. ASSUME NEW index \in 0..winners_count - 1, PayWinner(index) PROVE Register!Next
  BY <1>2, RegisterPay
<1>3. CASE UNCHANGED vars
  <2>1. UNCHANGED <<data, selected_count, winners_count, paid_winners_bitmap>>
    BY <1>3 DEF vars
  <2>2. Book' = Book BY <2>1 DEF Book, EntryAt, EntryOf
  <2>3. PaidEntries' = PaidEntries BY <2>1 DEF PaidEntries, PaidInLottery, Raised
  <2> QED BY <2>1, <2>2, <2>3 DEF Register!vars, PaidEntries
<1> QED BY <1>1, <1>2, <1>3 DEF Next

(* The pages, read back from their bytes, and the bitmap of the Lottery    *)
(* account are a register: entries stay as they were recorded and each is  *)
(* marked once, for pages of any size, fields of any width and any number  *)
(* of winners (state/finalization_ledger.rs, state/lottery.rs).            *)
THEOREM PagesImplementRegister == Spec => ImplementsRegister
<1> QED BY RegisterInit, RegisterNext, Invariance, PTL
        DEF Spec, ImplementsRegister, Register!Spec

===============================================================================
