----------------------------- MODULE RoundBookProofs ---------------------------
(***************************************************************************)
(* The books of a round are right, for any set of wallets, any price, cap  *)
(* and windows, and any cut of FinalizeWinners into chunks: the counters   *)
(* of the Lottery account, the seed, the tickets a pass has seen, the      *)
(* winner pages, and the number of winners voted for.                      *)
(*                                                                         *)
(* None of these is inductive alone. A pass is right because the pool it   *)
(* walks is the one that was aggregated, which holds because indexes are   *)
(* dense and tickets are frozen; a draw finds a winner because the tickets *)
(* of the candidates, laid end to end, cover every number below their sum  *)
(* (CoverExists), and finds only one (CoverUnique); the book holds         *)
(* distinct winners because a winner is flagged while it is pending and no *)
(* candidate is flagged. Book puts these together with the invariant of    *)
(* RoundSafetyProofs.                                                      *)
(*                                                                         *)
(* The same books show that a round implements WeightedDraw, which draws a *)
(* winner in one step, from the whole pool; the code walks the pool in     *)
(* chunks and closes the walk with a second condition. The two meet in     *)
(* PendingCovers: the wallet a chunk finds covers the draw among all       *)
(* wallets not yet drawn, not only among those seen so far. The rest is    *)
(* that the pool is that of the included wallets, that the entries of the  *)
(* book tell apart the wallets they stand for, and that the tickets        *)
(* WeightedDraw adds up over entries are those the ledger adds up over     *)
(* wallets (DrawTickets).                                                  *)
(*                                                                         *)
(* Votes adds to Book what the tally holds; with it, remediation is shown  *)
(* to stay open while a reveal is missing.                                 *)
(***************************************************************************)
EXTENDS RoundSafetyProofs, SumLemmas

(* Tickets of each wallet, as the function the sums are taken of.          *)
Held == [w \in Wallet |-> participant[w].tickets_bought]

(* Participants are those with tickets; their indexes are distinct and     *)
(* dense; the counters of the Lottery account are the counts and sums they *)
(* stand for.                                                              *)
Enrolled ==
  /\ \A w \in Wallet : w \in Buyers <=> participant[w].tickets_bought > 0
  /\ \A v, w \in Buyers :
       participant[v].participant_index = participant[w].participant_index => v = w
  /\ lottery.participants_count = Cardinality(Buyers)
  /\ { participant[w].participant_index : w \in Buyers }
       = 0..lottery.participants_count - 1
  /\ lottery.total_tickets = SumOver(Held, Buyers)
  /\ lottery.total_funds = TicketPrice * lottery.total_tickets

(* The aggregate of the reveals is the set of the included wallets, or,    *)
(* for a sole participant, the mark that mark_uploads_complete leaves.     *)
Revealed ==
  /\ Attested \subseteq Buyers
  /\ lottery.poc_aggregate_hash \ {NoWallet} = Included
  /\ NoWallet \in lottery.poc_aggregate_hash =>
       lottery.participants_count = 1 /\ lottery.uploads_complete

(* Participant accounts are closed only after the round is settled.        *)
StaysOpen ==
  /\ lottery.settlement_complete => lottery.settled
  /\ ~lottery.settled => \A w \in Wallet : participant[w].status # "closed"

(* The pool entries of a set of wallets.                                   *)
PoolOf(S) == { [ index   |-> participant[w].participant_index,
                 wallet  |-> w,
                 tickets |-> participant[w].tickets_bought ] : w \in S }

(* Included wallets that a pass has left behind at a cursor.               *)
Passed(cursor) == Included \cap Before(cursor)

(* What the ledger holds is what a pass up to its cursor would find; once  *)
(* frozen, the seed holds that for the whole pool.                         *)
Aggregation ==
  /\ root.phase = "absent" => root = NewLedger("absent", 0)
  /\ root.phase # "absent" =>
       /\ root.required_count = lottery.participants_count
       /\ root.eligible_count = Cardinality(Passed(root.processed_count))
       /\ root.total_eligible_tickets = SumOver(Held, Passed(root.processed_count))
       /\ root.participants_commitment = PoolOf(Passed(root.processed_count))
  /\ ~Frozen => root.target_winners = 0 /\ root.selected_count = 0 /\ root.selected_tickets_total = 0
  /\ Frozen =>
       /\ root.processed_count = root.required_count
       /\ root.target_winners \in 1..MaxWinners
       /\ root.seed = [ eligible  |-> root.eligible_count,
                        tickets   |-> root.total_eligible_tickets,
                        aggregate |-> Included,
                        pool      |-> root.participants_commitment ]

(* The winner book is filled without gaps, with distinct included wallets  *)
(* and all their tickets, and the selected flags are those of the winners  *)
(* booked and of the one pending.                                          *)
Booked ==
  /\ root.selected_count <= root.target_winners
  /\ \A p \in PageIndex :
       Len(pages[p].entries)
         = AtLeast(AtMost(root.selected_count - p * WINNERS_PER_PAGE, WINNERS_PER_PAGE), 0)
  /\ \A i \in 0..root.selected_count - 1 :
       /\ EntryAt(i).wallet \in Included
       /\ EntryAt(i).tickets = participant[EntryAt(i).wallet].tickets_bought
  /\ \A i, j \in 0..root.selected_count - 1 : EntryAt(i).wallet = EntryAt(j).wallet => i = j
  /\ root.selected_tickets_total = SumOver(Held, Recorded)
  /\ { w \in Wallet : participant[w].selected }
       = Recorded \cup IF root.phase = "selecting" THEN Pending ELSE {}
  /\ root.phase = "completed" => /\ root.selected_count = root.target_winners
                                 /\ lottery.winners_count = root.target_winners
  /\ root.phase # "completed" => lottery.winners_count = 0

(* In the middle of a pass, tickets seen and the pending winner are those  *)
(* of the candidates passed.                                               *)
Drawing ==
  root.phase = "selecting" =>
    LET passed == Passed(root.round_processed_count) \ Recorded
    IN  /\ root.selected_count < root.target_winners
        /\ root.round_draw_index < RemainingTickets(root)
        /\ root.round_remaining_tickets_seen = SumOver(Held, passed)
        /\ root.pending_winner_found <=>
             root.round_draw_index < root.round_remaining_tickets_seen
        /\ root.pending_winner_found =>
             /\ root.pending_winner \in passed
             /\ root.pending_winner_tickets = participant[root.pending_winner].tickets_bought

(* What the books say of the draw.                                         *)
Draws == Aggregation /\ Booked /\ Drawing

(* What the books say of enrolment, reveals, and draw.                     *)
Books == Enrolled /\ Revealed /\ StaysOpen /\ Draws

(* The inductive invariant: the invariant of RoundSafetyProofs and the     *)
(* books.                                                                  *)
Book == Safe /\ Books

(***************************************************************************)
(* Sums, sets of wallets, and steps that leave the books alone.            *)
(***************************************************************************)
(* TicketsOf is a sum of Held.                                             *)
LEMMA TicketsSum == \A S \in SUBSET Wallet : TicketsOf(S) = SumOver(Held, S)
<1> SUFFICES ASSUME NEW S \in SUBSET Wallet PROVE TicketsOf(S) = SumOver(Held, S)
  OBVIOUS
<1> DEFINE P(iter) == iter = [s \in SUBSET S |->
      IF s = {} THEN 0
      ELSE LET x == CHOOSE x \in s : TRUE IN participant[x].tickets_bought + iter[s \ {x}]]
<1>1. TicketsOf(S) = (CHOOSE iter : P(iter))[S]
  BY DEF TicketsOf, MapThenSumSet, MapThenFoldSet
<1>2. IsFiniteSet(S) BY FS_Subset, RoundAssumption
<1>3. \A iter : P(iter) <=> IsSum(iter, Held, S)
  <2> SUFFICES ASSUME NEW iter PROVE P(iter) <=> IsSum(iter, Held, S) OBVIOUS
  <2>1. \A s \in SUBSET S : s # {} => Held[FirstOf(s)] = participant[FirstOf(s)].tickets_bought
    BY FirstOfIn DEF Held
  <2> QED BY <2>1 DEF IsSum, Unfolded, FirstOf
<1>4. PICK g : IsSum(g, Held, S) /\ SumOver(Held, S) = g[S] BY <1>2, SumOverIsSum
<1> DEFINE G == CHOOSE iter : P(iter)
<1>5. P(G)
  <2>1. P(g) BY <1>3, <1>4
  <2> HIDE DEF P
  <2> QED BY <2>1
<1>6. IsSum(G, Held, S) BY <1>3, <1>5
<1>7. G[S] = g[S] BY <1>2, <1>4, <1>6, SumUnique
<1> QED BY <1>1, <1>4, <1>7

(* Sets of wallets are finite.                                             *)
LEMMA WalletsFinite ==
  ASSUME NEW S \in SUBSET Wallet
  PROVE  IsFiniteSet(S) /\ Cardinality(S) \in Nat
  BY FS_Subset, FS_CardinalityType, RoundAssumption

(* Tickets held are naturals.                                              *)
LEMMA HeldType == ASSUME TypeOK PROVE \A w \in Wallet : Held[w] \in Nat
  BY RoundAssumption DEF TypeOK, ParticipantAccount, U64, Held

(* The sets of participants are sets of wallets.                           *)
LEMMA BuyersAreWallets ==
  /\ Buyers \in SUBSET Wallet /\ Attested \in SUBSET Wallet /\ Included \in SUBSET Wallet
  /\ \A c : Passed(c) \in SUBSET Wallet
  BY DEF Buyers, Attested, Included, Passed

(* A step that sells nothing.                                              *)
SameEnrollment ==
  /\ lottery'.participants_count = lottery.participants_count
  /\ lottery'.total_tickets = lottery.total_tickets
  /\ lottery'.total_funds = lottery.total_funds
  /\ \A w \in Wallet :
       /\ participant'[w].status = "none" <=> participant[w].status = "none"
       /\ participant'[w].tickets_bought = participant[w].tickets_bought
       /\ participant'[w].participant_index = participant[w].participant_index

(* Such a step keeps the enrolment.                                        *)
LEMMA EnrolledKept ==
  ASSUME Enrolled, SameEnrollment
  PROVE  Enrolled' /\ Buyers' = Buyers /\ Held' = Held
<1>1. Buyers' = Buyers BY DEF SameEnrollment, Buyers
<1>2. Held' = Held BY DEF SameEnrollment, Held
<1>3. { participant'[w].participant_index : w \in Buyers }
        = { participant[w].participant_index : w \in Buyers }
  BY BuyersAreWallets DEF SameEnrollment
<1>4. \A v, w \in Buyers :
        participant'[v].participant_index = participant'[w].participant_index => v = w
  BY BuyersAreWallets DEF Enrolled, SameEnrollment
<1> QED BY <1>1, <1>2, <1>3, <1>4 DEF Enrolled, SameEnrollment

(* A step that attests and uploads nothing.                                *)
SameRevealed ==
  /\ lottery'.poc_aggregate_hash = lottery.poc_aggregate_hash
  /\ lottery.uploads_complete => lottery'.uploads_complete
  /\ \A w \in Wallet :
       /\ participant'[w].attested_uploaded = participant[w].attested_uploaded
       /\ participant'[w].reveal_included = participant[w].reveal_included

(* Such a step keeps the reveals.                                          *)
LEMMA RevealedKept ==
  ASSUME Enrolled, Revealed, SameEnrollment, SameRevealed
  PROVE  Revealed' /\ Attested' = Attested /\ Included' = Included
<1>1. Attested' = Attested /\ Included' = Included BY SameFlags DEF SameRevealed
<1>2. Buyers' = Buyers BY EnrolledKept
<1> QED BY <1>1, <1>2 DEF Revealed, SameRevealed, SameEnrollment

(* A step that leaves the ledger, the entries of the book and what they    *)
(* speak of alone.                                                         *)
SameDraws ==
  /\ root' = root
  /\ \A p \in PageIndex : pages'[p].entries = pages[p].entries
  /\ lottery'.participants_count = lottery.participants_count
  /\ lottery'.winners_count = lottery.winners_count
  /\ \A w \in Wallet :
       /\ participant'[w].reveal_included = participant[w].reveal_included
       /\ participant'[w].tickets_bought = participant[w].tickets_bought
       /\ participant'[w].participant_index = participant[w].participant_index
       /\ participant'[w].selected = participant[w].selected

(* Division by a positive number is monotone.                              *)
LEMMA DivMonotone ==
  ASSUME NEW i \in Nat, NEW j \in Nat, NEW n \in Nat \ {0}, i <= j
  PROVE  i \div n \in Nat /\ j \div n \in Nat /\ i \div n <= j \div n
  OBVIOUS

(* Quotient and remainder.                                                 *)
LEMMA DivMod ==
  ASSUME NEW i \in Nat, NEW n \in Nat \ {0}
  PROVE  /\ i \div n \in Nat /\ i % n \in 0..n - 1
         /\ i = (i \div n) * n + (i % n)
  OBVIOUS

(* There is only one quotient and one remainder.                           *)
LEMMA DivUnique ==
  ASSUME NEW n \in Nat \ {0}, NEW q \in Nat, NEW r \in 0..n - 1
  PROVE  (q * n + r) \div n = q /\ (q * n + r) % n = r
<1> DEFINE i == q * n + r
           d == i \div n
           m == i % n
<1>1. i \in Nat
  <2>1. q * n \in Nat OBVIOUS
  <2> QED BY <2>1
<1>2. d \in Nat /\ m \in 0..n - 1 /\ i = d * n + m BY <1>1, DivMod
<1>3. q * n + r = d * n + m BY <1>2
<1> HIDE DEF d, m
<1>4. d = q
  <2>1. \A a, b \in Nat : a < b => a * n + n <= b * n
    <3> SUFFICES ASSUME NEW a \in Nat, NEW b \in Nat, a < b PROVE a * n + n <= b * n
      OBVIOUS
    <3>1. (a + 1) * n <= b * n OBVIOUS
    <3>2. (a + 1) * n = a * n + n OBVIOUS
    <3> QED BY <3>1, <3>2
  <2>2. \A a \in Nat : a * n \in Nat OBVIOUS
  <2>3. ~(d < q) BY <1>2, <1>3, <2>1, <2>2
  <2>4. ~(q < d) BY <1>2, <1>3, <2>1, <2>2
  <2> QED BY <1>2, <2>3, <2>4
<1>5. m = r
  <2>1. q * n \in Nat OBVIOUS
  <2> QED BY <1>2, <1>3, <1>4, <2>1
<1> QED BY <1>4, <1>5 DEF d, m

(* No round has more winners than the cap.                                 *)
LEMMA MaxWinnersBound ==
  ASSUME TypeOK
  PROVE  MaxWinners \in 1..MaxWinnersCap
  BY RoundAssumption
  DEF TypeOK, LotteryAccount, U64, MaxWinners, EffectiveMaxWinners, AtMost, AtLeast, MAX_WINNERS

(* Every entry of the book has a page that exists, and its place           *)
(* determines its index.                                                   *)
LEMMA PagesInRange ==
  ASSUME TypeOK, Aggregation, Booked
  PROVE  /\ root.selected_count \in 0..MaxWinnersCap
         /\ \A i \in 0..MaxWinnersCap - 1 :
              /\ PageOf(i) \in PageIndex
              /\ OffsetOf(i) \in 0..WINNERS_PER_PAGE - 1
              /\ i = PageOf(i) * WINNERS_PER_PAGE + OffsetOf(i)
<1>1. root.selected_count \in 0..MaxWinnersCap
  <2>1. root.selected_count \in Nat /\ root.target_winners \in Nat
    BY DEF TypeOK, FinalizationLedger
  <2>2. root.target_winners <= MaxWinnersCap
    BY MaxWinnersBound, RoundAssumption DEF Aggregation
  <2> QED BY <2>1, <2>2, RoundAssumption DEF Booked
<1>2. WINNERS_PER_PAGE \in Nat \ {0} /\ MaxWinnersCap \in Nat \ {0}
  BY RoundAssumption DEF MAX_WINNERS
<1>3. ASSUME NEW i \in 0..MaxWinnersCap - 1
      PROVE  /\ PageOf(i) \in PageIndex
             /\ OffsetOf(i) \in 0..WINNERS_PER_PAGE - 1
             /\ i = PageOf(i) * WINNERS_PER_PAGE + OffsetOf(i)
  <2>1. i \in Nat /\ MaxWinnersCap - 1 \in Nat /\ i <= MaxWinnersCap - 1 BY <1>2
  <2> DEFINE last == (MaxWinnersCap - 1) \div WINNERS_PER_PAGE
  <2>2. PageOf(i) \in Nat /\ last \in Nat /\ PageOf(i) <= last
    BY <1>2, <2>1, DivMonotone DEF PageOf
  <2>3. /\ OffsetOf(i) \in 0..WINNERS_PER_PAGE - 1
        /\ i = PageOf(i) * WINNERS_PER_PAGE + OffsetOf(i)
    BY <1>2, <2>1, DivMod DEF PageOf, OffsetOf
  <2>4. PageIndex = 0..last BY DEF PageIndex
  <2> HIDE DEF last
  <2>5. PageOf(i) \in PageIndex BY <2>2, <2>4
  <2> QED BY <2>3, <2>5
<1> QED BY <1>1, <1>3

(* Entries that stay where they are record the same winners.               *)
LEMMA RecordedKept ==
  ASSUME TypeOK, Aggregation, Booked, SameDraws
  PROVE  /\ \A i \in 0..root.selected_count - 1 : EntryAt(i)' = EntryAt(i)
         /\ Recorded' = Recorded
<1>1. root.selected_count \in 0..MaxWinnersCap BY PagesInRange
<1>2. \A i \in 0..root.selected_count - 1 : PageOf(i) \in PageIndex
  BY <1>1, PagesInRange, RoundAssumption DEF MAX_WINNERS
<1>3. \A i \in 0..root.selected_count - 1 : EntryAt(i)' = EntryAt(i)
  BY <1>2 DEF SameDraws, EntryAt
<1>4. Recorded' = { EntryAt(i)'.wallet : i \in 0..root.selected_count - 1 }
  BY DEF Recorded, SameDraws
<1> QED BY <1>3, <1>4 DEF Recorded

(* A step that leaves the draw alone keeps what the books say of it.       *)
LEMMA DrawsKept ==
  ASSUME TypeOK, Draws, SameDraws
  PROVE  Draws' /\ Recorded' = Recorded
<1> USE DEF Draws
<1>1. Recorded' = Recorded /\ \A i \in 0..root.selected_count - 1 : EntryAt(i)' = EntryAt(i)
  BY RecordedKept
<1>2. Held' = Held /\ Included' = Included BY DEF SameDraws, Held, Included
<1>3. MaxWinners' = MaxWinners BY DEF SameDraws, MaxWinners
<1>4. \A c : Passed(c)' = Passed(c)
  <2> SUFFICES ASSUME NEW c PROVE Passed(c)' = Passed(c) OBVIOUS
  <2>1. Before(c)' = Before(c) BY DEF SameDraws, Before
  <2> QED BY <1>2, <2>1 DEF Passed
<1>5. \A c : PoolOf(Passed(c))' = PoolOf(Passed(c))
  <2> SUFFICES ASSUME NEW c PROVE PoolOf(Passed(c))' = PoolOf(Passed(c)) OBVIOUS
  <2>1. Passed(c)' = Passed(c) /\ Passed(c) \subseteq Wallet BY <1>4, BuyersAreWallets
  <2> QED BY <2>1 DEF PoolOf, SameDraws
<1>6. Aggregation'
  BY <1>2, <1>3, <1>4, <1>5 DEF Aggregation, SameDraws, Frozen
<1>7. Booked'
  <2>1. \A i \in 0..root.selected_count - 1 :
          /\ EntryAt(i)'.wallet \in Included'
          /\ EntryAt(i)'.tickets = participant'[EntryAt(i)'.wallet].tickets_bought
    BY <1>1, <1>2, BuyersAreWallets DEF Booked, SameDraws
  <2>2. { w \in Wallet : participant'[w].selected } = { w \in Wallet : participant[w].selected }
    BY DEF SameDraws
  <2>3. Pending' = Pending BY DEF SameDraws, Pending
  <2> QED BY <1>1, <1>2, <2>1, <2>2, <2>3 DEF Booked, SameDraws
<1>8. Drawing'
  <2>1. Passed(root.round_processed_count)' = Passed(root.round_processed_count)
    BY <1>4 DEF SameDraws
  <2>2. RemainingTickets(root)' = RemainingTickets(root) BY DEF SameDraws, RemainingTickets
  <2>3. Passed(root.round_processed_count) \subseteq Wallet BY BuyersAreWallets
  <2> QED BY <1>1, <1>2, <2>1, <2>2, <2>3 DEF Drawing, SameDraws
<1> QED BY <1>1, <1>6, <1>7, <1>8

(* So does a step before the draw, whatever it does to the participants.   *)
LEMMA NoDrawYet ==
  ASSUME TypeOK, Draws, root.phase = "absent", root' = root, pages' = pages,
         lottery'.winners_count = lottery.winners_count,
         \A w \in Wallet : participant'[w].selected => participant[w].selected
  PROVE  Draws'
<1> USE DEF Draws
<1>1. /\ root = NewLedger("absent", 0) /\ root' = NewLedger("absent", 0)
      /\ root.selected_count = 0 /\ root.target_winners = 0
      /\ root.selected_tickets_total = 0 /\ ~Frozen
  BY DEF Aggregation, NewLedger, Frozen
<1>2. Recorded = {} /\ Recorded' = {} BY <1>1 DEF Recorded
<1>3. \A w \in Wallet : ~participant[w].selected /\ ~participant'[w].selected
  BY <1>1, <1>2 DEF Booked
<1>4. Aggregation' BY <1>1 DEF Aggregation, Frozen
<1>5. SumOver(Held', Recorded') = 0 BY <1>2, SumEmpty
<1>6. Booked' BY <1>1, <1>2, <1>3, <1>5 DEF Booked
<1>7. Drawing' BY <1>1 DEF Drawing
<1> QED BY <1>4, <1>6, <1>7

(* A step that leaves all of it alone keeps the books.                     *)
LEMMA BooksKept ==
  ASSUME TypeOK, Books, SameEnrollment, SameRevealed, SameDraws, StaysOpen'
  PROVE  Books'
<1>1. Enrolled' BY EnrolledKept DEF Books
<1>2. Revealed' BY RevealedKept DEF Books
<1>3. Draws' BY DrawsKept DEF Books
<1> QED BY <1>1, <1>2, <1>3 DEF Books

(***************************************************************************)
(* The instructions before the draw, and those after it.                   *)
(***************************************************************************)
(* The clock keeps the books.                                              *)
LEMMA BookTick == ASSUME Book, Tick PROVE Books'
<1>1. UNCHANGED <<lottery, participant, root, pages>> BY DEF Tick
<1>2. SameEnrollment /\ SameRevealed /\ SameDraws
  BY <1>1 DEF SameEnrollment, SameRevealed, SameDraws
<1>3. StaysOpen' BY <1>1 DEF Book, Books, StaysOpen
<1> QED BY <1>2, <1>3, BooksKept DEF Book, Safe, TypeInv

(* Distributivity, which the provers do not find inside larger goals.      *)
LEMMA Distribute ==
  ASSUME NEW a \in Nat, NEW b \in Nat, NEW c \in Nat
  PROVE  a * (b + c) = a * b + a * c /\ a * b \in Nat
  OBVIOUS

(* A purchase keeps the books: a new participant takes the next index, and *)
(* tickets and price are added on both sides.                              *)
LEMMA BookBuyTickets ==
  ASSUME Book, NEW w \in Wallet, NEW count \in Nat \ {0}, BuyTickets(w, count)
  PROVE  Books'
<1> DEFINE first   == ~Exists(w)
           account == IF first
                      THEN NewParticipant("open", lottery.participants_count)
                      ELSE participant[w]
           tickets == account.tickets_bought + count
           buyers  == lottery.participants_count + (IF first THEN 1 ELSE 0)
           total   == lottery.total_tickets + count
           funds   == lottery.total_funds + TicketPrice * count
           n       == lottery.participants_count
<1>1. /\ ~UploadStarted /\ ~lottery.settled
      /\ participant' = [participant EXCEPT
           ![w] = [account EXCEPT !.tickets_bought = tickets]]
      /\ lottery' = [lottery EXCEPT !.participants_count = buyers,
                                    !.total_tickets      = total,
                                    !.total_funds        = funds]
      /\ UNCHANGED <<now, tally, root, pages, received>>
  BY DEF BuyTickets, InBuyWindow
<1>2. /\ Attested = {} /\ Included = {} /\ ~lottery.uploads_complete /\ root.phase = "absent"
  BY <1>1, NothingBeforeUpload DEF Book, Safe, TypeInv
<1>3. TypeOK BY DEF Book, Safe, TypeInv
<1>4. /\ n \in Nat /\ lottery.total_tickets \in Nat /\ lottery.total_funds \in Nat
      /\ TicketPrice \in Nat
  BY <1>3, RoundAssumption DEF TypeOK, LotteryAccount, U64
<1>5. w \in Buyers <=> ~first
  BY <1>1, <1>3
  DEF Book, Books, StaysOpen, Exists, Buyers, TypeOK, ParticipantAccount
<1>6. account \in ParticipantAccount
  BY <1>3, RoundAssumption DEF TypeOK, NewParticipant, ParticipantAccount, LotteryAccount, U64
<1>7. /\ account.status = "open"
      /\ account.participant_index = IF first THEN n ELSE participant[w].participant_index
      /\ account.tickets_bought = Held[w]
      /\ account.attested_uploaded = FALSE /\ account.reveal_included = FALSE
      /\ account.selected => participant[w].selected
  <2>1. CASE first
    <3>1. participant[w].tickets_bought = 0
      BY <1>3, <1>5, <2>1, RoundAssumption
      DEF Book, Books, Enrolled, TypeOK, ParticipantAccount, U64
    <3> QED BY <2>1, <3>1 DEF NewParticipant, Held
  <2>2. CASE ~first
    BY <1>2, <2>2 DEF Exists, Attested, Included, Held
  <2> QED BY <2>1, <2>2
<1>8. tickets \in Nat /\ tickets = Held[w] + count /\ tickets > 0
  BY <1>3, <1>7, HeldType
<1> HIDE DEF account, tickets, first
<1>9. /\ participant'[w].status = "open"
      /\ participant'[w].participant_index
           = IF first THEN n ELSE participant[w].participant_index
      /\ participant'[w].tickets_bought = tickets
      /\ ~participant'[w].attested_uploaded /\ ~participant'[w].reveal_included
      /\ participant'[w].selected => participant[w].selected
      /\ \A v \in Wallet \ {w} : participant'[v] = participant[v]
  BY <1>1, <1>3, <1>6, <1>7 DEF TypeOK, ParticipantAccount
<1>10. /\ lottery'.participants_count = buyers
       /\ lottery'.total_tickets = total /\ lottery'.total_funds = funds
       /\ lottery'.settled = lottery.settled
       /\ lottery'.settlement_complete = lottery.settlement_complete
       /\ lottery'.uploads_complete = lottery.uploads_complete
       /\ lottery'.poc_aggregate_hash = lottery.poc_aggregate_hash
       /\ lottery'.winners_count = lottery.winners_count
  BY <1>1, <1>3 DEF TypeOK, LotteryAccount
<1>11. Buyers' = Buyers \cup {w} BY <1>9 DEF Buyers
<1>12. Attested' = {} /\ Included' = {} BY <1>2, <1>9 DEF Attested, Included
<1>13. IsFiniteSet(Buyers) /\ Buyers \subseteq Wallet BY BuyersAreWallets, WalletsFinite
<1>14. SumOver(Held', Buyers') = total
  <2>1. /\ Held'[w] = tickets /\ Held[w] \in Nat
        /\ \A v \in Buyers \ {w} : Held'[v] = Held[v]
        /\ \A v \in Buyers : Held[v] \in Nat
    BY <1>3, <1>9, <1>13, HeldType DEF Held
  <2> HIDE DEF total
  <2>2. CASE w \in Buyers
    <3>1. SumOver(Held', Buyers) + Held[w] = SumOver(Held, Buyers) + Held'[w]
      BY <1>8, <1>13, <2>1, <2>2, SumUpdate
    <3>2. SumOver(Held, Buyers) \in Nat BY <1>13, <2>1, SumNat
    <3>3. \A v \in Buyers : Held'[v] \in Nat BY <1>8, <2>1
    <3>4. SumOver(Held', Buyers) \in Nat BY <1>13, <3>3, SumNat
    <3>5. SumOver(Held', Buyers') = SumOver(Held', Buyers)
      <4>1. Buyers' = Buyers BY <1>11, <2>2
      <4> QED BY <4>1, Zenon
    <3> QED BY <1>8, <2>1, <3>1, <3>2, <3>4, <3>5 DEF total, Book, Books, Enrolled
  <2>3. CASE w \notin Buyers
    <3>1. SumOver(Held', Buyers) = SumOver(Held, Buyers) BY <1>13, <2>1, <2>3, SumSame
    <3>2. \A v \in Buyers : Held'[v] \in Nat BY <2>1, <2>3
    <3>3. Held[w] = 0
      <4>1. ~(participant[w].tickets_bought > 0) BY <2>3 DEF Book, Books, Enrolled
      <4> QED BY <2>1, <4>1 DEF Held
    <3>4. SumOver(Held', Buyers \cup {w}) = SumOver(Held', Buyers) + Held'[w]
      BY <1>8, <1>13, <2>1, <2>3, <3>2, SumAdd
    <3>5. SumOver(Held', Buyers') = SumOver(Held', Buyers \cup {w}) BY <1>11, Zenon
    <3>6. SumOver(Held, Buyers) \in Nat BY <1>13, <2>1, SumNat
    <3> QED BY <1>8, <2>1, <3>1, <3>3, <3>4, <3>5, <3>6 DEF total, Book, Books, Enrolled
  <2> QED BY <2>2, <2>3
<1>15. lottery'.total_funds = TicketPrice * lottery'.total_tickets
  BY <1>4, <1>10, Distribute DEF Book, Books, Enrolled
<1>16. lottery'.participants_count = Cardinality(Buyers')
  <2>1. Cardinality(Buyers \cup {w})
          = IF w \in Buyers THEN Cardinality(Buyers) ELSE Cardinality(Buyers) + 1
    BY <1>13, FS_AddElement
  <2>2. Cardinality(Buyers') = Cardinality(Buyers \cup {w}) BY <1>11, Zenon
  <2> QED BY <1>4, <1>5, <1>10, <2>1, <2>2 DEF Book, Books, Enrolled
<1>17. /\ { participant'[v].participant_index : v \in Buyers' }
            = 0..lottery'.participants_count - 1
       /\ \A u, v \in Buyers' :
            participant'[u].participant_index = participant'[v].participant_index => u = v
  <2>1. /\ { participant[v].participant_index : v \in Buyers } = 0..n - 1
        /\ \A u, v \in Buyers :
             participant[u].participant_index = participant[v].participant_index => u = v
    BY DEF Book, Books, Enrolled
  <2>2. CASE first
    <3>1. w \notin Buyers /\ participant'[w].participant_index = n BY <1>5, <1>9, <2>2
    <3>2. \A v \in Buyers : participant'[v].participant_index = participant[v].participant_index
      BY <1>9, <1>13, <3>1
    <3>3. { participant'[v].participant_index : v \in Buyers' }
            = { participant[v].participant_index : v \in Buyers } \cup {n}
      BY <1>11, <3>1, <3>2
    <3>4. (0..n - 1) \cup {n} = 0..n BY <1>4
    <3>5. lottery'.participants_count - 1 = n BY <1>4, <1>10, <2>2
    <3>6. { participant'[v].participant_index : v \in Buyers' }
            = 0..lottery'.participants_count - 1
      <4>1. { participant'[v].participant_index : v \in Buyers' } = (0..n - 1) \cup {n}
        BY <2>1, <3>3, Zenon
      <4> QED BY <3>4, <3>5, <4>1, Zenon
    <3>7. \A v \in Buyers : participant[v].participant_index \in 0..n - 1 BY <2>1
    <3>8. \A v \in Buyers : participant[v].participant_index # n BY <1>4, <3>7
    <3>9. \A u, v \in Buyers' :
            participant'[u].participant_index = participant'[v].participant_index => u = v
      BY <1>11, <2>1, <3>1, <3>2, <3>8
    <3> QED BY <3>6, <3>9
  <2>3. CASE ~first
    <3>1. Buyers' = Buyers /\ lottery'.participants_count = n BY <1>4, <1>5, <1>10, <1>11, <2>3
    <3>2. \A v \in Buyers : participant'[v].participant_index = participant[v].participant_index
      BY <1>9, <1>13, <2>3
    <3>3. { participant'[v].participant_index : v \in Buyers' }
            = { participant[v].participant_index : v \in Buyers }
      BY <3>1, <3>2
    <3> QED BY <2>1, <3>1, <3>2, <3>3
  <2> QED BY <2>2, <2>3
<1>18. \A v \in Wallet : v \in Buyers' <=> participant'[v].tickets_bought > 0
  BY <1>8, <1>9, <1>11 DEF Book, Books, Enrolled
<1>19. Enrolled' BY <1>10, <1>14, <1>15, <1>16, <1>17, <1>18 DEF Enrolled
<1>20. Revealed'
  BY <1>2, <1>10, <1>12 DEF Book, Books, Revealed
<1>21. StaysOpen' BY <1>9, <1>10 DEF Book, Books, StaysOpen
<1>22. Draws' BY <1>1, <1>2, <1>3, <1>9, <1>10, NoDrawYet DEF Book, Books
<1> QED BY <1>19, <1>20, <1>21, <1>22 DEF Books

(* An early upload phase keeps the books; a sole participant gets its      *)
(* mark.                                                                   *)
LEMMA BookBeginReveal ==
  ASSUME Book, NEW a \in Nat, NEW u \in Nat, BeginReveal(a, u)
  PROVE  Books'
<1> DEFINE deadline == AtLeast(AttestationEnd(a), AttestationEnd(a) + OrDefault(u))
           begun    == [lottery EXCEPT !.upload_start_unix    = now,
                                       !.upload_deadline_unix = deadline]
<1>1. /\ ~UploadStarted
      /\ lottery' = IF lottery.participants_count = 1
                    THEN [begun EXCEPT !.uploads_complete           = TRUE,
                                       !.poc_aggregate_hash         = {NoWallet},
                                       !.selected_number_of_winners = 1]
                    ELSE begun
      /\ UNCHANGED <<now, participant, tally, root, pages, vault, received>>
  BY DEF BeginReveal
<1>2. TypeOK BY DEF Book, Safe, TypeInv
<1>3. Included = {} /\ root.phase = "absent"
  BY <1>1, NothingBeforeUpload DEF Book, Safe, TypeInv
<1> HIDE DEF deadline
<1>4. /\ SameEnrollment
      /\ lottery'.winners_count = lottery.winners_count
      /\ lottery'.settled = lottery.settled
      /\ lottery'.settlement_complete = lottery.settlement_complete
      /\ IF lottery.participants_count = 1
         THEN lottery'.uploads_complete /\ lottery'.poc_aggregate_hash = {NoWallet}
         ELSE /\ lottery'.uploads_complete = lottery.uploads_complete
              /\ lottery'.poc_aggregate_hash = lottery.poc_aggregate_hash
  BY <1>1, <1>2 DEF SameEnrollment, TypeOK, LotteryAccount
<1>5. Enrolled' /\ Buyers' = Buyers BY <1>4, EnrolledKept DEF Book, Books
<1>6. Attested' = Attested /\ Included' = Included BY <1>1 DEF Attested, Included
<1>7. Revealed'
  BY <1>3, <1>4, <1>5, <1>6 DEF Book, Books, Revealed, SameEnrollment
<1>8. StaysOpen' BY <1>1, <1>4 DEF Book, Books, StaysOpen
<1>9. Draws' BY <1>1, <1>2, <1>3, <1>4, NoDrawYet DEF Book, Books
<1> QED BY <1>5, <1>7, <1>8, <1>9 DEF Books

(* What every attestation does to the account of its wallet.               *)
LEMMA AttestedAccount ==
  ASSUME TypeOK, NEW w \in Wallet, NEW vote \in Nat, NEW included \in BOOLEAN,
         participant' = [participant EXCEPT
           ![w] = [VoteAndAttest(participant[w], vote) EXCEPT !.reveal_included = included]]
  PROVE  /\ participant'[w].status = participant[w].status
         /\ participant'[w].tickets_bought = participant[w].tickets_bought
         /\ participant'[w].participant_index = participant[w].participant_index
         /\ participant'[w].selected = participant[w].selected
         /\ participant'[w].attested_uploaded = TRUE
         /\ participant'[w].reveal_included = included
         /\ participant'[w].refund_claimed = FALSE
         /\ participant'[w].voted_winners = vote
         /\ participant'[w].attested_at_unix = now
         /\ \A v \in Wallet \ {w} : participant'[v] = participant[v]
  BY DEF TypeOK, ParticipantAccount, VoteAndAttest

(* An attestation leaves the enrolment and the draw alone.                 *)
LEMMA BookAttest ==
  ASSUME Book, NEW w \in Wallet, NEW vote \in Nat, NEW included \in BOOLEAN,
         HasTickets(w), ~participant[w].attested_uploaded, InUploadPhase,
         participant' = [participant EXCEPT
           ![w] = [VoteAndAttest(participant[w], vote) EXCEPT !.reveal_included = included]],
         UNCHANGED <<root, pages>>,
         lottery'.participants_count = lottery.participants_count,
         lottery'.total_tickets = lottery.total_tickets,
         lottery'.total_funds = lottery.total_funds,
         lottery'.winners_count = lottery.winners_count,
         lottery'.settled = lottery.settled,
         lottery'.settlement_complete = lottery.settlement_complete,
         lottery.uploads_complete => lottery'.uploads_complete,
         lottery'.poc_aggregate_hash
           = IF included THEN SymDiff(lottery.poc_aggregate_hash, {w})
                         ELSE lottery.poc_aggregate_hash
  PROVE  Books'
<1>1. TypeOK BY DEF Book, Safe, TypeInv
<1>2. root.phase = "absent"
  BY <1>1, NoAttestationAfterLedger DEF Book, Safe
<1>3. /\ participant'[w].status = participant[w].status
      /\ participant'[w].tickets_bought = participant[w].tickets_bought
      /\ participant'[w].participant_index = participant[w].participant_index
      /\ participant'[w].selected = participant[w].selected
      /\ participant'[w].attested_uploaded = TRUE
      /\ participant'[w].reveal_included = included
      /\ \A v \in Wallet \ {w} : participant'[v] = participant[v]
  BY <1>1, AttestedAccount
<1>4. SameEnrollment BY <1>3 DEF SameEnrollment
<1>5. Enrolled' /\ Buyers' = Buyers BY <1>4, EnrolledKept DEF Book, Books
<1>6. w \notin Included /\ w \in Buyers /\ w # NoWallet
  <2>1. Included \subseteq Attested BY DEF Book, Safe, Settling, Counted
  <2>2. w \notin Attested BY DEF Attested
  <2>3. w \in Buyers BY DEF HasTickets, Exists, Buyers
  <2>4. w # NoWallet BY RoundAssumption
  <2> QED BY <2>1, <2>2, <2>3, <2>4
<1>7. /\ Attested' = Attested \cup {w}
      /\ Included' = IF included THEN Included \cup {w} ELSE Included
  BY <1>3, <1>6 DEF Attested, Included
<1>8. Revealed'
  <2>1. /\ Attested \subseteq Buyers
        /\ lottery.poc_aggregate_hash \ {NoWallet} = Included
        /\ NoWallet \in lottery.poc_aggregate_hash =>
             lottery.participants_count = 1 /\ lottery.uploads_complete
    BY DEF Book, Books, Revealed
  <2>2. Attested' \subseteq Buyers' BY <1>5, <1>6, <1>7, <2>1
  <2>3. lottery'.poc_aggregate_hash \ {NoWallet} = Included'
    BY <1>6, <1>7, <2>1 DEF SymDiff
  <2>4. NoWallet \in lottery'.poc_aggregate_hash => NoWallet \in lottery.poc_aggregate_hash
    BY <1>6 DEF SymDiff
  <2> QED BY <2>1, <2>2, <2>3, <2>4 DEF Revealed
<1>9. StaysOpen' BY <1>3 DEF Book, Books, StaysOpen
<1>10. Draws' BY <1>1, <1>2, <1>3, NoDrawYet DEF Book, Books
<1> QED BY <1>5, <1>8, <1>9, <1>10 DEF Books

(* An attestation without a reveal keeps the books.                        *)
LEMMA BookAttestUploaded ==
  ASSUME Book, NEW w \in Wallet, NEW vote \in Nat, AttestUploaded(w, vote)
  PROVE  Books'
<1> DEFINE attested == lottery.attested_count + 1
           start    == StartOfSettlement(AllAttested(attested))
<1>1. /\ HasTickets(w) /\ ~participant[w].attested_uploaded /\ InUploadPhase
      /\ lottery' = [lottery EXCEPT !.attested_count        = attested,
                                    !.settlement_start_unix = start]
      /\ UNCHANGED <<root, pages>>
  BY DEF AttestUploaded, MayAttest
<1>2. TypeOK BY DEF Book, Safe, TypeInv
<1>3. participant' = [participant EXCEPT
        ![w] = [VoteAndAttest(participant[w], vote) EXCEPT !.reveal_included = FALSE]]
  <2>1. [VoteAndAttest(participant[w], vote) EXCEPT !.reveal_included = FALSE]
          = VoteAndAttest(participant[w], vote)
    BY <1>2 DEF TypeOK, ParticipantAccount, VoteAndAttest
  <2> QED BY <2>1 DEF AttestUploaded
<1> HIDE DEF attested, start
<1>4. /\ lottery'.participants_count = lottery.participants_count
      /\ lottery'.total_tickets = lottery.total_tickets
      /\ lottery'.total_funds = lottery.total_funds
      /\ lottery'.winners_count = lottery.winners_count
      /\ lottery'.settled = lottery.settled
      /\ lottery'.settlement_complete = lottery.settlement_complete
      /\ lottery'.uploads_complete = lottery.uploads_complete
      /\ lottery'.poc_aggregate_hash = lottery.poc_aggregate_hash
  BY <1>1, <1>2 DEF TypeOK, LotteryAccount
<1> QED BY <1>1, <1>3, <1>4, BookAttest

(* An attestation with its reveal keeps the books: the wallet enters the   *)
(* aggregate once.                                                         *)
LEMMA BookAttestReveal ==
  ASSUME Book, NEW w \in Wallet, NEW vote \in Nat, AttestReveal(w, vote)
  PROVE  Books'
<1>1. /\ HasTickets(w) /\ ~participant[w].attested_uploaded /\ InUploadPhase
      /\ participant' = [participant EXCEPT
           ![w] = [VoteAndAttest(participant[w], vote) EXCEPT !.reveal_included = TRUE]]
      /\ UNCHANGED <<root, pages>>
  BY DEF AttestReveal, MayAttest
<1>2. PICK attested, uploaded, winners, start, late :
        lottery' = [lottery EXCEPT
          !.attested_count             = attested,
          !.provider_uploaded_count    = uploaded,
          !.poc_aggregate_hash         = SymDiff(lottery.poc_aggregate_hash, {w}),
          !.selected_number_of_winners = winners,
          !.settlement_start_unix      = start,
          !.uploads_complete           = lottery.uploads_complete \/ late]
  BY DEF AttestReveal
<1>3. TypeOK BY DEF Book, Safe, TypeInv
<1>4. /\ lottery'.participants_count = lottery.participants_count
      /\ lottery'.total_tickets = lottery.total_tickets
      /\ lottery'.total_funds = lottery.total_funds
      /\ lottery'.winners_count = lottery.winners_count
      /\ lottery'.settled = lottery.settled
      /\ lottery'.settlement_complete = lottery.settlement_complete
      /\ lottery'.uploads_complete = (lottery.uploads_complete \/ late)
      /\ lottery'.poc_aggregate_hash = SymDiff(lottery.poc_aggregate_hash, {w})
  BY <1>2, <1>3 DEF TypeOK, LotteryAccount
<1> QED BY <1>1, <1>4, BookAttest

(* An upload keeps the books: no wallet of the batch was in the aggregate, *)
(* and once there is a ledger the batch is empty.                          *)
LEMMA BookUploadReveals ==
  ASSUME Book, NEW byAuthority \in BOOLEAN, NEW S \in SUBSET Wallet,
         UploadReveals(byAuthority, S)
  PROVE  Books'
<1> DEFINE begun == BeginRemediation(lottery, CanRemediate(byAuthority))
<1>1. /\ ~lottery.uploads_complete
      /\ \A w \in S : participant[w].attested_uploaded /\ ~participant[w].reveal_included
      /\ participant' = [w \in Wallet |->
           IF w \in S
           THEN [participant[w] EXCEPT !.reveal_included = TRUE]
           ELSE participant[w]]
      /\ UNCHANGED <<now, root, pages, vault, received>>
  BY DEF UploadReveals, MayUpload
<1>2. PICK uploaded, complete, chosen, start :
        lottery' = [begun EXCEPT
          !.provider_uploaded_count    = uploaded,
          !.uploads_complete           = complete,
          !.poc_aggregate_hash         = SymDiff(begun.poc_aggregate_hash, S),
          !.selected_number_of_winners = chosen,
          !.settlement_start_unix      = start]
  BY DEF UploadReveals, MayUpload
<1>3. TypeOK BY DEF Book, Safe, TypeInv
<1>4. /\ begun \in LotteryAccount
      /\ begun.participants_count = lottery.participants_count
      /\ begun.total_tickets = lottery.total_tickets
      /\ begun.total_funds = lottery.total_funds
      /\ begun.winners_count = lottery.winners_count
      /\ begun.settled = lottery.settled
      /\ begun.settlement_complete = lottery.settlement_complete
      /\ begun.poc_aggregate_hash = lottery.poc_aggregate_hash
  BY <1>3, BeginRemediationType
  DEF TypeOK, LotteryAccount, CanRemediate, BeginRemediation
<1> HIDE DEF begun
<1>5. /\ lottery'.participants_count = lottery.participants_count
      /\ lottery'.total_tickets = lottery.total_tickets
      /\ lottery'.total_funds = lottery.total_funds
      /\ lottery'.winners_count = lottery.winners_count
      /\ lottery'.settled = lottery.settled
      /\ lottery'.settlement_complete = lottery.settlement_complete
      /\ lottery'.poc_aggregate_hash = SymDiff(lottery.poc_aggregate_hash, S)
  BY <1>2, <1>4 DEF LotteryAccount
<1>6. \A w \in Wallet :
        /\ participant'[w].status = participant[w].status
        /\ participant'[w].tickets_bought = participant[w].tickets_bought
        /\ participant'[w].participant_index = participant[w].participant_index
        /\ participant'[w].selected = participant[w].selected
        /\ participant'[w].attested_uploaded = participant[w].attested_uploaded
        /\ participant'[w].reveal_included = (w \in S \/ participant[w].reveal_included)
  BY <1>1, <1>3 DEF TypeOK, ParticipantAccount
<1>7. SameEnrollment BY <1>5, <1>6 DEF SameEnrollment
<1>8. Enrolled' /\ Buyers' = Buyers BY <1>7, EnrolledKept DEF Book, Books
<1>9. Attested' = Attested /\ Included' = Included \cup S /\ S \cap Included = {}
  BY <1>1, <1>6 DEF Attested, Included
<1>10. Revealed'
  <2>1. /\ Attested \subseteq Buyers
        /\ lottery.poc_aggregate_hash = Included
    BY <1>1 DEF Book, Books, Revealed
  <2>2. lottery'.poc_aggregate_hash = Included' BY <1>5, <1>9, <2>1 DEF SymDiff
  <2>3. NoWallet \notin Included' BY <1>9, RoundAssumption DEF Included
  <2> QED BY <1>8, <1>9, <2>1, <2>2, <2>3 DEF Revealed
<1>11. StaysOpen' BY <1>5, <1>6 DEF Book, Books, StaysOpen
<1>12. Draws'
  <2>1. CASE root.phase = "absent"
    BY <1>1, <1>3, <1>5, <1>6, <2>1, NoDrawYet DEF Book, Books
  <2>2. CASE root.phase # "absent"
    <3>1. NoCensoredSettlement BY SafeNoCensorship DEF Book
    <3>2. S = {}
      BY <1>1, <2>2, <3>1 DEF NoCensoredSettlement, Attested, Included
    <3>3. SameDraws BY <1>1, <1>5, <1>6, <3>2 DEF SameDraws
    <3> QED BY <1>3, <3>3, DrawsKept DEF Book, Books
  <2> QED BY <2>1, <2>2
<1> QED BY <1>8, <1>10, <1>11, <1>12 DEF Books

(* The start of remediation keeps the books.                               *)
LEMMA BookStartRemediation == ASSUME Book, StartRemediation PROVE Books'
<1>1. /\ lottery' = BeginRemediation(lottery, TRUE)
      /\ UNCHANGED <<participant, root, pages>>
  BY DEF StartRemediation
<1>2. /\ SameEnrollment /\ SameRevealed /\ SameDraws
      /\ lottery'.settled = lottery.settled
      /\ lottery'.settlement_complete = lottery.settlement_complete
  BY <1>1
  DEF BeginRemediation, SameEnrollment, SameRevealed, SameDraws,
      Book, Safe, TypeInv, TypeOK, LotteryAccount
<1>3. StaysOpen' BY <1>1, <1>2 DEF Book, Books, StaysOpen
<1> QED BY <1>2, <1>3, BooksKept DEF Book, Safe, TypeInv

(* A payout batch keeps the books: it raises paid bits only.               *)
LEMMA BookSettlePayoutBatch ==
  ASSUME Book, NEW batch \in SUBSET (0..lottery.winners_count - 1),
         SettlePayoutBatch(batch)
  PROVE  Books'
<1> DEFINE page == PageOf(CHOOSE i \in batch : TRUE)
           due  == { i \in batch : i \notin lottery.paid_winners_bitmap }
<1>1. /\ pages' = [pages EXCEPT
           ![page].paid = pages[page].paid \cup { OffsetOf(i) : i \in due }]
      /\ UNCHANGED <<now, participant, tally, root>>
  BY DEF SettlePayoutBatch
<1>2. PICK bitmap, batches, last :
        lottery' = [lottery EXCEPT !.paid_winners_bitmap          = bitmap,
                                   !.settlement_batches_completed = batches,
                                   !.settlement_complete          = last,
                                   !.settled                      = lottery.settled \/ last]
  BY DEF SettlePayoutBatch
<1>3. TypeOK BY DEF Book, Safe, TypeInv
<1>4. \A p \in PageIndex : pages'[p].entries = pages[p].entries
  BY <1>1, <1>3 DEF TypeOK, WinnerPage
<1>5. /\ SameEnrollment /\ SameRevealed /\ SameDraws
      /\ lottery'.settled = (lottery.settled \/ last)
      /\ lottery'.settlement_complete = last
  BY <1>1, <1>2, <1>3, <1>4
  DEF SameEnrollment, SameRevealed, SameDraws, TypeOK, LotteryAccount
<1>6. StaysOpen' BY <1>1, <1>5 DEF Book, Books, StaysOpen
<1> QED BY <1>3, <1>5, <1>6, BooksKept DEF Book

(* The end of a round without winners keeps the books.                     *)
LEMMA BookFinalizeNoAttesters == ASSUME Book, FinalizeNoAttesters PROVE Books'
<1>1. /\ lottery' = [lottery EXCEPT !.settled = TRUE]
      /\ UNCHANGED <<participant, root, pages>>
  BY DEF FinalizeNoAttesters
<1>2. SameEnrollment /\ SameRevealed /\ SameDraws /\ lottery'.settled
  BY <1>1
  DEF SameEnrollment, SameRevealed, SameDraws, Book, Safe, TypeInv, TypeOK, LotteryAccount
<1>3. StaysOpen' BY <1>2 DEF StaysOpen
<1> QED BY <1>2, <1>3, BooksKept DEF Book, Safe, TypeInv

(* A refund keeps the books.                                               *)
LEMMA BookClaimRefund == ASSUME Book, NEW w \in Wallet, ClaimRefund(w) PROVE Books'
<1>1. /\ lottery.settled
      /\ participant' = [participant EXCEPT ![w].refund_claimed = TRUE]
      /\ lottery' = [lottery EXCEPT
           !.settlement_batches_completed = lottery.settlement_batches_completed + 1]
      /\ UNCHANGED <<root, pages>>
  BY DEF ClaimRefund, RefundOwed, RefundsDue
<1>2. TypeOK BY DEF Book, Safe, TypeInv
<1>3. SameEnrollment /\ SameRevealed /\ SameDraws /\ lottery'.settled
  BY <1>1, <1>2
  DEF SameEnrollment, SameRevealed, SameDraws, TypeOK, LotteryAccount, ParticipantAccount
<1>4. StaysOpen' BY <1>3 DEF StaysOpen
<1> QED BY <1>2, <1>3, <1>4, BooksKept DEF Book

(* Emptying the vault keeps the books.                                     *)
LEMMA BookCloseRefundVault == ASSUME Book, CloseRefundVault PROVE Books'
<1>1. UNCHANGED <<lottery, participant, root, pages>> BY DEF CloseRefundVault
<1>2. SameEnrollment /\ SameRevealed /\ SameDraws
  BY <1>1 DEF SameEnrollment, SameRevealed, SameDraws
<1>3. StaysOpen' BY <1>1 DEF Book, Books, StaysOpen
<1> QED BY <1>2, <1>3, BooksKept DEF Book, Safe, TypeInv

(* Closing an account keeps the books: tickets stay on record.             *)
LEMMA BookCloseParticipant ==
  ASSUME Book, NEW w \in Wallet, CloseParticipant(w) PROVE Books'
<1>1. /\ lottery.settled /\ participant[w].status = "open"
      /\ participant' = [participant EXCEPT ![w].status = "closed"]
      /\ UNCHANGED <<lottery, root, pages>>
  BY DEF CloseParticipant, Exists, Book, Books, StaysOpen
<1>2. TypeOK BY DEF Book, Safe, TypeInv
<1>3. SameEnrollment /\ SameRevealed /\ SameDraws
  BY <1>1, <1>2 DEF SameEnrollment, SameRevealed, SameDraws, TypeOK, ParticipantAccount
<1>4. StaysOpen' BY <1>1 DEF StaysOpen
<1> QED BY <1>2, <1>3, <1>4, BooksKept DEF Book

(***************************************************************************)
(* Aggregation.                                                            *)
(***************************************************************************)
(* Indexes are naturals.                                                   *)
LEMMA IndexType == ASSUME TypeOK PROVE \A w \in Wallet : participant[w].participant_index \in Nat
  BY DEF TypeOK, ParticipantAccount

(* At cursor 0 nothing has been passed.                                    *)
LEMMA NothingPassed == ASSUME TypeOK PROVE Passed(0) = {}
  BY IndexType DEF Passed, Before

(* At the number of participants every included wallet has been passed,    *)
(* because indexes are dense.                                              *)
LEMMA EverythingPassed ==
  ASSUME Book
  PROVE  Passed(lottery.participants_count) = Included
<1>1. Included \subseteq Buyers
  BY DEF Book, Books, Safe, Settling, Counted, Revealed
<1>2. lottery.participants_count \in Nat
  BY RoundAssumption DEF Book, Safe, TypeInv, TypeOK, LotteryAccount, U64
<1>3. \A w \in Buyers : participant[w].participant_index \in 0..lottery.participants_count - 1
  BY DEF Book, Books, Enrolled
<1>4. \A w \in Included : w \in Wallet /\ participant[w].participant_index < lottery.participants_count
  BY <1>1, <1>2, <1>3, BuyersAreWallets
<1> QED BY <1>4 DEF Passed, Before

(* A chunk holds the included wallets of its indexes: nobody who may be    *)
(* drawn has closed its account while FinalizeWinners runs.                *)
LEMMA ChunkPassed ==
  ASSUME Book, MayFinalize, NEW cursor \in Nat, NEW size \in Nat
  PROVE  /\ Passed(cursor + size) = Passed(cursor) \cup (Chunk(cursor, size) \cap Included)
         /\ Passed(cursor) \cap Chunk(cursor, size) = {}
<1>1. ~lottery.settled BY DEF MayFinalize, FinalizationOpen
<1>2. TypeOK BY DEF Book, Safe, TypeInv
<1>3. Included \subseteq Buyers
  BY DEF Book, Books, Safe, Settling, Counted, Revealed
<1>4. \A w \in Included : w \in Wallet /\ Exists(w)
  BY <1>1, <1>2, <1>3
  DEF Book, Books, StaysOpen, Exists, Buyers, TypeOK, ParticipantAccount
<1>5. \A w \in Included :
        w \in Chunk(cursor, size) <=> /\ participant[w].participant_index >= cursor
                                      /\ participant[w].participant_index < cursor + size
  <2> SUFFICES ASSUME NEW w \in Included
               PROVE  w \in Chunk(cursor, size) <=>
                        /\ participant[w].participant_index >= cursor
                        /\ participant[w].participant_index < cursor + size
    OBVIOUS
  <2>1. participant[w].participant_index \in Nat BY <1>2, <1>4, IndexType
  <2> QED BY <1>4, <2>1 DEF Chunk
<1>6. \A w \in Included : w \in Passed(cursor) <=> participant[w].participant_index < cursor
  BY <1>4 DEF Passed, Before
<1>7. \A w \in Included :
        w \in Passed(cursor + size) <=> participant[w].participant_index < cursor + size
  BY <1>4 DEF Passed, Before
<1>8. \A w \in Included : participant[w].participant_index \in Nat
  BY <1>2, <1>4, IndexType
<1>9. Passed(cursor) \subseteq Included /\ Passed(cursor + size) \subseteq Included
  BY DEF Passed
<1> QED BY <1>5, <1>6, <1>7, <1>8, <1>9

(* The pool a ledger has gathered.                                         *)
Gathered(ledger) ==
  /\ ledger.required_count = lottery.participants_count
  /\ ledger.eligible_count = Cardinality(Passed(ledger.processed_count))
  /\ ledger.total_eligible_tickets = SumOver(Held, Passed(ledger.processed_count))
  /\ ledger.participants_commitment = PoolOf(Passed(ledger.processed_count))

(* The ledger an aggregation works on, new or not, holds what a pass up to *)
(* its cursor finds.                                                       *)
LEMMA LedgerGathered ==
  ASSUME Book, Ledger.phase = "aggregating"
  PROVE  /\ Gathered(Ledger) /\ Ledger \in FinalizationLedger
         /\ Ledger.target_winners = 0 /\ Ledger.selected_count = 0
         /\ Ledger.selected_tickets_total = 0
         /\ root.phase \in {"absent", "aggregating"}
<1>1. TypeOK /\ Aggregation BY DEF Book, Books, Draws, Safe, TypeInv
<1>2. Ledger \in FinalizationLedger BY LedgerSound DEF Book, Safe, Sound
<1>3. CASE root.phase = "absent"
  <2>1. Ledger = NewLedger("aggregating", lottery.participants_count) BY <1>3 DEF Ledger
  <2>2. PoolOf({}) = {} BY DEF PoolOf
  <2> QED BY <1>1, <1>2, <1>3, <2>1, <2>2, NothingPassed, SumEmpty, FS_EmptySet
          DEF NewLedger, Gathered
<1>4. CASE root.phase # "absent"
  <2>1. Ledger = root BY <1>4 DEF Ledger
  <2> QED BY <1>1, <1>2, <1>4, <2>1 DEF Aggregation, Gathered, Frozen
<1> QED BY <1>3, <1>4

(* So it does after a chunk.                                               *)
LEMMA AggregatedGathered ==
  ASSUME Book, NEW size \in Nat, MayAggregate(size)
  PROVE  /\ Gathered(Aggregated(size))
         /\ Aggregated(size) \in FinalizationLedger
         /\ Aggregated(size).phase = "aggregating"
         /\ Aggregated(size).target_winners = 0 /\ Aggregated(size).selected_count = 0
         /\ Aggregated(size).selected_tickets_total = 0
         /\ root.phase \in {"absent", "aggregating"}
<1> DEFINE eligible  == Chunk(Ledger.processed_count, size) \cap Included
           processed == Ledger.processed_count + size
           count     == Ledger.eligible_count + Cardinality(eligible)
           tickets   == Ledger.total_eligible_tickets + TicketsOf(eligible)
           pool      == Ledger.participants_commitment \cup PoolOf(eligible)
<1>1. Aggregated(size) = [ Ledger EXCEPT !.processed_count         = processed,
                                         !.eligible_count          = count,
                                         !.total_eligible_tickets  = tickets,
                                         !.participants_commitment = pool ]
  BY DEF Aggregated, PoolOf
<1>2. /\ MayFinalize /\ Ledger.phase = "aggregating"
      /\ Sound(Aggregated(size))
  BY AggregatedSound DEF MayAggregate, Book, Safe
<1>3. /\ Gathered(Ledger) /\ Ledger \in FinalizationLedger
      /\ Ledger.target_winners = 0 /\ Ledger.selected_count = 0
      /\ Ledger.selected_tickets_total = 0
      /\ root.phase \in {"absent", "aggregating"}
  BY <1>2, LedgerGathered
<1> DEFINE cursor == Ledger.processed_count
<1>4. cursor \in Nat BY <1>3 DEF FinalizationLedger
<1>5. /\ Passed(processed) = Passed(cursor) \cup eligible
      /\ Passed(cursor) \cap eligible = {}
  BY <1>2, <1>4, ChunkPassed
<1>6. eligible \in SUBSET Wallet /\ Passed(cursor) \in SUBSET Wallet
  BY DEF Chunk, Passed, Included
<1> HIDE DEF eligible, cursor
<1>7. /\ IsFiniteSet(eligible) /\ Cardinality(eligible) \in Nat
      /\ IsFiniteSet(Passed(cursor)) /\ Cardinality(Passed(cursor)) \in Nat
  BY <1>6, WalletsFinite
<1>8. \A w \in Wallet : Held[w] \in Nat BY HeldType DEF Book, Safe, TypeInv
<1>9. count = Cardinality(Passed(processed))
  <2>1. Cardinality(Passed(cursor) \cup eligible) = Cardinality(Passed(cursor)) + Cardinality(eligible)
    <3>1. Cardinality(Passed(cursor) \cap eligible) = 0 BY <1>5, FS_EmptySet
    <3> QED BY <1>7, <3>1, FS_Union
  <2>2. Cardinality(Passed(processed)) = Cardinality(Passed(cursor) \cup eligible)
    <3> HIDE DEF processed
    <3> QED BY <1>5, Zenon
  <2> QED BY <1>3, <2>1, <2>2 DEF Gathered, cursor
<1>10. tickets = SumOver(Held, Passed(processed))
  <2>1. TicketsOf(eligible) = SumOver(Held, eligible) BY <1>6, TicketsSum
  <2>2. SumOver(Held, Passed(cursor) \cup eligible)
          = SumOver(Held, Passed(cursor)) + SumOver(Held, eligible)
    <3>1. \A w \in Passed(cursor) \cup eligible : Held[w] \in Nat BY <1>6, <1>8
    <3> QED BY <1>5, <1>7, <3>1, SumUnion
  <2>3. SumOver(Held, Passed(processed)) = SumOver(Held, Passed(cursor) \cup eligible)
    <3> HIDE DEF processed
    <3> QED BY <1>5, Zenon
  <2> QED BY <1>3, <2>1, <2>2, <2>3 DEF Gathered, cursor
<1>11. pool = PoolOf(Passed(processed))
  <2>1. PoolOf(Passed(cursor) \cup eligible) = PoolOf(Passed(cursor)) \cup PoolOf(eligible)
    BY DEF PoolOf
  <2> QED BY <1>3, <1>5, <2>1 DEF Gathered, cursor
<1> HIDE DEF processed, count, tickets, pool
<1> QED BY <1>1, <1>2, <1>3, <1>9, <1>10, <1>11 DEF Sound, FinalizationLedger, Gathered

(* What the steps of FinalizeWinners leave alone.                          *)
SamePool ==
  /\ lottery'.participants_count = lottery.participants_count
  /\ lottery'.total_tickets = lottery.total_tickets
  /\ lottery'.total_funds = lottery.total_funds
  /\ lottery'.poc_aggregate_hash = lottery.poc_aggregate_hash
  /\ lottery'.uploads_complete = lottery.uploads_complete
  /\ lottery'.settled = lottery.settled
  /\ lottery'.settlement_complete = lottery.settlement_complete
  /\ \A w \in Wallet :
       /\ participant'[w].status = participant[w].status
       /\ participant'[w].tickets_bought = participant[w].tickets_bought
       /\ participant'[w].participant_index = participant[w].participant_index
       /\ participant'[w].attested_uploaded = participant[w].attested_uploaded
       /\ participant'[w].reveal_included = participant[w].reveal_included

(* A step that leaves the participants' data alone keeps enrolment,        *)
(* reveals and what a pass finds.                                          *)
LEMMA PoolKept ==
  ASSUME Book, SamePool
  PROVE  /\ Enrolled' /\ Revealed' /\ StaysOpen'
         /\ Held' = Held /\ Included' = Included
         /\ MaxWinners' = MaxWinners
         /\ \A c : Passed(c)' = Passed(c) /\ PoolOf(Passed(c))' = PoolOf(Passed(c))
<1>1. SameEnrollment BY DEF SamePool, SameEnrollment
<1>2. SameRevealed BY DEF SamePool, SameRevealed
<1>3. Enrolled' /\ Revealed' BY <1>1, <1>2, EnrolledKept, RevealedKept DEF Book, Books
<1>4. StaysOpen' BY DEF Book, Books, StaysOpen, SamePool
<1>5. Held' = Held /\ Included' = Included BY DEF SamePool, Held, Included
<1>6. MaxWinners' = MaxWinners BY DEF SamePool, MaxWinners
<1>7. ASSUME NEW c PROVE Passed(c)' = Passed(c) /\ PoolOf(Passed(c))' = PoolOf(Passed(c))
  <2>1. Before(c)' = Before(c) BY DEF SamePool, Before
  <2>2. Passed(c)' = Passed(c) BY <1>5, <2>1 DEF Passed
  <2>3. Passed(c) \subseteq Wallet BY BuyersAreWallets
  <2> QED BY <2>2, <2>3 DEF PoolOf, SamePool
<1> QED BY <1>3, <1>4, <1>5, <1>6, <1>7

(* A chunk of aggregation is such a step.                                  *)
LEMMA AggregationPool ==
  ASSUME Book, NEW size \in Nat, MayAggregate(size),
         \E target : lottery' = [lottery EXCEPT !.selected_number_of_winners = target]
  PROVE  /\ SamePool /\ pages' = pages
         /\ lottery'.winners_count = lottery.winners_count
         /\ \A w \in Wallet : participant'[w].selected = participant[w].selected
<1>1. TypeOK BY DEF Book, Safe, TypeInv
<1>2. /\ participant' = [w \in Wallet |->
           IF w \in Chunk(Ledger.processed_count, size)
           THEN [participant[w] EXCEPT !.finalized = TRUE]
           ELSE participant[w]]
      /\ pages' = pages
  BY DEF MayAggregate
<1>3. \A w \in Wallet :
        /\ participant'[w].status = participant[w].status
        /\ participant'[w].tickets_bought = participant[w].tickets_bought
        /\ participant'[w].participant_index = participant[w].participant_index
        /\ participant'[w].attested_uploaded = participant[w].attested_uploaded
        /\ participant'[w].reveal_included = participant[w].reveal_included
        /\ participant'[w].selected = participant[w].selected
  BY <1>1, <1>2 DEF TypeOK, ParticipantAccount
<1> QED BY <1>1, <1>2, <1>3 DEF SamePool, TypeOK, LotteryAccount

(* Before the draw the winner book is empty.                               *)
LEMMA EmptyBook ==
  ASSUME Book, root.phase \in {"absent", "aggregating"}
  PROVE  /\ root.selected_count = 0 /\ root.target_winners = 0
         /\ root.selected_tickets_total = 0
         /\ Recorded = {} /\ lottery.winners_count = 0
         /\ \A w \in Wallet : ~participant[w].selected
<1>1. Aggregation /\ Booked BY DEF Book, Books, Draws
<1>2. /\ root.selected_count = 0 /\ root.target_winners = 0
      /\ root.selected_tickets_total = 0
  BY <1>1 DEF Aggregation, Frozen
<1>3. Recorded = {} BY <1>2 DEF Recorded
<1> QED BY <1>1, <1>2, <1>3 DEF Booked

(* A chunk of aggregation keeps the books.                                 *)
LEMMA BookAggregateChunk ==
  ASSUME Book, NEW size \in Nat, AggregateChunk(size) PROVE Books'
<1>1. MayAggregate(size) /\ root' = Aggregated(size) /\ lottery' = lottery
  BY DEF AggregateChunk
<1>2. /\ SamePool /\ pages' = pages
      /\ lottery'.winners_count = lottery.winners_count
      /\ \A w \in Wallet : participant'[w].selected = participant[w].selected
  <2>1. \E target : lottery' = [lottery EXCEPT !.selected_number_of_winners = target]
    <3>1. lottery' = [lottery EXCEPT !.selected_number_of_winners
                        = lottery.selected_number_of_winners]
      BY <1>1 DEF Book, Safe, TypeInv, TypeOK, LotteryAccount
    <3> QED BY <3>1
  <2> QED BY <1>1, <2>1, AggregationPool
<1>3. /\ Enrolled' /\ Revealed' /\ StaysOpen'
      /\ Held' = Held /\ Included' = Included
      /\ \A c : Passed(c)' = Passed(c) /\ PoolOf(Passed(c))' = PoolOf(Passed(c))
  BY <1>2, PoolKept
<1>4. /\ Gathered(Aggregated(size)) /\ Aggregated(size).phase = "aggregating"
      /\ Aggregated(size).target_winners = 0 /\ Aggregated(size).selected_count = 0
      /\ Aggregated(size).selected_tickets_total = 0
      /\ root.phase \in {"absent", "aggregating"}
  BY <1>1, AggregatedGathered
<1>5. /\ root.selected_count = 0 /\ lottery.winners_count = 0
      /\ \A w \in Wallet : ~participant[w].selected
  BY <1>4, EmptyBook
<1>6. Aggregation' BY <1>1, <1>3, <1>4 DEF Aggregation, Gathered, Frozen
<1>7. Recorded' = {} BY <1>1, <1>4 DEF Recorded
<1>8. SumOver(Held', Recorded') = 0 BY <1>7, SumEmpty
<1>9. \A p \in PageIndex : Len(pages'[p].entries)
         = AtLeast(AtMost(root'.selected_count - p * WINNERS_PER_PAGE, WINNERS_PER_PAGE), 0)
  BY <1>1, <1>2, <1>4, <1>5 DEF Book, Books, Draws, Booked
<1>10. Booked' BY <1>1, <1>2, <1>4, <1>5, <1>7, <1>8, <1>9 DEF Booked
<1>11. Drawing' BY <1>1, <1>4 DEF Drawing
<1> QED BY <1>3, <1>6, <1>10, <1>11 DEF Books, Draws

(* The last chunk keeps the books: the pool it freezes is all of the       *)
(* included wallets, and the first draw is below its tickets.              *)
LEMMA BookCloseAggregation ==
  ASSUME Book, NEW size \in Nat, CloseAggregation(size) PROVE Books'
<1> DEFINE pool   == Aggregated(size)
           target == AtMost(AtMost(AtLeast(lottery.selected_number_of_winners, 1), MaxWinners),
                            pool.eligible_count)
           seed   == [ eligible  |-> pool.eligible_count,
                       tickets   |-> pool.total_eligible_tickets,
                       aggregate |-> lottery.poc_aggregate_hash,
                       pool      |-> pool.participants_commitment ]
           frozen == [pool EXCEPT !.target_winners = target, !.seed = seed]
<1>1. /\ MayAggregate(size)
      /\ pool.processed_count = pool.required_count
      /\ SelectableWinners(target)
      /\ \E draw \in 0..RemainingTickets(pool) - 1 : root' = BeginSelectionRound(frozen, draw)
      /\ lottery' = [lottery EXCEPT !.selected_number_of_winners = target]
  BY DEF CloseAggregation
<1>2. PICK draw \in 0..RemainingTickets(pool) - 1 : root' = BeginSelectionRound(frozen, draw)
  BY <1>1
<1>3. /\ SamePool /\ pages' = pages
      /\ lottery'.winners_count = lottery.winners_count
      /\ \A w \in Wallet : participant'[w].selected = participant[w].selected
  <2> HIDE DEF target
  <2> QED BY <1>1, AggregationPool
<1>4. /\ Enrolled' /\ Revealed' /\ StaysOpen'
      /\ Held' = Held /\ Included' = Included /\ MaxWinners' = MaxWinners
      /\ \A c : Passed(c)' = Passed(c) /\ PoolOf(Passed(c))' = PoolOf(Passed(c))
  BY <1>3, PoolKept
<1>5. /\ Gathered(pool) /\ pool \in FinalizationLedger
      /\ pool.phase = "aggregating" /\ pool.selected_count = 0
      /\ pool.selected_tickets_total = 0
      /\ root.phase \in {"absent", "aggregating"}
  BY <1>1, AggregatedGathered
<1>6. TypeOK BY DEF Book, Safe, TypeInv
<1>7. target \in 1..MaxWinners
  <2>1. MaxWinners \in Nat BY <1>6, MaxWinnersBound
  <2>2. pool.eligible_count \in Nat BY <1>5, RoundAssumption DEF FinalizationLedger, U64
  <2>3. lottery.selected_number_of_winners \in Nat BY <1>6 DEF TypeOK, LotteryAccount
  <2>4. target >= 1
    <3> HIDE DEF target
    <3> QED BY <1>1, <1>6 DEF SelectableWinners, TypeOK, LotteryAccount, U64
  <2> HIDE DEF pool
  <2> QED BY <2>1, <2>2, <2>3, <2>4 DEF AtMost, AtLeast
<1>8. lottery.participants_count > 1
  BY <1>1 DEF MayAggregate, MayFinalize, FinalizationOpen
<1>9. seed.aggregate = Included
  <2>1. lottery.poc_aggregate_hash = Included
    BY <1>8 DEF Book, Books, Revealed
  <2> QED BY <2>1
<1> HIDE DEF pool, target
<1>10. /\ root'.phase = "selecting"
       /\ root'.required_count = pool.required_count
       /\ root'.processed_count = pool.processed_count
       /\ root'.eligible_count = pool.eligible_count
       /\ root'.total_eligible_tickets = pool.total_eligible_tickets
       /\ root'.participants_commitment = pool.participants_commitment
       /\ root'.target_winners = target
       /\ root'.seed = seed
       /\ root'.selected_count = 0
       /\ root'.selected_tickets_total = 0
       /\ root'.round_processed_count = 0
       /\ root'.round_remaining_tickets_seen = 0
       /\ root'.round_draw_index = draw
       /\ root'.pending_winner_found = FALSE
  BY <1>2, <1>5 DEF BeginSelectionRound, FinalizationLedger
<1>11. Aggregation'
  <2> HIDE DEF seed
  <2>1. seed = [ eligible |-> pool.eligible_count, tickets |-> pool.total_eligible_tickets,
                 aggregate |-> Included, pool |-> pool.participants_commitment ]
    BY <1>9 DEF seed
  <2> QED BY <1>1, <1>3, <1>4, <1>5, <1>7, <1>10, <2>1
          DEF Aggregation, Gathered, Frozen, SamePool
<1>12. /\ lottery.winners_count = 0 /\ root.selected_count = 0
       /\ \A w \in Wallet : ~participant[w].selected
  BY <1>5, EmptyBook
<1>13. Recorded' = {} BY <1>10 DEF Recorded
<1>14. SumOver(Held', Recorded') = 0 BY <1>13, SumEmpty
<1>15. \A p \in PageIndex : Len(pages'[p].entries)
         = AtLeast(AtMost(root'.selected_count - p * WINNERS_PER_PAGE, WINNERS_PER_PAGE), 0)
  BY <1>3, <1>10, <1>12 DEF Book, Books, Draws, Booked
<1>16. Booked'
  <2>1. Pending' = {} BY <1>10 DEF Pending
  <2>2. root'.selected_count <= root'.target_winners
    <3>1. MaxWinners \in Nat BY <1>6, MaxWinnersBound
    <3> QED BY <1>7, <1>10, <3>1
  <2> QED BY <1>3, <1>10, <1>12, <1>13, <1>14, <1>15, <2>1, <2>2 DEF Booked
<1>17. Drawing'
  <2>1. Passed(root.round_processed_count)' = {}
    BY <1>4, <1>6, <1>10, NothingPassed
  <2>2. SumOver(Held', Passed(root.round_processed_count)' \ Recorded') = 0
    <3>1. Passed(root.round_processed_count)' \ Recorded' = {} BY <2>1
    <3> QED BY <3>1, SumEmpty
  <2>3. draw < RemainingTickets(root)' /\ draw \in Nat
    <3>1. RemainingTickets(root)' = RemainingTickets(pool)
      BY <1>5, <1>10 DEF RemainingTickets
    <3>2. RemainingTickets(pool) \in Nat
      BY <1>5, RoundAssumption DEF RemainingTickets, FinalizationLedger, U64
    <3> QED BY <1>2, <3>1, <3>2
  <2>4. 0 < target
    <3>1. MaxWinners \in Nat BY <1>6, MaxWinnersBound
    <3> QED BY <1>7, <3>1
  <2> QED BY <1>10, <2>1, <2>2, <2>3, <2>4 DEF Drawing
<1> QED BY <1>4, <1>11, <1>16, <1>17 DEF Books, Draws

(* Who a pass has gone by and has not drawn before.                        *)
(***************************************************************************)
(* Selection passes.                                                       *)
(***************************************************************************)
InPass(cursor) == Passed(cursor) \ Recorded

(* Indexes of the wallets, the order in which tickets are laid out.        *)
Place == [w \in Wallet |-> participant[w].participant_index]

(* Every recorded winner is an included wallet.                            *)
LEMMA RecordedIncluded == ASSUME Booked PROVE Recorded \subseteq Included
  BY DEF Booked, Recorded

(* A pass offers the included wallets of a chunk that no earlier round     *)
(* drew: none of them is pending either.                                   *)
LEMMA CandidatesOfChunk ==
  ASSUME Book, MayFinalize, root.phase = "selecting", NEW size \in Nat
  PROVE  LET cursor == root.round_processed_count
         IN  /\ InPass(cursor + size) = InPass(cursor) \cup Candidates(size)
             /\ InPass(cursor) \cap Candidates(size) = {}
             /\ Candidates(size) \subseteq Included
<1> DEFINE cursor == root.round_processed_count
<1>1. TypeOK /\ Booked /\ Drawing BY DEF Book, Books, Draws, Safe, TypeInv
<1>2. cursor \in Nat BY <1>1 DEF TypeOK, FinalizationLedger
<1> HIDE DEF cursor
<1>3. /\ Passed(cursor + size) = Passed(cursor) \cup (Chunk(cursor, size) \cap Included)
      /\ Passed(cursor) \cap Chunk(cursor, size) = {}
  BY <1>2, ChunkPassed
<1>4. Pending \subseteq Passed(cursor) BY <1>1 DEF Drawing, Pending, cursor
<1>5. { w \in Wallet : participant[w].selected } = Recorded \cup Pending BY <1>1 DEF Booked
<1>6. Candidates(size) = (Chunk(cursor, size) \cap Included) \ Recorded
  <2>1. Candidates(size) = { w \in Chunk(cursor, size) \cap Included : ~participant[w].selected }
    BY DEF Candidates, Included, Chunk, cursor
  <2>2. \A w \in Chunk(cursor, size) : w \in Wallet BY DEF Chunk
  <2> QED BY <1>3, <1>4, <1>5, <2>1, <2>2
<1> QED BY <1>3, <1>6 DEF InPass, cursor

(* The candidates of a chunk, their tickets and their places.              *)
LEMMA CandidateSums ==
  ASSUME TypeOK, NEW size \in Nat
  PROVE  /\ Candidates(size) \in SUBSET Wallet /\ IsFiniteSet(Candidates(size))
         /\ TicketsOf(Candidates(size)) = SumOver(Held, Candidates(size))
         /\ SumOver(Held, Candidates(size)) \in Nat
         /\ \A w \in Candidates(size) :
              /\ Held[w] \in Nat /\ Place[w] \in Nat
              /\ FirstTicket(w, Candidates(size))
                   = root.round_remaining_tickets_seen
                       + SumOver(Held, Ahead(Place, Candidates(size), w))
              /\ SumOver(Held, Ahead(Place, Candidates(size), w)) \in Nat
<1>1. Candidates(size) \in SUBSET Wallet BY DEF Candidates, Chunk
<1>2. IsFiniteSet(Candidates(size)) BY <1>1, WalletsFinite
<1>3. TicketsOf(Candidates(size)) = SumOver(Held, Candidates(size)) BY <1>1, TicketsSum
<1>4. \A w \in Wallet : Held[w] \in Nat /\ Place[w] \in Nat BY HeldType, IndexType DEF Place
<1>5. SumOver(Held, Candidates(size)) \in Nat
  <2>1. \A w \in Candidates(size) : Held[w] \in Nat BY <1>1, <1>4
  <2> QED BY <1>2, <2>1, SumNat
<1>6. ASSUME NEW w \in Candidates(size)
      PROVE  /\ FirstTicket(w, Candidates(size))
                   = root.round_remaining_tickets_seen
                       + SumOver(Held, Ahead(Place, Candidates(size), w))
             /\ SumOver(Held, Ahead(Place, Candidates(size), w)) \in Nat
  <2> DEFINE ahead == { v \in Candidates(size) :
                          participant[v].participant_index < participant[w].participant_index }
  <2>1. ahead = Ahead(Place, Candidates(size), w) BY <1>1 DEF Ahead, Place
  <2>2. ahead \in SUBSET Wallet /\ IsFiniteSet(ahead) /\ \A v \in ahead : Held[v] \in Nat
    BY <1>1, <1>4, WalletsFinite
  <2>3. FirstTicket(w, Candidates(size)) = root.round_remaining_tickets_seen + TicketsOf(ahead)
    BY DEF FirstTicket
  <2> HIDE DEF ahead
  <2>4. TicketsOf(ahead) = SumOver(Held, ahead) BY <2>2, TicketsSum
  <2>5. SumOver(Held, ahead) = SumOver(Held, Ahead(Place, Candidates(size), w)) BY <2>1, Zenon
  <2>6. SumOver(Held, ahead) \in Nat BY <2>2, SumNat
  <2> QED BY <2>3, <2>4, <2>5, <2>6
<1> QED BY <1>1, <1>2, <1>3, <1>4, <1>5, <1>6

(* The draw hits at most one candidate of a chunk, and one as soon as the  *)
(* tickets seen go past it.                                                *)
LEMMA HitOne ==
  ASSUME Book, NEW size \in Nat, ~root.pending_winner_found,
         root.round_draw_index >= root.round_remaining_tickets_seen,
         Candidates(size) \subseteq Included
  PROVE  /\ Hit(size) # {} <=> root.round_draw_index
              < root.round_remaining_tickets_seen + SumOver(Held, Candidates(size))
         /\ \A v, w \in Hit(size) : v = w
         /\ Hit(size) \subseteq Candidates(size)
<1> DEFINE C == Candidates(size)
           seen == root.round_remaining_tickets_seen
           d == root.round_draw_index - seen
<1>1. TypeOK BY DEF Book, Safe, TypeInv
<1>2. seen \in Nat /\ root.round_draw_index \in Nat
  BY <1>1, RoundAssumption DEF TypeOK, FinalizationLedger, U64
<1>3. /\ C \in SUBSET Wallet /\ IsFiniteSet(C) /\ SumOver(Held, C) \in Nat
      /\ \A w \in C :
           /\ Held[w] \in Nat /\ Place[w] \in Nat
           /\ FirstTicket(w, C) = seen + SumOver(Held, Ahead(Place, C, w))
           /\ SumOver(Held, Ahead(Place, C, w)) \in Nat
  BY <1>1, CandidateSums
<1>4. \A v, w \in C : Place[v] = Place[w] => v = w
  <2>1. C \subseteq Buyers
    BY DEF Book, Books, Revealed, Safe, Settling, Counted
  <2> HIDE DEF C
  <2> QED BY <1>3, <2>1 DEF Book, Books, Enrolled, Place
<1>5. Hit(size) = { w \in C :
                      root.round_draw_index \in FirstTicket(w, C)..FirstTicket(w, C) + Held[w] - 1 }
  BY <1>3 DEF Hit, Held
<1> HIDE DEF C, seen
<1>6. d \in Nat BY <1>2 DEF seen
<1>7. root.round_draw_index = seen + d BY <1>2
<1>8. \A w \in C : w \in Hit(size) <=> Covers(Held, Place, C, d, w)
  <2> SUFFICES ASSUME NEW w \in C
               PROVE  w \in Hit(size) <=> Covers(Held, Place, C, d, w)
    OBVIOUS
  <2> DEFINE a == SumOver(Held, Ahead(Place, C, w))
  <2>1. a \in Nat /\ Held[w] \in Nat /\ FirstTicket(w, C) = seen + a BY <1>3
  <2>2. w \in Hit(size) <=> root.round_draw_index \in seen + a..seen + a + Held[w] - 1
    BY <1>5, <2>1
  <2>3. Covers(Held, Place, C, d, w) <=> a <= d /\ d < a + Held[w] BY DEF Covers
  <2> HIDE DEF a, d
  <2> QED BY <1>2, <1>6, <1>7, <2>1, <2>2, <2>3
<1> HIDE DEF d
<1>9. Hit(size) \subseteq C BY <1>5
<1>10. Hit(size) # {} => d < SumOver(Held, C)
  <2>1. \A w \in Hit(size) : d < SumOver(Held, C)
    BY <1>3, <1>6, <1>8, <1>9, CoverWithin
  <2> QED BY <2>1
<1>11. d < SumOver(Held, C) => Hit(size) # {}
  BY <1>3, <1>4, <1>6, <1>8, CoverExists
<1>12. \A v, w \in Hit(size) : v = w
  BY <1>3, <1>4, <1>6, <1>8, <1>9, CoverUnique
<1>13. d < SumOver(Held, C) <=> root.round_draw_index < seen + SumOver(Held, C)
  BY <1>2, <1>3, <1>6, <1>7
<1> QED BY <1>9, <1>10, <1>11, <1>12, <1>13 DEF seen, C

(* What a chunk of a pass leaves of the ledger.                            *)
SameLedger(ledger) ==
  /\ ledger.phase = "selecting"
  /\ ledger.required_count = root.required_count
  /\ ledger.processed_count = root.processed_count
  /\ ledger.eligible_count = root.eligible_count
  /\ ledger.total_eligible_tickets = root.total_eligible_tickets
  /\ ledger.participants_commitment = root.participants_commitment
  /\ ledger.target_winners = root.target_winners
  /\ ledger.seed = root.seed
  /\ ledger.selected_count = root.selected_count
  /\ ledger.selected_tickets_total = root.selected_tickets_total
  /\ ledger.round_draw_index = root.round_draw_index

(* The pending winner of a ledger, as a set.                               *)
PendingOf(ledger) == IF ledger.pending_winner_found THEN {ledger.pending_winner} ELSE {}

(* What Drawing says, of a ledger that is not the root yet.                *)
PassedWell(ledger) ==
  /\ ledger.round_remaining_tickets_seen = SumOver(Held, InPass(ledger.round_processed_count))
  /\ ledger.pending_winner_found <=>
       ledger.round_draw_index < ledger.round_remaining_tickets_seen
  /\ ledger.pending_winner_found =>
       /\ ledger.pending_winner \in InPass(ledger.round_processed_count)
       /\ ledger.pending_winner_tickets = Held[ledger.pending_winner]

(* What a chunk of a selection pass changes in the ledger.                 *)
LEMMA ScannedFields ==
  ASSUME TypeOK, root.phase = "selecting", NEW size \in Nat
  PROVE  LET s == Scanned(size)
         IN  /\ SameLedger(s)
             /\ s.round_processed_count = root.round_processed_count + size
             /\ s.round_remaining_tickets_seen
                  = root.round_remaining_tickets_seen + TicketsOf(Candidates(size))
             /\ Hit(size) = {} =>
                  /\ s.pending_winner = root.pending_winner
                  /\ s.pending_winner_tickets = root.pending_winner_tickets
                  /\ s.pending_winner_found = root.pending_winner_found
             /\ Hit(size) # {} =>
                  /\ s.pending_winner \in Hit(size)
                  /\ s.pending_winner_tickets = participant[s.pending_winner].tickets_bought
                  /\ s.pending_winner_found = TRUE
<1> DEFINE processed == root.round_processed_count + size
           seen      == root.round_remaining_tickets_seen + TicketsOf(Candidates(size))
           passed    == [ root EXCEPT !.round_processed_count        = processed,
                                      !.round_remaining_tickets_seen = seen ]
           pending   == CHOOSE w \in Hit(size) : TRUE
           tickets   == participant[pending].tickets_bought
<1>1. Scanned(size) = IF Hit(size) = {}
                      THEN passed
                      ELSE [ passed EXCEPT !.pending_winner         = pending,
                                           !.pending_winner_tickets = tickets,
                                           !.pending_winner_found   = TRUE ]
  BY DEF Scanned
<1>2. Hit(size) # {} => pending \in Hit(size) OBVIOUS
<1> HIDE DEF processed, seen, pending
<1>3. /\ SameLedger(passed)
      /\ passed.round_processed_count = processed
      /\ passed.round_remaining_tickets_seen = seen
      /\ passed.pending_winner = root.pending_winner
      /\ passed.pending_winner_tickets = root.pending_winner_tickets
      /\ passed.pending_winner_found = root.pending_winner_found
      /\ DOMAIN passed = DOMAIN root
      /\ passed = [f \in DOMAIN root |-> passed[f]]
  BY DEF SameLedger, TypeOK, FinalizationLedger
<1>4. {"pending_winner", "pending_winner_tickets", "pending_winner_found"} \subseteq DOMAIN root
  BY DEF TypeOK, FinalizationLedger
<1> HIDE DEF passed, tickets
<1>5. CASE Hit(size) = {} BY <1>1, <1>3, <1>5 DEF processed, seen
<1>6. CASE Hit(size) # {}
  <2> DEFINE found == [ passed EXCEPT !.pending_winner         = pending,
                                      !.pending_winner_tickets = tickets,
                                      !.pending_winner_found   = TRUE ]
  <2>1. SameLedger(found) BY <1>3, <1>4 DEF SameLedger
  <2>2. /\ found.round_processed_count = processed
        /\ found.round_remaining_tickets_seen = seen
        /\ found.pending_winner = pending
        /\ found.pending_winner_tickets = tickets
        /\ found.pending_winner_found = TRUE
    BY <1>3, <1>4
  <2>3. Scanned(size) = found BY <1>1, <1>6
  <2> HIDE DEF found
  <2> QED BY <1>2, <1>6, <2>1, <2>2, <2>3 DEF processed, seen, tickets
<1> QED BY <1>5, <1>6

(* It leaves the participants' data alone but for the selected flag of the *)
(* winner it hits.                                                         *)
LEMMA ScanPool ==
  ASSUME Book, NEW size \in Nat, MayScan(size),
         \E winners, payout, bitmap, start :
           lottery' = [lottery EXCEPT !.winners_count         = winners,
                                      !.total_payout          = payout,
                                      !.paid_winners_bitmap   = bitmap,
                                      !.settlement_start_unix = start]
  PROVE  /\ SamePool
         /\ \A w \in Wallet :
              participant'[w].selected <=> w \in Hit(size) \/ participant[w].selected
<1>1. TypeOK BY DEF Book, Safe, TypeInv
<1>2. participant' = [w \in Wallet |->
           IF w \in Hit(size)
           THEN [participant[w] EXCEPT !.selected = TRUE]
           ELSE participant[w]]
  BY DEF MayScan
<1>3. \A w \in Wallet :
        /\ participant'[w].status = participant[w].status
        /\ participant'[w].tickets_bought = participant[w].tickets_bought
        /\ participant'[w].participant_index = participant[w].participant_index
        /\ participant'[w].attested_uploaded = participant[w].attested_uploaded
        /\ participant'[w].reveal_included = participant[w].reveal_included
        /\ participant'[w].selected <=> w \in Hit(size) \/ participant[w].selected
  BY <1>1, <1>2 DEF TypeOK, ParticipantAccount
<1> QED BY <1>1, <1>3 DEF SamePool, TypeOK, LotteryAccount

(* After it, tickets seen and the pending winner are those of the longer   *)
(* part of the pass.                                                       *)
LEMMA ScanLedger ==
  ASSUME Book, NEW size \in Nat, MayScan(size)
  PROVE  /\ SameLedger(Scanned(size)) /\ PassedWell(Scanned(size))
         /\ Scanned(size).round_processed_count \in Nat
         /\ { w \in Wallet : w \in Hit(size) \/ participant[w].selected }
              = Recorded \cup PendingOf(Scanned(size))
<1> DEFINE s == Scanned(size)
           C == Candidates(size)
           cursor == root.round_processed_count
           seen == root.round_remaining_tickets_seen
<1>1. MayFinalize /\ root.phase = "selecting" BY DEF MayScan
<1>2. TypeOK /\ Booked /\ Drawing BY DEF Book, Books, Draws, Safe, TypeInv
<1>3. /\ InPass(cursor + size) = InPass(cursor) \cup C
      /\ InPass(cursor) \cap C = {}
      /\ C \subseteq Included
  BY <1>1, CandidatesOfChunk
<1>4. /\ C \in SUBSET Wallet /\ IsFiniteSet(C)
      /\ TicketsOf(C) = SumOver(Held, C) /\ SumOver(Held, C) \in Nat
  BY <1>2, CandidateSums
<1>5. /\ SameLedger(s)
      /\ s.round_processed_count = cursor + size
      /\ s.round_remaining_tickets_seen = seen + SumOver(Held, C)
      /\ Hit(size) = {} =>
           /\ s.pending_winner = root.pending_winner
           /\ s.pending_winner_tickets = root.pending_winner_tickets
           /\ s.pending_winner_found = root.pending_winner_found
      /\ Hit(size) # {} =>
           /\ s.pending_winner \in Hit(size)
           /\ s.pending_winner_tickets = participant[s.pending_winner].tickets_bought
           /\ s.pending_winner_found = TRUE
  BY <1>1, <1>2, <1>4, ScannedFields
<1>6. /\ seen = SumOver(Held, InPass(cursor))
      /\ root.pending_winner_found <=> root.round_draw_index < seen
      /\ root.pending_winner_found =>
           /\ root.pending_winner \in InPass(cursor)
           /\ root.pending_winner_tickets = participant[root.pending_winner].tickets_bought
  BY <1>1, <1>2 DEF Drawing, InPass
<1>7. /\ seen \in Nat /\ root.round_draw_index \in Nat /\ cursor \in Nat
      /\ root.pending_winner_found \in BOOLEAN
  BY <1>2, RoundAssumption DEF TypeOK, FinalizationLedger, U64
<1>8. { w \in Wallet : participant[w].selected } = Recorded \cup PendingOf(root)
  BY <1>1, <1>2 DEF Booked, Pending, PendingOf
<1>9. InPass(cursor) \in SUBSET Wallet BY BuyersAreWallets DEF InPass
<1> HIDE DEF C, s, cursor, seen
<1>10. s.round_remaining_tickets_seen = SumOver(Held, InPass(cursor + size))
  <2>1. SumOver(Held, InPass(cursor) \cup C) = SumOver(Held, InPass(cursor)) + SumOver(Held, C)
    <3>1. IsFiniteSet(InPass(cursor)) BY <1>9, WalletsFinite
    <3>2. \A w \in InPass(cursor) \cup C : Held[w] \in Nat BY <1>2, <1>4, <1>9, HeldType
    <3> QED BY <1>3, <1>4, <3>1, <3>2, SumUnion
  <2>2. SumOver(Held, InPass(cursor + size)) = SumOver(Held, InPass(cursor) \cup C)
    BY <1>3, Zenon
  <2> QED BY <1>5, <1>6, <2>1, <2>2
<1>11. s.round_draw_index = root.round_draw_index BY <1>5 DEF SameLedger
<1>12. CASE root.pending_winner_found
  <2>1. Hit(size) = {} BY <1>12 DEF Hit
  <2>2. s.pending_winner_found /\ s.pending_winner = root.pending_winner
        /\ s.pending_winner_tickets = root.pending_winner_tickets
    BY <1>5, <1>12, <2>1
  <2>3. s.round_draw_index < s.round_remaining_tickets_seen
    BY <1>4, <1>5, <1>6, <1>7, <1>11, <1>12
  <2>4. s.pending_winner \in InPass(cursor + size) BY <1>3, <1>6, <1>12, <2>2
  <2>5. s.pending_winner_tickets = Held[s.pending_winner]
    BY <1>6, <1>9, <1>12, <2>2 DEF Held
  <2>6. PassedWell(s) BY <1>5, <1>10, <2>2, <2>3, <2>4, <2>5 DEF PassedWell
  <2>7. PendingOf(s) = PendingOf(root) BY <1>12, <2>2 DEF PendingOf
  <2> QED BY <1>5, <1>7, <1>8, <2>1, <2>6, <2>7 DEF s
<1>13. CASE ~root.pending_winner_found
  <2>1. seen <= root.round_draw_index BY <1>6, <1>7, <1>13
  <2>2. /\ Hit(size) # {} <=> root.round_draw_index < seen + SumOver(Held, C)
        /\ \A v, w \in Hit(size) : v = w
        /\ Hit(size) \subseteq C
    BY <1>3, <1>13, <2>1, HitOne DEF C, seen
  <2>3. CASE Hit(size) = {}
    <3>1. ~s.pending_winner_found BY <1>5, <1>13, <2>3
    <3>2. ~(s.round_draw_index < s.round_remaining_tickets_seen)
      BY <1>5, <1>11, <2>2, <2>3
    <3>3. PassedWell(s) BY <1>5, <1>10, <3>1, <3>2 DEF PassedWell
    <3>4. PendingOf(s) = {} /\ PendingOf(root) = {} BY <1>13, <3>1 DEF PendingOf
    <3> QED BY <1>5, <1>7, <1>8, <2>3, <3>3, <3>4 DEF s
  <2>4. CASE Hit(size) # {}
    <3>1. /\ s.pending_winner_found = TRUE /\ s.pending_winner \in Hit(size)
          /\ s.pending_winner_tickets = participant[s.pending_winner].tickets_bought
      BY <1>5, <2>4
    <3>2. s.round_draw_index < s.round_remaining_tickets_seen
      BY <1>5, <1>11, <2>2, <2>4
    <3>3. s.pending_winner \in InPass(cursor + size) BY <1>3, <2>2, <3>1
    <3>4. s.pending_winner \in Wallet BY <1>4, <2>2, <3>1
    <3>5. s.pending_winner_tickets = Held[s.pending_winner] BY <3>1, <3>4 DEF Held
    <3>6. PassedWell(s) BY <1>5, <1>10, <3>1, <3>2, <3>3, <3>5 DEF PassedWell
    <3>7. Hit(size) = {s.pending_winner} BY <2>2, <3>1
    <3>8. PendingOf(s) = Hit(size) /\ PendingOf(root) = {} BY <1>13, <3>1, <3>7 DEF PendingOf
    <3>9. { w \in Wallet : w \in Hit(size) \/ participant[w].selected }
            = { w \in Wallet : participant[w].selected } \cup Hit(size)
      BY <3>4, <3>7
    <3>10. { w \in Wallet : w \in Hit(size) \/ participant[w].selected } = Recorded \cup PendingOf(s)
      BY <1>8, <3>8, <3>9
    <3> QED BY <1>5, <1>7, <3>6, <3>10 DEF s
  <2> QED BY <2>3, <2>4
<1> QED BY <1>12, <1>13

(* Entries of page p when n winners are recorded.                          *)
(***************************************************************************)
(* The winner pages.                                                       *)
(***************************************************************************)
Fill(n, p) == AtLeast(AtMost(n - p * WINNERS_PER_PAGE, WINNERS_PER_PAGE), 0)

(* One more winner goes to the page that is next to fill, and to no other. *)
LEMMA FillNext ==
  ASSUME NEW n \in Nat, NEW p \in Nat
  PROVE  /\ PageOf(n) \in Nat /\ OffsetOf(n) \in 0..WINNERS_PER_PAGE - 1
         /\ p = PageOf(n) => Fill(n, p) = OffsetOf(n) /\ Fill(n + 1, p) = OffsetOf(n) + 1
         /\ p # PageOf(n) => Fill(n + 1, p) = Fill(n, p)
<1> DEFINE W == WINNERS_PER_PAGE
           q == PageOf(n)
           r == OffsetOf(n)
<1>1. W \in Nat \ {0} BY RoundAssumption
<1>2. q \in Nat /\ r \in 0..W - 1 /\ n = q * W + r
  BY <1>1, DivMod DEF PageOf, OffsetOf
<1>3. \A a, b \in Nat : a < b => a * W + W <= b * W
  <2> SUFFICES ASSUME NEW a \in Nat, NEW b \in Nat, a < b PROVE a * W + W <= b * W
    OBVIOUS
  <2>1. (a + 1) * W <= b * W BY <1>1
  <2>2. (a + 1) * W = a * W + W BY <1>1
  <2> QED BY <2>1, <2>2
<1>4. \A a \in Nat : a * W \in Nat BY <1>1
<1> DEFINE qW == q * W
           pW == p * W
<1>5. qW \in Nat /\ pW \in Nat /\ n = qW + r BY <1>2, <1>4
<1>6. p < q => pW + W <= qW BY <1>2, <1>3
<1>7. q < p => qW + W <= pW BY <1>2, <1>3
<1>8. p = q => pW = qW OBVIOUS
<1>9. /\ Fill(n, p) = AtLeast(AtMost(n - pW, W), 0)
      /\ Fill(n + 1, p) = AtLeast(AtMost((n + 1) - pW, W), 0)
  BY Zenon DEF Fill
<1> HIDE DEF W, q, r, qW, pW
<1>10. p = q => Fill(n, p) = r /\ Fill(n + 1, p) = r + 1
  BY <1>1, <1>2, <1>5, <1>8, <1>9 DEF AtLeast, AtMost
<1>11. p < q => Fill(n + 1, p) = Fill(n, p)
  BY <1>1, <1>2, <1>5, <1>6, <1>9 DEF AtLeast, AtMost
<1>12. q < p => Fill(n + 1, p) = Fill(n, p)
  BY <1>1, <1>2, <1>5, <1>7, <1>9 DEF AtLeast, AtMost
<1>13. p # q => Fill(n + 1, p) = Fill(n, p) BY <1>2, <1>11, <1>12
<1> QED BY <1>2, <1>10, <1>13 DEF W, q, r

(* What the pages hold once ledger's pending winner is appended.           *)
LEMMA WinnerAppended ==
  ASSUME TypeOK, Aggregation, Booked, NEW ledger, AppendWinner(ledger),
         ledger.selected_count = root.selected_count,
         ledger.target_winners = root.target_winners
  PROVE  LET n == root.selected_count
         IN  /\ n \in 0..MaxWinnersCap - 1 /\ n < root.target_winners
             /\ \A p \in PageIndex : Len(pages'[p].entries) = Fill(n + 1, p)
             /\ \A i \in 0..n - 1 : EntryAt(i)' = EntryAt(i)
             /\ \A i \in {n} : EntryAt(i)' = [ wallet  |-> ledger.pending_winner,
                                             tickets |-> ledger.pending_winner_tickets ]
             /\ \A p \in PageIndex : pages'[p].paid = pages[p].paid
<1> DEFINE n == root.selected_count
           page == PageOf(n)
           winner == [ wallet  |-> ledger.pending_winner,
                       tickets |-> ledger.pending_winner_tickets ]
<1>1. /\ n < root.target_winners
      /\ pages' = [pages EXCEPT ![page].entries = Append(pages[page].entries, winner)]
  BY DEF AppendWinner, PageOf
<1>2. n \in Nat /\ root.target_winners \in Nat BY DEF TypeOK, FinalizationLedger
<1>3. root.target_winners <= MaxWinnersCap /\ MaxWinnersCap \in Nat
  <2>1. MaxWinnersCap \in Nat BY RoundAssumption
  <2>2. root.target_winners = 0 \/ root.target_winners \in 1..MaxWinners
    BY DEF Aggregation
  <2>3. MaxWinners \in 1..MaxWinnersCap BY MaxWinnersBound
  <2> QED BY <1>2, <2>1, <2>2, <2>3
<1>4. n \in 0..MaxWinnersCap - 1 BY <1>1, <1>2, <1>3
<1>5. /\ page \in PageIndex /\ OffsetOf(n) \in 0..WINNERS_PER_PAGE - 1
      /\ n = page * WINNERS_PER_PAGE + OffsetOf(n)
      /\ \A i \in 0..n - 1 :
           /\ PageOf(i) \in PageIndex
           /\ OffsetOf(i) \in 0..WINNERS_PER_PAGE - 1
           /\ i = PageOf(i) * WINNERS_PER_PAGE + OffsetOf(i)
  <2>1. \A i \in 0..n - 1 : i \in 0..MaxWinnersCap - 1 BY <1>2, <1>3, <1>4
  <2>2. \A i \in 0..MaxWinnersCap - 1 :
          /\ PageOf(i) \in PageIndex
          /\ OffsetOf(i) \in 0..WINNERS_PER_PAGE - 1
          /\ i = PageOf(i) * WINNERS_PER_PAGE + OffsetOf(i)
    BY PagesInRange
  <2> HIDE DEF n
  <2> QED BY <1>4, <2>1, <2>2
<1>6. PageIndex \subseteq Nat BY DEF PageIndex
<1>7. \A p \in PageIndex : Len(pages[p].entries) = Fill(n, p)
  BY DEF Booked, Fill
<1>8. Len(pages[page].entries) = OffsetOf(n) BY <1>2, <1>5, <1>6, <1>7, FillNext
<1>9. \A p \in PageIndex : pages[p] \in WinnerPage BY DEF TypeOK
<1>10. DOMAIN pages = PageIndex BY DEF TypeOK
<1> HIDE DEF n, page, winner
<1>11. /\ pages'[page].entries = Append(pages[page].entries, winner)
       /\ pages'[page].paid = pages[page].paid
       /\ \A p \in PageIndex : p # page => pages'[p] = pages[p]
  BY <1>1, <1>5, <1>9, <1>10 DEF WinnerPage
<1>12. pages[page].entries \in Seq(SelectedWinner) BY <1>5, <1>9 DEF WinnerPage
<1>13. /\ Len(pages'[page].entries) = OffsetOf(n) + 1
       /\ \A k \in 1..OffsetOf(n) : pages'[page].entries[k] = pages[page].entries[k]
       /\ pages'[page].entries[OffsetOf(n) + 1] = winner
  BY <1>8, <1>11, <1>12
<1>14. \A p \in PageIndex : Len(pages'[p].entries) = Fill(n + 1, p)
  <2> SUFFICES ASSUME NEW p \in PageIndex PROVE Len(pages'[p].entries) = Fill(n + 1, p)
    OBVIOUS
  <2>1. CASE p = page BY <1>2, <1>6, <1>13, <2>1, FillNext DEF page
  <2>2. CASE p # page BY <1>2, <1>6, <1>7, <1>11, <2>2, FillNext DEF page
  <2> QED BY <2>1, <2>2
<1>15. \A i \in 0..n - 1 : EntryAt(i)' = EntryAt(i)
  <2> SUFFICES ASSUME NEW i \in 0..n - 1 PROVE EntryAt(i)' = EntryAt(i)
    OBVIOUS
  <2>1. EntryAt(i)' = pages'[PageOf(i)].entries[OffsetOf(i) + 1] BY DEF EntryAt
  <2>2. CASE PageOf(i) # page BY <1>5, <1>11, <2>1, <2>2 DEF EntryAt
  <2>3. CASE PageOf(i) = page
    <3> DEFINE start == page * WINNERS_PER_PAGE
    <3>1. start \in Nat
      <4>1. page \in Nat /\ WINNERS_PER_PAGE \in Nat BY <1>5, <1>6, RoundAssumption
      <4> QED BY <4>1
    <3>2. i = start + OffsetOf(i) /\ n = start + OffsetOf(n) /\ i < n
      <4>1. i < n BY <1>2
      <4>2. i = PageOf(i) * WINNERS_PER_PAGE + OffsetOf(i) BY <1>5
      <4> QED BY <1>5, <2>3, <4>1, <4>2
    <3>3. OffsetOf(i) \in Nat /\ OffsetOf(n) \in Nat BY <1>5
    <3> HIDE DEF start
    <3>4. OffsetOf(i) + 1 \in 1..OffsetOf(n) BY <3>1, <3>2, <3>3
    <3> QED BY <1>13, <2>1, <2>3, <3>4 DEF EntryAt
  <2> QED BY <2>2, <2>3
<1>16. ASSUME NEW i \in {n} PROVE EntryAt(i)' = winner
  <2>1. EntryAt(i)' = pages'[PageOf(i)].entries[OffsetOf(i) + 1] BY DEF EntryAt
  <2>2. i = n OBVIOUS
  <2> QED BY <1>13, <2>1, <2>2 DEF page
<1> QED BY <1>1, <1>4, <1>11, <1>14, <1>15, <1>16 DEF n, winner

(* The pool a frozen ledger was drawn from stays as it is.                 *)
LEMMA AggregationKept ==
  ASSUME Book, SamePool, root.phase = "selecting", root'.phase \in {"selecting", "completed"},
         root'.required_count = root.required_count,
         root'.processed_count = root.processed_count,
         root'.eligible_count = root.eligible_count,
         root'.total_eligible_tickets = root.total_eligible_tickets,
         root'.participants_commitment = root.participants_commitment,
         root'.target_winners = root.target_winners,
         root'.seed = root.seed
  PROVE  Aggregation'
<1>1. /\ Held' = Held /\ Included' = Included /\ MaxWinners' = MaxWinners
      /\ \A c : Passed(c)' = Passed(c) /\ PoolOf(Passed(c))' = PoolOf(Passed(c))
  BY PoolKept
<1>2. Aggregation BY DEF Book, Books, Draws
<1> QED BY <1>1, <1>2 DEF Aggregation, Frozen, SamePool

(* A chunk of a selection pass keeps the books.                            *)
LEMMA BookScanChunk == ASSUME Book, NEW size \in Nat, ScanChunk(size) PROVE Books'
<1> DEFINE s == Scanned(size)
<1>1. /\ MayScan(size) /\ root' = s /\ lottery' = lottery /\ pages' = pages
      /\ root.phase = "selecting"
  BY DEF ScanChunk, MayScan
<1>2. TypeOK /\ Booked /\ Drawing BY DEF Book, Books, Draws, Safe, TypeInv
<1>3. /\ SamePool
      /\ \A w \in Wallet : participant'[w].selected <=> w \in Hit(size) \/ participant[w].selected
  <2>1. lottery' = [lottery EXCEPT !.winners_count         = lottery.winners_count,
                                   !.total_payout          = lottery.total_payout,
                                   !.paid_winners_bitmap   = lottery.paid_winners_bitmap,
                                   !.settlement_start_unix = lottery.settlement_start_unix]
    BY <1>1, <1>2 DEF TypeOK, LotteryAccount
  <2>2. \E winners, payout, bitmap, start :
          lottery' = [lottery EXCEPT !.winners_count         = winners,
                                     !.total_payout          = payout,
                                     !.paid_winners_bitmap   = bitmap,
                                     !.settlement_start_unix = start]
    BY <2>1
  <2> QED BY <1>1, <2>2, ScanPool
<1>4. /\ SameLedger(s) /\ PassedWell(s) /\ s.round_processed_count \in Nat
      /\ { w \in Wallet : w \in Hit(size) \/ participant[w].selected }
           = Recorded \cup PendingOf(s)
  BY <1>1, ScanLedger
<1> HIDE DEF s
<1>5. /\ Enrolled' /\ Revealed' /\ StaysOpen' /\ Held' = Held /\ Included' = Included
      /\ \A c : Passed(c)' = Passed(c)
  BY <1>3, PoolKept
<1>6. Aggregation'
  <2>1. /\ root'.phase = "selecting"
        /\ root'.required_count = root.required_count
        /\ root'.processed_count = root.processed_count
        /\ root'.eligible_count = root.eligible_count
        /\ root'.total_eligible_tickets = root.total_eligible_tickets
        /\ root'.participants_commitment = root.participants_commitment
        /\ root'.target_winners = root.target_winners
        /\ root'.seed = root.seed
    BY <1>1, <1>4 DEF SameLedger
  <2> QED BY <1>1, <1>3, <2>1, AggregationKept
<1>7. /\ \A i \in 0..root.selected_count - 1 : EntryAt(i)' = EntryAt(i)
      /\ Recorded' = Recorded
  BY <1>1, <1>4 DEF SameLedger, Recorded, EntryAt
<1>8. Booked'
  <2>1. { w \in Wallet : participant'[w].selected } = Recorded' \cup Pending'
    <3>1. { w \in Wallet : participant'[w].selected } = Recorded \cup PendingOf(s)
      BY <1>3, <1>4
    <3> QED BY <1>1, <1>7, <3>1 DEF Pending, PendingOf
  <2>2. \A i \in 0..root.selected_count - 1 :
          /\ EntryAt(i)'.wallet \in Included'
          /\ EntryAt(i)'.tickets = participant'[EntryAt(i)'.wallet].tickets_bought
    BY <1>2, <1>3, <1>5, <1>7, BuyersAreWallets DEF Booked, SamePool
  <2> QED BY <1>1, <1>2, <1>4, <1>5, <1>7, <2>1, <2>2 DEF Booked, SameLedger
<1>9. Drawing'
  <2>1. Passed(root.round_processed_count)' \ Recorded' = InPass(s.round_processed_count)
    BY <1>1, <1>4, <1>5, <1>7 DEF InPass
  <2>2. RemainingTickets(root)' = RemainingTickets(root)
    BY <1>1, <1>4 DEF RemainingTickets, SameLedger
  <2>3. InPass(s.round_processed_count) \subseteq Wallet BY BuyersAreWallets DEF InPass
  <2>4. root'.pending_winner_found =>
          /\ root'.pending_winner \in InPass(s.round_processed_count)
          /\ root'.pending_winner_tickets = participant'[root'.pending_winner].tickets_bought
    BY <1>1, <1>3, <1>4, <2>3 DEF PassedWell, Held, SamePool
  <2>5. root'.round_remaining_tickets_seen = SumOver(Held', InPass(s.round_processed_count))
    BY <1>1, <1>4, <1>5 DEF PassedWell
  <2> HIDE DEF PassedWell
  <2>6. root'.round_remaining_tickets_seen
          = SumOver(Held', Passed(root.round_processed_count)' \ Recorded')
    BY <2>1, <2>5, Zenon
  <2> QED BY <1>1, <1>2, <1>4, <2>1, <2>2, <2>4, <2>6 DEF Drawing, PassedWell, SameLedger
<1> QED BY <1>5, <1>6, <1>8, <1>9 DEF Books, Draws

(* The end of a pass books the pending winner, which no round drew before. *)
LEMMA BookWinner ==
  ASSUME Book, NEW size \in Nat, MayScan(size), WinnerFound(Scanned(size)),
         AppendWinner(Scanned(size)), SamePool,
         \A w \in Wallet : participant'[w].selected <=> w \in Hit(size) \/ participant[w].selected,
         root'.selected_count = root.selected_count + 1,
         root'.selected_tickets_total
           = root.selected_tickets_total + Scanned(size).pending_winner_tickets,
         root'.target_winners = root.target_winners,
         \/ root'.phase = "selecting" /\ ~root'.pending_winner_found
         \/ root'.phase = "completed" /\ root'.selected_count = root'.target_winners,
         lottery'.winners_count
           = IF root'.phase = "completed" THEN root'.target_winners ELSE 0
  PROVE  Booked' /\ root.selected_count < root.target_winners
<1> DEFINE s == Scanned(size)
           n == root.selected_count
           winner == s.pending_winner
<1>1. TypeOK /\ Aggregation /\ Booked /\ root.phase = "selecting"
  BY DEF Book, Books, Draws, Safe, TypeInv, MayScan
<1>2. /\ SameLedger(s) /\ PassedWell(s)
      /\ { w \in Wallet : w \in Hit(size) \/ participant[w].selected }
           = Recorded \cup PendingOf(s)
  BY ScanLedger
<1>3. /\ s.round_processed_count = lottery.participants_count
      /\ s.pending_winner_found
  BY <1>1, <1>2 DEF WinnerFound, SameLedger, Aggregation
<1>4. winner \in Included \ Recorded /\ winner \in Wallet
  <2>1. InPass(s.round_processed_count) = Included \ Recorded
    BY <1>3, EverythingPassed DEF InPass
  <2> QED BY <1>2, <1>3, <2>1, BuyersAreWallets DEF PassedWell
<1>5. s.pending_winner_tickets = Held[winner] BY <1>2, <1>3 DEF PassedWell
<1>6. /\ n \in 0..MaxWinnersCap - 1 /\ n < root.target_winners
      /\ \A p \in PageIndex : Len(pages'[p].entries) = Fill(n + 1, p)
      /\ \A i \in 0..n - 1 : EntryAt(i)' = EntryAt(i)
      /\ \A i \in {n} : EntryAt(i)' = [ wallet  |-> winner,
                                        tickets |-> s.pending_winner_tickets ]
  BY <1>1, <1>2, WinnerAppended DEF SameLedger
<1> HIDE DEF s, n, winner
<1>7. n \in Nat /\ root.target_winners \in Nat /\ root'.selected_count = n + 1
  BY <1>1 DEF TypeOK, FinalizationLedger, n
<1>8. 0..root'.selected_count - 1 = (0..n - 1) \cup {n} BY <1>7
<1>9. Recorded' = Recorded \cup {winner}
  <2>1. Recorded' = { EntryAt(i)'.wallet : i \in 0..root'.selected_count - 1 } BY DEF Recorded
  <2>2. Recorded' = { EntryAt(i)'.wallet : i \in (0..n - 1) \cup {n} }
    BY <1>8, <2>1
  <2>3. Recorded = { EntryAt(i).wallet : i \in 0..n - 1 } BY DEF Recorded, n
  <2> QED BY <1>6, <2>2, <2>3
<1>10. Held' = Held /\ Included' = Included BY PoolKept
<1>11. \A i \in 0..n - 1 :
         /\ EntryAt(i).wallet \in Included /\ EntryAt(i).wallet \in Recorded
         /\ EntryAt(i).tickets = participant[EntryAt(i).wallet].tickets_bought
  BY <1>1 DEF Booked, Recorded, n
<1>12. \A i \in 0..root'.selected_count - 1 :
         /\ EntryAt(i)'.wallet \in Included'
         /\ EntryAt(i)'.tickets = participant'[EntryAt(i)'.wallet].tickets_bought
  <2>1. \A i \in 0..n - 1 :
         /\ EntryAt(i)'.wallet \in Included'
         /\ EntryAt(i)'.tickets = participant'[EntryAt(i)'.wallet].tickets_bought
    BY <1>6, <1>10, <1>11, BuyersAreWallets DEF SamePool
  <2>2. \A i \in {n} :
         /\ EntryAt(i)'.wallet \in Included'
         /\ EntryAt(i)'.tickets = participant'[EntryAt(i)'.wallet].tickets_bought
    BY <1>4, <1>5, <1>6, <1>10 DEF SamePool, Held
  <2> QED BY <1>8, <2>1, <2>2
<1>13. \A i, j \in 0..root'.selected_count - 1 :
         EntryAt(i)'.wallet = EntryAt(j)'.wallet => i = j
  <2>1. \A i, j \in 0..n - 1 : EntryAt(i).wallet = EntryAt(j).wallet => i = j
    BY <1>1 DEF Booked, n
  <2>2. \A i \in 0..n - 1 : EntryAt(i)'.wallet # winner BY <1>4, <1>6, <1>11
  <2>3. \A i \in {n} : EntryAt(i)'.wallet = winner BY <1>6
  <2> QED BY <1>6, <1>8, <2>1, <2>2, <2>3
<1>14. root'.selected_tickets_total = SumOver(Held', Recorded')
  <2>1. Recorded \in SUBSET Wallet BY <1>1, RecordedIncluded, BuyersAreWallets
  <2>2. IsFiniteSet(Recorded) BY <2>1, WalletsFinite
  <2>3. \A w \in Wallet : Held[w] \in Nat BY <1>1, HeldType
  <2>4. SumOver(Held, Recorded \cup {winner}) = SumOver(Held, Recorded) + Held[winner]
    BY <1>4, <2>1, <2>2, <2>3, SumAdd
  <2>5. SumOver(Held', Recorded') = SumOver(Held, Recorded \cup {winner})
    BY <1>9, <1>10, Zenon
  <2> QED BY <1>1, <1>5, <2>4, <2>5 DEF Booked, s
<1>15. { w \in Wallet : participant'[w].selected }
         = Recorded' \cup IF root'.phase = "selecting" THEN Pending' ELSE {}
  <2>1. { w \in Wallet : participant'[w].selected } = Recorded \cup PendingOf(s)
    BY <1>2
  <2>2. PendingOf(s) = {winner} BY <1>3 DEF PendingOf, winner
  <2>3. root'.phase = "selecting" => Pending' = {} BY DEF Pending
  <2> QED BY <1>9, <2>1, <2>2, <2>3
<1>16. /\ root'.selected_count <= root'.target_winners
       /\ \A p \in PageIndex : Len(pages'[p].entries)
            = AtLeast(AtMost(root'.selected_count - p * WINNERS_PER_PAGE, WINNERS_PER_PAGE), 0)
  <2>1. root'.selected_count <= root'.target_winners BY <1>6, <1>7
  <2>2. \A p \in PageIndex : Len(pages'[p].entries) = Fill(root'.selected_count, p)
    BY <1>6, <1>7
  <2> QED BY <2>1, <2>2 DEF Fill
<1> QED BY <1>6, <1>12, <1>13, <1>14, <1>15, <1>16 DEF Booked, n

(* What recording a winner changes in the ledger.                          *)
LEMMA RecordWinnerFields ==
  ASSUME TypeOK, NEW ledger, Sound(ledger), SameLedger(ledger)
  PROVE  LET l == RecordWinner(ledger)
         IN  /\ l.phase = "selecting"
             /\ l.required_count = root.required_count
             /\ l.processed_count = root.processed_count
             /\ l.eligible_count = root.eligible_count
             /\ l.total_eligible_tickets = root.total_eligible_tickets
             /\ l.participants_commitment = root.participants_commitment
             /\ l.target_winners = root.target_winners
             /\ l.seed = root.seed
             /\ l.selected_count = root.selected_count + 1
             /\ l.selected_tickets_total
                  = root.selected_tickets_total + ledger.pending_winner_tickets
             /\ DOMAIN l = DOMAIN root
  BY DEF RecordWinner, Sound, FinalizationLedger, SameLedger, TypeOK

(* The end of a selection round keeps the books: a winner is booked and    *)
(* the next draw is below the tickets that remain.                         *)
LEMMA BookCloseRound == ASSUME Book, NEW size \in Nat, CloseRound(size) PROVE Books'
<1> DEFINE s      == Scanned(size)
           ledger == RecordWinner(s)
<1>1. /\ MayScan(size) /\ WinnerFound(s) /\ AppendWinner(s)
      /\ ledger.selected_count # ledger.target_winners
      /\ \E draw \in 0..RemainingTickets(ledger) - 1 : root' = BeginSelectionRound(ledger, draw)
      /\ lottery' = lottery /\ root.phase = "selecting"
  BY DEF CloseRound, MayScan
<1>2. PICK draw \in 0..RemainingTickets(ledger) - 1 : root' = BeginSelectionRound(ledger, draw)
  BY <1>1
<1>3. TypeOK /\ Booked BY DEF Book, Books, Draws, Safe, TypeInv
<1>4. /\ SamePool
      /\ \A w \in Wallet : participant'[w].selected <=> w \in Hit(size) \/ participant[w].selected
  <2>1. lottery' = [lottery EXCEPT !.winners_count         = lottery.winners_count,
                                   !.total_payout          = lottery.total_payout,
                                   !.paid_winners_bitmap   = lottery.paid_winners_bitmap,
                                   !.settlement_start_unix = lottery.settlement_start_unix]
    BY <1>1, <1>3 DEF TypeOK, LotteryAccount
  <2>2. \E winners, payout, bitmap, start :
          lottery' = [lottery EXCEPT !.winners_count         = winners,
                                     !.total_payout          = payout,
                                     !.paid_winners_bitmap   = bitmap,
                                     !.settlement_start_unix = start]
    BY <2>1
  <2> QED BY <1>1, <2>2, ScanPool
<1>5. Sound(s) /\ SameLedger(s) BY <1>1, MayScanTypes, ScanLedger DEF Book, Safe
<1>6. Sound(ledger) BY <1>1, ScannedWinner DEF Book, Safe
<1> HIDE DEF s
<1>7. /\ ledger.phase = "selecting"
      /\ ledger.required_count = root.required_count
      /\ ledger.processed_count = root.processed_count
      /\ ledger.eligible_count = root.eligible_count
      /\ ledger.total_eligible_tickets = root.total_eligible_tickets
      /\ ledger.participants_commitment = root.participants_commitment
      /\ ledger.target_winners = root.target_winners
      /\ ledger.seed = root.seed
      /\ ledger.selected_count = root.selected_count + 1
      /\ ledger.selected_tickets_total
           = root.selected_tickets_total + s.pending_winner_tickets
  BY <1>3, <1>5, RecordWinnerFields
<1> HIDE DEF ledger
<1>8. /\ root'.phase = "selecting"
      /\ root'.required_count = root.required_count
      /\ root'.processed_count = root.processed_count
      /\ root'.eligible_count = root.eligible_count
      /\ root'.total_eligible_tickets = root.total_eligible_tickets
      /\ root'.participants_commitment = root.participants_commitment
      /\ root'.target_winners = root.target_winners
      /\ root'.seed = root.seed
      /\ root'.selected_count = root.selected_count + 1
      /\ root'.selected_tickets_total
           = root.selected_tickets_total + s.pending_winner_tickets
      /\ root'.round_processed_count = 0
      /\ root'.round_remaining_tickets_seen = 0
      /\ root'.round_draw_index = draw
      /\ root'.pending_winner_found = FALSE
  BY <1>2, <1>6, <1>7 DEF BeginSelectionRound, Sound, FinalizationLedger
<1>9. /\ Enrolled' /\ Revealed' /\ StaysOpen' /\ Held' = Held
      /\ \A c : Passed(c)' = Passed(c)
  BY <1>4, PoolKept
<1>10. Aggregation' BY <1>1, <1>4, <1>8, AggregationKept
<1>11. lottery'.winners_count = IF root'.phase = "completed" THEN root'.target_winners ELSE 0
  BY <1>1, <1>3, <1>8 DEF Booked
<1>12. Booked' /\ root.selected_count < root.target_winners
  BY <1>1, <1>4, <1>8, <1>11, BookWinner DEF s
<1>13. Drawing'
  <2>1. Passed(root.round_processed_count)' = {} BY <1>3, <1>8, <1>9, NothingPassed
  <2>2. SumOver(Held', Passed(root.round_processed_count)' \ Recorded') = 0
    <3>1. Passed(root.round_processed_count)' \ Recorded' = {} BY <2>1
    <3> QED BY <3>1, SumEmpty
  <2>3. draw < RemainingTickets(root)' /\ draw \in Nat
    <3>1. RemainingTickets(root)' = RemainingTickets(ledger)
      BY <1>7, <1>8 DEF RemainingTickets
    <3>2. RemainingTickets(ledger) \in Int
      BY <1>6, RoundAssumption DEF RemainingTickets, Sound, FinalizationLedger, U64
    <3> QED BY <1>2, <3>1, <3>2
  <2>4. root'.selected_count < root'.target_winners
    <3>1. root.selected_count \in Nat /\ root.target_winners \in Nat
      BY <1>3 DEF TypeOK, FinalizationLedger
    <3> QED BY <1>1, <1>7, <1>8, <1>12, <3>1
  <2> QED BY <1>8, <2>1, <2>2, <2>3, <2>4 DEF Drawing
<1> QED BY <1>9, <1>10, <1>12, <1>13 DEF Books, Draws

(* The end of the last selection round keeps the books.                    *)
LEMMA BookCompleteFinalization ==
  ASSUME Book, NEW size \in Nat, CompleteFinalization(size) PROVE Books'
<1> DEFINE s       == Scanned(size)
           ledger  == RecordWinner(s)
           winners == ledger.selected_count
           pool    == WinnersPool(lottery.total_funds, ServiceChargeBps)
           payout  == (pool \div winners) * winners
           bitmap  == { i \in lottery.paid_winners_bitmap : i >= 8 * ((winners + 7) \div 8) }
           start   == IF lottery.settlement_start_unix = 0
                      THEN now ELSE lottery.settlement_start_unix
<1>1. /\ MayScan(size) /\ WinnerFound(s) /\ AppendWinner(s)
      /\ winners = ledger.target_winners
      /\ root' = [ledger EXCEPT !.phase = "completed"]
      /\ lottery' = [lottery EXCEPT !.winners_count         = winners,
                                    !.total_payout          = payout,
                                    !.paid_winners_bitmap   = bitmap,
                                    !.settlement_start_unix = start]
      /\ root.phase = "selecting"
  BY DEF CompleteFinalization, MayScan
<1>2. TypeOK BY DEF Book, Safe, TypeInv
<1>3. Sound(s) /\ SameLedger(s) BY <1>1, MayScanTypes, ScanLedger DEF Book, Safe
<1>4. Sound(ledger) BY <1>1, ScannedWinner DEF Book, Safe
<1> HIDE DEF s
<1>5. /\ ledger.required_count = root.required_count
      /\ ledger.processed_count = root.processed_count
      /\ ledger.eligible_count = root.eligible_count
      /\ ledger.total_eligible_tickets = root.total_eligible_tickets
      /\ ledger.participants_commitment = root.participants_commitment
      /\ ledger.target_winners = root.target_winners
      /\ ledger.seed = root.seed
      /\ ledger.selected_count = root.selected_count + 1
      /\ ledger.selected_tickets_total
           = root.selected_tickets_total + s.pending_winner_tickets
  BY <1>2, <1>3, RecordWinnerFields
<1> HIDE DEF ledger, payout, bitmap, start
<1>6. /\ root'.phase = "completed"
      /\ root'.required_count = root.required_count
      /\ root'.processed_count = root.processed_count
      /\ root'.eligible_count = root.eligible_count
      /\ root'.total_eligible_tickets = root.total_eligible_tickets
      /\ root'.participants_commitment = root.participants_commitment
      /\ root'.target_winners = root.target_winners
      /\ root'.seed = root.seed
      /\ root'.selected_count = root.selected_count + 1
      /\ root'.selected_tickets_total
           = root.selected_tickets_total + s.pending_winner_tickets
  BY <1>1, <1>4, <1>5 DEF Sound, FinalizationLedger
<1>7. /\ SamePool
      /\ \A w \in Wallet : participant'[w].selected <=> w \in Hit(size) \/ participant[w].selected
  <2>1. \E a, b, c, d :
          lottery' = [lottery EXCEPT !.winners_count         = a,
                                     !.total_payout          = b,
                                     !.paid_winners_bitmap   = c,
                                     !.settlement_start_unix = d]
    BY <1>1
  <2> QED BY <1>1, <2>1, ScanPool
<1>8. Enrolled' /\ Revealed' /\ StaysOpen' BY <1>7, PoolKept
<1>9. Aggregation' BY <1>1, <1>6, <1>7, AggregationKept
<1>10. lottery'.winners_count = root'.target_winners /\ root'.selected_count = root'.target_winners
  BY <1>1, <1>2, <1>5, <1>6 DEF TypeOK, LotteryAccount
<1>11. Booked' BY <1>1, <1>6, <1>7, <1>10, BookWinner DEF s
<1>12. Drawing' BY <1>6 DEF Drawing
<1> QED BY <1>8, <1>9, <1>11, <1>12 DEF Books, Draws

(***************************************************************************)
(* The invariant, and what it gives.                                       *)
(***************************************************************************)
(* A new round keeps its books.                                            *)
LEMMA InitBook == ASSUME Init PROVE Book
<1>1. /\ lottery = NewLottery /\ root = NewLedger("absent", 0)
      /\ pages = [p \in PageIndex |-> NoPage]
      /\ \A w \in Wallet : participant[w] = NewParticipant("none", 0)
  BY DEF Init
<1>2. Buyers = {} /\ Attested = {} /\ Included = {}
  BY <1>1 DEF Buyers, Attested, Included, NewParticipant
<1>3. Enrolled
  <2>1. /\ lottery.participants_count = 0 /\ lottery.total_tickets = 0
        /\ lottery.total_funds = 0
    BY <1>1 DEF NewLottery
  <2>2. \A w \in Wallet : participant[w].tickets_bought = 0 BY <1>1 DEF NewParticipant
  <2>3. Cardinality(Buyers) = 0 BY <1>2, FS_EmptySet
  <2>4. SumOver(Held, Buyers) = 0 BY <1>2, SumEmpty
  <2>5. TicketPrice * 0 = 0 BY RoundAssumption
  <2>6. 0..0 - 1 = {} OBVIOUS
  <2> QED BY <1>2, <2>1, <2>2, <2>3, <2>4, <2>5, <2>6 DEF Enrolled
<1>4. Revealed BY <1>1, <1>2 DEF Revealed, NewLottery
<1>5. StaysOpen BY <1>1 DEF StaysOpen, NewLottery, NewParticipant
<1>6. root.phase = "absent" /\ root.selected_count = 0 /\ root.target_winners = 0
      /\ root.selected_tickets_total = 0 /\ ~Frozen
  BY <1>1 DEF NewLedger, Frozen
<1>7. Aggregation BY <1>1, <1>6 DEF Aggregation
<1>8. Booked
  <2>1. Recorded = {} BY <1>6 DEF Recorded
  <2>2. SumOver(Held, Recorded) = 0 BY <2>1, SumEmpty
  <2>3. \A p \in PageIndex : Len(pages[p].entries) = 0 BY <1>1 DEF NoPage
  <2>4. \A p \in PageIndex : p * WINNERS_PER_PAGE \in Nat
    <3>1. WINNERS_PER_PAGE \in Nat /\ PageIndex \subseteq Nat
      BY RoundAssumption DEF PageIndex
    <3> QED BY <3>1
  <2>5. WINNERS_PER_PAGE \in Nat BY RoundAssumption
  <2>6. \A p \in PageIndex :
          AtLeast(AtMost(0 - p * WINNERS_PER_PAGE, WINNERS_PER_PAGE), 0) = 0
    BY <2>4, <2>5 DEF AtLeast, AtMost
  <2>7. \A w \in Wallet : ~participant[w].selected BY <1>1 DEF NewParticipant
  <2>8. lottery.winners_count = 0 BY <1>1 DEF NewLottery
  <2>9. \A p \in PageIndex : Len(pages[p].entries)
          = AtLeast(AtMost(root.selected_count - p * WINNERS_PER_PAGE, WINNERS_PER_PAGE), 0)
    BY <1>6, <2>3, <2>6
  <2> QED BY <1>6, <2>1, <2>2, <2>7, <2>8, <2>9 DEF Booked
<1>9. Drawing BY <1>6 DEF Drawing
<1> QED BY <1>3, <1>4, <1>5, <1>7, <1>8, <1>9, InitSafe DEF Book, Books, Draws

(* The invariant is inductive.                                             *)
LEMMA BookNext == ASSUME Book, [Next]_vars PROVE Book'
<1>1. Safe' BY SafeNext DEF Book
<1> SUFFICES Books' BY <1>1 DEF Book
<1>2. CASE Tick BY <1>2, BookTick
<1>3. ASSUME NEW w \in Wallet, Buy(w) PROVE Books'
  BY <1>3, BookBuyTickets, InputAssumption DEF Buy
<1>4. CASE Begin BY <1>4, BookBeginReveal, InputAssumption DEF Begin
<1>5. ASSUME NEW w \in Wallet, Attest(w) PROVE Books'
  <2>1. 1..MaxWinnersCap \subseteq Nat BY RoundAssumption
  <2> QED BY <1>5, <2>1, BookAttestUploaded, BookAttestReveal DEF Attest
<1>6. CASE Upload BY <1>6, BookUploadReveals DEF Upload
<1>7. CASE FinalizeWinners
  <2>1. Sizes \subseteq Nat BY DEF Sizes
  <2> QED BY <1>7, <2>1, BookStartRemediation, BookAggregateChunk,
             BookCloseAggregation, BookScanChunk, BookCloseRound, BookCompleteFinalization
          DEF FinalizeWinners
<1>8. CASE Settle BY <1>8, BookSettlePayoutBatch DEF Settle
<1>9. CASE FinalizeNoAttesters BY <1>9, BookFinalizeNoAttesters
<1>10. ASSUME NEW w \in Wallet, ClaimRefund(w) PROVE Books'
  BY <1>10, BookClaimRefund
<1>11. CASE CloseRefundVault BY <1>11, BookCloseRefundVault
<1>12. ASSUME NEW w \in Wallet, CloseParticipant(w) PROVE Books'
  BY <1>12, BookCloseParticipant
<1>13. CASE UNCHANGED vars
  <2>1. UNCHANGED <<lottery, participant, root, pages>> BY <1>13 DEF vars
  <2>2. SameEnrollment /\ SameRevealed /\ SameDraws
    BY <2>1 DEF SameEnrollment, SameRevealed, SameDraws
  <2>3. StaysOpen' BY <2>1 DEF Book, Books, StaysOpen
  <2> QED BY <2>2, <2>3, BooksKept DEF Book, Safe, TypeInv
<1> QED
  BY <1>2, <1>3, <1>4, <1>5, <1>6, <1>7, <1>8, <1>9, <1>10, <1>11, <1>12, <1>13 DEF Next

(* The books are right in every state of a round.                          *)
LEMMA BookInvariant == Spec => []Book
<1>1. Init => Book BY InitBook
<1>2. Book /\ [Next]_vars => Book' BY BookNext
<1> QED BY <1>1, <1>2, PTL DEF Spec

(* The books give the counters.                                            *)
LEMMA BookCounters == ASSUME Book PROVE CountersAgree
<1>1. TicketsOf(Buyers) = SumOver(Held, Buyers) BY BuyersAreWallets, TicketsSum
<1> QED BY <1>1 DEF Book, Books, Enrolled, Revealed, Safe, Settling, Counted, CountersAgree

(* The books give the seed.                                                *)
LEMMA BookSeed == ASSUME Book PROVE SeedCanonical
<1>1. /\ lottery.poc_aggregate_hash \ {NoWallet} = Included
      /\ NoWallet \in lottery.poc_aggregate_hash => lottery.participants_count = 1
  BY DEF Book, Books, Revealed
<1>2. ASSUME Frozen
      PROVE  root.seed = [ eligible  |-> Cardinality(Included),
                           tickets   |-> TicketsOf(Included),
                           aggregate |-> Included,
                           pool      |-> PoolOf(Included) ]
  <2>1. Aggregation BY DEF Book, Books, Draws
  <2>2. root.processed_count = lottery.participants_count BY <1>2, <2>1 DEF Aggregation, Frozen
  <2>3. Passed(root.processed_count) = Included BY <2>2, EverythingPassed
  <2>4. TicketsOf(Included) = SumOver(Held, Included) BY BuyersAreWallets, TicketsSum
  <2>5. /\ root.eligible_count = Cardinality(Included)
        /\ root.total_eligible_tickets = SumOver(Held, Included)
        /\ root.participants_commitment = PoolOf(Included)
    <3>1. /\ root.eligible_count = Cardinality(Passed(root.processed_count))
          /\ root.total_eligible_tickets = SumOver(Held, Passed(root.processed_count))
          /\ root.participants_commitment = PoolOf(Passed(root.processed_count))
      BY <1>2, <2>1 DEF Aggregation, Frozen
    <3> QED BY <2>3, <3>1, Zenon
  <2> QED BY <1>2, <2>1, <2>4, <2>5 DEF Aggregation
<1> QED BY <1>1, <1>2 DEF SeedCanonical, PoolOf

(* Tickets that remain are those of the included wallets not yet drawn.    *)
LEMMA RemainingSum ==
  ASSUME Book, Frozen
  PROVE  RemainingTickets(root) = SumOver(Held, Included \ Recorded)
<1>1. TypeOK /\ Booked BY DEF Book, Books, Draws, Safe, TypeInv
<1>2. root.total_eligible_tickets = SumOver(Held, Included)
  <2>1. SeedCanonical BY BookSeed
  <2>2. root.seed.tickets = TicketsOf(Included) BY <2>1 DEF SeedCanonical
  <2>3. root.seed.tickets = root.total_eligible_tickets
    BY DEF Book, Books, Draws, Aggregation
  <2> QED BY <2>2, <2>3, BuyersAreWallets, TicketsSum
<1>3. Recorded \in SUBSET Included BY <1>1, RecordedIncluded
<1>4. IsFiniteSet(Included) /\ \A w \in Included : Held[w] \in Nat
  BY <1>1, BuyersAreWallets, WalletsFinite, HeldType
<1>5. SumOver(Held, Included) = SumOver(Held, Recorded) + SumOver(Held, Included \ Recorded)
  BY <1>3, <1>4, SumParts
<1>6. SumOver(Held, Recorded) \in Nat /\ SumOver(Held, Included \ Recorded) \in Nat
  <2>1. IsFiniteSet(Recorded) /\ IsFiniteSet(Included \ Recorded)
    BY <1>3, <1>4, FS_Subset
  <2> QED BY <1>3, <1>4, <2>1, SumNat
<1> QED BY <1>1, <1>2, <1>5, <1>6 DEF RemainingTickets, Booked

(* The books give the accounting of a pass.                                *)
LEMMA BookPass == ASSUME Book PROVE PassAccounting
<1> SUFFICES ASSUME root.phase = "selecting" PROVE PassAccounting
  BY DEF PassAccounting
<1> DEFINE passed == Passed(root.round_processed_count) \ Recorded
<1>1. Booked /\ Drawing BY DEF Book, Books, Draws
<1>2. RemainingTickets(root) = TicketsOf(Included \ Recorded)
  <2>1. Included \ Recorded \in SUBSET Wallet BY BuyersAreWallets
  <2> QED BY <2>1, RemainingSum, TicketsSum DEF Frozen
<1>3. TicketsOf(passed) = SumOver(Held, passed)
  <2>1. passed \in SUBSET Wallet BY BuyersAreWallets
  <2> QED BY <2>1, TicketsSum
<1>4. passed = (Included \cap Before(root.round_processed_count)) \ Recorded BY DEF Passed
<1> HIDE DEF passed
<1>5. /\ root.round_draw_index < RemainingTickets(root)
      /\ root.round_remaining_tickets_seen = TicketsOf(passed)
      /\ root.pending_winner_found <=> root.round_draw_index < root.round_remaining_tickets_seen
  BY <1>1, <1>3 DEF Drawing, passed
<1>6. { w \in Wallet : participant[w].selected } = Recorded \cup Pending BY <1>1 DEF Booked
<1> QED BY <1>2, <1>4, <1>5, <1>6, Zenon DEF PassAccounting

(* The books give the winner book.                                         *)
LEMMA BookWinners == ASSUME Book PROVE WinnerBook
<1>1. TypeOK /\ Aggregation /\ Booked BY DEF Book, Books, Draws, Safe, TypeInv
<1> DEFINE n == root.selected_count
           f == [i \in 0..n - 1 |-> EntryAt(i).wallet]
<1>2. n \in Nat BY <1>1 DEF TypeOK, FinalizationLedger
<1>3. Cardinality(Recorded) = n
  <2>1. IsFiniteSet(0..n - 1) /\ Cardinality(0..n - 1) = n
    <3> HIDE DEF n
    <3> QED BY <1>2, FS_Interval
  <2>2. \A i, j \in 0..n - 1 : f[i] = f[j] => i = j BY <1>1 DEF Booked
  <2>3. Recorded = { f[i] : i \in 0..n - 1 } BY DEF Recorded
  <2> HIDE DEF f
  <2> DEFINE D == 0..n - 1
  <2>4. Cardinality({ f[i] : i \in D }) = Cardinality(D)
    <3>1. IsFiniteSet(D) /\ \A i, j \in D : f[i] = f[j] => i = j BY <2>1, <2>2
    <3> HIDE DEF D
    <3> QED BY <3>1, ImageSize
  <2>5. Cardinality(Recorded) = Cardinality({ f[i] : i \in 0..n - 1 }) BY <2>3, Zenon
  <2> QED BY <2>1, <2>4, <2>5
<1>4. Recorded \subseteq Included BY <1>1, RecordedIncluded
<1>5. TicketsOf(Recorded) = SumOver(Held, Recorded)
  <2>1. Recorded \in SUBSET Wallet BY <1>4, BuyersAreWallets
  <2> QED BY <2>1, TicketsSum
<1>6. root.phase = "completed" => root.target_winners \in 1..MaxWinners
  BY <1>1 DEF Aggregation, Frozen
<1> QED BY <1>1, <1>3, <1>4, <1>5, <1>6 DEF WinnerBook, Booked

(* In every round, for any wallets, price, cap and windows: the counters   *)
(* of the Lottery account (state/lottery.rs), which every instruction      *)
(* trusts instead of walking the participants, are the counts and sums     *)
(* they stand for, and the indexes of the participants are dense.          *)
THEOREM CountersTrue == Spec => []CountersAgree
<1>1. Book => CountersAgree BY BookCounters
<1> QED BY <1>1, BookInvariant, PTL

(* The seed of every round is a function of the reveals included and of    *)
(* their tickets: neither the chunks of FinalizeWinners, nor their order   *)
(* among other instructions, nor anything after the freeze enters it.      *)
THEOREM SeedFixed == Spec => []SeedCanonical
<1>1. Book => SeedCanonical BY BookSeed
<1> QED BY <1>1, BookInvariant, PTL

(* In every selection pass the draw is below the tickets that remain, and  *)
(* a winner is pending exactly when the tickets seen have passed the draw: *)
(* no pass of any round ends in WinnerNotFound, however it is cut into     *)
(* chunks.                                                                 *)
THEOREM PassesAccounted == Spec => []PassAccounting
<1>1. Book => PassAccounting BY BookPass
<1> QED BY <1>1, BookInvariant, PTL

(* The winner pages of every round fill in order and without gaps, with    *)
(* distinct wallets whose reveals were included, each with all its         *)
(* tickets, and as many as the round set out to draw.                      *)
THEOREM WinnersBooked == Spec => []WinnerBook
<1>1. Book => WinnerBook BY BookWinners
<1> QED BY <1>1, BookInvariant, PTL

(***************************************************************************)
(* The vote.                                                               *)
(*                                                                         *)
(* The number of winners is the one the included reveals vote for. The     *)
(* tally is kept incrementally, by two instructions, from an account that  *)
(* is opened with the first of them; that it equals the tally of the       *)
(* reveals included (TrueTally) follows from the laws of sums and of Min.  *)
(* It stays right because its size is fixed when it opens, which is after  *)
(* the sale (Opened), and because an attested vote never changes. That the *)
(* election has a winner at all, and one only, is the order Beats puts on  *)
(* numbers of winners.                                                     *)
(***************************************************************************)
(* The tally that the reveals included so far call for: for each number of *)
(* winners the tickets of those who voted for it, and the time of the      *)
(* first of them.                                                          *)
TrueTally ==
  [ created     |-> TRUE,
    max_winners |-> MaxWinners,
    processed   |-> Cardinality(Included),
    weights     |-> [c \in 1..MaxWinners |-> SumOver(Held, VotersFor(c))],
    first_seen  |-> [c \in 1..MaxWinners |-> FirstVote(c)] ]

(* The tally account, once opened, is that tally; and until the pool is    *)
(* frozen the Lottery account has the number it elects. A tally is opened  *)
(* only after the sale, which is what keeps its size, a function of the    *)
(* participants, right; and a vote is counted only of a wallet whose vote  *)
(* was checked against the cap.                                            *)
Votes ==
  /\ tally.created => UploadStarted /\ tally = TrueTally
  /\ ~tally.created => Included = {}
  /\ \A w \in Attested : participant[w].voted_winners \in 1..MaxWinners
  /\ tally.created /\ lottery.participants_count > 1 /\ ~Frozen =>
       lottery.selected_number_of_winners
         = SelectedWinners(tally, lottery.participants_count)

(***************************************************************************)
(* The election.                                                           *)
(***************************************************************************)
(* Beats orders the numbers with a vote, so one of them beats all others.  *)
LEMMA BestExists ==
  ASSUME NEW t, NEW D \in SUBSET Int, IsFiniteSet(D), D # {},
         \A c \in D : t.weights[c] \in Int /\ t.first_seen[c] \in Int
  PROVE  \E c \in D : \A d \in D \ {c} : Beats(t, c, d)
<1> DEFINE R == { p \in D \X D : Beats(t, p[1], p[2]) }
<1>1. \A a, b \in D : <<a, b>> \in R <=> Beats(t, a, b) OBVIOUS
<1>2. \A a, b \in D : a # b => <<a, b>> \in R \/ <<b, a>> \in R
  <2> SUFFICES ASSUME NEW a \in D, NEW b \in D, a # b PROVE Beats(t, a, b) \/ Beats(t, b, a)
    BY <1>1
  <2> QED BY DEF Beats
<1>3. \A a, b, c \in D : <<a, b>> \in R /\ <<b, c>> \in R => <<a, c>> \in R
  <2> SUFFICES ASSUME NEW a \in D, NEW b \in D, NEW c \in D, Beats(t, a, b), Beats(t, b, c)
               PROVE  Beats(t, a, c)
    BY <1>1
  <2>1. /\ t.weights[a] \in Int /\ t.weights[b] \in Int /\ t.weights[c] \in Int
        /\ t.first_seen[a] \in Int /\ t.first_seen[b] \in Int /\ t.first_seen[c] \in Int
        /\ a \in Int /\ b \in Int /\ c \in Int
    OBVIOUS
  <2>2. CASE t.weights[a] > t.weights[b] BY <2>1, <2>2, SMTT(30) DEF Beats
  <2>3. CASE t.weights[a] = t.weights[b] BY <2>1, <2>3, SMTT(30) DEF Beats
  <2> QED BY <2>2, <2>3 DEF Beats
<1> HIDE DEF R
<1>4. PICK c \in D : \A d \in D \ {c} : <<c, d>> \in R BY <1>2, <1>3, TopExists
<1>5. \A d \in D \ {c} : Beats(t, c, d)
  <2> SUFFICES ASSUME NEW d \in D \ {c} PROVE Beats(t, c, d) OBVIOUS
  <2>1. <<c, d>> \in R BY <1>4
  <2> QED BY <1>1, <2>1
<1> QED BY <1>5

(* SelectedWinners picks the number that beats all others.                 *)
LEMMA SelectedWins ==
  ASSUME NEW t, NEW n \in Nat, n > 1, t.max_winners \in Nat,
         NEW D, D = { c \in 1..AtMost(t.max_winners, n - 1) : t.weights[c] > 0 }, D # {},
         \A c \in D : t.weights[c] \in Int /\ t.first_seen[c] \in Int
  PROVE  /\ SelectedWinners(t, n) \in D
         /\ \A d \in D \ {SelectedWinners(t, n)} : Beats(t, SelectedWinners(t, n), d)
<1>1. D \subseteq Int /\ IsFiniteSet(D)
  <2> DEFINE m == AtMost(t.max_winners, n - 1)
  <2>1. m \in Int BY DEF AtMost
  <2> HIDE DEF m
  <2>2. IsFiniteSet(1..m) BY <2>1, FS_Interval
  <2>3. 1..m \subseteq Int BY <2>1
  <2>4. D \subseteq 1..m BY DEF m
  <2> QED BY <2>2, <2>3, <2>4, FS_Subset
<1>2. \E c \in D : \A d \in D \ {c} : Beats(t, c, d) BY <1>1, BestExists
<1>3. SelectedWinners(t, n) = CHOOSE e \in D : \A d \in D \ {e} : Beats(t, e, d)
  BY DEF SelectedWinners
<1> QED BY <1>2, <1>3

(***************************************************************************)
(* The tally.                                                              *)
(***************************************************************************)
(* Voters are wallets, finitely many; their tickets add up to a natural,   *)
(* and the first vote has a time.                                          *)
LEMMA VotersType ==
  ASSUME TypeOK
  PROVE  \A c : /\ VotersFor(c) \in SUBSET Wallet /\ IsFiniteSet(VotersFor(c))
                /\ SumOver(Held, VotersFor(c)) \in Nat
                /\ FirstVote(c) \in Int
<1> SUFFICES ASSUME NEW c
             PROVE  /\ VotersFor(c) \in SUBSET Wallet /\ IsFiniteSet(VotersFor(c))
                    /\ SumOver(Held, VotersFor(c)) \in Nat
                    /\ FirstVote(c) \in Int
  OBVIOUS
<1>1. VotersFor(c) \in SUBSET Wallet BY DEF VotersFor, Included
<1>2. IsFiniteSet(VotersFor(c)) BY <1>1, WalletsFinite
<1>3. \A w \in VotersFor(c) : Held[w] \in Nat BY <1>1, HeldType
<1>4. SumOver(Held, VotersFor(c)) \in Nat BY <1>2, <1>3, SumNat
<1> DEFINE T == { participant[w].attested_at_unix : w \in VotersFor(c) }
           M == {I64_MAX} \cup T
<1>5. IsFiniteSet(M) /\ M # {} /\ M \in SUBSET Int
  <2>1. IsFiniteSet(T)
    <3> DEFINE at == [w \in VotersFor(c) |-> participant[w].attested_at_unix]
    <3>1. T = { at[w] : w \in VotersFor(c) } OBVIOUS
    <3> HIDE DEF at
    <3>2. IsFiniteSet({ at[w] : w \in VotersFor(c) }) BY <1>2, ImageFinite
    <3> QED BY <3>1, <3>2, Zenon
  <2>2. T \in SUBSET Int BY <1>1 DEF TypeOK, ParticipantAccount
  <2>3. I64_MAX \in Int BY DEF I64_MAX
  <2> HIDE DEF T
  <2> QED BY <2>1, <2>2, <2>3, FS_AddElement
<1>6. Min(M) \in Int
  <2> HIDE DEF M
  <2> QED BY <1>5, MinIs
<1> QED BY <1>1, <1>2, <1>4, <1>6 DEF FirstVote

(* A tally that is opened late, or not yet, counts the votes of nobody:    *)
(* exactly those included so far.                                          *)
LEMMA TallyOpened ==
  ASSUME Votes PROVE OpenTally = TrueTally
<1>1. CASE tally.created BY <1>1 DEF OpenTally, Votes
<1>2. CASE ~tally.created
  <2>1. \A c : VotersFor(c) = {} BY <1>2 DEF Votes, VotersFor
  <2>2. \A c : SumOver(Held, VotersFor(c)) = 0
    <3> SUFFICES ASSUME NEW c PROVE SumOver(Held, VotersFor(c)) = 0 OBVIOUS
    <3>1. VotersFor(c) = {} BY <2>1
    <3> QED BY <3>1, SumEmpty
  <2>3. \A c : FirstVote(c) = I64_MAX
    <3> SUFFICES ASSUME NEW c PROVE FirstVote(c) = I64_MAX OBVIOUS
    <3> DEFINE M == {I64_MAX} \cup { participant[w].attested_at_unix : w \in VotersFor(c) }
    <3>1. M = {I64_MAX} BY <2>1
    <3>2. Min({I64_MAX}) = I64_MAX BY MinUnique DEF I64_MAX
    <3> HIDE DEF M
    <3>3. Min(M) = I64_MAX BY <3>1, <3>2
    <3> QED BY <3>3 DEF FirstVote, M
  <2>4. Cardinality(Included) = 0 BY <1>2, FS_EmptySet DEF Votes
  <2> QED BY <1>2, <2>2, <2>3, <2>4 DEF OpenTally, NewTally, TrueTally
<1> QED BY <1>1, <1>2

(* Wallets of S whose vote, after the step, is for count.                  *)
NewVoters(S, count) == { w \in S : participant'[w].voted_winners = count }

(* How the tally must change when the reveals of S join those included:    *)
(* the weights by the tickets of S, the first votes by the times of their  *)
(* attestation.                                                            *)
LEMMA TallyGrows ==
  ASSUME TypeOK, TypeOK', NEW S \in SUBSET Wallet, S \cap Included = {},
         Included' = Included \cup S, Held' = Held, MaxWinners' = MaxWinners,
         \A w \in Included :
           /\ participant'[w].voted_winners = participant[w].voted_winners
           /\ participant'[w].attested_at_unix = participant[w].attested_at_unix
  PROVE  TrueTally' =
           [ created     |-> TRUE,
             max_winners |-> MaxWinners,
             processed   |-> Cardinality(Included) + Cardinality(S),
             weights     |-> [c \in 1..MaxWinners |->
               SumOver(Held, VotersFor(c)) + SumOver(Held, NewVoters(S, c))],
             first_seen  |-> [c \in 1..MaxWinners |->
               Min({FirstVote(c)} \cup
                   { participant'[w].attested_at_unix : w \in NewVoters(S, c) })] ]
<1>1. Cardinality(Included') = Cardinality(Included) + Cardinality(S)
  <2>1. IsFiniteSet(Included) /\ IsFiniteSet(S) BY BuyersAreWallets, WalletsFinite
  <2>2. Cardinality(Included) \in Nat /\ Cardinality(S) \in Nat BY BuyersAreWallets, WalletsFinite
  <2>3. Cardinality(Included \cap S) = 0
    <3>1. Included \cap S = {} OBVIOUS
    <3> QED BY <3>1, FS_EmptySet
  <2>4. Cardinality(Included \cup S)
          = Cardinality(Included) + Cardinality(S) - Cardinality(Included \cap S)
    BY <2>1, FS_Union
  <2>5. Cardinality(Included') = Cardinality(Included \cup S) BY Zenon
  <2> QED BY <2>2, <2>3, <2>4, <2>5
<1>2. \A c : VotersFor(c)' = VotersFor(c) \cup NewVoters(S, c) /\ VotersFor(c) \cap NewVoters(S, c) = {}
  BY DEF VotersFor, NewVoters
<1>3. \A c : SumOver(Held', VotersFor(c)')
                = SumOver(Held, VotersFor(c)) + SumOver(Held, NewVoters(S, c))
  <2> SUFFICES ASSUME NEW c
               PROVE  SumOver(Held', VotersFor(c)')
                        = SumOver(Held, VotersFor(c)) + SumOver(Held, NewVoters(S, c))
    OBVIOUS
  <2>1. NewVoters(S, c) \in SUBSET Wallet BY DEF NewVoters
  <2>2. IsFiniteSet(VotersFor(c)) /\ IsFiniteSet(NewVoters(S, c))
    BY <2>1, VotersType, WalletsFinite
  <2>3. \A w \in VotersFor(c) \cup NewVoters(S, c) : Held[w] \in Nat
    BY <2>1, VotersType, HeldType
  <2>4. SumOver(Held, VotersFor(c) \cup NewVoters(S, c))
          = SumOver(Held, VotersFor(c)) + SumOver(Held, NewVoters(S, c))
    BY <1>2, <2>2, <2>3, SumUnion
  <2>5. VotersFor(c)' = VotersFor(c) \cup NewVoters(S, c) BY <1>2
  <2> QED BY <2>4, <2>5, Zenon
<1>4. \A c : FirstVote(c)'
                = Min({FirstVote(c)} \cup
                      { participant'[w].attested_at_unix : w \in NewVoters(S, c) })
  <2> SUFFICES ASSUME NEW c
               PROVE  FirstVote(c)'
                        = Min({FirstVote(c)} \cup
                              { participant'[w].attested_at_unix : w \in NewVoters(S, c) })
    OBVIOUS
  <2> DEFINE A == {I64_MAX} \cup { participant[w].attested_at_unix : w \in VotersFor(c) }
             B == { participant'[w].attested_at_unix : w \in NewVoters(S, c) }
  <2>1. IsFiniteSet(A) /\ A # {} /\ A \in SUBSET Int
    <3> DEFINE at == [w \in VotersFor(c) |-> participant[w].attested_at_unix]
    <3>1. A = {I64_MAX} \cup { at[w] : w \in VotersFor(c) } OBVIOUS
    <3>2. \A w \in VotersFor(c) : at[w] \in Int BY VotersType DEF TypeOK, ParticipantAccount
    <3>3. I64_MAX \in Int BY DEF I64_MAX
    <3> HIDE DEF A, at
    <3>4. IsFiniteSet(VotersFor(c)) BY VotersType
    <3>5. IsFiniteSet({ at[w] : w \in VotersFor(c) }) BY <3>4, ImageFinite
    <3> QED BY <3>1, <3>2, <3>3, <3>5, FS_AddElement
  <2>2. IsFiniteSet(B) /\ B \in SUBSET Int
    <3>1. NewVoters(S, c) \in SUBSET Wallet BY DEF NewVoters
    <3> DEFINE at == [w \in NewVoters(S, c) |-> participant'[w].attested_at_unix]
    <3>2. B = { at[w] : w \in NewVoters(S, c) } OBVIOUS
    <3>3. \A w \in NewVoters(S, c) : at[w] \in Int BY <3>1 DEF TypeOK, ParticipantAccount
    <3> HIDE DEF B, at
    <3>4. IsFiniteSet(NewVoters(S, c)) BY <3>1, WalletsFinite
    <3>5. IsFiniteSet({ at[w] : w \in NewVoters(S, c) }) BY <3>4, ImageFinite
    <3> QED BY <3>2, <3>3, <3>5
  <2>3. {I64_MAX} \cup { participant'[w].attested_at_unix : w \in VotersFor(c)' } = A \cup B
    <3>1. VotersFor(c)' = VotersFor(c) \cup NewVoters(S, c) BY <1>2
    <3>2. \A w \in VotersFor(c) : participant'[w].attested_at_unix = participant[w].attested_at_unix
      BY DEF VotersFor
    <3> QED BY <3>1, <3>2
  <2>4. FirstVote(c)' = Min(A \cup B) BY <2>3, Zenon DEF FirstVote
  <2>5. FirstVote(c) = Min(A) BY DEF FirstVote
  <2> HIDE DEF A, B
  <2>6. Min({Min(A)} \cup B) = Min(A \cup B) BY <2>1, <2>2, MinJoin
  <2> QED BY <2>4, <2>5, <2>6 DEF B
<1> QED BY <1>1, <1>3, <1>4, Zenon DEF TrueTally

(***************************************************************************)
(* One lemma per instruction, or per group of them.                        *)
(***************************************************************************)
(* A step that leaves the included reveals, their votes and the number     *)
(* they elect alone, or freezes the pool.                                  *)
SameVotes ==
  /\ tally' = tally
  /\ lottery'.participants_count = lottery.participants_count
  /\ UploadStarted => UploadStarted'
  /\ \A w \in Wallet :
       /\ participant'[w].tickets_bought = participant[w].tickets_bought
       /\ participant'[w].reveal_included = participant[w].reveal_included
       /\ participant[w].reveal_included =>
            /\ participant'[w].voted_winners = participant[w].voted_winners
            /\ participant'[w].attested_at_unix = participant[w].attested_at_unix
  /\ \A w \in Attested' : participant'[w].voted_winners \in 1..MaxWinners
  /\ ~Frozen' =>
       /\ ~Frozen
       /\ lottery'.selected_number_of_winners = lottery.selected_number_of_winners

(* The cap on winners depends on the number of participants only.          *)
LEMMA SameMaxWinners ==
  ASSUME lottery'.participants_count = lottery.participants_count
  PROVE  MaxWinners' = MaxWinners
  BY DEF MaxWinners

(* Such a step keeps Votes.                                                *)
LEMMA VotesKept ==
  ASSUME Votes, SameVotes PROVE Votes'
<1>1. MaxWinners' = MaxWinners BY SameMaxWinners DEF SameVotes
<1>2. Held' = Held /\ Included' = Included BY DEF SameVotes, Held, Included
<1>3. \A c : VotersFor(c)' = VotersFor(c)
  BY <1>2 DEF SameVotes, VotersFor, Included
<1>4. \A c : SumOver(Held', VotersFor(c)') = SumOver(Held, VotersFor(c))
  BY <1>2, <1>3, Zenon
<1>5. \A c : FirstVote(c)' = FirstVote(c)
  <2> SUFFICES ASSUME NEW c PROVE FirstVote(c)' = FirstVote(c) OBVIOUS
  <2>1. { participant'[w].attested_at_unix : w \in VotersFor(c)' }
          = { participant[w].attested_at_unix : w \in VotersFor(c) }
    BY <1>3 DEF SameVotes, VotersFor, Included
  <2> QED BY <2>1, Zenon DEF FirstVote
<1>6. Cardinality(Included') = Cardinality(Included) BY <1>2, Zenon
<1>7. TrueTally' = TrueTally BY <1>1, <1>4, <1>5, <1>6 DEF TrueTally
<1> QED BY <1>1, <1>2, <1>7 DEF Votes, SameVotes

(* So does any step before the upload phase that attests nothing.          *)
LEMMA NoVotesYet ==
  ASSUME TypeOK, Settling, Votes, ~UploadStarted, tally' = tally,
         \A w \in Wallet :
           /\ participant'[w].attested_uploaded = participant[w].attested_uploaded
           /\ participant'[w].reveal_included = participant[w].reveal_included
  PROVE  Votes'
<1>1. Attested' = {} /\ Included' = {} BY NothingBeforeUpload, SameFlags
<1>2. ~tally'.created BY DEF Votes
<1> QED BY <1>1, <1>2 DEF Votes

(* AttestReveal counts one vote, at the time it attests it.                *)
LEMMA VotesAttestReveal ==
  ASSUME Book, Book', Votes, NEW w \in Wallet, NEW vote \in Nat, AttestReveal(w, vote)
  PROVE  Votes'
<1> DEFINE voted == [AddVote(OpenTally, vote, participant[w].tickets_bought, now)
                       EXCEPT !.processed = OpenTally.processed + 1]
           chosen == SelectedWinners(voted, lottery.participants_count)
<1>1. /\ ~participant[w].attested_uploaded /\ ~participant[w].reveal_included
      /\ InUploadPhase /\ vote \in 1..MaxWinners
      /\ participant' = [participant EXCEPT
           ![w] = [VoteAndAttest(participant[w], vote) EXCEPT !.reveal_included = TRUE]]
      /\ now' = now /\ root' = root
  BY DEF AttestReveal, MayAttest
<1>2. TypeOK /\ TypeOK' BY DEF Book, Safe, TypeInv
<1>3. OpenTally = TrueTally BY TallyOpened
<1>4. tally' = voted
  <2>1. [AddVote(OpenTally, vote, participant[w].tickets_bought, now) EXCEPT !.processed = @ + 1]
          = voted
    BY <1>1, <1>3 DEF AddVote, TrueTally
  <2> QED BY <2>1 DEF AttestReveal
<1>5. PICK attested, uploaded, hash, start, complete :
        lottery' = [lottery EXCEPT
          !.attested_count             = attested,
          !.provider_uploaded_count    = uploaded,
          !.poc_aggregate_hash         = hash,
          !.selected_number_of_winners =
            IF lottery.participants_count > 1 THEN chosen
            ELSE lottery.selected_number_of_winners,
          !.settlement_start_unix      = start,
          !.uploads_complete           = complete]
  BY <1>4, ZenonT(30) DEF AttestReveal
<1> HIDE DEF voted, chosen
<1>6. /\ lottery'.participants_count = lottery.participants_count
      /\ lottery'.upload_start_unix = lottery.upload_start_unix
      /\ lottery.participants_count > 1 => lottery'.selected_number_of_winners = chosen
  BY <1>2, <1>5 DEF TypeOK, LotteryAccount
<1>7. MaxWinners' = MaxWinners /\ UploadStarted /\ UploadStarted' /\ Frozen' = Frozen
  BY <1>1, <1>6, SameMaxWinners DEF UploadStarted, InUploadPhase, Frozen
<1>8. /\ participant'[w].tickets_bought = participant[w].tickets_bought
      /\ participant'[w].attested_uploaded /\ participant'[w].reveal_included
      /\ participant'[w].voted_winners = vote
      /\ participant'[w].attested_at_unix = now
      /\ \A v \in Wallet \ {w} : participant'[v] = participant[v]
  BY <1>1, <1>2, AttestedAccount
<1>9. Held' = Held BY <1>8 DEF Held
<1>10. Included' = Included \cup {w} /\ {w} \cap Included = {} /\ Attested' = Attested \cup {w}
  BY <1>1, <1>8 DEF Included, Attested
<1>11. \A v \in Attested' : participant'[v].voted_winners \in 1..MaxWinners
  BY <1>1, <1>8, <1>10 DEF Votes, Attested
<1>12. TrueTally' =
         [ created     |-> TRUE,
           max_winners |-> MaxWinners,
           processed   |-> Cardinality(Included) + Cardinality({w}),
           weights     |-> [c \in 1..MaxWinners |->
             SumOver(Held, VotersFor(c)) + SumOver(Held, NewVoters({w}, c))],
           first_seen  |-> [c \in 1..MaxWinners |->
             Min({FirstVote(c)} \cup
                 { participant'[v].attested_at_unix : v \in NewVoters({w}, c) })] ]
  <2>1. \A v \in Included : participant'[v] = participant[v] BY <1>1, <1>8 DEF Included
  <2> QED BY <1>2, <1>7, <1>9, <1>10, <2>1, TallyGrows
<1>13. \A c : NewVoters({w}, c) = IF c = vote THEN {w} ELSE {} BY <1>8 DEF NewVoters
<1>14. \A c : SumOver(Held, NewVoters({w}, c))
                 = IF c = vote THEN participant[w].tickets_bought ELSE 0
  <2> SUFFICES ASSUME NEW c
               PROVE  SumOver(Held, NewVoters({w}, c))
                        = IF c = vote THEN participant[w].tickets_bought ELSE 0
    OBVIOUS
  <2>1. SumOver(Held, {}) = 0 BY SumEmpty
  <2>2. Held[w] = participant[w].tickets_bought /\ Held[w] \in Nat
    BY <1>2, HeldType DEF Held
  <2>3. SumOver(Held, {} \cup {w}) = SumOver(Held, {}) + Held[w]
    BY <2>2, FS_EmptySet, SumAdd
  <2>4. SumOver(Held, {w}) = SumOver(Held, {}) + Held[w]
    <3>1. {} \cup {w} = {w} OBVIOUS
    <3> QED BY <2>3, <3>1, Zenon
  <2>5. CASE c = vote
    <3>1. NewVoters({w}, c) = {w} BY <1>13, <2>5
    <3>2. SumOver(Held, NewVoters({w}, c)) = SumOver(Held, {w}) BY <3>1, Zenon
    <3>3. SumOver(Held, {w}) = participant[w].tickets_bought BY <2>1, <2>2, <2>4
    <3> QED BY <2>5, <3>2, <3>3
  <2>6. CASE c # vote
    <3>1. NewVoters({w}, c) = {} BY <1>13, <2>6
    <3>2. SumOver(Held, NewVoters({w}, c)) = SumOver(Held, {}) BY <3>1, Zenon
    <3> QED BY <2>1, <2>6, <3>2
  <2> QED BY <2>5, <2>6
<1>15. \A c : Min({FirstVote(c)} \cup
                  { participant'[v].attested_at_unix : v \in NewVoters({w}, c) })
                 = IF c = vote THEN AtMost(FirstVote(c), now) ELSE FirstVote(c)
  <2> SUFFICES ASSUME NEW c
               PROVE  Min({FirstVote(c)} \cup
                          { participant'[v].attested_at_unix : v \in NewVoters({w}, c) })
                        = IF c = vote THEN AtMost(FirstVote(c), now) ELSE FirstVote(c)
    OBVIOUS
  <2> DEFINE M == {FirstVote(c)} \cup
                  { participant'[v].attested_at_unix : v \in NewVoters({w}, c) }
  <2>1. FirstVote(c) \in Int /\ now \in Int BY <1>2, VotersType DEF TypeOK
  <2>2. CASE c = vote
    <3>1. M = {FirstVote(c), now} BY <1>8, <1>13, <2>2
    <3> DEFINE m == AtMost(FirstVote(c), now)
    <3>2. m \in {FirstVote(c), now} /\ \A y \in {FirstVote(c), now} : m <= y
      BY <2>1 DEF AtMost
    <3> HIDE DEF M, m
    <3>3. M \in SUBSET Int /\ m \in M /\ \A y \in M : m <= y BY <2>1, <3>1, <3>2
    <3>4. Min(M) = m BY <3>3, MinUnique
    <3> QED BY <2>2, <3>4 DEF M, m
  <2>3. CASE c # vote
    <3>1. M = {FirstVote(c)} BY <1>13, <2>3
    <3> HIDE DEF M
    <3>2. M \in SUBSET Int /\ FirstVote(c) \in M /\ \A y \in M : FirstVote(c) <= y
      BY <2>1, <3>1
    <3>3. Min(M) = FirstVote(c) BY <3>2, MinUnique
    <3> QED BY <2>3, <3>3 DEF M
  <2> QED BY <2>2, <2>3
<1>16. vote \in 1..MaxWinners BY <1>1
<1>17. tally' = TrueTally'
  <2>1. Cardinality({w}) = 1 BY FS_Singleton
  <2>2. TrueTally' =
         [ created     |-> TRUE,
           max_winners |-> MaxWinners,
           processed   |-> Cardinality(Included) + 1,
           weights     |-> [c \in 1..MaxWinners |->
             SumOver(Held, VotersFor(c)) + IF c = vote THEN participant[w].tickets_bought ELSE 0],
           first_seen  |-> [c \in 1..MaxWinners |->
             IF c = vote THEN AtMost(FirstVote(c), now) ELSE FirstVote(c)] ]
    BY <1>12, <1>14, <1>15, <2>1, Zenon
  <2>3. \A c : SumOver(Held, VotersFor(c)) \in Nat BY <1>2, VotersType
  <2> DEFINE W == [c \in 1..MaxWinners |-> SumOver(Held, VotersFor(c))]
             F == [c \in 1..MaxWinners |-> FirstVote(c)]
  <2>4. OpenTally = [created |-> TRUE, max_winners |-> MaxWinners,
                     processed |-> Cardinality(Included), weights |-> W, first_seen |-> F]
    BY <1>3 DEF TrueTally
  <2>5. [W EXCEPT ![vote] = W[vote] + participant[w].tickets_bought]
          = [c \in 1..MaxWinners |->
              SumOver(Held, VotersFor(c)) + IF c = vote THEN participant[w].tickets_bought ELSE 0]
    <3> DEFINE x == participant[w].tickets_bought
               V(c) == SumOver(Held, VotersFor(c))
    <3>1. W = [c \in 1..MaxWinners |-> V(c)] /\ \A c : V(c) \in Nat BY <2>3
    <3>3. x \in Nat /\ MaxWinners \in Nat
      <4>1. MaxWinners \in Nat BY <1>2, MaxWinnersBound, RoundAssumption
      <4> QED BY <1>2, <4>1, HeldType DEF Held
    <3> HIDE DEF W, V, x
    <3>2. [W EXCEPT ![vote] = W[vote] + x]
            = [c \in 1..MaxWinners |-> V(c) + IF c = vote THEN x ELSE 0]
      BY SMTT(30), <1>16, <3>1, <3>3
    <3> QED BY <3>2 DEF V, x
  <2>6. [F EXCEPT ![vote] = AtMost(F[vote], now)]
          = [c \in 1..MaxWinners |->
              IF c = vote THEN AtMost(FirstVote(c), now) ELSE FirstVote(c)]
    BY <1>1
  <2> HIDE DEF W, F
  <2>7. voted = [created     |-> TRUE,
                 max_winners |-> MaxWinners,
                 processed   |-> Cardinality(Included) + 1,
                 weights     |-> [W EXCEPT ![vote] = W[vote] + participant[w].tickets_bought],
                 first_seen  |-> [F EXCEPT ![vote] = AtMost(F[vote], now)]]
    <3> DEFINE ws == [W EXCEPT ![vote] = W[vote] + participant[w].tickets_bought]
               fs == [F EXCEPT ![vote] = AtMost(F[vote], now)]
               n  == Cardinality(Included) + 1
    <3>1. /\ OpenTally.weights = W /\ OpenTally.first_seen = F
          /\ OpenTally.processed = Cardinality(Included)
          /\ OpenTally.max_winners = MaxWinners
      BY <2>4
    <3>2. AddVote(OpenTally, vote, participant[w].tickets_bought, now)
            = [OpenTally EXCEPT !.weights = ws, !.first_seen = fs]
      BY <1>16, <3>1 DEF AddVote
    <3> HIDE DEF ws, fs
    <3>3. voted = [OpenTally EXCEPT !.weights = ws, !.first_seen = fs, !.processed = n]
      BY <3>1, <3>2 DEF voted
    <3> HIDE DEF n
    <3>4. voted = [created |-> TRUE, max_winners |-> MaxWinners, processed |-> n,
                   weights |-> ws, first_seen |-> fs]
      BY <2>4, <3>3
    <3> QED BY <3>4 DEF ws, fs, n
  <2> QED BY <1>4, <2>2, <2>5, <2>6, <2>7, Zenon
<1> QED BY <1>4, <1>6, <1>7, <1>11, <1>17 DEF Votes, chosen, TrueTally

(* UploadReveals counts those of its whole batch, at the times they were   *)
(* attested, whatever the order of uploads.                                *)
LEMMA VotesUploadReveals ==
  ASSUME Book, Book', Votes, NEW byAuthority \in BOOLEAN, NEW S \in SUBSET Wallet,
         UploadReveals(byAuthority, S)
  PROVE  Votes'
<1> DEFINE begun  == BeginRemediation(lottery, CanRemediate(byAuthority))
           voted  == AddVotes(OpenTally, S)
           chosen == SelectedWinners(voted, lottery.participants_count)
<1>1. /\ lottery.attested_count # 0
      /\ \A w \in S : participant[w].attested_uploaded /\ ~participant[w].reveal_included
      /\ participant' = [w \in Wallet |->
           IF w \in S
           THEN [participant[w] EXCEPT !.reveal_included = TRUE]
           ELSE participant[w]]
      /\ tally' = voted
      /\ now' = now /\ root' = root
  BY DEF UploadReveals, MayUpload
<1>2. PICK uploaded, complete, hash, start :
        lottery' = [begun EXCEPT
          !.provider_uploaded_count    = uploaded,
          !.uploads_complete           = complete,
          !.poc_aggregate_hash         = hash,
          !.selected_number_of_winners = chosen,
          !.settlement_start_unix      = start]
  BY DEF UploadReveals, MayUpload
<1>3. TypeOK /\ TypeOK' BY DEF Book, Safe, TypeInv
<1>4. /\ begun \in LotteryAccount
      /\ begun.participants_count = lottery.participants_count
      /\ begun.upload_start_unix = lottery.upload_start_unix
  BY <1>3, BeginRemediationType
  DEF TypeOK, LotteryAccount, CanRemediate, BeginRemediation
<1> HIDE DEF begun, voted, chosen
<1>5. /\ lottery'.participants_count = lottery.participants_count
      /\ lottery'.upload_start_unix = lottery.upload_start_unix
      /\ lottery'.selected_number_of_winners = chosen
  BY <1>2, <1>4 DEF LotteryAccount
<1>6. MaxWinners' = MaxWinners /\ UploadStarted /\ UploadStarted' /\ Frozen' = Frozen
  <2>1. UploadStarted BY <1>1, <1>3 DEF Book, Safe, Settling, Opened, TypeOK, LotteryAccount
  <2> QED BY <1>1, <1>5, <2>1, SameMaxWinners DEF UploadStarted, Frozen
<1>7. \A w \in Wallet :
        /\ participant'[w].tickets_bought = participant[w].tickets_bought
        /\ participant'[w].voted_winners = participant[w].voted_winners
        /\ participant'[w].attested_at_unix = participant[w].attested_at_unix
        /\ participant'[w].attested_uploaded = participant[w].attested_uploaded
        /\ participant'[w].reveal_included <=> w \in S \/ participant[w].reveal_included
  <2> SUFFICES ASSUME NEW w \in Wallet
               PROVE  /\ participant'[w].tickets_bought = participant[w].tickets_bought
                      /\ participant'[w].voted_winners = participant[w].voted_winners
                      /\ participant'[w].attested_at_unix = participant[w].attested_at_unix
                      /\ participant'[w].attested_uploaded = participant[w].attested_uploaded
                      /\ participant'[w].reveal_included <=> w \in S \/ participant[w].reveal_included
    OBVIOUS
  <2>1. participant[w] \in ParticipantAccount BY <1>3 DEF TypeOK
  <2>2. CASE w \in S
    <3>1. participant'[w] = [participant[w] EXCEPT !.reveal_included = TRUE] BY <1>1, <2>2
    <3> QED BY <2>1, <2>2, <3>1 DEF ParticipantAccount
  <2>3. CASE w \notin S
    <3>1. participant'[w] = participant[w] BY <1>1, <2>3
    <3> QED BY <2>3, <3>1
  <2> QED BY <2>2, <2>3
<1>8. Held' = Held BY <1>7 DEF Held
<1>9. Included' = Included \cup S /\ S \cap Included = {} /\ Attested' = Attested
  BY <1>1, <1>7 DEF Included, Attested
<1>10. \A w \in Attested' : participant'[w].voted_winners \in 1..MaxWinners
  BY <1>7, <1>9 DEF Votes, Attested
<1>11. \A c : NewVoters(S, c) = Voters(S, c) BY <1>7 DEF NewVoters, Voters
<1>12. TrueTally' =
         [ created     |-> TRUE,
           max_winners |-> MaxWinners,
           processed   |-> Cardinality(Included) + Cardinality(S),
           weights     |-> [c \in 1..MaxWinners |->
             SumOver(Held, VotersFor(c)) + SumOver(Held, NewVoters(S, c))],
           first_seen  |-> [c \in 1..MaxWinners |->
             Min({FirstVote(c)} \cup
                 { participant'[w].attested_at_unix : w \in NewVoters(S, c) })] ]
  <2>1. \A w \in Included : w \in Wallet BY DEF Included
  <2> QED BY <1>3, <1>6, <1>7, <1>8, <1>9, <2>1, TallyGrows
<1>13. \A c : SumOver(Held, NewVoters(S, c)) = TicketsOf(Voters(S, c))
  <2> SUFFICES ASSUME NEW c PROVE SumOver(Held, NewVoters(S, c)) = TicketsOf(Voters(S, c))
    OBVIOUS
  <2>1. Voters(S, c) \in SUBSET Wallet BY DEF Voters
  <2>2. TicketsOf(Voters(S, c)) = SumOver(Held, Voters(S, c)) BY <2>1, TicketsSum
  <2> QED BY <1>11, <2>2, Zenon
<1>14. \A c : { participant'[w].attested_at_unix : w \in NewVoters(S, c) }
                 = { participant[w].attested_at_unix : w \in Voters(S, c) }
  <2>1. \A c : \A w \in Voters(S, c) : w \in Wallet BY DEF Voters
  <2> QED BY <1>7, <1>11, <2>1
<1>15. tally' = TrueTally'
  <2>1. voted =
         [ created     |-> TRUE,
           max_winners |-> MaxWinners,
           processed   |-> Cardinality(Included) + Cardinality(S),
           weights     |-> [c \in 1..MaxWinners |->
             SumOver(Held, VotersFor(c)) + TicketsOf(Voters(S, c))],
           first_seen  |-> [c \in 1..MaxWinners |->
             Min({FirstVote(c)} \cup
                 { participant[w].attested_at_unix : w \in Voters(S, c) })] ]
    <3> DEFINE W == [c \in 1..MaxWinners |-> SumOver(Held, VotersFor(c))]
               F == [c \in 1..MaxWinners |-> FirstVote(c)]
    <3>1. OpenTally = [created |-> TRUE, max_winners |-> MaxWinners,
                       processed |-> Cardinality(Included), weights |-> W, first_seen |-> F]
      BY TallyOpened DEF TrueTally
    <3>2. [c \in DOMAIN W |-> W[c] + TicketsOf(Voters(S, c))]
            = [c \in 1..MaxWinners |-> SumOver(Held, VotersFor(c)) + TicketsOf(Voters(S, c))]
      OBVIOUS
    <3>3. [c \in DOMAIN F |->
            Min({F[c]} \cup { participant[w].attested_at_unix : w \in Voters(S, c) })]
            = [c \in 1..MaxWinners |->
                Min({FirstVote(c)} \cup { participant[w].attested_at_unix : w \in Voters(S, c) })]
      OBVIOUS
    <3> HIDE DEF W, F
    <3>4. voted = [created     |-> TRUE,
                   max_winners |-> MaxWinners,
                   processed   |-> Cardinality(Included) + Cardinality(S),
                   weights     |-> [c \in DOMAIN W |-> W[c] + TicketsOf(Voters(S, c))],
                   first_seen  |-> [c \in DOMAIN F |->
                     Min({F[c]} \cup { participant[w].attested_at_unix : w \in Voters(S, c) })]]
      <4> DEFINE ws == [c \in DOMAIN W |-> W[c] + TicketsOf(Voters(S, c))]
                 fs == [c \in DOMAIN F |->
                   Min({F[c]} \cup { participant[w].attested_at_unix : w \in Voters(S, c) })]
                 n  == Cardinality(Included) + Cardinality(S)
      <4>1. /\ OpenTally.weights = W /\ OpenTally.first_seen = F
            /\ OpenTally.processed = Cardinality(Included)
        BY <3>1
      <4>2. voted = [OpenTally EXCEPT !.processed = n, !.weights = ws, !.first_seen = fs]
        BY <4>1, Zenon DEF voted, AddVotes
      <4> HIDE DEF ws, fs, n
      <4>3. voted = [created |-> TRUE, max_winners |-> MaxWinners, processed |-> n,
                     weights |-> ws, first_seen |-> fs]
        BY <3>1, <4>2
      <4> QED BY <4>3 DEF ws, fs, n
    <3> QED BY <3>2, <3>3, <3>4, Zenon
  <2> QED BY <1>1, <1>12, <1>13, <1>14, <2>1, Zenon
<1> QED BY <1>1, <1>5, <1>6, <1>10, <1>15 DEF Votes, chosen, TrueTally

(* A step that leaves every ballot alone, included or not.                 *)
SameBallots ==
  /\ tally' = tally
  /\ lottery'.participants_count = lottery.participants_count
  /\ lottery'.upload_start_unix = lottery.upload_start_unix
  /\ now' >= now
  /\ \A w \in Wallet :
       /\ participant'[w].tickets_bought = participant[w].tickets_bought
       /\ participant'[w].attested_uploaded = participant[w].attested_uploaded
       /\ participant'[w].reveal_included = participant[w].reveal_included
       /\ participant'[w].voted_winners = participant[w].voted_winners
       /\ participant'[w].attested_at_unix = participant[w].attested_at_unix
  /\ ~Frozen' =>
       /\ ~Frozen
       /\ lottery'.selected_number_of_winners = lottery.selected_number_of_winners

(* Such a step keeps Votes.                                                *)
LEMMA BallotsKept ==
  ASSUME TypeOK, TypeOK', Votes, SameBallots PROVE Votes'
<1>1. Attested' = Attested BY DEF SameBallots, Attested
<1>2. \A w \in Attested' : participant'[w].voted_winners \in 1..MaxWinners
  BY <1>1 DEF SameBallots, Votes, Attested
<1>3. UploadStarted => UploadStarted'
  BY DEF SameBallots, UploadStarted, TypeOK, LotteryAccount
<1>4. SameVotes BY <1>2, <1>3 DEF SameBallots, SameVotes
<1> QED BY <1>4, VotesKept

(* AttestUploaded takes a vote down, and counts it not: its reveal is not  *)
(* included yet.                                                           *)
LEMMA VotesAttestUploaded ==
  ASSUME Book, Book', Votes, NEW w \in Wallet, NEW vote \in Nat, AttestUploaded(w, vote)
  PROVE  Votes'
<1>1. /\ ~participant[w].attested_uploaded /\ vote \in 1..MaxWinners
      /\ participant' = [participant EXCEPT ![w] = VoteAndAttest(participant[w], vote)]
      /\ UNCHANGED <<now, tally, root>>
  BY DEF AttestUploaded, MayAttest
<1>2. TypeOK BY DEF Book, Safe, TypeInv
<1>3. PICK attested, start :
        lottery' = [lottery EXCEPT !.attested_count        = attested,
                                   !.settlement_start_unix = start]
  BY DEF AttestUploaded
<1>4. participant' = [participant EXCEPT
        ![w] = [VoteAndAttest(participant[w], vote) EXCEPT !.reveal_included = FALSE]]
  <2>1. [VoteAndAttest(participant[w], vote) EXCEPT !.reveal_included = FALSE]
          = VoteAndAttest(participant[w], vote)
    BY <1>2 DEF TypeOK, ParticipantAccount, VoteAndAttest
  <2> QED BY <1>1, <2>1
<1>5. /\ participant'[w].tickets_bought = participant[w].tickets_bought
      /\ ~participant'[w].reveal_included
      /\ participant'[w].voted_winners = vote
      /\ \A v \in Wallet \ {w} : participant'[v] = participant[v]
  BY <1>2, <1>4, AttestedAccount
<1>6. ~participant[w].reveal_included
  BY <1>1 DEF Book, Safe, Settling, Counted, Included, Attested
<1>7. \A v \in Attested' : participant'[v].voted_winners \in 1..MaxWinners
  <2>1. vote \in 1..MaxWinners BY <1>1
  <2> QED BY <1>5, <2>1 DEF Votes, Attested
<1>8. /\ lottery'.participants_count = lottery.participants_count
      /\ lottery'.upload_start_unix = lottery.upload_start_unix
      /\ lottery'.selected_number_of_winners = lottery.selected_number_of_winners
  BY <1>2, <1>3 DEF TypeOK, LotteryAccount
<1>9. now' = now /\ tally' = tally /\ root' = root BY <1>1
<1>10. \A v \in Wallet :
        /\ participant'[v].tickets_bought = participant[v].tickets_bought
        /\ participant'[v].reveal_included <=> participant[v].reveal_included
        /\ participant[v].reveal_included => participant'[v] = participant[v]
  BY <1>5, <1>6
<1>11. \A v \in Wallet :
         /\ participant[v].reveal_included \in BOOLEAN
         /\ participant'[v].reveal_included \in BOOLEAN
  BY DEF Book, Safe, TypeInv, TypeOK, ParticipantAccount
<1>12. SameVotes
  BY <1>7, <1>8, <1>9, <1>10, <1>11 DEF SameVotes, UploadStarted, Frozen
<1> QED BY <1>12, VotesKept

(* BuyTickets and BeginReveal come before any vote.                        *)
LEMMA VotesBeforeUpload ==
  ASSUME Book, Votes
  PROVE  /\ \A w \in Wallet : \A count \in Nat \ {0} : BuyTickets(w, count) => Votes'
         /\ \A a \in Nat : \A u \in Nat : BeginReveal(a, u) => Votes'
<1>1. TypeOK /\ Settling BY DEF Book, Safe, TypeInv
<1>2. ASSUME NEW w \in Wallet, NEW count \in Nat \ {0}, BuyTickets(w, count) PROVE Votes'
  <2>1. ~UploadStarted /\ tally' = tally BY <1>2 DEF BuyTickets, InBuyWindow
  <2>2. PICK account, tickets :
          /\ participant' = [participant EXCEPT ![w] = [account EXCEPT !.tickets_bought = tickets]]
          /\ \/ account = NewParticipant("open", lottery.participants_count)
             \/ account = participant[w]
    BY <1>2 DEF BuyTickets
  <2>3. ~participant[w].attested_uploaded /\ ~participant[w].reveal_included
    BY <1>1, <2>1, NothingBeforeUpload DEF Attested, Included
  <2>4. /\ ~participant'[w].attested_uploaded /\ ~participant'[w].reveal_included
        /\ \A v \in Wallet \ {w} : participant'[v] = participant[v]
    BY <1>1, <2>2, <2>3 DEF TypeOK, ParticipantAccount, NewParticipant
  <2>5. Attested' = {} /\ Included' = {}
    BY <1>1, <2>1, <2>4, NothingBeforeUpload DEF Attested, Included
  <2>6. ~tally'.created BY <2>1 DEF Votes
  <2> QED BY <2>5, <2>6 DEF Votes
<1>3. ASSUME NEW a \in Nat, NEW u \in Nat, BeginReveal(a, u) PROVE Votes'
  <2>1. ~UploadStarted /\ tally' = tally /\ participant' = participant
    BY <1>3 DEF BeginReveal
  <2> QED BY <1>1, <2>1, NoVotesYet
<1> QED BY <1>2, <1>3

(* A draw leaves the ledger in the selecting phase.                        *)
LEMMA SelectingPhase ==
  ASSUME NEW ledger, NEW draw, NEW begun \in FinalizationLedger,
         begun = BeginSelectionRound(ledger, draw)
  PROVE  begun.phase = "selecting"
  BY DEF BeginSelectionRound, FinalizationLedger

(* FinalizeWinners changes the number elected only when it freezes the     *)
(* pool.                                                                   *)
LEMMA VotesFinalize ==
  ASSUME Book, Book', Votes, NEW size \in Nat
  PROVE  /\ AggregateChunk(size) => Votes'
         /\ CloseAggregation(size) => Votes'
         /\ ScanChunk(size) => Votes'
         /\ CloseRound(size) => Votes'
         /\ CompleteFinalization(size) => Votes'
<1>1. TypeOK /\ TypeOK' BY DEF Book, Safe, TypeInv
<1>2. ASSUME NEW S, participant' = [w \in Wallet |->
               IF w \in S
               THEN [participant[w] EXCEPT !.finalized = TRUE]
               ELSE participant[w]]
      PROVE  \A w \in Wallet :
               /\ participant'[w].tickets_bought = participant[w].tickets_bought
               /\ participant'[w].attested_uploaded = participant[w].attested_uploaded
               /\ participant'[w].reveal_included = participant[w].reveal_included
               /\ participant'[w].voted_winners = participant[w].voted_winners
               /\ participant'[w].attested_at_unix = participant[w].attested_at_unix
  BY <1>1, <1>2 DEF TypeOK, ParticipantAccount
<1>3. ASSUME NEW S, participant' = [w \in Wallet |->
               IF w \in S
               THEN [participant[w] EXCEPT !.selected = TRUE]
               ELSE participant[w]]
      PROVE  \A w \in Wallet :
               /\ participant'[w].tickets_bought = participant[w].tickets_bought
               /\ participant'[w].attested_uploaded = participant[w].attested_uploaded
               /\ participant'[w].reveal_included = participant[w].reveal_included
               /\ participant'[w].voted_winners = participant[w].voted_winners
               /\ participant'[w].attested_at_unix = participant[w].attested_at_unix
  BY <1>1, <1>3 DEF TypeOK, ParticipantAccount
<1>4. ASSUME AggregateChunk(size) PROVE Votes'
  <2>1. /\ participant' = [w \in Wallet |->
             IF w \in Chunk(Ledger.processed_count, size)
             THEN [participant[w] EXCEPT !.finalized = TRUE]
             ELSE participant[w]]
        /\ UNCHANGED <<now, tally, lottery>>
        /\ Ledger.phase = "aggregating"
    BY <1>4 DEF AggregateChunk, MayAggregate
  <2>2. ~Frozen BY <2>1 DEF Frozen, Ledger
  <2>3. SameBallots BY <1>1, <1>2, <2>1, <2>2 DEF SameBallots, TypeOK
  <2> QED BY <1>1, <2>3, BallotsKept
<1>5. ASSUME CloseAggregation(size) PROVE Votes'
  <2>1. /\ participant' = [w \in Wallet |->
             IF w \in Chunk(Ledger.processed_count, size)
             THEN [participant[w] EXCEPT !.finalized = TRUE]
             ELSE participant[w]]
        /\ UNCHANGED <<now, tally>>
    BY <1>5 DEF CloseAggregation, MayAggregate
  <2>2. PICK target : lottery' = [lottery EXCEPT !.selected_number_of_winners = target]
    BY <1>5 DEF CloseAggregation
  <2>3. /\ lottery'.participants_count = lottery.participants_count
        /\ lottery'.upload_start_unix = lottery.upload_start_unix
    BY <1>1, <2>2 DEF TypeOK, LotteryAccount
  <2>4. PICK pool, draw : root' = BeginSelectionRound(pool, draw)
    BY <1>5 DEF CloseAggregation
  <2>5. Frozen' BY <1>1, <2>4, SelectingPhase DEF Frozen, TypeOK
  <2>6. SameBallots BY <1>1, <1>2, <2>1, <2>3, <2>5 DEF SameBallots, TypeOK
  <2> QED BY <1>1, <2>6, BallotsKept
<1>6. ASSUME MayScan(size), Frozen',
             lottery'.participants_count = lottery.participants_count,
             lottery'.upload_start_unix = lottery.upload_start_unix
      PROVE  Votes'
  <2>1. /\ participant' = [w \in Wallet |->
             IF w \in Hit(size)
             THEN [participant[w] EXCEPT !.selected = TRUE]
             ELSE participant[w]]
        /\ UNCHANGED <<now, tally>>
    BY <1>6 DEF MayScan
  <2>2. SameBallots BY <1>1, <1>3, <1>6, <2>1 DEF SameBallots, TypeOK
  <2> QED BY <1>1, <2>2, BallotsKept
<1>7. ASSUME ScanChunk(size) PROVE Votes'
  <2>1. MayScan(size) /\ lottery' = lottery /\ root' = Scanned(size) BY <1>7 DEF ScanChunk
  <2>2. Scanned(size).phase = "selecting"
    <3>1. root.phase = "selecting" BY <2>1 DEF MayScan
    <3> QED BY <1>1, <3>1, ScannedFields DEF SameLedger
  <2>3. Frozen' BY <2>1, <2>2 DEF Frozen
  <2> QED BY <1>6, <2>1, <2>3
<1>8. ASSUME CloseRound(size) PROVE Votes'
  <2>1. MayScan(size) /\ lottery' = lottery BY <1>8 DEF CloseRound
  <2>2. PICK ledger, draw : root' = BeginSelectionRound(ledger, draw) BY <1>8 DEF CloseRound
  <2>3. Frozen' BY <1>1, <2>2, SelectingPhase DEF Frozen, TypeOK
  <2> QED BY <1>6, <2>1, <2>3
<1>9. ASSUME CompleteFinalization(size) PROVE Votes'
  <2>1. MayScan(size) BY <1>9 DEF CompleteFinalization
  <2>2. PICK ledger : root' = [ledger EXCEPT !.phase = "completed"]
    BY <1>9 DEF CompleteFinalization
  <2>3. root'.phase = "completed" BY <1>1, <2>2 DEF TypeOK, FinalizationLedger
  <2>4. PICK winners, payout, bitmap, start :
          lottery' = [lottery EXCEPT !.winners_count         = winners,
                                     !.total_payout          = payout,
                                     !.paid_winners_bitmap   = bitmap,
                                     !.settlement_start_unix = start]
    BY <1>9 DEF CompleteFinalization
  <2>5. /\ lottery'.participants_count = lottery.participants_count
        /\ lottery'.upload_start_unix = lottery.upload_start_unix
    BY <1>1, <2>4 DEF TypeOK, LotteryAccount
  <2> QED BY <1>6, <2>1, <2>3, <2>5 DEF Frozen
<1> QED BY <1>4, <1>5, <1>7, <1>8, <1>9

(* Remediation, payouts, refunds and closing leave the votes alone.        *)
LEMMA VotesSettle ==
  ASSUME Book, Book', Votes
  PROVE  /\ StartRemediation => Votes'
         /\ \A batch \in SUBSET (0..lottery.winners_count - 1) : SettlePayoutBatch(batch) => Votes'
         /\ FinalizeNoAttesters => Votes'
         /\ \A w \in Wallet : ClaimRefund(w) \/ CloseParticipant(w) => Votes'
         /\ CloseRefundVault => Votes'
<1>1. TypeOK /\ TypeOK' BY DEF Book, Safe, TypeInv
<1>2. ASSUME root' = root, tally' = tally, now' = now,
             lottery'.participants_count = lottery.participants_count,
             lottery'.upload_start_unix = lottery.upload_start_unix,
             lottery'.selected_number_of_winners = lottery.selected_number_of_winners,
             \A w \in Wallet :
               /\ participant'[w].tickets_bought = participant[w].tickets_bought
               /\ participant'[w].attested_uploaded = participant[w].attested_uploaded
               /\ participant'[w].reveal_included = participant[w].reveal_included
               /\ participant'[w].voted_winners = participant[w].voted_winners
               /\ participant'[w].attested_at_unix = participant[w].attested_at_unix
      PROVE  Votes'
  <2>1. SameBallots BY <1>1, <1>2 DEF SameBallots, Frozen, TypeOK
  <2> QED BY <1>1, <2>1, BallotsKept
<1>3. ASSUME StartRemediation PROVE Votes'
  <2>1. /\ lottery' = BeginRemediation(lottery, TRUE)
        /\ UNCHANGED <<now, participant, tally, root>>
    BY <1>3 DEF StartRemediation
  <2>2. /\ lottery'.participants_count = lottery.participants_count
        /\ lottery'.upload_start_unix = lottery.upload_start_unix
        /\ lottery'.selected_number_of_winners = lottery.selected_number_of_winners
    BY <1>1, <2>1 DEF BeginRemediation, TypeOK, LotteryAccount
  <2> QED BY <1>2, <2>1, <2>2
<1>4. ASSUME NEW batch \in SUBSET (0..lottery.winners_count - 1), SettlePayoutBatch(batch)
      PROVE  Votes'
  <2>1. PICK bitmap, batches, last :
          lottery' = [lottery EXCEPT !.paid_winners_bitmap          = bitmap,
                                     !.settlement_batches_completed = batches,
                                     !.settlement_complete          = last,
                                     !.settled                      = lottery.settled \/ last]
    BY <1>4 DEF SettlePayoutBatch
  <2>2. UNCHANGED <<now, participant, tally, root>> BY <1>4 DEF SettlePayoutBatch
  <2>3. /\ lottery'.participants_count = lottery.participants_count
        /\ lottery'.upload_start_unix = lottery.upload_start_unix
        /\ lottery'.selected_number_of_winners = lottery.selected_number_of_winners
    BY <1>1, <2>1 DEF TypeOK, LotteryAccount
  <2> QED BY <1>2, <2>2, <2>3
<1>5. ASSUME FinalizeNoAttesters PROVE Votes'
  <2>1. /\ lottery' = [lottery EXCEPT !.settled = TRUE]
        /\ UNCHANGED <<now, participant, tally, root>>
    BY <1>5 DEF FinalizeNoAttesters
  <2>2. /\ lottery'.participants_count = lottery.participants_count
        /\ lottery'.upload_start_unix = lottery.upload_start_unix
        /\ lottery'.selected_number_of_winners = lottery.selected_number_of_winners
    BY <1>1, <2>1 DEF TypeOK, LotteryAccount
  <2> QED BY <1>2, <2>1, <2>2
<1>6. ASSUME NEW w \in Wallet, ClaimRefund(w) PROVE Votes'
  <2>1. /\ participant' = [participant EXCEPT ![w].refund_claimed = TRUE]
        /\ lottery' = [lottery EXCEPT
             !.settlement_batches_completed = lottery.settlement_batches_completed + 1]
        /\ UNCHANGED <<now, tally, root>>
    BY <1>6 DEF ClaimRefund
  <2>2. /\ lottery'.participants_count = lottery.participants_count
        /\ lottery'.upload_start_unix = lottery.upload_start_unix
        /\ lottery'.selected_number_of_winners = lottery.selected_number_of_winners
    BY <1>1, <2>1 DEF TypeOK, LotteryAccount
  <2>3. \A v \in Wallet :
          /\ participant'[v].tickets_bought = participant[v].tickets_bought
          /\ participant'[v].attested_uploaded = participant[v].attested_uploaded
          /\ participant'[v].reveal_included = participant[v].reveal_included
          /\ participant'[v].voted_winners = participant[v].voted_winners
          /\ participant'[v].attested_at_unix = participant[v].attested_at_unix
    BY <1>1, <2>1 DEF TypeOK, ParticipantAccount
  <2> QED BY <1>2, <2>1, <2>2, <2>3
<1>7. ASSUME NEW w \in Wallet, CloseParticipant(w) PROVE Votes'
  <2>1. /\ participant' = [participant EXCEPT ![w].status = "closed"]
        /\ UNCHANGED <<now, lottery, tally, root>>
    BY <1>7 DEF CloseParticipant
  <2>2. \A v \in Wallet :
          /\ participant'[v].tickets_bought = participant[v].tickets_bought
          /\ participant'[v].attested_uploaded = participant[v].attested_uploaded
          /\ participant'[v].reveal_included = participant[v].reveal_included
          /\ participant'[v].voted_winners = participant[v].voted_winners
          /\ participant'[v].attested_at_unix = participant[v].attested_at_unix
    BY <1>1, <2>1 DEF TypeOK, ParticipantAccount
  <2> QED BY <1>2, <2>1, <2>2
<1>8. ASSUME CloseRefundVault PROVE Votes'
  BY <1>2, <1>8 DEF CloseRefundVault
<1> QED BY <1>3, <1>4, <1>5, <1>6, <1>7, <1>8

(***************************************************************************)
(* The invariant, and what it gives.                                       *)
(***************************************************************************)
(* A new round has no vote.                                                *)
LEMMA InitVotes == ASSUME Init PROVE Votes
<1>1. ~tally.created /\ \A w \in Wallet : ~participant[w].attested_uploaded /\ ~participant[w].reveal_included
  BY DEF Init, NoTally, NewTally, NewParticipant
<1> QED BY <1>1 DEF Votes, Included, Attested

(* Every step keeps Votes.                                                 *)
LEMMA VotesNext == ASSUME Book, Book', Votes, [Next]_vars PROVE Votes'
<1>1. TypeOK /\ TypeOK' BY DEF Book, Safe, TypeInv
<1>2. CASE Tick
  <2>1. SameBallots BY <1>1, <1>2 DEF Tick, SameBallots, Frozen, TypeOK
  <2> QED BY <1>1, <2>1, BallotsKept
<1>3. ASSUME NEW w \in Wallet, Buy(w) PROVE Votes'
  BY <1>3, VotesBeforeUpload, InputAssumption DEF Buy
<1>4. CASE Begin BY <1>4, VotesBeforeUpload, InputAssumption DEF Begin
<1>5. ASSUME NEW w \in Wallet, Attest(w) PROVE Votes'
  <2>1. 1..MaxWinnersCap \subseteq Nat BY RoundAssumption
  <2> QED BY <1>5, <2>1, VotesAttestUploaded, VotesAttestReveal DEF Attest
<1>6. CASE Upload BY <1>6, VotesUploadReveals DEF Upload
<1>7. CASE FinalizeWinners
  <2>1. Sizes \subseteq Nat BY DEF Sizes
  <2> QED BY <1>7, <2>1, VotesFinalize, VotesSettle DEF FinalizeWinners
<1>8. CASE Settle BY <1>8, VotesSettle DEF Settle
<1>9. CASE FinalizeNoAttesters BY <1>9, VotesSettle
<1>10. ASSUME NEW w \in Wallet, ClaimRefund(w) \/ CloseParticipant(w) PROVE Votes'
  BY <1>10, VotesSettle
<1>11. CASE CloseRefundVault BY <1>11, VotesSettle
<1>12. CASE UNCHANGED vars
  <2>1. SameBallots BY <1>1, <1>12 DEF vars, SameBallots, Frozen, TypeOK
  <2> QED BY <1>1, <2>1, BallotsKept
<1> QED BY <1>2, <1>3, <1>4, <1>5, <1>6, <1>7, <1>8, <1>9, <1>10, <1>11, <1>12 DEF Next

(* Books and votes are right in every state of a round.                    *)
LEMMA VotesInvariant == Spec => [](Book /\ Votes)
<1>1. Init => Votes BY InitVotes
<1>2. Book /\ Book' /\ Votes /\ [Next]_vars => Votes' BY VotesNext
<1> QED BY <1>1, <1>2, BookInvariant, PTL DEF Spec

(* The invariant gives the decision: the numbers with weight are those     *)
(* with voters, since whoever attested holds a ticket.                     *)
LEMMA VotesDecide == ASSUME Book, Votes PROVE VoteDecision
<1>1. TypeOK /\ MaxWinners \in Nat
  <2>1. TypeOK BY DEF Book, Safe, TypeInv
  <2> QED BY <2>1, MaxWinnersBound, RoundAssumption
<1>2. \A c : TicketsOf(VotersFor(c)) = SumOver(Held, VotersFor(c))
  BY <1>1, VotersType, TicketsSum
<1>3. ASSUME tally.created
      PROVE  /\ tally.max_winners = MaxWinners
             /\ tally.processed = Cardinality(Included)
             /\ tally.weights = [c \in 1..MaxWinners |-> TicketsOf(VotersFor(c))]
             /\ tally.first_seen = [c \in 1..MaxWinners |-> FirstVote(c)]
  BY <1>2, <1>3 DEF Votes, TrueTally
<1>4. ASSUME Included # {}, lottery.participants_count > 1, ~Frozen
      PROVE  LET voted == { c \in 1..MaxWinners : VotersFor(c) # {} }
             IN  /\ lottery.selected_number_of_winners \in voted
                 /\ \A c \in voted \ {lottery.selected_number_of_winners} :
                      Preferred(lottery.selected_number_of_winners, c)
  <2> DEFINE n     == lottery.participants_count
             voted == { c \in 1..MaxWinners : VotersFor(c) # {} }
             won   == lottery.selected_number_of_winners
             D     == { c \in 1..AtMost(tally.max_winners, n - 1) : tally.weights[c] > 0 }
  <2>1. tally.created BY <1>4 DEF Votes
  <2>2. won = SelectedWinners(tally, n) BY <1>4, <2>1 DEF Votes
  <2>3. n \in Nat /\ MaxWinners <= n - 1
    BY <1>1, <1>4, RoundAssumption
    DEF TypeOK, LotteryAccount, U64, MaxWinners, EffectiveMaxWinners, AtMost
  <2>4. AtMost(tally.max_winners, n - 1) = MaxWinners
    BY <1>1, <1>3, <2>1, <2>3 DEF AtMost
  <2>5. \A c \in 1..MaxWinners :
          /\ tally.weights[c] = SumOver(Held, VotersFor(c)) /\ tally.weights[c] \in Nat
          /\ tally.first_seen[c] = FirstVote(c) /\ tally.first_seen[c] \in Int
    BY <1>1, <1>2, <1>3, <2>1, VotersType
  <2>6. \A c : VotersFor(c) # {} <=> SumOver(Held, VotersFor(c)) > 0
    <3> SUFFICES ASSUME NEW c
                 PROVE  VotersFor(c) # {} <=> SumOver(Held, VotersFor(c)) > 0
      OBVIOUS
    <3>1. CASE VotersFor(c) = {}
      <4>1. SumOver(Held, VotersFor(c)) = SumOver(Held, {}) BY <3>1, Zenon
      <4> QED BY <3>1, <4>1, SumEmpty
    <3>2. ASSUME NEW w \in VotersFor(c) PROVE SumOver(Held, VotersFor(c)) > 0
      <4>1. w \in Buyers
        BY <3>2 DEF Book, Safe, Settling, Counted, Books, Revealed, VotersFor
      <4>2. Held[w] > 0 /\ w \in Wallet
        BY <4>1, BuyersAreWallets DEF Book, Books, Enrolled, Held
      <4>3. \A v \in VotersFor(c) : Held[v] \in Nat BY <1>1, VotersType, HeldType
      <4>4. Held[w] <= SumOver(Held, VotersFor(c)) BY <1>1, <4>3, VotersType, SumMember
      <4> QED BY <1>1, <4>2, <4>3, <4>4, VotersType
    <3> QED BY <3>1, <3>2
  <2>7. D = voted BY <2>4, <2>5, <2>6
  <2>8. voted # {}
    <3>1. PICK w : w \in Included BY <1>4
    <3> DEFINE c == participant[w].voted_winners
    <3>2. w \in VotersFor(c) BY <3>1 DEF VotersFor
    <3>3. c \in 1..MaxWinners
      BY <3>1 DEF Votes, Book, Safe, Settling, Counted
    <3> QED BY <3>2, <3>3
  <2> HIDE DEF n, D, won
  <2>9. /\ SelectedWinners(tally, n) \in D
        /\ \A d \in D \ {SelectedWinners(tally, n)} : Beats(tally, SelectedWinners(tally, n), d)
    <3>1. \A c \in D : tally.weights[c] \in Int /\ tally.first_seen[c] \in Int
      BY <2>5, <2>7
    <3>2. D = { c \in 1..AtMost(tally.max_winners, n - 1) : tally.weights[c] > 0 } BY DEF D
    <3>3. n > 1 BY <1>4 DEF n
    <3>4. tally.max_winners \in Nat BY <1>1, <1>3, <2>1
    <3> QED BY <2>3, <2>7, <2>8, <3>1, <3>2, <3>3, <3>4, SelectedWins
  <2>10. \A a, b \in voted : Beats(tally, a, b) => Preferred(a, b)
    BY <1>2, <2>5 DEF Beats, Preferred
  <2> QED BY <2>2, <2>7, <2>9, <2>10 DEF won
<1> QED BY <1>3, <1>4 DEF VoteDecision

(* For any wallets, votes and order of attestations and uploads: the tally *)
(* is that of the reveals included, each vote with the tickets of its      *)
(* wallet and the time of its attestation, and the number elected is       *)
(* preferred to every other that was voted for (attest_reveal.rs,          *)
(* upload_reveals.rs, vote_tally.rs).                                      *)
THEOREM VoteStands == Spec => []VoteDecision
<1>1. Book /\ Votes => VoteDecision BY VotesDecide
<1> QED BY <1>1, VotesInvariant, PTL

(***************************************************************************)
(* Remediation.                                                            *)
(*                                                                         *)
(* RemediationOpen says that all that is missing may be uploaded.          *)
(* UploadReveals is MayUpload and a value for every variable, so it can    *)
(* happen exactly when MayUpload holds, and of that the provers can speak. *)
(* The counters and the tally must not be in the way: uploads are not      *)
(* complete while a reveal is missing (Opened), the tally has the size of  *)
(* the round (Votes), accounts are open (StaysOpen), and what the tally    *)
(* would elect is a number of winners that the round can have.             *)
(***************************************************************************)
(* The tally after an upload elects a number the round can have.           *)
LEMMA UploadElects ==
  ASSUME TypeOK, Votes, NEW S \in SUBSET Wallet, lottery.participants_count > 1
  PROVE  SelectableWinners(SelectedWinners(AddVotes(OpenTally, S), lottery.participants_count))
<1> DEFINE t == AddVotes(OpenTally, S)
           n == lottery.participants_count
           D == { c \in 1..AtMost(t.max_winners, n - 1) : t.weights[c] > 0 }
<1>1. n \in Nat /\ n > 1 /\ MaxWinners \in Nat
  <2>1. n \in Nat BY DEF TypeOK, LotteryAccount, U64
  <2>2. MaxWinners \in 1..MaxWinnersCap /\ MaxWinnersCap \in Nat
    BY MaxWinnersBound, RoundAssumption
  <2> QED BY <2>1, <2>2
<1>2. OpenTally = TrueTally BY TallyOpened
<1>3. /\ t.max_winners = MaxWinners
      /\ \A c \in 1..MaxWinners :
           /\ t.weights[c] = SumOver(Held, VotersFor(c)) + TicketsOf(Voters(S, c))
           /\ t.first_seen[c] =
                Min({FirstVote(c)} \cup { participant[w].attested_at_unix : w \in Voters(S, c) })
  BY <1>2 DEF AddVotes, TrueTally
<1>4. \A c \in 1..MaxWinners : t.weights[c] \in Int /\ t.first_seen[c] \in Int
  <2> SUFFICES ASSUME NEW c \in 1..MaxWinners
               PROVE  t.weights[c] \in Int /\ t.first_seen[c] \in Int
    OBVIOUS
  <2> HIDE DEF t
  <2>1. Voters(S, c) \in SUBSET Wallet BY DEF Voters
  <2>2. SumOver(Held, Voters(S, c)) \in Nat
    <3>1. IsFiniteSet(Voters(S, c)) BY <2>1, WalletsFinite
    <3>2. \A w \in Voters(S, c) : Held[w] \in Nat BY <2>1, HeldType
    <3> QED BY <3>1, <3>2, SumNat
  <2>3. TicketsOf(Voters(S, c)) \in Nat BY <2>1, <2>2, TicketsSum
  <2>4. t.weights[c] \in Int
    <3>1. SumOver(Held, VotersFor(c)) \in Nat BY VotersType
    <3>2. t.weights[c] = SumOver(Held, VotersFor(c)) + TicketsOf(Voters(S, c)) BY <1>3
    <3> QED BY <2>3, <3>1, <3>2
  <2> DEFINE A == { participant[w].attested_at_unix : w \in Voters(S, c) }
             M == {FirstVote(c)} \cup A
  <2>5. IsFiniteSet(A) /\ A \in SUBSET Int
    <3> DEFINE at == [w \in Voters(S, c) |-> participant[w].attested_at_unix]
    <3>1. A = { at[w] : w \in Voters(S, c) } OBVIOUS
    <3>2. \A w \in Voters(S, c) : at[w] \in Int BY <2>1 DEF TypeOK, ParticipantAccount
    <3> HIDE DEF A, at
    <3>3. IsFiniteSet(Voters(S, c)) BY <2>1, WalletsFinite
    <3>4. IsFiniteSet({ at[w] : w \in Voters(S, c) }) BY <3>3, ImageFinite
    <3> QED BY <3>1, <3>2, <3>4
  <2>6. Min(M) \in Int
    <3> HIDE DEF A
    <3>1. FirstVote(c) \in Int BY VotersType
    <3>2. IsFiniteSet(A \cup {FirstVote(c)}) BY <2>5, FS_AddElement
    <3>3. M = A \cup {FirstVote(c)} OBVIOUS
    <3>4. M # {} /\ M \subseteq Int BY <2>5, <3>1
    <3>5. IsFiniteSet(M) BY <3>2, <3>3, Zenon
    <3> HIDE DEF M
    <3> QED BY <3>4, <3>5, MinIs
  <2> QED BY <1>3, <2>4, <2>6
<1> HIDE DEF t
<1>5. CASE D = {}
  <2>1. SelectedWinners(t, n) = 1 BY <1>5 DEF SelectedWinners
  <2> QED BY <1>1, <2>1 DEF SelectableWinners, t
<1>6. CASE D # {}
  <2>1. D \subseteq 1..MaxWinners /\ D \subseteq 1..n - 1 BY <1>1, <1>3 DEF AtMost
  <2>2. SelectedWinners(t, n) \in D
    <3>1. \A c \in D : t.weights[c] \in Int /\ t.first_seen[c] \in Int BY <1>4, <2>1
    <3> HIDE DEF n
    <3> QED BY <1>1, <1>3, <1>6, <3>1, SelectedWins
  <2> QED BY <1>1, <2>1, <2>2 DEF SelectableWinners, t
<1> QED BY <1>5, <1>6

(* No state of the counters, of the tally or of an earlier upload is in    *)
(* the way of uploading what is missing.                                   *)
LEMMA MissingMayBeUploaded ==
  ASSUME Book, Votes, RemediationStands PROVE MayUpload(FALSE, Attested \ Included)
<1> DEFINE S == Attested \ Included
<1>1. TypeOK /\ S \in SUBSET Wallet BY BuyersAreWallets DEF Book, Safe, TypeInv
<1>2. /\ UploadElapsed /\ MissingAttestedReveals /\ ~RemediationExpired
      /\ lottery.participants_count > 1 /\ ~lottery.settled
      /\ CanRemediate(FALSE)
  BY DEF RemediationStands, CanRemediate
<1>3. lottery.attested_count # 0
  BY <1>1, <1>2 DEF MissingAttestedReveals, TypeOK, LotteryAccount
<1>4. ~lottery.uploads_complete /\ ~lottery.settlement_complete
  BY <1>2 DEF Book, Safe, Settling, Opened, Books, StaysOpen
<1>5. OpenTally.max_winners = MaxWinners BY TallyOpened DEF TrueTally
<1>6. \A w \in S : /\ Exists(w)
                  /\ participant[w].attested_uploaded
                  /\ ~participant[w].reveal_included
  <2> SUFFICES ASSUME NEW w \in S
               PROVE  /\ Exists(w)
                      /\ participant[w].attested_uploaded
                      /\ ~participant[w].reveal_included
    OBVIOUS
  <2>1. w \in Wallet /\ participant[w].attested_uploaded /\ ~participant[w].reveal_included
    BY DEF Attested, Included
  <2>2. w \in Buyers BY DEF Book, Books, Revealed
  <2>3. participant[w].status # "closed" BY <1>2, <2>1 DEF Book, Books, StaysOpen
  <2>4. participant[w].status \in {"none", "open", "closed"}
    BY <1>1, <2>1 DEF TypeOK, ParticipantAccount
  <2> QED BY <2>1, <2>2, <2>3, <2>4 DEF Exists, Buyers
<1>7. SelectableWinners(SelectedWinners(AddVotes(OpenTally, S), lottery.participants_count))
  BY <1>1, <1>2, UploadElects
<1> QED BY <1>2, <1>3, <1>4, <1>5, <1>6, <1>7 DEF MayUpload

(* While remediation has not expired, whoever holds the missing reveals    *)
(* can upload all of them (upload_reveals.rs): every guard of the          *)
(* instruction holds, whatever was uploaded before, by whom, and in which  *)
(* batches.                                                                *)
THEOREM RemediationStaysOpen == Spec => []RemediationOpen
<1>1. Book /\ Votes => RemediationOpen BY MissingMayBeUploaded DEF RemediationOpen
<1> QED BY <1>1, VotesInvariant, PTL

(***************************************************************************)
(* WeightedDraw: the pool and its entries.                                 *)
(***************************************************************************)
(* The pool entry of a wallet.                                             *)
EntryOf == [w \in Wallet |-> [ index   |-> participant[w].participant_index,
                               wallet  |-> w,
                               tickets |-> participant[w].tickets_bought ]]

(* A pool is the image of its wallets.                                     *)
LEMMA PoolImage == \A S \in SUBSET Wallet : PoolOf(S) = { EntryOf[w] : w \in S }
  BY DEF PoolOf, EntryOf

(* WeightedDraw weighs a pool by the tickets its wallets hold.             *)
LEMMA DrawTickets ==
  ASSUME TypeOK, NEW S \in SUBSET Wallet
  PROVE  WeightedDraw!Tickets(PoolOf(S)) = SumOver(Held, S)
<1> DEFINE D == PoolOf(S)
           f == [e \in D |-> e.tickets]
<1>1. D = { EntryOf[w] : w \in S } BY PoolImage
<1>2. IsFiniteSet(S) BY WalletsFinite
<1>3. IsFiniteSet(D) BY <1>1, <1>2, ImageFinite
<1> DEFINE P(iter) == iter = [s \in SUBSET D |->
             IF s = {} THEN 0
             ELSE LET x == CHOOSE x \in s : TRUE IN x.tickets + iter[s \ {x}]]
           G == CHOOSE iter : P(iter)
<1>4. WeightedDraw!Tickets(D) = G[D]
  <2> HIDE DEF D
  <2> QED BY DEF WeightedDraw!Tickets, WeightedDraw!MapThenSumSet, WeightedDraw!MapThenFoldSet
<1>5. SumOver(f, D) = G[D]
  <2> HIDE DEF D
  <2>1. \A iter : P(iter) <=> IsSum(iter, f, D)
    BY DEF IsSum, Unfolded, FirstOf
  <2> HIDE DEF f, P
  <2>2. PICK g : IsSum(g, f, D) /\ SumOver(f, D) = g[D] BY <1>3, SumOverIsSum
  <2>3. P(G)
    <3>1. P(g) BY <2>1, <2>2
    <3> QED BY <3>1
  <2>4. IsSum(G, f, D) BY <2>1, <2>3
  <2>5. G[D] = g[D] BY <1>3, <2>2, <2>4, SumUnique
  <2> QED BY <2>2, <2>5
<1>6. SumOver(f, { EntryOf[w] : w \in S }) = SumOver(Held, S)
  <2>1. \A x, y \in S : EntryOf[x] = EntryOf[y] => x = y BY DEF EntryOf
  <2>2. \A x \in S : Held[x] \in Nat BY HeldType
  <2>3. \A x \in S : EntryOf[x] \in D /\ EntryOf[x].tickets = Held[x]
    BY <1>1 DEF EntryOf, Held
  <2>4. \A x \in S : f[EntryOf[x]] = Held[x] BY <2>3
  <2> HIDE DEF f
  <2> QED BY <1>2, <2>1, <2>2, <2>4, SumImage
<1>7. SumOver(f, D) = SumOver(f, { EntryOf[w] : w \in S })
  <2> HIDE DEF f, D
  <2> QED BY <1>1, Zenon
<1> QED BY <1>4, <1>5, <1>6, <1>7

(***************************************************************************)
(* WeightedDraw: the pending winner.                                       *)
(***************************************************************************)
(* Included wallets that have not been drawn.                              *)
Undrawn == Included \ Recorded

(* The pending winner of a pass covers the draw among all wallets not yet  *)
(* drawn, those included that the pass has yet to reach: a winner found    *)
(* early is the winner of the whole pool.                                  *)
PendingCovers ==
  root.phase = "selecting" /\ root.pending_winner_found =>
    Covers(Held, Place, Undrawn, root.round_draw_index, root.pending_winner)

(* Before the pool is frozen there is no pool and no winner.               *)
Unseeded == ~Frozen => root.seed.pool = {} /\ root.selected_count = 0

(* A chunk may find the winner, and the one it finds covers the draw: the  *)
(* tickets ahead of it are those the pass has seen and those of the        *)
(* candidates before it in the chunk, and no wallet after the chunk is     *)
(* ahead of it, since indexes grow along the pass.                         *)
LEMMA ScannedCovers ==
  ASSUME Book, PendingCovers, NEW size \in Nat, MayScan(size),
         Scanned(size).pending_winner_found
  PROVE  Covers(Held, Place, Undrawn, root.round_draw_index, Scanned(size).pending_winner)
<1> DEFINE C == Candidates(size)
           cursor == root.round_processed_count
           seen == root.round_remaining_tickets_seen
           w == Scanned(size).pending_winner
<1>1. /\ MayFinalize /\ root.phase = "selecting" /\ TypeOK /\ Drawing
  BY DEF MayScan, Book, Books, Draws, Safe, TypeInv
<1>2. CASE Hit(size) = {} BY <1>1, <1>2, ScannedFields DEF PendingCovers
<1>3. CASE Hit(size) # {}
  <2>1. w \in Hit(size) BY <1>1, <1>3, ScannedFields
  <2>2. /\ InPass(cursor + size) = InPass(cursor) \cup C
        /\ InPass(cursor) \cap C = {} /\ C \subseteq Included
    BY <1>1, CandidatesOfChunk
  <2>3. /\ C \in SUBSET Wallet /\ IsFiniteSet(C)
        /\ \A v \in C : /\ Held[v] \in Nat /\ Place[v] \in Nat
                        /\ FirstTicket(v, C) = seen + SumOver(Held, Ahead(Place, C, v))
                        /\ SumOver(Held, Ahead(Place, C, v)) \in Nat
    BY <1>1, CandidateSums
  <2>4. /\ w \in C
        /\ root.round_draw_index \in FirstTicket(w, C)..FirstTicket(w, C) + Held[w] - 1
    <3> HIDE DEF w
    <3> QED BY <2>1, <2>3 DEF Hit, Held
  <2>5. seen = SumOver(Held, InPass(cursor)) BY <1>1 DEF Drawing, InPass
  <2>6. /\ cursor \in Nat /\ seen \in Nat /\ root.round_draw_index \in Nat
    BY <1>1, RoundAssumption DEF TypeOK, FinalizationLedger, U64
  <2>7. \A v \in Wallet : Place[v] = participant[v].participant_index /\ Place[v] \in Nat
    BY <1>1, IndexType DEF Place
  <2>8. Place[w] >= cursor /\ Place[w] < cursor + size
    <3> HIDE DEF w
    <3> QED BY <2>3, <2>4, <2>6, <2>7 DEF Candidates, Chunk
  <2>9. \A c \in Nat : InPass(c) = { v \in Undrawn : Place[v] < c }
    BY <2>7, BuyersAreWallets DEF InPass, Passed, Before, Undrawn
  <2> DEFINE A == Ahead(Place, C, w)
  <2>10. Ahead(Place, Undrawn, w) = InPass(cursor) \cup A
    <3>1. InPass(cursor) = { v \in Undrawn : Place[v] < cursor } BY <2>6, <2>9
    <3>2. InPass(cursor + size) = { v \in Undrawn : Place[v] < cursor + size } BY <2>6, <2>9
    <3>3. Undrawn \subseteq Wallet BY BuyersAreWallets DEF Undrawn
    <3>4. \A v \in Undrawn : Place[v] \in Nat /\ Place[w] \in Nat BY <2>3, <2>4, <2>7, <3>3
    <3> HIDE DEF w, C, cursor
    <3>5. \A v \in Undrawn : Place[v] < cursor => Place[v] < Place[w]
      BY <2>6, <2>8, <3>4
    <3>6. \A v \in Undrawn : Place[v] < Place[w] => Place[v] < cursor + size
      BY <2>6, <2>8, <3>4
    <3> QED BY <2>2, <3>1, <3>2, <3>5, <3>6 DEF Ahead
  <2>11. SumOver(Held, InPass(cursor) \cup A) = SumOver(Held, InPass(cursor)) + SumOver(Held, A)
    <3>1. InPass(cursor) \in SUBSET Wallet BY BuyersAreWallets DEF InPass, Passed
    <3>2. A \in SUBSET C BY DEF Ahead
    <3>3. IsFiniteSet(A) /\ IsFiniteSet(InPass(cursor))
      BY <2>3, <3>1, <3>2, WalletsFinite
    <3>4. InPass(cursor) \cap A = {} BY <2>2, <3>2
    <3>5. \A v \in InPass(cursor) \cup A : Held[v] \in Nat
      BY <1>1, <2>3, <3>1, <3>2, HeldType
    <3> HIDE DEF A, cursor
    <3> QED BY <3>3, <3>4, <3>5, SumUnion
  <2>12. SumOver(Held, Ahead(Place, Undrawn, w)) = SumOver(Held, InPass(cursor) \cup A)
    <3> HIDE DEF A, cursor, w
    <3> QED BY <2>10, Zenon
  <2>13. /\ FirstTicket(w, C) = seen + SumOver(Held, A) /\ SumOver(Held, A) \in Nat
         /\ Held[w] \in Nat
    BY <2>3, <2>4
  <2> HIDE DEF A, w, C, seen, cursor
  <2>14. FirstTicket(w, C) = SumOver(Held, Ahead(Place, Undrawn, w))
    BY <2>5, <2>11, <2>12, <2>13
  <2>15. FirstTicket(w, C) \in Nat BY <2>6, <2>13
  <2> DEFINE first == FirstTicket(w, C)
  <2>16. first <= root.round_draw_index /\ root.round_draw_index < first + Held[w]
    <3> HIDE DEF first
    <3>1. first \in Nat /\ root.round_draw_index \in first..first + Held[w] - 1
      BY <2>4, <2>15 DEF first
    <3> QED BY <2>6, <2>13, <3>1
  <2>17. Covers(Held, Place, Undrawn, root.round_draw_index, w)
    BY <2>14, <2>16 DEF Covers
  <2> QED BY <2>17 DEF w
<1> QED BY <1>2, <1>3

(***************************************************************************)
(* WeightedDraw: its Draw, in terms of the mapping.                        *)
(***************************************************************************)
(* The winners WeightedDraw sees: the entries of the book, in order.       *)
Winners == [i \in 1..root.selected_count |-> Drawn(i - 1)]

(* The state of WeightedDraw that a state of a round stands for.           *)
MappedDraw == <<root.seed.pool, root.target_winners, root.round_draw_index, Winners>>

(* A frozen pool is that of the included wallets.                          *)
LEMMA FrozenPool ==
  ASSUME Book, Frozen
  PROVE  root.seed.pool = PoolOf(Included)
<1>1. SeedCanonical BY BookSeed
<1> QED BY <1>1 DEF SeedCanonical, PoolOf

(* The winners are the entries of the wallets recorded, as many as the     *)
(* ledger counts.                                                          *)
LEMMA WinnersDrawn ==
  ASSUME Book
  PROVE  /\ Winners \in Seq({ EntryOf[w] : w \in Wallet }) /\ Len(Winners) = root.selected_count
         /\ { Winners[i] : i \in 1..root.selected_count } = { EntryOf[w] : w \in Recorded }
         /\ root.selected_count \in Nat
<1> DEFINE n == root.selected_count
<1>1. TypeOK /\ Booked BY DEF Book, Books, Draws, Safe, TypeInv
<1>2. n \in Nat BY <1>1 DEF TypeOK, FinalizationLedger
<1>3. \A i \in 0..n - 1 : Drawn(i) = EntryOf[EntryAt(i).wallet] /\ EntryAt(i).wallet \in Wallet
  BY <1>1, BuyersAreWallets DEF Booked, Drawn, EntryOf
<1> HIDE DEF n
<1>4. \A i \in 1..n : i - 1 \in 0..n - 1 BY <1>2
<1>5. \A i \in 1..n : /\ Winners[i] = EntryOf[EntryAt(i - 1).wallet]
                      /\ EntryAt(i - 1).wallet \in Wallet
  BY <1>3, <1>4 DEF Winners, n
<1>6. Winners \in [1..n -> { EntryOf[w] : w \in Wallet }]
  BY <1>5 DEF Winners, n
<1>7. { Winners[i] : i \in 1..n } = { EntryOf[w] : w \in Recorded }
  <2>1. \A i \in 1..n : EntryAt(i - 1).wallet \in Recorded BY <1>4 DEF Recorded, n
  <2>2. ASSUME NEW w \in Recorded PROVE \E i \in 1..n : Winners[i] = EntryOf[w]
    <3>1. PICK j \in 0..n - 1 : EntryAt(j).wallet = w BY DEF Recorded, n
    <3>2. j + 1 \in 1..n /\ (j + 1) - 1 = j BY <1>2
    <3> QED BY <1>5, <3>1, <3>2
  <2> QED BY <1>5, <2>1, <2>2
<1> DEFINE T == { EntryOf[w] : w \in Wallet }
<1> HIDE DEF T
<1>8. Winners \in Seq(T) /\ Len(Winners) = n
  <2>1. Winners \in [1..n -> T] BY <1>6 DEF T
  <2> QED BY <1>2, <2>1
<1> QED BY <1>2, <1>7, <1>8 DEF n, T

(* Entries tell wallets apart and carry their index and tickets.           *)
LEMMA EntryOfOne ==
  ASSUME TypeOK
  PROVE  /\ \A v, w \in Wallet : EntryOf[v] = EntryOf[w] => v = w
         /\ \A w \in Wallet : /\ EntryOf[w].index = Place[w]
                              /\ EntryOf[w].wallet = w
                              /\ EntryOf[w].tickets = Held[w]
                              /\ Place[w] \in Nat /\ Held[w] \in Nat
  BY HeldType, IndexType DEF EntryOf, Place, Held

(* Once the wallets of S are drawn, the pool has those of the others left. *)
LEMMA LeftOver ==
  ASSUME Book, Frozen, NEW drawn, NEW S \in SUBSET Wallet,
         { drawn[i] : i \in 1..Len(drawn) } = { EntryOf[w] : w \in S }
  PROVE  WeightedDraw!Left(drawn) = PoolOf(Included \ S)
<1>1. WeightedDraw!Left(drawn) = root.seed.pool \ { drawn[i] : i \in 1..Len(drawn) }
  BY DEF WeightedDraw!Left
<1>2. Included \in SUBSET Wallet /\ Included \ S \in SUBSET Wallet BY BuyersAreWallets
<1>3. /\ PoolOf(Included) = { EntryOf[w] : w \in Included }
      /\ PoolOf(Included \ S) = { EntryOf[w] : w \in Included \ S }
  BY <1>2, PoolImage
<1>4. \A v, w \in Wallet : EntryOf[v] = EntryOf[w] => v = w
  BY EntryOfOne DEF Book, Safe, TypeInv
<1>5. { EntryOf[w] : w \in Included } \ { EntryOf[w] : w \in S }
        = { EntryOf[w] : w \in Included \ S }
  BY <1>2, <1>4
<1> QED BY <1>1, <1>3, <1>5, FrozenPool

(* Appending an undrawn wallet that covers the draw, and drawing below the *)
(* tickets that remain after it, is a Draw.                                *)
LEMMA DrawStep ==
  ASSUME Book, Frozen, NEW w \in Undrawn,
         Covers(Held, Place, Undrawn, root.round_draw_index, w),
         root.selected_count < root.target_winners,
         Winners' = Append(Winners, EntryOf[w]),
         root'.seed = root.seed, root'.target_winners = root.target_winners,
         IF root.selected_count + 1 < root.target_winners
         THEN root'.round_draw_index \in 0..SumOver(Held, Undrawn \ {w}) - 1
         ELSE root'.round_draw_index = root.round_draw_index
  PROVE  WeightedDraw!Draw
<1> DEFINE n == root.selected_count
           e == EntryOf[w]
           next == Append(Winners, e)
<1>1. TypeOK /\ Booked BY DEF Book, Books, Draws, Safe, TypeInv
<1>2. /\ Undrawn \in SUBSET Wallet /\ w \in Wallet /\ Included \in SUBSET Wallet
      /\ Recorded \in SUBSET Wallet
  BY <1>1, BuyersAreWallets, RecordedIncluded DEF Undrawn
<1>3. /\ Winners \in Seq({ EntryOf[v] : v \in Wallet }) /\ Len(Winners) = n /\ n \in Nat
      /\ { Winners[i] : i \in 1..n } = { EntryOf[v] : v \in Recorded }
  BY WinnersDrawn
<1>4. WeightedDraw!Left(Winners) = PoolOf(Undrawn)
  BY <1>2, <1>3, LeftOver DEF Undrawn
<1>5. /\ Len(next) = n + 1
      /\ { next[i] : i \in 1..Len(next) } = { EntryOf[v] : v \in Recorded \cup {w} }
  <2> HIDE DEF e, n, next
  <2>1. e \in { EntryOf[v] : v \in Wallet } BY <1>2 DEF e
  <2>2. /\ Len(next) = n + 1 /\ next[n + 1] = e
        /\ \A i \in 1..n : next[i] = Winners[i]
    <3>1. next = Append(Winners, e) BY DEF e, next
    <3> QED BY <1>3, <2>1, <3>1
  <2>3. 1..n + 1 = (1..n) \cup {n + 1} BY <1>3
  <2>4. { next[i] : i \in 1..n + 1 } = { Winners[i] : i \in 1..n } \cup {e}
    BY <2>2, <2>3
  <2>5. { EntryOf[v] : v \in Recorded \cup {w} } = { EntryOf[v] : v \in Recorded } \cup {e}
    BY DEF e
  <2> QED BY <1>3, <2>2, <2>4, <2>5
<1>6. WeightedDraw!Left(next) = PoolOf(Undrawn \ {w})
  <2> HIDE DEF next
  <2>1. Recorded \cup {w} \in SUBSET Wallet BY <1>2
  <2>2. WeightedDraw!Left(next) = PoolOf(Included \ (Recorded \cup {w}))
    BY <1>5, <2>1, LeftOver
  <2>3. Included \ (Recorded \cup {w}) = Undrawn \ {w} BY DEF Undrawn
  <2> QED BY <2>2, <2>3, Zenon
<1>7. WeightedDraw!Tickets(WeightedDraw!Left(next)) = SumOver(Held, Undrawn \ {w})
  <2>1. Undrawn \ {w} \in SUBSET Wallet BY <1>2
  <2>2. WeightedDraw!Tickets(PoolOf(Undrawn \ {w})) = SumOver(Held, Undrawn \ {w})
    BY <1>1, <2>1, DrawTickets
  <2> QED BY <1>6, <2>2, Zenon
<1>8. e \in WeightedDraw!Left(Winners)
  <2>1. e \in { EntryOf[v] : v \in Undrawn } OBVIOUS
  <2>2. PoolOf(Undrawn) = { EntryOf[v] : v \in Undrawn } BY <1>2, PoolImage
  <2> HIDE DEF e
  <2> QED BY <1>4, <2>1, <2>2, Zenon
<1>9. WeightedDraw!Covers(e)
  <2> DEFINE A == Ahead(Place, Undrawn, w)
             ahead == { f \in WeightedDraw!Left(Winners) : f.index < e.index }
  <2>1. A \in SUBSET Wallet BY <1>2 DEF Ahead
  <2>2. /\ \A v \in Wallet : /\ EntryOf[v].index = Place[v]
                             /\ Place[v] \in Nat /\ Held[v] \in Nat
        /\ e.tickets = Held[w]
    BY <1>1, <1>2, EntryOfOne
  <2>3. ahead = PoolOf(A)
    <3>1. PoolOf(A) = { EntryOf[v] : v \in A } BY <2>1, PoolImage
    <3>2. PoolOf(Undrawn) = { EntryOf[v] : v \in Undrawn } BY <1>2, PoolImage
    <3>3. e.index = Place[w] BY <1>2, <2>2
    <3>4. \A v \in Undrawn : v \in A <=> EntryOf[v].index < e.index
      BY <1>2, <2>2, <3>3 DEF Ahead
    <3>5. A \subseteq Undrawn BY DEF Ahead
    <3>6. ahead = { f \in { EntryOf[v] : v \in Undrawn } : f.index < e.index }
      BY <1>4, <3>2
    <3> HIDE DEF A, ahead, e
    <3> QED BY <3>1, <3>4, <3>5, <3>6
  <2>4. WeightedDraw!Tickets(ahead) = SumOver(Held, A)
    <3>1. WeightedDraw!Tickets(PoolOf(A)) = SumOver(Held, A) BY <1>1, <2>1, DrawTickets
    <3> HIDE DEF ahead, A
    <3> QED BY <2>3, <3>1, Zenon
  <2>5. WeightedDraw!Covers(e) <=>
          root.round_draw_index \in WeightedDraw!Ahead(e)..WeightedDraw!Ahead(e) + e.tickets - 1
    BY DEF WeightedDraw!Covers
  <2>6. WeightedDraw!Ahead(e) = WeightedDraw!Tickets(ahead)
    BY DEF WeightedDraw!Ahead, Winners
  <2>7. /\ SumOver(Held, A) <= root.round_draw_index
        /\ root.round_draw_index < SumOver(Held, A) + Held[w]
    BY DEF Covers
  <2>8. SumOver(Held, A) \in Nat
    <3>1. IsFiniteSet(A) /\ \A v \in A : Held[v] \in Nat BY <2>1, <2>2, WalletsFinite
    <3> HIDE DEF A
    <3> QED BY <3>1, SumNat
  <2>9. root.round_draw_index \in Nat /\ Held[w] \in Nat
    <3>1. root.round_draw_index \in Nat
      BY <1>1, RoundAssumption DEF TypeOK, FinalizationLedger, U64
    <3> QED BY <1>2, <2>2, <3>1
  <2> HIDE DEF A, ahead, e
  <2> QED BY <2>2, <2>4, <2>5, <2>6, <2>7, <2>8, <2>9
<1>10. /\ Len(Winners) < root.target_winners
       /\ \E f \in WeightedDraw!Left(Winners) :
            WeightedDraw!Covers(f) /\ Winners' = Append(Winners, f)
       /\ IF Len(Winners') < root.target_winners
          THEN root'.round_draw_index
                 \in 0..WeightedDraw!Tickets(WeightedDraw!Left(Winners')) - 1
          ELSE UNCHANGED root.round_draw_index
       /\ UNCHANGED <<root.seed.pool, root.target_winners>>
  <2>1. Winners' = next OBVIOUS
  <2> HIDE DEF next
  <2>2. WeightedDraw!Tickets(WeightedDraw!Left(Winners')) = SumOver(Held, Undrawn \ {w})
    BY <1>7, <2>1, Zenon
  <2>3. Len(Winners') = root.selected_count + 1 BY <1>5, <2>1
  <2> QED BY <1>3, <1>8, <1>9, <2>2, <2>3
<1> QED BY <1>10 DEF WeightedDraw!Draw, Winners

(***************************************************************************)
(* WeightedDraw: the instructions of a round as its steps.                 *)
(***************************************************************************)
(* What the refinement needs beyond Book.                                  *)
Chosen == PendingCovers /\ Unseeded

(* A step that leaves the draws alone stutters.                            *)
LEMMA DrawnKept ==
  ASSUME Book, Chosen, SameDraws
  PROVE  UNCHANGED MappedDraw /\ Chosen'
<1>1. TypeOK /\ Aggregation /\ Booked BY DEF Book, Books, Draws, Safe, TypeInv
<1>2. /\ \A i \in 0..root.selected_count - 1 : EntryAt(i)' = EntryAt(i)
      /\ Recorded' = Recorded /\ root' = root
  BY <1>1, RecordedKept DEF SameDraws
<1>3. /\ Held' = Held /\ Place' = Place /\ Included' = Included
  BY DEF SameDraws, Held, Place, Included
<1>4. \A i \in 0..root.selected_count - 1 : Drawn(i)' = Drawn(i)
  BY <1>1, <1>2, BuyersAreWallets DEF Drawn, SameDraws, Booked
<1>5. Winners' = Winners
  <2>1. root.selected_count \in Nat BY <1>1 DEF TypeOK, FinalizationLedger
  <2>2. \A i \in 1..root.selected_count : i - 1 \in 0..root.selected_count - 1 BY <2>1
  <2>3. \A i \in 1..root.selected_count : Drawn(i - 1)' = Drawn(i - 1) BY <1>4, <2>2
  <2> QED BY <1>2, <2>3 DEF Winners
<1>6. PendingCovers'
  <2>1. Undrawn' = Undrawn BY <1>2, <1>3 DEF Undrawn
  <2>2. ASSUME root.phase = "selecting", root.pending_winner_found
        PROVE  Covers(Held, Place, Undrawn, root.round_draw_index, root.pending_winner)'
    <3>1. Covers(Held, Place, Undrawn, root.round_draw_index, root.pending_winner)
      BY <2>2 DEF Chosen, PendingCovers
    <3>2. root'.round_draw_index = root.round_draw_index /\ root'.pending_winner = root.pending_winner
      BY <1>2
    <3> QED BY <1>3, <2>1, <3>1, <3>2, Zenon
  <2> QED BY <1>2, <2>2 DEF PendingCovers
<1>7. Unseeded' BY <1>2 DEF Chosen, Unseeded, Frozen
<1> QED BY <1>2, <1>5, <1>6, <1>7 DEF MappedDraw, Chosen

(* So does a step that ends, as it began, before the pool is frozen.       *)
LEMMA NothingDrawn ==
  ASSUME Book, Chosen, root.phase \in {"absent", "aggregating"},
         root'.phase \in {"absent", "aggregating"},
         root'.seed = root.seed, root'.target_winners = root.target_winners,
         root'.round_draw_index = root.round_draw_index,
         root'.selected_count = root.selected_count
  PROVE  UNCHANGED MappedDraw /\ Chosen'
<1>1. root.seed.pool = {} /\ root.selected_count = 0
  BY DEF Chosen, Unseeded, Frozen
<1>2. Winners = << >> /\ Winners' = << >> BY <1>1 DEF Winners
<1>3. Chosen' BY <1>1 DEF Chosen, PendingCovers, Unseeded
<1> QED BY <1>2, <1>3 DEF MappedDraw

(* A chunk of aggregation that is not the last fixes nothing.              *)
LEMMA DrawAggregateChunk ==
  ASSUME Book, Chosen, NEW size \in Nat, AggregateChunk(size)
  PROVE  UNCHANGED MappedDraw /\ Chosen'
<1>1. MayAggregate(size) /\ root' = Aggregated(size) BY DEF AggregateChunk
<1>2. /\ Aggregated(size).phase = "aggregating"
      /\ Aggregated(size).target_winners = 0 /\ Aggregated(size).selected_count = 0
      /\ root.phase \in {"absent", "aggregating"}
  BY <1>1, AggregatedGathered
<1>3. root.selected_count = 0 /\ root.target_winners = 0 BY <1>2, EmptyBook
<1>4. Ledger \in FinalizationLedger
  BY LedgerSound DEF Book, Safe, Sound
<1>5. Aggregated(size).seed = Ledger.seed
      /\ Aggregated(size).round_draw_index = Ledger.round_draw_index
  <2> DEFINE eligible  == Chunk(Ledger.processed_count, size) \cap Included
             processed == Ledger.processed_count + size
             count     == Ledger.eligible_count + Cardinality(eligible)
             tickets   == Ledger.total_eligible_tickets + TicketsOf(eligible)
             pool      == Ledger.participants_commitment \cup PoolOf(eligible)
  <2>1. Aggregated(size) = [ Ledger EXCEPT !.processed_count         = processed,
                                           !.eligible_count          = count,
                                           !.total_eligible_tickets  = tickets,
                                           !.participants_commitment = pool ]
    BY DEF Aggregated, PoolOf
  <2> HIDE DEF processed, count, tickets, pool
  <2> QED BY <1>4, <2>1 DEF FinalizationLedger
<1>6. Ledger.seed = root.seed /\ Ledger.round_draw_index = root.round_draw_index
  <2>1. CASE root.phase = "absent"
    <3>1. root = NewLedger("absent", 0) BY <2>1 DEF Book, Books, Draws, Aggregation
    <3> QED BY <2>1, <3>1 DEF Ledger, NewLedger
  <2>2. CASE root.phase # "absent" BY <2>2 DEF Ledger
  <2> QED BY <2>1, <2>2
<1> QED BY <1>1, <1>2, <1>3, <1>5, <1>6, NothingDrawn

(* The last one fixes the pool: entries with tickets, distinct indexes and *)
(* wallets, no more winners than entries, and a draw below all tickets.    *)
LEMMA DrawCloseAggregation ==
  ASSUME Book, Chosen, NEW size \in Nat, CloseAggregation(size)
  PROVE  WeightedDraw!Fix /\ Chosen'
<1> DEFINE pool   == Aggregated(size)
           target == AtMost(AtMost(AtLeast(lottery.selected_number_of_winners, 1), MaxWinners),
                            pool.eligible_count)
           seed   == [ eligible  |-> pool.eligible_count,
                       tickets   |-> pool.total_eligible_tickets,
                       aggregate |-> lottery.poc_aggregate_hash,
                       pool      |-> pool.participants_commitment ]
           frozen == [pool EXCEPT !.target_winners = target, !.seed = seed]
<1>1. /\ MayAggregate(size)
      /\ pool.processed_count = pool.required_count
      /\ pool.eligible_count # 0
      /\ SelectableWinners(target)
      /\ \E draw \in 0..RemainingTickets(pool) - 1 : root' = BeginSelectionRound(frozen, draw)
  BY DEF CloseAggregation
<1>2. PICK draw \in 0..RemainingTickets(pool) - 1 : root' = BeginSelectionRound(frozen, draw)
  BY <1>1
<1>3. /\ Gathered(pool) /\ pool \in FinalizationLedger
      /\ pool.phase = "aggregating" /\ pool.selected_count = 0
      /\ pool.selected_tickets_total = 0
      /\ root.phase \in {"absent", "aggregating"}
  BY <1>1, AggregatedGathered
<1>4. TypeOK /\ Revealed /\ Enrolled BY DEF Book, Books, Safe, TypeInv
<1>5. /\ pool.eligible_count = Cardinality(Included)
      /\ pool.total_eligible_tickets = SumOver(Held, Included)
      /\ pool.participants_commitment = PoolOf(Included)
  <2>1. Passed(pool.processed_count) = Included
    BY <1>1, <1>3, EverythingPassed DEF Gathered
  <2> HIDE DEF pool
  <2> QED BY <1>3, <2>1, Zenon DEF Gathered
<1>6. target \in 1..pool.eligible_count
  <2>1. MaxWinners \in Nat BY <1>4, MaxWinnersBound
  <2>2. pool.eligible_count \in Nat BY <1>3, RoundAssumption DEF FinalizationLedger, U64
  <2>3. lottery.selected_number_of_winners \in Nat BY <1>4 DEF TypeOK, LotteryAccount
  <2>4. target >= 1
    <3> HIDE DEF target
    <3> QED BY <1>1, <1>4 DEF SelectableWinners, TypeOK, LotteryAccount, U64
  <2> HIDE DEF pool
  <2> QED BY <2>1, <2>2, <2>3, <2>4 DEF AtMost, AtLeast
<1> HIDE DEF pool, target
<1>7. seed.pool = PoolOf(Included) BY <1>5
<1> HIDE DEF seed
<1>8. /\ root'.phase = "selecting"
      /\ root'.target_winners = target
      /\ root'.seed = seed
      /\ root'.selected_count = 0
      /\ root'.round_draw_index = draw
      /\ root'.pending_winner_found = FALSE
  BY <1>2, <1>3 DEF BeginSelectionRound, FinalizationLedger
<1>9. root.seed.pool = {} /\ root.selected_count = 0
  BY <1>3 DEF Chosen, Unseeded, Frozen
<1>10. Winners' = Winners BY <1>8, <1>9 DEF Winners
<1>11. Included \in SUBSET Wallet /\ Included \subseteq Buyers
  BY <1>4, BuyersAreWallets DEF Revealed, Book, Safe, Settling, Counted
<1>12. PoolOf(Included) = { EntryOf[w] : w \in Included } BY <1>11, PoolImage
<1>13. \A w \in Included :
         /\ EntryOf[w].index = Place[w] /\ EntryOf[w].wallet = w
         /\ EntryOf[w].tickets = Held[w] /\ Held[w] > 0
         /\ EntryOf[w] \in WeightedDraw!DrawEntry
  <2> SUFFICES ASSUME NEW w \in Included
               PROVE  /\ EntryOf[w].index = Place[w] /\ EntryOf[w].wallet = w
                      /\ EntryOf[w].tickets = Held[w] /\ Held[w] > 0
                      /\ EntryOf[w] \in WeightedDraw!DrawEntry
    OBVIOUS
  <2>1. w \in Wallet /\ w \in Buyers BY <1>11
  <2>2. /\ participant[w].tickets_bought > 0
        /\ participant[w].tickets_bought \in Nat /\ participant[w].participant_index \in Nat
    <3>1. participant[w].tickets_bought > 0 BY <1>4, <2>1 DEF Enrolled
    <3>2. participant[w] \in ParticipantAccount BY <1>4, <2>1 DEF TypeOK
    <3> QED BY <3>1, <3>2, RoundAssumption DEF ParticipantAccount, U64
  <2> QED BY <2>1, <2>2 DEF EntryOf, Place, Held, WeightedDraw!DrawEntry
<1>14. PoolOf(Included) \subseteq WeightedDraw!DrawEntry BY <1>12, <1>13
<1>15. PoolOf(Included) # {}
  <2>1. Included # {} BY <1>1, <1>5, FS_EmptySet
  <2> QED BY <1>12, <2>1
<1>16. \A e, f \in PoolOf(Included) : e # f => e.index # f.index /\ e.wallet # f.wallet
  <2>1. \A v, w \in Included : Place[v] = Place[w] => v = w
    BY <1>4, <1>11 DEF Enrolled, Place
  <2> QED BY <1>12, <1>13, <2>1
<1>17. WeightedDraw!Cardinality(PoolOf(Included)) = pool.eligible_count
  <2>1. \A v, w \in Included : EntryOf[v] = EntryOf[w] => v = w
    BY <1>4, <1>11, EntryOfOne
  <2>2. IsFiniteSet(Included) BY <1>11, WalletsFinite
  <2>3. Cardinality({ EntryOf[w] : w \in Included }) = Cardinality(Included)
    BY <2>1, <2>2, ImageSize
  <2>4. \A S : WeightedDraw!Cardinality(S) = Cardinality(S)
    BY DEF WeightedDraw!Cardinality, Cardinality
  <2> QED BY <1>5, <1>12, <2>3, <2>4
<1>18. draw \in 0..WeightedDraw!Tickets(PoolOf(Included)) - 1
  <2>1. WeightedDraw!Tickets(PoolOf(Included)) = SumOver(Held, Included)
    BY <1>4, <1>11, DrawTickets
  <2>2. RemainingTickets(pool) = SumOver(Held, Included)
    <3>1. pool.total_eligible_tickets \in Nat
      BY <1>3, RoundAssumption DEF FinalizationLedger, U64
    <3> QED BY <1>3, <1>5, <3>1 DEF RemainingTickets
  <2> QED BY <1>2, <2>1, <2>2
<1>19. root'.seed.pool = PoolOf(Included) BY <1>7, <1>8
<1>20. /\ WeightedDraw!Cardinality(root'.seed.pool) = pool.eligible_count
       /\ root'.round_draw_index \in 0..WeightedDraw!Tickets(root'.seed.pool) - 1
  BY <1>8, <1>17, <1>18, <1>19
<1>21. WeightedDraw!Fix
  <2>1. /\ root.seed.pool = {}
        /\ root'.seed.pool \subseteq WeightedDraw!DrawEntry /\ root'.seed.pool # {}
        /\ \A e, f \in root'.seed.pool : e # f => e.index # f.index /\ e.wallet # f.wallet
        /\ root'.target_winners \in 1..WeightedDraw!Cardinality(root'.seed.pool)
        /\ root'.round_draw_index \in 0..WeightedDraw!Tickets(root'.seed.pool) - 1
        /\ UNCHANGED Winners
    BY <1>6, <1>8, <1>9, <1>10, <1>14, <1>15, <1>16, <1>19, <1>20
  <2> QED BY <2>1 DEF WeightedDraw!Fix, Winners
<1>22. Chosen' BY <1>8 DEF Chosen, PendingCovers, Unseeded, Frozen
<1> QED BY <1>21, <1>22

(* A chunk in the middle of a pass draws nothing, though it may find the   *)
(* pending winner.                                                         *)
LEMMA DrawScanChunk ==
  ASSUME Book, Chosen, NEW size \in Nat, ScanChunk(size)
  PROVE  UNCHANGED MappedDraw /\ Chosen'
<1> DEFINE s == Scanned(size)
<1>1. /\ MayScan(size) /\ root' = s /\ lottery' = lottery /\ pages' = pages
      /\ root.phase = "selecting"
  BY DEF ScanChunk, MayScan
<1>2. TypeOK /\ Booked BY DEF Book, Books, Draws, Safe, TypeInv
<1>3. /\ SamePool
      /\ \A w \in Wallet : participant'[w].selected <=> w \in Hit(size) \/ participant[w].selected
  <2>1. lottery' = [lottery EXCEPT !.winners_count         = lottery.winners_count,
                                   !.total_payout          = lottery.total_payout,
                                   !.paid_winners_bitmap   = lottery.paid_winners_bitmap,
                                   !.settlement_start_unix = lottery.settlement_start_unix]
    BY <1>1, <1>2 DEF TypeOK, LotteryAccount
  <2>2. \E winners, payout, bitmap, start :
          lottery' = [lottery EXCEPT !.winners_count         = winners,
                                     !.total_payout          = payout,
                                     !.paid_winners_bitmap   = bitmap,
                                     !.settlement_start_unix = start]
    BY <2>1
  <2> QED BY <1>1, <2>2, ScanPool
<1>4. SameLedger(s) BY <1>1, ScanLedger
<1>5. s.pending_winner_found =>
        Covers(Held, Place, Undrawn, root.round_draw_index, s.pending_winner)
  BY <1>1, ScannedCovers DEF Chosen
<1> HIDE DEF s
<1>6. Held' = Held /\ Place' = Place /\ Included' = Included
  BY <1>3 DEF SamePool, Held, Place, Included
<1>7. Undrawn' = Undrawn
  <2>1. Recorded' = Recorded BY <1>1, <1>4 DEF SameLedger, Recorded, EntryAt
  <2> QED BY <1>6, <2>1 DEF Undrawn
<1>8. PendingCovers'
  <2>1. s.pending_winner_found =>
          Covers(Held', Place', Undrawn', s.round_draw_index, s.pending_winner)
    BY <1>4, <1>5, <1>6, <1>7, Zenon DEF SameLedger
  <2> QED BY <1>1, <2>1 DEF PendingCovers
<1>9. Unseeded' BY <1>1, <1>4 DEF Unseeded, Frozen, SameLedger
<1>10. Winners' = Winners
  <2>1. \A i \in 0..root.selected_count - 1 : Drawn(i)' = Drawn(i)
    BY <1>1, <1>2, <1>3, BuyersAreWallets DEF Drawn, EntryAt, SamePool, Booked
  <2>2. root.selected_count \in Nat BY <1>2 DEF TypeOK, FinalizationLedger
  <2>3. \A i \in 1..root.selected_count : i - 1 \in 0..root.selected_count - 1 BY <2>2
  <2>4. \A i \in 1..root.selected_count : Drawn(i - 1)' = Drawn(i - 1) BY <2>1, <2>3
  <2> QED BY <1>1, <1>4, <2>4 DEF Winners, SameLedger
<1>11. UNCHANGED MappedDraw BY <1>1, <1>4, <1>10 DEF MappedDraw, SameLedger
<1> QED BY <1>8, <1>9, <1>11 DEF Chosen

(* The end of a pass appends the pending winner, so it is a Draw.          *)
LEMMA DrawWinner ==
  ASSUME Book, Chosen, NEW size \in Nat, MayScan(size), WinnerFound(Scanned(size)),
         AppendWinner(Scanned(size)), SamePool,
         root'.selected_count = root.selected_count + 1,
         root'.seed = root.seed, root'.target_winners = root.target_winners,
         IF root.selected_count + 1 < root.target_winners
         THEN root'.round_draw_index
                \in 0..RemainingTickets(root) - Scanned(size).pending_winner_tickets - 1
         ELSE root'.round_draw_index = root.round_draw_index
  PROVE  WeightedDraw!Draw
<1> DEFINE s == Scanned(size)
           n == root.selected_count
           w == s.pending_winner
<1>1. TypeOK /\ Aggregation /\ Booked /\ root.phase = "selecting" /\ Frozen
  BY DEF Book, Books, Draws, Safe, TypeInv, MayScan, Frozen
<1>2. SameLedger(s) /\ PassedWell(s) BY ScanLedger
<1>3. /\ s.round_processed_count = lottery.participants_count
      /\ s.pending_winner_found
  BY <1>1, <1>2 DEF WinnerFound, SameLedger, Aggregation
<1>4. w \in Undrawn /\ w \in Wallet /\ s.pending_winner_tickets = Held[w]
  <2>1. InPass(s.round_processed_count) = Undrawn
    BY <1>3, EverythingPassed DEF InPass, Undrawn
  <2> QED BY <1>2, <1>3, <2>1, BuyersAreWallets DEF PassedWell, Undrawn
<1>5. Covers(Held, Place, Undrawn, root.round_draw_index, w)
  BY <1>3, ScannedCovers DEF Chosen
<1>6. /\ n < root.target_winners
      /\ \A i \in 0..n - 1 : EntryAt(i)' = EntryAt(i)
      /\ \A i \in {n} : EntryAt(i)' = [ wallet  |-> w,
                                        tickets |-> s.pending_winner_tickets ]
  BY <1>1, <1>2, WinnerAppended DEF SameLedger
<1>7. n \in Nat /\ \A i \in 1..n : i - 1 \in 0..n - 1
  BY <1>1 DEF TypeOK, FinalizationLedger
<1>8. Winners' = Append(Winners, EntryOf[w])
  <2>1. Winners \in Seq({ EntryOf[v] : v \in Wallet }) /\ Len(Winners) = n BY WinnersDrawn
  <2>2. \A i \in 0..n - 1 : Drawn(i)' = Drawn(i)
    BY <1>1, <1>6, BuyersAreWallets DEF Drawn, SamePool, Booked
  <2>3. \A i \in {n} : Drawn(i)' = EntryOf[w]
    BY <1>4, <1>6 DEF Drawn, EntryOf, SamePool, Held
  <2> HIDE DEF s, w, n
  <2>4. Winners' = [i \in 1..n + 1 |-> Drawn(i - 1)'] BY DEF Winners, n
  <2>5. Winners = [i \in 1..n |-> Drawn(i - 1)] BY DEF Winners, n
  <2>6. \A i \in 1..n : Drawn(i - 1)' = Winners[i] BY <1>7, <2>2, <2>5
  <2>7. \A i \in {n + 1} : Drawn(i - 1)' = EntryOf[w]
    <3>1. (n + 1) - 1 = n BY <1>7
    <3> QED BY <2>3, <3>1
  <2> DEFINE T == { EntryOf[v] : v \in Wallet }
             longer == Append(Winners, EntryOf[w])
  <2>8. EntryOf[w] \in T BY <1>4
  <2> HIDE DEF T
  <2>9. /\ longer = [i \in 1..n + 1 |-> longer[i]]
        /\ longer[n + 1] = EntryOf[w]
        /\ \A i \in 1..n : longer[i] = Winners[i]
    <3> USE <2>1 DEF T
    <3> HIDE DEF T
    <3> QED BY <1>7, <2>1, <2>8
  <2>10. 1..n + 1 = (1..n) \cup {n + 1} BY <1>7
  <2>11. \A i \in 1..n + 1 : Drawn(i - 1)' = longer[i] BY <2>6, <2>7, <2>9, <2>10
  <2> HIDE DEF longer
  <2>12. Winners' = longer BY <2>4, <2>9, <2>11
  <2> QED BY <2>12 DEF longer
<1>9. SumOver(Held, Undrawn \ {w}) = RemainingTickets(root) - s.pending_winner_tickets
  <2>1. Undrawn \in SUBSET Wallet BY BuyersAreWallets DEF Undrawn
  <2>2. IsFiniteSet(Undrawn) /\ \A v \in Undrawn : Held[v] \in Nat
    BY <1>1, <2>1, WalletsFinite, HeldType
  <2>3. RemainingTickets(root) = SumOver(Held, Undrawn)
    BY <1>1, RemainingSum DEF Undrawn
  <2> HIDE DEF w, s
  <2>4. SumOver(Held, Undrawn) = Held[w] + SumOver(Held, Undrawn \ {w})
    BY <1>4, <2>2, SumRemove
  <2>5. IsFiniteSet(Undrawn \ {w}) BY <2>2, FS_RemoveElement
  <2>6. SumOver(Held, Undrawn \ {w}) \in Nat BY <2>2, <2>5, SumNat
  <2> QED BY <1>4, <2>2, <2>3, <2>4, <2>6
<1> HIDE DEF w
<1>10. IF n + 1 < root.target_winners
       THEN root'.round_draw_index \in 0..SumOver(Held, Undrawn \ {w}) - 1
       ELSE root'.round_draw_index = root.round_draw_index
  BY <1>9
<1> QED BY <1>1, <1>4, <1>5, <1>6, <1>8, <1>10, DrawStep

(* A pass that is not the last draws, and leaves a draw below the tickets  *)
(* that remain.                                                            *)
LEMMA DrawCloseRound ==
  ASSUME Book, Chosen, NEW size \in Nat, CloseRound(size)
  PROVE  WeightedDraw!Draw /\ Chosen'
<1> DEFINE s      == Scanned(size)
           ledger == RecordWinner(s)
<1>1. /\ MayScan(size) /\ WinnerFound(s) /\ AppendWinner(s)
      /\ ledger.selected_count # ledger.target_winners
      /\ \E draw \in 0..RemainingTickets(ledger) - 1 : root' = BeginSelectionRound(ledger, draw)
      /\ lottery' = lottery /\ root.phase = "selecting"
  BY DEF CloseRound, MayScan
<1>2. PICK draw \in 0..RemainingTickets(ledger) - 1 : root' = BeginSelectionRound(ledger, draw)
  BY <1>1
<1>3. TypeOK /\ Aggregation /\ Booked BY DEF Book, Books, Draws, Safe, TypeInv
<1>4. /\ SamePool
      /\ \A w \in Wallet : participant'[w].selected <=> w \in Hit(size) \/ participant[w].selected
  <2>1. lottery' = [lottery EXCEPT !.winners_count         = lottery.winners_count,
                                   !.total_payout          = lottery.total_payout,
                                   !.paid_winners_bitmap   = lottery.paid_winners_bitmap,
                                   !.settlement_start_unix = lottery.settlement_start_unix]
    BY <1>1, <1>3 DEF TypeOK, LotteryAccount
  <2>2. \E winners, payout, bitmap, start :
          lottery' = [lottery EXCEPT !.winners_count         = winners,
                                     !.total_payout          = payout,
                                     !.paid_winners_bitmap   = bitmap,
                                     !.settlement_start_unix = start]
    BY <2>1
  <2> QED BY <1>1, <2>2, ScanPool
<1>5. Sound(s) /\ SameLedger(s) /\ s.pending_winner_tickets \in Nat
  <2>1. Sound(s) /\ SameLedger(s) BY <1>1, MayScanTypes, ScanLedger DEF Book, Safe
  <2> HIDE DEF s
  <2> QED BY <2>1, RoundAssumption DEF Sound, FinalizationLedger, U64
<1>6. Sound(ledger) BY <1>1, ScannedWinner DEF Book, Safe
<1> HIDE DEF s
<1>7. /\ ledger.total_eligible_tickets = root.total_eligible_tickets
      /\ ledger.target_winners = root.target_winners
      /\ ledger.seed = root.seed
      /\ ledger.selected_count = root.selected_count + 1
      /\ ledger.selected_tickets_total
           = root.selected_tickets_total + s.pending_winner_tickets
      /\ ledger.phase = "selecting"
  BY <1>3, <1>5, RecordWinnerFields
<1> HIDE DEF ledger
<1>8. /\ root'.phase = "selecting"
      /\ root'.target_winners = root.target_winners
      /\ root'.seed = root.seed
      /\ root'.selected_count = root.selected_count + 1
      /\ root'.round_draw_index = draw
      /\ root'.pending_winner_found = FALSE
  BY <1>2, <1>6, <1>7 DEF BeginSelectionRound, Sound, FinalizationLedger
<1>9. RemainingTickets(ledger) = RemainingTickets(root) - s.pending_winner_tickets
  <2>1. root.total_eligible_tickets \in Nat /\ root.selected_tickets_total \in Nat
    BY <1>3, RoundAssumption DEF TypeOK, FinalizationLedger, U64
  <2> QED BY <1>5, <1>7, <2>1 DEF RemainingTickets
<1>10. draw \in 0..RemainingTickets(root) - s.pending_winner_tickets - 1
  BY <1>2, <1>9
<1>11. root.selected_count + 1 < root.target_winners
  <2>1. root.selected_count < root.target_winners
    BY <1>1, <1>3, <1>5, WinnerAppended DEF SameLedger, s
  <2>2. root.selected_count \in Nat /\ root.target_winners \in Nat
    BY <1>3 DEF TypeOK, FinalizationLedger
  <2> QED BY <1>1, <1>7, <2>1, <2>2
<1>12. WeightedDraw!Draw BY <1>1, <1>4, <1>8, <1>10, <1>11, DrawWinner DEF s
<1>13. Chosen' BY <1>8 DEF Chosen, PendingCovers, Unseeded, Frozen
<1> QED BY <1>12, <1>13

(* The last pass draws the last winner, and leaves the draw alone.         *)
LEMMA DrawCompleteFinalization ==
  ASSUME Book, Chosen, NEW size \in Nat, CompleteFinalization(size)
  PROVE  WeightedDraw!Draw /\ Chosen'
<1> DEFINE s       == Scanned(size)
           ledger  == RecordWinner(s)
           winners == ledger.selected_count
           pool    == WinnersPool(lottery.total_funds, ServiceChargeBps)
           payout  == (pool \div winners) * winners
           bitmap  == { i \in lottery.paid_winners_bitmap : i >= 8 * ((winners + 7) \div 8) }
           start   == IF lottery.settlement_start_unix = 0
                      THEN now ELSE lottery.settlement_start_unix
<1>1. /\ MayScan(size) /\ WinnerFound(s) /\ AppendWinner(s)
      /\ winners = ledger.target_winners
      /\ root' = [ledger EXCEPT !.phase = "completed"]
      /\ lottery' = [lottery EXCEPT !.winners_count         = winners,
                                    !.total_payout          = payout,
                                    !.paid_winners_bitmap   = bitmap,
                                    !.settlement_start_unix = start]
      /\ root.phase = "selecting"
  BY DEF CompleteFinalization, MayScan
<1>2. TypeOK /\ Aggregation /\ Booked BY DEF Book, Books, Draws, Safe, TypeInv
<1>3. Sound(s) /\ SameLedger(s) BY <1>1, MayScanTypes, ScanLedger DEF Book, Safe
<1>4. Sound(ledger) BY <1>1, ScannedWinner DEF Book, Safe
<1> HIDE DEF s
<1>5. /\ ledger.target_winners = root.target_winners
      /\ ledger.seed = root.seed
      /\ ledger.selected_count = root.selected_count + 1
  BY <1>2, <1>3, RecordWinnerFields
<1>6. ledger.round_draw_index = root.round_draw_index
  BY <1>3 DEF RecordWinner, Sound, FinalizationLedger, SameLedger
<1> HIDE DEF ledger, payout, bitmap, start
<1>7. /\ root'.phase = "completed"
      /\ root'.target_winners = root.target_winners
      /\ root'.seed = root.seed
      /\ root'.selected_count = root.selected_count + 1
      /\ root'.round_draw_index = root.round_draw_index
  BY <1>1, <1>4, <1>5, <1>6 DEF Sound, FinalizationLedger
<1>8. /\ SamePool
      /\ \A w \in Wallet : participant'[w].selected <=> w \in Hit(size) \/ participant[w].selected
  <2>1. \E a, b, c, d :
          lottery' = [lottery EXCEPT !.winners_count         = a,
                                     !.total_payout          = b,
                                     !.paid_winners_bitmap   = c,
                                     !.settlement_start_unix = d]
    BY <1>1
  <2> QED BY <1>1, <2>1, ScanPool
<1>9. ~(root.selected_count + 1 < root.target_winners)
  <2>1. root.selected_count \in Nat /\ root.target_winners \in Nat
    BY <1>2 DEF TypeOK, FinalizationLedger
  <2>2. root.selected_count + 1 = root.target_winners BY <1>1, <1>5
  <2> QED BY <2>1, <2>2
<1>10. WeightedDraw!Draw BY <1>1, <1>7, <1>8, <1>9, DrawWinner DEF s
<1>11. Chosen' BY <1>7 DEF Chosen, PendingCovers, Unseeded, Frozen
<1> QED BY <1>10, <1>11

(* The instructions that come after the draw, or need not wait for it,     *)
(* draw nothing.                                                           *)
LEMMA DrawInstructions ==
  ASSUME Book, Chosen,
         \/ Tick \/ StartRemediation \/ FinalizeNoAttesters \/ CloseRefundVault
         \/ \E batch \in SUBSET (0..lottery.winners_count - 1) : SettlePayoutBatch(batch)
         \/ \E w \in Wallet : ClaimRefund(w) \/ CloseParticipant(w)
         \/ UNCHANGED vars
  PROVE  UNCHANGED MappedDraw /\ Chosen'
<1>1. TypeOK BY DEF Book, Safe, TypeInv
<1> SUFFICES SameDraws BY DrawnKept
<1>2. CASE Tick BY <1>2 DEF Tick, SameDraws
<1>3. CASE StartRemediation
  <2>1. /\ lottery' = BeginRemediation(lottery, TRUE)
        /\ UNCHANGED <<participant, root, pages>>
    BY <1>3 DEF StartRemediation
  <2> QED BY <1>1, <2>1 DEF BeginRemediation, SameDraws, TypeOK, LotteryAccount
<1>4. CASE FinalizeNoAttesters
  <2>1. /\ lottery' = [lottery EXCEPT !.settled = TRUE]
        /\ UNCHANGED <<participant, root, pages>>
    BY <1>4 DEF FinalizeNoAttesters
  <2> QED BY <1>1, <2>1 DEF SameDraws, TypeOK, LotteryAccount
<1>5. CASE CloseRefundVault
  <2>1. UNCHANGED <<lottery, participant, root, pages>> BY <1>5 DEF CloseRefundVault
  <2> QED BY <2>1 DEF SameDraws
<1>6. ASSUME NEW batch \in SUBSET (0..lottery.winners_count - 1), SettlePayoutBatch(batch)
      PROVE  SameDraws
  <2> DEFINE page == PageOf(CHOOSE i \in batch : TRUE)
             due  == { i \in batch : i \notin lottery.paid_winners_bitmap }
  <2>1. /\ pages' = [pages EXCEPT
             ![page].paid = pages[page].paid \cup { OffsetOf(i) : i \in due }]
        /\ UNCHANGED <<now, participant, tally, root>>
    BY <1>6 DEF SettlePayoutBatch
  <2>2. PICK bitmap, batches, last :
          lottery' = [lottery EXCEPT !.paid_winners_bitmap          = bitmap,
                                     !.settlement_batches_completed = batches,
                                     !.settlement_complete          = last,
                                     !.settled                      = lottery.settled \/ last]
    BY <1>6 DEF SettlePayoutBatch
  <2>3. \A p \in PageIndex : pages'[p].entries = pages[p].entries
    BY <1>1, <2>1 DEF TypeOK, WinnerPage
  <2> QED BY <1>1, <2>1, <2>2, <2>3 DEF SameDraws, TypeOK, LotteryAccount
<1>7. ASSUME NEW w \in Wallet, ClaimRefund(w) PROVE SameDraws
  <2>1. /\ participant' = [participant EXCEPT ![w].refund_claimed = TRUE]
        /\ lottery' = [lottery EXCEPT
             !.settlement_batches_completed = lottery.settlement_batches_completed + 1]
        /\ UNCHANGED <<root, pages>>
    BY <1>7 DEF ClaimRefund
  <2> QED BY <1>1, <2>1 DEF SameDraws, TypeOK, LotteryAccount, ParticipantAccount
<1>8. ASSUME NEW w \in Wallet, CloseParticipant(w) PROVE SameDraws
  <2>1. /\ participant[w].status = "open"
        /\ participant' = [participant EXCEPT ![w].status = "closed"]
        /\ UNCHANGED <<lottery, root, pages>>
    BY <1>8 DEF CloseParticipant, Exists, Book, Books, StaysOpen
  <2> QED BY <1>1, <2>1 DEF SameDraws, TypeOK, ParticipantAccount
<1>9. CASE UNCHANGED vars BY <1>9 DEF vars, SameDraws
<1> QED BY <1>2, <1>3, <1>4, <1>5, <1>6, <1>7, <1>8, <1>9

(* Those of the sale and of the reveals draw nothing: there is no ledger   *)
(* yet, or no reveal left to upload.                                       *)
LEMMA DrawBeforeLedger ==
  ASSUME Book, Chosen,
         \/ \E w \in Wallet : Buy(w) \/ Attest(w)
         \/ Begin
         \/ Upload
  PROVE  UNCHANGED MappedDraw /\ Chosen'
<1>1. TypeOK BY DEF Book, Safe, TypeInv
<1>2. root.phase = "absent" /\ root' = root => UNCHANGED MappedDraw /\ Chosen'
  BY NothingDrawn
<1>3. ASSUME NEW w \in Wallet, Buy(w) PROVE root.phase = "absent" /\ root' = root
  <2>1. ~UploadStarted /\ root' = root BY <1>3 DEF Buy, BuyTickets, InBuyWindow
  <2> QED BY <1>1, <2>1, NothingBeforeUpload DEF Book, Safe, TypeInv
<1>4. CASE Begin
  <2>1. ~UploadStarted /\ root' = root BY <1>4 DEF Begin, BeginReveal
  <2> QED BY <1>1, <1>2, <2>1, NothingBeforeUpload DEF Book, Safe, TypeInv
<1>5. ASSUME NEW w \in Wallet, Attest(w) PROVE root.phase = "absent" /\ root' = root
  <2>1. /\ HasTickets(w) /\ ~participant[w].attested_uploaded /\ InUploadPhase
        /\ root' = root
    BY <1>5 DEF Attest, AttestUploaded, AttestReveal, MayAttest
  <2> QED BY <1>1, <2>1, NoAttestationAfterLedger DEF Book, Safe
<1>6. CASE Upload
  <2>1. PICK byAuthority \in BOOLEAN, S \in SUBSET Wallet : UploadReveals(byAuthority, S)
    BY <1>6 DEF Upload
  <2> DEFINE begun == BeginRemediation(lottery, CanRemediate(byAuthority))
  <2>2. /\ \A w \in S : participant[w].attested_uploaded /\ ~participant[w].reveal_included
        /\ participant' = [w \in Wallet |->
             IF w \in S
             THEN [participant[w] EXCEPT !.reveal_included = TRUE]
             ELSE participant[w]]
        /\ UNCHANGED <<root, pages>>
    BY <2>1 DEF UploadReveals, MayUpload
  <2>3. CASE root.phase = "absent" BY <1>2, <2>2, <2>3
  <2>4. CASE root.phase # "absent"
    <3>1. NoCensoredSettlement BY SafeNoCensorship DEF Book
    <3>2. S = {} BY <2>2, <2>4, <3>1 DEF NoCensoredSettlement, Attested, Included
    <3>3. participant' = participant BY <1>1, <2>2, <3>2 DEF TypeOK
    <3>4. PICK uploaded, complete, chosen, start :
            lottery' = [begun EXCEPT
              !.provider_uploaded_count    = uploaded,
              !.uploads_complete           = complete,
              !.poc_aggregate_hash         = SymDiff(begun.poc_aggregate_hash, S),
              !.selected_number_of_winners = chosen,
              !.settlement_start_unix      = start]
      BY <2>1 DEF UploadReveals, MayUpload
    <3>5. /\ begun \in LotteryAccount
          /\ begun.participants_count = lottery.participants_count
          /\ begun.winners_count = lottery.winners_count
      BY <1>1, BeginRemediationType
      DEF TypeOK, LotteryAccount, CanRemediate, BeginRemediation
    <3> HIDE DEF begun
    <3>6. /\ lottery'.participants_count = lottery.participants_count
          /\ lottery'.winners_count = lottery.winners_count
      BY <3>4, <3>5 DEF LotteryAccount
    <3>7. SameDraws BY <2>2, <3>3, <3>6 DEF SameDraws
    <3> QED BY <3>7, DrawnKept
  <2> QED BY <2>3, <2>4
<1> QED BY <1>2, <1>3, <1>4, <1>5, <1>6

(* A new round is a new draw.                                              *)
LEMMA DrawInit == ASSUME Init PROVE WeightedDraw!Init /\ Chosen
<1>1. root = NewLedger("absent", 0) BY DEF Init
<1>2. /\ root.seed.pool = {} /\ root.target_winners = 0 /\ root.round_draw_index = 0
      /\ root.selected_count = 0 /\ root.phase = "absent"
  BY <1>1 DEF NewLedger, NoSeed
<1>3. Winners = << >> BY <1>2 DEF Winners
<1>4. Chosen BY <1>2 DEF Chosen, PendingCovers, Unseeded
<1> QED BY <1>2, <1>3, <1>4 DEF WeightedDraw!Init, Winners

(* Every step of a round is a step of WeightedDraw, or draws nothing.      *)
LEMMA DrawNext ==
  ASSUME Book, Chosen, [Next]_vars
  PROVE  [WeightedDraw!Next]_(WeightedDraw!vars) /\ Chosen'
<1>1. UNCHANGED MappedDraw => UNCHANGED WeightedDraw!vars
  BY DEF WeightedDraw!vars, MappedDraw, Winners
<1> SUFFICES (WeightedDraw!Next \/ UNCHANGED MappedDraw) /\ Chosen' BY <1>1
<1>2. CASE \/ \E w \in Wallet : Buy(w) \/ Attest(w)
           \/ Begin
           \/ Upload
  BY <1>2, DrawBeforeLedger
<1>3. CASE \/ Tick \/ StartRemediation \/ FinalizeNoAttesters \/ CloseRefundVault
           \/ Settle
           \/ \E w \in Wallet : ClaimRefund(w) \/ CloseParticipant(w)
           \/ UNCHANGED vars
  BY <1>3, DrawInstructions DEF Settle
<1>4. ASSUME NEW size \in Sizes,
             \/ AggregateChunk(size) \/ CloseAggregation(size)
             \/ ScanChunk(size) \/ CloseRound(size) \/ CompleteFinalization(size)
      PROVE  (WeightedDraw!Next \/ UNCHANGED MappedDraw) /\ Chosen'
  <2>1. size \in Nat BY DEF Sizes
  <2> QED BY <1>4, <2>1, DrawAggregateChunk, DrawCloseAggregation, DrawScanChunk,
             DrawCloseRound, DrawCompleteFinalization DEF WeightedDraw!Next
<1> QED BY <1>2, <1>3, <1>4 DEF Next, FinalizeWinners

(* However the passes of FinalizeWinners are cut into chunks, whoever      *)
(* sends them and whatever other instructions come between them, the pool  *)
(* is fixed once and each winner is the entry whose tickets cover the draw *)
(* among the entries that remain, drawn once and whole: the round          *)
(* implements WeightedDraw, for any set of wallets, price and cap.         *)
THEOREM RoundDrawsWinners == Spec => ImplementsDraw
<1>1. Init => WeightedDraw!Init /\ Chosen BY DrawInit
<1>2. Book /\ Chosen /\ [Next]_vars
        => [WeightedDraw!Next]_(WeightedDraw!vars) /\ Chosen'
  BY DrawNext
<1> QED BY <1>1, <1>2, BookInvariant, PTL
        DEF Spec, ImplementsDraw, WeightedDraw!Spec
===============================================================================
