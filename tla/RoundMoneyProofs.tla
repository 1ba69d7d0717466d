------------------------------ MODULE RoundMoneyProofs -------------------------
(***************************************************************************)
(* Every lamport of a round is accounted for, for any set of wallets, any  *)
(* price, fee and cap, and any order of payouts and refunds.               *)
(*                                                                         *)
(* The argument needs the books: a batch pays each wallet once because no  *)
(* wallet is booked twice (Booked), shares are within the funds because    *)
(* the winners are as many as the payout was divided by, and the vault     *)
(* covers each refund because the funds are the price of all tickets       *)
(* (Enrolled). Money adds to them what has been paid so far; that the      *)
(* vault can never run short before the last payment is a consequence, not *)
(* an assumption.                                                          *)
(*                                                                         *)
(* With Money a round implements Custody. The mapping reads the outcome,   *)
(* the deposits and the shares off the accounts; each instruction is then  *)
(* a step of Custody or no step at all, and it is Book and Money that make *)
(* it so: that the outcome is decided once needs the ledger to shut out    *)
(* refunds (Decided), that a share goes to a wallet that has none needs    *)
(* distinct winners (Booked) and purses that agree with the bitmap         *)
(* (Purses), that the authority is paid with the last share needs the      *)
(* bitmap to cover the book, and that shares are within the deposits needs *)
(* the funds to be the price of all tickets (Enrolled).                    *)
(*                                                                         *)
(* The log of a round tells all this truthfully, its money included.       *)
(* The log is a set that only grows, so a line that is once wrong stays    *)
(* wrong, and one that repeats an earlier one is lost. Story says of each  *)
(* kind of line which state it stands for: one line per attestation, per   *)
(* entry of the winner pages, per entry paid and per refund taken, one for *)
(* the window and one for each end; purchases are told apart by the        *)
(* running total of their buyer. That these lines never have to change is  *)
(* what the invariants of the round are needed for: votes are final,       *)
(* entries are only appended, the shares and the tickets are fixed before  *)
(* the first payment, and the two ends exclude each other. The money read  *)
(* off the log is then that of the purses (Purses), wallet by wallet.      *)
(***************************************************************************)
EXTENDS Events, RoundBookProofs

(* Wallets that took their refund.                                         *)
RefundTaken == { w \in Wallet : participant[w].refund_claimed }

(* What one winner gets.                                                   *)
Share == lottery.total_payout \div lottery.winners_count

(* The vault and what was paid out are the rent and what was paid in.      *)
Balanced ==
  vault + SumOver(received, Recipient) = VaultRent + lottery.total_funds

(* Every recipient has what the books owe it so far.                       *)
Purses ==
  /\ \A w \in Wallet : received[w] = PaidShare(w) + Refunded(w)
  /\ received[Authority] =
       IF lottery.settlement_complete
       THEN VaultRent + lottery.total_funds - lottery.total_payout
       ELSE IF vault = 0 THEN VaultRent ELSE 0

(* The bits of the paid bitmap are those of entries of the book, and of no *)
(* others; the pages agree with it, and have no paid bit before the book   *)
(* is closed.                                                              *)
PaidPages ==
  /\ lottery.paid_winners_bitmap \subseteq 0..lottery.winners_count - 1
  /\ \A i \in 0..root.selected_count - 1 : PaidOnPage(i) <=> i \in lottery.paid_winners_bitmap
  /\ root.phase # "completed" => \A p \in PageIndex : pages[p].paid = {}

(* Without winners: refunds are counted, and the vault is empty only when  *)
(* every participant had one.                                              *)
RefundBook ==
  /\ RefundTaken \subseteq Buyers
  /\ lottery.winners_count = 0 =>
       /\ ~lottery.settlement_complete /\ lottery.total_payout = 0
       /\ lottery.settlement_batches_completed = Cardinality(RefundTaken)
       /\ vault = 0 => lottery.settled /\ Buyers \subseteq RefundTaken

(* With winners: equal shares of a lamport or more, within the funds, and  *)
(* until the last is paid the vault misses exactly the shares paid.        *)
ShareBook ==
  lottery.winners_count > 0 =>
    /\ lottery.total_payout = Share * lottery.winners_count
    /\ Share \in Nat \ {0} /\ lottery.total_payout <= lottery.total_funds
    /\ lottery.settlement_complete <=> AllWinnersPaid(lottery.paid_winners_bitmap)
    /\ ~lottery.settlement_complete =>
         vault + Share * Cardinality(lottery.paid_winners_bitmap)
           = VaultRent + lottery.total_funds

(* The inductive invariant of the money, next to Book.                     *)
Money == Balanced /\ Purses /\ PaidPages /\ RefundBook /\ ShareBook

(***************************************************************************)
(* Recipients, and steps that move no lamport.                             *)
(***************************************************************************)
(* Lamports is a sum of received.                                          *)
LEMMA LamportsSum == Lamports = SumOver(received, Recipient)
<1> DEFINE P(iter) == iter = [s \in SUBSET Recipient |->
      IF s = {} THEN 0
      ELSE LET x == CHOOSE x \in s : TRUE IN received[x] + iter[s \ {x}]]
<1>1. Lamports = (CHOOSE iter : P(iter))[Recipient]
  BY DEF Lamports, MapThenSumSet, MapThenFoldSet
<1>2. IsFiniteSet(Recipient)
  <2>1. IsFiniteSet(Wallet \cup {Authority}) BY FS_AddElement, RoundAssumption
  <2> QED BY <2>1 DEF Recipient
<1>3. \A iter : P(iter) <=> IsSum(iter, received, Recipient)
  BY DEF IsSum, Unfolded, FirstOf
<1>4. PICK g : IsSum(g, received, Recipient) /\ SumOver(received, Recipient) = g[Recipient]
  BY <1>2, SumOverIsSum
<1> DEFINE G == CHOOSE iter : P(iter)
<1>5. P(G)
  <2>1. P(g) BY <1>3, <1>4
  <2> HIDE DEF P
  <2> QED BY <2>1
<1>6. IsSum(G, received, Recipient) BY <1>3, <1>5
<1>7. G[Recipient] = g[Recipient] BY <1>2, <1>4, <1>6, SumUnique
<1> QED BY <1>1, <1>4, <1>7

(* Recipients are the wallets and the authority, a finite set.             *)
LEMMA RecipientsFinite ==
  /\ IsFiniteSet(Recipient) /\ Authority \in Recipient /\ Wallet \subseteq Recipient
  /\ Recipient \ {Authority} = Wallet
<1>1. IsFiniteSet(Wallet \cup {Authority}) BY FS_AddElement, RoundAssumption
<1> QED BY <1>1, RoundAssumption DEF Recipient

(* Once a round has winners, its book is closed.                           *)
LEMMA WinnersMeanCompleted ==
  ASSUME Book, lottery.winners_count # 0
  PROVE  /\ root.phase = "completed"
         /\ root.selected_count = lottery.winners_count
         /\ lottery.winners_count \in 1..MaxWinnersCap
         /\ \A i \in 0..lottery.winners_count - 1 :
              /\ PageOf(i) \in PageIndex
              /\ EntryAt(i).wallet \in Wallet
         /\ \A i, j \in 0..lottery.winners_count - 1 :
              EntryAt(i).wallet = EntryAt(j).wallet => i = j
<1>1. TypeOK /\ Aggregation /\ Booked BY DEF Book, Books, Draws, Safe, TypeInv
<1>2. root.phase = "completed" /\ root.selected_count = lottery.winners_count
  BY <1>1 DEF Booked
<1>3. /\ root.selected_count \in 0..MaxWinnersCap
      /\ \A i \in 0..MaxWinnersCap - 1 : PageOf(i) \in PageIndex
  BY <1>1, PagesInRange
<1>4. lottery.winners_count \in 1..MaxWinnersCap BY <1>2, <1>3
<1>5. \A i \in 0..lottery.winners_count - 1 : i \in 0..MaxWinnersCap - 1
  BY <1>4, RoundAssumption DEF MAX_WINNERS
<1> QED BY <1>1, <1>2, <1>3, <1>4, <1>5, BuyersAreWallets DEF Booked

(* A round without winners has paid no share.                              *)
LEMMA NoWinnersYet ==
  ASSUME Book, Money, lottery.winners_count = 0
  PROVE  /\ root.phase # "completed" /\ lottery.paid_winners_bitmap = {}
         /\ \A w \in Wallet : PaidShare(w) = 0
         /\ \A p \in PageIndex : pages[p].paid = {}
<1>1. TypeOK /\ Aggregation /\ Booked BY DEF Book, Books, Draws, Safe, TypeInv
<1>2. root.phase # "completed"
  <2>1. ASSUME root.phase = "completed" PROVE FALSE
    <3>1. root.target_winners \in 1..MaxWinners BY <1>1, <2>1 DEF Aggregation, Frozen
    <3>2. root.target_winners = 0 BY <1>1, <2>1 DEF Booked
    <3> QED BY <1>1, <3>1, <3>2, MaxWinnersBound
  <2> QED BY <2>1
<1>3. lottery.paid_winners_bitmap = {} BY DEF Money, PaidPages
<1> QED BY <1>2, <1>3 DEF PaidShare, Money, PaidPages

(* A step that moves no lamport and leaves alone what the money is owed    *)
(* for.                                                                    *)
SameMoney ==
  /\ lottery'.total_funds = lottery.total_funds
  /\ lottery'.winners_count = lottery.winners_count
  /\ lottery'.total_payout = lottery.total_payout
  /\ lottery'.paid_winners_bitmap = lottery.paid_winners_bitmap
  /\ lottery'.settlement_batches_completed = lottery.settlement_batches_completed
  /\ lottery'.settlement_complete = lottery.settlement_complete
  /\ lottery.settled => lottery'.settled
  /\ vault' = vault /\ received' = received
  /\ \A w \in Wallet :
       /\ participant'[w].refund_claimed <=> participant[w].refund_claimed
       /\ participant'[w].tickets_bought = participant[w].tickets_bought
       /\ participant'[w].status = "none" <=> participant[w].status = "none"
  /\ \A p \in PageIndex : pages'[p].paid = pages[p].paid
  /\ lottery.winners_count # 0 =>
       root' = root /\ \A p \in PageIndex : pages'[p].entries = pages[p].entries

(* A step that settles nothing either.                                     *)
Idle == SameMoney /\ lottery'.settled = lottery.settled

(* Such a step keeps the invariant.                                        *)
LEMMA MoneyKept ==
  ASSUME Book, Book', Money, SameMoney
  PROVE  Money'
<1>1. Buyers' = Buyers /\ RefundTaken' = RefundTaken
  BY DEF SameMoney, Buyers, RefundTaken
<1>2. \A w \in Wallet : Refunded(w)' = Refunded(w) BY DEF SameMoney, Refunded
<1>3. RefundBook' BY <1>1 DEF Money, RefundBook, SameMoney
<1>4. Balanced' BY DEF Money, Balanced, SameMoney
<1>5. Share' = Share BY DEF SameMoney, Share
<1>6. ShareBook' BY <1>5 DEF Money, ShareBook, SameMoney, AllWinnersPaid
<1>7. PaidPages' /\ \A w \in Wallet : PaidShare(w)' = PaidShare(w)
  <2>1. CASE lottery.winners_count = 0
    <3>1. lottery.paid_winners_bitmap' = {} /\ \A p \in PageIndex : pages'[p].paid = {}
      BY <2>1, NoWinnersYet DEF SameMoney
    <3>2. \A w \in Wallet : PaidShare(w) = 0 /\ PaidShare(w)' = 0
      BY <2>1, <3>1, NoWinnersYet DEF PaidShare
    <3>3. TypeOK' /\ Aggregation' /\ Booked' BY DEF Book, Books, Draws, Safe, TypeInv
    <3>4. \A i \in 0..root'.selected_count - 1 : PageOf(i) \in PageIndex
      <4>1. root'.selected_count <= MaxWinnersCap /\ root'.selected_count \in Nat
        <5>1. MaxWinners' \in 1..MaxWinnersCap
          BY <3>3, RoundAssumption
          DEF TypeOK, LotteryAccount, U64, MaxWinners, EffectiveMaxWinners, AtMost,
              AtLeast, MAX_WINNERS
        <5>2. root'.selected_count \in Nat /\ root'.target_winners \in Nat
          BY <3>3 DEF TypeOK, FinalizationLedger
        <5>3. root'.target_winners <= MaxWinnersCap
          BY <3>3, <5>1, RoundAssumption DEF Aggregation
        <5> QED BY <3>3, <5>2, <5>3, RoundAssumption DEF Booked
      <4>2. \A i \in 0..MaxWinnersCap - 1 : PageOf(i) \in PageIndex
        BY PagesInRange DEF Book, Books, Draws, Safe, TypeInv
      <4> QED BY <4>1, <4>2, RoundAssumption DEF MAX_WINNERS
    <3> QED BY <3>1, <3>2, <3>4 DEF PaidPages, PaidOnPage
  <2>2. CASE lottery.winners_count # 0
    <3>1. /\ lottery.winners_count = root.selected_count
          /\ root.phase = "completed"
          /\ \A i \in 0..lottery.winners_count - 1 : PageOf(i) \in PageIndex
      BY <2>2, WinnersMeanCompleted
    <3>2. \A i \in 0..lottery.winners_count - 1 :
            EntryAt(i)' = EntryAt(i) /\ (PaidOnPage(i)' <=> PaidOnPage(i))
      BY <2>2, <3>1 DEF SameMoney, EntryAt, PaidOnPage
    <3>3. PaidPages' BY <2>2, <3>1, <3>2 DEF PaidPages, Money, SameMoney
    <3>4. \A w \in Wallet :
            (\E i \in lottery'.paid_winners_bitmap : EntryAt(i)'.wallet = w)
              <=> \E i \in lottery.paid_winners_bitmap : EntryAt(i).wallet = w
      BY <3>2 DEF Money, PaidPages, SameMoney
    <3>5. \A w \in Wallet : PaidShare(w)' = PaidShare(w)
      BY <3>4 DEF PaidShare, SameMoney
    <3> QED BY <3>3, <3>5
  <2> QED BY <2>1, <2>2
<1>8. Purses' BY <1>2, <1>7 DEF Money, Purses, SameMoney
<1> QED BY <1>3, <1>4, <1>6, <1>7, <1>8 DEF Money

(* The part of it about the Lottery account and the lamports.              *)
SameFunds ==
  /\ lottery'.total_funds = lottery.total_funds
  /\ lottery'.winners_count = lottery.winners_count
  /\ lottery'.total_payout = lottery.total_payout
  /\ lottery'.paid_winners_bitmap = lottery.paid_winners_bitmap
  /\ lottery'.settlement_batches_completed = lottery.settlement_batches_completed
  /\ lottery'.settlement_complete = lottery.settlement_complete
  /\ lottery'.settled = lottery.settled
  /\ vault' = vault /\ received' = received

(* The books include the types.                                            *)
LEMMA BookTypes == ASSUME Book PROVE TypeOK BY DEF Book, Safe, TypeInv

(* The clock moves no lamport.                                             *)
LEMMA MoneyTick == ASSUME Book, Tick PROVE Idle
  BY DEF Tick, Idle, SameMoney

(* An early upload phase moves no lamport.                                 *)
LEMMA MoneyBeginReveal ==
  ASSUME Book, NEW a \in Nat, NEW u \in Nat, BeginReveal(a, u) PROVE Idle
<1> DEFINE deadline == AtLeast(AttestationEnd(a), AttestationEnd(a) + OrDefault(u))
           begun    == [lottery EXCEPT !.upload_start_unix    = now,
                                       !.upload_deadline_unix = deadline]
<1>1. /\ lottery' = IF lottery.participants_count = 1
                    THEN [begun EXCEPT !.uploads_complete           = TRUE,
                                       !.poc_aggregate_hash         = {NoWallet},
                                       !.selected_number_of_winners = 1]
                    ELSE begun
      /\ UNCHANGED <<now, participant, tally, root, pages, vault, received>>
  BY DEF BeginReveal
<1> HIDE DEF deadline
<1>2. TypeOK BY BookTypes
<1>3. SameFunds BY <1>1, <1>2 DEF SameFunds, TypeOK, LotteryAccount
<1> QED BY <1>1, <1>3 DEF SameFunds, Idle, SameMoney

(* An attestation moves no lamport; it lowers the refund flag, which is    *)
(* down anyway while a round is not settled.                               *)
LEMMA MoneyAttest ==
  ASSUME Book, NEW w \in Wallet, NEW vote \in Nat, NEW included \in BOOLEAN,
         InUploadPhase,
         participant' = [participant EXCEPT
           ![w] = [VoteAndAttest(participant[w], vote) EXCEPT !.reveal_included = included]],
         UNCHANGED <<root, pages>>, SameFunds
  PROVE  Idle
<1>1. TypeOK BY BookTypes
<1>2. /\ participant'[w].status = participant[w].status
      /\ participant'[w].tickets_bought = participant[w].tickets_bought
      /\ participant'[w].refund_claimed = FALSE
      /\ \A v \in Wallet \ {w} : participant'[v] = participant[v]
  BY <1>1, AttestedAccount
<1>3. ~lottery.settled BY <1>1, NoAttestationAfterLedger DEF Book, Safe
<1>4. ~participant[w].refund_claimed BY <1>3, NoRefundYet DEF Book, Safe
<1> QED BY <1>2, <1>4 DEF Idle, SameMoney, SameFunds

(* An attestation without a reveal moves no lamport.                       *)
LEMMA MoneyAttestUploaded ==
  ASSUME Book, NEW w \in Wallet, NEW vote \in Nat, AttestUploaded(w, vote)
  PROVE  Idle
<1> DEFINE attested == lottery.attested_count + 1
           start    == StartOfSettlement(AllAttested(attested))
<1>1. /\ InUploadPhase
      /\ lottery' = [lottery EXCEPT !.attested_count        = attested,
                                    !.settlement_start_unix = start]
      /\ UNCHANGED <<root, pages, vault, received>>
  BY DEF AttestUploaded, MayAttest
<1>2. TypeOK BY BookTypes
<1>3. participant' = [participant EXCEPT
        ![w] = [VoteAndAttest(participant[w], vote) EXCEPT !.reveal_included = FALSE]]
  <2>1. [VoteAndAttest(participant[w], vote) EXCEPT !.reveal_included = FALSE]
          = VoteAndAttest(participant[w], vote)
    BY <1>2 DEF TypeOK, ParticipantAccount, VoteAndAttest
  <2> QED BY <2>1 DEF AttestUploaded
<1> HIDE DEF attested, start
<1>4. SameFunds BY <1>1, <1>2 DEF SameFunds, TypeOK, LotteryAccount
<1> QED BY <1>1, <1>3, <1>4, MoneyAttest

(* An attestation with its reveal moves no lamport.                        *)
LEMMA MoneyAttestReveal ==
  ASSUME Book, NEW w \in Wallet, NEW vote \in Nat, AttestReveal(w, vote)
  PROVE  Idle
<1>1. /\ InUploadPhase
      /\ participant' = [participant EXCEPT
           ![w] = [VoteAndAttest(participant[w], vote) EXCEPT !.reveal_included = TRUE]]
      /\ UNCHANGED <<root, pages, vault, received>>
  BY DEF AttestReveal, MayAttest
<1>2. PICK attested, uploaded, chosen, start, complete, digest :
        lottery' = [lottery EXCEPT
          !.attested_count             = attested,
          !.provider_uploaded_count    = uploaded,
          !.poc_aggregate_hash         = digest,
          !.selected_number_of_winners = chosen,
          !.settlement_start_unix      = start,
          !.uploads_complete           = complete]
  BY DEF AttestReveal
<1>3. TypeOK BY BookTypes
<1>4. SameFunds BY <1>1, <1>2, <1>3 DEF SameFunds, TypeOK, LotteryAccount
<1> QED BY <1>1, <1>4, MoneyAttest

(* An upload moves no lamport.                                             *)
LEMMA MoneyUploadReveals ==
  ASSUME Book, NEW byAuthority \in BOOLEAN, NEW S \in SUBSET Wallet,
         UploadReveals(byAuthority, S)
  PROVE  Idle
<1> DEFINE begun == BeginRemediation(lottery, CanRemediate(byAuthority))
<1>1. /\ participant' = [w \in Wallet |->
           IF w \in S
           THEN [participant[w] EXCEPT !.reveal_included = TRUE]
           ELSE participant[w]]
      /\ UNCHANGED <<now, root, pages, vault, received>>
  BY DEF UploadReveals, MayUpload
<1>2. PICK uploaded, complete, chosen, start :
        lottery' = [begun EXCEPT
          !.provider_uploaded_count    = uploaded,
          !.uploads_complete           = complete,
          !.poc_aggregate_hash         = SymDiff(begun.poc_aggregate_hash, S),
          !.selected_number_of_winners = chosen,
          !.settlement_start_unix      = start]
  BY DEF UploadReveals, MayUpload
<1>3. TypeOK BY BookTypes
<1>4. /\ begun \in LotteryAccount
      /\ begun.total_funds = lottery.total_funds
      /\ begun.winners_count = lottery.winners_count
      /\ begun.total_payout = lottery.total_payout
      /\ begun.paid_winners_bitmap = lottery.paid_winners_bitmap
      /\ begun.settlement_batches_completed = lottery.settlement_batches_completed
      /\ begun.settlement_complete = lottery.settlement_complete
      /\ begun.settled = lottery.settled
  BY <1>3, BeginRemediationType
  DEF TypeOK, LotteryAccount, CanRemediate, BeginRemediation
<1> HIDE DEF begun
<1>5. SameFunds BY <1>1, <1>2, <1>4 DEF SameFunds, LotteryAccount
<1>6. \A w \in Wallet :
        /\ participant'[w].refund_claimed <=> participant[w].refund_claimed
        /\ participant'[w].tickets_bought = participant[w].tickets_bought
        /\ participant'[w].status = participant[w].status
  BY <1>1, <1>3 DEF TypeOK, ParticipantAccount
<1> QED BY <1>1, <1>5, <1>6 DEF Idle, SameMoney, SameFunds

(* The start of remediation moves no lamport.                              *)
LEMMA MoneyStartRemediation == ASSUME Book, StartRemediation PROVE Idle
<1>1. /\ lottery' = BeginRemediation(lottery, TRUE)
      /\ UNCHANGED <<participant, root, pages, vault, received>>
  BY DEF StartRemediation
<1> QED BY <1>1, BookTypes DEF Idle, SameMoney, BeginRemediation, TypeOK, LotteryAccount

(* The end of a round without winners moves no lamport yet.                *)
LEMMA MoneyFinalizeNoAttesters == ASSUME Book, FinalizeNoAttesters PROVE SameMoney
<1>1. /\ lottery' = [lottery EXCEPT !.settled = TRUE]
      /\ UNCHANGED <<participant, root, pages, vault, received>>
  BY DEF FinalizeNoAttesters
<1> QED BY <1>1, BookTypes DEF SameMoney, TypeOK, LotteryAccount

(* Closing an account moves no lamport of the round.                       *)
LEMMA MoneyCloseParticipant ==
  ASSUME Book, NEW w \in Wallet, CloseParticipant(w) PROVE Idle
<1>1. /\ participant[w].status = "open"
      /\ participant' = [participant EXCEPT ![w].status = "closed"]
      /\ UNCHANGED <<lottery, root, pages, vault, received>>
  BY DEF CloseParticipant, Exists
<1> QED BY <1>1, BookTypes DEF Idle, SameMoney, TypeOK, ParticipantAccount

(* The chunks of FinalizeWinners but for the last one.                     *)
LEMMA MoneyAggregate ==
  ASSUME Book, NEW size \in Nat, MayAggregate(size),
         \E target : lottery' = [lottery EXCEPT !.selected_number_of_winners = target]
  PROVE  Idle
<1>1. TypeOK BY BookTypes
<1>2. /\ participant' = [w \in Wallet |->
           IF w \in Chunk(Ledger.processed_count, size)
           THEN [participant[w] EXCEPT !.finalized = TRUE]
           ELSE participant[w]]
      /\ UNCHANGED <<pages, vault, received>>
  BY DEF MayAggregate
<1>3. \A w \in Wallet :
        /\ participant'[w].refund_claimed <=> participant[w].refund_claimed
        /\ participant'[w].tickets_bought = participant[w].tickets_bought
        /\ participant'[w].status = participant[w].status
  BY <1>1, <1>2 DEF TypeOK, ParticipantAccount
<1>4. SameFunds BY <1>1, <1>2 DEF SameFunds, TypeOK, LotteryAccount
<1>5. lottery.winners_count = 0
  <2>1. Ledger.phase = "aggregating" BY DEF MayAggregate
  <2> QED BY <2>1, LedgerGathered, EmptyBook
<1> QED BY <1>2, <1>3, <1>4, <1>5 DEF Idle, SameMoney, SameFunds

(* A chunk of aggregation moves no lamport.                                *)
LEMMA MoneyAggregateChunk ==
  ASSUME Book, NEW size \in Nat, AggregateChunk(size) PROVE Idle
<1>1. MayAggregate(size) /\ lottery' = lottery BY DEF AggregateChunk
<1>2. lottery' = [lottery EXCEPT !.selected_number_of_winners
                                   = lottery.selected_number_of_winners]
  BY <1>1, BookTypes DEF TypeOK, LotteryAccount
<1>3. \E target : lottery' = [lottery EXCEPT !.selected_number_of_winners = target]
  BY <1>2
<1> QED BY <1>1, <1>3, MoneyAggregate

(* Nor does the last of them.                                              *)
LEMMA MoneyCloseAggregation ==
  ASSUME Book, NEW size \in Nat, CloseAggregation(size) PROVE Idle
<1>1. MayAggregate(size) BY DEF CloseAggregation
<1>2. \E target : lottery' = [lottery EXCEPT !.selected_number_of_winners = target]
  BY DEF CloseAggregation
<1> QED BY <1>1, <1>2, MoneyAggregate

(* A chunk of a selection pass leaves what the money is owed for alone.    *)
LEMMA ScannedAccounts ==
  ASSUME Book, NEW size \in Nat, MayScan(size)
  PROVE  /\ UNCHANGED <<vault, received>>
         /\ lottery.winners_count = 0
         /\ \A w \in Wallet :
              /\ participant'[w].refund_claimed <=> participant[w].refund_claimed
              /\ participant'[w].tickets_bought = participant[w].tickets_bought
              /\ participant'[w].status = participant[w].status
<1>1. TypeOK BY BookTypes
<1>2. /\ participant' = [w \in Wallet |->
           IF w \in Hit(size)
           THEN [participant[w] EXCEPT !.selected = TRUE]
           ELSE participant[w]]
      /\ UNCHANGED <<vault, received>>
      /\ root.phase = "selecting"
  BY DEF MayScan
<1>3. \A w \in Wallet :
        /\ participant'[w].refund_claimed <=> participant[w].refund_claimed
        /\ participant'[w].tickets_bought = participant[w].tickets_bought
        /\ participant'[w].status = participant[w].status
  BY <1>1, <1>2 DEF TypeOK, ParticipantAccount
<1> QED BY <1>2, <1>3 DEF Book, Books, Draws, Booked

(* Appending a winner raises no paid bit.                                  *)
LEMMA AppendedPaid ==
  ASSUME Book, NEW size \in Nat, MayScan(size), AppendWinner(Scanned(size))
  PROVE  \A p \in PageIndex : pages'[p].paid = pages[p].paid
<1>1. TypeOK /\ Aggregation /\ Booked BY DEF Book, Books, Draws, Safe, TypeInv
<1>2. SameLedger(Scanned(size)) BY ScanLedger
<1>3. /\ Scanned(size).selected_count = root.selected_count
      /\ Scanned(size).target_winners = root.target_winners
  BY <1>2 DEF SameLedger
<1> QED BY <1>1, <1>3, WinnerAppended

(* A chunk of a selection pass moves no lamport.                           *)
LEMMA MoneyScanChunk == ASSUME Book, NEW size \in Nat, ScanChunk(size) PROVE Idle
<1>1. MayScan(size) /\ UNCHANGED <<lottery, pages>> BY DEF ScanChunk
<1> QED BY <1>1, ScannedAccounts DEF Idle, SameMoney

(* The end of a selection round moves no lamport.                          *)
LEMMA MoneyCloseRound == ASSUME Book, NEW size \in Nat, CloseRound(size) PROVE Idle
<1>1. MayScan(size) /\ AppendWinner(Scanned(size)) /\ UNCHANGED lottery BY DEF CloseRound
<1> QED BY <1>1, ScannedAccounts, AppendedPaid DEF Idle, SameMoney

(***************************************************************************)
(* Purchases and refunds.                                                  *)
(***************************************************************************)
(* Amounts are naturals.                                                   *)
LEMMA ReceivedType ==
  ASSUME Book
  PROVE  /\ vault \in Nat /\ lottery.total_funds \in Nat /\ VaultRent \in Nat \ {0}
         /\ lottery.total_payout \in Nat /\ lottery.winners_count \in Nat
         /\ \A r \in Recipient : received[r] \in Nat
         /\ SumOver(received, Recipient) \in Nat
<1>1. TypeOK BY BookTypes
<1>2. \A r \in Recipient : received[r] \in Nat BY <1>1 DEF TypeOK
<1>3. SumOver(received, Recipient) \in Nat BY <1>2, RecipientsFinite, SumNat
<1> QED BY <1>1, <1>2, <1>3, RoundAssumption DEF TypeOK, LotteryAccount, U64

(* A purchase keeps the money: what enters the vault enters the funds, and *)
(* nobody has been paid.                                                   *)
LEMMA MoneyBuyTickets ==
  ASSUME Book, Money, NEW w \in Wallet, NEW count \in Nat \ {0}, BuyTickets(w, count)
  PROVE  Money'
<1> DEFINE account == IF ~Exists(w)
                      THEN NewParticipant("open", lottery.participants_count)
                      ELSE participant[w]
           tickets == account.tickets_bought + count
           buyers  == lottery.participants_count + (IF ~Exists(w) THEN 1 ELSE 0)
           total   == lottery.total_tickets + count
           cost    == TicketPrice * count
           funds   == lottery.total_funds + cost
<1>1. /\ ~UploadStarted /\ ~lottery.settled
      /\ participant' = [participant EXCEPT
           ![w] = [account EXCEPT !.tickets_bought = tickets]]
      /\ lottery' = [lottery EXCEPT !.participants_count = buyers,
                                    !.total_tickets      = total,
                                    !.total_funds        = funds]
      /\ vault' = vault + cost
      /\ UNCHANGED <<now, tally, root, pages, received>>
  BY DEF BuyTickets, InBuyWindow
<1>2. TypeOK BY BookTypes
<1>3. root.phase = "absent" /\ lottery.winners_count = 0
  <2>1. root.phase = "absent" BY <1>1, <1>2, NothingBeforeUpload DEF Book, Safe
  <2> QED BY <2>1, EmptyBook
<1>4. cost \in Nat
  <2>1. TicketPrice \in Nat BY RoundAssumption
  <2> QED BY <2>1
<1>5. /\ account \in ParticipantAccount /\ account.status = "open"
      /\ ~account.refund_claimed
  <2>1. \A v \in Wallet : ~participant[v].refund_claimed
    BY <1>1, NoRefundYet DEF Book, Safe
  <2>2. lottery.participants_count \in Nat
    BY <1>2, RoundAssumption DEF TypeOK, LotteryAccount, U64
  <2>3. 0 \in U64 BY RoundAssumption DEF U64
  <2>4. CASE ~Exists(w)
    BY <2>2, <2>3, <2>4 DEF NewParticipant, ParticipantAccount
  <2>5. CASE Exists(w)
    <3>1. account = participant[w] /\ account.status = "open" BY <2>5 DEF Exists
    <3>2. participant[w] \in ParticipantAccount BY <1>2 DEF TypeOK
    <3> QED BY <2>1, <3>1, <3>2
  <2> QED BY <2>4, <2>5
<1> HIDE DEF account, tickets, buyers, total, cost
<1>6. /\ lottery'.total_funds = lottery.total_funds + cost
      /\ lottery'.winners_count = lottery.winners_count
      /\ lottery'.total_payout = lottery.total_payout
      /\ lottery'.paid_winners_bitmap = lottery.paid_winners_bitmap
      /\ lottery'.settlement_batches_completed = lottery.settlement_batches_completed
      /\ lottery'.settlement_complete = lottery.settlement_complete
      /\ lottery'.settled = lottery.settled
  BY <1>1, <1>2 DEF TypeOK, LotteryAccount
<1>7. /\ participant'[w].status = "open" /\ ~participant'[w].refund_claimed
      /\ \A v \in Wallet \ {w} : participant'[v] = participant[v]
  BY <1>1, <1>2, <1>5 DEF TypeOK, ParticipantAccount
<1>8. RefundTaken = {} /\ RefundTaken' = {}
  BY <1>1, <1>7, NoRefundYet DEF Book, Safe, RefundTaken
<1>9. vault \in Nat /\ vault # 0 /\ vault' # 0
  BY <1>1, <1>3, <1>4, ReceivedType DEF Money, RefundBook
<1>10. \A v \in Wallet : /\ PaidShare(v) = 0 /\ PaidShare(v)' = 0
                         /\ Refunded(v) = 0 /\ Refunded(v)' = 0
  <2>1. lottery.paid_winners_bitmap = {} BY <1>3, NoWinnersYet
  <2> QED BY <1>6, <1>8, <2>1 DEF PaidShare, Refunded, RefundTaken
<1>11. Balanced' BY <1>1, <1>4, <1>6, ReceivedType DEF Money, Balanced
<1>12. Purses' BY <1>1, <1>3, <1>6, <1>9, <1>10 DEF Money, Purses, RefundBook
<1>13. PaidPages' BY <1>1, <1>6 DEF Money, PaidPages, PaidOnPage
<1>14. RefundBook' BY <1>3, <1>6, <1>8, <1>9 DEF Money, RefundBook
<1>15. ShareBook' BY <1>3, <1>6 DEF ShareBook
<1> QED BY <1>11, <1>12, <1>13, <1>14, <1>15 DEF Money

(* Refunds paid, as a sum over those who took one.                         *)
LEMMA RefundSum ==
  ASSUME Book, NEW S \in SUBSET Buyers
  PROVE  /\ SumOver([w \in Wallet |-> IF w \in S THEN TicketPrice * Held[w] ELSE 0], Wallet)
              = TicketPrice * SumOver(Held, S)
         /\ TicketPrice * SumOver(Held, S) <= lottery.total_funds
         /\ S = Buyers => TicketPrice * SumOver(Held, S) = lottery.total_funds
         /\ TicketPrice * SumOver(Held, S) \in Nat
<1> DEFINE g == [w \in Wallet |-> IF w \in S THEN TicketPrice * Held[w] ELSE 0]
<1>1. TypeOK /\ Enrolled BY BookTypes DEF Book, Books
<1>2. \A w \in Wallet : Held[w] \in Nat BY <1>1, HeldType
<1>3. S \in SUBSET Wallet /\ Wallet \ S \in SUBSET Wallet /\ Buyers \in SUBSET Wallet
  BY BuyersAreWallets
<1>4. IsFiniteSet(S) /\ IsFiniteSet(Wallet \ S) /\ IsFiniteSet(Wallet) /\ IsFiniteSet(Buyers)
  BY <1>3, WalletsFinite, RoundAssumption
<1>5. TicketPrice \in Nat BY RoundAssumption
<1>6. \A a \in Nat : TicketPrice * a \in Nat BY <1>5
<1>7. \A w \in Wallet : g[w] \in Nat BY <1>2, <1>6
<1>8. \A w \in S : Held[w] \in Nat /\ g[w] = TicketPrice * Held[w] BY <1>2, <1>3
<1>9. \A w \in Wallet \ S : g[w] = 0 OBVIOUS
<1> HIDE DEF g
<1>10. SumOver(g, S) = TicketPrice * SumOver(Held, S) BY <1>4, <1>5, <1>8, SumScale
<1>11. SumOver(g, Wallet \ S) = 0
  <2>1. SumOver(g, Wallet \ S) = 0 * Cardinality(Wallet \ S) BY <1>4, <1>9, SumConst
  <2>2. Cardinality(Wallet \ S) \in Nat BY <1>3, WalletsFinite
  <2> QED BY <2>1, <2>2
<1>12. SumOver(g, Wallet) = SumOver(g, S) + SumOver(g, Wallet \ S)
  BY <1>3, <1>4, <1>7, SumParts
<1>13. SumOver(Held, S) \in Nat /\ SumOver(Held, Buyers) \in Nat
  BY <1>2, <1>3, <1>4, SumNat
<1>14. SumOver(Held, S) <= SumOver(Held, Buyers) BY <1>2, <1>3, <1>4, SumParts
<1>15. \A a, b \in Nat : a <= b => TicketPrice * a <= TicketPrice * b BY <1>5
<1>16. lottery.total_funds = TicketPrice * SumOver(Held, Buyers) BY <1>1 DEF Enrolled
<1>17. TicketPrice * SumOver(Held, S) <= lottery.total_funds BY <1>13, <1>14, <1>15, <1>16
<1>18. TicketPrice * SumOver(Held, S) \in Nat BY <1>6, <1>13
<1>19. SumOver(g, Wallet) = TicketPrice * SumOver(Held, S) BY <1>10, <1>11, <1>12, <1>18
<1> QED BY <1>16, <1>17, <1>18, <1>19 DEF g

(* A round without winners: what the vault holds is what the refunds left. *)
LEMMA RefundVault ==
  ASSUME Book, Money, lottery.winners_count = 0
  PROVE  /\ vault # 0 => vault = VaultRent + lottery.total_funds
                                   - TicketPrice * SumOver(Held, RefundTaken)
         /\ vault # 0 => vault >= VaultRent
         /\ vault = VaultRent \/ ~(Buyers \subseteq RefundTaken) \/ vault = 0
<1>1. TypeOK BY BookTypes
<1>2. RefundTaken \in SUBSET Buyers BY DEF Money, RefundBook
<1> DEFINE g == [w \in Wallet |-> IF w \in RefundTaken THEN TicketPrice * Held[w] ELSE 0]
<1>3. \A w \in Wallet : received[w] = g[w]
  <2>1. \A w \in Wallet : PaidShare(w) = 0 BY NoWinnersYet
  <2>2. \A w \in Wallet : Refunded(w) = g[w] BY DEF Refunded, RefundTaken, Held
  <2>3. \A w \in Wallet : g[w] \in Nat
    BY <2>1, <2>2, ReceivedType, RecipientsFinite, HeldType, <1>1, RoundAssumption
  <2> QED BY <2>1, <2>2, <2>3 DEF Money, Purses
<1>4. SumOver(received, Wallet) = SumOver(g, Wallet)
  <2> HIDE DEF g
  <2> QED BY <1>3, RoundAssumption, SumSame
<1> DEFINE paid == TicketPrice * SumOver(Held, RefundTaken)
<1>5. SumOver(g, Wallet) = paid BY <1>2, RefundSum
<1>6. paid <= lottery.total_funds /\ paid \in Nat BY <1>2, RefundSum
<1>7. RefundTaken = Buyers => paid = lottery.total_funds BY <1>2, RefundSum
<1> HIDE DEF g, paid
<1>8. SumOver(received, Recipient) = received[Authority] + SumOver(received, Wallet)
  <2>1. SumOver(received, Recipient)
          = received[Authority] + SumOver(received, Recipient \ {Authority})
    BY ReceivedType, RecipientsFinite, SumRemove
  <2>2. SumOver(received, Recipient \ {Authority}) = SumOver(received, Wallet)
    BY RecipientsFinite, Zenon
  <2> QED BY <2>1, <2>2
<1>9. received[Authority] = IF vault = 0 THEN VaultRent ELSE 0
  BY DEF Money, Purses, RefundBook
<1>10. vault # 0 => vault + paid = VaultRent + lottery.total_funds
  BY <1>4, <1>5, <1>6, <1>8, <1>9, ReceivedType DEF Money, Balanced
<1>11. Buyers \subseteq RefundTaken => RefundTaken = Buyers BY <1>2
<1> QED BY <1>6, <1>7, <1>10, <1>11, ReceivedType DEF paid

(* A refund never touches the rent: the funds are the price of all tickets *)
(* bought, so what is left covers the refunds not yet taken.               *)
LEMMA RefundLeavesRent ==
  ASSUME Book, Money, NEW w \in Wallet, ClaimRefund(w)
  PROVE  vault' >= VaultRent
<1> DEFINE amount == TicketPrice * participant[w].tickets_bought
           S      == RefundTaken \cup {w}
<1>1. /\ HasTickets(w) /\ RefundsDue /\ ~participant[w].refund_claimed
      /\ vault' = vault - amount
  BY DEF ClaimRefund, RefundOwed
<1>2. TypeOK BY BookTypes
<1>3. lottery.winners_count = 0 /\ w \in Buyers /\ w \notin RefundTaken
  BY <1>1 DEF RefundsDue, HasTickets, Exists, Buyers, RefundTaken
<1>4. vault # 0 /\ RefundTaken \in SUBSET Buyers BY <1>3 DEF Money, RefundBook
<1>5. Held[w] \in Nat /\ amount = TicketPrice * Held[w] /\ TicketPrice \in Nat
  BY <1>2, HeldType, RoundAssumption DEF Held
<1>6. amount \in Nat BY <1>5
<1> HIDE DEF amount
<1>7. S \in SUBSET Buyers BY <1>3, <1>4
<1>8. IsFiniteSet(RefundTaken) /\ \A v \in RefundTaken : Held[v] \in Nat
  BY <1>2, <1>4, BuyersAreWallets, WalletsFinite, HeldType
<1>9. SumOver(Held, S) = SumOver(Held, RefundTaken) + Held[w]
  BY <1>3, <1>5, <1>8, SumAdd
<1>10. TicketPrice * SumOver(Held, S) <= lottery.total_funds BY <1>7, RefundSum
<1>11. SumOver(Held, RefundTaken) \in Nat BY <1>8, SumNat
<1>12. TicketPrice * (SumOver(Held, RefundTaken) + Held[w])
         = TicketPrice * SumOver(Held, RefundTaken) + amount
  BY <1>5, <1>11, Distribute
<1>13. vault = VaultRent + lottery.total_funds - TicketPrice * SumOver(Held, RefundTaken)
  BY <1>3, <1>4, RefundVault
<1> HIDE DEF S
<1>14. TicketPrice * SumOver(Held, RefundTaken) \in Nat BY <1>4, RefundSum
<1> QED BY <1>1, <1>6, <1>9, <1>10, <1>12, <1>13, <1>14, ReceivedType

(* A refund keeps the money: one purse gets the price of its tickets, for  *)
(* the first time, and the vault still holds the rent.                     *)
LEMMA MoneyClaimRefund ==
  ASSUME Book, Money, NEW w \in Wallet, ClaimRefund(w)
  PROVE  Money'
<1> DEFINE amount  == TicketPrice * participant[w].tickets_bought
           batches == lottery.settlement_batches_completed + 1
<1>1. /\ HasTickets(w) /\ RefundsDue /\ ~participant[w].refund_claimed
      /\ vault >= amount /\ vault' = vault - amount
      /\ received' = [received EXCEPT ![w] = received[w] + amount]
      /\ participant' = [participant EXCEPT ![w].refund_claimed = TRUE]
      /\ lottery' = [lottery EXCEPT !.settlement_batches_completed = batches]
      /\ UNCHANGED <<now, tally, root, pages>>
  BY DEF ClaimRefund, RefundOwed, Pay
<1>2. TypeOK BY BookTypes
<1>3. /\ lottery.winners_count = 0 /\ lottery.settled
      /\ w \in Buyers /\ w \notin RefundTaken
  BY <1>1 DEF RefundsDue, HasTickets, Exists, Buyers, RefundTaken
<1>4. vault # 0 /\ RefundTaken \in SUBSET Buyers BY <1>3 DEF Money, RefundBook
<1>5. Held[w] \in Nat /\ amount = TicketPrice * Held[w] /\ TicketPrice \in Nat
  BY <1>2, HeldType, RoundAssumption DEF Held
<1>6. amount \in Nat BY <1>5
<1> HIDE DEF amount, batches
<1>7. /\ lottery'.total_funds = lottery.total_funds
      /\ lottery'.winners_count = 0
      /\ lottery'.total_payout = lottery.total_payout
      /\ lottery'.paid_winners_bitmap = lottery.paid_winners_bitmap
      /\ lottery'.settlement_batches_completed = batches
      /\ lottery'.settlement_complete = lottery.settlement_complete
      /\ lottery'.settled = lottery.settled
  BY <1>1, <1>2, <1>3 DEF TypeOK, LotteryAccount
<1>8. /\ participant'[w].refund_claimed = TRUE
      /\ participant'[w].tickets_bought = participant[w].tickets_bought
      /\ participant'[w].status = participant[w].status
      /\ \A v \in Wallet \ {w} : participant'[v] = participant[v]
  BY <1>1, <1>2 DEF TypeOK, ParticipantAccount
<1>9. RefundTaken' = RefundTaken \cup {w} /\ Buyers' = Buyers
  BY <1>8 DEF RefundTaken, Buyers
<1>10. vault' >= VaultRent BY RefundLeavesRent
<1>11. vault' \in Nat /\ vault' # 0 BY <1>1, <1>6, <1>10, ReceivedType
<1>12. \A v \in Wallet : PaidShare(v) = 0 /\ PaidShare(v)' = 0
  <2>1. lottery.paid_winners_bitmap = {} BY <1>3, NoWinnersYet
  <2> QED BY <1>7, <2>1 DEF PaidShare
<1>13. /\ received'[w] = received[w] + amount
       /\ \A r \in Recipient \ {w} : received'[r] = received[r]
  BY <1>1, <1>2 DEF TypeOK, Recipient
<1>14. w \in Recipient /\ Authority # w BY RecipientsFinite, RoundAssumption
<1>15. Balanced'
  <2>1. received'[w] \in Nat BY <1>6, <1>13, <1>14, ReceivedType
  <2>2. SumOver(received', Recipient) + received[w] = SumOver(received, Recipient) + received'[w]
    BY <1>13, <1>14, <2>1, ReceivedType, RecipientsFinite, SumUpdate
  <2>3. \A r \in Recipient : received'[r] \in Nat BY <1>13, <2>1, ReceivedType
  <2>4. SumOver(received', Recipient) \in Nat BY <2>3, RecipientsFinite, SumNat
  <2> QED BY <1>1, <1>6, <1>7, <1>13, <1>14, <2>2, <2>4, ReceivedType DEF Money, Balanced
<1>16. Purses'
  <2>1. received[Authority] = 0
    BY <1>3, <1>4 DEF Money, Purses, RefundBook
  <2>2. received'[Authority] = 0 BY <1>13, <1>14, <2>1, RecipientsFinite
  <2>3. received[w] = 0 BY <1>1, <1>12 DEF Money, Purses, Refunded
  <2>4. Refunded(w)' = amount BY <1>8 DEF Refunded, amount
  <2>5. \A v \in Wallet \ {w} : Refunded(v)' = Refunded(v) BY <1>8 DEF Refunded
  <2>6. ~lottery'.settlement_complete BY <1>3, <1>7 DEF Money, RefundBook
  <2>7. \A v \in Wallet : received'[v] = PaidShare(v)' + Refunded(v)'
    <3>1. received'[w] = PaidShare(w)' + Refunded(w)'
      BY <1>6, <1>12, <1>13, <2>3, <2>4
    <3>2. \A v \in Wallet \ {w} : received'[v] = PaidShare(v)' + Refunded(v)'
      BY <1>12, <1>13, <2>5, RecipientsFinite DEF Money, Purses
    <3> QED BY <3>1, <3>2
  <2> QED BY <1>11, <2>2, <2>6, <2>7 DEF Purses
<1>17. PaidPages' BY <1>1, <1>3, <1>7 DEF Money, PaidPages, PaidOnPage
<1>18. RefundBook'
  <2>1. IsFiniteSet(RefundTaken) BY <1>4, BuyersAreWallets, WalletsFinite
  <2>2. Cardinality(RefundTaken \cup {w}) = Cardinality(RefundTaken) + 1
    BY <1>3, <2>1, FS_AddElement
  <2>3. Cardinality(RefundTaken') = Cardinality(RefundTaken \cup {w}) BY <1>9, Zenon
  <2> QED BY <1>3, <1>4, <1>7, <1>9, <1>11, <2>2, <2>3 DEF Money, RefundBook, batches
<1>19. ShareBook' BY <1>7 DEF ShareBook
<1> QED BY <1>15, <1>16, <1>17, <1>18, <1>19 DEF Money

(* CloseRefundVault may be called only when every participant has its      *)
(* refund, and the rent is all that is left.                               *)
LEMMA RefundsAllPaid ==
  ASSUME Book, Money, CloseRefundVault
  PROVE  /\ lottery.winners_count = 0 /\ lottery.settled
         /\ Buyers \subseteq RefundTaken
         /\ vault = VaultRent /\ received[Authority] = 0 /\ ~lottery.settlement_complete
<1>1. /\ RefundsDue
      /\ lottery.settlement_batches_completed >= lottery.participants_count
      /\ vault # 0
  BY DEF CloseRefundVault
<1>2. lottery.winners_count = 0 /\ lottery.settled BY <1>1 DEF RefundsDue
<1>3. Buyers \subseteq RefundTaken
  <2>1. RefundTaken \subseteq Buyers /\ IsFiniteSet(Buyers)
    BY BuyersAreWallets, WalletsFinite DEF Money, RefundBook
  <2>2. Cardinality(RefundTaken) <= Cardinality(Buyers)
        /\ (Cardinality(RefundTaken) = Cardinality(Buyers) => RefundTaken = Buyers)
    BY <2>1, FS_Subset
  <2>3. Cardinality(RefundTaken) >= Cardinality(Buyers)
    BY <1>1, <1>2 DEF Money, RefundBook, Book, Books, Enrolled
  <2>4. Cardinality(RefundTaken) \in Nat /\ Cardinality(Buyers) \in Nat
    BY <2>1, BuyersAreWallets, WalletsFinite
  <2> QED BY <2>2, <2>3, <2>4
<1>4. vault = VaultRent BY <1>1, <1>2, <1>3, RefundVault
<1>5. received[Authority] = 0 /\ ~lottery.settlement_complete
  BY <1>1, <1>2 DEF Money, Purses, RefundBook
<1> QED BY <1>2, <1>3, <1>4, <1>5

(* Emptying the vault keeps the money: as many refunds as participants are *)
(* the refunds of all of them, so only the rent was left.                  *)
LEMMA MoneyCloseRefundVault ==
  ASSUME Book, Money, CloseRefundVault
  PROVE  Money'
<1>1. /\ RefundsDue
      /\ lottery.settlement_batches_completed >= lottery.participants_count
      /\ vault # 0 /\ vault' = 0
      /\ received' = [received EXCEPT ![Authority] = received[Authority] + vault]
      /\ UNCHANGED <<now, lottery, participant, tally, root, pages>>
  BY DEF CloseRefundVault, Pay
<1>2. TypeOK BY BookTypes
<1>3. lottery.winners_count = 0 /\ lottery.settled BY <1>1 DEF RefundsDue
<1>4. /\ Buyers \subseteq RefundTaken
      /\ vault = VaultRent /\ received[Authority] = 0 /\ ~lottery.settlement_complete
  BY RefundsAllPaid
<1>5. /\ received'[Authority] = VaultRent
      /\ \A r \in Recipient \ {Authority} : received'[r] = received[r]
  BY <1>1, <1>2, <1>4, RoundAssumption DEF TypeOK, Recipient
<1>6. Balanced'
  <2>1. received'[Authority] \in Nat BY <1>5, ReceivedType
  <2>2. SumOver(received', Recipient) + received[Authority]
          = SumOver(received, Recipient) + received'[Authority]
    BY <1>5, <2>1, ReceivedType, RecipientsFinite, SumUpdate
  <2>3. \A r \in Recipient : received'[r] \in Nat BY <1>5, <2>1, ReceivedType
  <2>4. SumOver(received', Recipient) \in Nat BY <2>3, RecipientsFinite, SumNat
  <2> QED BY <1>1, <1>4, <1>5, <2>2, <2>4, ReceivedType DEF Money, Balanced
<1>7. Purses'
  <2>1. \A w \in Wallet : PaidShare(w)' = PaidShare(w) /\ Refunded(w)' = Refunded(w)
    BY <1>1 DEF PaidShare, Refunded, EntryAt
  <2>2. \A w \in Wallet : received'[w] = received[w] BY <1>5, RecipientsFinite, RoundAssumption
  <2> QED BY <1>1, <1>4, <1>5, <2>1, <2>2 DEF Money, Purses
<1>8. PaidPages' BY <1>1 DEF Money, PaidPages, PaidOnPage
<1>9. RefundBook' BY <1>1, <1>3, <1>4 DEF Money, RefundBook, RefundTaken, Buyers
<1>10. ShareBook' BY <1>1, <1>3 DEF ShareBook
<1> QED BY <1>6, <1>7, <1>8, <1>9, <1>10 DEF Money

(* The pool shared out: at least a lamport each, and no more than it has.  *)
(***************************************************************************)
(* Shares.                                                                 *)
(***************************************************************************)
LEMMA FairShares ==
  ASSUME NEW pool \in Nat, NEW n \in Nat \ {0}, pool >= n
  PROVE  /\ ((pool \div n) * n) \div n = pool \div n
         /\ pool \div n \in Nat \ {0}
         /\ (pool \div n) * n \in 0..pool
<1> DEFINE q == pool \div n
           r == pool % n
<1>1. q \in Nat /\ r \in 0..n - 1 /\ pool = q * n + r BY DivMod
<1>2. q * n \in 0..pool BY SharesBound
<1> HIDE DEF q, r
<1>3. q # 0
  <2>1. SUFFICES ASSUME q = 0 PROVE FALSE OBVIOUS
  <2>2. q * n = 0 BY <2>1
  <2> QED BY <1>1, <2>2
<1>4. (q * n) \div n = q
  <2>1. 0 \in 0..n - 1 OBVIOUS
  <2>2. (q * n + 0) \div n = q BY <1>1, <2>1, DivUnique
  <2>3. q * n + 0 = q * n BY <1>2
  <2> QED BY <2>2, <2>3
<1> QED BY <1>1, <1>2, <1>3, <1>4 DEF q

(* The winners' pool is within the funds.                                  *)
LEMMA PoolWithinFunds ==
  ASSUME Book
  PROVE  WinnersPool(lottery.total_funds, ServiceChargeBps) \in 0..lottery.total_funds
<1> DEFINE fee == ServiceFee(lottery.total_funds, ServiceChargeBps)
<1>1. fee \in 0..lottery.total_funds BY BookTypes, ServiceFeeType
<1> HIDE DEF fee
<1>2. WinnersPool(lottery.total_funds, ServiceChargeBps) = lottery.total_funds - fee
  BY DEF WinnersPool, fee
<1> QED BY <1>1, <1>2, ReceivedType

(* The end of the last selection round keeps the money: shares are fixed,  *)
(* none is paid, and the vault holds everything.                           *)
LEMMA MoneyCompleteFinalization ==
  ASSUME Book, Money, NEW size \in Nat, CompleteFinalization(size)
  PROVE  Money'
<1> DEFINE s       == Scanned(size)
           ledger  == RecordWinner(s)
           winners == ledger.selected_count
           pool    == WinnersPool(lottery.total_funds, ServiceChargeBps)
           payout  == (pool \div winners) * winners
           bitmap  == { i \in lottery.paid_winners_bitmap : i >= 8 * ((winners + 7) \div 8) }
           start   == IF lottery.settlement_start_unix = 0
                      THEN now ELSE lottery.settlement_start_unix
<1>1. /\ MayScan(size) /\ MayFinalize /\ WinnerFound(s) /\ AppendWinner(s)
      /\ winners = ledger.target_winners
      /\ pool >= winners
      /\ root' = [ledger EXCEPT !.phase = "completed"]
      /\ lottery' = [lottery EXCEPT !.winners_count         = winners,
                                    !.total_payout          = payout,
                                    !.paid_winners_bitmap   = bitmap,
                                    !.settlement_start_unix = start]
      /\ root.phase = "selecting"
  BY DEF CompleteFinalization, MayScan, SharesALamport
<1>2. TypeOK /\ Aggregation /\ Booked BY BookTypes DEF Book, Books, Draws
<1>3. Sound(s) /\ SameLedger(s) BY <1>1, MayScanTypes, ScanLedger DEF Book, Safe
<1>4. Sound(ledger) BY <1>1, ScannedWinner DEF Book, Safe
<1>5. /\ s.selected_count = root.selected_count
      /\ s.target_winners = root.target_winners
  BY <1>3 DEF SameLedger
<1>6. ledger.selected_count = root.selected_count + 1
  <2> HIDE DEF s
  <2> QED BY <1>2, <1>3, RecordWinnerFields
<1> HIDE DEF s
<1> DEFINE n == root.selected_count
<1>7. /\ n \in 0..MaxWinnersCap - 1
      /\ \A p \in PageIndex : pages'[p].paid = pages[p].paid
  BY <1>1, <1>2, <1>5, WinnerAppended
<1>8. n \in Nat /\ winners = n + 1 /\ winners \in Nat \ {0} BY <1>6, <1>7
<1> HIDE DEF ledger, n
<1>9. root'.phase = "completed" /\ root'.selected_count = winners
  BY <1>1, <1>4 DEF Sound, FinalizationLedger
<1>10. pool \in Nat /\ pool <= lottery.total_funds BY PoolWithinFunds, ReceivedType
<1> HIDE DEF winners, pool
<1>11. /\ payout \div winners = pool \div winners
       /\ pool \div winners \in Nat \ {0} /\ payout \in 0..pool
  BY <1>1, <1>8, <1>10, FairShares
<1>12. UNCHANGED <<vault, received>> /\ lottery.winners_count = 0
       /\ \A w \in Wallet :
            /\ participant'[w].refund_claimed <=> participant[w].refund_claimed
            /\ participant'[w].tickets_bought = participant[w].tickets_bought
            /\ participant'[w].status = participant[w].status
  BY <1>1, ScannedAccounts
<1>13. bitmap = {} BY <1>12, NoWinnersYet
<1> HIDE DEF payout, bitmap, start
<1>14. /\ lottery'.total_funds = lottery.total_funds
       /\ lottery'.winners_count = winners
       /\ lottery'.total_payout = payout
       /\ lottery'.paid_winners_bitmap = {}
       /\ lottery'.settlement_complete = lottery.settlement_complete
       /\ lottery'.settled = lottery.settled
  BY <1>1, <1>2, <1>13 DEF TypeOK, LotteryAccount
<1>15. ~lottery.settled /\ ~lottery.settlement_complete BY <1>1 DEF MayFinalize, FinalizationOpen
<1>16. RefundTaken = {} BY <1>15, NoRefundYet DEF Book, Safe, RefundTaken
<1>17. vault # 0 BY <1>12, <1>15 DEF Money, RefundBook
<1>18. vault = VaultRent + lottery.total_funds
  <2>1. vault = VaultRent + lottery.total_funds - TicketPrice * SumOver(Held, RefundTaken)
    BY <1>12, <1>17, RefundVault
  <2>2. SumOver(Held, RefundTaken) = 0 BY <1>16, SumEmpty
  <2>3. TicketPrice * 0 = 0 BY RoundAssumption
  <2> QED BY <2>1, <2>2, <2>3, ReceivedType
<1>19. Balanced' BY <1>12, <1>14 DEF Money, Balanced
<1>20. Purses'
  <2>1. \A w \in Wallet : PaidShare(w) = 0 /\ PaidShare(w)' = 0
    BY <1>12, <1>14, NoWinnersYet DEF PaidShare
  <2>2. \A w \in Wallet : Refunded(w)' = Refunded(w) BY <1>12 DEF Refunded
  <2> QED BY <1>12, <1>14, <1>15, <2>1, <2>2 DEF Money, Purses
<1>21. PaidPages'
  <2>1. \A i \in 0..MaxWinnersCap - 1 : PageOf(i) \in PageIndex BY <1>2, PagesInRange
  <2>2. MaxWinnersCap \in Nat BY RoundAssumption
  <2>3. \A i \in 0..root'.selected_count - 1 : i \in 0..MaxWinnersCap - 1
    BY <1>7, <1>8, <1>9, <2>2 DEF n
  <2>4. \A p \in PageIndex : pages'[p].paid = {} BY <1>7, <1>12, NoWinnersYet
  <2> QED BY <1>9, <1>14, <2>1, <2>3, <2>4 DEF PaidPages, PaidOnPage
<1>22. RefundBook'
  <2>1. RefundTaken' = {} /\ winners # 0 BY <1>8, <1>12, <1>16 DEF RefundTaken
  <2> QED BY <1>14, <2>1 DEF RefundBook
<1>23. ShareBook'
  <2>1. Share' = pool \div winners BY <1>11, <1>14 DEF Share
  <2>2. payout = Share' * winners BY <2>1 DEF payout
  <2>3. payout <= lottery.total_funds BY <1>10, <1>11, ReceivedType
  <2>4. ~AllWinnersPaid(lottery.paid_winners_bitmap)'
    <3>1. 0 \in 0..winners - 1 BY <1>8
    <3> QED BY <1>14, <3>1 DEF AllWinnersPaid
  <2>5. Cardinality({}) = 0 BY FS_EmptySet
  <2>6. Share' * 0 = 0 BY <1>11, <2>1
  <2> QED BY <1>11, <1>12, <1>14, <1>15, <1>18, <2>1, <2>2, <2>3, <2>4, <2>5, <2>6,
             ReceivedType DEF ShareBook
<1> QED BY <1>19, <1>20, <1>21, <1>22, <1>23 DEF Money

(* The wallets that a set of entries of the book pays.                     *)
(***************************************************************************)
(* Payout batches.                                                         *)
(***************************************************************************)
WalletsOf(S) == { EntryAt(i).wallet : i \in S }

(* What a batch adds to each purse: one share to each of its wallets.      *)
Payment(S) == [r \in Recipient |-> IF r \in WalletsOf(S) THEN Share ELSE 0]

(* What a batch sends to a recipient is one share or nothing, because no   *)
(* wallet is booked twice.                                                 *)
LEMMA PaymentFibre ==
  ASSUME Book, Money, lottery.winners_count # 0,
         NEW S \in SUBSET (0..lottery.winners_count - 1), NEW r \in Recipient
  PROVE  Share * Cardinality({ i \in S : WinnerAt(i) = r }) = Payment(S)[r]
<1> DEFINE F == { i \in S : WinnerAt(i) = r }
<1>1. F = { i \in S : EntryAt(i).wallet = r } BY DEF WinnerAt, EntryAt
<1>2. Share \in Nat BY ReceivedType DEF Money, ShareBook
<1>3. CASE r \in WalletsOf(S)
  <2>1. PICK i \in S : EntryAt(i).wallet = r BY <1>3 DEF WalletsOf
  <2>2. F = {i} BY <1>1, <2>1, WinnersMeanCompleted
  <2> HIDE DEF F
  <2>3. Cardinality(F) = 1 BY <2>2, FS_Singleton
  <2>4. Share * 1 = Share BY <1>2
  <2>5. Payment(S)[r] = Share BY <1>3 DEF Payment
  <2>6. Share * Cardinality(F) = Share BY <2>3, <2>4
  <2> QED BY <2>5, <2>6 DEF F
<1>4. CASE r \notin WalletsOf(S)
  <2>1. F = {} BY <1>1, <1>4 DEF WalletsOf
  <2> HIDE DEF F
  <2>2. Cardinality(F) = 0 BY <2>1, FS_EmptySet
  <2>3. Share * 0 = 0 BY <1>2
  <2>4. Payment(S)[r] = 0 BY <1>4 DEF Payment
  <2>5. Share * Cardinality(F) = 0 BY <2>2, <2>3
  <2> QED BY <2>4, <2>5 DEF F
<1> QED BY <1>3, <1>4

(* All of it together is as many shares as entries.                        *)
LEMMA PaymentSum ==
  ASSUME Book, Money, lottery.winners_count # 0,
         NEW S \in SUBSET (0..lottery.winners_count - 1)
  PROVE  /\ IsFiniteSet(S) /\ Cardinality(S) \in Nat
         /\ Payment(S)[Authority] = 0
         /\ \A r \in Recipient : Payment(S)[r] \in Nat
         /\ SumOver(Payment(S), Recipient) = Share * Cardinality(S)
         /\ WalletsOf(S) \in SUBSET Wallet /\ Cardinality(WalletsOf(S)) = Cardinality(S)
<1> DEFINE f == [i \in S |-> EntryAt(i).wallet]
           W == WalletsOf(S)
           g == Payment(S)
<1>1. lottery.winners_count \in Nat BY ReceivedType
<1>2. IsFiniteSet(S) /\ Cardinality(S) \in Nat
  <2>1. IsFiniteSet(0..lottery.winners_count - 1) BY <1>1, FS_Interval
  <2> QED BY <2>1, FS_Subset, FS_CardinalityType
<1>3. W \in SUBSET Wallet BY WinnersMeanCompleted DEF WalletsOf
<1>4. IsFiniteSet(W) /\ Cardinality(W) = Cardinality(S)
  <2>1. \A i, j \in S : f[i] = f[j] => i = j BY WinnersMeanCompleted
  <2>2. W = { f[i] : i \in S } BY DEF WalletsOf
  <2> HIDE DEF f, W
  <2>3. /\ IsFiniteSet({ f[i] : i \in S })
        /\ Cardinality({ f[i] : i \in S }) = Cardinality(S)
    BY <1>2, <2>1, ImageSize
  <2> QED BY <2>2, <2>3
<1>5. Share \in Nat BY ReceivedType DEF Money, ShareBook
<1>6. /\ \A r \in Recipient : g[r] \in Nat
      /\ \A r \in W : g[r] = Share
      /\ \A r \in Recipient \ W : g[r] = 0
  BY <1>3, <1>5, RecipientsFinite DEF Payment
<1>7. g[Authority] = 0 BY <1>3, RecipientsFinite, RoundAssumption DEF Payment
<1>8. W \in SUBSET Recipient BY <1>3, RecipientsFinite
<1> HIDE DEF g, W
<1>9. SumOver(g, W) = Share * Cardinality(W) BY <1>4, <1>5, <1>6, SumConst
<1>10. SumOver(g, Recipient \ W) = 0
  <2>1. IsFiniteSet(Recipient \ W)
    <3>1. Recipient \ W \in SUBSET Recipient OBVIOUS
    <3> QED BY <3>1, RecipientsFinite, FS_Subset
  <2>2. SumOver(g, Recipient \ W) = 0 * Cardinality(Recipient \ W)
    BY <1>6, <2>1, SumConst
  <2>3. Cardinality(Recipient \ W) \in Nat BY <2>1, FS_CardinalityType
  <2> QED BY <2>2, <2>3
<1>11. SumOver(g, Recipient) = SumOver(g, W) + SumOver(g, Recipient \ W)
  BY <1>6, <1>8, RecipientsFinite, SumParts
<1>12. SumOver(g, Recipient) = Share * Cardinality(S)
  <2>1. Share * Cardinality(S) \in Nat BY <1>2, <1>5
  <2>2. SumOver(g, W) = Share * Cardinality(S) BY <1>4, <1>9
  <2> QED BY <1>10, <1>11, <2>1, <2>2
<1> QED BY <1>2, <1>3, <1>4, <1>6, <1>7, <1>12 DEF g, W

(* Paying S off leaves at least the rent.                                  *)
LEMMA VaultCovers ==
  ASSUME Book, Money, lottery.winners_count # 0, ~lottery.settlement_complete,
         NEW S \in SUBSET (0..lottery.winners_count - 1),
         S \cap lottery.paid_winners_bitmap = {}
  PROVE  LET paid == lottery.paid_winners_bitmap \cup S
             left == vault - Share * Cardinality(S)
         IN  /\ paid \in SUBSET (0..lottery.winners_count - 1)
             /\ left \in Nat /\ left >= VaultRent
             /\ left + Share * Cardinality(paid) = VaultRent + lottery.total_funds
             /\ AllWinnersPaid(paid) =>
                  left = VaultRent + lottery.total_funds - lottery.total_payout
<1> DEFINE bitmap == lottery.paid_winners_bitmap
           n      == lottery.winners_count
           paid   == bitmap \cup S
<1>1. /\ n \in Nat \ {0} /\ Share \in Nat /\ lottery.total_payout = Share * n
      /\ lottery.total_payout <= lottery.total_funds
      /\ vault + Share * Cardinality(bitmap) = VaultRent + lottery.total_funds
      /\ bitmap \in SUBSET (0..n - 1)
  BY ReceivedType DEF Money, ShareBook, PaidPages
<1>2. paid \in SUBSET (0..n - 1) BY <1>1
<1>3. /\ IsFiniteSet(0..n - 1) /\ Cardinality(0..n - 1) = n
  <2> HIDE DEF n
  <2> QED BY SMTT(30), <1>1, FS_Interval
<1>4. /\ IsFiniteSet(bitmap) /\ IsFiniteSet(S) /\ IsFiniteSet(paid)
      /\ Cardinality(bitmap) \in Nat /\ Cardinality(S) \in Nat
      /\ Cardinality(paid) \in Nat /\ Cardinality(paid) <= n
  BY <1>1, <1>2, <1>3, FS_Subset, FS_CardinalityType
<1>5. Cardinality(paid) = Cardinality(bitmap) + Cardinality(S)
  <2>1. Cardinality(bitmap \cap S) = 0
    <3>1. bitmap \cap S = {} OBVIOUS
    <3> QED BY <3>1, FS_EmptySet
  <2>2. Cardinality(paid)
          = Cardinality(bitmap) + Cardinality(S) - Cardinality(bitmap \cap S)
    BY <1>4, FS_Union
  <2> HIDE DEF paid, bitmap
  <2> QED BY <1>4, <2>1, <2>2
<1>6. AllWinnersPaid(paid) => paid = 0..n - 1 BY <1>2 DEF AllWinnersPaid
<1>7. AllWinnersPaid(paid) => Cardinality(paid) = n BY <1>3, <1>6
<1> HIDE DEF paid, bitmap, n
<1>8. Share * Cardinality(paid) = Share * Cardinality(bitmap) + Share * Cardinality(S)
  BY <1>1, <1>4, <1>5, Distribute
<1>9. Share * Cardinality(paid) <= Share * n BY <1>1, <1>4
<1>10. /\ Share * Cardinality(S) \in Nat /\ Share * Cardinality(bitmap) \in Nat
       /\ Share * Cardinality(paid) \in Nat /\ Share * n \in Nat
  BY <1>1, <1>4
<1> DEFINE a == Share * Cardinality(S)
           b == Share * Cardinality(bitmap)
           c == Share * Cardinality(paid)
           d == Share * n
<1>11. /\ a \in Nat /\ b \in Nat /\ c \in Nat /\ d \in Nat /\ c = b + a /\ c <= d
       /\ lottery.total_payout = d /\ d <= lottery.total_funds
       /\ vault + b = VaultRent + lottery.total_funds
  BY <1>1, <1>8, <1>9, <1>10
<1>12. AllWinnersPaid(paid) => c = d BY <1>7
<1> HIDE DEF a, b, c, d
<1>13. /\ vault - a \in Nat /\ vault - a >= VaultRent
       /\ (vault - a) + c = VaultRent + lottery.total_funds
       /\ AllWinnersPaid(paid) =>
            vault - a = VaultRent + lottery.total_funds - lottery.total_payout
  BY <1>11, <1>12, ReceivedType
<1> QED BY <1>2, <1>13 DEF a, c, paid, bitmap, n

(* A payout batch, in the terms of the lemmas above.                       *)
LEMMA BatchStep ==
  ASSUME Book, Money, NEW batch \in SUBSET (0..lottery.winners_count - 1),
         SettlePayoutBatch(batch)
  PROVE  \E due \in SUBSET batch : \E page, batches :
           LET bitmap == lottery.paid_winners_bitmap \cup due
               left   == vault - Share * Cardinality(due)
               last   == AllWinnersPaid(bitmap)
               paid   == [r \in Recipient |-> received[r] + Payment(due)[r]]
           IN  /\ due = batch \ lottery.paid_winners_bitmap
               /\ \A i \in batch : PageOf(i) = page
               /\ lottery.winners_count # 0 /\ ~lottery.settlement_complete
               /\ pages' = [pages EXCEPT
                    ![page].paid = pages[page].paid \cup { OffsetOf(i) : i \in due }]
               /\ vault' = IF last THEN 0 ELSE left
               /\ received' = IF last THEN [paid EXCEPT ![Authority] = paid[Authority] + left]
                                      ELSE paid
               /\ lottery' = [lottery EXCEPT
                    !.paid_winners_bitmap          = bitmap,
                    !.settlement_batches_completed = batches,
                    !.settlement_complete          = last,
                    !.settled                      = lottery.settled \/ last]
               /\ UNCHANGED <<now, participant, tally, root>>
<1> DEFINE page    == PageOf(CHOOSE i \in batch : TRUE)
           due     == { i \in batch : i \notin lottery.paid_winners_bitmap }
           bitmap  == lottery.paid_winners_bitmap \cup due
           left    == vault - Share * Cardinality(due)
           last    == AllWinnersPaid(bitmap)
           sent    == [ r \in Recipient |->
                          received[r] + Share * Cardinality({ i \in due : WinnerAt(i) = r }) ]
           paid    == [r \in Recipient |-> received[r] + Payment(due)[r]]
           batches == AtMost(lottery.settlement_batches_completed + 1, U32_MAX)
<1>1. /\ lottery.winners_count # 0 /\ ~lottery.settlement_complete
      /\ \A i \in batch : PageOf(i) = page
      /\ pages' = [pages EXCEPT
           ![page].paid = pages[page].paid \cup { OffsetOf(i) : i \in due }]
      /\ vault' = IF last THEN 0 ELSE left
      /\ received' = IF last THEN [sent EXCEPT ![Authority] = sent[Authority] + left]
                             ELSE sent
      /\ lottery' = [lottery EXCEPT
           !.paid_winners_bitmap          = bitmap,
           !.settlement_batches_completed = batches,
           !.settlement_complete          = last,
           !.settled                      = lottery.settled \/ last]
      /\ UNCHANGED <<now, participant, tally, root>>
  BY DEF SettlePayoutBatch, Share
<1>2. sent = paid
  <2>1. due \in SUBSET (0..lottery.winners_count - 1) OBVIOUS
  <2> HIDE DEF due
  <2>2. \A r \in Recipient :
          Share * Cardinality({ i \in due : WinnerAt(i) = r }) = Payment(due)[r]
    BY <1>1, <2>1, PaymentFibre
  <2> QED BY <2>2
<1>3. due = batch \ lottery.paid_winners_bitmap /\ due \in SUBSET batch OBVIOUS
<1> HIDE DEF page, due, sent, batches
<1> WITNESS due \in SUBSET batch
<1> WITNESS page, batches
<1> QED BY <1>1, <1>2, <1>3

(* A payout batch keeps the money: each wallet paid gets its share for the *)
(* first time, bitmap and pages agree, and the last batch leaves the       *)
(* authority what remains.                                                 *)
LEMMA MoneySettlePayoutBatch ==
  ASSUME Book, Money, NEW batch \in SUBSET (0..lottery.winners_count - 1),
         SettlePayoutBatch(batch)
  PROVE  Money'
<1> DEFINE n         == lottery.winners_count
           Bitmap(S) == lottery.paid_winners_bitmap \cup S
           Left(S)   == vault - Share * Cardinality(S)
           Paid(S)   == [r \in Recipient |-> received[r] + Payment(S)[r]]
<1>1. PICK due, page, batches :
        /\ due = batch \ lottery.paid_winners_bitmap
        /\ \A i \in batch : PageOf(i) = page
        /\ lottery.winners_count # 0 /\ ~lottery.settlement_complete
        /\ pages' = [pages EXCEPT
             ![page].paid = pages[page].paid \cup { OffsetOf(i) : i \in due }]
        /\ vault' = IF AllWinnersPaid(Bitmap(due)) THEN 0 ELSE Left(due)
        /\ received' = IF AllWinnersPaid(Bitmap(due))
                       THEN [Paid(due) EXCEPT ![Authority] = Paid(due)[Authority] + Left(due)]
                       ELSE Paid(due)
        /\ lottery' = [lottery EXCEPT
             !.paid_winners_bitmap          = Bitmap(due),
             !.settlement_batches_completed = batches,
             !.settlement_complete          = AllWinnersPaid(Bitmap(due)),
             !.settled                      = lottery.settled \/ AllWinnersPaid(Bitmap(due))]
        /\ UNCHANGED <<now, participant, tally, root>>
  BY BatchStep
<1> DEFINE bitmap == Bitmap(due)
           left   == Left(due)
           paid   == Paid(due)
           g      == Payment(due)
           last   == AllWinnersPaid(bitmap)
<1>2. TypeOK BY BookTypes
<1>3. due \in SUBSET (0..n - 1) /\ due \cap lottery.paid_winners_bitmap = {} BY <1>1
<1>4. /\ bitmap \in SUBSET (0..n - 1)
      /\ left \in Nat /\ left >= VaultRent
      /\ left + Share * Cardinality(bitmap) = VaultRent + lottery.total_funds
      /\ last => left = VaultRent + lottery.total_funds - lottery.total_payout
  BY <1>1, <1>3, VaultCovers
<1>5. /\ g[Authority] = 0 /\ \A r \in Recipient : g[r] \in Nat
      /\ SumOver(g, Recipient) = Share * Cardinality(due)
      /\ Share * Cardinality(due) \in Nat
  <2>1. Cardinality(due) \in Nat /\ Share \in Nat
    BY <1>1, <1>3, PaymentSum, ReceivedType DEF Money, ShareBook
  <2> QED BY <1>1, <1>3, <2>1, PaymentSum
<1>6. \A r \in Recipient : paid[r] = received[r] + g[r] /\ paid[r] \in Nat
  BY <1>5, ReceivedType
<1>7. left = vault - Share * Cardinality(due) OBVIOUS
<1>8. /\ lottery'.winners_count = n
      /\ lottery'.total_payout = lottery.total_payout
      /\ lottery'.total_funds = lottery.total_funds
      /\ lottery'.paid_winners_bitmap = bitmap
      /\ lottery'.settlement_complete = last
  BY <1>1, <1>2 DEF TypeOK, LotteryAccount
<1>9. /\ vault' = IF last THEN 0 ELSE left
      /\ received' = IF last THEN [paid EXCEPT ![Authority] = paid[Authority] + left]
                             ELSE paid
  BY <1>1
<1>10. paid \in [Recipient -> Nat] BY <1>6
<1> HIDE DEF left, paid, g
<1>11. /\ \A w \in Wallet : received'[w] = paid[w]
       /\ received'[Authority] = IF last THEN paid[Authority] + left ELSE paid[Authority]
       /\ \A r \in Recipient : received'[r] \in Nat
  <2>1. Authority \notin Wallet /\ Authority \in Recipient /\ Wallet \subseteq Recipient
    BY RecipientsFinite, RoundAssumption
  <2>2. CASE last
    <3>1. received' = [paid EXCEPT ![Authority] = paid[Authority] + left] BY <1>9, <2>2
    <3>2. paid[Authority] + left \in Nat BY <1>4, <1>10, <2>1
    <3> QED BY <1>10, <2>1, <2>2, <3>1, <3>2
  <2>3. CASE ~last BY <1>9, <1>10, <2>1, <2>3
  <2> QED BY <2>2, <2>3
<1>12. received[Authority] = 0
  <2>1. vault # 0 BY <1>4, <1>5, <1>7, ReceivedType
  <2> QED BY <1>1, <2>1 DEF Money, Purses
<1>13. paid[Authority] = 0 BY <1>5, <1>6, <1>12, RecipientsFinite
<1>14. Balanced'
  <2>1. SumOver(paid, Recipient) = SumOver(received, Recipient) + SumOver(g, Recipient)
    BY <1>5, <1>6, ReceivedType, RecipientsFinite, SumPlus
  <2>2. SumOver(paid, Recipient) \in Nat BY <1>6, RecipientsFinite, SumNat
  <2>3. CASE last
    <3>1. \A r \in Recipient \ {Authority} : received'[r] = paid[r]
      BY <1>11, RecipientsFinite
    <3>2. SumOver(received', Recipient) + paid[Authority]
            = SumOver(paid, Recipient) + received'[Authority]
      BY <1>6, <1>11, <3>1, RecipientsFinite, SumUpdate
    <3>3. SumOver(received', Recipient) \in Nat BY <1>11, RecipientsFinite, SumNat
    <3>4. SumOver(received', Recipient) = SumOver(paid, Recipient) + left
      BY <1>4, <1>11, <1>13, <2>2, <2>3, <3>2, <3>3
    <3> QED BY <1>4, <1>5, <1>7, <1>8, <1>9, <2>1, <2>3, <3>4, ReceivedType
            DEF Money, Balanced
  <2>4. CASE ~last
    <3>1. SumOver(received', Recipient) = SumOver(paid, Recipient) BY <1>9, <2>4
    <3> QED BY <1>4, <1>5, <1>7, <1>8, <1>9, <2>1, <2>4, <3>1, ReceivedType
            DEF Money, Balanced
  <2> QED BY <2>3, <2>4
<1>15. \A i \in 0..n - 1 : PageOf(i) \in PageIndex /\ EntryAt(i)' = EntryAt(i)
  <2>1. \A p \in PageIndex : pages'[p].entries = pages[p].entries
    BY <1>1, <1>2 DEF TypeOK, WinnerPage
  <2>2. \A i \in 0..n - 1 : PageOf(i) \in PageIndex BY <1>1, WinnersMeanCompleted
  <2> QED BY <2>1, <2>2 DEF EntryAt
<1>16. Share' = Share BY <1>8 DEF Share
<1>17. \A w \in Wallet : PaidShare(w)' = PaidShare(w) + g[w]
  <2> SUFFICES ASSUME NEW w \in Wallet PROVE PaidShare(w)' = PaidShare(w) + g[w]
    OBVIOUS
  <2>1. /\ PaidShare(w) = IF \E i \in lottery.paid_winners_bitmap : EntryAt(i).wallet = w
                          THEN Share ELSE 0
        /\ PaidShare(w)' = IF \E i \in bitmap : EntryAt(i).wallet = w THEN Share ELSE 0
    <3>1. (\E i \in bitmap : EntryAt(i)'.wallet = w) <=> \E i \in bitmap : EntryAt(i).wallet = w
      BY <1>4, <1>15
    <3> QED BY <1>8, <1>16, <3>1 DEF PaidShare, Share
  <2>2. g[w] = IF \E i \in due : EntryAt(i).wallet = w THEN Share ELSE 0
    BY RecipientsFinite DEF g, Payment, WalletsOf
  <2>3. ~( /\ \E i \in due : EntryAt(i).wallet = w
           /\ \E i \in lottery.paid_winners_bitmap : EntryAt(i).wallet = w )
    BY <1>1, <1>3, WinnersMeanCompleted DEF Money, PaidPages
  <2>4. Share \in Nat BY <1>1, ReceivedType DEF Money, ShareBook
  <2>5. (\E i \in bitmap : EntryAt(i).wallet = w)
          <=> \/ \E i \in due : EntryAt(i).wallet = w
              \/ \E i \in lottery.paid_winners_bitmap : EntryAt(i).wallet = w
    OBVIOUS
  <2> QED BY <2>1, <2>2, <2>3, <2>4, <2>5
<1>18. Purses'
  <2>1. \A w \in Wallet : Refunded(w)' = Refunded(w) BY <1>1 DEF Refunded
  <2>2. \A w \in Wallet : received'[w] = PaidShare(w)' + Refunded(w)'
    <3> SUFFICES ASSUME NEW w \in Wallet PROVE received'[w] = PaidShare(w)' + Refunded(w)'
      OBVIOUS
    <3>1. received'[w] = received[w] + g[w] BY <1>6, <1>11, RecipientsFinite
    <3>2. received[w] = PaidShare(w) + Refunded(w) BY DEF Money, Purses
    <3>3. g[w] \in Nat BY <1>5, RecipientsFinite
    <3>4. PaidShare(w) \in Nat /\ Refunded(w) \in Nat
      <4>1. Share \in Nat BY <1>1, ReceivedType DEF Money, ShareBook
      <4>2. PaidShare(w) \in Nat BY <4>1 DEF PaidShare, Share
      <4>3. TicketPrice \in Nat /\ participant[w].tickets_bought \in Nat
        BY <1>2, RoundAssumption DEF TypeOK, ParticipantAccount, U64
      <4>4. Refunded(w) \in Nat BY <4>3 DEF Refunded
      <4> QED BY <4>2, <4>4
    <3> QED BY <1>17, <2>1, <3>1, <3>2, <3>3, <3>4
  <2>3. CASE last
    BY <1>4, <1>8, <1>11, <1>13, <2>2, <2>3 DEF Purses
  <2>4. CASE ~last
    <3>1. vault' # 0 BY <1>4, <1>9, <2>4, ReceivedType
    <3> QED BY <1>8, <1>11, <1>13, <2>2, <2>4, <3>1 DEF Purses
  <2> QED BY <2>3, <2>4
<1>19. PaidPages'
  <2>1. /\ root.selected_count = n /\ root' = root /\ root.phase = "completed"
        /\ n \in 1..MaxWinnersCap
    BY <1>1, WinnersMeanCompleted
  <2>2. ASSUME NEW i \in 0..n - 1 PROVE PaidOnPage(i)' <=> i \in bitmap
    <3>1. PaidOnPage(i) <=> i \in lottery.paid_winners_bitmap
      BY <2>1 DEF Money, PaidPages
    <3>2. CASE PageOf(i) # page
      <4>1. pages'[PageOf(i)] = pages[PageOf(i)] BY <1>1, <1>2, <1>15, <3>2 DEF TypeOK
      <4>2. i \notin due BY <1>1, <3>2
      <4> QED BY <3>1, <4>1, <4>2 DEF PaidOnPage
    <3>3. CASE PageOf(i) = page
      <4>1. page \in PageIndex BY <1>15, <3>3
      <4>2. pages'[page].paid = pages[page].paid \cup { OffsetOf(j) : j \in due }
        BY <1>1, <1>2, <4>1 DEF TypeOK, WinnerPage
      <4>3. \A j \in due : OffsetOf(j) = OffsetOf(i) => j = i
        <5>1. TypeOK /\ Aggregation /\ Booked BY <1>2 DEF Book, Books, Draws
        <5>2. \A j \in 0..n - 1 : j \in 0..MaxWinnersCap - 1
          BY <2>1, RoundAssumption DEF MAX_WINNERS
        <5>3. \A j \in 0..n - 1 : j = PageOf(j) * WINNERS_PER_PAGE + OffsetOf(j)
          BY <5>1, <5>2, PagesInRange
        <5>4. \A j \in due : PageOf(j) = PageOf(i) BY <1>1, <3>3
        <5> QED BY <1>3, <5>3, <5>4
      <4>4. OffsetOf(i) \in { OffsetOf(j) : j \in due } <=> i \in due BY <4>3
      <4> QED BY <3>1, <3>3, <4>2, <4>4 DEF PaidOnPage
    <3> QED BY <3>2, <3>3
  <2> QED BY <1>4, <1>8, <2>1, <2>2 DEF PaidPages
<1>20. RefundBook'
  <2>1. RefundTaken' = RefundTaken /\ Buyers' = Buyers BY <1>1 DEF RefundTaken, Buyers
  <2> QED BY <1>1, <1>8, <2>1 DEF Money, RefundBook
<1>21. ShareBook'
  <2>1. AllWinnersPaid(bitmap)' <=> last BY <1>8 DEF AllWinnersPaid
  <2>2. (lottery.winners_count > 0)
    BY <1>1, ReceivedType
  <2>3. ~last => vault' + Share * Cardinality(bitmap) = VaultRent + lottery.total_funds
    BY <1>4, <1>9
  <2>4. AllWinnersPaid(lottery.paid_winners_bitmap)' <=> last BY <1>8 DEF AllWinnersPaid
  <2> HIDE DEF bitmap, last
  <2> QED BY <1>8, <1>16, <2>2, <2>3, <2>4 DEF Money, ShareBook
<1> QED BY <1>14, <1>18, <1>19, <1>20, <1>21 DEF Money

(***************************************************************************)
(* The invariant, and what it gives.                                       *)
(***************************************************************************)
(* A new round has its rent and owes nothing.                              *)
LEMMA InitMoney == ASSUME Init PROVE Money
<1>1. /\ lottery = NewLottery /\ root = NewLedger("absent", 0)
      /\ pages = [p \in PageIndex |-> NoPage]
      /\ \A w \in Wallet : participant[w] = NewParticipant("none", 0)
      /\ vault = VaultRent /\ received = [r \in Recipient |-> 0]
  BY DEF Init
<1>2. /\ lottery.total_funds = 0 /\ lottery.winners_count = 0 /\ lottery.total_payout = 0
      /\ lottery.paid_winners_bitmap = {} /\ lottery.settlement_batches_completed = 0
      /\ lottery.settlement_complete = FALSE
  BY <1>1 DEF NewLottery
<1>3. RefundTaken = {} /\ \A w \in Wallet : Refunded(w) = 0
  BY <1>1 DEF RefundTaken, Refunded, NewParticipant
<1>4. VaultRent \in Nat \ {0} BY RoundAssumption
<1>5. Balanced
  <2>1. \A r \in Recipient : received[r] = 0 BY <1>1
  <2>2. SumOver(received, Recipient) = 0 * Cardinality(Recipient)
    BY <2>1, RecipientsFinite, SumConst
  <2>3. Cardinality(Recipient) \in Nat BY RecipientsFinite, FS_CardinalityType
  <2> QED BY <1>1, <1>2, <1>4, <2>2, <2>3 DEF Balanced
<1>6. Purses
  <2>1. \A w \in Wallet : PaidShare(w) = 0 BY <1>2 DEF PaidShare
  <2> QED BY <1>1, <1>2, <1>3, <1>4, <2>1, RecipientsFinite DEF Purses
<1>7. PaidPages BY <1>1, <1>2 DEF PaidPages, NewLedger, NoPage
<1>8. RefundBook
  <2>1. Cardinality(RefundTaken) = 0 BY <1>3, FS_EmptySet
  <2> QED BY <1>1, <1>2, <1>3, <1>4, <2>1 DEF RefundBook
<1>9. ShareBook BY <1>2 DEF ShareBook
<1> QED BY <1>5, <1>6, <1>7, <1>8, <1>9 DEF Money

(* The invariant is inductive, next to the books.                          *)
LEMMA MoneyNext == ASSUME Book, Money, [Next]_vars PROVE Money'
<1>1. Book' BY BookNext
<1>2. SameMoney => Money' BY <1>1, MoneyKept
<1> USE DEF Idle
<1>3. CASE Tick BY <1>2, <1>3, MoneyTick
<1>4. ASSUME NEW w \in Wallet, Buy(w) PROVE Money'
  BY <1>4, MoneyBuyTickets, InputAssumption DEF Buy
<1>5. CASE Begin BY <1>2, <1>5, MoneyBeginReveal, InputAssumption DEF Begin
<1>6. ASSUME NEW w \in Wallet, Attest(w) PROVE Money'
  <2>1. 1..MaxWinnersCap \subseteq Nat BY RoundAssumption
  <2> QED BY <1>2, <1>6, <2>1, MoneyAttestUploaded, MoneyAttestReveal DEF Attest
<1>7. CASE Upload BY <1>2, <1>7, MoneyUploadReveals DEF Upload
<1>8. CASE FinalizeWinners
  <2>1. Sizes \subseteq Nat BY DEF Sizes
  <2> QED BY <1>2, <1>8, <2>1, MoneyStartRemediation, MoneyAggregateChunk,
             MoneyCloseAggregation, MoneyScanChunk, MoneyCloseRound, MoneyCompleteFinalization
          DEF FinalizeWinners
<1>9. CASE Settle BY <1>9, MoneySettlePayoutBatch DEF Settle
<1>10. CASE FinalizeNoAttesters BY <1>2, <1>10, MoneyFinalizeNoAttesters
<1>11. ASSUME NEW w \in Wallet, ClaimRefund(w) PROVE Money'
  BY <1>11, MoneyClaimRefund
<1>12. CASE CloseRefundVault BY <1>12, MoneyCloseRefundVault
<1>13. ASSUME NEW w \in Wallet, CloseParticipant(w) PROVE Money'
  BY <1>2, <1>13, MoneyCloseParticipant
<1>14. CASE UNCHANGED vars
  <2>1. SameMoney BY <1>14 DEF vars, SameMoney
  <2> QED BY <1>2, <2>1
<1> QED
  BY <1>3, <1>4, <1>5, <1>6, <1>7, <1>8, <1>9, <1>10, <1>11, <1>12, <1>13, <1>14 DEF Next

(* Books and money are right in every state of a round.                    *)
LEMMA MoneyInvariant == Spec => [](Book /\ Money)
<1>1. Init => Book /\ Money BY InitBook, InitMoney
<1>2. Book /\ Money /\ [Next]_vars => (Book /\ Money)' BY BookNext, MoneyNext
<1> QED BY <1>1, <1>2, PTL DEF Spec

(* The invariant gives the trail of every lamport.                         *)
LEMMA MoneyGivesTrail == ASSUME Book, Money PROVE MoneyTrail
<1>1. vault + Lamports = VaultRent + lottery.total_funds
  BY LamportsSum DEF Money, Balanced
<1> QED BY <1>1 DEF Money, Purses, PaidPages, MoneyTrail

(* The invariant gives the refunds.                                        *)
LEMMA MoneyGivesRefunds == ASSUME Book, Money PROVE RefundsWhole
<1> SUFFICES ASSUME RefundPath, vault = 0, NEW w \in Buyers
             PROVE  received[w] = TicketPrice * participant[w].tickets_bought
  BY DEF RefundsWhole
<1>1. lottery.winners_count = 0 BY DEF RefundPath
<1>2. w \in Wallet /\ w \in RefundTaken
  BY <1>1, BuyersAreWallets DEF Money, RefundBook
<1>3. received[w] = Refunded(w)
  <2>1. PaidShare(w) = 0 BY <1>1, <1>2, NoWinnersYet
  <2>2. Refunded(w) \in Nat
    <3>1. TicketPrice \in Nat /\ participant[w].tickets_bought \in Nat
      BY <1>2, BookTypes, RoundAssumption DEF TypeOK, ParticipantAccount, U64
    <3> QED BY <3>1 DEF Refunded
  <2> QED BY <1>2, <2>1, <2>2 DEF Money, Purses
<1> QED BY <1>2, <1>3 DEF Refunded, RefundTaken

(* The invariant gives the shares.                                         *)
LEMMA MoneyGivesShares == ASSUME Book, Money PROVE NoEmptyShare
<1> SUFFICES ASSUME NEW i \in lottery.paid_winners_bitmap
             PROVE  received[EntryAt(i).wallet] > 0
  BY DEF NoEmptyShare
<1>1. lottery.paid_winners_bitmap # {} OBVIOUS
<1>2. lottery.winners_count # 0 BY <1>1, NoWinnersYet
<1> DEFINE w == EntryAt(i).wallet
<1>3. w \in Wallet BY <1>2, WinnersMeanCompleted DEF Money, PaidPages
<1>4. Share \in Nat \ {0} BY <1>2, ReceivedType DEF Money, ShareBook
<1>5. PaidShare(w) = Share BY DEF PaidShare, Share
<1>6. Refunded(w) \in Nat
  <2>1. TicketPrice \in Nat /\ participant[w].tickets_bought \in Nat
    BY <1>3, BookTypes, RoundAssumption DEF TypeOK, ParticipantAccount, U64
  <2> QED BY <2>1 DEF Refunded
<1>7. received[w] = Share + Refunded(w) BY <1>3, <1>5 DEF Money, Purses
<1> QED BY <1>4, <1>6, <1>7

(* In every round, for any wallets, price, fee and cap, and for any cut of *)
(* the payouts into batches: vault and payments add up to the rent and the *)
(* funds; every wallet has exactly its share or its refund; the authority  *)
(* gets nothing before the last winner is paid, and then what remains; the *)
(* two paid bitmaps agree (settle_payout_batch.rs, claim_refund.rs,        *)
(* close_refund_vault.rs).                                                 *)
THEOREM EveryLamport == Spec => []MoneyTrail
<1>1. Book /\ Money => MoneyTrail BY MoneyGivesTrail
<1> QED BY <1>1, MoneyInvariant, PTL

(* The vault of a refunded round is never emptied before each participant  *)
(* has the price of its tickets back.                                      *)
THEOREM RefundsComplete == Spec => []RefundsWhole
<1>1. Book /\ Money => RefundsWhole BY MoneyGivesRefunds
<1> QED BY <1>1, MoneyInvariant, PTL

(* No winner of any round is marked as paid without having been paid a     *)
(* lamport at least.                                                       *)
THEOREM SharesPaid == Spec => []NoEmptyShare
<1>1. Book /\ Money => NoEmptyShare BY MoneyGivesShares
<1> QED BY <1>1, MoneyInvariant, PTL

(***************************************************************************)
(* Custody: its state and its actions, in terms of the mapping.            *)
(***************************************************************************)
(* The lamports a wallet has put in.                                       *)
Deposits == [w \in Wallet |-> TicketPrice * participant[w].tickets_bought]

(* How the round has been decided, if it has.                              *)
Outcome == IF lottery.winners_count > 0 THEN "shares"
           ELSE IF lottery.settled THEN "refunds" ELSE "open"

(* Who is due a share.                                                     *)
SharesFor == IF lottery.winners_count > 0 THEN Recorded ELSE {}

(* What each of them is due.                                               *)
ShareDue ==
  IF lottery.winners_count > 0 THEN lottery.total_payout \div lottery.winners_count ELSE 0

(* The state of Custody that a state of a round stands for.                *)
Mapped == <<Outcome, Deposits, vault, SharesFor, ShareDue, received>>

(* Custody's Deposit, in terms of the mapping.                             *)
LEMMA CustodyDeposit ==
  ASSUME Outcome = "open", UNCHANGED <<Outcome, SharesFor, ShareDue, received>>,
         NEW w \in Wallet, Deposits'[w] > Deposits[w],
         Deposits' = [Deposits EXCEPT ![w] = Deposits'[w]],
         vault' = vault + Deposits'[w] - Deposits[w]
  PROVE  Custody!Deposit
<1>1. Custody!Deposit <=>
        /\ Outcome = "open"
        /\ \E v \in Wallet :
             /\ Deposits'[v] > Deposits[v]
             /\ Deposits' = [Deposits EXCEPT ![v] = Deposits'[v]]
             /\ vault' = vault + Deposits'[v] - Deposits[v]
        /\ UNCHANGED <<Outcome, SharesFor, ShareDue, received>>
  BY DEF Custody!Deposit, Outcome, Deposits, SharesFor, ShareDue
<1> QED BY <1>1, Zenon

(* Its DecideRefunds.                                                      *)
LEMMA CustodyDecideRefunds ==
  ASSUME Outcome = "open", Outcome' = "refunds",
         UNCHANGED <<Deposits, vault, SharesFor, ShareDue, received>>
  PROVE  Custody!DecideRefunds
<1>1. Custody!DecideRefunds <=>
        /\ Outcome = "open" /\ Outcome' = "refunds"
        /\ UNCHANGED <<Deposits, vault, SharesFor, ShareDue, received>>
  BY DEF Custody!DecideRefunds, Outcome, Deposits, SharesFor, ShareDue
<1> QED BY <1>1, Zenon

(* Its Refund.                                                             *)
LEMMA CustodyRefund ==
  ASSUME NEW w \in Wallet, Outcome = "refunds", Deposits[w] > 0, received[w] = 0,
         vault' = vault - Deposits[w],
         received' = [received EXCEPT ![w] = Deposits[w]],
         UNCHANGED <<Outcome, Deposits, SharesFor, ShareDue>>
  PROVE  Custody!Refund(w)
<1>1. Custody!Refund(w) <=>
        /\ Outcome = "refunds"
        /\ Deposits[w] > 0 /\ received[w] = 0
        /\ vault' = vault - Deposits[w]
        /\ received' = [received EXCEPT ![w] = Deposits[w]]
        /\ UNCHANGED <<Outcome, Deposits, SharesFor, ShareDue>>
  BY DEF Custody!Refund, Outcome, Deposits, SharesFor, ShareDue
<1> QED BY <1>1, Zenon

(* Its ReturnRent.                                                         *)
LEMMA CustodyReturnRent ==
  ASSUME Outcome = "refunds", \A w \in Wallet : received[w] = Deposits[w],
         vault = VaultRent, vault' = 0,
         received' = [received EXCEPT ![Authority] = VaultRent],
         UNCHANGED <<Outcome, Deposits, SharesFor, ShareDue>>
  PROVE  Custody!ReturnRent
<1>1. Custody!ReturnRent <=>
        /\ Outcome = "refunds"
        /\ \A w \in Wallet : received[w] = Deposits[w]
        /\ vault = VaultRent /\ vault' = 0
        /\ received' = [received EXCEPT ![Authority] = VaultRent]
        /\ UNCHANGED <<Outcome, Deposits, SharesFor, ShareDue>>
  BY DEF Custody!ReturnRent, Outcome, Deposits, SharesFor, ShareDue
<1> QED BY <1>1, Zenon

(* Custody counts winners as the round does.                               *)
LEMMA CustodySizes == \A S : Custody!Cardinality(S) = Cardinality(S)
  BY DEF Custody!Cardinality, Cardinality

(* Its Total is a sum of deposits.                                         *)
LEMMA CustodyTotal == Custody!Total = SumOver(Deposits, Wallet)
<1> DEFINE P(iter) == iter = [s \in SUBSET Wallet |->
      IF s = {} THEN 0
      ELSE LET x == CHOOSE x \in s : TRUE IN Deposits[x] + iter[s \ {x}]]
           G == CHOOSE iter : P(iter)
<1>1. Custody!Total = G[Wallet]
  BY DEF Custody!Total, Custody!MapThenSumSet, Custody!MapThenFoldSet, Deposits
<1>2. \A iter : P(iter) <=> IsSum(iter, Deposits, Wallet)
  BY DEF IsSum, Unfolded, FirstOf
<1>3. PICK g : IsSum(g, Deposits, Wallet) /\ SumOver(Deposits, Wallet) = g[Wallet]
  BY RoundAssumption, SumOverIsSum
<1>4. P(G)
  <2>1. P(g) BY <1>2, <1>3
  <2> HIDE DEF P
  <2> QED BY <2>1
<1>5. IsSum(G, Deposits, Wallet) BY <1>2, <1>4
<1> HIDE DEF P, G
<1>6. G[Wallet] = g[Wallet]
  <2>1. IsFiniteSet(Wallet) BY RoundAssumption
  <2> QED BY <1>3, <1>5, <2>1, SumUnique
<1> QED BY <1>1, <1>3, <1>6

(* The funds of the Lottery account are the deposits of all wallets.       *)
LEMMA DepositsTotal ==
  ASSUME Book
  PROVE  /\ Custody!Total = lottery.total_funds
         /\ \A w \in Wallet : Deposits[w] \in Nat
<1>1. TypeOK /\ Enrolled BY BookTypes DEF Book, Books
<1>2. /\ TicketPrice \in Nat
      /\ \A w \in Wallet : Held[w] = participant[w].tickets_bought /\ Held[w] \in Nat
  BY <1>1, HeldType, RoundAssumption DEF Held
<1>3. \A w \in Wallet : Deposits[w] = TicketPrice * Held[w] /\ Deposits[w] \in Nat
  BY <1>2 DEF Deposits
<1> DEFINE g == [w \in Wallet |-> IF w \in Buyers THEN TicketPrice * Held[w] ELSE 0]
<1>4. \A w \in Wallet : g[w] = Deposits[w]
  <2>1. \A w \in Wallet \ Buyers : Held[w] = 0 BY <1>1, <1>2 DEF Enrolled
  <2>2. TicketPrice * 0 = 0 BY <1>2
  <2> QED BY <1>3, <2>1, <2>2
<1>5. SumOver(g, Wallet) = TicketPrice * SumOver(Held, Buyers) BY BuyersAreWallets, RefundSum
<1>6. SumOver(g, Wallet) = lottery.total_funds
  <2>1. TicketPrice * SumOver(Held, Buyers) = lottery.total_funds
    BY BuyersAreWallets, RefundSum
  <2> HIDE DEF g
  <2> QED BY <1>5, <2>1
<1> HIDE DEF g
<1>7. SumOver(g, Wallet) = SumOver(Deposits, Wallet) BY <1>4, RoundAssumption, SumSame
<1> QED BY <1>3, <1>6, <1>7, CustodyTotal

(* Its DecideShares.                                                       *)
LEMMA CustodyDecideShares ==
  ASSUME Book, Outcome = "open", Outcome' = "shares",
         SharesFor' \subseteq { w \in Wallet : Deposits[w] > 0 }, SharesFor' # {},
         ShareDue' > 0, ShareDue' * Cardinality(SharesFor)' <= lottery.total_funds,
         UNCHANGED <<Deposits, vault, received>>
  PROVE  Custody!DecideShares
<1>1. Custody!DecideShares <=>
        /\ Outcome = "open" /\ Outcome' = "shares"
        /\ SharesFor' \subseteq { w \in Wallet : Deposits[w] > 0 } /\ SharesFor' # {}
        /\ ShareDue' > 0 /\ ShareDue' * Custody!Cardinality(SharesFor') <= Custody!Total
        /\ UNCHANGED <<Deposits, vault, received>>
  BY DEF Custody!DecideShares, Outcome, Deposits, SharesFor, ShareDue
<1>2. Custody!Total = lottery.total_funds BY DepositsTotal
<1>3. Custody!Cardinality(SharesFor') = Cardinality(SharesFor)' BY CustodySizes
<1> QED BY <1>1, <1>2, <1>3, Zenon

(* Wallets of the book that have received nothing.                         *)
UnpaidWinners == { w \in SharesFor : received[w] = 0 }

(* Its PayShares, for a set S of wallets that are paid.                    *)
LEMMA CustodyPayShares ==
  ASSUME Outcome = "shares", UNCHANGED <<Outcome, Deposits, SharesFor, ShareDue>>,
         NEW S \in SUBSET UnpaidWinners, S # {},
         S = UnpaidWinners =>
           /\ vault' = 0
           /\ received' = [ r \in DOMAIN received |->
                IF r \in S THEN ShareDue
                ELSE IF r = Authority THEN vault - ShareDue * Cardinality(S)
                ELSE received[r] ],
         S # UnpaidWinners =>
           /\ vault' = vault - ShareDue * Cardinality(S)
           /\ received' = [ r \in DOMAIN received |->
                IF r \in S THEN ShareDue ELSE received[r] ]
  PROVE  Custody!PayShares
<1>1. Custody!Unpaid(SharesFor) = UnpaidWinners BY DEF Custody!Unpaid, UnpaidWinners
<1>2. Custody!PayShares <=>
        /\ Outcome = "shares"
        /\ \E T \in (SUBSET Custody!Unpaid(SharesFor)) \ {{}} :
             LET rest == vault - ShareDue * Custody!Cardinality(T)
             IN  IF T = Custody!Unpaid(SharesFor)
                 THEN /\ vault' = 0
                      /\ received' = [ r \in DOMAIN received |->
                           IF r \in T THEN ShareDue
                           ELSE IF r = Authority THEN rest ELSE received[r] ]
                 ELSE /\ vault' = rest
                      /\ received' = [ r \in DOMAIN received |->
                           IF r \in T THEN ShareDue ELSE received[r] ]
        /\ UNCHANGED <<Outcome, Deposits, SharesFor, ShareDue>>
  BY DEF Custody!PayShares, Outcome, Deposits, SharesFor, ShareDue
<1>3. S \in (SUBSET UnpaidWinners) \ {{}} OBVIOUS
<1>4. Custody!Cardinality(S) = Cardinality(S) BY CustodySizes
<1> QED BY <1>1, <1>2, <1>3, <1>4, Zenon

(* A new round is a new custody.                                           *)
LEMMA CustodyInit == ASSUME Init PROVE Custody!Init
<1>1. /\ lottery = NewLottery /\ root = NewLedger("absent", 0)
      /\ participant = [w \in Wallet |-> NewParticipant("none", 0)]
      /\ vault = VaultRent /\ received = [r \in Recipient |-> 0]
  BY DEF Init
<1>2. lottery.winners_count = 0 /\ lottery.settled = FALSE BY <1>1 DEF NewLottery
<1>3. \A w \in Wallet : TicketPrice * participant[w].tickets_bought = 0
  <2>1. TicketPrice * 0 = 0 BY RoundAssumption
  <2> QED BY <1>1, <2>1 DEF NewParticipant
<1> QED BY <1>1, <1>2, <1>3 DEF Custody!Init, Recipient

(***************************************************************************)
(* Custody: the instructions of a round as its steps.                      *)
(***************************************************************************)
(* An instruction that moves no lamport and settles nothing is no step of  *)
(* Custody.                                                                *)
LEMMA IdleStutters == ASSUME Book, Money, Idle PROVE UNCHANGED Mapped
<1>1. /\ lottery'.winners_count = lottery.winners_count
      /\ lottery'.total_payout = lottery.total_payout
      /\ lottery'.settled = lottery.settled
      /\ vault' = vault /\ received' = received
      /\ \A w \in Wallet : participant'[w].tickets_bought = participant[w].tickets_bought
  BY DEF Idle, SameMoney
<1>2. Outcome' = Outcome /\ ShareDue' = ShareDue BY <1>1 DEF Outcome, ShareDue
<1>3. Deposits' = Deposits BY <1>1 DEF Deposits
<1>4. SharesFor' = SharesFor
  <2>1. CASE lottery.winners_count = 0 BY <1>1, <2>1 DEF SharesFor
  <2>2. CASE lottery.winners_count # 0
    <3>1. /\ root' = root /\ root.selected_count = lottery.winners_count
          /\ \A p \in PageIndex : pages'[p].entries = pages[p].entries
          /\ \A i \in 0..lottery.winners_count - 1 : PageOf(i) \in PageIndex
      BY <2>2, WinnersMeanCompleted DEF Idle, SameMoney
    <3>2. \A i \in 0..root.selected_count - 1 : EntryAt(i)' = EntryAt(i)
      BY <3>1 DEF EntryAt
    <3>3. Recorded' = Recorded BY <3>1, <3>2 DEF Recorded
    <3> QED BY <1>1, <3>3 DEF SharesFor
  <2> QED BY <2>1, <2>2
<1> QED BY <1>1, <1>2, <1>3, <1>4 DEF Mapped

(* BuyTickets is a Deposit, or nothing when tickets are free.              *)
LEMMA DepositMoves ==
  ASSUME Book, Money, NEW w \in Wallet, NEW count \in Nat \ {0}, BuyTickets(w, count)
  PROVE  Custody!Deposit \/ UNCHANGED Mapped
<1> DEFINE account == IF ~Exists(w)
                      THEN NewParticipant("open", lottery.participants_count)
                      ELSE participant[w]
           cost    == TicketPrice * count
<1>1. /\ ~UploadStarted /\ ~lottery.settled
      /\ participant' = [participant EXCEPT
           ![w] = [account EXCEPT !.tickets_bought = account.tickets_bought + count]]
      /\ lottery'.winners_count = lottery.winners_count
      /\ lottery'.settled = lottery.settled
      /\ vault' = vault + cost
      /\ received' = received
  BY BookTypes DEF BuyTickets, InBuyWindow, TypeOK, LotteryAccount
<1>2. TypeOK /\ Enrolled /\ StaysOpen BY BookTypes DEF Book, Books
<1>3. lottery.winners_count = 0
  <2>1. root.phase = "absent" BY <1>1, <1>2, NothingBeforeUpload DEF Book, Safe
  <2> QED BY <2>1, EmptyBook
<1>4. /\ cost \in Nat /\ TicketPrice \in Nat
      /\ participant[w].tickets_bought \in Nat
  <2>1. TicketPrice \in Nat BY RoundAssumption
  <2> QED BY <1>2, <2>1 DEF TypeOK, ParticipantAccount, U64
<1>5. account.tickets_bought = participant[w].tickets_bought
  <2>1. CASE Exists(w) BY <2>1
  <2>2. CASE ~Exists(w)
    <3>1. participant[w].status = "none"
      BY <1>1, <1>2, <2>2 DEF StaysOpen, TypeOK, ParticipantAccount, Exists
    <3>2. participant[w].tickets_bought = 0 BY <1>2, <1>4, <3>1 DEF Enrolled, Buyers
    <3> QED BY <2>2, <3>2 DEF NewParticipant
  <2> QED BY <2>1, <2>2
<1>6. "tickets_bought" \in DOMAIN account
  BY <1>2 DEF TypeOK, ParticipantAccount, NewParticipant
<1> HIDE DEF account, cost
<1>7. /\ participant'[w].tickets_bought = participant[w].tickets_bought + count
      /\ \A v \in Wallet \ {w} : participant'[v] = participant[v]
  BY <1>1, <1>2, <1>5, <1>6 DEF TypeOK
<1>8. Deposits'[w] = Deposits[w] + cost /\ Deposits[w] \in Nat
  <2>1. TicketPrice * (participant[w].tickets_bought + count)
          = TicketPrice * participant[w].tickets_bought + cost
    BY <1>4, Distribute DEF cost
  <2> QED BY <1>7, <2>1, DepositsTotal DEF Deposits
<1>9. Deposits' = [Deposits EXCEPT ![w] = Deposits'[w]] BY <1>7 DEF Deposits
<1>10. /\ Outcome = "open" /\ UNCHANGED <<Outcome, SharesFor, ShareDue>>
  BY <1>1, <1>3 DEF Outcome, SharesFor, ShareDue
<1>11. CASE cost = 0
  <2>1. Deposits' = Deposits
    <3>1. Deposits'[w] = Deposits[w] BY <1>8, <1>11
    <3>2. \A v \in Wallet : TicketPrice * participant'[v].tickets_bought
                            = TicketPrice * participant[v].tickets_bought
      BY <1>7, <3>1 DEF Deposits
    <3> QED BY <3>2 DEF Deposits
  <2>2. vault' = vault BY <1>1, <1>11, ReceivedType
  <2> QED BY <1>1, <1>10, <2>1, <2>2 DEF Mapped
<1>12. CASE cost # 0
  <2>1. Deposits'[w] > Deposits[w] BY <1>4, <1>8, <1>12
  <2>2. vault' = vault + Deposits'[w] - Deposits[w] BY <1>1, <1>4, <1>8, ReceivedType
  <2> QED BY <1>1, <1>9, <1>10, <2>1, <2>2, CustodyDeposit
<1> QED BY <1>11, <1>12

(* FinalizeNoAttesters decides for refunds, and only while nothing is      *)
(* decided: a round with a ledger cannot get there.                        *)
LEMMA NoAttestersMoves == ASSUME Book, FinalizeNoAttesters PROVE Custody!DecideRefunds
<1>1. /\ lottery.attested_count = 0 \/ RemediationExpired
      /\ ~lottery.settled
      /\ lottery' = [lottery EXCEPT !.settled = TRUE]
      /\ UNCHANGED <<participant, root, pages, vault, received>>
  BY DEF FinalizeNoAttesters
<1>2. root.phase = "absent" BY <1>1 DEF Book, Safe, Settling, Decided, RemediationExpired
<1>3. lottery.winners_count = 0 BY <1>2, EmptyBook
<1>4. /\ lottery'.settled = TRUE /\ lottery'.winners_count = 0
      /\ lottery'.total_payout = lottery.total_payout
  BY <1>1, <1>3, BookTypes DEF TypeOK, LotteryAccount
<1>5. UNCHANGED <<Deposits, SharesFor, ShareDue>>
  BY <1>1, <1>3, <1>4 DEF Deposits, SharesFor, ShareDue
<1>6. Outcome = "open" /\ Outcome' = "refunds" BY <1>1, <1>3, <1>4 DEF Outcome
<1> QED BY <1>1, <1>5, <1>6, CustodyDecideRefunds

(* ClaimRefund pays one Refund, to a wallet that has received nothing.     *)
LEMMA RefundMoves ==
  ASSUME Book, Money, NEW w \in Wallet, ClaimRefund(w)
  PROVE  Custody!Refund(w) \/ UNCHANGED Mapped
<1> DEFINE amount == TicketPrice * participant[w].tickets_bought
<1>1. /\ RefundsDue /\ ~participant[w].refund_claimed
      /\ vault' = vault - amount
      /\ received' = [received EXCEPT ![w] = received[w] + amount]
      /\ participant' = [participant EXCEPT ![w].refund_claimed = TRUE]
      /\ lottery' = [lottery EXCEPT !.settlement_batches_completed
                                      = lottery.settlement_batches_completed + 1]
      /\ UNCHANGED <<root, pages>>
  BY DEF ClaimRefund, RefundOwed, Pay
<1>2. TypeOK BY BookTypes
<1>3. lottery.winners_count = 0 /\ lottery.settled BY <1>1 DEF RefundsDue
<1>4. amount = Deposits[w] /\ amount \in Nat BY DepositsTotal DEF Deposits
<1> HIDE DEF amount
<1>5. /\ lottery'.winners_count = 0 /\ lottery'.settled = lottery.settled
      /\ lottery'.total_payout = lottery.total_payout
  BY <1>1, <1>2, <1>3 DEF TypeOK, LotteryAccount
<1>6. Outcome = "refunds" /\ UNCHANGED <<Outcome, SharesFor, ShareDue>>
  BY <1>3, <1>5 DEF Outcome, SharesFor, ShareDue
<1>7. Deposits' = Deposits
  <2>1. \A v \in Wallet : participant'[v].tickets_bought = participant[v].tickets_bought
    BY <1>1, <1>2 DEF TypeOK, ParticipantAccount
  <2> QED BY <2>1 DEF Deposits
<1>8. received[w] = 0
  <2>1. PaidShare(w) = 0 BY <1>3, NoWinnersYet
  <2>2. Refunded(w) = 0 BY <1>1 DEF Refunded
  <2> QED BY <2>1, <2>2 DEF Money, Purses
<1>9. received' = [received EXCEPT ![w] = Deposits[w]]
  <2>1. received[w] + amount = Deposits[w] BY <1>4, <1>8
  <2> QED BY <1>1, <2>1, Zenon
<1>10. vault' = vault - Deposits[w] BY <1>1, <1>4
<1>11. CASE Deposits[w] > 0
  BY <1>6, <1>7, <1>8, <1>9, <1>10, <1>11, CustodyRefund
<1>12. CASE Deposits[w] = 0
  <2>1. received' = received BY <1>2, <1>8, <1>9, <1>12 DEF TypeOK
  <2>2. vault' = vault BY <1>10, <1>12, ReceivedType
  <2> QED BY <1>6, <1>7, <2>1, <2>2 DEF Mapped
<1> QED BY <1>4, <1>11, <1>12

(* CloseRefundVault returns the rent, when every wallet has all its        *)
(* lamports back.                                                          *)
LEMMA RentMoves == ASSUME Book, Money, CloseRefundVault PROVE Custody!ReturnRent
<1>1. /\ lottery.winners_count = 0 /\ lottery.settled
      /\ Buyers \subseteq RefundTaken
      /\ vault = VaultRent /\ received[Authority] = 0
  BY RefundsAllPaid
<1>2. /\ vault' = 0
      /\ received' = [received EXCEPT ![Authority] = received[Authority] + vault]
      /\ UNCHANGED <<lottery, participant, root, pages>>
  BY DEF CloseRefundVault, Pay
<1>3. received' = [received EXCEPT ![Authority] = VaultRent]
  BY <1>1, <1>2, RoundAssumption
<1>4. Outcome = "refunds" BY <1>1 DEF Outcome
<1>5. UNCHANGED <<Outcome, Deposits, SharesFor, ShareDue>>
  BY <1>1, <1>2 DEF Outcome, Deposits, SharesFor, ShareDue
<1>6. ASSUME NEW w \in Wallet PROVE received[w] = Deposits[w]
  <2>1. received[w] = PaidShare(w) + Refunded(w) /\ PaidShare(w) = 0
    BY <1>1, NoWinnersYet DEF Money, Purses
  <2>2. Deposits[w] = TicketPrice * participant[w].tickets_bought /\ Deposits[w] \in Nat
    BY DepositsTotal DEF Deposits
  <2>3. CASE w \in RefundTaken
    <3>1. Refunded(w) = Deposits[w] BY <2>2, <2>3 DEF Refunded, RefundTaken
    <3> QED BY <2>1, <2>2, <3>1
  <2>4. CASE w \notin RefundTaken
    <3>1. Refunded(w) = 0 BY <2>4 DEF Refunded, RefundTaken
    <3>2. participant[w].tickets_bought = 0
      BY <1>1, <2>4, BookTypes DEF Book, Books, Enrolled, TypeOK, ParticipantAccount, U64
    <3>3. TicketPrice * 0 = 0 BY RoundAssumption
    <3> QED BY <2>1, <2>2, <3>1, <3>2, <3>3
  <2> QED BY <2>3, <2>4
<1> QED BY <1>1, <1>2, <1>3, <1>4, <1>5, <1>6, CustodyReturnRent

(* The last chunk of FinalizeWinners decides for shares: of wallets that   *)
(* paid, at least a lamport each, and within the deposits.                 *)
LEMMA SharesDecided ==
  ASSUME Book, Book', Money, Money', WinnerBook', NEW size \in Nat, CompleteFinalization(size)
  PROVE  Custody!DecideShares
<1> DEFINE winners == RecordWinner(Scanned(size)).selected_count
           pool    == WinnersPool(lottery.total_funds, ServiceChargeBps)
           payout  == (pool \div winners) * winners
           bitmap  == { i \in lottery.paid_winners_bitmap : i >= 8 * ((winners + 7) \div 8) }
           start   == IF lottery.settlement_start_unix = 0
                      THEN now ELSE lottery.settlement_start_unix
<1>1. /\ MayScan(size) /\ MayFinalize
      /\ root' = [RecordWinner(Scanned(size)) EXCEPT !.phase = "completed"]
      /\ lottery' = [lottery EXCEPT !.winners_count         = winners,
                                    !.total_payout          = payout,
                                    !.paid_winners_bitmap   = bitmap,
                                    !.settlement_start_unix = start]
  BY DEF CompleteFinalization, MayScan
<1>2. TypeOK BY BookTypes
<1>3. UNCHANGED <<vault, received>> /\ lottery.winners_count = 0
      /\ \A w \in Wallet : participant'[w].tickets_bought = participant[w].tickets_bought
  BY <1>1, ScannedAccounts
<1>4. ~lottery.settled BY <1>1 DEF MayFinalize, FinalizationOpen
<1> HIDE DEF winners, payout, bitmap, start
<1>5. /\ lottery'.total_funds = lottery.total_funds
      /\ lottery'.winners_count = winners
  BY <1>1, <1>2 DEF TypeOK, LotteryAccount
<1>6. root'.phase = "completed"
  <2>1. Sound(RecordWinner(Scanned(size)))
    <3>1. AppendWinner(Scanned(size)) /\ WinnerFound(Scanned(size)) BY DEF CompleteFinalization
    <3> QED BY <1>1, <3>1, ScannedWinner DEF Book, Safe
  <2> QED BY <1>1, <2>1 DEF Sound, FinalizationLedger
<1>7. TypeOK' /\ Booked' /\ Enrolled' /\ Revealed' /\ Counted'
  BY DEF Book, Books, Draws, Safe, TypeInv, Settling
<1>8. /\ root'.selected_count = lottery'.winners_count
      /\ Cardinality(Recorded)' = lottery'.winners_count
      /\ Recorded' \subseteq Included'
      /\ lottery'.winners_count > 0
  BY <1>6, <1>7 DEF Booked, WinnerBook
<1>9. /\ lottery'.total_payout = Share' * lottery'.winners_count
      /\ Share' \in Nat \ {0} /\ lottery'.total_payout <= lottery.total_funds
  BY <1>5, <1>8 DEF Money, ShareBook
<1>10. SharesFor' = Recorded' /\ ShareDue' = Share' BY <1>8 DEF SharesFor, ShareDue, Share
<1>11. Outcome = "open" /\ Outcome' = "shares" BY <1>3, <1>4, <1>8 DEF Outcome
<1>12. Deposits' = Deposits BY <1>3 DEF Deposits
<1>13. Recorded' # {}
  <2>1. SUFFICES ASSUME Recorded' = {} PROVE FALSE OBVIOUS
  <2>2. Cardinality(Recorded') = 0 BY <2>1, FS_EmptySet
  <2> QED BY <1>8, <2>2
<1>14. \A w \in Recorded' : w \in Wallet /\ Deposits[w] > 0
  <2> TAKE w \in Recorded'
  <2>1. w \in Buyers' /\ w \in Wallet
    BY <1>7, <1>8 DEF Counted, Revealed, Included
  <2>2. participant'[w].tickets_bought \in Nat \ {0}
    BY <1>7, <2>1 DEF Enrolled, TypeOK, ParticipantAccount, U64
  <2>3. TicketPrice \in Nat \ {0}
    <3>1. SUFFICES ASSUME TicketPrice = 0 PROVE FALSE BY RoundAssumption
    <3>2. lottery'.total_tickets \in Nat BY <1>7 DEF TypeOK, LotteryAccount, U64
    <3>3. lottery'.total_funds = 0 BY <1>7, <3>1, <3>2 DEF Enrolled
    <3>4. lottery'.winners_count \in Nat \ {0}
      BY <1>7, <1>8 DEF TypeOK, LotteryAccount, U64
    <3>5. Share' * lottery'.winners_count # 0 BY <1>9, <3>4
    <3>6. lottery'.total_payout \in Nat BY <1>7 DEF TypeOK, LotteryAccount, U64
    <3> QED BY <1>5, <1>9, <3>3, <3>5, <3>6
  <2>4. TicketPrice * participant'[w].tickets_bought > 0 BY <2>2, <2>3
  <2> QED BY <1>3, <2>1, <2>4 DEF Deposits
<1>15. ShareDue' * Cardinality(SharesFor)' <= lottery.total_funds
  <2>1. Cardinality(SharesFor)' = Cardinality(Recorded)' BY <1>10, Zenon
  <2> QED BY <1>8, <1>9, <1>10, <2>1
<1> QED BY <1>3, <1>9, <1>10, <1>11, <1>12, <1>13, <1>14, <1>15, CustodyDecideShares

(* What a wallet of the book has received while there are shares to pay.   *)
LEMMA WinnersReceived ==
  ASSUME Book, Money, lottery.winners_count # 0
  PROVE  /\ Recorded = { EntryAt(i).wallet : i \in 0..lottery.winners_count - 1 }
         /\ \A w \in Recorded : w \in Wallet
         /\ Share \in Nat \ {0}
         /\ \A i \in 0..lottery.winners_count - 1 :
              received[EntryAt(i).wallet]
                = IF i \in lottery.paid_winners_bitmap THEN Share ELSE 0
<1>1. Recorded = { EntryAt(i).wallet : i \in 0..lottery.winners_count - 1 }
  BY WinnersMeanCompleted DEF Recorded
<1>2. \A w \in Recorded : w \in Wallet BY <1>1, WinnersMeanCompleted
<1>3. Share \in Nat \ {0} BY ReceivedType DEF Money, ShareBook
<1>4. ASSUME NEW i \in 0..lottery.winners_count - 1
      PROVE  received[EntryAt(i).wallet]
               = IF i \in lottery.paid_winners_bitmap THEN Share ELSE 0
  <2> DEFINE w == EntryAt(i).wallet
  <2>1. w \in Wallet BY WinnersMeanCompleted
  <2>2. Refunded(w) = 0
    BY <2>1 DEF Refunded, Book, Safe, RefundXorWinners, RefundPath
  <2>3. (\E j \in lottery.paid_winners_bitmap : EntryAt(j).wallet = w)
          <=> i \in lottery.paid_winners_bitmap
    BY WinnersMeanCompleted DEF Money, PaidPages
  <2>4. PaidShare(w) = IF i \in lottery.paid_winners_bitmap THEN Share ELSE 0
    <3> HIDE DEF w
    <3> QED BY <2>3 DEF PaidShare, Share
  <2>5. received[w] = PaidShare(w) + Refunded(w) BY <2>1 DEF Money, Purses
  <2> HIDE DEF w
  <2>6. received[w] = IF i \in lottery.paid_winners_bitmap THEN Share ELSE 0
    BY <1>3, <2>2, <2>4, <2>5
  <2> QED BY <2>6 DEF w
<1> QED BY <1>1, <1>2, <1>3, <1>4

(* A batch of SettlePayoutBatch pays shares to wallets that have none yet, *)
(* and the authority exactly with the last of them; a batch of entries     *)
(* paid before moves nothing.                                              *)
LEMMA SharesMove ==
  ASSUME Book, Money, NEW batch \in SUBSET (0..lottery.winners_count - 1),
         SettlePayoutBatch(batch)
  PROVE  Custody!PayShares \/ UNCHANGED Mapped
<1> DEFINE n         == lottery.winners_count
           Bitmap(S) == lottery.paid_winners_bitmap \cup S
           Left(S)   == vault - Share * Cardinality(S)
           Paid(S)   == [r \in Recipient |-> received[r] + Payment(S)[r]]
<1>1. PICK due, page, batches :
        /\ due = batch \ lottery.paid_winners_bitmap
        /\ lottery.winners_count # 0 /\ ~lottery.settlement_complete
        /\ pages' = [pages EXCEPT
             ![page].paid = pages[page].paid \cup { OffsetOf(i) : i \in due }]
        /\ vault' = IF AllWinnersPaid(Bitmap(due)) THEN 0 ELSE Left(due)
        /\ received' = IF AllWinnersPaid(Bitmap(due))
                       THEN [Paid(due) EXCEPT ![Authority] = Paid(due)[Authority] + Left(due)]
                       ELSE Paid(due)
        /\ lottery' = [lottery EXCEPT
             !.paid_winners_bitmap          = Bitmap(due),
             !.settlement_batches_completed = batches,
             !.settlement_complete          = AllWinnersPaid(Bitmap(due)),
             !.settled                      = lottery.settled \/ AllWinnersPaid(Bitmap(due))]
        /\ UNCHANGED <<now, participant, tally, root>>
  BY BatchStep
<1> DEFINE bitmap == Bitmap(due)
           left   == Left(due)
           paid   == Paid(due)
           g      == Payment(due)
           last   == AllWinnersPaid(bitmap)
           S      == WalletsOf(due)
<1>2. TypeOK BY BookTypes
<1>3. due \in SUBSET (0..n - 1) /\ due \cap lottery.paid_winners_bitmap = {} BY <1>1
<1>4. /\ n \in Nat /\ n > 0 /\ lottery.paid_winners_bitmap \in SUBSET (0..n - 1)
      /\ Recorded = { EntryAt(i).wallet : i \in 0..n - 1 }
      /\ \A w \in Recorded : w \in Wallet
      /\ Share \in Nat \ {0}
      /\ \A i \in 0..n - 1 :
           received[EntryAt(i).wallet] = IF i \in lottery.paid_winners_bitmap THEN Share ELSE 0
      /\ \A i, j \in 0..n - 1 : EntryAt(i).wallet = EntryAt(j).wallet => i = j
  BY <1>1, WinnersReceived, WinnersMeanCompleted, ReceivedType DEF Money, PaidPages
<1>5. /\ g[Authority] = 0 /\ Cardinality(due) \in Nat
      /\ S \in SUBSET Wallet /\ Cardinality(S) = Cardinality(due)
  BY <1>1, <1>3, PaymentSum
<1>6. left \in Nat /\ left >= VaultRent BY <1>1, <1>3, VaultCovers
<1>7. /\ lottery'.winners_count = n /\ lottery'.total_payout = lottery.total_payout
      /\ root' = root /\ participant' = participant
      /\ \A p \in PageIndex : pages'[p].entries = pages[p].entries
  BY <1>1, <1>2 DEF TypeOK, LotteryAccount, WinnerPage
<1>8. /\ Outcome = "shares" /\ SharesFor = Recorded /\ ShareDue = Share
      /\ UNCHANGED <<Outcome, Deposits, SharesFor, ShareDue>>
  <2>1. \A i \in 0..root.selected_count - 1 : EntryAt(i)' = EntryAt(i)
    BY <1>1, <1>7, WinnersMeanCompleted DEF EntryAt
  <2>2. Recorded' = Recorded BY <1>7, <2>1 DEF Recorded
  <2> QED BY <1>4, <1>7, <2>2 DEF Outcome, Deposits, SharesFor, ShareDue, Share
<1>9. vault # 0 /\ received[Authority] = 0
  <2>1. Share * Cardinality(due) \in Nat BY <1>4, <1>5
  <2>2. vault # 0 BY <1>6, <2>1, ReceivedType
  <2> QED BY <1>1, <2>2 DEF Money, Purses
<1>10. \A r \in Recipient : g[r] = IF r \in S THEN Share ELSE 0 BY DEF Payment
<1>11. \A r \in S : r \in Recorded /\ received[r] = 0
  BY <1>3, <1>4 DEF WalletsOf
<1>12. received \in [Recipient -> Nat] /\ Authority \in Recipient /\ Wallet \subseteq Recipient
       /\ Authority \notin Wallet
  BY <1>2, RecipientsFinite, RoundAssumption DEF TypeOK
<1>13. /\ \A r \in Recipient : paid[r] = IF r \in S THEN Share ELSE received[r]
       /\ paid = [r \in Recipient |-> IF r \in S THEN Share ELSE received[r]]
  BY <1>4, <1>10, <1>11, <1>12
<1>14. S \in SUBSET UnpaidWinners BY <1>8, <1>11 DEF UnpaidWinners
<1>15. S = UnpaidWinners <=> last
  <2>1. ASSUME last, NEW w \in UnpaidWinners PROVE w \in S
    <3>1. PICK i \in 0..n - 1 : w = EntryAt(i).wallet
      BY <1>4, <1>8 DEF UnpaidWinners
    <3>2. i \notin lottery.paid_winners_bitmap BY <1>4, <3>1 DEF UnpaidWinners
    <3>3. i \in due BY <2>1, <3>2 DEF AllWinnersPaid
    <3> QED BY <3>1, <3>3 DEF WalletsOf
  <2>2. ASSUME S = UnpaidWinners, NEW i \in 0..n - 1 PROVE i \in bitmap
    <3>1. CASE i \in lottery.paid_winners_bitmap BY <3>1
    <3>2. CASE i \notin lottery.paid_winners_bitmap
      <4>1. EntryAt(i).wallet \in UnpaidWinners BY <1>4, <1>8, <3>2 DEF UnpaidWinners
      <4>2. PICK j \in due : EntryAt(i).wallet = EntryAt(j).wallet
        BY <2>2, <4>1 DEF WalletsOf
      <4> QED BY <1>3, <1>4, <4>2
    <3> QED BY <3>1, <3>2
  <2> QED BY <1>14, <2>1, <2>2 DEF AllWinnersPaid
<1>16. left = vault - ShareDue * Cardinality(S) BY <1>5, <1>8
<1>17. vault' = IF last THEN 0 ELSE left BY <1>1
<1>18. received' = IF last THEN [paid EXCEPT ![Authority] = paid[Authority] + left] ELSE paid
  BY <1>1
<1>19. last => received' = [ r \in Recipient |->
                 IF r \in S THEN ShareDue
                 ELSE IF r = Authority THEN left ELSE received[r] ]
  <2>1. paid[Authority] + left = left BY <1>5, <1>6, <1>9, <1>12, <1>13
  <2> HIDE DEF paid, left, S, last
  <2> QED BY <1>5, <1>8, <1>12, <1>13, <1>18, <2>1
<1>20. DOMAIN received = Recipient BY <1>12
<1>21. CASE S # {}
  <2> HIDE DEF paid, left, S, last
  <2>1. last =>
           /\ vault' = 0
           /\ received' = [ r \in DOMAIN received |->
                IF r \in S THEN ShareDue
                ELSE IF r = Authority THEN vault - ShareDue * Cardinality(S)
                ELSE received[r] ]
    BY <1>16, <1>17, <1>19, <1>20, Zenon
  <2>2. ~last =>
           /\ vault' = vault - ShareDue * Cardinality(S)
           /\ received' = [ r \in DOMAIN received |->
                IF r \in S THEN ShareDue ELSE received[r] ]
    <3>1. ShareDue = Share BY <1>8
    <3> QED BY <1>13, <1>16, <1>17, <1>18, <1>20, <3>1, Zenon
  <2> QED BY <1>8, <1>14, <1>15, <1>21, <2>1, <2>2, CustodyPayShares
<1>22. CASE S = {}
  <2>1. due = {} BY <1>22 DEF WalletsOf
  <2>2. ~last
    <3>1. bitmap = lottery.paid_winners_bitmap BY <2>1
    <3> QED BY <1>1, <1>4, <3>1 DEF Money, ShareBook
  <2>3. Cardinality(S) = 0 BY <1>22, FS_EmptySet
  <2>4. left = vault
    <3>1. Share * 0 = 0 BY <1>4
    <3>2. left = vault - Share * Cardinality(due) OBVIOUS
    <3> HIDE DEF left, S
    <3>3. Cardinality(due) = 0 BY <1>5, <2>3
    <3>4. Share * Cardinality(due) = 0 BY <3>1, <3>3
    <3> QED BY <3>2, <3>4, ReceivedType
  <2>5. paid = received BY <1>12, <1>13, <1>22
  <2> QED BY <1>8, <1>17, <1>18, <2>2, <2>4, <2>5 DEF Mapped
<1> QED BY <1>21, <1>22

(* Every step of a round is a step of Custody, or moves no money.          *)
LEMMA CustodyNext ==
  ASSUME Book, Book', Money, Money', WinnerBook', [Next]_vars
  PROVE  [Custody!Next]_(Custody!vars)
<1>1. UNCHANGED Mapped => UNCHANGED Custody!vars
  BY DEF Custody!vars, Mapped, Outcome, Deposits, SharesFor, ShareDue
<1> SUFFICES Custody!Next \/ UNCHANGED Mapped BY <1>1
<1> USE DEF Custody!Next
<1>2. Idle => UNCHANGED Mapped BY IdleStutters
<1>3. CASE Tick BY <1>2, <1>3, MoneyTick
<1>4. ASSUME NEW w \in Wallet, Buy(w) PROVE Custody!Next \/ UNCHANGED Mapped
  BY <1>4, DepositMoves, InputAssumption DEF Buy
<1>5. CASE Begin BY <1>2, <1>5, MoneyBeginReveal, InputAssumption DEF Begin
<1>6. ASSUME NEW w \in Wallet, Attest(w) PROVE Custody!Next \/ UNCHANGED Mapped
  <2>1. 1..MaxWinnersCap \subseteq Nat BY RoundAssumption
  <2> QED BY <1>2, <1>6, <2>1, MoneyAttestUploaded, MoneyAttestReveal DEF Attest
<1>7. CASE Upload BY <1>2, <1>7, MoneyUploadReveals DEF Upload
<1>8. CASE FinalizeWinners
  <2>1. Sizes \subseteq Nat BY DEF Sizes
  <2> QED BY <1>2, <1>8, <2>1, MoneyStartRemediation, MoneyAggregateChunk,
             MoneyCloseAggregation, MoneyScanChunk, MoneyCloseRound, SharesDecided
          DEF FinalizeWinners
<1>9. CASE Settle BY <1>9, SharesMove DEF Settle
<1>10. CASE FinalizeNoAttesters BY <1>10, NoAttestersMoves
<1>11. ASSUME NEW w \in Wallet, ClaimRefund(w) PROVE Custody!Next \/ UNCHANGED Mapped
  BY <1>11, RefundMoves
<1>12. CASE CloseRefundVault BY <1>12, RentMoves
<1>13. ASSUME NEW w \in Wallet, CloseParticipant(w) PROVE Custody!Next \/ UNCHANGED Mapped
  BY <1>2, <1>13, MoneyCloseParticipant
<1>14. CASE UNCHANGED vars
  <2>1. Idle BY <1>14 DEF vars, Idle, SameMoney
  <2> QED BY <1>2, <2>1
<1> QED
  BY <1>3, <1>4, <1>5, <1>6, <1>7, <1>8, <1>9, <1>10, <1>11, <1>12, <1>13, <1>14 DEF Next

(* Whatever the order of instructions and their senders, the lamports of   *)
(* every round move as Custody says: deposits first, one decision, then    *)
(* shares or refunds, each once, and the authority last. For any set of    *)
(* wallets, any price, fee and cap, and any cut into chunks and batches.   *)
THEOREM RoundKeepsCustody == Spec => ImplementsCustody
<1>1. Init => Custody!Init BY CustodyInit
<1>2. Book /\ Money /\ (Book /\ Money)' /\ WinnerBook' /\ [Next]_vars
        => [Custody!Next]_(Custody!vars)
  BY CustodyNext
<1> QED BY <1>1, <1>2, MoneyInvariant, WinnersBooked, PTL
        DEF Spec, ImplementsCustody, Custody!Spec

(***************************************************************************)
(* The log: what each kind of line stands for.                             *)
(***************************************************************************)
Purchases == Told("TicketsPurchased")

(* Purchases are told apart by the running total of their buyer; the last  *)
(* of a buyer carries its total, and together they make the funds.         *)
SalesTold ==
  /\ IsFiniteSet(Purchases)
  /\ \A e \in Purchases :
       /\ e.buyer \in Wallet /\ e.amount_paid \in Nat
       /\ e.total_tickets_for_participant \in 1..participant[e.buyer].tickets_bought
  /\ \A w \in Wallet : participant[w].tickets_bought > 0 =>
       \E e \in Purchases :
         /\ e.buyer = w
         /\ e.total_tickets_for_participant = participant[w].tickets_bought
  /\ lottery.total_funds = SumOver([e \in Purchases |-> e.amount_paid], Purchases)

(* One line per attestation, with the vote.                                *)
VotesTold ==
  Told("AttestationSubmitted")
    = { AttestationSubmitted(w, participant[w].voted_winners) : w \in Attested }

(* One line for the remediation window, once it is open.                   *)
WindowOf(account) ==
  [ event                     |-> "RevealRemediationBegan",
    remediation_start_unix    |-> account.remediation_start_unix,
    remediation_deadline_unix |-> account.remediation_deadline_unix ]

WindowTold ==
  Told("RevealRemediationBegan")
    = IF lottery.remediation_start_unix = 0 THEN {} ELSE {WindowOf(lottery)}

(* One line per entry of the winner pages.                                 *)
Selection(i) ==
  [ event        |-> "WinnerSelected",
    winner       |-> EntryAt(i).wallet,
    tickets      |-> EntryAt(i).tickets,
    winner_index |-> i,
    page_index   |-> i \div WINNERS_PER_PAGE,
    page_offset  |-> i % WINNERS_PER_PAGE ]

WinnersTold ==
  Told("WinnerSelected") = { Selection(i) : i \in 0..root.selected_count - 1 }

(* One line for the completed winner set.                                  *)
FinalWinners ==
  [ event             |-> "WinnersFinalized",
    winners_count     |-> lottery.winners_count,
    total_payout      |-> lottery.total_payout,
    per_winner_payout |-> Share ]

FinalTold ==
  Told("WinnersFinalized") = IF lottery.winners_count = 0 THEN {} ELSE {FinalWinners}

(* One line per entry paid.                                                *)
SharesTold ==
  Told("WinnerPaid") = { WinnerPaid(i) : i \in lottery.paid_winners_bitmap }

(* One line per refund taken.                                              *)
RefundLine(w) ==
  [ event            |-> "RefundClaimed",
    wallet           |-> w,
    amount           |-> TicketPrice * participant[w].tickets_bought,
    tickets_refunded |-> participant[w].tickets_bought ]

RefundsTold == Told("RefundClaimed") = { RefundLine(w) : w \in RefundTaken }

(* Each end is announced when it comes.                                    *)
EndsTold ==
  /\ RefundPath <=> Told("LotterySettled") # {}
  /\ RefundPath <=> Told("RefundsIssued") # {}
  /\ lottery.settlement_complete <=> Told("PayoutsComplete") # {}

(* What the authority got with the last share, unless there was neither    *)
(* fee nor remainder, and after the last refund.                           *)
FeeTold ==
  IF lottery.settlement_complete
  THEN lottery.total_funds # lottery.total_payout =>
         \E e \in Told("ServiceFeePaid") :
           /\ Told("ServiceFeePaid") = {e}
           /\ e.service_fee \in Int /\ e.remainder \in Int
           /\ e.vault_rent_reclaimed = received[Authority] - e.service_fee - e.remainder
  ELSE Told("ServiceFeePaid") = {}

RentTold ==
  IF vault = 0 /\ ~lottery.settlement_complete
  THEN \E e \in Told("RefundVaultClosed") :
         /\ Told("RefundVaultClosed") = {e}
         /\ e.vault_rent_reclaimed = received[Authority]
  ELSE Told("RefundVaultClosed") = {}

Progress == VotesTold /\ WindowTold /\ WinnersTold

Accounted ==
  SalesTold /\ FinalTold /\ SharesTold /\ RefundsTold /\ EndsTold /\ FeeTold /\ RentTold

(* The inductive invariant, beside those of the round.                     *)
Story == Progress /\ Accounted

(***************************************************************************)
(* Every step of the log is a step of the round.                           *)
(***************************************************************************)
LEMMA LogStepIsStep == ASSUME LogNext PROVE Next
<1>1. CASE Tick /\ UNCHANGED log BY <1>1 DEF Next
<1>2. ASSUME NEW w \in Wallet, LogBuy(w) PROVE Next BY <1>2 DEF LogBuy, Buy, Next
<1>3. ASSUME LogBegin PROVE Next BY <1>3 DEF LogBegin, Next
<1>4. ASSUME NEW w \in Wallet, LogAttest(w) PROVE Next BY <1>4 DEF LogAttest, Attest, Next
<1>5. ASSUME LogUpload PROVE Next BY <1>5 DEF LogUpload, Next
<1>6. ASSUME LogFinalizeWinners PROVE Next
  BY <1>6 DEF LogFinalizeWinners, FinalizeWinners, Next
<1>7. ASSUME LogSettle PROVE Next BY <1>7 DEF LogSettle, Settle, Next
<1>8. ASSUME LogFinalizeNoAttesters PROVE Next BY <1>8 DEF LogFinalizeNoAttesters, Next
<1>9. ASSUME NEW w \in Wallet, LogClaimRefund(w) PROVE Next
  BY <1>9 DEF LogClaimRefund, Next
<1>10. ASSUME LogCloseRefundVault PROVE Next BY <1>10 DEF LogCloseRefundVault, Next
<1>11. ASSUME NEW w \in Wallet, LogCloseParticipant(w) PROVE Next
  BY <1>11 DEF LogCloseParticipant, Next
<1> QED
  BY <1>1, <1>2, <1>3, <1>4, <1>5, <1>6, <1>7, <1>8, <1>9, <1>10, <1>11 DEF LogNext

(***************************************************************************)
(* Lines that stay true.                                                   *)
(***************************************************************************)
(* No line of these kinds is added.                                        *)
Silent(names) == \A n \in names : Told(n)' = Told(n)

(* Votes and window as they were.                                          *)
SameVoters ==
  \A w \in Wallet :
    /\ participant'[w].attested_uploaded = participant[w].attested_uploaded
    /\ participant'[w].voted_winners = participant[w].voted_winners

SameWindow ==
  /\ lottery'.remediation_start_unix = lottery.remediation_start_unix
  /\ lottery'.remediation_deadline_unix = lottery.remediation_deadline_unix

SameEntries ==
  /\ root'.selected_count = root.selected_count
  /\ \A i \in 0..root.selected_count - 1 : EntryAt(i)' = EntryAt(i)

(* Votes and attestations left alone, and no line about them: still told.  *)
LEMMA VotesStay ==
  ASSUME VotesTold, SameVoters, Silent({"AttestationSubmitted"}) PROVE VotesTold'
<1>1. Attested' = Attested BY DEF SameVoters, Attested
<1>2. \A w \in Attested : participant'[w].voted_winners = participant[w].voted_winners
  BY DEF SameVoters, Attested
<1>3. { AttestationSubmitted(w, participant'[w].voted_winners) : w \in Attested' }
        = { AttestationSubmitted(w, participant[w].voted_winners) : w \in Attested }
  BY <1>1, <1>2
<1> QED BY <1>3 DEF VotesTold, Silent

(* The same for the remediation window.                                    *)
LEMMA WindowStays ==
  ASSUME WindowTold, SameWindow, Silent({"RevealRemediationBegan"}) PROVE WindowTold'
  BY DEF WindowTold, SameWindow, WindowOf, Silent

(* The same for the entries of the winner pages.                           *)
LEMMA EntriesStay ==
  ASSUME WinnersTold, SameEntries, Silent({"WinnerSelected"}) PROVE WinnersTold'
<1>1. \A i \in 0..root.selected_count - 1 : Selection(i)' = Selection(i)
  BY DEF SameEntries, Selection
<1>2. { Selection(i)' : i \in 0..root'.selected_count - 1 }
        = { Selection(i) : i \in 0..root.selected_count - 1 }
  BY <1>1 DEF SameEntries
<1> QED BY <1>2 DEF WinnersTold, Silent

(* The lines about money.                                                  *)
MoneyLines ==
  { "TicketsPurchased", "WinnersFinalized", "WinnerPaid", "RefundClaimed", "LotterySettled",
    "RefundsIssued", "PayoutsComplete", "ServiceFeePaid", "RefundVaultClosed" }

(* Lines of shares keep their meaning as long as what is paid does.        *)
LEMMA SharesStay ==
  ASSUME SharesTold, Book, Money, SameMoney, Silent({"WinnerPaid"}) PROVE SharesTold'
<1>1. CASE lottery.winners_count = 0
  <2>1. lottery.paid_winners_bitmap = {} /\ lottery'.paid_winners_bitmap = {}
    BY <1>1, NoWinnersYet DEF SameMoney
  <2> QED BY <2>1 DEF SharesTold, Silent
<1>2. CASE lottery.winners_count # 0
  <2>1. \A i \in lottery.paid_winners_bitmap : PageOf(i) \in PageIndex
    BY <1>2, WinnersMeanCompleted DEF Money, PaidPages
  <2>2. \A i \in lottery.paid_winners_bitmap : WinnerAt(i)' = WinnerAt(i)
    BY <1>2, <2>1 DEF SameMoney, WinnerAt
  <2>3. \A i \in lottery.paid_winners_bitmap : WinnerPaid(i)' = WinnerPaid(i)
    BY <2>2 DEF SameMoney, WinnerPaid
  <2>4. { WinnerPaid(i)' : i \in lottery'.paid_winners_bitmap }
          = { WinnerPaid(i) : i \in lottery.paid_winners_bitmap }
    BY <2>3 DEF SameMoney
  <2> QED BY <2>4 DEF SharesTold, Silent
<1> QED BY <1>1, <1>2

(* The same for the refunds taken.                                         *)
LEMMA RefundsStay ==
  ASSUME RefundsTold, Silent({"RefundClaimed"}),
         \A w \in Wallet :
           /\ participant'[w].refund_claimed <=> participant[w].refund_claimed
           /\ participant[w].refund_claimed =>
                participant'[w].tickets_bought = participant[w].tickets_bought
  PROVE  RefundsTold'
<1>1. RefundTaken' = RefundTaken BY DEF RefundTaken
<1>2. \A w \in RefundTaken : RefundLine(w)' = RefundLine(w) BY DEF RefundLine, RefundTaken
<1>3. { RefundLine(w)' : w \in RefundTaken' } = { RefundLine(w) : w \in RefundTaken }
  BY <1>1, <1>2
<1> QED BY <1>3 DEF RefundsTold, Silent

(* The same for the tickets sold.                                          *)
LEMMA SalesStay ==
  ASSUME SalesTold, Silent({"TicketsPurchased"}),
         lottery'.total_funds = lottery.total_funds,
         \A w \in Wallet : participant'[w].tickets_bought = participant[w].tickets_bought
  PROVE  SalesTold'
  BY DEF SalesTold, Silent, Purchases

(* A step that moves no lamport and says nothing of money keeps them all;  *)
(* ends are looked at separately, since a round may be settled by it.      *)
LEMMA LinesStay ==
  ASSUME Accounted, Book, Money, SameMoney,
         Silent(MoneyLines \ {"LotterySettled", "RefundsIssued"})
  PROVE  SalesTold' /\ FinalTold' /\ SharesTold' /\ RefundsTold' /\ FeeTold' /\ RentTold'
<1>1. \A names \in SUBSET (MoneyLines \ {"LotterySettled", "RefundsIssued"}) : Silent(names)
  BY DEF Silent
<1>2. SalesTold' BY <1>1, SalesStay DEF Accounted, SameMoney, MoneyLines
<1>3. FinalTold'
  <2>1. FinalWinners' = FinalWinners BY DEF SameMoney, FinalWinners, Share
  <2> QED BY <1>1, <2>1 DEF Accounted, FinalTold, SameMoney, Silent, MoneyLines
<1>4. SharesTold' BY <1>1, SharesStay DEF Accounted, MoneyLines
<1>5. RefundsTold' BY <1>1, RefundsStay DEF Accounted, SameMoney, MoneyLines
<1>6. FeeTold' BY DEF Accounted, FeeTold, SameMoney, Silent, MoneyLines
<1>7. RentTold' BY DEF Accounted, RentTold, SameMoney, Silent, MoneyLines
<1> QED BY <1>2, <1>3, <1>4, <1>5, <1>6, <1>7

(* A step that moves no money, settles nothing and says nothing of money   *)
(* keeps every line about money.                                           *)
LEMMA AccountedKept ==
  ASSUME Accounted, Book, Money, Idle, Silent(MoneyLines) PROVE Accounted'
<1>1. Silent(MoneyLines \ {"LotterySettled", "RefundsIssued"}) BY DEF Silent
<1>2. RefundPath' <=> RefundPath BY DEF Idle, SameMoney, RefundPath
<1>3. EndsTold'
  BY <1>2 DEF Accounted, EndsTold, Idle, SameMoney, Silent, MoneyLines
<1> QED BY <1>1, <1>3, LinesStay DEF Idle, Accounted

(***************************************************************************)
(* Steps that say nothing, or nothing that Story looks at.                 *)
(***************************************************************************)
AllLines ==
  MoneyLines \cup {"AttestationSubmitted", "RevealRemediationBegan", "WinnerSelected"}

(* A step that says nothing and changes nothing the lines are about keeps  *)
(* the story.                                                              *)
LEMMA StoryKept ==
  ASSUME Story, Book, Money, Idle, SameVoters, SameWindow, SameEntries, Silent(AllLines)
  PROVE  Story'
<1>1. \A names \in SUBSET AllLines : Silent(names) BY DEF Silent
<1>2. /\ Silent({"AttestationSubmitted"}) /\ Silent({"RevealRemediationBegan"})
      /\ Silent({"WinnerSelected"}) /\ Silent(MoneyLines)
  BY <1>1 DEF AllLines
<1> QED
  BY <1>2, VotesStay, WindowStays, EntriesStay, AccountedKept DEF Story, Progress

(* A step that leaves a log as it is.                                      *)
LEMMA LogUnchanged == ASSUME log' = log, NEW names PROVE Silent(names)
  BY DEF Silent, Told

(* Nor does one other line add to the lines of these kinds.                *)
LEMMA OneLine ==
  ASSUME NEW names, \E e : log' = log \cup {e} /\ e.event \notin names
  PROVE  Silent(names)
  BY DEF Silent, Told

(* Time passes in silence.                                                 *)
LEMMA StoryTick == ASSUME Story, Book, Money, Tick, log' = log PROVE Story'
<1>1. SameVoters /\ SameWindow /\ SameEntries
  BY DEF Tick, SameVoters, SameWindow, SameEntries, EntryAt
<1> QED BY <1>1, MoneyTick, LogUnchanged, StoryKept

(* Nothing happens, nothing is said.                                       *)
LEMMA StoryStutter == ASSUME Story, UNCHANGED <<vars, log>> PROVE Story'
<1>1. UNCHANGED <<lottery, participant, root, pages, vault, received, log>> BY DEF vars
<1>2. Told("TicketsPurchased")' = Told("TicketsPurchased") BY <1>1 DEF Told
<1>3. Progress'
  BY <1>1 DEF Story, Progress, VotesTold, WindowTold, WinnersTold, Told, Attested, WindowOf,
              Selection, EntryAt
<1>4. Accounted'
  BY <1>1, <1>2
  DEF Story, Accounted, SalesTold, Purchases, FinalTold, FinalWinners, SharesTold, RefundsTold,
      EndsTold, FeeTold, RentTold, Told, Share, WinnerPaid, WinnerAt, RefundLine, RefundTaken,
      RefundPath
<1> QED BY <1>3, <1>4 DEF Story

(* Begin reveal speaks of the upload phase, which the story leaves out.    *)
LEMMA StoryBegin == ASSUME Story, Book, Money, LogBegin PROVE Story'
<1>1. PICK a \in RevealSecs : \E u \in RevealSecs : BeginReveal(a, u) BY DEF LogBegin, Begin
<1>2. PICK u \in RevealSecs : BeginReveal(a, u) BY <1>1
<1>3. a \in Nat /\ u \in Nat BY InputAssumption
<1>4. Idle BY <1>2, <1>3, MoneyBeginReveal
<1>5. UNCHANGED <<participant, root, pages>> BY <1>2 DEF BeginReveal
<1>6. SameWindow
  <2> DEFINE deadline == AtLeast(AttestationEnd(a), AttestationEnd(a) + OrDefault(u))
             begun    == [lottery EXCEPT !.upload_start_unix    = now,
                                         !.upload_deadline_unix = deadline]
  <2>1. lottery' = IF lottery.participants_count = 1
                   THEN [begun EXCEPT !.uploads_complete           = TRUE,
                                      !.poc_aggregate_hash         = {NoWallet},
                                      !.selected_number_of_winners = 1]
                   ELSE begun
    BY <1>2 DEF BeginReveal
  <2> HIDE DEF deadline
  <2> QED BY <2>1, BookTypes DEF SameWindow, TypeOK, LotteryAccount
<1>7. Silent(AllLines)
  <2> DEFINE e == [ event        |-> "UploadPhaseBegan",
                    new_start    |-> now,
                    new_deadline |-> lottery'.upload_deadline_unix ]
  <2>1. log' = log \cup {e} BY DEF LogBegin, Emit
  <2>2. e.event \notin AllLines BY DEF AllLines, MoneyLines
  <2> HIDE DEF e
  <2> QED BY <2>1, <2>2, OneLine
<1> QED BY <1>4, <1>5, <1>6, <1>7, StoryKept DEF SameVoters, SameEntries, EntryAt

(* Closing a participant's account takes none of what the lines are about  *)
(* with it.                                                                *)
LEMMA StoryCloseParticipant ==
  ASSUME Story, Book, Money, NEW w \in Wallet, LogCloseParticipant(w) PROVE Story'
<1>1. CloseParticipant(w) BY DEF LogCloseParticipant
<1>2. /\ participant' = [participant EXCEPT ![w].status = "closed"]
      /\ UNCHANGED <<lottery, root, pages>>
  BY <1>1 DEF CloseParticipant
<1>3. SameVoters BY <1>2, BookTypes DEF SameVoters, TypeOK, ParticipantAccount
<1>4. Silent(AllLines)
  <2> DEFINE e == [event |-> "ParticipantClosed", wallet |-> w]
  <2>1. log' = log \cup {e} BY DEF LogCloseParticipant, Emit
  <2>2. e.event \notin AllLines BY DEF AllLines, MoneyLines
  <2> HIDE DEF e
  <2> QED BY <2>1, <2>2, OneLine
<1> QED BY <1>1, <1>2, <1>3, <1>4, MoneyCloseParticipant, StoryKept
        DEF SameWindow, SameEntries, EntryAt

(***************************************************************************)
(* Votes and the window.                                                   *)
(***************************************************************************)
(* An attestation adds its wallet, with the vote it carries; nobody        *)
(* attests twice.                                                          *)
LEMMA StoryAttest ==
  ASSUME Story, Book, Money, NEW w \in Wallet, LogAttest(w) PROVE Story'
<1>1. PICK vote \in 1..MaxWinnersCap :
        /\ AttestUploaded(w, vote) \/ AttestReveal(w, vote)
        /\ log' = log \cup {AttestationSubmitted(w, vote)}
  BY DEF LogAttest, Emit
<1>2. vote \in Nat BY RoundAssumption
<1>3. TypeOK BY BookTypes
<1>4. Idle BY <1>1, <1>2, MoneyAttestUploaded, MoneyAttestReveal
<1>5. UNCHANGED <<root, pages>> BY <1>1 DEF AttestUploaded, AttestReveal
<1>6. ~participant[w].attested_uploaded BY <1>1 DEF AttestUploaded, AttestReveal, MayAttest
<1>7. \E included \in BOOLEAN : participant' = [participant EXCEPT
        ![w] = [VoteAndAttest(participant[w], vote) EXCEPT !.reveal_included = included]]
  <2>1. [VoteAndAttest(participant[w], vote) EXCEPT !.reveal_included = FALSE]
          = VoteAndAttest(participant[w], vote)
    BY <1>3 DEF TypeOK, ParticipantAccount, VoteAndAttest
  <2>2. CASE AttestUploaded(w, vote) BY <2>1, <2>2 DEF AttestUploaded
  <2>3. CASE AttestReveal(w, vote) BY <2>3 DEF AttestReveal
  <2> QED BY <1>1, <2>2, <2>3
<1>8. /\ participant'[w].attested_uploaded = TRUE /\ participant'[w].voted_winners = vote
      /\ \A v \in Wallet \ {w} : participant'[v] = participant[v]
  <2>1. PICK included \in BOOLEAN : participant' = [participant EXCEPT
          ![w] = [VoteAndAttest(participant[w], vote) EXCEPT !.reveal_included = included]]
    BY <1>7
  <2>2. /\ participant'[w].attested_uploaded = TRUE
        /\ participant'[w].voted_winners = vote
    BY <1>2, <1>3, <2>1, AttestedAccount
  <2> QED BY <1>3, <2>1, <2>2 DEF TypeOK
<1>9. SameWindow
  <2>1. CASE AttestUploaded(w, vote)
    <3>1. PICK attested, start :
            lottery' = [lottery EXCEPT !.attested_count        = attested,
                                       !.settlement_start_unix = start]
      BY <2>1 DEF AttestUploaded
    <3> QED BY <1>3, <3>1 DEF SameWindow, TypeOK, LotteryAccount
  <2>2. CASE AttestReveal(w, vote)
    <3>1. PICK attested, uploaded, chosen, start, complete, digest :
            lottery' = [lottery EXCEPT
              !.attested_count             = attested,
              !.provider_uploaded_count    = uploaded,
              !.poc_aggregate_hash         = digest,
              !.selected_number_of_winners = chosen,
              !.settlement_start_unix      = start,
              !.uploads_complete           = complete]
      BY <2>2 DEF AttestReveal
    <3> QED BY <1>3, <3>1 DEF SameWindow, TypeOK, LotteryAccount
  <2> QED BY <1>1, <2>1, <2>2
<1>10. AttestationSubmitted(w, vote).event = "AttestationSubmitted"
  BY DEF AttestationSubmitted
<1>11. Silent(AllLines \ {"AttestationSubmitted"}) BY <1>1, <1>10, OneLine
<1>12. /\ Silent({"RevealRemediationBegan"}) /\ Silent({"WinnerSelected"})
       /\ Silent(MoneyLines)
  BY <1>11 DEF Silent, AllLines, MoneyLines
<1>13. VotesTold'
  <2>1. Told("AttestationSubmitted")'
          = Told("AttestationSubmitted") \cup {AttestationSubmitted(w, vote)}
    BY <1>1, <1>10 DEF Told
  <2>2. Attested' = Attested \cup {w} /\ w \notin Attested BY <1>6, <1>8 DEF Attested
  <2>3. \A v \in Attested : participant'[v].voted_winners = participant[v].voted_winners
    BY <1>8, <2>2 DEF Attested
  <2>4. { AttestationSubmitted(v, participant'[v].voted_winners) : v \in Attested' }
          = { AttestationSubmitted(v, participant[v].voted_winners) : v \in Attested }
              \cup {AttestationSubmitted(w, vote)}
    BY <1>8, <2>2, <2>3
  <2> QED BY <2>1, <2>4 DEF VotesTold, Story, Progress
<1> QED
  BY <1>4, <1>5, <1>9, <1>12, <1>13, WindowStays, EntriesStay, AccountedKept
  DEF Story, Progress, SameEntries, EntryAt

(* The window is announced by the call that opens it, and by no other.     *)
LEMMA WindowOpens ==
  ASSUME WindowTold, Book, log' = log \cup RemediationBegun
  PROVE  /\ Silent(AllLines \ {"RevealRemediationBegan"})
         /\ SameWindow => WindowTold'
         /\ lottery.remediation_start_unix = 0 /\ lottery'.remediation_start_unix # 0
              => WindowTold'
<1>1. RemediationBegun = IF lottery.remediation_start_unix = 0
                            /\ lottery'.remediation_start_unix # 0
                         THEN {WindowOf(lottery')} ELSE {}
  BY DEF RemediationBegun, When, WindowOf
<1>2. WindowOf(lottery').event = "RevealRemediationBegan" BY DEF WindowOf
<1>3. Silent(AllLines \ {"RevealRemediationBegan"})
  <2>1. CASE RemediationBegun = {} BY <2>1, LogUnchanged
  <2>2. CASE RemediationBegun = {WindowOf(lottery')} BY <1>2, <2>2, OneLine
  <2> QED BY <1>1, <2>1, <2>2
<1>4. ASSUME SameWindow PROVE WindowTold'
  <2>1. RemediationBegun = {} BY <1>1, <1>4 DEF SameWindow
  <2>2. log' = log BY <2>1
  <2> QED BY <1>4, <2>2, WindowStays, LogUnchanged
<1>5. ASSUME lottery.remediation_start_unix = 0, lottery'.remediation_start_unix # 0
      PROVE  WindowTold'
  <2>1. log' = log \cup {WindowOf(lottery')} BY <1>1, <1>5
  <2>2. Told("RevealRemediationBegan") = {} BY <1>5 DEF WindowTold
  <2>3. Told("RevealRemediationBegan")' = {WindowOf(lottery')} BY <1>2, <2>1, <2>2 DEF Told
  <2>4. WindowOf(lottery)' = WindowOf(lottery') BY DEF WindowOf
  <2> QED BY <1>5, <2>3, <2>4 DEF WindowTold
<1> QED BY <1>3, <1>4, <1>5

(* The start of remediation, as the window sees it.                        *)
LEMMA RemediationWindowOf ==
  ASSUME Book, NEW condition \in BOOLEAN, NEW begun, begun = BeginRemediation(lottery, condition)
  PROVE  /\ begun \in LotteryAccount
         /\ \/ /\ begun.remediation_start_unix = lottery.remediation_start_unix
               /\ begun.remediation_deadline_unix = lottery.remediation_deadline_unix
            \/ lottery.remediation_start_unix = 0 /\ begun.remediation_start_unix # 0
<1>1. begun \in LotteryAccount BY BookTypes, BeginRemediationType
<1>2. now > 0 BY DEF Book, Safe, Settling, Opened
<1> QED BY <1>1, <1>2, BookTypes DEF BeginRemediation, TypeOK, LotteryAccount

(* The call that only opens remediation: one line, for the window.         *)
LEMMA StoryRemediation ==
  ASSUME Story, Book, Money, StartRemediation, log' = log \cup RemediationBegun PROVE Story'
<1>1. /\ lottery' = BeginRemediation(lottery, TRUE)
      /\ UNCHANGED <<participant, root, pages>>
  BY DEF StartRemediation
<1>2. WindowTold' /\ Silent(AllLines \ {"RevealRemediationBegan"})
  BY <1>1, RemediationWindowOf, WindowOpens DEF SameWindow, Story, Progress
<1>3. /\ Silent({"AttestationSubmitted"}) /\ Silent({"WinnerSelected"})
      /\ Silent(MoneyLines)
  BY <1>2 DEF Silent, AllLines, MoneyLines
<1> QED
  BY <1>1, <1>2, <1>3, MoneyStartRemediation, VotesStay, EntriesStay, AccountedKept
  DEF Story, Progress, SameVoters, SameEntries, EntryAt

(* An upload opens the window at most once, and says so only then.         *)
LEMMA StoryUpload == ASSUME Story, Book, Money, LogUpload PROVE Story'
<1>1. PICK byAuthority \in BOOLEAN : \E S \in SUBSET Wallet : UploadReveals(byAuthority, S)
  BY DEF LogUpload, Upload
<1>2. PICK S \in SUBSET Wallet : UploadReveals(byAuthority, S) BY <1>1
<1>3. log' = log \cup RemediationBegun BY DEF LogUpload, Emit
<1> DEFINE begun == BeginRemediation(lottery, CanRemediate(byAuthority))
<1>4. /\ participant' = [w \in Wallet |->
           IF w \in S
           THEN [participant[w] EXCEPT !.reveal_included = TRUE]
           ELSE participant[w]]
      /\ UNCHANGED <<root, pages>>
  BY <1>2 DEF UploadReveals, MayUpload
<1>5. PICK uploaded, complete, chosen, start :
        lottery' = [begun EXCEPT
          !.provider_uploaded_count    = uploaded,
          !.uploads_complete           = complete,
          !.poc_aggregate_hash         = SymDiff(begun.poc_aggregate_hash, S),
          !.selected_number_of_winners = chosen,
          !.settlement_start_unix      = start]
  BY <1>2 DEF UploadReveals, MayUpload
<1>6. /\ begun \in LotteryAccount
      /\ \/ /\ begun.remediation_start_unix = lottery.remediation_start_unix
            /\ begun.remediation_deadline_unix = lottery.remediation_deadline_unix
         \/ lottery.remediation_start_unix = 0 /\ begun.remediation_start_unix # 0
  <2>1. CanRemediate(byAuthority) \in BOOLEAN BY DEF CanRemediate
  <2> HIDE DEF begun
  <2> QED BY <2>1, RemediationWindowOf DEF begun
<1> HIDE DEF begun
<1>7. /\ lottery'.remediation_start_unix = begun.remediation_start_unix
      /\ lottery'.remediation_deadline_unix = begun.remediation_deadline_unix
  BY <1>5, <1>6 DEF LotteryAccount
<1>8. WindowTold' /\ Silent(AllLines \ {"RevealRemediationBegan"})
  BY <1>3, <1>6, <1>7, WindowOpens DEF SameWindow, Story, Progress
<1>9. /\ Silent({"AttestationSubmitted"}) /\ Silent({"WinnerSelected"})
      /\ Silent(MoneyLines)
  BY <1>8 DEF Silent, AllLines, MoneyLines
<1>10. SameVoters BY <1>4, BookTypes DEF SameVoters, TypeOK, ParticipantAccount
<1> QED
  BY <1>2, <1>4, <1>8, <1>9, <1>10, MoneyUploadReveals, VotesStay, EntriesStay, AccountedKept
  DEF Story, Progress, SameEntries, EntryAt

(***************************************************************************)
(* Finalization.                                                           *)
(***************************************************************************)
(* An aggregation chunk changes no vote.                                   *)
LEMMA AggregationVoters ==
  ASSUME Book, NEW size \in Nat, MayAggregate(size) PROVE SameVoters /\ UNCHANGED pages
<1>1. /\ participant' = [w \in Wallet |->
           IF w \in Chunk(Ledger.processed_count, size)
           THEN [participant[w] EXCEPT !.finalized = TRUE]
           ELSE participant[w]]
      /\ UNCHANGED pages
  BY DEF MayAggregate
<1> HIDE DEF MayAggregate
<1> QED BY <1>1, BookTypes DEF SameVoters, TypeOK, ParticipantAccount

(* Nor does a chunk of a selection pass.                                   *)
LEMMA ScanVoters ==
  ASSUME Book, NEW size \in Nat, MayScan(size) PROVE SameVoters
<1>1. participant' = [w \in Wallet |->
        IF w \in Hit(size)
        THEN [participant[w] EXCEPT !.selected = TRUE]
        ELSE participant[w]]
  BY DEF MayScan
<1> QED BY <1>1, BookTypes DEF SameVoters, TypeOK, ParticipantAccount

(* Aggregation chunks tell nothing, and there is nothing to tell.          *)
LEMMA StoryAggregateChunk ==
  ASSUME Story, Book, Money, NEW size \in Nat, AggregateChunk(size), log' = log
  PROVE  Story'
<1>1. MayAggregate(size) /\ root' = Aggregated(size) /\ lottery' = lottery
  BY DEF AggregateChunk
<1>2. SameVoters /\ SameWindow BY <1>1, AggregationVoters DEF SameWindow
<1>3. SameEntries
  <2>1. root'.selected_count = 0 /\ root.phase \in {"absent", "aggregating"}
    BY <1>1, AggregatedGathered
  <2>2. root.selected_count = 0 BY <2>1, EmptyBook
  <2> QED BY <2>1, <2>2 DEF SameEntries
<1>4. Silent(AllLines) BY LogUnchanged
<1> QED BY <1>2, <1>3, <1>4, MoneyAggregateChunk, StoryKept

(* Nor does the last of them.                                              *)
LEMMA StoryCloseAggregation ==
  ASSUME Story, Book, Money, NEW size \in Nat, CloseAggregation(size), log' = log
  PROVE  Story'
<1>1. MayAggregate(size) BY DEF CloseAggregation
<1>2. PICK target, seed, draw :
        /\ root' = BeginSelectionRound(
                     [Aggregated(size) EXCEPT !.target_winners = target, !.seed = seed], draw)
        /\ lottery' = [lottery EXCEPT !.selected_number_of_winners = target]
  BY DEF CloseAggregation
<1>3. SameVoters /\ SameWindow
  BY <1>1, <1>2, AggregationVoters, BookTypes DEF SameWindow, TypeOK, LotteryAccount
<1>4. SameEntries
  <2>1. /\ Aggregated(size).selected_count = 0 /\ Aggregated(size) \in FinalizationLedger
        /\ root.phase \in {"absent", "aggregating"}
    BY <1>1, AggregatedGathered
  <2>2. root'.selected_count = 0
    <3> DEFINE frozen == [Aggregated(size) EXCEPT !.target_winners = target, !.seed = seed]
    <3>1. root' = BeginSelectionRound(frozen, draw) BY <1>2
    <3>2. frozen.selected_count = 0 /\ DOMAIN frozen = DOMAIN Aggregated(size)
      BY <2>1 DEF FinalizationLedger
    <3> HIDE DEF frozen
    <3>3. "selected_count" \in DOMAIN frozen BY <2>1, <3>2 DEF FinalizationLedger
    <3> QED BY <3>1, <3>2, <3>3 DEF BeginSelectionRound
  <2>3. root.selected_count = 0 BY <2>1, EmptyBook
  <2> QED BY <2>2, <2>3 DEF SameEntries
<1>5. Silent(AllLines) BY LogUnchanged
<1> QED BY <1>3, <1>4, <1>5, MoneyCloseAggregation, StoryKept

(* A chunk in the middle of a pass tells nothing.                          *)
LEMMA StoryScanChunk ==
  ASSUME Story, Book, Money, NEW size \in Nat, ScanChunk(size), log' = log
  PROVE  Story'
<1>1. MayScan(size) /\ root' = Scanned(size) /\ UNCHANGED <<lottery, pages>> BY DEF ScanChunk
<1>2. SameVoters /\ SameWindow BY <1>1, ScanVoters DEF SameWindow
<1>3. SameLedger(Scanned(size)) BY <1>1, ScanLedger
<1>4. SameEntries BY <1>1, <1>3 DEF SameEntries, EntryAt, SameLedger
<1>5. Silent(AllLines) BY LogUnchanged
<1> QED BY <1>2, <1>4, <1>5, MoneyScanChunk, StoryKept

(* The end of a round tells the entry it appends, under its index and its  *)
(* place, and leaves the entries before it alone.                          *)
LEMMA WinnerTold ==
  ASSUME WinnersTold, Book, NEW size \in Nat, MayScan(size), AppendWinner(Scanned(size)),
         root'.selected_count = root.selected_count + 1,
         Told("WinnerSelected")'
           = Told("WinnerSelected") \cup {WinnerSelected(Scanned(size))}
  PROVE  WinnersTold'
<1> DEFINE s == Scanned(size)
           n == root.selected_count
<1>1. TypeOK /\ Aggregation /\ Booked BY BookTypes DEF Book, Books, Draws
<1>2. s.selected_count = n /\ s.target_winners = root.target_winners
  BY ScanLedger DEF SameLedger
<1> HIDE DEF s
<1>3. /\ n \in 0..MaxWinnersCap - 1
      /\ \A i \in 0..n - 1 : EntryAt(i)' = EntryAt(i)
      /\ \A i \in {n} : EntryAt(i)' = [ wallet  |-> s.pending_winner,
                                      tickets |-> s.pending_winner_tickets ]
  BY <1>1, <1>2, WinnerAppended DEF s
<1>4. n \in Nat BY <1>3
<1>5. \A i \in {n} : Selection(i)' = WinnerSelected(s)
  BY <1>2, <1>3 DEF Selection, WinnerSelected
<1>6. \A i \in 0..n - 1 : Selection(i)' = Selection(i) BY <1>3 DEF Selection
<1>7. Told("WinnerSelected")' = Told("WinnerSelected") \cup {WinnerSelected(s)} BY DEF s
<1>8. 0..root'.selected_count - 1 = (0..n - 1) \cup {n} BY <1>4
<1> HIDE DEF n
<1>9. { Selection(i)' : i \in 0..root'.selected_count - 1 }
         = { Selection(i) : i \in 0..n - 1 } \cup {WinnerSelected(s)}
  BY <1>5, <1>6, <1>8
<1> QED BY <1>7, <1>9 DEF WinnersTold, n

(* The end of a round that is not the last tells no more than that.        *)
LEMMA StoryCloseRound ==
  ASSUME Story, Book, Money, NEW size \in Nat, CloseRound(size),
         log' = log \cup {WinnerSelected(Scanned(size))}
  PROVE  Story'
<1> DEFINE s      == Scanned(size)
           ledger == RecordWinner(s)
<1>1. /\ MayScan(size) /\ WinnerFound(s) /\ AppendWinner(s) /\ lottery' = lottery
      /\ \E draw \in 0..RemainingTickets(ledger) - 1 : root' = BeginSelectionRound(ledger, draw)
  BY DEF CloseRound
<1>2. PICK draw : root' = BeginSelectionRound(ledger, draw) BY <1>1
<1>3. SameLedger(s) /\ Sound(s) /\ Sound(ledger)
  BY <1>1, MayScanTypes, ScannedWinner, ScanLedger DEF Book, Safe
<1> HIDE DEF s
<1>4. ledger.selected_count = root.selected_count + 1
  BY <1>3, BookTypes, RecordWinnerFields
<1> HIDE DEF ledger
<1>5. root'.selected_count = root.selected_count + 1
  BY <1>2, <1>3, <1>4 DEF BeginSelectionRound, Sound, FinalizationLedger
<1>6. WinnerSelected(s).event = "WinnerSelected" BY DEF WinnerSelected
<1>7. WinnersTold'
  <2>1. Told("WinnerSelected")' = Told("WinnerSelected") \cup {WinnerSelected(s)}
    BY <1>6 DEF s, Told
  <2> QED BY <1>1, <1>5, <2>1, WinnerTold DEF s, Story, Progress
<1>8. Silent(AllLines \ {"WinnerSelected"}) BY <1>6, OneLine DEF s
<1>9. /\ Silent({"AttestationSubmitted"}) /\ Silent({"RevealRemediationBegan"})
      /\ Silent(MoneyLines)
  BY <1>8 DEF Silent, AllLines, MoneyLines
<1>10. SameVoters /\ SameWindow BY <1>1, ScanVoters DEF SameWindow
<1> QED
  BY <1>7, <1>9, <1>10, MoneyCloseRound, VotesStay, WindowStays, AccountedKept
  DEF Story, Progress

(* The end of the last round announces the completed winner set.           *)
LEMMA StoryCompleteFinalization ==
  ASSUME Story, Book, Money, NEW size \in Nat, CompleteFinalization(size),
         log' = log \cup {WinnerSelected(Scanned(size)), WinnersFinalized}
  PROVE  Story'
<1> DEFINE s       == Scanned(size)
           ledger  == RecordWinner(s)
           winners == ledger.selected_count
           payout  == (WinnersPool(lottery.total_funds, ServiceChargeBps) \div winners) * winners
           bitmap  == { i \in lottery.paid_winners_bitmap : i >= 8 * ((winners + 7) \div 8) }
           start   == IF lottery.settlement_start_unix = 0
                      THEN now ELSE lottery.settlement_start_unix
<1>1. /\ MayScan(size) /\ MayFinalize /\ WinnerFound(s) /\ AppendWinner(s)
      /\ root' = [ledger EXCEPT !.phase = "completed"]
      /\ lottery' = [lottery EXCEPT !.winners_count         = winners,
                                    !.total_payout          = payout,
                                    !.paid_winners_bitmap   = bitmap,
                                    !.settlement_start_unix = start]
  BY DEF CompleteFinalization, MayScan
<1>2. SameLedger(s) /\ Sound(s) /\ Sound(ledger)
  BY <1>1, MayScanTypes, ScannedWinner, ScanLedger DEF Book, Safe
<1>3. TypeOK BY BookTypes
<1> HIDE DEF s
<1>4. winners = root.selected_count + 1 BY <1>2, <1>3, RecordWinnerFields
<1> HIDE DEF ledger
<1>5. root'.selected_count = root.selected_count + 1
  BY <1>1, <1>2, <1>4 DEF Sound, FinalizationLedger
<1>6. winners # 0 BY <1>3, <1>4 DEF TypeOK, FinalizationLedger
<1>7. /\ lottery.winners_count = 0
      /\ \A w \in Wallet :
           /\ participant'[w].refund_claimed <=> participant[w].refund_claimed
           /\ participant'[w].tickets_bought = participant[w].tickets_bought
  BY <1>1, ScannedAccounts
<1>8. lottery.paid_winners_bitmap = {} /\ bitmap = {} BY <1>7, NoWinnersYet
<1> HIDE DEF winners, payout, bitmap, start
<1>9. /\ lottery'.winners_count = winners /\ lottery'.paid_winners_bitmap = {}
      /\ lottery'.total_funds = lottery.total_funds
      /\ lottery'.settlement_complete = lottery.settlement_complete
      /\ lottery'.settled = lottery.settled
      /\ SameWindow
  BY <1>1, <1>3, <1>8 DEF TypeOK, LotteryAccount, SameWindow
<1>10. ~lottery.settled /\ ~lottery.settlement_complete BY <1>1 DEF MayFinalize, FinalizationOpen
<1>11. vault # 0 /\ vault' = vault
  BY <1>1, <1>7, <1>10, ScannedAccounts DEF Money, RefundBook
<1>12. /\ WinnersFinalized = FinalWinners' /\ WinnersFinalized.event = "WinnersFinalized"
       /\ WinnerSelected(s).event = "WinnerSelected"
  BY DEF WinnersFinalized, FinalWinners, Share, WinnerSelected
<1>13. /\ Told("WinnerSelected")' = Told("WinnerSelected") \cup {WinnerSelected(s)}
       /\ Told("WinnersFinalized")' = Told("WinnersFinalized") \cup {FinalWinners'}
       /\ \A name : name \notin {"WinnerSelected", "WinnersFinalized"} =>
            Told(name)' = Told(name)
  BY <1>12 DEF Told, s
<1>14. WinnersTold' BY <1>1, <1>5, <1>13, WinnerTold DEF s, Story, Progress
<1>15. VotesTold' /\ WindowTold'
  <2>1. SameVoters BY <1>1, ScanVoters
  <2>2. Silent({"AttestationSubmitted"}) /\ Silent({"RevealRemediationBegan"})
    BY <1>13 DEF Silent
  <2> QED BY <1>9, <2>1, <2>2, VotesStay, WindowStays DEF Story, Progress
<1>16. FinalTold'
  <2>1. Told("WinnersFinalized") = {} BY <1>7 DEF Story, Accounted, FinalTold
  <2> QED BY <1>6, <1>9, <1>13, <2>1 DEF FinalTold
<1>17. SalesTold' /\ RefundsTold'
  <2>1. Silent({"TicketsPurchased"}) /\ Silent({"RefundClaimed"}) BY <1>13 DEF Silent
  <2> QED BY <1>7, <1>9, <2>1, SalesStay, RefundsStay DEF Story, Accounted
<1>18. SharesTold' BY <1>8, <1>9, <1>13 DEF Story, Accounted, SharesTold
<1>19. EndsTold'
  BY <1>9, <1>10, <1>13 DEF Story, Accounted, EndsTold, RefundPath
<1>20. FeeTold' BY <1>9, <1>10, <1>13 DEF Story, Accounted, FeeTold
<1>21. RentTold' BY <1>9, <1>10, <1>11, <1>13 DEF Story, Accounted, RentTold
<1> QED
  BY <1>14, <1>15, <1>16, <1>17, <1>18, <1>19, <1>20, <1>21 DEF Story, Progress, Accounted

(* Whatever FinalizeWinners does, the log tells it.                        *)
LEMMA StoryFinalizeWinners ==
  ASSUME Story, Book, Money, LogFinalizeWinners PROVE Story'
<1>1. Sizes \subseteq Nat BY DEF Sizes
<1>2. CASE StartRemediation /\ Emit(RemediationBegun)
  BY <1>2, StoryRemediation DEF Emit
<1>3. ASSUME NEW size \in Sizes,
             AggregateChunk(size) \/ CloseAggregation(size) \/ ScanChunk(size), log' = log
      PROVE  Story'
  BY <1>1, <1>3, StoryAggregateChunk, StoryCloseAggregation, StoryScanChunk
<1>4. ASSUME NEW size \in Sizes, CloseRound(size), Emit({WinnerSelected(Scanned(size))})
      PROVE  Story'
  BY <1>1, <1>4, StoryCloseRound DEF Emit
<1>5. ASSUME NEW size \in Sizes, CompleteFinalization(size),
             Emit({WinnerSelected(Scanned(size)), WinnersFinalized})
      PROVE  Story'
  BY <1>1, <1>5, StoryCompleteFinalization DEF Emit
<1> QED BY <1>2, <1>3, <1>4, <1>5 DEF LogFinalizeWinners

(***************************************************************************)
(* Rounds without winners.                                                 *)
(***************************************************************************)
(* A round that ends without winners says so, and nothing else about it.   *)
LEMMA StoryFinalizeNoAttesters ==
  ASSUME Story, Book, Money, LogFinalizeNoAttesters PROVE Story'
<1> DEFINE issued == [ event                   |-> "RefundsIssued",
                       recipient_count         |-> lottery.participants_count,
                       total_refunded_lamports |-> lottery.total_funds ]
           ended  == [ event         |-> "LotterySettled",
                       total_tickets |-> lottery.total_tickets,
                       total_funds   |-> lottery.total_funds ]
<1>1. FinalizeNoAttesters /\ log' = log \cup {issued, ended}
  BY DEF LogFinalizeNoAttesters, Emit
<1>2. issued.event = "RefundsIssued" /\ ended.event = "LotterySettled" OBVIOUS
<1> HIDE DEF issued, ended
<1>3. TypeOK BY BookTypes
<1>4. /\ lottery' = [lottery EXCEPT !.settled = TRUE]
      /\ lottery.attested_count = 0 \/ MissingAttestedReveals
      /\ UNCHANGED <<participant, root, pages>>
  BY <1>1 DEF FinalizeNoAttesters, RemediationExpired
<1>5. lottery.winners_count = 0
  <2>1. root.phase = "absent" BY <1>4 DEF Book, Safe, Settling, Decided
  <2> QED BY <2>1, EmptyBook
<1>6. /\ lottery'.settled /\ lottery'.winners_count = 0
      /\ lottery'.settlement_complete = lottery.settlement_complete
      /\ SameWindow
  BY <1>3, <1>4, <1>5 DEF TypeOK, LotteryAccount, SameWindow
<1>7. SameMoney BY <1>1, MoneyFinalizeNoAttesters
<1>8. \A name : name \notin {"RefundsIssued", "LotterySettled"} => Told(name)' = Told(name)
  BY <1>1, <1>2 DEF Told
<1>9. /\ Silent({"AttestationSubmitted"}) /\ Silent({"RevealRemediationBegan"})
      /\ Silent({"WinnerSelected"})
      /\ Silent(MoneyLines \ {"LotterySettled", "RefundsIssued"})
  BY <1>8 DEF Silent
<1>10. Progress'
  BY <1>4, <1>6, <1>9, VotesStay, WindowStays, EntriesStay
  DEF Story, Progress, SameVoters, SameEntries, EntryAt
<1>11. issued \in Told("RefundsIssued")' /\ ended \in Told("LotterySettled")'
  BY <1>1, <1>2 DEF Told
<1>12. EndsTold'
  BY <1>6, <1>8, <1>11 DEF Story, Accounted, EndsTold, RefundPath
<1> QED BY <1>7, <1>9, <1>10, <1>12, LinesStay DEF Story, Accounted

(* A refund taken adds its line, once: it cannot be taken again.           *)
LEMMA StoryClaimRefund ==
  ASSUME Story, Book, Money, NEW w \in Wallet, LogClaimRefund(w) PROVE Story'
<1> DEFINE batches == lottery.settlement_batches_completed + 1
<1>1. ClaimRefund(w) /\ log' = log \cup {RefundLine(w)}
  BY DEF LogClaimRefund, Emit, RefundLine
<1>2. /\ HasTickets(w) /\ RefundsDue /\ ~participant[w].refund_claimed
      /\ participant' = [participant EXCEPT ![w].refund_claimed = TRUE]
      /\ lottery' = [lottery EXCEPT !.settlement_batches_completed = batches]
      /\ UNCHANGED <<root, pages>>
  BY <1>1 DEF ClaimRefund, RefundOwed
<1>3. TypeOK BY BookTypes
<1>4. /\ lottery.winners_count = 0
      /\ w \in Buyers /\ w \notin RefundTaken
  BY <1>2 DEF RefundsDue, HasTickets, Exists, Buyers, RefundTaken
<1>5. vault # 0 /\ ~lottery.settlement_complete BY <1>4 DEF Money, RefundBook
<1> HIDE DEF batches
<1>6. /\ lottery'.total_funds = lottery.total_funds
      /\ lottery'.winners_count = 0
      /\ lottery'.paid_winners_bitmap = lottery.paid_winners_bitmap
      /\ lottery'.settlement_complete = lottery.settlement_complete
      /\ lottery'.settled = lottery.settled
      /\ SameWindow
  BY <1>2, <1>3, <1>4 DEF TypeOK, LotteryAccount, SameWindow
<1>7. /\ participant'[w].refund_claimed
      /\ participant'[w].tickets_bought = participant[w].tickets_bought
      /\ participant'[w].attested_uploaded = participant[w].attested_uploaded
      /\ participant'[w].voted_winners = participant[w].voted_winners
      /\ \A v \in Wallet \ {w} : participant'[v] = participant[v]
  BY <1>2, <1>3 DEF TypeOK, ParticipantAccount
<1>8. vault' # 0
  <2>1. vault' >= VaultRent BY <1>1, RefundLeavesRent
  <2>2. VaultRent \in Nat \ {0} BY RoundAssumption
  <2> QED BY <2>1, <2>2
<1>9. RefundLine(w).event = "RefundClaimed" BY DEF RefundLine
<1>10. /\ Told("RefundClaimed")' = Told("RefundClaimed") \cup {RefundLine(w)}
       /\ \A name : name # "RefundClaimed" => Told(name)' = Told(name)
  BY <1>1, <1>9 DEF Told
<1>11. Progress'
  <2>1. /\ Silent({"AttestationSubmitted"}) /\ Silent({"RevealRemediationBegan"})
        /\ Silent({"WinnerSelected"})
    BY <1>10 DEF Silent
  <2>2. SameVoters BY <1>7 DEF SameVoters
  <2> QED BY <1>2, <1>6, <2>1, <2>2, VotesStay, WindowStays, EntriesStay
          DEF Story, Progress, SameEntries, EntryAt
<1>12. RefundsTold'
  <2>1. RefundTaken' = RefundTaken \cup {w} BY <1>7 DEF RefundTaken
  <2>2. \A v \in RefundTaken \cup {w} : RefundLine(v)' = RefundLine(v)
    BY <1>4, <1>7 DEF RefundLine, RefundTaken
  <2>3. { RefundLine(v)' : v \in RefundTaken' }
          = { RefundLine(v) : v \in RefundTaken } \cup {RefundLine(w)}
    BY <2>1, <2>2
  <2> QED BY <1>10, <2>3 DEF RefundsTold, Story, Accounted
<1>13. SalesTold'
  <2>1. Silent({"TicketsPurchased"}) BY <1>10 DEF Silent
  <2>2. \A v \in Wallet : participant'[v].tickets_bought = participant[v].tickets_bought
    BY <1>7
  <2> QED BY <1>6, <2>1, <2>2, SalesStay DEF Story, Accounted
<1>14. FinalTold' BY <1>4, <1>6, <1>10 DEF FinalTold, Story, Accounted
<1>15. SharesTold'
  <2>1. lottery.paid_winners_bitmap = {} BY <1>4, NoWinnersYet
  <2> QED BY <1>6, <1>10, <2>1 DEF SharesTold, Story, Accounted
<1>16. EndsTold' BY <1>4, <1>6, <1>10 DEF EndsTold, RefundPath, Story, Accounted
<1>17. FeeTold' BY <1>5, <1>6, <1>10 DEF FeeTold, Story, Accounted
<1>18. RentTold' BY <1>5, <1>6, <1>8, <1>10 DEF RentTold, Story, Accounted
<1> QED BY <1>11, <1>12, <1>13, <1>14, <1>15, <1>16, <1>17, <1>18 DEF Story, Accounted

(* The last lamports of a refunded round are the rent, told as such.       *)
LEMMA StoryCloseRefundVault ==
  ASSUME Story, Book, Money, LogCloseRefundVault PROVE Story'
<1> DEFINE line == [ event                 |-> "RefundVaultClosed",
                     refunds_claimed_count |-> lottery.settlement_batches_completed,
                     vault_rent_reclaimed  |-> vault ]
<1>1. CloseRefundVault /\ log' = log \cup {line} BY DEF LogCloseRefundVault, Emit
<1>2. line.event = "RefundVaultClosed" /\ line.vault_rent_reclaimed = vault OBVIOUS
<1> HIDE DEF line
<1>3. /\ vault # 0 /\ vault' = 0
      /\ received' = [received EXCEPT ![Authority] = received[Authority] + vault]
      /\ UNCHANGED <<lottery, participant, root, pages>>
  BY <1>1 DEF CloseRefundVault, Pay
<1>4. /\ vault = VaultRent /\ received[Authority] = 0 /\ ~lottery.settlement_complete
      /\ lottery.winners_count = 0
  BY <1>1, RefundsAllPaid
<1>5. received'[Authority] = vault
  BY <1>3, <1>4, BookTypes, RecipientsFinite DEF TypeOK
<1>6. /\ Told("RefundVaultClosed")' = Told("RefundVaultClosed") \cup {line}
      /\ \A name : name # "RefundVaultClosed" => Told(name)' = Told(name)
  BY <1>1, <1>2 DEF Told
<1>7. Progress'
  BY <1>3, <1>6
  DEF Story, Progress, VotesTold, WindowTold, WinnersTold, Attested, WindowOf, Selection, EntryAt
<1>8. RentTold'
  <2>1. Told("RefundVaultClosed")' = {line}
    BY <1>3, <1>6 DEF Story, Accounted, RentTold
  <2>2. line.vault_rent_reclaimed = received'[Authority] BY <1>2, <1>5
  <2> QED BY <1>3, <1>4, <2>1, <2>2 DEF RentTold
<1>9. SalesTold' /\ RefundsTold'
  <2>1. Silent({"TicketsPurchased"}) /\ Silent({"RefundClaimed"}) BY <1>6 DEF Silent
  <2> QED BY <1>3, <2>1, SalesStay, RefundsStay DEF Story, Accounted
<1>10. FinalTold' BY <1>3, <1>4, <1>6 DEF Story, Accounted, FinalTold
<1>11. SharesTold' BY <1>3, <1>6 DEF Story, Accounted, SharesTold, WinnerPaid, WinnerAt
<1>12. EndsTold' BY <1>3, <1>6 DEF Story, Accounted, EndsTold, RefundPath
<1>13. FeeTold' BY <1>3, <1>4, <1>6 DEF Story, Accounted, FeeTold
<1> QED BY <1>7, <1>8, <1>9, <1>10, <1>11, <1>12, <1>13 DEF Story, Accounted

(***************************************************************************)
(* Purchases.                                                              *)
(***************************************************************************)
(* What a purchase does to the account of its buyer and to the funds.      *)
LEMMA Purchase ==
  ASSUME Book, Money, NEW w \in Wallet, NEW count \in Nat \ {0}, BuyTickets(w, count)
  PROVE  /\ participant'[w].tickets_bought = participant[w].tickets_bought + count
         /\ participant[w].tickets_bought \in Nat
         /\ \A v \in Wallet \ {w} : participant'[v] = participant[v]
         /\ lottery'.total_funds = lottery.total_funds + TicketPrice * count
         /\ lottery'.settled = lottery.settled
         /\ lottery'.settlement_complete = lottery.settlement_complete
         /\ lottery'.winners_count = lottery.winners_count
         /\ lottery'.paid_winners_bitmap = lottery.paid_winners_bitmap
         /\ SameWindow /\ UNCHANGED <<root, pages>>
         /\ ~lottery.settled /\ lottery.winners_count = 0
         /\ vault # 0 /\ vault' # 0
         /\ Attested = {} /\ Attested' = {} /\ RefundTaken = {} /\ RefundTaken' = {}
<1> DEFINE account == IF ~Exists(w)
                      THEN NewParticipant("open", lottery.participants_count)
                      ELSE participant[w]
           tickets == account.tickets_bought + count
           buyers  == lottery.participants_count + (IF ~Exists(w) THEN 1 ELSE 0)
           total   == lottery.total_tickets + count
           cost    == TicketPrice * count
           funds   == lottery.total_funds + cost
<1>1. /\ ~UploadStarted /\ ~lottery.settled
      /\ participant' = [participant EXCEPT
           ![w] = [account EXCEPT !.tickets_bought = tickets]]
      /\ lottery' = [lottery EXCEPT !.participants_count = buyers,
                                    !.total_tickets      = total,
                                    !.total_funds        = funds]
      /\ vault' = vault + cost
      /\ UNCHANGED <<root, pages>>
  BY DEF BuyTickets, InBuyWindow
<1>2. TypeOK /\ Enrolled /\ StaysOpen BY BookTypes DEF Book, Books
<1>3. root.phase = "absent" /\ lottery.winners_count = 0 /\ Attested = {}
  <2>1. root.phase = "absent" /\ Attested = {}
    BY <1>1, <1>2, NothingBeforeUpload DEF Book, Safe
  <2> QED BY <2>1, EmptyBook
<1>4. RefundTaken = {} BY <1>1, NoRefundYet DEF Book, Safe, RefundTaken
<1>5. /\ account \in ParticipantAccount
      /\ account.tickets_bought = participant[w].tickets_bought
      /\ ~account.attested_uploaded /\ ~account.refund_claimed
  <2>1. CASE Exists(w)
    <3>1. account = participant[w] BY <2>1
    <3> QED BY <1>2, <1>3, <1>4, <3>1 DEF TypeOK, Attested, RefundTaken
  <2>2. CASE ~Exists(w)
    <3>1. participant[w].tickets_bought = 0
      <4>1. w \notin Buyers
        BY <1>1, <1>2, <2>2 DEF StaysOpen, Exists, Buyers, TypeOK, ParticipantAccount
      <4>2. participant[w].tickets_bought \in Nat
        BY <1>2, RoundAssumption DEF TypeOK, ParticipantAccount, U64
      <4> QED BY <1>2, <4>1, <4>2 DEF Enrolled
    <3>2. account = NewParticipant("open", lottery.participants_count) BY <2>2
    <3> HIDE DEF account
    <3> QED BY <1>2, <3>1, <3>2, RoundAssumption
            DEF TypeOK, NewParticipant, ParticipantAccount, LotteryAccount, U64
  <2> QED BY <2>1, <2>2
<1> HIDE DEF account, buyers, total
<1>6. cost \in Nat
  <2>1. TicketPrice \in Nat BY RoundAssumption
  <2> QED BY <2>1
<1>7. /\ vault \in Nat /\ vault # 0 /\ vault' # 0
  <2>1. vault \in Nat /\ vault # 0 BY <1>1, <1>3, ReceivedType DEF Money, RefundBook
  <2> HIDE DEF cost
  <2> QED BY <1>1, <1>6, <2>1
<1>8. participant[w].tickets_bought \in Nat
  BY <1>2, RoundAssumption DEF TypeOK, ParticipantAccount, U64
<1>9. tickets = participant[w].tickets_bought + count BY <1>5
<1> HIDE DEF tickets, cost, funds
<1>10. /\ participant'[w].tickets_bought = tickets
       /\ ~participant'[w].attested_uploaded /\ ~participant'[w].refund_claimed
       /\ \A v \in Wallet \ {w} : participant'[v] = participant[v]
  BY <1>1, <1>2, <1>5 DEF TypeOK, ParticipantAccount
<1>11. Attested' = {} /\ RefundTaken' = {}
  BY <1>3, <1>4, <1>10 DEF Attested, RefundTaken
<1>12. /\ lottery'.total_funds = funds
       /\ lottery'.settled = lottery.settled
       /\ lottery'.settlement_complete = lottery.settlement_complete
       /\ lottery'.winners_count = lottery.winners_count
       /\ lottery'.paid_winners_bitmap = lottery.paid_winners_bitmap
       /\ SameWindow
  BY <1>1, <1>2 DEF TypeOK, LotteryAccount, SameWindow
<1> QED BY <1>1, <1>3, <1>4, <1>7, <1>8, <1>9, <1>10, <1>11, <1>12 DEF cost, funds

(* The sum of the purchases, with one more.                                *)
LEMMA PurchaseAdded ==
  ASSUME NEW P, IsFiniteSet(P), \A x \in P : x.amount_paid \in Nat,
         NEW e, e \notin P, e.amount_paid \in Nat
  PROVE  SumOver([x \in P \cup {e} |-> x.amount_paid], P \cup {e})
           = SumOver([x \in P |-> x.amount_paid], P) + e.amount_paid
<1> DEFINE f == [x \in P \cup {e} |-> x.amount_paid]
           g == [x \in P |-> x.amount_paid]
<1>1. \A x \in P : f[x] = g[x] /\ f[x] \in Nat OBVIOUS
<1>2. f[e] = e.amount_paid OBVIOUS
<1> HIDE DEF f, g
<1>3. SumOver(f, P \cup {e}) = SumOver(f, P) + f[e] BY <1>1, <1>2, SumAdd
<1>4. SumOver(f, P) = SumOver(g, P) BY <1>1, SumSame
<1> QED BY <1>2, <1>3, <1>4 DEF f, g

(* A purchase adds its line: it is no line told before, for the running    *)
(* total of its buyer was never as high.                                   *)
LEMMA StoryBuy ==
  ASSUME Story, Book, Money, NEW w \in Wallet, LogBuy(w) PROVE Story'
<1>1. PICK count \in BuySizes :
        BuyTickets(w, count) /\ log' = log \cup {TicketsPurchased(w, count)}
  BY DEF LogBuy, Emit
<1>2. count \in Nat \ {0} BY InputAssumption
<1> DEFINE e == TicketsPurchased(w, count)
           old == participant[w].tickets_bought
<1>3. /\ participant'[w].tickets_bought = old + count /\ old \in Nat
      /\ \A v \in Wallet \ {w} : participant'[v] = participant[v]
      /\ lottery'.total_funds = lottery.total_funds + TicketPrice * count
      /\ lottery'.settled = lottery.settled
      /\ lottery'.settlement_complete = lottery.settlement_complete
      /\ lottery'.winners_count = lottery.winners_count
      /\ lottery'.paid_winners_bitmap = lottery.paid_winners_bitmap
      /\ SameWindow /\ UNCHANGED <<root, pages>>
      /\ ~lottery.settled /\ lottery.winners_count = 0
      /\ vault # 0 /\ vault' # 0
      /\ Attested = {} /\ Attested' = {} /\ RefundTaken = {} /\ RefundTaken' = {}
  BY <1>1, <1>2, Purchase
<1>4. ~lottery.settlement_complete BY <1>3 DEF Money, RefundBook
<1>5. /\ e.event = "TicketsPurchased" /\ e.buyer = w
      /\ e.total_tickets_for_participant = old + count
      /\ e.amount_paid = TicketPrice * count /\ e.amount_paid \in Nat
  <2>1. TicketPrice * count \in Nat
    <3>1. TicketPrice \in Nat BY RoundAssumption
    <3> QED BY <1>2, <3>1
  <2> QED BY <1>3, <2>1 DEF TicketsPurchased
<1> HIDE DEF e
<1>6. /\ Purchases' = Purchases \cup {e}
      /\ \A name : name # "TicketsPurchased" => Told(name)' = Told(name)
  BY <1>1, <1>5 DEF Purchases, Told, e
<1>7. VotesTold'
  <2>1. Told("AttestationSubmitted")' = {} BY <1>3, <1>6 DEF Story, Progress, VotesTold
  <2> QED BY <1>3, <2>1 DEF VotesTold
<1>8. WindowTold' /\ WinnersTold'
  <2>1. Silent({"RevealRemediationBegan"}) /\ Silent({"WinnerSelected"}) BY <1>6 DEF Silent
  <2> QED BY <1>3, <2>1, WindowStays, EntriesStay DEF Story, Progress, SameEntries, EntryAt
<1>9. SalesTold'
  <2>1. /\ IsFiniteSet(Purchases)
        /\ \A x \in Purchases :
             /\ x.buyer \in Wallet /\ x.amount_paid \in Nat
             /\ x.total_tickets_for_participant \in 1..participant[x.buyer].tickets_bought
    BY DEF Story, Accounted, SalesTold
  <2>2. e \notin Purchases BY <1>2, <1>3, <1>5, <2>1
  <2>3. IsFiniteSet(Purchases') BY <1>6, <2>1, FS_AddElement
  <2>4. \A x \in Purchases' :
          /\ x.buyer \in Wallet /\ x.amount_paid \in Nat
          /\ x.total_tickets_for_participant \in 1..participant'[x.buyer].tickets_bought
    <3>1. /\ e.buyer \in Wallet /\ e.amount_paid \in Nat
          /\ e.total_tickets_for_participant \in 1..participant'[e.buyer].tickets_bought
      BY <1>2, <1>3, <1>5
    <3>2. ASSUME NEW x \in Purchases
          PROVE  /\ x.buyer \in Wallet /\ x.amount_paid \in Nat
                 /\ x.total_tickets_for_participant \in 1..participant'[x.buyer].tickets_bought
      <4>1. CASE x.buyer = w BY <1>2, <1>3, <2>1, <4>1
      <4>2. CASE x.buyer # w BY <1>3, <2>1, <4>2
      <4> QED BY <4>1, <4>2
    <3> QED BY <1>6, <3>1, <3>2
  <2>5. \A v \in Wallet : participant'[v].tickets_bought > 0 =>
          \E x \in Purchases' :
            /\ x.buyer = v
            /\ x.total_tickets_for_participant = participant'[v].tickets_bought
    <3>1. \E x \in Purchases' :
            /\ x.buyer = w
            /\ x.total_tickets_for_participant = participant'[w].tickets_bought
      BY <1>3, <1>5, <1>6
    <3>2. ASSUME NEW v \in Wallet \ {w}, participant'[v].tickets_bought > 0
          PROVE  \E x \in Purchases' :
                   /\ x.buyer = v
                   /\ x.total_tickets_for_participant = participant'[v].tickets_bought
      BY <1>3, <1>6, <3>2 DEF Story, Accounted, SalesTold
    <3> QED BY <3>1, <3>2
  <2>6. lottery'.total_funds = SumOver([x \in Purchases' |-> x.amount_paid], Purchases')
    <3>1. SumOver([x \in Purchases \cup {e} |-> x.amount_paid], Purchases \cup {e})
            = SumOver([x \in Purchases |-> x.amount_paid], Purchases) + e.amount_paid
      BY <1>5, <2>1, <2>2, PurchaseAdded
    <3>2. lottery.total_funds = SumOver([x \in Purchases |-> x.amount_paid], Purchases)
      BY DEF Story, Accounted, SalesTold
    <3>3. SumOver([x \in Purchases' |-> x.amount_paid], Purchases')
            = SumOver([x \in Purchases \cup {e} |-> x.amount_paid], Purchases \cup {e})
      BY <1>6, Zenon
    <3> QED BY <1>3, <1>5, <3>1, <3>2, <3>3
  <2> QED BY <2>3, <2>4, <2>5, <2>6 DEF SalesTold
<1>10. FinalTold' BY <1>3, <1>6 DEF Story, Accounted, FinalTold
<1>11. SharesTold'
  <2>1. lottery.paid_winners_bitmap = {} BY <1>3, NoWinnersYet
  <2> QED BY <1>3, <1>6, <2>1 DEF Story, Accounted, SharesTold
<1>12. RefundsTold' BY <1>3, <1>6 DEF Story, Accounted, RefundsTold
<1>13. EndsTold' BY <1>3, <1>4, <1>6 DEF Story, Accounted, EndsTold, RefundPath
<1>14. FeeTold' BY <1>3, <1>4, <1>6 DEF Story, Accounted, FeeTold
<1>15. RentTold' BY <1>3, <1>4, <1>6 DEF Story, Accounted, RentTold
<1> QED BY <1>7, <1>8, <1>9, <1>10, <1>11, <1>12, <1>13, <1>14, <1>15
        DEF Story, Progress, Accounted

(***************************************************************************)
(* Payout batches.                                                         *)
(***************************************************************************)
(* What the batch that pays the last share says beside it: that all are    *)
(* paid, and what the authority got if there was a fee or a remainder.     *)
AllPaidLine ==
  [ event         |-> "PayoutsComplete",
    total_winners |-> lottery.winners_count,
    total_paid    |-> lottery.total_payout ]

LastFee == ServiceFee(lottery.total_funds, ServiceChargeBps)

LastRest == AtLeast(lottery.total_funds - lottery.total_payout - LastFee, 0)

(* What the authority is told to have got, given what it has got so far.   *)
FeeLine(had) ==
  [ event                |-> "ServiceFeePaid",
    service_fee          |-> LastFee,
    remainder            |-> LastRest,
    vault_rent_reclaimed |-> had - LastFee - LastRest ]

(* Completion in those terms.                                              *)
LEMMA CompletionLines ==
  /\ ~lottery'.settlement_complete => Completion = {}
  /\ lottery'.settlement_complete =>
       Completion = {AllPaidLine} \cup IF LastFee > 0 \/ LastRest > 0
                                       THEN {FeeLine(received'[Authority])} ELSE {}
  BY DEF Completion, When, AllPaidLine, LastFee, LastRest, FeeLine

(* There is a fee or a remainder unless the shares are all of the funds.   *)
LEMMA FeeOrRest ==
  ASSUME Book, Money, lottery.winners_count # 0
  PROVE  /\ LastFee \in Int /\ LastRest \in Int
         /\ lottery.total_funds # lottery.total_payout => LastFee > 0 \/ LastRest > 0
<1>1. LastFee \in 0..lottery.total_funds BY BookTypes, ServiceFeeType DEF LastFee
<1>2. /\ lottery.total_funds \in Nat /\ lottery.total_payout \in Nat
      /\ lottery.total_payout <= lottery.total_funds
  BY ReceivedType DEF Money, ShareBook
<1> QED BY <1>1, <1>2 DEF LastRest, AtLeast

(* A batch adds one line for each entry it pays, which is not paid again;  *)
(* the batch that pays the last entry ends the round.                      *)
LEMMA StorySettle == ASSUME Story, Book, Money, LogSettle PROVE Story'
<1>1. PICK batch \in SUBSET (0..lottery.winners_count - 1) :
        /\ SettlePayoutBatch(batch)
        /\ log' = log \cup { WinnerPaid(i) : i \in batch \ lottery.paid_winners_bitmap }
                      \cup Completion
  BY DEF LogSettle, Emit
<1> DEFINE n         == lottery.winners_count
           Bitmap(S) == lottery.paid_winners_bitmap \cup S
           Left(S)   == vault - Share * Cardinality(S)
           Paid(S)   == [r \in Recipient |-> received[r] + Payment(S)[r]]
<1>2. PICK due, page, batches :
        /\ due = batch \ lottery.paid_winners_bitmap
        /\ \A i \in batch : PageOf(i) = page
        /\ lottery.winners_count # 0 /\ ~lottery.settlement_complete
        /\ pages' = [pages EXCEPT
             ![page].paid = pages[page].paid \cup { OffsetOf(i) : i \in due }]
        /\ vault' = IF AllWinnersPaid(Bitmap(due)) THEN 0 ELSE Left(due)
        /\ received' = IF AllWinnersPaid(Bitmap(due))
                       THEN [Paid(due) EXCEPT ![Authority] = Paid(due)[Authority] + Left(due)]
                       ELSE Paid(due)
        /\ lottery' = [lottery EXCEPT
             !.paid_winners_bitmap          = Bitmap(due),
             !.settlement_batches_completed = batches,
             !.settlement_complete          = AllWinnersPaid(Bitmap(due)),
             !.settled                      = lottery.settled \/ AllWinnersPaid(Bitmap(due))]
        /\ UNCHANGED <<now, participant, tally, root>>
  BY <1>1, BatchStep
<1> DEFINE bitmap == Bitmap(due)
           left   == Left(due)
           last   == AllWinnersPaid(bitmap)
<1>3. TypeOK BY BookTypes
<1>4. due \in SUBSET (0..n - 1) /\ due \cap lottery.paid_winners_bitmap = {} BY <1>2
<1>5. left >= VaultRent /\ VaultRent \in Nat \ {0} /\ bitmap \in SUBSET (0..n - 1)
  BY <1>2, <1>4, VaultCovers, ReceivedType
<1>6. /\ lottery'.winners_count = n
      /\ lottery'.total_payout = lottery.total_payout
      /\ lottery'.total_funds = lottery.total_funds
      /\ lottery'.paid_winners_bitmap = bitmap
      /\ lottery'.settlement_complete = last
      /\ SameWindow
  BY <1>2, <1>3 DEF TypeOK, LotteryAccount, SameWindow
<1>7. vault # 0 /\ (~last => vault' # 0)
  <2>1. vault # 0
    <3>1. Cardinality(due) \in Nat /\ Share \in Nat
      BY <1>2, <1>4, PaymentSum, ReceivedType DEF Money, ShareBook
    <3>2. Share * Cardinality(due) \in Nat BY <3>1
    <3> QED BY <1>5, <3>2, ReceivedType
  <2>2. ~last => vault' = left BY <1>2
  <2> HIDE DEF left
  <2> QED BY <1>5, <2>1, <2>2
<1>8. \A i \in 0..n - 1 :
        EntryAt(i)' = EntryAt(i) /\ WinnerAt(i)' = WinnerAt(i) /\ WinnerPaid(i)' = WinnerPaid(i)
  <2>1. \A p \in PageIndex : pages'[p].entries = pages[p].entries
    BY <1>2, <1>3 DEF TypeOK, WinnerPage
  <2>2. \A i \in 0..n - 1 : PageOf(i) \in PageIndex BY <1>2, WinnersMeanCompleted
  <2>3. \A i \in 0..n - 1 : EntryAt(i)' = EntryAt(i) /\ WinnerAt(i)' = WinnerAt(i)
    BY <2>1, <2>2 DEF EntryAt, WinnerAt
  <2> QED BY <1>6, <2>3 DEF WinnerPaid
<1>9. /\ \A i \in due : WinnerPaid(i).event = "WinnerPaid"
      /\ AllPaidLine.event = "PayoutsComplete"
      /\ \A had : FeeLine(had).event = "ServiceFeePaid"
  BY DEF WinnerPaid, AllPaidLine, FeeLine
<1> DEFINE lines   == { WinnerPaid(i) : i \in due }
           feeLine == FeeLine(received'[Authority])
<1>10. /\ log' = log \cup lines \cup Completion
       /\ \A e \in lines : e.event = "WinnerPaid"
       /\ feeLine.event = "ServiceFeePaid"
  BY <1>1, <1>2, <1>9
<1>11. /\ ~last => Completion = {}
       /\ last => Completion = {AllPaidLine} \cup IF LastFee > 0 \/ LastRest > 0
                                                  THEN {feeLine} ELSE {}
  BY <1>6, CompletionLines
<1> HIDE DEF lines, last, bitmap
<1>12. /\ Told("WinnerPaid")' = Told("WinnerPaid") \cup lines
       /\ \A name : name \notin {"WinnerPaid", "PayoutsComplete", "ServiceFeePaid"} =>
            Told(name)' = Told(name)
  <2> HIDE DEF feeLine
  <2>1. \A e \in Completion : e.event \in {"PayoutsComplete", "ServiceFeePaid"}
    BY <1>9, <1>10, <1>11
  <2> QED BY <1>10, <2>1 DEF Told
<1>13. Progress'
  <2>1. SameVoters BY <1>2 DEF SameVoters
  <2>2. SameEntries BY <1>2, <1>8, WinnersMeanCompleted DEF SameEntries
  <2>3. /\ Silent({"AttestationSubmitted"}) /\ Silent({"RevealRemediationBegan"})
        /\ Silent({"WinnerSelected"})
    BY <1>12 DEF Silent
  <2> QED BY <1>6, <2>1, <2>2, <2>3, VotesStay, WindowStays, EntriesStay DEF Story, Progress
<1>14. SalesTold' /\ RefundsTold'
  <2>1. Silent({"TicketsPurchased"}) /\ Silent({"RefundClaimed"}) BY <1>12 DEF Silent
  <2> QED BY <1>2, <1>6, <2>1, SalesStay, RefundsStay DEF Story, Accounted
<1>15. FinalTold'
  <2>1. FinalWinners' = FinalWinners BY <1>6 DEF FinalWinners, Share
  <2> QED BY <1>6, <1>12, <2>1 DEF FinalTold, Story, Accounted
<1>16. SharesTold'
  <2>1. lottery.paid_winners_bitmap \in SUBSET (0..n - 1)
    BY <1>2, WinnersMeanCompleted DEF Money, PaidPages
  <2>2. { WinnerPaid(i)' : i \in lottery'.paid_winners_bitmap }
          = { WinnerPaid(i) : i \in lottery.paid_winners_bitmap } \cup lines
    BY <1>4, <1>6, <1>8, <2>1 DEF bitmap, lines
  <2> QED BY <1>12, <2>2 DEF SharesTold, Story, Accounted
<1>17. EndsTold'
  <2>1. ~RefundPath /\ ~RefundPath' BY <1>2, <1>6 DEF RefundPath
  <2>2. last <=> Told("PayoutsComplete")' # {}
    <3>1. Told("PayoutsComplete") = {} BY <1>2 DEF Story, Accounted, EndsTold
    <3>2. CASE last
      <4>1. AllPaidLine \in log' BY <1>10, <1>11, <3>2
      <4> QED BY <1>9, <3>2, <4>1 DEF Told
    <3>3. CASE ~last BY <1>10, <1>11, <3>1, <3>3 DEF Told
    <3> QED BY <3>2, <3>3
  <2> QED BY <1>6, <1>12, <2>1, <2>2 DEF Story, Accounted, EndsTold
<1>18. FeeTold'
  <2>1. Told("ServiceFeePaid") = {} BY <1>2 DEF Story, Accounted, FeeTold
  <2>2. CASE last /\ lottery.total_funds # lottery.total_payout
    <3>1. LastFee \in Int /\ LastRest \in Int /\ (LastFee > 0 \/ LastRest > 0)
      BY <1>2, <2>2, FeeOrRest
    <3>2. /\ feeLine.service_fee = LastFee /\ feeLine.remainder = LastRest
          /\ feeLine.vault_rent_reclaimed = received'[Authority] - LastFee - LastRest
      BY DEF FeeLine
    <3> HIDE DEF feeLine
    <3>3. Completion = {AllPaidLine, feeLine} BY <1>11, <2>2, <3>1
    <3>4. Told("ServiceFeePaid")' = {feeLine}
      BY <1>9, <1>10, <2>1, <3>3 DEF Told
    <3> QED BY <1>6, <2>2, <3>1, <3>2, <3>4 DEF FeeTold
  <2>3. CASE last /\ lottery.total_funds = lottery.total_payout BY <1>6, <2>3 DEF FeeTold
  <2>4. CASE ~last
    <3>1. Told("ServiceFeePaid")' = {} BY <1>10, <1>11, <2>1, <2>4 DEF Told
    <3> QED BY <1>6, <2>4, <3>1 DEF FeeTold
  <2> QED BY <2>2, <2>3, <2>4
<1>19. RentTold'
  <2>1. Told("RefundVaultClosed")' = {} BY <1>7, <1>12 DEF Story, Accounted, RentTold
  <2> QED BY <1>6, <1>7, <2>1 DEF RentTold
<1> QED BY <1>13, <1>14, <1>15, <1>16, <1>17, <1>18, <1>19 DEF Story, Accounted

(***************************************************************************)
(* The invariant.                                                          *)
(***************************************************************************)
(* Nothing happened, and nothing is told.                                  *)
LEMMA InitStory == ASSUME LogInit PROVE Story
<1>1. /\ lottery = NewLottery /\ root = NewLedger("absent", 0)
      /\ \A w \in Wallet : participant[w] = NewParticipant("none", 0)
      /\ vault = VaultRent
  BY DEF LogInit, Init
<1>2. \A name : Told(name) = {} BY DEF LogInit, Told
<1>3. /\ lottery.total_funds = 0 /\ lottery.winners_count = 0
      /\ lottery.paid_winners_bitmap = {}
      /\ ~lottery.settlement_complete /\ ~lottery.settled
      /\ lottery.remediation_start_unix = 0
  BY <1>1 DEF NewLottery
<1>4. root.selected_count = 0 BY <1>1 DEF NewLedger
<1>5. /\ Attested = {} /\ RefundTaken = {}
      /\ \A w \in Wallet : participant[w].tickets_bought = 0
  BY <1>1 DEF Attested, RefundTaken, NewParticipant
<1>6. Progress
  BY <1>2, <1>3, <1>4, <1>5 DEF Progress, VotesTold, WindowTold, WinnersTold
<1>7. SalesTold
  <2>1. Purchases = {} BY <1>2 DEF Purchases
  <2>2. IsFiniteSet({}) BY FS_EmptySet
  <2>3. SumOver([e \in {} |-> e.amount_paid], {}) = 0 BY SumEmpty
  <2>4. SumOver([e \in Purchases |-> e.amount_paid], Purchases)
          = SumOver([e \in {} |-> e.amount_paid], {})
    BY <2>1, Zenon
  <2> QED BY <1>3, <1>5, <2>1, <2>2, <2>3, <2>4 DEF SalesTold
<1>8. FinalTold /\ SharesTold /\ RefundsTold
  BY <1>2, <1>3, <1>5 DEF FinalTold, SharesTold, RefundsTold
<1>9. EndsTold BY <1>2, <1>3 DEF EndsTold, RefundPath
<1>10. FeeTold /\ RentTold
  <2>1. vault # 0 BY <1>1, RoundAssumption
  <2> QED BY <1>2, <1>3, <2>1 DEF FeeTold, RentTold
<1> QED BY <1>6, <1>7, <1>8, <1>9, <1>10 DEF Story, Accounted

(* Every instruction keeps the story true.                                 *)
LEMMA StoryNext ==
  ASSUME Story, Book, Money, [LogNext]_<<vars, log>> PROVE Story'
<1>1. CASE Tick /\ UNCHANGED log BY <1>1, StoryTick
<1>2. ASSUME NEW w \in Wallet, LogBuy(w) PROVE Story' BY <1>2, StoryBuy
<1>3. CASE LogBegin BY <1>3, StoryBegin
<1>4. ASSUME NEW w \in Wallet, LogAttest(w) PROVE Story' BY <1>4, StoryAttest
<1>5. CASE LogUpload BY <1>5, StoryUpload
<1>6. CASE LogFinalizeWinners BY <1>6, StoryFinalizeWinners
<1>7. CASE LogSettle BY <1>7, StorySettle
<1>8. CASE LogFinalizeNoAttesters BY <1>8, StoryFinalizeNoAttesters
<1>9. ASSUME NEW w \in Wallet, LogClaimRefund(w) PROVE Story' BY <1>9, StoryClaimRefund
<1>10. CASE LogCloseRefundVault BY <1>10, StoryCloseRefundVault
<1>11. ASSUME NEW w \in Wallet, LogCloseParticipant(w) PROVE Story'
  BY <1>11, StoryCloseParticipant
<1>12. CASE UNCHANGED <<vars, log>> BY <1>12, StoryStutter
<1> QED
  BY <1>1, <1>2, <1>3, <1>4, <1>5, <1>6, <1>7, <1>8, <1>9, <1>10, <1>11, <1>12
  DEF LogNext

(* The inductive invariant of the log, with those of the round.            *)
LEMMA StoryInvariant == LogSpec => [](Book /\ Money /\ Story)
<1>1. LogInit => Book /\ Money /\ Story BY InitBook, InitMoney, InitStory DEF LogInit
<1>2. Book /\ Money /\ Story /\ [LogNext]_<<vars, log>> => (Book /\ Money /\ Story)'
  <2>1. [LogNext]_<<vars, log>> => [Next]_vars BY LogStepIsStep
  <2> QED BY <2>1, BookNext, MoneyNext, StoryNext
<1> QED BY <1>1, <1>2, PTL DEF LogSpec

(***************************************************************************)
(* What is read off the log.                                               *)
(***************************************************************************)
(* The story gives the progress of the round.                              *)
LEMMA StoryGivesProgress == ASSUME Story, Book, Money PROVE ProgressReplayed
<1>1. { << e.wallet, e.voted_number_of_winners >> : e \in Told("AttestationSubmitted") }
        = { << w, participant[w].voted_winners >> : w \in Attested }
  <2>1. Told("AttestationSubmitted")
          = { AttestationSubmitted(w, participant[w].voted_winners) : w \in Attested }
    BY DEF Story, Progress, VotesTold
  <2>2. \A w, vote : /\ AttestationSubmitted(w, vote).wallet = w
                     /\ AttestationSubmitted(w, vote).voted_number_of_winners = vote
    BY DEF AttestationSubmitted
  <2> QED BY <2>1, <2>2
<1>2. { << e.remediation_start_unix, e.remediation_deadline_unix >>
          : e \in Told("RevealRemediationBegan") }
        = IF lottery.remediation_start_unix = 0
          THEN {}
          ELSE {<< lottery.remediation_start_unix, lottery.remediation_deadline_unix >>}
  <2>1. Told("RevealRemediationBegan")
          = IF lottery.remediation_start_unix = 0 THEN {} ELSE {WindowOf(lottery)}
    BY DEF Story, Progress, WindowTold
  <2>2. /\ WindowOf(lottery).remediation_start_unix = lottery.remediation_start_unix
        /\ WindowOf(lottery).remediation_deadline_unix = lottery.remediation_deadline_unix
    BY DEF WindowOf
  <2> QED BY <2>1, <2>2
<1>3. /\ RefundPath <=> Told("LotterySettled") # {}
      /\ RefundPath <=> Told("RefundsIssued") # {}
      /\ lottery.settlement_complete <=> Told("PayoutsComplete") # {}
  BY DEF Story, Accounted, EndsTold
<1>4. ~(RefundPath /\ lottery.settlement_complete) BY DEF RefundPath, Money, RefundBook
<1> QED BY <1>1, <1>2, <1>3, <1>4 DEF ProgressReplayed

(* Selections are told apart by their index: there are as many as winners. *)
LEMMA SelectionsCounted ==
  ASSUME Story, Book
  PROVE  Cardinality(Told("WinnerSelected")) = root.selected_count
<1> DEFINE n == root.selected_count
           f == [i \in 0..n - 1 |-> Selection(i)]
<1>1. n \in Nat BY BookTypes DEF TypeOK, FinalizationLedger
<1>2. IsFiniteSet(0..n - 1) /\ Cardinality(0..n - 1) = n
  <2> DEFINE d == n - 1
  <2>1. d \in Int /\ n = d + 1 /\ (0 > d => n = 0) BY <1>1
  <2> HIDE DEF n, d, f
  <2>2. IsFiniteSet(0..d) /\ Cardinality(0..d) = IF 0 > d THEN 0 ELSE d - 0 + 1
    BY <2>1, FS_Interval
  <2>3. IsFiniteSet(0..d) /\ Cardinality(0..d) = n BY <2>1, <2>2
  <2> QED BY <2>3 DEF d
<1>3. \A i, j \in 0..n - 1 : f[i] = f[j] => i = j
  <2>1. \A i : Selection(i).winner_index = i BY DEF Selection
  <2>2. \A i \in 0..n - 1 : f[i].winner_index = i BY <2>1
  <2> HIDE DEF f
  <2> QED BY <2>2
<1>4. Told("WinnerSelected") = { f[i] : i \in 0..n - 1 }
  BY DEF Story, Progress, WinnersTold
<1> HIDE DEF f, n
<1>5. Cardinality({ f[i] : i \in 0..n - 1 }) = n
  <2> DEFINE D == 0..n - 1
  <2>1. IsFiniteSet(D) /\ Cardinality(D) = n /\ \A i, j \in D : f[i] = f[j] => i = j
    BY <1>2, <1>3
  <2> HIDE DEF D
  <2>2. Cardinality({ f[i] : i \in D }) = n BY <2>1, ImageSize
  <2> QED BY <2>2 DEF D
<1> QED BY <1>4, <1>5, Zenon DEF n

(* The story gives the winner set.                                         *)
LEMMA StoryGivesWinners == ASSUME Story, Book, Money PROVE WinnersReplayed
<1> DEFINE n == root.selected_count
           T == Told("WinnerSelected")
<1>1. n \in Nat /\ T = { Selection(i) : i \in 0..n - 1 }
  BY BookTypes DEF TypeOK, FinalizationLedger, Story, Progress, WinnersTold
<1>2. \A i : /\ Selection(i).page_index = PageOf(i) /\ Selection(i).page_offset = OffsetOf(i)
             /\ Selection(i).winner = EntryAt(i).wallet
             /\ Selection(i).tickets = EntryAt(i).tickets
             /\ Selection(i).winner_index = i
  BY DEF Selection, PageOf, OffsetOf
<1> HIDE DEF n, T
<1>3. { << e.page_index, e.page_offset, e.winner, e.tickets >> : e \in T }
        = { << PageOf(i), OffsetOf(i), EntryAt(i).wallet, EntryAt(i).tickets >>
            : i \in 0..n - 1 }
  BY <1>1, <1>2
<1>4. \A e \in T : e.winner_index = e.page_index * WINNERS_PER_PAGE + e.page_offset
  <2>1. \A i \in Nat : i = PageOf(i) * WINNERS_PER_PAGE + OffsetOf(i)
    BY DivMod, RoundAssumption DEF PageOf, OffsetOf
  <2> QED BY <1>1, <1>2, <2>1
<1>5. CASE lottery.winners_count = 0
  BY <1>3, <1>4, <1>5 DEF WinnersReplayed, Story, Accounted, FinalTold, n, T
<1>6. CASE lottery.winners_count # 0
  <2>1. Told("WinnersFinalized") = {FinalWinners}
    BY <1>6 DEF Story, Accounted, FinalTold
  <2>2. Cardinality(Told("WinnersFinalized")) = 1
    <3>1. Cardinality({FinalWinners}) = 1 BY FS_Singleton
    <3> QED BY <2>1, <3>1, Zenon
  <2>3. TheOnly("WinnersFinalized") = FinalWinners BY <2>1 DEF TheOnly
  <2>4. /\ FinalWinners.winners_count = lottery.winners_count
        /\ FinalWinners.total_payout = lottery.total_payout
    BY DEF FinalWinners
  <2>5. Cardinality(Told("WinnerSelected")) = lottery.winners_count
    BY <1>6, SelectionsCounted, WinnersMeanCompleted
  <2> QED BY <1>3, <1>4, <1>6, <2>2, <2>3, <2>4, <2>5 DEF WinnersReplayed, n, T
<1> QED BY <1>5, <1>6

(***************************************************************************)
(* Sums over lines of the log are sums of functions.                       *)
(***************************************************************************)
AmountsPaid(S) == MapThenSumSet(LAMBDA e : e.amount_paid, S)

Amounts(S) == MapThenSumSet(LAMBDA e : e.amount, S)

Fees(S) == MapThenSumSet(LAMBDA e : e.service_fee + e.remainder + e.vault_rent_reclaimed, S)

Rents(S) == MapThenSumSet(LAMBDA e : e.vault_rent_reclaimed, S)

PaidToAll(S) == MapThenSumSet(LAMBDA w : PaidTo(w), S)

(* What purchases paid in.                                                 *)
LEMMA AmountsPaidSum ==
  ASSUME NEW S, IsFiniteSet(S)
  PROVE  AmountsPaid(S) = SumOver([e \in S |-> e.amount_paid], S)
<1> DEFINE f == [e \in S |-> e.amount_paid]
           P(iter) == iter = [s \in SUBSET S |->
             IF s = {} THEN 0
             ELSE LET x == CHOOSE x \in s : TRUE IN (x.amount_paid) + iter[s \ {x}]]
<1>1. AmountsPaid(S) = (CHOOSE iter : P(iter))[S]
  BY DEF AmountsPaid, MapThenSumSet, MapThenFoldSet
<1>2. \A iter : P(iter) <=> IsSum(iter, f, S)
  <2> SUFFICES ASSUME NEW iter PROVE P(iter) <=> IsSum(iter, f, S) OBVIOUS
  <2>1. \A s \in SUBSET S : s # {} => f[FirstOf(s)] = FirstOf(s).amount_paid BY FirstOfIn
  <2> HIDE DEF f
  <2> QED BY <2>1 DEF IsSum, Unfolded, FirstOf
<1> HIDE DEF f
<1>3. PICK g : IsSum(g, f, S) /\ SumOver(f, S) = g[S] BY SumOverIsSum
<1> DEFINE G == CHOOSE iter : P(iter)
<1>4. P(G)
  <2>1. P(g) BY <1>2, <1>3
  <2> HIDE DEF P
  <2> QED BY <2>1
<1>5. IsSum(G, f, S) BY <1>2, <1>4
<1>6. G[S] = g[S] BY <1>3, <1>5, SumUnique
<1> QED BY <1>1, <1>3, <1>6 DEF f

(* What lines paid out.                                                    *)
LEMMA AmountsSum ==
  ASSUME NEW S, IsFiniteSet(S)
  PROVE  Amounts(S) = SumOver([e \in S |-> e.amount], S)
<1> DEFINE f == [e \in S |-> e.amount]
           P(iter) == iter = [s \in SUBSET S |->
             IF s = {} THEN 0
             ELSE LET x == CHOOSE x \in s : TRUE IN (x.amount) + iter[s \ {x}]]
<1>1. Amounts(S) = (CHOOSE iter : P(iter))[S]
  BY DEF Amounts, MapThenSumSet, MapThenFoldSet
<1>2. \A iter : P(iter) <=> IsSum(iter, f, S)
  <2> SUFFICES ASSUME NEW iter PROVE P(iter) <=> IsSum(iter, f, S) OBVIOUS
  <2>1. \A s \in SUBSET S : s # {} => f[FirstOf(s)] = FirstOf(s).amount BY FirstOfIn
  <2> HIDE DEF f
  <2> QED BY <2>1 DEF IsSum, Unfolded, FirstOf
<1> HIDE DEF f
<1>3. PICK g : IsSum(g, f, S) /\ SumOver(f, S) = g[S] BY SumOverIsSum
<1> DEFINE G == CHOOSE iter : P(iter)
<1>4. P(G)
  <2>1. P(g) BY <1>2, <1>3
  <2> HIDE DEF P
  <2> QED BY <2>1
<1>5. IsSum(G, f, S) BY <1>2, <1>4
<1>6. G[S] = g[S] BY <1>3, <1>5, SumUnique
<1> QED BY <1>1, <1>3, <1>6 DEF f

(* What lines of fees gave the authority.                                  *)
LEMMA FeesSum ==
  ASSUME NEW S, IsFiniteSet(S)
  PROVE  Fees(S) = SumOver([e \in S |-> e.service_fee + e.remainder + e.vault_rent_reclaimed], S)
<1> DEFINE f == [e \in S |-> e.service_fee + e.remainder + e.vault_rent_reclaimed]
           P(iter) == iter = [s \in SUBSET S |->
             IF s = {} THEN 0
             ELSE LET x == CHOOSE x \in s : TRUE IN (x.service_fee + x.remainder + x.vault_rent_reclaimed) + iter[s \ {x}]]
<1>1. Fees(S) = (CHOOSE iter : P(iter))[S]
  BY DEF Fees, MapThenSumSet, MapThenFoldSet
<1>2. \A iter : P(iter) <=> IsSum(iter, f, S)
  <2> SUFFICES ASSUME NEW iter PROVE P(iter) <=> IsSum(iter, f, S) OBVIOUS
  <2>1. \A s \in SUBSET S : s # {} => f[FirstOf(s)] = FirstOf(s).service_fee + FirstOf(s).remainder + FirstOf(s).vault_rent_reclaimed BY FirstOfIn
  <2> HIDE DEF f
  <2> QED BY <2>1 DEF IsSum, Unfolded, FirstOf
<1> HIDE DEF f
<1>3. PICK g : IsSum(g, f, S) /\ SumOver(f, S) = g[S] BY SumOverIsSum
<1> DEFINE G == CHOOSE iter : P(iter)
<1>4. P(G)
  <2>1. P(g) BY <1>2, <1>3
  <2> HIDE DEF P
  <2> QED BY <2>1
<1>5. IsSum(G, f, S) BY <1>2, <1>4
<1>6. G[S] = g[S] BY <1>3, <1>5, SumUnique
<1> QED BY <1>1, <1>3, <1>6 DEF f

(* The rent that lines returned.                                           *)
LEMMA RentsSum ==
  ASSUME NEW S, IsFiniteSet(S)
  PROVE  Rents(S) = SumOver([e \in S |-> e.vault_rent_reclaimed], S)
<1> DEFINE f == [e \in S |-> e.vault_rent_reclaimed]
           P(iter) == iter = [s \in SUBSET S |->
             IF s = {} THEN 0
             ELSE LET x == CHOOSE x \in s : TRUE IN (x.vault_rent_reclaimed) + iter[s \ {x}]]
<1>1. Rents(S) = (CHOOSE iter : P(iter))[S]
  BY DEF Rents, MapThenSumSet, MapThenFoldSet
<1>2. \A iter : P(iter) <=> IsSum(iter, f, S)
  <2> SUFFICES ASSUME NEW iter PROVE P(iter) <=> IsSum(iter, f, S) OBVIOUS
  <2>1. \A s \in SUBSET S : s # {} => f[FirstOf(s)] = FirstOf(s).vault_rent_reclaimed BY FirstOfIn
  <2> HIDE DEF f
  <2> QED BY <2>1 DEF IsSum, Unfolded, FirstOf
<1> HIDE DEF f
<1>3. PICK g : IsSum(g, f, S) /\ SumOver(f, S) = g[S] BY SumOverIsSum
<1> DEFINE G == CHOOSE iter : P(iter)
<1>4. P(G)
  <2>1. P(g) BY <1>2, <1>3
  <2> HIDE DEF P
  <2> QED BY <2>1
<1>5. IsSum(G, f, S) BY <1>2, <1>4
<1>6. G[S] = g[S] BY <1>3, <1>5, SumUnique
<1> QED BY <1>1, <1>3, <1>6 DEF f

(* What lines paid out to several wallets.                                 *)
LEMMA PaidToAllSum ==
  ASSUME NEW S, IsFiniteSet(S)
  PROVE  PaidToAll(S) = SumOver([e \in S |-> PaidTo(e)], S)
<1> DEFINE f == [e \in S |-> PaidTo(e)]
           P(iter) == iter = [s \in SUBSET S |->
             IF s = {} THEN 0
             ELSE LET x == CHOOSE x \in s : TRUE IN (PaidTo(x)) + iter[s \ {x}]]
<1>1. PaidToAll(S) = (CHOOSE iter : P(iter))[S]
  BY DEF PaidToAll, MapThenSumSet, MapThenFoldSet
<1>2. \A iter : P(iter) <=> IsSum(iter, f, S)
  <2> SUFFICES ASSUME NEW iter PROVE P(iter) <=> IsSum(iter, f, S) OBVIOUS
  <2>1. \A s \in SUBSET S : s # {} => f[FirstOf(s)] = PaidTo(FirstOf(s)) BY FirstOfIn
  <2> HIDE DEF f
  <2> QED BY <2>1 DEF IsSum, Unfolded, FirstOf
<1> HIDE DEF f
<1>3. PICK g : IsSum(g, f, S) /\ SumOver(f, S) = g[S] BY SumOverIsSum
<1> DEFINE G == CHOOSE iter : P(iter)
<1>4. P(G)
  <2>1. P(g) BY <1>2, <1>3
  <2> HIDE DEF P
  <2> QED BY <2>1
<1>5. IsSum(G, f, S) BY <1>2, <1>4
<1>6. G[S] = g[S] BY <1>3, <1>5, SumUnique
<1> QED BY <1>1, <1>3, <1>6 DEF f

(* Over one line, or none.                                                 *)
LEMMA SumOne ==
  ASSUME NEW f, NEW x, f[x] \in Int PROVE SumOver(f, {x}) = f[x]
<1>1. IsFiniteSet({x}) BY FS_Singleton
<1>2. SumOver(f, {x}) = f[x] + SumOver(f, {x} \ {x})
  <2>1. \A y \in {x} : f[y] \in Int OBVIOUS
  <2> QED BY <1>1, <2>1, SumSplit
<1>3. SumOver(f, {x} \ {x}) = SumOver(f, {})
  <2>1. {x} \ {x} = {} OBVIOUS
  <2> QED BY <2>1, Zenon
<1> QED BY <1>2, <1>3, SumEmpty

(* An amount, a fee or a rent told once; and none.                         *)
LEMMA AmountOfOne ==
  ASSUME NEW S, NEW e, S = {e}, e.amount \in Int PROVE Amounts(S) = e.amount
<1> DEFINE f == [x \in {e} |-> x.amount]
<1>1. IsFiniteSet({e}) BY FS_Singleton
<1>2. f[e] = e.amount OBVIOUS
<1>3. Amounts({e}) = SumOver(f, {e}) BY <1>1, AmountsSum
<1> HIDE DEF f
<1>4. SumOver(f, {e}) = e.amount BY <1>2, SumOne
<1> QED BY <1>3, <1>4

(* The sum over the fee lines, when there is one line.                     *)
LEMMA FeeOfOne ==
  ASSUME NEW S, NEW e, S = {e},
         e.service_fee + e.remainder + e.vault_rent_reclaimed \in Int
  PROVE  Fees(S) = e.service_fee + e.remainder + e.vault_rent_reclaimed
<1> DEFINE f == [x \in {e} |-> x.service_fee + x.remainder + x.vault_rent_reclaimed]
<1>1. IsFiniteSet({e}) BY FS_Singleton
<1>2. f[e] = e.service_fee + e.remainder + e.vault_rent_reclaimed OBVIOUS
<1>3. Fees({e}) = SumOver(f, {e}) BY <1>1, FeesSum
<1> HIDE DEF f
<1>4. SumOver(f, {e}) = f[e] BY <1>2, SumOne
<1> QED BY <1>2, <1>3, <1>4

(* The sum over the lines about rent, when there is one line.              *)
LEMMA RentOfOne ==
  ASSUME NEW S, NEW e, S = {e}, e.vault_rent_reclaimed \in Int
  PROVE  Rents(S) = e.vault_rent_reclaimed
<1> DEFINE f == [x \in {e} |-> x.vault_rent_reclaimed]
<1>1. IsFiniteSet({e}) BY FS_Singleton
<1>2. f[e] = e.vault_rent_reclaimed OBVIOUS
<1>3. Rents({e}) = SumOver(f, {e}) BY <1>1, RentsSum
<1> HIDE DEF f
<1>4. SumOver(f, {e}) = e.vault_rent_reclaimed BY <1>2, SumOne
<1> QED BY <1>3, <1>4

(* With no line, all sums are 0.                                           *)
LEMMA NothingTold ==
  ASSUME NEW S, S = {} PROVE Amounts(S) = 0 /\ Fees(S) = 0 /\ Rents(S) = 0
<1>1. IsFiniteSet({}) BY FS_EmptySet
<1>2. Amounts({}) = 0 BY <1>1, AmountsSum, SumEmpty
<1>3. Fees({}) = 0 BY <1>1, FeesSum, SumEmpty
<1>4. Rents({}) = 0 BY <1>1, RentsSum, SumEmpty
<1> QED BY <1>2, <1>3, <1>4

(* The greatest of a set is the member that no other exceeds.              *)
LEMMA MaxIs ==
  ASSUME NEW S \in SUBSET Int, NEW m \in S, \A y \in S : y <= m PROVE Max(S) = m
<1> DEFINE Bound(x) == x \in S /\ \A y \in S : x >= y
<1>1. Bound(m) OBVIOUS
<1>2. Bound(Max(S)) BY <1>1 DEF Max
<1>3. Max(S) >= m /\ Max(S) <= m /\ Max(S) \in Int BY <1>2
<1> QED BY <1>3

(***************************************************************************)
(* Wallet by wallet.                                                       *)
(***************************************************************************)
(* A wallet has what the lines paid it.                                    *)
LEMMA PaidToIsReceived ==
  ASSUME Story, Book, Money, NEW w \in Wallet PROVE received[w] = PaidTo(w)
<1> DEFINE paid == { e \in Told("WinnerPaid") : e.winner = w }
           back == { e \in Told("RefundClaimed") : e.wallet = w }
<1>1. PaidTo(w) = Amounts(paid \cup back) BY DEF PaidTo, Amounts
<1>2. received[w] = PaidShare(w) + Refunded(w) BY DEF Money, Purses
<1>3. Told("WinnerPaid") = { WinnerPaid(i) : i \in lottery.paid_winners_bitmap }
  BY DEF Story, Accounted, SharesTold
<1>4. Told("RefundClaimed") = { RefundLine(v) : v \in RefundTaken }
  BY DEF Story, Accounted, RefundsTold
<1>5. \A i : WinnerPaid(i).winner = EntryAt(i).wallet /\ WinnerPaid(i).amount = Share
  BY DEF WinnerPaid, WinnerAt, EntryAt, Share
<1>6. \A v : /\ RefundLine(v).wallet = v
             /\ RefundLine(v).amount = TicketPrice * participant[v].tickets_bought
  BY DEF RefundLine
<1>7. back = IF participant[w].refund_claimed THEN {RefundLine(w)} ELSE {}
  BY <1>4, <1>6 DEF RefundTaken
<1>8. received[w] \in Nat
  BY BookTypes DEF TypeOK, Recipient, U64
<1> HIDE DEF paid, back
<1>9. CASE participant[w].refund_claimed
  <2>1. lottery.winners_count = 0
    BY <1>9 DEF Book, Safe, RefundXorWinners, RefundPath
  <2>2. lottery.paid_winners_bitmap = {} /\ PaidShare(w) = 0 BY <2>1, NoWinnersYet
  <2>3. paid = {} BY <1>3, <2>2 DEF paid
  <2>4. received[w] = RefundLine(w).amount
    <3>1. RefundLine(w).amount = Refunded(w) BY <1>6, <1>9 DEF Refunded
    <3>2. Refunded(w) \in Nat
      <4>1. participant[w].tickets_bought \in Nat BY BookTypes, HeldType DEF Held
      <4> QED BY <1>9, <4>1, RoundAssumption DEF Refunded
    <3> QED BY <1>2, <2>2, <3>1, <3>2
  <2>5. paid \cup back = {RefundLine(w)} BY <1>7, <1>9, <2>3
  <2> QED BY <1>1, <1>8, <2>4, <2>5, AmountOfOne
<1>10. CASE ~participant[w].refund_claimed /\ lottery.winners_count = 0
  <2>1. lottery.paid_winners_bitmap = {} /\ PaidShare(w) = 0 BY <1>10, NoWinnersYet
  <2>2. paid \cup back = {} BY <1>3, <1>7, <1>10, <2>1 DEF paid
  <2>3. received[w] = 0 BY <1>2, <1>10, <2>1 DEF Refunded
  <2> QED BY <1>1, <2>2, <2>3, NothingTold
<1>11. CASE ~participant[w].refund_claimed /\ lottery.winners_count # 0
  <2> DEFINE bitmap == lottery.paid_winners_bitmap
  <2>1. bitmap \subseteq 0..lottery.winners_count - 1 BY DEF Money, PaidPages
  <2>2. \A i, j \in bitmap : EntryAt(i).wallet = EntryAt(j).wallet => i = j
    BY <1>11, <2>1, WinnersMeanCompleted
  <2>3. Refunded(w) = 0 BY <1>11 DEF Refunded
  <2>4. Share \in Nat
    <3>1. lottery.winners_count > 0 BY <1>11, BookTypes DEF TypeOK, LotteryAccount
    <3> QED BY <3>1 DEF Money, ShareBook
  <2>5. CASE \E i \in bitmap : EntryAt(i).wallet = w
    <3>1. PICK i \in bitmap : EntryAt(i).wallet = w BY <2>5
    <3>2. received[w] = Share BY <1>2, <2>3, <2>4, <2>5 DEF PaidShare, Share
    <3> HIDE DEF bitmap
    <3>3. paid \cup back = {WinnerPaid(i)}
      BY <1>3, <1>5, <1>7, <1>11, <2>2, <3>1 DEF paid, bitmap
    <3>4. WinnerPaid(i).amount = Share BY <1>5
    <3> QED BY <1>1, <2>4, <3>2, <3>3, <3>4, AmountOfOne
  <2>6. CASE ~\E i \in bitmap : EntryAt(i).wallet = w
    <3>1. received[w] = 0 BY <1>2, <2>3, <2>6 DEF PaidShare
    <3>2. paid \cup back = {} BY <1>3, <1>5, <1>7, <1>11, <2>6 DEF paid
    <3> QED BY <1>1, <3>1, <3>2, NothingTold
  <2> QED BY <2>5, <2>6
<1> QED BY <1>9, <1>10, <1>11

(* The last purchase of a wallet tells its tickets.                        *)
LEMMA TicketsAreTold ==
  ASSUME Story, Book, NEW w \in Wallet
  PROVE  participant[w].tickets_bought =
           Max({0} \cup { e.total_tickets_for_participant :
                            e \in { f \in Told("TicketsPurchased") : f.buyer = w } })
<1> DEFINE bought == participant[w].tickets_bought
           totals == { e.total_tickets_for_participant :
                         e \in { f \in Told("TicketsPurchased") : f.buyer = w } }
<1>1. bought \in Nat BY BookTypes, HeldType DEF Held
<1>2. SalesTold BY DEF Story, Accounted
<1>3. totals \subseteq 1..bought BY <1>2 DEF SalesTold, Purchases
<1>4. bought > 0 => bought \in totals BY <1>2 DEF SalesTold, Purchases
<1> HIDE DEF bought, totals
<1>5. {0} \cup totals \in SUBSET Int BY <1>1, <1>3
<1>6. bought \in {0} \cup totals BY <1>1, <1>4
<1>7. \A y \in {0} \cup totals : y <= bought BY <1>1, <1>3
<1>8. Max({0} \cup totals) = bought BY <1>5, <1>6, <1>7, MaxIs
<1> QED BY <1>8 DEF bought, totals

(* What the authority got, unless the payouts left nothing over.           *)
LEMMA AuthorityIsTold ==
  ASSUME Story, Book, Money,
         ~(lottery.settlement_complete /\ lottery.total_funds = lottery.total_payout)
  PROVE  received[Authority] = RentAndFees
<1>1. RentAndFees = Fees(Told("ServiceFeePaid")) + Rents(Told("RefundVaultClosed"))
  BY DEF RentAndFees, Fees, Rents
<1>2. received[Authority] \in Nat BY ReceivedType, RecipientsFinite
<1>3. FeeTold /\ RentTold BY DEF Story, Accounted
<1>4. CASE lottery.settlement_complete
  <2>1. PICK e \in Told("ServiceFeePaid") :
          /\ Told("ServiceFeePaid") = {e}
          /\ e.service_fee \in Int /\ e.remainder \in Int
          /\ e.vault_rent_reclaimed = received[Authority] - e.service_fee - e.remainder
    BY <1>3, <1>4 DEF FeeTold
  <2>2. e.service_fee + e.remainder + e.vault_rent_reclaimed = received[Authority]
    BY <1>2, <2>1
  <2>3. Fees(Told("ServiceFeePaid")) = received[Authority] BY <1>2, <2>1, <2>2, FeeOfOne
  <2>4. Rents(Told("RefundVaultClosed")) = 0 BY <1>3, <1>4, NothingTold DEF RentTold
  <2> QED BY <1>1, <1>2, <2>3, <2>4
<1>5. CASE ~lottery.settlement_complete /\ vault = 0
  <2>1. PICK e \in Told("RefundVaultClosed") :
          Told("RefundVaultClosed") = {e} /\ e.vault_rent_reclaimed = received[Authority]
    BY <1>3, <1>5 DEF RentTold
  <2>2. Rents(Told("RefundVaultClosed")) = received[Authority] BY <1>2, <2>1, RentOfOne
  <2>3. Fees(Told("ServiceFeePaid")) = 0 BY <1>3, <1>5, NothingTold DEF FeeTold
  <2> QED BY <1>1, <1>2, <2>2, <2>3
<1>6. CASE ~lottery.settlement_complete /\ vault # 0
  <2>1. received[Authority] = 0 BY <1>6 DEF Money, Purses
  <2>2. Fees(Told("ServiceFeePaid")) = 0 BY <1>3, <1>6, NothingTold DEF FeeTold
  <2>3. Rents(Told("RefundVaultClosed")) = 0 BY <1>3, <1>6, NothingTold DEF RentTold
  <2> QED BY <1>1, <2>1, <2>2, <2>3
<1> QED BY <1>4, <1>5, <1>6

(* What was paid in is told by the purchases.                              *)
LEMMA FundsAreTold ==
  ASSUME Story
  PROVE  lottery.total_funds = MapThenSumSet(LAMBDA e : e.amount_paid, Told("TicketsPurchased"))
<1>1. AmountsPaid(Purchases) = SumOver([e \in Purchases |-> e.amount_paid], Purchases)
  BY AmountsPaidSum DEF Story, Accounted, SalesTold
<1> QED BY <1>1 DEF Story, Accounted, SalesTold, AmountsPaid, Purchases

(* The story gives the money.                                              *)
LEMMA StoryGivesMoney == ASSUME Story, Book, Money PROVE MoneyReplayed
<1>1. lottery.paid_winners_bitmap = { e.winner_index : e \in Told("WinnerPaid") }
  <2>1. Told("WinnerPaid") = { WinnerPaid(i) : i \in lottery.paid_winners_bitmap }
    BY DEF Story, Accounted, SharesTold
  <2>2. \A i : WinnerPaid(i).winner_index = i BY DEF WinnerPaid
  <2> QED BY <2>1, <2>2
<1>2. ~(lottery.settlement_complete /\ lottery.total_funds = lottery.total_payout)
        => received[Authority] = RentAndFees
  BY AuthorityIsTold
<1> QED
  BY <1>1, <1>2, FundsAreTold, PaidToIsReceived, TicketsAreTold DEF MoneyReplayed

(* The story gives the vault: what is left is what was not paid out.       *)
LEMMA StoryGivesVault == ASSUME Story, Book, Money PROVE VaultReplayed
<1> SUFFICES ASSUME ~(lottery.settlement_complete
                        /\ lottery.total_funds = lottery.total_payout)
             PROVE  vault = VaultRent
                      + MapThenSumSet(LAMBDA e : e.amount_paid, Told("TicketsPurchased"))
                      - MapThenSumSet(LAMBDA w : PaidTo(w), Wallet) - RentAndFees
  BY DEF VaultReplayed
<1> DEFINE paid == [w \in Wallet |-> PaidTo(w)]
<1>1. MapThenSumSet(LAMBDA w : PaidTo(w), Wallet) = SumOver(paid, Wallet)
  <2>1. PaidToAll(Wallet) = SumOver(paid, Wallet) BY RoundAssumption, PaidToAllSum
  <2> QED BY <2>1 DEF PaidToAll
<1>2. \A w \in Wallet : paid[w] = received[w] BY PaidToIsReceived
<1> HIDE DEF paid
<1>3. SumOver(paid, Wallet) = SumOver(received, Wallet) BY <1>2, RoundAssumption, SumSame
<1>4. SumOver(received, Recipient) = received[Authority] + SumOver(received, Wallet)
  <2>1. \A r \in Recipient : received[r] \in Int BY ReceivedType
  <2>2. SumOver(received, Recipient)
          = received[Authority] + SumOver(received, Recipient \ {Authority})
    BY <2>1, RecipientsFinite, SumSplit
  <2>3. SumOver(received, Recipient \ {Authority}) = SumOver(received, Wallet)
    BY RecipientsFinite, Zenon
  <2> QED BY <2>2, <2>3
<1>5. SumOver(received, Wallet) \in Int
  <2>1. \A w \in Wallet : received[w] \in Int BY ReceivedType, RecipientsFinite
  <2> QED BY <2>1, RoundAssumption, SumInt
<1>6. /\ vault \in Nat /\ lottery.total_funds \in Nat /\ VaultRent \in Nat
      /\ received[Authority] \in Nat
  BY ReceivedType, RecipientsFinite
<1>7. vault = VaultRent + lottery.total_funds - SumOver(received, Wallet) - received[Authority]
  BY <1>4, <1>5, <1>6 DEF Money, Balanced
<1>8. received[Authority] = RentAndFees BY AuthorityIsTold
<1> QED BY <1>1, <1>3, <1>7, <1>8, FundsAreTold

(***************************************************************************)
(* The theorems.                                                           *)
(***************************************************************************)
(* Whoever reads only the log knows how far the round is: who attested and *)
(* with which vote, which remediation window runs, and which end came, for *)
(* lines that arrive late, twice or out of order.                          *)
THEOREM ProgressCanBeReplayed == LogSpec => []ProgressReplayed
<1>1. Story /\ Book /\ Money => ProgressReplayed BY StoryGivesProgress
<1> QED BY <1>1, StoryInvariant, PTL

(* The winner pages, entry by entry, and the completed winner set are as   *)
(* the log says, also after the accounts of the round are closed.          *)
THEOREM WinnersCanBeReplayed == LogSpec => []WinnersReplayed
<1>1. Story /\ Book /\ Money => WinnersReplayed BY StoryGivesWinners
<1> QED BY <1>1, StoryInvariant, PTL

(* Who put in and who got out how much, and which entries are paid, are    *)
(* those of the log, however batches of payouts overlapped.                *)
THEOREM MoneyCanBeReplayed == LogSpec => []MoneyReplayed
<1>1. Story /\ Book /\ Money => MoneyReplayed BY StoryGivesMoney
<1> QED BY <1>1, StoryInvariant, PTL

(* What is left in the vault is what the log says was paid in less what it *)
(* says was paid out.                                                      *)
THEOREM VaultCanBeReplayed == LogSpec => []VaultReplayed
<1>1. Story /\ Book /\ Money => VaultReplayed BY StoryGivesVault
<1> QED BY <1>1, StoryInvariant, PTL
===============================================================================
