------------------------------- MODULE Settlement -----------------------------
(***************************************************************************)
(* The two ends of a round.  Winners: SettlePayoutBatch pays the entries   *)
(* of the winner pages and, with the last of them, the fee, the remainder  *)
(* and the rent.  Refunds: FinalizeNoAttesters settles a round without     *)
(* winners, ClaimRefund pays each participant back, CloseRefundVault       *)
(* returns the rent.  CloseParticipant ends either.                        *)
(***************************************************************************)
EXTENDS RoundState

Pay(recipient, lamports) == [received EXCEPT ![recipient] = @ + lamports]

(***************************************************************************)
(* The winners path.                                                       *)
(***************************************************************************)
PageOf(index) == index \div WINNERS_PER_PAGE

OffsetOf(index) == index % WINNERS_PER_PAGE

PaidOnPage(index) == OffsetOf(index) \in pages[PageOf(index)].paid

(* Mutant: every entry of a page pays the wallet of its first.             *)
FirstOnPage(index) == pages[PageOf(index)].entries[1].wallet

WinnerAt(index) == pages[PageOf(index)].entries[OffsetOf(index) + 1].wallet

(* Mutant: the last winner paid is taken for all of them.                  *)
LastWinnerPaid(bitmap) == lottery.winners_count - 1 \in bitmap

AllWinnersPaid(bitmap) == 0..lottery.winners_count - 1 \subseteq bitmap

(* Entries batch of one page.  An entry paid before is skipped; one paid   *)
(* in only one of the two bitmaps fails the batch.                         *)
SettlePayoutBatch(batch) ==
  LET page    == PageOf(CHOOSE i \in batch : TRUE)
      amount  == lottery.total_payout \div lottery.winners_count
      due     == { i \in batch : i \notin lottery.paid_winners_bitmap }
      bitmap  == lottery.paid_winners_bitmap \cup due
      left    == vault - amount * Cardinality(due)
      fee     == ServiceFee(lottery.total_funds, ServiceChargeBps)
      rest    == AtLeast(lottery.total_funds - lottery.total_payout - fee, 0)
      paid    == [ r \in Recipient |->
                     received[r] + amount * Cardinality({ i \in due : WinnerAt(i) = r }) ]
      last    == AllWinnersPaid(bitmap)
  IN  /\ ~lottery.settlement_complete
      /\ lottery.winners_count # 0
      /\ batch # {} /\ \A i \in batch : i < lottery.winners_count /\ PageOf(i) = page
      /\ \A i \in batch : /\ OffsetOf(i) < Len(pages[page].entries)
                          /\ PaidOnPage(i) <=> i \in lottery.paid_winners_bitmap
      /\ left >= IF last THEN fee + rest ELSE 0
      /\ pages' = [pages EXCEPT ![page].paid = @ \cup { OffsetOf(i) : i \in due }]
      /\ vault' = IF last THEN 0 ELSE left
      /\ received' = IF last THEN [paid EXCEPT ![Authority] = @ + left] ELSE paid
      /\ lottery' = [lottery EXCEPT
           !.paid_winners_bitmap          = bitmap,
           !.settlement_batches_completed = AtMost(@ + 1, U32_MAX),
           !.settlement_complete          = last,
           !.settled                      = @ \/ last]
      /\ UNCHANGED <<now, participant, tally, root>>

(***************************************************************************)
(* The refund path.                                                        *)
(***************************************************************************)
SingleParticipantReady == lottery.participants_count = 1 /\ lottery.uploads_complete

UploadDeadlineReached ==
  lottery.upload_deadline_unix > 0 /\ now >= lottery.upload_deadline_unix

FinalizeNoAttesters ==
  /\ ~lottery.settled
  /\ SingleParticipantReady \/ UploadDeadlineReached
  /\ lottery.attested_count = 0 \/ RemediationExpired
  /\ lottery' = [lottery EXCEPT !.settled = TRUE]
  /\ UNCHANGED <<now, participant, tally, root, pages, vault, received>>

(* Mutant: no refund once somebody attested.                               *)
RefundsDueUnattested ==
  lottery.settled /\ lottery.attested_count = 0 /\ lottery.winners_count = 0

RefundsDue ==
  lottery.settled /\ lottery.winners_count = 0 /\ lottery.total_payout = 0

(* Mutant: a refund may be claimed again.                                  *)
RefundOwedAgain(w) == HasTickets(w) /\ RefundsDue

RefundOwed(w) == HasTickets(w) /\ RefundsDue /\ ~participant[w].refund_claimed

ClaimRefund(w) ==
  LET amount == TicketPrice * participant[w].tickets_bought
  IN  /\ RefundOwed(w)
      /\ amount \in U64
      /\ vault >= amount
      /\ lottery.settlement_batches_completed < U32_MAX
      /\ vault' = vault - amount
      /\ received' = Pay(w, amount)
      /\ participant' = [participant EXCEPT ![w].refund_claimed = TRUE]
      /\ lottery' = [lottery EXCEPT !.settlement_batches_completed = @ + 1]
      /\ UNCHANGED <<now, tally, root, pages>>

CloseRefundVault ==
  /\ RefundsDue
  /\ lottery.settlement_batches_completed >= lottery.participants_count
  /\ vault # 0
  /\ vault' = 0
  /\ received' = Pay(Authority, vault)
  /\ UNCHANGED <<now, lottery, participant, tally, root, pages>>

(* Both ends let a participant take back the rent of its account.          *)
CloseParticipant(w) ==
  /\ Exists(w)
  /\ \/ lottery.settled /\ lottery.winners_count = 0 /\ participant[w].refund_claimed
     \/ lottery.settlement_complete /\ lottery.winners_count > 0
  /\ participant' = [participant EXCEPT ![w].status = "closed"]
  /\ UNCHANGED <<now, lottery, tally, root, pages, vault, received>>
===============================================================================
