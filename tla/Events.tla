-------------------------------- MODULE Events --------------------------------
(***************************************************************************)
(* The log lines of one round (events.rs): every instruction of Round with *)
(* the events it emits.  An indexer sees nothing else of the round once    *)
(* its accounts are closed, and it may see the lines late, twice or out of *)
(* order: the log is a set, so what is read off it below depends on none   *)
(* of that.                                                                *)
(*                                                                         *)
(* Abstractions.  An event keeps the fields a replay could use; addresses, *)
(* timestamps, hashes and the batch number a caller picks are left out.    *)
(* The progress lines of one chunk or one upload (RevealsUploaded,         *)
(* RevealRemediationCompleted, FinalizationChunkProcessed,                 *)
(* WinnersComputed) and the running total of an attestation are left out:  *)
(* they repeat counters of the moment.  So is SettlementPhaseBegan, which  *)
(* AttestUploaded emits and the three other instructions that begin the    *)
(* phase do not.  A call that fails leaves no event, since its log is that *)
(* of a failed transaction.                                                *)
(***************************************************************************)
EXTENDS Round

VARIABLE log

Emit(events) == log' = log \cup events

When(condition, events) == IF condition THEN events ELSE {}

(***************************************************************************)
(* The instructions, with what they emit.                                  *)
(***************************************************************************)
(* Mutant: the participant's total is read before the purchase.            *)
TicketsPurchasedBefore(w, count) ==
  [ event                         |-> "TicketsPurchased",
    buyer                         |-> w,
    participant_index             |-> participant'[w].participant_index,
    tickets_bought                |-> count,
    total_tickets_for_participant |-> participant[w].tickets_bought,
    amount_paid                   |-> TicketPrice * count ]

TicketsPurchased(w, count) ==
  [ event                         |-> "TicketsPurchased",
    buyer                         |-> w,
    participant_index             |-> participant'[w].participant_index,
    tickets_bought                |-> count,
    total_tickets_for_participant |-> participant'[w].tickets_bought,
    amount_paid                   |-> TicketPrice * count ]

LogBuy(w) ==
  \E count \in BuySizes :
    /\ participant[w].tickets_bought + count <= TicketBound
    /\ BuyTickets(w, count)
    /\ Emit({TicketsPurchased(w, count)})

LogBegin ==
  /\ Begin
  /\ Emit({[ event        |-> "UploadPhaseBegan",
             new_start    |-> now,
             new_deadline |-> lottery'.upload_deadline_unix ]})

AttestationSubmitted(w, vote) ==
  [event |-> "AttestationSubmitted", wallet |-> w, voted_number_of_winners |-> vote]

LogAttest(w) ==
  \E vote \in 1..MaxWinnersCap :
    /\ AttestUploaded(w, vote) \/ AttestReveal(w, vote)
    /\ Emit({AttestationSubmitted(w, vote)})

(* Mutant: every upload in the window reports that it was opened now.      *)
RemediationBegunByUpload ==
  When(lottery'.remediation_start_unix # 0,
       {[ event                     |-> "RevealRemediationBegan",
          remediation_start_unix    |-> now,
          remediation_deadline_unix |-> now + RemediationWindow ]})

RemediationBegun ==
  When(lottery.remediation_start_unix = 0 /\ lottery'.remediation_start_unix # 0,
       {[ event                     |-> "RevealRemediationBegan",
          remediation_start_unix    |-> lottery'.remediation_start_unix,
          remediation_deadline_unix |-> lottery'.remediation_deadline_unix ]})

LogUpload == Upload /\ Emit(RemediationBegun)

(* Mutant: the index is read after the winner was recorded.                *)
WinnerSelectedAfter(ledger) ==
  [ event        |-> "WinnerSelected",
    winner       |-> ledger.pending_winner,
    tickets      |-> ledger.pending_winner_tickets,
    winner_index |-> ledger.selected_count + 1,
    page_index   |-> (ledger.selected_count + 1) \div WINNERS_PER_PAGE,
    page_offset  |-> (ledger.selected_count + 1) % WINNERS_PER_PAGE ]

(* The winner found by a pass that leaves the ledger at this state.        *)
WinnerSelected(ledger) ==
  [ event        |-> "WinnerSelected",
    winner       |-> ledger.pending_winner,
    tickets      |-> ledger.pending_winner_tickets,
    winner_index |-> ledger.selected_count,
    page_index   |-> ledger.selected_count \div WINNERS_PER_PAGE,
    page_offset  |-> ledger.selected_count % WINNERS_PER_PAGE ]

WinnersFinalized ==
  [ event             |-> "WinnersFinalized",
    winners_count     |-> lottery'.winners_count,
    total_payout      |-> lottery'.total_payout,
    per_winner_payout |-> lottery'.total_payout \div lottery'.winners_count ]

LogFinalizeWinners ==
  \/ StartRemediation /\ Emit(RemediationBegun)
  \/ \E size \in Sizes :
       \/ /\ AggregateChunk(size) \/ CloseAggregation(size) \/ ScanChunk(size)
          /\ UNCHANGED log
       \/ /\ CloseRound(size)
          /\ Emit({WinnerSelected(Scanned(size))})
       \/ /\ CompleteFinalization(size)
          /\ Emit({WinnerSelected(Scanned(size)), WinnersFinalized})

(* Mutant: an entry is reported by its place on its page.                  *)
WinnerPaidOnPage(index) ==
  [ event        |-> "WinnerPaid",
    winner       |-> WinnerAt(index),
    winner_index |-> OffsetOf(index),
    amount       |-> lottery.total_payout \div lottery.winners_count ]

WinnerPaid(index) ==
  [ event        |-> "WinnerPaid",
    winner       |-> WinnerAt(index),
    winner_index |-> index,
    amount       |-> lottery.total_payout \div lottery.winners_count ]

(* Mutant: every batch reports that the payouts are complete.              *)
CompletionOfBatch ==
  {[ event         |-> "PayoutsComplete",
     total_winners |-> lottery.winners_count,
     total_paid    |-> lottery.total_payout ]}

(* What the batch that pays the last winner adds: nothing is said of the   *)
(* rent when there is neither fee nor remainder.                           *)
Completion ==
  LET fee  == ServiceFee(lottery.total_funds, ServiceChargeBps)
      rest == AtLeast(lottery.total_funds - lottery.total_payout - fee, 0)
  IN  When(lottery'.settlement_complete,
           {[ event         |-> "PayoutsComplete",
              total_winners |-> lottery.winners_count,
              total_paid    |-> lottery.total_payout ]}
           \cup When(fee > 0 \/ rest > 0,
                     {[ event                |-> "ServiceFeePaid",
                        service_fee          |-> fee,
                        remainder            |-> rest,
                        vault_rent_reclaimed |-> received'[Authority] - fee - rest ]}))

LogSettle ==
  \E batch \in SUBSET (0..lottery.winners_count - 1) :
    /\ SettlePayoutBatch(batch)
    /\ Emit({ WinnerPaid(i) : i \in batch \ lottery.paid_winners_bitmap } \cup Completion)

LogFinalizeNoAttesters ==
  /\ FinalizeNoAttesters
  /\ Emit({[ event                   |-> "RefundsIssued",
             recipient_count         |-> lottery.participants_count,
             total_refunded_lamports |-> lottery.total_funds ],
           [ event         |-> "LotterySettled",
             total_tickets |-> lottery.total_tickets,
             total_funds   |-> lottery.total_funds ]})

LogClaimRefund(w) ==
  /\ ClaimRefund(w)
  /\ Emit({[ event            |-> "RefundClaimed",
             wallet           |-> w,
             amount           |-> TicketPrice * participant[w].tickets_bought,
             tickets_refunded |-> participant[w].tickets_bought ]})

LogCloseRefundVault ==
  /\ CloseRefundVault
  /\ Emit({[ event                 |-> "RefundVaultClosed",
             refunds_claimed_count |-> lottery.settlement_batches_completed,
             vault_rent_reclaimed  |-> vault ]})

LogCloseParticipant(w) ==
  CloseParticipant(w) /\ Emit({[event |-> "ParticipantClosed", wallet |-> w]})

LogInit == Init /\ log = {}

LogNext ==
  \/ Tick /\ UNCHANGED log
  \/ \E w \in Wallet : LogBuy(w)
  \/ LogBegin
  \/ \E w \in Wallet : LogAttest(w)
  \/ LogUpload
  \/ LogFinalizeWinners
  \/ LogSettle
  \/ LogFinalizeNoAttesters
  \/ \E w \in Wallet : LogClaimRefund(w)
  \/ LogCloseRefundVault
  \/ \E w \in Wallet : LogCloseParticipant(w)

LogSpec == LogInit /\ [][LogNext]_<<vars, log>>

(***************************************************************************)
(* What a replay reads off the log.                                        *)
(***************************************************************************)
Told(name) == { e \in log : e.event = name }

TheOnly(name) == CHOOSE e \in Told(name) : TRUE

PaidTo(w) ==
  MapThenSumSet(LAMBDA e : e.amount,
    { e \in Told("WinnerPaid") : e.winner = w }
      \cup { e \in Told("RefundClaimed") : e.wallet = w })

RentAndFees ==
  MapThenSumSet(LAMBDA e : e.service_fee + e.remainder + e.vault_rent_reclaimed,
                Told("ServiceFeePaid"))
    + MapThenSumSet(LAMBDA e : e.vault_rent_reclaimed, Told("RefundVaultClosed"))

(* README.md: event replay can rebuild the winner set, also after every    *)
(* participant account is closed.  The pages, entry by entry, are those of *)
(* the events; an entry is at the index under which it is paid; and the    *)
(* set is announced as complete exactly when the round is to pay it.       *)
WinnersReplayed ==
  /\ { << e.page_index, e.page_offset, e.winner, e.tickets >> : e \in Told("WinnerSelected") }
       = { << PageOf(i), OffsetOf(i), EntryAt(i).wallet, EntryAt(i).tickets >>
           : i \in 0..root.selected_count - 1 }
  /\ \A e \in Told("WinnerSelected") :
       e.winner_index = e.page_index * WINNERS_PER_PAGE + e.page_offset
  /\ IF lottery.winners_count = 0
     THEN Told("WinnersFinalized") = {}
     ELSE /\ Cardinality(Told("WinnersFinalized")) = 1
          /\ TheOnly("WinnersFinalized").winners_count = Cardinality(Told("WinnerSelected"))
          /\ TheOnly("WinnersFinalized").total_payout = lottery.total_payout

(* Who put in and who got out how much, and which winners are still to be  *)
(* paid, can be told from the log alone, however batches overlapped; of    *)
(* the authority's share when there was a fee or a remainder.              *)
MoneyReplayed ==
  /\ lottery.total_funds = MapThenSumSet(LAMBDA e : e.amount_paid, Told("TicketsPurchased"))
  /\ \A w \in Wallet :
       /\ received[w] = PaidTo(w)
       /\ participant[w].tickets_bought =
            Max({0} \cup { e.total_tickets_for_participant :
                             e \in { f \in Told("TicketsPurchased") : f.buyer = w } })
  /\ lottery.paid_winners_bitmap = { e.winner_index : e \in Told("WinnerPaid") }
  /\ ~(lottery.settlement_complete /\ lottery.total_funds = lottery.total_payout)
       => received[Authority] = RentAndFees

(* How far the round is can be told from the log: who attested and how     *)
(* they voted, which remediation window is running, and whether and how    *)
(* the round ended, which is announced once.                               *)
ProgressReplayed ==
  /\ { << e.wallet, e.voted_number_of_winners >> : e \in Told("AttestationSubmitted") }
       = { << w, participant[w].voted_winners >> : w \in Attested }
  /\ { << e.remediation_start_unix, e.remediation_deadline_unix >>
         : e \in Told("RevealRemediationBegan") }
       = IF lottery.remediation_start_unix = 0
         THEN {}
         ELSE {<< lottery.remediation_start_unix, lottery.remediation_deadline_unix >>}
  /\ RefundPath <=> Told("LotterySettled") # {}
  /\ RefundPath <=> Told("RefundsIssued") # {}
  /\ lottery.settlement_complete <=> Told("PayoutsComplete") # {}
  /\ Told("LotterySettled") = {} \/ Told("PayoutsComplete") = {}

(* What is left in the vault can be told from the log alone (events.rs:    *)
(* events contain all data needed for state reconstruction), except after  *)
(* payouts without a fee or a remainder: no event then carries the rent.   *)
VaultReplayed ==
  ~(lottery.settlement_complete /\ lottery.total_funds = lottery.total_payout) =>
    vault = VaultRent + MapThenSumSet(LAMBDA e : e.amount_paid, Told("TicketsPurchased"))
              - MapThenSumSet(LAMBDA w : PaidTo(w), Wallet) - RentAndFees
===============================================================================
