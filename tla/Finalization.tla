----------------------------- MODULE Finalization -----------------------------
(***************************************************************************)
(* FinalizeWinners, one transaction per chunk of participant accounts.     *)
(* The first passes aggregate the pool of eligible tickets; then one pass  *)
(* per winner walks the same accounts in index order and stops at the one  *)
(* whose tickets cover the draw.  Anyone may send any chunk, in any        *)
(* transaction, between any other instructions of the round.               *)
(*                                                                         *)
(* A draw is a hash of the seed and of the round: a number below the       *)
(* tickets that remain, of which nothing else is known.                    *)
(***************************************************************************)
EXTENDS RoundState

FinalizationOpen ==
  /\ ~lottery.settlement_complete /\ ~lottery.settled
  /\ lottery.participants_count > 1
  /\ lottery.attested_count # 0

(* FinalizeWinners while attested reveals are missing.                     *)
StartRemediation ==
  /\ FinalizationOpen
  /\ MissingAttestedReveals
  /\ UploadElapsed
  /\ lottery.remediation_start_unix = 0
  /\ lottery' = BeginRemediation(lottery, TRUE)
  /\ UNCHANGED <<now, participant, tally, root, pages, vault, received>>

(* Mutant: finalization starts as soon as no attested reveal is missing.   *)
MayFinalizeEarly == FinalizationOpen /\ ~MissingAttestedReveals

(* FinalizeWinners may work on the ledger.                                 *)
MayFinalize ==
  /\ FinalizationOpen
  /\ ~MissingAttestedReveals
  /\ lottery.uploads_complete \/ UploadElapsed
  /\ root.phase # "absent" => root.required_count = lottery.participants_count

(* The accounts a pass expects next: exactly size of them, from cursor on. *)
Chunk(cursor, size) ==
  { w \in Wallet : /\ Exists(w)
                   /\ participant[w].participant_index \in cursor..cursor + size - 1 }

(* Mutant: the winner of the last round is still pending in the next.      *)
KeepPending(ledger, draw) ==
  [ ledger EXCEPT !.phase                        = "selecting",
                  !.round_processed_count        = 0,
                  !.round_remaining_tickets_seen = 0,
                  !.round_draw_index             = draw ]

BeginSelectionRound(ledger, draw) ==
  [ ledger EXCEPT !.phase                        = "selecting",
                  !.round_processed_count        = 0,
                  !.round_remaining_tickets_seen = 0,
                  !.round_draw_index             = draw,
                  !.pending_winner               = NoWallet,
                  !.pending_winner_tickets       = 0,
                  !.pending_winner_found         = FALSE ]

RemainingTickets(ledger) ==
  ledger.total_eligible_tickets - ledger.selected_tickets_total

(***************************************************************************)
(* The aggregation pass.                                                   *)
(***************************************************************************)
Ledger ==
  IF root.phase = "absent"
  THEN NewLedger("aggregating", lottery.participants_count)
  ELSE root

Aggregated(size) ==
  LET eligible == Chunk(Ledger.processed_count, size) \cap Included
  IN  [ Ledger EXCEPT
          !.processed_count         = @ + size,
          !.eligible_count          = @ + Cardinality(eligible),
          !.total_eligible_tickets  = @ + TicketsOf(eligible),
          !.participants_commitment = @ \cup
              { [ index   |-> participant[w].participant_index,
                  wallet  |-> w,
                  tickets |-> participant[w].tickets_bought ] : w \in eligible } ]

MayAggregate(size) ==
  LET chunk == Chunk(Ledger.processed_count, size)
      pool  == Aggregated(size)
  IN  /\ MayFinalize
      /\ Ledger.phase = "aggregating"
      /\ size > 0 /\ Cardinality(chunk) = size
      /\ \A w \in chunk : participant[w].tickets_bought > 0 /\ ~participant[w].finalized
      /\ pool.eligible_count \in U64
      /\ pool.total_eligible_tickets \in U64
      /\ participant' = [w \in Wallet |->
           IF w \in chunk
           THEN [participant[w] EXCEPT !.finalized = TRUE]
           ELSE participant[w]]
      /\ UNCHANGED <<now, tally, pages, vault, received>>

AggregateChunk(size) ==
  /\ MayAggregate(size)
  /\ Aggregated(size).processed_count < Ledger.required_count
  /\ root' = Aggregated(size)
  /\ UNCHANGED lottery

(* The last chunk freezes the pool, the target and the seed, and draws.    *)
CloseAggregation(size) ==
  LET pool   == Aggregated(size)
      target == AtMost(AtMost(AtLeast(lottery.selected_number_of_winners, 1), MaxWinners),
                       pool.eligible_count)
      seed   == [ eligible  |-> pool.eligible_count,
                  tickets   |-> pool.total_eligible_tickets,
                  aggregate |-> lottery.poc_aggregate_hash,
                  pool      |-> pool.participants_commitment ]
  IN  /\ MayAggregate(size)
      /\ pool.processed_count = pool.required_count
      /\ pool.eligible_count # 0 /\ pool.total_eligible_tickets # 0
      /\ SelectableWinners(target)
      /\ \E draw \in 0..RemainingTickets(pool) - 1 :
           root' = BeginSelectionRound(
                     [pool EXCEPT !.target_winners = target, !.seed = seed], draw)
      /\ lottery' = [lottery EXCEPT !.selected_number_of_winners = target]

(***************************************************************************)
(* The selection passes.                                                   *)
(***************************************************************************)
(* Mutant: earlier winners keep their tickets in the draw.                 *)
AllCandidates(size) ==
  { w \in Chunk(root.round_processed_count, size) : participant[w].reveal_included }

Candidates(size) ==
  { w \in Chunk(root.round_processed_count, size) :
      participant[w].reveal_included /\ ~participant[w].selected }

(* Mutant: tickets of earlier chunks are not counted.                      *)
FirstTicketInChunk(w, candidates) ==
  TicketsOf({ v \in candidates :
                participant[v].participant_index < participant[w].participant_index })

(* Position of the first ticket of w among those of the pass.              *)
FirstTicket(w, candidates) ==
  root.round_remaining_tickets_seen
    + TicketsOf({ v \in candidates :
                    participant[v].participant_index < participant[w].participant_index })

(* The candidate whose tickets cover the draw, if it is in this chunk.     *)
Hit(size) ==
  LET candidates == Candidates(size)
      Covered(w) == LET first == FirstTicket(w, candidates)
                    IN  first..first + participant[w].tickets_bought - 1
  IN  { w \in candidates : ~root.pending_winner_found /\ root.round_draw_index \in Covered(w) }

Scanned(size) ==
  LET passed  == [ root EXCEPT
                     !.round_processed_count        = @ + size,
                     !.round_remaining_tickets_seen = @ + TicketsOf(Candidates(size)) ]
      hit     == Hit(size)
      pending == CHOOSE w \in hit : TRUE
  IN  IF hit = {}
      THEN passed
      ELSE [ passed EXCEPT !.pending_winner         = pending,
                           !.pending_winner_tickets = participant[pending].tickets_bought,
                           !.pending_winner_found   = TRUE ]

MayScan(size) ==
  LET chunk == Chunk(root.round_processed_count, size)
      hit   == Hit(size)
  IN  /\ MayFinalize
      /\ root.phase = "selecting"
      /\ size > 0 /\ Cardinality(chunk) = size
      /\ \A w \in chunk : participant[w].tickets_bought > 0 /\ participant[w].finalized
      /\ Scanned(size).round_remaining_tickets_seen \in U64
      /\ participant' = [w \in Wallet |->
           IF w \in hit
           THEN [participant[w] EXCEPT !.selected = TRUE]
           ELSE participant[w]]
      /\ UNCHANGED <<now, tally, vault, received>>

ScanChunk(size) ==
  LET scanned == Scanned(size)
  IN  /\ MayScan(size)
      /\ scanned.round_processed_count < root.required_count
      /\ root' = scanned
      /\ UNCHANGED <<lottery, pages>>

(* Mutant: a round waits for the tickets of earlier winners too.           *)
WinnerFoundInFullPool(ledger) ==
  /\ ledger.round_processed_count = ledger.required_count
  /\ ledger.round_remaining_tickets_seen = ledger.total_eligible_tickets
  /\ ledger.pending_winner_found

(* A round may end: every remaining ticket was seen and one was drawn.     *)
WinnerFound(ledger) ==
  /\ ledger.round_processed_count = ledger.required_count
  /\ ledger.round_remaining_tickets_seen = RemainingTickets(ledger)
  /\ ledger.pending_winner_found

RecordWinner(ledger) ==
  [ ledger EXCEPT !.selected_count         = @ + 1,
                  !.selected_tickets_total = @ + ledger.pending_winner_tickets ]

(* record_winner and the append to the page that is next to fill.          *)
AppendWinner(ledger) ==
  LET page == ledger.selected_count \div WINNERS_PER_PAGE
  IN  /\ ledger.selected_count < ledger.target_winners
      /\ RecordWinner(ledger).selected_tickets_total \in U64
      /\ Len(pages[page].entries) < WINNERS_PER_PAGE
      /\ pages' = [pages EXCEPT ![page].entries =
           Append(@, [ wallet  |-> ledger.pending_winner,
                       tickets |-> ledger.pending_winner_tickets ])]

(* The last chunk of a round that is not the last one draws again.         *)
CloseRound(size) ==
  LET scanned == Scanned(size)
      ledger  == RecordWinner(scanned)
  IN  /\ MayScan(size)
      /\ WinnerFound(scanned)
      /\ AppendWinner(scanned)
      /\ ledger.selected_count # ledger.target_winners
      /\ \E draw \in 0..RemainingTickets(ledger) - 1 :
           root' = BeginSelectionRound(ledger, draw)
      /\ UNCHANGED lottery

(* Mutant: shares of zero lamports.                                        *)
SharesSomething(pool, winners) == pool > 0

SharesALamport(pool, winners) == pool >= winners

(* The last chunk of the last round fixes the payouts.                     *)
CompleteFinalization(size) ==
  LET scanned == Scanned(size)
      ledger  == RecordWinner(scanned)
      winners == ledger.selected_count
      pool    == WinnersPool(lottery.total_funds, ServiceChargeBps)
  IN  /\ MayScan(size)
      /\ WinnerFound(scanned)
      /\ AppendWinner(scanned)
      /\ winners = ledger.target_winners
      /\ SharesALamport(pool, winners)
      /\ winners <= MAX_WINNERS
      /\ root' = [ledger EXCEPT !.phase = "completed"]
      /\ lottery' = [lottery EXCEPT
           !.winners_count         = winners,
           !.total_payout          = (pool \div winners) * winners,
           !.paid_winners_bitmap   = { i \in @ : i >= 8 * ((winners + 7) \div 8) },
           !.settlement_start_unix = IF @ = 0 THEN now ELSE @]
===============================================================================
