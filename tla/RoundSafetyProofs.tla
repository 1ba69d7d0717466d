--------------------------- MODULE RoundSafetyProofs --------------------------
(***************************************************************************)
(* What holds of every round, for any set of wallets, any price, fee, cap  *)
(* and window: accounts keep their types, no draw leaves an attested       *)
(* reveal out, the two ends of a round exclude each other, tickets are     *)
(* frozen once anyone can attest, and no deadline is brought forward.      *)
(*                                                                         *)
(* Types are inductive but for one field: the pending winner is a wallet   *)
(* once one is found (TypeInv).  Each lemma names the values its           *)
(* instruction computes, types them one by one and puts them back into the *)
(* account.                                                                *)
(*                                                                         *)
(* The next two are not inductive.  FinalizeWinners and                    *)
(* FinalizeNoAttesters look only at the counters of the Lottery account,   *)
(* so the argument needs the counters to agree with the participants       *)
(* (Counted); and a ledger, once there, must keep new attestations out,    *)
(* which rests on the way the program closes the upload phase (Opened,     *)
(* Decided).                                                               *)
(***************************************************************************)
EXTENDS Round, TLAPS, FiniteSetTheorems

(***************************************************************************)
(* Types.                                                                  *)
(***************************************************************************)
(* The state CreateLottery leaves is well typed.                             *)
LEMMA InitTypeOK == ASSUME Init PROVE TypeOK
<1> USE RoundAssumption
<1>1. now \in Nat BY DEF Init, CreatedAt
<1>2. lottery \in LotteryAccount
  BY DEF Init, NewLottery, LotteryAccount, BuyDeadline, CreatedAt, U64
<1>3. participant \in [Wallet -> ParticipantAccount]
  BY DEF Init, NewParticipant, ParticipantAccount, U64
<1>4. root \in FinalizationLedger
  BY DEF Init, NewLedger, NoSeed, FinalizationLedger, Seed, U64
<1>5. pages \in [PageIndex -> WinnerPage]
  BY DEF Init, NoPage, WinnerPage
<1>6. vault \in Nat /\ received \in [Recipient -> Nat]
  BY DEF Init
<1> QED BY <1>1, <1>2, <1>3, <1>4, <1>5, <1>6 DEF TypeOK

(* The winner a pass has found is a wallet, never the default key: without   *)
(* this a page could get an entry that is none.                              *)
PendingIsWallet == root.pending_winner_found => root.pending_winner \in Wallet

TypeInv == TypeOK /\ PendingIsWallet

(* The clock keeps the types.                                                *)
LEMMA TypeTick == ASSUME TypeInv, Tick PROVE TypeInv'
  BY DEF TypeInv, TypeOK, PendingIsWallet, Tick

(* Every sum of a purchase is checked against u64, so it keeps the types.    *)
LEMMA TypeBuyTickets ==
  ASSUME TypeInv, NEW w \in Wallet, NEW count \in Nat, BuyTickets(w, count)
  PROVE  TypeInv'
<1> DEFINE first   == ~Exists(w)
           account == IF first
                      THEN NewParticipant("open", lottery.participants_count)
                      ELSE participant[w]
           cost    == TicketPrice * count
           buyers  == lottery.participants_count + (IF first THEN 1 ELSE 0)
           tickets == account.tickets_bought + count
           total   == lottery.total_tickets + count
           funds   == lottery.total_funds + cost
<1>1. /\ {cost, buyers, tickets, total, funds} \subseteq U64
      /\ participant' = [participant EXCEPT
           ![w] = [account EXCEPT !.tickets_bought = tickets]]
      /\ lottery' = [lottery EXCEPT !.participants_count = buyers,
                                    !.total_tickets      = total,
                                    !.total_funds        = funds]
      /\ vault' = vault + cost
      /\ UNCHANGED <<now, tally, root, pages, received>>
  BY DEF BuyTickets, Checked
<1>2. account \in ParticipantAccount
  BY RoundAssumption
  DEF TypeInv, TypeOK, NewParticipant, ParticipantAccount, LotteryAccount, U64
<1>3. cost \in U64 /\ buyers \in U64 /\ tickets \in U64 /\ total \in U64 /\ funds \in U64
  BY <1>1
<1> HIDE DEF account, cost, buyers, tickets, total, funds
<1>4. participant' \in [Wallet -> ParticipantAccount]
  BY <1>1, <1>2, <1>3 DEF TypeInv, TypeOK, ParticipantAccount
<1>5. lottery' \in LotteryAccount
  BY <1>1, <1>3 DEF TypeInv, TypeOK, LotteryAccount
<1>6. vault' \in Nat
  BY <1>1, <1>3, RoundAssumption DEF TypeInv, TypeOK, U64
<1> QED BY <1>1, <1>4, <1>5, <1>6 DEF TypeInv, TypeOK, PendingIsWallet

(* An early reveal phase keeps the types.                                    *)
LEMMA TypeBeginReveal ==
  ASSUME TypeInv, NEW a \in Nat, NEW u \in Nat, BeginReveal(a, u)
  PROVE  TypeInv'
<1> DEFINE deadline == AtLeast(AttestationEnd(a), AttestationEnd(a) + OrDefault(u))
           begun    == [lottery EXCEPT !.upload_start_unix    = now,
                                       !.upload_deadline_unix = deadline]
<1>1. deadline \in Nat
  BY RoundAssumption
  DEF TypeInv, TypeOK, LotteryAccount, AttestationEnd, OrDefault, AtLeast
<1>2. lottery' = IF lottery.participants_count = 1
                 THEN [begun EXCEPT !.uploads_complete           = TRUE,
                                    !.poc_aggregate_hash         = {NoWallet},
                                    !.selected_number_of_winners = 1]
                 ELSE begun
  BY DEF BeginReveal
<1> HIDE DEF deadline
<1>3. begun \in LotteryAccount BY <1>1 DEF TypeInv, TypeOK, LotteryAccount
<1> HIDE DEF begun
<1>4. lottery' \in LotteryAccount BY <1>2, <1>3 DEF LotteryAccount
<1> QED BY <1>4 DEF TypeInv, TypeOK, PendingIsWallet, BeginReveal

(* An attestation keeps the types.                                           *)
LEMMA TypeAttestUploaded ==
  ASSUME TypeInv, NEW w \in Wallet, NEW vote \in Nat, AttestUploaded(w, vote)
  PROVE  TypeInv'
<1> DEFINE attested == lottery.attested_count + 1
           start    == StartOfSettlement(AllAttested(attested))
<1>1. participant' = [participant EXCEPT ![w] = VoteAndAttest(participant[w], vote)]
  BY DEF AttestUploaded
<1>2. lottery' = [lottery EXCEPT !.attested_count        = attested,
                                !.settlement_start_unix = start]
  BY DEF AttestUploaded
<1>3. attested \in Nat BY DEF TypeInv, TypeOK, LotteryAccount
<1>4. start \in Nat
  BY DEF TypeInv, TypeOK, LotteryAccount, StartOfSettlement
<1> HIDE DEF attested, start
<1>5. participant' \in [Wallet -> ParticipantAccount]
  BY ZenonT(30), <1>1 DEF TypeInv, TypeOK, VoteAndAttest, ParticipantAccount
<1>6. lottery' \in LotteryAccount
  BY <1>2, <1>3, <1>4 DEF TypeInv, TypeOK, LotteryAccount
<1> QED BY <1>5, <1>6 DEF TypeInv, TypeOK, PendingIsWallet, AttestUploaded

(* An attestation that publishes its reveal keeps the types.                 *)
LEMMA TypeAttestReveal ==
  ASSUME TypeInv, NEW w \in Wallet, NEW vote \in Nat, AttestReveal(w, vote)
  PROVE  TypeInv'
<1> DEFINE attested == lottery.attested_count + 1
           uploaded == lottery.provider_uploaded_count + 1
           voted    == [AddVote(OpenTally, vote, participant[w].tickets_bought, now)
                          EXCEPT !.processed = @ + 1]
           chosen   == SelectedWinners(voted, lottery.participants_count)
           hash     == SymDiff(lottery.poc_aggregate_hash, {w})
           winners  == IF lottery.participants_count > 1
                       THEN chosen ELSE lottery.selected_number_of_winners
           start    == StartOfSettlement(AllAttested(attested))
           complete == \/ lottery.uploads_complete
                       \/ /\ uploaded >= attested
                          /\ AllAttested(attested) \/ UploadElapsed
<1>1. participant' = [participant EXCEPT
        ![w] = [VoteAndAttest(participant[w], vote) EXCEPT !.reveal_included = TRUE]]
  BY DEF AttestReveal
<1>2. lottery' = [lottery EXCEPT !.attested_count             = attested,
                                !.provider_uploaded_count    = uploaded,
                                !.poc_aggregate_hash         = hash,
                                !.selected_number_of_winners = winners,
                                !.settlement_start_unix      = start,
                                !.uploads_complete           = complete]
  BY DEF AttestReveal
<1>3. lottery.participants_count > 1 => SelectableWinners(chosen)
  BY DEF AttestReveal
<1> HIDE DEF voted, chosen
<1>4. attested \in Nat /\ uploaded \in Nat BY DEF TypeInv, TypeOK, LotteryAccount
<1>5. winners \in Nat
  BY <1>3 DEF TypeInv, TypeOK, LotteryAccount, SelectableWinners, U64
<1>6. start \in Nat
  BY DEF TypeInv, TypeOK, LotteryAccount, StartOfSettlement
<1>7. hash \in SUBSET (Wallet \cup {NoWallet})
  BY DEF TypeInv, TypeOK, LotteryAccount, SymDiff
<1>8. complete \in BOOLEAN
  BY DEF TypeInv, TypeOK, LotteryAccount
<1> HIDE DEF attested, uploaded, hash, winners, start, complete
<1>9. participant' \in [Wallet -> ParticipantAccount]
  BY ZenonT(30), <1>1 DEF TypeInv, TypeOK, VoteAndAttest, ParticipantAccount
<1>10. lottery' \in LotteryAccount
  BY <1>2, <1>4, <1>5, <1>6, <1>7, <1>8 DEF TypeInv, TypeOK, LotteryAccount
<1> QED BY <1>9, <1>10 DEF TypeInv, TypeOK, PendingIsWallet, AttestReveal

(* begin_remediation returns a Lottery account.                              *)
LEMMA BeginRemediationType ==
  ASSUME TypeOK, NEW condition \in BOOLEAN
  PROVE  BeginRemediation(lottery, condition) \in LotteryAccount
<1> DEFINE deadline == now + RemediationWindow
<1>1. deadline \in Nat BY RoundAssumption DEF TypeOK
<1>2. CASE condition /\ lottery.remediation_start_unix = 0
  <2>1. BeginRemediation(lottery, condition)
          = [lottery EXCEPT !.remediation_start_unix    = now,
                            !.remediation_deadline_unix = deadline]
    BY <1>2 DEF BeginRemediation
  <2> HIDE DEF deadline
  <2> QED BY ZenonT(30), <1>1, <2>1 DEF TypeOK, LotteryAccount
<1>3. CASE ~(condition /\ lottery.remediation_start_unix = 0)
  BY <1>3 DEF TypeOK, BeginRemediation
<1> QED BY <1>2, <1>3

(* A batch of reveals keeps the types, whoever uploads it.                   *)
LEMMA TypeUploadReveals ==
  ASSUME TypeInv, NEW byAuthority \in BOOLEAN, NEW S \in SUBSET Wallet,
         UploadReveals(byAuthority, S)
  PROVE  TypeInv'
<1> DEFINE begun    == BeginRemediation(lottery, CanRemediate(byAuthority))
           voted    == AddVotes(OpenTally, S)
           chosen   == SelectedWinners(voted, lottery.participants_count)
           uploaded == lottery.provider_uploaded_count + Cardinality(S)
           complete == uploaded >= lottery.attested_count
           hash     == SymDiff(begun.poc_aggregate_hash, S)
           start    == StartOfSettlement(TRUE)
<1>1. participant' = [w \in Wallet |->
        IF w \in S
        THEN [participant[w] EXCEPT !.reveal_included = TRUE]
        ELSE participant[w]]
  BY DEF UploadReveals, MayUpload
<1>2. lottery' = [begun EXCEPT !.provider_uploaded_count    = uploaded,
                              !.uploads_complete           = complete,
                              !.poc_aggregate_hash         = hash,
                              !.selected_number_of_winners = chosen,
                              !.settlement_start_unix      = start]
  BY DEF UploadReveals, MayUpload
<1>3. SelectableWinners(chosen) BY DEF UploadReveals, MayUpload
<1> HIDE DEF voted, chosen
<1>4. begun \in LotteryAccount
  BY BeginRemediationType DEF TypeInv, CanRemediate
<1>5. chosen \in Nat
  BY <1>3 DEF TypeInv, TypeOK, LotteryAccount, SelectableWinners, U64
<1>6. uploaded \in Nat /\ complete \in BOOLEAN
  <2>1. Cardinality(S) \in Nat
    BY RoundAssumption, FS_Subset, FS_CardinalityType
  <2> QED BY <2>1 DEF TypeInv, TypeOK, LotteryAccount
<1>7. start \in Nat BY DEF TypeInv, TypeOK, LotteryAccount, StartOfSettlement
<1>8. hash \in SUBSET (Wallet \cup {NoWallet})
  BY <1>4 DEF LotteryAccount, SymDiff
<1> HIDE DEF begun, uploaded, complete, hash, start
<1>9. participant' \in [Wallet -> ParticipantAccount]
  BY ZenonT(30), <1>1 DEF TypeInv, TypeOK, ParticipantAccount
<1>10. lottery' \in LotteryAccount
  BY <1>2, <1>4, <1>5, <1>6, <1>7, <1>8 DEF LotteryAccount
<1> QED BY <1>9, <1>10 DEF TypeInv, TypeOK, PendingIsWallet, UploadReveals, MayUpload

(* FinalizeWinners that only opens remediation keeps the types.              *)
LEMMA TypeStartRemediation == ASSUME TypeInv, StartRemediation PROVE TypeInv'
<1>1. lottery' \in LotteryAccount
  BY BeginRemediationType DEF TypeInv, StartRemediation
<1> QED BY <1>1 DEF TypeInv, TypeOK, PendingIsWallet, StartRemediation

(* A ledger of the declared shape whose pending winner is a wallet.          *)
Sound(ledger) ==
  /\ ledger \in FinalizationLedger
  /\ ledger.pending_winner_found => ledger.pending_winner \in Wallet

(* The ledger a chunk starts from is sound, new or not.                      *)
LEMMA LedgerSound == ASSUME TypeInv PROVE Sound(Ledger)
<1>1. CASE root.phase = "absent"
  BY <1>1, RoundAssumption
  DEF TypeInv, TypeOK, Ledger, NewLedger, NoSeed, Sound, FinalizationLedger, Seed,
      LotteryAccount, U64
<1>2. CASE root.phase # "absent"
  BY <1>2 DEF TypeInv, TypeOK, PendingIsWallet, Ledger, Sound
<1> QED BY <1>1, <1>2

(* A chunk of the aggregation leaves a sound ledger when its sums fit.       *)
LEMMA AggregatedSound ==
  ASSUME TypeInv, NEW size \in Nat,
         Aggregated(size).eligible_count \in U64,
         Aggregated(size).total_eligible_tickets \in U64
  PROVE  Sound(Aggregated(size))
<1> DEFINE eligible  == Chunk(Ledger.processed_count, size) \cap Included
           processed == Ledger.processed_count + size
           count     == Ledger.eligible_count + Cardinality(eligible)
           tickets   == Ledger.total_eligible_tickets + TicketsOf(eligible)
           pool      == Ledger.participants_commitment \cup
                          { [ index   |-> participant[w].participant_index,
                              wallet  |-> w,
                              tickets |-> participant[w].tickets_bought ] : w \in eligible }
<1>1. Aggregated(size) = [ Ledger EXCEPT !.processed_count         = processed,
                                         !.eligible_count          = count,
                                         !.total_eligible_tickets  = tickets,
                                         !.participants_commitment = pool ]
  BY DEF Aggregated
<1>2. Sound(Ledger) BY LedgerSound
<1>3. processed \in Nat BY <1>2 DEF Sound, FinalizationLedger
<1>4. pool \subseteq PoolEntry
  <2>1. eligible \subseteq Wallet BY DEF Chunk
  <2>2. \A w \in eligible : [ index   |-> participant[w].participant_index,
                             wallet  |-> w,
                             tickets |-> participant[w].tickets_bought ] \in PoolEntry
    BY <2>1 DEF TypeInv, TypeOK, ParticipantAccount, PoolEntry
  <2> HIDE DEF eligible
  <2> QED BY <1>2, <2>2 DEF Sound, FinalizationLedger
<1> HIDE DEF processed, count, tickets, pool
<1>5. count \in U64 /\ tickets \in U64
  BY <1>1, <1>2 DEF Sound, FinalizationLedger
<1> QED BY ZenonT(30), <1>1, <1>2, <1>3, <1>4, <1>5 DEF Sound, FinalizationLedger

(* begin_selection_round leaves a sound ledger.                              *)
LEMMA BeginSelectionRoundSound ==
  ASSUME NEW ledger, Sound(ledger), NEW draw \in Nat
  PROVE  Sound(BeginSelectionRound(ledger, draw))
<1> DEFINE round == BeginSelectionRound(ledger, draw)
<1>1. 0 \in U64 BY RoundAssumption DEF U64
<1>2. round \in FinalizationLedger
  BY <1>1 DEF Sound, FinalizationLedger, BeginSelectionRound
<1>3. round.pending_winner_found = FALSE
  BY DEF Sound, FinalizationLedger, BeginSelectionRound
<1> QED BY <1>2, <1>3 DEF Sound

(* An account keeps its type when it is flagged.                             *)
LEMMA FlaggedType ==
  ASSUME NEW a \in ParticipantAccount
  PROVE  /\ [a EXCEPT !.finalized = TRUE] \in ParticipantAccount
         /\ [a EXCEPT !.selected = TRUE] \in ParticipantAccount
  BY DEF ParticipantAccount

(* A chunk of the aggregation that is not the last keeps the types.          *)
LEMMA TypeAggregateChunk ==
  ASSUME TypeInv, NEW size \in Nat, AggregateChunk(size) PROVE TypeInv'
<1>1. Sound(Aggregated(size)) BY AggregatedSound DEF AggregateChunk, MayAggregate
<1>2. participant' \in [Wallet -> ParticipantAccount]
  <2>1. participant' = [w \in Wallet |->
          IF w \in Chunk(Ledger.processed_count, size)
          THEN [participant[w] EXCEPT !.finalized = TRUE]
          ELSE participant[w]]
    BY DEF AggregateChunk, MayAggregate
  <2>2. participant \in [Wallet -> ParticipantAccount] BY DEF TypeInv, TypeOK
  <2> QED BY <2>1, <2>2, FlaggedType
<1> QED BY <1>1, <1>2
        DEF TypeInv, TypeOK, PendingIsWallet, Sound, AggregateChunk, MayAggregate

(* The last chunk of the aggregation, which freezes the seed, keeps the      *)
(* types.                                                                    *)
LEMMA TypeCloseAggregation ==
  ASSUME TypeInv, NEW size \in Nat, CloseAggregation(size) PROVE TypeInv'
<1> DEFINE pool   == Aggregated(size)
           target == AtMost(AtMost(AtLeast(lottery.selected_number_of_winners, 1), MaxWinners),
                            pool.eligible_count)
           seed   == [ eligible  |-> pool.eligible_count,
                       tickets   |-> pool.total_eligible_tickets,
                       aggregate |-> lottery.poc_aggregate_hash,
                       pool      |-> pool.participants_commitment ]
           frozen == [pool EXCEPT !.target_winners = target, !.seed = seed]
<1>1. Sound(pool) BY AggregatedSound DEF CloseAggregation, MayAggregate
<1>2. participant' \in [Wallet -> ParticipantAccount]
  <2>1. participant' = [w \in Wallet |->
          IF w \in Chunk(Ledger.processed_count, size)
          THEN [participant[w] EXCEPT !.finalized = TRUE]
          ELSE participant[w]]
    BY DEF CloseAggregation, MayAggregate
  <2>2. participant \in [Wallet -> ParticipantAccount] BY DEF TypeInv, TypeOK
  <2> QED BY <2>1, <2>2, FlaggedType
<1>3. target \in Nat
  <2>1. SelectableWinners(target) BY DEF CloseAggregation
  <2> HIDE DEF target
  <2> QED BY <2>1 DEF TypeInv, TypeOK, LotteryAccount, SelectableWinners, U64
<1>4. /\ lottery' = [lottery EXCEPT !.selected_number_of_winners = target]
      /\ \E draw \in 0..RemainingTickets(pool) - 1 :
           root' = BeginSelectionRound(frozen, draw)
      /\ UNCHANGED <<now, tally, pages, vault, received>>
  BY DEF CloseAggregation, MayAggregate
<1> HIDE DEF pool, target
<1>5. seed \in Seed
  BY <1>1 DEF TypeInv, TypeOK, LotteryAccount, Sound, FinalizationLedger, Seed
<1> HIDE DEF seed
<1>6. Sound(frozen) BY <1>1, <1>3, <1>5 DEF Sound, FinalizationLedger
<1> HIDE DEF frozen
<1>7. Sound(root')
  BY <1>4, <1>6, BeginSelectionRoundSound
<1>8. lottery' \in LotteryAccount BY <1>3, <1>4 DEF TypeInv, TypeOK, LotteryAccount
<1> QED BY <1>2, <1>4, <1>7, <1>8 DEF TypeInv, TypeOK, PendingIsWallet, Sound

(* Who is hit by the draw is a wallet.                                       *)
LEMMA HitIsWallet == ASSUME NEW size \in Nat PROVE Hit(size) \subseteq Wallet
  BY DEF Hit, Candidates, Chunk

(* A chunk of a selection pass leaves a sound ledger when its sums fit.      *)
LEMMA ScannedSound ==
  ASSUME TypeInv, NEW size \in Nat, Scanned(size).round_remaining_tickets_seen \in U64
  PROVE  Sound(Scanned(size))
<1> DEFINE processed == root.round_processed_count + size
           seen      == root.round_remaining_tickets_seen + TicketsOf(Candidates(size))
           passed    == [ root EXCEPT !.round_processed_count        = processed,
                                      !.round_remaining_tickets_seen = seen ]
           pending   == CHOOSE w \in Hit(size) : TRUE
<1>1. processed \in Nat BY DEF TypeInv, TypeOK, FinalizationLedger
<1>2. CASE Hit(size) = {}
  <2>1. Scanned(size) = passed BY <1>2 DEF Scanned
  <2> HIDE DEF processed, seen
  <2>2. seen \in U64 BY <2>1 DEF TypeInv, TypeOK, FinalizationLedger
  <2> QED BY <1>1, <2>1, <2>2 DEF TypeInv, TypeOK, PendingIsWallet, Sound, FinalizationLedger
<1>3. CASE Hit(size) # {}
  <2> DEFINE tickets == participant[pending].tickets_bought
  <2>1. Scanned(size) = [ passed EXCEPT !.pending_winner         = pending,
                                        !.pending_winner_tickets = tickets,
                                        !.pending_winner_found   = TRUE ]
    BY <1>3 DEF Scanned
  <2>2. pending \in Wallet BY <1>3, HitIsWallet
  <2> HIDE DEF processed, seen, pending
  <2>3. tickets \in U64 BY <2>2 DEF TypeInv, TypeOK, ParticipantAccount
  <2> HIDE DEF tickets
  <2>4. seen \in U64 BY <2>1 DEF TypeInv, TypeOK, FinalizationLedger
  <2>5. passed \in FinalizationLedger BY <1>1, <2>4 DEF TypeInv, TypeOK, FinalizationLedger
  <2> HIDE DEF passed
  <2>6. PICK q : q = [ passed EXCEPT !.pending_winner         = pending,
                                     !.pending_winner_tickets = tickets,
                                     !.pending_winner_found   = TRUE ]
    OBVIOUS
  <2>7. Scanned(size) = q BY <2>1, <2>6
  <2>8. q \in FinalizationLedger BY <2>2, <2>3, <2>5, <2>6 DEF FinalizationLedger
  <2>9. q.pending_winner = pending BY <2>5, <2>6 DEF FinalizationLedger
  <2> QED BY <2>2, <2>7, <2>8, <2>9 DEF Sound
<1> QED BY <1>2, <1>3

(* What every chunk of a selection pass does to the accounts is well         *)
(* typed.                                                                    *)
LEMMA MayScanTypes ==
  ASSUME TypeInv, NEW size \in Nat, MayScan(size)
  PROVE  /\ Sound(Scanned(size))
         /\ participant' \in [Wallet -> ParticipantAccount]
<1>1. Sound(Scanned(size)) BY ScannedSound DEF MayScan
<1>2. participant' = [w \in Wallet |->
        IF w \in Hit(size)
        THEN [participant[w] EXCEPT !.selected = TRUE]
        ELSE participant[w]]
  BY DEF MayScan
<1>3. participant' \in [Wallet -> ParticipantAccount]
  <2>1. participant \in [Wallet -> ParticipantAccount] BY DEF TypeInv, TypeOK
  <2> QED BY <1>2, <2>1, FlaggedType
<1> QED BY <1>1, <1>3

(* A chunk of a selection pass that is not the last keeps the types.         *)
LEMMA TypeScanChunk == ASSUME TypeInv, NEW size \in Nat, ScanChunk(size) PROVE TypeInv'
<1>1. Sound(Scanned(size)) /\ participant' \in [Wallet -> ParticipantAccount]
  BY MayScanTypes DEF ScanChunk
<1> QED BY <1>1 DEF TypeInv, TypeOK, PendingIsWallet, Sound, ScanChunk, MayScan

(* record_winner leaves a sound ledger, and the pages hold proper entries.   *)
LEMMA AppendWinnerTypes ==
  ASSUME TypeOK, NEW ledger, Sound(ledger), ledger.pending_winner_found, AppendWinner(ledger)
  PROVE  /\ Sound(RecordWinner(ledger))
         /\ RecordWinner(ledger).selected_count = ledger.selected_count + 1
         /\ pages' \in [PageIndex -> WinnerPage]
<1> DEFINE page   == ledger.selected_count \div WINNERS_PER_PAGE
           winner == [ wallet  |-> ledger.pending_winner,
                       tickets |-> ledger.pending_winner_tickets ]
           count  == ledger.selected_count + 1
           total  == ledger.selected_tickets_total + ledger.pending_winner_tickets
<1>1. RecordWinner(ledger) = [ledger EXCEPT !.selected_count         = count,
                                            !.selected_tickets_total = total]
  BY DEF RecordWinner
<1>2. /\ RecordWinner(ledger).selected_tickets_total \in U64
      /\ pages' = [pages EXCEPT ![page].entries = Append(pages[page].entries, winner)]
  BY DEF AppendWinner
<1>3. count \in Nat BY DEF Sound, FinalizationLedger
<1>4. winner \in SelectedWinner BY DEF Sound, FinalizationLedger, SelectedWinner
<1> HIDE DEF page, winner, count, total
<1>5. total \in U64 BY <1>1, <1>2 DEF Sound, FinalizationLedger
<1>6. Sound(RecordWinner(ledger)) BY <1>1, <1>3, <1>5 DEF Sound, FinalizationLedger
<1>7. RecordWinner(ledger).selected_count = ledger.selected_count + 1
  BY <1>1 DEF Sound, FinalizationLedger, count
<1>8. pages' \in [PageIndex -> WinnerPage]
  <2>1. CASE page \in PageIndex
    <3>1. pages[page] \in WinnerPage BY <2>1 DEF TypeOK
    <3>2. Append(pages[page].entries, winner) \in Seq(SelectedWinner)
      BY <1>4, <3>1 DEF WinnerPage
    <3>3. [pages[page] EXCEPT !.entries = Append(pages[page].entries, winner)] \in WinnerPage
      BY <3>1, <3>2 DEF WinnerPage
    <3> QED BY <1>2, <2>1, <3>3 DEF TypeOK
  <2>2. CASE page \notin PageIndex
    BY <1>2, <2>2 DEF TypeOK
  <2> QED BY <2>1, <2>2
<1> QED BY <1>6, <1>7, <1>8

(* The same of the chunk that ends a selection pass.                         *)
LEMMA ScannedWinner ==
  ASSUME TypeInv, NEW size \in Nat, MayScan(size), WinnerFound(Scanned(size)),
         AppendWinner(Scanned(size))
  PROVE  /\ Sound(RecordWinner(Scanned(size)))
         /\ RecordWinner(Scanned(size)).selected_count \in Nat \ {0}
         /\ pages' \in [PageIndex -> WinnerPage]
         /\ participant' \in [Wallet -> ParticipantAccount]
<1>1. Sound(Scanned(size)) /\ participant' \in [Wallet -> ParticipantAccount]
  BY MayScanTypes
<1>2. Scanned(size).pending_winner_found BY DEF WinnerFound
<1>3. /\ Sound(RecordWinner(Scanned(size)))
      /\ RecordWinner(Scanned(size)).selected_count = Scanned(size).selected_count + 1
      /\ pages' \in [PageIndex -> WinnerPage]
  BY <1>1, <1>2, AppendWinnerTypes DEF TypeInv
<1>4. Scanned(size).selected_count \in Nat BY <1>1 DEF Sound, FinalizationLedger
<1> QED BY <1>1, <1>3, <1>4

(* The end of a selection pass that is not the last keeps the types.         *)
LEMMA TypeCloseRound == ASSUME TypeInv, NEW size \in Nat, CloseRound(size) PROVE TypeInv'
<1> DEFINE ledger == RecordWinner(Scanned(size))
<1>1. /\ Sound(ledger)
      /\ pages' \in [PageIndex -> WinnerPage]
      /\ participant' \in [Wallet -> ParticipantAccount]
  BY ScannedWinner DEF CloseRound
<1>2. \E draw \in 0..RemainingTickets(ledger) - 1 : root' = BeginSelectionRound(ledger, draw)
  BY DEF CloseRound
<1> HIDE DEF ledger
<1>3. Sound(root') BY <1>1, <1>2, BeginSelectionRoundSound
<1> QED BY <1>1, <1>3 DEF TypeInv, TypeOK, PendingIsWallet, Sound, CloseRound, MayScan

(* The service fee never exceeds the funds it is taken from.               *)
LEMMA ServiceFeeBound ==
  ASSUME NEW funds \in Nat, NEW bps \in Nat, bps < 10000
  PROVE  ServiceFee(funds, bps) \in 0..funds
<1>1. funds * bps \in Nat /\ funds * bps <= funds * 10000 OBVIOUS
<1> DEFINE product == funds * bps
<1> HIDE DEF product
<1>2. product \in Nat /\ product <= funds * 10000 BY <1>1 DEF product
<1>3. product \div 10000 \in 0..funds BY <1>2
<1> QED BY <1>3 DEF ServiceFee, product

(* The fee of this round is between nothing and its funds.                   *)
LEMMA ServiceFeeType ==
  ASSUME TypeOK
  PROVE  ServiceFee(lottery.total_funds, ServiceChargeBps) \in 0..lottery.total_funds
<1>1. ServiceChargeBps \in Nat /\ ServiceChargeBps < 10000 BY RoundAssumption
<1>2. lottery.total_funds \in Nat BY RoundAssumption DEF TypeOK, LotteryAccount, U64
<1> QED BY <1>1, <1>2, ServiceFeeBound

(* Equal shares never add up to more than the pool.                        *)
LEMMA SharesBound ==
  ASSUME NEW pool \in Nat, NEW winners \in Nat \ {0}
  PROVE  (pool \div winners) * winners \in 0..pool
  OBVIOUS

(* The end of the last selection pass keeps the types: what it promises to   *)
(* pay fits the funds of the round.                                          *)
LEMMA TypeCompleteFinalization ==
  ASSUME TypeInv, NEW size \in Nat, CompleteFinalization(size) PROVE TypeInv'
<1> DEFINE ledger  == RecordWinner(Scanned(size))
           winners == ledger.selected_count
           pool    == WinnersPool(lottery.total_funds, ServiceChargeBps)
           payout  == (pool \div winners) * winners
           bitmap  == { i \in lottery.paid_winners_bitmap : i >= 8 * ((winners + 7) \div 8) }
           start   == IF lottery.settlement_start_unix = 0
                      THEN now ELSE lottery.settlement_start_unix
<1>1. /\ Sound(ledger) /\ winners \in Nat \ {0}
      /\ pages' \in [PageIndex -> WinnerPage]
      /\ participant' \in [Wallet -> ParticipantAccount]
  BY ScannedWinner DEF CompleteFinalization
<1>2. /\ root' = [ledger EXCEPT !.phase = "completed"]
      /\ lottery' = [lottery EXCEPT !.winners_count         = winners,
                                    !.total_payout          = payout,
                                    !.paid_winners_bitmap   = bitmap,
                                    !.settlement_start_unix = start]
      /\ UNCHANGED <<now, vault, received>>
  BY DEF CompleteFinalization, MayScan
<1>3. pool \in 0..lottery.total_funds
  <2>1. lottery.total_funds \in Nat
    BY RoundAssumption DEF TypeInv, TypeOK, LotteryAccount, U64
  <2>3. ServiceFee(lottery.total_funds, ServiceChargeBps) \in 0..lottery.total_funds
    BY ServiceFeeType DEF TypeInv
  <2> DEFINE fee == ServiceFee(lottery.total_funds, ServiceChargeBps)
  <2>4. pool = lottery.total_funds - fee BY DEF WinnersPool
  <2> HIDE DEF fee, pool
  <2> QED BY <2>1, <2>3, <2>4 DEF fee
<1> HIDE DEF ledger, pool
<1>4. payout \in U64
  <2>1. lottery.total_funds \in U64 BY DEF TypeInv, TypeOK, LotteryAccount
  <2>2. pool \in Nat BY <1>3
  <2> HIDE DEF winners
  <2>3. payout \in 0..pool BY <1>1, <2>2, SharesBound
  <2> HIDE DEF payout
  <2> QED BY <1>3, <2>1, <2>3, RoundAssumption DEF U64
<1>5. bitmap \in SUBSET Nat BY DEF TypeInv, TypeOK, LotteryAccount
<1>6. start \in Nat BY DEF TypeInv, TypeOK, LotteryAccount
<1>7. root' \in FinalizationLedger /\ PendingIsWallet'
  BY <1>1, <1>2 DEF Sound, FinalizationLedger, PendingIsWallet
<1> HIDE DEF winners, payout, bitmap, start
<1>8. lottery' \in LotteryAccount
  BY <1>1, <1>2, <1>4, <1>5, <1>6 DEF TypeInv, TypeOK, LotteryAccount
<1> QED BY <1>1, <1>2, <1>7, <1>8 DEF TypeInv, TypeOK

(* A payout batch keeps the types: it never takes more than the vault has,   *)
(* and pays no negative amount.                                              *)
LEMMA TypeSettlePayoutBatch ==
  ASSUME TypeInv, NEW batch \in SUBSET (0..lottery.winners_count - 1),
         SettlePayoutBatch(batch)
  PROVE  TypeInv'
<1> DEFINE page    == PageOf(CHOOSE i \in batch : TRUE)
           amount  == lottery.total_payout \div lottery.winners_count
           due     == { i \in batch : i \notin lottery.paid_winners_bitmap }
           bitmap  == lottery.paid_winners_bitmap \cup due
           left    == vault - amount * Cardinality(due)
           paid    == [ r \in Recipient |->
                          received[r] + amount * Cardinality({ i \in due : WinnerAt(i) = r }) ]
           last    == AllWinnersPaid(bitmap)
           batches == AtMost(lottery.settlement_batches_completed + 1, U32_MAX)
           settled == lottery.settled \/ last
           slots   == pages[page].paid \cup { OffsetOf(i) : i \in due }
<1>1. lottery' = [lottery EXCEPT !.paid_winners_bitmap          = bitmap,
                                !.settlement_batches_completed = batches,
                                !.settlement_complete          = last,
                                !.settled                      = settled]
  BY DEF SettlePayoutBatch
<1>2. /\ lottery.winners_count # 0
      /\ pages' = [pages EXCEPT ![page].paid = slots]
      /\ vault' = IF last THEN 0 ELSE left
      /\ received' = IF last THEN [paid EXCEPT ![Authority] = paid[Authority] + left]
                             ELSE paid
      /\ UNCHANGED <<now, participant, tally, root>>
  BY DEF SettlePayoutBatch
<1>3. lottery.winners_count \in Nat \ {0} /\ lottery.total_payout \in Nat
  <2>1. lottery \in LotteryAccount BY DEF TypeInv, TypeOK
  <2>2. lottery.total_payout \in Nat BY <2>1, RoundAssumption DEF LotteryAccount, U64
  <2>3. lottery.winners_count \in Nat BY <2>1 DEF LotteryAccount
  <2> QED BY <1>2, <2>2, <2>3
<1>4. amount \in Nat BY <1>3
<1>5. due \subseteq 0..lottery.winners_count - 1 OBVIOUS
<1>6. \A S \in SUBSET due : Cardinality(S) \in Nat
  <2>1. IsFiniteSet(0..lottery.winners_count - 1)
    <3>1. PICK n : n = lottery.winners_count - 1 OBVIOUS
    <3>2. n \in Int BY <1>3, <3>1
    <3>3. IsFiniteSet(0..n) BY <3>2, FS_Interval
    <3> QED BY <3>1, <3>3, Zenon
  <2> HIDE DEF due
  <2> QED BY <1>5, <2>1, FS_Subset, FS_CardinalityType
<1>7. bitmap \in SUBSET Nat
  BY <1>3, <1>5 DEF TypeInv, TypeOK, LotteryAccount
<1>8. slots \in SUBSET Nat \/ page \notin PageIndex
  <2>1. { OffsetOf(i) : i \in due } \subseteq Nat
    BY <1>3, RoundAssumption DEF OffsetOf
  <2>2. page \in PageIndex => pages[page].paid \in SUBSET Nat
    BY DEF TypeInv, TypeOK, WinnerPage
  <2> HIDE DEF due, page
  <2> QED BY <2>1, <2>2
<1>9. left \in Int
  BY <1>4, <1>6 DEF TypeInv, TypeOK
<1>10. left \in Nat
  <2>1. lottery.total_funds \in Nat
    BY RoundAssumption DEF TypeInv, TypeOK, LotteryAccount, U64
  <2> DEFINE fee  == ServiceFee(lottery.total_funds, ServiceChargeBps)
             rest == AtLeast(lottery.total_funds - lottery.total_payout - fee, 0)
  <2>2. left >= IF last THEN fee + rest ELSE 0 BY DEF SettlePayoutBatch
  <2>3. fee \in 0..lottery.total_funds BY ServiceFeeType DEF TypeInv
  <2> HIDE DEF left, fee, last
  <2>4. rest \in Nat BY <1>3, <2>1, <2>3 DEF AtLeast
  <2> HIDE DEF rest
  <2> QED BY <1>9, <2>2, <2>3, <2>4
<1>11. paid \in [Recipient -> Nat]
  <2> HIDE DEF due, amount
  <2> QED BY <1>4, <1>6 DEF TypeInv, TypeOK
<1>12. batches \in Nat /\ last \in BOOLEAN /\ settled \in BOOLEAN
  BY RoundAssumption DEF TypeInv, TypeOK, LotteryAccount, AtMost, AllWinnersPaid
<1> HIDE DEF page, amount, due, bitmap, left, paid, last, batches, settled, slots
<1>13. lottery' \in LotteryAccount
  BY <1>1, <1>7, <1>12 DEF TypeInv, TypeOK, LotteryAccount
<1>14. pages' \in [PageIndex -> WinnerPage]
  <2>1. CASE page \in PageIndex
    <3>1. [pages[page] EXCEPT !.paid = slots] \in WinnerPage
      BY <1>8, <2>1 DEF TypeInv, TypeOK, WinnerPage
    <3> QED BY <1>2, <2>1, <3>1 DEF TypeInv, TypeOK
  <2>2. CASE page \notin PageIndex
    BY <1>2, <2>2 DEF TypeInv, TypeOK
  <2> QED BY <2>1, <2>2
<1>15. vault' \in Nat BY <1>2, <1>10
<1>16. received' \in [Recipient -> Nat]
  BY <1>2, <1>10, <1>11 DEF Recipient
<1> QED BY <1>2, <1>13, <1>14, <1>15, <1>16 DEF TypeInv, TypeOK, PendingIsWallet

(* Settling for refunds keeps the types.                                     *)
LEMMA TypeFinalizeNoAttesters ==
  ASSUME TypeInv, FinalizeNoAttesters PROVE TypeInv'
  BY DEF TypeInv, TypeOK, LotteryAccount, PendingIsWallet, FinalizeNoAttesters

(* A refund keeps the types: the vault covers it.                            *)
LEMMA TypeClaimRefund ==
  ASSUME TypeInv, NEW w \in Wallet, ClaimRefund(w) PROVE TypeInv'
<1> DEFINE amount  == TicketPrice * participant[w].tickets_bought
           batches == lottery.settlement_batches_completed + 1
<1>1. /\ amount \in U64 /\ vault >= amount /\ vault' = vault - amount
      /\ received' = [received EXCEPT ![w] = received[w] + amount]
      /\ participant' = [participant EXCEPT ![w].refund_claimed = TRUE]
      /\ lottery' = [lottery EXCEPT !.settlement_batches_completed = batches]
      /\ UNCHANGED <<now, tally, root, pages>>
  BY DEF ClaimRefund, Pay
<1> HIDE DEF amount
<1>2. amount \in Nat BY <1>1, RoundAssumption DEF U64
<1>3. vault' \in Nat BY <1>1, <1>2 DEF TypeInv, TypeOK
<1>4. received' \in [Recipient -> Nat] BY <1>1, <1>2 DEF TypeInv, TypeOK, Recipient
<1>5. participant' \in [Wallet -> ParticipantAccount]
  <2>1. participant \in [Wallet -> ParticipantAccount] BY DEF TypeInv, TypeOK
  <2> QED BY <1>1, <2>1 DEF ParticipantAccount
<1>6. lottery' \in LotteryAccount
  <2>1. lottery \in LotteryAccount BY DEF TypeInv, TypeOK
  <2>2. batches \in Nat BY <2>1 DEF LotteryAccount
  <2> HIDE DEF batches
  <2> QED BY <1>1, <2>1, <2>2 DEF LotteryAccount
<1> QED BY <1>1, <1>3, <1>4, <1>5, <1>6 DEF TypeInv, TypeOK, PendingIsWallet

(* Closing the vault keeps the types.                                        *)
LEMMA TypeCloseRefundVault ==
  ASSUME TypeInv, CloseRefundVault PROVE TypeInv'
  BY DEF TypeInv, TypeOK, PendingIsWallet, CloseRefundVault, Pay, Recipient

(* Closing a participant account keeps the types.                            *)
LEMMA TypeCloseParticipant ==
  ASSUME TypeInv, NEW w \in Wallet, CloseParticipant(w) PROVE TypeInv'
<1>1. participant' \in [Wallet -> ParticipantAccount]
  BY DEF TypeInv, TypeOK, ParticipantAccount, CloseParticipant
<1> QED BY <1>1 DEF TypeInv, TypeOK, PendingIsWallet, CloseParticipant

(* TypeInv holds at first.                                                   *)
LEMMA InitTypeInv == ASSUME Init PROVE TypeInv
<1>1. PendingIsWallet BY DEF Init, NewLedger, PendingIsWallet
<1> QED BY <1>1, InitTypeOK DEF TypeInv

(* Every step keeps TypeInv, one step of the proof for each instruction.     *)
LEMMA TypeNext == ASSUME TypeInv, [Next]_vars PROVE TypeInv'
<1>1. CASE Tick BY <1>1, TypeTick
<1>2. ASSUME NEW w \in Wallet, Buy(w) PROVE TypeInv'
  BY <1>2, TypeBuyTickets, InputAssumption DEF Buy
<1>3. CASE Begin BY <1>3, TypeBeginReveal, InputAssumption DEF Begin
<1>4. ASSUME NEW w \in Wallet, Attest(w) PROVE TypeInv'
  <2>1. 1..MaxWinnersCap \subseteq Nat BY RoundAssumption
  <2> QED BY <1>4, <2>1, TypeAttestUploaded, TypeAttestReveal DEF Attest
<1>5. CASE Upload BY <1>5, TypeUploadReveals DEF Upload
<1>6. CASE FinalizeWinners
  <2>1. Sizes \subseteq Nat BY DEF Sizes
  <2> QED BY <1>6, <2>1, TypeStartRemediation, TypeAggregateChunk, TypeCloseAggregation,
             TypeScanChunk, TypeCloseRound, TypeCompleteFinalization DEF FinalizeWinners
<1>7. CASE Settle BY <1>7, TypeSettlePayoutBatch DEF Settle
<1>8. CASE FinalizeNoAttesters BY <1>8, TypeFinalizeNoAttesters
<1>9. ASSUME NEW w \in Wallet, ClaimRefund(w) PROVE TypeInv' BY <1>9, TypeClaimRefund
<1>10. CASE CloseRefundVault BY <1>10, TypeCloseRefundVault
<1>11. ASSUME NEW w \in Wallet, CloseParticipant(w) PROVE TypeInv'
  BY <1>11, TypeCloseParticipant
<1>12. CASE UNCHANGED vars BY <1>12 DEF TypeInv, TypeOK, PendingIsWallet, vars
<1> QED
  BY <1>1, <1>2, <1>3, <1>4, <1>5, <1>6, <1>7, <1>8, <1>9, <1>10, <1>11, <1>12 DEF Next

(* TypeInv is an invariant.                                                  *)
LEMMA TypeInvariant == Spec => []TypeInv
<1>1. Init => TypeInv BY InitTypeInv
<1>2. TypeInv /\ [Next]_vars => TypeInv' BY TypeNext
<1> QED BY <1>1, <1>2, PTL DEF Spec

(* The accounts keep the shapes their Rust structs declare, every u64        *)
(* total stays within u64, and the vault never goes below zero, for any      *)
(* number of wallets and any parameters of the round.                        *)
THEOREM TypeCorrect == Spec => []TypeOK
<1>1. TypeInv => TypeOK BY DEF TypeInv
<1> QED BY <1>1, TypeInvariant, PTL

(***************************************************************************)
(* The invariant behind the draw and the two ends.                         *)
(***************************************************************************)
(* The counters of the Lottery account count the flags.                    *)
Counted ==
  /\ Included \subseteq Attested
  /\ lottery.attested_count = Cardinality(Attested)
  /\ lottery.provider_uploaded_count = Cardinality(Included)

(* Reveals are attested only after the start of the upload phase, and      *)
(* uploads are complete, in a round of several, only when no attested      *)
(* reveal is missing and settlement has begun, which closes the upload     *)
(* phase.                                                                  *)
Opened ==
  /\ now > 0
  /\ lottery.attested_count > 0 \/ lottery.uploads_complete => UploadStarted
  /\ lottery.uploads_complete /\ lottery.participants_count > 1 =>
       lottery.settlement_start_unix # 0 /\ ~MissingAttestedReveals

(* What let the first chunk of FinalizeWinners in stays true.              *)
Decided ==
  root.phase # "absent" =>
    /\ lottery.attested_count # 0 /\ ~MissingAttestedReveals
    /\ lottery.participants_count > 1
    /\ lottery.uploads_complete \/ UploadElapsed

Settling == Counted /\ Opened /\ Decided

Safe == TypeInv /\ Settling /\ RefundXorWinners

(***************************************************************************)
(* Lemmas about steps that leave most of this alone.                       *)
(***************************************************************************)
(* Attested and Included depend on their flags only.                       *)
LEMMA SameFlags ==
  ASSUME \A w \in Wallet :
           /\ participant'[w].attested_uploaded = participant[w].attested_uploaded
           /\ participant'[w].reveal_included = participant[w].reveal_included
  PROVE  Attested' = Attested /\ Included' = Included
  BY DEF Attested, Included

(* Wallets that attested or were included are wallets: finite sets.        *)
LEMMA FlagSetsFinite ==
  /\ IsFiniteSet(Attested) /\ IsFiniteSet(Included)
  /\ Cardinality(Attested) \in Nat /\ Cardinality(Included) \in Nat
<1>1. Attested \in SUBSET Wallet /\ Included \in SUBSET Wallet
  BY DEF Attested, Included
<1>2. IsFiniteSet(Attested) /\ IsFiniteSet(Included)
  BY <1>1, FS_Subset, RoundAssumption
<1> QED BY <1>2, FS_CardinalityType

(* Counters of the attestation phase and its deadlines stay as they are.   *)
SameCounters ==
  /\ lottery'.attested_count = lottery.attested_count
  /\ lottery'.provider_uploaded_count = lottery.provider_uploaded_count
  /\ lottery'.uploads_complete = lottery.uploads_complete
  /\ lottery'.participants_count = lottery.participants_count
  /\ lottery'.upload_start_unix = lottery.upload_start_unix
  /\ lottery'.upload_deadline_unix = lottery.upload_deadline_unix
  /\ lottery'.settlement_start_unix \in {lottery.settlement_start_unix, now}
  /\ \A w \in Wallet :
       /\ participant'[w].attested_uploaded = participant[w].attested_uploaded
       /\ participant'[w].reveal_included = participant[w].reveal_included

(* A step that leaves the counters alone keeps Settling, if it creates a   *)
(* ledger only when FinalizeWinners may.                                   *)
LEMMA SettlingKept ==
  ASSUME TypeOK, TypeOK', Settling, SameCounters, now' >= now,
         root'.phase = root.phase \/ MayFinalize
  PROVE  Settling'
<1>1. Attested' = Attested /\ Included' = Included
  BY SameFlags DEF SameCounters
<1>2. Counted' BY <1>1 DEF Settling, Counted, SameCounters
<1>3. Opened'
  BY DEF Settling, Opened, SameCounters, UploadStarted, MissingAttestedReveals, TypeOK,
         LotteryAccount
<1>4. Decided'
  <2>1. root.phase # "absent" \/ MayFinalize =>
          /\ lottery.attested_count # 0 /\ ~MissingAttestedReveals
          /\ lottery.participants_count > 1
          /\ lottery.uploads_complete \/ UploadElapsed
    BY DEF Settling, Decided, MayFinalize, FinalizationOpen
  <2>2. ~MissingAttestedReveals => ~MissingAttestedReveals'
    BY DEF SameCounters, MissingAttestedReveals
  <2>3. UploadElapsed => UploadElapsed'
    BY DEF SameCounters, UploadElapsed, TypeOK, LotteryAccount
  <2> QED BY <2>1, <2>2, <2>3 DEF Decided, SameCounters
<1> QED BY <1>2, <1>3, <1>4 DEF Settling

(* Before a round is settled nobody has a refund.                          *)
LEMMA NoRefundYet ==
  ASSUME RefundXorWinners, ~lottery.settled
  PROVE  \A w \in Wallet : ~participant[w].refund_claimed
  BY DEF RefundXorWinners, RefundPath

(* While a round stays unsettled, the two ends exclude each other.         *)
LEMMA UnsettledExclusive ==
  ASSUME RefundXorWinners, ~lottery.settled, ~lottery'.settled,
         \A w \in Wallet :
           participant'[w].refund_claimed => participant[w].refund_claimed
  PROVE  RefundXorWinners'
  BY NoRefundYet DEF RefundXorWinners, RefundPath

(* A step that touches neither the end of the round nor the flags.         *)
LEMMA ExclusiveKept ==
  ASSUME RefundXorWinners, root'.phase = root.phase,
         lottery'.settled = lottery.settled,
         lottery'.winners_count = lottery.winners_count,
         \A w \in Wallet :
           /\ participant'[w].attested_uploaded = participant[w].attested_uploaded
           /\ participant'[w].reveal_included = participant[w].reveal_included
           /\ participant'[w].refund_claimed = participant[w].refund_claimed
  PROVE  RefundXorWinners'
<1>1. Attested' = Attested /\ Included' = Included BY SameFlags
<1> QED BY <1>1 DEF RefundXorWinners, RefundPath

(* No ledger before the first attestation, and no attestation before the   *)
(* start of the upload phase.                                              *)
LEMMA NothingBeforeUpload ==
  ASSUME TypeOK, Settling, ~UploadStarted
  PROVE  /\ Attested = {} /\ Included = {}
         /\ lottery.attested_count = 0 /\ lottery.provider_uploaded_count = 0
         /\ ~lottery.uploads_complete
         /\ root.phase = "absent"
<1>1. lottery.attested_count = 0 /\ ~lottery.uploads_complete
  BY DEF Settling, Opened, TypeOK, LotteryAccount
<1>2. Attested = {}
  BY <1>1, FlagSetsFinite, FS_EmptySet DEF Settling, Counted
<1>3. Included = {} /\ lottery.provider_uploaded_count = 0
  BY <1>2, FS_EmptySet DEF Settling, Counted
<1> QED BY <1>1, <1>2, <1>3 DEF Settling, Decided

(* Nobody can attest once a ledger exists.                                 *)
LEMMA NoAttestationAfterLedger ==
  ASSUME TypeOK, Settling, InUploadPhase
  PROVE  root.phase = "absent" /\ ~UploadElapsed /\ ~lottery.settled
<1>1. ~UploadElapsed /\ ~lottery.settled /\ lottery.settlement_start_unix = 0
  BY DEF InUploadPhase, UploadElapsed, TypeOK, LotteryAccount
<1> QED BY <1>1 DEF Settling, Opened, Decided

(***************************************************************************)
(* One lemma per action.  TypeInv' is TypeNext.                            *)
(***************************************************************************)
(* Time passing keeps Safe.                                                  *)
LEMMA SafeTick ==
  ASSUME Safe, TypeInv', Tick PROVE Settling' /\ RefundXorWinners'
<1>1. Settling'
  BY SettlingKept DEF Safe, TypeInv, TypeOK, Tick, SameCounters
<1>2. RefundXorWinners' BY ExclusiveKept DEF Safe, Tick
<1> QED BY <1>1, <1>2

(* Tickets are sold only while nobody has attested and there is no ledger,   *)
(* so a new or reused account disturbs nothing.                              *)
LEMMA SafeBuyTickets ==
  ASSUME Safe, TypeInv', NEW w \in Wallet, NEW count \in Nat, BuyTickets(w, count)
  PROVE  Settling' /\ RefundXorWinners'
<1>1. ~UploadStarted /\ ~lottery.settled BY DEF BuyTickets, InBuyWindow
<1>2. /\ Attested = {} /\ Included = {}
      /\ lottery.attested_count = 0 /\ lottery.provider_uploaded_count = 0
      /\ ~lottery.uploads_complete /\ root.phase = "absent"
  BY <1>1, NothingBeforeUpload DEF Safe, TypeInv
<1> DEFINE account == IF ~Exists(w)
                      THEN NewParticipant("open", lottery.participants_count)
                      ELSE participant[w]
           tickets == account.tickets_bought + count
<1>3. /\ participant' = [participant EXCEPT
           ![w] = [account EXCEPT !.tickets_bought = tickets]]
      /\ lottery' = [lottery EXCEPT
           !.participants_count = lottery.participants_count + (IF ~Exists(w) THEN 1 ELSE 0),
           !.total_tickets      = lottery.total_tickets + count,
           !.total_funds        = lottery.total_funds + TicketPrice * count]
      /\ UNCHANGED <<now, tally, root, pages, received>>
  BY DEF BuyTickets
<1>4. account \in ParticipantAccount
  BY RoundAssumption
  DEF Safe, TypeInv, TypeOK, NewParticipant, ParticipantAccount, LotteryAccount, U64
<1>5. account.refund_claimed => participant[w].refund_claimed
  BY DEF NewParticipant
<1>6. ~account.attested_uploaded /\ ~account.reveal_included
  BY <1>2 DEF NewParticipant, Attested, Included
<1> HIDE DEF account, tickets
<1>7. Attested' = {} /\ Included' = {}
  <2>1. \A v \in Wallet : /\ ~participant'[v].attested_uploaded
                          /\ ~participant'[v].reveal_included
    BY <1>2, <1>3, <1>4, <1>6
    DEF Safe, TypeInv, TypeOK, ParticipantAccount, Attested, Included
  <2> QED BY <2>1 DEF Attested, Included
<1>8. /\ lottery'.attested_count = 0 /\ lottery'.provider_uploaded_count = 0
      /\ ~lottery'.uploads_complete /\ ~lottery'.settled
  BY <1>1, <1>2, <1>3 DEF Safe, TypeInv, TypeOK, LotteryAccount
<1>9. Counted' BY <1>7, <1>8, FS_EmptySet DEF Counted
<1>10. Settling'
  BY <1>2, <1>3, <1>8, <1>9 DEF Safe, Settling, Opened, Decided
<1>11. \A v \in Wallet : participant'[v].refund_claimed => participant[v].refund_claimed
  BY <1>3, <1>4, <1>5 DEF Safe, TypeInv, TypeOK, ParticipantAccount
<1> QED BY <1>1, <1>8, <1>10, <1>11, UnsettledExclusive DEF Safe

(* An early reveal phase starts from a round without attestations.           *)
LEMMA SafeBeginReveal ==
  ASSUME Safe, TypeInv', NEW a \in Nat, NEW u \in Nat, BeginReveal(a, u)
  PROVE  Settling' /\ RefundXorWinners'
<1>1. /\ ~UploadStarted /\ ~lottery.settled
      /\ UNCHANGED <<now, participant, tally, root, pages, vault, received>>
  BY DEF BeginReveal
<1>2. /\ Attested = {} /\ Included = {}
      /\ lottery.attested_count = 0 /\ lottery.provider_uploaded_count = 0
      /\ root.phase = "absent"
  BY <1>1, NothingBeforeUpload DEF Safe, TypeInv
<1> DEFINE deadline == AtLeast(AttestationEnd(a), AttestationEnd(a) + OrDefault(u))
           begun    == [lottery EXCEPT !.upload_start_unix    = now,
                                       !.upload_deadline_unix = deadline]
<1>3. lottery' = IF lottery.participants_count = 1
                 THEN [begun EXCEPT !.uploads_complete           = TRUE,
                                    !.poc_aggregate_hash         = {NoWallet},
                                    !.selected_number_of_winners = 1]
                 ELSE begun
  BY DEF BeginReveal
<1> HIDE DEF deadline
<1>4. /\ lottery'.attested_count = 0 /\ lottery'.provider_uploaded_count = 0
      /\ ~lottery'.settled /\ lottery'.upload_start_unix = now
      /\ lottery'.participants_count = lottery.participants_count
      /\ lottery'.uploads_complete =>
           lottery.participants_count = 1 \/ lottery.uploads_complete
  BY <1>1, <1>2, <1>3 DEF Safe, TypeInv, TypeOK, LotteryAccount
<1>5. ~lottery.uploads_complete
  BY <1>1, NothingBeforeUpload DEF Safe, TypeInv
<1>6. Attested' = {} /\ Included' = {} BY <1>1, <1>2 DEF Attested, Included
<1>7. Counted' BY <1>4, <1>6, FS_EmptySet DEF Counted
<1>8. Opened'
  <2>1. now > 0 /\ now' = now /\ now \in Nat
    BY <1>1 DEF Safe, Settling, Opened, TypeInv, TypeOK
  <2> QED BY <1>4, <1>5, <2>1 DEF Opened, UploadStarted
<1>9. Settling' BY <1>1, <1>2, <1>7, <1>8 DEF Settling, Decided
<1> QED BY <1>1, <1>4, <1>9, UnsettledExclusive DEF Safe

(* A wallet that may attest has not done so, and its reveal is not         *)
(* included; attesting adds it to the former set.                          *)
LEMMA AttestedGrows ==
  ASSUME Safe, NEW w \in Wallet, ~participant[w].attested_uploaded, NEW included \in BOOLEAN,
         NEW vote \in Nat,
         participant' = [participant EXCEPT
           ![w] = [VoteAndAttest(participant[w], vote) EXCEPT !.reveal_included = included]]
  PROVE  /\ Attested' = Attested \cup {w}
         /\ Cardinality(Attested') = lottery.attested_count + 1
         /\ included => Cardinality(Included') = lottery.provider_uploaded_count + 1
         /\ ~included => Cardinality(Included') = lottery.provider_uploaded_count
         /\ Included' \subseteq Attested'
         /\ \A v \in Wallet : participant'[v].refund_claimed => participant[v].refund_claimed
<1>1. w \notin Attested /\ w \notin Included
  BY DEF Safe, Settling, Counted, Attested, Included
<1> DEFINE account == [VoteAndAttest(participant[w], vote) EXCEPT !.reveal_included = included]
<1>2. /\ account.attested_uploaded = TRUE /\ account.reveal_included = included
      /\ account.refund_claimed = FALSE
  BY DEF Safe, TypeInv, TypeOK, ParticipantAccount, VoteAndAttest
<1> HIDE DEF account
<1>3. participant' = [participant EXCEPT ![w] = account] BY DEF account
<1>4. /\ participant'[w] = account
      /\ \A v \in Wallet \ {w} : participant'[v] = participant[v]
  BY <1>3 DEF Safe, TypeInv, TypeOK
<1>5. Attested' = Attested \cup {w} BY <1>2, <1>4 DEF Attested
<1>6. Included' = IF included THEN Included \cup {w} ELSE Included
  BY <1>1, <1>2, <1>4 DEF Included
<1>7. Cardinality(Attested') = lottery.attested_count + 1
  BY <1>1, <1>5, FlagSetsFinite, FS_AddElement DEF Safe, Settling, Counted
<1>8. /\ included => Cardinality(Included') = lottery.provider_uploaded_count + 1
      /\ ~included => Cardinality(Included') = lottery.provider_uploaded_count
  BY ZenonT(30), <1>1, <1>6, FlagSetsFinite, FS_AddElement DEF Safe, Settling, Counted
<1>9. Included' \subseteq Attested' BY <1>5, <1>6 DEF Safe, Settling, Counted
<1> QED BY <1>2, <1>4, <1>5, <1>6, <1>7, <1>8, <1>9

(* An attestation comes before any ledger and moves flag and counter         *)
(* together.                                                                 *)
LEMMA SafeAttestUploaded ==
  ASSUME Safe, TypeInv', NEW w \in Wallet, NEW vote \in Nat, AttestUploaded(w, vote)
  PROVE  Settling' /\ RefundXorWinners'
<1>1. /\ ~participant[w].attested_uploaded /\ InUploadPhase
      /\ UNCHANGED <<now, tally, root, pages, vault, received>>
  BY DEF AttestUploaded, MayAttest
<1>2. root.phase = "absent" /\ ~lottery.settled /\ UploadStarted
  BY <1>1, NoAttestationAfterLedger DEF Safe, TypeInv, InUploadPhase
<1> DEFINE attested == lottery.attested_count + 1
           start    == StartOfSettlement(AllAttested(attested))
<1>3. lottery' = [lottery EXCEPT !.attested_count        = attested,
                                !.settlement_start_unix = start]
  BY DEF AttestUploaded
<1>4. ~participant[w].reveal_included
  BY <1>1 DEF Safe, Settling, Counted, Attested, Included
<1>5. participant' = [participant EXCEPT
        ![w] = [VoteAndAttest(participant[w], vote) EXCEPT !.reveal_included = FALSE]]
  <2>1. [VoteAndAttest(participant[w], vote) EXCEPT !.reveal_included = FALSE]
          = VoteAndAttest(participant[w], vote)
    BY DEF Safe, TypeInv, TypeOK, ParticipantAccount, VoteAndAttest
  <2> QED BY <2>1 DEF AttestUploaded
<1>6. /\ Included' \subseteq Attested'
      /\ Cardinality(Attested') = attested
      /\ Cardinality(Included') = lottery.provider_uploaded_count
      /\ \A v \in Wallet : participant'[v].refund_claimed => participant[v].refund_claimed
  BY <1>1, <1>5, AttestedGrows DEF Safe, TypeInv, TypeOK, LotteryAccount
<1>7. start # 0 \/ start = lottery.settlement_start_unix
  BY DEF StartOfSettlement, Safe, Settling, Opened
<1> HIDE DEF attested, start
<1>8. Counted' BY <1>3, <1>6 DEF Counted, Safe, TypeInv, TypeOK, LotteryAccount
<1>9. Opened'
  BY <1>1, <1>2, <1>3, <1>7
  DEF Safe, Settling, Opened, UploadStarted, InUploadPhase, TypeInv, TypeOK, LotteryAccount
<1>10. Settling' BY <1>1, <1>2, <1>8, <1>9 DEF Settling, Decided
<1>11. ~lottery'.settled BY <1>2, <1>3 DEF Safe, TypeInv, TypeOK, LotteryAccount
<1> QED BY <1>2, <1>6, <1>10, <1>11, UnsettledExclusive DEF Safe

(* So does one that publishes its reveal; it completes the uploads only      *)
(* when everybody has attested, which begins settlement.                     *)
LEMMA SafeAttestReveal ==
  ASSUME Safe, TypeInv', NEW w \in Wallet, NEW vote \in Nat, AttestReveal(w, vote)
  PROVE  Settling' /\ RefundXorWinners'
<1>1. /\ ~participant[w].attested_uploaded /\ InUploadPhase
      /\ UNCHANGED <<now, root, pages, vault, received>>
  BY DEF AttestReveal, MayAttest
<1>2. root.phase = "absent" /\ ~lottery.settled /\ UploadStarted /\ ~UploadElapsed
  BY <1>1, NoAttestationAfterLedger DEF Safe, TypeInv, InUploadPhase
<1> DEFINE attested == lottery.attested_count + 1
           uploaded == lottery.provider_uploaded_count + 1
           hash     == SymDiff(lottery.poc_aggregate_hash, {w})
           voted    == [AddVote(OpenTally, vote, participant[w].tickets_bought, now)
                          EXCEPT !.processed = @ + 1]
           winners  == IF lottery.participants_count > 1
                       THEN SelectedWinners(voted, lottery.participants_count)
                       ELSE lottery.selected_number_of_winners
           start    == StartOfSettlement(AllAttested(attested))
           complete == \/ lottery.uploads_complete
                       \/ /\ uploaded >= attested
                          /\ AllAttested(attested) \/ UploadElapsed
<1>3. lottery' = [lottery EXCEPT !.attested_count             = attested,
                                !.provider_uploaded_count    = uploaded,
                                !.poc_aggregate_hash         = hash,
                                !.selected_number_of_winners = winners,
                                !.settlement_start_unix      = start,
                                !.uploads_complete           = complete]
  BY DEF AttestReveal
<1>4. participant' = [participant EXCEPT
        ![w] = [VoteAndAttest(participant[w], vote) EXCEPT !.reveal_included = TRUE]]
  BY DEF AttestReveal
<1>5. /\ Included' \subseteq Attested'
      /\ Cardinality(Attested') = attested
      /\ Cardinality(Included') = uploaded
      /\ \A v \in Wallet : participant'[v].refund_claimed => participant[v].refund_claimed
  BY <1>1, <1>4, AttestedGrows
<1>6. complete =>
        lottery.uploads_complete \/ (AllAttested(attested) /\ uploaded >= attested)
  BY <1>2
<1>7. /\ AllAttested(attested) => start # 0
      /\ start # 0 \/ start = lottery.settlement_start_unix
  BY DEF StartOfSettlement, Safe, Settling, Opened
<1> HIDE DEF attested, uploaded, hash, winners, start, complete
<1>8. Counted' BY <1>3, <1>5 DEF Counted, Safe, TypeInv, TypeOK, LotteryAccount
<1>9. Opened'
  <2>1. /\ lottery'.attested_count = attested /\ lottery'.provider_uploaded_count = uploaded
        /\ lottery'.uploads_complete = complete
        /\ lottery'.settlement_start_unix = start
        /\ lottery'.participants_count = lottery.participants_count
        /\ lottery'.upload_start_unix = lottery.upload_start_unix
    BY <1>3 DEF Safe, TypeInv, TypeOK, LotteryAccount
  <2>2. lottery.participants_count > 1 => ~lottery.uploads_complete
    BY <1>1 DEF InUploadPhase, Safe, Settling, Opened
  <2>3. attested \in Int /\ uploaded \in Int
    BY DEF attested, uploaded, Safe, TypeInv, TypeOK, LotteryAccount
  <2>4. lottery.participants_count > 1 /\ complete => start # 0 /\ ~MissingAttestedReveals'
    BY <1>6, <1>7, <2>1, <2>2, <2>3 DEF MissingAttestedReveals
  <2>5. UploadStarted' BY <1>1, <1>2, <2>1 DEF UploadStarted
  <2> QED BY <1>1, <2>1, <2>4, <2>5 DEF Safe, Settling, Opened
<1>10. Settling' BY <1>1, <1>2, <1>8, <1>9 DEF Settling, Decided
<1>11. ~lottery'.settled BY <1>2, <1>3 DEF Safe, TypeInv, TypeOK, LotteryAccount
<1> QED BY <1>2, <1>5, <1>10, <1>11, UnsettledExclusive DEF Safe

(* A batch moves as many flags as it adds to the counter, and never opens    *)
(* a gap that a ledger has seen closed.                                      *)
LEMMA SafeUploadReveals ==
  ASSUME Safe, TypeInv', NEW byAuthority \in BOOLEAN, NEW S \in SUBSET Wallet,
         UploadReveals(byAuthority, S)
  PROVE  Settling' /\ RefundXorWinners'
<1> DEFINE begun    == BeginRemediation(lottery, CanRemediate(byAuthority))
           chosen   == SelectedWinners(AddVotes(OpenTally, S), lottery.participants_count)
           uploaded == lottery.provider_uploaded_count + Cardinality(S)
           complete == uploaded >= lottery.attested_count
           hash     == SymDiff(begun.poc_aggregate_hash, S)
           start    == StartOfSettlement(TRUE)
<1>1. /\ ~lottery.settled /\ ~lottery.uploads_complete /\ lottery.attested_count # 0
      /\ \A w \in S : participant[w].attested_uploaded /\ ~participant[w].reveal_included
      /\ participant' = [w \in Wallet |->
           IF w \in S
           THEN [participant[w] EXCEPT !.reveal_included = TRUE]
           ELSE participant[w]]
      /\ UNCHANGED <<now, root, pages, vault, received>>
  BY DEF UploadReveals, MayUpload
<1>2. lottery' = [begun EXCEPT !.provider_uploaded_count    = uploaded,
                              !.uploads_complete           = complete,
                              !.poc_aggregate_hash         = hash,
                              !.selected_number_of_winners = chosen,
                              !.settlement_start_unix      = start]
  BY DEF UploadReveals, MayUpload
<1>3. /\ begun \in LotteryAccount
      /\ begun.attested_count = lottery.attested_count
      /\ begun.participants_count = lottery.participants_count
      /\ begun.upload_start_unix = lottery.upload_start_unix
      /\ begun.upload_deadline_unix = lottery.upload_deadline_unix
      /\ begun.settled = lottery.settled
  BY BeginRemediationType
  DEF Safe, TypeInv, TypeOK, LotteryAccount, CanRemediate, BeginRemediation
<1>4. start # 0 BY DEF StartOfSettlement, Safe, Settling, Opened
<1>5. Attested' = Attested /\ Included' = Included \cup S
  BY <1>1 DEF Safe, TypeInv, TypeOK, ParticipantAccount, Attested, Included
<1>6. Cardinality(Included') = uploaded
  <2>1. S \cap Included = {} /\ IsFiniteSet(S)
    BY <1>1, FS_Subset, RoundAssumption DEF Included
  <2>2. Cardinality(Included \cup S) = Cardinality(Included) + Cardinality(S)
    <3>1. Cardinality(Included \cup S)
            = Cardinality(Included) + Cardinality(S) - Cardinality(Included \cap S)
      BY <2>1, FlagSetsFinite, FS_Union
    <3>2. Cardinality(Included \cap S) = 0 BY <2>1, FS_EmptySet
    <3> QED BY <2>1, <3>1, <3>2, FlagSetsFinite, FS_CardinalityType
  <2> QED BY <1>5, <2>2 DEF Safe, Settling, Counted
<1>7. Included' \subseteq Attested'
  BY <1>1, <1>5 DEF Safe, Settling, Counted, Attested
<1>8. uploaded >= lottery.provider_uploaded_count
  <2>1. Cardinality(S) \in Nat BY FS_Subset, FS_CardinalityType, RoundAssumption
  <2> QED BY <2>1 DEF Safe, TypeInv, TypeOK, LotteryAccount
<1> HIDE DEF begun, chosen, hash, start, uploaded
<1>9. /\ lottery'.attested_count = lottery.attested_count
      /\ lottery'.provider_uploaded_count = uploaded
      /\ lottery'.participants_count = lottery.participants_count
      /\ lottery'.upload_start_unix = lottery.upload_start_unix
      /\ lottery'.upload_deadline_unix = lottery.upload_deadline_unix
      /\ lottery'.settlement_start_unix = start
      /\ lottery'.uploads_complete = complete
      /\ ~lottery'.settled
  BY <1>1, <1>2, <1>3 DEF LotteryAccount
<1>10. Counted' BY <1>5, <1>6, <1>7, <1>9 DEF Counted, Safe, Settling
<1>11. Opened'
  <2>1. complete => ~MissingAttestedReveals'
    BY <1>8, <1>9 DEF MissingAttestedReveals, Safe, TypeInv, TypeOK, LotteryAccount
  <2> QED
    BY <1>1, <1>4, <1>9, <2>1
    DEF Safe, Settling, Opened, UploadStarted, TypeInv, TypeOK, LotteryAccount
<1>12. Decided'
  <2>1. ASSUME root.phase # "absent"
        PROVE  ~MissingAttestedReveals' /\ lottery.participants_count > 1 /\ UploadElapsed'
    BY <1>1, <1>8, <1>9, <2>1
    DEF Safe, Settling, Decided, MissingAttestedReveals, UploadElapsed, TypeInv, TypeOK,
        LotteryAccount
  <2> QED BY <1>1, <1>9, <2>1 DEF Decided
<1>13. \A w \in Wallet : participant'[w].refund_claimed => participant[w].refund_claimed
  BY <1>1 DEF Safe, TypeInv, TypeOK, ParticipantAccount
<1> QED BY <1>1, <1>9, <1>10, <1>11, <1>12, <1>13, UnsettledExclusive DEF Safe, Settling

(* Opening remediation changes no counter.                                   *)
LEMMA SafeStartRemediation ==
  ASSUME Safe, TypeInv', StartRemediation PROVE Settling' /\ RefundXorWinners'
<1>1. SameCounters /\ lottery'.settled = lottery.settled
                   /\ lottery'.winners_count = lottery.winners_count
  BY DEF StartRemediation, BeginRemediation, SameCounters, Safe, TypeInv, TypeOK, LotteryAccount
<1>2. UNCHANGED <<now, participant, root>> BY DEF StartRemediation
<1>3. Settling' BY <1>1, <1>2, SettlingKept DEF Safe, TypeInv, TypeOK
<1>4. RefundXorWinners' BY <1>1, <1>2, ExclusiveKept DEF Safe
<1> QED BY <1>3, <1>4

(* A chunk of FinalizeWinners changes no flag that Settling or the refunds *)
(* depend on.                                                              *)
FinalizationFlags ==
  \A w \in Wallet :
    /\ participant'[w].attested_uploaded = participant[w].attested_uploaded
    /\ participant'[w].reveal_included = participant[w].reveal_included
    /\ participant'[w].refund_claimed = participant[w].refund_claimed

(* So with the chunks of the aggregation.                                    *)
LEMMA AggregationFlags ==
  ASSUME TypeOK, NEW size \in Nat, MayAggregate(size)
  PROVE  /\ FinalizationFlags /\ MayFinalize
         /\ UNCHANGED <<now, tally, pages, vault, received>>
<1>1. participant' = [w \in Wallet |->
        IF w \in Chunk(Ledger.processed_count, size)
        THEN [participant[w] EXCEPT !.finalized = TRUE]
        ELSE participant[w]]
  BY DEF MayAggregate
<1>2. FinalizationFlags BY <1>1 DEF FinalizationFlags, TypeOK, ParticipantAccount
<1> QED BY <1>2 DEF MayAggregate

(* And with those of a selection pass.                                       *)
LEMMA ScanFlags ==
  ASSUME TypeOK, NEW size \in Nat, MayScan(size)
  PROVE  FinalizationFlags /\ MayFinalize /\ UNCHANGED <<now, tally, vault, received>>
<1>1. participant' = [w \in Wallet |->
        IF w \in Hit(size)
        THEN [participant[w] EXCEPT !.selected = TRUE]
        ELSE participant[w]]
  BY DEF MayScan
<1>2. FinalizationFlags BY <1>1 DEF FinalizationFlags, TypeOK, ParticipantAccount
<1> QED BY <1>2 DEF MayScan

(* Any chunk that MayFinalize lets in keeps Safe, provided that it leaves  *)
(* the counters of the Lottery account alone.                              *)
LEMMA SafeChunk ==
  ASSUME Safe, TypeInv', MayFinalize, FinalizationFlags, now' = now,
         SameCounters, lottery'.settled = lottery.settled
  PROVE  Settling' /\ RefundXorWinners'
<1>1. Settling' BY SettlingKept DEF Safe, TypeInv, TypeOK
<1>2. ~lottery.settled BY DEF MayFinalize, FinalizationOpen
<1>3. RefundXorWinners' BY <1>2, UnsettledExclusive DEF Safe, FinalizationFlags
<1> QED BY <1>1, <1>3

(* A chunk of the aggregation keeps Safe.                                    *)
LEMMA SafeAggregateChunk ==
  ASSUME Safe, TypeInv', NEW size \in Nat, AggregateChunk(size)
  PROVE  Settling' /\ RefundXorWinners'
<1>1. FinalizationFlags /\ MayFinalize /\ now' = now /\ lottery' = lottery
  BY AggregationFlags DEF AggregateChunk, Safe, TypeInv
<1>2. SameCounters BY <1>1 DEF SameCounters, FinalizationFlags
<1> QED BY <1>1, <1>2, SafeChunk

(* So does the last one.                                                     *)
LEMMA SafeCloseAggregation ==
  ASSUME Safe, TypeInv', NEW size \in Nat, CloseAggregation(size)
  PROVE  Settling' /\ RefundXorWinners'
<1>1. FinalizationFlags /\ MayFinalize /\ now' = now
  BY AggregationFlags DEF CloseAggregation, Safe, TypeInv
<1>2. PICK target : lottery' = [lottery EXCEPT !.selected_number_of_winners = target]
  BY DEF CloseAggregation
<1>3. SameCounters /\ lottery'.settled = lottery.settled
  BY <1>1, <1>2 DEF SameCounters, FinalizationFlags, Safe, TypeInv, TypeOK, LotteryAccount
<1> QED BY <1>1, <1>3, SafeChunk

(* A chunk of a selection pass keeps Safe.                                   *)
LEMMA SafeScanChunk ==
  ASSUME Safe, TypeInv', NEW size \in Nat, ScanChunk(size)
  PROVE  Settling' /\ RefundXorWinners'
<1>1. FinalizationFlags /\ MayFinalize /\ now' = now /\ lottery' = lottery
  BY ScanFlags DEF ScanChunk, Safe, TypeInv
<1>2. SameCounters BY <1>1 DEF SameCounters, FinalizationFlags
<1> QED BY <1>1, <1>2, SafeChunk

(* So does the end of a pass.                                                *)
LEMMA SafeCloseRound ==
  ASSUME Safe, TypeInv', NEW size \in Nat, CloseRound(size)
  PROVE  Settling' /\ RefundXorWinners'
<1>1. FinalizationFlags /\ MayFinalize /\ now' = now /\ lottery' = lottery
  BY ScanFlags DEF CloseRound, Safe, TypeInv
<1>2. SameCounters BY <1>1 DEF SameCounters, FinalizationFlags
<1> QED BY <1>1, <1>2, SafeChunk

(* So does the end of the last pass.                                         *)
LEMMA SafeCompleteFinalization ==
  ASSUME Safe, TypeInv', NEW size \in Nat, CompleteFinalization(size)
  PROVE  Settling' /\ RefundXorWinners'
<1>1. FinalizationFlags /\ MayFinalize /\ now' = now
  BY ScanFlags DEF CompleteFinalization, Safe, TypeInv
<1>2. PICK winners, payout, bitmap :
        lottery' = [lottery EXCEPT
          !.winners_count         = winners,
          !.total_payout          = payout,
          !.paid_winners_bitmap   = bitmap,
          !.settlement_start_unix = IF lottery.settlement_start_unix = 0
                                    THEN now ELSE lottery.settlement_start_unix]
  BY DEF CompleteFinalization
<1>3. SameCounters /\ lottery'.settled = lottery.settled
  BY <1>1, <1>2 DEF SameCounters, FinalizationFlags, Safe, TypeInv, TypeOK, LotteryAccount
<1> QED BY <1>1, <1>3, SafeChunk

(* Payouts happen only on the winners path.                                  *)
LEMMA SafeSettlePayoutBatch ==
  ASSUME Safe, TypeInv', NEW batch \in SUBSET (0..lottery.winners_count - 1),
         SettlePayoutBatch(batch)
  PROVE  Settling' /\ RefundXorWinners'
<1>1. /\ lottery.winners_count # 0
      /\ UNCHANGED <<now, participant, tally, root>>
  BY DEF SettlePayoutBatch
<1>2. PICK bitmap, batches, last, settled :
        lottery' = [lottery EXCEPT !.paid_winners_bitmap          = bitmap,
                                   !.settlement_batches_completed = batches,
                                   !.settlement_complete          = last,
                                   !.settled                      = settled]
  BY DEF SettlePayoutBatch
<1>3. SameCounters /\ lottery'.winners_count = lottery.winners_count
  BY <1>1, <1>2 DEF SameCounters, Safe, TypeInv, TypeOK, LotteryAccount
<1>4. Settling' BY <1>1, <1>3, SettlingKept DEF Safe, TypeInv, TypeOK
<1>5. RefundXorWinners' BY <1>1, <1>3 DEF Safe, RefundXorWinners, RefundPath
<1> QED BY <1>4, <1>5

(* The decision to refund: the counters stand for the participants.        *)
LEMMA SafeFinalizeNoAttesters ==
  ASSUME Safe, TypeInv', FinalizeNoAttesters PROVE Settling' /\ RefundXorWinners'
<1>1. /\ lottery.attested_count = 0 \/ RemediationExpired
      /\ ~lottery.settled
      /\ lottery' = [lottery EXCEPT !.settled = TRUE]
      /\ UNCHANGED <<now, participant, tally, root, pages, vault, received>>
  BY DEF FinalizeNoAttesters
<1>2. SameCounters BY <1>1 DEF SameCounters, Safe, TypeInv, TypeOK, LotteryAccount
<1>3. Settling' BY <1>1, <1>2, SettlingKept DEF Safe, TypeInv, TypeOK
<1>4. root.phase = "absent"
  BY <1>1 DEF Safe, Settling, Decided, RemediationExpired
<1>5. Attested = {} \/ ~(Attested \subseteq Included)
  <2>1. CASE lottery.attested_count = 0
    BY <2>1, FlagSetsFinite, FS_EmptySet DEF Safe, Settling, Counted
  <2>2. CASE MissingAttestedReveals
    <3>1. Cardinality(Included) < Cardinality(Attested)
      BY <2>2 DEF MissingAttestedReveals, Safe, Settling, Counted
    <3>2. Attested # Included BY <3>1, FlagSetsFinite
    <3> QED BY <3>2 DEF Safe, Settling, Counted
  <2> QED BY <1>1, <2>1, <2>2 DEF RemediationExpired
<1>6. Attested' = Attested /\ Included' = Included BY <1>1 DEF Attested, Included
<1>7. RefundXorWinners'
  BY <1>1, <1>4, <1>5, <1>6, NoRefundYet DEF Safe, RefundXorWinners
<1> QED BY <1>3, <1>7

(* A refund is paid only on the refund path.                                 *)
LEMMA SafeClaimRefund ==
  ASSUME Safe, TypeInv', NEW w \in Wallet, ClaimRefund(w)
  PROVE  Settling' /\ RefundXorWinners'
<1>1. /\ RefundPath
      /\ participant' = [participant EXCEPT ![w].refund_claimed = TRUE]
      /\ lottery' = [lottery EXCEPT
           !.settlement_batches_completed = lottery.settlement_batches_completed + 1]
      /\ UNCHANGED <<now, tally, root, pages>>
  BY DEF ClaimRefund, RefundOwed, RefundsDue, RefundPath
<1>2. \A v \in Wallet :
        /\ participant'[v].attested_uploaded = participant[v].attested_uploaded
        /\ participant'[v].reveal_included = participant[v].reveal_included
  BY <1>1 DEF Safe, TypeInv, TypeOK, ParticipantAccount
<1>3. SameCounters /\ RefundPath'
  BY <1>1, <1>2 DEF SameCounters, RefundPath, Safe, TypeInv, TypeOK, LotteryAccount
<1>4. Settling' BY <1>1, <1>3, SettlingKept DEF Safe, TypeInv, TypeOK
<1>5. Attested' = Attested /\ Included' = Included BY <1>2, SameFlags
<1>6. RefundXorWinners' BY <1>1, <1>3, <1>5 DEF Safe, RefundXorWinners
<1> QED BY <1>4, <1>6

(* Closing the vault changes no flag.                                        *)
LEMMA SafeCloseRefundVault ==
  ASSUME Safe, TypeInv', CloseRefundVault PROVE Settling' /\ RefundXorWinners'
<1>1. UNCHANGED <<now, lottery, participant, tally, root, pages>>
  BY DEF CloseRefundVault
<1>2. Settling' BY <1>1, SettlingKept DEF SameCounters, Safe, TypeInv, TypeOK
<1>3. RefundXorWinners' BY <1>1, ExclusiveKept DEF Safe
<1> QED BY <1>2, <1>3

(* Closing an account changes no flag.                                       *)
LEMMA SafeCloseParticipant ==
  ASSUME Safe, TypeInv', NEW w \in Wallet, CloseParticipant(w)
  PROVE  Settling' /\ RefundXorWinners'
<1>1. /\ participant' = [participant EXCEPT ![w].status = "closed"]
      /\ UNCHANGED <<now, lottery, tally, root, pages, vault, received>>
  BY DEF CloseParticipant
<1>2. FinalizationFlags
  BY <1>1 DEF FinalizationFlags, Safe, TypeInv, TypeOK, ParticipantAccount
<1>3. Settling'
  BY <1>1, <1>2, SettlingKept DEF SameCounters, FinalizationFlags, Safe, TypeInv, TypeOK
<1>4. RefundXorWinners' BY <1>1, <1>2, ExclusiveKept DEF Safe, FinalizationFlags
<1> QED BY <1>3, <1>4

(***************************************************************************)
(* The invariant.                                                          *)
(***************************************************************************)
(* Safe holds at first.                                                      *)
LEMMA InitSafe == ASSUME Init PROVE Safe
<1>1. now > 0 BY DEF Init, CreatedAt
<1>2. Attested = {} /\ Included = {}
  BY DEF Init, NewParticipant, Attested, Included
<1>3. Counted BY <1>2, FS_EmptySet DEF Counted, Init, NewLottery
<1>4. Opened BY <1>1 DEF Opened, Init, NewLottery
<1>5. Decided BY DEF Decided, Init, NewLedger
<1>6. RefundXorWinners
  BY DEF RefundXorWinners, RefundPath, Init, NewLottery, NewParticipant
<1> QED BY <1>3, <1>4, <1>5, <1>6, InitTypeInv DEF Safe, Settling

(* Every step keeps Safe, one step of the proof for each instruction.        *)
LEMMA SafeNext == ASSUME Safe, [Next]_vars PROVE Safe'
<1>1. TypeInv' BY TypeNext DEF Safe
<1>2. CASE Tick BY <1>1, <1>2, SafeTick DEF Safe
<1>3. ASSUME NEW w \in Wallet, Buy(w) PROVE Safe'
  BY <1>1, <1>3, SafeBuyTickets, InputAssumption DEF Buy, Safe
<1>4. CASE Begin BY <1>1, <1>4, SafeBeginReveal, InputAssumption DEF Begin, Safe
<1>5. ASSUME NEW w \in Wallet, Attest(w) PROVE Safe'
  <2>1. 1..MaxWinnersCap \subseteq Nat BY RoundAssumption
  <2> QED BY <1>1, <1>5, <2>1, SafeAttestUploaded, SafeAttestReveal DEF Attest, Safe
<1>6. CASE Upload BY <1>1, <1>6, SafeUploadReveals DEF Upload, Safe
<1>7. CASE FinalizeWinners
  <2>1. Sizes \subseteq Nat BY DEF Sizes
  <2> QED BY <1>1, <1>7, <2>1, SafeStartRemediation, SafeAggregateChunk,
             SafeCloseAggregation, SafeScanChunk, SafeCloseRound, SafeCompleteFinalization
          DEF FinalizeWinners, Safe
<1>8. CASE Settle BY <1>1, <1>8, SafeSettlePayoutBatch DEF Settle, Safe
<1>9. CASE FinalizeNoAttesters BY <1>1, <1>9, SafeFinalizeNoAttesters DEF Safe
<1>10. ASSUME NEW w \in Wallet, ClaimRefund(w) PROVE Safe'
  BY <1>1, <1>10, SafeClaimRefund DEF Safe
<1>11. CASE CloseRefundVault BY <1>1, <1>11, SafeCloseRefundVault DEF Safe
<1>12. ASSUME NEW w \in Wallet, CloseParticipant(w) PROVE Safe'
  BY <1>1, <1>12, SafeCloseParticipant DEF Safe
<1>13. CASE UNCHANGED vars
  <2>1. Settling' /\ RefundXorWinners'
    <3>1. UNCHANGED <<now, lottery, participant, root>> BY <1>13 DEF vars
    <3>2. Settling' BY <1>1, <3>1, SettlingKept DEF SameCounters, Safe, TypeInv, TypeOK
    <3>3. RefundXorWinners' BY <3>1, ExclusiveKept DEF Safe
    <3> QED BY <3>2, <3>3
  <2> QED BY <1>1, <2>1 DEF Safe
<1> QED
  BY <1>2, <1>3, <1>4, <1>5, <1>6, <1>7, <1>8, <1>9, <1>10, <1>11, <1>12, <1>13 DEF Next

(* Safe is an invariant.                                                     *)
LEMMA SafeInvariant == Spec => []Safe
<1>1. Init => Safe BY InitSafe
<1>2. Safe /\ [Next]_vars => Safe' BY SafeNext
<1> QED BY <1>1, <1>2, PTL DEF Spec

(* The counters agree, and two finite sets of one size, one inside the     *)
(* other, are equal.                                                       *)
LEMMA SafeNoCensorship == Safe => NoCensoredSettlement
<1> SUFFICES ASSUME Safe, root.phase # "absent" PROVE Attested \subseteq Included
  BY DEF NoCensoredSettlement
<1>1. Cardinality(Included) >= Cardinality(Attested)
  BY DEF Safe, Settling, Counted, Decided, MissingAttestedReveals, TypeInv, TypeOK,
         LotteryAccount
<1>2. Included \in SUBSET Attested BY DEF Safe, Settling, Counted
<1>3. Cardinality(Included) <= Cardinality(Attested) BY <1>2, FlagSetsFinite, FS_Subset
<1>4. Cardinality(Included) = Cardinality(Attested) BY <1>1, <1>3, FlagSetsFinite
<1> QED BY <1>2, <1>4, FlagSetsFinite, FS_Subset

(* Whoever sends the chunks, and whenever: once FinalizeWinners has a      *)
(* ledger, every attested reveal is in.                                    *)
THEOREM NoCensorship == Spec => []NoCensoredSettlement
BY SafeInvariant, SafeNoCensorship, PTL

(* A round is settled for refunds only before any draw, and refunds are    *)
(* paid only in such a round.                                              *)
THEOREM EndsExclude == Spec => []RefundXorWinners
<1>1. Safe => RefundXorWinners BY DEF Safe
<1> QED BY <1>1, SafeInvariant, PTL

(***************************************************************************)
(* Action properties.                                                      *)
(***************************************************************************)
(* The tickets of the round, in total and of every wallet, stay the same.    *)
SameTickets ==
  /\ lottery'.total_tickets = lottery.total_tickets
  /\ lottery'.participants_count = lottery.participants_count
  /\ \A w \in Wallet : participant'[w].tickets_bought = participant[w].tickets_bought

(* No deadline is brought forward, and a remediation window stays.         *)
SameWindows ==
  /\ lottery'.upload_deadline_unix >= lottery.upload_deadline_unix
  /\ lottery.remediation_start_unix # 0 =>
       /\ lottery'.remediation_start_unix = lottery.remediation_start_unix
       /\ lottery'.remediation_deadline_unix = lottery.remediation_deadline_unix

(* A step that leaves both accounts alone moves neither tickets nor          *)
(* windows.                                                                  *)
LEMMA SameLottery ==
  ASSUME TypeOK, lottery' = lottery, UNCHANGED participant
  PROVE  SameTickets /\ SameWindows
  BY DEF SameTickets, SameWindows, TypeOK, LotteryAccount

(* A purchase moves no window, and happens before anyone can attest.         *)
LEMMA BuyTicketsWindows ==
  ASSUME Safe, NEW w \in Wallet, NEW count \in Nat, BuyTickets(w, count)
  PROVE  SameWindows /\ ~UploadStarted /\ Attested = {}
<1>1. ~UploadStarted BY DEF BuyTickets, InBuyWindow
<1>2. Attested = {} BY <1>1, NothingBeforeUpload DEF Safe, TypeInv
<1>3. PICK buyers, tickets, funds :
        lottery' = [lottery EXCEPT !.participants_count = buyers,
                                   !.total_tickets      = tickets,
                                   !.total_funds        = funds]
  BY DEF BuyTickets
<1>4. SameWindows
  BY <1>3 DEF SameWindows, Safe, TypeInv, TypeOK, LotteryAccount
<1> QED BY <1>1, <1>2, <1>4

(* An early reveal phase sells no ticket and moves the deadline later.       *)
LEMMA BeginRevealWindows ==
  ASSUME Safe, NEW a \in Nat, NEW u \in Nat, BeginReveal(a, u)
  PROVE  SameTickets /\ SameWindows
<1> DEFINE deadline == AtLeast(AttestationEnd(a), AttestationEnd(a) + OrDefault(u))
           begun    == [lottery EXCEPT !.upload_start_unix    = now,
                                       !.upload_deadline_unix = deadline]
<1>1. /\ lottery' = IF lottery.participants_count = 1
                    THEN [begun EXCEPT !.uploads_complete           = TRUE,
                                       !.poc_aggregate_hash         = {NoWallet},
                                       !.selected_number_of_winners = 1]
                    ELSE begun
      /\ UNCHANGED participant
  BY DEF BeginReveal
<1>2. deadline >= lottery.upload_deadline_unix
  BY RoundAssumption
  DEF Safe, TypeInv, TypeOK, LotteryAccount, AttestationEnd, OrDefault, AtLeast
<1> HIDE DEF deadline
<1> QED
  BY <1>1, <1>2 DEF SameTickets, SameWindows, Safe, TypeInv, TypeOK, LotteryAccount

(* An attestation moves neither tickets nor windows.                         *)
LEMMA AttestWindows ==
  ASSUME Safe, NEW w \in Wallet, NEW vote \in Nat,
         AttestUploaded(w, vote) \/ AttestReveal(w, vote)
  PROVE  SameTickets /\ SameWindows
<1>1. PICK attested, uploaded, hash, winners, start, complete :
        lottery' = [lottery EXCEPT !.attested_count             = attested,
                                   !.provider_uploaded_count    = uploaded,
                                   !.poc_aggregate_hash         = hash,
                                   !.selected_number_of_winners = winners,
                                   !.settlement_start_unix      = start,
                                   !.uploads_complete           = complete]
  <2>1. CASE AttestUploaded(w, vote)
    <3>1. PICK attested, start :
            lottery' = [lottery EXCEPT !.attested_count        = attested,
                                       !.settlement_start_unix = start]
      BY <2>1 DEF AttestUploaded
    <3>2. lottery' = [lottery EXCEPT
            !.attested_count             = attested,
            !.provider_uploaded_count    = lottery.provider_uploaded_count,
            !.poc_aggregate_hash         = lottery.poc_aggregate_hash,
            !.selected_number_of_winners = lottery.selected_number_of_winners,
            !.settlement_start_unix      = start,
            !.uploads_complete           = lottery.uploads_complete]
      BY <3>1 DEF Safe, TypeInv, TypeOK, LotteryAccount
    <3> QED BY <3>2
  <2>2. CASE AttestReveal(w, vote) BY ZenonT(30), <2>2 DEF AttestReveal
  <2> QED BY <2>1, <2>2
<1>2. PICK included :
        participant' = [participant EXCEPT
          ![w] = [VoteAndAttest(participant[w], vote) EXCEPT !.reveal_included = included]]
  <2>1. CASE AttestUploaded(w, vote)
    <3>1. [VoteAndAttest(participant[w], vote) EXCEPT !.reveal_included = FALSE]
            = VoteAndAttest(participant[w], vote)
      BY DEF Safe, TypeInv, TypeOK, ParticipantAccount, VoteAndAttest
    <3> QED BY <2>1, <3>1 DEF AttestUploaded
  <2>2. CASE AttestReveal(w, vote) BY <2>2 DEF AttestReveal
  <2> QED BY <2>1, <2>2
<1>3. \A v \in Wallet : participant'[v].tickets_bought = participant[v].tickets_bought
  BY <1>2 DEF Safe, TypeInv, TypeOK, ParticipantAccount, VoteAndAttest
<1> QED
  BY <1>1, <1>3 DEF SameTickets, SameWindows, Safe, TypeInv, TypeOK, LotteryAccount

(* A batch of reveals opens a remediation window only where there is none.   *)
LEMMA UploadRevealsWindows ==
  ASSUME Safe, NEW byAuthority \in BOOLEAN, NEW S \in SUBSET Wallet,
         UploadReveals(byAuthority, S)
  PROVE  SameTickets /\ SameWindows
<1> DEFINE begun == BeginRemediation(lottery, CanRemediate(byAuthority))
<1>1. PICK uploaded, complete, hash, chosen, start :
        lottery' = [begun EXCEPT !.provider_uploaded_count    = uploaded,
                                 !.uploads_complete           = complete,
                                 !.poc_aggregate_hash         = hash,
                                 !.selected_number_of_winners = chosen,
                                 !.settlement_start_unix      = start]
  BY DEF UploadReveals, MayUpload
<1>2. /\ begun \in LotteryAccount
      /\ begun.total_tickets = lottery.total_tickets
      /\ begun.participants_count = lottery.participants_count
      /\ begun.upload_deadline_unix = lottery.upload_deadline_unix
      /\ lottery.remediation_start_unix # 0 =>
           /\ begun.remediation_start_unix = lottery.remediation_start_unix
           /\ begun.remediation_deadline_unix = lottery.remediation_deadline_unix
  BY BeginRemediationType
  DEF Safe, TypeInv, TypeOK, LotteryAccount, CanRemediate, BeginRemediation
<1> HIDE DEF begun
<1>3. \A w \in Wallet : participant'[w].tickets_bought = participant[w].tickets_bought
  BY DEF UploadReveals, MayUpload, Safe, TypeInv, TypeOK, ParticipantAccount
<1> QED
  BY <1>1, <1>2, <1>3 DEF SameTickets, SameWindows, Safe, TypeInv, TypeOK, LotteryAccount

(* So does FinalizeWinners.                                                  *)
LEMMA StartRemediationWindows ==
  ASSUME Safe, StartRemediation PROVE SameTickets /\ SameWindows
  BY DEF StartRemediation, BeginRemediation, SameTickets, SameWindows, Safe, TypeInv, TypeOK,
         LotteryAccount

(* The chunks of FinalizeWinners move neither tickets nor windows.           *)
LEMMA FinalizationWindows ==
  ASSUME Safe, NEW size \in Nat,
         \/ AggregateChunk(size) \/ CloseAggregation(size)
         \/ ScanChunk(size) \/ CloseRound(size) \/ CompleteFinalization(size)
  PROVE  SameTickets /\ SameWindows
<1>1. \A w \in Wallet : participant'[w].tickets_bought = participant[w].tickets_bought
  <2>1. CASE AggregateChunk(size) \/ CloseAggregation(size)
    <3>1. participant' = [w \in Wallet |->
            IF w \in Chunk(Ledger.processed_count, size)
            THEN [participant[w] EXCEPT !.finalized = TRUE]
            ELSE participant[w]]
      BY <2>1 DEF AggregateChunk, CloseAggregation, MayAggregate
    <3> QED BY <3>1 DEF Safe, TypeInv, TypeOK, ParticipantAccount
  <2>2. CASE ScanChunk(size) \/ CloseRound(size) \/ CompleteFinalization(size)
    <3>1. participant' = [w \in Wallet |->
            IF w \in Hit(size)
            THEN [participant[w] EXCEPT !.selected = TRUE]
            ELSE participant[w]]
      BY <2>2 DEF ScanChunk, CloseRound, CompleteFinalization, MayScan
    <3> QED BY <3>1 DEF Safe, TypeInv, TypeOK, ParticipantAccount
  <2> QED BY <2>1, <2>2
<1>2. CASE CloseAggregation(size)
  <2>1. PICK target : lottery' = [lottery EXCEPT !.selected_number_of_winners = target]
    BY <1>2 DEF CloseAggregation
  <2> QED BY <1>1, <2>1 DEF SameTickets, SameWindows, Safe, TypeInv, TypeOK, LotteryAccount
<1>3. CASE CompleteFinalization(size)
  <2>1. PICK winners, payout, bitmap, start :
          lottery' = [lottery EXCEPT !.winners_count         = winners,
                                     !.total_payout          = payout,
                                     !.paid_winners_bitmap   = bitmap,
                                     !.settlement_start_unix = start]
    BY <1>3 DEF CompleteFinalization
  <2> QED BY <1>1, <2>1 DEF SameTickets, SameWindows, Safe, TypeInv, TypeOK, LotteryAccount
<1>4. CASE AggregateChunk(size) \/ ScanChunk(size) \/ CloseRound(size)
  <2>1. lottery' = lottery BY <1>4 DEF AggregateChunk, ScanChunk, CloseRound
  <2> QED BY <1>1, <2>1 DEF SameTickets, SameWindows, Safe, TypeInv, TypeOK, LotteryAccount
<1> QED BY <1>2, <1>3, <1>4

(* Nor does any instruction at the end of a round.                           *)
LEMMA SettlementWindows ==
  ASSUME Safe,
         \/ Settle \/ FinalizeNoAttesters \/ CloseRefundVault
         \/ \E w \in Wallet : ClaimRefund(w) \/ CloseParticipant(w)
  PROVE  SameTickets /\ SameWindows
<1>1. ASSUME NEW batch, SettlePayoutBatch(batch) PROVE SameTickets /\ SameWindows
  <2>1. PICK bitmap, batches, last, settled :
          lottery' = [lottery EXCEPT !.paid_winners_bitmap          = bitmap,
                                     !.settlement_batches_completed = batches,
                                     !.settlement_complete          = last,
                                     !.settled                      = settled]
    BY <1>1 DEF SettlePayoutBatch
  <2>2. UNCHANGED participant BY <1>1 DEF SettlePayoutBatch
  <2> QED BY <2>1, <2>2 DEF SameTickets, SameWindows, Safe, TypeInv, TypeOK, LotteryAccount
<1>2. CASE FinalizeNoAttesters
  BY <1>2 DEF FinalizeNoAttesters, SameTickets, SameWindows, Safe, TypeInv, TypeOK, LotteryAccount
<1>3. CASE CloseRefundVault
  BY <1>3, SameLottery DEF CloseRefundVault, Safe, TypeInv
<1>4. ASSUME NEW w \in Wallet, ClaimRefund(w) PROVE SameTickets /\ SameWindows
  <2>1. /\ participant' = [participant EXCEPT ![w].refund_claimed = TRUE]
        /\ lottery' = [lottery EXCEPT
             !.settlement_batches_completed = lottery.settlement_batches_completed + 1]
    BY <1>4 DEF ClaimRefund
  <2> QED BY <2>1 DEF SameTickets, SameWindows, Safe, TypeInv, TypeOK, LotteryAccount,
                      ParticipantAccount
<1>5. ASSUME NEW w \in Wallet, CloseParticipant(w) PROVE SameTickets /\ SameWindows
  <2>1. /\ participant' = [participant EXCEPT ![w].status = "closed"]
        /\ lottery' = lottery
    BY <1>5 DEF CloseParticipant
  <2> QED BY <2>1 DEF SameTickets, SameWindows, Safe, TypeInv, TypeOK, LotteryAccount,
                      ParticipantAccount
<1> QED BY <1>1, <1>2, <1>3, <1>4, <1>5 DEF Settle

(* Every step, one step of the proof for each instruction.                   *)
LEMMA StepWindows ==
  ASSUME Safe, [Next]_vars
  PROVE  SameWindows /\ (SameTickets \/ (~UploadStarted /\ Attested = {}))
<1>1. CASE Tick BY <1>1, SameLottery DEF Tick, Safe, TypeInv
<1>2. ASSUME NEW w \in Wallet, Buy(w)
      PROVE  SameWindows /\ ~UploadStarted /\ Attested = {}
  BY <1>2, BuyTicketsWindows, InputAssumption DEF Buy
<1>3. CASE Begin BY <1>3, BeginRevealWindows, InputAssumption DEF Begin
<1>4. ASSUME NEW w \in Wallet, Attest(w) PROVE SameWindows /\ SameTickets
  <2>1. 1..MaxWinnersCap \subseteq Nat BY RoundAssumption
  <2> QED BY <1>4, <2>1, AttestWindows DEF Attest
<1>5. CASE Upload BY <1>5, UploadRevealsWindows DEF Upload
<1>6. CASE FinalizeWinners
  <2>1. Sizes \subseteq Nat BY DEF Sizes
  <2> QED BY <1>6, <2>1, StartRemediationWindows, FinalizationWindows DEF FinalizeWinners
<1>7. CASE \/ Settle \/ FinalizeNoAttesters \/ CloseRefundVault
           \/ \E w \in Wallet : ClaimRefund(w) \/ CloseParticipant(w)
  BY <1>7, SettlementWindows
<1>8. CASE UNCHANGED vars BY <1>8, SameLottery DEF vars, Safe, TypeInv
<1> QED BY <1>1, <1>2, <1>3, <1>4, <1>5, <1>6, <1>7, <1>8 DEF Next

(* No step brings a deadline forward or moves an open remediation window.  *)
THEOREM WindowsStay == Spec => WindowsKept
<1>1. Safe /\ [Next]_vars =>
        [ /\ lottery'.upload_deadline_unix >= lottery.upload_deadline_unix
          /\ lottery.remediation_start_unix # 0 =>
               /\ lottery'.remediation_start_unix = lottery.remediation_start_unix
               /\ lottery'.remediation_deadline_unix = lottery.remediation_deadline_unix ]_vars
  BY StepWindows DEF SameWindows
<1> QED BY <1>1, SafeInvariant, PTL DEF Spec, WindowsKept

(* No step sells a ticket once anyone can attest, or has.                  *)
THEOREM TicketsStay == Spec => TicketsFrozen
<1>1. Safe /\ [Next]_vars =>
        [ UploadStarted \/ Attested # {} =>
            /\ lottery'.total_tickets = lottery.total_tickets
            /\ lottery'.participants_count = lottery.participants_count
            /\ \A w \in Wallet :
                 participant'[w].tickets_bought = participant[w].tickets_bought ]_vars
  BY StepWindows DEF SameTickets
<1> QED BY <1>1, SafeInvariant, PTL DEF Spec, TicketsFrozen
===============================================================================
