--------------------------------- MODULE Round --------------------------------
(***************************************************************************)
(* One lottery round, from CreateLottery to the closing of its accounts:   *)
(* the instructions of the four component modules, interleaved in any      *)
(* order, with the clock.                                                  *)
(***************************************************************************)
EXTENDS Entry, Reveals, Finalization, Settlement

CONSTANTS
  BuySizes,      \* inputs: tickets asked for in one purchase
  TicketBound,   \* bound: tickets of one wallet
  RevealSecs     \* inputs: durations given to BeginReveal

ASSUME InputAssumption ==
  /\ BuySizes \subseteq Nat \ {0}
  /\ TicketBound \in Nat
  /\ RevealSecs \subseteq Nat

Init ==
  /\ now = CreatedAt
  /\ lottery = NewLottery
  /\ participant = [w \in Wallet |-> NewParticipant("none", 0)]
  /\ tally = NoTally
  /\ root = NewLedger("absent", 0)
  /\ pages = [p \in PageIndex |-> NoPage]
  /\ vault = VaultRent
  /\ received = [r \in Recipient |-> 0]

(* Bound: the clock stops one tick after the last deadline set so far.     *)
(* Past it every comparison with the clock has its final outcome, until a  *)
(* remediation sets a new deadline.                                        *)
LastDeadline ==
  AtLeast(lottery.upload_deadline_unix, lottery.remediation_deadline_unix)

Tick ==
  /\ now <= LastDeadline
  /\ now' = now + 1
  /\ UNCHANGED <<lottery, participant, tally, root, pages, vault, received>>

Buy(w) ==
  \E count \in BuySizes :
    /\ participant[w].tickets_bought + count <= TicketBound
    /\ BuyTickets(w, count)

Begin == \E attestation, upload \in RevealSecs : BeginReveal(attestation, upload)

Attest(w) ==
  \E vote \in 1..MaxWinnersCap : AttestUploaded(w, vote) \/ AttestReveal(w, vote)

Upload == \E byAuthority \in BOOLEAN, S \in SUBSET Wallet : UploadReveals(byAuthority, S)

Sizes == 1..Cardinality(Wallet)

FinalizeWinners ==
  \/ StartRemediation
  \/ \E size \in Sizes : \/ AggregateChunk(size)
                         \/ CloseAggregation(size)
                         \/ ScanChunk(size)
                         \/ CloseRound(size)
                         \/ CompleteFinalization(size)

Settle == \E batch \in SUBSET (0..lottery.winners_count - 1) : SettlePayoutBatch(batch)

Next ==
  \/ Tick
  \/ \E w \in Wallet : Buy(w)
  \/ Begin
  \/ \E w \in Wallet : Attest(w)
  \/ Upload
  \/ FinalizeWinners
  \/ Settle
  \/ FinalizeNoAttesters
  \/ \E w \in Wallet : ClaimRefund(w)
  \/ CloseRefundVault
  \/ \E w \in Wallet : CloseParticipant(w)

Spec == Init /\ [][Next]_vars

(***************************************************************************)
(* Fairness.  The clock runs on.  Every other instruction below takes no   *)
(* signature but the fee payer's, so whoever wants the round to end can    *)
(* send it.  Nothing is assumed of buyers, of attesters, or of anyone who  *)
(* holds a reveal: UploadReveals may never be called.  A payout batch      *)
(* counts as fair only when it holds an entry that is still unpaid.        *)
(***************************************************************************)
SettleUnpaid ==
  \E batch \in SUBSET (0..lottery.winners_count - 1) :
    /\ ~(batch \subseteq lottery.paid_winners_bitmap)
    /\ SettlePayoutBatch(batch)

Fairness ==
  /\ WF_vars(Tick)
  /\ WF_vars(FinalizeWinners)
  /\ WF_vars(SettleUnpaid)
  /\ WF_vars(FinalizeNoAttesters)
  /\ \A w \in Wallet : WF_vars(ClaimRefund(w))
  /\ WF_vars(CloseRefundVault)

FairSpec == Spec /\ Fairness

(***************************************************************************)
(* What the properties speak of.                                           *)
(***************************************************************************)
Frozen == root.phase \in {"selecting", "completed"}

(* The place of entry i in the pages, and the winners recorded so far.     *)
EntryAt(i) == pages[PageOf(i)].entries[OffsetOf(i) + 1]

Recorded == { EntryAt(i).wallet : i \in 0..root.selected_count - 1 }

Pending == IF root.pending_winner_found THEN {root.pending_winner} ELSE {}

Before(cursor) == { w \in Wallet : participant[w].participant_index < cursor }

RefundPath == lottery.settled /\ lottery.winners_count = 0

Lamports == MapThenSumSet(LAMBDA r : received[r], Recipient)

(***************************************************************************)
(* State invariants.                                                       *)
(***************************************************************************)
(* Every account has the shape its Rust struct declares, and every checked *)
(* sum stays within u64.  What the tally holds, VoteDecision states.       *)
TypeOK ==
  /\ now \in Nat
  /\ lottery \in LotteryAccount
  /\ participant \in [Wallet -> ParticipantAccount]
  /\ root \in FinalizationLedger
  /\ pages \in [PageIndex -> WinnerPage]
  /\ vault \in Nat
  /\ received \in [Recipient -> Nat]

(* The counters of the Lottery account, which every later instruction      *)
(* trusts instead of walking the participants, count the participants that *)
(* carry the flag; and the indexes are dense, which is what makes a walk   *)
(* of participants_count accounts a walk of all of them.                   *)
CountersAgree ==
  /\ lottery.participants_count = Cardinality(Buyers)
  /\ lottery.attested_count = Cardinality(Attested)
  /\ lottery.provider_uploaded_count = Cardinality(Included)
  /\ Included \subseteq Attested /\ Attested \subseteq Buyers
  /\ lottery.total_tickets = TicketsOf(Buyers)
  /\ lottery.total_funds = TicketPrice * lottery.total_tickets
  /\ { participant[w].participant_index : w \in Buyers }
       = 0..lottery.participants_count - 1

(* Nobody can keep a reveal out of the draw: from the first aggregation    *)
(* chunk on, every participant who attested has the reveal included.       *)
NoCensoredSettlement == root.phase # "absent" => Attested \subseteq Included

(* The two ends exclude each other.  A round settled for refunds never     *)
(* started to draw, and it is refunded because nobody attested or because  *)
(* an attested reveal never arrived; and nobody is refunded out of a round *)
(* that draws.                                                             *)
RefundXorWinners ==
  /\ RefundPath => /\ root.phase = "absent"
                   /\ Attested = {} \/ ~(Attested \subseteq Included)
  /\ (\E w \in Wallet : participant[w].refund_claimed) => RefundPath

(* Whatever the order and the batches in which votes reached it, the tally *)
(* holds the included votes and nothing else, and they alone decide the    *)
(* number of winners: most tickets, then the earliest attestation, then    *)
(* the smaller number.                                                     *)
VotersFor(count) == { w \in Included : participant[w].voted_winners = count }

FirstVote(count) ==
  Min({I64_MAX} \cup { participant[w].attested_at_unix : w \in VotersFor(count) })

Preferred(a, b) ==
  \/ TicketsOf(VotersFor(a)) > TicketsOf(VotersFor(b))
  \/ /\ TicketsOf(VotersFor(a)) = TicketsOf(VotersFor(b))
     /\ \/ FirstVote(a) < FirstVote(b)
        \/ FirstVote(a) = FirstVote(b) /\ a < b

VoteDecision ==
  /\ tally.created =>
       /\ tally.max_winners = MaxWinners
       /\ tally.processed = Cardinality(Included)
       /\ tally.weights = [c \in 1..MaxWinners |-> TicketsOf(VotersFor(c))]
       /\ tally.first_seen = [c \in 1..MaxWinners |-> FirstVote(c)]
  /\ Included # {} /\ lottery.participants_count > 1 /\ ~Frozen =>
       LET voted == { c \in 1..MaxWinners : VotersFor(c) # {} }
       IN  /\ lottery.selected_number_of_winners \in voted
           /\ \A c \in voted \ {lottery.selected_number_of_winners} :
                Preferred(lottery.selected_number_of_winners, c)

(* The seed is a function of the reveals included and of the tickets they  *)
(* carry, not of who finalizes, in what chunks, or of what happened since: *)
(* nothing that enters it changes once it is frozen.                       *)
SeedCanonical ==
  /\ lottery.poc_aggregate_hash \ {NoWallet} = Included
  /\ NoWallet \in lottery.poc_aggregate_hash => lottery.participants_count = 1
  /\ Frozen =>
       root.seed = [ eligible  |-> Cardinality(Included),
                     tickets   |-> TicketsOf(Included),
                     aggregate |-> Included,
                     pool      |-> { [ index   |-> participant[w].participant_index,
                                       wallet  |-> w,
                                       tickets |-> participant[w].tickets_bought ]
                                     : w \in Included } ]

(* In the middle of a selection pass: the draw is below the tickets that   *)
(* remain, the tickets seen are those of the included participants already *)
(* passed and not yet drawn, and a winner is pending exactly when the draw *)
(* has been passed.  So a pass never ends in WinnerNotFound, which would   *)
(* leave the round unable to settle or to refund.                          *)
PassAccounting ==
  root.phase = "selecting" =>
    LET passed == (Included \cap Before(root.round_processed_count)) \ Recorded
    IN  /\ root.round_draw_index < RemainingTickets(root)
        /\ RemainingTickets(root) = TicketsOf(Included \ Recorded)
        /\ root.round_remaining_tickets_seen = TicketsOf(passed)
        /\ root.pending_winner_found <=>
             root.round_draw_index < root.round_remaining_tickets_seen
        /\ { w \in Wallet : participant[w].selected } = Recorded \cup Pending

(* The winner book: pages fill in order and without gaps, no wallet wins   *)
(* twice, every winner had its reveal included and is booked with all its  *)
(* tickets, and the draw ends with the number of winners it set out for.   *)
WinnerBook ==
  /\ \A p \in PageIndex :
       Len(pages[p].entries)
         = AtLeast(AtMost(root.selected_count - p * WINNERS_PER_PAGE, WINNERS_PER_PAGE), 0)
  /\ Cardinality(Recorded) = root.selected_count
  /\ Recorded \subseteq Included
  /\ \A i \in 0..root.selected_count - 1 :
       EntryAt(i).tickets = participant[EntryAt(i).wallet].tickets_bought
  /\ root.selected_tickets_total = TicketsOf(Recorded)
  /\ root.phase = "completed" => /\ root.selected_count = root.target_winners
                                 /\ lottery.winners_count = root.target_winners
                                 /\ lottery.winners_count \in 1..MaxWinners
  /\ root.phase # "completed" => lottery.winners_count = 0

(* Every lamport is accounted for, and every recipient has exactly what    *)
(* the books say: a winner one share once its entry is paid, a refunded    *)
(* wallet the price of its tickets, the authority nothing before the last  *)
(* winner is paid and then the fee, the remainder and the rent, or after   *)
(* the last refund the rent.  The two paid bitmaps agree.                  *)
PaidShare(w) ==
  IF \E i \in lottery.paid_winners_bitmap : EntryAt(i).wallet = w
  THEN lottery.total_payout \div lottery.winners_count
  ELSE 0

Refunded(w) ==
  IF participant[w].refund_claimed THEN TicketPrice * participant[w].tickets_bought ELSE 0

MoneyTrail ==
  /\ vault + Lamports = VaultRent + lottery.total_funds
  /\ \A w \in Wallet : received[w] = PaidShare(w) + Refunded(w)
  /\ received[Authority] =
       IF lottery.settlement_complete
       THEN VaultRent + lottery.total_funds - lottery.total_payout
       ELSE IF vault = 0 THEN VaultRent ELSE 0
  /\ \A i \in 0..root.selected_count - 1 :
       PaidOnPage(i) <=> i \in lottery.paid_winners_bitmap

(* The vault of a refunded round is emptied only after every participant   *)
(* has its money back.                                                     *)
RefundsWhole ==
  RefundPath /\ vault = 0 =>
    \A w \in Buyers : received[w] = TicketPrice * participant[w].tickets_bought

(* There are reveals for anyone to upload: attested, missing after the     *)
(* deadline, in a round of several that is not settled.                    *)
RemediationStands ==
  /\ UploadElapsed /\ MissingAttestedReveals /\ ~RemediationExpired
  /\ lottery.participants_count > 1 /\ ~lottery.settled

(* As long as remediation has not expired, anyone who holds the missing    *)
(* reveals can upload all of them: no state of the counters, of the tally  *)
(* or of an earlier, partial upload shuts the door. MayUpload is every     *)
(* guard of UploadReveals, whose other conjuncts are assignments.          *)
RemediationOpen ==
  RemediationStands => MayUpload(FALSE, Attested \ Included)

(* README.md: no winner set is finalized that would pay less than one      *)
(* lamport per winner.  However the votes, the fee and the price combine,  *)
(* a winner marked as paid has been paid something.                        *)
NoEmptyShare ==
  \A i \in lottery.paid_winners_bitmap : received[EntryAt(i).wallet] > 0

(***************************************************************************)
(* Action properties.                                                      *)
(***************************************************************************)
(* A deadline participants rely on is never brought forward, and the       *)
(* remediation window, once opened, is neither reopened nor extended, so   *)
(* that a refund cannot be put off.                                        *)
WindowsKept ==
  [][ /\ lottery'.upload_deadline_unix >= lottery.upload_deadline_unix
      /\ lottery.remediation_start_unix # 0 =>
           /\ lottery'.remediation_start_unix = lottery.remediation_start_unix
           /\ lottery'.remediation_deadline_unix = lottery.remediation_deadline_unix ]_vars

(* No ticket is sold once anyone can attest: the votes, and the pool they  *)
(* are weighed by, are cast over a closed set of tickets.                  *)
TicketsFrozen ==
  [][ UploadStarted \/ Attested # {} =>
        /\ lottery'.total_tickets = lottery.total_tickets
        /\ lottery'.participants_count = lottery.participants_count
        /\ \A w \in Wallet :
             participant'[w].tickets_bought = participant[w].tickets_bought ]_vars

(***************************************************************************)
(* Refinement.                                                             *)
(***************************************************************************)
(* The entry of the frozen pool that winner i of the book stands for.      *)
Drawn(i) ==
  [ index   |-> participant[EntryAt(i).wallet].participant_index,
    wallet  |-> EntryAt(i).wallet,
    tickets |-> EntryAt(i).tickets ]

WeightedDraw ==
  INSTANCE WeightedDraw WITH
    Entrant <- Wallet,
    pool    <- root.seed.pool,
    goal    <- root.target_winners,
    draw    <- root.round_draw_index,
    winners <- [i \in 1..root.selected_count |-> Drawn(i - 1)]

(* However the passes are cut into chunks, and whatever happens between    *)
(* them, FinalizeWinners draws exactly the winners of WeightedDraw.        *)
ImplementsDraw == WeightedDraw!Spec

Custody ==
  INSTANCE Custody WITH
    Depositor <- Wallet,
    Keeper    <- Authority,
    Rent      <- VaultRent,
    outcome   <- IF lottery.winners_count > 0 THEN "shares"
                 ELSE IF lottery.settled THEN "refunds" ELSE "open",
    deposits  <- [w \in Wallet |-> TicketPrice * participant[w].tickets_bought],
    winners   <- IF lottery.winners_count > 0 THEN Recorded ELSE {},
    share     <- IF lottery.winners_count > 0
                 THEN lottery.total_payout \div lottery.winners_count
                 ELSE 0

(* Through all instructions of a round, the lamports move as Custody says: *)
(* in until the outcome is decided, out to whom the outcome names and once *)
(* to each, the authority last; the outcome is decided once.               *)
ImplementsCustody == Custody!Spec

(***************************************************************************)
(* Liveness.                                                               *)
(***************************************************************************)
SoleAttester == lottery.participants_count = 1 /\ Attested # {}

(* A fee so high, at a price so low, that the winners' pool cannot give    *)
(* each of them one lamport: the last chunk fails on every retry.          *)
PoolTooSmall ==
  Frozen /\ WinnersPool(lottery.total_funds, ServiceChargeBps) < root.target_winners

(* Whatever buyers, attesters and the authority do or fail to do, the      *)
(* round settles; the exceptions are a sole participant who attested and a *)
(* pool too small to share (README.md: such a winner set is rejected).     *)
Settles == <>(lottery.settled \/ SoleAttester \/ PoolTooSmall)

(* Every round settled for refunds pays all of them and closes its vault.  *)
RefundsPaidOut == RefundPath ~> (RefundPath /\ vault = 0)

(***************************************************************************)
(* What the documentation says and the code does not do.                   *)
(***************************************************************************)
(* lib.rs and instructions/mod.rs: every ticket buyer is eligible.         *)
EveryBuyerEligible == Frozen => root.seed.eligible = lottery.participants_count

(* instructions/mod.rs: a round of several participants is settled for     *)
(* refunds only after the attestation deadline has passed.                 *)
RefundsAfterDeadline ==
  [][ lottery'.settled /\ ~lottery.settled /\ lottery'.winners_count = 0
      /\ lottery.participants_count > 1
      => now > lottery.upload_deadline_unix ]_vars

(* README.md: a round with a single participant can settle through refunds *)
(* once the upload phase has opened.                                       *)
SingleParticipantSettles ==
  (lottery.participants_count = 1 /\ UploadStarted) ~> lottery.settled
===============================================================================
