----------------------------- MODULE AccountsProofs ---------------------------
(***************************************************************************)
(* Whatever accounts a client names, a call works on the accounts of one   *)
(* lottery and of one wallet.  For any number of lotteries and wallets,    *)
(* any rent and any bound on tickets: the links of every account are the   *)
(* seeds of its address, a lottery counts its own participants only, its   *)
(* vault backs its own debts only, and a wallet pays and is paid for its   *)
(* own accounts only.                                                      *)
(*                                                                         *)
(* The argument.  The checks at the head of a handler leave one choice for *)
(* every account once lottery and wallet are chosen (GivenIs, AccountIs).  *)
(* So a step writes to one lottery's addresses and to no others (Touches), *)
(* and it is enough that this lottery is sound afterwards (Sound).         *)
(***************************************************************************)
EXTENDS Accounts, SumLemmas

(***************************************************************************)
(* Addresses.                                                              *)
(***************************************************************************)
(* Kind and lottery of an address can be read off its seeds.               *)
LEMMA Seeds ==
  ASSUME NEW l \in Lotteries
  PROVE  /\ l[1] = "lottery" /\ l[2] = derive_config_pda /\ l[3] \in Id
         /\ l = derive_lottery_pda(derive_config_pda, l[3])
         /\ derive_vault_pda(l)[1] = "vault" /\ derive_vault_pda(l)[2] = l
         /\ derive_vote_tally_pda(l)[1] = "vote_tally" /\ derive_vote_tally_pda(l)[2] = l
         /\ derive_finalization_ledger_pda(l)[1] = "finalization_root_v2"
         /\ derive_finalization_ledger_pda(l)[2] = l
         /\ derive_winner_page_pda(l, 0)[1] = "winner_page"
         /\ derive_winner_page_pda(l, 0)[2] = l
         /\ derive_config_pda[1] = "config"
         /\ Of(l) \subseteq Address /\ derive_config_pda \in Address
<1>1. PICK id \in Id : l = derive_lottery_pda(derive_config_pda, id)
  BY DEF Lotteries
<1>2. l[1] = "lottery" /\ l[2] = derive_config_pda /\ l[3] = id
  BY <1>1 DEF derive_lottery_pda
<1>3. Of(l) \subseteq Address
  BY DEF Of, Members, Address, Participants
<1>4. derive_config_pda \in Address /\ derive_config_pda[1] = "config"
  BY DEF Address, derive_config_pda
<1> QED
  BY <1>1, <1>2, <1>3, <1>4 DEF derive_vault_pda, derive_vote_tally_pda,
     derive_finalization_ledger_pda, derive_winner_page_pda

(* The address of a participant tells its lottery and its wallet.          *)
LEMMA MemberSeeds ==
  ASSUME NEW l \in Lotteries, NEW w \in Wallet
  PROVE  /\ derive_participant_pda(l, w)[1] = "participant"
         /\ derive_participant_pda(l, w)[2] = l
         /\ derive_participant_pda(l, w)[3] = w
         /\ derive_participant_pda(l, w) \in Members(l)
BY DEF derive_participant_pda, Members

(* A participant of l is the account of l and of the wallet in its seeds.  *)
LEMMA MemberIs ==
  ASSUME NEW l \in Lotteries, NEW a \in Members(l)
  PROVE  /\ a[1] = "participant" /\ a[2] = l /\ a[3] \in Wallet
         /\ a = derive_participant_pda(l, a[3])
<1>1. PICK w \in Wallet : a = derive_participant_pda(l, w) BY DEF Members
<1> QED BY <1>1, MemberSeeds

(* The participants of l are those whose seeds name it.                    *)
LEMMA MembersAre ==
  ASSUME NEW l \in Lotteries
  PROVE  \A a : a \in Participants /\ a[2] = l <=> a \in Members(l)
<1> TAKE a
<1>1. ASSUME a \in Participants, a[2] = l PROVE a \in Members(l)
  <2>1. PICK k \in Lotteries, w \in Wallet : a = derive_participant_pda(k, w)
    BY <1>1 DEF Participants
  <2> QED BY <1>1, <2>1, MemberSeeds
<1>2. ASSUME a \in Members(l) PROVE a \in Participants /\ a[2] = l
  BY <1>2, MemberIs DEF Participants
<1> QED BY <1>1, <1>2

(* Every participant is one of some lottery.                               *)
LEMMA MemberOf ==
  ASSUME NEW a \in Participants
  PROVE  a[2] \in Lotteries /\ a \in Members(a[2])
<1>1. PICK k \in Lotteries, w \in Wallet : a = derive_participant_pda(k, w)
  BY DEF Participants
<1> QED BY <1>1, MemberSeeds

(* No address belongs to two lotteries.                                    *)
LEMMA Apart ==
  ASSUME NEW l \in Lotteries, NEW k \in Lotteries
  PROVE  /\ k # l => Of(l) \cap Of(k) = {}
         /\ derive_config_pda \notin Of(l)
<1>1. \A m \in Lotteries : \A x \in Of(m) :
        /\ x[1] = "lottery" => x = m
        /\ x[1] # "lottery" => x[2] = m
        /\ x[1] # "config"
  <2> SUFFICES ASSUME NEW m \in Lotteries, NEW x \in Of(m)
               PROVE  /\ x[1] = "lottery" => x = m
                      /\ x[1] # "lottery" => x[2] = m
                      /\ x[1] # "config"
    OBVIOUS
  <2>1. CASE x \in Members(m) BY <2>1, MemberIs
  <2>2. CASE x \notin Members(m) BY <2>2, Seeds DEF Of
  <2> QED BY <2>1, <2>2
<1> QED BY <1>1, Seeds

(* An address with the seeds of a lottery is a lottery's, one with those   *)
(* of a participant a participant's.                                       *)
LEMMA WhatAddress ==
  ASSUME NEW x \in Address
  PROVE  /\ x[1] = "config" => x = derive_config_pda
         /\ x[1] = "lottery" => x \in Lotteries
         /\ x[1] = "participant" => x \in Participants
<1>1. CASE x = derive_config_pda BY <1>1, Seeds DEF derive_config_pda
<1>2. CASE x \in Lotteries BY <1>2, Seeds
<1>3. CASE x \in Participants
  BY <1>3, MemberOf, MemberIs
<1>4. CASE \E l \in Lotteries :
             x \in {derive_vault_pda(l), derive_vote_tally_pda(l),
                    derive_finalization_ledger_pda(l), derive_winner_page_pda(l, 0)}
  BY <1>4, Seeds
<1> QED BY <1>1, <1>2, <1>3, <1>4 DEF Address

(***************************************************************************)
(* The invariant.                                                          *)
(***************************************************************************)
LotteryRecord(l) ==
  [ type : {"Lottery"}, closed : {FALSE}, config : {derive_config_pda}, id : {l[3]},
    vault : {derive_vault_pda(l)},
    stage : {"selling", "attesting", "shares", "paid", "refunds"},
    participants_count : Nat, total_tickets : Nat, attested_count : Nat,
    provider_uploaded_count : Nat, settlement_batches_completed : Nat ]

ParticipantRecord(a) ==
  [ type : {"Participant"}, closed : BOOLEAN, lottery : {a[2]}, wallet : {a[3]},
    tickets_bought : Nat, attested_uploaded : BOOLEAN, reveal_included : BOOLEAN,
    refund_claimed : BOOLEAN ]

TallyRecord(l) ==
  [type : {"VoteTally"}, closed : {FALSE}, lottery : {l}, processed_count : Nat]

LedgerRecord(l) ==
  [type : {"FinalizationLedger"}, closed : {FALSE}, lottery : {l}, selected_count : Nat]

PageRecord(l) ==
  [ type : {"WinnerPage"}, closed : {FALSE}, lottery : {l}, page_index : {0},
    entries : SUBSET Wallet, paid : BOOLEAN ]

(* The fields of such records.                                             *)
LEMMA LotteryFields ==
  ASSUME NEW l \in Lotteries, NEW d \in LotteryRecord(l)
  PROVE  /\ d.type = "Lottery" /\ ~d.closed /\ d.config = derive_config_pda
         /\ d.id = l[3] /\ d.vault = derive_vault_pda(l)
         /\ d.stage \in {"selling", "attesting", "shares", "paid", "refunds"}
         /\ d.participants_count \in Nat /\ d.total_tickets \in Nat
         /\ d.attested_count \in Nat /\ d.provider_uploaded_count \in Nat
         /\ d.settlement_batches_completed \in Nat
         /\ d # NoData
<1>1. d.type = "Lottery" /\ ~d.closed BY DEF LotteryRecord
<1>2. d.config = derive_config_pda /\ d.id = l[3] /\ d.vault = derive_vault_pda(l)
  BY DEF LotteryRecord
<1>3. d.stage \in {"selling", "attesting", "shares", "paid", "refunds"}
  BY DEF LotteryRecord
<1>4. d.participants_count \in Nat /\ d.total_tickets \in Nat
  BY DEF LotteryRecord
<1>5. /\ d.attested_count \in Nat /\ d.provider_uploaded_count \in Nat
      /\ d.settlement_batches_completed \in Nat
  BY DEF LotteryRecord
<1>6. d # NoData BY <1>1 DEF NoData
<1> QED BY <1>1, <1>2, <1>3, <1>4, <1>5, <1>6

(* What instructions write into such records.                              *)
CountsAre(e, l, stage, participants, tickets, attested, uploaded, batches) ==
  /\ e \in LotteryRecord(l)
  /\ e.stage = stage
  /\ e.participants_count = participants
  /\ e.total_tickets = tickets
  /\ e.attested_count = attested
  /\ e.provider_uploaded_count = uploaded
  /\ e.settlement_batches_completed = batches

(* A new stage, and every count as it was.                                 *)
LEMMA StageSet ==
  ASSUME NEW l \in Lotteries, NEW d \in LotteryRecord(l),
         NEW stage \in {"selling", "attesting", "shares", "paid", "refunds"},
         NEW e, e = [d EXCEPT !.stage = stage]
  PROVE  CountsAre(e, l, stage, d.participants_count, d.total_tickets, d.attested_count,
                   d.provider_uploaded_count, d.settlement_batches_completed)
<1>1. e \in LotteryRecord(l) BY DEF LotteryRecord
<1> QED BY <1>1 DEF LotteryRecord, CountsAre

(* A ticket sold: one participant more if the account is new.              *)
LEMMA SaleCounts ==
  ASSUME NEW l \in Lotteries, NEW d \in LotteryRecord(l), NEW n \in {0, 1},
         NEW e, e = [d EXCEPT !.participants_count = @ + n, !.total_tickets = @ + 1]
  PROVE  CountsAre(e, l, d.stage, d.participants_count + n, d.total_tickets + 1,
                   d.attested_count, d.provider_uploaded_count,
                   d.settlement_batches_completed)
<1>0. d.participants_count + n \in Nat /\ d.total_tickets + 1 \in Nat BY LotteryFields
<1>1. e \in LotteryRecord(l) BY <1>0 DEF LotteryRecord
<1> QED BY <1>1 DEF LotteryRecord, CountsAre

(* An attestation counted.                                                 *)
LEMMA AttestCounts ==
  ASSUME NEW l \in Lotteries, NEW d \in LotteryRecord(l),
         NEW e, e = [d EXCEPT !.attested_count = @ + 1]
  PROVE  CountsAre(e, l, d.stage, d.participants_count, d.total_tickets,
                   d.attested_count + 1, d.provider_uploaded_count,
                   d.settlement_batches_completed)
<1>0. d.attested_count + 1 \in Nat BY LotteryFields
<1>1. e \in LotteryRecord(l) BY <1>0 DEF LotteryRecord
<1> QED BY <1>1 DEF LotteryRecord, CountsAre

(* An attestation counted together with its reveal.                        *)
LEMMA RevealCounts ==
  ASSUME NEW l \in Lotteries, NEW d \in LotteryRecord(l),
         NEW e, e = [d EXCEPT !.attested_count = @ + 1, !.provider_uploaded_count = @ + 1]
  PROVE  CountsAre(e, l, d.stage, d.participants_count, d.total_tickets,
                   d.attested_count + 1, d.provider_uploaded_count + 1,
                   d.settlement_batches_completed)
<1>0. d.attested_count + 1 \in Nat /\ d.provider_uploaded_count + 1 \in Nat BY LotteryFields
<1>1. e \in LotteryRecord(l) BY <1>0 DEF LotteryRecord
<1> QED BY <1>1 DEF LotteryRecord, CountsAre

(* A reveal counted.                                                       *)
LEMMA UploadCounts ==
  ASSUME NEW l \in Lotteries, NEW d \in LotteryRecord(l),
         NEW e, e = [d EXCEPT !.provider_uploaded_count = @ + 1]
  PROVE  CountsAre(e, l, d.stage, d.participants_count, d.total_tickets,
                   d.attested_count, d.provider_uploaded_count + 1,
                   d.settlement_batches_completed)
<1>0. d.provider_uploaded_count + 1 \in Nat BY LotteryFields
<1>1. e \in LotteryRecord(l) BY <1>0 DEF LotteryRecord
<1> QED BY <1>1 DEF LotteryRecord, CountsAre

(* A refund counted.                                                       *)
LEMMA RefundCounts ==
  ASSUME NEW l \in Lotteries, NEW d \in LotteryRecord(l),
         NEW e, e = [d EXCEPT !.settlement_batches_completed = @ + 1]
  PROVE  CountsAre(e, l, d.stage, d.participants_count, d.total_tickets,
                   d.attested_count, d.provider_uploaded_count,
                   d.settlement_batches_completed + 1)
<1>0. d.settlement_batches_completed + 1 \in Nat BY LotteryFields
<1>1. e \in LotteryRecord(l) BY <1>0 DEF LotteryRecord
<1> QED BY <1>1 DEF LotteryRecord, CountsAre

(* The fields of a participant.                                            *)
LEMMA ParticipantFields ==
  ASSUME NEW a, NEW d \in ParticipantRecord(a)
  PROVE  /\ d.type = "Participant" /\ d.closed \in BOOLEAN
         /\ d.lottery = a[2] /\ d.wallet = a[3] /\ d.tickets_bought \in Nat
         /\ d.attested_uploaded \in BOOLEAN /\ d.reveal_included \in BOOLEAN
         /\ d.refund_claimed \in BOOLEAN /\ d # NoData
BY DEF ParticipantRecord, NoData

FlagsAre(e, a, tickets, attested, included, refunded, closed) ==
  /\ e \in ParticipantRecord(a)
  /\ e.tickets_bought = tickets
  /\ e.attested_uploaded <=> attested
  /\ e.reveal_included <=> included
  /\ e.refund_claimed <=> refunded
  /\ e.closed <=> closed

(* A ticket more, and every flag as it was.                                *)
LEMMA TicketFlags ==
  ASSUME NEW a, NEW d \in ParticipantRecord(a), NEW e,
         e = [d EXCEPT !.tickets_bought = @ + 1]
  PROVE  FlagsAre(e, a, d.tickets_bought + 1, d.attested_uploaded, d.reveal_included,
                  d.refund_claimed, d.closed)
<1>1. e \in ParticipantRecord(a) BY DEF ParticipantRecord
<1> QED BY <1>1 DEF ParticipantRecord, FlagsAre

(* A participant that attests.                                             *)
LEMMA AttestFlags ==
  ASSUME NEW a, NEW d \in ParticipantRecord(a), NEW e,
         e = [d EXCEPT !.attested_uploaded = TRUE]
  PROVE  FlagsAre(e, a, d.tickets_bought, TRUE, d.reveal_included,
                  d.refund_claimed, d.closed)
<1>1. e \in ParticipantRecord(a) BY DEF ParticipantRecord
<1> QED BY <1>1 DEF ParticipantRecord, FlagsAre

(* A participant that attests and whose reveal is included.                *)
LEMMA RevealFlags ==
  ASSUME NEW a, NEW d \in ParticipantRecord(a), NEW e,
         e = [d EXCEPT !.attested_uploaded = TRUE, !.reveal_included = TRUE]
  PROVE  FlagsAre(e, a, d.tickets_bought, TRUE, TRUE,
                  d.refund_claimed, d.closed)
<1>1. e \in ParticipantRecord(a) BY DEF ParticipantRecord
<1> QED BY <1>1 DEF ParticipantRecord, FlagsAre

(* A participant whose reveal is included.                                 *)
LEMMA UploadFlags ==
  ASSUME NEW a, NEW d \in ParticipantRecord(a), NEW e,
         e = [d EXCEPT !.reveal_included = TRUE]
  PROVE  FlagsAre(e, a, d.tickets_bought, d.attested_uploaded, TRUE,
                  d.refund_claimed, d.closed)
<1>1. e \in ParticipantRecord(a) BY DEF ParticipantRecord
<1> QED BY <1>1 DEF ParticipantRecord, FlagsAre

(* A participant that has its refund.                                      *)
LEMMA RefundFlags ==
  ASSUME NEW a, NEW d \in ParticipantRecord(a), NEW e,
         e = [d EXCEPT !.refund_claimed = TRUE]
  PROVE  FlagsAre(e, a, d.tickets_bought, d.attested_uploaded, d.reveal_included,
                  TRUE, d.closed)
<1>1. e \in ParticipantRecord(a) BY DEF ParticipantRecord
<1> QED BY <1>1 DEF ParticipantRecord, FlagsAre

(* A participant whose account is closed: the data stays as it was.        *)
LEMMA CloseFlags ==
  ASSUME NEW a, NEW d \in ParticipantRecord(a), NEW e,
         e = [d EXCEPT !.closed = TRUE]
  PROVE  FlagsAre(e, a, d.tickets_bought, d.attested_uploaded, d.reveal_included,
                  d.refund_claimed, TRUE)
<1>1. e \in ParticipantRecord(a) BY DEF ParticipantRecord
<1> QED BY <1>1 DEF ParticipantRecord, FlagsAre

(* A participant account as it is opened.                                  *)
LEMMA NewParticipantIs ==
  ASSUME NEW l, NEW w, NEW a, a[2] = l, a[3] = w, NEW p, p = NewParticipant(l, w)
  PROVE  p \in ParticipantRecord(a) /\ ~p.refund_claimed /\ ~p.closed
<1>1. p \in ParticipantRecord(a) BY DEF NewParticipant, ParticipantRecord
<1>2. ~p.refund_claimed /\ ~p.closed BY DEF NewParticipant
<1> QED BY <1>1, <1>2

(* A tally that counts one vote more.                                      *)
LEMMA TallySet ==
  ASSUME NEW l, NEW d \in TallyRecord(l), NEW e, e = [d EXCEPT !.processed_count = @ + 1]
  PROVE  e \in TallyRecord(l)
<1>1. d.processed_count + 1 \in Nat BY DEF TallyRecord
<1> QED BY <1>1 DEF TallyRecord

(* The accounts of l hold nothing or data of their kind, linked to l.      *)
Shaped(l) ==
  /\ store[l] \in LotteryRecord(l) \cup {NoData}
  /\ store[derive_vault_pda(l)] \in {NoData, NewVault}
  /\ store[derive_vote_tally_pda(l)] \in TallyRecord(l) \cup {NoData}
  /\ store[derive_finalization_ledger_pda(l)] \in LedgerRecord(l) \cup {NoData}
  /\ store[derive_winner_page_pda(l, 0)] \in PageRecord(l) \cup {NoData}
  /\ \A a \in Members(l) : store[a] \in ParticipantRecord(a) \cup {NoData}

(* What the stage of l allows its accounts to be.                          *)
Staged(l) ==
  /\ store[l] = NoData =>
       /\ store[derive_vault_pda(l)] = NoData
       /\ store[derive_vote_tally_pda(l)] = NoData
       /\ store[derive_finalization_ledger_pda(l)] = NoData
       /\ store[derive_winner_page_pda(l, 0)] = NoData
       /\ \A a \in Members(l) : store[a] = NoData
  /\ \A a \in Members(l) : store[a] # NoData =>
       /\ store[a].closed => store[l].stage \in {"refunds", "paid"}
       /\ store[a].refund_claimed => store[l].stage = "refunds"
  /\ store[derive_winner_page_pda(l, 0)] # NoData =>
       /\ store[l].stage \in {"shares", "paid"}
       /\ store[derive_winner_page_pda(l, 0)].paid <=> store[l].stage = "paid"
       /\ \E a \in Members(l) :
            /\ store[a] # NoData /\ store[a].reveal_included
            /\ store[derive_winner_page_pda(l, 0)].entries = {a[3]}

(* The tickets of every participant.                                       *)
TicketsAt == [a \in Participants |-> store[a].tickets_bought]

Attested(l) == { a \in In(l) : store[a].attested_uploaded }
Included(l) == { a \in In(l) : store[a].reveal_included }
Refunded(l) == { a \in In(l) : store[a].refund_claimed }
Due(l) == { a \in In(l) : ~store[a].refund_claimed }

(* The counters of l count its participants.                               *)
Counted(l) ==
  /\ IsFiniteSet(In(l))
  /\ store[l].participants_count = Cardinality(In(l))
  /\ store[l].total_tickets = SumOver(TicketsAt, In(l))
  /\ store[l].attested_count = Cardinality(Attested(l))
  /\ store[l].provider_uploaded_count = Cardinality(Included(l))
  /\ store[l].settlement_batches_completed = Cardinality(Refunded(l))

(* Its vault holds what it owes.                                           *)
Backed(l) ==
  lamports[derive_vault_pda(l)] \in
    (IF store[l].stage = "paid"
     THEN {0}
     ELSE {Rent + SumOver(TicketsAt, Due(l))}
            \cup (IF store[l].stage = "refunds" /\ Due(l) = {} THEN {0} ELSE {}))

Sound(l) ==
  /\ Shaped(l)
  /\ Staged(l)
  /\ store[l] # NoData => Counted(l) /\ Backed(l)

(* What the accounts of each lottery say a wallet has got.                 *)
Balances(w) == [l \in Lotteries |-> Balance(l, w)]

Settled == \A w \in Wallet : purse[w] = SumOver(Balances(w), Opened)

Base ==
  /\ DOMAIN store = Address
  /\ lamports \in [Address -> Nat]
  /\ purse \in [Signer -> Int]
  /\ store[derive_config_pda] = Config

(* The inductive invariant.                                                *)
IInv ==
  /\ Base
  /\ \A l \in Lotteries : Sound(l)
  /\ IsFiniteSet(Opened)
  /\ Settled

(***************************************************************************)
(* What a call is given.                                                   *)
(***************************************************************************)
(* A lottery that a call is given is read for what it is.                  *)
LEMMA GivenIs ==
  ASSUME IInv, NEW g \in LotteryGiven
  PROVE  /\ g.config_ai = derive_config_pda
         /\ g.lottery_ai \in Lotteries
         /\ g.lottery = store[g.lottery_ai]
         /\ store[g.lottery_ai] \in LotteryRecord(g.lottery_ai)
<1>1. PICK config_ai \in { c \in Address : assert_pda_owned(c, derive_config_pda) },
           lottery_ai \in Address :
        g \in { [config_ai |-> config_ai, lottery_ai |-> lottery_ai, lottery |-> lottery] :
                  lottery \in { d \in read_account_data(lottery_ai, "Lottery") :
                      assert_pda_owned(lottery_ai, derive_lottery_pda(config_ai, d.id)) } }
  BY DEF LotteryGiven
<1>2. PICK d \in read_account_data(lottery_ai, "Lottery") :
        /\ assert_pda_owned(lottery_ai, derive_lottery_pda(config_ai, d.id))
        /\ g = [config_ai |-> config_ai, lottery_ai |-> lottery_ai, lottery |-> d]
  BY <1>1
<1>3. config_ai = derive_config_pda BY <1>1 DEF assert_pda_owned
<1>4. lottery_ai[1] = "lottery" /\ Owned(lottery_ai)
  BY <1>2 DEF assert_pda_owned, derive_lottery_pda
<1>5. lottery_ai \in Lotteries BY <1>4, WhatAddress
<1>6. store[lottery_ai] \in LotteryRecord(lottery_ai)
  BY <1>4, <1>5 DEF IInv, Sound, Shaped, Owned, NoData
<1>7. d = store[lottery_ai]
  BY <1>2, <1>4, <1>6 DEF read_account_data, LotteryRecord
<1> QED BY <1>2, <1>3, <1>5, <1>6, <1>7

(* The same where the stage is looked at.                                  *)
LEMMA GivenAtIs ==
  ASSUME IInv, NEW stage, NEW g \in GivenAt(stage)
  PROVE  /\ g.config_ai = derive_config_pda
         /\ g.lottery_ai \in Lotteries
         /\ g.lottery = store[g.lottery_ai]
         /\ store[g.lottery_ai] \in LotteryRecord(g.lottery_ai)
         /\ store[g.lottery_ai].stage = stage
<1>1. g \in LotteryGiven /\ g.lottery.stage = stage BY DEF GivenAt
<1> QED BY <1>1, GivenIs

(* An account found at a participant's address is that participant's.      *)
LEMMA AccountRead ==
  ASSUME IInv, NEW l \in Lotteries, NEW a \in Address, NEW w,
         assert_pda_owned(a, derive_participant_pda(l, w)),
         NEW d \in read_account_data(a, "Participant")
  PROVE  /\ a \in Members(l) /\ a[2] = l /\ a[3] = w /\ w \in Wallet
         /\ d = store[a] /\ store[a] \in ParticipantRecord(a) /\ ~store[a].closed
<1>1. a = <<"participant", l, w>> /\ Owned(a)
  BY DEF assert_pda_owned, derive_participant_pda
<1>2. a[1] = "participant" /\ a[2] = l /\ a[3] = w BY <1>1
<1>3. a \in Participants BY <1>2, WhatAddress
<1>4. a \in Members(l) BY <1>2, <1>3, MembersAre
<1>5. w \in Wallet BY <1>2, <1>4, MemberIs
<1>6. store[a] \in ParticipantRecord(a) /\ ~store[a].closed
  BY <1>1, <1>4 DEF IInv, Sound, Shaped, Owned, NoData
<1>7. d = store[a]
  BY <1>1, <1>6 DEF read_account_data, ParticipantRecord
<1> QED BY <1>2, <1>4, <1>5, <1>6, <1>7

(* The account of the wallet that signs.                                   *)
LEMMA AccountIs ==
  ASSUME IInv, NEW g, g.lottery_ai \in Lotteries, NEW wallet \in Wallet,
         NEW given \in AccountOf(g, wallet)
  PROVE  LET a == given.participant_ai
         IN  /\ a \in Members(g.lottery_ai) /\ a[3] = wallet
             /\ given.participant = store[a]
             /\ store[a] \in ParticipantRecord(a) /\ ~store[a].closed
<1>1. PICK a \in Address :
        given \in { [participant_ai |-> a, participant |-> p] :
          p \in { d \in read_account_data(a, "Participant") :
                    /\ assert_pda_owned(a, derive_participant_pda(g.lottery_ai, wallet))
                    /\ d.wallet = wallet } }
  BY DEF AccountOf
<1>2. PICK d \in read_account_data(a, "Participant") :
        /\ assert_pda_owned(a, derive_participant_pda(g.lottery_ai, wallet))
        /\ given = [participant_ai |-> a, participant |-> d]
  BY <1>1
<1>3. a \in Members(g.lottery_ai) /\ a[3] = wallet
      /\ d = store[a] /\ store[a] \in ParticipantRecord(a) /\ ~store[a].closed
  BY <1>2, AccountRead
<1> QED BY <1>2, <1>3

(* An account that no one needs to sign for.                               *)
LEMMA AccountInIs ==
  ASSUME IInv, NEW g, g.lottery_ai \in Lotteries, NEW given \in AccountIn(g)
  PROVE  LET a == given.participant_ai
         IN  /\ a \in Members(g.lottery_ai)
             /\ given.participant = store[a]
             /\ store[a] \in ParticipantRecord(a) /\ ~store[a].closed
<1>1. PICK a \in Address :
        given \in { [participant_ai |-> a, participant |-> p] :
          p \in { d \in read_account_data(a, "Participant") :
                    /\ assert_pda_owned(a, derive_participant_pda(g.lottery_ai, d.wallet))
                    /\ d.lottery = g.lottery_ai } }
  BY DEF AccountIn
<1>2. PICK d \in read_account_data(a, "Participant") :
        /\ assert_pda_owned(a, derive_participant_pda(g.lottery_ai, d.wallet))
        /\ given = [participant_ai |-> a, participant |-> d]
  BY <1>1
<1>3. a \in Members(g.lottery_ai)
      /\ d = store[a] /\ store[a] \in ParticipantRecord(a) /\ ~store[a].closed
  BY <1>2, AccountRead
<1> QED BY <1>2, <1>3

(* The vault is the lottery's, and it is open.                             *)
LEMMA VaultIs ==
  ASSUME NEW g, NEW v \in VaultGiven(g)
  PROVE  v = derive_vault_pda(g.lottery_ai)
BY DEF VaultGiven, assert_pda_owned

(* A tally, ledger or page is the lottery's, or a new one.                 *)
LEMMA TallyIs ==
  ASSUME IInv, NEW l \in Lotteries,
         NEW tally \in Loaded(derive_vote_tally_pda(l), NewTally(l))
  PROVE  tally \in TallyRecord(l)
<1> DEFINE x == derive_vote_tally_pda(l)
<1>1. CASE Owned(x)
  <2>1. store[x] \in TallyRecord(l)
    BY <1>1 DEF IInv, Sound, Shaped, Owned, NoData
  <2>2. tally = store[x]
    BY <1>1, <2>1 DEF Loaded, read_account_data, TallyRecord, NewTally
  <2> QED BY <2>1, <2>2
<1>2. CASE ~Owned(x)
  <2>1. tally = NewTally(l) BY <1>2 DEF Loaded
  <2> QED BY <2>1 DEF NewTally, TallyRecord
<1> QED BY <1>1, <1>2

(* A finalization ledger is the lottery's, or a new one.                   *)
LEMMA LedgerIs ==
  ASSUME IInv, NEW l \in Lotteries,
         NEW ledger \in Loaded(derive_finalization_ledger_pda(l), NewLedger(l))
  PROVE  ledger \in LedgerRecord(l)
<1> DEFINE x == derive_finalization_ledger_pda(l)
<1>1. CASE Owned(x)
  <2>1. store[x] \in LedgerRecord(l)
    BY <1>1 DEF IInv, Sound, Shaped, Owned, NoData
  <2>2. ledger = store[x]
    BY <1>1, <2>1 DEF Loaded, read_account_data, LedgerRecord, NewLedger
  <2> QED BY <2>1, <2>2
<1>2. CASE ~Owned(x)
  <2>1. ledger = NewLedger(l) BY <1>2 DEF Loaded
  <2> QED BY <2>1 DEF NewLedger, LedgerRecord
<1> QED BY <1>1, <1>2

(* A page that is not there yet is opened empty.                           *)
LEMMA NewPageIs ==
  ASSUME IInv, NEW l \in Lotteries, store[derive_winner_page_pda(l, 0)] = NoData,
         NEW page \in Loaded(derive_winner_page_pda(l, 0), NewPage(l, 0))
  PROVE  page = NewPage(l, 0)
BY DEF Loaded, Owned, NoData

(* The account of a buyer is its own, or a new one.                        *)
LEMMA BuyerIs ==
  ASSUME IInv, NEW l \in Lotteries, NEW w \in Wallet, NEW a,
         a = derive_participant_pda(l, w), NEW p \in Loaded(a, NewParticipant(l, w))
  PROVE  /\ Owned(a) => p = store[a] /\ store[a] \in ParticipantRecord(a)
         /\ ~Owned(a) => p = NewParticipant(l, w)
<1>1. a \in Members(l) BY MemberSeeds
<1>2. ASSUME Owned(a) PROVE p = store[a] /\ store[a] \in ParticipantRecord(a)
  <2>1. store[a] \in ParticipantRecord(a)
    BY <1>1, <1>2 DEF IInv, Sound, Shaped, Owned, NoData
  <2>2. p = store[a]
    BY <1>2, <2>1 DEF Loaded, read_account_data, ParticipantRecord, NewParticipant
  <2> QED BY <2>1, <2>2
<1>3. ASSUME ~Owned(a) PROVE p = NewParticipant(l, w)
  BY <1>3 DEF Loaded
<1> QED BY <1>2, <1>3

(***************************************************************************)
(* What a step counts.                                                     *)
(***************************************************************************)
(* The participants before and after a step.                               *)
LEMMA InIs ==
  ASSUME NEW l \in Lotteries
  PROVE  /\ In(l) = { a \in Members(l) : store[a].type # "None" }
         /\ In(l)' = { a \in Members(l) : store'[a].type # "None" }
         /\ In(l) \subseteq Participants /\ In(l)' \subseteq Participants
BY MembersAre DEF In

(* A step that writes to no participant of l leaves its counts alone.      *)
LEMMA MembersKept ==
  ASSUME NEW l \in Lotteries, \A a \in Members(l) : store'[a] = store[a],
         IsFiniteSet(In(l))
  PROVE  /\ In(l)' = In(l) /\ Due(l)' = Due(l)
         /\ Attested(l)' = Attested(l) /\ Included(l)' = Included(l)
         /\ Refunded(l)' = Refunded(l)
         /\ SumOver(TicketsAt', In(l)') = SumOver(TicketsAt, In(l))
         /\ SumOver(TicketsAt', Due(l)') = SumOver(TicketsAt, Due(l))
<1>1. In(l)' = In(l) BY InIs
<1>2. \A a \in In(l) : store'[a] = store[a] BY InIs
<1>3. /\ Due(l)' = Due(l) /\ Attested(l)' = Attested(l)
      /\ Included(l)' = Included(l) /\ Refunded(l)' = Refunded(l)
  BY <1>1, <1>2 DEF Due, Attested, Included, Refunded
<1>4. \A a \in In(l) : TicketsAt'[a] = TicketsAt[a]
  BY <1>2, InIs DEF TicketsAt
<1>5. SumOver(TicketsAt', In(l)) = SumOver(TicketsAt, In(l))
  BY <1>4, SumSame
<1>6. Due(l) \subseteq In(l) /\ IsFiniteSet(Due(l)) BY FS_Subset DEF Due
<1>7. SumOver(TicketsAt', Due(l)) = SumOver(TicketsAt, Due(l))
  BY <1>4, <1>6, SumSame
<1> QED BY <1>1, <1>3, <1>5, <1>7

(* Tickets and counters are numbers.                                       *)
LEMMA TicketsNat ==
  ASSUME NEW l \in Lotteries, Shaped(l)
  PROVE  \A a \in In(l) : TicketsAt[a] \in Nat
<1> SUFFICES ASSUME NEW a \in In(l) PROVE TicketsAt[a] \in Nat OBVIOUS
<1>1. a \in Members(l) /\ store[a].type # "None" /\ a \in Participants BY InIs
<1>2. store[a] \in ParticipantRecord(a)
  BY <1>1 DEF Shaped, NoData
<1> QED BY <1>1, <1>2 DEF ParticipantRecord, TicketsAt

(* One ticket more at one participant, new or not, is one more in the sum. *)
LEMMA OneMore ==
  ASSUME NEW S, IsFiniteSet(S), NEW a, NEW f, NEW g, NEW n \in Nat,
         \A b \in S : f[b] \in Nat, \A b \in S \ {a} : g[b] = f[b],
         g[a] = n + 1, a \in S => f[a] = n, a \notin S => n = 0
  PROVE  /\ SumOver(f, S) \in Nat
         /\ SumOver(g, S \cup {a}) = SumOver(f, S) + 1
<1>1. SumOver(f, S) \in Nat BY SumNat
<1>2. CASE a \in S
  <2>1. SumOver(g, S) + f[a] = SumOver(f, S) + g[a] BY <1>2, SumUpdate
  <2>2. \A b \in S : g[b] \in Nat OBVIOUS
  <2>3. SumOver(g, S) \in Nat BY <2>2, SumNat
  <2>4. S \cup {a} = S BY <1>2
  <2>5. SumOver(g, S) = SumOver(f, S) + 1 BY <1>1, <1>2, <2>1, <2>3
  <2> QED BY <1>1, <2>4, <2>5
<1>3. CASE a \notin S
  <2>1. SumOver(g, S) = SumOver(f, S) BY <1>3, SumSame
  <2>2. \A b \in S : g[b] \in Nat BY <1>3
  <2>3. SumOver(g, S \cup {a}) = SumOver(g, S) + g[a] BY <1>3, <2>2, SumAdd
  <2> QED BY <1>1, <1>3, <2>1, <2>3
<1> QED BY <1>1, <1>2, <1>3

(* A call that raises flags of one participant raises each counter by one  *)
(* where the flag was down.                                                *)
LEMMA FlagsMove ==
  ASSUME NEW l \in Lotteries, Shaped(l), IsFiniteSet(In(l)), NEW a \in In(l),
         \A b \in Members(l) \ {a} : store'[b] = store[b],
         store'[a] \in ParticipantRecord(a),
         store'[a].tickets_bought = store[a].tickets_bought,
         store[a].attested_uploaded => store'[a].attested_uploaded,
         store[a].reveal_included => store'[a].reveal_included,
         store[a].refund_claimed => store'[a].refund_claimed
  PROVE  /\ In(l)' = In(l)
         /\ SumOver(TicketsAt', In(l)') = SumOver(TicketsAt, In(l))
         /\ Cardinality(Attested(l)') = Cardinality(Attested(l))
              + (IF store'[a].attested_uploaded /\ ~store[a].attested_uploaded THEN 1 ELSE 0)
         /\ Cardinality(Included(l)') = Cardinality(Included(l))
              + (IF store'[a].reveal_included /\ ~store[a].reveal_included THEN 1 ELSE 0)
         /\ Cardinality(Refunded(l)') = Cardinality(Refunded(l))
              + (IF store'[a].refund_claimed /\ ~store[a].refund_claimed THEN 1 ELSE 0)
         /\ store'[a].refund_claimed = store[a].refund_claimed =>
              /\ Due(l)' = Due(l)
              /\ SumOver(TicketsAt', Due(l)') = SumOver(TicketsAt, Due(l))
         /\ store'[a].refund_claimed /\ ~store[a].refund_claimed =>
              /\ SumOver(TicketsAt', Due(l)') \in Nat
              /\ SumOver(TicketsAt, Due(l))
                   = SumOver(TicketsAt', Due(l)') + store[a].tickets_bought
         /\ Due(l)' \subseteq Due(l)
<1>1. a \in Members(l) /\ store[a].type # "None" BY InIs
<1>2. store[a] \in ParticipantRecord(a) BY <1>1 DEF Shaped, NoData
<1>3. In(l)' = In(l)
  <2>1. store'[a].type # "None" BY DEF ParticipantRecord
  <2> QED BY <1>1, <2>1, InIs
<1>4. \A b \in In(l) \ {a} : store'[b] = store[b] BY InIs
<1>5. \A b \in In(l) : TicketsAt'[b] = TicketsAt[b] /\ TicketsAt[b] \in Nat
  <2>1. \A b \in In(l) : TicketsAt'[b] = TicketsAt[b]
    BY <1>4, InIs DEF TicketsAt
  <2> QED BY <2>1, TicketsNat
<1>6. SumOver(TicketsAt', In(l)') = SumOver(TicketsAt, In(l))
  <2>1. SumOver(TicketsAt', In(l)) = SumOver(TicketsAt, In(l)) BY <1>5, SumSame
  <2> QED BY <1>3, <2>1
<1>7. /\ IsFiniteSet(Attested(l)) /\ IsFiniteSet(Included(l))
      /\ IsFiniteSet(Refunded(l)) /\ IsFiniteSet(Due(l))
  <2>1. /\ Attested(l) \subseteq In(l) /\ Included(l) \subseteq In(l)
        /\ Refunded(l) \subseteq In(l) /\ Due(l) \subseteq In(l)
    BY DEF Attested, Included, Refunded, Due
  <2> QED BY <2>1, FS_Subset
<1>8. Cardinality(Attested(l)') = Cardinality(Attested(l))
        + (IF store'[a].attested_uploaded /\ ~store[a].attested_uploaded THEN 1 ELSE 0)
  <2>1. CASE store'[a].attested_uploaded /\ ~store[a].attested_uploaded
    <3>1. Attested(l)' = Attested(l) \cup {a} /\ a \notin Attested(l)
      BY <1>3, <1>4, <2>1 DEF Attested
    <3> QED BY <1>7, <2>1, <3>1, FS_AddElement, FS_CardinalityType
  <2>2. CASE ~(store'[a].attested_uploaded /\ ~store[a].attested_uploaded)
    <3>1. Attested(l)' = Attested(l) BY <1>3, <1>4, <2>2 DEF Attested
    <3> QED BY <1>7, <2>2, <3>1, FS_CardinalityType
  <2> QED BY <2>1, <2>2
<1>9. Cardinality(Included(l)') = Cardinality(Included(l))
        + (IF store'[a].reveal_included /\ ~store[a].reveal_included THEN 1 ELSE 0)
  <2>1. CASE store'[a].reveal_included /\ ~store[a].reveal_included
    <3>1. Included(l)' = Included(l) \cup {a} /\ a \notin Included(l)
      BY <1>3, <1>4, <2>1 DEF Included
    <3> QED BY <1>7, <2>1, <3>1, FS_AddElement, FS_CardinalityType
  <2>2. CASE ~(store'[a].reveal_included /\ ~store[a].reveal_included)
    <3>1. Included(l)' = Included(l) BY <1>3, <1>4, <2>2 DEF Included
    <3> QED BY <1>7, <2>2, <3>1, FS_CardinalityType
  <2> QED BY <2>1, <2>2
<1>10. Cardinality(Refunded(l)') = Cardinality(Refunded(l))
        + (IF store'[a].refund_claimed /\ ~store[a].refund_claimed THEN 1 ELSE 0)
  <2>1. CASE store'[a].refund_claimed /\ ~store[a].refund_claimed
    <3>1. Refunded(l)' = Refunded(l) \cup {a} /\ a \notin Refunded(l)
      BY <1>3, <1>4, <2>1 DEF Refunded
    <3> QED BY <1>7, <2>1, <3>1, FS_AddElement, FS_CardinalityType
  <2>2. CASE ~(store'[a].refund_claimed /\ ~store[a].refund_claimed)
    <3>1. Refunded(l)' = Refunded(l) BY <1>3, <1>4, <2>2 DEF Refunded
    <3> QED BY <1>7, <2>2, <3>1, FS_CardinalityType
  <2> QED BY <2>1, <2>2
<1>11. ASSUME store'[a].refund_claimed = store[a].refund_claimed
       PROVE  /\ Due(l)' = Due(l)
              /\ SumOver(TicketsAt', Due(l)') = SumOver(TicketsAt, Due(l))
  <2>1. Due(l)' = Due(l) BY <1>3, <1>4, <1>11 DEF Due
  <2>2. \A b \in Due(l) : TicketsAt'[b] = TicketsAt[b] BY <1>5 DEF Due
  <2>3. SumOver(TicketsAt', Due(l)) = SumOver(TicketsAt, Due(l))
    BY <1>7, <2>2, SumSame
  <2> QED BY <2>1, <2>3
<1>12. ASSUME store'[a].refund_claimed, ~store[a].refund_claimed
       PROVE  /\ SumOver(TicketsAt', Due(l)') \in Nat
              /\ SumOver(TicketsAt, Due(l))
                   = SumOver(TicketsAt', Due(l)') + store[a].tickets_bought
  <2>1. Due(l)' = Due(l) \ {a} /\ a \in Due(l) BY <1>3, <1>4, <1>12 DEF Due
  <2>2. \A b \in Due(l) : TicketsAt'[b] = TicketsAt[b] /\ TicketsAt[b] \in Nat
    BY <1>5 DEF Due
  <2>3. IsFiniteSet(Due(l) \ {a}) BY <1>7, FS_RemoveElement
  <2>4. SumOver(TicketsAt', Due(l) \ {a}) = SumOver(TicketsAt, Due(l) \ {a})
    BY <2>2, <2>3, SumSame
  <2>5. SumOver(TicketsAt, Due(l) \ {a}) \in Nat BY <2>2, <2>3, SumNat
  <2>6. SumOver(TicketsAt, Due(l)) = TicketsAt[a] + SumOver(TicketsAt, Due(l) \ {a})
    BY <1>7, <2>1, <2>2, SumRemove
  <2>7. TicketsAt[a] = store[a].tickets_bought /\ TicketsAt[a] \in Nat
    BY <1>5, InIs DEF TicketsAt
  <2>8. SumOver(TicketsAt', Due(l)') = SumOver(TicketsAt, Due(l) \ {a})
    BY <2>1, <2>4
  <2> QED BY <2>5, <2>6, <2>7, <2>8
<1>13. Due(l)' \subseteq Due(l)
  BY <1>3, <1>4 DEF Due
<1> QED BY <1>3, <1>6, <1>8, <1>9, <1>10, <1>11, <1>12, <1>13

(***************************************************************************)
(* One step.                                                               *)
(***************************************************************************)
(* A step that works for lottery l writes to its addresses only, and the   *)
(* wallets get what their accounts in l say.                               *)
Touches(l) ==
  /\ Base'
  /\ \A x \in Address \ Of(l) : store'[x] = store[x] /\ lamports'[x] = lamports[x]
  /\ store'[l] # NoData
  /\ \A w \in Wallet : purse'[w] = purse[w] + (Balance(l, w)' - Balance(l, w))

Steps == \E l \in Lotteries : Touches(l) /\ Sound(l)'

(* A balance is an integer, and 0 while nothing is stored.                 *)
LEMMA BalanceInt ==
  ASSUME NEW l \in Lotteries, NEW w \in Wallet, Sound(l)
  PROVE  Balance(l, w) \in Int /\ (store[l] = NoData => Balance(l, w) = 0)
<1> DEFINE a == derive_participant_pda(l, w)
           page == derive_winner_page_pda(l, 0)
<1>1. a \in Members(l) BY MemberSeeds
<1>2. store[a] \in ParticipantRecord(a) \cup {NoData}
      /\ store[page] \in PageRecord(l) \cup {NoData}
      /\ store[l] \in LotteryRecord(l) \cup {NoData}
  BY <1>1 DEF Sound, Shaped
<1>3. store[l] = NoData => store[a] = NoData /\ store[page] = NoData
  BY <1>1 DEF Sound, Staged
<1>4. (IF store[a].type = "None" \/ store[a].refund_claimed
       THEN 0 ELSE -store[a].tickets_bought) \in Int
  BY <1>2 DEF ParticipantRecord, NoData
<1>5. (IF store[page] # NoData /\ store[page].paid /\ w \in store[page].entries
       THEN store[l].total_tickets ELSE 0) \in Int
  <2> DEFINE shared == store[page] # NoData /\ store[page].paid /\ w \in store[page].entries
  <2>1. ASSUME store[l] # NoData PROVE store[l].total_tickets \in Int
    <3>1. store[l] \in LotteryRecord(l) BY <1>2, <2>1
    <3> QED BY <3>1, LotteryFields
  <2>2. shared => store[l] # NoData BY <1>3
  <2> HIDE DEF shared
  <2>3. (IF shared THEN store[l].total_tickets ELSE 0) \in Int BY <2>1, <2>2
  <2> QED BY <2>3 DEF shared
<1>6. store[l] = NoData => Balance(l, w) = 0
  BY <1>3 DEF Balance, NoData
<1> HIDE DEF a, page
<1>7. Balance(l, w) \in Int BY <1>4, <1>5 DEF Balance, a, page
<1> QED BY <1>6, <1>7

(* The same for the balance after a step.                                  *)
LEMMA BalanceIntNext ==
  ASSUME NEW l \in Lotteries, NEW w \in Wallet, Sound(l)', store'[l] # NoData
  PROVE  Balance(l, w)' \in Int
<1> DEFINE a == derive_participant_pda(l, w)
           page == derive_winner_page_pda(l, 0)
<1>1. a \in Members(l) BY MemberSeeds
<1>2. store'[a] \in ParticipantRecord(a) \cup {NoData}
      /\ store'[l] \in LotteryRecord(l)
  BY <1>1 DEF Sound, Shaped
<1>4. (IF store'[a].type = "None" \/ store'[a].refund_claimed
       THEN 0 ELSE -store'[a].tickets_bought) \in Int
  BY <1>2 DEF ParticipantRecord, NoData
<1>5. (IF store'[page] # NoData /\ store'[page].paid /\ w \in store'[page].entries
       THEN store'[l].total_tickets ELSE 0) \in Int
  <2> DEFINE shared == store'[page] # NoData /\ store'[page].paid /\ w \in store'[page].entries
  <2>1. store'[l].total_tickets \in Int BY <1>2, LotteryFields
  <2> HIDE DEF shared
  <2>2. (IF shared THEN store'[l].total_tickets ELSE 0) \in Int BY <2>1
  <2> QED BY <2>2 DEF shared
<1> HIDE DEF a, page
<1> QED BY <1>4, <1>5 DEF Balance, a, page

(* The other lotteries stay sound, and their balances what they were.      *)
LEMMA Elsewhere ==
  ASSUME IInv, NEW l \in Lotteries, Touches(l), NEW k \in Lotteries, k # l
  PROVE  /\ Sound(k)' /\ store'[k] = store[k]
         /\ \A w \in Wallet : Balance(k, w)' = Balance(k, w)
<1>1. \A x \in Of(k) : store'[x] = store[x] /\ lamports'[x] = lamports[x]
  <2>1. \A x \in Of(k) : x \in Address \ Of(l) BY Seeds, Apart
  <2> QED BY <2>1 DEF Touches
<1>2. /\ store'[k] = store[k]
      /\ store'[derive_vault_pda(k)] = store[derive_vault_pda(k)]
      /\ store'[derive_vote_tally_pda(k)] = store[derive_vote_tally_pda(k)]
      /\ store'[derive_finalization_ledger_pda(k)] = store[derive_finalization_ledger_pda(k)]
      /\ store'[derive_winner_page_pda(k, 0)] = store[derive_winner_page_pda(k, 0)]
      /\ \A a \in Members(k) : store'[a] = store[a]
      /\ lamports'[derive_vault_pda(k)] = lamports[derive_vault_pda(k)]
  BY <1>1 DEF Of
<1>3. Sound(k) BY DEF IInv
<1>4. Shaped(k)' BY <1>2, <1>3 DEF Sound, Shaped
<1>5. Staged(k)' BY <1>2, <1>3 DEF Sound, Staged
<1>6. ASSUME store[k] # NoData PROVE Counted(k)' /\ Backed(k)'
  <2>1. Counted(k) /\ Backed(k) BY <1>3, <1>6 DEF Sound
  <2>2. /\ In(k)' = In(k) /\ Due(k)' = Due(k)
        /\ Attested(k)' = Attested(k) /\ Included(k)' = Included(k)
        /\ Refunded(k)' = Refunded(k)
        /\ SumOver(TicketsAt', In(k)') = SumOver(TicketsAt, In(k))
        /\ SumOver(TicketsAt', Due(k)') = SumOver(TicketsAt, Due(k))
    BY <1>2, <2>1, MembersKept DEF Counted
  <2>3. Counted(k)' BY <1>2, <2>1, <2>2 DEF Counted
  <2>4. Backed(k)' BY <1>2, <2>1, <2>2 DEF Backed
  <2> QED BY <2>3, <2>4
<1>7. \A w \in Wallet : Balance(k, w)' = Balance(k, w)
  BY <1>2, MemberSeeds DEF Balance
<1> QED BY <1>2, <1>4, <1>5, <1>6, <1>7 DEF Sound

(* A step for a lottery that is sound afterwards keeps the invariant.      *)
LEMMA StepKeeps == IInv /\ Steps => IInv'
<1> SUFFICES ASSUME IInv, NEW l \in Lotteries, Touches(l), Sound(l)' PROVE IInv'
  BY DEF Steps
<1>1. Base' BY DEF Touches
<1>2. \A k \in Lotteries : Sound(k)' BY Elsewhere
<1>3. \A k \in Lotteries : store[k] \in LotteryRecord(k) \cup {NoData}
  BY DEF IInv, Sound, Shaped
<1>4. store'[l] \in LotteryRecord(l)
  BY DEF Touches, Sound, Shaped
<1>5. Opened' = Opened \cup {l} /\ (l \notin Opened => store[l] = NoData)
  <2>1. store'[l].type # "None" BY <1>4 DEF LotteryRecord
  <2>2. l \notin Opened => store[l] = NoData BY <1>3 DEF Opened, LotteryRecord
  <2>3. \A k \in Lotteries \ {l} : store'[k] = store[k] BY Elsewhere
  <2> QED BY <2>1, <2>2, <2>3 DEF Opened
<1>6. IsFiniteSet(Opened) /\ IsFiniteSet(Opened') /\ Opened \subseteq Lotteries
  <2>1. IsFiniteSet(Opened) BY DEF IInv
  <2> QED BY <1>5, <2>1, FS_AddElement DEF Opened
<1>7. Settled'
  <2> SUFFICES ASSUME NEW w \in Wallet
               PROVE  purse'[w] = SumOver(Balances(w)', Opened')
    BY DEF Settled
  <2> DEFINE f == Balances(w)
             g == Balances(w)'
  <2>1. \A k \in Lotteries : f[k] \in Int
    BY BalanceInt DEF Balances, IInv
  <2>2. \A k \in Lotteries \ {l} : g[k] = f[k]
    BY Elsewhere DEF Balances
  <2>3. g[l] \in Int BY BalanceIntNext DEF Balances, Touches
  <2>4. purse[w] = SumOver(f, Opened) BY DEF IInv, Settled
  <2>5. purse'[w] = purse[w] + (g[l] - f[l])
    BY DEF Touches, Balances
  <2> HIDE DEF f, g
  <2>6. SumOver(f, Opened) \in Int BY <1>6, <2>1, SumInt
  <2>7. CASE l \in Opened
    <3>1. Opened' = Opened BY <1>5, <2>7
    <3>2. SumOver(g, Opened) + f[l] = SumOver(f, Opened) + g[l]
      BY <1>6, <2>1, <2>2, <2>3, <2>7, SumChange
    <3>3. SumOver(g, Opened) \in Int
      <4>1. \A k \in Opened : g[k] \in Int BY <1>6, <2>1, <2>2, <2>3
      <4> QED BY <1>6, <4>1, SumInt
    <3>4. f[l] \in Int /\ purse'[w] = SumOver(f, Opened) + (g[l] - f[l])
      BY <2>1, <2>4, <2>5
    <3>5. purse'[w] = SumOver(g, Opened)
      BY <2>3, <2>6, <3>2, <3>3, <3>4
    <3> QED BY <3>1, <3>5 DEF g
  <2>8. CASE l \notin Opened
    <3>1. f[l] = 0
      BY <1>5, <2>8, BalanceInt DEF f, Balances, IInv
    <3>2. SumOver(g, Opened) = SumOver(f, Opened)
      BY <1>6, <2>2, <2>8, SumSame
    <3>3. SumOver(g, Opened \cup {l}) = SumOver(g, Opened) + g[l]
      <4>1. \A k \in Opened : g[k] \in Int BY <1>6, <2>1, <2>2, <2>3
      <4> QED BY <1>6, <2>3, <2>8, <4>1, SumJoin
    <3>4. purse'[w] = SumOver(g, Opened \cup {l})
      BY <2>3, <2>4, <2>5, <2>6, <3>1, <3>2, <3>3
    <3> QED BY <1>5, <3>4 DEF g
  <2> QED BY <2>7, <2>8
<1> QED BY <1>1, <1>2, <1>6, <1>7 DEF IInv

(***************************************************************************)
(* The calls, one by one.                                                  *)
(***************************************************************************)
(* The addresses of one lottery are different.                             *)
LEMMA Distinct ==
  ASSUME NEW l \in Lotteries
  PROVE  LET v == derive_vault_pda(l)
             t == derive_vote_tally_pda(l)
             f == derive_finalization_ledger_pda(l)
             p == derive_winner_page_pda(l, 0)
         IN  /\ l # v /\ l # t /\ l # f /\ l # p
             /\ v # t /\ v # f /\ v # p /\ t # f /\ t # p /\ f # p
             /\ l \notin Members(l) /\ v \notin Members(l) /\ t \notin Members(l)
             /\ f \notin Members(l) /\ p \notin Members(l)
             /\ derive_config_pda # l
             /\ {l, v, t, f, p} \subseteq Of(l) /\ Members(l) \subseteq Of(l)
             /\ Of(l) \subseteq Address
             /\ derive_config_pda \in Address \ Of(l)
<1>1. Of(l) \subseteq Address /\ derive_config_pda \in Address \ Of(l)
  BY Seeds, Apart
<1>2. {l, derive_vault_pda(l), derive_vote_tally_pda(l),
       derive_finalization_ledger_pda(l), derive_winner_page_pda(l, 0)} \subseteq Of(l)
      /\ Members(l) \subseteq Of(l)
  BY DEF Of
<1>3. \A a \in Members(l) : a[1] = "participant" BY MemberIs
<1> QED BY <1>1, <1>2, <1>3, Seeds

(* What the invariant says of an open lottery.                             *)
LEMMA OpenIs ==
  ASSUME IInv, NEW l \in Lotteries, store[l] \in LotteryRecord(l)
  PROVE  Shaped(l) /\ Staged(l) /\ Counted(l) /\ Backed(l) /\ store[l] # NoData
BY LotteryFields DEF IInv, Sound

(* A step that moves a lottery from one stage before the end to another    *)
(* and touches nothing else.                                               *)
LEMMA StageMoves ==
  ASSUME IInv, NEW l \in Lotteries, store[l] \in LotteryRecord(l),
         store[l].stage \in {"selling", "attesting"},
         NEW stage \in {"attesting", "refunds"},
         store' = [store EXCEPT ![l] = [store[l] EXCEPT !.stage = stage]],
         UNCHANGED <<lamports, purse>>
  PROVE  Steps
<1>1. Shaped(l) /\ Staged(l) /\ Counted(l) /\ Backed(l) /\ store[l] # NoData
  BY OpenIs
<1>2. DOMAIN store = Address BY DEF IInv, Base
<1>3. store'[l] = [store[l] EXCEPT !.stage = stage]
      /\ \A x \in Address \ {l} : store'[x] = store[x]
  BY <1>2, Distinct
<1>4. store'[l] \in LotteryRecord(l) /\ store'[l].stage = stage
  BY <1>3, StageSet DEF CountsAre
<1>5. /\ store'[l].participants_count = store[l].participants_count
      /\ store'[l].total_tickets = store[l].total_tickets
      /\ store'[l].attested_count = store[l].attested_count
      /\ store'[l].provider_uploaded_count = store[l].provider_uploaded_count
      /\ store'[l].settlement_batches_completed = store[l].settlement_batches_completed
  BY <1>3, StageSet DEF CountsAre
<1>6. /\ store'[derive_vault_pda(l)] = store[derive_vault_pda(l)]
      /\ store'[derive_vote_tally_pda(l)] = store[derive_vote_tally_pda(l)]
      /\ store'[derive_finalization_ledger_pda(l)] = store[derive_finalization_ledger_pda(l)]
      /\ store'[derive_winner_page_pda(l, 0)] = store[derive_winner_page_pda(l, 0)]
      /\ \A a \in Members(l) : store'[a] = store[a]
  BY <1>3, Distinct
<1>7. store[derive_winner_page_pda(l, 0)] = NoData
  BY <1>1 DEF Staged
<1>8. store'[l] # NoData BY <1>4, LotteryFields
<1>9. Shaped(l)' BY <1>1, <1>4, <1>6 DEF Shaped
<1>10. Staged(l)' BY <1>1, <1>6, <1>7, <1>8 DEF Staged
<1>11. /\ In(l)' = In(l) /\ Due(l)' = Due(l)
       /\ Attested(l)' = Attested(l) /\ Included(l)' = Included(l)
       /\ Refunded(l)' = Refunded(l)
       /\ SumOver(TicketsAt', In(l)') = SumOver(TicketsAt, In(l))
       /\ SumOver(TicketsAt', Due(l)') = SumOver(TicketsAt, Due(l))
  BY <1>1, <1>6, MembersKept DEF Counted
<1>12. Counted(l)' BY <1>1, <1>5, <1>11 DEF Counted
<1>13. Backed(l)' BY <1>1, <1>4, <1>11 DEF Backed
<1>14. Base'
  BY <1>2, <1>3, Distinct DEF IInv, Base
<1>15. \A w \in Wallet : /\ Balance(l, w)' = Balance(l, w) /\ Balance(l, w) \in Int
                         /\ purse[w] \in Int
  <2>1. \A w \in Wallet : Balance(l, w)' = Balance(l, w)
    BY <1>6, <1>7, MemberSeeds DEF Balance
  <2> QED BY <2>1, BalanceInt DEF IInv, Base, Signer
<1>16. Touches(l)
  BY <1>3, <1>8, <1>14, <1>15, Distinct DEF Touches
<1> QED BY <1>9, <1>10, <1>12, <1>13, <1>16 DEF Steps, Sound

(* The lottery is found by the config in its own data; it is that lottery. *)
LEMMA BeginRevealSteps == ASSUME IInv, BeginReveal PROVE Steps
<1>1. PICK l \in Address : \E lottery \in read_account_data(l, "Lottery") :
        /\ l = derive_lottery_pda(lottery.config, lottery.id)
        /\ lottery.stage = "selling"
        /\ store' = [store EXCEPT ![l] = [lottery EXCEPT !.stage = "attesting"]]
        /\ UNCHANGED <<lamports, purse>>
  BY DEF BeginReveal
<1>2. PICK d \in read_account_data(l, "Lottery") :
        /\ l = derive_lottery_pda(d.config, d.id)
        /\ d.stage = "selling"
        /\ store' = [store EXCEPT ![l] = [d EXCEPT !.stage = "attesting"]]
        /\ UNCHANGED <<lamports, purse>>
  BY <1>1
<1>3. Owned(l) BY <1>2 DEF read_account_data
<1>4. l \in Lotteries
  <2>1. l[1] = "lottery" BY <1>2 DEF derive_lottery_pda
  <2> QED BY <2>1, WhatAddress
<1>5. store[l] \in LotteryRecord(l)
  BY <1>3, <1>4 DEF IInv, Sound, Shaped, Owned, NoData
<1>6. d = store[l]
  <2>1. store[l].type = "Lottery" BY <1>4, <1>5, LotteryFields
  <2> QED BY <1>2, <1>3, <2>1 DEF read_account_data
<1> QED BY <1>2, <1>4, <1>5, <1>6, StageMoves

(* The clock ends the sale of one lottery.                                 *)
LEMMA BuyWindowEndsSteps == ASSUME IInv, BuyWindowEnds PROVE Steps
<1>1. PICK l \in Lotteries :
        /\ Owned(l) /\ store[l].stage = "selling"
        /\ store' = [store EXCEPT ![l].stage = "attesting"]
        /\ UNCHANGED <<lamports, purse>>
  BY DEF BuyWindowEnds
<1>2. store[l] \in LotteryRecord(l)
  BY <1>1 DEF IInv, Sound, Shaped, Owned, NoData
<1> QED BY <1>1, <1>2, StageMoves

(* The refund stage opens for one lottery.                                 *)
LEMMA FinalizeNoAttestersSteps == ASSUME IInv, FinalizeNoAttesters PROVE Steps
<1>1. PICK g \in GivenAt("attesting") :
        /\ store' = [store EXCEPT ![g.lottery_ai] = [g.lottery EXCEPT !.stage = "refunds"]]
        /\ UNCHANGED <<lamports, purse>>
  BY DEF FinalizeNoAttesters
<1>2. /\ g.lottery_ai \in Lotteries /\ g.lottery = store[g.lottery_ai]
      /\ store[g.lottery_ai] \in LotteryRecord(g.lottery_ai)
      /\ store[g.lottery_ai].stage = "attesting"
  BY GivenAtIs
<1> QED BY <1>1, <1>2, StageMoves

(* A new lottery has nothing but its vault.                                *)
LEMMA CreateLotterySteps == ASSUME IInv, CreateLottery PROVE Steps
<1>1. PICK id \in Id :
        LET l == derive_lottery_pda(derive_config_pda, id)
            v == derive_vault_pda(l)
        IN  /\ ~Owned(l)
            /\ store' = [store EXCEPT ![l] = NewLottery(derive_config_pda, id, v),
                                      ![v] = NewVault]
            /\ lamports' = [lamports EXCEPT ![v] = Rent]
            /\ UNCHANGED purse
  BY DEF CreateLottery
<1> DEFINE l == derive_lottery_pda(derive_config_pda, id)
           v == derive_vault_pda(l)
<1>2. l \in Lotteries /\ l[3] = id
  BY DEF Lotteries, derive_lottery_pda
<1> HIDE DEF l
<1>3. store[l] = NoData
  <2>1. store[l] \notin LotteryRecord(l)
    BY <1>1, <1>2, LotteryFields DEF l, Owned
  <2> QED BY <1>2, <2>1 DEF IInv, Sound, Shaped
<1>4. Shaped(l) /\ Staged(l) BY <1>2 DEF IInv, Sound
<1>5. DOMAIN store = Address /\ lamports \in [Address -> Nat] BY DEF IInv, Base
<1>6. /\ store'[l] = NewLottery(derive_config_pda, id, v)
      /\ store'[v] = NewVault
      /\ \A x \in Address \ {l, v} : store'[x] = store[x]
      /\ lamports'[v] = Rent
      /\ \A x \in Address \ {v} : lamports'[x] = lamports[x]
      /\ DOMAIN store' = Address /\ lamports' \in [Address -> Nat]
      /\ purse' = purse
  <2>1. Rent \in Nat BY AccountsAssumption
  <2>2. /\ store' = [store EXCEPT ![l] = NewLottery(derive_config_pda, id, v),
                                  ![v] = NewVault]
        /\ lamports' = [lamports EXCEPT ![v] = Rent]
        /\ purse' = purse
    BY <1>1 DEF l
  <2>3. l \in Address /\ v \in Address /\ l # v BY <1>2, Distinct
  <2> HIDE DEF v
  <2> QED BY <1>5, <2>1, <2>2, <2>3
<1>7. store'[l] \in LotteryRecord(l)
  BY <1>2, <1>6 DEF LotteryRecord, NewLottery
<1>8. /\ store'[l].stage = "selling"
      /\ store'[l].participants_count = 0 /\ store'[l].total_tickets = 0
      /\ store'[l].attested_count = 0 /\ store'[l].provider_uploaded_count = 0
      /\ store'[l].settlement_batches_completed = 0
  BY <1>6 DEF NewLottery
<1>9. store'[l] # NoData BY <1>2, <1>7, LotteryFields
<1>10. /\ store'[derive_vote_tally_pda(l)] = NoData
       /\ store'[derive_finalization_ledger_pda(l)] = NoData
       /\ store'[derive_winner_page_pda(l, 0)] = NoData
       /\ \A a \in Members(l) : store'[a] = NoData /\ store[a] = NoData
       /\ store[derive_winner_page_pda(l, 0)] = NoData
  BY <1>2, <1>3, <1>4, <1>6, Distinct DEF Staged
<1>11. Shaped(l)' BY <1>6, <1>7, <1>10 DEF Shaped
<1>12. Staged(l)' BY <1>9, <1>10 DEF Staged
<1>13. In(l)' = {}
  <2>1. \A a \in Members(l) : store'[a].type = "None" BY <1>10 DEF NoData
  <2> QED BY <1>2, <2>1, InIs
<1>14. Attested(l)' = {} /\ Included(l)' = {} /\ Refunded(l)' = {} /\ Due(l)' = {}
  BY <1>13 DEF Attested, Included, Refunded, Due
<1>15. Counted(l)'
  BY <1>8, <1>13, <1>14, FS_EmptySet, SumEmpty DEF Counted
<1>16. Backed(l)'
  <2>1. Rent + SumOver(TicketsAt', Due(l)') = Rent
    BY <1>14, SumEmpty, AccountsAssumption
  <2> QED BY <1>6, <1>8, <2>1 DEF Backed
<1>17. Base'
  BY <1>2, <1>6, Distinct DEF IInv, Base
<1>18. \A w \in Wallet : /\ Balance(l, w)' = 0 /\ Balance(l, w) = 0 /\ purse[w] \in Int
  <2>1. \A w \in Wallet : Balance(l, w)' = 0 /\ Balance(l, w) = 0
    BY <1>2, <1>10, MemberSeeds DEF Balance, NoData
  <2> QED BY <2>1 DEF IInv, Base, Signer
<1>19. Touches(l)
  BY <1>2, <1>6, <1>9, <1>17, <1>18, Distinct DEF Touches
<1> QED BY <1>2, <1>11, <1>12, <1>15, <1>16, <1>19 DEF Steps, Sound

(* A step that raises flags of one participant while attestations are      *)
(* taken, with the counters it raises.                                     *)
LEMMA MarkSteps ==
  ASSUME IInv, NEW l \in Lotteries, store[l] \in LotteryRecord(l),
         store[l].stage = "attesting",
         NEW a \in Members(l), store[a] \in ParticipantRecord(a),
         DOMAIN store' = Address,
         \A x \in Address \ {a, l, derive_vote_tally_pda(l)} : store'[x] = store[x],
         store'[derive_vote_tally_pda(l)] \in TallyRecord(l) \cup {NoData},
         NEW attested \in BOOLEAN, NEW included \in BOOLEAN,
         FlagsAre(store'[a], a, store[a].tickets_bought, attested, included,
                  store[a].refund_claimed, store[a].closed),
         store[a].attested_uploaded => attested,
         store[a].reveal_included => included,
         CountsAre(store'[l], l, store[l].stage,
                   store[l].participants_count, store[l].total_tickets,
                   store[l].attested_count
                     + (IF attested /\ ~store[a].attested_uploaded THEN 1 ELSE 0),
                   store[l].provider_uploaded_count
                     + (IF included /\ ~store[a].reveal_included THEN 1 ELSE 0),
                   store[l].settlement_batches_completed),
         UNCHANGED <<lamports, purse>>
  PROVE  Steps
<1>0. /\ store'[a] \in ParticipantRecord(a)
      /\ store'[a].tickets_bought = store[a].tickets_bought
      /\ store'[a].attested_uploaded <=> attested
      /\ store'[a].reveal_included <=> included
      /\ store'[a].refund_claimed = store[a].refund_claimed
      /\ store'[a].closed = store[a].closed
      /\ store'[l] \in LotteryRecord(l)
      /\ store'[l].stage = store[l].stage
  <2>1. store'[a] \in ParticipantRecord(a) /\ store'[l] \in LotteryRecord(l)
    BY DEF FlagsAre, CountsAre
  <2> QED BY <2>1, ParticipantFields DEF FlagsAre, CountsAre
<1>1. Shaped(l) /\ Staged(l) /\ Counted(l) /\ Backed(l) /\ store[l] # NoData
  BY OpenIs
<1>2. store'[l] # NoData BY <1>0, LotteryFields
<1>3. /\ store'[derive_vault_pda(l)] = store[derive_vault_pda(l)]
      /\ store'[derive_finalization_ledger_pda(l)] = store[derive_finalization_ledger_pda(l)]
      /\ store'[derive_winner_page_pda(l, 0)] = store[derive_winner_page_pda(l, 0)]
      /\ \A b \in Members(l) \ {a} : store'[b] = store[b]
  BY Distinct
<1>4. store[derive_winner_page_pda(l, 0)] = NoData
  BY <1>1 DEF Staged
<1>5. store[a] # NoData /\ store'[a] # NoData BY <1>0, ParticipantFields
<1>6. a \in In(l)
  <2>1. store[a].type # "None" BY ParticipantFields
  <2> QED BY <2>1, InIs
<1>7. Shaped(l)' BY <1>0, <1>1, <1>3 DEF Shaped
<1>8. Staged(l)'
  <2>1. \A b \in Members(l) : store'[b] # NoData => 
          /\ store'[b].closed => store'[l].stage \in {"refunds", "paid"}
          /\ store'[b].refund_claimed => store'[l].stage = "refunds"
    BY <1>0, <1>1, <1>3, <1>5 DEF Staged
  <2> QED BY <1>0, <1>2, <1>3, <1>4, <2>1 DEF Staged
<1>9. /\ In(l)' = In(l) /\ Due(l)' = Due(l)
      /\ SumOver(TicketsAt', In(l)') = SumOver(TicketsAt, In(l))
      /\ SumOver(TicketsAt', Due(l)') = SumOver(TicketsAt, Due(l))
      /\ Cardinality(Attested(l)') = Cardinality(Attested(l))
           + (IF attested /\ ~store[a].attested_uploaded THEN 1 ELSE 0)
      /\ Cardinality(Included(l)') = Cardinality(Included(l))
           + (IF included /\ ~store[a].reveal_included THEN 1 ELSE 0)
      /\ Cardinality(Refunded(l)') = Cardinality(Refunded(l))
           + (IF store'[a].refund_claimed /\ ~store[a].refund_claimed THEN 1 ELSE 0)
  BY <1>0, <1>1, <1>3, <1>6, FlagsMove DEF Counted
<1>10. Cardinality(Refunded(l)') = Cardinality(Refunded(l))
  <2>1. IsFiniteSet(Refunded(l)) BY <1>1, FS_Subset DEF Counted, Refunded
  <2> QED BY <1>0, <1>9, <2>1, FS_CardinalityType
<1>11. Counted(l)' BY <1>1, <1>9, <1>10 DEF Counted, CountsAre
<1>12. Backed(l)' BY <1>0, <1>1, <1>9 DEF Backed
<1>13. Base'
  <2>1. store'[derive_config_pda] = store[derive_config_pda] BY Distinct
  <2> QED BY <2>1 DEF IInv, Base
<1>14. \A w \in Wallet : /\ Balance(l, w)' = Balance(l, w) /\ Balance(l, w) \in Int
                         /\ purse[w] \in Int
  <2>1. ASSUME NEW w \in Wallet PROVE Balance(l, w)' = Balance(l, w)
    <3> DEFINE b == derive_participant_pda(l, w)
    <3>1. b \in Members(l) BY MemberSeeds
    <3>2. CASE b = a
      <4>1. store'[b].type # "None" /\ store[b].type # "None" BY <1>0, <3>2, ParticipantFields
      <4>2. store'[b].tickets_bought = store[b].tickets_bought
            /\ store'[b].refund_claimed = store[b].refund_claimed
        BY <1>0, <3>2
      <4> HIDE DEF b
      <4> QED BY <1>3, <1>4, <4>1, <4>2 DEF Balance, b
    <3>3. CASE b # a
      <4>1. store'[b] = store[b] BY <1>3, <3>1, <3>3
      <4> QED BY <1>3, <1>4, <4>1 DEF Balance
    <3> QED BY <3>2, <3>3
  <2> QED BY <2>1, BalanceInt DEF IInv, Base, Signer
<1>15. Touches(l)
  BY <1>2, <1>13, <1>14, Distinct DEF Touches
<1> QED BY <1>7, <1>8, <1>11, <1>12, <1>15 DEF Steps, Sound

(* An attestation raises one flag of the signer's account.                 *)
LEMMA AttestUploadedSteps == ASSUME IInv, AttestUploaded PROVE Steps
<1>0. PICK g \in GivenAt("attesting"), wallet \in Wallet :
        \E given \in AccountOf(g, wallet) :
          /\ ~given.participant.attested_uploaded
          /\ store' = [store EXCEPT
               ![given.participant_ai] = [given.participant EXCEPT !.attested_uploaded = TRUE],
               ![g.lottery_ai]         = [g.lottery EXCEPT !.attested_count = @ + 1]]
          /\ UNCHANGED <<lamports, purse>>
  BY DEF AttestUploaded
<1>1. PICK given \in AccountOf(g, wallet) :
        /\ ~given.participant.attested_uploaded
        /\ store' = [store EXCEPT
             ![given.participant_ai] = [given.participant EXCEPT !.attested_uploaded = TRUE],
             ![g.lottery_ai]         = [g.lottery EXCEPT !.attested_count = @ + 1]]
        /\ UNCHANGED <<lamports, purse>>
  BY <1>0
<1> DEFINE l == g.lottery_ai
           a == given.participant_ai
<1>2. /\ l \in Lotteries /\ g.lottery = store[l]
      /\ store[l] \in LotteryRecord(l) /\ store[l].stage = "attesting"
  BY GivenAtIs
<1>3. /\ a \in Members(l) /\ given.participant = store[a]
      /\ store[a] \in ParticipantRecord(a)
  BY <1>2, AccountIs
<1> HIDE DEF l, a
<1>4. DOMAIN store = Address BY DEF IInv, Base
<1>5. /\ store' = [store EXCEPT ![a] = [store[a] EXCEPT !.attested_uploaded = TRUE],
                                ![l] = [store[l] EXCEPT !.attested_count = @ + 1]]
      /\ ~store[a].attested_uploaded /\ UNCHANGED <<lamports, purse>>
  BY <1>1, <1>2, <1>3 DEF l, a
<1>6. a \in Address /\ l \in Address /\ a # l BY <1>2, <1>3, Distinct
<1>7. /\ DOMAIN store' = Address
      /\ \A x \in Address \ {a, l} : store'[x] = store[x]
      /\ store'[a] = [store[a] EXCEPT !.attested_uploaded = TRUE]
      /\ store'[l] = [store[l] EXCEPT !.attested_count = @ + 1]
  BY <1>4, <1>5, <1>6
<1>8. FlagsAre(store'[a], a, store[a].tickets_bought, TRUE, store[a].reveal_included,
               store[a].refund_claimed, store[a].closed)
  BY <1>3, <1>7, AttestFlags
<1>9. CountsAre(store'[l], l, store[l].stage,
                store[l].participants_count, store[l].total_tickets,
                store[l].attested_count + 1, store[l].provider_uploaded_count,
                store[l].settlement_batches_completed)
  BY <1>2, <1>7, AttestCounts
<1>10. store'[derive_vote_tally_pda(l)] \in TallyRecord(l) \cup {NoData}
  BY <1>2, <1>3, <1>7, Distinct DEF IInv, Sound, Shaped
<1>11. store[a].reveal_included \in BOOLEAN /\ store[l].provider_uploaded_count + 0
         = store[l].provider_uploaded_count
  BY <1>2, <1>3, LotteryFields, ParticipantFields
<1> DEFINE included == store[a].reveal_included
<1>12. CountsAre(store'[l], l, store[l].stage,
                 store[l].participants_count, store[l].total_tickets,
                 store[l].attested_count
                   + (IF TRUE /\ ~store[a].attested_uploaded THEN 1 ELSE 0),
                 store[l].provider_uploaded_count
                   + (IF included /\ ~store[a].reveal_included THEN 1 ELSE 0),
                 store[l].settlement_batches_completed)
  BY <1>5, <1>9, <1>11
<1> QED BY <1>2, <1>3, <1>5, <1>7, <1>8, <1>10, <1>11, <1>12, MarkSteps

(* An attestation with its reveal raises two flags of the signer's account.*)
LEMMA AttestRevealSteps == ASSUME IInv, AttestReveal PROVE Steps
<1>0. PICK g \in GivenAt("attesting"), wallet \in Wallet :
        \E given \in AccountOf(g, wallet) :
          \E tally \in Loaded(derive_vote_tally_pda(g.lottery_ai), NewTally(g.lottery_ai)) :
            /\ ~given.participant.attested_uploaded /\ ~given.participant.reveal_included
            /\ store' = [store EXCEPT
                 ![given.participant_ai] =
                     [given.participant EXCEPT !.attested_uploaded = TRUE,
                                               !.reveal_included   = TRUE],
                 ![g.lottery_ai] = [g.lottery EXCEPT !.attested_count          = @ + 1,
                                                     !.provider_uploaded_count = @ + 1],
                 ![derive_vote_tally_pda(g.lottery_ai)] =
                     [tally EXCEPT !.processed_count = @ + 1]]
            /\ UNCHANGED <<lamports, purse>>
  BY DEF AttestReveal
<1> DEFINE l == g.lottery_ai
           t == derive_vote_tally_pda(l)
<1>1. PICK given \in AccountOf(g, wallet), tally \in Loaded(t, NewTally(l)) :
        /\ ~given.participant.attested_uploaded /\ ~given.participant.reveal_included
        /\ store' = [store EXCEPT
             ![given.participant_ai] =
                 [given.participant EXCEPT !.attested_uploaded = TRUE,
                                           !.reveal_included   = TRUE],
             ![l] = [g.lottery EXCEPT !.attested_count          = @ + 1,
                                      !.provider_uploaded_count = @ + 1],
             ![t] = [tally EXCEPT !.processed_count = @ + 1]]
        /\ UNCHANGED <<lamports, purse>>
  BY <1>0
<1> DEFINE a == given.participant_ai
<1>2. /\ l \in Lotteries /\ g.lottery = store[l]
      /\ store[l] \in LotteryRecord(l) /\ store[l].stage = "attesting"
  BY GivenAtIs
<1>3. /\ a \in Members(l) /\ given.participant = store[a]
      /\ store[a] \in ParticipantRecord(a)
  BY <1>2, AccountIs
<1>4. tally \in TallyRecord(l) BY <1>2, TallyIs
<1> HIDE DEF l, a
<1>5. DOMAIN store = Address BY DEF IInv, Base
<1>6. /\ store' = [store EXCEPT
           ![a] = [store[a] EXCEPT !.attested_uploaded = TRUE, !.reveal_included = TRUE],
           ![l] = [store[l] EXCEPT !.attested_count = @ + 1, !.provider_uploaded_count = @ + 1],
           ![t] = [tally EXCEPT !.processed_count = @ + 1]]
      /\ ~store[a].attested_uploaded /\ ~store[a].reveal_included
      /\ UNCHANGED <<lamports, purse>>
  BY <1>1, <1>2, <1>3 DEF l, a
<1>7. /\ a \in Address /\ l \in Address /\ t \in Address
      /\ a # l /\ a # t /\ l # t
  BY <1>2, <1>3, Distinct
<1> HIDE DEF t
<1>8. /\ DOMAIN store' = Address
      /\ \A x \in Address \ {a, l, t} : store'[x] = store[x]
      /\ store'[a] = [store[a] EXCEPT !.attested_uploaded = TRUE, !.reveal_included = TRUE]
      /\ store'[l] = [store[l] EXCEPT !.attested_count = @ + 1,
                                      !.provider_uploaded_count = @ + 1]
      /\ store'[t] = [tally EXCEPT !.processed_count = @ + 1]
  BY <1>5, <1>6, <1>7
<1>9. FlagsAre(store'[a], a, store[a].tickets_bought, TRUE, TRUE,
               store[a].refund_claimed, store[a].closed)
  BY <1>3, <1>8, RevealFlags
<1>10. CountsAre(store'[l], l, store[l].stage,
                 store[l].participants_count, store[l].total_tickets,
                 store[l].attested_count + 1, store[l].provider_uploaded_count + 1,
                 store[l].settlement_batches_completed)
  BY <1>2, <1>8, RevealCounts
<1>11. store'[t] \in TallyRecord(l) BY <1>4, <1>8, TallySet
<1>12. CountsAre(store'[l], l, store[l].stage,
                 store[l].participants_count, store[l].total_tickets,
                 store[l].attested_count
                   + (IF TRUE /\ ~store[a].attested_uploaded THEN 1 ELSE 0),
                 store[l].provider_uploaded_count
                   + (IF TRUE /\ ~store[a].reveal_included THEN 1 ELSE 0),
                 store[l].settlement_batches_completed)
  BY <1>6, <1>10
<1> QED BY <1>2, <1>3, <1>6, <1>8, <1>9, <1>11, <1>12, MarkSteps DEF t

(* An upload raises one flag of an account that need not sign.             *)
LEMMA UploadRevealsSteps == ASSUME IInv, UploadReveals PROVE Steps
<1>0. PICK g \in GivenAt("attesting") : \E given \in AccountIn(g) :
        \E tally \in Loaded(derive_vote_tally_pda(g.lottery_ai), NewTally(g.lottery_ai)) :
          /\ given.participant.attested_uploaded /\ ~given.participant.reveal_included
          /\ store' = [store EXCEPT
               ![given.participant_ai] = [given.participant EXCEPT !.reveal_included = TRUE],
               ![g.lottery_ai] = [g.lottery EXCEPT !.provider_uploaded_count = @ + 1],
               ![derive_vote_tally_pda(g.lottery_ai)] =
                   [tally EXCEPT !.processed_count = @ + 1]]
          /\ UNCHANGED <<lamports, purse>>
  BY DEF UploadReveals
<1> DEFINE l == g.lottery_ai
           t == derive_vote_tally_pda(l)
<1>1. PICK given \in AccountIn(g), tally \in Loaded(t, NewTally(l)) :
        /\ given.participant.attested_uploaded /\ ~given.participant.reveal_included
        /\ store' = [store EXCEPT
             ![given.participant_ai] = [given.participant EXCEPT !.reveal_included = TRUE],
             ![l] = [g.lottery EXCEPT !.provider_uploaded_count = @ + 1],
             ![t] = [tally EXCEPT !.processed_count = @ + 1]]
        /\ UNCHANGED <<lamports, purse>>
  BY <1>0
<1> DEFINE a == given.participant_ai
<1>2. /\ l \in Lotteries /\ g.lottery = store[l]
      /\ store[l] \in LotteryRecord(l) /\ store[l].stage = "attesting"
  BY GivenAtIs
<1>3. /\ a \in Members(l) /\ given.participant = store[a]
      /\ store[a] \in ParticipantRecord(a)
  BY <1>2, AccountInIs
<1>4. tally \in TallyRecord(l) BY <1>2, TallyIs
<1> HIDE DEF l, a
<1>5. DOMAIN store = Address BY DEF IInv, Base
<1>6. /\ store' = [store EXCEPT
           ![a] = [store[a] EXCEPT !.reveal_included = TRUE],
           ![l] = [store[l] EXCEPT !.provider_uploaded_count = @ + 1],
           ![t] = [tally EXCEPT !.processed_count = @ + 1]]
      /\ store[a].attested_uploaded /\ ~store[a].reveal_included
      /\ UNCHANGED <<lamports, purse>>
  BY <1>1, <1>2, <1>3 DEF l, a
<1>7. /\ a \in Address /\ l \in Address /\ t \in Address
      /\ a # l /\ a # t /\ l # t
  BY <1>2, <1>3, Distinct
<1> HIDE DEF t
<1>8. /\ DOMAIN store' = Address
      /\ \A x \in Address \ {a, l, t} : store'[x] = store[x]
      /\ store'[a] = [store[a] EXCEPT !.reveal_included = TRUE]
      /\ store'[l] = [store[l] EXCEPT !.provider_uploaded_count = @ + 1]
      /\ store'[t] = [tally EXCEPT !.processed_count = @ + 1]
  BY <1>5, <1>6, <1>7
<1>9. FlagsAre(store'[a], a, store[a].tickets_bought, TRUE, TRUE,
               store[a].refund_claimed, store[a].closed)
  <2>1. FlagsAre(store'[a], a, store[a].tickets_bought, store[a].attested_uploaded, TRUE,
                 store[a].refund_claimed, store[a].closed)
    BY <1>3, <1>8, UploadFlags
  <2> QED BY <1>6, <2>1 DEF FlagsAre
<1>10. CountsAre(store'[l], l, store[l].stage,
                 store[l].participants_count, store[l].total_tickets,
                 store[l].attested_count, store[l].provider_uploaded_count + 1,
                 store[l].settlement_batches_completed)
  BY <1>2, <1>8, UploadCounts
<1>11. store'[t] \in TallyRecord(l) BY <1>4, <1>8, TallySet
<1>12. CountsAre(store'[l], l, store[l].stage,
                 store[l].participants_count, store[l].total_tickets,
                 store[l].attested_count
                   + (IF TRUE /\ ~store[a].attested_uploaded THEN 1 ELSE 0),
                 store[l].provider_uploaded_count
                   + (IF TRUE /\ ~store[a].reveal_included THEN 1 ELSE 0),
                 store[l].settlement_batches_completed)
  <2>1. store[l].attested_count + 0 = store[l].attested_count BY <1>2, LotteryFields
  <2> QED BY <1>6, <1>10, <2>1
<1> QED BY <1>2, <1>3, <1>6, <1>8, <1>9, <1>11, <1>12, MarkSteps DEF t

(* A ticket is counted once and paid for once.                             *)
LEMMA BuyTicketsSteps == ASSUME IInv, BuyTickets PROVE Steps
<1>0. PICK g \in GivenAt("selling") :
        \E vault_ai \in VaultGiven(g), buyer \in Wallet, a \in Address :
        /\ g.lottery.config = g.config_ai
        /\ a = derive_participant_pda(g.lottery_ai, buyer)
        /\ \E p \in Loaded(a, NewParticipant(g.lottery_ai, buyer)) :
             /\ p.wallet = buyer
             /\ p.tickets_bought < TicketBound
             /\ store' = [store EXCEPT
                  ![a]            = [p EXCEPT !.tickets_bought = @ + 1],
                  ![g.lottery_ai] = [g.lottery EXCEPT
                                       !.participants_count = @ + (IF Owned(a) THEN 0 ELSE 1),
                                       !.total_tickets      = @ + 1]]
        /\ lamports' = [lamports EXCEPT ![vault_ai] = @ + 1]
        /\ purse' = [purse EXCEPT ![buyer] = @ - 1]
  BY Zenon DEF BuyTickets
<1> DEFINE l == g.lottery_ai
           v == derive_vault_pda(l)
<1>1. PICK buyer \in Wallet, a \in Address :
        /\ a = derive_participant_pda(l, buyer)
        /\ \E p \in Loaded(a, NewParticipant(l, buyer)) :
             store' = [store EXCEPT
               ![a] = [p EXCEPT !.tickets_bought = @ + 1],
               ![l] = [g.lottery EXCEPT
                         !.participants_count = @ + (IF Owned(a) THEN 0 ELSE 1),
                         !.total_tickets      = @ + 1]]
        /\ lamports' = [lamports EXCEPT ![v] = @ + 1]
        /\ purse' = [purse EXCEPT ![buyer] = @ - 1]
  BY <1>0, VaultIs, ZenonT(30)
<1>2. /\ l \in Lotteries /\ g.lottery = store[l]
      /\ store[l] \in LotteryRecord(l) /\ store[l].stage = "selling"
  BY GivenAtIs
<1> DEFINE n == IF Owned(a) THEN 0 ELSE 1
<1>3. PICK p \in Loaded(a, NewParticipant(l, buyer)) :
        store' = [store EXCEPT
          ![a] = [p EXCEPT !.tickets_bought = @ + 1],
          ![l] = [store[l] EXCEPT !.participants_count = @ + n, !.total_tickets = @ + 1]]
  BY <1>1, <1>2
<1> HIDE DEF l
<1>4. /\ a \in Members(l) /\ a[2] = l /\ a[3] = buyer
      /\ a = derive_participant_pda(l, buyer)
      /\ \A w \in Wallet : derive_participant_pda(l, w) = a => w = buyer
  BY <1>1, <1>2, MemberSeeds
<1>5. Shaped(l) /\ Staged(l) /\ Counted(l) /\ Backed(l) /\ store[l] # NoData
  BY <1>2, OpenIs
<1>6. /\ Owned(a) => /\ p = store[a] /\ store[a] \in ParticipantRecord(a)
                     /\ ~store[a].refund_claimed /\ a \in In(l)
      /\ ~Owned(a) => /\ p = NewParticipant(l, buyer) /\ store[a] = NoData
                      /\ a \notin In(l)
  <2>1. store[a] \in ParticipantRecord(a) \cup {NoData} BY <1>4, <1>5 DEF Shaped
  <2>2. store[a] # NoData => ~store[a].closed /\ ~store[a].refund_claimed
    BY <1>2, <1>4, <1>5 DEF Staged
  <2>3. ASSUME Owned(a)
        PROVE  /\ p = store[a] /\ store[a] \in ParticipantRecord(a)
               /\ ~store[a].refund_claimed /\ a \in In(l)
    <3>1. store[a].type # "None" BY <2>3 DEF Owned
    <3>2. store[a] # NoData BY <3>1 DEF NoData
    <3>3. a \in In(l) BY <1>2, <1>4, <3>1, InIs
    <3> QED BY <1>2, <1>4, <2>2, <2>3, <3>2, <3>3, BuyerIs
  <2>4. ASSUME ~Owned(a)
        PROVE  p = NewParticipant(l, buyer) /\ store[a] = NoData /\ a \notin In(l)
    <3>1. store[a] = NoData
      <4> SUFFICES ASSUME store[a] # NoData PROVE FALSE OBVIOUS
      <4>1. store[a].type # "None" BY <2>1, ParticipantFields
      <4> QED BY <2>2, <2>4, <4>1 DEF Owned
    <3>2. a \notin In(l) BY <1>2, <3>1, InIs DEF NoData
    <3> QED BY <1>2, <1>4, <2>4, <3>1, <3>2, BuyerIs
  <2> QED BY <2>3, <2>4
<1>7. p \in ParticipantRecord(a) /\ ~p.refund_claimed /\ ~p.closed
  <2>1. CASE Owned(a) BY <1>6, <2>1 DEF Owned
  <2>2. CASE ~Owned(a)
    BY <1>4, <1>6, <2>2, NewParticipantIs
  <2> QED BY <2>1, <2>2
<1>8. DOMAIN store = Address /\ lamports \in [Address -> Nat] /\ purse \in [Signer -> Int]
  BY DEF IInv, Base
<1>9. /\ a \in Address /\ l \in Address /\ v \in Address /\ a # l /\ buyer \in Signer
  BY <1>2, <1>4, Distinct DEF Signer
<1> HIDE DEF n, v
<1>10. /\ DOMAIN store' = Address
       /\ \A x \in Address \ {a, l} : store'[x] = store[x]
       /\ store'[a] = [p EXCEPT !.tickets_bought = @ + 1]
       /\ store'[l] = [store[l] EXCEPT !.participants_count = @ + n, !.total_tickets = @ + 1]
  BY <1>3, <1>8, <1>9
<1>11. /\ lamports' \in [Address -> Nat] /\ lamports'[v] = lamports[v] + 1
       /\ \A x \in Address \ {v} : lamports'[x] = lamports[x]
       /\ purse' \in [Signer -> Int] /\ purse'[buyer] = purse[buyer] - 1
       /\ \A r \in Signer \ {buyer} : purse'[r] = purse[r]
  BY <1>1, <1>8, <1>9
<1>12. /\ store'[a] \in ParticipantRecord(a)
       /\ store'[a].tickets_bought = p.tickets_bought + 1
       /\ store'[a].attested_uploaded <=> p.attested_uploaded
       /\ store'[a].reveal_included <=> p.reveal_included
       /\ ~store'[a].refund_claimed /\ ~store'[a].closed
  BY <1>7, <1>10, TicketFlags DEF FlagsAre
<1>13. n \in {0, 1} BY DEF n
<1>14. /\ store'[l] \in LotteryRecord(l) /\ store'[l].stage = "selling"
       /\ store'[l].participants_count = store[l].participants_count + n
       /\ store'[l].total_tickets = store[l].total_tickets + 1
       /\ store'[l].attested_count = store[l].attested_count
       /\ store'[l].provider_uploaded_count = store[l].provider_uploaded_count
       /\ store'[l].settlement_batches_completed = store[l].settlement_batches_completed
  <2>1. CountsAre(store'[l], l, store[l].stage, store[l].participants_count + n,
                  store[l].total_tickets + 1, store[l].attested_count,
                  store[l].provider_uploaded_count, store[l].settlement_batches_completed)
    BY <1>2, <1>10, <1>13, SaleCounts
  <2> QED BY <1>2, <2>1 DEF CountsAre
<1>15. store'[l] # NoData BY <1>2, <1>14, LotteryFields
<1>16. /\ store'[v] = store[v]
       /\ store'[derive_vote_tally_pda(l)] = store[derive_vote_tally_pda(l)]
       /\ store'[derive_finalization_ledger_pda(l)] = store[derive_finalization_ledger_pda(l)]
       /\ store'[derive_winner_page_pda(l, 0)] = store[derive_winner_page_pda(l, 0)]
       /\ \A b \in Members(l) \ {a} : store'[b] = store[b]
  BY <1>2, <1>4, <1>10, Distinct DEF v
<1>17. store[derive_winner_page_pda(l, 0)] = NoData
  BY <1>2, <1>5 DEF Staged
<1>18. Shaped(l)' BY <1>5, <1>12, <1>14, <1>16 DEF Shaped, v
<1>19. Staged(l)'
  <2>1. \A b \in Members(l) : store'[b] # NoData => ~store'[b].closed /\ ~store'[b].refund_claimed
    BY <1>2, <1>5, <1>12, <1>16 DEF Staged
  <2> QED BY <1>15, <1>16, <1>17, <2>1 DEF Staged
<1>20. /\ In(l)' = In(l) \cup {a}
       /\ \A b \in In(l) \ {a} : store'[b] = store[b]
       /\ IsFiniteSet(In(l)) /\ IsFiniteSet(In(l)')
       /\ In(l) \subseteq Participants /\ In(l)' \subseteq Participants
  <2>1. store'[a].type # "None" BY <1>12, ParticipantFields
  <2>2. In(l)' = In(l) \cup {a} BY <1>2, <1>4, <1>16, <2>1, InIs
  <2>3. IsFiniteSet(In(l)) BY <1>5 DEF Counted
  <2>4. IsFiniteSet(In(l) \cup {a}) BY <2>3, FS_AddElement
  <2> QED BY <1>2, <1>16, <2>2, <2>3, <2>4, InIs
<1>21. /\ \A b \in In(l) : TicketsAt[b] \in Nat
       /\ \A b \in In(l) \ {a} : TicketsAt'[b] = TicketsAt[b]
       /\ TicketsAt'[a] = p.tickets_bought + 1
       /\ p.tickets_bought \in Nat
       /\ a \in In(l) => TicketsAt[a] = p.tickets_bought
       /\ a \notin In(l) => p.tickets_bought = 0
  <2>1. \A b \in In(l) : TicketsAt[b] \in Nat BY <1>2, <1>5, TicketsNat
  <2>2. \A b \in In(l) \ {a} : TicketsAt'[b] = TicketsAt[b] BY <1>20 DEF TicketsAt
  <2>3. TicketsAt'[a] = p.tickets_bought + 1 BY <1>12, <1>20 DEF TicketsAt
  <2>4. p.tickets_bought \in Nat BY <1>7, ParticipantFields
  <2>5. a \in In(l) => TicketsAt[a] = p.tickets_bought BY <1>6, <1>20 DEF TicketsAt
  <2>6. a \notin In(l) => p.tickets_bought = 0 BY <1>6 DEF NewParticipant
  <2> QED BY <2>1, <2>2, <2>3, <2>4, <2>5, <2>6
<1>22. /\ SumOver(TicketsAt, In(l)) \in Nat
       /\ SumOver(TicketsAt', In(l)') = SumOver(TicketsAt, In(l)) + 1
  <2> DEFINE S == In(l)
             f == TicketsAt
             h == TicketsAt'
             k == p.tickets_bought
  <2>1. IsFiniteSet(S) BY <1>20
  <2>2. /\ \A b \in S : f[b] \in Nat
        /\ \A b \in S \ {a} : h[b] = f[b]
        /\ h[a] = k + 1 /\ k \in Nat
        /\ a \in S => f[a] = k
        /\ a \notin S => k = 0
    BY <1>21
  <2> HIDE DEF S, f, h, k
  <2>3. SumOver(f, S) \in Nat /\ SumOver(h, S \cup {a}) = SumOver(f, S) + 1
    BY <2>1, <2>2, OneMore
  <2> QED BY <1>20, <2>3, Zenon DEF S, f, h
<1>23. /\ Due(l)' = Due(l) \cup {a} /\ Due(l) \subseteq In(l)
       /\ a \in Due(l) <=> a \in In(l)
  <2>1. \A b \in In(l)' : b = a \/ (b \in In(l) \ {a} /\ store'[b] = store[b])
    BY <1>20
  <2>2. a \in In(l) => ~store[a].refund_claimed BY <1>6
  <2> QED BY <1>12, <1>20, <2>1, <2>2 DEF Due
<1>24. /\ SumOver(TicketsAt, Due(l)) \in Nat
       /\ SumOver(TicketsAt', Due(l)') = SumOver(TicketsAt, Due(l)) + 1
  <2>1. IsFiniteSet(Due(l)) BY <1>20, <1>23, FS_Subset
  <2>2. /\ SumOver(TicketsAt, Due(l)) \in Nat
        /\ SumOver(TicketsAt', Due(l) \cup {a}) = SumOver(TicketsAt, Due(l)) + 1
    BY <1>21, <1>23, <2>1, OneMore
  <2> QED BY <1>23, <2>2, Zenon
<1>25. Attested(l)' = Attested(l) /\ Included(l)' = Included(l) /\ Refunded(l)' = Refunded(l)
  <2>1. /\ a \in In(l) => /\ store'[a].attested_uploaded <=> store[a].attested_uploaded
                          /\ store'[a].reveal_included <=> store[a].reveal_included
                          /\ ~store[a].refund_claimed
        /\ a \notin In(l) => ~store'[a].attested_uploaded /\ ~store'[a].reveal_included
    BY <1>6, <1>12 DEF NewParticipant
  <2> QED BY <1>12, <1>20, <2>1 DEF Attested, Included, Refunded
<1>26. Cardinality(In(l)') = Cardinality(In(l)) + n
  <2>1. CASE Owned(a)
    <3>1. In(l)' = In(l) /\ n = 0 BY <1>6, <1>20, <2>1 DEF n
    <3>2. Cardinality(In(l)) \in Nat BY <1>20, FS_CardinalityType
    <3> QED BY <3>1, <3>2
  <2>2. CASE ~Owned(a)
    <3>1. a \notin In(l) /\ n = 1 BY <1>6, <2>2 DEF n
    <3> QED BY <1>20, <3>1, FS_AddElement
  <2> QED BY <2>1, <2>2
<1>27. Counted(l)'
  BY <1>5, <1>14, <1>20, <1>22, <1>25, <1>26 DEF Counted
<1>28. Backed(l)'
  <2>1. lamports[v] = Rent + SumOver(TicketsAt, Due(l))
    BY <1>2, <1>5 DEF Backed, v
  <2>2. lamports'[v] = Rent + SumOver(TicketsAt', Due(l)')
    <3>1. Rent \in Nat BY AccountsAssumption
    <3> QED BY <1>11, <1>24, <2>1, <3>1
  <2> QED BY <1>14, <2>2 DEF Backed, v
<1>29. Base'
  <2>1. store'[derive_config_pda] = store[derive_config_pda]
    BY <1>2, <1>4, <1>10, Distinct
  <2> QED BY <1>10, <1>11, <2>1 DEF IInv, Base
<1>30. \A w \in Wallet : purse'[w] = purse[w] + (Balance(l, w)' - Balance(l, w))
  <2> SUFFICES ASSUME NEW w \in Wallet
               PROVE  purse'[w] = purse[w] + (Balance(l, w)' - Balance(l, w))
    OBVIOUS
  <2>0. w \in Signer /\ purse[w] \in Int BY <1>8 DEF Signer
  <2>1. CASE w = buyer
    <3>1. Balance(l, w)' = -(p.tickets_bought + 1)
      <4>1. store'[a].type # "None" BY <1>12, ParticipantFields
      <4>2. (IF store'[a].type = "None" \/ store'[a].refund_claimed
             THEN 0 ELSE -store'[a].tickets_bought) = -(p.tickets_bought + 1)
        BY <1>12, <4>1
      <4>3. Balance(l, w)' = -(p.tickets_bought + 1) + 0
        BY <1>4, <1>16, <1>17, <2>1, <4>2 DEF Balance
      <4> QED BY <1>21, <4>3
    <3>2. Balance(l, w) = -p.tickets_bought
      <4>1. (IF store[a].type = "None" \/ store[a].refund_claimed
             THEN 0 ELSE -store[a].tickets_bought) = -p.tickets_bought
        <5>1. CASE Owned(a)
          BY <1>6, <5>1 DEF Owned
        <5>2. CASE ~Owned(a)
          BY <1>6, <1>21, <5>2 DEF NoData
        <5> QED BY <5>1, <5>2
      <4>2. Balance(l, w) = -p.tickets_bought + 0
        BY <1>4, <1>17, <2>1, <4>1 DEF Balance
      <4> QED BY <1>21, <4>2
    <3> QED BY <1>11, <1>21, <2>0, <2>1, <3>1, <3>2
  <2>2. CASE w # buyer
    <3>1. derive_participant_pda(l, w) \in Members(l) \ {a} BY <1>2, <1>4, <2>2, MemberSeeds
    <3>2. Balance(l, w)' = Balance(l, w) BY <1>16, <1>17, <3>1 DEF Balance
    <3>3. Balance(l, w) \in Int BY <1>2, BalanceInt DEF IInv
    <3> QED BY <1>11, <2>0, <2>2, <3>2, <3>3
  <2> QED BY <2>1, <2>2
<1>31. Touches(l)
  BY <1>2, <1>4, <1>10, <1>11, <1>15, <1>29, <1>30, Distinct DEF Touches, v
<1> QED BY <1>2, <1>18, <1>19, <1>27, <1>28, <1>31 DEF Steps, Sound

(* A refund pays a debt that was due.                                      *)
LEMMA ClaimRefundSteps == ASSUME IInv, ClaimRefund PROVE Steps
<1>0. PICK g \in GivenAt("refunds") : \E vault_ai \in VaultGiven(g), wallet \in Wallet :
        \E given \in AccountOf(g, wallet) :
          /\ g.lottery.config = g.config_ai
          /\ given.participant.lottery = g.lottery_ai
          /\ given.participant.tickets_bought > 0 /\ ~given.participant.refund_claimed
          /\ lamports[vault_ai] >= given.participant.tickets_bought
          /\ store' = [store EXCEPT
               ![given.participant_ai] = [given.participant EXCEPT !.refund_claimed = TRUE],
               ![g.lottery_ai] = [g.lottery EXCEPT !.settlement_batches_completed = @ + 1]]
          /\ lamports' = [lamports EXCEPT ![vault_ai] = @ - given.participant.tickets_bought]
          /\ purse' = [purse EXCEPT ![wallet] = @ + given.participant.tickets_bought]
  BY Zenon DEF ClaimRefund
<1> DEFINE l == g.lottery_ai
           v == derive_vault_pda(l)
<1>1. PICK wallet \in Wallet : \E given \in AccountOf(g, wallet) :
          /\ ~given.participant.refund_claimed
          /\ lamports[v] >= given.participant.tickets_bought
          /\ store' = [store EXCEPT
               ![given.participant_ai] = [given.participant EXCEPT !.refund_claimed = TRUE],
               ![l] = [g.lottery EXCEPT !.settlement_batches_completed = @ + 1]]
          /\ lamports' = [lamports EXCEPT ![v] = @ - given.participant.tickets_bought]
          /\ purse' = [purse EXCEPT ![wallet] = @ + given.participant.tickets_bought]
  BY <1>0, VaultIs
<1>2. PICK given \in AccountOf(g, wallet) :
          /\ ~given.participant.refund_claimed
          /\ lamports[v] >= given.participant.tickets_bought
          /\ store' = [store EXCEPT
               ![given.participant_ai] = [given.participant EXCEPT !.refund_claimed = TRUE],
               ![l] = [g.lottery EXCEPT !.settlement_batches_completed = @ + 1]]
          /\ lamports' = [lamports EXCEPT ![v] = @ - given.participant.tickets_bought]
          /\ purse' = [purse EXCEPT ![wallet] = @ + given.participant.tickets_bought]
  BY <1>1
<1> DEFINE a == given.participant_ai
<1>3. /\ l \in Lotteries /\ g.lottery = store[l]
      /\ store[l] \in LotteryRecord(l) /\ store[l].stage = "refunds"
  BY GivenAtIs
<1>4. /\ a \in Members(l) /\ a[3] = wallet /\ given.participant = store[a]
      /\ store[a] \in ParticipantRecord(a)
  BY <1>3, AccountIs
<1> DEFINE n == store[a].tickets_bought
<1> HIDE DEF l, a
<1>5. /\ ~store[a].refund_claimed /\ lamports[v] >= n
      /\ store' = [store EXCEPT
           ![a] = [store[a] EXCEPT !.refund_claimed = TRUE],
           ![l] = [store[l] EXCEPT !.settlement_batches_completed = @ + 1]]
      /\ lamports' = [lamports EXCEPT ![v] = @ - n]
      /\ purse' = [purse EXCEPT ![wallet] = @ + n]
  BY <1>2, <1>3, <1>4 DEF l, a
<1>6. Shaped(l) /\ Staged(l) /\ Counted(l) /\ Backed(l) /\ store[l] # NoData
  BY <1>3, OpenIs
<1>7. DOMAIN store = Address /\ lamports \in [Address -> Nat] /\ purse \in [Signer -> Int]
  BY DEF IInv, Base
<1>8. /\ a \in Address /\ l \in Address /\ v \in Address /\ a # l /\ wallet \in Signer
  BY <1>3, <1>4, Distinct DEF Signer
<1>9. n \in Nat BY <1>4, ParticipantFields
<1> HIDE DEF n, v
<1>10. /\ DOMAIN store' = Address
       /\ \A x \in Address \ {a, l} : store'[x] = store[x]
       /\ store'[a] = [store[a] EXCEPT !.refund_claimed = TRUE]
       /\ store'[l] = [store[l] EXCEPT !.settlement_batches_completed = @ + 1]
  BY <1>5, <1>7, <1>8
<1>11. /\ lamports' \in [Address -> Nat] /\ lamports'[v] = lamports[v] - n
       /\ \A x \in Address \ {v} : lamports'[x] = lamports[x]
       /\ purse' \in [Signer -> Int] /\ purse'[wallet] = purse[wallet] + n
       /\ \A r \in Signer \ {wallet} : purse'[r] = purse[r]
  BY <1>5, <1>7, <1>8, <1>9
<1>12. /\ store'[a] \in ParticipantRecord(a)
       /\ store'[a].tickets_bought = store[a].tickets_bought
       /\ store'[a].attested_uploaded <=> store[a].attested_uploaded
       /\ store'[a].reveal_included <=> store[a].reveal_included
       /\ store'[a].refund_claimed
       /\ store'[a].closed <=> store[a].closed
  BY <1>4, <1>10, RefundFlags DEF FlagsAre
<1>13. CountsAre(store'[l], l, store[l].stage,
                 store[l].participants_count, store[l].total_tickets,
                 store[l].attested_count, store[l].provider_uploaded_count,
                 store[l].settlement_batches_completed + 1)
  BY <1>3, <1>10, RefundCounts
<1>14. store'[l] \in LotteryRecord(l) /\ store'[l].stage = "refunds"
  BY <1>3, <1>13 DEF CountsAre
<1>15. store'[l] # NoData BY <1>3, <1>14, LotteryFields
<1>16. /\ store'[v] = store[v]
       /\ store'[derive_vote_tally_pda(l)] = store[derive_vote_tally_pda(l)]
       /\ store'[derive_finalization_ledger_pda(l)] = store[derive_finalization_ledger_pda(l)]
       /\ store'[derive_winner_page_pda(l, 0)] = store[derive_winner_page_pda(l, 0)]
       /\ \A b \in Members(l) \ {a} : store'[b] = store[b]
  BY <1>3, <1>4, <1>10, Distinct DEF v
<1>17. store[derive_winner_page_pda(l, 0)] = NoData
  BY <1>3, <1>6 DEF Staged
<1>18. Shaped(l)' BY <1>6, <1>12, <1>14, <1>16 DEF Shaped, v
<1>19. Staged(l)' BY <1>14, <1>15, <1>16, <1>17 DEF Staged
<1>20. a \in In(l) /\ IsFiniteSet(In(l))
  <2>1. store[a].type # "None" BY <1>4, ParticipantFields
  <2> QED BY <1>3, <1>4, <1>6, <2>1, InIs DEF Counted
<1>21. /\ In(l)' = In(l)
       /\ SumOver(TicketsAt', In(l)') = SumOver(TicketsAt, In(l))
       /\ Cardinality(Attested(l)') = Cardinality(Attested(l)) + 0
       /\ Cardinality(Included(l)') = Cardinality(Included(l)) + 0
       /\ Cardinality(Refunded(l)') = Cardinality(Refunded(l)) + 1
       /\ SumOver(TicketsAt', Due(l)') \in Nat
       /\ SumOver(TicketsAt, Due(l)) = SumOver(TicketsAt', Due(l)') + n
       /\ a \in Due(l)
  <2>1. /\ In(l)' = In(l)
        /\ SumOver(TicketsAt', In(l)') = SumOver(TicketsAt, In(l))
        /\ Cardinality(Attested(l)') = Cardinality(Attested(l))
             + (IF store'[a].attested_uploaded /\ ~store[a].attested_uploaded THEN 1 ELSE 0)
        /\ Cardinality(Included(l)') = Cardinality(Included(l))
             + (IF store'[a].reveal_included /\ ~store[a].reveal_included THEN 1 ELSE 0)
        /\ Cardinality(Refunded(l)') = Cardinality(Refunded(l))
             + (IF store'[a].refund_claimed /\ ~store[a].refund_claimed THEN 1 ELSE 0)
        /\ store'[a].refund_claimed /\ ~store[a].refund_claimed =>
              /\ SumOver(TicketsAt', Due(l)') \in Nat
              /\ SumOver(TicketsAt, Due(l))
                   = SumOver(TicketsAt', Due(l)') + store[a].tickets_bought
    BY <1>3, <1>6, <1>12, <1>16, <1>20, FlagsMove
  <2>2. a \in Due(l) BY <1>5, <1>20 DEF Due
  <2> QED BY <1>5, <1>12, <2>1, <2>2 DEF n
<1>22. Counted(l)'
  <2>1. /\ Cardinality(Attested(l)') = Cardinality(Attested(l))
        /\ Cardinality(Included(l)') = Cardinality(Included(l))
    <3>1. Cardinality(Attested(l)) \in Nat /\ Cardinality(Included(l)) \in Nat
      BY <1>20, FS_Subset, FS_CardinalityType DEF Attested, Included
    <3> QED BY <1>21, <3>1
  <2> QED BY <1>6, <1>13, <1>20, <1>21, <2>1 DEF Counted, CountsAre
<1>23. Backed(l)'
  <2>1. lamports[v] = Rent + SumOver(TicketsAt, Due(l))
    BY <1>3, <1>6, <1>21 DEF Backed, v
  <2>2. lamports'[v] = Rent + SumOver(TicketsAt', Due(l)')
    <3>1. Rent \in Nat BY AccountsAssumption
    <3> QED BY <1>9, <1>11, <1>21, <2>1, <3>1
  <2> QED BY <1>14, <2>2 DEF Backed, v
<1>24. Base'
  <2>1. store'[derive_config_pda] = store[derive_config_pda]
    BY <1>3, <1>4, <1>10, Distinct
  <2> QED BY <1>10, <1>11, <2>1 DEF IInv, Base
<1>25. \A w \in Wallet : purse'[w] = purse[w] + (Balance(l, w)' - Balance(l, w))
  <2> SUFFICES ASSUME NEW w \in Wallet
               PROVE  purse'[w] = purse[w] + (Balance(l, w)' - Balance(l, w))
    OBVIOUS
  <2>0. w \in Signer /\ purse[w] \in Int BY <1>7 DEF Signer
  <2> DEFINE b == derive_participant_pda(l, w)
  <2>1. b \in Members(l) /\ b[3] = w BY <1>3, MemberSeeds
  <2>2. CASE w = wallet
    <3>1. b = a BY <1>3, <1>4, <2>2, MemberIs
    <3>2. Balance(l, w)' = 0
      BY <1>12, <1>16, <1>17, <3>1 DEF Balance
    <3>3. Balance(l, w) = -n
      <4>1. store[a].type # "None" BY <1>4, ParticipantFields
      <4>2. (IF store[a].type = "None" \/ store[a].refund_claimed
             THEN 0 ELSE -store[a].tickets_bought) = -n
        BY <1>5, <4>1 DEF n
      <4>3. Balance(l, w) = -n + 0 BY <1>17, <3>1, <4>2 DEF Balance
      <4> QED BY <1>9, <4>3
    <3> QED BY <1>9, <1>11, <2>0, <2>2, <3>2, <3>3
  <2>3. CASE w # wallet
    <3>1. b \in Members(l) \ {a} BY <1>4, <2>1, <2>3
    <3>2. Balance(l, w)' = Balance(l, w) BY <1>16, <1>17, <3>1 DEF Balance
    <3>3. Balance(l, w) \in Int BY <1>3, BalanceInt DEF IInv
    <3> QED BY <1>11, <2>0, <2>3, <3>2, <3>3
  <2> QED BY <2>2, <2>3
<1>26. Touches(l)
  BY <1>3, <1>4, <1>10, <1>11, <1>15, <1>24, <1>25, Distinct DEF Touches, v
<1> QED BY <1>3, <1>18, <1>19, <1>22, <1>23, <1>26 DEF Steps, Sound

(* A closed account keeps what it says.                                    *)
LEMMA CloseParticipantSteps == ASSUME IInv, CloseParticipant PROVE Steps
<1>0. PICK g \in LotteryGiven, wallet \in Wallet : \E given \in AccountOf(g, wallet) :
        /\ \/ g.lottery.stage = "refunds" /\ given.participant.refund_claimed
           \/ g.lottery.stage = "paid"
        /\ store' = [store EXCEPT ![given.participant_ai].closed = TRUE]
        /\ UNCHANGED <<lamports, purse>>
  BY DEF CloseParticipant
<1>1. PICK given \in AccountOf(g, wallet) :
        /\ \/ g.lottery.stage = "refunds" /\ given.participant.refund_claimed
           \/ g.lottery.stage = "paid"
        /\ store' = [store EXCEPT ![given.participant_ai].closed = TRUE]
        /\ UNCHANGED <<lamports, purse>>
  BY <1>0
<1> DEFINE l == g.lottery_ai
           a == given.participant_ai
<1>2. /\ l \in Lotteries /\ g.lottery = store[l] /\ store[l] \in LotteryRecord(l)
  BY GivenIs
<1>3. a \in Members(l) /\ store[a] \in ParticipantRecord(a)
  BY <1>2, AccountIs
<1> HIDE DEF l, a
<1>4. /\ store[l].stage \in {"refunds", "paid"}
      /\ store' = [store EXCEPT ![a].closed = TRUE]
      /\ UNCHANGED <<lamports, purse>>
  BY <1>1, <1>2 DEF l, a
<1>5. Shaped(l) /\ Staged(l) /\ Counted(l) /\ Backed(l) /\ store[l] # NoData
  BY <1>2, OpenIs
<1>6. DOMAIN store = Address BY DEF IInv, Base
<1>7. a \in Address /\ a # l BY <1>2, <1>3, Distinct
<1>8. /\ DOMAIN store' = Address
      /\ \A x \in Address \ {a} : store'[x] = store[x]
      /\ store'[a] = [store[a] EXCEPT !.closed = TRUE]
  BY <1>4, <1>6, <1>7
<1>9. /\ store'[a] \in ParticipantRecord(a)
      /\ store'[a].tickets_bought = store[a].tickets_bought
      /\ store'[a].attested_uploaded <=> store[a].attested_uploaded
      /\ store'[a].reveal_included <=> store[a].reveal_included
      /\ store'[a].refund_claimed <=> store[a].refund_claimed
  BY <1>3, <1>8, CloseFlags DEF FlagsAre
<1>10. /\ store'[l] = store[l]
       /\ store'[derive_vault_pda(l)] = store[derive_vault_pda(l)]
       /\ store'[derive_vote_tally_pda(l)] = store[derive_vote_tally_pda(l)]
       /\ store'[derive_finalization_ledger_pda(l)] = store[derive_finalization_ledger_pda(l)]
       /\ store'[derive_winner_page_pda(l, 0)] = store[derive_winner_page_pda(l, 0)]
       /\ \A b \in Members(l) \ {a} : store'[b] = store[b]
  BY <1>2, <1>3, <1>7, <1>8, Distinct
<1>11. store[a] # NoData /\ store'[a] # NoData /\ a \in In(l)
  <2>1. store[a].type # "None" BY <1>3, ParticipantFields
  <2> QED BY <1>2, <1>3, <1>9, <2>1, InIs, ParticipantFields
<1>12. Shaped(l)' BY <1>5, <1>9, <1>10 DEF Shaped
<1>13. Staged(l)'
  <2>1. \A b \in Members(l) : store'[b] # NoData =>
          /\ store'[b].closed => store'[l].stage \in {"refunds", "paid"}
          /\ store'[b].refund_claimed => store'[l].stage = "refunds"
    BY <1>4, <1>5, <1>9, <1>10, <1>11 DEF Staged
  <2>2. store'[derive_winner_page_pda(l, 0)] # NoData =>
          /\ store'[l].stage \in {"shares", "paid"}
          /\ store'[derive_winner_page_pda(l, 0)].paid <=> store'[l].stage = "paid"
          /\ \E b \in Members(l) :
               /\ store'[b] # NoData /\ store'[b].reveal_included
               /\ store'[derive_winner_page_pda(l, 0)].entries = {b[3]}
    BY <1>5, <1>9, <1>10, <1>11 DEF Staged
  <2> QED BY <1>5, <1>10, <2>1, <2>2 DEF Staged
<1>14. /\ In(l)' = In(l) /\ Due(l)' = Due(l)
       /\ SumOver(TicketsAt', In(l)') = SumOver(TicketsAt, In(l))
       /\ SumOver(TicketsAt', Due(l)') = SumOver(TicketsAt, Due(l))
       /\ Cardinality(Attested(l)') = Cardinality(Attested(l)) + 0
       /\ Cardinality(Included(l)') = Cardinality(Included(l)) + 0
       /\ Cardinality(Refunded(l)') = Cardinality(Refunded(l)) + 0
  <2>1. store'[a].refund_claimed = store[a].refund_claimed
    BY <1>3, <1>9, ParticipantFields
  <2>2. IsFiniteSet(In(l)) BY <1>5 DEF Counted
  <2>3. /\ In(l)' = In(l) /\ Due(l)' = Due(l)
        /\ SumOver(TicketsAt', In(l)') = SumOver(TicketsAt, In(l))
        /\ SumOver(TicketsAt', Due(l)') = SumOver(TicketsAt, Due(l))
        /\ Cardinality(Attested(l)') = Cardinality(Attested(l))
             + (IF store'[a].attested_uploaded /\ ~store[a].attested_uploaded THEN 1 ELSE 0)
        /\ Cardinality(Included(l)') = Cardinality(Included(l))
             + (IF store'[a].reveal_included /\ ~store[a].reveal_included THEN 1 ELSE 0)
        /\ Cardinality(Refunded(l)') = Cardinality(Refunded(l))
             + (IF store'[a].refund_claimed /\ ~store[a].refund_claimed THEN 1 ELSE 0)
    BY <1>2, <1>5, <1>9, <1>10, <1>11, <2>1, <2>2, FlagsMove
  <2> QED BY <1>9, <2>3
<1>15. Counted(l)'
  <2>1. /\ Cardinality(Attested(l)) \in Nat /\ Cardinality(Included(l)) \in Nat
        /\ Cardinality(Refunded(l)) \in Nat
    BY <1>5, FS_Subset, FS_CardinalityType DEF Counted, Attested, Included, Refunded
  <2> QED BY <1>5, <1>10, <1>14, <2>1 DEF Counted
<1>16. Backed(l)' BY <1>4, <1>5, <1>10, <1>14 DEF Backed
<1>17. Base'
  <2>1. store'[derive_config_pda] = store[derive_config_pda]
    BY <1>2, <1>3, <1>8, Distinct
  <2> QED BY <1>4, <1>8, <2>1 DEF IInv, Base
<1>18. \A w \in Wallet : /\ Balance(l, w)' = Balance(l, w) /\ Balance(l, w) \in Int
                         /\ purse[w] \in Int
  <2>1. ASSUME NEW w \in Wallet PROVE Balance(l, w)' = Balance(l, w)
    <3> DEFINE b == derive_participant_pda(l, w)
    <3>1. b \in Members(l) BY <1>2, MemberSeeds
    <3>2. CASE b = a
      <4>1. store'[b].type # "None" /\ store[b].type # "None"
        BY <1>3, <1>9, <3>2, ParticipantFields
      <4>2. store'[b].tickets_bought = store[b].tickets_bought
            /\ store'[b].refund_claimed = store[b].refund_claimed
        BY <1>3, <1>9, <3>2, ParticipantFields
      <4> HIDE DEF b
      <4> QED BY <1>10, <4>1, <4>2 DEF Balance, b
    <3>3. CASE b # a
      <4>1. store'[b] = store[b] BY <1>10, <3>1, <3>3
      <4> QED BY <1>10, <4>1 DEF Balance
    <3> QED BY <3>2, <3>3
  <2> QED BY <1>2, <2>1, BalanceInt DEF IInv, Base, Signer
<1>19. Touches(l)
  <2>1. \A x \in Address \ Of(l) : store'[x] = store[x] /\ lamports'[x] = lamports[x]
    BY <1>2, <1>3, <1>4, <1>8, Distinct
  <2>2. \A w \in Wallet : purse'[w] = purse[w] + (Balance(l, w)' - Balance(l, w))
    BY <1>4, <1>18
  <2> QED BY <1>5, <1>10, <1>17, <2>1, <2>2 DEF Touches
<1> QED BY <1>2, <1>12, <1>13, <1>15, <1>16, <1>19 DEF Steps, Sound

(***************************************************************************)
(* The winner.                                                             *)
(***************************************************************************)
(* The fields of a page.                                                   *)
LEMMA PageFields ==
  ASSUME NEW l, NEW d \in PageRecord(l)
  PROVE  /\ d.type = "WinnerPage" /\ ~d.closed /\ d.lottery = l /\ d.page_index = 0
         /\ d.entries \subseteq Wallet /\ d.paid \in BOOLEAN /\ d # NoData
<1>1. d.type = "WinnerPage" /\ ~d.closed /\ d.lottery = l /\ d.page_index = 0
  BY DEF PageRecord
<1>2. d.entries \subseteq Wallet BY DEF PageRecord
<1>3. d.paid \in BOOLEAN BY DEF PageRecord
<1>4. d # NoData BY <1>1 DEF NoData
<1> QED BY <1>1, <1>2, <1>3, <1>4

(* A page that is opened and gets entries.                                 *)
LEMMA PageBooked ==
  ASSUME NEW l, NEW entries \in SUBSET Wallet, NEW d, d = NewPage(l, 0),
         NEW e, e = [d EXCEPT !.entries = entries]
  PROVE  e \in PageRecord(l) /\ e.entries = entries /\ ~e.paid
<1>1. e.entries = entries /\ ~e.paid BY DEF NewPage
<1>2. e \in PageRecord(l) BY DEF NewPage, PageRecord
<1> QED BY <1>1, <1>2

(* A page that is marked paid.                                             *)
LEMMA PagePaid ==
  ASSUME NEW l, NEW d \in PageRecord(l), NEW e, e = [d EXCEPT !.paid = TRUE]
  PROVE  e \in PageRecord(l) /\ e.entries = d.entries /\ e.paid
<1>1. e \in PageRecord(l) BY DEF PageRecord
<1> QED BY <1>1 DEF PageRecord

(* A ledger that counts one entry more.                                    *)
LEMMA LedgerSet ==
  ASSUME NEW l, NEW d \in LedgerRecord(l), NEW e, e = [d EXCEPT !.selected_count = @ + 1]
  PROVE  e \in LedgerRecord(l)
<1>1. d.selected_count + 1 \in Nat BY DEF LedgerRecord
<1> QED BY <1>1 DEF LedgerRecord

(* The page opens with one entry, an included participant of the lottery.  *)
LEMMA FinalizeWinnersSteps == ASSUME IInv, FinalizeWinners PROVE Steps
<1>0. PICK g \in GivenAt("attesting") : \E vault_ai \in VaultGiven(g), given \in AccountIn(g) :
        /\ g.lottery.participants_count > 1
        /\ g.lottery.attested_count # 0
        /\ g.lottery.provider_uploaded_count >= g.lottery.attested_count
        /\ given.participant.reveal_included
        /\ \E ledger \in Loaded(derive_finalization_ledger_pda(g.lottery_ai),
                                NewLedger(g.lottery_ai)),
              page \in Loaded(derive_winner_page_pda(g.lottery_ai, 0),
                              NewPage(g.lottery_ai, 0)) :
             /\ page.page_index = 0
             /\ store' = [store EXCEPT
                  ![derive_finalization_ledger_pda(g.lottery_ai)]
                    = [ledger EXCEPT !.selected_count = @ + 1],
                  ![derive_winner_page_pda(g.lottery_ai, 0)]
                    = [page EXCEPT !.entries = @ \cup {given.participant.wallet}],
                  ![g.lottery_ai] = [g.lottery EXCEPT !.stage = "shares"]]
        /\ UNCHANGED <<lamports, purse>>
  BY Zenon DEF FinalizeWinners
<1> DEFINE l == g.lottery_ai
           f == derive_finalization_ledger_pda(l)
           p == derive_winner_page_pda(l, 0)
<1>1. PICK given \in AccountIn(g) :
        /\ given.participant.reveal_included
        /\ \E ledger \in Loaded(f, NewLedger(l)), page \in Loaded(p, NewPage(l, 0)) :
             store' = [store EXCEPT
                  ![f] = [ledger EXCEPT !.selected_count = @ + 1],
                  ![p] = [page EXCEPT !.entries = @ \cup {given.participant.wallet}],
                  ![l] = [g.lottery EXCEPT !.stage = "shares"]]
        /\ UNCHANGED <<lamports, purse>>
  BY <1>0
<1> DEFINE a == given.participant_ai
<1>2. /\ l \in Lotteries /\ g.lottery = store[l]
      /\ store[l] \in LotteryRecord(l) /\ store[l].stage = "attesting"
  BY GivenAtIs
<1>3. /\ a \in Members(l) /\ given.participant = store[a]
      /\ store[a] \in ParticipantRecord(a)
  BY <1>2, AccountInIs
<1>4. PICK ledger \in Loaded(f, NewLedger(l)), page \in Loaded(p, NewPage(l, 0)) :
        store' = [store EXCEPT
             ![f] = [ledger EXCEPT !.selected_count = @ + 1],
             ![p] = [page EXCEPT !.entries = @ \cup {given.participant.wallet}],
             ![l] = [g.lottery EXCEPT !.stage = "shares"]]
  BY <1>1
<1>5. store[a].reveal_included /\ lamports' = lamports /\ purse' = purse
  BY <1>1, <1>3
<1> DEFINE who == given.participant.wallet
<1>a. who = store[a].wallet BY <1>3
<1> HIDE DEF l, a, who
<1>6. Shaped(l) /\ Staged(l) /\ Counted(l) /\ Backed(l) /\ store[l] # NoData
  BY <1>2, OpenIs
<1>7. store[p] = NoData BY <1>2, <1>6 DEF Staged
<1>8. ledger \in LedgerRecord(l) /\ page = NewPage(l, 0)
  BY <1>2, <1>4, <1>7, LedgerIs, NewPageIs
<1>9. who = a[3] /\ who \in Wallet
  BY <1>2, <1>3, <1>a, ParticipantFields, MemberIs
<1>10. DOMAIN store = Address BY DEF IInv, Base
<1>11. /\ l \in Address /\ f \in Address /\ p \in Address
       /\ l # f /\ l # p /\ f # p
  BY <1>2, Distinct
<1> HIDE DEF f, p
<1>12. /\ DOMAIN store' = Address
       /\ \A x \in Address \ {f, p, l} : store'[x] = store[x]
       /\ store'[f] = [ledger EXCEPT !.selected_count = @ + 1]
       /\ store'[p] = [page EXCEPT !.entries = @ \cup {who}]
       /\ store'[l] = [store[l] EXCEPT !.stage = "shares"]
  BY <1>2, <1>4, <1>10, <1>11 DEF l, who
<1>13. store'[f] \in LedgerRecord(l) BY <1>8, <1>12, LedgerSet
<1>14. store'[p] \in PageRecord(l) /\ store'[p].entries = {a[3]} /\ ~store'[p].paid
  <2> DEFINE entries == page.entries \cup {who}
  <2>1. store'[p] = [page EXCEPT !.entries = entries] BY <1>12
  <2>2. entries = {who} BY <1>8 DEF NewPage
  <2>3. entries \in SUBSET Wallet BY <1>9, <2>2
  <2> HIDE DEF entries
  <2>4. store'[p] \in PageRecord(l) /\ store'[p].entries = entries /\ ~store'[p].paid
    BY <1>8, <2>1, <2>3, PageBooked
  <2> QED BY <1>9, <2>2, <2>4
<1>15. CountsAre(store'[l], l, "shares", store[l].participants_count,
                 store[l].total_tickets, store[l].attested_count,
                 store[l].provider_uploaded_count, store[l].settlement_batches_completed)
  BY <1>2, <1>12, StageSet
<1>16. store'[l] \in LotteryRecord(l) /\ store'[l].stage = "shares"
  BY <1>15 DEF CountsAre
<1>17. store'[l] # NoData BY <1>2, <1>16, LotteryFields
<1>18. /\ store'[derive_vault_pda(l)] = store[derive_vault_pda(l)]
       /\ store'[derive_vote_tally_pda(l)] = store[derive_vote_tally_pda(l)]
       /\ \A b \in Members(l) : store'[b] = store[b]
  BY <1>2, <1>12, Distinct DEF f, p
<1>19. Shaped(l)' BY <1>6, <1>13, <1>14, <1>16, <1>18 DEF Shaped, f, p
<1>20. Staged(l)'
  <2>1. \A b \in Members(l) : store'[b] # NoData => ~store'[b].closed /\ ~store'[b].refund_claimed
    BY <1>2, <1>6, <1>18 DEF Staged
  <2>2. store[a] # NoData BY <1>3, ParticipantFields
  <2>3. \E b \in Members(l) :
          store'[b] # NoData /\ store'[b].reveal_included /\ store'[p].entries = {b[3]}
    BY <1>3, <1>5, <1>14, <1>18, <2>2
  <2> QED BY <1>14, <1>16, <1>17, <2>1, <2>3 DEF Staged, p
<1>21. /\ In(l)' = In(l) /\ Due(l)' = Due(l)
       /\ Attested(l)' = Attested(l) /\ Included(l)' = Included(l)
       /\ Refunded(l)' = Refunded(l)
       /\ SumOver(TicketsAt', In(l)') = SumOver(TicketsAt, In(l))
       /\ SumOver(TicketsAt', Due(l)') = SumOver(TicketsAt, Due(l))
  BY <1>2, <1>6, <1>18, MembersKept DEF Counted
<1>22. Counted(l)' BY <1>6, <1>15, <1>21 DEF Counted, CountsAre
<1>23. Backed(l)' BY <1>2, <1>5, <1>6, <1>16, <1>21 DEF Backed
<1>24. Base'
  <2>1. store'[derive_config_pda] = store[derive_config_pda]
    BY <1>2, <1>12, Distinct DEF f, p
  <2> QED BY <1>5, <1>12, <2>1 DEF IInv, Base
<1>25. \A w \in Wallet : /\ Balance(l, w)' = Balance(l, w) /\ Balance(l, w) \in Int
                         /\ purse[w] \in Int
  <2>1. \A w \in Wallet : Balance(l, w)' = Balance(l, w)
    BY <1>2, <1>7, <1>14, <1>18, MemberSeeds DEF Balance, p
  <2> QED BY <1>2, <2>1, BalanceInt DEF IInv, Base, Signer
<1>26. Touches(l)
  <2>1. \A x \in Address \ Of(l) : store'[x] = store[x] /\ lamports'[x] = lamports[x]
    BY <1>2, <1>5, <1>12, Distinct DEF f, p
  <2>2. \A w \in Wallet : purse'[w] = purse[w] + (Balance(l, w)' - Balance(l, w))
    BY <1>5, <1>25
  <2> QED BY <1>17, <1>24, <2>1, <2>2 DEF Touches
<1> QED BY <1>2, <1>19, <1>20, <1>22, <1>23, <1>26 DEF Steps, Sound

(* The winner gets all tickets, the authority what is left.                *)
LEMMA SettlePayoutBatchSteps == ASSUME IInv, SettlePayoutBatch PROVE Steps
<1>0. PICK g \in GivenAt("shares") : \E vault_ai, page_ai \in Address, authority \in Signer :
        /\ assert_pda_owned(vault_ai, derive_vault_pda(g.lottery_ai))
        /\ authority = Authority
        /\ assert_pda_owned(page_ai, derive_winner_page_pda(g.lottery_ai, 0))
        /\ \E page \in read_account_data(page_ai, "WinnerPage") : \E winner \in page.entries :
             /\ page.lottery = g.lottery_ai /\ page.page_index = 0
             /\ ~page.paid
             /\ lamports[vault_ai] >= g.lottery.total_tickets
             /\ store' = [store EXCEPT ![page_ai]      = [page EXCEPT !.paid = TRUE],
                                       ![g.lottery_ai] = [g.lottery EXCEPT !.stage = "paid"]]
             /\ purse' = [purse EXCEPT
                  ![winner]    = @ + g.lottery.total_tickets,
                  ![authority] = @ + lamports[vault_ai] - g.lottery.total_tickets]
        /\ lamports' = [lamports EXCEPT ![vault_ai] = 0]
  BY Zenon DEF SettlePayoutBatch
<1> DEFINE l == g.lottery_ai
           v == derive_vault_pda(l)
           p == derive_winner_page_pda(l, 0)
           n == store[l].total_tickets
<1>1. /\ l \in Lotteries /\ g.lottery = store[l]
      /\ store[l] \in LotteryRecord(l) /\ store[l].stage = "shares"
  BY GivenAtIs
<1>2. /\ Owned(p)
      /\ \E page \in read_account_data(p, "WinnerPage") : \E winner \in page.entries :
           /\ store' = [store EXCEPT ![p] = [page EXCEPT !.paid = TRUE],
                                     ![l] = [store[l] EXCEPT !.stage = "paid"]]
           /\ purse' = [purse EXCEPT ![winner]    = @ + n,
                                     ![Authority] = @ + lamports[v] - n]
      /\ lamports' = [lamports EXCEPT ![v] = 0]
  BY <1>0, <1>1, ZenonT(30) DEF assert_pda_owned
<1> HIDE DEF l
<1>3. Shaped(l) /\ Staged(l) /\ Counted(l) /\ Backed(l) /\ store[l] # NoData
  BY <1>1, OpenIs
<1>4. store[p] \in PageRecord(l)
  BY <1>1, <1>2, <1>3 DEF Shaped, Owned, NoData
<1>5. store[p] # NoData BY <1>4, PageFields
<1>6. PICK page \in read_account_data(p, "WinnerPage") : \E winner \in page.entries :
        /\ store' = [store EXCEPT ![p] = [page EXCEPT !.paid = TRUE],
                                  ![l] = [store[l] EXCEPT !.stage = "paid"]]
        /\ purse' = [purse EXCEPT ![winner]    = @ + n,
                                  ![Authority] = @ + lamports[v] - n]
  BY <1>2
<1>7. page = store[p]
  BY <1>2, <1>4, <1>6, PageFields DEF read_account_data
<1>8. PICK winner \in store[p].entries :
        /\ store' = [store EXCEPT ![p] = [store[p] EXCEPT !.paid = TRUE],
                                  ![l] = [store[l] EXCEPT !.stage = "paid"]]
        /\ purse' = [purse EXCEPT ![winner]    = @ + n,
                                  ![Authority] = @ + lamports[v] - n]
  BY <1>6, <1>7
<1>9. PICK a \in Members(l) : /\ store[a] # NoData /\ store[a].reveal_included
                              /\ store[p].entries = {a[3]}
  BY <1>3, <1>5 DEF Staged
<1>10. ~store[p].paid BY <1>1, <1>3, <1>5 DEF Staged
<1>11. /\ winner \in Wallet /\ winner # Authority /\ store[p].entries = {winner}
       /\ winner \in Signer /\ Authority \in Signer /\ Authority \notin Wallet
  BY <1>4, <1>8, <1>9, PageFields, AccountsAssumption DEF Signer
<1>12. DOMAIN store = Address /\ lamports \in [Address -> Nat] /\ purse \in [Signer -> Int]
  BY DEF IInv, Base
<1>13. l \in Address /\ v \in Address /\ p \in Address /\ p # l BY <1>1, Distinct
<1>14. n \in Nat BY <1>1, LotteryFields
<1> HIDE DEF v, p, n
<1>15. /\ DOMAIN store' = Address
       /\ \A x \in Address \ {p, l} : store'[x] = store[x]
       /\ store'[p] = [store[p] EXCEPT !.paid = TRUE]
       /\ store'[l] = [store[l] EXCEPT !.stage = "paid"]
  BY <1>8, <1>12, <1>13
<1>16. /\ lamports' \in [Address -> Nat] /\ lamports'[v] = 0
       /\ \A x \in Address \ {v} : lamports'[x] = lamports[x]
  BY <1>2, <1>12, <1>13
<1>17. /\ purse' \in [Signer -> Int] /\ purse'[winner] = purse[winner] + n
       /\ \A w \in Wallet \ {winner} : purse'[w] = purse[w]
  <2>1. lamports[v] \in Nat BY <1>12, <1>13
  <2> QED BY <1>8, <1>11, <1>12, <1>14, <2>1 DEF Signer
<1>18. store'[p] \in PageRecord(l) /\ store'[p].entries = {winner} /\ store'[p].paid
  BY <1>4, <1>11, <1>15, PagePaid
<1>19. CountsAre(store'[l], l, "paid", store[l].participants_count,
                 store[l].total_tickets, store[l].attested_count,
                 store[l].provider_uploaded_count, store[l].settlement_batches_completed)
  BY <1>1, <1>15, StageSet
<1>20. store'[l] \in LotteryRecord(l) /\ store'[l].stage = "paid"
       /\ store'[l].total_tickets = n
  BY <1>19 DEF CountsAre, n
<1>21. store'[l] # NoData /\ store'[p] # NoData
  BY <1>1, <1>18, <1>20, LotteryFields, PageFields
<1>22. /\ store'[v] = store[v]
       /\ store'[derive_vote_tally_pda(l)] = store[derive_vote_tally_pda(l)]
       /\ store'[derive_finalization_ledger_pda(l)] = store[derive_finalization_ledger_pda(l)]
       /\ \A b \in Members(l) : store'[b] = store[b]
  BY <1>1, <1>15, Distinct DEF v, p
<1>23. Shaped(l)' BY <1>3, <1>18, <1>20, <1>22 DEF Shaped, v, p
<1>24. \A b \in Members(l) : store[b] # NoData => ~store[b].refund_claimed
  BY <1>1, <1>3 DEF Staged
<1>25. Staged(l)'
  <2>1. store'[a] # NoData /\ store'[a].reveal_included /\ store'[p].entries = {a[3]}
    BY <1>9, <1>11, <1>18, <1>22
  <2> QED BY <1>18, <1>20, <1>21, <1>22, <1>24, <2>1 DEF Staged, p
<1>26. /\ In(l)' = In(l) /\ Due(l)' = Due(l)
       /\ Attested(l)' = Attested(l) /\ Included(l)' = Included(l)
       /\ Refunded(l)' = Refunded(l)
       /\ SumOver(TicketsAt', In(l)') = SumOver(TicketsAt, In(l))
       /\ SumOver(TicketsAt', Due(l)') = SumOver(TicketsAt, Due(l))
  BY <1>1, <1>3, <1>22, MembersKept DEF Counted
<1>27. Counted(l)' BY <1>3, <1>19, <1>26 DEF Counted, CountsAre
<1>28. Backed(l)' BY <1>16, <1>20 DEF Backed, v
<1>29. Base'
  <2>1. store'[derive_config_pda] = store[derive_config_pda]
    BY <1>1, <1>15, Distinct DEF p
  <2> QED BY <1>15, <1>16, <1>17, <2>1 DEF IInv, Base
<1>30. \A w \in Wallet : purse'[w] = purse[w] + (Balance(l, w)' - Balance(l, w))
  <2> SUFFICES ASSUME NEW w \in Wallet
               PROVE  purse'[w] = purse[w] + (Balance(l, w)' - Balance(l, w))
    OBVIOUS
  <2>0. purse[w] \in Int BY <1>12 DEF Signer
  <2> DEFINE b == derive_participant_pda(l, w)
             own == IF store[b].type = "None" \/ store[b].refund_claimed
                    THEN 0 ELSE -store[b].tickets_bought
  <2>1. store'[b] = store[b] BY <1>1, <1>22, MemberSeeds
  <2>2. Balance(l, w) = own + 0 BY <1>10 DEF Balance, p
  <2>3. Balance(l, w)' = own + (IF w = winner THEN n ELSE 0)
    BY <1>18, <1>20, <1>21, <2>1 DEF Balance, p
  <2>4. own \in Int
    <3>1. b \in Members(l) BY <1>1, MemberSeeds
    <3>2. store[b] \in ParticipantRecord(b) \cup {NoData} BY <1>3, <3>1 DEF Shaped
    <3> QED BY <3>2 DEF ParticipantRecord, NoData
  <2> HIDE DEF own
  <2>5. CASE w = winner BY <1>14, <1>17, <2>0, <2>2, <2>3, <2>4, <2>5
  <2>6. CASE w # winner BY <1>17, <2>0, <2>2, <2>3, <2>4, <2>6
  <2> QED BY <2>5, <2>6
<1>31. Touches(l)
  BY <1>1, <1>15, <1>16, <1>21, <1>29, <1>30, Distinct DEF Touches, v, p
<1> QED BY <1>1, <1>23, <1>25, <1>27, <1>28, <1>31 DEF Steps, Sound

(* When every participant has its refund, nothing is due any more.         *)
LEMMA CloseRefundVaultSteps == ASSUME IInv, CloseRefundVault PROVE Steps
<1>0. PICK g \in GivenAt("refunds") : \E vault_ai \in VaultGiven(g), authority \in Signer :
        /\ g.lottery.config = g.config_ai
        /\ authority = Authority
        /\ g.lottery.settlement_batches_completed >= g.lottery.participants_count
        /\ lamports[vault_ai] # 0
        /\ lamports' = [lamports EXCEPT ![vault_ai] = 0]
        /\ purse' = [purse EXCEPT ![authority] = @ + lamports[vault_ai]]
        /\ UNCHANGED store
  BY Zenon DEF CloseRefundVault
<1> DEFINE l == g.lottery_ai
           v == derive_vault_pda(l)
<1>1. /\ l \in Lotteries /\ g.lottery = store[l]
      /\ store[l] \in LotteryRecord(l) /\ store[l].stage = "refunds"
  BY GivenAtIs
<1>2. /\ store[l].settlement_batches_completed >= store[l].participants_count
      /\ lamports' = [lamports EXCEPT ![v] = 0]
      /\ purse' = [purse EXCEPT ![Authority] = @ + lamports[v]]
      /\ store' = store
  BY <1>0, <1>1, VaultIs
<1> HIDE DEF l
<1>3. Shaped(l) /\ Staged(l) /\ Counted(l) /\ Backed(l) /\ store[l] # NoData
  BY <1>1, OpenIs
<1>4. DOMAIN store = Address /\ lamports \in [Address -> Nat] /\ purse \in [Signer -> Int]
  BY DEF IInv, Base
<1>5. v \in Address /\ Authority \in Signer /\ Authority \notin Wallet
  BY <1>1, Distinct, AccountsAssumption DEF Signer
<1> HIDE DEF v
<1>6. /\ lamports' \in [Address -> Nat] /\ lamports'[v] = 0
      /\ \A x \in Address \ {v} : lamports'[x] = lamports[x]
  BY <1>2, <1>4, <1>5
<1>7. /\ purse' \in [Signer -> Int]
      /\ \A w \in Wallet : purse'[w] = purse[w]
  <2>1. lamports[v] \in Nat BY <1>4, <1>5
  <2> QED BY <1>2, <1>4, <1>5, <2>1 DEF Signer
<1>8. Refunded(l) = In(l)
  <2>1. IsFiniteSet(In(l)) /\ Cardinality(Refunded(l)) >= Cardinality(In(l))
    BY <1>2, <1>3 DEF Counted
  <2>2. Refunded(l) \subseteq In(l) BY DEF Refunded
  <2> QED BY <2>1, <2>2, FS_Subset, FS_CardinalityType
<1>9. Due(l) = {} BY <1>8 DEF Due, Refunded
<1>10. Shaped(l)' /\ Staged(l)'
  BY <1>2, <1>3 DEF Shaped, Staged
<1>11. In(l)' = In(l) /\ Due(l)' = Due(l) /\ TicketsAt' = TicketsAt
  BY <1>2 DEF In, Due, TicketsAt
<1>12. Counted(l)'
  <2>1. Attested(l)' = Attested(l) /\ Included(l)' = Included(l) /\ Refunded(l)' = Refunded(l)
    BY <1>2, <1>11 DEF Attested, Included, Refunded
  <2>2. SumOver(TicketsAt', In(l)') = SumOver(TicketsAt, In(l)) BY <1>11, Zenon
  <2> QED BY <1>2, <1>3, <1>11, <2>1, <2>2 DEF Counted
<1>13. Backed(l)'
  BY <1>1, <1>2, <1>6, <1>9, <1>11 DEF Backed, v
<1>14. Base' BY <1>2, <1>4, <1>6, <1>7 DEF IInv, Base
<1>15. \A w \in Wallet : purse'[w] = purse[w] + (Balance(l, w)' - Balance(l, w))
  <2> SUFFICES ASSUME NEW w \in Wallet
               PROVE  purse'[w] = purse[w] + (Balance(l, w)' - Balance(l, w))
    OBVIOUS
  <2>1. Balance(l, w)' = Balance(l, w) BY <1>2 DEF Balance
  <2>2. Balance(l, w) \in Int /\ purse[w] \in Int
    BY <1>1, <1>4, BalanceInt DEF IInv, Signer
  <2> QED BY <1>7, <2>1, <2>2
<1>16. Touches(l)
  BY <1>1, <1>2, <1>3, <1>6, <1>14, <1>15, Distinct DEF Touches, v
<1> QED BY <1>1, <1>10, <1>12, <1>13, <1>16 DEF Steps, Sound

(***************************************************************************)
(* The invariant holds throughout.                                         *)
(***************************************************************************)
LEMMA InitKeeps == Init => IInv
<1> SUFFICES ASSUME Init PROVE IInv OBVIOUS
<1>1. DOMAIN store = Address /\ store[derive_config_pda] = Config
  BY Seeds, Distinct DEF Init, Address
<1>2. ASSUME NEW l \in Lotteries PROVE \A x \in Of(l) : store[x] = NoData
  <2>1. \A x \in Of(l) : x \in Address /\ x # derive_config_pda BY Seeds, Apart
  <2> QED BY <2>1 DEF Init
<1>3. ASSUME NEW l \in Lotteries PROVE store[l] = NoData /\ Sound(l)
  <2>1. /\ store[l] = NoData
        /\ store[derive_vault_pda(l)] = NoData
        /\ store[derive_vote_tally_pda(l)] = NoData
        /\ store[derive_finalization_ledger_pda(l)] = NoData
        /\ store[derive_winner_page_pda(l, 0)] = NoData
        /\ \A a \in Members(l) : store[a] = NoData
    BY <1>2 DEF Of
  <2> QED BY <2>1 DEF Sound, Shaped, Staged
<1>4. Opened = {} BY <1>3 DEF Opened, NoData
<1>5. lamports \in [Address -> Nat] /\ purse = [r \in Signer |-> 0] BY DEF Init
<1>6. Settled
  <2>1. \A w \in Wallet : purse[w] = 0 BY <1>5 DEF Signer
  <2>2. \A w \in Wallet : SumOver(Balances(w), {}) = 0 BY SumEmpty
  <2> QED BY <1>4, <2>1, <2>2 DEF Settled
<1>7. IsFiniteSet(Opened) BY <1>4, FS_EmptySet
<1> QED BY <1>1, <1>3, <1>5, <1>6, <1>7 DEF IInv, Base

(* Every call is a step for one lottery.                                   *)
LEMMA NextSteps == IInv /\ Next => Steps
<1> SUFFICES ASSUME IInv, Next PROVE Steps OBVIOUS
<1>1. CASE CreateLottery BY <1>1, CreateLotterySteps
<1>2. CASE BuyTickets BY <1>2, BuyTicketsSteps
<1>3. CASE BeginReveal BY <1>3, BeginRevealSteps
<1>4. CASE BuyWindowEnds BY <1>4, BuyWindowEndsSteps
<1>5. CASE AttestUploaded BY <1>5, AttestUploadedSteps
<1>6. CASE AttestReveal BY <1>6, AttestRevealSteps
<1>7. CASE UploadReveals BY <1>7, UploadRevealsSteps
<1>8. CASE FinalizeWinners BY <1>8, FinalizeWinnersSteps
<1>9. CASE SettlePayoutBatch BY <1>9, SettlePayoutBatchSteps
<1>10. CASE FinalizeNoAttesters BY <1>10, FinalizeNoAttestersSteps
<1>11. CASE ClaimRefund BY <1>11, ClaimRefundSteps
<1>12. CASE CloseRefundVault BY <1>12, CloseRefundVaultSteps
<1>13. CASE CloseParticipant BY <1>13, CloseParticipantSteps
<1> QED
  BY <1>1, <1>2, <1>3, <1>4, <1>5, <1>6, <1>7, <1>8, <1>9, <1>10, <1>11, <1>12, <1>13
  DEF Next

(* Nothing changes when no account does.                                   *)
LEMMA StutterKeeps == IInv /\ UNCHANGED vars => IInv'
<1> SUFFICES ASSUME IInv, UNCHANGED vars PROVE IInv' OBVIOUS
<1>1. store' = store /\ lamports' = lamports /\ purse' = purse BY DEF vars
<1>2. Base' BY <1>1 DEF IInv, Base
<1>3. Opened' = Opened BY <1>1 DEF Opened
<1>4. TicketsAt' = TicketsAt BY <1>1 DEF TicketsAt
<1>5. ASSUME NEW l \in Lotteries PROVE Sound(l)'
  <2>1. Sound(l) BY DEF IInv
  <2>2. In(l)' = In(l) BY <1>1 DEF In
  <2>3. /\ Attested(l)' = Attested(l) /\ Included(l)' = Included(l)
        /\ Refunded(l)' = Refunded(l) /\ Due(l)' = Due(l)
    BY <1>1, <2>2 DEF Attested, Included, Refunded, Due
  <2>4. /\ SumOver(TicketsAt', In(l)') = SumOver(TicketsAt, In(l))
        /\ SumOver(TicketsAt', Due(l)') = SumOver(TicketsAt, Due(l))
    BY <1>4, <2>2, <2>3, Zenon
  <2>5. Shaped(l)' BY <1>1, <2>1 DEF Sound, Shaped
  <2>6. Staged(l)' BY <1>1, <2>1 DEF Sound, Staged
  <2>7. ASSUME store[l] # NoData PROVE Counted(l)' /\ Backed(l)'
    <3>1. Counted(l) /\ Backed(l) BY <2>1, <2>7 DEF Sound
    <3>2. Counted(l)' BY <1>1, <2>2, <2>3, <2>4, <3>1 DEF Counted
    <3>3. Backed(l)' BY <1>1, <2>3, <2>4, <3>1 DEF Backed
    <3> QED BY <3>2, <3>3
  <2> QED BY <1>1, <2>5, <2>6, <2>7 DEF Sound
<1>6. Settled'
  <2> SUFFICES ASSUME NEW w \in Wallet PROVE purse'[w] = SumOver(Balances(w)', Opened')
    BY DEF Settled
  <2>1. \A l \in Lotteries : Balance(l, w)' = Balance(l, w) BY <1>1 DEF Balance
  <2>2. Balances(w)' = Balances(w) BY <2>1 DEF Balances
  <2>3. SumOver(Balances(w)', Opened') = SumOver(Balances(w), Opened)
    BY <1>3, <2>2, Zenon
  <2> QED BY <1>1, <2>3 DEF IInv, Settled
<1>7. IsFiniteSet(Opened') BY <1>3 DEF IInv
<1> QED BY <1>2, <1>5, <1>6, <1>7 DEF IInv

(* The invariant holds in every state of every behaviour.                  *)
LEMMA Invariance == Spec => []IInv
<1>1. IInv /\ [Next]_vars => IInv'
  BY NextSteps, StepKeeps, StutterKeeps
<1> QED BY <1>1, InitKeeps, PTL DEF Spec

(***************************************************************************)
(* The theorems.                                                           *)
(***************************************************************************)
(* The sums in the properties are sums of TicketsAt and of Balances.       *)
LEMMA TicketsAre ==
  ASSUME NEW S, S \subseteq Participants, IsFiniteSet(S)
  PROVE  MapThenSumSet(LAMBDA a : store[a].tickets_bought, S) = SumOver(TicketsAt, S)
<1> DEFINE P(iter) == iter = [s \in SUBSET S |->
      IF s = {} THEN 0
      ELSE LET x == CHOOSE x \in s : TRUE IN store[x].tickets_bought + iter[s \ {x}]]
<1>1. MapThenSumSet(LAMBDA a : store[a].tickets_bought, S) = (CHOOSE iter : P(iter))[S]
  BY DEF MapThenSumSet, MapThenFoldSet
<1>2. \A iter : P(iter) <=> IsSum(iter, TicketsAt, S)
  <2> SUFFICES ASSUME NEW iter PROVE P(iter) <=> IsSum(iter, TicketsAt, S) OBVIOUS
  <2>1. \A s \in SUBSET S : s # {} => TicketsAt[FirstOf(s)] = store[FirstOf(s)].tickets_bought
    BY FirstOfIn DEF TicketsAt
  <2> QED BY <2>1 DEF IsSum, Unfolded, FirstOf
<1>3. PICK g : IsSum(g, TicketsAt, S) /\ SumOver(TicketsAt, S) = g[S] BY SumOverIsSum
<1> DEFINE G == CHOOSE iter : P(iter)
<1>4. P(G)
  <2>1. P(g) BY <1>2, <1>3
  <2> HIDE DEF P
  <2> QED BY <2>1
<1>5. IsSum(G, TicketsAt, S) BY <1>2, <1>4
<1>6. G[S] = g[S] BY <1>3, <1>5, SumUnique
<1> QED BY <1>1, <1>3, <1>6

(* The sum of a wallet's balances over lotteries is one of Balances.       *)
LEMMA BalancesAre ==
  ASSUME NEW w \in Wallet, NEW S, S \subseteq Lotteries, IsFiniteSet(S)
  PROVE  MapThenSumSet(LAMBDA l : Balance(l, w), S) = SumOver(Balances(w), S)
<1> DEFINE P(iter) == iter = [s \in SUBSET S |->
      IF s = {} THEN 0
      ELSE LET x == CHOOSE x \in s : TRUE IN Balance(x, w) + iter[s \ {x}]]
           f == Balances(w)
<1>1. MapThenSumSet(LAMBDA l : Balance(l, w), S) = (CHOOSE iter : P(iter))[S]
  BY DEF MapThenSumSet, MapThenFoldSet
<1>2. \A iter : P(iter) <=> IsSum(iter, f, S)
  <2> SUFFICES ASSUME NEW iter PROVE P(iter) <=> IsSum(iter, f, S) OBVIOUS
  <2>1. \A s \in SUBSET S : s # {} => f[FirstOf(s)] = Balance(FirstOf(s), w)
    BY FirstOfIn DEF Balances
  <2> QED BY <2>1 DEF IsSum, Unfolded, FirstOf
<1> HIDE DEF f
<1>3. PICK g : IsSum(g, f, S) /\ SumOver(f, S) = g[S] BY SumOverIsSum
<1> DEFINE G == CHOOSE iter : P(iter)
<1>4. P(G)
  <2>1. P(g) BY <1>2, <1>3
  <2> HIDE DEF P
  <2> QED BY <2>1
<1>5. IsSum(G, f, S) BY <1>2, <1>4
<1>6. G[S] = g[S] BY <1>3, <1>5, SumUnique
<1> QED BY <1>1, <1>3, <1>6 DEF f

(* The lotteries that are open.                                            *)
LEMMA OpenedIs ==
  ASSUME IInv, NEW l \in Opened
  PROVE  /\ l \in Lotteries /\ store[l] \in LotteryRecord(l)
         /\ Shaped(l) /\ Staged(l) /\ Counted(l) /\ Backed(l)
         /\ In(l) \subseteq Participants /\ IsFiniteSet(In(l))
<1>1. l \in Lotteries /\ store[l].type # "None" BY DEF Opened
<1>2. store[l] \in LotteryRecord(l) BY <1>1 DEF IInv, Sound, Shaped, NoData
<1>3. Shaped(l) /\ Staged(l) /\ Counted(l) /\ Backed(l) BY <1>1, <1>2, OpenIs
<1> QED BY <1>1, <1>2, <1>3, InIs DEF Counted

(* Whatever accounts calls are given, for any number of lotteries and      *)
(* wallets, the links in an account's data are the seeds of its address.   *)
(* The handlers that check only one of the two rely on it.                 *)
THEOREM AccountsLinked == Spec => []LinksMatch
<1>1. ASSUME IInv PROVE LinksMatch
  <2>1. ASSUME NEW l \in Opened
        PROVE  /\ store[l].type = "Lottery"
               /\ l = derive_lottery_pda(store[l].config, store[l].id)
               /\ store[l].vault = derive_vault_pda(l)
    <3>1. l \in Lotteries /\ store[l] \in LotteryRecord(l) BY <1>1, OpenedIs
    <3>2. l = derive_lottery_pda(derive_config_pda, l[3]) BY <3>1, Seeds
    <3>3. /\ store[l].type = "Lottery" /\ store[l].config = derive_config_pda
          /\ store[l].id = l[3] /\ store[l].vault = derive_vault_pda(l)
      BY <3>1, LotteryFields
    <3> QED BY <3>2, <3>3
  <2>2. ASSUME NEW a \in Participants, store[a].type # "None"
        PROVE  /\ store[a].type = "Participant"
               /\ a = derive_participant_pda(store[a].lottery, store[a].wallet)
    <3>1. a[2] \in Lotteries /\ a \in Members(a[2]) BY MemberOf
    <3>2. a = derive_participant_pda(a[2], a[3]) BY <3>1, MemberIs
    <3>3. store[a] \in ParticipantRecord(a)
      BY <1>1, <2>2, <3>1 DEF IInv, Sound, Shaped, NoData
    <3>4. store[a].type = "Participant" /\ store[a].lottery = a[2] /\ store[a].wallet = a[3]
      BY <3>3, ParticipantFields
    <3> QED BY <3>2, <3>4
  <2>3. ASSUME NEW l \in Lotteries
        PROVE  /\ store[derive_vault_pda(l)].type \in {"None", "Vault"}
               /\ store[derive_vote_tally_pda(l)] # NoData
                    => /\ store[derive_vote_tally_pda(l)].type = "VoteTally"
                       /\ store[derive_vote_tally_pda(l)].lottery = l
               /\ store[derive_winner_page_pda(l, 0)] # NoData
                    => /\ store[derive_winner_page_pda(l, 0)].type = "WinnerPage"
                       /\ store[derive_winner_page_pda(l, 0)].lottery = l
    <3>1. Shaped(l) BY <1>1 DEF IInv, Sound
    <3>2. store[derive_vault_pda(l)].type \in {"None", "Vault"}
      BY <3>1 DEF Shaped, NoData, NewVault
    <3>3. \A d \in TallyRecord(l) : d.type = "VoteTally" /\ d.lottery = l
      BY DEF TallyRecord
    <3>4. \A d \in PageRecord(l) : d.type = "WinnerPage" /\ d.lottery = l
      BY PageFields
    <3> QED BY <3>1, <3>2, <3>3, <3>4 DEF Shaped
  <2> QED BY <2>1, <2>2, <2>3 DEF LinksMatch
<1> QED BY <1>1, Invariance, PTL

(* Every lottery counts its own participants, tickets, attestations,       *)
(* reveals and refunds, and books winners among them only.                 *)
THEOREM CountersOwned == Spec => []CountsOwn
<1>1. ASSUME IInv PROVE CountsOwn
  <2> SUFFICES ASSUME NEW l \in Opened
      PROVE  /\ store[l].participants_count = Cardinality(In(l))
             /\ store[l].total_tickets
                  = MapThenSumSet(LAMBDA a : store[a].tickets_bought, In(l))
             /\ store[l].attested_count = Cardinality({ a \in In(l) : store[a].attested_uploaded })
             /\ store[l].provider_uploaded_count
                  = Cardinality({ a \in In(l) : store[a].reveal_included })
             /\ store[l].settlement_batches_completed
                  = Cardinality({ a \in In(l) : store[a].refund_claimed })
             /\ store[derive_winner_page_pda(l, 0)] # NoData =>
                  \A w \in store[derive_winner_page_pda(l, 0)].entries :
                    store[derive_participant_pda(l, w)].reveal_included
    BY DEF CountsOwn
  <2>1. /\ l \in Lotteries /\ Shaped(l) /\ Staged(l) /\ Counted(l)
        /\ In(l) \subseteq Participants /\ IsFiniteSet(In(l))
    BY <1>1, OpenedIs
  <2>2. MapThenSumSet(LAMBDA a : store[a].tickets_bought, In(l)) = SumOver(TicketsAt, In(l))
    BY <2>1, TicketsAre
  <2>3. store[l].total_tickets = MapThenSumSet(LAMBDA a : store[a].tickets_bought, In(l))
    BY <2>1, <2>2 DEF Counted
  <2>4. /\ store[l].participants_count = Cardinality(In(l))
        /\ store[l].attested_count = Cardinality({ a \in In(l) : store[a].attested_uploaded })
        /\ store[l].provider_uploaded_count
             = Cardinality({ a \in In(l) : store[a].reveal_included })
        /\ store[l].settlement_batches_completed
             = Cardinality({ a \in In(l) : store[a].refund_claimed })
    BY <2>1 DEF Counted, Attested, Included, Refunded
  <2>5. ASSUME store[derive_winner_page_pda(l, 0)] # NoData,
               NEW w \in store[derive_winner_page_pda(l, 0)].entries
        PROVE  store[derive_participant_pda(l, w)].reveal_included
    <3>1. PICK a \in Members(l) :
            /\ store[a].reveal_included
            /\ store[derive_winner_page_pda(l, 0)].entries = {a[3]}
      BY <2>1, <2>5 DEF Staged
    <3>2. a = derive_participant_pda(l, w) BY <2>1, <2>5, <3>1, MemberIs
    <3> QED BY <3>1, <3>2
  <2> QED BY <2>3, <2>4, <2>5
<1> QED BY <1>1, Invariance, PTL

(* Every vault holds the rent and what its own lottery still owes, until   *)
(* the payout or the closing empties it.                                   *)
THEOREM VaultsBacked == Spec => []VaultBacks
<1>1. ASSUME IInv PROVE VaultBacks
  <2> SUFFICES ASSUME NEW l \in Opened
      PROVE  lamports[derive_vault_pda(l)] \in
               (IF store[l].stage = "paid"
                THEN {0}
                ELSE {Rent + MapThenSumSet(LAMBDA a : store[a].tickets_bought,
                                           { a \in In(l) : ~store[a].refund_claimed })}
                       \cup (IF /\ store[l].stage = "refunds"
                                /\ { a \in In(l) : ~store[a].refund_claimed } = {}
                             THEN {0} ELSE {}))
    BY DEF VaultBacks
  <2>1. /\ l \in Lotteries /\ Backed(l)
        /\ In(l) \subseteq Participants /\ IsFiniteSet(In(l))
    BY <1>1, OpenedIs
  <2>2. Due(l) \subseteq Participants /\ IsFiniteSet(Due(l))
    BY <2>1, FS_Subset DEF Due
  <2>3. MapThenSumSet(LAMBDA a : store[a].tickets_bought, Due(l)) = SumOver(TicketsAt, Due(l))
    BY <2>2, TicketsAre
  <2>4. lamports[derive_vault_pda(l)] \in
          (IF store[l].stage = "paid"
           THEN {0}
           ELSE {Rent + MapThenSumSet(LAMBDA a : store[a].tickets_bought, Due(l))}
                  \cup (IF store[l].stage = "refunds" /\ Due(l) = {} THEN {0} ELSE {}))
    BY <2>1, <2>3 DEF Backed
  <2> QED BY <2>4 DEF Due
<1> QED BY <1>1, Invariance, PTL

(* Every step of every behaviour writes to the accounts of one lottery and *)
(* moves the lamports of one vault.                                        *)
THEOREM CallsStayApart == Spec => OneLottery
<1>1. IInv /\ [Next]_vars =>
        [\E l \in Lotteries : \A x \in Address \ Of(l) :
           store'[x] = store[x] /\ lamports'[x] = lamports[x]]_vars
  BY NextSteps DEF Steps, Touches
<1> QED BY <1>1, Invariance, PTL DEF Spec, OneLottery

(* A wallet pays for its own accounts only and is paid for them only, over *)
(* all lotteries together.                                                 *)
THEOREM PursesTrail == Spec => []PurseTrail
<1>1. ASSUME IInv PROVE PurseTrail
  <2> SUFFICES ASSUME NEW w \in Wallet
               PROVE  purse[w] = MapThenSumSet(LAMBDA l : Balance(l, w), Opened)
    BY DEF PurseTrail
  <2>1. Opened \subseteq Lotteries /\ IsFiniteSet(Opened) BY <1>1 DEF IInv, Opened
  <2>2. MapThenSumSet(LAMBDA l : Balance(l, w), Opened) = SumOver(Balances(w), Opened)
    BY <2>1, BalancesAre
  <2> QED BY <1>1, <2>2 DEF IInv, Settled
<1> QED BY <1>1, Invariance, PTL

===============================================================================
