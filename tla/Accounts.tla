------------------------------- MODULE Accounts -------------------------------
(***************************************************************************)
(* Which accounts a call may be given (utils/pda.rs, utils/account.rs and  *)
(* the first lines of every handler).  Several lotteries run at once, each *)
(* call names the accounts it works on, and a client may name any: those   *)
(* of another lottery, of another wallet, or of another type.  Here every  *)
(* slot of a call is filled with every address, and the checks of the      *)
(* handler decide.                                                         *)
(*                                                                         *)
(* Abstractions.  An address is the list of seeds it is derived from, so   *)
(* two lists never give one address.  A round is what its accounts count:  *)
(* a lottery sells, then collects attestations, then refunds or shares out *)
(* to one winner; a ticket costs one lamport and there is no fee.  Round   *)
(* has the rest: windows, votes, draws, batches.                           *)
(***************************************************************************)
EXTENDS Integers, FiniteSets, FiniteSetsExt

CONSTANTS
  Wallet,        \* wallets that take part
  Authority,     \* Config::authority
  Id,            \* ids of the lotteries
  Rent,          \* lamports of an empty vault
  TicketBound    \* bound: tickets of a participant

ASSUME AccountsAssumption ==
  /\ Authority \notin Wallet
  /\ Rent \in Nat \ {0}
  /\ TicketBound \in Nat

VARIABLES
  store,         \* the data at every address
  lamports,      \* the lamports at every address, rent of others than vaults left out
  purse          \* lamports each wallet has got from the program, less those it gave

vars == <<store, lamports, purse>>

Signer == Wallet \cup {Authority}

(***************************************************************************)
(* Addresses.                                                              *)
(***************************************************************************)
derive_config_pda == <<"config">>

derive_lottery_pda(config, id) == <<"lottery", config, id>>

derive_vault_pda(lottery) == <<"vault", lottery>>

derive_participant_pda(lottery, wallet) == <<"participant", lottery, wallet>>

derive_vote_tally_pda(lottery) == <<"vote_tally", lottery>>

derive_finalization_ledger_pda(lottery) == <<"finalization_root_v2", lottery>>

derive_winner_page_pda(lottery, page_index) == <<"winner_page", lottery, page_index>>

Lotteries == { derive_lottery_pda(derive_config_pda, id) : id \in Id }

Participants == { derive_participant_pda(l, w) : l \in Lotteries, w \in Wallet }

Address ==
  {derive_config_pda} \cup Lotteries \cup Participants
    \cup UNION { { derive_vault_pda(l), derive_vote_tally_pda(l),
                   derive_finalization_ledger_pda(l), derive_winner_page_pda(l, 0) }
                 : l \in Lotteries }

(* A closed account has no data and is no longer owned by the program.     *)
Owned(address) == store[address].type # "None" /\ ~store[address].closed

(* Mutant: only the owner is compared.                                     *)
assert_owner(account, seeds) == Owned(account)

assert_pda_owned(account, seeds) == account = seeds /\ Owned(account)

(***************************************************************************)
(* Data.  type stands for the discriminator.                               *)
(***************************************************************************)
NoData == [type |-> "None", closed |-> FALSE]

Config == [type |-> "Config", closed |-> FALSE]

NewLottery(config, id, vault) ==
  [ type |-> "Lottery", closed |-> FALSE,
    config |-> config, id |-> id, vault |-> vault, stage |-> "selling",
    participants_count |-> 0, total_tickets |-> 0, attested_count |-> 0,
    provider_uploaded_count |-> 0, settlement_batches_completed |-> 0 ]

NewVault == [type |-> "Vault", closed |-> FALSE]

NewParticipant(lottery, wallet) ==
  [ type |-> "Participant", closed |-> FALSE,
    lottery |-> lottery, wallet |-> wallet, tickets_bought |-> 0,
    attested_uploaded |-> FALSE, reveal_included |-> FALSE, refund_claimed |-> FALSE ]

NewTally(lottery) ==
  [type |-> "VoteTally", closed |-> FALSE, lottery |-> lottery, processed_count |-> 0]

NewLedger(lottery) ==
  [type |-> "FinalizationLedger", closed |-> FALSE, lottery |-> lottery, selected_count |-> 0]

NewPage(lottery, page_index) ==
  [ type |-> "WinnerPage", closed |-> FALSE,
    lottery |-> lottery, page_index |-> page_index, entries |-> {}, paid |-> FALSE ]

(* What an account of another type may be read as: a value of the type     *)
(* asked for, with links that look right.  The types not listed are read   *)
(* only at an address already checked.                                     *)
Misread(type) ==
  CASE type = "Lottery" ->
         { [NewLottery(derive_config_pda, id,
                       derive_vault_pda(derive_lottery_pda(derive_config_pda, id)))
              EXCEPT !.stage = stage]
           : id \in Id, stage \in {"selling", "attesting", "refunds"} }
    [] type = "Participant" ->
         { [NewParticipant(l, w) EXCEPT !.tickets_bought = 1, !.attested_uploaded = attested]
           : l \in Lotteries, w \in Wallet, attested \in BOOLEAN }
    [] OTHER -> {}

(* read_account_data skips the discriminator without looking at it.        *)
read_account_data(address, type) ==
  IF ~Owned(address) THEN {}
  ELSE IF store[address].type = type THEN {store[address]}
  ELSE Misread(type)

(***************************************************************************)
(* The checks handlers share.                                              *)
(***************************************************************************)
(* The lottery a call is given: its address derives from the config given  *)
(* and from the id found in its own data.                                  *)
LotteryGiven ==
  UNION { { [config_ai |-> config_ai, lottery_ai |-> lottery_ai, lottery |-> lottery] :
              lottery \in { d \in read_account_data(lottery_ai, "Lottery") :
                  assert_pda_owned(lottery_ai, derive_lottery_pda(config_ai, d.id)) } }
          : config_ai \in { c \in Address : assert_pda_owned(c, derive_config_pda) },
            lottery_ai \in Address }

(* The round is at this stage.                                             *)
GivenAt(stage) == { g \in LotteryGiven : g.lottery.stage = stage }

(* Mutant: any vault will do.                                              *)
SomeVault(g) == { v \in Address : Owned(v) /\ store[v].type = "Vault" }

VaultGiven(g) ==
  { v \in Address : assert_pda_owned(v, derive_vault_pda(g.lottery_ai)) /\ v = g.lottery.vault }

(* Mutant: the participant's own word for its wallet is taken.             *)
SomeAccountOf(g, wallet) ==
  UNION { { [participant_ai |-> a, participant |-> p] :
              p \in { d \in read_account_data(a, "Participant") : d.wallet = wallet } }
          : a \in Address }

(* Mutant: the account may be that of another wallet than the signer.      *)
UnsignedAccountOf(g, wallet) ==
  UNION { { [participant_ai |-> a, participant |-> p] :
              p \in { d \in read_account_data(a, "Participant") :
                  assert_pda_owned(a, derive_participant_pda(g.lottery_ai, d.wallet)) } }
          : a \in Address }

(* The account of the wallet that signs.                                   *)
AccountOf(g, wallet) ==
  UNION { { [participant_ai |-> a, participant |-> p] :
              p \in { d \in read_account_data(a, "Participant") :
                  /\ assert_pda_owned(a, derive_participant_pda(g.lottery_ai, wallet))
                  /\ d.wallet = wallet } }
          : a \in Address }

(* Mutant: an account that says it is of this lottery is taken as such.    *)
SomeAccountIn(g) ==
  UNION { { [participant_ai |-> a, participant |-> p] :
              p \in { d \in read_account_data(a, "Participant") : d.lottery = g.lottery_ai } }
          : a \in Address }

(* An account of any wallet, when nobody needs to sign for it.             *)
AccountIn(g) ==
  UNION { { [participant_ai |-> a, participant |-> p] :
              p \in { d \in read_account_data(a, "Participant") :
                  /\ assert_pda_owned(a, derive_participant_pda(g.lottery_ai, d.wallet))
                  /\ d.lottery = g.lottery_ai } }
          : a \in Address }

(* An account at this address, opened if there is none.                    *)
Loaded(address, new) ==
  IF Owned(address)
  THEN { d \in read_account_data(address, new.type) : d.lottery = new.lottery }
  ELSE {new}

(***************************************************************************)
(* The instructions.                                                       *)
(***************************************************************************)
(* The id is one more than the lotteries counted (Registry), so it is new: *)
(* the branches for accounts that exist already are never taken.           *)
CreateLottery ==
  \E id \in Id :
    LET lottery_ai == derive_lottery_pda(derive_config_pda, id)
        vault_ai   == derive_vault_pda(lottery_ai)
    IN  /\ ~Owned(lottery_ai) /\ ~Owned(vault_ai)
        /\ store' = [store EXCEPT
             ![lottery_ai] = NewLottery(derive_config_pda, id, vault_ai),
             ![vault_ai]   = NewVault]
        /\ lamports' = [lamports EXCEPT ![vault_ai] = Rent]
        /\ UNCHANGED purse

BuyTickets ==
  \E g \in GivenAt("selling") : \E vault_ai \in VaultGiven(g), buyer \in Wallet, a \in Address :
    /\ g.lottery.config = g.config_ai
    /\ a = derive_participant_pda(g.lottery_ai, buyer)
    /\ \E p \in Loaded(a, NewParticipant(g.lottery_ai, buyer)) :
         /\ p.wallet = buyer
         /\ p.tickets_bought < TicketBound
         /\ store' = [store EXCEPT
              ![a]            = [p EXCEPT !.tickets_bought = @ + 1],
              ![g.lottery_ai] = [g.lottery EXCEPT
                                   !.participants_count = @ + (IF Owned(a) THEN 0 ELSE 1),
                                   !.total_tickets      = @ + 1]]
    /\ lamports' = [lamports EXCEPT ![vault_ai] = @ + 1]
    /\ purse' = [purse EXCEPT ![buyer] = @ - 1]

(* BeginRevealPhase looks at the config the lottery names, not at the one  *)
(* it is given.                                                            *)
BeginReveal ==
  \E config_ai \in Address, signer \in Signer :
    /\ assert_pda_owned(config_ai, derive_config_pda)
    /\ signer = Authority
    /\ \E lottery_ai \in Address : \E lottery \in read_account_data(lottery_ai, "Lottery") :
         /\ lottery_ai = derive_lottery_pda(lottery.config, lottery.id)
         /\ lottery.stage = "selling"
         /\ store' = [store EXCEPT ![lottery_ai] = [lottery EXCEPT !.stage = "attesting"]]
    /\ UNCHANGED <<lamports, purse>>

(* The clock passes the end of the buy window.                             *)
BuyWindowEnds ==
  \E l \in Lotteries :
    /\ Owned(l) /\ store[l].stage = "selling"
    /\ store' = [store EXCEPT ![l].stage = "attesting"]
    /\ UNCHANGED <<lamports, purse>>

AttestUploaded ==
  \E g \in GivenAt("attesting") : \E wallet \in Wallet : \E given \in AccountOf(g, wallet) :
    LET p == given.participant
    IN  /\ p.tickets_bought > 0 /\ ~p.attested_uploaded
        /\ store' = [store EXCEPT
             ![given.participant_ai] = [p EXCEPT !.attested_uploaded = TRUE],
             ![g.lottery_ai]         = [g.lottery EXCEPT !.attested_count = @ + 1]]
        /\ UNCHANGED <<lamports, purse>>

AttestReveal ==
  \E g \in GivenAt("attesting") : \E wallet \in Wallet : \E given \in AccountOf(g, wallet) :
    LET p        == given.participant
        tally_ai == derive_vote_tally_pda(g.lottery_ai)
    IN  /\ g.lottery.config = g.config_ai
        /\ p.lottery = g.lottery_ai
        /\ p.tickets_bought > 0 /\ ~p.attested_uploaded /\ ~p.reveal_included
        /\ \E tally \in Loaded(tally_ai, NewTally(g.lottery_ai)) :
             store' = [store EXCEPT
               ![given.participant_ai] = [p EXCEPT !.attested_uploaded = TRUE,
                                                   !.reveal_included   = TRUE],
               ![g.lottery_ai] = [g.lottery EXCEPT !.attested_count          = @ + 1,
                                                   !.provider_uploaded_count = @ + 1],
               ![tally_ai]     = [tally EXCEPT !.processed_count = @ + 1]]
        /\ UNCHANGED <<lamports, purse>>

(* The only handler that looks at the discriminator of what it reads.      *)
UploadReveals ==
  \E g \in GivenAt("attesting") : \E given \in AccountIn(g) :
    LET p        == given.participant
        tally_ai == derive_vote_tally_pda(g.lottery_ai)
    IN  /\ store[g.config_ai].type = "Config" /\ store[g.lottery_ai].type = "Lottery"
        /\ g.lottery.config = g.config_ai
        /\ p.attested_uploaded /\ ~p.reveal_included
        /\ \E tally \in Loaded(tally_ai, NewTally(g.lottery_ai)) :
             store' = [store EXCEPT
               ![given.participant_ai] = [p EXCEPT !.reveal_included = TRUE],
               ![g.lottery_ai]         = [g.lottery EXCEPT !.provider_uploaded_count = @ + 1],
               ![tally_ai]             = [tally EXCEPT !.processed_count = @ + 1]]
        /\ UNCHANGED <<lamports, purse>>

(* All passes in one: some included participant is booked on the page.     *)
FinalizeWinners ==
  \E g \in GivenAt("attesting") : \E vault_ai \in VaultGiven(g), given \in AccountIn(g) :
    LET ledger_ai == derive_finalization_ledger_pda(g.lottery_ai)
        page_ai   == derive_winner_page_pda(g.lottery_ai, 0)
    IN  /\ g.lottery.participants_count > 1
        /\ g.lottery.attested_count # 0
        /\ g.lottery.provider_uploaded_count >= g.lottery.attested_count
        /\ given.participant.reveal_included
        /\ \E ledger \in Loaded(ledger_ai, NewLedger(g.lottery_ai)),
              page \in Loaded(page_ai, NewPage(g.lottery_ai, 0)) :
             /\ page.page_index = 0
             /\ store' = [store EXCEPT
                  ![ledger_ai]    = [ledger EXCEPT !.selected_count = @ + 1],
                  ![page_ai]      = [page EXCEPT !.entries = @ \cup {given.participant.wallet}],
                  ![g.lottery_ai] = [g.lottery EXCEPT !.stage = "shares"]]
        /\ UNCHANGED <<lamports, purse>>

(* Neither the lottery's link to the config nor its link to the vault is   *)
(* looked at: the derived addresses do.                                    *)
SettlePayoutBatch ==
  \E g \in GivenAt("shares"), vault_ai, page_ai \in Address, authority \in Signer :
    /\ assert_pda_owned(vault_ai, derive_vault_pda(g.lottery_ai))
    /\ authority = Authority
    /\ assert_pda_owned(page_ai, derive_winner_page_pda(g.lottery_ai, 0))
    /\ \E page \in read_account_data(page_ai, "WinnerPage") : \E winner \in page.entries :
         /\ page.lottery = g.lottery_ai /\ page.page_index = 0
         /\ ~page.paid
         /\ lamports[vault_ai] >= g.lottery.total_tickets
         /\ store' = [store EXCEPT ![page_ai]      = [page EXCEPT !.paid = TRUE],
                                   ![g.lottery_ai] = [g.lottery EXCEPT !.stage = "paid"]]
         /\ purse' = [purse EXCEPT
              ![winner]    = @ + g.lottery.total_tickets,
              ![authority] = @ + lamports[vault_ai] - g.lottery.total_tickets]
    /\ lamports' = [lamports EXCEPT ![vault_ai] = 0]

FinalizeNoAttesters ==
  \E g \in GivenAt("attesting") : \E vault_ai \in VaultGiven(g), authority \in Signer :
    /\ authority = Authority
    /\ \/ g.lottery.attested_count = 0
       \/ g.lottery.provider_uploaded_count < g.lottery.attested_count
    /\ store' = [store EXCEPT ![g.lottery_ai] = [g.lottery EXCEPT !.stage = "refunds"]]
    /\ UNCHANGED <<lamports, purse>>

ClaimRefund ==
  \E g \in GivenAt("refunds") : \E vault_ai \in VaultGiven(g), wallet \in Wallet :
    \E given \in AccountOf(g, wallet) :
      LET p == given.participant
      IN  /\ g.lottery.config = g.config_ai
          /\ p.lottery = g.lottery_ai
          /\ p.tickets_bought > 0 /\ ~p.refund_claimed
          /\ lamports[vault_ai] >= p.tickets_bought
          /\ store' = [store EXCEPT
               ![given.participant_ai] = [p EXCEPT !.refund_claimed = TRUE],
               ![g.lottery_ai] = [g.lottery EXCEPT !.settlement_batches_completed = @ + 1]]
          /\ lamports' = [lamports EXCEPT ![vault_ai] = @ - p.tickets_bought]
          /\ purse' = [purse EXCEPT ![wallet] = @ + p.tickets_bought]

CloseRefundVault ==
  \E g \in GivenAt("refunds") : \E vault_ai \in VaultGiven(g), authority \in Signer :
    /\ g.lottery.config = g.config_ai
    /\ authority = Authority
    /\ g.lottery.settlement_batches_completed >= g.lottery.participants_count
    /\ lamports[vault_ai] # 0
    /\ lamports' = [lamports EXCEPT ![vault_ai] = 0]
    /\ purse' = [purse EXCEPT ![authority] = @ + lamports[vault_ai]]
    /\ UNCHANGED store

CloseParticipant ==
  \E g \in LotteryGiven : \E wallet \in Wallet : \E given \in AccountOf(g, wallet) :
    /\ g.lottery.config = g.config_ai
    /\ given.participant.lottery = g.lottery_ai
    /\ \/ g.lottery.stage = "refunds" /\ given.participant.refund_claimed
       \/ g.lottery.stage = "paid"
    /\ store' = [store EXCEPT ![given.participant_ai].closed = TRUE]
    /\ UNCHANGED <<lamports, purse>>

Init ==
  /\ store = [a \in Address |-> IF a = derive_config_pda THEN Config ELSE NoData]
  /\ lamports = [a \in Address |-> 0]
  /\ purse = [r \in Signer |-> 0]

Next ==
  \/ CreateLottery \/ BuyTickets \/ BeginReveal \/ BuyWindowEnds
  \/ AttestUploaded \/ AttestReveal \/ UploadReveals
  \/ FinalizeWinners \/ SettlePayoutBatch
  \/ FinalizeNoAttesters \/ ClaimRefund \/ CloseRefundVault \/ CloseParticipant

Spec == Init /\ [][Next]_vars

(***************************************************************************)
(* Properties.                                                             *)
(***************************************************************************)
Opened == { l \in Lotteries : store[l].type # "None" }

(* The participant accounts of lottery l, closed ones included.            *)
In(l) == { a \in Participants : store[a].type # "None" /\ a[2] = l }

(* The addresses of the participants of lottery l, and all its addresses.  *)
Members(l) == { derive_participant_pda(l, w) : w \in Wallet }

Of(l) ==
  {l, derive_vault_pda(l), derive_vote_tally_pda(l),
   derive_finalization_ledger_pda(l), derive_winner_page_pda(l, 0)} \cup Members(l)

(* Whatever accounts a call is given, an account holds data of the type    *)
(* its address was derived for, and the links in its data are the seeds of *)
(* its address.  This is why handlers that check only one of the two, and  *)
(* read before they check, still work on the accounts they mean.           *)
LinksMatch ==
  /\ \A l \in Opened : /\ store[l].type = "Lottery"
                       /\ l = derive_lottery_pda(store[l].config, store[l].id)
                       /\ store[l].vault = derive_vault_pda(l)
  /\ \A a \in Participants : store[a].type # "None" =>
       /\ store[a].type = "Participant"
       /\ a = derive_participant_pda(store[a].lottery, store[a].wallet)
  /\ \A l \in Lotteries :
       /\ store[derive_vault_pda(l)].type \in {"None", "Vault"}
       /\ store[derive_vote_tally_pda(l)] # NoData
            => /\ store[derive_vote_tally_pda(l)].type = "VoteTally"
               /\ store[derive_vote_tally_pda(l)].lottery = l
       /\ store[derive_winner_page_pda(l, 0)] # NoData
            => /\ store[derive_winner_page_pda(l, 0)].type = "WinnerPage"
               /\ store[derive_winner_page_pda(l, 0)].lottery = l

(* Every lottery counts its own participants and nobody else's: no call    *)
(* moves the counters of one lottery by the account of another.            *)
CountsOwn ==
  \A l \in Opened :
    /\ store[l].participants_count = Cardinality(In(l))
    /\ store[l].total_tickets = MapThenSumSet(LAMBDA a : store[a].tickets_bought, In(l))
    /\ store[l].attested_count = Cardinality({ a \in In(l) : store[a].attested_uploaded })
    /\ store[l].provider_uploaded_count = Cardinality({ a \in In(l) : store[a].reveal_included })
    /\ store[l].settlement_batches_completed
         = Cardinality({ a \in In(l) : store[a].refund_claimed })
    /\ store[derive_winner_page_pda(l, 0)] # NoData =>
         \A w \in store[derive_winner_page_pda(l, 0)].entries :
           store[derive_participant_pda(l, w)].reveal_included

(* Every vault holds the rent and what its own lottery still owes, until   *)
(* it is emptied for good.                                                 *)
VaultBacks ==
  \A l \in Opened :
    LET due == { a \in In(l) : ~store[a].refund_claimed }
    IN  lamports[derive_vault_pda(l)] \in
          (IF store[l].stage = "paid"
           THEN {0}
           ELSE {Rent + MapThenSumSet(LAMBDA a : store[a].tickets_bought, due)}
                  \cup (IF store[l].stage = "refunds" /\ due = {} THEN {0} ELSE {}))

(* A call works for one lottery: with the accounts of several mixed in its *)
(* slots, it is refused or still writes to those of one lottery only, and  *)
(* moves lamports of one vault only.                                       *)
OneLottery ==
  [][\E l \in Lotteries : \A x \in Address \ Of(l) :
       store'[x] = store[x] /\ lamports'[x] = lamports[x]]_vars

(* A wallet pays for its own accounts only and is paid for them only: the  *)
(* lamports that moved between it and the program are the tickets, refunds *)
(* and shares that its accounts show.                                      *)
Balance(l, w) ==
  LET a    == derive_participant_pda(l, w)
      page == derive_winner_page_pda(l, 0)
  IN  (IF store[a].type = "None" \/ store[a].refund_claimed
       THEN 0 ELSE -store[a].tickets_bought)
      + (IF store[page] # NoData /\ store[page].paid /\ w \in store[page].entries
         THEN store[l].total_tickets ELSE 0)

PurseTrail ==
  \A w \in Wallet : purse[w] = MapThenSumSet(LAMBDA l : Balance(l, w), Opened)

===============================================================================
