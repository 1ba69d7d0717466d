------------------------------ MODULE RoundState ------------------------------
(***************************************************************************)
(* The accounts of one lottery round, and the predicates the program       *)
(* derives from them (state/lottery.rs, state/participant.rs,              *)
(* state/finalization_ledger.rs).  Every instruction of the program is one *)
(* atomic transaction on these accounts: an error reverts it, so a failing *)
(* call is an action that is not enabled.                                  *)
(*                                                                         *)
(* Abstractions.  A verified reveal is identified with its wallet: the     *)
(* proof-of-chance hash fixes the plaintext, so the digest folded into     *)
(* poc_aggregate_hash is a function of the wallet, and an XOR of digests   *)
(* is a symmetric difference of sets of wallets.  A bitmap is the set of   *)
(* its raised bits.  A hash chain that absorbs entries in index order is   *)
(* the set of the entries absorbed.                                        *)
(***************************************************************************)
EXTENDS LotteryRules, FiniteSets, FiniteSetsExt, Sequences

CONSTANTS
  Wallet,               \* the wallets that may take part
  NoWallet,             \* Pubkey::default()
  TicketPrice,          \* lamports per ticket, snapshotted by CreateLottery
  ServiceChargeBps,     \* fee in basis points, snapshotted by CreateLottery
  MaxWinnersCap,        \* Config::max_winners_cap
  MAX_PARTICIPANTS,     \* cap on the participants of a round
  WINNERS_PER_PAGE,     \* entries of a winner page
  BuyWindow,            \* created_at .. buy_deadline (24 hours)
  UploadWindow,         \* buy_deadline .. upload_deadline (24 hours)
  ConfigUploadWindow,   \* Config::upload_window_secs
  RemediationWindow,    \* DEFAULT_REMEDIATION_WINDOW_SECS
  AllowEarlyUpload,     \* the build feature allow-early-upload
  VaultRent,            \* lamports of an empty vault
  U64_MAX, U32_MAX      \* largest values of the Rust integers

(* The configured authority, as a recipient of lamports: a role of its own,  *)
(* whoever holds the key.                                                    *)
Authority == "authority"

ASSUME RoundAssumption ==
  /\ IsFiniteSet(Wallet)
  /\ NoWallet \notin Wallet
  /\ Authority \notin Wallet
  /\ TicketPrice \in Nat
  /\ ServiceChargeBps \in 0..9999
  /\ MaxWinnersCap \in 1..MAX_WINNERS
  /\ MAX_PARTICIPANTS \in Nat
  /\ WINNERS_PER_PAGE \in Nat \ {0}
  /\ BuyWindow \in Nat \ {0}
  /\ UploadWindow \in Nat \ {0}
  /\ ConfigUploadWindow \in Nat \ {0}
  /\ RemediationWindow \in Nat \ {0}
  /\ AllowEarlyUpload \in BOOLEAN
  /\ VaultRent \in Nat \ {0}
  /\ U64_MAX \in Nat
  /\ U32_MAX \in Nat

VARIABLES
  now,          \* unix_timestamp of the Clock sysvar
  lottery,      \* the Lottery account
  participant,  \* the Participant account of each wallet
  tally,        \* the VoteTally account
  root,         \* the FinalizationLedger account
  pages,        \* the WinnerPage accounts
  vault,        \* lamports of the Vault account
  received      \* lamports the program has paid to each wallet and to the authority

vars == <<now, lottery, participant, tally, root, pages, vault, received>>

Recipient == Wallet \cup {Authority}

U64 == 0..U64_MAX

(* Mutant: arithmetic whose overflow goes unnoticed.                       *)
Unchecked(results) == results \subseteq Nat

(* checked_add and checked_mul: an instruction with a result that does not *)
(* fit fails with MathOverflow.                                            *)
Checked(results) == results \subseteq U64

CreatedAt == 1

BuyDeadline == CreatedAt + BuyWindow

(***************************************************************************)
(* The accounts.                                                           *)
(***************************************************************************)
LotteryAccount ==
  [ participants_count           : U64,
    total_tickets                : U64,
    total_funds                  : U64,
    upload_start_unix            : Nat,
    upload_deadline_unix         : Nat,
    settlement_start_unix        : Nat,
    attested_count               : Nat,
    provider_uploaded_count      : Nat,
    uploads_complete             : BOOLEAN,
    poc_aggregate_hash           : SUBSET (Wallet \cup {NoWallet}),
    selected_number_of_winners   : Nat,
    remediation_start_unix       : Nat,
    remediation_deadline_unix    : Nat,
    winners_count                : Nat,
    total_payout                 : U64,
    paid_winners_bitmap          : SUBSET Nat,
    settlement_batches_completed : Nat,
    settlement_complete          : BOOLEAN,
    settled                      : BOOLEAN ]

NewLottery ==
  [ participants_count           |-> 0,
    total_tickets                |-> 0,
    total_funds                  |-> 0,
    upload_start_unix            |-> BuyDeadline,
    upload_deadline_unix         |-> BuyDeadline + UploadWindow,
    settlement_start_unix        |-> 0,
    attested_count               |-> 0,
    provider_uploaded_count      |-> 0,
    uploads_complete             |-> FALSE,
    poc_aggregate_hash           |-> {},
    selected_number_of_winners   |-> 1,
    remediation_start_unix       |-> 0,
    remediation_deadline_unix    |-> 0,
    winners_count                |-> 0,
    total_payout                 |-> 0,
    paid_winners_bitmap          |-> {},
    settlement_batches_completed |-> 0,
    settlement_complete          |-> FALSE,
    settled                      |-> FALSE ]

(* status tells an account never opened from one opened and from one       *)
(* closed; the program sees no data in the first and in the last.  The     *)
(* three flag bits of voted_number_of_winners are fields of their own, and *)
(* generation 1, the only one, makes the two generation marks Booleans.    *)
ParticipantAccount ==
  [ status              : {"none", "open", "closed"},
    participant_index   : Nat,
    tickets_bought      : U64,
    attested_uploaded   : BOOLEAN,
    attested_at_unix    : Nat,
    voted_winners       : Nat,
    reveal_included     : BOOLEAN,
    refund_claimed      : BOOLEAN,
    finalized           : BOOLEAN,
    selected            : BOOLEAN ]

NewParticipant(status, index) ==
  [ status              |-> status,
    participant_index   |-> index,
    tickets_bought      |-> 0,
    attested_uploaded   |-> FALSE,
    attested_at_unix    |-> 0,
    voted_winners       |-> 0,
    reveal_included     |-> FALSE,
    refund_claimed      |-> FALSE,
    finalized           |-> FALSE,
    selected            |-> FALSE ]

PoolEntry == [index : Nat, wallet : Wallet, tickets : U64]

Seed == [eligible : U64, tickets : U64,
         aggregate : SUBSET (Wallet \cup {NoWallet}), pool : SUBSET PoolEntry]

FinalizationLedger ==
  [ phase                        : {"absent", "aggregating", "selecting", "completed"},
    required_count               : Nat,
    processed_count              : Nat,
    eligible_count               : U64,
    total_eligible_tickets       : U64,
    participants_commitment      : SUBSET PoolEntry,
    seed                         : Seed,
    target_winners               : Nat,
    selected_count               : Nat,
    selected_tickets_total       : U64,
    round_processed_count        : Nat,
    round_remaining_tickets_seen : U64,
    round_draw_index             : Nat,
    pending_winner               : Wallet \cup {NoWallet},
    pending_winner_tickets       : U64,
    pending_winner_found         : BOOLEAN ]

NoSeed == [eligible |-> 0, tickets |-> 0, aggregate |-> {}, pool |-> {}]

NewLedger(phase, required) ==
  [ phase                        |-> phase,
    required_count               |-> required,
    processed_count              |-> 0,
    eligible_count               |-> 0,
    total_eligible_tickets       |-> 0,
    participants_commitment      |-> {},
    seed                         |-> NoSeed,
    target_winners               |-> 0,
    selected_count               |-> 0,
    selected_tickets_total       |-> 0,
    round_processed_count        |-> 0,
    round_remaining_tickets_seen |-> 0,
    round_draw_index             |-> 0,
    pending_winner               |-> NoWallet,
    pending_winner_tickets       |-> 0,
    pending_winner_found         |-> FALSE ]

SelectedWinner == [wallet : Wallet, tickets : U64]

(* A page is created when its first winner is appended: an empty one does  *)
(* not exist.                                                              *)
WinnerPage == [entries : Seq(SelectedWinner), paid : SUBSET Nat]

PageIndex == 0..(MaxWinnersCap - 1) \div WINNERS_PER_PAGE

NoPage == [entries |-> <<>>, paid |-> {}]

(***************************************************************************)
(* Predicates of the Lottery account.                                      *)
(***************************************************************************)
UploadStarted == lottery.upload_start_unix > 0 /\ now >= lottery.upload_start_unix

UploadElapsed ==
  lottery.upload_deadline_unix > 0 /\ now > lottery.upload_deadline_unix

(* Mutant: an early upload does not end the buy window.                    *)
InScheduledBuyWindow == now >= CreatedAt /\ now < BuyDeadline

InBuyWindow == ~UploadStarted /\ now >= CreatedAt /\ now < BuyDeadline

(* Mutant: the last missing reveal is not waited for.                      *)
MissingTwoReveals ==
  /\ lottery.attested_count > 0
  /\ lottery.provider_uploaded_count + 1 < lottery.attested_count

MissingAttestedReveals ==
  /\ lottery.attested_count > 0
  /\ lottery.provider_uploaded_count < lottery.attested_count

RemediationActive ==
  /\ lottery.remediation_start_unix > 0
  /\ lottery.remediation_deadline_unix > 0
  /\ now <= lottery.remediation_deadline_unix
  /\ MissingAttestedReveals

(* Mutant: remediation expires although every reveal arrived in time.      *)
WindowExpired ==
  lottery.remediation_deadline_unix > 0 /\ now > lottery.remediation_deadline_unix

RemediationExpired ==
  /\ lottery.remediation_deadline_unix > 0
  /\ now > lottery.remediation_deadline_unix
  /\ MissingAttestedReveals

(* Lottery::phase is "upload".                                             *)
InUploadPhase ==
  /\ ~lottery.settled
  /\ ~(lottery.participants_count = 1 /\ UploadElapsed)
  /\ ~RemediationActive
  /\ lottery.settlement_start_unix = 0
  /\ UploadStarted
  /\ now <= lottery.upload_deadline_unix

AllAttested(count) ==
  lottery.participants_count > 0 /\ count = lottery.participants_count

MaxWinners == EffectiveMaxWinners(MaxWinnersCap, lottery.participants_count)

(* Lottery::set_selected_winners accepts count.                            *)
SelectableWinners(count) ==
  lottery.participants_count > 1 /\ count \in 1..lottery.participants_count - 1

(* Lottery::begin_remediation, when condition holds.                       *)
BeginRemediation(account, condition) ==
  IF condition /\ account.remediation_start_unix = 0
  THEN [account EXCEPT !.remediation_start_unix    = now,
                       !.remediation_deadline_unix = now + RemediationWindow]
  ELSE account

(***************************************************************************)
(* Predicates of the Participant accounts.                                 *)
(***************************************************************************)
Exists(w) == participant[w].status = "open"

HasTickets(w) == Exists(w) /\ participant[w].tickets_bought > 0

Buyers == { w \in Wallet : participant[w].status # "none" }

Attested == { w \in Wallet : participant[w].attested_uploaded }

Included == { w \in Wallet : participant[w].reveal_included }

TicketsOf(S) == MapThenSumSet(LAMBDA w : participant[w].tickets_bought, S)
===============================================================================
