# Daily lottery: a verified model

This directory holds TLA+ modules for the Solana program in
`src/programs/daily_lottery`, the TLC configurations that model-check them and
the TLAPS proofs of their main properties. The program runs rounds of a lottery:
wallets buy tickets, attest that they revealed a secret they committed to, the
reveals decide the number of winners and the seed of the draw, winners are drawn
by weight without replacement, and the money is paid out or, when the round
fails, paid back. Nearly every instruction may be sent by anyone, at any time,
in any order.

## 1. The system

Every instruction is one transaction: it runs alone, and if it returns an error
nothing it did remains. So an instruction is one atomic action, a failing call is
an action that is not enabled, and a crash in the middle of a handler is not a
state. What is hard is the interleaving of instructions of many senders over
several transactions, and the clock.

| Component | State | Operations | Source |
|---|---|---|---|
| Registry | Config account; one Lottery account per id | Initialize, UpdateServiceCharge, CreateLottery | `instructions/initialize.rs`, `update_service_charge.rs`, `create_lottery.rs`, `state/config.rs` |
| Entry | counters and money of the Lottery, Participant accounts, Vault lamports | BuyTickets, BeginRevealNow/BeginRevealPhase | `buy_tickets.rs`, `begin_reveal_phase.rs` |
| Reveals | attestation and inclusion flags, counters, VoteTally, aggregate hash, remediation window | AttestUploaded, AttestReveal, UploadReveals | `attest_uploaded.rs`, `attest_reveal.rs`, `upload_reveals.rs`, `state/vote_tally.rs` |
| Finalization | FinalizationLedger, WinnerPages, marks on participants | FinalizeWinners, chunk by chunk | `finalize_winners.rs`, `state/finalization_ledger.rs` |
| Settlement | paid bitmaps of Lottery and pages, refund flags, Vault lamports | SettlePayoutBatch, FinalizeNoAttesters, ClaimRefund, CloseRefundVault, CloseParticipant | the handlers of these names |
| Draw index | none: a pure loop over nonces | `draw_index`: hash, reject, reduce | `finalize_winners.rs` |
| Winner pages | bytes of the WinnerPage accounts, paid bitmap of the Lottery | append an entry, read it back, mark it paid | `state/finalization_ledger.rs`, `state/lottery.rs` |
| Accounts | the data and lamports at every address | derive, own, read and compare, in every handler | `utils/pda.rs`, `utils/account.rs`, `utils/validation.rs` |
| Events | the log of a transaction | one or more events per instruction | `events.rs`, the `emit` calls of the handlers |
| Clock | `unix_timestamp` | advances | Solana runtime (external) |

How they interact: all of them read and write the Lottery account. Reveals
trusts that Entry sells nothing more once attestation is open (votes are
weighted by tickets; the tally is sized by the number of participants).
Finalization trusts the counters of Reveals instead of walking the participants,
and that nobody attests after its first chunk. Settlement trusts the winners,
the pages and the total payout of Finalization, and decides between winners and
refunds by the same counters as Finalization does. Finalization appends to pages
that Settlement reads back by offset, in other transactions. All handlers trust
that the accounts a client names are those of one lottery. Indexers trust the
events, and have nothing else once the accounts are closed.

What makes each component right:

- Registry: terms snapshotted by a lottery never change; only the first
  Initialize counts.
- Entry: tickets are closed before anyone can attest; deadlines only move later.
- Reveals: counters equal the flags they count; the vote does not depend on the
  order of uploads; whoever holds the missing reveals can upload them until
  remediation expires.
- Finalization: no attested reveal is left out; the seed depends on the included
  reveals only; the chunked passes draw exactly what a weighted draw without
  replacement draws; the pages hold each winner once.
- Settlement: winners and refunds exclude each other; every lamport goes where
  the books say; the vault is emptied last.
- Draw index: every ticket is drawn by as many hashes, and few are rejected.
- Winner pages: what was appended reads back the same, whatever is paid; an
  entry that is not paid can be paid.
- Accounts: whatever a client names, a call works on the accounts of one lottery
  and of the wallet that signed.
- Events: winners, money and progress can be told from the log alone, in any
  order and with lines seen twice.
- The money: deposits first, then either shares or refunds, decided once.
- The round: it ends, whatever its participants and its authority omit.

The list of hazards, with the line where each bites and the properties aimed at
it, is in `PROJECT.json`.

## 2. The modules

| Module | Models |
|---|---|
| `LotteryRules` | pure rules: cap on winners, fee, pool, `VoteTally::add_vote` and `selected_winners` |
| `RoundState` | constants, variables and account shapes of one round, the predicates on them (`phase`, `remediation_expired`, ...) |
| `Entry`, `Reveals`, `Finalization`, `Settlement` | one action per handler, or per outcome of `FinalizeWinners` |
| `Round` | composition with the clock, fairness, all properties of a round |
| `WeightedDraw` | abstract specification: fix a pool, draw one whole winner at a time; implemented by `Round` |
| `Custody` | abstract specification of the money: deposits, then shares or refunds; implemented by `Round` |
| `MCRound` | symmetry, the bound on closing and the liveness instance for TLC |
| `Events`, `MCEvents` | `Round` with the events each instruction emits, and what a replay reads off them |
| `DrawIndex` | `draw_index`, on a word of any width |
| `WinnerPages`, `MCPages` | the pages and the two paid bitmaps, byte by byte |
| `WinnerRegister` | abstract specification: a book of winners and the set of those paid; implemented by `WinnerPages` |
| `Accounts`, `MCAccounts` | several lotteries at once, every slot of every call filled with every address |
| `Registry` | configuration and creation of concurrent lotteries, a specification of its own |
| `RoundSafetyProofs` | types and safety of `Round`, proved |
| `SumLemmas` | what sums over finite sets, orders and `Min` do, proved once for the modules below |
| `RoundBookProofs` | counters, seed, passes, winner pages, vote and remediation of `Round`, and that it implements `WeightedDraw`, proved |
| `RoundMoneyProofs` | the money of `Round`, that it implements `Custody`, and what its log (`Events`) tells, proved |
| `DrawIndexProofs`, `RegistryProofs`, `AccountsProofs`, `WinnerPagesProofs` | the theorems about `DrawIndex`, `Registry`, `Accounts` and `WinnerPages` |

`Entry`, `Reveals`, `Finalization`, `Settlement` extend `RoundState`; `Round`
extends the four, and `Events` extends `Round` with one variable, `log`. The
other specifications stand alone. Each looks closely at what `Round` abstracts:
`DrawIndex` at the draw, `WinnerPages` at the pages (sequences in `Round`),
`Accounts` at the accounts a call is given (the right ones in `Round`).

`FinalizeWinners` is six actions, one for each way its transaction can end:
`StartRemediation` (reveals are missing), `AggregateChunk`, `CloseAggregation`
(the last chunk freezes pool, target and seed and draws), `ScanChunk`,
`CloseRound` (the chunk that ends a pass records a winner and draws again) and
`CompleteFinalization` (the last one fixes the payouts). A chunk has any size.

Variables and accounts: `now` is the Clock sysvar; `lottery`, `participant[w]`,
`tally`, `root` and `pages` are the Lottery, Participant, VoteTally,
FinalizationLedger and WinnerPage accounts with the field names of the source;
`vault` is the lamports of the Vault account; `received[r]` is what the program
has paid out, which the source does not store but its users see.

Definitions whose comment begins with "Mutant:" are plausible mistakes in the
definition that follows them. They are used by no specification; each property
is checked to fail when one of them takes the place of the real definition.

### Abstractions

- A verified reveal is its wallet: the commitment fixes the plaintext, so the
  digest is a function of the wallet. XOR of digests is symmetric difference of
  sets of wallets (the XOR really is order-independent, and including a reveal
  twice really would cancel it). `{NoWallet}` is the hash of no reveals that
  `mark_uploads_complete` stores.
- The hash chain over pool entries is the set of entries absorbed: aggregation
  accepts entries only in index order, so the set determines the chain.
- A draw is any number below the remaining tickets. Nothing is assumed about
  hashes; what holds here holds for every outcome of every draw.
- A bitmap is the set of raised bits; the winner bitmap keeps the bits beyond the
  bytes that `initialize_settlement` clears.
- The flags packed into `voted_number_of_winners` are fields. That setting the
  vote lowers them is kept (`VoteAndAttest`).
- `AddVotes` adds a batch at once: the additions of one batch commute.
- In `Round` an instruction is given the accounts it asks for; signatures,
  decoding and error codes are left out everywhere. An instruction that succeeds
  without writing is a stuttering step.
- `Events`: the log is a set, so nothing read off it depends on order or on a
  line seen twice. Nor does it show that a line is logged only once:
  `ProgressReplayed` says that the two ends of a round are never both announced,
  not that an end is announced once. Events keep the fields a replay can use. Progress lines of one
  chunk or upload (`RevealsUploaded`, `RevealRemediationCompleted`,
  `FinalizationChunkProcessed`, `WinnersComputed`), `SettlementPhaseBegan`, the
  running total of an attestation, and the events of the configuration are left
  out.
- `DrawIndex`: a SHA-256 digest is any sample of its width.
- `WinnerPages`: a byte is the set of its raised bits; numbers are encoded and
  decoded little-endian; the widths of fields and bytes are constants. That every
  number fits the width of its field is an assumption (`FieldsAssumption`); the
  code has it from the types of the fields, and a page holds fewer than 2^16
  entries. TLC evaluates it in `pages`.
- `Accounts`: an address is the list of seeds it derives from, so two lists never
  collide; `type` stands for the discriminator. `read_account_data` skips the
  discriminator, so an account of another type is read as any value of the type
  asked for whose links look right (`Misread`). A round is reduced to what its
  accounts count: it sells, collects attestations, then refunds or pays one
  winner. Clients choose the accounts; the vote, the windows and the draw are
  those of `Round`.
- `u64` and `u32` limits are constants, so that checks against them can fire.

## 3. The runs

| Run | Instance | Shows |
|---|---|---|
| `core` | `Events`, 3 wallets x 1 ticket, 2 winners, 1 entry per page, price 3, fee 50 % | ten invariants of the round, three of its log, and `ImplementsCustody`, over every interleaving (88,620 states up to symmetry) |
| `weighted` | 3 wallets x 1 or 2 tickets, 2 winners, 2 entries per page, price 1, fee 70 %, u64 up to 4, accounts stay open | `ImplementsDraw`: the round refines `WeightedDraw`; money, votes and types with unequal weights and with the u64 limit met; `NoEmptyShare` where the pool can be too small (166,378 states) |
| `early` | `Events`, build with early upload; 2 wallets x up to 2 tickets, buy window 2, durations 0 or 2, up to the first closed account | tickets freeze, deadlines move only later, the seed stays canonical, the log tells the money and what is left in the vault (72,203 states) |
| `liveness` | 3 wallets, the first with 1 or 2 tickets, 2 winners, price 1, fee 70 %, accounts stay open, wallets enter in one fixed order instead of a symmetry set | `Settles`, `RefundsPaidOut` (71,990 states) |
| `registry` | 2 keys, 2 prices, valid and invalid fees and caps, 3 lotteries | terms and configuration are kept (1,361 states) |
| `draw` | 64 samples, every number of tickets from 1 to 63, 3 nonces | `Uniform`, `FewRejected` (6,156 states) |
| `pages` | 5 winners on pages of 3, bytes of 2 bits, keys of 2 bytes | `Payable`, `ImplementsRegister` (6,656 states) |
| `accounts` | 2 lotteries, 2 wallets, up to 2 tickets each | `LinksMatch`, `CountsOwn`, `VaultBacks`, `PurseTrail`, `OneLottery` (61,281 states up to symmetry) |

Four more runs find the violations listed below.

Bounds, and why they are enough:

- Three wallets are the least with which two winners can be drawn (a round has
  at least one loser), a chunk can be neither empty nor whole in two ways, and
  an attestation can be missing while another is uploaded. Two winners are the
  least with a second selection pass and a payout that is not the last. One
  entry per page gives two pages, two entries put both winners on one page.
- Windows last one tick. All comparisons are between the clock and a deadline,
  so a window needs an inside, its boundary and an outside; `early` has two
  ticks so that an early start is not the scheduled one.
- `Tick` stops one tick past the last deadline set: from there no comparison
  changes until an instruction sets a new deadline.
- `TicketBound` caps the tickets of a wallet; `BuySizes` and `RevealSecs` are the
  inputs of an instruction. `U64_MAX = 4` in `weighted` makes purchases overflow.
- `weighted` and `liveness` keep accounts open and `early` stops at the first
  closed one (`NoneClosed`). Closing an account gives up only its data, which no later
  instruction of that round needs; `core` closes accounts in every order.
- `liveness` lets wallets buy for the first time in one order (`InOrder`): a
  symmetry set is not sound with liveness, and names are all wallets differ in.
  With four tickets the pool is two lamports and pays two winners, with three it
  is one lamport and cannot.
- Three winners per page with two-bit bytes make the bitmap of a page end inside
  a byte, as 100 entries do with eight-bit bytes (12.5 bytes), and the second
  page is not full, as with 256 winners. Keys and tickets have bits in each of
  their bytes.
- Two lotteries and two wallets are the least with which an account can be that
  of another lottery, of another wallet, or of both.
- The price and fee of `core` leave a remainder of the fee and of the division
  among two winners, so that rounding shows in `MoneyTrail`.

Deadlock checking is off in all runs: a round really ends, and the registry
stops at its bound.

### Fairness

`Fairness` assumes that the clock runs and that the instructions which need no
particular signer are eventually sent while they can succeed: FinalizeWinners,
SettlePayoutBatch (with at least one entry not yet paid), FinalizeNoAttesters,
ClaimRefund, CloseRefundVault. All of them are permissionless in the code or,
for ClaimRefund, in the claimant's own interest. (FinalizeNoAttesters names the
configured authority among its accounts; the model asks no more of its sender
than that.) Nothing is assumed of buyers, of attesters, of the provider, or of
the authority's uploads: `UploadReveals`, `AttestReveal` and `BeginReveal` may
never happen. Weak fairness suffices because each of these calls stays possible
until something it would lead to has happened.

`Settles` has two exceptions: a single participant who attested, see below, and
a pool of fewer lamports than winners (`PoolTooSmall`). With a price of a few
lamports and a high fee the last chunk of finalization then fails on every retry
(`finalize_winners.rs:477`) and refunds are not open either. The repository's
README documents that such a winner set is rejected. It happens in `liveness`
(without the exception `Settles` fails there) and in `weighted`.

### Where documents and code disagree

- `sole` (`SingleParticipantSettles`): a single participant who attests can be
  neither settled nor refunded. `FinalizeNoAttesters` wants no attestation or an
  expired remediation, everything else refuses rounds of one. `README.md:42` of
  the repository says that such rounds settle through refunds.
- `boundary` (`RefundsAfterDeadline`): in the second of the upload deadline
  itself a round of several participants can be settled for refunds while
  attesting is still allowed; `instructions/mod.rs:239` says "after".
- `eligible` (`EveryBuyerEligible`): only included reveals are in the pool;
  `instructions/mod.rs:211` and `lib.rs:12` say every buyer.
- `one_active` (`OneActiveLottery`): lotteries may overlap; `lib.rs:20` and
  `instructions/mod.rs:122` say one at a time.

Smaller divergences, met while reading and not given a run:

- `events.rs:164` says what `SettlementPhaseBegan` announces; only AttestUploaded
  emits it, of the four instructions that can begin the settlement phase.
- `events.rs:172`: `LotterySettled` is emitted for rounds settled for refunds
  only; a round with winners announces `WinnersFinalized` instead.
- `events.rs:9` speaks of exactly one semantic event per instruction: several
  instructions emit more (one `WinnerPaid` for each winner) or none.
- `events.rs:10` says that events hold all data needed for reconstruction. When
  fee and remainder are both 0, `ServiceFeePaid` is left out and the rent the
  authority gets is in no event; `VaultReplayed` excepts this case.
- `utils/account.rs:11` speaks of the discriminator, which `read_account_data`
  (line 40) skips. `accounts` shows that the address checks make up for it:
  `LinksMatch` holds though any account may be read as any type.

## 4. The proofs

TLAPS checks, about `Round`, for every finite set of wallets, every price, every
fee below 100 %, every cap up to 256, all windows of positive length, both builds
and any u64 and u32 limits (`RoundAssumption`, `InputAssumption`):

| Theorem | Property |
|---|---|
| `TypeCorrect` | `TypeOK`: shapes, u64 totals, a vault that is never overdrawn |
| `NoCensorship` | `NoCensoredSettlement` |
| `EndsExclude` | `RefundXorWinners` |
| `TicketsStay` | `TicketsFrozen` |
| `WindowsStay` | `WindowsKept` |
| `CountersTrue` | `CountersAgree` |
| `SeedFixed` | `SeedCanonical` |
| `PassesAccounted` | `PassAccounting` |
| `WinnersBooked` | `WinnerBook` |
| `VoteStands` | `VoteDecision` |
| `RemediationStaysOpen` | `RemediationOpen` |
| `EveryLamport` | `MoneyTrail` |
| `RefundsComplete` | `RefundsWhole` |
| `SharesPaid` | `NoEmptyShare` |
| `RoundDrawsWinners` | `ImplementsDraw` |
| `RoundKeepsCustody` | `ImplementsCustody` |

about `Events`, under the assumptions of `Round`:

| Theorem | Property |
|---|---|
| `ProgressCanBeReplayed` | `ProgressReplayed` |
| `WinnersCanBeReplayed` | `WinnersReplayed` |
| `MoneyCanBeReplayed` | `MoneyReplayed` |
| `VaultCanBeReplayed` | `VaultReplayed` |

about `WinnerPages`, for pages and bytes of any size, fields of any width that
holds what is written to it, and any number of winners (`PagesAssumption`,
`FieldsAssumption`):

| Theorem | Property |
|---|---|
| `PagesTypeCorrect` | `TypeOK` |
| `WinnersStayPayable` | `Payable` |
| `PagesImplementRegister` | `ImplementsRegister` |

about `DrawIndex`, for every number of samples and every smaller largest number
of tickets (`DrawAssumption`), 2^128 and u64 among them:

| Theorem | Property |
|---|---|
| `DrawTypeCorrect` | `TypeOK` |
| `FairDraw` | `Uniform` |
| `DrawIsShort` | `FewRejected` |

about `Registry`, for any keys, prices, charges, caps and number of lotteries
(`RegistryAssumption`):

| Theorem | Property |
|---|---|
| `RegistryTypeCorrect` | `TypeOK` |
| `TermsStay` | `TermsKept` |
| `ConfigStays` | `ConfigKept` |

and about `Accounts`, for any wallets, any number of lotteries, any rent and any bound
on tickets (`AccountsAssumption`):

| Theorem | Property |
|---|---|
| `AccountsLinked` | `LinksMatch` |
| `CallsStayApart` | `OneLottery` |
| `CountersOwned` | `CountsOwn` |
| `VaultsBacked` | `VaultBacks` |
| `PursesTrail` | `PurseTrail` |

`TypeCorrect`: `TypeOK` alone is not inductive, since a page could get the
default key as a winner; `TypeInv` adds that a pending winner is a wallet. The
arithmetic that needs an argument is that the fee is at most the funds
(`ServiceFeeBound`) and that equal shares are at most the pool (`SharesBound`),
which bounds the total payout.

`NoCensorship` and `EndsExclude`: the handlers look only at counters, the
properties speak of participants. `Safe` is the inductive invariant:

- `Counted`: included reveals were attested, and the two counters are the sizes
  of the two sets. Without it a counter says nothing of a participant.
- `Opened`: there is an attestation only after the start of the upload phase,
  and, with several participants, uploads are complete only when settlement
  has begun and no attested reveal is missing. Without it a purchase could reset
  the account of an attester, an attestation could follow completed uploads, and
  completed uploads could shut out the upload of a missing reveal.
- `Decided`: once there is a ledger, someone attested, none of the attested
  reveals is missing, several participate, and uploads are complete or their
  deadline is over. So no attestation can come after the first chunk, since
  attesting needs the upload phase, and no refund can.

With `Counted`, an uploaded count no smaller than the attested count makes two
finite sets, one in the other, of one size: they are equal, which is
`NoCensoredSettlement`. The proofs have one lemma per action; steps that leave
the counters alone share `SettlingKept` and `SafeChunk`. `Safe` was first checked
by TLC on the instances of `core` and `early`.

The other theorems about `Round` speak of sums over sets of wallets, which the
library defines by recursion on the set. `SumLemmas` proves what is needed of
them without an induction theorem: if a statement about finite sets failed, it
would fail for a smallest subset (`MinimalSubset`), and a sum over a set is one
element more than the sum over the rest (`SumStep`). From that: sums of unions,
updates, multiples and constants, and two facts the draw rests on, that the
tickets of candidates laid end to end cover every number below their total
(`CoverExists`), each by one candidate only (`CoverUnique`).

`Book` is the inductive invariant for `CountersTrue`, `SeedFixed`,
`PassesAccounted` and `WinnersBooked`. It is `Safe` and

- `Enrolled`: indexes are distinct and dense, counters and funds are the counts
  and sums they stand for. A pass walks indexes; without density it could miss
  a participant.
- `Revealed`: the aggregate hash holds the included reveals and nothing else,
  so that the seed is a function of who was included.
- `StaysOpen`: no account is closed before the round is settled, so the pool that a
  selection pass reads is the one that was aggregated.
- `Aggregation`: what the ledger has gathered is what a pass up to its cursor
  finds, however the passes are cut into chunks, and once the pool is frozen
  the seed holds it whole.
- `Booked`: pages have no gaps, entries are distinct included wallets with
  their tickets, and the flagged accounts are the winners and the one pending.
  Without the flags a wallet could be drawn twice.
- `Drawing`: a pass has seen the tickets of the candidates behind its cursor,
  the draw is below the tickets left, and a winner is pending exactly when the
  draw is below those seen. So the chunk that ends a pass has a winner
  (`CoverExists`), and no two chunks find one (`CoverUnique`).

`VoteStands` adds `Votes` to `Book`: once opened, the tally account is the tally of
the included reveals (`TrueTally`: weight and first vote of each number of
winners), attested votes are within the cap, and until the pool is frozen, which
takes the target from it, the Lottery account has the number that tally elects.
The tally is opened by the first upload, by either of two instructions, with a
size computed from the participants; it stays right since the sale is over by
then, which `Votes` states. `BestExists` and `SelectedWins` show that the order
of `Beats` has a first element and that `selected_winners` is it.

`RemediationStaysOpen`: `MayUpload` is every guard of `UploadReveals`, whose other
conjuncts give each variable a value, so it says whether the instruction can
succeed without ENABLED, which the prover does not treat. While a reveal is missing
after the deadline, uploads are not complete (`Opened`), accounts are open
(`StaysOpen`), the tally has the size an upload asks for and is that of the
included reveals, whoever opened it (`Votes`); and whatever it would elect with the
missing votes added is a number of winners the round can have (`UploadElects`).

`EveryLamport`, `RefundsComplete` and `SharesPaid` add `Money` to `Book`:

- `Balanced`: the vault and what was paid out are the rent and what was paid in.
- `Purses`: every recipient has what the bitmap, the refund flag and the closing
  of the vault say, so that a repeated batch or claim cannot pay again.
- `PaidPages`: the bitmap holds entries of the book only and agrees with the
  bits of the pages.
- `RefundBook`: without winners the batch counter counts refunds, and the vault
  is empty only when every participant has one.
- `ShareBook`: with winners the payout is equal shares of a lamport or more,
  within the funds, and until the last one the vault lacks exactly the shares
  that are paid. That no transfer of a batch overdraws the vault follows
  (`VaultCovers`).

`RoundKeepsCustody` reads the outcome, the deposits and the shares of `Custody`
off the accounts and shows for each instruction that it is a step of `Custody`
or none: BuyTickets deposits (nothing is deposited when the price is 0),
FinalizeNoAttesters and CompleteFinalization decide, SettlePayoutBatch pays
shares, with the last of them the fee (or nothing, when the entries it names are
paid already), ClaimRefund and CloseRefundVault pay refunds and return the rent.
`Decided` shuts out refunds once there is a ledger, so the outcome is decided
once; `Booked` and `Purses` make a share go to a wallet that has none.

`RoundDrawsWinners`: `WeightedDraw` fixes a pool once and then takes one winner at
a time, the entry whose tickets cover a number below those left. The code never
sees the pool whole: a pass walks it in chunks, keeps a running count and marks a
winner when a chunk passes the target. Two facts on top of `Book` close the gap:

- `Chosen`: the pending winner is the wallet whose tickets cover the draw among
  all included wallets not drawn before, not only among those already seen
  (`PendingCovers`). Candidates a later chunk reads come after it in the order of
  indexes, so they do not move its interval.
- `Unseeded`: until aggregation closes there is neither a winner nor a page.

From the moment it is frozen the pool is `PoolOf(Included)` (`FrozenPool`), and
what is left of it is `PoolOf(Undrawn)` (`LeftOver`); tickets of entries and
tickets of wallets are the same sums (`DrawTickets`). So CloseAggregation is the
step that fixes the pool, CloseRound and CompleteFinalization are draws, and every
other instruction, purchases and closings of accounts included, leaves pool and
winners alone.

The log is a set that only grows: a line that is wrong once stays wrong, and a
line that repeats an earlier one is lost. `Story`, the inductive invariant that
`Book` and `Money` make possible, says for each kind of line which state it stands
for.

- One line for each attestation with its vote, each entry of the pages, each entry
  paid and each refund taken; one for the window, and one for each end. Such a set
  is an image of the accounts, so a payout repeated in an overlapping batch adds
  nothing, and neither does a line delivered twice.
- None of these lines may ever have to change. That is what the invariants of the
  round are for: votes are final once given, entries are only appended, the shares
  are fixed before the first is paid (`ShareBook`), tickets are frozen before the
  first refund, and the two ends exclude each other.
- Purchases are the hard case: two purchases of one wallet may be alike in every
  field but one. They differ in the running total of their buyer, and since totals
  only grow, no new line is an old one (`SalesTold`); so the sum of the amounts is
  the funds, and the last line of a buyer carries its tickets.
- What the log says of the money is then a sum over lines that equals a sum over
  entries or wallets, and `Purses` says what that sum is.

`VaultReplayed` leaves out one case, a complete payout that left nothing for the
authority: the code logs no line for the rent it hands over then.

The pages: every read and write is an offset into one array of bytes, and what has
to be shown is that they do not meet.

- `Sizes` says how header, entries and bitmap lie: in this order, next to each
  other, within the account. From it `PutIs` and `MarkIs` say what an append and a
  payment change on a page: one entry and the count, or one bit.
- `TypeOK` alone does not say which count a page has. `Filled` does: a page exists
  exactly when the book reaches it, and its count is the number of entries of the
  book on it. So an append goes to the place its index says, over nothing.
- `Marks`: before the book is closed no bit is raised, on a page or in the Lottery
  account (so that what `initialize_settlement` clears was clear); after, an entry
  has both its bits or none. An index splits into page and place in one way
  (`PageOfIndex`), and so does a place into byte and bit (`RaisedOnce`), so raising
  the bits of one entry raises those of no other.

TLC checked `Filled` and `Marks` on the instance of `pages`. `WinnersStayPayable`
follows from the two, and a step reads back as one of `WinnerRegister` (`Record`,
`RecordLast`, `Pay`) or as none. What a number decodes to is not looked into:
`FieldsAssumption` says that a number read where it was written is that number.

One assumption is about names only: `Authority` is none of the wallets. The program
lets the authority buy tickets of its own; the model then counts what it gets as
a participant and what it gets as the authority in two purses.

`FairDraw` and `DrawIsShort`: the floor, a negation modulo the width, is the
remainder of the width by the number of tickets (`FloorIsRemainder`). So the
accepted samples are whole periods, the samples for one ticket are one of each,
and a bijection counts them.

The registry: `TypeOK` alone is not inductive, since with two Config accounts a
counter could give an id out again. `Inv` adds `OneConfig`: there is at most one,
and no lottery before it. Then the next id is no lottery's (`NextIdIsNew`), so
CreateLottery overwrites no terms.

The accounts: a handler reads data before it checks the address the data came
from, and some compare seeds only, others links only. The five theorems share one
argument.

- `IInv`: every address of a lottery holds nothing, or data of the type and with the
  links its seeds say (`Shaped`); what the stage of the lottery allows its accounts
  to be (`Staged`: no refund before the refund stage, no page without a booked
  winner who is included); counters and vault as in `CountsOwn` and `VaultBacks`;
  purses as in `PurseTrail`. Without `Shaped` a lottery's data could be a misread
  account, and without `Staged` a payout could meet refunds already made. TLC checked
  `IInv` on the instance of `accounts` before it was proved.
- In a state of `IInv` the checks of a handler leave one choice for every slot once
  lottery and wallet are chosen: `GivenIs`, `AccountIs`, `AccountInIs`, `VaultIs`,
  `TallyIs`, `LedgerIs`, `BuyerIs`. That is what the checks are for, and the place
  where each of them is needed.
- So a call is a step for one lottery (`Steps`; one lemma for each instruction): it
  writes to the addresses of that lottery only, leaves it sound, and moves each
  purse by as much as the balance of that wallet in that lottery.
- Seeds tell lotteries apart (`Apart`), so the other lotteries stay as they were
  (`Elsewhere`), and the sum over lotteries moves with its one term (`StepKeeps`,
  by the laws of `SumLemmas`, here for integers, since a balance may be negative).

Model-checked only: the liveness properties `Settles` and `RefundsPaidOut`, since
the prover does not treat fairness. Every other property of a passing run is a
theorem. What little-endian bytes decode to, for every number, would need an
induction over data, which is out of reach too; it is the assumption
`FieldsAssumption`, evaluated by TLC.

## 5. Not modelled

- Handlers that no tag of the dispatcher reaches: `begin_buy_phase.rs`,
  `begin_upload_phase.rs`, `begin_settlement_phase.rs`, `update_windows.rs`,
  `winners_ledger.rs`.
- The entry point (`lib.rs`) and the decoding of instruction bytes: no state.
- The ed25519 receipt of an attestation and the hash check of a reveal: both are
  taken to have succeeded.
- Checks of writable flags, the system program and bumps, and rent exemption:
  the runtime's part.
- Lamports that reach an account by another way than the program: a transfer to
  the vault from outside, or an address funded before its account is created.
  The balances of `Round` and `Accounts` are those the program's own calls make.
- JSON encoding of events, the progress events and those of the configuration;
  error codes (an error is an action that is not enabled).
- Byte layouts of the accounts that are read and written whole.
- Vendored crates.

## 6. Plan

Done: Registry; the four components of a round and their composition; the
abstract draw, custody and register and their refinements; the draw index; pages
as bytes; events; accounts; proofs of every property but the two liveness ones.

Worth adding:

1. The loop of `selected_winners` as a fold, against the set definition used
   here, over all small tallies; the packing of flags into the vote word.
2. The events of the configuration in `Registry`.
