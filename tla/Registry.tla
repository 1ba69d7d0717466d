-------------------------------- MODULE Registry ------------------------------
(***************************************************************************)
(* The Config account and the lotteries created from it: Initialize,       *)
(* UpdateServiceCharge and CreateLottery.  A lottery is its terms, copied  *)
(* from the Config account when it is created; what happens in one is the  *)
(* subject of Round, and shows here only as the lottery getting settled.   *)
(***************************************************************************)
EXTENDS LotteryRules

CONSTANTS
  Key,                        \* keys that sign instructions
  Prices, Charges, Caps,      \* inputs: the parameters given to instructions
  AllowServiceChargeUpdate,   \* the build feature allow-service-charge-update
  LotteryBound                \* bound: number of lotteries

ASSUME RegistryAssumption ==
  /\ Prices \subseteq Nat /\ Charges \subseteq Nat /\ Caps \subseteq Nat
  /\ AllowServiceChargeUpdate \in BOOLEAN
  /\ LotteryBound \in Nat

VARIABLES
  config,     \* the set with the Config account, empty until it is created
  lotteries   \* the Lottery account of each id created

vars == <<config, lotteries>>

ConfigAccount ==
  [ authority             : Key,
    ticket_price_lamports : Nat,
    service_charge_bps    : Nat,
    lottery_count         : Nat,
    max_winners_cap       : Nat ]

LotteryTerms ==
  [ authority             : Key,
    ticket_price_lamports : Nat,
    service_charge_bps    : Nat,
    settled               : BOOLEAN ]

ValidCharge(bps) == bps < 10000

(* Mutant: a cap of no winners is let in.                                  *)
ValidCapOrZero(cap) == cap <= MAX_WINNERS

ValidCap(cap) == cap > 0 /\ cap <= MAX_WINNERS

(* Mutant: a second Initialize is not turned away.                         *)
Reinitializable(accounts) == TRUE

(* The Config PDA is not yet owned by the program.                         *)
Uninitialized(accounts) == accounts = {}

Init == config = {} /\ lotteries = << >>

(* Anyone may send the first Initialize and is the authority from then on; *)
(* a later one succeeds and changes nothing.                               *)
Initialize(key, price, bps, cap) ==
  /\ ValidCharge(bps) /\ ValidCap(cap)
  /\ Uninitialized(config)
  /\ config' = { [ authority             |-> key,
                   ticket_price_lamports |-> price,
                   service_charge_bps    |-> bps,
                   lottery_count         |-> 0,
                   max_winners_cap       |-> cap ] }
  /\ UNCHANGED lotteries

UpdateServiceCharge(key, bps) ==
  \E account \in config :
    /\ AllowServiceChargeUpdate
    /\ ValidCharge(bps)
    /\ key = account.authority
    /\ config' = {[account EXCEPT !.service_charge_bps = bps]}
    /\ UNCHANGED lotteries

(* Mutant: the counter is read as the id of the next lottery.              *)
LatestId(account) == AtLeast(account.lottery_count, 1)

NextId(account) == account.lottery_count + 1

(* CreateLottery creates the account of the id if there is none, and       *)
(* writes a new Lottery into it in any case.                               *)
CreateLottery(key) ==
  \E account \in config :
    /\ key = account.authority
    /\ NextId(account) <= LotteryBound
    /\ lotteries' = [ id \in DOMAIN lotteries \cup {NextId(account)} |->
         IF id = NextId(account)
         THEN [ authority             |-> account.authority,
                ticket_price_lamports |-> account.ticket_price_lamports,
                service_charge_bps    |-> account.service_charge_bps,
                settled               |-> FALSE ]
         ELSE lotteries[id] ]
    /\ config' = {[account EXCEPT !.lottery_count = NextId(account)]}

(* Lottery::settle, at an end of the round.                                *)
SettleLottery(id) ==
  /\ ~lotteries[id].settled
  /\ lotteries' = [lotteries EXCEPT ![id].settled = TRUE]
  /\ UNCHANGED config

Next ==
  \E key \in Key :
    \/ \E price \in Prices, bps \in Charges, cap \in Caps :
         Initialize(key, price, bps, cap)
    \/ \E bps \in Charges : UpdateServiceCharge(key, bps)
    \/ CreateLottery(key)
    \/ \E id \in DOMAIN lotteries : SettleLottery(id)

Spec == Init /\ [][Next]_vars

(* The accounts keep their shape, a fee is always below the whole, and the *)
(* ids in use are those counted.                                           *)
TypeOK ==
  /\ config \subseteq ConfigAccount
  /\ \A account \in config : /\ account.service_charge_bps < 10000
                             /\ account.max_winners_cap \in 1..MAX_WINNERS
                             /\ DOMAIN lotteries = 1..account.lottery_count
  /\ \A id \in DOMAIN lotteries : /\ lotteries[id] \in LotteryTerms
                                  /\ lotteries[id].service_charge_bps < 10000

(* The terms a lottery was opened with never change, and a settled lottery *)
(* stays settled: neither a new service charge nor a CreateLottery, which  *)
(* overwrites the account it is given, reaches a lottery that exists.      *)
TermsKept ==
  [][ \A id \in DOMAIN lotteries :
        /\ id \in DOMAIN lotteries'
        /\ lotteries'[id].settled \/ ~lotteries[id].settled
        /\ [lotteries'[id] EXCEPT !.settled = FALSE]
             = [lotteries[id] EXCEPT !.settled = FALSE] ]_vars

(* The authority, the price of a ticket and the cap on the winners are     *)
(* fixed by the first Initialize, whoever sends another one.               *)
ConfigKept ==
  [][ \A account \in config : \E next \in config' :
        /\ next.authority = account.authority
        /\ next.ticket_price_lamports = account.ticket_price_lamports
        /\ next.max_winners_cap = account.max_winners_cap
        /\ next.lottery_count >= account.lottery_count ]_vars

(* What the crate documentation says (lib.rs, instructions/mod.rs): only   *)
(* one lottery can be active at a time.  The code does not enforce it.     *)
OneActiveLottery ==
  \A id, other \in DOMAIN lotteries :
    lotteries[id].settled \/ lotteries[other].settled \/ id = other
===============================================================================
