----------------------------- MODULE RegistryProofs ---------------------------
(***************************************************************************)
(* Proofs about Registry: for any keys, prices, charges and caps given to  *)
(* its instructions, and any number of lotteries, accounts keep their      *)
(* shape and the terms of a lottery stay what they were.                   *)
(***************************************************************************)
EXTENDS Registry, TLAPS

(* There is one Config account, and no lottery before it.                  *)
OneConfig ==
  /\ \A a, b \in config : a = b
  /\ config = {} => DOMAIN lotteries = {}

Inv == TypeOK /\ OneConfig

(* The counter is the number of lotteries, so the next id is none of       *)
(* theirs: CreateLottery overwrites no lottery.                            *)
LEMMA NextIdIsNew ==
  ASSUME Inv, NEW account \in config
  PROVE  /\ account.lottery_count \in Nat
         /\ NextId(account) \in Nat
         /\ NextId(account) \notin DOMAIN lotteries
         /\ DOMAIN lotteries \cup {NextId(account)} = 1..NextId(account)
<1>1. account \in ConfigAccount /\ DOMAIN lotteries = 1..account.lottery_count
  BY DEF Inv, TypeOK
<1>2. account.lottery_count \in Nat
  BY <1>1 DEF ConfigAccount
<1>3. QED
  BY <1>1, <1>2 DEF NextId

(* No account exists at first.                                             *)
LEMMA InvInit == Init => Inv
  BY DEF Init, Inv, TypeOK, OneConfig

(* The first Initialize opens a well-formed account; there is no other.    *)
LEMMA InitializeInv ==
  ASSUME Inv, NEW key \in Key, NEW price \in Prices, NEW bps \in Charges, NEW cap \in Caps,
         Initialize(key, price, bps, cap)
  PROVE  Inv'
<1> DEFINE account == [ authority             |-> key,
                        ticket_price_lamports |-> price,
                        service_charge_bps    |-> bps,
                        lottery_count         |-> 0,
                        max_winners_cap       |-> cap ]
<1>1. config' = {account} /\ lotteries' = lotteries /\ config = {}
  BY DEF Initialize, Uninitialized
<1>2. bps < 10000 /\ cap \in 1..MAX_WINNERS
  <2>1. bps \in Nat /\ cap \in Nat
    BY RegistryAssumption
  <2>2. QED
    BY <2>1 DEF Initialize, ValidCharge, ValidCap, MAX_WINNERS
<1>3. account \in ConfigAccount
  BY RegistryAssumption DEF ConfigAccount
<1>4. DOMAIN lotteries' = 1..account.lottery_count
  BY <1>1 DEF Inv, OneConfig
<1> HIDE DEF account
<1>5. account.service_charge_bps < 10000 /\ account.max_winners_cap \in 1..MAX_WINNERS
  BY <1>2 DEF account
<1>6. TypeOK'
  BY <1>1, <1>3, <1>4, <1>5 DEF Inv, TypeOK
<1>7. OneConfig'
  BY <1>1 DEF OneConfig
<1>8. QED
  BY <1>6, <1>7 DEF Inv

(* A new charge is a valid one and touches no lottery.                     *)
LEMMA UpdateInv ==
  ASSUME Inv, NEW key \in Key, NEW bps \in Charges, UpdateServiceCharge(key, bps)
  PROVE  Inv'
<1>1. PICK account \in config :
        /\ ValidCharge(bps)
        /\ config' = {[account EXCEPT !.service_charge_bps = bps]}
        /\ lotteries' = lotteries
  BY DEF UpdateServiceCharge
<1> DEFINE updated == [account EXCEPT !.service_charge_bps = bps]
<1>2. account \in ConfigAccount /\ bps \in Nat
  BY RegistryAssumption DEF Inv, TypeOK
<1>3. /\ updated \in ConfigAccount
      /\ updated.service_charge_bps = bps
      /\ updated.max_winners_cap = account.max_winners_cap
      /\ updated.lottery_count = account.lottery_count
  BY <1>2 DEF ConfigAccount
<1>4. config' = {updated}
  BY <1>1
<1>5. bps < 10000
  BY <1>1 DEF ValidCharge
<1> HIDE DEF updated
<1>6. TypeOK'
  BY <1>1, <1>3, <1>4, <1>5 DEF Inv, TypeOK
<1>7. OneConfig'
  BY <1>4 DEF OneConfig
<1>8. QED
  BY <1>6, <1>7 DEF Inv

(* A created lottery is the next in line and takes its terms from Config.  *)
LEMMA CreateInv ==
  ASSUME Inv, NEW key \in Key, CreateLottery(key)
  PROVE  Inv'
<1>1. PICK account \in config :
        /\ lotteries' = [ id \in DOMAIN lotteries \cup {NextId(account)} |->
             IF id = NextId(account)
             THEN [ authority             |-> account.authority,
                    ticket_price_lamports |-> account.ticket_price_lamports,
                    service_charge_bps    |-> account.service_charge_bps,
                    settled               |-> FALSE ]
             ELSE lotteries[id] ]
        /\ config' = {[account EXCEPT !.lottery_count = NextId(account)]}
  BY DEF CreateLottery
<1> DEFINE counted == [account EXCEPT !.lottery_count = NextId(account)]
           terms   == [ authority             |-> account.authority,
                        ticket_price_lamports |-> account.ticket_price_lamports,
                        service_charge_bps    |-> account.service_charge_bps,
                        settled               |-> FALSE ]
<1>2. /\ account \in ConfigAccount
      /\ account.service_charge_bps < 10000
      /\ account.max_winners_cap \in 1..MAX_WINNERS
  BY DEF Inv, TypeOK
<1>3. /\ counted \in ConfigAccount
      /\ counted.service_charge_bps = account.service_charge_bps
      /\ counted.max_winners_cap = account.max_winners_cap
      /\ counted.lottery_count = NextId(account)
  BY <1>2, NextIdIsNew DEF ConfigAccount
<1>4. terms \in LotteryTerms /\ terms.service_charge_bps < 10000
  BY <1>2 DEF ConfigAccount, LotteryTerms
<1>5. config' = {counted}
  BY <1>1
<1>6. DOMAIN lotteries' = 1..NextId(account)
  BY <1>1, NextIdIsNew
<1>7. \A id \in DOMAIN lotteries' :
        lotteries'[id] = IF id = NextId(account) THEN terms ELSE lotteries[id]
  BY <1>1
<1>8. \A id \in DOMAIN lotteries' : id = NextId(account) \/ id \in DOMAIN lotteries
  BY <1>1
<1> HIDE DEF counted, terms
<1>9. \A id \in DOMAIN lotteries' : /\ lotteries'[id] \in LotteryTerms
                                    /\ lotteries'[id].service_charge_bps < 10000
  BY <1>4, <1>7, <1>8 DEF Inv, TypeOK
<1>10. TypeOK'
  BY <1>2, <1>3, <1>5, <1>6, <1>9 DEF TypeOK
<1>11. OneConfig'
  BY <1>5 DEF OneConfig
<1>12. QED
  BY <1>10, <1>11 DEF Inv

(* Settling a lottery leaves its terms and the others alone.               *)
LEMMA SettleInv ==
  ASSUME Inv, NEW id \in DOMAIN lotteries, SettleLottery(id)
  PROVE  Inv'
<1>1. /\ lotteries' = [lotteries EXCEPT ![id].settled = TRUE]
      /\ config' = config
  BY DEF SettleLottery
<1>2. DOMAIN lotteries' = DOMAIN lotteries
  BY <1>1
<1>3. ASSUME NEW other \in DOMAIN lotteries
      PROVE  /\ lotteries'[other] \in LotteryTerms
             /\ lotteries'[other].service_charge_bps < 10000
  <2>1. PICK terms \in LotteryTerms :
          lotteries[other] = terms /\ terms.service_charge_bps < 10000
    BY DEF Inv, TypeOK
  <2>2. CASE other = id
    <3>1. lotteries'[other] = [terms EXCEPT !.settled = TRUE]
      BY <1>1, <2>1, <2>2
    <3>2. [terms EXCEPT !.settled = TRUE] \in LotteryTerms
      BY DEF LotteryTerms
    <3>3. [terms EXCEPT !.settled = TRUE].service_charge_bps = terms.service_charge_bps
      BY DEF LotteryTerms
    <3>4. QED
      BY <2>1, <3>1, <3>2, <3>3
  <2>3. CASE other # id
    BY <1>1, <2>1, <2>3
  <2>4. QED
    BY <2>2, <2>3
<1>4. TypeOK'
  <2>1. /\ config' \subseteq ConfigAccount
        /\ \A account \in config' : /\ account.service_charge_bps < 10000
                                    /\ account.max_winners_cap \in 1..MAX_WINNERS
                                    /\ DOMAIN lotteries' = 1..account.lottery_count
    BY <1>1, <1>2 DEF Inv, TypeOK
  <2>2. \A other \in DOMAIN lotteries' : /\ lotteries'[other] \in LotteryTerms
                                         /\ lotteries'[other].service_charge_bps < 10000
    BY <1>2, <1>3
  <2>3. QED
    BY <2>1, <2>2 DEF TypeOK
<1>5. OneConfig'
  BY <1>1, <1>2 DEF Inv, OneConfig
<1>6. QED
  BY <1>4, <1>5 DEF Inv

(* Every step keeps Inv.                                                   *)
LEMMA InvNext == Inv /\ [Next]_vars => Inv'
<1> SUFFICES ASSUME Inv, [Next]_vars PROVE Inv'
  OBVIOUS
<1>1. ASSUME NEW key \in Key, NEW price \in Prices, NEW bps \in Charges, NEW cap \in Caps,
             Initialize(key, price, bps, cap)
      PROVE  Inv'
  BY <1>1, InitializeInv
<1>2. ASSUME NEW key \in Key, NEW bps \in Charges, UpdateServiceCharge(key, bps)
      PROVE  Inv'
  BY <1>2, UpdateInv
<1>3. ASSUME NEW key \in Key, CreateLottery(key) PROVE Inv'
  BY <1>3, CreateInv
<1>4. ASSUME NEW id \in DOMAIN lotteries, SettleLottery(id) PROVE Inv'
  BY <1>4, SettleInv
<1>5. CASE UNCHANGED vars
  BY <1>5 DEF vars, Inv, TypeOK, OneConfig
<1>6. QED
  BY <1>1, <1>2, <1>3, <1>4, <1>5 DEF Next

(* Inv is an invariant.                                                    *)
LEMMA InvAlways == Spec => []Inv
  BY InvInit, InvNext, PTL DEF Spec

(* Accounts keep their shape, every charge and cap that is stored is one   *)
(* the program accepts, and the ids in use are those counted: Initialize,  *)
(* UpdateServiceCharge and CreateLottery for any parameters.               *)
THEOREM RegistryTypeCorrect == Spec => []TypeOK
<1>1. Inv => TypeOK
  BY DEF Inv
<1>2. QED
  BY <1>1, InvAlways, PTL

(* No step changes the terms of a lottery that exists, or takes back that  *)
(* it is settled.                                                          *)
LEMMA TermsStep ==
  ASSUME Inv, [Next]_vars, NEW id \in DOMAIN lotteries
  PROVE  /\ id \in DOMAIN lotteries'
         /\ lotteries'[id].settled \/ ~lotteries[id].settled
         /\ [lotteries'[id] EXCEPT !.settled = FALSE] = [lotteries[id] EXCEPT !.settled = FALSE]
<1>1. CASE lotteries' = lotteries
  BY <1>1
<1>2. ASSUME NEW key \in Key, CreateLottery(key)
      PROVE  id \in DOMAIN lotteries' /\ lotteries'[id] = lotteries[id]
  <2>1. PICK account \in config :
          lotteries' = [ i \in DOMAIN lotteries \cup {NextId(account)} |->
             IF i = NextId(account)
             THEN [ authority             |-> account.authority,
                    ticket_price_lamports |-> account.ticket_price_lamports,
                    service_charge_bps    |-> account.service_charge_bps,
                    settled               |-> FALSE ]
             ELSE lotteries[i] ]
    BY <1>2 DEF CreateLottery
  <2>2. id # NextId(account)
    BY NextIdIsNew
  <2>3. QED
    BY <2>1, <2>2
<1>3. ASSUME NEW other \in DOMAIN lotteries, SettleLottery(other)
      PROVE  /\ id \in DOMAIN lotteries'
             /\ lotteries'[id] = lotteries[id]
                  \/ lotteries'[id] = [lotteries[id] EXCEPT !.settled = TRUE]
  BY <1>3 DEF SettleLottery
<1>4. lotteries[id] \in LotteryTerms
  BY DEF Inv, TypeOK
<1>5. ASSUME NEW other \in DOMAIN lotteries, SettleLottery(other)
      PROVE  /\ id \in DOMAIN lotteries'
             /\ lotteries'[id].settled \/ ~lotteries[id].settled
             /\ [lotteries'[id] EXCEPT !.settled = FALSE]
                  = [lotteries[id] EXCEPT !.settled = FALSE]
  <2>1. CASE lotteries'[id] = lotteries[id]
    BY <1>3, <1>5, <2>1, <1>4 DEF LotteryTerms
  <2>2. CASE lotteries'[id] = [lotteries[id] EXCEPT !.settled = TRUE]
    BY <1>3, <1>5, <2>2, <1>4 DEF LotteryTerms
  <2>3. QED
    BY <1>3, <1>5, <2>1, <2>2
<1>6. ASSUME NEW key \in Key, NEW price \in Prices, NEW bps \in Charges, NEW cap \in Caps,
             Initialize(key, price, bps, cap)
      PROVE  lotteries' = lotteries
  BY <1>6 DEF Initialize
<1>7. ASSUME NEW key \in Key, NEW bps \in Charges, UpdateServiceCharge(key, bps)
      PROVE  lotteries' = lotteries
  BY <1>7 DEF UpdateServiceCharge
<1>8. CASE UNCHANGED vars
  BY <1>8, <1>1 DEF vars
<1>9. CASE Next
  <2>1. PICK key \in Key :
          \/ \E price \in Prices, bps \in Charges, cap \in Caps :
               Initialize(key, price, bps, cap)
          \/ \E bps \in Charges : UpdateServiceCharge(key, bps)
          \/ CreateLottery(key)
          \/ \E other \in DOMAIN lotteries : SettleLottery(other)
    BY <1>9 DEF Next
  <2>2. CASE \/ \E price \in Prices, bps \in Charges, cap \in Caps :
                  Initialize(key, price, bps, cap)
             \/ \E bps \in Charges : UpdateServiceCharge(key, bps)
    BY <2>2, <1>6, <1>7, <1>1
  <2>3. CASE CreateLottery(key)
    BY <2>3, <1>2
  <2>4. CASE \E other \in DOMAIN lotteries : SettleLottery(other)
    BY <2>4, <1>5
  <2>5. QED
    BY <2>1, <2>2, <2>3, <2>4
<1>10. QED
  BY <1>8, <1>9

(* The terms a round was opened with are those it is settled by: neither a *)
(* later charge nor a later CreateLottery reaches it.                      *)
THEOREM TermsStay == Spec => TermsKept
<1>1. Inv /\ [Next]_vars =>
        [ \A id \in DOMAIN lotteries :
            /\ id \in DOMAIN lotteries'
            /\ lotteries'[id].settled \/ ~lotteries[id].settled
            /\ [lotteries'[id] EXCEPT !.settled = FALSE]
                 = [lotteries[id] EXCEPT !.settled = FALSE] ]_vars
  BY TermsStep
<1>2. QED
  BY <1>1, InvAlways, PTL DEF Spec, TermsKept

(* No step changes the authority, the price or the cap, or counts back.    *)
LEMMA ConfigStep ==
  ASSUME Inv, [Next]_vars, NEW account \in config
  PROVE  \E next \in config' :
           /\ next.authority = account.authority
           /\ next.ticket_price_lamports = account.ticket_price_lamports
           /\ next.max_winners_cap = account.max_winners_cap
           /\ next.lottery_count >= account.lottery_count
<1>1. /\ account \in ConfigAccount
      /\ account.lottery_count \in Nat
      /\ \A other \in config : other = account
  BY DEF Inv, TypeOK, OneConfig, ConfigAccount
<1>2. CASE config' = config
  BY <1>1, <1>2
<1>3. ASSUME NEW key \in Key, NEW price \in Prices, NEW bps \in Charges, NEW cap \in Caps
      PROVE  ~Initialize(key, price, bps, cap)
  BY DEF Initialize, Uninitialized
<1>4. ASSUME NEW key \in Key, NEW bps \in Charges, UpdateServiceCharge(key, bps)
      PROVE  config' = {[account EXCEPT !.service_charge_bps = bps]}
  BY <1>1, <1>4 DEF UpdateServiceCharge
<1>5. ASSUME NEW bps, config' = {[account EXCEPT !.service_charge_bps = bps]}
      PROVE  \E next \in config' :
               /\ next.authority = account.authority
               /\ next.ticket_price_lamports = account.ticket_price_lamports
               /\ next.max_winners_cap = account.max_winners_cap
               /\ next.lottery_count >= account.lottery_count
  <2>1. [account EXCEPT !.service_charge_bps = bps] \in config'
    BY <1>5
  <2>2. QED
    BY <1>1, <2>1 DEF ConfigAccount
<1>6. ASSUME NEW key \in Key, CreateLottery(key)
      PROVE  config' = {[account EXCEPT !.lottery_count = NextId(account)]}
  BY <1>1, <1>6 DEF CreateLottery
<1>7. ASSUME config' = {[account EXCEPT !.lottery_count = NextId(account)]}
      PROVE  \E next \in config' :
               /\ next.authority = account.authority
               /\ next.ticket_price_lamports = account.ticket_price_lamports
               /\ next.max_winners_cap = account.max_winners_cap
               /\ next.lottery_count >= account.lottery_count
  <2>1. [account EXCEPT !.lottery_count = NextId(account)] \in config'
    BY <1>7
  <2>2. NextId(account) >= account.lottery_count
    BY <1>1 DEF NextId
  <2>3. QED
    BY <1>1, <2>1, <2>2 DEF ConfigAccount
<1>8. ASSUME NEW id \in DOMAIN lotteries, SettleLottery(id) PROVE config' = config
  BY <1>8 DEF SettleLottery
<1>9. CASE UNCHANGED vars
  BY <1>9, <1>2 DEF vars
<1>10. CASE Next
  <2>1. PICK key \in Key :
          \/ \E price \in Prices, bps \in Charges, cap \in Caps :
               Initialize(key, price, bps, cap)
          \/ \E bps \in Charges : UpdateServiceCharge(key, bps)
          \/ CreateLottery(key)
          \/ \E id \in DOMAIN lotteries : SettleLottery(id)
    BY <1>10 DEF Next
  <2>2. CASE \E bps \in Charges : UpdateServiceCharge(key, bps)
    BY <2>2, <1>4, <1>5
  <2>3. CASE CreateLottery(key)
    BY <2>3, <1>6, <1>7
  <2>4. CASE \E id \in DOMAIN lotteries : SettleLottery(id)
    BY <2>4, <1>8, <1>2
  <2>5. QED
    BY <2>1, <2>2, <2>3, <2>4, <1>3
<1>11. QED
  BY <1>9, <1>10

(* The first Initialize fixes authority, price and cap for ever.           *)
THEOREM ConfigStays == Spec => ConfigKept
<1>1. Inv /\ [Next]_vars =>
        [ \A account \in config : \E next \in config' :
            /\ next.authority = account.authority
            /\ next.ticket_price_lamports = account.ticket_price_lamports
            /\ next.max_winners_cap = account.max_winners_cap
            /\ next.lottery_count >= account.lottery_count ]_vars
  BY ConfigStep
<1>2. QED
  BY <1>1, InvAlways, PTL DEF Spec, ConfigKept
===============================================================================
