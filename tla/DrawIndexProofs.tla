---------------------------- MODULE DrawIndexProofs ---------------------------
(***************************************************************************)
(* The draw is fair for every width of the hash and every number of        *)
(* tickets below it, 2^128 and all of u64 among them.                      *)
(***************************************************************************)
EXTENDS DrawIndex, FiniteSetTheorems, TLAPS

(* Division with remainder has one result.                                   *)
LEMMA DivisionUnique ==
  ASSUME NEW a \in Int, NEW m \in Nat \ {0}, NEW k \in Int, NEW r \in 0..m - 1,
         a = k * m + r
  PROVE  a \div m = k /\ a % m = r
<1> DEFINE d == a \div m
           e == a % m
<1>1. d \in Int /\ e \in 0..m - 1 /\ a = d * m + e
  OBVIOUS
<1> HIDE DEF d, e
<1>2. (k - d) * m = e - r
  <2>1. k * m + r = d * m + e BY <1>1
  <2>2. (k - d) * m = k * m - d * m BY <1>1
  <2>3. k * m \in Int /\ d * m \in Int BY <1>1
  <2> QED BY <2>1, <2>2, <2>3, <1>1
<1>3. k - d = 0
  <2>1. ~(k - d >= 1)
    <3> SUFFICES ASSUME k - d >= 1 PROVE FALSE OBVIOUS
    <3>1. (k - d) * m >= m BY <1>1
    <3> QED BY <3>1, <1>1, <1>2
  <2>2. ~(k - d <= -1)
    <3> SUFFICES ASSUME k - d <= -1 PROVE FALSE OBVIOUS
    <3>1. (k - d) * m <= -m BY <1>1
    <3> QED BY <3>1, <1>1, <1>2
  <2> QED BY <2>1, <2>2, <1>1
<1>4. e = r BY <1>1, <1>2, <1>3
<1> QED BY <1>1, <1>3, <1>4 DEF d, e

(* The floor, written with a negation, is what SAMPLES leaves over.          *)
LEMMA FloorIsRemainder ==
  ASSUME NEW m \in 1..MAX_TICKETS
  PROVE  /\ RejectionFloor(m) = SAMPLES % m
         /\ RejectionFloor(m) \in 0..m - 1
         /\ SAMPLES \div m \in Nat \ {0}
         /\ SAMPLES = (SAMPLES \div m) * m + RejectionFloor(m)
<1> DEFINE f == RejectionFloor(m)
           k == (SAMPLES - m) \div m
<1>1. m \in Nat \ {0} /\ SAMPLES \in Nat /\ SAMPLES - m \in Nat
  BY DrawAssumption
<1>2. k \in Int /\ f \in 0..m - 1 /\ SAMPLES - m = k * m + f
  BY <1>1 DEF RejectionFloor
<1> HIDE DEF f, k
<1>3. SAMPLES = (k + 1) * m + f
  <2>1. (k + 1) * m = k * m + m BY <1>1, <1>2
  <2>2. k * m \in Int BY <1>1, <1>2
  <2> QED BY <2>1, <2>2, <1>1, <1>2
<1>4. SAMPLES \div m = k + 1 /\ SAMPLES % m = f
  BY <1>1, <1>2, <1>3, DivisionUnique
<1>5. k + 1 >= 1
  <2> SUFFICES ASSUME k <= -1 PROVE FALSE BY <1>2
  <2>1. k * m <= -m BY <1>1, <1>2
  <2>2. k * m \in Int BY <1>1, <1>2
  <2> QED BY <2>1, <2>2, <1>1, <1>2
<1> QED BY <1>1, <1>2, <1>3, <1>4, <1>5 DEF f

(* The accepted samples form whole windows of m consecutive samples, and     *)
(* each window holds the ticket t once: a bijection from the windows to the  *)
(* samples of t.                                                             *)
LEMMA OneSamplePerWindow ==
  ASSUME NEW m \in 1..MAX_TICKETS, NEW t \in 0..m - 1
  PROVE  ExistsBijection(1..SAMPLES \div m, SamplesFor(t, m))
<1> DEFINE f == RejectionFloor(m)
           q == SAMPLES \div m
           c == (t - f) % m
           p == (t - f) \div m
           S == SamplesFor(t, m)
<1>1. m \in Nat \ {0} /\ SAMPLES \in Nat BY DrawAssumption
<1>2. f \in 0..m - 1 /\ q \in Nat \ {0} /\ SAMPLES = q * m + f
  BY FloorIsRemainder
<1>3. c \in 0..m - 1 /\ p \in Int /\ t - f = p * m + c
  <2> HIDE DEF f
  <2> QED BY <1>1, <1>2
<1>4. S = { s \in 0..SAMPLES - 1 : s >= f /\ s % m = t }
  BY DEF SamplesFor, Accepted, Sample, Index
<1> HIDE DEF f, q, c, p, S
<1> DEFINE g == [k \in 1..q |-> f + (k - 1) * m + c]
<1>5. ASSUME NEW k \in 1..q PROVE g[k] \in S
  <2> DEFINE s == f + (k - 1) * m + c
  <2>1. (k - 1) * m \in Nat BY <1>1, <1>2
  <2>2. s \in Int /\ s >= f BY <2>1, <1>1, <1>2, <1>3
  <2>3. (k - 1) * m <= (q - 1) * m BY <1>1, <1>2
  <2>4. (q - 1) * m = q * m - m BY <1>1, <1>2
  <2>5. q * m \in Int BY <1>1, <1>2
  <2>6. s <= SAMPLES - 1 BY <2>1, <2>3, <2>4, <2>5, <1>1, <1>2, <1>3
  <2>7. s = (k - 1 - p) * m + t
    <3>1. (k - 1 - p) * m = (k - 1) * m - p * m BY <1>1, <1>2, <1>3
    <3>2. p * m \in Int BY <1>1, <1>3
    <3> QED BY <3>1, <3>2, <2>1, <1>1, <1>2, <1>3
  <2>8. s % m = t
    <3> DEFINE w == k - 1 - p
    <3>1. w \in Int BY <1>2, <1>3
    <3>2. s \in Int /\ s = w * m + t BY <2>2, <2>7
    <3> HIDE DEF s, w
    <3> QED BY <3>1, <3>2, <1>1, DivisionUnique
  <2> QED BY <2>2, <2>6, <2>8, <1>1, <1>2, <1>4
<1>6. ASSUME NEW j \in 1..q, NEW k \in 1..q, g[j] = g[k] PROVE j = k
  <2>1. (j - 1) * m \in Int /\ (k - 1) * m \in Int BY <1>1, <1>2
  <2>2. (j - 1) * m = (k - 1) * m BY <1>6, <2>1, <1>1, <1>2, <1>3
  <2>3. ((j - 1) * m) \div m = j - 1 /\ ((k - 1) * m) \div m = k - 1
    <3>1. (j - 1) * m = (j - 1) * m + 0 /\ (k - 1) * m = (k - 1) * m + 0 BY <2>1
    <3> QED BY <3>1, <2>1, <1>1, <1>2, DivisionUnique
  <2> QED BY <2>2, <2>3, <1>2
<1>7. ASSUME NEW s \in S PROVE \E k \in 1..q : g[k] = s
  <2> DEFINE k == (s - f) \div m
             e == (s - f) % m
             u == s \div m
  <2>1. s \in 0..SAMPLES - 1 /\ s >= f /\ s % m = t BY <1>4
  <2>2. k \in Int /\ e \in 0..m - 1 /\ s - f = k * m + e BY <2>1, <1>1, <1>2
  <2>3. u \in Int /\ s = u * m + t BY <2>1, <1>1
  <2> HIDE DEF k, e, u
  <2>4. s - f = (u + p) * m + c
    <3>1. (u + p) * m = u * m + p * m BY <1>1, <1>3, <2>3
    <3>2. u * m \in Int /\ p * m \in Int BY <1>1, <1>3, <2>3
    <3> QED BY <3>1, <3>2, <2>1, <2>3, <1>2, <1>3
  <2>5. (s - f) % m = e /\ (s - f) % m = c
    BY <2>1, <2>2, <2>3, <2>4, <1>1, <1>2, <1>3, DivisionUnique
  <2>6. s = f + k * m + c
    <3>1. k * m \in Int BY <1>1, <2>2
    <3> QED BY <3>1, <2>1, <2>2, <2>5, <1>2
  <2>7. k >= 0
    <3> SUFFICES ASSUME k <= -1 PROVE FALSE BY <2>2
    <3>1. k * m <= -m BY <1>1, <2>2
    <3>2. k * m \in Int BY <1>1, <2>2
    <3> QED BY <3>1, <3>2, <2>1, <2>2, <1>1, <1>2
  <2>8. k <= q - 1
    <3> SUFFICES ASSUME k >= q PROVE FALSE BY <2>2, <1>2
    <3>1. k * m >= q * m BY <1>1, <1>2, <2>2
    <3>2. k * m \in Int /\ q * m \in Int BY <1>1, <1>2, <2>2
    <3> QED BY <3>1, <3>2, <2>1, <2>2, <1>1, <1>2
  <2>9. k + 1 \in 1..q /\ g[k + 1] = s
    BY <2>2, <2>6, <2>7, <2>8, <1>2
  <2> QED BY <2>9
<1>8. g \in [1..q -> S] BY <1>5
<1> HIDE DEF g
<1>9. g \in Bijection(1..q, S)
  BY <1>6, <1>7, <1>8 DEF Bijection, Injection, Surjection, IsInjective
<1> QED BY <1>9 DEF ExistsBijection, q, S

(* No step changes the number of tickets, and an index stays below it.       *)
THEOREM DrawTypeCorrect == Spec => []TypeOK
<1>1. ASSUME Init PROVE TypeOK
  BY <1>1, DrawAssumption DEF Init, TypeOK
<1>2. ASSUME TypeOK, [Next]_vars PROVE TypeOK'
  <2>1. CASE Take
    <3>1. PICK sample \in Accepted(remaining) : index' = Index(sample, remaining)
      BY <2>1 DEF Take
    <3>2. sample \in Int /\ remaining \in Nat \ {0}
      BY <1>2, DrawAssumption DEF Accepted, Sample, TypeOK
    <3>3. index' \in 0..remaining - 1 BY <3>1, <3>2 DEF Index
    <3> QED BY <1>2, <2>1, <3>3 DEF Take, TypeOK
  <2>2. CASE Reject
    BY <1>2, <2>2, DrawAssumption DEF Reject, TypeOK
  <2>3. CASE UNCHANGED vars
    BY <1>2, <2>3 DEF vars, TypeOK
  <2> QED BY <1>2, <2>1, <2>2, <2>3 DEF Next
<1> QED BY <1>1, <1>2, PTL DEF Spec

(* Every ticket that remains is drawn by equally many samples, whatever      *)
(* their number: draw_index favours no ticket.                               *)
THEOREM FairDraw == Spec => []Uniform
<1>1. ASSUME TypeOK PROVE Uniform
  <2> SUFFICES ASSUME NEW t \in 0..remaining - 1
               PROVE  Cardinality(SamplesFor(t, remaining)) = SAMPLES \div remaining
    BY DEF Uniform
  <2>1. remaining \in 1..MAX_TICKETS BY <1>1 DEF TypeOK
  <2>2. SAMPLES \div remaining \in Nat BY <2>1, FloorIsRemainder
  <2> QED BY <2>1, <2>2, OneSamplePerWindow, FS_CountingElements
<1> QED BY <1>1, DrawTypeCorrect, PTL

(* Fewer samples are rejected than tickets remain, and never more than are   *)
(* accepted: the loop over the nonces ends after a few hashes.               *)
THEOREM DrawIsShort == Spec => []FewRejected
<1>1. ASSUME TypeOK PROVE FewRejected
  <2> DEFINE m == remaining
             f == RejectionFloor(m)
             q == SAMPLES \div m
  <2>1. m \in 1..MAX_TICKETS BY <1>1 DEF TypeOK
  <2>2. m \in Nat \ {0} /\ SAMPLES \in Nat BY <2>1, DrawAssumption
  <2>3. f \in 0..m - 1 /\ q \in Nat \ {0} /\ SAMPLES = q * m + f
    BY <2>1, FloorIsRemainder
  <2>4. q * m >= m /\ q * m \in Int
    <3> HIDE DEF q, m
    <3> QED BY <2>2, <2>3
  <2>5. Sample \ Accepted(m) = 0..f - 1 /\ Accepted(m) = f..SAMPLES - 1
    <3>1. Accepted(m) = { s \in 0..SAMPLES - 1 : s >= f } BY DEF Accepted, Sample
    <3> HIDE DEF f, q, m
    <3> QED BY <3>1, <2>2, <2>3, <2>4 DEF Sample
  <2> HIDE DEF f, q
  <2>6. f \in Int /\ f - 1 \in Int /\ SAMPLES - 1 \in Int
    BY <2>2, <2>3
  <2>7. Cardinality(0..f - 1) = f
    BY <2>2, <2>3, <2>6, FS_Interval
  <2>8. Cardinality(f..SAMPLES - 1) = SAMPLES - f
    <3>1. f <= SAMPLES - 1 BY <2>2, <2>3, <2>4
    <3> QED BY <3>1, <2>2, <2>3, <2>6, FS_Interval
  <2>9. f < m /\ f <= SAMPLES - f
    BY <2>2, <2>3, <2>4
  <2> QED BY <2>5, <2>7, <2>8, <2>9 DEF FewRejected
<1> QED BY <1>1, DrawTypeCorrect, PTL
===============================================================================
