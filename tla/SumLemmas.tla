-------------------------------- MODULE SumLemmas ------------------------------
(***************************************************************************)
(* Sums over finite sets. The model adds up tickets and lamports with      *)
(* MapThenSumSet of FiniteSetsExt; here are the laws of such sums, for any *)
(* function and any finite set.                                            *)
(*                                                                         *)
(* Sums are defined by recursion, and an induction theorem takes the       *)
(* statement as an operator, which the provers cannot instantiate. Each    *)
(* law is therefore proved from a smallest counterexample: MinimalSubset,  *)
(* from the well-foundedness of inclusion among finite sets, gives a       *)
(* minimal set that violates it, and taking the first element out of that  *)
(* set gives a smaller one.                                                *)
(*                                                                         *)
(* The laws of draws say that intervals of the lengths f, laid end to end  *)
(* in the order of at, cover every point below the total length exactly    *)
(* once; those of orders, that finite sets have a top and a Min.           *)
(***************************************************************************)
EXTENDS Integers, FiniteSets, FiniteSetsExt, FiniteSetTheorems,
        WellFoundedInduction, TLAPS

(* The sum of f over a finite set: what the model's sums, TicketsOf and    *)
(* Lamports, are.                                                          *)
SumOver(f, S) == MapThenSumSet(LAMBDA x : f[x], S)

(***************************************************************************)
(* The recursion behind a sum.                                             *)
(***************************************************************************)
(* The element a fold over s takes first.                                  *)
FirstOf(s) == CHOOSE x \in s : TRUE

(* One step of the recursion behind a sum.                                 *)
Unfolded(g, f, s) == f[FirstOf(s)] + g[s \ {FirstOf(s)}]

(* The first element of a set that is not empty is in it.                  *)
LEMMA FirstOfIn == \A s : s # {} => FirstOf(s) \in s
  BY DEF FirstOf

(* g is the table of the sums of f over the subsets of S.                  *)
IsSum(g, f, S) ==
  g = [s \in SUBSET S |-> IF s = {} THEN 0 ELSE Unfolded(g, f, s)]

(* A set of subsets of a finite set has a minimal member. This is how      *)
(* every statement about sums below is proved: a smallest counterexample   *)
(* is taken and shown not to be one.                                       *)
LEMMA MinimalSubset ==
  ASSUME NEW D, IsFiniteSet(D), NEW T, T \subseteq SUBSET D, T # {}
  PROVE  \E X \in T : \A Y \in T : Y \subseteq X => Y = X
<1> DEFINE R == StrictSubsetOrdering(D)
<1>1. IsWellFoundedOn(R, SUBSET D)
  BY FS_StrictSubsetOrderingWellFounded, FS_FiniteSubsetsOfFinite
<1>2. \E X \in T : \A Y \in T : ~(<<Y, X>> \in R)
  <2> HIDE DEF R
  <2> QED BY <1>1, WFMin
<1> QED BY <1>2 DEF StrictSubsetOrdering

(* A table of sums, read at the empty set and at any other.                *)
LEMMA SumUnfolds ==
  ASSUME NEW g, NEW f, NEW S, IsSum(g, f, S), NEW s \in SUBSET S
  PROVE  /\ g[{}] = 0
         /\ s # {} => g[s] = f[FirstOf(s)] + g[s \ {FirstOf(s)}]
<1>1. \A t \in SUBSET S : g[t] = IF t = {} THEN 0 ELSE Unfolded(g, f, t)
  BY DEF IsSum
<1> QED BY <1>1 DEF Unfolded

(* Two tables of sums agree wherever both are defined.                     *)
LEMMA SumUnique ==
  ASSUME NEW D, IsFiniteSet(D), NEW f, NEW A, NEW B, NEW g, NEW h,
         IsSum(g, f, A), IsSum(h, f, B), D \subseteq A, D \subseteq B
  PROVE  g[D] = h[D]
<1> DEFINE T == { s \in SUBSET D : g[s] # h[s] }
<1>1. SUFFICES ASSUME T # {} PROVE FALSE OBVIOUS
<1>2. PICK X \in T : \A Y \in T : Y \subseteq X => Y = X
  <2> HIDE DEF T
  <2>1. T \subseteq SUBSET D BY DEF T
  <2> QED BY <1>1, <2>1, MinimalSubset
<1>3. X \subseteq D /\ g[X] # h[X] OBVIOUS
<1>4. CASE X = {}
  BY <1>4, <1>3, SumUnfolds
<1>5. CASE X # {}
  <2> DEFINE x == FirstOf(X)
  <2>1. x \in X BY <1>5, FirstOfIn
  <2>2. g[X] = f[x] + g[X \ {x}] BY ZenonT(30), <1>3, <1>5, SumUnfolds
  <2>3. h[X] = f[x] + h[X \ {x}] BY <1>3, <1>5, SumUnfolds
  <2>4. g[X \ {x}] = h[X \ {x}] BY <1>2, <1>3, <2>1
  <2> QED BY <1>3, <2>2, <2>3, <2>4
<1> QED BY <1>4, <1>5

(* Every function has a table of sums over the subsets of a finite set.    *)
LEMMA SumExists ==
  ASSUME NEW D, IsFiniteSet(D), NEW f
  PROVE  \E g : IsSum(g, f, D)
<1> DEFINE T == { s \in SUBSET D : ~\E g : IsSum(g, f, s) }
<1>1. SUFFICES ASSUME T # {} PROVE FALSE OBVIOUS
<1>2. PICK X \in T : \A Y \in T : Y \subseteq X => Y = X
  <2> HIDE DEF T
  <2>1. T \subseteq SUBSET D BY DEF T
  <2> QED BY <1>1, <2>1, MinimalSubset
<1>3. X \subseteq D /\ ~\E g : IsSum(g, f, X) OBVIOUS
<1> DEFINE G(s) == CHOOSE g : IsSum(g, f, s)
           V(s) == G(s)[s]
           x == FirstOf(X)
           h == [s \in SUBSET X |->
                   IF s = X THEN IF X = {} THEN 0 ELSE f[x] + V(X \ {x}) ELSE V(s)]
<1>4. \A s \in SUBSET X : s # X => IsSum(G(s), f, s)
  BY <1>2, <1>3
<1>5. \A s \in SUBSET X : h[s] = IF s = {} THEN 0 ELSE Unfolded(h, f, s)
  <2> SUFFICES ASSUME NEW s \in SUBSET X
               PROVE  h[s] = IF s = {} THEN 0 ELSE Unfolded(h, f, s)
    OBVIOUS
  <2> DEFINE y == FirstOf(s)
  <2>1. CASE s = {}
    <3>1. X # {} => V(s) = 0 BY <2>1, <1>4, SumUnfolds
    <3> QED BY <2>1, <3>1
  <2>2. CASE s # {} /\ s = X
    <3>1. y = x /\ x \in X BY <2>2, FirstOfIn
    <3>2. h[X \ {x}] = V(X \ {x}) BY <3>1
    <3>3. h[s] = f[x] + V(X \ {x}) BY <2>2
    <3>4. Unfolded(h, f, s) = f[x] + h[X \ {x}] BY <2>2, <3>1 DEF Unfolded
    <3> QED BY <2>2, <3>2, <3>3, <3>4
  <2>3. CASE s # {} /\ s # X
    <3>1. y \in s /\ s \ {y} # X /\ s \ {y} \in SUBSET X BY <2>3, FirstOfIn
    <3>2. h[s] = V(s) /\ h[s \ {y}] = V(s \ {y}) BY <2>3, <3>1
    <3>3. IsSum(G(s), f, s) /\ IsSum(G(s \ {y}), f, s \ {y}) BY <1>4, <2>3, <3>1
    <3>4. V(s) = f[y] + G(s)[s \ {y}] BY <2>3, <3>3, SumUnfolds
    <3>5. IsFiniteSet(s \ {y}) BY <1>3, <3>1, FS_Subset
    <3>6. G(s)[s \ {y}] = V(s \ {y})
      <4> HIDE DEF G, y
      <4> QED BY <3>1, <3>3, <3>5, SumUnique
    <3>7. Unfolded(h, f, s) = f[y] + h[s \ {y}] BY DEF Unfolded
    <3> HIDE DEF h, G, V, y
    <3> QED BY <2>3, <3>2, <3>4, <3>6, <3>7
  <2> QED BY <2>1, <2>2, <2>3
<1>6. IsSum(h, f, X)
  <2>1. h = [s \in SUBSET X |-> h[s]] OBVIOUS
  <2> HIDE DEF h
  <2> QED BY <1>5, <2>1 DEF IsSum
<1> QED BY <1>3, <1>6
(* SumOver reads such a table.                                             *)
LEMMA SumOverIsSum ==
  ASSUME NEW D, IsFiniteSet(D), NEW f
  PROVE  /\ SumOver(f, {}) = 0
         /\ \E g : IsSum(g, f, D) /\ SumOver(f, D) = g[D]
<1>1. \A S : IsFiniteSet(S) => \E g : IsSum(g, f, S) /\ SumOver(f, S) = g[S]
  <2> SUFFICES ASSUME NEW S, IsFiniteSet(S)
               PROVE  \E g : IsSum(g, f, S) /\ SumOver(f, S) = g[S]
    OBVIOUS
  <2> DEFINE P(iter) == iter = [s \in SUBSET S |->
        IF s = {} THEN 0
        ELSE LET x == CHOOSE x \in s : TRUE IN f[x] + iter[s \ {x}]]
  <2>1. SumOver(f, S) = (CHOOSE iter : P(iter))[S]
    BY DEF SumOver, MapThenSumSet, MapThenFoldSet
  <2>2. PICK h : IsSum(h, f, S) BY SumExists
  <2>3. P(h) BY <2>2 DEF IsSum, Unfolded, FirstOf
  <2> DEFINE G == CHOOSE iter : P(iter)
  <2>4. P(G) BY <2>3
  <2>5. IsSum(G, f, S) BY <2>4 DEF IsSum, Unfolded, FirstOf
  <2> QED BY <2>1, <2>5
<1>2. SumOver(f, {}) = 0
  BY <1>1, FS_EmptySet, SumUnfolds
<1> QED BY <1>1, <1>2
(* The recursion, for SumOver itself.                                      *)
LEMMA SumStep ==
  ASSUME NEW D, IsFiniteSet(D), NEW f, D # {}
  PROVE  /\ FirstOf(D) \in D
         /\ SumOver(f, D) = f[FirstOf(D)] + SumOver(f, D \ {FirstOf(D)})
<1> DEFINE x == FirstOf(D)
<1>1. x \in D BY FirstOfIn
<1>2. IsFiniteSet(D \ {x}) BY FS_RemoveElement
<1>3. PICK g : IsSum(g, f, D) /\ SumOver(f, D) = g[D] BY SumOverIsSum
<1>4. PICK h : IsSum(h, f, D \ {x}) /\ SumOver(f, D \ {x}) = h[D \ {x}]
  BY <1>2, SumOverIsSum
<1>5. g[D] = f[x] + g[D \ {x}] BY <1>3, SumUnfolds
<1>6. g[D \ {x}] = h[D \ {x}]
  <2> HIDE DEF x
  <2> QED BY <1>2, <1>3, <1>4, SumUnique
<1> QED BY <1>1, <1>3, <1>4, <1>5, <1>6

(***************************************************************************)
(* Laws of sums.                                                           *)
(***************************************************************************)
(* Nothing sums to zero.                                                   *)
LEMMA SumEmpty == \A f : SumOver(f, {}) = 0
BY FS_EmptySet, SumOverIsSum

(* Naturals sum to a natural.                                              *)
LEMMA SumNat ==
  ASSUME NEW D, IsFiniteSet(D), NEW f, \A x \in D : f[x] \in Nat
  PROVE  SumOver(f, D) \in Nat
<1> DEFINE T == { s \in SUBSET D : SumOver(f, s) \notin Nat }
<1>1. SUFFICES ASSUME T # {} PROVE FALSE OBVIOUS
<1>2. PICK X \in T : \A Y \in T : Y \subseteq X => Y = X
  <2>1. T \subseteq SUBSET D OBVIOUS
  <2> HIDE DEF T
  <2> QED BY <1>1, <2>1, MinimalSubset
<1>3. X \subseteq D /\ SumOver(f, X) \notin Nat /\ IsFiniteSet(X)
  BY FS_Subset
<1>4. X # {} BY <1>3, SumEmpty
<1>5. FirstOf(X) \in X /\ SumOver(f, X) = f[FirstOf(X)] + SumOver(f, X \ {FirstOf(X)})
  BY <1>3, <1>4, SumStep
<1>6. SumOver(f, X \ {FirstOf(X)}) \in Nat BY <1>2, <1>3, <1>5
<1>7. f[FirstOf(X)] \in Nat BY <1>3, <1>5
<1> QED BY <1>3, <1>5, <1>6, <1>7

(* Integers sum to an integer.                                             *)
LEMMA SumInt ==
  ASSUME NEW D, IsFiniteSet(D), NEW f, \A x \in D : f[x] \in Int
  PROVE  SumOver(f, D) \in Int
<1> DEFINE T == { s \in SUBSET D : SumOver(f, s) \notin Int }
<1>1. SUFFICES ASSUME T # {} PROVE FALSE OBVIOUS
<1>2. PICK X \in T : \A Y \in T : Y \subseteq X => Y = X
  <2>1. T \subseteq SUBSET D OBVIOUS
  <2> HIDE DEF T
  <2> QED BY <1>1, <2>1, MinimalSubset
<1>3. X \subseteq D /\ SumOver(f, X) \notin Int /\ IsFiniteSet(X)
  BY FS_Subset
<1>4. X # {} BY <1>3, SumEmpty
<1>5. FirstOf(X) \in X /\ SumOver(f, X) = f[FirstOf(X)] + SumOver(f, X \ {FirstOf(X)})
  BY <1>3, <1>4, SumStep
<1>6. SumOver(f, X \ {FirstOf(X)}) \in Int BY <1>2, <1>3, <1>5
<1>7. f[FirstOf(X)] \in Int BY <1>3, <1>5
<1> QED BY <1>3, <1>5, <1>6, <1>7

(* Any element, not just the first, may be taken out of a sum.             *)
LEMMA SumSplit ==
  ASSUME NEW D, IsFiniteSet(D), NEW f, \A x \in D : f[x] \in Int, NEW e \in D
  PROVE  SumOver(f, D) = f[e] + SumOver(f, D \ {e})
<1> DEFINE Splits(s, x) == SumOver(f, s) = f[x] + SumOver(f, s \ {x})
           T == { s \in SUBSET D : \E x \in s : ~Splits(s, x) }
<1>1. SUFFICES ASSUME T # {} PROVE FALSE OBVIOUS
<1>2. PICK X \in T : \A Y \in T : Y \subseteq X => Y = X
  <2>1. T \subseteq SUBSET D OBVIOUS
  <2> HIDE DEF T
  <2> QED BY <1>1, <2>1, MinimalSubset
<1>3. PICK x \in X : ~Splits(X, x) OBVIOUS
<1>4. X \subseteq D /\ IsFiniteSet(X) /\ X # {}
  BY FS_Subset
<1> DEFINE c == FirstOf(X)
<1>5. c \in X /\ Splits(X, c) BY <1>4, SumStep
<1>6. c # x BY <1>3, <1>5
<1> HIDE DEF c
<1>7. Splits(X \ {c}, x) /\ Splits(X \ {x}, c)
  BY <1>2, <1>3, <1>4, <1>5, <1>6
<1>8. SumOver(f, (X \ {c}) \ {x}) = SumOver(f, (X \ {x}) \ {c})
  <2>1. (X \ {c}) \ {x} = (X \ {x}) \ {c} OBVIOUS
  <2> QED BY <2>1, Zenon
<1>9. SumOver(f, (X \ {x}) \ {c}) \in Int
  <2>1. IsFiniteSet((X \ {x}) \ {c}) BY <1>4, FS_RemoveElement
  <2> QED BY <2>1, <1>4, SumInt
<1>10. f[c] \in Int /\ f[x] \in Int BY <1>3, <1>4, <1>5
<1>11. SumOver(f, X) = f[x] + SumOver(f, X \ {x})
  BY <1>5, <1>7, <1>8, <1>9, <1>10
<1> QED BY <1>3, <1>11

(* A new element adds what it carries.                                     *)
LEMMA SumJoin ==
  ASSUME NEW D, IsFiniteSet(D), NEW f, \A x \in D : f[x] \in Int,
         NEW e, e \notin D, f[e] \in Int
  PROVE  SumOver(f, D \cup {e}) = SumOver(f, D) + f[e]
<1>1. IsFiniteSet(D \cup {e}) BY FS_AddElement
<1>2. SumOver(f, (D \cup {e}) \ {e}) = SumOver(f, D)
  <2>1. (D \cup {e}) \ {e} = D OBVIOUS
  <2> QED BY <2>1, Zenon
<1>3. SumOver(f, D) \in Int BY SumInt
<1>4. SumOver(f, D \cup {e}) = f[e] + SumOver(f, (D \cup {e}) \ {e})
  BY <1>1, SumSplit
<1> QED BY <1>2, <1>3, <1>4

(* The same for naturals.                                                  *)
LEMMA SumRemove ==
  ASSUME NEW D, IsFiniteSet(D), NEW f, \A x \in D : f[x] \in Nat, NEW e \in D
  PROVE  SumOver(f, D) = f[e] + SumOver(f, D \ {e})
BY SumSplit

(* One natural more.                                                       *)
LEMMA SumAdd ==
  ASSUME NEW D, IsFiniteSet(D), NEW f, \A x \in D : f[x] \in Nat,
         NEW e, e \notin D, f[e] \in Nat
  PROVE  SumOver(f, D \cup {e}) = SumOver(f, D) + f[e]
BY SumJoin

(* The sum depends only on the values over the set.                        *)
LEMMA SumSame ==
  ASSUME NEW D, IsFiniteSet(D), NEW f, NEW g, \A x \in D : f[x] = g[x]
  PROVE  SumOver(f, D) = SumOver(g, D)
<1> DEFINE T == { s \in SUBSET D : SumOver(f, s) # SumOver(g, s) }
<1>1. SUFFICES ASSUME T # {} PROVE FALSE OBVIOUS
<1>2. PICK X \in T : \A Y \in T : Y \subseteq X => Y = X
  <2>1. T \subseteq SUBSET D OBVIOUS
  <2> HIDE DEF T
  <2> QED BY <1>1, <2>1, MinimalSubset
<1>3. X \subseteq D /\ SumOver(f, X) # SumOver(g, X) /\ IsFiniteSet(X)
  BY FS_Subset
<1>4. X # {} BY <1>3, SumEmpty
<1> DEFINE c == FirstOf(X)
<1>5. /\ c \in X
      /\ SumOver(f, X) = f[c] + SumOver(f, X \ {c})
      /\ SumOver(g, X) = g[c] + SumOver(g, X \ {c})
  BY <1>3, <1>4, SumStep
<1>6. SumOver(f, X \ {c}) = SumOver(g, X \ {c}) BY <1>2, <1>3, <1>5
<1> QED BY <1>3, <1>5, <1>6

(* Sums over disjoint sets add up.                                         *)
LEMMA SumUnion ==
  ASSUME NEW A, IsFiniteSet(A), NEW B, IsFiniteSet(B), A \cap B = {},
         NEW f, \A x \in A \cup B : f[x] \in Nat
  PROVE  SumOver(f, A \cup B) = SumOver(f, A) + SumOver(f, B)
<1> DEFINE T == { s \in SUBSET B : SumOver(f, A \cup s) # SumOver(f, A) + SumOver(f, s) }
<1>1. SUFFICES ASSUME T # {} PROVE FALSE OBVIOUS
<1>2. PICK X \in T : \A Y \in T : Y \subseteq X => Y = X
  <2>1. T \subseteq SUBSET B OBVIOUS
  <2> HIDE DEF T
  <2> QED BY <1>1, <2>1, MinimalSubset
<1>3. X \subseteq B /\ IsFiniteSet(X) BY FS_Subset
<1>4. SumOver(f, A) \in Nat /\ SumOver(f, X) \in Nat BY <1>3, SumNat
<1>5. CASE X = {}
  <2>1. A \cup X = A BY <1>5
  <2>2. SumOver(f, X) = 0 BY <1>5, SumEmpty
  <2> QED BY <1>4, <2>1, <2>2
<1>6. CASE X # {}
  <2>1. PICK c : c \in X BY <1>6
  <2>2. f[c] \in Nat /\ IsFiniteSet(A \cup X) /\ IsFiniteSet(X \ {c})
    <3>1. IsFiniteSet(A \cup X) BY <1>3, FS_Union
    <3>2. IsFiniteSet(X \ {c}) BY <1>3, FS_RemoveElement
    <3> HIDE DEF T
    <3> QED BY <1>3, <2>1, <3>1, <3>2
  <2>3. SumOver(f, A \cup X) = f[c] + SumOver(f, A \cup (X \ {c}))
    <3>1. \A e \in A \cup X : f[e] \in Nat BY <1>3
    <3>2. SumOver(f, A \cup X) = f[c] + SumOver(f, (A \cup X) \ {c})
      <4> HIDE DEF T
      <4> QED BY <2>1, <2>2, <3>1, SumRemove
    <3>3. SumOver(f, (A \cup X) \ {c}) = SumOver(f, A \cup (X \ {c}))
      <4>1. (A \cup X) \ {c} = A \cup (X \ {c}) BY <1>3, <2>1
      <4> QED BY <4>1, Zenon
    <3> QED BY <3>2, <3>3
  <2>4. SumOver(f, X) = f[c] + SumOver(f, X \ {c})
    BY <1>3, <2>1, SumRemove
  <2>5. SumOver(f, A \cup (X \ {c})) = SumOver(f, A) + SumOver(f, X \ {c})
    BY <1>2, <1>3, <2>1
  <2>6. SumOver(f, X \ {c}) \in Nat BY <1>3, <2>2, SumNat
  <2> QED BY <1>4, <2>2, <2>3, <2>4, <2>5, <2>6
<1> QED BY <1>5, <1>6

(* A set and its complement sum to the whole, and a part to no more than   *)
(* the whole.                                                              *)
LEMMA SumParts ==
  ASSUME NEW D, IsFiniteSet(D), NEW A \in SUBSET D, NEW f, \A x \in D : f[x] \in Nat
  PROVE  /\ SumOver(f, D) = SumOver(f, A) + SumOver(f, D \ A)
         /\ SumOver(f, A) <= SumOver(f, D)
<1>1. IsFiniteSet(A) /\ IsFiniteSet(D \ A) BY FS_Subset
<1>2. SumOver(f, A \cup (D \ A)) = SumOver(f, D)
  <2>1. A \cup (D \ A) = D OBVIOUS
  <2> QED BY <2>1, Zenon
<1>3. SumOver(f, A \cup (D \ A)) = SumOver(f, A) + SumOver(f, D \ A)
  BY <1>1, SumUnion
<1>4. SumOver(f, A) \in Nat /\ SumOver(f, D \ A) \in Nat BY <1>1, SumNat
<1> QED BY <1>2, <1>3, <1>4

(* No element carries more than the sum.                                   *)
LEMMA SumMember ==
  ASSUME NEW D, IsFiniteSet(D), NEW f, \A x \in D : f[x] \in Nat, NEW e \in D
  PROVE  f[e] <= SumOver(f, D)
<1>1. IsFiniteSet(D \ {e}) BY FS_RemoveElement
<1>2. SumOver(f, D \ {e}) \in Nat BY <1>1, SumNat
<1> QED BY <1>2, SumRemove

(* A change of one value changes the sum by as much.                       *)
LEMMA SumChange ==
  ASSUME NEW D, IsFiniteSet(D), NEW f, NEW g, NEW e \in D,
         \A x \in D : f[x] \in Int, g[e] \in Int,
         \A x \in D \ {e} : g[x] = f[x]
  PROVE  SumOver(g, D) + f[e] = SumOver(f, D) + g[e]
<1>1. IsFiniteSet(D \ {e}) BY FS_RemoveElement
<1>2. SumOver(f, D \ {e}) \in Int BY <1>1, SumInt
<1>3. SumOver(g, D \ {e}) = SumOver(f, D \ {e}) BY <1>1, SumSame
<1>4. SumOver(f, D) = f[e] + SumOver(f, D \ {e}) BY SumSplit
<1>5. SumOver(g, D) = g[e] + SumOver(g, D \ {e})
  <2>1. \A x \in D : g[x] \in Int OBVIOUS
  <2> QED BY <2>1, SumSplit
<1> QED BY <1>2, <1>3, <1>4, <1>5

(* One natural changed.                                                    *)
LEMMA SumUpdate ==
  ASSUME NEW D, IsFiniteSet(D), NEW f, NEW g, NEW e \in D,
         \A x \in D : f[x] \in Nat, g[e] \in Nat,
         \A x \in D \ {e} : g[x] = f[x]
  PROVE  SumOver(g, D) + f[e] = SumOver(f, D) + g[e]
BY SumChange

(* Sums of two functions add up.                                           *)
LEMMA SumPlus ==
  ASSUME NEW D, IsFiniteSet(D), NEW f, NEW g, NEW h,
         \A x \in D : f[x] \in Nat /\ g[x] \in Nat /\ h[x] = f[x] + g[x]
  PROVE  SumOver(h, D) = SumOver(f, D) + SumOver(g, D)
<1> DEFINE T == { s \in SUBSET D : SumOver(h, s) # SumOver(f, s) + SumOver(g, s) }
<1>1. SUFFICES ASSUME T # {} PROVE FALSE OBVIOUS
<1>2. PICK X \in T : \A Y \in T : Y \subseteq X => Y = X
  <2>1. T \subseteq SUBSET D OBVIOUS
  <2> HIDE DEF T
  <2> QED BY <1>1, <2>1, MinimalSubset
<1>3. X \subseteq D /\ SumOver(h, X) # SumOver(f, X) + SumOver(g, X) /\ IsFiniteSet(X)
  BY FS_Subset
<1>4. X # {}
  <2>1. SumOver(f, {}) = 0 /\ SumOver(g, {}) = 0 /\ SumOver(h, {}) = 0 BY SumEmpty
  <2> QED BY <1>3, <2>1
<1> DEFINE c == FirstOf(X)
<1>5. /\ c \in X
      /\ SumOver(f, X) = f[c] + SumOver(f, X \ {c})
      /\ SumOver(g, X) = g[c] + SumOver(g, X \ {c})
      /\ SumOver(h, X) = h[c] + SumOver(h, X \ {c})
  BY <1>3, <1>4, SumStep
<1> HIDE DEF c
<1>6. SumOver(h, X \ {c}) = SumOver(f, X \ {c}) + SumOver(g, X \ {c})
  BY <1>2, <1>3, <1>5
<1>7. f[c] \in Nat /\ g[c] \in Nat /\ h[c] = f[c] + g[c] BY <1>3, <1>5
<1>8. IsFiniteSet(X \ {c}) BY <1>3, FS_RemoveElement
<1>9. SumOver(f, X \ {c}) \in Nat /\ SumOver(g, X \ {c}) \in Nat
  BY <1>3, <1>8, SumNat
<1> HIDE DEF T
<1> QED BY <1>3, <1>5, <1>6, <1>7, <1>9

(* A factor comes out of a sum.                                            *)
LEMMA SumScale ==
  ASSUME NEW D, IsFiniteSet(D), NEW f, NEW g, NEW k \in Nat,
         \A x \in D : f[x] \in Nat /\ g[x] = k * f[x]
  PROVE  SumOver(g, D) = k * SumOver(f, D)
<1> DEFINE T == { s \in SUBSET D : SumOver(g, s) # k * SumOver(f, s) }
<1>1. SUFFICES ASSUME T # {} PROVE FALSE OBVIOUS
<1>2. PICK X \in T : \A Y \in T : Y \subseteq X => Y = X
  <2>1. T \subseteq SUBSET D OBVIOUS
  <2> HIDE DEF T
  <2> QED BY <1>1, <2>1, MinimalSubset
<1>3. X \subseteq D /\ SumOver(g, X) # k * SumOver(f, X) /\ IsFiniteSet(X)
  BY FS_Subset
<1>4. X # {}
  <2>1. SumOver(f, {}) = 0 /\ SumOver(g, {}) = 0 /\ k * 0 = 0 BY SumEmpty
  <2> QED BY <1>3, <2>1
<1> DEFINE c == FirstOf(X)
<1>5. /\ c \in X
      /\ SumOver(f, X) = f[c] + SumOver(f, X \ {c})
      /\ SumOver(g, X) = g[c] + SumOver(g, X \ {c})
  BY <1>3, <1>4, SumStep
<1> HIDE DEF c
<1>6. SumOver(g, X \ {c}) = k * SumOver(f, X \ {c})
  BY <1>2, <1>3, <1>5
<1>7. f[c] \in Nat /\ g[c] = k * f[c] BY <1>3, <1>5
<1>8. IsFiniteSet(X \ {c}) BY <1>3, FS_RemoveElement
<1>9. SumOver(f, X \ {c}) \in Nat BY <1>3, <1>8, SumNat
<1> HIDE DEF T
<1>10. \A a, b \in Nat : k * (a + b) = k * a + k * b OBVIOUS
<1> QED BY <1>3, <1>5, <1>6, <1>7, <1>9, <1>10

(* Equal values sum to a multiple of their number.                         *)
LEMMA SumConst ==
  ASSUME NEW D, IsFiniteSet(D), NEW f, NEW k \in Nat, \A x \in D : f[x] = k
  PROVE  SumOver(f, D) = k * Cardinality(D)
<1> DEFINE T == { s \in SUBSET D : SumOver(f, s) # k * Cardinality(s) }
<1>1. SUFFICES ASSUME T # {} PROVE FALSE OBVIOUS
<1>2. PICK X \in T : \A Y \in T : Y \subseteq X => Y = X
  <2>1. T \subseteq SUBSET D OBVIOUS
  <2> HIDE DEF T
  <2> QED BY <1>1, <2>1, MinimalSubset
<1>3. X \subseteq D /\ SumOver(f, X) # k * Cardinality(X) /\ IsFiniteSet(X)
  BY FS_Subset
<1>4. X # {}
  <2>1. k * 0 = 0 OBVIOUS
  <2> QED BY <1>3, <2>1, SumEmpty, FS_EmptySet
<1> DEFINE c == FirstOf(X)
<1>5. c \in X /\ SumOver(f, X) = f[c] + SumOver(f, X \ {c})
  BY <1>3, <1>4, SumStep
<1> HIDE DEF c
<1>6. SumOver(f, X \ {c}) = k * Cardinality(X \ {c})
  BY <1>2, <1>3, <1>5
<1>7. f[c] = k BY <1>3, <1>5
<1>8. /\ Cardinality(X \ {c}) = Cardinality(X) - 1
      /\ Cardinality(X \ {c}) \in Nat /\ Cardinality(X) \in Nat
  BY <1>3, <1>5, FS_RemoveElement, FS_CardinalityType
<1> HIDE DEF T
<1>9. \A a \in Nat : k * (a + 1) = k * a + k OBVIOUS
<1>10. Cardinality(X) = Cardinality(X \ {c}) + 1 BY <1>8
<1>11. \A a \in Nat : k * a \in Nat OBVIOUS
<1> QED BY <1>3, <1>5, <1>6, <1>7, <1>8, <1>9, <1>10, <1>11

(* A finite set that is not empty has a member no other is above.          *)
LEMMA Greatest ==
  ASSUME NEW D, IsFiniteSet(D), D # {}, NEW at, \A x \in D : at[x] \in Nat
  PROVE  \E m \in D : \A x \in D : at[x] <= at[m]
<1> DEFINE T == { s \in SUBSET D : /\ s # {}
                                   /\ \A x \in s, y \in D : at[y] > at[x] => y \in s }
<1>1. T # {}
  <2>1. D \in T OBVIOUS
  <2> QED BY <2>1
<1>2. PICK X \in T : \A Y \in T : Y \subseteq X => Y = X
  <2>1. T \subseteq SUBSET D OBVIOUS
  <2> HIDE DEF T
  <2> QED BY <1>1, <2>1, MinimalSubset
<1>3. /\ X \subseteq D /\ X # {}
      /\ \A x \in X, y \in D : at[y] > at[x] => y \in X
  OBVIOUS
<1>4. PICK m : m \in X BY <1>3
<1>5. ASSUME NEW y \in D, at[y] > at[m] PROVE FALSE
  <2> DEFINE Y == { x \in D : at[x] >= at[y] }
  <2>1. Y \in T BY <1>5
  <2>2. Y \subseteq X BY <1>3, <1>4, <1>5
  <2>3. m \notin Y BY <1>3, <1>4, <1>5
  <2> QED BY <1>2, <1>4, <2>1, <2>2, <2>3
<1> QED BY <1>3, <1>4, <1>5

(***************************************************************************)
(* Weighted draws.                                                         *)
(***************************************************************************)
(* Members of D that come before x in the order of at.                     *)
Ahead(at, D, x) == { y \in D : at[y] < at[x] }

(* Laid end to end in the order of at, the intervals of length f put the   *)
(* point d into the interval of x: the way a weighted draw picks a ticket. *)
Covers(f, at, D, d, x) ==
  /\ SumOver(f, Ahead(at, D, x)) <= d
  /\ d < SumOver(f, Ahead(at, D, x)) + f[x]

(* A covered point lies below the total length.                            *)
LEMMA CoverWithin ==
  ASSUME NEW D, IsFiniteSet(D), NEW f, NEW at, NEW d \in Nat,
         \A x \in D : f[x] \in Nat /\ at[x] \in Nat,
         NEW x \in D, Covers(f, at, D, d, x)
  PROVE  d < SumOver(f, D)
<1> DEFINE A == Ahead(at, D, x)
<1>1. A \subseteq D /\ x \notin A BY DEF Ahead
<1>2. IsFiniteSet(A) /\ IsFiniteSet(A \cup {x}) BY <1>1, FS_Subset, FS_AddElement
<1>3. \A y \in A : f[y] \in Nat BY <1>1
<1>4. d < SumOver(f, A) + f[x] BY DEF Covers
<1> HIDE DEF A
<1>5. SumOver(f, A \cup {x}) = SumOver(f, A) + f[x] BY <1>1, <1>2, <1>3, SumAdd
<1>6. SumOver(f, A \cup {x}) <= SumOver(f, D) BY <1>1, SumParts
<1>7. SumOver(f, A) \in Nat /\ SumOver(f, D) \in Nat BY <1>2, <1>3, SumNat
<1> QED BY <1>4, <1>5, <1>6, <1>7

(* No point is covered twice.                                              *)
LEMMA CoverUnique ==
  ASSUME NEW D, IsFiniteSet(D), NEW f, NEW at, NEW d \in Nat,
         \A x \in D : f[x] \in Nat /\ at[x] \in Nat,
         \A x, y \in D : at[x] = at[y] => x = y,
         NEW v \in D, Covers(f, at, D, d, v), NEW w \in D, Covers(f, at, D, d, w)
  PROVE  v = w
<1>1. ASSUME NEW x \in D, NEW y \in D, at[x] < at[y], Covers(f, at, D, d, x),
             Covers(f, at, D, d, y)
      PROVE  FALSE
  <2> DEFINE A == Ahead(at, D, x)
             B == Ahead(at, D, y)
  <2>1. A \subseteq D /\ x \notin A /\ B \subseteq D /\ A \cup {x} \in SUBSET B
    BY <1>1 DEF Ahead
  <2>2. IsFiniteSet(A) /\ IsFiniteSet(B) BY <2>1, FS_Subset
  <2>3. d < SumOver(f, A) + f[x] /\ SumOver(f, B) <= d BY <1>1 DEF Covers
  <2> HIDE DEF A, B
  <2>4. SumOver(f, A \cup {x}) = SumOver(f, A) + f[x] BY <2>1, <2>2, SumAdd
  <2>5. SumOver(f, A \cup {x}) <= SumOver(f, B) BY <2>1, <2>2, SumParts
  <2>6. SumOver(f, A) \in Nat /\ SumOver(f, B) \in Nat BY <2>1, <2>2, SumNat
  <2> QED BY <2>3, <2>4, <2>5, <2>6
<1>2. at[v] \in Nat /\ at[w] \in Nat OBVIOUS
<1>3. ~(at[v] < at[w]) /\ ~(at[w] < at[v]) BY <1>1
<1> QED BY <1>2, <1>3

(* Every point below the total length is covered.                          *)
LEMMA CoverExists ==
  ASSUME NEW D, IsFiniteSet(D), NEW f, NEW at, NEW d \in Nat,
         \A x \in D : f[x] \in Nat /\ at[x] \in Nat,
         \A x, y \in D : at[x] = at[y] => x = y,
         d < SumOver(f, D)
  PROVE  \E x \in D : Covers(f, at, D, d, x)
<1> DEFINE T == { s \in SUBSET D : /\ d < SumOver(f, s)
                                   /\ \A x \in s, y \in D : at[y] < at[x] => y \in s }
<1>1. T # {}
  <2>1. D \in T OBVIOUS
  <2> QED BY <2>1
<1>2. PICK X \in T : \A Y \in T : Y \subseteq X => Y = X
  <2>1. T \subseteq SUBSET D OBVIOUS
  <2> HIDE DEF T
  <2> QED BY <1>1, <2>1, MinimalSubset
<1>3. /\ X \subseteq D /\ d < SumOver(f, X)
      /\ \A x \in X, y \in D : at[y] < at[x] => y \in X
  OBVIOUS
<1>4. X # {} BY <1>3, SumEmpty
<1>5. IsFiniteSet(X) /\ \A x \in X : f[x] \in Nat BY <1>3, FS_Subset
<1>6. PICK m \in X : \A x \in X : at[x] <= at[m] BY <1>3, <1>4, <1>5, Greatest
<1>7. X \ {m} = Ahead(at, D, m) BY <1>3, <1>6 DEF Ahead
<1>8. SumOver(f, X \ {m}) <= d
  <2>1. X \ {m} \notin T
    <3>1. X \ {m} # X BY <1>6
    <3> HIDE DEF T
    <3> QED BY <1>2, <3>1
  <2>2. \A x \in X \ {m}, y \in D : at[y] < at[x] => y \in X \ {m}
    <3>1. \A x \in X : at[x] \in Nat /\ at[m] \in Nat BY <1>3
    <3>2. \A x \in X : ~(at[m] < at[x]) BY <1>6, <3>1
    <3> QED BY <1>3, <3>2
  <2>3. ~(d < SumOver(f, X \ {m})) BY <1>3, <2>1, <2>2
  <2>4. SumOver(f, X \ {m}) \in Nat
    <3>1. IsFiniteSet(X \ {m}) BY <1>5, FS_RemoveElement
    <3> QED BY <1>5, <3>1, SumNat
  <2> QED BY <2>3, <2>4
<1>9. SumOver(f, X) = f[m] + SumOver(f, X \ {m}) BY <1>5, SumRemove
<1>10. SumOver(f, X \ {m}) = SumOver(f, Ahead(at, D, m)) BY <1>7, Zenon
<1>11. SumOver(f, X \ {m}) \in Nat /\ f[m] \in Nat
  <2>1. IsFiniteSet(X \ {m}) BY <1>5, FS_RemoveElement
  <2> QED BY <1>5, <2>1, SumNat
<1>12. Covers(f, at, D, d, m) BY <1>3, <1>8, <1>9, <1>10, <1>11 DEF Covers
<1> QED BY <1>3, <1>12

(* Distinct values are as many as the elements they come from.             *)
LEMMA ImageSize ==
  ASSUME NEW D, IsFiniteSet(D), NEW f, \A x, y \in D : f[x] = f[y] => x = y
  PROVE  /\ IsFiniteSet({ f[x] : x \in D })
         /\ Cardinality({ f[x] : x \in D }) = Cardinality(D)
<1> DEFINE T == { f[x] : x \in D }
           g == [x \in D |-> f[x]]
<1>1. g \in [D -> T] OBVIOUS
<1>2. \A x, y \in D : g[x] = g[y] => x = y OBVIOUS
<1>3. \A t \in T : \E x \in D : g[x] = t OBVIOUS
<1> HIDE DEF g, T
<1>4. g \in Bijection(D, T)
  BY <1>1, <1>2, <1>3 DEF Bijection, Injection, Surjection, IsInjective
<1>5. ExistsBijection(D, T) BY <1>4 DEF ExistsBijection
<1> QED BY <1>5, FS_Bijection DEF T

(***************************************************************************)
(* Orders.                                                                 *)
(***************************************************************************)
(* The image of a finite set is finite.                                    *)
LEMMA ImageFinite ==
  ASSUME NEW D, IsFiniteSet(D), NEW f
  PROVE  IsFiniteSet({ f[x] : x \in D })
<1> DEFINE T == { f[x] : x \in D }
           g == [x \in D |-> f[x]]
<1>1. g \in [D -> T] /\ \A y \in T : \E x \in D : g[x] = y OBVIOUS
<1> HIDE DEF g
<1>2. g \in Surjection(D, T) BY <1>1 DEF Surjection
<1> QED BY <1>2, FS_Surjection

(* A total and transitive relation has a top in every finite set that is   *)
(* not empty.                                                              *)
LEMMA TopExists ==
  ASSUME NEW D, IsFiniteSet(D), D # {}, NEW R,
         \A a, b \in D : a # b => <<a, b>> \in R \/ <<b, a>> \in R,
         \A a, b, c \in D : <<a, b>> \in R /\ <<b, c>> \in R => <<a, c>> \in R
  PROVE  \E t \in D : \A d \in D \ {t} : <<t, d>> \in R
<1> DEFINE Top(t, X) == \A d \in X \ {t} : <<t, d>> \in R
           T == { X \in SUBSET D : X # {} /\ \A t \in X : ~Top(t, X) }
<1>1. SUFFICES ASSUME T # {} PROVE FALSE
  <2>1. T = {} => D \notin T OBVIOUS
  <2>2. D \notin T => \E t \in D : Top(t, D) OBVIOUS
  <2> QED BY <2>1, <2>2
<1>2. PICK X \in T : \A Y \in T : Y \subseteq X => Y = X
  <2>1. T \subseteq SUBSET D OBVIOUS
  <2> HIDE DEF T
  <2> QED BY <1>1, <2>1, MinimalSubset
<1>3. PICK c \in X : TRUE OBVIOUS
<1>4. X \ {c} \notin T
  <2>1. X \ {c} \subseteq X /\ X \ {c} # X OBVIOUS
  <2> QED BY <1>2, <2>1
<1>5. CASE X \ {c} = {} BY <1>5
<1>6. CASE X \ {c} # {}
  <2>1. PICK t \in X \ {c} : Top(t, X \ {c}) BY <1>4, <1>6
  <2>2. t \in D /\ c \in D /\ t # c OBVIOUS
  <2>3. CASE <<t, c>> \in R
    <3>1. Top(t, X) BY <2>1, <2>3
    <3> QED BY <3>1
  <2>4. CASE <<c, t>> \in R
    <3>1. Top(c, X)
      <4> SUFFICES ASSUME NEW d \in X \ {c} PROVE <<c, d>> \in R OBVIOUS
      <4>1. CASE d = t BY <2>4, <4>1
      <4>2. CASE d # t
        <5>1. <<t, d>> \in R BY <2>1, <4>2
        <5>2. d \in D OBVIOUS
        <5> QED BY <2>2, <2>4, <5>1, <5>2
      <4> QED BY <4>1, <4>2
    <3> QED BY <3>1
  <2> QED BY <2>2, <2>3, <2>4
<1> QED BY <1>5, <1>6

(* Min of a finite set of integers is in it, and nothing in it is smaller. *)
LEMMA MinIs ==
  ASSUME NEW S \in SUBSET Int, IsFiniteSet(S), S # {}
  PROVE  Min(S) \in S /\ \A y \in S : Min(S) <= y
<1> DEFINE R == { p \in S \X S : p[1] <= p[2] }
<1>1. \A a, b \in S : <<a, b>> \in R <=> a <= b OBVIOUS
<1>2. \E t \in S : \A d \in S \ {t} : <<t, d>> \in R
  <2>1. \A a, b \in S : a # b => <<a, b>> \in R \/ <<b, a>> \in R BY <1>1
  <2>2. \A a, b, c \in S : <<a, b>> \in R /\ <<b, c>> \in R => <<a, c>> \in R BY <1>1
  <2> HIDE DEF R
  <2> QED BY <2>1, <2>2, TopExists
<1> HIDE DEF R
<1>3. PICK t \in S : \A d \in S \ {t} : <<t, d>> \in R BY <1>2
<1>4. \A y \in S : t <= y
  <2> SUFFICES ASSUME NEW y \in S PROVE t <= y OBVIOUS
  <2>1. CASE y = t BY <2>1
  <2>2. CASE y # t
    <3>1. <<t, y>> \in R BY <1>3, <2>2
    <3> QED BY <1>1, <3>1
  <2> QED BY <2>1, <2>2
<1> QED BY <1>4 DEF Min

(* A member below which nothing lies is the Min.                           *)
LEMMA MinUnique ==
  ASSUME NEW S \in SUBSET Int, NEW m \in S, \A y \in S : m <= y
  PROVE  Min(S) = m
<1>1. Min(S) \in S /\ \A y \in S : Min(S) <= y BY DEF Min
<1>2. Min(S) \in Int /\ m \in Int BY <1>1
<1>3. Min(S) <= m /\ m <= Min(S) BY <1>1
<1> QED BY <1>2, <1>3

(* The Min of a union may be taken of one part first.                      *)
LEMMA MinJoin ==
  ASSUME NEW A \in SUBSET Int, NEW B \in SUBSET Int, IsFiniteSet(A), A # {}, IsFiniteSet(B)
  PROVE  Min({Min(A)} \cup B) = Min(A \cup B)
<1>1. Min(A) \in A /\ \A y \in A : Min(A) <= y BY MinIs
<1> DEFINE C == A \cup B
<1>2. IsFiniteSet(C) /\ C # {} /\ C \in SUBSET Int BY FS_Union
<1> HIDE DEF C
<1>3. Min(C) \in C /\ \A y \in C : Min(C) <= y BY <1>2, MinIs
<1> DEFINE E == {Min(A)} \cup B
<1>4. E \in SUBSET Int BY <1>1
<1>5. Min(C) \in E
  <2>1. CASE Min(C) \in B BY <2>1
  <2>2. CASE Min(C) \in A
    <3>1. Min(A) <= Min(C) /\ Min(C) <= Min(A) BY <1>1, <1>3, <2>2 DEF C
    <3>2. Min(A) \in Int /\ Min(C) \in Int BY <1>1, <1>2, <1>3
    <3>3. Min(A) = Min(C) BY <3>1, <3>2
    <3> QED BY <3>3
  <2> QED BY <1>3, <2>1, <2>2 DEF C
<1>6. \A y \in E : Min(C) <= y BY <1>1, <1>3 DEF C
<1> HIDE DEF E
<1>7. Min(E) = Min(C) BY <1>4, <1>5, <1>6, MinUnique
<1> QED BY <1>7 DEF C, E

(* Renaming the elements of a finite set, one to one, leaves the sum       *)
(* alone.                                                                  *)
LEMMA SumImage ==
  ASSUME NEW D, IsFiniteSet(D), NEW f, NEW g, NEW h,
         \A x, y \in D : h[x] = h[y] => x = y,
         \A x \in D : f[x] \in Nat /\ g[h[x]] = f[x]
  PROVE  SumOver(g, { h[x] : x \in D }) = SumOver(f, D)
<1> DEFINE I(s) == { h[x] : x \in s }
           T == { s \in SUBSET D : SumOver(g, I(s)) # SumOver(f, s) }
<1>1. SUFFICES ASSUME T # {} PROVE FALSE OBVIOUS
<1>2. PICK X \in T : \A Y \in T : Y \subseteq X => Y = X
  <2>1. T \subseteq SUBSET D OBVIOUS
  <2> HIDE DEF T
  <2> QED BY <1>1, <2>1, MinimalSubset
<1>3. X \subseteq D /\ SumOver(g, I(X)) # SumOver(f, X) /\ IsFiniteSet(X)
  BY FS_Subset
<1>4. X # {}
  <2>1. I({}) = {} OBVIOUS
  <2>2. SumOver(g, I({})) = 0 /\ SumOver(f, {}) = 0
    <3> HIDE DEF I
    <3> QED BY <2>1, SumEmpty
  <2> HIDE DEF I
  <2> QED BY <1>3, <2>2
<1> DEFINE c == FirstOf(X)
<1>5. c \in X /\ SumOver(f, X) = f[c] + SumOver(f, X \ {c})
  BY <1>3, <1>4, SumStep
<1> HIDE DEF c
<1>6. SumOver(g, I(X \ {c})) = SumOver(f, X \ {c})
  BY <1>2, <1>3, <1>5
<1>7. I(X) = I(X \ {c}) \cup {h[c]} /\ h[c] \notin I(X \ {c})
  BY <1>3, <1>5
<1>8. /\ f[c] \in Nat /\ g[h[c]] = f[c] /\ g[h[c]] \in Nat
      /\ \A y \in I(X \ {c}) : g[y] \in Nat
  BY <1>3, <1>5
<1>9. IsFiniteSet(I(X \ {c}))
  <2>1. IsFiniteSet(X \ {c}) BY <1>3, FS_RemoveElement
  <2> QED BY <2>1, ImageFinite
<1> HIDE DEF T, I
<1>10. SumOver(g, I(X \ {c}) \cup {h[c]}) = SumOver(g, I(X \ {c})) + g[h[c]]
  <2> DEFINE J == I(X \ {c})
             e == h[c]
  <2>1. /\ IsFiniteSet(J) /\ \A y \in J : g[y] \in Nat
        /\ e \notin J /\ g[e] \in Nat
    BY <1>7, <1>8, <1>9
  <2> HIDE DEF J, e
  <2>2. SumOver(g, J \cup {e}) = SumOver(g, J) + g[e] BY <2>1, SumAdd
  <2> QED BY <2>2 DEF J, e
<1>11. SumOver(g, I(X)) = SumOver(g, I(X \ {c}) \cup {h[c]}) BY <1>7, Zenon
<1>12. SumOver(g, I(X \ {c})) \in Nat BY <1>8, <1>9, SumNat
<1> QED BY <1>3, <1>5, <1>6, <1>8, <1>10, <1>11, <1>12
====
