-------------------------- MODULE AllocationProofs --------------------------
(* Why a plan gives away what there is, in order and to the last unit that   *)
(* fits, whatever the candidates and the capacity (AllocationPlanning); and  *)
(* why a cycle is allocated once, to different farmers and to approved       *)
(* intents only, booked to the unit and never beyond the capacity, however   *)
(* many calls race (AllocationService, which commits such plans).            *)
EXTENDS AllocationPlanning, AllocationService,
        FiniteSetTheorems, SequenceTheorems, WellFoundedInduction, TLAPS

-----------------------------------------------------------------------------
(* Functions that are defined by recursion over 0 .. n                      *)

LEMMA LeastElement ==
    ASSUME NEW T \in SUBSET Nat, T # {}
    PROVE  \E m \in T : \A l \in T : m <= l
<1> DEFINE before == OpToRel(<, Nat)
<1>1. IsWellFoundedOn(before, Nat)
  BY NatLessThanWellFounded
<1>2. \A i, j \in Nat : j < i => <<j, i>> \in before
  BY DEF OpToRel
<1> HIDE DEF before
<1>3. PICK m \in T : \A l \in T : <<l, m>> \notin before
  BY <1>1, WFMin
<1>4. ASSUME NEW l \in T PROVE m <= l
  <2>1. l \in Nat /\ m \in Nat /\ ~ (l < m)
    BY <1>2, <1>3
  <2> QED BY <2>1
<1> QED BY <1>4

LEMMA InductionUpTo ==
    ASSUME NEW n \in Nat, NEW T, 0 \in T, \A k \in 1 .. n : k - 1 \in T => k \in T
    PROVE  \A k \in 0 .. n : k \in T
<1> DEFINE Missing == {k \in 0 .. n : k \notin T}
<1> SUFFICES ASSUME Missing # {} PROVE FALSE
  OBVIOUS
<1>1. Missing \in SUBSET Nat
  OBVIOUS
<1>2. PICK m \in Missing : \A l \in Missing : m <= l
  <2> HIDE DEF Missing
  <2> QED BY <1>1, LeastElement
<1>3. m \in 0 .. n /\ m \notin T
  BY <1>2
<1>4. m # 0
  BY <1>3
<1>5. m - 1 \notin Missing
  <2>1. ~ (m <= m - 1)
    BY <1>3
  <2> HIDE DEF Missing
  <2> QED BY <1>2, <2>1
<1>6. m \in 1 .. n /\ m - 1 \in 0 .. n
  BY <1>3, <1>4
<1>7. m - 1 \in T
  BY <1>5, <1>6
<1> QED BY <1>3, <1>6, <1>7

\* f applies the step functions G[1], ..., G[n] to a base, one after the other.
Iterates(f, n, S, base, G) ==
    /\ f \in [0 .. n -> S]
    /\ f[0] = base
    /\ \A k \in 1 .. n : f[k] = G[k][f[k - 1]]

LEMMA RecursionExists ==
    ASSUME NEW n \in Nat, NEW S, NEW base \in S, NEW G \in [1 .. n -> [S -> S]]
    PROVE  \E f : Iterates(f, n, S, base, G)
<1> DEFINE Good(m, f) == f \in [0 .. m -> S] /\ f[0] = base /\ \A k \in 1 .. m : f[k] = G[k][f[k - 1]]
           Bad == {m \in Nat : m <= n /\ ~ \E f : Good(m, f)}
<1>1. SUFFICES ASSUME Bad # {} PROVE FALSE
  <2>1. n \notin Bad
    <3> HIDE DEF Bad
    <3> QED BY <1>1
  <2>2. \E f : Good(n, f)
    <3> HIDE DEF Good
    <3> QED BY <2>1
  <2> QED BY <2>2 DEF Iterates
<1>2. PICK m \in Bad : \A l \in Bad : m <= l
  <2>1. Bad \in SUBSET Nat
    OBVIOUS
  <2> HIDE DEF Bad
  <2> QED BY <1>1, <2>1, LeastElement
<1>3. m # 0
  <2>1. Good(0, [k \in 0 .. 0 |-> base])
    OBVIOUS
  <2> QED BY <1>2, <2>1
<1>4. m - 1 \in Nat /\ m - 1 < m /\ m - 1 <= n /\ m \in Nat /\ m <= n
  BY <1>2, <1>3
<1>5. m - 1 \notin Bad
  <2> HIDE DEF Bad
  <2> QED BY <1>2, <1>4
<1>6. PICK f : Good(m - 1, f)
  BY <1>4, <1>5
<1> DEFINE g == [k \in 0 .. m |-> IF k = m THEN G[m][f[m - 1]] ELSE f[k]]
<1>7. Good(m, g)
  <2>1. f[m - 1] \in S /\ m \in 1 .. n
    BY <1>3, <1>4, <1>6
  <2>2. G[m][f[m - 1]] \in S
    BY <2>1
  <2>3. \A k \in 0 .. m : k # m => k \in 0 .. m - 1
    BY <1>4
  <2>4. g \in [0 .. m -> S]
    BY <1>6, <2>2, <2>3
  <2>5. g[0] = base
    BY <1>3, <1>4, <1>6
  <2>6. ASSUME NEW k \in 1 .. m PROVE g[k] = G[k][g[k - 1]]
    <3>1. k \in 0 .. m /\ k - 1 \in 0 .. m /\ k - 1 # m /\ g[k - 1] = f[k - 1]
      BY <1>4
    <3>2. CASE k = m
      BY <3>1, <3>2
    <3>3. CASE k # m
      <4>1. k \in 1 .. m - 1
        BY <1>4, <3>3
      <4> QED BY <1>6, <3>1, <3>3, <4>1
    <3> QED BY <3>2, <3>3
  <2> QED BY <2>4, <2>5, <2>6
<1> QED BY <1>2, <1>7

-----------------------------------------------------------------------------
(* What is left after the first k of the ranked candidates                  *)

\* The k-th of the ranked candidates is served if x is what is left.
Serves(ranked, k, x) == IsEligible(ranked[k]) /\ ranked[k].intent.quantity <= x

Drains(left, available, ranked, n) ==
    /\ left[0] = available
    /\ \A k \in 1 .. n :
        /\ left[k] \in 0 .. left[k - 1] /\ left[k - 1] \in 0 .. available
        /\ left[k] = IF Serves(ranked, k, left[k - 1])
                     THEN left[k - 1] - ranked[k].intent.quantity
                     ELSE left[k - 1]

LEMMA RemainingSteps ==
    ASSUME NEW n \in Nat, NEW ranked, Len(ranked) = n, NEW available \in Nat,
           \A k \in 1 .. n : ranked[k].intent.quantity \in Nat
    PROVE  Drains(Remaining(available, ranked), available, ranked, n)
<1> DEFINE S == 0 .. available
           OneOn(k, x) == IF Serves(ranked, k, x) THEN x - ranked[k].intent.quantity ELSE x
           G == [k \in 1 .. n |-> [x \in S |-> OneOn(k, x)]]
           Equation(f) == f = [k \in 0 .. n |-> IF k = 0 THEN available ELSE OneOn(k, f[k - 1])]
           left == Remaining(available, ranked)
<1>1. ASSUME NEW k \in 1 .. n, NEW x \in S PROVE OneOn(k, x) \in 0 .. x /\ OneOn(k, x) \in S
  BY DEF Serves
<1>2. G \in [1 .. n -> [S -> S]]
  BY <1>1
<1>3. available \in S
  OBVIOUS
<1>4. PICK f : Iterates(f, n, S, available, G)
  <2> HIDE DEF S, G
  <2> QED BY <1>2, <1>3, RecursionExists
<1>5. f \in [0 .. n -> S] /\ f[0] = available /\ \A k \in 1 .. n : f[k] = OneOn(k, f[k - 1])
  <2>1. f \in [0 .. n -> S] /\ f[0] = available /\ \A k \in 1 .. n : f[k] = G[k][f[k - 1]]
    BY <1>4 DEF Iterates
  <2>2. ASSUME NEW k \in 1 .. n PROVE f[k] = OneOn(k, f[k - 1])
    <3>1. k - 1 \in 0 .. n
      OBVIOUS
    <3>2. f[k - 1] \in S
      BY <2>1, <3>1
    <3> HIDE DEF OneOn, S
    <3> QED BY <2>1, <3>2
  <2> QED BY <2>1, <2>2
<1>6. Equation(f)
  <2>1. \A k \in 0 .. n : k # 0 => k \in 1 .. n
    OBVIOUS
  <2> HIDE DEF OneOn, S
  <2> QED BY <1>5, <2>1
<1>7. Equation(left)
  <2>1. left = CHOOSE g : Equation(g)
    BY DEF Remaining, Serves, Fits
  <2> HIDE DEF Equation, left
  <2> QED BY <1>6, <2>1
<1>8. left[0] = available
  <2>1. 0 \in 0 .. n
    OBVIOUS
  <2> HIDE DEF OneOn, left
  <2> QED BY <1>7, <2>1
<1>9. \A k \in 1 .. n : left[k] = OneOn(k, left[k - 1])
  <2>1. \A k \in 1 .. n : k \in 0 .. n /\ k # 0
    OBVIOUS
  <2> HIDE DEF OneOn, left
  <2> QED BY <1>7, <2>1
<1>10. \A k \in 0 .. n : left[k] \in S
  <2> DEFINE T == {k \in 0 .. n : left[k] \in S}
  <2>1. 0 \in T
    BY <1>3, <1>8
  <2>2. ASSUME NEW k \in 1 .. n, k - 1 \in T PROVE k \in T
    <3>1. left[k - 1] \in S
      BY <2>2
    <3> HIDE DEF OneOn, left, S
    <3> QED BY <1>1, <1>9, <3>1
  <2>3. \A k \in 0 .. n : k \in T
    <3> HIDE DEF T
    <3> QED BY <2>1, <2>2, InductionUpTo
  <2> QED BY <2>3
<1>11. ASSUME NEW k \in 1 .. n
       PROVE  left[k] \in 0 .. left[k - 1] /\ left[k - 1] \in 0 .. available
  <2>1. k - 1 \in 0 .. n
    OBVIOUS
  <2>2. left[k - 1] \in S
    BY <1>10, <2>1
  <2> HIDE DEF OneOn, left
  <2> QED BY <1>1, <1>9, <2>2
<1> HIDE DEF left
<1> QED BY <1>8, <1>9, <1>11 DEF left, Drains

-----------------------------------------------------------------------------
(* What the selected decisions add up to                                    *)

LEMMA LenOfList ==
    ASSUME NEW n \in Nat, NEW list, DOMAIN list = 1 .. n, list = [k \in 1 .. n |-> list[k]]
    PROVE  Len(list) = n
<1> DEFINE S == {list[k] : k \in 1 .. n}
<1>1. list \in [1 .. n -> S]
  OBVIOUS
<1>2. list \in Seq(S)
  BY <1>1, SeqDef
<1>3. Len(list) \in Nat /\ DOMAIN list = 1 .. Len(list)
  BY <1>2, LenProperties
<1> QED BY <1>3

AddsUp(sum, list, n) ==
    /\ sum[0] = 0
    /\ \A k \in 1 .. n :
        /\ sum[k - 1] \in Nat
        /\ sum[k] = IF list[k].selected THEN sum[k - 1] + list[k].allocated ELSE sum[k - 1]

LEMMA TakenSteps ==
    ASSUME NEW n \in Nat, NEW list, Len(list) = n,
           \A k \in 1 .. n : list[k].allocated \in Nat
    PROVE  AddsUp(Taken(list), list, n) /\ AllocatedIn(list) = Taken(list)[n]
<1> DEFINE OneOn(k, x) == IF list[k].selected THEN x + list[k].allocated ELSE x
           G == [k \in 1 .. n |-> [x \in Nat |-> OneOn(k, x)]]
           Equation(f) == f = [k \in 0 .. n |-> IF k = 0 THEN 0 ELSE OneOn(k, f[k - 1])]
           sum == Taken(list)
<1>1. ASSUME NEW k \in 1 .. n, NEW x \in Nat PROVE OneOn(k, x) \in Nat
  OBVIOUS
<1>2. G \in [1 .. n -> [Nat -> Nat]]
  BY <1>1
<1>3. PICK f : Iterates(f, n, Nat, 0, G)
  <2> HIDE DEF G
  <2> QED BY <1>2, RecursionExists
<1>4. f \in [0 .. n -> Nat] /\ f[0] = 0 /\ \A k \in 1 .. n : f[k] = OneOn(k, f[k - 1])
  <2>1. f \in [0 .. n -> Nat] /\ f[0] = 0 /\ \A k \in 1 .. n : f[k] = G[k][f[k - 1]]
    BY <1>3 DEF Iterates
  <2>2. ASSUME NEW k \in 1 .. n PROVE f[k] = OneOn(k, f[k - 1])
    <3>1. k - 1 \in 0 .. n
      OBVIOUS
    <3>2. f[k - 1] \in Nat
      BY <2>1, <3>1
    <3> HIDE DEF OneOn
    <3> QED BY <2>1, <3>2
  <2> QED BY <2>1, <2>2
<1>5. Equation(f)
  <2>1. \A k \in 0 .. n : k # 0 => k \in 1 .. n
    OBVIOUS
  <2> HIDE DEF OneOn
  <2> QED BY <1>4, <2>1
<1>6. Equation(sum)
  <2>1. sum = CHOOSE g : Equation(g)
    BY DEF Taken
  <2> HIDE DEF Equation, sum
  <2> QED BY <1>5, <2>1
<1>7. sum[0] = 0
  <2>1. 0 \in 0 .. n
    OBVIOUS
  <2> HIDE DEF OneOn, sum
  <2> QED BY <1>6, <2>1
<1>8. \A k \in 1 .. n : sum[k] = OneOn(k, sum[k - 1])
  <2>1. \A k \in 1 .. n : k \in 0 .. n /\ k # 0
    OBVIOUS
  <2> HIDE DEF OneOn, sum
  <2> QED BY <1>6, <2>1
<1>9. \A k \in 0 .. n : sum[k] \in Nat
  <2> DEFINE T == {k \in 0 .. n : sum[k] \in Nat}
  <2>1. 0 \in T
    BY <1>7
  <2>2. ASSUME NEW k \in 1 .. n, k - 1 \in T PROVE k \in T
    <3>1. sum[k - 1] \in Nat
      BY <2>2
    <3>2. k \in 0 .. n
      OBVIOUS
    <3>3. sum[k] \in Nat
      <4> HIDE DEF OneOn, sum
      <4> QED BY <1>1, <1>8, <3>1
    <3> HIDE DEF OneOn, sum
    <3> QED BY <3>2, <3>3
  <2>3. \A k \in 0 .. n : k \in T
    <3> HIDE DEF T
    <3> QED BY <2>1, <2>2, InductionUpTo
  <2> QED BY <2>3
<1>10. \A k \in 1 .. n : sum[k - 1] \in Nat
  <2>1. \A k \in 1 .. n : k - 1 \in 0 .. n
    OBVIOUS
  <2> HIDE DEF sum
  <2> QED BY <1>9, <2>1
<1>11. AllocatedIn(list) = sum[n]
  BY DEF AllocatedIn
<1> HIDE DEF sum
<1> QED BY <1>7, <1>8, <1>10, <1>11 DEF sum, AddsUp

-----------------------------------------------------------------------------
(* The ranking of the candidates is a permutation of them                   *)

AreCandidates(cands, n) ==
    /\ DOMAIN cands = 1 .. n
    /\ \A i \in 1 .. n : cands[i].intent \in Intents

LEMMA PrecedenceIsAnOrder ==
    ASSUME NEW n \in Nat, NEW cands, AreCandidates(cands, n)
    PROVE  /\ \A i \in 1 .. n : ~ Precedes(cands, i, i)
           /\ \A i, j \in 1 .. n : i # j => Precedes(cands, i, j) \/ Precedes(cands, j, i)
           /\ \A i, j, k \in 1 .. n :
                Precedes(cands, i, j) /\ Precedes(cands, j, k) => Precedes(cands, i, k)
<1>1. \A i \in 1 .. n :
        cands[i].intent.created \in Nat /\ Digest[cands[i].intent.farmer] \in Nat /\ i \in Nat
  <2> TAKE i \in 1 .. n
  <2>1. cands[i].intent.created \in Stamps /\ cands[i].intent.farmer \in Farmers
    BY DEF Intents, AreCandidates
  <2>2. cands[i].intent.created \in Nat
    BY <2>1, StampsAssumption
  <2>3. Digest[cands[i].intent.farmer] \in Nat
    BY <2>1, DigestAssumption
  <2>4. i \in Nat
    OBVIOUS
  <2> QED BY <2>2, <2>3, <2>4
<1> QED BY <1>1 DEF Precedes

\* The candidates ahead of one another are in a strict total order.
LEMMA AheadIsAnOrder ==
    ASSUME NEW n \in Nat, NEW cands, AreCandidates(cands, n)
    PROVE  /\ \A i \in 1 .. n : Ahead(cands, i) \subseteq (1 .. n) \ {i}
           /\ \A i, j \in 1 .. n : i # j => i \in Ahead(cands, j) \/ j \in Ahead(cands, i)
           /\ \A i, j \in 1 .. n :
                i \in Ahead(cands, j) => Ahead(cands, i) \union {i} \subseteq Ahead(cands, j)
<1> DEFINE E == Eligible(cands)
           D == 1 .. n
<1>1. /\ DOMAIN cands = D /\ E \subseteq D
      /\ \A i \in E : Ahead(cands, i) = {j \in E : Precedes(cands, j, i)}
      /\ \A i \in D \ E : Ahead(cands, i) = E \union {j \in D \ E : j < i}
  BY DEF AreCandidates, Ahead, Eligible
<1>2. /\ \A i \in D : ~ Precedes(cands, i, i)
      /\ \A i, j \in D : i # j => Precedes(cands, i, j) \/ Precedes(cands, j, i)
      /\ \A i, j, k \in D : Precedes(cands, i, j) /\ Precedes(cands, j, k) => Precedes(cands, i, k)
  BY PrecedenceIsAnOrder
<1>3. /\ \A i \in D : ~ i < i
      /\ \A i, j \in D : i # j => i < j \/ j < i
      /\ \A i, j, k \in D : i < j /\ j < k => i < k
  OBVIOUS
<1> HIDE DEF E, D
<1>4. ASSUME NEW i \in D PROVE Ahead(cands, i) \subseteq D \ {i}
  BY <1>1, <1>2, <1>3
<1>5. ASSUME NEW i \in D, NEW j \in D, i # j PROVE i \in Ahead(cands, j) \/ j \in Ahead(cands, i)
  BY <1>1, <1>2, <1>3, <1>5
<1>6. ASSUME NEW i \in D, NEW j \in D, i \in Ahead(cands, j)
      PROVE  Ahead(cands, i) \union {i} \subseteq Ahead(cands, j)
  <2>1. CASE i \in E /\ j \in E
    BY <1>1, <1>2, <1>6, <2>1
  <2>2. CASE i \in E /\ j \notin E
    BY <1>1, <1>6, <2>2
  <2>3. CASE i \notin E /\ j \notin E
    BY <1>1, <1>3, <1>6, <2>3
  <2> QED BY <1>1, <1>6, <2>1, <2>2, <2>3
<1> QED BY <1>4, <1>5, <1>6 DEF D

\* A candidate has one more ahead of it than each of those that are ahead of it.
LEMMA PlacesDiffer ==
    ASSUME NEW n \in Nat, NEW cands, AreCandidates(cands, n)
    PROVE  /\ \A i \in 1 .. n : Cardinality(Ahead(cands, i)) \in 0 .. n - 1
           /\ \A i, j \in 1 .. n :
                i \in Ahead(cands, j) => Cardinality(Ahead(cands, i)) < Cardinality(Ahead(cands, j))
           /\ \A i, j \in 1 .. n :
                i # j => Cardinality(Ahead(cands, i)) # Cardinality(Ahead(cands, j))
<1>1. IsFiniteSet(1 .. n) /\ Cardinality(1 .. n) = n
  BY FS_Interval
<1>2. \A i \in 1 .. n : Ahead(cands, i) \subseteq (1 .. n) \ {i}
  BY AheadIsAnOrder
<1>3. \A i \in 1 .. n : IsFiniteSet(Ahead(cands, i)) /\ Cardinality(Ahead(cands, i)) \in Nat
  BY <1>1, <1>2, FS_Subset, FS_CardinalityType
<1>4. ASSUME NEW i \in 1 .. n PROVE Cardinality(Ahead(cands, i)) \in 0 .. n - 1
  <2>1. IsFiniteSet((1 .. n) \ {i}) /\ Cardinality((1 .. n) \ {i}) = n - 1
    BY <1>1, FS_RemoveElement
  <2>2. Cardinality(Ahead(cands, i)) <= n - 1
    BY <1>2, <2>1, FS_Subset
  <2> QED BY <1>3, <2>2
<1>5. ASSUME NEW i \in 1 .. n, NEW j \in 1 .. n, i \in Ahead(cands, j)
      PROVE  Cardinality(Ahead(cands, i)) < Cardinality(Ahead(cands, j))
  <2>1. Ahead(cands, i) \union {i} \subseteq Ahead(cands, j)
    BY <1>5, AheadIsAnOrder
  <2>2. i \notin Ahead(cands, i)
    BY <1>2
  <2>3. Cardinality(Ahead(cands, i) \union {i}) = Cardinality(Ahead(cands, i)) + 1
    BY <1>3, <2>2, FS_AddElement
  <2>4. Cardinality(Ahead(cands, i) \union {i}) <= Cardinality(Ahead(cands, j))
    BY <1>3, <2>1, FS_Subset
  <2> QED BY <1>3, <2>3, <2>4
<1>6. ASSUME NEW i \in 1 .. n, NEW j \in 1 .. n, i # j
      PROVE  Cardinality(Ahead(cands, i)) # Cardinality(Ahead(cands, j))
  <2>1. i \in Ahead(cands, j) \/ j \in Ahead(cands, i)
    BY <1>6, AheadIsAnOrder
  <2> QED BY <1>3, <1>5, <2>1
<1> QED BY <1>4, <1>5, <1>6

\* p[k] is the place in the input of the candidate that is ranked k.
IsRanking(p, n, cands) ==
    /\ p \in [1 .. n -> 1 .. n]
    /\ \A k \in 1 .. n : Cardinality(Ahead(cands, p[k])) = k - 1
    /\ \A i \in 1 .. n : \E k \in 1 .. n : p[k] = i
    /\ \A j, k \in 1 .. n : p[j] = p[k] => j = k
    /\ DOMAIN Ranked(cands) = 1 .. n
    /\ Ranked(cands) = [k \in 1 .. n |-> Ranked(cands)[k]]
    /\ \A k \in 1 .. n : Ranked(cands)[k] = cands[p[k]]

\* The k-th place is taken by the one candidate that has k - 1 others ahead of it.
LEMMA RankingPermutes ==
    ASSUME NEW n \in Nat, NEW cands, AreCandidates(cands, n)
    PROVE  \E p : IsRanking(p, n, cands)
<1> DEFINE D == 1 .. n
           Place(i) == Cardinality(Ahead(cands, i)) + 1
           R == [i \in D |-> Place(i)]
<1>1. DOMAIN cands = D
  BY DEF AreCandidates
<1>2. ASSUME NEW i \in D PROVE Place(i) \in D
  <2>1. Cardinality(Ahead(cands, i)) \in 0 .. n - 1
    BY PlacesDiffer
  <2> QED BY <2>1
<1>3. ASSUME NEW i \in D, NEW j \in D, i # j PROVE Place(i) # Place(j)
  <2>1. /\ Cardinality(Ahead(cands, i)) \in 0 .. n - 1
        /\ Cardinality(Ahead(cands, j)) \in 0 .. n - 1
        /\ Cardinality(Ahead(cands, i)) # Cardinality(Ahead(cands, j))
    BY <1>3, PlacesDiffer
  <2> QED BY <2>1
<1>4. \A i, k \in D : Cardinality(Ahead(cands, i)) = k - 1 <=> Place(i) = k
  <2> TAKE i \in D, k \in D
  <2>1. Cardinality(Ahead(cands, i)) \in 0 .. n - 1
    BY PlacesDiffer
  <2> QED BY <2>1
<1> HIDE DEF Place
<1>5. R \in Injection(D, D)
  BY <1>2, <1>3 DEF Injection, IsInjective
<1>6. R \in Surjection(D, D)
  BY <1>5, FS_Interval, FS_Injection
<1>7. \A k \in D : \E i \in D : Place(i) = k
  BY <1>6 DEF Surjection
<1> DEFINE p == [k \in D |-> CHOOSE i \in DOMAIN cands : Cardinality(Ahead(cands, i)) = k - 1]
<1>8. ASSUME NEW k \in D PROVE p[k] \in D /\ Cardinality(Ahead(cands, p[k])) = k - 1
  <2>1. \E i \in D : Cardinality(Ahead(cands, i)) = k - 1
    BY <1>4, <1>7
  <2>2. PICK i \in D : i = CHOOSE j \in DOMAIN cands : Cardinality(Ahead(cands, j)) = k - 1
    BY <1>1, <2>1
  <2>3. Cardinality(Ahead(cands, i)) = k - 1
    BY <1>1, <2>1, <2>2
  <2> QED BY <2>2, <2>3
<1>9. p \in [D -> D]
  BY <1>8
<1>10. Ranked(cands) = [k \in D |-> cands[p[k]]]
  BY <1>1 DEF Ranked
<1> HIDE DEF p
<1>11. \A i \in D : \E k \in D : p[k] = i
  <2> TAKE i \in D
  <2>1. Place(i) \in D /\ Cardinality(Ahead(cands, i)) = Place(i) - 1
    BY <1>2, <1>4
  <2>2. p[Place(i)] \in D /\ Cardinality(Ahead(cands, p[Place(i)])) = Place(i) - 1
    BY <1>8, <2>1
  <2>3. p[Place(i)] = i
    BY <2>1, <2>2, PlacesDiffer
  <2> QED BY <2>1, <2>3
<1>12. \A j, k \in D : p[j] = p[k] => j = k
  <2> TAKE j \in D, k \in D
  <2>1. Cardinality(Ahead(cands, p[j])) = j - 1 /\ Cardinality(Ahead(cands, p[k])) = k - 1
    BY <1>8
  <2> QED BY <2>1
<1>13. IsRanking(p, n, cands)
  BY <1>8, <1>9, <1>10, <1>11, <1>12 DEF IsRanking
<1> QED BY <1>13

-----------------------------------------------------------------------------
(* What is left after each decision of a plan                               *)

Left(available, cands) == Remaining(Max({0, available}), Ranked(cands))

LEMMA RankedCandidates ==
    ASSUME NEW n \in Nat, NEW cands, AreCandidates(cands, n)
    PROVE  /\ DOMAIN Ranked(cands) = 1 .. n
           /\ Len(Ranked(cands)) = n
           /\ \A k \in 1 .. n :
                /\ Ranked(cands)[k].intent \in Intents
                /\ Ranked(cands)[k].intent.quantity \in Nat \ {0}
<1>1. PICK p : IsRanking(p, n, cands)
  BY RankingPermutes
<1>2. DOMAIN Ranked(cands) = 1 .. n /\ Len(Ranked(cands)) = n
  BY <1>1, LenOfList DEF IsRanking
<1>3. ASSUME NEW k \in 1 .. n PROVE Ranked(cands)[k].intent \in Intents
  BY <1>1 DEF IsRanking, AreCandidates
<1>4. ASSUME NEW k \in 1 .. n PROVE Ranked(cands)[k].intent.quantity \in Nat \ {0}
  <2>1. Ranked(cands)[k].intent.quantity \in Quantities
    BY <1>3 DEF Intents
  <2> QED BY <2>1, QuantitiesAssumption
<1> QED BY <1>2, <1>3, <1>4

\* What is left is never overdrawn and never grows.
Shrinks(left, n) ==
    /\ left[0] \in Nat
    /\ \A k \in 0 .. n : left[k] \in 0 .. left[0]
    /\ \A j, k \in 0 .. n : j <= k => left[k] <= left[j]

LEMMA LeftShrinks ==
    ASSUME NEW n \in Nat, NEW cands, AreCandidates(cands, n), NEW available \in Int
    PROVE  /\ Drains(Left(available, cands), Max({0, available}), Ranked(cands), n)
           /\ Shrinks(Left(available, cands), n)
<1> DEFINE left == Left(available, cands)
<1>1. Max({0, available}) \in Nat
  BY DEF Max
<1>2. /\ Len(Ranked(cands)) = n
      /\ \A k \in 1 .. n : Ranked(cands)[k].intent.quantity \in Nat
  BY RankedCandidates
<1>3. Drains(left, Max({0, available}), Ranked(cands), n)
  <2> DEFINE total == Max({0, available})
  <2>1. left = Remaining(total, Ranked(cands))
    BY DEF Left
  <2>2. total \in Nat
    BY <1>1
  <2> HIDE DEF total, left
  <2>3. Drains(left, total, Ranked(cands), n)
    BY <1>2, <2>1, <2>2, RemainingSteps
  <2> QED BY <2>3 DEF total
<1> HIDE DEF left
<1>4. \A k \in 0 .. n : left[k] \in 0 .. left[0]
  <2> TAKE k \in 0 .. n
  <2>1. CASE k = 0
    BY <1>1, <1>3, <2>1 DEF Drains
  <2>2. CASE k # 0
    <3>1. k \in 1 .. n
      BY <2>2
    <3>2. left[k] \in 0 .. left[k - 1] /\ left[k - 1] \in 0 .. left[0]
      BY <1>3, <3>1 DEF Drains
    <3> QED BY <1>1, <1>3, <3>2 DEF Drains
  <2> QED BY <2>1, <2>2
<1>5. ASSUME NEW j \in 0 .. n PROVE \A k \in 0 .. n : j <= k => left[k] <= left[j]
  <2> DEFINE T == {k \in 0 .. n : j <= k => left[k] <= left[j]}
  <2>1. 0 \in T
    <3>1. left[j] \in Int
      BY <1>4
    <3>2. j <= 0 => j = 0
      OBVIOUS
    <3> QED BY <3>1, <3>2
  <2>2. ASSUME NEW k \in 1 .. n, k - 1 \in T PROVE k \in T
    <3>1. left[j] \in Int /\ left[k] \in 0 .. left[k - 1] /\ left[k - 1] \in Int /\ k \in 0 .. n
      BY <1>3, <1>4 DEF Drains
    <3>2. CASE j = k
      BY <3>1, <3>2
    <3>3. CASE j # k
      <4>1. j <= k => j <= k - 1
        BY <3>3
      <4>2. j <= k - 1 => left[k - 1] <= left[j]
        BY <2>2
      <4> QED BY <3>1, <4>1, <4>2
    <3> QED BY <3>2, <3>3
  <2>3. \A k \in 0 .. n : k \in T
    <3> HIDE DEF T
    <3> QED BY <2>1, <2>2, InductionUpTo
  <2> QED BY <2>3
<1>6. left[0] \in Nat
  BY <1>1, <1>3 DEF Drains
<1> QED BY <1>3, <1>4, <1>5, <1>6 DEF left, Shrinks

\* The decisions of a plan, by rank.
Decides(made, left, ranked, n) ==
    LET Tied(k) == \E j \in (1 .. n) \ {k} :
                        IsEligible(ranked[j]) /\ ranked[j].intent.created = ranked[k].intent.created
    IN  /\ made.available = left[0] /\ made.remaining = left[n]
        /\ DOMAIN made.decisions = 1 .. n
        /\ Len(made.decisions) = n
        /\ made.decisions = [k \in 1 .. n |-> made.decisions[k]]
        /\ \A k \in 1 .. n :
            LET served == Serves(ranked, k, left[k - 1])
            IN  made.decisions[k] =
                    [intent    |-> ranked[k].id,
                     farmer    |-> ranked[k].intent.farmer,
                     requested |-> ranked[k].intent.quantity,
                     allocated |-> IF served THEN ranked[k].intent.quantity ELSE 0,
                     remaining |-> left[k],
                     selected  |-> served,
                     reason    |-> OrderingReason(Tied(k), IsEligible(ranked[k]), served)]

LEMMA PlanOfCandidates ==
    ASSUME NEW n \in Nat, NEW cands, AreCandidates(cands, n), NEW available \in Int
    PROVE  Decides(Allocate(available, cands), Left(available, cands), Ranked(cands), n)
<1> DEFINE made   == Allocate(available, cands)
           ranked == Ranked(cands)
           left   == Left(available, cands)
           Served(k) == Serves(ranked, k, left[k - 1])
           Tied(k)   == \E j \in (1 .. n) \ {k} :
                            IsEligible(ranked[j]) /\ ranked[j].intent.created = ranked[k].intent.created
           Decision(k) ==
                [intent    |-> ranked[k].id,
                 farmer    |-> ranked[k].intent.farmer,
                 requested |-> ranked[k].intent.quantity,
                 allocated |-> IF Served(k) THEN ranked[k].intent.quantity ELSE 0,
                 remaining |-> left[k],
                 selected  |-> Served(k),
                 reason    |-> OrderingReason(Tied(k), IsEligible(ranked[k]), Served(k))]
<1>1. DOMAIN ranked = 1 .. n /\ Len(ranked) = n
  BY RankedCandidates
<1>2. made = [available |-> Max({0, available}), remaining |-> left[Len(ranked)],
              decisions |-> [k \in DOMAIN ranked |->
                [intent    |-> ranked[k].id,
                 farmer    |-> ranked[k].intent.farmer,
                 requested |-> ranked[k].intent.quantity,
                 allocated |-> IF Served(k) THEN ranked[k].intent.quantity ELSE 0,
                 remaining |-> left[k],
                 selected  |-> Served(k),
                 reason    |-> OrderingReason(
                                \E j \in DOMAIN ranked \ {k} :
                                    IsEligible(ranked[j]) /\ ranked[j].intent.created = ranked[k].intent.created,
                                IsEligible(ranked[k]), Served(k))]]]
  BY DEF Allocate, Left, Serves, Fits
<1>3. made = [available |-> Max({0, available}), remaining |-> left[n],
              decisions |-> [k \in 1 .. n |-> Decision(k)]]
  <2> HIDE DEF ranked, left, made, Served
  <2> QED BY <1>1, <1>2
<1> HIDE DEF Decision, made
<1>4. /\ made.available = Max({0, available}) /\ made.remaining = left[n]
      /\ made.decisions = [k \in 1 .. n |-> Decision(k)]
  BY <1>3
<1>5. /\ Len(made.decisions) = n /\ DOMAIN made.decisions = 1 .. n
      /\ made.decisions = [k \in 1 .. n |-> made.decisions[k]]
  <2>1. DOMAIN made.decisions = 1 .. n /\ made.decisions = [k \in 1 .. n |-> made.decisions[k]]
    BY <1>4
  <2> QED BY <2>1, LenOfList
<1>6. left[0] = Max({0, available})
  BY LeftShrinks DEF Drains
<1>7. \A k \in 1 .. n : made.decisions[k] = Decision(k)
  BY <1>4
<1> QED BY <1>4, <1>5, <1>6, <1>7 DEF Decision, made, Decides

LEMMA DecisionFields ==
    ASSUME NEW n, NEW made, NEW left, NEW ranked, Decides(made, left, ranked, n), NEW k \in 1 .. n
    PROVE  LET d == made.decisions[k]
           IN  /\ d.intent = ranked[k].id
               /\ d.farmer = ranked[k].intent.farmer
               /\ d.requested = ranked[k].intent.quantity
               /\ d.allocated = IF Serves(ranked, k, left[k - 1]) THEN ranked[k].intent.quantity ELSE 0
               /\ d.remaining = left[k]
               /\ d.selected = Serves(ranked, k, left[k - 1])
<1> DEFINE d == made.decisions[k]
           served == Serves(ranked, k, left[k - 1])
<1>1. PICK reason :
        d = [intent    |-> ranked[k].id,
             farmer    |-> ranked[k].intent.farmer,
             requested |-> ranked[k].intent.quantity,
             allocated |-> IF served THEN ranked[k].intent.quantity ELSE 0,
             remaining |-> left[k],
             selected  |-> served,
             reason    |-> reason]
  BY DEF Decides
<1> HIDE DEF d, served
<1>2. /\ d.intent = ranked[k].id /\ d.farmer = ranked[k].intent.farmer
      /\ d.requested = ranked[k].intent.quantity /\ d.remaining = left[k]
      /\ d.allocated = IF served THEN ranked[k].intent.quantity ELSE 0
  BY <1>1
<1>3. d.selected = served
  BY <1>1, Zenon
<1> QED BY <1>2, <1>3 DEF d, served

-----------------------------------------------------------------------------
(* The ledger of a plan                                                     *)

\* What is left and what was taken add up to the capacity after every decision.
Balances(made, left, n) ==
    /\ made.available \in Nat
    /\ \A k \in 0 .. n :
        Taken(made.decisions)[k] \in Nat /\ left[k] + Taken(made.decisions)[k] = made.available
    /\ AllocatedIn(made.decisions) = Taken(made.decisions)[n]

LEMMA LedgerBalances ==
    ASSUME NEW n \in Nat, NEW cands, AreCandidates(cands, n), NEW available \in Int
    PROVE  Balances(Allocate(available, cands), Left(available, cands), n)
<1> DEFINE made == Allocate(available, cands)
           d    == made.decisions
           left == Left(available, cands)
           ranked == Ranked(cands)
<1>1. Drains(left, Max({0, available}), ranked, n) /\ Shrinks(left, n)
  BY LeftShrinks
<1>2. \A k \in 1 .. n : ranked[k].intent.quantity \in Nat
  BY RankedCandidates
<1>3. Decides(made, left, ranked, n)
  BY PlanOfCandidates
<1> HIDE DEF made, left, ranked
<1>4. /\ made.available = left[0] /\ Len(d) = n
      /\ \A k \in 1 .. n :
            /\ d[k].allocated = IF Serves(ranked, k, left[k - 1]) THEN ranked[k].intent.quantity ELSE 0
            /\ d[k].selected <=> Serves(ranked, k, left[k - 1])
  <2>1. made.available = left[0] /\ Len(d) = n
    BY <1>3 DEF Decides
  <2>2. ASSUME NEW k \in 1 .. n
        PROVE  /\ d[k].allocated = IF Serves(ranked, k, left[k - 1]) THEN ranked[k].intent.quantity ELSE 0
               /\ d[k].selected = Serves(ranked, k, left[k - 1])
    BY <1>3, DecisionFields
  <2> QED BY <2>1, <2>2
<1> HIDE DEF d
<1>5. AddsUp(Taken(d), d, n) /\ AllocatedIn(d) = Taken(d)[n]
  <2>1. ASSUME NEW k \in 1 .. n PROVE d[k].allocated \in Nat
    <3>1. ranked[k].intent.quantity \in Nat
      BY <1>2
    <3> QED BY <1>4, <3>1
  <2> QED BY <1>4, <2>1, TakenSteps
<1> DEFINE T == {k \in 0 .. n : Taken(d)[k] \in Nat /\ left[k] + Taken(d)[k] = left[0]}
<1>6. 0 \in T
  BY <1>1, <1>5 DEF AddsUp, Shrinks
<1>7. ASSUME NEW k \in 1 .. n, k - 1 \in T PROVE k \in T
  <2>1. Taken(d)[k - 1] \in Nat /\ left[k - 1] + Taken(d)[k - 1] = left[0] /\ left[k - 1] \in Int
    <3>1. k - 1 \in 0 .. n
      OBVIOUS
    <3> QED BY <1>1, <1>7, <3>1 DEF Shrinks
  <2>2. k \in 0 .. n
    OBVIOUS
  <2>3. CASE Serves(ranked, k, left[k - 1])
    <3>1. /\ left[k] = left[k - 1] - ranked[k].intent.quantity
          /\ Taken(d)[k] = Taken(d)[k - 1] + ranked[k].intent.quantity
          /\ ranked[k].intent.quantity \in Nat
      BY <1>1, <1>2, <1>4, <1>5, <2>3 DEF Drains, AddsUp
    <3> QED BY <2>1, <2>2, <3>1
  <2>4. CASE ~ Serves(ranked, k, left[k - 1])
    <3>1. left[k] = left[k - 1] /\ Taken(d)[k] = Taken(d)[k - 1]
      BY <1>1, <1>4, <1>5, <2>4 DEF Drains, AddsUp
    <3> QED BY <2>1, <2>2, <3>1
  <2> QED BY <2>3, <2>4
<1>8. \A k \in 0 .. n : k \in T
  <2> HIDE DEF T
  <2> QED BY <1>6, <1>7, InductionUpTo
<1> QED BY <1>1, <1>4, <1>5, <1>8 DEF made, left, d, Balances, Shrinks

-----------------------------------------------------------------------------
(* The invariant of AllocationPlanning                                      *)

CandidatesInv ==
    /\ capacity \in Int
    /\ \E n \in Nat : AreCandidates(candidates, n)
    /\ \A i \in DOMAIN candidates : candidates[i].id = i
    /\ DistinctFarmers(candidates)

PlanningInv ==
    /\ CandidatesInv
    /\ Planned => result = Allocate(capacity, candidates)

LEMMA PlanningInvariance == Planning => []PlanningInv
<1>1. Called => PlanningInv
  <2> SUFFICES ASSUME Called PROVE PlanningInv
    OBVIOUS
  <2>1. capacity \in Int /\ DistinctFarmers(candidates) /\ ~ Planned
    BY CallBoundsAssumption DEF Called, Planned
  <2>2. PICK n \in 0 .. MaxCandidates : \E asked \in [1 .. n -> Tried] :
            candidates = [i \in 1 .. n |-> Candidate(i, asked[i])]
    BY DEF Called
  <2>3. PICK asked \in [1 .. n -> Tried] : candidates = [i \in 1 .. n |-> Candidate(i, asked[i])]
    BY <2>2
  <2>4. n \in Nat
    BY CallBoundsAssumption
  <2>5. \A i \in 1 .. n : candidates[i].id = i /\ candidates[i].intent = asked[i]
    BY <2>3 DEF Candidate
  <2>6. DOMAIN candidates = 1 .. n /\ \A i \in 1 .. n : asked[i] \in Intents
    BY <2>3, TriedAssumption
  <2>7. AreCandidates(candidates, n)
    BY <2>5, <2>6 DEF AreCandidates
  <2> QED BY <2>1, <2>4, <2>5, <2>6, <2>7 DEF PlanningInv, CandidatesInv
<1>2. PlanningInv /\ [AllocateCapacity]_call => PlanningInv'
  <2> SUFFICES ASSUME PlanningInv, [AllocateCapacity]_call PROVE PlanningInv'
    OBVIOUS
  <2>1. UNCHANGED <<capacity, candidates>>
    BY DEF AllocateCapacity, call
  <2>2. CandidatesInv'
    BY <2>1 DEF PlanningInv, CandidatesInv, AreCandidates, DistinctFarmers
  <2>3. result' = Allocate(capacity, candidates) \/ result' = result
    BY DEF AllocateCapacity, call
  <2>4. (Planned => result = Allocate(capacity, candidates))'
    BY <2>1, <2>3 DEF PlanningInv, Planned
  <2> QED BY <2>2, <2>4 DEF PlanningInv
<1> QED BY <1>1, <1>2, PTL DEF Planning

\* AllocationEngine.allocate: what is left and what was given add up after every decision.
THEOREM CapacityAccounted == Planning => []CapacityIsAccountedFor
<1>1. ASSUME PlanningInv, Planned PROVE CapacityIsAccountedFor
  <2>1. PICK n \in Nat : AreCandidates(candidates, n)
    BY <1>1 DEF PlanningInv, CandidatesInv
  <2>2. capacity \in Int /\ result = Allocate(capacity, candidates)
    BY <1>1 DEF PlanningInv, CandidatesInv
  <2> DEFINE left == Left(capacity, candidates)
             d    == result.decisions
  <2>3. /\ result.remaining = left[n] /\ DOMAIN d = 1 .. n /\ Len(d) = n
        /\ \A k \in 1 .. n : d[k].remaining = left[k] /\ d[k].intent = Ranked(candidates)[k].id
    <3>1. Decides(result, left, Ranked(candidates), n)
      BY <2>1, <2>2, PlanOfCandidates
    <3> HIDE DEF left
    <3>2. result.remaining = left[n] /\ DOMAIN d = 1 .. n /\ Len(d) = n
      BY <3>1 DEF Decides
    <3>3. ASSUME NEW k \in 1 .. n
          PROVE  d[k].remaining = left[k] /\ d[k].intent = Ranked(candidates)[k].id
      BY <3>1, DecisionFields
    <3> QED BY <3>2, <3>3
  <2>4. /\ \A k \in 0 .. n : left[k] + Taken(d)[k] = result.available
        /\ AllocatedIn(d) = Taken(d)[n]
    BY <2>1, <2>2, LedgerBalances DEF Balances
  <2>5. \A k \in 0 .. n : left[k] >= 0
    <3>1. Shrinks(left, n)
      BY <2>1, <2>2, LeftShrinks
    <3> HIDE DEF left
    <3> QED BY <3>1 DEF Shrinks
  <2> HIDE DEF left
  <2>6. \A k \in 1 .. n : d[k].remaining >= 0 /\ d[k].remaining + Taken(d)[k] = result.available
    BY <2>3, <2>4, <2>5
  <2>7. result.remaining + AllocatedIn(d) = result.available
    BY <2>3, <2>4
  <2>8. PICK p : IsRanking(p, n, candidates)
    BY <2>1, RankingPermutes
  <2>9. DOMAIN candidates = 1 .. n
    BY <2>1 DEF AreCandidates
  <2>10. ASSUME NEW k \in 1 .. n PROVE d[k].intent = p[k] /\ p[k] \in 1 .. n
    <3>1. p[k] \in 1 .. n /\ Ranked(candidates)[k] = candidates[p[k]]
      BY <2>8 DEF IsRanking
    <3>2. candidates[p[k]].id = p[k]
      BY <1>1, <2>9, <3>1 DEF PlanningInv, CandidatesInv
    <3> HIDE DEF d
    <3> QED BY <2>3, <3>1, <3>2
  <2>11. {d[k].intent : k \in 1 .. n} = 1 .. n
    <3>1. \A i \in 1 .. n : \E k \in 1 .. n : p[k] = i
      BY <2>8 DEF IsRanking
    <3> HIDE DEF d
    <3> QED BY <2>10, <3>1
  <2>12. Len(candidates) = n
    BY <2>9
  <2> QED BY <2>3, <2>6, <2>7, <2>9, <2>11, <2>12 DEF CapacityIsAccountedFor, Decided
<1>2. PlanningInv => CapacityIsAccountedFor
  BY <1>1 DEF CapacityIsAccountedFor
<1> QED BY PlanningInvariance, <1>2, PTL

LEMMA ReasonsAreTrue ==
    ASSUME NEW n, NEW made, NEW left, NEW ranked, Decides(made, left, ranked, n), NEW k \in 1 .. n
    PROVE  /\ made.decisions[k].reason = "CAPACITY_EXCEEDED" =>
                IsEligible(ranked[k]) /\ ~ Serves(ranked, k, left[k - 1])
           /\ made.decisions[k].reason # "NOT_SELECTED" => IsEligible(ranked[k])
<1> DEFINE Tied == \E j \in (1 .. n) \ {k} :
                        IsEligible(ranked[j]) /\ ranked[j].intent.created = ranked[k].intent.created
           served == Serves(ranked, k, left[k - 1])
           eligible == IsEligible(ranked[k])
           d == made.decisions[k]
<1>1. d = [intent    |-> ranked[k].id,
           farmer    |-> ranked[k].intent.farmer,
           requested |-> ranked[k].intent.quantity,
           allocated |-> IF served THEN ranked[k].intent.quantity ELSE 0,
           remaining |-> left[k],
           selected  |-> served,
           reason    |-> OrderingReason(Tied, eligible, served)]
  BY DEF Decides
<1>2. served => eligible
  BY DEF Serves
<1> HIDE DEF d, served, eligible, Tied
<1>3. d.reason = OrderingReason(Tied, eligible, served)
  BY <1>1
<1>4. ~ eligible => d.reason = "NOT_SELECTED"
  BY <1>2, <1>3 DEF OrderingReason
<1>5. eligible /\ served => d.reason \in {"SHA256_TIE_BREAK", "WAITING_AGE"}
  <2>1. CASE Tied
    BY <1>3, <2>1 DEF OrderingReason
  <2>2. CASE ~ Tied
    BY <1>3, <2>2 DEF OrderingReason
  <2> QED BY <2>1, <2>2
<1> QED BY <1>2, <1>4, <1>5 DEF d, served, eligible

\* What a plan of the candidates is made of, for the theorems below.
LEMMA PlanningFacts ==
    ASSUME PlanningInv, Planned
    PROVE  \E n \in Nat :
              /\ AreCandidates(candidates, n)
              /\ Decides(result, Left(capacity, candidates), Ranked(candidates), n)
              /\ Drains(Left(capacity, candidates), Max({0, capacity}), Ranked(candidates), n)
              /\ Shrinks(Left(capacity, candidates), n)
<1>1. PICK n \in Nat : AreCandidates(candidates, n)
  BY DEF PlanningInv, CandidatesInv
<1>2. capacity \in Int /\ result = Allocate(capacity, candidates)
  BY DEF PlanningInv, CandidatesInv
<1>3. Decides(result, Left(capacity, candidates), Ranked(candidates), n)
  BY <1>1, <1>2, PlanOfCandidates
<1>4. /\ Drains(Left(capacity, candidates), Max({0, capacity}), Ranked(candidates), n)
      /\ Shrinks(Left(capacity, candidates), n)
  BY <1>1, <1>2, LeftShrinks
<1> QED BY <1>1, <1>3, <1>4

\* AllocationEngine.allocate tries every candidate: who is refused asked for more than is
\* left over in the end.
THEOREM NothingServable == Planning => []NothingServableIsLeft
<1>1. ASSUME PlanningInv, Planned, NEW k \in Decided, result.decisions[k].reason = "CAPACITY_EXCEEDED"
      PROVE  result.decisions[k].requested > result.remaining
  <2> DEFINE left == Left(capacity, candidates)
             ranked == Ranked(candidates)
  <2>1. PICK n \in Nat : /\ AreCandidates(candidates, n) /\ Decides(result, left, ranked, n)
                         /\ Shrinks(left, n)
    BY <1>1, PlanningFacts
  <2>2. /\ \A i \in 1 .. n : ranked[i].intent.quantity \in Nat
    BY <2>1, RankedCandidates
  <2> HIDE DEF left, ranked
  <2>3. k \in 1 .. n /\ result.remaining = left[n]
    BY <1>1, <2>1 DEF Decides, Decided
  <2>4. IsEligible(ranked[k]) /\ ~ Serves(ranked, k, left[k - 1])
    BY <1>1, <2>1, <2>3, ReasonsAreTrue
  <2>5. result.decisions[k].requested = ranked[k].intent.quantity
    BY <2>1, <2>3, DecisionFields
  <2>6. k - 1 \in 0 .. n /\ n \in 0 .. n /\ k - 1 <= n
    BY <2>3
  <2>7. left[k - 1] \in Nat /\ left[n] \in Nat /\ left[n] <= left[k - 1]
    BY <2>1, <2>6 DEF Shrinks
  <2>8. ranked[k].intent.quantity \in Nat /\ ~ (ranked[k].intent.quantity <= left[k - 1])
    BY <2>2, <2>3, <2>4 DEF Serves
  <2> QED BY <2>3, <2>5, <2>7, <2>8
<1>2. PlanningInv => NothingServableIsLeft
  BY <1>1 DEF NothingServableIsLeft
<1> QED BY PlanningInvariance, <1>2, PTL

\* AllocationEngine.allocate serves in order of waiting age: nobody is passed over in favour
\* of someone who came later and asked for as much or more.
THEOREM NobodyEnvies == Planning => []NoEnvy
<1> DEFINE Served(id) == \E k \in Decided : result.decisions[k].intent = id /\ result.decisions[k].selected
<1>1. ASSUME PlanningInv, Planned, NEW i \in DOMAIN candidates, NEW j \in DOMAIN candidates,
             IsEligible(candidates[i]),
             candidates[i].intent.created < candidates[j].intent.created,
             candidates[i].intent.quantity <= candidates[j].intent.quantity,
             Served(j)
      PROVE  Served(i)
  <2> DEFINE left == Left(capacity, candidates)
             ranked == Ranked(candidates)
  <2>0. PICK n \in Nat :
          /\ AreCandidates(candidates, n)
          /\ Decides(result, left, ranked, n)
          /\ Shrinks(left, n)
    BY <1>1, PlanningFacts
  <2>01. PICK p : IsRanking(p, n, candidates)
    BY <2>0, RankingPermutes
  <2>1. /\ AreCandidates(candidates, n) /\ IsRanking(p, n, candidates)
        /\ Decides(result, left, ranked, n)
        /\ Shrinks(left, n)
    BY <2>0, <2>01
  <2>2. DOMAIN candidates = 1 .. n /\ Decided = 1 .. n
    BY <1>1, <2>1 DEF AreCandidates, Decides, Decided
  <2> HIDE DEF left
  <2>3. ASSUME NEW k \in 1 .. n
        PROVE  /\ p[k] \in 1 .. n /\ ranked[k] = candidates[p[k]]
               /\ result.decisions[k].intent = p[k]
               /\ result.decisions[k].selected = Serves(ranked, k, left[k - 1])
    <3>1. p[k] \in 1 .. n /\ ranked[k] = candidates[p[k]]
      BY <2>1 DEF IsRanking
    <3>2. candidates[p[k]].id = p[k]
      BY <1>1, <2>2, <3>1 DEF PlanningInv, CandidatesInv
    <3>3. /\ result.decisions[k].intent = ranked[k].id
          /\ result.decisions[k].selected = Serves(ranked, k, left[k - 1])
      BY <2>1, DecisionFields
    <3> QED BY <3>1, <3>2, <3>3
  <2> HIDE DEF ranked
  <2>4. PICK kj \in 1 .. n : p[kj] = j /\ Serves(ranked, kj, left[kj - 1])
    BY <1>1, <2>2, <2>3
  <2>5. PICK ki \in 1 .. n : p[ki] = i
    BY <2>1, <2>2 DEF IsRanking
  <2>6. i \in Ahead(candidates, j)
    <3>1. IsEligible(candidates[j])
      BY <2>3, <2>4 DEF Serves
    <3> QED BY <1>1, <3>1 DEF Ahead, Eligible, Precedes
  <2>7. ki < kj
    <3>1. Cardinality(Ahead(candidates, i)) < Cardinality(Ahead(candidates, j))
      BY <2>1, <2>2, <2>6, PlacesDiffer
    <3>2. Cardinality(Ahead(candidates, i)) = ki - 1 /\ Cardinality(Ahead(candidates, j)) = kj - 1
      BY <2>1, <2>4, <2>5 DEF IsRanking
    <3> QED BY <3>1, <3>2
  <2>8. left[kj - 1] <= left[ki - 1] /\ left[kj - 1] \in Nat /\ left[ki - 1] \in Nat
    <3>1. ki - 1 \in 0 .. n /\ kj - 1 \in 0 .. n /\ ki - 1 <= kj - 1
      BY <2>7
    <3> QED BY <2>1, <3>1 DEF Shrinks
  <2>9. candidates[i].intent.quantity \in Nat /\ candidates[j].intent.quantity \in Nat
    <3>1. candidates[i].intent \in Intents /\ candidates[j].intent \in Intents
      BY <2>1, <2>2 DEF AreCandidates
    <3> QED BY <3>1, QuantitiesAssumption DEF Intents
  <2>10. candidates[j].intent.quantity <= left[kj - 1]
    BY <2>3, <2>4 DEF Serves
  <2>11. candidates[i].intent.quantity <= left[ki - 1]
    BY <1>1, <2>8, <2>9, <2>10
  <2>12. Serves(ranked, ki, left[ki - 1])
    BY <1>1, <2>3, <2>5, <2>11 DEF Serves
  <2> QED BY <2>2, <2>3, <2>5, <2>12
<1>2. PlanningInv => NoEnvy
  BY <1>1 DEF NoEnvy
<1> QED BY PlanningInvariance, <1>2, PTL

-----------------------------------------------------------------------------
(* The order in which the query returns the candidates                      *)

\* again lists the same candidates in the order t.
IsReordering(again, t, n, cands) ==
    /\ DOMAIN again = 1 .. n
    /\ t \in [1 .. n -> 1 .. n]
    /\ \A i, j \in 1 .. n : t[i] = t[j] => i = j
    /\ \A i \in 1 .. n : \E j \in 1 .. n : t[j] = i
    /\ \A i \in 1 .. n : again[i] = cands[t[i]]

\* A candidate who is eligible has the same ones ahead in both orders.
LEMMA AheadInBothOrders ==
    ASSUME NEW n \in Nat, NEW cands, AreCandidates(cands, n), DistinctFarmers(cands),
           NEW again, NEW t, IsReordering(again, t, n, cands), NEW i \in 1 .. n,
           IsEligible(again[i])
    PROVE  /\ AreCandidates(again, n)
           /\ Cardinality(Ahead(again, i)) = Cardinality(Ahead(cands, t[i]))
<1> DEFINE S == Ahead(again, i)
           T == Ahead(cands, t[i])
           b == [j \in S |-> t[j]]
<1>1. AreCandidates(again, n)
  BY DEF AreCandidates, IsReordering
<1>2. S = {j \in 1 .. n : IsEligible(again[j]) /\ Precedes(again, j, i)}
  BY DEF Ahead, Eligible, IsReordering
<1>3. T = {j \in 1 .. n : IsEligible(cands[j]) /\ Precedes(cands, j, t[i])}
  BY DEF Ahead, Eligible, IsReordering, AreCandidates
<1>4. ASSUME NEW j \in 1 .. n
      PROVE  /\ IsEligible(again[j]) <=> IsEligible(cands[t[j]])
             /\ Precedes(again, j, i) <=> Precedes(cands, t[j], t[i])
  <2>1. again[j] = cands[t[j]] /\ again[i] = cands[t[i]] /\ t[j] \in 1 .. n /\ t[i] \in 1 .. n
    BY DEF IsReordering
  <2> DEFINE x == cands[t[j]].intent
             y == cands[t[i]].intent
  <2>2. x.farmer \in Farmers /\ y.farmer \in Farmers
    BY <2>1 DEF AreCandidates, Intents
  <2>3. Digest[x.farmer] = Digest[y.farmer] => t[j] = t[i]
    BY <2>1, <2>2, DigestAssumption DEF DistinctFarmers, AreCandidates
  <2>4. t[j] = t[i] => j = i
    BY DEF IsReordering
  <2>5. Digest[x.farmer] = Digest[y.farmer] => ~ (j < i) /\ ~ (t[j] < t[i])
    BY <2>1, <2>3, <2>4
  <2> HIDE DEF x, y
  <2>6. Precedes(again, j, i) <=>
            \/ x.created < y.created
            \/ x.created = y.created /\ Digest[x.farmer] < Digest[y.farmer]
    BY <2>1, <2>5 DEF Precedes, x, y
  <2>7. Precedes(cands, t[j], t[i]) <=>
            \/ x.created < y.created
            \/ x.created = y.created /\ Digest[x.farmer] < Digest[y.farmer]
    BY <2>5 DEF Precedes, x, y
  <2> QED BY <2>1, <2>6, <2>7
<1> HIDE DEF S, T
<1>5. b \in Bijection(S, T)
  <2>1. \A j \in S : j \in 1 .. n /\ t[j] \in T
    BY <1>2, <1>3, <1>4 DEF IsReordering
  <2>2. \A j, k \in S : b[j] = b[k] => j = k
    BY <2>1 DEF IsReordering
  <2>3. ASSUME NEW k \in T PROVE \E j \in S : b[j] = k
    <3>1. PICK j \in 1 .. n : t[j] = k
      BY <1>3 DEF IsReordering
    <3>2. j \in S
      BY <1>2, <1>3, <1>4, <3>1
    <3> QED BY <3>1, <3>2
  <2>4. b \in [S -> T]
    BY <2>1
  <2> HIDE DEF b
  <2> QED BY <2>2, <2>3, <2>4 DEF Bijection, Injection, Surjection, IsInjective
<1>6. IsFiniteSet(S)
  <2>1. S \subseteq 1 .. n /\ IsFiniteSet(1 .. n)
    BY <1>2, FS_Interval
  <2> QED BY <2>1, FS_Subset
<1>7. Cardinality(S) = Cardinality(T)
  BY <1>5, <1>6, FS_Bijection DEF ExistsBijection
<1> QED BY <1>1, <1>7 DEF S, T

\* The eligible are ranked alike, the others come after them in both orders.
LEMMA EligibleRankedAlike ==
    ASSUME NEW n \in Nat, NEW cands, AreCandidates(cands, n), DistinctFarmers(cands),
           NEW again, NEW t, IsReordering(again, t, n, cands), NEW k \in 1 .. n,
           IsEligible(Ranked(cands)[k]) \/ IsEligible(Ranked(again)[k])
    PROVE  Ranked(again)[k] = Ranked(cands)[k]
<1>1. AreCandidates(again, n)
  BY DEF AreCandidates, IsReordering
<1>2. PICK p : IsRanking(p, n, cands)
  BY RankingPermutes
<1>3. PICK q : IsRanking(q, n, again)
  BY <1>1, RankingPermutes
<1>4. /\ p[k] \in 1 .. n /\ Cardinality(Ahead(cands, p[k])) = k - 1 /\ Ranked(cands)[k] = cands[p[k]]
      /\ q[k] \in 1 .. n /\ Cardinality(Ahead(again, q[k])) = k - 1 /\ Ranked(again)[k] = again[q[k]]
  BY <1>2, <1>3 DEF IsRanking
<1>5. /\ t[q[k]] \in 1 .. n /\ again[q[k]] = cands[t[q[k]]]
      /\ \A i, j \in 1 .. n : t[i] = t[j] => i = j
  BY <1>4 DEF IsReordering
<1>6. PICK x \in 1 .. n : t[x] = p[k]
  BY <1>4 DEF IsReordering
<1>7. again[x] = cands[p[k]]
  BY <1>6 DEF IsReordering
<1>8. CASE IsEligible(Ranked(cands)[k])
  <2>1. Cardinality(Ahead(again, x)) = k - 1
    BY <1>4, <1>6, <1>7, <1>8, AheadInBothOrders
  <2>2. x = q[k]
    BY <1>1, <1>4, <2>1, PlacesDiffer
  <2> QED BY <1>4, <1>7, <2>2
<1>9. CASE IsEligible(Ranked(again)[k])
  <2>1. Cardinality(Ahead(cands, t[q[k]])) = k - 1
    BY <1>4, <1>9, AheadInBothOrders
  <2>2. t[q[k]] = p[k]
    BY <1>4, <1>5, <2>1, PlacesDiffer
  <2> QED BY <1>4, <1>5, <2>2
<1> QED BY <1>8, <1>9

LEMMA LeftInBothOrders ==
    ASSUME NEW n \in Nat, NEW cands, AreCandidates(cands, n), DistinctFarmers(cands),
           NEW again, NEW t, IsReordering(again, t, n, cands), NEW available \in Int
    PROVE  \A k \in 0 .. n : Left(available, again)[k] = Left(available, cands)[k]
<1> DEFINE a == Left(available, again)
           c == Left(available, cands)
           T == {k \in 0 .. n : a[k] = c[k]}
<1>1. AreCandidates(again, n)
  BY DEF AreCandidates, IsReordering
<1>2. Drains(a, Max({0, available}), Ranked(again), n) /\ Drains(c, Max({0, available}), Ranked(cands), n)
  BY <1>1, LeftShrinks
<1> HIDE DEF a, c
<1>3. 0 \in T
  BY <1>2 DEF Drains
<1>4. ASSUME NEW k \in 1 .. n, k - 1 \in T PROVE k \in T
  <2>1. a[k - 1] = c[k - 1] /\ k \in 0 .. n
    BY <1>4
  <2>2. CASE IsEligible(Ranked(cands)[k]) \/ IsEligible(Ranked(again)[k])
    <3>1. Ranked(again)[k] = Ranked(cands)[k]
      BY <2>2, EligibleRankedAlike
    <3> QED BY <1>2, <2>1, <3>1 DEF Drains, Serves
  <2>3. CASE ~ IsEligible(Ranked(cands)[k]) /\ ~ IsEligible(Ranked(again)[k])
    BY <1>2, <2>1, <2>3 DEF Drains, Serves
  <2> QED BY <2>2, <2>3
<1>5. \A k \in 0 .. n : k \in T
  <2> HIDE DEF T
  <2> QED BY <1>3, <1>4, InductionUpTo
<1> QED BY <1>5 DEF a, c

LEMMA SameDecisionInBothOrders ==
    ASSUME NEW n \in Nat, NEW cands, AreCandidates(cands, n), DistinctFarmers(cands),
           NEW again, NEW t, IsReordering(again, t, n, cands), NEW available \in Int,
           NEW k \in 1 .. n, IsEligible(Ranked(cands)[k])
    PROVE  Allocate(available, again).decisions[k] = Allocate(available, cands).decisions[k]
<1> DEFINE a == Left(available, again)
           c == Left(available, cands)
           x == Ranked(again)
           y == Ranked(cands)
           TiedX == \E j \in (1 .. n) \ {k} : IsEligible(x[j]) /\ x[j].intent.created = x[k].intent.created
           TiedY == \E j \in (1 .. n) \ {k} : IsEligible(y[j]) /\ y[j].intent.created = y[k].intent.created
<1>1. AreCandidates(again, n)
  BY DEF AreCandidates, IsReordering
<1>2. a[k] = c[k] /\ a[k - 1] = c[k - 1]
  <2>1. k \in 0 .. n /\ k - 1 \in 0 .. n
    OBVIOUS
  <2> QED BY <2>1, LeftInBothOrders
<1>3. \A j \in 1 .. n : IsEligible(x[j]) \/ IsEligible(y[j]) => x[j] = y[j]
  BY EligibleRankedAlike
<1>4. Decides(Allocate(available, again), a, x, n) /\ Decides(Allocate(available, cands), c, y, n)
  BY <1>1, PlanOfCandidates
<1> HIDE DEF a, c, x
<1>5. x[k] = y[k]
  BY <1>3
<1> HIDE DEF y
<1>6. TiedX <=> TiedY
  BY <1>3, <1>5
<1>7. Allocate(available, again).decisions[k] =
        [intent    |-> x[k].id,
         farmer    |-> x[k].intent.farmer,
         requested |-> x[k].intent.quantity,
         allocated |-> IF Serves(x, k, a[k - 1]) THEN x[k].intent.quantity ELSE 0,
         remaining |-> a[k],
         selected  |-> Serves(x, k, a[k - 1]),
         reason    |-> OrderingReason(TiedX, IsEligible(x[k]), Serves(x, k, a[k - 1]))]
  BY <1>4 DEF Decides
<1>8. Allocate(available, cands).decisions[k] =
        [intent    |-> y[k].id,
         farmer    |-> y[k].intent.farmer,
         requested |-> y[k].intent.quantity,
         allocated |-> IF Serves(y, k, c[k - 1]) THEN y[k].intent.quantity ELSE 0,
         remaining |-> c[k],
         selected  |-> Serves(y, k, c[k - 1]),
         reason    |-> OrderingReason(TiedY, IsEligible(y[k]), Serves(y, k, c[k - 1]))]
  BY <1>4 DEF Decides
<1>9. Serves(x, k, a[k - 1]) = Serves(y, k, c[k - 1])
  BY <1>2, <1>5 DEF Serves
<1>10. OrderingReason(TiedX, IsEligible(x[k]), Serves(x, k, a[k - 1])) =
            OrderingReason(TiedY, IsEligible(y[k]), Serves(y, k, c[k - 1]))
  <2> HIDE DEF TiedX, TiedY
  <2> QED BY <1>5, <1>6, <1>9 DEF OrderingReason
<1> HIDE DEF TiedX, TiedY
<1> QED BY <1>2, <1>5, <1>7, <1>8, <1>9, <1>10

\* The sort key of AllocationEngine.allocate leaves nothing to the order of the query: two
\* candidates that change places get the decisions they had.
THEOREM InputOrderIrrelevant == Planning => []OrderOfInputIsIrrelevant
<1>1. ASSUME PlanningInv, Planned, NEW i \in DOMAIN candidates, NEW j \in DOMAIN candidates, i < j,
             NEW k \in Decided, result.decisions[k].reason # "NOT_SELECTED"
      PROVE  LET swapped == [candidates EXCEPT ![i] = candidates[j], ![j] = candidates[i]]
             IN  Allocate(capacity, swapped).decisions[k] = result.decisions[k]
  <2> DEFINE swapped == [candidates EXCEPT ![i] = candidates[j], ![j] = candidates[i]]
  <2>1. PICK n \in Nat :
          /\ AreCandidates(candidates, n)
          /\ Decides(result, Left(capacity, candidates), Ranked(candidates), n)
    BY <1>1, PlanningFacts
  <2> DEFINE t == [x \in 1 .. n |-> IF x = i THEN j ELSE IF x = j THEN i ELSE x]
  <2>2. DOMAIN candidates = 1 .. n /\ Decided = 1 .. n
    BY <1>1, <2>1 DEF AreCandidates, Decides, Decided
  <2>3. IsReordering(swapped, t, n, candidates)
    <3>1. DOMAIN swapped = 1 .. n /\ t \in [1 .. n -> 1 .. n]
      BY <2>2
    <3>2. \A x, y \in 1 .. n : t[x] = t[y] => x = y
      BY <2>2
    <3>3. ASSUME NEW x \in 1 .. n PROVE \E y \in 1 .. n : t[y] = x
      <4>1. t[x] \in 1 .. n /\ t[t[x]] = x
        BY <2>2
      <4> QED BY <4>1
    <3>4. \A x \in 1 .. n : swapped[x] = candidates[t[x]]
      BY <1>1, <2>2
    <3> QED BY <3>1, <3>2, <3>3, <3>4 DEF IsReordering
  <2>4. IsEligible(Ranked(candidates)[k])
    BY <1>1, <2>1, <2>2, ReasonsAreTrue
  <2>5. capacity \in Int /\ DistinctFarmers(candidates) /\ result = Allocate(capacity, candidates)
    BY <1>1 DEF PlanningInv, CandidatesInv
  <2> HIDE DEF swapped, t
  <2>6. Allocate(capacity, swapped).decisions[k] = Allocate(capacity, candidates).decisions[k]
    BY <2>1, <2>2, <2>3, <2>4, <2>5, SameDecisionInBothOrders
  <2> QED BY <2>5, <2>6 DEF swapped
<1>2. PlanningInv => OrderOfInputIsIrrelevant
  BY <1>1 DEF OrderOfInputIsIrrelevant
<1> QED BY PlanningInvariance, <1>2, PTL

-----------------------------------------------------------------------------
(* A plan has one decision for each candidate                               *)

\* What a list of decisions must be to be committed.
Sound(list) ==
    /\ \E n \in Nat : DOMAIN list = 1 .. n /\ list = [k \in 1 .. n |-> list[k]]
    /\ \A k \in DOMAIN list :
        /\ list[k].intent \in approved \intersect DOMAIN intents
        /\ intents[list[k].intent].date = Cycle
    /\ \A j, k \in DOMAIN list :
        list[j].farmer = list[k].farmer \/ list[j].intent = list[k].intent => j = k

\* A farmer has one open intent for a date.
SlotsInv ==
    \A i, j \in DOMAIN intents :
        /\ IsOpen(intents[i]) /\ IsOpen(intents[j])
        /\ intents[i].farmer = intents[j].farmer /\ intents[i].date = intents[j].date
        => i = j

IntentsInv ==
    /\ intents \in Seq(Intents)
    /\ SlotsInv
    /\ approved \subseteq DOMAIN intents
    /\ \A i \in DOMAIN intents : intents[i].status = "APPROVED" => i \in approved

\* The candidates of a run are the approved intents of the cycle, in some order.
AreApproved(cands, ids, n) ==
    /\ AreCandidates(cands, n)
    /\ \A j, k \in 1 .. n : ids[j] = ids[k] => j = k
    /\ \A k \in 1 .. n :
        /\ ids[k] \in DOMAIN intents
        /\ intents[ids[k]].date = Cycle /\ intents[ids[k]].status = "APPROVED"
        /\ cands[k].id = ids[k] /\ cands[k].intent = intents[ids[k]]

LEMMA ApprovedCandidates ==
    ASSUME IntentsInv, NEW cands \in CandidateLists
    PROVE  \E n \in Nat : \E ids : AreApproved(cands, ids, n)
<1> DEFINE wanted == {i \in DOMAIN intents :
                        intents[i].date = Cycle /\ intents[i].status \in CandidateStatuses}
           n == Cardinality(wanted)
<1>1. n \in Nat
  <2>1. DOMAIN intents = 1 .. Len(intents) /\ Len(intents) \in Nat
    BY LenProperties DEF IntentsInv
  <2>2. IsFiniteSet(1 .. Len(intents))
    BY <2>1, FS_Interval
  <2>3. IsFiniteSet(wanted)
    BY <2>1, <2>2, FS_Subset
  <2> QED BY <2>3, FS_CardinalityType
<1>2. PICK ids \in [1 .. n -> wanted] :
        /\ \A j, k \in 1 .. n :
              j < k => /\ ids[j] # ids[k]
                       /\ intents[ids[j]].created <= intents[ids[k]].created
        /\ cands = [k \in 1 .. n |-> Candidate(ids[k], intents[ids[k]])]
  BY DEF CandidateLists
<1> HIDE DEF n
<1>3. ASSUME NEW k \in 1 .. n
      PROVE  /\ ids[k] \in DOMAIN intents /\ intents[ids[k]] \in Intents
             /\ intents[ids[k]].date = Cycle /\ intents[ids[k]].status = "APPROVED"
             /\ cands[k].id = ids[k] /\ cands[k].intent = intents[ids[k]]
  <2>1. ids[k] \in DOMAIN intents /\ intents[ids[k]].date = Cycle /\ intents[ids[k]].status = "APPROVED"
    BY <1>2 DEF CandidateStatuses
  <2>2. intents[ids[k]] \in Intents
    BY <2>1, LenProperties, ElementOfSeq DEF IntentsInv
  <2>3. cands[k] = Candidate(ids[k], intents[ids[k]])
    BY <1>2
  <2> QED BY <2>1, <2>2, <2>3 DEF Candidate
<1>4. \A j, k \in 1 .. n : ids[j] = ids[k] => j = k
  BY <1>1, <1>2
<1>5. DOMAIN cands = 1 .. n
  BY <1>2
<1>6. AreApproved(cands, ids, n)
  BY <1>3, <1>4, <1>5 DEF AreApproved, AreCandidates
<1> QED BY <1>1, <1>6

LEMMA PlansAreSound ==
    ASSUME IntentsInv, NEW cands \in CandidateLists, NEW available \in Int
    PROVE  Sound(Allocate(available, cands).decisions)
<1> DEFINE d == Allocate(available, cands).decisions
<1>0. PICK n \in Nat : \E ids : AreApproved(cands, ids, n)
  BY ApprovedCandidates
<1>1. PICK ids : AreApproved(cands, ids, n)
  BY <1>0
<1>2. AreCandidates(cands, n)
  BY <1>1 DEF AreApproved
<1>3. PICK p : IsRanking(p, n, cands)
  BY <1>2, RankingPermutes
<1>4. Decides(Allocate(available, cands), Left(available, cands), Ranked(cands), n)
  BY <1>2, PlanOfCandidates
<1>5. DOMAIN d = 1 .. n /\ d = [k \in 1 .. n |-> d[k]]
  BY <1>4 DEF Decides
<1>6. \A k \in 1 .. n :
        d[k].intent = Ranked(cands)[k].id /\ d[k].farmer = Ranked(cands)[k].intent.farmer
  BY <1>4, DecisionFields
<1> HIDE DEF d
<1>7. ASSUME NEW k \in 1 .. n
      PROVE  /\ ids[k] \in DOMAIN intents
             /\ intents[ids[k]].date = Cycle /\ intents[ids[k]].status = "APPROVED"
  BY <1>1 DEF AreApproved
<1>8. ASSUME NEW k \in 1 .. n
      PROVE  /\ p[k] \in 1 .. n
             /\ d[k].intent = ids[p[k]] /\ d[k].farmer = intents[ids[p[k]]].farmer
  <2>1. p[k] \in 1 .. n /\ Ranked(cands)[k] = cands[p[k]]
    BY <1>3 DEF IsRanking
  <2>2. cands[p[k]].id = ids[p[k]] /\ cands[p[k]].intent = intents[ids[p[k]]]
    BY <1>1, <2>1 DEF AreApproved
  <2> QED BY <1>6, <2>1, <2>2
<1>9. \A k \in 1 .. n :
        d[k].intent \in approved \intersect DOMAIN intents /\ intents[d[k].intent].date = Cycle
  BY <1>7, <1>8 DEF IntentsInv
<1>10. ASSUME NEW j \in 1 .. n, NEW k \in 1 .. n,
              d[j].farmer = d[k].farmer \/ d[j].intent = d[k].intent
       PROVE  j = k
  <2>1. ids[p[j]] = ids[p[k]]
    <3> DEFINE a == ids[p[j]]
               b == ids[p[k]]
    <3>1. /\ a \in DOMAIN intents /\ b \in DOMAIN intents
          /\ intents[a].status = "APPROVED" /\ intents[b].status = "APPROVED"
          /\ intents[a].date = intents[b].date
      BY <1>7, <1>8
    <3>2. IsOpen(intents[a]) /\ IsOpen(intents[b])
      BY <3>1 DEF IsOpen, OverStatuses
    <3>3. CASE d[j].intent = d[k].intent
      BY <1>8, <3>3
    <3>4. CASE d[j].farmer = d[k].farmer
      <4>1. intents[a].farmer = intents[b].farmer
        BY <1>8, <3>4
      <4> HIDE DEF a, b
      <4>2. a = b
        BY <3>1, <3>2, <4>1 DEF IntentsInv, SlotsInv
      <4> QED BY <4>2 DEF a, b
    <3> QED BY <1>10, <3>3, <3>4
  <2>2. p[j] = p[k]
    <3>1. p[j] \in 1 .. n /\ p[k] \in 1 .. n
      BY <1>8
    <3> QED BY <1>1, <2>1, <3>1 DEF AreApproved
  <2> QED BY <1>3, <2>2 DEF IsRanking
<1> QED BY <1>5, <1>9, <1>10 DEF Sound, d

-----------------------------------------------------------------------------
(* The inductive invariant                                                  *)

SessionsInv ==
    /\ pc \in [Sessions -> Steps]
    /\ out \in [Sessions -> Outcomes]
    /\ commits \in [Sessions -> Nat]
    /\ plan = [s \in Sessions |-> plan[s]]

\* One session has the record locked, so one run at a time is between its insert and its
\* commit; the insert finds that there is no other.
RunInv ==
    /\ recordLock \in Sessions \union {Free}
    /\ \A s \in Sessions : pc[s] \in Locked <=> recordLock = s
    /\ runs \in {0, 1}
    /\ \A s \in Sessions : pc[s] \in {"save", "commit"} => runs = 0
    /\ runs = 0 => decisions = << >>

PlansInv ==
    /\ \A s \in Sessions :
        pc[s] \in {"insertRun", "save", "commit"} => Sound(plan[s].decisions)
    /\ Sound(decisions)

AnswersInv ==
    \A s \in Sessions :
        /\ pc[s] \in AttemptSteps \union {"idle"} => commits[s] = 0
        /\ pc[s] = "return" => commits[s] = 1
        /\ pc[s] # "done" => out[s] = "none"

Inv == SessionsInv /\ IntentsInv /\ RunInv /\ PlansInv /\ AnswersInv /\ AnswersMatchCommits

\* Decisions stay sound as intents and approvals are added to.
LEMMA SoundStays ==
    ASSUME NEW d, Sound(d), DOMAIN intents \subseteq DOMAIN intents', approved \subseteq approved',
           \A i \in DOMAIN intents : intents'[i].date = intents[i].date
    PROVE  Sound(d)'
BY DEF Sound

LEMMA PlansStay ==
    ASSUME DOMAIN intents \subseteq DOMAIN intents', approved \subseteq approved',
           \A i \in DOMAIN intents : intents'[i].date = intents[i].date,
           \A s \in Sessions :
              pc'[s] \in {"insertRun", "save", "commit"} => Sound(plan'[s].decisions),
           Sound(decisions')
    PROVE  PlansInv'
<1>1. ASSUME NEW s \in Sessions, pc'[s] \in {"insertRun", "save", "commit"}
      PROVE  Sound(plan[s].decisions)'
  <2>1. PICK d : d = plan'[s].decisions
    OBVIOUS
  <2>2. Sound(d)'
    BY <1>1, <2>1, SoundStays
  <2> QED BY <2>1, <2>2 DEF Sound
<1>2. Sound(decisions)'
  <2>1. PICK d : d = decisions'
    OBVIOUS
  <2>2. Sound(d)'
    BY <2>1, SoundStays
  <2> QED BY <2>1, <2>2 DEF Sound
<1> QED BY <1>1, <1>2 DEF PlansInv

LEMMA FailPreserves ==
    ASSUME Inv, NEW s \in Sessions, NEW outcome \in Outcomes \ {"none", "ok"}, Fail(s, outcome),
           pc[s] \in AttemptSteps \union {"idle", "return"},
           pc[s] = "return" => outcome = "DBAPIError"
    PROVE  Inv'
<1>1. /\ pc' = [pc EXCEPT ![s] = "done"] /\ out' = [out EXCEPT ![s] = outcome]
      /\ plan' = [plan EXCEPT ![s] = NoPlan]
      /\ recordLock' = IF recordLock = s THEN Free ELSE recordLock
      /\ UNCHANGED <<intents, runs, decisions, commits, approved>>
  BY DEF Fail, EndTransaction, Goto, db, history
<1>2. SessionsInv'
  BY <1>1 DEF Inv, SessionsInv, Steps
<1>3. IntentsInv'
  BY <1>1 DEF Inv, IntentsInv, SlotsInv
<1>4. RunInv'
  BY <1>1, LocksAssumption DEF Inv, SessionsInv, RunInv, Locked
<1>5. PlansInv'
  BY <1>1, PlansStay DEF Inv, SessionsInv, PlansInv
<1>6. AnswersInv'
  BY <1>1 DEF Inv, SessionsInv, AnswersInv, AttemptSteps, Locked
<1>7. AnswersMatchCommits'
  BY <1>1 DEF Inv, SessionsInv, AnswersInv, AnswersMatchCommits
<1> QED BY <1>2, <1>3, <1>4, <1>5, <1>6, <1>7 DEF Inv

\* A step of a session that commits nothing and fails nowhere.
LEMMA StepKeeps ==
    ASSUME Inv, NEW s \in Sessions, NEW step \in AttemptSteps, pc[s] \in AttemptSteps \union {"idle"},
           pc' = [pc EXCEPT ![s] = step],
           UNCHANGED <<intents, runs, decisions, approved, out, commits>>,
           plan' = plan \/ (\E p : plan' = [plan EXCEPT ![s] = p]),
           RunInv',
           step \in {"insertRun", "save", "commit"} => Sound(plan'[s].decisions)
    PROVE  Inv'
<1>1. SessionsInv'
  BY DEF Inv, SessionsInv, Steps
<1>2. IntentsInv'
  BY DEF Inv, IntentsInv, SlotsInv
<1>3. PlansInv'
  <2>1. \A o \in Sessions \ {s} : pc'[o] = pc[o] /\ plan'[o] = plan[o]
    BY DEF Inv, SessionsInv
  <2>2. pc'[s] = step
    BY DEF Inv, SessionsInv
  <2> QED BY <2>1, <2>2, PlansStay DEF Inv, PlansInv
<1>4. AnswersInv' /\ AnswersMatchCommits'
  BY DEF Inv, SessionsInv, AnswersInv, AnswersMatchCommits, AttemptSteps, Locked
<1> QED BY <1>1, <1>2, <1>3, <1>4 DEF Inv

LEMMA CheckPreserves == ASSUME Inv, NEW s \in Sessions, CheckExistingRun(s) PROVE Inv'
<1>1. CASE runs > 0
  BY <1>1, FailPreserves DEF CheckExistingRun, Outcomes
<1>2. CASE ~ runs > 0
  <2>1. /\ pc[s] = "idle" /\ pc' = [pc EXCEPT ![s] = "lock"]
        /\ UNCHANGED <<intents, runs, decisions, approved, out, commits, recordLock, plan>>
    BY <1>2 DEF CheckExistingRun, Goto, db, history
  <2>2. RunInv'
    BY <2>1 DEF Inv, SessionsInv, RunInv, Locked
  <2> QED BY <2>1, <2>2, StepKeeps DEF AttemptSteps
<1> QED BY <1>1, <1>2

LEMMA LockPreserves == ASSUME Inv, NEW s \in Sessions, LockRecord(s) PROVE Inv'
<1>1. CASE record = NoRecord
  BY <1>1, FailPreserves DEF LockRecord, Outcomes, AttemptSteps
<1>2. CASE record # NoRecord
  <2>1. /\ pc[s] = "lock" /\ pc' = [pc EXCEPT ![s] = "read"]
        /\ recordLock = Free /\ recordLock' = s
        /\ UNCHANGED <<intents, runs, decisions, approved, out, commits, plan>>
    BY <1>2 DEF LockRecord, RecordIsFree, Goto, db, history
  <2>2. RunInv'
    BY <2>1, LocksAssumption DEF Inv, SessionsInv, RunInv, Locked
  <2> QED BY <2>1, <2>2, StepKeeps DEF AttemptSteps, Locked
<1> QED BY <1>1, <1>2

LEMMA ReadPreserves ==
    ASSUME Inv, NEW s \in Sessions, ReadCandidates(s), CapacityToAllocate(loaded[s]) \in Nat
    PROVE  Inv'
<1>1. PICK cands \in CandidateLists :
        plan' = [plan EXCEPT ![s] = Allocate(CapacityToAllocate(loaded[s]), cands)]
  BY DEF ReadCandidates
<1>2. /\ pc[s] = "read" /\ pc' = [pc EXCEPT ![s] = "insertRun"]
      /\ UNCHANGED <<intents, runs, decisions, approved, out, commits, recordLock>>
  BY DEF ReadCandidates, Goto, db, history
<1>3. Sound(plan'[s].decisions)
  <2>1. plan'[s] = Allocate(CapacityToAllocate(loaded[s]), cands)
    BY <1>1 DEF Inv, SessionsInv
  <2> QED BY <2>1, PlansAreSound DEF Inv
<1>4. RunInv'
  BY <1>2 DEF Inv, SessionsInv, RunInv, Locked
<1> QED BY <1>1, <1>2, <1>3, <1>4, StepKeeps DEF AttemptSteps, Locked

LEMMA InsertPreserves == ASSUME Inv, NEW s \in Sessions, InsertRun(s) PROVE Inv'
<1>1. CASE CycleHasRun
  BY <1>1, FailPreserves DEF InsertRun, Outcomes, AttemptSteps, Locked
<1>2. CASE ~ CycleHasRun
  <2>1. /\ pc[s] = "insertRun" /\ pc' = [pc EXCEPT ![s] = "save"]
        /\ UNCHANGED <<intents, runs, decisions, approved, out, commits, recordLock, plan>>
    BY <1>2 DEF InsertRun, Goto, db, history
  <2>2. RunInv'
    BY <1>2, <2>1 DEF CycleHasRun, Inv, SessionsInv, RunInv, Locked
  <2> QED BY <2>1, <2>2, StepKeeps DEF AttemptSteps, Locked, Inv, PlansInv
<1> QED BY <1>1, <1>2

LEMMA SavePreserves == ASSUME Inv, NEW s \in Sessions, SaveRecord(s) PROVE Inv'
<1>1. CASE Fail(s, "Exceeded") \/ Fail(s, "Check")
  BY <1>1, FailPreserves DEF SaveRecord, Outcomes, AttemptSteps, Locked
<1>2. CASE /\ Goto(s, "commit")
           /\ UNCHANGED <<db, recordLock, plan, out, commits, history>>
  <2>1. /\ pc[s] = "save" /\ pc' = [pc EXCEPT ![s] = "commit"]
        /\ UNCHANGED <<intents, runs, decisions, approved, out, commits, recordLock, plan>>
    BY <1>2 DEF SaveRecord, Goto, db, history
  <2>2. RunInv'
    BY <2>1 DEF Inv, SessionsInv, RunInv, Locked
  <2> QED BY <2>1, <2>2, StepKeeps DEF AttemptSteps, Locked, Inv, PlansInv
<1> QED BY <1>1, <1>2 DEF SaveRecord

\* The only run adds its decisions to none.
LEMMA CommitsThePlan ==
    ASSUME Inv, NEW s \in Sessions, Commit(s)
    PROVE  decisions' = plan[s].decisions
<1>1. decisions = << >> /\ Sound(plan[s].decisions) /\ decisions' = decisions \o plan[s].decisions
  BY DEF Commit, Inv, RunInv, PlansInv
<1> DEFINE d == plan[s].decisions
<1>2. PICK n \in Nat : DOMAIN d = 1 .. n /\ d = [k \in 1 .. n |-> d[k]]
  BY <1>1 DEF Sound
<1>3. d \in [1 .. n -> {d[k] : k \in 1 .. n}]
  BY <1>2
<1>4. d \in Seq({d[k] : k \in 1 .. n})
  BY <1>3, SeqDef
<1> HIDE DEF d
<1>5. << >> \o d = d
  BY <1>4, ConcatEmptySeq
<1> QED BY <1>1, <1>5 DEF d

LEMMA CommitPreserves == ASSUME Inv, NEW s \in Sessions, Commit(s) PROVE Inv'
<1>1. /\ pc[s] = "commit" /\ pc' = [pc EXCEPT ![s] = "return"]
      /\ runs' = runs + 1 /\ decisions' = decisions \o plan[s].decisions
      /\ recordLock' = IF recordLock = s THEN Free ELSE recordLock
      /\ commits' = [commits EXCEPT ![s] = @ + 1]
      /\ UNCHANGED <<intents, approved, out, plan>>
  BY DEF Commit, EndTransaction, Goto, history
<1>2. runs = 0 /\ decisions = << >> /\ Sound(plan[s].decisions) /\ commits[s] = 0 /\ recordLock = s
      /\ out[s] = "none"
  BY <1>1 DEF Inv, RunInv, PlansInv, AnswersInv, AttemptSteps, Locked
<1>3. decisions' = plan[s].decisions
  BY CommitsThePlan
<1>4. SessionsInv'
  BY <1>1 DEF Inv, SessionsInv, Steps
<1>5. IntentsInv'
  BY <1>1 DEF Inv, IntentsInv, SlotsInv
<1>6. RunInv'
  <2>1. \A o \in Sessions \ {s} : pc[o] \notin Locked
    BY <1>2 DEF Inv, RunInv
  <2> QED BY <1>1, <1>2, <2>1, LocksAssumption DEF Inv, SessionsInv, RunInv, Locked
<1>7. PlansInv'
  <2>1. Sound(decisions')
    BY <1>2, <1>3
  <2>2. \A o \in Sessions : pc'[o] \in {"insertRun", "save", "commit"} => Sound(plan'[o].decisions)
    BY <1>1 DEF Inv, SessionsInv, PlansInv
  <2> QED BY <1>1, <2>1, <2>2, PlansStay
<1>8. AnswersInv' /\ AnswersMatchCommits'
  BY <1>1, <1>2 DEF Inv, SessionsInv, AnswersInv, AnswersMatchCommits, AttemptSteps, Locked
<1> QED BY <1>4, <1>5, <1>6, <1>7, <1>8 DEF Inv

LEMMA ReturnPreserves == ASSUME Inv, NEW s \in Sessions, ReturnPlan(s) PROVE Inv'
<1>1. /\ pc[s] = "return" /\ pc' = [pc EXCEPT ![s] = "done"] /\ out' = [out EXCEPT ![s] = "ok"]
      /\ plan' = [plan EXCEPT ![s] = NoPlan]
      /\ UNCHANGED <<intents, runs, decisions, recordLock, commits, approved>>
  BY DEF ReturnPlan, Goto, db, history
<1>2. SessionsInv' /\ RunInv'
  BY <1>1 DEF Inv, SessionsInv, RunInv, Steps, Outcomes, Locked
<1>3. IntentsInv' /\ PlansInv'
  BY <1>1, PlansStay DEF Inv, SessionsInv, IntentsInv, SlotsInv, PlansInv
<1>4. AnswersInv' /\ AnswersMatchCommits'
  BY <1>1 DEF Inv, SessionsInv, AnswersInv, AnswersMatchCommits, AttemptSteps, Locked
<1> QED BY <1>2, <1>3, <1>4 DEF Inv

LEMMA FinishPreserves == ASSUME Inv, NEW s \in Sessions, Finish(s) PROVE Inv'
<1>1. /\ pc[s] = "done" /\ pc' = [pc EXCEPT ![s] = "idle"] /\ out' = [out EXCEPT ![s] = "none"]
      /\ commits' = [commits EXCEPT ![s] = 0]
      /\ UNCHANGED <<intents, runs, decisions, recordLock, plan, approved>>
  BY DEF Finish, Goto, db, history
<1>2. SessionsInv' /\ RunInv'
  BY <1>1 DEF Inv, SessionsInv, RunInv, Steps, Outcomes, Locked
<1>3. IntentsInv' /\ PlansInv'
  BY <1>1, PlansStay DEF Inv, SessionsInv, IntentsInv, SlotsInv, PlansInv
<1>4. AnswersInv' /\ AnswersMatchCommits'
  BY <1>1 DEF Inv, SessionsInv, AnswersInv, AnswersMatchCommits, AttemptSteps, Locked
<1> QED BY <1>2, <1>3, <1>4 DEF Inv

\* Rows of intents keep their slot and once over never open again.
LEMMA BookPreserves == ASSUME Inv, BookOrDecide PROVE Inv'
<1>1. /\ UNCHANGED <<runs, decisions, recordLock, pc, plan, out, commits>>
      /\ approved' = approved \union {i \in DOMAIN intents' : intents'[i].status = "APPROVED"}
      /\ ThisBook!Next
  BY DEF BookOrDecide, session
<1>2. intents \in Seq(Intents) /\ DOMAIN intents = 1 .. Len(intents) /\ Len(intents) \in Nat
  BY LenProperties DEF Inv, IntentsInv
<1>3. /\ intents' \in Seq(Intents) /\ SlotsInv' /\ DOMAIN intents \subseteq DOMAIN intents'
      /\ \A i \in DOMAIN intents : intents'[i].date = intents[i].date
  <2>1. ASSUME NEW intent \in Intents, ThisBook!Book(intent)
        PROVE  /\ intents' \in Seq(Intents) /\ SlotsInv' /\ DOMAIN intents \subseteq DOMAIN intents'
               /\ \A i \in DOMAIN intents : intents'[i].date = intents[i].date
    <3>1. /\ intents' = Append(intents, intent)
          /\ \A i \in DOMAIN intents :
                IsOpen(intents[i]) => <<intents[i].farmer, intents[i].date>> # <<intent.farmer, intent.date>>
      BY <2>1 DEF ThisBook!Book, ThisBook!IsOpen, IsOpen, OverStatuses, ThisBook!OverStatuses
    <3>2. /\ intents' \in Seq(Intents) /\ Len(intents') = Len(intents) + 1
          /\ intents'[Len(intents) + 1] = intent
          /\ \A i \in DOMAIN intents : intents'[i] = intents[i]
      BY <1>2, <2>1, <3>1, AppendProperties
    <3>3. DOMAIN intents' = DOMAIN intents \union {Len(intents) + 1}
      BY <1>2, <3>2, LenProperties
    <3>4. SlotsInv'
      BY <1>2, <3>1, <3>2, <3>3 DEF Inv, IntentsInv, SlotsInv, IsOpen
    <3> QED BY <3>2, <3>3, <3>4
  <2>2. ASSUME NEW i \in DOMAIN intents, NEW status \in IntentStatuses, ThisBook!Decide(i, status)
        PROVE  /\ intents' \in Seq(Intents) /\ SlotsInv' /\ DOMAIN intents \subseteq DOMAIN intents'
               /\ \A j \in DOMAIN intents : intents'[j].date = intents[j].date
    <3>1. status \in Decisions(intents[i].status) /\ intents' = [intents EXCEPT ![i].status = status]
      BY <2>2 DEF ThisBook!Decide, ThisBook!Decisions, Decisions
    <3>2. \A j \in DOMAIN intents : intents[j] \in Intents
      BY <1>2, ElementOfSeq
    <3>3. IsOpen(intents[i])
      BY <3>1 DEF Decisions, IsOpen, OverStatuses
    <3>4. [intents[i] EXCEPT !.status = status] \in Intents
      BY <2>2, <3>2 DEF Intents
    <3>5. intents' = [intents EXCEPT ![i] = [intents[i] EXCEPT !.status = status]]
      BY <3>1
    <3>6. intents' \in Seq(Intents) /\ Len(intents') = Len(intents)
      BY <1>2, <3>4, <3>5, ExceptSeq
    <3>7. DOMAIN intents' = DOMAIN intents
      BY <3>5
    <3>8. \A j \in DOMAIN intents :
            /\ intents'[j].farmer = intents[j].farmer /\ intents'[j].date = intents[j].date
            /\ j # i => intents'[j].status = intents[j].status
      BY <3>2, <3>5 DEF Intents
    <3>9. \A j \in DOMAIN intents : IsOpen(intents'[j]) => IsOpen(intents[j])
      BY <3>3, <3>8 DEF IsOpen
    <3>10. SlotsInv'
      <4>1. \A j, k \in DOMAIN intents :
              /\ IsOpen(intents'[j]) /\ IsOpen(intents'[k])
              /\ intents'[j].farmer = intents'[k].farmer /\ intents'[j].date = intents'[k].date
              => j = k
        BY <3>8, <3>9 DEF Inv, IntentsInv, SlotsInv
      <4> QED BY <3>7, <4>1 DEF SlotsInv, IsOpen
    <3> QED BY <3>6, <3>7, <3>8, <3>10
  <2> QED BY <1>1, <2>1, <2>2 DEF ThisBook!Next, ThisBook!Intents, Intents, ThisBook!IntentStatuses, IntentStatuses
<1>4. IntentsInv'
  BY <1>1, <1>3 DEF Inv, IntentsInv
<1>5. PlansInv'
  <2>1. /\ \A s \in Sessions : pc'[s] \in {"insertRun", "save", "commit"} => Sound(plan'[s].decisions)
        /\ Sound(decisions')
    BY <1>1 DEF Inv, PlansInv
  <2> QED BY <1>1, <1>3, <2>1, PlansStay
<1>6. SessionsInv' /\ RunInv' /\ AnswersInv' /\ AnswersMatchCommits'
  BY <1>1 DEF Inv, SessionsInv, RunInv, AnswersInv, AnswersMatchCommits
<1> QED BY <1>4, <1>5, <1>6 DEF Inv

LEMMA CapacityPreserves == ASSUME Inv, SetCapacity PROVE Inv'
<1>1. UNCHANGED <<intents, runs, decisions, recordLock, pc, plan, out, commits, approved>>
  BY DEF SetCapacity, session, history
<1>2. IntentsInv' /\ PlansInv'
  BY <1>1, PlansStay DEF Inv, IntentsInv, SlotsInv, PlansInv
<1> QED BY <1>1, <1>2 DEF Inv, SessionsInv, RunInv, AnswersInv, AnswersMatchCommits

LEMMA StutteringPreserves == ASSUME Inv, UNCHANGED vars PROVE Inv'
<1>1. UNCHANGED <<intents, runs, decisions, recordLock, pc, plan, out, commits, approved>>
  BY DEF vars, db, session, history
<1>2. IntentsInv' /\ PlansInv'
  BY <1>1, PlansStay DEF Inv, IntentsInv, SlotsInv, PlansInv
<1> QED BY <1>1, <1>2 DEF Inv, SessionsInv, RunInv, AnswersInv, AnswersMatchCommits

LEMMA InitImpliesInv == Init => Inv
<1> SUFFICES ASSUME Init PROVE Inv
  OBVIOUS
<1>1. /\ intents = << >> /\ approved = {} /\ decisions = << >> /\ runs = 0 /\ recordLock = Free
      /\ pc = [s \in Sessions |-> "idle"] /\ plan = [s \in Sessions |-> NoPlan]
      /\ out = [s \in Sessions |-> "none"] /\ commits = [s \in Sessions |-> 0]
  BY DEF Init, ThisBook!Init
<1>2. SessionsInv /\ AnswersInv /\ AnswersMatchCommits
  BY <1>1 DEF SessionsInv, AnswersInv, AnswersMatchCommits, Steps, Outcomes
<1>3. RunInv
  BY <1>1, LocksAssumption DEF RunInv, Locked
<1>4. intents \in Seq(Intents) /\ DOMAIN intents = {}
  BY <1>1, EmptySeq
<1>5. IntentsInv
  BY <1>1, <1>4 DEF IntentsInv, SlotsInv
<1>6. Sound(decisions)
  <2>1. decisions = [k \in 1 .. 0 |-> decisions[k]] /\ DOMAIN decisions = 1 .. 0
    BY <1>1
  <2> QED BY <2>1 DEF Sound
<1>7. PlansInv
  BY <1>1, <1>6 DEF PlansInv
<1> QED BY <1>2, <1>3, <1>5, <1>7 DEF Inv

-----------------------------------------------------------------------------
(* The record and the plan that is made for it                              *)

RecordInv ==
    /\ record \in CapacityRecords \union {NoRecord}
    /\ loaded \in [Sessions -> CapacityRecords \union {NoRecord}]
    /\ seeded \in Nat
    /\ AllocatedIsBooked
    /\ CapacitySuffices

\* The record that a session has locked is the one it has read, and its plan was made for
\* what that record has left.
Holds(s) ==
    /\ pc[s] \in {"read", "insertRun", "save"} => record # NoRecord /\ loaded[s] = record
    /\ pc[s] \in {"insertRun", "save", "commit"} =>
        /\ plan[s].available = CapacityToAllocate(record)
        /\ AllocatedIn(plan[s].decisions) \in 0 .. plan[s].available
    /\ pc[s] = "commit" =>
        /\ record # NoRecord /\ loaded[s] \in CapacityRecords
        /\ loaded[s].total = record.total /\ loaded[s].active = record.active
        /\ loaded[s].allocated = record.allocated + AllocatedIn(plan[s].decisions)

LedgerInv == RecordInv /\ \A s \in Sessions : Holds(s)

\* What the capacity engine finds available fits in the record.
LEMMA RoomInTheRecord ==
    ASSUME NEW r \in CapacityRecords
    PROVE  /\ r.total \in 0 .. MaxTotal /\ r.allocated \in 0 .. r.total /\ r.active \in BOOLEAN
           /\ r = [total |-> r.total, allocated |-> r.allocated, active |-> r.active]
           /\ CapacityToAllocate(r) \in Nat
           /\ r.allocated + CapacityToAllocate(r) <= r.total
<1>1. /\ r \in [total : 0 .. MaxTotal, allocated : 0 .. MaxTotal, active : BOOLEAN]
      /\ r.allocated <= r.total
  BY DEF CapacityRecords
<1>2. /\ r.total \in 0 .. MaxTotal /\ r.allocated \in 0 .. MaxTotal /\ r.active \in BOOLEAN
      /\ r = [total |-> r.total, allocated |-> r.allocated, active |-> r.active]
  BY <1>1
<1>3. r.total \in Nat /\ r.allocated \in Nat /\ r.allocated \in 0 .. r.total
  BY <1>1, <1>2, BoundsAssumption
<1>4. CapacityToAllocate(r) \in {0, r.total - r.allocated}
  BY DEF CapacityToAllocate, AvailableCapacity
<1> QED BY <1>2, <1>3, <1>4

\* A plan gives away no more than it was made for.
LEMMA PlanFitsTheCapacity ==
    ASSUME IntentsInv, NEW cands \in CandidateLists, NEW available \in Nat
    PROVE  /\ Allocate(available, cands).available = available
           /\ AllocatedIn(Allocate(available, cands).decisions) \in 0 .. available
<1> DEFINE plan0 == Allocate(available, cands)
           left == Left(available, cands)
<1>0. PICK n \in Nat : \E ids : AreApproved(cands, ids, n)
  BY ApprovedCandidates
<1>1. PICK ids : AreApproved(cands, ids, n)
  BY <1>0
<1>2. AreCandidates(cands, n) /\ available \in Int
  BY <1>1 DEF AreApproved
<1>3. Decides(plan0, left, Ranked(cands), n)
  BY <1>2, PlanOfCandidates
<1>4. Drains(left, Max({0, available}), Ranked(cands), n) /\ Shrinks(left, n)
  BY <1>2, LeftShrinks
<1>5. Balances(plan0, left, n)
  BY <1>2, LedgerBalances
<1>6. Max({0, available}) = available
  BY DEF Max
<1> HIDE DEF plan0, left
<1>7. plan0.available = available
  BY <1>3, <1>4, <1>6 DEF Decides, Drains
<1>8. n \in 0 .. n
  OBVIOUS
<1>9. /\ left[n] \in Nat /\ Taken(plan0.decisions)[n] \in Nat
      /\ left[n] + Taken(plan0.decisions)[n] = available
      /\ AllocatedIn(plan0.decisions) = Taken(plan0.decisions)[n]
  BY <1>4, <1>5, <1>7, <1>8 DEF Shrinks, Balances
<1>10. AllocatedIn(plan0.decisions) \in 0 .. available
  BY <1>9
<1> QED BY <1>7, <1>10 DEF plan0

LEMMA NothingAllocated == AllocatedIn(<< >>) = 0
<1> DEFINE none == << >>
<1>1. Len(none) = 0 /\ \A k \in 1 .. 0 : none[k].allocated \in Nat
  OBVIOUS
<1> HIDE DEF none
<1>2. AddsUp(Taken(none), none, 0) /\ AllocatedIn(none) = Taken(none)[0]
  BY <1>1, TakenSteps
<1>3. AllocatedIn(none) = 0
  BY <1>2 DEF AddsUp
<1> QED BY <1>3 DEF none

\* A step of one session that leaves the record as it is.
LEMMA SessionStepKeepsLedger ==
    ASSUME Inv, LedgerInv, NEW s \in Sessions, UNCHANGED <<record, decisions, seeded>>,
           \A o \in Sessions \ {s} : pc'[o] = pc[o] /\ loaded'[o] = loaded[o] /\ plan'[o] = plan[o],
           out' = out \/ (\E o \in Outcomes \ {"Exceeded", "Check"} : out' = [out EXCEPT ![s] = o]),
           \E r \in CapacityRecords \union {NoRecord} : loaded' = [loaded EXCEPT ![s] = r],
           Holds(s)'
    PROVE  LedgerInv'
<1>1. RecordInv'
  <2>1. record' \in CapacityRecords \union {NoRecord} /\ seeded' \in Nat
    BY DEF LedgerInv, RecordInv
  <2>2. loaded' \in [Sessions -> CapacityRecords \union {NoRecord}]
    BY DEF LedgerInv, RecordInv
  <2>3. AllocatedIsBooked'
    BY DEF LedgerInv, RecordInv, AllocatedIsBooked
  <2>4. CapacitySuffices'
    <3>1. out \in [Sessions -> Outcomes] /\ \A o \in Sessions : out[o] \notin {"Exceeded", "Check"}
      BY DEF Inv, SessionsInv, LedgerInv, RecordInv, CapacitySuffices
    <3>2. \A o \in Sessions : out'[o] \notin {"Exceeded", "Check"}
      BY <3>1
    <3> QED BY <3>2 DEF CapacitySuffices
  <2> QED BY <2>1, <2>2, <2>3, <2>4 DEF RecordInv
<1>2. ASSUME NEW o \in Sessions \ {s} PROVE Holds(o)'
  BY DEF LedgerInv, Holds
<1> QED BY <1>1, <1>2 DEF LedgerInv

LEMMA FailKeepsLedger ==
    ASSUME Inv, LedgerInv, NEW s \in Sessions, NEW outcome \in Outcomes \ {"Exceeded", "Check"},
           Fail(s, outcome)
    PROVE  LedgerInv'
<1>1. /\ pc' = [pc EXCEPT ![s] = "done"] /\ out' = [out EXCEPT ![s] = outcome]
      /\ plan' = [plan EXCEPT ![s] = NoPlan] /\ loaded' = [loaded EXCEPT ![s] = NoRecord]
      /\ UNCHANGED <<record, decisions, seeded>>
  BY DEF Fail, EndTransaction, Goto, db, history
<1>2. pc'[s] = "done" /\ \A o \in Sessions \ {s} :
            pc'[o] = pc[o] /\ loaded'[o] = loaded[o] /\ plan'[o] = plan[o]
  BY <1>1 DEF Inv, SessionsInv, LedgerInv, RecordInv
<1>3. Holds(s)'
  BY <1>2 DEF Holds
<1> QED BY <1>1, <1>2, <1>3, SessionStepKeepsLedger

\* Steps after which the session holds nothing.
LEMMA OtherStepsKeepLedger ==
    ASSUME Inv, LedgerInv, NEW s \in Sessions,
           CheckExistingRun(s) \/ ReturnPlan(s) \/ Finish(s)
    PROVE  LedgerInv'
<1>1. CASE \E o \in {"Conflict"} : Fail(s, o)
  BY <1>1, FailKeepsLedger DEF Outcomes
<1>2. CASE ~ \E o \in {"Conflict"} : Fail(s, o)
  <2>1. /\ \E step \in {"lock", "done", "idle"} : pc' = [pc EXCEPT ![s] = step]
        /\ out' = out \/ \E o \in {"ok", "none"} : out' = [out EXCEPT ![s] = o]
        /\ plan' = plan \/ plan' = [plan EXCEPT ![s] = NoPlan]
        /\ UNCHANGED <<record, decisions, seeded, loaded>>
    BY <1>2 DEF CheckExistingRun, ReturnPlan, Finish, Goto, db, history
  <2>2. /\ pc'[s] \in {"lock", "done", "idle"}
        /\ \A o \in Sessions \ {s} : pc'[o] = pc[o] /\ loaded'[o] = loaded[o] /\ plan'[o] = plan[o]
    BY <2>1 DEF Inv, SessionsInv
  <2>3. Holds(s)'
    BY <2>2 DEF Holds
  <2>4. loaded' = [loaded EXCEPT ![s] = loaded[s]] /\ loaded[s] \in CapacityRecords \union {NoRecord}
    BY <2>1 DEF LedgerInv, RecordInv
  <2>5. out' = out \/ \E o \in Outcomes \ {"Exceeded", "Check"} : out' = [out EXCEPT ![s] = o]
    BY <2>1 DEF Outcomes
  <2> QED BY <2>1, <2>2, <2>3, <2>4, <2>5, SessionStepKeepsLedger
<1> QED BY <1>1, <1>2

LEMMA LockKeepsLedger == ASSUME Inv, LedgerInv, NEW s \in Sessions, LockRecord(s) PROVE LedgerInv'
<1>1. CASE record = NoRecord
  BY <1>1, FailKeepsLedger DEF LockRecord, Outcomes
<1>2. CASE record # NoRecord
  <2>1. /\ pc' = [pc EXCEPT ![s] = "read"] /\ loaded' = [loaded EXCEPT ![s] = record]
        /\ UNCHANGED <<record, decisions, seeded, plan, out>>
    BY <1>2 DEF LockRecord, Goto, db, history
  <2>2. /\ pc'[s] = "read" /\ loaded'[s] = record
        /\ \A o \in Sessions \ {s} : pc'[o] = pc[o] /\ loaded'[o] = loaded[o] /\ plan'[o] = plan[o]
    BY <2>1 DEF Inv, SessionsInv, LedgerInv, RecordInv
  <2>3. Holds(s)'
    BY <1>2, <2>1, <2>2 DEF Holds
  <2>4. record \in CapacityRecords \union {NoRecord}
    BY DEF LedgerInv, RecordInv
  <2> QED BY <2>1, <2>2, <2>3, <2>4, SessionStepKeepsLedger
<1> QED BY <1>1, <1>2

LEMMA ReadKeepsLedger == ASSUME Inv, LedgerInv, NEW s \in Sessions, ReadCandidates(s) PROVE LedgerInv'
<1>1. record # NoRecord /\ loaded[s] = record /\ record \in CapacityRecords
  BY DEF ReadCandidates, LedgerInv, Holds, RecordInv
<1>2. CapacityToAllocate(record) \in Nat
  BY <1>1, RoomInTheRecord
<1>3. PICK cands \in CandidateLists :
        plan' = [plan EXCEPT ![s] = Allocate(CapacityToAllocate(record), cands)]
  BY <1>1 DEF ReadCandidates
<1>4. pc' = [pc EXCEPT ![s] = "insertRun"] /\ UNCHANGED <<record, decisions, seeded, loaded, out>>
  BY DEF ReadCandidates, Goto, db, history
<1>5. /\ pc'[s] = "insertRun" /\ plan'[s] = Allocate(CapacityToAllocate(record), cands)
      /\ \A o \in Sessions \ {s} : pc'[o] = pc[o] /\ loaded'[o] = loaded[o] /\ plan'[o] = plan[o]
  BY <1>3, <1>4 DEF Inv, SessionsInv
<1>6. /\ plan'[s].available = CapacityToAllocate(record)
      /\ AllocatedIn(plan'[s].decisions) \in 0 .. plan'[s].available
  BY <1>2, <1>5, PlanFitsTheCapacity DEF Inv
<1>7. Holds(s)'
  BY <1>1, <1>4, <1>5, <1>6 DEF Holds
<1>8. loaded' = [loaded EXCEPT ![s] = loaded[s]] /\ loaded[s] \in CapacityRecords \union {NoRecord}
  BY <1>4 DEF LedgerInv, RecordInv
<1> QED BY <1>4, <1>5, <1>7, <1>8, SessionStepKeepsLedger

LEMMA InsertKeepsLedger == ASSUME Inv, LedgerInv, NEW s \in Sessions, InsertRun(s) PROVE LedgerInv'
<1>1. CASE CycleHasRun
  BY <1>1, FailKeepsLedger DEF InsertRun, Outcomes
<1>2. CASE ~ CycleHasRun
  <2>1. /\ pc[s] = "insertRun" /\ pc' = [pc EXCEPT ![s] = "save"]
        /\ UNCHANGED <<record, decisions, seeded, plan, out, loaded>>
    BY <1>2 DEF InsertRun, Goto, db, history
  <2>2. /\ pc'[s] = "save"
        /\ \A o \in Sessions \ {s} : pc'[o] = pc[o] /\ loaded'[o] = loaded[o] /\ plan'[o] = plan[o]
    BY <2>1 DEF Inv, SessionsInv
  <2>3. Holds(s)'
    BY <2>1, <2>2 DEF LedgerInv, Holds
  <2>4. loaded' = [loaded EXCEPT ![s] = loaded[s]] /\ loaded[s] \in CapacityRecords \union {NoRecord}
    BY <2>1 DEF LedgerInv, RecordInv
  <2> QED BY <2>1, <2>2, <2>3, <2>4, SessionStepKeepsLedger
<1> QED BY <1>1, <1>2

\* Neither check of the total can fail: the plan was made for what the locked record has left.
LEMMA SaveKeepsLedger == ASSUME Inv, LedgerInv, NEW s \in Sessions, SaveRecord(s) PROVE LedgerInv'
<1> DEFINE taken == AllocatedIn(plan[s].decisions)
           after == record.allocated + taken
<1>1. /\ record # NoRecord /\ loaded[s] = record /\ record \in CapacityRecords
      /\ taken \in 0 .. CapacityToAllocate(record)
      /\ plan[s].available = CapacityToAllocate(record)
  BY DEF SaveRecord, LedgerInv, Holds, RecordInv
<1>2. /\ record.total \in 0 .. MaxTotal /\ record.allocated \in 0 .. record.total /\ record.active \in BOOLEAN
      /\ record = [total |-> record.total, allocated |-> record.allocated, active |-> record.active]
      /\ CapacityToAllocate(record) \in Nat
      /\ record.allocated + CapacityToAllocate(record) <= record.total
  BY <1>1, RoomInTheRecord
<1> HIDE DEF taken
<1>3. after \in 0 .. record.total /\ after \in 0 .. MaxTotal
  BY <1>1, <1>2, BoundsAssumption
<1>4. AllocatedAfter(s) = after
  BY <1>1 DEF AllocatedAfter, taken
<1>5. ~ (AllocatedAfter(s) > loaded[s].total) /\ ~ (AllocatedAfter(s) > record.total)
  BY <1>1, <1>2, <1>3, <1>4
<1>6. /\ pc[s] = "save" /\ pc' = [pc EXCEPT ![s] = "commit"]
      /\ loaded' = [loaded EXCEPT ![s].allocated = after]
      /\ UNCHANGED <<record, decisions, seeded, plan, out>>
  BY <1>4, <1>5 DEF SaveRecord, Goto, db, history
<1> DEFINE r == [total |-> record.total, allocated |-> after, active |-> record.active]
<1>7. loaded' = [loaded EXCEPT ![s] = r]
  <2>1. [loaded[s] EXCEPT !.allocated = after] = r
    BY <1>1, <1>2
  <2>2. loaded' = [loaded EXCEPT ![s] = [loaded[s] EXCEPT !.allocated = after]]
    BY <1>6
  <2> QED BY <2>1, <2>2
<1>8. r \in CapacityRecords
  BY <1>2, <1>3 DEF CapacityRecords
<1>9. /\ pc'[s] = "commit" /\ loaded'[s] = r /\ plan'[s] = plan[s]
      /\ \A o \in Sessions \ {s} : pc'[o] = pc[o] /\ loaded'[o] = loaded[o] /\ plan'[o] = plan[o]
  BY <1>6, <1>7 DEF Inv, SessionsInv, LedgerInv, RecordInv
<1>10. r.total = record.total /\ r.active = record.active /\ r.allocated = record.allocated + taken
  OBVIOUS
<1> HIDE DEF r
<1>11. Holds(s)'
  BY <1>1, <1>6, <1>8, <1>9, <1>10 DEF Holds, taken
<1> QED BY <1>6, <1>7, <1>8, <1>9, <1>11, SessionStepKeepsLedger

\* The only run adds its decisions to none, and what they take to the record.
LEMMA CommitKeepsLedger == ASSUME Inv, LedgerInv, NEW s \in Sessions, Commit(s) PROVE LedgerInv'
<1>1. /\ pc[s] = "commit" /\ pc' = [pc EXCEPT ![s] = "return"]
      /\ record' = [record EXCEPT !.allocated = loaded[s].allocated]
      /\ loaded' = [loaded EXCEPT ![s] = NoRecord]
      /\ UNCHANGED <<plan, out, seeded>>
  BY DEF Commit, EndTransaction, Goto, history
<1>2. /\ record # NoRecord /\ record \in CapacityRecords /\ loaded[s] \in CapacityRecords
      /\ loaded[s].total = record.total /\ loaded[s].active = record.active
      /\ loaded[s].allocated = record.allocated + AllocatedIn(plan[s].decisions)
  BY <1>1 DEF LedgerInv, Holds, RecordInv
<1>3. record' = loaded[s]
  <2>1. /\ record = [total |-> record.total, allocated |-> record.allocated, active |-> record.active]
        /\ loaded[s] = [total |-> loaded[s].total, allocated |-> loaded[s].allocated,
                        active |-> loaded[s].active]
    BY <1>2, RoomInTheRecord
  <2> QED BY <1>1, <1>2, <2>1
<1>4. runs = 0 /\ decisions = << >> /\ recordLock = s
  BY <1>1 DEF Inv, RunInv, Locked
<1>5. decisions' = plan[s].decisions
  BY <1>1, CommitsThePlan
<1>6. record.allocated = seeded
  <2>1. AllocatedIn(decisions) = 0
    BY <1>4, NothingAllocated
  <2>2. seeded \in Nat /\ record.allocated = seeded + AllocatedIn(decisions)
    BY <1>2 DEF LedgerInv, RecordInv, AllocatedIsBooked
  <2> QED BY <2>1, <2>2
<1>7. RecordInv'
  <2>1. record' \in CapacityRecords /\ seeded' \in Nat
        /\ loaded' \in [Sessions -> CapacityRecords \union {NoRecord}]
    BY <1>1, <1>2, <1>3 DEF LedgerInv, RecordInv
  <2>2. AllocatedIsBooked'
    BY <1>1, <1>2, <1>3, <1>5, <1>6 DEF AllocatedIsBooked
  <2>3. CapacitySuffices'
    BY <1>1 DEF LedgerInv, RecordInv, CapacitySuffices
  <2> QED BY <2>1, <2>2, <2>3 DEF RecordInv
<1>8. ASSUME NEW o \in Sessions PROVE Holds(o)'
  <2>1. o # s => pc[o] \notin Locked
    BY <1>4 DEF Inv, RunInv
  <2>2. pc'[o] \notin {"read", "insertRun", "save", "commit"}
    BY <1>1, <2>1 DEF Inv, SessionsInv, Locked
  <2> QED BY <2>2 DEF Holds
<1> QED BY <1>7, <1>8 DEF LedgerInv

\* The administrator waits for the lock: nobody has read the record that is changed.
LEMMA CapacityKeepsLedger == ASSUME Inv, LedgerInv, SetCapacity PROVE LedgerInv'
<1>1. /\ record # NoRecord /\ \A s \in Sessions : recordLock = Free
      /\ record' \in CapacityRecords /\ record'.allocated = record.allocated
      /\ UNCHANGED <<decisions, pc, loaded, plan, out, seeded>>
  BY DEF SetCapacity, RecordIsFree, session, history
<1>2. RecordInv'
  BY <1>1, NoRecordAssumption DEF LedgerInv, RecordInv, AllocatedIsBooked, CapacitySuffices
<1>3. ASSUME NEW s \in Sessions PROVE Holds(s)'
  <2>1. pc[s] \notin Locked
    BY <1>1, LocksAssumption DEF Inv, RunInv
  <2>2. pc'[s] \notin {"read", "insertRun", "save", "commit"}
    BY <1>1, <2>1 DEF Locked
  <2> QED BY <2>2 DEF Holds
<1> QED BY <1>2, <1>3 DEF LedgerInv

LEMMA RestKeepsLedger ==
    ASSUME LedgerInv, BookOrDecide \/ UNCHANGED vars
    PROVE  LedgerInv'
<1>1. UNCHANGED <<record, decisions, pc, loaded, plan, out, seeded>>
  BY DEF BookOrDecide, vars, db, session, history
<1>2. RecordInv'
  BY <1>1 DEF LedgerInv, RecordInv, AllocatedIsBooked, CapacitySuffices
<1>3. ASSUME NEW s \in Sessions PROVE Holds(s)'
  BY <1>1 DEF LedgerInv, Holds
<1> QED BY <1>2, <1>3 DEF LedgerInv

LEMMA InitImpliesLedger == Init => LedgerInv
<1> SUFFICES ASSUME Init PROVE LedgerInv
  OBVIOUS
<1>1. /\ record \in CapacityRecords \union {NoRecord} /\ decisions = << >>
      /\ pc = [s \in Sessions |-> "idle"] /\ loaded = [s \in Sessions |-> NoRecord]
      /\ out = [s \in Sessions |-> "none"]
      /\ seeded = IF record = NoRecord THEN 0 ELSE record.allocated
  BY DEF Init
<1>2. seeded \in Nat
  <2>1. CASE record = NoRecord
    BY <1>1, <2>1
  <2>2. CASE record # NoRecord
    <3>1. record.allocated \in 0 .. record.total
      BY <1>1, <2>2, RoomInTheRecord
    <3> QED BY <1>1, <2>2, <3>1
  <2> QED BY <2>1, <2>2
<1>3. AllocatedIsBooked
  <2>1. AllocatedIn(decisions) = 0
    BY <1>1, NothingAllocated
  <2> QED BY <1>1, <1>2, <2>1 DEF AllocatedIsBooked
<1>4. CapacitySuffices
  BY <1>1 DEF CapacitySuffices
<1>5. \A s \in Sessions : Holds(s)
  BY <1>1 DEF Holds
<1> QED BY <1>1, <1>2, <1>3, <1>4, <1>5 DEF LedgerInv, RecordInv

-----------------------------------------------------------------------------

\* The strengthening of the invariants below holds in every state.
THEOREM Invariance == Spec => [](Inv /\ LedgerInv)
<1>1. Inv /\ LedgerInv /\ [Next]_vars => Inv' /\ LedgerInv'
  <2> SUFFICES ASSUME Inv, LedgerInv, [Next]_vars PROVE Inv' /\ LedgerInv'
    OBVIOUS
  <2>1. ASSUME NEW s \in Sessions, StatementFails(s) PROVE Inv' /\ LedgerInv'
    <3>1. Fail(s, "DBAPIError") /\ pc[s] \in AttemptSteps \union {"return"}
      BY <2>1 DEF StatementFails
    <3>2. "DBAPIError" \in Outcomes \ {"none", "ok", "Exceeded", "Check"}
      BY DEF Outcomes
    <3> QED BY <3>1, <3>2, FailPreserves, FailKeepsLedger
  <2>2. ASSUME NEW s \in Sessions, Step(s) PROVE Inv'
    <3>1. ASSUME ReadCandidates(s) PROVE Inv'
      <4>1. loaded[s] \in CapacityRecords
        BY <3>1 DEF ReadCandidates, LedgerInv, Holds, RecordInv
      <4> QED BY <3>1, <4>1, RoomInTheRecord, ReadPreserves
    <3> QED BY <2>2, <3>1, LockPreserves, InsertPreserves, SavePreserves, CommitPreserves,
               ReturnPreserves DEF Step
  <2>3. ASSUME NEW s \in Sessions, Step(s) PROVE LedgerInv'
    BY <2>3, LockKeepsLedger, ReadKeepsLedger, InsertKeepsLedger, SaveKeepsLedger,
       CommitKeepsLedger, OtherStepsKeepLedger DEF Step
  <2>4. ASSUME NEW s \in Sessions, CheckExistingRun(s) \/ Finish(s) PROVE Inv' /\ LedgerInv'
    BY <2>4, CheckPreserves, FinishPreserves, OtherStepsKeepLedger
  <2>5. BookOrDecide => Inv' /\ LedgerInv'
    BY BookPreserves, RestKeepsLedger
  <2>6. SetCapacity => Inv' /\ LedgerInv'
    BY CapacityPreserves, CapacityKeepsLedger
  <2>7. UNCHANGED vars => Inv' /\ LedgerInv'
    BY StutteringPreserves, RestKeepsLedger
  <2> QED BY <2>1, <2>2, <2>3, <2>4, <2>5, <2>6, <2>7 DEF Next
<1> QED BY InitImpliesInv, InitImpliesLedger, <1>1, PTL DEF Spec

\* Every variable of AllocationService keeps its type, and a session past get_capacity_record
\* is the one that holds the record.
THEOREM TypeCorrect == Spec => []TypeOK
<1>1. Inv /\ LedgerInv => TypeOK
  BY DEF Inv, SessionsInv, IntentsInv, RunInv, LedgerInv, RecordInv, TypeOK
<1> QED BY Invariance, <1>1, PTL

\* allocated_quantity_kg of the record and the decisions of the run are booked together.
THEOREM AllocatedBooked == Spec => []AllocatedIsBooked
<1>1. LedgerInv => AllocatedIsBooked
  BY DEF LedgerInv, RecordInv
<1> QED BY Invariance, <1>1, PTL

\* Neither "Allocated quantity exceeds total centre capacity" nor the CHECK of the table is
\* ever raised by run_allocation.
THEOREM CapacityAlwaysSuffices == Spec => []CapacitySuffices
<1>1. LedgerInv => CapacitySuffices
  BY DEF LedgerInv, RecordInv
<1> QED BY Invariance, <1>1, PTL

\* A plan is committed for the capacity that the record has at that moment.
THEOREM PlanStaysCurrent == Spec => PlanIsCurrent
<1>1. ASSUME Inv, LedgerInv, [Next]_vars, NEW s \in Sessions, commits'[s] > commits[s]
      PROVE  plan[s].available = CapacityToAllocate(record)
  <2>1. commits \in [Sessions -> Nat]
    BY <1>1 DEF Inv, SessionsInv
  <2>2. commits' # commits
    BY <1>1, <2>1
  <2>3. PICK o \in Sessions : Commit(o) \/ Finish(o)
    BY <1>1, <2>2 DEF Next, Step, CheckExistingRun, StatementFails, Fail, LockRecord, ReadCandidates,
       InsertRun, SaveRecord, ReturnPlan, BookOrDecide, SetCapacity, vars, session
  <2>4. CASE Finish(o)
    <3>1. commits' = [commits EXCEPT ![o] = 0]
      BY <2>4 DEF Finish
    <3>2. commits'[s] \in {0, commits[s]} /\ commits[s] \in Nat
      BY <2>1, <3>1
    <3> QED BY <1>1, <3>2
  <2>5. CASE Commit(o)
    <3>1. commits' = [commits EXCEPT ![o] = @ + 1] /\ pc[o] = "commit"
      BY <2>5 DEF Commit
    <3>2. s = o
      BY <1>1, <2>1, <3>1
    <3> QED BY <1>1, <3>1, <3>2 DEF LedgerInv, Holds
  <2> QED BY <2>3, <2>4, <2>5
<1>2. Inv /\ LedgerInv /\ [Next]_vars =>
        [\A s \in Sessions : commits'[s] > commits[s] => plan[s].available = CapacityToAllocate(record)]_vars
  BY <1>1
<1> QED BY Invariance, <1>2, PTL DEF Spec, PlanIsCurrent

\* run_allocation with uq_allocation_cycle: one run per cycle, and in it one decision per
\* intent and per farmer.
THEOREM OneDecision == Spec => []OneDecisionPerFarmer
<1>1. Inv => OneDecisionPerFarmer
  BY DEF Inv, RunInv, PlansInv, Sound, OneDecisionPerFarmer
<1> QED BY Invariance, <1>1, PTL

\* get_approved_intents_for_cycle: only approved intents of the cycle are decided on.
THEOREM ApprovedOnly == Spec => []DecidedWereApproved
<1>1. Inv => DecidedWereApproved
  BY DEF Inv, PlansInv, Sound, DecidedWereApproved
<1> QED BY Invariance, <1>1, PTL

\* The answers of run_allocation agree with what was committed.
THEOREM AnswersAgree == Spec => []AnswersMatchCommits
<1>1. Inv => AnswersMatchCommits
  BY DEF Inv
<1> QED BY Invariance, <1>1, PTL
=============================================================================
