---------------------------- MODULE TextProofs -----------------------------
(***************************************************************************)
(* What the loops of PostText make of a text, for every text: what is      *)
(* picked is picked in its order, once each, and nothing is missed; where  *)
(* a text is cut; which of two identifiers is newer.                       *)
(***************************************************************************)
EXTENDS PostText, FiniteSetTheorems, FunctionTheorems, SequenceTheorems,
        WellFoundedInduction, TLAPS

(* A set of positions has a first and a last one.                          *)
LEMMA FirstPosition ==
  ASSUME NEW K \in SUBSET Nat, K # {}
  PROVE  \E i \in K : \A j \in K : i <= j
<1> DEFINE less == {pair \in Nat \X Nat : pair[1] < pair[2]}
<1>1. IsWellFoundedOn(less, Nat)
  BY NatLessThanWellFounded DEF OpToRel
<1>2. PICK i \in K : \A j \in K : ~(<<j, i>> \in less)
  <2> HIDE DEF less
  <2> QED BY <1>1, WFMin
<1>3. \A j \in K : ~(j < i) /\ j \in Nat /\ i \in Nat
  BY <1>2
<1> QED BY <1>3

(* Counting up from 0 reaches every number, and counting defines a         *)
(* function by the step from one value to the next.                        *)
LEMMA Counting ==
  ASSUME NEW n \in Nat, NEW good, 0 \in good,
         \A k \in 1..n : k - 1 \in good => k \in good
  PROVE  \A k \in 0..n : k \in good
<1> DEFINE bad == {k \in 0..n : k \notin good}
<1> SUFFICES ASSUME bad # {} PROVE FALSE
  OBVIOUS
<1>1. bad \in SUBSET Nat
  OBVIOUS
<1>2. PICK k \in bad : \A j \in bad : k <= j
  <2> HIDE DEF bad
  <2> QED BY <1>1, FirstPosition
<1>3. k \in 1..n /\ k \notin good
  OBVIOUS
<1>4. k - 1 \in 0..n /\ ~(k <= k - 1)
  BY <1>3
<1>5. k - 1 \notin bad
  BY <1>2, <1>4
<1>6. k - 1 \in good
  BY <1>4, <1>5
<1> QED BY <1>3, <1>6

(* A step from one value to the next for each of 1..n, and the function it *)
(* makes of a first value.                                                 *)
StaysIn(step, n, S) == \A k \in 1..n : \A x \in S : step[k][x] \in S
Follows(f, base, step, n) == f[0] = base /\ \A k \in 1..n : f[k] = step[k][f[k - 1]]

LEMMA Recursion ==
  ASSUME NEW n \in Nat, NEW S, NEW base \in S, NEW step, StaysIn(step, n, S)
  PROVE  \E f \in [0..n -> S] : Follows(f, base, step, n)
<1> DEFINE good == {m \in 0..n : \E f \in [0..m -> S] : Follows(f, base, step, m)}
<1>1. 0 \in good
  <2> DEFINE f == [k \in 0..0 |-> base]
  <2>1. f \in [0..0 -> S] /\ Follows(f, base, step, 0)
    BY DEF Follows
  <2>2. \E h \in [0..0 -> S] : Follows(h, base, step, 0)
    <3> HIDE DEF f
    <3> QED BY <2>1
  <2> QED BY <2>2
<1>2. ASSUME NEW m \in 1..n, m - 1 \in good PROVE m \in good
  <2>1. PICK f \in [0..(m - 1) -> S] : Follows(f, base, step, m - 1)
    BY <1>2
  <2> DEFINE g == [k \in 0..m |-> IF k < m THEN f[k] ELSE step[m][f[m - 1]]]
  <2>2. f[m - 1] \in S
    OBVIOUS
  <2>3. step[m][f[m - 1]] \in S
    BY <2>2 DEF StaysIn
  <2>4. g \in [0..m -> S]
    BY <2>3
  <2>5. ASSUME NEW k \in 1..m PROVE g[k] = step[k][g[k - 1]]
    <3>1. k - 1 \in 0..(m - 1) /\ g[k - 1] = f[k - 1]
      OBVIOUS
    <3>2. CASE k = m
      <4>1. g[m] = step[m][f[m - 1]]
        OBVIOUS
      <4> HIDE DEF g
      <4> QED BY <3>1, <3>2, <4>1
    <3>3. CASE k # m
      <4>1. k \in 1..(m - 1) /\ k < m
        BY <3>3
      <4> QED BY <2>1, <3>1, <4>1 DEF Follows
    <3> QED BY <3>2, <3>3
  <2>6. g[0] = base
    BY <2>1 DEF Follows
  <2>7. \E h \in [0..m -> S] : Follows(h, base, step, m)
    <3> HIDE DEF g
    <3> QED BY <2>4, <2>5, <2>6 DEF Follows
  <2> QED BY <2>7
<1>3. n \in good
  <2> HIDE DEF good
  <2> QED BY <1>1, <1>2, Counting
<1> QED BY <1>3

LEMMA LastPosition ==
  ASSUME NEW n \in Nat, NEW K \in SUBSET (0..n), K # {}
  PROVE  \E i \in K : \A j \in K : j <= i
<1> DEFINE mirrored == {n - j : j \in K}
<1>1. mirrored \in SUBSET Nat /\ mirrored # {}
  <2>1. PICK j \in K : TRUE
    OBVIOUS
  <2>2. n - j \in mirrored
    BY <2>1
  <2>3. \A x \in K : n - x \in Nat
    OBVIOUS
  <2> QED BY <2>2, <2>3
<1>2. PICK m \in mirrored : \A x \in mirrored : m <= x
  <2> HIDE DEF mirrored
  <2> QED BY <1>1, FirstPosition
<1>3. PICK i \in K : m = n - i
  OBVIOUS
<1>4. \A j \in K : n - i <= n - j
  BY <1>2, <1>3
<1>5. \A j \in K : j <= i
  BY <1>4
<1> QED BY <1>5

LEMMA FirstNumbers ==
  ASSUME NEW n \in Nat
  PROVE  IsFiniteSet(1..n) /\ Cardinality(1..n) = n
<1>1. 1 \in Int /\ n \in Int
  OBVIOUS
<1>2. IsFiniteSet(1..n) /\ Cardinality(1..n) = IF 1 > n THEN 0 ELSE n - 1 + 1
  BY <1>1, FS_Interval
<1> QED BY <1>2

(* Different numbers for all members of a set use up all the numbers.      *)
LEMMA EveryNumberTaken ==
  ASSUME NEW D, IsFiniteSet(D), NEW f \in [D -> 1..Cardinality(D)],
         \A i, j \in D : f[i] = f[j] => i = j
  PROVE  \A k \in 1..Cardinality(D) : \E i \in D : f[i] = k
<1> DEFINE c == Cardinality(D)
<1>1. c \in Nat
  BY FS_CardinalityType
<1>2. f \in Injection(D, 1..c)
  <2> HIDE DEF c
  <2> QED BY Fun_IsInj DEF c
<1>3. f \in Surjection(D, 1..c)
  <2>1. IsFiniteSet(1..c) /\ Cardinality(1..c) = c
    BY <1>1, FS_Interval
  <2> QED BY <1>2, <2>1, FS_Injection
<1>4. \A k \in 1..c : \E i \in D : f[i] = k
  <2> HIDE DEF c
  <2> QED BY <1>3, Fun_SurjectionProperties
<1> QED BY <1>4

(* In a finite set with an order there is a first member, a second one...  *)
Orders(R, D) ==
  /\ \A i \in D : <<i, i>> \in R
  /\ \A i, j \in D : <<i, j>> \in R \/ <<j, i>> \in R
  /\ \A i, j \in D : <<i, j>> \in R /\ <<j, i>> \in R => i = j
  /\ \A i, j, k \in D : <<i, j>> \in R /\ <<j, k>> \in R => <<i, k>> \in R

UpToIn(R, D, i) == {j \in D : <<j, i>> \in R}

LEMMA Ranked ==
  ASSUME NEW D, IsFiniteSet(D), NEW R, Orders(R, D)
  PROVE  \A k \in 1..Cardinality(D) : \E i \in D : Cardinality(UpToIn(R, D, i)) = k
<1> DEFINE upTo(i) == {j \in D : <<j, i>> \in R}
           rank == [i \in D |-> Cardinality(upTo(i))]
<1>1. ASSUME NEW i \in D PROVE IsFiniteSet(upTo(i)) /\ Cardinality(upTo(i)) \in 1..Cardinality(D)
  <2>1. upTo(i) \in SUBSET D /\ i \in upTo(i)
    BY DEF Orders
  <2> DEFINE few == upTo(i)
  <2>2. few \in SUBSET D /\ few # {}
    BY <2>1
  <2> HIDE DEF few
  <2>3. IsFiniteSet(few) /\ Cardinality(few) <= Cardinality(D)
    BY <2>2, FS_Subset
  <2>4. Cardinality(few) \in Nat /\ Cardinality(D) \in Nat /\ Cardinality(few) # 0
    BY <2>2, <2>3, FS_CardinalityType, FS_EmptySet
  <2>5. Cardinality(few) \in 1..Cardinality(D)
    BY <2>3, <2>4
  <2> QED BY <2>3, <2>5 DEF few
<1>2. ASSUME NEW i \in D, NEW j \in D, <<i, j>> \in R, i # j
      PROVE  Cardinality(upTo(i)) # Cardinality(upTo(j))
  <2> DEFINE few == upTo(i)
             more == upTo(j)
  <2>1. few \in SUBSET more
    BY <1>2 DEF Orders
  <2>2. j \in more /\ j \notin few
    BY <1>2 DEF Orders
  <2>3. IsFiniteSet(more)
    BY <1>1
  <2>4. Cardinality(few) # Cardinality(more)
    <3> HIDE DEF few, more
    <3> QED BY <2>1, <2>2, <2>3, FS_Subset
  <2> QED BY <2>4
<1>3. rank \in [D -> 1..Cardinality(D)]
  BY <1>1
<1>4. \A i, j \in D : rank[i] = rank[j] => i = j
  <2> SUFFICES ASSUME NEW i \in D, NEW j \in D, i # j PROVE rank[i] # rank[j]
    OBVIOUS
  <2>1. CASE <<i, j>> \in R
    BY <1>2, <2>1
  <2>2. CASE <<j, i>> \in R
    BY <1>2, <2>2
  <2> QED BY <2>1, <2>2 DEF Orders
<1>5. \A k \in 1..Cardinality(D) : \E i \in D : rank[i] = k
  <2> HIDE DEF rank
  <2> QED BY <1>3, <1>4, EveryNumberTaken
<1> QED BY <1>5 DEF UpToIn

(* How many positions there are up to one.                                 *)
Rank(K, i) == Cardinality({j \in K : j <= i})

LEMMA RankGrows ==
  ASSUME NEW n \in Nat, NEW K \in SUBSET (1..n)
  PROVE  /\ IsFiniteSet(K) /\ Cardinality(K) \in 0..n
         /\ \A i \in K : Rank(K, i) \in 1..Cardinality(K)
         /\ \A i, j \in K : i < j => Rank(K, i) < Rank(K, j)
<1>1. IsFiniteSet(1..n) /\ Cardinality(1..n) = n
  BY FS_Interval
<1>2. IsFiniteSet(K) /\ Cardinality(K) \in 0..n
  <2> DEFINE all == 1..n
  <2>1. IsFiniteSet(all) /\ K \in SUBSET all /\ Cardinality(all) = n
    BY <1>1
  <2> HIDE DEF all
  <2>2. IsFiniteSet(K) /\ Cardinality(K) <= n
    BY <2>1, FS_Subset
  <2>3. Cardinality(K) \in Nat
    BY <2>2, FS_CardinalityType
  <2> QED BY <2>2, <2>3
<1>3. \A i \in K : IsFiniteSet({j \in K : j <= i}) /\ Rank(K, i) \in Nat
                   /\ Rank(K, i) <= Cardinality(K)
  <2> SUFFICES ASSUME NEW i \in K
               PROVE  IsFiniteSet({j \in K : j <= i}) /\ Rank(K, i) \in Nat
                      /\ Rank(K, i) <= Cardinality(K)
    OBVIOUS
  <2>1. {j \in K : j <= i} \in SUBSET K
    OBVIOUS
  <2>2. IsFiniteSet({j \in K : j <= i}) /\ Rank(K, i) <= Cardinality(K)
    BY <2>1, <1>2, FS_Subset DEF Rank
  <2> QED BY <2>2, FS_CardinalityType DEF Rank
<1>4. ASSUME NEW i \in K PROVE Rank(K, i) # 0
  <2>1. i \in {j \in K : j <= i}
    OBVIOUS
  <2> QED BY <2>1, <1>3, FS_EmptySet DEF Rank
<1>5. ASSUME NEW i \in K, NEW j \in K, i < j PROVE Rank(K, i) < Rank(K, j)
  <2> DEFINE upto == {k \in K : k <= i}
             more == {k \in K : k <= j}
  <2>0. i \in Nat /\ j \in Nat /\ \A k \in K : k \in Nat
    OBVIOUS
  <2>a. \A k \in K : k <= i => k <= j
    BY <1>5, <2>0
  <2>b. j <= j /\ ~(j <= i)
    BY <1>5, <2>0
  <2>1. upto \in SUBSET more /\ j \in more /\ j \notin upto
    BY <2>a, <2>b, Zenon
  <2>2. IsFiniteSet(more) /\ IsFiniteSet(upto)
    BY <1>3
  <2>3. Cardinality(upto) <= Cardinality(more) /\ Cardinality(upto) # Cardinality(more)
    <3> HIDE DEF upto, more
    <3> QED BY <2>1, <2>2, FS_Subset
  <2>4. Cardinality(upto) \in Nat /\ Cardinality(more) \in Nat
    BY <2>2, FS_CardinalityType
  <2>5. Cardinality(upto) < Cardinality(more)
    <3> HIDE DEF upto, more
    <3> QED BY <2>3, <2>4
  <2> QED BY <2>5 DEF Rank
<1>6. Cardinality(K) \in Nat
  BY <1>2
<1>7. ASSUME NEW i \in K PROVE Rank(K, i) \in 1..Cardinality(K)
  <2>1. Rank(K, i) \in Nat /\ Rank(K, i) <= Cardinality(K) /\ Rank(K, i) # 0
    BY <1>3, <1>4
  <2> QED BY <1>6, <2>1
<1> QED BY <1>2, <1>5, <1>7

(* The ascending sequence of a set: it goes up, and it has every position. *)
LEMMA AscendingGoesUp ==
  ASSUME NEW n \in Nat, NEW K \in SUBSET (1..n)
  PROVE  /\ Ascending(K) \in Seq(K) /\ Len(Ascending(K)) = Cardinality(K)
         /\ Cardinality(K) \in 0..n /\ (Cardinality(K) = 0 <=> K = {})
         /\ \A k, l \in 1..Cardinality(K) : k < l => Ascending(K)[k] < Ascending(K)[l]
         /\ \A i \in K : \E k \in 1..Cardinality(K) : Ascending(K)[k] = i
         /\ \A k \in 1..Cardinality(K) : Rank(K, Ascending(K)[k]) = k
<1> DEFINE c == Cardinality(K)
           f == [i \in K |-> Rank(K, i)]
<1>1. /\ IsFiniteSet(K) /\ c \in 0..n /\ c \in Nat
      /\ \A i \in K : Rank(K, i) \in 1..c
      /\ \A i, j \in K : i < j => Rank(K, i) < Rank(K, j)
  BY RankGrows
<1>2. \A i, j \in K : Rank(K, i) = Rank(K, j) => i = j
  BY <1>1
<1>3. f \in [K -> 1..c] /\ \A i, j \in K : f[i] = f[j] => i = j
  BY <1>1, <1>2
<1>4. \A k \in 1..c : \E i \in K : f[i] = k
  <2> HIDE DEF f
  <2> QED BY <1>1, <1>3, EveryNumberTaken
<1>5. \A k \in 1..c : \E i \in K : Rank(K, i) = k
  BY <1>4
<1>6. \A k \in 1..c : Ascending(K)[k] \in K /\ Rank(K, Ascending(K)[k]) = k
  BY <1>5 DEF Ascending, Rank
<1>7. Ascending(K) \in Seq(K) /\ Len(Ascending(K)) = c
  <2>1. Ascending(K) \in [1..c -> K]
    BY <1>6 DEF Ascending
  <2> HIDE DEF c
  <2> QED BY <2>1, <1>1
<1>8. ASSUME NEW k \in 1..c, NEW l \in 1..c, k < l
      PROVE  Ascending(K)[k] < Ascending(K)[l]
  <2>1. /\ Ascending(K)[k] \in 1..n /\ Ascending(K)[l] \in 1..n
        /\ Rank(K, Ascending(K)[k]) = k /\ Rank(K, Ascending(K)[l]) = l
        /\ Ascending(K)[k] \in K /\ Ascending(K)[l] \in K
    BY <1>6
  <2>2. ~(Ascending(K)[l] < Ascending(K)[k])
    BY <2>1, <1>1, <1>8
  <2>3. Ascending(K)[l] # Ascending(K)[k]
    BY <2>1, <1>8
  <2> QED BY <2>1, <2>2, <2>3
<1>9. ASSUME NEW i \in K PROVE \E k \in 1..c : Ascending(K)[k] = i
  <2>1. Rank(K, i) \in 1..c
    BY <1>1
  <2>2. Ascending(K)[Rank(K, i)] = i
    BY <2>1, <1>2, <1>6
  <2> QED BY <2>1, <2>2
<1>10. c = 0 <=> K = {}
  BY <1>1, FS_EmptySet
<1> QED BY <1>1, <1>6, <1>7, <1>8, <1>9, <1>10

(* What is picked: elements of the sequence, in its order, all of those at *)
(* the positions given.                                                    *)
LEMMA PickKeepsOrder ==
  ASSUME NEW S, NEW s \in Seq(S), NEW K \in SUBSET (DOMAIN s)
  PROVE  /\ Pick(s, K) \in Seq(S) /\ Len(Pick(s, K)) = Cardinality(K)
         /\ Cardinality(K) \in 0..Len(s) /\ (Cardinality(K) = 0 <=> K = {})
         /\ Ascending(K) \in Seq(K) /\ Len(Ascending(K)) = Cardinality(K)
         /\ \A k \in 1..Cardinality(K) : Pick(s, K)[k] = s[Ascending(K)[k]]
         /\ \A k, l \in 1..Cardinality(K) : k < l => Ascending(K)[k] < Ascending(K)[l]
         /\ \A i \in K : \E k \in 1..Cardinality(K) : Ascending(K)[k] = i
<1>1. DOMAIN s = 1..Len(s) /\ Len(s) \in Nat
  OBVIOUS
<1>2. /\ Ascending(K) \in Seq(K) /\ Len(Ascending(K)) = Cardinality(K)
      /\ Cardinality(K) \in 0..Len(s) /\ (Cardinality(K) = 0 <=> K = {})
      /\ \A k, l \in 1..Cardinality(K) : k < l => Ascending(K)[k] < Ascending(K)[l]
      /\ \A i \in K : \E k \in 1..Cardinality(K) : Ascending(K)[k] = i
  BY <1>1, AscendingGoesUp
<1>3. DOMAIN Ascending(K) = 1..Cardinality(K)
  BY <1>2
<1>4. \A k \in 1..Cardinality(K) : s[Ascending(K)[k]] \in S
  BY <1>2, <1>3
<1>5. Pick(s, K) = [k \in 1..Cardinality(K) |-> s[Ascending(K)[k]]]
  BY <1>3 DEF Pick
<1>6. Pick(s, K) \in Seq(S) /\ Len(Pick(s, K)) = Cardinality(K)
  <2>1. Pick(s, K) \in [1..Cardinality(K) -> S] /\ Cardinality(K) \in Nat
    BY <1>2, <1>4, <1>5
  <2> QED BY <2>1
<1> QED BY <1>2, <1>5, <1>6

LEMMA PickIsSeq ==
  ASSUME NEW S, NEW s \in Seq(S), NEW K \in SUBSET (DOMAIN s)
  PROVE  /\ Pick(s, K) \in Seq(S) /\ Len(Pick(s, K)) = Cardinality(K)
         /\ Cardinality(K) \in Nat /\ Cardinality(K) <= Len(s)
<1>1. Pick(s, K) \in Seq(S) /\ Len(Pick(s, K)) = Cardinality(K)
  BY PickKeepsOrder
<1>2. Cardinality(K) \in 0..Len(s)
  BY PickKeepsOrder
<1> QED BY <1>1, <1>2

(* The elements that are picked.                                           *)
LEMMA PickedElements ==
  ASSUME NEW S, NEW s \in Seq(S), NEW K \in SUBSET (DOMAIN s), NEW t, t = Pick(s, K)
  PROVE  /\ \A k \in DOMAIN t : \E i \in K : t[k] = s[i]
         /\ \A i \in K : \E k \in DOMAIN t : t[k] = s[i]
<1>0. /\ Pick(s, K) \in Seq(S) /\ Len(Pick(s, K)) = Cardinality(K)
      /\ Cardinality(K) \in 0..Len(s)
      /\ Ascending(K) \in Seq(K) /\ Len(Ascending(K)) = Cardinality(K)
      /\ \A k \in 1..Cardinality(K) : Pick(s, K)[k] = s[Ascending(K)[k]]
      /\ \A i \in K : \E k \in 1..Cardinality(K) : Ascending(K)[k] = i
  <2>1. /\ Pick(s, K) \in Seq(S) /\ Len(Pick(s, K)) = Cardinality(K)
        /\ Cardinality(K) \in 0..Len(s)
        /\ Ascending(K) \in Seq(K) /\ Len(Ascending(K)) = Cardinality(K)
    BY PickKeepsOrder
  <2>2. \A k \in 1..Cardinality(K) : Pick(s, K)[k] = s[Ascending(K)[k]]
    BY PickKeepsOrder
  <2>3. \A i \in K : \E k \in 1..Cardinality(K) : Ascending(K)[k] = i
    BY PickKeepsOrder
  <2> QED BY <2>1, <2>2, <2>3
<1> DEFINE c == Cardinality(K)
<1>1. /\ Pick(s, K) \in Seq(S) /\ Len(Pick(s, K)) = c /\ c \in 0..Len(s)
      /\ Ascending(K) \in Seq(K) /\ Len(Ascending(K)) = c
      /\ \A k \in 1..c : Pick(s, K)[k] = s[Ascending(K)[k]]
      /\ \A i \in K : \E k \in 1..c : Ascending(K)[k] = i
  BY <1>0
<1> HIDE DEF c
<1>2. DOMAIN Pick(s, K) = 1..c
  BY <1>1
<1>3. ASSUME NEW k \in 1..c PROVE Ascending(K)[k] \in K
  BY <1>1
<1>4. \A k \in 1..c : \E i \in K : Pick(s, K)[k] = s[i]
  BY <1>1, <1>3
<1>5. \A i \in K : \E k \in 1..c : Pick(s, K)[k] = s[i]
  BY <1>1
<1> QED BY <1>2, <1>4, <1>5

(* The whole of a sequence is picked as it is, and positions that run from *)
(* one to another are a piece of it.                                       *)
LEMMA PickOfRun ==
  ASSUME NEW S, NEW s \in Seq(S), NEW a \in Nat, NEW b \in Nat, 1 <= a, b <= Len(s),
         a <= b + 1
  PROVE  /\ Cardinality(a..b) = b - a + 1
         /\ \A k \in 1..(b - a + 1) : Ascending(a..b)[k] = a + k - 1
         /\ Pick(s, a..b) = SubSeq(s, a, b)
<1>1. a..b \in SUBSET (DOMAIN s) /\ a..b \in SUBSET (1..Len(s)) /\ Len(s) \in Nat
  OBVIOUS
<1>2. Cardinality(a..b) = b - a + 1
  <2>1. a \in Int /\ b \in Int
    OBVIOUS
  <2>2. Cardinality(a..b) = IF a > b THEN 0 ELSE b - a + 1
    BY <2>1, FS_Interval
  <2> QED BY <2>2
<1> DEFINE run == a..b
           n == b - a + 1
<1>3. /\ Ascending(run) \in Seq(run) /\ Len(Ascending(run)) = n /\ n \in Nat
      /\ \A k \in 1..n : Rank(run, Ascending(run)[k]) = k
  <2>1. n \in Nat /\ Len(s) \in Nat
    OBVIOUS
  <2>2. run \in SUBSET (1..Len(s)) /\ Cardinality(run) = n
    BY <1>1, <1>2
  <2> HIDE DEF run, n
  <2> QED BY <2>1, <2>2, AscendingGoesUp
<1>4. ASSUME NEW i \in run PROVE Rank(run, i) = i - a + 1
  <2>1. {j \in run : j <= i} = a..i
    OBVIOUS
  <2>2. a \in Int /\ i \in Int /\ a <= i
    OBVIOUS
  <2>3. Cardinality(a..i) = i - a + 1
    BY <2>2, FS_Interval
  <2> QED BY <2>1, <2>3 DEF Rank
<1>5. ASSUME NEW k \in 1..n PROVE Ascending(run)[k] = a + k - 1
  <2>1. Ascending(run)[k] \in run /\ Rank(run, Ascending(run)[k]) = k
    <3> HIDE DEF run, n
    <3> QED BY <1>3
  <2>2. Rank(run, Ascending(run)[k]) = Ascending(run)[k] - a + 1
    BY <1>4, <2>1
  <2>3. Ascending(run)[k] \in Nat
    BY <2>1
  <2> QED BY <2>1, <2>2, <2>3
<1>6. /\ Pick(s, run) \in Seq(S) /\ Len(Pick(s, run)) = n
      /\ \A k \in 1..n : Pick(s, run)[k] = s[Ascending(run)[k]]
  <2>1. run \in SUBSET (DOMAIN s) /\ Cardinality(run) = n
    BY <1>1, <1>2
  <2> HIDE DEF run, n
  <2> QED BY <2>1, PickKeepsOrder
<1>7. /\ SubSeq(s, a, b) \in Seq(S) /\ Len(SubSeq(s, a, b)) = n
      /\ \A k \in 1..n : SubSeq(s, a, b)[k] = s[a + k - 1]
  OBVIOUS
<1>8. \A k \in 1..n : Pick(s, run)[k] = SubSeq(s, a, b)[k]
  BY <1>5, <1>6, <1>7
<1>9. Pick(s, run) = SubSeq(s, a, b)
  <2> HIDE DEF run, n
  <2> QED BY <1>3, <1>6, <1>7, <1>8
<1> QED BY <1>2, <1>5, <1>9

(***************************************************************************)
(* Cutting a text.                                                         *)
(***************************************************************************)
LEMMA TrimSpaceShortens ==
  ASSUME NEW S, NEW s \in Seq(S)
  PROVE  TrimSpace(s) \in Seq(S) /\ Len(TrimSpace(s)) \in 0..Len(s)
<1> DEFINE K == {i \in DOMAIN s : /\ \E j \in 1..i : ~IsSpace(s[j])
                                 /\ \E j \in i..Len(s) : ~IsSpace(s[j])}
<1>1. K \in SUBSET (DOMAIN s)
  OBVIOUS
<1>2. TrimSpace(s) = Pick(s, K)
  BY DEF TrimSpace
<1> HIDE DEF K
<1> QED BY <1>1, <1>2, PickKeepsOrder

(* A URL ends somewhere.                                                   *)
LEMMA UrlEnds ==
  ASSUME NEW S, NEW s \in Seq(S), NEW i \in 1..Len(s), ~IsSpace(s[i])
  PROVE  /\ UrlEnd(s, i) \in i..Len(s)
         /\ \A j \in i..UrlEnd(s, i) : ~IsSpace(s[j])
         /\ UrlEnd(s, i) = Len(s) \/ IsSpace(s[UrlEnd(s, i) + 1])
<1> DEFINE spaces == {k \in (i + 1)..Len(s) : IsSpace(s[k])}
           Ends(k) == /\ \A j \in i..k : ~IsSpace(s[j])
                      /\ k = Len(s) \/ IsSpace(s[k + 1])
<1>0. Len(s) \in Nat
  OBVIOUS
<1>1. \E k \in i..Len(s) : Ends(k)
  <2>1. CASE spaces = {}
    <3>1. Len(s) \in i..Len(s) /\ Ends(Len(s))
      BY <2>1, <1>0
    <3> QED BY <3>1
  <2>2. CASE spaces # {}
    <3>1. spaces \in SUBSET Nat
      BY <1>0
    <3>2. PICK k \in spaces : \A j \in spaces : k <= j
      <4> HIDE DEF spaces
      <4> QED BY <2>2, <3>1, FirstPosition
    <3>3. k \in (i + 1)..Len(s) /\ IsSpace(s[k]) /\ k - 1 + 1 = k
      BY <1>0
    <3>4. ASSUME NEW j \in i..(k - 1) PROVE ~IsSpace(s[j])
      <4>1. j \notin spaces
        BY <1>0, <3>2, <3>3
      <4>2. j = i \/ j \in (i + 1)..Len(s)
        BY <1>0, <3>3
      <4> QED BY <4>1, <4>2
    <3>5. k - 1 \in i..Len(s) /\ Ends(k - 1)
      BY <1>0, <3>3, <3>4
    <3> HIDE DEF Ends
    <3> QED BY <3>5
  <2> QED BY <2>1, <2>2
<1>2. UrlEnd(s, i) = CHOOSE k \in i..Len(s) : Ends(k)
  BY DEF UrlEnd
<1>3. UrlEnd(s, i) \in i..Len(s) /\ Ends(UrlEnd(s, i))
  <2> HIDE DEF Ends
  <2> QED BY <1>1, <1>2
<1> QED BY <1>3

(* What TextFits of Content means by a place inside a URL: the characters  *)
(* before and after it belong to one.                                      *)
InUrl(s, n) == \E j \in 1..n : /\ s[j] = "scheme"
                              /\ \A m \in j..(n + 1) : ~IsSpace(s[m])

(* A place is inside a URL exactly when it is inside one that FindAllIndex *)
(* reports.                                                                *)
LEMMA InUrlIsInAMatch ==
  ASSUME NEW S, NEW s \in Seq(S), NEW n \in 0..(Len(s) - 1)
  PROVE  InUrl(s, n) <=> \E i \in DOMAIN s : UrlStart(s, i) /\ i - 1 < n /\ n < UrlEnd(s, i)
<1>0. DOMAIN s = 1..Len(s) /\ Len(s) \in Nat /\ n \in Nat /\ ~IsSpace("scheme")
  BY DEF IsSpace, Space, Newline
<1>1. ASSUME NEW i \in DOMAIN s, UrlStart(s, i), i - 1 < n, n < UrlEnd(s, i)
      PROVE  InUrl(s, n)
  <2>1. i \in 1..n /\ s[i] = "scheme"
    BY <1>0, <1>1 DEF UrlStart
  <2>2. \A j \in i..UrlEnd(s, i) : ~IsSpace(s[j])
    BY <1>0, <2>1, UrlEnds
  <2>3. UrlEnd(s, i) \in i..Len(s)
    BY <1>0, <2>1, UrlEnds
  <2>4. \A m \in i..(n + 1) : ~IsSpace(s[m])
    BY <1>0, <1>1, <2>2, <2>3
  <2> QED BY <2>1, <2>4 DEF InUrl
<1>2. ASSUME InUrl(s, n)
      PROVE  \E i \in DOMAIN s : UrlStart(s, i) /\ i - 1 < n /\ n < UrlEnd(s, i)
  <2> DEFINE opens == {j \in 1..n : s[j] = "scheme" /\ \A m \in j..(n + 1) : ~IsSpace(s[m])}
  <2>1. opens \in SUBSET Nat /\ opens # {}
    BY <1>0, <1>2 DEF InUrl
  <2>2. PICK i \in opens : \A j \in opens : i <= j
    <3> HIDE DEF opens
    <3> QED BY <2>1, FirstPosition
  <2>3. i \in 1..n /\ s[i] = "scheme" /\ \A m \in i..(n + 1) : ~IsSpace(s[m])
    OBVIOUS
  <2>4. i \in 1..Len(s) /\ i < Len(s) /\ ~IsSpace(s[i + 1])
    BY <1>0, <2>3
  <2>5. ASSUME NEW j \in 1..(i - 1), s[j] = "scheme" PROVE \E k \in j..i : IsSpace(s[k])
    <3>1. j \in 1..n /\ j \notin opens
      BY <1>0, <2>2, <2>3
    <3>2. PICK m \in j..(n + 1) : IsSpace(s[m])
      BY <2>5, <3>1
    <3>3. m \in j..i
      BY <1>0, <2>3, <3>2
    <3> QED BY <3>2, <3>3
  <2>6. UrlStart(s, i)
    BY <2>3, <2>4, <2>5 DEF UrlStart
  <2>7. /\ UrlEnd(s, i) \in i..Len(s)
        /\ UrlEnd(s, i) = Len(s) \/ IsSpace(s[UrlEnd(s, i) + 1])
    BY <1>0, <2>3, <2>4, UrlEnds
  <2>8. n < UrlEnd(s, i)
    <3> SUFFICES ASSUME UrlEnd(s, i) <= n PROVE FALSE
      BY <1>0, <2>7
    <3>1. UrlEnd(s, i) # Len(s) /\ UrlEnd(s, i) + 1 \in i..(n + 1)
      BY <1>0, <2>7
    <3> QED BY <2>3, <2>7, <3>1
  <2> QED BY <1>0, <2>3, <2>4, <2>6, <2>8
<1> QED BY <1>1, <1>2

(* The cut moves back to the last place that is not inside a URL.          *)
LEMMA CutOutsideUrls ==
  ASSUME NEW S, NEW s \in Seq(S), NEW cut \in 0..(Len(s) - 1)
  PROVE  /\ AvoidSplittingURL(s, cut) \in 0..cut
         /\ ~InUrl(s, AvoidSplittingURL(s, cut))
         /\ \A m \in (AvoidSplittingURL(s, cut) + 1)..cut : InUrl(s, m)
<1> DEFINE Splits(i) == UrlStart(s, i) /\ i - 1 < cut /\ cut < UrlEnd(s, i)
<1>0. DOMAIN s = 1..Len(s) /\ Len(s) \in Nat /\ cut \in Nat
  OBVIOUS
<1>1. CASE ~\E i \in DOMAIN s : Splits(i)
  <2>1. AvoidSplittingURL(s, cut) = cut
    BY <1>1 DEF AvoidSplittingURL
  <2>2. ~InUrl(s, cut)
    BY <1>1, InUrlIsInAMatch
  <2> QED BY <1>0, <2>1, <2>2
<1>2. CASE \E i \in DOMAIN s : Splits(i)
  <2> DEFINE i == CHOOSE x \in DOMAIN s : Splits(x)
  <2>1. i \in DOMAIN s /\ Splits(i)
    BY <1>2
  <2>2. AvoidSplittingURL(s, cut) = i - 1
    BY <1>2 DEF AvoidSplittingURL
  <2> HIDE DEF i
  <2>3. i \in 1..cut /\ s[i] = "scheme" /\ ~IsSpace(s[i])
    <3>1. ~IsSpace("scheme")
      BY DEF IsSpace, Space, Newline
    <3>2. i - 1 < cut /\ s[i] = "scheme" /\ i \in Nat /\ i >= 1
      BY <1>0, <2>1 DEF UrlStart
    <3> QED BY <1>0, <3>1, <3>2
  <2>4. UrlEnd(s, i) \in i..Len(s) /\ \A j \in i..UrlEnd(s, i) : ~IsSpace(s[j])
    BY <1>0, <2>3, UrlEnds
  <2>5. ~InUrl(s, i - 1)
    <3> SUFFICES ASSUME NEW j \in 1..(i - 1), s[j] = "scheme",
                        \A m \in j..(i - 1 + 1) : ~IsSpace(s[m])
                 PROVE  FALSE
      BY DEF InUrl
    <3>1. \E k \in j..i : IsSpace(s[k])
      BY <2>1 DEF UrlStart
    <3> QED BY <1>0, <2>3, <3>1
  <2>6. ASSUME NEW m \in i..cut PROVE InUrl(s, m)
    <3>1. i \in 1..m /\ \A k \in i..(m + 1) : ~IsSpace(s[k])
      BY <1>0, <2>1, <2>3, <2>4
    <3> QED BY <2>3, <3>1 DEF InUrl
  <2>7. i - 1 \in 0..cut /\ i - 1 + 1 = i
    BY <1>0, <2>3
  <2> QED BY <2>2, <2>5, <2>6, <2>7
<1> QED BY <1>1, <1>2

LEMMA CutIsTheLast ==
  ASSUME NEW S, NEW s \in Seq(S), NEW cut \in 0..(Len(s) - 1)
  PROVE  AvoidSplittingURL(s, cut) =
           CHOOSE n \in 0..cut : ~InUrl(s, n) /\ \A m \in (n + 1)..cut : InUrl(s, m)
<1> DEFINE c == AvoidSplittingURL(s, cut)
           Last(n) == ~InUrl(s, n) /\ \A m \in (n + 1)..cut : InUrl(s, m)
<1>1. c \in 0..cut /\ Last(c)
  BY CutOutsideUrls
<1> HIDE DEF c
<1>2. ASSUME NEW n \in 0..cut, Last(n) PROVE n = c
  <2>1. ~(n < c) /\ ~(c < n)
    BY <1>1, <1>2
  <2> QED BY <1>1, <2>1
<1>3. c = CHOOSE n \in 0..cut : Last(n)
  <2> HIDE DEF Last
  <2> QED BY <1>1, <1>2
<1> QED BY <1>3 DEF c

(* A text that fits is left alone; another is cut at the last place within *)
(* the limit that is not inside a URL, with room for the ellipsis.         *)
LastCut(s, max) == CHOOSE n \in 0..(max - 1) : /\ ~InUrl(s, n)
                                               /\ \A m \in (n + 1)..(max - 1) : InUrl(s, m)

LEMMA TruncatedTextFits ==
  ASSUME NEW S, NEW s \in Seq(S), NEW max \in Nat \ {0}
  PROVE  /\ Len(Truncate(s, max)) <= max
         /\ Truncate(s, max) = IF Len(s) <= max THEN s
                               ELSE TrimSpace(SubSeq(s, 1, LastCut(s, max))) \o <<Ellipsis>>
<1>0. max \in Nat /\ max >= 1 /\ Len(s) \in Nat /\ FirstCut(max) = max - 1
  BY DEF FirstCut
<1>1. CASE Len(s) <= max
  BY <1>0, <1>1 DEF Truncate
<1>2. CASE ~(Len(s) <= max)
  <2> DEFINE cut == AvoidSplittingURL(s, max - 1)
             kept == SubSeq(s, 1, cut)
  <2>1. max - 1 \in 0..(Len(s) - 1)
    BY <1>0, <1>2
  <2>2. cut \in 0..(max - 1)
    BY <2>1, CutOutsideUrls
  <2>3. Truncate(s, max) = TrimSpace(kept) \o <<Ellipsis>>
    BY <1>0, <1>2 DEF Truncate
  <2> HIDE DEF cut
  <2>4. kept \in Seq(S) /\ Len(kept) = cut
    BY <1>0, <1>2, <2>1, <2>2
  <2>5. TrimSpace(kept) \in Seq(S) /\ Len(TrimSpace(kept)) \in 0..cut
    BY <2>4, TrimSpaceShortens
  <2>6. Len(Truncate(s, max)) <= max
    <3>1. Len(TrimSpace(kept) \o <<Ellipsis>>) = Len(TrimSpace(kept)) + 1
      <4> HIDE DEF kept
      <4> QED BY <2>5
    <3> QED BY <1>0, <2>2, <2>3, <2>5, <3>1
  <2>7. cut = LastCut(s, max)
    BY <2>1, CutIsTheLast DEF cut, LastCut
  <2> QED BY <1>2, <2>3, <2>6, <2>7
<1> QED BY <1>1, <1>2

(***************************************************************************)
(* Texts stay texts.                                                       *)
(***************************************************************************)
(* The provers do not take a literal for a string by themselves.           *)
Chars == STRING \cup {Space, Newline, Ellipsis, "<", ">", "br", "/p", "p",
                      "&lt;", "&gt;", "&amp;lt;"}

LEMMA Literals ==
  /\ Space \in Chars /\ Newline \in Chars /\ Ellipsis \in Chars /\ STRING \subseteq Chars
  /\ "<" \in Chars /\ ">" \in Chars /\ "br" \in Chars /\ "/p" \in Chars /\ "p" \in Chars
  BY Zenon DEF Chars

(* Characters that stand for others.                                       *)
LEMMA EntityIsChar ==
  ASSUME NEW c \in Chars
  PROVE  Entity(c) \in Chars
<1>1. CASE c = "<"
  BY <1>1, Zenon DEF Entity, Chars
<1>2. CASE c = ">"
  BY <1>2, Zenon DEF Entity, Chars
<1>3. CASE c = "&lt;"
  BY <1>3, Zenon DEF Entity, Chars
<1>4. CASE c # "<" /\ c # ">" /\ c # "&lt;"
  BY <1>4, Zenon DEF Entity
<1> QED BY <1>1, <1>2, <1>3, <1>4, Zenon

LEMMA UnescapedIsChar ==
  ASSUME NEW s, NEW i \in DOMAIN s, s[i] \in Chars
  PROVE  Unescape(s)[i] \in Chars
<1>0. Unescape(s)[i] = CASE s[i] = "&lt;" -> "<" [] s[i] = "&gt;" -> ">"
                         [] s[i] = "&amp;lt;" -> "&lt;" [] OTHER -> s[i]
  BY Zenon DEF Unescape
<1>1. CASE s[i] = "&lt;"
  BY <1>0, <1>1, Zenon DEF Chars
<1>2. CASE s[i] = "&gt;"
  BY <1>0, <1>2, Zenon DEF Chars
<1>3. CASE s[i] = "&amp;lt;"
  BY <1>0, <1>3, Zenon DEF Chars
<1>4. CASE s[i] # "&lt;" /\ s[i] # "&gt;" /\ s[i] # "&amp;lt;"
  BY <1>0, <1>4, Zenon
<1> QED BY <1>1, <1>2, <1>3, <1>4, Zenon

LEMMA JoinedSteps ==
  ASSUME NEW S, NEW pieces \in Seq(Seq(S))
  PROVE  \E f : /\ f = [n \in 0..Len(pieces) |->
                         IF n = 0 THEN <<>> ELSE f[n - 1] \o pieces[n]]
                /\ Joined(pieces) = f[Len(pieces)]
<1> DEFINE n == Len(pieces)
           Joins(f) == f = [k \in 0..n |-> IF k = 0 THEN <<>> ELSE f[k - 1] \o pieces[k]]
           upTo == CHOOSE f : Joins(f)
           step == [k \in 1..n |-> [t \in Seq(S) |-> t \o pieces[k]]]
<1>1. n \in Nat /\ <<>> \in Seq(S) /\ \A k \in 1..n : pieces[k] \in Seq(S)
  OBVIOUS
<1>2. StaysIn(step, n, Seq(S))
  BY <1>1 DEF StaysIn
<1>3. PICK f \in [0..n -> Seq(S)] : Follows(f, <<>>, step, n)
  <2> HIDE DEF n, step
  <2> QED BY <1>1, <1>2, Recursion
<1>a. f[0] = <<>>
  BY <1>3 DEF Follows
<1>4. ASSUME NEW k \in 1..n PROVE f[k] = f[k - 1] \o pieces[k]
  <2>1. k - 1 \in 0..n
    BY <1>1
  <2>2. f[k - 1] \in Seq(S)
    BY <2>1
  <2> QED BY <1>3, <2>2 DEF Follows
<1>5. Joins(f)
  <2>1. ASSUME NEW k \in 0..n
        PROVE  f[k] = IF k = 0 THEN <<>> ELSE f[k - 1] \o pieces[k]
    <3>1. CASE k = 0
      BY <1>a, <3>1
    <3>2. CASE k # 0
      <4>1. k \in 1..n
        BY <1>1, <3>2
      <4> QED BY <1>4, <3>2, <4>1
    <3> QED BY <3>1, <3>2
  <2> QED BY <2>1
<1>6. Joins(upTo)
  <2> HIDE DEF Joins
  <2> QED BY <1>5
<1>7. Joined(pieces) = upTo[n]
  BY DEF Joined
<1> QED BY <1>6, <1>7

LEMMA JoinedIsSeq ==
  ASSUME NEW S, NEW pieces \in Seq(Seq(S))
  PROVE  Joined(pieces) \in Seq(S)
<1>1. PICK f : /\ f = [n \in 0..Len(pieces) |->
                        IF n = 0 THEN <<>> ELSE f[n - 1] \o pieces[n]]
               /\ Joined(pieces) = f[Len(pieces)]
  BY JoinedSteps
<1> DEFINE n == Len(pieces)
           good == {k \in 0..n : f[k] \in Seq(S)}
<1>2. n \in Nat /\ \A k \in 1..n : pieces[k] \in Seq(S)
  OBVIOUS
<1>a. f = [k \in 0..n |-> IF k = 0 THEN <<>> ELSE f[k - 1] \o pieces[k]]
  BY <1>1
<1> HIDE DEF n
<1>b. 0 \in 0..n
  BY <1>2
<1>3. f[0] = <<>>
  BY <1>a, <1>b
<1>c. ASSUME NEW k \in 1..n PROVE k \in 0..n /\ k # 0 /\ f[k] = f[k - 1] \o pieces[k]
  <2>1. k \in 0..n /\ k # 0
    BY <1>2
  <2> QED BY <1>a, <2>1
<1>4. 0 \in good
  <2>1. <<>> \in Seq(S)
    OBVIOUS
  <2> QED BY <1>b, <1>3, <2>1
<1>5. ASSUME NEW k \in 1..n, k - 1 \in good PROVE k \in good
  <2>1. f[k - 1] \in Seq(S) /\ pieces[k] \in Seq(S)
    BY <1>2, <1>5
  <2>2. f[k - 1] \o pieces[k] \in Seq(S)
    BY <2>1
  <2> QED BY <1>c, <2>2
<1>6. n \in good
  <2>1. n \in 0..n
    BY <1>2
  <2> HIDE DEF good
  <2> QED BY <1>2, <1>4, <1>5, <2>1, Counting
<1> QED BY <1>1, <1>6 DEF n

(* A text changed character by character.                                  *)
LEMMA MappedIsText ==
  ASSUME NEW S, NEW T, NEW s \in Seq(S), NEW t, DOMAIN t = DOMAIN s,
         t = [i \in DOMAIN s |-> t[i]], \A i \in DOMAIN s : t[i] \in T
  PROVE  t \in Seq(T) /\ Len(t) = Len(s)
<1>1. DOMAIN s = 1..Len(s) /\ Len(s) \in Nat
  OBVIOUS
<1>2. t \in [1..Len(s) -> T]
  BY <1>1
<1> QED BY <1>1, <1>2

LEMMA BreaksToLinesIsText ==
  ASSUME NEW s \in Seq(Chars)
  PROVE  BreaksToLines(s) \in Seq(Chars)
<1> DEFINE t == [i \in DOMAIN s |-> IF BreakAt(s, i) THEN Newline ELSE s[i]]
           K == {i \in DOMAIN s : ~BreakAt(s, i - 1) /\ ~BreakAt(s, i - 2)}
<1>1. \A i \in DOMAIN s : t[i] \in Chars
  BY Literals
<1>2. DOMAIN t = DOMAIN s /\ t = [i \in DOMAIN s |-> t[i]]
  OBVIOUS
<1>3. t \in Seq(Chars)
  <2> HIDE DEF t
  <2> QED BY <1>1, <1>2, MappedIsText
<1>4. BreaksToLines(s) = Pick(t, K) /\ K \in SUBSET (DOMAIN t)
  BY DEF BreaksToLines
<1> HIDE DEF t, K
<1> QED BY <1>3, <1>4, PickIsSeq

LEMMA DropTagsIsText ==
  ASSUME NEW s \in Seq(Chars)
  PROVE  DropTags(s) \in Seq(Chars)
<1> DEFINE K == {i \in DOMAIN s : ~InTag(s, i)}
<1>1. DropTags(s) = Pick(s, K) /\ K \in SUBSET (DOMAIN s)
  BY DEF DropTags
<1> HIDE DEF K
<1> QED BY <1>1, PickIsSeq

LEMMA UnescapeIsText ==
  ASSUME NEW s \in Seq(Chars)
  PROVE  Unescape(s) \in Seq(Chars)
<1> DEFINE t == Unescape(s)
<1>3. \A i \in DOMAIN s : t[i] \in Chars
  <2>1. \A i \in DOMAIN s : s[i] \in Chars
    OBVIOUS
  <2> QED BY <2>1, UnescapedIsChar
<1>4. DOMAIN t = DOMAIN s /\ t = [i \in DOMAIN s |-> t[i]]
  BY Zenon DEF Unescape
<1>5. t \in Seq(Chars)
  <2> HIDE DEF t
  <2> QED BY <1>3, <1>4, MappedIsText
<1> QED BY <1>5

LEMMA TidyLinesIsText ==
  ASSUME NEW s \in Seq(Chars)
  PROVE  TidyLines(s) \in Seq(Chars)
<1> DEFINE Edge(t, i) ==
             \/ \E k \in i..Len(t) : t[k] = Newline /\ \A m \in i..(k - 1) : t[m] = Space
             \/ \E k \in 1..i : t[k] = Newline /\ \A m \in (k + 1)..i : t[m] = Space
           K == {i \in DOMAIN s : s[i] = Space => ~Edge(s, i)}
           lines == Pick(s, K)
           L == {i \in DOMAIN lines : ~(i > 2 /\ \A j \in (i - 2)..i : lines[j] = Newline)}
<1>1. TidyLines(s) = Pick(lines, L) /\ K \in SUBSET (DOMAIN s) /\ L \in SUBSET (DOMAIN lines)
  BY DEF TidyLines
<1>2. lines \in Seq(Chars)
  <2> HIDE DEF K
  <2> QED BY <1>1, PickIsSeq
<1> HIDE DEF K, L, lines
<1> QED BY <1>1, <1>2, PickIsSeq

LEMMA StripHTMLIsText ==
  ASSUME NEW s \in Seq(Chars)
  PROVE  StripHTML(s) \in Seq(Chars)
<1> DEFINE t1 == BreaksToLines(s)
           t2 == DropTags(t1)
           t3 == Unescape(t2)
           t4 == TidyLines(t3)
<1>1. t1 \in Seq(Chars)
  BY BreaksToLinesIsText
<1>2. StripHTML(s) = TrimSpace(t4)
  BY DEF StripHTML
<1> HIDE DEF t1
<1>3. t2 \in Seq(Chars)
  BY <1>1, DropTagsIsText
<1> HIDE DEF t2
<1>4. t3 \in Seq(Chars)
  BY <1>3, UnescapeIsText
<1> HIDE DEF t3
<1>5. t4 \in Seq(Chars)
  BY <1>4, TidyLinesIsText
<1> HIDE DEF t4
<1> QED BY <1>2, <1>5, TrimSpaceShortens

LEMMA RenderedIsText ==
  ASSUME NEW s \in Seq(Chars)
  PROVE  Rendered(s) \in Seq(Chars)
<1> DEFINE Line(i) == i \in DOMAIN s /\ s[i] = Newline
           Html(i) == IF ~Line(i) THEN <<Entity(s[i])>>
                      ELSE IF Line(i - 1) THEN <<>>
                      ELSE IF Line(i + 1) THEN <<"<", "/p", ">", "<", "p", ">">>
                      ELSE <<"<", "br", ">">>
           pieces == [i \in DOMAIN s |-> Html(i)]
           opening == <<"<", "p", ">">>
           closing == <<"<", "/p", ">">>
<1>1. Rendered(s) = opening \o Joined(pieces) \o closing
  BY DEF Rendered
<1>a. "<" \in Chars /\ ">" \in Chars /\ "p" \in Chars /\ "/p" \in Chars /\ "br" \in Chars
  BY Literals
<1>2. opening \in Seq(Chars) /\ closing \in Seq(Chars)
  BY <1>a
<1>3. ASSUME NEW i \in DOMAIN s PROVE Html(i) \in Seq(Chars)
  <2>1. s[i] \in Chars
    OBVIOUS
  <2>3. Entity(s[i]) \in Chars
    BY <2>1, EntityIsChar
  <2>4. /\ <<Entity(s[i])>> \in Seq(Chars) /\ <<>> \in Seq(Chars)
        /\ <<"<", "/p", ">", "<", "p", ">">> \in Seq(Chars)
        /\ <<"<", "br", ">">> \in Seq(Chars)
    BY <2>3, <1>a
  <2> HIDE DEF Line
  <2> QED BY <2>4
<1>4. pieces \in Seq(Seq(Chars))
  <2>1. \A i \in DOMAIN s : pieces[i] \in Seq(Chars)
    BY <1>3
  <2>2. DOMAIN pieces = DOMAIN s /\ pieces = [i \in DOMAIN s |-> pieces[i]]
    OBVIOUS
  <2> HIDE DEF pieces
  <2> QED BY <2>1, <2>2, MappedIsText
<1> HIDE DEF pieces, opening, closing
<1>5. Joined(pieces) \in Seq(Chars)
  BY <1>4, JoinedIsSeq
<1> QED BY <1>1, <1>2, <1>5

(* The entities in the order of their editing.                             *)
LEMMA BackwardsIsSeq ==
  ASSUME NEW entities \in Seq(Entities)
  PROVE  Backwards(entities) \in Seq(Entities) /\ Len(Backwards(entities)) = Len(entities)
<1> DEFINE D == DOMAIN entities
           Later(j, i) == \/ EditedBefore(entities[j], entities[i])
                          \/ ~EditedBefore(entities[i], entities[j]) /\ j <= i
           R == {p \in D \X D : Later(p[1], p[2])}
           UpTo(i) == {j \in D : Later(j, i)}
<1>1. D = 1..Len(entities) /\ Len(entities) \in Nat
  OBVIOUS
<1>a. \A i \in D : entities[i] \in Entities /\ i \in Nat
  OBVIOUS
<1>2. \A i \in D : entities[i].start \in Int /\ i \in Nat
  BY <1>a DEF Entities
<1>3. \A i, j \in D : <<j, i>> \in R <=>
                        \/ entities[j].start > entities[i].start
                        \/ entities[j].start = entities[i].start /\ j <= i
  BY <1>2 DEF EditedBefore
<1> HIDE DEF R
<1>4. Orders(R, D)
  <2>1. \A i \in D : <<i, i>> \in R
    BY <1>2, <1>3
  <2>2. ASSUME NEW i \in D, NEW j \in D PROVE <<i, j>> \in R \/ <<j, i>> \in R
    <3>1. entities[i].start \in Int /\ entities[j].start \in Int /\ i \in Nat /\ j \in Nat
      BY <1>2
    <3> QED BY <1>3, <3>1
  <2>3. \A i, j \in D : <<i, j>> \in R /\ <<j, i>> \in R => i = j
    BY <1>2, <1>3
  <2>4. \A i, j, k \in D : <<i, j>> \in R /\ <<j, k>> \in R => <<i, k>> \in R
    BY <1>2, <1>3
  <2> QED BY <2>1, <2>2, <2>3, <2>4 DEF Orders
<1>8. IsFiniteSet(D) /\ Cardinality(D) = Len(entities)
  BY <1>1, FirstNumbers
<1>9. ASSUME NEW k \in D PROVE \E i \in D : Cardinality(UpTo(i)) = k
  <2>1. PICK i \in D : Cardinality(UpToIn(R, D, i)) = k
    <3>1. k \in 1..Cardinality(D)
      BY <1>1, <1>8
    <3> HIDE DEF D
    <3>2. \A x \in 1..Cardinality(D) : \E i \in D : Cardinality(UpToIn(R, D, i)) = x
      BY <1>4, <1>8, Ranked
    <3> QED BY <3>1, <3>2
  <2>2. UpToIn(R, D, i) = UpTo(i)
    BY DEF R, UpToIn
  <2> QED BY <2>1, <2>2
<1>10. Backwards(entities) =
         [k \in D |-> entities[CHOOSE i \in D : Cardinality(UpTo(i)) = k]]
  BY DEF Backwards
<1>11. \A k \in D : Backwards(entities)[k] \in Entities
  <2> SUFFICES ASSUME NEW k \in D
               PROVE  entities[CHOOSE i \in D : Cardinality(UpTo(i)) = k] \in Entities
    BY <1>10
  <2>1. (CHOOSE i \in D : Cardinality(UpTo(i)) = k) \in D
    <3> HIDE DEF D, UpTo
    <3> QED BY <1>9
  <2> HIDE DEF UpTo
  <2> QED BY <2>1
<1>12. /\ DOMAIN Backwards(entities) = DOMAIN entities
       /\ Backwards(entities) = [k \in DOMAIN entities |-> Backwards(entities)[k]]
  <2> HIDE DEF UpTo
  <2> QED BY <1>10
<1> QED BY <1>11, <1>12, MappedIsText

LEMMA WithoutIsText ==
  ASSUME NEW s \in Seq(Chars), NEW e \in Entities, Spans(e, s)
  PROVE  Without(s, e) \in Seq(Chars)
<1>1. e.start \in Int /\ e.end \in Int /\ 0 <= e.start /\ e.start < e.end /\ e.end <= Len(s)
  BY DEF Spans, Entities
<1>2. /\ SubSeq(s, 1, e.start) \in Seq(Chars)
      /\ SubSeq(s, e.end + 1, Len(s)) \in Seq(Chars)
      /\ SubSeq(s, e.end + 2, Len(s)) \in Seq(Chars)
  BY <1>1
<1>3. \/ Without(s, e) = SubSeq(s, 1, e.start) \o SubSeq(s, e.end + 1, Len(s))
      \/ Without(s, e) = SubSeq(s, 1, e.start) \o SubSeq(s, e.end + 2, Len(s))
  BY DEF Without
<1>4. /\ SubSeq(s, 1, e.start) \o SubSeq(s, e.end + 1, Len(s)) \in Seq(Chars)
      /\ SubSeq(s, 1, e.start) \o SubSeq(s, e.end + 2, Len(s)) \in Seq(Chars)
  BY <1>2
<1> QED BY <1>3, <1>4

(* What is edited so far.                                                  *)
Drafts == [text : Seq(Chars), removed : BOOLEAN]

LEMMA EditIsText ==
  ASSUME NEW done \in Drafts, NEW e \in Entities
  PROVE  Edit(done, e) \in Drafts
<1>0. done.text \in Seq(Chars) /\ done.removed \in BOOLEAN
  BY DEF Drafts
<1>1. CASE ~Spans(e, done.text)
  BY <1>1 DEF Edit
<1>2. CASE Spans(e, done.text) /\ e.media
  <2>1. Without(done.text, e) \in Seq(Chars)
    BY <1>0, <1>2, WithoutIsText
  <2>2. Edit(done, e) = [text |-> Without(done.text, e), removed |-> TRUE]
    BY <1>2 DEF Edit
  <2> QED BY <2>1, <2>2 DEF Drafts
<1>3. CASE Spans(e, done.text) /\ ~e.media /\ e.expanded # <<>>
  <2>1. /\ e.start \in Int /\ e.end \in Int /\ 0 <= e.start /\ e.start < e.end
        /\ e.end <= Len(done.text)
    BY <1>3 DEF Spans, Entities
  <2>2. e.expanded \in Seq(Chars)
    <3>1. e.expanded \in Seq(STRING) /\ STRING \subseteq Chars
      BY Literals DEF Entities
    <3> QED BY <3>1, SeqMonotonic
  <2>3. /\ SubSeq(done.text, 1, e.start) \in Seq(Chars)
        /\ SubSeq(done.text, e.end + 1, Len(done.text)) \in Seq(Chars)
    BY <1>0, <2>1
  <2> DEFINE new == SubSeq(done.text, 1, e.start) \o e.expanded
                    \o SubSeq(done.text, e.end + 1, Len(done.text))
  <2>4. new \in Seq(Chars)
    BY <2>2, <2>3
  <2>5. Edit(done, e) = [done EXCEPT !.text = new]
    BY <1>3 DEF Edit
  <2> HIDE DEF new
  <2> QED BY <2>4, <2>5 DEF Drafts
<1>4. CASE Spans(e, done.text) /\ ~e.media /\ e.expanded = <<>>
  BY <1>4 DEF Edit
<1> QED BY <1>1, <1>2, <1>3, <1>4

LEMMA ExpandTweetURLsIsText ==
  ASSUME NEW s \in Seq(Chars), NEW entities \in Seq(Entities)
  PROVE  ExpandTweetURLs(s, entities) \in Seq(Chars)
<1> DEFINE n == Len(entities)
           sorted == Backwards(entities)
           first == [text |-> s, removed |-> FALSE]
           Edits(f) == f = [k \in 0..n |-> IF k = 0 THEN first ELSE Edit(f[k - 1], sorted[k])]
           edited == CHOOSE f : Edits(f)
           step == [k \in 1..n |-> [done \in Drafts |-> Edit(done, sorted[k])]]
<1>1. n \in Nat /\ sorted \in Seq(Entities) /\ Len(sorted) = n
  BY BackwardsIsSeq
<1>2. first \in Drafts
  BY DEF Drafts
<1>3. \A k \in 1..n : sorted[k] \in Entities
  <2> HIDE DEF sorted, n
  <2> QED BY <1>1
<1> HIDE DEF n, sorted, first
<1>4. ASSUME NEW k \in 1..n, NEW done \in Drafts
      PROVE  step[k][done] = Edit(done, sorted[k]) /\ step[k][done] \in Drafts
  BY <1>3, EditIsText
<1>5. StaysIn(step, n, Drafts)
  BY <1>4 DEF StaysIn
<1>6. PICK f \in [0..n -> Drafts] : Follows(f, first, step, n)
  <2> HIDE DEF step
  <2> QED BY <1>1, <1>2, <1>5, Recursion
<1>7. ASSUME NEW k \in 1..n PROVE f[k] = Edit(f[k - 1], sorted[k])
  <2>1. k - 1 \in 0..n
    BY <1>1
  <2>2. f[k - 1] \in Drafts
    BY <2>1
  <2>3. f[k] = step[k][f[k - 1]]
    BY <1>6 DEF Follows
  <2> HIDE DEF step
  <2> QED BY <1>4, <2>2, <2>3
<1>8. Edits(f)
  <2>1. ASSUME NEW k \in 0..n
        PROVE  f[k] = IF k = 0 THEN first ELSE Edit(f[k - 1], sorted[k])
    <3>1. CASE k = 0
      BY <1>6, <3>1 DEF Follows
    <3>2. CASE k # 0
      <4>1. k \in 1..n
        BY <1>1, <3>2
      <4> QED BY <1>7, <3>2, <4>1
    <3> QED BY <3>1, <3>2
  <2> HIDE DEF step
  <2> QED BY <2>1
<1>9. Edits(edited)
  <2> HIDE DEF Edits
  <2> QED BY <1>8
<1> DEFINE good == {k \in 0..n : edited[k] \in Drafts}
<1>10. edited = [k \in 0..n |-> IF k = 0 THEN first ELSE Edit(edited[k - 1], sorted[k])]
  BY <1>9
<1> HIDE DEF edited
<1>11. 0 \in good
  BY <1>1, <1>2, <1>10
<1>12. ASSUME NEW k \in 1..n, k - 1 \in good PROVE k \in good
  <2>1. k \in 0..n /\ k # 0
    BY <1>1
  <2>2. edited[k] = Edit(edited[k - 1], sorted[k])
    BY <1>10, <2>1
  <2>3. edited[k - 1] \in Drafts /\ sorted[k] \in Entities
    BY <1>3, <1>12
  <2> QED BY <2>1, <2>2, <2>3, EditIsText
<1>13. n \in good
  <2>1. n \in 0..n
    BY <1>1
  <2> HIDE DEF good
  <2> QED BY <1>1, <1>11, <1>12, <2>1, Counting
<1>14. edited[n].text \in Seq(Chars)
  BY <1>13 DEF Drafts
<1>15. ExpandTweetURLs(s, entities) =
         IF edited[n].removed THEN TrimSpace(edited[n].text) ELSE edited[n].text
  BY DEF ExpandTweetURLs, edited, n, sorted, first
<1> QED BY <1>14, <1>15, TrimSpaceShortens

(***************************************************************************)
(* Identifiers.                                                            *)
(***************************************************************************)
Digits == 0..9

LEMMA CanonicalStarts ==
  ASSUME NEW id \in Seq(Digits), id # <<>>
  PROVE  LET c == CanonicalID(id)
             zeros == {i \in DOMAIN id : \A j \in 1..i : id[j] = 0}
         IN \/ zeros = DOMAIN id /\ c = <<0>>
            \/ \E a \in 1..Len(id) : /\ id[a] # 0 /\ \A j \in 1..(a - 1) : id[j] = 0
                                     /\ c = SubSeq(id, a, Len(id))
<1> DEFINE K == {i \in DOMAIN id : \E j \in 1..i : id[j] # 0}
           n == Len(id)
<1>1. DOMAIN id = 1..n /\ n \in Nat /\ n # 0 /\ K \in SUBSET (DOMAIN id) /\ K \in SUBSET Nat
      /\ \A i \in 1..n : id[i] \in Digits
  OBVIOUS
<1>2. CanonicalID(id) = IF Pick(id, K) = <<>> THEN <<0>> ELSE Pick(id, K)
  BY DEF CanonicalID
<1>3. Pick(id, K) \in Seq(Digits) /\ Len(Pick(id, K)) = Cardinality(K)
  <2> HIDE DEF K
  <2> QED BY <1>1, PickIsSeq
<1>4. CASE K = {}
  <2>1. Cardinality(K) = 0
    BY <1>4, FS_EmptySet
  <2>2. Pick(id, K) = <<>>
    <3> DEFINE t == Pick(id, K)
    <3>1. t \in Seq(Digits) /\ Len(t) = 0
      BY <1>3, <2>1
    <3> HIDE DEF t
    <3>2. t = <<>>
      BY <3>1
    <3> QED BY <3>2 DEF t
  <2>3. {i \in DOMAIN id : \A j \in 1..i : id[j] = 0} = DOMAIN id
    BY <1>4
  <2> QED BY <1>2, <2>2, <2>3
<1>5. CASE K # {}
  <2>1. PICK a \in K : \A i \in K : a <= i
    <3> HIDE DEF K
    <3> QED BY <1>1, <1>5, FirstPosition
  <2>2. a \in 1..n /\ \E j \in 1..a : id[j] # 0
    BY <1>1
  <2>3. ASSUME NEW j \in 1..(a - 1) PROVE id[j] = 0
    <3>1. j \in 1..n /\ ~(a <= j)
      BY <1>1, <2>2
    <3>2. j \notin K
      BY <2>1, <3>1
    <3> QED BY <1>1, <3>1, <3>2
  <2>4. id[a] # 0
    <3>1. PICK j \in 1..a : id[j] # 0
      BY <2>2
    <3>2. j = a
      BY <1>1, <2>2, <2>3, <3>1
    <3> QED BY <3>1, <3>2
  <2>5. K = a..n
    <3>1. \A i \in K : i \in a..n
      BY <1>1, <2>1
    <3>2. \A i \in a..n : i \in 1..n /\ a \in 1..i
      BY <1>1, <2>2
    <3>3. \A i \in a..n : i \in K
      BY <1>1, <2>4, <3>2
    <3> HIDE DEF K
    <3> QED BY <3>1, <3>3
  <2>6. Pick(id, K) = SubSeq(id, a, n)
    <3>1. a \in Nat /\ 1 <= a /\ n <= Len(id) /\ a <= n + 1
      BY <1>1, <2>2
    <3> HIDE DEF K
    <3> QED BY <1>1, <2>5, <3>1, PickOfRun
  <2>7. Pick(id, K) # <<>>
    <3> DEFINE t == SubSeq(id, a, n)
    <3>1. Len(t) # 0
      BY <1>1, <2>2
    <3> HIDE DEF t
    <3>2. t # <<>>
      BY <3>1
    <3> QED BY <2>6, <3>2 DEF t
  <2> QED BY <1>2, <2>2, <2>3, <2>4, <2>6, <2>7
<1> QED BY <1>4, <1>5

(* What trimLinkEnd gives up of a URL, and what it leaves.                 *)
Counted(raw, n, c) == Cardinality({i \in 1..n : raw[i] = c})
GivenUp(raw, n) == \/ raw[n] \in {".", Ellipsis}
                   \/ raw[n] = ")" /\ Counted(raw, n, "(") < Counted(raw, n, ")")
Left(raw, n) == (n = 0 \/ ~GivenUp(raw, n)) /\ \A m \in (n + 1)..Len(raw) : GivenUp(raw, m)

LEMMA LinkLengthIs ==
  ASSUME NEW S, NEW raw \in Seq(S)
  PROVE  /\ LinkLength(raw) \in 0..Len(raw) /\ Left(raw, LinkLength(raw))
         /\ \A n \in 0..Len(raw) : Left(raw, n) => n = LinkLength(raw)
<1> DEFINE n == Len(raw)
           kept == {k \in 0..n : k = 0 \/ ~GivenUp(raw, k)}
           c == LinkLength(raw)
<1>1. n \in Nat /\ 0 \in kept
  OBVIOUS
<1>2. c = CHOOSE k \in 0..n : Left(raw, k)
  BY DEF LinkLength, Left, GivenUp, Counted
<1>3. PICK k \in kept : \A j \in kept : j <= k
  <2>1. kept \in SUBSET (0..n) /\ kept # {}
    BY <1>1
  <2> HIDE DEF kept
  <2> QED BY <1>1, <2>1, LastPosition
<1>4. k \in 0..n /\ Left(raw, k)
  <2>1. ASSUME NEW m \in (k + 1)..n PROVE GivenUp(raw, m)
    <3>1. m \in 0..n /\ ~(m <= k)
      BY <1>1
    <3> QED BY <1>3, <3>1
  <2> QED BY <2>1 DEF Left
<1> HIDE DEF c
<1>5. c \in 0..n /\ Left(raw, c)
  BY <1>2, <1>4
<1>6. ASSUME NEW j \in 0..n, Left(raw, j) PROVE j = c
  <2>1. CASE j < c
    <3>1. c \in (j + 1)..n /\ c # 0
      BY <1>1, <1>5, <2>1
    <3> QED BY <1>5, <1>6, <3>1 DEF Left
  <2>2. CASE c < j
    <3>1. j \in (c + 1)..n /\ j # 0
      BY <1>1, <1>5, <2>2
    <3> QED BY <1>5, <1>6, <3>1 DEF Left
  <2> QED BY <1>1, <1>5, <2>1, <2>2
<1> QED BY <1>5, <1>6 DEF c

(* What is left of a link once trimLinkEnd has taken its end.              *)
LEMMA LinkKeepsItsScheme ==
  ASSUME NEW S, NEW raw \in Seq(S), Len(raw) # 0, raw[1] = "scheme"
  PROVE  LinkLength(raw) \in 1..Len(raw)
<1>1. ~GivenUp(raw, 1) /\ 1 \in 1..Len(raw)
  BY DEF GivenUp, Ellipsis
<1>2. LinkLength(raw) \in 0..Len(raw) /\ Left(raw, LinkLength(raw))
  BY LinkLengthIs
<1>3. LinkLength(raw) # 0
  BY <1>1, <1>2 DEF Left
<1> QED BY <1>2, <1>3

(* Each link that is found lies within the text.                           *)
LEMMA LinksLieWithin ==
  ASSUME NEW S, NEW s \in Seq(S), NEW k \in DOMAIN FindLinks(s)
  PROVE  FindLinks(s)[k].at + Len(FindLinks(s)[k].url) - 1 \in 1..Len(s)
<1> DEFINE K == {i \in DOMAIN s : UrlStart(s, i)}
           starts == Ascending(K)
           i == starts[k]
           raw == SubSeq(s, i, UrlEnd(s, i))
           url == SubSeq(raw, 1, LinkLength(raw))
<1>0. DOMAIN s = 1..Len(s) /\ Len(s) \in Nat /\ K \in SUBSET (1..Len(s)) /\ ~IsSpace("scheme")
  BY DEF IsSpace, Space, Newline
<1>1. starts \in Seq(K)
  <2> HIDE DEF K
  <2> QED BY <1>0, AscendingGoesUp
<1>2. DOMAIN FindLinks(s) = DOMAIN starts /\ FindLinks(s)[k] = [at |-> i, url |-> url]
  BY DEF FindLinks
<1>3. i \in K
  BY <1>1, <1>2
<1>4. i \in 1..Len(s) /\ s[i] = "scheme" /\ ~IsSpace(s[i])
  <2> HIDE DEF i
  <2> QED BY <1>0, <1>3 DEF UrlStart
<1> HIDE DEF i
<1>5. UrlEnd(s, i) \in i..Len(s)
  BY <1>4, UrlEnds
<1> DEFINE e == UrlEnd(s, i)
<1> HIDE DEF e
<1>a. e \in i..Len(s) /\ e \in Nat /\ i \in Nat /\ i >= 1 /\ raw = SubSeq(s, i, e)
  BY <1>0, <1>4, <1>5 DEF e
<1> DEFINE r == SubSeq(s, i, e)
<1>6. r \in Seq(S) /\ Len(r) = e - i + 1 /\ r[1] = s[i]
  BY <1>0, <1>a
<1> HIDE DEF r, raw
<1>7. raw = r
  BY <1>a DEF r
<1>8. LinkLength(r) \in 1..Len(r)
  BY <1>4, <1>6, <1>a, LinkKeepsItsScheme
<1>9. Len(SubSeq(r, 1, LinkLength(r))) = LinkLength(r)
  BY <1>6, <1>8
<1> QED BY <1>0, <1>2, <1>6, <1>7, <1>8, <1>9, <1>a

LEMMA TruncateIsText ==
  ASSUME NEW s \in Seq(Chars), NEW max \in Nat \ {0}
  PROVE  Truncate(s, max) \in Seq(Chars)
<1> DEFINE cut == AvoidSplittingURL(s, max - 1)
           kept == SubSeq(s, 1, cut)
<1>0. max \in Nat /\ max >= 1 /\ Len(s) \in Nat /\ FirstCut(max) = max - 1
  BY DEF FirstCut
<1>1. CASE Len(s) <= max
  BY <1>0, <1>1 DEF Truncate
<1>2. CASE ~(Len(s) <= max)
  <2>1. max - 1 \in 0..(Len(s) - 1)
    BY <1>0, <1>2
  <2>2. cut \in 0..(max - 1)
    BY <2>1, CutOutsideUrls
  <2>3. Truncate(s, max) = TrimSpace(kept) \o <<Ellipsis>>
    BY <1>0, <1>2 DEF Truncate
  <2> HIDE DEF cut
  <2>4. kept \in Seq(Chars)
    BY <1>0, <1>2, <2>1, <2>2
  <2> HIDE DEF kept
  <2>5. TrimSpace(kept) \in Seq(Chars)
    BY <2>4, TrimSpaceShortens
  <2>6. <<Ellipsis>> \in Seq(Chars)
    BY Literals
  <2> DEFINE t == TrimSpace(kept)
             u == <<Ellipsis>>
  <2> HIDE DEF t, u
  <2>7. t \o u \in Seq(Chars)
    <3>1. t \in Seq(Chars) /\ u \in Seq(Chars)
      BY <2>5, <2>6 DEF t, u
    <3> QED BY <3>1
  <2> QED BY <2>3, <2>7 DEF t, u
<1> QED BY <1>1, <1>2

(***************************************************************************)
(* Links that survive a cut.                                               *)
(***************************************************************************)
AllSpace(s, i, j) == \A m \in i..j : IsSpace(s[m])

LEMMA TrimmedRun ==
  ASSUME NEW S, NEW s \in Seq(S)
  PROVE  \/ AllSpace(s, 1, Len(s)) /\ TrimSpace(s) = <<>>
         \/ \E a \in 1..Len(s) : \E b \in a..Len(s) :
              /\ ~IsSpace(s[a]) /\ ~IsSpace(s[b])
              /\ AllSpace(s, 1, a - 1) /\ AllSpace(s, b + 1, Len(s))
              /\ TrimSpace(s) = SubSeq(s, a, b)
<1> DEFINE n == Len(s)
           K == {i \in DOMAIN s : /\ \E j \in 1..i : ~IsSpace(s[j])
                                  /\ \E j \in i..n : ~IsSpace(s[j])}
           dark == {i \in 1..n : ~IsSpace(s[i])}
<1>0. n \in Nat /\ DOMAIN s = 1..n /\ K \in SUBSET (DOMAIN s) /\ TrimSpace(s) = Pick(s, K)
  BY DEF TrimSpace
<1>1. CASE dark = {}
  <2>1. K = {} /\ AllSpace(s, 1, n)
    BY <1>0, <1>1 DEF AllSpace
  <2>2. Cardinality(K) = 0
    BY <2>1, FS_EmptySet
  <2> DEFINE t == Pick(s, K)
  <2>3. t \in Seq(S) /\ Len(t) = 0
    <3> HIDE DEF K
    <3> QED BY <1>0, <2>2, PickIsSeq
  <2> HIDE DEF t
  <2>4. t = <<>>
    BY <2>3
  <2> QED BY <1>0, <2>1, <2>4 DEF t
<1>2. CASE dark # {}
  <2>1. dark \in SUBSET Nat /\ dark \in SUBSET (0..n)
    BY <1>0
  <2>2. PICK a \in dark : \A i \in dark : a <= i
    <3> HIDE DEF dark
    <3> QED BY <1>2, <2>1, FirstPosition
  <2>3. PICK b \in dark : \A i \in dark : i <= b
    <3> HIDE DEF dark
    <3> QED BY <1>0, <1>2, <2>1, LastPosition
  <2>4. a \in 1..n /\ b \in a..n /\ ~IsSpace(s[a]) /\ ~IsSpace(s[b])
    BY <1>0, <2>2
  <2>5. AllSpace(s, 1, a - 1)
    <3> SUFFICES ASSUME NEW m \in 1..(a - 1) PROVE IsSpace(s[m])
      BY DEF AllSpace
    <3>1. m \in 1..n /\ ~(a <= m)
      BY <1>0, <2>4
    <3> QED BY <2>2, <3>1
  <2>6. AllSpace(s, b + 1, n)
    <3> SUFFICES ASSUME NEW m \in (b + 1)..n PROVE IsSpace(s[m])
      BY DEF AllSpace
    <3>1. m \in 1..n /\ ~(m <= b)
      BY <1>0, <2>4
    <3> QED BY <2>3, <3>1
  <2>7. K = a..b
    <3>1. ASSUME NEW i \in K PROVE i \in a..b
      <4>1. PICK j \in 1..i : ~IsSpace(s[j])
        OBVIOUS
      <4>2. PICK k \in i..n : ~IsSpace(s[k])
        OBVIOUS
      <4>3. j \in dark /\ k \in dark
        BY <1>0, <4>1, <4>2
      <4> QED BY <1>0, <2>2, <2>3, <2>4, <4>3
    <3>2. ASSUME NEW i \in a..b PROVE i \in K
      <4>1. i \in DOMAIN s /\ a \in 1..i /\ b \in i..n
        BY <1>0, <2>4
      <4> QED BY <2>4, <4>1
    <3> HIDE DEF K
    <3> QED BY <3>1, <3>2
  <2>8. Pick(s, K) = SubSeq(s, a, b)
    <3>1. a \in Nat /\ b \in Nat /\ 1 <= a /\ b <= n /\ a <= b + 1
      BY <1>0, <2>4
    <3> HIDE DEF K
    <3> QED BY <2>7, <3>1, PickOfRun
  <2> QED BY <1>0, <2>4, <2>5, <2>6, <2>8
<1> QED BY <1>1, <1>2

(* Where a URL ends, and what is left of it, is determined.                *)
LEMMA UrlEndIs ==
  ASSUME NEW S, NEW s \in Seq(S), NEW i \in 1..Len(s), NEW e \in i..Len(s),
         \A j \in i..e : ~IsSpace(s[j]), e = Len(s) \/ IsSpace(s[e + 1])
  PROVE  UrlEnd(s, i) = e
<1> DEFINE u == UrlEnd(s, i)
<1>1. Len(s) \in Nat /\ i \in i..e /\ ~IsSpace(s[i])
  OBVIOUS
<1>2. u \in i..Len(s) /\ (\A j \in i..u : ~IsSpace(s[j])) /\ (u = Len(s) \/ IsSpace(s[u + 1]))
  BY <1>1, UrlEnds
<1> HIDE DEF u
<1>3. CASE u < e
  <2>1. u + 1 \in i..e /\ u # Len(s)
    BY <1>1, <1>2, <1>3
  <2> QED BY <1>2, <2>1
<1>4. CASE e < u
  <2>1. e + 1 \in i..u /\ e # Len(s)
    BY <1>1, <1>2, <1>4
  <2> QED BY <1>2, <2>1
<1> QED BY <1>1, <1>2, <1>3, <1>4 DEF u

(* An ellipsis behind a link is given up.                                  *)
LEMMA EllipsisGivenUp ==
  ASSUME NEW S, NEW raw \in Seq(S), NEW long \in Seq(S), Len(long) = Len(raw) + 1,
         long[Len(long)] = Ellipsis, \A i \in 1..Len(raw) : long[i] = raw[i]
  PROVE  LinkLength(long) = LinkLength(raw)
<1> DEFINE n == Len(raw)
           c == LinkLength(raw)
<1>1. n \in Nat /\ Len(long) = n + 1
  OBVIOUS
<1>2. ASSUME NEW k \in 1..n PROVE GivenUp(long, k) <=> GivenUp(raw, k)
  <2>1. ASSUME NEW x PROVE Counted(long, k, x) = Counted(raw, k, x)
    <3>1. {i \in 1..k : long[i] = x} = {i \in 1..k : raw[i] = x}
      <4>1. \A i \in 1..k : i \in 1..n
        BY <1>1
      <4> QED BY <4>1
    <3> QED BY <3>1 DEF Counted
  <2>2. long[k] = raw[k]
    OBVIOUS
  <2> QED BY <2>1, <2>2 DEF GivenUp
<1>3. c \in 0..n /\ Left(raw, c)
  BY LinkLengthIs
<1> HIDE DEF c
<1>4. GivenUp(long, n + 1)
  BY <1>1 DEF GivenUp
<1>5. Left(long, c)
  <2>1. c = 0 \/ ~GivenUp(long, c)
    <3>1. CASE c # 0
      <4>1. c \in 1..n
        BY <1>1, <1>3, <3>1
      <4> QED BY <1>2, <1>3, <3>1, <4>1 DEF Left
    <3> QED BY <3>1
  <2>2. ASSUME NEW m \in (c + 1)..(n + 1) PROVE GivenUp(long, m)
    <3>1. m = n + 1 \/ (m \in 1..n /\ m \in (c + 1)..n)
      BY <1>1, <1>3
    <3> QED BY <1>2, <1>3, <1>4, <3>1 DEF Left
  <2> QED BY <1>1, <2>1, <2>2 DEF Left
<1>6. c \in 0..Len(long)
  BY <1>1, <1>3
<1>7. c = LinkLength(long)
  BY <1>5, <1>6, LinkLengthIs
<1> QED BY <1>7 DEF c

(***************************************************************************)
(* Links in the order of the text.                                         *)
(***************************************************************************)
Shifted(L, d) == {i + d : i \in L}
UpTo(K, c) == {i \in K : i <= c}
InStep(K, L, d) ==
  \A k \in 1..Cardinality(L) : Ascending(K)[k] = Ascending(L)[k] + d

(* The first positions of K, counted from d on: they are the same ones.    *)
LEMMA FirstOnes ==
  ASSUME NEW n \in Nat, NEW K \in SUBSET (1..n), NEW m \in Nat, NEW L \in SUBSET (1..m),
         NEW d \in Nat, NEW c \in Nat, Shifted(L, d) = UpTo(K, c)
  PROVE  /\ Cardinality(L) \in 0..Cardinality(K)
         /\ InStep(K, L, d)
<1>1. /\ IsFiniteSet(K) /\ Cardinality(K) \in 0..n
      /\ \A i \in K : Rank(K, i) \in 1..Cardinality(K)
      /\ \A i, j \in K : i < j => Rank(K, i) < Rank(K, j)
  BY RankGrows
<1>2. /\ IsFiniteSet(L) /\ Cardinality(L) \in 0..m
      /\ \A i \in L : Rank(L, i) \in 1..Cardinality(L)
  BY RankGrows
<1>3. ASSUME NEW i \in L PROVE i + d \in K /\ Rank(K, i + d) = Rank(L, i)
  <2> DEFINE A == {j \in L : j <= i}
             B == {j \in K : j <= i + d}
             f == [j \in A |-> j + d]
  <2>0. i \in 1..m /\ (\A j \in L : j \in 1..m) /\ (\A j \in K : j \in 1..n)
    OBVIOUS
  <2>1. i + d \in K /\ i + d <= c
    <3>1. i + d \in Shifted(L, d)
      BY DEF Shifted
    <3> QED BY <3>1 DEF UpTo
  <2>2. ASSUME NEW j \in A PROVE j + d \in B
    <3>1. j + d \in Shifted(L, d)
      BY DEF Shifted
    <3>2. j + d \in K /\ j <= i
      BY <3>1 DEF UpTo
    <3> QED BY <2>0, <3>2
  <2>3. ASSUME NEW k \in B PROVE \E j \in A : f[j] = k
    <3>1. k \in K /\ k <= i + d /\ k <= c
      BY <2>0, <2>1
    <3>2. k \in Shifted(L, d)
      BY <3>1 DEF UpTo
    <3>3. PICK j \in L : k = j + d
      BY <3>2 DEF Shifted
    <3>4. j \in A
      BY <2>0, <3>1, <3>3
    <3> QED BY <3>3, <3>4
  <2>4. \A j, k \in A : f[j] = f[k] => j = k
    BY <2>0
  <2>5. f \in Bijection(A, B)
    <3>1. f \in [A -> B]
      BY <2>2
    <3> HIDE DEF f, A, B
    <3> QED BY <2>3, <2>4, <3>1, Fun_IsBij
  <2>6. IsFiniteSet(A)
    <3>1. A \in SUBSET L
      OBVIOUS
    <3> HIDE DEF A
    <3> QED BY <1>2, <3>1, FS_Subset
  <2>7. Cardinality(A) = Cardinality(B)
    <3> HIDE DEF f, A, B
    <3>1. ExistsBijection(A, B)
      BY <2>5 DEF ExistsBijection
    <3> QED BY <2>6, <3>1, FS_Bijection
  <2> QED BY <2>1, <2>7 DEF Rank
<1>4. /\ Ascending(L) \in Seq(L) /\ Len(Ascending(L)) = Cardinality(L)
      /\ \A k \in 1..Cardinality(L) : Rank(L, Ascending(L)[k]) = k
  BY AscendingGoesUp
<1>5. /\ Ascending(K) \in Seq(K) /\ Len(Ascending(K)) = Cardinality(K)
      /\ \A k \in 1..Cardinality(K) : Rank(K, Ascending(K)[k]) = k
  BY AscendingGoesUp
<1>6. ASSUME NEW k \in 1..Cardinality(L)
      PROVE  k \in 1..Cardinality(K) /\ Ascending(K)[k] = Ascending(L)[k] + d
  <2> DEFINE i == Ascending(L)[k]
             p == Ascending(K)[k]
  <2>1. i \in L /\ Rank(L, i) = k
    BY <1>2, <1>4
  <2> HIDE DEF i
  <2>2. i + d \in K /\ Rank(K, i + d) = k
    BY <1>3, <2>1
  <2>3. k \in 1..Cardinality(K)
    BY <1>1, <2>2
  <2>4. p \in K /\ Rank(K, p) = k
    BY <1>1, <1>5, <2>3
  <2> HIDE DEF p
  <2>5. ~(p < i + d) /\ ~(i + d < p)
    <3> DEFINE q == i + d
    <3>1. q \in K /\ Rank(K, q) = k /\ ~(k < k)
      BY <2>2, <2>3
    <3> HIDE DEF q
    <3>2. ~(p < q) /\ ~(q < p)
      BY <1>1, <2>4, <3>1
    <3> QED BY <3>2 DEF q
  <2>6. p \in 1..n /\ i + d \in 1..n
    BY <2>2, <2>4
  <2>7. p = i + d
    BY <2>5, <2>6
  <2> QED BY <2>3, <2>7 DEF i, p
<1>7. Cardinality(L) \in 0..Cardinality(K)
  <2>1. CASE Cardinality(L) = 0
    BY <1>1, <2>1
  <2>2. CASE Cardinality(L) # 0
    <3>1. Cardinality(L) \in 1..Cardinality(L)
      BY <1>2, <2>2
    <3>2. Cardinality(L) \in 1..Cardinality(K)
      BY <1>6, <3>1
    <3> QED BY <1>1, <3>2
  <2> QED BY <2>1, <2>2
<1> QED BY <1>6, <1>7 DEF InStep

LinkStarts(s) == {i \in DOMAIN s : UrlStart(s, i)}
LinkAt(s, i) == LET raw == SubSeq(s, i, UrlEnd(s, i)) IN SubSeq(raw, 1, LinkLength(raw))
Addresses(s) == [k \in DOMAIN FindLinks(s) |-> FindLinks(s)[k].url]

(* FindLinks reports the link at each start.                               *)
LEMMA LinksFound ==
  ASSUME NEW S, NEW s \in Seq(S), NEW c, c = Cardinality(LinkStarts(s))
  PROVE  /\ c \in Nat /\ Len(FindLinks(s)) = c
         /\ Addresses(s) = [k \in 1..c |-> LinkAt(s, Ascending(LinkStarts(s))[k])]
<1> DEFINE K == LinkStarts(s)
           starts == Ascending(K)
           entry == [k \in 1..c |-> [at |-> starts[k], url |-> LinkAt(s, starts[k])]]
<1>0. K \in SUBSET (1..Len(s)) /\ Len(s) \in Nat
  BY DEF LinkStarts
<1>1. starts \in Seq(K) /\ Len(starts) = c /\ c \in Nat
  <2> HIDE DEF K
  <2> QED BY <1>0, AscendingGoesUp DEF K
<1>2. DOMAIN starts = 1..c
  BY <1>1
<1>3. FindLinks(s) = [k \in DOMAIN starts |-> [at |-> starts[k], url |-> LinkAt(s, starts[k])]]
  BY DEF FindLinks, LinkStarts, LinkAt
<1> HIDE DEF starts
<1>4. FindLinks(s) = entry
  BY <1>2, <1>3
<1>5. Len(entry) = c
  <2> DEFINE T == {entry[k] : k \in 1..c}
  <2>1. entry \in [1..c -> T]
    OBVIOUS
  <2> HIDE DEF entry, T
  <2> QED BY <1>1, <2>1
<1>6. Addresses(s) = [k \in 1..c |-> LinkAt(s, starts[k])]
  BY <1>4 DEF Addresses
<1> QED BY <1>1, <1>4, <1>5, <1>6 DEF starts

(***************************************************************************)
(* A text that is cut.                                                     *)
(***************************************************************************)
(* There is a host behind every scheme.                                    *)
HostsFollow(s) ==
  \A i \in 1..Len(s) : s[i] = "scheme" => i < Len(s) /\ ~IsSpace(s[i + 1])

(* w is the text from a to b and an ellipsis, and nothing but blanks was   *)
(* trimmed from the text up to the cut.                                    *)
CutAt(s, cut, a, b, w) ==
  /\ cut \in 0..(Len(s) - 1) /\ ~InUrl(s, cut) /\ a \in 1..cut /\ b \in a..cut
  /\ AllSpace(s, 1, a - 1) /\ AllSpace(s, b + 1, cut)
  /\ Len(w) = b - a + 2 /\ w[b - a + 2] = Ellipsis
  /\ \A i \in 1..(b - a + 1) : w[i] = s[i + (a - 1)]

LEMMA StartsOfCut ==
  ASSUME NEW S, NEW s \in Seq(S), NEW w \in Seq(S), NEW cut, NEW a, NEW b,
         CutAt(s, cut, a, b, w), HostsFollow(s), NEW i \in 1..(b - a + 2)
  PROVE  UrlStart(w, i) <=> i <= b - a + 1 /\ UrlStart(s, i + (a - 1))
<1> DEFINE m == b - a + 1
           d == a - 1
<1>1. /\ Len(s) \in Nat /\ cut \in Nat /\ a \in Nat /\ b \in Nat /\ m \in Nat /\ d \in Nat
      /\ 1 <= a /\ a <= b /\ b <= cut /\ cut < Len(s) /\ i \in Nat /\ 1 <= i
      /\ m = b - d /\ i <= m + 1
  BY DEF CutAt
<1>2. /\ AllSpace(s, 1, d) /\ Len(w) = m + 1 /\ w[m + 1] = Ellipsis
      /\ \A k \in 1..m : w[k] = s[k + d]
  <2>1. b - a + 2 = m + 1
    BY <1>1
  <2> QED BY <2>1 DEF CutAt
<1>3. ~IsSpace("scheme") /\ ~IsSpace(Ellipsis)
  BY DEF IsSpace, Space, Newline, Ellipsis
<1> HIDE DEF m, d
<1>4. ASSUME UrlStart(w, i) PROVE i <= m /\ UrlStart(s, i + d)
  <2>1. i \in 1..m /\ w[i] = "scheme" /\ s[i + d] = "scheme" /\ i + d \in 1..Len(s)
    <3>1. i < m + 1 /\ w[i] = "scheme"
      BY <1>2, <1>4 DEF UrlStart
    <3>2. i \in 1..m
      BY <1>1, <3>1
    <3> QED BY <1>1, <1>2, <3>1, <3>2
  <2>2. ASSUME NEW j \in 1..(i + d - 1), s[j] = "scheme"
        PROVE  \E k \in j..(i + d) : IsSpace(s[k])
    <3>1. ~(j \in 1..d)
      BY <1>2, <1>3, <2>2 DEF AllSpace
    <3>2. j - d \in 1..(i - 1) /\ j - d \in 1..m /\ (j - d) + d = j
      BY <1>1, <2>1, <3>1
    <3>3. w[j - d] = "scheme"
      BY <1>2, <2>2, <3>2
    <3>4. PICK k \in (j - d)..i : IsSpace(w[k])
      BY <1>4, <3>2, <3>3 DEF UrlStart
    <3>5. k \in 1..m /\ k + d \in j..(i + d)
      BY <1>1, <2>1, <3>2
    <3> QED BY <1>2, <3>4, <3>5
  <2>3. i + d < Len(s) /\ ~IsSpace(s[i + d + 1])
    BY <2>1 DEF HostsFollow
  <2> QED BY <1>1, <2>1, <2>2, <2>3 DEF UrlStart
<1>5. ASSUME i <= m, UrlStart(s, i + d) PROVE UrlStart(w, i)
  <2>1. i \in 1..m /\ w[i] = "scheme" /\ i < Len(w)
    BY <1>1, <1>2, <1>5 DEF UrlStart
  <2>2. ~IsSpace(w[i + 1])
    <3>1. CASE i + 1 \in 1..m
      <4> DEFINE k == i + 1
      <4>1. w[k] = s[k + d]
        BY <1>2, <3>1
      <4>2. k + d = (i + d) + 1
        BY <1>1
      <4>3. ~IsSpace(s[(i + d) + 1])
        BY <1>5 DEF UrlStart
      <4> QED BY <4>1, <4>2, <4>3
    <3>2. CASE i = m
      BY <1>2, <1>3, <3>2
    <3> QED BY <1>1, <1>5, <3>1, <3>2
  <2>3. ASSUME NEW j \in 1..(i - 1), w[j] = "scheme"
        PROVE  \E k \in j..i : IsSpace(w[k])
    <3> DEFINE l == j + d
               q == i + d
    <3>1. j \in 1..m /\ l \in 1..(q - 1)
      BY <1>1, <1>5
    <3>2. s[l] = "scheme"
      BY <1>2, <2>3, <3>1
    <3>3. UrlStart(s, q)
      BY <1>5
    <3>4. \A g \in 1..(q - 1) : s[g] = "scheme" => \E k \in g..q : IsSpace(s[k])
      <4> HIDE DEF q
      <4> QED BY <3>3, Zenon DEF UrlStart
    <3>5. \E k \in l..q : IsSpace(s[k])
      <4> HIDE DEF l, q
      <4> QED BY <3>1, <3>2, <3>4
    <3>6. PICK k \in l..q : IsSpace(s[k])
      BY <3>5
    <3>7. k - d \in j..i /\ k - d \in 1..m /\ (k - d) + d = k
      BY <1>1, <1>5, <3>1
    <3> QED BY <1>2, <3>6, <3>7
  <2> QED BY <2>1, <2>2, <2>3 DEF UrlStart
<1> QED BY <1>4, <1>5 DEF m, d

(* A link that starts before the cut ends before it, and loses nothing.    *)
LEMMA LinksOfCut ==
  ASSUME NEW S, NEW s \in Seq(S), NEW w \in Seq(S), NEW cut, NEW a, NEW b,
         CutAt(s, cut, a, b, w), NEW i \in 1..(b - a + 1), UrlStart(s, i + (a - 1))
  PROVE  LinkAt(w, i) = LinkAt(s, i + (a - 1))
<1> DEFINE m == b - a + 1
           d == a - 1
           e == UrlEnd(s, i + d)
           raw == SubSeq(s, i + d, e)
<1>1. /\ Len(s) \in Nat /\ cut \in Nat /\ a \in Nat /\ b \in Nat /\ m \in Nat /\ d \in Nat
      /\ 1 <= a /\ a <= b /\ b <= cut /\ cut < Len(s) /\ i \in Nat /\ 1 <= i
      /\ m = b - d /\ i <= m
  BY DEF CutAt
<1>2. /\ Len(w) = m + 1 /\ w[m + 1] = Ellipsis
      /\ \A k \in 1..m : w[k] = s[k + d]
      /\ \A k \in (b + 1)..cut : IsSpace(s[k])
      /\ ~InUrl(s, cut)
  <2>1. b - a + 2 = m + 1
    BY <1>1
  <2> QED BY <2>1 DEF CutAt, AllSpace
<1>3. ~IsSpace("scheme") /\ ~IsSpace(Ellipsis)
  BY DEF IsSpace, Space, Newline, Ellipsis
<1>4. UrlStart(s, i + d)
  OBVIOUS
<1> HIDE DEF m, d
<1>5. i + d \in 1..b /\ i + d \in 1..Len(s) /\ s[i + d] = "scheme"
  BY <1>1, <1>4 DEF UrlStart
<1>6. /\ e \in (i + d)..Len(s) /\ (\A j \in (i + d)..e : ~IsSpace(s[j]))
      /\ e = Len(s) \/ IsSpace(s[e + 1])
  BY <1>3, <1>5, UrlEnds
<1> HIDE DEF e
<1>7. e <= b
  <2>1. CASE e > cut
    <3>1. i + d \in 1..cut /\ \A j \in (i + d)..(cut + 1) : j \in (i + d)..e
      BY <1>1, <1>5, <1>6, <2>1
    <3> QED BY <1>2, <1>5, <1>6, <3>1 DEF InUrl
  <2>2. CASE b < e /\ e <= cut
    <3>1. e \in (b + 1)..cut /\ e \in (i + d)..e
      BY <1>1, <1>6, <2>2
    <3> QED BY <1>2, <1>6, <3>1
  <2> QED BY <1>1, <1>5, <1>6, <2>1, <2>2
<1>8. /\ raw \in Seq(S) /\ Len(raw) = e - (i + d) + 1
      /\ \A k \in 1..Len(raw) : raw[k] = s[k + (i + d) - 1]
  BY <1>5, <1>6
<1>9. LinkAt(s, i + d) = SubSeq(raw, 1, LinkLength(raw)) /\ LinkLength(raw) \in 0..Len(raw)
  BY <1>8, LinkLengthIs DEF LinkAt, e
<1> HIDE DEF raw
<1>10. i \in 1..Len(w)
  BY <1>1, <1>2
<1>11. CASE e < b
  <2>1. e - d \in i..Len(w) /\ e - d \in 1..m /\ e - d + 1 \in 1..m
        /\ (e - d + 1) + d = e + 1 /\ e # Len(s)
    BY <1>1, <1>2, <1>5, <1>6, <1>11
  <2>2. IsSpace(w[e - d + 1])
    BY <1>2, <1>6, <2>1
  <2>3. ASSUME NEW j \in i..(e - d) PROVE ~IsSpace(w[j])
    <3>1. j \in 1..m /\ j + d \in (i + d)..e
      BY <1>1, <1>6, <2>1
    <3> QED BY <1>2, <1>6, <3>1
  <2>4. UrlEnd(w, i) = e - d
    BY <1>10, <2>1, <2>2, <2>3, UrlEndIs
  <2> DEFINE short == SubSeq(w, i, e - d)
  <2>5. /\ short \in Seq(S) /\ Len(short) = Len(raw)
        /\ \A k \in 1..Len(raw) : short[k] = raw[k]
    <3>1. short \in Seq(S) /\ Len(short) = e - d - i + 1
          /\ \A k \in 1..(e - d - i + 1) : short[k] = w[k + i - 1]
      BY <1>10, <2>1
    <3>2. Len(raw) = e - d - i + 1
      BY <1>1, <1>6, <1>8
    <3>3. ASSUME NEW k \in 1..Len(raw) PROVE short[k] = raw[k]
      <4>1. k + i - 1 \in 1..m /\ (k + i - 1) + d = k + (i + d) - 1
        BY <1>1, <1>6, <2>1, <3>2
      <4> QED BY <1>2, <1>8, <3>1, <3>2, <4>1
    <3> QED BY <3>1, <3>2, <3>3
  <2> HIDE DEF short
  <2>6. short = raw
    BY <1>8, <2>5
  <2> QED BY <1>9, <2>4, <2>6 DEF LinkAt, short, d
<1>12. CASE e = b
  <2>1. ASSUME NEW j \in i..(m + 1) PROVE ~IsSpace(w[j])
    <3>1. CASE j \in 1..m
      <4>1. j + d \in (i + d)..e
        BY <1>1, <1>12, <3>1
      <4> QED BY <1>2, <1>6, <3>1, <4>1
    <3>2. CASE j = m + 1
      BY <1>2, <1>3, <3>2
    <3> QED BY <1>1, <3>1, <3>2
  <2>2. UrlEnd(w, i) = m + 1
    <3>1. m + 1 \in i..Len(w) /\ m + 1 = Len(w)
      BY <1>1, <1>2
    <3> QED BY <1>10, <2>1, <3>1, UrlEndIs
  <2> DEFINE long == SubSeq(w, i, m + 1)
  <2>3. /\ long \in Seq(S) /\ Len(long) = m - i + 2
        /\ \A k \in 1..(m - i + 2) : long[k] = w[k + i - 1]
    BY <1>1, <1>2, <1>10
  <2>4. Len(raw) = m - i + 1
    BY <1>1, <1>8, <1>12
  <2>5. Len(long) = Len(raw) + 1 /\ long[Len(long)] = Ellipsis
    <3>1. m - i + 2 \in 1..(m - i + 2) /\ (m - i + 2) + i - 1 = m + 1 /\ m - i + 2 = m - i + 1 + 1
      BY <1>1
    <3> QED BY <1>2, <2>3, <2>4, <3>1
  <2>6. ASSUME NEW k \in 1..Len(raw) PROVE long[k] = raw[k]
    <3>1. k \in 1..(m - i + 2) /\ k + i - 1 \in 1..m /\ (k + i - 1) + d = k + (i + d) - 1
      BY <1>1, <2>4
    <3> QED BY <1>2, <1>8, <2>3, <3>1
  <2> HIDE DEF long
  <2>7. LinkLength(long) = LinkLength(raw)
    BY <1>8, <2>3, <2>5, <2>6, EllipsisGivenUp
  <2> DEFINE c == LinkLength(raw)
  <2>8. c \in 0..Len(raw) /\ c \in 0..Len(long) /\ \A k \in 1..c : k \in 1..Len(raw)
    BY <1>8, <1>9, <2>3, <2>5
  <2> HIDE DEF c
  <2>9. SubSeq(long, 1, c) = SubSeq(raw, 1, c)
    <3>1. /\ SubSeq(long, 1, c) \in Seq(S) /\ Len(SubSeq(long, 1, c)) = c
          /\ \A k \in 1..c : SubSeq(long, 1, c)[k] = long[k]
      BY <2>3, <2>8
    <3>2. /\ SubSeq(raw, 1, c) \in Seq(S) /\ Len(SubSeq(raw, 1, c)) = c
          /\ \A k \in 1..c : SubSeq(raw, 1, c)[k] = raw[k]
      BY <1>8, <2>8
    <3> DEFINE x == SubSeq(long, 1, c)
               y == SubSeq(raw, 1, c)
    <3>3. \A k \in 1..c : x[k] = y[k]
      BY <2>6, <2>8, <3>1, <3>2
    <3> HIDE DEF x, y
    <3> QED BY <2>8, <3>1, <3>2, <3>3 DEF x, y
  <2>10. LinkAt(w, i) = SubSeq(long, 1, LinkLength(long))
    BY <2>2 DEF LinkAt, long
  <2> QED BY <1>9, <2>7, <2>9, <2>10 DEF c, d
<1> QED BY <1>1, <1>5, <1>6, <1>7, <1>11, <1>12

(* The links of a cut text are the first ones of the whole.                *)
LEMMA CutKeepsFirstLinks ==
  ASSUME NEW S, NEW s \in Seq(S), NEW w \in Seq(S), NEW cut, NEW a, NEW b,
         CutAt(s, cut, a, b, w), HostsFollow(s)
  PROVE  /\ Len(FindLinks(w)) <= Len(FindLinks(s))
         /\ Addresses(w) = SubSeq(Addresses(s), 1, Len(FindLinks(w)))
<1> DEFINE m == b - a + 1
           d == a - 1
           K == LinkStarts(s)
           L == LinkStarts(w)
           c == Cardinality(L)
           n == Cardinality(K)
<1>1. /\ Len(s) \in Nat /\ cut \in Nat /\ a \in Nat /\ b \in Nat /\ m \in Nat /\ d \in Nat
      /\ 1 <= a /\ a <= b /\ b <= cut /\ cut < Len(s) /\ m = b - d /\ Len(w) = m + 1
      /\ b - a + 2 = m + 1
  BY DEF CutAt
<1>2. \A i \in 1..(m + 1) : UrlStart(w, i) <=> i <= m /\ UrlStart(s, i + d)
  BY <1>1, StartsOfCut
<1>3. \A i \in 1..m : UrlStart(s, i + d) => LinkAt(w, i) = LinkAt(s, i + d)
  BY LinksOfCut
<1>4. \A i \in K : i > d
  <2>1. \A i \in 1..d : s[i] # "scheme"
    BY DEF CutAt, AllSpace, IsSpace, Space, Newline
  <2>2. \A i \in K : i \in 1..Len(s) /\ s[i] = "scheme"
    BY DEF LinkStarts, UrlStart
  <2> QED BY <1>1, <2>1, <2>2
<1> HIDE DEF m, d
<1>5. K \in SUBSET (1..Len(s)) /\ L \in SUBSET (1..(m + 1))
  BY <1>1 DEF LinkStarts
<1>6. L \in SUBSET (1..m)
  BY <1>1, <1>2, <1>5 DEF LinkStarts
<1>7. Shifted(L, d) = UpTo(K, b)
  <2>1. ASSUME NEW x \in Shifted(L, d) PROVE x \in K /\ x <= b
    <3>1. PICK i \in L : x = i + d
      BY DEF Shifted
    <3>2. i \in 1..m /\ i \in 1..(m + 1) /\ UrlStart(w, i)
      BY <1>1, <1>6 DEF LinkStarts
    <3>3. UrlStart(s, i + d)
      BY <1>2, <3>2
    <3>4. i + d \in 1..Len(s) /\ i + d <= b
      BY <1>1, <3>2
    <3> QED BY <3>1, <3>3, <3>4 DEF LinkStarts
  <2>2. ASSUME NEW x \in K, x <= b PROVE x \in Shifted(L, d)
    <3>1. x \in 1..Len(s) /\ UrlStart(s, x) /\ x > d
      BY <1>4 DEF LinkStarts
    <3>2. x - d \in 1..m /\ x - d \in 1..(m + 1) /\ (x - d) + d = x
      BY <1>1, <2>2, <3>1
    <3>3. x - d \in L
      BY <1>1, <1>2, <3>1, <3>2 DEF LinkStarts
    <3> QED BY <3>2, <3>3 DEF Shifted
  <2> HIDE DEF K
  <2> QED BY <2>1, <2>2 DEF UpTo
<1> HIDE DEF K, L
<1>8. c \in 0..n /\ \A k \in 1..c : Ascending(K)[k] = Ascending(L)[k] + d
  <2> DEFINE l == Len(s)
  <2>1. l \in Nat /\ m \in Nat /\ d \in Nat /\ b \in Nat
    BY <1>1
  <2>2. K \in SUBSET (1..l)
    BY <1>5
  <2> HIDE DEF l
  <2>3. Cardinality(L) \in 0..Cardinality(K)
    BY <1>6, <1>7, <2>1, <2>2, FirstOnes
  <2>4. InStep(K, L, d)
    BY <1>6, <1>7, <2>1, <2>2, FirstOnes
  <2> QED BY <2>3, <2>4 DEF InStep
<1>9. /\ n \in Nat /\ Len(FindLinks(s)) = n
      /\ Addresses(s) = [k \in 1..n |-> LinkAt(s, Ascending(K)[k])]
  BY LinksFound DEF K
<1>10. /\ c \in Nat /\ Len(FindLinks(w)) = c
       /\ Addresses(w) = [k \in 1..c |-> LinkAt(w, Ascending(L)[k])]
  BY LinksFound DEF L
<1>11. Ascending(L) \in Seq(L) /\ Len(Ascending(L)) = c
  BY <1>1, <1>6, AscendingGoesUp
<1>12. ASSUME NEW k \in 1..c PROVE LinkAt(w, Ascending(L)[k]) = LinkAt(s, Ascending(K)[k])
  <2> DEFINE i == Ascending(L)[k]
  <2>1. i \in L
    BY <1>11
  <2> HIDE DEF i
  <2>2. i \in 1..m /\ i \in 1..(m + 1) /\ UrlStart(w, i)
    BY <1>1, <1>6, <2>1 DEF L, LinkStarts
  <2>3. LinkAt(w, i) = LinkAt(s, i + d)
    BY <1>2, <1>3, <2>2
  <2> QED BY <1>8, <2>3 DEF i
<1> HIDE DEF c, n
<1>13. Addresses(w) = SubSeq(Addresses(s), 1, c)
  <2> DEFINE x == [k \in 1..n |-> LinkAt(s, Ascending(K)[k])]
             y == [k \in 1..c |-> LinkAt(w, Ascending(L)[k])]
             T == {LinkAt(s, Ascending(K)[k]) : k \in 1..n}
  <2>1. x \in [1..n -> T]
    OBVIOUS
  <2>7. ASSUME NEW k \in 1..c PROVE x[k] = LinkAt(w, Ascending(L)[k])
    <3>1. k \in 1..n
      BY <1>8, <1>9, <1>10
    <3> QED BY <1>12, <3>1
  <2>2. \A k \in 1..c : y[k] = x[k]
    BY <2>7
  <2>3. DOMAIN y = 1..c /\ y = [k \in DOMAIN y |-> y[k]]
    OBVIOUS
  <2> HIDE DEF x, y, T
  <2>4. x \in Seq(T) /\ Len(x) = n
    BY <1>9, <2>1
  <2>5. SubSeq(x, 1, c) = [k \in 1..c |-> x[k]]
    <3>1. /\ SubSeq(x, 1, c) \in Seq(T) /\ Len(SubSeq(x, 1, c)) = c
          /\ \A k \in 1..c : SubSeq(x, 1, c)[k] = x[k]
      BY <1>8, <2>4
    <3> DEFINE z == SubSeq(x, 1, c)
    <3> HIDE DEF z
    <3>2. z \in Seq(T) /\ Len(z) = c /\ \A k \in 1..c : z[k] = x[k]
      BY <3>1 DEF z
    <3>3. DOMAIN z = 1..c /\ z = [k \in DOMAIN z |-> z[k]]
      BY <1>10, <3>2
    <3>4. z = [k \in 1..c |-> x[k]]
      BY <3>2, <3>3
    <3> QED BY <3>4 DEF z
  <2>6. y = [k \in 1..c |-> x[k]]
    BY <2>2, <2>3
  <2> QED BY <1>9, <1>10, <2>5, <2>6 DEF x, y
<1>14. c <= n /\ Len(FindLinks(w)) = c /\ Len(FindLinks(s)) = n
  BY <1>8, <1>9, <1>10
<1> QED BY <1>13, <1>14

(* Truncate keeps links whole, or drops them.                              *)
LEMMA TruncateKeepsLinks ==
  ASSUME NEW s \in Seq(Chars), NEW max \in Nat \ {0}, HostsFollow(s),
         NEW w, w = Truncate(s, max)
  PROVE  /\ Len(FindLinks(w)) <= Len(FindLinks(s))
         /\ Addresses(w) = SubSeq(Addresses(s), 1, Len(FindLinks(w)))
<1> DEFINE n == Cardinality(LinkStarts(s))
           all == [k \in 1..n |-> LinkAt(s, Ascending(LinkStarts(s))[k])]
           T == {LinkAt(s, Ascending(LinkStarts(s))[k]) : k \in 1..n}
<1>1. max \in Nat /\ max >= 1 /\ Len(s) \in Nat /\ w \in Seq(Chars)
  BY TruncateIsText
<1>2. n \in Nat /\ Len(FindLinks(s)) = n /\ Addresses(s) = all
  BY LinksFound
<1>3. all \in [1..n -> T]
  OBVIOUS
<1> HIDE DEF n, all, T
<1>4. all \in Seq(T) /\ Len(all) = n
  BY <1>2, <1>3
<1>5. CASE Len(s) <= max
  <2>1. w = s
    BY <1>1, <1>5 DEF Truncate
  <2>2. SubSeq(all, 1, n) = all
    BY <1>2, <1>4
  <2> QED BY <1>2, <2>1, <2>2
<1>6. CASE ~(Len(s) <= max)
  <2> DEFINE cut == AvoidSplittingURL(s, max - 1)
             kept == SubSeq(s, 1, cut)
             t == TrimSpace(kept)
  <2>1. max - 1 \in 0..(Len(s) - 1)
    BY <1>1, <1>6
  <2>2. cut \in 0..(max - 1) /\ ~InUrl(s, cut)
    BY <2>1, CutOutsideUrls
  <2>3. w = t \o <<Ellipsis>>
    BY <1>1, <1>6 DEF Truncate, FirstCut
  <2> HIDE DEF cut
  <2>4. cut \in Nat /\ cut \in 0..(Len(s) - 1)
    BY <1>1, <2>1, <2>2
  <2>5. kept \in Seq(Chars) /\ Len(kept) = cut /\ \A i \in 1..cut : kept[i] = s[i]
    BY <1>1, <2>4
  <2> HIDE DEF kept
  <2>6. CASE t = <<>>
    <3>1. w = <<Ellipsis>>
      BY <2>3, <2>6
    <3>2. Len(w) = 1 /\ DOMAIN w = 1..1
      BY <3>1
    <3>3. \A i \in DOMAIN w : ~UrlStart(w, i)
      BY <3>2 DEF UrlStart
    <3>4. LinkStarts(w) = {}
      BY <3>3, Zenon DEF LinkStarts
    <3>5. Cardinality(LinkStarts(w)) = 0
      BY <3>4, FS_EmptySet
    <3>6. /\ Len(FindLinks(w)) = 0
          /\ Addresses(w) = [k \in 1..0 |-> LinkAt(w, Ascending(LinkStarts(w))[k])]
      BY <1>1, <3>5, LinksFound
    <3>7. SubSeq(all, 1, 0) = <<>>
      BY <1>4
    <3>8. Addresses(w) = <<>>
      <4> DEFINE f == Addresses(w)
      <4>1. DOMAIN f = 1..0 /\ f = [k \in DOMAIN f |-> f[k]]
        BY <3>6
      <4> HIDE DEF f
      <4>2. f = <<>>
        <5>1. f \in [1..0 -> {}]
          BY <4>1
        <5>2. f \in Seq({}) /\ Len(f) = 0
          BY <5>1
        <5> QED BY <5>2
      <4> QED BY <4>2 DEF f
    <3> QED BY <1>2, <3>6, <3>7, <3>8
  <2>7. CASE t # <<>>
    <3>1. PICK a \in 1..Len(kept) : \E b \in a..Len(kept) :
            AllSpace(kept, 1, a - 1) /\ AllSpace(kept, b + 1, Len(kept)) /\ t = SubSeq(kept, a, b)
      BY <2>5, <2>7, TrimmedRun
    <3>2. PICK b \in a..Len(kept) :
            AllSpace(kept, 1, a - 1) /\ AllSpace(kept, b + 1, Len(kept)) /\ t = SubSeq(kept, a, b)
      BY <3>1
    <3>3. a \in 1..cut /\ b \in a..cut /\ a \in Nat /\ b \in Nat /\ 1 <= a /\ a <= b /\ b <= cut
      BY <2>4, <2>5
    <3>4. AllSpace(s, 1, a - 1) /\ AllSpace(s, b + 1, cut)
      <4>1. \A i \in 1..(a - 1) : i \in 1..cut
        BY <2>4, <3>3
      <4>2. \A i \in (b + 1)..cut : i \in 1..cut
        BY <2>4, <3>3
      <4> QED BY <2>5, <3>2, <4>1, <4>2 DEF AllSpace
    <3>5. /\ t \in Seq(Chars) /\ Len(t) = b - a + 1
          /\ \A i \in 1..(b - a + 1) : t[i] = s[i + (a - 1)]
      <4>1. /\ SubSeq(kept, a, b) \in Seq(Chars) /\ Len(SubSeq(kept, a, b)) = b - a + 1
            /\ \A i \in 1..(b - a + 1) : SubSeq(kept, a, b)[i] = kept[i + (a - 1)]
        BY <2>4, <2>5, <3>3
      <4>2. \A i \in 1..(b - a + 1) : i + (a - 1) \in 1..cut
        BY <2>4, <3>3
      <4> HIDE DEF t
      <4> QED BY <2>5, <3>2, <4>1, <4>2
    <3> HIDE DEF t
    <3> DEFINE u == <<Ellipsis>>
               m == b - a + 1
    <3>6. u \in Seq(Chars) /\ Len(u) = 1 /\ u[1] = Ellipsis
      BY Literals
    <3>7. m \in Nat /\ b - a + 2 = m + 1
      BY <3>3
    <3>8. w = t \o u /\ t \in Seq(Chars) /\ Len(t) = m
      BY <2>3, <3>5
    <3> HIDE DEF u, m
    <3>9. Len(w) = m + 1 /\ w[m + 1] = Ellipsis /\ \A i \in 1..m : w[i] = t[i]
      <4>1. /\ Len(t \o u) = Len(t) + Len(u)
            /\ \A i \in 1..Len(t \o u) :
                 (t \o u)[i] = IF i <= Len(t) THEN t[i] ELSE u[i - Len(t)]
        BY <3>6, <3>8, ConcatProperties
      <4>2. m + 1 \in 1..(m + 1) /\ (m + 1) - m = 1 /\ ~(m + 1 <= m)
        BY <3>7
      <4>3. \A i \in 1..m : i \in 1..(m + 1) /\ i <= m
        BY <3>7
      <4> QED BY <3>6, <3>8, <4>1, <4>2, <4>3
    <3>10. CutAt(s, cut, a, b, w)
      BY <2>2, <2>4, <3>3, <3>4, <3>5, <3>7, <3>9 DEF CutAt, m
    <3> QED BY <1>1, <3>10, CutKeepsFirstLinks
  <2> QED BY <2>6, <2>7
<1> QED BY <1>5, <1>6
=============================================================================
