---------------------------- MODULE MarkupProofs ----------------------------
(***************************************************************************)
(* Markup and words, for every text: what an instance of Mastodon makes of *)
(* a text as HTML has the words of the text once StripHTML is through with *)
(* it, and the hash of a text depends on its words only.                   *)
(*                                                                         *)
(* Each pass of StripHTML is followed through two texts one behind the     *)
(* other: line breaks (BreaksTogether), tags (TagsTogether), entities      *)
(* (DecodedTogether).  So HTML is undone piece by piece, from its end, and *)
(* blanks can be exchanged without looking at what stands around them.     *)
(***************************************************************************)
EXTENDS WordsProofs

(***************************************************************************)
(* What is picked of a sequence.                                           *)
(***************************************************************************)
(* One more element: it is picked last or not at all.                      *)
LEMMA PickAppend ==
  ASSUME NEW S, NEW s \in Seq(S), NEW c \in S, NEW K \in SUBSET (1..(Len(s) + 1)),
         NEW L, L = {i \in DOMAIN s : i \in K}
  PROVE  Pick(Append(s, c), K) = IF Len(s) + 1 \in K THEN Append(Pick(s, L), c) ELSE Pick(s, L)
<1> DEFINE n == Len(s)
           t == Append(s, c)
<1>1. n \in Nat /\ t \in Seq(S) /\ Len(t) = n + 1 /\ t[n + 1] = c /\ DOMAIN s = 1..n
  OBVIOUS
<1>a. \A i \in 1..n : t[i] = s[i]
  OBVIOUS
<1>b. DOMAIN t = 1..(n + 1) /\ L \in SUBSET (1..n) /\ n + 1 \in Nat /\ \A i \in L : i \in K
  OBVIOUS
<1>c. K \in SUBSET (1..(n + 1))
  OBVIOUS
<1> HIDE DEF t, n
<1>d. K \in SUBSET (DOMAIN t) /\ L \in SUBSET (DOMAIN s)
  BY <1>1, <1>b, <1>c
<1>2. /\ Pick(s, L) \in Seq(S) /\ Len(Pick(s, L)) = Cardinality(L)
      /\ Ascending(L) \in Seq(L) /\ Len(Ascending(L)) = Cardinality(L)
      /\ Cardinality(L) \in 0..n
      /\ \A k \in 1..Cardinality(L) : Pick(s, L)[k] = s[Ascending(L)[k]]
  <2>1. Pick(s, L) \in Seq(S) /\ Len(Pick(s, L)) = Cardinality(L) /\ Cardinality(L) \in 0..Len(s)
    BY <1>d, PickKeepsOrder
  <2>2. Ascending(L) \in Seq(L) /\ Len(Ascending(L)) = Cardinality(L)
    BY <1>d, PickKeepsOrder
  <2>3. \A k \in 1..Cardinality(L) : Pick(s, L)[k] = s[Ascending(L)[k]]
    BY <1>d, PickKeepsOrder
  <2> QED BY <2>1, <2>2, <2>3 DEF n
<1>3. /\ Pick(t, K) \in Seq(S) /\ Len(Pick(t, K)) = Cardinality(K)
      /\ Ascending(K) \in Seq(K) /\ Len(Ascending(K)) = Cardinality(K)
      /\ Cardinality(K) \in 0..(n + 1)
      /\ \A k \in 1..Cardinality(K) : Pick(t, K)[k] = t[Ascending(K)[k]]
      /\ \A k, l \in 1..Cardinality(K) : k < l => Ascending(K)[k] < Ascending(K)[l]
      /\ \A i \in K : \E k \in 1..Cardinality(K) : Ascending(K)[k] = i
  <2>1. Pick(t, K) \in Seq(S) /\ Len(Pick(t, K)) = Cardinality(K) /\ Cardinality(K) \in 0..Len(t)
    BY <1>1, <1>d, PickKeepsOrder
  <2>2. Ascending(K) \in Seq(K) /\ Len(Ascending(K)) = Cardinality(K)
    BY <1>1, <1>d, PickKeepsOrder
  <2>3. \A k \in 1..Cardinality(K) : Pick(t, K)[k] = t[Ascending(K)[k]]
    BY <1>1, <1>d, PickKeepsOrder
  <2>4. \A k, l \in 1..Cardinality(K) : k < l => Ascending(K)[k] < Ascending(K)[l]
    BY <1>1, <1>d, PickKeepsOrder
  <2>5. \A i \in K : \E k \in 1..Cardinality(K) : Ascending(K)[k] = i
    BY <1>1, <1>d, PickKeepsOrder
  <2> QED BY <1>1, <2>1, <2>2, <2>3, <2>4, <2>5
<1>4. CASE n + 1 \notin K
  <2>1. L = K
    <3>1. \A i \in K : i \in DOMAIN s
      BY <1>1, <1>c, <1>4
    <3> QED BY <3>1
  <2>a. Len(Pick(s, L)) = Cardinality(L) /\ Cardinality(L) \in 0..n
    BY <1>2
  <2>b. Len(Pick(t, K)) = Cardinality(L)
    BY <1>3, <2>1
  <2>2. Len(Pick(t, K)) = Len(Pick(s, L)) /\ Len(Pick(s, L)) \in Nat
    BY <2>a, <2>b
  <2>3. ASSUME NEW k \in 1..Len(Pick(s, L)) PROVE Pick(t, K)[k] = Pick(s, L)[k]
    <3>1. k \in 1..Cardinality(L)
      BY <1>2
    <3>2. Ascending(L)[k] \in L
      BY <1>2, <3>1
    <3>3. t[Ascending(L)[k]] = s[Ascending(L)[k]]
      BY <1>a, <1>b, <3>2
    <3> QED BY <1>2, <1>3, <2>1, <3>1, <3>3
  <2>4. Pick(t, K) = Pick(s, L)
    BY <1>2, <1>3, <2>2, <2>3, SeqEqual
  <2> QED BY <1>4, <2>4 DEF t, n
<1>5. CASE n + 1 \in K
  <2> DEFINE p == Append(Pick(s, L), c)
             m == Cardinality(L)
  <2>1. Cardinality(K) = m + 1
    <3>1. K = L \cup {n + 1} /\ n + 1 \notin L
      <4>1. \A i \in K : i = n + 1 \/ i \in DOMAIN s
        BY <1>1, <1>c
      <4>2. n + 1 \notin DOMAIN s
        BY <1>1
      <4> QED BY <1>5, <4>1, <4>2
    <3>2. IsFiniteSet(L)
      BY <1>1, <1>b, RankGrows
    <3> QED BY <3>1, <3>2, FS_AddElement
  <2>2. InStep(K, L, 0)
    <3>1. Shifted(L, 0) = L
      <4>1. \A i \in L : i + 0 = i
        BY <1>b
      <4> QED BY <4>1 DEF Shifted
    <3>2. UpTo(K, n) = L
      <4>1. \A i \in K : i <= n <=> i \in DOMAIN s
        BY <1>1, <1>c
      <4> QED BY <1>b, <4>1 DEF UpTo
    <3> QED BY <1>1, <1>b, <1>c, <3>1, <3>2, FirstOnes
  <2>3. Ascending(K)[m + 1] = n + 1
    <3>1. PICK k \in 1..Cardinality(K) : Ascending(K)[k] = n + 1
      BY <1>3, <1>5
    <3>2. m + 1 \in 1..Cardinality(K) /\ m \in Nat
      BY <1>2, <2>1
    <3>a. Ascending(K)[m + 1] \in K
      <4>1. Ascending(K) \in Seq(K) /\ m + 1 \in 1..Len(Ascending(K))
        BY <1>3, <3>2
      <4> HIDE DEF m
      <4> QED BY <4>1
    <3>3. Ascending(K)[m + 1] \in 1..(n + 1)
      BY <1>c, <3>a
    <3>4. ~(k < m + 1)
      <4> SUFFICES ASSUME k < m + 1 PROVE FALSE
        OBVIOUS
      <4>1. n + 1 < Ascending(K)[m + 1]
        BY <1>3, <3>1, <3>2
      <4> QED BY <1>1, <3>3, <4>1
    <3>5. k = m + 1
      BY <2>1, <3>2, <3>4
    <3> QED BY <3>1, <3>5
  <2> HIDE DEF m
  <2>4. p \in Seq(S) /\ Len(p) = m + 1 /\ p[m + 1] = c /\ \A k \in 1..m : p[k] = Pick(s, L)[k]
    <3> DEFINE q == Pick(s, L)
    <3>1. q \in Seq(S) /\ Len(q) = m
      BY <1>2 DEF m
    <3> HIDE DEF q
    <3>2. Append(q, c) \in Seq(S) /\ Len(Append(q, c)) = m + 1 /\ Append(q, c)[m + 1] = c
      BY <3>1
    <3>3. \A k \in 1..m : Append(q, c)[k] = q[k]
      BY <3>1
    <3> QED BY <3>2, <3>3 DEF q
  <2> HIDE DEF p
  <2>5. ASSUME NEW k \in 1..(m + 1) PROVE Pick(t, K)[k] = p[k]
    <3>1. m \in Nat /\ Cardinality(L) = m
      BY <1>2 DEF m
    <3>2. CASE k = m + 1
      BY <1>1, <1>3, <2>1, <2>3, <2>4, <3>2
    <3>3. CASE k # m + 1
      <4>1. k \in 1..m
        BY <3>1, <3>3
      <4>2. Ascending(L)[k] \in L
        BY <1>2, <3>1, <4>1
      <4>3. Ascending(K)[k] = Ascending(L)[k]
        <5>1. Ascending(K)[k] = Ascending(L)[k] + 0
          BY <2>2, <3>1, <4>1 DEF InStep
        <5>2. Ascending(L)[k] \in Nat
          BY <1>b, <4>2
        <5> QED BY <5>1, <5>2
      <4>4. Pick(t, K)[k] = t[Ascending(L)[k]]
        BY <1>3, <2>1, <4>3
      <4>5. t[Ascending(L)[k]] = s[Ascending(L)[k]]
        BY <1>a, <1>b, <4>2
      <4> QED BY <1>2, <2>4, <3>1, <4>1, <4>4, <4>5
    <3> QED BY <3>2, <3>3
  <2>6. Pick(t, K) = p
    BY <1>3, <2>1, <2>4, <2>5, SeqEqual
  <2> QED BY <1>5, <2>6 DEF p, t, n
<1> QED BY <1>4, <1>5 DEF t, n

(* Nothing is picked, or everything.                                       *)
LEMMA PickNothing ==
  ASSUME NEW S, NEW s \in Seq(S)
  PROVE  Pick(s, {}) = <<>>
<1>1. {} \in SUBSET (DOMAIN s)
  OBVIOUS
<1>2. Pick(s, {}) \in Seq(S) /\ Len(Pick(s, {})) = Cardinality({})
  BY <1>1, PickKeepsOrder
<1>3. Cardinality({}) = 0
  BY FS_EmptySet
<1> DEFINE p == Pick(s, {})
<1>4. p \in Seq(S) /\ Len(p) = 0
  BY <1>2, <1>3
<1> HIDE DEF p
<1>5. p = <<>>
  BY <1>4
<1> QED BY <1>5 DEF p

LEMMA PickAll ==
  ASSUME NEW S, NEW s \in Seq(S)
  PROVE  Pick(s, DOMAIN s) = s
<1>1. CASE s = <<>>
  <2>1. DOMAIN s = {}
    BY <1>1
  <2> QED BY <1>1, <2>1, PickNothing
<1>2. CASE s # <<>>
  <2> DEFINE n == Len(s)
  <2>1. DOMAIN s = 1..n /\ n \in Nat /\ 1 <= n
    BY <1>2
  <2> HIDE DEF n
  <2>a. 1 <= 1 /\ n <= n /\ 1 <= n + 1 /\ 1 \in Nat /\ n = Len(s)
    BY <2>1 DEF n
  <2>2. Pick(s, 1..n) = SubSeq(s, 1, n)
    BY <2>1, <2>a, PickOfRun
  <2>3. SubSeq(s, 1, Len(s)) = s
    OBVIOUS
  <2> QED BY <2>1, <2>2, <2>3 DEF n
<1> QED BY <1>1, <1>2

(* What is picked of two sequences one behind the other.                   *)
Behind(A, B, K) == {i \in DOMAIN B : Len(A) + i \in K}
InFront(A, K) == {i \in DOMAIN A : i \in K}
PickedInTurn(A, B, K) ==
  Pick(A \o B, K) = Pick(A, InFront(A, K)) \o Pick(B, Behind(A, B, K))

LEMMA PickTogether ==
  ASSUME NEW S, NEW A \in Seq(S), NEW B \in Seq(S), NEW K \in SUBSET (1..(Len(A) + Len(B)))
  PROVE  PickedInTurn(A, B, K)
<1> DEFINE good == {C \in Seq(S) : \A M \in SUBSET (1..(Len(A) + Len(C))) : PickedInTurn(A, C, M)}
<1>1. <<>> \in good
  <2>1. <<>> \in Seq(S) /\ A \o <<>> = A /\ Len(<<>>) = 0 /\ DOMAIN <<>> = {}
    OBVIOUS
  <2>2. ASSUME NEW M \in SUBSET (1..(Len(A) + Len(<<>>))) PROVE PickedInTurn(A, <<>>, M)
    <3>1. InFront(A, M) = M
      <4>1. \A i \in M : i \in DOMAIN A
        OBVIOUS
      <4> QED BY <4>1 DEF InFront
    <3>2. Behind(A, <<>>, M) = {}
      BY <2>1 DEF Behind
    <3>3. Pick(<<>>, {}) = <<>>
      BY <2>1, PickNothing
    <3>4. Pick(A, M) \in Seq(S)
      <4>1. M \in SUBSET (DOMAIN A)
        OBVIOUS
      <4> QED BY <4>1, PickKeepsOrder
    <3>5. Pick(A, M) \o <<>> = Pick(A, M)
      BY <3>4
    <3> QED BY <2>1, <3>1, <3>2, <3>3, <3>5 DEF PickedInTurn
  <2> QED BY <2>1, <2>2
<1>2. ASSUME NEW C \in Seq(S), NEW c \in S, C \in good PROVE Append(C, c) \in good
  <2> DEFINE D == Append(C, c)
             n == Len(A) + Len(C)
  <2> SUFFICES ASSUME NEW M \in SUBSET (1..(Len(A) + Len(D))) PROVE PickedInTurn(A, D, M)
    OBVIOUS
  <2> DEFINE L == {i \in DOMAIN (A \o C) : i \in M}
             MC == Behind(A, C, L)
             MD == Behind(A, D, M)
  <2>1. /\ A \o D = Append(A \o C, c) /\ A \o C \in Seq(S) /\ Len(A \o C) = n
        /\ DOMAIN (A \o C) = 1..n /\ n \in Nat /\ Len(A) + Len(D) = n + 1
    OBVIOUS
  <2>2. /\ DOMAIN D = 1..(Len(C) + 1) /\ DOMAIN C = 1..Len(C) /\ Len(C) \in Nat
        /\ Len(A) \in Nat /\ Len(A) + (Len(C) + 1) = n + 1 /\ DOMAIN A = 1..Len(A)
    OBVIOUS
  <2>a. M \in SUBSET (1..(n + 1))
    BY <2>1
  <2> HIDE DEF D
  <2>3. Pick(A \o D, M) = IF n + 1 \in M THEN Append(Pick(A \o C, L), c) ELSE Pick(A \o C, L)
    <3> DEFINE X == A \o C
    <3>1. X \in Seq(S) /\ Len(X) = n /\ A \o D = Append(X, c) /\ L = {i \in DOMAIN X : i \in M}
      BY <2>1
    <3>a. X \in Seq(S) /\ c \in S /\ L = {i \in DOMAIN X : i \in M}
      BY <3>1
    <3>b. M \in SUBSET (1..(Len(X) + 1))
      BY <3>1, <2>a
    <3> HIDE DEF X, L, n
    <3>2. Pick(Append(X, c), M) = IF Len(X) + 1 \in M THEN Append(Pick(X, L), c) ELSE Pick(X, L)
      BY <3>a, <3>b, PickAppend
    <3> QED BY <3>1, <3>2 DEF X
  <2>4. L \in SUBSET (1..n) /\ InFront(A, L) = InFront(A, M)
    <3>1. L \in SUBSET (1..n)
      BY <2>1
    <3>2. \A i \in DOMAIN A : i \in DOMAIN (A \o C)
      BY <2>1, <2>2
    <3> QED BY <3>1, <3>2 DEF InFront
  <2>5. MC = {i \in DOMAIN C : i \in MD} /\ MD \in SUBSET (1..(Len(C) + 1))
        /\ (Len(C) + 1 \in MD <=> n + 1 \in M)
    <3>1. \A i \in DOMAIN C : i \in DOMAIN D /\ Len(A) + i \in 1..n
      BY <2>2
    <3>2. \A i \in DOMAIN C : i \in MD <=> Len(A) + i \in M
      BY <3>1 DEF Behind
    <3>3. \A i \in DOMAIN C : Len(A) + i \in L <=> Len(A) + i \in M
      BY <2>1, <3>1
    <3>4. MC = {i \in DOMAIN C : i \in MD}
      BY <3>2, <3>3 DEF Behind
    <3>5. MD \in SUBSET (1..(Len(C) + 1))
      BY <2>2 DEF Behind
    <3>6. Len(C) + 1 \in MD <=> n + 1 \in M
      BY <2>2 DEF Behind
    <3> QED BY <3>4, <3>5, <3>6
  <2>6. Pick(D, MD) = IF n + 1 \in M THEN Append(Pick(C, MC), c) ELSE Pick(C, MC)
    <3> HIDE DEF MC, MD, n
    <3> QED BY <2>5, PickAppend DEF D
  <2>7. Pick(A \o C, L) = Pick(A, InFront(A, L)) \o Pick(C, MC)
    <3>1. PickedInTurn(A, C, L)
      <4>1. n = Len(A) + Len(C)
        OBVIOUS
      <4> HIDE DEF L, n
      <4> QED BY <1>2, <2>4, <4>1
    <3> QED BY <3>1 DEF PickedInTurn
  <2> DEFINE P == Pick(A, InFront(A, M))
             Q == Pick(C, MC)
  <2>8. P \in Seq(S) /\ Q \in Seq(S)
    <3>1. InFront(A, M) \in SUBSET (DOMAIN A) /\ MC \in SUBSET (DOMAIN C)
      BY DEF InFront, Behind
    <3> HIDE DEF MC
    <3> QED BY <3>1, PickKeepsOrder
  <2> HIDE DEF P, Q, L, MC, MD, n
  <2>9. P \o Append(Q, c) = Append(P \o Q, c)
    BY <2>8
  <2>10. Pick(A \o D, M) = P \o Pick(D, MD)
    <3>1. Pick(A \o C, L) = P \o Q
      BY <2>4, <2>7 DEF P, Q
    <3>2. Pick(D, MD) = IF n + 1 \in M THEN Append(Q, c) ELSE Q
      BY <2>6 DEF Q
    <3> QED BY <2>3, <2>9, <3>1, <3>2
  <2> QED BY <2>10 DEF P, MD, PickedInTurn
<1>3. B \in good
  <2>1. \A C \in Seq(S) : C \in good
    <3> HIDE DEF good
    <3> QED BY <1>1, <1>2, Appending
  <2> QED BY <2>1
<1> QED BY <1>3

(***************************************************************************)
(* Dropping blanks.                                                        *)
(***************************************************************************)
(* A blank that is picked stands at the end of s, with blanks behind it.   *)
EndKept(s, K) == \E k \in K : k <= Len(s) /\ \A m \in k..Len(s) : IsSpace(s[m])

(* All that is dropped is blank, and not all of what separates two words.  *)
OnlyBlanks(s, K) == \A i \in DOMAIN s : i \notin K => IsSpace(s[i])
GapKept(s, K) ==
  \A n \in 1..(Len(s) - 1) :
    IsSpace(s[n]) /\ ~IsSpace(s[n + 1]) =>
      \E k \in K : k <= n /\ \A m \in k..n : IsSpace(s[m])

SameSoFar(s, K) ==
  /\ Collapse(Pick(s, K)) = Collapse(s)
  /\ Collapse(s) # <<>> =>
       Pick(s, K) # <<>> /\ (IsSpace(Pick(s, K)[Len(Pick(s, K))]) <=> EndKept(s, K))

(* Up to any place, what was picked has the words so far.                  *)
LEMMA DroppedSoFar ==
  ASSUME NEW S, Space \in S, NEW s \in Seq(S), NEW c \in S,
         NEW K \in SUBSET (1..(Len(s) + 1)), NEW L, L = {i \in DOMAIN s : i \in K},
         OnlyBlanks(Append(s, c), K), GapKept(Append(s, c), K), SameSoFar(s, L)
  PROVE  SameSoFar(Append(s, c), K)
<1> DEFINE t == Append(s, c)
           n == Len(s)
           p == Pick(s, L)
           q == Pick(t, K)
<1>1. /\ n \in Nat /\ t \in Seq(S) /\ Len(t) = n + 1 /\ t[n + 1] = c
      /\ DOMAIN t = 1..(n + 1) /\ DOMAIN s = 1..n /\ n + 1 \in 1..(n + 1)
  OBVIOUS
<1>2. \A i \in 1..n : t[i] = s[i] /\ (i \in L <=> i \in K)
  OBVIOUS
<1>3. q = IF n + 1 \in K THEN Append(p, c) ELSE p
  BY PickAppend
<1>4. p \in Seq(S)
  <2>1. L \in SUBSET (DOMAIN s)
    OBVIOUS
  <2> QED BY <2>1, PickKeepsOrder
<1>a. \A k \in K : k \in Nat /\ 1 <= k /\ k <= n + 1
  OBVIOUS
<1>b. \A k \in L : k \in K /\ k \in Nat /\ 1 <= k /\ k <= n
  OBVIOUS
<1>c. /\ Collapse(s) \in Seq(S)
      /\ IsSpace(c) => Collapse(t) = Collapse(s)
      /\ ~IsSpace(c) => Collapse(t) = IF Collapse(s) # <<>> /\ IsSpace(s[n])
                                      THEN Collapse(s) \o <<Space, c>> ELSE Append(Collapse(s), c)
  BY CollapseOfAppend
<1>d. /\ IsSpace(c) => Collapse(Append(p, c)) = Collapse(p)
      /\ ~IsSpace(c) => Collapse(Append(p, c)) =
                          IF Collapse(p) # <<>> /\ IsSpace(p[Len(p)])
                          THEN Collapse(p) \o <<Space, c>> ELSE Append(Collapse(p), c)
  BY <1>4, CollapseOfAppend
<1>e. /\ Collapse(p) = Collapse(s)
      /\ Collapse(s) # <<>> => p # <<>> /\ (IsSpace(p[Len(p)]) <=> EndKept(s, L))
  BY DEF SameSoFar
<1>f. Append(p, c) # <<>> /\ Append(p, c)[Len(Append(p, c))] = c
  <2> HIDE DEF p
  <2>1. Len(Append(p, c)) = Len(p) + 1 /\ Len(p) \in Nat /\ Append(p, c)[Len(p) + 1] = c
    BY <1>4
  <2> QED BY <2>1
<1>g. (\A i \in 1..(n + 1) : i \notin K => IsSpace(t[i])) /\ GapKept(t, K)
  BY <1>1 DEF OnlyBlanks
<1>h. EndKept(t, K) <=> \E k \in K : k <= n + 1 /\ \A m \in k..(n + 1) : IsSpace(t[m])
  BY <1>1 DEF EndKept
<1>i. EndKept(s, L) <=> \E k \in L : k <= n /\ \A m \in k..n : IsSpace(s[m])
  BY DEF EndKept
<1> HIDE DEF t, n, p, q
<1>5. CASE n + 1 \notin K
  <2>1. IsSpace(c)
    BY <1>1, <1>5, <1>g
  <2>2. ASSUME EndKept(t, K) PROVE EndKept(s, L)
    <3>1. PICK k \in K : k <= n + 1 /\ \A m \in k..(n + 1) : IsSpace(t[m])
      BY <1>h, <2>2
    <3>2. k \in 1..n /\ k \in L /\ k <= n
      BY <1>1, <1>2, <1>5, <1>a
    <3>3. ASSUME NEW m \in k..n PROVE IsSpace(s[m])
      <4>1. m \in 1..n /\ m \in k..(n + 1)
        BY <1>1, <3>2
      <4> QED BY <1>2, <3>1, <4>1
    <3> QED BY <1>i, <3>2, <3>3
  <2>3. ASSUME EndKept(s, L) PROVE EndKept(t, K)
    <3>1. PICK k \in L : k <= n /\ \A m \in k..n : IsSpace(s[m])
      BY <1>i, <2>3
    <3>2. k \in K /\ k \in Nat /\ 1 <= k /\ k <= n + 1
      BY <1>1, <1>b
    <3>3. ASSUME NEW m \in k..(n + 1) PROVE IsSpace(t[m])
      <4>1. m = n + 1 \/ (m \in k..n /\ m \in 1..n)
        BY <1>1, <3>2
      <4> QED BY <1>1, <1>2, <2>1, <3>1, <4>1
    <3> QED BY <1>h, <3>2, <3>3
  <2> QED BY <1>3, <1>5, <1>c, <1>e, <2>1, <2>2, <2>3 DEF SameSoFar, t, n, p, q
<1>6. CASE n + 1 \in K /\ IsSpace(c)
  <2>1. EndKept(t, K)
    <3>1. \A m \in (n + 1)..(n + 1) : IsSpace(t[m])
      BY <1>1, <1>6
    <3>2. n + 1 <= n + 1
      BY <1>1
    <3> QED BY <1>6, <1>h, <3>1, <3>2
  <2>2. q = Append(p, c) /\ Collapse(q) = Collapse(t)
    BY <1>3, <1>6, <1>c, <1>d, <1>e
  <2>3. q # <<>> /\ IsSpace(q[Len(q)])
    BY <1>6, <1>f, <2>2
  <2> QED BY <2>1, <2>2, <2>3 DEF SameSoFar, t, q
<1>7. CASE n + 1 \in K /\ ~IsSpace(c)
  <2>1. Collapse(s) # <<>> => (IsSpace(s[n]) <=> IsSpace(p[Len(p)]))
    <3> SUFFICES ASSUME Collapse(s) # <<>> PROVE IsSpace(s[n]) <=> EndKept(s, L)
      BY <1>e
    <3>1. n # 0
      <4>1. n = 0 => s = <<>>
        BY DEF n
      <4> QED BY <4>1, CollapseOfEmpty
    <3>2. n \in 1..((n + 1) - 1) /\ n \in 1..n
      BY <1>1, <3>1
    <3>3. ASSUME IsSpace(s[n]) PROVE EndKept(s, L)
      <4>1. PICK k \in K : k <= n /\ \A m \in k..n : IsSpace(t[m])
        BY <1>1, <1>2, <1>7, <1>g, <3>2, <3>3 DEF GapKept
      <4>2. k \in 1..n /\ k \in L
        BY <1>1, <1>2, <1>a, <4>1
      <4>3. ASSUME NEW m \in k..n PROVE IsSpace(s[m])
        <5>1. m \in 1..n
          BY <1>1, <4>2
        <5> QED BY <1>2, <4>1, <5>1
      <4> QED BY <1>i, <4>1, <4>2, <4>3
    <3>4. ASSUME EndKept(s, L) PROVE IsSpace(s[n])
      <4>1. PICK k \in L : k <= n /\ \A m \in k..n : IsSpace(s[m])
        BY <1>i, <3>4
      <4>2. n \in k..n
        BY <1>1, <1>b, <4>1
      <4> QED BY <4>1, <4>2
    <3> QED BY <3>3, <3>4
  <2>2. q = Append(p, c) /\ Collapse(q) = Collapse(t)
    BY <1>3, <1>7, <1>c, <1>d, <1>e, <2>1
  <2>3. q # <<>> /\ ~IsSpace(q[Len(q)])
    BY <1>7, <1>f, <2>2
  <2>4. ~EndKept(t, K)
    <3> SUFFICES ASSUME EndKept(t, K) PROVE FALSE
      OBVIOUS
    <3>1. PICK k \in K : k <= n + 1 /\ \A m \in k..(n + 1) : IsSpace(t[m])
      BY <1>h
    <3>2. n + 1 \in k..(n + 1)
      BY <1>1, <1>a, <3>1
    <3> QED BY <1>1, <1>7, <3>1, <3>2
  <2> QED BY <2>2, <2>3, <2>4 DEF SameSoFar, t, q
<1> QED BY <1>5, <1>6, <1>7

(* The words stay the same.                                                *)
LEMMA DroppedBlanks ==
  ASSUME NEW S, Space \in S, NEW s \in Seq(S), NEW K \in SUBSET (DOMAIN s),
         OnlyBlanks(s, K), GapKept(s, K)
  PROVE  Collapse(Pick(s, K)) = Collapse(s)
<1> DEFINE good == {t \in Seq(S) : \A L \in SUBSET (DOMAIN t) :
                      OnlyBlanks(t, L) /\ GapKept(t, L) => SameSoFar(t, L)}
<1>1. <<>> \in good
  <2> SUFFICES ASSUME NEW L \in SUBSET (DOMAIN <<>>) PROVE SameSoFar(<<>>, L)
    OBVIOUS
  <2>1. <<>> \in Seq(S) /\ L = {}
    OBVIOUS
  <2>2. Pick(<<>>, L) = <<>>
    BY <2>1, PickNothing
  <2> QED BY <2>2, CollapseOfEmpty DEF SameSoFar
<1>2. ASSUME NEW t \in Seq(S), NEW c \in S, t \in good PROVE Append(t, c) \in good
  <2> DEFINE u == Append(t, c)
             n == Len(t)
  <2>1. u \in Seq(S) /\ DOMAIN u = 1..(n + 1) /\ Len(u) = n + 1 /\ n \in Nat /\ DOMAIN t = 1..n
    OBVIOUS
  <2>2. \A i \in 1..n : u[i] = t[i]
    OBVIOUS
  <2> SUFFICES ASSUME NEW L \in SUBSET (DOMAIN u), OnlyBlanks(u, L), GapKept(u, L)
               PROVE  SameSoFar(u, L)
    BY <2>1
  <2> DEFINE M == {i \in DOMAIN t : i \in L}
  <2>3. L \in SUBSET (1..(n + 1)) /\ M \in SUBSET (DOMAIN t)
    BY <2>1
  <2> HIDE DEF u, n
  <2>4. OnlyBlanks(t, M)
    <3>1. \A i \in DOMAIN t : i \in DOMAIN u
      BY <2>1
    <3> QED BY <2>1, <2>2, <3>1 DEF OnlyBlanks
  <2>5. GapKept(t, M)
    <3> SUFFICES ASSUME NEW m \in 1..(n - 1), IsSpace(t[m]), ~IsSpace(t[m + 1])
                 PROVE  \E k \in M : k <= m /\ \A i \in k..m : IsSpace(t[i])
      BY DEF GapKept, n
    <3>1. m \in 1..((n + 1) - 1) /\ m \in 1..n /\ m + 1 \in 1..n
      BY <2>1
    <3>2. PICK k \in L : k <= m /\ \A i \in k..m : IsSpace(u[i])
      BY <2>1, <2>2, <3>1 DEF GapKept
    <3>3. k \in 1..n /\ k \in M
      BY <2>1, <2>3, <3>1, <3>2
    <3>4. ASSUME NEW i \in k..m PROVE IsSpace(t[i])
      <4>1. i \in 1..n
        BY <2>1, <3>1, <3>3
      <4> QED BY <2>2, <3>2, <4>1
    <3> QED BY <3>2, <3>3, <3>4
  <2>6. SameSoFar(t, M)
    BY <1>2, <2>3, <2>4, <2>5
  <2>7. L \in SUBSET (1..(Len(t) + 1))
    BY <2>3 DEF n
  <2> HIDE DEF M
  <2>8. M = {i \in DOMAIN t : i \in L}
    BY DEF M
  <2> QED BY <2>6, <2>7, <2>8, DroppedSoFar DEF u
<1>3. s \in good
  <2>1. \A t \in Seq(S) : t \in good
    <3> HIDE DEF good
    <3> QED BY <1>1, <1>2, Appending
  <2> QED BY <2>1
<1> QED BY <1>3 DEF SameSoFar

(* Tidying the ends of lines and long gaps.                                *)
LEMMA TidyKeepsWords ==
  ASSUME NEW S, Space \in S, NEW s \in Seq(S)
  PROVE  TidyLines(s) \in Seq(S) /\ Collapse(TidyLines(s)) = Collapse(s)
<1> DEFINE Edge(t, i) ==
             \/ \E k \in i..Len(t) : t[k] = Newline /\ \A m \in i..(k - 1) : t[m] = Space
             \/ \E k \in 1..i : t[k] = Newline /\ \A m \in (k + 1)..i : t[m] = Space
           K == {i \in DOMAIN s : s[i] = Space => ~Edge(s, i)}
           lines == Pick(s, K)
           L == {i \in DOMAIN lines : ~(i > 2 /\ \A j \in (i - 2)..i : lines[j] = Newline)}
           n == Len(s)
           l == Len(lines)
<1>1. TidyLines(s) = Pick(lines, L) /\ K \in SUBSET (DOMAIN s) /\ L \in SUBSET (DOMAIN lines)
  BY DEF TidyLines
<1>2. lines \in Seq(S)
  <2> HIDE DEF K
  <2> QED BY <1>1, PickIsSeq
<1>3. IsSpace(Space) /\ IsSpace(Newline)
  BY DEF IsSpace
<1>4. DOMAIN s = 1..n /\ n \in Nat
  OBVIOUS
<1>5. OnlyBlanks(s, K)
  BY <1>3 DEF OnlyBlanks
<1>6. ASSUME NEW m \in 1..(n - 1), IsSpace(s[m]), ~IsSpace(s[m + 1])
      PROVE  \E k \in K : k <= m /\ \A i \in k..m : IsSpace(s[i])
  <2>1. m \in 1..n /\ m + 1 \in 1..n /\ m \in Nat
    BY <1>4
  <2>2. CASE \E k \in 1..m : s[k] = Newline /\ \A i \in (k + 1)..m : s[i] = Space
    <3>1. PICK k \in 1..m : s[k] = Newline /\ \A i \in (k + 1)..m : s[i] = Space
      BY <2>2
    <3>2. k \in K
      <4>1. Space # Newline
        BY DEF Space, Newline
      <4>2. k \in DOMAIN s
        BY <1>4, <2>1
      <4> QED BY <3>1, <4>1, <4>2
    <3>3. ASSUME NEW i \in k..m PROVE IsSpace(s[i])
      <4>1. i = k \/ i \in (k + 1)..m
        BY <2>1
      <4> QED BY <1>3, <3>1, <4>1
    <3>4. k <= m
      BY <2>1
    <3> QED BY <3>2, <3>3, <3>4
  <2>3. CASE ~\E k \in 1..m : s[k] = Newline /\ \A i \in (k + 1)..m : s[i] = Space
    <3>1. ~\E k \in m..n : s[k] = Newline /\ \A i \in m..(k - 1) : s[i] = Space
      <4> SUFFICES ASSUME NEW k \in m..n, s[k] = Newline, \A i \in m..(k - 1) : s[i] = Space
                   PROVE  FALSE
        OBVIOUS
      <4>1. k # m
        <5>1. k = m => k \in 1..m /\ \A i \in (k + 1)..m : FALSE
          BY <2>1
        <5> QED BY <2>3, <5>1
      <4>2. k # m + 1
        BY <1>3, <1>6
      <4>3. m + 1 \in m..(k - 1)
        BY <1>4, <2>1, <4>1, <4>2
      <4> QED BY <1>3, <1>6, <4>3
    <3>2. ~Edge(s, m)
      BY <2>3, <3>1
    <3>3. m \in K
      BY <1>4, <2>1, <3>2
    <3>4. m <= m /\ \A i \in m..m : IsSpace(s[i])
      BY <1>6, <2>1
    <3> QED BY <3>3, <3>4
  <2> QED BY <2>2, <2>3
<1>7. GapKept(s, K)
  BY <1>6 DEF GapKept
<1> HIDE DEF K
<1>8. Collapse(lines) = Collapse(s)
  BY <1>1, <1>5, <1>7, DroppedBlanks
<1> HIDE DEF lines
<1>9. DOMAIN lines = 1..l /\ l \in Nat
  BY <1>2
<1>10. OnlyBlanks(lines, L)
  <2> SUFFICES ASSUME NEW i \in DOMAIN lines, i \notin L PROVE IsSpace(lines[i])
    BY DEF OnlyBlanks
  <2>1. i > 2 /\ \A j \in (i - 2)..i : lines[j] = Newline
    OBVIOUS
  <2>2. i \in (i - 2)..i
    BY <1>9
  <2> QED BY <1>3, <2>1, <2>2
<1>11. ASSUME NEW m \in 1..(l - 1), IsSpace(lines[m]), ~IsSpace(lines[m + 1])
       PROVE  \E k \in L : k <= m /\ \A i \in k..m : IsSpace(lines[i])
  <2>1. m \in 1..l /\ m \in Nat /\ m <= m
    BY <1>9
  <2>2. CASE m \in L
    <3>1. \A i \in m..m : IsSpace(lines[i])
      BY <1>11, <2>1
    <3> QED BY <2>1, <2>2, <3>1
  <2>3. CASE m \notin L
    <3> DEFINE run == {k \in 1..m : \A i \in k..m : lines[i] = Newline}
    <3>1. m > 2 /\ \A j \in (m - 2)..m : lines[j] = Newline
      BY <1>9, <2>1, <2>3
    <3>2. m \in run
      <4>1. \A i \in m..m : i \in (m - 2)..m
        BY <2>1
      <4> QED BY <2>1, <3>1, <4>1
    <3>a. \A k \in run : k \in Nat
      BY <2>1
    <3>3. run \in SUBSET Nat /\ run # {}
      <4> HIDE DEF run
      <4> QED BY <3>2, <3>a
    <3>4. PICK k \in run : \A j \in run : k <= j
      <4> HIDE DEF run
      <4> QED BY <3>3, FirstPosition
    <3>5. k \in 1..m /\ k \in 1..l /\ k <= m /\ \A i \in k..m : lines[i] = Newline
      BY <1>9, <2>1
    <3>6. ~(k > 2 /\ \A j \in (k - 2)..k : lines[j] = Newline)
      <4> SUFFICES ASSUME k > 2, \A j \in (k - 2)..k : lines[j] = Newline PROVE FALSE
        OBVIOUS
      <4>1. k - 1 \in 1..m /\ k - 1 \in (k - 2)..k /\ ~(k <= k - 1)
        BY <2>1, <3>5
      <4>2. ASSUME NEW i \in (k - 1)..m PROVE lines[i] = Newline
        <5>1. i = k - 1 \/ i \in k..m
          BY <2>1, <3>5
        <5> QED BY <3>5, <4>1, <5>1
      <4>3. k - 1 \in run
        BY <4>1, <4>2
      <4> QED BY <3>4, <4>1, <4>3
    <3>7. k \in L
      BY <1>9, <3>5, <3>6
    <3>8. \A i \in k..m : IsSpace(lines[i])
      BY <1>3, <3>5
    <3> QED BY <3>5, <3>7, <3>8
  <2> QED BY <2>2, <2>3
<1>12. GapKept(lines, L)
  BY <1>11 DEF GapKept
<1> HIDE DEF L
<1>13. Collapse(Pick(lines, L)) = Collapse(lines)
  BY <1>1, <1>2, <1>10, <1>12, DroppedBlanks
<1>14. Pick(lines, L) \in Seq(S)
  BY <1>1, <1>2, PickIsSeq
<1> QED BY <1>1, <1>8, <1>13, <1>14

(***************************************************************************)
(* What a text is without its markup, and the words of its hash.           *)
(***************************************************************************)
(* What StripHTML does before it tidies lines and trims: the markup is gone.*)
Core(u) == Unescape(DropTags(BreaksToLines(u)))

(* Tidying changes blanks only, so the words, and the hash, are Core's.    *)
LEMMA HashedWords ==
  ASSUME NEW u \in Seq(Chars)
  PROVE  /\ Core(u) \in Seq(Chars)
         /\ Collapse(StripHTML(u)) = Collapse(Core(u)) /\ Normalize(u) = Collapse(Core(u))
<1> DEFINE core == Core(u)
           tidy == TidyLines(core)
<1>1. core \in Seq(Chars)
  BY BreaksToLinesIsText, DropTagsIsText, UnescapeIsText DEF Core
<1>2. StripHTML(u) = TrimSpace(tidy)
  BY DEF StripHTML, Core
<1> HIDE DEF core
<1>3. Space \in Chars
  BY Literals
<1>4. tidy \in Seq(Chars) /\ Collapse(tidy) = Collapse(core)
  BY <1>1, <1>3, TidyKeepsWords
<1> HIDE DEF tidy
<1>5. Collapse(TrimSpace(tidy)) = Collapse(tidy)
  BY <1>3, <1>4, TrimmedWords
<1> QED BY <1>1, <1>2, <1>4, <1>5 DEF core, Normalize

(* The characters that markup is made of.                                  *)
Opens(c) == c = "<"
Closes(c) == c = ">"
Breaks(c) == c \in {"br", "/p"}

LEMMA MarkupIs ==
  ASSUME NEW s, NEW i
  PROVE  /\ BreakAt(s, i) <=> /\ i \in 1..(Len(s) - 2)
                              /\ Opens(s[i]) /\ Breaks(s[i + 1]) /\ Closes(s[i + 2])
         /\ InTag(s, i) <=> \E j \in 1..i, k \in i..Len(s) :
                              Opens(s[j]) /\ Closes(s[k]) /\ \A m \in j..(k - 1) : ~Closes(s[m])
  BY Zenon DEF BreakAt, InTag, Opens, Breaks, Closes

(* No character plays two of these parts, and none is a blank.             *)
LEMMA MarksDiffer ==
  ASSUME NEW c
  PROVE  /\ Opens(c) => ~Closes(c) /\ ~Breaks(c) /\ ~IsSpace(c)
         /\ Closes(c) => ~Breaks(c) /\ ~IsSpace(c)
         /\ Breaks(c) => ~IsSpace(c)
  BY Zenon DEF Opens, Closes, Breaks, IsSpace, Space, Newline

(* Where no line break reaches across, texts are marked one by one.        *)
NoneAcross(A, R) == ~BreakAt(A \o R, Len(A)) /\ ~BreakAt(A \o R, Len(A) - 1)
BreaksInTurn(A, R) == BreaksToLines(A \o R) = BreaksToLines(A) \o BreaksToLines(R)

(* BreaksToLines in two steps: a new line at each break, then the rest goes.*)
Marked(s) == [i \in DOMAIN s |-> IF BreakAt(s, i) THEN Newline ELSE s[i]]
NoneBefore(s) == {i \in DOMAIN s : ~BreakAt(s, i - 1) /\ ~BreakAt(s, i - 2)}

LEMMA MarkedIs ==
  ASSUME NEW s \in Seq(Chars)
  PROVE  /\ BreaksToLines(s) = Pick(Marked(s), NoneBefore(s))
         /\ Marked(s) \in Seq(Chars) /\ Len(Marked(s)) = Len(s)
         /\ \A i \in 1..Len(s) : Marked(s)[i] = IF BreakAt(s, i) THEN Newline ELSE s[i]
<1>1. \A i \in DOMAIN s : Marked(s)[i] = IF BreakAt(s, i) THEN Newline ELSE s[i]
  BY DEF Marked
<1>2. \A i \in DOMAIN s : Marked(s)[i] \in Chars
  BY <1>1, Literals
<1>3. DOMAIN Marked(s) = DOMAIN s /\ Marked(s) = [i \in DOMAIN s |-> Marked(s)[i]]
  BY DEF Marked
<1>4. Marked(s) \in Seq(Chars) /\ Len(Marked(s)) = Len(s)
  BY <1>2, <1>3, MappedIsText
<1>5. BreaksToLines(s) = Pick(Marked(s), NoneBefore(s))
  BY DEF BreaksToLines, Marked, NoneBefore
<1>6. DOMAIN s = 1..Len(s)
  OBVIOUS
<1> QED BY <1>1, <1>4, <1>5, <1>6

LEMMA BreaksTogether ==
  ASSUME NEW A \in Seq(Chars), NEW R \in Seq(Chars), NoneAcross(A, R)
  PROVE  BreaksInTurn(A, R)
<1> DEFINE s == A \o R
           a == Len(A)
           r == Len(R)
<1>1. s \in Seq(Chars) /\ Len(s) = a + r /\ a \in Nat /\ r \in Nat
  OBVIOUS
<1>2. (\A i \in 1..a : s[i] = A[i]) /\ \A i \in 1..r : s[a + i] = R[i]
  OBVIOUS
<1>a. DOMAIN A = 1..a /\ DOMAIN R = 1..r /\ DOMAIN s = 1..(a + r)
  OBVIOUS
<1>b. ~BreakAt(s, a) /\ ~BreakAt(s, a - 1)
  BY DEF NoneAcross
<1> HIDE DEF s
<1>3. ASSUME NEW i \in Int, i <= a PROVE BreakAt(s, i) <=> BreakAt(A, i)
  <2>1. CASE i \in 1..(a - 2)
    <3>1. i \in 1..((a + r) - 2) /\ i \in 1..a /\ i + 1 \in 1..a /\ i + 2 \in 1..a
      BY <1>1, <2>1
    <3>2. s[i] = A[i] /\ s[i + 1] = A[i + 1] /\ s[i + 2] = A[i + 2]
      BY <1>2, <3>1
    <3> QED BY <1>1, <2>1, <3>1, <3>2, MarkupIs
  <2>2. CASE i \notin 1..(a - 2)
    <3>1. ~BreakAt(A, i)
      BY <2>2, MarkupIs
    <3>2. i < 1 \/ i = a \/ i = a - 1
      BY <1>1, <1>3, <2>2
    <3>3. i < 1 => ~BreakAt(s, i)
      <4>1. i < 1 => i \notin 1..(Len(s) - 2)
        BY <1>1
      <4> QED BY <4>1, MarkupIs
    <3> QED BY <1>b, <3>1, <3>2, <3>3
  <2> QED BY <2>1, <2>2
<1>4. ASSUME NEW i \in Int, i >= -1 PROVE BreakAt(s, a + i) <=> BreakAt(R, i)
  <2>1. CASE i \in 1..(r - 2)
    <3>1. a + i \in 1..((a + r) - 2) /\ i \in 1..r /\ i + 1 \in 1..r /\ i + 2 \in 1..r
          /\ a + i + 1 = a + (i + 1) /\ a + i + 2 = a + (i + 2)
      BY <1>1, <2>1
    <3>2. s[a + i] = R[i] /\ s[a + i + 1] = R[i + 1] /\ s[a + i + 2] = R[i + 2]
      BY <1>2, <3>1
    <3> QED BY <1>1, <2>1, <3>1, <3>2, MarkupIs
  <2>2. CASE i \notin 1..(r - 2)
    <3>1. ~BreakAt(R, i)
      BY <2>2, MarkupIs
    <3>2. i > r - 2 \/ i = 0 \/ i = -1
      BY <1>1, <1>4, <2>2
    <3>3. i > r - 2 => ~BreakAt(s, a + i)
      <4>1. i > r - 2 => a + i \notin 1..(Len(s) - 2)
        BY <1>1
      <4> QED BY <4>1, MarkupIs
    <3>4. a + 0 = a /\ a + (-1) = a - 1
      BY <1>1
    <3> QED BY <1>b, <3>1, <3>2, <3>3, <3>4
  <2> QED BY <2>1, <2>2
<1> HIDE DEF a, r
<1> DEFINE MA == Marked(A)
           MR == Marked(R)
<1>5. /\ BreaksToLines(A) = Pick(MA, NoneBefore(A)) /\ MA \in Seq(Chars) /\ Len(MA) = a
      /\ \A i \in 1..a : MA[i] = IF BreakAt(A, i) THEN Newline ELSE A[i]
  BY MarkedIs DEF a
<1>6. /\ BreaksToLines(R) = Pick(MR, NoneBefore(R)) /\ MR \in Seq(Chars) /\ Len(MR) = r
      /\ \A i \in 1..r : MR[i] = IF BreakAt(R, i) THEN Newline ELSE R[i]
  BY MarkedIs DEF r
<1>7. /\ BreaksToLines(s) = Pick(Marked(s), NoneBefore(s))
      /\ Marked(s) \in Seq(Chars) /\ Len(Marked(s)) = a + r
      /\ \A i \in 1..(a + r) : Marked(s)[i] = IF BreakAt(s, i) THEN Newline ELSE s[i]
  BY <1>1, MarkedIs
<1> HIDE DEF MA, MR
<1>8. Marked(s) = MA \o MR
  <2> DEFINE M == MA \o MR
  <2>a. MA \in Seq(Chars) /\ MR \in Seq(Chars) /\ Len(MA) = a /\ Len(MR) = r
    BY <1>5, <1>6
  <2>b. \A f, g \in Seq(Chars) :
          /\ f \o g \in Seq(Chars) /\ Len(f \o g) = Len(f) + Len(g)
          /\ \A i \in 1..Len(f) : (f \o g)[i] = f[i]
          /\ \A i \in 1..Len(g) : (f \o g)[Len(f) + i] = g[i]
    OBVIOUS
  <2>1. M \in Seq(Chars) /\ Len(M) = a + r
    BY <2>a, <2>b
  <2>2. (\A i \in 1..a : M[i] = MA[i]) /\ \A i \in 1..r : M[a + i] = MR[i]
    BY <2>a, <2>b
  <2> HIDE DEF M
  <2>3. ASSUME NEW i \in 1..(a + r) PROVE Marked(s)[i] = M[i]
    <3>1. CASE i <= a
      <4>1. i \in 1..a /\ i \in Int
        BY <1>1, <3>1
      <4> QED BY <1>2, <1>3, <1>5, <1>7, <2>2, <3>1, <4>1
    <3>2. CASE i > a
      <4>1. PICK k \in 1..r : i = a + k
        <5>1. i - a \in 1..r /\ i = a + (i - a)
          BY <1>1, <3>2
        <5> QED BY <5>1
      <4>2. k \in Int /\ k >= -1
        BY <4>1
      <4> QED BY <1>2, <1>4, <1>6, <1>7, <2>2, <4>1, <4>2
    <3>3. i <= a \/ i > a
      BY <1>1
    <3> QED BY <3>1, <3>2, <3>3
  <2>4. Marked(s) = M
    BY <1>7, <2>1, <2>3, SeqEqual
  <2> QED BY <2>4 DEF M
<1>9. InFront(MA, NoneBefore(s)) = NoneBefore(A)
  <2>1. ASSUME NEW i \in 1..a PROVE i \in NoneBefore(s) <=> i \in NoneBefore(A)
    <3>1. i - 1 \in Int /\ i - 2 \in Int /\ i - 1 <= a /\ i - 2 <= a /\ i \in 1..(a + r)
      BY <1>1
    <3> QED BY <1>3, <1>a, <3>1 DEF NoneBefore
  <2>2. DOMAIN MA = 1..a
    BY <1>5
  <2>3. \A i \in NoneBefore(A) : i \in 1..a
    BY <1>a DEF NoneBefore
  <2> QED BY <2>1, <2>2, <2>3 DEF InFront
<1>10. Behind(MA, MR, NoneBefore(s)) = NoneBefore(R)
  <2>1. ASSUME NEW i \in 1..r PROVE a + i \in NoneBefore(s) <=> i \in NoneBefore(R)
    <3>1. /\ i - 1 \in Int /\ i - 2 \in Int /\ i - 1 >= -1 /\ i - 2 >= -1
          /\ a + i \in 1..(a + r) /\ (a + i) - 1 = a + (i - 1) /\ (a + i) - 2 = a + (i - 2)
      BY <1>1
    <3>2. BreakAt(s, a + (i - 1)) <=> BreakAt(R, i - 1)
      BY <1>4, <3>1
    <3>3. BreakAt(s, a + (i - 2)) <=> BreakAt(R, i - 2)
      BY <1>4, <3>1
    <3>4. BreakAt(s, (a + i) - 1) <=> BreakAt(R, i - 1)
      BY <3>1, <3>2
    <3>5. BreakAt(s, (a + i) - 2) <=> BreakAt(R, i - 2)
      BY <3>1, <3>3
    <3>6. a + i \in NoneBefore(s) <=> ~BreakAt(s, (a + i) - 1) /\ ~BreakAt(s, (a + i) - 2)
      BY <1>a, <3>1 DEF NoneBefore
    <3>7. i \in NoneBefore(R) <=> ~BreakAt(R, i - 1) /\ ~BreakAt(R, i - 2)
      BY <1>a DEF NoneBefore
    <3> QED BY <3>4, <3>5, <3>6, <3>7
  <2>2. DOMAIN MR = 1..r /\ Len(MA) = a
    BY <1>5, <1>6
  <2>3. \A i \in NoneBefore(R) : i \in 1..r
    BY <1>a DEF NoneBefore
  <2> QED BY <2>1, <2>2, <2>3 DEF Behind
<1>11. PickedInTurn(MA, MR, NoneBefore(s))
  <2>1. NoneBefore(s) \in SUBSET (1..(Len(MA) + Len(MR)))
    BY <1>5, <1>6, <1>a DEF NoneBefore
  <2> QED BY <1>5, <1>6, <2>1, PickTogether
<1>12. BreaksToLines(s) = BreaksToLines(A) \o BreaksToLines(R)
  BY <1>5, <1>6, <1>7, <1>8, <1>9, <1>10, <1>11 DEF PickedInTurn
<1> QED BY <1>12 DEF BreaksInTurn, s

(* A tag that is open at the end of A is one if R closes it.               *)
OpenBehind(A, i) == \E j \in 1..i : Opens(A[j]) /\ \A m \in j..Len(A) : ~Closes(A[m])
ClosedAt(R, i) == \E k \in i..Len(R) : Closes(R[k]) /\ \A m \in 1..(k - 1) : ~Closes(R[m])
HasEnd(R) == \E k \in DOMAIN R : Closes(R[k])
KeptInFront(A, closed) == {i \in DOMAIN A : ~InTag(A, i) /\ ~(closed /\ OpenBehind(A, i))}
KeptBehind(R, open) == {i \in DOMAIN R : ~InTag(R, i) /\ ~(open /\ ClosedAt(R, i))}
DropsInTurn(A, R) ==
  DropTags(A \o R) = Pick(A, KeptInFront(A, HasEnd(R)))
                     \o Pick(R, KeptBehind(R, OpenBehind(A, Len(A))))

(* In front, a place is in a tag of A, or in one that R closes.            *)
LEMMA TagsInFront ==
  ASSUME NEW A \in Seq(Chars), NEW R \in Seq(Chars), NEW i \in 1..Len(A)
  PROVE  InTag(A \o R, i) <=> InTag(A, i) \/ (HasEnd(R) /\ OpenBehind(A, i))
<1> DEFINE s == A \o R
           a == Len(A)
           r == Len(R)
<1>1. Len(s) = a + r /\ a \in Nat /\ r \in Nat /\ DOMAIN R = 1..r
  OBVIOUS
<1>2. (\A j \in 1..a : s[j] = A[j]) /\ \A j \in 1..r : s[a + j] = R[j]
  OBVIOUS
<1>a. i \in 1..a /\ a = Len(A) /\ r = Len(R)
  OBVIOUS
<1> HIDE DEF s, a, r
<1>3. ASSUME InTag(s, i) PROVE InTag(A, i) \/ (HasEnd(R) /\ OpenBehind(A, i))
  <2>1. PICK j \in 1..i : \E k \in i..(a + r) :
               Opens(s[j]) /\ Closes(s[k]) /\ \A m \in j..(k - 1) : ~Closes(s[m])
    BY <1>1, <1>3, MarkupIs
  <2>2. PICK k \in i..(a + r) :
               Opens(s[j]) /\ Closes(s[k]) /\ \A m \in j..(k - 1) : ~Closes(s[m])
    BY <2>1
  <2>3. j \in 1..a /\ Opens(A[j])
    BY <1>1, <1>2, <1>a, <2>2
  <2>4. CASE k <= a
    <3>1. k \in i..a /\ k \in 1..a /\ \A m \in j..(k - 1) : m \in 1..a
      BY <1>1, <1>a, <2>3, <2>4
    <3>2. Closes(A[k]) /\ \A m \in j..(k - 1) : ~Closes(A[m])
      BY <1>2, <2>2, <3>1
    <3> QED BY <1>a, <2>3, <3>1, <3>2, MarkupIs
  <2>5. CASE k > a
    <3>1. k - a \in 1..r /\ k = a + (k - a) /\ \A m \in j..a : m \in 1..a /\ m \in j..(k - 1)
      BY <1>1, <1>a, <2>3, <2>5
    <3>2. Closes(R[k - a])
      BY <1>2, <2>2, <3>1
    <3>3. \A m \in j..a : ~Closes(A[m])
      BY <1>2, <2>2, <3>1
    <3> QED BY <1>1, <1>a, <2>3, <3>1, <3>2, <3>3 DEF HasEnd, OpenBehind
  <2>6. k <= a \/ k > a
    BY <1>1, <1>a
  <2> QED BY <2>4, <2>5, <2>6
<1>4. ASSUME InTag(A, i) PROVE InTag(s, i)
  <2>1. PICK j \in 1..i : \E k \in i..a :
               Opens(A[j]) /\ Closes(A[k]) /\ \A m \in j..(k - 1) : ~Closes(A[m])
    BY <1>4, <1>a, MarkupIs
  <2>2. PICK k \in i..a : Opens(A[j]) /\ Closes(A[k]) /\ \A m \in j..(k - 1) : ~Closes(A[m])
    BY <2>1
  <2>3. /\ j \in 1..a /\ k \in 1..a /\ k \in i..(a + r)
        /\ \A m \in j..(k - 1) : m \in 1..a
    BY <1>1, <1>a
  <2>4. Opens(s[j]) /\ Closes(s[k]) /\ \A m \in j..(k - 1) : ~Closes(s[m])
    BY <1>2, <2>2, <2>3
  <2> QED BY <1>1, <2>3, <2>4, MarkupIs
<1>5. ASSUME HasEnd(R), OpenBehind(A, i) PROVE InTag(s, i)
  <2>1. PICK j \in 1..i : Opens(A[j]) /\ \A m \in j..a : ~Closes(A[m])
    BY <1>5, <1>a DEF OpenBehind
  <2> DEFINE ends == {k \in 1..r : Closes(R[k])}
  <2>2. ends \in SUBSET Nat /\ ends # {}
    BY <1>1, <1>5 DEF HasEnd
  <2>3. PICK k \in ends : \A l \in ends : k <= l
    <3> HIDE DEF ends
    <3> QED BY <2>2, FirstPosition
  <2>4. k \in 1..r /\ Closes(R[k])
    OBVIOUS
  <2>5. \A m \in 1..(k - 1) : ~Closes(R[m])
    BY <1>1, <2>3, <2>4
  <2>6. a + k \in i..(a + r) /\ j \in 1..a
    BY <1>1, <1>a, <2>4
  <2>7. ASSUME NEW m \in j..((a + k) - 1) PROVE ~Closes(s[m])
    <3>1. CASE m <= a
      <4>1. m \in j..a /\ m \in 1..a
        BY <1>1, <2>6, <3>1
      <4> QED BY <1>2, <2>1, <4>1
    <3>2. CASE m > a
      <4>1. m - a \in 1..(k - 1) /\ m - a \in 1..r /\ m = a + (m - a)
        BY <1>1, <2>4, <2>6, <3>2
      <4>2. s[m] = R[m - a]
        BY <1>2, <4>1
      <4> QED BY <2>5, <4>1, <4>2
    <3>3. m <= a \/ m > a
      BY <1>1, <2>6
    <3> QED BY <3>1, <3>2, <3>3
  <2>8. Opens(s[j]) /\ Closes(s[a + k])
    BY <1>2, <2>1, <2>4, <2>6
  <2> QED BY <1>1, <2>6, <2>7, <2>8, MarkupIs
<1> QED BY <1>3, <1>4, <1>5 DEF s

(* Behind, it is in a tag of R, or in one that A opened.                   *)
LEMMA TagsBehind ==
  ASSUME NEW A \in Seq(Chars), NEW R \in Seq(Chars), NEW i \in 1..Len(R)
  PROVE  InTag(A \o R, Len(A) + i) <=> InTag(R, i) \/ (OpenBehind(A, Len(A)) /\ ClosedAt(R, i))
<1> DEFINE s == A \o R
           a == Len(A)
           r == Len(R)
<1>1. Len(s) = a + r /\ a \in Nat /\ r \in Nat
  OBVIOUS
<1>2. (\A j \in 1..a : s[j] = A[j]) /\ \A j \in 1..r : s[a + j] = R[j]
  OBVIOUS
<1>a. i \in 1..r /\ a = Len(A) /\ r = Len(R)
  OBVIOUS
<1> HIDE DEF s, a, r
<1>3. ASSUME InTag(s, a + i) PROVE InTag(R, i) \/ (OpenBehind(A, a) /\ ClosedAt(R, i))
  <2>1. PICK j \in 1..(a + i) : \E k \in (a + i)..(a + r) :
               Opens(s[j]) /\ Closes(s[k]) /\ \A m \in j..(k - 1) : ~Closes(s[m])
    BY <1>1, <1>3, MarkupIs
  <2>2. PICK e \in (a + i)..(a + r) :
               Opens(s[j]) /\ Closes(s[e]) /\ \A m \in j..(e - 1) : ~Closes(s[m])
    BY <2>1
  <2>3. PICK k \in i..r : e = a + k
    <3>1. e - a \in i..r /\ e = a + (e - a)
      BY <1>1, <1>a
    <3> QED BY <3>1
  <2>4. k \in 1..r /\ Closes(R[k])
    BY <1>1, <1>2, <1>a, <2>2, <2>3
  <2>5. CASE j <= a
    <3>1. j \in 1..a /\ \A m \in j..a : m \in 1..a /\ m \in j..(e - 1)
      BY <1>1, <1>a, <2>3, <2>5
    <3>2. Opens(A[j]) /\ \A m \in j..a : ~Closes(A[m])
      BY <1>2, <2>2, <3>1
    <3>3. \A m \in 1..(k - 1) : m \in 1..r /\ a + m \in j..(e - 1)
      BY <1>1, <2>3, <2>4, <3>1
    <3>4. \A m \in 1..(k - 1) : ~Closes(R[m])
      BY <1>2, <2>2, <3>3
    <3> QED BY <1>a, <2>4, <3>1, <3>2, <3>4 DEF OpenBehind, ClosedAt
  <2>6. CASE j > a
    <3>1. PICK h \in 1..i : j = a + h
      <4>1. j - a \in 1..i /\ j = a + (j - a)
        BY <1>1, <1>a, <2>6
      <4> QED BY <4>1
    <3>2. h \in 1..r /\ \A m \in h..(k - 1) : m \in 1..r /\ a + m \in j..(e - 1)
      BY <1>1, <1>a, <2>3, <2>4, <3>1
    <3>3. Opens(R[h]) /\ \A m \in h..(k - 1) : ~Closes(R[m])
      BY <1>2, <2>2, <3>1, <3>2
    <3> QED BY <1>a, <2>4, <3>3, MarkupIs
  <2>7. j <= a \/ j > a
    BY <1>1, <1>a
  <2> QED BY <2>5, <2>6, <2>7
<1>4. ASSUME InTag(R, i) PROVE InTag(s, a + i)
  <2>1. PICK h \in 1..i : \E k \in i..r :
               Opens(R[h]) /\ Closes(R[k]) /\ \A m \in h..(k - 1) : ~Closes(R[m])
    BY <1>4, <1>a, MarkupIs
  <2>2. PICK k \in i..r : Opens(R[h]) /\ Closes(R[k]) /\ \A m \in h..(k - 1) : ~Closes(R[m])
    BY <2>1
  <2>3. /\ h \in 1..r /\ k \in 1..r /\ a + k \in (a + i)..(a + r) /\ a + h \in 1..(a + i)
        /\ \A m \in (a + h)..((a + k) - 1) : m - a \in h..(k - 1) /\ m - a \in 1..r /\ m = a + (m - a)
    BY <1>1, <1>a
  <2>4. Opens(s[a + h]) /\ Closes(s[a + k])
    BY <1>2, <2>2, <2>3
  <2>5. \A m \in (a + h)..((a + k) - 1) : ~Closes(s[m])
    BY <1>2, <2>2, <2>3
  <2> QED BY <1>1, <2>3, <2>4, <2>5, MarkupIs
<1>5. ASSUME OpenBehind(A, a), ClosedAt(R, i) PROVE InTag(s, a + i)
  <2>1. PICK j \in 1..a : Opens(A[j]) /\ \A m \in j..a : ~Closes(A[m])
    BY <1>5, <1>a DEF OpenBehind
  <2>2. PICK k \in i..r : Closes(R[k]) /\ \A m \in 1..(k - 1) : ~Closes(R[m])
    BY <1>5, <1>a DEF ClosedAt
  <2>3. k \in 1..r /\ a + k \in (a + i)..(a + r) /\ j \in 1..(a + i)
    BY <1>1, <1>a
  <2>4. ASSUME NEW m \in j..((a + k) - 1) PROVE ~Closes(s[m])
    <3>1. CASE m <= a
      <4>1. m \in j..a /\ m \in 1..a
        BY <1>1, <3>1
      <4> QED BY <1>2, <2>1, <4>1
    <3>2. CASE m > a
      <4>1. m - a \in 1..(k - 1) /\ m - a \in 1..r /\ m = a + (m - a)
        BY <1>1, <2>3, <3>2
      <4>2. s[m] = R[m - a]
        BY <1>2, <4>1
      <4> QED BY <2>2, <4>1, <4>2
    <3>3. m <= a \/ m > a
      BY <1>1
    <3> QED BY <3>1, <3>2, <3>3
  <2>5. Opens(s[j]) /\ Closes(s[a + k])
    BY <1>2, <2>1, <2>2, <2>3
  <2> QED BY <1>1, <2>3, <2>4, <2>5, MarkupIs
<1>6. InTag(s, a + i) <=> InTag(R, i) \/ (OpenBehind(A, a) /\ ClosedAt(R, i))
  BY <1>3, <1>4, <1>5
<1> QED BY <1>6 DEF s, a

LEMMA TagsTogether ==
  ASSUME NEW A \in Seq(Chars), NEW R \in Seq(Chars)
  PROVE  DropsInTurn(A, R)
<1> DEFINE K == {i \in DOMAIN (A \o R) : ~InTag(A \o R, i)}
           closed == HasEnd(R)
           open == OpenBehind(A, Len(A))
<1>1. DOMAIN A = 1..Len(A) /\ DOMAIN R = 1..Len(R) /\ Len(A) \in Nat /\ Len(R) \in Nat
      /\ DOMAIN (A \o R) = 1..(Len(A) + Len(R))
  OBVIOUS
<1>2. K \in SUBSET (1..(Len(A) + Len(R)))
  BY <1>1
<1>3. InFront(A, K) = KeptInFront(A, closed)
  <2>1. ASSUME NEW i \in 1..Len(A) PROVE i \in K <=> i \in KeptInFront(A, closed)
    <3>1. i \in 1..(Len(A) + Len(R))
      BY <1>1
    <3>2. InTag(A \o R, i) <=> InTag(A, i) \/ (HasEnd(R) /\ OpenBehind(A, i))
      BY TagsInFront
    <3>3. i \in KeptInFront(A, closed) <=> ~InTag(A, i) /\ ~(HasEnd(R) /\ OpenBehind(A, i))
      BY <1>1 DEF KeptInFront
    <3>4. i \in K <=> ~InTag(A \o R, i)
      BY <1>1, <3>1
    <3> HIDE DEF K, closed
    <3> QED BY <3>2, <3>3, <3>4
  <2>2. \A i \in KeptInFront(A, closed) : i \in 1..Len(A)
    BY <1>1 DEF KeptInFront
  <2> HIDE DEF K, closed
  <2> QED BY <1>1, <2>1, <2>2 DEF InFront
<1>4. Behind(A, R, K) = KeptBehind(R, open)
  <2>1. ASSUME NEW i \in 1..Len(R) PROVE Len(A) + i \in K <=> i \in KeptBehind(R, open)
    <3>1. Len(A) + i \in 1..(Len(A) + Len(R))
      BY <1>1
    <3>2. InTag(A \o R, Len(A) + i) <=> InTag(R, i) \/ (open /\ ClosedAt(R, i))
      BY TagsBehind
    <3>3. i \in KeptBehind(R, open) <=> ~InTag(R, i) /\ ~(open /\ ClosedAt(R, i))
      BY <1>1 DEF KeptBehind
    <3>4. Len(A) + i \in K <=> ~InTag(A \o R, Len(A) + i)
      BY <1>1, <3>1
    <3> HIDE DEF K, open
    <3> QED BY <3>2, <3>3, <3>4
  <2>2. \A i \in KeptBehind(R, open) : i \in 1..Len(R)
    BY <1>1 DEF KeptBehind
  <2> HIDE DEF K, open
  <2> QED BY <1>1, <2>1, <2>2 DEF Behind
<1>5. DropTags(A \o R) = Pick(A \o R, K)
  BY DEF DropTags
<1> HIDE DEF K, closed, open
<1>6. PickedInTurn(A, R, K)
  BY <1>2, PickTogether
<1>7. DropTags(A \o R) = Pick(A, KeptInFront(A, closed)) \o Pick(R, KeptBehind(R, open))
  BY <1>3, <1>4, <1>5, <1>6 DEF PickedInTurn
<1> QED BY <1>7 DEF DropsInTurn, closed, open

(* Entities are decoded one by one.                                        *)
Decoded(c) == CASE c = "&lt;" -> "<" [] c = "&gt;" -> ">" [] c = "&amp;lt;" -> "&lt;"
                [] OTHER -> c

DecodesInTurn(A, R) == Unescape(A \o R) = Unescape(A) \o Unescape(R)

LEMMA UnescapeIs ==
  ASSUME NEW s \in Seq(Chars)
  PROVE  /\ Unescape(s) \in Seq(Chars) /\ Len(Unescape(s)) = Len(s)
         /\ \A i \in 1..Len(s) : Unescape(s)[i] = Decoded(s[i])
<1>1. Unescape(s) = [i \in DOMAIN s |-> Decoded(s[i])]
  BY DEF Unescape, Decoded
<1>2. DOMAIN s = 1..Len(s) /\ Len(s) \in Nat
  OBVIOUS
<1>3. \A i \in 1..Len(s) : Unescape(s)[i] = Decoded(s[i])
  BY <1>1, <1>2
<1>4. Unescape(s) \in Seq(Chars)
  BY UnescapeIsText
<1>5. DOMAIN Unescape(s) = 1..Len(s)
  BY <1>1, <1>2
<1>6. Len(Unescape(s)) = Len(s)
  BY <1>2, <1>4, <1>5
<1> QED BY <1>3, <1>4, <1>6

LEMMA DecodedTogether ==
  ASSUME NEW A \in Seq(Chars), NEW R \in Seq(Chars)
  PROVE  DecodesInTurn(A, R)
<1> DEFINE a == Len(A)
           r == Len(R)
           s == A \o R
           U == Unescape(A)
           V == Unescape(R)
           both == U \o V
<1>1. s \in Seq(Chars) /\ Len(s) = a + r /\ a \in Nat /\ r \in Nat
  OBVIOUS
<1>2. (\A i \in 1..a : s[i] = A[i]) /\ \A i \in 1..r : s[a + i] = R[i]
  OBVIOUS
<1> HIDE DEF s
<1>3. U \in Seq(Chars) /\ Len(U) = a /\ \A i \in 1..a : U[i] = Decoded(A[i])
  BY UnescapeIs
<1>4. V \in Seq(Chars) /\ Len(V) = r /\ \A i \in 1..r : V[i] = Decoded(R[i])
  BY UnescapeIs
<1>5. /\ Unescape(s) \in Seq(Chars) /\ Len(Unescape(s)) = a + r
      /\ \A i \in 1..(a + r) : Unescape(s)[i] = Decoded(s[i])
  BY <1>1, UnescapeIs
<1> HIDE DEF U, V, a, r
<1>6. U \in Seq(Chars) /\ V \in Seq(Chars) /\ Len(U) = a /\ Len(V) = r
  BY <1>3, <1>4
<1>b. both \in Seq(Chars) /\ Len(both) = a + r
  BY <1>6
<1>c. (\A i \in 1..a : both[i] = U[i]) /\ \A i \in 1..r : both[a + i] = V[i]
  BY <1>6
<1>7. /\ both \in Seq(Chars) /\ Len(both) = a + r
      /\ \A i \in 1..a : both[i] = U[i]
      /\ \A i \in 1..r : both[a + i] = V[i]
  BY <1>b, <1>c
<1> HIDE DEF both
<1>8. ASSUME NEW i \in 1..(a + r) PROVE Unescape(s)[i] = both[i]
  <2>1. CASE i <= a
    <3>1. i \in 1..a
      BY <1>1, <2>1
    <3> QED BY <1>2, <1>3, <1>5, <1>7, <3>1
  <2>2. CASE i > a
    <3>1. i - a \in 1..r /\ i = a + (i - a)
      BY <1>1, <2>2
    <3>2. s[i] = R[i - a] /\ both[i] = V[i - a]
      BY <1>2, <1>7, <3>1
    <3> QED BY <1>4, <1>5, <3>1, <3>2
  <2>3. i <= a \/ i > a
    BY <1>1
  <2> QED BY <2>1, <2>2, <2>3
<1>9. Unescape(s) = both
  BY <1>5, <1>7, <1>8, SeqEqual
<1> QED BY <1>9 DEF DecodesInTurn, s, both, U, V

(* What a beginning contributes, whatever follows it.                      *)
Gives(A, g) == \A R \in Seq(Chars) : Core(A \o R) = g \o Core(R)
Plain(s) == \A i \in DOMAIN s : ~Opens(s[i])

(* Without breaks nothing is changed.                                      *)
LEMMA NoBreaks ==
  ASSUME NEW A \in Seq(Chars), \A i : ~BreakAt(A, i)
  PROVE  BreaksToLines(A) = A
<1> DEFINE M == Marked(A)
<1>1. NoneBefore(A) = DOMAIN A
  BY DEF NoneBefore
<1>2. BreaksToLines(A) = Pick(M, NoneBefore(A)) /\ M \in Seq(Chars) /\ Len(M) = Len(A)
      /\ \A i \in 1..Len(A) : M[i] = IF BreakAt(A, i) THEN Newline ELSE A[i]
  BY MarkedIs
<1> HIDE DEF M
<1>3. \A i \in 1..Len(A) : M[i] = A[i]
  BY <1>2
<1>4. M = A
  BY <1>2, <1>3, SeqEqual
<1> QED BY <1>1, <1>2, <1>4, PickAll

(* Without "<" there is no break and no tag: a plain text stays in front of*)
(* whatever follows, and gives what its entities stand for.                *)
LEMMA PlainHasNoBreaks ==
  ASSUME NEW A \in Seq(Chars), Plain(A)
  PROVE  /\ BreaksToLines(A) = A
         /\ \A R \in Seq(Chars) : BreaksInTurn(A, R)
<1>1. DOMAIN A = 1..Len(A) /\ Len(A) \in Nat
  OBVIOUS
<1>2. \A i : ~BreakAt(A, i)
  <2> SUFFICES ASSUME NEW i, BreakAt(A, i) PROVE FALSE
    OBVIOUS
  <2>1. i \in 1..(Len(A) - 2) /\ Opens(A[i])
    BY MarkupIs
  <2> QED BY <1>1, <2>1 DEF Plain
<1>3. BreaksToLines(A) = A
  BY <1>2, NoBreaks
<1>4. ASSUME NEW R \in Seq(Chars) PROVE BreaksInTurn(A, R)
  <2> DEFINE s == A \o R
  <2>1. \A i \in 1..Len(A) : s[i] = A[i]
    OBVIOUS
  <2>a. Len(s) \in Nat
    OBVIOUS
  <2> HIDE DEF s
  <2>2. ASSUME NEW i \in {Len(A), Len(A) - 1} PROVE ~BreakAt(s, i)
    <3> SUFFICES ASSUME BreakAt(s, i) PROVE FALSE
      OBVIOUS
    <3>1. i \in 1..(Len(s) - 2) /\ Opens(s[i])
      BY MarkupIs
    <3>a. i = Len(A) \/ i = Len(A) - 1
      OBVIOUS
    <3>b. i >= 1
      BY <2>a, <3>1
    <3>2. i \in 1..Len(A)
      BY <1>1, <3>a, <3>b
    <3> QED BY <1>1, <2>1, <3>1, <3>2 DEF Plain
  <2>3. NoneAcross(A, R)
    BY <2>2 DEF NoneAcross, s
  <2> QED BY <2>3, BreaksTogether
<1> QED BY <1>3, <1>4

LEMMA PlainHasNoTags ==
  ASSUME NEW A \in Seq(Chars), Plain(A), NEW closed \in BOOLEAN
  PROVE  /\ \A i \in 1..Len(A) : ~InTag(A, i) /\ ~OpenBehind(A, i)
         /\ ~OpenBehind(A, Len(A))
         /\ KeptInFront(A, closed) = DOMAIN A
<1>1. DOMAIN A = 1..Len(A) /\ Len(A) \in Nat
  OBVIOUS
<1>2. ASSUME NEW i \in 1..Len(A) PROVE ~InTag(A, i) /\ ~OpenBehind(A, i)
  <2>1. \A j \in 1..i : ~Opens(A[j])
    BY <1>1 DEF Plain
  <2> QED BY <2>1, MarkupIs DEF OpenBehind
<1>3. ~OpenBehind(A, Len(A))
  BY <1>1 DEF OpenBehind, Plain
<1>4. KeptInFront(A, closed) = DOMAIN A
  BY <1>1, <1>2 DEF KeptInFront
<1> QED BY <1>2, <1>3, <1>4

(* Where nothing is open, what follows loses its own tags only.            *)
LEMMA KeptUnlessInTag ==
  ASSUME NEW R \in Seq(Chars)
  PROVE  Pick(R, KeptBehind(R, FALSE)) = DropTags(R) /\ Pick(R, KeptInFront(R, FALSE)) = DropTags(R)
<1>1. KeptBehind(R, FALSE) = {i \in DOMAIN R : ~InTag(R, i)}
  BY DEF KeptBehind
<1>2. KeptInFront(R, FALSE) = {i \in DOMAIN R : ~InTag(R, i)}
  BY DEF KeptInFront
<1>3. DropTags(R) = Pick(R, {i \in DOMAIN R : ~InTag(R, i)})
  BY DEF DropTags
<1> QED BY <1>1, <1>2, <1>3

LEMMA PlainStays ==
  ASSUME NEW A \in Seq(Chars), Plain(A), NEW Q \in Seq(Chars)
  PROVE  DropTags(A \o Q) = A \o DropTags(Q)
<1>1. DropTags(A \o Q) = Pick(A, KeptInFront(A, HasEnd(Q)))
                         \o Pick(Q, KeptBehind(Q, OpenBehind(A, Len(A))))
  BY TagsTogether DEF DropsInTurn
<1>2. HasEnd(Q) \in BOOLEAN
  BY DEF HasEnd
<1>3. KeptInFront(A, HasEnd(Q)) = DOMAIN A /\ ~OpenBehind(A, Len(A))
  BY <1>2, PlainHasNoTags
<1>4. Pick(A, KeptInFront(A, HasEnd(Q))) = A
  BY <1>3, PickAll
<1>5. OpenBehind(A, Len(A)) = FALSE
  BY <1>3 DEF OpenBehind
<1>6. Pick(Q, KeptBehind(Q, OpenBehind(A, Len(A)))) = DropTags(Q)
  BY <1>5, KeptUnlessInTag
<1> QED BY <1>1, <1>4, <1>6

LEMMA PlainGives ==
  ASSUME NEW A \in Seq(Chars), Plain(A)
  PROVE  Gives(A, Unescape(A))
<1> SUFFICES ASSUME NEW R \in Seq(Chars) PROVE Core(A \o R) = Unescape(A) \o Core(R)
  BY DEF Gives
<1> DEFINE Q == BreaksToLines(R)
           D == DropTags(Q)
<1>1. Q \in Seq(Chars)
  BY BreaksToLinesIsText
<1>2. BreaksToLines(A \o R) = A \o Q
  <2>1. BreaksToLines(A) = A
    BY PlainHasNoBreaks
  <2>2. BreaksInTurn(A, R)
    BY PlainHasNoBreaks
  <2> QED BY <2>1, <2>2 DEF BreaksInTurn
<1> HIDE DEF Q
<1>3. DropTags(A \o Q) = A \o D
  BY <1>1, PlainStays
<1>4. D \in Seq(Chars)
  BY <1>1, DropTagsIsText
<1> HIDE DEF D
<1>5. Unescape(A \o D) = Unescape(A) \o Unescape(D)
  BY <1>4, DecodedTogether DEF DecodesInTurn
<1> QED BY <1>2, <1>3, <1>5 DEF Core, D, Q

(* A single character is decoded to a single one.                          *)
LEMMA DecodedOne ==
  ASSUME NEW c \in Chars
  PROVE  Unescape(<<c>>) = <<Decoded(c)>>
<1> DEFINE one == <<c>>
           d == <<Decoded(c)>>
           U == Unescape(one)
<1>1. one \in Seq(Chars) /\ Len(one) = 1 /\ one[1] = c
  OBVIOUS
<1> HIDE DEF one
<1>2. U \in Seq(Chars) /\ Len(U) = 1 /\ U[1] = Decoded(c)
  BY <1>1, UnescapeIs
<1> HIDE DEF U
<1>3. U = <<U[1]>>
  BY <1>2
<1> QED BY <1>2, <1>3 DEF U, one

(* A tag contributes nothing, or a new line.                               *)
IsTag(A) == /\ Len(A) = 3 /\ Opens(A[1]) /\ Closes(A[3])
            /\ ~Opens(A[2]) /\ ~Closes(A[2])

LEMMA TagGives ==
  ASSUME NEW A \in Seq(Chars), IsTag(A)
  PROVE  Gives(A, IF Breaks(A[2]) THEN <<Newline>> ELSE <<>>)
<1> SUFFICES ASSUME NEW R \in Seq(Chars)
             PROVE  Core(A \o R) = (IF Breaks(A[2]) THEN <<Newline>> ELSE <<>>) \o Core(R)
  BY DEF Gives
<1> DEFINE Q == BreaksToLines(R)
           D == DropTags(Q)
<1>1. /\ Len(A) = 3 /\ Opens(A[1]) /\ Closes(A[3])
      /\ ~Opens(A[2]) /\ ~Closes(A[2]) /\ ~Opens(A[3]) /\ ~Closes(A[1])
  BY MarksDiffer DEF IsTag
<1>a. DOMAIN A = 1..3
  BY <1>1
<1>b. Q \in Seq(Chars)
  BY BreaksToLinesIsText
<1>2. BreaksToLines(A \o R) = BreaksToLines(A) \o Q
  <2> DEFINE s == A \o R
  <2>a. \A i \in 1..Len(A) : s[i] = A[i]
    OBVIOUS
  <2>1. \A i \in 1..3 : s[i] = A[i]
    BY <1>1, <2>a
  <2> HIDE DEF s
  <2>2. ~Opens(s[3]) /\ ~Opens(s[2])
    BY <1>1, <2>1
  <2>3. ~BreakAt(s, 3) /\ ~BreakAt(s, 2)
    BY <2>2, MarkupIs
  <2>4. NoneAcross(A, R)
    BY <1>1, <2>3 DEF NoneAcross, s
  <2> QED BY <2>4, BreaksTogether DEF BreaksInTurn
<1> HIDE DEF Q
<1>c. D \in Seq(Chars)
  BY <1>b, DropTagsIsText
<1>3. CASE Breaks(A[2])
  <2> DEFINE M == Marked(A)
             line == <<Newline>>
  <2>1. \A i : BreakAt(A, i) <=> i = 1
    <3>a. 1 \in 1..(Len(A) - 2) /\ Opens(A[1]) /\ Breaks(A[1 + 1]) /\ Closes(A[1 + 2])
      BY <1>1, <1>3
    <3>1. BreakAt(A, 1)
      BY <3>a, MarkupIs
    <3>2. ASSUME NEW i, BreakAt(A, i) PROVE i = 1
      <4>1. i \in 1..(3 - 2)
        BY <1>1, <3>2, MarkupIs
      <4> QED BY <4>1
    <3> QED BY <3>1, <3>2
  <2>2. NoneBefore(A) = 1..1
    <3>1. \A i \in 1..3 : i \in NoneBefore(A) <=> i = 1
      BY <1>a, <2>1 DEF NoneBefore
    <3>2. \A i \in NoneBefore(A) : i \in 1..3
      BY <1>a DEF NoneBefore
    <3> QED BY <3>1, <3>2
  <2>3. BreaksToLines(A) = Pick(M, 1..1) /\ M \in Seq(Chars) /\ Len(M) = 3
        /\ \A i \in 1..3 : M[i] = IF BreakAt(A, i) THEN Newline ELSE A[i]
    BY <1>1, <2>2, MarkedIs
  <2> HIDE DEF M
  <2>4. M[1] = Newline
    BY <2>1, <2>3
  <2>b. 1 \in Nat /\ 1 <= 1 /\ 1 <= Len(M) /\ 1 <= 1 + 1
    BY <2>3
  <2>5. Pick(M, 1..1) = SubSeq(M, 1, 1)
    BY <2>3, <2>b, PickOfRun
  <2>6. SubSeq(M, 1, 1) = <<M[1]>>
    BY <2>3, SliceOfOne
  <2>7. BreaksToLines(A) = line
    BY <2>3, <2>4, <2>5, <2>6
  <2>8. line \in Seq(Chars) /\ Plain(line)
    <3>1. ~Opens(Newline)
      BY MarksDiffer DEF IsSpace
    <3> QED BY <3>1, Literals DEF Plain
  <2>9. Unescape(line) = line
    <3>1. Decoded(Newline) = Newline
      BY Zenon DEF Decoded, Newline
    <3> QED BY <3>1, DecodedOne, Literals
  <2> HIDE DEF line
  <2>10. DropTags(line \o Q) = line \o D
    BY <1>b, <2>8, PlainStays
  <2> HIDE DEF D
  <2>11. Unescape(line \o D) = line \o Unescape(D)
    BY <1>c, <2>8, <2>9, DecodedTogether DEF DecodesInTurn
  <2>12. Core(A \o R) = line \o Core(R)
    BY <1>2, <2>7, <2>10, <2>11 DEF Core, D, Q
  <2> QED BY <1>3, <2>12 DEF line
<1>4. CASE ~Breaks(A[2])
  <2>1. ASSUME NEW i, BreakAt(A, i) PROVE FALSE
    <3>1. i \in 1..(3 - 2) /\ Breaks(A[i + 1])
      BY <1>1, <2>1, MarkupIs
    <3> QED BY <1>4, <3>1
  <2>2. BreaksToLines(A) = A
    BY <2>1, NoBreaks
  <2>3. \A i \in 1..3 : InTag(A, i)
    <3>1. \A m \in 1..(3 - 1) : ~Closes(A[m])
      BY <1>1
    <3>2. \A i \in 1..3 : 1 \in 1..i /\ 3 \in i..3
      OBVIOUS
    <3> QED BY <1>1, <3>1, <3>2, MarkupIs
  <2>4. KeptInFront(A, HasEnd(Q)) = {}
    BY <1>a, <2>3 DEF KeptInFront
  <2>5. OpenBehind(A, Len(A)) = FALSE
    <3> SUFFICES ASSUME OpenBehind(A, 3) PROVE FALSE
      BY <1>1 DEF OpenBehind
    <3>1. PICK j \in 1..3 : \A m \in j..3 : ~Closes(A[m])
      BY <1>1 DEF OpenBehind
    <3>2. 3 \in j..3
      OBVIOUS
    <3> QED BY <1>1, <3>1, <3>2
  <2>6. DropTags(A \o Q) = Pick(A, {}) \o Pick(Q, KeptBehind(Q, FALSE))
    BY <1>b, <2>4, <2>5, TagsTogether DEF DropsInTurn
  <2>7. Pick(A, {}) = <<>> /\ Pick(Q, KeptBehind(Q, FALSE)) = D
    BY <1>b, PickNothing, KeptUnlessInTag
  <2> HIDE DEF D
  <2>8. <<>> \o D = D
    BY <1>c
  <2>9. Core(A \o R) = Core(R)
    BY <1>2, <2>2, <2>6, <2>7, <2>8 DEF Core, D, Q
  <2>10. Core(R) \in Seq(Chars)
    BY HashedWords
  <2>11. <<>> \o Core(R) = Core(R)
    BY <2>10
  <2> QED BY <1>4, <2>9, <2>11
<1> QED BY <1>3, <1>4

(* Nothing is made of nothing.                                             *)
LEMMA CoreOfEmpty == Core(<<>>) = <<>>
<1>1. Plain(<<>>) /\ <<>> \in Seq(Chars)
  BY DEF Plain
<1>2. BreaksToLines(<<>>) = <<>>
  BY <1>1, PlainHasNoBreaks
<1>3. DropTags(<<>>) = <<>>
  <2>1. {i \in DOMAIN <<>> : ~InTag(<<>>, i)} = {}
    OBVIOUS
  <2>2. DropTags(<<>>) = Pick(<<>>, {})
    BY <2>1 DEF DropTags
  <2> QED BY <1>1, <2>2, PickNothing
<1>4. Unescape(<<>>) = <<>>
  <2> DEFINE U == Unescape(<<>>)
  <2>1. U \in Seq(Chars) /\ Len(U) = Len(<<>>)
    BY <1>1, UnescapeIs
  <2> HIDE DEF U
  <2>2. U = <<>>
    BY <2>1
  <2> QED BY <2>2 DEF U
<1> QED BY <1>2, <1>3, <1>4 DEF Core

(***************************************************************************)
(* Through the HTML of an instance and back.                               *)
(***************************************************************************)
(* A text as it is typed: "<", ">" and "&lt;" may be in it; "&gt;" and     *)
(* "&amp;lt;" are here only what an instance makes of ">" and "&lt;".      *)
Typed(s) == \A i \in DOMAIN s : s[i] \notin {"&gt;", "&amp;lt;"}

(* What an instance writes for a character is decoded to that character.   *)
LEMMA EntityAndBack ==
  ASSUME NEW c \in Chars, c \notin {"&gt;", "&amp;lt;"}
  PROVE  ~Opens(Entity(c)) /\ Decoded(Entity(c)) = c
<1>1. CASE c = "<"
  <2>1. Entity(c) = "&lt;"
    BY <1>1, Zenon DEF Entity
  <2>2. Decoded("&lt;") = "<" /\ ~Opens("&lt;")
    BY Zenon DEF Decoded, Opens
  <2> QED BY <1>1, <2>1, <2>2
<1>2. CASE c = ">"
  <2>1. Entity(c) = "&gt;"
    BY <1>2, Zenon DEF Entity
  <2>2. Decoded("&gt;") = ">" /\ ~Opens("&gt;")
    BY Zenon DEF Decoded, Opens
  <2> QED BY <1>2, <2>1, <2>2
<1>3. CASE c = "&lt;"
  <2>1. Entity(c) = "&amp;lt;"
    BY <1>3, Zenon DEF Entity
  <2>2. Decoded("&amp;lt;") = "&lt;" /\ ~Opens("&amp;lt;")
    BY Zenon DEF Decoded, Opens
  <2> QED BY <1>3, <2>1, <2>2
<1>4. CASE c # "<" /\ c # ">" /\ c # "&lt;"
  <2>1. Entity(c) = c
    BY <1>4, Zenon DEF Entity
  <2>2. Decoded(c) = c /\ ~Opens(c)
    BY <1>4, Zenon DEF Decoded, Opens
  <2> QED BY <2>1, <2>2
<1> QED BY <1>1, <1>2, <1>3, <1>4

(* The HTML of one character, and what is left of it: of several new lines *)
(* one behind the other only the first.                                    *)
LineAt(s, i) == i \in DOMAIN s /\ s[i] = Newline
Html(s, i) == IF ~LineAt(s, i) THEN <<Entity(s[i])>>
              ELSE IF LineAt(s, i - 1) THEN <<>>
              ELSE IF LineAt(s, i + 1) THEN <<"<", "/p", ">", "<", "p", ">">>
              ELSE <<"<", "br", ">">>
HtmlPieces(s) == [i \in DOMAIN s |-> Html(s, i)]
OfHtml(s, i) == IF LineAt(s, i) /\ LineAt(s, i - 1) THEN <<>> ELSE <<s[i]>>

(* Beginnings add up.                                                      *)
LEMMA GivesTogether ==
  ASSUME NEW A \in Seq(Chars), NEW B \in Seq(Chars), NEW g \in Seq(Chars), NEW h \in Seq(Chars),
         Gives(A, g), Gives(B, h)
  PROVE  Gives(A \o B, g \o h)
<1> SUFFICES ASSUME NEW R \in Seq(Chars) PROVE Core((A \o B) \o R) = (g \o h) \o Core(R)
  BY DEF Gives
<1>1. \A x, y, z \in Seq(Chars) : (x \o y) \o z = x \o (y \o z)
  OBVIOUS
<1>2. B \o R \in Seq(Chars)
  OBVIOUS
<1>3. Core(A \o (B \o R)) = g \o Core(B \o R) /\ Core(B \o R) = h \o Core(R)
  BY <1>2 DEF Gives
<1> DEFINE C == Core(R)
<1>4. C \in Seq(Chars)
  BY HashedWords
<1>5. Core(A \o (B \o R)) = g \o (h \o C)
  BY <1>3
<1> HIDE DEF C
<1>6. (A \o B) \o R = A \o (B \o R)
  OBVIOUS
<1>7. (g \o h) \o C = g \o (h \o C)
  BY <1>4
<1> QED BY <1>5, <1>6, <1>7 DEF C

(* The tags an instance writes.                                            *)
LEMMA TheTags ==
  /\ <<"<", "p", ">">> \in Seq(Chars) /\ Gives(<<"<", "p", ">">>, <<>>)
  /\ <<"<", "br", ">">> \in Seq(Chars) /\ Gives(<<"<", "br", ">">>, <<Newline>>)
  /\ <<"<", "/p", ">">> \in Seq(Chars) /\ Gives(<<"<", "/p", ">">>, <<Newline>>)
<1>1. ASSUME NEW x \in {"p", "br", "/p"}
      PROVE  /\ <<"<", x, ">">> \in Seq(Chars)
             /\ Gives(<<"<", x, ">">>, IF Breaks(x) THEN <<Newline>> ELSE <<>>)
  <2> DEFINE A == <<"<", x, ">">>
  <2>1. x \in Chars /\ "<" \in Chars /\ ">" \in Chars
    BY Literals
  <2>2. A \in Seq(Chars) /\ Len(A) = 3 /\ A[1] = "<" /\ A[2] = x /\ A[3] = ">"
    BY <2>1
  <2> HIDE DEF A
  <2>3. Opens("<") /\ Closes(">") /\ ~Opens(x) /\ ~Closes(x)
    BY Zenon DEF Opens, Closes
  <2>4. IsTag(A)
    BY <2>2, <2>3 DEF IsTag
  <2>5. Gives(A, IF Breaks(x) THEN <<Newline>> ELSE <<>>)
    BY <2>2, <2>4, TagGives
  <2> QED BY <2>2, <2>5 DEF A
<1>2. ~Breaks("p") /\ Breaks("br") /\ Breaks("/p")
  BY Zenon DEF Breaks
<1> QED BY <1>1, <1>2

(* One character's HTML gives the character, or nothing.                   *)
LEMMA HtmlGives ==
  ASSUME NEW s \in Seq(Chars), Typed(s), NEW i \in DOMAIN s
  PROVE  /\ Html(s, i) \in Seq(Chars) /\ OfHtml(s, i) \in Seq(Chars)
         /\ Gives(Html(s, i), OfHtml(s, i))
<1>a. s[i] \in Chars
  OBVIOUS
<1>b. s[i] \notin {"&gt;", "&amp;lt;"}
  BY Zenon DEF Typed
<1>1. s[i] \in Chars /\ s[i] \notin {"&gt;", "&amp;lt;"}
  BY <1>a, <1>b
<1>c. <<s[i]>> \in Seq(Chars) /\ <<>> \in Seq(Chars)
  BY <1>a
<1>2. OfHtml(s, i) \in Seq(Chars)
  BY <1>c DEF OfHtml
<1>3. CASE ~LineAt(s, i)
  <2> DEFINE c == Entity(s[i])
             A == <<c>>
  <2>1. c \in Chars /\ ~Opens(c) /\ Decoded(c) = s[i]
    BY <1>1, EntityIsChar, EntityAndBack
  <2> HIDE DEF c
  <2>2. A \in Seq(Chars) /\ Plain(A)
    BY <2>1 DEF Plain
  <2>3. Unescape(A) = <<s[i]>>
    BY <2>1, DecodedOne
  <2> HIDE DEF A
  <2>4. Gives(A, <<s[i]>>)
    BY <2>2, <2>3, PlainGives
  <2>5. Html(s, i) = A /\ OfHtml(s, i) = <<s[i]>>
    BY <1>3 DEF Html, OfHtml, A, c
  <2> QED BY <1>2, <2>2, <2>4, <2>5
<1>4. CASE LineAt(s, i) /\ LineAt(s, i - 1)
  <2>1. Html(s, i) = <<>> /\ OfHtml(s, i) = <<>>
    BY <1>4 DEF Html, OfHtml
  <2>2. ASSUME NEW R \in Seq(Chars) PROVE Core(<<>> \o R) = <<>> \o Core(R)
    <3>1. <<>> \o R = R /\ Core(R) \in Seq(Chars)
      BY HashedWords
    <3>2. <<>> \o Core(R) = Core(R)
      BY <3>1
    <3> QED BY <3>1, <3>2
  <2>3. Gives(<<>>, <<>>)
    BY <2>2 DEF Gives
  <2>4. <<>> \in Seq(Chars)
    OBVIOUS
  <2> QED BY <2>1, <2>3, <2>4
<1>5. CASE LineAt(s, i) /\ ~LineAt(s, i - 1)
  <2>1. OfHtml(s, i) = <<Newline>>
    BY <1>5 DEF OfHtml, LineAt
  <2>2. CASE LineAt(s, i + 1)
    <3> DEFINE A == <<"<", "/p", ">">>
               B == <<"<", "p", ">">>
               g == <<Newline>>
               h == <<>>
    <3>1. Html(s, i) = A \o B
      <4>1. Html(s, i) = <<"<", "/p", ">", "<", "p", ">">>
        BY <1>5, <2>2 DEF Html
      <4> QED BY <4>1
    <3>2. A \in Seq(Chars) /\ B \in Seq(Chars) /\ Gives(A, g) /\ Gives(B, h)
      BY TheTags
    <3>3. g \in Seq(Chars) /\ h \in Seq(Chars) /\ g \o h = g
      BY Literals
    <3> HIDE DEF A, B, g, h
    <3>4. Gives(A \o B, g \o h)
      BY <3>2, <3>3, GivesTogether
    <3>5. A \o B \in Seq(Chars)
      BY <3>2
    <3> QED BY <1>2, <2>1, <3>1, <3>3, <3>4, <3>5 DEF g
  <2>3. CASE ~LineAt(s, i + 1)
    <3>1. Html(s, i) = <<"<", "br", ">">>
      BY <1>5, <2>3 DEF Html
    <3> QED BY <1>2, <2>1, <3>1, TheTags
  <2> QED BY <2>2, <2>3
<1> QED BY <1>3, <1>4, <1>5

(* The HTML of a text is one piece for each character, in a paragraph.     *)
LEMMA HtmlOfText ==
  ASSUME NEW s \in Seq(Chars), Typed(s)
  PROVE  /\ HtmlPieces(s) \in Seq(Seq(Chars)) /\ Len(HtmlPieces(s)) = Len(s)
         /\ \A i \in 1..Len(s) : HtmlPieces(s)[i] = Html(s, i)
         /\ Rendered(s) = (<<"<", "p", ">">> \o Joined(HtmlPieces(s))) \o <<"<", "/p", ">">>
<1> DEFINE pieces == HtmlPieces(s)
<1>1. DOMAIN s = 1..Len(s)
  OBVIOUS
<1>2. \A i \in DOMAIN s : pieces[i] = Html(s, i)
  BY DEF HtmlPieces
<1>3. \A i \in DOMAIN s : pieces[i] \in Seq(Chars)
  BY <1>2, HtmlGives
<1>4. DOMAIN pieces = DOMAIN s /\ pieces = [i \in DOMAIN s |-> pieces[i]]
  BY DEF HtmlPieces
<1> HIDE DEF pieces
<1>5. pieces \in Seq(Seq(Chars)) /\ Len(pieces) = Len(s)
  BY <1>3, <1>4, MappedIsText
<1>6. Rendered(s) = (<<"<", "p", ">">> \o Joined(HtmlPieces(s))) \o <<"<", "/p", ">">>
  BY DEF Rendered, HtmlPieces, Html, LineAt
<1> QED BY <1>1, <1>2, <1>5, <1>6 DEF pieces

(* What an instance makes of a text keeps its words: replaced from the end *)
(* backwards, each piece of HTML by the character it stands for.           *)
LEMMA RenderedWords ==
  ASSUME NEW s \in Seq(Chars), Typed(s)
  PROVE  Collapse(Core(Rendered(s))) = Collapse(s)
<1> DEFINE n == Len(s)
           pieces == HtmlPieces(s)
           opening == <<"<", "p", ">">>
           closing == <<"<", "/p", ">">>
           line == <<Newline>>
           start(k) == SubSeq(s, 1, k)
<1>1. /\ pieces \in Seq(Seq(Chars)) /\ Len(pieces) = n
      /\ \A i \in 1..n : pieces[i] = Html(s, i)
      /\ Rendered(s) = (opening \o Joined(pieces)) \o closing
  BY HtmlOfText
<1>2. n \in Nat /\ DOMAIN s = 1..n
  OBVIOUS
<1>3. /\ opening \in Seq(Chars) /\ closing \in Seq(Chars) /\ line \in Seq(Chars)
      /\ Gives(opening, <<>>) /\ Gives(closing, line)
  BY TheTags, Literals
<1>4. \A x, y, z \in Seq(Chars) : (x \o y) \o z = x \o (y \o z)
  OBVIOUS
<1>5. /\ \A k \in 0..n : start(k) \in Seq(Chars) /\ Len(start(k)) = k
      /\ \A k \in 1..n : s[k] \in Chars /\ start(k) = start(k - 1) \o <<s[k]>>
      /\ start(0) = <<>> /\ start(n) = s
  <2>1. \A k \in 0..n : start(k) \in Seq(Chars) /\ Len(start(k)) = k
    OBVIOUS
  <2>2. \A k \in 1..n : s[k] \in Chars /\ start(k) = start(k - 1) \o <<s[k]>>
    OBVIOUS
  <2>3. start(0) = <<>> /\ start(n) = s
    OBVIOUS
  <2> QED BY <2>1, <2>2, <2>3
<1>6. ASSUME NEW k \in 1..n, k - 1 \in 1..n PROVE start(k - 1)[k - 1] = s[k - 1]
  <2>1. k - 1 \in 1..(k - 1) /\ k - 1 \in 0..n
    BY <1>2, <1>6
  <2> QED BY <1>2, <2>1
<1>7. PICK r \in [0..n -> Seq(Chars)] : RestOf(pieces, r)
  BY <1>1, JoinedBehind
<1> HIDE DEF pieces, opening, closing, start, n
<1> DEFINE w(k) == Core(r[k] \o closing)
<1>8. \A k \in 0..n : r[k] \in Seq(Chars) /\ w(k) \in Seq(Chars)
  <2> SUFFICES ASSUME NEW k \in 0..n PROVE r[k] \in Seq(Chars) /\ w(k) \in Seq(Chars)
    OBVIOUS
  <2>1. r[k] \in Seq(Chars)
    OBVIOUS
  <2>2. r[k] \o closing \in Seq(Chars)
    BY <1>3, <2>1
  <2> QED BY <2>1, <2>2, HashedWords
<1>9. \A k \in 1..n : w(k - 1) = OfHtml(s, k) \o w(k) /\ OfHtml(s, k) \in Seq(Chars)
  <2> SUFFICES ASSUME NEW k \in 1..n
               PROVE  w(k - 1) = OfHtml(s, k) \o w(k) /\ OfHtml(s, k) \in Seq(Chars)
    OBVIOUS
  <2> DEFINE A == Html(s, k)
             g == OfHtml(s, k)
  <2>1. A \in Seq(Chars) /\ g \in Seq(Chars) /\ Gives(A, g)
    BY <1>2, HtmlGives
  <2>2. r[k - 1] = A \o r[k]
    BY <1>1, <1>7 DEF RestOf
  <2>3. k \in 0..n /\ r[k] \in Seq(Chars)
    BY <1>2, <1>8
  <2> HIDE DEF A, g
  <2>4. (A \o r[k]) \o closing = A \o (r[k] \o closing)
    <3> DEFINE R == r[k]
    <3>1. closing \in Seq(Chars) /\ A \in Seq(Chars) /\ R \in Seq(Chars)
      BY <1>3, <2>1, <2>3
    <3> HIDE DEF R
    <3>2. (A \o R) \o closing = A \o (R \o closing)
      BY <1>4, <3>1
    <3> QED BY <3>2 DEF R
  <2>5. r[k] \o closing \in Seq(Chars)
    BY <1>3, <2>3
  <2>6. Core(A \o (r[k] \o closing)) = g \o Core(r[k] \o closing)
    BY <2>1, <2>5 DEF Gives
  <2> QED BY <2>1, <2>2, <2>4, <2>6 DEF g
<1>10. w(n) = line
  <2>1. r[n] = <<>>
    BY <1>1, <1>7 DEF RestOf
  <2>2. <<>> \o closing = closing /\ closing \o <<>> = closing
    BY <1>3
  <2>a. Gives(closing, line) /\ <<>> \in Seq(Chars)
    BY <1>3
  <2> HIDE DEF line
  <2>3. Core(closing \o <<>>) = line \o Core(<<>>)
    BY <2>a DEF Gives
  <2>4. Core(<<>>) = <<>>
    BY CoreOfEmpty
  <2>5. line \o <<>> = line
    BY <1>3
  <2> QED BY <2>1, <2>2, <2>3, <2>4, <2>5
<1> HIDE DEF w, line
<1> DEFINE same == {k \in 0..n : Collapse(start(n - k) \o w(n - k)) = Collapse(s)}
<1>11. 0 \in same
  <2>1. AllBlank(line)
    BY DEF AllBlank, IsSpace, line
  <2>2. Collapse(s \o line) = Collapse(s)
    BY <1>3, <2>1, BlanksBehind, Literals
  <2>3. n - 0 = n /\ 0 \in 0..n
    BY <1>2
  <2> QED BY <1>5, <1>10, <2>2, <2>3
<1>12. ASSUME NEW j \in 1..n, j - 1 \in same PROVE j \in same
  <2>1. PICK k \in 1..n : n - (j - 1) = k /\ n - j = k - 1
    <3>1. n - (j - 1) \in 1..n /\ n - j = (n - (j - 1)) - 1
      BY <1>2
    <3> QED BY <3>1
  <2> DEFINE W == start(k - 1)
             U == w(k)
             b == s[k]
             g == OfHtml(s, k)
  <2>2. k - 1 \in 0..n /\ k \in 0..n
    BY <1>2
  <2>3. /\ W \in Seq(Chars) /\ Len(W) = k - 1 /\ b \in Chars /\ start(k) = W \o <<b>>
        /\ U \in Seq(Chars) /\ g \in Seq(Chars) /\ w(k - 1) = g \o U
    BY <1>5, <1>8, <1>9, <2>2
  <2>4. Collapse((W \o <<b>>) \o U) = Collapse(s)
    BY <1>12, <2>1, <2>3
  <2>5. Collapse(W \o (g \o U)) = Collapse((W \o <<b>>) \o U)
    <3>1. CASE LineAt(s, k) /\ LineAt(s, k - 1)
      <4>1. g = <<>>
        BY <3>1 DEF OfHtml
      <4>2. k - 1 \in 1..n /\ b = Newline /\ s[k - 1] = Newline
        BY <1>2, <3>1 DEF LineAt
      <4>3. W[k - 1] = Newline
        BY <1>6, <4>2
      <4> HIDE DEF W, U, b, g
      <4>4. AtGap(W) /\ IsSpace(b)
        BY <2>3, <4>2, <4>3 DEF AtGap, IsSpace
      <4>5. Collapse((W \o <<b>>) \o U) = Collapse(W \o U)
        BY <2>3, <4>4, BlankCountsOnce, Literals
      <4>6. g \o U = U
        BY <2>3, <4>1
      <4> QED BY <4>5, <4>6
    <3>2. CASE ~(LineAt(s, k) /\ LineAt(s, k - 1))
      <4>1. g = <<b>>
        BY <3>2 DEF OfHtml
      <4> HIDE DEF W, U, b, g
      <4>2. <<b>> \in Seq(Chars)
        BY <2>3
      <4>3. (W \o <<b>>) \o U = W \o (<<b>> \o U)
        BY <1>4, <2>3, <4>2
      <4> QED BY <4>1, <4>3
    <3> QED BY <3>1, <3>2
  <2>6. Collapse(start(n - j) \o w(n - j)) = Collapse(s)
    BY <2>1, <2>3, <2>4, <2>5
  <2>7. j \in 0..n
    BY <1>2
  <2> QED BY <2>6, <2>7
<1>13. n \in same
  <2>1. \A k \in 0..n : k \in same
    <3> HIDE DEF same
    <3> QED BY <1>2, <1>11, <1>12, Counting
  <2>2. n \in 0..n
    BY <1>2
  <2> QED BY <2>1, <2>2
<1>14. Collapse(w(0)) = Collapse(s)
  <2>1. n - n = 0 /\ 0 \in 0..n
    BY <1>2
  <2>2. <<>> \o w(0) = w(0)
    BY <1>8, <2>1
  <2> QED BY <1>5, <1>13, <2>1, <2>2
<1>15. Core(Rendered(s)) = w(0)
  <2> DEFINE J == Joined(pieces)
  <2>1. 0 \in 0..n
    BY <1>2
  <2>2. J = r[0] /\ J \in Seq(Chars)
    BY <1>7, <1>8, <2>1 DEF RestOf
  <2> HIDE DEF J
  <2>a. opening \in Seq(Chars) /\ closing \in Seq(Chars) /\ J \in Seq(Chars)
    BY <1>3, <2>2
  <2>3. (opening \o J) \o closing = opening \o (J \o closing) /\ J \o closing \in Seq(Chars)
    BY <2>a
  <2>4. Core(opening \o (J \o closing)) = <<>> \o Core(J \o closing)
    BY <1>3, <2>3 DEF Gives
  <2>5. w(0) = Core(J \o closing) /\ <<>> \o w(0) = w(0)
    BY <1>8, <2>1, <2>2 DEF w
  <2>6. Rendered(s) = (opening \o J) \o closing
    BY <1>1 DEF J
  <2> QED BY <2>3, <2>4, <2>5, <2>6
<1> QED BY <1>14, <1>15

(* StripHTML undoes what an instance did to the words.                     *)
LEMMA StrippedWords ==
  ASSUME NEW s \in Seq(Chars), Typed(s)
  PROVE  Collapse(StripHTML(Rendered(s))) = Collapse(s)
<1>1. Rendered(s) \in Seq(Chars)
  BY RenderedIsText
<1>2. Collapse(StripHTML(Rendered(s))) = Collapse(Core(Rendered(s)))
  BY <1>1, HashedWords
<1> QED BY <1>2, RenderedWords

(* Of a text without anything like a tag the hash has all the words.       *)
Untagged(s) == \A i \in DOMAIN s : s[i] \notin {"<", "&lt;"}

LEMMA PlainWords ==
  ASSUME NEW s \in Seq(Chars), Typed(s), Untagged(s)
  PROVE  Normalize(s) = Collapse(s)
<1>1. Plain(s)
  BY Zenon DEF Plain, Opens, Untagged
<1>2. DOMAIN s = 1..Len(s)
  OBVIOUS
<1>3. ASSUME NEW i \in 1..Len(s) PROVE Decoded(s[i]) = s[i]
  <2>1. s[i] \notin {"<", "&lt;"} /\ s[i] \notin {"&gt;", "&amp;lt;"}
    BY <1>2 DEF Typed, Untagged
  <2> QED BY <2>1, Zenon DEF Decoded
<1>4. Unescape(s) = s
  <2> DEFINE U == Unescape(s)
  <2>1. U \in Seq(Chars) /\ Len(U) = Len(s) /\ \A i \in 1..Len(s) : U[i] = Decoded(s[i])
    BY UnescapeIs
  <2> HIDE DEF U
  <2>2. \A i \in 1..Len(s) : U[i] = s[i]
    BY <1>3, <2>1
  <2>3. U = s
    BY <2>1, <2>2, SeqEqual
  <2> QED BY <2>3 DEF U
<1>a. Gives(s, Unescape(s))
  BY <1>1, PlainGives
<1>5. Gives(s, s) /\ <<>> \in Seq(Chars)
  BY <1>4, <1>a
<1>6. Core(s \o <<>>) = s \o Core(<<>>)
  BY <1>5 DEF Gives
<1>7. s \o <<>> = s
  OBVIOUS
<1>8. Core(s) = s
  BY <1>6, <1>7, CoreOfEmpty
<1> QED BY <1>8, HashedWords

(***************************************************************************)
(* The hash and white space.                                               *)
(***************************************************************************)
(* Blanks are no markup.                                                   *)
LEMMA BlanksStay ==
  ASSUME NEW B \in Seq(Chars), AllBlank(B)
  PROVE  Plain(B) /\ (\A i \in DOMAIN B : ~Closes(B[i])) /\ Unescape(B) = B
<1>1. DOMAIN B = 1..Len(B)
  OBVIOUS
<1>2. \A i \in DOMAIN B : ~Opens(B[i]) /\ ~Closes(B[i])
  BY MarksDiffer DEF AllBlank
<1>3. \A c : IsSpace(c) => Decoded(c) = c
  BY Zenon DEF IsSpace, Decoded, Space, Newline
<1> DEFINE U == Unescape(B)
<1>4. U \in Seq(Chars) /\ Len(U) = Len(B) /\ \A i \in 1..Len(B) : U[i] = Decoded(B[i])
  BY UnescapeIs
<1> HIDE DEF U
<1>5. \A i \in 1..Len(B) : U[i] = B[i]
  BY <1>1, <1>3, <1>4 DEF AllBlank
<1>6. U = B
  BY <1>4, <1>5, SeqEqual
<1> QED BY <1>2, <1>6 DEF U, Plain

(* What closes a tag is not among blanks.                                  *)
LEMMA EndsBehindBlanks ==
  ASSUME NEW B \in Seq(Chars), NEW Y \in Seq(Chars), \A i \in DOMAIN B : ~Closes(B[i])
  PROVE  /\ HasEnd(B \o Y) <=> HasEnd(Y)
         /\ \A i \in 1..Len(B) : ClosedAt(B \o Y, i) <=> HasEnd(Y)
         /\ \A i \in 1..Len(Y) : ClosedAt(B \o Y, Len(B) + i) <=> ClosedAt(Y, i)
<1> DEFINE s == B \o Y
           b == Len(B)
           y == Len(Y)
<1>1. b \in Nat /\ y \in Nat /\ Len(s) = b + y /\ DOMAIN s = 1..(b + y)
      /\ DOMAIN B = 1..b /\ DOMAIN Y = 1..y
  OBVIOUS
<1>2. (\A i \in 1..b : s[i] = B[i]) /\ \A i \in 1..y : s[b + i] = Y[i]
  OBVIOUS
<1>3. \A i \in 1..b : ~Closes(s[i])
  BY <1>1, <1>2
<1> HIDE DEF s, b, y
<1>4. ASSUME NEW k \in 1..(b + y), Closes(s[k])
      PROVE  k - b \in 1..y /\ k = b + (k - b) /\ Closes(Y[k - b])
  <2>1. k > b
    BY <1>1, <1>3, <1>4
  <2>2. k - b \in 1..y /\ k = b + (k - b)
    BY <1>1, <2>1
  <2> QED BY <1>2, <1>4, <2>2
<1>5. ASSUME NEW k \in 1..y, Closes(Y[k]) PROVE b + k \in 1..(b + y) /\ Closes(s[b + k])
  BY <1>1, <1>2, <1>5
<1>6. HasEnd(s) <=> HasEnd(Y)
  BY <1>1, <1>4, <1>5 DEF HasEnd
<1>7. ASSUME NEW i \in 1..b, ClosedAt(s, i) PROVE HasEnd(Y)
  <2>1. PICK k \in i..(b + y) : Closes(s[k])
    BY <1>1, <1>7 DEF ClosedAt
  <2>2. k \in 1..(b + y)
    BY <1>1
  <2> QED BY <1>1, <1>4, <2>1, <2>2 DEF HasEnd
<1>8. ASSUME NEW i \in 1..b, HasEnd(Y) PROVE ClosedAt(s, i)
  <2> DEFINE ends == {k \in 1..y : Closes(Y[k])}
  <2>1. ends \in SUBSET Nat /\ ends # {}
    BY <1>1, <1>8 DEF HasEnd
  <2>2. PICK k \in ends : \A l \in ends : k <= l
    <3> HIDE DEF ends
    <3> QED BY <2>1, FirstPosition
  <2>3. k \in 1..y /\ Closes(Y[k])
    OBVIOUS
  <2>4. b + k \in i..(b + y) /\ Closes(s[b + k])
    BY <1>1, <1>5, <2>3
  <2>5. ASSUME NEW m \in 1..((b + k) - 1), Closes(s[m]) PROVE FALSE
    <3>1. m \in 1..(b + y)
      BY <1>1, <2>3
    <3>2. m - b \in ends
      BY <1>4, <2>5, <3>1
    <3>3. k <= m - b
      BY <2>2, <3>2
    <3> QED BY <1>1, <2>3, <3>3
  <2> QED BY <1>1, <2>4, <2>5 DEF ClosedAt
<1>9. ASSUME NEW i \in 1..y, ClosedAt(s, b + i) PROVE ClosedAt(Y, i)
  <2>1. PICK e \in (b + i)..(b + y) : Closes(s[e]) /\ \A m \in 1..(e - 1) : ~Closes(s[m])
    BY <1>1, <1>9 DEF ClosedAt
  <2>2. e \in 1..(b + y) /\ e - b \in i..y
    BY <1>1
  <2>3. Closes(Y[e - b])
    BY <1>4, <2>1, <2>2
  <2>4. ASSUME NEW m \in 1..((e - b) - 1) PROVE ~Closes(Y[m])
    <3>1. m \in 1..y /\ b + m \in 1..(e - 1)
      BY <1>1, <2>2
    <3> QED BY <1>5, <2>1, <3>1
  <2> QED BY <1>1, <2>2, <2>3, <2>4 DEF ClosedAt, y
<1>10. ASSUME NEW i \in 1..y, ClosedAt(Y, i) PROVE ClosedAt(s, b + i)
  <2>1. PICK k \in i..y : Closes(Y[k]) /\ \A m \in 1..(k - 1) : ~Closes(Y[m])
    BY <1>10 DEF ClosedAt, y
  <2>2. k \in 1..y /\ b + k \in (b + i)..(b + y)
    BY <1>1
  <2>3. Closes(s[b + k])
    BY <1>5, <2>1, <2>2
  <2>4. ASSUME NEW m \in 1..((b + k) - 1), Closes(s[m]) PROVE FALSE
    <3>1. m \in 1..(b + y)
      BY <1>1, <2>2
    <3>2. m - b \in 1..y /\ Closes(Y[m - b])
      BY <1>4, <2>4, <3>1
    <3>3. m - b \in 1..(k - 1)
      BY <1>1, <2>2, <3>2
    <3> QED BY <2>1, <3>2, <3>3
  <2> QED BY <1>1, <2>2, <2>3, <2>4 DEF ClosedAt
<1> QED BY <1>6, <1>7, <1>8, <1>9, <1>10 DEF s, b, y

(* Blanks between two texts stay, or are hidden in a tag; what else is     *)
(* left does not depend on them.                                           *)
FrontOf(x, y) ==
  LET X == BreaksToLines(x)
  IN Unescape(Pick(X, KeptInFront(X, HasEnd(BreaksToLines(y)))))
BackOf(x, y) ==
  LET X == BreaksToLines(x)
      Y == BreaksToLines(y)
  IN Unescape(Pick(Y, KeptBehind(Y, OpenBehind(X, Len(X)))))
Hidden(x, y) ==
  LET X == BreaksToLines(x)
  IN OpenBehind(X, Len(X)) /\ HasEnd(BreaksToLines(y))
AroundBlanks(x, B, y) ==
  Core(x \o (B \o y)) = FrontOf(x, y) \o ((IF Hidden(x, y) THEN <<>> ELSE B) \o BackOf(x, y))

(* Blanks keep the breaks on both sides apart.                             *)
LEMMA BlanksDoNotMix ==
  ASSUME NEW x \in Seq(Chars), NEW y \in Seq(Chars),
         NEW B \in Seq(Chars), AllBlank(B), B # <<>>
  PROVE  BreaksToLines(x \o (B \o y)) = BreaksToLines(x) \o (B \o BreaksToLines(y))
<1> DEFINE R == B \o y
           s == x \o R
<1>1. Plain(B)
  BY BlanksStay
<1>2. BreaksToLines(R) = B \o BreaksToLines(y)
  <2>1. BreaksToLines(B) = B
    BY <1>1, PlainHasNoBreaks
  <2>2. BreaksInTurn(B, y)
    BY <1>1, PlainHasNoBreaks
  <2> QED BY <2>1, <2>2 DEF BreaksInTurn
<1>3. R \in Seq(Chars) /\ 1 \in DOMAIN B /\ Len(R) >= 1 /\ R[1] = B[1]
  OBVIOUS
<1>4. IsSpace(R[1])
  BY <1>3 DEF AllBlank
<1> HIDE DEF R
<1>5. Len(x) \in Nat /\ s[Len(x) + 1] = R[1]
  BY <1>3
<1> HIDE DEF s
<1>6. ~Breaks(s[Len(x) + 1]) /\ ~Closes(s[Len(x) + 1])
  BY <1>4, <1>5, MarksDiffer
<1>7. ~BreakAt(s, Len(x))
  BY <1>6, MarkupIs
<1>8. ~BreakAt(s, Len(x) - 1)
  <2>1. (Len(x) - 1) + 2 = Len(x) + 1
    BY <1>5
  <2>2. BreakAt(s, Len(x) - 1) => Closes(s[(Len(x) - 1) + 2])
    BY MarkupIs
  <2> QED BY <1>6, <2>1, <2>2
<1>9. NoneAcross(x, R)
  BY <1>7, <1>8 DEF NoneAcross, s
<1>10. BreaksInTurn(x, R)
  BY <1>3, <1>9, BreaksTogether
<1>11. BreaksToLines(s) = BreaksToLines(x) \o (B \o BreaksToLines(y))
  BY <1>2, <1>10 DEF BreaksInTurn, s
<1> QED BY <1>11 DEF s, R

(* Behind an open tag blanks are dropped, if the tag is closed later.      *)
KeptAfterBlanks(B, Y, open) ==
  Pick(B \o Y, KeptBehind(B \o Y, open))
    = (IF open /\ HasEnd(Y) THEN <<>> ELSE B) \o Pick(Y, KeptBehind(Y, open))

LEMMA BlanksInOrOut ==
  ASSUME NEW B \in Seq(Chars), AllBlank(B), NEW Y \in Seq(Chars), NEW open \in BOOLEAN
  PROVE  KeptAfterBlanks(B, Y, open)
<1> DEFINE s == B \o Y
           K == KeptBehind(s, open)
           hidden == open /\ HasEnd(Y)
<1>1. /\ DOMAIN B = 1..Len(B) /\ DOMAIN Y = 1..Len(Y) /\ Len(B) \in Nat /\ Len(Y) \in Nat
      /\ DOMAIN s = 1..(Len(B) + Len(Y))
  OBVIOUS
<1>2. Plain(B) /\ \A i \in DOMAIN B : ~Closes(B[i])
  BY BlanksStay
<1>3. (\A i \in 1..Len(B) : ~InTag(B, i) /\ ~OpenBehind(B, i)) /\ ~OpenBehind(B, Len(B))
  BY <1>2, PlainHasNoTags
<1>4. /\ \A i \in 1..Len(B) : ClosedAt(s, i) <=> HasEnd(Y)
      /\ \A i \in 1..Len(Y) : ClosedAt(s, Len(B) + i) <=> ClosedAt(Y, i)
  BY <1>2, EndsBehindBlanks
<1>5. \A i \in 1..Len(B) : ~InTag(s, i)
  <2> SUFFICES ASSUME NEW i \in 1..Len(B) PROVE ~InTag(s, i)
    OBVIOUS
  <2>1. InTag(s, i) <=> InTag(B, i) \/ (HasEnd(Y) /\ OpenBehind(B, i))
    BY TagsInFront
  <2> QED BY <1>3, <2>1
<1>6. \A i \in 1..Len(Y) : InTag(s, Len(B) + i) <=> InTag(Y, i)
  <2> SUFFICES ASSUME NEW i \in 1..Len(Y) PROVE InTag(s, Len(B) + i) <=> InTag(Y, i)
    OBVIOUS
  <2>1. InTag(s, Len(B) + i) <=> InTag(Y, i) \/ (OpenBehind(B, Len(B)) /\ ClosedAt(Y, i))
    BY TagsBehind
  <2> QED BY <1>3, <2>1
<1>7. K \in SUBSET (1..(Len(B) + Len(Y)))
  BY <1>1 DEF KeptBehind
<1>8. InFront(B, K) = IF hidden THEN {} ELSE DOMAIN B
  <2>1. ASSUME NEW i \in 1..Len(B) PROVE i \in K <=> ~hidden
    <3>1. i \in K <=> ~InTag(s, i) /\ ~(open /\ ClosedAt(s, i))
      BY <1>1 DEF KeptBehind
    <3> HIDE DEF K
    <3> QED BY <1>4, <1>5, <3>1
  <2> HIDE DEF K, hidden
  <2> QED BY <1>1, <2>1 DEF InFront
<1>9. Behind(B, Y, K) = KeptBehind(Y, open)
  <2>1. ASSUME NEW i \in 1..Len(Y) PROVE Len(B) + i \in K <=> i \in KeptBehind(Y, open)
    <3>1. Len(B) + i \in 1..(Len(B) + Len(Y))
      BY <1>1
    <3>2. Len(B) + i \in K <=> ~InTag(s, Len(B) + i) /\ ~(open /\ ClosedAt(s, Len(B) + i))
      BY <1>1, <3>1 DEF KeptBehind
    <3>3. i \in KeptBehind(Y, open) <=> ~InTag(Y, i) /\ ~(open /\ ClosedAt(Y, i))
      BY <1>1 DEF KeptBehind
    <3> HIDE DEF K
    <3> QED BY <1>4, <1>6, <3>2, <3>3
  <2>2. \A i \in KeptBehind(Y, open) : i \in 1..Len(Y)
    BY <1>1 DEF KeptBehind
  <2> HIDE DEF K
  <2> QED BY <1>1, <2>1, <2>2 DEF Behind
<1> HIDE DEF K
<1>10. PickedInTurn(B, Y, K)
  BY <1>7, PickTogether
<1>11. Pick(B, InFront(B, K)) = IF hidden THEN <<>> ELSE B
  BY <1>8, PickAll, PickNothing
<1>12. Pick(s, K) = (IF hidden THEN <<>> ELSE B) \o Pick(Y, KeptBehind(Y, open))
  BY <1>9, <1>10, <1>11 DEF PickedInTurn
<1> QED BY <1>12 DEF KeptAfterBlanks, K

(* So it is for the whole of Core.                                         *)
LEMMA BlanksKept ==
  ASSUME NEW x \in Seq(Chars), NEW y \in Seq(Chars),
         NEW B \in Seq(Chars), AllBlank(B), B # <<>>
  PROVE  /\ AroundBlanks(x, B, y)
         /\ FrontOf(x, y) \in Seq(Chars) /\ BackOf(x, y) \in Seq(Chars)
<1> DEFINE X == BreaksToLines(x)
           Y == BreaksToLines(y)
           open == OpenBehind(X, Len(X))
           R == B \o Y
           front == KeptInFront(X, HasEnd(Y))
           back == KeptBehind(Y, open)
           P == Pick(X, front)
           Q == Pick(Y, back)
           C == IF open /\ HasEnd(Y) THEN <<>> ELSE B
<1>1. X \in Seq(Chars) /\ Y \in Seq(Chars)
  BY BreaksToLinesIsText
<1>2. BreaksToLines(x \o (B \o y)) = X \o R
  BY BlanksDoNotMix
<1>3. Core(x \o (B \o y)) = Unescape(DropTags(X \o R))
  BY <1>2 DEF Core
<1>4. FrontOf(x, y) = Unescape(P) /\ BackOf(x, y) = Unescape(Q)
      /\ (Hidden(x, y) <=> open /\ HasEnd(Y))
  BY DEF FrontOf, BackOf, Hidden
<1> HIDE DEF X, Y
<1>5. open \in BOOLEAN /\ HasEnd(Y) \in BOOLEAN
  BY DEF OpenBehind, HasEnd
<1>6. \A i \in DOMAIN B : ~Closes(B[i])
  BY BlanksStay
<1>7. HasEnd(R) <=> HasEnd(Y)
  BY <1>1, <1>6, EndsBehindBlanks
<1>8. KeptInFront(X, HasEnd(R)) = front
  BY <1>7 DEF KeptInFront
<1>9. R \in Seq(Chars)
  BY <1>1
<1>10. DropTags(X \o R) = Pick(X, KeptInFront(X, HasEnd(R))) \o Pick(R, KeptBehind(R, open))
  BY <1>1, <1>9, TagsTogether DEF DropsInTurn
<1> HIDE DEF open
<1>11. Pick(R, KeptBehind(R, open)) = C \o Q
  BY <1>1, <1>5, BlanksInOrOut DEF KeptAfterBlanks
<1>12. front \in SUBSET (DOMAIN X) /\ back \in SUBSET (DOMAIN Y)
  BY DEF KeptInFront, KeptBehind
<1> HIDE DEF front, back
<1>13. P \in Seq(Chars) /\ Q \in Seq(Chars)
  BY <1>1, <1>12, PickIsSeq
<1>14. C \in Seq(Chars) /\ Unescape(C) = C
  <2>1. Unescape(B) = B
    BY BlanksStay
  <2>2. Unescape(<<>>) = <<>> /\ <<>> \in Seq(Chars)
    <3>1. AllBlank(<<>>) /\ <<>> \in Seq(Chars)
      BY DEF AllBlank
    <3> QED BY <3>1, BlanksStay
  <2> QED BY <2>1, <2>2
<1> HIDE DEF P, Q, C, R
<1>15. DropTags(X \o R) = P \o (C \o Q)
  BY <1>8, <1>10, <1>11 DEF P
<1>16. C \o Q \in Seq(Chars)
  BY <1>13, <1>14
<1>17. Unescape(P \o (C \o Q)) = Unescape(P) \o Unescape(C \o Q)
  BY <1>13, <1>16, DecodedTogether DEF DecodesInTurn
<1>18. Unescape(C \o Q) = Unescape(C) \o Unescape(Q)
  BY <1>13, <1>14, DecodedTogether DEF DecodesInTurn
<1>19. Core(x \o (B \o y)) = Unescape(P) \o (C \o Unescape(Q))
  BY <1>3, <1>14, <1>15, <1>17, <1>18
<1>20. C = IF Hidden(x, y) THEN <<>> ELSE B
  BY <1>4 DEF C
<1>21. Unescape(P) \in Seq(Chars) /\ Unescape(Q) \in Seq(Chars)
  BY <1>13, UnescapeIsText
<1> QED BY <1>4, <1>19, <1>20, <1>21 DEF AroundBlanks

(* Normalize, by HashedWords.                                              *)
HashOf(u) == Collapse(Core(u))

(* One blank is as good as another, or as several.                         *)
LEMMA BlanksAlike ==
  ASSUME NEW x \in Seq(Chars), NEW y \in Seq(Chars),
         NEW B \in Seq(Chars), AllBlank(B), B # <<>>,
         NEW C \in Seq(Chars), AllBlank(C), C # <<>>
  PROVE  HashOf(x \o (B \o y)) = HashOf(x \o (C \o y))
<1> DEFINE P == FrontOf(x, y)
           Q == BackOf(x, y)
<1>1. Core(x \o (B \o y)) = P \o ((IF Hidden(x, y) THEN <<>> ELSE B) \o Q)
      /\ P \in Seq(Chars) /\ Q \in Seq(Chars)
  BY BlanksKept DEF AroundBlanks
<1>2. Core(x \o (C \o y)) = P \o ((IF Hidden(x, y) THEN <<>> ELSE C) \o Q)
  BY BlanksKept DEF AroundBlanks
<1> HIDE DEF P, Q
<1>3. CASE Hidden(x, y)
  BY <1>1, <1>2, <1>3 DEF HashOf
<1>4. CASE ~Hidden(x, y)
  <2> DEFINE V == P \o B
             W == P \o C
  <2>1. P \in Seq(Chars) /\ Q \in Seq(Chars)
    BY <1>1
  <2>2. P \o (B \o Q) = V \o Q /\ P \o (C \o Q) = W \o Q
    BY <2>1
  <2>3. Collapse(V) = Collapse(P) /\ Collapse(W) = Collapse(P)
    BY <2>1, BlanksBehind, Literals
  <2>4. V \in Seq(Chars) /\ W \in Seq(Chars) /\ V[Len(V)] = B[Len(B)] /\ W[Len(W)] = C[Len(C)]
        /\ Len(B) \in DOMAIN B /\ Len(C) \in DOMAIN C
    BY <2>1
  <2> HIDE DEF V, W
  <2>5. AtGap(V) /\ AtGap(W)
    BY <2>4 DEF AtGap, AllBlank
  <2>6. Collapse(V \o Q) = Collapse(W \o Q)
    BY <2>1, <2>3, <2>4, <2>5, SameGapSameRest, Literals
  <2> QED BY <1>1, <1>2, <1>4, <2>2, <2>6 DEF HashOf
<1> QED BY <1>3, <1>4

(* Blanks in front of a text, and behind it, do not count.                 *)
LEMMA BlanksFirst ==
  ASSUME NEW B \in Seq(Chars), AllBlank(B), NEW y \in Seq(Chars)
  PROVE  HashOf(B \o y) = HashOf(y)
<1>1. Plain(B) /\ Unescape(B) = B
  BY BlanksStay
<1>2. Gives(B, B)
  BY <1>1, PlainGives
<1>3. Core(B \o y) = B \o Core(y)
  BY <1>2 DEF Gives
<1>4. Core(y) \in Seq(Chars)
  BY HashedWords
<1>5. Collapse(B \o Core(y)) = Collapse(Core(y))
  BY <1>4, BlanksInFront, Literals
<1> QED BY <1>3, <1>5 DEF HashOf

LEMMA BlanksLast ==
  ASSUME NEW B \in Seq(Chars), AllBlank(B), B # <<>>, NEW x \in Seq(Chars)
  PROVE  HashOf(x \o B) = HashOf(x)
<1> DEFINE X == BreaksToLines(x)
           none == <<>>
           open == OpenBehind(X, Len(X))
<1>1. none \in Seq(Chars) /\ AllBlank(none) /\ DOMAIN none = {}
  BY DEF AllBlank
<1>2. X \in Seq(Chars) /\ B \o none = B
  BY BreaksToLinesIsText
<1>3. Plain(none) /\ Unescape(none) = none
  BY <1>1, BlanksStay
<1>4. BreaksToLines(none) = none
  BY <1>1, <1>3, PlainHasNoBreaks
<1>5. HasEnd(none) = FALSE
  BY <1>1 DEF HasEnd
<1>6. FrontOf(x, none) = Core(x)
  <2>1. Pick(X, KeptInFront(X, FALSE)) = DropTags(X)
    BY <1>2, KeptUnlessInTag
  <2>2. FrontOf(x, none) = Unescape(Pick(X, KeptInFront(X, FALSE)))
    BY <1>4, <1>5 DEF FrontOf
  <2> QED BY <2>1, <2>2 DEF Core
<1>7. BackOf(x, none) = none
  <2>1. KeptBehind(none, open) = {}
    BY <1>1 DEF KeptBehind
  <2>2. Pick(none, {}) = none
    BY <1>1, PickNothing
  <2> QED BY <1>3, <1>4, <2>1, <2>2 DEF BackOf
<1>8. ~Hidden(x, none)
  BY <1>4, <1>5 DEF Hidden
<1>9. Core(x \o (B \o none)) = FrontOf(x, none) \o (B \o BackOf(x, none))
  BY <1>1, <1>8, BlanksKept DEF AroundBlanks
<1>10. Core(x \o B) = Core(x) \o B
  BY <1>2, <1>6, <1>7, <1>9
<1>11. Core(x) \in Seq(Chars)
  BY HashedWords
<1>12. Collapse(Core(x) \o B) = Collapse(Core(x))
  BY <1>11, BlanksBehind, Literals
<1> QED BY <1>10, <1>12 DEF HashOf

(* The words of a text, and a blank if it ends with one.                   *)
Spelled(u) == Collapse(u) \o (IF Collapse(u) # <<>> /\ AtGap(u) THEN <<Space>> ELSE <<>>)
SameHashAs(u, v) == \A W \in Seq(Chars) : HashOf(u \o W) = HashOf(v \o W)

(* A blank, alone or behind a space, is a text of blanks.                  *)
LEMMA OneBlank ==
  ASSUME NEW c \in Chars, IsSpace(c)
  PROVE  /\ <<c>> \in Seq(Chars) /\ AllBlank(<<c>>) /\ <<c>> # <<>>
         /\ <<Space, c>> \in Seq(Chars) /\ AllBlank(<<Space, c>>) /\ <<Space, c>> # <<>>
<1>1. Space \in Chars /\ IsSpace(Space)
  BY Literals DEF IsSpace
<1> QED BY <1>1 DEF AllBlank

(* Whatever follows, a text can be replaced by its words: character by     *)
(* character, a word grows, a gap begins, or a gap gets wider.             *)
LEMMA HashOfSpelled ==
  ASSUME NEW u \in Seq(Chars)
  PROVE  Spelled(u) \in Seq(Chars) /\ SameHashAs(u, Spelled(u))
<1> DEFINE fine == {v \in Seq(Chars) : Spelled(v) \in Seq(Chars) /\ SameHashAs(v, Spelled(v))}
<1>1. <<>> \in fine
  <2>1. Spelled(<<>>) = <<>> \o <<>>
    BY CollapseOfEmpty DEF Spelled
  <2>2. Spelled(<<>>) = <<>> /\ <<>> \in Seq(Chars)
    BY <2>1
  <2> QED BY <2>2 DEF SameHashAs
<1>a. \A x, y, z \in Seq(Chars) : (x \o y) \o z = x \o (y \o z)
  OBVIOUS
<1>b. Space \in Chars /\ IsSpace(Space) /\ <<Space>> \in Seq(Chars) /\ <<>> \in Seq(Chars)
  BY Literals DEF IsSpace
<1>c. AllBlank(<<Space>>) /\ <<Space>> # <<>>
  BY <1>b, OneBlank
<1>2. ASSUME NEW v \in Seq(Chars), NEW c \in Chars, v \in fine PROVE Append(v, c) \in fine
  <2> DEFINE Z == Collapse(v)
             t == Append(v, c)
             e == <<c>>
             one == <<Space>>
  <2>1. /\ t \in Seq(Chars) /\ t = v \o e /\ e \in Seq(Chars) /\ t # <<>> /\ t[Len(t)] = c
        /\ v # <<>> => v[Len(v)] \in Chars
    OBVIOUS
  <2>2. Spelled(v) \in Seq(Chars) /\ SameHashAs(v, Spelled(v))
    BY <1>2
  <2>3. /\ Z \in Seq(Chars)
        /\ IsSpace(c) => Collapse(t) = Z
        /\ ~IsSpace(c) => Collapse(t) = IF Z # <<>> /\ IsSpace(v[Len(v)]) THEN Z \o <<Space, c>>
                                        ELSE Append(Z, c)
    BY <1>b, CollapseOfAppend
  <2>4. Z # <<>> => (AtGap(v) <=> IsSpace(v[Len(v)]))
    BY CollapseOfEmpty DEF AtGap
  <2>5. AtGap(t) <=> IsSpace(c)
    BY <2>1 DEF AtGap
  <2>6. ASSUME NEW W \in Seq(Chars)
        PROVE  t \o W = v \o (e \o W) /\ e \o W \in Seq(Chars)
               /\ HashOf(t \o W) = HashOf(Spelled(v) \o (e \o W))
    <3>1. e \o W \in Seq(Chars)
      BY <2>1
    <3>2. (v \o e) \o W = v \o (e \o W)
      BY <1>a, <2>1
    <3>3. HashOf(v \o (e \o W)) = HashOf(Spelled(v) \o (e \o W))
      BY <2>2, <3>1 DEF SameHashAs
    <3> QED BY <2>1, <3>1, <3>2, <3>3
  <2>d. Spelled(v) = Z \o (IF Z # <<>> /\ AtGap(v) THEN one ELSE <<>>)
        /\ Spelled(t) = Collapse(t) \o (IF Collapse(t) # <<>> /\ AtGap(t) THEN one ELSE <<>>)
    BY DEF Spelled
  <2> HIDE DEF Z, t
  <2>7. CASE ~IsSpace(c)
    <3>1. Spelled(t) = Spelled(v) \o e
      <4>1. Spelled(t) = Collapse(t) \o <<>>
        BY <2>5, <2>7, <2>d
      <4>2. CASE Z # <<>> /\ AtGap(v)
        <5>1. Collapse(t) = Z \o <<Space, c>> /\ Spelled(v) = Z \o one
          BY <2>3, <2>4, <2>7, <2>d, <4>2
        <5>2. (Z \o <<Space, c>>) \o <<>> = (Z \o one) \o e
          BY <2>3, <1>b
        <5> QED BY <4>1, <5>1, <5>2
      <4>3. CASE ~(Z # <<>> /\ AtGap(v))
        <5>1. Collapse(t) = Append(Z, c) /\ Spelled(v) = Z \o <<>>
          BY <2>3, <2>4, <2>7, <2>d, <4>3
        <5>a. Z \in Seq(Chars)
          BY <2>3
        <5>2. Z \o <<>> = Z /\ Append(Z, c) = Z \o e
          BY <5>a
        <5>3. Append(Z, c) \o <<>> = Append(Z, c)
          BY <5>a
        <5> QED BY <4>1, <5>1, <5>2, <5>3
      <4> QED BY <4>2, <4>3
    <3> DEFINE Y == Spelled(v)
    <3>a. Y \in Seq(Chars) /\ e \in Seq(Chars)
      BY <2>1, <2>2
    <3> HIDE DEF Y, e
    <3>b. Y \o e \in Seq(Chars)
      BY <3>a
    <3>2. Spelled(t) \in Seq(Chars)
      BY <3>1, <3>b DEF Y
    <3>3. ASSUME NEW W \in Seq(Chars) PROVE HashOf(t \o W) = HashOf(Spelled(t) \o W)
      <4>1. (Y \o e) \o W = Y \o (e \o W)
        BY <3>a
      <4>2. HashOf(t \o W) = HashOf(Y \o (e \o W))
        BY <2>6 DEF Y
      <4> QED BY <3>1, <4>1, <4>2 DEF Y
    <3> QED BY <2>1, <3>2, <3>3 DEF SameHashAs, t
  <2>8. CASE IsSpace(c) /\ Z = <<>>
    <3>1. Spelled(t) = Z \o <<>> /\ Spelled(v) = Z \o <<>>
      BY <2>3, <2>8, <2>d
    <3>2. Spelled(t) = <<>> /\ Spelled(v) = <<>>
      BY <2>8, <3>1
    <3>3. ASSUME NEW W \in Seq(Chars) PROVE HashOf(t \o W) = HashOf(Spelled(t) \o W)
      <4>1. AllBlank(e)
        BY <2>8, OneBlank
      <4>2. HashOf(e \o W) = HashOf(W)
        BY <2>1, <4>1, BlanksFirst
      <4> HIDE DEF e
      <4>3. <<>> \o (e \o W) = e \o W /\ <<>> \o W = W
        BY <2>6
      <4> QED BY <2>6, <3>2, <4>2, <4>3
    <3> QED BY <1>b, <2>1, <3>2, <3>3 DEF SameHashAs, t
  <2>9. CASE IsSpace(c) /\ Z # <<>>
    <3>1. Spelled(t) = Z \o one
      BY <2>3, <2>5, <2>9, <2>d
    <3>2. Spelled(t) \in Seq(Chars)
      BY <1>b, <2>3, <3>1
    <3>3. ASSUME NEW W \in Seq(Chars) PROVE HashOf(t \o W) = HashOf(Spelled(t) \o W)
      <4>a. HashOf(t \o W) = HashOf(Spelled(v) \o (e \o W))
        BY <2>6
      <4>b. /\ Z \in Seq(Chars)
            /\ one \in Seq(Chars) /\ AllBlank(one) /\ one # <<>>
            /\ e \in Seq(Chars) /\ AllBlank(e) /\ e # <<>>
        BY <1>b, <1>c, <2>3, <2>9, OneBlank
      <4> DEFINE two == <<Space, c>>
      <4>c. two \in Seq(Chars) /\ AllBlank(two) /\ two # <<>>
        BY <2>9, OneBlank
      <4>d. two = one \o e
        OBVIOUS
      <4> HIDE DEF two, one, e
      <4>e. Z \in Seq(Chars) /\ one \in Seq(Chars) /\ e \in Seq(Chars)
        BY <4>b
      <4>1. (Z \o one) \o W = Z \o (one \o W)
        BY <4>e
      <4>2. CASE AtGap(v)
        <5>1. Spelled(v) = Z \o one
          BY <2>9, <2>d, <4>2
        <5>2. (Z \o one) \o (e \o W) = Z \o ((one \o e) \o W)
          BY <4>e
        <5>3. HashOf(Z \o (two \o W)) = HashOf(Z \o (one \o W))
          BY <4>b, <4>c, BlanksAlike
        <5> QED BY <3>1, <4>1, <4>a, <4>d, <5>1, <5>2, <5>3
      <4>3. CASE ~AtGap(v)
        <5>1. Spelled(v) = Z
          <6>1. Spelled(v) = Z \o <<>>
            BY <2>d, <4>3
          <6> QED BY <4>e, <6>1
        <5>2. HashOf(Z \o (e \o W)) = HashOf(Z \o (one \o W))
          BY <4>b, BlanksAlike
        <5> QED BY <3>1, <4>1, <4>a, <5>1, <5>2
      <4> QED BY <4>2, <4>3
    <3> QED BY <2>1, <3>2, <3>3 DEF SameHashAs, t
  <2> QED BY <2>7, <2>8, <2>9
<1>3. \A v \in Seq(Chars) : v \in fine
  <2> HIDE DEF fine
  <2> QED BY <1>1, <1>2, Appending
<1> QED BY <1>3

(* The hash depends on the words only.                                     *)
LEMMA HashOfWords ==
  ASSUME NEW u \in Seq(Chars)
  PROVE  HashOf(u) = HashOf(Collapse(u))
<1> DEFINE Z == Collapse(u)
           one == <<Space>>
<1>a. Space \in Chars /\ IsSpace(Space)
  BY Literals DEF IsSpace
<1>1. one \in Seq(Chars) /\ AllBlank(one) /\ one # <<>> /\ <<>> \in Seq(Chars)
  <2>1. one \in Seq(Chars) /\ AllBlank(one) /\ one # <<>>
    BY <1>a, OneBlank
  <2>2. <<>> \in Seq(Chars)
    OBVIOUS
  <2> QED BY <2>1, <2>2
<1>2. Z \in Seq(Chars)
  <2>1. Space \in Chars
    BY Literals
  <2> QED BY <2>1, CollapseOfAppend
<1>3. Spelled(u) \in Seq(Chars) /\ SameHashAs(u, Spelled(u))
  BY HashOfSpelled
<1>4. HashOf(u \o <<>>) = HashOf(Spelled(u) \o <<>>)
  BY <1>1, <1>3 DEF SameHashAs
<1>5. u \o <<>> = u /\ Spelled(u) \o <<>> = Spelled(u)
  BY <1>3
<1>6. Spelled(u) = Z \o (IF Z # <<>> /\ AtGap(u) THEN one ELSE <<>>)
  BY DEF Spelled
<1> HIDE DEF Z, one
<1>7. HashOf(Z \o one) = HashOf(Z)
  BY <1>1, <1>2, BlanksLast
<1>8. Z \o <<>> = Z
  BY <1>2
<1> QED BY <1>4, <1>5, <1>6, <1>7, <1>8 DEF Z

(* The same words have the same hash, whichever way they came.             *)
LEMMA StrippedHash ==
  ASSUME NEW s \in Seq(Chars), Typed(s)
  PROVE  Normalize(StripHTML(Rendered(s))) = Normalize(s)
<1> DEFINE u == StripHTML(Rendered(s))
<1>1. u \in Seq(Chars)
  BY RenderedIsText, StripHTMLIsText
<1>2. Collapse(u) = Collapse(s)
  BY StrippedWords
<1> HIDE DEF u
<1>3. Normalize(u) = HashOf(u) /\ Normalize(s) = HashOf(s)
  BY <1>1, HashedWords DEF HashOf
<1>4. HashOf(u) = HashOf(Collapse(u)) /\ HashOf(s) = HashOf(Collapse(s))
  BY <1>1, HashOfWords
<1> QED BY <1>2, <1>3, <1>4 DEF u
=============================================================================
