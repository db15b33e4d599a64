---------------------------- MODULE WordsProofs -----------------------------
(***************************************************************************)
(* What editing does to the words of a text, for every text: the editing   *)
(* of a tweet's links gives the words its author meant, and no gap.        *)
(*                                                                         *)
(* Collapse takes a text one character at a time, so what it makes of two  *)
(* texts that end alike is settled by what it makes of their beginnings,   *)
(* and a beginning can be replaced by one that has the same words.         *)
(***************************************************************************)
EXTENDS TextProofs

(***************************************************************************)
(* Texts one character at a time.                                          *)
(***************************************************************************)
(* What holds of the empty sequence and stays true when something is       *)
(* appended holds of all sequences.                                        *)
LEMMA Appending ==
  ASSUME NEW S, NEW good, <<>> \in good,
         \A s \in Seq(S) : \A c \in S : s \in good => Append(s, c) \in good
  PROVE  \A s \in Seq(S) : s \in good
<1> SUFFICES ASSUME NEW s \in Seq(S) PROVE s \in good
  OBVIOUS
<1> DEFINE n == Len(s)
           start(k) == SubSeq(s, 1, k)
           fine == {k \in 0..n : start(k) \in good}
<1>1. n \in Nat /\ start(n) = s /\ start(0) = <<>>
  OBVIOUS
<1>2. \A k \in 1..n : start(k) = Append(start(k - 1), s[k]) /\ start(k - 1) \in Seq(S) /\ s[k] \in S
  OBVIOUS
<1> HIDE DEF start, n
<1>3. 0 \in fine
  BY <1>1
<1>4. ASSUME NEW k \in 1..n, k - 1 \in fine PROVE k \in fine
  <2>1. start(k - 1) \in good /\ k \in 0..n
    BY <1>1, <1>4
  <2> QED BY <1>2, <2>1
<1>5. \A k \in 0..n : k \in fine
  <2> HIDE DEF fine
  <2> QED BY <1>1, <1>3, <1>4, Counting
<1> QED BY <1>1, <1>5

(* The words so far, and what one more character makes of them.            *)
Words(words, s, n) ==
  IF IsSpace(s[n]) THEN words
  ELSE IF words # <<>> /\ IsSpace(s[n - 1]) THEN words \o <<Space, s[n]>>
  ELSE Append(words, s[n])

Spelling(f, s, n) == /\ f[0] = <<>> /\ \A k \in 1..n : f[k] = Words(f[k - 1], s, k)
                     /\ Collapse(s) = f[n]

LEMMA CollapseSteps ==
  ASSUME NEW S, Space \in S, NEW s \in Seq(S), NEW n, n = Len(s)
  PROVE  \E f \in [0..n -> Seq(S)] : Spelling(f, s, n)
<1> DEFINE Spells(f) == f = [k \in 0..n |-> IF k = 0 THEN <<>> ELSE Words(f[k - 1], s, k)]
           upTo == CHOOSE f : Spells(f)
           move == [k \in 1..n |-> [t \in Seq(S) |-> Words(t, s, k)]]
<1>1. n \in Nat /\ <<>> \in Seq(S) /\ \A k \in 1..n : s[k] \in S
  OBVIOUS
<1>2. StaysIn(move, n, Seq(S))
  <2> SUFFICES ASSUME NEW k \in 1..n, NEW t \in Seq(S) PROVE Words(t, s, k) \in Seq(S)
    BY DEF StaysIn
  <2>1. s[k] \in S /\ <<Space, s[k]>> \in Seq(S)
    BY <1>1
  <2>2. t \o <<Space, s[k]>> \in Seq(S) /\ Append(t, s[k]) \in Seq(S)
    BY <2>1
  <2> QED BY <2>2 DEF Words
<1>3. PICK f \in [0..n -> Seq(S)] : Follows(f, <<>>, move, n)
  <2> HIDE DEF move
  <2> QED BY <1>1, <1>2, Recursion
<1>a. f[0] = <<>>
  BY <1>3 DEF Follows
<1>4. ASSUME NEW k \in 1..n PROVE f[k] = Words(f[k - 1], s, k)
  <2>1. k - 1 \in 0..n
    BY <1>1
  <2>2. f[k - 1] \in Seq(S)
    BY <2>1
  <2> QED BY <1>3, <2>2 DEF Follows
<1>5. Spells(f)
  <2>1. ASSUME NEW k \in 0..n
        PROVE  f[k] = IF k = 0 THEN <<>> ELSE Words(f[k - 1], s, k)
    <3>1. CASE k = 0
      BY <1>a, <3>1
    <3>2. CASE k # 0
      <4>1. k \in 1..n
        BY <1>1, <3>2
      <4> QED BY <1>4, <3>2, <4>1
    <3> QED BY <3>1, <3>2
  <2> QED BY <2>1
<1>6. Spells(upTo)
  <2> HIDE DEF Spells
  <2> QED BY <1>5
<1>7. Collapse(s) = upTo[n]
  BY DEF Collapse, Words
<1>8. upTo = [k \in 0..n |-> IF k = 0 THEN <<>> ELSE Words(upTo[k - 1], s, k)]
  BY <1>6
<1> HIDE DEF upTo, Spells
<1>9. upTo[0] = <<>> /\ \A k \in 1..n : upTo[k] = Words(upTo[k - 1], s, k)
  BY SMTT(30), <1>1, <1>8
<1> DEFINE same == {k \in 0..n : upTo[k] = f[k]}
<1>10. 0 \in same
  BY <1>1, <1>9, <1>a
<1>11. ASSUME NEW k \in 1..n, k - 1 \in same PROVE k \in same
  <2>1. upTo[k] = Words(upTo[k - 1], s, k) /\ f[k] = Words(f[k - 1], s, k) /\ k \in 0..n
    BY <1>1, <1>4, <1>9
  <2>2. upTo[k - 1] = f[k - 1]
    BY <1>11
  <2> QED BY <2>1, <2>2
<1>12. n \in same
  <2>1. \A k \in 0..n : k \in same
    <3> HIDE DEF same
    <3> QED BY <1>1, <1>10, <1>11, Counting
  <2> QED BY <1>1, <2>1
<1> QED BY <1>7, <1>12, <1>4, <1>a DEF Spelling

LEMMA CollapseOfEmpty == Collapse(<<>>) = <<>>
<1>1. <<>> \in Seq({Space}) /\ Len(<<>>) = 0 /\ Space \in {Space}
  OBVIOUS
<1>2. \E f \in [0..0 -> Seq({Space})] : Spelling(f, <<>>, 0)
  BY <1>1, CollapseSteps
<1> QED BY <1>2 DEF Spelling

(* One more character at the end.                                          *)
LEMMA CollapseOfAppend ==
  ASSUME NEW S, Space \in S, NEW s \in Seq(S), NEW c \in S
  PROVE  /\ Collapse(s) \in Seq(S)
         /\ IsSpace(c) => Collapse(Append(s, c)) = Collapse(s)
         /\ ~IsSpace(c) =>
              Collapse(Append(s, c)) =
                IF Collapse(s) # <<>> /\ IsSpace(s[Len(s)]) THEN Collapse(s) \o <<Space, c>>
                ELSE Append(Collapse(s), c)
<1> DEFINE t == Append(s, c)
           n == Len(s)
<1>1. t \in Seq(S) /\ Len(t) = n + 1 /\ n \in Nat /\ t[n + 1] = c /\ \A k \in 1..n : t[k] = s[k]
  OBVIOUS
<1>2. PICK f \in [0..n -> Seq(S)] : Spelling(f, s, n)
  <2> HIDE DEF n
  <2> QED BY CollapseSteps DEF n
<1>3. PICK g \in [0..(n + 1) -> Seq(S)] : Spelling(g, t, n + 1)
  <2> HIDE DEF t, n
  <2> QED BY <1>1, CollapseSteps
<1> HIDE DEF t, n
<1> DEFINE same == {k \in 0..n : f[k] = g[k]}
<1>4. 0 \in same
  BY <1>1, <1>2, <1>3 DEF Spelling
<1>5. ASSUME NEW k \in 1..n, k - 1 \in same PROVE k \in same
  <2>1. k \in 1..(n + 1) /\ k \in 0..n /\ t[k] = s[k] /\ (k # 1 => t[k - 1] = s[k - 1])
    BY <1>1
  <2>2. f[k] = Words(f[k - 1], s, k) /\ g[k] = Words(g[k - 1], t, k) /\ f[k - 1] = g[k - 1]
    BY <1>2, <1>3, <1>5, <2>1 DEF Spelling
  <2>3. k = 1 => f[k - 1] = <<>>
    BY <1>2 DEF Spelling
  <2> QED BY <2>1, <2>2, <2>3 DEF Words
<1>6. f[n] = g[n]
  <2>1. \A k \in 0..n : k \in same
    <3> HIDE DEF same
    <3> QED BY <1>1, <1>4, <1>5, Counting
  <2> QED BY <1>1, <2>1
<1>7. Collapse(t) = Words(Collapse(s), t, n + 1) /\ Collapse(s) \in Seq(S)
  <2>1. n + 1 \in 1..(n + 1) /\ n + 1 - 1 = n /\ n \in 0..n
    BY <1>1
  <2> QED BY <1>2, <1>3, <1>6, <2>1 DEF Spelling
<1>8. Collapse(s) # <<>> => t[n] = s[n]
  <2>1. n = 0 => Collapse(s) = <<>>
    BY <1>2 DEF Spelling
  <2>2. n # 0 => n \in 1..n
    BY <1>1
  <2> QED BY <1>1, <2>1, <2>2
<1>9. n + 1 - 1 = n
  BY <1>1
<1>10. /\ IsSpace(c) => Collapse(t) = Collapse(s)
       /\ ~IsSpace(c) =>
            Collapse(t) = IF Collapse(s) # <<>> /\ IsSpace(s[n]) THEN Collapse(s) \o <<Space, c>>
                          ELSE Append(Collapse(s), c)
  BY <1>1, <1>7, <1>8, <1>9 DEF Words
<1> QED BY <1>7, <1>10 DEF t, n

(* A blank counts for nothing where the text starts or behind a blank.     *)
AtGap(W) == W = <<>> \/ IsSpace(W[Len(W)])

LEMMA SameGapSameRest ==
  ASSUME NEW S, Space \in S, NEW V \in Seq(S), NEW W \in Seq(S), AtGap(V), AtGap(W),
         Collapse(V) = Collapse(W)
  PROVE  \A U \in Seq(S) : Collapse(V \o U) = Collapse(W \o U)
<1> DEFINE good == {U \in Seq(S) : Collapse(V \o U) = Collapse(W \o U)}
<1>3. <<>> \in good
  <2>1. V \o <<>> = V /\ W \o <<>> = W /\ <<>> \in Seq(S)
    OBVIOUS
  <2> QED BY <2>1
<1>4. ASSUME NEW U \in Seq(S), NEW c \in S, U \in good PROVE Append(U, c) \in good
  <2> DEFINE X == V \o U
             Y == W \o U
  <2>1. /\ X \in Seq(S) /\ Y \in Seq(S) /\ Append(U, c) \in Seq(S)
        /\ V \o Append(U, c) = Append(X, c) /\ W \o Append(U, c) = Append(Y, c)
    BY SMTT(30)
  <2>2. Collapse(X) = Collapse(Y)
    BY <1>4
  <2>3. Collapse(Y) # <<>> => (IsSpace(X[Len(X)]) <=> IsSpace(Y[Len(Y)]))
    <3>1. CASE U = <<>>
      <4>1. X = V /\ Y = W
        BY <3>1
      <4>2. V = <<>> \/ W = <<>> => Collapse(Y) = <<>>
        BY <2>2, <4>1, CollapseOfEmpty
      <4> HIDE DEF X, Y
      <4> QED BY <4>1, <4>2 DEF AtGap
    <3>2. CASE U # <<>>
      <4>1. X[Len(X)] = U[Len(U)] /\ Y[Len(Y)] = U[Len(U)]
        BY <3>2
      <4> QED BY <4>1
    <3> QED BY <3>1, <3>2
  <2> HIDE DEF X, Y
  <2>4. Collapse(Append(X, c)) = Collapse(Append(Y, c))
    <3>1. CASE IsSpace(c)
      BY <2>1, <2>2, <3>1, CollapseOfAppend
    <3>2. CASE ~IsSpace(c)
      <4>1. /\ Collapse(Append(X, c)) =
                 IF Collapse(X) # <<>> /\ IsSpace(X[Len(X)]) THEN Collapse(X) \o <<Space, c>>
                 ELSE Append(Collapse(X), c)
            /\ Collapse(Append(Y, c)) =
                 IF Collapse(Y) # <<>> /\ IsSpace(Y[Len(Y)]) THEN Collapse(Y) \o <<Space, c>>
                 ELSE Append(Collapse(Y), c)
        BY <2>1, <3>2, CollapseOfAppend
      <4> QED BY <2>2, <2>3, <4>1
    <3> QED BY <3>1, <3>2
  <2> QED BY <2>1, <2>4
<1>5. \A U \in Seq(S) : U \in good
  <2> HIDE DEF good
  <2> QED BY <1>3, <1>4, Appending
<1> QED BY <1>5

LEMMA BlankCountsOnce ==
  ASSUME NEW S, Space \in S, NEW W \in Seq(S), AtGap(W), NEW b \in S, IsSpace(b)
  PROVE  \A U \in Seq(S) : Collapse((W \o <<b>>) \o U) = Collapse(W \o U)
<1> DEFINE V == W \o <<b>>
<1>1. V = Append(W, b) /\ V \in Seq(S) /\ V # <<>> /\ V[Len(V)] = b
  OBVIOUS
<1> HIDE DEF V
<1>2. Collapse(V) = Collapse(W) /\ AtGap(V)
  BY <1>1, CollapseOfAppend DEF AtGap
<1>3. \A U \in Seq(S) : Collapse(V \o U) = Collapse(W \o U)
  BY <1>1, <1>2, SameGapSameRest
<1> QED BY <1>3 DEF V

(* Blanks in front and behind count for nothing.                           *)
AllBlank(s) == \A i \in DOMAIN s : IsSpace(s[i])

LEMMA BlanksInFront ==
  ASSUME NEW S, Space \in S, NEW A \in Seq(S), AllBlank(A), NEW U \in Seq(S)
  PROVE  Collapse(A \o U) = Collapse(U)
<1> DEFINE good == {B \in Seq(S) : AllBlank(B) => Collapse(B \o U) = Collapse(U)}
<1>1. <<>> \in good
  <2>1. <<>> \o U = U /\ <<>> \in Seq(S)
    OBVIOUS
  <2> QED BY <2>1
<1>2. ASSUME NEW B \in Seq(S), NEW c \in S, B \in good PROVE Append(B, c) \in good
  <2> SUFFICES ASSUME AllBlank(Append(B, c)) PROVE Collapse(Append(B, c) \o U) = Collapse(U)
    OBVIOUS
  <2> DEFINE V == Append(B, c)
  <2>1. /\ Len(V) \in DOMAIN V /\ V[Len(V)] = c
        /\ \A i \in DOMAIN B : i \in DOMAIN V /\ B[i] = V[i]
    OBVIOUS
  <2>a. V = B \o <<c>> /\ (B # <<>> => Len(B) \in DOMAIN B)
    OBVIOUS
  <2>b. AllBlank(V)
    OBVIOUS
  <2> HIDE DEF V
  <2>c. \A i \in DOMAIN V : IsSpace(V[i])
    BY <2>b DEF AllBlank
  <2>d. \A i \in DOMAIN B : IsSpace(B[i])
    BY <2>1, <2>c
  <2>2. IsSpace(c) /\ AllBlank(B)
    BY <2>1, <2>c, <2>d DEF AllBlank
  <2>3. AtGap(B)
    BY <2>a, <2>2 DEF AtGap, AllBlank
  <2>4. Collapse((B \o <<c>>) \o U) = Collapse(B \o U)
    BY <2>2, <2>3, BlankCountsOnce
  <2> QED BY <1>2, <2>a, <2>2, <2>4 DEF V
<1>3. \A B \in Seq(S) : B \in good
  <2> HIDE DEF good
  <2> QED BY <1>1, <1>2, Appending
<1> QED BY <1>3

LEMMA BlanksBehind ==
  ASSUME NEW S, Space \in S, NEW U \in Seq(S), NEW A \in Seq(S), AllBlank(A)
  PROVE  Collapse(U \o A) = Collapse(U)
<1> DEFINE good == {B \in Seq(S) : AllBlank(B) => Collapse(U \o B) = Collapse(U)}
<1>1. <<>> \in good
  <2>1. U \o <<>> = U /\ <<>> \in Seq(S)
    OBVIOUS
  <2> QED BY <2>1
<1>2. ASSUME NEW B \in Seq(S), NEW c \in S, B \in good PROVE Append(B, c) \in good
  <2> SUFFICES ASSUME AllBlank(Append(B, c)) PROVE Collapse(U \o Append(B, c)) = Collapse(U)
    OBVIOUS
  <2> DEFINE V == Append(B, c)
  <2>1. /\ U \o V = Append(U \o B, c) /\ U \o B \in Seq(S)
        /\ Len(V) \in DOMAIN V /\ V[Len(V)] = c
        /\ \A i \in DOMAIN B : i \in DOMAIN V /\ B[i] = V[i]
    OBVIOUS
  <2> HIDE DEF V
  <2>c. \A i \in DOMAIN V : IsSpace(V[i])
    BY DEF AllBlank, V
  <2>d. \A i \in DOMAIN B : IsSpace(B[i])
    BY <2>1, <2>c
  <2>2. IsSpace(c) /\ AllBlank(B)
    BY <2>1, <2>c, <2>d DEF AllBlank
  <2>3. Collapse(Append(U \o B, c)) = Collapse(U \o B)
    BY <2>1, <2>2, CollapseOfAppend
  <2> QED BY <1>2, <2>1, <2>2, <2>3 DEF V
<1>3. \A B \in Seq(S) : B \in good
  <2> HIDE DEF good
  <2> QED BY <1>1, <1>2, Appending
<1> QED BY <1>3

LEMMA SplitAt ==
  ASSUME NEW S, NEW s \in Seq(S), NEW i \in 0..Len(s)
  PROVE  SubSeq(s, 1, i) \o SubSeq(s, i + 1, Len(s)) = s
<1> DEFINE A == SubSeq(s, 1, i)
           B == SubSeq(s, i + 1, Len(s))
<1>1. /\ A \in Seq(S) /\ Len(A) = i /\ B \in Seq(S) /\ Len(B) = Len(s) - i
      /\ \A k \in 1..i : A[k] = s[k]
      /\ \A k \in 1..(Len(s) - i) : B[k] = s[i + k]
  OBVIOUS
<1>c. A \in Seq(S) /\ B \in Seq(S) /\ Len(A) = i
  OBVIOUS
<1> HIDE DEF A, B
<1>b. i \in Nat /\ Len(s) \in Nat /\ i + (Len(s) - i) = Len(s)
  OBVIOUS
<1>2. A \o B \in Seq(S) /\ Len(A \o B) = Len(s)
  <2>1. A \o B \in Seq(S) /\ Len(A \o B) = Len(A) + Len(B)
    BY <1>c
  <2> QED BY <1>1, <1>b, <2>1
<1>a. ASSUME NEW k \in 1..Len(s) PROVE (A \o B)[k] = s[k]
  <2>1. CASE k <= i
    <3>1. k \in 1..Len(A) /\ k \in 1..i
      BY <1>b, <1>c, <2>1
    <3>2. (A \o B)[k] = A[k]
      BY <1>c, <3>1
    <3> QED BY <1>1, <3>1, <3>2
  <2>2. CASE k > i
    <3>1. k - i \in 1..(Len(s) - i) /\ i + (k - i) = k
      BY <2>2
    <3>2. B[k - i] = s[k]
      BY <1>1, <3>1
    <3>3. (A \o B)[k] = B[k - Len(A)]
      <4>1. k \in (Len(A) + 1)..(Len(A) + Len(B))
        BY <1>1, <1>b, <2>2
      <4> QED BY <1>c, <4>1
    <3>4. k - Len(A) = k - i
      BY <1>c
    <3> QED BY <3>2, <3>3, <3>4
  <2>3. k <= i \/ k > i
    BY <1>b
  <2> QED BY <2>1, <2>2, <2>3, Zenon
<1>3. A \o B = s
  BY <1>2, <1>a, SeqEqual
<1> QED BY <1>3 DEF A, B

LEMMA TrimmedWords ==
  ASSUME NEW S, Space \in S, NEW s \in Seq(S)
  PROVE  Collapse(TrimSpace(s)) = Collapse(s)
<1>1. CASE AllSpace(s, 1, Len(s)) /\ TrimSpace(s) = <<>>
  <2>1. AllBlank(s) /\ s \o <<>> = s /\ <<>> \in Seq(S)
    BY <1>1 DEF AllSpace, AllBlank
  <2>2. Collapse(s \o <<>>) = Collapse(<<>>)
    BY <2>1, BlanksInFront
  <2> QED BY <1>1, <2>1, <2>2
<1>2. ASSUME NEW a \in 1..Len(s), NEW b \in a..Len(s),
             AllSpace(s, 1, a - 1), AllSpace(s, b + 1, Len(s)), TrimSpace(s) = SubSeq(s, a, b)
      PROVE  Collapse(TrimSpace(s)) = Collapse(s)
  <2> DEFINE A == SubSeq(s, 1, a - 1)
             M == SubSeq(s, a, b)
             B == SubSeq(s, b + 1, Len(s))
  <2>1. A \in Seq(S) /\ M \in Seq(S) /\ B \in Seq(S)
    OBVIOUS
  <2>2. A \o (M \o B) = s
    <3>1. M \o B = SubSeq(s, a, Len(s))
      <4>1. a \in 1..(Len(s) + 1) /\ b \in (a - 1)..Len(s) /\ Len(s) \in b..Len(s)
        OBVIOUS
      <4> QED BY <4>1, ConcatAdjacentSubSeq
    <3>2. A \o SubSeq(s, a, Len(s)) = s
      <4>1. a - 1 \in 0..Len(s) /\ a - 1 + 1 = a
        OBVIOUS
      <4>2. SubSeq(s, 1, a - 1) \o SubSeq(s, a - 1 + 1, Len(s)) = s
        BY <4>1, SplitAt
      <4> QED BY <4>1, <4>2
    <3> QED BY <3>1, <3>2
  <2>3. AllBlank(A)
    BY <1>2 DEF AllBlank, AllSpace
  <2>4. AllBlank(B)
    <3> SUFFICES ASSUME NEW i \in DOMAIN B PROVE IsSpace(B[i])
      BY DEF AllBlank
    <3>1. B[i] = s[b + i] /\ b + i \in (b + 1)..Len(s)
      OBVIOUS
    <3> QED BY <1>2, <3>1 DEF AllSpace
  <2> HIDE DEF A, M, B
  <2>5. M \o B \in Seq(S)
    BY <2>1
  <2>6. Collapse(s) = Collapse(M \o B)
    BY <2>1, <2>2, <2>3, <2>5, BlanksInFront
  <2>7. Collapse(M \o B) = Collapse(M)
    BY <2>1, <2>4, BlanksBehind
  <2> QED BY <1>2, <2>6, <2>7 DEF M
<1> QED BY <1>1, <1>2, TrimmedRun

(* The same words, whatever stands before them, or before them and a gap.  *)
SameBehind(S, T, U) == \A W \in Seq(S) : Collapse(W \o T) = Collapse(W \o U)
SameBehindGap(S, T, U) == \A W \in Seq(S) : AtGap(W) => Collapse(W \o T) = Collapse(W \o U)

LEMMA SameWithPrefix ==
  ASSUME NEW S, NEW T \in Seq(S), NEW U \in Seq(S), NEW Z \in Seq(S),
         \/ SameBehind(S, T, U)
         \/ SameBehindGap(S, T, U) /\ Z # <<>> /\ AtGap(Z)
  PROVE  SameBehind(S, Z \o T, Z \o U)
<1> SUFFICES ASSUME NEW W \in Seq(S) PROVE Collapse(W \o (Z \o T)) = Collapse(W \o (Z \o U))
  BY DEF SameBehind
<1> DEFINE V == W \o Z
<1>1. V \in Seq(S) /\ W \o (Z \o T) = V \o T /\ W \o (Z \o U) = V \o U
  BY SMTT(30)
<1>2. Z # <<>> => V # <<>> /\ V[Len(V)] = Z[Len(Z)]
  OBVIOUS
<1> HIDE DEF V
<1>3. Z # <<>> /\ AtGap(Z) => AtGap(V)
  BY <1>2 DEF AtGap
<1>4. Collapse(V \o T) = Collapse(V \o U)
  BY <1>1, <1>3 DEF SameBehind, SameBehindGap
<1> QED BY <1>1, <1>4

LEMMA BlankSwallowed ==
  ASSUME NEW S, Space \in S, NEW b \in S, IsSpace(b), NEW T \in Seq(S), NEW U \in Seq(S),
         SameBehind(S, <<b>> \o T, U)
  PROVE  SameBehindGap(S, T, U)
<1> SUFFICES ASSUME NEW W \in Seq(S), AtGap(W) PROVE Collapse(W \o T) = Collapse(W \o U)
  BY DEF SameBehindGap
<1>1. W \o (<<b>> \o T) = (W \o <<b>>) \o T
  OBVIOUS
<1>2. Collapse((W \o <<b>>) \o T) = Collapse(W \o T)
  BY BlankCountsOnce
<1>3. Collapse(W \o (<<b>> \o T)) = Collapse(W \o U)
  BY DEF SameBehind
<1> QED BY <1>1, <1>2, <1>3

(***************************************************************************)
(* The links of a tweet.                                                   *)
(***************************************************************************)
(* The pieces behind a place, joined.                                      *)
RestOf(pieces, r) == /\ r[Len(pieces)] = <<>> /\ r[0] = Joined(pieces)
                     /\ \A k \in 1..Len(pieces) : r[k - 1] = pieces[k] \o r[k]

LEMMA JoinedBehind ==
  ASSUME NEW S, NEW pieces \in Seq(Seq(S))
  PROVE  \E r \in [0..Len(pieces) -> Seq(S)] : RestOf(pieces, r)
<1> DEFINE n == Len(pieces)
           move == [k \in 1..n |-> [t \in Seq(S) |-> pieces[n + 1 - k] \o t]]
<1>1. n \in Nat /\ <<>> \in Seq(S) /\ \A k \in 1..n : pieces[k] \in Seq(S)
  OBVIOUS
<1>2. ASSUME NEW k \in 1..n, NEW t \in Seq(S)
      PROVE  /\ move[k][t] = pieces[n + 1 - k] \o t /\ move[k][t] \in Seq(S)
  <2>1. n + 1 - k \in 1..n
    BY <1>1
  <2>2. pieces[n + 1 - k] \in Seq(S)
    BY <1>1, <2>1
  <2>3. pieces[n + 1 - k] \o t \in Seq(S)
    BY <2>2
  <2> QED BY <2>3
<1>3. StaysIn(move, n, Seq(S))
  <2> HIDE DEF move
  <2> QED BY <1>2 DEF StaysIn
<1>4. PICK g \in [0..n -> Seq(S)] : Follows(g, <<>>, move, n)
  <2> HIDE DEF move, n
  <2> QED BY <1>1, <1>3, Recursion
<1>5. PICK f : /\ f = [k \in 0..n |-> IF k = 0 THEN <<>> ELSE f[k - 1] \o pieces[k]]
               /\ Joined(pieces) = f[n]
  BY JoinedSteps
<1> HIDE DEF n
<1>6. f[0] = <<>> /\ \A k \in 1..n : f[k] = f[k - 1] \o pieces[k]
  <2>1. 0 \in 0..n /\ \A k \in 1..n : k \in 0..n /\ k # 0
    BY <1>1
  <2>2. f[0] = <<>>
    BY <1>5, <2>1
  <2>3. ASSUME NEW k \in 1..n PROVE f[k] = f[k - 1] \o pieces[k]
    BY <1>5, <2>1
  <2> QED BY <2>2, <2>3
<1>a. \A x, y, z \in Seq(S) : (x \o y) \o z = x \o (y \o z)
  OBVIOUS
<1> DEFINE r == [k \in 0..n |-> g[n - k]]
<1>7. r \in [0..n -> Seq(S)]
  BY <1>1
<1>8. r[n] = <<>>
  <2>1. r[n] = g[0]
    BY <1>1
  <2> QED BY <1>4, <2>1 DEF Follows
<1>9. ASSUME NEW k \in 1..n PROVE r[k - 1] = pieces[k] \o r[k]
  <2> DEFINE m == n + 1 - k
  <2>1. m \in 1..n /\ m - 1 \in 0..n /\ n + 1 - m = k /\ r[k - 1] = g[m] /\ r[k] = g[m - 1]
    BY <1>1
  <2> HIDE DEF m, r
  <2>2. g[m - 1] \in Seq(S)
    BY <2>1
  <2>3. g[m] = move[m][g[m - 1]]
    BY <1>4, <2>1 DEF Follows
  <2>4. move[m][g[m - 1]] = pieces[k] \o g[m - 1]
    <3> HIDE DEF move
    <3> QED BY <1>2, <2>1, <2>2
  <2> QED BY <2>1, <2>3, <2>4
<1> HIDE DEF r
<1> DEFINE good == {k \in 0..n : f[k] \in Seq(S) /\ f[k] \o r[k] = r[0]}
<1>10. 0 \in good
  <2>1. 0 \in 0..n /\ r[0] \in Seq(S) /\ <<>> \in Seq(S)
    BY <1>1, <1>7
  <2>2. <<>> \o r[0] = r[0]
    BY <2>1
  <2> QED BY <1>6, <2>1, <2>2
<1>11. ASSUME NEW k \in 1..n, k - 1 \in good PROVE k \in good
  <2>1. k \in 0..n /\ k - 1 \in 0..n
    BY <1>1
  <2>2. f[k - 1] \in Seq(S) /\ pieces[k] \in Seq(S) /\ r[k] \in Seq(S)
    BY <1>1, <1>7, <1>11, <2>1
  <2>a. f[k - 1] \o pieces[k] \in Seq(S)
    BY <2>2
  <2>3. f[k] = f[k - 1] \o pieces[k] /\ f[k] \in Seq(S)
    BY <1>6, <2>a
  <2>4. (f[k - 1] \o pieces[k]) \o r[k] = f[k - 1] \o (pieces[k] \o r[k])
    BY <1>a, <2>2
  <2>5. f[k - 1] \o r[k - 1] = r[0]
    BY <1>11
  <2> QED BY <1>9, <2>1, <2>3, <2>4, <2>5
<1>12. n \in good
  <2>1. n \in 0..n
    BY <1>1
  <2> HIDE DEF good
  <2> QED BY <1>1, <1>10, <1>11, <2>1, Counting
<1>13. r[0] = Joined(pieces)
  <2>1. f[n] \in Seq(S) /\ f[n] \o <<>> = r[0]
    BY <1>8, <1>12
  <2>2. f[n] \o <<>> = f[n]
    BY <2>1
  <2> QED BY <1>5, <2>1, <2>2
<1>14. RestOf(pieces, r)
  BY <1>8, <1>9, <1>13 DEF RestOf, n
<1> QED BY <1>7, <1>14 DEF n

(* Pieces that are the characters themselves.                              *)
PlainBetween(r, t, a, c) == r[a] = SubSeq(t, a + 1, c) \o r[c]

LEMMA RestOfPlain ==
  ASSUME NEW S, NEW t \in Seq(S), NEW pieces \in Seq(Seq(S)), Len(pieces) = Len(t),
         NEW r \in [0..Len(t) -> Seq(S)], RestOf(pieces, r),
         NEW a \in 0..Len(t), NEW c \in a..Len(t),
         \A i \in (a + 1)..c : pieces[i] = <<t[i]>>
  PROVE  PlainBetween(r, t, a, c)
<1> DEFINE n == Len(t)
           part(d) == SubSeq(t, c - d + 1, c)
           good == {d \in 0..(c - a) : r[c - d] = part(d) \o r[c]}
<1>a. \A x, y, z \in Seq(S) : (x \o y) \o z = x \o (y \o z)
  BY SMTT(30)
<1>b. n \in Nat /\ a \in 0..n /\ c \in a..n /\ c \in 0..n /\ \A k \in 1..n : t[k] \in S
  OBVIOUS
<1>c. \A k \in 1..n : r[k - 1] = pieces[k] \o r[k]
  BY DEF RestOf
<1>1. /\ n \in Nat /\ a \in 0..n /\ c \in a..n /\ r[c] \in Seq(S)
      /\ \A k \in 1..n : r[k - 1] = pieces[k] \o r[k] /\ t[k] \in S
  BY <1>b, <1>c
<1>2. part(0) = <<>>
  BY <1>1
<1>3. ASSUME NEW d \in 1..(c - a)
      PROVE  /\ part(d) = <<t[c - d + 1]>> \o part(d - 1)
             /\ part(d - 1) \in Seq(S) /\ <<t[c - d + 1]>> \in Seq(S)
  <2>1. /\ c - d + 1 \in 1..Len(t) /\ c \in (c - d + 1)..Len(t)
        /\ c - d + 1 + 1 = c - (d - 1) + 1
    BY <1>1
  <2>2. SubSeq(t, c - d + 1, c) = <<t[c - d + 1]>> \o SubSeq(t, c - d + 1 + 1, c)
    BY <2>1, SubSeqRecursiveFirst
  <2>3. SubSeq(t, c - d + 1 + 1, c) \in Seq(S)
    BY <2>1
  <2> QED BY SMTT(30), <1>1, <2>1, <2>2, <2>3
<1> HIDE DEF part, n
<1>4. 0 \in good
  <2>1. c - 0 = c /\ 0 \in 0..(c - a) /\ <<>> \o r[c] = r[c]
    BY <1>1
  <2> QED BY <1>2, <2>1
<1>5. ASSUME NEW d \in 1..(c - a), d - 1 \in good PROVE d \in good
  <2> DEFINE k == c - d + 1
  <2>1. /\ k \in (a + 1)..c /\ k \in 1..n /\ k - 1 = c - d /\ k = c - (d - 1)
        /\ d \in 0..(c - a)
    BY <1>1
  <2>2. r[c - (d - 1)] = part(d - 1) \o r[c]
    BY <1>5
  <2> HIDE DEF k
  <2>3. r[c - d] = <<t[k]>> \o (part(d - 1) \o r[c])
    BY <1>1, <2>1, <2>2
  <2>4. part(d) = <<t[k]>> \o part(d - 1) /\ part(d - 1) \in Seq(S) /\ <<t[k]>> \in Seq(S)
    BY <1>3 DEF k
  <2>5. (<<t[k]>> \o part(d - 1)) \o r[c] = <<t[k]>> \o (part(d - 1) \o r[c])
    BY <1>1, <1>a, <2>4
  <2> QED BY <2>1, <2>3, <2>4, <2>5
<1>6. c - a \in good
  <2>1. c - a \in Nat /\ c - a \in 0..(c - a)
    BY <1>1
  <2> HIDE DEF good
  <2> QED BY <1>4, <1>5, <2>1, Counting
<1>7. r[c - (c - a)] = part(c - a) \o r[c]
  BY <1>6
<1>8. c - (c - a) = a
  BY <1>1
<1>9. part(c - a) = SubSeq(t, a + 1, c)
  BY <1>8 DEF part
<1> QED BY <1>7, <1>8, <1>9 DEF PlainBetween

(* What comes first in an order has the lower number.                      *)
LEMMA RanksGrow ==
  ASSUME NEW D, IsFiniteSet(D), NEW R, Orders(R, D)
  PROVE  /\ \A i \in D : Cardinality(UpToIn(R, D, i)) \in 1..Cardinality(D)
         /\ \A i, j \in D : <<i, j>> \in R /\ i # j =>
              Cardinality(UpToIn(R, D, i)) < Cardinality(UpToIn(R, D, j))
<1>1. ASSUME NEW i \in D
      PROVE  /\ IsFiniteSet(UpToIn(R, D, i))
             /\ Cardinality(UpToIn(R, D, i)) \in 1..Cardinality(D)
             /\ Cardinality(UpToIn(R, D, i)) \in Nat
  <2> DEFINE few == UpToIn(R, D, i)
  <2>1. few \in SUBSET D /\ i \in few
    BY DEF Orders, UpToIn
  <2> HIDE DEF few
  <2>2. IsFiniteSet(few) /\ Cardinality(few) <= Cardinality(D)
    BY <2>1, FS_Subset
  <2>3. Cardinality(few) \in Nat /\ Cardinality(D) \in Nat /\ Cardinality(few) # 0
    BY <2>1, <2>2, FS_CardinalityType, FS_EmptySet
  <2>4. Cardinality(few) \in 1..Cardinality(D)
    BY <2>2, <2>3
  <2> QED BY <2>2, <2>3, <2>4 DEF few
<1>2. ASSUME NEW i \in D, NEW j \in D, <<i, j>> \in R, i # j
      PROVE  Cardinality(UpToIn(R, D, i)) < Cardinality(UpToIn(R, D, j))
  <2> DEFINE few == UpToIn(R, D, i)
             more == UpToIn(R, D, j)
  <2>1. few \in SUBSET more
    BY <1>2 DEF Orders, UpToIn
  <2>2. j \in more /\ j \notin few
    BY <1>2 DEF Orders, UpToIn
  <2>3. IsFiniteSet(more) /\ Cardinality(few) \in Nat /\ Cardinality(more) \in Nat
    BY <1>1
  <2> HIDE DEF few, more
  <2>4. Cardinality(few) <= Cardinality(more) /\ Cardinality(few) # Cardinality(more)
    BY <2>1, <2>2, <2>3, FS_Subset
  <2>5. Cardinality(few) < Cardinality(more)
    BY <2>3, <2>4
  <2> QED BY <2>5 DEF few, more
<1> QED BY <1>1, <1>2

(* Backwards loses no entity, and no one before another starts earlier.    *)
InOrder(sorted, entities) ==
  /\ \A i \in DOMAIN entities : \E k \in 1..Len(entities) : sorted[k] = entities[i]
  /\ \A k \in 1..Len(entities) : \E i \in DOMAIN entities : sorted[k] = entities[i]
  /\ \A k, l \in 1..Len(entities) : k < l => sorted[l].start <= sorted[k].start

LEMMA BackwardsInOrder ==
  ASSUME NEW entities \in Seq(Entities)
  PROVE  InOrder(Backwards(entities), entities)
<1> DEFINE n == Len(entities)
           D == DOMAIN entities
           Later(j, i) == \/ EditedBefore(entities[j], entities[i])
                          \/ ~EditedBefore(entities[i], entities[j]) /\ j <= i
           R == {p \in D \X D : Later(p[1], p[2])}
           upTo(i) == {j \in D : Later(j, i)}
           rank(i) == Cardinality(upTo(i))
           at(k) == CHOOSE i \in D : rank(i) = k
<1>1. D = 1..n /\ n \in Nat
  OBVIOUS
<1>a. \A i \in D : entities[i] \in Entities /\ i \in Nat
  OBVIOUS
<1>2. \A i \in D : entities[i].start \in Int /\ i \in Nat
  BY <1>a DEF Entities
<1>3. \A i, j \in D : <<j, i>> \in R <=>
                        \/ entities[j].start > entities[i].start
                        \/ entities[j].start = entities[i].start /\ j <= i
  BY <1>2 DEF EditedBefore
<1>b. \A i \in D : UpToIn(R, D, i) = upTo(i)
  BY DEF UpToIn
<1>c. Backwards(entities) = [k \in D |-> entities[at(k)]]
  BY DEF Backwards
<1> HIDE DEF R
<1>4. Orders(R, D)
  <2>1. \A i \in D : <<i, i>> \in R
    BY <1>2, <1>3
  <2>2. ASSUME NEW i \in D, NEW j \in D PROVE <<i, j>> \in R \/ <<j, i>> \in R
    <3>1. entities[i].start \in Int /\ entities[j].start \in Int /\ i \in Nat /\ j \in Nat
      BY <1>2
    <3> QED BY <1>3, <3>1
  <2>3. \A i, j \in D : <<i, j>> \in R /\ <<j, i>> \in R => i = j
    BY <1>2, <1>3
  <2>4. \A i, j, k \in D : <<i, j>> \in R /\ <<j, k>> \in R => <<i, k>> \in R
    BY <1>2, <1>3
  <2> QED BY <2>1, <2>2, <2>3, <2>4 DEF Orders
<1>5. IsFiniteSet(D) /\ Cardinality(D) = n
  BY <1>1, FirstNumbers
<1> HIDE DEF D, n
<1>6. /\ \A i \in D : Cardinality(UpToIn(R, D, i)) \in 1..n
      /\ \A i, j \in D : <<i, j>> \in R /\ i # j =>
           Cardinality(UpToIn(R, D, i)) < Cardinality(UpToIn(R, D, j))
      /\ \A k \in 1..n : \E i \in D : Cardinality(UpToIn(R, D, i)) = k
  BY <1>4, <1>5, RanksGrow, Ranked
<1> HIDE DEF upTo
<1>7. /\ \A i \in D : rank(i) \in 1..n
      /\ \A i, j \in D : <<i, j>> \in R /\ i # j => rank(i) < rank(j)
      /\ \A k \in 1..n : \E i \in D : rank(i) = k
  BY <1>6, <1>b
<1> HIDE DEF rank
<1>8. \A k \in 1..n : at(k) \in D /\ rank(at(k)) = k
  BY <1>7
<1>9. \A i \in D : at(rank(i)) = i
  <2> SUFFICES ASSUME NEW i \in D PROVE at(rank(i)) = i
    OBVIOUS
  <2>1. rank(i) \in 1..n
    BY <1>7
  <2>2. at(rank(i)) \in D /\ rank(at(rank(i))) = rank(i)
    BY <1>8, <2>1
  <2> HIDE DEF at
  <2> DEFINE j == at(rank(i))
  <2>3. j \in D /\ rank(j) = rank(i)
    BY <2>2
  <2> HIDE DEF j
  <2>4. i # j => rank(i) < rank(j) \/ rank(j) < rank(i)
    BY <1>4, <1>7, <2>3 DEF Orders
  <2>5. i = j
    BY <1>1, <2>1, <2>3, <2>4
  <2> QED BY <2>5 DEF j
<1> HIDE DEF at
<1>10. \A k \in 1..n : Backwards(entities)[k] = entities[at(k)]
  BY <1>1, <1>c
<1>11. \A i \in D : \E k \in 1..n : Backwards(entities)[k] = entities[i]
  BY <1>7, <1>9, <1>10
<1>12. \A k \in 1..n : \E i \in D : Backwards(entities)[k] = entities[i]
  BY <1>8, <1>10
<1>13. ASSUME NEW k \in 1..n, NEW l \in 1..n, k < l
       PROVE  Backwards(entities)[l].start <= Backwards(entities)[k].start
  <2> DEFINE i == at(k)
             j == at(l)
  <2>1. i \in D /\ j \in D /\ rank(i) = k /\ rank(j) = l
    BY <1>8
  <2> HIDE DEF i, j
  <2>2. ~(<<j, i>> \in R)
    <3>1. i # j
      BY <1>13, <2>1
    <3>2. ~(l < k)
      BY <1>1, <1>13
    <3> QED BY <1>7, <2>1, <3>1, <3>2
  <2>3. ~(entities[j].start > entities[i].start)
    BY <1>3, <2>1, <2>2
  <2>4. entities[j].start <= entities[i].start
    BY <1>2, <2>1, <2>3
  <2> QED BY <1>10, <2>4 DEF i, j
<1> QED BY <1>11, <1>12, <1>13 DEF InOrder, n, D

(* The editing, entity by entity.                                          *)
Edited(f, t, entities) ==
  /\ f[0] = [text |-> t, removed |-> FALSE]
  /\ \A k \in 1..Len(entities) : f[k] = Edit(f[k - 1], Backwards(entities)[k])
  /\ ExpandTweetURLs(t, entities) = IF f[Len(entities)].removed
                                    THEN TrimSpace(f[Len(entities)].text)
                                    ELSE f[Len(entities)].text

LEMMA EditingSteps ==
  ASSUME NEW s \in Seq(Chars), NEW entities \in Seq(Entities)
  PROVE  \E f \in [0..Len(entities) -> Drafts] : Edited(f, s, entities)
<1> DEFINE n == Len(entities)
           sorted == Backwards(entities)
           first == [text |-> s, removed |-> FALSE]
           Edits(f) == f = [k \in 0..n |-> IF k = 0 THEN first ELSE Edit(f[k - 1], sorted[k])]
           edited == CHOOSE f : Edits(f)
           move == [k \in 1..n |-> [done \in Drafts |-> Edit(done, sorted[k])]]
<1>1. n \in Nat /\ sorted \in Seq(Entities) /\ Len(sorted) = n
  BY BackwardsIsSeq
<1>2. first \in Drafts
  BY DEF Drafts
<1>3. \A k \in 1..n : sorted[k] \in Entities
  <2> HIDE DEF sorted, n
  <2> QED BY <1>1
<1> HIDE DEF n, sorted, first
<1>4. ASSUME NEW k \in 1..n, NEW done \in Drafts
      PROVE  move[k][done] = Edit(done, sorted[k]) /\ move[k][done] \in Drafts
  BY <1>3, EditIsText
<1>5. StaysIn(move, n, Drafts)
  BY <1>4 DEF StaysIn
<1>6. PICK f \in [0..n -> Drafts] : Follows(f, first, move, n)
  <2> HIDE DEF move
  <2> QED BY <1>1, <1>2, <1>5, Recursion
<1>7. ASSUME NEW k \in 1..n PROVE f[k] = Edit(f[k - 1], sorted[k])
  <2>1. k - 1 \in 0..n
    BY <1>1
  <2>2. f[k - 1] \in Drafts
    BY <2>1
  <2>3. f[k] = move[k][f[k - 1]]
    BY <1>6 DEF Follows
  <2> HIDE DEF move
  <2> QED BY <1>4, <2>2, <2>3
<1>8. Edits(f)
  <2>1. ASSUME NEW k \in 0..n
        PROVE  f[k] = IF k = 0 THEN first ELSE Edit(f[k - 1], sorted[k])
    <3>1. CASE k = 0
      BY <1>6, <3>1 DEF Follows
    <3>2. CASE k # 0
      <4>1. k \in 1..n
        BY <1>1, <3>2
      <4> QED BY <1>7, <3>2, <4>1
    <3> QED BY <3>1, <3>2
  <2> HIDE DEF move
  <2> QED BY <2>1
<1>9. Edits(edited)
  <2> HIDE DEF Edits
  <2> QED BY <1>8
<1>10. edited = [k \in 0..n |-> IF k = 0 THEN first ELSE Edit(edited[k - 1], sorted[k])]
  BY <1>9
<1>11. ExpandTweetURLs(s, entities) =
         IF edited[n].removed THEN TrimSpace(edited[n].text) ELSE edited[n].text
  BY DEF ExpandTweetURLs, n, sorted, first
<1> HIDE DEF edited
<1>12. edited[0] = first
  BY <1>1, <1>10
<1>13. ASSUME NEW k \in 1..n
       PROVE  k \in 0..n /\ edited[k] = Edit(edited[k - 1], sorted[k])
  <2>1. k \in 0..n /\ k # 0
    BY <1>1
  <2> QED BY <1>10, <2>1
<1> DEFINE good == {k \in 0..n : edited[k] \in Drafts}
<1>14. 0 \in good
  BY <1>1, <1>2, <1>12
<1>15. ASSUME NEW k \in 1..n, k - 1 \in good PROVE k \in good
  <2>1. edited[k - 1] \in Drafts /\ sorted[k] \in Entities
    BY <1>3, <1>15
  <2> QED BY <1>13, <2>1, EditIsText
<1>16. \A k \in 0..n : k \in good
  <2> HIDE DEF good
  <2> QED BY <1>1, <1>14, <1>15, Counting
<1>17. edited \in [0..n -> Drafts]
  <2>1. \A k \in 0..n : edited[k] \in Drafts
    BY <1>16
  <2>2. DOMAIN edited = 0..n /\ edited = [k \in 0..n |-> edited[k]]
    BY <1>10
  <2> QED BY <2>1, <2>2
<1>18. Edited(edited, s, entities)
  BY <1>11, <1>12, <1>13 DEF Edited, n, sorted, first
<1> QED BY <1>17, <1>18 DEF n

(* What X sends with a tweet.  A short link is no white space, and all     *)
(* entities of one short link lead to the same; wherever the tweet has the *)
(* link there is an entity for that place; and what it leads to has no     *)
(* white space and no short link in it.                                    *)
Placed(e) == e.end = e.start + 1

LinksFit(t, entities) ==
  \A k \in DOMAIN entities : Placed(entities[k]) =>
    /\ ~IsSpace(entities[k].url)
    /\ \A i \in DOMAIN entities[k].expanded : ~IsSpace(entities[k].expanded[i])
    /\ \A l \in DOMAIN entities : Placed(entities[l]) =>
         /\ entities[l].url = entities[k].url =>
              entities[l].media = entities[k].media /\ entities[l].expanded = entities[k].expanded
         /\ \A i \in DOMAIN entities[k].expanded : entities[k].expanded[i] # entities[l].url
    /\ \A i \in DOMAIN t : t[i] = entities[k].url =>
         \E l \in DOMAIN entities : Spans(entities[l], t) /\ entities[l].start = i - 1

(* What stands in the place of a link, and at each place of the tweet.     *)
Stands(e) == IF e.media THEN <<>> ELSE IF e.expanded = <<>> THEN <<e.url>> ELSE e.expanded
SpanningAt(t, entities, i) ==
  {k \in DOMAIN entities : Spans(entities[k], t) /\ entities[k].start = i - 1}
Piece(t, entities, i) ==
  IF SpanningAt(t, entities, i) = {} THEN <<t[i]>>
  ELSE Stands(entities[CHOOSE k \in SpanningAt(t, entities, i) : TRUE])
Pieces(t, entities) == [i \in DOMAIN t |-> Piece(t, entities, i)]

LEMMA SpanIsOne ==
  ASSUME NEW t \in Seq(Chars), NEW e \in Entities, Spans(e, t)
  PROVE  /\ e.start \in 0..(Len(t) - 1) /\ e.end = e.start + 1 /\ Placed(e)
         /\ t[e.start + 1] = e.url
<1>1. e.start \in Int /\ e.end \in Int /\ 0 <= e.start /\ e.start < e.end /\ e.end <= Len(t)
  BY DEF Spans, Entities
<1> DEFINE part == SubSeq(t, e.start + 1, e.end)
<1>2. Len(part) = e.end - e.start /\ part[1] = t[e.start + 1] /\ Len(t) \in Nat
  BY <1>1
<1>3. part = <<e.url>>
  BY DEF Spans
<1>4. Len(part) = 1 /\ part[1] = e.url
  <2> HIDE DEF part
  <2> QED BY <1>3
<1> HIDE DEF part
<1>5. e.end = e.start + 1
  <2>1. e.end - e.start = 1
    BY <1>2, <1>4
  <2> QED BY <1>1, <2>1
<1>6. e.start \in 0..(Len(t) - 1)
  BY <1>1, <1>2
<1>7. t[e.start + 1] = e.url
  BY <1>2, <1>4
<1> QED BY <1>5, <1>6, <1>7 DEF Placed

LEMMA StandsIsText ==
  ASSUME NEW e \in Entities PROVE Stands(e) \in Seq(Chars)
<1>1. e.expanded \in Seq(STRING) /\ e.url \in STRING /\ STRING \subseteq Chars
  BY Literals DEF Entities
<1>2. e.expanded \in Seq(Chars)
  BY <1>1, SeqMonotonic
<1>a. e.url \in Chars
  BY <1>1
<1>3. <<e.url>> \in Seq(Chars) /\ <<>> \in Seq(Chars)
  BY <1>a
<1> QED BY <1>2, <1>3 DEF Stands

(* Every entity of a place says the same of it.                            *)
LEMMA PieceIs ==
  ASSUME NEW t \in Seq(Chars), NEW entities \in Seq(Entities), LinksFit(t, entities),
         NEW i \in 1..Len(t)
  PROVE  /\ Piece(t, entities, i) \in Seq(Chars)
         /\ \A k \in SpanningAt(t, entities, i) : Piece(t, entities, i) = Stands(entities[k])
         /\ SpanningAt(t, entities, i) = {} => Piece(t, entities, i) = <<t[i]>>
<1> DEFINE here == SpanningAt(t, entities, i)
           some == CHOOSE k \in here : TRUE
<1>1. \A k \in DOMAIN entities : entities[k] \in Entities
  OBVIOUS
<1>2. ASSUME NEW k \in here
      PROVE  k \in DOMAIN entities /\ entities[k].url = t[i] /\ Placed(entities[k])
  <2>1. /\ k \in DOMAIN entities /\ Spans(entities[k], t) /\ entities[k].start = i - 1
    BY DEF SpanningAt
  <2>2. Placed(entities[k]) /\ t[entities[k].start + 1] = entities[k].url
    BY <1>1, <2>1, SpanIsOne
  <2>3. i - 1 + 1 = i
    OBVIOUS
  <2> QED BY <2>1, <2>2, <2>3
<1>3. here # {} => some \in here
  OBVIOUS
<1>4. Piece(t, entities, i) = IF here = {} THEN <<t[i]>> ELSE Stands(entities[some])
  BY DEF Piece
<1> HIDE DEF here, some
<1>5. ASSUME NEW k \in here, NEW l \in here PROVE Stands(entities[k]) = Stands(entities[l])
  <2>1. /\ k \in DOMAIN entities /\ Placed(entities[k]) /\ l \in DOMAIN entities
        /\ Placed(entities[l]) /\ entities[l].url = entities[k].url
    BY <1>2
  <2>2. entities[l].media = entities[k].media /\ entities[l].expanded = entities[k].expanded
    BY <2>1 DEF LinksFit
  <2> QED BY <2>1, <2>2 DEF Stands
<1>6. <<t[i]>> \in Seq(Chars)
  <2>1. t[i] \in Chars
    OBVIOUS
  <2> QED BY <2>1
<1>7. here # {} => Stands(entities[some]) \in Seq(Chars)
  BY <1>1, <1>2, <1>3, StandsIsText
<1>8. Piece(t, entities, i) \in Seq(Chars)
  BY <1>4, <1>6, <1>7
<1>9. \A k \in here : Piece(t, entities, i) = Stands(entities[k])
  BY <1>3, <1>4, <1>5
<1> QED BY <1>4, <1>8, <1>9 DEF here

(* Nothing in a text that still stands for something else.                 *)
Live(e) == e.media \/ e.expanded # <<>>
Settled(T, entities) ==
  \A x \in DOMAIN T : \A j \in DOMAIN entities :
    Placed(entities[j]) /\ T[x] = entities[j].url => ~Live(entities[j])

LEMMA SettledTogether ==
  ASSUME NEW S, NEW A \in Seq(S), NEW B \in Seq(S), NEW entities,
         Settled(A, entities), Settled(B, entities)
  PROVE  Settled(A \o B, entities)
<1> DEFINE C == A \o B
<1> SUFFICES ASSUME NEW x \in DOMAIN C, NEW j \in DOMAIN entities,
                    Placed(entities[j]), C[x] = entities[j].url
             PROVE  ~Live(entities[j])
  BY DEF Settled
<1>1. \/ x \in DOMAIN A /\ C[x] = A[x]
      \/ x - Len(A) \in DOMAIN B /\ C[x] = B[x - Len(A)]
  OBVIOUS
<1> HIDE DEF C
<1> QED BY <1>1 DEF Settled

LEMMA Slice ==
  ASSUME NEW S, NEW s \in Seq(S), NEW a \in 1..(Len(s) + 1), NEW b \in (a - 1)..Len(s)
  PROVE  /\ SubSeq(s, a, b) \in Seq(S) /\ Len(SubSeq(s, a, b)) = b - (a - 1)
         /\ \A i \in 1..(b - (a - 1)) : /\ SubSeq(s, a, b)[i] = s[(a - 1) + i]
                                        /\ (a - 1) + i \in 1..Len(s)
<1>1. a \in Int /\ b \in Int /\ a >= 1 /\ b <= Len(s) /\ b >= a - 1 /\ Len(s) \in Nat
  OBVIOUS
<1>2. \A i \in a..b : s[i] \in S
  BY <1>1
<1>3. /\ SubSeq(s, a, b) \in Seq(S)
      /\ Len(SubSeq(s, a, b)) = IF a <= b THEN b - a + 1 ELSE 0
      /\ \A i \in 1..(b - a + 1) : SubSeq(s, a, b)[i] = s[a + i - 1]
  BY <1>1, <1>2, SubSeqProperties
<1>4. Len(SubSeq(s, a, b)) = b - (a - 1) /\ b - a + 1 = b - (a - 1)
  BY <1>1, <1>3
<1>5. ASSUME NEW i \in 1..(b - (a - 1))
      PROVE  (a + i) - 1 = (a - 1) + i /\ (a - 1) + i \in 1..Len(s) /\ a + i - 1 = (a - 1) + i
  BY <1>1
<1> QED BY <1>3, <1>4, <1>5

(* A text of which the first c characters are still the tweet's.           *)
Rest(t, c, a, T) == SubSeq(t, a + 2, c) \o T
Before(text, t, c, a, T) == /\ SubSeq(text, 1, a) = SubSeq(t, 1, a)
                            /\ SubSeq(text, a + 2, Len(text)) = Rest(t, c, a, T)

LEMMA Unchanged ==
  ASSUME NEW S, NEW t \in Seq(S), NEW T \in Seq(S), NEW c \in 0..Len(t), NEW text,
         text = SubSeq(t, 1, c) \o T
  PROVE  /\ text \in Seq(S) /\ Len(text) = c + Len(T)
         /\ \A i \in 1..c : text[i] = t[i]
         /\ \A i \in 1..Len(T) : text[c + i] = T[i]
         /\ \A a \in 0..(c - 1) : Before(text, t, c, a, T)
<1> DEFINE P == SubSeq(t, 1, c)
<1>1. P \in Seq(S) /\ Len(P) = c /\ c \in Nat /\ \A i \in 1..c : P[i] = t[i]
  OBVIOUS
<1> HIDE DEF P
<1>2. text = P \o T
  BY DEF P
<1>3. /\ text \in Seq(S) /\ Len(text) = c + Len(T)
      /\ \A i \in 1..c : text[i] = t[i]
      /\ \A i \in 1..Len(T) : text[c + i] = T[i]
  BY <1>1, <1>2
<1>4. ASSUME NEW a \in 0..(c - 1) PROVE Before(text, t, c, a, T)
  <2> DEFINE A == SubSeq(text, 1, a)
             B == SubSeq(t, 1, a)
             C == SubSeq(text, a + 2, Len(text))
             M == SubSeq(t, a + 2, c)
  <2>1. /\ A \in Seq(S) /\ Len(A) = a /\ \A i \in 1..a : A[i] = text[i]
        /\ B \in Seq(S) /\ Len(B) = a /\ \A i \in 1..a : B[i] = t[i]
    BY <1>1, <1>3
  <2>2. A = B
    <3> HIDE DEF A, B
    <3>1. \A i \in 1..a : A[i] = B[i]
      BY SMTT(30), <1>1, <1>3, <2>1
    <3> QED BY <2>1, <3>1, SeqEqual
  <2>a. /\ a \in Nat /\ c \in Nat /\ Len(T) \in Nat /\ a < c /\ c <= Len(t) /\ Len(t) \in Nat
        /\ (a + 2) - 1 = a + 1
    OBVIOUS
  <2> DEFINE m == c - (a + 1)
             n == (c + Len(T)) - (a + 1)
  <2>b. /\ m \in Nat /\ n \in Nat /\ n = m + Len(T)
        /\ \A i \in 1..m : (a + 1) + i \in 1..c
        /\ \A i \in 1..n : i <= m => i \in 1..m
        /\ \A i \in 1..n : ~(i <= m) => i - m \in 1..Len(T) /\ c + (i - m) = (a + 1) + i
    BY <2>a
  <2>3. C \in Seq(S) /\ Len(C) = n /\ \A i \in 1..n : C[i] = text[(a + 1) + i]
    <3>1. a + 2 \in 1..(Len(text) + 1) /\ Len(text) \in ((a + 2) - 1)..Len(text)
      BY <1>3, <2>a
    <3> HIDE DEF n
    <3>2. /\ C \in Seq(S) /\ Len(C) = Len(text) - ((a + 2) - 1)
          /\ \A i \in 1..(Len(text) - ((a + 2) - 1)) : C[i] = text[((a + 2) - 1) + i]
      BY SMTT(30), <1>3, <3>1, Slice
    <3>3. Len(text) - ((a + 2) - 1) = n
      BY <1>3, <2>a DEF n
    <3> HIDE DEF C
    <3> QED BY <2>a, <3>2, <3>3
  <2>4. M \in Seq(S) /\ Len(M) = m /\ \A i \in 1..m : M[i] = t[(a + 1) + i]
    <3>1. a + 2 \in 1..(Len(t) + 1) /\ c \in ((a + 2) - 1)..Len(t)
      BY <2>a
    <3> HIDE DEF m
    <3>2. /\ M \in Seq(S) /\ Len(M) = c - ((a + 2) - 1)
          /\ \A i \in 1..(c - ((a + 2) - 1)) : M[i] = t[((a + 2) - 1) + i]
      BY <3>1, Slice
    <3>3. c - ((a + 2) - 1) = m
      BY <2>a DEF m
    <3> HIDE DEF M
    <3> QED BY <2>a, <3>2, <3>3
  <2>5. C = M \o T
    <3> HIDE DEF C, M, m, n
    <3>1. /\ M \o T \in Seq(S) /\ Len(M \o T) = n
          /\ \A i \in 1..n : (M \o T)[i] = IF i <= m THEN M[i] ELSE T[i - m]
      <4>1. /\ M \o T \in Seq(S) /\ Len(M \o T) = Len(M) + Len(T)
            /\ \A i \in 1..(Len(M) + Len(T)) :
                 (M \o T)[i] = IF i <= Len(M) THEN M[i] ELSE T[i - Len(M)]
        BY <2>4, ConcatProperties
      <4> QED BY <2>4, <2>b, <4>1
    <3>2. ASSUME NEW i \in 1..n PROVE C[i] = (M \o T)[i]
      <4>1. CASE i <= m
        BY <1>3, <2>3, <2>4, <2>b, <3>1, <4>1
      <4>2. CASE ~(i <= m)
        <5>1. text[c + (i - m)] = T[i - m]
          BY <1>3, <2>b, <4>2
        <5> QED BY <2>3, <2>b, <3>1, <4>2, <5>1
      <4> QED BY <4>1, <4>2
    <3> QED BY <2>3, <3>1, <3>2, SeqEqual
  <2> QED BY <2>2, <2>5 DEF Before, Rest
<1> QED BY <1>3, <1>4

LEMMA SliceOfOne ==
  ASSUME NEW S, NEW s \in Seq(S), NEW a \in 1..Len(s)
  PROVE  SubSeq(s, a, a) = <<s[a]>>
<1>1. a \in a..Len(s) /\ a \in 1..(Len(s) + 1) /\ a \in (a - 1)..Len(s) /\ a - (a - 1) = 1
      /\ (a - 1) + 1 = a /\ s[a] \in S
  OBVIOUS
<1> DEFINE one == SubSeq(s, a, a)
<1>2. one \in Seq(S) /\ Len(one) = 1 /\ one[1] = s[a]
  <2>1. /\ one \in Seq(S) /\ Len(one) = a - (a - 1)
        /\ \A i \in 1..(a - (a - 1)) : one[i] = s[(a - 1) + i]
    BY <1>1, Slice
  <2> HIDE DEF one
  <2> QED BY <1>1, <2>1
<1> HIDE DEF one
<1>3. one = <<s[a]>>
  BY <1>1, <1>2
<1> QED BY <1>3 DEF one

LEMMA SpansAsBefore ==
  ASSUME NEW u \in Seq(Chars), NEW v \in Seq(Chars), NEW c \in Nat, c <= Len(u), c <= Len(v),
         \A i \in 1..c : u[i] = v[i], NEW e \in Entities, e.start < c, Spans(e, u)
  PROVE  Spans(e, v)
<1>1. e.start \in 0..(Len(u) - 1) /\ e.end = e.start + 1 /\ u[e.start + 1] = e.url
  BY SpanIsOne
<1>d. e.url # ""
  BY DEF Spans
<1>a. c \in Nat /\ Len(u) \in Nat /\ Len(v) \in Nat
  OBVIOUS
<1> DEFINE a == e.start + 1
<1>c. e.start \in Nat
  BY <1>1, <1>a
<1>2. a \in 1..c /\ e.start \in Nat /\ e.start < a
  BY <1>a, <1>c
<1> HIDE DEF a
<1>3. v[a] = e.url
  BY <1>1, <1>2 DEF a
<1>b. a \in 1..Len(v) /\ a <= Len(v)
  BY <1>2, <1>a
<1>4. SubSeq(v, a, a) = <<v[a]>>
  BY <1>b, SliceOfOne
<1>5. 0 <= e.start /\ e.start < e.end /\ e.end <= Len(v)
  <2>1. e.end = a
    BY <1>1 DEF a
  <2> QED BY <1>2, <1>b, <2>1
<1>6. SubSeq(v, e.start + 1, e.end) = <<e.url>>
  BY <1>1, <1>3, <1>4 DEF a
<1> QED BY <1>d, <1>5, <1>6 DEF Spans

(* How far the editing has come after k entities: up to c the text is the  *)
(* tweet's, and behind it are the words that were meant.                   *)
Reached(text, t, entities, r, k, c, T) ==
  /\ c \in 0..Len(t) /\ T \in Seq(Chars) /\ text = SubSeq(t, 1, c) \o T
  /\ Settled(T, entities)
  /\ \/ SameBehind(Chars, T, r[c])
     \/ SameBehindGap(Chars, T, r[c]) /\ AtGap(SubSeq(t, 1, c))
  /\ \A l \in 1..k : Spans(Backwards(entities)[l], t) => Backwards(entities)[l].start >= c

(* An entity whose link is where the editing has been changes nothing.     *)
LEMMA EditBehind ==
  ASSUME NEW t \in Seq(Chars), NEW entities \in Seq(Entities), NEW r,
         NEW k \in 1..Len(entities), NEW done \in Drafts, NEW c, NEW T,
         Reached(done.text, t, entities, r, k - 1, c, T), LinksFit(t, entities),
         Spans(Backwards(entities)[k], done.text) => Backwards(entities)[k].start >= c
  PROVE  Reached(Edit(done, Backwards(entities)[k]).text, t, entities, r, k, c, T)
<1> DEFINE e == Backwards(entities)[k]
           text == done.text
<1>1. /\ c \in 0..Len(t) /\ T \in Seq(Chars) /\ text = SubSeq(t, 1, c) \o T
      /\ Settled(T, entities)
  BY DEF Reached
<1>2. e \in Entities /\ \E i \in DOMAIN entities : e = entities[i]
  <2>1. Backwards(entities) \in Seq(Entities) /\ Len(Backwards(entities)) = Len(entities)
    BY BackwardsIsSeq
  <2>2. e \in Entities
    BY <2>1
  <2> QED BY <2>2, BackwardsInOrder DEF InOrder
<1> HIDE DEF e, text
<1>3. /\ text \in Seq(Chars) /\ Len(text) = c + Len(T)
      /\ \A i \in 1..Len(T) : text[c + i] = T[i]
      /\ \A i \in 1..c : text[i] = t[i]
  BY <1>1, Unchanged
<1>a. Len(T) \in Nat /\ c \in Nat
  BY <1>1
<1>4. Edit(done, e) = done
  <2>1. CASE ~Spans(e, text)
    BY <2>1 DEF Edit, text
  <2>2. CASE Spans(e, text)
    <3>1. /\ e.start \in 0..(Len(text) - 1) /\ Placed(e) /\ text[e.start + 1] = e.url
      BY <1>2, <1>3, <2>2, SpanIsOne
    <3> DEFINE x == (e.start + 1) - c
    <3>2. e.start >= c
      BY <2>2 DEF e, text
    <3>a. e.start \in Int /\ e.start + 1 <= c + Len(T)
      BY <1>3, <1>a, <3>1
    <3>3. x \in 1..Len(T) /\ c + x = e.start + 1
      BY <1>a, <3>a, <3>2
    <3> HIDE DEF x
    <3>4. T[x] = e.url /\ x \in DOMAIN T
      BY SMTT(30), <1>1, <1>3, <3>1, <3>3
    <3>5. ~Live(e)
      BY <1>1, <1>2, <3>1, <3>4 DEF Settled
    <3> QED BY <2>2, <3>5 DEF Edit, Live, text
  <2> QED BY <2>1, <2>2
<1>5. \A l \in 1..k : Spans(Backwards(entities)[l], t) => Backwards(entities)[l].start >= c
  <2> SUFFICES ASSUME NEW l \in 1..k, Spans(Backwards(entities)[l], t)
               PROVE  Backwards(entities)[l].start >= c
    OBVIOUS
  <2>1. CASE l \in 1..(k - 1)
    BY <2>1 DEF Reached
  <2>2. CASE l = k
    <3>1. Spans(e, t)
      BY <2>2 DEF e
    <3> SUFFICES ASSUME e.start < c PROVE Spans(e, text)
      <4>1. e.start \in Int /\ c \in Int
        BY <1>1, <1>2 DEF Entities
      <4>2. e.start >= c \/ Spans(e, text)
        BY <4>1
      <4> QED BY <2>2, <4>2 DEF e, text
    <3>2. c <= Len(text) /\ c <= Len(t) /\ \A i \in 1..c : t[i] = text[i]
      BY <1>1, <1>3, <1>a
    <3> QED BY <1>2, <1>3, <1>a, <3>1, <3>2, SpansAsBefore
  <2> QED BY <2>1, <2>2
<1> QED BY <1>4, <1>5 DEF Reached, e, text

(* Between the link that is edited and the part that has been, no entity   *)
(* has a link: there the tweet says what it means.                         *)
LEMMA NoneBetween ==
  ASSUME NEW t \in Seq(Chars), NEW entities \in Seq(Entities), NEW k \in 1..Len(entities),
         NEW c \in 0..Len(t), NEW a \in 0..(c - 1), Backwards(entities)[k].start = a,
         \A l \in 1..(k - 1) : Spans(Backwards(entities)[l], t) =>
                                 Backwards(entities)[l].start >= c
  PROVE  /\ \A i \in (a + 2)..c : SpanningAt(t, entities, i) = {}
         /\ \A l \in 1..k : Spans(Backwards(entities)[l], t) => Backwards(entities)[l].start >= a
<1> DEFINE sorted == Backwards(entities)
           n == Len(entities)
<1>1. n \in Nat /\ a \in Nat /\ c \in Nat /\ a < c /\ k \in 1..n
  OBVIOUS
<1>2. InOrder(sorted, entities) /\ \A l \in 1..n : sorted[l].start \in Int
  <2>1. sorted \in Seq(Entities) /\ Len(sorted) = n
    BY BackwardsIsSeq
  <2>2. \A l \in 1..n : sorted[l] \in Entities
    <3> HIDE DEF sorted, n
    <3> QED BY <1>1, <2>1
  <2> QED BY <2>2, BackwardsInOrder DEF Entities
<1>a. /\ \A l \in 1..(k - 1) : Spans(sorted[l], t) => sorted[l].start >= c
      /\ sorted[k].start = a
  OBVIOUS
<1> HIDE DEF sorted
<1>3. ASSUME NEW i \in (a + 2)..c, NEW j \in SpanningAt(t, entities, i) PROVE FALSE
  <2>1. j \in DOMAIN entities /\ Spans(entities[j], t) /\ entities[j].start = i - 1
    BY DEF SpanningAt
  <2>2. PICK l \in 1..n : sorted[l] = entities[j]
    BY <1>2, <2>1 DEF InOrder
  <2>3. Spans(sorted[l], t) /\ sorted[l].start = i - 1 /\ a < i - 1 /\ i - 1 < c
    BY <1>1, <2>1, <2>2
  <2>4. ~(l \in 1..(k - 1))
    <3> SUFFICES ASSUME l \in 1..(k - 1) PROVE FALSE
      OBVIOUS
    <3>1. sorted[l].start >= c
      BY <1>a, <2>3
    <3> QED BY <1>1, <2>3, <3>1
  <2>5. l # k
    BY <1>1, <1>a, <2>3
  <2>6. k < l
    BY <1>1, <2>4, <2>5
  <2>7. sorted[l].start <= sorted[k].start
    BY <1>1, <1>2, <2>6 DEF InOrder
  <2> QED BY <1>1, <1>a, <2>3, <2>7
<1>4. ASSUME NEW l \in 1..k PROVE sorted[l].start >= a
  <2>1. l = k \/ l < k
    BY <1>1
  <2>a. l \in 1..n /\ k \in 1..n
    BY <1>1
  <2>2. l < k => sorted[k].start <= sorted[l].start
    BY <1>2, <2>a DEF InOrder
  <2> QED BY <1>1, <1>2, <1>a, <2>1, <2>2
<1> QED BY <1>3, <1>4 DEF sorted

(* What stands for a link holds no link itself.                            *)
LEMMA StandsSettled ==
  ASSUME NEW t, NEW entities \in Seq(Entities), LinksFit(t, entities),
         NEW k \in DOMAIN entities, Placed(entities[k])
  PROVE  Settled(Stands(entities[k]), entities)
<1> DEFINE e == entities[k]
<1> SUFFICES ASSUME NEW x \in DOMAIN Stands(e), NEW j \in DOMAIN entities,
                    Placed(entities[j]), Stands(e)[x] = entities[j].url
             PROVE  ~Live(entities[j])
  BY DEF Settled
<1>1. CASE e.media
  <2>1. Stands(e) = <<>>
    BY <1>1 DEF Stands
  <2> QED BY <2>1
<1>2. CASE ~e.media /\ e.expanded # <<>>
  <2>1. Stands(e) = e.expanded
    BY <1>2 DEF Stands
  <2>2. \A i \in DOMAIN e.expanded : e.expanded[i] # entities[j].url
    BY DEF LinksFit
  <2> QED BY <2>1, <2>2
<1>3. CASE ~e.media /\ e.expanded = <<>>
  <2>1. Stands(e) = <<e.url>>
    BY <1>3 DEF Stands
  <2>2. Stands(e)[x] = e.url
    <3> HIDE DEF e
    <3> QED BY <2>1
  <2>3. entities[j].media = e.media /\ entities[j].expanded = e.expanded
    BY <2>2 DEF LinksFit
  <2> QED BY <1>3, <2>3 DEF Live
<1> QED BY <1>1, <1>2, <1>3

(* A part of the tweet in which no entity has its link.                    *)
LEMMA PlainSettled ==
  ASSUME NEW t \in Seq(Chars), NEW entities \in Seq(Entities), LinksFit(t, entities),
         NEW c \in 0..Len(t), NEW a \in 0..(c - 1),
         \A i \in (a + 2)..c : SpanningAt(t, entities, i) = {}
  PROVE  Settled(SubSeq(t, a + 2, c), entities)
<1> DEFINE M == SubSeq(t, a + 2, c)
<1>1. /\ M \in Seq(Chars)
      /\ \A x \in DOMAIN M : /\ (a + 1) + x \in (a + 2)..c /\ (a + 1) + x \in DOMAIN t
                             /\ M[x] = t[(a + 1) + x]
  <2>1. a + 2 \in 1..(Len(t) + 1) /\ c \in ((a + 2) - 1)..Len(t) /\ (a + 2) - 1 = a + 1
    OBVIOUS
  <2>2. /\ M \in Seq(Chars) /\ Len(M) = c - ((a + 2) - 1)
        /\ \A i \in 1..(c - ((a + 2) - 1)) : /\ M[i] = t[((a + 2) - 1) + i]
                                             /\ ((a + 2) - 1) + i \in 1..Len(t)
    BY <2>1, Slice
  <2> HIDE DEF M
  <2>3. DOMAIN M = 1..(c - (a + 1)) /\ DOMAIN t = 1..Len(t)
    BY <2>1, <2>2
  <2>4. \A x \in 1..(c - (a + 1)) : (a + 1) + x \in (a + 2)..c
    OBVIOUS
  <2> QED BY <2>1, <2>2, <2>3, <2>4
<1> HIDE DEF M
<1> SUFFICES ASSUME NEW x \in DOMAIN M, NEW j \in DOMAIN entities,
                    Placed(entities[j]), M[x] = entities[j].url
             PROVE  FALSE
  BY DEF Settled, M
<1> DEFINE i == (a + 1) + x
<1>2. i \in (a + 2)..c /\ i \in DOMAIN t /\ t[i] = entities[j].url
  BY <1>1
<1> HIDE DEF i
<1>3. \E l \in DOMAIN entities : Spans(entities[l], t) /\ entities[l].start = i - 1
  BY <1>2 DEF LinksFit
<1>4. SpanningAt(t, entities, i) # {}
  BY <1>3 DEF SpanningAt
<1> QED BY <1>2, <1>4

(* An entity whose link is before what has been edited: its link gives way *)
(* to what stands for it.                                                  *)
RestMeant(t, r, e, c, a, T) ==
  /\ SameBehind(Chars, Rest(t, c, a, T), r[a + 1])
  /\ r[a] = Stands(e) \o r[a + 1] /\ r[a + 1] \in Seq(Chars)

LEMMA RestSame ==
  ASSUME NEW t \in Seq(Chars), NEW entities \in Seq(Entities), LinksFit(t, entities),
         NEW r \in [0..Len(t) -> Seq(Chars)], RestOf(Pieces(t, entities), r),
         NEW k \in DOMAIN entities, Spans(entities[k], t),
         NEW c \in 0..Len(t), NEW a \in 0..(c - 1), entities[k].start = a,
         \A i \in (a + 2)..c : SpanningAt(t, entities, i) = {},
         NEW T \in Seq(Chars),
         \/ SameBehind(Chars, T, r[c])
         \/ SameBehindGap(Chars, T, r[c]) /\ AtGap(SubSeq(t, 1, c))
  PROVE  RestMeant(t, r, entities[k], c, a, T)
<1> DEFINE pieces == Pieces(t, entities)
           M == SubSeq(t, a + 2, c)
<1>1. /\ Len(t) \in Nat /\ a \in Nat /\ c \in Nat /\ a < c /\ c <= Len(t)
      /\ a + 1 \in 1..Len(t) /\ a + 1 \in 0..Len(t) /\ c \in (a + 1)..Len(t)
      /\ (a + 1) + 1 = a + 2 /\ (a + 1) - 1 = a
  OBVIOUS
<1>2. pieces \in Seq(Seq(Chars)) /\ Len(pieces) = Len(t)
  <2>1. \A i \in DOMAIN t : pieces[i] \in Seq(Chars)
    BY PieceIs DEF Pieces
  <2>2. /\ DOMAIN pieces = DOMAIN t /\ pieces = [i \in DOMAIN t |-> pieces[i]]
        /\ DOMAIN t = 1..Len(t)
    BY DEF Pieces
  <2> HIDE DEF pieces
  <2>3. pieces \in [1..Len(t) -> Seq(Chars)]
    BY <2>1, <2>2
  <2> QED BY <1>1, <2>3
<1>3. /\ \A i \in 1..Len(t) : pieces[i] = Piece(t, entities, i)
      /\ RestOf(pieces, r)
  BY DEF Pieces
<1> HIDE DEF pieces
<1>4. \A i \in ((a + 1) + 1)..c : pieces[i] = <<t[i]>>
  <2> SUFFICES ASSUME NEW i \in ((a + 1) + 1)..c PROVE pieces[i] = <<t[i]>>
    OBVIOUS
  <2>1. i \in 1..Len(t) /\ i \in (a + 2)..c
    BY <1>1
  <2>2. SpanningAt(t, entities, i) = {}
    BY <2>1
  <2> QED BY <1>3, <2>1, <2>2, PieceIs
<1>5. r[a + 1] = SubSeq(t, (a + 1) + 1, c) \o r[c]
  <2> DEFINE b == a + 1
  <2>1. b \in 0..Len(t) /\ c \in b..Len(t) /\ \A i \in (b + 1)..c : pieces[i] = <<t[i]>>
    BY <1>1, <1>4
  <2> HIDE DEF b
  <2>2. PlainBetween(r, t, b, c)
    BY <1>2, <1>3, <2>1, RestOfPlain
  <2> QED BY <2>2 DEF PlainBetween, b
<1>6. r[a + 1] = M \o r[c]
  BY <1>1, <1>5
<1>7. k \in SpanningAt(t, entities, a + 1)
  BY <1>1 DEF SpanningAt
<1>8. pieces[a + 1] = Stands(entities[k])
  BY <1>1, <1>3, <1>7, PieceIs
<1>9. r[a] = Stands(entities[k]) \o r[a + 1]
  BY <1>1, <1>2, <1>3, <1>8 DEF RestOf
<1>10. r[c] \in Seq(Chars) /\ r[a + 1] \in Seq(Chars)
  BY <1>1
<1>11. M \in Seq(Chars) /\ Len(M) = c - (a + 1) /\ (c # a + 1 => M # <<>> /\ M[Len(M)] = t[c])
  <2>1. a + 2 \in 1..(Len(t) + 1) /\ c \in ((a + 2) - 1)..Len(t) /\ (a + 2) - 1 = a + 1
    BY SMTT(30), <1>1
  <2>2. /\ M \in Seq(Chars) /\ Len(M) = c - ((a + 2) - 1)
        /\ \A i \in 1..(c - ((a + 2) - 1)) : M[i] = t[((a + 2) - 1) + i]
    BY <2>1, Slice
  <2> HIDE DEF M
  <2>3. Len(M) = c - (a + 1) /\ \A i \in 1..(c - (a + 1)) : M[i] = t[(a + 1) + i]
    BY <2>1, <2>2
  <2>4. c # a + 1 => c - (a + 1) \in 1..(c - (a + 1)) /\ (a + 1) + (c - (a + 1)) = c
    BY SMTT(30), <1>1
  <2> QED BY SMTT(30), <2>2, <2>3, <2>4
<1>12. AtGap(SubSeq(t, 1, c)) => IsSpace(t[c])
  <2>1. 1 \in 1..(Len(t) + 1) /\ c \in (1 - 1)..Len(t) /\ 1 - 1 = 0 /\ c \in 1..c
    BY <1>1
  <2> DEFINE P == SubSeq(t, 1, c)
  <2>2. P \in Seq(Chars) /\ Len(P) = c /\ P[c] = t[c]
    BY <1>1
  <2> HIDE DEF P
  <2>3. AtGap(P) => IsSpace(t[c])
    BY <1>1, <2>2 DEF AtGap
  <2> QED BY <2>3 DEF P
<1>13. ~IsSpace(t[a + 1])
  <2>1. entities[k] \in Entities
    OBVIOUS
  <2>2. t[a + 1] = entities[k].url /\ Placed(entities[k])
    BY <2>1, SpanIsOne
  <2> QED BY <2>2 DEF LinksFit
<1> HIDE DEF M
<1>14. \/ SameBehind(Chars, T, r[c])
       \/ SameBehindGap(Chars, T, r[c]) /\ M # <<>> /\ AtGap(M)
  BY <1>11, <1>12, <1>13 DEF AtGap
<1>15. SameBehind(Chars, M \o T, M \o r[c])
  BY <1>10, <1>11, <1>14, SameWithPrefix
<1> QED BY <1>6, <1>9, <1>10, <1>15 DEF RestMeant, Rest, M

(* What an edit makes of a text that has the entity's link.                *)
LEMMA EditedText ==
  ASSUME NEW done \in Drafts, NEW e \in Entities, Spans(e, done.text), NEW a, a = e.start
  PROVE  LET text == done.text
             rest == SubSeq(text, a + 2, Len(text))
             swallowed == /\ e.media /\ a + 2 <= Len(text) /\ IsSpace(text[a + 2])
                          /\ a = 0 \/ IsSpace(text[a])
         IN /\ a \in 0..(Len(text) - 1)
            /\ ~swallowed => Edit(done, e).text = SubSeq(text, 1, a) \o (Stands(e) \o rest)
            /\ swallowed =>
                 Edit(done, e).text = SubSeq(text, 1, a) \o SubSeq(text, a + 3, Len(text))
<1> DEFINE text == done.text
           rest == SubSeq(text, a + 2, Len(text))
           start == SubSeq(text, 1, a)
           swallowed == /\ e.media /\ a + 2 <= Len(text) /\ IsSpace(text[a + 2])
                        /\ a = 0 \/ IsSpace(text[a])
           new == Edit(done, e).text
<1>1. text \in Seq(Chars) /\ done \in [text : Seq(Chars), removed : BOOLEAN]
  BY DEF Drafts
<1>2. a \in 0..(Len(text) - 1) /\ e.end = a + 1 /\ text[a + 1] = e.url
  BY <1>1, SpanIsOne
<1>3. /\ Len(text) \in Nat /\ a \in Nat /\ a + 1 \in 1..Len(text) /\ a \in 0..Len(text)
      /\ (a + 1) + 1 = a + 2 /\ (a + 1) + 2 = a + 3 /\ (a + 1 < Len(text) <=> a + 2 <= Len(text))
  <2>1. Len(text) \in Nat
    BY <1>1
  <2> HIDE DEF text
  <2> QED BY <1>2, <2>1
<1>4. start \in Seq(Chars) /\ rest \in Seq(Chars) /\ Stands(e) \in Seq(Chars)
  <2>1. start \in Seq(Chars)
    <3> HIDE DEF text
    <3> QED BY <1>1, <1>3
  <2>2. rest \in Seq(Chars)
    <3> HIDE DEF text
    <3> QED BY <1>1, <1>3
  <2> QED BY <2>1, <2>2, StandsIsText
<1>5. CASE e.media
  <2>1. Edit(done, e) = [text |-> Without(text, e), removed |-> TRUE]
    BY <1>5 DEF Edit
  <2>2. new = Without(text, e)
    BY <2>1
  <2>3. Stands(e) = <<>>
    BY <1>5 DEF Stands
  <2>4. <<>> \o rest = rest
    <3> HIDE DEF rest
    <3> QED BY <1>4
  <2>5. Without(text, e) = start \o SubSeq(text, IF swallowed THEN a + 3 ELSE a + 2, Len(text))
    <3>1. e.start = a /\ e.end = a + 1
      BY <1>2
    <3> HIDE DEF text, rest, new
    <3> QED BY <1>3, <1>5, <3>1 DEF Without
  <2> HIDE DEF text, new, start, swallowed
  <2> QED BY <1>2, <2>2, <2>3, <2>4, <2>5 DEF text, new, start, swallowed
<1>6. CASE ~e.media /\ e.expanded # <<>>
  <2>1. Edit(done, e) = [done EXCEPT !.text = SubSeq(@, 1, e.start) \o e.expanded
                                              \o SubSeq(@, e.end + 1, Len(@))]
    BY <1>6 DEF Edit
  <2>2. new = (SubSeq(text, 1, e.start) \o e.expanded) \o SubSeq(text, e.end + 1, Len(text))
    BY <1>1, <2>1
  <2>3. Stands(e) = e.expanded
    BY <1>6 DEF Stands
  <2>4. new = (start \o Stands(e)) \o rest
    BY <1>2, <1>3, <2>2, <2>3
  <2>5. (start \o Stands(e)) \o rest = start \o (Stands(e) \o rest)
    <3> HIDE DEF start, rest
    <3>1. \A x, y, z \in Seq(Chars) : (x \o y) \o z = x \o (y \o z)
      OBVIOUS
    <3> QED BY <1>4, <3>1
  <2> HIDE DEF text, new, start, rest
  <2> QED BY <1>2, <1>6, <2>4, <2>5 DEF text, new, start, rest
<1>7. CASE ~e.media /\ e.expanded = <<>>
  <2>1. Edit(done, e) = done
    BY <1>7 DEF Edit
  <2>2. Stands(e) = <<e.url>>
    BY <1>7 DEF Stands
  <2>3. <<e.url>> \o rest = SubSeq(text, a + 1, Len(text))
    <3>1. a + 1 \in 1..Len(text) /\ Len(text) \in (a + 1)..Len(text)
      BY <1>3
    <3>2. SubSeq(text, a + 1, Len(text)) = <<text[a + 1]>> \o SubSeq(text, (a + 1) + 1, Len(text))
      <4> HIDE DEF text
      <4> QED BY <1>1, <3>1, SubSeqRecursiveFirst
    <3> QED BY <1>2, <1>3, <3>2
  <2>4. start \o SubSeq(text, a + 1, Len(text)) = text
    <3> HIDE DEF text
    <3> QED BY <1>1, <1>3, SplitAt
  <2>5. new = start \o (Stands(e) \o rest)
    BY <2>1, <2>2, <2>3, <2>4
  <2> HIDE DEF text, new, start, rest
  <2> QED BY <1>2, <1>7, <2>5 DEF text, new, start, rest
<1> QED BY <1>5, <1>6, <1>7

LEMMA EditHere ==
  ASSUME NEW t \in Seq(Chars), NEW entities \in Seq(Entities), LinksFit(t, entities),
         NEW r \in [0..Len(t) -> Seq(Chars)], RestOf(Pieces(t, entities), r),
         NEW k \in 1..Len(entities), NEW done \in Drafts, NEW c, NEW T,
         Reached(done.text, t, entities, r, k - 1, c, T),
         Spans(Backwards(entities)[k], done.text), NEW a, a = Backwards(entities)[k].start, a < c
  PROVE  \E U : Reached(Edit(done, Backwards(entities)[k]).text, t, entities, r, k, a, U)
<1> DEFINE e == Backwards(entities)[k]
           text == done.text
           R == Rest(t, c, a, T)
           new == Edit(done, e).text
<1>1. /\ c \in 0..Len(t) /\ T \in Seq(Chars) /\ text = SubSeq(t, 1, c) \o T
      /\ Settled(T, entities)
      /\ \/ SameBehind(Chars, T, r[c])
         \/ SameBehindGap(Chars, T, r[c]) /\ AtGap(SubSeq(t, 1, c))
      /\ \A l \in 1..(k - 1) : Spans(Backwards(entities)[l], t) => Backwards(entities)[l].start >= c
  BY DEF Reached
<1>2. e \in Entities /\ \E i \in DOMAIN entities : e = entities[i]
  <2>1. Backwards(entities) \in Seq(Entities) /\ Len(Backwards(entities)) = Len(entities)
    BY BackwardsIsSeq
  <2>2. e \in Entities
    BY <2>1
  <2> QED BY <2>2, BackwardsInOrder DEF InOrder
<1>3. Spans(e, text) /\ a = e.start /\ a < c
  OBVIOUS
<1> HIDE DEF e, text
<1>4. /\ text \in Seq(Chars) /\ Len(text) = c + Len(T)
      /\ \A i \in 1..c : text[i] = t[i]
      /\ \A i \in 0..(c - 1) : Before(text, t, c, i, T)
  <2>1. c \in 0..Len(t) /\ T \in Seq(Chars) /\ text = SubSeq(t, 1, c) \o T
    BY <1>1
  <2>2. \A i \in 0..(c - 1) : Before(text, t, c, i, T)
    BY <2>1, Unchanged
  <2> QED BY <2>1, <2>2, Unchanged
<1>5. a \in 0..(Len(text) - 1) /\ Placed(e)
  BY <1>2, <1>3, <1>4, SpanIsOne
<1>6. a \in 0..(c - 1) /\ a \in 0..Len(t) /\ c \in Nat /\ Len(t) \in Nat /\ Len(T) \in Nat
  <2>1. Len(t) \in Nat /\ Len(T) \in Nat /\ c \in Nat
    BY <1>1
  <2>2. Len(text) \in Nat
    BY <1>4
  <2>3. a \in Nat
    BY <1>5, <2>2
  <2> QED BY <1>1, <1>3, <2>1, <2>3
<1>7. Spans(e, t)
  <2>1. c <= Len(text) /\ c <= Len(t) /\ e.start < c
    BY <1>1, <1>3, <1>4, <1>6
  <2> QED BY <1>2, <1>3, <1>4, <1>6, <2>1, SpansAsBefore
<1>8. SubSeq(text, 1, a) = SubSeq(t, 1, a) /\ SubSeq(text, a + 2, Len(text)) = R
  BY <1>4, <1>6 DEF Before
<1>9. PICK i \in DOMAIN entities : e = entities[i]
  BY <1>2
<1>10. /\ \A p \in (a + 2)..c : SpanningAt(t, entities, p) = {}
       /\ \A l \in 1..k : Spans(Backwards(entities)[l], t) => Backwards(entities)[l].start >= a
  BY <1>1, <1>3, <1>6, NoneBetween DEF e
<1>11. /\ SameBehind(Chars, R, r[a + 1]) /\ r[a] = Stands(e) \o r[a + 1]
       /\ r[a + 1] \in Seq(Chars)
  <2>1. entities[i].start = a /\ Spans(entities[i], t)
    BY <1>3, <1>7, <1>9
  <2>2. RestMeant(t, r, entities[i], c, a, T)
    BY <1>1, <1>6, <1>10, <2>1, RestSame
  <2> QED BY <1>9, <2>2 DEF RestMeant
<1>12. R \in Seq(Chars) /\ Settled(R, entities)
  <2> DEFINE M == SubSeq(t, a + 2, c)
  <2>a. a + 2 \in 1..(Len(t) + 1) /\ c \in ((a + 2) - 1)..Len(t)
    <3>1. a \in Nat /\ a < c /\ c <= Len(t)
      BY <1>1, <1>6
    <3> QED BY SMTT(30), <1>6, <3>1
  <2>1. M \in Seq(Chars)
    BY <2>a, Slice
  <2>2. Settled(M, entities)
    BY <1>1, <1>6, <1>10, PlainSettled
  <2> HIDE DEF M
  <2>3. M \o T \in Seq(Chars) /\ Settled(M \o T, entities)
    BY <1>1, <2>1, <2>2, SettledTogether
  <2> QED BY <2>3 DEF Rest, M
<1>13. Stands(e) \in Seq(Chars) /\ Settled(Stands(e), entities)
  <2>1. Stands(e) \in Seq(Chars)
    BY <1>2, StandsIsText
  <2> QED BY <1>5, <1>9, <2>1, StandsSettled
<1> DEFINE swallowed == /\ e.media /\ a + 2 <= Len(text) /\ IsSpace(text[a + 2])
                        /\ a = 0 \/ IsSpace(text[a])
<1>14. /\ ~swallowed => new = SubSeq(text, 1, a) \o (Stands(e) \o SubSeq(text, a + 2, Len(text)))
       /\ swallowed => new = SubSeq(text, 1, a) \o SubSeq(text, a + 3, Len(text))
  BY <1>2, <1>3, EditedText DEF text
<1> HIDE DEF R, new
<1>15. CASE ~swallowed
  <2> DEFINE U == Stands(e) \o R
  <2>1. U \in Seq(Chars) /\ Settled(U, entities)
    BY <1>12, <1>13, SettledTogether
  <2>2. SameBehind(Chars, U, r[a])
    BY <1>11, <1>12, <1>13, SameWithPrefix
  <2>3. new = SubSeq(t, 1, a) \o U
    <3> HIDE DEF swallowed
    <3> QED BY <1>8, <1>14, <1>15
  <2> HIDE DEF U
  <2>4. Reached(new, t, entities, r, k, a, U)
    BY <1>6, <1>10, <2>1, <2>2, <2>3 DEF Reached
  <2> QED BY <2>4 DEF new, e
<1>16. CASE swallowed
  <2> DEFINE b == text[a + 2]
             U == SubSeq(text, a + 3, Len(text))
  <2>a. e.media /\ a + 2 <= Len(text) /\ IsSpace(text[a + 2]) /\ (a = 0 \/ IsSpace(text[a]))
    BY <1>16
  <2>b. Len(text) \in Nat /\ a \in Nat
    BY <1>4, <1>6
  <2>c. /\ a + 2 \in 1..Len(text) /\ Len(text) \in (a + 2)..Len(text) /\ (a + 2) + 1 = a + 3
        /\ a + 3 \in 1..(Len(text) + 1) /\ Len(text) \in ((a + 3) - 1)..Len(text)
    <3> DEFINE n == Len(text)
    <3>1. n \in Nat /\ a + 2 <= n
      BY <2>a, <2>b
    <3> HIDE DEF n
    <3>a. a \in Nat
      BY <2>b
    <3>2. a + 2 \in 1..n /\ n \in (a + 2)..n
      BY <3>a, <3>1
    <3>b. (a + 2) + 1 = a + 3 /\ a + 3 \in Nat /\ 1 <= a + 3 /\ a + 3 <= n + 1
      BY SMTT(30), <3>a, <3>1
    <3>3. (a + 2) + 1 = a + 3 /\ a + 3 \in 1..(n + 1)
      BY <3>b, <3>1
    <3>4. n \in ((a + 3) - 1)..n
      BY <3>a, <3>1
    <3> QED BY <3>2, <3>3, <3>4 DEF n
  <2>1. b \in Chars /\ IsSpace(b)
    BY SMTT(30), <1>4, <2>a, <2>c
  <2>2. U \in Seq(Chars)
    BY SMTT(30), <1>4, <2>c, Slice
  <2>3. R = <<b>> \o U
    <3>1. SubSeq(text, a + 2, Len(text)) = <<text[a + 2]>> \o SubSeq(text, (a + 2) + 1, Len(text))
      BY <1>4, <2>c, SubSeqRecursiveFirst
    <3> QED BY <1>8, <2>c, <3>1
  <2>4. Stands(e) = <<>>
    BY <2>a DEF Stands
  <2>5. r[a] = r[a + 1]
    <3>1. <<>> \o r[a + 1] = r[a + 1]
      BY <1>11
    <3> QED BY <1>11, <2>4, <3>1
  <2>6. AtGap(SubSeq(t, 1, a))
    <3>a. a # 0 => a \in 1..c
      BY <1>6, <2>b
    <3>b. a # 0 => text[a] = t[a]
      BY <1>4, <3>a
    <3>1. a # 0 => a \in 1..c /\ IsSpace(t[a])
      BY <2>a, <3>a, <3>b
    <3>2. Len(SubSeq(t, 1, a)) = a /\ (a # 0 => SubSeq(t, 1, a)[a] = t[a])
      BY <1>6
    <3>3. a = 0 => SubSeq(t, 1, a) = <<>>
      OBVIOUS
    <3> QED BY <3>1, <3>2, <3>3 DEF AtGap
  <2> HIDE DEF b, U, swallowed
  <2>7. SameBehindGap(Chars, U, r[a])
    <3>1. Space \in Chars
      BY Literals
    <3> QED BY <1>11, <2>1, <2>2, <2>3, <2>5, <3>1, BlankSwallowed
  <2>8. Settled(U, entities)
    <3> SUFFICES ASSUME NEW x \in DOMAIN U, NEW j \in DOMAIN entities,
                        Placed(entities[j]), U[x] = entities[j].url
                 PROVE  ~Live(entities[j])
      BY DEF Settled
    <3>1. x + 1 \in DOMAIN R /\ R[x + 1] = U[x]
      BY <2>1, <2>2, <2>3
    <3> QED BY <1>12, <3>1 DEF Settled
  <2>9. new = SubSeq(t, 1, a) \o U
    BY <1>8, <1>14, <1>16 DEF U
  <2>10. Reached(new, t, entities, r, k, a, U)
    BY <1>6, <1>10, <2>2, <2>6, <2>7, <2>8, <2>9 DEF Reached
  <2> QED BY <2>10 DEF new, e
<1> QED BY <1>15, <1>16

LEMMA EditReaches ==
  ASSUME NEW t \in Seq(Chars), NEW entities \in Seq(Entities), LinksFit(t, entities),
         NEW r \in [0..Len(t) -> Seq(Chars)], RestOf(Pieces(t, entities), r),
         NEW k \in 1..Len(entities), NEW done \in Drafts, NEW c, NEW T,
         Reached(done.text, t, entities, r, k - 1, c, T)
  PROVE  \E d : \E U : Reached(Edit(done, Backwards(entities)[k]).text, t, entities, r, k, d, U)
<1>1. CASE Spans(Backwards(entities)[k], done.text) => Backwards(entities)[k].start >= c
  <2>1. Reached(Edit(done, Backwards(entities)[k]).text, t, entities, r, k, c, T)
    BY <1>1, EditBehind
  <2> QED BY <2>1
<1>2. CASE Spans(Backwards(entities)[k], done.text) /\ ~(Backwards(entities)[k].start >= c)
  <2> DEFINE a == Backwards(entities)[k].start
  <2>1. a \in Int /\ c \in Int
    <3>1. Backwards(entities) \in Seq(Entities) /\ Len(Backwards(entities)) = Len(entities)
      BY BackwardsIsSeq
    <3>2. Backwards(entities)[k] \in Entities
      BY <3>1
    <3>3. c \in 0..Len(t)
      BY DEF Reached
    <3>4. c \in Int
      BY <3>3
    <3> QED BY <3>2, <3>4 DEF Entities
  <2>2. a < c
    BY <1>2, <2>1
  <2>3. a = Backwards(entities)[k].start /\ Spans(Backwards(entities)[k], done.text)
    BY <1>2
  <2> HIDE DEF a
  <2>4. \E U : Reached(Edit(done, Backwards(entities)[k]).text, t, entities, r, k, a, U)
    BY <2>2, <2>3, EditHere
  <2> QED BY <2>4
<1> QED BY <1>1, <1>2

(* Editing gives the words that were meant.                                *)
LEMMA WordsMeant ==
  ASSUME NEW t \in Seq(Chars), NEW entities \in Seq(Entities), LinksFit(t, entities)
  PROVE  Collapse(ExpandTweetURLs(t, entities)) = Collapse(Joined(Pieces(t, entities)))
<1> DEFINE n == Len(entities)
           pieces == Pieces(t, entities)
<1>1. Len(t) \in Nat /\ n \in Nat /\ Space \in Chars
  BY Literals
<1>2. pieces \in Seq(Seq(Chars)) /\ Len(pieces) = Len(t)
  <2>1. \A i \in DOMAIN t : pieces[i] \in Seq(Chars)
    BY PieceIs DEF Pieces
  <2>2. /\ DOMAIN pieces = DOMAIN t /\ pieces = [i \in DOMAIN t |-> pieces[i]]
        /\ DOMAIN t = 1..Len(t)
    BY DEF Pieces
  <2> HIDE DEF pieces
  <2>3. pieces \in [1..Len(t) -> Seq(Chars)]
    BY <2>1, <2>2
  <2> QED BY <1>1, <2>3
<1>3. \A i \in 1..Len(t) : pieces[i] = Piece(t, entities, i)
  BY DEF Pieces
<1> HIDE DEF pieces
<1>4. PICK r \in [0..Len(t) -> Seq(Chars)] : RestOf(pieces, r)
  BY <1>2, JoinedBehind
<1>5. PICK f \in [0..n -> Drafts] : Edited(f, t, entities)
  BY EditingSteps
<1> HIDE DEF n
<1>6. /\ f[0] = [text |-> t, removed |-> FALSE]
      /\ \A k \in 1..n : f[k] = Edit(f[k - 1], Backwards(entities)[k])
      /\ ExpandTweetURLs(t, entities) =
           IF f[n].removed THEN TrimSpace(f[n].text) ELSE f[n].text
  BY <1>5 DEF Edited, n
<1> DEFINE good == {k \in 0..n : \E c : \E T : Reached(f[k].text, t, entities, r, k, c, T)}
<1>7. 0 \in good
  <2>1. f[0].text = t
    BY <1>6
  <2>2. SubSeq(t, 1, Len(t)) \o <<>> = t
    OBVIOUS
  <2>3. r[Len(t)] = <<>>
    BY <1>2, <1>4 DEF RestOf
  <2>4. SameBehind(Chars, <<>>, r[Len(t)])
    BY <2>3 DEF SameBehind
  <2>5. Settled(<<>>, entities) /\ <<>> \in Seq(Chars) /\ Len(t) \in 0..Len(t)
    BY <1>1 DEF Settled
  <2>6. Reached(t, t, entities, r, 0, Len(t), <<>>)
    BY <2>2, <2>4, <2>5 DEF Reached
  <2> QED BY <1>1, <2>1, <2>6
<1>8. ASSUME NEW k \in 1..n, k - 1 \in good PROVE k \in good
  <2>1. PICK c, T : Reached(f[k - 1].text, t, entities, r, k - 1, c, T)
    BY <1>8
  <2>2. f[k - 1] \in Drafts /\ k \in 0..n
    BY <1>1, <1>8
  <2>3. \E d : \E U : Reached(Edit(f[k - 1], Backwards(entities)[k]).text, t, entities, r, k, d, U)
    BY <1>4, <2>1, <2>2, EditReaches DEF n, pieces
  <2> QED BY <1>6, <2>2, <2>3
<1>9. n \in good
  <2>1. n \in 0..n
    BY <1>1
  <2> HIDE DEF good
  <2> QED BY <1>1, <1>7, <1>8, <2>1, Counting
<1>10. PICK c, T : Reached(f[n].text, t, entities, r, n, c, T)
  BY <1>9
<1> DEFINE P == SubSeq(t, 1, c)
           text == f[n].text
<1>11. /\ c \in 0..Len(t) /\ T \in Seq(Chars) /\ text = P \o T
       /\ \/ SameBehind(Chars, T, r[c])
          \/ SameBehindGap(Chars, T, r[c]) /\ AtGap(P)
       /\ \A l \in 1..n : Spans(Backwards(entities)[l], t) => Backwards(entities)[l].start >= c
  BY <1>10 DEF Reached
<1>12. P \in Seq(Chars) /\ text \in Seq(Chars)
  BY <1>1, <1>11
<1>13. \A i \in (0 + 1)..c : pieces[i] = <<t[i]>>
  <2> SUFFICES ASSUME NEW i \in 1..c PROVE pieces[i] = <<t[i]>>
    OBVIOUS
  <2>1. i \in 1..Len(t) /\ i - 1 < c /\ i - 1 \in Int
    BY <1>1, <1>11
  <2>2. SpanningAt(t, entities, i) = {}
    <3> SUFFICES ASSUME NEW j \in SpanningAt(t, entities, i) PROVE FALSE
      OBVIOUS
    <3>1. j \in DOMAIN entities /\ Spans(entities[j], t) /\ entities[j].start = i - 1
      BY DEF SpanningAt
    <3>2. PICK l \in 1..n : Backwards(entities)[l] = entities[j]
      BY <3>1, BackwardsInOrder DEF InOrder, n
    <3>3. i - 1 >= c
      BY <1>11, <3>1, <3>2
    <3>4. c \in Int
      BY <1>11
    <3> QED BY <2>1, <3>3, <3>4
  <2> QED BY <1>3, <2>1, <2>2, PieceIs
<1>14. r[0] = P \o r[c]
  <2>1. 0 \in 0..Len(t) /\ c \in 0..Len(t) /\ 0 + 1 = 1
    BY <1>1, <1>11
  <2>2. PlainBetween(r, t, 0, c)
    BY <1>2, <1>4, <1>13, <2>1, RestOfPlain
  <2> QED BY <2>1, <2>2 DEF PlainBetween
<1>15. r[c] \in Seq(Chars)
  BY <1>11
<1> HIDE DEF P, text
<1>16. Collapse(text) = Collapse(P \o r[c])
  BY <1>11, <1>12 DEF SameBehind, SameBehindGap
<1>17. Collapse(TrimSpace(text)) = Collapse(text)
  BY <1>1, <1>12, TrimmedWords
<1>18. r[0] = Joined(pieces)
  BY <1>4 DEF RestOf
<1> QED BY <1>6, <1>14, <1>16, <1>17, <1>18 DEF text, pieces

(* Two blanks side by side.                                                *)
NoGap(s) == \A i \in 1..(Len(s) - 1) : ~(IsSpace(s[i]) /\ IsSpace(s[i + 1]))

LEMMA NoGapTogether ==
  ASSUME NEW S, NEW A \in Seq(S), NEW B \in Seq(S), NoGap(A), NoGap(B),
         A # <<>> /\ B # <<>> => ~(IsSpace(A[Len(A)]) /\ IsSpace(B[1]))
  PROVE  NoGap(A \o B)
<1> DEFINE C == A \o B
           m == Len(A)
<1>1. /\ m \in Nat /\ Len(B) \in Nat /\ Len(C) = m + Len(B)
      /\ \A i \in 1..(m + Len(B)) : C[i] = IF i <= m THEN A[i] ELSE B[i - m]
      /\ (A = <<>> <=> m = 0) /\ (B = <<>> <=> Len(B) = 0)
  OBVIOUS
<1> HIDE DEF C
<1> SUFFICES ASSUME NEW i \in 1..(Len(C) - 1) PROVE ~(IsSpace(C[i]) /\ IsSpace(C[i + 1]))
  BY DEF NoGap, C
<1>2. i \in 1..(m + Len(B)) /\ i + 1 \in 1..(m + Len(B)) /\ i \in Nat
  BY <1>1
<1>3. CASE i + 1 <= m
  <2>1. i \in 1..(m - 1) /\ i <= m
    BY <1>1, <1>2, <1>3
  <2>2. C[i] = A[i] /\ C[i + 1] = A[i + 1]
    BY <1>1, <1>2, <1>3, <2>1
  <2> QED BY <2>1, <2>2 DEF NoGap
<1>4. CASE i = m
  <2>1. /\ i <= m /\ ~(i + 1 <= m) /\ i + 1 - m = 1 /\ m # 0 /\ Len(B) # 0
    BY <1>1, <1>2, <1>4
  <2>2. C[i] = A[m] /\ C[i + 1] = B[1]
    BY <1>1, <1>2, <1>4, <2>1
  <2> QED BY <1>1, <2>1, <2>2
<1>5. CASE i > m
  <2>1. /\ ~(i <= m) /\ ~(i + 1 <= m) /\ i + 1 - m = i - m + 1 /\ i - m \in 1..(Len(B) - 1)
    BY <1>1, <1>2, <1>5
  <2>2. C[i] = B[i - m] /\ C[i + 1] = B[i + 1 - m]
    BY <1>1, <1>2, <2>1
  <2> DEFINE j == i - m
  <2>3. j \in 1..(Len(B) - 1) /\ C[i] = B[j] /\ C[i + 1] = B[j + 1]
    BY <2>1, <2>2
  <2> HIDE DEF j
  <2> QED BY <2>3 DEF NoGap
<1> QED BY <1>1, <1>2, <1>3, <1>4, <1>5

LEMMA NoGapInSlice ==
  ASSUME NEW S, NEW s \in Seq(S), NoGap(s), NEW a \in 1..(Len(s) + 1), NEW b \in (a - 1)..Len(s)
  PROVE  NoGap(SubSeq(s, a, b))
<1> DEFINE p == SubSeq(s, a, b)
<1>1. /\ Len(p) = b - (a - 1)
      /\ \A i \in 1..(b - (a - 1)) : p[i] = s[(a - 1) + i] /\ (a - 1) + i \in 1..Len(s)
  BY Slice
<1> HIDE DEF p
<1> SUFFICES ASSUME NEW i \in 1..(Len(p) - 1) PROVE ~(IsSpace(p[i]) /\ IsSpace(p[i + 1]))
  BY DEF NoGap, p
<1>2. i \in 1..(b - (a - 1)) /\ i + 1 \in 1..(b - (a - 1)) /\ Len(s) \in Nat
  BY <1>1
<1> DEFINE j == (a - 1) + i
<1>3. j + 1 = (a - 1) + (i + 1) /\ j \in 1..(Len(s) - 1)
  BY <1>1, <1>2
<1>4. p[i] = s[j] /\ p[i + 1] = s[j + 1]
  BY <1>1, <1>2, <1>3
<1> HIDE DEF j
<1> QED BY <1>3, <1>4 DEF NoGap

(* No gap is left where a link was.                                        *)
LEMMA EditLeavesNoGap ==
  ASSUME NEW t, NEW entities \in Seq(Entities), LinksFit(t, entities),
         NEW k \in DOMAIN entities, NEW done \in Drafts, NoGap(done.text)
  PROVE  NoGap(Edit(done, entities[k]).text)
<1> DEFINE e == entities[k]
           text == done.text
           new == Edit(done, e).text
<1>1. text \in Seq(Chars) /\ e \in Entities
  BY DEF Drafts
<1>2. CASE ~Spans(e, text)
  BY <1>2 DEF Edit
<1>3. CASE Spans(e, text)
  <2> DEFINE a == e.start
             n == Len(text)
             start == SubSeq(text, 1, a)
             rest == SubSeq(text, a + 2, n)
             S == Stands(e)
             swallowed == /\ e.media /\ a + 2 <= n /\ IsSpace(text[a + 2])
                          /\ a = 0 \/ IsSpace(text[a])
  <2>1. /\ a \in 0..(n - 1)
        /\ ~swallowed => new = start \o (S \o rest)
        /\ swallowed => new = start \o SubSeq(text, a + 3, n)
    BY <1>1, <1>3, EditedText
  <2>2. Placed(e)
    BY <1>1, <1>3, SpanIsOne
  <2>3. S \in Seq(Chars)
    BY <1>1, StandsIsText
  <2>4. \A i \in DOMAIN S : ~IsSpace(S[i])
    <3>1. ~IsSpace(e.url) /\ \A i \in DOMAIN e.expanded : ~IsSpace(e.expanded[i])
      BY <2>2 DEF LinksFit
    <3>2. S = <<>> \/ S = <<e.url>> \/ S = e.expanded
      BY DEF Stands
    <3> HIDE DEF S, e
    <3> QED BY <3>1, <3>2
  <2>5. e.media <=> S = <<>>
    <3>1. e.media => S = <<>>
      BY DEF Stands
    <3>2. ~e.media => S = <<e.url>> \/ (S = e.expanded /\ e.expanded # <<>>)
      BY DEF Stands
    <3>3. <<e.url>> # <<>>
      OBVIOUS
    <3> HIDE DEF S, e
    <3>4. ~e.media => S # <<>>
      BY <3>2, <3>3
    <3> QED BY <3>1, <3>4, Zenon
  <2>a. n \in Nat /\ NoGap(text)
    BY <1>1
  <2> HIDE DEF text, new, S, e
  <2>b. a \in 0..(n - 1)
    BY <2>1
  <2> HIDE DEF a, n
  <2>c. a \in Nat /\ a + 1 <= n /\ 1 - 1 = 0 /\ (a + 2) - 1 = a + 1
    BY <2>a, <2>b
  <2>d. 1 \in 1..(n + 1) /\ a \in (1 - 1)..n
    BY <2>a, <2>c
  <2>e. a + 2 \in 1..(n + 1) /\ n \in ((a + 2) - 1)..n
    BY <2>a, <2>c
  <2>6. /\ a \in Nat /\ a + 1 <= n /\ 1 \in 1..(n + 1) /\ a \in (1 - 1)..n
        /\ a + 2 \in 1..(n + 1) /\ n \in ((a + 2) - 1)..n /\ (a + 2) - 1 = a + 1
    BY <2>c, <2>d, <2>e
  <2>7. /\ start \in Seq(Chars) /\ NoGap(start) /\ Len(start) = a
        /\ \A i \in 1..a : start[i] = text[i]
    <3>1. /\ start \in Seq(Chars) /\ Len(start) = a - (1 - 1)
          /\ \A i \in 1..(a - (1 - 1)) : start[i] = text[(1 - 1) + i]
      BY <1>1, <2>6, Slice DEF n
    <3>2. NoGap(start)
      BY <1>1, <2>6, <2>a, NoGapInSlice DEF n
    <3> HIDE DEF start
    <3> QED BY <2>6, <3>1, <3>2
  <2>8. /\ rest \in Seq(Chars) /\ NoGap(rest) /\ Len(rest) = n - (a + 1)
        /\ rest # <<>> => a + 2 <= n /\ rest[1] = text[a + 2]
    <3>1. /\ rest \in Seq(Chars) /\ Len(rest) = n - ((a + 2) - 1)
          /\ \A i \in 1..(n - ((a + 2) - 1)) : rest[i] = text[((a + 2) - 1) + i]
      BY <1>1, <2>6, Slice DEF n
    <3>2. NoGap(rest)
      BY <1>1, <2>6, <2>a, NoGapInSlice DEF n
    <3> HIDE DEF rest
    <3>3. Len(rest) = n - (a + 1) /\ \A i \in 1..(n - (a + 1)) : rest[i] = text[(a + 1) + i]
      BY <2>6, <3>1
    <3>4. rest # <<>> => n - (a + 1) >= 1
      BY <2>6, <2>a, <3>1, <3>3
    <3>5. n - (a + 1) >= 1 => a + 2 <= n /\ 1 \in 1..(n - (a + 1)) /\ (a + 1) + 1 = a + 2
      BY <2>6, <2>a
    <3> QED BY <3>1, <3>2, <3>3, <3>4, <3>5
  <2>9. start # <<>> => a # 0 /\ start[Len(start)] = text[a]
    <3> HIDE DEF start
    <3> QED BY <2>6, <2>7
  <2> HIDE DEF start, rest
  <2>10. ASSUME ~swallowed PROVE NoGap(new)
    <3>1. CASE S = <<>>
      <4>1. S \o rest = rest
        BY <2>8, <3>1
      <4>2. start # <<>> /\ rest # <<>> => ~(IsSpace(start[Len(start)]) /\ IsSpace(rest[1]))
        BY <2>5, <2>8, <2>9, <2>10, <3>1
      <4>3. NoGap(start \o rest)
        BY <2>7, <2>8, <4>2, NoGapTogether
      <4> QED BY <2>1, <2>10, <4>1, <4>3
    <3>2. CASE S # <<>>
      <4>1. 1 \in DOMAIN S /\ Len(S) \in DOMAIN S
        BY <2>3, <3>2
      <4>2. NoGap(S)
        <5>1. \A i \in 1..(Len(S) - 1) : i \in DOMAIN S
          BY <2>3
        <5> QED BY <2>4, <5>1 DEF NoGap
      <4>3. NoGap(S \o rest)
        BY <2>3, <2>4, <2>8, <4>1, <4>2, NoGapTogether
      <4>4. S \o rest \in Seq(Chars) /\ S \o rest # <<>> /\ (S \o rest)[1] = S[1]
        BY <2>3, <2>8, <3>2
      <4> DEFINE U == S \o rest
      <4> HIDE DEF U
      <4>5. U \in Seq(Chars) /\ NoGap(U) /\ ~IsSpace(U[1])
        BY <2>4, <4>1, <4>3, <4>4 DEF U
      <4>6. NoGap(start \o U)
        BY <2>7, <4>5, NoGapTogether
      <4> QED BY <2>1, <2>10, <4>6 DEF U
    <3> QED BY <3>1, <3>2
  <2>11. ASSUME swallowed PROVE NoGap(new)
    <3> DEFINE U == SubSeq(text, a + 3, n)
    <3>1. a + 2 <= n /\ IsSpace(text[a + 2])
      BY <2>11
    <3>2. a + 3 \in 1..(n + 1) /\ n \in ((a + 3) - 1)..n /\ (a + 3) - 1 = a + 2
      <4>1. a + 3 \in Nat /\ 1 <= a + 3 /\ a + 3 <= n + 1 /\ (a + 3) - 1 = a + 2
        BY <2>6, <2>a, <3>1
      <4> QED BY <2>a, <3>1, <4>1
    <3>3. /\ U \in Seq(Chars) /\ Len(U) = n - ((a + 3) - 1)
          /\ \A i \in 1..(n - ((a + 3) - 1)) : U[i] = text[((a + 3) - 1) + i]
      BY <1>1, <3>2, Slice DEF n
    <3>4. NoGap(U)
      BY <1>1, <2>a, <3>2, NoGapInSlice DEF n
    <3> HIDE DEF U
    <3>5. U # <<>> => ~IsSpace(U[1])
      <4> SUFFICES ASSUME U # <<>> PROVE ~IsSpace(U[1])
        OBVIOUS
      <4>1. Len(U) = n - (a + 2) /\ \A i \in 1..(n - (a + 2)) : U[i] = text[(a + 2) + i]
        BY <3>2, <3>3
      <4>2. n - (a + 2) >= 1
        BY <2>6, <2>a, <3>3, <4>1
      <4>3. /\ 1 \in 1..(n - (a + 2)) /\ (a + 2) + 1 = a + 3 /\ a + 2 \in 1..(n - 1)
        BY <2>6, <2>a, <4>2
      <4>4. U[1] = text[(a + 2) + 1]
        BY <4>1, <4>3
      <4> QED BY <2>a, <3>1, <4>3, <4>4 DEF NoGap, n
    <3>6. NoGap(start \o U)
      BY <2>7, <3>3, <3>4, <3>5, NoGapTogether
    <3> QED BY <2>1, <2>11, <3>6 DEF U
  <2>12. NoGap(new)
    BY <2>10, <2>11
  <2> QED BY <2>12 DEF new, e
<1> QED BY <1>2, <1>3

LEMMA LinksLeaveNoGap ==
  ASSUME NEW t \in Seq(Chars), NEW entities \in Seq(Entities), LinksFit(t, entities), NoGap(t)
  PROVE  NoGap(ExpandTweetURLs(t, entities))
<1> DEFINE n == Len(entities)
<1>1. n \in Nat
  OBVIOUS
<1>2. PICK f \in [0..n -> Drafts] : Edited(f, t, entities)
  BY EditingSteps
<1> HIDE DEF n
<1>3. /\ f[0] = [text |-> t, removed |-> FALSE]
      /\ \A k \in 1..n : f[k] = Edit(f[k - 1], Backwards(entities)[k])
      /\ ExpandTweetURLs(t, entities) =
           IF f[n].removed THEN TrimSpace(f[n].text) ELSE f[n].text
  BY <1>2 DEF Edited, n
<1> DEFINE good == {k \in 0..n : NoGap(f[k].text)}
<1>4. 0 \in good
  BY <1>1, <1>3
<1>5. ASSUME NEW k \in 1..n, k - 1 \in good PROVE k \in good
  <2>1. f[k - 1] \in Drafts /\ k \in 0..n /\ NoGap(f[k - 1].text)
    BY <1>1, <1>5
  <2>2. PICK i \in DOMAIN entities : Backwards(entities)[k] = entities[i]
    BY BackwardsInOrder DEF InOrder, n
  <2>3. NoGap(Edit(f[k - 1], entities[i]).text)
    BY <2>1, EditLeavesNoGap
  <2> QED BY <1>3, <2>1, <2>2, <2>3
<1>6. n \in good
  <2>1. n \in 0..n
    BY <1>1
  <2> HIDE DEF good
  <2> QED BY <1>1, <1>4, <1>5, <2>1, Counting
<1> DEFINE text == f[n].text
<1>7. text \in Seq(Chars) /\ NoGap(text)
  <2>1. f[n] \in Drafts
    BY <1>1
  <2> QED BY <1>6, <2>1 DEF Drafts
<1> HIDE DEF text
<1>8. NoGap(TrimSpace(text))
  <2>1. CASE TrimSpace(text) = <<>>
    <3>1. \A i \in 1..(Len(<<>>) - 1) : FALSE
      OBVIOUS
    <3> QED BY <2>1, <3>1 DEF NoGap
  <2>2. CASE TrimSpace(text) # <<>>
    <3>1. PICK a \in 1..Len(text) : \E b \in a..Len(text) : TrimSpace(text) = SubSeq(text, a, b)
      BY <1>7, <2>2, TrimmedRun
    <3>2. PICK b \in a..Len(text) : TrimSpace(text) = SubSeq(text, a, b)
      BY <3>1
    <3>3. a \in 1..(Len(text) + 1) /\ b \in (a - 1)..Len(text)
      BY <1>7
    <3> QED BY <1>7, <3>2, <3>3, NoGapInSlice
  <2> QED BY <2>1, <2>2
<1> QED BY <1>3, <1>7, <1>8 DEF text
=============================================================================
