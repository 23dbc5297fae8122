-------------------------- MODULE SearchTextProofs --------------------------
(***************************************************************************)
(* Theorems of SearchText, for any journal, any stamps with units that     *)
(* have room for them, and any number of comparisons: a text is refused or *)
(* ends in what is undefined only when a value has a quotation mark or a   *)
(* key word in it or the letters of a column, and selects otherwise what   *)
(* its comparisons mean.                                                   *)
(***************************************************************************)
EXTENDS SearchText, DataInduction, SequenceTheorems, TLAPS

(* Concatenation, element by element.                                      *)
LEMMA Concatenated ==
  ASSUME NEW u \in Seq(Token), NEW t \in Seq(Token)
  PROVE  /\ u \o t \in Seq(Token)
         /\ Len(u \o t) = Len(u) + Len(t)
         /\ \A i \in 1 .. Len(u) : (u \o t)[i] = u[i]
         /\ \A i \in 1 .. Len(t) : (u \o t)[Len(u) + i] = t[i]
<1>1. /\ u \o t \in Seq(Token) /\ Len(u \o t) = Len(u) + Len(t)
      /\ \A i \in 1 .. Len(u) + Len(t) : (u \o t)[i] = IF i <= Len(u) THEN u[i] ELSE t[i - Len(u)]
  BY ConcatProperties
<1>2. Len(u) \in Nat /\ Len(t) \in Nat
  BY LenProperties
<1>3. ASSUME NEW i \in 1 .. Len(t)
      PROVE  (u \o t)[Len(u) + i] = t[i]
  <2>1. Len(u) + i \in 1 .. Len(u) + Len(t) /\ ~(Len(u) + i <= Len(u)) /\ (Len(u) + i) - Len(u) = i
    BY <1>2
  <2>. QED BY <1>1, <2>1
<1>. QED BY <1>1, <1>2, <1>3

(* Concatenation is associative.                                           *)
LEMMA Reassociated ==
  ASSUME NEW u \in Seq(Token), NEW t \in Seq(Token), NEW w \in Seq(Token)
  PROVE  (u \o t) \o w = u \o (t \o w)
BY ConcatAssociative

(* A stretch of a text, element by element.                                *)
LEMMA Stretch ==
  ASSUME NEW s \in Seq(Token), NEW i \in 1 .. Len(s) + 1, NEW j \in i - 1 .. Len(s)
  PROVE  /\ SubSeq(s, i, j) \in Seq(Token)
         /\ Len(SubSeq(s, i, j)) = j + 1 - i
         /\ \A k \in 1 .. j + 1 - i : SubSeq(s, i, j)[k] = s[i + k - 1]
<1>1. Len(s) \in Nat /\ \A k \in 1 .. Len(s) : s[k] \in Token
  BY LenProperties, ElementOfSeq
<1>2. i \in Int /\ j \in Int /\ \A k \in i .. j : k \in 1 .. Len(s)
  BY <1>1
<1>3. \A k \in i .. j : s[k] \in Token
  BY <1>1, <1>2
<1>4. /\ SubSeq(s, i, j) \in Seq(Token)
      /\ Len(SubSeq(s, i, j)) = IF i <= j THEN j - i + 1 ELSE 0
      /\ \A k \in 1 .. j - i + 1 : SubSeq(s, i, j)[k] = s[i + k - 1]
  BY <1>2, <1>3, SubSeqProperties
<1>5. (IF i <= j THEN j - i + 1 ELSE 0) = j + 1 - i /\ j - i + 1 = j + 1 - i
  BY <1>1, <1>2
<1>. QED BY <1>4, <1>5

(* Where a piece stands, element by element.                               *)
LEMMA Standing ==
  ASSUME NEW s \in Seq(Token), NEW piece \in Seq(Token), piece # << >>, NEW i \in 1 .. Len(s)
  PROVE  StandsAt(s, piece, i) <=> /\ i + Len(piece) <= Len(s) + 1
                                   /\ \A k \in 1 .. Len(piece) : s[i + k - 1] = piece[k]
<1>1. Len(s) \in Nat /\ Len(piece) \in Nat
  BY LenProperties
<1>2. SUFFICES ASSUME i + Len(piece) <= Len(s) + 1
               PROVE  SubSeq(s, i, i + Len(piece) - 1) = piece
                        <=> \A k \in 1 .. Len(piece) : s[i + k - 1] = piece[k]
  BY DEF StandsAt
<1>. DEFINE j == i + Len(piece) - 1
            cut == SubSeq(s, i, j)
<1>3. i \in 1 .. Len(s) + 1 /\ j \in i - 1 .. Len(s) /\ j + 1 - i = Len(piece)
  BY <1>1, <1>2
<1>4. /\ cut \in Seq(Token) /\ Len(cut) = Len(piece)
      /\ \A k \in 1 .. Len(piece) : cut[k] = s[i + k - 1]
  <2>. HIDE DEF j
  <2>. QED BY <1>3, Stretch
<1>5. cut = piece <=> \A k \in 1 .. Len(piece) : cut[k] = piece[k]
  <2>. HIDE DEF cut
  <2>. QED BY <1>4, SeqEqual
<1>. HIDE DEF cut
<1>. QED BY <1>4, <1>5 DEF cut

(* A piece stands behind a beginning where it stands in the rest.          *)
LEMMA StandingBehind ==
  ASSUME NEW u \in Seq(Token), NEW t \in Seq(Token), NEW piece \in Seq(Token), piece # << >>,
         NEW i \in 1 .. Len(t)
  PROVE  StandsAt(u \o t, piece, Len(u) + i) <=> StandsAt(t, piece, i)
<1>. DEFINE s == u \o t
            n == Len(u)
<1>1. /\ s \in Seq(Token) /\ Len(s) = n + Len(t)
      /\ \A k \in 1 .. Len(t) : s[n + k] = t[k]
  BY Concatenated
<1>2. n \in Nat /\ Len(t) \in Nat /\ Len(piece) \in Nat
  BY LenProperties
<1>. HIDE DEF s, n
<1>3. StandsAt(t, piece, i) <=> /\ i + Len(piece) <= Len(t) + 1
                                /\ \A k \in 1 .. Len(piece) : t[i + k - 1] = piece[k]
  BY Standing
<1>4. StandsAt(s, piece, n + i) <=> /\ n + i + Len(piece) <= Len(s) + 1
                                    /\ \A k \in 1 .. Len(piece) : s[n + i + k - 1] = piece[k]
  <2>1. n + i \in 1 .. Len(s)
    BY <1>1, <1>2
  <2>. QED BY <1>1, <2>1, Standing
<1>5. n + i + Len(piece) <= Len(s) + 1 <=> i + Len(piece) <= Len(t) + 1
  BY <1>1, <1>2
<1>6. ASSUME i + Len(piece) <= Len(t) + 1, NEW k \in 1 .. Len(piece)
      PROVE  s[n + i + k - 1] = t[i + k - 1]
  <2>1. i + k - 1 \in 1 .. Len(t) /\ n + (i + k - 1) = n + i + k - 1
    BY <1>2, <1>6
  <2>. QED BY <1>1, <2>1
<1>7. StandsAt(s, piece, n + i) <=> StandsAt(t, piece, i)
  BY <1>3, <1>4, <1>5, <1>6
<1>. QED BY <1>7 DEF s, n

-----------------------------------------------------------------------------
(* Replace of a piece: what becomes of a text from each position on.       *)
Rewrites(r, s, piece, by) ==
  /\ r \in [1 .. Len(s) + 1 -> Seq(Token)]
  /\ r[Len(s) + 1] = << >>
  /\ \A i \in 1 .. Len(s) :
       r[i] = IF StandsAt(s, piece, i) THEN by \o r[i + Len(piece)] ELSE <<s[i]>> \o r[i + 1]

(* The recursion of ReplacePiece has the value its definition says.        *)
LEMMA PieceRewrites ==
  ASSUME NEW s \in Seq(Token), NEW piece \in Seq(Token), piece # << >>, NEW by \in Seq(Token)
  PROVE  \E r : Rewrites(r, s, piece, by) /\ ReplacePiece(s, piece, by) = r[1]
<1>. DEFINE b == Len(s) + 1
            V == Seq(Token)
            H(f, i) == IF i = b THEN << >>
                       ELSE IF StandsAt(s, piece, i) THEN by \o f[i + Len(piece)]
                       ELSE <<s[i]>> \o f[i + 1]
            G == [x \in [1 .. b -> V] \X (1 .. b) |-> H(x[1], x[2])]
            Solves(f) == f = [i \in 1 .. b |-> H(f, i)]
<1>1. /\ Len(s) \in Nat /\ Len(piece) \in Nat \ {0} /\ b \in Nat /\ b = Len(s) + 1
      /\ << >> \in V /\ \A i \in 1 .. Len(s) : <<s[i]>> \in V
  BY LenProperties, ElementOfSeq, EmptySeq
<1>2. ASSUME NEW i \in 1 .. b, i # b
      PROVE  /\ i \in 1 .. Len(s) /\ i + 1 \in i + 1 .. b
             /\ StandsAt(s, piece, i) => i + Len(piece) \in i + 1 .. b
  BY <1>1, <1>2 DEF StandsAt
<1>3. ASSUME NEW f \in [1 .. b -> V], NEW i \in 1 .. b
      PROVE  H(f, i) \in V
  <2>1. CASE i = b
    BY <1>1, <2>1
  <2>2. CASE i # b /\ StandsAt(s, piece, i)
    <3>1. f[i + Len(piece)] \in V
      BY <1>2, <2>2
    <3>2. by \o f[i + Len(piece)] \in V
      BY <3>1, ConcatProperties
    <3>. QED BY <2>2, <3>2
  <2>3. CASE i # b /\ ~StandsAt(s, piece, i)
    <3>1. f[i + 1] \in V /\ <<s[i]>> \in V
      BY <1>1, <1>2, <2>3
    <3>2. <<s[i]>> \o f[i + 1] \in V
      BY <3>1, ConcatProperties
    <3>. QED BY <2>3, <3>2
  <2>. QED BY <2>1, <2>2, <2>3
<1>4. G \in [[1 .. b -> V] \X (1 .. b) -> V]
  <2>. HIDE DEF V, H, b
  <2>. QED BY <1>3
<1>5. ASSUME NEW i \in 1 .. b, NEW f \in [1 .. b -> V], NEW g \in [1 .. b -> V],
             \A j \in i + 1 .. b : f[j] = g[j]
      PROVE  G[<<f, i>>] = G[<<g, i>>]
  <2>1. H(f, i) = H(g, i)
    <3>1. CASE i = b
      BY <3>1
    <3>2. CASE i # b
      <4>1. f[i + 1] = g[i + 1]
        BY <1>2, <1>5, <3>2
      <4>2. StandsAt(s, piece, i) => f[i + Len(piece)] = g[i + Len(piece)]
        BY <1>2, <1>5, <3>2
      <4>. QED BY <4>1, <4>2
    <3>. QED BY <3>1, <3>2
  <2>. HIDE DEF H, V, b
  <2>. QED BY <2>1
<1>6. PICK f \in [1 .. b -> V] : Countdown(f, 1, b, G)
  <2>1. 1 \in Int /\ b \in Int
    BY <1>1
  <2>2. LooksBehind(G, 1, b, V)
    <3>. HIDE DEF G, V, b
    <3>. QED BY <1>5 DEF LooksBehind
  <2>. HIDE DEF G, V, b
  <2>. QED BY <1>1, <1>4, <2>1, <2>2, CountdownRecursion
<1>7. Solves(f)
  <2>1. \A i \in 1 .. b : f[i] = H(f, i)
    <3>. HIDE DEF H, V, b
    <3>. QED BY <1>6 DEF Countdown
  <2>. HIDE DEF H, V, b
  <2>. QED BY <1>6, <2>1
<1>. DEFINE r == CHOOSE g : Solves(g)
<1>8. Solves(r)
  <2>. HIDE DEF Solves
  <2>. QED BY <1>7
<1>9. ReplacePiece(s, piece, by) = r[1]
  BY DEF ReplacePiece
<1>10. \A i \in 1 .. b : r[i] = H(r, i)
  <2>. HIDE DEF r, H, b
  <2>. QED BY <1>8
<1>11. b \in 1 .. b /\ \A i \in 1 .. Len(s) : i \in 1 .. b /\ i # b
  BY <1>1
<1>12. r[b] = << >>
  <2>1. H(r, b) = << >>
    OBVIOUS
  <2>2. r[b] = H(r, b)
    <3>. HIDE DEF r, H, b
    <3>. QED BY <1>10, <1>11
  <2>. QED BY <2>1, <2>2
<1>13. 1 .. b \subseteq {i \in Int : r[i] \in V}
  <2>. DEFINE T == {n \in Int : \A k \in 1 .. b : k >= b - n => r[k] \in V}
  <2>1. 0 \in T
    <3>1. r[b] \in V
      <4>. HIDE DEF r, b
      <4>. QED BY <1>1, <1>12
    <3>2. \A k \in 1 .. b : k >= b - 0 => k = b
      BY <1>1
    <3>. HIDE DEF r, V, b
    <3>. QED BY <3>1, <3>2
  <2>2. \A n \in 0 .. b - 1 : n \in T => n + 1 \in T
    <3>1. SUFFICES ASSUME NEW n \in 0 .. b - 1, n \in T, NEW k \in 1 .. b, k >= b - (n + 1)
                   PROVE  r[k] \in V
      <4>. HIDE DEF r, V, b
      <4>. QED OBVIOUS
    <3>. HIDE DEF r
    <3>2. CASE k >= b - n
      BY <3>1, <3>2
    <3>3. CASE ~(k >= b - n)
      <4>1. \A j \in k + 1 .. b : r[j] \in V
        <5>1. \A j \in k + 1 .. b : j \in 1 .. b /\ j >= b - n
          BY <1>1, <3>1
        <5>. HIDE DEF V, b
        <5>. QED BY <3>1, <5>1
      <4>2. CASE k = b
        BY <1>1, <1>10, <4>2
      <4>3. CASE k # b
        <5>1. /\ k \in 1 .. Len(s) /\ k + 1 \in k + 1 .. b
              /\ StandsAt(s, piece, k) => k + Len(piece) \in k + 1 .. b
          <6>. HIDE DEF b
          <6>. QED BY <1>2, <4>3
        <5>2. CASE StandsAt(s, piece, k)
          <6>1. r[k + Len(piece)] \in V
            <7>. HIDE DEF V, b
            <7>. QED BY <4>1, <5>1, <5>2
          <6>2. by \o r[k + Len(piece)] \in V
            BY <6>1, ConcatProperties
          <6>. QED BY <1>10, <4>3, <5>2, <6>2
        <5>3. CASE ~StandsAt(s, piece, k)
          <6>1. r[k + 1] \in V /\ <<s[k]>> \in V
            <7>. HIDE DEF V, b
            <7>. QED BY <1>1, <4>1, <5>1
          <6>2. <<s[k]>> \o r[k + 1] \in V
            BY <6>1, ConcatProperties
          <6>. QED BY <1>10, <4>3, <5>3, <6>2
        <5>. QED BY <5>2, <5>3
      <4>. QED BY <4>2, <4>3
    <3>. QED BY <3>2, <3>3
  <2>3. 0 .. b \subseteq T
    <3>1. 0 \in Int /\ b \in Int
      BY <1>1
    <3>. HIDE DEF T, b
    <3>. QED BY <2>1, <2>2, <3>1, RangeInduction
  <2>4. b \in T
    <3>. HIDE DEF T
    <3>. QED BY <1>1, <2>3
  <2>. HIDE DEF r, V
  <2>. QED BY <1>1, <2>4
<1>14. r \in [1 .. b -> V]
  <2>1. r = [i \in 1 .. b |-> r[i]]
    <3>. HIDE DEF r, H
    <3>. QED BY <1>8
  <2>. HIDE DEF r, V, b
  <2>. QED BY <1>13, <2>1
<1>15. Rewrites(r, s, piece, by)
  <2>2. \A i \in 1 .. Len(s) :
          r[i] = IF StandsAt(s, piece, i) THEN by \o r[i + Len(piece)] ELSE <<s[i]>> \o r[i + 1]
    <3>. HIDE DEF r
    <3>. QED BY <1>10, <1>11
  <2>. HIDE DEF r
  <2>. QED BY <1>14, <1>12, <2>2 DEF Rewrites
<1>. HIDE DEF r
<1>. QED BY <1>9, <1>15

(* The rewriting of a rest is that of a text on its own.                   *)
LEMMA RestRewritten ==
  ASSUME NEW u \in Seq(Token), NEW t \in Seq(Token), NEW piece \in Seq(Token), piece # << >>,
         NEW by \in Seq(Token), NEW r, Rewrites(r, u \o t, piece, by),
         NEW q, Rewrites(q, t, piece, by)
  PROVE  \A i \in 1 .. Len(t) + 1 : r[Len(u) + i] = q[i]
<1>. DEFINE s == u \o t
            m == Len(u)
            b == Len(t) + 1
            T == {n \in Int : \A i \in 1 .. b : i >= b - n => r[m + i] = q[i]}
<1>1. /\ s \in Seq(Token) /\ Len(s) = m + Len(t) /\ m \in Nat /\ Len(t) \in Nat
      /\ Len(piece) \in Nat \ {0} /\ b = Len(t) + 1
      /\ \A i \in 1 .. Len(t) : s[m + i] = t[i]
  BY Concatenated, LenProperties, EmptySeq
<1>2. ASSUME NEW i \in 1 .. Len(t)
      PROVE  /\ r[m + i] = IF StandsAt(t, piece, i) THEN by \o r[m + (i + Len(piece))]
                           ELSE <<t[i]>> \o r[m + (i + 1)]
             /\ q[i] = IF StandsAt(t, piece, i) THEN by \o q[i + Len(piece)]
                       ELSE <<t[i]>> \o q[i + 1]
  <2>1. StandsAt(s, piece, m + i) <=> StandsAt(t, piece, i)
    BY StandingBehind
  <2>2. /\ m + i \in 1 .. Len(s) /\ m + i + Len(piece) = m + (i + Len(piece))
        /\ m + i + 1 = m + (i + 1)
    BY <1>1
  <2>3. r[m + i] = IF StandsAt(s, piece, m + i) THEN by \o r[m + i + Len(piece)]
                   ELSE <<s[m + i]>> \o r[m + i + 1]
    <3>. HIDE DEF m
    <3>. QED BY <2>2 DEF Rewrites
  <2>. HIDE DEF s, m
  <2>. QED BY <1>1, <2>1, <2>2, <2>3 DEF Rewrites
<1>3. 0 \in T
  <2>1. r[m + b] = << >> /\ q[b] = << >>
    <3>1. m + b = Len(s) + 1
      BY <1>1
    <3>. HIDE DEF m, b
    <3>. QED BY <1>1, <3>1 DEF Rewrites
  <2>2. \A i \in 1 .. b : i >= b - 0 => i = b
    BY <1>1
  <2>. HIDE DEF m, b
  <2>. QED BY <2>1, <2>2
<1>4. \A n \in 0 .. b - 1 : n \in T => n + 1 \in T
  <2>1. SUFFICES ASSUME NEW n \in 0 .. b - 1, n \in T, NEW i \in 1 .. b, i >= b - (n + 1)
                 PROVE  r[m + i] = q[i]
    <3>. HIDE DEF m, b
    <3>. QED OBVIOUS
  <2>2. CASE i >= b - n
    <3>. HIDE DEF m
    <3>. QED BY <2>1, <2>2
  <2>3. CASE ~(i >= b - n)
    <3>1. i \in 1 .. Len(t)
      BY <1>1, <2>1, <2>3
    <3>2. \A j \in i + 1 .. b : r[m + j] = q[j]
      <4>1. \A j \in i + 1 .. b : j \in 1 .. b /\ j >= b - n
        BY <1>1, <2>1
      <4>. HIDE DEF m, b
      <4>. QED BY <2>1, <4>1
    <3>3. i + 1 \in i + 1 .. b /\ (StandsAt(t, piece, i) => i + Len(piece) \in i + 1 .. b)
      BY <1>1, <3>1 DEF StandsAt
    <3>. HIDE DEF m, b
    <3>. QED BY <1>2, <3>1, <3>2, <3>3
  <2>. QED BY <2>2, <2>3
<1>5. 0 .. b \subseteq T
  <2>1. 0 \in Int /\ b \in Int
    BY <1>1
  <2>. HIDE DEF T, b
  <2>. QED BY <1>3, <1>4, <2>1, RangeInduction
<1>6. b \in T
  <2>. HIDE DEF T
  <2>. QED BY <1>1, <1>5
<1>. HIDE DEF m
<1>. QED BY <1>1, <1>6 DEF m

(* A piece that is found is replaced, and the rest is rewritten.           *)
LEMMA PieceReplaced ==
  ASSUME NEW t \in Seq(Token), NEW piece \in Seq(Token), piece # << >>, NEW by \in Seq(Token)
  PROVE  ReplacePiece(piece \o t, piece, by) = by \o ReplacePiece(t, piece, by)
<1>. DEFINE s == piece \o t
            m == Len(piece)
<1>1. /\ s \in Seq(Token) /\ Len(s) = m + Len(t) /\ m \in Nat \ {0} /\ Len(t) \in Nat
      /\ \A i \in 1 .. m : s[i] = piece[i]
  BY Concatenated, LenProperties, EmptySeq
<1>2. PICK r : Rewrites(r, s, piece, by) /\ ReplacePiece(s, piece, by) = r[1]
  <2>. HIDE DEF s
  <2>. QED BY <1>1, PieceRewrites
<1>3. PICK q : Rewrites(q, t, piece, by) /\ ReplacePiece(t, piece, by) = q[1]
  BY PieceRewrites
<1>4. r[m + 1] = q[1]
  <2>1. 1 \in 1 .. Len(t) + 1
    BY <1>1
  <2>. QED BY <1>2, <1>3, <2>1, RestRewritten
<1>5. StandsAt(s, piece, 1)
  <2>1. 1 \in 1 .. Len(s) /\ 1 + m <= Len(s) + 1 /\ \A k \in 1 .. m : 1 + k - 1 = k
    BY <1>1
  <2>2. \A k \in 1 .. m : s[1 + k - 1] = piece[k]
    <3>. HIDE DEF s, m
    <3>. QED BY <1>1, <2>1
  <2>. HIDE DEF s
  <2>. QED BY <1>1, <2>1, <2>2, Standing
<1>6. r[1] = by \o r[m + 1]
  <2>1. 1 \in 1 .. Len(s) /\ 1 + Len(piece) = m + 1
    BY <1>1
  <2>2. r[1] = by \o r[1 + Len(piece)]
    <3>. HIDE DEF s
    <3>. QED BY <1>2, <1>5, <2>1 DEF Rewrites
  <2>. QED BY <2>1, <2>2
<1>. HIDE DEF s, m
<1>. QED BY <1>2, <1>3, <1>4, <1>6 DEF s

(* A rest of a text and the rest that begins one token later.              *)
LEMMA OneMore ==
  ASSUME NEW u \in Seq(Token), NEW i \in 1 .. Len(u), NEW w \in Seq(Token)
  PROVE  SubSeq(u, i, Len(u)) \o w = <<u[i]>> \o (SubSeq(u, i + 1, Len(u)) \o w)
<1>. DEFINE c == <<u[i]>>
            d == SubSeq(u, i + 1, Len(u))
<1>1. Len(u) \in i .. Len(u) /\ i + 1 \in 1 .. Len(u) + 1 /\ Len(u) \in (i + 1) - 1 .. Len(u)
  BY LenProperties
<1>2. SubSeq(u, i, Len(u)) = c \o d
  BY <1>1, SubSeqRecursiveFirst
<1>3. c \in Seq(Token) /\ d \in Seq(Token)
  <2>1. u[i] \in Token
    BY ElementOfSeq
  <2>. QED BY <1>1, <2>1, Stretch
<1>4. (c \o d) \o w = c \o (d \o w)
  <2>. HIDE DEF c, d
  <2>. QED BY <1>3, Reassociated
<1>. QED BY <1>2, <1>4

(* A text in whose beginning no piece begins: the beginning stays.         *)
LEMMA BeginningKept ==
  ASSUME NEW u \in Seq(Token), NEW t \in Seq(Token), NEW piece \in Seq(Token), piece # << >>,
         NEW by \in Seq(Token), \A i \in 1 .. Len(u) : ~StandsAt(u \o t, piece, i)
  PROVE  ReplacePiece(u \o t, piece, by) = u \o ReplacePiece(t, piece, by)
<1>. DEFINE s == u \o t
            m == Len(u)
<1>1. /\ s \in Seq(Token) /\ Len(s) = m + Len(t) /\ m \in Nat /\ Len(t) \in Nat
      /\ \A i \in 1 .. m : s[i] = u[i]
  BY Concatenated, LenProperties
<1>2. PICK r : Rewrites(r, s, piece, by) /\ ReplacePiece(s, piece, by) = r[1]
  <2>. HIDE DEF s
  <2>. QED BY <1>1, PieceRewrites
<1>3. PICK q : Rewrites(q, t, piece, by) /\ ReplacePiece(t, piece, by) = q[1]
  BY PieceRewrites
<1>4. r[m + 1] = q[1]
  <2>1. 1 \in 1 .. Len(t) + 1
    BY <1>1
  <2>. QED BY <1>2, <1>3, <2>1, RestRewritten
<1>5. PICK w \in Seq(Token) : w = q[1]
  <2>1. q[1] \in Seq(Token)
    BY <1>1, <1>3 DEF Rewrites
  <2>. QED BY <2>1
<1>. DEFINE T == {n \in Int : n \in 0 .. m => r[m + 1 - n] = SubSeq(u, m + 1 - n, m) \o w}
<1>6. 0 \in T
  <2>1. SubSeq(u, m + 1, m) = << >>
    <3>1. m + 1 \in Int /\ m \in Int /\ m < m + 1
      BY <1>1
    <3>. HIDE DEF m
    <3>. QED BY <3>1, SubSeqEmpty
  <2>2. << >> \o w = w
    <3>. HIDE DEF T
    <3>. QED BY <1>5, ConcatEmptySeq
  <2>3. m + 1 - 0 = m + 1
    BY <1>1
  <2>7. m \in Nat
    BY <1>1
  <2>. HIDE DEF m
  <2>4. SubSeq(u, m + 1 - 0, m) \o w = w
    BY <2>1, <2>2, <2>3
  <2>5. r[m + 1 - 0] = w
    BY <1>4, <1>5, <2>3
  <2>6. r[m + 1 - 0] = SubSeq(u, m + 1 - 0, m) \o w
    BY <2>4, <2>5
  <2>. QED BY <2>6, <2>7
<1>7. \A n \in 0 .. m - 1 : n \in T => n + 1 \in T
  <2>1. SUFFICES ASSUME NEW n \in 0 .. m - 1, r[m + 1 - n] = SubSeq(u, m + 1 - n, m) \o w
                 PROVE  r[m + 1 - (n + 1)] = SubSeq(u, m + 1 - (n + 1), m) \o w
    <3>1. \A n \in 0 .. m - 1 : n \in 0 .. m /\ n + 1 \in Int
      BY <1>1
    <3>. HIDE DEF m
    <3>. QED BY <3>1
  <2>. DEFINE i == m - n
  <2>2. /\ i \in 1 .. m /\ i \in 1 .. Len(s) /\ m + 1 - n = i + 1 /\ m + 1 - (n + 1) = i
        /\ m \in i .. Len(u) /\ i + 1 \in 1 .. Len(u) + 1 /\ m \in (i + 1) - 1 .. Len(u)
    BY <1>1
  <2>3. r[i] = <<u[i]>> \o r[i + 1]
    <3>1. ~StandsAt(s, piece, i)
      <4>. HIDE DEF i
      <4>. QED BY <2>2
    <3>2. r[i] = <<s[i]>> \o r[i + 1]
      <4>. HIDE DEF i, s
      <4>. QED BY <1>2, <2>2, <3>1 DEF Rewrites
    <3>. HIDE DEF i, s, m
    <3>. QED BY <1>1, <2>2, <3>2
  <2>4. SubSeq(u, i, m) \o w = <<u[i]>> \o (SubSeq(u, i + 1, m) \o w)
    <3>. HIDE DEF i
    <3>. QED BY <1>5, <2>2, OneMore
  <2>. HIDE DEF i, m
  <2>. QED BY <2>1, <2>2, <2>3, <2>4
<1>8. 0 .. m \subseteq T
  <2>1. 0 \in Int /\ m \in Int
    BY <1>1
  <2>. HIDE DEF T, m
  <2>. QED BY <1>6, <1>7, <2>1, RangeInduction
<1>9. r[1] = SubSeq(u, 1, m) \o w
  <2>1. m \in 0 .. m /\ m \in Int /\ m + 1 - m = 1
    BY <1>1
  <2>. HIDE DEF m
  <2>. QED BY <1>8, <2>1
<1>10. SubSeq(u, 1, m) = u
  BY SubSeqFull
<1>. HIDE DEF m
<1>. QED BY <1>2, <1>3, <1>5, <1>9, <1>10

(* Nothing of an empty text is rewritten.                                  *)
LEMMA NothingReplaced ==
  ASSUME NEW piece \in Seq(Token), piece # << >>, NEW by \in Seq(Token)
  PROVE  ReplacePiece(<< >>, piece, by) = << >>
<1>1. << >> \in Seq(Token) /\ Len(<< >>) = 0
  BY EmptySeq
<1>2. PICK r : Rewrites(r, << >>, piece, by) /\ ReplacePiece(<< >>, piece, by) = r[1]
  BY <1>1, PieceRewrites
<1>. QED BY <1>1, <1>2 DEF Rewrites

(* The rewriting of a text is a text.                                      *)
LEMMA RewrittenType ==
  ASSUME NEW s \in Seq(Token), NEW piece \in Seq(Token), piece # << >>, NEW by \in Seq(Token)
  PROVE  ReplacePiece(s, piece, by) \in Seq(Token)
<1>1. PICK r : Rewrites(r, s, piece, by) /\ ReplacePiece(s, piece, by) = r[1]
  BY PieceRewrites
<1>2. 1 \in 1 .. Len(s) + 1
  BY LenProperties
<1>. QED BY <1>1, <1>2 DEF Rewrites

-----------------------------------------------------------------------------
(* Concatenation, which the provers are to take as it is.                  *)
Cat(u, t) == u \o t

(* Concatenation is a text; the empty one is neutral.                      *)
LEMMA CatFacts ==
  ASSUME NEW u \in Seq(Token), NEW t \in Seq(Token)
  PROVE  /\ Cat(u, t) \in Seq(Token)
         /\ Cat(u, << >>) = u
<1>1. u \o << >> = u
  BY ConcatEmptySeq
<1>. QED BY <1>1, Concatenated DEF Cat

(* Concatenation is associative.                                           *)
LEMMA CatAssociative ==
  ASSUME NEW u \in Seq(Token), NEW t \in Seq(Token), NEW w \in Seq(Token)
  PROVE  Cat(Cat(u, t), w) = Cat(u, Cat(t, w))
BY Reassociated DEF Cat

(* Texts of parts.  f[n] is the text from part n on.                       *)
Behind(f, n, N) == IF n = N THEN << >> ELSE Cat(<<And>>, f[n + 1])

Chain(f, s, ps, N) ==
  /\ ps \in [1 .. N -> Seq(Token)]
  /\ f \in [1 .. N -> Seq(Token)]
  /\ f[1] = s
  /\ \A n \in 1 .. N : f[n] = Cat(ps[n], Behind(f, n, N))

(* A text of N parts with AND between them.                                *)
Joined(s, ps, N) == \E f : Chain(f, s, ps, N)

(* And is a token, and a text by itself.                                   *)
LEMMA AndType == And \in Token /\ <<And>> \in Seq(Token) /\ << >> \in Seq(Token)
<1>1. And \in Token
  BY DEF Token
<1>2. <<And>> \in Seq(Token)
  BY <1>1
<1>. QED BY <1>1, <1>2, EmptySeq

(* What stands behind a part is a text.                                    *)
LEMMA BehindType ==
  ASSUME NEW N \in Nat \ {0}, NEW f \in [1 .. N -> Seq(Token)], NEW n \in 1 .. N
  PROVE  Behind(f, n, N) \in Seq(Token)
<1>1. << >> \in Seq(Token) /\ <<And>> \in Seq(Token)
  BY AndType
<1>2. CASE n = N
  BY <1>1, <1>2 DEF Behind
<1>3. CASE n # N
  <2>1. f[n + 1] \in Seq(Token)
    BY <1>3
  <2>. QED BY <1>1, <1>3, <2>1, CatFacts DEF Behind
<1>. QED BY <1>2, <1>3

(* Parts joined by And are a text.                                         *)
LEMMA JoinedText ==
  ASSUME NEW N \in Nat \ {0}, NEW s, NEW ps, Joined(s, ps, N)
  PROVE  s \in Seq(Token)
<1>1. 1 \in 1 .. N
  OBVIOUS
<1>. QED BY <1>1 DEF Joined, Chain

(* A text of one part, and one part more.                                  *)
LEMMA OnePart ==
  ASSUME NEW p \in Seq(Token)
  PROVE  Joined(p, [n \in 1 .. 1 |-> p], 1)
<1>. DEFINE f == [n \in 1 .. 1 |-> p]
<1>1. Cat(p, << >>) = p
  BY CatFacts, AndType
<1>2. Chain(f, p, f, 1)
  BY <1>1 DEF Chain, Behind
<1>. QED BY <1>2 DEF Joined

(* A part more, at the end of a text.                                      *)
LEMMA OnePartMore ==
  ASSUME NEW N \in Nat \ {0}, NEW s, NEW ps, Joined(s, ps, N), NEW p \in Seq(Token)
  PROVE  Joined(s \o <<And>> \o p, [n \in 1 .. N + 1 |-> IF n <= N THEN ps[n] ELSE p], N + 1)
<1>. DEFINE a == <<And>>
            w == Cat(a, p)
<1>1. PICK f : Chain(f, s, ps, N)
  BY DEF Joined
<1>2. a \in Seq(Token)
  BY AndType
<1>3. w \in Seq(Token)
  BY <1>2, CatFacts
<1>. HIDE DEF w, a
<1>. DEFINE g == [n \in 1 .. N + 1 |-> IF n <= N THEN Cat(f[n], w) ELSE p]
            qs == [n \in 1 .. N + 1 |-> IF n <= N THEN ps[n] ELSE p]
<1>4. ASSUME NEW n \in 1 .. N
      PROVE  /\ n \in 1 .. N + 1 /\ f[n] \in Seq(Token) /\ ps[n] \in Seq(Token)
             /\ g[n] = Cat(f[n], w) /\ g[n] \in Seq(Token) /\ qs[n] = ps[n]
             /\ f[n] = Cat(ps[n], Behind(f, n, N)) /\ Behind(f, n, N) \in Seq(Token)
  <2>1. f[n] \in Seq(Token) /\ ps[n] \in Seq(Token) /\ f[n] = Cat(ps[n], Behind(f, n, N))
    BY <1>1 DEF Chain
  <2>2. Cat(f[n], w) \in Seq(Token)
    BY <1>3, <2>1, CatFacts
  <2>3. Behind(f, n, N) \in Seq(Token)
    BY <1>1, BehindType DEF Chain
  <2>4. n \in 1 .. N + 1 /\ n <= N
    OBVIOUS
  <2>. QED BY <2>1, <2>2, <2>3, <2>4
<1>5. g[N + 1] = p /\ qs[N + 1] = p /\ N + 1 \in 1 .. N + 1
  <2>1. N + 1 \in 1 .. N + 1 /\ ~(N + 1 <= N)
    OBVIOUS
  <2>. QED BY <2>1
<1>. HIDE DEF g, qs
<1>6. ASSUME NEW n \in 1 .. N + 1
      PROVE  g[n] = Cat(qs[n], Behind(g, n, N + 1))
  <2>1. CASE n = N + 1
    <3>1. Behind(g, n, N + 1) = << >>
      BY <2>1 DEF Behind
    <3>. QED BY <1>5, <2>1, <3>1, CatFacts
  <2>2. CASE n = N
    <3>1. n \in 1 .. N /\ n # N + 1
      BY <2>2
    <3>2. Behind(g, n, N + 1) = w /\ Behind(f, n, N) = << >>
      BY <1>5, <2>2, <3>1 DEF Behind, w, a
    <3>3. f[n] = ps[n]
      BY <1>4, <3>1, <3>2, CatFacts
    <3>. QED BY <1>4, <3>1, <3>2, <3>3
  <2>3. CASE n < N
    <3>1. n \in 1 .. N /\ n + 1 \in 1 .. N /\ n # N + 1 /\ n # N
      BY <2>3
    <3>2. g[n] = Cat(Cat(ps[n], Behind(f, n, N)), w)
      BY <1>4, <3>1
    <3>3. Cat(Cat(ps[n], Behind(f, n, N)), w) = Cat(ps[n], Cat(Behind(f, n, N), w))
      BY <1>3, <1>4, <3>1, CatAssociative
    <3>4. Cat(Behind(f, n, N), w) = Cat(a, Cat(f[n + 1], w))
      <4>1. f[n + 1] \in Seq(Token) /\ Behind(f, n, N) = Cat(a, f[n + 1])
        BY <1>4, <3>1 DEF Behind, a
      <4>. QED BY <1>2, <1>3, <4>1, CatAssociative
    <3>5. Behind(g, n, N + 1) = Cat(a, Cat(f[n + 1], w))
      BY <1>4, <3>1 DEF Behind, a
    <3>. QED BY <1>4, <3>1, <3>2, <3>3, <3>4, <3>5
  <2>. QED BY <2>1, <2>2, <2>3
<1>7. g[1] = Cat(Cat(s, a), p)
  <2>1. 1 \in 1 .. N
    OBVIOUS
  <2>2. g[1] = Cat(s, w) /\ s \in Seq(Token)
    BY <1>1, <1>4, <2>1 DEF Chain
  <2>. QED BY <1>2, <2>2, CatAssociative DEF w
<1>8. g \in [1 .. N + 1 -> Seq(Token)] /\ qs \in [1 .. N + 1 -> Seq(Token)]
  <2>1. g = [n \in 1 .. N + 1 |-> g[n]] /\ qs = [n \in 1 .. N + 1 |-> qs[n]]
    BY DEF g, qs
  <2>2. \A n \in 1 .. N + 1 : n \in 1 .. N \/ n = N + 1
    OBVIOUS
  <2>3. \A n \in 1 .. N + 1 : g[n] \in Seq(Token) /\ qs[n] \in Seq(Token)
    BY <1>4, <1>5, <2>2
  <2>. QED BY <2>1, <2>3
<1>9. Chain(g, Cat(Cat(s, a), p), qs, N + 1)
  BY <1>6, <1>7, <1>8 DEF Chain
<1>10. Joined(Cat(Cat(s, a), p), qs, N + 1)
  BY <1>9 DEF Joined
<1>. QED BY <1>10 DEF Cat, a, qs

-----------------------------------------------------------------------------
(* The tokens of a text.                                                   *)
Tokens(s) == {s[i] : i \in 1 .. Len(s)}

(* The tokens of a concatenation are those of both texts.                  *)
LEMMA TokensOfBoth ==
  ASSUME NEW u \in Seq(Token), NEW t \in Seq(Token)
  PROVE  Tokens(Cat(u, t)) = Tokens(u) \cup Tokens(t)
<1>. DEFINE s == u \o t
            m == Len(u)
            k == Len(t)
<1>1. /\ s \in Seq(Token) /\ Len(s) = m + k /\ m \in Nat /\ k \in Nat
      /\ \A i \in 1 .. m : s[i] = u[i]
      /\ \A i \in 1 .. k : s[m + i] = t[i]
  BY Concatenated, LenProperties
<1>. HIDE DEF s
<1>2. ASSUME NEW i \in 1 .. Len(s)
      PROVE  s[i] \in Tokens(u) \cup Tokens(t)
  <2>1. CASE i <= m
    <3>1. i \in 1 .. m
      BY <1>1, <2>1
    <3>. QED BY <1>1, <3>1 DEF Tokens
  <2>2. CASE ~(i <= m)
    <3>1. i - m \in 1 .. k /\ m + (i - m) = i
      BY <1>1, <2>2
    <3>2. s[i] = t[i - m]
      BY <1>1, <3>1
    <3>. QED BY <3>1, <3>2 DEF Tokens
  <2>. QED BY <2>1, <2>2
<1>3. ASSUME NEW i \in 1 .. m
      PROVE  u[i] \in Tokens(s)
  <2>1. i \in 1 .. Len(s) /\ s[i] = u[i]
    BY <1>1
  <2>. QED BY <2>1 DEF Tokens
<1>4. ASSUME NEW i \in 1 .. k
      PROVE  t[i] \in Tokens(s)
  <2>1. m + i \in 1 .. Len(s) /\ s[m + i] = t[i]
    BY <1>1
  <2>. QED BY <2>1 DEF Tokens
<1>5. Tokens(s) = Tokens(u) \cup Tokens(t)
  <2>1. \A x \in Tokens(s) : x \in Tokens(u) \cup Tokens(t)
    BY <1>2 DEF Tokens
  <2>2. \A x \in Tokens(u) \cup Tokens(t) : x \in Tokens(s)
    BY <1>3, <1>4 DEF Tokens
  <2>. QED BY <2>1, <2>2
<1>. QED BY <1>5 DEF s, Cat

(* The tokens of no token and of one.                                      *)
LEMMA TokensOfShort ==
  /\ Tokens(<< >>) = {}
  /\ \A x : Tokens(<<x>>) = {x}
BY DEF Tokens

(* The tokens of a joined text are those of its parts, and AND.            *)
LEMMA TokensOfParts ==
  ASSUME NEW N \in Nat \ {0}, NEW s, NEW ps, Joined(s, ps, N), NEW x, x # And
  PROVE  x \in Tokens(s) <=> \E n \in 1 .. N : x \in Tokens(ps[n])
<1>1. PICK f : Chain(f, s, ps, N)
  BY DEF Joined
<1>. DEFINE Here(n) == x \in Tokens(f[n]) <=> \E m \in n .. N : x \in Tokens(ps[m])
            T == {k \in Int : \A n \in 1 .. N : n >= N - k => Here(n)}
<1>2. ASSUME NEW n \in 1 .. N
      PROVE  x \in Tokens(f[n]) <=> x \in Tokens(ps[n]) \/ (n # N /\ x \in Tokens(f[n + 1]))
  <2>1. f[n] = Cat(ps[n], Behind(f, n, N)) /\ ps[n] \in Seq(Token) /\ Behind(f, n, N) \in Seq(Token)
    BY <1>1, BehindType DEF Chain
  <2>2. Tokens(f[n]) = Tokens(ps[n]) \cup Tokens(Behind(f, n, N))
    BY <2>1, TokensOfBoth
  <2>3. CASE n = N
    <3>1. Tokens(Behind(f, n, N)) = {}
      BY <2>3, TokensOfShort DEF Behind
    <3>. QED BY <2>2, <2>3, <3>1
  <2>4. CASE n # N
    <3>1. f[n + 1] \in Seq(Token) /\ <<And>> \in Seq(Token)
      BY <1>1, <2>4, AndType DEF Chain
    <3>2. Tokens(Cat(<<And>>, f[n + 1])) = Tokens(<<And>>) \cup Tokens(f[n + 1])
      BY <3>1, TokensOfBoth
    <3>3. Tokens(Behind(f, n, N)) = {And} \cup Tokens(f[n + 1])
      BY <2>4, <3>2, TokensOfShort DEF Behind
    <3>. QED BY <2>2, <2>4, <3>3
  <2>. QED BY <2>3, <2>4
<1>3. 0 \in T
  <2>1. SUFFICES ASSUME NEW n \in 1 .. N, n >= N - 0
                 PROVE  Here(n)
    <3>. HIDE DEF Here
    <3>. QED OBVIOUS
  <2>2. n = N /\ n .. N = {n}
    BY <2>1
  <2>. QED BY <1>2, <2>2
<1>4. \A k \in 0 .. N - 1 : k \in T => k + 1 \in T
  <2>1. SUFFICES ASSUME NEW k \in 0 .. N - 1, k \in T, NEW n \in 1 .. N, n >= N - (k + 1)
                 PROVE  Here(n)
    <3>. HIDE DEF Here
    <3>. QED OBVIOUS
  <2>2. CASE n >= N - k
    <3>. HIDE DEF Here
    <3>. QED BY <2>1, <2>2
  <2>3. CASE ~(n >= N - k)
    <3>1. n + 1 \in 1 .. N /\ n + 1 >= N - k /\ n # N
      BY <2>1, <2>3
    <3>2. Here(n + 1)
      <4>. HIDE DEF Here
      <4>. QED BY <2>1, <3>1
    <3>3. n .. N = {n} \cup (n + 1 .. N)
      BY <3>1
    <3>. QED BY <1>2, <3>1, <3>2, <3>3
  <2>. QED BY <2>2, <2>3
<1>5. 0 .. N \subseteq T
  <2>1. 0 \in Int /\ N \in Int
    OBVIOUS
  <2>. HIDE DEF T
  <2>. QED BY <1>3, <1>4, <2>1, RangeInduction
<1>6. Here(1)
  <2>1. N \in 0 .. N /\ 1 \in 1 .. N /\ 1 >= N - N
    OBVIOUS
  <2>. HIDE DEF Here
  <2>. QED BY <1>5, <2>1
<1>7. f[1] = s
  BY <1>1 DEF Chain
<1>. QED BY <1>6, <1>7

-----------------------------------------------------------------------------
(* Key words replaced in a text of parts.                                  *)
ByColumn(x, keys) == IF \E k \in keys : x = Key(k) THEN Column[x[2]] ELSE x

(* Replace, token by token.                                                *)
LEMMA ReplacedText ==
  ASSUME NEW s \in Seq(Token), NEW keys \in SUBSET DOMAIN Column
  PROVE  /\ Replace(s, keys) \in Seq(Token)
         /\ Len(Replace(s, keys)) = Len(s)
         /\ \A i \in 1 .. Len(s) : Replace(s, keys)[i] = ByColumn(s[i], keys)
<1>1. Len(s) \in Nat /\ DOMAIN s = 1 .. Len(s) /\ \A i \in 1 .. Len(s) : s[i] \in Token
  BY LenProperties, ElementOfSeq
<1>2. ASSUME NEW x \in Token
      PROVE  ByColumn(x, keys) \in Token
  <2>1. CASE \E k \in keys : x = Key(k)
    <3>1. PICK k \in keys : x = Key(k)
      BY <2>1
    <3>2. Column[x[2]] \in Token
      BY <3>1 DEF Token, Key
    <3>. QED BY <2>1, <3>2 DEF ByColumn
  <2>2. CASE ~\E k \in keys : x = Key(k)
    BY <2>2 DEF ByColumn
  <2>. QED BY <2>1, <2>2
<1>3. Replace(s, keys) = [i \in 1 .. Len(s) |-> ByColumn(s[i], keys)]
  BY <1>1 DEF Replace, ByColumn
<1>4. [i \in 1 .. Len(s) |-> ByColumn(s[i], keys)] \in [1 .. Len(s) -> Token]
  BY <1>1, <1>2
<1>. QED BY <1>1, <1>3, <1>4

(* Replace goes into both texts of a concatenation.                        *)
LEMMA ReplaceInBoth ==
  ASSUME NEW u \in Seq(Token), NEW t \in Seq(Token), NEW keys \in SUBSET DOMAIN Column
  PROVE  Replace(Cat(u, t), keys) = Cat(Replace(u, keys), Replace(t, keys))
<1>. DEFINE s == u \o t
            ru == Replace(u, keys)
            rt == Replace(t, keys)
            rs == Replace(s, keys)
<1>1. /\ s \in Seq(Token) /\ Len(s) = Len(u) + Len(t) /\ Len(u) \in Nat /\ Len(t) \in Nat
      /\ \A i \in 1 .. Len(u) : s[i] = u[i]
      /\ \A i \in 1 .. Len(t) : s[Len(u) + i] = t[i]
  BY Concatenated, LenProperties
<1>2. /\ ru \in Seq(Token) /\ Len(ru) = Len(u)
      /\ \A i \in 1 .. Len(u) : ru[i] = ByColumn(u[i], keys)
  BY ReplacedText
<1>3. /\ rt \in Seq(Token) /\ Len(rt) = Len(t)
      /\ \A i \in 1 .. Len(t) : rt[i] = ByColumn(t[i], keys)
  BY ReplacedText
<1>4. /\ rs \in Seq(Token) /\ Len(rs) = Len(s)
      /\ \A i \in 1 .. Len(s) : rs[i] = ByColumn(s[i], keys)
  <2>. HIDE DEF s
  <2>. QED BY <1>1, ReplacedText
<1>. HIDE DEF s, ru, rt, rs
<1>5. /\ ru \o rt \in Seq(Token) /\ Len(ru \o rt) = Len(s)
      /\ \A i \in 1 .. Len(u) : (ru \o rt)[i] = ru[i]
      /\ \A i \in 1 .. Len(t) : (ru \o rt)[Len(u) + i] = rt[i]
  BY <1>1, <1>2, <1>3, Concatenated
<1>6. ASSUME NEW i \in 1 .. Len(s)
      PROVE  rs[i] = (ru \o rt)[i]
  <2>1. CASE i <= Len(u)
    <3>1. i \in 1 .. Len(u)
      BY <1>1, <2>1
    <3>2. (ru \o rt)[i] = ru[i]
      BY <1>5, <3>1
    <3>. QED BY <1>1, <1>2, <1>4, <3>1, <3>2
  <2>2. CASE ~(i <= Len(u))
    <3>1. PICK j \in 1 .. Len(t) : i = Len(u) + j
      <4>1. i - Len(u) \in 1 .. Len(t) /\ i = Len(u) + (i - Len(u))
        BY <1>1, <2>2
      <4>. QED BY <4>1
    <3>2. (ru \o rt)[i] = rt[j] /\ s[i] = t[j]
      BY <1>1, <1>5, <3>1
    <3>. QED BY <1>3, <1>4, <3>2
  <2>. QED BY <2>1, <2>2
<1>7. rs = ru \o rt
  BY <1>4, <1>5, <1>6, SeqEqual
<1>. QED BY <1>7 DEF Cat, s, ru, rt, rs

(* Replace goes into the parts of a text, And being no key word.           *)
LEMMA ReplaceJoined ==
  ASSUME NEW N \in Nat \ {0}, NEW s, NEW ps, Joined(s, ps, N), NEW keys \in SUBSET DOMAIN Column
  PROVE  Joined(Replace(s, keys), [n \in 1 .. N |-> Replace(ps[n], keys)], N)
<1>1. PICK f : Chain(f, s, ps, N)
  BY DEF Joined
<1>. DEFINE g == [n \in 1 .. N |-> Replace(f[n], keys)]
            qs == [n \in 1 .. N |-> Replace(ps[n], keys)]
<1>2. ASSUME NEW n \in 1 .. N
      PROVE  /\ f[n] \in Seq(Token) /\ ps[n] \in Seq(Token)
             /\ f[n] = Cat(ps[n], Behind(f, n, N)) /\ Behind(f, n, N) \in Seq(Token)
  BY <1>1, BehindType DEF Chain
<1>3. g \in [1 .. N -> Seq(Token)] /\ qs \in [1 .. N -> Seq(Token)]
  BY <1>2, ReplacedText
<1>4. Replace(<< >>, keys) = << >> /\ Replace(<<And>>, keys) = <<And>>
  <2>1. Len(Replace(<< >>, keys)) = 0 /\ Replace(<< >>, keys) \in Seq(Token)
    BY AndType, ReplacedText
  <2>2. Replace(<< >>, keys) = << >>
    BY <2>1, EmptySeq
  <2>3. /\ Replace(<<And>>, keys) \in Seq(Token) /\ Len(Replace(<<And>>, keys)) = 1
        /\ Replace(<<And>>, keys)[1] = ByColumn(And, keys)
    <3>. DEFINE a == <<And>>
    <3>1. a \in Seq(Token) /\ Len(a) = 1 /\ a[1] = And /\ 1 \in 1 .. 1
      BY AndType
    <3>2. Replace(a, keys) \in Seq(Token) /\ Len(Replace(a, keys)) = 1
          /\ Replace(a, keys)[1] = ByColumn(And, keys)
      <4>. HIDE DEF a
      <4>. QED BY <3>1, ReplacedText
    <3>. QED BY <3>2
  <2>4. ByColumn(And, keys) = And
    BY DEF ByColumn, And, Key
  <2>5. Replace(<<And>>, keys) = <<And>>
    BY <2>3, <2>4
  <2>. QED BY <2>2, <2>5
<1>5. ASSUME NEW n \in 1 .. N
      PROVE  Replace(Behind(f, n, N), keys) = Behind(g, n, N)
  <2>1. CASE n = N
    BY <1>4, <2>1 DEF Behind
  <2>2. CASE n # N
    <3>1. n + 1 \in 1 .. N
      BY <2>2
    <3>2. f[n + 1] \in Seq(Token) /\ g[n + 1] = Replace(f[n + 1], keys)
      BY <1>2, <3>1
    <3>3. Replace(Cat(<<And>>, f[n + 1]), keys) = Cat(Replace(<<And>>, keys), Replace(f[n + 1], keys))
      BY <3>2, AndType, ReplaceInBoth
    <3>. HIDE DEF g
    <3>. QED BY <1>4, <2>2, <3>2, <3>3 DEF Behind
  <2>. QED BY <2>1, <2>2
<1>6. ASSUME NEW n \in 1 .. N
      PROVE  g[n] = Cat(qs[n], Behind(g, n, N))
  <2>1. Replace(Cat(ps[n], Behind(f, n, N)), keys)
          = Cat(Replace(ps[n], keys), Replace(Behind(f, n, N), keys))
    BY <1>2, ReplaceInBoth
  <2>2. g[n] = Replace(f[n], keys) /\ qs[n] = Replace(ps[n], keys)
    OBVIOUS
  <2>. HIDE DEF g, qs
  <2>. QED BY <1>2, <1>5, <2>1, <2>2
<1>7. g[1] = Replace(s, keys)
  <2>1. 1 \in 1 .. N /\ f[1] = s
    BY <1>1 DEF Chain
  <2>. QED BY <2>1
<1>. HIDE DEF g, qs
<1>8. Chain(g, Replace(s, keys), qs, N)
  BY <1>3, <1>6, <1>7 DEF Chain
<1>. QED BY <1>8 DEF Joined, qs

-----------------------------------------------------------------------------
(* A piece replaced in a text of parts, where it is a part or stands       *)
(* nowhere in one.                                                         *)
Apart(piece, f, ps, N) ==
  \A n \in 1 .. N : ps[n] # piece => \A i \in 1 .. Len(ps[n]) : ~StandsAt(f[n], piece, i)

NoneBegins(u, t, piece) == \A i \in 1 .. Len(u) : ~StandsAt(Cat(u, t), piece, i)

(* A beginning in which the piece does not stand is as it was.             *)
LEMMA BeginningStays ==
  ASSUME NEW u \in Seq(Token), NEW t \in Seq(Token), NEW piece \in Seq(Token), piece # << >>,
         NEW by \in Seq(Token), NoneBegins(u, t, piece)
  PROVE  ReplacePiece(Cat(u, t), piece, by) = Cat(u, ReplacePiece(t, piece, by))
<1>1. \A i \in 1 .. Len(u) : ~StandsAt(u \o t, piece, i)
  BY DEF NoneBegins, Cat
<1>2. ReplacePiece(u \o t, piece, by) = u \o ReplacePiece(t, piece, by)
  BY <1>1, BeginningKept
<1>. QED BY <1>2 DEF Cat

(* A piece that stands in a text only as a whole part is replaced in the   *)
(* parts equal to it.                                                      *)
LEMMA PieceJoined ==
  ASSUME NEW N \in Nat \ {0}, NEW f, NEW s, NEW ps, Chain(f, s, ps, N),
         NEW piece \in Seq(Token), piece # << >>, piece[1] # And, Apart(piece, f, ps, N),
         NEW by \in Seq(Token)
  PROVE  Joined(ReplacePiece(s, piece, by),
                [n \in 1 .. N |-> IF ps[n] = piece THEN by ELSE ps[n]], N)
<1>. DEFINE g == [n \in 1 .. N |-> ReplacePiece(f[n], piece, by)]
            qs == [n \in 1 .. N |-> IF ps[n] = piece THEN by ELSE ps[n]]
<1>1. ASSUME NEW n \in 1 .. N
      PROVE  /\ f[n] \in Seq(Token) /\ ps[n] \in Seq(Token)
             /\ f[n] = Cat(ps[n], Behind(f, n, N)) /\ Behind(f, n, N) \in Seq(Token)
             /\ g[n] = ReplacePiece(f[n], piece, by) /\ g[n] \in Seq(Token)
             /\ qs[n] \in Seq(Token)
  <2>1. /\ f[n] \in Seq(Token) /\ ps[n] \in Seq(Token)
        /\ f[n] = Cat(ps[n], Behind(f, n, N)) /\ Behind(f, n, N) \in Seq(Token)
    BY BehindType DEF Chain
  <2>2. ReplacePiece(f[n], piece, by) \in Seq(Token)
    BY <2>1, RewrittenType
  <2>. QED BY <2>1, <2>2
<1>2. ASSUME NEW t \in Seq(Token)
      PROVE  ReplacePiece(Cat(<<And>>, t), piece, by) = Cat(<<And>>, ReplacePiece(t, piece, by))
  <2>. DEFINE a == <<And>>
  <2>1. a \in Seq(Token) /\ Len(a) = 1 /\ a[1] = And
    BY AndType
  <2>. HIDE DEF a
  <2>2. /\ a \o t \in Seq(Token) /\ Len(a \o t) = 1 + Len(t) /\ (a \o t)[1] = And
        /\ Len(t) \in Nat /\ Len(piece) \in Nat \ {0}
    <3>1. Len(t) \in Nat /\ Len(piece) \in Nat \ {0}
      BY LenProperties, EmptySeq
    <3>2. /\ a \o t \in Seq(Token) /\ Len(a \o t) = Len(a) + Len(t)
          /\ \A i \in 1 .. Len(a) : (a \o t)[i] = a[i]
      BY <2>1, Concatenated
    <3>3. 1 \in 1 .. Len(a)
      BY <2>1
    <3>. QED BY <2>1, <3>1, <3>2, <3>3
  <2>3. ~StandsAt(a \o t, piece, 1)
    <3>1. 1 \in 1 .. Len(a \o t) /\ 1 \in 1 .. Len(piece) /\ 1 + 1 - 1 = 1
      BY <2>2
    <3>2. StandsAt(a \o t, piece, 1) => (a \o t)[1 + 1 - 1] = piece[1]
      BY <2>2, <3>1, Standing
    <3>. QED BY <2>2, <3>1, <3>2
  <2>4. NoneBegins(a, t, piece)
    <3>1. \A i \in 1 .. Len(a) : i = 1
      BY <2>1
    <3>. QED BY <2>3, <3>1 DEF NoneBegins, Cat
  <2>5. ReplacePiece(Cat(a, t), piece, by) = Cat(a, ReplacePiece(t, piece, by))
    BY <2>1, <2>4, BeginningStays
  <2>. QED BY <2>5 DEF a
<1>3. ASSUME NEW n \in 1 .. N
      PROVE  ReplacePiece(Behind(f, n, N), piece, by) = Behind(g, n, N)
  <2>1. CASE n = N
    BY <2>1, NothingReplaced DEF Behind
  <2>2. CASE n # N
    <3>1. n + 1 \in 1 .. N
      BY <2>2
    <3>2. f[n + 1] \in Seq(Token) /\ g[n + 1] = ReplacePiece(f[n + 1], piece, by)
      BY <1>1, <3>1
    <3>. HIDE DEF g
    <3>. QED BY <1>2, <2>2, <3>2 DEF Behind
  <2>. QED BY <2>1, <2>2
<1>4. ASSUME NEW n \in 1 .. N
      PROVE  g[n] = Cat(qs[n], Behind(g, n, N))
  <2>. DEFINE t == Behind(f, n, N)
  <2>1. /\ ps[n] \in Seq(Token) /\ f[n] = Cat(ps[n], t) /\ t \in Seq(Token)
        /\ g[n] = ReplacePiece(f[n], piece, by) /\ ReplacePiece(t, piece, by) = Behind(g, n, N)
    BY <1>1, <1>3
  <2>2. CASE ps[n] = piece
    <3>1. qs[n] = by
      BY <2>2
    <3>2. ReplacePiece(piece \o t, piece, by) = by \o ReplacePiece(t, piece, by)
      <4>. HIDE DEF t
      <4>. QED BY <2>1, PieceReplaced
    <3>. HIDE DEF t, g, qs
    <3>. QED BY <2>1, <2>2, <3>1, <3>2 DEF Cat
  <2>3. CASE ps[n] # piece
    <3>1. qs[n] = ps[n]
      BY <2>3
    <3>. HIDE DEF t, g, qs
    <3>2. NoneBegins(ps[n], t, piece)
      BY <2>1, <2>3 DEF Apart, NoneBegins
    <3>3. ReplacePiece(Cat(ps[n], t), piece, by) = Cat(ps[n], ReplacePiece(t, piece, by))
      BY <2>1, <3>2, BeginningStays
    <3>. QED BY <2>1, <3>1, <3>3
  <2>. QED BY <2>2, <2>3
<1>5. g \in [1 .. N -> Seq(Token)] /\ qs \in [1 .. N -> Seq(Token)]
  <2>1. g = [n \in 1 .. N |-> g[n]] /\ qs = [n \in 1 .. N |-> qs[n]]
    OBVIOUS
  <2>. HIDE DEF g, qs
  <2>. QED BY <1>1, <2>1
<1>6. ps \in [1 .. N -> Seq(Token)] /\ f[1] = s /\ 1 \in 1 .. N
  BY DEF Chain
<1>7. g[1] = ReplacePiece(s, piece, by)
  BY <1>6
<1>. HIDE DEF g, qs
<1>8. Chain(g, ReplacePiece(s, piece, by), qs, N)
  BY <1>4, <1>5, <1>7 DEF Chain
<1>. QED BY <1>8 DEF Joined, qs

(* What stands before a part has the tokens of the parts before it.        *)
NotBefore(x, ps, m) == \A n \in 1 .. m - 1 : x \notin Tokens(ps[n])

Splits(s, f, m, x) == \E u \in Seq(Token) : s = Cat(u, f[m]) /\ x \notin Tokens(u)

(* A text up to its m-th part has none of a token that the parts before    *)
(* have not.                                                               *)
LEMMA TextBefore ==
  ASSUME NEW N \in Nat \ {0}, NEW f, NEW s, NEW ps, Chain(f, s, ps, N),
         NEW m \in 1 .. N, NEW x, x # And, NotBefore(x, ps, m)
  PROVE  Splits(s, f, m, x)
<1>. USE DEF NotBefore, Splits
<1>. DEFINE T == {k \in Int : \E u \in Seq(Token) : s = Cat(u, f[k]) /\ x \notin Tokens(u)}
<1>1. 1 \in T
  <2>1. s = f[1] /\ f[1] \in Seq(Token)
    BY DEF Chain
  <2>2. Cat(<< >>, f[1]) = f[1]
    BY <2>1, ConcatEmptySeq DEF Cat
  <2>3. << >> \in Seq(Token) /\ x \notin Tokens(<< >>)
    BY AndType, TokensOfShort
  <2>4. \E u \in Seq(Token) : s = Cat(u, f[1]) /\ x \notin Tokens(u)
    BY <2>1, <2>2, <2>3
  <2>. QED BY <2>4
<1>2. \A k \in 1 .. m - 1 : k \in T => k + 1 \in T
  <2>1. SUFFICES ASSUME NEW k \in 1 .. m - 1,
                        NEW u \in Seq(Token), s = Cat(u, f[k]), x \notin Tokens(u)
                 PROVE  \E v \in Seq(Token) : s = Cat(v, f[k + 1]) /\ x \notin Tokens(v)
    OBVIOUS
  <2>. DEFINE p == ps[k]
              a == <<And>>
              v == Cat(Cat(u, p), a)
  <2>2. k \in 1 .. N /\ k + 1 \in 1 .. N /\ k # N
    OBVIOUS
  <2>3. p \in Seq(Token) /\ a \in Seq(Token) /\ f[k + 1] \in Seq(Token) /\ x \notin Tokens(p)
    BY <2>2, AndType DEF Chain
  <2>4. f[k] = Cat(p, Cat(a, f[k + 1]))
    BY <2>2 DEF Chain, Behind
  <2>5. Tokens(a) = {And}
    BY TokensOfShort
  <2>. HIDE DEF p, a
  <2>6. Cat(u, p) \in Seq(Token) /\ Cat(a, f[k + 1]) \in Seq(Token)
    BY <2>3, CatFacts
  <2>7. v \in Seq(Token)
    BY <2>3, <2>6, CatFacts
  <2>8. s = Cat(Cat(u, p), Cat(a, f[k + 1]))
    BY <2>1, <2>3, <2>4, <2>6, CatAssociative
  <2>9. s = Cat(v, f[k + 1])
    BY <2>3, <2>6, <2>8, CatAssociative
  <2>10. x \notin Tokens(v)
    <3>1. Tokens(Cat(u, p)) = Tokens(u) \cup Tokens(p)
      BY <2>3, TokensOfBoth
    <3>2. Tokens(v) = Tokens(Cat(u, p)) \cup Tokens(a)
      BY <2>3, <2>6, TokensOfBoth
    <3>. QED BY <2>1, <2>3, <2>5, <3>1, <3>2
  <2>. QED BY <2>7, <2>9, <2>10
<1>3. 1 .. m \subseteq T
  <2>1. 1 \in Int /\ m \in Int
    OBVIOUS
  <2>. HIDE DEF T
  <2>. QED BY <1>1, <1>2, <2>1, RangeInduction
<1>4. m \in T
  <2>. HIDE DEF T
  <2>. QED BY <1>3
<1>. QED BY <1>4

-----------------------------------------------------------------------------
(* Taking a condition apart                                                *)
Cuts(c) == {0, Len(c) + 1} \cup Places(c, And)

Neighbours(c, i, j) ==
  i \in Cuts(c) /\ j \in Cuts(c) /\ i < j /\ \A k \in i + 1 .. j - 1 : k \notin Cuts(c)

(* A part of a condition lies between two cuts next to each other.         *)
LEMMA PartsBetween ==
  ASSUME NEW c, NEW p
  PROVE  p \in Parts(c) <=> \E i, j \in Cuts(c) : Neighbours(c, i, j) /\ p = SubSeq(c, i + 1, j - 1)
<1>. DEFINE Pairs == {q \in Cuts(c) \X Cuts(c) :
                        q[1] < q[2] /\ \A k \in q[1] + 1 .. q[2] - 1 : k \notin Cuts(c)}
<1>1. Parts(c) = {SubSeq(c, q[1] + 1, q[2] - 1) : q \in Pairs}
  BY DEF Parts, Cuts
<1>2. ASSUME NEW q \in Pairs
      PROVE  q[1] \in Cuts(c) /\ q[2] \in Cuts(c) /\ Neighbours(c, q[1], q[2])
  BY DEF Neighbours
<1>3. ASSUME NEW i \in Cuts(c), NEW j \in Cuts(c), Neighbours(c, i, j)
      PROVE  <<i, j>> \in Pairs
  BY <1>3 DEF Neighbours
<1>. HIDE DEF Pairs
<1>4. ASSUME p \in Parts(c)
      PROVE  \E i, j \in Cuts(c) : Neighbours(c, i, j) /\ p = SubSeq(c, i + 1, j - 1)
  <2>1. PICK q \in Pairs : p = SubSeq(c, q[1] + 1, q[2] - 1)
    BY <1>1, <1>4
  <2>. QED BY <1>2, <2>1
<1>5. ASSUME NEW i \in Cuts(c), NEW j \in Cuts(c), Neighbours(c, i, j), p = SubSeq(c, i + 1, j - 1)
      PROVE  p \in Parts(c)
  <2>1. PICK q \in Pairs : q[1] = i /\ q[2] = j
    BY <1>3, <1>5
  <2>2. p = SubSeq(c, q[1] + 1, q[2] - 1)
    BY <1>5, <2>1
  <2>. QED BY <1>1, <2>2
<1>. QED BY <1>4, <1>5

(* The cuts of a text are its ends and the words AND.                      *)
LEMMA CutsOf ==
  ASSUME NEW c \in Seq(Token), NEW i
  PROVE  i \in Cuts(c) <=> i = 0 \/ i = Len(c) + 1 \/ (i \in 1 .. Len(c) /\ c[i] = And)
BY LenProperties DEF Cuts, Places

(* A text without AND is its only part.                                    *)
LEMMA PartsOfOne ==
  ASSUME NEW p \in Seq(Token), And \notin Tokens(p)
  PROVE  Parts(p) = {p}
<1>1. Len(p) \in Nat /\ \A i \in 1 .. Len(p) : p[i] # And
  BY LenProperties DEF Tokens
<1>2. \A i : i \in Cuts(p) <=> i = 0 \/ i = Len(p) + 1
  BY <1>1, CutsOf
<1>3. \A i, j \in Cuts(p) : Neighbours(p, i, j) <=> i = 0 /\ j = Len(p) + 1
  BY <1>1, <1>2 DEF Neighbours
<1>4. SubSeq(p, 0 + 1, Len(p) + 1 - 1) = p
  <2>1. SubSeq(p, 1, Len(p)) = p
    BY SubSeqFull
  <2>2. 0 + 1 = 1 /\ Len(p) + 1 - 1 = Len(p)
    BY <1>1
  <2>. QED BY <2>1, <2>2
<1>5. ASSUME NEW x
      PROVE  x \in Parts(p) <=> x = p
  <2>1. x \in Parts(p) <=> \E i, j \in Cuts(p) : Neighbours(p, i, j) /\ x = SubSeq(p, i + 1, j - 1)
    BY PartsBetween
  <2>2. ASSUME NEW i \in Cuts(p), NEW j \in Cuts(p), Neighbours(p, i, j), x = SubSeq(p, i + 1, j - 1)
        PROVE  x = p
    <3>1. i = 0 /\ j = Len(p) + 1
      BY <1>3, <2>2
    <3>. QED BY <1>4, <2>2, <3>1
  <2>3. ASSUME x = p
        PROVE  \E i, j \in Cuts(p) : Neighbours(p, i, j) /\ x = SubSeq(p, i + 1, j - 1)
    <3>1. 0 \in Cuts(p) /\ Len(p) + 1 \in Cuts(p)
      BY <1>2
    <3>2. Neighbours(p, 0, Len(p) + 1) /\ x = SubSeq(p, 0 + 1, Len(p) + 1 - 1)
      BY <1>3, <1>4, <2>3, <3>1
    <3>. QED BY <3>1, <3>2
  <2>. QED BY <2>1, <2>2, <2>3
<1>. QED BY <1>5

(* The first part of a text, and those of the rest.                        *)
LEMMA PartsOfMore ==
  ASSUME NEW p \in Seq(Token), And \notin Tokens(p), NEW t \in Seq(Token)
  PROVE  Parts(Cat(p, Cat(<<And>>, t))) = {p} \cup Parts(t)
<1>. DEFINE a == <<And>>
            s == p \o (a \o t)
            m == Len(p) + 1
<1>1. a \in Seq(Token) /\ Len(a) = 1 /\ a[1] = And /\ 1 \in 1 .. 1
  BY AndType
<1>2. /\ a \o t \in Seq(Token) /\ Len(a \o t) = 1 + Len(t) /\ (a \o t)[1] = And
      /\ \A i \in 1 .. Len(t) : (a \o t)[1 + i] = t[i]
  <2>. HIDE DEF a
  <2>1. /\ a \o t \in Seq(Token) /\ Len(a \o t) = Len(a) + Len(t)
        /\ \A i \in 1 .. Len(a) : (a \o t)[i] = a[i]
        /\ \A i \in 1 .. Len(t) : (a \o t)[Len(a) + i] = t[i]
    BY <1>1, Concatenated
  <2>. QED BY <1>1, <2>1
<1>3. Len(p) \in Nat /\ Len(t) \in Nat /\ \A i \in 1 .. Len(p) : p[i] # And
  BY LenProperties DEF Tokens
<1>4. /\ s \in Seq(Token) /\ Len(s) = Len(p) + (1 + Len(t))
      /\ \A i \in 1 .. Len(p) : s[i] = p[i]
      /\ \A i \in 1 .. 1 + Len(t) : s[Len(p) + i] = (a \o t)[i]
  <2>. DEFINE w == a \o t
  <2>1. w \in Seq(Token) /\ Len(w) = 1 + Len(t)
    BY <1>2
  <2>. HIDE DEF w
  <2>2. /\ p \o w \in Seq(Token) /\ Len(p \o w) = Len(p) + Len(w)
        /\ \A i \in 1 .. Len(p) : (p \o w)[i] = p[i]
        /\ \A i \in 1 .. Len(w) : (p \o w)[Len(p) + i] = w[i]
    BY <2>1, Concatenated
  <2>. QED BY <2>1, <2>2 DEF w
<1>5. s[m] = And /\ \A i \in 1 .. Len(t) : s[m + i] = t[i]
  <2>1. 1 \in 1 .. 1 + Len(t) /\ \A i \in 1 .. Len(t) : 1 + i \in 1 .. 1 + Len(t) /\ Len(p) + (1 + i) = m + i
    BY <1>3
  <2>2. s[m] = And
    <3>. HIDE DEF s
    <3>. QED BY <1>2, <1>4, <2>1
  <2>3. ASSUME NEW i \in 1 .. Len(t)
        PROVE  s[m + i] = t[i]
    <3>1. s[Len(p) + (1 + i)] = (a \o t)[1 + i] /\ (a \o t)[1 + i] = t[i]
      <4>. HIDE DEF s
      <4>. QED BY <1>2, <1>4, <2>1
    <3>. HIDE DEF s
    <3>. QED BY <2>1, <3>1
  <2>. QED BY <2>2, <2>3
<1>6. /\ m \in Nat /\ m >= 1 /\ Len(s) + 1 = m + (Len(t) + 1) /\ m = Len(p) + 1
      /\ Len(s) \in Nat /\ Len(s) = m + Len(t) /\ Len(t) \in Nat
  <2>. HIDE DEF s
  <2>. QED BY <1>3, <1>4
<1>. HIDE DEF s, a, m
<1>7. ASSUME NEW i
      PROVE  i \in Cuts(s) <=> i = 0 \/ (i \in Int /\ i - m \in Cuts(t) /\ i - m >= 0)
  <2>1. i \in Cuts(s) <=> i = 0 \/ i = Len(s) + 1 \/ (i \in 1 .. Len(s) /\ s[i] = And)
    BY <1>4, CutsOf
  <2>2. i - m \in Cuts(t)
          <=> i - m = 0 \/ i - m = Len(t) + 1 \/ (i - m \in 1 .. Len(t) /\ t[i - m] = And)
    BY CutsOf
  <2>3. CASE i \in Int /\ i > m /\ i <= Len(s)
    <3>1. i - m \in 1 .. Len(t) /\ m + (i - m) = i /\ i \in 1 .. Len(s) /\ i # Len(s) + 1
      BY <1>6, <2>3
    <3>2. s[i] = t[i - m]
      BY <1>5, <3>1
    <3>. QED BY <1>3, <1>6, <2>1, <2>2, <2>3, <3>1, <3>2
  <2>4. CASE i = m
    BY <1>3, <1>4, <1>5, <1>6, <2>1, <2>2, <2>4
  <2>5. CASE i \in 1 .. Len(p)
    <3>1. s[i] # And /\ i < m /\ i # Len(s) + 1
      BY <1>3, <1>4, <1>6, <2>5
    <3>. QED BY <1>6, <2>1, <2>5, <3>1
  <2>8. CASE i \notin Int
    <3>1. i # 0 /\ i # Len(s) + 1 /\ i \notin 1 .. Len(s)
      BY <1>6, <2>8
    <3>. QED BY <2>1, <2>8, <3>1
  <2>9. CASE i \in Int /\ i <= 0
    <3>1. i # Len(s) + 1 /\ i \notin 1 .. Len(s) /\ ~(i - m >= 0)
      BY <1>6, <2>9
    <3>. QED BY <2>1, <3>1
  <2>6. CASE i \in Int /\ i > Len(s)
    <3>1. i # 0 /\ i \notin 1 .. Len(s) /\ i - m >= 0 /\ i - m # 0 /\ i - m \notin 1 .. Len(t)
          /\ (i = Len(s) + 1 <=> i - m = Len(t) + 1)
      BY <1>6, <2>6
    <3>. QED BY <2>1, <2>2, <2>6, <3>1
  <2>7. i \in Int => \/ (i > m /\ i <= Len(s)) \/ i = m \/ i \in 1 .. Len(p) \/ i <= 0 \/ i > Len(s)
    BY <1>3, <1>6
  <2>. QED BY <2>3, <2>4, <2>5, <2>6, <2>7, <2>8, <2>9
<1>8. ASSUME NEW i \in Cuts(t)
      PROVE  i \in Nat
  BY <1>3, CutsOf
<1>9. 0 \in Cuts(t) /\ 0 \in Cuts(s) /\ m \in Cuts(s)
  BY <1>3, <1>4, <1>6, <1>7, CutsOf
<1>10. ASSUME NEW j \in Cuts(s)
       PROVE  Neighbours(s, 0, j) <=> j = m
  <2>1. j \in Int
    BY <1>7
  <2>2. CASE j = m
    <3>1. \A k \in 0 + 1 .. j - 1 : k \notin Cuts(s)
      BY <1>6, <1>7, <2>2
    <3>. QED BY <1>6, <1>9, <2>2, <3>1 DEF Neighbours
  <2>3. CASE j > m
    <3>1. m \in 0 + 1 .. j - 1
      BY <1>6, <2>1, <2>3
    <3>. QED BY <1>6, <1>9, <2>1, <2>3, <3>1 DEF Neighbours
  <2>4. CASE j < m
    <3>1. j = 0
      BY <1>6, <1>7, <2>1, <2>4
    <3>. QED BY <1>6, <3>1 DEF Neighbours
  <2>. QED BY <1>6, <2>1, <2>2, <2>3, <2>4
<1>11. ASSUME NEW i \in Nat, NEW j \in Nat
       PROVE  Neighbours(s, m + i, m + j) <=> Neighbours(t, i, j)
  <2>1. \A k \in Nat : m + k \in Cuts(s) <=> k \in Cuts(t)
    BY <1>6, <1>7
  <2>2. m + i < m + j <=> i < j
    BY <1>6
  <2>3. ASSUME \A k \in (m + i) + 1 .. (m + j) - 1 : k \notin Cuts(s), NEW k \in i + 1 .. j - 1
        PROVE  k \notin Cuts(t)
    <3>1. k \in Nat /\ m + k \in (m + i) + 1 .. (m + j) - 1
      BY <1>6
    <3>. QED BY <2>1, <2>3, <3>1
  <2>4. ASSUME \A k \in i + 1 .. j - 1 : k \notin Cuts(t), NEW k \in (m + i) + 1 .. (m + j) - 1
        PROVE  k \notin Cuts(s)
    <3>1. k - m \in Nat /\ k - m \in i + 1 .. j - 1 /\ m + (k - m) = k
      BY <1>6
    <3>2. k - m \notin Cuts(t)
      BY <2>4, <3>1
    <3>3. m + (k - m) \notin Cuts(s)
      BY <2>1, <3>1, <3>2
    <3>. QED BY <3>1, <3>3
  <2>5. (\A k \in (m + i) + 1 .. (m + j) - 1 : k \notin Cuts(s)) <=> \A k \in i + 1 .. j - 1 : k \notin Cuts(t)
    BY <2>3, <2>4
  <2>6. (m + i \in Cuts(s) <=> i \in Cuts(t)) /\ (m + j \in Cuts(s) <=> j \in Cuts(t))
    BY <2>1
  <2>7. Neighbours(s, m + i, m + j)
          <=> /\ m + i \in Cuts(s) /\ m + j \in Cuts(s) /\ m + i < m + j
              /\ \A k \in (m + i) + 1 .. (m + j) - 1 : k \notin Cuts(s)
    BY Zenon DEF Neighbours
  <2>8. Neighbours(t, i, j)
          <=> /\ i \in Cuts(t) /\ j \in Cuts(t) /\ i < j
              /\ \A k \in i + 1 .. j - 1 : k \notin Cuts(t)
    BY Zenon DEF Neighbours
  <2>. QED BY <2>2, <2>5, <2>6, <2>7, <2>8, Zenon
<1>12. SubSeq(s, 0 + 1, m - 1) = p
  <2>1. 1 \in 1 .. Len(s) + 1 /\ Len(p) \in 1 - 1 .. Len(s) /\ Len(p) + 1 - 1 = Len(p)
        /\ 0 + 1 = 1 /\ m - 1 = Len(p) /\ \A k \in 1 .. Len(p) : 1 + k - 1 = k
    BY <1>3, <1>4, <1>6
  <2>2. /\ SubSeq(s, 1, Len(p)) \in Seq(Token) /\ Len(SubSeq(s, 1, Len(p))) = Len(p)
        /\ \A k \in 1 .. Len(p) : SubSeq(s, 1, Len(p))[k] = p[k]
    BY <1>4, <2>1, Stretch
  <2>3. SubSeq(s, 1, Len(p)) = p
    BY <2>2, SeqEqual
  <2>. QED BY <2>1, <2>3
<1>13. ASSUME NEW i \in Cuts(t), NEW j \in Cuts(t), i < j
       PROVE  SubSeq(s, (m + i) + 1, (m + j) - 1) = SubSeq(t, i + 1, j - 1)
  <2>. DEFINE x == SubSeq(s, (m + i) + 1, (m + j) - 1)
              y == SubSeq(t, i + 1, j - 1)
  <2>1. i \in Nat /\ j \in Nat /\ j <= Len(t) + 1
    BY <1>3, <1>8, CutsOf
  <2>2. /\ (m + i) + 1 \in 1 .. Len(s) + 1 /\ (m + j) - 1 \in (m + i + 1) - 1 .. Len(s)
        /\ i + 1 \in 1 .. Len(t) + 1 /\ j - 1 \in (i + 1) - 1 .. Len(t)
        /\ ((m + j) - 1) + 1 - (m + i + 1) = j - 1 - i /\ (j - 1) + 1 - (i + 1) = j - 1 - i
    BY <1>3, <1>4, <1>6, <1>13, <2>1
  <2>3. /\ x \in Seq(Token) /\ Len(x) = j - 1 - i
        /\ \A k \in 1 .. j - 1 - i : x[k] = s[(m + i + 1) + k - 1]
    <3>1. /\ x \in Seq(Token) /\ Len(x) = ((m + j) - 1) + 1 - (m + i + 1)
          /\ \A k \in 1 .. ((m + j) - 1) + 1 - (m + i + 1) : x[k] = s[(m + i + 1) + k - 1]
      BY <1>4, <2>2, Stretch
    <3>. HIDE DEF x
    <3>. QED BY <2>2, <3>1
  <2>4. /\ y \in Seq(Token) /\ Len(y) = j - 1 - i
        /\ \A k \in 1 .. j - 1 - i : y[k] = t[(i + 1) + k - 1]
    <3>1. /\ y \in Seq(Token) /\ Len(y) = (j - 1) + 1 - (i + 1)
          /\ \A k \in 1 .. (j - 1) + 1 - (i + 1) : y[k] = t[(i + 1) + k - 1]
      BY <2>2, Stretch
    <3>. HIDE DEF y
    <3>. QED BY <2>2, <3>1
  <2>5. ASSUME NEW k \in 1 .. j - 1 - i
        PROVE  x[k] = y[k]
    <3>1. (i + 1) + k - 1 \in 1 .. Len(t) /\ (m + i + 1) + k - 1 = m + ((i + 1) + k - 1)
      BY <1>6, <2>1
    <3>. HIDE DEF x, y
    <3>. QED BY <1>5, <2>3, <2>4, <3>1
  <2>. HIDE DEF x, y
  <2>6. x = y
    BY <2>3, <2>4, <2>5, SeqEqual
  <2>. QED BY <2>6 DEF x, y
<1>14. ASSUME NEW x
       PROVE  x \in Parts(s) <=> x = p \/ x \in Parts(t)
  <2>1. ASSUME x \in Parts(s)
        PROVE  x = p \/ x \in Parts(t)
    <3>1. PICK i, j \in Cuts(s) : Neighbours(s, i, j) /\ x = SubSeq(s, i + 1, j - 1)
      BY <2>1, PartsBetween
    <3>2. CASE i = 0
      BY <1>10, <1>12, <3>1, <3>2
    <3>3. CASE i # 0
      <4>1. i \in Int /\ i - m \in Cuts(t) /\ i - m >= 0 /\ i - m \in Nat /\ m + (i - m) = i
        BY <1>6, <1>7, <3>3
      <4>2. j \in Int /\ j > i
        BY <1>7, <3>1 DEF Neighbours
      <4>3. j - m \in Cuts(t) /\ j - m \in Nat /\ m + (j - m) = j /\ i - m < j - m
        <5>1. j # 0 /\ j - m >= 0 /\ j - m \in Nat /\ m + (j - m) = j /\ i - m < j - m
          BY <1>6, <4>1, <4>2
        <5>2. j - m \in Cuts(t)
          BY <1>7, <5>1
        <5>. QED BY <5>1, <5>2
      <4>4. Neighbours(t, i - m, j - m)
        BY <1>11, <3>1, <4>1, <4>3
      <4>5. x = SubSeq(t, (i - m) + 1, (j - m) - 1)
        <5>1. SubSeq(s, (m + (i - m)) + 1, (m + (j - m)) - 1) = SubSeq(t, (i - m) + 1, (j - m) - 1)
          BY <1>13, <4>1, <4>3
        <5>2. (m + (i - m)) + 1 = i + 1 /\ (m + (j - m)) - 1 = j - 1
          BY <1>6, <4>1, <4>2
        <5>. QED BY <3>1, <5>1, <5>2
      <4>. QED BY <4>1, <4>3, <4>4, <4>5, PartsBetween
    <3>. QED BY <3>2, <3>3
  <2>2. ASSUME x = p
        PROVE  x \in Parts(s)
    BY <1>9, <1>10, <1>12, <2>2, PartsBetween
  <2>3. ASSUME x \in Parts(t)
        PROVE  x \in Parts(s)
    <3>1. PICK i, j \in Cuts(t) : Neighbours(t, i, j) /\ x = SubSeq(t, i + 1, j - 1)
      BY <2>3, PartsBetween
    <3>2. i \in Nat /\ j \in Nat /\ i < j
      BY <1>8, <3>1 DEF Neighbours
    <3>3. Neighbours(s, m + i, m + j)
      BY <1>11, <3>1, <3>2
    <3>4. x = SubSeq(s, (m + i) + 1, (m + j) - 1)
      <4>1. SubSeq(s, (m + i) + 1, (m + j) - 1) = SubSeq(t, i + 1, j - 1)
        BY <1>13, <3>2
      <4>. QED BY <3>1, <4>1, Zenon
    <3>5. m + i \in Cuts(s) /\ m + j \in Cuts(s)
      BY <3>3 DEF Neighbours
    <3>. QED BY <3>3, <3>4, <3>5, PartsBetween
  <2>. QED BY <2>1, <2>2, <2>3
<1>15. Parts(s) = {p} \cup Parts(t)
  BY <1>14
<1>. QED BY <1>15 DEF s, a, Cat

(* The parts of a joined text are the parts it was joined of.              *)
LEMMA PartsJoined ==
  ASSUME NEW N \in Nat \ {0}, NEW s, NEW ps, Joined(s, ps, N),
         \A n \in 1 .. N : And \notin Tokens(ps[n])
  PROVE  Parts(s) = {ps[n] : n \in 1 .. N}
<1>1. PICK f : Chain(f, s, ps, N)
  BY DEF Joined
<1>. DEFINE Here(n) == Parts(f[n]) = {ps[m] : m \in n .. N}
            T == {k \in Int : \A n \in 1 .. N : n >= N - k => Here(n)}
<1>2. ASSUME NEW n \in 1 .. N
      PROVE  /\ ps[n] \in Seq(Token) /\ And \notin Tokens(ps[n])
             /\ f[n] = Cat(ps[n], Behind(f, n, N))
  BY <1>1 DEF Chain
<1>3. 0 \in T
  <2>1. SUFFICES ASSUME NEW n \in 1 .. N, n >= N - 0
                 PROVE  Here(n)
    <3>. HIDE DEF Here
    <3>. QED OBVIOUS
  <2>2. n = N /\ n .. N = {n}
    BY <2>1
  <2>3. f[n] = ps[n]
    BY <1>2, <2>2, CatFacts, AndType DEF Behind
  <2>4. Parts(ps[n]) = {ps[n]}
    BY <1>2, PartsOfOne
  <2>. QED BY <2>2, <2>3, <2>4
<1>4. \A k \in 0 .. N - 1 : k \in T => k + 1 \in T
  <2>1. SUFFICES ASSUME NEW k \in 0 .. N - 1, k \in T, NEW n \in 1 .. N, n >= N - (k + 1)
                 PROVE  Here(n)
    <3>. HIDE DEF Here
    <3>. QED OBVIOUS
  <2>2. CASE n >= N - k
    <3>. HIDE DEF Here
    <3>. QED BY <2>1, <2>2
  <2>3. CASE ~(n >= N - k)
    <3>1. n + 1 \in 1 .. N /\ n + 1 >= N - k /\ n # N
      BY <2>1, <2>3
    <3>2. Here(n + 1)
      <4>. HIDE DEF Here
      <4>. QED BY <2>1, <3>1
    <3>3. n .. N = {n} \cup (n + 1 .. N)
      BY <3>1
    <3>4. f[n + 1] \in Seq(Token)
      BY <1>1, <3>1 DEF Chain
    <3>5. f[n] = Cat(ps[n], Cat(<<And>>, f[n + 1]))
      BY <1>2, <3>1 DEF Behind
    <3>6. Parts(f[n]) = {ps[n]} \cup Parts(f[n + 1])
      BY <1>2, <3>4, <3>5, PartsOfMore
    <3>. QED BY <3>2, <3>3, <3>6
  <2>. QED BY <2>2, <2>3
<1>5. 0 .. N \subseteq T
  <2>1. 0 \in Int /\ N \in Int
    OBVIOUS
  <2>. HIDE DEF T
  <2>. QED BY <1>3, <1>4, <2>1, RangeInduction
<1>6. Here(1)
  <2>1. N \in 0 .. N /\ 1 \in 1 .. N /\ 1 >= N - N
    OBVIOUS
  <2>. HIDE DEF Here
  <2>. QED BY <1>5, <2>1
<1>7. f[1] = s
  BY <1>1 DEF Chain
<1>. QED BY <1>6, <1>7

-----------------------------------------------------------------------------
(* The parts that comparisons are written as.                              *)
LEMMA TokenTypes ==
  /\ Quote \in Token /\ And \in Token
  /\ \A k \in DOMAIN Column : Key(k) \in Token /\ Column[k] \in Token
  /\ \A o \in {"=", ">=", "<"} : Op(o) \in Token
  /\ \A n \in Nat : Number(n) \in Token
<1>1. \A n \in Nat : Number(n) \in {"number"} \X Nat
  BY DEF Number
<1>. QED BY <1>1 DEF Token

(* Key words, columns, operators, numbers, the quotation mark and AND are  *)
(* different tokens.                                                       *)
LEMMA TokensDiffer ==
  /\ Quote # And
  /\ \A k \in DOMAIN Column : Key(k) # Quote /\ Key(k) # And
  /\ \A k, l \in DOMAIN Column : Key(k) # Column[l] /\ (Key(k) = Key(l) => k = l)
  /\ \A k \in DOMAIN Column : Column[k] # Quote /\ Column[k] # And
  /\ \A o : Op(o) # Quote /\ Op(o) # And /\ \A k : Op(o) # Key(k)
  /\ \A n : Number(n) # Quote /\ Number(n) # And /\ \A k : Number(n) # Key(k)
<1>1. DOMAIN Column = {"Event", "Usr", "Time"}
  BY DEF Column
<1>2. /\ Column["Event"] = <<"column", "events.name">> /\ Column["Usr"] = <<"column", "user_names.name">>
      /\ Column["Time"] = <<"column", "journal.time">>
  BY DEF Column
<1>. QED BY <1>1, <1>2 DEF Quote, And, Key, Op, Number

Quoted(x, y, v) == Cat(<<x, y, Quote>>, Cat(v, <<Quote>>))

HasShape(p, x, y, v) ==
  /\ p \in Seq(Token) /\ Len(p) = Len(v) + 4 /\ Len(v) \in Nat
  /\ p[1] = x /\ p[2] = y /\ p[3] = Quote /\ p[Len(v) + 4] = Quote
  /\ \A i \in 1 .. Len(v) : p[3 + i] = v[i]

(* A comparison with a quoted text, token by token.                        *)
LEMMA QuotedShape ==
  ASSUME NEW x \in Token, NEW y \in Token, NEW v \in Seq(Token)
  PROVE  HasShape(Quoted(x, y, v), x, y, v)
<1>. DEFINE a == <<x, y, Quote>>
            b == <<Quote>>
            w == v \o b
            m == Len(v)
            p == a \o w
<1>1. a \in Seq(Token) /\ Len(a) = 3 /\ a[1] = x /\ a[2] = y /\ a[3] = Quote
  BY TokenTypes
<1>2. b \in Seq(Token) /\ Len(b) = 1 /\ b[1] = Quote
  BY TokenTypes
<1>. HIDE DEF a, b
<1>3. m \in Nat
  BY LenProperties
<1>4. /\ w \in Seq(Token) /\ Len(w) = m + 1 /\ (\A i \in 1 .. m : w[i] = v[i]) /\ w[m + 1] = Quote
  <2>1. /\ w \in Seq(Token) /\ Len(w) = m + Len(b) /\ (\A i \in 1 .. m : w[i] = v[i])
        /\ \A i \in 1 .. Len(b) : w[m + i] = b[i]
    BY <1>2, Concatenated
  <2>2. 1 \in 1 .. Len(b)
    BY <1>2
  <2>. HIDE DEF w, m
  <2>. QED BY <1>2, <2>1, <2>2
<1>. HIDE DEF w
<1>5. /\ p \in Seq(Token) /\ Len(p) = Len(a) + Len(w)
      /\ (\A i \in 1 .. Len(a) : p[i] = a[i])
      /\ \A i \in 1 .. Len(w) : p[Len(a) + i] = w[i]
  BY <1>1, <1>4, Concatenated
<1>6. p = Quoted(x, y, v)
  BY Zenon DEF Quoted, Cat, a, w, b
<1>. HIDE DEF m, p
<1>7. /\ p \in Seq(Token) /\ Len(p) = 3 + (m + 1)
      /\ (\A i \in 1 .. 3 : p[i] = a[i])
      /\ \A i \in 1 .. m + 1 : p[3 + i] = w[i]
  BY <1>1, <1>4, <1>5
<1>8. p[1] = x /\ p[2] = y /\ p[3] = Quote
  BY <1>1, <1>7
<1>9. \A i \in 1 .. m : i \in 1 .. m + 1
  BY <1>3
<1>10. m + 1 \in 1 .. m + 1 /\ 3 + (m + 1) = m + 4
  BY <1>3
<1>11. HasShape(p, x, y, v)
  BY <1>3, <1>4, <1>7, <1>8, <1>9, <1>10 DEF m, HasShape
<1>. QED BY <1>6, <1>11, Zenon

(* The tokens of a comparison with a quoted text.                          *)
LEMMA QuotedTokens ==
  ASSUME NEW x \in Token, NEW y \in Token, NEW v \in Seq(Token)
  PROVE  Tokens(Quoted(x, y, v)) = {x, y, Quote} \cup Tokens(v)
<1>. DEFINE a == <<x, y, Quote>>
            b == <<Quote>>
<1>1. a \in Seq(Token) /\ b \in Seq(Token)
  BY TokenTypes
<1>2. Tokens(a) = {x, y, Quote}
  BY DEF Tokens
<1>3. Tokens(b) = {Quote}
  BY TokensOfShort
<1>4. Cat(v, b) \in Seq(Token) /\ Tokens(Cat(v, b)) = Tokens(v) \cup Tokens(b)
  <2>. HIDE DEF b
  <2>. QED BY <1>1, CatFacts, TokensOfBoth
<1>5. Tokens(Cat(a, Cat(v, b))) = Tokens(a) \cup Tokens(Cat(v, b))
  <2>. HIDE DEF a, b
  <2>. QED BY <1>1, <1>4, TokensOfBoth
<1>. HIDE DEF a, b
<1>6. Tokens(Cat(a, Cat(v, b))) = {x, y, Quote} \cup Tokens(v)
  BY <1>2, <1>3, <1>4, <1>5
<1>. QED BY <1>6 DEF Quoted, a, b

(* Key words replaced in such a part.                                      *)
LEMMA QuotedReplaced ==
  ASSUME NEW x \in Token, NEW y \in Token, NEW v \in Seq(Token),
         NEW keys \in SUBSET DOMAIN Column, \A k \in keys : Key(k) \notin Tokens(v) /\ Key(k) # y
  PROVE  Replace(Quoted(x, y, v), keys) = Quoted(ByColumn(x, keys), y, v)
<1>. DEFINE p == Quoted(x, y, v)
            q == Quoted(ByColumn(x, keys), y, v)
            m == Len(v)
<1>1. ByColumn(x, keys) \in Token
  <2>1. CASE \E k \in keys : x = Key(k)
    <3>1. PICK k \in keys : x = Key(k)
      BY <2>1
    <3>2. x[2] = k
      BY <3>1 DEF Key
    <3>. QED BY <2>1, <3>1, <3>2, TokenTypes DEF ByColumn
  <2>2. CASE ~\E k \in keys : x = Key(k)
    BY <2>2 DEF ByColumn
  <2>. QED BY <2>1, <2>2
<1>2. /\ p \in Seq(Token) /\ Len(p) = m + 4 /\ m \in Nat
      /\ p[1] = x /\ p[2] = y /\ p[3] = Quote /\ p[m + 4] = Quote
      /\ \A i \in 1 .. m : p[3 + i] = v[i]
  BY QuotedShape DEF HasShape
<1>3. /\ q \in Seq(Token) /\ Len(q) = m + 4
      /\ q[1] = ByColumn(x, keys) /\ q[2] = y /\ q[3] = Quote /\ q[m + 4] = Quote
      /\ \A i \in 1 .. m : q[3 + i] = v[i]
  BY <1>1, QuotedShape DEF HasShape
<1>. HIDE DEF p, q
<1>4. /\ Replace(p, keys) \in Seq(Token) /\ Len(Replace(p, keys)) = m + 4
      /\ \A i \in 1 .. m + 4 : Replace(p, keys)[i] = ByColumn(p[i], keys)
  BY <1>2, ReplacedText
<1>5. ByColumn(y, keys) = y /\ ByColumn(Quote, keys) = Quote
  BY TokensDiffer DEF ByColumn
<1>6. ASSUME NEW i \in 1 .. m
      PROVE  ByColumn(v[i], keys) = v[i]
  <2>1. \A k \in keys : v[i] # Key(k)
    BY DEF Tokens
  <2>. QED BY <2>1 DEF ByColumn
<1>7. ASSUME NEW i \in 1 .. m + 4
      PROVE  Replace(p, keys)[i] = q[i]
  <2>1. CASE i = 1
    BY <1>2, <1>3, <1>4, <2>1
  <2>2. CASE i = 2
    BY <1>2, <1>3, <1>4, <1>5, <2>2
  <2>3. CASE i = 3
    BY <1>2, <1>3, <1>4, <1>5, <2>3
  <2>4. CASE i = m + 4
    BY <1>2, <1>3, <1>4, <1>5, <2>4
  <2>5. CASE i > 3 /\ i < m + 4
    <3>1. i - 3 \in 1 .. m /\ 3 + (i - 3) = i
      BY <1>2, <2>5
    <3>2. p[3 + (i - 3)] = v[i - 3] /\ q[3 + (i - 3)] = v[i - 3]
      <4>. HIDE DEF m
      <4>. QED BY <1>2, <1>3, <3>1
    <3>. HIDE DEF m
    <3>. QED BY <1>4, <1>6, <3>1, <3>2
  <2>. QED BY <1>2, <2>1, <2>2, <2>3, <2>4, <2>5
<1>8. Replace(p, keys) = q
  BY <1>3, <1>4, <1>7, SeqEqual
<1>. QED BY <1>8 DEF p, q

-----------------------------------------------------------------------------
(* A round of ReplaceTime.                                                 *)
Stamped(p, y, v) ==
  /\ y \in Token /\ v \in Seq(Token) /\ p = Quoted(Key("Time"), y, v)
  /\ y \notin {Quote, And, Key("Time")}
  /\ \A x \in {Quote, And, Key("Time")} : x \notin Tokens(v)
  /\ ReadStamp(v) \in Nat

Finished(y, v) == <<Column.Time>> \o <<y>> \o <<Number(ReadStamp(v))>>

(* What is the least of a set is its Min.                                  *)
LEMMA LeastIs ==
  ASSUME NEW S, S \subseteq Int, NEW x \in S, \A y \in S : x <= y
  PROVE  Min(S) = x
<1>1. Min(S) \in S /\ \A y \in S : Min(S) <= y
  <2>1. \E z \in S : \A y \in S : z <= y
    OBVIOUS
  <2>. QED BY <2>1 DEF Min
<1>2. PICK m \in S : m = Min(S) /\ \A y \in S : m <= y
  BY <1>1
<1>3. m <= x /\ x <= m /\ m \in Int /\ x \in Int
  BY <1>2
<1>. QED BY <1>2, <1>3

(* A comparison with a stamp has one Time, at its beginning, and two       *)
(* quotation marks.                                                        *)
LEMMA StampedShape ==
  ASSUME NEW p, NEW y, NEW v, Stamped(p, y, v)
  PROVE  /\ p \in Seq(Token) /\ Len(p) = Len(v) + 4 /\ Len(v) \in Nat
         /\ p[1] = Key("Time") /\ p[2] = y /\ p[3] = Quote /\ p[Len(v) + 4] = Quote
         /\ \A i \in 1 .. Len(v) : p[3 + i] = v[i] /\ v[i] \notin {Quote, And, Key("Time")}
         /\ \A i \in 1 .. Len(v) + 4 : p[i] = Key("Time") => i = 1
         /\ \A i \in 1 .. Len(v) + 4 : p[i] = Quote => i = 3 \/ i = Len(v) + 4
<1>. DEFINE m == Len(v)
            K == Key("Time")
<1>1. K \in Token /\ K # Quote
  <2>1. "Time" \in DOMAIN Column
    BY DEF Column
  <2>. QED BY <2>1, TokenTypes, TokensDiffer
<1>. HIDE DEF K
<1>2. /\ p \in Seq(Token) /\ Len(p) = m + 4 /\ m \in Nat
      /\ p[1] = K /\ p[2] = y /\ p[3] = Quote /\ p[m + 4] = Quote
      /\ \A i \in 1 .. m : p[3 + i] = v[i]
  <2>1. y \in Token /\ v \in Seq(Token) /\ p = Quoted(K, y, v)
    BY DEF Stamped, K
  <2>2. HasShape(Quoted(K, y, v), K, y, v)
    BY <1>1, <2>1, QuotedShape
  <2>3. HasShape(p, K, y, v)
    BY <2>1, <2>2, Zenon
  <2>. QED BY <2>3 DEF HasShape
<1>3. y # Quote /\ y # K
  BY DEF Stamped, K
<1>4. ASSUME NEW i \in 1 .. m
      PROVE  v[i] \notin {Quote, And, K}
  BY DEF Stamped, Tokens, K
<1>. HIDE DEF m
<1>5. ASSUME NEW i \in 1 .. m + 4, i # 1, i # 2, i # 3, i # m + 4
      PROVE  p[i] # K /\ p[i] # Quote
  <2>1. i - 3 \in 1 .. m /\ 3 + (i - 3) = i
    BY <1>2, <1>5
  <2>. QED BY <1>2, <1>4, <2>1
<1>6. \A i \in 1 .. m + 4 : p[i] = K => i = 1
  BY <1>1, <1>2, <1>3, <1>5
<1>7. \A i \in 1 .. m + 4 : p[i] = Quote => i = 3 \/ i = m + 4
  BY <1>1, <1>2, <1>3, <1>5
<1>. QED BY <1>2, <1>4, <1>6, <1>7 DEF m, K

(* A stretch of a text that has the tokens of another is that other.       *)
LEMMA Between ==
  ASSUME NEW s \in Seq(Token), NEW i \in 1 .. Len(s) + 1, NEW j \in i - 1 .. Len(s),
         NEW w \in Seq(Token), Len(w) = j + 1 - i, \A k \in 1 .. Len(w) : s[i + k - 1] = w[k]
  PROVE  SubSeq(s, i, j) = w
<1>. DEFINE x == SubSeq(s, i, j)
<1>1. x \in Seq(Token) /\ Len(x) = j + 1 - i /\ \A k \in 1 .. j + 1 - i : x[k] = s[i + k - 1]
  BY Stretch
<1>. HIDE DEF x
<1>2. x = w
  BY <1>1, SeqEqual
<1>. QED BY <1>2 DEF x

(* A round of ReplaceTime finds the first stamped part, whatever stands    *)
(* behind it, and replaces it by what it is to be.                         *)
LEMMA Round ==
  ASSUME NEW p, NEW y, NEW v, Stamped(p, y, v), NEW u \in Seq(Token), NEW t \in Seq(Token),
         Key("Time") \notin Tokens(u), NEW r, r = Cat(u, Cat(p, t))
  PROVE  /\ Contains(r, Key("Time")) /\ TimeIsQuoted(r)
         /\ ReplaceTimeOnce(r) = ReplacePiece(r, p, Finished(y, v))
<1>. DEFINE m == Len(v)
            n == Len(u)
            K == Key("Time")
            w == Cat(p, t)
<1>1. /\ p \in Seq(Token) /\ Len(p) = m + 4 /\ m \in Nat
      /\ p[1] = K /\ p[2] = y /\ p[3] = Quote /\ p[m + 4] = Quote
      /\ \A i \in 1 .. m : p[3 + i] = v[i]
      /\ \A i \in 1 .. m + 4 : p[i] = K => i = 1
      /\ \A i \in 1 .. m + 4 : p[i] = Quote => i = 3 \/ i = m + 4
  <2>. HIDE DEF K
  <2>. QED BY StampedShape DEF K
<1>2. /\ w \in Seq(Token) /\ Len(w) = (m + 4) + Len(t) /\ Len(t) \in Nat
      /\ \A i \in 1 .. m + 4 : w[i] = p[i]
  <2>1. /\ p \o t \in Seq(Token) /\ Len(p \o t) = Len(p) + Len(t)
        /\ \A i \in 1 .. Len(p) : (p \o t)[i] = p[i]
    BY <1>1, Concatenated
  <2>2. Len(t) \in Nat /\ w = p \o t
    BY LenProperties DEF Cat
  <2>. HIDE DEF m, w
  <2>. QED BY <1>1, <2>1, <2>2
<1>. HIDE DEF w
<1>3. /\ r \in Seq(Token) /\ Len(r) = n + ((m + 4) + Len(t)) /\ n \in Nat
      /\ (\A i \in 1 .. n : r[i] = u[i])
      /\ \A i \in 1 .. m + 4 : r[n + i] = p[i]
  <2>1. r = u \o w
    BY DEF Cat, w
  <2>2. /\ u \o w \in Seq(Token) /\ Len(u \o w) = n + Len(w) /\ n \in Nat
        /\ (\A i \in 1 .. n : (u \o w)[i] = u[i])
        /\ \A i \in 1 .. Len(w) : (u \o w)[n + i] = w[i]
    BY <1>2, Concatenated, LenProperties
  <2>3. \A i \in 1 .. m + 4 : i \in 1 .. Len(w)
    BY <1>1, <1>2
  <2>. HIDE DEF m, n
  <2>. QED BY <1>2, <2>1, <2>2, <2>3
<1>4. /\ DOMAIN r = 1 .. Len(r) /\ v \in Seq(Token) /\ y \in Token
      /\ \A i \in 1 .. n : u[i] # K
  BY <1>3, LenProperties DEF Tokens, Stamped
<1>. HIDE DEF m, n, K
<1>5. ASSUME NEW i \in 1 .. m + 4
      PROVE  n + i \in 1 .. Len(r)
  BY <1>1, <1>2, <1>3
<1>6. 1 \in 1 .. m + 4 /\ 3 \in 1 .. m + 4 /\ m + 4 \in 1 .. m + 4
  BY <1>1
<1>7. First(r, K) = n + 1
  <2>1. n + 1 \in Places(r, K)
    BY <1>1, <1>3, <1>4, <1>5, <1>6 DEF Places
  <2>2. \A i \in Places(r, K) : i \in Int /\ n + 1 <= i
    <3>1. SUFFICES ASSUME NEW i \in 1 .. Len(r), r[i] = K PROVE n + 1 <= i
      BY <1>3, <1>4 DEF Places
    <3>2. i \notin 1 .. n
      BY <1>3, <1>4, <3>1
    <3>. QED BY <1>3, <3>2
  <2>3. Min(Places(r, K)) = n + 1
    BY <2>1, <2>2, LeastIs
  <2>. QED BY <2>3 DEF First
<1>. DEFINE quotes == {i \in Places(r, Quote) : i > n + 1}
<1>8. ASSUME NEW i
      PROVE  i \in quotes <=> i \in 1 .. Len(r) /\ r[i] = Quote /\ i > n + 1
  BY <1>4 DEF Places
<1>. HIDE DEF quotes
<1>9. n + 3 \in quotes /\ n + (m + 4) \in quotes /\ n + 3 # n + (m + 4)
  <2>1. r[n + 3] = Quote /\ r[n + (m + 4)] = Quote
    BY <1>1, <1>3, <1>6
  <2>2. n + 3 > n + 1 /\ n + (m + 4) > n + 1 /\ n + 3 # n + (m + 4)
    BY <1>1, <1>3
  <2>. QED BY <1>5, <1>6, <1>8, <2>1, <2>2
<1>10. ASSUME NEW i \in quotes
       PROVE  i \in Int /\ (i = n + 3 \/ i >= n + (m + 4))
  <2>1. i \in 1 .. Len(r) /\ r[i] = Quote /\ i > n + 1
    BY <1>8
  <2>2. CASE i < n + (m + 4)
    <3>1. i - n \in 1 .. m + 4 /\ n + (i - n) = i /\ i - n # m + 4
      BY <1>1, <1>3, <2>1, <2>2
    <3>2. p[i - n] = Quote
      BY <1>3, <2>1, <3>1
    <3>3. i - n = 3
      BY <1>1, <3>1, <3>2
    <3>. QED BY <1>3, <2>1, <3>3
  <2>3. CASE ~(i < n + (m + 4))
    BY <1>1, <1>3, <2>1, <2>3
  <2>. QED BY <2>2, <2>3
<1>11. Min(quotes) = n + 3
  <2>1. ASSUME NEW i \in quotes
        PROVE  i \in Int /\ n + 3 <= i
    <3>1. i \in Int /\ (i = n + 3 \/ i >= n + (m + 4))
      BY <1>10
    <3>. QED BY <1>1, <1>3, <3>1
  <2>. QED BY <1>9, <2>1, LeastIs
<1>12. Min(quotes \ {n + 3}) = n + (m + 4)
  <2>1. quotes \ {n + 3} \subseteq Int /\ \A i \in quotes \ {n + 3} : n + (m + 4) <= i
    BY <1>1, <1>3, <1>10
  <2>2. n + (m + 4) \in quotes \ {n + 3}
    BY <1>9
  <2>. QED BY <2>1, <2>2, LeastIs
<1>13. Contains(r, K)
  BY <1>1, <1>3, <1>5, <1>6 DEF Contains
<1>14. TimeIsQuoted(r)
  <2>1. IsFiniteSet(quotes)
    <3>1. quotes \subseteq 1 .. Len(r) /\ IsFiniteSet(1 .. Len(r))
      BY <1>1, <1>2, <1>3, <1>8, FS_Interval
    <3>. QED BY <3>1, FS_Subset
  <2>. DEFINE two == {n + 3, n + (m + 4)}
  <2>2. two \subseteq quotes /\ Cardinality(two) = 2
    <3>1. IsFiniteSet({n + 3}) /\ Cardinality({n + 3}) = 1 /\ n + (m + 4) \notin {n + 3}
      BY <1>9, FS_Singleton
    <3>2. Cardinality({n + 3} \cup {n + (m + 4)}) = 1 + 1
      BY <3>1, FS_AddElement
    <3>3. two = {n + 3} \cup {n + (m + 4)}
      OBVIOUS
    <3>4. Cardinality(two) = 1 + 1
      <4>. HIDE DEF two
      <4>. QED BY <3>2, <3>3, Zenon
    <3>5. two \subseteq quotes
      BY <1>9, Zenon
    <3>. HIDE DEF two
    <3>. QED BY <3>4, <3>5
  <2>3. Cardinality(two) <= Cardinality(quotes) /\ Cardinality(quotes) \in Nat
    <3>. HIDE DEF two
    <3>. QED BY <2>1, <2>2, FS_Subset, FS_CardinalityType
  <2>4. Cardinality(quotes) >= 2
    <3>. HIDE DEF two
    <3>. QED BY <2>2, <2>3
  <2>. QED BY <1>7, <2>4 DEF TimeIsQuoted, quotes, K
<1>15. SubSeq(r, n + 1, n + (m + 4)) = p
  <2>1. /\ n + 1 \in 1 .. Len(r) + 1 /\ n + (m + 4) \in (n + 1) - 1 .. Len(r)
        /\ Len(p) = n + (m + 4) + 1 - (n + 1)
        /\ \A k \in 1 .. m + 4 : n + 1 + k - 1 = n + k
    BY <1>1, <1>2, <1>3
  <2>2. \A k \in 1 .. Len(p) : r[n + 1 + k - 1] = p[k]
    BY <1>1, <1>3, <2>1
  <2>. QED BY <1>1, <1>3, <2>1, <2>2, Between
<1>16. SubSeq(r, n + 1 + 1, n + 3 - 1) = <<y>>
  <2>. DEFINE a == <<y>>
  <2>1. a \in Seq(Token) /\ Len(a) = 1 /\ a[1] = y
    BY <1>4
  <2>. HIDE DEF a
  <2>2. /\ n + 1 + 1 \in 1 .. Len(r) + 1 /\ n + 3 - 1 \in (n + 1 + 1) - 1 .. Len(r)
        /\ Len(a) = n + 3 - 1 + 1 - (n + 1 + 1) /\ 2 \in 1 .. m + 4
        /\ \A k \in 1 .. Len(a) : k = 1 /\ n + 1 + 1 + k - 1 = n + 2
    BY <1>1, <1>2, <1>3, <2>1
  <2>3. \A k \in 1 .. Len(a) : r[n + 1 + 1 + k - 1] = a[k]
    BY <1>1, <1>3, <2>1, <2>2
  <2>4. SubSeq(r, n + 1 + 1, n + 3 - 1) = a
    BY <1>3, <2>1, <2>2, <2>3, Between
  <2>. QED BY <2>4 DEF a
<1>17. SubSeq(r, n + 3 + 1, n + (m + 4) - 1) = v
  <2>1. Len(v) = m
    BY DEF m
  <2>2. /\ n + 3 + 1 \in 1 .. Len(r) + 1 /\ n + (m + 4) - 1 \in (n + 3 + 1) - 1 .. Len(r)
        /\ Len(v) = n + (m + 4) - 1 + 1 - (n + 3 + 1)
        /\ \A k \in 1 .. m : n + 3 + 1 + k - 1 = n + (3 + k) /\ 3 + k \in 1 .. m + 4
    BY <1>1, <1>2, <1>3, <2>1
  <2>3. ASSUME NEW k \in 1 .. Len(v)
        PROVE  r[n + 3 + 1 + k - 1] = v[k]
    <3>1. k \in 1 .. m
      BY <2>1
    <3>2. n + 3 + 1 + k - 1 = n + (3 + k) /\ 3 + k \in 1 .. m + 4
      BY <2>2, <3>1
    <3>3. r[n + (3 + k)] = p[3 + k] /\ p[3 + k] = v[k]
      BY <1>1, <1>3, <3>1, <3>2
    <3>. QED BY <3>2, <3>3
  <2>. QED BY <1>3, <1>4, <2>2, <2>3, Between
<1>18. ReplaceTimeOnce(r) = ReplacePiece(r, p, Finished(y, v))
  <2>1. {i \in Places(r, Quote) : i > First(r, Key("Time"))} = quotes /\ First(r, Key("Time")) = n + 1
    BY <1>7 DEF quotes, K
  <2>2. ReplaceTimeOnce(r)
          = LET open   == Min(quotes)
                close  == Min(quotes \ {open})
                found  == SubSeq(r, n + 1, close)
                number == Number(ReadStamp(SubSeq(r, open + 1, close - 1)))
            IN  ReplacePiece(r, found, <<Column.Time>> \o SubSeq(r, n + 1 + 1, open - 1) \o <<number>>)
    BY <2>1, Zenon DEF ReplaceTimeOnce
  <2>3. ReplaceTimeOnce(r)
          = ReplacePiece(r, SubSeq(r, n + 1, n + (m + 4)),
                         <<Column.Time>> \o SubSeq(r, n + 1 + 1, n + 3 - 1)
                           \o <<Number(ReadStamp(SubSeq(r, n + 3 + 1, n + (m + 4) - 1)))>>)
    <3>1. n + 3 - 1 = (n + 3) - 1 /\ n + (m + 4) - 1 = (n + (m + 4)) - 1
      BY <1>1, <1>3
    <3>2. ReplaceTimeOnce(r)
            = ReplacePiece(r, SubSeq(r, n + 1, n + (m + 4)),
                           <<Column.Time>> \o SubSeq(r, n + 1 + 1, (n + 3) - 1)
                             \o <<Number(ReadStamp(SubSeq(r, n + 3 + 1, (n + (m + 4)) - 1)))>>)
      BY <1>11, <1>12, <2>2, Zenon
    <3>. QED BY <3>1, <3>2, Zenon
  <2>. QED BY <1>15, <1>16, <1>17, <2>3, Zenon DEF Finished
<1>. QED BY <1>13, <1>14, <1>18 DEF K

(* Three tokens one after the other.                                       *)
LEMMA ThreeTokens ==
  ASSUME NEW a \in Token, NEW b \in Token, NEW c \in Token
  PROVE  <<a>> \o <<b>> \o <<c>> = <<a, b, c>>
<1>. DEFINE x == <<a>>
            y == <<b>>
            w == <<c>>
            u == x \o y
            t == <<a, b, c>>
<1>1. x \in Seq(Token) /\ Len(x) = 1 /\ x[1] = a
  OBVIOUS
<1>2. y \in Seq(Token) /\ Len(y) = 1 /\ y[1] = b
  OBVIOUS
<1>3. w \in Seq(Token) /\ Len(w) = 1 /\ w[1] = c
  OBVIOUS
<1>4. t \in Seq(Token) /\ Len(t) = 3 /\ t[1] = a /\ t[2] = b /\ t[3] = c
  OBVIOUS
<1>. HIDE DEF x, y, w, t
<1>5. u \in Seq(Token) /\ Len(u) = 2 /\ u[1] = a /\ u[2] = b
  <2>1. /\ u \in Seq(Token) /\ Len(u) = Len(x) + Len(y)
        /\ (\A i \in 1 .. Len(x) : u[i] = x[i])
        /\ \A i \in 1 .. Len(y) : u[Len(x) + i] = y[i]
    BY <1>1, <1>2, Concatenated
  <2>2. 1 \in 1 .. Len(x) /\ 1 \in 1 .. Len(y) /\ Len(x) + 1 = 2
    BY <1>1, <1>2
  <2>. HIDE DEF u
  <2>. QED BY <1>1, <1>2, <2>1, <2>2
<1>. HIDE DEF u
<1>6. /\ u \o w \in Seq(Token) /\ Len(u \o w) = Len(u) + Len(w)
      /\ (\A i \in 1 .. Len(u) : (u \o w)[i] = u[i])
      /\ \A i \in 1 .. Len(w) : (u \o w)[Len(u) + i] = w[i]
  BY <1>3, <1>5, Concatenated
<1>7. (u \o w)[1] = a /\ (u \o w)[2] = b /\ (u \o w)[3] = c /\ Len(u \o w) = 3
  <2>1. 1 \in 1 .. Len(u) /\ 2 \in 1 .. Len(u) /\ 1 \in 1 .. Len(w) /\ Len(u) + 1 = 3
    BY <1>3, <1>5
  <2>. QED BY <1>3, <1>5, <1>6, <2>1
<1>8. \A i \in 1 .. 3 : (u \o w)[i] = t[i]
  BY <1>4, <1>7
<1>9. u \o w = t
  BY <1>4, <1>6, <1>7, <1>8, SeqEqual
<1>. QED BY <1>9, Zenon DEF u, x, y, w, t

(* A finished comparison with a stamp has no Time and no AND.              *)
LEMMA FinishedShape ==
  ASSUME NEW p, NEW y, NEW v, Stamped(p, y, v)
  PROVE  /\ Finished(y, v) \in Seq(Token)
         /\ Finished(y, v) = <<Column.Time, y, Number(ReadStamp(v))>>
         /\ Key("Time") \notin Tokens(Finished(y, v)) /\ And \notin Tokens(Finished(y, v))
<1>1. "Time" \in DOMAIN Column
  BY DEF Column
<1>2. /\ Column.Time \in Token /\ y \in Token /\ Number(ReadStamp(v)) \in Token
      /\ Column.Time # Key("Time") /\ Column.Time # And /\ y # Key("Time") /\ y # And
      /\ Number(ReadStamp(v)) # Key("Time") /\ Number(ReadStamp(v)) # And
  BY <1>1, TokenTypes, TokensDiffer DEF Stamped
<1>3. Finished(y, v) = <<Column.Time, y, Number(ReadStamp(v))>>
  <2>1. <<Column.Time>> \o <<y>> \o <<Number(ReadStamp(v))>>
          = <<Column.Time, y, Number(ReadStamp(v))>>
    BY <1>2, ThreeTokens
  <2>. QED BY <2>1, Zenon DEF Finished
<1>4. ASSUME NEW a \in Token, NEW b \in Token, NEW c \in Token
      PROVE  <<a, b, c>> \in Seq(Token) /\ Tokens(<<a, b, c>>) = {a, b, c}
  BY DEF Tokens
<1>5. /\ <<Column.Time, y, Number(ReadStamp(v))>> \in Seq(Token)
      /\ Tokens(<<Column.Time, y, Number(ReadStamp(v))>>) = {Column.Time, y, Number(ReadStamp(v))}
  BY <1>2, <1>4
<1>. QED BY <1>2, <1>3, <1>5

(* A text is a comparison with a stamp in one way.                         *)
LEMMA StampedOnce ==
  ASSUME NEW p, NEW y, NEW v, Stamped(p, y, v), NEW z, NEW w, Stamped(p, z, w)
  PROVE  y = z /\ v = w
<1>1. /\ Len(p) = Len(v) + 4 /\ Len(v) \in Nat /\ p[2] = y
      /\ \A i \in 1 .. Len(v) : p[3 + i] = v[i]
  BY StampedShape
<1>2. /\ Len(p) = Len(w) + 4 /\ Len(w) \in Nat /\ p[2] = z
      /\ \A i \in 1 .. Len(w) : p[3 + i] = w[i]
  BY StampedShape
<1>3. Len(v) = Len(w)
  BY <1>1, <1>2
<1>4. \A i \in 1 .. Len(v) : v[i] = w[i]
  BY <1>1, <1>2, <1>3
<1>5. v \in Seq(Token) /\ w \in Seq(Token)
  BY DEF Stamped
<1>6. v = w
  BY <1>3, <1>4, <1>5, SeqEqual
<1>. QED BY <1>1, <1>2, <1>6

(* A stamped part that stands where another begins is that part.           *)
LEMMA SameStart ==
  ASSUME NEW p, NEW y, NEW v, Stamped(p, y, v), NEW q, NEW z, NEW w, Stamped(q, z, w),
         NEW t \in Seq(Token), StandsAt(Cat(q, t), p, 1)
  PROVE  q = p
<1>. DEFINE K == Len(v) + 4
            L == Len(w) + 4
            s == Cat(q, t)
<1>1. /\ p \in Seq(Token) /\ Len(p) = K /\ Len(v) \in Nat /\ p[3] = Quote /\ p[K] = Quote
      /\ \A i \in 1 .. K : p[i] = Quote => i = 3 \/ i = K
  BY StampedShape
<1>2. /\ q \in Seq(Token) /\ Len(q) = L /\ Len(w) \in Nat /\ q[3] = Quote /\ q[L] = Quote
      /\ \A i \in 1 .. L : q[i] = Quote => i = 3 \/ i = L
  BY StampedShape
<1>3. K \in Nat /\ L \in Nat /\ K >= 4 /\ L >= 4
  BY <1>1, <1>2
<1>. HIDE DEF K, L
<1>4. /\ s \in Seq(Token) /\ Len(s) = L + Len(t) /\ Len(t) \in Nat
      /\ \A i \in 1 .. L : s[i] = q[i]
  BY <1>2, Concatenated, LenProperties DEF Cat
<1>5. \A i \in 1 .. K : s[i] = p[i]
  <2>1. p # << >> /\ 1 \in 1 .. Len(s) /\ StandsAt(s, p, 1)
    BY <1>1, <1>3, <1>4
  <2>2. \A k \in 1 .. Len(p) : s[1 + k - 1] = p[k]
    <3>. HIDE DEF s
    <3>. QED BY <1>1, <1>4, <2>1, Standing
  <2>3. \A k \in 1 .. K : 1 + k - 1 = k
    BY <1>3
  <2>. HIDE DEF s
  <2>. QED BY <1>1, <2>2, <2>3
<1>. HIDE DEF s
<1>6. ~(K < L)
  <2>1. SUFFICES ASSUME K < L PROVE FALSE
    OBVIOUS
  <2>2. K \in 1 .. K /\ K \in 1 .. L /\ K # 3 /\ K # L
    BY <1>3, <2>1
  <2>. QED BY <1>1, <1>2, <1>4, <1>5, <2>2
<1>7. ~(L < K)
  <2>1. SUFFICES ASSUME L < K PROVE FALSE
    OBVIOUS
  <2>2. L \in 1 .. K /\ L \in 1 .. L /\ L # 3 /\ L # K
    BY <1>3, <2>1
  <2>. QED BY <1>1, <1>2, <1>4, <1>5, <2>2
<1>8. K = L
  BY <1>3, <1>6, <1>7
<1>9. \A i \in 1 .. L : q[i] = p[i]
  BY <1>4, <1>5, <1>8
<1>. QED BY <1>1, <1>2, <1>8, <1>9, SeqEqual

(* Where a stamped part stands in a text, a part begins and ends: every    *)
(* Time of the text is the beginning of one.                               *)
LEMMA StampedApart ==
  ASSUME NEW N \in Nat \ {0}, NEW f, NEW r, NEW qs, Chain(f, r, qs, N),
         NEW p, NEW y, NEW v, Stamped(p, y, v),
         \A n \in 1 .. N : Key("Time") \in Tokens(qs[n]) => \E z, w : Stamped(qs[n], z, w)
  PROVE  Apart(p, f, qs, N)
<1>1. SUFFICES ASSUME NEW n \in 1 .. N, qs[n] # p, NEW i \in 1 .. Len(qs[n]), StandsAt(f[n], p, i)
               PROVE  FALSE
  BY DEF Apart
<1>. DEFINE q == qs[n]
            t == Behind(f, n, N)
            s == Cat(q, t)
<1>2. f[n] = s /\ q \in Seq(Token) /\ t \in Seq(Token)
  BY BehindType DEF Chain
<1>. HIDE DEF t
<1>3. p \in Seq(Token) /\ p # << >> /\ Len(p) \in Nat /\ 1 \in 1 .. Len(p) /\ p[1] = Key("Time")
  <2>1. p \in Seq(Token) /\ Len(p) = Len(v) + 4 /\ Len(v) \in Nat /\ p[1] = Key("Time")
    BY StampedShape
  <2>. QED BY <2>1, EmptySeq
<1>4. /\ s \in Seq(Token) /\ Len(s) = Len(q) + Len(t) /\ Len(t) \in Nat /\ Len(q) \in Nat
      /\ \A j \in 1 .. Len(q) : s[j] = q[j]
  BY <1>2, Concatenated, LenProperties DEF Cat
<1>5. q[i] = Key("Time")
  <2>1. i \in 1 .. Len(s) /\ StandsAt(s, p, i) /\ i + 1 - 1 = i
    BY <1>1, <1>2, <1>4
  <2>2. s[i + 1 - 1] = p[1]
    <3>. HIDE DEF s
    <3>. QED BY <1>3, <1>4, <2>1, Standing
  <2>. HIDE DEF s
  <2>. QED BY <1>1, <1>3, <1>4, <2>1, <2>2
<1>6. PICK z, w : Stamped(q, z, w)
  BY <1>5 DEF Tokens
<1>7. i = 1
  BY <1>1, <1>5, <1>6, StampedShape
<1>8. q = p
  <2>1. StandsAt(s, p, 1)
    BY <1>1, <1>2, <1>7
  <2>. QED BY <1>2, <1>6, <2>1, SameStart
<1>. QED BY <1>1, <1>8

-----------------------------------------------------------------------------
(* The loop of ReplaceTime on a text of parts ps: the stamped ones end as  *)
(* fs has them, the first k of them after k rounds.                        *)
Finishing(ps, fs, N) ==
  \A n \in 1 .. N :
    /\ ps[n] \in Seq(Token) /\ fs[n] \in Seq(Token)
    /\ Key("Time") \notin Tokens(fs[n])
    /\ fs[n] # ps[n] => \E y, v : Stamped(ps[n], y, v) /\ fs[n] = Finished(y, v)

Advanced(qs, ps, fs, N, k) ==
  \A n \in 1 .. N : qs[n] \in {ps[n], fs[n]} /\ (n <= k => qs[n] = fs[n])

Reached(r, ps, fs, N, k) == \E qs : Joined(r, qs, N) /\ Advanced(qs, ps, fs, N, k)

NextRound(r) == IF Contains(r, Key("Time")) /\ TimeIsQuoted(r) THEN ReplaceTimeOnce(r) ELSE r

(* Time is not AND.                                                        *)
LEMMA TimeKeyWord == Key("Time") # And
<1>1. "Time" \in DOMAIN Column
  BY DEF Column
<1>. QED BY <1>1, TokensDiffer

(* The parts that are left, after the first of them is finished.           *)
LEMMA PartFinished ==
  ASSUME NEW N \in Nat \ {0}, NEW k \in Nat, NEW ps, NEW fs, Finishing(ps, fs, N),
         NEW qs, Advanced(qs, ps, fs, N, k),
         NEW m \in 1 .. N, qs[m] # fs[m], \A n \in 1 .. N : qs[n] # fs[n] => m <= n,
         NEW y, NEW v, Stamped(qs[m], y, v), fs[m] = Finished(y, v)
  PROVE  Advanced([n \in 1 .. N |-> IF qs[n] = qs[m] THEN Finished(y, v) ELSE qs[n]], ps, fs, N, k + 1)
<1>. DEFINE p == qs[m]
            by == Finished(y, v)
            ts == [n \in 1 .. N |-> IF qs[n] = p THEN by ELSE qs[n]]
<1>1. Key("Time") \in Tokens(p)
  BY StampedShape DEF Tokens
<1>2. ASSUME NEW n \in 1 .. N
      PROVE  /\ qs[n] \in {ps[n], fs[n]} /\ (n <= k => qs[n] = fs[n])
             /\ Key("Time") \notin Tokens(fs[n])
             /\ fs[n] # ps[n] => \E z, w : Stamped(ps[n], z, w) /\ fs[n] = Finished(z, w)
  BY DEF Finishing, Advanced
<1>3. ASSUME NEW n \in 1 .. N, qs[n] = p
      PROVE  fs[n] = by
  <2>1. qs[n] # fs[n] /\ qs[n] = ps[n]
    BY <1>1, <1>2, <1>3
  <2>2. PICK z, w : Stamped(ps[n], z, w) /\ fs[n] = Finished(z, w)
    BY <1>2, <2>1
  <2>3. z = y /\ w = v
    BY <1>3, <2>1, <2>2, StampedOnce
  <2>. QED BY <2>2, <2>3
<1>4. ASSUME NEW n \in 1 .. N
      PROVE  ts[n] \in {ps[n], fs[n]} /\ (n <= k + 1 => ts[n] = fs[n])
  <2>. HIDE DEF p, by
  <2>1. CASE qs[n] = p
    BY <1>3, <2>1
  <2>2. CASE qs[n] # p
    <3>1. ts[n] = qs[n]
      BY <2>2
    <3>2. ASSUME n <= k + 1, qs[n] # fs[n]
          PROVE  FALSE
      <4>1. ~(n <= k) /\ m <= n
        BY <1>2, <3>2
      <4>2. ~(m <= k)
        BY <1>2
      <4>3. m = n
        BY <3>2, <4>1, <4>2
      <4>. QED BY <2>2, <4>3 DEF p
    <3>. HIDE DEF ts
    <3>. QED BY <1>2, <3>1, <3>2
  <2>. QED BY <2>1, <2>2
<1>. QED BY <1>4 DEF Advanced

(* A round finishes the first stamped part that is left, and with it all   *)
(* that are equal to it.                                                   *)
LEMMA OneRound ==
  ASSUME NEW N \in Nat \ {0}, NEW k \in Nat, NEW ps, NEW fs, Finishing(ps, fs, N),
         NEW r, Reached(r, ps, fs, N, k)
  PROVE  Reached(NextRound(r), ps, fs, N, k + 1)
<1>. DEFINE K == Key("Time")
<1>1. PICK qs : Joined(r, qs, N) /\ Advanced(qs, ps, fs, N, k)
  BY DEF Reached
<1>2. PICK f : Chain(f, r, qs, N)
  BY <1>1 DEF Joined
<1>3. r \in Seq(Token)
  BY <1>1, JoinedText
<1>4. ASSUME NEW n \in 1 .. N
      PROVE  /\ qs[n] \in {ps[n], fs[n]} /\ K \notin Tokens(fs[n])
             /\ qs[n] # fs[n] => \E y, v : Stamped(qs[n], y, v) /\ fs[n] = Finished(y, v)
  BY <1>1 DEF Finishing, Advanced
<1>5. CASE \A n \in 1 .. N : qs[n] = fs[n]
  <2>1. K \notin Tokens(r)
    <3>1. \A n \in 1 .. N : K \notin Tokens(qs[n])
      BY <1>4, <1>5
    <3>. QED BY <1>1, <3>1, TokensOfParts, TimeKeyWord
  <2>2. ~Contains(r, K)
    BY <2>1 DEF Contains, Tokens
  <2>3. NextRound(r) = r
    BY <2>2 DEF NextRound
  <2>4. Advanced(qs, ps, fs, N, k + 1)
    BY <1>5 DEF Advanced
  <2>. QED BY <1>1, <2>3, <2>4 DEF Reached
<1>6. CASE \E n \in 1 .. N : qs[n] # fs[n]
  <2>. DEFINE U == {n \in 1 .. N : qs[n] # fs[n]}
  <2>1. PICK m \in U : \A n \in U : m <= n
    <3>1. U \in SUBSET Nat /\ U # {}
      BY <1>6
    <3>. HIDE DEF U
    <3>. QED BY <3>1, LeastElement
  <2>2. m \in 1 .. N /\ qs[m] # fs[m] /\ \A n \in 1 .. N : qs[n] # fs[n] => m <= n
    BY <2>1
  <2>. HIDE DEF U
  <2>3. PICK y, v : Stamped(qs[m], y, v) /\ fs[m] = Finished(y, v)
    BY <1>4, <2>2
  <2>. DEFINE p == qs[m]
              by == Finished(y, v)
              t == Behind(f, m, N)
  <2>4. \A n \in 1 .. m - 1 : K \notin Tokens(qs[n])
    <3>1. ASSUME NEW n \in 1 .. m - 1
          PROVE  n \in 1 .. N /\ qs[n] = fs[n]
      <4>1. n \in 1 .. N /\ ~(m <= n)
        BY <2>2
      <4>. QED BY <2>2, <4>1
    <3>. QED BY <1>4, <3>1
  <2>5. PICK u \in Seq(Token) : r = Cat(u, f[m]) /\ K \notin Tokens(u)
    <3>. HIDE DEF K
    <3>1. K # And
      BY TimeKeyWord DEF K
    <3>2. NotBefore(K, qs, m)
      BY <2>4 DEF NotBefore
    <3>3. Splits(r, f, m, K)
      BY <1>2, <2>2, <3>1, <3>2, TextBefore
    <3>. QED BY <3>3 DEF Splits
  <2>6. f[m] = Cat(p, t) /\ t \in Seq(Token) /\ p \in Seq(Token) /\ by \in Seq(Token)
    <3>1. f[m] = Cat(p, t) /\ p \in Seq(Token) /\ t \in Seq(Token)
      BY <1>2, <2>2, BehindType DEF Chain
    <3>2. by \in Seq(Token)
      BY <2>3, FinishedShape
    <3>. QED BY <3>1, <3>2
  <2>7. /\ Contains(r, K) /\ TimeIsQuoted(r)
        /\ ReplaceTimeOnce(r) = ReplacePiece(r, p, by)
    <3>1. Stamped(p, y, v) /\ r = Cat(u, Cat(p, t))
      BY <2>3, <2>5, <2>6
    <3>. HIDE DEF p, t
    <3>. QED BY <2>5, <2>6, <3>1, Round
  <2>8. NextRound(r) = ReplacePiece(r, p, by)
    BY <2>7 DEF NextRound
  <2>9. Apart(p, f, qs, N)
    <3>1. ASSUME NEW n \in 1 .. N, K \in Tokens(qs[n])
          PROVE  \E z, w : Stamped(qs[n], z, w)
      BY <1>4, <3>1
    <3>. QED BY <1>2, <2>3, <3>1, StampedApart
  <2>10. p # << >> /\ p[1] # And
    <3>1. Len(p) = Len(v) + 4 /\ Len(v) \in Nat /\ p[1] = K
      BY <2>3, StampedShape
    <3>2. Len(p) # 0
      <4>. HIDE DEF p
      <4>. QED BY <3>1
    <3>3. p # << >>
      BY <3>2, EmptySeq
    <3>. QED BY <3>1, <3>3, TimeKeyWord
  <2>11. Joined(ReplacePiece(r, p, by), [n \in 1 .. N |-> IF qs[n] = p THEN by ELSE qs[n]], N)
    <3>. HIDE DEF p, by
    <3>. QED BY <1>2, <2>6, <2>9, <2>10, PieceJoined
  <2>12. Advanced([n \in 1 .. N |-> IF qs[n] = p THEN by ELSE qs[n]], ps, fs, N, k + 1)
    BY <1>1, <2>2, <2>3, PartFinished
  <2>. QED BY <2>8, <2>11, <2>12 DEF Reached
<1>. QED BY <1>5, <1>6

(* A text of N parts has N tokens at least, when none is empty.            *)
LEMMA AsLongAsParts ==
  ASSUME NEW N \in Nat \ {0}, NEW s, NEW ps, Joined(s, ps, N), \A n \in 1 .. N : Len(ps[n]) >= 1
  PROVE  N <= Len(s)
<1>1. PICK f : Chain(f, s, ps, N)
  BY DEF Joined
<1>. DEFINE Here(n) == Len(f[n]) >= N + 1 - n
            T == {k \in Int : \A n \in 1 .. N : n >= N - k => Here(n)}
<1>2. ASSUME NEW n \in 1 .. N
      PROVE  /\ Len(f[n]) \in Nat /\ Len(f[n]) >= 1
             /\ n # N => Len(f[n]) >= 1 + Len(f[n + 1])
  <2>1. /\ f[n] = Cat(ps[n], Behind(f, n, N)) /\ ps[n] \in Seq(Token) /\ Behind(f, n, N) \in Seq(Token)
    BY <1>1, BehindType DEF Chain
  <2>. DEFINE t == Behind(f, n, N)
  <2>2. /\ Len(f[n]) = Len(ps[n]) + Len(t) /\ Len(ps[n]) \in Nat /\ Len(t) \in Nat
    <3>1. Len(ps[n] \o t) = Len(ps[n]) + Len(t)
      BY <2>1, Concatenated
    <3>2. f[n] = ps[n] \o t
      BY <2>1 DEF Cat
    <3>. HIDE DEF t
    <3>. QED BY <2>1, <3>1, <3>2, LenProperties DEF t
  <2>3. ASSUME n # N
        PROVE  Len(t) >= Len(f[n + 1])
    <3>1. f[n + 1] \in Seq(Token) /\ <<And>> \in Seq(Token)
      BY <1>1, <2>3, AndType DEF Chain
    <3>2. t = <<And>> \o f[n + 1]
      BY <2>3 DEF Behind, Cat
    <3>. DEFINE a == <<And>>
    <3>3. Len(a) \in Nat
      BY <3>1
    <3>. HIDE DEF a
    <3>4. Len(a \o f[n + 1]) = Len(a) + Len(f[n + 1]) /\ Len(f[n + 1]) \in Nat
      BY <3>1, Concatenated, LenProperties DEF a
    <3>5. Len(a \o f[n + 1]) >= Len(f[n + 1])
      BY <3>3, <3>4
    <3>. QED BY <3>2, <3>5, Zenon DEF a
  <2>4. Len(ps[n]) >= 1
    OBVIOUS
  <2>. HIDE DEF t
  <2>5. n # N => Len(f[n + 1]) \in Nat
    <3>1. n # N => f[n + 1] \in Seq(Token)
      BY <1>1 DEF Chain
    <3>. QED BY <3>1, LenProperties
  <2>. QED BY <2>2, <2>3, <2>4, <2>5
<1>3. 0 \in T
  <2>1. SUFFICES ASSUME NEW n \in 1 .. N, n >= N - 0
                 PROVE  Here(n)
    <3>. HIDE DEF Here
    <3>. QED OBVIOUS
  <2>2. n = N
    BY <2>1
  <2>. QED BY <1>2, <2>2
<1>4. \A k \in 0 .. N - 1 : k \in T => k + 1 \in T
  <2>1. SUFFICES ASSUME NEW k \in 0 .. N - 1, k \in T, NEW n \in 1 .. N, n >= N - (k + 1)
                 PROVE  Here(n)
    <3>1. \A k \in 0 .. N - 1 : k + 1 \in Int
      OBVIOUS
    <3>. HIDE DEF Here
    <3>. QED BY <3>1, Zenon
  <2>2. CASE n >= N - k
    <3>. HIDE DEF Here
    <3>. QED BY <2>1, <2>2
  <2>3. CASE ~(n >= N - k)
    <3>1. n + 1 \in 1 .. N /\ n + 1 >= N - k /\ n # N
      BY <2>1, <2>3
    <3>2. Here(n + 1)
      <4>. HIDE DEF Here
      <4>. QED BY <2>1, <3>1
    <3>3. Len(f[n]) >= 1 + Len(f[n + 1]) /\ Len(f[n]) \in Nat /\ Len(f[n + 1]) \in Nat
      BY <1>2, <3>1
    <3>. QED BY <3>1, <3>2, <3>3
  <2>. QED BY <2>2, <2>3
<1>5. 0 .. N \subseteq T
  <2>1. 0 \in Int /\ N \in Int
    OBVIOUS
  <2>. HIDE DEF T
  <2>. QED BY <1>3, <1>4, <2>1, RangeInduction
<1>6. Here(1)
  <2>1. N \in 0 .. N /\ 1 \in 1 .. N /\ 1 >= N - N
    OBVIOUS
  <2>. HIDE DEF Here
  <2>. QED BY <1>5, <2>1
<1>7. f[1] = s /\ Len(f[1]) >= N + 1 - 1 /\ Len(f[1]) \in Nat
  <2>1. 1 \in 1 .. N
    OBVIOUS
  <2>. QED BY <1>1, <1>2, <1>6, <2>1 DEF Chain
<1>. QED BY <1>7

(* The loop ends with every stamped part finished.                         *)
LEMMA TimeReplaced ==
  ASSUME NEW N \in Nat \ {0}, NEW s, NEW ps, NEW fs, Joined(s, ps, N), Finishing(ps, fs, N),
         \A n \in 1 .. N : Len(ps[n]) >= 1
  PROVE  Reached(ReplaceTime(s), ps, fs, N, N)
<1>. DEFINE L == Len(s)
            V == {r \in Seq(Token) : Reached(r, ps, fs, N, 0)}
            step == [x \in V \X Int |-> NextRound(x[1])]
            Solves(f) == f = [round \in 0 .. L |-> IF round = 0 THEN s ELSE NextRound(f[round - 1])]
<1>1. s \in Seq(Token) /\ L \in Nat /\ N <= L
  BY JoinedText, AsLongAsParts, LenProperties
<1>2. Reached(s, ps, fs, N, 0)
  <2>1. Advanced(ps, ps, fs, N, 0)
    BY DEF Advanced
  <2>. QED BY <2>1 DEF Reached
<1>3. ASSUME NEW r, NEW k \in Nat, Reached(r, ps, fs, N, k)
      PROVE  r \in V
  <2>1. PICK qs : Joined(r, qs, N) /\ Advanced(qs, ps, fs, N, k)
    BY <1>3 DEF Reached
  <2>2. Advanced(qs, ps, fs, N, 0)
    BY <2>1 DEF Advanced
  <2>3. r \in Seq(Token)
    BY <2>1, JoinedText
  <2>. QED BY <2>1, <2>2, <2>3 DEF Reached
<1>4. ASSUME NEW r \in V
      PROVE  NextRound(r) \in V
  <2>1. 0 \in Nat /\ 0 + 1 \in Nat /\ Reached(r, ps, fs, N, 0)
    OBVIOUS
  <2>2. Reached(NextRound(r), ps, fs, N, 0 + 1)
    BY <2>1, OneRound
  <2>. HIDE DEF V
  <2>. QED BY <1>3, <2>1, <2>2
<1>5. s \in V
  BY <1>1, <1>2
<1>6. step \in [V \X Int -> V]
  <2>. HIDE DEF V
  <2>. QED BY <1>4
<1>7. PICK F \in [0 .. L -> V] : Recursion(F, 0, L, s, step)
  <2>1. 0 \in Int /\ L \in Int
    BY <1>1
  <2>. HIDE DEF step, V, L
  <2>. QED BY <1>5, <1>6, <2>1, RangeRecursion
<1>8. Solves(F)
  <2>1. ASSUME NEW i \in 0 .. L
        PROVE  F[i] = IF i = 0 THEN s ELSE NextRound(F[i - 1])
    <3>1. F[i] = IF i = 0 THEN s ELSE step[<<F[i - 1], i>>]
      <4>. HIDE DEF step, L
      <4>. QED BY <1>7 DEF Recursion
    <3>2. ASSUME i # 0
          PROVE  F[i - 1] \in V /\ i \in Int
      <4>1. i - 1 \in 0 .. L /\ i \in Int
        BY <1>1, <3>2
      <4>. HIDE DEF V, L
      <4>. QED BY <4>1
    <3>3. i # 0 => step[<<F[i - 1], i>>] = NextRound(F[i - 1])
      <4>. HIDE DEF V
      <4>. QED BY <3>2
    <3>. HIDE DEF step
    <3>. QED BY <3>1, <3>3
  <2>2. F = [i \in 0 .. L |-> F[i]]
    <3>. HIDE DEF V, L
    <3>. QED OBVIOUS
  <2>. HIDE DEF V, L
  <2>. QED BY <2>1, <2>2
<1>. DEFINE after == CHOOSE f : Solves(f)
<1>9. Solves(after)
  <2>. HIDE DEF Solves
  <2>. QED BY <1>8
<1>10. ReplaceTime(s) = after[L]
  BY Zenon DEF ReplaceTime, NextRound
<1>11. \A k \in 0 .. L : after[k] = IF k = 0 THEN s ELSE NextRound(after[k - 1])
  <2>. HIDE DEF after, L
  <2>. QED BY <1>9
<1>. HIDE DEF after
<1>. DEFINE T == {k \in Int : Reached(after[k], ps, fs, N, k)}
<1>12. 0 \in T
  <2>1. 0 \in 0 .. L
    BY <1>1
  <2>2. after[0] = s
    BY <1>11, <2>1
  <2>. QED BY <1>2, <2>2
<1>13. \A k \in 0 .. L - 1 : k \in T => k + 1 \in T
  <2>1. SUFFICES ASSUME NEW k \in 0 .. L - 1, Reached(after[k], ps, fs, N, k)
                 PROVE  Reached(after[k + 1], ps, fs, N, k + 1)
    OBVIOUS
  <2>2. k \in Nat /\ k + 1 \in 0 .. L /\ k + 1 # 0 /\ k + 1 - 1 = k
    BY <1>1
  <2>3. after[k + 1] = NextRound(after[k])
    <3>1. after[k + 1] = NextRound(after[k + 1 - 1])
      <4>. HIDE DEF L
      <4>. QED BY <1>11, <2>2
    <3>. QED BY <2>2, <3>1
  <2>4. Reached(NextRound(after[k]), ps, fs, N, k + 1)
    BY <2>1, <2>2, OneRound
  <2>. QED BY <2>3, <2>4
<1>14. 0 .. L \subseteq T
  <2>1. 0 \in Int /\ L \in Int
    BY <1>1
  <2>. HIDE DEF T, L
  <2>. QED BY <1>12, <1>13, <2>1, RangeInduction
<1>15. Reached(after[L], ps, fs, N, L)
  <2>1. L \in 0 .. L
    BY <1>1
  <2>2. L \in T
    <3>. HIDE DEF T, L
    <3>. QED BY <1>14, <2>1
  <2>. QED BY <2>2
<1>16. PICK qs : Joined(after[L], qs, N) /\ Advanced(qs, ps, fs, N, L)
  BY <1>15 DEF Reached
<1>17. Advanced(qs, ps, fs, N, N)
  BY <1>1, <1>16 DEF Advanced
<1>. QED BY <1>10, <1>16, <1>17 DEF Reached

-----------------------------------------------------------------------------
(* A stamp that was typed is read as it was meant.                         *)
TypedStamp(s, st, n) ==
  /\ s \in Seq(Token) /\ Len(s) = 2 * n - 1
  /\ \A i \in 1 .. n : s[2 * i - 1] = Number(st[i])
  /\ \A i \in 1 .. n - 1 : s[2 * i] = Separators[i]

(* The marks behind the fields, one by one.                                *)
LEMMA SeparatorsEach ==
  /\ Separators[1] = Mark(".") /\ Separators[2] = Mark(".") /\ Separators[3] = Mark(" ")
  /\ Separators[4] = Mark(":") /\ Separators[5] = Mark(":") /\ Separators[6] = Mark(".")
BY DEF Separators

(* The marks are tokens, and none of the key words, the numbers, the       *)
(* quotation mark and AND.                                                 *)
LEMMA MarkTokens ==
  \A i \in 1 .. 6 : /\ Separators[i] \in Token /\ Separators[i] \notin {Quote, And, Key("Time")}
                    /\ (\A k : Separators[i] # Key(k)) /\ \A x : Separators[i] # Number(x)
<1>1. ASSUME NEW i \in 1 .. 6
      PROVE  Separators[i] \in {Mark("."), Mark(" "), Mark(":")}
  <2>1. i = 1 \/ i = 2 \/ i = 3 \/ i = 4 \/ i = 5 \/ i = 6
    OBVIOUS
  <2>. QED BY <2>1, SeparatorsEach
<1>2. \A m \in {".", " ", ":"} :
        /\ Mark(m) \in Token /\ Mark(m) # Quote /\ Mark(m) # And
        /\ (\A k : Mark(m) # Key(k)) /\ \A x : Mark(m) # Number(x)
  BY DEF Mark, Quote, And, Key, Number, Token
<1>. QED BY <1>1, <1>2

(* A stamp typed up to its n-th field has its numbers and marks in turn.   *)
LEMMA StampTyped ==
  ASSUME NEW st \in [FieldNames -> Nat], NEW n \in 1 .. 7
  PROVE  TypedStamp(SubSeq(StampText(st), 1, 2 * n - 1), st, n)
<1>. DEFINE s == StampText(st)
<1>1. /\ Len(s) = 13
      /\ s[1] = Number(st[1]) /\ s[3] = Number(st[2]) /\ s[5] = Number(st[3]) /\ s[7] = Number(st[4])
      /\ s[9] = Number(st[5]) /\ s[11] = Number(st[6]) /\ s[13] = Number(st[7])
      /\ s[2] = Mark(".") /\ s[4] = Mark(".") /\ s[6] = Mark(" ")
      /\ s[8] = Mark(":") /\ s[10] = Mark(":") /\ s[12] = Mark(".")
  BY DEF StampText
<1>2. \A i \in 1 .. 7 : st[i] \in Nat /\ Number(st[i]) \in Token
  BY TokenTypes DEF FieldNames
<1>3. s \in Seq(Token)
  <2>1. ASSUME NEW a1 \in Token, NEW a2 \in Token, NEW a3 \in Token, NEW a4 \in Token,
               NEW a5 \in Token, NEW a6 \in Token, NEW a7 \in Token, NEW a8 \in Token,
               NEW a9 \in Token, NEW a10 \in Token, NEW a11 \in Token, NEW a12 \in Token,
               NEW a13 \in Token
        PROVE  <<a1, a2, a3, a4, a5, a6, a7, a8, a9, a10, a11, a12, a13>> \in Seq(Token)
    OBVIOUS
  <2>2. Mark(".") \in Token /\ Mark(" ") \in Token /\ Mark(":") \in Token
    BY DEF Token
  <2>3. /\ Number(st[1]) \in Token /\ Number(st[2]) \in Token /\ Number(st[3]) \in Token
        /\ Number(st[4]) \in Token /\ Number(st[5]) \in Token /\ Number(st[6]) \in Token
        /\ Number(st[7]) \in Token
    BY <1>2
  <2>. QED BY <2>1, <2>2, <2>3 DEF StampText
<1>. HIDE DEF s
<1>4. \A i \in 1 .. 7 : s[2 * i - 1] = Number(st[i])
  <2>1. SUFFICES ASSUME NEW i \in 1 .. 7 PROVE s[2 * i - 1] = Number(st[i])
    OBVIOUS
  <2>2. i = 1 \/ i = 2 \/ i = 3 \/ i = 4 \/ i = 5 \/ i = 6 \/ i = 7
    OBVIOUS
  <2>3. /\ 2 * 1 - 1 = 1 /\ 2 * 2 - 1 = 3 /\ 2 * 3 - 1 = 5 /\ 2 * 4 - 1 = 7
        /\ 2 * 5 - 1 = 9 /\ 2 * 6 - 1 = 11 /\ 2 * 7 - 1 = 13
    OBVIOUS
  <2>. QED BY <1>1, <2>2, <2>3, Zenon
<1>5. \A i \in 1 .. 6 : s[2 * i] = Separators[i]
  <2>1. SUFFICES ASSUME NEW i \in 1 .. 6 PROVE s[2 * i] = Separators[i]
    OBVIOUS
  <2>2. i = 1 \/ i = 2 \/ i = 3 \/ i = 4 \/ i = 5 \/ i = 6
    OBVIOUS
  <2>3. 2 * 1 = 2 /\ 2 * 2 = 4 /\ 2 * 3 = 6 /\ 2 * 4 = 8 /\ 2 * 5 = 10 /\ 2 * 6 = 12
    OBVIOUS
  <2>. QED BY <1>1, <2>2, <2>3, SeparatorsEach, Zenon
<1>. DEFINE b == 2 * n - 1
            w == SubSeq(s, 1, b)
<1>6. 1 \in 1 .. Len(s) + 1 /\ b \in 1 - 1 .. Len(s) /\ b + 1 - 1 = b /\ Len(s) = 13
  <2>1. Len(s) = 13
    BY <1>1
  <2>2. b \in Int /\ 1 <= b /\ b <= 13
    OBVIOUS
  <2>. HIDE DEF b
  <2>. QED BY <2>1, <2>2
<1>7. w \in Seq(Token) /\ Len(w) = b /\ \A k \in 1 .. b : w[k] = s[k]
  <2>1. w \in Seq(Token) /\ Len(w) = b + 1 - 1 /\ \A k \in 1 .. b + 1 - 1 : w[k] = s[1 + k - 1]
    <3>. HIDE DEF b
    <3>. QED BY <1>3, <1>6, Stretch
  <2>2. \A k \in 1 .. b : 1 + k - 1 = k
    OBVIOUS
  <2>. HIDE DEF w, b
  <2>. QED BY <1>6, <2>1, <2>2
<1>. HIDE DEF w
<1>8. ASSUME NEW i \in 1 .. n
      PROVE  w[2 * i - 1] = Number(st[i])
  <2>1. 2 * i - 1 \in 1 .. b /\ i \in 1 .. 7
    OBVIOUS
  <2>. HIDE DEF b
  <2>. QED BY <1>4, <1>7, <2>1
<1>9. ASSUME NEW i \in 1 .. n - 1
      PROVE  w[2 * i] = Separators[i]
  <2>1. 2 * i \in 1 .. b /\ i \in 1 .. 6
    OBVIOUS
  <2>. HIDE DEF b
  <2>. QED BY <1>5, <1>7, <2>1
<1>10. TypedStamp(w, st, n)
  BY <1>7, <1>8, <1>9 DEF TypedStamp
<1>. QED BY <1>10, Zenon DEF w, s

(* The tokens of such a stamp are numbers and marks.                       *)
LEMMA StampTokens ==
  ASSUME NEW s, NEW st, NEW n \in 1 .. 7, TypedStamp(s, st, n)
  PROVE  \A x \in {Quote, And, Key("Time")} \cup {Key(k) : k \in DOMAIN Column} : x \notin Tokens(s)
<1>1. "Time" \in DOMAIN Column
  BY DEF Column
<1>2. ASSUME NEW j \in 1 .. Len(s)
      PROVE  s[j] \notin {Quote, And, Key("Time")} \cup {Key(k) : k \in DOMAIN Column}
  <2>1. Len(s) = 2 * n - 1
    BY DEF TypedStamp
  <2>2. CASE \E i \in 1 .. n : j = 2 * i - 1
    <3>1. PICK i \in 1 .. n : j = 2 * i - 1
      BY <2>2
    <3>2. s[j] = Number(st[i])
      BY <3>1 DEF TypedStamp
    <3>. QED BY <1>1, <3>2, TokensDiffer
  <2>3. CASE \E i \in 1 .. n - 1 : j = 2 * i
    <3>1. PICK i \in 1 .. n - 1 : j = 2 * i
      BY <2>3
    <3>2. s[j] = Separators[i] /\ i \in 1 .. 6
      BY <3>1 DEF TypedStamp
    <3>. QED BY <3>2, MarkTokens
  <2>4. (\E i \in 1 .. n : j = 2 * i - 1) \/ \E i \in 1 .. n - 1 : j = 2 * i
    <3>1. j \in Nat /\ j >= 1 /\ j <= 2 * n - 1
      BY <2>1
    <3>2. PICK h \in Nat : j = 2 * h \/ j = 2 * h + 1
      <4>1. j \div 2 \in Nat /\ (j = 2 * (j \div 2) \/ j = 2 * (j \div 2) + 1)
        BY <3>1
      <4>. QED BY <4>1
    <3>3. CASE j = 2 * h
      <4>1. h \in 1 .. n - 1
        BY <3>1, <3>3
      <4>. QED BY <3>3, <4>1
    <3>4. CASE j = 2 * h + 1
      <4>1. h + 1 \in 1 .. n /\ j = 2 * (h + 1) - 1
        BY <3>1, <3>4
      <4>. QED BY <4>1
    <3>. QED BY <3>2, <3>3, <3>4
  <2>. QED BY <2>2, <2>3, <2>4
<1>. QED BY <1>2 DEF Tokens

-----------------------------------------------------------------------------
(* Where its fields end.                                                   *)
MarksBehind(s, e, i) == {j \in e + 1 .. Len(s) : i <= 6 /\ s[j] = Separators[i]}

NextEnd(s, e, i) == LET marks == MarksBehind(s, e, i) IN IF marks = {} THEN Len(s) + 1 ELSE Min(marks)

(* The recursion of FieldEnds has the values its definition says.          *)
LEMMA EndsOneByOne ==
  ASSUME NEW s \in Seq(Token)
  PROVE  FieldEnds(s)[0] = 0 /\ \A i \in 1 .. 7 : FieldEnds(s)[i] = NextEnd(s, FieldEnds(s)[i - 1], i)
<1>. DEFINE step == [x \in Nat \X Int |-> NextEnd(s, x[1], x[2])]
            Solves(f) == f = [i \in 0 .. 7 |-> IF i = 0 THEN 0 ELSE NextEnd(s, f[i - 1], i)]
<1>1. Len(s) \in Nat
  BY LenProperties
<1>2. ASSUME NEW e \in Nat, NEW i \in Int
      PROVE  NextEnd(s, e, i) \in Nat
  <2>. DEFINE marks == MarksBehind(s, e, i)
  <2>1. marks \in SUBSET Nat
    BY <1>1 DEF MarksBehind
  <2>2. CASE marks = {}
    BY <1>1, <2>2 DEF NextEnd
  <2>3. CASE marks # {}
    <3>. HIDE DEF marks
    <3>1. PICK m \in marks : \A j \in marks : m <= j
      BY <2>1, <2>3, LeastElement
    <3>2. Min(marks) = m
      <4>1. marks \subseteq Int
        BY <2>1
      <4>. QED BY <3>1, <4>1, LeastIs
    <3>. QED BY <2>1, <2>3, <3>2 DEF NextEnd, marks
  <2>. QED BY <2>2, <2>3
<1>3. step \in [Nat \X Int -> Nat]
  BY <1>2
<1>4. PICK F \in [0 .. 7 -> Nat] : Recursion(F, 0, 7, 0, step)
  <2>1. 0 \in Int /\ 7 \in Int /\ 0 \in Nat
    OBVIOUS
  <2>. HIDE DEF step
  <2>. QED BY <1>3, <2>1, RangeRecursion
<1>5. Solves(F)
  <2>1. ASSUME NEW i \in 0 .. 7
        PROVE  F[i] = IF i = 0 THEN 0 ELSE NextEnd(s, F[i - 1], i)
    <3>1. F[i] = IF i = 0 THEN 0 ELSE step[<<F[i - 1], i>>]
      <4>. HIDE DEF step
      <4>. QED BY <1>4 DEF Recursion
    <3>2. i # 0 => F[i - 1] \in Nat /\ i \in Int
      OBVIOUS
    <3>3. i # 0 => step[<<F[i - 1], i>>] = NextEnd(s, F[i - 1], i)
      BY <3>2
    <3>. HIDE DEF step
    <3>. QED BY <3>1, <3>3
  <2>. QED BY <2>1
<1>. DEFINE end == CHOOSE f : Solves(f)
<1>6. Solves(end)
  <2>. HIDE DEF Solves
  <2>. QED BY <1>5
<1>7. FieldEnds(s) = end
  BY Zenon DEF FieldEnds, NextEnd, MarksBehind
<1>8. \A i \in 0 .. 7 : end[i] = IF i = 0 THEN 0 ELSE NextEnd(s, end[i - 1], i)
  <2>. HIDE DEF end
  <2>. QED BY <1>6
<1>. HIDE DEF end
<1>. QED BY <1>7, <1>8

(* The end of a field of a typed stamp is its mark, and behind the last    *)
(* field the end of the text.                                              *)
LEMMA EndsTyped ==
  ASSUME NEW s, NEW st, NEW n \in 1 .. 7, TypedStamp(s, st, n)
  PROVE  \A i \in 0 .. 7 : FieldEnds(s)[i] = IF i < n THEN 2 * i ELSE 2 * n
<1>. DEFINE end == FieldEnds(s)
            T == {i \in Int : end[i] = IF i < n THEN 2 * i ELSE 2 * n}
<1>1. /\ s \in Seq(Token) /\ Len(s) = 2 * n - 1
      /\ \A i \in 1 .. n : s[2 * i - 1] = Number(st[i])
      /\ \A i \in 1 .. n - 1 : s[2 * i] = Separators[i]
  BY DEF TypedStamp
<1>2. end[0] = 0 /\ \A i \in 1 .. 7 : end[i] = NextEnd(s, end[i - 1], i)
  BY <1>1, EndsOneByOne
<1>. HIDE DEF end
<1>3. 0 \in T
  BY <1>2
<1>4. \A k \in 0 .. 7 - 1 : k \in T => k + 1 \in T
  <2>1. SUFFICES ASSUME NEW k \in 0 .. 6, end[k] = IF k < n THEN 2 * k ELSE 2 * n
                 PROVE  end[k + 1] = IF k + 1 < n THEN 2 * (k + 1) ELSE 2 * n
    OBVIOUS
  <2>. DEFINE e == end[k]
              i == k + 1
              marks == MarksBehind(s, e, i)
  <2>2. i \in 1 .. 7 /\ i - 1 = k
    OBVIOUS
  <2>3. end[i] = NextEnd(s, e, i)
    <3>1. end[i] = NextEnd(s, end[i - 1], i)
      <4>. HIDE DEF i
      <4>. QED BY <1>2, <2>2
    <3>. QED BY <2>2, <3>1
  <2>4. CASE i < n
    <3>1. e = 2 * i - 2 /\ i \in 1 .. 6 /\ i \in 1 .. n /\ i \in 1 .. n - 1 /\ i <= 6
      BY <2>1, <2>4
    <3>2. s[2 * i] = Separators[i] /\ s[2 * i - 1] # Separators[i]
      <4>1. s[2 * i - 1] = Number(st[i]) /\ s[2 * i] = Separators[i]
        <5>. HIDE DEF i
        <5>. QED BY <1>1, <3>1
      <4>. HIDE DEF i
      <4>. QED BY <3>1, <4>1, MarkTokens
    <3>3. 2 * i \in marks
      <4>1. 2 * i \in e + 1 .. Len(s)
        BY <1>1, <3>1, <2>4
      <4>. HIDE DEF i, e
      <4>. QED BY <3>1, <3>2, <4>1 DEF MarksBehind
    <3>4. \A j \in marks : j \in Int /\ 2 * i <= j
      <4>1. SUFFICES ASSUME NEW j \in e + 1 .. Len(s), s[j] = Separators[i] PROVE j \in Int /\ 2 * i <= j
        BY DEF MarksBehind
      <4>2. j \in Int /\ j >= 2 * i - 1
        BY <1>1, <3>1, <4>1
      <4>3. j # 2 * i - 1
        <5>. HIDE DEF i, e
        <5>. QED BY <3>2, <4>1
      <4>. QED BY <4>2, <4>3
    <3>5. Min(marks) = 2 * i
      <4>. HIDE DEF marks, i
      <4>. QED BY <3>3, <3>4, LeastIs
    <3>6. NextEnd(s, e, i) = 2 * i
      <4>. HIDE DEF e, i
      <4>. QED BY <3>3, <3>5 DEF NextEnd
    <3>. QED BY <2>3, <2>4, <3>6
  <2>5. CASE ~(i < n)
    <3>1. marks = {}
      <4>1. SUFFICES ASSUME NEW j \in e + 1 .. Len(s), i <= 6, s[j] = Separators[i] PROVE FALSE
        BY DEF MarksBehind
      <4>2. j = 2 * n - 1 /\ i = n
        BY <1>1, <2>1, <2>5, <4>1
      <4>3. s[j] = Number(st[n]) /\ n \in 1 .. 6
        BY <1>1, <4>1, <4>2
      <4>4. s[j] = Separators[n]
        BY <4>1, <4>2
      <4>. QED BY <4>3, <4>4, MarkTokens
    <3>2. NextEnd(s, e, i) = Len(s) + 1
      <4>. HIDE DEF e, i
      <4>. QED BY <3>1 DEF NextEnd
    <3>3. Len(s) + 1 = 2 * n
      BY <1>1
    <3>. QED BY <2>3, <2>5, <3>2, <3>3
  <2>. QED BY <2>4, <2>5
<1>5. 0 .. 7 \subseteq T
  <2>1. 0 \in Int /\ 7 \in Int
    OBVIOUS
  <2>. HIDE DEF T
  <2>. QED BY <1>3, <1>4, <2>1, RangeInduction
<1>. QED BY <1>5 DEF end

(* The share of a field in the number of a stamp.                          *)
Share(s, i) == Units[i] * s[i]

(* Multiplication is monotone, which the provers are told of here only.    *)
LEMMA Product ==
  /\ \A u, x \in Nat : u * x \in Nat /\ u * 0 = 0
  /\ \A u, x, y \in Nat : x <= y => u * x <= u * y
  /\ \A u, x, y \in Nat : x < y => u * x + u <= u * y
<1>1. ASSUME NEW u \in Nat, NEW x \in Nat
      PROVE  u * x \in Nat /\ u * 0 = 0
  OBVIOUS
<1>2. ASSUME NEW u \in Nat, NEW x \in Nat, NEW d \in Nat
      PROVE  u * (x + d) = u * x + u * d
  OBVIOUS
<1>3. ASSUME NEW u \in Nat, NEW x \in Nat, NEW y \in Nat, x <= y
      PROVE  u * x <= u * y
  <2>1. PICK d \in Nat : y = x + d
    <3>1. y - x \in Nat /\ y = x + (y - x)
      BY <1>3
    <3>. QED BY <3>1
  <2>2. u * y = u * x + u * d /\ u * d \in Nat /\ u * x \in Nat
    BY <1>1, <1>2, <2>1
  <2>. QED BY <2>2
<1>4. ASSUME NEW u \in Nat, NEW x \in Nat, NEW y \in Nat, x < y
      PROVE  u * x + u <= u * y
  <2>1. u * (x + 1) <= u * y
    BY <1>3, <1>4
  <2>2. u * (x + 1) = u * x + u
    BY <1>2
  <2>. QED BY <2>1, <2>2
<1>. QED BY <1>1, <1>3, <1>4

(* The number of a stamp is the sum of the shares of its fields.           *)
LEMMA Shares ==
  ASSUME NEW s \in [FieldNames -> Nat]
  PROVE  /\ \A i \in 1 .. 7 : Share(s, i) \in Nat
         /\ Moment(s) = Share(s, 1) + Share(s, 2) + Share(s, 3) + Share(s, 4) + Share(s, 5)
                          + Share(s, 6) + Share(s, 7)
<1>1. \A i \in 1 .. 7 : Units[i] \in Nat /\ s[i] \in Nat
  BY SearchTextAssumption DEF FieldNames
<1>. QED BY <1>1, Product DEF Share, Moment

(* The number of a stamp is a natural number.                              *)
LEMMA MomentType ==
  ASSUME NEW s \in [FieldNames -> Nat]
  PROVE  Moment(s) \in Nat
<1>1. 1 \in 1 .. 7 /\ 2 \in 1 .. 7 /\ 3 \in 1 .. 7 /\ 4 \in 1 .. 7 /\ 5 \in 1 .. 7 /\ 6 \in 1 .. 7
      /\ 7 \in 1 .. 7
  OBVIOUS
<1>. QED BY <1>1, Shares

(* A text of numbers is read as the first of them.                         *)
LEMMA FieldRead ==
  ASSUME NEW s, NEW st, NEW n \in 1 .. 7, TypedStamp(s, st, n), NEW i \in 1 .. n
  PROVE  Atoi(SubSeq(s, 2 * i - 1, 2 * i - 1)) = st[i]
<1>. DEFINE b == 2 * i - 1
            a == <<Number(st[i])>>
<1>1. s \in Seq(Token) /\ Len(s) = 2 * n - 1 /\ s[b] = Number(st[i])
  BY DEF TypedStamp
<1>2. b \in 1 .. Len(s) /\ b \in 1 .. Len(s) + 1 /\ b \in b - 1 .. Len(s) /\ b + 1 - b = 1 /\ b + 1 - 1 = b
  BY <1>1
<1>3. Number(st[i]) \in Token
  BY <1>1, <1>2, ElementOfSeq
<1>4. a \in Seq(Token) /\ Len(a) = 1 /\ a[1] = Number(st[i])
  BY <1>3
<1>. HIDE DEF a, b
<1>5. \A k \in 1 .. Len(a) : s[b + k - 1] = a[k]
  BY <1>1, <1>2, <1>4
<1>6. SubSeq(s, b, b) = a
  BY <1>1, <1>2, <1>4, <1>5, Between
<1>7. Atoi(a) = st[i]
  <2>1. Number(st[i])[1] = "number" /\ Number(st[i])[2] = st[i]
    BY DEF Number
  <2>2. a # << >>
    BY DEF a
  <2>. QED BY <1>4, <2>1, <2>2 DEF Atoi
<1>. QED BY <1>6, <1>7, Zenon DEF b

(* A stamp is read as the number of what was typed, without its last field *)
(* when that is no second.                                                 *)
ReadOf(st, n) == [i \in FieldNames |-> IF i < n \/ (i = n /\ n >= 6) THEN st[i] ELSE 0]

LEMMA StampRead ==
  ASSUME NEW st \in [FieldNames -> Nat], NEW n \in 1 .. 7, NEW s, TypedStamp(s, st, n)
  PROVE  /\ ReadStamp(s) \in Nat
         /\ ReadStamp(s) = Moment(ReadOf(st, n))
<1>. DEFINE end == FieldEnds(s)
            counts(i) == end[IF i <= 5 THEN i ELSE i - 1] <= Len(s)
            field(i) == IF counts(i) THEN Atoi(SubSeq(s, end[i - 1] + 1, end[i] - 1)) ELSE 0
            read == [i \in FieldNames |-> field(i)]
            value(i) == IF i < n \/ (i = n /\ n >= 6) THEN st[i] ELSE 0
<1>1. ReadStamp(s) = Moment(read)
  BY DEF ReadStamp
<1>2. Len(s) = 2 * n - 1 /\ \A i \in 0 .. 7 : end[i] = IF i < n THEN 2 * i ELSE 2 * n
  <2>1. Len(s) = 2 * n - 1
    BY DEF TypedStamp
  <2>2. \A i \in 0 .. 7 : FieldEnds(s)[i] = IF i < n THEN 2 * i ELSE 2 * n
    BY EndsTyped
  <2>. QED BY <2>1, <2>2
<1>. HIDE DEF end
<1>3. ASSUME NEW i \in 1 .. 7
      PROVE  field(i) = value(i)
  <2>1. i \in 0 .. 7 /\ i - 1 \in 0 .. 7
    OBVIOUS
  <2>2. end[i] = IF i < n THEN 2 * i ELSE 2 * n
    BY <1>2, <2>1
  <2>3. end[i - 1] = IF i - 1 < n THEN 2 * (i - 1) ELSE 2 * n
    BY <1>2, <2>1
  <2>4. CASE i > n
    <3>1. ~counts(i)
      BY <1>2, <2>2, <2>3, <2>4
    <3>. QED BY <2>4, <3>1
  <2>5. CASE i <= n
    <3>1. end[i - 1] + 1 = 2 * i - 1 /\ end[i] - 1 = 2 * i - 1
      BY <2>2, <2>3, <2>5
    <3>2. Atoi(SubSeq(s, 2 * i - 1, 2 * i - 1)) = st[i]
      <4>1. i \in 1 .. n
        BY <2>5
      <4>. QED BY <4>1, FieldRead
    <3>3. Atoi(SubSeq(s, end[i - 1] + 1, end[i] - 1)) = st[i]
      BY <3>1, <3>2
    <3>4. counts(i) <=> i < n \/ (i = n /\ n >= 6)
      BY <1>2, <2>2, <2>3, <2>5
    <3>. HIDE DEF counts
    <3>. QED BY <2>5, <3>3, <3>4
  <2>. QED BY <2>4, <2>5
<1>4. ASSUME NEW i \in FieldNames
      PROVE  field(i) = value(i) /\ value(i) \in Nat
  <2>1. i \in 1 .. 7 /\ st[i] \in Nat
    BY DEF FieldNames
  <2>2. value(i) \in Nat
    BY <2>1
  <2>. HIDE DEF field, value
  <2>. QED BY <1>3, <2>1, <2>2
<1>5. read = ReadOf(st, n) /\ read \in [FieldNames -> Nat]
  <2>1. ReadOf(st, n) = [i \in FieldNames |-> value(i)]
    BY DEF ReadOf
  <2>. HIDE DEF field, value
  <2>. QED BY <1>4, <2>1
<1>. HIDE DEF read
<1>. QED BY <1>1, <1>5, MomentType

-----------------------------------------------------------------------------
(* The numbers of stamps are in the order of the moments.                  *)
Orderly(s) == \A k \in FieldNames : Moment(Below(s, k)) < Units[Significance[k]]

(* The fields from the year down, one by one.                              *)
LEMMA SignificanceEach ==
  /\ Significance[1] = 3 /\ Significance[2] = 2 /\ Significance[3] = 1 /\ Significance[4] = 4
  /\ Significance[5] = 5 /\ Significance[6] = 6 /\ Significance[7] = 7
BY DEF Significance

(* The fields below a field, in the order of their significance.           *)
LEMMA BelowFields ==
  ASSUME NEW s \in [FieldNames -> Nat], NEW k \in 1 .. 7
  PROVE  /\ Below(s, k) \in [FieldNames -> Nat]
         /\ \A i \in 1 .. 7 : Below(s, k)[Significance[i]] = IF i > k THEN s[Significance[i]] ELSE 0
<1>1. Below(s, k) \in [FieldNames -> Nat]
  BY DEF Below
<1>2. ASSUME NEW i \in 1 .. 7
      PROVE  /\ Significance[i] \in FieldNames
             /\ (\E j \in k + 1 .. 7 : Significance[j] = Significance[i]) <=> i > k
  <2>1. Significance[i] \in FieldNames
    <3>1. i = 1 \/ i = 2 \/ i = 3 \/ i = 4 \/ i = 5 \/ i = 6 \/ i = 7
      OBVIOUS
    <3>. QED BY <3>1, SignificanceEach DEF FieldNames
  <2>2. \A j \in 1 .. 7 : Significance[j] = Significance[i] => j = i
    <3>1. \A j \in 1 .. 7 : j = 1 \/ j = 2 \/ j = 3 \/ j = 4 \/ j = 5 \/ j = 6 \/ j = 7
      OBVIOUS
    <3>. QED BY <3>1, SignificanceEach
  <2>3. \A j \in k + 1 .. 7 : j \in 1 .. 7
    OBVIOUS
  <2>4. i > k => i \in k + 1 .. 7
    OBVIOUS
  <2>5. i \in k + 1 .. 7 => i > k
    OBVIOUS
  <2>6. (\E j \in k + 1 .. 7 : Significance[j] = Significance[i]) => i > k
    BY <2>2, <2>3, <2>5
  <2>. QED BY <2>1, <2>4, <2>6
<1>3. \A i \in 1 .. 7 : Below(s, k)[Significance[i]] = IF i > k THEN s[Significance[i]] ELSE 0
  BY <1>2 DEF Below
<1>. QED BY <1>1, <1>3

(* The shares of the fields, from the year down.                           *)
Weight(s, i) == Units[Significance[i]] * s[Significance[i]]

(* The number of a stamp as a sum from the year down.                      *)
LEMMA Weights ==
  ASSUME NEW s \in [FieldNames -> Nat]
  PROVE  /\ \A i \in 1 .. 7 : Weight(s, i) \in Nat
         /\ Moment(s) = Weight(s, 1) + Weight(s, 2) + Weight(s, 3) + Weight(s, 4) + Weight(s, 5)
                          + Weight(s, 6) + Weight(s, 7)
<1>1. /\ Weight(s, 1) = Share(s, 3) /\ Weight(s, 2) = Share(s, 2) /\ Weight(s, 3) = Share(s, 1)
      /\ Weight(s, 4) = Share(s, 4) /\ Weight(s, 5) = Share(s, 5) /\ Weight(s, 6) = Share(s, 6)
      /\ Weight(s, 7) = Share(s, 7)
  BY SignificanceEach DEF Weight, Share
<1>2. /\ Share(s, 1) \in Nat /\ Share(s, 2) \in Nat /\ Share(s, 3) \in Nat /\ Share(s, 4) \in Nat
      /\ Share(s, 5) \in Nat /\ Share(s, 6) \in Nat /\ Share(s, 7) \in Nat
      /\ Moment(s) = Share(s, 1) + Share(s, 2) + Share(s, 3) + Share(s, 4) + Share(s, 5)
                       + Share(s, 6) + Share(s, 7)
  BY Shares
<1>3. \A i \in 1 .. 7 : i = 1 \/ i = 2 \/ i = 3 \/ i = 4 \/ i = 5 \/ i = 6 \/ i = 7
  OBVIOUS
<1>. QED BY <1>1, <1>2, <1>3

(* The larger a field, the larger its share, by a unit at least.           *)
LEMMA WeightOrder ==
  ASSUME NEW s \in [FieldNames -> Nat], NEW t \in [FieldNames -> Nat], NEW i \in 1 .. 7
  PROVE  /\ s[Significance[i]] = t[Significance[i]] => Weight(s, i) = Weight(t, i)
         /\ s[Significance[i]] <= t[Significance[i]] => Weight(s, i) <= Weight(t, i)
         /\ s[Significance[i]] < t[Significance[i]]
              => Weight(s, i) + Units[Significance[i]] <= Weight(t, i)
         /\ Units[Significance[i]] \in Nat
<1>1. Significance[i] \in FieldNames
  <2>1. i = 1 \/ i = 2 \/ i = 3 \/ i = 4 \/ i = 5 \/ i = 6 \/ i = 7
    OBVIOUS
  <2>. QED BY <2>1, SignificanceEach DEF FieldNames
<1>2. Units[Significance[i]] \in Nat /\ s[Significance[i]] \in Nat /\ t[Significance[i]] \in Nat
  BY <1>1, SearchTextAssumption
<1>. QED BY <1>2, Product DEF Weight

(* The shares of the fields below a field.                                 *)
LEMMA BelowWeights ==
  ASSUME NEW s \in [FieldNames -> Nat], NEW k \in 1 .. 7, NEW i \in 1 .. 7
  PROVE  Weight(Below(s, k), i) = IF i > k THEN Weight(s, i) ELSE 0
<1>1. Below(s, k)[Significance[i]] = IF i > k THEN s[Significance[i]] ELSE 0
  BY BelowFields
<1>2. Significance[i] \in FieldNames
  <2>1. i = 1 \/ i = 2 \/ i = 3 \/ i = 4 \/ i = 5 \/ i = 6 \/ i = 7
    OBVIOUS
  <2>. QED BY <2>1, SignificanceEach DEF FieldNames
<1>3. Units[Significance[i]] \in Nat
  BY <1>2, SearchTextAssumption
<1>4. Units[Significance[i]] * 0 = 0
  BY <1>3, Product
<1>. QED BY <1>1, <1>4 DEF Weight

(* What the first field that differs decides, whatever is behind it.       *)
LEMMA Decided ==
  ASSUME NEW s \in [FieldNames -> Nat], NEW t \in [FieldNames -> Nat], NEW k \in 1 .. 7,
         Orderly(s), s[Significance[k]] < t[Significance[k]],
         \A j \in 1 .. k - 1 : s[Significance[j]] = t[Significance[j]]
  PROVE  Moment(s) < Moment(t)
<1>. DEFINE u == Units[Significance[k]]
            b(i) == IF i > k THEN Weight(s, i) ELSE 0
<1>1. u \in Nat /\ Weight(s, k) + u <= Weight(t, k)
  BY WeightOrder
<1>2. \A i \in 1 .. 7 : Weight(s, i) \in Nat /\ Weight(t, i) \in Nat
  BY Weights
<1>3. ASSUME NEW j \in 1 .. 7, j < k
      PROVE  Weight(s, j) = Weight(t, j)
  <2>1. j \in 1 .. k - 1
    BY <1>3
  <2>. QED BY <2>1, WeightOrder
<1>4. Below(s, k) \in [FieldNames -> Nat]
  BY BelowFields
<1>5. b(1) + b(2) + b(3) + b(4) + b(5) + b(6) + b(7) < u
  <2>1. Moment(Below(s, k)) < u
    BY DEF Orderly, FieldNames
  <2>2. Moment(Below(s, k)) = Weight(Below(s, k), 1) + Weight(Below(s, k), 2) + Weight(Below(s, k), 3)
                                + Weight(Below(s, k), 4) + Weight(Below(s, k), 5)
                                + Weight(Below(s, k), 6) + Weight(Below(s, k), 7)
    BY <1>4, Weights
  <2>3. \A i \in 1 .. 7 : Weight(Below(s, k), i) = b(i)
    BY BelowWeights
  <2>. HIDE DEF b, u
  <2>4. /\ Weight(Below(s, k), 1) = b(1) /\ Weight(Below(s, k), 2) = b(2) /\ Weight(Below(s, k), 3) = b(3)
        /\ Weight(Below(s, k), 4) = b(4) /\ Weight(Below(s, k), 5) = b(5) /\ Weight(Below(s, k), 6) = b(6)
        /\ Weight(Below(s, k), 7) = b(7)
    BY <2>3
  <2>. QED BY <2>1, <2>2, <2>4
<1>6. /\ Moment(s) = Weight(s, 1) + Weight(s, 2) + Weight(s, 3) + Weight(s, 4) + Weight(s, 5)
                       + Weight(s, 6) + Weight(s, 7)
      /\ Moment(t) = Weight(t, 1) + Weight(t, 2) + Weight(t, 3) + Weight(t, 4) + Weight(t, 5)
                       + Weight(t, 6) + Weight(t, 7)
  BY Weights
<1>7. ASSUME NEW i \in 1 .. 7
      PROVE  IF i = k THEN Weight(s, i) + u <= Weight(t, i) ELSE Weight(s, i) <= Weight(t, i) + b(i)
  BY <1>1, <1>2, <1>3
<1>8. \A i \in 1 .. 7 : b(i) \in Nat
  BY <1>2
<1>9. k = 1 \/ k = 2 \/ k = 3 \/ k = 4 \/ k = 5 \/ k = 6 \/ k = 7
  OBVIOUS
<1>10. /\ 1 \in 1 .. 7 /\ 2 \in 1 .. 7 /\ 3 \in 1 .. 7 /\ 4 \in 1 .. 7 /\ 5 \in 1 .. 7 /\ 6 \in 1 .. 7
       /\ 7 \in 1 .. 7
  OBVIOUS
<1>. HIDE DEF b, u
<1>. DEFINE D(i) == IF i = k THEN Weight(s, i) + u <= Weight(t, i) ELSE Weight(s, i) <= Weight(t, i) + b(i)
<1>11. D(1) /\ D(2) /\ D(3) /\ D(4) /\ D(5) /\ D(6) /\ D(7)
  BY <1>7, <1>10
<1>12. /\ b(1) \in Nat /\ b(2) \in Nat /\ b(3) \in Nat /\ b(4) \in Nat /\ b(5) \in Nat /\ b(6) \in Nat
       /\ b(7) \in Nat
       /\ Weight(s, 1) \in Nat /\ Weight(s, 2) \in Nat /\ Weight(s, 3) \in Nat /\ Weight(s, 4) \in Nat
       /\ Weight(s, 5) \in Nat /\ Weight(s, 6) \in Nat /\ Weight(s, 7) \in Nat
       /\ Weight(t, 1) \in Nat /\ Weight(t, 2) \in Nat /\ Weight(t, 3) \in Nat /\ Weight(t, 4) \in Nat
       /\ Weight(t, 5) \in Nat /\ Weight(t, 6) \in Nat /\ Weight(t, 7) \in Nat
  BY <1>2, <1>8, <1>10
<1>13. CASE k = 1
  BY <1>1, <1>5, <1>6, <1>11, <1>12, <1>13
<1>14. CASE k = 2
  BY <1>1, <1>5, <1>6, <1>11, <1>12, <1>14
<1>15. CASE k = 3
  BY <1>1, <1>5, <1>6, <1>11, <1>12, <1>15
<1>16. CASE k = 4
  BY <1>1, <1>5, <1>6, <1>11, <1>12, <1>16
<1>17. CASE k = 5
  BY <1>1, <1>5, <1>6, <1>11, <1>12, <1>17
<1>18. CASE k = 6
  BY <1>1, <1>5, <1>6, <1>11, <1>12, <1>18
<1>19. CASE k = 7
  BY <1>1, <1>5, <1>6, <1>11, <1>12, <1>19
<1>. QED BY <1>9, <1>13, <1>14, <1>15, <1>16, <1>17, <1>18, <1>19

(* Stamps are in the order of their moments exactly when their numbers     *)
(* are.                                                                    *)
LEMMA MomentsInOrder ==
  ASSUME NEW s \in [FieldNames -> Nat], NEW t \in [FieldNames -> Nat], Orderly(s), Orderly(t)
  PROVE  Before(s, t) <=> Moment(s) < Moment(t)
<1>. DEFINE a(i) == s[Significance[i]]
            b(i) == t[Significance[i]]
<1>1. Moment(s) \in Nat /\ Moment(t) \in Nat
  BY MomentType
<1>2. ASSUME NEW i \in 1 .. 7
      PROVE  a(i) \in Nat /\ b(i) \in Nat
  <2>1. Significance[i] \in FieldNames
    <3>1. i = 1 \/ i = 2 \/ i = 3 \/ i = 4 \/ i = 5 \/ i = 6 \/ i = 7
      OBVIOUS
    <3>. QED BY <3>1, SignificanceEach DEF FieldNames
  <2>. QED BY <2>1
<1>3. ASSUME Before(s, t)
      PROVE  Moment(s) < Moment(t)
  <2>1. PICK k \in 1 .. 7 : a(k) < b(k) /\ \A j \in 1 .. k - 1 : a(j) = b(j)
    BY <1>3 DEF Before, FieldNames
  <2>. QED BY <2>1, Decided
<1>4. CASE \A i \in 1 .. 7 : a(i) = b(i)
  <2>1. ASSUME NEW i \in FieldNames
        PROVE  s[i] = t[i]
    <3>1. i = 1 \/ i = 2 \/ i = 3 \/ i = 4 \/ i = 5 \/ i = 6 \/ i = 7
      BY DEF FieldNames
    <3>. QED BY <1>4, <3>1, SignificanceEach
  <2>2. s = t
    BY <2>1
  <2>. QED BY <1>1, <1>3, <2>2
<1>5. CASE \E i \in 1 .. 7 : a(i) # b(i)
  <2>. DEFINE U == {i \in 1 .. 7 : a(i) # b(i)}
  <2>1. PICK k \in U : \A i \in U : k <= i
    <3>1. U \in SUBSET Nat /\ U # {}
      BY <1>5
    <3>. HIDE DEF U
    <3>. QED BY <3>1, LeastElement
  <2>2. k \in 1 .. 7 /\ a(k) # b(k) /\ \A j \in 1 .. k - 1 : a(j) = b(j)
    <3>1. k \in 1 .. 7 /\ a(k) # b(k)
      BY <2>1
    <3>2. ASSUME NEW j \in 1 .. k - 1
          PROVE  a(j) = b(j)
      <4>1. j \in 1 .. 7 /\ ~(k <= j)
        BY <3>1
      <4>. QED BY <2>1, <4>1
    <3>. QED BY <3>1, <3>2
  <2>. HIDE DEF U
  <2>3. CASE a(k) < b(k)
    <3>1. Before(s, t)
      BY <2>2, <2>3 DEF Before, FieldNames
    <3>. QED BY <1>3, <3>1
  <2>4. CASE b(k) < a(k)
    <3>1. Moment(t) < Moment(s)
      <4>1. \A j \in 1 .. k - 1 : b(j) = a(j)
        BY <2>2
      <4>. QED BY <2>2, <2>4, <4>1, Decided
    <3>. QED BY <1>1, <1>3, <3>1
  <2>5. a(k) < b(k) \/ b(k) < a(k)
    BY <1>2, <2>2
  <2>. QED BY <1>3, <2>3, <2>4, <2>5
<1>. QED BY <1>4, <1>5

-----------------------------------------------------------------------------
(* How comparisons are written, and what becomes of them.                  *)
Written(c) ==
  /\ c.key \in DOMAIN Column /\ c.op \in {"=", ">=", "<"}
  /\ c.text \in Seq(Token) /\ And \notin Tokens(c.text)
  /\ IF c.key = "Time"
     THEN /\ c.op \in {">=", "<"}
          /\ \E s \in Stamps, n \in 3 .. 7 :
               /\ TypedStamp(c.text, s, n) /\ c.fields = n
               /\ c.value = [i \in FieldNames |-> IF i <= n THEN s[i] ELSE 0]
     ELSE c.key \in {"Event", "Usr"} /\ c.op = "=" /\ c.value = c.text

Half(c) == IF c.key = "Time" THEN Compared(c) ELSE Quoted(Column[c.key], Op(c.op), c.text)

Final(c) ==
  IF c.key = "Time" THEN <<Column.Time, Op(c.op), Number(ReadStamp(c.text))>> ELSE Half(c)

(* The key words.                                                          *)
LEMMA KeyNames == DOMAIN Column = {"Event", "Usr", "Time"}
BY DEF Column

(* The rows and their stamps.                                              *)
LEMMA RowTypes ==
  /\ DOMAIN Journal = 1 .. Len(Journal) /\ Len(Journal) \in Nat
  /\ \A i \in DOMAIN Journal :
       /\ Journal[i].Event \in Seq(Token \ {And}) /\ Journal[i].Usr \in Seq(Token \ {And})
       /\ Journal[i].time \in Stamps /\ Stamps \subseteq [FieldNames -> Nat]
<1>. DEFINE R == [Event : Seq(Token \ {And}), Usr : Seq(Token \ {And}), time : Stamps,
                  same : [{"Event", "Usr"} -> SUBSET ColumnsOf["journal"]]]
<1>1. Journal \in Seq(R) /\ Stamps \subseteq [FieldNames -> Nat]
  BY SearchTextAssumption
<1>2. DOMAIN Journal = 1 .. Len(Journal) /\ Len(Journal) \in Nat /\ \A i \in 1 .. Len(Journal) : Journal[i] \in R
  <2>. HIDE DEF R
  <2>. QED BY <1>1, LenProperties, ElementOfSeq
<1>. QED BY <1>1, <1>2

(* A value is a text without AND.                                          *)
LEMMA ValueText ==
  ASSUME NEW v \in Seq(Token \ {And})
  PROVE  v \in Seq(Token) /\ And \notin Tokens(v)
<1>1. \A i \in 1 .. Len(v) : v[i] \in Token \ {And}
  BY ElementOfSeq
<1>2. v \in Seq(Token)
  BY LenProperties, <1>1
<1>. QED BY <1>1, <1>2 DEF Tokens

(* Every comparison is written with a key word, an operator and a text     *)
(* without AND, a stamp as it is typed.                                    *)
LEMMA ComparisonsWritten ==
  ASSUME NEW c \in Comparisons
  PROVE  Written(c)
<1>1. CASE \E k \in {"Event", "Usr"} : \E v \in Values(k) : c = Named(k, v)
  <2>6. PICK k \in {"Event", "Usr"} : \E v \in Values(k) : c = Named(k, v)
    BY <1>1
  <2>1. PICK v \in Values(k) : c = Named(k, v)
    BY <2>6
  <2>2. v \in Seq(Token \ {And})
    BY RowTypes DEF Values
  <2>3. v \in Seq(Token) /\ And \notin Tokens(v)
    BY <2>2, ValueText
  <2>4. c.key = k /\ c.op = "=" /\ c.value = v /\ c.text = v
    BY <2>1 DEF Named
  <2>. QED BY <2>3, <2>4, KeyNames DEF Written
<1>2. CASE \E o \in {">=", "<"}, s \in Stamps, n \in 3 .. 7 : c = Timed(o, s, n)
  <2>1. PICK o \in {">=", "<"}, s \in Stamps, n \in 3 .. 7 : c = Timed(o, s, n)
    BY <1>2
  <2>. DEFINE w == SubSeq(StampText(s), 1, 2 * n - 1)
  <2>2. /\ c.key = "Time" /\ c.op = o /\ c.fields = n /\ c.text = w
        /\ c.value = [i \in FieldNames |-> IF i <= n THEN s[i] ELSE 0]
    BY <2>1 DEF Timed
  <2>3. TypedStamp(w, s, n) /\ n \in 1 .. 7
    <3>1. s \in [FieldNames -> Nat] /\ n \in 1 .. 7
      BY SearchTextAssumption
    <3>. QED BY <3>1, StampTyped
  <2>. HIDE DEF w
  <2>4. w \in Seq(Token) /\ And \notin Tokens(w)
    BY <2>3, StampTokens DEF TypedStamp
  <2>5. \E st \in Stamps, m \in 3 .. 7 :
           /\ TypedStamp(c.text, st, m) /\ c.fields = m
           /\ c.value = [i \in FieldNames |-> IF i <= m THEN st[i] ELSE 0]
    BY <2>2, <2>3
  <2>. QED BY <2>2, <2>4, <2>5, KeyNames DEF Written
<1>. QED BY <1>1, <1>2 DEF Comparisons

(* The text of a comparison is a key word, an operator and a quoted text.  *)
LEMMA ComparedQuoted ==
  ASSUME NEW c, Written(c)
  PROVE  /\ Key(c.key) \in Token /\ Op(c.op) \in Token /\ c.text \in Seq(Token)
         /\ Compared(c) = Quoted(Key(c.key), Op(c.op), c.text)
<1>1. Key(c.key) \in Token /\ Op(c.op) \in Token /\ c.text \in Seq(Token)
  BY TokenTypes DEF Written
<1>. DEFINE a == <<Key(c.key), Op(c.op), Quote>>
            b == <<Quote>>
            w == c.text
<1>2. a \in Seq(Token) /\ b \in Seq(Token) /\ w \in Seq(Token)
  BY <1>1, TokenTypes
<1>3. (a \o w) \o b = a \o (w \o b)
  <2>. HIDE DEF a, b, w
  <2>. QED BY <1>2, Reassociated
<1>4. Compared(c) = (a \o w) \o b
  BY DEF Compared
<1>5. Quoted(Key(c.key), Op(c.op), c.text) = a \o (w \o b)
  BY DEF Quoted, Cat
<1>. HIDE DEF a, b, w
<1>. QED BY <1>1, <1>3, <1>4, <1>5 DEF w

(* The text of a comparison is not empty.                                  *)
LEMMA ComparedType ==
  ASSUME NEW c, Written(c)
  PROVE  Compared(c) \in Seq(Token) /\ Len(Compared(c)) >= 1 /\ Len(Compared(c)) \in Nat
<1>1. HasShape(Quoted(Key(c.key), Op(c.op), c.text), Key(c.key), Op(c.op), c.text)
  BY ComparedQuoted, QuotedShape
<1>2. Len(Quoted(Key(c.key), Op(c.op), c.text)) = Len(c.text) + 4 /\ Len(c.text) \in Nat
      /\ Quoted(Key(c.key), Op(c.op), c.text) \in Seq(Token)
  BY <1>1 DEF HasShape
<1>3. Compared(c) = Quoted(Key(c.key), Op(c.op), c.text)
  BY ComparedQuoted
<1>. QED BY <1>2, <1>3

(* In a comparison that is not ambiguous only the key is a key word.       *)
LEMMA ClearText ==
  ASSUME NEW c, Written(c), ~Ambiguous(c)
  PROVE  Quote \notin Tokens(c.text) /\ \A k \in DOMAIN Column : Key(k) \notin Tokens(c.text)
<1>1. CASE c.key = "Time"
  <2>1. PICK s \in Stamps, n \in 3 .. 7 : TypedStamp(c.text, s, n)
    BY <1>1 DEF Written
  <2>2. n \in 1 .. 7
    OBVIOUS
  <2>. QED BY <2>1, <2>2, StampTokens
<1>2. CASE c.key # "Time"
  <2>1. c.value = c.text /\ c.text \in Seq(Token)
    BY <1>2 DEF Written
  <2>2. DOMAIN c.text = 1 .. Len(c.text)
    BY <2>1, LenProperties
  <2>3. \A i \in 1 .. Len(c.text) : c.text[i] # Quote /\ \A k \in DOMAIN Column : c.text[i] # Key(k)
    BY <1>2, <2>1, <2>2 DEF Ambiguous
  <2>. QED BY <2>3 DEF Tokens
<1>. QED BY <1>1, <1>2

(* The stamp of a comparison is read as the number of what is taken of it. *)
LEMMA StampMeant ==
  ASSUME NEW c, Written(c), c.key = "Time"
  PROVE  /\ ReadStamp(c.text) \in Nat
         /\ ReadStamp(c.text) = Moment(Taken(c))
         /\ \E s \in Stamps, n \in 2 .. 7 :
              Taken(c) = [i \in FieldNames |-> IF i <= n THEN s[i] ELSE 0]
<1>1. PICK s \in Stamps, n \in 3 .. 7 :
        /\ TypedStamp(c.text, s, n) /\ c.fields = n
        /\ c.value = [i \in FieldNames |-> IF i <= n THEN s[i] ELSE 0]
  BY DEF Written
<1>2. n \in 1 .. 7 /\ s \in [FieldNames -> Nat]
  BY SearchTextAssumption
<1>. DEFINE m == IF n >= 6 THEN n ELSE n - 1
<1>3. m \in 2 .. 7
  OBVIOUS
<1>4. ASSUME NEW i \in FieldNames
      PROVE  /\ (IF i < n \/ (i = n /\ n >= 6) THEN s[i] ELSE 0) = IF i <= m THEN s[i] ELSE 0
             /\ (IF n >= 6 \/ i < n THEN c.value[i] ELSE 0) = IF i <= m THEN s[i] ELSE 0
  <2>1. i \in 1 .. 7 /\ c.value[i] = IF i <= n THEN s[i] ELSE 0
    BY <1>1, <1>4 DEF FieldNames
  <2>. QED BY <2>1
<1>5. ReadOf(s, n) = [i \in FieldNames |-> IF i <= m THEN s[i] ELSE 0]
  BY <1>4 DEF ReadOf
<1>6. Taken(c) = [i \in FieldNames |-> IF i <= m THEN s[i] ELSE 0]
  <2>1. Taken(c) = [i \in FieldNames |-> IF n >= 6 \/ i < n THEN c.value[i] ELSE 0]
    BY <1>1 DEF Taken
  <2>. QED BY <1>4, <2>1
<1>7. ReadStamp(c.text) \in Nat /\ ReadStamp(c.text) = Moment(ReadOf(s, n))
  BY <1>1, <1>2, StampRead
<1>. HIDE DEF m
<1>. QED BY <1>3, <1>5, <1>6, <1>7

(* A comparison with a stamp becomes what a round of ReplaceTime makes of  *)
(* it.                                                                     *)
LEMMA TimeStamped ==
  ASSUME NEW c, Written(c), ~Ambiguous(c), c.key = "Time"
  PROVE  Stamped(Compared(c), Op(c.op), c.text) /\ Finished(Op(c.op), c.text) = Final(c)
<1>1. "Time" \in DOMAIN Column
  BY KeyNames
<1>2. /\ Compared(c) = Quoted(Key("Time"), Op(c.op), c.text) /\ Op(c.op) \in Token
      /\ c.text \in Seq(Token) /\ And \notin Tokens(c.text)
  BY ComparedQuoted DEF Written
<1>3. Op(c.op) \notin {Quote, And, Key("Time")}
  BY TokensDiffer
<1>4. ReadStamp(c.text) \in Nat
  BY StampMeant
<1>5. \A x \in {Quote, And, Key("Time")} : x \notin Tokens(c.text)
  BY <1>1, <1>2, ClearText
<1>6. Stamped(Compared(c), Op(c.op), c.text)
  BY <1>2, <1>3, <1>4, <1>5 DEF Stamped
<1>7. Finished(Op(c.op), c.text) = <<Column.Time, Op(c.op), Number(ReadStamp(c.text))>>
  BY <1>6, FinishedShape
<1>. QED BY <1>6, <1>7 DEF Final

(* Replace makes a column of the key word of a comparison and changes      *)
(* nothing else of it.                                                     *)
LEMMA KeyReplaced ==
  ASSUME NEW c, Written(c), ~Ambiguous(c), NEW keys \in SUBSET DOMAIN Column, "Time" \notin keys,
         c.key # "Time" => c.key \in keys
  PROVE  Replace(Compared(c), keys) = Half(c)
<1>1. /\ Key(c.key) \in Token /\ Op(c.op) \in Token /\ c.text \in Seq(Token)
      /\ Compared(c) = Quoted(Key(c.key), Op(c.op), c.text)
  BY ComparedQuoted
<1>2. \A k \in keys : Key(k) \notin Tokens(c.text) /\ Key(k) # Op(c.op)
  BY ClearText, TokensDiffer
<1>3. Replace(Compared(c), keys) = Quoted(ByColumn(Key(c.key), keys), Op(c.op), c.text)
  BY <1>1, <1>2, QuotedReplaced
<1>4. CASE c.key = "Time"
  <2>1. \A k \in keys : Key(c.key) # Key(k)
    BY <1>4, TokensDiffer, KeyNames
  <2>2. ByColumn(Key(c.key), keys) = Key(c.key)
    BY <2>1 DEF ByColumn
  <2>. QED BY <1>1, <1>3, <1>4, <2>2 DEF Half
<1>5. CASE c.key # "Time"
  <2>1. c.key \in keys /\ Key(c.key)[2] = c.key
    BY <1>5 DEF Key
  <2>2. ByColumn(Key(c.key), keys) = Column[c.key]
    BY <2>1 DEF ByColumn
  <2>. QED BY <1>3, <1>5, <2>2 DEF Half
<1>. QED BY <1>4, <1>5

-----------------------------------------------------------------------------
(* The condition of a text of comparisons.                                 *)
AllClear(cs, N) == \A n \in 1 .. N : Written(cs[n]) /\ ~Ambiguous(cs[n])

Writing(cs, N) == [n \in 1 .. N |-> Compared(cs[n])]

(* The key words of a text are those of its comparisons.                   *)
LEMMA KeysOfText ==
  ASSUME NEW N \in Nat \ {0}, NEW cs, \A n \in 1 .. N : Written(cs[n]), AllClear(cs, N),
         NEW s, Joined(s, Writing(cs, N), N)
  PROVE  KeysTable(s) = {cs[n].key : n \in 1 .. N}
<1>1. ASSUME NEW n \in 1 .. N, NEW k \in DOMAIN Column
      PROVE  Key(k) \in Tokens(Writing(cs, N)[n]) <=> k = cs[n].key
  <2>. DEFINE c == cs[n]
  <2>1. Written(c) /\ ~Ambiguous(c)
    BY DEF AllClear
  <2>. HIDE DEF c
  <2>2. /\ Key(c.key) \in Token /\ Op(c.op) \in Token /\ c.text \in Seq(Token)
        /\ Compared(c) = Quoted(Key(c.key), Op(c.op), c.text) /\ c.key \in DOMAIN Column
    BY <2>1, ComparedQuoted DEF Written
  <2>3. Tokens(Compared(c)) = {Key(c.key), Op(c.op), Quote} \cup Tokens(c.text)
    BY <2>2, QuotedTokens
  <2>4. Key(k) \notin Tokens(c.text) /\ Key(k) # Op(c.op) /\ Key(k) # Quote
    BY <2>1, ClearText, TokensDiffer
  <2>5. Key(k) = Key(c.key) <=> k = c.key
    BY <2>2, TokensDiffer
  <2>6. Writing(cs, N)[n] = Compared(c)
    BY DEF Writing, c
  <2>. QED BY <2>3, <2>4, <2>5, <2>6 DEF c
<1>2. ASSUME NEW k \in DOMAIN Column
      PROVE  Contains(s, Key(k)) <=> \E n \in 1 .. N : k = cs[n].key
  <2>1. Key(k) # And
    BY TokensDiffer
  <2>2. Key(k) \in Tokens(s) <=> \E n \in 1 .. N : Key(k) \in Tokens(Writing(cs, N)[n])
    BY <2>1, TokensOfParts
  <2>3. Contains(s, Key(k)) <=> Key(k) \in Tokens(s)
    BY DEF Contains, Tokens
  <2>. QED BY <1>1, <2>2, <2>3
<1>3. \A n \in 1 .. N : cs[n].key \in DOMAIN Column
  BY DEF Written
<1>. QED BY <1>2, <1>3 DEF KeysTable

(* A comparison after Replace.                                             *)
LEMMA HalfType ==
  ASSUME NEW c, Written(c), ~Ambiguous(c)
  PROVE  /\ Half(c) \in Seq(Token) /\ Len(Half(c)) >= 1
         /\ c.key # "Time" => /\ Key("Time") \notin Tokens(Half(c))
                              /\ HasShape(Half(c), Column[c.key], Op(c.op), c.text)
                              /\ Tokens(Half(c)) = {Column[c.key], Op(c.op), Quote} \cup Tokens(c.text)
<1>1. CASE c.key = "Time"
  BY <1>1, ComparedType DEF Half
<1>2. CASE c.key # "Time"
  <2>1. /\ Column[c.key] \in Token /\ Op(c.op) \in Token /\ c.text \in Seq(Token)
        /\ c.key \in DOMAIN Column
    BY TokenTypes DEF Written
  <2>2. Half(c) = Quoted(Column[c.key], Op(c.op), c.text)
    BY <1>2 DEF Half
  <2>3. HasShape(Half(c), Column[c.key], Op(c.op), c.text)
    BY <2>1, <2>2, QuotedShape
  <2>4. Tokens(Half(c)) = {Column[c.key], Op(c.op), Quote} \cup Tokens(c.text)
    BY <2>1, <2>2, QuotedTokens
  <2>5. Key("Time") \notin Tokens(c.text) /\ Key("Time") # Column[c.key] /\ Key("Time") # Op(c.op)
        /\ Key("Time") # Quote
    BY <2>1, ClearText, TokensDiffer, KeyNames
  <2>6. Half(c) \in Seq(Token) /\ Len(Half(c)) >= 1
    BY <2>3 DEF HasShape
  <2>. QED BY <2>3, <2>4, <2>5, <2>6
<1>. QED BY <1>1, <1>2

(* A comparison after ReplaceTime: no Time and no AND are left.            *)
LEMMA FinalType ==
  ASSUME NEW c, Written(c), ~Ambiguous(c)
  PROVE  Final(c) \in Seq(Token) /\ Key("Time") \notin Tokens(Final(c)) /\ And \notin Tokens(Final(c))
<1>1. CASE c.key = "Time"
  <2>1. Stamped(Compared(c), Op(c.op), c.text) /\ Finished(Op(c.op), c.text) = Final(c)
    BY <1>1, TimeStamped
  <2>2. /\ Finished(Op(c.op), c.text) \in Seq(Token)
        /\ Key("Time") \notin Tokens(Finished(Op(c.op), c.text))
        /\ And \notin Tokens(Finished(Op(c.op), c.text))
    BY <2>1, FinishedShape
  <2>. QED BY <2>1, <2>2
<1>2. CASE c.key # "Time"
  <2>1. /\ Half(c) \in Seq(Token) /\ Key("Time") \notin Tokens(Half(c))
        /\ Tokens(Half(c)) = {Column[c.key], Op(c.op), Quote} \cup Tokens(c.text)
    BY <1>2, HalfType
  <2>2. And \notin Tokens(c.text) /\ And # Column[c.key] /\ And # Op(c.op) /\ And # Quote
    BY TokensDiffer DEF Written
  <2>. QED BY <1>2, <2>1, <2>2 DEF Final
<1>. QED BY <1>1, <1>2

(* The parts of the condition are those of the text, each in its form.     *)
LEMMA ConditionJoined ==
  ASSUME NEW N \in Nat \ {0}, NEW cs, AllClear(cs, N), NEW s, Joined(s, Writing(cs, N), N)
  PROVE  \E qs : Joined(Condition(s), qs, N) /\ \A n \in 1 .. N : qs[n] = Final(cs[n])
<1>. DEFINE keys == KeysTable(s) \ {"Time"}
            named == Replace(s, keys)
            ps == [n \in 1 .. N |-> Replace(Writing(cs, N)[n], keys)]
            fs == [n \in 1 .. N |-> Final(cs[n])]
<1>1. ASSUME NEW n \in 1 .. N
      PROVE  Written(cs[n]) /\ ~Ambiguous(cs[n])
  BY DEF AllClear
<1>2. KeysTable(s) = {cs[n].key : n \in 1 .. N} /\ KeysTable(s) \in SUBSET DOMAIN Column
  <2>1. KeysTable(s) = {cs[n].key : n \in 1 .. N}
    BY <1>1, KeysOfText
  <2>. QED BY <2>1 DEF KeysTable
<1>3. keys \in SUBSET DOMAIN Column /\ "Time" \notin keys
  BY <1>2
<1>4. ASSUME NEW n \in 1 .. N
      PROVE  ps[n] = Half(cs[n])
  <2>1. Writing(cs, N)[n] = Compared(cs[n])
    BY DEF Writing
  <2>2. cs[n].key # "Time" => cs[n].key \in keys
    BY <1>2
  <2>3. Replace(Compared(cs[n]), keys) = Half(cs[n])
    <3>. HIDE DEF keys
    <3>. QED BY <1>1, <1>3, <2>2, KeyReplaced
  <2>4. ps[n] = Replace(Writing(cs, N)[n], keys)
    <3>. HIDE DEF keys
    <3>. QED OBVIOUS
  <2>. QED BY <2>1, <2>3, <2>4, Zenon
<1>5. Joined(named, ps, N)
  <2>. HIDE DEF keys
  <2>. QED BY <1>3, ReplaceJoined
<1>. HIDE DEF keys, ps
<1>6. CASE "Time" \in KeysTable(s)
  <2>1. Condition(s) = ReplaceTime(named)
    BY <1>6 DEF Condition, keys
  <2>2. Finishing(ps, fs, N)
    <3>1. ASSUME NEW n \in 1 .. N
          PROVE  /\ ps[n] \in Seq(Token) /\ fs[n] \in Seq(Token) /\ Key("Time") \notin Tokens(fs[n])
                 /\ fs[n] # ps[n] => \E y, v : Stamped(ps[n], y, v) /\ fs[n] = Finished(y, v)
      <4>1. fs[n] = Final(cs[n]) /\ ps[n] = Half(cs[n])
        BY <1>4
      <4>2. Half(cs[n]) \in Seq(Token) /\ Final(cs[n]) \in Seq(Token)
            /\ Key("Time") \notin Tokens(Final(cs[n]))
        BY <1>1, HalfType, FinalType
      <4>3. CASE cs[n].key = "Time"
        <5>1. Stamped(Compared(cs[n]), Op(cs[n].op), cs[n].text)
              /\ Finished(Op(cs[n].op), cs[n].text) = Final(cs[n])
          BY <1>1, <4>3, TimeStamped
        <5>2. Half(cs[n]) = Compared(cs[n])
          BY <4>3 DEF Half
        <5>. HIDE DEF fs
        <5>. QED BY <4>1, <4>2, <5>1, <5>2
      <4>4. CASE cs[n].key # "Time"
        <5>1. Final(cs[n]) = Half(cs[n])
          BY <4>4 DEF Final
        <5>. HIDE DEF fs
        <5>. QED BY <4>1, <4>2, <5>1
      <4>. QED BY <4>3, <4>4
    <3>. HIDE DEF fs
    <3>. QED BY <3>1 DEF Finishing
  <2>3. \A n \in 1 .. N : Len(ps[n]) >= 1
    BY <1>1, <1>4, HalfType
  <2>. HIDE DEF fs, named
  <2>4. Reached(ReplaceTime(named), ps, fs, N, N)
    BY <1>5, <2>2, <2>3, TimeReplaced
  <2>5. PICK qs : Joined(ReplaceTime(named), qs, N) /\ Advanced(qs, ps, fs, N, N)
    BY <2>4 DEF Reached
  <2>6. \A n \in 1 .. N : qs[n] = Final(cs[n])
    <3>1. \A n \in 1 .. N : qs[n] = fs[n]
      BY <2>5 DEF Advanced
    <3>. QED BY <3>1 DEF fs
  <2>. QED BY <2>1, <2>5, <2>6
<1>7. CASE "Time" \notin KeysTable(s)
  <2>1. Condition(s) = named
    BY <1>7 DEF Condition, keys
  <2>2. \A n \in 1 .. N : ps[n] = Final(cs[n])
    <3>1. \A n \in 1 .. N : cs[n].key # "Time"
      BY <1>2, <1>7
    <3>2. \A n \in 1 .. N : Final(cs[n]) = Half(cs[n])
      BY <3>1 DEF Final
    <3>. QED BY <1>4, <3>2
  <2>. HIDE DEF named
  <2>. QED BY <1>5, <2>1, <2>2
<1>. QED BY <1>6, <1>7

-----------------------------------------------------------------------------
(* What SQLite makes of the parts.                                         *)
LEMMA NamedForm ==
  ASSUME NEW c, Written(c), ~Ambiguous(c), c.key # "Time"
  PROVE  /\ IsNamed(Final(c)) /\ SubSeq(Final(c), 4, Len(Final(c)) - 1) = c.text
         /\ Final(c)[1] = Column[c.key]
<1>. DEFINE p == Final(c)
            m == Len(c.text)
<1>1. p = Half(c)
  BY DEF Final
<1>2. /\ p \in Seq(Token) /\ Len(p) = m + 4 /\ m \in Nat
      /\ p[1] = Column[c.key] /\ p[2] = Op(c.op) /\ p[3] = Quote /\ p[m + 4] = Quote
      /\ \A i \in 1 .. m : p[3 + i] = c.text[i]
  <2>1. HasShape(Half(c), Column[c.key], Op(c.op), c.text)
    BY HalfType
  <2>2. HasShape(p, Column[c.key], Op(c.op), c.text)
    BY <1>1, <2>1, Zenon
  <2>. HIDE DEF p
  <2>. QED BY <2>2 DEF HasShape
<1>3. /\ c.text \in Seq(Token) /\ c.key \in {"Event", "Usr"} /\ c.op = "=" /\ c.key \in DOMAIN Column
      /\ \A i \in 1 .. m : c.text[i] # Quote
  BY ClearText DEF Written, Tokens
<1>. HIDE DEF p, m
<1>4. p[1] # Quote /\ p[2] # Quote
  BY <1>2, <1>3, TokensDiffer
<1>5. ASSUME NEW i \in 1 .. m + 4
      PROVE  p[i] = Quote <=> i = 3 \/ i = m + 4
  <2>1. CASE i > 3 /\ i < m + 4
    <3>1. i - 3 \in 1 .. m /\ 3 + (i - 3) = i
      BY <1>2, <2>1
    <3>2. p[i] # Quote
      BY <1>2, <1>3, <3>1
    <3>. QED BY <2>1, <3>2
  <2>2. i = 1 \/ i = 2 \/ i = 3 \/ i = m + 4 \/ (i > 3 /\ i < m + 4)
    BY <1>2
  <2>3. CASE i = 1
    BY <1>2, <1>4, <2>3
  <2>4. CASE i = 2
    BY <1>2, <1>4, <2>4
  <2>5. CASE i = 3 \/ i = m + 4
    BY <1>2, <2>5
  <2>. QED BY <2>1, <2>2, <2>3, <2>4, <2>5
<1>6. Places(p, Quote) = {3, Len(p)}
  <2>1. DOMAIN p = 1 .. m + 4 /\ 3 \in 1 .. m + 4 /\ m + 4 \in 1 .. m + 4 /\ Len(p) = m + 4
    BY <1>2, LenProperties
  <2>. QED BY <1>5, <2>1 DEF Places
<1>7. IsNamed(p)
  <2>1. Len(p) >= 4 /\ p[1] \in {Column[k] : k \in {"Event", "Usr"}} /\ p[2] = Op("=") /\ p[3] = Quote
    BY <1>2, <1>3
  <2>. QED BY <1>6, <2>1 DEF IsNamed
<1>8. SubSeq(p, 4, Len(p) - 1) = c.text
  <2>1. /\ 4 \in 1 .. Len(p) + 1 /\ Len(p) - 1 \in 4 - 1 .. Len(p)
        /\ m = Len(p) - 1 + 1 - 4 /\ \A k \in 1 .. m : 4 + k - 1 = 3 + k
    BY <1>2
  <2>2. Len(c.text) = m
    BY DEF m
  <2>3. \A k \in 1 .. Len(c.text) : p[4 + k - 1] = c.text[k]
    BY <1>2, <2>1, <2>2
  <2>. QED BY <1>2, <1>3, <2>1, <2>2, <2>3, Between
<1>. QED BY <1>2, <1>7, <1>8, Zenon DEF p

(* A comparison with a stamp becomes one with a number.                    *)
LEMMA TimedForm ==
  ASSUME NEW c, Written(c), c.key = "Time"
  PROVE  /\ IsTimed(Final(c)) /\ ~IsNamed(Final(c)) /\ Final(c)[2] = Op(c.op)
         /\ Final(c)[3][2] = ReadStamp(c.text)
<1>. DEFINE n == Number(ReadStamp(c.text))
            p == <<Column.Time, Op(c.op), n>>
<1>1. Final(c) = p
  BY DEF Final
<1>2. n[1] = "number" /\ n[2] = ReadStamp(c.text)
  BY DEF Number
<1>3. c.op \in {">=", "<"}
  BY DEF Written
<1>. HIDE DEF n
<1>4. Len(p) = 3 /\ p[1] = Column.Time /\ p[2] = Op(c.op) /\ p[3] = n
  OBVIOUS
<1>. HIDE DEF p
<1>5. IsTimed(p) /\ ~IsNamed(p)
  BY <1>2, <1>3, <1>4 DEF IsTimed, IsNamed
<1>. QED BY <1>1, <1>2, <1>4, <1>5

(* The number of a stamp grows with its fields.                            *)
LEMMA MomentMonotone ==
  ASSUME NEW s \in [FieldNames -> Nat], NEW t \in [FieldNames -> Nat],
         \A i \in FieldNames : s[i] <= t[i]
  PROVE  Moment(s) <= Moment(t)
<1>1. ASSUME NEW i \in 1 .. 7
      PROVE  Share(s, i) \in Nat /\ Share(t, i) \in Nat /\ Share(s, i) <= Share(t, i)
  <2>1. Units[i] \in Nat /\ s[i] \in Nat /\ t[i] \in Nat /\ s[i] <= t[i]
    BY SearchTextAssumption DEF FieldNames
  <2>. QED BY <2>1, Product DEF Share
<1>2. /\ Moment(s) = Share(s, 1) + Share(s, 2) + Share(s, 3) + Share(s, 4) + Share(s, 5)
                       + Share(s, 6) + Share(s, 7)
      /\ Moment(t) = Share(t, 1) + Share(t, 2) + Share(t, 3) + Share(t, 4) + Share(t, 5)
                       + Share(t, 6) + Share(t, 7)
  BY Shares
<1>. DEFINE D(i) == Share(s, i) \in Nat /\ Share(t, i) \in Nat /\ Share(s, i) <= Share(t, i)
<1>3. D(1) /\ D(2) /\ D(3) /\ D(4) /\ D(5) /\ D(6) /\ D(7)
  <2>1. /\ 1 \in 1 .. 7 /\ 2 \in 1 .. 7 /\ 3 \in 1 .. 7 /\ 4 \in 1 .. 7 /\ 5 \in 1 .. 7 /\ 6 \in 1 .. 7
        /\ 7 \in 1 .. 7
    OBVIOUS
  <2>2. \A i \in 1 .. 7 : D(i)
    BY <1>1
  <2>. HIDE DEF D
  <2>. QED BY <2>1, <2>2
<1>. QED BY <1>2, <1>3

(* The stamps have fields that their units have room for.                  *)
LEMMA StampOrderly ==
  ASSUME NEW s \in Stamps
  PROVE  s \in [FieldNames -> Nat] /\ Orderly(s)
BY SearchTextAssumption DEF Orderly

(* So have the stamps that are typed up to a field.                        *)
LEMMA CutOrderly ==
  ASSUME NEW s \in Stamps, NEW n \in 2 .. 7, NEW v, v = [i \in FieldNames |-> IF i <= n THEN s[i] ELSE 0]
  PROVE  v \in [FieldNames -> Nat] /\ Orderly(v)
<1>1. s \in [FieldNames -> Nat] /\ Orderly(s)
  BY StampOrderly
<1>2. v \in [FieldNames -> Nat] /\ \A i \in FieldNames : v[i] <= s[i]
  BY <1>1
<1>3. ASSUME NEW k \in FieldNames
      PROVE  Moment(Below(v, k)) < Units[Significance[k]]
  <2>1. k \in 1 .. 7
    BY DEF FieldNames
  <2>2. Below(v, k) \in [FieldNames -> Nat] /\ Below(s, k) \in [FieldNames -> Nat]
    BY <1>1, <1>2, <2>1, BelowFields
  <2>3. \A i \in FieldNames : Below(v, k)[i] <= Below(s, k)[i]
    BY <1>1, <1>2 DEF Below
  <2>4. Moment(Below(v, k)) <= Moment(Below(s, k))
    BY <2>2, <2>3, MomentMonotone
  <2>5. Moment(Below(v, k)) \in Nat /\ Moment(Below(s, k)) \in Nat
    BY <2>2, MomentType
  <2>6. Moment(Below(s, k)) < Units[Significance[k]] /\ Units[Significance[k]] \in Nat
    <3>1. Moment(Below(s, k)) < Units[Significance[k]]
      BY <1>1 DEF Orderly
    <3>2. Units[Significance[k]] \in Nat
      BY <1>1, <2>1, WeightOrder
    <3>. QED BY <3>1, <3>2
  <2>. QED BY <2>4, <2>5, <2>6
<1>. QED BY <1>2, <1>3 DEF Orderly

(* A value that is not ambiguous is no column of the tables joined.        *)
LEMMA NoColumn ==
  ASSUME NEW c, Written(c), ~Ambiguous(c), c.key # "Time", NEW keys
  PROVE  TablesNaming(ValueOf(Final(c)), keys) = {}
<1>1. ValueOf(Final(c)) = c.value
  <2>1. SubSeq(Final(c), 4, Len(Final(c)) - 1) = c.text
    BY NamedForm
  <2>2. c.value = c.text
    BY DEF Written
  <2>. QED BY <2>1, <2>2, Zenon DEF ValueOf
<1>2. TablesNaming(c.value, {"Event", "Usr"}) = {}
  BY DEF Ambiguous
<1>3. TablesOf(keys) \subseteq TablesOf({"Event", "Usr"})
  BY DEF TablesOf
<1>4. TablesNaming(c.value, keys) \subseteq TablesNaming(c.value, {"Event", "Usr"})
  BY <1>3 DEF TablesNaming
<1>. QED BY <1>1, <1>2, <1>4

(* A row satisfies what a comparison becomes when the comparison means it. *)
LEMMA SatisfiesMeans ==
  ASSUME NEW c, Written(c), ~Ambiguous(c), NEW r \in DOMAIN Journal, NEW keys
  PROVE  Satisfies(Journal[r], Final(c), keys) <=> Means(c, Journal[r])
<1>. DEFINE row == Journal[r]
<1>1. row.time \in Stamps
  BY RowTypes
<1>. HIDE DEF row
<1>2. CASE c.key # "Time"
  <2>1. /\ IsNamed(Final(c)) /\ SubSeq(Final(c), 4, Len(Final(c)) - 1) = c.text
        /\ Final(c)[1] = Column[c.key]
    BY <1>2, NamedForm
  <2>2. c.key \in {"Event", "Usr"} /\ c.op = "=" /\ c.value = c.text
    BY <1>2 DEF Written
  <2>3. Column[c.key] = Column.Event <=> c.key = "Event"
    BY <2>2 DEF Column
  <2>4. Satisfies(row, Final(c), keys) <=> c.text = IF c.key = "Event" THEN row.Event ELSE row.Usr
    <3>3. TablesNaming(ValueOf(Final(c)), keys) = {}
      BY <1>2, NoColumn
    <3>4. NamedSatisfies(row, Final(c), keys)
            <=> ValueOf(Final(c)) = IF Final(c)[1] = Column.Event THEN row.Event ELSE row.Usr
      BY <3>3 DEF NamedSatisfies
    <3>5. Satisfies(row, Final(c), keys) <=> NamedSatisfies(row, Final(c), keys)
      BY <2>1 DEF Satisfies
    <3>1. Satisfies(row, Final(c), keys)
            <=> SubSeq(Final(c), 4, Len(Final(c)) - 1)
                  = IF Final(c)[1] = Column.Event THEN row.Event ELSE row.Usr
      BY <3>4, <3>5, Zenon DEF ValueOf
    <3>2. Satisfies(row, Final(c), keys) <=> c.text = IF Column[c.key] = Column.Event THEN row.Event ELSE row.Usr
      BY <2>1, <3>1, Zenon
    <3>. QED BY <2>3, <3>2
  <2>5. Means(c, row) <=> c.value = IF c.key = "Event" THEN row.Event ELSE row.Usr
    BY <2>2 DEF Means
  <2>6. Satisfies(row, Final(c), keys) <=> Means(c, row)
    BY <2>2, <2>4, <2>5
  <2>. QED BY <2>6 DEF row
<1>3. CASE c.key = "Time"
  <2>1. /\ ~IsNamed(Final(c)) /\ Final(c)[2] = Op(c.op) /\ Final(c)[3][2] = ReadStamp(c.text)
    BY <1>3, TimedForm
  <2>. DEFINE t == Taken(c)
  <2>2. c.op \in {">=", "<"} /\ ReadStamp(c.text) = Moment(t)
    BY <1>3, StampMeant DEF Written
  <2>3. t \in [FieldNames -> Nat] /\ Orderly(t)
    <3>1. PICK s \in Stamps, n \in 2 .. 7 : t = [i \in FieldNames |-> IF i <= n THEN s[i] ELSE 0]
      BY <1>3, StampMeant
    <3>. HIDE DEF t
    <3>. QED BY <3>1, CutOrderly
  <2>4. row.time \in [FieldNames -> Nat] /\ Orderly(row.time)
    BY <1>1, StampOrderly
  <2>9. Means(c, row) <=> IF c.op = ">=" THEN ~Before(row.time, t) ELSE Before(row.time, t)
    BY <2>2 DEF Means
  <2>. HIDE DEF t
  <2>5. Before(row.time, t) <=> Moment(row.time) < Moment(t)
    BY <2>3, <2>4, MomentsInOrder
  <2>6. Moment(row.time) \in Nat /\ Moment(t) \in Nat
    BY <2>3, <2>4, MomentType
  <2>7. Satisfies(row, Final(c), keys) <=> IF Op(c.op) = Op(">=") THEN Moment(row.time) >= Moment(t)
                                     ELSE Moment(row.time) < Moment(t)
    BY <2>1, <2>2 DEF Satisfies, TimeOf
  <2>8. Op(c.op) = Op(">=") <=> c.op = ">="
    BY DEF Op
  <2>10. Satisfies(row, Final(c), keys) <=> Means(c, row)
    BY <2>5, <2>6, <2>7, <2>8, <2>9
  <2>. QED BY <2>10 DEF row
<1>. QED BY <1>2, <1>3

(* What a search makes of a text of comparisons that are not ambiguous.    *)
LEMMA Outcome ==
  ASSUME NEW N \in Nat \ {0}, NEW cs, AllClear(cs, N), NEW s, Joined(s, Writing(cs, N), N)
  PROVE  /\ Outcomes(s) = {[state |-> "selected", rows |-> SelectedBy(Condition(s), KeysTable(s))]}
         /\ Parts(Condition(s)) = {Final(cs[n]) : n \in 1 .. N}
<1>. DEFINE c == Condition(s)
<1>1. PICK qs : Joined(c, qs, N) /\ \A n \in 1 .. N : qs[n] = Final(cs[n])
  BY ConditionJoined
<1>. HIDE DEF c
<1>2. ASSUME NEW n \in 1 .. N
      PROVE  /\ Key("Time") \notin Tokens(qs[n]) /\ And \notin Tokens(qs[n])
             /\ IsNamed(Final(cs[n])) \/ IsTimed(Final(cs[n]))
  <2>1. Written(cs[n]) /\ ~Ambiguous(cs[n])
    BY DEF AllClear
  <2>2. Key("Time") \notin Tokens(Final(cs[n])) /\ And \notin Tokens(Final(cs[n]))
    BY <2>1, FinalType
  <2>3. IsNamed(Final(cs[n])) \/ IsTimed(Final(cs[n]))
    BY <2>1, NamedForm, TimedForm
  <2>. QED BY <1>1, <2>2, <2>3
<1>3. Parts(c) = {Final(cs[n]) : n \in 1 .. N}
  <2>1. Parts(c) = {qs[n] : n \in 1 .. N}
    BY <1>1, <1>2, PartsJoined
  <2>. QED BY <1>1, <2>1
<1>4. ~Undefined(c)
  <2>1. Key("Time") \notin Tokens(c)
    BY <1>1, <1>2, TimeKeyWord, TokensOfParts
  <2>. QED BY <2>1 DEF Undefined, Contains, Tokens
<1>5. IsRead(c)
  BY <1>2, <1>3 DEF IsRead
<1>6. ~Refused(c, KeysTable(s))
  <2>1. ASSUME NEW n \in 1 .. N, IsNamed(Final(cs[n]))
        PROVE  TablesNaming(ValueOf(Final(cs[n])), KeysTable(s)) = {}
    <3>1. Written(cs[n]) /\ ~Ambiguous(cs[n])
      BY DEF AllClear
    <3>2. cs[n].key # "Time"
      BY <2>1, <3>1, TimedForm
    <3>. QED BY <3>1, <3>2, NoColumn
  <2>. QED BY <1>3, <2>1 DEF Refused
<1>7. Outcomes(s) = {[state |-> "selected", rows |-> SelectedBy(c, KeysTable(s))]}
  BY <1>4, <1>5, <1>6 DEF Outcomes, c
<1>. QED BY <1>3, <1>7 DEF c

-----------------------------------------------------------------------------
(* The text is what its comparisons are written as, and what is found is   *)
(* what the condition of the text makes of it.                             *)
WellTyped ==
  /\ meant \in Seq(Comparisons)
  /\ opened \in DOMAIN Journal \cup {0}
  /\ state \in {"typed", "selected", "failed", "undefined"}

TextIsWritten ==
  IF meant = << >> THEN text = << >> ELSE Joined(text, Writing(meant, Len(meant)), Len(meant))

Found == meant # << >> /\ \E o \in Outcomes(text) : state = o.state /\ rows = o.rows

SearchInv ==
  /\ WellTyped
  /\ TextIsWritten
  /\ IF state = "typed" THEN rows = {} ELSE Found

(* Whatever a search ends with, rows of the journal are selected.          *)
LEMMA OutcomeTypes ==
  ASSUME NEW s, NEW o \in Outcomes(s)
  PROVE  /\ o.state \in {"selected", "failed", "undefined"}
         /\ o.rows \subseteq DOMAIN Journal
<1>1. SelectedBy(Condition(s), KeysTable(s)) \subseteq DOMAIN Journal
  BY DEF SelectedBy
<1>. QED BY <1>1 DEF Outcomes

(* The text of one comparison.                                             *)
LEMMA FirstWritten ==
  ASSUME NEW c, Written(c), NEW cs, cs = <<c>>
  PROVE  cs # << >> /\ Len(cs) = 1 /\ cs[1] = c /\ Joined(Compared(c), Writing(cs, Len(cs)), Len(cs))
<1>1. cs # << >> /\ Len(cs) = 1 /\ cs[1] = c
  OBVIOUS
<1>2. Joined(Compared(c), [n \in 1 .. 1 |-> Compared(c)], 1)
  BY ComparedType, OnePart
<1>3. Writing(cs, 1) = [n \in 1 .. 1 |-> Compared(c)]
  BY <1>1 DEF Writing
<1>. QED BY <1>1, <1>2, <1>3

(* The text of one comparison more.                                        *)
LEMMA OneMoreWritten ==
  ASSUME NEW cs \in Seq(Comparisons), cs # << >>, NEW s, Joined(s, Writing(cs, Len(cs)), Len(cs)),
         NEW c \in Comparisons, NEW ds, ds = Append(cs, c)
  PROVE  /\ ds # << >> /\ s # << >>
         /\ Joined(s \o <<And>> \o Compared(c), Writing(ds, Len(ds)), Len(ds))
<1>. DEFINE N == Len(cs)
            p == Compared(c)
<1>1. N \in Nat \ {0}
  BY LenProperties, EmptySeq
<1>2. /\ ds # << >> /\ Len(ds) = N + 1 /\ ds[N + 1] = c
      /\ \A n \in 1 .. N : ds[n] = cs[n]
  BY AppendProperties
<1>3. s # << >>
  <2>1. ASSUME NEW n \in 1 .. N
        PROVE  Len(Writing(cs, N)[n]) >= 1
    <3>1. cs[n] \in Comparisons
      BY ElementOfSeq
    <3>2. Writing(cs, N)[n] = Compared(cs[n])
      BY DEF Writing
    <3>. QED BY <3>1, <3>2, ComparisonsWritten, ComparedType
  <2>2. N <= Len(s)
    <3>. HIDE DEF N
    <3>. QED BY <1>1, <2>1, AsLongAsParts DEF N
  <2>3. Len(<< >>) = 0
    OBVIOUS
  <2>. QED BY <1>1, <2>2, <2>3
<1>4. p \in Seq(Token)
  BY ComparisonsWritten, ComparedType
<1>. HIDE DEF p, N
<1>5. Joined(s, Writing(cs, N), N)
  BY DEF N
<1>6. Joined(s \o <<And>> \o p, [n \in 1 .. N + 1 |-> IF n <= N THEN Writing(cs, N)[n] ELSE p], N + 1)
  BY <1>1, <1>4, <1>5, OnePartMore
<1>7. Writing(ds, N + 1) = [n \in 1 .. N + 1 |-> IF n <= N THEN Writing(cs, N)[n] ELSE p]
  <2>1. ASSUME NEW n \in 1 .. N + 1
        PROVE  Compared(ds[n]) = IF n <= N THEN Writing(cs, N)[n] ELSE p
    <3>1. CASE n <= N
      <4>1. n \in 1 .. N
        BY <1>1, <3>1
      <4>2. Writing(cs, N)[n] = Compared(cs[n])
        BY <4>1 DEF Writing
      <4>. QED BY <1>2, <3>1, <4>1, <4>2
    <3>2. CASE ~(n <= N)
      <4>1. n = N + 1
        BY <1>1, <3>2
      <4>. QED BY <1>2, <3>2, <4>1 DEF p
    <3>. QED BY <3>1, <3>2
  <2>. QED BY <2>1 DEF Writing
<1>8. Joined(s \o <<And>> \o p, Writing(ds, N + 1), N + 1)
  BY <1>6, <1>7
<1>. QED BY <1>2, <1>3, <1>8 DEF p

(* SearchInv holds at the beginning.                                       *)
LEMMA SearchStarts == Init => SearchInv
<1>1. SUFFICES ASSUME Init PROVE SearchInv
  OBVIOUS
<1>2. << >> \in Seq(Comparisons)
  BY EmptySeq
<1>. QED BY <1>1, <1>2 DEF Init, SearchInv, WellTyped, TextIsWritten

(* Every step keeps SearchInv, whatever the comparisons and the rows.      *)
LEMMA SearchPreserved == SearchInv /\ [Next]_vars => SearchInv'
<1>1. SUFFICES ASSUME SearchInv, [Next]_vars PROVE SearchInv'
  OBVIOUS
<1>2. WellTyped /\ TextIsWritten /\ IF state = "typed" THEN rows = {} ELSE Found
  BY <1>1 DEF SearchInv
<1>3. ASSUME NEW c \in Comparisons, Type(c)
      PROVE  SearchInv'
  <2>1. /\ state = "typed" /\ meant' = Append(meant, c) /\ text' = With(text, c)
        /\ opened' = opened /\ rows' = rows /\ state' = state
    BY <1>3 DEF Type
  <2>2. meant \in Seq(Comparisons)
    BY <1>2 DEF WellTyped
  <2>3. WellTyped'
    <3>1. Append(meant, c) \in Seq(Comparisons)
      BY <2>2, AppendProperties
    <3>. QED BY <1>2, <2>1, <3>1 DEF WellTyped
  <2>4. TextIsWritten'
    <3>1. CASE meant = << >>
      <4>1. text' = Compared(c) /\ meant' = <<c>>
        BY <1>2, <2>1, <3>1 DEF TextIsWritten, With
      <4>2. meant' # << >> /\ Joined(Compared(c), Writing(meant', Len(meant')), Len(meant'))
        <5>1. Written(c)
          BY ComparisonsWritten
        <5>. QED BY <4>1, <5>1, FirstWritten
      <4>. QED BY <4>1, <4>2 DEF TextIsWritten
    <3>2. CASE meant # << >>
      <4>1. Joined(text, Writing(meant, Len(meant)), Len(meant))
        BY <1>2, <3>2 DEF TextIsWritten
      <4>2. /\ meant' # << >> /\ text # << >>
            /\ Joined(text \o <<And>> \o Compared(c), Writing(meant', Len(meant')), Len(meant'))
        BY <2>1, <2>2, <3>2, <4>1, OneMoreWritten
      <4>3. text' = text \o <<And>> \o Compared(c)
        BY <2>1, <4>2 DEF With
      <4>. QED BY <4>2, <4>3 DEF TextIsWritten
    <3>. QED BY <3>1, <3>2
  <2>. QED BY <1>2, <2>1, <2>3, <2>4 DEF SearchInv
<1>4. ASSUME Enter
      PROVE  SearchInv'
  <2>1. state = "typed" /\ text # << >> /\ Find(text) /\ text' = text /\ meant' = meant /\ opened' = opened
    BY <1>4 DEF Enter
  <2>2. meant # << >>
    BY <1>2, <2>1 DEF TextIsWritten
  <2>3. Found' /\ state' \in {"selected", "failed", "undefined"}
    BY <2>1, <2>2, OutcomeTypes DEF Find, Found
  <2>4. WellTyped' /\ TextIsWritten'
    BY <1>2, <2>1, <2>3 DEF WellTyped, TextIsWritten
  <2>. QED BY <2>3, <2>4 DEF SearchInv
<1>5. ASSUME NEW i \in DOMAIN Journal, NEW k \in {"Event", "Usr"}, MenuFilter(i, k)
      PROVE  SearchInv'
  <2>. DEFINE v == IF k = "Event" THEN Journal[i].Event ELSE Journal[i].Usr
              c == Named(k, v)
  <2>1. meant' = <<c>> /\ text' = Compared(meant'[1]) /\ opened' = i /\ Find(text')
    BY <1>5 DEF MenuFilter
  <2>2. c \in Comparisons
    BY DEF Comparisons, Values
  <2>. HIDE DEF c
  <2>3. /\ meant' # << >> /\ Len(meant') = 1 /\ meant'[1] = c
        /\ Joined(Compared(c), Writing(meant', Len(meant')), Len(meant'))
    <3>1. Written(c)
      BY <2>2, ComparisonsWritten
    <3>. QED BY <2>1, <3>1, FirstWritten
  <2>4. meant' \in Seq(Comparisons)
    BY <2>1, <2>2
  <2>5. Found' /\ state' \in {"selected", "failed", "undefined"}
    BY <2>1, <2>3, OutcomeTypes DEF Find, Found
  <2>6. WellTyped' /\ TextIsWritten'
    BY <2>1, <2>3, <2>4, <2>5 DEF WellTyped, TextIsWritten
  <2>. QED BY <2>5, <2>6 DEF SearchInv
<1>6. ASSUME Clear
      PROVE  SearchInv'
  <2>1. << >> \in Seq(Comparisons)
    BY EmptySeq
  <2>. QED BY <1>6, <2>1 DEF Clear, SearchInv, WellTyped, TextIsWritten
<1>7. ASSUME UNCHANGED vars
      PROVE  SearchInv'
  BY <1>1, <1>7 DEF vars, SearchInv, WellTyped, TextIsWritten, Found
<1>. QED BY <1>1, <1>3, <1>4, <1>5, <1>6, <1>7 DEF Next

(* A search for comparisons with unambiguous values is answered, by its    *)
(* finished parts.                                                         *)
LEMMA Unambiguous ==
  ASSUME SearchInv, state # "typed", \A j \in DOMAIN meant : ~Ambiguous(meant[j])
  PROVE  /\ state = "selected" /\ rows = SelectedBy(Condition(text), KeysTable(text))
         /\ Parts(Condition(text)) = {Final(meant[n]) : n \in 1 .. Len(meant)}
         /\ DOMAIN meant = 1 .. Len(meant) /\ \A n \in 1 .. Len(meant) : Written(meant[n])
<1>1. WellTyped /\ TextIsWritten /\ Found
  BY DEF SearchInv
<1>2. meant \in Seq(Comparisons) /\ meant # << >>
  BY <1>1 DEF WellTyped, Found
<1>3. DOMAIN meant = 1 .. Len(meant) /\ Len(meant) \in Nat \ {0}
  BY <1>2, LenProperties, EmptySeq
<1>4. \A n \in 1 .. Len(meant) : Written(meant[n])
  BY <1>2, ElementOfSeq, ComparisonsWritten
<1>5. AllClear(meant, Len(meant))
  BY <1>3, <1>4 DEF AllClear
<1>6. Joined(text, Writing(meant, Len(meant)), Len(meant))
  BY <1>1, <1>2 DEF TextIsWritten
<1>7. /\ Outcomes(text) = {[state |-> "selected", rows |-> SelectedBy(Condition(text), KeysTable(text))]}
      /\ Parts(Condition(text)) = {Final(meant[n]) : n \in 1 .. Len(meant)}
  BY <1>3, <1>5, <1>6, Outcome
<1>8. state = "selected" /\ rows = SelectedBy(Condition(text), KeysTable(text))
  BY <1>1, <1>7 DEF Found
<1>. QED BY <1>3, <1>4, <1>7, <1>8

(* What is not answered has an ambiguous value, since all else is.         *)
LEMMA TypeFollows == SearchInv => TypeOK
<1>1. SUFFICES ASSUME SearchInv PROVE TypeOK
  OBVIOUS
<1>2. rows \subseteq DOMAIN Journal
  BY <1>1, OutcomeTypes DEF SearchInv, Found
<1>3. state \in {"failed", "undefined"} => \E i \in DOMAIN meant : Ambiguous(meant[i])
  BY <1>1, Unambiguous
<1>. QED BY <1>1, <1>2, <1>3 DEF TypeOK, SearchInv, WellTyped

(* What the finished parts select is what the comparisons mean.            *)
LEMMA ExactFollows == SearchInv => FilterIsExact
<1>1. SUFFICES ASSUME SearchInv, state # "typed",
                      \A j \in DOMAIN meant : ~Ambiguous(meant[j])
               PROVE  rows = Meant(meant)
  BY DEF FilterIsExact
<1>2. /\ rows = SelectedBy(Condition(text), KeysTable(text))
      /\ Parts(Condition(text)) = {Final(meant[n]) : n \in 1 .. Len(meant)}
      /\ DOMAIN meant = 1 .. Len(meant) /\ \A n \in 1 .. Len(meant) : Written(meant[n])
  BY <1>1, Unambiguous
<1>3. ASSUME NEW r \in DOMAIN Journal, NEW n \in 1 .. Len(meant)
      PROVE  Satisfies(Journal[r], Final(meant[n]), KeysTable(text)) <=> Means(meant[n], Journal[r])
  BY <1>1, <1>2, SatisfiesMeans
<1>4. ASSUME NEW r \in DOMAIN Journal
      PROVE  (\A p \in Parts(Condition(text)) : Satisfies(Journal[r], p, KeysTable(text)))
               <=> \A j \in DOMAIN meant : Means(meant[j], Journal[r])
  BY <1>2, <1>3
<1>. QED BY <1>2, <1>4 DEF SelectedBy, Meant

(* A search is refused, or ends in what is undefined, only for a text with *)
(* a value that contains a key word or a quotation mark or has the letters *)
(* of a column, for every journal and every text of comparisons.           *)
THEOREM SearchTyped == Spec => []TypeOK
<1>1. Spec => []SearchInv
  BY SearchStarts, SearchPreserved, PTL DEF Spec
<1>. QED BY <1>1, TypeFollows, PTL

(* For all other values the rewriting of a text by key words and quotes is *)
(* the meaning of its comparisons: exactly the rows that all of them mean  *)
(* are selected, and of a stamp no more than the last field is lost.       *)
THEOREM FilterAlwaysExact == Spec => []FilterIsExact
<1>1. Spec => []SearchInv
  BY SearchStarts, SearchPreserved, PTL DEF Spec
<1>. QED BY <1>1, ExactFollows, PTL
=============================================================================
