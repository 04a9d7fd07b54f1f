---------------------------- MODULE MessageProofs ----------------------------
(***************************************************************************)
(* Theorems about Message for any names, any bound on a body and both      *)
(* converters.                                                             *)
(***************************************************************************)
EXTENDS Message, FiniteSetTheorems, SequenceTheorems, WellFoundedInduction, TLAPS

(* Induction, as facts about sets of numbers.                               *)
Less == {ss \in Nat \X Nat : ss[1] < ss[2]}

LEMMA LessWF == IsWellFoundedOn(Less, Nat)
BY NatLessThanWellFounded DEF Less, OpToRel

LEMMA Least ==
    ASSUME NEW T, T \subseteq Nat, T # {}
    PROVE  \E x \in T : \A y \in T : x <= y
<1>1. PICK x \in T : \A y \in T : <<y, x>> \notin Less
  BY LessWF, WFMin
<1>2. ASSUME NEW y \in T PROVE x <= y
  <2>1. <<y, x>> \in Nat \X Nat /\ <<y, x>>[1] = y /\ <<y, x>>[2] = x
    OBVIOUS
  <2>2. ~(y < x)
    BY <1>1, <2>1 DEF Less
  <2> QED BY <2>2
<1> QED BY <1>2

LEMMA Induction ==
    ASSUME NEW T, 0 \in T, \A n \in Nat : n \in T => n + 1 \in T
    PROVE  Nat \subseteq T
<1> SUFFICES ASSUME Nat \ T # {} PROVE FALSE
  OBVIOUS
<1>1. PICK x \in Nat \ T : \A y \in Nat \ T : x <= y
  BY Least
<1>2. x # 0 /\ x - 1 \in Nat
  BY <1>1
<1>3. x - 1 \in T
  BY <1>1, <1>2
<1> QED BY <1>1, <1>2, <1>3

-----------------------------------------------------------------------------
(* FlattenSeq.                                                              *)

(* f[i] is the first i sequences of s, one behind the other.                *)
Joins(f, s, k) ==
    \A i \in 1..k : f[i] = IF i = 1 THEN s[i] ELSE f[i - 1] \o s[i]

LEMMA JoinsExists ==
    ASSUME NEW B, NEW s \in Seq(Seq(B))
    PROVE  \E f \in [1..Len(s) -> Seq(B)] : Joins(f, s, Len(s))
<1> DEFINE n == Len(s)
           T == {k \in Nat : k <= n => \E f \in [1..k -> Seq(B)] : Joins(f, s, k)}
<1>1. n \in Nat /\ \A i \in 1..n : s[i] \in Seq(B)
  OBVIOUS
<1> HIDE DEF n
<1>2. 0 \in T
  <2>1. [i \in 1..0 |-> <<>>] \in [1..0 -> Seq(B)]
    OBVIOUS
  <2>2. Joins([i \in 1..0 |-> <<>>], s, 0)
    BY DEF Joins
  <2> QED BY <2>1, <2>2
<1>3. ASSUME NEW k \in Nat, k \in T, k + 1 <= n
      PROVE  \E f \in [1..k + 1 -> Seq(B)] : Joins(f, s, k + 1)
  <2>1. PICK g \in [1..k -> Seq(B)] : Joins(g, s, k)
    BY <1>1, <1>3
  <2> DEFINE last == IF k = 0 THEN s[k + 1] ELSE g[k] \o s[k + 1]
             f == [i \in 1..k + 1 |-> IF i = k + 1 THEN last ELSE g[i]]
  <2>2. last \in Seq(B)
    <3>1. s[k + 1] \in Seq(B)
      BY <1>1, <1>3
    <3>2. k # 0 => g[k] \in Seq(B)
      OBVIOUS
    <3> QED BY <3>1, <3>2
  <2>3. f \in [1..k + 1 -> Seq(B)]
    <3> HIDE DEF last
    <3>1. ASSUME NEW i \in 1..k + 1, i # k + 1 PROVE i \in 1..k
      BY <3>1
    <3> QED BY <2>2, <3>1
  <2>4. ASSUME NEW i \in 1..k + 1
        PROVE  f[i] = IF i = 1 THEN s[i] ELSE f[i - 1] \o s[i]
    <3>1. CASE i = k + 1
      <4>1. f[i] = last
        BY <3>1
      <4>2. k # 0 => f[i - 1] = g[k] /\ i - 1 = k
        BY <3>1
      <4>3. (i = 1) <=> (k = 0)
        BY <3>1
      <4> QED BY <3>1, <4>1, <4>2, <4>3
    <3>2. CASE i # k + 1
      <4>1. i \in 1..k /\ f[i] = g[i]
        BY <3>2
      <4>2. g[i] = IF i = 1 THEN s[i] ELSE g[i - 1] \o s[i]
        BY <2>1, <4>1 DEF Joins
      <4>3. i # 1 => f[i - 1] = g[i - 1]
        BY <3>2
      <4> HIDE DEF f
      <4> QED BY <4>1, <4>2, <4>3
    <3> QED BY <3>1, <3>2
  <2> HIDE DEF f
  <2> QED BY <2>3, <2>4 DEF Joins
<1>4. Nat \subseteq T
  <2>1. \A k \in Nat : k \in T => k + 1 \in T
    BY <1>3
  <2> HIDE DEF T
  <2> QED BY <1>2, <2>1, Induction
<1>5. n \in T
  BY <1>1, <1>4
<1> QED BY <1>1, <1>5 DEF n

LEMMA JoinsType ==
    ASSUME NEW B, NEW s \in Seq(Seq(B)), NEW f, Joins(f, s, Len(s)),
           NEW i \in 1..Len(s)
    PROVE  f[i] \in Seq(B)
<1> DEFINE n == Len(s)
           T == {k \in Nat : k \in 1..n => f[k] \in Seq(B)}
<1>1. n \in Nat /\ (\A k \in 1..n : s[k] \in Seq(B)) /\ i \in 1..n
  OBVIOUS
<1> HIDE DEF n
<1>2. \A k \in 1..n : f[k] = IF k = 1 THEN s[k] ELSE f[k - 1] \o s[k]
  BY DEF Joins, n
<1>3. ASSUME NEW k \in Nat, k \in T, k + 1 \in 1..n PROVE f[k + 1] \in Seq(B)
  <2>1. CASE k = 0
    BY <1>1, <1>2, <1>3, <2>1
  <2>2. CASE k # 0
    <3>1. f[k] \in Seq(B) /\ s[k + 1] \in Seq(B)
      BY <1>1, <1>3, <2>2
    <3>2. k + 1 # 1 /\ k + 1 \in 1..n /\ (k + 1) - 1 = k
      BY <1>3, <2>2
    <3>3. f[k + 1] = f[(k + 1) - 1] \o s[k + 1]
      BY <1>2, <3>2
    <3> QED BY <3>1, <3>2, <3>3
  <2> QED BY <2>1, <2>2
<1>4. Nat \subseteq T
  <2>1. \A k \in Nat : k \in T => k + 1 \in T
    BY <1>3
  <2>2. 0 \in T
    BY <1>1
  <2> HIDE DEF T
  <2> QED BY <2>1, <2>2, Induction
<1>5. i \in T
  BY <1>1, <1>4
<1> QED BY <1>1, <1>5

(* What FlattenSeq gives is the last of such partial results.               *)
LEMMA FlattenJoins ==
    ASSUME NEW B, NEW s \in Seq(Seq(B)), Len(s) # 0
    PROVE  \E f : /\ Joins(f, s, Len(s)) /\ FlattenSeq(s) = f[Len(s)]
                  /\ \A i \in 1..Len(s) : f[i] \in Seq(B)
<1> DEFINE n == Len(s)
           Law(f) == f = [i \in 1..n |-> IF i = 1 THEN s[i] ELSE f[i - 1] \o s[i]]
           g == CHOOSE f : Law(f)
<1>1. \E f : Law(f)
  <2>1. PICK f \in [1..n -> Seq(B)] : Joins(f, s, n)
    BY JoinsExists
  <2>2. f = [i \in 1..n |-> f[i]]
    OBVIOUS
  <2>3. \A i \in 1..n : f[i] = IF i = 1 THEN s[i] ELSE f[i - 1] \o s[i]
    BY <2>1 DEF Joins
  <2>4. Law(f)
    <3> DEFINE h == [i \in 1..n |-> IF i = 1 THEN s[i] ELSE f[i - 1] \o s[i]]
    <3>1. \A i \in 1..n : h[i] = f[i]
      BY <2>3
    <3>2. h = [i \in 1..n |-> h[i]]
      OBVIOUS
    <3> HIDE DEF h, n
    <3>3. f = h
      BY <2>2, <3>1, <3>2
    <3> QED BY <3>3 DEF h
  <2> QED BY <2>4
<1>2. Law(g)
  BY <1>1
<1>3. FlattenSeq(s) = g[n]
  BY DEF FlattenSeq
<1>4. Joins(g, s, n)
  <2> HIDE DEF g, n
  <2> QED BY <1>2 DEF Joins
<1> HIDE DEF g
<1> QED BY <1>3, <1>4, JoinsType

LEMMA JoinsNext ==
    ASSUME NEW f, NEW s, NEW n \in Nat, Joins(f, s, n), NEW j \in Nat, j + 1 \in 1..n
    PROVE  f[j + 1] = IF j = 0 THEN s[j + 1] ELSE f[j] \o s[j + 1]
<1>1. f[j + 1] = IF j + 1 = 1 THEN s[j + 1] ELSE f[(j + 1) - 1] \o s[j + 1]
  BY DEF Joins
<1>2. (j + 1) - 1 = j /\ (j + 1 = 1 <=> j = 0)
  OBVIOUS
<1> QED BY <1>1, <1>2

LEMMA Behind ==
    ASSUME NEW B, NEW u \in Seq(B), NEW v \in Seq(B)
    PROVE  /\ u \o v \in Seq(B) /\ Len(u \o v) = Len(u) + Len(v)
           /\ \A i \in 1..Len(u) : i \in 1..Len(u \o v) /\ (u \o v)[i] = u[i]
           /\ \A i \in 1..Len(v) : /\ Len(u) + i \in 1..Len(u \o v)
                                   /\ (u \o v)[Len(u) + i] = v[i]
OBVIOUS

(* Where every sequence so far has one element, the result is theirs.       *)
LEMMA JoinsSingles ==
    ASSUME NEW B, NEW b \in Seq(B), NEW s, NEW f, NEW n \in Nat, Joins(f, s, n),
           NEW k \in 0..n, k <= Len(b), \A i \in 1..k : s[i] = <<b[i]>>
    PROVE  k # 0 => f[k] = SubSeq(b, 1, k)
<1> DEFINE T == {j \in Nat : j \in 1..k => f[j] = SubSeq(b, 1, j)}
<1>1. 0 \in T
  OBVIOUS
<1>2. ASSUME NEW j \in Nat, j \in T, j + 1 \in 1..k
      PROVE  f[j + 1] = SubSeq(b, 1, j + 1)
  <2>1. j + 1 \in 1..n /\ s[j + 1] = <<b[j + 1]>> /\ j + 1 \in 1..Len(b)
    BY <1>2
  <2>2. CASE j = 0
    <3>1. j + 1 = 1 /\ 1 \in 1..Len(b)
      BY <2>1, <2>2
    <3>2. f[j + 1] = s[j + 1]
      BY <2>1, <2>2, JoinsNext
    <3>3. f[1] = <<b[1]>>
      BY <2>1, <3>1, <3>2
    <3>4. SubSeq(b, 1, 1) = Append(SubSeq(b, 1, 0), b[1]) /\ SubSeq(b, 1, 0) = <<>>
      BY <3>1
    <3>5. Append(<<>>, b[1]) = <<b[1]>>
      OBVIOUS
    <3> QED BY <3>1, <3>3, <3>4, <3>5
  <2>3. CASE j # 0
    <3>0. f[j + 1] = IF j = 0 THEN s[j + 1] ELSE f[j] \o s[j + 1]
      <4>1. j + 1 \in 1..n
        BY <2>1
      <4> HIDE DEF T
      <4> QED BY <4>1, JoinsNext
    <3>1. f[j + 1] = f[j] \o s[j + 1]
      BY <2>3, <3>0
    <3>2. f[j] = SubSeq(b, 1, j)
      BY <1>2, <2>3
    <3>3. f[j + 1] = SubSeq(b, 1, j) \o <<b[j + 1]>>
      BY <2>1, <3>1, <3>2
    <3>4. SubSeq(b, 1, j) \o <<b[j + 1]>> = SubSeq(b, 1, j + 1)
      BY <2>1
    <3> QED BY <3>3, <3>4
  <2> QED BY <2>2, <2>3
<1>3. Nat \subseteq T
  <2>1. \A j \in Nat : j \in T => j + 1 \in T
    BY <1>2
  <2> HIDE DEF T
  <2> QED BY <1>1, <2>1, Induction
<1> QED BY <1>3

(* What is there stays at its place.                                        *)
BytesJoin(f, s, n) ==
    /\ Joins(f, s, n)
    /\ \A i \in 1..n : s[i] \in Seq(Bytes) /\ f[i] \in Seq(Bytes)

Extended(f, k, n) ==
    \A p \in 1..Len(f[k]) : p \in 1..Len(f[n]) /\ f[n][p] = f[k][p]

LEMMA JoinsPrefix ==
    ASSUME NEW n \in Nat, NEW s, NEW f, BytesJoin(f, s, n), NEW k \in 1..n
    PROVE  Extended(f, k, n)
<1> SUFFICES ASSUME NEW p \in 1..Len(f[k])
             PROVE  p \in 1..Len(f[n]) /\ f[n][p] = f[k][p]
  BY DEF Extended
<1> DEFINE T == {j \in Nat : j \in k..n => p \in 1..Len(f[j]) /\ f[j][p] = f[k][p]}
<1>1. n \in Nat /\ k \in 1..n /\ \A i \in 1..n : s[i] \in Seq(Bytes)
  BY DEF BytesJoin
<1>2. \A i \in 1..n : f[i] \in Seq(Bytes)
  BY DEF BytesJoin
<1>3. \A i \in 1..n : f[i] = IF i = 1 THEN s[i] ELSE f[i - 1] \o s[i]
  BY DEF BytesJoin, Joins
<1>4. 0 \in T
  BY <1>1
<1>5. ASSUME NEW j \in Nat, j \in T, j + 1 \in k..n
      PROVE  p \in 1..Len(f[j + 1]) /\ f[j + 1][p] = f[k][p]
  <2>1. CASE j + 1 = k
    BY <2>1
  <2>2. CASE j + 1 # k
    <3>1. j \in k..n /\ j + 1 # 1 /\ j + 1 \in 1..n /\ j \in 1..n /\ (j + 1) - 1 = j
      BY <1>1, <1>5, <2>2
    <3>2. f[j + 1] = f[j] \o s[j + 1]
      BY <1>3, <3>1
    <3>3. f[j] \in Seq(Bytes) /\ s[j + 1] \in Seq(Bytes)
      BY <1>1, <1>2, <3>1
    <3>4. p \in 1..Len(f[j]) /\ f[j][p] = f[k][p]
      BY <1>5, <3>1
    <3>5. p \in 1..Len(f[j] \o s[j + 1]) /\ (f[j] \o s[j + 1])[p] = f[j][p]
      <4> DEFINE u == f[j]
                 v == s[j + 1]
      <4>1. u \in Seq(Bytes) /\ v \in Seq(Bytes) /\ p \in 1..Len(u)
        BY <3>3, <3>4
      <4> HIDE DEF u, v
      <4>2. p \in 1..Len(u \o v) /\ (u \o v)[p] = u[p]
        BY <4>1, Behind
      <4> QED BY <4>2 DEF u, v
    <3> QED BY <3>2, <3>4, <3>5
  <2> QED BY <2>1, <2>2
<1>6. Nat \subseteq T
  <2>1. \A j \in Nat : j \in T => j + 1 \in T
    BY <1>5
  <2> HIDE DEF T
  <2> QED BY <1>4, <2>1, Induction
<1>7. n \in T /\ n \in k..n
  BY <1>1, <1>6
<1> QED BY <1>7

-----------------------------------------------------------------------------
(* The conversion of a body.                                                *)

Piece(b, i) ==
    IF b[i] \in {"a", "s"} \/ (utf8 /\ ~Stray(b, i)) THEN <<b[i]>>
    ELSE IF Continues(b, i) THEN <<>>
    ELSE IF utf8 THEN Replacement ELSE <<"s">>

Pieces(b) == [i \in 1..Len(b) |-> Piece(b, i)]

LEMMA ConvertedPieces ==
    ASSUME NEW b \in Seq(Bytes)
    PROVE  Converted(b) = FlattenSeq(Pieces(b))
BY DEF Converted, Pieces, Piece

LEMMA Literals ==
    /\ Replacement \in Seq(Bytes) /\ Len(Replacement) = 3
    /\ Replacement[1] = "r1" /\ Replacement[2] = "r2" /\ Replacement[3] = "r3"
    /\ \A c \in Bytes : <<c>> \in Seq(Bytes)
    /\ \A c \in {"a", "s"} : <<c>> \in Seq({"a", "s"})
    /\ <<>> \in Seq(Bytes) /\ <<>> \in Seq({"a", "s"})
    /\ "s" \in Bytes /\ "s" \in {"a", "s"}
BY DEF Bytes, Replacement

LEMMA PieceOf ==
    ASSUME NEW b \in Seq(Bytes), NEW i \in 1..Len(b)
    PROVE  /\ Piece(b, i) \in Seq(Bytes)
           /\ b[i] \in {"a", "s"} => Piece(b, i) = <<b[i]>>
           /\ utf8 /\ ~Stray(b, i) => Piece(b, i) = <<b[i]>>
           /\ ~utf8 => Piece(b, i) \in Seq({"a", "s"})
<1>1. b[i] \in Bytes
  OBVIOUS
<1>2. CASE b[i] \in {"a", "s"} \/ (utf8 /\ ~Stray(b, i))
  <2>1. Piece(b, i) = <<b[i]>>
    BY <1>2 DEF Piece
  <2> QED BY <1>1, <1>2, <2>1, Literals
<1>3. CASE ~(b[i] \in {"a", "s"} \/ (utf8 /\ ~Stray(b, i)))
  <2>1. Piece(b, i) = IF Continues(b, i) THEN <<>> ELSE IF utf8 THEN Replacement ELSE <<"s">>
    BY <1>3 DEF Piece
  <2> QED BY <1>3, <2>1, Literals
<1> QED BY <1>2, <1>3

(* In UTF-8 a stray byte becomes U+FFFD, if it does not go with a beginning *)
(* of U+FFFD before it.                                                     *)
LEMMA StrayPiece ==
    ASSUME NEW b \in Seq(Bytes), NEW i \in 1..Len(b), utf8, Stray(b, i)
    PROVE  /\ b[i] \in {"h", "t", "r1", "r2", "r3"}
           /\ ~(b[i] = "r2" /\ i > 1 /\ b[i - 1] = "r1") => Piece(b, i) = Replacement
           /\ b[i] = "r2" /\ i > 1 /\ b[i - 1] = "r1" => Piece(b, i) = <<>>
<1>1. b[i] \in {"h", "t", "r1", "r2", "r3"}
  BY DEF Stray
<1>2. Continues(b, i) <=> b[i] = "r2" /\ i > 1 /\ b[i - 1] = "r1"
  BY DEF Continues
<1>3. Piece(b, i) = IF Continues(b, i) THEN <<>> ELSE Replacement
  BY <1>1 DEF Piece
<1> QED BY <1>1, <1>2, <1>3

LEMMA PiecesType ==
    ASSUME NEW b \in Seq(Bytes), NEW B, \A i \in 1..Len(b) : Piece(b, i) \in Seq(B)
    PROVE  /\ Pieces(b) \in Seq(Seq(B)) /\ Len(Pieces(b)) = Len(b)
           /\ \A i \in 1..Len(b) : Pieces(b)[i] = Piece(b, i)
BY DEF Pieces

LEMMA ConvertedIn ==
    ASSUME NEW b \in Seq(Bytes), NEW B, \A i \in 1..Len(b) : Piece(b, i) \in Seq(B)
    PROVE  Converted(b) \in Seq(B)
<1>1. Pieces(b) \in Seq(Seq(B)) /\ Len(Pieces(b)) = Len(b)
  BY PiecesType
<1>2. CASE Len(b) = 0
  <2>1. FlattenSeq(Pieces(b)) = Pieces(b)
    BY <1>1, <1>2 DEF FlattenSeq
  <2>2. Pieces(b) = <<>>
    BY <1>1, <1>2
  <2>3. Converted(b) = FlattenSeq(Pieces(b))
    BY ConvertedPieces
  <2>4. <<>> \in Seq(B)
    OBVIOUS
  <2> QED BY <2>1, <2>2, <2>3, <2>4
<1>3. CASE Len(b) # 0
  <2>1. PICK f : /\ FlattenSeq(Pieces(b)) = f[Len(Pieces(b))]
                 /\ \A i \in 1..Len(Pieces(b)) : f[i] \in Seq(B)
    BY <1>1, <1>3, FlattenJoins
  <2>2. Len(b) \in 1..Len(b)
    BY <1>3
  <2> QED BY <1>1, <2>1, <2>2, ConvertedPieces
<1> QED BY <1>2, <1>3

LEMMA ConvertedType ==
    ASSUME NEW b \in Seq(Bytes)
    PROVE  /\ Converted(b) \in Seq(Bytes)
           /\ ~utf8 => Converted(b) \in Seq({"a", "s"})
BY PieceOf, ConvertedIn

(* Text in the converter's character set is left as it is.                  *)
LEMMA ConvertedSame ==
    ASSUME NEW b \in Seq(Bytes), \A i \in 1..Len(b) : Piece(b, i) = <<b[i]>>
    PROVE  Converted(b) = b
<1>1. \A i \in 1..Len(b) : Piece(b, i) \in Seq(Bytes)
  BY PieceOf
<1>2. /\ Pieces(b) \in Seq(Seq(Bytes)) /\ Len(Pieces(b)) = Len(b)
      /\ \A i \in 1..Len(b) : Pieces(b)[i] = Piece(b, i)
  BY <1>1, PiecesType
<1>3. CASE Len(b) = 0
  <2>1. FlattenSeq(Pieces(b)) = Pieces(b)
    BY <1>2, <1>3 DEF FlattenSeq
  <2>2. Pieces(b) = <<>> /\ b = <<>>
    BY <1>2, <1>3
  <2> QED BY <2>1, <2>2, ConvertedPieces
<1>4. CASE Len(b) # 0
  <2>1. PICK f : /\ Joins(f, Pieces(b), Len(b)) /\ Converted(b) = f[Len(b)]
    BY <1>2, <1>4, FlattenJoins, ConvertedPieces
  <2>2. f[Len(b)] = SubSeq(b, 1, Len(b))
    <3>1. Len(b) \in Nat /\ Len(b) \in 0..Len(b) /\ Len(b) <= Len(b)
      OBVIOUS
    <3>2. \A i \in 1..Len(b) : Pieces(b)[i] = <<b[i]>>
      BY <1>2
    <3> QED BY <1>4, <2>1, <3>1, <3>2, JoinsSingles
  <2>3. SubSeq(b, 1, Len(b)) = b
    OBVIOUS
  <2> QED BY <2>1, <2>2, <2>3
<1> QED BY <1>3, <1>4

(* What is whole in the first bytes of a body is whole in the body.         *)
LEMMA StrayBefore ==
    ASSUME NEW b \in Seq(Bytes), NEW q \in 0..Len(b), NEW t \in Seq(Bytes),
           Len(t) = q, \A i \in 1..q : t[i] = b[i],
           NEW i \in 1..q, ~Stray(t, i)
    PROVE  ~Stray(b, i)
<1>1. \A k : Replaced(t, k) => Replaced(b, k)
  <2> SUFFICES ASSUME NEW k, Replaced(t, k) PROVE Replaced(b, k)
    OBVIOUS
  <2>1. k \in 1..q - 2 /\ t[k] = "r1" /\ t[k + 1] = "r2" /\ t[k + 2] = "r3"
    BY DEF Replaced
  <2>2. k \in 1..Len(b) - 2 /\ k \in 1..q /\ k + 1 \in 1..q /\ k + 2 \in 1..q
    BY <2>1
  <2> QED BY <2>1, <2>2 DEF Replaced
<1>2. t[i] = b[i] /\ i \in 1..Len(b)
  OBVIOUS
<1>3. CASE b[i] = "h"
  <2>1. i # q /\ t[i + 1] = "t"
    BY <1>2, <1>3 DEF Stray
  <2>2. i + 1 \in 1..q /\ i # Len(b)
    BY <2>1
  <2> QED BY <1>3, <2>1, <2>2 DEF Stray
<1>4. CASE b[i] = "t"
  <2>1. i # 1 /\ t[i - 1] = "h"
    BY <1>2, <1>4 DEF Stray
  <2>2. i - 1 \in 1..q
    BY <2>1
  <2> QED BY <1>4, <2>1, <2>2 DEF Stray
<1>5. CASE b[i] = "r1"
  BY <1>1, <1>2, <1>5 DEF Stray
<1>6. CASE b[i] = "r2"
  BY <1>1, <1>2, <1>6 DEF Stray
<1>7. CASE b[i] = "r3"
  BY <1>1, <1>2, <1>7 DEF Stray
<1>8. CASE b[i] \notin {"h", "t", "r1", "r2", "r3"}
  BY <1>8 DEF Stray
<1> QED BY <1>3, <1>4, <1>5, <1>6, <1>7, <1>8

(* The bytes of a U+FFFD are whole.                                         *)
LEMMA ReplacedWhole ==
    ASSUME NEW b \in Seq(Bytes), NEW k, Replaced(b, k)
    PROVE  /\ k \in 1..Len(b) - 2
           /\ ~Stray(b, k) /\ ~Stray(b, k + 1) /\ ~Stray(b, k + 2)
<1>1. k \in 1..Len(b) - 2 /\ b[k] = "r1" /\ b[k + 1] = "r2" /\ b[k + 2] = "r3"
  BY DEF Replaced
<1>2. (k + 1) - 1 = k /\ (k + 2) - 2 = k
  BY <1>1
<1>3. ~Stray(b, k)
  BY <1>1 DEF Stray
<1>4. ~Stray(b, k + 1)
  BY <1>1, <1>2 DEF Stray
<1>5. ~Stray(b, k + 2)
  BY <1>1, <1>2 DEF Stray
<1> QED BY <1>1, <1>3, <1>4, <1>5

(* What is whole in a body that ends with a U+FFFD is whole in the bytes    *)
(* before it.                                                               *)
LEMMA StrayAfter ==
    ASSUME NEW b \in Seq(Bytes), NEW q \in 0..Len(b), NEW t \in Seq(Bytes),
           Len(t) = q, \A i \in 1..q : t[i] = b[i],
           NEW k \in 1..q, b[k] = "r1", NEW i \in 1..k - 1, ~Stray(b, i)
    PROVE  ~Stray(t, i)
<1>1. ASSUME NEW j \in 1..k - 1, Replaced(b, j) PROVE Replaced(t, j)
  <2>1. b[j] = "r1" /\ b[j + 1] = "r2" /\ b[j + 2] = "r3"
    BY <1>1 DEF Replaced
  <2>2. j + 1 # k /\ j + 2 # k
    BY <2>1
  <2>3. j \in 1..q /\ j + 1 \in 1..q /\ j + 2 \in 1..q /\ j \in 1..q - 2
    BY <2>2
  <2> QED BY <2>1, <2>3 DEF Replaced
<1>2. t[i] = b[i] /\ i \in 1..q /\ i \in 1..Len(b)
  OBVIOUS
<1>3. CASE b[i] = "h"
  <2>1. i # Len(b) /\ b[i + 1] = "t"
    BY <1>3 DEF Stray
  <2>2. i + 1 # k
    BY <2>1
  <2>3. i + 1 \in 1..q /\ i # q
    BY <2>2
  <2> QED BY <1>2, <1>3, <2>1, <2>3 DEF Stray
<1>4. CASE b[i] = "t"
  <2>1. i # 1 /\ b[i - 1] = "h"
    BY <1>4 DEF Stray
  <2>2. i - 1 \in 1..q
    BY <2>1
  <2> QED BY <1>2, <1>4, <2>1, <2>2 DEF Stray
<1>5. CASE b[i] = "r1"
  BY <1>1, <1>2, <1>5 DEF Stray
<1>6. CASE b[i] = "r2"
  <2>1. Replaced(b, i - 1)
    BY <1>6 DEF Stray
  <2>2. i - 1 \in 1..k - 1
    BY <2>1, ReplacedWhole
  <2> QED BY <1>1, <1>2, <1>6, <2>1, <2>2 DEF Stray
<1>7. CASE b[i] = "r3"
  <2>1. Replaced(b, i - 2)
    BY <1>7 DEF Stray
  <2>2. i - 2 \in 1..k - 1
    BY <2>1, ReplacedWhole
  <2> QED BY <1>1, <1>2, <1>7, <2>1, <2>2 DEF Stray
<1>8. CASE b[i] \notin {"h", "t", "r1", "r2", "r3"}
  BY <1>2, <1>8 DEF Stray
<1> QED BY <1>3, <1>4, <1>5, <1>6, <1>7, <1>8

(* What the conversion puts at the first byte that is no part of a whole    *)
(* character, with what it leaves as it is before it: f[i] is what it makes *)
(* of the first i bytes of t.                                               *)
Resumes(t, q, k, f) ==
    /\ Joins(f, Pieces(t), q) /\ Converted(t) = f[q]
    /\ \A i \in 1..q : f[i] \in Seq(Bytes) /\ Pieces(t)[i] \in Seq(Bytes)
    /\ f[k] = SubSeq(t, 1, k - 1) \o Replacement
    /\ Len(f[k]) = k + 2
    /\ f[k][k] = "r1" /\ f[k][k + 1] = "r2" /\ f[k][k + 2] = "r3"
    /\ \A i \in 1..k - 1 : f[k][i] = t[i]

LEMMA FirstStray ==
    ASSUME utf8, NEW t \in Seq(Bytes), NEW q \in Nat, Len(t) = q, NEW k \in 1..q,
           \A i \in 1..k - 1 : ~Stray(t, i), Piece(t, k) = Replacement
    PROVE  \E f : Resumes(t, q, k, f)
<1>1. /\ Pieces(t) \in Seq(Seq(Bytes)) /\ Len(Pieces(t)) = q
      /\ \A i \in 1..q : Pieces(t)[i] = Piece(t, i) /\ Piece(t, i) \in Seq(Bytes)
  BY PieceOf, PiecesType
<1>2. PICK f : /\ Joins(f, Pieces(t), q) /\ Converted(t) = f[q]
               /\ \A i \in 1..q : f[i] \in Seq(Bytes)
  <2>1. q # 0
    OBVIOUS
  <2>2. PICK f : /\ Joins(f, Pieces(t), Len(Pieces(t)))
                 /\ FlattenSeq(Pieces(t)) = f[Len(Pieces(t))]
                 /\ \A i \in 1..Len(Pieces(t)) : f[i] \in Seq(Bytes)
    BY <1>1, <2>1, FlattenJoins
  <2>3. Converted(t) = FlattenSeq(Pieces(t))
    BY ConvertedPieces
  <2> QED BY <1>1, <2>2, <2>3
<1> DEFINE d == k - 1
           s == Pieces(t)
           u == SubSeq(t, 1, d)
<1>3. d \in 0..q /\ d <= Len(t) /\ k = d + 1 /\ d \in Nat
  OBVIOUS
<1>4. \A i \in 1..d : s[i] = <<t[i]>>
  <2> SUFFICES ASSUME NEW i \in 1..d PROVE s[i] = <<t[i]>>
    OBVIOUS
  <2>1. i \in 1..q /\ ~Stray(t, i)
    BY <1>3
  <2> QED BY <1>1, <2>1, PieceOf
<1>5. d # 0 => f[d] = u
  <2>1. Joins(f, s, q)
    BY <1>2
  <2> HIDE DEF d, s
  <2> QED BY <1>3, <1>4, <2>1, JoinsSingles DEF u
<1>6. /\ u \in Seq(Bytes) /\ Len(u) = d /\ (d = 0 => u = <<>>)
      /\ \A i \in 1..d : u[i] = t[i]
  BY <1>3
<1>7. f[k] = u \o Replacement
  <2>1. f[k] = IF k = 1 THEN s[k] ELSE f[k - 1] \o s[k]
    BY <1>2 DEF Joins
  <2>2. s[k] = Replacement
    BY <1>1
  <2>3. (k = 1) <=> (d = 0)
    BY <1>3
  <2>4. k # 1 => f[k] = u \o Replacement
    BY <1>5, <2>1, <2>2, <2>3
  <2>5. k = 1 => f[k] = Replacement /\ u = <<>>
    BY <1>6, <2>1, <2>2, <2>3
  <2>6. <<>> \o Replacement = Replacement
    BY Literals, ConcatEmptySeq
  <2> QED BY <2>4, <2>5, <2>6
<1> HIDE DEF u, s
<1> DEFINE v == Replacement
<1>8. /\ v \in Seq(Bytes) /\ Len(v) = 3 /\ v[1] = "r1" /\ v[2] = "r2" /\ v[3] = "r3"
  BY Literals
<1>9. f[k] = u \o v
  BY <1>7
<1> HIDE DEF v
<1>10. /\ Len(u \o v) = Len(u) + Len(v)
       /\ \A i \in 1..Len(u) : (u \o v)[i] = u[i]
       /\ \A i \in 1..Len(v) : (u \o v)[Len(u) + i] = v[i]
  <2>1. u \in Seq(Bytes) /\ v \in Seq(Bytes)
    BY <1>6, <1>8
  <2> QED BY ONLY <2>1, Behind
<1>11. Len(u \o v) = k + 2
  BY <1>3, <1>6, <1>8, <1>10
<1>12. (u \o v)[k] = "r1" /\ (u \o v)[k + 1] = "r2" /\ (u \o v)[k + 2] = "r3"
  <2>1. \A i \in 1..Len(v) : (u \o v)[Len(u) + i] = v[i]
    BY <1>10
  <2>2. 1 \in 1..Len(v) /\ 2 \in 1..Len(v) /\ 3 \in 1..Len(v)
    BY <1>8
  <2>3. Len(u) + 1 = k /\ Len(u) + 2 = k + 1 /\ Len(u) + 3 = k + 2
    BY <1>3, <1>6
  <2>4. (u \o v)[Len(u) + 1] = v[1] /\ (u \o v)[Len(u) + 2] = v[2] /\ (u \o v)[Len(u) + 3] = v[3]
    BY <2>1, <2>2
  <2> QED BY <1>8, <2>3, <2>4
<1>13. \A i \in 1..d : (u \o v)[i] = t[i]
  <2>1. \A i \in 1..Len(u) : (u \o v)[i] = u[i]
    BY <1>10
  <2> QED BY <1>6, <2>1
<1>14. \A i \in 1..q : f[i] \in Seq(Bytes) /\ Pieces(t)[i] \in Seq(Bytes)
  BY <1>1, <1>2
<1>15. f[k] = SubSeq(t, 1, k - 1) \o Replacement
  BY <1>7 DEF u
<1>16. \A i \in 1..k - 1 : f[k][i] = t[i]
  BY <1>9, <1>13
<1> QED BY <1>2, <1>9, <1>11, <1>12, <1>14, <1>15, <1>16 DEF Resumes

LEMMA ResumesPrefix ==
    ASSUME NEW t, NEW q \in Nat, NEW k \in 1..q, NEW f, Resumes(t, q, k, f)
    PROVE  \A p \in 1..k + 2 : p \in 1..Len(f[q]) /\ f[q][p] = f[k][p]
<1>1. BytesJoin(f, Pieces(t), q) /\ Len(f[k]) = k + 2
  BY DEF Resumes, BytesJoin
<1>2. Extended(f, k, q)
  BY <1>1, JoinsPrefix
<1> QED BY <1>1, <1>2 DEF Extended

(* A U+FFFD that is cut off, and nothing behind it, becomes whole.          *)
LEMMA CutOff ==
    ASSUME utf8, NEW t \in Seq(Bytes), NEW q \in Nat, Len(t) = q, NEW k \in 1..q,
           \A i \in 1..k - 1 : ~Stray(t, i), t[k] = "r1",
           q = k \/ (q = k + 1 /\ t[q] = "r2")
    PROVE  /\ Converted(t) = SubSeq(t, 1, k - 1) \o Replacement
           /\ Len(Converted(t)) = k + 2
           /\ Replaced(Converted(t), k)
           /\ \A i \in 1..k - 1 : Converted(t)[i] = t[i]
<1>1. Stray(t, k) /\ (q = k + 1 => Stray(t, q))
  <2>1. ~Replaced(t, k)
    BY DEF Replaced
  <2>2. q = k + 1 => q - 1 = k
    OBVIOUS
  <2> QED BY <2>1, <2>2 DEF Stray
<1>2. Piece(t, k) = Replacement
  BY <1>1, StrayPiece
<1>3. q = k + 1 => Piece(t, q) = <<>>
  <2>1. q = k + 1 => q - 1 = k /\ q > 1 /\ q \in 1..q
    OBVIOUS
  <2> QED BY <1>1, <2>1, StrayPiece
<1>4. PICK f : Resumes(t, q, k, f)
  BY <1>2, FirstStray
<1>5. /\ Joins(f, Pieces(t), q) /\ Converted(t) = f[q]
      /\ \A i \in 1..q : f[i] \in Seq(Bytes)
      /\ f[k] = SubSeq(t, 1, k - 1) \o Replacement
      /\ Len(f[k]) = k + 2
      /\ f[k][k] = "r1" /\ f[k][k + 1] = "r2" /\ f[k][k + 2] = "r3"
      /\ \A i \in 1..k - 1 : f[k][i] = t[i]
  BY <1>4 DEF Resumes
<1>6. f[q] = f[k]
  <2>1. CASE q = k
    BY <2>1
  <2>2. CASE q = k + 1
    <3>1. q \in 1..q /\ q # 1 /\ q - 1 = k
      BY <2>2
    <3>2. f[q] = f[k] \o Pieces(t)[q]
      BY <1>5, <3>1 DEF Joins
    <3>3. Pieces(t)[q] = <<>>
      BY <1>3, <2>2, <3>1 DEF Pieces
    <3>4. f[k] \in Seq(Bytes)
      BY <1>5
    <3> QED BY <3>2, <3>3, <3>4, ConcatEmptySeq
  <2> QED BY <2>1, <2>2
<1>7. Replaced(f[k], k)
  <2>1. k \in 1..Len(f[k]) - 2
    BY <1>5
  <2> QED BY <1>5, <2>1 DEF Replaced
<1> QED BY <1>6, <1>7, <1>5

(* A part of a body that is converted into the body is all of it that       *)
(* matters, and the body is text in the converter's character set.          *)
LEMMA ConvertedWhole ==
    ASSUME utf8 \in BOOLEAN, NEW b \in Seq(Bytes), NEW q \in 0..Len(b),
           Converted(SubSeq(b, 1, q)) = b
    PROVE  /\ Enough(b, q)
           /\ \A i \in 1..Len(b) : IF utf8 THEN ~Stray(b, i) ELSE b[i] \in {"a", "s"}
<1> DEFINE t == SubSeq(b, 1, q)
<1>1. t \in Seq(Bytes) /\ Len(t) = q /\ \A i \in 1..q : t[i] = b[i]
  OBVIOUS
<1>2. Converted(t) = b /\ q \in Nat
  OBVIOUS
<1> HIDE DEF t
<1>3. ASSUME \A i \in 1..q : IF utf8 THEN ~Stray(t, i) ELSE t[i] \in {"a", "s"}
      PROVE  /\ Enough(b, q)
             /\ \A i \in 1..Len(b) : IF utf8 THEN ~Stray(b, i) ELSE b[i] \in {"a", "s"}
  <2>1. \A i \in 1..Len(t) : Piece(t, i) = <<t[i]>>
    BY <1>1, <1>3, PieceOf
  <2>2. t = b
    BY <1>1, <1>2, <2>1, ConvertedSame
  <2> QED BY <1>1, <1>3, <2>2 DEF Enough
<1>4. CASE ~utf8
  <2>1. b \in Seq({"a", "s"})
    BY <1>1, <1>2, <1>4, ConvertedType
  <2>2. \A i \in 1..q : t[i] \in {"a", "s"}
    BY <1>1, <2>1
  <2> QED BY <1>3, <1>4, <2>2
<1>5. CASE utf8 /\ \E j \in 1..q : Stray(t, j)
  <2>1. PICK k \in {i \in 1..q : Stray(t, i)} :
            \A i \in {l \in 1..q : Stray(t, l)} : k <= i
    <3>1. {i \in 1..q : Stray(t, i)} # {} /\ {i \in 1..q : Stray(t, i)} \subseteq Nat
      BY <1>5
    <3> QED BY <3>1, Least
  <2>2. k \in 1..q /\ Stray(t, k) /\ \A i \in 1..k - 1 : ~Stray(t, i)
    <3>1. ASSUME NEW i \in 1..k - 1 PROVE ~Stray(t, i)
      <4>1. i \in 1..q /\ ~(k <= i)
        BY <2>1
      <4> QED BY <2>1, <4>1
    <3> QED BY <2>1, <3>1
  <2>3. ~(t[k] = "r2" /\ k > 1 /\ t[k - 1] = "r1")
    <3> SUFFICES ASSUME t[k] = "r2", k > 1, t[k - 1] = "r1" PROVE FALSE
      OBVIOUS
    <3>1. k - 1 \in 1..k - 1 /\ ~Stray(t, k - 1)
      BY <2>2
    <3>2. Replaced(t, k - 1)
      BY <3>1 DEF Stray
    <3> QED BY <2>2, <3>2 DEF Stray
  <2>4. Piece(t, k) = Replacement /\ t[k] \in {"h", "t", "r1", "r2", "r3"}
    BY <1>1, <1>5, <2>2, <2>3, StrayPiece
  <2>5. PICK f : Resumes(t, q, k, f)
    <3>1. /\ t \in Seq(Bytes) /\ q \in Nat /\ Len(t) = q /\ k \in 1..q /\ utf8
          /\ Piece(t, k) = Replacement
      BY <1>1, <1>2, <1>5, <2>2, <2>4
    <3>2. \A i \in 1..k - 1 : ~Stray(t, i)
      BY <2>2
    <3> QED BY ONLY <3>1, <3>2, FirstStray
  <2>6. /\ Joins(f, Pieces(t), q) /\ Converted(t) = f[q] /\ Len(f[k]) = k + 2
         /\ \A i \in 1..q : f[i] \in Seq(Bytes) /\ Pieces(t)[i] \in Seq(Bytes)
         /\ f[k][k] = "r1" /\ f[k][k + 1] = "r2" /\ f[k][k + 2] = "r3"
    BY <2>5 DEF Resumes
  <2>7. \A p \in 1..k + 2 : p \in 1..Len(b) /\ b[p] = f[k][p]
    <3>1. q \in Nat /\ k \in 1..q /\ Converted(t) = b
      BY <1>2, <1>5, <2>2
    <3>2. \A p \in 1..k + 2 : p \in 1..Len(f[q]) /\ f[q][p] = f[k][p]
      BY ONLY <2>5, <3>1, ResumesPrefix
    <3> QED BY <2>6, <3>1, <3>2
  <2>8. k + 2 \in 1..Len(b) /\ b[k] = "r1" /\ b[k + 1] = "r2" /\ b[k + 2] = "r3"
    <3>1. k \in 1..k + 2 /\ k + 1 \in 1..k + 2 /\ k + 2 \in 1..k + 2
      BY <2>2
    <3> QED BY <2>7, <2>6, <3>1
  <2>9. t[k] = "r1"
    BY <1>1, <2>2, <2>8
  <2>10. q = k \/ (q = k + 1 /\ t[q] = "r2")
    <3>1. CASE q >= k + 2
      <4>1. k \in 1..q - 2 /\ k + 1 \in 1..q /\ k + 2 \in 1..q
        BY <2>2, <3>1
      <4>2. t[k + 1] = "r2" /\ t[k + 2] = "r3"
        BY <1>1, <2>8, <4>1
      <4>3. Replaced(t, k)
        BY <1>1, <2>9, <4>1, <4>2 DEF Replaced
      <4> QED BY <2>2, <2>9, <4>3 DEF Stray
    <3>2. CASE q < k + 2
      <4>1. q = k \/ q = k + 1
        BY <1>2, <2>2, <3>2
      <4>2. q = k + 1 => t[q] = b[q] /\ b[q] = "r2"
        BY <1>1, <2>2, <2>8
      <4> QED BY <4>1, <4>2
    <3> QED BY <1>2, <2>2, <3>1, <3>2
  <2>11. Len(b) = k + 2 /\ Replaced(b, k)
    BY <1>1, <1>2, <1>5, <2>2, <2>9, <2>10, CutOff
  <2>12. Enough(b, q)
    <3>1. Len(b) - 2 = k /\ q \in k..k + 1 /\ Len(b) - 1 = k + 1
      BY <1>2, <2>2, <2>10, <2>11
    <3> QED BY <1>5, <2>11, <3>1 DEF Enough
  <2>13. ASSUME NEW i \in 1..Len(b) PROVE ~Stray(b, i)
    <3>1. CASE i < k
      <4>1. i \in 1..q /\ ~Stray(t, i)
        BY <2>2, <3>1
      <4> QED BY <1>1, <1>2, <4>1, StrayBefore
    <3>2. CASE ~(i < k)
      <4>1. i = k \/ i = k + 1 \/ i = k + 2
        BY <2>2, <2>11, <3>2
      <4> QED BY <2>11, <4>1, ReplacedWhole
    <3> QED BY <3>1, <3>2
  <2> QED BY <1>5, <2>12, <2>13
<1> QED BY <1>3, <1>4, <1>5

(* ... and the other way round.                                             *)
LEMMA WholeConverted ==
    ASSUME utf8 \in BOOLEAN, NEW b \in Seq(Bytes), NEW q \in 0..Len(b), Enough(b, q),
           \A i \in 1..Len(b) : IF utf8 THEN ~Stray(b, i) ELSE b[i] \in {"a", "s"}
    PROVE  Converted(SubSeq(b, 1, q)) = b
<1> DEFINE t == SubSeq(b, 1, q)
<1>1. t \in Seq(Bytes) /\ Len(t) = q /\ \A i \in 1..q : t[i] = b[i]
  OBVIOUS
<1>2. CASE q = Len(b)
  <2>1. \A i \in 1..Len(b) : Piece(b, i) = <<b[i]>>
    BY PieceOf
  <2>2. Converted(b) = b
    BY <2>1, ConvertedSame
  <2>3. SubSeq(b, 1, q) = b
    BY <1>2, SubSeqFull
  <2> QED BY <2>2, <2>3
<1>3. CASE utf8 /\ q \in Len(b) - 2..Len(b) - 1 /\ Replaced(b, Len(b) - 2)
  <2> DEFINE k == Len(b) - 2
  <2>1. k \in 1..q /\ q \in Nat /\ b[k] = "r1" /\ b[k + 1] = "r2" /\ b[k + 2] = "r3"
    BY <1>3 DEF Replaced
  <2>2. q = k \/ q = k + 1
    BY <1>3
  <2>3. Len(b) = k + 2
    OBVIOUS
  <2>4. \A i \in 1..k - 1 : ~Stray(b, i)
    BY <1>3, <2>1
  <2> HIDE DEF k, t
  <2>5. \A i \in 1..k - 1 : ~Stray(t, i)
    BY <1>1, <2>4, <2>1, StrayAfter
  <2>6. t[k] = "r1" /\ (q = k + 1 => t[q] = "r2")
    <3>1. k \in 1..q /\ (q = k + 1 => q \in 1..q)
      BY <2>1
    <3> QED BY <1>1, <2>1, <3>1
  <2>7. /\ Len(Converted(t)) = k + 2 /\ Replaced(Converted(t), k)
        /\ \A i \in 1..k - 1 : Converted(t)[i] = t[i]
    BY <1>1, <1>3, <2>1, <2>2, <2>5, <2>6, CutOff
  <2> DEFINE c == Converted(t)
  <2>8. c \in Seq(Bytes)
    BY <1>1, ConvertedType
  <2>9. ASSUME NEW i \in 1..Len(b) PROVE c[i] = b[i]
    <3>1. CASE i < k
      <4>1. i \in 1..k - 1 /\ i \in 1..q
        BY <2>1, <3>1
      <4> QED BY <1>1, <2>7, <4>1
    <3>2. CASE ~(i < k)
      <4>1. i = k \/ i = k + 1 \/ i = k + 2
        BY <2>1, <2>3, <3>2
      <4>2. c[k] = "r1" /\ c[k + 1] = "r2" /\ c[k + 2] = "r3"
        BY <2>7 DEF Replaced
      <4> QED BY <2>1, <4>1, <4>2
    <3> QED BY <3>1, <3>2
  <2>10. Len(c) = Len(b)
    BY <2>3, <2>7
  <2> HIDE DEF c
  <2>11. c = b
    BY <2>8, <2>9, <2>10
  <2> QED BY <2>11 DEF c, t
<1> QED BY <1>2, <1>3 DEF Enough

-----------------------------------------------------------------------------
(* Tables and objects.                                                      *)

LEMMA TablesAre ==
    ASSUME NEW t
    PROVE  t \in Tables <=> DOMAIN t \subseteq Keys /\ t \in [DOMAIN t -> Values]
<1>1. ASSUME t \in Tables PROVE DOMAIN t \subseteq Keys /\ t \in [DOMAIN t -> Values]
  <2>1. PICK ks \in SUBSET Keys : t \in [ks -> Values]
    BY <1>1 DEF Tables
  <2> HIDE DEF Keys
  <2> QED BY <2>1
<1>2. ASSUME DOMAIN t \subseteq Keys, t \in [DOMAIN t -> Values] PROVE t \in Tables
  BY <1>2 DEF Tables
<1> QED BY <1>1, <1>2

LEMMA KeyFacts ==
    /\ ContentLength \in Keys
    /\ \A k \in Keys : LowerCase(k) \in Keys /\ LowerCase(k).name = k.name
BY DEF Keys, ContentLength, LowerCase

LEMMA NewObjectType == NewObject \in Objects
<1>1. <<>> \in Tables
  <2>1. DOMAIN <<>> = {}
    OBVIOUS
  <2>2. <<>> \in [{} -> Values]
    OBVIOUS
  <2> QED BY <2>1, <2>2, TablesAre
<1>2. <<>> \in Seq(Bytes)
  OBVIOUS
<1> QED BY <1>1, <1>2 DEF NewObject, Objects, Starts

LEMMA addHeaderType ==
    ASSUME NEW t \in Tables, NEW k \in Keys, NEW v \in Values
    PROVE  /\ addHeader(t, k, v) \in Tables
           /\ DOMAIN addHeader(t, k, v) = DOMAIN t \cup {k}
           /\ \A j \in DOMAIN t : addHeader(t, k, v)[j] = t[j]
           /\ k \notin DOMAIN t => addHeader(t, k, v)[k] = v
<1>1. DOMAIN t \subseteq Keys /\ t \in [DOMAIN t -> Values]
  BY TablesAre
<1> DEFINE u == addHeader(t, k, v)
<1>2. DOMAIN u = DOMAIN t \cup {k} /\ u \in [DOMAIN t \cup {k} -> Values]
  BY <1>1 DEF addHeader
<1>3. (\A j \in DOMAIN t : u[j] = t[j]) /\ (k \notin DOMAIN t => u[k] = v)
  BY DEF addHeader
<1> HIDE DEF u
<1>4. u \in Tables
  BY <1>1, <1>2, TablesAre
<1> QED BY <1>2, <1>3, <1>4 DEF u

LEMMA removeHeaderType ==
    ASSUME NEW t \in Tables, NEW k \in Keys
    PROVE  removeHeader(t, k) \in Tables
<1>1. DOMAIN t \subseteq Keys /\ t \in [DOMAIN t -> Values]
  BY TablesAre
<1> DEFINE u == removeHeader(t, k)
<1>2. DOMAIN u = DOMAIN t \ {k} /\ u \in [DOMAIN t \ {k} -> Values]
  BY <1>1 DEF removeHeader
<1> HIDE DEF u
<1>4. u \in Tables
  BY <1>1, <1>2, TablesAre
<1> QED BY <1>4 DEF u

LEMMA endFacts ==
    ASSUME NEW m \in Objects, Len(m.body) <= MaxBody
    PROVE  /\ end(m) \in Objects /\ end(m).start = m.start /\ end(m).body = m.body
           /\ DOMAIN end(m).headers = DOMAIN m.headers \cup {ContentLength}
           /\ \A j \in DOMAIN m.headers : end(m).headers[j] = m.headers[j]
           /\ ContentLength \notin DOMAIN m.headers =>
                  end(m).headers[ContentLength] = Len(m.body)
<1>1. m.headers \in Tables /\ Len(m.body) \in Values /\ ContentLength \in Keys
  BY MaxBodyAssumption, KeyFacts DEF Objects, Values
<1> DEFINE u == addHeader(m.headers, ContentLength, Len(m.body))
<1>2. /\ u \in Tables
      /\ DOMAIN u = DOMAIN m.headers \cup {ContentLength}
      /\ \A j \in DOMAIN m.headers : u[j] = m.headers[j]
      /\ ContentLength \notin DOMAIN m.headers => u[ContentLength] = Len(m.body)
  BY <1>1, addHeaderType
<1>3. end(m) = [m EXCEPT !.headers = u]
  BY DEF end
<1> HIDE DEF u
<1>4. end(m) \in Objects /\ end(m).start = m.start /\ end(m).body = m.body
      /\ end(m).headers = u
  BY <1>2, <1>3 DEF Objects
<1> QED BY <1>2, <1>4

LEMMA WithHeadersType ==
    ASSUME NEW t \in Tables, NEW lines \in Tables, NEW r \in WithHeaders(t, lines)
    PROVE  r \in Tables
<1> DEFINE names == {LowerCase(k) : k \in DOMAIN lines}
<1>1. DOMAIN t \subseteq Keys /\ DOMAIN lines \subseteq Keys
  BY TablesAre
<1>2. names \subseteq Keys
  BY <1>1, KeyFacts
<1>3. r \in [DOMAIN t \cup names -> Values]
  BY DEF WithHeaders
<1> HIDE DEF names
<1>4. DOMAIN r = DOMAIN t \cup names
  BY <1>3
<1> QED BY <1>1, <1>2, <1>3, <1>4, TablesAre

(* There is one length exactly when Content-Length is there in one spelling. *)
LEMMA OneLength ==
    ASSUME NEW t \in Tables
    PROVE  Cardinality(Lengths(t)) = 1 <=> \E k : Lengths(t) = {k}
<1> DEFINE a == [name |-> "content-length", lower |-> FALSE]
           b == [name |-> "content-length", lower |-> TRUE]
<1>1. Lengths(t) \subseteq {a, b}
  <2>1. ASSUME NEW k \in Lengths(t) PROVE k \in {a, b}
    <3>1. k \in Keys /\ k.name = "content-length"
      BY TablesAre DEF Lengths
    <3> QED BY <3>1 DEF Keys
  <2> QED BY <2>1
<1> HIDE DEF a, b
<1>2. IsFiniteSet({a, b})
  <2>1. IsFiniteSet({a})
    BY FS_Singleton
  <2>2. IsFiniteSet({a} \cup {b})
    BY <2>1, FS_AddElement
  <2>3. {a} \cup {b} = {a, b}
    OBVIOUS
  <2> QED BY <2>2, <2>3
<1>3. IsFiniteSet(Lengths(t))
  BY <1>1, <1>2, FS_Subset
<1> QED BY <1>3, FS_Singleton
-----------------------------------------------------------------------------
(* What is under way is the message as end() left it, its body within the   *)
(* bound.                                                                   *)
WireSound ==
    wire # Nothing => /\ wire.sent = end(wire.meant)
                      /\ Len(wire.meant.body) <= MaxBody
                      /\ wire.read \in 0..Len(wire.meant.body)

MInv == TypeOK /\ Len(box.body) <= MaxBody /\ WireSound

(* The part of the message that the first read brings.                      *)
Arrived == [wire.sent EXCEPT !.body = SubSeq(@, 1, wire.read)]

LEMMA ArrivedFacts ==
    ASSUME MInv, wire # Nothing
    PROVE  /\ Arrived \in Objects /\ wire.meant \in Objects
           /\ Arrived.start = wire.meant.start
           /\ Arrived.headers = wire.sent.headers
           /\ Arrived.body = SubSeq(wire.meant.body, 1, wire.read)
           /\ wire.read \in 0..Len(wire.meant.body)
<1> DEFINE M == wire.meant
           S == wire.sent
           n == wire.read
           part == SubSeq(M.body, 1, n)
<1>1. M \in Objects /\ S = end(M) /\ Len(M.body) <= MaxBody /\ n \in 0..Len(M.body)
  BY DEF MInv, TypeOK, WireSound
<1>2. Arrived = [S EXCEPT !.body = SubSeq(S.body, 1, n)]
  BY DEF Arrived
<1> HIDE DEF M, S, n
<1>3. S \in Objects /\ S.start = M.start /\ S.body = M.body
  BY <1>1, endFacts
<1>4. part \in Seq(Bytes)
  <2>1. M.body \in Seq(Bytes)
    BY <1>1 DEF Objects
  <2> QED BY <1>1, <2>1
<1>5. Arrived = [S EXCEPT !.body = part]
  BY <1>2, <1>3
<1> HIDE DEF part
<1>6. /\ Arrived \in Objects /\ Arrived.start = S.start
      /\ Arrived.headers = S.headers /\ Arrived.body = part
  BY <1>3, <1>4, <1>5 DEF Objects
<1> QED BY <1>1, <1>3, <1>6 DEF M, S, n, part

(* What is taken for the body is the beginning of what arrived.             *)
LEMMA TakenPart ==
    ASSUME NEW m \in Objects, Readable(m)
    PROVE  \E k : /\ Lengths(m.headers) = {k} /\ m.headers[k] \in Nat
                  /\ Taken(m) = SubSeq(m.body, 1, IF m.headers[k] < Len(m.body)
                                                  THEN m.headers[k] ELSE Len(m.body))
<1>1. m.headers \in Tables
  BY DEF Objects
<1>2. PICK k : Lengths(m.headers) = {k}
  BY <1>1, OneLength DEF Readable
<1>3. k \in DOMAIN m.headers
  BY <1>2 DEF Lengths
<1>4. m.headers[k] \in Values
  BY <1>1, <1>3, TablesAre
<1>5. m.headers[k] \in Nat
  BY <1>4, MaxBodyAssumption DEF Values
<1>6. (CHOOSE l \in Lengths(m.headers) : TRUE) = k
  BY <1>2
<1> QED BY <1>2, <1>5, <1>6 DEF Taken

LEMMA TakenType ==
    ASSUME NEW m \in Objects, Readable(m)
    PROVE  Taken(m) \in Seq(Bytes)
<1>1. PICK k : /\ m.headers[k] \in Nat
               /\ Taken(m) = SubSeq(m.body, 1, IF m.headers[k] < Len(m.body)
                                               THEN m.headers[k] ELSE Len(m.body))
  BY TakenPart
<1>2. m.body \in Seq(Bytes)
  BY DEF Objects
<1> DEFINE q == IF m.headers[k] < Len(m.body) THEN m.headers[k] ELSE Len(m.body)
<1>3. q \in 0..Len(m.body)
  BY <1>1, <1>2
<1> HIDE DEF q
<1>4. SubSeq(m.body, 1, q) \in Seq(Bytes)
  BY <1>2, <1>3
<1> QED BY <1>1, <1>4 DEF q

(* A parse that goes to the end of the body.                                *)
LEMMA FilledFacts ==
    ASSUME kind \in {"request", "response"}, NEW m \in Objects, NEW o \in Objects,
           Readable(m), NEW r \in Filled(m, o)
    PROVE  /\ r \in Objects
           /\ r.start = IF kind = "request" THEN m.start ELSE o.start
           /\ r.headers \in WithHeaders(o.headers, m.headers)
           /\ r.body = o.body \o Converted(Taken(m))
<1>1. PICK t \in WithHeaders(o.headers, m.headers) :
          r = [WithStart(m, o) EXCEPT !.headers = t, !.body = @ \o Converted(Taken(m))]
  BY DEF Filled
<1>2. t \in Tables
  BY WithHeadersType DEF Objects
<1> DEFINE s == IF kind = "request" THEN m.start ELSE o.start
           b == o.body \o Converted(Taken(m))
           u == WithStart(m, o)
<1>3. s \in Starts
  BY DEF Objects
<1>4. b \in Seq(Bytes)
  <2>1. Converted(Taken(m)) \in Seq(Bytes)
    BY TakenType, ConvertedType
  <2>2. o.body \in Seq(Bytes)
    BY DEF Objects
  <2> QED BY <2>1, <2>2, Behind
<1>5. u = [o EXCEPT !.start = s]
  BY DEF WithStart
<1>6. u.body = o.body
  BY <1>5 DEF Objects
<1>7. r = [u EXCEPT !.headers = t, !.body = b]
  BY <1>1, <1>6
<1> HIDE DEF s, b, u
<1>8. u \in Objects /\ u.start = s
  BY <1>3, <1>5 DEF Objects
<1>9. r \in Objects /\ r.start = u.start /\ r.headers = t /\ r.body = b
  BY <1>2, <1>4, <1>7, <1>8 DEF Objects
<1> QED BY <1>1, <1>8, <1>9 DEF s, b

LEMMA RejectedType ==
    ASSUME NEW m \in Objects, NEW o \in Objects, NEW r \in Rejected(m, o)
    PROVE  r \in Objects
<1>1. CASE r = o
  BY <1>1
<1>2. CASE r # o
  <2>1. PICK ks \in SUBSET DOMAIN m.headers :
            \E t \in WithHeaders(o.headers, [k \in ks |-> m.headers[k]]) :
                r = [o EXCEPT !.headers = t]
    <3> DEFINE Read(ks) == WithHeaders(o.headers, [k \in ks |-> m.headers[k]])
               cuts == {s \in SUBSET DOMAIN m.headers :
                           Cardinality(Lengths([k \in s |-> 0])) <= 1}
    <3>1. r \in {[o EXCEPT !.headers = t] : t \in UNION {Read(ks) : ks \in cuts}}
      BY <1>2 DEF Rejected
    <3> HIDE DEF Read
    <3>2. PICK t \in UNION {Read(ks) : ks \in cuts} : r = [o EXCEPT !.headers = t]
      BY <3>1
    <3>3. PICK ks \in cuts : t \in Read(ks)
      BY <3>2
    <3>4. ks \in SUBSET DOMAIN m.headers
      OBVIOUS
    <3>5. \E u \in Read(ks) : r = [o EXCEPT !.headers = u]
      BY <3>2, <3>3
    <3> QED BY <3>4, <3>5 DEF Read
  <2> DEFINE lines == [k \in ks |-> m.headers[k]]
  <2>2. PICK t \in WithHeaders(o.headers, lines) : r = [o EXCEPT !.headers = t]
    BY <2>1
  <2>3. lines \in Tables
    <3>1. DOMAIN m.headers \subseteq Keys /\ m.headers \in [DOMAIN m.headers -> Values]
      BY TablesAre DEF Objects
    <3>2. DOMAIN lines = ks /\ lines \in [ks -> Values]
      BY <3>1
    <3> HIDE DEF lines
    <3> QED BY <3>1, <3>2, TablesAre
  <2> HIDE DEF lines
  <2>4. t \in Tables
    BY <2>2, <2>3, WithHeadersType DEF Objects
  <2> QED BY <2>2, <2>4 DEF Objects
<1> QED BY <1>1, <1>2

LEMMA InitMInv == Init => MInv
<1> SUFFICES ASSUME Init PROVE MInv
  OBVIOUS
<1>1. TypeOK
  BY NewObjectType DEF Init, TypeOK
<1>2. Len(box.body) <= MaxBody
  BY MaxBodyAssumption DEF Init, NewObject
<1>3. WireSound
  BY DEF Init, WireSound
<1> QED BY <1>1, <1>2, <1>3 DEF MInv

LEMMA ComposesMInv ==
    ASSUME MInv, NEW m \in Objects, Len(m.body) <= MaxBody, Composes(m)
    PROVE  MInv'
BY DEF MInv, TypeOK, WireSound, Composes

LEMMA StepMInv == MInv /\ [Next]_vars => MInv'
<1> SUFFICES ASSUME MInv, [Next]_vars PROVE MInv'
  OBVIOUS
<1>1. kind \in {"request", "response"} /\ box \in Objects /\ got \in Objects
      /\ Len(box.body) <= MaxBody
  BY DEF MInv, TypeOK
<1>2. /\ box.headers \in Tables /\ box.body \in Seq(Bytes)
      /\ \A t \in Tables : /\ [box EXCEPT !.headers = t] \in Objects
                           /\ [box EXCEPT !.headers = t].body = box.body
      /\ \A b \in Seq(Bytes) : /\ [box EXCEPT !.body = b] \in Objects
                               /\ [box EXCEPT !.body = b].body = b
      /\ \A s \in Starts : /\ [box EXCEPT !.start = s] \in Objects
                           /\ [box EXCEPT !.start = s].body = box.body
  BY <1>1 DEF Objects
<1>3. ASSUME NEW k \in Keys, RemoveHeader(k) PROVE MInv'
  <2>1. removeHeader(box.headers, k) \in Tables
    BY <1>2, removeHeaderType
  <2>2. Composes([box EXCEPT !.headers = removeHeader(box.headers, k)])
    BY <1>3 DEF RemoveHeader
  <2> QED BY <1>1, <1>2, <2>1, <2>2, ComposesMInv
<1>4. ASSUME NEW k \in Keys, NEW v \in Written(k), AddHeader(k, v) PROVE MInv'
  <2>0. v \in Values
    BY MaxBodyAssumption DEF Written, Values
  <2>1. addHeader(box.headers, k, v) \in Tables
    BY <1>2, <2>0, addHeaderType
  <2>2. Composes([box EXCEPT !.headers = addHeader(box.headers, k, v)])
    BY <1>4 DEF AddHeader
  <2> QED BY <1>1, <1>2, <2>1, <2>2, ComposesMInv
<1>5. ASSUME NEW c \in {"a", "h", "t"}, Write(c) PROVE MInv'
  <2> DEFINE b == Append(box.body, c)
  <2>1. b \in Seq(Bytes) /\ Len(b) <= MaxBody
    <3>1. c \in Bytes
      BY DEF Bytes
    <3>2. Len(b) = Len(box.body) + 1 /\ b \in Seq(Bytes)
      BY <1>2, <3>1
    <3>3. Len(box.body) \in Nat /\ Len(box.body) < MaxBody
      BY <1>2, <1>5 DEF Write
    <3> QED BY <3>2, <3>3, MaxBodyAssumption
  <2>2. Composes([box EXCEPT !.body = b])
    BY <1>5 DEF Write
  <2> HIDE DEF b
  <2> QED BY <1>2, <2>1, <2>2, ComposesMInv
<1>6. ASSUME NEW s \in Starts, SetStart(s) PROVE MInv'
  <2>1. Composes([box EXCEPT !.start = s])
    BY <1>6 DEF SetStart
  <2> QED BY <1>1, <1>2, <2>1, ComposesMInv
<1>7. CASE Clear
  <2>1. Composes([box EXCEPT !.body = <<>>])
    BY <1>7 DEF Clear, clear
  <2>2. <<>> \in Seq(Bytes) /\ Len(<<>>) <= MaxBody
    BY MaxBodyAssumption
  <2> QED BY <1>2, <2>1, <2>2, ComposesMInv
<1>8. CASE End
  <2>1. PICK n \in 0..Len(box.body) : wire' = [meant |-> box, sent |-> end(box), read |-> n]
    BY <1>8 DEF End
  <2>2. end(box) \in Objects /\ end(box).body = box.body
    BY <1>1, endFacts
  <2>3. /\ wire'.meant \in Objects /\ wire'.sent \in Objects /\ wire'.read = n
        /\ wire'.sent = end(wire'.meant) /\ wire'.meant = box
    BY <1>1, <2>1, <2>2
  <2>4. box' = end(box) /\ UNCHANGED <<kind, utf8, got, accepts>>
    BY <1>8 DEF End
  <2>5. TypeOK'
    BY <2>2, <2>3, <2>4 DEF MInv, TypeOK
  <2>6. Len(box.body)' <= MaxBody
    BY <1>1, <2>2, <2>4
  <2>7. WireSound'
    <3>1. wire'.sent = end(wire.meant)'
      BY <2>3 DEF end
    <3> QED BY <1>1, <2>3, <3>1 DEF WireSound
  <2> QED BY <2>5, <2>6, <2>7 DEF MInv
<1>9. CASE Parse
  <2>1. wire # Nothing /\ wire' = Nothing /\ UNCHANGED <<kind, utf8, box>>
    BY <1>9 DEF Parse
  <2>2. \/ got' \in Rejected(Arrived, got) /\ accepts' = FALSE
        \/ /\ Readable(Arrived) /\ got' \in Filled(Arrived, got)
           /\ accepts' \in BOOLEAN
    <3>1. (IF Taken(Arrived) = Arrived.body THEN {TRUE}
           ELSE IF Arrived.body[Len(Taken(Arrived)) + 1] \in {"a", "s"} THEN BOOLEAN
           ELSE {FALSE}) \subseteq BOOLEAN
      OBVIOUS
    <3> QED BY <1>9, <3>1 DEF Parse, Arrived
  <2>3. Arrived \in Objects
    BY <2>1, ArrivedFacts
  <2>4. got' \in Objects /\ accepts' \in BOOLEAN
    BY <1>1, <2>2, <2>3, FilledFacts, RejectedType
  <2> QED BY <2>1, <2>4 DEF MInv, TypeOK, WireSound
<1>10. CASE Forward
  BY <1>1, <1>10, NewObjectType DEF Forward, MInv, TypeOK, WireSound
<1>11. CASE Discard
  BY <1>11, NewObjectType DEF Discard, MInv, TypeOK, WireSound
<1>12. CASE UNCHANGED vars
  BY <1>12 DEF vars, MInv, TypeOK, WireSound, end
<1> QED BY <1>3, <1>4, <1>5, <1>6, <1>7, <1>8, <1>9, <1>10, <1>11, <1>12 DEF Next

LEMMA SpecMInv == Spec => []MInv
BY InitMInv, StepMInv, PTL DEF Spec

(* Every object and message is one of the declared kind: end(), clear(), a  *)
(* parse and an object passed on never make anything else.                  *)
THEOREM MessageTypeCorrect == Spec => []TypeOK
<1>1. MInv => TypeOK
  BY DEF MInv
<1> QED BY <1>1, SpecMInv, PTL
-----------------------------------------------------------------------------
(* What arrives.                                                            *)

(* A plain message is what the peer has.                                    *)
LEMMA PlainArrives ==
    ASSUME MInv, wire # Nothing, got = NewObject, Parse,
           Plain(wire.meant, wire.read)
    PROVE  /\ accepts'
           /\ got'.body = wire.meant.body
           /\ kind = "request" => got'.start = wire.meant.start
           /\ Found(wire.sent, got')
<1> DEFINE M == wire.meant
           S == wire.sent
           A == Arrived
           n == wire.read
<1>1. /\ A \in Objects /\ M \in Objects /\ A.start = M.start
      /\ A.headers = S.headers
      /\ A.body = SubSeq(M.body, 1, n) /\ n \in 0..Len(M.body)
  BY ArrivedFacts
<1>2. M.body \in Seq(Bytes) /\ M.headers \in Tables /\ A.headers \in Tables
  BY <1>1 DEF Objects
<1>3. A.body \in Seq(Bytes) /\ Len(A.body) = n
  BY <1>1, <1>2
<1>4. /\ DOMAIN S.headers = DOMAIN M.headers \cup {ContentLength}
      /\ \A j \in DOMAIN M.headers : S.headers[j] = M.headers[j]
      /\ ContentLength \notin DOMAIN M.headers => S.headers[ContentLength] = Len(M.body)
  <2>1. S = end(M) /\ Len(M.body) <= MaxBody
    BY DEF MInv, WireSound
  <2> HIDE DEF M, S
  <2> QED BY <1>1, <2>1, endFacts
<1>5. Plain(M, n)
  OBVIOUS
<1>6. kind \in {"request", "response"} /\ utf8 \in BOOLEAN
  BY DEF MInv, TypeOK
<1>7. \/ ~Readable(A)
      \/ /\ Readable(A) /\ got' \in Filled(A, NewObject)
         /\ Taken(A) = A.body => accepts'
  BY DEF Parse, Arrived
<1> HIDE DEF M, S, A, n
<1>9. Lengths(A.headers) = {ContentLength}
  <2>1. ASSUME NEW k \in Lengths(A.headers) PROVE k = ContentLength
    <3>1. CASE k \in DOMAIN M.headers
      <4>1. k \in Lengths(M.headers)
        BY <2>1, <3>1 DEF Lengths
      <4> QED BY <1>5, <4>1 DEF Plain
    <3>2. CASE k \notin DOMAIN M.headers
      BY <1>1, <1>4, <2>1, <3>2 DEF Lengths
    <3> QED BY <3>1, <3>2
  <2>2. ContentLength \in Lengths(A.headers)
    BY <1>1, <1>4 DEF Lengths, ContentLength
  <2> QED BY <2>1, <2>2
<1>10. Readable(A)
  <2>1. Cardinality(Lengths(A.headers)) = 1
    BY <1>9, FS_Singleton
  <2> QED BY <1>1, <1>5, <2>1 DEF Readable, Plain
<1>11. Taken(A) = A.body
  <2>1. PICK k : /\ Lengths(A.headers) = {k} /\ A.headers[k] \in Nat
                 /\ Taken(A) = SubSeq(A.body, 1, IF A.headers[k] < Len(A.body)
                                                 THEN A.headers[k] ELSE Len(A.body))
    BY <1>1, <1>10, TakenPart
  <2>2. k = ContentLength
    BY <1>9, <2>1
  <2>3. A.headers[k] >= n
    <3>1. CASE ContentLength \in DOMAIN M.headers
      <4>1. ContentLength \in Lengths(M.headers)
        BY <3>1 DEF Lengths, ContentLength
      <4>2. M.headers[ContentLength] >= n
        BY <1>5, <4>1 DEF Plain
      <4> QED BY <1>1, <1>4, <2>2, <3>1, <4>2
    <3>2. CASE ContentLength \notin DOMAIN M.headers
      <4>1. A.headers[k] = Len(M.body) /\ Len(M.body) \in Nat
        BY <1>1, <1>2, <1>4, <2>2, <3>2
      <4> QED BY <1>1, <4>1
    <3> QED BY <3>1, <3>2
  <2>4. ~(A.headers[k] < Len(A.body))
    BY <1>1, <1>3, <2>1, <2>3
  <2>5. Taken(A) = SubSeq(A.body, 1, Len(A.body))
    BY <2>1, <2>4
  <2> QED BY <1>3, <2>5, SubSeqFull
<1>12. got' \in Filled(A, NewObject) /\ accepts'
  BY <1>7, <1>10, <1>11
<1>13. /\ got'.start = IF kind = "request" THEN A.start ELSE NewObject.start
       /\ got'.headers \in WithHeaders(NewObject.headers, A.headers)
       /\ got'.body = NewObject.body \o Converted(Taken(A))
  <2>1. PICK r \in Filled(A, NewObject) : r = got'
    BY <1>12
  <2>2. /\ r.start = IF kind = "request" THEN A.start ELSE NewObject.start
        /\ r.headers \in WithHeaders(NewObject.headers, A.headers)
        /\ r.body = NewObject.body \o Converted(Taken(A))
    BY <1>1, <1>6, <1>10, NewObjectType, FilledFacts
  <2> QED BY <2>1, <2>2
<1>14. Converted(A.body) = M.body
  <2>1. \A i \in 1..Len(M.body) :
           IF utf8 THEN ~Stray(M.body, i) ELSE M.body[i] \in {"a", "s"}
    BY <1>5 DEF Plain
  <2>2. Enough(M.body, n)
    BY <1>5 DEF Plain
  <2> QED BY <1>1, <1>2, <1>6, <2>1, <2>2, WholeConverted
<1>15. got'.body = M.body
  <2>1. NewObject.body = <<>>
    BY DEF NewObject
  <2> QED BY <1>2, <1>11, <1>13, <1>14, <2>1, ConcatEmptySeq
<1>16. Found(S, got')
  <2> DEFINE r == got'.headers
             lines == A.headers
             names == {LowerCase(k) : k \in DOMAIN lines}
  <2>1. NewObject.headers = <<>> /\ DOMAIN <<>> = {}
    BY DEF NewObject
  <2>2. r \in WithHeaders(<<>>, lines)
    BY <1>13, <2>1
  <2>3. DOMAIN r = names
    <3>1. PICK u \in WithHeaders(<<>>, lines) : u = r
      BY <2>2
    <3>2. u \in [DOMAIN <<>> \cup names -> Values]
      BY DEF WithHeaders
    <3> HIDE DEF names, r
    <3> QED BY <2>1, <3>1, <3>2
  <2>4. \A k \in DOMAIN r : \E j \in DOMAIN lines : LowerCase(j) = k /\ r[k] = lines[j]
    BY <2>1, <2>2 DEF WithHeaders
  <2>5. lines = S.headers
    BY <1>1
  <2> HIDE DEF r, lines
  <2>6. \A j, k \in DOMAIN lines : LowerCase(j) = LowerCase(k) => lines[j] = lines[k]
    <3> SUFFICES ASSUME NEW j \in DOMAIN lines, NEW k \in DOMAIN lines,
                        LowerCase(j) = LowerCase(k)
                 PROVE  lines[j] = lines[k]
      OBVIOUS
    <3>1. CASE j \in DOMAIN M.headers /\ k \in DOMAIN M.headers
      <4>1. M.headers[j] = M.headers[k]
        BY <1>5, <3>1 DEF Plain
      <4> QED BY <1>4, <2>5, <3>1, <4>1
    <3>2. CASE ~(j \in DOMAIN M.headers /\ k \in DOMAIN M.headers)
      <4>1. j \in Keys /\ k \in Keys
        BY <1>1, <1>2, <2>5, TablesAre
      <4>2. j = ContentLength \/ k = ContentLength
        BY <1>4, <2>5, <3>2
      <4>3. ContentLength.name = "content-length"
        BY DEF ContentLength
      <4>4. j.name = k.name
        BY <4>1, KeyFacts
      <4>5. j \in Lengths(lines) /\ k \in Lengths(lines)
        BY <4>2, <4>3, <4>4 DEF Lengths
      <4>6. Lengths(lines) = {ContentLength}
        BY <1>1, <1>9, <2>5
      <4> QED BY <4>5, <4>6
    <3> QED BY <3>1, <3>2
  <2>7. ASSUME NEW k \in DOMAIN lines
        PROVE  LowerCase(k) \in DOMAIN r /\ r[LowerCase(k)] = lines[k]
    <3>1. LowerCase(k) \in DOMAIN r
      BY <2>3
    <3>2. PICK j \in DOMAIN lines : LowerCase(j) = LowerCase(k) /\ r[LowerCase(k)] = lines[j]
      BY <2>4, <3>1
    <3> QED BY <2>6, <3>1, <3>2
  <2> QED BY <2>5, <2>7 DEF Found, r
<1> QED BY <1>1, <1>12, <1>13, <1>15, <1>16 DEF M, S, n

(* What the peer has is what was meant only if the message is plain.        *)
LEMMA IntactIsPlain ==
    ASSUME MInv, wire # Nothing, got = NewObject, Parse, accepts',
           got'.body = wire.meant.body, Found(wire.sent, got')
    PROVE  Plain(wire.meant, wire.read)
<1> DEFINE M == wire.meant
           S == wire.sent
           A == Arrived
           n == wire.read
<1>1. /\ A \in Objects /\ M \in Objects /\ A.start = M.start
      /\ A.headers = S.headers
      /\ A.body = SubSeq(M.body, 1, n) /\ n \in 0..Len(M.body)
  BY ArrivedFacts
<1>2. M.body \in Seq(Bytes) /\ A.body \in Seq(Bytes) /\ A.headers \in Tables
  BY <1>1 DEF Objects
<1>3. /\ DOMAIN S.headers = DOMAIN M.headers \cup {ContentLength}
      /\ \A j \in DOMAIN M.headers : S.headers[j] = M.headers[j]
      /\ ContentLength \notin DOMAIN M.headers => S.headers[ContentLength] = Len(M.body)
  <2>1. S = end(M) /\ Len(M.body) <= MaxBody
    BY DEF MInv, WireSound
  <2> HIDE DEF M, S
  <2> QED BY <1>1, <2>1, endFacts
<1>4. kind \in {"request", "response"} /\ utf8 \in BOOLEAN
  BY DEF MInv, TypeOK
<1>5. /\ Readable(A) /\ got' \in Filled(A, NewObject)
      /\ Taken(A) # A.body => A.body[Len(Taken(A)) + 1] \in {"a", "s"}
  BY DEF Parse, Arrived
<1>6. got'.body = M.body /\ Found(S, got')
  OBVIOUS
<1> HIDE DEF M, S, A, n
<1>7. got'.body = NewObject.body \o Converted(Taken(A))
  <2>1. PICK r \in Filled(A, NewObject) : r = got'
    BY <1>5
  <2>2. r.body = NewObject.body \o Converted(Taken(A))
    BY <1>1, <1>4, <1>5, NewObjectType, FilledFacts
  <2> QED BY <2>1, <2>2
<1>8. Converted(Taken(A)) = M.body
  <2>1. Converted(Taken(A)) \in Seq(Bytes)
    BY <1>1, <1>5, TakenType, ConvertedType
  <2>2. NewObject.body = <<>>
    BY DEF NewObject
  <2> QED BY <1>6, <1>7, <2>1, <2>2, ConcatEmptySeq
<1>9. PICK k : /\ Lengths(A.headers) = {k} /\ A.headers[k] \in Nat
               /\ Taken(A) = SubSeq(A.body, 1, IF A.headers[k] < Len(A.body)
                                               THEN A.headers[k] ELSE Len(A.body))
  BY <1>1, <1>5, TakenPart
<1>10. k = ContentLength
  BY <1>1, <1>3, <1>9 DEF Lengths, ContentLength
<1>11. \E q \in 0..n : Taken(A) = SubSeq(M.body, 1, q) /\ q <= A.headers[k]
                       /\ Len(Taken(A)) = q
  <2> DEFINE q == IF A.headers[k] < Len(A.body) THEN A.headers[k] ELSE Len(A.body)
  <2>1. Len(A.body) = n /\ n \in Nat
    BY <1>1, <1>2
  <2>2. q \in 0..n /\ q <= A.headers[k]
    BY <1>9, <2>1
  <2>3. Taken(A) = SubSeq(A.body, 1, q)
    BY <1>9
  <2> HIDE DEF q
  <2>4. SubSeq(A.body, 1, q) = SubSeq(M.body, 1, q) /\ Len(SubSeq(A.body, 1, q)) = q
    BY <1>1, <1>2, <2>1, <2>2
  <2> QED BY <2>2, <2>3, <2>4
<1>12. PICK q \in 0..n : /\ Taken(A) = SubSeq(M.body, 1, q) /\ q <= A.headers[k]
                         /\ Len(Taken(A)) = q
  BY <1>11
<1>13. /\ Enough(M.body, q)
       /\ \A i \in 1..Len(M.body) :
             IF utf8 THEN ~Stray(M.body, i) ELSE M.body[i] \in {"a", "s"}
  <2>1. q \in 0..Len(M.body) /\ Converted(SubSeq(M.body, 1, q)) = M.body
    BY <1>1, <1>8, <1>12
  <2> QED BY <1>2, <1>4, <2>1, ConvertedWhole
<1>14. n = q /\ Enough(M.body, n) /\ A.headers[k] >= n
  <2> SUFFICES ASSUME q < n PROVE FALSE
    BY <1>1, <1>9, <1>12, <1>13
  <2>1. q \in Nat /\ q + 1 \in 1..n /\ q + 1 \in 1..Len(M.body)
    BY <1>1, <1>12
  <2>2. Len(A.body) = n
    BY <1>1, <1>2
  <2>3. Taken(A) # A.body
    BY <1>12, <2>1, <2>2
  <2>4. A.body[q + 1] \in {"a", "s"}
    BY <1>5, <1>12, <2>3
  <2>5. A.body[q + 1] = M.body[q + 1]
    BY <1>1, <1>2, <2>1
  <2>6. q # Len(M.body)
    BY <1>1, <2>1
  <2>7. q \in Len(M.body) - 2..Len(M.body) - 1 /\ Replaced(M.body, Len(M.body) - 2)
    BY <1>13, <2>6 DEF Enough
  <2>8. M.body[Len(M.body) - 1] = "r2" /\ M.body[Len(M.body)] = "r3"
    <3>1. (Len(M.body) - 2) + 1 = Len(M.body) - 1 /\ (Len(M.body) - 2) + 2 = Len(M.body)
      BY <1>2
    <3> QED BY <2>7, <3>1 DEF Replaced
  <2>9. q + 1 = Len(M.body) - 1 \/ q + 1 = Len(M.body)
    BY <1>2, <2>7
  <2> QED BY <2>4, <2>5, <2>8, <2>9
<1>15. M.start # "Unknown"
  BY <1>1, <1>5 DEF Readable
<1>16. \A j, l \in DOMAIN M.headers :
           LowerCase(j) = LowerCase(l) => M.headers[j] = M.headers[l]
  <2>1. \A j \in DOMAIN M.headers : got'.headers[LowerCase(j)] = M.headers[j]
    BY <1>3, <1>6 DEF Found
  <2> QED BY <2>1
<1>17. \A l \in Lengths(M.headers) : l = ContentLength /\ M.headers[l] >= n
  <2> SUFFICES ASSUME NEW l \in Lengths(M.headers)
               PROVE  l = ContentLength /\ M.headers[l] >= n
    OBVIOUS
  <2>1. l \in DOMAIN M.headers /\ l \in Lengths(A.headers)
    BY <1>1, <1>3 DEF Lengths
  <2>2. l = ContentLength
    BY <1>9, <1>10, <2>1
  <2> QED BY <1>1, <1>3, <1>10, <1>14, <2>1, <2>2
<1>18. Plain(M, n)
  BY <1>13, <1>14, <1>15, <1>16, <1>17 DEF Plain
<1> QED BY <1>18 DEF M, n

(* A message of which n bytes of the body come in the first read arrives as *)
(* it was meant, and the peer is told so, exactly when its start line has a *)
(* name, no two spellings of a header disagree, its body is text of the     *)
(* converter's character set, these bytes are all of it but for the end of  *)
(* a last U+FFFD, and a Content-Length that was there before end() is       *)
(* spelled as end() spells it and large enough (message.cpp, request.cpp,   *)
(* response.cpp).                                                           *)
THEOREM MessageArrivesIntact == Spec => ArrivesIntact
<1> DEFINE A == wire # Nothing /\ wire' = Nothing /\ got = NewObject =>
                  (Plain(wire.meant, wire.read) <=>
                     /\ accepts'
                     /\ got'.body = wire.meant.body
                     /\ kind = "request" => got'.start = wire.meant.start
                     /\ Found(wire.sent, got'))
<1>1. MInv /\ [Next]_vars => [A]_vars
  <2> SUFFICES ASSUME MInv, Next, wire # Nothing, wire' = Nothing, got = NewObject
               PROVE  Plain(wire.meant, wire.read) <=>
                        /\ accepts'
                        /\ got'.body = wire.meant.body
                        /\ kind = "request" => got'.start = wire.meant.start
                        /\ Found(wire.sent, got')
    BY DEF vars
  <2>1. Parse
    BY DEF Next, RemoveHeader, AddHeader, Write, SetStart, Clear, Composes, End,
           Forward, Discard
  <2> QED BY <2>1, PlainArrives, IntactIsPlain
<1>2. [][A]_vars => ArrivesIntact
  BY PTL DEF ArrivesIntact
<1> HIDE DEF A
<1> QED BY <1>1, <1>2, SpecMInv, PTL DEF Spec
=============================================================================
