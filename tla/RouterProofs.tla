---------------------------- MODULE RouterProofs ----------------------------
(***************************************************************************)
(* Theorems about Router for any number of servers, methods, URLs, routes  *)
(* and calls of on(): the tree's names are the paths of its Routes, so     *)
(* that what a walk finds depends on the calls of on() alone.              *)
(***************************************************************************)
EXTENDS Router, SequenceTheorems, WellFoundedInduction, TLAPS

(* Induction, as facts about sets of numbers.                               *)
Less == {ss \in Nat \X Nat : ss[1] < ss[2]}

LEMMA LessWF == IsWellFoundedOn(Less, Nat)
BY NatLessThanWellFounded DEF Less, OpToRel

LEMMA Least ==
    ASSUME NEW T, T \subseteq Nat, T # {}
    PROVE  \E x \in T : \A y \in T : x <= y
<1>1. PICK x \in T : \A y \in T : <<y, x>> \notin Less
  BY LessWF, WFMin
<1>2. ASSUME NEW y \in T PROVE x <= y
  <2>1. <<y, x>> \in Nat \X Nat /\ <<y, x>>[1] = y /\ <<y, x>>[2] = x
    OBVIOUS
  <2>2. ~(y < x)
    BY <1>1, <2>1 DEF Less
  <2> QED BY <2>2
<1> QED BY <1>2

LEMMA Induction ==
    ASSUME NEW T, 0 \in T, \A n \in Nat : n \in T => n + 1 \in T
    PROVE  Nat \subseteq T
<1> SUFFICES ASSUME Nat \ T # {} PROVE FALSE
  OBVIOUS
<1>1. PICK x \in Nat \ T : \A y \in Nat \ T : x <= y
  BY Least
<1>2. x # 0 /\ x - 1 \in Nat
  BY <1>1
<1>3. x - 1 \in T
  BY <1>1, <1>2
<1> QED BY <1>1, <1>2, <1>3

LEMMA MaxIs ==
    ASSUME NEW S, S \subseteq Nat, NEW m \in S, \A y \in S : m >= y
    PROVE  Max(S) = m
<1>1. Max(S) \in S /\ \A y \in S : Max(S) >= y
  BY DEF Max
<1>2. Max(S) >= m /\ m >= Max(S) /\ Max(S) \in Nat /\ m \in Nat
  BY <1>1
<1> HIDE DEF Max
<1> QED BY <1>2

LEMMA Greatest ==
    ASSUME NEW n \in Nat, NEW S, S \subseteq 1..n, S # {}
    PROVE  Max(S) \in S /\ \A y \in S : Max(S) >= y
<1> DEFINE T == {n - x : x \in S}
<1>1. T \subseteq Nat /\ T # {}
  <2>1. \A x \in S : x \in 1..n /\ n - x \in Nat
    OBVIOUS
  <2> QED BY <2>1
<1>2. PICK d \in T : \A e \in T : d <= e
  BY <1>1, Least
<1>3. PICK x \in S : d = n - x
  OBVIOUS
<1>4. ASSUME NEW y \in S PROVE x >= y
  <2>1. d <= n - y
    BY <1>2
  <2> QED BY <1>3, <2>1
<1> QED BY <1>4 DEF Max

LEMMA MinIs ==
    ASSUME NEW S, S \subseteq Nat, NEW m \in S, \A y \in S : m <= y
    PROVE  Min(S) = m
<1>1. Min(S) \in S /\ \A y \in S : Min(S) =< y
  BY DEF Min
<1>2. Min(S) <= m /\ m <= Min(S) /\ Min(S) \in Nat /\ m \in Nat
  BY <1>1
<1> HIDE DEF Min
<1> QED BY <1>2

LEMMA Smallest ==
    ASSUME NEW S, S \subseteq Nat, S # {}
    PROVE  Min(S) \in S /\ \A y \in S : Min(S) <= y
BY Least DEF Min

-----------------------------------------------------------------------------
(* The loops of on() and operator(): what FoldLeft computes, round by round. *)

FollowAll(r, p) == FoldLeft(Follow, r, p)

EnterAll(r, p) == FoldLeft(Enter, r, p)

LEMMA FoldFollow ==
    ASSUME NEW T, NEW p \in Seq(T), NEW r
    PROVE  \E h : /\ h[0] = r /\ FollowAll(r, p) = h[Len(p)]
                  /\ \A i \in 1..Len(p) : h[i] = Follow(h[i - 1], p[i])
<1> DEFINE n == Len(p)
           Law(f, s) == f[s] = IF s = {} THEN r
                               ELSE Follow(f[s \ {Max(s)}], p[Max(s)])
           K == {k \in Nat : \E f : \A s \in SUBSET (1..k) : Law(f, s)}
<1>1. n \in Nat /\ DOMAIN p = 1..n
  OBVIOUS
<1>2. 0 \in K
  <2>1. \A s \in SUBSET (1..0) : s = {}
    OBVIOUS
  <2>2. Law([s \in {{}} |-> r], {})
    OBVIOUS
  <2> HIDE DEF Law
  <2>3. \A s \in SUBSET (1..0) : Law([t \in {{}} |-> r], s)
    BY <2>1, <2>2
  <2> QED BY <2>3
<1>3. ASSUME NEW k \in K PROVE k + 1 \in K
  <2>1. PICK f : \A s \in SUBSET (1..k) : Law(f, s)
    OBVIOUS
  <2> DEFINE g == [s \in SUBSET (1..k + 1) |->
                      IF k + 1 \in s THEN Follow(f[s \ {k + 1}], p[k + 1]) ELSE f[s]]
  <2>2. ASSUME NEW s \in SUBSET (1..k + 1) PROVE Law(g, s)
    <3>1. CASE k + 1 \in s
      <4>1. Max(s) = k + 1
        <5>1. s \subseteq Nat /\ \A y \in s : k + 1 >= y
          OBVIOUS
        <5> QED BY <3>1, <5>1, MaxIs
      <4>2. g[s \ {k + 1}] = f[s \ {k + 1}]
        OBVIOUS
      <4>3. g[s] = Follow(f[s \ {k + 1}], p[k + 1])
        BY <3>1
      <4> HIDE DEF g
      <4> QED BY <3>1, <4>1, <4>2, <4>3
    <3>2. CASE k + 1 \notin s
      <4>1. s \in SUBSET (1..k)
        BY <3>2
      <4>2. g[s] = f[s] /\ \A x \in s : g[s \ {x}] = f[s \ {x}]
        BY <3>2
      <4>3. s # {} => Max(s) \in s
        BY <4>1, Greatest
      <4>4. Law(f, s)
        BY <2>1, <4>1
      <4> HIDE DEF g
      <4> QED BY <4>2, <4>3, <4>4
    <3> QED BY <3>1, <3>2
  <2> HIDE DEF g, Law
  <2>3. \A s \in SUBSET (1..k + 1) : Law(g, s)
    BY <2>2
  <2>4. \E e : \A s \in SUBSET (1..k + 1) : Law(e, s)
    BY <2>3, Zenon
  <2>5. k + 1 \in Nat
    OBVIOUS
  <2> QED BY <2>4, <2>5, Zenon
<1>4. n \in K
  <2>1. \A k \in Nat : k \in K => k + 1 \in K
    BY <1>3
  <2> HIDE DEF K, n
  <2> QED BY <1>1, <1>2, <2>1, Induction
<1>5. PICK f : \A s \in SUBSET (1..n) : Law(f, s)
  BY <1>4
<1> DEFINE All(g) == g = [s \in SUBSET (1..n) |->
                             IF s = {} THEN r ELSE Follow(g[s \ {Max(s)}], p[Max(s)])]
           it == CHOOSE g : All(g)
<1>6. \E g : All(g)
  <2> DEFINE g == [s \in SUBSET (1..n) |-> f[s]]
  <2>1. ASSUME NEW s \in SUBSET (1..n)
        PROVE  g[s] = IF s = {} THEN r ELSE Follow(g[s \ {Max(s)}], p[Max(s)])
    <3>1. s # {} => g[s \ {Max(s)}] = f[s \ {Max(s)}]
      OBVIOUS
    <3>2. g[s] = f[s] /\ Law(f, s)
      BY <1>5
    <3> HIDE DEF g
    <3> QED BY <3>1, <3>2
  <2>2. g = [s \in SUBSET (1..n) |-> g[s]]
    OBVIOUS
  <2> DEFINE e == [s \in SUBSET (1..n) |->
                      IF s = {} THEN r ELSE Follow(g[s \ {Max(s)}], p[Max(s)])]
  <2>3. \A s \in SUBSET (1..n) : e[s] = g[s]
    <3> HIDE DEF g
    <3> QED BY <2>1
  <2>4. e = [s \in SUBSET (1..n) |-> e[s]]
    OBVIOUS
  <2>5. g = e
    <3> HIDE DEF e, g, n
    <3> QED BY <2>2, <2>3, <2>4
  <2> HIDE DEF g
  <2> QED BY <2>5
<1>7. All(it)
  <2> HIDE DEF All
  <2> QED BY <1>6
<1>8. FollowAll(r, p) = it[1..n]
  BY <1>1 DEF FollowAll, FoldLeft, MapThenFoldSet
<1> HIDE DEF it
<1>9. \A s \in SUBSET (1..n) :
         it[s] = IF s = {} THEN r ELSE Follow(it[s \ {Max(s)}], p[Max(s)])
  <2> HIDE DEF n
  <2> QED BY <1>7
<1> DEFINE h == [i \in 0..n |-> it[1..i]]
<1>10. h[0] = r
  <2>1. 1..0 = {} /\ 0 \in 0..n /\ {} \in SUBSET (1..n)
    BY <1>1
  <2>2. it[{}] = r
    BY <1>9, <2>1
  <2> HIDE DEF n
  <2> QED BY <2>1, <2>2
<1>11. ASSUME NEW i \in 1..n PROVE h[i] = Follow(h[i - 1], p[i])
  <2> HIDE DEF n
  <2>1. i \in 0..n /\ i - 1 \in 0..n /\ 1..i \in SUBSET (1..n) /\ 1..i # {}
    BY <1>1
  <2>2. Max(1..i) = i
    <3>1. 1..i \subseteq Nat /\ i \in 1..i /\ \A y \in 1..i : i >= y
      BY <1>1
    <3> QED BY <3>1, MaxIs
  <2>3. (1..i) \ {i} = 1..(i - 1)
    BY <1>1
  <2>4. it[1..i] = Follow(it[1..(i - 1)], p[i])
    BY <1>9, <2>1, <2>2, <2>3
  <2> QED BY <2>1, <2>4
<1>12. h[n] = it[1..n]
  BY <1>1
<1> HIDE DEF h
<1> QED BY <1>8, <1>10, <1>11, <1>12 DEF n

LEMMA FoldEnter ==
    ASSUME NEW T, NEW p \in Seq(T), NEW r
    PROVE  \E h : /\ h[0] = r /\ EnterAll(r, p) = h[Len(p)]
                  /\ \A i \in 1..Len(p) : h[i] = Enter(h[i - 1], p[i])
<1> DEFINE n == Len(p)
           Law(f, s) == f[s] = IF s = {} THEN r
                               ELSE Enter(f[s \ {Max(s)}], p[Max(s)])
           K == {k \in Nat : \E f : \A s \in SUBSET (1..k) : Law(f, s)}
<1>1. n \in Nat /\ DOMAIN p = 1..n
  OBVIOUS
<1>2. 0 \in K
  <2>1. \A s \in SUBSET (1..0) : s = {}
    OBVIOUS
  <2>2. Law([s \in {{}} |-> r], {})
    OBVIOUS
  <2> HIDE DEF Law
  <2>3. \A s \in SUBSET (1..0) : Law([t \in {{}} |-> r], s)
    BY <2>1, <2>2
  <2> QED BY <2>3
<1>3. ASSUME NEW k \in K PROVE k + 1 \in K
  <2>1. PICK f : \A s \in SUBSET (1..k) : Law(f, s)
    OBVIOUS
  <2> DEFINE g == [s \in SUBSET (1..k + 1) |->
                      IF k + 1 \in s THEN Enter(f[s \ {k + 1}], p[k + 1]) ELSE f[s]]
  <2>2. ASSUME NEW s \in SUBSET (1..k + 1) PROVE Law(g, s)
    <3>1. CASE k + 1 \in s
      <4>1. Max(s) = k + 1
        <5>1. s \subseteq Nat /\ \A y \in s : k + 1 >= y
          OBVIOUS
        <5> QED BY <3>1, <5>1, MaxIs
      <4>2. g[s \ {k + 1}] = f[s \ {k + 1}]
        OBVIOUS
      <4>3. g[s] = Enter(f[s \ {k + 1}], p[k + 1])
        BY <3>1
      <4> HIDE DEF g
      <4> QED BY <3>1, <4>1, <4>2, <4>3
    <3>2. CASE k + 1 \notin s
      <4>1. s \in SUBSET (1..k)
        BY <3>2
      <4>2. g[s] = f[s] /\ \A x \in s : g[s \ {x}] = f[s \ {x}]
        BY <3>2
      <4>3. s # {} => Max(s) \in s
        BY <4>1, Greatest
      <4>4. Law(f, s)
        BY <2>1, <4>1
      <4> HIDE DEF g
      <4> QED BY <4>2, <4>3, <4>4
    <3> QED BY <3>1, <3>2
  <2> HIDE DEF g, Law
  <2>3. \A s \in SUBSET (1..k + 1) : Law(g, s)
    BY <2>2
  <2>4. \E e : \A s \in SUBSET (1..k + 1) : Law(e, s)
    BY <2>3, Zenon
  <2>5. k + 1 \in Nat
    OBVIOUS
  <2> QED BY <2>4, <2>5, Zenon
<1>4. n \in K
  <2>1. \A k \in Nat : k \in K => k + 1 \in K
    BY <1>3
  <2> HIDE DEF K, n
  <2> QED BY <1>1, <1>2, <2>1, Induction
<1>5. PICK f : \A s \in SUBSET (1..n) : Law(f, s)
  BY <1>4
<1> DEFINE All(g) == g = [s \in SUBSET (1..n) |->
                             IF s = {} THEN r ELSE Enter(g[s \ {Max(s)}], p[Max(s)])]
           it == CHOOSE g : All(g)
<1>6. \E g : All(g)
  <2> DEFINE g == [s \in SUBSET (1..n) |-> f[s]]
  <2>1. ASSUME NEW s \in SUBSET (1..n)
        PROVE  g[s] = IF s = {} THEN r ELSE Enter(g[s \ {Max(s)}], p[Max(s)])
    <3>1. s # {} => g[s \ {Max(s)}] = f[s \ {Max(s)}]
      OBVIOUS
    <3>2. g[s] = f[s] /\ Law(f, s)
      BY <1>5
    <3> HIDE DEF g
    <3> QED BY <3>1, <3>2
  <2>2. g = [s \in SUBSET (1..n) |-> g[s]]
    OBVIOUS
  <2> DEFINE e == [s \in SUBSET (1..n) |->
                      IF s = {} THEN r ELSE Enter(g[s \ {Max(s)}], p[Max(s)])]
  <2>3. \A s \in SUBSET (1..n) : e[s] = g[s]
    <3> HIDE DEF g
    <3> QED BY <2>1
  <2>4. e = [s \in SUBSET (1..n) |-> e[s]]
    OBVIOUS
  <2>5. g = e
    <3> HIDE DEF e, g, n
    <3> QED BY <2>2, <2>3, <2>4
  <2> HIDE DEF g
  <2> QED BY <2>5
<1>7. All(it)
  <2> HIDE DEF All
  <2> QED BY <1>6
<1>8. EnterAll(r, p) = it[1..n]
  BY <1>1 DEF EnterAll, FoldLeft, MapThenFoldSet
<1> HIDE DEF it
<1>9. \A s \in SUBSET (1..n) :
         it[s] = IF s = {} THEN r ELSE Enter(it[s \ {Max(s)}], p[Max(s)])
  <2> HIDE DEF n
  <2> QED BY <1>7
<1> DEFINE h == [i \in 0..n |-> it[1..i]]
<1>10. h[0] = r
  <2>1. 1..0 = {} /\ 0 \in 0..n /\ {} \in SUBSET (1..n)
    BY <1>1
  <2>2. it[{}] = r
    BY <1>9, <2>1
  <2> HIDE DEF n
  <2> QED BY <2>1, <2>2
<1>11. ASSUME NEW i \in 1..n PROVE h[i] = Enter(h[i - 1], p[i])
  <2> HIDE DEF n
  <2>1. i \in 0..n /\ i - 1 \in 0..n /\ 1..i \in SUBSET (1..n) /\ 1..i # {}
    BY <1>1
  <2>2. Max(1..i) = i
    <3>1. 1..i \subseteq Nat /\ i \in 1..i /\ \A y \in 1..i : i >= y
      BY <1>1
    <3> QED BY <3>1, MaxIs
  <2>3. (1..i) \ {i} = 1..(i - 1)
    BY <1>1
  <2>4. it[1..i] = Enter(it[1..(i - 1)], p[i])
    BY <1>9, <2>1, <2>2, <2>3
  <2> QED BY <2>1, <2>4
<1>12. h[n] = it[1..n]
  BY <1>1
<1> HIDE DEF h
<1> QED BY <1>8, <1>10, <1>11, <1>12 DEF n
-----------------------------------------------------------------------------
(* URLIterator: the segments of a URL.                                      *)

LEMMA IndexOfFacts ==
    ASSUME NEW S, NEW u \in Seq(S), NEW b \in 1..Len(u)
    PROVE  /\ IndexOf(u, b) \in b..Len(u)
           /\ \A i \in b + 1..IndexOf(u, b) : u[i] # Slash
           /\ IndexOf(u, b) = Len(u) \/ u[IndexOf(u, b) + 1] = Slash
<1> DEFINE n == Len(u)
           hits == {i \in b..n - 1 : u[i + 1] = Slash}
           e == IndexOf(u, b)
<1>1. n \in Nat /\ b \in 1..n
  OBVIOUS
<1>2. e = IF hits = {} THEN n ELSE Min(hits)
  BY DEF IndexOf
<1> HIDE DEF n, e
<1>3. ASSUME NEW i \in b + 1..n, i - 1 \notin hits PROVE u[i] # Slash
  <2>1. i - 1 \in b..n - 1 /\ (i - 1) + 1 = i
    BY <1>1
  <2> QED BY <1>3, <2>1
<1>4. CASE hits = {}
  <2>1. e = n
    BY <1>2, <1>4
  <2>2. \A i \in b + 1..n : u[i] # Slash
    BY <1>3, <1>4
  <2>3. e \in b..n
    BY <1>1, <2>1
  <2> QED BY <2>1, <2>2, <2>3 DEF n, e
<1>5. CASE hits # {}
  <2>1. hits \subseteq Nat
    BY <1>1
  <2>2. e \in hits /\ \A y \in hits : e <= y
    BY <1>2, <1>5, <2>1, Smallest
  <2>3. e \in b..n - 1 /\ u[e + 1] = Slash
    BY <2>2
  <2>4. ASSUME NEW i \in b + 1..e PROVE u[i] # Slash
    <3>1. i \in b + 1..n /\ ~(e <= i - 1)
      BY <1>1, <2>3
    <3>2. i - 1 \notin hits
      BY <2>2, <3>1
    <3> QED BY <1>3, <3>1, <3>2
  <2>5. e \in b..n
    BY <1>1, <2>3
  <2> QED BY <2>3, <2>4, <2>5 DEF e, n
<1> QED BY <1>4, <1>5

LEMMA IndexOfIs ==
    ASSUME NEW S, NEW u \in Seq(S), NEW b \in 1..Len(u), NEW e \in b..Len(u),
           \A i \in b + 1..e : u[i] # Slash, e = Len(u) \/ u[e + 1] = Slash
    PROVE  IndexOf(u, b) = e
<1> DEFINE n == Len(u)
           f == IndexOf(u, b)
<1>1. n \in Nat /\ b \in 1..n /\ e \in b..n /\ (e = n \/ u[e + 1] = Slash)
  OBVIOUS
<1>2. /\ f \in b..n /\ \A i \in b + 1..f : u[i] # Slash
      /\ f = n \/ u[f + 1] = Slash
  BY IndexOfFacts
<1> HIDE DEF n, f
<1>3. ~(e < f)
  <2> SUFFICES ASSUME e < f PROVE FALSE
    OBVIOUS
  <2>1. e + 1 \in b + 1..f /\ e # n
    BY <1>1, <1>2
  <2> QED BY <1>1, <1>2, <2>1
<1>4. ~(f < e)
  <2> SUFFICES ASSUME f < e PROVE FALSE
    OBVIOUS
  <2>1. f + 1 \in b + 1..e /\ f # n
    BY <1>1, <1>2
  <2> QED BY <1>1, <1>2, <2>1
<1> QED BY <1>1, <1>2, <1>3, <1>4 DEF f

(* The segments from a position on.                                         *)
Splits(g, u) ==
    /\ g[Len(u) + 1] = <<>>
    /\ \A b \in 1..Len(u) :
          g[b] = <<SubSeq(u, b + 1, IndexOf(u, b))>> \o g[IndexOf(u, b) + 1]

LEMMA SegmentsSplit ==
    ASSUME NEW S, NEW u \in Seq(S)
    PROVE  \E g : Splits(g, u) /\ Segments(u) = g[1]
<1> DEFINE n == Len(u)
           Part(f, b) == <<SubSeq(u, b + 1, IndexOf(u, b))>> \o f[IndexOf(u, b) + 1]
           Law(f, b) == f[b] = IF b = n + 1 THEN <<>> ELSE Part(f, b)
           Made(k) == \E f : \A b \in n + 1 - k..n + 1 : Law(f, b)
           K == {k \in Nat : k <= n => Made(k)}
<1>1. n \in Nat
  OBVIOUS
<1>2. \A b \in 1..n : IndexOf(u, b) \in b..n
  BY IndexOfFacts
<1> HIDE DEF n
<1>3. 0 \in K
  <2> DEFINE f == [b \in {n + 1} |-> <<>>]
  <2>1. n + 1 - 0..n + 1 = {n + 1}
    BY <1>1
  <2>2. f[n + 1] = <<>>
    OBVIOUS
  <2> HIDE DEF f
  <2>3. \A b \in n + 1 - 0..n + 1 : Law(f, b)
    BY <2>1, <2>2
  <2> HIDE DEF Law
  <2>4. Made(0)
    BY <2>3
  <2> HIDE DEF Made
  <2> QED BY <2>4
<1>4. ASSUME NEW k \in Nat, k \in K PROVE k + 1 \in K
  <2>0. ASSUME k + 1 <= n => Made(k + 1) PROVE k + 1 \in K
    <3> HIDE DEF Made
    <3> QED BY <2>0
  <2> SUFFICES ASSUME k + 1 <= n PROVE Made(k + 1)
    BY <2>0
  <2>1. PICK f : \A b \in n + 1 - k..n + 1 : Law(f, b)
    <3>1. Made(k)
      <4> HIDE DEF Made
      <4> QED BY <1>1, <1>4
    <3> HIDE DEF Law
    <3> QED BY <3>1
  <2> DEFINE a == n - k
             g == [b \in a..n + 1 |-> IF b = a THEN Part(f, a) ELSE f[b]]
  <2>2. /\ a \in 1..n /\ n + 1 - (k + 1) = a /\ a # n + 1
        /\ \A b \in a..n + 1 : b # a => b \in n + 1 - k..n + 1
    BY <1>1
  <2> HIDE DEF a
  <2>3. ASSUME NEW b \in a..n + 1, b # n + 1
        PROVE  IndexOf(u, b) + 1 \in a..n + 1 /\ IndexOf(u, b) + 1 # a
    <3>1. b \in 1..n
      BY <1>1, <2>2, <2>3
    <3>2. IndexOf(u, b) \in b..n
      BY <1>2, <3>1
    <3> QED BY <1>1, <2>2, <3>1, <3>2
  <2>4. ASSUME NEW b \in a..n + 1 PROVE Law(g, b)
    <3>1. b # n + 1 => Part(g, b) = Part(f, b)
      <4> SUFFICES ASSUME b # n + 1 PROVE Part(g, b) = Part(f, b)
        OBVIOUS
      <4>1. g[IndexOf(u, b) + 1] = f[IndexOf(u, b) + 1]
        BY <2>3
      <4> HIDE DEF g
      <4> QED BY <4>1
    <3>2. b = a => g[b] = Part(f, a)
      OBVIOUS
    <3>3. b # a => g[b] = f[b] /\ Law(f, b)
      BY <2>1, <2>2
    <3> HIDE DEF g, Part
    <3> QED BY <2>2, <3>1, <3>2, <3>3
  <2> HIDE DEF g, Law
  <2>5. \A b \in n + 1 - (k + 1)..n + 1 : Law(g, b)
    BY <2>2, <2>4
  <2> QED BY <2>5, Zenon
<1>5. n \in K
  <2>1. \A k \in Nat : k \in K => k + 1 \in K
    BY <1>4
  <2> HIDE DEF K
  <2> QED BY <1>1, <1>3, <2>1, Induction
<1>6. PICK f : \A b \in 1..n + 1 : Law(f, b)
  <2>1. n + 1 - n = 1
    BY <1>1
  <2>2. Made(n)
    <3> HIDE DEF Made
    <3> QED BY <1>1, <1>5
  <2> HIDE DEF Law
  <2> QED BY <2>1, <2>2
<1> DEFINE All(g) == g = [b \in 1..n + 1 |-> IF b = n + 1 THEN <<>> ELSE Part(g, b)]
           it == CHOOSE g : All(g)
<1>7. \E g : All(g)
  <2> DEFINE g == [b \in 1..n + 1 |-> f[b]]
             e == [b \in 1..n + 1 |-> IF b = n + 1 THEN <<>> ELSE Part(g, b)]
  <2>1. ASSUME NEW b \in 1..n + 1
        PROVE  g[b] = IF b = n + 1 THEN <<>> ELSE Part(g, b)
    <3>1. b # n + 1 => Part(g, b) = Part(f, b)
      <4> SUFFICES ASSUME b # n + 1 PROVE Part(g, b) = Part(f, b)
        OBVIOUS
      <4>1. b \in 1..n
        BY <1>1
      <4>2. IndexOf(u, b) + 1 \in 1..n + 1
        BY <1>1, <1>2, <4>1
      <4>3. g[IndexOf(u, b) + 1] = f[IndexOf(u, b) + 1]
        BY <4>2
      <4> HIDE DEF g
      <4> QED BY <4>3
    <3>2. g[b] = f[b] /\ Law(f, b)
      BY <1>6
    <3> HIDE DEF g, Part
    <3> QED BY <3>1, <3>2
  <2>2. g = [b \in 1..n + 1 |-> g[b]]
    OBVIOUS
  <2>3. \A b \in 1..n + 1 : e[b] = g[b]
    <3> HIDE DEF g, Part
    <3> QED BY <2>1
  <2>4. e = [b \in 1..n + 1 |-> e[b]]
    OBVIOUS
  <2>5. g = e
    <3> HIDE DEF e, g
    <3> QED BY <2>2, <2>3, <2>4
  <2> HIDE DEF g
  <2> QED BY <2>5
<1>8. All(it)
  <2> HIDE DEF All
  <2> QED BY <1>7
<1>9. Segments(u) = it[1]
  BY DEF Segments, n
<1> HIDE DEF it
<1>10. \A b \in 1..n + 1 : it[b] = IF b = n + 1 THEN <<>> ELSE Part(it, b)
  <2> HIDE DEF Part
  <2> QED BY <1>8
<1>11. n + 1 \in 1..n + 1 /\ \A b \in 1..n : b \in 1..n + 1 /\ b # n + 1
  BY <1>1
<1>12. Splits(it, u)
  BY <1>10, <1>11 DEF Splits, n
<1> QED BY <1>9, <1>12

LEMMA SplitsType ==
    ASSUME NEW S, NEW u \in Seq(S), NEW g, Splits(g, u), NEW c \in 1..Len(u) + 1
    PROVE  g[c] \in Seq(Seq(S))
<1> DEFINE n == Len(u)
           K == {k \in Nat : k <= n => \A b \in n + 1 - k..n + 1 : g[b] \in Seq(Seq(S))}
<1>1. n \in Nat /\ c \in 1..n + 1 /\ \A b \in 1..n : IndexOf(u, b) \in b..n
  BY IndexOfFacts
<1>2. /\ g[n + 1] = <<>>
      /\ \A b \in 1..n : g[b] = <<SubSeq(u, b + 1, IndexOf(u, b))>> \o g[IndexOf(u, b) + 1]
  BY DEF Splits
<1>3. \A b \in 1..n : SubSeq(u, b + 1, IndexOf(u, b)) \in Seq(S)
  <2> SUFFICES ASSUME NEW b \in 1..n PROVE SubSeq(u, b + 1, IndexOf(u, b)) \in Seq(S)
    OBVIOUS
  <2>1. \A i \in b + 1..IndexOf(u, b) : u[i] \in S
    BY <1>1
  <2>2. b + 1 \in Int /\ IndexOf(u, b) \in Int
    BY <1>1
  <2> QED BY <2>1, <2>2, SubSeqProperties
<1> HIDE DEF n
<1>4. 0 \in K
  <2>1. n + 1 - 0..n + 1 = {n + 1}
    BY <1>1
  <2>2. <<>> \in Seq(Seq(S))
    OBVIOUS
  <2> QED BY <1>2, <2>1, <2>2
<1>5. ASSUME NEW k \in Nat, k \in K PROVE k + 1 \in K
  <2> SUFFICES ASSUME k + 1 <= n, NEW b \in n + 1 - (k + 1)..n + 1
               PROVE  g[b] \in Seq(Seq(S))
    OBVIOUS
  <2>1. CASE b \in n + 1 - k..n + 1
    BY <1>1, <1>5, <2>1
  <2>2. CASE b \notin n + 1 - k..n + 1
    <3>1. b = n - k /\ b \in 1..n
      BY <1>1, <2>2
    <3>2. IndexOf(u, b) \in b..n
      BY <1>1, <3>1
    <3>3. IndexOf(u, b) + 1 \in n + 1 - k..n + 1
      BY <1>1, <3>1, <3>2
    <3>4. g[IndexOf(u, b) + 1] \in Seq(Seq(S))
      BY <1>1, <1>5, <3>3
    <3>5. <<SubSeq(u, b + 1, IndexOf(u, b))>> \in Seq(Seq(S))
      BY <1>3, <3>1
    <3> QED BY <1>2, <3>1, <3>4, <3>5, ConcatProperties
  <2> QED BY <2>1, <2>2
<1>6. n \in K
  <2>1. \A k \in Nat : k \in K => k + 1 \in K
    BY <1>5
  <2> HIDE DEF K
  <2> QED BY <1>1, <1>4, <2>1, Induction
<1>7. n + 1 - n = 1
  BY <1>1
<1> QED BY <1>1, <1>6, <1>7

LEMMA SegmentsType ==
    ASSUME NEW S, NEW u \in Seq(S)
    PROVE  Segments(u) \in Seq(Seq(S))
<1>1. 1 \in 1..Len(u) + 1
  OBVIOUS
<1> QED BY <1>1, SegmentsSplit, SplitsType

(* One more segment in front.                                               *)
Lead(a, x) == <<a>> \o x

LEMMA LeadSame ==
    ASSUME NEW T, NEW a \in T, NEW b \in T, NEW x \in Seq(T), NEW y \in Seq(T)
    PROVE  /\ <<a>> \o x # <<>> /\ (<<a>> \o x)[1] = a
           /\ Lead(a, x) = Lead(b, y) => a = b /\ x = y
<1>1. /\ Len(<<a>> \o x) = 1 + Len(x) /\ (<<a>> \o x)[1] = a
      /\ \A i \in 1..Len(x) : (<<a>> \o x)[i + 1] = x[i]
  OBVIOUS
<1>2. /\ Len(<<b>> \o y) = 1 + Len(y) /\ (<<b>> \o y)[1] = b
      /\ \A i \in 1..Len(y) : (<<b>> \o y)[i + 1] = y[i]
  OBVIOUS
<1>3. Len(x) \in Nat /\ Len(y) \in Nat /\ Len(<<>>) = 0
  OBVIOUS
<1>4. <<a>> \o x # <<>>
  <2>1. Len(<<a>> \o x) # 0
    BY <1>1, <1>3
  <2> QED BY <1>3, <2>1
<1>5. ASSUME Lead(a, x) = Lead(b, y) PROVE a = b /\ x = y
  <2>0. <<a>> \o x = <<b>> \o y
    BY <1>5 DEF Lead
  <2>1. Len(x) = Len(y)
    BY <1>1, <1>2, <1>3, <2>0
  <2>2. \A i \in 1..Len(x) : x[i] = y[i]
    BY <1>1, <1>2, <2>0, <2>1
  <2> QED BY <1>1, <1>2, <2>0, <2>1, <2>2, SeqEqual
<1> QED BY <1>1, <1>4, <1>5

(* u from b on is v from c on.                                              *)
Alike(u, b, v, c) ==
    Len(u) - b = Len(v) - c /\ \A i \in 1..Len(u) - b : u[b + i] = v[c + i]

(* One segment in each, and what is behind them.                            *)
LEMMA SplitAlike ==
    ASSUME NEW S, NEW u \in Seq(S), NEW v \in Seq(S),
           NEW b \in 1..Len(u), NEW c \in 1..Len(v)
    PROVE  Alike(u, b, v, c) <=>
             /\ SubSeq(u, b + 1, IndexOf(u, b)) = SubSeq(v, c + 1, IndexOf(v, c))
             /\ Alike(u, IndexOf(u, b) + 1, v, IndexOf(v, c) + 1)
<1> DEFINE m == Len(u)
           n == Len(v)
           e == IndexOf(u, b)
           f == IndexOf(v, c)
           x == SubSeq(u, b + 1, e)
           y == SubSeq(v, c + 1, f)
<1>1. m \in Nat /\ n \in Nat /\ b \in 1..m /\ c \in 1..n
  OBVIOUS
<1>2. /\ e \in b..m /\ (\A i \in b + 1..e : u[i] # Slash)
      /\ e = m \/ u[e + 1] = Slash
  BY IndexOfFacts
<1>3. /\ f \in c..n /\ (\A i \in c + 1..f : v[i] # Slash)
      /\ f = n \/ v[f + 1] = Slash
  BY IndexOfFacts
<1>4. (\A i \in 1..m : u[i] \in S) /\ (\A i \in 1..n : v[i] \in S)
  OBVIOUS
<1> HIDE DEF m, n, e, f
<1>5. /\ x \in Seq(S) /\ Len(x) = e - b /\ \A i \in 1..e - b : x[i] = u[b + i]
  <2>1. \A i \in b + 1..e : u[i] \in S
    BY <1>1, <1>2, <1>4
  <2>2. /\ x \in Seq(S) /\ Len(x) = (IF b + 1 <= e THEN e - (b + 1) + 1 ELSE 0)
        /\ \A i \in 1..e - (b + 1) + 1 : x[i] = u[b + 1 + i - 1]
    BY <1>1, <1>2, <2>1, SubSeqProperties
  <2>3. e - (b + 1) + 1 = e - b /\ Len(x) = e - b
    BY <1>1, <1>2, <2>2
  <2>4. \A i \in 1..e - b : b + 1 + i - 1 = b + i
    BY <1>1
  <2> HIDE DEF x
  <2> QED BY <2>2, <2>3, <2>4
<1>6. /\ y \in Seq(S) /\ Len(y) = f - c /\ \A i \in 1..f - c : y[i] = v[c + i]
  <2>1. \A i \in c + 1..f : v[i] \in S
    BY <1>1, <1>3, <1>4
  <2>2. /\ y \in Seq(S) /\ Len(y) = (IF c + 1 <= f THEN f - (c + 1) + 1 ELSE 0)
        /\ \A i \in 1..f - (c + 1) + 1 : y[i] = v[c + 1 + i - 1]
    BY <1>1, <1>3, <2>1, SubSeqProperties
  <2>3. f - (c + 1) + 1 = f - c /\ Len(y) = f - c
    BY <1>1, <1>3, <2>2
  <2>4. \A i \in 1..f - c : c + 1 + i - 1 = c + i
    BY <1>1
  <2> HIDE DEF y
  <2> QED BY <2>2, <2>3, <2>4
<1> HIDE DEF x, y
<1>7. ASSUME x = y, Alike(u, e + 1, v, f + 1) PROVE Alike(u, b, v, c)
  <2>1. e - b = f - c /\ m - (e + 1) = n - (f + 1)
    BY <1>5, <1>6, <1>7 DEF Alike, m, n
  <2>2. \A i \in 1..m - (e + 1) : u[(e + 1) + i] = v[(f + 1) + i]
    BY <1>7 DEF Alike, m
  <2>3. ASSUME NEW i \in 1..m - b PROVE u[b + i] = v[c + i]
    <3>1. CASE i <= e - b
      <4>1. i \in 1..e - b /\ i \in 1..f - c
        BY <1>1, <1>2, <2>1, <3>1
      <4> QED BY <1>5, <1>6, <1>7, <4>1
    <3>2. CASE i = e - b + 1
      <4>1. b + i = e + 1 /\ c + i = f + 1 /\ e # m /\ f # n
        BY <1>1, <1>2, <1>3, <2>1, <3>2
      <4> QED BY <1>2, <1>3, <4>1
    <3>3. CASE i > e - b + 1
      <4> DEFINE j == i - (e - b + 1)
      <4>1. j \in 1..m - (e + 1) /\ (e + 1) + j = b + i /\ (f + 1) + j = c + i
        BY <1>1, <1>2, <1>3, <2>1, <3>3
      <4> HIDE DEF j
      <4>2. u[(e + 1) + j] = v[(f + 1) + j]
        BY <2>2, <4>1
      <4> QED BY <4>1, <4>2
    <3> QED BY <1>1, <1>2, <3>1, <3>2, <3>3
  <2>4. m - b = n - c
    BY <1>1, <1>2, <1>3, <2>1
  <2> QED BY <2>3, <2>4 DEF Alike, m, n
<1>8. ASSUME Alike(u, b, v, c) PROVE x = y /\ Alike(u, e + 1, v, f + 1)
  <2>1. m - b = n - c /\ \A i \in 1..m - b : u[b + i] = v[c + i]
    BY <1>8 DEF Alike, m, n
  <2>2. \A j \in b + 1..m : v[c + (j - b)] = u[j]
    <3>1. ASSUME NEW j \in b + 1..m PROVE v[c + (j - b)] = u[j]
      <4>1. j - b \in 1..m - b /\ b + (j - b) = j
        BY <1>1
      <4>2. u[b + (j - b)] = v[c + (j - b)]
        BY <2>1, <4>1
      <4> QED BY <4>1, <4>2
    <3> QED BY <3>1
  <2> DEFINE d == c + (e - b)
  <2>3. f = d
    <3>1. d \in c..n /\ d \in Int
      BY <1>1, <1>2, <2>1
    <3>2. ASSUME NEW i \in c + 1..d PROVE v[i] # Slash
      <4>1. b + (i - c) \in b + 1..e /\ b + (i - c) \in b + 1..m
            /\ c + ((b + (i - c)) - b) = i
        BY <1>1, <1>2, <2>1
      <4>2. v[c + ((b + (i - c)) - b)] = u[b + (i - c)]
        BY <2>2, <4>1
      <4> QED BY <1>2, <4>1, <4>2
    <3>3. d = n \/ v[d + 1] = Slash
      <4>1. CASE e = m
        BY <1>1, <2>1, <4>1
      <4>2. CASE e # m
        <5>1. e + 1 \in b + 1..m /\ c + ((e + 1) - b) = d + 1
          BY <1>1, <1>2, <4>2
        <5>2. v[c + ((e + 1) - b)] = u[e + 1]
          BY <2>2, <5>1
        <5> QED BY <1>2, <4>2, <5>1, <5>2
      <4> QED BY <4>1, <4>2
    <3> HIDE DEF d
    <3> QED BY <3>1, <3>2, <3>3, IndexOfIs DEF f, n
  <2>4. e - b = f - c
    BY <1>1, <1>2, <1>3, <2>3
  <2>5. x = y
    <3>1. ASSUME NEW i \in 1..e - b PROVE x[i] = y[i]
      <4>1. i \in 1..m - b
        BY <1>1, <1>2
      <4> QED BY <1>5, <1>6, <2>1, <2>4, <4>1
    <3> QED BY <1>5, <1>6, <2>4, <3>1, SeqEqual
  <2>6. Alike(u, e + 1, v, f + 1)
    <3>1. m - (e + 1) = n - (f + 1)
      BY <1>1, <1>2, <1>3, <2>1, <2>4
    <3>2. ASSUME NEW i \in 1..m - (e + 1) PROVE u[e + 1 + i] = v[f + 1 + i]
      <4> DEFINE j == e - b + 1 + i
      <4>1. j \in 1..m - b /\ b + j = e + 1 + i /\ c + j = f + 1 + i
        BY <1>1, <1>2, <1>3, <2>4
      <4> HIDE DEF j
      <4>2. u[b + j] = v[c + j]
        BY <2>1, <4>1
      <4> QED BY <4>1, <4>2
    <3> QED BY <3>1, <3>2 DEF Alike, m, n
  <2> QED BY <2>5, <2>6
<1> QED BY <1>7, <1>8 DEF x, y, e, f

(* Equal segments are equal text.                                           *)
LEMMA SplitsSame ==
    ASSUME NEW S, NEW u \in Seq(S), NEW v \in Seq(S), NEW g, NEW h,
           Splits(g, u), Splits(h, v), NEW x \in 1..Len(u) + 1, NEW y \in 1..Len(v) + 1
    PROVE  g[x] = h[y] <=> Alike(u, x, v, y)
<1> DEFINE m == Len(u)
           n == Len(v)
           Fits(k) == \A b \in 1..m + 1 : \A c \in 1..n + 1 :
                          m + 1 - b <= k => (g[b] = h[c] <=> Alike(u, b, v, c))
           K == {k \in Nat : Fits(k)}
<1>1. m \in Nat /\ n \in Nat /\ x \in 1..m + 1 /\ y \in 1..n + 1
  OBVIOUS
<1>2. /\ \A b \in 1..m : IndexOf(u, b) \in b..m
      /\ \A c \in 1..n : IndexOf(v, c) \in c..n
  BY IndexOfFacts
<1>3. /\ g[m + 1] = <<>> /\ h[n + 1] = <<>>
      /\ \A b \in 1..m : g[b] = <<SubSeq(u, b + 1, IndexOf(u, b))>> \o g[IndexOf(u, b) + 1]
      /\ \A c \in 1..n : h[c] = <<SubSeq(v, c + 1, IndexOf(v, c))>> \o h[IndexOf(v, c) + 1]
  BY DEF Splits
<1>4. /\ \A b \in 1..m + 1 : g[b] \in Seq(Seq(S))
      /\ \A c \in 1..n + 1 : h[c] \in Seq(Seq(S))
  BY SplitsType
<1>5. /\ \A b \in 1..m : SubSeq(u, b + 1, IndexOf(u, b)) \in Seq(S)
      /\ \A c \in 1..n : SubSeq(v, c + 1, IndexOf(v, c)) \in Seq(S)
  <2>1. ASSUME NEW b \in 1..m PROVE SubSeq(u, b + 1, IndexOf(u, b)) \in Seq(S)
    <3>1. \A i \in b + 1..IndexOf(u, b) : u[i] \in S
      BY <1>2
    <3>2. b + 1 \in Int /\ IndexOf(u, b) \in Int
      BY <1>2
    <3> QED BY <3>1, <3>2, SubSeqProperties
  <2>2. ASSUME NEW c \in 1..n PROVE SubSeq(v, c + 1, IndexOf(v, c)) \in Seq(S)
    <3>1. \A i \in c + 1..IndexOf(v, c) : v[i] \in S
      BY <1>2
    <3>2. c + 1 \in Int /\ IndexOf(v, c) \in Int
      BY <1>2
    <3> QED BY <3>1, <3>2, SubSeqProperties
  <2> QED BY <2>1, <2>2
<1> HIDE DEF m, n
(* At the end of one of them.                                               *)
<1>6. ASSUME NEW b \in 1..m + 1, NEW c \in 1..n + 1, b = m + 1 \/ c = n + 1
      PROVE  g[b] = h[c] <=> Alike(u, b, v, c)
  <2>1. b # m + 1 => b \in 1..m /\ g[b] # <<>>
    <3> SUFFICES ASSUME b # m + 1 PROVE b \in 1..m /\ g[b] # <<>>
      OBVIOUS
    <3>1. b \in 1..m
      BY <1>1
    <3>2. IndexOf(u, b) + 1 \in 1..m + 1
      BY <1>1, <1>2, <3>1
    <3> DEFINE T == Seq(S)
               p == SubSeq(u, b + 1, IndexOf(u, b))
               q == g[IndexOf(u, b) + 1]
    <3>3. p \in T /\ q \in Seq(T) /\ g[b] = <<p>> \o q
      BY <1>3, <1>4, <1>5, <3>1, <3>2
    <3> HIDE DEF T, p, q
    <3>4. <<p>> \o q # <<>>
      BY <3>3, LeadSame
    <3> QED BY <3>1, <3>3, <3>4
  <2>2. c # n + 1 => c \in 1..n /\ h[c] # <<>>
    <3> SUFFICES ASSUME c # n + 1 PROVE c \in 1..n /\ h[c] # <<>>
      OBVIOUS
    <3>1. c \in 1..n
      BY <1>1
    <3>2. IndexOf(v, c) + 1 \in 1..n + 1
      BY <1>1, <1>2, <3>1
    <3> DEFINE T == Seq(S)
               p == SubSeq(v, c + 1, IndexOf(v, c))
               q == h[IndexOf(v, c) + 1]
    <3>3. p \in T /\ q \in Seq(T) /\ h[c] = <<p>> \o q
      BY <1>3, <1>4, <1>5, <3>1, <3>2
    <3> HIDE DEF T, p, q
    <3>4. <<p>> \o q # <<>>
      BY <3>3, LeadSame
    <3> QED BY <3>1, <3>3, <3>4
  <2>3. g[b] = h[c] <=> (b = m + 1 /\ c = n + 1)
    BY <1>3, <1>6, <2>1, <2>2
  <2>4. Alike(u, b, v, c) => (b = m + 1 /\ c = n + 1)
    BY <1>1, <1>6 DEF Alike, m, n
  <2>5. b = m + 1 /\ c = n + 1 => Alike(u, b, v, c)
    <3> SUFFICES ASSUME b = m + 1, c = n + 1 PROVE Alike(u, b, v, c)
      OBVIOUS
    <3>1. m - b = n - c /\ 1..m - b = {}
      BY <1>1
    <3> QED BY <3>1 DEF Alike, m, n
  <2> QED BY <2>3, <2>4, <2>5
<1>7. Fits(0)
  <2>1. \A b \in 1..m + 1 : m + 1 - b <= 0 => b = m + 1
    BY <1>1
  <2> QED BY <1>6, <2>1
<1>8. ASSUME NEW k \in Nat, Fits(k) PROVE Fits(k + 1)
  <2> SUFFICES ASSUME NEW b \in 1..m + 1, NEW c \in 1..n + 1, m + 1 - b <= k + 1
               PROVE  g[b] = h[c] <=> Alike(u, b, v, c)
    OBVIOUS
  <2>1. CASE b = m + 1 \/ c = n + 1
    BY <1>6, <2>1
  <2>2. CASE ~(b = m + 1 \/ c = n + 1)
    <3> DEFINE e == IndexOf(u, b)
               f == IndexOf(v, c)
               p == SubSeq(u, b + 1, e)
               q == SubSeq(v, c + 1, f)
    <3>1. b \in 1..m /\ c \in 1..n
      BY <1>1, <2>2
    <3>2. e \in b..m /\ f \in c..n
      BY <1>2, <3>1
    <3>3. g[b] = <<p>> \o g[e + 1] /\ h[c] = <<q>> \o h[f + 1]
      BY <1>3, <3>1
    <3>4. p \in Seq(S) /\ q \in Seq(S)
      BY <1>5, <3>1
    <3>5. Alike(u, b, v, c) <=> p = q /\ Alike(u, e + 1, v, f + 1)
      BY <3>1, SplitAlike DEF m, n
    <3> HIDE DEF e, f, p, q
    <3>6. e + 1 \in 1..m + 1 /\ f + 1 \in 1..n + 1 /\ m + 1 - (e + 1) <= k
      BY <1>1, <3>1, <3>2
    <3>7. g[e + 1] = h[f + 1] <=> Alike(u, e + 1, v, f + 1)
      BY <1>8, <3>6
    <3>8. g[e + 1] \in Seq(Seq(S)) /\ h[f + 1] \in Seq(Seq(S))
      BY <1>4, <3>6
    <3>9. <<p>> \o g[e + 1] = <<q>> \o h[f + 1] <=> p = q /\ g[e + 1] = h[f + 1]
      <4> DEFINE T == Seq(S)
                 s == g[e + 1]
                 t == h[f + 1]
      <4>1. p \in T /\ q \in T /\ s \in Seq(T) /\ t \in Seq(T)
        BY <3>4, <3>8
      <4> HIDE DEF T, s, t
      <4>2. Lead(p, s) = Lead(q, t) => p = q /\ s = t
        BY <4>1, LeadSame
      <4>3. <<p>> \o s = <<q>> \o t => p = q /\ s = t
        BY <4>2 DEF Lead
      <4>4. p = q /\ s = t => <<p>> \o s = <<q>> \o t
        OBVIOUS
      <4>5. <<p>> \o s = <<q>> \o t <=> p = q /\ s = t
        BY <4>3, <4>4
      <4> QED BY <4>5 DEF s, t
    <3> QED BY <3>3, <3>5, <3>7, <3>9
  <2> QED BY <2>1, <2>2
<1>9. Nat \subseteq K
  <2>1. 0 \in K /\ \A k \in Nat : k \in K => k + 1 \in K
    <3> HIDE DEF Fits
    <3> QED BY <1>7, <1>8
  <2> HIDE DEF K
  <2> QED BY <2>1, Induction
<1>10. Fits(m + 1)
  <2> HIDE DEF Fits
  <2> QED BY <1>1, <1>9
<1> QED BY <1>1, <1>10

Chars == UNION {Range(u) : u \in Urls}

Paths == Seq(Seq(Chars))

LEMMA UrlsAreText == \A u \in Urls : u \in Seq(Chars) /\ Segments(u) \in Paths
<1> SUFFICES ASSUME NEW u \in Urls PROVE u \in Seq(Chars) /\ Segments(u) \in Paths
  OBVIOUS
<1>1. u \in Seq(Range(u)) /\ Range(u) \subseteq Chars
  BY UrlsAssumption DEF Chars
<1>2. u \in Seq(Chars)
  <2> DEFINE R == Range(u)
  <2>1. u \in Seq(R) /\ R \subseteq Chars
    BY <1>1
  <2> HIDE DEF R
  <2> QED BY <2>1
<1> QED BY <1>2, SegmentsType DEF Paths

(* What SamePath and SameBranch say of the text, said of the segments.      *)
LEMMA SegmentsSame ==
    ASSUME NEW u \in Urls, NEW v \in Urls
    PROVE  SamePath(u, v) <=> Segments(u) = Segments(v)
<1>1. u \in Seq(Chars) /\ v \in Seq(Chars)
  BY UrlsAreText
<1>2. PICK g : Splits(g, u) /\ Segments(u) = g[1]
  BY <1>1, SegmentsSplit
<1>3. PICK h : Splits(h, v) /\ Segments(v) = h[1]
  BY <1>1, SegmentsSplit
<1>4. Segments(u) = Segments(v) <=> Alike(u, 1, v, 1)
  <2>1. 1 \in 1..Len(u) + 1 /\ 1 \in 1..Len(v) + 1
    BY <1>1
  <2> QED BY <1>1, <1>2, <1>3, <2>1, SplitsSame
<1>5. Alike(u, 1, v, 1) <=> Len(u) = Len(v) /\ \A i \in 1..Len(u) - 1 : u[i + 1] = v[i + 1]
  <2>1. Len(u) \in Nat /\ Len(v) \in Nat /\ \A i \in 1..Len(u) - 1 : i + 1 = 1 + i
    BY <1>1
  <2> DEFINE m == Len(u)
             n == Len(v)
  <2> HIDE DEF m, n
  <2>2. m - 1 = n - 1 <=> m = n
    BY <2>1 DEF m, n
  <2>3. (\A i \in 1..m - 1 : u[1 + i] = v[1 + i]) <=> \A i \in 1..m - 1 : u[i + 1] = v[i + 1]
    BY <2>1 DEF m
  <2> QED BY <2>2, <2>3 DEF Alike, m, n
<1>6. CASE u = <<>> \/ v = <<>>
  <2>1. (Len(u) = 0 <=> u = <<>>) /\ (Len(v) = 0 <=> v = <<>>)
    BY <1>1
  <2>2. u = <<>> /\ v = <<>> => \A i \in 1..Len(u) - 1 : u[i + 1] = v[i + 1]
    <3> SUFFICES ASSUME u = <<>>, v = <<>>
                 PROVE  \A i \in 1..Len(u) - 1 : u[i + 1] = v[i + 1]
      OBVIOUS
    <3>1. u = v
      OBVIOUS
    <3> QED BY <3>1
  <2> QED BY <1>4, <1>5, <1>6, <2>1, <2>2 DEF SamePath
<1>7. CASE u # <<>> /\ v # <<>>
  <2>1. /\ Tail(u) \in Seq(Chars) /\ Len(Tail(u)) = Len(u) - 1
        /\ \A i \in 1..Len(Tail(u)) : Tail(u)[i] = u[i + 1]
    BY <1>1, <1>7, HeadTailProperties
  <2>2. /\ Tail(v) \in Seq(Chars) /\ Len(Tail(v)) = Len(v) - 1
        /\ \A i \in 1..Len(Tail(v)) : Tail(v)[i] = v[i + 1]
    BY <1>1, <1>7, HeadTailProperties
  <2>3. Len(u) \in Nat /\ Len(v) \in Nat
    BY <1>1
  <2>4. ASSUME Tail(u) = Tail(v)
        PROVE  Len(u) = Len(v) /\ \A i \in 1..Len(u) - 1 : u[i + 1] = v[i + 1]
    <3>1. Len(u) = Len(v)
      <4>1. Len(Tail(u)) = Len(Tail(v))
        BY <2>4
      <4> DEFINE m == Len(u)
                 n == Len(v)
      <4>2. m - 1 = n - 1
        BY <2>1, <2>2, <4>1
      <4> HIDE DEF m, n
      <4>3. m = n
        BY <2>3, <4>2 DEF m, n
      <4> QED BY <4>3 DEF m, n
    <3>2. ASSUME NEW i \in 1..Len(u) - 1 PROVE u[i + 1] = v[i + 1]
      BY <2>1, <2>2, <2>4, <3>1
    <3> QED BY <3>1, <3>2
  <2>5. ASSUME Len(u) = Len(v), \A i \in 1..Len(u) - 1 : u[i + 1] = v[i + 1]
        PROVE  Tail(u) = Tail(v)
    <3> DEFINE x == Tail(u)
               y == Tail(v)
    <3>1. x \in Seq(Chars) /\ y \in Seq(Chars) /\ Len(x) = Len(y)
      BY <2>1, <2>2, <2>5
    <3>2. \A i \in 1..Len(x) : x[i] = y[i]
      BY <2>1, <2>2, <2>5
    <3> HIDE DEF x, y
    <3>3. x = y
      BY <3>1, <3>2, SeqEqual
    <3> QED BY <3>3 DEF x, y
  <2> QED BY <1>4, <1>5, <1>7, <2>4, <2>5 DEF SamePath
<1> QED BY <1>6, <1>7

LEMMA SegmentsFirst ==
    ASSUME NEW u \in Urls
    PROVE  /\ Segments(u) = <<>> <=> u = <<>>
           /\ u # <<>> => /\ 1 \in 1..Len(u)
                          /\ Segments(u)[1] = SubSeq(u, 2, IndexOf(u, 1))
                          /\ SubSeq(u, 2, IndexOf(u, 1)) \in Seq(Chars)
                          /\ Len(SubSeq(u, 2, IndexOf(u, 1))) = IndexOf(u, 1) - 1
<1>1. u \in Seq(Chars)
  BY UrlsAreText
<1>2. PICK g : Splits(g, u) /\ Segments(u) = g[1]
  BY <1>1, SegmentsSplit
<1>3. Len(u) \in Nat /\ (Len(u) = 0 <=> u = <<>>)
  BY <1>1
<1>4. CASE u = <<>>
  <2>1. Len(u) + 1 = 1
    BY <1>3, <1>4
  <2>2. g[Len(u) + 1] = <<>>
    BY <1>2 DEF Splits
  <2> QED BY <1>2, <1>4, <2>1, <2>2
<1>5. CASE u # <<>>
  <2> DEFINE e == IndexOf(u, 1)
             x == SubSeq(u, 2, e)
             y == g[e + 1]
             T == Seq(Chars)
  <2>1. 1 \in 1..Len(u)
    BY <1>3, <1>5
  <2>2. e \in 1..Len(u)
    BY <1>1, <2>1, IndexOfFacts
  <2>3. g[1] = <<x>> \o y
    <3>1. g[1] = <<SubSeq(u, 1 + 1, e)>> \o g[e + 1] /\ 1 + 1 = 2
      BY <1>2, <2>1 DEF Splits
    <3> QED BY <3>1
  <2>4. x \in T /\ Len(x) = e - 1
    <3>1. \A i \in 2..e : u[i] \in Chars
      BY <1>1, <1>3, <2>2
    <3>2. e \in Int /\ 2 \in Int
      BY <2>2
    <3>3. x \in Seq(Chars) /\ Len(x) = IF 2 <= e THEN e - 2 + 1 ELSE 0
      BY <3>1, <3>2, SubSeqProperties
    <3> QED BY <2>2, <3>3
  <2>5. y \in Seq(T)
    <3>1. e + 1 \in 1..Len(u) + 1
      BY <1>3, <2>2
    <3> QED BY <1>1, <1>2, <3>1, SplitsType
  <2> HIDE DEF x, y, T, e
  <2>6. <<x>> \o y # <<>> /\ (<<x>> \o y)[1] = x
    BY <2>4, <2>5, LeadSame
  <2>7. x \in Seq(Chars)
    BY <2>4 DEF T
  <2> QED BY <1>2, <1>5, <2>1, <2>3, <2>4, <2>6, <2>7 DEF x, e
<1> QED BY <1>4, <1>5

LEMMA SegmentsBranch ==
    ASSUME NEW u \in Urls, NEW v \in Urls
    PROVE  SameBranch(u, v) <=> /\ Segments(u) # <<>> /\ Segments(v) # <<>>
                                /\ Segments(u)[1] = Segments(v)[1]
<1>1. u \in Seq(Chars) /\ v \in Seq(Chars)
  BY UrlsAreText
<1>2. CASE u = <<>> \/ v = <<>>
  BY <1>2, SegmentsFirst DEF SameBranch
<1>3. CASE u # <<>> /\ v # <<>>
  <2> DEFINE m == Len(u)
             n == Len(v)
             e == IndexOf(u, 1)
             f == IndexOf(v, 1)
             x == SubSeq(u, 2, e)
             y == SubSeq(v, 2, f)
  <2>1. /\ Segments(u) # <<>> /\ Segments(v) # <<>>
        /\ Segments(u)[1] = x /\ Segments(v)[1] = y
        /\ Len(x) = e - 1 /\ Len(y) = f - 1
        /\ 1 \in 1..m /\ 1 \in 1..n
    BY <1>3, SegmentsFirst
  <2>2. m \in Nat /\ n \in Nat
    BY <1>1
  <2>3. /\ e \in 1..m /\ (\A i \in 1 + 1..e : u[i] # Slash)
        /\ e = m \/ u[e + 1] = Slash
    BY <1>1, <2>1, IndexOfFacts
  <2>4. /\ f \in 1..n
        /\ f = n \/ v[f + 1] = Slash
    BY <1>1, <2>1, IndexOfFacts
  <2>5. ASSUME x = y PROVE SameBranch(u, v)
    <3>1. e = f
      <4> HIDE DEF x, y, e, f, m, n
      <4> QED BY <2>1, <2>3, <2>4, <2>5
    <3>2. SubSeq(v, 2, e) = y
      BY <3>1
    <3>3. SubSeq(u, 2, e) = SubSeq(v, 2, e)
      BY <2>5, <3>2
    <3>4. \A i \in 2..e : u[i] # Slash
      <4> HIDE DEF e
      <4> QED BY <2>3
    <3> HIDE DEF e, f, m, n
    <3>5. e \in 1..m /\ e <= n /\ (e = m \/ u[e + 1] = Slash) /\ (e = n \/ v[e + 1] = Slash)
      BY <2>3, <2>4, <3>1
    <3> QED BY <1>3, <3>3, <3>4, <3>5 DEF SameBranch, m, n
  <2>6. ASSUME SameBranch(u, v) PROVE x = y
    <3>1. PICK k \in 1..m : /\ k <= n /\ SubSeq(u, 2, k) = SubSeq(v, 2, k)
                            /\ \A i \in 2..k : u[i] # Slash
                            /\ k = m \/ u[k + 1] = Slash
                            /\ k = n \/ v[k + 1] = Slash
      BY <2>6 DEF SameBranch
    <3>0. k \in Int /\ 1 <= k /\ k <= m /\ k <= n
      <4> HIDE DEF m, n
      <4> QED BY <2>2, <3>1
    <3>2. \A i \in 2..k : v[i] = u[i]
      <4> DEFINE p == SubSeq(u, 2, k)
                 q == SubSeq(v, 2, k)
      <4>0. \A i \in 2..k : i \in 1..m /\ i \in 1..n
        <5> HIDE DEF m, n
        <5> QED BY <2>2, <3>0
      <4>1. (\A i \in 2..k : u[i] \in Chars) /\ \A i \in 2..k : v[i] \in Chars
        BY <1>1, <4>0
      <4>2. 2 \in Int /\ k \in Int
        BY <3>0
      <4>3. \A i \in 1..k - 2 + 1 : p[i] = u[2 + i - 1]
        BY <4>1, <4>2, SubSeqProperties
      <4>4. \A i \in 1..k - 2 + 1 : q[i] = v[2 + i - 1]
        BY <4>1, <4>2, SubSeqProperties
      <4>5. p = q
        BY <3>1
      <4> HIDE DEF p, q
      <4>6. ASSUME NEW i \in 2..k PROVE v[i] = u[i]
        <5>1. i - 1 \in 1..k - 2 + 1 /\ 2 + (i - 1) - 1 = i
          BY <4>2
        <5> QED BY <4>3, <4>4, <4>5, <5>1
      <4> QED BY <4>6
    <3>3. k \in 1..m /\ k \in 1..n /\ k \in 1..k
      <4> HIDE DEF n, m
      <4> QED BY <2>2, <3>0
    <3>4. (\A i \in 1 + 1..k : u[i] # Slash) /\ \A i \in 1 + 1..k : v[i] # Slash
      BY <3>1, <3>2
    <3>5. IndexOf(u, 1) = k
      <4>1. k \in 1..Len(u) /\ (k = Len(u) \/ u[k + 1] = Slash)
        BY <3>1, <3>3
      <4> QED BY ONLY <1>1, <2>1, <4>1, <3>4, IndexOfIs
    <3>6. IndexOf(v, 1) = k
      <4>1. k \in 1..Len(v) /\ (k = Len(v) \/ v[k + 1] = Slash)
        BY <3>1, <3>3
      <4> QED BY ONLY <1>1, <2>1, <4>1, <3>4, IndexOfIs
    <3> QED BY <3>1, <3>5, <3>6
  <2> QED BY <2>1, <2>5, <2>6
<1> QED BY <1>2, <1>3

-----------------------------------------------------------------------------
(* The tree.  A Route is a record; its sub-routes are a function from       *)
(* segments to addresses.                                                   *)
RouteMaps == UNION {[D -> Nat] : D \in SUBSET Seq(Chars)}

Cells == [methods : [Methods -> Nat], routes : RouteMaps]

LEMMA RouteMapsAre ==
    ASSUME NEW r
    PROVE  r \in RouteMaps <=> /\ r = [k \in DOMAIN r |-> r[k]]
                               /\ DOMAIN r \subseteq Seq(Chars)
                               /\ \A k \in DOMAIN r : r[k] \in Nat
<1> DEFINE T == Seq(Chars)
<1> HIDE DEF T
<1>1. ASSUME r \in UNION {[D -> Nat] : D \in SUBSET T}
      PROVE  /\ r = [k \in DOMAIN r |-> r[k]] /\ DOMAIN r \subseteq T
             /\ \A k \in DOMAIN r : r[k] \in Nat
  <2>1. PICK D \in SUBSET T : r \in [D -> Nat]
    BY <1>1
  <2> QED BY <2>1
<1>2. ASSUME r = [k \in DOMAIN r |-> r[k]], DOMAIN r \subseteq T,
             \A k \in DOMAIN r : r[k] \in Nat
      PROVE  r \in UNION {[D -> Nat] : D \in SUBSET T}
  <2>1. PICK D \in SUBSET T : D = DOMAIN r
    BY <1>2
  <2>2. r \in [D -> Nat]
    BY <1>2, <2>1
  <2> QED BY <2>1, <2>2
<1> QED BY <1>1, <1>2 DEF RouteMaps, T

LEMMA NewCell == NewRoute \in Cells /\ DOMAIN NewRoute.routes = {}
                 /\ \A m \in Methods : NewRoute.methods[m] = None
<1>1. DOMAIN <<>> = {}
  OBVIOUS
<1> DEFINE e == <<>>
<1>2. e = [k \in DOMAIN e |-> e[k]]
  OBVIOUS
<1>3. e \in RouteMaps
  <2> HIDE DEF e
  <2>1. DOMAIN e = {}
    BY <1>1 DEF e
  <2> QED BY <1>2, <2>1, RouteMapsAre
<1>4. NewRoute = [methods |-> NewRoute.methods, routes |-> e]
      /\ NewRoute.methods = [m \in Methods |-> 0]
  BY DEF NewRoute, None
<1> QED BY <1>1, <1>3, <1>4 DEF Cells, None

LEMMA CellEdits ==
    ASSUME NEW c \in Cells
    PROVE  /\ c.methods \in [Methods -> Nat] /\ c.routes \in RouteMaps
           /\ \A r \in RouteMaps :
                 /\ [c EXCEPT !.routes = r] \in Cells
                 /\ [c EXCEPT !.routes = r].routes = r
                 /\ [c EXCEPT !.routes = r].methods = c.methods
           /\ \A m \in Methods, n \in Nat :
                 /\ [c EXCEPT !.methods[m] = n] \in Cells
                 /\ [c EXCEPT !.methods[m] = n].routes = c.routes
                 /\ [c EXCEPT !.methods[m] = n].methods = [c.methods EXCEPT ![m] = n]
<1>1. c.methods \in [Methods -> Nat] /\ c.routes \in RouteMaps
  BY DEF Cells
<1>2. ASSUME NEW r \in RouteMaps
      PROVE  /\ [c EXCEPT !.routes = r] \in Cells
             /\ [c EXCEPT !.routes = r].routes = r
             /\ [c EXCEPT !.routes = r].methods = c.methods
  BY <1>1 DEF Cells
<1>3. ASSUME NEW m \in Methods, NEW n \in Nat
      PROVE  /\ [c EXCEPT !.methods[m] = n] \in Cells
             /\ [c EXCEPT !.methods[m] = n].routes = c.routes
             /\ [c EXCEPT !.methods[m] = n].methods = [c.methods EXCEPT ![m] = n]
  <2> DEFINE f == [c.methods EXCEPT ![m] = n]
  <2>1. f \in [Methods -> Nat] /\ [c EXCEPT !.methods[m] = n] = [c EXCEPT !.methods = f]
    BY <1>1
  <2> HIDE DEF f
  <2>2. [c EXCEPT !.methods = f] \in Cells /\ [c EXCEPT !.methods = f].routes = c.routes
        /\ [c EXCEPT !.methods = f].methods = f
    BY <1>1, <2>1 DEF Cells
  <2> QED BY <2>1, <2>2 DEF f
<1> QED BY <1>1, <1>2, <1>3

(* The first i segments of a path.                                          *)
Prefix(p, i) == SubSeq(p, 1, i)

LEMMA PrefixFacts ==
    ASSUME NEW p \in Paths
    PROVE  /\ Prefix(p, 0) = <<>> /\ Prefix(p, Len(p)) = p
           /\ \A i \in 0..Len(p) : Prefix(p, i) \in Paths
           /\ \A i \in 1..Len(p) : /\ p[i] \in Seq(Chars)
                                   /\ Prefix(p, i) = Append(Prefix(p, i - 1), p[i])
<1> DEFINE T == Seq(Chars)
           n == Len(p)
<1>1. p \in Seq(T) /\ n \in Nat
  BY DEF Paths
<1> HIDE DEF T
<1>2. ASSUME NEW i \in 0..n
      PROVE  /\ SubSeq(p, 1, i) \in Seq(T) /\ Len(SubSeq(p, 1, i)) = i
             /\ \A j \in 1..i : SubSeq(p, 1, i)[j] = p[j]
  <2>1. i \in Int /\ \A j \in 1..i : p[j] \in T
    BY <1>1
  <2>2. /\ SubSeq(p, 1, i) \in Seq(T)
        /\ Len(SubSeq(p, 1, i)) = IF 1 <= i THEN i - 1 + 1 ELSE 0
        /\ \A j \in 1..i - 1 + 1 : SubSeq(p, 1, i)[j] = p[1 + j - 1]
    BY <2>1, SubSeqProperties
  <2>3. \A j \in 1..i : j \in 1..i - 1 + 1 /\ 1 + j - 1 = j
    BY <2>1
  <2>4. (IF 1 <= i THEN i - 1 + 1 ELSE 0) = i
    BY <1>1
  <2> QED BY <2>2, <2>3, <2>4
<1>3. 0 \in 0..n /\ n \in 0..n
  BY <1>1
<1>4. SubSeq(p, 1, 0) = <<>>
  BY <1>2, <1>3
<1>5. SubSeq(p, 1, n) = p
  <2> DEFINE x == SubSeq(p, 1, n)
  <2>1. x \in Seq(T) /\ Len(x) = n /\ \A j \in 1..n : x[j] = p[j]
    BY <1>2, <1>3
  <2> HIDE DEF x
  <2>2. x = p
    BY <1>1, <2>1, SeqEqual
  <2> QED BY <2>2 DEF x
<1>6. ASSUME NEW i \in 1..n
      PROVE  p[i] \in T /\ SubSeq(p, 1, i) = Append(SubSeq(p, 1, i - 1), p[i])
  <2> DEFINE x == SubSeq(p, 1, i)
             y == SubSeq(p, 1, i - 1)
             z == Append(y, p[i])
  <2>1. i \in 0..n /\ i - 1 \in 0..n /\ i \in Int /\ p[i] \in T
    BY <1>1
  <2>2. x \in Seq(T) /\ Len(x) = i /\ \A j \in 1..i : x[j] = p[j]
    BY <1>2, <2>1
  <2>3. y \in Seq(T) /\ Len(y) = i - 1 /\ \A j \in 1..i - 1 : y[j] = p[j]
    BY <1>2, <2>1
  <2> HIDE DEF y
  <2>4. z \in Seq(T) /\ Len(z) = i /\ z[i] = p[i] /\ \A j \in 1..i - 1 : z[j] = y[j]
    BY <2>1, <2>3
  <2> HIDE DEF x, z
  <2>5. ASSUME NEW j \in 1..i PROVE x[j] = z[j]
    <3>1. j = i \/ j \in 1..i - 1
      BY <2>1
    <3> QED BY <2>2, <2>3, <2>4, <3>1
  <2>6. x = z
    BY <2>2, <2>4, <2>5, SeqEqual
  <2> QED BY <2>1, <2>6 DEF x, y, z
<1> QED BY <1>1, <1>2, <1>4, <1>5, <1>6 DEF Prefix, Paths, T

LEMMA AppendsSame ==
    ASSUME NEW p \in Paths, NEW q \in Paths, NEW x \in Seq(Chars), NEW y \in Seq(Chars)
    PROVE  /\ Append(p, x) \in Paths /\ Append(p, x) # <<>>
           /\ Append(p, x) = Append(q, y) => p = q /\ x = y
<1> DEFINE T == Seq(Chars)
<1>1. p \in Seq(T) /\ q \in Seq(T) /\ x \in T /\ y \in T
  BY DEF Paths
<1> HIDE DEF T
<1>2. Append(p, x) \in Seq(T) /\ Append(p, x) # <<>>
  BY <1>1, AppendProperties
<1>3. ASSUME Append(p, x) = Append(q, y) PROVE p = q /\ x = y
  <2>1. /\ Len(Append(p, x)) = Len(p) + 1 /\ Append(p, x)[Len(p) + 1] = x
        /\ \A i \in 1..Len(p) : Append(p, x)[i] = p[i]
    BY <1>1, AppendProperties
  <2>2. /\ Len(Append(q, y)) = Len(q) + 1 /\ Append(q, y)[Len(q) + 1] = y
        /\ \A i \in 1..Len(q) : Append(q, y)[i] = q[i]
    BY <1>1, AppendProperties
  <2>3. Len(p) = Len(q)
    <3>1. Len(p) \in Nat /\ Len(q) \in Nat /\ Len(p) + 1 = Len(q) + 1
      BY <1>1, <1>3, <2>1, <2>2
    <3> QED BY <3>1
  <2>4. \A i \in 1..Len(p) : p[i] = q[i]
    BY <1>3, <2>1, <2>2, <2>3
  <2>5. p = q
    BY <1>1, <2>3, <2>4, SeqEqual
  <2> QED BY <1>3, <2>1, <2>2, <2>3, <2>5
<1> QED BY <1>2, <1>3 DEF Paths, T

Texts == Seq(Chars)

Below(p, x) == Append(p, x)

LEMMA BelowFacts ==
    /\ <<>> \in Paths
    /\ \A p \in Paths, x \in Texts : Below(p, x) \in Paths /\ Below(p, x) # <<>>
    /\ \A p \in Paths, q \in Paths, x \in Texts, y \in Texts :
          Below(p, x) = Below(q, y) => p = q /\ x = y
<1>1. <<>> \in Paths
  BY DEF Paths
<1> QED BY <1>1, AppendsSame DEF Below, Texts

LEMMA PrefixBelow ==
    ASSUME NEW p \in Paths
    PROVE  /\ Prefix(p, 0) = <<>> /\ Prefix(p, Len(p)) = p
           /\ \A i \in 0..Len(p) : Prefix(p, i) \in Paths
           /\ \A i \in 1..Len(p) : /\ p[i] \in Texts
                                   /\ Prefix(p, i) = Below(Prefix(p, i - 1), p[i])
BY PrefixFacts DEF Below, Texts

Nodes(mm, C) == 1..Len(mm) \ C

(* The Routes below R are a tree and a Route's name is the path that leads  *)
(* to it; those at C are the copies of R, whose sub-routes R has too.       *)
Edges(mm, C, name) ==
    \A a \in 1..Len(mm) : \A k \in DOMAIN mm[a].routes :
        /\ mm[a].routes[k] \in Nodes(mm, C)
        /\ name[mm[a].routes[k]] = Below(name[a], k)

Unique(mm, C, name) ==
    \A a \in Nodes(mm, C), b \in Nodes(mm, C) : name[a] = name[b] => a = b

Parents(mm, R, C) ==
    \A a \in Nodes(mm, C) \ {R} :
        \E b \in Nodes(mm, C) : \E k \in DOMAIN mm[b].routes : mm[b].routes[k] = a

Copies(mm, R, C) ==
    \A c \in C : \A k \in DOMAIN mm[c].routes :
        k \in DOMAIN mm[R].routes /\ mm[c].routes[k] = mm[R].routes[k]

Tree(mm, R, C, name) ==
    /\ mm \in Seq(Cells) /\ C \subseteq 1..Len(mm) /\ R \in Nodes(mm, C)
    /\ \A a \in 1..Len(mm) : name[a] \in Paths
    /\ name[R] = <<>> /\ \A c \in C : name[c] = <<>>
    /\ Edges(mm, C, name) /\ Unique(mm, C, name)
    /\ Parents(mm, R, C) /\ Copies(mm, R, C)

(* What making more Routes leaves alone.                                    *)
Kept(mm, name, mn, more, C) ==
    /\ Len(mn) >= Len(mm)
    /\ \A a \in 1..Len(mm) : /\ more[a] = name[a]
                             /\ mn[a].methods = mm[a].methods
                             /\ a \in C => mn[a].routes = mm[a].routes
    /\ \A a \in 1..Len(mn) : a \notin 1..Len(mm) =>
          \A m \in Methods : mn[a].methods[m] = None

LEMMA Cell ==
    ASSUME NEW mm \in Seq(Cells), NEW a \in 1..Len(mm)
    PROVE  /\ mm[a] \in Cells /\ Len(mm) \in Nat
           /\ mm[a].methods \in [Methods -> Nat]
           /\ mm[a].routes = [k \in DOMAIN mm[a].routes |-> mm[a].routes[k]]
           /\ DOMAIN mm[a].routes \subseteq Texts
           /\ \A k \in DOMAIN mm[a].routes : mm[a].routes[k] \in Nat
<1>1. mm[a] \in Cells /\ Len(mm) \in Nat
  OBVIOUS
<1>2. mm[a].methods \in [Methods -> Nat] /\ mm[a].routes \in RouteMaps
  BY <1>1, CellEdits
<1> QED BY <1>1, <1>2, RouteMapsAre DEF Texts

(* One round of on()'s loop.                                                *)
Grown(mm, R, C, name, at, x, mn, more, to) ==
    /\ Enter([mem |-> mm, at |-> at], x) = [mem |-> mn, at |-> to]
    /\ Tree(mn, R, C, more) /\ more[to] = Below(name[at], x)
    /\ Kept(mm, name, mn, more, C)
    /\ DOMAIN mn[at].routes = DOMAIN mm[at].routes \cup {x}
    /\ \A a \in 1..Len(mm) : a # at => mn[a].routes = mm[a].routes

LEMMA Grow ==
    ASSUME NEW mm, NEW R, NEW C, NEW name, Tree(mm, R, C, name),
           NEW at \in Nodes(mm, C), NEW x \in Texts
    PROVE  \E mn : \E more : \E to \in Nodes(mn, C) :
              Grown(mm, R, C, name, at, x, mn, more, to)
<1> DEFINE routes == mm[at].routes
           n == Len(mm)
           s == [mem |-> mm, at |-> at]
<1>1. /\ mm \in Seq(Cells) /\ C \subseteq 1..n /\ R \in Nodes(mm, C)
      /\ \A a \in 1..n : name[a] \in Paths
      /\ name[R] = <<>> /\ \A c \in C : name[c] = <<>>
      /\ Edges(mm, C, name) /\ Unique(mm, C, name)
      /\ Parents(mm, R, C) /\ Copies(mm, R, C)
  BY DEF Tree
<1>2. at \in 1..n /\ n \in Nat /\ at \notin C
  BY <1>1 DEF Nodes
<1>3. /\ mm[at] \in Cells /\ routes = [k \in DOMAIN routes |-> routes[k]]
      /\ DOMAIN routes \subseteq Texts /\ \A k \in DOMAIN routes : routes[k] \in Nat
  BY <1>1, <1>2, Cell
<1>4. s.mem = mm /\ s.at = at
  OBVIOUS
<1>5. CASE x \in DOMAIN routes
  <2>1. Enter(s, x) = [mem |-> mm, at |-> routes[x]]
    BY <1>4, <1>5 DEF Enter
  <2>2. routes[x] \in Nodes(mm, C) /\ name[routes[x]] = Below(name[at], x)
    BY <1>1, <1>2, <1>5 DEF Edges
  <2>3. Kept(mm, name, mm, name, C)
    BY <1>2 DEF Kept
  <2>4. DOMAIN routes = DOMAIN routes \cup {x}
    BY <1>5
  <2>5. Grown(mm, R, C, name, at, x, mm, name, routes[x])
    BY <2>1, <2>2, <2>3, <2>4 DEF Grown
  <2> QED BY <2>2, <2>5
<1>6. CASE x \notin DOMAIN routes
  <2> DEFINE new == n + 1
             more == [k \in DOMAIN routes \cup {x} |-> IF k = x THEN new ELSE routes[k]]
             cell == [mm[at] EXCEPT !.routes = more]
             m1 == [mm EXCEPT ![at] = cell]
             mn == Append(m1, NewRoute)
             names == [a \in 1..new |-> IF a = new THEN Below(name[at], x) ELSE name[a]]
  <2>1. Enter(s, x) = [mem |-> mn, at |-> new]
    BY <1>4, <1>6 DEF Enter
  <2>2. /\ DOMAIN more = DOMAIN routes \cup {x} /\ more[x] = new
        /\ \A k \in DOMAIN routes : more[k] = routes[k]
    BY <1>6
  <2>3. more \in RouteMaps
    <3>1. more = [k \in DOMAIN more |-> more[k]]
      OBVIOUS
    <3>2. DOMAIN more \subseteq Seq(Chars)
      BY <1>3, <2>2 DEF Texts
    <3>3. \A k \in DOMAIN more : more[k] \in Nat
      <4> HIDE DEF more, routes
      <4> QED BY <1>2, <1>3, <2>2
    <3> HIDE DEF more
    <3> QED BY <3>1, <3>2, <3>3, RouteMapsAre
  <2> HIDE DEF more
  <2>4. cell \in Cells /\ cell.routes = more /\ cell.methods = mm[at].methods
    BY <1>3, <2>3, CellEdits
  <2> HIDE DEF cell
  <2>5. /\ m1 \in Seq(Cells) /\ Len(m1) = n /\ m1[at] = cell
        /\ \A a \in 1..n : a # at => m1[a] = mm[a]
    BY <1>1, <1>2, <2>4
  <2> HIDE DEF m1
  <2>6. /\ mn \in Seq(Cells) /\ Len(mn) = new /\ mn[new] = NewRoute
        /\ \A a \in 1..n : mn[a] = m1[a]
    BY <2>5, NewCell, AppendProperties
  <2> HIDE DEF mn
  <2>7. /\ mn[at] = cell /\ \A a \in 1..n : a # at => mn[a] = mm[a]
    BY <1>2, <2>5, <2>6
  <2>8. /\ new \notin 1..n /\ \A a \in 1..new : a = new \/ a \in 1..n
        /\ new \in 1..new /\ \A a \in 1..n : a \in 1..new
    BY <1>2
  <2>9. /\ names[new] = Below(name[at], x) /\ \A a \in 1..n : names[a] = name[a]
    BY <2>8
  <2> HIDE DEF names, new
  <2>10. /\ Nodes(mn, C) = Nodes(mm, C) \cup {new} /\ new \in Nodes(mn, C)
         /\ Nodes(mm, C) \subseteq 1..n /\ new \notin C
    BY <1>1, <2>6, <2>8 DEF Nodes
  <2>11. Below(name[at], x) \in Paths /\ Below(name[at], x) # <<>>
    BY <1>1, <1>2, BelowFacts
  <2>12. ASSUME NEW a \in 1..n
         PROVE  /\ mn[a].methods = mm[a].methods
                /\ a # at => mn[a].routes = mm[a].routes
    BY <2>4, <2>7
  <2>13. mn[at].routes = more
    BY <2>4, <2>7
  <2>14. Edges(mn, C, names)
    <3> SUFFICES ASSUME NEW a \in 1..new, NEW k \in DOMAIN mn[a].routes
                 PROVE  /\ mn[a].routes[k] \in Nodes(mn, C)
                        /\ names[mn[a].routes[k]] = Below(names[a], k)
      BY <2>6 DEF Edges
    <3>1. CASE a = new
      BY <2>6, <3>1, NewCell
    <3>2. CASE a = at /\ k = x
      BY <1>2, <2>2, <2>9, <2>10, <2>13, <3>2
    <3>3. CASE a = at /\ k # x
      <4>1. k \in DOMAIN routes /\ mn[a].routes[k] = routes[k]
        BY <2>2, <2>13, <3>3
      <4>2. routes[k] \in Nodes(mm, C) /\ name[routes[k]] = Below(name[at], k)
        BY <1>1, <1>2, <4>1 DEF Edges
      <4> QED BY <1>2, <2>9, <2>10, <3>3, <4>1, <4>2
    <3>4. CASE a # new /\ a # at
      <4>1. a \in 1..n /\ mn[a].routes = mm[a].routes
        BY <2>8, <2>12, <3>4
      <4>2. mm[a].routes[k] \in Nodes(mm, C) /\ name[mm[a].routes[k]] = Below(name[a], k)
        BY <1>1, <4>1 DEF Edges
      <4> QED BY <2>9, <2>10, <4>1, <4>2
    <3> QED BY <3>1, <3>2, <3>3, <3>4
  <2>15. ASSUME NEW a \in Nodes(mm, C) PROVE name[a] # Below(name[at], x)
    <3> SUFFICES ASSUME name[a] = Below(name[at], x) PROVE FALSE
      OBVIOUS
    <3>1. a # R
      BY <1>1, <2>11
    <3>2. PICK b \in Nodes(mm, C) : \E k \in DOMAIN mm[b].routes : mm[b].routes[k] = a
      BY <1>1, <3>1 DEF Parents
    <3>3. PICK k \in DOMAIN mm[b].routes : mm[b].routes[k] = a
      BY <3>2
    <3>4. b \in 1..n /\ k \in Texts
      <4>1. b \in 1..n
        BY <2>10
      <4> QED BY <1>1, <4>1, Cell
    <3>5. name[a] = Below(name[b], k)
      BY <1>1, <3>3, <3>4 DEF Edges
    <3>6. name[b] = name[at] /\ k = x
      <4>1. name[b] \in Paths /\ name[at] \in Paths /\ k \in Texts /\ x \in Texts
        BY <1>1, <1>2, <3>4
      <4>2. Below(name[b], k) = Below(name[at], x)
        BY <3>5
      <4> QED BY ONLY <4>1, <4>2, BelowFacts
    <3>7. b = at
      BY <1>1, <3>6 DEF Unique
    <3> QED BY <1>6, <3>3, <3>6, <3>7
  <2>16. Unique(mn, C, names)
    <3> SUFFICES ASSUME NEW a \in Nodes(mn, C), NEW b \in Nodes(mn, C), names[a] = names[b]
                 PROVE  a = b
      BY DEF Unique
    <3>1. CASE a = new /\ b # new
      BY <2>9, <2>10, <2>15, <3>1
    <3>2. CASE a # new /\ b = new
      BY <2>9, <2>10, <2>15, <3>2
    <3>3. CASE a # new /\ b # new
      BY <1>1, <2>9, <2>10, <3>3 DEF Unique
    <3> QED BY <3>1, <3>2, <3>3
  <2>17. Parents(mn, R, C)
    <3> SUFFICES ASSUME NEW a \in Nodes(mn, C) \ {R}
                 PROVE  \E b \in Nodes(mn, C) : \E k \in DOMAIN mn[b].routes :
                           mn[b].routes[k] = a
      BY DEF Parents
    <3>1. CASE a = new
      <4>1. x \in DOMAIN mn[at].routes /\ mn[at].routes[x] = new /\ at \in Nodes(mn, C)
        BY <2>2, <2>10, <2>13
      <4> QED BY <3>1, <4>1
    <3>2. CASE a # new
      <4>1. PICK b \in Nodes(mm, C) : \E k \in DOMAIN mm[b].routes : mm[b].routes[k] = a
        BY <1>1, <2>10, <3>2 DEF Parents
      <4>2. PICK k \in DOMAIN mm[b].routes : mm[b].routes[k] = a
        BY <4>1
      <4>3. k \in DOMAIN mn[b].routes /\ mn[b].routes[k] = a
        <5>1. CASE b = at
          BY <2>2, <2>13, <4>2, <5>1
        <5>2. CASE b # at
          BY <2>10, <2>12, <4>2, <5>2
        <5> QED BY <5>1, <5>2
      <4> QED BY <2>10, <4>3
    <3> QED BY <3>1, <3>2
  <2>18. Copies(mn, R, C)
    <3> SUFFICES ASSUME NEW c \in C, NEW k \in DOMAIN mn[c].routes
                 PROVE  k \in DOMAIN mn[R].routes /\ mn[c].routes[k] = mn[R].routes[k]
      BY DEF Copies
    <3>1. c \in 1..n /\ c # at /\ R \in 1..n
      BY <1>1, <1>2, <2>10
    <3>2. mn[c].routes = mm[c].routes
      BY <2>12, <3>1
    <3>3. k \in DOMAIN mm[R].routes /\ mm[c].routes[k] = mm[R].routes[k]
      BY <1>1, <3>2 DEF Copies
    <3>4. CASE R = at
      BY <2>2, <2>13, <3>2, <3>3, <3>4
    <3>5. CASE R # at
      BY <2>12, <3>1, <3>2, <3>3, <3>5
    <3> QED BY <3>4, <3>5
  <2>19. Tree(mn, R, C, names)
    <3>1. C \subseteq 1..Len(mn) /\ R \in Nodes(mn, C)
      BY <1>1, <2>6, <2>8, <2>10
    <3>2. \A a \in 1..Len(mn) : names[a] \in Paths
      BY <1>1, <2>6, <2>8, <2>9, <2>11
    <3>3. names[R] = <<>> /\ \A c \in C : names[c] = <<>>
      BY <1>1, <2>9, <2>10
    <3> QED BY <2>6, <2>14, <2>16, <2>17, <2>18, <3>1, <3>2, <3>3 DEF Tree
  <2>20. Kept(mm, name, mn, names, C)
    <3>1. Len(mn) >= n
      BY <1>2, <2>6 DEF new
    <3>2. \A a \in 1..n : /\ names[a] = name[a] /\ mn[a].methods = mm[a].methods
                          /\ a \in C => mn[a].routes = mm[a].routes
      BY <1>2, <2>9, <2>12
    <3>3. \A a \in 1..Len(mn) : a \notin 1..n => \A m \in Methods : mn[a].methods[m] = None
      BY <2>6, <2>8, NewCell
    <3> QED BY <3>1, <3>2, <3>3 DEF Kept
  <2>21. DOMAIN mn[at].routes = DOMAIN routes \cup {x}
    BY <2>2, <2>13
  <2>22. Grown(mm, R, C, name, at, x, mn, names, new)
    BY <2>1, <2>9, <2>10, <2>12, <2>19, <2>20, <2>21 DEF Grown
  <2> QED BY <2>10, <2>22
<1> QED BY <1>5, <1>6

(* The whole loop.                                                          *)
LEMMA KeptAgain ==
    ASSUME NEW m0, NEW n0, NEW m1, NEW n1, NEW m2, NEW n2, NEW C,
           Len(m0) \in Nat, Len(m1) \in Nat, Len(m2) \in Nat,
           C \subseteq 1..Len(m0), Kept(m0, n0, m1, n1, C), Kept(m1, n1, m2, n2, C)
    PROVE  Kept(m0, n0, m2, n2, C)
<1> DEFINE a0 == Len(m0)
           a1 == Len(m1)
           a2 == Len(m2)
<1>1. /\ a1 >= a0
      /\ \A a \in 1..a0 : /\ n1[a] = n0[a] /\ m1[a].methods = m0[a].methods
                          /\ a \in C => m1[a].routes = m0[a].routes
      /\ \A a \in 1..a1 : a \notin 1..a0 => \A m \in Methods : m1[a].methods[m] = None
  BY DEF Kept
<1>2. /\ a2 >= a1
      /\ \A a \in 1..a1 : /\ n2[a] = n1[a] /\ m2[a].methods = m1[a].methods
                          /\ a \in C => m2[a].routes = m1[a].routes
      /\ \A a \in 1..a2 : a \notin 1..a1 => \A m \in Methods : m2[a].methods[m] = None
  BY DEF Kept
<1>3. a0 \in Nat /\ a1 \in Nat /\ a2 \in Nat
  OBVIOUS
<1> HIDE DEF a0, a1, a2
<1>4. a2 >= a0 /\ \A a \in 1..a0 : a \in 1..a1
  BY <1>1, <1>2, <1>3
<1>5. \A a \in 1..a0 : /\ n2[a] = n0[a] /\ m2[a].methods = m0[a].methods
                       /\ a \in C => m2[a].routes = m0[a].routes
  BY <1>1, <1>2, <1>4
<1>6. ASSUME NEW a \in 1..a2, a \notin 1..a0, NEW m \in Methods
      PROVE  m2[a].methods[m] = None
  <2>1. CASE a \in 1..a1
    <3>1. m1[a].methods[m] = None
      BY <1>1, <1>6, <2>1
    <3>2. m2[a].methods = m1[a].methods
      BY <1>2, <2>1
    <3> QED BY <3>1, <3>2
  <2>2. CASE a \notin 1..a1
    BY <1>2, <1>6, <2>2
  <2> QED BY <2>1, <2>2
<1> QED BY <1>4, <1>5, <1>6 DEF Kept, a0, a1, a2

Reached(mm, R, C, name, p, mn, more, to) ==
    /\ EnterAll([mem |-> mm, at |-> R], p) = [mem |-> mn, at |-> to]
    /\ Tree(mn, R, C, more) /\ more[to] = p
    /\ Kept(mm, name, mn, more, C)
    /\ DOMAIN mn[R].routes = IF p = <<>> THEN DOMAIN mm[R].routes
                             ELSE DOMAIN mm[R].routes \cup {p[1]}

LEMMA Entered ==
    ASSUME NEW mm, NEW R, NEW C, NEW name, Tree(mm, R, C, name), NEW p \in Paths
    PROVE  \E mn : \E more : \E to \in Nodes(mn, C) :
              Reached(mm, R, C, name, p, mn, more, to)
<1> DEFINE n == Len(p)
           start == [mem |-> mm, at |-> R]
           Roots(i) == IF i = 0 THEN DOMAIN mm[R].routes
                       ELSE DOMAIN mm[R].routes \cup {p[1]}
<1>1. PICK h : /\ h[0] = start /\ EnterAll(start, p) = h[n]
               /\ \A i \in 1..n : h[i] = Enter(h[i - 1], p[i])
  <2>1. p \in Seq(Seq(Chars))
    BY DEF Paths
  <2> HIDE DEF start
  <2> QED BY <2>1, FoldEnter
<1>2. n \in Nat /\ (n = 0 <=> p = <<>>)
  BY DEF Paths
<1>3. /\ Prefix(p, 0) = <<>> /\ Prefix(p, n) = p
      /\ \A i \in 1..n : p[i] \in Texts /\ Prefix(p, i) = Below(Prefix(p, i - 1), p[i])
  BY PrefixBelow
<1>4. /\ mm \in Seq(Cells) /\ Len(mm) \in Nat /\ R \in Nodes(mm, C) /\ C \subseteq 1..Len(mm)
      /\ R \in 1..Len(mm) /\ name[R] = <<>> /\ \A a \in 1..Len(mm) : name[a] \in Paths
  BY DEF Tree, Nodes
<1> DEFINE Inside(i) ==
              \E mn : \E more : \E to \in Nodes(mn, C) :
                 /\ h[i] = [mem |-> mn, at |-> to]
                 /\ Tree(mn, R, C, more) /\ more[to] = Prefix(p, i)
                 /\ Kept(mm, name, mn, more, C)
                 /\ DOMAIN mn[R].routes = Roots(i)
           K == {i \in Nat : i <= n => Inside(i)}
<1> HIDE DEF n
<1>5. Inside(0)
  <2>1. Kept(mm, name, mm, name, C)
    BY <1>4 DEF Kept
  <2>2. DOMAIN mm[R].routes = Roots(0)
    OBVIOUS
  <2> HIDE DEF Roots
  <2> QED BY <1>1, <1>3, <1>4, <2>1, <2>2
<1>6. ASSUME NEW i \in Nat, i \in K PROVE i + 1 \in K
  <2> SUFFICES ASSUME i + 1 <= n PROVE Inside(i + 1)
    <3> HIDE DEF Inside
    <3> QED OBVIOUS
  <2>1. Inside(i) /\ i + 1 \in 1..n /\ (i + 1) - 1 = i
    <3> HIDE DEF Inside
    <3> QED BY <1>2, <1>6
  <2>2. PICK m1 : \E more : \E to \in Nodes(m1, C) :
                 /\ h[i] = [mem |-> m1, at |-> to]
                 /\ Tree(m1, R, C, more) /\ more[to] = Prefix(p, i)
                 /\ Kept(mm, name, m1, more, C)
                 /\ DOMAIN m1[R].routes = Roots(i)
    BY <2>1
  <2>3. PICK n1 : \E to \in Nodes(m1, C) :
                 /\ h[i] = [mem |-> m1, at |-> to]
                 /\ Tree(m1, R, C, n1) /\ n1[to] = Prefix(p, i)
                 /\ Kept(mm, name, m1, n1, C)
                 /\ DOMAIN m1[R].routes = Roots(i)
    BY <2>2
  <2>4. PICK at \in Nodes(m1, C) :
                 /\ h[i] = [mem |-> m1, at |-> at]
                 /\ Tree(m1, R, C, n1) /\ n1[at] = Prefix(p, i)
                 /\ Kept(mm, name, m1, n1, C)
                 /\ DOMAIN m1[R].routes = Roots(i)
    BY <2>3
  <2> DEFINE x == p[i + 1]
  <2>5. \E mn : \E more : \E to \in Nodes(mn, C) : Grown(m1, R, C, n1, at, x, mn, more, to)
    <3>1. x \in Texts
      BY <1>3, <2>1
    <3> HIDE DEF x
    <3> QED BY <2>4, <3>1, Grow
  <2>6. PICK m2 : \E more : \E to \in Nodes(m2, C) : Grown(m1, R, C, n1, at, x, m2, more, to)
    BY <2>5
  <2>7. PICK n2 : \E to \in Nodes(m2, C) : Grown(m1, R, C, n1, at, x, m2, n2, to)
    BY <2>6
  <2>8. PICK to \in Nodes(m2, C) : Grown(m1, R, C, n1, at, x, m2, n2, to)
    BY <2>7
  <2>9. h[i + 1] = [mem |-> m2, at |-> to]
    <3>1. h[i + 1] = Enter(h[i], x)
      BY <1>1, <2>1
    <3> QED BY <2>4, <2>8, <3>1 DEF Grown
  <2>10. n2[to] = Prefix(p, i + 1)
    BY <1>3, <2>1, <2>4, <2>8 DEF Grown
  <2>11. Kept(mm, name, m2, n2, C)
    <3>1. Len(m1) \in Nat /\ Len(m2) \in Nat
      BY <2>4, <2>8 DEF Tree, Grown
    <3>2. Kept(mm, name, m1, n1, C) /\ Kept(m1, n1, m2, n2, C)
      BY <2>4, <2>8 DEF Grown
    <3> QED BY <1>4, <3>1, <3>2, KeptAgain
  <2>12. DOMAIN m2[R].routes = Roots(i + 1)
    <3>1. R \in 1..Len(m1) /\ n1[R] = <<>> /\ R \in Nodes(m1, C) /\ Unique(m1, C, n1)
          /\ \A a \in 1..Len(m1) : n1[a] \in Paths
      BY <2>4 DEF Tree, Nodes
    <3>2. CASE i = 0
      <4>1. at = R
        BY <1>3, <2>4, <3>1, <3>2 DEF Unique
      <4> QED BY <2>4, <2>8, <3>2, <4>1 DEF Grown
    <3>3. CASE i # 0
      <4>1. at # R
        <5>1. i \in 1..n /\ i - 1 \in 0..n
          BY <1>2, <2>1, <3>3
        <5>2. Prefix(p, i - 1) \in Paths /\ p[i] \in Texts
          BY <1>3, <5>1, PrefixBelow DEF n
        <5>3. Prefix(p, i) # <<>>
          BY <1>3, <5>1, <5>2, BelowFacts
        <5> QED BY <2>4, <3>1, <5>3
      <4>2. m2[R].routes = m1[R].routes
        BY <2>8, <3>1, <4>1 DEF Grown
      <4>3. i + 1 # 0
        BY <1>6
      <4> QED BY <2>4, <3>3, <4>2, <4>3
    <3> QED BY <3>2, <3>3
  <2>13. Tree(m2, R, C, n2)
    BY <2>8 DEF Grown
  <2> HIDE DEF Roots, x
  <2> QED BY <2>9, <2>10, <2>11, <2>12, <2>13
<1>7. n \in K
  <2>1. 0 \in K /\ \A i \in Nat : i \in K => i + 1 \in K
    <3> HIDE DEF Inside
    <3> QED BY <1>5, <1>6
  <2> HIDE DEF K
  <2> QED BY <1>2, <2>1, Induction
<1>8. Inside(n)
  <2> HIDE DEF Inside
  <2> QED BY <1>2, <1>7
<1> QED BY <1>1, <1>2, <1>3, <1>8 DEF n, Reached

-----------------------------------------------------------------------------
(* The walk of operator(): the Route with the name p, or none if there is   *)
(* no such Route.                                                           *)
At(mm, C, name, a, p) ==
    \/ a \in Nodes(mm, C) /\ name[a] = p
    \/ a = None /\ \A b \in Nodes(mm, C) : name[b] # p

LEMMA WalkOn ==
    ASSUME NEW R, NEW C, NEW name, Tree(mem, R, C, name), NEW a,
           NEW p \in Paths, NEW x \in Texts, At(mem, C, name, a, p)
    PROVE  At(mem, C, name, Follow(a, x), Below(p, x))
<1>1. /\ mem \in Seq(Cells) /\ R \in Nodes(mem, C) /\ name[R] = <<>>
      /\ Edges(mem, C, name) /\ Unique(mem, C, name) /\ Parents(mem, R, C)
      /\ \A b \in 1..Len(mem) : name[b] \in Paths
  BY DEF Tree
<1>2. \A b \in Nodes(mem, C) : b \in 1..Len(mem) /\ b # None
  BY DEF Nodes, None
(* A Route named so has a parent named p.                                   *)
<1>3. ASSUME NEW b \in Nodes(mem, C), name[b] = Below(p, x)
      PROVE  \E d \in Nodes(mem, C) : /\ name[d] = p /\ x \in DOMAIN mem[d].routes
                                      /\ mem[d].routes[x] = b
  <2>1. b # R
    BY <1>1, <1>3, BelowFacts
  <2>2. PICK d \in Nodes(mem, C) : \E k \in DOMAIN mem[d].routes : mem[d].routes[k] = b
    BY <1>1, <2>1 DEF Parents
  <2>3. PICK k \in DOMAIN mem[d].routes : mem[d].routes[k] = b
    BY <2>2
  <2>4. d \in 1..Len(mem) /\ name[d] \in Paths
    BY <1>1, <1>2
  <2>5. k \in Texts
    BY <1>1, <2>4, Cell
  <2>6. name[b] = Below(name[d], k)
    BY <1>1, <2>3, <2>4 DEF Edges
  <2>7. Below(p, x) = Below(name[d], k)
    BY <1>3, <2>6
  <2>8. p = name[d] /\ x = k
    BY ONLY p \in Paths, x \in Texts, <2>4, <2>5, <2>7, BelowFacts
  <2> QED BY <2>3, <2>8
<1>4. CASE a = None
  <2>1. \A b \in Nodes(mem, C) : name[b] # p
    BY <1>2, <1>4 DEF At
  <2>2. Follow(a, x) = None
    BY <1>4 DEF Follow
  <2> QED BY <1>3, <2>1, <2>2 DEF At
<1>5. CASE a # None /\ x \in DOMAIN mem[a].routes
  <2>1. a \in Nodes(mem, C) /\ name[a] = p
    BY <1>5 DEF At
  <2>2. Follow(a, x) = mem[a].routes[x]
    BY <1>5 DEF Follow
  <2>3. mem[a].routes[x] \in Nodes(mem, C) /\ name[mem[a].routes[x]] = Below(p, x)
    BY <1>1, <1>2, <1>5, <2>1 DEF Edges
  <2> QED BY <2>2, <2>3 DEF At
<1>6. CASE a # None /\ x \notin DOMAIN mem[a].routes
  <2>1. a \in Nodes(mem, C) /\ name[a] = p
    BY <1>6 DEF At
  <2>2. Follow(a, x) = None
    BY <1>6 DEF Follow
  <2>3. ASSUME NEW b \in Nodes(mem, C) PROVE name[b] # Below(p, x)
    <3> SUFFICES ASSUME name[b] = Below(p, x) PROVE FALSE
      OBVIOUS
    <3>1. PICK d \in Nodes(mem, C) : name[d] = p /\ x \in DOMAIN mem[d].routes
      BY <1>3
    <3>2. d = a
      BY <1>1, <2>1, <3>1 DEF Unique
    <3> QED BY <1>6, <3>1, <3>2
  <2> QED BY <2>2, <2>3 DEF At
<1> QED BY <1>4, <1>5, <1>6

LEMMA Walk ==
    ASSUME NEW R, NEW C, NEW name, Tree(mem, R, C, name), NEW p \in Paths, NEW h,
           \A i \in 1..Len(p) : h[i] = Follow(h[i - 1], p[i]),
           NEW j \in 0..Len(p), At(mem, C, name, h[j], Prefix(p, j))
    PROVE  At(mem, C, name, h[Len(p)], p)
<1> DEFINE n == Len(p)
           Good(i) == At(mem, C, name, h[i], Prefix(p, i))
           K == {k \in Nat : j + k <= n => Good(j + k)}
<1>1. n \in Nat /\ j \in 0..n
  BY DEF Paths
<1>2. /\ Prefix(p, n) = p /\ \A i \in 0..n : Prefix(p, i) \in Paths
      /\ \A i \in 1..n : p[i] \in Texts /\ Prefix(p, i) = Below(Prefix(p, i - 1), p[i])
  BY PrefixBelow
<1>3. \A i \in 1..n : h[i] = Follow(h[i - 1], p[i])
  OBVIOUS
<1>4. Good(j)
  OBVIOUS
<1> HIDE DEF n
<1>5. ASSUME NEW i \in 1..n, Good(i - 1) PROVE Good(i)
  <2>1. i - 1 \in 0..n
    BY <1>1
  <2>2. Prefix(p, i - 1) \in Paths /\ p[i] \in Texts
    BY <1>2, <2>1
  <2>3. At(mem, C, name, Follow(h[i - 1], p[i]), Below(Prefix(p, i - 1), p[i]))
    BY <1>5, <2>2, WalkOn
  <2> QED BY <1>2, <1>3, <2>3
<1> HIDE DEF Good
<1>6. 0 \in K
  <2>1. j + 0 = j
    BY <1>1
  <2> QED BY <1>4, <2>1
<1>7. ASSUME NEW k \in Nat, k \in K PROVE k + 1 \in K
  <2> SUFFICES ASSUME j + (k + 1) <= n PROVE Good(j + (k + 1))
    OBVIOUS
  <2>1. j + (k + 1) \in 1..n /\ (j + (k + 1)) - 1 = j + k /\ j + k <= n
    BY <1>1
  <2>2. Good(j + k)
    BY <1>7, <2>1
  <2> QED BY <1>5, <2>1, <2>2
<1>8. n - j \in Nat /\ j + (n - j) = n /\ n <= n
  BY <1>1
<1>9. n - j \in K
  <2>1. 0 \in K /\ \A k \in Nat : k \in K => k + 1 \in K
    BY <1>6, <1>7
  <2> HIDE DEF K
  <2> QED BY <1>8, <2>1, Induction
<1>10. Good(n)
  BY <1>8, <1>9
<1> QED BY <1>2, <1>10 DEF Good, n

LEMMA Finds ==
    ASSUME NEW R, NEW C, NEW name, Tree(mem, R, C, name), NEW p \in Paths
    PROVE  At(mem, C, name, FollowAll(R, p), p)
<1>1. p \in Seq(Seq(Chars)) /\ Len(p) \in Nat
  BY DEF Paths
<1>2. PICK h : /\ h[0] = R /\ FollowAll(R, p) = h[Len(p)]
               /\ \A i \in 1..Len(p) : h[i] = Follow(h[i - 1], p[i])
  BY <1>1, FoldFollow
<1>3. At(mem, C, name, h[0], Prefix(p, 0))
  <2>1. R \in Nodes(mem, C) /\ name[R] = <<>>
    BY DEF Tree
  <2> QED BY <1>2, <2>1, PrefixBelow DEF At
<1>4. 0 \in 0..Len(p)
  BY <1>1
<1> QED BY <1>2, <1>3, <1>4, Walk

LEMMA FindsFromCopy ==
    ASSUME NEW R, NEW C, NEW name, Tree(mem, R, C, name), NEW p \in Paths, NEW c \in C
    PROVE  /\ p = <<>> => FollowAll(c, p) = c
           /\ p # <<>> /\ p[1] \in DOMAIN mem[c].routes =>
                 At(mem, C, name, FollowAll(c, p), p)
           /\ p # <<>> /\ p[1] \notin DOMAIN mem[c].routes => FollowAll(c, p) = None
<1>1. p \in Seq(Seq(Chars)) /\ Len(p) \in Nat /\ (Len(p) = 0 <=> p = <<>>)
  BY DEF Paths
<1>2. PICK h : /\ h[0] = c /\ FollowAll(c, p) = h[Len(p)]
               /\ \A i \in 1..Len(p) : h[i] = Follow(h[i - 1], p[i])
  <2>1. p \in Seq(Seq(Chars))
    BY <1>1
  <2> QED BY ONLY <2>1, FoldFollow
<1>3. c \in 1..Len(mem) /\ c # None /\ mem \in Seq(Cells)
  BY DEF Tree, None
<1>4. ASSUME p = <<>> PROVE FollowAll(c, p) = c
  BY <1>1, <1>2, <1>4
<1>5. ASSUME p # <<>>
      PROVE  1 \in 1..Len(p) /\ h[1] = Follow(c, p[1]) /\ 0 \in 0..Len(p) /\ 1 \in 0..Len(p)
  <2>1. 1 \in 1..Len(p) /\ 1 - 1 = 0
    BY <1>1, <1>5
  <2> QED BY <1>2, <2>1
<1>6. ASSUME p # <<>>, p[1] \in DOMAIN mem[c].routes
      PROVE  At(mem, C, name, FollowAll(c, p), p)
  <2>1. /\ p[1] \in DOMAIN mem[R].routes /\ mem[c].routes[p[1]] = mem[R].routes[p[1]]
        /\ R # None /\ R \in Nodes(mem, C) /\ name[R] = <<>>
    BY <1>6 DEF Tree, Copies, Nodes, None
  <2>2. h[1] = Follow(R, p[1])
    BY <1>3, <1>5, <1>6, <2>1 DEF Follow
  <2>3. At(mem, C, name, R, <<>>) /\ <<>> \in Paths
    BY <2>1, BelowFacts DEF At
  <2>4. p[1] \in Texts /\ Prefix(p, 1) = Below(<<>>, p[1])
    <3>1. 1 - 1 = 0
      OBVIOUS
    <3>2. Prefix(p, 0) = <<>> /\ Prefix(p, 1) = Below(Prefix(p, 1 - 1), p[1]) /\ p[1] \in Texts
      BY <1>5, <1>6, PrefixBelow
    <3> QED BY <3>1, <3>2
  <2>5. At(mem, C, name, h[1], Prefix(p, 1))
    BY <2>2, <2>3, <2>4, WalkOn
  <2>6. At(mem, C, name, h[Len(p)], p)
    BY <1>2, <1>5, <1>6, <2>5, Walk
  <2> QED BY <1>2, <2>6
<1>7. ASSUME p # <<>>, p[1] \notin DOMAIN mem[c].routes PROVE FollowAll(c, p) = None
  <2> DEFINE n == Len(p)
             K == {k \in Nat : 1 + k <= n => h[1 + k] = None}
  <2>1. h[1] = None
    BY <1>5, <1>7 DEF Follow
  <2>2. ASSUME NEW i \in 1..n, h[i - 1] = None PROVE h[i] = None
    <3>1. h[i] = Follow(h[i - 1], p[i])
      BY <1>2
    <3> QED BY <2>2, <3>1 DEF Follow
  <2>3. n \in Nat /\ 1 <= n
    BY <1>1, <1>7
  <2> HIDE DEF n
  <2>4. 0 \in K
    <3>1. 1 + 0 = 1
      OBVIOUS
    <3> QED BY <2>1, <3>1
  <2>5. ASSUME NEW k \in Nat, k \in K PROVE k + 1 \in K
    <3> SUFFICES ASSUME 1 + (k + 1) <= n PROVE h[1 + (k + 1)] = None
      OBVIOUS
    <3>1. 1 + (k + 1) \in 1..n /\ (1 + (k + 1)) - 1 = 1 + k /\ 1 + k <= n
      BY <2>3
    <3>2. h[1 + k] = None
      BY <2>5, <3>1
    <3> QED BY <2>2, <3>1, <3>2
  <2>6. n - 1 \in Nat /\ 1 + (n - 1) = n /\ n <= n
    BY <2>3
  <2>7. n - 1 \in K
    <3>1. 0 \in K /\ \A k \in Nat : k \in K => k + 1 \in K
      BY <2>4, <2>5
    <3> HIDE DEF K
    <3> QED BY <2>6, <3>1, Induction
  <2>8. h[n] = None
    BY <2>6, <2>7
  <2> QED BY <1>2, <2>8 DEF n
<1> QED BY <1>4, <1>6, <1>7

-----------------------------------------------------------------------------
(* The calls of on() that matter to a Route, and what it holds.             *)
Entries == [method : Methods, url : Urls]

Calls(L, n, m, p) == {i \in 1..n : L[i].method = m /\ Segments(L[i].url) = p}

Latest(S) == IF S = {} THEN None ELSE Max(S)

(* The first segments of the first n calls.                                 *)
Firsts(L, n) ==
    {Segments(L[j].url)[1] : j \in {k \in 1..n : Segments(L[k].url) # <<>>}}

Filled(mm, C, name, L) ==
    /\ \A a \in Nodes(mm, C) : \A m \in Methods :
          mm[a].methods[m] = Latest(Calls(L, Len(L), m, name[a]))
    /\ \A i \in 1..Len(L) : \E a \in Nodes(mm, C) : name[a] = Segments(L[i].url)

(* A copy of the root, made after the first n calls.                        *)
CopyOf(cell, L, n) ==
    /\ \A m \in Methods : cell.methods[m] = Latest(Calls(L, n, m, <<>>))
    /\ DOMAIN cell.routes = Firsts(L, n)

LEMMA FoundIs ==
    ASSUME NEW C, NEW name, Filled(mem, C, name, log),
           NEW p, NEW a, At(mem, C, name, a, p), NEW m \in Methods
    PROVE  (IF a = None THEN None ELSE mem[a].methods[m])
              = Latest(Calls(log, Len(log), m, p))
<1>1. CASE a \in Nodes(mem, C) /\ name[a] = p
  <2>1. a # None
    BY <1>1 DEF Nodes, None
  <2> QED BY <1>1, <2>1 DEF Filled
<1>2. CASE a = None /\ \A b \in Nodes(mem, C) : name[b] # p
  <2>1. ASSUME NEW i \in Calls(log, Len(log), m, p) PROVE FALSE
    <3>1. i \in 1..Len(log) /\ Segments(log[i].url) = p
      BY DEF Calls
    <3>2. \E b \in Nodes(mem, C) : name[b] = p
      BY <3>1 DEF Filled
    <3> QED BY <1>2, <3>2
  <2> QED BY <1>2, <2>1 DEF Latest
<1> QED BY <1>1, <1>2 DEF At

LEMMA EntryFacts ==
    ASSUME NEW L \in Seq(Entries)
    PROVE  /\ DOMAIN L = 1..Len(L) /\ Len(L) \in Nat
           /\ \A j \in 1..Len(L) : /\ L[j] \in Entries
                                   /\ L[j].method \in Methods /\ L[j].url \in Urls
                                   /\ Segments(L[j].url) \in Paths
<1>1. DOMAIN L = 1..Len(L) /\ Len(L) \in Nat /\ \A j \in 1..Len(L) : L[j] \in Entries
  OBVIOUS
<1>2. \A j \in 1..Len(L) : L[j].method \in Methods /\ L[j].url \in Urls
  BY <1>1 DEF Entries
<1> QED BY <1>1, <1>2, UrlsAreText

Asking(n, m, u) ==
    {i \in Known(n) : log[i].method = m /\ SamePath(log[i].url, u)}

LEMMA AskingIs ==
    ASSUME log \in Seq(Entries), NEW n \in 0..Len(log), NEW m, NEW u \in Urls, NEW i
    PROVE  i \in Asking(n, m, u) <=>
              /\ i \in 1..Len(log) /\ log[i].method = m
              /\ Segments(log[i].url) = Segments(u)
              /\ i <= n \/ (Segments(u) # <<>> /\ Segments(u)[1] \in Firsts(log, n))
<1>1. DOMAIN log = 1..Len(log) /\ Len(log) \in Nat
      /\ \A j \in 1..Len(log) : log[j].url \in Urls
  BY EntryFacts
<1>2. CASE i \notin 1..Len(log)
  BY <1>1, <1>2 DEF Asking, Known
<1>3. CASE i \in 1..Len(log)
  <2> DEFINE v == log[i].url
             p == Segments(u)
  <2>1. v \in Urls /\ (SamePath(v, u) <=> Segments(v) = p)
    BY <1>1, <1>3, SegmentsSame
  <2>2. \A j \in 1..n : j \in 1..Len(log)
    BY <1>1
  <2>3. ASSUME Segments(v) = p
        PROVE  (\E j \in 1..n : SameBranch(v, log[j].url))
                  <=> p # <<>> /\ p[1] \in Firsts(log, n)
    <3>1. ASSUME NEW j \in 1..n
          PROVE  SameBranch(v, log[j].url) <=>
                    /\ p # <<>> /\ Segments(log[j].url) # <<>>
                    /\ p[1] = Segments(log[j].url)[1]
      <4>1. log[j].url \in Urls
        BY <1>1, <2>2
      <4> QED BY <2>1, <2>3, <4>1, SegmentsBranch
    <3> QED BY <3>1 DEF Firsts
  <2>4. i \in Asking(n, m, u) <=>
           /\ log[i].method = m /\ SamePath(v, u)
           /\ i <= n \/ \E j \in 1..n : SameBranch(v, log[j].url)
    BY <1>1, <1>3 DEF Asking, Known
  <2> QED BY <1>3, <2>1, <2>3, <2>4
<1> QED BY <1>2, <1>3

LEMMA LookupIs ==
    ASSUME NEW router, NEW m, NEW u
    PROVE  Lookup(router, m, u) =
              LET a == FollowAll(router.root, Segments(u)) IN
              IF m = Unknown \/ a = None THEN None ELSE mem[a].methods[m]
BY DEF Lookup, FollowAll

LEMMA ExpectedIs ==
    ASSUME NEW n, NEW m, NEW u
    PROVE  Expected(n, m, u) = Latest(Asking(n, m, u))
BY DEF Expected, Latest, Asking

LEMMA UnknownHasNone ==
    ASSUME log \in Seq(Entries), NEW n \in 0..Len(log), NEW u \in Urls, NEW router
    PROVE  Lookup(router, Unknown, u) = Expected(n, Unknown, u)
<1>1. ASSUME NEW i \in Asking(n, Unknown, u) PROVE FALSE
  <2>1. i \in 1..Len(log) /\ log[i].method = Unknown
    BY AskingIs
  <2>2. log[i].method \in Methods
    BY <2>1, EntryFacts
  <2> QED BY <2>1, <2>2, MethodsAssumption
<1>2. Latest(Asking(n, Unknown, u)) = None
  BY <1>1 DEF Latest
<1> QED BY <1>2, ExpectedIs, LookupIs

LEMMA OriginalFinds ==
    ASSUME NEW C, NEW name, Tree(mem, original.root, C, name), Filled(mem, C, name, log),
           log \in Seq(Entries), NEW m \in Methods, NEW u \in Urls
    PROVE  Lookup(original, m, u) = Expected(Len(log), m, u)
<1> DEFINE p == Segments(u)
           a == FollowAll(original.root, p)
<1>1. p \in Paths
  BY UrlsAreText
<1>2. At(mem, C, name, a, p)
  BY <1>1, Finds
<1>3. Len(log) \in 0..Len(log) /\ Len(log) \in Nat
  BY SubSeqProperties
<1>4. Asking(Len(log), m, u) = Calls(log, Len(log), m, p)
  <2>1. \A i : i \in Asking(Len(log), m, u) <=>
           i \in 1..Len(log) /\ log[i].method = m /\ Segments(log[i].url) = p
    BY <1>3, AskingIs
  <2> QED BY <2>1 DEF Calls
<1>5. m # Unknown
  BY MethodsAssumption
<1>6. (IF a = None THEN None ELSE mem[a].methods[m]) = Latest(Calls(log, Len(log), m, p))
  BY <1>2, FoundIs
<1> HIDE DEF a
<1> QED BY <1>4, <1>5, <1>6, ExpectedIs, LookupIs DEF a

LEMMA CopyFinds ==
    ASSUME NEW C, NEW name, Tree(mem, original.root, C, name), Filled(mem, C, name, log),
           log \in Seq(Entries), NEW m \in Methods, NEW u \in Urls,
           NEW router, router.root \in C, NEW n \in 0..Len(log),
           CopyOf(mem[router.root], log, n)
    PROVE  Lookup(router, m, u) = Expected(n, m, u)
<1> DEFINE p == Segments(u)
           c == router.root
           a == FollowAll(c, p)
<1>1. p \in Paths /\ m # Unknown
  BY UrlsAreText, MethodsAssumption
<1>2. c \in C /\ c # None
  BY DEF Tree, None
<1>3. Lookup(router, m, u) = IF a = None THEN None ELSE mem[a].methods[m]
  BY <1>1, LookupIs
<1>4. \A i : i \in Asking(n, m, u) <=>
         /\ i \in 1..Len(log) /\ log[i].method = m /\ Segments(log[i].url) = p
         /\ i <= n \/ (p # <<>> /\ p[1] \in Firsts(log, n))
  BY AskingIs
<1>5. DOMAIN mem[c].routes = Firsts(log, n)
      /\ mem[c].methods[m] = Latest(Calls(log, n, m, <<>>))
  BY DEF CopyOf
<1>6. CASE p = <<>>
  <2>1. a = c
    BY <1>1, <1>2, <1>6, FindsFromCopy
  <2>2. Asking(n, m, u) = Calls(log, n, m, <<>>)
    <3>1. ASSUME NEW i
          PROVE  i \in 1..n <=> i \in 1..Len(log) /\ i <= n
      BY Len(log) \in Nat
    <3> HIDE DEF p
    <3>2. \A i : i \in Asking(n, m, u) <=>
             i \in 1..n /\ log[i].method = m /\ Segments(log[i].url) = <<>>
      BY <1>4, <1>6, <3>1
    <3> QED BY <3>2 DEF Calls
  <2> HIDE DEF a, c, p
  <2> QED BY <1>2, <1>3, <1>5, <2>1, <2>2, ExpectedIs
<1>7. CASE p # <<>> /\ p[1] \in DOMAIN mem[c].routes
  <2>1. At(mem, C, name, a, p)
    BY <1>1, <1>2, <1>7, FindsFromCopy
  <2>2. (IF a = None THEN None ELSE mem[a].methods[m]) = Latest(Calls(log, Len(log), m, p))
    BY <2>1, FoundIs
  <2>3. Asking(n, m, u) = Calls(log, Len(log), m, p)
    BY <1>4, <1>5, <1>7 DEF Calls
  <2> HIDE DEF a, c, p
  <2> QED BY <1>3, <2>2, <2>3, ExpectedIs
<1>8. CASE p # <<>> /\ p[1] \notin DOMAIN mem[c].routes
  <2>1. a = None
    BY <1>1, <1>2, <1>8, FindsFromCopy
  <2>2. ASSUME NEW i \in Asking(n, m, u) PROVE FALSE
    <3>1. i \in 1..n /\ Segments(log[i].url) = p
      <4>1. i \in 1..Len(log) /\ i <= n /\ Segments(log[i].url) = p
        BY <1>4, <1>5, <1>8
      <4> QED BY <4>1
    <3>2. p[1] \in Firsts(log, n)
      BY <1>8, <3>1 DEF Firsts
    <3> QED BY <1>5, <1>8, <3>2
  <2>3. Latest(Asking(n, m, u)) = None
    BY <2>2 DEF Latest
  <2> HIDE DEF a
  <2> QED BY <1>3, <2>1, <2>3, ExpectedIs
<1> QED BY <1>6, <1>7, <1>8

-----------------------------------------------------------------------------
(* One call of on() more.                                                   *)
MoreCalls(L, e, M) ==
    /\ M \in Seq(Entries) /\ Len(M) = Len(L) + 1 /\ M[Len(L) + 1] = e
    /\ \A i \in 1..Len(L) : M[i] = L[i]
    /\ \A k \in 0..Len(L) : /\ \A m, p : Calls(M, k, m, p) = Calls(L, k, m, p)
                            /\ Firsts(M, k) = Firsts(L, k)
    /\ \A m, p : Calls(M, Len(L) + 1, m, p) =
          IF e.method = m /\ Segments(e.url) = p
          THEN Calls(L, Len(L), m, p) \cup {Len(L) + 1} ELSE Calls(L, Len(L), m, p)
    /\ Firsts(M, Len(L) + 1) =
          IF Segments(e.url) = <<>> THEN Firsts(L, Len(L))
          ELSE Firsts(L, Len(L)) \cup {Segments(e.url)[1]}

LEMMA CallsMore ==
    ASSUME NEW L \in Seq(Entries), NEW e \in Entries, NEW M, M = Append(L, e)
    PROVE  MoreCalls(L, e, M)
<1> DEFINE n == Len(L)
<1>1. /\ M \in Seq(Entries) /\ Len(M) = n + 1 /\ M[n + 1] = e
      /\ \A i \in 1..n : M[i] = L[i]
  BY AppendProperties
<1>2. n \in Nat
  OBVIOUS
<1> HIDE DEF n
<1>3. ASSUME NEW k \in 0..n
      PROVE  /\ \A m, p : Calls(M, k, m, p) = Calls(L, k, m, p)
             /\ Firsts(M, k) = Firsts(L, k)
  <2>1. \A i \in 1..k : i \in 1..n
    BY <1>2
  <2>2. \A i \in 1..k : M[i] = L[i]
    BY <1>1, <2>1
  <2> QED BY <2>2 DEF Calls, Firsts
<1>4. \A i : i \in 1..n + 1 <=> i \in 1..n \/ i = n + 1
  BY <1>2
<1>5. ASSUME NEW m, NEW p
      PROVE  Calls(M, n + 1, m, p) =
                IF e.method = m /\ Segments(e.url) = p
                THEN Calls(L, n, m, p) \cup {n + 1} ELSE Calls(L, n, m, p)
  BY <1>1, <1>4 DEF Calls
<1>6. Firsts(M, n + 1) =
         IF Segments(e.url) = <<>> THEN Firsts(L, n)
         ELSE Firsts(L, n) \cup {Segments(e.url)[1]}
  BY <1>1, <1>4 DEF Firsts
<1> QED BY <1>1, <1>3, <1>5, <1>6 DEF n, MoreCalls

LEMMA LatestIs ==
    ASSUME NEW n \in Nat, NEW S, S \subseteq 1..n
    PROVE  Latest(S) \in 0..n /\ Latest(S \cup {n + 1}) = n + 1
<1>1. Latest(S) \in 0..n
  <2>1. CASE S = {}
    BY <2>1 DEF Latest, None
  <2>2. CASE S # {}
    <3>1. Max(S) \in S
      BY <2>2, Greatest
    <3>2. PICK x \in 1..n : Max(S) = x
      BY <3>1
    <3>3. Latest(S) = x
      BY <2>2, <3>2 DEF Latest
    <3> QED BY <3>3
  <2> QED BY <2>1, <2>2
<1>2. Latest(S \cup {n + 1}) = n + 1
  <2> DEFINE T == S \cup {n + 1}
  <2>1. T \subseteq Nat /\ n + 1 \in T /\ \A y \in T : n + 1 >= y
    OBVIOUS
  <2> HIDE DEF T
  <2>2. Max(T) = n + 1 /\ T # {}
    BY <2>1, MaxIs
  <2> QED BY <2>2 DEF Latest, T
<1> QED BY <1>1, <1>2

LEMMA CallsBound ==
    ASSUME NEW L, NEW n \in Nat, NEW m, NEW p
    PROVE  Calls(L, n, m, p) \subseteq 1..n /\ Latest(Calls(L, n, m, p)) \in 0..n
<1>1. Calls(L, n, m, p) \subseteq 1..n
  BY DEF Calls
<1> QED BY <1>1, LatestIs

Registered(mm, R, m, u, n) ==
    LET s == EnterAll([mem |-> mm, at |-> R], Segments(u)) IN
    [s.mem EXCEPT ![s.at].methods[m] = n + 1]

Built(mm, R, C, L) == \E name : Tree(mm, R, C, name) /\ Filled(mm, C, name, L)

Registering(mm, R, C, u, mn, M) ==
    /\ Built(mn, R, C, M)
    /\ DOMAIN mn[R].routes = IF Segments(u) = <<>> THEN DOMAIN mm[R].routes
                             ELSE DOMAIN mm[R].routes \cup {Segments(u)[1]}
    /\ \A c \in C : mn[c].methods = mm[c].methods /\ mn[c].routes = mm[c].routes

LEMMA Registers ==
    ASSUME NEW mm, NEW R, NEW C, NEW L \in Seq(Entries), Built(mm, R, C, L),
           NEW m \in Methods, NEW u \in Urls,
           NEW mn, mn = Registered(mm, R, m, u, Len(L)),
           NEW M, M = Append(L, [method |-> m, url |-> u])
    PROVE  Registering(mm, R, C, u, mn, M)
<1> DEFINE p == Segments(u)
           e == [method |-> m, url |-> u]
           n == Len(L)
<1>0. M = Append(L, e)
  OBVIOUS
<1>1. PICK name : Tree(mm, R, C, name) /\ Filled(mm, C, name, L)
  BY DEF Built
<1>2. p \in Paths
  BY UrlsAreText
<1>3. \E mx : \E more : \E to \in Nodes(mx, C) : Reached(mm, R, C, name, p, mx, more, to)
  <2> HIDE DEF p
  <2> QED BY <1>1, <1>2, Entered
<1>4. PICK m1 : \E more : \E to \in Nodes(m1, C) :
         Reached(mm, R, C, name, p, m1, more, to)
  BY <1>3
<1>5. PICK more : \E to \in Nodes(m1, C) : Reached(mm, R, C, name, p, m1, more, to)
  BY <1>4
<1>6. PICK to \in Nodes(m1, C) : Reached(mm, R, C, name, p, m1, more, to)
  BY <1>5
<1>7. mn = [m1 EXCEPT ![to].methods[m] = n + 1]
  <2> DEFINE s == EnterAll([mem |-> mm, at |-> R], p)
  <2>1. s = [mem |-> m1, at |-> to]
    BY <1>6 DEF Reached
  <2> HIDE DEF s
  <2>2. s.mem = m1 /\ s.at = to
    BY <2>1
  <2>3. mn = [s.mem EXCEPT ![s.at].methods[m] = n + 1]
    BY DEF Registered, s
  <2> QED BY <2>2, <2>3
<1>8. /\ m1 \in Seq(Cells) /\ Len(m1) \in Nat /\ to \in 1..Len(m1) /\ to \notin C
      /\ C \subseteq 1..Len(m1) /\ R \in Nodes(m1, C)
      /\ \A a \in 1..Len(m1) : more[a] \in Paths
      /\ more[R] = <<>> /\ \A c \in C : more[c] = <<>>
      /\ Edges(m1, C, more) /\ Unique(m1, C, more)
      /\ Parents(m1, R, C) /\ Copies(m1, R, C)
  BY <1>6 DEF Reached, Tree, Nodes
<1>9. n \in Nat /\ e \in Entries
  BY DEF Entries
<1> HIDE DEF n, e
<1>10. /\ mn \in Seq(Cells) /\ Len(mn) = Len(m1)
       /\ mn[to].methods = [m1[to].methods EXCEPT ![m] = n + 1]
       /\ \A a \in 1..Len(m1) : a # to => mn[a] = m1[a]
       /\ \A a \in 1..Len(m1) : mn[a].routes = m1[a].routes
  <2> DEFINE cell == [m1[to] EXCEPT !.methods[m] = n + 1]
  <2>1. m1[to] \in Cells /\ n + 1 \in Nat
    BY <1>8, <1>9
  <2>2. /\ cell \in Cells /\ cell.routes = m1[to].routes
        /\ cell.methods = [m1[to].methods EXCEPT ![m] = n + 1]
    BY <2>1, CellEdits
  <2>3. mn = [m1 EXCEPT ![to] = cell]
    BY <1>7
  <2> HIDE DEF cell
  <2>4. /\ mn \in Seq(Cells) /\ Len(mn) = Len(m1) /\ mn[to] = cell
        /\ \A a \in 1..Len(m1) : a # to => mn[a] = m1[a]
    BY <1>8, <2>2, <2>3
  <2> QED BY <2>2, <2>4
<1>11. Nodes(mn, C) = Nodes(m1, C) /\ Nodes(m1, C) \subseteq 1..Len(m1)
  BY <1>10 DEF Nodes
<1>12. Tree(mn, R, C, more)
  <2>1. Edges(mn, C, more)
    BY <1>8, <1>10, <1>11 DEF Edges
  <2>2. Unique(mn, C, more)
    BY <1>8, <1>11 DEF Unique
  <2>3. Parents(mn, R, C)
    BY <1>8, <1>10, <1>11 DEF Parents
  <2>4. Copies(mn, R, C)
    <3>1. R \in 1..Len(m1)
      BY <1>8, <1>11
    <3>2. mn[R].routes = m1[R].routes /\ \A c \in C : mn[c].routes = m1[c].routes
      BY <1>8, <1>10, <3>1
    <3> QED BY <1>8, <3>2 DEF Copies
  <2> QED BY <1>8, <1>10, <1>11, <2>1, <2>2, <2>3, <2>4 DEF Tree
<1>13. /\ Len(mm) \in Nat /\ Len(m1) >= Len(mm) /\ C \subseteq 1..Len(mm)
       /\ \A a \in 1..Len(mm) : /\ more[a] = name[a] /\ m1[a].methods = mm[a].methods
                                /\ a \in C => m1[a].routes = mm[a].routes
       /\ \A a \in 1..Len(m1) : a \notin 1..Len(mm) =>
             \A k \in Methods : m1[a].methods[k] = None
  BY <1>1, <1>6 DEF Reached, Kept, Tree
<1>14. /\ M \in Seq(Entries) /\ Len(M) = n + 1 /\ M[n + 1] = e
       /\ \A i \in 1..n : M[i] = L[i]
       /\ \A k, q : Calls(M, n + 1, k, q) =
             IF e.method = k /\ Segments(e.url) = q
             THEN Calls(L, n, k, q) \cup {n + 1} ELSE Calls(L, n, k, q)
  <2>1. e \in Entries /\ M = Append(L, e)
    BY <1>0, <1>9
  <2>2. MoreCalls(L, e, M)
    BY <2>1, CallsMore
  <2> QED BY <2>2 DEF MoreCalls, n
<1>15. e.method = m /\ Segments(e.url) = p
  BY DEF e
<1> HIDE DEF p
(* What the new Routes hold before the call is entered.                     *)
<1>16. ASSUME NEW a \in Nodes(m1, C), NEW k \in Methods
       PROVE  m1[a].methods[k] = Latest(Calls(L, n, k, more[a]))
  <2>1. CASE a \in 1..Len(mm)
    <3>1. a \in Nodes(mm, C)
      BY <2>1 DEF Nodes
    <3>2. mm[a].methods[k] = Latest(Calls(L, n, k, name[a]))
      BY <1>1, <3>1 DEF Filled, n
    <3> QED BY <1>13, <2>1, <3>2
  <2>2. CASE a \notin 1..Len(mm)
    <3>1. ASSUME NEW i \in Calls(L, n, k, more[a]) PROVE FALSE
      <4>1. i \in 1..n /\ Segments(L[i].url) = more[a]
        BY DEF Calls
      <4>2. PICK b \in Nodes(mm, C) : name[b] = Segments(L[i].url)
        BY <1>1, <4>1 DEF Filled, n
      <4>3. b \in 1..Len(mm) /\ b \notin C
        BY DEF Nodes
      <4>4. b \in 1..Len(m1)
        BY <1>8, <1>13, <4>3
      <4>5. b \in Nodes(m1, C) /\ more[b] = more[a]
        BY <1>13, <4>1, <4>2, <4>3, <4>4 DEF Nodes
      <4>6. a = b
        BY <1>8, <4>5 DEF Unique
      <4> QED BY <2>2, <4>3, <4>6
    <3>2. Latest(Calls(L, n, k, more[a])) = None
      BY <3>1 DEF Latest
    <3>3. a \in 1..Len(m1)
      BY <1>11
    <3> QED BY <1>13, <2>2, <3>2, <3>3
  <2> QED BY <2>1, <2>2
<1>17. ASSUME NEW a \in Nodes(mn, C), NEW k \in Methods
       PROVE  mn[a].methods[k] = Latest(Calls(M, n + 1, k, more[a]))
  <2>1. a \in Nodes(m1, C) /\ a \in 1..Len(m1)
    BY <1>11
  <2>2. m1[a].methods[k] = Latest(Calls(L, n, k, more[a]))
    BY <1>16, <2>1
  <2>3. CASE a = to /\ k = m
    <3>1. more[a] = p
      BY <1>6, <2>3 DEF Reached
    <3>2. Calls(M, n + 1, k, more[a]) = Calls(L, n, k, more[a]) \cup {n + 1}
      <4>1. Calls(M, n + 1, k, more[a]) =
               IF e.method = k /\ Segments(e.url) = more[a]
               THEN Calls(L, n, k, more[a]) \cup {n + 1} ELSE Calls(L, n, k, more[a])
        BY <1>14
      <4>2. e.method = k /\ Segments(e.url) = more[a]
        BY <1>15, <2>3, <3>1
      <4> QED BY ONLY <4>1, <4>2
    <3>3. Latest(Calls(L, n, k, more[a]) \cup {n + 1}) = n + 1
      BY <1>9, CallsBound, LatestIs
    <3>4. m1[to].methods \in [Methods -> Nat]
      BY <1>8, Cell
    <3>5. mn[a].methods[k] = n + 1
      BY <1>10, <2>3, <3>4
    <3> QED BY <3>2, <3>3, <3>5
  <2>4. CASE a # to \/ k # m
    <3>1. k # m \/ more[a] # p
      BY <1>6, <1>8, <2>1, <2>4 DEF Unique, Reached
    <3>2. Calls(M, n + 1, k, more[a]) = Calls(L, n, k, more[a])
      <4>1. Calls(M, n + 1, k, more[a]) =
               IF e.method = k /\ Segments(e.url) = more[a]
               THEN Calls(L, n, k, more[a]) \cup {n + 1} ELSE Calls(L, n, k, more[a])
        BY <1>14
      <4>2. ~(e.method = k /\ Segments(e.url) = more[a])
        BY <1>15, <3>1
      <4> QED BY ONLY <4>1, <4>2
    <3>3. mn[a].methods[k] = m1[a].methods[k]
      <4>1. m1[to].methods \in [Methods -> Nat]
        BY <1>8, Cell
      <4> QED BY <1>10, <2>1, <2>4, <4>1
    <3> QED BY <2>2, <3>2, <3>3
  <2> QED BY <2>3, <2>4
<1>18. ASSUME NEW i \in 1..n + 1
       PROVE  \E a \in Nodes(mn, C) : more[a] = Segments(M[i].url)
  <2>1. CASE i = n + 1
    BY <1>6, <1>11, <1>14, <1>15, <2>1 DEF Reached
  <2>2. CASE i # n + 1
    <3>1. i \in 1..n
      BY <1>9, <2>2
    <3>2. PICK b \in Nodes(mm, C) : name[b] = Segments(L[i].url)
      BY <1>1, <3>1 DEF Filled, n
    <3>3. b \in 1..Len(mm) /\ b \notin C
      BY DEF Nodes
    <3>4. b \in 1..Len(m1)
      BY <1>8, <1>13, <3>3
    <3>5. b \in Nodes(mn, C) /\ more[b] = Segments(M[i].url)
      BY <1>11, <1>13, <1>14, <3>1, <3>2, <3>3, <3>4 DEF Nodes
    <3> QED BY <3>5
  <2> QED BY <2>1, <2>2
<1>19. Built(mn, R, C, M)
  <2>1. Filled(mn, C, more, M)
    BY <1>14, <1>17, <1>18 DEF Filled
  <2> QED BY <1>12, <2>1 DEF Built
<1>20. DOMAIN mn[R].routes = IF p = <<>> THEN DOMAIN mm[R].routes
                             ELSE DOMAIN mm[R].routes \cup {p[1]}
  <2>1. R \in 1..Len(m1)
    BY <1>8, <1>11
  <2>2. mn[R].routes = m1[R].routes
    BY <1>10, <2>1
  <2> QED BY <1>6, <2>2 DEF Reached
<1>21. ASSUME NEW c \in C
       PROVE  mn[c].methods = mm[c].methods /\ mn[c].routes = mm[c].routes
  <2>1. c \in 1..Len(m1) /\ c # to /\ c \in 1..Len(mm)
    BY <1>8, <1>13
  <2>2. mn[c] = m1[c]
    BY <1>10, <2>1
  <2> QED BY <1>13, <2>1, <2>2
<1> QED BY <1>19, <1>20, <1>21 DEF p, Registering

(* A copy of the root.                                                      *)
LEMMA Copied ==
    ASSUME NEW mm, NEW R, NEW C, NEW L, Built(mm, R, C, L)
    PROVE  LET mn == Append(mm, mm[R])
               new == Len(mm) + 1 IN
           /\ Built(mn, R, C \cup {new}, L)
           /\ mn[new] = mm[R] /\ \A a \in 1..Len(mm) : mn[a] = mm[a]
           /\ R \in 1..Len(mm) /\ C \subseteq 1..Len(mm) /\ Len(mm) \in Nat
<1> DEFINE n == Len(mm)
           new == n + 1
           mn == Append(mm, mm[R])
           D == C \cup {new}
           more(name) == [a \in 1..new |-> IF a = new THEN <<>> ELSE name[a]]
<1>1. PICK name : Tree(mm, R, C, name) /\ Filled(mm, C, name, L)
  BY DEF Built
<1>2. /\ mm \in Seq(Cells) /\ n \in Nat /\ C \subseteq 1..n /\ R \in Nodes(mm, C)
      /\ R \in 1..n /\ \A a \in 1..n : name[a] \in Paths
      /\ name[R] = <<>> /\ \A c \in C : name[c] = <<>>
      /\ Edges(mm, C, name) /\ Unique(mm, C, name)
      /\ Parents(mm, R, C) /\ Copies(mm, R, C)
  BY <1>1 DEF Tree, Nodes
<1> DEFINE nm == more(name)
<1>3. /\ new \notin 1..n /\ \A a \in 1..new : a = new \/ a \in 1..n
      /\ new \in 1..new /\ \A a \in 1..n : a \in 1..new
  BY <1>2
<1>4. nm[new] = <<>> /\ \A a \in 1..n : nm[a] = name[a]
  BY <1>3
<1>5. /\ mn \in Seq(Cells) /\ Len(mn) = new /\ mn[new] = mm[R]
      /\ \A a \in 1..n : mn[a] = mm[a]
  BY <1>2, AppendProperties
<1> HIDE DEF mn, new, nm
<1>6. Nodes(mn, D) = Nodes(mm, C) /\ Nodes(mm, C) \subseteq 1..n
  BY <1>2, <1>3, <1>5 DEF Nodes
<1>7. Edges(mn, D, nm)
  <2> SUFFICES ASSUME NEW a \in 1..new, NEW k \in DOMAIN mn[a].routes
               PROVE  /\ mn[a].routes[k] \in Nodes(mm, C)
                      /\ nm[mn[a].routes[k]] = Below(nm[a], k)
    BY <1>5, <1>6 DEF Edges
  <2>1. PICK b \in 1..n : mn[a] = mm[b] /\ nm[a] = name[b]
    <3>1. CASE a = new
      BY <1>2, <1>4, <1>5, <3>1
    <3>2. CASE a \in 1..n
      BY <1>4, <1>5, <3>2
    <3> QED BY <1>3, <3>1, <3>2
  <2>2. mm[b].routes[k] \in Nodes(mm, C) /\ name[mm[b].routes[k]] = Below(name[b], k)
    BY <1>2, <2>1 DEF Edges
  <2>3. mm[b].routes[k] \in 1..n
    BY <1>6, <2>2
  <2> QED BY <1>4, <2>1, <2>2, <2>3
<1>8. Unique(mn, D, nm)
  BY <1>2, <1>4, <1>6 DEF Unique
<1>9. Parents(mn, R, D)
  <2>1. \A b \in Nodes(mm, C) : mn[b] = mm[b]
    BY <1>5, <1>6
  <2> QED BY <1>2, <1>6, <2>1 DEF Parents
<1>10. Copies(mn, R, D)
  <2>1. mn[R] = mm[R] /\ \A c \in C : mn[c] = mm[c]
    BY <1>2, <1>5
  <2> QED BY <1>2, <1>5, <2>1 DEF Copies
<1>11. Tree(mn, R, D, nm)
  <2>1. D \subseteq 1..Len(mn) /\ R \in Nodes(mn, D)
    BY <1>2, <1>3, <1>5, <1>6
  <2>2. \A a \in 1..Len(mn) : nm[a] \in Paths
    BY <1>2, <1>3, <1>4, <1>5, BelowFacts
  <2>3. nm[R] = <<>> /\ \A c \in D : nm[c] = <<>>
    BY <1>2, <1>4
  <2> QED BY <1>5, <1>7, <1>8, <1>9, <1>10, <2>1, <2>2, <2>3 DEF Tree
<1>12. Filled(mn, D, nm, L)
  <2>1. \A b \in Nodes(mm, C) : mn[b] = mm[b] /\ nm[b] = name[b]
    BY <1>4, <1>5, <1>6
  <2> QED BY <1>1, <1>6, <2>1 DEF Filled
<1>13. Built(mn, R, D, L)
  BY <1>11, <1>12 DEF Built
<1> QED BY <1>2, <1>5, <1>13 DEF mn, new

-----------------------------------------------------------------------------
(* The inductive invariant.                                                 *)
RouterKind == [root : Nat, notFound : Handlers, error : Handlers]

CopyRoots == {copy[s].root : s \in {t \in Servers : copy[t] # NoRouter}}

Shape ==
    /\ log \in Seq(Entries)
    /\ original \in RouterKind /\ copy \in [Servers -> RouterKind]
    /\ given \in [Servers -> Nat] /\ \A s \in Servers : given[s] \in 0..Len(log)

RootIs == DOMAIN mem[original.root].routes = Firsts(log, Len(log))

CopiesAre ==
    \A s \in Servers : copy[s] # NoRouter =>
        CopyOf(mem[copy[s].root], log, given[s])

RouterInv ==
    /\ Shape /\ RootIs /\ CopiesAre
    /\ Built(mem, original.root, CopyRoots, log)

LEMMA RouterInit == Init => RouterInv
<1> SUFFICES ASSUME Init PROVE RouterInv
  OBVIOUS
<1>1. mem = <<NewRoute>> /\ original.root = 1 /\ log = <<>> /\ Len(log) = 0
      /\ original = [root |-> 1, notFound |-> "default", error |-> "default"]
      /\ \A s \in Servers : copy[s] = NoRouter
  BY DEF Init, NoRouter
<1>2. Shape
  <2>1. original \in RouterKind /\ NoRouter \in RouterKind
    BY <1>1 DEF RouterKind, NoRouter, Handlers, None
  <2> QED BY <1>1, <2>1 DEF Shape, Init
<1>3. CopyRoots = {} /\ CopiesAre
  BY <1>1 DEF CopyRoots, CopiesAre
<1>4. \A n \in {0} : Firsts(log, n) = {} /\ \A m, p : Calls(log, n, m, p) = {}
  BY DEF Firsts, Calls
<1>5. mem \in Seq(Cells) /\ Len(mem) = 1 /\ mem[1] = NewRoute
  BY <1>1, NewCell
<1>6. RootIs
  BY <1>1, <1>4, <1>5, NewCell DEF RootIs
<1> DEFINE name == [a \in {1} |-> <<>>]
<1>7. Nodes(mem, {}) = {1} /\ 1..Len(mem) = {1}
  BY <1>5 DEF Nodes
<1>8. name[1] = <<>>
  OBVIOUS
<1> HIDE DEF name
<1>9. Tree(mem, 1, {}, name)
  <2>1. Edges(mem, {}, name)
    BY <1>5, <1>7, NewCell DEF Edges
  <2>2. Unique(mem, {}, name)
    BY <1>7 DEF Unique
  <2>3. Parents(mem, 1, {}) /\ Copies(mem, 1, {})
    BY <1>7 DEF Parents, Copies
  <2> QED BY <1>5, <1>7, <1>8, <2>1, <2>2, <2>3, BelowFacts DEF Tree
<1>10. Filled(mem, {}, name, log)
  <2>1. \A m \in Methods : mem[1].methods[m] = None
    BY <1>5, NewCell
  <2>2. \A m, p : Latest(Calls(log, Len(log), m, p)) = None
    BY <1>1, <1>4 DEF Latest
  <2>3. 1..Len(log) = {}
    BY <1>1
  <2> QED BY <1>7, <2>1, <2>2, <2>3 DEF Filled
<1>11. Built(mem, original.root, CopyRoots, log)
  BY <1>1, <1>3, <1>9, <1>10 DEF Built
<1> QED BY <1>2, <1>3, <1>6, <1>11 DEF RouterInv

LEMMA OnKeeps ==
    ASSUME RouterInv, NEW m \in Methods, NEW u \in Urls, on(m, u)
    PROVE  RouterInv'
<1> DEFINE e == [method |-> m, url |-> u]
           n == Len(log)
           p == Segments(u)
           R == original.root
<1>1. /\ log \in Seq(Entries) /\ e \in Entries /\ n \in Nat
      /\ log' = Append(log, e) /\ mem' = Registered(mem, R, m, u, n)
      /\ original' = original /\ copy' = copy /\ given' = given
  BY DEF RouterInv, Shape, on, Entries, Registered, EnterAll
<1>2. CopyRoots' = CopyRoots
  BY <1>1 DEF CopyRoots
<1>3. /\ log' \in Seq(Entries) /\ Len(log') = n + 1
      /\ \A k \in 0..n : /\ \A j, q : Calls(log', k, j, q) = Calls(log, k, j, q)
                         /\ Firsts(log', k) = Firsts(log, k)
      /\ Firsts(log', n + 1) = IF p = <<>> THEN Firsts(log, n)
                               ELSE Firsts(log, n) \cup {p[1]}
  <2>1. e.url = u
    OBVIOUS
  <2> HIDE DEF e
  <2>2. PICK M : M = log'
    OBVIOUS
  <2>3. log \in Seq(Entries) /\ e \in Entries /\ M = Append(log, e)
    BY <1>1, <2>2
  <2>4. /\ M \in Seq(Entries) /\ Len(M) = n + 1
        /\ \A k \in 0..n : /\ \A j, q : Calls(M, k, j, q) = Calls(log, k, j, q)
                           /\ Firsts(M, k) = Firsts(log, k)
        /\ Firsts(M, n + 1) = IF Segments(e.url) = <<>> THEN Firsts(log, n)
                              ELSE Firsts(log, n) \cup {Segments(e.url)[1]}
    <3>1. MoreCalls(log, e, M)
      BY <2>3, CallsMore
    <3> QED BY <3>1 DEF MoreCalls
  <2> QED BY <2>1, <2>2, <2>4
<1>4. /\ Built(mem', R, CopyRoots, log')
      /\ DOMAIN mem'[R].routes = IF p = <<>> THEN DOMAIN mem[R].routes
                                 ELSE DOMAIN mem[R].routes \cup {p[1]}
      /\ \A c \in CopyRoots : /\ mem'[c].methods = mem[c].methods
                              /\ mem'[c].routes = mem[c].routes
  <2>1. PICK mn : mn = mem'
    OBVIOUS
  <2>2. PICK M : M = log'
    OBVIOUS
  <2> DEFINE C == CopyRoots
  <2>3. /\ log \in Seq(Entries) /\ Built(mem, R, C, log)
        /\ mn = Registered(mem, R, m, u, Len(log))
        /\ M = Append(log, [method |-> m, url |-> u])
    BY <1>1, <2>1, <2>2 DEF RouterInv
  <2> HIDE DEF C, R
  <2>4. /\ Built(mn, R, C, M)
        /\ DOMAIN mn[R].routes = IF p = <<>> THEN DOMAIN mem[R].routes
                                 ELSE DOMAIN mem[R].routes \cup {p[1]}
        /\ \A c \in C : mn[c].methods = mem[c].methods /\ mn[c].routes = mem[c].routes
    <3>1. Registering(mem, R, C, u, mn, M)
      BY <2>3, Registers
    <3> QED BY <3>1 DEF Registering
  <2> QED BY <2>1, <2>2, <2>4 DEF C, R
<1>5. Shape'
  <2>1. \A s \in Servers : given[s] \in 0..n + 1
    <3>1. \A s \in Servers : given[s] \in 0..n
      BY DEF RouterInv, Shape
    <3>2. \A k \in 0..n : k \in 0..n + 1
      BY <1>1
    <3> QED BY <3>1, <3>2
  <2> QED BY <1>1, <1>3, <2>1 DEF RouterInv, Shape
<1>6. RootIs'
  BY <1>1, <1>3, <1>4 DEF RouterInv, RootIs
<1>7. CopiesAre'
  <2> SUFFICES ASSUME NEW s \in Servers, copy[s] # NoRouter
               PROVE  CopyOf(mem'[copy[s].root], log', given[s])
    BY <1>1 DEF CopiesAre
  <2> DEFINE c == copy[s].root
             k == given[s]
  <2>1. c \in CopyRoots /\ k \in 0..n /\ CopyOf(mem[c], log, k)
    BY DEF RouterInv, CopiesAre, CopyRoots, Shape
  <2> HIDE DEF c, k
  <2>2. mem'[c].methods = mem[c].methods /\ mem'[c].routes = mem[c].routes
    BY <1>4, <2>1
  <2>3. (\A j, q : Calls(log', k, j, q) = Calls(log, k, j, q))
        /\ Firsts(log', k) = Firsts(log, k)
    BY <1>3, <2>1
  <2>4. CopyOf(mem'[c], log', k)
    BY <2>1, <2>2, <2>3 DEF CopyOf
  <2> QED BY <2>4 DEF c, k
<1> QED BY <1>1, <1>2, <1>4, <1>5, <1>6, <1>7 DEF RouterInv

LEMMA CopyKeeps ==
    ASSUME RouterInv, NEW s \in Servers, onHttpRequest(s)
    PROVE  RouterInv'
<1> DEFINE R == original.root
           new == Len(mem) + 1
           router == [original EXCEPT !.root = new]
<1>1. /\ mem' = Append(mem, mem[R]) /\ copy[s] = NoRouter
      /\ copy' = [copy EXCEPT ![s] = router]
      /\ given' = [given EXCEPT ![s] = Len(log)]
      /\ original' = original /\ log' = log
  BY DEF onHttpRequest
<1>2. /\ Built(mem', R, CopyRoots \cup {new}, log)
      /\ mem'[new] = mem[R] /\ \A a \in 1..Len(mem) : mem'[a] = mem[a]
      /\ R \in 1..Len(mem) /\ CopyRoots \subseteq 1..Len(mem) /\ Len(mem) \in Nat
  BY <1>1, Copied DEF RouterInv
<1>3. /\ router \in RouterKind /\ router.root = new /\ new \in Nat /\ new # None
      /\ copy \in [Servers -> RouterKind]
      /\ given \in [Servers -> Nat] /\ log \in Seq(Entries) /\ Len(log) \in Nat
  <2>1. new \in Nat /\ new # None
    BY <1>2 DEF None
  <2>2. original \in RouterKind
    BY DEF RouterInv, Shape
  <2> HIDE DEF new
  <2>3. router \in RouterKind /\ router.root = new
    BY <2>1, <2>2 DEF RouterKind
  <2>4. /\ copy \in [Servers -> RouterKind] /\ given \in [Servers -> Nat]
        /\ log \in Seq(Entries)
    BY DEF RouterInv, Shape
  <2> QED BY <2>1, <2>3, <2>4, EntryFacts
<1>4. router # NoRouter
  <2> HIDE DEF router
  <2> QED BY <1>3 DEF NoRouter
<1> HIDE DEF router, new
<1>5. /\ copy'[s] = router /\ \A t \in Servers : t # s => copy'[t] = copy[t]
      /\ given'[s] = Len(log) /\ \A t \in Servers : t # s => given'[t] = given[t]
  BY <1>1, <1>3
<1>6. CopyRoots' = CopyRoots \cup {new}
  <2>1. ASSUME NEW c \in CopyRoots' PROVE c \in CopyRoots \cup {new}
    <3>1. PICK t \in Servers : copy'[t] # NoRouter /\ c = copy'[t].root
      BY DEF CopyRoots
    <3> QED BY <1>3, <1>5, <3>1 DEF CopyRoots
  <2>2. ASSUME NEW c \in CopyRoots PROVE c \in CopyRoots'
    <3>1. PICK t \in Servers : copy[t] # NoRouter /\ c = copy[t].root
      BY DEF CopyRoots
    <3>2. copy'[t] = copy[t]
      BY <1>1, <1>5, <3>1
    <3> QED BY <3>1, <3>2 DEF CopyRoots
  <2>3. new \in CopyRoots'
    BY <1>3, <1>4, <1>5 DEF CopyRoots
  <2> QED BY <2>1, <2>2, <2>3
<1>7. Shape'
  <2>1. copy' \in [Servers -> RouterKind] /\ given' \in [Servers -> Nat]
    BY <1>1, <1>3
  <2>2. \A t \in Servers : given'[t] \in 0..Len(log)
    BY <1>3, <1>5 DEF RouterInv, Shape
  <2> QED BY <1>1, <2>1, <2>2 DEF RouterInv, Shape
<1>8. RootIs'
  BY <1>1, <1>2 DEF RouterInv, RootIs
<1>9. CopiesAre'
  <2> SUFFICES ASSUME NEW t \in Servers, copy'[t] # NoRouter
               PROVE  CopyOf(mem'[copy'[t].root], log, given'[t])
    BY <1>1 DEF CopiesAre
  <2>1. CASE t = s
    <3>1. mem'[copy'[t].root] = mem[R] /\ given'[t] = Len(log)
      BY <1>2, <1>3, <1>5, <2>1
    <3>2. \A m \in Methods : mem[R].methods[m] = Latest(Calls(log, Len(log), m, <<>>))
      <4>1. PICK name : Tree(mem, R, CopyRoots, name) /\ Filled(mem, CopyRoots, name, log)
        BY DEF RouterInv, Built
      <4> QED BY <4>1 DEF Tree, Filled
    <3> QED BY <3>1, <3>2 DEF CopyOf, RouterInv, RootIs
  <2>2. CASE t # s
    <3>1. copy'[t] = copy[t] /\ given'[t] = given[t] /\ copy[t] # NoRouter
      BY <1>5, <2>2
    <3>2. copy[t].root \in CopyRoots
      BY <3>1 DEF CopyRoots
    <3>3. mem'[copy[t].root] = mem[copy[t].root]
      BY <1>2, <3>2
    <3> QED BY <3>1, <3>3 DEF RouterInv, CopiesAre
  <2> QED BY <2>1, <2>2
<1> QED BY <1>1, <1>2, <1>6, <1>7, <1>8, <1>9 DEF RouterInv

LEMMA HandlersKeep ==
    ASSUME RouterInv, notFound \/ error
    PROVE  RouterInv'
<1>1. /\ original'.root = original.root /\ original' \in RouterKind
      /\ mem' = mem /\ copy' = copy /\ log' = log /\ given' = given
  BY DEF RouterInv, Shape, RouterKind, Handlers, notFound, error
<1>2. CopyRoots' = CopyRoots
  BY <1>1 DEF CopyRoots
<1> QED BY <1>1, <1>2 DEF RouterInv, Shape, RootIs, CopiesAre

LEMMA RouterKeeps == RouterInv /\ [Next]_vars => RouterInv'
<1> SUFFICES ASSUME RouterInv, [Next]_vars PROVE RouterInv'
  OBVIOUS
<1>1. ASSUME NEW m \in Methods, NEW u \in Urls, on(m, u) PROVE RouterInv'
  BY <1>1, OnKeeps
<1>2. CASE notFound \/ error
  BY <1>2, HandlersKeep
<1>3. ASSUME NEW s \in Servers, onHttpRequest(s) PROVE RouterInv'
  BY <1>3, CopyKeeps
<1>4. CASE UNCHANGED <<mem, original, copy, log, given>>
  <2>1. CopyRoots' = CopyRoots
    BY <1>4 DEF CopyRoots
  <2> QED BY <1>4, <2>1 DEF RouterInv, Shape, RootIs, CopiesAre
<1>5. ASSUME NEW s \in Servers, NEW m, NEW u, Request(s, m, u) PROVE RouterInv'
  BY <1>4, <1>5 DEF Request
<1>6. CASE UNCHANGED vars
  BY <1>4, <1>6 DEF vars
<1> QED BY <1>1, <1>2, <1>3, <1>5, <1>6 DEF Next

(* The tree finds, in the program's Router and in every copy, the callback  *)
(* last registered for a method and a URL and no other, whatever was        *)
(* registered under other URLs and whenever the copies were made.           *)
THEOREM RouterRoutesAsRegistered == Spec => []RoutesAsRegistered
<1>1. ASSUME RouterInv PROVE RoutesAsRegistered
  <2> SUFFICES ASSUME NEW m \in Methods \cup {Unknown}, NEW u \in Urls
               PROVE  /\ Lookup(original, m, u) = Expected(Len(log), m, u)
                      /\ \A s \in Servers : copy[s] # NoRouter =>
                            Lookup(copy[s], m, u) = Expected(given[s], m, u)
    BY DEF RoutesAsRegistered
  <2>1. /\ log \in Seq(Entries) /\ Len(log) \in 0..Len(log)
        /\ \A s \in Servers : given[s] \in 0..Len(log)
    <3>1. log \in Seq(Entries) /\ \A s \in Servers : given[s] \in 0..Len(log)
      BY <1>1 DEF RouterInv, Shape
    <3> QED BY <3>1, EntryFacts
  <2>2. CASE m = Unknown
    BY <2>1, <2>2, UnknownHasNone
  <2>3. CASE m \in Methods
    <3>1. PICK name : /\ Tree(mem, original.root, CopyRoots, name)
                      /\ Filled(mem, CopyRoots, name, log)
      BY <1>1 DEF RouterInv, Built
    <3>2. Lookup(original, m, u) = Expected(Len(log), m, u)
      BY <2>1, <2>3, <3>1, OriginalFinds
    <3>3. ASSUME NEW s \in Servers, copy[s] # NoRouter
          PROVE  Lookup(copy[s], m, u) = Expected(given[s], m, u)
      <4>1. copy[s].root \in CopyRoots /\ CopyOf(mem[copy[s].root], log, given[s])
        BY <1>1, <3>3 DEF CopyRoots, RouterInv, CopiesAre
      <4> QED BY <2>1, <2>3, <3>1, <4>1, CopyFinds
    <3> QED BY <3>2, <3>3
  <2> QED BY <2>2, <2>3
<1> QED BY <1>1, RouterInit, RouterKeeps, PTL DEF Spec
-----------------------------------------------------------------------------
(* The default pages.                                                       *)

Statuses == {"OK", "set", "NotFound", "InternalServerError"}

(* A Response that has a default page has nothing else.                     *)
Clean(res) ==
    /\ res.status \in Statuses
    /\ \A i \in DOMAIN res.body :
          /\ res.body[i] = "500" =>
                res = [status |-> "InternalServerError", body |-> <<"500">>]
          /\ res.body[i] = "404" =>
                res = [status |-> "NotFound", body |-> <<"404">>]

(* One that no default callback has written to.                             *)
Users == {"callback", "userNotFound", "userError"}

Own(res) ==
    /\ res = [status |-> res.status, body |-> res.body]
    /\ res.status \in Statuses /\ res.body \in Seq(Users)

LEMMA OwnIsClean ==
    ASSUME NEW res, Own(res)
    PROVE  Clean(res)
<1>1. ASSUME NEW i \in DOMAIN res.body
      PROVE  res.body[i] \in Users
  BY <1>1 DEF Own
<1>2. res.status \in Statuses
  BY DEF Own
<1> QED BY <1>1, <1>2 DEF Clean, Users

(* The program's own code writes nothing of the defaults.                   *)
LEMMA UserCodeOwn ==
    ASSUME NEW res, Own(res), NEW author \in Users, NEW r \in UserCode(author, res)
    PROVE  Own(r.res)
<1>1. Own([status |-> "set", body |-> Append(res.body, author)])
  BY DEF Own, Statuses
<1>2. r.res \in {res, [status |-> "set", body |-> Append(res.body, author)]}
  BY DEF UserCode
<1> QED BY <1>1, <1>2

LEMMA StatusOwn ==
    ASSUME NEW res, Own(res), NEW status \in Statuses
    PROVE  /\ Own([res EXCEPT !.status = status])
           /\ [res EXCEPT !.status = status].status = status
           /\ [res EXCEPT !.status = status].body = res.body
BY DEF Own

LEMMA NewOwn == Own(NewResponse)
BY DEF Own, NewResponse, Statuses

(* What dispatching gives is the program's own, or the page for 404 and a   *)
(* normal return.                                                           *)
LEMMA DispatchResults ==
    ASSUME NEW router, NEW method, NEW url, NEW r \in Dispatch(router, method, url)
    PROVE  \/ Own(r.res)
           \/ r = Returned([status |-> "NotFound", body |-> <<"404">>])
<1> DEFINE missing == [NewResponse EXCEPT !.status = "NotFound"]
<1>1. Own(missing) /\ missing = [status |-> "NotFound", body |-> <<>>]
  <2>1. "NotFound" \in Statuses
    BY DEF Statuses
  <2>2. Own(missing)
    BY <2>1, NewOwn, StatusOwn
  <2>3. missing = [status |-> "NotFound", body |-> <<>>]
    BY DEF NewResponse
  <2> QED BY <2>2, <2>3
<1>2. CASE r \in UserCode("callback", NewResponse)
  BY <1>2, NewOwn, UserCodeOwn DEF Users
<1>3. CASE r \in NotFound(router, missing)
  <2>1. CASE router.notFound = "user"
    <3>1. r \in UserCode("userNotFound", missing)
      BY <1>3, <2>1 DEF NotFound
    <3> HIDE DEF missing
    <3> QED BY <1>1, <3>1, UserCodeOwn DEF Users
  <2>2. CASE router.notFound # "user"
    <3>1. r = Returned([missing EXCEPT !.body = Append(@, "404")])
      BY <1>3, <2>2 DEF NotFound
    <3>2. [missing EXCEPT !.body = Append(@, "404")]
             = [status |-> "NotFound", body |-> Append(<<>>, "404")]
      <4> HIDE DEF missing
      <4> QED BY <1>1
    <3>3. Append(<<>>, "404") = <<"404">>
      OBVIOUS
    <3> QED BY <3>1, <3>2, <3>3
  <2> QED BY <2>1, <2>2
<1> QED BY <1>2, <1>3 DEF Dispatch

(* The catch clause finds a Response that is the program's own, so that what*)
(* its callback leaves is clean.                                            *)
LEMMA FailedClean ==
    ASSUME NEW router, NEW res, Own(res), res.status = "InternalServerError",
           NEW r \in Failed(router, res)
    PROVE  Clean(r.res)
<1>1. CASE router.error = "user"
  BY <1>1, UserCodeOwn, OwnIsClean DEF Failed, Users
<1>2. CASE router.error # "user"
  <2>1. r = Returned([res EXCEPT !.body = <<"500">>])
    BY <1>2 DEF Failed
  <2>2. [res EXCEPT !.body = <<"500">>]
           = [status |-> "InternalServerError", body |-> <<"500">>]
    BY DEF Own
  <2> QED BY <2>1, <2>2 DEF Clean, Returned, Statuses
<1> QED BY <1>1, <1>2

LEMMA CallClean ==
    ASSUME NEW router, NEW method, NEW url, NEW r \in Call(router, method, url)
    PROVE  Clean(r.res)
<1>1. PICK d \in Dispatch(router, method, url) :
         r \in IF d.exit = "exception"
               THEN Failed(router, [d.res EXCEPT !.status = "InternalServerError"])
               ELSE {d}
  BY DEF Call
<1>2. CASE d = Returned([status |-> "NotFound", body |-> <<"404">>])
  <2>1. r = d
    BY <1>1, <1>2 DEF Returned
  <2> QED BY <1>2, <2>1 DEF Returned, Clean, Statuses
<1>3. CASE Own(d.res)
  <2>1. CASE d.exit = "exception"
    <3> DEFINE res == [d.res EXCEPT !.status = "InternalServerError"]
    <3>1. Own(res) /\ res.status = "InternalServerError"
      BY <1>3, StatusOwn DEF Statuses
    <3>2. r \in Failed(router, res)
      BY <1>1, <2>1
    <3> HIDE DEF res
    <3> QED BY <3>1, <3>2, FailedClean
  <2>2. CASE d.exit # "exception"
    BY <1>1, <1>3, <2>2, OwnIsClean
  <2> QED BY <2>1, <2>2
<1> QED BY <1>2, <1>3, DispatchResults

(* Every answer is a clean one.                                             *)
Answers ==
    /\ answer = [s \in Servers |-> answer[s]]
    /\ \A s \in Servers : Clean(answer[s])

LEMMA AnswersInv == Answers /\ [Next]_vars => Answers'
<1> SUFFICES ASSUME Answers, [Next]_vars PROVE Answers'
  OBVIOUS
<1>1. ASSUME NEW s \in Servers, NEW m, NEW u, Request(s, m, u)
      PROVE  Answers'
  <2>1. PICK r \in Call(copy[s], m, u) : answer' = [answer EXCEPT ![s] = r.res]
    BY <1>1 DEF Request
  <2>2. Clean(r.res)
    BY CallClean
  <2> QED BY <2>1, <2>2 DEF Answers
<1>2. CASE UNCHANGED answer
  BY <1>2 DEF Answers
<1>3. \/ UNCHANGED answer
      \/ \E s \in Servers, m \in Methods \cup {Unknown}, u \in Asked : Request(s, m, u)
  BY DEF Next, vars, on, notFound, error, onHttpRequest
<1> QED BY <1>1, <1>2, <1>3

(* Whatever a handler wrote before it threw is gone from the default page,  *)
(* and a Response that has one of the default pages has its status.         *)
THEOREM RouterDefaultPagesClean == Spec => []DefaultPagesClean
<1>1. Init => Answers
  <2>1. Clean(NewResponse)
    BY NewOwn, OwnIsClean
  <2> QED BY <2>1 DEF Init, Answers
<1>2. Answers => DefaultPagesClean
  BY DEF Answers, Clean, DefaultPagesClean
<1> QED BY <1>1, <1>2, AnswersInv, PTL DEF Spec
-----------------------------------------------------------------------------
(* Types.                                                                   *)

Quiet == Answers /\ crash \in BOOLEAN

LEMMA QuietKeeps == Quiet /\ [Next]_vars => Quiet'
<1> SUFFICES ASSUME Quiet, [Next]_vars PROVE Quiet'
  OBVIOUS
<1>1. Answers'
  BY AnswersInv DEF Quiet
<1>2. crash' \in BOOLEAN
  BY DEF Quiet, Next, vars, on, notFound, error, onHttpRequest, Request
<1> QED BY <1>1, <1>2 DEF Quiet

LEMMA HeldIsLogged ==
    ASSUME RouterInv, NEW a \in Address, NEW m \in Methods
    PROVE  mem[a].methods[m] \in 0..Len(log)
<1>1. PICK name : Tree(mem, original.root, CopyRoots, name) /\ Filled(mem, CopyRoots, name, log)
  BY DEF RouterInv, Built
<1>2. Len(log) \in Nat
  BY EntryFacts DEF RouterInv, Shape
<1>3. CASE a \in Nodes(mem, CopyRoots)
  <2>1. mem[a].methods[m] = Latest(Calls(log, Len(log), m, name[a]))
    BY <1>1, <1>3 DEF Filled
  <2> QED BY <1>2, <2>1, CallsBound
<1>4. CASE a \in CopyRoots
  <2>1. PICK s \in Servers : copy[s] # NoRouter /\ a = copy[s].root
    BY <1>4 DEF CopyRoots
  <2> DEFINE n == given[s]
  <2>2. n \in 0..Len(log)
    BY DEF RouterInv, Shape
  <2>3. mem[a].methods[m] = Latest(Calls(log, n, m, <<>>))
    BY <2>1 DEF RouterInv, CopiesAre, CopyOf
  <2> HIDE DEF n
  <2>4. Latest(Calls(log, n, m, <<>>)) \in 0..n
    BY <1>2, <2>2, CallsBound
  <2>5. \A k \in 0..n : k \in 0..Len(log)
    BY <1>2, <2>2
  <2> QED BY <2>3, <2>4, <2>5
<1> QED BY <1>3, <1>4 DEF Nodes, Address

(* Addresses in the tree are those of Routes that exist, a Route holds the  *)
(* callbacks of calls that were made, and statuses are those operator() or  *)
(* the program's own code sets.                                             *)
THEOREM RouterTypeCorrect == Spec => []TypeOK
<1>1. Init => RouterInv /\ Quiet
  <2>1. Init => Quiet
    <3>1. Clean(NewResponse)
      BY NewOwn, OwnIsClean
    <3> QED BY <3>1 DEF Init, Answers, Quiet
  <2> QED BY <2>1, RouterInit
<1>2. ASSUME RouterInv, Quiet PROVE TypeOK
  <2>1. PICK name : Tree(mem, original.root, CopyRoots, name)
    BY <1>2 DEF RouterInv, Built
  <2>2. /\ mem \in Seq(Cells) /\ CopyRoots \subseteq Address
        /\ original.root \in Address /\ Edges(mem, CopyRoots, name)
    BY <2>1 DEF Tree, Address, Nodes
  <2>3. ASSUME NEW a \in Address
        PROVE  /\ mem[a].methods \in [Methods -> 0..Len(log)]
               /\ \A k \in DOMAIN mem[a].routes : mem[a].routes[k] \in Address
    <3>1. mem[a].methods \in [Methods -> Nat]
      BY <2>2, Cell DEF Address
    <3>2. \A m \in Methods : mem[a].methods[m] \in 0..Len(log)
      BY <1>2, HeldIsLogged
    <3>3. mem[a].methods \in [Methods -> 0..Len(log)]
      BY <3>1, <3>2
    <3> QED BY <2>2, <3>3 DEF Edges, Nodes, Address
  <2>4. ASSUME NEW r \in Routers
        PROVE  r.root \in Address /\ r.notFound \in Handlers /\ r.error \in Handlers
    <3>1. original \in RouterKind /\ copy \in [Servers -> RouterKind]
      BY <1>2 DEF RouterInv, Shape
    <3>2. CASE r = original
      BY <2>2, <3>1, <3>2 DEF RouterKind
    <3>3. CASE r # original
      <4>1. PICK s \in Servers : copy[s] # NoRouter /\ r = copy[s]
        BY <3>3 DEF Routers
      <4>2. r.root \in CopyRoots /\ r \in RouterKind
        BY <3>1, <4>1 DEF CopyRoots
      <4> QED BY <2>2, <4>2 DEF RouterKind
    <3> QED BY <3>2, <3>3
  <2>5. \A i \in DOMAIN log : log[i] \in [method : Methods, url : Urls]
    BY <1>2, EntryFacts DEF RouterInv, Shape, Entries
  <2>6. given \in [Servers -> 0..Len(log)]
    BY <1>2 DEF RouterInv, Shape
  <2>7. crash \in BOOLEAN /\ \A s \in Servers : answer[s].status \in Statuses
    BY <1>2 DEF Quiet, Answers, Clean
  <2> QED BY <2>3, <2>4, <2>5, <2>6, <2>7 DEF TypeOK, Statuses
<1> QED BY <1>1, <1>2, RouterKeeps, QuietKeeps, PTL DEF Spec
=============================================================================
