------------------------ MODULE ComponentPushProofs ------------------------
(***************************************************************************)
(* Proofs about ComponentPush, for every finite set of storages, every set *)
(* of URLs and secrets, and every number of failures.                      *)
(***************************************************************************)
EXTENDS ComponentPush, SequenceTheorems, FiniteSetTheorems,
        WellFoundedInduction, NaturalsInduction, TLAPS

----------------------------------------------------------------------------
(* Sizes, the loop of RangeLoop, and sequences                              *)

\* The cluster writes a size that it has written itself the same way again.
LEMMA SizeFacts ==
    /\ Canonical[None] = None
    /\ \A z \in Quantities : z \in Sizes /\ Canonical[z] = z /\ z # None
    /\ \A z \in Sizes \cup {None} : Canonical[z] \in Quantities \cup {None}
<1>1. /\ Canonical \in [Sizes \cup {None} -> Sizes \cup {None}]
      /\ Canonical[None] = None
      /\ \A z \in Sizes : Canonical[Canonical[z]] = Canonical[z]
  BY SizesAssumption
<1>2. \A z \in Quantities : z \in Sizes /\ Canonical[z] = z /\ z # None
  BY NoneAssumption DEF Quantities
<1>3. ASSUME NEW z \in Sizes \cup {None}
      PROVE  Canonical[z] \in Quantities \cup {None}
  BY <1>1 DEF Quantities
<1>. QED  BY <1>1, <1>2, <1>3

\* The principle of the least number, for induction on the turns of the loop.
LEMMA Least ==
    ASSUME NEW S \in SUBSET Nat, S # {}
    PROVE  \E x \in S : \A y \in S : x <= y
<1>. DEFINE R == OpToRel(<, Nat)
<1>1. IsWellFoundedOn(R, Nat)  BY NatLessThanWellFounded
<1>2. \E x \in S : \A y \in S : ~ (<<y, x>> \in R)
  <2>. HIDE DEF R
  <2> QED BY <1>1, WFMin
<1>3. \A x, y \in Nat : <<y, x>> \in R <=> y < x  BY DEF OpToRel
<1>. HIDE DEF R
<1>4. PICK x \in S : \A y \in S : ~ (<<y, x>> \in R)  BY <1>2
<1>5. \A y \in S : x <= y
  <2>1. SUFFICES ASSUME NEW y \in S PROVE x <= y  OBVIOUS
  <2>2. ~(y < x)  BY <1>3, <1>4
  <2>. QED  BY <2>2
<1>. QED  BY <1>5

AreTurns(f, s, drop, n) ==
    f = [i \in 0..n |-> IF i = 0 THEN Entered(s) ELSE Turn(f[i - 1], i, drop)]

\* The turns of the loop are there: the first m of them, for every m.
LEMMA TurnsExist ==
    ASSUME NEW s, NEW drop
    PROVE  \A n \in Nat : \E f : AreTurns(f, s, drop, n)
<1>. DEFINE Are(f, m) == AreTurns(f, s, drop, m)
            Wrong == {m \in Nat : ~ \E f : Are(f, m)}
<1>1. SUFFICES ASSUME Wrong # {} PROVE FALSE  OBVIOUS
<1>2. PICK m \in Wrong : \A k \in Wrong : m <= k
  <2>1. Wrong \in SUBSET Nat  OBVIOUS
  <2>. HIDE DEF Wrong
  <2>. QED  BY <1>1, <2>1, Least
<1>3. m \in Nat /\ \A f : ~Are(f, m)  OBVIOUS
<1>4. CASE m = 0
  <2>. DEFINE f == [i \in 0..0 |-> Entered(s)]
  <2>1. Are(f, 0)  BY DEF AreTurns
  <2>. QED  BY <1>3, <1>4, <2>1
<1>5. CASE m # 0
  <2>1. m - 1 \in Nat /\ m - 1 \notin Wrong
    <3>1. m - 1 \in Nat /\ ~(m <= m - 1)  BY <1>3, <1>5
    <3>. QED  BY <1>2, <3>1
  <2>2. PICK g : Are(g, m - 1)  BY <2>1
  <2>. DEFINE f == [i \in 0..m |-> IF i = m THEN Turn(g[m - 1], m, drop) ELSE g[i]]
  <2>3. \A i \in 0..(m - 1) : g[i] = IF i = 0 THEN Entered(s) ELSE Turn(g[i - 1], i, drop)
    BY <2>2 DEF AreTurns
  <2>4. \A i \in 0..(m - 1) : f[i] = g[i]  BY <1>3
  <2>5. ASSUME NEW i \in 0..m
        PROVE  f[i] = IF i = 0 THEN Entered(s) ELSE Turn(f[i - 1], i, drop)
    <3>1. CASE i = m
      <4>1. f[i] = Turn(g[m - 1], m, drop)  BY <3>1
      <4>2. f[m - 1] = g[m - 1]
        <5>1. m - 1 \in 0..(m - 1)  BY <1>3, <1>5
        <5>. QED  BY <2>4, <5>1
      <4>. HIDE DEF f
      <4>. QED  BY <1>5, <3>1, <4>1, <4>2
    <3>2. CASE i # m
      <4>1. i \in 0..(m - 1)  BY <1>3, <3>2
      <4>2. i # 0 => i - 1 \in 0..(m - 1)  BY <1>3, <4>1
      <4>3. i # 0 => f[i - 1] = g[i - 1]  BY <2>4, <4>2
      <4>4. f[i] = g[i]  BY <2>4, <4>1
      <4>. HIDE DEF f
      <4>. QED  BY <2>3, <4>1, <4>3, <4>4
    <3>. QED  BY <3>1, <3>2
  <2>6. f = [i \in 0..m |-> f[i]]  OBVIOUS
  <2>. HIDE DEF f
  <2>7. Are(f, m)  BY <2>5, <2>6 DEF AreTurns
  <2>. QED  BY <1>3, <2>7
<1>. QED  BY <1>4, <1>5

LEMMA TurnsFacts ==
    ASSUME NEW s, NEW drop, Len(s) \in Nat
    PROVE  /\ Turns(s, drop)[0] = Entered(s)
           /\ \A i \in 1..Len(s) : Turns(s, drop)[i] = Turn(Turns(s, drop)[i - 1], i, drop)
<1>1. \E f : AreTurns(f, s, drop, Len(s))  BY TurnsExist
<1>2. Turns(s, drop) = CHOOSE f : AreTurns(f, s, drop, Len(s))  BY DEF Turns, AreTurns
<1>3. AreTurns(Turns(s, drop), s, drop, Len(s))  BY <1>1, <1>2
<1>. QED  BY <1>3 DEF AreTurns

\* What a turn leaves: an array over s, of which the visible prefix is a
\* subsequence of s that has lost only elements to drop.
Embeddings(b, s) == {m \in [1..b.len -> 1..Len(s)] :
                   /\ \A j, k \in 1..b.len : j < k => m[j] < m[k]
                   /\ \A k \in 1..b.len : b.array[k] = s[m[k]]}
Thinned(b, s, drop) ==
  /\ DOMAIN b = {"array", "len", "panic"}
  /\ DOMAIN b.array = 1..Len(s)
  /\ b.len \in 0..Len(s) /\ b.panic \in BOOLEAN
  /\ \E m \in Embeddings(b, s) : \A j \in 1..Len(s) :
        s[j] \notin drop => \E k \in 1..b.len : m[k] = j

LEMMA TurnKeeps ==
    ASSUME NEW s, NEW drop, Len(s) \in Nat, NEW b, Thinned(b, s, drop), NEW i \in 1..Len(s)
    PROVE  Thinned(Turn(b, i, drop), s, drop)
<1>1. CASE b.panic \/ b.array[i] \notin drop
  BY <1>1 DEF Turn
<1>2. CASE ~(b.panic \/ b.array[i] \notin drop) /\ i > b.len
  <2>1. Turn(b, i, drop) = [b EXCEPT !.panic = TRUE]  BY <1>2 DEF Turn
  <2>2. /\ DOMAIN Turn(b, i, drop) = {"array", "len", "panic"}
        /\ Turn(b, i, drop).array = b.array
        /\ Turn(b, i, drop).len = b.len
        /\ Turn(b, i, drop).panic
    BY <2>1 DEF Thinned
  <2>3. Embeddings(Turn(b, i, drop), s) = Embeddings(b, s)  BY <2>2 DEF Embeddings
  <2>. QED  BY <2>2, <2>3 DEF Thinned
<1>3. CASE ~(b.panic \/ b.array[i] \notin drop) /\ ~(i > b.len)
  <2>. DEFINE c == Turn(b, i, drop)
  <2>1. c = [b EXCEPT !.array = Shift(b.array, i, b.len), !.len = b.len - 1]
    BY <1>3 DEF Turn
  <2>2. /\ DOMAIN c = {"array", "len", "panic"}
        /\ c.array = Shift(b.array, i, b.len)
        /\ c.len = b.len - 1
        /\ c.panic = b.panic
    BY <2>1 DEF Thinned
  <2>. HIDE DEF c
  <2>3. b.len \in 0..Len(s) /\ i <= b.len /\ i \in 1..Len(s)  BY <1>3 DEF Thinned
  <2>4. /\ DOMAIN c.array = 1..Len(s)
        /\ \A k \in 1..Len(s) : c.array[k] = IF i <= k /\ k < b.len THEN b.array[k + 1]
                                                                 ELSE b.array[k]
    BY <2>2 DEF Shift, Thinned
  <2>5. PICK m \in Embeddings(b, s) : \A j \in 1..Len(s) :
          s[j] \notin drop => \E k \in 1..b.len : m[k] = j
    BY DEF Thinned
  <2>6. /\ m \in [1..b.len -> 1..Len(s)]
        /\ \A j, k \in 1..b.len : j < k => m[j] < m[k]
        /\ \A k \in 1..b.len : b.array[k] = s[m[k]]
    BY <2>5 DEF Embeddings
  <2>. DEFINE w == [k \in 1..(b.len - 1) |-> IF k < i THEN m[k] ELSE m[k + 1]]
  <2>7. \A k \in 1..(b.len - 1) : k \in 1..b.len /\ k + 1 \in 1..b.len
    BY <2>3
  <2>8. w \in [1..c.len -> 1..Len(s)]  BY <2>2, <2>6, <2>7
  <2>9. ASSUME NEW j \in 1..c.len, NEW k \in 1..c.len, j < k
        PROVE  w[j] < w[k]
    BY <2>2, <2>3, <2>6, <2>7, <2>9
  <2>10. ASSUME NEW k \in 1..c.len
         PROVE  c.array[k] = s[w[k]]
    BY <2>2, <2>3, <2>4, <2>6, <2>7
  <2>11. ASSUME NEW j \in 1..Len(s), s[j] \notin drop
         PROVE  \E k \in 1..c.len : w[k] = j
    <3>1. PICK k \in 1..b.len : m[k] = j  BY <2>5, <2>11
    <3>2. k # i  BY <1>3, <2>6, <2>11, <3>1
    <3>3. CASE k < i
      <4>1. k \in 1..(b.len - 1)  BY <2>3, <3>3
      <4>. QED  BY <2>2, <3>1, <3>3, <4>1
    <3>4. CASE k > i
      <4>1. k - 1 \in 1..(b.len - 1) /\ ~(k - 1 < i) /\ (k - 1) + 1 = k  BY <2>3, <3>4
      <4>2. w[k - 1] = j  BY <3>1, <4>1
      <4>. HIDE DEF w
      <4>. QED  BY <2>2, <4>1, <4>2
    <3>. QED  BY <2>3, <3>2, <3>3, <3>4
  <2>. HIDE DEF w
  <2>12. w \in Embeddings(c, s)  BY <2>8, <2>9, <2>10 DEF Embeddings
  <2>13. c.len \in 0..Len(s) /\ c.panic \in BOOLEAN  BY <2>2, <2>3 DEF Thinned
  <2>. QED  BY <2>2, <2>4, <2>11, <2>12, <2>13 DEF Thinned, c
<1>. QED  BY <1>1, <1>2, <1>3

LEMMA LoopKeeps ==
    ASSUME NEW S, NEW s \in Seq(S), NEW drop
    PROVE  Thinned(RangeLoop(s, drop), s, drop)
<1>. DEFINE Wrong == {i \in 0..Len(s) : ~Thinned(Turns(s, drop)[i], s, drop)}
<1>0. Len(s) \in Nat /\ DOMAIN s = 1..Len(s)  OBVIOUS
<1>1. SUFFICES ASSUME Wrong # {} PROVE FALSE
  <2>1. Len(s) \in 0..Len(s)  BY <1>0
  <2>. QED  BY <2>1 DEF RangeLoop
<1>2. PICK i \in Wrong : \A j \in Wrong : i <= j
  <2>1. Wrong \in SUBSET Nat  OBVIOUS
  <2>. HIDE DEF Wrong
  <2>. QED  BY <1>1, <2>1, Least
<1>3. CASE i = 0
  <2>1. Turns(s, drop)[0] = Entered(s)  BY <1>0, TurnsFacts
  <2>. DEFINE b == Entered(s)
              m == [k \in 1..Len(s) |-> k]
  <2>2. /\ DOMAIN b = {"array", "len", "panic"}
        /\ b.array = s /\ b.len = Len(s) /\ b.panic = FALSE
    BY DEF Entered
  <2>3. m \in Embeddings(b, s)  BY <1>0, <2>2 DEF Embeddings
  <2>. HIDE DEF b
  <2>4. \A j \in 1..Len(s) : \E k \in 1..b.len : m[k] = j  BY <2>2
  <2>. HIDE DEF m
  <2>5. b.len \in 0..Len(s) /\ DOMAIN b.array = 1..Len(s)  BY <1>0, <2>2
  <2>6. Thinned(b, s, drop)  BY <2>2, <2>3, <2>4, <2>5 DEF Thinned
  <2>. QED  BY <1>3, <2>1, <2>6 DEF b
<1>4. CASE i # 0
  <2>1. i \in 1..Len(s) /\ i - 1 \in 0..Len(s) /\ ~(i <= i - 1)  BY <1>0, <1>4
  <2>2. Thinned(Turns(s, drop)[i - 1], s, drop)  BY <1>2, <2>1
  <2>3. Turns(s, drop)[i] = Turn(Turns(s, drop)[i - 1], i, drop)
    BY <1>0, <2>1, TurnsFacts
  <2>4. Thinned(Turns(s, drop)[i], s, drop)  BY <1>0, <2>1, <2>2, <2>3, TurnKeeps
  <2>. QED  BY <2>4
<1>. QED  BY <1>3, <1>4

\* What the loop leaves of a sequence.
LEMMA SliceFacts ==
    ASSUME NEW S, NEW s \in Seq(S), NEW drop, NEW t, t = Slice(RangeLoop(s, drop))
    PROVE  /\ t \in Seq(S)
           /\ Range(t) \subseteq Range(s)
           /\ Range(s) \ drop \subseteq Range(t)
           /\ IsInjective(s) => IsInjective(t)
<1>. DEFINE b == RangeLoop(s, drop)
<1>1. Thinned(b, s, drop)  BY LoopKeeps
<1>. HIDE DEF b
<1>2. PICK m \in Embeddings(b, s) : \A j \in 1..Len(s) :
        s[j] \notin drop => \E k \in 1..b.len : m[k] = j
  BY <1>1 DEF Thinned
<1>3. b.len \in Nat  BY <1>1 DEF Thinned
<1>4. /\ m \in [1..b.len -> 1..Len(s)]
      /\ \A j, k \in 1..b.len : j < k => m[j] < m[k]
      /\ \A k \in 1..b.len : b.array[k] = s[m[k]]
  BY <1>2 DEF Embeddings
<1>5. s \in [1..Len(s) -> S] /\ Len(s) \in Nat  BY LenProperties
<1>6. t = SubSeq(b.array, 1, b.len)  BY DEF Slice, b
<1>7. /\ t \in Seq(S) /\ Len(t) = b.len
      /\ \A k \in 1..b.len : t[k] = s[m[k]]
  <2>1. \A k \in 1..b.len : b.array[k] \in S  BY <1>4, <1>5
  <2>2. /\ SubSeq(b.array, 1, b.len) \in Seq(S)
        /\ Len(SubSeq(b.array, 1, b.len)) = IF 1 <= b.len THEN b.len - 1 + 1 ELSE 0
        /\ \A k \in 1..(b.len - 1 + 1) : SubSeq(b.array, 1, b.len)[k] = b.array[1 + k - 1]
    BY <1>3, <2>1, SubSeqProperties
  <2>3. t \in Seq(S)  BY <1>6, <2>2
  <2>4. Len(t) = b.len  BY <1>3, <1>6, <2>2
  <2>5. ASSUME NEW k \in 1..b.len PROVE t[k] = s[m[k]]
    <3>1. 1 + k - 1 = k /\ k \in 1..(b.len - 1 + 1)  BY <1>3
    <3>. QED  BY <1>4, <1>6, <2>2, <3>1
  <2>. QED  BY <2>3, <2>4, <2>5
<1>8. DOMAIN t = 1..b.len  BY <1>7, LenProperties
<1>9. Range(t) \subseteq Range(s)  BY <1>4, <1>5, <1>7, <1>8 DEF Range
<1>10. ASSUME NEW x \in Range(s) \ drop PROVE x \in Range(t)
  <2>1. PICK j \in 1..Len(s) : s[j] = x  BY <1>5 DEF Range
  <2>2. PICK k \in 1..b.len : m[k] = j  BY <1>2, <2>1
  <2>. QED  BY <1>7, <1>8, <2>1, <2>2 DEF Range
<1>11. ASSUME IsInjective(s) PROVE IsInjective(t)
  <2>1. SUFFICES ASSUME NEW i \in 1..b.len, NEW j \in 1..b.len, t[i] = t[j] PROVE i = j
    BY <1>8 DEF IsInjective
  <2>2. s[m[i]] = s[m[j]]  BY <1>7, <2>1
  <2>3. m[i] \in 1..Len(s) /\ m[j] \in 1..Len(s)  BY <1>4
  <2>4. m[i] = m[j]  BY <1>5, <1>11, <2>2, <2>3 DEF IsInjective
  <2>. QED  BY <1>3, <1>4, <2>3, <2>4
<1>. QED  BY <1>7, <1>9, <1>10, <1>11

\* An order of a finite set has each of its elements once.
LEMMA OrderFacts ==
    ASSUME NEW T, NEW S \in SUBSET T, IsFiniteSet(T), NEW f \in Orders(S)
    PROVE  f \in Seq(T) /\ Range(f) = S /\ IsInjective(f)
<1>. DEFINE n == Cardinality(S)
<1>1. IsFiniteSet(S) /\ n \in Nat  BY FS_Subset, FS_CardinalityType
<1>2. f \in [1..n -> S] /\ Range(f) = S  BY DEF Orders
<1>3. IsFiniteSet(1..n) /\ Cardinality(1..n) = n  BY <1>1, FS_Interval
<1>4. f \in Surjection(1..n, S)  BY <1>2 DEF Surjection, Range
<1>5. f \in Injection(1..n, S)  BY <1>3, <1>4, FS_SurjSameCardinalityImpliesInj
<1>6. IsInjective(f)  BY <1>5 DEF Injection
<1>7. f \in [1..n -> T]  BY <1>2
<1>. HIDE DEF n
<1>8. f \in Seq(T)  BY <1>1, <1>7, SeqDef
<1>. QED  BY <1>2, <1>6, <1>8

LEMMA ConcatFacts ==
    ASSUME NEW S, NEW s \in Seq(S), NEW t \in Seq(S)
    PROVE  /\ s \o t \in Seq(S)
           /\ Range(s \o t) = Range(s) \cup Range(t)
           /\ IsInjective(s) /\ IsInjective(t) /\ Range(s) \cap Range(t) = {}
                => IsInjective(s \o t)
<1>. DEFINE m == Len(s)
            n == Len(t)
            u == s \o t
<1>1. /\ m \in Nat /\ DOMAIN s = 1..m /\ n \in Nat /\ DOMAIN t = 1..n
  BY LenProperties
<1>2. /\ u \in Seq(S) /\ Len(u) = m + n
      /\ \A i \in 1..(m + n) : u[i] = IF i <= m THEN s[i] ELSE t[i - m]
  BY ConcatProperties
<1>. HIDE DEF u, m, n
<1>3. DOMAIN u = 1..(m + n)  BY <1>2, LenProperties
<1>4. \A i \in 1..m : i \in 1..(m + n) /\ u[i] = s[i]  BY <1>1, <1>2
<1>5. \A i \in 1..n : i + m \in 1..(m + n) /\ u[i + m] = t[i]
  <2>1. SUFFICES ASSUME NEW i \in 1..n PROVE i + m \in 1..(m + n) /\ u[i + m] = t[i]
    OBVIOUS
  <2>2. i + m \in 1..(m + n) /\ ~(i + m <= m) /\ (i + m) - m = i  BY <1>1
  <2>. QED  BY <1>2, <2>2
<1>6. \A i \in 1..(m + n) : i \in 1..m \/ (i - m \in 1..n /\ (i - m) + m = i)  BY <1>1
<1>7. Range(u) = Range(s) \cup Range(t)
  <2>1. ASSUME NEW x \in Range(u) PROVE x \in Range(s) \cup Range(t)
    <3>1. PICK i \in 1..(m + n) : u[i] = x  BY <1>3 DEF Range
    <3>2. CASE i \in 1..m  BY <1>1, <1>4, <3>1, <3>2 DEF Range
    <3>3. CASE i - m \in 1..n /\ (i - m) + m = i
      <4>1. u[(i - m) + m] = t[i - m]  BY <1>5, <3>3
      <4>. QED  BY <1>1, <3>1, <3>3, <4>1 DEF Range
    <3>. QED  BY <1>6, <3>2, <3>3
  <2>2. Range(s) \subseteq Range(u)  BY <1>1, <1>3, <1>4 DEF Range
  <2>3. Range(t) \subseteq Range(u)  BY <1>1, <1>3, <1>5 DEF Range
  <2>. QED  BY <2>1, <2>2, <2>3
<1>8. ASSUME IsInjective(s), IsInjective(t), Range(s) \cap Range(t) = {}
      PROVE  IsInjective(u)
  <2>1. SUFFICES ASSUME NEW i \in 1..(m + n), NEW j \in 1..(m + n), u[i] = u[j]
                 PROVE  i = j
    BY <1>3 DEF IsInjective
  <2>2. ASSUME NEW k \in 1..m, NEW l \in 1..n PROVE u[k] # u[l + m]
    <3>1. u[k] \in Range(s) /\ u[l + m] \in Range(t)  BY <1>1, <1>4, <1>5 DEF Range
    <3>. QED  BY <1>8, <3>1
  <2>3. CASE i \in 1..m /\ j \in 1..m
    BY <1>1, <1>4, <1>8, <2>1, <2>3 DEF IsInjective
  <2>4. CASE i - m \in 1..n /\ (i - m) + m = i /\ j - m \in 1..n /\ (j - m) + m = j
    <3>1. t[i - m] = t[j - m]  BY <1>5, <2>1, <2>4
    <3>2. i - m = j - m  BY <1>1, <1>8, <2>4, <3>1 DEF IsInjective
    <3>. QED  BY <2>4, <3>2
  <2>. QED  BY <1>6, <2>1, <2>2, <2>3, <2>4
<1>. QED  BY <1>2, <1>7, <1>8 DEF u

----------------------------------------------------------------------------
(* Control flow *)

\* The calls of a delete, in their order.
LEMMA KindsFacts ==
    /\ DOMAIN Kinds = 1..7 /\ Len(Kinds) = 7
    /\ Kinds[1] = "DeploymentConfigs"
    /\ Kinds[2] = "Routes"
    /\ Kinds[3] = "BuildConfigs"
    /\ Kinds[4] = "ImageStreams"
    /\ Kinds[5] = "Services"
    /\ Kinds[6] = "PersistentVolumeClaims"
    /\ Kinds[7] = "Secrets"
    /\ Range(Kinds) = {"DeploymentConfigs", "Routes", "BuildConfigs",
                       "ImageStreams", "Services", "PersistentVolumeClaims",
                       "Secrets"}
<1>1. /\ DOMAIN Kinds = 1..7 /\ Len(Kinds) = 7
      /\ Kinds[1] = "DeploymentConfigs"
      /\ Kinds[2] = "Routes"
      /\ Kinds[3] = "BuildConfigs"
      /\ Kinds[4] = "ImageStreams"
      /\ Kinds[5] = "Services"
      /\ Kinds[6] = "PersistentVolumeClaims"
      /\ Kinds[7] = "Secrets"
  BY DEF Kinds
<1>2. \A i \in 1..7 : i \in {1, 2, 3, 4, 5, 6, 7}  OBVIOUS
<1>3. {1, 2, 3, 4, 5, 6, 7} = 1..7  OBVIOUS
<1>. HIDE DEF Kinds
<1>4. Range(Kinds) = {Kinds[i] : i \in {1, 2, 3, 4, 5, 6, 7}}
  BY <1>1, <1>3 DEF Range
<1>. QED  BY <1>1, <1>4

\* The URLs are the last part of a push.
LEMMA UrlsFromFlow ==
    ASSUME UrlsFrom \/ AfterUrls \/ (\E r : UrlDeleteFrom(r))
    PROVE  /\ want' = want
           /\ \/ /\ pc' \in LateSteps /\ result' = result
              \/ pc' = "idle" /\ result' = "pushed" /\ ~fresh'
<1>1. AfterUrls => /\ want' = want
                   /\ \/ /\ pc' \in LateSteps /\ result' = result
                      \/ pc' = "idle" /\ result' = "pushed" /\ ~fresh'
  BY DEF AfterUrls, Goto, EndsWith, LateSteps
<1>2. ASSUME NEW r
      PROVE  UrlDeleteFrom(r) => /\ want' = want
                   /\ \/ /\ pc' \in LateSteps /\ result' = result
                      \/ pc' = "idle" /\ result' = "pushed" /\ ~fresh'
  BY <1>1 DEF UrlDeleteFrom, Goto, LateSteps
<1>3. UrlsFrom => /\ want' = want
                  /\ \/ /\ pc' \in LateSteps /\ result' = result
                     \/ pc' = "idle" /\ result' = "pushed" /\ ~fresh'
  BY <1>2 DEF UrlsFrom, Goto, LateSteps
<1>. QED  BY <1>1, <1>2, <1>3

\* What follows the storage depends on whether the component exists.
LEMMA StorageCreateFromFlow ==
    ASSUME StorageCreateFrom
    PROVE  /\ result' = result
           /\ pc' \in {"storageCreate"} \cup
                       (IF Deployed THEN {"getDC"} ELSE {"imageStream"})
BY DEF StorageCreateFrom, AfterStorage, Goto

----------------------------------------------------------------------------
(* Read and write of the DeploymentConfig *)

\* The steps of a push as its control flow sees them.
Flow ==
  /\ pc \in PushSteps
  /\ pc' \in PushSteps \cup {"idle"}
  /\ want' = want
  /\ pc' # "idle" => result' = result
  /\ pc' = "idle" => result' \in {"pushed", "failed"}

\* The invariant is kept by the steps of a push.
LEMMA PushStepKeepsReadInv ==
    ASSUME ReadInv, PushStep
    PROVE  ReadInv' /\ Flow
<1>. USE DEF ReadSteps, LateSteps, NewSteps, PushSteps, Flow
<1>0. /\ want \in Config
      /\ \A s \in Storages : want.storage[s] \in Sizes \cup {None}
      /\ pvc \in [Storages -> Quantities \cup {None}]
  BY DEF ReadInv, Config, Partial
<1>a. want.source = "local" \/ want.source = "git"
  BY <1>0, SourcesAssumption DEF Config
<1>. USE DEF ReadInv, Fails, EndsWith, Goto, Deployed, Partial
<1>1. CASE CheckExists
  BY <1>1, StorageCreateFromFlow DEF CheckExists, cluster
<1>2. ASSUME NEW s \in Storages, StorageDelete(s)
      PROVE  ReadInv' /\ Flow
  BY <1>0, <1>2, StorageCreateFromFlow DEF StorageDelete, Visit
<1>3. ASSUME NEW s \in Storages, StorageCreate(s)
      PROVE  ReadInv' /\ Flow
  BY <1>0, <1>3, SizeFacts DEF StorageCreate, Visit, AfterStorage
<1>4. CASE CreateImageStream
  BY <1>4 DEF CreateImageStream, CreateObject, command
<1>5. CASE CreateBuildConfig
  BY <1>5 DEF CreateBuildConfig, command
<1>6. CASE CreateDC
  BY <1>6, <1>a DEF CreateDC, command
<1>7. CASE CreateService
  BY <1>7 DEF CreateService, CreateObject, command
<1>8. CASE CreateSecrets
  BY <1>8 DEF CreateSecrets, CreateObject, command
<1>9. CASE CreateRoot
  BY <1>9, UrlsFromFlow DEF CreateRoot, CreateObject, command, NoDC
<1>10. CASE GetDC
  BY <1>10 DEF GetDC, cluster
<1>11. CASE UpdateBuildConfig
  BY <1>11 DEF UpdateBuildConfig, command
<1>12. CASE DeleteBuildConfig
  BY <1>12 DEF DeleteBuildConfig, command
<1>13. CASE Build
  BY <1>13 DEF Build, cluster, command, NoDC
<1>14. CASE PatchDC
  BY <1>14, <1>a, UrlsFromFlow DEF PatchDC, Conflict, command
<1>15. CASE Rollout
  BY <1>15, UrlsFromFlow DEF Rollout, cluster, command
<1>16. CASE DeleteRoot
  BY <1>16, UrlsFromFlow DEF DeleteRoot
<1>17. ASSUME NEW u \in Urls, UrlCreate(u)
       PROVE  ReadInv' /\ Flow
  BY <1>17, UrlsFromFlow DEF UrlCreate, Visit
<1>18. ASSUME NEW u \in Urls, UrlDelete(u)
       PROVE  ReadInv' /\ Flow
  BY <1>18, UrlsFromFlow DEF UrlDelete, Visit
<1>19. CASE PushSource
  BY <1>19 DEF PushSource, cluster
<1>. QED
  BY <1>1, <1>2, <1>3, <1>4, <1>5, <1>6, <1>7, <1>8, <1>9, <1>10, <1>11,
     <1>12, <1>13, <1>14, <1>15, <1>16, <1>17, <1>18, <1>19 DEF PushStep

\* The invariant is kept by every other step.
LEMMA OthersKeepReadInv ==
    ASSUME ReadInv, Next, ~PushStep
    PROVE  ReadInv'
<1>. USE DEF ReadSteps, LateSteps, NewSteps, PushSteps
<1>. USE KindsFacts DEF ReadInv, EndsWith, Goto, Deployed, Partial
<1>1. CASE Begins
  BY <1>1 DEF Begins, Delete, Push, cluster, command
<1>2. CASE Find
  BY <1>2 DEF Find, Fails, cluster, command
<1>3. ASSUME NEW i \in DOMAIN Kinds, DeleteStep(i)
      PROVE  ReadInv'
  <2>1. pc \in Range(Kinds)  BY <1>3 DEF Range, DeleteStep
  <2>2. ~fresh  BY <2>1
  <2>3. /\ want' = want /\ ~fresh'
        /\ pc' \in Range(Kinds) \cup {"idle"}
    BY <1>3, <2>2 DEF DeleteStep, DeleteNext, command, Range
  <2>4. /\ dc' = dc \/ dc' = NoDC
        /\ pvc' \in [Storages -> Quantities \cup {None}]
    BY <1>3 DEF DeleteStep, DeleteKind, cluster
  <2>. HIDE DEF Deployed
  <2>5. ~Deployed' => dc' = NoDC  BY <2>4 DEF Deployed
  <2>7. DOMAIN dc' = {"source", "mounts", "env", "links"}
    BY <2>4 DEF NoDC
  <2>6. pc' \notin NewSteps \cup {"getDC"}  BY <2>3
  <2>. QED  BY <2>3, <2>4, <2>5, <2>6, <2>7
<1>4. CASE Stop
  BY <1>4 DEF Stop, cluster
<1>5. ASSUME NEW s \in Secrets, Link(s) \/ Unlink(s)
      PROVE  ReadInv'
  BY <1>5 DEF Link, Unlink, NoDC
<1>. QED  BY <1>1, <1>2, <1>3, <1>4, <1>5 DEF Next

\* ReadInv is invariant: the strengthening the properties of pushes rest on.
THEOREM ReadInductive == Spec => []ReadInv
<1>1. Init => ReadInv
  BY DEF Init, ReadInv, Partial, Deployed, NoDC, NewSteps
<1>2. ReadInv /\ [Next]_vars => ReadInv'
  <2>1. SUFFICES ASSUME ReadInv, [Next]_vars PROVE ReadInv'  OBVIOUS
  <2>2. CASE PushStep  BY <2>1, <2>2, PushStepKeepsReadInv
  <2>3. CASE Next /\ ~PushStep  BY <2>1, <2>3, OthersKeepReadInv
  <2>4. CASE UNCHANGED vars
    BY <2>1, <2>4 DEF vars, ReadInv, Deployed
  <2>5. PushStep => Next  BY DEF Next
  <2>. QED  BY <2>1, <2>2, <2>3, <2>4, <2>5
<1>. QED  BY <1>1, <1>2, PTL DEF Spec

----------------------------------------------------------------------------
(* What pushes keep *)

\* A push with local sources never drops a link, even one made between its read
\* and its update of the DeploymentConfig: the update that would do so is the
\* one the API refuses.
THEOREM LocalPushKeepsLinks == Spec => LinksSurviveLocalPush
<1>. DEFINE Kept == want.source = "local" /\ pc \in PushSteps /\ pc' # pc
                      => dc.links \subseteq dc'.links
<1>1. ASSUME ReadInv, [Next]_vars
      PROVE  Kept
  <2>1. SUFFICES ASSUME want.source = "local", pc \in PushSteps, pc' # pc
                 PROVE  dc.links \subseteq dc'.links
    OBVIOUS
  <2>2. CASE dc' = dc  BY <2>2
  <2>3. CASE CreateDC
    BY <1>1, <2>3 DEF ReadInv, CreateDC, NewSteps, NoDC
  <2>4. CASE PatchDC
    <3>1. CASE dc' = dc  BY <3>1
    <3>2. CASE dc' # dc
      <4>1. fresh /\ seen = dc
        BY <1>1, <2>4, <3>2 DEF ReadInv, PatchDC, Conflict, LateSteps
      <4>2. dc'.links = LinksKept
        BY <2>4, <3>2 DEF PatchDC
      <4>. QED  BY <2>1, <4>1, <4>2 DEF LinksKept
    <3>. QED  BY <3>1, <3>2
  <2>5. CASE PushStep /\ ~CreateDC /\ ~PatchDC
    BY <2>2, <2>5
       DEF PushStep, CheckExists, StorageDelete, StorageCreate,
           CreateImageStream, CreateBuildConfig, CreateService, CreateSecrets,
           CreateRoot, CreateObject, GetDC, UpdateBuildConfig,
           DeleteBuildConfig, Build, Rollout, DeleteRoot, UrlCreate,
           UrlDelete, PushSource, cluster
  <2>6. CASE Next /\ ~PushStep
    <3>1. pc \notin Range(Kinds) \cup {"idle", "find"}
      BY <2>1, KindsFacts DEF PushSteps
    <3>2. \A i \in DOMAIN Kinds : ~DeleteStep(i)
      BY <3>1 DEF DeleteStep, Range
    <3>3. \A s \in Secrets : ~Link(s) /\ ~Unlink(s)
      BY <2>1 DEF Link, Unlink
    <3>. QED
      BY <2>2, <2>6, <3>1, <3>2, <3>3
         DEF Next, Begins, Delete, Push, Find, Stop, cluster
  <2>. QED
    BY <1>1, <2>1, <2>2, <2>3, <2>4, <2>5, <2>6 DEF vars
<1>2. ReadInv /\ [Next]_vars => [Kept]_vars
  BY <1>1
<1>. QED  BY <1>2, ReadInductive, PTL DEF Spec, LinksSurviveLocalPush

\* The data of a storage is lost only to a push whose configuration does not
\* have the storage, or to a delete.
THEOREM DataIsKept == Spec => StorageKept
<1>. DEFINE Lost(s) == pvc[s] # None /\ pvc'[s] # pvc[s]
            Kept == \A s \in Storages :
                      Lost(s) => \/ pc = "PersistentVolumeClaims"
                                 \/ pc \in PushSteps /\ want.storage[s] = None
<1>1. ASSUME ReadInv, [Next]_vars
      PROVE  Kept
  <2>1. SUFFICES ASSUME NEW s \in Storages, Lost(s)
                 PROVE  \/ pc = "PersistentVolumeClaims"
                        \/ pc \in PushSteps /\ want.storage[s] = None
    OBVIOUS
  <2>2. pvc' # pvc  BY <2>1
  <2>3. pvc \in [Storages -> Quantities \cup {None}]  BY <1>1 DEF ReadInv, Partial
  <2>4. ASSUME NEW r \in Storages, StorageDelete(r)
        PROVE  pc \in PushSteps /\ want.storage[s] = None
    <3>1. pvc' = [pvc EXCEPT ![r] = None] /\ want.storage[r] = None
      BY <2>2, <2>4 DEF StorageDelete
    <3>2. r = s  BY <2>1, <2>3, <3>1
    <3>. QED  BY <2>4, <3>1, <3>2 DEF StorageDelete, PushSteps
  <2>5. ASSUME NEW r \in Storages, StorageCreate(r)
        PROVE  FALSE
    <3>1. pvc' = [pvc EXCEPT ![r] = Canonical[want.storage[r]]] /\ pvc[r] = None
      BY <2>2, <2>5 DEF StorageCreate
    <3>. QED  BY <2>1, <2>3, <3>1
  <2>6. ASSUME NEW i \in DOMAIN Kinds, DeleteStep(i)
        PROVE  pc = "PersistentVolumeClaims"
    BY <2>2, <2>6 DEF DeleteStep, DeleteKind, cluster
  <2>7. \/ \E r \in Storages : StorageDelete(r) \/ StorageCreate(r)
        \/ \E i \in DOMAIN Kinds : DeleteStep(i)
    BY <1>1, <2>2
       DEF Next, Begins, Delete, Push, PushStep, CheckExists,
           CreateImageStream, CreateBuildConfig, CreateDC, CreateService,
           CreateSecrets, CreateRoot, CreateObject, GetDC, UpdateBuildConfig,
           DeleteBuildConfig, Build, PatchDC, Rollout, DeleteRoot, UrlCreate,
           UrlDelete, PushSource, Find, Stop, Link, Unlink, cluster, vars
  <2>. QED  BY <2>4, <2>5, <2>6, <2>7
<1>2. ReadInv /\ [Next]_vars => [Kept]_vars
  BY <1>1
<1>. QED  BY <1>2, ReadInductive, PTL DEF Spec, StorageKept

----------------------------------------------------------------------------
(* What a delete leaves *)

\* The objects of a component are those the model knows.
LEMMA ObjectsStep ==
    ASSUME objects \subseteq Objects, [Next]_vars
    PROVE  objects' \subseteq Objects
BY DEF Next, Begins, Delete, Push, PushStep, CheckExists, StorageDelete,
       StorageCreate, CreateImageStream, CreateBuildConfig, CreateDC,
       CreateService, CreateSecrets, CreateRoot, CreateObject, GetDC,
       UpdateBuildConfig, DeleteBuildConfig, Build, PatchDC, Rollout,
       DeleteRoot, UrlCreate, UrlDelete, PushSource, Find, DeleteStep,
       DeleteKind, Stop, Link, Unlink, cluster, vars, Objects

\* A call of a delete removes its kind and brings back nothing.
LEMMA GoneStep ==
    ASSUME NEW i \in 1..7, pc = Kinds[i], DeleteKind(pc), Gone(i - 1)
    PROVE  Gone(i)'
<1>. USE KindsFacts DEF DeleteKind, Gone, Deployed, Defined
<1>1. CASE i = 1  BY <1>1 DEF NoDC
<1>2. CASE i = 2  BY <1>2
<1>3. CASE i = 3  BY <1>3
<1>4. CASE i = 4  BY <1>4 DEF Removes
<1>5. CASE i = 5  BY <1>5 DEF Removes
<1>6. CASE i = 6  BY <1>6 DEF Removes
<1>7. CASE i = 7  BY <1>7 DEF Removes
<1>. QED  BY <1>1, <1>2, <1>3, <1>4, <1>5, <1>6, <1>7

\* What holds of the conjuncts that say what is gone.
DeleteInvRest ==
  /\ \A i \in DOMAIN Kinds : pc = Kinds[i] /\ result = "running" => Gone(i - 1)
  /\ Idle /\ result = "deleted" => Gone(7)
  /\ ~Idle => result \in {"running", "failed"}

\* A call of a delete moves to the next one, which finds the earlier kinds gone.
LEMMA DeleteStepKeepsDeleteInv ==
    ASSUME DeleteInvRest, NEW i \in 1..7, DeleteStep(i)
    PROVE  DeleteInvRest'
<1>. USE KindsFacts
<1>1. pc = Kinds[i]  BY DEF DeleteStep
<1>2. ~Idle  BY <1>1 DEF Idle
<1>3. result \in {"running", "failed"}  BY <1>2 DEF DeleteInvRest
<1>4. \E r \in {result, "failed"} :
        /\ DeleteNext(i, r)
        /\ r = "failed" \/ DeleteKind(pc)
  BY DEF DeleteStep
<1>5. PICK r \in {result, "failed"} :
        /\ DeleteNext(i, r)
        /\ r = "failed" \/ DeleteKind(pc)
  BY <1>4
<1>6. CASE r = "failed"
  <2>1. result' = "failed"
    BY <1>5, <1>6 DEF DeleteNext, EndsWith
  <2>. QED  BY <2>1 DEF DeleteInvRest
<1>7. CASE r = "running"
  <2>1. DeleteKind(pc) /\ result = "running"
    BY <1>3, <1>5, <1>7
  <2>2. Gone(i - 1)
    BY <1>1, <2>1 DEF DeleteInvRest
  <2>3. Gone(i)'
    BY <1>1, <2>1, <2>2, GoneStep
  <2>4. CASE i < 7
    <3>1. pc' = Kinds[i + 1] /\ result' = "running"
      BY <1>5, <1>7, <2>4 DEF DeleteNext
    <3>2. \A j \in 1..7 : Kinds[j] = Kinds[i + 1] => j = i + 1
      BY <2>4
    <3>3. (i + 1) - 1 = i  OBVIOUS
    <3>4. ~Idle'  BY <2>4, <3>1 DEF Idle
    <3>5. \A j \in 1..7 : pc' = Kinds[j] => Gone(j - 1)'
      BY <2>3, <3>1, <3>2, <3>3
    <3>. QED  BY <3>1, <3>4, <3>5 DEF DeleteInvRest
  <2>5. CASE i = 7
    <3>1. pc' = "idle" /\ result' = "deleted"
      BY <1>5, <1>7, <2>5 DEF DeleteNext, EndsWith
    <3>2. Gone(7)'  BY <2>3, <2>5
    <3>. QED  BY <3>1, <3>2 DEF DeleteInvRest, Idle
  <2>. QED  BY <2>4, <2>5
<1>. QED  BY <1>3, <1>5, <1>6, <1>7

\* The other steps do not find a delete under way that they could spoil.
LEMMA OthersKeepDeleteInv ==
    ASSUME ReadInv, DeleteInvRest, Next, \A i \in DOMAIN Kinds : ~DeleteStep(i)
    PROVE  DeleteInvRest'
<1>. USE KindsFacts DEF DeleteInvRest, Idle
<1>1. CASE PushStep
  <2>1. Flow  BY <1>1, PushStepKeepsReadInv
  <2>2. pc' \notin Range(Kinds) /\ pc # "idle"  BY <2>1 DEF Flow, PushSteps
  <2>3. \A i \in 1..7 : pc' # Kinds[i]  BY <2>2 DEF Range
  <2>. QED  BY <2>1, <2>2, <2>3 DEF Flow
<1>2. CASE Begins
  BY <1>2 DEF Begins, Delete, Push
<1>3. CASE Find
  <2>1. CASE pc' = "idle" /\ result' = "failed"  BY <2>1
  <2>2. CASE pc' = Kinds[1] /\ result' = result
    <3>1. \A i \in 1..7 : pc' = Kinds[i] => i = 1  BY <2>2
    <3>2. Gone(1 - 1)'  BY DEF Gone
    <3>3. result \in {"running", "failed"} /\ pc' # "idle"  BY <1>3, <2>2 DEF Find
    <3>. QED  BY <2>2, <3>1, <3>2, <3>3
  <2>. QED  BY <1>3, <2>1, <2>2 DEF Find, Fails, EndsWith, Goto
<1>4. CASE Stop
  BY <1>4 DEF Stop, EndsWith
<1>5. ASSUME NEW s \in Secrets, Link(s) \/ Unlink(s)
      PROVE  DeleteInvRest'
  <2>1. Deployed /\ pc' = pc /\ result' = result  BY <1>5 DEF Link, Unlink
  <2>2. \A i \in 1..7 : Gone(i) => FALSE  BY <2>1 DEF Gone
  <2>3. ASSUME NEW i \in 1..7, pc' = Kinds[i], result' = "running"
        PROVE  Gone(i - 1)'
    <3>1. Gone(i - 1)  BY <2>1, <2>3
    <3>2. i - 1 \in 1..7 \/ i = 1  OBVIOUS
    <3>3. i = 1  BY <2>2, <3>1, <3>2
    <3>. QED  BY <3>3 DEF Gone
  <2>4. ~(Idle' /\ result' = "deleted")  BY <2>1, <2>2
  <2>. QED  BY <2>1, <2>3, <2>4
<1>. QED  BY <1>1, <1>2, <1>3, <1>4, <1>5 DEF Next

\* DeleteInv is invariant.
THEOREM DeleteInductive == Spec => []DeleteInv
<1>. DEFINE IInv == objects \subseteq Objects /\ DeleteInvRest
<1>1. Init => IInv
  BY KindsFacts DEF Init, DeleteInvRest, Idle, Objects
<1>2. ReadInv /\ IInv /\ [Next]_vars => IInv'
  <2>1. SUFFICES ASSUME ReadInv, IInv, [Next]_vars PROVE IInv'  OBVIOUS
  <2>2. objects' \subseteq Objects  BY <2>1, ObjectsStep
  <2>3. CASE \E i \in DOMAIN Kinds : DeleteStep(i)
    BY <2>1, <2>2, <2>3, KindsFacts, DeleteStepKeepsDeleteInv
  <2>4. CASE Next /\ \A i \in DOMAIN Kinds : ~DeleteStep(i)
    BY <2>1, <2>2, <2>4, OthersKeepDeleteInv
  <2>5. CASE UNCHANGED vars
    BY <2>1, <2>2, <2>5
       DEF vars, DeleteInvRest, Idle, Gone, Deployed, Defined
  <2>. QED  BY <2>1, <2>3, <2>4, <2>5
<1>3. IInv => DeleteInv  BY DEF DeleteInv, DeleteInvRest
<1>. QED  BY <1>1, <1>2, <1>3, ReadInductive, PTL DEF Spec

\* A delete that reports success has left nothing behind, whatever commands have
\* stopped halfway before it.
THEOREM DeleteIsComplete == Spec => []DeletedLeavesNothing
<1>1. DeleteInv => DeletedLeavesNothing
  BY DEF DeleteInv, DeletedLeavesNothing, Gone, NothingExists, Objects
<1>. QED  BY <1>1, DeleteInductive, PTL

----------------------------------------------------------------------------
(* Types                                                                    *)

\* The configuration names storages of the model, and so does what is mounted.
LEMMA StoragesKnown ==
    ASSUME want \in Config, NEW d \in DC
    PROVE  /\ Defined(want.storage) \subseteq Storages
           /\ Mounted(d) \subseteq Storages
           /\ ToMount(d) \subseteq Storages
<1>1. DOMAIN want.storage = Storages  BY DEF Config, Partial
<1>2. d.mounts \in Seq(Storages)  BY DEF DC
<1>3. \A s \in Range(d.mounts) : s \in Storages  BY <1>2, ElementOfSeq, LenProperties DEF Range
<1>. QED  BY <1>1, <1>3 DEF Defined, Mounted, ToMount

\* The mounts that an update writes: those of the configuration, and perhaps
\* some that the loop has skipped.
LEMMA NewMounts ==
    ASSUME want \in Config, NEW d \in DC, NEW order \in Orders(ToMount(d)),
           NEW mounts, mounts = Slice(Unmount(d.mounts, ToUnmount(d))) \o order
    PROVE  /\ mounts \in Seq(Storages)
           /\ Defined(want.storage) \subseteq Range(mounts)
           /\ Range(mounts) \subseteq Mounted(d) \cup Defined(want.storage)
           /\ IsInjective(d.mounts) => IsInjective(mounts)
<1>. DEFINE t == Slice(Unmount(d.mounts, ToUnmount(d)))
<1>1. d.mounts \in Seq(Storages)  BY DEF DC
<1>2. /\ t \in Seq(Storages)
      /\ Range(t) \subseteq Mounted(d)
      /\ Mounted(d) \ ToUnmount(d) \subseteq Range(t)
      /\ IsInjective(d.mounts) => IsInjective(t)
  BY <1>1, SliceFacts DEF Unmount, Mounted
<1>3. ToMount(d) \in SUBSET Storages  BY StoragesKnown
<1>4. order \in Seq(Storages) /\ Range(order) = ToMount(d) /\ IsInjective(order)
  BY <1>3, StoragesAssumption, OrderFacts
<1>. HIDE DEF t
<1>5. /\ mounts \in Seq(Storages)
      /\ Range(mounts) = Range(t) \cup Range(order)
      /\ IsInjective(t) /\ IsInjective(order) /\ Range(t) \cap Range(order) = {}
           => IsInjective(mounts)
  BY <1>2, <1>4, ConcatFacts DEF t
<1>6. Range(t) \cap Range(order) = {}  BY <1>2, <1>4 DEF ToMount
<1>7. Defined(want.storage) \subseteq Range(mounts)
  BY <1>2, <1>4, <1>5 DEF ToMount, ToUnmount
<1>8. Range(mounts) \subseteq Mounted(d) \cup Defined(want.storage)
  BY <1>2, <1>4, <1>5 DEF ToMount
<1>. QED  BY <1>2, <1>4, <1>5, <1>6, <1>7, <1>8

\* An empty mount list, and what a DeploymentConfig may be changed to.
LEMMA DCFacts ==
    /\ NoDC \in DC /\ Mounted(NoDC) = {} /\ IsInjective(NoDC.mounts)
    /\ \A d \in DC, s \in Secrets :
         /\ [d EXCEPT !.links = @ \cup {s}] \in DC
         /\ [d EXCEPT !.links = @ \ {s}] \in DC
<1>. DEFINE e == <<>>
<1>1. e \in Seq(Storages) /\ DOMAIN e = {}  BY EmptySeq
<1>. HIDE DEF e
<1>2. NoDC = [source |-> "none", mounts |-> e, env |-> None, links |-> {}]
  BY DEF NoDC, e
<1>3. NoDC \in DC  BY <1>1, <1>2 DEF DC
<1>4. Mounted(NoDC) = {} /\ IsInjective(NoDC.mounts)
  BY <1>1, <1>2 DEF Mounted, Range, IsInjective
<1>5. ASSUME NEW d \in DC, NEW s \in Secrets
      PROVE  /\ [d EXCEPT !.links = @ \cup {s}] \in DC
             /\ [d EXCEPT !.links = @ \ {s}] \in DC
  <2>. DEFINE M == Seq(Storages)
  <2>1. d \in [source : {"none", "local", "git"}, mounts : M,
               env : Envs \cup {None}, links : SUBSET Secrets]
    BY DEF DC
  <2>. HIDE DEF M
  <2>. QED  BY <2>1 DEF DC, M
<1>. QED  BY <1>3, <1>4, <1>5

\* The steps that only read, or that change one of the simpler variables.
LEMMA UrlsFromTypes ==
    ASSUME TypeOK, UrlsFrom \/ AfterUrls \/ UrlDeleteFrom(routes) \/ UrlDeleteFrom(routes'),
           routes' \in Partial(Urls, Ports)
    PROVE  /\ seen' \in {seen, NoDC} /\ fresh' \in BOOLEAN
           /\ pc' \in LateSteps \cup {"idle"}
           /\ want' = want /\ clean' = clean /\ faults' = faults
           /\ left' \subseteq Storages \cup Urls
           /\ result' \in {result, "pushed"}
<1>1. AfterUrls => /\ seen' \in {seen, NoDC} /\ fresh' \in BOOLEAN
                   /\ pc' \in LateSteps \cup {"idle"}
                   /\ want' = want /\ clean' = clean /\ faults' = faults
                   /\ left' = {}
                   /\ result' \in {result, "pushed"}
  BY DEF TypeOK, AfterUrls, Goto, EndsWith, LateSteps
<1>2. ASSUME NEW r, r \in Partial(Urls, Ports), UrlDeleteFrom(r)
      PROVE  /\ seen' \in {seen, NoDC} /\ fresh' \in BOOLEAN
             /\ pc' \in LateSteps \cup {"idle"}
             /\ want' = want /\ clean' = clean /\ faults' = faults
             /\ left' \subseteq Storages \cup Urls
             /\ result' \in {result, "pushed"}
  <2>1. Surplus(r) \subseteq Urls  BY <1>2 DEF Surplus, Defined, Partial
  <2>. QED  BY <1>1, <1>2, <2>1 DEF UrlDeleteFrom, Goto, LateSteps, TypeOK
<1>3. routes \in Partial(Urls, Ports)  BY DEF TypeOK
<1>4. Defined(want.urls) \subseteq Urls
  <2>1. want \in Config  BY DEF TypeOK
  <2>2. want.urls \in Partial(Urls, Ports)  BY <2>1 DEF Config
  <2>. QED  BY <2>2 DEF Defined, Partial
<1>5. UrlsFrom => \/ UrlDeleteFrom(routes)
                  \/ /\ left' = Defined(want.urls) /\ Goto("urlCreate")
                     /\ UNCHANGED <<want, seen, fresh>>
  BY DEF UrlsFrom
<1>6. Goto("urlCreate") => /\ pc' \in LateSteps
                           /\ result' = result /\ clean' = clean /\ faults' = faults
  BY DEF Goto, LateSteps
<1>7. fresh \in BOOLEAN  BY DEF TypeOK
<1>. QED  BY <1>1, <1>2, <1>3, <1>4, <1>5, <1>6, <1>7

\* The parts of TypeOK, in groups that a step treats alike.
ObjectTypes == /\ dc \in DC
               /\ pvc \in Partial(Storages, Quantities)
               /\ routes \in Partial(Urls, Ports)
               /\ build \in SUBSET (Refs \cup {None}) /\ Cardinality(build) <= 1
               /\ objects \subseteq Objects
CommandTypes == /\ seen \in DC /\ want \in Config
                /\ left \subseteq Storages \cup Urls
                /\ fresh \in BOOLEAN
FlowTypes == /\ pc \in PushSteps \cup Range(Kinds) \cup {"idle", "find"}
             /\ clean \in BOOLEAN
             /\ result \in {"none", "running", "pushed", "deleted", "failed"}
             /\ faults \in 0..MaxFaults

LEMMA TypeParts ==
    /\ TypeOK <=> ObjectTypes /\ CommandTypes /\ FlowTypes
    /\ TypeOK' <=> ObjectTypes' /\ CommandTypes' /\ FlowTypes'
BY DEF TypeOK, ObjectTypes, CommandTypes, FlowTypes

\* The end of a command, and a step to the next call.
LEMMA EndTypes ==
    ASSUME TypeOK, NEW r \in {"none", "running", "pushed", "deleted", "failed"},
           EndsWith(r), clean' \in BOOLEAN, faults' \in 0..MaxFaults
    PROVE  CommandTypes' /\ FlowTypes'
BY DCFacts DEF TypeOK, EndsWith, CommandTypes, FlowTypes

LEMMA FailTypes ==
    ASSUME TypeOK, Fails
    PROVE  CommandTypes' /\ FlowTypes'
BY EndTypes DEF TypeOK, Fails

LEMMA GotoTypes ==
    ASSUME TypeOK, NEW next \in PushSteps \cup Range(Kinds), Goto(next)
    PROVE  FlowTypes'
BY DEF TypeOK, Goto, FlowTypes

LEMMA SameTypes ==
    ASSUME TypeOK
    PROVE  /\ UNCHANGED command => CommandTypes'
           /\ UNCHANGED <<want, seen, fresh>> /\ left' \subseteq Storages \cup Urls
                => CommandTypes'
           /\ UNCHANGED cluster => ObjectTypes'
BY DEF TypeOK, command, cluster, CommandTypes, ObjectTypes

\* The end of the URLs.
LEMMA UrlsTypes ==
    ASSUME TypeOK, UrlsFrom \/ AfterUrls \/ UrlDeleteFrom(routes) \/ UrlDeleteFrom(routes'),
           routes' \in Partial(Urls, Ports)
    PROVE  CommandTypes' /\ FlowTypes'
<1>1. /\ seen' \in {seen, NoDC} /\ fresh' \in BOOLEAN
      /\ pc' \in LateSteps \cup {"idle"}
      /\ want' = want /\ clean' = clean /\ faults' = faults
      /\ left' \subseteq Storages \cup Urls
      /\ result' \in {result, "pushed"}
  BY UrlsFromTypes
<1>2. LateSteps \subseteq PushSteps  BY DEF LateSteps, PushSteps
<1>. QED  BY <1>1, <1>2, DCFacts DEF TypeOK, CommandTypes, FlowTypes

\* Of the storage part of a push: the claims have the sizes of the configuration.
LEMMA StorageTypes ==
    ASSUME TypeOK
    PROVE  /\ CheckExists => TypeOK'
           /\ \A s \in Storages : StorageDelete(s) \/ StorageCreate(s) => TypeOK'
<1>. USE TypeParts
<1>0. want \in Config /\ dc \in DC  BY DEF TypeOK
<1>1. /\ ToMount(dc) \subseteq Storages /\ Mounted(dc) \subseteq Storages
  BY <1>0, StoragesKnown
<1>2. /\ pvc \in [Storages -> Quantities \cup {None}]
      /\ want.storage \in [Storages -> Sizes \cup {None}]
  BY <1>0 DEF TypeOK, Partial, Config
<1>3. {"getDC", "imageStream", "storageDelete", "storageCreate"} \subseteq PushSteps
  BY DEF PushSteps
<1>4. StorageCreateFrom => FlowTypes' /\ left' \subseteq Storages
  <2>1. SUFFICES ASSUME StorageCreateFrom PROVE FlowTypes' /\ left' \subseteq Storages
    OBVIOUS
  <2>2. left' \subseteq Storages  BY <1>1, <2>1 DEF StorageCreateFrom
  <2>3. \E next \in PushSteps : Goto(next)
    BY <1>3, <2>1 DEF StorageCreateFrom, AfterStorage
  <2>. QED  BY <2>2, <2>3, GotoTypes
<1>5. ASSUME CheckExists PROVE TypeOK'
  <2>1. ObjectTypes'  BY <1>5, SameTypes DEF CheckExists
  <2>2. CASE Fails  BY <2>1, <2>2, FailTypes
  <2>3. CASE StorageCreateFrom /\ UNCHANGED <<want, seen, fresh>>
    BY <1>4, <2>1, <2>3, SameTypes
  <2>4. CASE left' = Mounted(dc) /\ Goto("storageDelete") /\ UNCHANGED <<want, seen, fresh>>
    BY <1>1, <1>3, <2>1, <2>4, GotoTypes, SameTypes
  <2>. QED  BY <1>5, <2>2, <2>3, <2>4 DEF CheckExists
<1>6. ASSUME NEW s \in Storages, Visit(s), pc \in PushSteps
      PROVE  FlowTypes' /\ left' \subseteq Storages \cup Urls
  BY <1>6, GotoTypes DEF Visit, TypeOK
<1>7. ASSUME NEW s \in Storages, StorageDelete(s) PROVE TypeOK'
  <2>1. pvc' \in [Storages -> Quantities \cup {None}] /\ UNCHANGED <<dc, routes, build, objects>>
    BY <1>2, <1>7 DEF StorageDelete
  <2>2. ObjectTypes'  BY <2>1 DEF ObjectTypes, TypeOK, Partial
  <2>3. CASE Fails  BY <2>2, <2>3, FailTypes
  <2>4. CASE StorageCreateFrom /\ UNCHANGED <<want, seen, fresh>>
    BY <1>4, <2>2, <2>4, SameTypes
  <2>5. CASE Visit(s) /\ UNCHANGED <<want, seen, fresh>>
    <3>1. pc \in PushSteps  BY <1>7 DEF StorageDelete, PushSteps
    <3>. QED  BY <1>6, <2>2, <2>5, <3>1, SameTypes
  <2>. QED  BY <1>7, <2>3, <2>4, <2>5 DEF StorageDelete
<1>8. ASSUME NEW s \in Storages, StorageCreate(s) PROVE TypeOK'
  <2>1. pvc' \in [Storages -> Quantities \cup {None}] /\ UNCHANGED <<dc, routes, build, objects>>
    BY <1>2, <1>8, SizeFacts DEF StorageCreate
  <2>2. ObjectTypes'  BY <2>1 DEF ObjectTypes, TypeOK, Partial
  <2>3. CASE Fails  BY <2>2, <2>3, FailTypes
  <2>4. CASE left' = {} /\ Goto(AfterStorage) /\ UNCHANGED <<want, seen, fresh>>
    <3>1. AfterStorage \in PushSteps  BY <1>3 DEF AfterStorage
    <3>. QED  BY <2>2, <2>4, <3>1, GotoTypes, SameTypes
  <2>5. CASE Visit(s) /\ UNCHANGED <<want, seen, fresh>>
    <3>1. pc \in PushSteps  BY <1>8 DEF StorageCreate, PushSteps
    <3>. QED  BY <1>6, <2>2, <2>5, <3>1, SameTypes
  <2>. QED  BY <1>8, <2>3, <2>4, <2>5 DEF StorageCreate
<1>. QED  BY <1>5, <1>7, <1>8

\* Of the steps that create, update or delete one object, or none.
LEMMA ObjectStepTypes ==
    ASSUME TypeOK,
           \/ CreateImageStream \/ CreateBuildConfig \/ CreateService
           \/ CreateSecrets \/ CreateRoot \/ UpdateBuildConfig
           \/ DeleteBuildConfig \/ Build \/ Rollout \/ DeleteRoot \/ PushSource
           \/ GetDC
    PROVE  TypeOK'
<1>. USE TypeParts
<1>1. /\ {"imageStream", "service", "secrets", "root"} = Objects
      /\ want.ref \in Refs \cup {None}
  BY DEF Objects, TypeOK, Config
<1>2. /\ UNCHANGED <<dc, pvc, routes>>
      /\ build' \in {build, {}, {None}, {want.ref}}
      /\ objects' \subseteq Objects
  BY <1>1 DEF CreateImageStream, CreateBuildConfig, CreateService, CreateSecrets,
         CreateRoot, UpdateBuildConfig, DeleteBuildConfig, Build, Rollout,
         DeleteRoot, PushSource, GetDC, CreateObject, cluster, TypeOK
<1>3. ObjectTypes'
  <2>1. /\ build' \in SUBSET (Refs \cup {None})
        /\ build' = build \/ build' = {} \/ \E r : build' = {r}
    BY <1>1, <1>2 DEF TypeOK
  <2>2. Cardinality({}) = 0 /\ \A r : Cardinality({r}) = 1  BY FS_EmptySet, FS_Singleton
  <2>3. Cardinality(build') <= 1
    <3>1. CASE build' = build  BY <3>1 DEF TypeOK
    <3>2. CASE build' = {}
      <4>1. Cardinality(build') = 0  BY <2>2, <3>2
      <4>. QED  BY <4>1
    <3>3. ASSUME NEW r, build' = {r} PROVE Cardinality(build') <= 1
      <4>1. Cardinality(build') = 1  BY <2>2, <3>3
      <4>. QED  BY <4>1
    <3>. QED  BY <2>1, <3>1, <3>2, <3>3
  <2>. QED  BY <1>2, <2>1, <2>3 DEF ObjectTypes, TypeOK
<1>4. routes' \in Partial(Urls, Ports)  BY <1>2 DEF TypeOK
<1>5. CASE Fails  BY <1>3, <1>5, FailTypes
<1>6. CASE UrlsFrom  BY <1>3, <1>4, <1>6, UrlsTypes
<1>7. CASE EndsWith("pushed") /\ UNCHANGED <<clean, faults>>
  BY <1>3, <1>7, EndTypes DEF TypeOK
<1>8. CASE \E next \in PushSteps : Goto(next) /\ CommandTypes'
  BY <1>3, <1>8, GotoTypes
<1>9. UNCHANGED command => CommandTypes'  BY SameTypes
<1>10. GetDC => CommandTypes'
  BY DEF GetDC, TypeOK, CommandTypes
<1>11. /\ \A o, next : CreateObject(o, next) => Fails \/ (Goto(next) /\ UNCHANGED command)
  BY DEF CreateObject
<1>12. {"createBuildConfig", "createDC", "secrets", "build", "root", "patchDC",
        "rollout", "deleteRoot", "deleteBuildConfig", "updateBuildConfig"}
          \subseteq PushSteps
  BY DEF PushSteps
<1>. HIDE DEF PushSteps, Goto, Fails, UrlsFrom, EndsWith, CommandTypes
<1>13. CASE CreateImageStream
  <2>1. \E next \in PushSteps : CreateObject("imageStream", next)
    BY <1>12, <1>13 DEF CreateImageStream
  <2>. QED  BY <1>5, <1>8, <1>9, <1>11, <2>1
<1>14. CASE CreateService
  BY <1>5, <1>8, <1>9, <1>11, <1>12, <1>14 DEF CreateService
<1>15. CASE CreateSecrets
  <2>1. \E next \in PushSteps : CreateObject("secrets", next)
    BY <1>12, <1>15 DEF CreateSecrets
  <2>. QED  BY <1>5, <1>8, <1>9, <1>11, <2>1
<1>16. CASE CreateRoot
  BY <1>5, <1>6, <1>8, <1>9, <1>11, <1>12, <1>16 DEF CreateRoot
<1>17. CASE CreateBuildConfig
  BY <1>5, <1>8, <1>9, <1>12, <1>17 DEF CreateBuildConfig
<1>18. CASE UpdateBuildConfig
  BY <1>5, <1>8, <1>9, <1>12, <1>18 DEF UpdateBuildConfig
<1>19. CASE DeleteBuildConfig
  BY <1>8, <1>9, <1>12, <1>19 DEF DeleteBuildConfig
<1>20. CASE Build
  BY <1>8, <1>9, <1>12, <1>20 DEF Build
<1>21. CASE Rollout
  BY <1>5, <1>6, <1>8, <1>9, <1>12, <1>21 DEF Rollout
<1>22. CASE DeleteRoot
  BY <1>5, <1>6, <1>22 DEF DeleteRoot
<1>23. CASE PushSource
  BY <1>5, <1>7, <1>23 DEF PushSource
<1>24. CASE GetDC
  BY <1>8, <1>10, <1>12, <1>24 DEF GetDC
<1>. QED
  BY <1>13, <1>14, <1>15, <1>16, <1>17, <1>18, <1>19, <1>20, <1>21, <1>22, <1>23, <1>24

\* Of the steps that write the DeploymentConfig.
LEMMA CreateDCTypes ==
    ASSUME TypeOK, CreateDC
    PROVE  TypeOK'
<1>1. want \in Config /\ want.source \in {"none", "local", "git"} /\ want.env \in Envs \cup {None}
  BY SourcesAssumption DEF TypeOK, Config
<1>2. PICK order \in Orders(ToMount(NoDC)) :
        dc' = [source |-> want.source, mounts |-> order, env |-> want.env, links |-> {}]
  BY DEF CreateDC
<1>3. ToMount(NoDC) \in SUBSET Storages  BY <1>1, DCFacts, StoragesKnown
<1>4. order \in Seq(Storages)  BY <1>3, StoragesAssumption, OrderFacts
<1>5. dc' \in DC  BY <1>1, <1>2, <1>4 DEF DC
<1>6. ObjectTypes'  BY <1>5 DEF CreateDC, TypeOK, ObjectTypes
<1>7. CommandTypes'  BY SameTypes DEF CreateDC, command
<1>8. FlowTypes'
  <2>1. "service" \in PushSteps  BY DEF PushSteps
  <2>. QED  BY <2>1, GotoTypes DEF CreateDC
<1>. QED  BY <1>6, <1>7, <1>8, TypeParts

LEMMA PatchDCTypes ==
    ASSUME TypeOK, PatchDC
    PROVE  TypeOK'
<1>0. UNCHANGED <<pvc, routes, build, objects>>  BY DEF PatchDC
<1>1. /\ want \in Config /\ want.source \in {"none", "local", "git"}
      /\ seen \in DC /\ seen.links \subseteq Secrets
  BY SourcesAssumption DEF TypeOK, Config, DC
<1>2. CASE Fails /\ UNCHANGED dc
  <2>1. ObjectTypes'  BY <1>0, <1>2 DEF TypeOK, ObjectTypes
  <2>. QED  BY <1>2, <2>1, FailTypes, TypeParts
<1>3. ASSUME NEW order \in Orders(ToMount(seen)),
             dc' = [source |-> want.source,
                    mounts |-> Slice(Unmount(seen.mounts, ToUnmount(seen))) \o order,
                    env |-> None, links |-> LinksKept],
             UrlsFrom \/ (Goto("rollout") /\ UNCHANGED command)
      PROVE  TypeOK'
  <2>. DEFINE mounts == Slice(Unmount(seen.mounts, ToUnmount(seen))) \o order
  <2>1. mounts \in Seq(Storages)  BY <1>1, NewMounts
  <2>2. LinksKept \subseteq Secrets  BY <1>1 DEF LinksKept
  <2>. HIDE DEF mounts
  <2>3. dc' = [source |-> want.source, mounts |-> mounts, env |-> None, links |-> LinksKept]
    BY <1>3 DEF mounts
  <2>4. dc' \in DC  BY <1>1, <2>1, <2>2, <2>3 DEF DC
  <2>5. ObjectTypes'  BY <1>0, <2>4 DEF TypeOK, ObjectTypes
  <2>6. CASE UrlsFrom
    <3>1. routes' \in Partial(Urls, Ports)  BY <1>0 DEF TypeOK
    <3>. QED  BY <2>5, <2>6, <3>1, UrlsTypes, TypeParts
  <2>7. CASE Goto("rollout") /\ UNCHANGED command
    <3>1. "rollout" \in PushSteps  BY DEF PushSteps
    <3>. QED  BY <2>5, <2>7, <3>1, GotoTypes, SameTypes, TypeParts
  <2>. QED  BY <1>3, <2>6, <2>7
<1>. QED  BY <1>2, <1>3 DEF PatchDC

\* Of the steps that create and delete routes.
LEMMA UrlTypes ==
    ASSUME TypeOK, NEW u \in Urls, UrlCreate(u) \/ UrlDelete(u)
    PROVE  TypeOK'
<1>1. /\ routes \in [Urls -> Ports \cup {None}]
      /\ want.urls \in [Urls -> Ports \cup {None}]
  BY DEF TypeOK, Config, Partial
<1>2. /\ UNCHANGED <<dc, pvc, build, objects>>
      /\ routes' \in Partial(Urls, Ports)
  BY <1>1 DEF UrlCreate, UrlDelete, UrlCreated, Partial
<1>3. ObjectTypes'  BY <1>2 DEF TypeOK, ObjectTypes
<1>4. CASE AfterUrls \/ UrlDeleteFrom(routes')
  BY <1>2, <1>3, <1>4, UrlsTypes, TypeParts
<1>5. CASE Visit(u) /\ UNCHANGED <<want, seen, fresh>>
  <2>1. pc \in PushSteps  BY DEF UrlCreate, UrlDelete, PushSteps
  <2>2. Goto(pc) /\ left' \subseteq Storages \cup Urls  BY <1>5 DEF Visit, TypeOK
  <2>. QED  BY <1>3, <1>5, <2>1, <2>2, GotoTypes, SameTypes, TypeParts
<1>. QED  BY <1>4, <1>5 DEF UrlCreate, UrlDelete

\* Of a delete.
LEMMA DeleteTypes ==
    ASSUME TypeOK, NEW i \in 1..7, DeleteStep(i)
    PROVE  TypeOK'
<1>. USE KindsFacts
<1>2. ObjectTypes'
  <2>1. CASE UNCHANGED cluster  BY <2>1, SameTypes
  <2>2. CASE DeleteKind(pc)
    <3>1. dc' \in DC /\ objects' \subseteq Objects
      BY <2>2, DCFacts DEF DeleteKind, TypeOK
    <3>2. /\ pvc' \in [Storages -> Quantities \cup {None}]
          /\ routes' \in [Urls -> Ports \cup {None}]
      BY <2>2 DEF DeleteKind, TypeOK, Partial
    <3>3. build' \in SUBSET (Refs \cup {None}) /\ Cardinality(build') <= 1
      <4>1. CASE build' = build  BY <4>1 DEF TypeOK
      <4>2. CASE build' = {}
        <5>1. Cardinality(build') = 0  BY <4>2, FS_EmptySet
        <5>. QED  BY <4>2, <5>1
      <4>. QED  BY <2>2, <4>1, <4>2 DEF DeleteKind
    <3>. QED  BY <3>1, <3>2, <3>3 DEF ObjectTypes, Partial
  <2>. QED  BY <2>1, <2>2 DEF DeleteStep
<1>3. clean' \in BOOLEAN /\ faults' \in 0..MaxFaults
  <2>1. faults \in 0..MaxFaults /\ clean \in BOOLEAN  BY DEF TypeOK
  <2>2. \/ clean' = clean /\ faults' = faults
        \/ faults < MaxFaults /\ faults' = faults + 1 /\ clean' = FALSE
    BY DEF DeleteStep
  <2>3. faults' \in 0..MaxFaults  BY <2>1, <2>2, FaultsAssumption
  <2>4. clean' \in BOOLEAN  BY <2>1, <2>2
  <2>. QED  BY <2>3, <2>4
<1>4. PICK r \in {result, "failed"} : DeleteNext(i, r)  BY DEF DeleteStep
<1>5. r \in {"none", "running", "pushed", "deleted", "failed"}
  BY <1>4 DEF TypeOK
<1>6. CASE i < 7
  <2>1. pc' = Kinds[i + 1] /\ result' = r /\ UNCHANGED command
    BY <1>4, <1>6 DEF DeleteNext
  <2>2. pc' \in Range(Kinds)  BY <1>6, <2>1 DEF Range
  <2>3. FlowTypes'  BY <1>3, <1>5, <2>1, <2>2 DEF FlowTypes
  <2>. QED  BY <1>2, <2>1, <2>3, SameTypes, TypeParts
<1>7. CASE i = 7
  <2>1. EndsWith(IF r = "running" THEN "deleted" ELSE r)
    BY <1>4, <1>7 DEF DeleteNext
  <2>2. (IF r = "running" THEN "deleted" ELSE r)
          \in {"none", "running", "pushed", "deleted", "failed"}
    BY <1>5
  <2>. QED  BY <1>2, <1>3, <2>1, <2>2, EndTypes, TypeParts
<1>. QED  BY <1>6, <1>7

\* Of the beginning and the interruption of a command, and of other clients.
LEMMA OtherTypes ==
    ASSUME TypeOK, Begins \/ Find \/ Stop \/ \E s \in Secrets : Link(s) \/ Unlink(s)
    PROVE  TypeOK'
<1>1. CASE Begins
  <2>1. CASE Delete
    BY <2>1 DEF Delete, TypeOK, cluster, command
  <2>2. ASSUME NEW c \in Config, Push(c) PROVE TypeOK'
    <3>1. /\ pc' = "exists" /\ want' = c /\ result' = "running"
          /\ UNCHANGED <<cluster, left, seen, fresh, clean, faults>>
      BY <2>2 DEF Push
    <3>2. "exists" \in PushSteps  BY DEF PushSteps
    <3>. HIDE DEF Config, DC
    <3>. QED  BY <3>1, <3>2 DEF TypeOK, cluster
  <2>. QED  BY <1>1, <2>1, <2>2 DEF Begins
<1>2. CASE Find
  <2>1. ObjectTypes'  BY <1>2, SameTypes DEF Find
  <2>2. CASE Fails  BY <2>1, <2>2, FailTypes, TypeParts
  <2>3. CASE Goto(Kinds[1]) /\ UNCHANGED command
    <3>1. Kinds[1] \in Range(Kinds)  BY KindsFacts
    <3>. QED  BY <2>1, <2>3, <3>1, GotoTypes, SameTypes, TypeParts
  <2>. QED  BY <1>2, <2>2, <2>3 DEF Find
<1>3. CASE Stop
  <2>1. ObjectTypes'  BY <1>3, SameTypes DEF Stop
  <2>2. clean' \in BOOLEAN /\ faults' \in 0..MaxFaults
    <3>1. faults \in 0..MaxFaults /\ clean \in BOOLEAN  BY DEF TypeOK
    <3>2. /\ faults < MaxFaults /\ faults' = faults + 1
          /\ clean' = (clean /\ pc \in {"exists", "find"})
      BY <1>3 DEF Stop
    <3>. QED  BY <3>1, <3>2, FaultsAssumption
  <2>. QED  BY <1>3, <2>1, <2>2, EndTypes, TypeParts DEF Stop
<1>4. ASSUME NEW s \in Secrets, Link(s) \/ Unlink(s) PROVE TypeOK'
  <2>1. dc' \in DC  BY <1>4, DCFacts DEF Link, Unlink, TypeOK
  <2>2. /\ UNCHANGED <<pvc, routes, build, objects, pc, want, left, seen, result,
                       clean, faults>>
        /\ fresh' = FALSE
    BY <1>4 DEF Link, Unlink
  <2>. QED  BY <2>1, <2>2 DEF TypeOK
<1>. QED  BY <1>1, <1>2, <1>3, <1>4

\* Every reachable state has its type; in particular the mounts that an update
\* computes are storages of the model, whatever the loop has skipped.
THEOREM TypeCorrect == Spec => []TypeOK
<1>1. Init => TypeOK
  <2>1. SUFFICES ASSUME Init PROVE TypeOK  OBVIOUS
  <2>2. dc \in DC /\ seen \in DC  BY <2>1, DCFacts DEF Init
  <2>3. /\ pvc \in Partial(Storages, Quantities) /\ routes \in Partial(Urls, Ports)
    BY <2>1 DEF Init, Partial
  <2>4. build = {} /\ Cardinality(build) = 0  BY <2>1, FS_EmptySet DEF Init
  <2>5. Cardinality(build) <= 1  BY <2>4
  <2>6. /\ objects = {} /\ pc = "idle" /\ want \in Config /\ left = {}
        /\ fresh = FALSE /\ clean = TRUE /\ result = "none" /\ faults = 0
    BY <2>1 DEF Init
  <2>7. 0 \in 0..MaxFaults  BY FaultsAssumption
  <2>8. FlowTypes  BY <2>6, <2>7 DEF FlowTypes
  <2>9. CommandTypes  BY <2>2, <2>6 DEF CommandTypes
  <2>10. ObjectTypes  BY <2>2, <2>3, <2>4, <2>5, <2>6 DEF ObjectTypes
  <2>. QED  BY <2>8, <2>9, <2>10, TypeParts
<1>2. TypeOK /\ [Next]_vars => TypeOK'
  <2>1. SUFFICES ASSUME TypeOK, [Next]_vars PROVE TypeOK'  OBVIOUS
  <2>2. CASE UNCHANGED vars  BY <2>1, <2>2 DEF vars, TypeOK
  <2>3. CASE PushStep
    BY <2>1, <2>3, StorageTypes, ObjectStepTypes, CreateDCTypes, PatchDCTypes, UrlTypes
       DEF PushStep
  <2>4. CASE \E i \in DOMAIN Kinds : DeleteStep(i)
    BY <2>1, <2>4, DeleteTypes, KindsFacts
  <2>. QED  BY <2>1, <2>2, <2>3, <2>4, OtherTypes DEF Next
<1>. QED  BY <1>1, <1>2, PTL DEF Spec

----------------------------------------------------------------------------
(* What a push does, step by step                                           *)

PushInv == /\ TypeOK /\ ReadInv
           /\ StorageInv /\ SourceInv /\ RoutesInv /\ PushedMatchesConfig

\* Outside the storage part only the writes of the DeploymentConfig matter.
LEMMA StorageElsewhere ==
    ASSUME StorageInv,
           \/ pc' \notin {"storageDelete", "storageCreate"} \cup Stored
           \/ /\ pc \in Stored /\ pc' \notin {"storageDelete", "storageCreate"}
              /\ dc'.mounts = dc.mounts /\ pvc' = pvc /\ want' = want
    PROVE  StorageInv'
<1>1. CASE pc' \notin {"storageDelete", "storageCreate"} \cup Stored
  BY <1>1 DEF StorageInv
<1>2. CASE /\ pc \in Stored /\ pc' \notin {"storageDelete", "storageCreate"}
           /\ dc'.mounts = dc.mounts /\ pvc' = pvc /\ want' = want
  BY <1>2 DEF StorageInv, AsWanted, Mounted, Defined
<1>. QED  BY <1>1, <1>2

\* A pod that can run mounts only claims that are there, and those are the ones
\* of the configuration.
LEMMA RunningMatches ==
    ASSUME NEW w \in Config, NEW d \in DC, NEW p,
           Defined(w.storage) \subseteq Mounted(d),
           \A s \in Mounted(d) : p[s] # None /\ p[s] = Canonical[w.storage[s]]
    PROVE  Mounted(d) = Defined(w.storage)
<1>1. d.mounts \in Seq(Storages)  BY DEF DC
<1>2. \A s \in Mounted(d) : s \in Storages
  BY <1>1, ElementOfSeq, LenProperties DEF Mounted, Range
<1>3. DOMAIN w.storage = Storages  BY DEF Config, Partial
<1>. QED  BY <1>2, <1>3, SizeFacts DEF Defined

\* How the URLs of a push go on: create, delete, copy the sources, or the end.
UrlSteps(r) ==
  /\ want' = want /\ clean' = clean
  /\ \/ /\ pc' = "urlDelete" /\ left' = Surplus(r) /\ left' # {}
        /\ seen' = seen /\ result' = result
     \/ /\ pc' = "source" /\ want.source = "local" /\ Surplus(r) = {}
        /\ result' = result
     \/ /\ pc' = "idle" /\ want.source # "local" /\ Surplus(r) = {}
        /\ seen' = NoDC /\ result' = "pushed"

LEMMA UrlDeleteFromSteps == ASSUME NEW r, UrlDeleteFrom(r) PROVE UrlSteps(r)
BY DEF UrlDeleteFrom, AfterUrls, UrlSteps, Goto, EndsWith

LEMMA UrlsFromSteps ==
    ASSUME UrlsFrom
    PROVE  \/ Defined(want.urls) = {} /\ UrlSteps(routes)
           \/ /\ pc' = "urlCreate" /\ left' = Defined(want.urls) /\ left' # {}
              /\ want' = want /\ seen' = seen /\ clean' = clean /\ result' = result
BY UrlDeleteFromSteps DEF UrlsFrom, Goto

\* Where a push may go to its URLs, it has written what the configuration asks
\* for; with git sources its pod runs.
Ready == /\ Written
         /\ AsWanted(Mounted(dc) \cup Defined(want.storage))
         /\ want.source = "git" => build # {} /\ PodCanRun

LEMMA ReachesUrls ==
    ASSUME TypeOK, Ready', NEW r, r = routes', UrlSteps(r),
           Defined(want.urls) \subseteq Defined(r), TypeOK'
    PROVE  StorageInv' /\ SourceInv' /\ RoutesInv' /\ PushedMatchesConfig'
<1>. USE DEF UrlSteps
<1>1. want.source \in {"local", "git"}  BY SourcesAssumption DEF TypeOK, Config
<1>2. StorageInv'  BY DEF StorageInv, Ready, Stored
<1>3. SourceInv'
  BY DEF SourceInv, Ready, LateSteps, Unread, Updates
<1>4. RoutesInv'
  <2>1. Surplus(r) = {} => Defined(r) = Defined(want.urls)  BY DEF Surplus
  <2>. QED  BY <2>1 DEF RoutesInv, Surplus
<1>5. PushedMatchesConfig'
  <2>1. SUFFICES ASSUME pc' = "idle" PROVE PushedMatchesConfig'
    BY DEF PushedMatchesConfig, Idle
  <2>2. want.source = "git" /\ Surplus(r) = {}  BY <1>1, <2>1
  <2>3. PodCanRun' /\ build' # {}  BY <2>2 DEF Ready
  <2>4. /\ \A s \in Mounted(dc') : pvc'[s] # None /\ pvc'[s] = Canonical[want'.storage[s]]
        /\ Defined(want'.storage) \subseteq Mounted(dc')
    BY <2>3 DEF Ready, Written, AsWanted, PodCanRun, Readable
  <2>5. Mounted(dc') = Defined(want'.storage)
    BY <2>4, RunningMatches DEF TypeOK
  <2>6. Defined(routes)' = Defined(want.urls)'  BY <2>2 DEF Surplus
  <2>. QED  BY <2>3, <2>4, <2>5, <2>6 DEF PushedMatchesConfig, Ready, Written
<1>. QED  BY <1>2, <1>3, <1>4, <1>5

\* What is left to show of a step, whose types are known.
PushGoal == StorageInv' /\ SourceInv' /\ RoutesInv' /\ PushedMatchesConfig'

\* A command that fails or stops promises nothing.
LEMMA FailureKeeps ==
    ASSUME pc' = "idle", seen' = NoDC, result' # "pushed"
    PROVE  PushGoal
BY DEF PushGoal, StorageInv, SourceInv, RoutesInv, PushedMatchesConfig, Idle,
       Stored, PushSteps, Unread, Updates, LateSteps

LEMMA FailsKeeps == ASSUME Fails PROVE PushGoal
BY FailureKeeps DEF Fails, EndsWith

\* A step of a creation or an update, with its sources and objects; the storage
\* is done and the URLs are not yet begun.
LEMMA MiddleKeeps ==
    ASSUME PushInv, pc \in Stored, want' = want, pvc' = pvc,
           dc'.mounts = dc.mounts,
           pc' \in Stored \ {"urlCreate", "urlDelete", "source"}, SourceInv'
    PROVE  PushGoal
<1>1. StorageInv'  BY StorageElsewhere DEF PushInv, Stored
<1>2. RoutesInv' /\ PushedMatchesConfig'
  BY DEF RoutesInv, PushedMatchesConfig, Idle, Stored, PushSteps
<1>. QED  BY <1>1, <1>2 DEF PushGoal

\* A push that goes on to its URLs.
LEMMA UrlsKeep ==
    ASSUME PushInv, TypeOK', UrlsFrom, Ready', routes' = routes
    PROVE  PushGoal
<1>1. CASE Defined(want.urls) = {} /\ UrlSteps(routes)
  BY <1>1, ReachesUrls DEF PushInv, PushGoal
<1>2. CASE /\ pc' = "urlCreate" /\ left' = Defined(want.urls) /\ left' # {}
           /\ want' = want
  <2>1. StorageInv'  BY <1>2 DEF StorageInv, Ready, Stored
  <2>2. SourceInv'  BY <1>2 DEF SourceInv, Ready, LateSteps, Unread, Updates
  <2>3. RoutesInv' /\ PushedMatchesConfig'
    BY <1>2 DEF RoutesInv, PushedMatchesConfig, Idle
  <2>. QED  BY <2>1, <2>2, <2>3 DEF PushGoal
<1>. QED  BY <1>1, <1>2, UrlsFromSteps

\* The storage part is over: all claims are as wanted.
LEMMA StorageDoneKeeps ==
    ASSUME PushInv, seen' = seen, want' = want, dc' = dc, seen = NoDC,
           AsWanted(Mounted(dc) \cup Defined(want.storage))',
           pc' = AfterStorage
    PROVE  PushGoal
<1>1. StorageInv'  BY DEF StorageInv, AfterStorage
<1>2. SourceInv' /\ RoutesInv' /\ PushedMatchesConfig'
  BY DEF SourceInv, RoutesInv, PushedMatchesConfig, Idle, AfterStorage, Unread,
         Updates, LateSteps
<1>. QED  BY <1>1, <1>2 DEF PushGoal

\* The claims of the mounts are visited; the new ones come next.
LEMMA StorageCreateFromKeeps ==
    ASSUME PushInv, StorageCreateFrom, UNCHANGED <<dc, want, seen>>, seen = NoDC,
           AsWanted(Mounted(dc))'
    PROVE  PushGoal
<1>1. CASE ToMount(dc) = {}
  <2>1. pc' = AfterStorage  BY <1>1 DEF StorageCreateFrom, Goto
  <2>2. Defined(want.storage) \subseteq Mounted(dc)  BY <1>1 DEF ToMount
  <2>3. AsWanted(Mounted(dc) \cup Defined(want.storage))'
    BY <2>2 DEF AsWanted
  <2>. QED  BY <2>1, <2>3, StorageDoneKeeps
<1>2. CASE ToMount(dc) # {}
  <2>1. /\ pc' = "storageCreate" /\ left' = ToMount(dc) /\ left' # {}
    BY <1>2 DEF StorageCreateFrom, Goto
  <2>2. StorageInv'
    BY <2>1 DEF StorageInv, AsWanted, ToMount, Stored
  <2>3. SourceInv' /\ RoutesInv' /\ PushedMatchesConfig'
    BY <2>1 DEF SourceInv, RoutesInv, PushedMatchesConfig, Idle, Unread,
                Updates, LateSteps
  <2>. QED  BY <2>2, <2>3 DEF PushGoal
<1>. QED  BY <1>1, <1>2

LEMMA CheckExistsKeeps == ASSUME PushInv, CheckExists PROVE PushGoal
<1>1. pc = "exists" /\ UNCHANGED cluster /\ seen = NoDC
  BY DEF CheckExists, PushInv, SourceInv, Unread
<1>2. CASE Fails  BY <1>2, FailsKeeps
<1>3. CASE Mounted(dc) = {} /\ StorageCreateFrom /\ UNCHANGED <<want, seen, fresh>>
  <2>1. AsWanted(Mounted(dc))'  BY <1>1, <1>3 DEF AsWanted, cluster
  <2>. QED  BY <1>1, <1>3, <2>1, StorageCreateFromKeeps DEF cluster
<1>4. CASE /\ Mounted(dc) # {} /\ left' = Mounted(dc) /\ Goto("storageDelete")
           /\ UNCHANGED <<want, seen, fresh>>
  <2>1. pc' = "storageDelete" /\ Mounted(dc)' = Mounted(dc)
    BY <1>1, <1>4 DEF Goto, cluster
  <2>2. StorageInv'  BY <1>4, <2>1 DEF StorageInv, AsWanted, Stored
  <2>3. SourceInv' /\ RoutesInv' /\ PushedMatchesConfig'
    BY <1>1, <1>4, <2>1 DEF SourceInv, RoutesInv, PushedMatchesConfig, Idle, Unread,
                Updates, LateSteps
  <2>. QED  BY <2>2, <2>3 DEF PushGoal
<1>. QED  BY <1>2, <1>3, <1>4 DEF CheckExists

LEMMA StorageDeleteKeeps ==
    ASSUME PushInv, NEW s \in Storages, StorageDelete(s) PROVE PushGoal
<1>1. /\ pc = "storageDelete" /\ s \in left /\ UNCHANGED <<dc, routes, build, objects>>
      /\ seen = NoDC /\ left \subseteq Mounted(dc) /\ AsWanted(Mounted(dc) \ left)
  BY DEF StorageDelete, PushInv, SourceInv, StorageInv, Unread
<1>2. CASE Fails  BY <1>2, FailsKeeps
<1>3. CASE ~Fails
  <2>1. /\ want.storage[s] \in {None, pvc[s]}
        /\ pvc' = IF want.storage[s] = None THEN [pvc EXCEPT ![s] = None] ELSE pvc
        /\ UNCHANGED <<want, seen, fresh>>
    BY <1>3 DEF StorageDelete
  <2>2. pvc \in [Storages -> Quantities \cup {None}]  BY DEF PushInv, TypeOK, Partial
  <2>3. pvc'[s] = Canonical[want.storage[s]] /\ \A r \in Storages \ {s} : pvc'[r] = pvc[r]
    BY <2>1, <2>2, SizeFacts
  <2>4. Mounted(dc) \subseteq Storages  BY StoragesKnown DEF PushInv, TypeOK
  <2>6. CASE left = {s} /\ StorageCreateFrom
    <3>1. \A r \in Mounted(dc) : r = s \/ r \in Mounted(dc) \ left  BY <2>6
    <3>2. AsWanted(Mounted(dc))'
      BY <1>1, <2>1, <2>3, <2>4, <3>1 DEF AsWanted
    <3>. QED  BY <1>1, <2>1, <2>6, <3>2, StorageCreateFromKeeps
  <2>7. CASE left # {s} /\ Visit(s)
    <3>1. /\ pc' = "storageDelete" /\ left' = left \ {s} /\ left' # {}
          /\ Mounted(dc)' = Mounted(dc)
      BY <1>1, <2>7 DEF Visit, Goto
    <3>2. AsWanted(Mounted(dc) \ left)'
      BY <1>1, <2>1, <2>3, <2>4, <3>1 DEF AsWanted
    <3>3. StorageInv'
      BY <1>1, <3>1, <3>2 DEF StorageInv, Stored
    <3>4. SourceInv' /\ RoutesInv' /\ PushedMatchesConfig'
      BY <1>1, <2>1, <3>1 DEF SourceInv, RoutesInv, PushedMatchesConfig, Idle,
                              Unread, Updates, LateSteps
    <3>. QED  BY <3>3, <3>4 DEF PushGoal
  <2>. QED  BY <1>3, <2>6, <2>7 DEF StorageDelete
<1>. QED  BY <1>2, <1>3

LEMMA StorageCreateKeeps ==
    ASSUME PushInv, NEW s \in Storages, StorageCreate(s) PROVE PushGoal
<1>. DEFINE M == Mounted(dc) \cup Defined(want.storage)
<1>1. /\ pc = "storageCreate" /\ s \in left /\ UNCHANGED <<dc, routes, build, objects>>
      /\ seen = NoDC /\ left \subseteq ToMount(dc) /\ AsWanted(M \ left)
  BY DEF StorageCreate, PushInv, SourceInv, StorageInv, Unread
<1>2. CASE Fails  BY <1>2, FailsKeeps
<1>3. CASE ~Fails
  <2>1. pvc' = [pvc EXCEPT ![s] = Canonical[want.storage[s]]] /\ UNCHANGED <<want, seen, fresh>>
    BY <1>3 DEF StorageCreate
  <2>2. pvc \in [Storages -> Quantities \cup {None}]  BY DEF PushInv, TypeOK, Partial
  <2>3. pvc'[s] = Canonical[want.storage[s]] /\ \A r \in Storages \ {s} : pvc'[r] = pvc[r]
    BY <2>1, <2>2
  <2>4. M \subseteq Storages  BY StoragesKnown DEF PushInv, TypeOK
  <2>5. Mounted(dc)' = Mounted(dc) /\ M' = M  BY <1>1, <2>1
  <2>. HIDE DEF M
  <2>6. CASE left = {s} /\ left' = {} /\ Goto(AfterStorage)
    <3>1. AsWanted(M)'
      BY <1>1, <2>1, <2>3, <2>4, <2>5, <2>6 DEF AsWanted
    <3>. QED  BY <1>1, <2>1, <2>6, <3>1, StorageDoneKeeps DEF M, Goto
  <2>7. CASE left # {s} /\ Visit(s)
    <3>1. pc' = "storageCreate" /\ left' = left \ {s} /\ left' # {}
      BY <1>1, <2>7 DEF Visit, Goto
    <3>2. AsWanted(M \ left)'
      BY <1>1, <2>1, <2>3, <2>4, <2>5, <3>1 DEF AsWanted
    <3>3. StorageInv'
      BY <1>1, <2>1, <3>1, <3>2 DEF StorageInv, Stored, ToMount, M
    <3>4. SourceInv' /\ RoutesInv' /\ PushedMatchesConfig'
      BY <1>1, <2>1, <3>1 DEF SourceInv, RoutesInv, PushedMatchesConfig, Idle,
                              Unread, Updates, LateSteps
    <3>. QED  BY <3>3, <3>4 DEF PushGoal
  <2>. QED  BY <1>3, <2>6, <2>7 DEF StorageCreate
<1>. QED  BY <1>2, <1>3

\* The steps between the storage and the URLs.
LEMMA CreationKeeps ==
    ASSUME PushInv, CreateImageStream \/ CreateBuildConfig \/ CreateService \/ CreateSecrets
    PROVE  PushGoal
<1>. USE DEF SourceInv, Unread, Updates, LateSteps, Deployed
<1>1. CASE Fails  BY <1>1, FailsKeeps
<1>2. CASE ~Fails /\ CreateImageStream
  <2>1. /\ pc = "imageStream" /\ UNCHANGED <<dc, pvc, want, seen>> /\ ~Deployed
        /\ pc' = (IF want.source = "git" THEN "createBuildConfig" ELSE "createDC")
    BY <1>2 DEF CreateImageStream, CreateObject, Goto, command, PushInv, ReadInv,
                NewSteps
  <2>2. SourceInv'  BY <2>1 DEF PushInv
  <2>. QED  BY <2>1, <2>2, MiddleKeeps DEF Stored, PushSteps
<1>3. CASE ~Fails /\ CreateBuildConfig
  <2>1. /\ pc = "createBuildConfig" /\ UNCHANGED <<dc, pvc, want, seen>>
        /\ pc' = (IF Deployed THEN "build" ELSE "createDC")
        /\ want.source = "git"
    BY <1>3 DEF CreateBuildConfig, Goto, command, PushInv
  <2>2. SourceInv'  BY <2>1 DEF PushInv
  <2>. QED  BY <2>1, <2>2, MiddleKeeps DEF Stored, PushSteps
<1>4. CASE ~Fails /\ CreateService
  <2>1. /\ pc = "service" /\ UNCHANGED <<dc, pvc, want, seen>>
        /\ pc' = "secrets"
    BY <1>4 DEF CreateService, CreateObject, Goto, command
  <2>2. SourceInv'  BY <2>1 DEF PushInv, Written
  <2>. QED  BY <2>1, <2>2, MiddleKeeps DEF Stored, PushSteps
<1>5. CASE ~Fails /\ CreateSecrets
  <2>1. /\ pc = "secrets" /\ UNCHANGED <<dc, pvc, want, seen>>
        /\ pc' = (IF want.source = "git" THEN "build" ELSE "root")
    BY <1>5 DEF CreateSecrets, CreateObject, Goto, command
  <2>2. want.source \in {"local", "git"}  BY SourcesAssumption DEF PushInv, TypeOK, Config
  <2>3. SourceInv'  BY <2>1, <2>2 DEF PushInv, Written
  <2>. QED  BY <2>1, <2>3, MiddleKeeps DEF Stored, PushSteps
<1>. QED  BY <1>1, <1>2, <1>3, <1>4, <1>5

LEMMA CreateDCKeeps == ASSUME PushInv, CreateDC, TypeOK' PROVE PushGoal
<1>1. /\ pc = "createDC" /\ UNCHANGED <<pvc, want, seen>> /\ pc' = "service"
      /\ dc = NoDC /\ seen = NoDC
  BY DEF CreateDC, Goto, command, PushInv, ReadInv, NewSteps, SourceInv, Unread
<1>2. PICK order \in Orders(ToMount(NoDC)) :
        dc' = [source |-> want.source, mounts |-> order, env |-> want.env, links |-> {}]
  BY DEF CreateDC
<1>3. ToMount(NoDC) = Defined(want.storage)  BY DCFacts DEF ToMount
<1>4. ToMount(NoDC) \in SUBSET Storages
  BY DCFacts, StoragesKnown DEF PushInv, TypeOK
<1>5. Range(order) = Defined(want.storage)
  BY <1>3, <1>4, StoragesAssumption, OrderFacts
<1>6. Mounted(dc)' = Defined(want.storage) /\ dc'.source = want.source
  BY <1>2, <1>5 DEF Mounted
<1>7. StorageInv'
  BY <1>1, <1>6 DEF PushInv, StorageInv, AsWanted, Stored, PushSteps
<1>8. SourceInv'
  BY <1>1, <1>6 DEF SourceInv, Written, Unread, Updates, LateSteps
<1>9. RoutesInv' /\ PushedMatchesConfig'
  BY <1>1 DEF RoutesInv, PushedMatchesConfig, Idle
<1>. QED  BY <1>7, <1>8, <1>9 DEF PushGoal

LEMMA UpdateKeeps ==
    ASSUME PushInv, GetDC \/ UpdateBuildConfig \/ DeleteBuildConfig \/ Build
    PROVE  PushGoal
<1>. USE DEF SourceInv, Unread, Updates, LateSteps
<1>0. want.source \in {"local", "git"}  BY SourcesAssumption DEF PushInv, TypeOK, Config
<1>1. CASE Fails  BY <1>1, FailsKeeps
<1>2. CASE GetDC
  <2>1. /\ pc = "getDC" /\ UNCHANGED <<dc, pvc, want>> /\ seen' = dc
        /\ Deployed /\ dc # NoDC /\ dc.source \in {"none", "local", "git"}
        /\ pc' = CASE dc.source = "local" /\ want.source = "git" -> "createBuildConfig"
                   [] dc.source = "git" /\ want.source = "local" -> "deleteBuildConfig"
                   [] dc.source = "git" /\ want.source = "git"   -> "updateBuildConfig"
                   [] OTHER                                      -> "patchDC"
    BY <1>2 DEF GetDC, Goto, cluster, PushInv, ReadInv, Deployed, NoDC, TypeOK, DC
  <2>2. \/ dc.source = "local" /\ want.source = "git" /\ pc' = "createBuildConfig"
        \/ dc.source = "git" /\ want.source = "local" /\ pc' = "deleteBuildConfig"
        \/ dc.source = "git" /\ want.source = "git" /\ pc' = "updateBuildConfig"
        \/ want.source = "local" /\ pc' = "patchDC"
    BY <1>0, <2>1 DEF Deployed
  <2>3. SourceInv'  BY <2>1, <2>2 DEF PushInv, Deployed
  <2>. QED  BY <2>1, <2>2, <2>3, MiddleKeeps DEF Stored, PushSteps
<1>3. CASE ~Fails /\ UpdateBuildConfig
  <2>1. /\ pc = "updateBuildConfig" /\ UNCHANGED <<dc, pvc, want, seen>>
        /\ pc' = "build"
    BY <1>3 DEF UpdateBuildConfig, Goto, command
  <2>2. SourceInv'  BY <2>1 DEF PushInv
  <2>. QED  BY <2>1, <2>2, MiddleKeeps DEF Stored, PushSteps
<1>4. CASE DeleteBuildConfig
  <2>1. /\ pc = "deleteBuildConfig" /\ UNCHANGED <<dc, pvc, want, seen>>
        /\ pc' = "root"
    BY <1>4 DEF DeleteBuildConfig, Goto, command
  <2>2. SourceInv'  BY <2>1 DEF PushInv
  <2>. QED  BY <2>1, <2>2, MiddleKeeps DEF Stored, PushSteps
<1>5. CASE Build
  <2>1. /\ pc = "build" /\ UNCHANGED <<dc, pvc, want, seen, build>> /\ build # {}
        /\ pc' = (IF seen = NoDC THEN "rollout" ELSE "patchDC")
    BY <1>5 DEF Build, Goto, command, cluster
  <2>2. SourceInv'  BY <2>1 DEF PushInv, Written
  <2>. QED  BY <2>1, <2>2, MiddleKeeps DEF Stored, PushSteps
<1>. QED  BY <1>1, <1>2, <1>3, <1>4, <1>5

LEMMA CreateRootKeeps == ASSUME PushInv, TypeOK', CreateRoot PROVE PushGoal
<1>1. /\ pc = "root" /\ UNCHANGED <<dc, pvc, routes, build>>
      /\ want.source = "local" /\ (seen = NoDC => Written)
  BY DEF CreateRoot, CreateObject, PushInv, SourceInv
<1>2. CASE Fails  BY <1>2, FailsKeeps
<1>3. CASE seen = NoDC /\ UrlsFrom
  <2>1. want' = want  BY <1>3, UrlsFromFlow
  <2>2. Ready'
    BY <1>1, <1>3, <2>1 DEF Ready, Written, AsWanted, PushInv, StorageInv, Stored, PushSteps
  <2>. QED  BY <1>1, <1>3, <2>2, UrlsKeep
<1>4. CASE seen # NoDC /\ Goto("patchDC") /\ UNCHANGED command
  <2>1. pc' = "patchDC" /\ UNCHANGED <<want, seen>>  BY <1>4 DEF Goto, command
  <2>2. SourceInv'
    BY <1>1, <1>4, <2>1 DEF SourceInv, Unread, Updates, LateSteps
  <2>. QED  BY <1>1, <2>1, <2>2, MiddleKeeps DEF Stored, PushSteps
<1>. QED  BY <1>2, <1>3, <1>4 DEF CreateRoot, CreateObject

LEMMA PatchDCKeeps == ASSUME PushInv, TypeOK', PatchDC PROVE PushGoal
<1>1. /\ pc = "patchDC" /\ UNCHANGED <<pvc, routes, build, objects>>
      /\ want.source = "git" => build # {}
      /\ AsWanted(Mounted(dc) \cup Defined(want.storage))
  BY DEF PatchDC, PushInv, SourceInv, StorageInv, Stored, PushSteps
<1>2. CASE Fails  BY <1>2, FailsKeeps
<1>3. CASE ~Fails
  <2>1. seen = dc /\ seen \in DC /\ want \in Config
    BY <1>1, <1>3 DEF PatchDC, Conflict, PushInv, ReadInv, LateSteps, TypeOK
  <2>2. PICK order \in Orders(ToMount(seen)) :
          dc' = [source |-> want.source,
                 mounts |-> Slice(Unmount(seen.mounts, ToUnmount(seen))) \o order,
                 env |-> None, links |-> LinksKept]
    BY <1>3 DEF PatchDC
  <2>. DEFINE mounts == Slice(Unmount(seen.mounts, ToUnmount(seen))) \o order
  <2>3. /\ Defined(want.storage) \subseteq Range(mounts)
        /\ Range(mounts) \subseteq Mounted(seen) \cup Defined(want.storage)
    BY <2>1, NewMounts
  <2>. HIDE DEF mounts
  <2>4. dc'.source = want.source /\ Mounted(dc') = Range(mounts)
    BY <2>2 DEF mounts, Mounted
  <2>5. want' = want
    BY <1>3, UrlsFromFlow DEF PatchDC, command
  <2>6. Written' /\ AsWanted(Mounted(dc) \cup Defined(want.storage))'
    BY <1>1, <2>1, <2>3, <2>4, <2>5 DEF Written, AsWanted
  <2>7. CASE want.source = "local" /\ UrlsFrom
    <3>1. Ready'  BY <2>5, <2>6, <2>7 DEF Ready
    <3>. QED  BY <1>1, <2>7, <3>1, UrlsKeep
  <2>8. CASE Goto("rollout") /\ UNCHANGED command
    <3>1. pc' = "rollout"  BY <2>8 DEF Goto
    <3>2. StorageInv'  BY <2>6, <3>1 DEF StorageInv
    <3>3. SourceInv'
      BY <1>1, <2>5, <2>6, <3>1 DEF SourceInv, Unread, Updates, LateSteps
    <3>4. RoutesInv' /\ PushedMatchesConfig'
      BY <3>1 DEF RoutesInv, PushedMatchesConfig, Idle
    <3>. QED  BY <3>2, <3>3, <3>4 DEF PushGoal
  <2>. QED  BY <1>3, <2>7, <2>8 DEF PatchDC
<1>. QED  BY <1>2, <1>3

LEMMA RolloutKeeps ==
    ASSUME PushInv, TypeOK', Rollout \/ DeleteRoot PROVE PushGoal
<1>1. /\ pc \in {"rollout", "deleteRoot"} /\ UNCHANGED <<dc, pvc, routes, build>>
      /\ want.source = "git" => build # {}
      /\ AsWanted(Mounted(dc) \cup Defined(want.storage))
      /\ Written
  BY DEF Rollout, DeleteRoot, cluster, PushInv, SourceInv, StorageInv, Stored,
         PushSteps, LateSteps
<1>2. CASE Fails  BY <1>2, FailsKeeps
<1>3. CASE UrlsFrom
  <2>1. want' = want  BY <1>3, UrlsFromFlow
  <2>2. want.source = "git" => PodCanRun'
    <3>1. SUFFICES ASSUME want.source = "git" PROVE PodCanRun'  OBVIOUS
    <3>2. dc.source # "local"  BY <1>1, <3>1 DEF Written
    <3>3. CASE Fails  BY <1>3, <3>3, UrlsFromFlow DEF Fails, EndsWith, LateSteps
    <3>4. CASE ~Fails
      <4>1. Readable(dc)
        BY <1>1, <3>4 DEF Rollout, DeleteRoot, PodCanRun, PushInv, SourceInv
      <4>. QED  BY <1>1, <3>2, <4>1 DEF PodCanRun, Readable
    <3>. QED  BY <3>3, <3>4
  <2>3. Ready'
    BY <1>1, <2>1, <2>2 DEF Ready, Written, AsWanted
  <2>. QED  BY <1>1, <1>3, <2>3, UrlsKeep
<1>4. CASE /\ Rollout /\ PodCanRun /\ want.source = "git"
           /\ Goto("deleteRoot") /\ UNCHANGED command
  <2>1. pc' = "deleteRoot" /\ UNCHANGED <<want, seen, objects>>
    BY <1>4 DEF Goto, command, Rollout, cluster
  <2>2. PodCanRun'  BY <1>1, <1>4, <2>1 DEF PodCanRun, Readable
  <2>3. SourceInv'
    BY <1>1, <1>4, <2>1, <2>2 DEF SourceInv, Unread, Updates, LateSteps, Written
  <2>. QED  BY <1>1, <2>1, <2>3, MiddleKeeps DEF Stored, PushSteps
<1>. QED  BY <1>2, <1>3, <1>4 DEF Rollout, DeleteRoot

LEMMA UrlStepKeeps ==
    ASSUME PushInv, TypeOK', NEW u \in Urls, UrlCreate(u) \/ UrlDelete(u)
    PROVE  PushGoal
<1>1. /\ pc \in {"urlCreate", "urlDelete"} /\ UNCHANGED <<dc, pvc, build, objects>>
      /\ want.source = "git" => build # {} /\ PodCanRun
      /\ AsWanted(Mounted(dc) \cup Defined(want.storage))
      /\ Written /\ u \in left
  BY DEF UrlCreate, UrlDelete, PushInv, SourceInv, StorageInv, Stored, PushSteps,
         LateSteps
<1>2. /\ routes \in [Urls -> Ports \cup {None}]
      /\ want.urls \in [Urls -> Ports \cup {None}]
  BY DEF PushInv, TypeOK, Config, Partial
<1>3. want' = want
  BY UrlsFromFlow DEF UrlCreate, UrlDelete
<1>4. Ready'
  <2>1. want.source = "git" => PodCanRun'  BY <1>1 DEF PodCanRun, Readable
  <2>. QED  BY <1>1, <1>3, <2>1 DEF Ready, Written, AsWanted
<1>5. ASSUME pc' = pc, UNCHANGED seen
      PROVE  StorageInv' /\ SourceInv' /\ PushedMatchesConfig'
  <2>1. StorageInv'
    BY <1>1, <1>4, <1>5 DEF StorageInv, Ready
  <2>2. SourceInv' /\ PushedMatchesConfig'
    BY <1>1, <1>4, <1>5
       DEF SourceInv, Ready, Unread, Updates, LateSteps, PushedMatchesConfig, Idle
  <2>. QED  BY <2>1, <2>2
<1>6. CASE UrlCreate(u)
  <2>1. /\ pc = "urlCreate" /\ left \subseteq Defined(want.urls)
        /\ Defined(want.urls) \ left \subseteq Defined(routes)
        /\ routes' = UrlCreated(u)
    BY <1>6 DEF UrlCreate, PushInv, RoutesInv
  <2>2. want.urls[u] # None  BY <1>1, <2>1 DEF Defined
  <2>3. Defined(routes) \cup {u} \subseteq Defined(routes')
    BY <1>2, <2>1, <2>2 DEF UrlCreated, Defined
  <2>4. CASE left = {u} /\ UrlDeleteFrom(routes')
    <3>1. Defined(want.urls) \subseteq Defined(routes')  BY <2>1, <2>3, <2>4
    <3>. QED
      BY <1>4, <2>4, <3>1, UrlDeleteFromSteps, ReachesUrls DEF PushInv, PushGoal
  <2>5. CASE left # {u} /\ Visit(u) /\ UNCHANGED <<want, seen, fresh>>
    <3>1. pc' = "urlCreate" /\ left' = left \ {u} /\ left' # {}
      BY <1>1, <2>1, <2>5 DEF Visit, Goto
    <3>2. RoutesInv'
      BY <1>3, <2>1, <2>3, <3>1 DEF RoutesInv
    <3>. QED  BY <1>5, <2>1, <2>5, <3>1, <3>2 DEF PushGoal
  <2>. QED  BY <1>6, <2>4, <2>5 DEF UrlCreate
<1>7. CASE UrlDelete(u)
  <2>1. /\ pc = "urlDelete" /\ left = Surplus(routes)
        /\ Defined(want.urls) \subseteq Defined(routes)
        /\ routes' = [routes EXCEPT ![u] = None]
    BY <1>7 DEF UrlDelete, PushInv, RoutesInv
  <2>2. u \notin Defined(want.urls)  BY <1>1, <2>1 DEF Surplus
  <2>3. Defined(routes') = Defined(routes) \ {u}  BY <1>2, <2>1 DEF Defined
  <2>4. Surplus(routes') = left \ {u}  BY <2>1, <2>3 DEF Surplus
  <2>5. CASE left = {u} /\ AfterUrls
    <3>1. Surplus(routes') = {}  BY <2>4, <2>5
    <3>2. UrlDeleteFrom(routes')  BY <2>5, <3>1 DEF UrlDeleteFrom
    <3>3. Defined(want.urls) \subseteq Defined(routes')  BY <2>1, <2>2, <2>3
    <3>. QED
      BY <1>4, <3>2, <3>3, UrlDeleteFromSteps, ReachesUrls DEF PushInv, PushGoal
  <2>6. CASE left # {u} /\ Visit(u) /\ UNCHANGED <<want, seen, fresh>>
    <3>1. pc' = "urlDelete" /\ left' = left \ {u} /\ left' # {}
      BY <1>1, <2>1, <2>6 DEF Visit, Goto
    <3>2. Surplus(routes)' = left'
      BY <1>3, <2>1, <2>3, <3>1 DEF Surplus
    <3>3. RoutesInv'
      BY <1>3, <2>1, <2>2, <2>3, <3>1, <3>2 DEF RoutesInv
    <3>. QED  BY <1>5, <2>1, <2>6, <3>1, <3>3 DEF PushGoal
  <2>. QED  BY <1>7, <2>5, <2>6 DEF UrlDelete
<1>. QED  BY <1>6, <1>7

\* The copy of the sources ends the push of a local component.
LEMMA PushSourceKeeps == ASSUME PushInv, TypeOK', PushSource PROVE PushGoal
<1>1. /\ pc = "source" /\ UNCHANGED <<dc, pvc, routes, build, objects>>
      /\ Written /\ Defined(routes) = Defined(want.urls)
      /\ AsWanted(Mounted(dc) \cup Defined(want.storage))
      /\ want.source = "local"
  BY DEF PushSource, cluster, PushInv, SourceInv, StorageInv, RoutesInv, Stored,
         PushSteps, LateSteps
<1>2. CASE Fails  BY <1>2, FailsKeeps
<1>3. CASE PodCanRun /\ EndsWith("pushed")
  <2>1. pc' = "idle" /\ seen' = NoDC /\ want' = want  BY <1>3 DEF EndsWith
  <2>2. StorageInv' /\ SourceInv' /\ RoutesInv'
    BY <2>1 DEF StorageInv, SourceInv, RoutesInv, Stored, PushSteps, Unread,
                Updates, LateSteps
  <2>3. /\ \A s \in Mounted(dc) : pvc[s] # None /\ pvc[s] = Canonical[want.storage[s]]
        /\ Defined(want.storage) \subseteq Mounted(dc)
    BY <1>1, <1>3 DEF PodCanRun, Readable, AsWanted, Written
  <2>4. Mounted(dc) = Defined(want.storage)
    BY <2>3, RunningMatches DEF PushInv, TypeOK
  <2>5. PodCanRun'  BY <1>1, <1>3 DEF PodCanRun, Readable
  <2>6. PushedMatchesConfig'
    BY <1>1, <2>1, <2>3, <2>4, <2>5 DEF PushedMatchesConfig, Written
  <2>. QED  BY <2>2, <2>6 DEF PushGoal
<1>. QED  BY <1>2, <1>3 DEF PushSource

\* A delete, and the beginning of a command, are outside a push.
LEMMA OutsideKeeps ==
    ASSUME PushInv, pc' \in Range(Kinds) \cup {"exists", "find"},
           pc' = "exists" => seen' = NoDC
    PROVE  PushGoal
BY KindsFacts DEF PushGoal, StorageInv, SourceInv, RoutesInv, PushedMatchesConfig, Idle,
       Stored, PushSteps, Unread, Updates, LateSteps

LEMMA DeleteKeeps ==
    ASSUME PushInv, DeleteInv, NEW i \in 1..7, DeleteStep(i)
    PROVE  PushGoal
<1>1. PICK r \in {result, "failed"} : DeleteNext(i, r)  BY DEF DeleteStep
<1>2. result \in {"running", "failed"}
  <2>1. pc # "idle"  BY KindsFacts DEF DeleteStep
  <2>. QED  BY <2>1 DEF DeleteInv, Idle
<1>3. CASE i < 7
  <2>1. pc' = Kinds[i + 1]  BY <1>1, <1>3, KindsFacts DEF DeleteNext
  <2>2. pc' \in Range(Kinds)  BY <1>3, <2>1, KindsFacts DEF Range
  <2>3. "exists" \notin Range(Kinds)  BY KindsFacts
  <2>. QED  BY <2>2, <2>3, OutsideKeeps
<1>4. CASE i = 7
  <2>1. EndsWith(IF r = "running" THEN "deleted" ELSE r)
    BY <1>1, <1>4, KindsFacts DEF DeleteNext
  <2>2. pc' = "idle" /\ seen' = NoDC /\ result' # "pushed"
    BY <1>1, <1>2, <2>1 DEF EndsWith
  <2>. QED  BY <2>2, FailureKeeps
<1>. QED  BY <1>3, <1>4

LEMMA OthersKeep ==
    ASSUME PushInv, Begins \/ Find \/ Stop
    PROVE  PushGoal
<1>1. CASE Begins
  <2>1. pc = "idle" /\ pc' \in {"exists", "find"} /\ seen' = seen
    BY <1>1 DEF Begins, Delete, Push, command
  <2>2. seen = NoDC  BY <2>1 DEF PushInv, SourceInv, Unread
  <2>. QED  BY <2>1, <2>2, OutsideKeeps
<1>2. CASE Find
  <2>1. CASE Fails  BY <2>1, FailsKeeps
  <2>2. CASE Goto(Kinds[1])
    <3>1. pc' = Kinds[1]  BY <2>2 DEF Goto
    <3>. QED  BY <3>1, KindsFacts, OutsideKeeps
  <2>. QED  BY <1>2, <2>1, <2>2 DEF Find
<1>3. CASE Stop
  BY <1>3, FailureKeeps DEF Stop, EndsWith
<1>. QED  BY <1>1, <1>2, <1>3

\* Other clients change the links only.
LEMMA LinkKeeps ==
    ASSUME PushInv, NEW s \in Secrets, Link(s) \/ Unlink(s)
    PROVE  PushGoal
<1>1. /\ UNCHANGED <<pvc, routes, build, objects, pc, want, left, seen, result>>
      /\ dc'.mounts = dc.mounts /\ dc'.source = dc.source
      /\ Mounted(dc') = Mounted(dc)
  <2>1. dc \in DC  BY DEF PushInv, TypeOK
  <2>2. dc'.mounts = dc.mounts /\ dc'.source = dc.source
    BY <2>1 DEF Link, Unlink, DC
  <2>. QED  BY <2>2 DEF Link, Unlink, Mounted
<1>2. /\ PodCanRun' <=> PodCanRun
      /\ Written' <=> Written
      /\ ToMount(dc)' = ToMount(dc)
  BY <1>1 DEF PodCanRun, Readable, Written, ToMount
<1>3. StorageInv'  BY <1>1, <1>2 DEF PushInv, StorageInv, AsWanted
<1>4. SourceInv'  BY <1>1, <1>2 DEF PushInv, SourceInv, Deployed
<1>5. RoutesInv'  BY <1>1 DEF PushInv, RoutesInv, Surplus
<1>6. PushedMatchesConfig'  BY <1>1, <1>2 DEF PushInv, PushedMatchesConfig, Idle
<1>. QED  BY <1>3, <1>4, <1>5, <1>6 DEF PushGoal

\* StorageInv, SourceInv and RoutesInv are invariant: what a push has already
\* made as the configuration asks for stays so until its end.
THEOREM PushInductive == Spec => []PushInv
<1>1. Init => StorageInv /\ SourceInv /\ RoutesInv /\ PushedMatchesConfig
  BY DEF Init, StorageInv, SourceInv, RoutesInv, PushedMatchesConfig, Idle,
         Stored, PushSteps, Unread, Updates, LateSteps
<1>2. PushInv /\ DeleteInv /\ TypeOK' /\ [Next]_vars => PushGoal
  <2>1. SUFFICES ASSUME PushInv, DeleteInv, TypeOK', [Next]_vars PROVE PushGoal
    OBVIOUS
  <2>2. CASE UNCHANGED vars
    BY <2>1, <2>2
       DEF vars, PushInv, PushGoal, StorageInv, SourceInv, RoutesInv,
           PushedMatchesConfig, Idle, AsWanted, Written, PodCanRun, Readable,
           Surplus, ToMount, Deployed
  <2>3. CASE PushStep
    BY <2>1, <2>3, CheckExistsKeeps, StorageDeleteKeeps, StorageCreateKeeps,
       CreationKeeps, CreateDCKeeps, CreateRootKeeps, UpdateKeeps, PatchDCKeeps,
       RolloutKeeps, UrlStepKeeps, PushSourceKeeps DEF PushStep
  <2>4. CASE \E i \in DOMAIN Kinds : DeleteStep(i)
    BY <2>1, <2>4, DeleteKeeps, KindsFacts
  <2>. QED  BY <2>1, <2>2, <2>3, <2>4, OthersKeep, LinkKeeps DEF Next
<1>. QED
  BY <1>1, <1>2, TypeCorrect, ReadInductive, DeleteInductive, PTL
     DEF Spec, PushInv, PushGoal

\* A push that reports success has made the cluster match its configuration,
\* whatever failed halfway in earlier pushes: source, storages with their
\* sizes, URLs, and a pod that can run.
THEOREM PushesMatch == Spec => []PushedMatchesConfig
<1>1. PushInv => PushedMatchesConfig  BY DEF PushInv
<1>. QED  BY <1>1, PushInductive, PTL

----------------------------------------------------------------------------
(* What there is while nothing has stopped halfway                          *)

CleanInv == PushInv /\ DeleteInv /\ ClaimsInv /\ ObjectsInv

CleanGoal == ClaimsInv' /\ ObjectsInv'

\* Nothing is promised once a command has stopped halfway.
LEMMA UncleanKeeps == ASSUME ~clean' PROVE CleanGoal
BY DEF CleanGoal, ClaimsInv, ObjectsInv

\* A command that fails before it has changed anything.
LEMMA CleanFails ==
    ASSUME CleanInv, UNCHANGED cluster \/ pc \notin {"exists", "find"},
           pc' = "idle", clean' = (clean /\ pc \in {"exists", "find"})
    PROVE  CleanGoal
<1>1. CASE ~clean'  BY <1>1, UncleanKeeps
<1>2. CASE clean'
  <2>1. clean /\ pc \in {"exists", "find"} /\ UNCHANGED cluster  BY <1>2
  <2>2. ClaimsInv'
    BY <2>1 DEF CleanInv, ClaimsInv, cluster, Stored, PushSteps
  <2>3. ObjectsInv'
    BY <2>1, KindsFacts DEF CleanInv, ObjectsInv, Before, Complete, Deployed, cluster
  <2>. QED  BY <2>2, <2>3 DEF CleanGoal
<1>. QED  BY <1>1, <1>2

LEMMA FailsStaysClean ==
    ASSUME CleanInv, Fails, UNCHANGED cluster \/ pc \notin {"exists", "find"}
    PROVE  CleanGoal
BY CleanFails DEF Fails, EndsWith

\* Claims change in the storage part only; a push that ends well ends with those
\* of its configuration.
LEMMA LateClaims ==
    ASSUME CleanInv, PushInv', pc \in Stored, pvc' = pvc, want' = want, clean' = clean,
           pc' \in Stored \/ (pc' = "idle" /\ result' = "pushed")
    PROVE  ClaimsInv'
<1>1. SUFFICES ASSUME clean' PROVE ClaimsInv'  BY DEF ClaimsInv
<1>2. Defined(pvc) \subseteq Defined(want.storage)
  BY <1>1 DEF CleanInv, ClaimsInv
<1>3. CASE pc' \in Stored
  BY <1>2, <1>3 DEF ClaimsInv, Stored, PushSteps
<1>4. CASE pc' = "idle" /\ result' = "pushed"
  <2>1. /\ Mounted(dc') = Defined(want.storage)
        /\ \A s \in Mounted(dc') : pvc[s] # None
    BY <1>4 DEF PushInv, PushedMatchesConfig, PodCanRun, Readable, Idle
  <2>2. /\ DOMAIN pvc = Storages /\ Defined(want.storage) \subseteq Storages
    <3>1. want \in Config  BY DEF CleanInv, PushInv, TypeOK
    <3>. QED  BY <3>1, StoragesKnown, DCFacts DEF CleanInv, PushInv, TypeOK, Partial
  <2>3. Defined(want.storage) \subseteq Defined(pvc)
    BY <2>1, <2>2 DEF Defined
  <2>4. Defined(pvc') = Mounted(dc')
    <3>1. Defined(pvc') = Defined(pvc)  BY DEF Defined
    <3>2. Defined(pvc) = Defined(want.storage)  BY <1>2, <2>3
    <3>. QED  BY <2>1, <3>1, <3>2
  <2>. QED  BY <1>4, <2>4 DEF ClaimsInv, Stored, PushSteps
<1>. QED  BY <1>3, <1>4

\* On its way to and through the URLs a push has the objects of its source.
UrlPlaces == {"urlCreate", "urlDelete", "source"}

LEMMA LateObjects ==
    ASSUME PushInv', clean' => Complete(want.source)',
           pc' \in UrlPlaces \/ (pc' = "idle" /\ result' = "pushed")
    PROVE  ObjectsInv'
<1>1. SUFFICES ASSUME clean' PROVE ObjectsInv'  BY DEF ObjectsInv
<1>2. CASE pc' \in UrlPlaces
  BY <1>1, <1>2, KindsFacts DEF ObjectsInv, UrlPlaces, Before
<1>3. CASE pc' = "idle" /\ result' = "pushed"
  <2>1. dc'.source = want'.source  BY <1>3 DEF PushInv, PushedMatchesConfig, Idle
  <2>2. Deployed'
    BY <2>1, SourcesAssumption DEF PushInv, TypeOK, Config, Deployed
  <2>3. Complete(dc.source)'  BY <1>1, <2>1 DEF Complete
  <2>. QED  BY <1>3, <2>2, <2>3, KindsFacts DEF ObjectsInv
<1>. QED  BY <1>2, <1>3

LEMMA UrlsFromPlaces ==
    ASSUME UrlsFrom
    PROVE  /\ pc' \in UrlPlaces \/ (pc' = "idle" /\ result' = "pushed")
           /\ want' = want /\ clean' = clean
BY UrlsFromSteps DEF UrlSteps, UrlPlaces

LEMMA UrlsStayClean ==
    ASSUME CleanInv, PushInv', UrlsFrom, pc \in Stored, pvc' = pvc,
           clean => Complete(want.source)'
    PROVE  CleanGoal
<1>1. /\ pc' \in UrlPlaces \/ (pc' = "idle" /\ result' = "pushed")
      /\ want' = want /\ clean' = clean
  BY UrlsFromPlaces
<1>2. ClaimsInv'  BY <1>1, LateClaims DEF UrlPlaces, Stored, PushSteps
<1>3. ObjectsInv'  BY <1>1, LateObjects
<1>. QED  BY <1>2, <1>3 DEF CleanGoal

\* The storage part: a claim that is there is mounted or has been made.
LEMMA StorageDoneClean ==
    ASSUME CleanInv, PushInv', UNCHANGED <<dc, build, objects, want, clean, result>>,
           pc \in {"exists", "storageDelete", "storageCreate"},
           pc' = AfterStorage,
           clean => Defined(pvc') \subseteq Mounted(dc) \cup Defined(want.storage)
    PROVE  CleanGoal
<1>1. SUFFICES ASSUME clean, clean' PROVE CleanGoal  BY UncleanKeeps
<1>2. pc' \in Stored  BY DEF AfterStorage, Stored, PushSteps
<1>3. \A s \in Mounted(dc) : pvc'[s] = Canonical[want.storage[s]]
  BY <1>2 DEF PushInv, StorageInv, AsWanted
<1>4. /\ want \in Config /\ dc \in DC /\ DOMAIN pvc' = Storages
  BY DEF CleanInv, PushInv, TypeOK, Partial
<1>5. Mounted(dc) \subseteq Storages  BY <1>4, StoragesKnown
<1>6. DOMAIN want.storage = Storages  BY <1>4 DEF Config, Partial
<1>7. Defined(pvc') \subseteq Defined(want.storage)
  BY <1>1, <1>3, <1>5, <1>6, SizeFacts DEF Defined
<1>8. ClaimsInv'  BY <1>2, <1>7 DEF ClaimsInv, Stored, PushSteps
<1>9. ObjectsInv'
  BY <1>1, KindsFacts DEF CleanInv, ObjectsInv, Before, Complete, Deployed, AfterStorage
<1>. QED  BY <1>8, <1>9 DEF CleanGoal

LEMMA StorageCreateFromClean ==
    ASSUME CleanInv, PushInv', UNCHANGED <<dc, build, objects, want>>,
           pc \in {"exists", "storageDelete"}, StorageCreateFrom,
           clean => Defined(pvc') \subseteq Mounted(dc)
    PROVE  CleanGoal
<1>0. clean' = clean /\ result' = result  BY DEF StorageCreateFrom, Goto
<1>1. CASE ToMount(dc) = {}
  <2>1. pc' = AfterStorage  BY <1>1 DEF StorageCreateFrom, Goto
  <2>. QED  BY <1>0, <2>1, StorageDoneClean
<1>2. CASE ToMount(dc) # {}
  <2>1. pc' = "storageCreate"  BY <1>2 DEF StorageCreateFrom, Goto
  <2>2. ClaimsInv'  BY <1>0, <2>1 DEF ClaimsInv, Stored
  <2>3. ObjectsInv'
    BY <1>0, <2>1, KindsFacts DEF CleanInv, ObjectsInv, Before, Complete, Deployed
  <2>. QED  BY <2>2, <2>3 DEF CleanGoal
<1>. QED  BY <1>1, <1>2

LEMMA CheckExistsClean == ASSUME CleanInv, PushInv', CheckExists PROVE CleanGoal
<1>1. pc = "exists" /\ UNCHANGED cluster  BY DEF CheckExists
<1>2. clean => Defined(pvc) = Mounted(dc)  BY <1>1 DEF CleanInv, ClaimsInv
<1>3. CASE Fails  BY <1>1, <1>3, FailsStaysClean
<1>4. CASE StorageCreateFrom /\ UNCHANGED <<want, seen, fresh>>
  BY <1>1, <1>2, <1>4, StorageCreateFromClean DEF cluster
<1>5. CASE Goto("storageDelete") /\ UNCHANGED <<want, seen, fresh>>
  <2>1. pc' = "storageDelete" /\ clean' = clean  BY <1>5 DEF Goto
  <2>2. ClaimsInv'  BY <1>1, <1>2, <2>1 DEF ClaimsInv, Stored, cluster
  <2>3. ObjectsInv'
    BY <1>1, <2>1, KindsFacts DEF CleanInv, ObjectsInv, Before, Complete, Deployed, cluster
  <2>. QED  BY <2>2, <2>3 DEF CleanGoal
<1>. QED  BY <1>3, <1>4, <1>5 DEF CheckExists

LEMMA StorageStepClean ==
    ASSUME CleanInv, PushInv', NEW s \in Storages, StorageDelete(s) \/ StorageCreate(s)
    PROVE  CleanGoal
<1>1. /\ pc \in {"storageDelete", "storageCreate"} /\ s \in left
      /\ UNCHANGED <<dc, routes, build, objects>>
  BY DEF StorageDelete, StorageCreate
<1>2. CASE Fails  BY <1>1, <1>2, FailsStaysClean
<1>3. pvc \in [Storages -> Quantities \cup {None}]  BY DEF CleanInv, PushInv, TypeOK, Partial
<1>4. ASSUME Visit(s), UNCHANGED want, ClaimsInv' PROVE CleanGoal
  <2>1. pc' = pc /\ clean' = clean  BY <1>4 DEF Visit, Goto
  <2>2. ObjectsInv'
    BY <1>1, <2>1, KindsFacts DEF CleanInv, ObjectsInv, Before, Complete, Deployed
  <2>. QED  BY <1>4, <2>2 DEF CleanGoal
<1>5. CASE StorageDelete(s) /\ ~Fails
  <2>1. /\ pc = "storageDelete" /\ UNCHANGED <<want, seen, fresh>>
        /\ pvc' = IF want.storage[s] = None THEN [pvc EXCEPT ![s] = None] ELSE pvc
    BY <1>5 DEF StorageDelete
  <2>2. Defined(pvc') \subseteq Defined(pvc)  BY <1>3, <2>1 DEF Defined
  <2>3. clean => Defined(pvc') \subseteq Mounted(dc)
    BY <2>1, <2>2 DEF CleanInv, ClaimsInv
  <2>4. CASE StorageCreateFrom  BY <1>1, <2>1, <2>3, <2>4, StorageCreateFromClean
  <2>5. CASE Visit(s)
    <3>1. pc' = pc /\ clean' = clean  BY <2>5 DEF Visit, Goto
    <3>2. ClaimsInv'  BY <1>1, <2>1, <2>3, <3>1 DEF ClaimsInv, Stored
    <3>. QED  BY <1>4, <2>1, <2>5, <3>2
  <2>. QED  BY <1>5, <2>4, <2>5 DEF StorageDelete
<1>6. CASE StorageCreate(s) /\ ~Fails
  <2>1. /\ pc = "storageCreate" /\ UNCHANGED <<want, seen, fresh>>
        /\ pvc' = [pvc EXCEPT ![s] = Canonical[want.storage[s]]]
        /\ left \subseteq ToMount(dc)
    BY <1>6 DEF StorageCreate, CleanInv, PushInv, StorageInv
  <2>2. Defined(pvc') \subseteq Defined(pvc) \cup {s}  BY <1>3, <2>1 DEF Defined
  <2>3. s \in Defined(want.storage)  BY <1>1, <2>1 DEF ToMount
  <2>4. clean => Defined(pvc') \subseteq Mounted(dc) \cup (Defined(want.storage) \ (left \ {s}))
    BY <2>1, <2>2, <2>3 DEF CleanInv, ClaimsInv
  <2>5. CASE Goto(AfterStorage)
    <3>1. pc' = AfterStorage /\ clean' = clean /\ result' = result  BY <2>5 DEF Goto
    <3>. QED  BY <1>1, <2>1, <2>4, <3>1, StorageDoneClean
  <2>6. CASE Visit(s)
    <3>1. pc' = pc /\ clean' = clean /\ left' = left \ {s}  BY <2>6 DEF Visit, Goto
    <3>2. ClaimsInv'  BY <1>1, <2>1, <2>4, <3>1 DEF ClaimsInv, Stored
    <3>. QED  BY <1>4, <2>1, <2>6, <3>2
  <2>. QED  BY <1>6, <2>5, <2>6 DEF StorageCreate
<1>. QED  BY <1>2, <1>5, <1>6

\* A step of a creation or an update that is not yet at the URLs.
LEMMA MiddleClean ==
    ASSUME CleanInv, PushInv', pc \in Stored, pc' \in Stored,
           pvc' = pvc, want' = want, clean' = clean, clean => ObjectsInv'
    PROVE  CleanGoal
<1>1. ClaimsInv'  BY LateClaims
<1>. QED  BY <1>1 DEF CleanGoal, ObjectsInv

\* The steps of a creation, up to its secrets.
LEMMA CreationClean ==
    ASSUME CleanInv, PushInv',
           CreateImageStream \/ CreateBuildConfig \/ CreateDC \/ CreateService \/ CreateSecrets
    PROVE  CleanGoal
<1>. USE DEF ObjectsInv, Before, Base, RootOf, Complete
<1>0. /\ want.source \in {"local", "git"}
      /\ CleanInv => ObjectsInv
  BY SourcesAssumption DEF CleanInv, PushInv, TypeOK, Config
<1>1. CASE Fails
  <2>1. pc \notin {"exists", "find"}
    BY DEF CreateImageStream, CreateBuildConfig, CreateDC, CreateService, CreateSecrets
  <2>. QED  BY <1>1, <2>1, FailsStaysClean
<1>2. CASE ~Fails /\ CreateImageStream
  <2>1. /\ pc = "imageStream" /\ UNCHANGED <<dc, pvc, build, want, clean>>
        /\ objects' = objects \cup {"imageStream"}
        /\ pc' = (IF want.source = "git" THEN "createBuildConfig" ELSE "createDC")
    BY <1>2 DEF CreateImageStream, CreateObject, Goto, command
  <2>2. ~Deployed'  BY <2>1 DEF CleanInv, PushInv, ReadInv, NewSteps, Deployed
  <2>3. clean => ObjectsInv'  BY <1>0, <2>1, <2>2, KindsFacts
  <2>. QED  BY <2>1, <2>3, MiddleClean DEF Stored, PushSteps
<1>3. CASE ~Fails /\ CreateBuildConfig
  <2>1. /\ pc = "createBuildConfig" /\ UNCHANGED <<dc, pvc, objects, want, seen, clean>>
        /\ build' = {want.ref} /\ build' # {}
        /\ pc' = (IF Deployed THEN "build" ELSE "createDC")
        /\ want.source = "git"
    BY <1>3 DEF CreateBuildConfig, Goto, command, CleanInv, PushInv, SourceInv
  <2>2. clean => ObjectsInv'  BY <1>0, <2>1, KindsFacts
  <2>. QED  BY <2>1, <2>2, MiddleClean DEF Stored, PushSteps
<1>4. CASE CreateDC
  <2>1. /\ pc = "createDC" /\ UNCHANGED <<pvc, build, objects, want, clean>>
        /\ pc' = "service"
    BY <1>4 DEF CreateDC, Goto, command
  <2>2. clean => ObjectsInv'  BY <1>0, <2>1, KindsFacts
  <2>. QED  BY <2>1, <2>2, MiddleClean DEF Stored, PushSteps
<1>5. CASE ~Fails /\ CreateService
  <2>1. /\ pc = "service" /\ UNCHANGED <<pvc, build, want, clean>>
        /\ objects' = objects \cup {"service"} /\ pc' = "secrets"
    BY <1>5 DEF CreateService, CreateObject, Goto, command
  <2>2. clean => ObjectsInv'  BY <1>0, <2>1, KindsFacts
  <2>. QED  BY <2>1, <2>2, MiddleClean DEF Stored, PushSteps
<1>6. CASE ~Fails /\ CreateSecrets
  <2>1. /\ pc = "secrets" /\ UNCHANGED <<pvc, build, want, seen, clean>>
        /\ objects' = objects \cup {"secrets"}
        /\ pc' = (IF want.source = "git" THEN "build" ELSE "root")
        /\ seen.source = "none"
    BY <1>6 DEF CreateSecrets, CreateObject, Goto, command, CleanInv, PushInv,
                SourceInv, Unread, NoDC
  <2>2. clean => ObjectsInv'  BY <1>0, <2>1, KindsFacts
  <2>. QED  BY <2>1, <2>2, MiddleClean DEF Stored, PushSteps
<1>. QED  BY <1>1, <1>2, <1>3, <1>4, <1>5, <1>6

LEMMA CreateRootClean == ASSUME CleanInv, PushInv', CreateRoot PROVE CleanGoal
<1>1. /\ pc = "root" /\ UNCHANGED <<dc, pvc, routes, build>>
      /\ want.source = "local"
      /\ clean => seen.source # "local" /\ build = {} /\ objects = Base
  BY DEF CreateRoot, CreateObject, CleanInv, PushInv, SourceInv, ObjectsInv
<1>2. CASE Fails  BY <1>1, <1>2, FailsStaysClean
<1>3. CASE UrlsFrom /\ objects' = objects \cup {"root"}
  <2>1. want' = want  BY <1>3, UrlsFromPlaces
  <2>2. clean => Complete(want.source)'
    BY <1>1, <1>3, <2>1 DEF Complete, Base, RootOf
  <2>. QED  BY <1>1, <1>3, <2>2, UrlsStayClean DEF Stored, PushSteps
<1>4. CASE Goto("patchDC") /\ UNCHANGED command /\ objects' = objects \cup {"root"}
  <2>1. pc' = "patchDC" /\ UNCHANGED <<want, seen, clean>>  BY <1>4 DEF Goto, command
  <2>2. clean => ObjectsInv'
    BY <1>1, <1>4, <2>1, KindsFacts DEF ObjectsInv, Before, Base, RootOf
  <2>. QED  BY <1>1, <2>1, <2>2, MiddleClean DEF Stored, PushSteps
<1>. QED  BY <1>2, <1>3, <1>4 DEF CreateRoot, CreateObject

\* The steps of an update before its write.
LEMMA UpdateClean ==
    ASSUME CleanInv, PushInv', GetDC \/ UpdateBuildConfig \/ DeleteBuildConfig \/ Build
    PROVE  CleanGoal
<1>. USE DEF ObjectsInv, Before, Base, RootOf, Complete
<1>0. /\ want.source \in {"local", "git"}
      /\ CleanInv => ObjectsInv
  BY SourcesAssumption DEF CleanInv, PushInv, TypeOK, Config
<1>1. CASE Fails
  <2>1. pc \notin {"exists", "find"}
    BY DEF GetDC, UpdateBuildConfig, DeleteBuildConfig, Build
  <2>. QED  BY <1>1, <2>1, FailsStaysClean
<1>2. CASE GetDC
  <2>1. /\ pc = "getDC" /\ UNCHANGED <<dc, pvc, build, objects, want, clean>> /\ seen' = dc
        /\ Deployed /\ dc.source \in {"none", "local", "git"}
        /\ pc' = CASE dc.source = "local" /\ want.source = "git" -> "createBuildConfig"
                   [] dc.source = "git" /\ want.source = "local" -> "deleteBuildConfig"
                   [] dc.source = "git" /\ want.source = "git"   -> "updateBuildConfig"
                   [] OTHER                                      -> "patchDC"
    BY <1>2 DEF GetDC, Goto, cluster, CleanInv, PushInv, ReadInv, TypeOK, DC
  <2>2. \/ dc.source = "local" /\ want.source = "git" /\ pc' = "createBuildConfig"
        \/ dc.source = "git" /\ want.source = "local" /\ pc' = "deleteBuildConfig"
        \/ dc.source = "git" /\ want.source = "git" /\ pc' = "updateBuildConfig"
        \/ dc.source = "local" /\ want.source = "local" /\ pc' = "patchDC"
    BY <1>0, <2>1 DEF Deployed
  <2>3. Deployed'  BY <2>1 DEF Deployed
  <2>4. clean => Complete(dc.source)  BY <1>0, <2>1
  <2>5. clean => ObjectsInv'
    <3>1. CASE dc.source = "local" /\ want.source = "git" /\ pc' = "createBuildConfig"
      BY <2>1, <2>3, <2>4, <3>1, KindsFacts
    <3>2. CASE dc.source = "git" /\ want.source = "local" /\ pc' = "deleteBuildConfig"
      BY <2>1, <2>3, <2>4, <3>2, KindsFacts
    <3>3. CASE dc.source = "git" /\ want.source = "git" /\ pc' = "updateBuildConfig"
      BY <2>1, <2>3, <2>4, <3>3, KindsFacts
    <3>4. CASE dc.source = "local" /\ want.source = "local" /\ pc' = "patchDC"
      BY <2>1, <2>3, <2>4, <3>4, KindsFacts
    <3>. QED  BY <2>2, <3>1, <3>2, <3>3, <3>4
  <2>. QED  BY <2>1, <2>2, <2>5, MiddleClean DEF Stored, PushSteps
<1>3. CASE ~Fails /\ UpdateBuildConfig
  <2>1. /\ pc = "updateBuildConfig" /\ UNCHANGED <<dc, pvc, objects, want, seen, clean>>
        /\ pc' = "build" /\ build # {} /\ build' # {}
    BY <1>3 DEF UpdateBuildConfig, Goto, command
  <2>2. clean => ObjectsInv'  BY <1>0, <2>1, KindsFacts
  <2>. QED  BY <2>1, <2>2, MiddleClean DEF Stored, PushSteps
<1>4. CASE DeleteBuildConfig
  <2>1. /\ pc = "deleteBuildConfig" /\ UNCHANGED <<dc, pvc, objects, want, seen, clean>>
        /\ pc' = "root" /\ build' = {}
    BY <1>4 DEF DeleteBuildConfig, Goto, command
  <2>2. clean => ObjectsInv'  BY <1>0, <2>1, KindsFacts
  <2>. QED  BY <2>1, <2>2, MiddleClean DEF Stored, PushSteps
<1>5. CASE Build
  <2>1. /\ pc = "build" /\ UNCHANGED <<dc, pvc, objects, want, seen, build, clean>>
        /\ build # {} /\ want.source = "git"
        /\ pc' \in {"rollout", "patchDC"}
    BY <1>5 DEF Build, Goto, command, cluster, CleanInv, PushInv, SourceInv
  <2>2. clean => ObjectsInv'  BY <1>0, <2>1, KindsFacts
  <2>. QED  BY <2>1, <2>2, MiddleClean DEF Stored, PushSteps
<1>. QED  BY <1>1, <1>2, <1>3, <1>4, <1>5

\* The write of the DeploymentConfig, its rollout and the clean-up after it.
LEMMA WriteClean ==
    ASSUME CleanInv, PushInv', PatchDC \/ Rollout \/ DeleteRoot
    PROVE  CleanGoal
<1>1. /\ pc \in {"patchDC", "rollout", "deleteRoot"} /\ UNCHANGED <<pvc, routes, build>>
      /\ clean => /\ build # {} <=> want.source = "git"
                  /\ objects = Base \cup RootOf(seen.source) \cup RootOf(want.source)
      /\ clean /\ pc = "deleteRoot" => seen.source = "local"
      /\ pc = "deleteRoot" => want.source = "git"
      /\ want.source \in {"local", "git"}
  BY SourcesAssumption
     DEF PatchDC, Rollout, DeleteRoot, cluster, CleanInv, PushInv, TypeOK, Config,
         SourceInv, ObjectsInv
<1>2. pc \in Stored  BY <1>1 DEF Stored, PushSteps
<1>3. CASE Fails  BY <1>1, <1>3, FailsStaysClean
<1>4. CASE UrlsFrom /\ (clean => objects' = Base \cup RootOf(want.source))
  <2>1. want' = want  BY <1>4, UrlsFromPlaces
  <2>2. clean => Complete(want.source)'  BY <1>1, <1>4, <2>1 DEF Complete
  <2>. QED  BY <1>1, <1>2, <1>4, <2>2, UrlsStayClean
<1>5. ASSUME NEW next \in {"rollout", "deleteRoot"}, Goto(next),
             next = "deleteRoot" => seen.source = "local",
             UNCHANGED command, objects' = objects
      PROVE  CleanGoal
  <2>1. /\ pc' \in {"rollout", "deleteRoot"} /\ UNCHANGED <<want, seen, clean, objects>>
        /\ pc' = "deleteRoot" => seen.source = "local"
    BY <1>5 DEF Goto, command
  <2>2. clean => ObjectsInv'  BY <1>1, <2>1, KindsFacts DEF ObjectsInv, Before
  <2>3. pc' \in Stored  BY <2>1 DEF Stored, PushSteps
  <2>. QED  BY <1>1, <1>2, <2>1, <2>2, <2>3, MiddleClean
<1>6. CASE PatchDC /\ ~Fails
  <2>1. /\ objects' = objects
        /\ \/ UrlsFrom /\ want.source = "local" /\ dc' = seen
           \/ Goto("rollout") /\ UNCHANGED command
    BY <1>6 DEF PatchDC
  <2>2. CASE UrlsFrom /\ want.source = "local"
    <3>1. clean => objects' = Base \cup RootOf(want.source)
      BY <1>1, <2>1, <2>2 DEF Base, RootOf
    <3>. QED  BY <1>4, <2>2, <3>1
  <2>3. CASE Goto("rollout") /\ UNCHANGED command
    BY <1>5, <2>1, <2>3
  <2>. QED  BY <2>1, <2>2, <2>3
<1>7. CASE Rollout /\ ~Fails
  <2>1. /\ objects' = objects
        /\ \/ UrlsFrom /\ ~(seen.source = "local" /\ want.source = "git")
           \/ Goto("deleteRoot") /\ UNCHANGED command /\ seen.source = "local"
    BY <1>7 DEF Rollout, cluster
  <2>3. CASE Goto("deleteRoot") /\ UNCHANGED command /\ seen.source = "local"
    BY <1>5, <2>1, <2>3
  <2>2. CASE UrlsFrom /\ ~(seen.source = "local" /\ want.source = "git")
    <3>1. clean => objects' = Base \cup RootOf(want.source)
      BY <1>1, <2>1, <2>2 DEF Base, RootOf
    <3>. QED  BY <1>4, <2>2, <3>1
  <2>. QED  BY <2>1, <2>2, <2>3
<1>8. CASE DeleteRoot /\ ~Fails
  <2>1. pc = "deleteRoot" /\ objects' = objects \ {"root"} /\ UrlsFrom
    BY <1>8 DEF DeleteRoot
  <2>2. clean => objects' = Base \cup RootOf(want.source)
    BY <1>1, <2>1 DEF Base, RootOf
  <2>. QED  BY <1>4, <2>1, <2>2
<1>. QED  BY <1>3, <1>6, <1>7, <1>8

\* The URLs and the sources: the objects are complete already.
LEMMA UrlsClean ==
    ASSUME CleanInv, PushInv', (\E u \in Urls : UrlCreate(u) \/ UrlDelete(u)) \/ PushSource
    PROVE  CleanGoal
<1>1. pc \in UrlPlaces /\ UNCHANGED <<dc, pvc, build, objects>>
  BY DEF UrlCreate, UrlDelete, PushSource, cluster, UrlPlaces
<1>2. /\ clean => Complete(want.source)
      /\ pc \in Stored
  BY <1>1 DEF CleanInv, ObjectsInv, UrlPlaces, Stored, PushSteps
<1>3. CASE Fails  BY <1>1, <1>3, FailsStaysClean DEF UrlPlaces
<1>4. ASSUME pc' \in UrlPlaces \/ (pc' = "idle" /\ result' = "pushed"),
             want' = want, clean' = clean
      PROVE  CleanGoal
  <2>1. clean' => Complete(want.source)'  BY <1>1, <1>2, <1>4 DEF Complete
  <2>2. ObjectsInv'  BY <1>4, <2>1, LateObjects
  <2>3. pc' \in Stored \/ (pc' = "idle" /\ result' = "pushed")
    BY <1>4 DEF UrlPlaces, Stored, PushSteps
  <2>4. ClaimsInv'  BY <1>1, <1>2, <1>4, <2>3, LateClaims
  <2>. QED  BY <2>2, <2>4 DEF CleanGoal
<1>5. ASSUME NEW r, UrlSteps(r) PROVE CleanGoal
  BY <1>4, <1>5 DEF UrlSteps, UrlPlaces
<1>6. ASSUME NEW u \in Urls, UrlCreate(u) \/ UrlDelete(u) PROVE CleanGoal
  <2>1. \/ UrlDeleteFrom(routes')
        \/ AfterUrls
        \/ Visit(u) /\ UNCHANGED want
    BY <1>6 DEF UrlCreate, UrlDelete
  <2>2. CASE UrlDeleteFrom(routes')
    <3>1. UrlSteps(routes')  BY <2>2, UrlDeleteFromSteps
    <3>. QED  BY <1>5, <3>1
  <2>3. CASE AfterUrls
    BY <1>4, <2>3 DEF AfterUrls, Goto, EndsWith, UrlPlaces
  <2>4. CASE Visit(u) /\ UNCHANGED want
    BY <1>1, <1>4, <2>4 DEF Visit, Goto
  <2>. QED  BY <2>1, <2>2, <2>3, <2>4
<1>7. CASE PushSource /\ ~Fails
  BY <1>4, <1>7 DEF PushSource, EndsWith
<1>. QED  BY <1>3, <1>6, <1>7

\* A delete none of whose calls has failed ends with nothing left.
LEMMA DeleteClean ==
    ASSUME CleanInv, PushInv', DeleteInv', NEW i \in 1..7, DeleteStep(i)
    PROVE  CleanGoal
<1>1. SUFFICES ASSUME clean, clean' PROVE CleanGoal
  BY UncleanKeeps DEF DeleteStep
<1>2. /\ result = "running"
      /\ DeleteNext(i, "running")
  <2>1. pc \in Range(Kinds)  BY KindsFacts DEF DeleteStep
  <2>2. result = "running"  BY <1>1, <2>1 DEF CleanInv, ObjectsInv
  <2>. QED  BY <1>1, <2>2 DEF DeleteStep
<1>3. CASE i < 7
  <2>1. pc' = Kinds[i + 1] /\ result' = "running"
    BY <1>2, <1>3, KindsFacts DEF DeleteNext
  <2>2. i + 1 \in 1..7  BY <1>3
  <2>3. pc' \in Range(Kinds)  BY <2>1, <2>2, KindsFacts
  <2>. QED  BY <2>1, <2>3, KindsFacts DEF CleanGoal, ClaimsInv, ObjectsInv, Stored, PushSteps, Before
<1>4. CASE i = 7
  <2>1. pc' = "idle" /\ result' = "deleted"
    BY <1>2, <1>4, KindsFacts DEF DeleteNext, EndsWith
  <2>2. ~Deployed' /\ NothingExists'
    BY <2>1 DEF DeleteInv, Gone, Idle, NothingExists, Objects
  <2>3. Mounted(dc') = {}  BY <2>2, DCFacts DEF PushInv, ReadInv
  <2>4. ClaimsInv'  BY <2>1, <2>2, <2>3 DEF ClaimsInv, NothingExists, Stored, PushSteps
  <2>5. ObjectsInv'  BY <2>1, <2>2, KindsFacts DEF ObjectsInv, NothingExists
  <2>. QED  BY <2>4, <2>5 DEF CleanGoal
<1>. QED  BY <1>3, <1>4

LEMMA OthersClean ==
    ASSUME CleanInv, PushInv', Begins \/ Find \/ Stop
    PROVE  CleanGoal
<1>1. ASSUME UNCHANGED cluster, clean' = clean, pc \in {"idle", "find"},
             pc' \in {"exists", "find"} \cup Range(Kinds),
             pc' \in {"find"} \cup Range(Kinds) => result' = "running"
      PROVE  CleanGoal
  <2>1. ClaimsInv'
    BY <1>1, KindsFacts DEF CleanInv, ClaimsInv, cluster, Stored, PushSteps
  <2>2. ObjectsInv'
    BY <1>1, KindsFacts DEF CleanInv, ObjectsInv, Before, Complete, Deployed, cluster
  <2>. QED  BY <2>1, <2>2 DEF CleanGoal
<1>2. CASE Begins
  BY <1>1, <1>2, KindsFacts DEF Begins, Delete, Push
<1>3. CASE Find
  <2>1. pc = "find" /\ UNCHANGED cluster  BY <1>3 DEF Find
  <2>2. CASE Fails  BY <2>1, <2>2, FailsStaysClean
  <2>3. CASE Goto(Kinds[1])
    <3>1. pc' = Kinds[1] /\ clean' = clean /\ result' = result  BY <2>3 DEF Goto
    <3>2. pc' \in Range(Kinds)  BY <3>1, KindsFacts
    <3>3. clean => result = "running"  BY <2>1 DEF CleanInv, ObjectsInv
    <3>. QED  BY <1>1, <2>1, <3>1, <3>2, <3>3, UncleanKeeps
  <2>. QED  BY <1>3, <2>2, <2>3 DEF Find
<1>4. CASE Stop  BY <1>4, CleanFails DEF Stop, EndsWith
<1>. QED  BY <1>2, <1>3, <1>4

LEMMA LinkClean ==
    ASSUME CleanInv, NEW s \in Secrets, Link(s) \/ Unlink(s)
    PROVE  CleanGoal
<1>1. /\ UNCHANGED <<pvc, routes, build, objects, pc, want, left, seen, result, clean>>
      /\ dc'.mounts = dc.mounts /\ dc'.source = dc.source
  <2>1. dc \in DC  BY DEF CleanInv, PushInv, TypeOK
  <2>2. dc'.mounts = dc.mounts /\ dc'.source = dc.source
    BY <2>1 DEF Link, Unlink, DC
  <2>. QED  BY <2>2 DEF Link, Unlink
<1>2. Mounted(dc') = Mounted(dc) /\ (Deployed' <=> Deployed)
  BY <1>1 DEF Mounted, Deployed
<1>3. ClaimsInv'  BY <1>1, <1>2 DEF CleanInv, ClaimsInv
<1>4. ObjectsInv'
  BY <1>1, <1>2, KindsFacts DEF CleanInv, ObjectsInv, Complete
<1>. QED  BY <1>3, <1>4 DEF CleanGoal

----------------------------------------------------------------------------
(* The volumes of the DeploymentConfig *)

MountsInv == IsInjective(dc.mounts)

LEMMA MountsStep ==
    ASSUME TypeOK, ReadInv, MountsInv, [Next]_vars
    PROVE  MountsInv'
<1>1. CASE UNCHANGED dc  BY <1>1 DEF MountsInv
<1>2. CASE CreateDC
  <2>1. PICK order \in Orders(ToMount(NoDC)) :
          dc' = [source |-> want.source, mounts |-> order, env |-> want.env, links |-> {}]
    BY <1>2 DEF CreateDC
  <2>2. ToMount(NoDC) \in SUBSET Storages
    BY StoragesKnown, DCFacts DEF TypeOK
  <2>3. IsInjective(order)  BY <2>1, <2>2, OrderFacts, StoragesAssumption
  <2>. QED  BY <2>1, <2>3 DEF MountsInv
<1>3. CASE PatchDC /\ dc' # dc
  <2>1. /\ pc = "patchDC" /\ ~Conflict
        /\ \E order \in Orders(ToMount(seen)) :
             dc' = [source |-> want.source,
                    mounts |-> Slice(Unmount(seen.mounts, ToUnmount(seen))) \o order,
                    env |-> None, links |-> LinksKept]
    BY <1>3 DEF PatchDC
  <2>2. seen = dc  BY <2>1 DEF Conflict, ReadInv, LateSteps
  <2>3. PICK order \in Orders(ToMount(seen)) :
             dc' = [source |-> want.source,
                    mounts |-> Slice(Unmount(seen.mounts, ToUnmount(seen))) \o order,
                    env |-> None, links |-> LinksKept]
    BY <2>1
  <2>4. IsInjective(dc'.mounts)
    <3>1. want \in Config /\ seen \in DC /\ IsInjective(seen.mounts)
      BY <2>2 DEF TypeOK, MountsInv
    <3>2. dc'.mounts = Slice(Unmount(seen.mounts, ToUnmount(seen))) \o order
      BY <2>3
    <3>. QED  BY <3>1, <3>2, NewMounts
  <2>. QED  BY <2>4 DEF MountsInv
<1>4. CASE \E i \in DOMAIN Kinds : DeleteStep(i)
  <2>1. dc' \in {dc, NoDC}  BY <1>4 DEF DeleteStep, DeleteKind, cluster
  <2>. QED  BY <2>1, DCFacts DEF MountsInv
<1>5. CASE \E s \in Secrets : Link(s) \/ Unlink(s)
  <2>1. dc'.mounts = dc.mounts  BY <1>5 DEF Link, Unlink, TypeOK, DC
  <2>. QED  BY <2>1 DEF MountsInv
<1>6. CASE PushStep /\ ~CreateDC /\ ~PatchDC
  <2>1. UNCHANGED dc
    BY <1>6
       DEF PushStep, CheckExists, StorageDelete, StorageCreate, CreateImageStream,
           CreateBuildConfig, CreateService, CreateSecrets, CreateRoot, CreateObject,
           GetDC, UpdateBuildConfig, DeleteBuildConfig, Build, Rollout, DeleteRoot,
           UrlCreate, UrlDelete, PushSource, cluster
  <2>. QED  BY <1>1, <2>1
<1>7. CASE Begins \/ Find \/ Stop \/ UNCHANGED vars
  BY <1>1, <1>7 DEF Begins, Push, Delete, Find, Stop, cluster, vars
<1>. QED  BY <1>1, <1>2, <1>3, <1>4, <1>5, <1>6, <1>7 DEF Next

----------------------------------------------------------------------------

\* What there is of a component as long as no command has stopped halfway, step
\* by step: which claims exist, and how far the other objects have come.
THEOREM CleanInductive == Spec => [](ClaimsInv /\ ObjectsInv)
<1>1. Init => ClaimsInv /\ ObjectsInv
  <2>1. SUFFICES ASSUME Init PROVE ClaimsInv /\ ObjectsInv  OBVIOUS
  <2>2. Defined(pvc) = {} /\ Defined(routes) = {}  BY <2>1 DEF Init, Defined
  <2>3. ~Deployed  BY <2>1 DEF Init, NoDC, Deployed
  <2>. QED
    BY <2>1, <2>2, <2>3, DCFacts, KindsFacts
       DEF Init, ClaimsInv, ObjectsInv, Stored, PushSteps, Before
<1>2. CleanInv /\ PushInv' /\ DeleteInv' /\ [Next]_vars => CleanGoal
  <2>1. SUFFICES ASSUME CleanInv, PushInv', DeleteInv', [Next]_vars PROVE CleanGoal
    OBVIOUS
  <2>2. CASE UNCHANGED vars
    BY <2>1, <2>2
       DEF vars, CleanInv, CleanGoal, ClaimsInv, ObjectsInv, Complete, Deployed
  <2>3. CASE PushStep
    BY <2>1, <2>3, CheckExistsClean, StorageStepClean, CreationClean, CreateRootClean,
       UpdateClean, WriteClean, UrlsClean DEF PushStep
  <2>4. CASE \E i \in DOMAIN Kinds : DeleteStep(i)
    BY <2>1, <2>4, DeleteClean, KindsFacts
  <2>. QED  BY <2>1, <2>2, <2>3, <2>4, OthersClean, LinkClean DEF Next
<1>. QED
  BY <1>1, <1>2, PushInductive, DeleteInductive, PTL DEF Spec, CleanInv, CleanGoal

\* No volume is mounted twice.
THEOREM MountsOnce == Spec => []MountsInv
<1>1. Init => MountsInv  BY DCFacts DEF Init, MountsInv
<1>. QED  BY <1>1, MountsStep, TypeCorrect, ReadInductive, PTL DEF Spec

\* As long as no command has stopped halfway, the objects of the component are
\* exactly those that its DeploymentConfig calls for.
THEOREM CleanIsExact == Spec => []CleanMeansExact
<1>1. TypeOK /\ ReadInv /\ ClaimsInv /\ ObjectsInv /\ MountsInv => CleanMeansExact
  <2>1. SUFFICES ASSUME TypeOK, ReadInv, ClaimsInv, ObjectsInv, MountsInv, Idle, clean
                 PROVE  IF Deployed
                        THEN /\ Defined(pvc) = Mounted(dc)
                             /\ IsInjective(dc.mounts)
                             /\ objects = {"imageStream", "service", "secrets"}
                                  \cup (IF dc.source = "local" THEN {"root"} ELSE {})
                             /\ build # {} <=> dc.source = "git"
                        ELSE NothingExists
    BY DEF CleanMeansExact
  <2>2. /\ Defined(pvc) = Mounted(dc) /\ pc = "idle"
    BY <2>1 DEF ClaimsInv, Idle
  <2>3. CASE Deployed
    BY <2>1, <2>2, <2>3 DEF ObjectsInv, Complete, Base, RootOf, MountsInv, Before
  <2>4. CASE ~Deployed
    <3>1. Mounted(dc) = {}  BY <2>1, <2>4, DCFacts DEF ReadInv
    <3>. QED  BY <2>1, <2>2, <2>4, <3>1 DEF ObjectsInv, NothingExists, Before
  <2>. QED  BY <2>3, <2>4
<1>. QED  BY <1>1, TypeCorrect, ReadInductive, CleanInductive, MountsOnce, PTL

----------------------------------------------------------------------------
(* The abstract specification                                               *)

\* How the steps of a push end it: the ghost `clean` tells.
PushEnds ==
  /\ pc' # "idle" => clean' = clean /\ (pc # "exists" => pc' # "exists")
  /\ pc' = "idle" /\ result' = "pushed" => clean' = clean /\ pc # "exists"
  /\ pc' = "idle" /\ result' = "failed" => IF pc = "exists" THEN clean' = clean /\ UNCHANGED cluster
                                                             ELSE clean' = FALSE

LEMMA FailsEnds ==
    ASSUME Fails, pc # "find", pc = "exists" => UNCHANGED cluster, clean \in BOOLEAN
    PROVE  PushEnds
BY DEF Fails, EndsWith, PushEnds

LEMMA GoesOn ==
    ASSUME NEW next, next \notin {"idle", "exists"}, Goto(next)
    PROVE  PushEnds
BY DEF Goto, PushEnds

LEMMA UrlStepsEnds == ASSUME NEW r, UrlSteps(r), pc # "exists" PROVE PushEnds
BY DEF UrlSteps, PushEnds

LEMMA UrlsFromEnds == ASSUME UrlsFrom, pc # "exists" PROVE PushEnds
BY UrlsFromSteps, UrlStepsEnds DEF PushEnds

LEMMA StorageFromEnds == ASSUME StorageCreateFrom PROVE PushEnds
BY GoesOn DEF StorageCreateFrom, AfterStorage

LEMMA CreateObjectEnds ==
    ASSUME NEW o, NEW next, CreateObject(o, next), next \notin {"idle", "exists"},
           pc \notin {"find", "exists"}, clean \in BOOLEAN
    PROVE  PushEnds
BY GoesOn, FailsEnds DEF CreateObject

LEMMA PushStepEnds == ASSUME clean \in BOOLEAN, PushStep PROVE PushEnds
<1>1. CASE CheckExists
  <2>1. pc = "exists" /\ UNCHANGED cluster  BY <1>1 DEF CheckExists
  <2>. QED  BY <1>1, <2>1, FailsEnds, StorageFromEnds, GoesOn DEF CheckExists
<1>2. ASSUME NEW s \in Storages, StorageDelete(s) PROVE PushEnds
  <2>1. pc = "storageDelete"  BY <1>2 DEF StorageDelete
  <2>. QED  BY <1>2, <2>1, FailsEnds, StorageFromEnds, GoesOn DEF StorageDelete, Visit
<1>3. ASSUME NEW s \in Storages, StorageCreate(s) PROVE PushEnds
  <2>1. pc = "storageCreate"  BY <1>3 DEF StorageCreate
  <2>2. AfterStorage \notin {"idle", "exists"}  BY DEF AfterStorage
  <2>. QED  BY <1>3, <2>1, <2>2, FailsEnds, GoesOn DEF StorageCreate, Visit
<1>4. CASE CreateImageStream \/ CreateService \/ CreateSecrets
  BY <1>4, CreateObjectEnds DEF CreateImageStream, CreateService, CreateSecrets
<1>5. CASE CreateBuildConfig
  BY <1>5, FailsEnds, GoesOn DEF CreateBuildConfig
<1>6. CASE CreateDC
  BY <1>6, GoesOn DEF CreateDC
<1>7. CASE CreateRoot
  <2>1. pc = "root"  BY <1>7 DEF CreateRoot
  <2>. QED  BY <1>7, <2>1, CreateObjectEnds, FailsEnds, UrlsFromEnds DEF CreateRoot
<1>8. CASE GetDC
  BY <1>8, GoesOn DEF GetDC
<1>9. CASE UpdateBuildConfig
  BY <1>9, FailsEnds, GoesOn DEF UpdateBuildConfig
<1>10. CASE DeleteBuildConfig
  BY <1>10, GoesOn DEF DeleteBuildConfig
<1>11. CASE Build
  BY <1>11, GoesOn DEF Build
<1>12. CASE PatchDC
  BY <1>12, FailsEnds, GoesOn, UrlsFromEnds DEF PatchDC
<1>13. CASE Rollout
  BY <1>13, FailsEnds, GoesOn, UrlsFromEnds DEF Rollout
<1>14. CASE DeleteRoot
  BY <1>14, FailsEnds, UrlsFromEnds DEF DeleteRoot
<1>15. ASSUME NEW u \in Urls, UrlCreate(u) PROVE PushEnds
  <2>1. pc = "urlCreate"  BY <1>15 DEF UrlCreate
  <2>. QED  BY <1>15, <2>1, UrlDeleteFromSteps, UrlStepsEnds, GoesOn DEF UrlCreate, Visit
<1>16. ASSUME NEW u \in Urls, UrlDelete(u) PROVE PushEnds
  <2>1. pc = "urlDelete"  BY <1>16 DEF UrlDelete
  <2>2. AfterUrls => PushEnds
    BY <2>1 DEF AfterUrls, Goto, EndsWith, PushEnds
  <2>. QED  BY <1>16, <2>1, <2>2, GoesOn DEF UrlDelete, Visit
<1>17. CASE PushSource
  BY <1>17, FailsEnds DEF PushSource, EndsWith, PushEnds
<1>. QED
  BY <1>1, <1>2, <1>3, <1>4, <1>5, <1>6, <1>7, <1>8, <1>9, <1>10, <1>11, <1>12,
     <1>13, <1>14, <1>15, <1>16, <1>17 DEF PushStep

ReconcileStep == [Promise!Next]_(Promise!variables)

\* The descriptions of what is asked for and of what is there.
LEMMA DescriptionFacts ==
    TypeOK => Wanted \in Description /\ Wanted # Unknown /\ NotThere # Unknown
<1>. SUFFICES ASSUME TypeOK
              PROVE  Wanted \in Description /\ Wanted # Unknown /\ NotThere # Unknown
  OBVIOUS
<1>1. Wanted \in Description
  BY SourcesAssumption, SizeFacts
     DEF TypeOK, Config, Description, Wanted, Defined, Partial
<1>2. Wanted # Unknown
  <2>1. Wanted.source # "unknown"
    BY SourcesAssumption DEF TypeOK, Config, Wanted
  <2>2. Unknown.source = "unknown"  BY DEF Unknown
  <2>. QED  BY <2>1, <2>2
<1>3. NotThere # Unknown
  <2>1. NotThere.source = "none" /\ Unknown.source = "unknown"  BY DEF NotThere, Unknown
  <2>. QED  BY <2>1
<1>. QED  BY <1>1, <1>2, <1>3

LEMMA SeenTypes == TypeOK => Seen \in Description \cup {NotThere, Broken}
<1>1. TypeOK /\ Deployed => Shown \in Description
  <2>. SUFFICES ASSUME TypeOK, Deployed PROVE Shown \in Description  OBVIOUS
  <2>1. dc.source \in {"local", "git"}  BY DEF TypeOK, DC, Deployed
  <2>2. [s \in Storages |-> IF s \in Mounted(dc) THEN pvc[s] ELSE None] \in Partial(Storages, Quantities)
    BY DEF TypeOK, Partial
  <2>3. Defined(routes) \in SUBSET Urls  BY DEF TypeOK, Partial, Defined
  <2>. QED  BY <2>1, <2>2, <2>3 DEF Shown, Description
<1>. QED  BY <1>1 DEF Seen

\* What a push that succeeds leaves is what it was asked for.
LEMMA SuccessIsSeen ==
    TypeOK /\ PushedMatchesConfig /\ Idle /\ result = "pushed" => Seen = Wanted
<1>. SUFFICES ASSUME TypeOK, PushedMatchesConfig, Idle, result = "pushed"
              PROVE  Seen = Wanted
  OBVIOUS
<1>1. /\ dc.source = want.source /\ Mounted(dc) = Defined(want.storage)
      /\ \A s \in Mounted(dc) : pvc[s] = Canonical[want.storage[s]]
      /\ Defined(routes) = Defined(want.urls)
      /\ PodCanRun /\ (want.source = "git" => build # {})
  BY DEF PushedMatchesConfig
<1>2. Deployed
  BY <1>1, SourcesAssumption DEF TypeOK, Config, Deployed
<1>3. ASSUME NEW s \in Storages
      PROVE  (IF s \in Mounted(dc) THEN pvc[s] ELSE None) = Canonical[want.storage[s]]
  <2>1. want.storage \in [Storages -> Sizes \cup {None}]  BY DEF TypeOK, Config, Partial
  <2>. QED  BY <1>1, <2>1, SizeFacts DEF Defined
<1>. QED  BY <1>1, <1>2, <1>3 DEF Seen, Shown, Wanted

\* Links are no part of a description.
LEMMA SeenStays ==
    ASSUME \/ UNCHANGED cluster
           \/ /\ dc'.source = dc.source /\ dc'.mounts = dc.mounts
              /\ UNCHANGED <<pvc, routes, build, objects>>
    PROVE  Seen' = Seen
BY DEF Seen, Shown, Deployed, PodCanRun, Readable, Mounted, NothingExists, cluster

\* A step that the abstract specification does not see.
LEMMA Stutters ==
    ASSUME Wish' = Wish, Undecided' = Undecided, Live' = Live, Said' = Said, clean' = clean
    PROVE  ReconcileStep
BY DEF ReconcileStep, Promise!variables

LEMMA PushReconciles ==
    ASSUME CleanInv, TypeOK', PushedMatchesConfig', PushStep
    PROVE  ReconcileStep
<1>1. TypeOK /\ ReadInv /\ clean \in BOOLEAN  BY DEF CleanInv, PushInv, TypeOK
<1>2. Flow  BY <1>1, PushStepKeepsReadInv
<1>3. PushEnds  BY <1>1, PushStepEnds
<1>4. pc \in PushSteps /\ ~Idle /\ Wish = Wanted /\ Said = "running"
  BY <1>2 DEF Flow, Wish, Said, Idle, PushSteps
<1>5. /\ Wanted' = Wanted /\ Wanted \in Description /\ Wanted # Unknown
      /\ Seen' \in Description \cup {NotThere, Broken}
  <2>1. Wanted' = Wanted  BY <1>2 DEF Flow, Wanted, Defined
  <2>2. (TypeOK => Seen \in Description \cup {NotThere, Broken})'  BY SeenTypes, PTL
  <2>. QED  BY <1>1, <2>1, <2>2, DescriptionFacts
<1>6. CASE pc' # "idle"
  <2>1. /\ Wish' = Wanted /\ Said' = "running" /\ clean' = clean /\ ~Idle'
        /\ pc # "exists" => ~Undecided /\ ~Undecided'
    BY <1>2, <1>3, <1>4, <1>5, <1>6 DEF Flow, PushEnds, Wish, Said, Idle, PushSteps, Undecided
  <2>2. CASE pc # "exists"
    <3>1. ~Undecided /\ ~Undecided' /\ Undecided' = Undecided  BY <2>1, <2>2 DEF Undecided
    <3>2. Live = Unknown /\ Live' = Unknown  BY <3>1 DEF Live
    <3>. QED  BY <1>4, <2>1, <3>1, <3>2, Stutters
  <2>3. CASE pc = "exists"
    <3>1. Undecided  BY <2>3 DEF Undecided
    <3>2. CASE Undecided'
      <4>1. CheckExists  BY <1>2, <2>3 DEF PushStep, StorageDelete, StorageCreate,
              CreateImageStream, CreateBuildConfig, CreateDC, CreateService, CreateSecrets,
              CreateRoot, GetDC, UpdateBuildConfig, DeleteBuildConfig, Build, PatchDC,
              Rollout, DeleteRoot, UrlCreate, UrlDelete, PushSource
      <4>2. pc' \in {"storageDelete", "storageCreate", "getDC", "imageStream"}
        BY <1>6, <4>1, StorageCreateFromFlow DEF CheckExists, Fails, EndsWith, Goto
      <4>. QED  BY <3>2, <4>2 DEF Undecided
    <3>3. CASE ~Undecided'
      <4>1. Promise!Begin
        BY <1>4, <1>5, <2>1, <3>1, <3>3 DEF Promise!Begin, Live
      <4>. QED  BY <4>1 DEF ReconcileStep, Promise!Next
    <3>. QED  BY <3>2, <3>3
  <2>. QED  BY <2>2, <2>3
<1>7. CASE pc' = "idle"
  <2>1. Wish' = Unknown /\ Undecided' /\ Live' = Seen'
    BY <1>7 DEF Wish, Idle, Undecided, Live
  <2>2. CASE result' = "pushed"
    <3>1. clean' = clean /\ ~Undecided
      BY <1>2, <1>3, <1>7, <2>2 DEF PushEnds, Flow, PushSteps, Undecided
    <3>2. Said' = "done"  BY <1>7, <2>2 DEF Said, Idle
    <3>3. Seen' = Wanted'
      <4>1. (TypeOK /\ PushedMatchesConfig /\ Idle /\ result = "pushed" => Seen = Wanted)'
        BY SuccessIsSeen, PTL
      <4>. QED  BY <1>7, <2>2, <4>1 DEF Idle
    <3>4. Promise!Succeed
      BY <1>4, <1>5, <2>1, <3>1, <3>2, <3>3 DEF Promise!Succeed, Promise!Ends
    <3>. QED  BY <3>4 DEF ReconcileStep, Promise!Next
  <2>3. CASE result' = "failed"
    <3>1. Said' = "failed"  BY <1>7, <2>3 DEF Said, Idle
    <3>2. CASE pc = "exists"
      <4>1. Undecided /\ clean' = clean /\ Seen' = Seen
        BY <1>3, <1>7, <2>3, <3>2, SeenStays DEF PushEnds, Undecided
      <4>2. Promise!Refuse
        BY <1>4, <1>5, <2>1, <3>1, <4>1 DEF Promise!Refuse, Promise!Ends, Live
      <4>. QED  BY <4>2 DEF ReconcileStep, Promise!Next
    <3>3. CASE pc # "exists"
      <4>1. ~Undecided /\ clean' = FALSE
        BY <1>2, <1>3, <1>7, <2>3, <3>3 DEF PushEnds, Flow, PushSteps, Undecided
      <4>2. Promise!Stop
        BY <1>5, <2>1, <3>1, <4>1 DEF Promise!Stop, Promise!Ends
      <4>. QED  BY <4>2 DEF ReconcileStep, Promise!Next
    <3>. QED  BY <3>2, <3>3
  <2>. QED  BY <1>2, <1>7, <2>2, <2>3 DEF Flow
<1>. QED  BY <1>6, <1>7

\* The calls of a delete.
KindSteps == Range(Kinds)

LEMMA KindsAreOthers ==
    /\ \A i \in 1..7 : Kinds[i] \in KindSteps /\ Kinds[i] \notin PushSteps
    /\ \A i \in 1..7 : Kinds[i] \notin {"idle", "exists", "find"}
    /\ KindSteps = {Kinds[i] : i \in 1..7}
BY KindsFacts DEF KindSteps, PushSteps, Range

LEMMA BeginsReconciles ==
    ASSUME TypeOK', Begins
    PROVE  ReconcileStep
<1>1. /\ Idle /\ ~Idle' /\ Undecided /\ Undecided' /\ clean' = clean /\ UNCHANGED cluster
      /\ result' = "running"
  BY DEF Begins, Push, Delete, Idle, Undecided
<1>2. Wish' \in Description \cup {NotThere}
  <2>1. (TypeOK => Wanted \in Description /\ Wanted # Unknown /\ NotThere # Unknown)'
    BY DescriptionFacts, PTL
  <2>2. Wish' \in {Wanted', NotThere'}  BY <1>1 DEF Wish
  <2>3. NotThere' = NotThere  BY DEF NotThere
  <2>. QED  BY <2>1, <2>2, <2>3
<1>3. Wish = Unknown /\ Said' = "running" /\ Live' = Live
  BY <1>1, SeenStays DEF Wish, Said, Live
<1>4. (~Undecided)' = ~Undecided  BY <1>1
<1>5. Promise!Ask  BY <1>1, <1>2, <1>3, <1>4 DEF Promise!Ask
<1>. QED  BY <1>5 DEF ReconcileStep, Promise!Next

\* A command that ends before its first change.
LEMMA RefusalReconciles ==
    ASSUME TypeOK, pc \in {"exists", "find"}, EndsWith("failed"), clean' = clean, UNCHANGED cluster
    PROVE  ReconcileStep
<1>1. /\ ~Idle /\ Idle' /\ Undecided /\ Undecided' /\ Seen' = Seen
      /\ result' = "failed"
  BY SeenStays DEF EndsWith, Idle, Undecided
<1>2. Wish # Unknown
  BY <1>1, DescriptionFacts DEF Wish
<1>3. Wish' = Unknown /\ Said' = "failed" /\ Live' = Live
  BY <1>1 DEF Wish, Said, Live
<1>4. Promise!Refuse
  BY <1>1, <1>2, <1>3 DEF Promise!Refuse, Promise!Ends
<1>. QED  BY <1>4 DEF ReconcileStep, Promise!Next

\* A command that ends after it.
LEMMA StopReconciles ==
    ASSUME TypeOK', pc \notin {"idle", "exists", "find"}, EndsWith("failed"), clean' = FALSE
    PROVE  ReconcileStep
<1>1. ~Undecided /\ Idle' /\ Undecided' /\ result' = "failed"
  BY DEF EndsWith, Idle, Undecided
<1>2. Wish' = Unknown /\ Said' = "failed" /\ Live' = Seen'
  BY <1>1 DEF Wish, Said, Live
<1>3. (TypeOK => Seen \in Description \cup {NotThere, Broken})'  BY SeenTypes, PTL
<1>4. Seen' \in Description \cup {NotThere, Broken}
  BY <1>3
<1>5. Promise!Stop
  BY <1>1, <1>2, <1>4 DEF Promise!Stop, Promise!Ends
<1>. QED  BY <1>5 DEF ReconcileStep, Promise!Next

LEMMA FindReconciles ==
    ASSUME TypeOK, Find
    PROVE  ReconcileStep
<1>1. pc = "find" /\ UNCHANGED cluster  BY DEF Find
<1>2. CASE Fails
  BY <1>1, <1>2, RefusalReconciles DEF Fails, TypeOK
<1>3. CASE Goto(Kinds[1])
  <2>1. /\ ~Idle /\ ~Idle' /\ Undecided /\ ~Undecided' /\ clean' = clean
        /\ pc \notin PushSteps /\ pc' \notin PushSteps
    BY <1>1, <1>3, KindsFacts DEF Goto, Idle, Undecided, PushSteps
  <2>2. /\ Wish = NotThere /\ Wish' = NotThere /\ Said = "running" /\ Said' = "running"
        /\ Live' = Unknown
    BY <2>1 DEF Wish, Said, Live
  <2>3. Promise!Begin
    BY <2>1, <2>2, DescriptionFacts DEF Promise!Begin
  <2>. QED  BY <2>3 DEF ReconcileStep, Promise!Next
<1>. QED  BY <1>2, <1>3 DEF Find

LEMMA DeleteReconciles ==
    ASSUME CleanInv, TypeOK', DeletedLeavesNothing', NEW i \in 1..7, DeleteStep(i)
    PROVE  ReconcileStep
<1>1. /\ pc \in KindSteps /\ pc \notin PushSteps /\ pc \notin {"idle", "exists", "find"}
      /\ result \in {"running", "failed"} /\ (clean => result = "running")
  <2>1. /\ pc \in KindSteps /\ pc \notin PushSteps /\ pc \notin {"idle", "exists", "find"}
    BY KindsAreOthers DEF DeleteStep
  <2>. QED  BY <2>1 DEF CleanInv, DeleteInv, ObjectsInv, Idle, KindSteps
<1>2. ~Idle /\ ~Undecided /\ Wish = NotThere /\ Said = "running" /\ Live = Unknown
  BY <1>1 DEF Idle, Undecided, Wish, Said, Live
<1>3. CASE i < Len(Kinds)
  <2>1. pc' = Kinds[i + 1] /\ i + 1 \in 1..7
    BY <1>3, KindsFacts DEF DeleteStep, DeleteNext
  <2>2. pc' \notin PushSteps /\ pc' \notin {"idle", "exists", "find"}
    BY <2>1, KindsAreOthers
  <2>3. ~Idle' /\ ~Undecided' /\ Wish' = NotThere /\ Said' = "running" /\ Live' = Unknown
    BY <2>2 DEF Idle, Undecided, Wish, Said, Live
  <2>4. CASE clean' = clean
    <3>1. Undecided' = Undecided  BY <1>1, <2>2 DEF Undecided
    <3>. QED  BY <1>2, <2>3, <2>4, <3>1, Stutters
  <2>5. CASE clean' = FALSE
    <3>1. (~Undecided)' = ~Undecided  BY <1>2, <2>3
    <3>2. Promise!Falter  BY <1>2, <2>3, <2>5, <3>1 DEF Promise!Falter
    <3>. QED  BY <3>2 DEF ReconcileStep, Promise!Next
  <2>. QED  BY <2>4, <2>5 DEF DeleteStep
<1>4. CASE ~(i < Len(Kinds))
  <2>1. CASE EndsWith("deleted") /\ clean' = clean
    <3>1. Idle' /\ Undecided' /\ result' = "deleted"  BY <2>1 DEF EndsWith, Idle, Undecided
    <3>2. Wish' = Unknown /\ Said' = "done" /\ Live' = Seen'
      BY <3>1 DEF Wish, Said, Live
    <3>3. ~Deployed' /\ NothingExists'  BY <3>1 DEF DeletedLeavesNothing
    <3>4. Seen' = NotThere'  BY <3>3 DEF Seen
    <3>5. NotThere' = NotThere  BY DEF NotThere
    <3>6. Promise!Succeed
      BY <1>2, <2>1, <3>1, <3>2, <3>4, <3>5 DEF Promise!Succeed, Promise!Ends
    <3>. QED  BY <3>6 DEF ReconcileStep, Promise!Next
  <2>2. CASE EndsWith("failed") /\ clean' = FALSE
    BY <1>1, <2>2, StopReconciles
  <2>3. CASE /\ DeleteNext(i, result) /\ UNCHANGED <<clean, faults>>
    <3>1. CASE result = "running"
      <4>1. EndsWith("deleted")  BY <1>4, <2>3, <3>1 DEF DeleteNext
      <4>. QED  BY <2>1, <2>3, <4>1
    <3>2. CASE result = "failed"
      <4>1. EndsWith("failed")  BY <1>4, <2>3, <3>2 DEF DeleteNext
      <4>2. clean' = FALSE  BY <1>1, <2>3, <3>2 DEF CleanInv, PushInv, TypeOK
      <4>. QED  BY <2>2, <4>1, <4>2
    <3>. QED  BY <1>1, <3>1, <3>2
  <2>4. CASE DeleteNext(i, "failed") /\ clean' = FALSE
    <3>1. EndsWith("failed")  BY <1>4, <2>4 DEF DeleteNext
    <3>. QED  BY <2>2, <2>4, <3>1
  <2>. QED  BY <2>3, <2>4 DEF DeleteStep
<1>. QED  BY <1>3, <1>4

LEMMA LinkReconciles ==
    ASSUME TypeOK, NEW s \in Secrets, Link(s) \/ Unlink(s)
    PROVE  ReconcileStep
<1>1. /\ dc'.source = dc.source /\ dc'.mounts = dc.mounts
      /\ UNCHANGED <<pvc, routes, build, objects, pc, want, result, clean>>
  BY DEF TypeOK, DC, Link, Unlink
<1>2. Seen' = Seen  BY <1>1, SeenStays
<1>3. /\ Wish' = Wish /\ Said' = Said /\ Undecided' = Undecided /\ Live' = Live
  BY <1>1, <1>2 DEF Wish, Said, Undecided, Live, Idle, Wanted, Defined, NotThere, Unknown
<1>. QED  BY <1>1, <1>3, Stutters

LEMMA StepReconciles ==
    ASSUME CleanInv, TypeOK', PushedMatchesConfig', DeletedLeavesNothing', [Next]_vars
    PROVE  ReconcileStep
<1>. USE DEF CleanInv, PushInv
<1>1. TypeOK  OBVIOUS
<1>2. CASE Stop
  <2>1. /\ EndsWith("failed") /\ UNCHANGED cluster /\ pc # "idle"
        /\ clean' = (clean /\ pc \in {"exists", "find"})
    BY <1>2 DEF Stop
  <2>2. CASE pc \in {"exists", "find"}
    BY <1>1, <2>1, <2>2, RefusalReconciles DEF TypeOK
  <2>3. CASE pc \notin {"exists", "find"}
    BY <2>1, <2>3, StopReconciles
  <2>. QED  BY <2>2, <2>3
<1>3. CASE UNCHANGED vars
  <2>1. UNCHANGED <<cluster, pc, want, result, clean>>  BY <1>3 DEF vars, cluster
  <2>2. Seen' = Seen  BY <2>1, SeenStays
  <2>3. /\ Wish' = Wish /\ Said' = Said /\ Undecided' = Undecided /\ Live' = Live
    BY <2>1, <2>2 DEF Wish, Said, Undecided, Live, Idle, Wanted, Defined, NotThere, Unknown
  <2>. QED  BY <2>1, <2>3, Stutters
<1>4. CASE \E i \in DOMAIN Kinds : DeleteStep(i)
  BY <1>4, KindsFacts, DeleteReconciles
<1>. QED
  BY <1>1, <1>2, <1>3, <1>4, BeginsReconciles, PushReconciles, FindReconciles,
     LinkReconciles DEF Next

\* The calls to the API, stopped anywhere and mixed with links, do what the
\* abstract specification promises of the two commands: refused, done as asked,
\* or reported as failed.
THEOREM CommandsAreReconciled == Spec => CommandsReconcile
<1>1. Init => Promise!Init
  <2>. SUFFICES ASSUME Init PROVE Promise!Init  OBVIOUS
  <2>1. Idle /\ Undecided /\ ~Deployed /\ NothingExists /\ result = "none" /\ clean = TRUE
    BY DEF Init, Idle, Undecided, Deployed, NoDC, NothingExists, Defined
  <2>2. Wish = Unknown /\ Live = NotThere /\ Said = "none"
    BY <2>1 DEF Wish, Live, Said, Seen
  <2>. QED  BY <2>1, <2>2 DEF Promise!Init
<1>2. /\ CleanInv /\ TypeOK' /\ PushedMatchesConfig' /\ DeletedLeavesNothing' /\ [Next]_vars
      => [Promise!Next]_(Promise!variables)
  BY StepReconciles DEF ReconcileStep
<1>3. CleanInv => TypeOK /\ PushedMatchesConfig  BY DEF CleanInv, PushInv
<1>. QED
  BY <1>1, <1>2, <1>3, PushInductive, DeleteInductive, CleanInductive, DeleteIsComplete, PTL
     DEF Spec, CommandsReconcile, Promise!Spec, CleanInv

=============================================================================
