-------------------------- MODULE LocalConfigProofs --------------------------
(* What is proved about LocalConfig, for any number of terminals: a file is    *)
(* never left empty, and the entries of its lists stay unique; and for one     *)
(* terminal that it implements Settings.                                       *)
EXTENDS LocalConfig, SequenceTheorems, WellFoundedInduction, NaturalsInduction, TLAPS

\* What the argument needs of the types: the rest of the state is arbitrary.
Shape ==
  /\ faults \in Nat
  /\ DOMAIN file = FileIds
  /\ DOMAIN pc = Terminals /\ DOMAIN cmd = Terminals

IInv == Shape /\ EmptyOnlyWhileWritten

LEMMA FileOfInFileIds == \A c : FileOf(c) \in FileIds
  BY DEF FileOf, FileIds

\* A document that is saved is not the empty file.
LEMMA OverIsNotEmpty == ASSUME NEW f, NEW d, NEW g \in Over(f, d) PROVE g # Empty
  BY DEF Over, Empty, Is, Torn

LEMMA InitIInv == Init => IInv
  BY DEF Init, IInv, Shape, EmptyOnlyWhileWritten, Empty, Absent, FileIds

\* A step that leaves the files alone, and is not made by a terminal that is
\* writing one, leaves every writer in place.
LEMMA WritersStay ==
  ASSUME IInv, NEW p \in Terminals, pc[p] # "save", UNCHANGED file,
         faults' \in Nat, faults' >= faults,
         DOMAIN pc' = Terminals, DOMAIN cmd' = Terminals,
         \A q \in Terminals \ {p} : pc'[q] = pc[q] /\ cmd'[q] = cmd[q]
  PROVE  IInv'
  <1>1. Shape'
    BY DEF IInv, Shape
  <1>2. ASSUME NEW f \in FileIds, file'[f] = Empty
        PROVE  faults' > 0 \/ \E q \in Terminals : pc'[q] = "save" /\ FileOf(cmd'[q]) = f
    <2>1. faults > 0 \/ \E q \in Terminals : pc[q] = "save" /\ FileOf(cmd[q]) = f
      BY <1>2 DEF IInv, EmptyOnlyWhileWritten
    <2>2. CASE faults > 0
      BY <2>2 DEF IInv, Shape
    <2>3. ASSUME NEW q \in Terminals, pc[q] = "save", FileOf(cmd[q]) = f
          PROVE  pc'[q] = "save" /\ FileOf(cmd'[q]) = f
      BY <2>3
    <2>4. QED
      BY <2>1, <2>2, <2>3
  <1>3. EmptyOnlyWhileWritten'
    BY <1>2 DEF EmptyOnlyWhileWritten, FileOf
  <1>4. QED
    BY <1>1, <1>3 DEF IInv

LEMMA StartKeeps == ASSUME IInv, NEW p \in Terminals, NEW c, Start(p, c) PROVE IInv'
  BY WritersStay DEF Start, Goto, IInv, Shape

LEMMA ContextKeeps == ASSUME IInv, NEW p \in Terminals, Context(p) PROVE IInv'
  BY WritersStay DEF Context, Goto, Ends, IInv, Shape

LEMMA ReadKeeps == ASSUME IInv, NEW p \in Terminals, Read(p) PROVE IInv'
  BY WritersStay DEF Read, Goto, Ends, IInv, Shape

LEMMA AskKeeps == ASSUME IInv, NEW p \in Terminals, Ask(p) PROVE IInv'
  BY WritersStay DEF Ask, Goto, Ends, IInv, Shape

\* The terminal that truncates the file is the one that will fill it.
LEMMA WriteKeeps == ASSUME IInv, NEW p \in Terminals, Write(p) PROVE IInv'
  <1>1. CASE Breaks(cmd[p], mem[p])
    BY <1>1, WritersStay DEF Write, Goto, Ends, IInv, Shape
  <1>2. CASE ~Breaks(cmd[p], mem[p])
    <2>1. /\ file' = [file EXCEPT ![FileOf(cmd[p])] = Empty]
          /\ pc' = [pc EXCEPT ![p] = "save"] /\ pc[p] = "write"
          /\ UNCHANGED <<cmd, faults>>
      BY <1>2 DEF Write, Goto
    <2>2. Shape'
      BY <2>1 DEF IInv, Shape
    <2>3. ASSUME NEW f \in FileIds, file'[f] = Empty
          PROVE  faults > 0 \/ \E q \in Terminals : pc'[q] = "save" /\ FileOf(cmd[q]) = f
      <3>1. CASE f = FileOf(cmd[p])
        BY <2>1, <3>1 DEF IInv, Shape
      <3>2. CASE f # FileOf(cmd[p])
        BY <2>1, <2>3, <3>2 DEF IInv, Shape, EmptyOnlyWhileWritten
      <3>3. QED
        BY <3>1, <3>2
    <2>4. EmptyOnlyWhileWritten'
      BY <2>1, <2>3 DEF EmptyOnlyWhileWritten, FileOf
    <2>5. QED
      BY <2>2, <2>4 DEF IInv
  <1>3. QED
    BY <1>1, <1>2

LEMMA SaveKeeps == ASSUME IInv, NEW p \in Terminals, Save(p) PROVE IInv'
  <1>1. CASE pc[p] = "lost"
    BY <1>1, WritersStay DEF Save, Goto, Ends, IInv, Shape
  <1>2. CASE pc[p] = "save"
    <2>1. PICK g \in Over(file[FileOf(cmd[p])], mem[p]) :
            /\ file' = [file EXCEPT ![FileOf(cmd[p])] = g]
            /\ pc' = [pc EXCEPT ![p] = "idle"]
            /\ UNCHANGED <<cmd, faults>>
      BY <1>2 DEF Save, Ends, Goto
    <2>2. Shape'
      BY <2>1 DEF IInv, Shape
    <2>3. ASSUME NEW f \in FileIds, file'[f] = Empty
          PROVE  faults > 0 \/ \E q \in Terminals : pc'[q] = "save" /\ FileOf(cmd[q]) = f
      <3>1. g # Empty
        BY OverIsNotEmpty
      <3>2. f # FileOf(cmd[p]) /\ file[f] = Empty
        BY <2>1, <2>3, <3>1, FileOfInFileIds DEF IInv, Shape
      <3>3. QED
        BY <2>1, <3>2 DEF IInv, Shape, EmptyOnlyWhileWritten
    <2>4. EmptyOnlyWhileWritten'
      BY <2>1, <2>3 DEF EmptyOnlyWhileWritten, FileOf
    <2>5. QED
      BY <2>2, <2>4 DEF IInv
  <1>3. QED
    BY <1>1, <1>2 DEF Save

\* Writers of the removed file are lost, but that file is not empty: it is gone.
LEMMA RemoveKeeps == ASSUME IInv, NEW p \in Terminals, Remove(p) PROVE IInv'
  <1>1. /\ file' = [file EXCEPT !["local"] = Absent]
        /\ DOMAIN pc' = Terminals
        /\ \A q \in Terminals : pc[q] = "save" /\ FileOf(cmd[q]) # "local" => pc'[q] = "save"
        /\ UNCHANGED <<cmd, faults>>
    BY DEF Remove
  <1>2. Shape'
    BY <1>1 DEF IInv, Shape
  <1>3. ASSUME NEW f \in FileIds, file'[f] = Empty
        PROVE  faults > 0 \/ \E q \in Terminals : pc'[q] = "save" /\ FileOf(cmd[q]) = f
    <2>1. f # "local" /\ file[f] = Empty
      BY <1>1, <1>3 DEF IInv, Shape, Absent, Empty, FileIds
    <2>2. QED
      BY <1>1, <2>1 DEF IInv, EmptyOnlyWhileWritten
  <1>4. EmptyOnlyWhileWritten'
    BY <1>1, <1>3 DEF EmptyOnlyWhileWritten, FileOf
  <1>5. QED
    BY <1>2, <1>4 DEF IInv

LEMMA DieKeeps == ASSUME IInv, NEW p \in Terminals, Die(p) PROVE IInv'
  <1>1. /\ faults' \in Nat /\ faults' > 0
        /\ UNCHANGED <<file, cmd>> /\ pc' = [pc EXCEPT ![p] = "idle"]
    BY DEF Die, Ends, Goto, IInv, Shape
  <1>2. QED
    BY <1>1 DEF IInv, Shape, EmptyOnlyWhileWritten, FileOf

\* A settings file is empty only while a command writes it, or after a crash:
\* truncation and write are two calls, in any number of terminals, and commands
\* that fail or are refused leave the file as it was (WriteToFile).
THEOREM NeverLeftEmpty == Spec => []EmptyOnlyWhileWritten
  <1>1. Init => IInv
    BY InitIInv
  <1>2. IInv /\ [Next]_vars => IInv'
    <2>1. ASSUME IInv, Next PROVE IInv'
      BY <2>1, StartKeeps, ContextKeeps, ReadKeeps, AskKeeps, WriteKeeps,
         SaveKeeps, RemoveKeeps, DieKeeps DEF Next, Steps
    <2>2. ASSUME IInv, UNCHANGED vars PROVE IInv'
      BY <2>2 DEF vars, IInv, Shape, EmptyOnlyWhileWritten, FileOf
    <2>3. QED
      BY <2>1, <2>2
  <1>3. IInv => EmptyOnlyWhileWritten
    BY DEF IInv
  <1>4. QED
    BY <1>1, <1>2, <1>3, PTL DEF Spec

----------------------------------------------------------------------------
(* The deletion by name *)

\* The principle of the least number, for induction on the turns of the loop.
LEMMA Least ==
    ASSUME NEW S \in SUBSET Nat, S # {}
    PROVE  \E x \in S : \A y \in S : x <= y
<1>. DEFINE R == OpToRel(<, Nat)
<1>1. IsWellFoundedOn(R, Nat)  BY NatLessThanWellFounded
<1>2. \E x \in S : \A y \in S : ~ (<<y, x>> \in R)
  <2>. HIDE DEF R
  <2> QED BY <1>1, WFMin
<1>3. \A x, y \in Nat : <<y, x>> \in R <=> y < x  BY DEF OpToRel
<1>. HIDE DEF R
<1>4. PICK x \in S : \A y \in S : ~ (<<y, x>> \in R)  BY <1>2
<1>5. \A y \in S : x <= y
  <2>1. SUFFICES ASSUME NEW y \in S PROVE x <= y  OBVIOUS
  <2>2. ~(y < x)  BY <1>3, <1>4
  <2>. QED  BY <2>2
<1>. QED  BY <1>5

AreTurns(f, s, drop, n) ==
    f = [i \in 0..n |-> IF i = 0 THEN Entered(s) ELSE Turn(f[i - 1], i, drop)]

\* The turns of the loop are there: the first m of them, for every m.
LEMMA TurnsExist ==
    ASSUME NEW s, NEW drop
    PROVE  \A n \in Nat : \E f : AreTurns(f, s, drop, n)
<1>. DEFINE Are(f, m) == AreTurns(f, s, drop, m)
            Wrong == {m \in Nat : ~ \E f : Are(f, m)}
<1>1. SUFFICES ASSUME Wrong # {} PROVE FALSE  OBVIOUS
<1>2. PICK m \in Wrong : \A k \in Wrong : m <= k
  <2>1. Wrong \in SUBSET Nat  OBVIOUS
  <2>. HIDE DEF Wrong
  <2>. QED  BY <1>1, <2>1, Least
<1>3. m \in Nat /\ \A f : ~Are(f, m)  OBVIOUS
<1>4. CASE m = 0
  <2>. DEFINE f == [i \in 0..0 |-> Entered(s)]
  <2>1. Are(f, 0)  BY DEF AreTurns
  <2>. QED  BY <1>3, <1>4, <2>1
<1>5. CASE m # 0
  <2>1. m - 1 \in Nat /\ m - 1 \notin Wrong
    <3>1. m - 1 \in Nat /\ ~(m <= m - 1)  BY <1>3, <1>5
    <3>. QED  BY <1>2, <3>1
  <2>2. PICK g : Are(g, m - 1)  BY <2>1
  <2>. DEFINE f == [i \in 0..m |-> IF i = m THEN Turn(g[m - 1], m, drop) ELSE g[i]]
  <2>3. \A i \in 0..(m - 1) : g[i] = IF i = 0 THEN Entered(s) ELSE Turn(g[i - 1], i, drop)
    BY <2>2 DEF AreTurns
  <2>4. \A i \in 0..(m - 1) : f[i] = g[i]  BY <1>3
  <2>5. ASSUME NEW i \in 0..m
        PROVE  f[i] = IF i = 0 THEN Entered(s) ELSE Turn(f[i - 1], i, drop)
    <3>1. CASE i = m
      <4>1. f[i] = Turn(g[m - 1], m, drop)  BY <3>1
      <4>2. f[m - 1] = g[m - 1]
        <5>1. m - 1 \in 0..(m - 1)  BY <1>3, <1>5
        <5>. QED  BY <2>4, <5>1
      <4>. HIDE DEF f
      <4>. QED  BY <1>5, <3>1, <4>1, <4>2
    <3>2. CASE i # m
      <4>1. i \in 0..(m - 1)  BY <1>3, <3>2
      <4>2. i # 0 => i - 1 \in 0..(m - 1)  BY <1>3, <4>1
      <4>3. i # 0 => f[i - 1] = g[i - 1]  BY <2>4, <4>2
      <4>4. f[i] = g[i]  BY <2>4, <4>1
      <4>. HIDE DEF f
      <4>. QED  BY <2>3, <4>1, <4>3, <4>4
    <3>. QED  BY <3>1, <3>2
  <2>6. f = [i \in 0..m |-> f[i]]  OBVIOUS
  <2>. HIDE DEF f
  <2>7. Are(f, m)  BY <2>5, <2>6 DEF AreTurns
  <2>. QED  BY <1>3, <2>7
<1>. QED  BY <1>4, <1>5

\* Where the loop is after each of its turns.
LEMMA TurnsFacts ==
    ASSUME NEW s, NEW drop, Len(s) \in Nat
    PROVE  /\ Turns(s, drop)[0] = Entered(s)
           /\ \A i \in 1..Len(s) : Turns(s, drop)[i] = Turn(Turns(s, drop)[i - 1], i, drop)
<1>1. \E f : AreTurns(f, s, drop, Len(s))  BY TurnsExist
<1>2. Turns(s, drop) = CHOOSE f : AreTurns(f, s, drop, Len(s))  BY DEF Turns, AreTurns
<1>3. AreTurns(Turns(s, drop), s, drop, Len(s))  BY <1>1, <1>2
<1>. QED  BY <1>3 DEF AreTurns

\* With a single element to remove the loop removes it; with none it does nothing.
Single(s, drop, j) == \A k \in 1..Len(s) : s[k] \in drop <=> k = j

Without(s, j) == [array |-> Shift(s, j, Len(s)), len |-> Len(s) - 1, panic |-> FALSE]

\* What a turn of the loop does to the slice when one entry is to go.
LEMMA OneTurn ==
    ASSUME NEW S, NEW s \in Seq(S), NEW drop, NEW j \in 1..Len(s), Single(s, drop, j),
           NEW i \in 1..Len(s)
    PROVE  /\ i < j => Turn(Entered(s), i, drop) = Entered(s)
           /\ i = j => Turn(Entered(s), i, drop) = Without(s, j)
           /\ i > j => Turn(Without(s, j), i, drop) = Without(s, j)
<1>1. Len(s) \in Nat /\ DOMAIN s = 1..Len(s)  BY LenProperties
<1>2. Entered(s).array = s /\ Entered(s).len = Len(s) /\ ~Entered(s).panic
  BY DEF Entered
<1>3. CASE i < j
  <2>1. s[i] \notin drop  BY <1>1, <1>3 DEF Single
  <2>. QED  BY <1>1, <1>2, <1>3, <2>1 DEF Turn
<1>4. CASE i = j
  <2>1. s[i] \in drop /\ ~(i > Len(s))  BY <1>1, <1>4 DEF Single
  <2>2. Turn(Entered(s), i, drop)
          = [Entered(s) EXCEPT !.array = Shift(s, i, Len(s)), !.len = Len(s) - 1]
    BY <1>2, <2>1 DEF Turn
  <2>. DEFINE a == Shift(s, j, Len(s))
              n == Len(s) - 1
              b == [Entered(s) EXCEPT !.array = a, !.len = n]
  <2>. HIDE DEF a, n
  <2>3. b \in [array : {a}, len : {n}, panic : {FALSE}]  BY DEF Entered
  <2>. HIDE DEF b
  <2>4. b = [array |-> a, len |-> n, panic |-> FALSE]  BY <2>3
  <2>5. b = Without(s, j)  BY <2>4 DEF a, n, Without
  <2>. QED  BY <1>1, <1>4, <2>2, <2>5 DEF b, a, n
<1>5. CASE i > j
  <2>. DEFINE b == Without(s, j)
  <2>1. /\ b.array = Shift(s, j, Len(s)) /\ ~b.panic
    BY DEF Without
  <2>2. b.array[i] = IF i < Len(s) THEN s[i + 1] ELSE s[i]
    BY <1>1, <1>5, <2>1 DEF Shift
  <2>3. /\ i < Len(s) => i + 1 \in 1..Len(s) /\ i + 1 # j
        /\ i # j
    BY <1>1, <1>5
  <2>4. b.array[i] \notin drop  BY <2>2, <2>3 DEF Single
  <2>. HIDE DEF b
  <2>5. Turn(b, i, drop) = b  BY <2>1, <2>4 DEF Turn
  <2>. QED  BY <1>1, <1>5, <2>5 DEF b
<1>. QED  BY <1>3, <1>4, <1>5

\* When one entry is to go, the loop removes just that one and does not panic.
LEMMA LoopRemovesOne ==
    ASSUME NEW S, NEW s \in Seq(S), NEW drop, NEW j \in 1..Len(s), Single(s, drop, j)
    PROVE  RangeLoop(s, drop) = Without(s, j)
<1>. DEFINE Right(i) == Turns(s, drop)[i] = IF i < j THEN Entered(s) ELSE Without(s, j)
            Wrong == {i \in 0..Len(s) : ~Right(i)}
<1>0. Len(s) \in Nat  BY LenProperties
<1>1. SUFFICES ASSUME Wrong # {} PROVE FALSE
  <2>1. Len(s) \in 0..Len(s) /\ ~(Len(s) < j)  BY <1>0
  <2>. QED  BY <2>1 DEF RangeLoop
<1>2. PICK i \in Wrong : \A k \in Wrong : i <= k
  <2>1. Wrong \in SUBSET Nat  OBVIOUS
  <2>. HIDE DEF Wrong
  <2>. QED  BY <1>1, <2>1, Least
<1>3. CASE i = 0
  <2>1. Turns(s, drop)[0] = Entered(s)  BY <1>0, TurnsFacts
  <2>. QED  BY <1>0, <1>3, <2>1
<1>4. CASE i # 0
  <2>1. i \in 1..Len(s) /\ i - 1 \in 0..Len(s) /\ ~(i <= i - 1)  BY <1>0, <1>4
  <2>2. Right(i - 1)  BY <1>2, <2>1
  <2>3. Turns(s, drop)[i] = Turn(Turns(s, drop)[i - 1], i, drop)
    BY <1>0, <2>1, TurnsFacts
  <2>4. /\ i < j => Turn(Entered(s), i, drop) = Entered(s)
        /\ i = j => Turn(Entered(s), i, drop) = Without(s, j)
        /\ i > j => Turn(Without(s, j), i, drop) = Without(s, j)
    BY <2>1, OneTurn
  <2>5. /\ i < j => i - 1 < j
        /\ i = j => i - 1 < j
        /\ i > j => ~(i - 1 < j) /\ ~(i < j)
        /\ i < j \/ i = j \/ i > j
    BY <1>0, <2>1
  <2>6. Right(i)  BY <2>2, <2>3, <2>4, <2>5
  <2>. QED  BY <2>6
<1>. QED  BY <1>3, <1>4

\* What is left of a list of entries in which one entry has the name.
LEMMA DeleteOne ==
    ASSUME NEW S, NEW s \in Seq(S), NEW n, NEW j \in 1..Len(s), s[j].name = n,
           \A k \in 1..Len(s) : k # j => s[k].name # n,
           NEW t, t = Slice(DeleteLoop(s, n))
    PROVE  /\ ~DeleteLoop(s, n).panic
           /\ t \in Seq(S) /\ Len(t) = Len(s) - 1
           /\ \A k \in 1..Len(t) : t[k] = IF k < j THEN s[k] ELSE s[k + 1]
<1>. DEFINE b == Without(s, j)
            drop == {e \in Range(s) : e.name = n}
<1>0. /\ Len(s) \in Nat /\ DOMAIN s = 1..Len(s) /\ s \in [1..Len(s) -> S]
  BY LenProperties
<1>1. Single(s, drop, j)
  <2>1. \A k \in 1..Len(s) : s[k] \in Range(s)  BY <1>0 DEF Range
  <2>. QED  BY <2>1 DEF Single
<1>. HIDE DEF drop
<1>2. DeleteLoop(s, n) = b  BY <1>1, LoopRemovesOne DEF DeleteLoop, drop
<1>3. b.array = Shift(s, j, Len(s)) /\ b.len = Len(s) - 1 /\ ~b.panic
  BY DEF Without
<1>. HIDE DEF b
<1>4. /\ b.len \in Nat
      /\ \A k \in 1..Len(s) : b.array[k] = IF j <= k /\ k < Len(s) THEN s[k + 1] ELSE s[k]
  BY <1>0, <1>3 DEF Shift
<1>5. \A k \in 1..b.len :
        /\ k \in 1..Len(s) /\ k + 1 \in 1..Len(s)
        /\ b.array[k] = IF k < j THEN s[k] ELSE s[k + 1]
  <2>1. SUFFICES ASSUME NEW k \in 1..b.len
                 PROVE  /\ k \in 1..Len(s) /\ k + 1 \in 1..Len(s)
                        /\ b.array[k] = IF k < j THEN s[k] ELSE s[k + 1]
    OBVIOUS
  <2>2. /\ k \in 1..Len(s) /\ k + 1 \in 1..Len(s) /\ k < Len(s)
        /\ j <= k <=> ~(k < j)
    BY <1>0, <1>3
  <2>. QED  BY <1>4, <2>2
<1>6. \A k \in 1..b.len : b.array[k] \in S  BY <1>0, <1>5
<1>7. /\ SubSeq(b.array, 1, b.len) \in Seq(S)
      /\ Len(SubSeq(b.array, 1, b.len)) = IF 1 <= b.len THEN b.len - 1 + 1 ELSE 0
      /\ \A k \in 1..(b.len - 1 + 1) : SubSeq(b.array, 1, b.len)[k] = b.array[1 + k - 1]
  BY <1>4, <1>6, SubSeqProperties
<1>8. t = SubSeq(b.array, 1, b.len)  BY <1>2 DEF Slice
<1>9. t \in Seq(S)  BY <1>7, <1>8
<1>10. Len(t) = b.len  BY <1>4, <1>7, <1>8
<1>11. ASSUME NEW k \in 1..b.len PROVE t[k] = IF k < j THEN s[k] ELSE s[k + 1]
  <2>1. 1 + k - 1 = k /\ k \in 1..(b.len - 1 + 1)  BY <1>4
  <2>. QED  BY <1>5, <1>7, <1>8, <2>1
<1>. QED  BY <1>2, <1>3, <1>9, <1>10, <1>11

\* Whatever the loop is to remove, it leaves a list of the same kind.
LEMMA LoopTyped ==
    ASSUME NEW S, NEW s \in Seq(S), NEW drop
    PROVE  Slice(RangeLoop(s, drop)) \in Seq(S)
<1>. DEFINE Loop == [array : [1..Len(s) -> S], len : 0..Len(s), panic : BOOLEAN]
            Right(i) == Turns(s, drop)[i] \in Loop
            Wrong == {i \in 0..Len(s) : ~Right(i)}
<1>0. /\ Len(s) \in Nat /\ s \in [1..Len(s) -> S]
  BY LenProperties
<1>1. ASSUME NEW b \in Loop, NEW i \in 1..Len(s) PROVE Turn(b, i, drop) \in Loop
  <2>1. CASE b.panic \/ b.array[i] \notin drop  BY <2>1 DEF Turn
  <2>2. CASE ~b.panic /\ b.array[i] \in drop /\ i > b.len
    <3>1. Turn(b, i, drop) = [b EXCEPT !.panic = TRUE]  BY <2>2 DEF Turn
    <3>. QED  BY <3>1
  <2>3. CASE ~b.panic /\ b.array[i] \in drop /\ ~(i > b.len)
    <3>1. Turn(b, i, drop) = [b EXCEPT !.array = Shift(b.array, i, b.len), !.len = b.len - 1]
      BY <2>3 DEF Turn
    <3>2. b.len - 1 \in 0..Len(s)  BY <1>0, <2>3
    <3>3. \A k \in 1..Len(s) : k < b.len => k + 1 \in 1..Len(s)  BY <1>0
    <3>4. Shift(b.array, i, b.len) \in [1..Len(s) -> S]  BY <3>3 DEF Shift
    <3>. QED  BY <3>1, <3>2, <3>4
  <2>. QED  BY <2>1, <2>2, <2>3
<1>2. Wrong = {}
  <2>1. SUFFICES ASSUME Wrong # {} PROVE FALSE  OBVIOUS
  <2>2. PICK i \in Wrong : \A k \in Wrong : i <= k
    <3>1. Wrong \in SUBSET Nat  OBVIOUS
    <3>. HIDE DEF Wrong
    <3>. QED  BY <2>1, <3>1, Least
  <2>3. CASE i = 0
    <3>1. Turns(s, drop)[0] = Entered(s)  BY <1>0, TurnsFacts
    <3>2. Entered(s) \in Loop  BY <1>0 DEF Entered
    <3>. QED  BY <2>3, <3>1, <3>2
  <2>4. CASE i # 0
    <3>1. i \in 1..Len(s) /\ i - 1 \in 0..Len(s) /\ ~(i <= i - 1)  BY <1>0, <2>4
    <3>2. Right(i - 1)  BY <2>2, <3>1
    <3>3. Turns(s, drop)[i] = Turn(Turns(s, drop)[i - 1], i, drop)
      BY <1>0, <3>1, TurnsFacts
    <3>. HIDE DEF Loop
    <3>4. Right(i)  BY <1>1, <3>1, <3>2, <3>3
    <3>. QED  BY <3>4
  <2>. QED  BY <2>3, <2>4
<1>3. RangeLoop(s, drop) \in Loop
  <2>1. Len(s) \in 0..Len(s)  BY <1>0
  <2>. QED  BY <1>2, <2>1 DEF RangeLoop
<1>. DEFINE b == RangeLoop(s, drop)
<1>4. b.len \in Nat /\ \A k \in 1..b.len : b.array[k] \in S
  <2>. HIDE DEF b
  <2>1. b \in Loop  BY <1>3 DEF b
  <2>. QED  BY <1>0, <2>1
<1>. HIDE DEF b
<1>5. SubSeq(b.array, 1, b.len) \in Seq(S)  BY <1>4, SubSeqProperties
<1>. QED  BY <1>5 DEF b, Slice

----------------------------------------------------------------------------
(* Commands and documents *)

Ops == {"create", "set", "unset", "setEnv", "unsetEnv", "addStorage", "addUrl",
        "delStorage", "delUrl", "deleteAll"}

\* The operations, and what each of them has for key and value.
LEMMA CommandFacts ==
    ASSUME NoLists, NEW c \in Commands
    PROVE  /\ c.op \in Ops
           /\ c.op = "create" => c.value \in Values
           /\ c.op = "set" => c.key \notin Lists
           /\ c.op \in {"set", "unset"} => c.value \in Values \cup {None, Bad}
           /\ c.op \in {"setEnv", "unsetEnv"} => /\ c.key \in EnvNames
                                                 /\ c.value \in Values \cup {None}
           /\ c.op \in {"addStorage", "addUrl"} => c.key \in Names /\ c.value \in Places
           /\ c.op \in {"delStorage", "delUrl"} => c.key \in Names
<1>. USE DEF Command, Ops
<1>1. CASE c \in CreateCommands  BY <1>1 DEF CreateCommands
<1>2. CASE c \in SetCommands
  <2>1. /\ c.op \in {"set", "setEnv"}
        /\ c.op = "set" => c.key \in Params /\ c.value \in Values \cup {Bad}
        /\ c.op = "setEnv" => c.key \in EnvNames /\ c.value \in Values
    <3>1. CASE c \in Command("set", Params, Values, BOOLEAN)  BY <3>1
    <3>3. CASE c \in Command("set", Params \cap Typed, {Bad}, {TRUE})  BY <3>3
    <3>4. CASE c \in Command("setEnv", EnvNames, Values, {TRUE})  BY <3>4
    <3>. HIDE DEF Command
    <3>. QED  BY <1>2, <3>1, <3>3, <3>4 DEF SetCommands
  <2>. QED  BY <2>1 DEF NoLists
<1>3. CASE c \in UnsetCommands  BY <1>3 DEF UnsetCommands
<1>4. CASE c \in PrefSetCommands \cup PrefUnsetCommands
  BY <1>4, PrefsAssumption DEF PrefSetCommands, PrefUnsetCommands, Lists
<1>5. CASE c \in AddUrlCommands \cup DelUrlCommands
  BY <1>5 DEF AddUrlCommands, DelUrlCommands
<1>6. CASE c \in AddStorageCommands \cup DelStorageCommands
  BY <1>6 DEF AddStorageCommands, DelStorageCommands
<1>7. CASE c \in DeleteAllCommands  BY <1>7 DEF DeleteAllCommands
<1>. QED  BY <1>1, <1>2, <1>3, <1>4, <1>5, <1>6, <1>7 DEF Commands

EntryLists == Seq(Entry)
SetValues  == [Fields \cup PrefFields -> Values \cup {None}]
EnvValues  == [EnvNames -> Values \cup {None}]

LEMMA DocParts == Doc = [set : SetValues, env : EnvValues, storage : EntryLists,
                         url : EntryLists, has : SUBSET Lists]
BY DEF Doc, SetValues, EnvValues, EntryLists

\* The parts of a document, and a document with other values.
LEMMA DocFacts ==
    /\ Blank \in Doc /\ Unique(Blank) /\ Blank.storage = <<>> /\ Blank.url = <<>>
    /\ \A d \in Doc : /\ d.storage \in EntryLists /\ d.url \in EntryLists
                      /\ d.set \in SetValues
                      /\ d.env \in EnvValues
    /\ \A d \in Doc, v \in SetValues :
         /\ [d EXCEPT !.set = v] \in Doc
         /\ [d EXCEPT !.set = v].storage = d.storage
         /\ [d EXCEPT !.set = v].url = d.url
         /\ [d EXCEPT !.set = v].set = v
         /\ [d EXCEPT !.set = v].env = d.env
<1>1. <<>> \in EntryLists  BY EmptySeq DEF EntryLists
<1>2. /\ [f \in Fields \cup PrefFields |-> None] \in SetValues
      /\ [e \in EnvNames |-> None] \in EnvValues
  BY DEF SetValues, EnvValues
<1>3. Blank.storage = <<>> /\ Blank.url = <<>>  BY DEF Blank
<1>4. Unique(Blank)
  <2>1. DOMAIN <<>> = {}  OBVIOUS
  <2>. QED  BY <1>3, <2>1 DEF Unique
<1>5. Blank \in Doc  BY <1>1, <1>2, DocParts DEF Blank
<1>6. \A d \in Doc : /\ d.storage \in EntryLists /\ d.url \in EntryLists
                    /\ d.set \in SetValues /\ d.env \in EnvValues
  BY DocParts
<1>7. \A d \in Doc, v \in SetValues :
         /\ [d EXCEPT !.set = v] \in Doc
         /\ [d EXCEPT !.set = v].storage = d.storage
         /\ [d EXCEPT !.set = v].url = d.url
         /\ [d EXCEPT !.set = v].set = v
         /\ [d EXCEPT !.set = v].env = d.env
  BY DocParts
<1>. QED  BY <1>3, <1>4, <1>5, <1>6, <1>7

\* A document with another list.
LEMMA WithFacts ==
    ASSUME NEW d \in Doc, NEW l \in EntryLists
    PROVE  /\ WithStorage(d, l) \in Doc
           /\ WithStorage(d, l).storage = l
           /\ WithStorage(d, l).url = d.url
           /\ WithStorage(d, l).set = d.set
           /\ WithStorage(d, l).env = d.env
           /\ WithUrl(d, l) \in Doc
           /\ WithUrl(d, l).storage = d.storage
           /\ WithUrl(d, l).url = l
           /\ WithUrl(d, l).set = d.set
           /\ WithUrl(d, l).env = d.env
BY DocParts DEF WithStorage, WithUrl, Lists

\* A document without one of its lists.
LEMMA WithoutFacts ==
    ASSUME NEW d \in Doc, NEW k \in Lists
    PROVE  /\ WithoutList(d, k) \in Doc
           /\ WithoutList(d, k).storage = IF k = "storage" THEN <<>> ELSE d.storage
           /\ WithoutList(d, k).url = IF k = "url" THEN <<>> ELSE d.url
           /\ WithoutList(d, k).set = d.set
           /\ WithoutList(d, k).env = d.env
<1>1. <<>> \in EntryLists  BY EmptySeq DEF EntryLists
<1>2. CASE k = "storage"
  <2>1. WithoutList(d, k) = [d EXCEPT !.storage = <<>>, !.has = d.has \ {k}]
    BY <1>2 DEF WithoutList
  <2>. DEFINE l == <<>>
  <2>. HIDE DEF l
  <2>2. WithoutList(d, k) = [d EXCEPT !.storage = l, !.has = d.has \ {k}]
    BY <2>1 DEF l
  <2>. QED  BY <1>1, <1>2, <2>2, DocParts DEF l
<1>3. CASE k # "storage"
  <2>1. WithoutList(d, k) = [d EXCEPT !.url = <<>>, !.has = d.has \ {k}] /\ k = "url"
    BY <1>3 DEF WithoutList, Lists
  <2>. DEFINE l == <<>>
  <2>. HIDE DEF l
  <2>2. WithoutList(d, k) = [d EXCEPT !.url = l, !.has = d.has \ {k}]
    BY <2>1 DEF l
  <2>. QED  BY <1>1, <2>1, <2>2, DocParts DEF l
<1>. QED  BY <1>2, <1>3

\* Adding an entry with a name, and a place, that no other one has.
LEMMA AddedFacts ==
    ASSUME NEW s \in Seq(Entry), NEW e \in Entry
    PROVE  /\ Append(s, e) \in Seq(Entry)
           /\ DOMAIN Append(s, e) = 1..(Len(s) + 1)
           /\ \A i \in 1..Len(s) : Append(s, e)[i] = s[i]
           /\ Append(s, e)[Len(s) + 1] = e
           /\ Range(Append(s, e)) = Range(s) \cup {e}
<1>. DEFINE t == Append(s, e)
            n == Len(s)
<1>1. n \in Nat /\ DOMAIN s = 1..n  BY LenProperties
<1>2. /\ t \in Seq(Entry) /\ Len(t) = n + 1
      /\ \A i \in 1..n : t[i] = s[i]
      /\ t[n + 1] = e
  BY AppendProperties
<1>. HIDE DEF t, n
<1>3. DOMAIN t = 1..(n + 1)  BY <1>2, LenProperties
<1>4. \A i \in 1..(n + 1) : i \in 1..n \/ i = n + 1  BY <1>1
<1>5. 1..n \subseteq 1..(n + 1) /\ n + 1 \in 1..(n + 1)  BY <1>1
<1>6. Range(t) = Range(s) \cup {e}
  BY <1>1, <1>2, <1>3, <1>4, <1>5 DEF Range
<1>. QED  BY <1>2, <1>3, <1>6 DEF t, n

\* A new entry that clashes with none leaves the entries unique.
LEMMA AddKeepsUnique ==
    ASSUME NEW d \in Doc, Unique(d), NEW e \in Entry
    PROVE  /\ (\A i \in DOMAIN d.storage : d.storage[i].name # e.name /\ d.storage[i].at # e.at)
                => Unique(WithStorage(d, Append(d.storage, e)))
           /\ (\A i \in DOMAIN d.url : d.url[i].name # e.name)
                => Unique(WithUrl(d, Append(d.url, e)))
<1>1. ASSUME NEW s \in Seq(Entry)
      PROVE  /\ DOMAIN s = 1..Len(s) /\ Len(s) \in Nat
             /\ \A i \in DOMAIN Append(s, e) : i \in DOMAIN s \/ i = Len(s) + 1
             /\ \A i \in DOMAIN s : Append(s, e)[i] = s[i]
             /\ Append(s, e)[Len(s) + 1] = e
             /\ Append(s, e) \in Seq(Entry)
  <2>1. DOMAIN s = 1..Len(s) /\ Len(s) \in Nat  BY LenProperties
  <2>2. \A i \in 1..(Len(s) + 1) : i \in 1..Len(s) \/ i = Len(s) + 1  BY <2>1
  <2>. QED  BY <2>1, <2>2, AddedFacts
<1>2. ASSUME \A i \in DOMAIN d.storage : d.storage[i].name # e.name /\ d.storage[i].at # e.at
      PROVE  Unique(WithStorage(d, Append(d.storage, e)))
  <2>. DEFINE n == WithStorage(d, Append(d.storage, e))
              s == d.storage
              t == Append(s, e)
  <2>0. s \in Seq(Entry)  BY DocFacts DEF EntryLists
  <2>1. n.storage = t /\ n.url = d.url  BY <1>1, <2>0, WithFacts DEF EntryLists
  <2>2. /\ \A i \in DOMAIN t : i \in DOMAIN s \/ i = Len(s) + 1
        /\ \A i \in DOMAIN s : t[i] = s[i]
        /\ t[Len(s) + 1] = e
    BY <1>1, <2>0
  <2>3. \A i, j \in DOMAIN s : i # j => s[i].name # s[j].name /\ s[i].at # s[j].at
    BY DEF Unique
  <2>. HIDE DEF n, t, s
  <2>4. \A i, j \in DOMAIN t : i # j => t[i].name # t[j].name /\ t[i].at # t[j].at
    BY <1>2, <2>2, <2>3 DEF s
  <2>5. Unique(n)  BY <2>1, <2>4 DEF Unique
  <2>. QED  BY <2>5 DEF n, s
<1>3. ASSUME \A i \in DOMAIN d.url : d.url[i].name # e.name
      PROVE  Unique(WithUrl(d, Append(d.url, e)))
  <2>. DEFINE n == WithUrl(d, Append(d.url, e))
              s == d.url
              t == Append(s, e)
  <2>0. s \in Seq(Entry)  BY DocFacts DEF EntryLists
  <2>1. n.url = t /\ n.storage = d.storage  BY <1>1, <2>0, WithFacts DEF EntryLists
  <2>2. /\ \A i \in DOMAIN t : i \in DOMAIN s \/ i = Len(s) + 1
        /\ \A i \in DOMAIN s : t[i] = s[i]
        /\ t[Len(s) + 1] = e
    BY <1>1, <2>0
  <2>3. \A i, j \in DOMAIN s : i # j => s[i].name # s[j].name
    BY DEF Unique
  <2>. HIDE DEF n, t, s
  <2>4. \A i, j \in DOMAIN t : i # j => t[i].name # t[j].name
    BY <1>3, <2>2, <2>3 DEF s
  <2>5. Unique(n)  BY <2>1, <2>4 DEF Unique
  <2>. QED  BY <2>5 DEF n, s
<1>. QED  BY <1>2, <1>3

\* Deleting the entry of a name from a list that has one such entry.
LEMMA DeleteFacts ==
    ASSUME NEW s \in Seq(Entry), NEW n, HasName(s, n),
           \A i, j \in DOMAIN s : i # j => s[i].name # s[j].name,
           NEW t, t = Slice(DeleteLoop(s, n))
    PROVE  /\ ~DeleteLoop(s, n).panic
           /\ t \in Seq(Entry)
           /\ \E g \in [DOMAIN t -> DOMAIN s] :
                /\ \A i, j \in DOMAIN t : i # j => g[i] # g[j]
                /\ \A i \in DOMAIN t : t[i] = s[g[i]]
           /\ Range(t) = {e \in Range(s) : e.name # n}
<1>0. Len(s) \in Nat /\ DOMAIN s = 1..Len(s)  BY LenProperties
<1>1. PICK j \in 1..Len(s) : s[j].name = n  BY <1>0 DEF HasName
<1>2. \A k \in 1..Len(s) : k # j => s[k].name # n  BY <1>0, <1>1
<1>3. /\ ~DeleteLoop(s, n).panic
      /\ t \in Seq(Entry) /\ Len(t) = Len(s) - 1
      /\ \A k \in 1..Len(t) : t[k] = IF k < j THEN s[k] ELSE s[k + 1]
  BY <1>1, <1>2, DeleteOne
<1>4. DOMAIN t = 1..Len(t)  BY <1>3, LenProperties
<1>. DEFINE g == [k \in 1..Len(t) |-> IF k < j THEN k ELSE k + 1]
<1>5. \A k \in 1..Len(t) : k \in 1..Len(s) /\ k + 1 \in 1..Len(s)  BY <1>0, <1>3
<1>6. g \in [DOMAIN t -> DOMAIN s]  BY <1>0, <1>4, <1>5
<1>7. \A i, k \in 1..Len(t) : i # k => g[i] # g[k]  BY <1>0, <1>3
<1>8. \A i \in 1..Len(t) : t[i] = s[g[i]] /\ g[i] # j  BY <1>0, <1>3
<1>9. ASSUME NEW k \in 1..Len(s), k # j
      PROVE  \E i \in 1..Len(t) : g[i] = k
  <2>1. CASE k < j
    <3>1. k \in 1..Len(t)  BY <1>0, <1>3, <2>1
    <3>. QED  BY <2>1, <3>1
  <2>2. CASE k > j
    <3>1. k - 1 \in 1..Len(t) /\ ~(k - 1 < j) /\ (k - 1) + 1 = k  BY <1>0, <1>3, <2>2
    <3>2. g[k - 1] = k  BY <3>1
    <3>. HIDE DEF g
    <3>. QED  BY <3>1, <3>2
  <2>. QED  BY <1>0, <1>9, <2>1, <2>2
<1>. HIDE DEF g
<1>10. ASSUME NEW e \in Range(t) PROVE e \in Range(s) /\ e.name # n
  <2>1. PICK i \in 1..Len(t) : t[i] = e  BY <1>4 DEF Range
  <2>2. g[i] \in 1..Len(s)  BY <1>0, <1>4, <1>6
  <2>. QED  BY <1>0, <1>2, <1>8, <2>1, <2>2 DEF Range
<1>11. ASSUME NEW e \in Range(s), e.name # n PROVE e \in Range(t)
  <2>1. PICK k \in 1..Len(s) : s[k] = e  BY <1>0 DEF Range
  <2>2. PICK i \in 1..Len(t) : g[i] = k  BY <1>1, <1>9, <1>11, <2>1
  <2>. QED  BY <1>4, <1>8, <2>1, <2>2 DEF Range
<1>12. Range(t) = {e \in Range(s) : e.name # n}  BY <1>10, <1>11
<1>13. /\ \A i, k \in DOMAIN t : i # k => g[i] # g[k]
       /\ \A i \in DOMAIN t : t[i] = s[g[i]]
  BY <1>4, <1>7, <1>8
<1>14. \E h \in [DOMAIN t -> DOMAIN s] :
         /\ \A i, k \in DOMAIN t : i # k => h[i] # h[k]
         /\ \A i \in DOMAIN t : t[i] = s[h[i]]
  BY <1>6, <1>13
<1>. QED  BY <1>3, <1>12, <1>14

\* A subsequence of unique entries.
LEMMA DeleteKeepsUnique ==
    ASSUME NEW d \in Doc, Unique(d), NEW n
    PROVE  /\ HasName(d.storage, n)
                => Unique(WithStorage(d, Slice(DeleteLoop(d.storage, n))))
           /\ HasName(d.url, n)
                => Unique(WithUrl(d, Slice(DeleteLoop(d.url, n))))
<1>1. ASSUME HasName(d.storage, n)
      PROVE  Unique(WithStorage(d, Slice(DeleteLoop(d.storage, n))))
  <2>. DEFINE s == d.storage
              t == Slice(DeleteLoop(s, n))
              w == WithStorage(d, t)
  <2>1. /\ s \in Seq(Entry)
        /\ \A i, j \in DOMAIN s : i # j => s[i].name # s[j].name /\ s[i].at # s[j].at
    BY DocFacts DEF Unique, EntryLists
  <2>. HIDE DEF s, t
  <2>2. /\ t \in Seq(Entry)
        /\ \E g \in [DOMAIN t -> DOMAIN s] :
             /\ \A i, j \in DOMAIN t : i # j => g[i] # g[j]
             /\ \A i \in DOMAIN t : t[i] = s[g[i]]
    BY <1>1, <2>1, DeleteFacts DEF t, s
  <2>3. w.storage = t /\ w.url = d.url  BY <2>2, WithFacts DEF EntryLists
  <2>4. \A i, j \in DOMAIN t : i # j => t[i].name # t[j].name /\ t[i].at # t[j].at
    BY <2>1, <2>2
  <2>. HIDE DEF w
  <2>5. Unique(w)  BY <2>3, <2>4 DEF Unique
  <2>. QED  BY <2>5 DEF w, t, s
<1>2. ASSUME HasName(d.url, n)
      PROVE  Unique(WithUrl(d, Slice(DeleteLoop(d.url, n))))
  <2>. DEFINE s == d.url
              t == Slice(DeleteLoop(s, n))
              w == WithUrl(d, t)
  <2>1. /\ s \in Seq(Entry)
        /\ \A i, j \in DOMAIN s : i # j => s[i].name # s[j].name
    BY DocFacts DEF Unique, EntryLists
  <2>. HIDE DEF s, t
  <2>2. /\ t \in Seq(Entry)
        /\ \E g \in [DOMAIN t -> DOMAIN s] :
             /\ \A i, j \in DOMAIN t : i # j => g[i] # g[j]
             /\ \A i \in DOMAIN t : t[i] = s[g[i]]
    BY <1>2, <2>1, DeleteFacts DEF t, s
  <2>3. w.url = t /\ w.storage = d.storage  BY <2>2, WithFacts DEF EntryLists
  <2>4. \A i, j \in DOMAIN t : i # j => t[i].name # t[j].name
    BY <2>1, <2>2
  <2>. HIDE DEF w
  <2>5. Unique(w)  BY <2>3, <2>4 DEF Unique
  <2>. QED  BY <2>5 DEF w, t, s
<1>. QED  BY <1>1, <1>2

----------------------------------------------------------------------------
(* What a command makes of a document *)

\* One value is given to the fields of a parameter.
LEMMA AssignedFacts ==
    ASSUME NEW d \in Doc, NEW c, c.value \in Values \cup {None}
    PROVE  /\ Assigned(c, d) \in Doc
           /\ Assigned(c, d).storage = d.storage
           /\ Assigned(c, d).url = d.url
           /\ Assigned(c, d).env = d.env
           /\ Assigned(c, d).set = [f \in Fields \cup PrefFields |->
                                      IF f \in Pair(c.key) THEN c.value ELSE d.set[f]]
<1>. DEFINE v == [f \in Fields \cup PrefFields |->
                    IF f \in Pair(c.key) THEN c.value ELSE d.set[f]]
<1>1. d.set \in [Fields \cup PrefFields -> Values \cup {None}]  BY DocFacts DEF SetValues
<1>2. v \in SetValues  BY <1>1 DEF SetValues
<1>3. Assigned(c, d) = [d EXCEPT !.set = v]  BY <1>1 DEF Assigned
<1>. HIDE DEF v
<1>4. QED  BY <1>2, <1>3, DocFacts DEF v

\* One variable gets a value or loses it (Merge, RemoveEnvVarsFromList).
LEMMA EnvFacts ==
    ASSUME NEW d \in Doc, NEW c, c.key \in EnvNames, c.value \in Values \cup {None}
    PROVE  /\ EnvAssigned(c, d) \in Doc
           /\ EnvAssigned(c, d).storage = d.storage
           /\ EnvAssigned(c, d).url = d.url
           /\ EnvAssigned(c, d).set = d.set
           /\ EnvAssigned(c, d).env = [d.env EXCEPT ![c.key] = c.value]
<1>. DEFINE v == [d.env EXCEPT ![c.key] = c.value]
<1>1. v \in EnvValues  BY DocFacts DEF EnvValues
<1>2. EnvAssigned(c, d) = [d EXCEPT !.env = v]  BY DEF EnvAssigned
<1>. HIDE DEF v
<1>3. QED  BY <1>1, <1>2, DocParts DEF v

\* The settings of a new component have no entries.
LEMMA CreatedFacts ==
    ASSUME NEW c, c.value \in Values
    PROVE  /\ Created(c) \in Doc /\ Unique(Created(c))
           /\ Created(c).storage = <<>> /\ Created(c).url = <<>>
<1>. DEFINE v == [f \in Fields \cup PrefFields |-> CASE f = "name"    -> c.value
                                                     [] f = "project" -> Current
                                                     [] OTHER         -> None]
<1>1. v \in SetValues
  <2>1. ASSUME NEW f \in Fields \cup PrefFields
        PROVE  (CASE f = "name"    -> c.value
                  [] f = "project" -> Current
                  [] OTHER         -> None) \in Values \cup {None}
    BY CurrentAssumption
  <2>. QED  BY <2>1 DEF SetValues
<1>2. Created(c) = [Blank EXCEPT !.set = v]
  <2>1. DOMAIN Blank.set = Fields \cup PrefFields  BY DEF Blank
  <2>. QED  BY <2>1 DEF Created
<1>. HIDE DEF v
<1>3. /\ Created(c) \in Doc
      /\ Created(c).storage = <<>> /\ Created(c).url = <<>>
  BY <1>1, <1>2, DocFacts
<1>4. DOMAIN <<>> = {}  OBVIOUS
<1>. QED  BY <1>3, <1>4 DEF Unique

\* What each command that does not break makes of a document.
LEMMA AppliedCases ==
    ASSUME NoLists, NEW c \in Commands, NEW d, ~Breaks(c, d)
    PROVE  /\ c.op = "create" => Applied(c, d) = Created(c)
           /\ c.op \in {"set", "unset"} /\ c.key \notin Lists =>
                Applied(c, d) = Assigned(c, d) /\ c.value \in Values \cup {None}
           /\ c.op \in {"set", "unset"} /\ c.key \in Lists =>
                c.op = "unset" /\ Applied(c, d) = WithoutList(d, c.key)
           /\ c.op \in {"setEnv", "unsetEnv"} => Applied(c, d) = EnvAssigned(c, d)
           /\ c.op = "addStorage" =>
                Applied(c, d) = WithStorage(d, Append(d.storage, EntryOf(c)))
           /\ c.op = "addUrl" =>
                Applied(c, d) = WithUrl(d, Append(d.url, EntryOf(c)))
           /\ c.op = "delStorage" =>
                Applied(c, d) = WithStorage(d, Slice(DeleteLoop(d.storage, c.key)))
           /\ c.op = "delUrl" =>
                Applied(c, d) = WithUrl(d, Slice(DeleteLoop(d.url, c.key)))
<1>1. c.op \in {"set", "unset"} => c.value \in Values \cup {None}
  BY CommandFacts DEF Breaks, Unparsable
<1>2. c.op = "create" => Applied(c, d) = Created(c)
  BY DEF Applied
<1>3. c.op \in {"set", "unset"} /\ c.key \notin Lists => Applied(c, d) = Assigned(c, d)
  BY DEF Applied, Lists
<1>4. c.op \in {"set", "unset"} /\ c.key \in Lists =>
        c.op = "unset" /\ Applied(c, d) = WithoutList(d, c.key)
  <2>1. c.op = "set" => c.key \notin Lists  BY CommandFacts
  <2>. QED  BY <2>1 DEF Applied
<1>5. c.op \in {"setEnv", "unsetEnv"} => Applied(c, d) = EnvAssigned(c, d)
  BY DEF Applied
<1>6. c.op = "addStorage" =>
        Applied(c, d) = WithStorage(d, Append(d.storage, EntryOf(c)))
  BY DEF Applied
<1>7. c.op = "addUrl" =>
        Applied(c, d) = WithUrl(d, Append(d.url, EntryOf(c)))
  BY DEF Applied
<1>8. c.op = "delStorage" =>
        Applied(c, d) = WithStorage(d, Slice(DeleteLoop(d.storage, c.key)))
  BY DEF Applied
<1>9. c.op = "delUrl" =>
        Applied(c, d) = WithUrl(d, Slice(DeleteLoop(d.url, c.key)))
  BY DEF Applied
<1>. QED  BY <1>1, <1>2, <1>3, <1>4, <1>5, <1>6, <1>7, <1>8, <1>9

\* A change keeps the type of a document, and its entries unique.
LEMMA AppliedFacts ==
    ASSUME NoLists, NEW c \in Commands, c.op # "deleteAll", NEW d \in Doc,
           Fits(c, d), ~Breaks(c, d)
    PROVE  Applied(c, d) \in Doc /\ (Unique(d) => Unique(Applied(c, d)))
<1>1. c.op \in Ops \ {"deleteAll"}  BY CommandFacts
<1>2. CASE c.op = "create"
  <2>1. c.value \in Values  BY <1>2, CommandFacts
  <2>. QED  BY <1>2, <2>1, AppliedCases, CreatedFacts
<1>3. CASE c.op \in {"set", "unset"} /\ c.key \notin Lists
  <2>1. Applied(c, d) = Assigned(c, d) /\ c.value \in Values \cup {None}
    BY <1>3, AppliedCases
  <2>2. /\ Assigned(c, d) \in Doc
        /\ Assigned(c, d).storage = d.storage /\ Assigned(c, d).url = d.url
    BY <2>1, AssignedFacts
  <2>3. Unique(d) => Unique(Assigned(c, d))  BY <2>2 DEF Unique
  <2>. QED  BY <2>1, <2>2, <2>3
<1>4. CASE c.op \in {"set", "unset"} /\ c.key \in Lists
  <2>. DEFINE n == WithoutList(d, c.key)
  <2>1. Applied(c, d) = n  BY <1>4, AppliedCases
  <2>2. /\ n \in Doc
        /\ n.storage = IF c.key = "storage" THEN <<>> ELSE d.storage
        /\ n.url = IF c.key = "url" THEN <<>> ELSE d.url
    BY <1>4, WithoutFacts
  <2>3. DOMAIN <<>> = {}  OBVIOUS
  <2>. HIDE DEF n
  <2>4. Unique(d) => Unique(n)  BY <2>2, <2>3 DEF Unique
  <2>. QED  BY <2>1, <2>2, <2>4
<1>5. CASE c.op \in {"setEnv", "unsetEnv"}
  <2>1. /\ Applied(c, d) = EnvAssigned(c, d)
        /\ c.key \in EnvNames /\ c.value \in Values \cup {None}
    BY <1>5, AppliedCases, CommandFacts
  <2>2. /\ EnvAssigned(c, d) \in Doc
        /\ EnvAssigned(c, d).storage = d.storage /\ EnvAssigned(c, d).url = d.url
    BY <2>1, EnvFacts
  <2>3. Unique(d) => Unique(EnvAssigned(c, d))  BY <2>2 DEF Unique
  <2>. QED  BY <2>1, <2>2, <2>3
<1>. DEFINE e == EntryOf(c)
<1>6. ASSUME c.op \in {"addStorage", "addUrl"}
      PROVE  /\ e \in Entry /\ e.name = c.key /\ e.at = c.value
             /\ Append(d.storage, e) \in EntryLists
             /\ Append(d.url, e) \in EntryLists
  <2>1. c.key \in Names /\ c.value \in Places  BY <1>6, CommandFacts
  <2>2. e \in Entry /\ e.name = c.key /\ e.at = c.value  BY <2>1 DEF Entry, EntryOf
  <2>. QED  BY <2>2, DocFacts, AddedFacts DEF EntryLists
<1>7. CASE c.op = "addStorage"
  <2>1. \A i \in DOMAIN d.storage : d.storage[i].name # e.name /\ d.storage[i].at # e.at
    BY <1>6, <1>7 DEF Fits, RefusesStorage
  <2>2. Applied(c, d) = WithStorage(d, Append(d.storage, e))
    BY <1>7, AppliedCases
  <2>3. e \in Entry /\ Append(d.storage, e) \in EntryLists  BY <1>6, <1>7
  <2>. HIDE DEF e
  <2>4. Unique(d) => Unique(WithStorage(d, Append(d.storage, e)))
    BY <2>1, <2>3, AddKeepsUnique
  <2>5. WithStorage(d, Append(d.storage, e)) \in Doc  BY <2>3, WithFacts
  <2>. QED  BY <2>2, <2>4, <2>5
<1>8. CASE c.op = "addUrl"
  <2>1. \A i \in DOMAIN d.url : d.url[i].name # e.name
    BY <1>6, <1>8 DEF Fits, RefusesUrl, HasName
  <2>2. Applied(c, d) = WithUrl(d, Append(d.url, e))
    BY <1>8, AppliedCases
  <2>3. e \in Entry /\ Append(d.url, e) \in EntryLists  BY <1>6, <1>8
  <2>. HIDE DEF e
  <2>4. Unique(d) => Unique(WithUrl(d, Append(d.url, e)))
    BY <2>1, <2>3, AddKeepsUnique
  <2>5. WithUrl(d, Append(d.url, e)) \in Doc  BY <2>3, WithFacts
  <2>. QED  BY <2>2, <2>4, <2>5
<1>9. CASE c.op = "delStorage"
  <2>1. HasName(d.storage, c.key)  BY <1>9 DEF Fits, RefusesDelStorage
  <2>2. Applied(c, d) = WithStorage(d, Slice(DeleteLoop(d.storage, c.key)))
    BY <1>9, AppliedCases
  <2>3. Slice(DeleteLoop(d.storage, c.key)) \in EntryLists
    BY LoopTyped, DocFacts DEF DeleteLoop, EntryLists
  <2>4. Unique(d) => Unique(WithStorage(d, Slice(DeleteLoop(d.storage, c.key))))
    BY <2>1, DeleteKeepsUnique
  <2>5. WithStorage(d, Slice(DeleteLoop(d.storage, c.key))) \in Doc  BY <2>3, WithFacts
  <2>. QED  BY <2>2, <2>4, <2>5
<1>10. CASE c.op = "delUrl"
  <2>1. HasName(d.url, c.key)  BY <1>10 DEF Fits, RefusesDelUrl
  <2>2. Applied(c, d) = WithUrl(d, Slice(DeleteLoop(d.url, c.key)))
    BY <1>10, AppliedCases
  <2>3. Slice(DeleteLoop(d.url, c.key)) \in EntryLists
    BY LoopTyped, DocFacts DEF DeleteLoop, EntryLists
  <2>4. Unique(d) => Unique(WithUrl(d, Slice(DeleteLoop(d.url, c.key))))
    BY <2>1, DeleteKeepsUnique
  <2>5. WithUrl(d, Slice(DeleteLoop(d.url, c.key))) \in Doc  BY <2>3, WithFacts
  <2>. QED  BY <2>2, <2>4, <2>5
<1>. QED  BY <1>1, <1>2, <1>3, <1>4, <1>5, <1>7, <1>8, <1>9, <1>10 DEF Ops

----------------------------------------------------------------------------
(* Types and entries *)

EntriesOK == TypeOK /\ EntriesInv

\* The end of a list of entries, behind another list.
LEMMA ContinuedTyped ==
    ASSUME NEW l \in Seq(Entry), NEW r \in Seq(Entry), NEW t \in Continued(l, r)
    PROVE  t \in Seq(Entry)
<1>1. PICK i \in DOMAIN r : t \in {l \o SubSeq(r, i, Len(r)),
                                Placed(l, r[i].at) \o SubSeq(r, i + 1, Len(r))}
  BY DEF Continued
<1>2. /\ Len(r) \in Nat /\ DOMAIN r = 1..Len(r) /\ r[i] \in Entry
      /\ Len(l) \in Nat /\ DOMAIN l = 1..Len(l) /\ l \in [1..Len(l) -> Entry]
  BY LenProperties
<1>3. SubSeq(r, i, Len(r)) \in Seq(Entry) /\ SubSeq(r, i + 1, Len(r)) \in Seq(Entry)
  <2>1. /\ \A k \in i..Len(r) : r[k] \in Entry
        /\ \A k \in (i + 1)..Len(r) : r[k] \in Entry
    BY <1>2
  <2>. QED  BY <1>2, <2>1, SubSeqProperties
<1>4. Placed(l, r[i].at) \in Seq(Entry)
  <2>1. CASE l = <<>>  BY <2>1 DEF Placed
  <2>2. CASE l # <<>>
    <3>. DEFINE p == r[i].at
                n == Len(l)
    <3>1. n \in 1..n  BY <1>2, <2>2, EmptySeq
    <3>2. p \in Places \cup {None}  BY <1>2 DEF Entry
    <3>. HIDE DEF p, n
    <3>3. [l[n] EXCEPT !.at = p] \in Entry  BY <1>2, <3>1, <3>2 DEF Entry, n
    <3>4. [l EXCEPT ![n] = [l[n] EXCEPT !.at = p]] \in [1..n -> Entry]
      BY <1>2, <3>1, <3>3 DEF n
    <3>5. Placed(l, p) = [l EXCEPT ![n] = [l[n] EXCEPT !.at = p]]
      BY <2>2 DEF Placed, n
    <3>. QED  BY <1>2, <3>4, <3>5, SeqDef DEF p, n
  <2>. QED  BY <2>1, <2>2
<1>5. /\ l \o SubSeq(r, i, Len(r)) \in Seq(Entry)
      /\ Placed(l, r[i].at) \o SubSeq(r, i + 1, Len(r)) \in Seq(Entry)
  BY <1>3, <1>4, ConcatProperties
<1>. QED  BY <1>1, <1>5

LEMMA MixturesTyped ==
    ASSUME NEW l \in EntryLists, NEW r \in EntryLists, NEW o \in EntryLists,
           NEW t \in Mixtures(l, r, o)
    PROVE  t \in EntryLists
<1>1. Stripped(o) \in Seq(Entry)
  <2>1. Len(o) \in Nat /\ DOMAIN o = 1..Len(o) /\ o \in [1..Len(o) -> Entry]
    BY LenProperties DEF EntryLists
  <2>2. \A i \in 1..Len(o) : [o[i] EXCEPT !.at = None] \in Entry  BY <2>1 DEF Entry
  <2>3. Stripped(o) \in [1..Len(o) -> Entry]  BY <2>1, <2>2 DEF Stripped
  <2>. QED  BY <2>1, <2>3, SeqDef
<1>. QED  BY <1>1, ContinuedTyped DEF Mixtures, EntryLists

\* Whatever the remains of two documents read as is a document.
LEMMA BlendsTyped ==
    ASSUME NEW d \in Doc, NEW r \in Doc, NEW b \in Blends(d, r)
    PROVE  b \in Doc
<1>. DEFINE set(F) == [f \in DOMAIN d.set |-> IF f \in F /\ r.set[f] # None
                                              THEN r.set[f] ELSE d.set[f]]
            env(E) == [e \in DOMAIN d.env |-> IF e \in E THEN r.env[e] ELSE d.env[e]]
            has(s, u) == IF s = d.storage /\ u = d.url THEN d.has ELSE d.has \cup r.has
<1>1. /\ d.set \in SetValues /\ r.set \in SetValues
      /\ d.env \in EnvValues /\ r.env \in EnvValues
      /\ d.storage \in EntryLists /\ r.storage \in EntryLists
      /\ d.url \in EntryLists /\ r.url \in EntryLists
      /\ d.has \in SUBSET Lists /\ r.has \in SUBSET Lists
  BY DocParts
<1>2. ASSUME NEW F PROVE set(F) \in SetValues  BY <1>1 DEF SetValues
<1>3. ASSUME NEW E PROVE env(E) \in EnvValues  BY <1>1 DEF EnvValues
<1>4. ASSUME NEW s, NEW u PROVE has(s, u) \in SUBSET Lists  BY <1>1
<1>. HIDE DEF set, env, has
<1>5. PICK F \in SUBSET DOMAIN d.set, E \in SUBSET DOMAIN d.env,
           s \in Mixtures(d.storage, r.storage, r.url),
           u \in Mixtures(d.url, r.url, r.storage) :
             b = [set |-> set(F), env |-> env(E), storage |-> s, url |-> u,
                  has |-> has(s, u)]
  BY DEF Blends, set, env, has
<1>6. s \in EntryLists /\ u \in EntryLists  BY <1>1, <1>5, MixturesTyped
<1>7. set(F) \in SetValues /\ env(E) \in EnvValues /\ has(s, u) \in SUBSET Lists
  BY <1>2, <1>3, <1>4
<1>. QED  BY <1>5, <1>6, <1>7, DocParts

\* A document of a file, what its remains read as, or an empty one.
LEMMA ReadsFacts ==
    ASSUME EntriesOK, NEW f \in FileIds, NEW d \in Reads(file[f])
    PROVE  /\ d \in Doc
           /\ ~mixed /\ ~(Unreadable(file[f]) /\ d # file[f].doc) => Unique(d)
<1>1. CASE file[f].kind \in {"absent", "empty"}
  BY <1>1, DocFacts DEF Reads
<1>2. CASE file[f].kind \notin {"absent", "empty"}
  <2>1. /\ file[f].kind \in {"doc", "torn"} /\ file[f].doc \in Doc
        /\ file[f].kind = "torn" => file[f].under \subseteq Doc
    BY <1>2 DEF EntriesOK, TypeOK, Absent, Empty
  <2>2. \/ d = file[f].doc
        \/ file[f].kind = "torn" /\ \E r \in file[f].under : d \in Blends(file[f].doc, r)
    BY <1>2 DEF Reads
  <2>3. d \in Doc  BY <2>1, <2>2, BlendsTyped
  <2>4. ~mixed => Unique(file[f].doc)  BY <2>1 DEF EntriesOK, EntriesInv
  <2>. QED  BY <2>2, <2>3, <2>4 DEF Unreadable
<1>. QED  BY <1>1, <1>2

\* Each file is as it was, absent, empty, or has a document of its own.
NewText(g) == /\ g.kind \in {"doc", "torn"} /\ g.doc \in Doc
              /\ g.kind = "torn" => g.under \subseteq Doc
              /\ ~mixed' => Unique(g.doc)

FilesOK ==
    /\ DOMAIN file' = FileIds
    /\ \A f \in FileIds : \/ file'[f] = file[f]
                          \/ file'[f] \in {Absent, Empty}
                          \/ NewText(file'[f])

\* Such files have the types and the unique entries of the invariant.
LEMMA FilesStay ==
    ASSUME EntriesOK, FilesOK, mixed => mixed'
    PROVE  /\ DOMAIN file' = FileIds
           /\ \A f \in FileIds :
                /\ \/ file'[f] \in {Absent, Empty}
                   \/ file'[f].kind \in {"doc", "torn"} /\ file'[f].doc \in Doc
                /\ file'[f].kind = "torn" => file'[f].under \subseteq Doc
           /\ ~mixed' => \A f \in FileIds :
                file'[f].kind \in {"doc", "torn"} => Unique(file'[f].doc)
<1>1. SUFFICES ASSUME NEW f \in FileIds
               PROVE  /\ \/ file'[f] \in {Absent, Empty}
                         \/ file'[f].kind \in {"doc", "torn"} /\ file'[f].doc \in Doc
                      /\ file'[f].kind = "torn" => file'[f].under \subseteq Doc
                      /\ ~mixed' => (file'[f].kind \in {"doc", "torn"} => Unique(file'[f].doc))
  BY DEF FilesOK
<1>2. CASE file'[f] = file[f]
  <2>1. ~mixed => (file[f].kind \in {"doc", "torn"} => Unique(file[f].doc))
    BY DEF EntriesOK, EntriesInv
  <2>2. /\ \/ file[f] \in {Absent, Empty}
           \/ file[f].kind \in {"doc", "torn"} /\ file[f].doc \in Doc
        /\ file[f].kind = "torn" => file[f].under \subseteq Doc
    BY DEF EntriesOK, TypeOK
  <2>. QED  BY <1>2, <2>1, <2>2
<1>3. CASE file'[f] \in {Absent, Empty}
  BY <1>3 DEF Absent, Empty
<1>4. CASE NewText(file'[f])
  BY <1>4 DEF NewText
<1>. QED  BY <1>2, <1>3, <1>4 DEF FilesOK

\* A step of terminal p that leaves the others alone.
LEMMA OwnStep ==
    ASSUME EntriesOK, NEW p \in Terminals, FilesOK,
           NEW q \in {"idle", "context", "read", "ask", "write", "save", "lost", "remove"},
           pc' = [pc EXCEPT ![p] = q],
           NEW d \in Doc, mem' = [mem EXCEPT ![p] = d],
           mixed' \in BOOLEAN, mixed => mixed', ~mixed' => Unique(d),
           NEW c \in Commands, cmd' = [cmd EXCEPT ![p] = c],
           q \in {"ask", "write"} => Fits(c, d),
           q \in {"write", "save", "lost"} => c.op # "deleteAll",
           NEW r \in {"none", "running", "ok", "failed", "aborted"},
           result' = [result EXCEPT ![p] = r],
           commands' \in 0..MaxCommands, faults' \in 0..MaxFaults
    PROVE  EntriesOK'
<1>1. TypeOK'
  BY FilesStay DEF EntriesOK, TypeOK
<1>2. /\ pc'[p] = q /\ mem'[p] = d /\ cmd'[p] = c
      /\ \A o \in Terminals \ {p} : pc'[o] = pc[o] /\ mem'[o] = mem[o] /\ cmd'[o] = cmd[o]
  BY DEF EntriesOK, TypeOK
<1>3. ASSUME NEW o \in Terminals
      PROVE  /\ ~mixed' => Unique(mem'[o])
             /\ pc'[o] \in {"ask", "write"} => Fits(cmd'[o], mem'[o])
             /\ pc'[o] \in {"write", "save", "lost"} => cmd'[o].op # "deleteAll"
  <2>1. CASE o = p  BY <1>2, <2>1
  <2>2. CASE o # p  BY <1>2, <2>2 DEF EntriesOK, EntriesInv
  <2>. QED  BY <2>1, <2>2
<1>4. EntriesInv'
  BY <1>3, FilesStay
     DEF EntriesInv, Unique, Fits, RefusesStorage, RefusesUrl, RefusesDelStorage,
         RefusesDelUrl, HasName
<1>. QED  BY <1>1, <1>4 DEF EntriesOK

\* The command and the counters as they were.
LEMMA Same ==
    ASSUME EntriesOK, NEW p \in Terminals
    PROVE  /\ cmd[p] \in Commands /\ cmd = [cmd EXCEPT ![p] = cmd[p]]
           /\ mem[p] \in Doc /\ mem = [mem EXCEPT ![p] = mem[p]]
           /\ mixed \in BOOLEAN /\ (~mixed => Unique(mem[p]))
           /\ result[p] \in {"none", "running", "ok", "failed", "aborted"}
           /\ result = [result EXCEPT ![p] = result[p]]
           /\ commands \in 0..MaxCommands /\ faults \in 0..MaxFaults
           /\ UNCHANGED file => FilesOK
BY DEF EntriesOK, TypeOK, EntriesInv, FilesOK

\* The end of a command.
LEMMA EndsOK ==
    ASSUME EntriesOK, NEW p \in Terminals, FilesOK, UNCHANGED <<cmd, commands, mixed>>,
           NEW r \in {"ok", "failed", "aborted"}, Ends(p, r), faults' \in 0..MaxFaults
    PROVE  EntriesOK'
<1>1. /\ pc' = [pc EXCEPT ![p] = "idle"] /\ mem' = [mem EXCEPT ![p] = Blank]
      /\ result' = [result EXCEPT ![p] = r]
  BY DEF Ends, Goto
<1>2. Blank \in Doc /\ Unique(Blank)  BY DocFacts
<1>3. cmd[p] \in Commands /\ cmd' = [cmd EXCEPT ![p] = cmd[p]] /\ commands' \in 0..MaxCommands
  BY Same
<1>4. mixed' \in BOOLEAN /\ (mixed => mixed')  BY Same
<1>5. r \in {"none", "running", "ok", "failed", "aborted"}  OBVIOUS
<1>6. ASSUME NEW q, q = "idle", NEW d \in Doc, d = Blank PROVE EntriesOK'
  <2>1. /\ q \in {"idle", "context", "read", "ask", "write", "save", "lost", "remove"}
        /\ q \notin {"ask", "write", "save", "lost"}
        /\ pc' = [pc EXCEPT ![p] = q] /\ mem' = [mem EXCEPT ![p] = d]
    BY <1>1, <1>6
  <2>2. Unique(d)  BY <1>2, <1>6
  <2>. QED  BY <1>1, <1>3, <1>4, <1>5, <2>1, <2>2, OwnStep
<1>. QED  BY <1>2, <1>6

----------------------------------------------------------------------------
(* The steps *)

\* One lemma for each action: types and unique entries stay.
LEMMA StartFits ==
    ASSUME EntriesOK, NEW p \in Terminals, NEW c \in Commands, Start(p, c)
    PROVE  EntriesOK'
<1>1. /\ pc' = [pc EXCEPT ![p] = "context"] /\ cmd' = [cmd EXCEPT ![p] = c]
      /\ result' = [result EXCEPT ![p] = "running"]
      /\ UNCHANGED <<file, mem, faults, mixed>>
  BY DEF Start, Goto
<1>2. commands' \in 0..MaxCommands
  BY CountsAssumption DEF Start, EntriesOK, TypeOK
<1>3. /\ FilesOK /\ mem[p] \in Doc /\ mem' = [mem EXCEPT ![p] = mem[p]]
      /\ mixed' \in BOOLEAN /\ (mixed => mixed') /\ (~mixed' => Unique(mem[p]))
      /\ faults' \in 0..MaxFaults
  BY <1>1, Same
<1>4. ASSUME NEW q, q = "context", NEW r, r = "running" PROVE EntriesOK'
  <2>1. /\ q \in {"idle", "context", "read", "ask", "write", "save", "lost", "remove"}
        /\ q \notin {"ask", "write", "save", "lost"}
        /\ pc' = [pc EXCEPT ![p] = q] /\ result' = [result EXCEPT ![p] = r]
        /\ r \in {"none", "running", "ok", "failed", "aborted"}
    BY <1>1, <1>4
  <2>. QED  BY <1>1, <1>2, <1>3, <2>1, OwnStep
<1>. QED  BY <1>4

\* Steps of a terminal that leave its command and its copy as they are.
LEMMA GoesOn ==
    ASSUME EntriesOK, NEW p \in Terminals,
           UNCHANGED <<file, cmd, mem, result, commands, faults, mixed>>,
           NEW q \in {"context", "read", "ask", "write", "save", "lost", "remove"}, Goto(p, q),
           q \in {"ask", "write"} => Fits(cmd[p], mem[p]),
           q \in {"write", "save", "lost"} => cmd[p].op # "deleteAll"
    PROVE  EntriesOK'
<1>1. pc' = [pc EXCEPT ![p] = q]  BY DEF Goto
<1>2. /\ cmd[p] \in Commands /\ cmd' = [cmd EXCEPT ![p] = cmd[p]]
      /\ mem[p] \in Doc /\ mem' = [mem EXCEPT ![p] = mem[p]]
      /\ mixed' \in BOOLEAN /\ (mixed => mixed') /\ (~mixed' => Unique(mem[p]))
      /\ result[p] \in {"none", "running", "ok", "failed", "aborted"}
      /\ result' = [result EXCEPT ![p] = result[p]]
      /\ commands' \in 0..MaxCommands /\ faults' \in 0..MaxFaults /\ FilesOK
  BY Same
<1>3. q \in {"idle", "context", "read", "ask", "write", "save", "lost", "remove"}  OBVIOUS
<1>. QED  BY <1>1, <1>2, <1>3, OwnStep

\* The end of a command that leaves the files alone.
LEMMA Stops ==
    ASSUME EntriesOK, NEW p \in Terminals, UNCHANGED <<file, cmd, commands, faults, mixed>>,
           NEW r \in {"ok", "failed", "aborted"}, Ends(p, r)
    PROVE  EntriesOK'
<1>1. FilesOK /\ faults' \in 0..MaxFaults  BY Same
<1>. QED  BY <1>1, EndsOK

LEMMA ContextFits == ASSUME EntriesOK, NEW p \in Terminals, Context(p) PROVE EntriesOK'
<1>1. CASE Ends(p, "failed")
  BY <1>1, Stops DEF Context
<1>2. ASSUME NEW q, q = IF cmd[p].op = "deleteAll" /\ ~cmd[p].force THEN "ask" ELSE "read",
             Goto(p, q), UNCHANGED <<result, mem>>
      PROVE  EntriesOK'
  <2>1. q \in {"ask", "read"} /\ (q = "ask" => cmd[p].op = "deleteAll")  BY <1>2
  <2>2. q = "ask" => Fits(cmd[p], mem[p])  BY <2>1 DEF Fits
  <2>3. UNCHANGED <<file, cmd, mem, result, commands, faults, mixed>>  BY <1>2 DEF Context
  <2>. QED  BY <1>2, <2>1, <2>2, <2>3, GoesOn
<1>. QED  BY <1>1, <1>2 DEF Context

LEMMA ReadFits == ASSUME EntriesOK, NEW p \in Terminals, Read(p) PROVE EntriesOK'
<1>. DEFINE c == cmd[p]
            f == file[FileOf(c)]
            q(d) == CASE c.op = "deleteAll" -> "remove"
                      [] c.op # "deleteAll" /\ Asks(c, d) -> "ask"
                      [] OTHER -> "write"
<1>1. CASE Ends(p, "failed") /\ UNCHANGED mixed
  BY <1>1, Stops DEF Read
<1>2. ASSUME NEW d \in Reads(f), ~Refuses(c, d, f), mem' = [mem EXCEPT ![p] = d],
             mixed' = (mixed \/ (Unreadable(f) /\ d # f.doc)),
             Goto(p, q(d)), UNCHANGED result
      PROVE  EntriesOK'
  <2>1. FileOf(c) \in FileIds  BY DEF FileOf, FileIds
  <2>2. /\ d \in Doc /\ (~mixed' => Unique(d))
        /\ mixed' \in BOOLEAN /\ (mixed => mixed')
    <3>1. /\ d \in Doc
          /\ ~mixed /\ ~(Unreadable(f) /\ d # f.doc) => Unique(d)
      BY <2>1, ReadsFacts
    <3>. QED  BY <1>2, <3>1
  <2>3. Fits(c, d)
    BY <1>2 DEF Fits, Refuses
  <2>4. /\ q(d) \in {"remove", "ask", "write"}
        /\ q(d) = "write" => c.op # "deleteAll"
    OBVIOUS
  <2>5. /\ c \in Commands /\ cmd' = [cmd EXCEPT ![p] = c]
        /\ result[p] \in {"none", "running", "ok", "failed", "aborted"}
        /\ result' = [result EXCEPT ![p] = result[p]]
        /\ commands' \in 0..MaxCommands /\ faults' \in 0..MaxFaults /\ FilesOK
    BY <1>2, Same DEF Read
  <2>6. pc' = [pc EXCEPT ![p] = q(d)]  BY <1>2 DEF Goto
  <2>. HIDE DEF c, f, q
  <2>. QED  BY <1>2, <2>2, <2>3, <2>4, <2>5, <2>6, OwnStep
<1>3. \/ Ends(p, "failed") /\ UNCHANGED mixed
      \/ \E d \in Reads(f) : /\ ~Refuses(c, d, f) /\ mem' = [mem EXCEPT ![p] = d]
                             /\ mixed' = (mixed \/ (Unreadable(f) /\ d # f.doc))
                             /\ Goto(p, q(d)) /\ UNCHANGED result
  BY DEF Read
<1>. QED  BY <1>1, <1>2, <1>3

LEMMA AskFits == ASSUME EntriesOK, NEW p \in Terminals, Ask(p) PROVE EntriesOK'
<1>1. CASE Ends(p, "aborted")
  BY <1>1, Stops DEF Ask
<1>2. ASSUME NEW q, q = IF cmd[p].op = "deleteAll" THEN "read" ELSE "write",
             Goto(p, q), UNCHANGED <<result, mem>>
      PROVE  EntriesOK'
  <2>1. q \in {"read", "write"} /\ (q = "write" => cmd[p].op # "deleteAll")  BY <1>2
  <2>2. Fits(cmd[p], mem[p])  BY DEF Ask, EntriesOK, EntriesInv
  <2>3. UNCHANGED <<file, cmd, mem, result, commands, faults, mixed>>  BY <1>2 DEF Ask
  <2>. QED  BY <1>2, <2>1, <2>2, <2>3, GoesOn
<1>. QED  BY <1>1, <1>2 DEF Ask

LEMMA WriteFits == ASSUME NoLists, EntriesOK, NEW p \in Terminals, Write(p) PROVE EntriesOK'
<1>. DEFINE c == cmd[p]
            d == Applied(c, mem[p])
<1>1. CASE Breaks(c, mem[p])
  BY <1>1, Stops DEF Write
<1>2. CASE ~Breaks(c, mem[p])
  <2>1. /\ c.op # "deleteAll" /\ Fits(c, mem[p]) /\ c \in Commands
        /\ mem[p] \in Doc /\ (~mixed => Unique(mem[p]))
    BY DEF Write, EntriesOK, EntriesInv, TypeOK
  <2>2. d \in Doc /\ (~mixed => Unique(d))  BY <1>2, <2>1, AppliedFacts
  <2>3. /\ mem' = [mem EXCEPT ![p] = d] /\ pc' = [pc EXCEPT ![p] = "save"]
        /\ file' = [file EXCEPT ![FileOf(c)] = Empty]
        /\ UNCHANGED <<cmd, result, commands, faults, mixed>>
    BY <1>2 DEF Write, Goto, EntriesOK, TypeOK
  <2>4. FilesOK
    BY <2>3 DEF FilesOK, EntriesOK, TypeOK
  <2>5. /\ cmd' = [cmd EXCEPT ![p] = c]
        /\ result[p] \in {"none", "running", "ok", "failed", "aborted"}
        /\ result' = [result EXCEPT ![p] = result[p]]
        /\ mixed' \in BOOLEAN /\ (mixed => mixed') /\ (~mixed' => Unique(d))
        /\ commands' \in 0..MaxCommands /\ faults' \in 0..MaxFaults
    BY <2>2, <2>3, Same
  <2>. HIDE DEF c, d
  <2>6. ASSUME NEW q, q = "save" PROVE EntriesOK'
    <3>1. /\ q \in {"idle", "context", "read", "ask", "write", "save", "lost", "remove"}
          /\ q \notin {"ask", "write"} /\ pc' = [pc EXCEPT ![p] = q]
      BY <2>3, <2>6
    <3>. QED  BY <2>1, <2>2, <2>3, <2>4, <2>5, <3>1, OwnStep
  <2>. QED  BY <2>6
<1>. QED  BY <1>1, <1>2

LEMMA SaveFits == ASSUME EntriesOK, NEW p \in Terminals, Save(p) PROVE EntriesOK'
<1>1. /\ UNCHANGED <<cmd, commands, faults, mixed>> /\ Ends(p, "ok")
      /\ faults' \in 0..MaxFaults /\ mem[p] \in Doc /\ (~mixed => Unique(mem[p]))
  BY Same DEF Save
<1>2. CASE UNCHANGED file
  BY <1>1, <1>2, Stops
<1>3. ASSUME NEW g \in Over(file[FileOf(cmd[p])], mem[p]),
             file' = [file EXCEPT ![FileOf(cmd[p])] = g]
      PROVE  EntriesOK'
  <2>1. /\ g.kind \in {"doc", "torn"} /\ g.doc = mem[p]
        /\ g.kind = "torn" => g.under = Reads(file[FileOf(cmd[p])])
    BY DEF Over, Is, Torn
  <2>2. Reads(file[FileOf(cmd[p])]) \subseteq Doc
    BY FileOfInFileIds, ReadsFacts
  <2>3. NewText(g)  BY <1>1, <2>1, <2>2 DEF NewText
  <2>4. FilesOK
    BY <1>3, <2>3 DEF FilesOK, EntriesOK, TypeOK
  <2>. QED  BY <1>1, <2>4, EndsOK
<1>. QED  BY <1>2, <1>3 DEF Save

LEMMA RemoveFits == ASSUME EntriesOK, NEW p \in Terminals, Remove(p) PROVE EntriesOK'
<1>1. /\ file' = [file EXCEPT !["local"] = Absent]
      /\ pc' \in [Terminals -> {"idle", "context", "read", "ask", "write", "save",
                                "lost", "remove"}]
      /\ \A o \in Terminals : \/ pc'[o] \in {"idle", pc[o]}
                              \/ pc'[o] = "lost" /\ pc[o] = "save"
      /\ result' \in [Terminals -> {"none", "running", "ok", "failed", "aborted"}]
      /\ mem' = [mem EXCEPT ![p] = Blank] /\ pc'[p] = "idle"
      /\ UNCHANGED <<cmd, commands, faults, mixed>>
  BY DEF Remove, EntriesOK, TypeOK
<1>2. FilesOK
  BY <1>1 DEF FilesOK, EntriesOK, TypeOK
<1>3. TypeOK'
  BY <1>1, FilesStay, <1>2, DocFacts DEF EntriesOK, TypeOK
<1>4. ASSUME NEW o \in Terminals
      PROVE  /\ ~mixed => Unique(mem'[o])
             /\ pc'[o] \in {"ask", "write"} => Fits(cmd[o], mem'[o])
             /\ pc'[o] \in {"write", "save", "lost"} => cmd[o].op # "deleteAll"
  <2>1. CASE o = p  
    <3>1. mem'[o] = Blank /\ pc'[o] = "idle"  BY <1>1, <2>1 DEF EntriesOK, TypeOK
    <3>. QED  BY <3>1, DocFacts
  <2>2. CASE o # p
    <3>1. mem'[o] = mem[o]  BY <1>1, <2>2 DEF EntriesOK, TypeOK
    <3>. QED  BY <1>1, <3>1 DEF EntriesOK, EntriesInv
  <2>. QED  BY <2>1, <2>2
<1>5. EntriesInv'
  BY <1>1, <1>2, <1>4, FilesStay
     DEF EntriesInv, Unique, Fits, RefusesStorage, RefusesUrl, RefusesDelStorage,
         RefusesDelUrl, HasName
<1>. QED  BY <1>3, <1>5 DEF EntriesOK

LEMMA DieFits == ASSUME EntriesOK, NEW p \in Terminals, Die(p) PROVE EntriesOK'
<1>1. UNCHANGED <<file, cmd, commands, mixed>> /\ Ends(p, "failed")  BY DEF Die
<1>2. faults' \in 0..MaxFaults  BY CountsAssumption DEF Die, EntriesOK, TypeOK
<1>3. FilesOK  BY <1>1, Same
<1>. QED  BY <1>1, <1>2, <1>3, EndsOK

LEMMA InitFits == Init => EntriesOK
<1>. SUFFICES ASSUME Init PROVE EntriesOK
  OBVIOUS
<1>1. NoCommand \in Commands
  BY DEF NoCommand, Commands, DeleteAllCommands, Command
<1>2. TypeOK
  <2>1. mixed \in BOOLEAN  BY DEF Init
  <2>2. /\ DOMAIN file = FileIds
        /\ \A f \in FileIds : file[f] = Absent /\ file[f].kind # "torn"
    BY DEF Init, Absent
  <2>3. /\ pc \in [Terminals -> {"idle", "context", "read", "ask", "write", "save",
                                "lost", "remove"}]
        /\ cmd \in [Terminals -> Commands] /\ mem \in [Terminals -> Doc]
        /\ result \in [Terminals -> {"none", "running", "ok", "failed", "aborted"}]
    BY <1>1, DocFacts DEF Init
  <2>4. commands \in 0..MaxCommands /\ faults \in 0..MaxFaults
    BY CountsAssumption DEF Init
  <2>. QED  BY <2>1, <2>2, <2>3, <2>4 DEF TypeOK
<1>3. EntriesInv
  BY DocFacts DEF Init, EntriesInv, Absent
<1>. QED  BY <1>2, <1>3 DEF EntriesOK

\* Together: the invariant is inductive.
LEMMA EntriesStep == ASSUME NoLists, EntriesOK, Next PROVE EntriesOK'
BY StartFits, ContextFits, ReadFits, AskFits, WriteFits, SaveFits, RemoveFits, DieFits
   DEF Next, Steps

LEMMA EntriesStay == ASSUME EntriesOK, UNCHANGED vars PROVE EntriesOK'
BY DEF vars, EntriesOK, TypeOK, EntriesInv, Unique, Fits, RefusesStorage, RefusesUrl,
       RefusesDelStorage, RefusesDelUrl, HasName

\* The storages of a document differ in name and path, its URLs in name, in the
\* files and in every copy about to be written, however the commands of the
\* terminals overlap (ValidateStorage, URLCreateOptions.Validate, DeleteUrl and
\* DeleteFromConfigurationList), as long as nobody uses `config set storage`,
\* whose entries have no name, and nobody reads a file that two commands have
\* written at once as a mixture of both (WriteToFile); and the files and copies
\* are documents, also then.
THEOREM EntriesStayUnique == ASSUME NoLists PROVE Spec => [](TypeOK /\ EntriesUnique)
<1>1. Init => EntriesOK  BY InitFits
<1>2. EntriesOK /\ [Next]_vars => EntriesOK'  BY EntriesStep, EntriesStay
<1>3. EntriesOK => TypeOK /\ EntriesUnique
  BY DEF EntriesOK, EntriesInv, EntriesUnique, Documents
<1>. QED  BY <1>1, <1>2, <1>3, PTL DEF Spec

----------------------------------------------------------------------------
(* One terminal *)

OneTerminal == \E t : Terminals = {t}

\* What a file that is not torn reads as.
Text(g) == IF g.kind \in {"absent", "empty"} THEN Blank ELSE g.doc

LEMMA ReadsText ==
    ASSUME NEW g, g.kind # "torn" PROVE Reads(g) = {Text(g)} /\ ~Unreadable(g)
BY DEF Reads, Text, Unreadable

\* A command that changes a file has read what is in it, and finds it as it was.
OneInv ==
  /\ ~mixed /\ \A f \in FileIds : file[f].kind # "torn"
  /\ \A p \in Terminals :
       /\ pc[p] # "lost"
       /\ pc[p] = "save" => file[FileOf(cmd[p])] = Empty
       /\ pc[p] \in {"ask", "write"} /\ cmd[p].op # "deleteAll" =>
            mem[p] = Text(file[FileOf(cmd[p])])
       /\ pc[p] \in {"ask", "write"} /\ cmd[p].op = "create" => file["local"] = Absent

\* A file that is empty becomes the document written to it.
LEMMA OverEmpty == \A d : Over(Empty, d) = {Is(d)}
BY DEF Over, Empty

\* Every command has one of the two files; a creation the component's.
LEMMA FileOfFacts == /\ \A c : FileOf(c) \in FileIds
                     /\ \A c : c.op = "create" => FileOf(c) = "local"
                     /\ "local" \in FileIds /\ "preference" \in FileIds
BY DEF FileOf, FileIds

\* Before the first command there is no file.
LEMMA OneInit == Init => OneInv
BY DEF Init, OneInv, Absent, FileIds

\* A step that leaves the files alone and does not come from a question or go on
\* to one, nor to the writing.
LEMMA OneIdle ==
    ASSUME NEW t, Terminals = {t}, EntriesOK, OneInv, UNCHANGED <<file, mixed>>,
           pc'[t] \in {"idle", "context", "read", "remove"}
    PROVE  OneInv'
BY DEF OneInv

\* OneInv is inductive, as long as there is only one terminal.
LEMMA OneStep ==
    ASSUME NEW t, Terminals = {t}, EntriesOK, OneInv, Next
    PROVE  OneInv'
<1>. USE DEF EntriesOK, TypeOK
<1>1. ASSUME NEW r, Ends(t, r)  PROVE pc'[t] = "idle"
  BY <1>1 DEF Ends, Goto
<1>2. ASSUME NEW c \in Commands, Start(t, c)  PROVE OneInv'
  BY <1>2, OneIdle DEF Start, Goto
<1>3. CASE Context(t)
  BY <1>1, <1>3, OneIdle DEF Context, Goto, OneInv
<1>4. CASE Read(t)
  <2>. DEFINE c == cmd[t]
              f == file[FileOf(c)]
  <2>0. Reads(f) = {Text(f)} /\ ~Unreadable(f)
    BY ReadsText, FileOfFacts DEF OneInv
  <2>4. UNCHANGED <<file, mixed>>
    BY <1>4, <2>0 DEF Read, OneInv
  <2>1. CASE pc'[t] \in {"idle", "remove"}
    BY <2>1, <2>4, OneIdle
  <2>2. ASSUME NEW d \in Reads(f), ~Refuses(c, d, f), mem' = [mem EXCEPT ![t] = d],
               pc'[t] \in {"ask", "write"}
        PROVE  OneInv'
    <3>1. UNCHANGED <<file, cmd, mixed>> /\ mem'[t] = Text(f)
      BY <1>4, <2>0, <2>2, <2>4 DEF Read
    <3>2. c.op = "create" => file["local"] = Absent
      BY <2>2, FileOfFacts DEF Refuses, RefusesCreate
    <3>. QED  BY <2>2, <3>1, <3>2 DEF OneInv, FileOf, Text
  <2>3. \/ Ends(t, "failed")
        \/ \E d \in Reads(f) : /\ ~Refuses(c, d, f) /\ mem' = [mem EXCEPT ![t] = d]
                               /\ pc'[t] \in {"remove", "ask", "write"}
    BY <1>4 DEF Read, Goto
  <2>. QED  BY <1>1, <2>1, <2>2, <2>3
<1>5. CASE Ask(t)
  <2>1. CASE pc'[t] \in {"idle", "read"}
    BY <1>5, <2>1, OneIdle DEF Ask
  <2>2. CASE pc'[t] = "write" /\ cmd[t].op # "deleteAll" /\ UNCHANGED mem
    BY <1>5, <2>2 DEF Ask, OneInv, FileOf, Text
  <2>. QED  BY <1>1, <1>5, <2>1, <2>2 DEF Ask, Goto
<1>6. CASE Write(t)
  <2>1. CASE Breaks(cmd[t], mem[t])
    BY <1>1, <1>6, <2>1, OneIdle DEF Write
  <2>2. CASE ~Breaks(cmd[t], mem[t])
    <3>1. /\ file' = [file EXCEPT ![FileOf(cmd[t])] = Empty] /\ UNCHANGED <<cmd, mixed>>
          /\ pc'[t] = "save"
      BY <1>6, <2>2 DEF Write, Goto
    <3>2. \A f \in FileIds : file'[f].kind # "torn"
      BY <3>1 DEF OneInv, Empty
    <3>3. file'[FileOf(cmd'[t])] = Empty
      BY <3>1, FileOfFacts
    <3>. QED  BY <3>1, <3>2, <3>3 DEF OneInv
  <2>. QED  BY <2>1, <2>2
<1>7. CASE Save(t)
  <2>1. /\ pc[t] = "save" /\ pc'[t] = "idle"
        /\ file[FileOf(cmd[t])] = Empty
    BY <1>1, <1>7 DEF Save, OneInv
  <2>2. file' = [file EXCEPT ![FileOf(cmd[t])] = Is(mem[t])] /\ UNCHANGED mixed
    BY <1>7, <2>1, OverEmpty DEF Save
  <2>3. \A f \in FileIds : file'[f].kind # "torn"
    BY <2>2 DEF OneInv, Is
  <2>. QED  BY <2>1, <2>2, <2>3 DEF OneInv
<1>8. CASE Remove(t)
  <2>1. pc'[t] = "idle" /\ file' = [file EXCEPT !["local"] = Absent] /\ UNCHANGED mixed
    BY <1>8 DEF Remove
  <2>2. \A f \in FileIds : file'[f].kind # "torn"
    BY <2>1 DEF OneInv, Absent
  <2>. QED  BY <2>1, <2>2 DEF OneInv
<1>9. CASE Die(t)
  BY <1>1, <1>9, OneIdle DEF Die
<1>. QED  BY <1>2, <1>3, <1>4, <1>5, <1>6, <1>7, <1>8, <1>9 DEF Next, Steps

----------------------------------------------------------------------------
(* What a file stands for *)

Content(F, d) == [set |-> [k \in F |-> d.set[k]], env |-> d.env,
                  storage |-> Range(d.storage), url |-> Range(d.url)]
Holds(s) == [kind |-> "file", doc |-> s]

View(F, g) == IF g = Absent THEN Absent
              ELSE Holds(Content(F, IF g.kind = "doc" THEN g.doc ELSE Blank))

Saves(t, f) == pc[t] = "save" /\ FileOf(cmd[t]) = f

\* What the refinement mapping makes of a file: while the terminal saves it,
\* its copy; else what is in it.
LEMMA OneView ==
    ASSUME NEW t, Terminals = {t}, NEW f, NEW F
    PROVE  /\ Saves(t, f) => Abstract(f, F) =
                IF file[f] = Absent THEN Absent ELSE Holds(Content(F, mem[t]))
           /\ ~Saves(t, f) => Abstract(f, F) = View(F, file[f])
<1>1. CASE Saves(t, f)
  <2>1. {p \in Terminals : pc[p] = "save" /\ FileOf(cmd[p]) = f} = {t}
    BY <1>1 DEF Saves
  <2>2. (CHOOSE p \in {t} : TRUE) = t
    OBVIOUS
  <2>. QED  BY <1>1, <2>1, <2>2 DEF Abstract, Content, Holds, Absent
<1>2. CASE ~Saves(t, f)
  <2>1. {p \in Terminals : pc[p] = "save" /\ FileOf(cmd[p]) = f} = {}
    BY <1>2 DEF Saves
  <2>. QED  BY <1>2, <2>1 DEF Abstract, View, Content, Holds, Absent
<1>. QED  BY <1>1, <1>2

\* The same after a step.
LEMMA OneViewNext ==
    ASSUME NEW t, Terminals = {t}, NEW f, NEW F
    PROVE  /\ Saves(t, f)' => Abstract(f, F)' =
                IF file'[f] = Absent THEN Absent ELSE Holds(Content(F, mem'[t]))
           /\ ~Saves(t, f)' => Abstract(f, F)' = View(F, file'[f])
<1>1. CASE Saves(t, f)'
  <2>1. {p \in Terminals : pc'[p] = "save" /\ FileOf(cmd'[p]) = f} = {t}
    BY <1>1 DEF Saves
  <2>2. (CHOOSE p \in {t} : TRUE) = t
    OBVIOUS
  <2>. QED  BY <1>1, <2>1, <2>2 DEF Abstract, Content, Holds, Absent
<1>2. CASE ~Saves(t, f)'
  <2>1. {p \in Terminals : pc'[p] = "save" /\ FileOf(cmd'[p]) = f} = {}
    BY <1>2 DEF Saves
  <2>. QED  BY <1>2, <2>1 DEF Abstract, View, Content, Holds, Absent
<1>. QED  BY <1>1, <1>2

EmptyContent(F) == [set |-> [k \in F |-> None], env |-> [e \in EnvNames |-> None],
                    storage |-> {}, url |-> {}]

\* A document without settings.
LEMMA BlankContent ==
    ASSUME NEW F \in {Fields, Prefs} PROVE Content(F, Blank) = EmptyContent(F)
<1>1. Range(<<>>) = {}  BY DEF Range
<1>2. \A k \in F : Blank.set[k] = None  BY DEF Blank, PrefFields
<1>3. Blank.storage = <<>> /\ Blank.url = <<>> /\ Blank.env = [e \in EnvNames |-> None]
  BY DEF Blank
<1>. QED  BY <1>1, <1>2, <1>3 DEF Content, EmptyContent

\* What a command reads in a file is what the file stands for.
LEMMA HoldsFacts == \A s : Holds(s).doc = s /\ Holds(s) # Absent
<1>. SUFFICES ASSUME NEW s PROVE Holds(s).doc = s /\ Holds(s) # Absent
  OBVIOUS
<1>1. Holds(s).doc = s /\ Holds(s).kind = "file" /\ Absent.kind = "absent"
  BY DEF Holds, Absent
<1>. QED  BY <1>1

LEMMA StartContent ==
    ASSUME NEW F \in {Fields, Prefs}, NEW g,
           g.kind \in {"absent", "empty", "doc"}, NEW d \in Reads(g)
    PROVE  (IF View(F, g) = Absent THEN EmptyContent(F) ELSE View(F, g).doc) = Content(F, d)
<1>1. CASE g = Absent
  <2>1. d = Blank  BY <1>1 DEF Reads, Absent
  <2>2. View(F, g) = Absent  BY <1>1 DEF View
  <2>. QED  BY <2>1, <2>2, BlankContent
<1>2. CASE g # Absent
  <2>1. d = IF g.kind = "doc" THEN g.doc ELSE Blank
    BY DEF Reads
  <2>2. View(F, g) = Holds(Content(F, d))  BY <1>2, <2>1 DEF View
  <2>. QED  BY <2>2, HoldsFacts
<1>. QED  BY <1>1, <1>2

----------------------------------------------------------------------------
(* What a command makes of the content of a file *)

\* A record of the four parts, and another value for one of them.
Parts(a, b, c, e) == [set |-> a, env |-> b, storage |-> c, url |-> e]

\* Taking and replacing a part.
LEMMA PartsFacts ==
    ASSUME NEW a, NEW b, NEW c, NEW e, NEW v, NEW r, r = Parts(a, b, c, e)
    PROVE  /\ r.set = a /\ r.env = b /\ r.storage = c /\ r.url = e
           /\ [r EXCEPT !.set = v] = Parts(v, b, c, e)
           /\ [r EXCEPT !.env = v] = Parts(a, v, c, e)
           /\ [r EXCEPT !.storage = v] = Parts(a, b, v, e)
           /\ [r EXCEPT !.url = v] = Parts(a, b, c, v)
<1>1. r \in [set : {a, v}, env : {b, v}, storage : {c, v}, url : {e, v}]
  BY DEF Parts
<1>2. r.set = a /\ r.env = b /\ r.storage = c /\ r.url = e
  BY DEF Parts
<1>3. [r EXCEPT !.set = v] = Parts(v, b, c, e)  BY <1>1, <1>2 DEF Parts
<1>4. [r EXCEPT !.env = v] = Parts(a, v, c, e)  BY <1>1, <1>2 DEF Parts
<1>5. [r EXCEPT !.storage = v] = Parts(a, b, v, e)  BY <1>1, <1>2 DEF Parts
<1>6. [r EXCEPT !.url = v] = Parts(a, b, c, v)  BY <1>1, <1>2 DEF Parts
<1>. QED  BY <1>2, <1>3, <1>4, <1>5, <1>6

Only(F, x) == [k \in F |-> x[k]]

\* The parts of a content.
LEMMA ContentFacts ==
    ASSUME NEW F, NEW d
    PROVE  /\ Content(F, d) = Parts(Only(F, d.set), d.env, Range(d.storage), Range(d.url))
           /\ Content(F, d).set = Only(F, d.set)
           /\ Content(F, d).env = d.env
           /\ Content(F, d).storage = Range(d.storage)
           /\ Content(F, d).url = Range(d.url)
<1>1. Content(F, d) = Parts(Only(F, d.set), d.env, Range(d.storage), Range(d.url))
  BY DEF Content, Parts, Only
<1>. QED  BY <1>1, PartsFacts

\* A parameter that is set or unset changes values only, to the new one.
LEMMA AssignedContent ==
    ASSUME NEW F \in {Fields, Prefs}, NEW d \in Doc, NEW c, c.value \in Values \cup {None},
           NEW n, n = Assigned(c, d)
    PROVE  /\ Content(F, n) = [Content(F, d) EXCEPT !.set = Content(F, n).set]
           /\ \A k \in F : Content(F, n).set[k] \in {Content(F, d).set[k], c.value}
<1>1. /\ n.storage = d.storage /\ n.url = d.url /\ n.env = d.env
      /\ n.set = [f \in Fields \cup PrefFields |->
                    IF f \in Pair(c.key) THEN c.value ELSE d.set[f]]
  BY AssignedFacts
<1>2. \A k \in F : n.set[k] \in {d.set[k], c.value}
  BY <1>1 DEF PrefFields
<1>3. Content(F, n) = Parts(Content(F, n).set, d.env, Range(d.storage), Range(d.url))
  BY <1>1, ContentFacts
<1>4. \A k \in F : Content(F, n).set[k] = n.set[k] /\ Content(F, d).set[k] = d.set[k]
  <2>1. Content(F, n).set = Only(F, n.set) /\ Content(F, d).set = Only(F, d.set)
    BY ContentFacts
  <2>. QED  BY <2>1 DEF Only
<1>5. Content(F, n) = [Content(F, d) EXCEPT !.set = Content(F, n).set]
  BY <1>3, ContentFacts, PartsFacts
<1>. QED  BY <1>2, <1>4, <1>5

\* A variable that is set or unset changes one value of the environment.
LEMMA EnvContent ==
    ASSUME NEW F, NEW d \in Doc, NEW c, c.key \in EnvNames, c.value \in Values \cup {None},
           NEW n, n = EnvAssigned(c, d)
    PROVE  Content(F, n) =
             [Content(F, d) EXCEPT !.env = [Content(F, d).env EXCEPT ![c.key] = c.value]]
<1>1. /\ n.storage = d.storage /\ n.url = d.url /\ n.set = d.set
      /\ n.env = [d.env EXCEPT ![c.key] = c.value]
  BY EnvFacts
<1>2. Content(F, n) = Parts(Only(F, d.set), n.env, Range(d.storage), Range(d.url))
  BY <1>1, ContentFacts
<1>. QED  BY <1>1, <1>2, ContentFacts, PartsFacts

\* A list that is unset is an empty set.
LEMMA ClearedContent ==
    ASSUME NEW F, NEW d \in Doc, NEW k \in Lists
    PROVE  /\ k = "storage" =>
                Content(F, WithoutList(d, k)) = [Content(F, d) EXCEPT !.storage = {}]
           /\ k = "url" =>
                Content(F, WithoutList(d, k)) = [Content(F, d) EXCEPT !.url = {}]
<1>. DEFINE n == WithoutList(d, k)
<1>1. /\ n.storage = IF k = "storage" THEN <<>> ELSE d.storage
      /\ n.url = IF k = "url" THEN <<>> ELSE d.url
      /\ n.set = d.set /\ n.env = d.env
  BY WithoutFacts
<1>. HIDE DEF n
<1>2. Range(<<>>) = {}  BY DEF Range
<1>3. CASE k = "storage"
  <2>1. Content(F, n) = Parts(Only(F, d.set), d.env, {}, Range(d.url))
    BY <1>1, <1>2, <1>3, ContentFacts
  <2>. QED  BY <1>3, <2>1, ContentFacts, PartsFacts DEF n
<1>4. CASE k # "storage"
  <2>1. k = "url"  BY <1>4 DEF Lists
  <2>2. Content(F, n) = Parts(Only(F, d.set), d.env, Range(d.storage), {})
    BY <1>1, <1>2, <2>1, ContentFacts
  <2>. QED  BY <2>1, <2>2, ContentFacts, PartsFacts DEF n
<1>. QED  BY <1>3, <1>4

\* Another list of storages, or of URLs, is another set of them.
LEMMA StorageContent ==
    ASSUME NEW F, NEW d \in Doc, NEW l \in EntryLists
    PROVE  Content(F, WithStorage(d, l)) = [Content(F, d) EXCEPT !.storage = Range(l)]
<1>1. ASSUME NEW n, n.storage = l, n.url = d.url, n.set = d.set, n.env = d.env
      PROVE  Content(F, n) = [Content(F, d) EXCEPT !.storage = Range(l)]
  <2>1. Content(F, n) = Parts(Only(F, d.set), d.env, Range(l), Range(d.url))
    BY <1>1, ContentFacts
  <2>. QED  BY <2>1, ContentFacts, PartsFacts
<1>2. /\ WithStorage(d, l).storage = l /\ WithStorage(d, l).url = d.url
      /\ WithStorage(d, l).set = d.set /\ WithStorage(d, l).env = d.env
  BY WithFacts
<1>. QED  BY <1>1, <1>2

LEMMA UrlContent ==
    ASSUME NEW F, NEW d \in Doc, NEW l \in EntryLists
    PROVE  Content(F, WithUrl(d, l)) = [Content(F, d) EXCEPT !.url = Range(l)]
<1>1. ASSUME NEW n, n.url = l, n.storage = d.storage, n.set = d.set, n.env = d.env
      PROVE  Content(F, n) = [Content(F, d) EXCEPT !.url = Range(l)]
  <2>1. Content(F, n) = Parts(Only(F, d.set), d.env, Range(d.storage), Range(l))
    BY <1>1, ContentFacts
  <2>. QED  BY <2>1, ContentFacts, PartsFacts
<1>2. /\ WithUrl(d, l).url = l /\ WithUrl(d, l).storage = d.storage
      /\ WithUrl(d, l).set = d.set /\ WithUrl(d, l).env = d.env
  BY WithFacts
<1>. QED  BY <1>1, <1>2

\* The list without the one entry of a name.
LEMMA WithoutOne ==
    ASSUME NEW s \in Seq(Entry), NEW n, HasName(s, n),
           \A i, j \in DOMAIN s : i # j => s[i].name # s[j].name
    PROVE  /\ Slice(DeleteLoop(s, n)) \in EntryLists
           /\ \E e \in Range(s) : Range(Slice(DeleteLoop(s, n))) = Range(s) \ {e}
<1>1. /\ Slice(DeleteLoop(s, n)) \in Seq(Entry)
      /\ Range(Slice(DeleteLoop(s, n))) = {e \in Range(s) : e.name # n}
  BY DeleteFacts
<1>2. PICK j \in DOMAIN s : s[j].name = n  BY DEF HasName
<1>3. \A e \in Range(s) : e.name # n <=> e # s[j]
  BY <1>2 DEF Range
<1>4. {e \in Range(s) : e.name # n} = Range(s) \ {s[j]}  BY <1>3
<1>5. s[j] \in Range(s)  BY DEF Range
<1>. QED  BY <1>1, <1>4, <1>5 DEF EntryLists

----------------------------------------------------------------------------
(* The changes, as steps of Settings *)

\* Each command changes the content as its step of Settings does.
LEMMA AppliedContent ==
    ASSUME NoLists, NEW c \in Commands, c.op # "deleteAll", NEW d \in Doc, Unique(d),
           Fits(c, d), ~Breaks(c, d),
           NEW F \in {Fields, Prefs}, NEW s, s = Content(F, d),
           NEW n, n = Content(F, Applied(c, d))
    PROVE  \/ /\ c.op \in {"set", "unset"}
              /\ n = [s EXCEPT !.set = n.set]
              /\ \E v \in Values \cup {None} : \A k \in F : n.set[k] \in {s.set[k], v}
           \/ c.op = "unset" /\ n = [s EXCEPT !.storage = {}]
           \/ c.op = "unset" /\ n = [s EXCEPT !.url = {}]
           \/ /\ c.op \in {"setEnv", "unsetEnv"}
              /\ \E e \in EnvNames, v \in Values \cup {None} :
                   n = [s EXCEPT !.env = [s.env EXCEPT ![e] = v]]
           \/ /\ c.op = "addStorage"
              /\ \E e \in [name : Names, at : Places] :
                   /\ \A x \in s.storage : x.name # e.name /\ x.at # e.at
                   /\ n = [s EXCEPT !.storage = s.storage \cup {e}]
           \/ /\ c.op = "addUrl"
              /\ \E e \in [name : Names, at : Places] :
                   /\ \A x \in s.url : x.name # e.name
                   /\ n = [s EXCEPT !.url = s.url \cup {e}]
           \/ /\ c.op = "delStorage"
              /\ \E e \in s.storage : n = [s EXCEPT !.storage = s.storage \ {e}]
           \/ /\ c.op = "delUrl"
              /\ \E e \in s.url : n = [s EXCEPT !.url = s.url \ {e}]
           \/ /\ c.op = "create" /\ n.storage = {} /\ n.url = {}
<1>1. c.op \in Ops \ {"deleteAll"}  BY CommandFacts
<1>2. s.storage = Range(d.storage) /\ s.url = Range(d.url) /\ s.env = d.env
  BY ContentFacts
<1>3. ASSUME c.op = "create" PROVE n.storage = {} /\ n.url = {}
  <2>1. c.value \in Values  BY <1>3, CommandFacts
  <2>2. Applied(c, d) = Created(c)  BY <1>3, AppliedCases
  <2>3. Created(c).storage = <<>> /\ Created(c).url = <<>>  BY <2>1, CreatedFacts
  <2>4. Range(<<>>) = {}  BY DEF Range
  <2>. QED  BY <2>2, <2>3, <2>4, ContentFacts
<1>4. ASSUME c.op \in {"set", "unset"}, c.key \in Lists
       PROVE  c.op = "unset" /\ n \in {[s EXCEPT !.storage = {}], [s EXCEPT !.url = {}]}
  <2>1. c.op = "unset" /\ Applied(c, d) = WithoutList(d, c.key)  BY <1>4, AppliedCases
  <2>2. c.key \in {"storage", "url"}  BY <1>4 DEF Lists
  <2>3. CASE c.key = "storage"
    <3>1. Content(F, WithoutList(d, c.key)) = [Content(F, d) EXCEPT !.storage = {}]
      BY <1>4, <2>3, ClearedContent
    <3>. QED  BY <2>1, <3>1
  <2>4. CASE c.key = "url"
    <3>1. Content(F, WithoutList(d, c.key)) = [Content(F, d) EXCEPT !.url = {}]
      BY <1>4, <2>4, ClearedContent
    <3>. QED  BY <2>1, <3>1
  <2>. QED  BY <2>2, <2>3, <2>4
<1>5. ASSUME c.op \in {"set", "unset"}, c.key \notin Lists
      PROVE  /\ n = [s EXCEPT !.set = n.set]
             /\ \E v \in Values \cup {None} : \A k \in F : n.set[k] \in {s.set[k], v}
  <2>1. Applied(c, d) = Assigned(c, d) /\ c.value \in Values \cup {None}
    BY <1>5, AppliedCases
  <2>2. /\ n = [s EXCEPT !.set = n.set]
        /\ \A k \in F : n.set[k] \in {s.set[k], c.value}
    BY <2>1, AssignedContent
  <2>. QED  BY <2>1, <2>2
<1>6. ASSUME c.op \in {"setEnv", "unsetEnv"}
      PROVE  \E e \in EnvNames, v \in Values \cup {None} :
               n = [s EXCEPT !.env = [s.env EXCEPT ![e] = v]]
  <2>1. /\ Applied(c, d) = EnvAssigned(c, d)
        /\ c.key \in EnvNames /\ c.value \in Values \cup {None}
    BY <1>6, AppliedCases, CommandFacts
  <2>2. n = [s EXCEPT !.env = [s.env EXCEPT ![c.key] = c.value]]
    BY <2>1, EnvContent
  <2>. QED  BY <2>1, <2>2
<1>. DEFINE e == EntryOf(c)
<1>7. ASSUME c.op \in {"addStorage", "addUrl"}
      PROVE  /\ e \in Entry /\ e \in [name : Names, at : Places]
             /\ e.name = c.key /\ e.at = c.value
             /\ Append(d.storage, e) \in EntryLists
             /\ Append(d.url, e) \in EntryLists
             /\ Range(Append(d.storage, e)) = s.storage \cup {e}
             /\ Range(Append(d.url, e)) = s.url \cup {e}
  <2>1. c.key \in Names /\ c.value \in Places  BY <1>7, CommandFacts
  <2>2. e \in Entry /\ e \in [name : Names, at : Places] /\ e.name = c.key /\ e.at = c.value
    BY <2>1 DEF Entry, EntryOf
  <2>. HIDE DEF e
  <2>. QED  BY <1>2, <2>2, DocFacts, AddedFacts DEF EntryLists
<1>8. ASSUME c.op = "addStorage"
      PROVE  \E x \in [name : Names, at : Places] :
               /\ \A y \in s.storage : y.name # x.name /\ y.at # x.at
               /\ n = [s EXCEPT !.storage = s.storage \cup {x}]
  <2>1. \A i \in DOMAIN d.storage : d.storage[i].name # e.name /\ d.storage[i].at # e.at
    BY <1>7, <1>8 DEF Fits, RefusesStorage
  <2>2. Applied(c, d) = WithStorage(d, Append(d.storage, e))
    BY <1>8, AppliedCases
  <2>3. /\ e \in [name : Names, at : Places]
        /\ Append(d.storage, e) \in EntryLists
        /\ Range(Append(d.storage, e)) = s.storage \cup {e}
    BY <1>7, <1>8
  <2>. HIDE DEF e
  <2>4. Content(F, WithStorage(d, Append(d.storage, e))) =
          [Content(F, d) EXCEPT !.storage = Range(Append(d.storage, e))]
    <3>1. \A l \in EntryLists : Content(F, WithStorage(d, l)) =
                                 [Content(F, d) EXCEPT !.storage = Range(l)]
      BY StorageContent
    <3>2. Append(d.storage, e) \in EntryLists  BY <2>3
    <3>. QED  BY <3>1, <3>2
  <2>5. \A y \in s.storage : y.name # e.name /\ y.at # e.at
    BY <1>2, <2>1 DEF Range
  <2>6. n = [s EXCEPT !.storage = s.storage \cup {e}]  BY <2>2, <2>3, <2>4
  <2>. QED  BY <2>3, <2>5, <2>6
<1>9. ASSUME c.op = "addUrl"
      PROVE  \E x \in [name : Names, at : Places] :
               /\ \A y \in s.url : y.name # x.name
               /\ n = [s EXCEPT !.url = s.url \cup {x}]
  <2>1. \A i \in DOMAIN d.url : d.url[i].name # e.name
    BY <1>7, <1>9 DEF Fits, RefusesUrl, HasName
  <2>2. Applied(c, d) = WithUrl(d, Append(d.url, e))
    BY <1>9, AppliedCases
  <2>3. /\ e \in [name : Names, at : Places]
        /\ Append(d.url, e) \in EntryLists
        /\ Range(Append(d.url, e)) = s.url \cup {e}
    BY <1>7, <1>9
  <2>. HIDE DEF e
  <2>4. Content(F, WithUrl(d, Append(d.url, e))) =
          [Content(F, d) EXCEPT !.url = Range(Append(d.url, e))]
    <3>1. \A l \in EntryLists : Content(F, WithUrl(d, l)) =
                                 [Content(F, d) EXCEPT !.url = Range(l)]
      BY UrlContent
    <3>2. Append(d.url, e) \in EntryLists  BY <2>3
    <3>. QED  BY <3>1, <3>2
  <2>5. \A y \in s.url : y.name # e.name
    BY <1>2, <2>1 DEF Range
  <2>6. n = [s EXCEPT !.url = s.url \cup {e}]  BY <2>2, <2>3, <2>4
  <2>. QED  BY <2>3, <2>5, <2>6
<1>10. ASSUME c.op = "delStorage"
      PROVE  \E x \in s.storage : n = [s EXCEPT !.storage = s.storage \ {x}]
  <2>1. HasName(d.storage, c.key)  BY <1>10 DEF Fits, RefusesDelStorage
  <2>2. Applied(c, d) = WithStorage(d, Slice(DeleteLoop(d.storage, c.key)))
    BY <1>10, AppliedCases
  <2>3. /\ Slice(DeleteLoop(d.storage, c.key)) \in EntryLists
        /\ \E x \in Range(d.storage) :
             Range(Slice(DeleteLoop(d.storage, c.key))) = Range(d.storage) \ {x}
    BY <2>1, WithoutOne, DocFacts DEF Unique, EntryLists
  <2>4. Content(F, WithStorage(d, Slice(DeleteLoop(d.storage, c.key)))) =
          [Content(F, d) EXCEPT !.storage = Range(Slice(DeleteLoop(d.storage, c.key)))]
    BY <2>3, StorageContent
  <2>5. PICK x \in Range(d.storage) :
          Range(Slice(DeleteLoop(d.storage, c.key))) = Range(d.storage) \ {x}
    BY <2>3
  <2>6. n = [s EXCEPT !.storage = s.storage \ {x}]  BY <1>2, <2>2, <2>4, <2>5
  <2>. QED  BY <1>2, <2>5, <2>6
<1>11. ASSUME c.op = "delUrl"
      PROVE  \E x \in s.url : n = [s EXCEPT !.url = s.url \ {x}]
  <2>1. HasName(d.url, c.key)  BY <1>11 DEF Fits, RefusesDelUrl
  <2>2. Applied(c, d) = WithUrl(d, Slice(DeleteLoop(d.url, c.key)))
    BY <1>11, AppliedCases
  <2>3. /\ Slice(DeleteLoop(d.url, c.key)) \in EntryLists
        /\ \E x \in Range(d.url) :
             Range(Slice(DeleteLoop(d.url, c.key))) = Range(d.url) \ {x}
    BY <2>1, WithoutOne, DocFacts DEF Unique, EntryLists
  <2>4. Content(F, WithUrl(d, Slice(DeleteLoop(d.url, c.key)))) =
          [Content(F, d) EXCEPT !.url = Range(Slice(DeleteLoop(d.url, c.key)))]
    BY <2>3, UrlContent
  <2>5. PICK x \in Range(d.url) :
          Range(Slice(DeleteLoop(d.url, c.key))) = Range(d.url) \ {x}
    BY <2>3
  <2>6. n = [s EXCEPT !.url = s.url \ {x}]  BY <1>2, <2>2, <2>4, <2>5
  <2>. QED  BY <1>2, <2>5, <2>6
<1>. QED  BY <1>1, <1>3, <1>4, <1>5, <1>6, <1>8, <1>9, <1>10, <1>11 DEF Ops

----------------------------------------------------------------------------
(* The steps of the two files *)

\* A step that is neither the truncation nor the writing of file f.
LEMMA Stutters ==
    ASSUME NEW t, Terminals = {t}, NEW f, NEW F, file'[f] = file[f],
           ~Saves(t, f), ~Saves(t, f)'
    PROVE  Abstract(f, F)' = Abstract(f, F)
BY OneView, OneViewNext

\* The change that a command makes of the file it has read.
Changes(t, f, F) ==
  /\ pc[t] = "write" /\ FileOf(cmd[t]) = f /\ ~Breaks(cmd[t], mem[t])
  /\ Abstract(f, F) = View(F, file[f])
  /\ Abstract(f, F)' = Holds(Content(F, Applied(cmd[t], mem[t])))

\* A step leaves a file's content, changes it, removes or loses the file.
LEMMA StepView ==
    ASSUME NEW t, Terminals = {t}, EntriesOK, OneInv, Next,
           NEW f \in FileIds, NEW F \in {Fields, Prefs}
    PROVE  \/ Abstract(f, F)' = Abstract(f, F)
           \/ Changes(t, f, F)
           \/ f = "local" /\ Abstract(f, F) # Absent /\ Abstract(f, F)' = Absent
           \/ Abstract(f, F)' = Holds(EmptyContent(F))
<1>. USE DEF EntriesOK, TypeOK
<1>1. ASSUME UNCHANGED file, pc[t] # "save", pc'[t] # "save"
      PROVE  Abstract(f, F)' = Abstract(f, F)
  BY <1>1, Stutters DEF Saves
<1>2. ASSUME NEW r, Ends(t, r)  PROVE pc'[t] = "idle"
  BY <1>2 DEF Ends, Goto
<1>3. ASSUME NEW c \in Commands, Start(t, c)
      PROVE  Abstract(f, F)' = Abstract(f, F)
  <2>1. UNCHANGED file /\ pc[t] # "save" /\ pc'[t] # "save"  BY <1>3 DEF Start, Goto
  <2>. QED  BY <1>1, <2>1
<1>4. CASE Context(t)
  <2>1. UNCHANGED file /\ pc[t] # "save" /\ pc'[t] # "save"
    BY <1>2, <1>4 DEF Context, Goto
  <2>. QED  BY <1>1, <2>1
<1>5. CASE Read(t)
  <2>1. UNCHANGED file /\ pc[t] # "save" /\ pc'[t] # "save"
    BY <1>2, <1>5 DEF Read, Goto
  <2>. QED  BY <1>1, <2>1
<1>6. CASE Ask(t)
  <2>1. UNCHANGED file /\ pc[t] # "save" /\ pc'[t] # "save"
    BY <1>2, <1>6 DEF Ask, Goto
  <2>. QED  BY <1>1, <2>1
<1>7. CASE Write(t)
  <2>1. CASE Breaks(cmd[t], mem[t])
    <3>1. UNCHANGED file /\ pc[t] # "save" /\ pc'[t] # "save"
      BY <1>2, <1>7, <2>1 DEF Write
    <3>. QED  BY <1>1, <3>1
  <2>2. CASE ~Breaks(cmd[t], mem[t])
    <3>1. /\ pc[t] = "write" /\ pc'[t] = "save" /\ UNCHANGED cmd
          /\ mem'[t] = Applied(cmd[t], mem[t])
          /\ file' = [file EXCEPT ![FileOf(cmd[t])] = Empty]
      BY <1>7, <2>2 DEF Write, Goto
    <3>3. CASE f = FileOf(cmd[t])
      <4>1. ~Saves(t, f) /\ Saves(t, f)'  BY <3>1, <3>3 DEF Saves
      <4>2. file'[f] # Absent  BY <3>1, <3>3 DEF Empty, Absent
      <4>3. Abstract(f, F)' = Holds(Content(F, mem'[t]))  BY <4>1, <4>2, OneViewNext
      <4>. QED  BY <2>2, <3>1, <3>3, <4>1, <4>3, OneView DEF Changes
    <3>4. CASE f # FileOf(cmd[t])
      <4>1. ~Saves(t, f) /\ ~Saves(t, f)' /\ file'[f] = file[f]
        BY <3>1, <3>4 DEF Saves
      <4>. QED  BY <4>1, Stutters
    <3>. QED  BY <3>3, <3>4
  <2>. QED  BY <2>1, <2>2
<1>8. CASE Save(t)
  <2>1. /\ pc[t] = "save" /\ pc'[t] = "idle" /\ UNCHANGED cmd
        /\ file[FileOf(cmd[t])] = Empty
    BY <1>2, <1>8 DEF Save, OneInv
  <2>2. file' = [file EXCEPT ![FileOf(cmd[t])] = Is(mem[t])]
    BY <1>8, <2>1, OverEmpty DEF Save
  <2>3. ~Saves(t, f)'  BY <2>1 DEF Saves
  <2>4. CASE f = FileOf(cmd[t])
    <3>1. Abstract(f, F) = Holds(Content(F, mem[t]))
      BY <2>1, <2>4, OneView DEF Saves, Empty, Absent
    <3>2. file'[f] = Is(mem[t])  BY <2>2, <2>4
    <3>3. View(F, Is(mem[t])) = Holds(Content(F, mem[t]))
      <4>1. Is(mem[t]).kind = "doc" /\ Is(mem[t]).doc = mem[t] /\ Absent.kind = "absent"
        BY DEF Is, Absent
      <4>. QED  BY <4>1 DEF View
    <3>4. Abstract(f, F)' = View(F, file'[f])  BY <2>3, OneViewNext
    <3>. QED  BY <3>1, <3>2, <3>3, <3>4
  <2>5. CASE f # FileOf(cmd[t])
    <3>1. ~Saves(t, f) /\ file'[f] = file[f]  BY <2>2, <2>5 DEF Saves
    <3>. QED  BY <2>3, <3>1, Stutters
  <2>. QED  BY <2>4, <2>5
<1>9. CASE Remove(t)
  <2>1. /\ pc[t] = "remove" /\ pc'[t] = "idle"
        /\ file' = [file EXCEPT !["local"] = Absent]
    BY <1>9 DEF Remove
  <2>2. ~Saves(t, f) /\ ~Saves(t, f)'  BY <2>1 DEF Saves
  <2>3. CASE f = "local"
    <3>1. Abstract(f, F)' = View(F, file'[f]) /\ file'[f] = Absent
      BY <2>1, <2>2, <2>3, OneViewNext
    <3>. QED  BY <2>3, <3>1 DEF View
  <2>4. CASE f # "local"
    BY <2>1, <2>2, <2>4, Stutters
  <2>. QED  BY <2>3, <2>4
<1>10. CASE Die(t)
  <2>1. UNCHANGED <<file, cmd>> /\ pc'[t] = "idle"  BY <1>2, <1>10 DEF Die
  <2>2. ~Saves(t, f)'  BY <2>1 DEF Saves
  <2>3. CASE Saves(t, f)
    <3>1. file'[f] = Empty  BY <2>1, <2>3 DEF Saves, OneInv
    <3>2. Empty.kind = "empty" /\ Absent.kind = "absent"  BY DEF Empty, Absent
    <3>3. View(F, Empty) = Holds(Content(F, Blank))  BY <3>2 DEF View
    <3>. QED  BY <2>2, <3>1, <3>3, OneViewNext, BlankContent
  <2>4. CASE ~Saves(t, f)
    BY <2>1, <2>2, <2>4, Stutters
  <2>. QED  BY <2>3, <2>4
<1>. QED  BY <1>3, <1>4, <1>5, <1>6, <1>7, <1>8, <1>9, <1>10 DEF Next, Steps

\* Nothing happens to a file when nothing happens.
LEMMA Stays ==
    ASSUME NEW t, Terminals = {t}, UNCHANGED vars, NEW f, NEW F
    PROVE  Abstract(f, F)' = Abstract(f, F)
<1>1. UNCHANGED <<file, pc, cmd, mem>>  BY DEF vars
<1>2. Saves(t, f)' <=> Saves(t, f)  BY <1>1 DEF Saves
<1>. QED  BY <1>1, <1>2, OneView, OneViewNext

\* What is known of a change when it is made.
LEMMA ChangeFacts ==
    ASSUME NoLists, NEW t, Terminals = {t}, EntriesOK, OneInv,
           NEW f \in FileIds, NEW F \in {Fields, Prefs}, Changes(t, f, F)
    PROVE  /\ cmd[t] \in Commands /\ cmd[t].op # "deleteAll"
           /\ mem[t] \in Doc /\ Unique(mem[t]) /\ Fits(cmd[t], mem[t])
           /\ (IF Abstract(f, F) = Absent THEN EmptyContent(F) ELSE Abstract(f, F).doc)
                = Content(F, mem[t])
           /\ cmd[t].op = "create" => Abstract(f, F) = Absent
<1>1. /\ cmd[t] \in Commands /\ cmd[t].op # "deleteAll"
      /\ mem[t] \in Doc /\ Unique(mem[t]) /\ Fits(cmd[t], mem[t])
  BY DEF Changes, EntriesOK, EntriesInv, TypeOK, OneInv
<1>2. mem[t] \in Reads(file[f])
  BY <1>1, ReadsText DEF Changes, OneInv
<1>3. file[f].kind \in {"absent", "empty", "doc"}
  BY DEF EntriesOK, TypeOK, OneInv, Absent, Empty
<1>4. Abstract(f, F) = View(F, file[f])  BY DEF Changes
<1>5. cmd[t].op = "create" => file[f] = Absent
  BY FileOfFacts DEF Changes, OneInv
<1>6. cmd[t].op = "create" => Abstract(f, F) = Absent  BY <1>4, <1>5 DEF View
<1>7. (IF View(F, file[f]) = Absent THEN EmptyContent(F) ELSE View(F, file[f]).doc)
        = Content(F, mem[t])
  BY <1>2, <1>3, StartContent
<1>. QED  BY <1>1, <1>4, <1>6, <1>7

\* Every step is one of Settings, or none, for the component's file.
LEMMA LocalSteps ==
    ASSUME NoLists, NEW t, Terminals = {t}, EntriesOK, OneInv, Next
    PROVE  [Local!Next]_(Abstract("local", Fields))
<1>. DEFINE s == Content(Fields, mem[t])
            n == Content(Fields, Applied(cmd[t], mem[t]))
<1>1. CASE Changes(t, "local", Fields)
  <2>1. /\ cmd[t] \in Commands /\ cmd[t].op # "deleteAll"
        /\ mem[t] \in Doc /\ Unique(mem[t]) /\ Fits(cmd[t], mem[t])
        /\ (IF Abstract("local", Fields) = Absent THEN EmptyContent(Fields)
                                                  ELSE Abstract("local", Fields).doc) = s
        /\ cmd[t].op = "create" => Abstract("local", Fields) = Absent
    BY <1>1, ChangeFacts, FileOfFacts
  <2>2. ~Breaks(cmd[t], mem[t])  BY <1>1 DEF Changes
  <2>3. Local!Start = s
    BY <2>1 DEF Local!Start, Local!NoFile, Local!Blank, Absent, EmptyContent
  <2>4. Abstract("local", Fields)' = Holds(n)  BY <1>1 DEF Changes
  <2>5. Local!File(n) = Holds(n) /\ Local!NoFile = Absent
    BY DEF Local!File, Local!NoFile, Holds, Absent
  <2>6. /\ Abstract("local", Fields)' = Local!File(n)
        /\ Abstract("local", Fields)' # Local!NoFile
        /\ Abstract("local", Fields)'.doc = n
        /\ Abstract("local", Fields)'.kind = "file"
    BY <2>4, <2>5, HoldsFacts DEF Holds
  <2>7. \/ /\ cmd[t].op \in {"set", "unset"}
           /\ n = [s EXCEPT !.set = n.set]
           /\ \E v \in Values \cup {None} : \A k \in Fields : n.set[k] \in {s.set[k], v}
        \/ cmd[t].op = "unset" /\ n = [s EXCEPT !.storage = {}]
        \/ cmd[t].op = "unset" /\ n = [s EXCEPT !.url = {}]
        \/ /\ cmd[t].op \in {"setEnv", "unsetEnv"}
           /\ \E e \in EnvNames, v \in Values \cup {None} :
                n = [s EXCEPT !.env = [s.env EXCEPT ![e] = v]]
        \/ /\ cmd[t].op = "addStorage"
           /\ \E e \in [name : Names, at : Places] :
                /\ \A x \in s.storage : x.name # e.name /\ x.at # e.at
                /\ n = [s EXCEPT !.storage = s.storage \cup {e}]
        \/ /\ cmd[t].op = "addUrl"
           /\ \E e \in [name : Names, at : Places] :
                /\ \A x \in s.url : x.name # e.name
                /\ n = [s EXCEPT !.url = s.url \cup {e}]
        \/ /\ cmd[t].op = "delStorage"
           /\ \E e \in s.storage : n = [s EXCEPT !.storage = s.storage \ {e}]
        \/ /\ cmd[t].op = "delUrl"
           /\ \E e \in s.url : n = [s EXCEPT !.url = s.url \ {e}]
        \/ /\ cmd[t].op = "create" /\ n.storage = {} /\ n.url = {}
    BY <2>1, <2>2, AppliedContent
  <2>. HIDE DEF s, n
  <2>8. ASSUME n = [s EXCEPT !.set = n.set],
               \E v \in Values \cup {None} : \A k \in Fields : n.set[k] \in {s.set[k], v}
        PROVE  Local!Assign
    BY <2>3, <2>6, <2>8 DEF Local!Assign
  <2>9. ASSUME \E e \in EnvNames, v \in Values \cup {None} :
                n = [s EXCEPT !.env = [s.env EXCEPT ![e] = v]]
        PROVE  Local!AssignEnv
    BY <2>3, <2>6, <2>9 DEF Local!AssignEnv
  <2>10. ASSUME \E e \in [name : Names, at : Places] :
                /\ \A x \in s.storage : x.name # e.name /\ x.at # e.at
                /\ n = [s EXCEPT !.storage = s.storage \cup {e}]
         PROVE  Local!AddStorage
    BY <2>3, <2>6, <2>10 DEF Local!AddStorage, Local!Entry
  <2>11. ASSUME \E e \in [name : Names, at : Places] :
                /\ \A x \in s.url : x.name # e.name
                /\ n = [s EXCEPT !.url = s.url \cup {e}]
         PROVE  Local!AddUrl
    BY <2>3, <2>6, <2>11 DEF Local!AddUrl, Local!Entry
  <2>12. ASSUME \E e \in s.storage : n = [s EXCEPT !.storage = s.storage \ {e}]
         PROVE  Local!RemoveStorage
    BY <2>3, <2>6, <2>12 DEF Local!RemoveStorage
  <2>13. ASSUME \E e \in s.url : n = [s EXCEPT !.url = s.url \ {e}]
         PROVE  Local!RemoveUrl
    BY <2>3, <2>6, <2>13 DEF Local!RemoveUrl
  <2>14. ASSUME cmd[t].op = "create", n.storage = {}, n.url = {}
         PROVE  Local!Create
    BY <2>1, <2>5, <2>6, <2>14 DEF Local!Create
  <2>15. n = [s EXCEPT !.storage = {}] => Local!ClearStorage
    BY <2>3, <2>6 DEF Local!ClearStorage
  <2>16. n = [s EXCEPT !.url = {}] => Local!ClearUrl
    BY <2>3, <2>6 DEF Local!ClearUrl
  <2>. QED  BY <2>7, <2>8, <2>9, <2>10, <2>11, <2>12, <2>13, <2>14, <2>15, <2>16
            DEF Local!Next
<1>2. CASE Abstract("local", Fields) # Absent /\ Abstract("local", Fields)' = Absent
  BY <1>2 DEF Local!Next, Local!Remove, Local!NoFile, Absent
<1>3. CASE Abstract("local", Fields)' = Holds(EmptyContent(Fields))
  BY <1>3 DEF Local!Next, Local!Lose, Local!File, Local!Blank, Holds, EmptyContent
<1>4. Fields \in {Fields, Prefs} /\ "local" \in FileIds  BY FileOfFacts
<1>. QED  BY <1>1, <1>2, <1>3, <1>4, StepView

\* Only `preference set` and `preference unset` change the preferences.
LEMMA PreferenceSteps ==
    ASSUME NoLists, NEW t, Terminals = {t}, EntriesOK, OneInv, Next
    PROVE  [Preference!Next]_(Abstract("preference", Prefs))
<1>. DEFINE s == Content(Prefs, mem[t])
            n == Content(Prefs, Applied(cmd[t], mem[t]))
<1>1. CASE Changes(t, "preference", Prefs)
  <2>1. /\ cmd[t] \in Commands
        /\ mem[t] \in Doc
        /\ (IF Abstract("preference", Prefs) = Absent THEN EmptyContent(Prefs)
                                                  ELSE Abstract("preference", Prefs).doc) = s
    BY <1>1, ChangeFacts, FileOfFacts
  <2>2. ~Breaks(cmd[t], mem[t]) /\ cmd[t].op \in {"set", "unset"}
    BY <1>1 DEF Changes, FileOf
  <2>3. Preference!Start = s
    BY <2>1 DEF Preference!Start, Preference!NoFile, Preference!Blank, Absent, EmptyContent
  <2>4. Abstract("preference", Prefs)' = Holds(n)  BY <1>1 DEF Changes
  <2>5. Preference!File(n) = Holds(n) /\ Preference!NoFile = Absent
    BY DEF Preference!File, Preference!NoFile, Holds, Absent
  <2>6. /\ Abstract("preference", Prefs)' = Preference!File(n)
        /\ Abstract("preference", Prefs)' # Preference!NoFile
        /\ Abstract("preference", Prefs)'.doc = n
    BY <2>4, <2>5, HoldsFacts
  <2>7. /\ n = [s EXCEPT !.set = n.set]
        /\ \E v \in Values \cup {None} : \A k \in Prefs : n.set[k] \in {s.set[k], v}
    <3>1. Applied(cmd[t], mem[t]) = Assigned(cmd[t], mem[t]) /\ cmd[t].value \in Values \cup {None}
      <4>1. cmd[t].key \notin Lists
        BY <1>1, PrefsAssumption DEF Changes, FileOf, Lists
      <4>. QED  BY <2>1, <2>2, <4>1, AppliedCases
    <3>2. /\ n = [s EXCEPT !.set = n.set]
          /\ \A k \in Prefs : n.set[k] \in {s.set[k], cmd[t].value}
      BY <2>1, <3>1, AssignedContent
    <3>. QED  BY <3>1, <3>2
  <2>. HIDE DEF s, n
  <2>8. Preference!Assign
    BY <2>3, <2>6, <2>7 DEF Preference!Assign
  <2>. QED  BY <2>8 DEF Preference!Next
<1>2. CASE Abstract("preference", Prefs)' = Holds(EmptyContent(Prefs))
  BY <1>2 DEF Preference!Next, Preference!Lose, Preference!File, Preference!Blank,
              Holds, EmptyContent
<1>3. Prefs \in {Fields, Prefs} /\ "preference" \in FileIds  BY FileOfFacts
<1>. QED  BY <1>1, <1>2, <1>3, StepView

\* Both files are absent at the beginning, as in Settings.
LEMMA FilesInit ==
    ASSUME Init
    PROVE  Local!Init /\ Preference!Init
<1>1. \A f \in FileIds : file[f] = Absent  BY DEF Init
<1>2. Abstract("local", Fields) = Absent /\ Abstract("preference", Prefs) = Absent
  BY <1>1, FileOfFacts DEF Abstract, Absent
<1>. QED  BY <1>2 DEF Local!Init, Local!NoFile, Preference!Init, Preference!NoFile, Absent

\* With one terminal, and without `config set storage`, the commands on each of
\* the two files are the atomic steps of Settings: the truncation is the change,
\* the writing a stutter, a death in between the loss of the document
\* (WriteToFile, SetConfiguration, DeleteConfiguration, StorageCreate, DeleteUrl).
THEOREM CommandsAtomic ==
    ASSUME NoLists, OneTerminal PROVE Spec => CommandsAreAtomic
<1>. PICK t : Terminals = {t}  BY DEF OneTerminal
<1>1. Init => EntriesOK /\ OneInv  BY InitFits, OneInit
<1>2. EntriesOK /\ OneInv /\ [Next]_vars => (EntriesOK /\ OneInv)'
  <2>1. ASSUME EntriesOK, OneInv, Next PROVE EntriesOK' /\ OneInv'
    BY <2>1, EntriesStep, OneStep
  <2>2. ASSUME EntriesOK, OneInv, UNCHANGED vars PROVE EntriesOK' /\ OneInv'
    <3>1. EntriesOK'  BY <2>2, EntriesStay
    <3>2. OneInv'  BY <2>2 DEF vars, OneInv, FileOf, Text
    <3>. QED  BY <3>1, <3>2
  <2>. QED  BY <2>1, <2>2
<1>3. EntriesOK /\ OneInv /\ [Next]_vars =>
        /\ [Local!Next]_(Abstract("local", Fields))
        /\ [Preference!Next]_(Abstract("preference", Prefs))
  <2>1. ASSUME EntriesOK, OneInv, Next
        PROVE  /\ [Local!Next]_(Abstract("local", Fields))
               /\ [Preference!Next]_(Abstract("preference", Prefs))
    BY <2>1, LocalSteps, PreferenceSteps
  <2>2. ASSUME UNCHANGED vars
        PROVE  /\ Abstract("local", Fields)' = Abstract("local", Fields)
               /\ Abstract("preference", Prefs)' = Abstract("preference", Prefs)
    BY <2>2, Stays
  <2>. QED  BY <2>1, <2>2
<1>4. Init => Local!Init /\ Preference!Init  BY FilesInit
<1>. QED  BY <1>1, <1>2, <1>3, <1>4, PTL
       DEF Spec, CommandsAreAtomic, Local!Spec, Preference!Spec

=============================================================================
