----------------------------- MODULE RangeLoop -----------------------------
(***************************************************************************)
(* Go's `for i, x := range list` whose body removes x from list when x is  *)
(* among `drop`: DeleteUrl and DeleteFromConfigurationList of pkg/config   *)
(* and addOrRemoveVolumeAndVolumeMount of pkg/occlient.                    *)
(*                                                                         *)
(* The range keeps the first length and the array.  A removal,             *)
(* append(list[:i], list[i+1:]...), shifts the array and shortens the      *)
(* slice: the element after a removed one is skipped, the last ones are    *)
(* visited again, and an index past the shortened slice panics.            *)
(***************************************************************************)
EXTENDS Naturals, Sequences

\* The array after the removal of index i from a slice of length n.
Shift(a, i, n) ==
  [k \in DOMAIN a |-> IF i <= k /\ k < n THEN a[k + 1] ELSE a[k]]

\* The loop is entered, and its i-th turn.
Entered(s) == [array |-> s, len |-> Len(s), panic |-> FALSE]

Turn(b, i, drop) ==
  IF b.panic \/ b.array[i] \notin drop THEN b
  ELSE IF i > b.len THEN [b EXCEPT !.panic = TRUE]
  ELSE [b EXCEPT !.array = Shift(b.array, i, b.len), !.len = b.len - 1]

\* The state after each turn, and what the loop leaves.
Turns(s, drop) ==
  LET after[i \in 0..Len(s)] ==
        IF i = 0 THEN Entered(s) ELSE Turn(after[i - 1], i, drop)
  IN  after

RangeLoop(s, drop) == Turns(s, drop)[Len(s)]

\* The slice at the end of a loop b.
Slice(b) == SubSeq(b.array, 1, b.len)

=============================================================================
