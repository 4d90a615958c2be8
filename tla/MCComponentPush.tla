-------------------------- MODULE MCComponentPush --------------------------
(* Instances of ComponentPush for TLC.                                     *)
EXTENDS ComponentPush, TLC

CONSTANTS s1, s2, s3, u1, u2, small, big, alias, p1, p2, e1, dev, k1

\* `alias` is another way to write `small`, as "1024Mi" is for "1Gi".
MCCanonical == [z \in Sizes \cup {None} |-> IF z = alias THEN small ELSE z]

\* Which storage is which makes no difference.
Symmetry == Permutations(Storages)

=============================================================================
