------------------------------ MODULE MCWatch ------------------------------
(* Instances of Watch for TLC. *)
EXTENDS Watch, TLC

CONSTANTS src1, src2, tmp, old, new

\* Two watched files; or a watched one and one the ignore patterns match.
MCTwoFiles == {src1, src2}
MCNoIgnored == {}
MCFilesSmall == {src1, tmp}
MCIgnored == {tmp}

MCContents == {old, new}

\* Contents are interchangeable, and so are the watched files.
Symmetry == Permutations(MCContents) \union Permutations({src1, src2})

=============================================================================
