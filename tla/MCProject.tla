---------------------------- MODULE MCProject ----------------------------
(* Instances of Project for TLC. *)
EXTENDS Project, TLC

Symmetry == Permutations(Terminals) \cup Permutations(Projects)

=============================================================================
