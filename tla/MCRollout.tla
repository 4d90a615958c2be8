---------------------------- MODULE MCRollout ----------------------------
(* Instances of Rollout for TLC. *)
EXTENDS Rollout, TLC

Symmetry == Permutations(Clients)

=============================================================================
