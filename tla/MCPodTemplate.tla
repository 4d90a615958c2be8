-------------------------- MODULE MCPodTemplate --------------------------
(* Instances of PodTemplate for TLC. *)
EXTENDS PodTemplate, TLC

Symmetry == Permutations(Storages) \cup Permutations(Locations)

=============================================================================
