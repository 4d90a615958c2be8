---------------------------- MODULE MCPodWait ----------------------------
(* Instances of PodWait for TLC. *)
EXTENDS PodWait

=============================================================================
