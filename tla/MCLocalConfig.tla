---------------------------- MODULE MCLocalConfig ----------------------------
(* Instances of LocalConfig for TLC. *)
EXTENDS LocalConfig, TLC

OneParams  == {"name", "memory", "maxmemory", "ignore"}
OneTyped   == {"ignore", "timeout"}
TwoParams  == {"ignore"}
ListParams == {"storage"}
ProjectParams == {"project"}
OnePrefs   == {"timeout"}

Symmetry == Permutations(Terminals)

=============================================================================
