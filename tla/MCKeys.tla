-------------------------------- MODULE MCKeys --------------------------------
(* Instances of AgentKeys for TLC. *)
EXTENDS AgentKeys, TLC

Symmetry == Permutations(Requests) \union Permutations(Nonces)
=============================================================================
