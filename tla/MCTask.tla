-------------------------------- MODULE MCTask --------------------------------
(* Instances of TaskLifecycle for TLC. *)
EXTENDS TaskLifecycle, TLC

Symmetry == Permutations(Requests)
=============================================================================
