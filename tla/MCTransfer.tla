------------------------------ MODULE MCTransfer ------------------------------
(* Instances of AgentTransfer for TLC. *)
EXTENDS AgentTransfer, TLC

\* Beside the transfers the keys are rotated.
SellerKinds == {"rotate", "initiate"}

Symmetry == Permutations(Dealers) \union Permutations(Users \ {Creator})
=============================================================================
