------------------------------- MODULE MCAnchor -------------------------------
(* Instances of HandleAnchor for TLC. *)
EXTENDS HandleAnchor
=============================================================================
