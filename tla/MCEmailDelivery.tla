--------------------------- MODULE MCEmailDelivery ---------------------------
(***************************************************************************)
(* The properties of EmailDelivery and the instances TLC checks.            *)
(***************************************************************************)
EXTENDS EmailDeliveryProps, TLC

Symmetry == Permutations(Log)
=============================================================================
