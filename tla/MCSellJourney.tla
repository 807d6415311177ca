---------------------------- MODULE MCSellJourney ----------------------------
(***************************************************************************)
(* The instances of SellJourney that TLC checks.                            *)
(***************************************************************************)
EXTENDS SellJourneyProps, TLC

Symmetry == Permutations(Staff) \cup Permutations(Customer)
=============================================================================
