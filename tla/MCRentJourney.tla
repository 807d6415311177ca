----------------------------- MODULE MCRentJourney -----------------------------
(* Model values for RentJourney; the runs are small enough without symmetry.   *)
EXTENDS RentJourneyProps, TLC
=============================================================================
