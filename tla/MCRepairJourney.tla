--------------------------- MODULE MCRepairJourney ---------------------------
(***************************************************************************)
(* The instances of RepairJourney that TLC checks.                          *)
(***************************************************************************)
EXTENDS RepairJourneyProps, TLC

CONSTANTS c1, c2

\* one click gives any answer, the other races it for the way the device goes back
MCAnswers == (c1 :> Answer) @@ (c2 :> {"store", "courier"})

\* a customer who books, and accepts the quote, as often as asked
MCAgrees == [c \in {c1} |-> {"book", "accept"}]
=============================================================================
