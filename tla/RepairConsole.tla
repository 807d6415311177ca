---------------------------- MODULE RepairConsole ----------------------------
(***************************************************************************)
(* What the staff's page of a repair offers and says, decided from the same *)
(* document by code of its own.                                             *)
(***************************************************************************)
EXTENDS RepairJourney

customerAcceptedCurrentQuote(j) ==
  /\ j.data.accepted
  /\ effectiveOfferGeneration(j) > 0
  /\ IF j.data.acceptedOf > 0
     THEN j.data.acceptedOf = effectiveOfferGeneration(j)
     ELSE effectiveOfferGeneration(j) = 1

customerAcknowledgedCurrentBooking(j) ==
  j.data.ack /\ j.bookingGen > 0 /\ j.data.ackOf = j.bookingGen

pickupBlockedPendingRequestAck(j) ==
  /\ j.status = "active"
  /\ "booking-confirmed" \in j.completed
  /\ j.bookingGen > 0
  /\ ~customerAcknowledgedCurrentBooking(j)

\* quotePhaseBlocked and paymentPhaseBlocked: the panel waits for the customer's answer
quotePhaseBlocked(j) ==
  /\ j.status = "active"
  /\ "quote-ready" \in j.completed
  /\ j.current \in {"quote-ready", "repair-in-progress"}
  /\ ~customerAcceptedCurrentQuote(j)

returnModePhaseBlocked(j) ==
  /\ j.status = "active"
  /\ "device-ready" \in j.completed
  /\ j.current = "device-returned"
  /\ j.data.mode = "none"

Awaited(j) ==
  pickupBlockedPendingRequestAck(j) \/ quotePhaseBlocked(j) \/ returnModePhaseBlocked(j)

\* the email to send for a stage; before the first email the stage stays booking-confirmed
NEXT_ACTION(j) ==
  IF j.current = "booking-confirmed" /\ "booking-confirmed" \in j.completed
  THEN "pickup-scheduled" ELSE j.current

\* the Next Action of the panel
nextAction(j) ==
  CASE j.status = "booking_declined" /\ "booking-confirmed" \in j.completed ->
         [op |-> "resend", step |-> "booking-confirmed"]
    [] j.status = "device_return_requested" ->
         [op |-> "send", step |-> IF "device-return-unrepaired" \in j.sent
                                  THEN "device-return-unrepaired-complete"
                                  ELSE "device-return-unrepaired"]
    [] j.status = "quote_declined" -> [op |-> "resend", step |-> "quote-ready"]
    [] j.current = "device-returned" /\ j.data.mode = "courier"
         /\ "courier-dispatched" \notin j.sent -> [op |-> "send", step |-> "courier-dispatched"]
    [] OTHER -> [op |-> "send", step |-> NEXT_ACTION(j)]

Offers(j) == j.status \notin {"completed", "cancelled"} /\ ~Awaited(j)
=============================================================================
