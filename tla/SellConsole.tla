----------------------------- MODULE SellConsole -----------------------------
(***************************************************************************)
(* What the staff's page of a sell request offers to do, decided from the   *)
(* same document by code of its own.                                        *)
(***************************************************************************)
EXTENDS SellJourney

customerAcceptedCurrentOffer(j) ==
  /\ j.data.accepted
  /\ EffectiveOfferGen(j) > 0
  /\ IF j.data.acceptedOf > 0 THEN j.data.acceptedOf = EffectiveOfferGen(j)
     ELSE EffectiveOfferGen(j) = 1

customerAcknowledgedCurrentRequest(j) ==
  j.data.ack /\ j.ackGen > 0 /\ j.data.ackOf > 0 /\ j.data.ackOf = j.ackGen

isHardTerminal(j) == j.status \in {"completed", "cancelled", "no_customer_action"}

pickupBlockedPendingRequestAck(j) ==
  /\ j.status = "active"
  /\ "request-received" \in j.completed
  /\ j.ackGen > 0
  /\ ~customerAcknowledgedCurrentRequest(j)

\* mutant: the panel looks for the wrong stage, the one before the payment
BlockedAtOffer(j) ==
  /\ j.status = "active"
  /\ "offer-ready" \in j.completed
  /\ j.current = "offer-ready"
  /\ ~customerAcceptedCurrentOffer(j)

paymentPhaseBlocked(j) ==
  /\ j.status = "active"
  /\ "offer-ready" \in j.completed
  /\ j.current = "payment-sent"
  /\ ~customerAcceptedCurrentOffer(j)

\* the email to send for a stage; before the first email the stage is its own
NEXT_ACTION(j) ==
  IF j.current = "request-received" /\ "request-received" \in j.completed
  THEN "pickup-scheduled" ELSE j.current

OffersRequestResend(j) ==
  j.status = "request_declined" /\ "request-received" \in j.completed

\* "Send revised offer"
OffersOfferResend(j) ==
  j.status = "offer_declined" /\ "offer-ready" \in j.completed

OffersSend(j, step) ==
  /\ ~isHardTerminal(j)
  /\ ~OffersRequestResend(j) /\ ~OffersOfferResend(j)
  /\ ~paymentPhaseBlocked(j)
  /\ ~pickupBlockedPendingRequestAck(j)
  /\ step = NEXT_ACTION(j)
  /\ step \in Workflow

canReship(j) == "offer-ready" \in j.completed /\ ~isHardTerminal(j)
=============================================================================
