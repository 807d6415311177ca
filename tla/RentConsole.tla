----------------------------- MODULE RentConsole -----------------------------
(***************************************************************************)
(* What the staff's page of a rental offers to do, decided from the same    *)
(* document by code of its own.                                             *)
(***************************************************************************)
EXTENDS RentJourney

rentRequestDeclinedPendingResend(d) == d.ackDeclined /\ ~d.ack

\* the steps resolveRentNextStep may answer: none or one
resolveRentNextStep(j) ==
  {step \in Open(j.completed, j.data) :
     /\ j.status = "active"
     /\ ~j.data.pending
     /\ ~rentRequestDeclinedPendingResend(j.data)
     /\ ~rentAgreementDeclinedPendingResend(j.data)
     /\ Before(step) \cap Open(j.completed, j.data) = {}}

\* mutant: the page does not wait for the quote to be accepted
UnblockedEarly(j, step) == step = "rent-agreement" => j.data.ack /\ ~j.data.ackDeclined

\* getRentActionBlockedReason has nothing to say
Unblocked(j, step) ==
  /\ step = "rent-agreement" => j.data.ack /\ ~j.data.ackDeclined
  /\ step \in {"rent-ready-pickup", "rent-dispatched"} => isRentAgreementAccepted(j.data)

OffersRequestResend(j) ==
  j.status = "active" /\ j.data.ackDeclined /\ "rent-request" \in j.completed

OffersQuoteResend(j) ==
  /\ j.status = "active"
  /\ ~OffersRequestResend(j)
  /\ \/ rentAgreementDeclinedPendingResend(j.data) /\ "rent-agreement" \in j.completed
     \/ j.data.pending

OffersSend(j, step) ==
  /\ ~OffersRequestResend(j) /\ ~OffersQuoteResend(j)
  /\ step \in resolveRentNextStep(j)
  /\ Unblocked(j, step)
=============================================================================
