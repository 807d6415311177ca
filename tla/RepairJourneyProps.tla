-------------------------- MODULE RepairJourneyProps --------------------------
(***************************************************************************)
(* What a repair promises its customer and its staff.                       *)
(***************************************************************************)
EXTENDS RepairConsole

BookingGate == INSTANCE CustomerGate WITH
  Round <- 0..MaxBookings, asked <- emailed["booking-confirmed"],
  agreed <- pressed["book"], begun <- begun["pickup-scheduled"]

QuoteGate == INSTANCE CustomerGate WITH
  Round <- 0..MaxQuotes, asked <- emailed["quote-ready"],
  agreed <- pressed["accept"], begun <- begun["repair-in-progress"]

\* A pickup is scheduled only on the customer's word: the round whose acknowledgement the
\* request read was emailed, and pressed in a link of that very round, although the email
\* leaves before its round is stored, a resend opens a new round beside the click, and
\* staff edits write whole copies of the answers back.
BookingGateSpec == BookingGate!Spec

\* The same promise for the repair: it starts on a round of the quote that was emailed and
\* accepted in a link of that round, whatever answers, resends and edits race it.
QuoteGateSpec == QuoteGate!Spec

Has(step) == step \in journey.sent

\* The device is recorded as returned the way the customer chose, at the moment it is
\* recorded: a second click in another tab, after the check of the request, does not
\* change the choice, so a device that is to be couriered has its dispatch email.
ReturnedAsChosen ==
  [][~Has("device-returned") /\ Has("device-returned")' =>
       journey.data.mode # "none" /\ assertCourierDispatchedIfRequired(journey)]_vars

\* An unrepaired device goes back only after this customer asked for it, and a courier is
\* dispatched only after this customer chose one, also after a resend cleared the choice
\* or a staff edit restored it.
AskedForReturn ==
  /\ Has("device-return-unrepaired") => pressed["return"] # {}
  /\ Has("courier-dispatched") => pressed["courier"] # {}

Accepted(d) == d.accepted /\ d.acceptedOf > 0

\* No click overturns an acceptance: a decline, a return request or a second acceptance that
\* was checked before the acceptance was stored, or comes later from the same email,
\* leaves the accepted round as it is.
AcceptanceStands ==
  [][(\E c \in Customer : WriteAnswer(c)) /\ Accepted(journey.data) =>
       Accepted(journey.data') \/ journey.data.acceptedOf # journey.quoteGen]_vars

-----------------------------------------------------------------------------
(* The inductive invariant behind the gates and AskedForReturn.             *)

\* A consent that names a round was pressed in a link of that round; one that names none,
\* in some link: links are the rounds in them.
Consented(links, round) == IF round = Unset THEN links # {} ELSE round \in links

\* The answers in dynamicData, and in every copy of it, were pressed by the customer.
AnswersInv(d, by) ==
  /\ d.ack => Consented(by["book"], d.ackOf)
  /\ d.accepted => Consented(by["accept"], d.acceptedOf)
  /\ d.returnAsked => by["return"] # {}
  /\ d.mode = "courier" => by["courier"] # {}

\* A request knows what it is, works from a copy whose answers are the customer's and whose
\* rounds are within bounds, and passed the checks of its step.
RequestInv(r, j, by) ==
  /\ r.pc # "idle" => r.op \in {"send", "resend", "edit", "cancel", "decline"}
  /\ r.op \in {"send", "resend"} => r.step \in Emails
  /\ AnswersInv(r.seen.data, by)
  /\ r.op = "send" /\ r.step \in Workflow =>
       "booking-confirmed" \in r.seen.completed \cup {r.step}
  /\ "booking-confirmed" \in r.seen.completed => j.bookingGen > 0
  /\ r.step = "booking-confirmed" => r.seen.bookingGen < MaxBookings
  /\ r.step = "quote-ready" => effectiveOfferGeneration(r.seen) < MaxQuotes
  /\ r.step = "pickup-scheduled" => Consented(by["book"], r.seen.data.ackOf)
  /\ r.step = "repair-in-progress" => Consented(by["accept"], r.seen.data.acceptedOf)
  /\ r.step = "device-return-unrepaired" => by["return"] # {}
  /\ r.step = "courier-dispatched" => by["courier"] # {}

\* A click came from a link that was emailed, and records the round of that link or none.
ClickInv(k, links) ==
  k.pc # "idle" =>
    /\ k.answer \in Answer
    /\ k.round \in links[Asks(k.answer)]
    /\ k.seen \in {Unset, k.round}

JourneyInv(j, by) ==
  /\ AnswersInv(j.data, by)
  /\ j.sent \cap Workflow # {} => "booking-confirmed" \in j.completed
  /\ "booking-confirmed" \in j.completed => j.bookingGen > 0
  /\ "device-return-unrepaired" \in j.sent => by["return"] # {}
  /\ "courier-dispatched" \in j.sent => by["courier"] # {}

HistoryInv ==
  /\ emailed["booking-confirmed"] \subseteq 0..MaxBookings
  /\ emailed["quote-ready"] \subseteq 0..MaxQuotes
  /\ pressed["book"] \subseteq emailed["booking-confirmed"]
  /\ pressed["accept"] \subseteq emailed["quote-ready"]

RepairInv ==
  /\ TypeOK /\ HistoryInv
  /\ JourneyInv(journey, pressed)
  /\ \A s \in Staff : RequestInv(request[s], journey, pressed)
  /\ \A c \in Customer : ClickInv(click[c], emailed)

(* The inductive invariant behind ReturnedAsChosen.                         *)

\* While the completion email is under way the choice it was checked on is still there.
ReturnInv ==
  \A s \in Staff :
    request[s].pc # "idle" /\ request[s].op = "send" /\ request[s].step = "device-returned" =>
      journey.data.mode # "none" /\ assertCourierDispatchedIfRequired(journey)

-----------------------------------------------------------------------------
\* No acceptance came between the email of its quote and the write that stores the round.
AcceptancesNameRounds ==
  /\ journey.data.accepted => journey.data.acceptedOf > 0
  /\ Unset \notin begun["repair-in-progress"]

\* The page's text: "nextStep is the EMAIL to send now": between two requests of the staff
\* the service takes what the page offers.
NextActionIsAccepted ==
  AcceptancesNameRounds /\ (\A s \in Staff : request[s].pc = "idle") /\ Offers(journey) =>
    LET next == nextAction(journey) IN
    IF next.op = "send" THEN MaySend(journey, next.step) ELSE MayResend(journey, next.step)
=============================================================================
