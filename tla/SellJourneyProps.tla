--------------------------- MODULE SellJourneyProps ---------------------------
(***************************************************************************)
(* What the sell workflow keeps whichever requests and clicks interleave,   *)
(* and what its comments and messages promise that it does not.             *)
(***************************************************************************)
EXTENDS SellConsole

\* An initial segment of the workflow, whatever else is in the set.
InOrder(steps) == \A t \in steps \cap Workflow : Before(t) \subseteq steps

\* However stale the copies its requests work from, a journey never records a
\* step without the steps before it, and completes no step it has not sent.
StepsInOrder ==
  /\ InOrder(journey.completed)
  /\ InOrder(journey.sent)
  /\ journey.completed \subseteq journey.sent

\* A journey is "completed" only when its last email, or the one that returns
\* the device, went out.
CompletedMeansClosed ==
  journey.status = "completed" =>
    "completed" \in journey.sent \/ "device-reship" \in journey.sent

Sends(s, step) ==
  /\ request[s].pc = "send" /\ request'[s].pc = "write" /\ request[s].step = step

\* An answer of the customer is written in this step.
Answers(c) == click'[c] = NoClick /\ TakesEffect(c)

PressedGenerations(gate) == {mails[gate][i] : i \in pressed[gate] \cap DOMAIN mails[gate]}

\* No payment email leaves unless the customer accepted an offer of the
\* generation that was current when the staff request read the journey
\* (assertCustomerAcceptedCurrentOffer), stale writes of dynamicData included.
PaymentWasAccepted ==
  [][\A s \in Staff : Sends(s, "payment-sent") =>
       request[s].seen.offerGen \in PressedGenerations("offer-ready")]_vars

\* No pickup email leaves unless the customer asked for the pickup by a link of
\* the generation that was current when the staff request read the journey
\* (assertCustomerAcknowledgedRequest), staff edits and clicks beside it included.
\* It is for one staff request at a time: with two, an acknowledgement stored before
\* its round had a number, written back by a stale copy, counts for every round.
PickupWasRequested ==
  [][\A s \in Staff : Sends(s, "pickup-scheduled") =>
       request[s].seen.ackGen \in PressedGenerations("request-received")]_vars

\* An answer takes effect only for the round that is current when it is
\* written, through a link of that round, or before the first round is recorded.
AnswerIsForCurrentRound ==
  [][\A c \in Customer : Answers(c) =>
       IF click[c].answer \in {"accept offer", "decline offer"}
       THEN journey.offerGen \in {0, mails["offer-ready"][click[c].mail]}
       ELSE journey.ackGen \in {0, mails["request-received"][click[c].mail]}]_vars

OnlyLastMatches(gate, generation) ==
  \A i \in DOMAIN mails[gate] : i < Len(mails[gate]) => mails[gate][i] # generation

Quiet == exists /\ faults = 0 /\ \A s \in Staff : request[s].pc = "idle"

\* With one staff request at a time and no lost write, only the links of the
\* last email of each kind work.
OnlyLastLinksWork ==
  Quiet => /\ OnlyLastMatches("offer-ready", journey.offerGen)
           /\ OnlyLastMatches("request-received", journey.ackGen)

\* The staff's page and the service agree: while no staff request is under way and none
\* lost its write, an email the page offers for the first time is one the service takes,
\* and so are the resends it asks for after a decline, in whatever order the customer's
\* clicks and the staff's resends moved the stage back and forth.
ConsoleOffersAccepted ==
  /\ Quiet => \A step \in Workflow : OffersSend(journey, step) =>
       MaySend(journey, step) \/ step \in journey.sent
  /\ OffersRequestResend(journey) => MayResend(journey, "request-received")
  /\ OffersOfferResend(journey) => MayResend(journey, "offer-ready")

-----------------------------------------------------------------------------
(* The inductive invariant behind StepsInOrder.                             *)

\* The copy a request works from was in order, and whatever it holds has been
\* recorded as sent and stays so, however old the copy is.
CopyInv(r) ==
  /\ InOrder(r.seen.completed) /\ InOrder(r.seen.sent)
  /\ r.seen.completed \cup r.seen.sent \subseteq journey.sent
  /\ r.op = "send" => r.step \in Workflow /\ Before(r.step) \subseteq r.seen.completed

\* A request or a click that is under way says what it is.
KindInv ==
  /\ \A s \in Staff : request[s].pc # "idle" =>
       request[s].op \in {"send", "resend", "reship", "cancel", "decline", "edit"}
  /\ \A c \in Customer : click[c].pc = "write" => click[c].answer \in Answer

OrderInv ==
  TypeOK /\ KindInv /\ StepsInOrder /\ \A s \in Staff : CopyInv(request[s])

(* The inductive invariant behind PaymentWasAccepted.                       *)

\* An acceptance in dynamicData, or in a copy of it, was given by a link of the
\* offer it names; one that names none, by a link of the first offer.
AcceptedInv(data) ==
  data.accepted => (IF data.acceptedOf > 0 THEN data.acceptedOf ELSE 1)
                     \in PressedGenerations("offer-ready")

\* Until the first offer is recorded every offer email carries generation 1.
OfferInv ==
  /\ journey.offerGen >= 0
  /\ "offer-ready" \in journey.sent => journey.offerGen > 0
  /\ journey.offerGen = 0 =>
       \A i \in DOMAIN mails["offer-ready"] : mails["offer-ready"][i] = 1

SeenInv(r) ==
  /\ r.seen.offerGen >= 0
  /\ journey.offerGen = 0 => r.seen.offerGen = 0
  /\ AcceptedInv(r.seen.data)
  /\ r.pc = "send" /\ r.step = "payment-sent" =>
       r.seen.offerGen \in PressedGenerations("offer-ready")

\* A click on an offer is matched with the email whose link it came from.
ClickInv(k) ==
  k.pc = "write" /\ k.answer \in {"accept offer", "decline offer"} =>
    /\ k.mail \in DOMAIN mails["offer-ready"]
    /\ mails["offer-ready"][k.mail] = IF k.gen > 0 THEN k.gen ELSE 1

PaymentInv ==
  /\ OfferInv
  /\ AcceptedInv(journey.data)
  /\ \A s \in Staff : SeenInv(request[s])
  /\ \A c \in Customer : ClickInv(click[c])

(* The same for the answers to the request, behind AnswerIsForCurrentRound.  *)

\* An acknowledgement in dynamicData, or in a copy of it, was given by a link of
\* the request it names, or of the first one, and is not beside a refusal.
AcknowledgedInv(data) ==
  data.ack => /\ (IF data.ackOf > 0 THEN data.ackOf ELSE 1)
                   \in PressedGenerations("request-received")
              /\ ~data.declined

\* A question has a generation once its email is recorded; until then every
\* email that asks it carries generation 1.
AskedInv ==
  /\ journey.ackGen >= 0
  /\ journey.ackGen > 0 <=> "request-received" \in journey.sent
  /\ journey.offerGen > 0 => "offer-ready" \in journey.sent
  /\ journey.ackGen = 0 =>
       \A i \in DOMAIN mails["request-received"] : mails["request-received"][i] = 1

\* A click on a request is matched with the email whose link it came from.
RequestClickInv(k) ==
  k.pc = "write" /\ k.answer \in {"accept request", "decline request"} =>
    /\ k.mail \in DOMAIN mails["request-received"]
    /\ mails["request-received"][k.mail] = IF k.gen > 0 THEN k.gen ELSE 1
    /\ k.answer = "decline request" => k.gen > 0

RequestSeenInv(r) ==
  /\ r.seen.ackGen >= 0
  /\ journey.ackGen = 0 => r.seen.ackGen = 0
  /\ AcknowledgedInv(r.seen.data)

RequestInv ==
  /\ AskedInv
  /\ AcknowledgedInv(journey.data)
  /\ \A s \in Staff : RequestSeenInv(request[s])
  /\ \A c \in Customer : RequestClickInv(click[c])

-----------------------------------------------------------------------------
(* The inductive invariant behind the properties that speak of one staff    *)
(* request at a time.                                                       *)

\* An acknowledgement stored before its round had a number is of the first round.
FirstRoundInv(data) == data.ack /\ data.ackOf <= 0 => journey.ackGen <= 1

\* Nothing but clicks changes the document under a request: the copy is still
\* right about steps and generations, and so are the checks made on it.
FreshInv(r) ==
  /\ r.pc = "send" => r.op \in {"send", "resend", "reship"}
  /\ r.pc # "idle" /\ r.op \in {"send", "resend"} =>
       /\ r.seen.completed = journey.completed
       /\ r.seen.ackGen = journey.ackGen
       /\ r.seen.offerGen = journey.offerGen
       /\ r.op = "send" => r.step \notin journey.completed
       /\ r.op = "resend" => r.step \in journey.completed \cap Workflow
       /\ r.pc = "write" /\ r.step \in Gate => mails[r.step] # << >>
  /\ r.pc # "idle" /\ r.op = "reship" => r.seen.sent = journey.sent /\ r.step = "device-reship"
  /\ r.pc # "idle" /\ r.op = "decline" => "offer-ready" \in journey.completed
  /\ r.pc # "idle" => FirstRoundInv(r.seen.data)
  /\ r.pc = "send" /\ r.step = "pickup-scheduled" =>
       r.seen.ackGen \in PressedGenerations("request-received")

Recorded(gate) == IF gate = "offer-ready" THEN journey.offerGen ELSE journey.ackGen

\* the email of this step has left and is not recorded yet
Unrecorded(step) ==
  \E s \in Staff : /\ request[s].pc = "write" /\ request[s].op \in {"send", "resend"}
                   /\ request[s].step = step

\* While no write is lost, only the last email of a kind carries the last generation.
RoundInv(gate) ==
  LET last == Recorded(gate) + IF Unrecorded(gate) THEN 1 ELSE 0 IN
  \A i \in DOMAIN mails[gate] :
    mails[gate][i] <= last /\ (i < Len(mails[gate]) => mails[gate][i] < last)

\* Where the stage stands, when an answer to the first offer may have moved it on
\* before the offer was recorded.
StageInv ==
  LET offered == mails["offer-ready"] # << >> IN
  /\ journey.status = "request_declined" => "request-received" \in journey.completed
  /\ journey.status = "offer_declined" => offered
  /\ offered => Before("offer-ready") \subseteq journey.completed
  /\ "offer-ready" \in journey.completed => offered
  /\ journey.current \in Workflow =>
       Before(journey.current) \subseteq
         journey.completed \cup IF offered THEN {"offer-ready"} ELSE {}

SoloInv ==
  /\ journey.completed = journey.sent
  /\ FirstRoundInv(journey.data)
  /\ \A s \in Staff : FreshInv(request[s])
  /\ exists /\ faults = 0 => \A gate \in Gate : RoundInv(gate)
  /\ StageInv
=============================================================================
