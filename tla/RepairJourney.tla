---------------------------- MODULE RepairJourney ----------------------------
(***************************************************************************)
(* One repair: the journey document, the staff requests that drive it, and  *)
(* the customer who books the pickup, accepts or declines the quote, asks   *)
(* for the device back, and chooses how it is returned.  The rounds of the  *)
(* two questions are fields of the document; the answers lie in             *)
(* dynamicData, which the customer's handlers change field by field under a *)
(* filter and which saving the staff's form replaces as a whole.            *)
(***************************************************************************)
EXTENDS Integers, FiniteSets

CONSTANTS
  Steps,        \* the steps this instance goes as far as sending
  Resends,      \* the steps it sends again
  Staff,        \* staff requests that can be in flight at the same time
  Customer,     \* clicks of the customer that can be in flight at the same time
  Ops,          \* what the staff of this instance do
  Answers,      \* the answers each of the clicks may give
  MaxBookings,  \* bound: rounds of booking-confirmed
  MaxQuotes,    \* bound: rounds of quote-ready
  MaxDetours,   \* bound: staff requests other than the first send of a step
  MaxFaults     \* bound: writes that fail or processes that die

Answer == {"book", "unbook", "accept", "decline", "return", "store", "courier"}

\* the answers that let staff go on
Yes == {"book", "accept", "return", "courier"}

ASSUME ConstantAssumption ==
  /\ Ops \subseteq {"send", "resend", "edit", "cancel", "decline"}
  /\ Answers \in [Customer -> SUBSET Answer]
  /\ {MaxBookings, MaxQuotes, MaxDetours, MaxFaults} \subseteq Nat

REPAIR_JOURNEY_WORKFLOW_STEPS ==
  <<"booking-confirmed", "pickup-scheduled", "device-received", "diagnosing", "quote-ready",
    "repair-in-progress", "device-ready", "device-returned">>

ADHOC_RETURN_REPAIR_WORKFLOW_KEYS ==
  {"device-return-unrepaired", "device-return-unrepaired-complete"}

Workflow == {REPAIR_JOURNEY_WORKFLOW_STEPS[i] : i \in DOMAIN REPAIR_JOURNEY_WORKFLOW_STEPS}
Adhoc    == ADHOC_RETURN_REPAIR_WORKFLOW_KEYS \cup {"courier-dispatched"}
Emails   == Workflow \cup Adhoc

Status == {"active", "completed", "cancelled", "quote_declined", "booking_declined",
           "device_return_requested"}

ASSUME StepsAssumption == Steps \subseteq Emails /\ Resends \subseteq Emails

\* the emails that ask the customer something, and the steps that wait for the answer
Question == {"booking-confirmed", "quote-ready", "device-ready"}
Gated    == {"pickup-scheduled", "repair-in-progress"}

VARIABLES
  journey,  \* the document
  request,  \* the staff requests in flight
  click,    \* the customer's clicks in flight
  emailed,  \* history: the rounds in the links of the emails sent so far
  pressed,  \* history: the rounds in the links by which the customer agreed
  begun,    \* history: the rounds whose consent the gated emails were sent on
  detours,  \* staff requests other than the first send of a step
  faults

vars == <<journey, request, click, emailed, pressed, begun, detours, faults>>

Unset == 0   \* a generation that is not there

\* dynamicData, as far as the code of the journey looks at it
NewData ==
  [ack |-> FALSE, ackOf |-> Unset, ackDeclined |-> FALSE, ackDeclinedOf |-> Unset,
   accepted |-> FALSE, acceptedOf |-> Unset, returnAsked |-> FALSE, mode |-> "none"]

NewJourney ==
  [status |-> "active", current |-> "booking-confirmed", completed |-> {}, sent |-> {},
   bookingGen |-> Unset, quoteGen |-> Unset, data |-> NewData]

Data ==
  [ack : BOOLEAN, ackOf : Nat, ackDeclined : BOOLEAN, ackDeclinedOf : Nat,
   accepted : BOOLEAN, acceptedOf : Nat, returnAsked : BOOLEAN,
   mode : {"none", "store", "courier"}]

Journey ==
  [status : Status, current : Workflow, completed : SUBSET Workflow, sent : SUBSET Emails,
   bookingGen : Nat, quoteGen : Nat, data : Data]

NoRequest == [pc |-> "idle", op |-> "none", step |-> "none", seen |-> NewJourney]
NoClick   == [pc |-> "idle", answer |-> "none", round |-> Unset, seen |-> Unset]

TypeOK ==
  /\ journey \in Journey
  /\ request \in [Staff -> [pc : {"idle", "send", "write"}, op : Ops \cup {"none"},
                            step : Emails \cup {"none"}, seen : Journey]]
  /\ click \in [Customer -> [pc : {"idle", "form", "write"}, answer : Answer \cup {"none"},
                             round : Nat, seen : Nat]]
  /\ emailed \in [Question -> SUBSET Nat]
  /\ pressed \in [Yes -> SUBSET Nat]
  /\ begun \in [Gated -> SUBSET Nat]
  /\ {detours, faults} \subseteq Nat

Init ==
  /\ journey = NewJourney
  /\ request = [s \in Staff |-> NoRequest]
  /\ click = [c \in Customer |-> NoClick]
  /\ emailed = [q \in Question |-> {}]
  /\ pressed = [a \in Yes |-> {}]
  /\ begun = [g \in Gated |-> {}]
  /\ detours = 0
  /\ faults = 0

-----------------------------------------------------------------------------
(* Which steps the service sends.                                           *)

Index(step) ==
  CHOOSE i \in DOMAIN REPAIR_JOURNEY_WORKFLOW_STEPS : REPAIR_JOURNEY_WORKFLOW_STEPS[i] = step

Before(step) == {t \in Workflow : Index(t) < Index(step)}

getNextStep(completed) ==
  CHOOSE t \in Workflow \ completed : Before(t) \subseteq completed

effectiveOfferGeneration(j) ==
  IF j.quoteGen > 0 THEN j.quoteGen ELSE IF "quote-ready" \in j.completed THEN 1 ELSE 0

assertCustomerAcceptedCurrentQuote(j) ==
  /\ j.data.accepted
  /\ IF j.data.acceptedOf > 0
     THEN j.data.acceptedOf = effectiveOfferGeneration(j)
     ELSE effectiveOfferGeneration(j) <= 1

\* mutant: any answer to the booking that is not a refusal
NotRefused(j) == "booking-confirmed" \in j.completed => ~j.data.ackDeclined

assertCustomerAcknowledgedBooking(j) ==
  "booking-confirmed" \in j.completed /\ j.bookingGen > 0 =>
    /\ j.data.ack
    /\ j.data.ackOf > 0 => j.data.ackOf = j.bookingGen
    /\ ~j.data.ackDeclined

assertCustomerSelectedReturnMode(j) == "device-ready" \in j.completed => j.data.mode # "none"

assertCourierDispatchedIfRequired(j) == j.data.mode = "courier" => "courier-dispatched" \in j.sent

assertCourierDispatchAllowed(j) ==
  /\ "device-ready" \in j.completed
  /\ j.data.mode = "courier"
  /\ j.current = "device-returned"

Preconditions(j, step) ==
  /\ step = "repair-in-progress" => assertCustomerAcceptedCurrentQuote(j)
  /\ step = "pickup-scheduled" => assertCustomerAcknowledgedBooking(j)
  /\ step = "device-returned" =>
       assertCustomerSelectedReturnMode(j) /\ assertCourierDispatchedIfRequired(j)

\* the next step, or an earlier one
InTurn(j, step) == step \in Workflow /\ Before(step) \subseteq j.completed

sendNext(j, step) == j.status # "completed" /\ step \notin j.completed /\ InTurn(j, step)

\* mutant: the return of an unrepaired device needs no request
SendStepUnasked(j, step) ==
  CASE step = "courier-dispatched" -> assertCourierDispatchAllowed(j) /\ step \notin j.sent
    [] step \in ADHOC_RETURN_REPAIR_WORKFLOW_KEYS -> "quote-ready" \in j.completed
    [] OTHER -> step \notin j.sent /\ InTurn(j, step)

sendStep(j, step) ==
  CASE step = "courier-dispatched" -> assertCourierDispatchAllowed(j) /\ step \notin j.sent
    [] step \in ADHOC_RETURN_REPAIR_WORKFLOW_KEYS -> j.data.returnAsked
    [] OTHER -> step \notin j.sent /\ InTurn(j, step)

MaySend(j, step) == (sendNext(j, step) \/ sendStep(j, step)) /\ Preconditions(j, step)

MayResend(j, step) == step \in j.sent /\ Preconditions(j, step)

-----------------------------------------------------------------------------
(* What one email does to the document.                                     *)

nextQuoteGenerationNumber(j) == effectiveOfferGeneration(j) + 1

nextBookingAckGenerationNumber(j) == j.bookingGen + 1

\* the first send of a step: the completed steps are written from the copy read
Sent(j, seen, step) ==
  LET newCompleted == seen.completed \cup {step}
      done == newCompleted = Workflow
  IN  [j EXCEPT !.sent = @ \cup {step},
                !.completed = newCompleted,
                !.current = IF step = "quote-ready" \/ done THEN step ELSE getNextStep(newCompleted),
                !.status = IF done THEN "completed" ELSE "active",
                !.quoteGen = IF step = "quote-ready" THEN nextQuoteGenerationNumber(seen) ELSE @,
                !.bookingGen = IF step = "booking-confirmed"
                               THEN nextBookingAckGenerationNumber(seen) ELSE @]

\* the form of the courier email always carries the mode
SentAdhoc(j, step) ==
  [j EXCEPT !.sent = @ \cup {step},
            !.status = IF step = "device-return-unrepaired-complete" THEN "completed" ELSE @,
            !.data.mode = IF step = "courier-dispatched" THEN "courier" ELSE @]

\* a resent question opens a new round and forgets the answer
Resent(j, seen, step) ==
  CASE step = "quote-ready" ->
         [j EXCEPT !.quoteGen = nextQuoteGenerationNumber(seen), !.status = "active",
                   !.current = step, !.data.accepted = FALSE, !.data.acceptedOf = Unset]
    [] step = "booking-confirmed" ->
         [j EXCEPT !.bookingGen = nextBookingAckGenerationNumber(seen), !.status = "active",
                   !.current = step, !.data.ack = FALSE, !.data.ackOf = Unset,
                   !.data.ackDeclined = FALSE, !.data.ackDeclinedOf = Unset]
    [] step = "device-ready" -> [j EXCEPT !.data.mode = "none"]
    [] OTHER -> j

-----------------------------------------------------------------------------
(* Staff requests.                                                          *)

\* what the handler still uses of the document once it has checked it
Kept(op, step, j) ==
  CASE op \in {"send", "resend"} /\ step \notin Adhoc ->
         [NewJourney EXCEPT !.completed = j.completed, !.quoteGen = j.quoteGen,
           !.bookingGen = j.bookingGen, !.data.ackOf = j.data.ackOf,
           !.data.acceptedOf = j.data.acceptedOf]
    [] op = "edit" -> [NewJourney EXCEPT !.data = j.data]
    [] OTHER -> NewJourney

Begin(s, op, step, pc) ==
  /\ op \in Ops
  /\ request[s].pc = "idle"
  /\ op # "send" => detours < MaxDetours
  /\ step = "booking-confirmed" => journey.bookingGen < MaxBookings
  /\ step = "quote-ready" => effectiveOfferGeneration(journey) < MaxQuotes
  /\ request' = [request EXCEPT ![s] =
       [pc |-> pc, op |-> op, step |-> step, seen |-> Kept(op, step, journey)]]
  /\ detours' = IF op = "send" THEN detours ELSE detours + 1
  /\ UNCHANGED <<journey, click, emailed, pressed, begun, faults>>

ReadSend(s, step) == MaySend(journey, step) /\ Begin(s, "send", step, "send")

ReadResend(s, step) == MayResend(journey, step) /\ Begin(s, "resend", step, "send")

\* updateDynamicData: the page saves each form before it asks for the email
ReadEdit(s) == Begin(s, "edit", "none", "write")

ReadCancel(s) ==
  journey.status \notin {"completed", "cancelled"} /\ Begin(s, "cancel", "none", "write")

ReadQuoteDecline(s) ==
  /\ "quote-ready" \in journey.completed
  /\ journey.status \notin {"completed", "cancelled"}
  /\ Begin(s, "decline", "none", "write")

LinkRound(step, seen) ==
  CASE step = "quote-ready" -> nextQuoteGenerationNumber(seen)
    [] step = "booking-confirmed" -> nextBookingAckGenerationNumber(seen)
    [] OTHER -> Unset

Consent(step, d) == IF step = "repair-in-progress" THEN d.acceptedOf ELSE d.ackOf

\* the email leaves, by the queue or directly, before the document is written
SendEmail(s) ==
  LET r == request[s] IN
  /\ r.pc = "send"
  /\ emailed' = IF r.step \in Question
                THEN [emailed EXCEPT ![r.step] = @ \cup {LinkRound(r.step, r.seen)}] ELSE emailed
  /\ begun' = IF r.step \in Gated
              THEN [begun EXCEPT ![r.step] = @ \cup {Consent(r.step, r.seen.data)}] ELSE begun
  /\ request' = [request EXCEPT ![s].pc = "write"]
  /\ UNCHANGED <<journey, click, pressed, detours, faults>>

\* every provider refuses: the handler throws before it writes anything
EmailFails(s) ==
  /\ request[s].pc = "send"
  /\ request' = [request EXCEPT ![s] = NoRequest]
  /\ UNCHANGED <<journey, click, emailed, pressed, begun, detours, faults>>

\* mutant: a status the schema does not know
QuoteDeclinedStatus(j) ==
  [j EXCEPT !.status = "declined", !.current = "quote-ready",
            !.data.accepted = FALSE, !.data.acceptedOf = Unset]

QuoteDeclined(j) ==
  [j EXCEPT !.status = "quote_declined", !.current = "quote-ready",
            !.data.accepted = FALSE, !.data.acceptedOf = Unset]

Write(j, r) ==
  CASE r.op = "send" /\ r.step \in Adhoc    -> SentAdhoc(j, r.step)
    [] r.op = "send" /\ r.step \notin Adhoc -> Sent(j, r.seen, r.step)
    [] r.op = "resend"  -> Resent(j, r.seen, r.step)
    [] r.op = "edit"    -> [j EXCEPT !.data = r.seen.data]
    [] r.op = "cancel"  -> [j EXCEPT !.status = "cancelled"]
    [] r.op = "decline" -> QuoteDeclined(j)

\* journeyModel.updateOne
WriteJourney(s) ==
  /\ request[s].pc = "write"
  /\ journey' = Write(journey, request[s])
  /\ request' = [request EXCEPT ![s] = NoRequest]
  /\ UNCHANGED <<click, emailed, pressed, begun, detours, faults>>

\* the process dies, or the database call fails, after the email has left
WriteLost(s) ==
  /\ request[s].pc = "write"
  /\ faults < MaxFaults
  /\ faults' = faults + 1
  /\ request' = [request EXCEPT ![s] = NoRequest]
  /\ UNCHANGED <<journey, click, emailed, pressed, begun, detours>>

-----------------------------------------------------------------------------
(* The customer's answers: a link of an email shows a form, the form is     *)
(* posted, checked on a copy, and stored by an update under a filter.       *)

Asks(answer) ==
  CASE answer \in {"book", "unbook"} -> "booking-confirmed"
    [] answer \in {"accept", "decline", "return"} -> "quote-ready"
    [] OTHER -> "device-ready"

Generation(j, answer) ==
  CASE Asks(answer) = "booking-confirmed" -> j.bookingGen
    [] Asks(answer) = "quote-ready" -> effectiveOfferGeneration(j)
    [] OTHER -> Unset

Closed(j) == j.status \in {"cancelled", "completed"}

alreadyAccepted(j) == j.data.ack /\ j.data.ackOf > 0 /\ j.data.ackOf = j.bookingGen

alreadyDeclinedForRound(j) ==
  /\ j.status = "booking_declined" /\ j.data.ackDeclined
  /\ j.data.ackDeclinedOf > 0 /\ j.data.ackDeclinedOf = j.bookingGen

OfCurrentQuote(j) == j.data.acceptedOf = effectiveOfferGeneration(j)

\* the views behind the links, one a line: when they show the form; the refusal of a booking
\* has none
Shows(j, answer) ==
  CASE answer = "book"    -> /\ ~Closed(j)
                             /\ j.completed \subseteq {"booking-confirmed"}
                             /\ j.bookingGen > 0 /\ ~alreadyAccepted(j)
    [] answer = "unbook"  -> TRUE
    [] answer = "accept"  -> /\ ~Closed(j) /\ j.status # "quote_declined"
                             /\ ~(j.data.accepted /\ OfCurrentQuote(j))
    [] answer = "decline" -> ~Closed(j) /\ (j.status = "quote_declined" => OfCurrentQuote(j))
    [] answer = "return"  -> j.status # "device_return_requested" /\ ~j.data.returnAsked
    [] OTHER              -> /\ ~Closed(j)
                             /\ "device-ready" \in j.completed /\ j.data.mode = "none"

\* the checks on the copy when the form is posted, one handler a line
Takes(j, answer) ==
  CASE answer = "book"    -> ~Closed(j) /\ ~alreadyAccepted(j)
    [] answer = "unbook"  -> /\ ~Closed(j)
                             /\ j.completed \subseteq {"booking-confirmed"}
                             /\ j.bookingGen > 0
                             /\ ~alreadyAccepted(j) /\ ~alreadyDeclinedForRound(j)
    [] answer = "accept"  -> /\ ~Closed(j)
                             /\ j.status \notin {"quote_declined", "device_return_requested"}
                             /\ ~j.data.returnAsked
    [] answer = "decline" -> ~Closed(j)
    [] answer = "return"  -> TRUE
    [] OTHER              -> ~Closed(j) /\ j.data.mode = "none"

\* mutant: the links of earlier emails still count
UpToDateOrOlder(jGen, tGen) == jGen > 0 => tGen <= jGen

\* the generation in the link is the journey's
UpToDate(jGen, tGen) == jGen > 0 => tGen = jGen

\* the customer follows a link, maybe with the form of an earlier one still open
OpenForm(c, answer, round) ==
  /\ answer \in Answers[c]
  /\ click[c].pc # "write"
  /\ round \in emailed[Asks(answer)]
  /\ UpToDate(Generation(journey, answer), round)
  /\ Shows(journey, answer)
  /\ click' = [click EXCEPT ![c] = [pc |-> "form", answer |-> answer, round |-> round,
                                    seen |-> Unset]]
  /\ UNCHANGED <<journey, request, emailed, pressed, begun, detours, faults>>

\* the form is posted, however long it has been open
ReadAnswer(c) ==
  LET k == click[c] IN
  /\ k.pc = "form"
  /\ UpToDate(Generation(journey, k.answer), k.round)
  /\ Takes(journey, k.answer)
  /\ click' = [click EXCEPT ![c] = [pc |-> "write", answer |-> k.answer, round |-> k.round,
                                    seen |-> Generation(journey, k.answer)]]
  /\ UNCHANGED <<journey, request, emailed, pressed, begun, detours, faults>>

\* a field that is not there differs from every generation
Differs(field, gen) == field = Unset \/ field # gen

\* mutant: the choice of the return mode has no filter
FilterWithoutMode(j, k) ==
  CASE k.answer \in {"book", "unbook"} -> j.bookingGen = k.seen /\ Differs(j.data.ackOf, k.seen)
    [] k.answer \in {"accept", "decline"} ->
         j.quoteGen = k.seen /\ Differs(j.data.acceptedOf, k.seen)
    [] k.answer = "return" -> j.quoteGen = k.seen /\ ~j.data.returnAsked
    [] OTHER -> TRUE

\* mutant: an accepted quote can still be answered
FilterOfRound(j, k) ==
  CASE k.answer \in {"book", "unbook"} -> j.bookingGen = k.seen /\ Differs(j.data.ackOf, k.seen)
    [] k.answer \in {"accept", "decline"} -> j.quoteGen = k.seen
    [] k.answer = "return" -> j.quoteGen = k.seen /\ ~j.data.returnAsked
    [] OTHER -> j.data.mode = "none"

atomicFilter(j, k) ==
  CASE k.answer \in {"book", "unbook"} -> j.bookingGen = k.seen /\ Differs(j.data.ackOf, k.seen)
    [] k.answer \in {"accept", "decline"} ->
         j.quoteGen = k.seen /\ Differs(j.data.acceptedOf, k.seen)
    [] k.answer = "return" -> j.quoteGen = k.seen /\ ~j.data.returnAsked
    [] OTHER -> j.data.mode = "none"

Answered(j, k) ==
  CASE k.answer = "book" ->
         [j EXCEPT !.status = "active", !.data.ack = TRUE, !.data.ackOf = k.seen,
                   !.data.ackDeclined = FALSE, !.data.ackDeclinedOf = Unset]
    [] k.answer = "unbook" ->
         [j EXCEPT !.status = "booking_declined", !.current = "booking-confirmed",
                   !.data.ack = FALSE, !.data.ackOf = Unset,
                   !.data.ackDeclined = TRUE, !.data.ackDeclinedOf = k.seen]
    [] k.answer = "accept" ->
         [j EXCEPT !.status = "active", !.current = "repair-in-progress",
                   !.data.accepted = TRUE, !.data.acceptedOf = k.seen]
    [] k.answer = "decline" -> QuoteDeclined(j)
    [] k.answer = "return" ->
         [j EXCEPT !.status = "device_return_requested", !.current = "quote-ready",
                   !.data.returnAsked = TRUE]
    [] OTHER -> [j EXCEPT !.data.mode = k.answer]

WriteAnswer(c) ==
  LET k == click[c] IN
  /\ k.pc = "write"
  /\ IF atomicFilter(journey, k)
     THEN /\ journey' = Answered(journey, k)
          /\ pressed' = IF k.answer \in Yes
                        THEN [pressed EXCEPT ![k.answer] = @ \cup {k.round}] ELSE pressed
     ELSE UNCHANGED <<journey, pressed>>
  /\ click' = [click EXCEPT ![c] = NoClick]
  /\ UNCHANGED <<request, emailed, begun, detours, faults>>

-----------------------------------------------------------------------------
StaffStep(s) ==
  \/ \E step \in Steps : ReadSend(s, step)
  \/ \E step \in Resends : ReadResend(s, step)
  \/ ReadEdit(s) \/ ReadCancel(s) \/ ReadQuoteDecline(s)
  \/ SendEmail(s) \/ EmailFails(s) \/ WriteJourney(s) \/ WriteLost(s)

CustomerStep(c) ==
  \/ \E answer \in Answers[c] : \E round \in emailed[Asks(answer)] : OpenForm(c, answer, round)
  \/ ReadAnswer(c) \/ WriteAnswer(c)

Next == (\E s \in Staff : StaffStep(s)) \/ (\E c \in Customer : CustomerStep(c))

Spec == Init /\ [][Next]_vars
=============================================================================
