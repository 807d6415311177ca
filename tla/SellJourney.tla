----------------------------- MODULE SellJourney -----------------------------
(***************************************************************************)
(* One sell request: the journey document, the staff requests that drive it *)
(* through its workflow, and the customer who answers by the links in the   *)
(* emails.  A staff request reads the document, sends an email and writes   *)
(* the document from what it read; a customer's click reads the document    *)
(* and then writes it under a filter.  Nothing locks the document between   *)
(* the read and the write.                                                  *)
(***************************************************************************)
EXTENDS Integers, Sequences, FiniteSets

CONSTANTS
  Steps,      \* the steps this instance goes as far as sending
  Resends,    \* the steps it sends again
  Staff,      \* staff requests that can be in flight at the same time
  Customer,   \* clicks of the customer that can be in flight at the same time
  Ops,        \* what the staff of this instance do
  MaxAsks,    \* bound: rounds of request-received
  MaxOffers,  \* bound: rounds of offer-ready
  MaxMails,   \* bound: emails with links of one kind
  MaxFaults   \* bound: requests that die between their email and their write

ASSUME ConstantAssumption ==
  /\ Ops \subseteq {"send", "resend", "reship", "cancel", "decline", "edit", "remove"}
  /\ {MaxAsks, MaxOffers, MaxMails, MaxFaults} \subseteq Nat

JOURNEY_WORKFLOW_STEPS ==
  <<"request-received", "pickup-scheduled", "inspection-underway", "offer-ready",
    "payment-sent", "completed">>

Workflow == {JOURNEY_WORKFLOW_STEPS[i] : i \in DOMAIN JOURNEY_WORKFLOW_STEPS}
StepKey  == Workflow \cup {"device-reship"}
Status   == {"active", "completed", "cancelled", "offer_declined", "request_declined",
             "no_customer_action"}

\* the steps whose emails carry links for the customer's answer
Gate == {"request-received", "offer-ready"}

ASSUME StepsAssumption == Steps \subseteq Workflow /\ Resends \subseteq Workflow

VARIABLES
  journey,  \* the document
  exists,   \* the document has not been deleted
  request,  \* the staff requests in flight
  click,    \* the customer's clicks in flight
  mails,    \* history: the generations in the links of the emails sent so far
  pressed,  \* history: the emails (by position) whose accept link took effect
  faults

vars == <<journey, exists, request, click, mails, pressed, faults>>

Unset == -1   \* a field of dynamicData that is not there

\* dynamicData, as far as the code of the journey looks at it; its writers set
\* fields of it one by one or replace it as a whole
NewData == [ack |-> FALSE, ackOf |-> Unset, declined |-> FALSE, declinedOf |-> Unset,
            accepted |-> FALSE, acceptedOf |-> Unset, reshipped |-> FALSE]

NewJourney == [status |-> "active", current |-> "request-received", completed |-> {},
               sent |-> {}, ackGen |-> 0, offerGen |-> 0, data |-> NewData]

Generation == Int
Data == [ack : BOOLEAN, ackOf : Generation, declined : BOOLEAN, declinedOf : Generation,
         accepted : BOOLEAN, acceptedOf : Generation, reshipped : BOOLEAN]
Journey == [status : Status, current : StepKey, completed : SUBSET StepKey,
            sent : SUBSET StepKey, ackGen : Generation, offerGen : Generation, data : Data]

NoRequest == [pc |-> "idle", op |-> "none", step |-> "none", seen |-> NewJourney]
NoClick   == [pc |-> "idle", answer |-> "none", mail |-> 0, gen |-> 0]

Answer == {"accept request", "decline request", "accept offer", "decline offer"}

TypeOK ==
  /\ journey \in Journey
  /\ exists \in BOOLEAN
  /\ request \in [Staff -> [pc : {"idle", "send", "write"}, op : Ops \cup {"none"},
                            step : StepKey \cup {"none"}, seen : Journey]]
  /\ click \in [Customer -> [pc : {"idle", "write"}, answer : Answer \cup {"none"},
                             mail : Nat, gen : Generation]]
  /\ mails \in [Gate -> Seq(Generation)]
  /\ pressed \in [Gate -> SUBSET Nat]
  /\ faults \in Nat

Init ==
  /\ journey = NewJourney
  /\ exists = TRUE
  /\ request = [s \in Staff |-> NoRequest]
  /\ click = [c \in Customer |-> NoClick]
  /\ mails = [g \in Gate |-> << >>]
  /\ pressed = [g \in Gate |-> {}]
  /\ faults = 0

-----------------------------------------------------------------------------
(* The checks of a staff request, on the document it read.                  *)

Index(step) == CHOOSE i \in DOMAIN JOURNEY_WORKFLOW_STEPS : JOURNEY_WORKFLOW_STEPS[i] = step

Before(step) == {t \in Workflow : Index(t) < Index(step)}

NextStep(done) == CHOOSE t \in Workflow \ done : Before(t) \subseteq done

\* assertCustomerAcknowledgedRequest
CustomerAcknowledged(j) ==
  \/ "request-received" \notin j.completed
  \/ j.ackGen <= 0
  \/ /\ j.data.ack
     /\ j.data.ackOf > 0 => j.data.ackOf = j.ackGen
     /\ ~j.data.declined

EffectiveOfferGen(j) ==
  IF j.offerGen > 0 THEN j.offerGen ELSE IF "offer-ready" \in j.completed THEN 1 ELSE 0

\* mutant: which offer was accepted is not compared
CustomerAcceptedAny(j) == j.data.accepted

\* assertCustomerAcceptedCurrentOffer
CustomerAccepted(j) ==
  /\ j.data.accepted
  /\ IF j.data.acceptedOf > 0 THEN j.data.acceptedOf = EffectiveOfferGen(j)
     ELSE EffectiveOfferGen(j) <= 1

MayDispatch(j, step) ==
  /\ step = "payment-sent" => CustomerAccepted(j)
  /\ step = "pickup-scheduled" => CustomerAcknowledged(j)

\* sendNext looks at the status, sendStep at sentSteps
MaySend(j, step) ==
  /\ Before(step) \subseteq j.completed
  /\ \/ j.status # "completed" /\ step \notin j.completed
     \/ step \notin j.sent
  /\ MayDispatch(j, step)

MayResend(j, step) == step \in j.sent /\ MayDispatch(j, step)

MayReship(j) ==
  /\ j.status \in {"offer_declined", "active"}
  /\ "offer-ready" \in j.completed
  /\ ~j.data.reshipped

\* mutant: a resend repeats the generation of the last email
NextGenerationSame(j, step) ==
  LET last == IF step = "offer-ready" THEN EffectiveOfferGen(j) ELSE j.ackGen
  IN  IF last = 0 THEN 1 ELSE last

\* the generation the links of the next email will carry
NextGeneration(j, step) ==
  1 + IF step = "offer-ready" THEN EffectiveOfferGen(j) ELSE j.ackGen

-----------------------------------------------------------------------------
(* Staff requests.                                                          *)

\* what the handler still uses of the document once it has checked it
Kept(op, j) ==
  CASE op \in {"send", "resend"} ->
         [NewJourney EXCEPT !.completed = j.completed, !.ackGen = j.ackGen, !.offerGen = j.offerGen]
    [] op = "reship" -> [NewJourney EXCEPT !.sent = j.sent, !.data = j.data]
    [] op = "edit"   -> [NewJourney EXCEPT !.data = j.data]
    [] OTHER         -> NewJourney

Begin(s, op, step, pc) ==
  /\ op \in Ops
  /\ exists
  /\ request[s].pc = "idle"
  /\ step = "request-received" => NextGeneration(journey, step) <= MaxAsks
  /\ step = "offer-ready" => NextGeneration(journey, step) <= MaxOffers
  /\ request' = [request EXCEPT ![s] =
       [pc |-> pc, op |-> op, step |-> step, seen |-> Kept(op, journey)]]
  /\ UNCHANGED <<journey, exists, click, mails, pressed, faults>>

\* findById and the checks of each handler; a request that fails them changes nothing
ReadSend(s, step) == MaySend(journey, step) /\ Begin(s, "send", step, "send")

ReadResend(s, step) == MayResend(journey, step) /\ Begin(s, "resend", step, "send")

ReadReship(s) == MayReship(journey) /\ Begin(s, "reship", "device-reship", "send")

ReadCancel(s) ==
  journey.status \notin {"completed", "cancelled"} /\ Begin(s, "cancel", "none", "write")

ReadDecline(s) ==
  /\ "offer-ready" \in journey.completed
  /\ journey.status \notin {"completed", "cancelled"}
  /\ Begin(s, "decline", "none", "write")

ReadEdit(s) == Begin(s, "edit", "none", "write")

\* the email leaves, by the queue or directly, before the document is written
SendEmail(s) ==
  LET r == request[s] IN
  /\ r.pc = "send"
  /\ r.step \in Gate => Len(mails[r.step]) < MaxMails
  /\ mails' = IF r.step \in Gate
              THEN [mails EXCEPT ![r.step] = Append(@, NextGeneration(r.seen, r.step))]
              ELSE mails
  /\ request' = [request EXCEPT ![s].pc = "write"]
  /\ UNCHANGED <<journey, exists, click, pressed, faults>>

\* mutant: the last step is taken for sent with the one before it
SentAllButOne(j, r) ==
  LET newCompleted == r.seen.completed \cup {r.step}
      allSent == Cardinality(newCompleted) >= Len(JOURNEY_WORKFLOW_STEPS) - 1
  IN  [j EXCEPT !.completed = newCompleted,
                !.sent = @ \cup {r.step},
                !.current = IF r.step = "offer-ready" \/ Workflow \subseteq newCompleted
                            THEN r.step ELSE NextStep(newCompleted),
                !.status = IF allSent THEN "completed" ELSE "active",
                !.offerGen = IF r.step = "offer-ready" THEN NextGeneration(r.seen, r.step) ELSE @,
                !.ackGen = IF r.step = "request-received" THEN NextGeneration(r.seen, r.step) ELSE @]

\* the first send of a step: completedSteps is written from the copy read
Sent(j, r) ==
  LET newCompleted == r.seen.completed \cup {r.step}
      allSent == Cardinality(newCompleted) = Len(JOURNEY_WORKFLOW_STEPS)
  IN  [j EXCEPT !.completed = newCompleted,
                !.sent = @ \cup {r.step},
                !.current = IF r.step = "offer-ready" \/ Workflow \subseteq newCompleted
                            THEN r.step ELSE NextStep(newCompleted),
                !.status = IF allSent THEN "completed" ELSE "active",
                !.offerGen = IF r.step = "offer-ready" THEN NextGeneration(r.seen, r.step) ELSE @,
                !.ackGen = IF r.step = "request-received" THEN NextGeneration(r.seen, r.step) ELSE @]

\* mutant: a resend unsets the generation of the answer but not the answer
ResentKeepsAnswer(j, r) ==
  IF r.step \in j.sent /\ r.step \in Gate
  THEN [j EXCEPT !.ackGen = IF r.step = "request-received" THEN NextGeneration(r.seen, r.step) ELSE @,
                 !.offerGen = IF r.step = "offer-ready" THEN NextGeneration(r.seen, r.step) ELSE @,
                 !.status = "active", !.current = r.step,
                 !.data.ackOf = Unset, !.data.acceptedOf = Unset]
  ELSE j

\* a resend of an email with links opens a new round and forgets the answer
Resent(j, r) ==
  IF r.step \in j.sent /\ r.step = "offer-ready"
  THEN [j EXCEPT !.offerGen = NextGeneration(r.seen, r.step),
                 !.status = "active", !.current = "offer-ready",
                 !.data = [@ EXCEPT !.accepted = FALSE, !.acceptedOf = Unset]]
  ELSE IF r.step \in j.sent /\ r.step = "request-received"
  THEN [j EXCEPT !.ackGen = NextGeneration(r.seen, r.step),
                 !.status = "active", !.current = "request-received",
                 !.data = [@ EXCEPT !.ack = FALSE, !.ackOf = Unset,
                                    !.declined = FALSE, !.declinedOf = Unset]]
  ELSE j

\* mutant: the steps never sent are marked completed too
ReshippedAll(j, r) ==
  [j EXCEPT !.completed = StepKey, !.sent = @ \cup {"device-reship"},
            !.current = "device-reship", !.status = "completed",
            !.data = [r.seen.data EXCEPT !.reshipped = TRUE]]

\* the device goes back: steps and dynamicData are written from the copy read
Reshipped(j, r) ==
  [j EXCEPT !.completed = (r.seen.sent \cap Workflow) \cup {"device-reship"},
            !.sent = @ \cup {"device-reship"},
            !.current = "device-reship",
            !.status = "completed",
            !.data = [r.seen.data EXCEPT !.reshipped = TRUE]]

\* mutant: a status the schema does not have
OfferRefused(j) == [j EXCEPT !.status = "declined", !.data.accepted = FALSE]

OfferDeclined(j) ==
  [j EXCEPT !.status = "offer_declined", !.current = "offer-ready",
            !.data = [@ EXCEPT !.accepted = FALSE, !.acceptedOf = Unset]]

Write(j, r) ==
  CASE r.op = "send"    -> Sent(j, r)
    [] r.op = "resend"  -> Resent(j, r)
    [] r.op = "reship"  -> Reshipped(j, r)
    [] r.op = "cancel"  -> [j EXCEPT !.status = "cancelled"]
    [] r.op = "decline" -> OfferDeclined(j)
    [] r.op = "edit"    -> [j EXCEPT !.data = r.seen.data]

\* journeyModel.updateOne
WriteJourney(s) ==
  /\ request[s].pc = "write"
  /\ journey' = IF exists THEN Write(journey, request[s]) ELSE journey
  /\ request' = [request EXCEPT ![s] = NoRequest]
  /\ UNCHANGED <<exists, click, mails, pressed, faults>>

\* every provider refuses: the handler throws before it writes anything
EmailFails(s) ==
  /\ request[s].pc = "send"
  /\ request' = [request EXCEPT ![s] = NoRequest]
  /\ UNCHANGED <<journey, exists, click, mails, pressed, faults>>

\* the process dies, or the database call fails, after the email has left
WriteLost(s) ==
  /\ request[s].pc = "write"
  /\ faults < MaxFaults
  /\ faults' = faults + 1
  /\ request' = [request EXCEPT ![s] = NoRequest]
  /\ UNCHANGED <<journey, exists, click, mails, pressed>>

Remove ==
  /\ "remove" \in Ops
  /\ exists
  /\ exists' = FALSE
  /\ UNCHANGED <<journey, request, click, mails, pressed, faults>>

-----------------------------------------------------------------------------
(* The customer's answers.                                                  *)

Click(c, answer, gate, mail, gen) ==
  /\ exists
  /\ click[c].pc = "idle"
  /\ mail \in DOMAIN mails[gate]
  /\ journey.status \notin {"cancelled", "completed"}
  /\ gen > 0 => mails[gate][mail] = gen
  /\ click' = [click EXCEPT ![c] =
       [pc |-> "write", answer |-> answer, mail |-> mail, gen |-> gen]]
  /\ UNCHANGED <<journey, exists, request, mails, pressed, faults>>

ReadOfferAnswer(c, answer, mail) ==
  /\ journey.status # "offer_declined"
  /\ Click(c, answer, "offer-ready", mail, EffectiveOfferGen(journey))

AlreadyAcknowledged(j) == j.data.ack /\ j.data.ackOf > 0 /\ j.data.ackOf = j.ackGen

ReadRequestAccept(c, mail) ==
  /\ ~AlreadyAcknowledged(journey)
  /\ Click(c, "accept request", "request-received", mail, journey.ackGen)

ReadRequestDecline(c, mail) ==
  /\ (journey.completed \cap Workflow) \subseteq {"request-received"}
  /\ journey.ackGen > 0
  /\ ~AlreadyAcknowledged(journey)
  /\ ~(/\ journey.status = "request_declined" /\ journey.data.declined
       /\ journey.data.declinedOf > 0 /\ journey.data.declinedOf = journey.ackGen)
  /\ Click(c, "decline request", "request-received", mail, journey.ackGen)

\* mutant: the filter does not name the generation
StillOpenAnyRound(j, k) ==
  IF k.answer \in {"accept offer", "decline offer"}
  THEN j.data.acceptedOf # k.gen ELSE j.data.ackOf # k.gen

\* the filter of updateOne
StillOpen(j, k) ==
  IF k.answer \in {"accept offer", "decline offer"}
  THEN j.offerGen = k.gen /\ j.data.acceptedOf # k.gen
  ELSE j.ackGen = k.gen /\ j.data.ackOf # k.gen

Answered(j, k) ==
  CASE k.answer = "accept offer" ->
         [j EXCEPT !.status = "active", !.current = "payment-sent",
                   !.data = [@ EXCEPT !.accepted = TRUE, !.acceptedOf = k.gen]]
    [] k.answer = "decline offer" -> OfferDeclined(j)
    [] k.answer = "accept request" ->
         [j EXCEPT !.status = "active",
                   !.data = [@ EXCEPT !.ack = TRUE, !.ackOf = k.gen,
                                      !.declined = FALSE, !.declinedOf = Unset]]
    [] k.answer = "decline request" ->
         [j EXCEPT !.status = "request_declined", !.current = "request-received",
                   !.data = [@ EXCEPT !.ack = FALSE, !.ackOf = Unset,
                                      !.declined = TRUE, !.declinedOf = k.gen]]

TakesEffect(c) == exists /\ click[c].pc = "write" /\ StillOpen(journey, click[c])

Press(gate, mail) == pressed' = [pressed EXCEPT ![gate] = @ \cup {mail}]

WriteAnswer(c) ==
  LET k == click[c] IN
  /\ k.pc = "write"
  /\ journey' = IF TakesEffect(c) THEN Answered(journey, k) ELSE journey
  /\ CASE TakesEffect(c) /\ k.answer = "accept offer"   -> Press("offer-ready", k.mail)
       [] TakesEffect(c) /\ k.answer = "accept request" -> Press("request-received", k.mail)
       [] OTHER -> UNCHANGED pressed
  /\ click' = [click EXCEPT ![c] = NoClick]
  /\ UNCHANGED <<exists, request, mails, faults>>

-----------------------------------------------------------------------------
StaffStep(s) ==
  \/ \E step \in Steps : ReadSend(s, step)
  \/ \E step \in Resends : ReadResend(s, step)
  \/ ReadReship(s) \/ ReadCancel(s) \/ ReadDecline(s) \/ ReadEdit(s)
  \/ SendEmail(s) \/ EmailFails(s) \/ WriteJourney(s) \/ WriteLost(s)

ReadAnswer(c) ==
  \E mail \in 1..MaxMails :
    \/ ReadOfferAnswer(c, "accept offer", mail)
    \/ ReadOfferAnswer(c, "decline offer", mail)
    \/ ReadRequestAccept(c, mail)
    \/ ReadRequestDecline(c, mail)

CustomerStep(c) == ReadAnswer(c) \/ WriteAnswer(c)

Next ==
  \/ \E s \in Staff : StaffStep(s)
  \/ \E c \in Customer : CustomerStep(c)
  \/ Remove

Spec == Init /\ [][Next]_vars
=============================================================================
