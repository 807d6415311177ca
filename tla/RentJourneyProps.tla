--------------------------- MODULE RentJourneyProps ---------------------------
(***************************************************************************)
(* What a rental promises its customer and its staff.                       *)
(***************************************************************************)
EXTENDS RentConsole

\* The quote counts as accepted only when the customer pressed Accept in an email of the
\* current round or a later one: no resend, staff edit or write from a stale copy of
\* dynamicData turns an answer to an older quote into the acceptance of the newer one.
SignedByCustomer ==
  isRentAgreementAccepted(journey.data) =>
    \E mail \in pressed["rent-agreement"] : mails["rent-agreement"][mail] >= journey.data.gen

\* The device is handed over only after this customer has confirmed the request and has
\* accepted a quote, whatever is in flight when staff send the steps in between.
HandoverWasAgreed ==
  "rent-handover" \in journey.sent =>
    pressed["rent-request"] # {} /\ pressed["rent-agreement"] # {}

Branch == {"rent-ready-pickup", "rent-dispatched"}

\* every earlier step was sent, one of the two branch steps standing for both
InOrder(step, sent) ==
  /\ Before(step) \ Branch \subseteq sent
  /\ Branch \subseteq Before(step) => sent \cap Branch # {}

\* A step is emailed only when every earlier step was, although the branch is chosen by a
\* mode that answers and resends can change after the branch step was sent.
EmailsInOrder == \A step \in journey.sent : InOrder(step, journey.sent)

\* The staff's page and the service agree: while the request is confirmed, every step the
\* page offers to send is one the service accepts.
ConsoleSendsAccepted ==
  journey.data.ack => \A step \in Workflow : OffersSend(journey, step) => MaySend(journey, step)

\* ... and so are the resends the page asks for after a decline, or after the final offer
\* was reopened, while the other of the two answers stands.
ConsoleResendsAccepted ==
  /\ OffersRequestResend(journey) /\ ~rentAgreementDeclinedPendingResend(journey.data)
       => MayResend(journey, "rent-request")
  /\ OffersQuoteResend(journey) /\ journey.data.ack => MayResend(journey, "rent-agreement")

\* However its runs overlap, the hourly job sends one return reminder, and one more per
\* fault, as long as no write of a whole dynamicData touches the claim it works under.
OneReminder == ~clobbered => autos <= 1 + faults

\* A journey that waits for the return reminder gets it, from the job or from staff, unless
\* the journey leaves that step, a fault keeps the claim, or a write restores the claim.
ReminderArrives ==
  journey.status = "active" /\ journey.current = Reminder /\ "rent-handover" \in journey.completed
    ~> \/ autos > 0 \/ Reminder \in journey.sent
       \/ journey.status # "active" \/ journey.current # Reminder
       \/ faults > 0 \/ clobbered

-----------------------------------------------------------------------------
(* The inductive invariant behind the first three.                          *)

\* The answers in dynamicData, and in every copy of it, were pressed by the customer, the
\* signature in a link of the round it names or a later one.
AnswersInv(d, by, links) ==
  /\ d.ack => by["rent-request"] # {}
  /\ d.signed =>
       /\ d.signedOf > 0
       /\ \E mail \in by["rent-agreement"] :
            mail \in DOMAIN links["rent-agreement"] /\ links["rent-agreement"][mail] >= d.signedOf

\* the answers a step must have been sent on
Agreed(step, by) ==
  /\ step = "rent-agreement" => by["rent-request"] # {}
  /\ step \in Branch => by["rent-agreement"] # {}

JourneyInv(j, by, links) ==
  /\ AnswersInv(j.data, by, links)
  /\ j.completed \subseteq j.sent
  /\ \A step \in j.sent : InOrder(step, j.sent) /\ Agreed(step, by)

\* A request knows what it is, works from an honest copy of which everything completed was
\* sent, and sends a step whose turn it was.
RequestInv(r, j, by, links) ==
  /\ r.pc # "idle" => r.op \in {"send", "resend", "edit", "cancel", "decline", "resume"}
  /\ r.op \in {"send", "resend"} => r.step \in Workflow
  /\ AnswersInv(r.seen.data, by, links)
  /\ r.seen.completed \subseteq j.sent
  /\ r.op = "send" => InOrder(r.step, j.sent) /\ Agreed(r.step, by)

\* A click works from an honest copy, and a signature came from a link of the round it
\* will be recorded for, or of a later one.
ClickInv(k, by, links) ==
  /\ k.pc = "write" => k.answer \in {"confirm", "refuse", "sign", "decline"}
  /\ AnswersInv(k.seen, by, links)
  /\ k.pc = "write" /\ k.answer = "sign" =>
       /\ k.mail \in DOMAIN links["rent-agreement"]
       /\ links["rent-agreement"][k.mail] >= SignableGen(k.seen)

\* A run of the job that sends works from an honest copy of a journey handed over.
PassInv(k, j, by, links) ==
  /\ AnswersInv(k.seen.data, by, links)
  /\ k.seen.completed \subseteq j.sent
  /\ k.pc \in {"send", "write"} => InOrder(Reminder, j.sent)

HistoryInv == \A gate \in Gate : \A i \in DOMAIN mails[gate] : mails[gate][i] > 0

RentInv ==
  /\ TypeOK /\ HistoryInv
  /\ JourneyInv(journey, pressed, mails)
  /\ \A s \in Staff : RequestInv(request[s], journey, pressed, mails)
  /\ \A c \in Customer : ClickInv(click[c], pressed, mails)
  /\ \A p \in Job : PassInv(pass[p], journey, pressed, mails)

-----------------------------------------------------------------------------
(* The inductive invariant behind the console's two.                        *)

\* Every copy of dynamicData that is confirmed has a mode and is not refused as well, and
\* one that waits for the final offer belongs to a journey whose quote was sent.
Consistent(d, sent) ==
  /\ d.ack => d.mode # "none" /\ ~d.ackDeclined
  /\ d.pending => "rent-agreement" \in sent

\* what a request, a click or the job will write a mode or an offer from
ConsoleRequest(r, sent) ==
  /\ Consistent(r.seen.data, sent)
  /\ r.op \in {"send", "resend"} /\ r.step = "rent-agreement" => r.form.mode # "none"
  /\ r.op = "resume" => "rent-agreement" \in sent

ConsoleClick(k, sent) ==
  /\ Consistent(k.seen, sent)
  /\ k.answer = "confirm" => k.form.mode # "none"

ConsoleInv ==
  /\ Consistent(journey.data, journey.sent)
  /\ \A s \in Staff : ConsoleRequest(request[s], journey.sent)
  /\ \A c \in Customer : ConsoleClick(click[c], journey.sent)
  /\ \A p \in Job : Consistent(pass[p].seen.data, journey.sent)

-----------------------------------------------------------------------------
(* The inductive invariant behind OneReminder.                              *)

\* the runs that work under the claim
Holders == {p \in Job : pass[p].pc \in {"read", "send", "write", "release"}}

\* While nobody else wrote the claim it is set for the one run that holds it.  A reminder
\* no fault accounts for is recorded, or about to be by the run that sent it, and a run
\* about to send is not beside such a reminder.
ClaimInv ==
  ~clobbered =>
    /\ Holders # {} => journey.data.claim
    /\ \A p, q \in Holders : p = q
    /\ autos <= 1 + faults
    /\ autos > faults => \/ Reminder \in journey.sent
                        \/ \E p \in Job : pass[p].pc = "write"
    /\ \A p \in Job : pass[p].pc = "send" => autos <= faults

-----------------------------------------------------------------------------
\* The page says of a declined request "Update the request details below and resend with
\* fresh Confirm / Decline links, or cancel below": the service accepts that resend.
DeclinedRequestCanBeResent == OffersRequestResend(journey) => MayResend(journey, "rent-request")
=============================================================================
