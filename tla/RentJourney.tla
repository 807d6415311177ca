----------------------------- MODULE RentJourney -----------------------------
(***************************************************************************)
(* One rental: the journey document, the staff requests that drive it, the  *)
(* customer who confirms the request and signs the quote by the links in    *)
(* the emails, and the hourly job that sends the return reminder.  Unlike a *)
(* sell journey, the generations of the links live inside dynamicData, and  *)
(* most writers replace dynamicData as a whole by the copy they read.       *)
(***************************************************************************)
EXTENDS Integers, Sequences, FiniteSets

CONSTANTS
  Steps,        \* the steps this instance goes as far as sending
  Resends,      \* the steps it sends again
  Staff,        \* staff requests that can be in flight at the same time
  Customer,     \* clicks of the customer that can be in flight at the same time
  Job,          \* runs of the hourly job that can overlap
  Ops,          \* what the staff of this instance do
  Answers,      \* the answers its customer gives
  Modes,        \* the fulfilment modes chosen: pickup, delivery
  Days,         \* the return dates chosen, as days from today
  MaxRequests,  \* bound: rounds of rent-request
  MaxQuotes,    \* bound: rounds of rent-agreement
  MaxMails,     \* bound: emails with links of one kind
  MaxDay,       \* bound: days that pass
  MaxReminders, \* bound: reminders the job sends before it stops looking for the journey
  MaxFaults     \* bound: writes that fail or processes that die

ASSUME ConstantAssumption ==
  /\ Ops \subseteq {"send", "resend", "edit", "cancel", "decline", "resume"}
  /\ Answers \subseteq {"confirm", "refuse", "sign", "decline"}
  /\ Modes \subseteq {"pickup", "delivery"}
  /\ Days \subseteq Nat \ {0}
  /\ {MaxRequests, MaxQuotes, MaxMails, MaxDay, MaxReminders, MaxFaults} \subseteq Nat

RENT_JOURNEY_WORKFLOW_STEPS ==
  <<"rent-request", "rent-agreement", "rent-ready-pickup", "rent-dispatched", "rent-handover",
    "rent-return-reminder", "rent-return-received", "rent-closed">>

Workflow == {RENT_JOURNEY_WORKFLOW_STEPS[i] : i \in DOMAIN RENT_JOURNEY_WORKFLOW_STEPS}
Status   == {"active", "completed", "cancelled"}
Mode     == {"none", "pickup", "delivery"}

\* the steps whose emails carry links for the customer's answer
Gate == {"rent-request", "rent-agreement"}

ASSUME StepsAssumption == Steps \subseteq Workflow /\ Resends \subseteq Workflow

VARIABLES
  journey,  \* the document
  request,  \* the staff requests in flight
  click,    \* the customer's clicks in flight
  pass,     \* the runs of the hourly job, while they work on this journey
  today,    \* days that have passed
  mails,    \* history: the generations in the links of the emails sent so far
  pressed,  \* history: the emails (by position) whose confirm or sign link took effect
  autos,    \* history: return reminders sent by the job
  clobbered,   \* history: a write of a whole dynamicData changed the claim of the job
  faults

vars == <<journey, request, click, pass, today, mails, pressed, autos, clobbered, faults>>

Unset == 0   \* a generation or a date that is not there: Number(x ?? 0)

\* dynamicData, as far as the code of the journey looks at it
NewData ==
  [ackGen |-> Unset, ack |-> FALSE, ackOf |-> Unset, ackDeclined |-> FALSE, ackDeclinedOf |-> Unset,
   mode |-> "none", end |-> Unset, due |-> Unset, iso |-> Unset,
   gen |-> Unset, signed |-> FALSE, signedOf |-> Unset, declined |-> FALSE, declinedOf |-> Unset,
   final |-> FALSE, closed |-> FALSE, pending |-> FALSE, locked |-> FALSE, claim |-> FALSE]

NewJourney ==
  [status |-> "active", current |-> "rent-request", completed |-> {}, sent |-> {}, data |-> NewData]

Data ==
  [ackGen : Nat, ack : BOOLEAN, ackOf : Nat, ackDeclined : BOOLEAN, ackDeclinedOf : Nat,
   mode : Mode, end : Nat, due : Nat, iso : Nat,
   gen : Nat, signed : BOOLEAN, signedOf : Nat, declined : BOOLEAN, declinedOf : Nat,
   final : BOOLEAN, closed : BOOLEAN, pending : BOOLEAN, locked : BOOLEAN, claim : BOOLEAN]

Journey == [status : Status, current : Workflow, completed : SUBSET Workflow,
            sent : SUBSET Workflow, data : Data]

\* what staff fill in: the mode, the return date, and whether the quote is the final offer
NoForm == [mode |-> "none", day |-> Unset, final |-> "as is"]
Form   == [mode : Mode, day : Nat, final : {"as is", "revised", "final"}]

NoRequest == [pc |-> "idle", op |-> "none", step |-> "none", form |-> NoForm, seen |-> NewJourney]
NoClick   == [pc |-> "idle", answer |-> "none", mail |-> 0, form |-> NoForm, seen |-> NewData]
NoPass    == [pc |-> "idle", seen |-> NewJourney]

TypeOK ==
  /\ journey \in Journey
  /\ request \in [Staff -> [pc : {"idle", "send", "write"}, op : Ops \cup {"none"},
                            step : Workflow \cup {"none"}, form : Form, seen : Journey]]
  /\ click \in [Customer -> [pc : {"idle", "write"}, answer : Answers \cup {"none"},
                             mail : Nat, form : Form, seen : Data]]
  /\ pass \in [Job -> [pc : {"idle", "claim", "read", "send", "write", "release"}, seen : Journey]]
  /\ mails \in [Gate -> Seq(Nat)]
  /\ pressed \in [Gate -> SUBSET Nat]
  /\ {today, autos, faults} \subseteq Nat
  /\ clobbered \in BOOLEAN

Init ==
  /\ journey = NewJourney
  /\ request = [s \in Staff |-> NoRequest]
  /\ click = [c \in Customer |-> NoClick]
  /\ pass = [p \in Job |-> NoPass]
  /\ today = 0
  /\ mails = [g \in Gate |-> << >>]
  /\ pressed = [g \in Gate |-> {}]
  /\ autos = 0
  /\ clobbered = FALSE
  /\ faults = 0

-----------------------------------------------------------------------------
(* What the document says of the quote and of the steps.                    *)

rentAgreementDeclinedPendingResend(d) ==
  /\ ~d.closed /\ ~d.pending
  /\ d.declined /\ d.gen > 0
  /\ d.declinedOf = d.gen /\ d.signedOf # d.gen

\* mutant: a quote that is not declined counts as accepted
NotDeclined(d) == ~rentAgreementDeclinedPendingResend(d)

isRentAgreementAccepted(d) ==
  /\ d.signed
  /\ ~rentAgreementDeclinedPendingResend(d)
  /\ d.gen > 0 /\ d.signedOf > 0 => d.signedOf = d.gen

getApplicableSteps(d) ==
  Workflow \ CASE d.mode = "pickup"   -> {"rent-dispatched"}
               [] d.mode = "delivery" -> {"rent-ready-pickup"}
               [] OTHER               -> {}

Index(step) == CHOOSE i \in DOMAIN RENT_JOURNEY_WORKFLOW_STEPS : RENT_JOURNEY_WORKFLOW_STEPS[i] = step

Before(step) == {t \in Workflow : Index(t) < Index(step)}

Open(completed, d) == getApplicableSteps(d) \ completed

getNextStep(completed, d) ==
  CHOOSE t \in Open(completed, d) : Before(t) \cap Open(completed, d) = {}

\* mutant: a declined quote blocks its own resend
BlocksQuote(j, step) ==
  /\ step = "rent-agreement" => j.data.ack /\ ~j.data.ackDeclined
  /\ "rent-agreement" \in j.completed => ~rentAgreementDeclinedPendingResend(j.data)

assertStepPreconditions(j, step) ==
  LET d == j.data IN
  /\ step = "rent-agreement" => d.ack /\ ~d.ackDeclined
  /\ step # "rent-agreement" /\ "rent-agreement" \in j.completed
       => ~rentAgreementDeclinedPendingResend(d)
  /\ step = "rent-ready-pickup" => d.mode = "pickup" /\ isRentAgreementAccepted(d)
  /\ step = "rent-dispatched" => d.mode = "delivery" /\ isRentAgreementAccepted(d)

\* mutant: the steps before it are not looked at
InTurnAnyTime(j, step) == step \in getApplicableSteps(j.data)

\* the next step of the branch, or an earlier one of it
InTurn(j, step) ==
  /\ step \in getApplicableSteps(j.data)
  /\ Before(step) \cap Open(j.completed, j.data) = {}

sendNext(j, step) == j.status # "completed" /\ step \notin j.completed /\ InTurn(j, step)

sendStep(j, step) == step \notin j.sent /\ InTurn(j, step)

MaySend(j, step) ==
  (sendNext(j, step) \/ sendStep(j, step)) /\ assertStepPreconditions(j, step)

MayResend(j, step) == step \in j.sent /\ assertStepPreconditions(j, step)

\* the date the scheduler goes by, and the one the lists go by
resolveReturnDueRaw(d) == IF d.due # Unset THEN d.due ELSE d.end

resolveRentReturnDueRaw(d) == IF d.iso # Unset THEN d.iso ELSE resolveReturnDueRaw(d)

applyRentReturnDueFields(d) == [d EXCEPT !.iso = resolveRentReturnDueRaw(d)]

-----------------------------------------------------------------------------
(* What one email does to the document.                                     *)

\* the generation the links of the next email will carry
NextGeneration(d, step) == 1 + IF step = "rent-agreement" THEN d.gen ELSE d.ackGen

\* the fields of the staff's form, as the console builds them for each step
Filled(d, step, form) ==
  CASE step = "rent-agreement" -> [d EXCEPT !.mode = form.mode, !.end = form.day, !.due = form.day]
    [] step \in {"rent-handover", "rent-return-reminder"} /\ form.day # Unset ->
         [d EXCEPT !.due = form.day]
    [] OTHER -> d

SentData(d, step, form) ==
  CASE step = "rent-request"   -> [d EXCEPT !.ackGen = NextGeneration(d, step)]
    [] step = "rent-agreement" ->
         applyRentReturnDueFields([Filled(d, step, form) EXCEPT !.gen = NextGeneration(d, step)])
    [] OTHER                   -> applyRentReturnDueFields(Filled(d, step, form))

\* the first send of a step: everything but sentSteps is written from the copy read
Sent(j, seen, step, form) ==
  LET newCompleted == seen.completed \cup {step}
      dyn == Filled(seen.data, step, form)
      open == Open(newCompleted, dyn)
  IN  [j EXCEPT !.sent = @ \cup {step},
                !.completed = newCompleted,
                !.current = IF open = {} THEN step ELSE getNextStep(newCompleted, dyn),
                !.status = IF open = {} THEN "completed" ELSE "active",
                !.data = SentData(seen.data, step, form)]

\* a resend sets fields one by one; an email with links opens a new round and
\* forgets the answer, and with it what the customer chose
Resent(j, seen, step, form) ==
  LET filled == Filled(j.data, step, form) IN
  IF step \notin j.sent THEN j
  ELSE CASE step = "rent-request" ->
              [j EXCEPT !.current = "rent-request",
                        !.data = [filled EXCEPT !.ackGen = NextGeneration(seen.data, step),
                          !.ack = FALSE, !.ackOf = Unset, !.ackDeclined = FALSE,
                          !.ackDeclinedOf = Unset, !.mode = "none", !.end = Unset]]
         [] step = "rent-agreement" ->
              [j EXCEPT !.current = "rent-agreement",
                        !.data = [filled EXCEPT !.gen = NextGeneration(seen.data, step),
                          !.signed = FALSE, !.signedOf = Unset, !.declined = FALSE,
                          !.declinedOf = Unset, !.pending = FALSE,
                          !.final = IF form.final = "as is" THEN @ ELSE form.final = "final"]]
         [] OTHER -> [j EXCEPT !.data = filled]

-----------------------------------------------------------------------------
(* Staff requests.                                                          *)

\* what the handler still uses of the document once it has checked it
Kept(op, j) ==
  CASE op = "send"   -> [NewJourney EXCEPT !.completed = j.completed, !.data = j.data]
    [] op = "resend" -> [NewJourney EXCEPT !.data.gen = j.data.gen, !.data.ackGen = j.data.ackGen]
    [] op \in {"edit", "resume"} -> [NewJourney EXCEPT !.data = j.data]
    [] op = "decline" -> [NewJourney EXCEPT !.data.ackGen = j.data.ackGen]
    [] OTHER -> NewJourney

Begin(s, op, step, form, pc) ==
  /\ op \in Ops
  /\ request[s].pc = "idle"
  /\ step = "rent-request" => journey.data.ackGen < MaxRequests
  /\ step = "rent-agreement" => journey.data.gen < MaxQuotes
  /\ request' = [request EXCEPT ![s] =
       [pc |-> pc, op |-> op, step |-> step, form |-> form, seen |-> Kept(op, journey)]]
  /\ UNCHANGED <<journey, click, pass, today, mails, pressed, autos, clobbered, faults>>

\* the forms of the console: a mode and dates for the quote, a due date after it
Forms(step) ==
  CASE step = "rent-agreement" -> [mode : Modes, day : Days, final : {"as is"}]
    [] step \in {"rent-handover", "rent-return-reminder"} ->
         [mode : {"none"}, day : Days, final : {"as is"}]
    [] OTHER                   -> {NoForm}

\* findById and the checks of each handler; a request that fails them changes nothing
ReadSend(s, step) ==
  /\ MaySend(journey, step)
  /\ \E form \in Forms(step) : Begin(s, "send", step, form, "send")

\* a declined or a resumed quote is resent as a revised or as the final offer; once
\* resumed, or once it was the final offer and nothing else is said, as the final one
FinalChoices(d) ==
  IF d.locked THEN {"final"}
  ELSE IF rentAgreementDeclinedPendingResend(d) THEN {"revised", "final"}
  ELSE IF d.pending \/ d.final THEN {"final"} ELSE {"as is"}

ReadResend(s, step) ==
  /\ MayResend(journey, step)
  /\ \E form \in Forms(step), choice \in FinalChoices(journey.data) :
       Begin(s, "resend", step,
             [form EXCEPT !.final = IF step = "rent-agreement" THEN choice ELSE @], "send")

\* EditableField: one field of dynamicData is merged into the copy read
ReadEdit(s) ==
  \E day \in Days \cup {Unset} :
    Begin(s, "edit", "none", [NoForm EXCEPT !.day = day], "write")

ReadCancel(s) ==
  journey.status = "active" /\ Begin(s, "cancel", "none", NoForm, "write")

ReadDecline(s) ==
  /\ "rent-request" \in journey.completed
  /\ journey.status = "active"
  /\ Begin(s, "decline", "none", NoForm, "write")

ReadResume(s) ==
  /\ journey.status = "cancelled"
  /\ journey.data.closed
  /\ "rent-agreement" \in journey.completed
  /\ Begin(s, "resume", "none", NoForm, "write")

Emailed(step, d) ==
  IF step \in Gate THEN [mails EXCEPT ![step] = Append(@, NextGeneration(d, step))] ELSE mails

\* the email leaves, by the queue or directly, before the document is written
SendEmail(s) ==
  LET r == request[s] IN
  /\ r.pc = "send"
  /\ r.step \in Gate => Len(mails[r.step]) < MaxMails
  /\ mails' = Emailed(r.step, r.seen.data)
  /\ request' = [request EXCEPT ![s].pc = "write"]
  /\ UNCHANGED <<journey, click, pass, today, pressed, autos, clobbered, faults>>

\* every provider refuses: the handler throws before it writes anything
EmailFails(s) ==
  /\ request[s].pc = "send"
  /\ request' = [request EXCEPT ![s] = NoRequest]
  /\ UNCHANGED <<journey, click, pass, today, mails, pressed, autos, clobbered, faults>>

Edited(j, r) ==
  [j EXCEPT !.data = applyRentReturnDueFields(
     [r.seen.data EXCEPT !.due = IF r.form.day # Unset THEN r.form.day ELSE @])]

RequestDeclined(j, r) ==
  [j EXCEPT !.current = "rent-request", !.data.ackDeclined = TRUE,
            !.data.ackDeclinedOf = IF r.seen.data.ackGen = Unset THEN 1 ELSE r.seen.data.ackGen,
            !.data.ack = FALSE, !.data.ackOf = Unset]

Resumed(j, r) ==
  [j EXCEPT !.status = "active", !.current = "rent-agreement",
            !.data = [r.seen.data EXCEPT !.closed = FALSE, !.pending = TRUE, !.locked = TRUE,
                        !.final = TRUE, !.declined = FALSE, !.declinedOf = Unset]]

Write(j, r) ==
  CASE r.op = "send"    -> Sent(j, r.seen, r.step, r.form)
    [] r.op = "resend"  -> Resent(j, r.seen, r.step, r.form)
    [] r.op = "edit"    -> Edited(j, r)
    [] r.op = "cancel"  -> [j EXCEPT !.status = "cancelled"]
    [] r.op = "decline" -> RequestDeclined(j, r)
    [] r.op = "resume"  -> Resumed(j, r)

NoteClaim == clobbered' = (clobbered \/ journey'.data.claim # journey.data.claim)

\* journeyModel.updateOne
WriteJourney(s) ==
  /\ request[s].pc = "write"
  /\ journey' = Write(journey, request[s])
  /\ NoteClaim
  /\ request' = [request EXCEPT ![s] = NoRequest]
  /\ UNCHANGED <<click, pass, today, mails, pressed, autos, faults>>

\* the process dies, or the database call fails, after the email has left
WriteLost(s) ==
  /\ request[s].pc = "write"
  /\ faults < MaxFaults
  /\ faults' = faults + 1
  /\ request' = [request EXCEPT ![s] = NoRequest]
  /\ UNCHANGED <<journey, click, pass, today, mails, pressed, autos, clobbered>>

-----------------------------------------------------------------------------
(* The customer's answers: no filter, and dynamicData written as a whole.   *)

\* mutant: the links of earlier emails still count
UpToDateOrOlder(jGen, tGen) == jGen > 0 => tGen <= jGen

\* the generation in the link is the journey's
UpToDate(jGen, tGen) == jGen > 0 => tGen = jGen

Click(c, answer, gate, mail, form) ==
  LET jGen == IF gate = "rent-agreement" THEN journey.data.gen ELSE journey.data.ackGen IN
  /\ answer \in Answers
  /\ click[c].pc = "idle"
  /\ mail \in DOMAIN mails[gate]
  /\ UpToDate(jGen, mails[gate][mail])
  /\ click' = [click EXCEPT ![c] =
       [pc |-> "write", answer |-> answer, mail |-> mail, form |-> form, seen |-> journey.data]]
  /\ UNCHANGED <<journey, request, pass, today, mails, pressed, autos, clobbered, faults>>

alreadyConfirmed(d) == d.ack /\ d.ackOf > 0 /\ d.ackOf = d.ackGen

isDeclinedForGen(d) == d.ackDeclined /\ d.ackDeclinedOf > 0 /\ d.ackDeclinedOf = d.ackGen

isAgreementDeclinedForGen(d, jGen) == d.declined /\ d.declinedOf > 0 /\ d.declinedOf = jGen

\* a quote without a generation counts as the first
SignableGen(d) == IF d.gen > 0 THEN d.gen ELSE 1

ReadConfirm(c, mail) ==
  /\ ~alreadyConfirmed(journey.data) /\ ~isDeclinedForGen(journey.data)
  /\ \E mode \in Modes, day \in Days :
       Click(c, "confirm", "rent-request", mail, [mode |-> mode, day |-> day, final |-> "as is"])

ReadRefuse(c, mail) ==
  ~isDeclinedForGen(journey.data) /\ Click(c, "refuse", "rent-request", mail, NoForm)

ReadSign(c, mail) ==
  /\ ~isRentAgreementAccepted(journey.data)
  /\ ~isAgreementDeclinedForGen(journey.data, SignableGen(journey.data))
  /\ Click(c, "sign", "rent-agreement", mail, NoForm)

ReadQuoteDecline(c, mail) ==
  /\ ~isRentAgreementAccepted(journey.data)
  /\ ~isAgreementDeclinedForGen(journey.data, journey.data.gen)
  /\ Click(c, "decline", "rent-agreement", mail, NoForm)

\* mutant: the status of the other verticals, which a rental does not have
QuoteDeclinedStatus(j, k) ==
  [j EXCEPT !.status = IF k.seen.final THEN "quote_declined" ELSE @,
            !.data = [k.seen EXCEPT !.declined = TRUE, !.declinedOf = k.seen.gen]]

QuoteDeclined(j, k) ==
  LET declined == [k.seen EXCEPT !.declined = TRUE, !.declinedOf = k.seen.gen,
                                 !.signed = FALSE, !.signedOf = Unset]
  IN  IF k.seen.final
      THEN [j EXCEPT !.status = "cancelled", !.current = "rent-agreement",
                     !.data = [declined EXCEPT !.closed = TRUE, !.pending = FALSE, !.locked = FALSE]]
      ELSE [j EXCEPT !.current = "rent-agreement", !.data = declined]

Answered(j, k) ==
  CASE k.answer = "confirm" ->
         [j EXCEPT !.current = "rent-agreement",
                   !.data = applyRentReturnDueFields(
                     [k.seen EXCEPT !.ack = TRUE, !.ackOf = k.seen.ackGen, !.ackDeclined = FALSE,
                                    !.mode = k.form.mode, !.end = k.form.day])]
    [] k.answer = "refuse" ->
         [j EXCEPT !.current = "rent-request",
                   !.data = [k.seen EXCEPT !.ack = FALSE, !.ackOf = Unset, !.ackDeclined = TRUE,
                                           !.ackDeclinedOf = k.seen.ackGen]]
    [] k.answer = "sign" ->
         [j EXCEPT !.data = [k.seen EXCEPT !.signed = TRUE, !.signedOf = SignableGen(k.seen),
                               !.gen = SignableGen(k.seen), !.declined = FALSE,
                               !.declinedOf = Unset]]
    [] k.answer = "decline" -> QuoteDeclined(j, k)

WriteAnswer(c) ==
  LET k == click[c] IN
  /\ k.pc = "write"
  /\ journey' = Answered(journey, k)
  /\ NoteClaim
  /\ pressed' = CASE k.answer = "confirm" -> [pressed EXCEPT !["rent-request"] = @ \cup {k.mail}]
                   [] k.answer = "sign"    -> [pressed EXCEPT !["rent-agreement"] = @ \cup {k.mail}]
                   [] OTHER                -> pressed
  /\ click' = [click EXCEPT ![c] = NoClick]
  /\ UNCHANGED <<request, pass, today, mails, autos, faults>>

-----------------------------------------------------------------------------
(* autoReturnReminder and sendReturnReminderAuto.                           *)

Reminder == "rent-return-reminder"

\* the reminder leaves a day before the return date
isReturnReminderDue(d) == resolveReturnDueRaw(d) # Unset /\ today + 1 >= resolveReturnDueRaw(d)

PassTo(p, pc, seen) ==
  /\ pass' = [pass EXCEPT ![p] = [pc |-> pc, seen |-> seen]]
  /\ UNCHANGED <<request, click, today, mails, pressed>>

PassFinds(p) ==
  /\ autos < MaxReminders
  /\ pass[p].pc = "idle"
  /\ journey.status = "active"
  /\ journey.current = Reminder
  /\ "rent-handover" \in journey.completed
  /\ Reminder \notin journey.completed \cup journey.sent
  /\ isReturnReminderDue(journey.data)
  /\ PassTo(p, "claim", NewJourney)
  /\ UNCHANGED <<journey, autos, clobbered, faults>>

\* mutant: the claim is not looked at before it is set
ClaimableTwice(j) == Reminder \notin j.completed

\* the filter of the claim
Claimable(j) == Reminder \notin j.completed /\ ~j.data.claim

PassClaims(p) ==
  /\ pass[p].pc = "claim"
  /\ IF Claimable(journey)
     THEN journey' = [journey EXCEPT !.data.claim = TRUE] /\ PassTo(p, "read", NewJourney)
     ELSE PassTo(p, "idle", NewJourney) /\ UNCHANGED journey
  /\ UNCHANGED <<autos, clobbered, faults>>

\* the early returns keep the claim, a failed precondition throws and gives it back
PassReads(p) ==
  /\ pass[p].pc = "read"
  /\ IF \/ journey.status # "active"
        \/ Reminder \in journey.completed \cup journey.sent
        \/ "rent-handover" \notin journey.completed
     THEN PassTo(p, "idle", NewJourney)
     ELSE IF assertStepPreconditions(journey, Reminder)
     THEN PassTo(p, "send", Kept("send", journey))
     ELSE PassTo(p, "release", NewJourney)
  /\ UNCHANGED <<journey, autos, clobbered, faults>>

PassSends(p) ==
  /\ pass[p].pc = "send"
  /\ autos' = autos + 1
  /\ PassTo(p, "write", pass[p].seen)
  /\ UNCHANGED <<journey, clobbered, faults>>

PassEmailFails(p) ==
  /\ pass[p].pc = "send"
  /\ PassTo(p, "release", NewJourney)
  /\ UNCHANGED <<journey, autos, clobbered, faults>>

PassWrites(p) ==
  /\ pass[p].pc = "write"
  /\ journey' = Sent(journey, pass[p].seen, Reminder, NoForm)
  /\ NoteClaim
  /\ PassTo(p, "release", NewJourney)
  /\ UNCHANGED <<autos, faults>>

\* mutant: the claim is kept although no reminder was sent
PassReleasesKept(p) ==
  /\ pass[p].pc = "release"
  /\ PassTo(p, "idle", NewJourney)
  /\ UNCHANGED <<journey, autos, clobbered, faults>>

PassReleases(p) ==
  /\ pass[p].pc = "release"
  /\ journey' = [journey EXCEPT !.data.claim = FALSE]
  /\ PassTo(p, "idle", NewJourney)
  /\ UNCHANGED <<autos, clobbered, faults>>

\* the database refuses a write, which the job catches, or the process dies
PassFaults(p) ==
  /\ pass[p].pc \in {"read", "send", "write", "release"}
  /\ faults < MaxFaults
  /\ faults' = faults + 1
  /\ \/ pass[p].pc = "write" /\ PassTo(p, "release", NewJourney)
     \/ PassTo(p, "idle", NewJourney)
  /\ UNCHANGED <<journey, autos, clobbered>>

NextDay ==
  /\ today < MaxDay
  /\ today' = today + 1
  /\ UNCHANGED <<journey, request, click, pass, mails, pressed, autos, clobbered, faults>>

-----------------------------------------------------------------------------
StaffStep(s) ==
  \/ \E step \in Steps : ReadSend(s, step)
  \/ \E step \in Resends : ReadResend(s, step)
  \/ ReadEdit(s) \/ ReadCancel(s) \/ ReadDecline(s) \/ ReadResume(s)
  \/ SendEmail(s) \/ EmailFails(s) \/ WriteJourney(s) \/ WriteLost(s)

ReadAnswer(c) ==
  \E mail \in 1..MaxMails :
    ReadConfirm(c, mail) \/ ReadRefuse(c, mail) \/ ReadSign(c, mail) \/ ReadQuoteDecline(c, mail)

CustomerStep(c) == ReadAnswer(c) \/ WriteAnswer(c)

JobStep(p) ==
  \/ PassFinds(p) \/ PassClaims(p) \/ PassReads(p) \/ PassSends(p) \/ PassEmailFails(p)
  \/ PassWrites(p) \/ PassReleases(p) \/ PassFaults(p)

Next ==
  \/ \E s \in Staff : StaffStep(s)
  \/ \E c \in Customer : CustomerStep(c)
  \/ \E p \in Job : JobStep(p)
  \/ NextDay

Spec == Init /\ [][Next]_vars

\* the hourly job keeps running and days pass; a provider that refuses now and then
\* does not refuse every time
FairSpec ==
  /\ Spec
  /\ WF_vars(NextDay)
  /\ \A p \in Job :
       /\ WF_vars(PassFinds(p)) /\ WF_vars(PassClaims(p)) /\ WF_vars(PassReads(p))
       /\ WF_vars(PassWrites(p)) /\ WF_vars(PassReleases(p))
       /\ WF_vars(PassSends(p) \/ PassEmailFails(p)) /\ SF_vars(PassSends(p))
=============================================================================
