-------------------------- MODULE SellRemindersProps --------------------------
(***************************************************************************)
(* What the reminders and the automatic closing of a sell request keep,     *)
(* and what their comments and messages promise that they do not.           *)
(***************************************************************************)
EXTENDS SellReminders

\* Pass p closes the journey in this step.
Closes(p) == pass[p].pc = "found" /\ CloseDue(pass[p]) /\ Closable(pass[p]) /\ pass'[p] = NoPass

\* The n-th reminder of a step, for one offer.
Nth(step, gen, n) == [step |-> step, gen |-> gen, number |-> n]

ClaimsNow(p) == Claims(p) /\ pass'[p].pc = "email"

\* However many passes overlap, no reminder is claimed for sending twice, as
\* long as no write puts an older value back: the old count after a failed email
\* over the claim of another pass, a claim on the count of an older offer, an
\* edit's copy of dynamicData, or an older offer generation.
ReminderClaimedOnce ==
  [][\A p \in Pass : ClaimsNow(p) /\ ~wentBack' => TheReminder(pass[p]) \notin claimed \ returned]_allVars

\* Nobody's journey is closed without the reminders announced for it: all three
\* of the offer the pass looked at, or the one of the request.
ClosedAfterReminders ==
  [][\A p \in Pass : Closes(p) /\ ~wentBack =>
       LET k == pass[p] IN
       \A n \in 1..(IF k.job = "no action" THEN 1 ELSE 3) :
         Nth(StepOf(k.job), k.gen, n) \in claimed]_allVars

\* With one staff request at a time, a reminder of an offer is claimed no
\* sooner than its threshold after the email of the offer it is about, even
\* when a new offer is sent while the pass is under way.
ReminderOnTime ==
  [][\A p \in Pass : ClaimsNow(p) /\ pass[p].job = "offer-ready" =>
       LET days == age["offer-ready"] IN
       days[Len(days)] >= REMINDER_THRESHOLDS[Number(pass[p])]]_allVars

-----------------------------------------------------------------------------
(* The inductive invariant behind the first two.                            *)

\* A pass goes on with a journey only when something is due, and sends a
\* reminder only after it has claimed it.
PassInv(k) ==
  /\ k.pc # "idle" => k.job \in Job
  /\ k.pc = "found" =>
       /\ CloseDue(k) \/ ReminderDue(k)
       /\ k.job = "request-received" => k.memory.count < 1
       /\ k.job = "no action" => k.memory.count >= 1
       /\ k.job # "offer-ready" => k.gen = 0
  /\ k.pc = "email" => k.job \in Reminded /\ TheReminder(k) \in claimed

\* What memory m of a step counts: reminders claimed for the offer it names.
CountedInv(step, m) ==
  /\ step # "offer-ready" => m.gen = 0
  /\ \A n \in 1..m.count : Nth(step, m.gen, n) \in claimed

\* Nothing beyond the count was claimed and not taken back, nor for an offer
\* after the one the count is about, which is not after the journey's.
LatestInv(step) ==
  /\ step = "offer-ready" => memory[step].gen <= journey.offerGen
  /\ \A r \in claimed \ returned : r.step = step =>
       \/ r.gen < memory[step].gen
       \/ r.gen = memory[step].gen /\ r.number <= memory[step].count

ClaimInv ==
  ~wentBack =>
    /\ \A step \in Reminded : CountedInv(step, memory[step]) /\ LatestInv(step)
    /\ \A p \in Pass : pass[p].pc = "found" => CountedInv(StepOf(pass[p].job), pass[p].memory)

ReminderInv == ReminderTypeOK /\ (\A p \in Pass : PassInv(pass[p])) /\ ClaimInv

(* The inductive invariant behind ReminderOnTime.                           *)

\* One staff request at a time: nothing moved the offer on under its request, so the
\* offer it records is a new one.
OfferedInv(r) ==
  r.pc # "idle" /\ r.op \in {"send", "resend"} /\ r.step = "offer-ready" =>
    /\ r.seen.offerGen = journey.offerGen
    /\ r.op = "resend" => "offer-ready" \in journey.sent

\* While the offer a pass looked at is the journey's, its email is as old as the pass
\* took it for.
AgedInv(k) ==
  LET days == age["offer-ready"] IN
  k.pc = "found" /\ k.job = "offer-ready" =>
    /\ k.gen <= journey.offerGen
    /\ k.gen = journey.offerGen => days # << >> /\ days[Len(days)] >= k.at

DateInv ==
  /\ journey.offerGen >= 0
  /\ \A s \in Staff : OfferedInv(request[s])
  /\ \A p \in Pass : AgedInv(pass[p])

-----------------------------------------------------------------------------
\* "Other steps: Reminder 1/2/3 at 24 h / 72 h / 144 h": a pickup email that is
\* not followed by anything for a day is followed by a reminder.
PickupIsReminded ==
  age["pickup-scheduled"] # << >> ~>
    \/ \E r \in claimed : r.step = "pickup-scheduled"
    \/ journey.status # "active" \/ ~exists
    \/ "inspection-underway" \in journey.completed
=============================================================================
