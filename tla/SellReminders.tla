---------------------------- MODULE SellReminders ----------------------------
(***************************************************************************)
(* The hourly jobs that remind the customer of a sell request and close it  *)
(* when nobody answers, beside the staff requests and the clicks of         *)
(* SellJourney.  A pass of a job reads the journeys it may concern, decides *)
(* on that copy, claims a reminder by a filtered write, sends the email and *)
(* takes the claim back when the email fails.  Two passes can overlap: a    *)
(* job may last longer than an hour, or run in two processes.  Dates are    *)
(* kept as ages, in days of 24 hours; every threshold is a number of days.  *)
(***************************************************************************)
EXTENDS SellJourney

CONSTANTS
  Pass,          \* passes that can be under way at the same time
  MaxPassFaults  \* bound: reminders that fail

ASSUME PassAssumption == MaxPassFaults \in Nat

REQUEST_RECEIVED_REMINDER      == 1
REQUEST_RECEIVED_MAX_REMINDERS == 1
NO_ACTION_CLOSE_AFTER_REMINDER == 1
REMINDER_THRESHOLDS            == <<1, 3, 6>>
AUTO_CLOSE_THRESHOLD           == 7

VARIABLES
  age,       \* sentSteps: how old the entries of each step are
  memory,    \* dynamicData: what the scheduler keeps of each step
  kept,      \* the memory in the dynamicData a staff request will write back
  pass,      \* the passes under way
  claimed,   \* history: reminders claimed
  returned,  \* history: of these, the ones whose claim was taken back last
  wentBack   \* history: some write put an older value back over a newer one

sellVars == <<exists, request, click, pressed>>
allVars == <<vars, age, memory, kept, pass, claimed, returned, wentBack>>

Reminded == {"request-received", "pickup-scheduled", "offer-ready"}

Job == Reminded \cup {"no action"}

\* the step a job looks at
StepOf(job) == IF job = "no action" THEN "request-received" ELSE job

\* xxReminderCount, orReminderGen, rrReminderSentAt, xxAutoClosedAt
NewMemory == [count |-> Unset, gen |-> 0, at |-> Unset, closed |-> FALSE]

NoPass == [pc |-> "idle", job |-> "none", gen |-> 0, at |-> 0, memory |-> NewMemory]

Memory == [count : {Unset} \cup 0..3, gen : Int, at : Int, closed : BOOLEAN]
Reminder == [step : Reminded, gen : Int, number : 1..3]

ReminderTypeOK ==
  /\ TypeOK
  /\ age \in [Reminded -> Seq(Nat)]
  /\ memory \in [Reminded -> Memory]
  /\ kept \in [Staff -> [Reminded -> Memory]]
  /\ pass \in [Pass -> [pc : {"idle", "found", "email"}, job : Job \cup {"none"},
                        gen : Int, at : Nat, memory : Memory]]
  /\ claimed \subseteq Reminder /\ returned \subseteq claimed
  /\ wentBack \in BOOLEAN

ReminderInit ==
  /\ Init
  /\ age = [step \in Reminded |-> << >>]
  /\ memory = [step \in Reminded |-> NewMemory]
  /\ kept = [s \in Staff |-> memory]
  /\ pass = [p \in Pass |-> NoPass]
  /\ claimed = {} /\ returned = {}
  /\ wentBack = FALSE

-----------------------------------------------------------------------------
(* One pass over the journey.                                               *)

Active(step) == exists /\ journey.status = "active" /\ journey.current = step

MayNeedAction(step) ==
  step \in journey.completed /\ (memory[step].count < 3 \/ ~memory[step].closed)

\* the query of each job
Matches(job) ==
  /\ Active(StepOf(job))
  /\ CASE job = "request-received" ->
            /\ "request-received" \in journey.completed
            /\ ~journey.data.ack
            /\ memory[job].count < REQUEST_RECEIVED_MAX_REMINDERS
       [] job = "no action" ->
            /\ ~journey.data.ack
            /\ memory["request-received"].count >= REQUEST_RECEIVED_MAX_REMINDERS
            /\ memory["request-received"].at # Unset
            /\ ~memory["request-received"].closed
       [] job = "pickup-scheduled" -> MayNeedAction(job)
       [] job = "offer-ready"      -> MayNeedAction(job) /\ ~journey.data.accepted

\* mutant: a new offer does not start a new count
CountNoReset(k) == IF k.memory.count = Unset THEN 0 ELSE k.memory.count

\* reminderCount; that of another offer does not count
Count(k) ==
  IF k.memory.count = Unset \/ (k.job = "offer-ready" /\ k.memory.gen # k.gen)
  THEN 0 ELSE k.memory.count

CloseDue(k) ==
  CASE k.job = "no action" -> k.memory.at >= NO_ACTION_CLOSE_AFTER_REMINDER
    [] k.job = "request-received" -> FALSE
    [] OTHER -> Count(k) >= 3 /\ k.at >= AUTO_CLOSE_THRESHOLD /\ ~k.memory.closed

\* whichReminderDue
ReminderDue(k) ==
  CASE k.job = "no action" -> FALSE
    [] k.job = "request-received" -> k.at >= REQUEST_RECEIVED_REMINDER
    [] OTHER -> Count(k) < 3 /\ k.at >= REMINDER_THRESHOLDS[Count(k) + 1]

\* stepSentAt: the last entry of the step, though a resend updates the first
Copy(job) ==
  LET step == StepOf(job) IN
  [pc |-> "found", job |-> job, memory |-> memory[step],
   gen |-> IF job = "offer-ready" THEN journey.offerGen ELSE 0,
   at |-> age[step][Len(age[step])]]

\* a copy of which nothing is due is left alone at once
Find(p, job) ==
  /\ pass[p].pc = "idle"
  /\ Matches(job)
  /\ age[StepOf(job)] # << >>
  /\ CloseDue(Copy(job)) \/ ReminderDue(Copy(job))
  /\ pass' = [pass EXCEPT ![p] = Copy(job)]
  /\ UNCHANGED <<vars, age, memory, kept, claimed, returned, wentBack>>

\* mutant: the filter does not name the offer
ClaimableAnyOffer(k) == exists /\ memory[k.job].count = k.memory.count

\* mutant: the filter does not name the count
ClaimableAnyCount(k) == exists /\ (k.job = "offer-ready" => journey.offerGen = k.gen)

\* the filter of the write that claims a reminder
Claimable(k) ==
  /\ exists
  /\ memory[k.job].count = k.memory.count
  /\ k.job = "offer-ready" => journey.offerGen = k.gen

Number(k) == Count(k) + 1

TheReminder(k) ==
  [step |-> k.job, gen |-> IF k.job = "offer-ready" THEN k.gen ELSE 0, number |-> Number(k)]

Claims(p) ==
  pass[p].pc = "found" /\ ~CloseDue(pass[p]) /\ Claimable(pass[p])

Claim(p) ==
  LET k == pass[p]
      m == memory[k.job]
  IN
  /\ Claims(p)
  /\ memory' = [memory EXCEPT ![k.job] =
       [m EXCEPT !.count = Number(k),
                 !.gen = IF k.job = "offer-ready" THEN k.gen ELSE m.gen,
                 !.at = IF k.job = "request-received" THEN 0 ELSE m.at]]
  /\ pass' = [pass EXCEPT ![p].pc = "email"]
  /\ claimed' = claimed \cup {TheReminder(k)}
  /\ returned' = returned \ {TheReminder(k)}
  /\ wentBack' = (wentBack \/ m.gen # k.memory.gen)
  /\ UNCHANGED <<vars, age, kept>>

\* modifiedCount is 0: another pass was faster, or there is a new offer
ClaimRefused(p) ==
  /\ pass[p].pc = "found" /\ ~CloseDue(pass[p])
  /\ ~Claimable(pass[p])
  /\ pass' = [pass EXCEPT ![p] = NoPass]
  /\ UNCHANGED <<vars, age, memory, kept, claimed, returned, wentBack>>

\* the links of a reminder carry the generation of the copy, whose email the
\* customer has: nothing of "mails" changes
\* A process that dies with the pass leaves the same behind, and no email.
SendReminder(p) ==
  /\ pass[p].pc = "email"
  /\ pass' = [pass EXCEPT ![p] = NoPass]
  /\ UNCHANGED <<vars, age, memory, kept, claimed, returned, wentBack>>

\* the email fails; the old count is written back without a filter
ReminderFails(p) ==
  LET k == pass[p]
      mine == memory[k.job].count = Number(k) /\ (k.job = "offer-ready" => memory[k.job].gen = k.gen)
  IN
  /\ k.pc = "email"
  /\ faults < MaxPassFaults
  /\ faults' = faults + 1
  /\ wentBack' = (wentBack \/ ~mine)
  /\ memory' = IF exists THEN [memory EXCEPT ![k.job].count = Count(k)] ELSE memory
  /\ returned' = IF mine THEN returned \cup {TheReminder(k)} ELSE returned
  /\ pass' = [pass EXCEPT ![p] = NoPass]
  /\ UNCHANGED <<journey, sellVars, mails, age, kept, claimed>>

\* mutant: a status the schema does not have
ClosedStatusAuto(job) == "auto_closed"

ClosedStatus(job) ==
  CASE job = "no action"        -> "no_customer_action"
    [] job = "pickup-scheduled" -> "cancelled"
    [] job = "offer-ready"      -> "offer_declined"

Closable(k) == exists /\ journey.status = "active" /\ ~memory[StepOf(k.job)].closed

\* autoClose, autoCloseNoCustomerAction
Close(p) ==
  LET k == pass[p] IN
  /\ k.pc = "found" /\ CloseDue(k)
  /\ IF Closable(k)
     THEN /\ journey' = [journey EXCEPT !.status = ClosedStatus(k.job)]
          /\ memory' = [memory EXCEPT ![StepOf(k.job)].closed = TRUE]
     ELSE UNCHANGED <<journey, memory>>
  /\ pass' = [pass EXCEPT ![p] = NoPass]
  /\ UNCHANGED <<sellVars, mails, faults, age, kept, claimed, returned, wentBack>>

-----------------------------------------------------------------------------
(* The journey beside it.                                                   *)

\* sentSteps: a first send appends an entry, a resend dates the first one
Dated(r) ==
  IF r.op = "send" THEN [age EXCEPT ![r.step] = Append(@, 0)]
  ELSE IF r.op = "resend" /\ age[r.step] # << >> THEN [age EXCEPT ![r.step][1] = 0]
  ELSE age

WriteRequest(s) ==
  LET r == request[s] IN
  /\ WriteJourney(s)
  /\ age' = IF exists /\ r.step \in Reminded THEN Dated(r) ELSE age
  /\ memory' = IF exists /\ r.op \in {"reship", "edit"} THEN kept[s] ELSE memory
  /\ wentBack' = (wentBack \/ memory' # memory \/ journey'.offerGen < journey.offerGen)
  /\ kept' = [kept EXCEPT ![s] = [step \in Reminded |-> NewMemory]]
  /\ UNCHANGED <<pass, claimed, returned>>

ReadRequest(s) ==
  /\ \/ \E step \in Steps : ReadSend(s, step)
     \/ \E step \in Resends : ReadResend(s, step)
     \/ ReadReship(s) \/ ReadCancel(s) \/ ReadDecline(s) \/ ReadEdit(s)
  /\ kept' = [kept EXCEPT ![s] = IF request'[s].op \in {"reship", "edit"} THEN memory
                                   ELSE [step \in Reminded |-> NewMemory]]
  /\ UNCHANGED <<age, memory, pass, claimed, returned, wentBack>>

Unseen == UNCHANGED <<age, memory, kept, pass, claimed, returned, wentBack>>

StaffEmail(s)  == (SendEmail(s) \/ EmailFails(s)) /\ Unseen
ClickWrite(c)  == WriteAnswer(c) /\ Unseen
OtherStep ==
  /\ \/ \E s \in Staff : WriteLost(s)
     \/ \E c \in Customer : ReadAnswer(c)
     \/ Remove
  /\ Unseen

\* a day older, as far as the thresholds of the step go
Older(step, days) ==
  LET last == IF step = "request-received" THEN 1 ELSE AUTO_CLOSE_THRESHOLD
  IN  IF days = Unset \/ days >= last THEN days ELSE days + 1

\* nothing is under way for a day
Tick ==
  /\ \A p \in Pass : pass[p].pc = "idle"
  /\ \A s \in Staff : request[s].pc = "idle"
  /\ \A c \in Customer : click[c].pc = "idle"
  /\ age' = [step \in Reminded |-> [i \in DOMAIN age[step] |-> Older(step, age[step][i])]]
  /\ memory' = [step \in Reminded |-> [memory[step] EXCEPT !.at = Older(step, @)]]
  /\ UNCHANGED <<vars, kept, pass, claimed, returned, wentBack>>

PassStep(p) ==
  \/ \E job \in Job : Find(p, job)
  \/ Claim(p) \/ ClaimRefused(p) \/ SendReminder(p) \/ ReminderFails(p)
  \/ Close(p)

ReminderNext ==
  \/ \E p \in Pass : PassStep(p)
  \/ \E s \in Staff : ReadRequest(s) \/ StaffEmail(s) \/ WriteRequest(s)
  \/ \E c \in Customer : ClickWrite(c)
  \/ OtherStep
  \/ Tick

ReminderSpec == ReminderInit /\ [][ReminderNext]_allVars

\* requests, clicks and passes get on, the jobs run every hour and the days
\* pass between them; nobody has to begin anything
ReminderFairSpec ==
  /\ ReminderSpec
  /\ SF_allVars(Tick)
  /\ \A job \in Job : SF_allVars(\E p \in Pass : Find(p, job))
  /\ \A p \in Pass :
       WF_allVars(Claim(p) \/ ClaimRefused(p) \/ SendReminder(p) \/ ReminderFails(p) \/ Close(p))
  /\ \A s \in Staff : WF_allVars(StaffEmail(s) \/ WriteRequest(s))
  /\ \A c \in Customer : WF_allVars(ClickWrite(c))
=============================================================================
