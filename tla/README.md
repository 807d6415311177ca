# A model of the rekart mailer

rekart-mailer sends the emails of four businesses that buy, repair, recycle and
rent out devices ("verticals": sell, repair, recycle, rent).  Staff drive a
*journey* through a fixed list of steps from a web client; every step sends the
customer an email whose links answer questions ("pick it up?", "do you accept
this offer?"); a queue, a worker and two email providers deliver it; a
scheduler reminds and closes.  Everything is stored in MongoDB documents that
several requests read, hold across awaits, and write back.

These TLA+ modules model the parts where most can go wrong, the delivery of an
email, the journeys of sell, repair and rent with their customers' links, the
schedulers beside sell and rent, the staff's pages of sell, repair and rent, and the
session those pages live in, and state what they keep and what they do not.
TLC checks the properties on small instances; TLAPS proves all of them but the
liveness ones for every number of emails, requests, clicks, passes, tabs and
exchanges (a few for one staff request at a time, which they are about).

## Inventory

Paths are below `src/rekart-mailer-backend/src/`.

| Part | State | Operations | What is hard | What makes it correct |
|---|---|---|---|---|
| Queue and workers (`queue/`) | BullMQ jobs in Redis, delivery logs | `processJob`, one per vertical | retries, stalled jobs, crashes, lost replies | the log says what happened; extra copies are explained |
| Queue services (`modules/*/*-email-queue.service.ts`) | delivery logs | `enqueue`, `resendOne`, `resendFailed` | log written before the job exists | no log is stuck without a reason; a resend is no duplicate |
| Providers (`providers/email`) | none | `send` with failover | a provider that accepts and then errors | at most one copy the program knows of |
| Suppression, unsubscribe, tracking (`modules/*`) | suppression list, tracking token | add, remove, unsubscribe link, open/click links | read at the start of an attempt, long before the send | no queued email to a listed address |
| Sell journeys (`sell-journeys.service.ts`) | journey document: status, current step, completed and sent steps, generations, `dynamicData` | create, sendNext, sendStep, resendStep, sendDeviceReship, cancel, markOfferDeclined, updateDynamicData, remove | read, await the email, write from the old copy | steps in order; payment and pickup only after the customer's answer |
| Customer links (`sell-public-action.service.ts`) | the same document | accept/decline an offer or a request | the filter of the write against the earlier read | an answer counts for the round it was given for |
| Scheduler (`sell-scheduler.service.ts`) | counters in `dynamicData`, status | hourly reminders and closing | a batch read, then guarded writes | a reminder goes out once; nobody who answered is closed |
| Repair journeys and links (`modules/repair`) | journey document; the rounds of booking and quote are fields of it, the answers lie in `dynamicData` | send, resend, return unrepaired, courier, cancel, decline, edit; book, accept, decline, ask for return, collect, courier | answers checked on a copy, filters that name some of the fields | pickup and repair only on a consent to a round that was emailed; the device goes back as chosen |
| Rent journeys and links (`modules/rent`) | the same, with everything of the negotiation in `dynamicData` | send, resend, edit, cancel, decline, resume; confirm, refuse, sign, decline | every answer writes the whole of `dynamicData` from its copy, without a filter | a quote counts as accepted by an answer to its own round; no handover without confirmation and signature |
| Rent scheduler (`rent-scheduler.service.ts`) | a claim in `dynamicData` | hourly return reminder: find, claim, send, release | overlapping runs, failing emails, a crash after the claim | one reminder, and one at all |
| Staff's pages (`src/rekart-mailer/src/app/(dashboard)`) | none of their own | next action, what is blocked, what may be resent | the service decides the same by code of its own | what the page offers, the service accepts |
| Recycle journeys, links, scheduler; repair scheduler | as repair and sell | near copies | as there | as there |
| Session (`modules/auth`; `lib/api.ts`, auth store and provider of the client) | refresh tokens; per browser localStorage, per tab the flag, the queue and the requests of the interceptor | login, logout, refresh; 401, queue, resend, bootstrap | concurrent exchanges of a token that is used once, requests that wait for an exchange, replies nobody hears | a request that waits is released; a session ends for a cause |
| Templates, workspace, analytics, utilities, other pages | documents | edits, aggregations, date and money helpers | mostly sequential | planned where it has control |

How they meet: a journey creates a delivery log and either hands a job to the
queue or sends by itself (`sendDirectFallback`); the worker and the journey
share the providers; only the worker consults the suppression list; the links
in an email carry the generation of the question, which the journey stores only
after the email has left; the scheduler and staff write the same document.

## Modules

| Module | What it is |
|---|---|
| `EmailDelivery` | one delivery log and its job per element of `Log`: requests, worker, BullMQ, providers, suppression list |
| `DeliveryLedger` | abstract: what a delivery log promises the staff who read it |
| `EmailDeliveryProps` | properties of `EmailDelivery`, the refinement mapping, the inductive invariants |
| `EmailDelivery_proofs` | the proofs about it |
| `MCEmailDelivery` | its instances for TLC |
| `SellJourney` | one sell request: document, staff requests and clicks in flight |
| `SellConsole` | what the staff's page of a sell request blocks and offers |
| `SellJourneyProps` | its properties and inductive invariants |
| `SellJourney_proofs`, `SellPayment_proofs`, `SellRounds_proofs` | the proofs about it: the order of the steps, the payment, the rounds of the two questions |
| `MCSellJourney` | its instances for TLC |
| `SellReminders` | the scheduler's jobs over `SellJourney`: overlapping passes, reminders, closing, time |
| `SellRemindersProps`, `SellReminders_proofs` | its properties, inductive invariants and proofs |
| `MCSellReminders` | its instances for TLC |
| `RepairJourney` | one repair: document, staff requests and clicks in flight |
| `RepairConsole` | what the staff's page of a repair blocks and offers |
| `CustomerGate` | abstract: a step that needs the customer's consent to a numbered question |
| `RepairJourneyProps`, `RepairJourney_proofs` | properties, the two refinement mappings, inductive invariants and proofs |
| `MCRepairJourney` | its instances for TLC |
| `RentJourney` | one rental: document, staff requests, clicks and runs of the reminder job |
| `RentConsole` | what the staff's page of a rental blocks and offers |
| `RentJourneyProps`, `RentJourney_proofs` | its properties, inductive invariants and proofs |
| `MCRentJourney` | its instances for TLC |
| `AuthSession` | one member of staff in the tabs of one browser, and the service that issues and exchanges the tokens |
| `AuthSessionProps`, `AuthSession_proofs` | its properties, inductive invariants and proofs |
| `MCAuthSession` | its instance for TLC |

Operators commented `mutant:` are not part of a model: each is a plausible
mistake in the code, kept beside the definition it would replace so that a
property can be shown to notice it (`PROJECT.json`, "mutants").

### EmailDelivery

A log is created (`Enqueue`, `Dispatch`, `ResendCreate`) before its job is added
(`AddJob`), so there is a state in between, and `AddRejected` or a `Crash` may
follow.  `processJob` is one action per await: `CheckSuppression`,
`MarkSuppressed`, `MarkProcessing`, `Prepare` (branding, token, html: only the
new token is kept), `SendPrimary`, `SendFallback`, `MarkSent`, and
`RecordFailure` for the catch block; `DatabaseFails` may strike wherever the
code awaits the database and goes where the code's try block sends it.  A
provider accepts, refuses, or accepts while its reply is lost.  `JobCompletes`,
`JobFails` and `JobStalled` are BullMQ's side (external): attempts, retries and
the redelivery of a job whose worker died.  A direct send of a journey runs the
same body without job, tracking token or suppression check.

The histories `copies`, `seen`, `lost`, `unrecorded`, `blocked` and `origin`
record what happened for the properties; no guard reads them, except that the
unsubscribe link needs an email that was delivered.

The four workers differ in their prefix only, with two exceptions the constant
`Vertical` selects: rent has no suppression list, and the recycle worker looks
for another environment variable than its queue (`WorkerFlag`).

### SellJourney

`journey` is the document; `data` the fields of `dynamicData` the workflow
looks at.  A staff request is `ReadX` (findById and every check of the handler)
that keeps a copy of what the handler uses later, `SendEmail` (queue or direct;
both leave before the document is written), and `WriteJourney` (the `updateOne`
at the end), so whatever happens between the read and the write is possible.
`Sent` writes `completedSteps` from the copy, `Resent` opens a new round and
forgets the answer, `Reshipped` and the edit write `dynamicData` back as a whole
from the copy; the rest writes single fields.  `EmailFails` is the throw when no
email could be sent, `WriteLost` a process that dies between email and write.  A
click is `ReadOfferAnswer`/`ReadRequestAccept`/`ReadRequestDecline` and later
`WriteAnswer` under the filter of its `updateOne` (`StillOpen`).  `mails` and
`pressed` are histories: the generations in the links sent, and the emails whose
accept link took effect.

### SellReminders

The module extends `SellJourney`: every staff request, click and deletion is the
action of that module, beside which it says what happens to the fields the
scheduler reads.  `age` holds the dates of `sentSteps`, `memory` the counters
and dates the scheduler keeps in `dynamicData`.  A pass of a job is `Find` (the
query of the job and the checks on the copy it returned; a copy of which nothing
is due is dropped at once), `Claim` or `ClaimRefused` (the `updateOne` whose
filter names the count read, and for an offer the offer too), and `SendReminder`
or `ReminderFails` (the catch block, which writes the old count back without a
filter); or `Close` (`autoClose`, `autoCloseNoCustomerAction`).  `Pass` is the
set of passes that may overlap: nothing stops the hourly job from starting while
an earlier one still runs.  Staff requests write `dynamicData` back as a whole
on a reship or an edit, the scheduler's memory included (`kept`).

Time is in days of 24 hours, since every threshold is a number of days.  `Tick`
makes everything a day older when no pass, request or click is under way, which
leaves the interleavings within a day and forbids an await that lasts one.

`claimed`, `returned` and `wentBack` are histories.  `wentBack` marks the writes
that put an older value back: the unfiltered rollback over another pass's claim,
a claim by a pass whose copy counts the reminders of another offer than the
document does, an edit's or a reship's copy of `dynamicData`, and an older offer
generation written by a slower request.  After such a write the code can claim a
reminder twice, and the properties say nothing.

### SellConsole

What the sell page decides by itself from the document it fetched: when it waits
for the customer (`pickupBlockedPendingRequestAck`, `paymentPhaseBlocked`), which
email it offers for a stage (`NEXT_ACTION`), when the button resends instead of
sending.  It repeats the service's asserts in code of its own, and a little
differently (an acknowledgement without a generation counts for the service, not
for the page), and goes by `currentStep`, which the service only writes.  It has
no state; the properties compare it with `MaySend` and `MayResend`.

### RepairJourney

As in `SellJourney` a staff request is `ReadX`, `SendEmail`, `WriteJourney`.  An
answer takes three steps: a link shows its form (`OpenForm`, if the handler's
view, `Shows`, lets the page show one), the form is posted and checked on a copy
(`ReadAnswer`, the handler's submit, `Takes`), and the answer is stored
(`WriteAnswer`).  View and submit check different things, and any time may pass
between them: a form opened before the pickup was scheduled can still be posted
after it, while a link followed only then shows none.  The refusal of a booking
has no form; its link is checked once, in `ReadAnswer`.  What differs besides is
the code: the rounds of
the booking and of the quote are fields of the document (`bookingGen`,
`quoteGen`), so an edit, which writes the whole of `dynamicData` back from its
copy, can restore an answer but not a round; the steps are dispatched under five
asserts (`Preconditions`); three further emails stand outside the workflow
(`Adhoc`); and `atomicFilter` is what each click's write names.  `MaySend` is
either way of the page to send a step, `sendNext` or `sendStep`.  `emailed`,
`pressed` and `begun` are histories: the rounds in the links that left, those by
which the customer agreed, and those whose consent a gated email was sent on.

`CustomerGate` says what such a gate promises: rounds are asked, agreed to if
asked, and the step is taken on a round agreed to.  `BookingGateSpec` and
`QuoteGateSpec` are the two instances a repair implements, with the histories as
the refinement mapping.

`RepairConsole` translates what the page of a repair decides by itself: which
answer it waits for, and which email it offers next.

### RentJourney

Everything of the negotiation is in `dynamicData`.  A first send writes the
whole of it from the copy the request read (`Sent`), a resend sets field by
field (`Resent`), and every answer of the customer writes its copy back without
a filter (`Answered`): the checks of `ReadConfirm`, `ReadSign` and the others
are all there is.  A declined final offer cancels the journey, and
`ReadResume` reopens it.  The steps of the branch that the mode of delivery
excludes are skipped (`getApplicableSteps`).

A run of the hourly job is `PassFinds`, `PassClaims`, `PassReads`, `PassSends`,
`PassWrites`, with `PassEmailFails` and `PassReleases` for the catch block and
`PassFaults` for a process that dies; `Job` is the set of runs that may overlap.
`today` counts days, the unit of the return date.  `clobbered` is a history: a
write of a whole `dynamicData` changed the claim.  `autos` counts the reminders
the job sent, and bounds them (`MaxReminders`).

`RentConsole` translates `resolveRentNextStep`, `getRentActionBlockedReason` and
the two panels that ask for a resend.

### AuthSession

`token` is the collection of refresh tokens, `storage` the localStorage all tabs
share; `page`, `store`, `isRefreshing` and `request` belong to a tab, `handler`
to a run of `refreshTokens`.  Access and refresh token are issued, stored and
cleared together, so one value stands for both.  A token is the second it was
signed in: the payload is the user and the time in seconds, so two tokens of one
second are the same string, and `tokenHash` is unique (`Fresh`).

A run of `refreshTokens` is `Find`, `Revoke`, `Create`, one await each.  A
request is sent with the token stored at that moment (`Send`), answered
(`Serve`, `ServeLogin`, `ServeFails`), and a 401 goes through the interceptor:
`JoinQueue`, `NoRefreshToken` or `StartExchange`, then `Granted` or `Refused`
for everybody who waits.  `CallFailed`, `EnterApp`, `LoggedOut`, `Booted` and
`BootFailed` are what the page does with the answer; `current` is the fetch of
the workspace between the answer to a login and the tokens being stored.
`Unload` is the tab's script going away: the run of `refreshTokens` it asked for
goes on, for nobody.

`signedIn` and `excuse` are histories.  `excuse` says whether something has
happened that can cost the session: `cause` for a logout, an expired token, a
failed call or exchange, a second 401 to one request, a second token of one
second; `race` for a token presented by a second tab, or by the next page of a
reloaded one, before the first exchange was answered.

Abstracted: one user; the cookie that `proxy.ts` reads follows localStorage; a
redirect to the login page takes place with the clearing of the tokens; of a
401 nothing is kept but who got it; requests and runs take the same free name
always (`FreeRequest`, `FreeHandler`), since names mean nothing.  A page takes
the tokens of localStorage when it is loaded, not those the auth store persists:
the first render is that of the server, whose store is empty.

## What is checked

Passing runs:

| Run | Shows | Bounds and why they are enough |
|---|---|---|
| `delivery` | type, every safety property, refinement of `DeliveryLedger`, `LogsSettle` | two logs: one and its resend, or two jobs; one worker slot; two attempts (first and last), a fault, a crash, a stall: enough for a lost outcome, a retry after it and a resend beside it; the fault and the crash may hit one job |
| `sell_one` | type, `OnlyLastLinksWork`, `AnswerIsForCurrentRound`, `PickupWasRequested`, `ConsoleOffersAccepted` | one request and one click at a time, every operation, two rounds of each question, one request that dies between its email and its write |
| `sell_two` | `StepsInOrder`, `CompletedMeansClosed`, `PaymentWasAccepted` | two requests up to the payment, with resent offers and reship; two rounds of the offer |
| `reminders` | type, `ReminderClaimedOnce`, `ClosedAfterReminders`, `ReminderOnTime` | two passes over a request and over an offer and the one that replaces it, up to the seven days of the closing, one failing reminder: each way two passes can meet |
| `repair` | type, `AskedForReturn`, `BookingGateSpec`, `QuoteGateSpec`, `ReturnedAsChosen`, `AcceptanceStands` | all steps but the last email of an unrepaired return, two rounds of each question, one staff request beside two tabs of the customer, of which the second races the first for the way the device goes back; one detour (resend, edit, cancel, decline) and one lost write |
| `rent` | type, `SignedByCustomer`, `HandoverWasAgreed`, `EmailsInOrder`, `ConsoleSendsAccepted`, `ConsoleResendsAccepted` | up to the handover, three rounds of the quote (one, its revision, the final offer), one request beside one click |
| `rent_return` | `OneReminder`, `ReminderArrives` | two runs of the job, edits of the return date, cancelling, a fault, a day that passes |
| `session` | type, `NoStrandedWaiter`, `StaysSignedIn`, `OneTokenPerLogin` | two tabs with two requests each (one that refreshes, one that waits), two runs of `refreshTokens`, two logins, three seconds with an access token of one and a refresh token of two, and one event (a call, a reload, a logout or a failure) |

Runs that refute what a text of the program says:

| Run | Text | What the code does |
|---|---|---|
| `recycle_worker_off` | the queue comes first, direct sending is the fallback | jobs are queued and no worker runs |
| `pickup_unreminded` | "Other steps: Reminder 1/2/3 at 24 h / 72 h / 144 h" | the first send moves `currentStep` on, and the job looks for the step just sent: no pickup reminder is ever sent |
| `repair_dead_end` | "nextStep is the EMAIL to send now ... Backend advances currentStep after each successful send" | the quote is resent after the repair was started, the customer accepts the new round, which moves `currentStep` back to `repair-in-progress`, and the page offers that email, which the service refuses as already sent; the step that is due is offered nowhere |
| `rent_dead_end` | "Update the request details below and resend with fresh Confirm / Decline links" | with the quote declined too, neither resend is accepted before the other |

`NextActionIsAccepted` speaks of the page between two requests of the staff, and
of acceptances that name a round: one that arrives between the email of the
first quote and the write that records it is stored, the write then moves
`currentStep` back to `quote-ready`, and the page offers the quote once more,
which is the same disagreement by a race.

`ConsoleOffersAccepted` speaks of journeys without a lost write: when the write
after an offer email is lost and the customer accepts from that email, the page
offers the payment, which the service refuses because the offer was never
recorded.  It also excepts a step already sent: as on the repair page, a resend
moves `currentStep` back, and the page then offers that email once more.  An
answer in flight while staff send the next steps leaves a journey declined, or
active after its reship, for which the page offers a reship the service refuses.

Also visible in the model and not stated as runs: two requests can both send one
step for the first time; two concurrent resends give their links the same
generation; two clicks that both read an open offer are both recorded, since the
filter excludes only an accepted generation; an edit that read `dynamicData`
before an acceptance writes it away; a journey that sends directly never looks
at the suppression list; an unsubscribe whose database call fails still shows
the success page, as does every unsubscribe of a rent email, which stores
nothing; a payment checked against the old offer leaves after a revised one; a
request emailed again is closed at once, because the reminder of the first round
still counts (`rrReminderCount` outlives a resend); a reminder may be claimed by
a pass whose copy counts the reminders of another offer; an acceptance that arrives between the query and the write of
a closing is closed as declined; a journey reopened after its automatic closing
is never closed automatically again.  Of repairs: a quote resent after the
customer asked for the device back leaves the request for return standing, and
the customer can no longer accept although the page waits for it; a booking email
resent after the pickup was scheduled asks for an acknowledgement that its link
no longer shows a form for, and the page waits for it; the link of the quote asks
for the return of a cancelled or completed repair and reopens it.  Of
rentals: a crash between claim and email keeps the claim for ever; an edit that
read before a claim unsets it, and one that read before a release sets it again;
the ISO date the lists go by keeps the first return date ever set.  Of the
session: a logout sends the refresh token of the tab's store, so the one that
replaced it in localStorage stays live until it expires; a 401 that arrives in
the second in which another exchange of the tab has issued a token starts an
exchange whose new token collides with the first, and signs the user out; two
tabs whose access token expires together present the same refresh token, and the
slower one signs both out, or both exchange it and one token stays behind.

Deadlock is not checked: a mailer with nothing left to do stops, and the bounds
stop it too.

### Fairness

`FairSpec` assumes weak fairness, per log, of a request's own steps, of the
handler's steps and of BullMQ's: the event loop runs what is ready, and BullMQ
polls.  Nobody has to send, resend, unsubscribe or fail.  Crashes and faults are
bounded, so the last attempt is eventually undisturbed; without a bound the
attempts limit would still end each job.

`ReminderFairSpec` assumes that days pass and that each hourly job comes round
whenever it would find something again and again (strong fairness: the cron
fires every hour, whether or not the state allowed something in between), and
that passes, requests and clicks under way get on.  `pickup_unreminded` refutes
its property under all of it.

`FairSpec` of `EmailDelivery` is also the specification of the `delivery` run;
a safety property holds with and without it.

`FairSpec` of `RentJourney` assumes weak fairness of the days and of each step of
the rent job, and strong fairness of the job's email: however often every
provider refuses, an email that is tried again and again leaves once.  Of the
requests of the staff and of the customer's answers it assumes nothing.

### Bounds

`MaxFaults`, `MaxCrashes` (delivery) and `MaxAsks`, `MaxOffers`, `MaxMails`,
`MaxFaults` (sell), `MaxPassFaults` (reminders), `MaxBookings`, `MaxQuotes`,
`MaxDetours`, `MaxFaults` (repair), `MaxRequests`, `MaxQuotes`, `MaxMails`,
`MaxDay`, `MaxReminders`, `MaxFaults` (rent), `MaxTime`, `MaxLogins`,
`MaxEvents` (session) bound counters that the code does not; `MaxAttempts`, `MaxStalled` and `Concurrency` are options of the
program. The proofs hold for every value of all of them. Ages stop at the last
threshold of their step, beyond which nothing changes. `reminders` is
checked under a VIEW that leaves out the history `pressed`, which no action and
no property of its module reads.

## What is proved

`EmailDelivery_proofs`: the inductive invariant `IndInv` says, log by log, where
the request, the job and the handler stand and what that implies for the log's
status and for what the program knows of the accepted copies (`KnowledgeInv`:
at most one copy whose outcome it did not lose, and only between the provider's
reply and the end of the job).  None of the properties is inductive without it:
that a failed log is undelivered needs to know that the catch block is only
entered after an error, that the job of a settled log is over, and so on.  From
it follow the six safety invariants of the run and the refinement of
`DeliveryLedger`, step by step.  The assumptions are those of
`ConstantAssumption`.  `QueuedSendRespectsSuppression` needs `BlockedInv`
beside it: an address that was listed when the attempt began is listed still,
and the attempt has not come past its check, which a retry takes anew.

`SellJourney_proofs`: `OrderInv` adds to the type and to `StepsInOrder` that the
copy a request holds was in order and that all it holds has been recorded as
sent (`CopyInv`): `sentSteps` only grows, which is why writing `completedSteps`
from an old copy cannot get ahead of it.  `CompletedMeansClosed` then needs the
size of the workflow: six completed steps cannot be had from its first five.

`SellPayment_proofs`: `PaymentInv` follows every acceptance in the document, and
in the copies that will be written back over it, to an email whose accept link
took effect; and it needs that generation 0 is never stored again once an offer
is recorded.  `PaymentWasAccepted` is an action property of it.

`SellRounds_proofs`: `RequestInv` says the same of the other question, and of
every click in flight that it came from an email of its round; with `PaymentInv`
it gives `AnswerIsForCurrentRound` for any number of requests and clicks.  The
other three properties of `sell_one` do not hold of two staff requests at once
(two concurrent resends give their links the same generation), and their
theorems have that hypothesis, `\A s, t \in Staff : s = t`.  They rest on
`SoloInv`: clicks, of any number of customers, change nothing of the steps and
generations the copy of the one request holds (`FreshInv`), so the checks made
on the copy are still right when the email leaves and when the document is
written; an email beyond the recorded generation is the one not recorded yet
(`RoundInv`); and the stage only names a step whose predecessors are completed,
or emailed as far as the offer goes (`StageInv`).  `OnlyLastLinksWork`, `PickupWasRequested` and
`ConsoleOffersAccepted` follow.

`SellReminders_proofs`: `ReminderInv` follows a reminder from claim to email
(`PassInv`) and relates the scheduler's count to the claims (`ClaimInv`): what
the count says was claimed for the offer it names, and nothing beyond it was
claimed and kept, nor for a later offer than the journey's.  Neither half is
inductive without the other, and both only hold while nothing went back.
`ReminderClaimedOnce` and `ClosedAfterReminders` follow for any number of
passes, and, since the scheduler changes nothing the order of the steps rests
on, `StepsInOrder` holds beside it too.  `ReminderOnTime` needs `DateInv`, that
while the offer a pass has found is the journey's, the email of that offer is at
least as old as the pass took it for; it holds with one staff request at a time,
since two may number two offers alike, and for any number of passes and clicks.

`RepairJourney_proofs`: `RepairInv` says of every answer in the document, and in
every copy of it that a request will write back, that it was pressed in a link
of its round (`AnswersInv`), that a click in flight came from a link that was
emailed, from its form on (`ClickInv`), and that the request which sends a gated email passed its
assert (`RequestInv`).  An answer alone is not inductive: an edit restores what
a resend cleared, so the copies must be honest too.  The two refinements of
`CustomerGate`, `AskedForReturn` and `AcceptanceStands` follow for any number of
requests and clicks.  `ReturnedAsChosen` needs `ReturnInv`, that the choice does
not change while the completion email is under way, and holds with one staff
request at a time (an assumption of the theorem): a second one can clear the
choice by a resend.

`RentJourney_proofs`: `RentInv` is built the same way, over three kinds of
writers: the answers in `dynamicData` and in the copies held by requests, clicks
and runs of the job are the customer's (`AnswersInv`), the round of a signature
is one the clicked link carried or an older one, and a request or a run that
sends a step found it in its turn, which stays true because `sentSteps` only
grows (`InOrder`).  The branch of the workflow can change after its step was
sent, so `InOrder` asks for one of the two branch steps, and this weaker form is
what is inductive.  `SignedByCustomer`, `EmailsInOrder` and `HandoverWasAgreed`
follow for any number of requests, clicks and runs.

`OneReminder` counts, and `ClaimInv` says what is counted: until a write of the
whole of `dynamicData` changes the claim, it is set for the one run of the job
that works under it, and a reminder that no fault accounts for is recorded, or
about to be by the run that sent it.  `ConsoleSendsAccepted` and
`ConsoleResendsAccepted` compare the page with the asserts of the service on
every document that can be reached; `ConsoleInv` says which cannot: confirmed
without a mode, confirmed and refused at once, or waiting for a final offer
whose quote was never sent.  Since any copy may be written back whole, all of
them must be consistent in this way, those of requests, clicks and runs too.

`AuthSession_proofs`: `Structure` says that the flag of a tab's interceptor, the
request that set it and the exchange it started come and go together
(`RefreshAt`), and that every exchange under way presents a token of the run and
answers a tab (`HandlerInv`).  It holds whatever fails, and `NoStrandedWaiter`
follows.  `Kept` says, while `excuse` is `none`, who counts on which token: the
one in localStorage, the one each granted exchange returns and the one each
login will store are live, pairwise different, and presented by nobody, except
that the one in localStorage may be the one that exactly one exchange presents
(`KeptInv`, `LoginInv`).  `StaysSignedIn` alone is not inductive: that an
exchange is not refused needs to know that its token is live and nobody else
holds it, and that needs every new token to be new.

`OneTokenPerLogin` is about a longer time, all that comes before a race,
whatever else fails.  It counts what is live; the revocation and the new token
are steps of their own, so `Counted` adds the exchanges that still owe a token
for one that is revoked (`Owed`) and the logins nobody has answered (`Asked`),
and bounds the sum by the logins.  A revoked token is owed for once only since
no two exchanges under way present the same (`Alone`), which is what a race
breaks.  All theorems about the session hold for any number of tabs, requests
and exchanges, and any lifetimes.

Model-checked only: `LogsSettle` and `ReminderArrives`, the two liveness
properties of the passing runs, which are out of the prover's reach.  The runs
that expect a violation have nothing to prove.

## Not modelled

The text of emails, branding, attachments and html; the ownership checks of the
handlers of journeys; staff notes, notifications and attachments; counters of opens and
clicks; analytics, exports and lists, which only read.  A rejected `queue.add`
that stored its job nevertheless is left out.  A staff edit is assumed to leave
the negotiation fields of `dynamicData` alone, as the client's forms do.  Of the
scheduler, the expiry job (nothing sets `offerExpiresAt`) and the mark
`reminderDue` for the staff's list are left out.
Of repairs, deletion, attachments, tracking and rating links are left out; of
rentals the older confirmFulfillment links, the parsing of dates, item lists and
sums, and the text fields of the forms.  The recycle vertical and the repair
scheduler are near copies of what is modelled.  Of the session, signup (which is
a login to it), forgotten and reset passwords, suspended and deleted accounts,
and a token that fails its signature are left out.
`PROJECT.json` lists every component and why it is left out.

## Plan

1. Done: `EmailDelivery`, `SellJourney`, `SellReminders`, `RepairJourney`,
   `RentJourney`, `AuthSession` and their proofs; the pages of sell, repair and
   rent.
2. Done: a theorem for every safety property the passing runs check, and for
   every refinement.
3. Password reset, signup and suspended accounts beside `AuthSession`.
4. Recycle as an instance of what repair and recycle share, where the two texts
   are the same.
5. Templates, staff notifications and notes; the pure utilities (revenue, item
   differences) against reference definitions.
