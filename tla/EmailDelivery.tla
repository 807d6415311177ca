---------------------------- MODULE EmailDelivery ----------------------------
(***************************************************************************)
(* How one email of a vertical (sell, repair, recycle or rent) gets from a  *)
(* request to the customer: the delivery log written by the queue service   *)
(* or by a journey, the BullMQ job, the worker that processes it, the two   *)
(* providers it tries, the direct send a journey falls back to, and the     *)
(* suppression list.  Every await of the code that touches shared state is  *)
(* a step of its own.                                                       *)
(***************************************************************************)
EXTENDS Naturals, FiniteSets, Functions

CONSTANTS
  Log,          \* ids of delivery log documents
  Recipient,    \* customer addresses
  NoOne,        \* the recipient of a log that does not exist yet
  Vertical,     \* "sell", "repair", "recycle" or "rent"
  Env,          \* the *_USE_BULL_QUEUE variables that are "true"
  HasFallback,  \* a second provider is configured
  MaxAttempts,  \* the attempts option of a job (3 in the code)
  MaxStalled,   \* BullMQ's maxStalledCount
  Concurrency,  \* jobs one worker runs at a time (5 in the code)
  MaxFaults,    \* bound: database calls that fail
  MaxCrashes    \* bound: crashes of the backend process

ASSUME ConstantAssumption ==
  /\ NoOne \notin Recipient
  /\ Vertical \in {"sell", "repair", "recycle", "rent"}
  /\ HasFallback \in BOOLEAN
  /\ MaxAttempts \in Nat \ {0}
  /\ {MaxStalled, MaxFaults, MaxCrashes, Concurrency} \subseteq Nat

VARIABLES
  status,       \* delivery log: its status
  rcpt,         \* delivery log: recipientEmail
  token,        \* delivery log: the tracking token (numbered by attempt)
  origin,       \* history: the log this one is a resend of, or itself
  request,      \* the HTTP request that is creating the log
  direct,       \* the journey gave up on the queue and sends itself
  job,          \* BullMQ: state of the job
  attempts,     \* BullMQ: attemptsMade
  stalls,       \* BullMQ: times the job was found stalled
  pc,           \* where the handler that sends this email stands
  suppressed,   \* the suppression list
  copies,       \* history: copies of the email a provider accepted
  seen,         \* history: tracking tokens those copies carry
  lost,         \* history: accepted copies whose outcome the program lost
  unrecorded,   \* history: the last failure never reached the log
  blocked,      \* history: listed as suppressed ever since the attempt began
  faults, crashes

logVars  == <<status, rcpt, token, origin>>
jobVars  == <<job, attempts, stalls>>
mailVars == <<copies, seen, lost>>
vars == <<logVars, request, direct, jobVars, pc, suppressed, mailVars,
          unrecorded, blocked, faults, crashes>>

Status    == {"none", "queued", "processing", "sent", "failed", "suppressed"}
Open      == {"queued", "processing"}
Settled   == {"sent", "failed", "suppressed"}
Resendable == {"failed", "suppressed"}
JobState  == {"none", "waiting", "active", "completed", "failed"}
Live      == {"waiting", "active"}
Request   == {"none", "resend", "enqueue", "dispatch", "done"}
Step      == {"idle", "check", "suppress", "mark", "prepare", "primary",
              "fallback", "record", "catch", "throw", "return", "lost"}

QueueFlag == [sell   |-> "SELL_USE_BULL_QUEUE",   repair  |-> "REPAIR_USE_BULL_QUEUE",
              rent   |-> "RENT_USE_BULL_QUEUE",   recycle |-> "RECYCLE_USE_BULL_QUEUE"]
WorkerFlag == [QueueFlag EXCEPT !["recycle"] = "Recycle_USE_BULL_QUEUE"]

\* createBullQueue opens the queue; onModuleInit starts the worker
QueueOn  == QueueFlag[Vertical] \in Env
WorkerOn == WorkerFlag[Vertical] \in Env

\* the rent worker has no suppression list to consult
ChecksSuppression == Vertical # "rent"

TypeOK ==
  /\ status \in [Log -> Status]
  /\ rcpt \in [Log -> Recipient \cup {NoOne}]
  /\ token \in [Log -> Nat]
  /\ origin \in [Log -> Log]
  /\ request \in [Log -> Request]
  /\ direct \in [Log -> BOOLEAN]
  /\ job \in [Log -> JobState]
  /\ attempts \in [Log -> Nat]
  /\ stalls \in [Log -> Nat]
  /\ pc \in [Log -> Step]
  /\ suppressed \in SUBSET Recipient
  /\ copies \in [Log -> Nat]
  /\ seen \in [Log -> SUBSET Nat]
  /\ lost \in [Log -> Nat]
  /\ unrecorded \in [Log -> BOOLEAN]
  /\ blocked \in [Log -> BOOLEAN]
  /\ faults \in Nat
  /\ crashes \in Nat

Init ==
  /\ status = [l \in Log |-> "none"]
  /\ rcpt = [l \in Log |-> NoOne]
  /\ token = [l \in Log |-> 0]
  /\ origin = [l \in Log |-> l]
  /\ request = [l \in Log |-> "none"]
  /\ direct = [l \in Log |-> FALSE]
  /\ job = [l \in Log |-> "none"]
  /\ attempts = [l \in Log |-> 0]
  /\ stalls = [l \in Log |-> 0]
  /\ pc = [l \in Log |-> "idle"]
  /\ suppressed = {}
  /\ copies = [l \in Log |-> 0]
  /\ seen = [l \in Log |-> {}]
  /\ lost = [l \in Log |-> 0]
  /\ unrecorded = [l \in Log |-> FALSE]
  /\ blocked = [l \in Log |-> FALSE]
  /\ faults = 0 /\ crashes = 0

-----------------------------------------------------------------------------
(* Requests: a log is created first, the job is added afterwards.           *)

Unused(l) == status[l] = "none" /\ request[l] = "none"

CreateLog(l, r, from) ==
  /\ status' = [status EXCEPT ![l] = "queued"]
  /\ rcpt' = [rcpt EXCEPT ![l] = r]
  /\ request' = [request EXCEPT ![l] = from]
  /\ UNCHANGED <<token, origin, direct, jobVars, pc, suppressed, mailVars,
                 unrecorded, blocked, faults, crashes>>

\* POST .../send
Enqueue(l, r) == Unused(l) /\ CreateLog(l, r, "enqueue")

\* a journey's dispatchStep, up to its logModel.create
Dispatch(l, r) == Unused(l) /\ CreateLog(l, r, "dispatch")

\* both resends read the originals and then create a log for each of them
BeginResend(copyOf) ==
  /\ rcpt' = [l \in Log |-> IF l \in DOMAIN copyOf THEN rcpt[copyOf[l]] ELSE rcpt[l]]
  /\ origin' = [l \in Log |-> IF l \in DOMAIN copyOf THEN copyOf[l] ELSE origin[l]]
  /\ request' = [l \in Log |-> IF l \in DOMAIN copyOf THEN "resend" ELSE request[l]]
  /\ UNCHANGED <<status, token, direct, jobVars, pc, suppressed, mailVars,
                 unrecorded, blocked, faults, crashes>>

\* mutant: the status of the original is not looked at
ResendOneAnyStatus(o, l) ==
  /\ status[o] # "none"
  /\ Unused(l)
  /\ BeginResend([k \in {l} |-> o])

ResendOne(o, l) ==
  /\ status[o] \in Resendable
  /\ Unused(l)
  /\ BeginResend([k \in {l} |-> o])

\* the failed logs its filters select, up to 200 of them, are read together;
\* each gets a log of its own.  Rent has no bulk resend.
ResendFailed(new) ==
  /\ Vertical # "rent"
  /\ new # {}
  /\ \A l \in new : Unused(l)
  /\ \E copyOf \in Injection(new, {o \in Log : status[o] = "failed"}) :
       BeginResend(copyOf)

ResendCreate(l) == request[l] = "resend" /\ CreateLog(l, rcpt[l], "enqueue")

\* queue.add succeeds
AddJob(l) ==
  /\ request[l] \in {"enqueue", "dispatch"}
  /\ QueueOn
  /\ request' = [request EXCEPT ![l] = "done"]
  /\ job' = [job EXCEPT ![l] = "waiting"]
  /\ UNCHANGED <<logVars, direct, attempts, stalls, pc, suppressed, mailVars,
                 unrecorded, blocked, faults, crashes>>

\* no queue (requireQueue throws) or Redis is down (queue.add rejects): the
\* queue service leaves its log behind, queued for ever
AddRejected(l) ==
  /\ request[l] = "enqueue"
  /\ request' = [request EXCEPT ![l] = "done"]
  /\ unrecorded' = [unrecorded EXCEPT ![l] = TRUE]
  /\ UNCHANGED <<logVars, direct, jobVars, pc, suppressed, mailVars, blocked,
                 faults, crashes>>

\* a journey sends the email itself instead; it consults no suppression list
SendDirectFallback(l) ==
  /\ request[l] = "dispatch"
  /\ request' = [request EXCEPT ![l] = "done"]
  /\ direct' = [direct EXCEPT ![l] = TRUE]
  /\ pc' = [pc EXCEPT ![l] = "prepare"]
  /\ blocked' = [blocked EXCEPT ![l] = rcpt[l] \in suppressed]
  /\ UNCHANGED <<logVars, jobVars, suppressed, mailVars, unrecorded, faults, crashes>>

-----------------------------------------------------------------------------
(* The worker: processJob, one step per await.                              *)

GoTo(l, from, to) == pc[l] = from /\ pc' = [pc EXCEPT ![l] = to]

StartAttempt(l) ==
  /\ WorkerOn
  /\ job[l] = "waiting"
  /\ Cardinality({k \in Log : job[k] = "active" /\ pc[k] # "lost"}) < Concurrency
  /\ job' = [job EXCEPT ![l] = "active"]
  /\ pc' = [pc EXCEPT ![l] = IF ChecksSuppression THEN "check" ELSE "mark"]
  /\ blocked' = [blocked EXCEPT ![l] = rcpt[l] \in suppressed]
  /\ UNCHANGED <<logVars, request, direct, attempts, stalls, suppressed, mailVars,
                 unrecorded, faults, crashes>>

\* mutant: the list is consulted on the first attempt only
CheckSuppressionOnce(l) ==
  /\ GoTo(l, "check", IF attempts[l] = 0 /\ rcpt[l] \in suppressed THEN "suppress" ELSE "mark")
  /\ UNCHANGED <<logVars, request, direct, jobVars, suppressed, mailVars,
                 unrecorded, blocked, faults, crashes>>

\* 1. the suppression list is read before anything else
CheckSuppression(l) ==
  /\ GoTo(l, "check", IF rcpt[l] \in suppressed THEN "suppress" ELSE "mark")
  /\ UNCHANGED <<logVars, request, direct, jobVars, suppressed, mailVars,
                 unrecorded, blocked, faults, crashes>>

WriteLog(l, new, from, to) ==
  /\ GoTo(l, from, to)
  /\ status' = [status EXCEPT ![l] = new]
  /\ unrecorded' = [unrecorded EXCEPT ![l] = FALSE]
  /\ UNCHANGED <<rcpt, token, origin, request, direct, jobVars, suppressed,
                 mailVars, blocked, faults, crashes>>

MarkSuppressed(l) == WriteLog(l, "suppressed", "suppress", "return")

\* 2.
MarkProcessing(l) == WriteLog(l, "processing", "mark", "prepare")

\* 3.-6. a fresh tracking token replaces the one of the previous attempt; a
\* direct send carries no tracking
Prepare(l) ==
  /\ GoTo(l, "prepare", "primary")
  /\ token' = [token EXCEPT ![l] = IF direct[l] THEN @ ELSE @ + 1]
  /\ UNCHANGED <<status, rcpt, origin, request, direct, jobVars, suppressed,
                 mailVars, unrecorded, blocked, faults, crashes>>

\* mutant: the token in the html is not the one saved in the log
AcceptOtherToken(l, isLost) ==
  /\ copies' = [copies EXCEPT ![l] = @ + 1]
  /\ seen' = [seen EXCEPT ![l] = @ \cup {token[l] + 1}]
  /\ lost' = [lost EXCEPT ![l] = IF isLost THEN @ + 1 ELSE @]

Accept(l, isLost) ==
  /\ copies' = [copies EXCEPT ![l] = @ + 1]
  /\ seen' = [seen EXCEPT ![l] = @ \cup {token[l]}]
  /\ lost' = [lost EXCEPT ![l] = IF isLost THEN @ + 1 ELSE @]

\* mutant: the second provider is tried whatever the first one said
TryBoth(l, from, onError) ==
  /\ \/ GoTo(l, from, IF onError = "fallback" THEN onError ELSE "record") /\ Accept(l, FALSE)
     \/ GoTo(l, from, onError) /\ UNCHANGED mailVars
  /\ UNCHANGED <<logVars, request, direct, jobVars, suppressed, unrecorded,
                 blocked, faults, crashes>>

\* mutant: send() is not awaited
TryNotAwaited(l, from, onError) ==
  /\ GoTo(l, from, "record")
  /\ Accept(l, FALSE) \/ UNCHANGED mailVars
  /\ UNCHANGED <<logVars, request, direct, jobVars, suppressed, unrecorded,
                 blocked, faults, crashes>>

\* one provider: it accepts, it refuses, or it accepts and the reply is lost
Try(l, from, onError) ==
  /\ \/ GoTo(l, from, "record") /\ Accept(l, FALSE)
     \/ GoTo(l, from, onError) /\ Accept(l, TRUE)
     \/ GoTo(l, from, onError) /\ UNCHANGED mailVars
  /\ UNCHANGED <<logVars, request, direct, jobVars, suppressed, unrecorded,
                 blocked, faults, crashes>>

\* 7.
SendPrimary(l)  == Try(l, "primary", IF HasFallback THEN "fallback" ELSE "catch")
SendFallback(l) == Try(l, "fallback", "catch")

\* mutant: an accepted email without a messageId is thrown as an error
MarkSentIfMessageId(l) ==
  \/ WriteLog(l, "sent", "record", IF direct[l] THEN "idle" ELSE "return")
  \/ /\ GoTo(l, "record", "catch")
     /\ UNCHANGED <<logVars, request, direct, jobVars, suppressed, mailVars,
                    unrecorded, blocked, faults, crashes>>

\* 8.
MarkSent(l) == WriteLog(l, "sent", "record", IF direct[l] THEN "idle" ELSE "return")

\* mutant: a status the schema does not have
RecordFailureRetrying(l) ==
  LET isLastAttempt == attempts[l] >= MaxAttempts - 1
  IN  WriteLog(l, IF direct[l] \/ isLastAttempt THEN "failed" ELSE "retrying",
               "catch", IF direct[l] THEN "idle" ELSE "throw")

\* mutant: the last attempt is the one before the last
RecordFailureEarly(l) ==
  LET isLastAttempt == attempts[l] + 1 >= MaxAttempts - 1
  IN  WriteLog(l, IF direct[l] \/ isLastAttempt THEN "failed" ELSE "queued",
               "catch", IF direct[l] THEN "idle" ELSE "throw")

\* mutant: the last attempt never comes
RecordFailureLate(l) ==
  LET isLastAttempt == attempts[l] > MaxAttempts - 1
  IN  WriteLog(l, IF direct[l] \/ isLastAttempt THEN "failed" ELSE "queued",
               "catch", IF direct[l] THEN "idle" ELSE "throw")

\* the catch block; a direct send fails for good, a job on its last attempt
RecordFailure(l) ==
  LET isLastAttempt == attempts[l] >= MaxAttempts - 1
  IN  WriteLog(l, IF direct[l] \/ isLastAttempt THEN "failed" ELSE "queued",
               "catch", IF direct[l] THEN "idle" ELSE "throw")

\* a database call fails.  Before the try block, and in the catch block
\* itself, the error leaves the handler with nothing written.
DatabaseFails(l) ==
  /\ faults < MaxFaults
  /\ faults' = faults + 1
  /\ pc[l] \in {"check", "suppress", "mark", "prepare", "record", "catch"}
  /\ IF pc[l] \in {"prepare", "record"}
     THEN pc' = [pc EXCEPT ![l] = "catch"] /\ UNCHANGED unrecorded
     ELSE /\ pc' = [pc EXCEPT ![l] = IF direct[l] THEN "idle" ELSE "throw"]
          /\ unrecorded' = [unrecorded EXCEPT ![l] = TRUE]
  /\ lost' = [lost EXCEPT ![l] = IF pc[l] = "record" THEN @ + 1 ELSE @]
  /\ UNCHANGED <<logVars, request, direct, jobVars, suppressed, copies, seen,
                 blocked, crashes>>

-----------------------------------------------------------------------------
(* BullMQ: retries, completion, and the stalled jobs a crash leaves.        *)

JobCompletes(l) ==
  /\ GoTo(l, "return", "idle")
  /\ job' = [job EXCEPT ![l] = "completed"]
  /\ UNCHANGED <<logVars, request, direct, attempts, stalls, suppressed, mailVars,
                 unrecorded, blocked, faults, crashes>>

\* mutant: the queue was registered without retries
JobFailsNoRetry(l) ==
  /\ GoTo(l, "throw", "idle")
  /\ attempts' = [attempts EXCEPT ![l] = @ + 1]
  /\ job' = [job EXCEPT ![l] = "failed"]
  /\ UNCHANGED <<logVars, request, direct, stalls, suppressed, mailVars,
                 unrecorded, blocked, faults, crashes>>

JobFails(l) ==
  /\ GoTo(l, "throw", "idle")
  /\ attempts' = [attempts EXCEPT ![l] = @ + 1]
  /\ job' = [job EXCEPT ![l] = IF attempts[l] + 1 < MaxAttempts THEN "waiting" ELSE "failed"]
  /\ UNCHANGED <<logVars, request, direct, stalls, suppressed, mailVars,
                 unrecorded, blocked, faults, crashes>>

\* the process dies: requests and handlers vanish, Redis keeps the active jobs.
\* A copy the log or the queue does not know of yet has a lost outcome.
Crash ==
  /\ crashes < MaxCrashes
  /\ crashes' = crashes + 1
  /\ lost' = [l \in Log |->
       IF pc[l] = "record" \/ (pc[l] = "return" /\ status[l] = "sent")
       THEN lost[l] + 1 ELSE lost[l]]
  /\ unrecorded' = [l \in Log |->
       unrecorded[l] \/ request[l] \in {"enqueue", "dispatch"}
                     \/ (direct[l] /\ pc[l] # "idle")]
  /\ request' = [l \in Log |->
       IF request[l] \in {"enqueue", "dispatch"} THEN "done"
       ELSE IF request[l] = "resend" THEN "none" ELSE request[l]]
  /\ origin' = [l \in Log |-> IF request[l] = "resend" THEN l ELSE origin[l]]
  /\ pc' = [l \in Log |-> IF job[l] = "active" THEN "lost" ELSE "idle"]
  /\ UNCHANGED <<status, rcpt, token, direct, jobVars, suppressed, copies, seen, blocked, faults>>

\* the stalled check: run the job again, or give up on it behind the log's back
JobStalled(l) ==
  /\ WorkerOn
  /\ GoTo(l, "lost", "idle")
  /\ stalls' = [stalls EXCEPT ![l] = @ + 1]
  /\ job' = [job EXCEPT ![l] = IF stalls[l] + 1 > MaxStalled THEN "failed" ELSE "waiting"]
  /\ unrecorded' = [unrecorded EXCEPT ![l] = @ \/ stalls[l] + 1 > MaxStalled]
  /\ UNCHANGED <<logVars, request, direct, attempts, suppressed, mailVars, blocked,
                 faults, crashes>>

-----------------------------------------------------------------------------
(* The suppression list.                                                    *)

\* the link of a queued email; the page says success whatever happened: rent
\* stores nothing, and elsewhere a database error is swallowed
Unsubscribe(r) ==
  /\ \E l \in Log : rcpt[l] = r /\ copies[l] > 0 /\ ~direct[l]
  /\ \/ /\ suppressed' = IF ChecksSuppression THEN suppressed \cup {r} ELSE suppressed
        /\ UNCHANGED faults
     \/ /\ ChecksSuppression /\ faults < MaxFaults
        /\ faults' = faults + 1
        /\ UNCHANGED suppressed
  /\ UNCHANGED <<logVars, request, direct, jobVars, pc, mailVars, unrecorded,
                 blocked, crashes>>

AddSuppression(r) ==
  /\ ChecksSuppression
  /\ r \notin suppressed
  /\ suppressed' = suppressed \cup {r}
  /\ UNCHANGED <<logVars, request, direct, jobVars, pc, mailVars,
                 unrecorded, blocked, faults, crashes>>

RemoveSuppression(r) ==
  /\ r \in suppressed
  /\ suppressed' = suppressed \ {r}
  /\ blocked' = [l \in Log |-> blocked[l] /\ rcpt[l] # r]
  /\ UNCHANGED <<logVars, request, direct, jobVars, pc, mailVars, unrecorded,
                 faults, crashes>>

-----------------------------------------------------------------------------
CreateRequest ==
  \/ \E l \in Log, r \in Recipient : Enqueue(l, r) \/ Dispatch(l, r)
  \/ \E o, l \in Log : ResendOne(o, l)
  \/ \E new \in SUBSET Log : ResendFailed(new)

HandleRequest(l) ==
  \/ ResendCreate(l) \/ AddJob(l) \/ AddRejected(l) \/ SendDirectFallback(l)

Handler(l) ==
  \/ CheckSuppression(l) \/ MarkSuppressed(l) \/ MarkProcessing(l) \/ Prepare(l)
  \/ SendPrimary(l) \/ SendFallback(l) \/ MarkSent(l) \/ RecordFailure(l)

Bull(l) == StartAttempt(l) \/ JobCompletes(l) \/ JobFails(l) \/ JobStalled(l)

SuppressionList ==
  \E r \in Recipient : Unsubscribe(r) \/ AddSuppression(r) \/ RemoveSuppression(r)

Next ==
  \/ CreateRequest
  \/ \E l \in Log : HandleRequest(l) \/ Handler(l) \/ Bull(l) \/ DatabaseFails(l)
  \/ Crash
  \/ SuppressionList

Spec == Init /\ [][Next]_vars

\* the process runs its handlers and BullMQ its jobs; nobody has to send,
\* resend, unsubscribe, crash or lose a database call
Fairness == \A l \in Log : WF_vars(HandleRequest(l)) /\ WF_vars(Handler(l)) /\ WF_vars(Bull(l))

FairSpec == Spec /\ Fairness
=============================================================================
