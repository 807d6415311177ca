-------------------------- MODULE EmailDeliveryProps --------------------------
(***************************************************************************)
(* What EmailDelivery is expected to guarantee, and what the texts of the   *)
(* program promise that it does not keep.                                   *)
(***************************************************************************)
EXTENDS EmailDelivery

\* A recipient gets a second copy of one email only if the program lost the
\* outcome of an earlier one: a provider's reply, the write of "sent", or the
\* process after the provider had accepted.  Retries (attempts: 3) and the
\* failover to the second provider add no copies of their own.
ExtraCopiesHadLostOutcome == \A l \in Log : copies[l] <= lost[l] + 1

\* A log that staff may resend ("failed" or "suppressed", resendOne and
\* resendFailed) stands for an email the recipient does not have, again up to
\* copies whose outcome was lost.
FailedMeansUndelivered ==
  \A l \in Log : status[l] \in Resendable => copies[l] <= lost[l]

\* A log marked "sent" was accepted by a provider, and if it went through the
\* queue an accepted copy carries the tracking token now stored in the log, so
\* its opens and clicks are counted although every attempt replaces the token.
SentCopyIsTrackable ==
  \A l \in Log : status[l] = "sent" =>
    copies[l] > 0 /\ (direct[l] \/ token[l] \in seen[l])

\* The job of a log, or its direct send, will still do something.
MayRunAgain(l) ==
  \/ job[l] = "waiting"
  \/ pc[l] \in Step \ {"idle", "throw", "return"}
  \/ pc[l] = "throw" /\ attempts[l] + 1 < MaxAttempts

\* An outcome is written when nothing more will happen ("failed" on the last
\* attempt only): a log that staff may resend has no job that can still run
\* beside the resend, unless a crash made BullMQ deliver the job once more.
SettledIsFinal ==
  \A l \in Log : status[l] \in Settled /\ MayRunAgain(l) =>
    stalls[l] > 0 \/ pc[l] = "lost"

\* Resending an email does not give the customer a second copy, unless the
\* outcome of an earlier copy was lost or the first job was delivered again
\* after a crash.
ResendIsNoDuplicate ==
  \A l \in Log :
    LET o == origin[l] IN
    o # l /\ copies[l] > 0 /\ copies[o] > 0 => lost[o] > 0 \/ stalls[o] > 0

\* An open log ("queued", "processing") has a request, a job or a direct send
\* that will still settle it; the only logs stuck open, which no resend
\* accepts, are those whose last failure could not be recorded.
OpenLogIsOwned ==
  \A l \in Log : status[l] \in Open =>
    \/ request[l] \in {"enqueue", "dispatch"}
    \/ job[l] \in Live
    \/ pc[l] # "idle"
    \/ unrecorded[l]

\* An attempt of the worker sends nothing to an address that was on the
\* suppression list when the attempt began and still is (processJob step 1);
\* an unsubscribe that arrives during the attempt may come too late.
QueuedSendRespectsSuppression ==
  [][\A l \in Log : copies'[l] > copies[l] /\ ~direct[l] =>
       ~(blocked[l] /\ rcpt[l] \in suppressed)]_vars

\* Every queued log is settled, or its job is over and the log is one of those
\* stuck open because the last failure could not be recorded.
LogsSettle ==
  \A l \in Log : status[l] = "queued" ~>
    status[l] \in Settled \/ (unrecorded[l] /\ job[l] \notin Live)

\* The ledger the staff read: the open statuses are one, and a redelivered job
\* is the only thing that may reopen a settled log.
LedgerOf   == [l \in Log |-> IF status[l] \in Open THEN "open" ELSE status[l]]
Redelivered == [l \in Log |-> stalls[l] > 0]

Ledger == INSTANCE DeliveryLedger WITH ledger <- LedgerOf, reopened <- Redelivered

\* EmailDelivery implements DeliveryLedger.
LedgerSpec == Ledger!Spec

-----------------------------------------------------------------------------
(* The inductive invariant behind the safety properties, log by log.        *)

Body     == {"prepare", "primary", "fallback", "record", "catch"}
Pending  == {"enqueue", "dispatch"}

\* a request that has not added its job owns a queued log, and nothing else
\* touches it; a log that does not exist has nothing at all
RequestInv(l) ==
  /\ request[l] \in Pending => status[l] = "queued"
  /\ request[l] # "done" => pc[l] = "idle" /\ job[l] = "none" /\ ~direct[l]
  /\ request[l] \in {"none", "resend"} => status[l] = "none"
  /\ request[l] = "done" => status[l] # "none"

\* a handler runs for an active job or for a direct send, which has no job
OwnerInv(l) ==
  /\ direct[l] => job[l] = "none" /\ pc[l] \in Body \cup {"idle"}
  /\ pc[l] # "idle" => direct[l] \/ job[l] = "active"
  /\ job[l] = "active" => pc[l] # "idle"

\* what the handler has written where it stands
StepInv(l) ==
  /\ pc[l] \in Body => status[l] \in Open
  /\ pc[l] = "return" => status[l] \in {"sent", "suppressed"}
  /\ pc[l] = "throw" =>
       status[l] \notin Open \/ unrecorded[l] \/ attempts[l] + 1 < MaxAttempts

\* the program knows of at most one accepted copy, and only from the provider's
\* reply until the job is over
KnowledgeInv(l) ==
  /\ lost[l] <= copies[l] /\ copies[l] <= lost[l] + 1
  /\ copies[l] > lost[l] =>
       \/ pc[l] = "record"
       \/ status[l] = "sent" /\ pc[l] = "return"
       \/ status[l] = "sent" /\ pc[l] = "idle" /\ job[l] \notin Live
  /\ pc[l] = "record" => copies[l] > lost[l] /\ token[l] \in seen[l]
  /\ pc[l] = "return" /\ status[l] = "sent" => copies[l] > lost[l]
  /\ status[l] = "sent" => copies[l] > 0 /\ (direct[l] \/ token[l] \in seen[l])

FinalInv(l) ==
  status[l] \in Settled /\ MayRunAgain(l) => stalls[l] > 0 \/ pc[l] = "lost"

OwnedInv(l) ==
  status[l] \in Open =>
    request[l] \in Pending \/ job[l] \in Live \/ pc[l] # "idle" \/ unrecorded[l]

\* the original of a resend had an outcome that allows it, and keeps it unless
\* its job is delivered again
ResendInv(l) ==
  LET o == origin[l] IN
  o # l => status[o] \in Resendable \/ stalls[o] > 0

LogInv(l) ==
  /\ RequestInv(l) /\ OwnerInv(l) /\ StepInv(l) /\ KnowledgeInv(l)
  /\ FinalInv(l) /\ OwnedInv(l) /\ ResendInv(l)

IndInv == TypeOK /\ \A l \in Log : LogInv(l)

(* The inductive invariant behind QueuedSendRespectsSuppression.            *)

\* An address that is listed since the attempt began still is, its log has left its
\* request, and the attempt has not come past the check.
BlockedInv ==
  /\ ~ChecksSuppression => suppressed = {}
  /\ \A l \in Log : blocked[l] =>
       /\ rcpt[l] \in suppressed
       /\ request[l] = "done"
       /\ direct[l] \/ pc[l] \in {"idle", "check", "suppress", "throw", "return", "lost"}
=============================================================================
