------------------------- MODULE EmailDelivery_proofs -------------------------
(***************************************************************************)
(* IndInv is an inductive invariant of EmailDelivery, for any logs,         *)
(* recipients, vertical and bounds; the safety properties follow from it,   *)
(* and so does the refinement of DeliveryLedger.                            *)
(***************************************************************************)
EXTENDS EmailDeliveryProps, TLAPS

USE DEF logVars, jobVars, mailVars, Status, Open, Settled, Resendable,
        JobState, Live, Request, Step, Body, Pending

-----------------------------------------------------------------------------
(* IndInv: initially, and one lemma per action that preserves it.           *)

LEMMA InitIndInv == Init => IndInv
  BY ConstantAssumption
  DEF Init, IndInv, TypeOK, LogInv, RequestInv, OwnerInv, StepInv, KnowledgeInv,
      FinalInv, OwnedInv, ResendInv, MayRunAgain

LEMMA CreateLogIndInv ==
  ASSUME IndInv, NEW l \in Log, NEW r \in Recipient \cup {NoOne},
         NEW from \in Pending, status[l] = "none", request[l] \in {"none", "resend"},
         CreateLog(l, r, from)
  PROVE  IndInv'
  <1>1. TypeOK'
    BY DEF IndInv, TypeOK, CreateLog
  <1>2. ASSUME NEW k \in Log
        PROVE  LogInv(k)'
    BY DEF IndInv, TypeOK, LogInv, RequestInv, OwnerInv, StepInv, KnowledgeInv, FinalInv,
           OwnedInv, ResendInv, MayRunAgain, CreateLog
  <1> QED BY <1>1, <1>2 DEF IndInv

LEMMA BeginResendIndInv ==
  ASSUME IndInv, NEW new \in SUBSET Log, NEW copyOf \in [new -> Log],
         \A k \in new : Unused(k) /\ status[copyOf[k]] \in Resendable,
         BeginResend(copyOf)
  PROVE  IndInv'
  <1>1. TypeOK'
    BY DEF IndInv, TypeOK, BeginResend, Unused
  <1>2. ASSUME NEW k \in Log
        PROVE  LogInv(k)'
    BY DEF IndInv, TypeOK, LogInv, RequestInv, OwnerInv, StepInv, KnowledgeInv, FinalInv,
           OwnedInv, ResendInv, MayRunAgain, BeginResend, Unused
  <1> QED BY <1>1, <1>2 DEF IndInv

LEMMA AddJobIndInv ==
  ASSUME IndInv, NEW l \in Log, AddJob(l)
  PROVE  IndInv'
  <1>1. TypeOK'
    BY DEF IndInv, TypeOK, AddJob
  <1>2. ASSUME NEW k \in Log
        PROVE  LogInv(k)'
    BY DEF IndInv, TypeOK, LogInv, RequestInv, OwnerInv, StepInv, KnowledgeInv, FinalInv,
           OwnedInv, ResendInv, MayRunAgain, AddJob
  <1> QED BY <1>1, <1>2 DEF IndInv

LEMMA AddRejectedIndInv ==
  ASSUME IndInv, NEW l \in Log, AddRejected(l)
  PROVE  IndInv'
  <1>1. TypeOK'
    BY DEF IndInv, TypeOK, AddRejected
  <1>2. ASSUME NEW k \in Log
        PROVE  LogInv(k)'
    BY DEF IndInv, TypeOK, LogInv, RequestInv, OwnerInv, StepInv, KnowledgeInv, FinalInv,
           OwnedInv, ResendInv, MayRunAgain, AddRejected
  <1> QED BY <1>1, <1>2 DEF IndInv

LEMMA SendDirectFallbackIndInv ==
  ASSUME IndInv, NEW l \in Log, SendDirectFallback(l)
  PROVE  IndInv'
  <1>1. TypeOK'
    BY DEF IndInv, TypeOK, SendDirectFallback
  <1>2. ASSUME NEW k \in Log
        PROVE  LogInv(k)'
    BY DEF IndInv, TypeOK, LogInv, RequestInv, OwnerInv, StepInv, KnowledgeInv, FinalInv,
           OwnedInv, ResendInv, MayRunAgain, SendDirectFallback
  <1> QED BY <1>1, <1>2 DEF IndInv

LEMMA StartAttemptIndInv ==
  ASSUME IndInv, NEW l \in Log, StartAttempt(l)
  PROVE  IndInv'
  <1>1. TypeOK'
    BY DEF IndInv, TypeOK, StartAttempt
  <1>2. ASSUME NEW k \in Log
        PROVE  LogInv(k)'
    BY DEF IndInv, TypeOK, LogInv, RequestInv, OwnerInv, StepInv, KnowledgeInv, FinalInv,
           OwnedInv, ResendInv, MayRunAgain, StartAttempt
  <1> QED BY <1>1, <1>2 DEF IndInv

LEMMA CheckSuppressionIndInv ==
  ASSUME IndInv, NEW l \in Log, CheckSuppression(l)
  PROVE  IndInv'
  <1>1. TypeOK'
    BY DEF IndInv, TypeOK, CheckSuppression, GoTo
  <1>2. ASSUME NEW k \in Log
        PROVE  LogInv(k)'
    BY DEF IndInv, TypeOK, LogInv, RequestInv, OwnerInv, StepInv, KnowledgeInv, FinalInv,
           OwnedInv, ResendInv, MayRunAgain, CheckSuppression, GoTo
  <1> QED BY <1>1, <1>2 DEF IndInv

LEMMA MarkSuppressedIndInv ==
  ASSUME IndInv, NEW l \in Log, MarkSuppressed(l)
  PROVE  IndInv'
  <1>1. TypeOK'
    BY DEF IndInv, TypeOK, MarkSuppressed, WriteLog, GoTo
  <1>2. ASSUME NEW k \in Log
        PROVE  LogInv(k)'
    BY DEF IndInv, TypeOK, LogInv, RequestInv, OwnerInv, StepInv, KnowledgeInv, FinalInv,
           OwnedInv, ResendInv, MayRunAgain, MarkSuppressed, WriteLog, GoTo
  <1> QED BY <1>1, <1>2 DEF IndInv

LEMMA MarkProcessingIndInv ==
  ASSUME IndInv, NEW l \in Log, MarkProcessing(l)
  PROVE  IndInv'
  <1>1. TypeOK'
    BY DEF IndInv, TypeOK, MarkProcessing, WriteLog, GoTo
  <1>2. ASSUME NEW k \in Log
        PROVE  LogInv(k)'
    BY DEF IndInv, TypeOK, LogInv, RequestInv, OwnerInv, StepInv, KnowledgeInv, FinalInv,
           OwnedInv, ResendInv, MayRunAgain, MarkProcessing, WriteLog, GoTo
  <1> QED BY <1>1, <1>2 DEF IndInv

LEMMA PrepareIndInv ==
  ASSUME IndInv, NEW l \in Log, Prepare(l)
  PROVE  IndInv'
  <1>1. TypeOK'
    BY DEF IndInv, TypeOK, Prepare, GoTo
  <1>2. ASSUME NEW k \in Log
        PROVE  LogInv(k)'
    BY DEF IndInv, TypeOK, LogInv, RequestInv, OwnerInv, StepInv, KnowledgeInv, FinalInv,
           OwnedInv, ResendInv, MayRunAgain, Prepare, GoTo
  <1> QED BY <1>1, <1>2 DEF IndInv

LEMMA TryIndInv ==
  ASSUME IndInv, NEW l \in Log, NEW from \in {"primary", "fallback"},
         NEW onError \in {"fallback", "catch"}, Try(l, from, onError)
  PROVE  IndInv'
  <1>1. TypeOK'
    BY DEF IndInv, TypeOK, Try, Accept, GoTo
  <1>2. ASSUME NEW k \in Log
        PROVE  LogInv(k)'
    BY DEF IndInv, TypeOK, LogInv, RequestInv, OwnerInv, StepInv, KnowledgeInv, FinalInv,
           OwnedInv, ResendInv, MayRunAgain, Try, Accept, GoTo
  <1> QED BY <1>1, <1>2 DEF IndInv

LEMMA SendPrimaryIndInv ==
  ASSUME IndInv, NEW l \in Log, SendPrimary(l)
  PROVE  IndInv'
  <1>1. CASE HasFallback
    <2>1. Try(l, "primary", "fallback") BY <1>1 DEF SendPrimary
    <2> QED BY <2>1, TryIndInv
  <1>2. CASE ~HasFallback
    <2>1. Try(l, "primary", "catch") BY <1>2 DEF SendPrimary
    <2> QED BY <2>1, TryIndInv
  <1> QED BY <1>1, <1>2

LEMMA SendFallbackIndInv ==
  ASSUME IndInv, NEW l \in Log, SendFallback(l)
  PROVE  IndInv'
  BY TryIndInv DEF SendFallback

LEMMA MarkSentIndInv ==
  ASSUME IndInv, NEW l \in Log, MarkSent(l)
  PROVE  IndInv'
  <1>1. TypeOK'
    BY DEF IndInv, TypeOK, MarkSent, WriteLog, GoTo
  <1>2. ASSUME NEW k \in Log
        PROVE  LogInv(k)'
    BY DEF IndInv, TypeOK, LogInv, RequestInv, OwnerInv, StepInv, KnowledgeInv, FinalInv,
           OwnedInv, ResendInv, MayRunAgain, MarkSent, WriteLog, GoTo
  <1> QED BY <1>1, <1>2 DEF IndInv

LEMMA WriteFailedIndInv ==
  ASSUME IndInv, NEW l \in Log, NEW to \in {"idle", "throw"},
         WriteLog(l, "failed", "catch", to),
         to = "idle" <=> direct[l],
         to = "throw" => attempts[l] + 1 >= MaxAttempts
  PROVE  IndInv'
  <1>1. TypeOK'
    BY DEF IndInv, TypeOK, WriteLog, GoTo
  <1>2. ASSUME NEW k \in Log
        PROVE  LogInv(k)'
    BY ConstantAssumption
    DEF IndInv, TypeOK, LogInv, RequestInv, OwnerInv, StepInv, KnowledgeInv, FinalInv,
           OwnedInv, ResendInv, MayRunAgain, WriteLog, GoTo
  <1> QED BY <1>1, <1>2 DEF IndInv

LEMMA WriteRetryIndInv ==
  ASSUME IndInv, NEW l \in Log, WriteLog(l, "queued", "catch", "throw"),
         ~direct[l], attempts[l] + 1 < MaxAttempts
  PROVE  IndInv'
  <1>1. TypeOK'
    BY DEF IndInv, TypeOK, WriteLog, GoTo
  <1>2. ASSUME NEW k \in Log
        PROVE  LogInv(k)'
    BY DEF IndInv, TypeOK, LogInv, RequestInv, OwnerInv, StepInv, KnowledgeInv, FinalInv,
           OwnedInv, ResendInv, MayRunAgain, WriteLog, GoTo
  <1> QED BY <1>1, <1>2 DEF IndInv

LEMMA RecordFailureIndInv ==
  ASSUME IndInv, NEW l \in Log, RecordFailure(l)
  PROVE  IndInv'
  <1> DEFINE final == direct[l] \/ attempts[l] >= MaxAttempts - 1
  <1>1. WriteLog(l, IF final THEN "failed" ELSE "queued", "catch",
                 IF direct[l] THEN "idle" ELSE "throw")
    BY DEF RecordFailure
  <1>2. ~final => attempts[l] + 1 < MaxAttempts
    BY ConstantAssumption DEF IndInv, TypeOK
  <1>3. CASE final /\ direct[l]
    <2>1. WriteLog(l, "failed", "catch", "idle") BY <1>1, <1>3
    <2> QED BY <1>3, <2>1, WriteFailedIndInv
  <1>4. CASE final /\ ~direct[l]
    <2>1. WriteLog(l, "failed", "catch", "throw") BY <1>1, <1>4
    <2>2. attempts[l] + 1 >= MaxAttempts
      BY <1>4, ConstantAssumption DEF IndInv, TypeOK
    <2> QED BY <1>4, <2>1, <2>2, WriteFailedIndInv
  <1>5. CASE ~final
    <2>1. WriteLog(l, "queued", "catch", "throw") BY <1>1, <1>5
    <2> QED BY <1>2, <1>5, <2>1, WriteRetryIndInv
  <1> QED BY <1>3, <1>4, <1>5

LEMMA DatabaseFailsIndInv ==
  ASSUME IndInv, NEW l \in Log, DatabaseFails(l)
  PROVE  IndInv'
  <1>1. TypeOK'
    <2>1. pc' \in [Log -> Step] /\ unrecorded' \in [Log -> BOOLEAN]
      <3>1. CASE pc[l] \in {"prepare", "record"}
        BY <3>1 DEF IndInv, TypeOK, DatabaseFails
      <3>2. CASE pc[l] \notin {"prepare", "record"}
        BY <3>2 DEF IndInv, TypeOK, DatabaseFails
      <3> QED BY <3>1, <3>2
    <2>2. lost' \in [Log -> Nat] /\ faults' \in Nat
      BY DEF IndInv, TypeOK, DatabaseFails
    <2> QED BY <2>1, <2>2 DEF IndInv, TypeOK, DatabaseFails
  <1>2. ASSUME NEW k \in Log
        PROVE  LogInv(k)'
    BY DEF IndInv, TypeOK, LogInv, RequestInv, OwnerInv, StepInv, KnowledgeInv, FinalInv,
           OwnedInv, ResendInv, MayRunAgain, DatabaseFails
  <1> QED BY <1>1, <1>2 DEF IndInv

LEMMA JobCompletesIndInv ==
  ASSUME IndInv, NEW l \in Log, JobCompletes(l)
  PROVE  IndInv'
  <1>1. TypeOK'
    BY DEF IndInv, TypeOK, JobCompletes, GoTo
  <1>2. ASSUME NEW k \in Log
        PROVE  LogInv(k)'
    BY DEF IndInv, TypeOK, LogInv, RequestInv, OwnerInv, StepInv, KnowledgeInv, FinalInv,
           OwnedInv, ResendInv, MayRunAgain, JobCompletes, GoTo
  <1> QED BY <1>1, <1>2 DEF IndInv

LEMMA JobFailsIndInv ==
  ASSUME IndInv, NEW l \in Log, JobFails(l)
  PROVE  IndInv'
  <1>1. TypeOK'
    BY DEF IndInv, TypeOK, JobFails, GoTo
  <1>2. ASSUME NEW k \in Log
        PROVE  LogInv(k)'
    BY DEF IndInv, TypeOK, LogInv, RequestInv, OwnerInv, StepInv, KnowledgeInv, FinalInv,
           OwnedInv, ResendInv, MayRunAgain, JobFails, GoTo
  <1> QED BY <1>1, <1>2 DEF IndInv

LEMMA JobStalledIndInv ==
  ASSUME IndInv, NEW l \in Log, JobStalled(l)
  PROVE  IndInv'
  <1>1. TypeOK'
    BY DEF IndInv, TypeOK, JobStalled, GoTo
  <1>2. ASSUME NEW k \in Log
        PROVE  LogInv(k)'
    <2>1. RequestInv(k)' /\ OwnerInv(k)' /\ StepInv(k)'
      BY DEF IndInv, TypeOK, LogInv, RequestInv, OwnerInv, StepInv, JobStalled, GoTo
    <2>2. KnowledgeInv(k)'
      BY DEF IndInv, TypeOK, LogInv, OwnerInv, KnowledgeInv, RequestInv, StepInv, JobStalled, GoTo
    <2>3. FinalInv(k)' /\ OwnedInv(k)'
      <3>1. CASE k = l
        <4>1. stalls'[l] > 0
          BY DEF IndInv, TypeOK, JobStalled
        <4>2. FinalInv(l)'
          BY <4>1 DEF FinalInv
        <4>3. OwnedInv(l)'
          BY DEF IndInv, TypeOK, JobStalled, GoTo, OwnedInv
        <4> QED BY <3>1, <4>2, <4>3
      <3>2. CASE k # l
        BY <3>2 DEF IndInv, TypeOK, LogInv, FinalInv, OwnedInv, MayRunAgain,
                    JobStalled, GoTo
      <3> QED BY <3>1, <3>2
    <2>4. ResendInv(k)'
      BY DEF IndInv, TypeOK, LogInv, ResendInv, JobStalled, GoTo
    <2> QED BY <2>1, <2>2, <2>3, <2>4 DEF LogInv
  <1> QED BY <1>1, <1>2 DEF IndInv

LEMMA CrashIndInv ==
  ASSUME IndInv, Crash
  PROVE  IndInv'
  <1>1. TypeOK'
    BY DEF IndInv, TypeOK, Crash
  <1>2. ASSUME NEW k \in Log
        PROVE  LogInv(k)'
    <2>1. RequestInv(k)' /\ OwnerInv(k)' /\ StepInv(k)'
      BY DEF IndInv, TypeOK, LogInv, RequestInv, OwnerInv, StepInv, Crash
    <2>2. KnowledgeInv(k)'
      BY DEF IndInv, TypeOK, LogInv, OwnerInv, KnowledgeInv, RequestInv, StepInv, Crash
    <2>3. FinalInv(k)' /\ OwnedInv(k)'
      BY DEF IndInv, TypeOK, LogInv, OwnerInv, StepInv, RequestInv, FinalInv,
             OwnedInv, MayRunAgain, Crash
    <2>4. ResendInv(k)'
      BY DEF IndInv, TypeOK, LogInv, ResendInv, Crash
    <2> QED BY <2>1, <2>2, <2>3, <2>4 DEF LogInv
  <1> QED BY <1>1, <1>2 DEF IndInv

LEMMA UnsubscribeIndInv ==
  ASSUME IndInv, NEW r \in Recipient, Unsubscribe(r)
  PROVE  IndInv'
  <1>1. TypeOK'
    BY DEF IndInv, TypeOK, Unsubscribe
  <1>2. ASSUME NEW k \in Log
        PROVE  LogInv(k)'
    BY DEF IndInv, TypeOK, LogInv, RequestInv, OwnerInv, StepInv, KnowledgeInv, FinalInv,
           OwnedInv, ResendInv, MayRunAgain, Unsubscribe
  <1> QED BY <1>1, <1>2 DEF IndInv

LEMMA AddSuppressionIndInv ==
  ASSUME IndInv, NEW r \in Recipient, AddSuppression(r)
  PROVE  IndInv'
  <1>1. TypeOK'
    BY DEF IndInv, TypeOK, AddSuppression
  <1>2. ASSUME NEW k \in Log
        PROVE  LogInv(k)'
    BY DEF IndInv, TypeOK, LogInv, RequestInv, OwnerInv, StepInv, KnowledgeInv, FinalInv,
           OwnedInv, ResendInv, MayRunAgain, AddSuppression
  <1> QED BY <1>1, <1>2 DEF IndInv

LEMMA RemoveSuppressionIndInv ==
  ASSUME IndInv, NEW r \in Recipient, RemoveSuppression(r)
  PROVE  IndInv'
  <1>1. TypeOK'
    BY DEF IndInv, TypeOK, RemoveSuppression
  <1>2. ASSUME NEW k \in Log
        PROVE  LogInv(k)'
    BY DEF IndInv, TypeOK, LogInv, RequestInv, OwnerInv, StepInv, KnowledgeInv, FinalInv,
           OwnedInv, ResendInv, MayRunAgain, RemoveSuppression
  <1> QED BY <1>1, <1>2 DEF IndInv

LEMMA StutterIndInv ==
  ASSUME IndInv, UNCHANGED vars
  PROVE  IndInv'
  BY DEF IndInv, TypeOK, LogInv, RequestInv, OwnerInv, StepInv, KnowledgeInv, FinalInv,
         OwnedInv, ResendInv, MayRunAgain, vars

-----------------------------------------------------------------------------
(* Every step preserves IndInv.                                             *)

LEMMA CreateRequestIndInv ==
  ASSUME IndInv, CreateRequest
  PROVE  IndInv'
  <1>1. ASSUME NEW l \in Log, NEW r \in Recipient, Enqueue(l, r) \/ Dispatch(l, r)
        PROVE  IndInv'
    BY <1>1, CreateLogIndInv DEF Enqueue, Dispatch, Unused
  <1>2. ASSUME NEW o \in Log, NEW l \in Log, ResendOne(o, l)
        PROVE  IndInv'
    <2> DEFINE copyOf == [k \in {l} |-> o]
    <2>1. copyOf \in [{l} -> Log] /\ {l} \in SUBSET Log
      OBVIOUS
    <2>2. \A k \in {l} : Unused(k) /\ status[copyOf[k]] \in Resendable
      BY <1>2 DEF ResendOne
    <2>3. BeginResend(copyOf)
      BY <1>2 DEF ResendOne
    <2> HIDE DEF copyOf
    <2> QED BY <2>1, <2>2, <2>3, BeginResendIndInv
  <1>3. ASSUME NEW new \in SUBSET Log, ResendFailed(new)
        PROVE  IndInv'
    <2>1. PICK copyOf \in Injection(new, {o \in Log : status[o] = "failed"}) :
            BeginResend(copyOf)
      BY <1>3 DEF ResendFailed
    <2>2. copyOf \in [new -> {o \in Log : status[o] = "failed"}]
      BY <2>1 DEF Injection
    <2>3. copyOf \in [new -> Log]
      BY <2>2
    <2>4. \A k \in new : Unused(k) /\ status[copyOf[k]] \in Resendable
      BY <1>3, <2>2 DEF ResendFailed
    <2> QED BY <2>1, <2>3, <2>4, BeginResendIndInv
  <1> QED BY <1>1, <1>2, <1>3 DEF CreateRequest

LEMMA HandleRequestIndInv ==
  ASSUME IndInv, NEW l \in Log, HandleRequest(l)
  PROVE  IndInv'
  <1>1. CASE ResendCreate(l)
    <2>1. status[l] = "none" /\ rcpt[l] \in Recipient \cup {NoOne}
      BY <1>1 DEF ResendCreate, IndInv, TypeOK, LogInv, RequestInv
    <2> QED BY <1>1, <2>1, CreateLogIndInv DEF ResendCreate
  <1> QED BY <1>1, AddJobIndInv, AddRejectedIndInv, SendDirectFallbackIndInv
          DEF HandleRequest

THEOREM NextIndInv == IndInv /\ [Next]_vars => IndInv'
  <1> SUFFICES ASSUME IndInv, [Next]_vars PROVE IndInv'
    OBVIOUS
  <1>1. CASE CreateRequest
    BY <1>1, CreateRequestIndInv
  <1>2. ASSUME NEW l \in Log, HandleRequest(l)
        PROVE  IndInv'
    BY <1>2, HandleRequestIndInv
  <1>3. ASSUME NEW l \in Log, Handler(l)
        PROVE  IndInv'
    BY <1>3, CheckSuppressionIndInv, MarkSuppressedIndInv, MarkProcessingIndInv,
       PrepareIndInv, SendPrimaryIndInv, SendFallbackIndInv, MarkSentIndInv,
       RecordFailureIndInv
    DEF Handler
  <1>4. ASSUME NEW l \in Log, Bull(l)
        PROVE  IndInv'
    BY <1>4, StartAttemptIndInv, JobCompletesIndInv, JobFailsIndInv, JobStalledIndInv
    DEF Bull
  <1>5. ASSUME NEW l \in Log, DatabaseFails(l)
        PROVE  IndInv'
    BY <1>5, DatabaseFailsIndInv
  <1>6. CASE Crash
    BY <1>6, CrashIndInv
  <1>7. CASE SuppressionList
    BY <1>7, UnsubscribeIndInv, AddSuppressionIndInv, RemoveSuppressionIndInv
    DEF SuppressionList
  <1>8. CASE UNCHANGED vars
    BY <1>8, StutterIndInv
  <1> QED BY <1>1, <1>2, <1>3, <1>4, <1>5, <1>6, <1>7, <1>8 DEF Next

\* The invariant of the delivery pipeline, for any number of logs, attempts,
\* faults and crashes.
THEOREM IndInvHolds == Spec => []IndInv
  BY InitIndInv, NextIndInv, PTL DEF Spec

-----------------------------------------------------------------------------
(* What follows from it.                                                    *)

\* Every variable of the pipeline keeps its type.
THEOREM TypeCorrect == Spec => []TypeOK
  <1>1. IndInv => TypeOK BY DEF IndInv
  <1> QED BY <1>1, IndInvHolds, PTL

\* Only a copy whose outcome was lost is followed by another (processJob, the
\* failover provider and sendDirectFallback send nothing twice of themselves).
THEOREM ExtraCopiesCorrect == Spec => []ExtraCopiesHadLostOutcome
  <1>1. IndInv => ExtraCopiesHadLostOutcome
    BY DEF IndInv, LogInv, KnowledgeInv, ExtraCopiesHadLostOutcome
  <1> QED BY <1>1, IndInvHolds, PTL

LEMMA IndInvFailed == IndInv => FailedMeansUndelivered
  <1> SUFFICES ASSUME IndInv, NEW l \in Log, status[l] \in Resendable
               PROVE  copies[l] <= lost[l]
    BY DEF FailedMeansUndelivered
  <1>1. pc[l] # "record"
    BY DEF IndInv, LogInv, StepInv
  <1>2. ~(copies[l] > lost[l])
    BY <1>1 DEF IndInv, LogInv, KnowledgeInv
  <1> QED BY <1>2 DEF IndInv, TypeOK

\* A log resendOne or resendFailed accepts is of an email the recipient has no
\* copy of, but for copies whose outcome was lost.
THEOREM FailedCorrect == Spec => []FailedMeansUndelivered
  BY IndInvFailed, IndInvHolds, PTL

\* A log marked sent was accepted, and the token it stores is in a copy.
THEOREM SentCorrect == Spec => []SentCopyIsTrackable
  <1>1. IndInv => SentCopyIsTrackable
    BY DEF IndInv, LogInv, KnowledgeInv, SentCopyIsTrackable
  <1> QED BY <1>1, IndInvHolds, PTL

\* A settled log has no job that will run again, but for a redelivered one.
THEOREM SettledCorrect == Spec => []SettledIsFinal
  <1>1. IndInv => SettledIsFinal
    BY DEF IndInv, LogInv, FinalInv, SettledIsFinal
  <1> QED BY <1>1, IndInvHolds, PTL

\* A resend adds no second copy, whatever the other logs do meanwhile.
THEOREM ResendCorrect == Spec => []ResendIsNoDuplicate
  <1>1. IndInv => ResendIsNoDuplicate
    <2> SUFFICES ASSUME IndInv, NEW l \in Log, origin[l] # l, copies[origin[l]] > 0
                 PROVE  lost[origin[l]] > 0 \/ stalls[origin[l]] > 0
      BY DEF ResendIsNoDuplicate
    <2>1. PICK o \in Log : o = origin[l]
      BY DEF IndInv, TypeOK
    <2>2. status[o] \in Resendable \/ stalls[o] > 0
      BY <2>1 DEF IndInv, LogInv, ResendInv
    <2>3. status[o] \in Resendable => copies[o] <= lost[o]
      BY IndInvFailed DEF FailedMeansUndelivered
    <2> QED BY <2>1, <2>2, <2>3 DEF IndInv, TypeOK
  <1> QED BY <1>1, IndInvHolds, PTL

\* A log that is stuck open is one whose last failure could not be recorded.
THEOREM OwnedCorrect == Spec => []OpenLogIsOwned
  <1>1. IndInv => OpenLogIsOwned
    BY DEF IndInv, LogInv, OwnedInv, OpenLogIsOwned
  <1> QED BY <1>1, IndInvHolds, PTL

-----------------------------------------------------------------------------
(* Every step of the pipeline is a step of DeliveryLedger or a stutter.     *)

LEMMA InitLedger == Init => Ledger!Init
  <1> SUFFICES ASSUME Init PROVE Ledger!Init
    OBVIOUS
  <1>1. LedgerOf = [l \in Log |-> "none"]
    BY DEF Init, LedgerOf
  <1>2. Redelivered = [l \in Log |-> FALSE]
    <2>1. \A l \in Log : (stalls[l] > 0) = FALSE
      BY DEF Init
    <2> QED BY <2>1 DEF Redelivered
  <1> QED BY <1>1, <1>2 DEF Init, Ledger!Init

LEMMA LedgerStutter ==
  ASSUME UNCHANGED <<status, stalls, mailVars>>
  PROVE  UNCHANGED Ledger!vars
  BY DEF Ledger!vars, LedgerOf, Redelivered

LEMMA CreateLogLedger ==
  ASSUME TypeOK, NEW l \in Log, NEW r, NEW from, status[l] = "none",
         CreateLog(l, r, from)
  PROVE  Ledger!Open(l)
  <1>1. LedgerOf' = [LedgerOf EXCEPT ![l] = "open"] /\ LedgerOf[l] = "none"
    BY DEF TypeOK, CreateLog, LedgerOf
  <1> QED BY <1>1 DEF Ledger!Open, CreateLog, Redelivered

\* a handler that settles a log finds it open, or redelivered
LEMMA SettleLedger ==
  ASSUME IndInv, NEW l \in Log, NEW new \in Settled, NEW from, NEW to,
         WriteLog(l, new, from, to), from \in Step \ {"idle", "throw", "return", "lost"},
         new = "sent" <=> from = "record"
  PROVE  Ledger!Settle(l, new)
  <1>1. LedgerOf' = [LedgerOf EXCEPT ![l] = new]
    BY DEF IndInv, TypeOK, WriteLog, LedgerOf
  <1>2. status[l] \in Open \/ (status[l] \in Settled /\ stalls[l] > 0)
    <2>1. pc[l] \in Step \ {"idle", "throw", "return"} /\ pc[l] # "lost"
      BY DEF WriteLog, GoTo
    <2>2. status[l] \in Settled => stalls[l] > 0
      BY <2>1 DEF IndInv, LogInv, FinalInv, MayRunAgain
    <2>3. status[l] \in Status
      BY DEF IndInv, TypeOK
    <2>4. pc[l] # "idle" => request[l] = "done"
      BY DEF IndInv, LogInv, RequestInv
    <2>5. status[l] # "none"
      BY <2>1, <2>4 DEF IndInv, LogInv, RequestInv
    <2> QED BY <2>2, <2>3, <2>5
  <1>3. LedgerOf[l] = "open" \/ (LedgerOf[l] \in Ledger!Outcome /\ Redelivered[l])
    BY <1>2 DEF LedgerOf, Redelivered, Ledger!Outcome
  <1>4. IF new = "sent" THEN copies[l] > lost[l] ELSE copies[l] <= lost[l]
    <2>1. pc[l] = from /\ copies[l] \in Nat /\ lost[l] \in Nat
      BY DEF IndInv, TypeOK, WriteLog, GoTo
    <2>2. pc[l] = "record" <=> copies[l] > lost[l]
      BY <2>1 DEF IndInv, LogInv, KnowledgeInv
    <2> QED BY <2>1, <2>2
  <1> QED BY <1>1, <1>3, <1>4 DEF Ledger!Settle, WriteLog, Redelivered

LEMMA MarkProcessingLedger ==
  ASSUME IndInv, NEW l \in Log, MarkProcessing(l)
  PROVE  Ledger!Open(l) \/ UNCHANGED Ledger!vars
  <1>1. LedgerOf' = [LedgerOf EXCEPT ![l] = "open"]
    BY DEF IndInv, TypeOK, MarkProcessing, WriteLog, LedgerOf
  <1>2. UNCHANGED <<copies, lost, Redelivered>>
    BY DEF MarkProcessing, WriteLog, Redelivered
  <1>3. CASE status[l] \in Open
    <2>1. LedgerOf[l] = "open" BY <1>3 DEF LedgerOf
    <2>2. LedgerOf' = LedgerOf BY <1>1, <2>1 DEF LedgerOf
    <2> QED BY <1>2, <2>2 DEF Ledger!vars
  <1>4. CASE status[l] \notin Open
    <2>1. status[l] \in Settled /\ stalls[l] > 0
      BY <1>4 DEF IndInv, TypeOK, LogInv, RequestInv, FinalInv, MayRunAgain,
                  MarkProcessing, WriteLog, GoTo
    <2>2. copies[l] <= lost[l]
      BY DEF IndInv, TypeOK, LogInv, KnowledgeInv, MarkProcessing, WriteLog, GoTo
    <2>3. LedgerOf[l] \in Ledger!Outcome /\ Redelivered[l]
      BY <2>1 DEF LedgerOf, Redelivered, Ledger!Outcome
    <2> QED BY <1>1, <1>2, <2>2, <2>3 DEF Ledger!Open
  <1> QED BY <1>3, <1>4

LEMMA RecordFailureLedger ==
  ASSUME IndInv, NEW l \in Log, RecordFailure(l)
  PROVE  Ledger!Settle(l, "failed") \/ UNCHANGED Ledger!vars
  <1> DEFINE final == direct[l] \/ attempts[l] >= MaxAttempts - 1
             to    == IF direct[l] THEN "idle" ELSE "throw"
  <1>1. CASE final
    <2>1. WriteLog(l, "failed", "catch", to) BY <1>1 DEF RecordFailure
    <2> QED BY <2>1, SettleLedger
  <1>2. CASE ~final
    <2>1. WriteLog(l, "queued", "catch", to) BY <1>2 DEF RecordFailure
    <2>2. status[l] \in Open
      BY <2>1 DEF IndInv, LogInv, StepInv, WriteLog, GoTo
    <2>3. LedgerOf' = LedgerOf
      BY <2>1, <2>2 DEF IndInv, TypeOK, WriteLog, LedgerOf
    <2> QED BY <2>1, <2>3 DEF WriteLog, Redelivered, Ledger!vars
  <1> QED BY <1>1, <1>2

LEMMA TryLedger ==
  ASSUME IndInv, NEW l \in Log, NEW from \in {"primary", "fallback"}, NEW onError,
         Try(l, from, onError)
  PROVE  Ledger!Deliver(l) \/ UNCHANGED Ledger!vars
  <1>1. UNCHANGED <<LedgerOf, Redelivered>>
    BY DEF Try, LedgerOf, Redelivered
  <1>2. copies[l] <= lost[l]
    <2>1. pc[l] = from
      BY DEF Try, GoTo
    <2>2. ~(copies[l] > lost[l])
      BY <2>1 DEF IndInv, LogInv, KnowledgeInv
    <2> QED BY <2>2 DEF IndInv, TypeOK
  <1>3. CASE UNCHANGED mailVars
    BY <1>1, <1>3 DEF Ledger!vars
  <1>4. CASE Accept(l, TRUE)
    BY <1>1, <1>2, <1>4 DEF Ledger!Deliver, Accept
  <1>5. CASE Accept(l, FALSE)
    <2>1. lost' = lost BY <1>5 DEF Accept, IndInv, TypeOK
    <2> QED BY <1>1, <1>2, <1>5, <2>1 DEF Ledger!Deliver, Accept
  <1> QED BY <1>3, <1>4, <1>5 DEF Try

LEMMA DatabaseFailsLedger ==
  ASSUME IndInv, NEW l \in Log, DatabaseFails(l)
  PROVE  Ledger!Forget({l}) \/ UNCHANGED Ledger!vars
  <1>1. UNCHANGED <<LedgerOf, Redelivered, copies>>
    BY DEF DatabaseFails, LedgerOf, Redelivered
  <1>2. CASE pc[l] = "record"
    <2>1. copies[l] > lost[l]
      BY <1>2 DEF IndInv, LogInv, KnowledgeInv
    <2>2. lost' = [k \in Log |-> IF k \in {l} THEN lost[k] + 1 ELSE lost[k]]
      BY <1>2 DEF DatabaseFails, IndInv, TypeOK
    <2> QED BY <1>1, <2>1, <2>2 DEF Ledger!Forget
  <1>3. CASE pc[l] # "record"
    <2>1. lost' = lost BY <1>3 DEF DatabaseFails, IndInv, TypeOK
    <2> QED BY <1>1, <2>1 DEF Ledger!vars
  <1> QED BY <1>2, <1>3

LEMMA CrashLedger ==
  ASSUME IndInv, Crash
  PROVE  \E S \in SUBSET Log : Ledger!Forget(S)
  <1> DEFINE S == {l \in Log : pc[l] = "record" \/ (pc[l] = "return" /\ status[l] = "sent")}
  <1>1. \A l \in S : copies[l] > lost[l]
    BY DEF IndInv, LogInv, KnowledgeInv
  <1>2. lost' = [l \in Log |-> IF l \in S THEN lost[l] + 1 ELSE lost[l]]
    BY DEF Crash
  <1>3. UNCHANGED <<LedgerOf, Redelivered, copies>>
    BY DEF Crash, LedgerOf, Redelivered
  <1>4. Ledger!Forget(S)
    BY <1>1, <1>2, <1>3 DEF Ledger!Forget
  <1> QED BY <1>4

LEMMA JobStalledLedger ==
  ASSUME IndInv, NEW l \in Log, JobStalled(l)
  PROVE  Ledger!Reopen(l)
  <1>1. Redelivered' = [Redelivered EXCEPT ![l] = TRUE]
    <2>1. stalls'[l] > 0 /\ \A k \in Log \ {l} : stalls'[k] = stalls[k]
      BY DEF IndInv, TypeOK, JobStalled
    <2>2. \A k \in Log : (stalls'[k] > 0) = [Redelivered EXCEPT ![l] = TRUE][k]
      BY <2>1 DEF Redelivered
    <2> QED BY <2>2 DEF Redelivered
  <1> QED BY <1>1 DEF Ledger!Reopen, JobStalled, LedgerOf

LEMMA HandlerLedger ==
  ASSUME IndInv, NEW l \in Log, Handler(l)
  PROVE  Ledger!Next \/ UNCHANGED Ledger!vars
  <1>1. CASE CheckSuppression(l) \/ Prepare(l)
    BY <1>1, LedgerStutter DEF CheckSuppression, Prepare
  <1>2. CASE MarkSuppressed(l)
    <2>1. Ledger!Settle(l, "suppressed") BY <1>2, SettleLedger DEF MarkSuppressed
    <2> QED BY <2>1 DEF Ledger!Next, Ledger!Outcome
  <1>3. CASE MarkSent(l)
    <2>1. Ledger!Settle(l, "sent") BY <1>3, SettleLedger DEF MarkSent
    <2> QED BY <2>1 DEF Ledger!Next, Ledger!Outcome
  <1>4. CASE MarkProcessing(l)
    BY <1>4, MarkProcessingLedger DEF Ledger!Next
  <1>5. CASE RecordFailure(l)
    BY <1>5, RecordFailureLedger DEF Ledger!Next, Ledger!Outcome
  <1>6. CASE SendPrimary(l) \/ SendFallback(l)
    <2>1. Ledger!Deliver(l) \/ UNCHANGED Ledger!vars
      BY <1>6, TryLedger DEF SendPrimary, SendFallback
    <2> QED BY <2>1 DEF Ledger!Next
  <1> QED BY <1>1, <1>2, <1>3, <1>4, <1>5, <1>6 DEF Handler

LEMMA NextLedger == IndInv /\ [Next]_vars => [Ledger!Next]_(Ledger!vars)
  <1> SUFFICES ASSUME IndInv, [Next]_vars
               PROVE  Ledger!Next \/ UNCHANGED Ledger!vars
    OBVIOUS
  <1>1. CASE CreateRequest
    <2>1. ASSUME NEW l \in Log, NEW r \in Recipient, Enqueue(l, r) \/ Dispatch(l, r)
          PROVE  Ledger!Open(l)
      BY <2>1, CreateLogLedger DEF Enqueue, Dispatch, Unused, IndInv
    <2>2. ASSUME NEW o \in Log, NEW l \in Log, ResendOne(o, l)
          PROVE  UNCHANGED Ledger!vars
      BY <2>2, LedgerStutter DEF ResendOne, BeginResend
    <2>3. ASSUME NEW new \in SUBSET Log, ResendFailed(new)
          PROVE  UNCHANGED Ledger!vars
      BY <2>3, LedgerStutter DEF ResendFailed, BeginResend
    <2> QED BY <1>1, <2>1, <2>2, <2>3 DEF CreateRequest, Ledger!Next
  <1>2. ASSUME NEW l \in Log, HandleRequest(l)
        PROVE  Ledger!Next \/ UNCHANGED Ledger!vars
    <2>1. CASE ResendCreate(l)
      <3>1. status[l] = "none" /\ TypeOK
        BY <2>1 DEF ResendCreate, IndInv, LogInv, RequestInv
      <3>2. Ledger!Open(l) BY <2>1, <3>1, CreateLogLedger DEF ResendCreate
      <3> QED BY <3>2 DEF Ledger!Next
    <2>2. CASE AddJob(l) \/ AddRejected(l) \/ SendDirectFallback(l)
      BY <2>2, LedgerStutter DEF AddJob, AddRejected, SendDirectFallback
    <2> QED BY <1>2, <2>1, <2>2 DEF HandleRequest
  <1>3. ASSUME NEW l \in Log, Handler(l)
        PROVE  Ledger!Next \/ UNCHANGED Ledger!vars
    BY <1>3, HandlerLedger
  <1>4. ASSUME NEW l \in Log, Bull(l)
        PROVE  Ledger!Next \/ UNCHANGED Ledger!vars
    <2>1. CASE JobStalled(l)
      BY <2>1, JobStalledLedger DEF Ledger!Next
    <2>2. CASE StartAttempt(l) \/ JobCompletes(l) \/ JobFails(l)
      BY <2>2, LedgerStutter DEF StartAttempt, JobCompletes, JobFails
    <2> QED BY <1>4, <2>1, <2>2 DEF Bull
  <1>5. ASSUME NEW l \in Log, DatabaseFails(l)
        PROVE  Ledger!Next \/ UNCHANGED Ledger!vars
    <2>1. {l} \in SUBSET Log OBVIOUS
    <2> QED BY <1>5, <2>1, DatabaseFailsLedger DEF Ledger!Next
  <1>6. CASE Crash
    BY <1>6, CrashLedger DEF Ledger!Next
  <1>7. CASE SuppressionList
    BY <1>7, LedgerStutter DEF SuppressionList, Unsubscribe, AddSuppression, RemoveSuppression
  <1>8. CASE UNCHANGED vars
    BY <1>8, LedgerStutter DEF vars
  <1> QED BY <1>1, <1>2, <1>3, <1>4, <1>5, <1>6, <1>7, <1>8 DEF Next

\* The pipeline implements the ledger the staff read: one outcome per log, true
\* to what the program knows, and final unless a job was delivered again.
THEOREM ImplementsLedger == Spec => LedgerSpec
  BY InitLedger, NextLedger, IndInvHolds, PTL DEF Spec, LedgerSpec, Ledger!Spec

-----------------------------------------------------------------------------
(* The suppression list.                                                    *)

\* What leaves the list, the requests that are done, and the attempts where they were,
\* or lets an attempt of an address that is not blocked go anywhere.
LEMMA BlockedStays ==
  ASSUME BlockedInv, UNCHANGED <<suppressed, blocked>>,
         \A l \in Log : blocked[l] =>
           /\ rcpt'[l] = rcpt[l] /\ request'[l] = "done"
           /\ pc'[l] # pc[l] => direct'[l] \/ pc'[l] \in {"idle", "suppress", "throw", "return", "lost"}
           /\ direct[l] => direct'[l]
  PROVE  BlockedInv'
  BY DEF BlockedInv, ChecksSuppression

LEMMA BeginAttemptBlocked ==
  ASSUME IndInv, BlockedInv, NEW l \in Log,
         blocked' = [blocked EXCEPT ![l] = rcpt[l] \in suppressed],
         request'[l] = "done", rcpt' = rcpt, suppressed' = suppressed,
         direct'[l] \/ rcpt[l] \notin suppressed \/ pc'[l] = "check",
         \A k \in Log \ {l} : UNCHANGED <<request[k], direct[k], pc[k]>>
  PROVE  BlockedInv'
  <1>1. \A k \in Log : blocked'[k] = IF k = l THEN rcpt[l] \in suppressed ELSE blocked[k]
    BY DEF IndInv, TypeOK
  <1> QED BY <1>1 DEF BlockedInv, ChecksSuppression

LEMMA CreateRequestBlocked ==
  ASSUME IndInv, BlockedInv, CreateRequest
  PROVE  BlockedInv'
  <1>1. ASSUME NEW l \in Log, NEW r \in Recipient, Enqueue(l, r) \/ Dispatch(l, r)
        PROVE  BlockedInv'
    <2>1. ~blocked[l]
      BY <1>1 DEF BlockedInv, Enqueue, Dispatch, Unused
    <2> QED BY <1>1, <2>1, BlockedStays
            DEF Enqueue, Dispatch, CreateLog, IndInv, TypeOK, BlockedInv
  <1>2. ASSUME NEW copyOf, \A k \in DOMAIN copyOf : Unused(k), BeginResend(copyOf)
        PROVE  BlockedInv'
    BY <1>2, BlockedStays DEF BeginResend, Unused, BlockedInv
  <1>3. ASSUME NEW o \in Log, NEW l \in Log, ResendOne(o, l)
        PROVE  BlockedInv'
    <2> DEFINE copyOf == [k \in {l} |-> o]
    <2>1. (\A k \in DOMAIN copyOf : Unused(k)) /\ BeginResend(copyOf)
      BY <1>3 DEF ResendOne
    <2> HIDE DEF copyOf
    <2> QED BY <1>2, <2>1
  <1>4. ASSUME NEW new \in SUBSET Log, ResendFailed(new)
        PROVE  BlockedInv'
    <2>1. PICK copyOf \in Injection(new, {o \in Log : status[o] = "failed"}) :
            BeginResend(copyOf)
      BY <1>4 DEF ResendFailed
    <2>2. DOMAIN copyOf = new
      BY <2>1 DEF Injection
    <2> QED BY <1>2, <1>4, <2>1, <2>2 DEF ResendFailed
  <1> QED BY <1>1, <1>3, <1>4 DEF CreateRequest

LEMMA HandleRequestBlocked ==
  ASSUME IndInv, BlockedInv, NEW l \in Log, HandleRequest(l)
  PROVE  BlockedInv'
  <1>1. CASE ResendCreate(l)
    <2>1. ~blocked[l]
      BY <1>1 DEF BlockedInv, ResendCreate
    <2> QED BY <1>1, <2>1, BlockedStays DEF ResendCreate, CreateLog, IndInv, TypeOK, BlockedInv
  <1>2. CASE AddJob(l) \/ AddRejected(l)
    BY <1>2, BlockedStays DEF AddJob, AddRejected, IndInv, TypeOK, BlockedInv
  <1>3. CASE SendDirectFallback(l)
    BY <1>3, BeginAttemptBlocked DEF SendDirectFallback, IndInv, TypeOK
  <1> QED BY <1>1, <1>2, <1>3 DEF HandleRequest

LEMMA HandlerBlocked ==
  ASSUME IndInv, BlockedInv, NEW l \in Log, Handler(l) \/ DatabaseFails(l)
  PROVE  BlockedInv'
  <1>1. /\ pc \in [Log -> Step]
        /\ UNCHANGED <<suppressed, blocked, rcpt, request, direct>>
    BY DEF IndInv, TypeOK, Handler, CheckSuppression, MarkSuppressed, MarkProcessing, Prepare,
           SendPrimary, SendFallback, Try, MarkSent, RecordFailure, WriteLog, DatabaseFails
  <1>2. /\ \A k \in Log \ {l} : pc'[k] = pc[k]
        /\ pc[l] = "check" =>
             pc'[l] \in {"throw", IF rcpt[l] \in suppressed THEN "suppress" ELSE "mark"}
                        \cup IF direct[l] THEN {"idle"} ELSE {}
        /\ pc[l] = "suppress" => pc'[l] \in {"idle", "throw", "return"}
        /\ pc[l] \in {"check", "suppress", "mark", "prepare", "primary", "fallback",
                      "record", "catch"}
    BY <1>1 DEF Handler, CheckSuppression, MarkSuppressed, MarkProcessing, Prepare,
           SendPrimary, SendFallback, Try, MarkSent, RecordFailure, WriteLog, GoTo, DatabaseFails
  <1> QED BY <1>1, <1>2, BlockedStays DEF BlockedInv

LEMMA BullBlocked ==
  ASSUME IndInv, BlockedInv, NEW l \in Log, Bull(l)
  PROVE  BlockedInv'
  <1>1. CASE StartAttempt(l)
    <2>1. request[l] = "done"
      BY <1>1 DEF StartAttempt, IndInv, TypeOK, LogInv, RequestInv
    <2>2. rcpt[l] \notin suppressed \/ pc'[l] = "check"
      BY <1>1 DEF StartAttempt, BlockedInv, IndInv, TypeOK
    <2> QED BY <1>1, <2>1, <2>2, BeginAttemptBlocked DEF StartAttempt, IndInv, TypeOK
  <1>2. CASE JobCompletes(l) \/ JobFails(l) \/ JobStalled(l)
    BY <1>2, BlockedStays DEF JobCompletes, JobFails, JobStalled, GoTo, IndInv, TypeOK, BlockedInv
  <1> QED BY <1>1, <1>2 DEF Bull

LEMMA ListBlocked ==
  ASSUME IndInv, BlockedInv, SuppressionList
  PROVE  BlockedInv'
  <1>1. ASSUME NEW r \in Recipient, Unsubscribe(r) \/ AddSuppression(r) PROVE BlockedInv'
    BY <1>1 DEF Unsubscribe, AddSuppression, BlockedInv, ChecksSuppression
  <1>2. ASSUME NEW r \in Recipient, RemoveSuppression(r) PROVE BlockedInv'
    BY <1>2 DEF RemoveSuppression, BlockedInv, ChecksSuppression
  <1> QED BY <1>1, <1>2 DEF SuppressionList

LEMMA NextBlocked ==
  ASSUME IndInv, BlockedInv, [Next]_vars
  PROVE  BlockedInv'
  <1>1. CASE Crash
    BY <1>1, BlockedStays DEF Crash, BlockedInv
  <1>2. CASE UNCHANGED vars
    BY <1>2, BlockedStays DEF vars, BlockedInv
  <1> QED BY <1>1, <1>2, CreateRequestBlocked, HandleRequestBlocked, HandlerBlocked, BullBlocked,
             ListBlocked DEF Next

\* A copy leaves only past the check.
LEMMA CopyLeaves ==
  ASSUME IndInv, [Next]_vars, NEW l \in Log, copies'[l] > copies[l]
  PROVE  pc[l] \in {"primary", "fallback"}
  <1>1. copies \in [Log -> Nat]
    BY DEF IndInv, TypeOK
  <1>2. ASSUME copies' = copies PROVE FALSE
    BY <1>1, <1>2
  <1>3. ASSUME NEW k \in Log, SendPrimary(k) \/ SendFallback(k)
        PROVE  pc[l] \in {"primary", "fallback"}
    <2>1. pc[k] \in {"primary", "fallback"}
      BY <1>3 DEF SendPrimary, SendFallback, Try, GoTo
    <2>2. k = l
      BY <1>1, <1>3 DEF SendPrimary, SendFallback, Try, Accept
    <2> QED BY <2>1, <2>2
  <1>4. CASE CreateRequest
    BY <1>2, <1>4 DEF CreateRequest, Enqueue, Dispatch, CreateLog, ResendOne, ResendFailed, BeginResend
  <1>5. ASSUME NEW k \in Log, HandleRequest(k) \/ Bull(k) \/ DatabaseFails(k) PROVE FALSE
    BY <1>2, <1>5 DEF HandleRequest, ResendCreate, CreateLog, AddJob, AddRejected,
                      SendDirectFallback, Bull, StartAttempt, JobCompletes, JobFails, JobStalled,
                      DatabaseFails
  <1>6. ASSUME NEW k \in Log, Handler(k), ~SendPrimary(k), ~SendFallback(k) PROVE FALSE
    BY <1>2, <1>6 DEF Handler, CheckSuppression, MarkSuppressed, MarkProcessing, Prepare,
                      MarkSent, RecordFailure, WriteLog
  <1>7. CASE Crash \/ SuppressionList \/ UNCHANGED vars
    BY <1>2, <1>7 DEF Crash, SuppressionList, Unsubscribe, AddSuppression, RemoveSuppression, vars
  <1> QED BY <1>3, <1>4, <1>5, <1>6, <1>7 DEF Next

\* No attempt of a worker, first or retried, sends to an address that was suppressed
\* when the attempt began and still is, whichever vertical, faults and crashes.
THEOREM SuppressionCorrect == Spec => QueuedSendRespectsSuppression
  <1> DEFINE Respects == \A l \in Log : copies'[l] > copies[l] /\ ~direct[l] =>
                           ~(blocked[l] /\ rcpt[l] \in suppressed)
  <1>1. Init => BlockedInv
    BY DEF Init, BlockedInv
  <1>2. IndInv /\ BlockedInv /\ [Next]_vars => BlockedInv'
    BY NextBlocked
  <1>3. IndInv /\ BlockedInv /\ [Next]_vars => [Respects]_vars
    BY CopyLeaves DEF BlockedInv
  <1> QED BY <1>1, <1>2, <1>3, IndInvHolds, PTL DEF Spec, QueuedSendRespectsSuppression
=============================================================================
