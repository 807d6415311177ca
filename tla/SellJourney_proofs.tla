-------------------------- MODULE SellJourney_proofs --------------------------
(***************************************************************************)
(* The order of the sell workflow is kept by any number of concurrent staff *)
(* requests and clicks.                                                     *)
(***************************************************************************)
EXTENDS SellJourneyProps, FiniteSetTheorems, TLAPS

LEMMA WorkflowFacts ==
  /\ Workflow = {"request-received", "pickup-scheduled", "inspection-underway",
                 "offer-ready", "payment-sent", "completed"}
  /\ "device-reship" \notin Workflow
  <1>1. DOMAIN JOURNEY_WORKFLOW_STEPS = 1..6
    BY DEF JOURNEY_WORKFLOW_STEPS
  <1>2. Workflow = {"request-received", "pickup-scheduled", "inspection-underway",
                 "offer-ready", "payment-sent", "completed"}
    BY <1>1 DEF Workflow, JOURNEY_WORKFLOW_STEPS
  <1> QED BY <1>2

LEMMA IndexFacts ==
  /\ Index("request-received") = 1
  /\ Index("pickup-scheduled") = 2
  /\ Index("inspection-underway") = 3
  /\ Index("offer-ready") = 4
  /\ Index("payment-sent") = 5
  /\ Index("completed") = 6
  <1>1. DOMAIN JOURNEY_WORKFLOW_STEPS = 1..6
    BY DEF JOURNEY_WORKFLOW_STEPS
  <1>2. ASSUME NEW i \in 1..6
        PROVE  Index(JOURNEY_WORKFLOW_STEPS[i]) = i
    <2>1. \A k \in 1..6 : JOURNEY_WORKFLOW_STEPS[k] = JOURNEY_WORKFLOW_STEPS[i] => k = i
      BY DEF JOURNEY_WORKFLOW_STEPS
    <2> QED BY <1>1, <2>1 DEF Index
  <1>3. /\ JOURNEY_WORKFLOW_STEPS[1] = "request-received"
        /\ JOURNEY_WORKFLOW_STEPS[2] = "pickup-scheduled"
        /\ JOURNEY_WORKFLOW_STEPS[3] = "inspection-underway"
        /\ JOURNEY_WORKFLOW_STEPS[4] = "offer-ready"
        /\ JOURNEY_WORKFLOW_STEPS[5] = "payment-sent"
        /\ JOURNEY_WORKFLOW_STEPS[6] = "completed"
    BY DEF JOURNEY_WORKFLOW_STEPS
  <1>4. \A i \in 1..6 : Index(JOURNEY_WORKFLOW_STEPS[i]) = i
    BY <1>2
  <1> QED BY <1>3, <1>4

LEMMA BeforeFacts ==
  /\ Before("request-received") = {}
  /\ Before("pickup-scheduled") = {"request-received"}
  /\ Before("inspection-underway") = {"request-received", "pickup-scheduled"}
  /\ Before("offer-ready") = {"request-received", "pickup-scheduled", "inspection-underway"}
  /\ Before("payment-sent") = Workflow \ {"payment-sent", "completed"}
  /\ Before("completed") = Workflow \ {"completed"}
  BY WorkflowFacts, IndexFacts DEF Before

LEMMA NextStepType ==
  ASSUME NEW done, ~(Workflow \subseteq done)
  PROVE  NextStep(done) \in Workflow \ done
  <1>1. \E t \in Workflow \ done : Before(t) \subseteq done
    BY WorkflowFacts, BeforeFacts
  <1> QED BY <1>1 DEF NextStep

-----------------------------------------------------------------------------
(* What one write does to the document.                                     *)

LEMMA NextGenerationType ==
  ASSUME NEW j \in Journey, NEW step
  PROVE  NextGeneration(j, step) \in Int
  BY DEF NextGeneration, EffectiveOfferGen, Journey, Generation

LEMMA NewJourneyType == NewJourney \in Journey
  BY WorkflowFacts
  DEF NewJourney, NewData, Unset, Journey, Data, Generation, Status, StepKey

LEMMA KeptFacts ==
  ASSUME NEW j \in Journey, NEW op
  PROVE  /\ Kept(op, j) \in Journey
         /\ Kept(op, j).completed \in {{}, j.completed}
         /\ Kept(op, j).sent \in {{}, j.sent}
         /\ op = "send" => Kept(op, j).completed = j.completed
  <1>1. NewJourney \in Journey /\ NewJourney.completed = {} /\ NewJourney.sent = {}
    BY NewJourneyType DEF NewJourney
  <1>2. CASE op \in {"send", "resend"}
    BY <1>1, <1>2 DEF Kept, Journey
  <1>3. CASE op = "reship"
    BY <1>1, <1>3 DEF Kept, Journey
  <1>4. CASE op = "edit"
    BY <1>1, <1>4 DEF Kept, Journey
  <1>5. CASE op \notin {"send", "resend", "reship", "edit"}
    BY <1>1, <1>5 DEF Kept
  <1> QED BY <1>2, <1>3, <1>4, <1>5

LEMMA SentType ==
  ASSUME NEW j \in Journey, NEW r, r.seen \in Journey, r.step \in Workflow
  PROVE  /\ Sent(j, r) \in Journey
         /\ Sent(j, r).completed = r.seen.completed \cup {r.step}
         /\ Sent(j, r).sent = j.sent \cup {r.step}
  <1> DEFINE done == r.seen.completed \cup {r.step}
  <1>1. done \in SUBSET StepKey /\ r.step \in StepKey
    BY DEF Journey, StepKey
  <1>2. (IF r.step = "offer-ready" \/ Workflow \subseteq done THEN r.step ELSE NextStep(done)) \in StepKey
    BY <1>1, NextStepType DEF StepKey
  <1>3. NextGeneration(r.seen, r.step) \in Int
    BY NextGenerationType
  <1>4. \A b \in BOOLEAN : (IF b THEN "completed" ELSE "active") \in Status
    BY DEF Status
  <1> QED BY <1>1, <1>2, <1>3 DEF Sent, Journey, Generation, Status

LEMMA DataFacts ==
  /\ \A j \in Journey : j.data \in Data
  /\ Unset \in Generation
  BY DEF Journey, Unset, Generation

LEMMA OfferAnswerType ==
  ASSUME NEW d \in Data, NEW b \in BOOLEAN, NEW g \in Generation
  PROVE  [d EXCEPT !.accepted = b, !.acceptedOf = g] \in Data
  BY DEF Data

LEMMA RequestAnswerType ==
  ASSUME NEW d \in Data, NEW a \in BOOLEAN, NEW g \in Generation,
         NEW b \in BOOLEAN, NEW h \in Generation
  PROVE  [d EXCEPT !.ack = a, !.ackOf = g, !.declined = b, !.declinedOf = h] \in Data
  BY DEF Data

LEMMA ResentType ==
  ASSUME NEW j \in Journey, NEW r, r.seen \in Journey
  PROVE  /\ Resent(j, r) \in Journey
         /\ Resent(j, r).completed = j.completed
         /\ Resent(j, r).sent = j.sent
  <1>1. NextGeneration(r.seen, r.step) \in Int
    BY NextGenerationType
  <1>2. {"request-received", "offer-ready"} \subseteq StepKey
    BY WorkflowFacts DEF StepKey
  <1>3. CASE r.step \in j.sent /\ r.step = "offer-ready"
    <2>1. [j.data EXCEPT !.accepted = FALSE, !.acceptedOf = Unset] \in Data
      BY DataFacts, OfferAnswerType
    <2> QED BY <1>1, <1>2, <1>3, <2>1 DEF Resent, Journey, Generation, Status
  <1>4. CASE r.step \in j.sent /\ r.step = "request-received"
    <2>1. [j.data EXCEPT !.ack = FALSE, !.ackOf = Unset,
                         !.declined = FALSE, !.declinedOf = Unset] \in Data
      BY DataFacts, RequestAnswerType
    <2> QED BY <1>1, <1>2, <1>4, <2>1 DEF Resent, Journey, Generation, Status
  <1>5. CASE ~(r.step \in j.sent /\ r.step \in Gate)
    BY <1>5 DEF Resent, Gate
  <1> QED BY <1>3, <1>4, <1>5 DEF Gate

LEMMA ReshippedType ==
  ASSUME NEW j \in Journey, NEW r, r.seen \in Journey
  PROVE  /\ Reshipped(j, r) \in Journey
         /\ Reshipped(j, r).completed = (r.seen.sent \cap Workflow) \cup {"device-reship"}
         /\ Reshipped(j, r).sent = j.sent \cup {"device-reship"}
  BY DEF Reshipped, Journey, Data, StepKey, Status

LEMMA OfferDeclinedType ==
  ASSUME NEW j \in Journey
  PROVE  /\ OfferDeclined(j) \in Journey
         /\ OfferDeclined(j).completed = j.completed
         /\ OfferDeclined(j).sent = j.sent
  <1>1. [j.data EXCEPT !.accepted = FALSE, !.acceptedOf = Unset] \in Data
    BY DataFacts, OfferAnswerType
  <1> QED BY <1>1, WorkflowFacts DEF OfferDeclined, Journey, StepKey, Status

LEMMA AnsweredType ==
  ASSUME NEW j \in Journey, NEW k, k.answer \in Answer, k.gen \in Generation
  PROVE  /\ Answered(j, k) \in Journey
         /\ Answered(j, k).completed = j.completed
         /\ Answered(j, k).sent = j.sent
  <1>1. {"request-received", "payment-sent"} \subseteq StepKey
    BY WorkflowFacts DEF StepKey
  <1>2. CASE k.answer = "accept offer"
    <2>1. [j.data EXCEPT !.accepted = TRUE, !.acceptedOf = k.gen] \in Data
      BY DataFacts, OfferAnswerType
    <2> QED BY <1>1, <1>2, <2>1 DEF Answered, Journey, Status
  <1>3. CASE k.answer = "decline offer"
    BY <1>3, OfferDeclinedType DEF Answered
  <1>4. CASE k.answer = "accept request"
    <2>1. [j.data EXCEPT !.ack = TRUE, !.ackOf = k.gen,
                         !.declined = FALSE, !.declinedOf = Unset] \in Data
      BY DataFacts, RequestAnswerType
    <2> QED BY <1>4, <2>1 DEF Answered, Journey, Status
  <1>5. CASE k.answer = "decline request"
    <2>1. [j.data EXCEPT !.ack = FALSE, !.ackOf = Unset,
                         !.declined = TRUE, !.declinedOf = k.gen] \in Data
      BY DataFacts, RequestAnswerType
    <2> QED BY <1>1, <1>5, <2>1 DEF Answered, Journey, Status
  <1> QED BY <1>2, <1>3, <1>4, <1>5 DEF Answer

\* A write keeps the document in order, if the copy it works from was.
LEMMA WriteInOrder ==
  ASSUME NEW j \in Journey, NEW r, r.seen \in Journey,
         InOrder(j.completed), InOrder(j.sent), j.completed \subseteq j.sent,
         InOrder(r.seen.completed), InOrder(r.seen.sent),
         r.seen.completed \cup r.seen.sent \subseteq j.sent,
         r.op = "send" => r.step \in Workflow /\ Before(r.step) \subseteq r.seen.completed,
         r.op \in {"send", "resend", "reship", "cancel", "decline", "edit"}
  PROVE  /\ Write(j, r) \in Journey
         /\ InOrder(Write(j, r).completed) /\ InOrder(Write(j, r).sent)
         /\ Write(j, r).completed \subseteq Write(j, r).sent
         /\ j.sent \subseteq Write(j, r).sent
  <1>1. CASE r.op = "send"
    <2>1. Write(j, r) = Sent(j, r)
      BY <1>1 DEF Write
    <2> QED BY <1>1, <2>1, SentType DEF InOrder
  <1>2. CASE r.op = "resend"
    <2>1. Write(j, r) = Resent(j, r)
      BY <1>2 DEF Write
    <2> QED BY <2>1, ResentType
  <1>3. CASE r.op = "reship"
    <2>1. Write(j, r) = Reshipped(j, r)
      BY <1>3 DEF Write
    <2>2. \A t \in Workflow : Before(t) \subseteq Workflow
      BY DEF Before
    <2> QED BY <2>1, <2>2, ReshippedType, WorkflowFacts DEF InOrder
  <1>4. CASE r.op = "decline"
    <2>1. Write(j, r) = OfferDeclined(j)
      BY <1>4 DEF Write
    <2> QED BY <2>1, OfferDeclinedType
  <1>5. CASE r.op = "cancel"
    BY <1>5 DEF Write, Journey, Status
  <1>6. CASE r.op = "edit"
    BY <1>6 DEF Write, Journey
  <1> QED BY <1>1, <1>2, <1>3, <1>4, <1>5, <1>6

-----------------------------------------------------------------------------
(* Every step keeps the order.                                              *)

Staffs == {"send", "resend", "reship", "cancel", "decline", "edit"}

LEMMA InitOrder == Init => OrderInv
  <1> SUFFICES ASSUME Init PROVE OrderInv
    OBVIOUS
  <1>1. NewJourney \in Journey /\ NewJourney.completed = {} /\ NewJourney.sent = {}
    BY NewJourneyType DEF NewJourney
  <1>2. NoRequest.seen = NewJourney /\ NoRequest.op = "none" /\ NoRequest.pc = "idle"
    BY DEF NoRequest
  <1>3. NoRequest \in [pc : {"idle", "send", "write"}, op : Ops \cup {"none"},
                       step : StepKey \cup {"none"}, seen : Journey]
    BY <1>1 DEF NoRequest
  <1>4. NoClick \in [pc : {"idle", "write"}, answer : Answer \cup {"none"},
                     mail : Nat, gen : Generation]
    BY DEF NoClick, Generation
  <1>5. << >> \in Seq(Generation)
    OBVIOUS
  <1>6. TypeOK
    BY <1>1, <1>3, <1>4, <1>5 DEF Init, TypeOK
  <1>7. KindInv
    BY <1>2 DEF Init, KindInv, NoClick
  <1>8. StepsInOrder
    BY <1>1 DEF Init, StepsInOrder, InOrder
  <1>9. \A s \in Staff : CopyInv(request[s])
    BY <1>1, <1>2 DEF Init, CopyInv, InOrder
  <1> QED BY <1>6, <1>7, <1>8, <1>9 DEF OrderInv

\* Whatever only changes the requests keeps the order, if the new requests do.
LEMMA RequestStep ==
  ASSUME OrderInv, NEW s \in Staff,
         NEW r \in [pc : {"idle", "send", "write"}, op : Ops \cup {"none"},
                    step : StepKey \cup {"none"}, seen : Journey],
         request' = [request EXCEPT ![s] = r],
         r.pc # "idle" => r.op \in Staffs,
         CopyInv(r),
         UNCHANGED <<journey, exists, click, pressed>>,
         mails' \in [Gate -> Seq(Generation)],
         faults' \in Nat
  PROVE  OrderInv'
  <1>1. TypeOK'
    BY DEF OrderInv, TypeOK
  <1>2. \A t \in Staff : request'[t] = IF t = s THEN r ELSE request[t]
    BY DEF OrderInv, TypeOK
  <1>3. KindInv'
    BY <1>2 DEF OrderInv, KindInv, Staffs
  <1>4. StepsInOrder'
    BY DEF OrderInv, StepsInOrder
  <1>5. ASSUME NEW t \in Staff
        PROVE  CopyInv(request[t])'
    <2>1. CopyInv(request'[t])
      BY <1>2 DEF OrderInv
    <2> QED BY <2>1 DEF CopyInv
  <1> QED BY <1>1, <1>3, <1>4, <1>5 DEF OrderInv

LEMMA BeginOrder ==
  ASSUME OrderInv, NEW s \in Staff, NEW op \in Staffs,
         NEW step \in StepKey \cup {"none"}, NEW pc \in {"send", "write"},
         op = "send" => step \in Workflow /\ Before(step) \subseteq journey.completed,
         Begin(s, op, step, pc)
  PROVE  OrderInv'
  <1> DEFINE r == [pc |-> pc, op |-> op, step |-> step, seen |-> Kept(op, journey)]
  <1>1. journey \in Journey
    BY DEF OrderInv, TypeOK
  <1>2. /\ r.seen \in Journey
        /\ r.seen.completed \in {{}, journey.completed}
        /\ r.seen.sent \in {{}, journey.sent}
        /\ op = "send" => r.seen.completed = journey.completed
    BY <1>1, KeptFacts
  <1>3. r \in [pc : {"idle", "send", "write"}, op : Ops \cup {"none"},
               step : StepKey \cup {"none"}, seen : Journey]
    BY <1>2 DEF Begin
  <1>4. CopyInv(r)
    BY <1>2 DEF CopyInv, OrderInv, StepsInOrder, InOrder
  <1> HIDE DEF r
  <1>5. request' = [request EXCEPT ![s] = r]
    BY DEF Begin, r
  <1>6. r.op \in Staffs
    BY DEF r
  <1>7. /\ UNCHANGED <<journey, exists, click, pressed>>
        /\ mails' \in [Gate -> Seq(Generation)]
        /\ faults' \in Nat
    BY DEF Begin, OrderInv, TypeOK
  <1> QED BY <1>3, <1>4, <1>5, <1>6, <1>7, RequestStep

LEMMA IdleRequest ==
  ASSUME OrderInv, NEW s \in Staff
  PROVE  /\ NoRequest \in [pc : {"idle", "send", "write"}, op : Ops \cup {"none"},
                           step : StepKey \cup {"none"}, seen : Journey]
         /\ NoRequest.pc = "idle"
         /\ CopyInv(NoRequest)
  <1>1. NewJourney \in Journey /\ NewJourney.completed = {} /\ NewJourney.sent = {}
    BY NewJourneyType DEF NewJourney
  <1>2. NoRequest.seen = NewJourney /\ NoRequest.op = "none"
    BY DEF NoRequest
  <1> QED BY <1>1, <1>2 DEF NoRequest, CopyInv, InOrder

LEMMA ReadOrder ==
  ASSUME OrderInv, NEW s \in Staff,
         \/ \E step \in Steps : ReadSend(s, step)
         \/ \E step \in Resends : ReadResend(s, step)
         \/ ReadReship(s) \/ ReadCancel(s) \/ ReadDecline(s) \/ ReadEdit(s)
  PROVE  OrderInv'
  <1>1. ASSUME NEW step \in Steps, ReadSend(s, step) PROVE OrderInv'
    <2>1. /\ step \in Workflow /\ Before(step) \subseteq journey.completed
          /\ Begin(s, "send", step, "send")
      BY <1>1, StepsAssumption DEF ReadSend, MaySend
    <2> QED BY <2>1, BeginOrder DEF Staffs, StepKey
  <1>2. ASSUME NEW step \in Resends, ReadResend(s, step) PROVE OrderInv'
    <2>1. step \in Workflow /\ Begin(s, "resend", step, "send")
      BY <1>2, StepsAssumption DEF ReadResend
    <2> QED BY <2>1, BeginOrder DEF Staffs, StepKey
  <1>3. ASSUME ReadReship(s) PROVE OrderInv'
    BY <1>3, BeginOrder DEF ReadReship, Staffs, StepKey
  <1>4. ASSUME ReadCancel(s) PROVE OrderInv'
    BY <1>4, BeginOrder DEF ReadCancel, Staffs, StepKey
  <1>5. ASSUME ReadDecline(s) PROVE OrderInv'
    BY <1>5, BeginOrder DEF ReadDecline, Staffs, StepKey
  <1>6. ASSUME ReadEdit(s) PROVE OrderInv'
    BY <1>6, BeginOrder DEF ReadEdit, Staffs, StepKey
  <1> QED BY <1>1, <1>2, <1>3, <1>4, <1>5, <1>6

LEMMA SendEmailOrder ==
  ASSUME OrderInv, NEW s \in Staff, SendEmail(s)
  PROVE  OrderInv'
  <1> DEFINE r == [request[s] EXCEPT !.pc = "write"]
  <1>1. request[s] \in [pc : {"idle", "send", "write"}, op : Ops \cup {"none"},
                        step : StepKey \cup {"none"}, seen : Journey]
    BY DEF OrderInv, TypeOK
  <1>2. /\ r \in [pc : {"idle", "send", "write"}, op : Ops \cup {"none"},
                  step : StepKey \cup {"none"}, seen : Journey]
        /\ r.op = request[s].op /\ r.step = request[s].step /\ r.seen = request[s].seen
    BY <1>1
  <1>3. CopyInv(r)
    BY <1>2 DEF OrderInv, CopyInv
  <1>4. r.op \in Staffs
    BY <1>2 DEF OrderInv, KindInv, SendEmail, Staffs
  <1>5. NextGeneration(request[s].seen, request[s].step) \in Generation
    BY <1>1, NextGenerationType DEF Generation
  <1>6. mails' \in [Gate -> Seq(Generation)]
    <2>1. mails \in [Gate -> Seq(Generation)]
      BY DEF OrderInv, TypeOK
    <2>2. \A q \in Seq(Generation) : \A g \in Generation : Append(q, g) \in Seq(Generation)
      OBVIOUS
    <2>3. CASE request[s].step \in Gate
      <3>1. Append(mails[request[s].step], NextGeneration(request[s].seen, request[s].step))
              \in Seq(Generation)
        BY <1>5, <2>1, <2>2, <2>3
      <3> QED BY <2>1, <2>3, <3>1 DEF SendEmail
    <2>4. CASE request[s].step \notin Gate
      BY <2>1, <2>4 DEF SendEmail
    <2> QED BY <2>3, <2>4
  <1> HIDE DEF r
  <1>7. request' = [request EXCEPT ![s] = r]
    BY DEF SendEmail, r
  <1>8. UNCHANGED <<journey, exists, click, pressed>> /\ faults' \in Nat
    BY DEF SendEmail, OrderInv, TypeOK
  <1> QED BY <1>2, <1>3, <1>4, <1>6, <1>7, <1>8, RequestStep

LEMMA DropOrder ==
  ASSUME OrderInv, NEW s \in Staff, EmailFails(s) \/ WriteLost(s)
  PROVE  OrderInv'
  <1>1. /\ request' = [request EXCEPT ![s] = NoRequest]
        /\ UNCHANGED <<journey, exists, click, pressed>>
        /\ mails' \in [Gate -> Seq(Generation)]
        /\ faults' \in Nat
    BY DEF EmailFails, WriteLost, OrderInv, TypeOK
  <1> QED BY <1>1, IdleRequest, RequestStep


\* When the document only grows, the copies of the requests stay covered.
LEMMA WriteJourneyOrder ==
  ASSUME OrderInv, NEW s \in Staff, WriteJourney(s)
  PROVE  OrderInv'
  <1>1. /\ request[s] \in [pc : {"idle", "send", "write"}, op : Ops \cup {"none"},
                           step : StepKey \cup {"none"}, seen : Journey]
        /\ journey \in Journey
    BY DEF OrderInv, TypeOK
  <1>2. request[s].op \in Staffs /\ CopyInv(request[s])
    BY DEF OrderInv, KindInv, WriteJourney, Staffs
  <1>3. /\ Write(journey, request[s]) \in Journey
        /\ InOrder(Write(journey, request[s]).completed)
        /\ InOrder(Write(journey, request[s]).sent)
        /\ Write(journey, request[s]).completed \subseteq Write(journey, request[s]).sent
        /\ journey.sent \subseteq Write(journey, request[s]).sent
    <2>1. /\ request[s].seen \in Journey
          /\ InOrder(journey.completed) /\ InOrder(journey.sent)
          /\ journey.completed \subseteq journey.sent
      BY <1>1 DEF OrderInv, StepsInOrder
    <2> QED BY <1>1, <1>2, <2>1, WriteInOrder DEF CopyInv, Staffs
  <1>4. /\ journey' \in Journey
        /\ InOrder(journey'.completed) /\ InOrder(journey'.sent)
        /\ journey'.completed \subseteq journey'.sent
        /\ journey.sent \subseteq journey'.sent
    BY <1>1, <1>3 DEF WriteJourney, OrderInv, StepsInOrder
  <1>5. NoRequest \in [pc : {"idle", "send", "write"}, op : Ops \cup {"none"},
                       step : StepKey \cup {"none"}, seen : Journey]
    BY IdleRequest
  <1>6. \A t \in Staff : request'[t] = IF t = s THEN NoRequest ELSE request[t]
    BY DEF WriteJourney, OrderInv, TypeOK
  <1>7. TypeOK'
    BY <1>4, <1>5 DEF WriteJourney, OrderInv, TypeOK
  <1>8. KindInv'
    BY <1>6 DEF WriteJourney, OrderInv, KindInv, NoRequest
  <1>9. StepsInOrder'
    BY <1>4 DEF StepsInOrder
  <1>10. ASSUME NEW t \in Staff
         PROVE  CopyInv(request[t])'
    <2>1. CopyInv(request'[t])
      BY <1>6, IdleRequest DEF OrderInv
    <2> QED BY <1>4, <2>1 DEF CopyInv
  <1> QED BY <1>7, <1>8, <1>9, <1>10 DEF OrderInv

LEMMA ClickOrder ==
  ASSUME OrderInv, NEW c \in Customer, NEW answer \in Answer, NEW gate,
         NEW mail \in Nat, NEW gen \in Int,
         Click(c, answer, gate, mail, gen)
  PROVE  OrderInv'
  <1> DEFINE k == [pc |-> "write", answer |-> answer, mail |-> mail, gen |-> gen]
  <1>1. k \in [pc : {"idle", "write"}, answer : Answer \cup {"none"},
               mail : Nat, gen : Generation] /\ k.answer \in Answer
    BY DEF Generation
  <1> HIDE DEF k
  <1>2. click' = [click EXCEPT ![c] = k]
    BY DEF Click, k
  <1>3. TypeOK'
    BY <1>1, <1>2 DEF Click, OrderInv, TypeOK
  <1>4. KindInv'
    BY <1>1, <1>2 DEF Click, OrderInv, TypeOK, KindInv
  <1>5. StepsInOrder' /\ \A s \in Staff : CopyInv(request[s])'
    BY DEF Click, OrderInv, StepsInOrder, CopyInv
  <1> QED BY <1>3, <1>4, <1>5 DEF OrderInv

LEMMA WriteAnswerOrder ==
  ASSUME OrderInv, NEW c \in Customer, WriteAnswer(c)
  PROVE  OrderInv'
  <1>1. /\ click[c] \in [pc : {"idle", "write"}, answer : Answer \cup {"none"},
                         mail : Nat, gen : Generation]
        /\ click[c].answer \in Answer
        /\ journey \in Journey
    BY DEF WriteAnswer, OrderInv, TypeOK, KindInv
  <1>2. /\ journey' \in Journey
        /\ journey'.completed = journey.completed
        /\ journey'.sent = journey.sent
    BY <1>1, AnsweredType DEF WriteAnswer
  <1>3. NoClick \in [pc : {"idle", "write"}, answer : Answer \cup {"none"},
                     mail : Nat, gen : Generation] /\ NoClick.pc = "idle"
    BY DEF NoClick, Generation
  <1>4. pressed' \in [Gate -> SUBSET Nat]
    <2>1. ASSUME NEW gate \in Gate, Press(gate, click[c].mail)
          PROVE  pressed' \in [Gate -> SUBSET Nat]
      BY <1>1, <2>1 DEF Press, OrderInv, TypeOK
    <2>2. "offer-ready" \in Gate /\ "request-received" \in Gate
      BY DEF Gate
    <2>3. CASE TakesEffect(c) /\ click[c].answer = "accept offer"
      BY <2>1, <2>2, <2>3 DEF WriteAnswer
    <2>4. CASE TakesEffect(c) /\ click[c].answer = "accept request"
      BY <2>1, <2>2, <2>4 DEF WriteAnswer
    <2>5. CASE ~(TakesEffect(c) /\ click[c].answer \in {"accept offer", "accept request"})
      BY <2>5 DEF WriteAnswer, OrderInv, TypeOK
    <2> QED BY <2>3, <2>4, <2>5
  <1>5. TypeOK'
    BY <1>2, <1>3, <1>4 DEF WriteAnswer, OrderInv, TypeOK
  <1>6. KindInv'
    BY <1>3 DEF WriteAnswer, OrderInv, TypeOK, KindInv
  <1>7. StepsInOrder' /\ \A s \in Staff : CopyInv(request[s])'
    BY <1>2 DEF WriteAnswer, OrderInv, StepsInOrder, CopyInv
  <1> QED BY <1>5, <1>6, <1>7 DEF OrderInv

LEMMA CustomerOrder ==
  ASSUME OrderInv, NEW c \in Customer, CustomerStep(c)
  PROVE  OrderInv'
  <1>1. journey.ackGen \in Int /\ EffectiveOfferGen(journey) \in Int
    BY DEF OrderInv, TypeOK, Journey, Generation, EffectiveOfferGen
  <1>2. 1..MaxMails \subseteq Nat
    OBVIOUS
  <1>3. ASSUME NEW mail \in 1..MaxMails,
               \/ ReadOfferAnswer(c, "accept offer", mail)
               \/ ReadOfferAnswer(c, "decline offer", mail)
        PROVE  OrderInv'
    BY <1>1, <1>2, <1>3, ClickOrder DEF ReadOfferAnswer, Answer
  <1>4. ASSUME NEW mail \in 1..MaxMails,
               ReadRequestAccept(c, mail) \/ ReadRequestDecline(c, mail)
        PROVE  OrderInv'
    BY <1>1, <1>2, <1>4, ClickOrder DEF ReadRequestAccept, ReadRequestDecline, Answer
  <1> QED BY <1>3, <1>4, WriteAnswerOrder DEF CustomerStep, ReadAnswer

LEMMA StaffOrder ==
  ASSUME OrderInv, NEW s \in Staff, StaffStep(s)
  PROVE  OrderInv'
  BY ReadOrder, SendEmailOrder, DropOrder, WriteJourneyOrder DEF StaffStep

LEMMA NextOrder == OrderInv /\ [Next]_vars => OrderInv'
  <1> SUFFICES ASSUME OrderInv, [Next]_vars PROVE OrderInv'
    OBVIOUS
  <1>1. ASSUME NEW s \in Staff, StaffStep(s) PROVE OrderInv'
    BY <1>1, StaffOrder
  <1>2. ASSUME NEW c \in Customer, CustomerStep(c) PROVE OrderInv'
    BY <1>2, CustomerOrder
  <1>3. CASE Remove
    BY <1>3 DEF Remove, OrderInv, TypeOK, KindInv, StepsInOrder, CopyInv
  <1>4. CASE UNCHANGED vars
    BY <1>4 DEF vars, OrderInv, TypeOK, KindInv, StepsInOrder, CopyInv
  <1> QED BY <1>1, <1>2, <1>3, <1>4 DEF Next

-----------------------------------------------------------------------------
\* However many staff requests work from stale copies at the same time, what is
\* recorded stays in the order of the workflow, and with it every copy in use.
THEOREM OrderHolds == Spec => []OrderInv
  BY InitOrder, NextOrder, PTL DEF Spec

\* The document, the requests and the clicks keep their types.
THEOREM TypeCorrect == Spec => []TypeOK
  <1>1. OrderInv => TypeOK
    BY DEF OrderInv
  <1> QED BY <1>1, OrderHolds, PTL

\* No journey records a step without the steps before it, nor completes a step
\* that was not sent, for any number of staff requests and clicks in flight.
THEOREM StepsCorrect == Spec => []StepsInOrder
  <1>1. OrderInv => StepsInOrder
    BY DEF OrderInv
  <1> QED BY <1>1, OrderHolds, PTL

-----------------------------------------------------------------------------
(* A completed journey was closed by its last email or by the device's return. *)

LEMMA FiveSteps ==
  ASSUME NEW S, S \subseteq Workflow \ {"completed"}
  PROVE  Cardinality(S) # 6
  <1> DEFINE A == {"request-received"}
             B == A \cup {"pickup-scheduled"}
             C == B \cup {"inspection-underway"}
             D == C \cup {"offer-ready"}
             E == D \cup {"payment-sent"}
  <1>1. IsFiniteSet(A) /\ Cardinality(A) = 1
    BY FS_Singleton
  <1>2. IsFiniteSet(B) /\ Cardinality(B) = 2
    BY <1>1, FS_AddElement
  <1>3. IsFiniteSet(C) /\ Cardinality(C) = 3
    BY <1>2, FS_AddElement
  <1>4. IsFiniteSet(D) /\ Cardinality(D) = 4
    BY <1>3, FS_AddElement
  <1>5. IsFiniteSet(E) /\ Cardinality(E) = 5
    BY <1>4, FS_AddElement
  <1>6. S \in SUBSET E
    BY WorkflowFacts
  <1> HIDE DEF E
  <1>7. IsFiniteSet(S) /\ Cardinality(S) <= 5
    BY <1>5, <1>6, FS_Subset
  <1>8. Cardinality(S) \in Nat
    BY <1>7, FS_CardinalityType
  <1> QED BY <1>7, <1>8

LEMMA SentCloses ==
  ASSUME NEW j \in Journey, NEW r, r.seen \in Journey, r.step \in Workflow,
         r.seen.completed \subseteq j.sent,
         Sent(j, r).status = "completed"
  PROVE  "completed" \in Sent(j, r).sent \/ "device-reship" \in Sent(j, r).sent
  <1> DEFINE done == r.seen.completed \cup {r.step}
  <1>1. Len(JOURNEY_WORKFLOW_STEPS) = 6
    BY DEF JOURNEY_WORKFLOW_STEPS
  <1>2. Cardinality(done) = 6
    BY <1>1 DEF Sent, Journey
  <1>3. done \subseteq StepKey
    BY DEF Journey, StepKey
  <1>4. ~(done \subseteq Workflow \ {"completed"})
    BY <1>2, FiveSteps
  <1>5. "completed" \in done \/ "device-reship" \in done
    BY <1>3, <1>4 DEF StepKey
  <1> QED BY <1>5, SentType

LEMMA WriteCloses ==
  ASSUME NEW j \in Journey, NEW r, r.seen \in Journey, r.op \in Staffs,
         r.op = "send" => r.step \in Workflow,
         r.seen.completed \subseteq j.sent,
         j.status = "completed" => "completed" \in j.sent \/ "device-reship" \in j.sent,
         Write(j, r).status = "completed"
  PROVE  "completed" \in Write(j, r).sent \/ "device-reship" \in Write(j, r).sent
  <1>1. CASE r.op = "send"
    BY <1>1, SentCloses DEF Write
  <1>2. CASE r.op = "resend"
    <2>1. Write(j, r) = Resent(j, r)
      BY <1>2 DEF Write
    <2>2. Resent(j, r).status = "completed" => j.status = "completed"
      BY DEF Resent, Journey
    <2> QED BY <2>1, <2>2, ResentType
  <1>3. CASE r.op = "reship"
    <2>1. Write(j, r) = Reshipped(j, r)
      BY <1>3 DEF Write
    <2> QED BY <2>1, ReshippedType
  <1>4. CASE r.op = "decline"
    <2>1. Write(j, r).status = "offer_declined"
      BY <1>4 DEF Write, OfferDeclined, Journey
    <2> QED BY <2>1
  <1>5. CASE r.op = "cancel"
    BY <1>5 DEF Write, Journey
  <1>6. CASE r.op = "edit"
    BY <1>6 DEF Write, Journey
  <1> QED BY <1>1, <1>2, <1>3, <1>4, <1>5, <1>6 DEF Staffs

LEMMA NextCloses ==
  OrderInv /\ CompletedMeansClosed /\ [Next]_vars => CompletedMeansClosed'
  <1> SUFFICES ASSUME OrderInv, CompletedMeansClosed, [Next]_vars
               PROVE  CompletedMeansClosed'
    OBVIOUS
  <1>1. ASSUME UNCHANGED journey PROVE CompletedMeansClosed'
    BY <1>1 DEF CompletedMeansClosed
  <1>2. ASSUME NEW s \in Staff, WriteJourney(s) PROVE CompletedMeansClosed'
    <2>1. /\ journey \in Journey /\ request[s].seen \in Journey
          /\ request[s].op \in Staffs
          /\ request[s].op = "send" => request[s].step \in Workflow
          /\ request[s].seen.completed \subseteq journey.sent
      BY <1>2 DEF OrderInv, TypeOK, KindInv, CopyInv, WriteJourney, Staffs
    <2>2. CASE exists
      BY <1>2, <2>1, <2>2, WriteCloses DEF WriteJourney, CompletedMeansClosed
    <2>3. CASE ~exists
      BY <1>1, <1>2, <2>3 DEF WriteJourney
    <2> QED BY <2>2, <2>3
  <1>3. ASSUME NEW c \in Customer, WriteAnswer(c) PROVE CompletedMeansClosed'
    <2>1. journey \in Journey /\ click[c].answer \in Answer
      BY <1>3 DEF OrderInv, TypeOK, KindInv, WriteAnswer
    <2>2. Answered(journey, click[c]).status # "completed"
      BY <2>1 DEF Answered, OfferDeclined, Answer, Journey
    <2> QED BY <1>1, <1>3, <2>2 DEF WriteAnswer, CompletedMeansClosed
  <1>4. ASSUME NEW s \in Staff, StaffStep(s), ~WriteJourney(s) PROVE UNCHANGED journey
    BY <1>4 DEF StaffStep, ReadSend, ReadResend, ReadReship, ReadCancel, ReadDecline,
                ReadEdit, Begin, SendEmail, EmailFails, WriteLost
  <1>5. ASSUME NEW c \in Customer, CustomerStep(c), ~WriteAnswer(c) PROVE UNCHANGED journey
    BY <1>5 DEF CustomerStep, ReadAnswer, ReadOfferAnswer, ReadRequestAccept, ReadRequestDecline, Click
  <1> QED BY <1>1, <1>2, <1>3, <1>4, <1>5 DEF Next, Remove, vars

\* A journey is completed only when its last email, or the one that returns the
\* device, was sent: six completed steps without the last one would need a seventh.
THEOREM ClosedCorrect == Spec => []CompletedMeansClosed
  <1>1. Init => CompletedMeansClosed
    BY DEF Init, NewJourney, CompletedMeansClosed
  <1> QED BY <1>1, OrderHolds, NextCloses, PTL DEF Spec
=============================================================================
