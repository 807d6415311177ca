------------------------- MODULE RepairJourney_proofs -------------------------
(***************************************************************************)
(* The gates of a repair hold for any number of staff requests and clicks:  *)
(* each consent in the document, or in a copy that may be written back, is  *)
(* followed to the link by which the customer gave it.                      *)
(***************************************************************************)
EXTENDS RepairJourneyProps, TLAPS

LEMMA WorkflowFacts ==
  /\ Workflow = {"booking-confirmed", "pickup-scheduled", "device-received", "diagnosing",
                 "quote-ready", "repair-in-progress", "device-ready", "device-returned"}
  /\ Adhoc = {"device-return-unrepaired", "device-return-unrepaired-complete", "courier-dispatched"}
  /\ Emails = Workflow \cup Adhoc
  <1>1. DOMAIN REPAIR_JOURNEY_WORKFLOW_STEPS = 1..8
    BY DEF REPAIR_JOURNEY_WORKFLOW_STEPS
  <1>2. Workflow = {"booking-confirmed", "pickup-scheduled", "device-received", "diagnosing",
                    "quote-ready", "repair-in-progress", "device-ready", "device-returned"}
    BY <1>1 DEF Workflow, REPAIR_JOURNEY_WORKFLOW_STEPS
  <1> QED BY <1>2 DEF Adhoc, ADHOC_RETURN_REPAIR_WORKFLOW_KEYS, Emails

LEMMA IndexFacts ==
  /\ Index("booking-confirmed") = 1
  /\ Index("pickup-scheduled") = 2
  /\ Index("device-received") = 3
  /\ Index("diagnosing") = 4
  /\ Index("quote-ready") = 5
  /\ Index("repair-in-progress") = 6
  /\ Index("device-ready") = 7
  /\ Index("device-returned") = 8
  <1>1. DOMAIN REPAIR_JOURNEY_WORKFLOW_STEPS = 1..8
    BY DEF REPAIR_JOURNEY_WORKFLOW_STEPS
  <1>2. ASSUME NEW i \in 1..8
        PROVE  Index(REPAIR_JOURNEY_WORKFLOW_STEPS[i]) = i
    <2>1. \A k \in 1..8 :
            REPAIR_JOURNEY_WORKFLOW_STEPS[k] = REPAIR_JOURNEY_WORKFLOW_STEPS[i] => k = i
      BY DEF REPAIR_JOURNEY_WORKFLOW_STEPS
    <2> QED BY <1>1, <2>1 DEF Index
  <1>3. /\ REPAIR_JOURNEY_WORKFLOW_STEPS[1] = "booking-confirmed"
        /\ REPAIR_JOURNEY_WORKFLOW_STEPS[2] = "pickup-scheduled"
        /\ REPAIR_JOURNEY_WORKFLOW_STEPS[3] = "device-received"
        /\ REPAIR_JOURNEY_WORKFLOW_STEPS[4] = "diagnosing"
        /\ REPAIR_JOURNEY_WORKFLOW_STEPS[5] = "quote-ready"
        /\ REPAIR_JOURNEY_WORKFLOW_STEPS[6] = "repair-in-progress"
        /\ REPAIR_JOURNEY_WORKFLOW_STEPS[7] = "device-ready"
        /\ REPAIR_JOURNEY_WORKFLOW_STEPS[8] = "device-returned"
    BY DEF REPAIR_JOURNEY_WORKFLOW_STEPS
  <1>4. \A i \in 1..8 : Index(REPAIR_JOURNEY_WORKFLOW_STEPS[i]) = i
    BY <1>2
  <1> QED BY <1>3, <1>4

LEMMA BeforeFacts ==
  /\ Before("booking-confirmed") = {}
  /\ Before("pickup-scheduled") = {"booking-confirmed"}
  /\ Before("device-received") = {"booking-confirmed", "pickup-scheduled"}
  /\ Before("diagnosing") = {"booking-confirmed", "pickup-scheduled", "device-received"}
  /\ Before("quote-ready") =
       {"booking-confirmed", "pickup-scheduled", "device-received", "diagnosing"}
  /\ Before("repair-in-progress") =
       Workflow \ {"repair-in-progress", "device-ready", "device-returned"}
  /\ Before("device-ready") = Workflow \ {"device-ready", "device-returned"}
  /\ Before("device-returned") = Workflow \ {"device-returned"}
  BY WorkflowFacts, IndexFacts DEF Before

LEMMA NextStepType ==
  ASSUME NEW done, ~(Workflow \subseteq done)
  PROVE  getNextStep(done) \in Workflow
  <1>1. \E t \in Workflow \ done : Before(t) \subseteq done
    BY WorkflowFacts, BeforeFacts
  <1> QED BY <1>1 DEF getNextStep

-----------------------------------------------------------------------------
(* Types of the document and of what the writes make of it.                 *)

LEMMA GenerationType ==
  ASSUME NEW j, j.quoteGen \in Nat, j.bookingGen \in Nat
  PROVE  /\ effectiveOfferGeneration(j) \in Nat
         /\ nextQuoteGenerationNumber(j) \in Nat
         /\ nextBookingAckGenerationNumber(j) \in Nat
         /\ nextBookingAckGenerationNumber(j) > 0
         /\ nextQuoteGenerationNumber(j) = effectiveOfferGeneration(j) + 1
         /\ nextBookingAckGenerationNumber(j) = j.bookingGen + 1
  BY DEF effectiveOfferGeneration, nextQuoteGenerationNumber, nextBookingAckGenerationNumber

LEMMA NewJourneyType ==
  /\ NewJourney \in Journey
  /\ NewJourney.data = NewData /\ NewData \in Data
  /\ NewJourney.completed = {} /\ NewJourney.sent = {} /\ NewJourney.bookingGen = 0
  BY WorkflowFacts DEF NewJourney, NewData, Unset, Journey, Data, Status

LEMMA BookingAnswerType ==
  ASSUME NEW d \in Data, NEW a \in BOOLEAN, NEW g \in Nat, NEW b \in BOOLEAN, NEW h \in Nat
  PROVE  [d EXCEPT !.ack = a, !.ackOf = g, !.ackDeclined = b, !.ackDeclinedOf = h] \in Data
  BY DEF Data

LEMMA QuoteAnswerType ==
  ASSUME NEW d \in Data, NEW a \in BOOLEAN, NEW g \in Nat
  PROVE  [d EXCEPT !.accepted = a, !.acceptedOf = g] \in Data
  BY DEF Data

LEMMA ReturnAnswerType ==
  ASSUME NEW d \in Data, NEW m \in {"none", "store", "courier"}
  PROVE  /\ [d EXCEPT !.mode = m] \in Data
         /\ [d EXCEPT !.returnAsked = TRUE] \in Data
  BY DEF Data

LEMMA CopyDataType ==
  ASSUME NEW d \in Data, NEW g \in Nat, NEW h \in Nat
  PROVE  [d EXCEPT !.ackOf = g, !.acceptedOf = h] \in Data
  BY DEF Data

\* What a request keeps of the document: nothing it could write back but dynamicData as it
\* was, and no consent that the document does not have.
LEMMA KeptFacts ==
  ASSUME NEW j \in Journey, NEW op, NEW step
  PROVE  /\ Kept(op, step, j) \in Journey
         /\ Kept(op, step, j).completed \in {{}, j.completed}
         /\ op \in {"send", "resend"} /\ step \notin Adhoc =>
              /\ Kept(op, step, j).completed = j.completed
              /\ Kept(op, step, j).bookingGen = j.bookingGen
              /\ Kept(op, step, j).quoteGen = j.quoteGen
              /\ Kept(op, step, j).data.ackOf = j.data.ackOf
              /\ Kept(op, step, j).data.acceptedOf = j.data.acceptedOf
         /\ \/ Kept(op, step, j).data = j.data
            \/ /\ ~Kept(op, step, j).data.ack /\ ~Kept(op, step, j).data.accepted
               /\ ~Kept(op, step, j).data.returnAsked /\ Kept(op, step, j).data.mode = "none"
  <1> DEFINE d == [NewData EXCEPT !.ackOf = j.data.ackOf, !.acceptedOf = j.data.acceptedOf]
  <1>1. j.data \in Data /\ j.data.ackOf \in Nat /\ j.data.acceptedOf \in Nat
    BY DEF Journey, Data
  <1>2. /\ d \in Data /\ ~d.ack /\ ~d.accepted /\ ~d.returnAsked /\ d.mode = "none"
        /\ d.ackOf = j.data.ackOf /\ d.acceptedOf = j.data.acceptedOf
    <2>1. d \in Data
      BY <1>1, NewJourneyType, CopyDataType
    <2> QED BY <2>1 DEF NewData
  <1>3. CASE op \in {"send", "resend"} /\ step \notin Adhoc
    <2>1. Kept(op, step, j) = [NewJourney EXCEPT !.completed = j.completed,
             !.quoteGen = j.quoteGen, !.bookingGen = j.bookingGen, !.data = d]
      BY <1>3, NewJourneyType DEF Kept, NewJourney
    <2> HIDE DEF d
    <2> QED BY <1>2, <1>3, <2>1, NewJourneyType DEF Journey
  <1>4. CASE op = "edit"
    <2>1. Kept(op, step, j) = [NewJourney EXCEPT !.data = j.data]
      BY <1>4 DEF Kept
    <2> QED BY <1>1, <1>4, <2>1, NewJourneyType DEF Journey
  <1>5. CASE ~(op \in {"send", "resend"} /\ step \notin Adhoc) /\ op # "edit"
    <2>1. Kept(op, step, j) = NewJourney
      BY <1>5 DEF Kept
    <2> QED BY <1>5, <2>1, NewJourneyType DEF NewData
  <1> QED BY <1>3, <1>4, <1>5

LEMMA SentFacts ==
  ASSUME NEW j \in Journey, NEW seen \in Journey, NEW step \in Workflow
  PROVE  /\ Sent(j, seen, step) \in Journey
         /\ Sent(j, seen, step).data = j.data
         /\ Sent(j, seen, step).sent = j.sent \cup {step}
         /\ Sent(j, seen, step).completed = seen.completed \cup {step}
         /\ Sent(j, seen, step).bookingGen = j.bookingGen \/ Sent(j, seen, step).bookingGen > 0
         /\ step = "booking-confirmed" => Sent(j, seen, step).bookingGen > 0
  <1> DEFINE newCompleted == seen.completed \cup {step}
  <1>1. newCompleted \in SUBSET Workflow /\ step \in Emails
    BY WorkflowFacts DEF Journey
  <1>2. (IF step = "quote-ready" \/ newCompleted = Workflow THEN step
         ELSE getNextStep(newCompleted)) \in Workflow
    BY <1>1, NextStepType
  <1>3. /\ nextQuoteGenerationNumber(seen) \in Nat
        /\ nextBookingAckGenerationNumber(seen) \in Nat
        /\ nextBookingAckGenerationNumber(seen) > 0
    BY GenerationType DEF Journey
  <1>4. {"active", "completed"} \subseteq Status
    BY DEF Status
  <1> QED BY <1>1, <1>2, <1>3, <1>4 DEF Sent, Journey

LEMMA SentAdhocFacts ==
  ASSUME NEW j \in Journey, NEW step \in Adhoc
  PROVE  /\ SentAdhoc(j, step) \in Journey
         /\ SentAdhoc(j, step).sent = j.sent \cup {step}
         /\ SentAdhoc(j, step).completed = j.completed
         /\ SentAdhoc(j, step).bookingGen = j.bookingGen
         /\ SentAdhoc(j, step).data =
              IF step = "courier-dispatched" THEN [j.data EXCEPT !.mode = "courier"] ELSE j.data
  <1> DEFINE d == IF step = "courier-dispatched" THEN [j.data EXCEPT !.mode = "courier"]
                                                 ELSE j.data
             status == IF step = "device-return-unrepaired-complete" THEN "completed" ELSE j.status
  <1>1. d \in Data
    BY ReturnAnswerType DEF Journey
  <1>2. step \in Emails /\ status \in Status
    BY WorkflowFacts DEF Status, Journey
  <1>3. SentAdhoc(j, step) = [j EXCEPT !.sent = j.sent \cup {step}, !.status = status, !.data = d]
    BY DEF SentAdhoc, Journey, Data
  <1> HIDE DEF d, status
  <1>4. /\ SentAdhoc(j, step) \in Journey
        /\ SentAdhoc(j, step).sent = j.sent \cup {step}
        /\ SentAdhoc(j, step).completed = j.completed
        /\ SentAdhoc(j, step).bookingGen = j.bookingGen
        /\ SentAdhoc(j, step).data = d
    BY <1>1, <1>2, <1>3 DEF Journey
  <1> QED BY <1>4 DEF d

LEMMA ResentFacts ==
  ASSUME NEW j \in Journey, NEW seen \in Journey, NEW step \in Emails
  PROVE  /\ Resent(j, seen, step) \in Journey
         /\ Resent(j, seen, step).sent = j.sent
         /\ Resent(j, seen, step).completed = j.completed
         /\ Resent(j, seen, step).bookingGen = j.bookingGen \/ Resent(j, seen, step).bookingGen > 0
         /\ Resent(j, seen, step).data \in
              {j.data,
               [j.data EXCEPT !.accepted = FALSE, !.acceptedOf = Unset],
               [j.data EXCEPT !.ack = FALSE, !.ackOf = Unset,
                              !.ackDeclined = FALSE, !.ackDeclinedOf = Unset],
               [j.data EXCEPT !.mode = "none"]}
  <1>1. /\ nextQuoteGenerationNumber(seen) \in Nat
        /\ nextBookingAckGenerationNumber(seen) \in Nat
        /\ nextBookingAckGenerationNumber(seen) > 0
    BY GenerationType DEF Journey
  <1>2. j.data \in Data /\ "active" \in Status /\ Unset \in Nat
    BY DEF Journey, Status, Unset
  <1>3. CASE step = "quote-ready"
    <2> DEFINE d == [j.data EXCEPT !.accepted = FALSE, !.acceptedOf = Unset]
    <2>1. d \in Data
      BY <1>2, QuoteAnswerType
    <2>2. Resent(j, seen, step) = [j EXCEPT !.quoteGen = nextQuoteGenerationNumber(seen),
             !.status = "active", !.current = step, !.data = d]
      BY <1>3 DEF Resent, Journey, Data
    <2>3. d \in {j.data, d}
      OBVIOUS
    <2> HIDE DEF d
    <2>4. /\ Resent(j, seen, step) \in Journey
          /\ Resent(j, seen, step).sent = j.sent
          /\ Resent(j, seen, step).completed = j.completed
          /\ Resent(j, seen, step).bookingGen = j.bookingGen
          /\ Resent(j, seen, step).data = d
      BY <1>1, <1>2, <1>3, <2>1, <2>2, WorkflowFacts DEF Journey
    <2> QED BY <2>4 DEF d
  <1>4. CASE step = "booking-confirmed"
    <2> DEFINE d == [j.data EXCEPT !.ack = FALSE, !.ackOf = Unset,
                                   !.ackDeclined = FALSE, !.ackDeclinedOf = Unset]
    <2>1. d \in Data
      BY <1>2, BookingAnswerType
    <2>2. Resent(j, seen, step) = [j EXCEPT !.bookingGen = nextBookingAckGenerationNumber(seen),
             !.status = "active", !.current = step, !.data = d]
      BY <1>4 DEF Resent, Journey, Data
    <2> HIDE DEF d
    <2>3. /\ Resent(j, seen, step) \in Journey
          /\ Resent(j, seen, step).sent = j.sent
          /\ Resent(j, seen, step).completed = j.completed
          /\ Resent(j, seen, step).bookingGen > 0
          /\ Resent(j, seen, step).data = d
      BY <1>1, <1>2, <1>4, <2>1, <2>2, WorkflowFacts DEF Journey
    <2> QED BY <2>3 DEF d
  <1>5. CASE step = "device-ready"
    <2> DEFINE d == [j.data EXCEPT !.mode = "none"]
    <2>1. d \in Data
      BY <1>2, ReturnAnswerType
    <2>2. Resent(j, seen, step) = [j EXCEPT !.data = d]
      BY <1>5 DEF Resent, Journey, Data
    <2> HIDE DEF d
    <2>3. /\ Resent(j, seen, step) \in Journey
          /\ Resent(j, seen, step).sent = j.sent
          /\ Resent(j, seen, step).completed = j.completed
          /\ Resent(j, seen, step).bookingGen = j.bookingGen
          /\ Resent(j, seen, step).data = d
      BY <2>1, <2>2 DEF Journey
    <2> QED BY <2>3 DEF d
  <1>6. CASE step \notin {"quote-ready", "booking-confirmed", "device-ready"}
    BY <1>6 DEF Resent
  <1> QED BY <1>3, <1>4, <1>5, <1>6

LEMMA QuoteDeclinedFacts ==
  ASSUME NEW j \in Journey
  PROVE  /\ QuoteDeclined(j) \in Journey
         /\ QuoteDeclined(j).sent = j.sent
         /\ QuoteDeclined(j).completed = j.completed
         /\ QuoteDeclined(j).bookingGen = j.bookingGen
         /\ QuoteDeclined(j).data = [j.data EXCEPT !.accepted = FALSE, !.acceptedOf = Unset]
  <1> DEFINE d == [j.data EXCEPT !.accepted = FALSE, !.acceptedOf = Unset]
  <1>1. d \in Data
    BY QuoteAnswerType DEF Journey, Unset
  <1>2. QuoteDeclined(j) = [j EXCEPT !.status = "quote_declined", !.current = "quote-ready",
                                     !.data = d]
    BY DEF QuoteDeclined, Journey, Data
  <1> HIDE DEF d
  <1>3. /\ QuoteDeclined(j) \in Journey
        /\ QuoteDeclined(j).sent = j.sent
        /\ QuoteDeclined(j).completed = j.completed
        /\ QuoteDeclined(j).bookingGen = j.bookingGen
        /\ QuoteDeclined(j).data = d
    BY <1>1, <1>2, WorkflowFacts DEF Journey, Status
  <1> QED BY <1>3 DEF d

-----------------------------------------------------------------------------
(* What is known of the answers only grows, and no write invents one.       *)

Links == [Yes -> SUBSET Nat]

\* Every link pressed in p is pressed in q.
Grows(p, q) == \A answer \in Yes : p[answer] \subseteq q[answer]

LEMMA ConsentStays ==
  ASSUME NEW p, NEW q, p \subseteq q, NEW round, Consented(p, round)
  PROVE  Consented(q, round)
  BY DEF Consented

LEMMA AnswersStay ==
  ASSUME NEW p, NEW q, Grows(p, q), NEW d, AnswersInv(d, p)
  PROVE  AnswersInv(d, q)
  BY ConsentStays DEF AnswersInv, Grows, Yes

LEMMA JourneyStays ==
  ASSUME NEW p, NEW q, Grows(p, q), NEW j, JourneyInv(j, p)
  PROVE  JourneyInv(j, q)
  BY AnswersStay DEF JourneyInv, Grows, Yes

LEMMA RequestStays ==
  ASSUME NEW p, NEW q, Grows(p, q), NEW i, NEW j, i.bookingGen > 0 => j.bookingGen > 0,
         NEW r, RequestInv(r, i, p)
  PROVE  RequestInv(r, j, q)
  BY AnswersStay, ConsentStays DEF RequestInv, Grows, Yes

LEMMA ClearedAnswers ==
  ASSUME NEW d \in Data, NEW by, AnswersInv(d, by)
  PROVE  /\ AnswersInv([d EXCEPT !.accepted = FALSE, !.acceptedOf = Unset], by)
         /\ AnswersInv([d EXCEPT !.ack = FALSE, !.ackOf = Unset,
                                 !.ackDeclined = FALSE, !.ackDeclinedOf = Unset], by)
         /\ AnswersInv([d EXCEPT !.mode = "none"], by)
         /\ by["courier"] # {} => AnswersInv([d EXCEPT !.mode = "courier"], by)
  BY DEF AnswersInv, Data

LEMMA WriteFacts ==
  ASSUME NEW j \in Journey, NEW r, r.seen \in Journey, r.pc # "idle",
         NEW by \in Links, JourneyInv(j, by), RequestInv(r, j, by)
  PROVE  /\ Write(j, r) \in Journey
         /\ JourneyInv(Write(j, r), by)
         /\ j.bookingGen > 0 => Write(j, r).bookingGen > 0
  <1>1. j.data \in Data /\ r.seen.data \in Data
    BY DEF Journey
  <1>2. r.op \in {"send", "resend"} => r.step \in Workflow \/ r.step \in Adhoc
    BY WorkflowFacts DEF RequestInv
  <1>3. CASE r.op = "send" /\ r.step \notin Adhoc
    <2>1. Write(j, r) = Sent(j, r.seen, r.step) /\ r.step \in Workflow
      BY <1>2, <1>3 DEF Write
    <2>2. "booking-confirmed" \in r.seen.completed \cup {r.step}
      BY <1>3, <2>1 DEF RequestInv
    <2> DEFINE w == Sent(j, r.seen, r.step)
    <2>3. /\ w \in Journey
          /\ w.data = j.data
          /\ w.sent = j.sent \cup {r.step}
          /\ w.completed = r.seen.completed \cup {r.step}
          /\ w.bookingGen = j.bookingGen \/ w.bookingGen > 0
          /\ r.step = "booking-confirmed" => w.bookingGen > 0
      BY <2>1, SentFacts
    <2> HIDE DEF w
    <2>4. w.bookingGen > 0
      BY <2>2, <2>3 DEF RequestInv
    <2>5. JourneyInv(w, by)
      BY <1>3, <2>1, <2>2, <2>3, <2>4, WorkflowFacts DEF JourneyInv
    <2> QED BY <2>1, <2>3, <2>4, <2>5 DEF w
  <1>4. CASE r.op = "send" /\ r.step \in Adhoc
    <2>1. Write(j, r) = SentAdhoc(j, r.step)
      BY <1>4 DEF Write
    <2> DEFINE w == SentAdhoc(j, r.step)
    <2>2. /\ w \in Journey
          /\ w.sent = j.sent \cup {r.step}
          /\ w.completed = j.completed
          /\ w.bookingGen = j.bookingGen
          /\ w.data = IF r.step = "courier-dispatched"
                      THEN [j.data EXCEPT !.mode = "courier"] ELSE j.data
      BY <1>4, SentAdhocFacts
    <2> HIDE DEF w
    <2>3. r.step \notin Workflow
      BY <1>4, WorkflowFacts
    <2>4. AnswersInv(w.data, by)
      BY <1>1, <2>2, ClearedAnswers DEF JourneyInv, RequestInv
    <2>5. JourneyInv(w, by)
      BY <2>2, <2>3, <2>4 DEF JourneyInv, RequestInv
    <2> QED BY <2>1, <2>2, <2>5 DEF w
  <1>5. CASE r.op = "resend"
    <2>1. Write(j, r) = Resent(j, r.seen, r.step) /\ r.step \in Emails
      BY <1>5 DEF Write, RequestInv
    <2> DEFINE w == Resent(j, r.seen, r.step)
    <2>2. /\ w \in Journey
          /\ w.sent = j.sent
          /\ w.completed = j.completed
          /\ w.bookingGen = j.bookingGen \/ w.bookingGen > 0
          /\ w.data \in {j.data,
               [j.data EXCEPT !.accepted = FALSE, !.acceptedOf = Unset],
               [j.data EXCEPT !.ack = FALSE, !.ackOf = Unset,
                              !.ackDeclined = FALSE, !.ackDeclinedOf = Unset],
               [j.data EXCEPT !.mode = "none"]}
      BY <2>1, ResentFacts
    <2> HIDE DEF w
    <2>3. AnswersInv(w.data, by)
      BY <1>1, <2>2, ClearedAnswers DEF JourneyInv
    <2>4. JourneyInv(w, by)
      BY <2>2, <2>3 DEF JourneyInv
    <2> QED BY <2>1, <2>2, <2>4 DEF w
  <1>6. CASE r.op = "edit"
    <2>1. Write(j, r) = [j EXCEPT !.data = r.seen.data]
      BY <1>6 DEF Write
    <2> QED BY <1>1, <2>1 DEF JourneyInv, RequestInv, Journey
  <1>7. CASE r.op = "cancel"
    <2>1. Write(j, r) = [j EXCEPT !.status = "cancelled"]
      BY <1>7 DEF Write
    <2> QED BY <2>1 DEF JourneyInv, Journey, Status
  <1>8. CASE r.op = "decline"
    <2>1. Write(j, r) = QuoteDeclined(j)
      BY <1>8 DEF Write
    <2> DEFINE w == QuoteDeclined(j)
    <2>2. /\ w \in Journey
          /\ w.sent = j.sent
          /\ w.completed = j.completed
          /\ w.bookingGen = j.bookingGen
          /\ w.data = [j.data EXCEPT !.accepted = FALSE, !.acceptedOf = Unset]
      BY QuoteDeclinedFacts
    <2> HIDE DEF w
    <2>3. JourneyInv(w, by)
      BY <1>1, <2>2, ClearedAnswers DEF JourneyInv
    <2> QED BY <2>1, <2>2, <2>3 DEF w
  <1> QED BY <1>3, <1>4, <1>5, <1>6, <1>7, <1>8 DEF RequestInv

\* The links pressed once the answer of k is stored.
PressedBy(k, by) ==
  IF k.answer \in Yes THEN [by EXCEPT ![k.answer] = @ \cup {k.round}] ELSE by

LEMMA PressedFacts ==
  ASSUME NEW by \in Links, NEW k, k.round \in Nat
  PROVE  /\ PressedBy(k, by) \in Links
         /\ Grows(by, PressedBy(k, by))
         /\ k.answer \in Yes => k.round \in PressedBy(k, by)[k.answer]
         /\ \A answer \in Yes :
              PressedBy(k, by)[answer] =
                IF answer = k.answer THEN by[answer] \cup {k.round} ELSE by[answer]
  BY DEF PressedBy, Links, Grows

LEMMA AnsweredFacts ==
  ASSUME NEW j \in Journey, NEW k, k.answer \in Answer, k.round \in Nat,
         k.seen \in {Unset, k.round}, NEW by \in Links, JourneyInv(j, by)
  PROVE  /\ Answered(j, k) \in Journey
         /\ JourneyInv(Answered(j, k), PressedBy(k, by))
         /\ Answered(j, k).bookingGen = j.bookingGen
  <1> DEFINE p == PressedBy(k, by)
             w == Answered(j, k)
  <1>1. j.data \in Data /\ k.seen \in Nat /\ Unset \in Nat
    BY DEF Journey, Unset
  <1>2. JourneyInv(j, p)
    BY PressedFacts, JourneyStays
  <1>3. k.answer \in Yes => k.round \in p[k.answer]
    BY PressedFacts
  <1>4. ASSUME NEW d \in Data, NEW current \in Workflow, NEW status \in Status,
               w = [j EXCEPT !.status = status, !.current = current, !.data = d],
               AnswersInv(d, p)
        PROVE  w \in Journey /\ JourneyInv(w, p) /\ w.bookingGen = j.bookingGen
    <2> HIDE DEF w, p
    <2> QED BY <1>2, <1>4 DEF JourneyInv, Journey
  <1>5. j.current \in Workflow /\ j.status \in Status
    BY DEF Journey
  <1>6. CASE k.answer = "book"
    <2> DEFINE d == [j.data EXCEPT !.ack = TRUE, !.ackOf = k.seen,
                                   !.ackDeclined = FALSE, !.ackDeclinedOf = Unset]
    <2>1. d \in Data
      BY <1>1, BookingAnswerType
    <2>2. AnswersInv(d, p)
      BY <1>1, <1>2, <1>3, <1>6 DEF AnswersInv, JourneyInv, Consented, Data, Yes
    <2>3. w = [j EXCEPT !.status = "active", !.current = j.current, !.data = d]
      BY <1>6 DEF Answered, Journey, Data
    <2> QED BY <1>4, <1>5, <2>1, <2>2, <2>3 DEF Status
  <1>7. CASE k.answer = "unbook"
    <2> DEFINE d == [j.data EXCEPT !.ack = FALSE, !.ackOf = Unset,
                                   !.ackDeclined = TRUE, !.ackDeclinedOf = k.seen]
    <2>1. d \in Data
      BY <1>1, BookingAnswerType
    <2>2. AnswersInv(d, p)
      BY <1>1, <1>2 DEF AnswersInv, JourneyInv, Data
    <2>3. w = [j EXCEPT !.status = "booking_declined", !.current = "booking-confirmed",
                        !.data = d]
      BY <1>7 DEF Answered, Journey, Data
    <2> QED BY <1>4, <2>1, <2>2, <2>3, WorkflowFacts DEF Status
  <1>8. CASE k.answer = "accept"
    <2> DEFINE d == [j.data EXCEPT !.accepted = TRUE, !.acceptedOf = k.seen]
    <2>1. d \in Data
      BY <1>1, QuoteAnswerType
    <2>2. AnswersInv(d, p)
      BY <1>1, <1>2, <1>3, <1>8 DEF AnswersInv, JourneyInv, Consented, Data, Yes
    <2>3. w = [j EXCEPT !.status = "active", !.current = "repair-in-progress", !.data = d]
      BY <1>8 DEF Answered, Journey, Data
    <2> QED BY <1>4, <2>1, <2>2, <2>3, WorkflowFacts DEF Status
  <1>9. CASE k.answer = "decline"
    <2> DEFINE d == [j.data EXCEPT !.accepted = FALSE, !.acceptedOf = Unset]
    <2>1. d \in Data
      BY <1>1, QuoteAnswerType
    <2>2. AnswersInv(d, p)
      BY <1>1, <1>2, ClearedAnswers DEF JourneyInv
    <2>3. w = [j EXCEPT !.status = "quote_declined", !.current = "quote-ready", !.data = d]
      BY <1>9 DEF Answered, QuoteDeclined, Journey, Data
    <2> QED BY <1>4, <2>1, <2>2, <2>3, WorkflowFacts DEF Status
  <1>10. CASE k.answer = "return"
    <2> DEFINE d == [j.data EXCEPT !.returnAsked = TRUE]
    <2>1. d \in Data
      BY <1>1, ReturnAnswerType
    <2>2. AnswersInv(d, p)
      BY <1>1, <1>2, <1>3, <1>10 DEF AnswersInv, JourneyInv, Data, Yes
    <2>3. w = [j EXCEPT !.status = "device_return_requested", !.current = "quote-ready",
                        !.data = d]
      BY <1>10 DEF Answered, Journey, Data
    <2> QED BY <1>4, <2>1, <2>2, <2>3, WorkflowFacts DEF Status
  <1>11. CASE k.answer \in {"store", "courier"}
    <2> DEFINE d == [j.data EXCEPT !.mode = k.answer]
    <2>1. d \in Data
      BY <1>1, <1>11, ReturnAnswerType
    <2>2. AnswersInv(d, p)
      BY <1>1, <1>2, <1>3, <1>11 DEF AnswersInv, JourneyInv, Data, Yes
    <2>3. w = [j EXCEPT !.status = j.status, !.current = j.current, !.data = d]
      BY <1>11 DEF Answered, Journey, Data
    <2> QED BY <1>4, <1>5, <2>1, <2>2, <2>3
  <1> QED BY <1>6, <1>7, <1>8, <1>9, <1>10, <1>11 DEF Answer

-----------------------------------------------------------------------------
(* The invariant is kept by every action.                                   *)

LEMMA TypeFacts ==
  ASSUME RepairInv
  PROVE  /\ journey \in Journey /\ pressed \in Links
         /\ \A s \in Staff : request[s].seen \in Journey
         /\ \A c \in Customer : click[c].round \in Nat /\ click[c].seen \in Nat
         /\ MaxBookings \in Nat /\ MaxQuotes \in Nat
  BY ConstantAssumption DEF RepairInv, TypeOK, Links

LEMMA RepairInit == Init => RepairInv
  <1> SUFFICES ASSUME Init PROVE RepairInv
    OBVIOUS
  <1>1. TypeOK
    BY NewJourneyType DEF Init, TypeOK, NoRequest, NoClick, Unset
  <1>2. HistoryInv
    BY DEF Init, HistoryInv, Question, Yes
  <1>3. AnswersInv(NewData, pressed)
    BY DEF NewData, AnswersInv
  <1>4. JourneyInv(journey, pressed)
    BY <1>3, NewJourneyType DEF Init, JourneyInv
  <1>5. RequestInv(NoRequest, journey, pressed)
    BY <1>3, NewJourneyType DEF RequestInv, NoRequest
  <1>6. \A s \in Staff : request[s] = NoRequest
    BY DEF Init
  <1>7. \A c \in Customer : ClickInv(click[c], emailed)
    BY DEF Init, ClickInv, NoClick
  <1> QED BY <1>1, <1>2, <1>4, <1>5, <1>6, <1>7 DEF RepairInv

LEMMA IdleRequest ==
  ASSUME NEW j, NEW by
  PROVE  RequestInv(NoRequest, j, by)
  <1>1. AnswersInv(NewData, by)
    BY DEF NewData, AnswersInv
  <1> QED BY <1>1, NewJourneyType DEF RequestInv, NoRequest

\* What the checks of a send or a resend establish.
LEMMA CheckedFacts ==
  ASSUME NEW j \in Journey, NEW by \in Links, JourneyInv(j, by), NEW step \in Emails,
         NEW op \in {"send", "resend"},
         IF op = "send" THEN MaySend(j, step) ELSE MayResend(j, step)
  PROVE  /\ op = "send" /\ step \in Workflow =>
              "booking-confirmed" \in j.completed \cup {step}
         /\ step = "pickup-scheduled" => Consented(by["book"], j.data.ackOf)
         /\ step = "repair-in-progress" => Consented(by["accept"], j.data.acceptedOf)
         /\ step = "device-return-unrepaired" => by["return"] # {}
         /\ step = "courier-dispatched" => by["courier"] # {}
  <1>1. Preconditions(j, step)
    BY DEF MaySend, MayResend
  <1>2. op = "send" /\ step \in Workflow => Before(step) \subseteq j.completed
    <2>1. CASE op = "send" /\ step \in Workflow
      <3>1. step # "courier-dispatched" /\ step \notin ADHOC_RETURN_REPAIR_WORKFLOW_KEYS
        BY <2>1, WorkflowFacts DEF Adhoc
      <3>2. sendNext(j, step) \/ sendStep(j, step)
        BY <2>1 DEF MaySend
      <3>3. sendStep(j, step) => InTurn(j, step)
        BY <3>1 DEF sendStep
      <3> QED BY <3>2, <3>3 DEF sendNext, InTurn
    <2> QED BY <2>1
  <1>3. op = "send" /\ step \in Workflow => "booking-confirmed" \in j.completed \cup {step}
    BY <1>2, WorkflowFacts, BeforeFacts
  <1>4. step = "pickup-scheduled" => j.data.ack
    <2>1. CASE step = "pickup-scheduled"
      <3>1. step \in Workflow
        BY <2>1, WorkflowFacts
      <3>2. "booking-confirmed" \in j.completed
        BY <1>2, <2>1, <3>1, BeforeFacts DEF MayResend, JourneyInv
      <3> QED BY <1>1, <2>1, <3>2
              DEF Preconditions, assertCustomerAcknowledgedBooking, JourneyInv
    <2> QED BY <2>1
  <1>5. step = "repair-in-progress" => j.data.accepted
    BY <1>1 DEF Preconditions, assertCustomerAcceptedCurrentQuote
  <1>6. step = "device-return-unrepaired" => by["return"] # {}
    <2>1. CASE step = "device-return-unrepaired" /\ op = "send"
      <3>1. step \in ADHOC_RETURN_REPAIR_WORKFLOW_KEYS /\ step \notin Workflow
            /\ step # "courier-dispatched"
        BY <2>1, WorkflowFacts DEF ADHOC_RETURN_REPAIR_WORKFLOW_KEYS
      <3>2. sendStep(j, step)
        BY <2>1, <3>1 DEF MaySend, sendNext, InTurn
      <3>3. j.data.returnAsked
        BY <3>1, <3>2 DEF sendStep
      <3> QED BY <3>3 DEF JourneyInv, AnswersInv
    <2>2. CASE step = "device-return-unrepaired" /\ op = "resend"
      BY <2>2 DEF MayResend, JourneyInv
    <2> QED BY <2>1, <2>2
  <1>7. step = "courier-dispatched" => by["courier"] # {}
    <2>1. CASE step = "courier-dispatched" /\ op = "send"
      <3>1. step \notin Workflow /\ step \notin ADHOC_RETURN_REPAIR_WORKFLOW_KEYS
        BY <2>1, WorkflowFacts DEF ADHOC_RETURN_REPAIR_WORKFLOW_KEYS
      <3>2. sendStep(j, step)
        BY <2>1, <3>1 DEF MaySend, sendNext, InTurn
      <3>3. assertCourierDispatchAllowed(j)
        BY <2>1, <3>1, <3>2 DEF sendStep
      <3>4. j.data.mode = "courier"
        BY <3>3 DEF assertCourierDispatchAllowed
      <3> QED BY <3>4 DEF JourneyInv, AnswersInv
    <2>2. CASE step = "courier-dispatched" /\ op = "resend"
      BY <2>2 DEF MayResend, JourneyInv
    <2> QED BY <2>1, <2>2
  <1> QED BY <1>3, <1>4, <1>5, <1>6, <1>7 DEF JourneyInv, AnswersInv

\* A request that begins works from a copy of the document as it stands.
LEMMA BeginKeeps ==
  ASSUME RepairInv, NEW s \in Staff, NEW op, NEW step \in Emails \cup {"none"},
         NEW pc \in {"send", "write"}, Begin(s, op, step, pc),
         op \in {"send", "resend"} =>
           /\ step \in Emails
           /\ IF op = "send" THEN MaySend(journey, step) ELSE MayResend(journey, step),
         op \notin {"send", "resend"} => step = "none"
  PROVE  RepairInv'
  <1> DEFINE seen == Kept(op, step, journey)
             r == [pc |-> pc, op |-> op, step |-> step, seen |-> seen]
  <1>1. /\ request' = [request EXCEPT ![s] = r]
        /\ detours' \in Nat
        /\ UNCHANGED <<journey, click, emailed, pressed, begun, faults>>
        /\ op \in {"send", "resend", "edit", "cancel", "decline"}
        /\ op \in Ops
    BY ConstantAssumption DEF Begin, RepairInv, TypeOK
  <1>2. /\ journey \in Journey /\ pressed \in Links /\ JourneyInv(journey, pressed)
    BY TypeFacts DEF RepairInv
  <1>3. /\ seen \in Journey
        /\ seen.completed \in {{}, journey.completed}
        /\ op \in {"send", "resend"} /\ step \notin Adhoc =>
             /\ seen.completed = journey.completed
             /\ seen.bookingGen = journey.bookingGen
             /\ seen.quoteGen = journey.quoteGen
             /\ seen.data.ackOf = journey.data.ackOf
             /\ seen.data.acceptedOf = journey.data.acceptedOf
        /\ \/ seen.data = journey.data
           \/ /\ ~seen.data.ack /\ ~seen.data.accepted
              /\ ~seen.data.returnAsked /\ seen.data.mode = "none"
    BY <1>2, KeptFacts
  <1> HIDE DEF seen
  <1>4. AnswersInv(seen.data, pressed)
    BY <1>2, <1>3 DEF JourneyInv, AnswersInv
  <1>5. "booking-confirmed" \in seen.completed => journey.bookingGen > 0
    BY <1>2, <1>3 DEF JourneyInv
  <1>6. /\ step = "booking-confirmed" => seen.bookingGen < MaxBookings
        /\ step = "quote-ready" => effectiveOfferGeneration(seen) < MaxQuotes
    <2>1. step \in {"booking-confirmed", "quote-ready"} =>
            op \in {"send", "resend"} /\ step \notin Adhoc
      BY WorkflowFacts
    <2> QED BY <1>3, <2>1 DEF Begin, effectiveOfferGeneration
  <1>7. RequestInv(r, journey, pressed)
    <2>1. CASE op \in {"send", "resend"}
      <3>1. /\ op = "send" /\ step \in Workflow =>
                 "booking-confirmed" \in journey.completed \cup {step}
            /\ step = "pickup-scheduled" => Consented(pressed["book"], journey.data.ackOf)
            /\ step = "repair-in-progress" =>
                 Consented(pressed["accept"], journey.data.acceptedOf)
            /\ step = "device-return-unrepaired" => pressed["return"] # {}
            /\ step = "courier-dispatched" => pressed["courier"] # {}
        BY <1>2, <2>1, CheckedFacts
      <3>2. step \in Workflow => step \notin Adhoc
        BY WorkflowFacts
      <3>3. {"pickup-scheduled", "repair-in-progress"} \subseteq Workflow
        BY WorkflowFacts
      <3> QED BY <1>3, <1>4, <1>5, <1>6, <2>1, <3>1, <3>2, <3>3 DEF RequestInv
    <2>2. CASE op \notin {"send", "resend"}
      BY <1>1, <1>4, <1>5, <2>2, WorkflowFacts DEF RequestInv
    <2> QED BY <2>1, <2>2
  <1>8. TypeOK'
    <2>1. r \in [pc : {"idle", "send", "write"}, op : Ops \cup {"none"},
                 step : Emails \cup {"none"}, seen : Journey]
      BY <1>1, <1>3
    <2> HIDE DEF r
    <2> QED BY <1>1, <2>1 DEF TypeOK, RepairInv
  <1>9. \A t \in Staff : request'[t] = IF t = s THEN r ELSE request[t]
    BY <1>1 DEF RepairInv, TypeOK
  <1> HIDE DEF r
  <1>10. \A t \in Staff : RequestInv(request'[t], journey', pressed')
    BY <1>1, <1>7, <1>9 DEF RepairInv
  <1>11. HistoryInv' /\ JourneyInv(journey', pressed')
         /\ \A c \in Customer : ClickInv(click'[c], emailed')
    BY <1>1 DEF RepairInv, HistoryInv
  <1> QED BY <1>8, <1>10, <1>11 DEF RepairInv

LEMMA ReadKeeps ==
  ASSUME RepairInv, NEW s \in Staff,
         \/ \E step \in Steps : ReadSend(s, step)
         \/ \E step \in Resends : ReadResend(s, step)
         \/ ReadEdit(s) \/ ReadCancel(s) \/ ReadQuoteDecline(s)
  PROVE  RepairInv'
  <1>1. ASSUME NEW step \in Steps, ReadSend(s, step) PROVE RepairInv'
    BY <1>1, BeginKeeps, StepsAssumption DEF ReadSend
  <1>2. ASSUME NEW step \in Resends, ReadResend(s, step) PROVE RepairInv'
    BY <1>2, BeginKeeps, StepsAssumption DEF ReadResend
  <1>3. ASSUME ReadEdit(s) \/ ReadCancel(s) \/ ReadQuoteDecline(s) PROVE RepairInv'
    BY <1>3, BeginKeeps DEF ReadEdit, ReadCancel, ReadQuoteDecline
  <1> QED BY <1>1, <1>2, <1>3

\* An email carries the next round of the copy, which is within bounds, and a gated email
\* stands on a consent of the customer.
LEMMA SendEmailKeeps ==
  ASSUME RepairInv, NEW s \in Staff, SendEmail(s)
  PROVE  RepairInv'
  <1> DEFINE r == request[s]
             round == LinkRound(r.step, r.seen)
             consent == Consent(r.step, r.seen.data)
  <1>1. /\ r \in [pc : {"idle", "send", "write"}, op : Ops \cup {"none"},
                  step : Emails \cup {"none"}, seen : Journey]
        /\ emailed \in [Question -> SUBSET Nat] /\ begun \in [Gated -> SUBSET Nat]
        /\ r.seen \in Journey /\ r.seen.bookingGen \in Nat /\ r.seen.quoteGen \in Nat
        /\ r.seen.data.ackOf \in Nat /\ r.seen.data.acceptedOf \in Nat
        /\ RequestInv(r, journey, pressed)
        /\ MaxBookings \in Nat /\ MaxQuotes \in Nat
    BY TypeFacts DEF RepairInv, TypeOK, Journey, Data
  <1>2. /\ round \in Nat /\ consent \in Nat
        /\ r.step = "booking-confirmed" => round \in 0..MaxBookings
        /\ r.step = "quote-ready" => round \in 0..MaxQuotes
    <2>1. CASE r.step = "quote-ready"
      BY <1>1, <2>1, GenerationType DEF LinkRound, RequestInv, Consent
    <2>2. CASE r.step = "booking-confirmed"
      BY <1>1, <2>2, GenerationType DEF LinkRound, RequestInv, Consent
    <2>3. CASE r.step \notin {"quote-ready", "booking-confirmed"}
      BY <1>1, <2>3 DEF LinkRound, Consent, Unset
    <2> QED BY <2>1, <2>2, <2>3
  <1> HIDE DEF round, consent
  <1>3. /\ emailed' = IF r.step \in Question
                      THEN [emailed EXCEPT ![r.step] = @ \cup {round}] ELSE emailed
        /\ begun' = IF r.step \in Gated
                    THEN [begun EXCEPT ![r.step] = @ \cup {consent}] ELSE begun
        /\ request' = [request EXCEPT ![s] = [r EXCEPT !.pc = "write"]]
        /\ r.pc = "send"
        /\ UNCHANGED <<journey, click, pressed, detours, faults>>
    BY DEF SendEmail, round, consent
  <1>4. /\ emailed' \in [Question -> SUBSET Nat]
        /\ begun' \in [Gated -> SUBSET Nat]
        /\ \A q \in Question : emailed[q] \subseteq emailed'[q]
    BY <1>1, <1>2, <1>3
  <1>5. emailed'["booking-confirmed"] \subseteq 0..MaxBookings
        /\ emailed'["quote-ready"] \subseteq 0..MaxQuotes
    BY <1>1, <1>2, <1>3 DEF RepairInv, HistoryInv, Question
  <1>6. HistoryInv'
    BY <1>3, <1>4, <1>5 DEF RepairInv, HistoryInv, Question
  <1>7. \A t \in Staff : request'[t] = IF t = s THEN [r EXCEPT !.pc = "write"] ELSE request[t]
    BY <1>3 DEF RepairInv, TypeOK
  <1>8. TypeOK'
    <2>1. [r EXCEPT !.pc = "write"] \in [pc : {"idle", "send", "write"}, op : Ops \cup {"none"},
                                         step : Emails \cup {"none"}, seen : Journey]
      BY <1>1
    <2> HIDE DEF r
    <2> QED BY <1>3, <1>4, <2>1 DEF RepairInv, TypeOK
  <1>9. RequestInv([r EXCEPT !.pc = "write"], journey, pressed)
    BY <1>1, <1>3 DEF RequestInv
  <1>10. \A t \in Staff : RequestInv(request'[t], journey', pressed')
    BY <1>3, <1>7, <1>9 DEF RepairInv
  <1>11. \A c \in Customer : ClickInv(click'[c], emailed')
    <2>1. \A answer \in Answer : Asks(answer) \in Question
      BY DEF Answer, Asks, Question
    <2> QED BY <1>3, <1>4, <2>1 DEF RepairInv, ClickInv
  <1> QED BY <1>3, <1>6, <1>8, <1>10, <1>11 DEF RepairInv

LEMMA DropKeeps ==
  ASSUME RepairInv, NEW s \in Staff, EmailFails(s) \/ WriteLost(s)
  PROVE  RepairInv'
  <1>1. /\ request' = [request EXCEPT ![s] = NoRequest]
        /\ faults' \in Nat
        /\ UNCHANGED <<journey, click, emailed, pressed, begun, detours>>
    BY DEF EmailFails, WriteLost, RepairInv, TypeOK
  <1>2. TypeOK'
    <2>1. NoRequest \in [pc : {"idle", "send", "write"}, op : Ops \cup {"none"},
                         step : Emails \cup {"none"}, seen : Journey]
      BY NewJourneyType DEF NoRequest
    <2> QED BY <1>1, <2>1 DEF RepairInv, TypeOK
  <1>3. \A t \in Staff : request'[t] = IF t = s THEN NoRequest ELSE request[t]
    BY <1>1 DEF RepairInv, TypeOK
  <1>4. \A t \in Staff : RequestInv(request'[t], journey', pressed')
    BY <1>1, <1>3, IdleRequest DEF RepairInv
  <1> QED BY <1>1, <1>2, <1>4 DEF RepairInv, HistoryInv

LEMMA WriteJourneyKeeps ==
  ASSUME RepairInv, NEW s \in Staff, WriteJourney(s)
  PROVE  RepairInv'
  <1>1. /\ request' = [request EXCEPT ![s] = NoRequest]
        /\ journey' = Write(journey, request[s])
        /\ request[s].pc # "idle"
        /\ UNCHANGED <<click, emailed, pressed, begun, detours, faults>>
    BY DEF WriteJourney
  <1>2. /\ journey' \in Journey
        /\ JourneyInv(journey', pressed)
        /\ journey.bookingGen > 0 => journey'.bookingGen > 0
    BY <1>1, TypeFacts, WriteFacts DEF RepairInv
  <1>3. TypeOK'
    <2>1. NoRequest \in [pc : {"idle", "send", "write"}, op : Ops \cup {"none"},
                         step : Emails \cup {"none"}, seen : Journey]
      BY NewJourneyType DEF NoRequest
    <2> QED BY <1>1, <1>2, <2>1 DEF RepairInv, TypeOK
  <1>4. \A t \in Staff : request'[t] = IF t = s THEN NoRequest ELSE request[t]
    BY <1>1 DEF RepairInv, TypeOK
  <1>5. Grows(pressed, pressed)
    BY DEF Grows
  <1>6. ASSUME NEW t \in Staff PROVE RequestInv(request'[t], journey', pressed)
    <2>1. RequestInv(request[t], journey', pressed)
      BY <1>2, <1>5, RequestStays DEF RepairInv
    <2> QED BY <1>4, <2>1, IdleRequest
  <1> QED BY <1>1, <1>2, <1>3, <1>6 DEF RepairInv, HistoryInv

LEMMA OpenFormKeeps ==
  ASSUME RepairInv, NEW c \in Customer, NEW answer \in Answers[c],
         NEW round \in emailed[Asks(answer)], OpenForm(c, answer, round)
  PROVE  RepairInv'
  <1> DEFINE k == [pc |-> "form", answer |-> answer, round |-> round, seen |-> Unset]
  <1>1. /\ click' = [click EXCEPT ![c] = k]
        /\ UNCHANGED <<journey, request, emailed, pressed, begun, detours, faults>>
    BY DEF OpenForm
  <1>2. answer \in Answer /\ Asks(answer) \in Question
    BY ConstantAssumption DEF Answer, Asks, Question
  <1>3. round \in Nat /\ Unset \in Nat
    BY <1>2 DEF RepairInv, TypeOK, Unset
  <1>4. ClickInv(k, emailed)
    BY <1>2 DEF ClickInv
  <1>5. k \in [pc : {"idle", "form", "write"}, answer : Answer \cup {"none"}, round : Nat,
               seen : Nat]
    BY <1>2, <1>3
  <1> HIDE DEF k
  <1>6. TypeOK'
    BY <1>1, <1>5 DEF RepairInv, TypeOK
  <1>7. \A d \in Customer : click'[d] = IF d = c THEN k ELSE click[d]
    BY <1>1 DEF RepairInv, TypeOK
  <1> QED BY <1>1, <1>4, <1>6, <1>7 DEF RepairInv, HistoryInv

LEMMA ReadAnswerKeeps ==
  ASSUME RepairInv, NEW c \in Customer, ReadAnswer(c)
  PROVE  RepairInv'
  <1> DEFINE answer == click[c].answer
             round  == click[c].round
             k == [pc |-> "write", answer |-> answer, round |-> round,
                   seen |-> Generation(journey, answer)]
  <1>1. /\ click[c].pc = "form"
        /\ click' = [click EXCEPT ![c] = k]
        /\ UpToDate(Generation(journey, answer), round)
        /\ UNCHANGED <<journey, request, emailed, pressed, begun, detours, faults>>
    BY DEF ReadAnswer
  <1>2. answer \in Answer /\ round \in emailed[Asks(answer)] /\ round \in Nat
    BY <1>1, TypeFacts DEF RepairInv, ClickInv
  <1> HIDE DEF answer, round
  <1>3. Generation(journey, answer) \in Nat
    BY TypeFacts, GenerationType DEF Generation, Journey, Unset
  <1>4. Generation(journey, answer) \in {Unset, round}
    BY <1>1, <1>2, <1>3 DEF UpToDate, Unset
  <1>5. ClickInv(k, emailed)
    BY <1>2, <1>4 DEF ClickInv
  <1>6. k \in [pc : {"idle", "form", "write"}, answer : Answer \cup {"none"}, round : Nat,
               seen : Nat]
    BY <1>2, <1>3
  <1> HIDE DEF k
  <1>7. TypeOK'
    BY <1>1, <1>6 DEF RepairInv, TypeOK
  <1>8. \A d \in Customer : click'[d] = IF d = c THEN k ELSE click[d]
    BY <1>1 DEF RepairInv, TypeOK
  <1> QED BY <1>1, <1>5, <1>7, <1>8 DEF RepairInv, HistoryInv

LEMMA WriteAnswerKeeps ==
  ASSUME RepairInv, NEW c \in Customer, WriteAnswer(c)
  PROVE  RepairInv'
  <1> DEFINE k == click[c]
  <1>1. /\ k.pc = "write" /\ k.answer \in Answer /\ k.round \in Nat
        /\ k.seen \in {Unset, k.round} /\ k.round \in emailed[Asks(k.answer)]
    BY TypeFacts DEF WriteAnswer, RepairInv, ClickInv
  <1>2. /\ click' = [click EXCEPT ![c] = NoClick]
        /\ \/ journey' = Answered(journey, k) /\ pressed' = PressedBy(k, pressed)
           \/ UNCHANGED <<journey, pressed>>
        /\ UNCHANGED <<request, emailed, begun, detours, faults>>
    BY DEF WriteAnswer, PressedBy
  <1>3. /\ journey' \in Journey /\ pressed' \in Links
        /\ JourneyInv(journey', pressed')
        /\ journey'.bookingGen = journey.bookingGen
        /\ Grows(pressed, pressed')
    <2>1. CASE journey' = Answered(journey, k) /\ pressed' = PressedBy(k, pressed)
      BY <1>1, <2>1, TypeFacts, AnsweredFacts, PressedFacts DEF RepairInv
    <2>2. CASE UNCHANGED <<journey, pressed>>
      BY <2>2, TypeFacts DEF RepairInv, Grows
    <2> QED BY <1>2, <2>1, <2>2
  <1>4. TypeOK'
    <2>1. NoClick \in [pc : {"idle", "form", "write"}, answer : Answer \cup {"none"},
                      round : Nat, seen : Nat]
      BY DEF NoClick, Unset
    <2> QED BY <1>2, <1>3, <2>1 DEF RepairInv, TypeOK, Links
  <1>5. \A t \in Staff : RequestInv(request'[t], journey', pressed')
    BY <1>2, <1>3, RequestStays DEF RepairInv
  <1>6. \A d \in Customer : ClickInv(click'[d], emailed')
    <2>1. \A d \in Customer : click'[d] = IF d = c THEN NoClick ELSE click[d]
      BY <1>2 DEF RepairInv, TypeOK
    <2>2. ClickInv(NoClick, emailed)
      BY DEF ClickInv, NoClick
    <2> QED BY <1>2, <2>1, <2>2 DEF RepairInv
  <1>7. HistoryInv'
    <2>1. /\ pressed'["book"] \subseteq emailed["booking-confirmed"]
          /\ pressed'["accept"] \subseteq emailed["quote-ready"]
      <3>1. CASE journey' = Answered(journey, k) /\ pressed' = PressedBy(k, pressed)
        <4>1. pressed \in Links /\ k.round \in Nat
          BY <1>1, TypeFacts
        <4> HIDE DEF k
        <4>2. \A answer \in Yes :
                PressedBy(k, pressed)[answer] =
                  IF answer = k.answer THEN pressed[answer] \cup {k.round} ELSE pressed[answer]
          BY <4>1, PressedFacts
        <4>3. k.answer = "book" => k.round \in emailed["booking-confirmed"]
          BY <1>1 DEF Asks
        <4>4. k.answer = "accept" => k.round \in emailed["quote-ready"]
          BY <1>1 DEF Asks
        <4> QED BY <3>1, <4>2, <4>3, <4>4 DEF RepairInv, HistoryInv, Yes
      <3>2. CASE UNCHANGED <<journey, pressed>>
        BY <3>2 DEF RepairInv, HistoryInv
      <3> QED BY <1>2, <3>1, <3>2
    <2> QED BY <1>2, <2>1 DEF RepairInv, HistoryInv
  <1> QED BY <1>3, <1>4, <1>5, <1>6, <1>7 DEF RepairInv

LEMMA RepairNext == RepairInv /\ [Next]_vars => RepairInv'
  <1> SUFFICES ASSUME RepairInv, [Next]_vars PROVE RepairInv'
    OBVIOUS
  <1>1. ASSUME NEW s \in Staff, StaffStep(s) PROVE RepairInv'
    <2>1. CASE \/ \E step \in Steps : ReadSend(s, step)
               \/ \E step \in Resends : ReadResend(s, step)
               \/ ReadEdit(s) \/ ReadCancel(s) \/ ReadQuoteDecline(s)
      BY <2>1, ReadKeeps
    <2>2. CASE SendEmail(s)
      BY <2>2, SendEmailKeeps
    <2>3. CASE EmailFails(s) \/ WriteLost(s)
      BY <2>3, DropKeeps
    <2>4. CASE WriteJourney(s)
      BY <2>4, WriteJourneyKeeps
    <2> QED BY <1>1, <2>1, <2>2, <2>3, <2>4 DEF StaffStep
  <1>2. ASSUME NEW c \in Customer, CustomerStep(c) PROVE RepairInv'
    BY <1>2, OpenFormKeeps, ReadAnswerKeeps, WriteAnswerKeeps DEF CustomerStep
  <1>3. CASE UNCHANGED vars
    BY <1>3 DEF vars, RepairInv, TypeOK, HistoryInv
  <1> QED BY <1>1, <1>2, <1>3 DEF Next

\* The inductive invariant holds in every state, for every value of the constants.
THEOREM RepairInvHolds == Spec => []RepairInv
  BY RepairInit, RepairNext, PTL DEF Spec

\* The document, the requests, the clicks and the histories keep their types.
THEOREM TypeCorrect == Spec => []TypeOK
  <1>1. RepairInv => TypeOK
    BY DEF RepairInv
  <1> QED BY <1>1, RepairInvHolds, PTL

\* However many requests and clicks are in flight, a device goes back unrepaired, or by
\* courier, only when the customer asked for it.
THEOREM AskedCorrect == Spec => []AskedForReturn
  <1>1. RepairInv => AskedForReturn
    BY DEF RepairInv, JourneyInv, AskedForReturn, Has
  <1> QED BY <1>1, RepairInvHolds, PTL

-----------------------------------------------------------------------------
(* The two gates.                                                           *)

\* Only sending an email and storing an answer touch what the gates speak of.
LEMMA HistoryKept ==
  ASSUME [Next]_vars, \A s \in Staff : ~SendEmail(s), \A c \in Customer : ~WriteAnswer(c)
  PROVE  UNCHANGED <<emailed, pressed, begun>>
  <1>1. ASSUME NEW s \in Staff, StaffStep(s) PROVE UNCHANGED <<emailed, pressed, begun>>
    BY <1>1 DEF StaffStep, ReadSend, ReadResend, ReadEdit, ReadCancel, ReadQuoteDecline, Begin,
                EmailFails, WriteJourney, WriteLost
  <1>2. ASSUME NEW c \in Customer, CustomerStep(c) PROVE UNCHANGED <<emailed, pressed, begun>>
    BY <1>2 DEF CustomerStep, OpenForm, ReadAnswer
  <1> QED BY <1>1, <1>2 DEF Next, vars

\* What an email adds to the histories.
LEMMA SendEmailHistory ==
  ASSUME RepairInv, NEW s \in Staff, SendEmail(s)
  PROVE  LET step == request[s].step
             round == LinkRound(step, request[s].seen)
             consent == Consent(step, request[s].seen.data)
         IN  /\ UNCHANGED pressed
             /\ emailed' = IF step \in Question THEN [emailed EXCEPT ![step] = @ \cup {round}]
                                                ELSE emailed
             /\ begun' = IF step \in Gated THEN [begun EXCEPT ![step] = @ \cup {consent}]
                                           ELSE begun
             /\ step = "booking-confirmed" => round \in 0..MaxBookings
             /\ step = "quote-ready" => round \in 0..MaxQuotes
             /\ step = "pickup-scheduled" => Consented(pressed["book"], consent)
             /\ step = "repair-in-progress" => Consented(pressed["accept"], consent)
  <1>1. RequestInv(request[s], journey, pressed)
    BY DEF RepairInv
  <1>2. /\ request[s].seen.bookingGen \in Nat /\ request[s].seen.quoteGen \in Nat
        /\ MaxBookings \in Nat /\ MaxQuotes \in Nat
    BY TypeFacts DEF Journey
  <1>3. request[s].step = "booking-confirmed" =>
          LinkRound(request[s].step, request[s].seen) \in 0..MaxBookings
    BY <1>1, <1>2, GenerationType DEF RequestInv, LinkRound
  <1>4. request[s].step = "quote-ready" =>
          LinkRound(request[s].step, request[s].seen) \in 0..MaxQuotes
    BY <1>1, <1>2, GenerationType DEF RequestInv, LinkRound
  <1>5. /\ request[s].step = "pickup-scheduled" =>
             Consent(request[s].step, request[s].seen.data) = request[s].seen.data.ackOf
        /\ request[s].step = "repair-in-progress" =>
             Consent(request[s].step, request[s].seen.data) = request[s].seen.data.acceptedOf
    BY DEF Consent
  <1> QED BY <1>1, <1>3, <1>4, <1>5 DEF SendEmail, RequestInv

\* What an answer adds to the histories.
LEMMA WriteAnswerHistory ==
  ASSUME RepairInv, NEW c \in Customer, WriteAnswer(c)
  PROVE  /\ UNCHANGED <<emailed, begun>>
         /\ \/ UNCHANGED pressed
            \/ \E answer \in Yes, round \in Nat :
                 /\ round \in emailed[Asks(answer)]
                 /\ \A a \in Yes :
                      pressed'[a] = IF a = answer THEN pressed[a] \cup {round} ELSE pressed[a]
  <1> DEFINE k == click[c]
  <1>1. /\ k.pc = "write" /\ k.answer \in Answer /\ k.round \in Nat
        /\ k.round \in emailed[Asks(k.answer)]
    BY TypeFacts DEF WriteAnswer, RepairInv, ClickInv
  <1>2. /\ UNCHANGED <<emailed, begun>>
        /\ pressed' = PressedBy(k, pressed) \/ UNCHANGED pressed
    BY DEF WriteAnswer, PressedBy
  <1>3. pressed \in Links
    BY TypeFacts
  <1> HIDE DEF k
  <1>4. \A a \in Yes :
          PressedBy(k, pressed)[a] = IF a = k.answer THEN pressed[a] \cup {k.round} ELSE pressed[a]
    BY <1>1, <1>3, PressedFacts
  <1>5. k.answer \notin Yes => PressedBy(k, pressed) = pressed
    BY DEF PressedBy
  <1>6. CASE pressed' = PressedBy(k, pressed) /\ k.answer \in Yes
    <2>1. \A a \in Yes :
            pressed'[a] = IF a = k.answer THEN pressed[a] \cup {k.round} ELSE pressed[a]
      BY <1>4, <1>6
    <2>2. \E answer \in Yes, round \in Nat :
            /\ round \in emailed[Asks(answer)]
            /\ \A a \in Yes :
                 pressed'[a] = IF a = answer THEN pressed[a] \cup {round} ELSE pressed[a]
      <3> k.answer \in Yes /\ k.round \in Nat
        BY <1>1, <1>6
      <3> WITNESS k.answer \in Yes, k.round \in Nat
      <3> QED BY <1>1, <2>1
    <2> QED BY <1>2, <2>2
  <1>7. CASE UNCHANGED pressed
    BY <1>2, <1>7
  <1> QED BY <1>2, <1>5, <1>6, <1>7

LEMMA BookingGateStep ==
  ASSUME RepairInv, [Next]_vars
  PROVE  [BookingGate!Next]_(BookingGate!vars)
  <1>1. /\ emailed \in [Question -> SUBSET Nat] /\ begun \in [Gated -> SUBSET Nat]
        /\ pressed["book"] \subseteq emailed["booking-confirmed"]
        /\ emailed["booking-confirmed"] \subseteq 0..MaxBookings
        /\ MaxBookings \in Nat
    BY TypeFacts DEF RepairInv, TypeOK, HistoryInv
  <1>2. ASSUME NEW s \in Staff, SendEmail(s) PROVE [BookingGate!Next]_(BookingGate!vars)
    <2> DEFINE step == request[s].step
               round == LinkRound(step, request[s].seen)
               consent == Consent(step, request[s].seen.data)
    <2>1. /\ UNCHANGED pressed
          /\ emailed' = IF step \in Question THEN [emailed EXCEPT ![step] = @ \cup {round}]
                                             ELSE emailed
          /\ begun' = IF step \in Gated THEN [begun EXCEPT ![step] = @ \cup {consent}]
                                        ELSE begun
          /\ step = "booking-confirmed" => round \in 0..MaxBookings
          /\ step = "pickup-scheduled" => Consented(pressed["book"], consent)
      BY <1>2, SendEmailHistory
    <2> HIDE DEF step, round, consent
    <2>2. CASE step = "booking-confirmed"
      <3>1. BookingGate!Ask(round) /\ round \in 0..MaxBookings
        BY <1>1, <2>1, <2>2 DEF BookingGate!Ask, Question, Gated
      <3> QED BY <3>1 DEF BookingGate!Next
    <2>3. CASE step = "pickup-scheduled"
      <3>1. consent \in 0..MaxBookings
        BY <1>1, <2>1, <2>3 DEF Consented, Unset
      <3>2. BookingGate!Begin(consent)
        BY <1>1, <2>1, <2>3
           DEF BookingGate!Begin, BookingGate!Unnumbered, Consented, Unset, Question, Gated
      <3> QED BY <3>1, <3>2 DEF BookingGate!Next
    <2>4. CASE step \notin {"booking-confirmed", "pickup-scheduled"}
      BY <1>1, <2>1, <2>4 DEF BookingGate!vars, Question, Gated
    <2> QED BY <2>2, <2>3, <2>4
  <1>3. ASSUME NEW c \in Customer, WriteAnswer(c) PROVE [BookingGate!Next]_(BookingGate!vars)
    <2>1. UNCHANGED <<emailed, begun>>
      BY <1>3, WriteAnswerHistory
    <2>2. CASE UNCHANGED pressed
      BY <2>1, <2>2 DEF BookingGate!vars
    <2>3. ASSUME NEW answer \in Yes, NEW round \in Nat,
                 round \in emailed[Asks(answer)],
                 \A a \in Yes :
                   pressed'[a] = IF a = answer THEN pressed[a] \cup {round} ELSE pressed[a]
          PROVE  [BookingGate!Next]_(BookingGate!vars)
      <3>1. CASE answer = "book"
        <4>1. round \in emailed["booking-confirmed"] /\ round \in 0..MaxBookings
          BY <1>1, <2>3, <3>1 DEF Asks
        <4>2. BookingGate!Agree(round)
          BY <2>1, <2>3, <3>1, <4>1 DEF BookingGate!Agree, Yes
        <4> QED BY <4>1, <4>2 DEF BookingGate!Next
      <3>2. CASE answer # "book"
        BY <2>1, <2>3, <3>2 DEF BookingGate!vars, Yes
      <3> QED BY <3>1, <3>2
    <2> QED BY <1>3, <2>2, <2>3, WriteAnswerHistory
  <1>4. CASE UNCHANGED <<emailed, pressed, begun>>
    BY <1>4 DEF BookingGate!vars
  <1> QED BY <1>2, <1>3, <1>4, HistoryKept

LEMMA QuoteGateStep ==
  ASSUME RepairInv, [Next]_vars
  PROVE  [QuoteGate!Next]_(QuoteGate!vars)
  <1>1. /\ emailed \in [Question -> SUBSET Nat] /\ begun \in [Gated -> SUBSET Nat]
        /\ pressed["accept"] \subseteq emailed["quote-ready"]
        /\ emailed["quote-ready"] \subseteq 0..MaxQuotes
        /\ MaxQuotes \in Nat
    BY TypeFacts DEF RepairInv, TypeOK, HistoryInv
  <1>2. ASSUME NEW s \in Staff, SendEmail(s) PROVE [QuoteGate!Next]_(QuoteGate!vars)
    <2> DEFINE step == request[s].step
               round == LinkRound(step, request[s].seen)
               consent == Consent(step, request[s].seen.data)
    <2>1. /\ UNCHANGED pressed
          /\ emailed' = IF step \in Question THEN [emailed EXCEPT ![step] = @ \cup {round}]
                                             ELSE emailed
          /\ begun' = IF step \in Gated THEN [begun EXCEPT ![step] = @ \cup {consent}]
                                        ELSE begun
          /\ step = "quote-ready" => round \in 0..MaxQuotes
          /\ step = "repair-in-progress" => Consented(pressed["accept"], consent)
      BY <1>2, SendEmailHistory
    <2> HIDE DEF step, round, consent
    <2>2. CASE step = "quote-ready"
      <3>1. QuoteGate!Ask(round) /\ round \in 0..MaxQuotes
        BY <1>1, <2>1, <2>2 DEF QuoteGate!Ask, Question, Gated
      <3> QED BY <3>1 DEF QuoteGate!Next
    <2>3. CASE step = "repair-in-progress"
      <3>1. consent \in 0..MaxQuotes
        BY <1>1, <2>1, <2>3 DEF Consented, Unset
      <3>2. QuoteGate!Begin(consent)
        BY <1>1, <2>1, <2>3
           DEF QuoteGate!Begin, QuoteGate!Unnumbered, Consented, Unset, Question, Gated
      <3> QED BY <3>1, <3>2 DEF QuoteGate!Next
    <2>4. CASE step \notin {"quote-ready", "repair-in-progress"}
      BY <1>1, <2>1, <2>4 DEF QuoteGate!vars, Question, Gated
    <2> QED BY <2>2, <2>3, <2>4
  <1>3. ASSUME NEW c \in Customer, WriteAnswer(c) PROVE [QuoteGate!Next]_(QuoteGate!vars)
    <2>1. UNCHANGED <<emailed, begun>>
      BY <1>3, WriteAnswerHistory
    <2>2. CASE UNCHANGED pressed
      BY <2>1, <2>2 DEF QuoteGate!vars
    <2>3. ASSUME NEW answer \in Yes, NEW round \in Nat,
                 round \in emailed[Asks(answer)],
                 \A a \in Yes :
                   pressed'[a] = IF a = answer THEN pressed[a] \cup {round} ELSE pressed[a]
          PROVE  [QuoteGate!Next]_(QuoteGate!vars)
      <3>1. CASE answer = "accept"
        <4>1. round \in emailed["quote-ready"] /\ round \in 0..MaxQuotes
          BY <1>1, <2>3, <3>1 DEF Asks
        <4>2. QuoteGate!Agree(round)
          BY <2>1, <2>3, <3>1, <4>1 DEF QuoteGate!Agree, Yes
        <4> QED BY <4>1, <4>2 DEF QuoteGate!Next
      <3>2. CASE answer # "accept"
        BY <2>1, <2>3, <3>2 DEF QuoteGate!vars, Yes
      <3> QED BY <3>1, <3>2
    <2> QED BY <1>3, <2>2, <2>3, WriteAnswerHistory
  <1>4. CASE UNCHANGED <<emailed, pressed, begun>>
    BY <1>4 DEF QuoteGate!vars
  <1> QED BY <1>2, <1>3, <1>4, HistoryKept

LEMMA GatesInit == Init => BookingGate!Init /\ QuoteGate!Init
  BY DEF Init, BookingGate!Init, QuoteGate!Init, Question, Yes, Gated

\* Any number of concurrent requests and clicks implements the gate of the booking: a pickup
\* is scheduled on a round that was emailed and that the customer agreed to.
THEOREM BookingGateCorrect == Spec => BookingGateSpec
  <1>1. RepairInv /\ [Next]_vars => [BookingGate!Next]_(BookingGate!vars)
    BY BookingGateStep
  <1>2. Init => BookingGate!Init
    BY GatesInit
  <1> QED BY <1>1, <1>2, RepairInvHolds, PTL DEF Spec, BookingGateSpec, BookingGate!Spec

\* It implements the gate of the quote too: a repair starts on a round of the quote that was
\* emailed and that the customer accepted.
THEOREM QuoteGateCorrect == Spec => QuoteGateSpec
  <1>1. RepairInv /\ [Next]_vars => [QuoteGate!Next]_(QuoteGate!vars)
    BY QuoteGateStep
  <1>2. Init => QuoteGate!Init
    BY GatesInit
  <1> QED BY <1>1, <1>2, RepairInvHolds, PTL DEF Spec, QuoteGateSpec, QuoteGate!Spec

-----------------------------------------------------------------------------
(* What clicks may not do to the answers of others.                         *)

\* However many clicks race, an acceptance of the current round stays.
THEOREM AcceptanceCorrect == Spec => AcceptanceStands
  <1> DEFINE Stands == (\E c \in Customer : WriteAnswer(c)) /\ Accepted(journey.data) =>
                         Accepted(journey.data') \/ journey.data.acceptedOf # journey.quoteGen
  <1>1. RepairInv /\ [Next]_vars => [Stands]_vars
    <2> SUFFICES ASSUME RepairInv, NEW c \in Customer, WriteAnswer(c), Accepted(journey.data)
                 PROVE  Accepted(journey.data') \/ journey.data.acceptedOf # journey.quoteGen
      OBVIOUS
    <2> DEFINE k == click[c]
    <2>1. /\ k.answer \in Answer
          /\ UNCHANGED journey \/ (atomicFilter(journey, k) /\ journey' = Answered(journey, k))
      BY DEF WriteAnswer, RepairInv, ClickInv
    <2> HIDE DEF k
    <2>2. journey \in Journey /\ journey.data \in Data
      BY TypeFacts DEF Journey
    <2>3. CASE UNCHANGED journey
      BY <2>3
    <2>4. CASE atomicFilter(journey, k) /\ journey' = Answered(journey, k)
      <3>1. CASE k.answer \in {"accept", "decline"}
        <4>1. journey.quoteGen = k.seen /\ Differs(journey.data.acceptedOf, k.seen)
          BY <2>4, <3>1 DEF atomicFilter
        <4> QED BY <4>1 DEF Differs, Accepted, Unset
      <3>2. CASE k.answer \notin {"accept", "decline"}
        <4>1. /\ journey'.data.accepted = journey.data.accepted
              /\ journey'.data.acceptedOf = journey.data.acceptedOf
          BY <2>1, <2>2, <2>4, <3>2 DEF Answered, Answer, Journey, Data
        <4> QED BY <4>1 DEF Accepted
      <3> QED BY <3>1, <3>2
    <2> QED BY <2>1, <2>3, <2>4
  <1> QED BY <1>1, RepairInvHolds, PTL DEF Spec, AcceptanceStands

-----------------------------------------------------------------------------
(* The way the device goes back, for one staff request at a time.           *)

LEMMA ReturnChecked ==
  ASSUME MaySend(journey, "device-returned")
  PROVE  journey.data.mode # "none" /\ assertCourierDispatchedIfRequired(journey)
  <1>1. "device-returned" \in Workflow /\ "device-returned" # "courier-dispatched"
        /\ "device-returned" \notin ADHOC_RETURN_REPAIR_WORKFLOW_KEYS
    BY WorkflowFacts DEF ADHOC_RETURN_REPAIR_WORKFLOW_KEYS
  <1>2. sendNext(journey, "device-returned") \/ sendStep(journey, "device-returned")
    BY DEF MaySend
  <1>3. sendStep(journey, "device-returned") => InTurn(journey, "device-returned")
    BY <1>1 DEF sendStep
  <1>4. "device-ready" \in journey.completed
    BY <1>2, <1>3, BeforeFacts, WorkflowFacts DEF sendNext, InTurn
  <1> QED BY <1>4 DEF MaySend, Preconditions, assertCustomerSelectedReturnMode

LEMMA AnswerKeepsMode ==
  ASSUME RepairInv, NEW c \in Customer, WriteAnswer(c), journey.data.mode # "none"
  PROVE  journey'.data.mode = journey.data.mode /\ journey'.sent = journey.sent
  <1> DEFINE k == click[c]
  <1>1. /\ k.answer \in Answer
        /\ UNCHANGED journey \/ (atomicFilter(journey, k) /\ journey' = Answered(journey, k))
    BY DEF WriteAnswer, RepairInv, ClickInv
  <1> HIDE DEF k
  <1>2. journey \in Journey /\ journey.data \in Data
    BY TypeFacts DEF Journey
  <1>3. CASE UNCHANGED journey
    BY <1>3
  <1>4. CASE k.answer \in {"store", "courier"} /\ atomicFilter(journey, k)
    BY <1>4 DEF atomicFilter
  <1>5. CASE k.answer \notin {"store", "courier"} /\ journey' = Answered(journey, k)
    <2>1. CASE k.answer = "decline"
      BY <1>2, <1>5, <2>1, QuoteDeclinedFacts DEF Answered, Data
    <2>2. CASE k.answer # "decline"
      BY <1>1, <1>2, <1>5, <2>2 DEF Answered, Answer, Journey, Data
    <2> QED BY <2>1, <2>2
  <1> QED BY <1>1, <1>3, <1>4, <1>5

LEMMA ReturnNext ==
  ASSUME \A s, t \in Staff : s = t, RepairInv, ReturnInv, [Next]_vars
  PROVE  ReturnInv'
  <1> DEFINE Fine(r, j) ==
        r.pc # "idle" /\ r.op = "send" /\ r.step = "device-returned" =>
          j.data.mode # "none" /\ assertCourierDispatchedIfRequired(j)
  <1>1. /\ \A s \in Staff : Fine(request[s], journey)
        /\ Fine(NoRequest, journey')
        /\ request \in [Staff -> [pc : {"idle", "send", "write"}, op : Ops \cup {"none"},
                                  step : Emails \cup {"none"}, seen : Journey]]
    BY DEF ReturnInv, NoRequest, RepairInv, TypeOK
  <1>2. ASSUME \A s \in Staff : Fine(request'[s], journey') PROVE ReturnInv'
    BY <1>2 DEF ReturnInv
  <1>3. ASSUME NEW s \in Staff, NEW op, NEW step, NEW pc, Begin(s, op, step, pc),
               op = "send" => MaySend(journey, step)
        PROVE  ReturnInv'
    <2>1. /\ journey' = journey
          /\ request'[s].op = op /\ request'[s].step = step
      BY <1>1, <1>3 DEF Begin
    <2>2. Fine(request'[s], journey')
      BY <1>3, <2>1, ReturnChecked
    <2> QED BY <1>2, <2>2
  <1>4. ASSUME NEW s \in Staff, StaffStep(s) PROVE ReturnInv'
    <2>1. CASE \/ \E step \in Steps : ReadSend(s, step)
               \/ \E step \in Resends : ReadResend(s, step)
               \/ ReadEdit(s) \/ ReadCancel(s) \/ ReadQuoteDecline(s)
      BY <1>3, <2>1 DEF ReadSend, ReadResend, ReadEdit, ReadCancel, ReadQuoteDecline
    <2>2. CASE SendEmail(s)
      <3>1. /\ journey' = journey
            /\ request'[s].op = request[s].op /\ request'[s].step = request[s].step
            /\ request[s].pc = "send"
        BY <1>1, <2>2 DEF SendEmail
      <3>2. Fine(request'[s], journey')
        BY <1>1, <3>1
      <3> QED BY <1>2, <3>2
    <2>3. CASE EmailFails(s) \/ WriteLost(s) \/ WriteJourney(s)
      <3>1. request'[s] = NoRequest
        BY <1>1, <2>3 DEF EmailFails, WriteLost, WriteJourney
      <3> QED BY <1>1, <1>2, <3>1
    <2> QED BY <1>4, <2>1, <2>2, <2>3 DEF StaffStep
  <1>5. ASSUME NEW c \in Customer, CustomerStep(c) PROVE ReturnInv'
    <2>1. request' = request
      BY <1>5 DEF CustomerStep, OpenForm, ReadAnswer, WriteAnswer
    <2>2. CASE WriteAnswer(c)
      <3>1. ASSUME NEW s \in Staff PROVE Fine(request'[s], journey')
        BY <1>1, <2>1, <2>2, AnswerKeepsMode DEF assertCourierDispatchedIfRequired
      <3> QED BY <1>2, <3>1
    <2>3. CASE ~WriteAnswer(c)
      <3>1. journey' = journey
        BY <1>5, <2>3 DEF CustomerStep, OpenForm, ReadAnswer
      <3> QED BY <1>1, <1>2, <2>1, <3>1
    <2> QED BY <2>2, <2>3
  <1>6. CASE UNCHANGED vars
    BY <1>1, <1>2, <1>6 DEF vars
  <1> QED BY <1>4, <1>5, <1>6 DEF Next

\* With one staff request at a time, and any number of clicks beside it, the device is
\* recorded as returned the way the customer chose.
THEOREM ReturnedCorrect ==
  ASSUME \A s, t \in Staff : s = t
  PROVE  Spec => ReturnedAsChosen
  <1> DEFINE Returned == ~Has("device-returned") /\ Has("device-returned")' =>
                journey.data.mode # "none" /\ assertCourierDispatchedIfRequired(journey)
  <1>1. Init => ReturnInv
    BY DEF Init, ReturnInv, NoRequest
  <1>2. RepairInv /\ ReturnInv /\ [Next]_vars => ReturnInv'
    BY ReturnNext
  <1>3. RepairInv /\ ReturnInv /\ [Next]_vars => [Returned]_vars
    <2> SUFFICES ASSUME RepairInv, ReturnInv, Next,
                        ~Has("device-returned"), Has("device-returned")'
                 PROVE  journey.data.mode # "none" /\ assertCourierDispatchedIfRequired(journey)
      OBVIOUS
    <2>1. journey \in Journey /\ "device-returned" \notin journey.sent
          /\ "device-returned" \in journey'.sent
      BY TypeFacts DEF Has
    <2>2. ASSUME NEW c \in Customer, CustomerStep(c) PROVE FALSE
      <3>1. CASE WriteAnswer(c)
        <4>1. click[c].answer \in Answer /\ click[c].round \in Nat
              /\ click[c].seen \in {Unset, click[c].round}
          BY <3>1, TypeFacts DEF RepairInv, ClickInv, WriteAnswer
        <4>2. Answered(journey, click[c]).sent = journey.sent
          BY <2>1, <4>1, QuoteDeclinedFacts DEF Answered, Answer, Journey
        <4> QED BY <2>1, <3>1, <4>2 DEF WriteAnswer
      <3>2. CASE ~WriteAnswer(c)
        BY <2>1, <2>2, <3>2 DEF CustomerStep, OpenForm, ReadAnswer
      <3> QED BY <3>1, <3>2
    <2>3. PICK s \in Staff : StaffStep(s)
      BY <2>2 DEF Next
    <2>4. WriteJourney(s)
      BY <2>1, <2>3 DEF StaffStep, ReadSend, ReadResend, ReadEdit, ReadCancel, ReadQuoteDecline,
                        Begin, SendEmail, EmailFails, WriteLost
    <2> DEFINE r == request[s]
    <2>5. /\ r.pc # "idle" /\ RequestInv(r, journey, pressed) /\ r.seen \in Journey
          /\ journey' = Write(journey, r)
      BY <2>4, TypeFacts DEF WriteJourney, RepairInv
    <2> HIDE DEF r
    <2>6. r.op = "send" /\ r.step = "device-returned"
      <3>1. CASE r.op = "send" /\ r.step \in Adhoc
        <4>1. Write(journey, r).sent = journey.sent \cup {r.step}
          BY <2>1, <3>1, SentAdhocFacts DEF Write
        <4> QED BY <2>1, <2>5, <3>1, <4>1
      <3>2. CASE r.op = "send" /\ r.step \notin Adhoc
        <4>1. r.step \in Workflow
          BY <2>5, <3>2, WorkflowFacts DEF RequestInv
        <4>2. Write(journey, r) = Sent(journey, r.seen, r.step)
          BY <3>2 DEF Write
        <4>3. Sent(journey, r.seen, r.step).sent = journey.sent \cup {r.step}
          BY <2>1 DEF Sent, Journey
        <4>4. Write(journey, r).sent = journey.sent \cup {r.step}
          BY <4>2, <4>3
        <4> QED BY <2>1, <2>5, <3>2, <4>4
      <3>3. CASE r.op = "resend"
        <4>1. Write(journey, r).sent = journey.sent
          BY <2>1, <2>5, <3>3, ResentFacts DEF Write, RequestInv
        <4> QED BY <2>1, <2>5, <4>1
      <3>4. CASE r.op \in {"edit", "cancel"}
        BY <2>1, <2>5, <3>4 DEF Write, Journey
      <3>5. CASE r.op = "decline"
        <4>1. Write(journey, r).sent = journey.sent
          BY <2>1, <3>5, QuoteDeclinedFacts DEF Write
        <4> QED BY <2>1, <2>5, <4>1
      <3> QED BY <2>5, <3>1, <3>2, <3>3, <3>4, <3>5 DEF RequestInv
    <2> QED BY <2>5, <2>6 DEF ReturnInv, r
  <1> QED BY <1>1, <1>2, <1>3, RepairInvHolds, PTL DEF Spec, ReturnedAsChosen
=============================================================================
