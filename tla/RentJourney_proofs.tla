-------------------------- MODULE RentJourney_proofs --------------------------
(***************************************************************************)
(* What a rental rests on, the customer's own answers and the order of its  *)
(* emails, holds for any number of staff requests, clicks and runs of the   *)
(* hourly job.                                                              *)
(***************************************************************************)
EXTENDS RentJourneyProps, TLAPS

LEMMA WorkflowFacts ==
  /\ Workflow = {"rent-request", "rent-agreement", "rent-ready-pickup", "rent-dispatched",
                 "rent-handover", "rent-return-reminder", "rent-return-received", "rent-closed"}
  /\ Reminder \in Workflow
  <1>1. DOMAIN RENT_JOURNEY_WORKFLOW_STEPS = 1..8
    BY DEF RENT_JOURNEY_WORKFLOW_STEPS
  <1> QED BY <1>1 DEF Workflow, RENT_JOURNEY_WORKFLOW_STEPS, Reminder

LEMMA IndexFacts ==
  /\ Index("rent-request") = 1
  /\ Index("rent-agreement") = 2
  /\ Index("rent-ready-pickup") = 3
  /\ Index("rent-dispatched") = 4
  /\ Index("rent-handover") = 5
  /\ Index("rent-return-reminder") = 6
  /\ Index("rent-return-received") = 7
  /\ Index("rent-closed") = 8
  <1>1. DOMAIN RENT_JOURNEY_WORKFLOW_STEPS = 1..8
    BY DEF RENT_JOURNEY_WORKFLOW_STEPS
  <1>2. ASSUME NEW i \in 1..8
        PROVE  Index(RENT_JOURNEY_WORKFLOW_STEPS[i]) = i
    <2>1. \A k \in 1..8 : RENT_JOURNEY_WORKFLOW_STEPS[k] = RENT_JOURNEY_WORKFLOW_STEPS[i] => k = i
      BY DEF RENT_JOURNEY_WORKFLOW_STEPS
    <2> QED BY <1>1, <2>1 DEF Index
  <1>3. /\ RENT_JOURNEY_WORKFLOW_STEPS[1] = "rent-request"
        /\ RENT_JOURNEY_WORKFLOW_STEPS[2] = "rent-agreement"
        /\ RENT_JOURNEY_WORKFLOW_STEPS[3] = "rent-ready-pickup"
        /\ RENT_JOURNEY_WORKFLOW_STEPS[4] = "rent-dispatched"
        /\ RENT_JOURNEY_WORKFLOW_STEPS[5] = "rent-handover"
        /\ RENT_JOURNEY_WORKFLOW_STEPS[6] = "rent-return-reminder"
        /\ RENT_JOURNEY_WORKFLOW_STEPS[7] = "rent-return-received"
        /\ RENT_JOURNEY_WORKFLOW_STEPS[8] = "rent-closed"
    BY DEF RENT_JOURNEY_WORKFLOW_STEPS
  <1>4. \A i \in 1..8 : Index(RENT_JOURNEY_WORKFLOW_STEPS[i]) = i
    BY <1>2
  <1> QED BY <1>3, <1>4

LEMMA BeforeFacts ==
  /\ Before("rent-request") = {}
  /\ Before("rent-agreement") = {"rent-request"}
  /\ Before("rent-ready-pickup") = {"rent-request", "rent-agreement"}
  /\ Before("rent-dispatched") = {"rent-request", "rent-agreement", "rent-ready-pickup"}
  /\ Before("rent-handover") =
       {"rent-request", "rent-agreement", "rent-ready-pickup", "rent-dispatched"}
  /\ Before("rent-return-reminder") = Before("rent-handover") \cup {"rent-handover"}
  /\ Before("rent-return-received") = Workflow \ {"rent-return-received", "rent-closed"}
  /\ Before("rent-closed") = Workflow \ {"rent-closed"}
  BY WorkflowFacts, IndexFacts DEF Before

LEMMA NextStepType ==
  ASSUME NEW done, NEW d, Open(done, d) # {}
  PROVE  getNextStep(done, d) \in Workflow
  <1>1. Open(done, d) \subseteq Workflow
    BY DEF Open, getApplicableSteps
  <1> DEFINE S == Open(done, d)
  <1>2. \E t \in S : Before(t) \cap S = {}
    <2> HIDE DEF S
    <2> QED BY <1>1, WorkflowFacts, BeforeFacts DEF S
  <1> QED BY <1>1, <1>2 DEF getNextStep

\* A step whose turn it is follows every step before it that its branch does not skip.
LEMMA TurnFacts ==
  ASSUME NEW j, NEW step \in Workflow, InTurn(j, step), NEW sent, j.completed \subseteq sent
  PROVE  InOrder(step, sent)
  <1> DEFINE skipped == Workflow \ getApplicableSteps(j.data)
  <1>1. skipped \in {{}, {"rent-ready-pickup"}, {"rent-dispatched"}}
    BY WorkflowFacts DEF getApplicableSteps
  <1>2. Before(step) \subseteq j.completed \cup skipped
    BY DEF InTurn, Open, Before
  <1> HIDE DEF skipped
  <1> QED BY <1>1, <1>2 DEF InOrder, Branch

LEMMA InOrderStays ==
  ASSUME NEW step, NEW sent, NEW more, InOrder(step, sent), sent \subseteq more
  PROVE  InOrder(step, more)
  BY DEF InOrder

\* The reminder follows the handover.
LEMMA ReminderInOrder ==
  ASSUME NEW sent, "rent-handover" \in sent, InOrder("rent-handover", sent)
  PROVE  InOrder(Reminder, sent)
  BY BeforeFacts DEF InOrder, Reminder, Branch

-----------------------------------------------------------------------------
(* Types of dynamicData, one lemma per group of fields.                     *)

LEMMA NewJourneyType ==
  /\ NewJourney \in Journey
  /\ NewJourney.data = NewData /\ NewData \in Data
  /\ NewJourney.completed = {} /\ NewJourney.sent = {}
  /\ ~NewData.ack /\ ~NewData.signed /\ NewData.gen = 0
  /\ NoForm \in Form
  BY WorkflowFacts DEF NewJourney, NewData, Unset, Journey, Data, Status, Mode, NoForm, Form

LEMMA DateType ==
  ASSUME NEW d \in Data, NEW m \in Mode, NEW e \in Nat, NEW f \in Nat, NEW i \in Nat
  PROVE  /\ [d EXCEPT !.mode = m, !.end = e, !.due = f] \in Data
         /\ [d EXCEPT !.mode = m, !.end = e] \in Data
         /\ [d EXCEPT !.due = f] \in Data
         /\ [d EXCEPT !.iso = i] \in Data
  BY DEF Data

LEMMA GenerationType ==
  ASSUME NEW d \in Data, NEW g \in Nat
  PROVE  [d EXCEPT !.gen = g] \in Data /\ [d EXCEPT !.ackGen = g] \in Data
  BY DEF Data

LEMMA RequestAnswerType ==
  ASSUME NEW d \in Data, NEW a \in BOOLEAN, NEW g \in Nat, NEW b \in BOOLEAN, NEW h \in Nat
  PROVE  [d EXCEPT !.ack = a, !.ackOf = g, !.ackDeclined = b, !.ackDeclinedOf = h] \in Data
  BY DEF Data

LEMMA QuoteAnswerType ==
  ASSUME NEW d \in Data, NEW a \in BOOLEAN, NEW g \in Nat, NEW b \in BOOLEAN, NEW h \in Nat
  PROVE  [d EXCEPT !.signed = a, !.signedOf = g, !.declined = b, !.declinedOf = h] \in Data
  BY DEF Data

LEMMA FinalType ==
  ASSUME NEW d \in Data, NEW a \in BOOLEAN, NEW b \in BOOLEAN, NEW c \in BOOLEAN,
         NEW e \in BOOLEAN
  PROVE  [d EXCEPT !.closed = a, !.pending = b, !.locked = c, !.final = e] \in Data
  BY DEF Data

LEMMA ClaimType ==
  ASSUME NEW d \in Data, NEW a \in BOOLEAN
  PROVE  [d EXCEPT !.claim = a] \in Data
  BY DEF Data

-----------------------------------------------------------------------------
(* Honest copies: what each write makes of the answers in dynamicData.      *)

\* Every answer in e is in d.
FromAnswersOf(e, d) ==
  /\ e.ack => d.ack
  /\ e.signed => d.signed /\ e.signedOf = d.signedOf

LEMMA AnswersKept ==
  ASSUME NEW d, NEW e, FromAnswersOf(e, d), NEW by, NEW links, AnswersInv(d, by, links)
  PROVE  AnswersInv(e, by, links)
  BY DEF FromAnswersOf, AnswersInv

LEMMA NoAnswers ==
  ASSUME NEW d, ~d.ack, ~d.signed, NEW by, NEW links
  PROVE  AnswersInv(d, by, links)
  BY DEF AnswersInv

LEMMA DueFacts ==
  ASSUME NEW d \in Data
  PROVE  /\ applyRentReturnDueFields(d) \in Data
         /\ FromAnswersOf(applyRentReturnDueFields(d), d)
         /\ applyRentReturnDueFields(d).gen = d.gen
  <1>1. resolveRentReturnDueRaw(d) \in Nat
    BY DEF resolveRentReturnDueRaw, resolveReturnDueRaw, Data
  <1>2. d.mode \in Mode
    BY DEF Data
  <1>3. [d EXCEPT !.iso = resolveRentReturnDueRaw(d)] \in Data
    <2> DEFINE i == resolveRentReturnDueRaw(d)
    <2> HIDE DEF i
    <2> QED BY <1>1, <1>2, DateType DEF i
  <1>4. applyRentReturnDueFields(d) = [d EXCEPT !.iso = resolveRentReturnDueRaw(d)]
    BY DEF applyRentReturnDueFields
  <1> QED BY <1>3, <1>4 DEF FromAnswersOf, Data

LEMMA FilledFacts ==
  ASSUME NEW d \in Data, NEW step, NEW form \in Form
  PROVE  /\ Filled(d, step, form) \in Data
         /\ FromAnswersOf(Filled(d, step, form), d)
         /\ Filled(d, step, form).gen = d.gen
  <1>1. form.mode \in Mode /\ form.day \in Nat
    BY DEF Form
  <1> DEFINE e == [d EXCEPT !.mode = form.mode, !.end = form.day, !.due = form.day]
             f == [d EXCEPT !.due = form.day]
  <1>2. e \in Data /\ f \in Data
    BY <1>1, DateType
  <1>3. FromAnswersOf(e, d) /\ FromAnswersOf(f, d) /\ FromAnswersOf(d, d)
    BY DEF FromAnswersOf, Data
  <1>4. e.gen = d.gen /\ f.gen = d.gen
    BY DEF Data
  <1>5. Filled(d, step, form) \in {d, e, f}
    BY DEF Filled
  <1> HIDE DEF e, f
  <1> QED BY <1>2, <1>3, <1>4, <1>5

LEMMA NextGenerationType ==
  ASSUME NEW d \in Data, NEW step
  PROVE  NextGeneration(d, step) \in Nat /\ NextGeneration(d, step) > 0
  BY DEF NextGeneration, Data

LEMMA GenerationSet ==
  ASSUME NEW d \in Data, NEW g \in Nat
  PROVE  /\ [d EXCEPT !.gen = g] \in Data /\ FromAnswersOf([d EXCEPT !.gen = g], d)
         /\ [d EXCEPT !.ackGen = g] \in Data /\ FromAnswersOf([d EXCEPT !.ackGen = g], d)
  BY GenerationType DEF FromAnswersOf, Data

LEMMA FromTransitive ==
  ASSUME NEW d, NEW e, NEW f, FromAnswersOf(d, e), FromAnswersOf(e, f)
  PROVE  FromAnswersOf(d, f)
  BY DEF FromAnswersOf

LEMMA SentDataFacts ==
  ASSUME NEW d \in Data, NEW step, NEW form \in Form
  PROVE  /\ SentData(d, step, form) \in Data
         /\ FromAnswersOf(SentData(d, step, form), d)
  <1> DEFINE g == NextGeneration(d, step)
             e == Filled(d, step, form)
             f == [e EXCEPT !.gen = g]
  <1>1. g \in Nat
    BY NextGenerationType
  <1>2. e \in Data /\ FromAnswersOf(e, d)
    BY FilledFacts
  <1>3. SentData(d, step, form) \in
          {[d EXCEPT !.ackGen = g], applyRentReturnDueFields(f), applyRentReturnDueFields(e)}
    BY DEF SentData
  <1> HIDE DEF g, e
  <1>4. f \in Data /\ FromAnswersOf(f, d)
    <2>1. f \in Data /\ FromAnswersOf(f, e)
      BY <1>1, <1>2, GenerationSet
    <2> HIDE DEF f
    <2> QED BY <1>2, <2>1, FromTransitive
  <1> HIDE DEF f
  <1>5. ASSUME NEW x \in {e, f}
        PROVE  applyRentReturnDueFields(x) \in Data /\ FromAnswersOf(applyRentReturnDueFields(x), d)
    <2>1. x \in Data /\ FromAnswersOf(x, d)
      BY <1>2, <1>4
    <2>2. applyRentReturnDueFields(x) \in Data /\ FromAnswersOf(applyRentReturnDueFields(x), x)
      BY <2>1, DueFacts
    <2> QED BY <2>1, <2>2, FromTransitive
  <1>6. [d EXCEPT !.ackGen = g] \in Data /\ FromAnswersOf([d EXCEPT !.ackGen = g], d)
    BY <1>1, GenerationSet
  <1> QED BY <1>3, <1>5, <1>6

\* A first send records the step and writes the rest from the copy.
LEMMA SentFacts ==
  ASSUME NEW j \in Journey, NEW seen \in Journey, NEW step \in Workflow, NEW form \in Form
  PROVE  /\ Sent(j, seen, step, form) \in Journey
         /\ Sent(j, seen, step, form).sent = j.sent \cup {step}
         /\ Sent(j, seen, step, form).completed = seen.completed \cup {step}
         /\ FromAnswersOf(Sent(j, seen, step, form).data, seen.data)
  <1> DEFINE done == seen.completed \cup {step}
             dyn == Filled(seen.data, step, form)
             current == IF Open(done, dyn) = {} THEN step ELSE getNextStep(done, dyn)
             status == IF Open(done, dyn) = {} THEN "completed" ELSE "active"
             d == SentData(seen.data, step, form)
  <1>1. seen.data \in Data /\ done \subseteq Workflow
    BY DEF Journey
  <1>2. current \in Workflow /\ status \in Status
    BY NextStepType DEF Status
  <1>3. d \in Data /\ FromAnswersOf(d, seen.data)
    BY <1>1, SentDataFacts
  <1>4. Sent(j, seen, step, form) =
          [j EXCEPT !.sent = @ \cup {step}, !.completed = done, !.current = current,
                    !.status = status, !.data = d]
    BY DEF Sent
  <1> HIDE DEF done, current, status, d
  <1>5. j.sent \cup {step} \subseteq Workflow
    BY DEF Journey
  <1> QED BY <1>1, <1>2, <1>3, <1>4, <1>5 DEF Journey, done

LEMMA RequestResetFacts ==
  ASSUME NEW d \in Data, NEW g \in Nat
  PROVE  LET e == [d EXCEPT !.ackGen = g, !.ack = FALSE, !.ackOf = Unset, !.ackDeclined = FALSE,
                            !.ackDeclinedOf = Unset, !.mode = "none", !.end = Unset]
         IN  e \in Data /\ FromAnswersOf(e, d)
  <1> DEFINE a == [d EXCEPT !.ackGen = g]
             b == [a EXCEPT !.ack = FALSE, !.ackOf = Unset, !.ackDeclined = FALSE,
                            !.ackDeclinedOf = Unset]
             c == [b EXCEPT !.mode = "none", !.end = Unset]
             e == [d EXCEPT !.ackGen = g, !.ack = FALSE, !.ackOf = Unset, !.ackDeclined = FALSE,
                            !.ackDeclinedOf = Unset, !.mode = "none", !.end = Unset]
  <1>1. a \in Data
    BY GenerationType
  <1>2. b \in Data
    <2> HIDE DEF a
    <2> QED BY <1>1, RequestAnswerType DEF Unset
  <1>3. c \in Data
    <2> HIDE DEF b
    <2> QED BY <1>2, DateType DEF Unset, Mode
  <1>4. e = c
    BY DEF Data
  <1>5. FromAnswersOf(e, d)
    BY DEF FromAnswersOf, Data
  <1> QED BY <1>3, <1>4, <1>5

LEMMA QuoteResetFacts ==
  ASSUME NEW d \in Data, NEW g \in Nat, NEW f \in BOOLEAN
  PROVE  LET e == [d EXCEPT !.gen = g, !.signed = FALSE, !.signedOf = Unset, !.declined = FALSE,
                            !.declinedOf = Unset, !.pending = FALSE, !.final = f]
         IN  e \in Data /\ FromAnswersOf(e, d)
  <1> DEFINE a == [d EXCEPT !.gen = g]
             b == [a EXCEPT !.signed = FALSE, !.signedOf = Unset, !.declined = FALSE,
                            !.declinedOf = Unset]
             c == [b EXCEPT !.closed = d.closed, !.pending = FALSE, !.locked = d.locked,
                            !.final = f]
             e == [d EXCEPT !.gen = g, !.signed = FALSE, !.signedOf = Unset, !.declined = FALSE,
                            !.declinedOf = Unset, !.pending = FALSE, !.final = f]
  <1>1. a \in Data
    BY GenerationType
  <1>2. b \in Data
    <2> HIDE DEF a
    <2> QED BY <1>1, QuoteAnswerType DEF Unset
  <1>3. c \in Data
    <2>1. d.closed \in BOOLEAN /\ d.locked \in BOOLEAN
      BY DEF Data
    <2> HIDE DEF b
    <2> QED BY <1>2, <2>1, FinalType
  <1>4. e = c
    BY DEF Data
  <1>5. FromAnswersOf(e, d)
    BY DEF FromAnswersOf, Data
  <1> QED BY <1>3, <1>4, <1>5

\* A resend keeps the record of the steps and at most forgets answers.
LEMMA ResentFacts ==
  ASSUME NEW j \in Journey, NEW seen \in Journey, NEW step, NEW form \in Form
  PROVE  /\ Resent(j, seen, step, form) \in Journey
         /\ Resent(j, seen, step, form).sent = j.sent
         /\ Resent(j, seen, step, form).completed = j.completed
         /\ FromAnswersOf(Resent(j, seen, step, form).data, j.data)
  <1> DEFINE filled == Filled(j.data, step, form)
             g == NextGeneration(seen.data, step)
             final == IF form.final = "as is" THEN filled.final ELSE form.final = "final"
             d == [filled EXCEPT !.ackGen = g, !.ack = FALSE, !.ackOf = Unset,
                     !.ackDeclined = FALSE, !.ackDeclinedOf = Unset, !.mode = "none",
                     !.end = Unset]
             e == [filled EXCEPT !.gen = g, !.signed = FALSE, !.signedOf = Unset,
                     !.declined = FALSE, !.declinedOf = Unset, !.pending = FALSE,
                     !.final = final]
             w == Resent(j, seen, step, form)
  <1>1. j.data \in Data /\ seen.data \in Data
    BY DEF Journey
  <1>2. filled \in Data /\ FromAnswersOf(filled, j.data)
    BY <1>1, FilledFacts
  <1>3. g \in Nat
    BY <1>1, NextGenerationType
  <1>4. final \in BOOLEAN
    BY <1>2 DEF Data
  <1>5. \/ w = j
        \/ w = [j EXCEPT !.current = "rent-request", !.data = d]
        \/ w = [j EXCEPT !.current = "rent-agreement", !.data = e]
        \/ w = [j EXCEPT !.data = filled]
    BY DEF Resent
  <1> HIDE DEF filled, g, final
  <1>6. d \in Data /\ FromAnswersOf(d, j.data)
    <2>1. d \in Data /\ FromAnswersOf(d, filled)
      BY <1>2, <1>3, RequestResetFacts
    <2> HIDE DEF d
    <2> QED BY <1>2, <2>1, FromTransitive
  <1>7. e \in Data /\ FromAnswersOf(e, j.data)
    <2>1. e \in Data /\ FromAnswersOf(e, filled)
      BY <1>2, <1>3, <1>4, QuoteResetFacts
    <2> HIDE DEF e
    <2> QED BY <1>2, <2>1, FromTransitive
  <1> HIDE DEF d, e, w
  <1>8. FromAnswersOf(j.data, j.data)
    BY DEF FromAnswersOf
  <1>9. w \in Journey /\ w.sent = j.sent /\ w.completed = j.completed
        /\ FromAnswersOf(w.data, j.data)
    BY <1>2, <1>5, <1>6, <1>7, <1>8, WorkflowFacts DEF Journey
  <1> QED BY <1>9 DEF w

\* What a request keeps of the document: no answer and no step that is not in it.
LEMMA KeptFacts ==
  ASSUME NEW j \in Journey, NEW op
  PROVE  /\ Kept(op, j) \in Journey
         /\ Kept(op, j).completed \subseteq j.completed
         /\ FromAnswersOf(Kept(op, j).data, j.data)
         /\ op = "send" => Kept(op, j).data = j.data
  <1>1. j.data \in Data /\ j.data.gen \in Nat /\ j.data.ackGen \in Nat /\ j.completed \subseteq Workflow
    BY DEF Journey, Data
  <1> DEFINE d == [NewData EXCEPT !.gen = j.data.gen]
             e == [d EXCEPT !.ackGen = j.data.ackGen]
             f == [NewData EXCEPT !.ackGen = j.data.ackGen]
             w == Kept(op, j)
  <1>2. d \in Data /\ e \in Data /\ f \in Data
    <2>1. d \in Data /\ f \in Data
      BY <1>1, NewJourneyType, GenerationType
    <2> HIDE DEF d
    <2> QED BY <1>1, <2>1, GenerationType
  <1>3. /\ FromAnswersOf(d, j.data) /\ FromAnswersOf(e, j.data) /\ FromAnswersOf(f, j.data)
        /\ FromAnswersOf(NewData, j.data) /\ FromAnswersOf(j.data, j.data)
    BY DEF FromAnswersOf, NewData
  <1>4. \/ op = "send" /\ w = [NewJourney EXCEPT !.completed = j.completed, !.data = j.data]
        \/ op # "send" /\ w = [NewJourney EXCEPT !.data = e]
        \/ op # "send" /\ w = [NewJourney EXCEPT !.data = j.data]
        \/ op # "send" /\ w = [NewJourney EXCEPT !.data = f]
        \/ op # "send" /\ w = NewJourney
    <2>1. CASE op = "send"
      BY <2>1 DEF Kept
    <2>2. CASE op = "resend"
      <3>1. w = [NewJourney EXCEPT !.data.gen = j.data.gen, !.data.ackGen = j.data.ackGen]
        BY <2>2 DEF Kept
      <3>2. w = [NewJourney EXCEPT !.data = e]
        BY <3>1, NewJourneyType DEF NewJourney, NewData
      <3> QED BY <2>2, <3>2
    <2>3. CASE op \in {"edit", "resume"}
      BY <2>3 DEF Kept
    <2>4. CASE op = "decline"
      <3>1. w = [NewJourney EXCEPT !.data.ackGen = j.data.ackGen]
        BY <2>4 DEF Kept
      <3>2. w = [NewJourney EXCEPT !.data = f]
        BY <3>1, NewJourneyType DEF NewJourney, NewData
      <3> QED BY <2>4, <3>2
    <2>5. CASE op \notin {"send", "resend", "edit", "resume", "decline"}
      BY <2>5 DEF Kept
    <2> QED BY <2>1, <2>2, <2>3, <2>4, <2>5
  <1> HIDE DEF d, e, f, w
  <1>5. w \in Journey /\ w.completed \subseteq j.completed /\ FromAnswersOf(w.data, j.data)
        /\ (op = "send" => w.data = j.data)
    BY <1>1, <1>2, <1>3, <1>4, NewJourneyType DEF Journey
  <1> QED BY <1>5 DEF w

LEMMA EditedFacts ==
  ASSUME NEW j \in Journey, NEW r, r.seen \in Journey, r.form \in Form
  PROVE  /\ Edited(j, r) \in Journey
         /\ Edited(j, r).sent = j.sent /\ Edited(j, r).completed = j.completed
         /\ FromAnswersOf(Edited(j, r).data, r.seen.data)
  <1> DEFINE due == IF r.form.day # Unset THEN r.form.day ELSE r.seen.data.due
             d == [r.seen.data EXCEPT !.due = due]
             e == applyRentReturnDueFields(d)
  <1>1. r.seen.data \in Data /\ due \in Nat
    BY DEF Journey, Data, Form
  <1>2. d \in Data /\ FromAnswersOf(d, r.seen.data)
    <2> HIDE DEF due
    <2>1. r.seen.data.mode \in Mode
      BY <1>1 DEF Data
    <2>2. d \in Data
      BY <1>1, <2>1, DateType
    <2> QED BY <1>1, <2>2 DEF FromAnswersOf, Data
  <1>3. Edited(j, r) = [j EXCEPT !.data = e]
    BY DEF Edited
  <1> HIDE DEF d
  <1>4. e \in Data /\ FromAnswersOf(e, r.seen.data)
    BY <1>2, DueFacts, FromTransitive
  <1> HIDE DEF e
  <1> QED BY <1>3, <1>4 DEF Journey

LEMMA RequestDeclinedFacts ==
  ASSUME NEW j \in Journey, NEW r, r.seen \in Journey
  PROVE  /\ RequestDeclined(j, r) \in Journey
         /\ RequestDeclined(j, r).sent = j.sent
         /\ RequestDeclined(j, r).completed = j.completed
         /\ FromAnswersOf(RequestDeclined(j, r).data, j.data)
  <1> DEFINE g == IF r.seen.data.ackGen = Unset THEN 1 ELSE r.seen.data.ackGen
             d == [j.data EXCEPT !.ack = FALSE, !.ackOf = Unset, !.ackDeclined = TRUE,
                                 !.ackDeclinedOf = g]
  <1>1. j.data \in Data /\ g \in Nat
    BY DEF Journey, Data
  <1>2. d \in Data /\ FromAnswersOf(d, j.data)
    <2> HIDE DEF g
    <2>1. d \in Data
      BY <1>1, RequestAnswerType DEF Unset
    <2> QED BY <1>1, <2>1 DEF FromAnswersOf, Data
  <1>3. RequestDeclined(j, r) = [j EXCEPT !.current = "rent-request", !.data = d]
    <2> DEFINE e == [j.data EXCEPT !.ackDeclined = TRUE, !.ackDeclinedOf = g, !.ack = FALSE,
                                   !.ackOf = Unset]
    <2> HIDE DEF g
    <2>1. e = d
      BY <1>1 DEF Data
    <2>2. [j EXCEPT !.current = "rent-request", !.data.ackDeclined = TRUE,
                    !.data.ackDeclinedOf = g, !.data.ack = FALSE, !.data.ackOf = Unset]
            = [j EXCEPT !.current = "rent-request", !.data = e]
      BY DEF Journey
    <2> HIDE DEF e, d
    <2> QED BY <2>1, <2>2 DEF RequestDeclined, g
  <1> HIDE DEF d
  <1> QED BY <1>2, <1>3, WorkflowFacts DEF Journey

LEMMA ResumedFacts ==
  ASSUME NEW j \in Journey, NEW r, r.seen \in Journey
  PROVE  /\ Resumed(j, r) \in Journey
         /\ Resumed(j, r).sent = j.sent /\ Resumed(j, r).completed = j.completed
         /\ FromAnswersOf(Resumed(j, r).data, r.seen.data)
  <1> DEFINE a == [r.seen.data EXCEPT !.signed = r.seen.data.signed,
                     !.signedOf = r.seen.data.signedOf, !.declined = FALSE,
                     !.declinedOf = Unset]
             b == [a EXCEPT !.closed = FALSE, !.pending = TRUE, !.locked = TRUE, !.final = TRUE]
             d == [r.seen.data EXCEPT !.closed = FALSE, !.pending = TRUE, !.locked = TRUE,
                     !.final = TRUE, !.declined = FALSE, !.declinedOf = Unset]
  <1>1. /\ r.seen.data \in Data /\ r.seen.data.signed \in BOOLEAN
        /\ r.seen.data.signedOf \in Nat
    BY DEF Journey, Data
  <1>2. a \in Data
    BY <1>1, QuoteAnswerType DEF Unset
  <1>3. b \in Data
    <2> HIDE DEF a
    <2> QED BY <1>2, FinalType
  <1>4. d = b
    BY <1>1 DEF Data
  <1>5. FromAnswersOf(d, r.seen.data)
    BY <1>1 DEF FromAnswersOf, Data
  <1>6. Resumed(j, r) = [j EXCEPT !.status = "active", !.current = "rent-agreement", !.data = d]
    BY DEF Resumed
  <1>7. d \in Data
    BY <1>3, <1>4
  <1> HIDE DEF d
  <1> QED BY <1>5, <1>6, <1>7, WorkflowFacts DEF Journey, Status

LEMMA ClaimFacts ==
  ASSUME NEW j \in Journey, NEW a \in BOOLEAN
  PROVE  LET w == [j EXCEPT !.data.claim = a]
         IN  w \in Journey /\ w.sent = j.sent /\ w.completed = j.completed
             /\ FromAnswersOf(w.data, j.data)
  <1> DEFINE d == [j.data EXCEPT !.claim = a]
  <1>1. j.data \in Data
    BY DEF Journey
  <1>2. d \in Data
    BY <1>1, ClaimType
  <1>3. FromAnswersOf(d, j.data)
    BY <1>1 DEF FromAnswersOf, Data
  <1>4. [j EXCEPT !.data.claim = a] = [j EXCEPT !.data = d]
    BY <1>1 DEF Journey, Data
  <1> HIDE DEF d
  <1> QED BY <1>2, <1>3, <1>4 DEF Journey

-----------------------------------------------------------------------------
(* The parts of the invariant stay when more is pressed, emailed and sent.  *)

Links == [Gate -> SUBSET Nat]

Grown(by, more) == \A gate \in Gate : by[gate] \subseteq more[gate]

Extended(links, more) ==
  \A gate \in Gate : \A i \in DOMAIN links[gate] :
    i \in DOMAIN more[gate] /\ more[gate][i] = links[gate][i]

LEMMA AnswersStay ==
  ASSUME NEW by, NEW by2, Grown(by, by2), NEW links, NEW links2, Extended(links, links2),
         NEW d, AnswersInv(d, by, links)
  PROVE  AnswersInv(d, by2, links2)
  <1>1. by["rent-request"] \subseteq by2["rent-request"]
        /\ by["rent-agreement"] \subseteq by2["rent-agreement"]
    BY DEF Grown, Gate
  <1>2. \A i \in DOMAIN links["rent-agreement"] :
          /\ i \in DOMAIN links2["rent-agreement"]
          /\ links2["rent-agreement"][i] = links["rent-agreement"][i]
    BY DEF Extended, Gate
  <1>3. d.ack => by2["rent-request"] # {}
    BY <1>1 DEF AnswersInv
  <1>4. ASSUME d.signed
        PROVE  /\ d.signedOf > 0
               /\ \E mail \in by2["rent-agreement"] :
                    /\ mail \in DOMAIN links2["rent-agreement"]
                    /\ links2["rent-agreement"][mail] >= d.signedOf
    <2>1. PICK mail \in by["rent-agreement"] :
            /\ mail \in DOMAIN links["rent-agreement"]
            /\ links["rent-agreement"][mail] >= d.signedOf
      BY <1>4 DEF AnswersInv
    <2> QED BY <1>1, <1>2, <1>4, <2>1 DEF AnswersInv
  <1> QED BY <1>3, <1>4 DEF AnswersInv

LEMMA AgreedStays ==
  ASSUME NEW by, NEW by2, Grown(by, by2), NEW step, Agreed(step, by)
  PROVE  Agreed(step, by2)
  BY DEF Grown, Gate, Agreed

LEMMA JourneyStays ==
  ASSUME NEW by, NEW by2, Grown(by, by2), NEW links, NEW links2, Extended(links, links2),
         NEW j, JourneyInv(j, by, links)
  PROVE  JourneyInv(j, by2, links2)
  <1>1. AnswersInv(j.data, by2, links2)
    BY AnswersStay DEF JourneyInv
  <1>2. \A step \in j.sent : Agreed(step, by2)
    BY AgreedStays DEF JourneyInv
  <1> QED BY <1>1, <1>2 DEF JourneyInv

LEMMA RequestStays ==
  ASSUME NEW by, NEW by2, Grown(by, by2), NEW links, NEW links2, Extended(links, links2),
         NEW j, NEW j2, j.sent \subseteq j2.sent, NEW r, RequestInv(r, j, by, links)
  PROVE  RequestInv(r, j2, by2, links2)
  <1>1. AnswersInv(r.seen.data, by2, links2)
    BY AnswersStay DEF RequestInv
  <1>2. r.op = "send" => InOrder(r.step, j2.sent) /\ Agreed(r.step, by2)
    BY AgreedStays, InOrderStays DEF RequestInv
  <1> QED BY <1>1, <1>2 DEF RequestInv

LEMMA ClickStays ==
  ASSUME NEW by, NEW by2, Grown(by, by2), NEW links, NEW links2, Extended(links, links2),
         NEW k, ClickInv(k, by, links)
  PROVE  ClickInv(k, by2, links2)
  <1>1. AnswersInv(k.seen, by2, links2)
    BY AnswersStay DEF ClickInv
  <1>2. \A i \in DOMAIN links["rent-agreement"] :
          /\ i \in DOMAIN links2["rent-agreement"]
          /\ links2["rent-agreement"][i] = links["rent-agreement"][i]
    BY DEF Extended, Gate
  <1> QED BY <1>1, <1>2 DEF ClickInv

LEMMA PassStays ==
  ASSUME NEW by, NEW by2, Grown(by, by2), NEW links, NEW links2, Extended(links, links2),
         NEW j, NEW j2, j.sent \subseteq j2.sent, NEW k, PassInv(k, j, by, links)
  PROVE  PassInv(k, j2, by2, links2)
  <1>1. AnswersInv(k.seen.data, by2, links2)
    BY AnswersStay DEF PassInv
  <1>2. k.pc \in {"send", "write"} => InOrder(Reminder, j2.sent)
    BY InOrderStays DEF PassInv
  <1> QED BY <1>1, <1>2 DEF PassInv

-----------------------------------------------------------------------------
(* What a write of the staff, and one of the customer, makes of the journey. *)

LEMMA Rewritten ==
  ASSUME NEW by, NEW links, NEW j, JourneyInv(j, by, links), NEW w,
         w.sent = j.sent, w.completed = j.completed,
         NEW d, AnswersInv(d, by, links), FromAnswersOf(w.data, d)
  PROVE  JourneyInv(w, by, links)
  <1>1. AnswersInv(w.data, by, links)
    BY AnswersKept
  <1> QED BY <1>1 DEF JourneyInv

\* A first send of a step whose turn it was.
LEMMA SentKeeps ==
  ASSUME NEW by, NEW links, NEW j \in Journey, JourneyInv(j, by, links),
         NEW seen \in Journey, NEW step \in Workflow, NEW form \in Form,
         AnswersInv(seen.data, by, links), seen.completed \subseteq j.sent,
         InOrder(step, j.sent), Agreed(step, by)
  PROVE  /\ Sent(j, seen, step, form) \in Journey
         /\ JourneyInv(Sent(j, seen, step, form), by, links)
         /\ j.sent \subseteq Sent(j, seen, step, form).sent
  <1> DEFINE w == Sent(j, seen, step, form)
  <1>1. /\ w \in Journey
        /\ w.sent = j.sent \cup {step}
        /\ w.completed = seen.completed \cup {step}
        /\ FromAnswersOf(w.data, seen.data)
    BY SentFacts
  <1> HIDE DEF w
  <1>2. AnswersInv(w.data, by, links)
    BY <1>1, AnswersKept
  <1>3. ASSUME NEW t \in w.sent
        PROVE  InOrder(t, w.sent) /\ Agreed(t, by)
    <2>1. InOrder(t, j.sent) /\ Agreed(t, by)
      BY <1>1, <1>3 DEF JourneyInv
    <2> QED BY <1>1, <2>1, InOrderStays
  <1>4. w.completed \subseteq w.sent /\ j.sent \subseteq w.sent
    BY <1>1
  <1>5. JourneyInv(w, by, links)
    BY <1>2, <1>3, <1>4 DEF JourneyInv
  <1> QED BY <1>1, <1>4, <1>5 DEF w

LEMMA WriteFacts ==
  ASSUME NEW by, NEW links, NEW j \in Journey, JourneyInv(j, by, links),
         NEW r, r.seen \in Journey, r.form \in Form, r.pc # "idle",
         RequestInv(r, j, by, links)
  PROVE  /\ Write(j, r) \in Journey
         /\ JourneyInv(Write(j, r), by, links)
         /\ j.sent \subseteq Write(j, r).sent
  <1>1. AnswersInv(j.data, by, links) /\ AnswersInv(r.seen.data, by, links)
    BY DEF JourneyInv, RequestInv
  <1>2. CASE r.op = "send"
    <2>1. Write(j, r) = Sent(j, r.seen, r.step, r.form)
      BY <1>2 DEF Write
    <2>2. /\ r.step \in Workflow /\ r.seen.completed \subseteq j.sent
          /\ InOrder(r.step, j.sent) /\ Agreed(r.step, by)
      BY <1>2 DEF RequestInv
    <2> QED BY <1>1, <2>1, <2>2, SentKeeps
  <1>3. ASSUME NEW w \in Journey, Write(j, r) = w, w.sent = j.sent, w.completed = j.completed,
               NEW d \in {j.data, r.seen.data}, FromAnswersOf(w.data, d)
        PROVE  /\ Write(j, r) \in Journey
               /\ JourneyInv(Write(j, r), by, links)
               /\ j.sent \subseteq Write(j, r).sent
    <2>1. AnswersInv(d, by, links)
      BY <1>1, <1>3
    <2> QED BY <1>3, <2>1, Rewritten
  <1>4. CASE r.op = "resend"
    <2>1. Write(j, r) = Resent(j, r.seen, r.step, r.form)
      BY <1>4 DEF Write
    <2> QED BY <1>3, <2>1, ResentFacts
  <1>5. CASE r.op = "edit"
    <2>1. Write(j, r) = Edited(j, r)
      BY <1>5 DEF Write
    <2> QED BY <1>3, <2>1, EditedFacts
  <1>6. CASE r.op = "cancel"
    <2> DEFINE w == [j EXCEPT !.status = "cancelled"]
    <2>1. Write(j, r) = w
      BY <1>6 DEF Write
    <2>2. w \in Journey /\ w.sent = j.sent /\ w.completed = j.completed /\ w.data = j.data
      BY DEF Journey, Status
    <2>3. FromAnswersOf(w.data, j.data)
      BY <2>2 DEF FromAnswersOf
    <2> HIDE DEF w
    <2> QED BY <1>3, <2>1, <2>2, <2>3
  <1>7. CASE r.op = "decline"
    <2>1. Write(j, r) = RequestDeclined(j, r)
      BY <1>7 DEF Write
    <2> QED BY <1>3, <2>1, RequestDeclinedFacts
  <1>8. CASE r.op = "resume"
    <2>1. Write(j, r) = Resumed(j, r)
      BY <1>8 DEF Write
    <2> QED BY <1>3, <2>1, ResumedFacts
  <1> QED BY <1>2, <1>4, <1>5, <1>6, <1>7, <1>8 DEF RequestInv

\* The emails pressed once the answer of k is stored.
PressedBy(k, by) ==
  CASE k.answer = "confirm" -> [by EXCEPT !["rent-request"] = @ \cup {k.mail}]
    [] k.answer = "sign"    -> [by EXCEPT !["rent-agreement"] = @ \cup {k.mail}]
    [] OTHER                -> by

LEMMA PressedFacts ==
  ASSUME NEW by \in Links, NEW k, k.mail \in Nat
  PROVE  /\ PressedBy(k, by) \in Links
         /\ Grown(by, PressedBy(k, by))
         /\ k.answer = "confirm" => k.mail \in PressedBy(k, by)["rent-request"]
         /\ k.answer = "sign" => k.mail \in PressedBy(k, by)["rent-agreement"]
  <1>1. CASE k.answer = "confirm"
    BY <1>1 DEF PressedBy, Links, Grown, Gate
  <1>2. CASE k.answer = "sign"
    BY <1>2 DEF PressedBy, Links, Grown, Gate
  <1>3. CASE k.answer \notin {"confirm", "sign"}
    BY <1>3 DEF PressedBy, Links, Grown, Gate
  <1> QED BY <1>1, <1>2, <1>3

LEMMA ConfirmedFacts ==
  ASSUME NEW d \in Data, NEW form \in Form
  PROVE  LET e == applyRentReturnDueFields(
                    [d EXCEPT !.ack = TRUE, !.ackOf = d.ackGen, !.ackDeclined = FALSE,
                              !.mode = form.mode, !.end = form.day])
         IN  e \in Data /\ (e.signed => d.signed /\ e.signedOf = d.signedOf)
  <1> DEFINE a == [d EXCEPT !.ack = TRUE, !.ackOf = d.ackGen, !.ackDeclined = FALSE,
                            !.ackDeclinedOf = d.ackDeclinedOf]
             b == [a EXCEPT !.mode = form.mode, !.end = form.day]
             c == [d EXCEPT !.ack = TRUE, !.ackOf = d.ackGen, !.ackDeclined = FALSE,
                            !.mode = form.mode, !.end = form.day]
  <1>1. d.ackGen \in Nat /\ d.ackDeclinedOf \in Nat /\ form.mode \in Mode /\ form.day \in Nat
    BY DEF Data, Form
  <1>2. a \in Data
    BY <1>1, RequestAnswerType
  <1>3. b \in Data
    <2> HIDE DEF a
    <2> QED BY <1>1, <1>2, DateType
  <1>4. c = b
    BY DEF Data
  <1>5. c.signed = d.signed /\ c.signedOf = d.signedOf
    BY DEF Data
  <1>6. c \in Data
    BY <1>3, <1>4
  <1> HIDE DEF c
  <1>7. applyRentReturnDueFields(c) \in Data /\ FromAnswersOf(applyRentReturnDueFields(c), c)
    BY <1>6, DueFacts
  <1>8. applyRentReturnDueFields(c).signed => d.signed
          /\ applyRentReturnDueFields(c).signedOf = d.signedOf
    BY <1>5, <1>7 DEF FromAnswersOf
  <1> QED BY <1>7, <1>8 DEF c

LEMMA SignedFacts ==
  ASSUME NEW d \in Data
  PROVE  LET g == SignableGen(d)
             e == [d EXCEPT !.signed = TRUE, !.signedOf = g, !.gen = g, !.declined = FALSE,
                            !.declinedOf = Unset]
         IN  e \in Data /\ e.ack = d.ack /\ e.signedOf = g /\ g > 0 /\ g \in Nat
  <1> DEFINE g == SignableGen(d)
             a == [d EXCEPT !.signed = TRUE, !.signedOf = g, !.declined = FALSE,
                            !.declinedOf = Unset]
             b == [a EXCEPT !.gen = g]
             e == [d EXCEPT !.signed = TRUE, !.signedOf = g, !.gen = g, !.declined = FALSE,
                            !.declinedOf = Unset]
  <1>1. g \in Nat /\ g > 0
    BY DEF SignableGen, Data
  <1> HIDE DEF g
  <1>2. a \in Data
    BY <1>1, QuoteAnswerType DEF Unset
  <1>3. b \in Data
    <2> HIDE DEF a
    <2> QED BY <1>1, <1>2, GenerationType
  <1>4. e = b
    BY DEF Data
  <1>5. e.ack = d.ack /\ e.signedOf = g
    BY DEF Data
  <1>6. e \in Data
    BY <1>3, <1>4
  <1> QED BY <1>1, <1>5, <1>6 DEF g

LEMMA DeclinedFacts ==
  ASSUME NEW d \in Data
  PROVE  LET e == [d EXCEPT !.declined = TRUE, !.declinedOf = d.gen, !.signed = FALSE,
                            !.signedOf = Unset]
             f == [e EXCEPT !.closed = TRUE, !.pending = FALSE, !.locked = FALSE]
         IN  e \in Data /\ f \in Data /\ FromAnswersOf(e, d) /\ FromAnswersOf(f, d)
  <1> DEFINE a == [d EXCEPT !.signed = FALSE, !.signedOf = Unset, !.declined = TRUE,
                            !.declinedOf = d.gen]
             e == [d EXCEPT !.declined = TRUE, !.declinedOf = d.gen, !.signed = FALSE,
                            !.signedOf = Unset]
             b == [e EXCEPT !.closed = TRUE, !.pending = FALSE, !.locked = FALSE,
                            !.final = d.final]
             f == [e EXCEPT !.closed = TRUE, !.pending = FALSE, !.locked = FALSE]
  <1>1. d.gen \in Nat /\ d.final \in BOOLEAN
    BY DEF Data
  <1>2. a \in Data
    BY <1>1, QuoteAnswerType DEF Unset
  <1>3. e = a
    BY DEF Data
  <1>4. FromAnswersOf(e, d) /\ e.final = d.final
    BY DEF FromAnswersOf, Data
  <1>5. e \in Data
    BY <1>2, <1>3
  <1> HIDE DEF e
  <1>6. b \in Data
    BY <1>1, <1>5, FinalType
  <1>7. f = b
    BY <1>4, <1>5 DEF Data
  <1>8. FromAnswersOf(f, e)
    BY <1>5 DEF FromAnswersOf, Data
  <1>9. FromAnswersOf(f, d)
    <2> HIDE DEF f
    <2> QED BY <1>4, <1>8, FromTransitive
  <1>10. f \in Data
    BY <1>6, <1>7
  <1> QED BY <1>4, <1>5, <1>9, <1>10 DEF e

LEMMA AnsweredFacts ==
  ASSUME NEW by \in Links, NEW links, NEW j \in Journey, JourneyInv(j, by, links),
         NEW k, k.seen \in Data, k.form \in Form, k.mail \in Nat, k.pc = "write",
         ClickInv(k, by, links)
  PROVE  /\ Answered(j, k) \in Journey
         /\ JourneyInv(Answered(j, k), PressedBy(k, by), links)
         /\ Answered(j, k).sent = j.sent
  <1> DEFINE p == PressedBy(k, by)
             w == Answered(j, k)
  <1>1. Grown(by, p) /\ Extended(links, links)
    BY PressedFacts DEF Extended
  <1>2. JourneyInv(j, p, links)
    BY <1>1, JourneyStays
  <1>3. AnswersInv(k.seen, p, links)
    BY <1>1, AnswersStay DEF ClickInv
  <1>4. ASSUME NEW d \in Data, NEW current \in Workflow, NEW status \in Status,
               w = [j EXCEPT !.status = status, !.current = current, !.data = d],
               AnswersInv(d, p, links)
        PROVE  w \in Journey /\ JourneyInv(w, p, links) /\ w.sent = j.sent
    <2> HIDE DEF w, p
    <2> QED BY <1>2, <1>4 DEF JourneyInv, Journey
  <1>5. j.current \in Workflow /\ j.status \in Status /\ "rent-request" \in Workflow
        /\ "rent-agreement" \in Workflow /\ "cancelled" \in Status
    BY WorkflowFacts DEF Journey, Status
  <1>6. CASE k.answer = "confirm"
    <2> DEFINE d == applyRentReturnDueFields(
                      [k.seen EXCEPT !.ack = TRUE, !.ackOf = k.seen.ackGen,
                                     !.ackDeclined = FALSE, !.mode = k.form.mode,
                                     !.end = k.form.day])
    <2>1. d \in Data /\ (d.signed => k.seen.signed /\ d.signedOf = k.seen.signedOf)
      BY ConfirmedFacts
    <2>2. w = [j EXCEPT !.current = "rent-agreement", !.data = d]
      BY <1>6 DEF Answered
    <2> HIDE DEF d
    <2>3. p["rent-request"] # {}
      BY <1>6, PressedFacts
    <2>4. AnswersInv(d, p, links)
      <3> HIDE DEF p
      <3> QED BY <1>3, <2>1, <2>3 DEF AnswersInv
    <2>5. w = [j EXCEPT !.status = j.status, !.current = "rent-agreement", !.data = d]
      <3> HIDE DEF w
      <3> QED BY <2>2 DEF Journey
    <2> QED BY <1>4, <1>5, <2>1, <2>4, <2>5
  <1>7. CASE k.answer = "refuse"
    <2> DEFINE d == [k.seen EXCEPT !.ack = FALSE, !.ackOf = Unset, !.ackDeclined = TRUE,
                                   !.ackDeclinedOf = k.seen.ackGen]
    <2>1. k.seen.ackGen \in Nat
      BY DEF Data
    <2>2. d \in Data
      BY <2>1, RequestAnswerType DEF Unset
    <2>3. FromAnswersOf(d, k.seen)
      BY DEF FromAnswersOf, Data
    <2>4. w = [j EXCEPT !.current = "rent-request", !.data = d]
      BY <1>7 DEF Answered
    <2> HIDE DEF d
    <2>5. AnswersInv(d, p, links)
      BY <1>3, <2>3, AnswersKept
    <2>6. w = [j EXCEPT !.status = j.status, !.current = "rent-request", !.data = d]
      <3> HIDE DEF w
      <3> QED BY <2>4 DEF Journey
    <2> QED BY <1>4, <1>5, <2>2, <2>5, <2>6
  <1>8. CASE k.answer = "sign"
    <2> DEFINE g == SignableGen(k.seen)
               d == [k.seen EXCEPT !.signed = TRUE, !.signedOf = g, !.gen = g,
                                   !.declined = FALSE, !.declinedOf = Unset]
    <2>1. d \in Data /\ d.ack = k.seen.ack /\ d.signedOf = g /\ g > 0
      BY SignedFacts
    <2>2. w = [j EXCEPT !.data = d]
      BY <1>8 DEF Answered
    <2>3. k.mail \in DOMAIN links["rent-agreement"] /\ links["rent-agreement"][k.mail] >= g
      BY <1>8 DEF ClickInv
    <2>4. k.mail \in p["rent-agreement"]
      BY <1>8, PressedFacts
    <2> HIDE DEF d, g
    <2>5. AnswersInv(d, p, links)
      <3> HIDE DEF p
      <3> QED BY <1>3, <2>1, <2>3, <2>4 DEF AnswersInv
    <2>6. w = [j EXCEPT !.status = j.status, !.current = j.current, !.data = d]
      <3> HIDE DEF w
      <3> QED BY <2>2 DEF Journey
    <2> QED BY <1>4, <1>5, <2>1, <2>5, <2>6
  <1>9. CASE k.answer = "decline"
    <2> DEFINE e == [k.seen EXCEPT !.declined = TRUE, !.declinedOf = k.seen.gen,
                                   !.signed = FALSE, !.signedOf = Unset]
               f == [e EXCEPT !.closed = TRUE, !.pending = FALSE, !.locked = FALSE]
    <2>1. e \in Data /\ f \in Data /\ FromAnswersOf(e, k.seen) /\ FromAnswersOf(f, k.seen)
      BY DeclinedFacts
    <2>2. \/ w = [j EXCEPT !.status = "cancelled", !.current = "rent-agreement", !.data = f]
          \/ w = [j EXCEPT !.current = "rent-agreement", !.data = e]
      BY <1>9 DEF Answered, QuoteDeclined
    <2> HIDE DEF e, f
    <2>3. AnswersInv(e, p, links) /\ AnswersInv(f, p, links)
      BY <1>3, <2>1, AnswersKept
    <2>4. \/ w = [j EXCEPT !.status = "cancelled", !.current = "rent-agreement", !.data = f]
          \/ w = [j EXCEPT !.status = j.status, !.current = "rent-agreement", !.data = e]
      <3> HIDE DEF w
      <3> QED BY <2>2 DEF Journey
    <2> QED BY <1>4, <1>5, <2>1, <2>3, <2>4
  <1> QED BY <1>6, <1>7, <1>8, <1>9 DEF ClickInv

-----------------------------------------------------------------------------
(* The invariant is kept by every action.                                   *)

RequestType == [pc : {"idle", "send", "write"}, op : Ops \cup {"none"},
                step : Workflow \cup {"none"}, form : Form, seen : Journey]
ClickType == [pc : {"idle", "write"}, answer : Answers \cup {"none"},
              mail : Nat, form : Form, seen : Data]
PassType == [pc : {"idle", "claim", "read", "send", "write", "release"}, seen : Journey]

LEMMA TypeFacts ==
  ASSUME RentInv
  PROVE  /\ journey \in Journey /\ journey.data \in Data
         /\ request \in [Staff -> RequestType]
         /\ click \in [Customer -> ClickType]
         /\ pass \in [Job -> PassType]
         /\ mails \in [Gate -> Seq(Nat)] /\ pressed \in Links
         /\ today \in Nat /\ autos \in Nat /\ faults \in Nat /\ clobbered \in BOOLEAN
         /\ JourneyInv(journey, pressed, mails)
  BY DEF RentInv, TypeOK, Links, RequestType, ClickType, PassType, Journey

\* Nothing in flight: nothing to show.
LEMMA IdleFacts ==
  ASSUME NEW j, NEW by, NEW links
  PROVE  /\ NoRequest \in RequestType /\ RequestInv(NoRequest, j, by, links)
         /\ NoClick \in ClickType /\ ClickInv(NoClick, by, links)
         /\ \A pc \in {"idle", "claim", "read", "release"} :
              LET k == [pc |-> pc, seen |-> NewJourney]
              IN  k \in PassType /\ PassInv(k, j, by, links)
  <1>1. AnswersInv(NewData, by, links)
    BY NoAnswers, NewJourneyType
  <1>2. NoRequest \in RequestType /\ NoClick \in ClickType
    BY NewJourneyType DEF NoRequest, NoClick, RequestType, ClickType
  <1>3. RequestInv(NoRequest, j, by, links) /\ ClickInv(NoClick, by, links)
    BY <1>1, NewJourneyType DEF RequestInv, ClickInv, NoRequest, NoClick
  <1>4. ASSUME NEW pc \in {"idle", "claim", "read", "release"}
        PROVE  /\ [pc |-> pc, seen |-> NewJourney] \in PassType
               /\ PassInv([pc |-> pc, seen |-> NewJourney], j, by, links)
    BY <1>1, NewJourneyType DEF PassType, PassInv
  <1> QED BY <1>2, <1>3, <1>4

\* A step that adds to what was sent, emailed and pressed, and after which the requests,
\* clicks and runs it alters are in order, keeps the invariant.
LEMMA Closing ==
  ASSUME RentInv,
         journey' \in Journey, JourneyInv(journey', pressed', mails'),
         journey.sent \subseteq journey'.sent,
         pressed' \in Links, Grown(pressed, pressed'),
         mails' \in [Gate -> Seq(Nat)], Extended(mails, mails'), HistoryInv',
         request' \in [Staff -> RequestType],
         \A s \in Staff : request'[s] = request[s]
                            \/ RequestInv(request'[s], journey', pressed', mails'),
         click' \in [Customer -> ClickType],
         \A c \in Customer : click'[c] = click[c] \/ ClickInv(click'[c], pressed', mails'),
         pass' \in [Job -> PassType],
         \A p \in Job : pass'[p] = pass[p] \/ PassInv(pass'[p], journey', pressed', mails'),
         today' \in Nat, autos' \in Nat, faults' \in Nat, clobbered' \in BOOLEAN
  PROVE  RentInv'
  <1>1. TypeOK'
    BY DEF TypeOK, Links, RequestType, ClickType, PassType
  <1>2. ASSUME NEW s \in Staff PROVE RequestInv(request'[s], journey', pressed', mails')
    <2>1. RequestInv(request[s], journey, pressed, mails)
      BY DEF RentInv
    <2> QED BY <2>1, RequestStays
  <1>3. ASSUME NEW c \in Customer PROVE ClickInv(click'[c], pressed', mails')
    <2>1. ClickInv(click[c], pressed, mails)
      BY DEF RentInv
    <2> QED BY <2>1, ClickStays
  <1>4. ASSUME NEW p \in Job PROVE PassInv(pass'[p], journey', pressed', mails')
    <2>1. PassInv(pass[p], journey, pressed, mails)
      BY DEF RentInv
    <2> QED BY <2>1, PassStays
  <1> QED BY <1>1, <1>2, <1>3, <1>4 DEF RentInv

\* The same of a step that touches only one request, click or run, or only the journey's
\* data with it: what was emailed and pressed stays.
LEMMA Standing ==
  ASSUME RentInv, UNCHANGED <<pressed, mails>>
  PROVE  /\ pressed' \in Links /\ Grown(pressed, pressed')
         /\ mails' \in [Gate -> Seq(Nat)] /\ Extended(mails, mails') /\ HistoryInv'
  <1>1. HistoryInv'
    BY DEF RentInv, HistoryInv
  <1> QED BY <1>1, TypeFacts DEF Grown, Extended

LEMMA RentInit == Init => RentInv
  <1> SUFFICES ASSUME Init PROVE RentInv
    OBVIOUS
  <1>1. TypeOK
    <2>1. NoRequest \in RequestType /\ NoClick \in ClickType /\ NoPass \in PassType
      BY IdleFacts DEF NoPass
    <2>2. /\ request \in [Staff -> RequestType] /\ click \in [Customer -> ClickType]
          /\ pass \in [Job -> PassType]
      BY <2>1 DEF Init
    <2>3. mails \in [Gate -> Seq(Nat)] /\ pressed \in [Gate -> SUBSET Nat]
      BY DEF Init
    <2>4. journey \in Journey
      BY NewJourneyType DEF Init
    <2>5. today = 0 /\ autos = 0 /\ faults = 0 /\ clobbered = FALSE
      BY DEF Init
    <2>6. {today, autos, faults} \subseteq Nat
      BY <2>5
    <2>7. clobbered \in BOOLEAN
      BY <2>5
    <2> QED BY <2>2, <2>3, <2>4, <2>6, <2>7 DEF TypeOK, RequestType, ClickType, PassType
  <1>2. HistoryInv
    BY DEF Init, HistoryInv
  <1>3. AnswersInv(NewData, pressed, mails)
    BY NoAnswers, NewJourneyType
  <1>4. JourneyInv(journey, pressed, mails)
    BY <1>3, NewJourneyType DEF Init, JourneyInv
  <1>5. \A s \in Staff : RequestInv(request[s], journey, pressed, mails)
    BY IdleFacts DEF Init
  <1>6. \A c \in Customer : ClickInv(click[c], pressed, mails)
    BY IdleFacts DEF Init
  <1>7. \A p \in Job : PassInv(pass[p], journey, pressed, mails)
    BY IdleFacts DEF Init, NoPass
  <1> QED BY <1>1, <1>2, <1>4, <1>5, <1>6, <1>7 DEF RentInv

\* What the checks of a first send establish.
LEMMA CheckedFacts ==
  ASSUME NEW j, NEW by, NEW links, JourneyInv(j, by, links),
         NEW step \in Workflow, MaySend(j, step)
  PROVE  InOrder(step, j.sent) /\ Agreed(step, by)
  <1>1. InTurn(j, step) /\ j.completed \subseteq j.sent
    BY DEF MaySend, sendNext, sendStep, JourneyInv
  <1>2. InOrder(step, j.sent)
    BY <1>1, TurnFacts
  <1>3. step = "rent-agreement" => j.data.ack
    BY DEF MaySend, assertStepPreconditions
  <1>4. step \in Branch => j.data.signed
    BY DEF MaySend, assertStepPreconditions, isRentAgreementAccepted, Branch
  <1> QED BY <1>2, <1>3, <1>4 DEF Agreed, JourneyInv, AnswersInv

\* A request that begins works from a copy of the document as it stands.
LEMMA BeginKeeps ==
  ASSUME RentInv, NEW s \in Staff, NEW op, NEW step \in Workflow \cup {"none"},
         NEW form \in Form, NEW pc \in {"send", "write"}, Begin(s, op, step, form, pc),
         op \in {"send", "resend"} => step \in Workflow,
         op = "send" => MaySend(journey, step)
  PROVE  RentInv'
  <1> DEFINE r == [pc |-> pc, op |-> op, step |-> step, form |-> form, seen |-> Kept(op, journey)]
             kept == Kept(op, journey)
  <1>1. /\ op \in Ops
        /\ request' = [request EXCEPT ![s] = r]
        /\ UNCHANGED <<journey, click, pass, today, mails, pressed, autos, clobbered, faults>>
    BY DEF Begin
  <1>2. /\ kept \in Journey
        /\ kept.completed \subseteq journey.completed
        /\ FromAnswersOf(kept.data, journey.data)
    BY TypeFacts, KeptFacts
  <1>3. op = "send" => InOrder(step, journey.sent) /\ Agreed(step, pressed)
    BY TypeFacts, CheckedFacts
  <1>4. r \in RequestType
    BY <1>1, <1>2 DEF RequestType
  <1>5. r.seen = kept /\ r.op = op /\ r.step = step
    OBVIOUS
  <1>6. AnswersInv(kept.data, pressed, mails) /\ journey.completed \subseteq journey.sent
    BY <1>2, TypeFacts, AnswersKept DEF JourneyInv
  <1> HIDE DEF r, kept
  <1>7. op \in {"send", "resend", "edit", "cancel", "decline", "resume"}
    BY <1>1, ConstantAssumption
  <1>8. RequestInv(r, journey, pressed, mails)
    BY <1>2, <1>3, <1>5, <1>6, <1>7 DEF RequestInv
  <1>9. /\ request' \in [Staff -> RequestType]
        /\ \A t \in Staff : request'[t] = request[t] \/ request'[t] = r
    BY <1>1, <1>4, TypeFacts
  <1> QED BY <1>1, <1>8, <1>9, TypeFacts, Standing, Closing

LEMMA FormFacts ==
  /\ \A step : Forms(step) \subseteq Form
  /\ \A day \in Days \cup {Unset} : [NoForm EXCEPT !.day = day] \in Form
  /\ \A mode \in Modes, day \in Days : [mode |-> mode, day |-> day, final |-> "as is"] \in Form
  /\ \A step, d : \A form \in Forms(step), choice \in FinalChoices(d) :
       [form EXCEPT !.final = IF step = "rent-agreement" THEN choice ELSE @] \in Form
  <1>1. Modes \subseteq Mode /\ Days \subseteq Nat /\ "none" \in Mode
    BY ConstantAssumption DEF Mode
  <1>2. \A step : Forms(step) \subseteq Form
    BY <1>1, NewJourneyType DEF Forms, Form
  <1>3. ASSUME NEW day \in Days \cup {Unset} PROVE [NoForm EXCEPT !.day = day] \in Form
    <2>1. day \in Nat /\ NoForm \in Form
      BY <1>1, NewJourneyType DEF Unset
    <2> QED BY <2>1 DEF Form
  <1>4. \A mode \in Modes, day \in Days : [mode |-> mode, day |-> day, final |-> "as is"] \in Form
    BY <1>1 DEF Form
  <1>5. ASSUME NEW step, NEW d, NEW form \in Form, NEW choice \in FinalChoices(d)
        PROVE  [form EXCEPT !.final = IF step = "rent-agreement" THEN choice ELSE @] \in Form
    <2>1. choice \in {"as is", "revised", "final"}
      BY DEF FinalChoices
    <2> QED BY <2>1 DEF Form
  <1> QED BY <1>2, <1>3, <1>4, <1>5

LEMMA ReadKeeps ==
  ASSUME RentInv, NEW s \in Staff,
         \/ \E step \in Steps : ReadSend(s, step)
         \/ \E step \in Resends : ReadResend(s, step)
         \/ ReadEdit(s) \/ ReadCancel(s) \/ ReadDecline(s) \/ ReadResume(s)
  PROVE  RentInv'
  <1>1. ASSUME NEW step \in Steps, ReadSend(s, step) PROVE RentInv'
    <2>1. step \in Workflow
      BY StepsAssumption
    <2>2. PICK form \in Forms(step) : Begin(s, "send", step, form, "send")
      BY <1>1 DEF ReadSend
    <2>3. form \in Form /\ MaySend(journey, step)
      BY <1>1, FormFacts DEF ReadSend
    <2> QED BY <2>1, <2>2, <2>3, BeginKeeps
  <1>2. ASSUME NEW step \in Resends, ReadResend(s, step) PROVE RentInv'
    <2>1. step \in Workflow
      BY StepsAssumption
    <2>2. PICK form \in Forms(step), choice \in FinalChoices(journey.data) :
            Begin(s, "resend", step,
                  [form EXCEPT !.final = IF step = "rent-agreement" THEN choice ELSE @], "send")
      BY <1>2 DEF ReadResend
    <2> DEFINE filled == [form EXCEPT !.final = IF step = "rent-agreement" THEN choice ELSE @]
    <2>3. filled \in Form
      BY FormFacts
    <2>4. Begin(s, "resend", step, filled, "send")
      BY <2>2
    <2> HIDE DEF filled
    <2> QED BY <2>1, <2>3, <2>4, BeginKeeps
  <1>3. CASE ReadEdit(s)
    <2>1. PICK day \in Days \cup {Unset} :
            Begin(s, "edit", "none", [NoForm EXCEPT !.day = day], "write")
      BY <1>3 DEF ReadEdit
    <2> DEFINE filled == [NoForm EXCEPT !.day = day]
    <2>2. filled \in Form
      BY FormFacts
    <2>3. Begin(s, "edit", "none", filled, "write")
      BY <2>1
    <2> HIDE DEF filled
    <2> QED BY <2>2, <2>3, BeginKeeps
  <1>4. ASSUME NEW op \in {"cancel", "decline", "resume"}, Begin(s, op, "none", NoForm, "write")
        PROVE  RentInv'
    BY <1>4, NewJourneyType, BeginKeeps
  <1> QED BY <1>1, <1>2, <1>3, <1>4 DEF ReadCancel, ReadDecline, ReadResume

\* A request that ends without a write.
LEMMA DropKeeps ==
  ASSUME RentInv, NEW s \in Staff, request' = [request EXCEPT ![s] = NoRequest],
         UNCHANGED <<journey, click, pass, today, mails, pressed, autos, clobbered>>,
         faults' \in Nat
  PROVE  RentInv'
  <1>1. /\ request' \in [Staff -> RequestType]
        /\ \A t \in Staff : request'[t] = request[t] \/ request'[t] = NoRequest
    BY TypeFacts, IdleFacts
  <1> QED BY <1>1, TypeFacts, IdleFacts, Standing, Closing

LEMMA AppendFacts ==
  ASSUME NEW q \in Seq(Nat), NEW g \in Nat
  PROVE  /\ Append(q, g) \in Seq(Nat)
         /\ \A i \in DOMAIN q : i \in DOMAIN Append(q, g) /\ Append(q, g)[i] = q[i]
         /\ \A i \in DOMAIN Append(q, g) : i \in DOMAIN q \/ Append(q, g)[i] = g
  OBVIOUS

LEMMA SendEmailKeeps ==
  ASSUME RentInv, NEW s \in Staff, SendEmail(s)
  PROVE  RentInv'
  <1> DEFINE r == request[s]
             w == [r EXCEPT !.pc = "write"]
             g == NextGeneration(r.seen.data, r.step)
  <1>1. /\ r \in RequestType /\ r.pc = "send"
        /\ RequestInv(r, journey, pressed, mails)
    BY TypeFacts DEF SendEmail, RentInv
  <1>2. /\ mails' = IF r.step \in Gate THEN [mails EXCEPT ![r.step] = Append(@, g)] ELSE mails
        /\ request' = [request EXCEPT ![s] = w]
        /\ UNCHANGED <<journey, click, pass, today, pressed, autos, clobbered, faults>>
    <2>1. request' = [request EXCEPT ![s].pc = "write"]
      BY DEF SendEmail
    <2>2. request' = [request EXCEPT ![s] = w]
      BY <2>1, TypeFacts
    <2> QED BY <2>2 DEF SendEmail, Emailed
  <1>3. g \in Nat /\ g > 0
    <2>1. r.seen.data \in Data
      BY <1>1 DEF RequestType, Journey
    <2> QED BY <2>1, NextGenerationType
  <1>4. w \in RequestType /\ RequestInv(w, journey, pressed, mails)
    BY <1>1 DEF RequestType, RequestInv
  <1> HIDE DEF r, w, g
  <1>5. /\ mails' \in [Gate -> Seq(Nat)] /\ HistoryInv' /\ Extended(mails, mails')
    <2>1. HistoryInv /\ mails \in [Gate -> Seq(Nat)]
      BY TypeFacts DEF RentInv
    <2>2. ASSUME NEW gate \in Gate
          PROVE  /\ mails'[gate] = mails[gate] \/ mails'[gate] = Append(mails[gate], g)
                 /\ mails[gate] \in Seq(Nat)
      BY <1>2, <2>1
    <2>3. ASSUME NEW gate \in Gate
          PROVE  /\ mails'[gate] \in Seq(Nat)
                 /\ \A i \in DOMAIN mails'[gate] : mails'[gate][i] > 0
                 /\ \A i \in DOMAIN mails[gate] :
                      i \in DOMAIN mails'[gate] /\ mails'[gate][i] = mails[gate][i]
      <3>1. \A i \in DOMAIN mails[gate] : mails[gate][i] > 0
        BY <2>1 DEF HistoryInv
      <3>2. mails[gate] \in Seq(Nat) /\ (mails'[gate] = mails[gate] \/ mails'[gate] = Append(mails[gate], g))
        BY <2>2
      <3>3. CASE mails'[gate] = mails[gate]
        BY <3>1, <3>2, <3>3
      <3>4. CASE mails'[gate] = Append(mails[gate], g)
        <4> DEFINE q == mails[gate]
        <4>1. q \in Seq(Nat) /\ mails'[gate] = Append(q, g)
          BY <3>2, <3>4
        <4>2. \A i \in DOMAIN q : q[i] > 0
          BY <3>1
        <4> HIDE DEF q
        <4>3. /\ Append(q, g) \in Seq(Nat)
              /\ \A i \in DOMAIN q : i \in DOMAIN Append(q, g) /\ Append(q, g)[i] = q[i]
              /\ \A i \in DOMAIN Append(q, g) : i \in DOMAIN q \/ Append(q, g)[i] = g
          BY <1>3, <4>1, AppendFacts
        <4>4. \A i \in DOMAIN Append(q, g) : Append(q, g)[i] > 0
          BY <1>3, <4>2, <4>3
        <4> QED BY <4>1, <4>3, <4>4 DEF q
      <3> QED BY <3>2, <3>3, <3>4
    <2>4. mails' \in [Gate -> Seq(Nat)]
      <3>1. DOMAIN mails' = Gate /\ mails' = [gate \in Gate |-> mails'[gate]]
        BY <1>2, <2>1
      <3> QED BY <2>3, <3>1
    <2> QED BY <2>3, <2>4 DEF HistoryInv, Extended
  <1>6. pressed' \in Links /\ Grown(pressed, pressed')
    BY <1>2, TypeFacts DEF Grown
  <1>7. JourneyInv(journey', pressed', mails')
    BY <1>2, <1>5, <1>6, TypeFacts, JourneyStays
  <1>8. RequestInv(w, journey', pressed', mails')
    <2>1. journey.sent \subseteq journey'.sent
      BY <1>2
    <2> QED BY <1>4, <1>5, <1>6, <2>1, RequestStays
  <1>9. /\ request' \in [Staff -> RequestType]
        /\ \A t \in Staff : request'[t] = request[t] \/ request'[t] = w
    BY <1>2, <1>4, TypeFacts
  <1> QED BY <1>2, <1>5, <1>6, <1>7, <1>8, <1>9, TypeFacts, Closing

LEMMA WriteJourneyKeeps ==
  ASSUME RentInv, NEW s \in Staff, WriteJourney(s)
  PROVE  RentInv'
  <1> DEFINE r == request[s]
  <1>1. /\ r \in RequestType /\ r.pc = "write"
        /\ RequestInv(r, journey, pressed, mails)
        /\ journey' = Write(journey, r)
        /\ request' = [request EXCEPT ![s] = NoRequest]
        /\ UNCHANGED <<click, pass, today, mails, pressed, autos, faults>>
        /\ clobbered' \in BOOLEAN
    BY TypeFacts DEF WriteJourney, RentInv, NoteClaim
  <1>2. r.seen \in Journey /\ r.form \in Form /\ r.pc # "idle"
    BY <1>1 DEF RequestType
  <1> HIDE DEF r
  <1>3. /\ journey' \in Journey
        /\ JourneyInv(journey', pressed', mails')
        /\ journey.sent \subseteq journey'.sent
    BY <1>1, <1>2, TypeFacts, WriteFacts
  <1>4. /\ request' \in [Staff -> RequestType]
        /\ \A t \in Staff : request'[t] = request[t] \/ request'[t] = NoRequest
    BY <1>1, TypeFacts, IdleFacts
  <1> QED BY <1>1, <1>3, <1>4, TypeFacts, IdleFacts, Standing, Closing

\* A click works from the document as it stands, and its link is up to date.
LEMMA ClickKeeps ==
  ASSUME RentInv, NEW c \in Customer, NEW answer, NEW gate \in Gate, NEW mail \in Nat,
         NEW form \in Form, Click(c, answer, gate, mail, form),
         answer = "sign" => gate = "rent-agreement"
  PROVE  RentInv'
  <1> DEFINE k == [pc |-> "write", answer |-> answer, mail |-> mail, form |-> form,
                   seen |-> journey.data]
  <1>1. /\ answer \in Answers /\ mail \in DOMAIN mails[gate]
        /\ click' = [click EXCEPT ![c] = k]
        /\ UNCHANGED <<journey, request, pass, today, mails, pressed, autos, clobbered, faults>>
    BY DEF Click
  <1>2. k \in ClickType
    BY <1>1, TypeFacts DEF ClickType
  <1>3. answer \in {"confirm", "refuse", "sign", "decline"}
    BY <1>1, ConstantAssumption
  <1>4. ASSUME answer = "sign"
        PROVE  /\ mail \in DOMAIN mails["rent-agreement"]
               /\ mails["rent-agreement"][mail] >= SignableGen(journey.data)
    <2>1. mail \in DOMAIN mails["rent-agreement"]
      BY <1>1, <1>4
    <2>2. mails["rent-agreement"][mail] \in Nat /\ mails["rent-agreement"][mail] > 0
      BY <2>1, TypeFacts DEF RentInv, HistoryInv, Gate
    <2>3. UpToDate(journey.data.gen, mails["rent-agreement"][mail]) /\ journey.data.gen \in Nat
      BY <1>4, TypeFacts DEF Click, Data
    <2> QED BY <2>1, <2>2, <2>3 DEF UpToDate, SignableGen
  <1>5. AnswersInv(journey.data, pressed, mails)
    BY TypeFacts DEF JourneyInv
  <1>6. /\ k.pc = "write" /\ k.answer = answer /\ k.mail = mail /\ k.seen = journey.data
    OBVIOUS
  <1> HIDE DEF k
  <1>7. ClickInv(k, pressed, mails)
    BY <1>3, <1>4, <1>5, <1>6 DEF ClickInv
  <1>8. /\ click' \in [Customer -> ClickType]
        /\ \A d \in Customer : click'[d] = click[d] \/ click'[d] = k
    BY <1>1, <1>2, TypeFacts
  <1> QED BY <1>1, <1>7, <1>8, TypeFacts, Standing, Closing

LEMMA ReadAnswerKeeps ==
  ASSUME RentInv, NEW c \in Customer, ReadAnswer(c)
  PROVE  RentInv'
  <1>1. PICK mail \in 1..MaxMails :
          ReadConfirm(c, mail) \/ ReadRefuse(c, mail) \/ ReadSign(c, mail)
            \/ ReadQuoteDecline(c, mail)
    BY DEF ReadAnswer
  <1>2. mail \in Nat /\ NoForm \in Form
    BY NewJourneyType
  <1>3. "rent-request" \in Gate /\ "rent-agreement" \in Gate
    BY DEF Gate
  <1>4. CASE ReadConfirm(c, mail)
    <2>1. PICK mode \in Modes, day \in Days :
            Click(c, "confirm", "rent-request", mail,
                  [mode |-> mode, day |-> day, final |-> "as is"])
      BY <1>4 DEF ReadConfirm
    <2> DEFINE form == [mode |-> mode, day |-> day, final |-> "as is"]
    <2>2. form \in Form
      BY FormFacts
    <2>3. Click(c, "confirm", "rent-request", mail, form)
      BY <2>1
    <2> HIDE DEF form
    <2> QED BY <1>2, <1>3, <2>2, <2>3, ClickKeeps
  <1>5. CASE ReadRefuse(c, mail)
    BY <1>2, <1>3, <1>5, ClickKeeps DEF ReadRefuse
  <1>6. CASE ReadSign(c, mail)
    BY <1>2, <1>3, <1>6, ClickKeeps DEF ReadSign
  <1>7. CASE ReadQuoteDecline(c, mail)
    BY <1>2, <1>3, <1>7, ClickKeeps DEF ReadQuoteDecline
  <1> QED BY <1>1, <1>4, <1>5, <1>6, <1>7

LEMMA WriteAnswerKeeps ==
  ASSUME RentInv, NEW c \in Customer, WriteAnswer(c)
  PROVE  RentInv'
  <1> DEFINE k == click[c]
  <1>1. /\ k \in ClickType /\ k.pc = "write"
        /\ ClickInv(k, pressed, mails)
        /\ journey' = Answered(journey, k)
        /\ pressed' = PressedBy(k, pressed)
        /\ click' = [click EXCEPT ![c] = NoClick]
        /\ UNCHANGED <<request, pass, today, mails, autos, faults>>
    BY TypeFacts DEF WriteAnswer, RentInv, PressedBy
  <1>2. clobbered' \in BOOLEAN
    BY TypeFacts DEF WriteAnswer, NoteClaim
  <1>3. k.seen \in Data /\ k.form \in Form /\ k.mail \in Nat
    BY <1>1 DEF ClickType
  <1> HIDE DEF k
  <1>4. pressed' \in Links /\ Grown(pressed, pressed')
    BY <1>1, <1>3, TypeFacts, PressedFacts
  <1>5. /\ journey' \in Journey
        /\ JourneyInv(journey', pressed', mails)
        /\ journey'.sent = journey.sent
    BY <1>1, <1>3, TypeFacts, AnsweredFacts
  <1>6. HistoryInv' /\ Extended(mails, mails')
    BY <1>1 DEF RentInv, HistoryInv, Extended
  <1>7. /\ click' \in [Customer -> ClickType]
        /\ \A d \in Customer : click'[d] = click[d] \/ click'[d] = NoClick
    BY <1>1, TypeFacts, IdleFacts
  <1>8. JourneyInv(journey', pressed', mails') /\ journey.sent \subseteq journey'.sent
    BY <1>1, <1>5
  <1> QED BY <1>1, <1>2, <1>4, <1>5, <1>6, <1>7, <1>8, TypeFacts, IdleFacts, Closing

-----------------------------------------------------------------------------
(* The hourly job.                                                          *)

\* A run that goes on to k, and writes no more than the claim.
LEMMA PassKeeps ==
  ASSUME RentInv, NEW p \in Job, NEW pc, NEW seen, PassTo(p, pc, seen),
         [pc |-> pc, seen |-> seen] \in PassType,
         PassInv([pc |-> pc, seen |-> seen], journey, pressed, mails),
         journey' \in Journey, JourneyInv(journey', pressed, mails),
         journey.sent \subseteq journey'.sent,
         autos' \in Nat, faults' \in Nat, clobbered' \in BOOLEAN
  PROVE  RentInv'
  <1> DEFINE k == [pc |-> pc, seen |-> seen]
  <1>1. /\ pass' = [pass EXCEPT ![p] = k]
        /\ UNCHANGED <<request, click, today, mails, pressed>>
    BY DEF PassTo
  <1>2. k \in PassType /\ PassInv(k, journey, pressed, mails)
    OBVIOUS
  <1> HIDE DEF k
  <1>3. Grown(pressed, pressed') /\ Extended(mails, mails')
    BY <1>1, Standing
  <1>4. PassInv(k, journey', pressed', mails')
    BY <1>2, <1>3, PassStays
  <1>5. /\ pass' \in [Job -> PassType]
        /\ \A q \in Job : pass'[q] = pass[q] \/ pass'[q] = k
    BY <1>1, <1>2, TypeFacts
  <1>6. JourneyInv(journey', pressed', mails')
    BY <1>1
  <1> QED BY <1>1, <1>4, <1>5, <1>6, TypeFacts, Standing, Closing

\* ... with nothing of the document in hand.
LEMMA PassRests ==
  ASSUME RentInv, NEW p \in Job, NEW pc \in {"idle", "claim", "read", "release"},
         PassTo(p, pc, NewJourney),
         journey' \in Journey, JourneyInv(journey', pressed, mails),
         journey.sent \subseteq journey'.sent,
         autos' \in Nat, faults' \in Nat, clobbered' \in BOOLEAN
  PROVE  RentInv'
  <1>1. /\ [pc |-> pc, seen |-> NewJourney] \in PassType
        /\ PassInv([pc |-> pc, seen |-> NewJourney], journey, pressed, mails)
    BY IdleFacts
  <1> QED BY <1>1, PassKeeps

LEMMA ClaimKeeps ==
  ASSUME NEW by, NEW links, NEW j \in Journey, JourneyInv(j, by, links), NEW a \in BOOLEAN
  PROVE  LET w == [j EXCEPT !.data.claim = a]
         IN  w \in Journey /\ JourneyInv(w, by, links) /\ j.sent \subseteq w.sent
  <1> DEFINE w == [j EXCEPT !.data.claim = a]
  <1>1. /\ w \in Journey /\ w.sent = j.sent /\ w.completed = j.completed
        /\ FromAnswersOf(w.data, j.data)
    BY ClaimFacts
  <1> HIDE DEF w
  <1>2. JourneyInv(w, by, links)
    BY <1>1, Rewritten DEF JourneyInv
  <1> QED BY <1>1, <1>2 DEF w

LEMMA PassReadsKeeps ==
  ASSUME RentInv, NEW p \in Job, PassReads(p)
  PROVE  RentInv'
  <1>1. /\ UNCHANGED <<journey, autos, clobbered, faults>>
        /\ \/ PassTo(p, "idle", NewJourney)
           \/ PassTo(p, "release", NewJourney)
           \/ /\ "rent-handover" \in journey.completed
              /\ PassTo(p, "send", Kept("send", journey))
    BY DEF PassReads
  <1>2. /\ journey' \in Journey /\ JourneyInv(journey', pressed, mails)
        /\ journey.sent \subseteq journey'.sent
        /\ autos' \in Nat /\ faults' \in Nat /\ clobbered' \in BOOLEAN
    BY <1>1, TypeFacts
  <1>3. CASE PassTo(p, "idle", NewJourney) \/ PassTo(p, "release", NewJourney)
    BY <1>2, <1>3, PassRests
  <1>4. CASE /\ "rent-handover" \in journey.completed
             /\ PassTo(p, "send", Kept("send", journey))
    <2> DEFINE kept == Kept("send", journey)
               k == [pc |-> "send", seen |-> kept]
    <2>1. /\ kept \in Journey /\ kept.completed \subseteq journey.completed
          /\ FromAnswersOf(kept.data, journey.data)
      BY TypeFacts, KeptFacts
    <2>2. PassTo(p, "send", kept)
      BY <1>4
    <2> HIDE DEF kept
    <2>3. AnswersInv(kept.data, pressed, mails) /\ journey.completed \subseteq journey.sent
      BY <2>1, TypeFacts, AnswersKept DEF JourneyInv
    <2>4. InOrder(Reminder, journey.sent)
      <3>1. "rent-handover" \in journey.sent /\ InOrder("rent-handover", journey.sent)
        BY <1>4, <2>3, TypeFacts DEF JourneyInv
      <3> QED BY <3>1, ReminderInOrder
    <2>5. k \in PassType
      BY <2>1 DEF PassType
    <2>6. PassInv(k, journey, pressed, mails)
      BY <2>1, <2>3, <2>4 DEF PassInv
    <2> QED BY <1>2, <2>2, <2>5, <2>6, PassKeeps
  <1> QED BY <1>1, <1>3, <1>4

LEMMA PassWritesKeeps ==
  ASSUME RentInv, NEW p \in Job, PassWrites(p)
  PROVE  RentInv'
  <1> DEFINE seen == pass[p].seen
  <1>1. /\ journey' = Sent(journey, seen, Reminder, NoForm)
        /\ PassTo(p, "release", NewJourney)
        /\ UNCHANGED <<autos, faults>>
    BY DEF PassWrites
  <1>2. clobbered' \in BOOLEAN
    BY TypeFacts DEF PassWrites, NoteClaim
  <1>3. /\ seen \in Journey
        /\ AnswersInv(seen.data, pressed, mails)
        /\ seen.completed \subseteq journey.sent
        /\ InOrder(Reminder, journey.sent)
    BY TypeFacts DEF PassWrites, RentInv, PassInv, PassType
  <1>4. Agreed(Reminder, pressed) /\ Reminder \in Workflow /\ NoForm \in Form
    BY WorkflowFacts, NewJourneyType DEF Agreed, Reminder, Branch
  <1> HIDE DEF seen
  <1>5. /\ journey' \in Journey /\ JourneyInv(journey', pressed, mails)
        /\ journey.sent \subseteq journey'.sent
    BY <1>1, <1>3, <1>4, TypeFacts, SentKeeps
  <1>6. autos' \in Nat /\ faults' \in Nat
    BY <1>1, TypeFacts
  <1> QED BY <1>1, <1>2, <1>5, <1>6, PassRests

LEMMA JobKeeps ==
  ASSUME RentInv, NEW p \in Job, JobStep(p)
  PROVE  RentInv'
  <1>1. /\ journey \in Journey /\ JourneyInv(journey, pressed, mails)
        /\ autos \in Nat /\ faults \in Nat /\ clobbered \in BOOLEAN
        /\ pass[p] \in PassType /\ PassInv(pass[p], journey, pressed, mails)
    BY TypeFacts DEF RentInv
  <1>2. ASSUME NEW pc \in {"idle", "claim", "read", "release"}, PassTo(p, pc, NewJourney),
               UNCHANGED <<journey, clobbered>>, autos' \in Nat, faults' \in Nat
        PROVE  RentInv'
    <2>1. /\ journey' \in Journey /\ JourneyInv(journey', pressed, mails)
          /\ journey.sent \subseteq journey'.sent /\ clobbered' \in BOOLEAN
      BY <1>1, <1>2
    <2> QED BY <1>2, <2>1, PassRests
  <1>3. CASE PassFinds(p) \/ PassEmailFails(p)
    BY <1>1, <1>2, <1>3 DEF PassFinds, PassEmailFails
  <1>4. CASE PassClaims(p)
    <2>1. CASE UNCHANGED journey
      BY <1>1, <1>2, <1>4, <2>1, PassRests DEF PassClaims
    <2>2. CASE journey' = [journey EXCEPT !.data.claim = TRUE]
      <3>1. /\ journey' \in Journey /\ JourneyInv(journey', pressed, mails)
            /\ journey.sent \subseteq journey'.sent
        BY <1>1, <2>2, ClaimKeeps
      <3>2. /\ PassTo(p, "read", NewJourney) \/ PassTo(p, "idle", NewJourney)
            /\ UNCHANGED <<autos, clobbered, faults>>
        BY <1>4 DEF PassClaims
      <3> QED BY <1>1, <3>1, <3>2, PassRests
    <2> QED BY <1>4, <2>1, <2>2 DEF PassClaims
  <1>5. CASE PassReleases(p)
    <2>1. /\ journey' = [journey EXCEPT !.data.claim = FALSE]
          /\ PassTo(p, "idle", NewJourney)
          /\ UNCHANGED <<autos, clobbered, faults>>
      BY <1>5 DEF PassReleases
    <2>2. /\ journey' \in Journey /\ JourneyInv(journey', pressed, mails)
          /\ journey.sent \subseteq journey'.sent
      BY <1>1, <2>1, ClaimKeeps
    <2> QED BY <1>1, <2>1, <2>2, PassRests
  <1>6. CASE PassSends(p)
    <2> DEFINE seen == pass[p].seen
               k == [pc |-> "write", seen |-> seen]
    <2>1. /\ pass[p].pc = "send" /\ autos' = autos + 1
          /\ PassTo(p, "write", seen)
          /\ UNCHANGED <<journey, clobbered, faults>>
      BY <1>6 DEF PassSends
    <2>2. k \in PassType
      BY <1>1 DEF PassType
    <2>3. PassInv(k, journey, pressed, mails)
      BY <1>1, <2>1 DEF PassInv
    <2>4. /\ journey' \in Journey /\ JourneyInv(journey', pressed, mails)
          /\ journey.sent \subseteq journey'.sent
          /\ clobbered' \in BOOLEAN
      BY <1>1, <2>1
    <2>5. autos' \in Nat /\ faults' \in Nat
      BY <1>1, <2>1
    <2> HIDE DEF seen
    <2> QED BY <2>1, <2>2, <2>3, <2>4, <2>5, PassKeeps
  <1>7. CASE PassFaults(p)
    <2>1. /\ faults' = faults + 1
          /\ PassTo(p, "release", NewJourney) \/ PassTo(p, "idle", NewJourney)
          /\ UNCHANGED <<journey, autos, clobbered>>
      BY <1>7 DEF PassFaults
    <2>2. faults' \in Nat /\ autos' \in Nat
      BY <1>1, <2>1
    <2> QED BY <1>2, <2>1, <2>2
  <1> QED BY <1>3, <1>4, <1>5, <1>6, <1>7, PassReadsKeeps, PassWritesKeeps DEF JobStep

\* A step that leaves everything but the calendar alone.
LEMMA RestKeeps ==
  ASSUME RentInv, today' \in Nat,
         UNCHANGED <<journey, request, click, pass, mails, pressed, autos, clobbered, faults>>
  PROVE  RentInv'
  <1>1. JourneyInv(journey', pressed', mails') /\ journey.sent \subseteq journey'.sent
    BY TypeFacts
  <1> QED BY <1>1, TypeFacts, Standing, Closing

LEMMA RentNext == RentInv /\ [Next]_vars => RentInv'
  <1> SUFFICES ASSUME RentInv, [Next]_vars PROVE RentInv'
    OBVIOUS
  <1>1. ASSUME NEW s \in Staff, StaffStep(s) PROVE RentInv'
    <2>1. CASE EmailFails(s)
      BY <2>1, TypeFacts, DropKeeps DEF EmailFails
    <2>2. CASE WriteLost(s)
      <3>1. faults' \in Nat
        BY <2>2, TypeFacts DEF WriteLost
      <3> QED BY <2>2, <3>1, DropKeeps DEF WriteLost
    <2> QED BY <1>1, <2>1, <2>2, ReadKeeps, SendEmailKeeps, WriteJourneyKeeps DEF StaffStep
  <1>2. ASSUME NEW c \in Customer, CustomerStep(c) PROVE RentInv'
    BY <1>2, ReadAnswerKeeps, WriteAnswerKeeps DEF CustomerStep
  <1>3. ASSUME NEW p \in Job, JobStep(p) PROVE RentInv'
    BY <1>3, JobKeeps
  <1>4. CASE NextDay
    <2>1. today' \in Nat
      BY <1>4, TypeFacts DEF NextDay
    <2> QED BY <1>4, <2>1, RestKeeps DEF NextDay
  <1>5. CASE UNCHANGED vars
    BY <1>5, TypeFacts, RestKeeps DEF vars
  <1> QED BY <1>1, <1>2, <1>3, <1>4, <1>5 DEF Next

-----------------------------------------------------------------------------
\* However many staff requests, clicks and runs of the job are in flight, and whatever
\* copies of dynamicData they write back, the answers in it and in every copy are the
\* customer's, and each step was sent in its turn.
THEOREM RentInvHolds == Spec => []RentInv
  <1> QED BY RentInit, RentNext, PTL DEF Spec

\* Every variable stays within its type.
THEOREM TypeCorrect == Spec => []TypeOK
  <1>1. RentInv => TypeOK
    BY DEF RentInv
  <1> QED BY <1>1, RentInvHolds, PTL

\* The quote counts as accepted only on a click in an email of its round or a later one.
THEOREM SignedCorrect == Spec => []SignedByCustomer
  <1>1. ASSUME RentInv, isRentAgreementAccepted(journey.data)
        PROVE  \E mail \in pressed["rent-agreement"] :
                 mails["rent-agreement"][mail] >= journey.data.gen
    <2> DEFINE d == journey.data
    <2>1. d.signed /\ d.gen \in Nat /\ d.signedOf \in Nat
          /\ (d.gen > 0 /\ d.signedOf > 0 => d.signedOf = d.gen)
      BY <1>1, TypeFacts DEF isRentAgreementAccepted, Data
    <2>2. PICK mail \in pressed["rent-agreement"] :
            /\ mail \in DOMAIN mails["rent-agreement"]
            /\ mails["rent-agreement"][mail] >= d.signedOf
      BY <1>1, <2>1, TypeFacts DEF JourneyInv, AnswersInv
    <2>3. d.signedOf > 0
      BY <1>1, <2>1, TypeFacts DEF JourneyInv, AnswersInv
    <2>4. mails["rent-agreement"][mail] \in Nat
      BY <1>1, <2>2, TypeFacts DEF Gate
    <2>5. mails["rent-agreement"][mail] >= d.gen
      BY <2>1, <2>2, <2>3, <2>4
    <2> QED BY <2>5
  <1>2. RentInv => SignedByCustomer
    BY <1>1 DEF SignedByCustomer
  <1> QED BY <1>2, RentInvHolds, PTL

\* A step is emailed only when every earlier one was, one branch step standing for both.
THEOREM OrderCorrect == Spec => []EmailsInOrder
  <1>1. RentInv => EmailsInOrder
    BY DEF RentInv, JourneyInv, EmailsInOrder
  <1> QED BY <1>1, RentInvHolds, PTL

\* The device is handed over only to a customer who confirmed the request and accepted a
\* quote.
THEOREM HandoverCorrect == Spec => []HandoverWasAgreed
  <1>1. ASSUME RentInv, "rent-handover" \in journey.sent
        PROVE  pressed["rent-request"] # {} /\ pressed["rent-agreement"] # {}
    <2>1. /\ InOrder("rent-handover", journey.sent)
          /\ \A step \in journey.sent : Agreed(step, pressed)
      BY <1>1, TypeFacts DEF JourneyInv
    <2>2. "rent-agreement" \in journey.sent /\ journey.sent \cap Branch # {}
      BY <2>1, BeforeFacts DEF InOrder, Branch
    <2> QED BY <2>1, <2>2 DEF Agreed
  <1>2. RentInv => HandoverWasAgreed
    BY <1>1 DEF HandoverWasAgreed
  <1> QED BY <1>2, RentInvHolds, PTL

-----------------------------------------------------------------------------
(* The return reminder.                                                     *)

\* No step takes back that a step was sent.
LEMMA SentGrows ==
  ASSUME RentInv, [Next]_vars
  PROVE  journey.sent \subseteq journey'.sent
  <1>1. ASSUME NEW s \in Staff, WriteJourney(s) PROVE journey.sent \subseteq journey'.sent
    <2> DEFINE r == request[s]
    <2>1. /\ r \in RequestType /\ r.pc = "write" /\ journey' = Write(journey, r)
          /\ RequestInv(r, journey, pressed, mails)
      BY <1>1, TypeFacts DEF WriteJourney, RentInv
    <2>2. r.seen \in Journey /\ r.form \in Form /\ r.pc # "idle"
      BY <2>1 DEF RequestType
    <2> HIDE DEF r
    <2> QED BY <2>1, <2>2, TypeFacts, WriteFacts
  <1>2. ASSUME NEW c \in Customer, WriteAnswer(c) PROVE journey.sent \subseteq journey'.sent
    <2> DEFINE k == click[c]
    <2>1. /\ k \in ClickType /\ k.pc = "write" /\ journey' = Answered(journey, k)
          /\ ClickInv(k, pressed, mails)
      BY <1>2, TypeFacts DEF WriteAnswer, RentInv
    <2>2. k.seen \in Data /\ k.form \in Form /\ k.mail \in Nat
      BY <2>1 DEF ClickType
    <2> HIDE DEF k
    <2>3. journey'.sent = journey.sent
      BY <2>1, <2>2, TypeFacts, AnsweredFacts
    <2> QED BY <2>3
  <1>3. ASSUME NEW p \in Job, JobStep(p) PROVE journey.sent \subseteq journey'.sent
    <2>1. CASE PassWrites(p)
      <3>1. pass[p].seen \in Journey /\ Reminder \in Workflow /\ NoForm \in Form
        BY TypeFacts, WorkflowFacts, NewJourneyType DEF PassType
      <3>2. journey'.sent = journey.sent \cup {Reminder}
        BY <2>1, <3>1, TypeFacts, SentFacts DEF PassWrites
      <3> QED BY <3>2
    <2>2. CASE \/ journey' = [journey EXCEPT !.data.claim = TRUE]
               \/ journey' = [journey EXCEPT !.data.claim = FALSE]
      <3>1. journey'.sent = journey.sent
        BY <2>2, TypeFacts, ClaimFacts
      <3> QED BY <3>1
    <2>3. CASE ~PassWrites(p)
      <3>1. \/ journey' = [journey EXCEPT !.data.claim = TRUE]
            \/ journey' = [journey EXCEPT !.data.claim = FALSE]
            \/ UNCHANGED journey
        BY <1>3, <2>3 DEF JobStep, PassFinds, PassClaims, PassReads, PassSends, PassEmailFails,
                          PassReleases, PassFaults
      <3> QED BY <2>2, <3>1
    <2> QED BY <2>1, <2>3
  <1>4. ASSUME NEW s \in Staff, StaffStep(s), ~WriteJourney(s) PROVE UNCHANGED journey
    BY <1>4 DEF StaffStep, ReadSend, ReadResend, ReadEdit, ReadCancel, ReadDecline, ReadResume,
                Begin, SendEmail, EmailFails, WriteLost
  <1>5. ASSUME NEW c \in Customer, ReadAnswer(c) PROVE UNCHANGED journey
    BY <1>5 DEF ReadAnswer, ReadConfirm, ReadRefuse, ReadSign, ReadQuoteDecline, Click
  <1> QED BY <1>1, <1>2, <1>3, <1>4, <1>5 DEF Next, NextDay, vars, CustomerStep

\* A step beside the job either leaves its claim alone or is noted.
LEMMA ClaimBeside ==
  ASSUME RentInv, ClaimInv, journey.sent \subseteq journey'.sent, UNCHANGED <<pass, autos>>,
         faults' \in Nat, faults' >= faults,
         ~clobbered' => ~clobbered /\ journey'.data.claim = journey.data.claim
  PROVE  ClaimInv'
  <1>1. autos \in Nat /\ faults \in Nat
    BY TypeFacts
  <1> QED BY <1>1 DEF ClaimInv, Holders

LEMMA ClaimByStaff ==
  ASSUME RentInv, ClaimInv, journey.sent \subseteq journey'.sent, NEW s \in Staff, StaffStep(s)
  PROVE  ClaimInv'
  <1>1. faults \in Nat /\ autos \in Nat
    BY TypeFacts
  <1>2. CASE WriteJourney(s)
    <2>1. ~clobbered' => ~clobbered /\ journey'.data.claim = journey.data.claim
      BY <1>2 DEF WriteJourney, NoteClaim
    <2>2. UNCHANGED <<pass, autos, faults>>
      BY <1>2 DEF WriteJourney
    <2> QED BY <1>1, <2>1, <2>2, ClaimBeside
  <1>3. CASE WriteLost(s)
    <2>1. UNCHANGED <<journey, clobbered, pass, autos>> /\ faults' = faults + 1
      BY <1>3 DEF WriteLost
    <2> QED BY <1>1, <2>1, ClaimBeside
  <1>4. CASE ~WriteJourney(s) /\ ~WriteLost(s)
    <2>1. UNCHANGED <<journey, clobbered, pass, autos, faults>>
      BY <1>4 DEF StaffStep, ReadSend, ReadResend, ReadEdit, ReadCancel, ReadDecline, ReadResume,
                  Begin, SendEmail, EmailFails
    <2> QED BY <1>1, <2>1, ClaimBeside
  <1> QED BY <1>2, <1>3, <1>4

LEMMA ClaimByCustomer ==
  ASSUME RentInv, ClaimInv, journey.sent \subseteq journey'.sent,
         NEW c \in Customer, CustomerStep(c)
  PROVE  ClaimInv'
  <1>1. faults \in Nat
    BY TypeFacts
  <1>2. CASE WriteAnswer(c)
    <2>1. ~clobbered' => ~clobbered /\ journey'.data.claim = journey.data.claim
      BY <1>2 DEF WriteAnswer, NoteClaim
    <2>2. UNCHANGED <<pass, autos, faults>>
      BY <1>2 DEF WriteAnswer
    <2> QED BY <1>1, <2>1, <2>2, ClaimBeside
  <1>3. CASE ReadAnswer(c)
    <2>1. UNCHANGED <<journey, clobbered, pass, autos, faults>>
      BY <1>3 DEF ReadAnswer, ReadConfirm, ReadRefuse, ReadSign, ReadQuoteDecline, Click
    <2> QED BY <1>1, <2>1, ClaimBeside
  <1> QED BY <1>2, <1>3 DEF CustomerStep

\* Where the runs are after one of them has moved.
LEMMA Moved ==
  ASSUME RentInv, NEW p \in Job, NEW pc, NEW seen, PassTo(p, pc, seen)
  PROVE  \A q \in Job : pass'[q].pc = IF q = p THEN pc ELSE pass[q].pc
  BY TypeFacts DEF PassTo

LEMMA ClaimByJob ==
  ASSUME RentInv, ClaimInv, journey.sent \subseteq journey'.sent, NEW p \in Job, JobStep(p)
  PROVE  ClaimInv'
  <1>1. autos \in Nat /\ faults \in Nat
    BY TypeFacts
  <1> SUFFICES ASSUME ~clobbered' PROVE ClaimInv'
    BY DEF ClaimInv
  <1>2. CASE PassFinds(p)
    <2>1. \A q \in Job : pass'[q].pc = IF q = p THEN "claim" ELSE pass[q].pc
      BY <1>2, Moved DEF PassFinds
    <2>2. pass[p].pc = "idle" /\ UNCHANGED <<journey, autos, clobbered, faults>>
      BY <1>2 DEF PassFinds
    <2> QED BY <1>1, <2>1, <2>2 DEF ClaimInv, Holders
  <1>3. CASE PassClaims(p)
    <2>1. pass[p].pc = "claim" /\ UNCHANGED <<autos, clobbered, faults>>
      BY <1>3 DEF PassClaims
    <2>2. CASE Claimable(journey)
      <3>1. \A q \in Job : pass'[q].pc = IF q = p THEN "read" ELSE pass[q].pc
        BY <1>3, <2>2, Moved DEF PassClaims
      <3>2. journey'.data.claim
        BY <1>3, <2>2, TypeFacts DEF PassClaims, Journey, Data
      <3>3. Holders = {}
        BY <2>1, <2>2 DEF Claimable, ClaimInv
      <3> QED BY <1>1, <2>1, <3>1, <3>2, <3>3 DEF ClaimInv, Holders
    <2>3. CASE ~Claimable(journey)
      <3>1. \A q \in Job : pass'[q].pc = IF q = p THEN "idle" ELSE pass[q].pc
        BY <1>3, <2>3, Moved DEF PassClaims
      <3>2. UNCHANGED journey
        BY <1>3, <2>3 DEF PassClaims
      <3> QED BY <1>1, <2>1, <3>1, <3>2 DEF ClaimInv, Holders
    <2> QED BY <2>2, <2>3
  <1>4. CASE PassReads(p)
    <2>1. pass[p].pc = "read" /\ UNCHANGED <<journey, autos, clobbered, faults>>
      BY <1>4 DEF PassReads
    <2>2. PICK pc \in {"idle", "send", "release"} :
            /\ \A q \in Job : pass'[q].pc = IF q = p THEN pc ELSE pass[q].pc
            /\ pc = "send" => Reminder \notin journey.sent
      <3>1. CASE PassTo(p, "idle", NewJourney)
        BY <3>1, Moved
      <3>2. CASE PassTo(p, "release", NewJourney)
        BY <3>2, Moved
      <3>3. CASE PassTo(p, "send", Kept("send", journey)) /\ Reminder \notin journey.sent
        BY <3>3, Moved
      <3> QED BY <1>4, <3>1, <3>2, <3>3 DEF PassReads
    <2>3. pc = "send" => autos <= faults
      <3>1. p \in Holders /\ \A q \in Job : pass[q].pc = "write" => q \in Holders
        BY <2>1 DEF Holders
      <3>2. \A q \in Job : pass[q].pc # "write"
        BY <2>1, <3>1 DEF ClaimInv
      <3> QED BY <1>1, <2>1, <2>2, <3>2 DEF ClaimInv
    <2> QED BY <1>1, <2>1, <2>2, <2>3 DEF ClaimInv, Holders
  <1>5. CASE PassSends(p)
    <2>1. \A q \in Job : pass'[q].pc = IF q = p THEN "write" ELSE pass[q].pc
      BY <1>5, Moved DEF PassSends
    <2>2. /\ pass[p].pc = "send" /\ autos' = autos + 1
          /\ UNCHANGED <<journey, clobbered, faults>>
      BY <1>5 DEF PassSends
    <2>3. \A q \in Job : pass'[q].pc # "send"
      <3>1. p \in Holders /\ \A q \in Job : pass[q].pc = "send" => q \in Holders
        BY <2>2 DEF Holders
      <3> QED BY <2>1, <2>2, <3>1 DEF ClaimInv
    <2> QED BY <1>1, <2>1, <2>2, <2>3 DEF ClaimInv, Holders
  <1>6. CASE PassEmailFails(p)
    <2>1. \A q \in Job : pass'[q].pc = IF q = p THEN "release" ELSE pass[q].pc
      BY <1>6, Moved DEF PassEmailFails
    <2>2. pass[p].pc = "send" /\ UNCHANGED <<journey, autos, clobbered, faults>>
      BY <1>6 DEF PassEmailFails
    <2> QED BY <1>1, <2>1, <2>2 DEF ClaimInv, Holders
  <1>7. CASE PassWrites(p)
    <2>1. \A q \in Job : pass'[q].pc = IF q = p THEN "release" ELSE pass[q].pc
      BY <1>7, Moved DEF PassWrites
    <2>2. /\ pass[p].pc = "write" /\ UNCHANGED <<autos, faults>>
          /\ ~clobbered /\ journey'.data.claim = journey.data.claim
      BY <1>7 DEF PassWrites, NoteClaim
    <2>3. Reminder \in journey'.sent
      <3>1. pass[p].seen \in Journey /\ Reminder \in Workflow /\ NoForm \in Form
        BY TypeFacts, WorkflowFacts, NewJourneyType DEF PassType
      <3>2. journey'.sent = journey.sent \cup {Reminder}
        BY <1>7, <3>1, TypeFacts, SentFacts DEF PassWrites
      <3> QED BY <3>2
    <2> QED BY <1>1, <2>1, <2>2, <2>3 DEF ClaimInv, Holders
  <1>8. CASE PassReleases(p)
    <2>1. \A q \in Job : pass'[q].pc = IF q = p THEN "idle" ELSE pass[q].pc
      BY <1>8, Moved DEF PassReleases
    <2>2. pass[p].pc = "release" /\ UNCHANGED <<autos, clobbered, faults>>
      BY <1>8 DEF PassReleases
    <2>3. p \in Holders
      BY <2>2 DEF Holders
    <2>4. Holders' = {}
      BY <2>1, <2>2, <2>3 DEF ClaimInv, Holders
    <2> QED BY <1>1, <2>1, <2>2, <2>4 DEF ClaimInv
  <1>9. CASE PassFaults(p)
    <2>1. /\ pass[p].pc \in {"read", "send", "write", "release"}
          /\ faults' = faults + 1 /\ UNCHANGED <<journey, autos, clobbered>>
      BY <1>9 DEF PassFaults
    <2>2. PICK pc \in {"idle", "release"} :
            \A q \in Job : pass'[q].pc = IF q = p THEN pc ELSE pass[q].pc
      <3>1. PassTo(p, "release", NewJourney) \/ PassTo(p, "idle", NewJourney)
        BY <1>9 DEF PassFaults
      <3> QED BY <3>1, Moved
    <2> QED BY <1>1, <2>1, <2>2 DEF ClaimInv, Holders
  <1> QED BY <1>2, <1>3, <1>4, <1>5, <1>6, <1>7, <1>8, <1>9 DEF JobStep

LEMMA ClaimNext == RentInv /\ ClaimInv /\ [Next]_vars => ClaimInv'
  <1> SUFFICES ASSUME RentInv, ClaimInv, [Next]_vars PROVE ClaimInv'
    OBVIOUS
  <1>1. journey.sent \subseteq journey'.sent
    BY SentGrows
  <1>2. CASE NextDay \/ UNCHANGED vars
    <2>1. UNCHANGED <<journey, pass, autos, clobbered, faults>> /\ faults \in Nat
      BY <1>2, TypeFacts DEF NextDay, vars
    <2> QED BY <1>1, <2>1, ClaimBeside
  <1> QED BY <1>1, <1>2, ClaimByStaff, ClaimByCustomer, ClaimByJob DEF Next

\* While nobody else writes the claim, one run of the job at a time holds it, and the
\* reminders it has sent are one more than the faults at most, the one on record or on its
\* way to be recorded.
THEOREM ClaimInvHolds == Spec => []ClaimInv
  <1>1. Init => ClaimInv
    BY DEF Init, ClaimInv, Holders, NoPass
  <1> QED BY <1>1, ClaimNext, RentInvHolds, PTL DEF Spec

\* However many runs of the job overlap, one return reminder leaves, and one more for each
\* fault, as long as no write of a whole dynamicData changes the claim.
THEOREM OneReminderCorrect == Spec => []OneReminder
  <1>1. ClaimInv => OneReminder
    BY DEF ClaimInv, OneReminder
  <1> QED BY <1>1, ClaimInvHolds, PTL

-----------------------------------------------------------------------------
(* What the page offers and what the service accepts.                       *)

LEMMA ConsistentStays ==
  ASSUME NEW d, NEW sent, NEW more, sent \subseteq more, Consistent(d, sent)
  PROVE  Consistent(d, more)
  BY DEF Consistent

LEMMA DueConsistent ==
  ASSUME NEW d \in Data, NEW sent, Consistent(d, sent)
  PROVE  Consistent(applyRentReturnDueFields(d), sent)
  BY DEF applyRentReturnDueFields, Consistent, Data

\* The form of a quote always names a mode.
LEMMA FilledConsistent ==
  ASSUME NEW d \in Data, NEW sent, Consistent(d, sent), NEW form \in Form, NEW step,
         step = "rent-agreement" => form.mode # "none"
  PROVE  Consistent(Filled(d, step, form), sent)
  <1>1. CASE step = "rent-agreement"
    BY <1>1 DEF Filled, Consistent, Data
  <1>2. CASE step # "rent-agreement"
    <2>1. Filled(d, step, form) \in {d, [d EXCEPT !.due = form.day]}
      BY <1>2 DEF Filled
    <2>2. Consistent([d EXCEPT !.due = form.day], sent)
      BY DEF Consistent, Data
    <2> QED BY <2>1, <2>2
  <1> QED BY <1>1, <1>2

LEMMA SentConsistent ==
  ASSUME NEW d \in Data, NEW sent, Consistent(d, sent), NEW form \in Form, NEW step,
         step = "rent-agreement" => form.mode # "none"
  PROVE  Consistent(SentData(d, step, form), sent)
  <1> DEFINE e == Filled(d, step, form)
             g == NextGeneration(d, step)
  <1>1. e \in Data /\ Consistent(e, sent) /\ g \in Nat
    BY FilledFacts, FilledConsistent, NextGenerationType
  <1>2. SentData(d, step, form) \in
          {[d EXCEPT !.ackGen = g], applyRentReturnDueFields([e EXCEPT !.gen = g]),
           applyRentReturnDueFields(e)}
    BY DEF SentData
  <1> HIDE DEF e, g
  <1>3. Consistent([d EXCEPT !.ackGen = g], sent)
    BY DEF Consistent, Data
  <1>4. [e EXCEPT !.gen = g] \in Data /\ Consistent([e EXCEPT !.gen = g], sent)
    <2>1. [e EXCEPT !.gen = g] \in Data
      BY <1>1, GenerationType
    <2> QED BY <1>1, <2>1 DEF Consistent, Data
  <1>5. Consistent(applyRentReturnDueFields([e EXCEPT !.gen = g]), sent)
    BY <1>4, DueConsistent
  <1>6. Consistent(applyRentReturnDueFields(e), sent)
    BY <1>1, DueConsistent
  <1> QED BY <1>2, <1>3, <1>5, <1>6

LEMMA ResentConsistent ==
  ASSUME NEW j \in Journey, Consistent(j.data, j.sent), NEW seen \in Journey, NEW form \in Form,
         NEW step, step = "rent-agreement" => form.mode # "none"
  PROVE  Consistent(Resent(j, seen, step, form).data, j.sent)
  <1> DEFINE e == Filled(j.data, step, form)
             w == Resent(j, seen, step, form)
  <1>1. j.data \in Data
    BY DEF Journey
  <1>2. e \in Data /\ Consistent(e, j.sent)
    BY <1>1, FilledFacts, FilledConsistent
  <1>3. CASE step \notin j.sent
    BY <1>3 DEF Resent
  <1>4. CASE step \in j.sent /\ step = "rent-request"
    <2>1. ~w.data.ack /\ w.data.pending = e.pending
      <3>1. w = [j EXCEPT !.current = "rent-request",
                          !.data = [e EXCEPT !.ackGen = NextGeneration(seen.data, step),
                            !.ack = FALSE, !.ackOf = Unset, !.ackDeclined = FALSE,
                            !.ackDeclinedOf = Unset, !.mode = "none", !.end = Unset]]
        BY <1>4 DEF Resent
      <3> HIDE DEF e, w
      <3> QED BY <1>2, <3>1 DEF Journey, Data
    <2> HIDE DEF e, w
    <2> QED BY <1>2, <2>1 DEF Consistent, w
  <1>5. CASE step \in j.sent /\ step = "rent-agreement"
    <2>1. PICK f : w = [j EXCEPT !.current = "rent-agreement",
                        !.data = [e EXCEPT !.gen = NextGeneration(seen.data, step),
                          !.signed = FALSE, !.signedOf = Unset, !.declined = FALSE,
                          !.declinedOf = Unset, !.pending = FALSE, !.final = f]]
      BY <1>5 DEF Resent
    <2>2. /\ w.data.ack = e.ack /\ w.data.ackDeclined = e.ackDeclined
          /\ w.data.mode = e.mode /\ ~w.data.pending
      <3> HIDE DEF e, w
      <3> QED BY <1>2, <2>1 DEF Journey, Data
    <2> HIDE DEF e, w
    <2> QED BY <1>2, <2>2 DEF Consistent, w
  <1>6. CASE step \in j.sent /\ step \notin {"rent-request", "rent-agreement"}
    <2>1. w = [j EXCEPT !.data = e]
      BY <1>6 DEF Resent
    <2>2. w.data = e
      <3> HIDE DEF e, w
      <3> QED BY <2>1 DEF Journey
    <2> QED BY <1>2, <2>2
  <1> QED BY <1>3, <1>4, <1>5, <1>6

LEMMA EditedConsistent ==
  ASSUME NEW j \in Journey, NEW r, r.seen \in Journey, r.form \in Form,
         NEW sent, Consistent(r.seen.data, sent)
  PROVE  Consistent(Edited(j, r).data, sent)
  <1> DEFINE due == IF r.form.day # Unset THEN r.form.day ELSE r.seen.data.due
             d == [r.seen.data EXCEPT !.due = due]
  <1>1. r.seen.data \in Data /\ due \in Nat /\ r.seen.data.mode \in Mode
    BY DEF Journey, Data, Form
  <1>2. d \in Data /\ Consistent(d, sent)
    <2> HIDE DEF due
    <2>1. d \in Data
      BY <1>1, DateType
    <2> QED BY <1>1, <2>1 DEF Consistent, Data
  <1>3. Edited(j, r).data = applyRentReturnDueFields(d)
    BY DEF Edited, Journey
  <1> HIDE DEF d
  <1> QED BY <1>2, <1>3, DueConsistent

LEMMA DeclinedConsistent ==
  ASSUME NEW j \in Journey, Consistent(j.data, j.sent), NEW r, r.seen \in Journey
  PROVE  Consistent(RequestDeclined(j, r).data, j.sent)
  <1> DEFINE w == RequestDeclined(j, r)
  <1>1. ~w.data.ack /\ w.data.pending = j.data.pending
    BY DEF RequestDeclined, Journey, Data
  <1> HIDE DEF w
  <1> QED BY <1>1 DEF Consistent, w

LEMMA ResumedConsistent ==
  ASSUME NEW j \in Journey, NEW r, r.seen \in Journey,
         NEW sent, Consistent(r.seen.data, sent), "rent-agreement" \in sent
  PROVE  Consistent(Resumed(j, r).data, sent)
  <1> DEFINE w == Resumed(j, r)
             d == r.seen.data
  <1>1. d \in Data
    BY DEF Journey
  <1>2. w.data.ack = d.ack /\ w.data.ackDeclined = d.ackDeclined /\ w.data.mode = d.mode
    BY <1>1 DEF Resumed, Journey, Data
  <1> HIDE DEF w
  <1> QED BY <1>2 DEF Consistent, w

LEMMA WriteConsistent ==
  ASSUME NEW j \in Journey, Consistent(j.data, j.sent),
         NEW r, r.seen \in Journey, r.form \in Form, ConsoleRequest(r, j.sent),
         r.op \in {"send", "resend", "edit", "cancel", "decline", "resume"}
  PROVE  Consistent(Write(j, r).data, j.sent)
  <1>1. Consistent(r.seen.data, j.sent) /\ r.seen.data \in Data
    BY DEF ConsoleRequest, Journey
  <1>2. CASE r.op = "send"
    <2>1. Write(j, r).data = SentData(r.seen.data, r.step, r.form)
      BY <1>2 DEF Write, Sent, Journey
    <2>2. r.step = "rent-agreement" => r.form.mode # "none"
      BY <1>2 DEF ConsoleRequest
    <2> QED BY <1>1, <2>1, <2>2, SentConsistent
  <1>3. CASE r.op = "resend"
    <2>1. Write(j, r) = Resent(j, r.seen, r.step, r.form)
      BY <1>3 DEF Write
    <2>2. r.step = "rent-agreement" => r.form.mode # "none"
      BY <1>3 DEF ConsoleRequest
    <2> QED BY <2>1, <2>2, ResentConsistent
  <1>4. CASE r.op = "edit"
    <2>1. Write(j, r) = Edited(j, r)
      BY <1>4 DEF Write
    <2> QED BY <1>1, <2>1, EditedConsistent
  <1>5. CASE r.op = "cancel"
    BY <1>5 DEF Write, Journey
  <1>6. CASE r.op = "decline"
    <2>1. Write(j, r) = RequestDeclined(j, r)
      BY <1>6 DEF Write
    <2> QED BY <2>1, DeclinedConsistent
  <1>7. CASE r.op = "resume"
    <2>1. Write(j, r) = Resumed(j, r)
      BY <1>7 DEF Write
    <2>2. "rent-agreement" \in j.sent
      BY <1>7 DEF ConsoleRequest
    <2> QED BY <1>1, <2>1, <2>2, ResumedConsistent
  <1> QED BY <1>2, <1>3, <1>4, <1>5, <1>6, <1>7

LEMMA AnsweredConsistent ==
  ASSUME NEW j \in Journey, NEW k, k.seen \in Data, k.form \in Form, ConsoleClick(k, j.sent),
         k.answer \in {"confirm", "refuse", "sign", "decline"}
  PROVE  Consistent(Answered(j, k).data, j.sent)
  <1> DEFINE w == Answered(j, k)
             d == k.seen
  <1>1. Consistent(d, j.sent) /\ d \in Data
    BY DEF ConsoleClick
  <1>2. CASE k.answer = "confirm"
    <2> DEFINE e == [d EXCEPT !.ack = TRUE, !.ackOf = d.ackGen, !.ackDeclined = FALSE,
                              !.mode = k.form.mode, !.end = k.form.day]
    <2>1. e.ack /\ ~e.ackDeclined /\ e.mode = k.form.mode /\ e.pending = d.pending
      BY <1>1 DEF Data
    <2>2. w.data = [e EXCEPT !.iso = resolveRentReturnDueRaw(e)]
      BY <1>2 DEF Answered, applyRentReturnDueFields, Journey
    <2>3. /\ w.data.ack = e.ack /\ w.data.ackDeclined = e.ackDeclined
          /\ w.data.mode = e.mode /\ w.data.pending = e.pending
      <3>1. {"ack", "ackDeclined", "mode", "pending"} \subseteq DOMAIN e
        BY <1>1 DEF Data
      <3> HIDE DEF e, w
      <3> QED BY <2>2, <3>1
    <2>4. k.form.mode # "none"
      BY <1>2 DEF ConsoleClick
    <2> HIDE DEF e, w
    <2> QED BY <1>1, <2>1, <2>3, <2>4 DEF Consistent, w
  <1>3. CASE k.answer = "refuse"
    <2>1. ~w.data.ack /\ w.data.pending = d.pending
      BY <1>1, <1>3 DEF Answered, Journey, Data
    <2> HIDE DEF w
    <2> QED BY <1>1, <2>1 DEF Consistent, w
  <1>4. CASE k.answer = "sign"
    <2>1. /\ w.data.ack = d.ack /\ w.data.ackDeclined = d.ackDeclined
          /\ w.data.mode = d.mode /\ w.data.pending = d.pending
      BY <1>1, <1>4 DEF Answered, Journey, Data
    <2> HIDE DEF w
    <2> QED BY <1>1, <2>1 DEF Consistent, w
  <1>5. CASE k.answer = "decline"
    <2>1. /\ w.data.ack = d.ack /\ w.data.ackDeclined = d.ackDeclined
          /\ w.data.mode = d.mode /\ (w.data.pending => d.pending)
      BY <1>1, <1>5 DEF Answered, QuoteDeclined, Journey, Data
    <2> HIDE DEF w
    <2> QED BY <1>1, <2>1 DEF Consistent, w
  <1> QED BY <1>2, <1>3, <1>4, <1>5

LEMMA KeptConsistent ==
  ASSUME NEW j \in Journey, NEW op, NEW sent, Consistent(j.data, sent)
  PROVE  Consistent(Kept(op, j).data, sent)
  <1> DEFINE d == Kept(op, j).data
  <1>1. d = j.data \/ (~d.ack /\ ~d.pending)
    <2>1. CASE op = "send"
      BY <2>1 DEF Kept, NewJourney
    <2>2. CASE op = "resend"
      BY <2>2 DEF Kept, NewJourney, NewData
    <2>3. CASE op \in {"edit", "resume"}
      BY <2>3 DEF Kept, NewJourney
    <2>4. CASE op = "decline"
      BY <2>4 DEF Kept, NewJourney, NewData
    <2>5. CASE op \notin {"send", "resend", "edit", "resume", "decline"}
      BY <2>5 DEF Kept, NewJourney, NewData
    <2> QED BY <2>1, <2>2, <2>3, <2>4, <2>5
  <1> HIDE DEF d
  <1> QED BY <1>1 DEF Consistent, d

LEMMA IdleConsistent ==
  ASSUME NEW sent
  PROVE  /\ Consistent(NewData, sent) /\ Consistent(NewJourney.data, sent)
         /\ ConsoleRequest(NoRequest, sent) /\ ConsoleClick(NoClick, sent)
  <1>1. Consistent(NewData, sent) /\ NewJourney.data = NewData
    BY NewJourneyType DEF Consistent, NewData
  <1>2. ConsoleRequest(NoRequest, sent)
    BY <1>1 DEF ConsoleRequest, NoRequest
  <1>3. ConsoleClick(NoClick, sent)
    BY <1>1 DEF ConsoleClick, NoClick
  <1> QED BY <1>1, <1>2, <1>3

\* A step that leaves everything it alters consistent keeps the invariant.
LEMMA ConsoleClosing ==
  ASSUME ConsoleInv, journey.sent \subseteq journey'.sent,
         Consistent(journey'.data, journey.sent),
         \A s \in Staff : request'[s] = request[s] \/ ConsoleRequest(request'[s], journey.sent),
         \A c \in Customer : click'[c] = click[c] \/ ConsoleClick(click'[c], journey.sent),
         \A p \in Job : pass'[p] = pass[p] \/ Consistent(pass'[p].seen.data, journey.sent)
  PROVE  ConsoleInv'
  <1>1. Consistent(journey'.data, journey'.sent)
    BY ConsistentStays
  <1>2. ASSUME NEW s \in Staff PROVE ConsoleRequest(request'[s], journey'.sent)
    <2>1. ConsoleRequest(request'[s], journey.sent)
      BY DEF ConsoleInv
    <2> QED BY <2>1 DEF ConsoleRequest, Consistent
  <1>3. ASSUME NEW c \in Customer PROVE ConsoleClick(click'[c], journey'.sent)
    <2>1. ConsoleClick(click'[c], journey.sent)
      BY DEF ConsoleInv
    <2> QED BY <2>1 DEF ConsoleClick, Consistent
  <1>4. ASSUME NEW p \in Job PROVE Consistent(pass'[p].seen.data, journey'.sent)
    <2>1. Consistent(pass'[p].seen.data, journey.sent)
      BY DEF ConsoleInv
    <2> QED BY <2>1, ConsistentStays
  <1> QED BY <1>1, <1>2, <1>3, <1>4 DEF ConsoleInv

LEMMA BeginConsistent ==
  ASSUME RentInv, ConsoleInv, NEW s \in Staff, NEW op, NEW step, NEW form, NEW pc,
         Begin(s, op, step, form, pc),
         op \in {"send", "resend"} /\ step = "rent-agreement" => form.mode # "none",
         op = "resume" => "rent-agreement" \in journey.completed
  PROVE  ConsoleInv'
  <1> DEFINE r == [pc |-> pc, op |-> op, step |-> step, form |-> form, seen |-> Kept(op, journey)]
  <1>1. request' = [request EXCEPT ![s] = r] /\ UNCHANGED <<journey, click, pass>>
    BY DEF Begin
  <1>2. Consistent(Kept(op, journey).data, journey.sent)
    BY TypeFacts, KeptConsistent DEF ConsoleInv
  <1>3. ConsoleRequest(r, journey.sent)
    BY <1>2, TypeFacts DEF ConsoleRequest, JourneyInv
  <1> HIDE DEF r
  <1>4. \A t \in Staff : request'[t] = request[t] \/ request'[t] = r
    BY <1>1, TypeFacts
  <1>5. Consistent(journey'.data, journey.sent) /\ journey.sent \subseteq journey'.sent
    BY <1>1 DEF ConsoleInv
  <1> QED BY <1>1, <1>3, <1>4, <1>5, ConsoleClosing

LEMMA ConsoleByStaff ==
  ASSUME RentInv, ConsoleInv, journey.sent \subseteq journey'.sent, NEW s \in Staff, StaffStep(s)
  PROVE  ConsoleInv'
  <1> DEFINE r == request[s]
  <1>1. r \in RequestType /\ ConsoleRequest(r, journey.sent) /\ RequestInv(r, journey, pressed, mails)
    BY TypeFacts DEF ConsoleInv, RentInv
  <1>2. \A form \in Forms("rent-agreement") : form.mode # "none"
    BY ConstantAssumption DEF Forms
  <1>3. ASSUME NEW step \in Steps, ReadSend(s, step) PROVE ConsoleInv'
    <2>1. PICK form \in Forms(step) : Begin(s, "send", step, form, "send")
      BY <1>3 DEF ReadSend
    <2> QED BY <1>2, <2>1, BeginConsistent
  <1>4. ASSUME NEW step \in Resends, ReadResend(s, step) PROVE ConsoleInv'
    <2>1. PICK form \in Forms(step), choice \in FinalChoices(journey.data) :
            Begin(s, "resend", step,
                  [form EXCEPT !.final = IF step = "rent-agreement" THEN choice ELSE @], "send")
      BY <1>4 DEF ReadResend
    <2> DEFINE filled == [form EXCEPT !.final = IF step = "rent-agreement" THEN choice ELSE @]
    <2>2. filled.mode = form.mode
      <3>1. form \in Form
        BY FormFacts
      <3> QED BY <3>1 DEF Form
    <2>3. Begin(s, "resend", step, filled, "send")
      BY <2>1
    <2> HIDE DEF filled
    <2> QED BY <1>2, <2>2, <2>3, BeginConsistent
  <1>5. CASE ReadEdit(s)
    <2>1. PICK day : Begin(s, "edit", "none", [NoForm EXCEPT !.day = day], "write")
      BY <1>5 DEF ReadEdit
    <2> QED BY <2>1, BeginConsistent
  <1>6. CASE ReadCancel(s) \/ ReadDecline(s)
    BY <1>6, BeginConsistent DEF ReadCancel, ReadDecline
  <1>7. CASE ReadResume(s)
    BY <1>7, BeginConsistent DEF ReadResume
  <1>8. CASE SendEmail(s)
    <2> DEFINE w == [r EXCEPT !.pc = "write"]
    <2>1. request' = [request EXCEPT ![s] = w] /\ UNCHANGED <<journey, click, pass>>
      BY <1>8, TypeFacts DEF SendEmail
    <2>2. ConsoleRequest(w, journey.sent)
      BY <1>1 DEF ConsoleRequest, RequestType
    <2> HIDE DEF w, r
    <2>3. \A t \in Staff : request'[t] = request[t] \/ request'[t] = w
      BY <2>1, TypeFacts
    <2>4. Consistent(journey'.data, journey.sent)
      BY <2>1 DEF ConsoleInv
    <2> QED BY <2>1, <2>2, <2>3, <2>4, ConsoleClosing
  <1>9. CASE request' = [request EXCEPT ![s] = NoRequest] /\ UNCHANGED <<click, pass>>
             /\ Consistent(journey'.data, journey.sent)
    <2>1. \A t \in Staff : request'[t] = request[t] \/ request'[t] = NoRequest
      BY <1>9, TypeFacts
    <2> QED BY <1>9, <2>1, IdleConsistent, ConsoleClosing
  <1>10. CASE EmailFails(s) \/ WriteLost(s)
    <2>1. request' = [request EXCEPT ![s] = NoRequest] /\ UNCHANGED <<journey, click, pass>>
      BY <1>10 DEF EmailFails, WriteLost
    <2>2. Consistent(journey'.data, journey.sent)
      BY <2>1 DEF ConsoleInv
    <2> QED BY <1>9, <2>1, <2>2
  <1>11. CASE WriteJourney(s)
    <2>1. /\ request' = [request EXCEPT ![s] = NoRequest] /\ UNCHANGED <<click, pass>>
          /\ journey' = Write(journey, r) /\ r.pc = "write"
      BY <1>11 DEF WriteJourney
    <2>2. /\ r.seen \in Journey /\ r.form \in Form
          /\ r.op \in {"send", "resend", "edit", "cancel", "decline", "resume"}
      BY <1>1, <2>1 DEF RequestType, RequestInv
    <2> HIDE DEF r
    <2>3. Consistent(journey'.data, journey.sent)
      BY <1>1, <2>1, <2>2, TypeFacts, WriteConsistent DEF ConsoleInv
    <2> QED BY <1>9, <2>1, <2>3
  <1> QED BY <1>3, <1>4, <1>5, <1>6, <1>7, <1>8, <1>10, <1>11 DEF StaffStep

LEMMA ConsoleByCustomer ==
  ASSUME RentInv, ConsoleInv, journey.sent \subseteq journey'.sent,
         NEW c \in Customer, CustomerStep(c)
  PROVE  ConsoleInv'
  <1>1. ASSUME NEW answer, NEW gate, NEW mail, NEW form, Click(c, answer, gate, mail, form),
               answer = "confirm" => form.mode # "none"
        PROVE  ConsoleInv'
    <2> DEFINE k == [pc |-> "write", answer |-> answer, mail |-> mail, form |-> form,
                     seen |-> journey.data]
    <2>1. click' = [click EXCEPT ![c] = k] /\ UNCHANGED <<journey, request, pass>>
      BY <1>1 DEF Click
    <2>2. ConsoleClick(k, journey.sent)
      BY <1>1 DEF ConsoleClick, ConsoleInv
    <2> HIDE DEF k
    <2>3. \A d \in Customer : click'[d] = click[d] \/ click'[d] = k
      BY <2>1, TypeFacts
    <2>4. Consistent(journey'.data, journey.sent)
      BY <2>1 DEF ConsoleInv
    <2> QED BY <2>1, <2>2, <2>3, <2>4, ConsoleClosing
  <1>2. ASSUME NEW mail, ReadConfirm(c, mail) PROVE ConsoleInv'
    <2>1. PICK mode \in Modes, day \in Days :
            Click(c, "confirm", "rent-request", mail,
                  [mode |-> mode, day |-> day, final |-> "as is"])
      BY <1>2 DEF ReadConfirm
    <2>2. mode # "none"
      BY ConstantAssumption
    <2> QED BY <1>1, <2>1, <2>2
  <1>3. ASSUME NEW mail, ReadRefuse(c, mail) \/ ReadSign(c, mail) \/ ReadQuoteDecline(c, mail)
        PROVE  ConsoleInv'
    BY <1>1, <1>3 DEF ReadRefuse, ReadSign, ReadQuoteDecline
  <1>4. CASE WriteAnswer(c)
    <2> DEFINE k == click[c]
    <2>1. /\ k \in ClickType /\ k.pc = "write" /\ journey' = Answered(journey, k)
          /\ click' = [click EXCEPT ![c] = NoClick] /\ UNCHANGED <<request, pass>>
          /\ ClickInv(k, pressed, mails) /\ ConsoleClick(k, journey.sent)
      BY <1>4, TypeFacts DEF WriteAnswer, RentInv, ConsoleInv
    <2>2. k.seen \in Data /\ k.form \in Form /\ k.answer \in {"confirm", "refuse", "sign", "decline"}
      BY <2>1 DEF ClickType, ClickInv
    <2> HIDE DEF k
    <2>3. Consistent(journey'.data, journey.sent)
      BY <2>1, <2>2, TypeFacts, AnsweredConsistent
    <2>4. \A d \in Customer : click'[d] = click[d] \/ click'[d] = NoClick
      BY <2>1, TypeFacts
    <2> QED BY <2>1, <2>3, <2>4, IdleConsistent, ConsoleClosing
  <1> QED BY <1>2, <1>3, <1>4 DEF CustomerStep, ReadAnswer

LEMMA ConsoleByJob ==
  ASSUME RentInv, ConsoleInv, journey.sent \subseteq journey'.sent, NEW p \in Job, JobStep(p)
  PROVE  ConsoleInv'
  <1>1. ASSUME NEW pc, NEW seen, PassTo(p, pc, seen), Consistent(seen.data, journey.sent),
               Consistent(journey'.data, journey.sent)
        PROVE  ConsoleInv'
    <2>1. UNCHANGED <<request, click>> /\ pass' = [pass EXCEPT ![p] = [pc |-> pc, seen |-> seen]]
      BY <1>1 DEF PassTo
    <2>2. \A q \in Job : pass'[q] = pass[q] \/ pass'[q].seen = seen
      BY <2>1, TypeFacts
    <2>3. \A q \in Job : pass'[q] = pass[q] \/ Consistent(pass'[q].seen.data, journey.sent)
      BY <1>1, <2>2
    <2> QED BY <1>1, <2>1, <2>3, ConsoleClosing
  <1>2. ASSUME NEW pc, PassTo(p, pc, NewJourney), Consistent(journey'.data, journey.sent)
        PROVE  ConsoleInv'
    BY <1>1, <1>2, IdleConsistent
  <1>3. Consistent(journey.data, journey.sent) /\ Consistent(pass[p].seen.data, journey.sent)
    BY DEF ConsoleInv
  <1>4. CASE PassFinds(p) \/ PassEmailFails(p) \/ PassFaults(p)
    <2>1. PICK pc : PassTo(p, pc, NewJourney) /\ UNCHANGED journey
      BY <1>4 DEF PassFinds, PassEmailFails, PassFaults
    <2> QED BY <1>2, <1>3, <2>1
  <1>5. CASE PassClaims(p) \/ PassReleases(p)
    <2>1. PICK pc : PassTo(p, pc, NewJourney)
      BY <1>5 DEF PassClaims, PassReleases
    <2>2. \/ UNCHANGED journey
          \/ journey' = [journey EXCEPT !.data.claim = TRUE]
          \/ journey' = [journey EXCEPT !.data.claim = FALSE]
      BY <1>5 DEF PassClaims, PassReleases
    <2>3. ASSUME NEW a \in BOOLEAN, journey' = [journey EXCEPT !.data.claim = a]
          PROVE  Consistent(journey'.data, journey.sent)
      <3>1. journey'.data = [journey.data EXCEPT !.claim = a]
        BY <2>3, TypeFacts DEF Journey
      <3> QED BY <1>3, <3>1, TypeFacts DEF Consistent, Data
    <2> QED BY <1>2, <1>3, <2>1, <2>2, <2>3
  <1>6. CASE PassReads(p)
    <2>1. UNCHANGED journey
      BY <1>6 DEF PassReads
    <2>2. \/ PassTo(p, "idle", NewJourney) \/ PassTo(p, "release", NewJourney)
          \/ PassTo(p, "send", Kept("send", journey))
      BY <1>6 DEF PassReads
    <2>3. Consistent(Kept("send", journey).data, journey.sent)
      BY <1>3, TypeFacts, KeptConsistent
    <2> QED BY <1>1, <1>2, <1>3, <2>1, <2>2, <2>3
  <1>7. CASE PassSends(p)
    BY <1>1, <1>3, <1>7 DEF PassSends
  <1>8. CASE PassWrites(p)
    <2>1. PassTo(p, "release", NewJourney) /\ journey' = Sent(journey, pass[p].seen, Reminder, NoForm)
      BY <1>8 DEF PassWrites
    <2>2. journey'.data = SentData(pass[p].seen.data, Reminder, NoForm)
      BY <2>1, TypeFacts DEF Sent, Journey
    <2>3. pass[p].seen.data \in Data /\ NoForm \in Form /\ Reminder # "rent-agreement"
      BY TypeFacts, NewJourneyType DEF PassType, Journey, Reminder
    <2>4. Consistent(journey'.data, journey.sent)
      BY <1>3, <2>2, <2>3, SentConsistent
    <2> QED BY <1>2, <2>1, <2>4
  <1> QED BY <1>4, <1>5, <1>6, <1>7, <1>8 DEF JobStep

LEMMA ConsoleNext == RentInv /\ ConsoleInv /\ [Next]_vars => ConsoleInv'
  <1> SUFFICES ASSUME RentInv, ConsoleInv, [Next]_vars PROVE ConsoleInv'
    OBVIOUS
  <1>1. journey.sent \subseteq journey'.sent
    BY SentGrows
  <1>2. CASE NextDay \/ UNCHANGED vars
    BY <1>2 DEF NextDay, vars, ConsoleInv
  <1> QED BY <1>1, <1>2, ConsoleByStaff, ConsoleByCustomer, ConsoleByJob DEF Next

\* Whatever copies are written back, no journey is confirmed without a mode, or confirmed
\* and refused at once, and none waits for a final offer whose quote was never sent.
THEOREM ConsoleInvHolds == Spec => []ConsoleInv
  <1>1. Init => ConsoleInv
    BY IdleConsistent DEF Init, ConsoleInv, NoPass
  <1> QED BY <1>1, ConsoleNext, RentInvHolds, PTL DEF Spec

\* While the request is confirmed, what the staff's page offers to send the service accepts.
THEOREM ConsoleSendsCorrect == Spec => []ConsoleSendsAccepted
  <1>1. ASSUME RentInv, ConsoleInv, journey.data.ack, NEW step \in Workflow,
               OffersSend(journey, step)
        PROVE  MaySend(journey, step)
    <2>1. /\ step \in Open(journey.completed, journey.data) /\ journey.status = "active"
          /\ ~rentAgreementDeclinedPendingResend(journey.data)
          /\ Before(step) \cap Open(journey.completed, journey.data) = {}
          /\ Unblocked(journey, step)
      BY <1>1 DEF OffersSend, resolveRentNextStep
    <2>2. sendNext(journey, step)
      BY <2>1 DEF sendNext, InTurn, Open
    <2>3. /\ step = "rent-ready-pickup" => journey.data.mode = "pickup"
          /\ step = "rent-dispatched" => journey.data.mode = "delivery"
      <3>1. journey.data.mode \in {"pickup", "delivery"}
        BY <1>1, TypeFacts DEF ConsoleInv, Consistent, Data, Mode
      <3> QED BY <2>1, <3>1 DEF Open, getApplicableSteps
    <2> QED BY <2>1, <2>2, <2>3 DEF MaySend, assertStepPreconditions, Unblocked
  <1>2. RentInv /\ ConsoleInv => ConsoleSendsAccepted
    BY <1>1 DEF ConsoleSendsAccepted
  <1> QED BY <1>2, RentInvHolds, ConsoleInvHolds, PTL

\* What the page asks to resend after a decline, or once the final offer was reopened, the
\* service accepts while the other answer stands.
THEOREM ConsoleResendsCorrect == Spec => []ConsoleResendsAccepted
  <1>1. ASSUME RentInv, OffersRequestResend(journey),
               ~rentAgreementDeclinedPendingResend(journey.data)
        PROVE  MayResend(journey, "rent-request")
    BY <1>1, TypeFacts
       DEF MayResend, assertStepPreconditions, OffersRequestResend, JourneyInv
  <1>2. ASSUME RentInv, ConsoleInv, OffersQuoteResend(journey), journey.data.ack
        PROVE  MayResend(journey, "rent-agreement")
    <2>1. "rent-agreement" \in journey.sent
      BY <1>2, TypeFacts DEF OffersQuoteResend, JourneyInv, ConsoleInv, Consistent
    <2>2. ~journey.data.ackDeclined
      BY <1>2 DEF ConsoleInv, Consistent
    <2> QED BY <1>2, <2>1, <2>2 DEF MayResend, assertStepPreconditions
  <1>3. RentInv /\ ConsoleInv => ConsoleResendsAccepted
    BY <1>1, <1>2 DEF ConsoleResendsAccepted
  <1> QED BY <1>3, RentInvHolds, ConsoleInvHolds, PTL
=============================================================================
