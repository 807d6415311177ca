-------------------------- MODULE SellRounds_proofs --------------------------
(***************************************************************************)
(* What the rounds of the two questions of a sell request are good for: an  *)
(* answer is taken for the round it was given in, by any number of requests *)
(* and clicks; with one staff request at a time only the links of the last  *)
(* email work, no pickup email leaves unasked for, and the staff's page     *)
(* offers what the service accepts.                                         *)
(***************************************************************************)
EXTENDS SellPayment_proofs

Asks      == mails["request-received"]
Confirmed == PressedGenerations("request-received")

-----------------------------------------------------------------------------
(* What each write leaves in the fields of the document.                    *)

LEMMA SentFields ==
  ASSUME NEW j \in Journey, NEW r, r.seen \in Journey
  PROVE  LET done == r.seen.completed \cup {r.step} IN
         /\ Sent(j, r).data = j.data
         /\ Sent(j, r).sent = j.sent \cup {r.step}
         /\ Sent(j, r).completed = done
         /\ Sent(j, r).status \in {"completed", "active"}
         /\ Sent(j, r).current =
              IF r.step = "offer-ready" \/ Workflow \subseteq done THEN r.step ELSE NextStep(done)
         /\ Sent(j, r).ackGen =
              IF r.step = "request-received" THEN NextGeneration(r.seen, r.step) ELSE j.ackGen
         /\ Sent(j, r).offerGen =
              IF r.step = "offer-ready" THEN NextGeneration(r.seen, r.step) ELSE j.offerGen
  BY DEF Sent, Journey

LEMMA ResentOffer ==
  ASSUME NEW j \in Journey, NEW r, r.seen \in Journey,
         r.step \in j.sent, r.step = "offer-ready"
  PROVE  LET w == Resent(j, r) IN
         /\ w.offerGen = NextGeneration(r.seen, r.step) /\ w.ackGen = j.ackGen
         /\ w.status = "active" /\ w.current = "offer-ready"
         /\ w.completed = j.completed /\ w.sent = j.sent
         /\ ~w.data.accepted
         /\ w.data.ack = j.data.ack /\ w.data.ackOf = j.data.ackOf
         /\ w.data.declined = j.data.declined
  <1>1. j.data \in Data
    BY DataFacts
  <1> QED BY <1>1 DEF Resent, Journey, Data

LEMMA ResentRequest ==
  ASSUME NEW j \in Journey, NEW r, r.seen \in Journey,
         r.step \in j.sent, r.step = "request-received"
  PROVE  LET w == Resent(j, r) IN
         /\ w.offerGen = j.offerGen /\ w.ackGen = NextGeneration(r.seen, r.step)
         /\ w.status = "active" /\ w.current = "request-received"
         /\ w.completed = j.completed /\ w.sent = j.sent
         /\ ~w.data.ack
         /\ w.data.accepted = j.data.accepted /\ w.data.acceptedOf = j.data.acceptedOf
  <1>1. j.data \in Data
    BY DataFacts
  <1> QED BY <1>1 DEF Resent, Journey, Data

LEMMA ResentOther ==
  ASSUME NEW j, NEW r, ~(r.step \in j.sent /\ r.step \in Gate)
  PROVE  Resent(j, r) = j
  BY DEF Resent, Gate

LEMMA ReshippedFields ==
  ASSUME NEW j \in Journey, NEW r, r.seen \in Journey
  PROVE  LET w == Reshipped(j, r) IN
         /\ w.offerGen = j.offerGen /\ w.ackGen = j.ackGen
         /\ w.status = "completed" /\ w.current = "device-reship"
         /\ w.completed = (r.seen.sent \cap Workflow) \cup {"device-reship"}
         /\ w.sent = j.sent \cup {"device-reship"}
         /\ w.data.ack = r.seen.data.ack /\ w.data.ackOf = r.seen.data.ackOf
         /\ w.data.declined = r.seen.data.declined
  <1>1. r.seen.data \in Data
    BY DataFacts
  <1> QED BY <1>1 DEF Reshipped, Journey, Data

LEMMA OfferDeclinedFields ==
  ASSUME NEW j \in Journey
  PROVE  LET w == OfferDeclined(j) IN
         /\ w.offerGen = j.offerGen /\ w.ackGen = j.ackGen
         /\ w.status = "offer_declined" /\ w.current = "offer-ready"
         /\ w.completed = j.completed /\ w.sent = j.sent
         /\ w.data.ack = j.data.ack /\ w.data.ackOf = j.data.ackOf
         /\ w.data.declined = j.data.declined
  <1>1. j.data \in Data
    BY DataFacts
  <1> QED BY <1>1 DEF OfferDeclined, Journey, Data

\* What an answer leaves.
LEMMA AnsweredFields ==
  ASSUME NEW j \in Journey, NEW k, k.answer \in Answer
  PROVE  LET w == Answered(j, k) IN
         /\ w.offerGen = j.offerGen /\ w.ackGen = j.ackGen
         /\ w.completed = j.completed /\ w.sent = j.sent
         /\ k.answer = "accept offer" => w.status = "active" /\ w.current = "payment-sent"
         /\ k.answer = "decline offer" => w.status = "offer_declined" /\ w.current = "offer-ready"
         /\ k.answer = "accept request" =>
              /\ w.status = "active" /\ w.current = j.current
              /\ w.data.ackOf = k.gen /\ ~w.data.declined
         /\ k.answer = "decline request" =>
              w.status = "request_declined" /\ w.current = "request-received" /\ ~w.data.ack
         /\ k.answer \in {"accept offer", "decline offer"} =>
              /\ w.data.ack = j.data.ack /\ w.data.ackOf = j.data.ackOf
              /\ w.data.declined = j.data.declined
  <1>1. j.data \in Data
    BY DataFacts
  <1>2. CASE k.answer = "accept offer"
    BY <1>1, <1>2 DEF Answered, Journey, Data
  <1>3. CASE k.answer = "decline offer"
    BY <1>1, <1>3 DEF Answered, OfferDeclined, Journey, Data
  <1>4. CASE k.answer = "accept request"
    BY <1>1, <1>4 DEF Answered, Journey, Data
  <1>5. CASE k.answer = "decline request"
    BY <1>1, <1>5 DEF Answered, Journey, Data
  <1> QED BY <1>2, <1>3, <1>4, <1>5 DEF Answer

-----------------------------------------------------------------------------
(* The answers to the request, for any number of requests and clicks.       *)

LEMMA AskedFacts ==
  ASSUME OrderInv, PaymentInv, RequestInv
  PROVE  /\ journey \in Journey /\ journey.data \in Data
         /\ journey.ackGen \in Int /\ journey.ackGen >= 0
         /\ journey.offerGen \in Int /\ journey.offerGen >= 0
         /\ journey.ackGen > 0 <=> "request-received" \in journey.sent
         /\ journey.offerGen > 0 <=> "offer-ready" \in journey.sent
         /\ journey.completed \subseteq journey.sent
         /\ mails \in [Gate -> Seq(Generation)] /\ pressed \in [Gate -> SUBSET Nat]
         /\ NewJourney.ackGen = 0 /\ ~NewJourney.data.ack
  <1>1. NewJourney.ackGen = 0 /\ ~NewJourney.data.ack
    BY DEF NewJourney, NewData
  <1>2. journey \in Journey /\ mails \in [Gate -> Seq(Generation)] /\ pressed \in [Gate -> SUBSET Nat]
    BY DEF OrderInv, TypeOK
  <1> QED BY <1>1, <1>2, DataFacts, ReadFacts
          DEF Journey, Generation, RequestInv, AskedInv, OrderInv, StepsInOrder

LEMMA AsksGrow ==
  ASSUME OrderInv, [Next]_vars
  PROVE  /\ DOMAIN Asks \subseteq DOMAIN Asks'
         /\ \A i \in DOMAIN Asks : Asks'[i] = Asks[i]
         /\ Confirmed \subseteq Confirmed'
  <1> DEFINE Grows == /\ DOMAIN Asks \subseteq DOMAIN Asks'
                      /\ \A i \in DOMAIN Asks : Asks'[i] = Asks[i]
                      /\ Confirmed \subseteq Confirmed'
  <1>1. /\ mails \in [Gate -> Seq(Generation)] /\ pressed \in [Gate -> SUBSET Nat]
        /\ "request-received" \in Gate
    BY DEF OrderInv, TypeOK, Gate
  <1>2. ASSUME DOMAIN Asks \subseteq DOMAIN Asks',
               \A i \in DOMAIN Asks : Asks'[i] = Asks[i],
               pressed["request-received"] \subseteq pressed'["request-received"]
        PROVE  Grows
    BY <1>2 DEF Confirmed, Asks, PressedGenerations
  <1>3. ASSUME NEW s \in Staff, SendEmail(s) PROVE Grows
    <2>1. CASE request[s].step = "request-received"
      <3> DEFINE g == NextGeneration(request[s].seen, request[s].step)
      <3>1. Asks' = Append(Asks, g)
        BY <1>1, <1>3, <2>1 DEF SendEmail, Asks
      <3>2. Asks \in Seq(Generation)
        BY <1>1 DEF Asks
      <3> HIDE DEF g
      <3>3. DOMAIN Asks \subseteq DOMAIN Append(Asks, g)
            /\ \A i \in DOMAIN Asks : Append(Asks, g)[i] = Asks[i]
        BY <3>2
      <3> QED BY <1>2, <1>3, <3>1, <3>3 DEF SendEmail
    <2>2. CASE request[s].step # "request-received"
      BY <1>1, <1>2, <1>3, <2>2 DEF SendEmail, Asks
    <2> QED BY <2>1, <2>2
  <1>4. ASSUME UNCHANGED mails,
               UNCHANGED pressed \/ \E gate \in Gate, mail \in Nat : Press(gate, mail)
        PROVE  Grows
    <2>1. pressed["request-received"] \subseteq pressed'["request-received"]
      BY <1>1, <1>4 DEF Press
    <2> QED BY <1>2, <1>4, <2>1 DEF Asks
  <1>5. ASSUME NEW s \in Staff, StaffStep(s), ~SendEmail(s)
        PROVE  UNCHANGED <<mails, pressed>>
    BY <1>5 DEF StaffStep, ReadSend, ReadResend, ReadReship, ReadCancel, ReadDecline,
                ReadEdit, Begin, WriteJourney, EmailFails, WriteLost
  <1>6. ASSUME NEW c \in Customer, WriteAnswer(c)
        PROVE  /\ UNCHANGED mails
               /\ UNCHANGED pressed \/ \E gate \in Gate, mail \in Nat : Press(gate, mail)
    <2>1. click[c].mail \in Nat
      BY DEF OrderInv, TypeOK
    <2> QED BY <1>6, <2>1 DEF WriteAnswer, Gate
  <1>7. ASSUME NEW c \in Customer, CustomerStep(c), ~WriteAnswer(c)
        PROVE  UNCHANGED <<mails, pressed>>
    BY <1>7 DEF CustomerStep, ReadAnswer, ReadOfferAnswer, ReadRequestAccept, ReadRequestDecline, Click
  <1> QED BY <1>3, <1>4, <1>5, <1>6, <1>7 DEF Next, Remove, vars

\* A copy, a click and an acknowledgement that are left alone stay good.
LEMMA RequestSeenStays ==
  ASSUME OrderInv, RequestInv, [Next]_vars, NEW s \in Staff,
         request'[s].seen = request[s].seen,
         journey'.ackGen = 0 => journey.ackGen = 0
  PROVE  RequestSeenInv(request[s])'
  BY AsksGrow DEF RequestInv, RequestSeenInv, AcknowledgedInv, Confirmed

LEMMA RequestClickStays ==
  ASSUME OrderInv, RequestInv, [Next]_vars, NEW c \in Customer,
         click'[c] = click[c]
  PROVE  RequestClickInv(click[c])'
  BY AsksGrow DEF RequestInv, RequestClickInv, Asks

LEMMA AcknowledgedStays ==
  ASSUME OrderInv, RequestInv, [Next]_vars, journey'.data = journey.data
  PROVE  AcknowledgedInv(journey.data)'
  BY AsksGrow DEF RequestInv, AcknowledgedInv, Confirmed

LEMMA AskedStays ==
  ASSUME RequestInv, UNCHANGED <<journey, mails>>
  PROVE  AskedInv'
  BY DEF RequestInv, AskedInv

LEMMA BeginRequest ==
  ASSUME OrderInv, PaymentInv, RequestInv, [Next]_vars, NEW s \in Staff, NEW op \in Staffs,
         NEW step, NEW pc, Begin(s, op, step, pc)
  PROVE  RequestInv'
  <1> DEFINE r == [pc |-> pc, op |-> op, step |-> step, seen |-> Kept(op, journey)]
  <1>1. /\ r.seen.ackGen \in {0, journey.ackGen}
        /\ r.seen.data \in {NewJourney.data, journey.data}
    BY AskedFacts DEF Kept, NewJourney, Staffs
  <1>2. /\ r.seen.ackGen >= 0
        /\ journey.ackGen = 0 => r.seen.ackGen = 0
        /\ AcknowledgedInv(r.seen.data)
    BY <1>1, AskedFacts DEF RequestInv, AcknowledgedInv
  <1> HIDE DEF r
  <1>3. /\ request' = [request EXCEPT ![s] = r]
        /\ UNCHANGED <<journey, click, mails, pressed>>
    BY DEF Begin, r
  <1>4. RequestSeenInv(request[s])'
    <2>1. request'[s] = r
      BY <1>3 DEF OrderInv, TypeOK
    <2> QED BY <1>2, <1>3, <2>1 DEF RequestSeenInv, AcknowledgedInv, PressedGenerations
  <1>5. ASSUME NEW t \in Staff, t # s PROVE RequestSeenInv(request[t])'
    <2>1. request'[t] = request[t]
      BY <1>3, <1>5 DEF OrderInv, TypeOK
    <2> QED BY <1>3, <2>1, RequestSeenStays
  <1>6. ASSUME NEW c \in Customer PROVE RequestClickInv(click[c])'
    BY <1>3, RequestClickStays
  <1>7. AskedInv' /\ AcknowledgedInv(journey.data)'
    BY <1>3, AskedStays, AcknowledgedStays
  <1> QED BY <1>4, <1>5, <1>6, <1>7 DEF RequestInv

LEMMA ReadIsBegin ==
  ASSUME NEW s \in Staff,
         \/ \E step \in Steps : ReadSend(s, step)
         \/ \E step \in Resends : ReadResend(s, step)
         \/ ReadReship(s) \/ ReadCancel(s) \/ ReadDecline(s) \/ ReadEdit(s)
  PROVE  \E op \in Staffs : \E step, pc : Begin(s, op, step, pc)
  BY DEF ReadSend, ReadResend, ReadReship, ReadCancel, ReadDecline, ReadEdit, Staffs

LEMMA SendEmailRequest ==
  ASSUME OrderInv, PaymentInv, RequestInv, [Next]_vars, NEW s \in Staff, SendEmail(s)
  PROVE  RequestInv'
  <1>1. /\ request[s] \in [pc : {"idle", "send", "write"}, op : Ops \cup {"none"},
                           step : StepKey \cup {"none"}, seen : Journey]
        /\ mails \in [Gate -> Seq(Generation)]
    BY DEF OrderInv, TypeOK
  <1>2. \A t \in Staff : RequestSeenInv(request[t])'
    <2>1. request' = [request EXCEPT ![s] = [request[s] EXCEPT !.pc = "write"]]
      BY DEF SendEmail
    <2>2. ASSUME NEW t \in Staff PROVE request'[t].seen = request[t].seen
      <3>1. CASE t = s
        BY <1>1, <2>1, <3>1 DEF OrderInv, TypeOK
      <3>2. CASE t # s
        BY <2>1, <3>2 DEF OrderInv, TypeOK
      <3> QED BY <3>1, <3>2
    <2> QED BY <2>2, RequestSeenStays DEF SendEmail
  <1>3. ASSUME NEW c \in Customer PROVE RequestClickInv(click[c])'
    BY RequestClickStays DEF SendEmail
  <1>4. AskedInv'
    <2>1. CASE request[s].step # "request-received"
      <3>1. Asks' = Asks
        BY <1>1, <2>1 DEF SendEmail, Asks, Gate
      <3> QED BY <3>1 DEF SendEmail, RequestInv, AskedInv, Asks
    <2>2. CASE request[s].step = "request-received" /\ journey.ackGen = 0
      <3>1. request[s].seen.ackGen = 0
        BY <2>2 DEF RequestInv, RequestSeenInv
      <3>2. NextGeneration(request[s].seen, request[s].step) = 1
        BY <2>2, <3>1 DEF NextGeneration
      <3>3. Asks' = Append(Asks, 1) /\ Asks \in Seq(Generation)
        BY <1>1, <2>2, <3>2 DEF SendEmail, Asks, Gate
      <3>4. \A i \in DOMAIN Append(Asks, 1) : Append(Asks, 1)[i] = 1
        <4>1. \A i \in DOMAIN Asks : Asks[i] = 1
          BY <2>2 DEF RequestInv, AskedInv, Asks
        <4> QED BY <3>3, <4>1
      <3> QED BY <3>3, <3>4 DEF SendEmail, RequestInv, AskedInv, Asks
    <2>3. CASE journey.ackGen # 0
      BY <2>3 DEF SendEmail, RequestInv, AskedInv
    <2> QED BY <2>1, <2>2, <2>3
  <1>5. AcknowledgedInv(journey.data)'
    BY AcknowledgedStays DEF SendEmail
  <1> QED BY <1>2, <1>3, <1>4, <1>5 DEF RequestInv

LEMMA IdleSeen ==
  ASSUME OrderInv, RequestInv, NEW s \in Staff, request'[s] = NoRequest
  PROVE  RequestSeenInv(request[s])'
  <1>1. NoRequest.seen.ackGen = 0 /\ ~NoRequest.seen.data.ack /\ NoRequest.pc = "idle"
    BY DEF NoRequest, NewJourney, NewData
  <1> QED BY <1>1 DEF RequestSeenInv, AcknowledgedInv

LEMMA DropRequest ==
  ASSUME OrderInv, RequestInv, [Next]_vars, NEW s \in Staff, EmailFails(s) \/ WriteLost(s)
  PROVE  RequestInv'
  <1>1. /\ request' = [request EXCEPT ![s] = NoRequest]
        /\ UNCHANGED <<journey, click, mails>>
    BY DEF EmailFails, WriteLost
  <1>2. ASSUME NEW t \in Staff PROVE RequestSeenInv(request[t])'
    <2>1. request'[t] = IF t = s THEN NoRequest ELSE request[t]
      BY <1>1 DEF OrderInv, TypeOK
    <2>2. CASE t = s
      BY <2>1, <2>2, IdleSeen
    <2>3. CASE t # s
      BY <1>1, <2>1, <2>3, RequestSeenStays
    <2> QED BY <2>2, <2>3
  <1>3. ASSUME NEW c \in Customer PROVE RequestClickInv(click[c])'
    BY <1>1, RequestClickStays
  <1> QED BY <1>1, <1>2, <1>3, AskedStays, AcknowledgedStays DEF RequestInv

\* A write numbers a question when it records it, and an acknowledgement it writes is the
\* one in the document or the one in the copy.
LEMMA WriteRequest ==
  ASSUME NEW j \in Journey, NEW r, r.seen \in Journey, r.op \in Staffs,
         r.op = "send" => r.step \in Workflow,
         j.ackGen >= 0, r.seen.ackGen >= 0, r.seen.offerGen >= 0,
         j.ackGen > 0 <=> "request-received" \in j.sent,
         j.offerGen > 0 => "offer-ready" \in j.sent
  PROVE  /\ Write(j, r).ackGen >= 0
         /\ Write(j, r).ackGen > 0 <=> "request-received" \in Write(j, r).sent
         /\ Write(j, r).offerGen > 0 => "offer-ready" \in Write(j, r).sent
         /\ Write(j, r).ackGen = 0 => j.ackGen = 0
         /\ \/ ~Write(j, r).data.ack
            \/ \E d \in {j.data, r.seen.data} :
                 /\ Write(j, r).data.ack = d.ack /\ Write(j, r).data.ackOf = d.ackOf
                 /\ Write(j, r).data.declined = d.declined
  <1>1. /\ j.ackGen \in Int /\ r.seen.ackGen \in Int
        /\ j.data \in Data /\ r.seen.data \in Data
    BY DataFacts DEF Journey, Generation
  <1>2. r.step = "request-received" =>
          NextGeneration(r.seen, r.step) \in Int /\ NextGeneration(r.seen, r.step) > 0
    BY <1>1 DEF NextGeneration
  <1>3. CASE r.op = "send"
    <2>1. Write(j, r) = Sent(j, r)
      BY <1>3 DEF Write
    <2>2. /\ Sent(j, r).data = j.data
          /\ Sent(j, r).sent = j.sent \cup {r.step}
          /\ Sent(j, r).ackGen =
               IF r.step = "request-received" THEN NextGeneration(r.seen, r.step) ELSE j.ackGen
          /\ Sent(j, r).offerGen =
               IF r.step = "offer-ready" THEN NextGeneration(r.seen, r.step) ELSE j.offerGen
      BY SentFields
    <2> QED BY <1>1, <1>2, <2>1, <2>2
  <1>4. CASE r.op = "resend"
    <2>1. Write(j, r) = Resent(j, r)
      BY <1>4 DEF Write
    <2>2. CASE r.step \in j.sent /\ r.step = "offer-ready"
      BY <1>1, <1>2, <2>1, <2>2, ResentOffer
    <2>3. CASE r.step \in j.sent /\ r.step = "request-received"
      BY <1>1, <1>2, <2>1, <2>3, ResentRequest
    <2>4. CASE ~(r.step \in j.sent /\ r.step \in Gate)
      BY <1>1, <2>1, <2>4, ResentOther
    <2> QED BY <2>2, <2>3, <2>4 DEF Gate
  <1>5. CASE r.op = "reship"
    <2>1. Write(j, r) = Reshipped(j, r)
      BY <1>5 DEF Write
    <2> QED BY <1>1, <2>1, ReshippedFields
  <1>6. CASE r.op = "decline"
    <2>1. Write(j, r) = OfferDeclined(j)
      BY <1>6 DEF Write
    <2> QED BY <1>1, <2>1, OfferDeclinedFields
  <1>7. CASE r.op = "cancel"
    BY <1>1, <1>7 DEF Write, Journey
  <1>8. CASE r.op = "edit"
    BY <1>1, <1>8 DEF Write, Journey
  <1> QED BY <1>3, <1>4, <1>5, <1>6, <1>7, <1>8 DEF Staffs

LEMMA WriteJourneyRequest ==
  ASSUME OrderInv, PaymentInv, RequestInv, [Next]_vars, NEW s \in Staff, WriteJourney(s)
  PROVE  RequestInv'
  <1>1. /\ journey \in Journey /\ request[s].seen \in Journey
        /\ request[s].op \in Staffs
        /\ request[s].op = "send" => request[s].step \in Workflow
        /\ journey.ackGen >= 0 /\ request[s].seen.ackGen >= 0 /\ request[s].seen.offerGen >= 0
        /\ journey.ackGen > 0 <=> "request-received" \in journey.sent
        /\ journey.offerGen > 0 => "offer-ready" \in journey.sent
    BY DEF OrderInv, TypeOK, KindInv, CopyInv, WriteJourney, Staffs,
           PaymentInv, SeenInv, RequestInv, AskedInv, RequestSeenInv
  <1>2. /\ journey'.ackGen >= 0
        /\ journey'.ackGen > 0 <=> "request-received" \in journey'.sent
        /\ journey'.offerGen > 0 => "offer-ready" \in journey'.sent
        /\ journey'.ackGen = 0 => journey.ackGen = 0
        /\ \/ ~journey'.data.ack
           \/ \E d \in {journey.data, request[s].seen.data} :
                /\ journey'.data.ack = d.ack /\ journey'.data.ackOf = d.ackOf
                /\ journey'.data.declined = d.declined
    <2>1. CASE exists
      <3>1. journey' = Write(journey, request[s])
        BY <2>1 DEF WriteJourney
      <3> QED BY <1>1, <3>1, WriteRequest
    <2>2. CASE ~exists
      BY <1>1, <2>2 DEF WriteJourney
    <2> QED BY <2>1, <2>2
  <1>3. AskedInv'
    BY <1>2 DEF WriteJourney, RequestInv, AskedInv
  <1>4. AcknowledgedInv(journey.data)'
    <2>1. AcknowledgedInv(journey.data) /\ AcknowledgedInv(request[s].seen.data)
      BY DEF RequestInv, RequestSeenInv
    <2> QED BY <1>2, <2>1, AsksGrow DEF AcknowledgedInv, Confirmed
  <1>5. ASSUME NEW t \in Staff PROVE RequestSeenInv(request[t])'
    <2>1. request'[t] = IF t = s THEN NoRequest ELSE request[t]
      BY DEF WriteJourney, OrderInv, TypeOK
    <2>2. CASE t = s
      BY <2>1, <2>2, IdleSeen
    <2>3. CASE t # s
      BY <1>2, <2>1, <2>3, RequestSeenStays
    <2> QED BY <2>2, <2>3
  <1>6. ASSUME NEW c \in Customer PROVE RequestClickInv(click[c])'
    BY RequestClickStays DEF WriteJourney
  <1> QED BY <1>3, <1>4, <1>5, <1>6 DEF RequestInv

LEMMA ClickRequest ==
  ASSUME OrderInv, PaymentInv, RequestInv, [Next]_vars, NEW c \in Customer, NEW answer,
         NEW gate, NEW mail, NEW gen \in Int,
         answer \in {"accept request", "decline request"} =>
           gate = "request-received" /\ gen = journey.ackGen,
         answer = "decline request" => gen > 0,
         Click(c, answer, gate, mail, gen)
  PROVE  RequestInv'
  <1> DEFINE k == [pc |-> "write", answer |-> answer, mail |-> mail, gen |-> gen]
  <1>1. click' = [click EXCEPT ![c] = k] /\ UNCHANGED <<journey, request, mails, pressed>>
    BY DEF Click
  <1>2. RequestClickInv(click[c])'
    <2>1. click'[c] = k
      BY <1>1 DEF OrderInv, TypeOK
    <2>2. CASE answer \in {"accept request", "decline request"}
      <3>1. mail \in DOMAIN Asks /\ (gen > 0 => Asks[mail] = gen)
        BY <2>2 DEF Click, Asks
      <3>2. ASSUME ~(gen > 0) PROVE Asks[mail] = 1
        <4>1. journey.ackGen \in Int /\ journey.ackGen >= 0
          BY AskedFacts
        <4>2. journey.ackGen = gen
          BY <2>2
        <4>3. gen \in Int
          OBVIOUS
        <4>4. journey.ackGen = 0
          BY ONLY <3>2, <4>1, <4>2, <4>3
        <4> QED BY <3>1, <4>4 DEF RequestInv, AskedInv, Asks
      <3>3. /\ mail \in DOMAIN Asks
            /\ Asks[mail] = IF gen > 0 THEN gen ELSE 1
            /\ Asks' = Asks
        BY <1>1, <3>1, <3>2 DEF Asks
      <3>4. k.mail = mail /\ k.gen = gen /\ k.answer = answer
        OBVIOUS
      <3> HIDE DEF k
      <3> QED BY <2>1, <3>3, <3>4 DEF RequestClickInv, Asks
    <2>3. CASE answer \notin {"accept request", "decline request"}
      <3>1. k.answer \notin {"accept request", "decline request"}
        BY <2>3
      <3> HIDE DEF k
      <3> QED BY <2>1, <3>1 DEF RequestClickInv
    <2> QED BY <2>2, <2>3
  <1>3. ASSUME NEW t \in Customer, t # c PROVE RequestClickInv(click[t])'
    <2>1. click'[t] = click[t]
      BY <1>1, <1>3 DEF OrderInv, TypeOK
    <2> QED BY <2>1, RequestClickStays
  <1>4. ASSUME NEW s \in Staff PROVE RequestSeenInv(request[s])'
    BY <1>1, RequestSeenStays
  <1> QED BY <1>1, <1>2, <1>3, <1>4, AskedStays, AcknowledgedStays DEF RequestInv

LEMMA ClicksAfter ==
  ASSUME OrderInv, RequestInv, [Next]_vars, NEW c \in Customer, WriteAnswer(c),
         NEW t \in Customer
  PROVE  RequestClickInv(click[t])'
  <1>1. click'[t] = IF t = c THEN NoClick ELSE click[t]
    BY DEF WriteAnswer, OrderInv, TypeOK
  <1>2. CASE t = c
    BY <1>1, <1>2 DEF RequestClickInv, NoClick
  <1>3. CASE t # c
    BY <1>1, <1>3, RequestClickStays
  <1> QED BY <1>2, <1>3

LEMMA WriteAnswerRequest ==
  ASSUME OrderInv, PaymentInv, RequestInv, [Next]_vars, NEW c \in Customer, WriteAnswer(c)
  PROVE  RequestInv'
  <1> DEFINE k == click[c]
  <1>1. /\ journey \in Journey
        /\ k \in [pc : {"idle", "write"}, answer : Answer \cup {"none"},
                  mail : Nat, gen : Generation]
        /\ k.answer \in Answer
        /\ RequestClickInv(k)
        /\ UNCHANGED <<request, mails>>
    BY DEF OrderInv, TypeOK, KindInv, WriteAnswer, RequestInv
  <1>2. /\ journey'.offerGen = journey.offerGen /\ journey'.ackGen = journey.ackGen
        /\ journey'.sent = journey.sent
        /\ \/ /\ journey'.data.ack = journey.data.ack
              /\ journey'.data.ackOf = journey.data.ackOf
              /\ journey'.data.declined = journey.data.declined
           \/ ~journey'.data.ack
           \/ /\ k.answer = "accept request" /\ TakesEffect(c)
              /\ journey'.data.ackOf = k.gen /\ ~journey'.data.declined
    <2>1. CASE TakesEffect(c)
      <3>1. journey' = Answered(journey, k)
        BY <2>1 DEF WriteAnswer
      <3>2. journey \in Journey /\ k.answer \in Answer
        BY <1>1
      <3> HIDE DEF k
      <3>3. CASE k.answer = "accept request"
        BY <2>1, <3>1, <3>2, <3>3, AnsweredFields
      <3>4. CASE k.answer = "decline request"
        BY <3>1, <3>2, <3>4, AnsweredFields
      <3>5. CASE k.answer \in {"accept offer", "decline offer"}
        BY <3>1, <3>2, <3>5, AnsweredFields
      <3> QED BY <3>2, <3>3, <3>4, <3>5 DEF Answer
    <2>2. CASE ~TakesEffect(c)
      BY <2>2 DEF WriteAnswer
    <2> QED BY <2>1, <2>2
  <1>3. AskedInv'
    BY <1>1, <1>2 DEF RequestInv, AskedInv
  <1>4. AcknowledgedInv(journey.data)'
    <2>1. CASE k.answer = "accept request" /\ TakesEffect(c)
      <3>1. k.mail \in DOMAIN Asks /\ Asks[k.mail] = IF k.gen > 0 THEN k.gen ELSE 1
        BY <1>1, <2>1 DEF TakesEffect, RequestClickInv, Asks
      <3>2. k.mail \in pressed'["request-received"]
        BY <2>1 DEF WriteAnswer, Press, OrderInv, TypeOK, Gate
      <3>3. (IF k.gen > 0 THEN k.gen ELSE 1) \in Confirmed'
        BY <1>1, <3>1, <3>2 DEF Confirmed, PressedGenerations, Asks
      <3>4. journey' = Answered(journey, k)
        BY <2>1 DEF WriteAnswer
      <3>5. journey'.data.ackOf = k.gen /\ ~journey'.data.declined
        BY <1>1, <2>1, <3>4, AnsweredFields
      <3> QED BY <3>3, <3>5 DEF AcknowledgedInv, Confirmed
    <2>2. CASE ~(k.answer = "accept request" /\ TakesEffect(c))
      BY <1>2, <2>2, AsksGrow DEF RequestInv, AcknowledgedInv, Confirmed
    <2> QED BY <2>1, <2>2
  <1>5. ASSUME NEW s \in Staff PROVE RequestSeenInv(request[s])'
    BY <1>1, <1>2, RequestSeenStays
  <1> QED BY <1>3, <1>4, <1>5, ClicksAfter DEF RequestInv

LEMMA NextRequest == OrderInv /\ PaymentInv /\ RequestInv /\ [Next]_vars => RequestInv'
  <1> SUFFICES ASSUME OrderInv, PaymentInv, RequestInv, [Next]_vars PROVE RequestInv'
    OBVIOUS
  <1>1. ASSUME NEW s \in Staff, StaffStep(s) PROVE RequestInv'
    <2>1. ASSUME NEW op \in Staffs, NEW step, NEW pc, Begin(s, op, step, pc) PROVE RequestInv'
      BY <2>1, BeginRequest
    <2> QED BY <1>1, <2>1, ReadIsBegin, SendEmailRequest, DropRequest, WriteJourneyRequest
            DEF StaffStep
  <1>2. ASSUME NEW c \in Customer, CustomerStep(c) PROVE RequestInv'
    <2>1. journey.ackGen \in Int /\ EffectiveOfferGen(journey) \in Int
      BY AskedFacts DEF EffectiveOfferGen
    <2>2. ASSUME NEW mail \in 1..MaxMails,
                 \/ ReadOfferAnswer(c, "accept offer", mail)
                 \/ ReadOfferAnswer(c, "decline offer", mail)
          PROVE  RequestInv'
      BY <2>1, <2>2, ClickRequest DEF ReadOfferAnswer
    <2>3. ASSUME NEW mail \in 1..MaxMails,
                 ReadRequestAccept(c, mail) \/ ReadRequestDecline(c, mail)
          PROVE  RequestInv'
      BY <2>1, <2>3, ClickRequest DEF ReadRequestAccept, ReadRequestDecline
    <2> QED BY <1>2, <2>2, <2>3, WriteAnswerRequest DEF CustomerStep, ReadAnswer
  <1>3. ASSUME UNCHANGED <<journey, request, click, mails, pressed>> PROVE RequestInv'
    BY <1>3 DEF RequestInv, AskedInv, AcknowledgedInv, RequestSeenInv, RequestClickInv,
                PressedGenerations
  <1> QED BY <1>1, <1>2, <1>3 DEF Next, Remove, vars

LEMMA InitRequest == Init => RequestInv
  <1> SUFFICES ASSUME Init PROVE RequestInv
    OBVIOUS
  <1>1. /\ NewJourney.ackGen = 0 /\ NewJourney.offerGen = 0 /\ NewJourney.sent = {}
        /\ ~NewJourney.data.ack
    BY DEF NewJourney, NewData
  <1>2. NoRequest.seen = NewJourney /\ NoRequest.pc = "idle" /\ NoClick.pc = "idle"
    BY DEF NoRequest, NoClick
  <1>3. mails["request-received"] = << >>
    BY DEF Init, Gate
  <1>4. AskedInv
    BY <1>1, <1>3 DEF Init, AskedInv
  <1>5. AcknowledgedInv(journey.data)
    BY <1>1 DEF Init, AcknowledgedInv
  <1>6. ASSUME NEW s \in Staff PROVE RequestSeenInv(request[s])
    BY <1>1, <1>2 DEF Init, RequestSeenInv, AcknowledgedInv
  <1>7. ASSUME NEW c \in Customer PROVE RequestClickInv(click[c])
    BY <1>2 DEF Init, RequestClickInv
  <1> QED BY <1>4, <1>5, <1>6, <1>7 DEF RequestInv

\* However many requests and clicks interleave, every acknowledgement in the document
\* and in every copy of it was given by a link, and every click in flight is matched
\* with the email whose link it came from.
THEOREM RequestInvHolds == Spec => []RequestInv
  BY InitRequest, NextRequest, OrderHolds, PaymentInvHolds, PTL DEF Spec

\* An answer takes effect only for the round that is current when it is written (the
\* filter of updateOne), given by a link of that round, or before a first round is recorded.
THEOREM AnswerCorrect == Spec => AnswerIsForCurrentRound
  <1> DEFINE ForCurrent ==
        \A c \in Customer : Answers(c) =>
          IF click[c].answer \in {"accept offer", "decline offer"}
          THEN journey.offerGen \in {0, mails["offer-ready"][click[c].mail]}
          ELSE journey.ackGen \in {0, mails["request-received"][click[c].mail]}
  <1>1. OrderInv /\ PaymentInv /\ RequestInv /\ [Next]_vars => [ForCurrent]_vars
    <2> SUFFICES ASSUME OrderInv, PaymentInv, RequestInv, NEW c \in Customer, TakesEffect(c)
                 PROVE  IF click[c].answer \in {"accept offer", "decline offer"}
                        THEN journey.offerGen \in {0, mails["offer-ready"][click[c].mail]}
                        ELSE journey.ackGen \in {0, mails["request-received"][click[c].mail]}
      BY DEF Answers
    <2>1. /\ journey.offerGen \in Int /\ journey.offerGen >= 0
          /\ journey.ackGen \in Int /\ journey.ackGen >= 0
      BY AskedFacts
    <2>2. /\ click[c].answer \in Answer
          /\ ClickInv(click[c]) /\ RequestClickInv(click[c])
          /\ click[c].pc = "write" /\ StillOpen(journey, click[c])
      BY DEF TakesEffect, OrderInv, KindInv, PaymentInv, RequestInv
    <2>3. CASE click[c].answer \in {"accept offer", "decline offer"}
      <3>1. journey.offerGen = click[c].gen
        BY <2>2, <2>3 DEF StillOpen
      <3>2. mails["offer-ready"][click[c].mail] =
              IF click[c].gen > 0 THEN click[c].gen ELSE 1
        BY <2>2, <2>3 DEF ClickInv
      <3>3. journey.offerGen \in {0, mails["offer-ready"][click[c].mail]}
        BY <2>1, <3>1, <3>2
      <3> QED BY <2>3, <3>3
    <2>4. CASE click[c].answer \notin {"accept offer", "decline offer"}
      <3>1. journey.ackGen = click[c].gen
        BY <2>2, <2>4 DEF StillOpen
      <3>2. mails["request-received"][click[c].mail] =
              IF click[c].gen > 0 THEN click[c].gen ELSE 1
        BY <2>2, <2>4 DEF RequestClickInv, Answer
      <3>3. journey.ackGen \in {0, mails["request-received"][click[c].mail]}
        BY <2>1, <3>1, <3>2
      <3> QED BY <2>4, <3>3
    <2> QED BY <2>3, <2>4
  <1> QED BY <1>1, OrderHolds, PaymentInvHolds, RequestInvHolds, PTL
          DEF Spec, AnswerIsForCurrentRound

-----------------------------------------------------------------------------
(* One staff request at a time.                                             *)

OneStaff == \A s, t \in Staff : s = t

LEMMA UnrecordedBy ==
  ASSUME OneStaff, NEW s \in Staff, NEW step
  PROVE  /\ Unrecorded(step) <=> /\ request[s].pc = "write"
                                 /\ request[s].op \in {"send", "resend"}
                                 /\ request[s].step = step
         /\ Unrecorded(step)' <=> /\ request'[s].pc = "write"
                                  /\ request'[s].op \in {"send", "resend"}
                                  /\ request'[s].step = step
  BY DEF OneStaff, Unrecorded

LEMMA RoundStays ==
  ASSUME SoloInv, UNCHANGED mails, NEW gate \in Gate,
         exists' => exists, faults' = 0 => faults = 0,
         journey'.ackGen = journey.ackGen, journey'.offerGen = journey.offerGen,
         Unrecorded(gate)' <=> Unrecorded(gate)
  PROVE  exists' /\ faults' = 0 => RoundInv(gate)'
  BY DEF SoloInv, RoundInv, Recorded

LEMMA FreshStays ==
  ASSUME OrderInv, RequestInv, SoloInv, [Next]_vars, NEW s \in Staff,
         request'[s] = request[s], UNCHANGED mails,
         journey'.completed = journey.completed, journey'.sent = journey.sent,
         journey'.ackGen = journey.ackGen, journey'.offerGen = journey.offerGen
  PROVE  FreshInv(request[s])'
  BY AsksGrow DEF SoloInv, FreshInv, FirstRoundInv, Confirmed

LEMMA IdleFresh ==
  ASSUME NEW s \in Staff, request'[s] = NoRequest
  PROVE  FreshInv(request[s])'
  <1>1. NoRequest.pc = "idle"
    BY DEF NoRequest
  <1> QED BY <1>1 DEF FreshInv

LEMMA StageStays ==
  ASSUME SoloInv, UNCHANGED <<journey, mails>>
  PROVE  /\ journey'.completed = journey'.sent
         /\ FirstRoundInv(journey.data)'
         /\ StageInv'
  BY DEF SoloInv, FirstRoundInv, StageInv

\* The document a request keeps.
LEMMA KeptFields ==
  ASSUME NEW j \in Journey, NEW op
  PROVE  /\ op \in {"send", "resend"} =>
              /\ Kept(op, j).completed = j.completed
              /\ Kept(op, j).ackGen = j.ackGen /\ Kept(op, j).offerGen = j.offerGen
         /\ op = "reship" => Kept(op, j).sent = j.sent
         /\ Kept(op, j).data = j.data \/ ~Kept(op, j).data.ack
  <1>1. ~NewJourney.data.ack
    BY DEF NewJourney, NewData
  <1>2. CASE op \in {"send", "resend"}
    BY <1>1, <1>2 DEF Kept, NewJourney
  <1>3. CASE op = "reship"
    BY <1>3 DEF Kept, NewJourney
  <1>4. CASE op = "edit"
    BY <1>4 DEF Kept, NewJourney
  <1>5. CASE op \notin {"send", "resend", "reship", "edit"}
    <2>1. Kept(op, j) = NewJourney
      BY <1>5 DEF Kept
    <2> QED BY <1>1, <1>5, <2>1
  <1> QED BY <1>2, <1>3, <1>4, <1>5

\* The check of a pickup, on the document as it was read.
LEMMA PickupChecked ==
  ASSUME OrderInv, PaymentInv, RequestInv, SoloInv,
         "request-received" \in journey.completed, CustomerAcknowledged(journey)
  PROVE  journey.ackGen \in Confirmed
  <1>1. journey.ackGen \in Int /\ journey.ackGen > 0 /\ journey.data \in Data
    BY AskedFacts DEF SoloInv
  <1>2. /\ journey.data.ack
        /\ journey.data.ackOf > 0 => journey.data.ackOf = journey.ackGen
    BY <1>1 DEF CustomerAcknowledged
  <1>3. (IF journey.data.ackOf > 0 THEN journey.data.ackOf ELSE 1) \in Confirmed
    BY <1>2 DEF RequestInv, AcknowledgedInv, Confirmed
  <1>4. CASE journey.data.ackOf > 0
    BY <1>2, <1>3, <1>4
  <1>5. CASE ~(journey.data.ackOf > 0)
    <2>1. journey.data.ackOf \in Int
      BY <1>1 DEF Data, Generation
    <2>2. journey.ackGen <= 1
      BY <1>2, <1>5, <2>1 DEF SoloInv, FirstRoundInv
    <2>3. journey.ackGen = 1
      BY <1>1, <2>2
    <2> QED BY <1>3, <1>5, <2>3
  <1> QED BY <1>4, <1>5

\* A request begins with a copy that is right.
LEMMA ReadFresh ==
  ASSUME OrderInv, PaymentInv, RequestInv, SoloInv, NEW s \in Staff,
         \/ \E step \in Steps : ReadSend(s, step)
         \/ \E step \in Resends : ReadResend(s, step)
         \/ ReadReship(s) \/ ReadCancel(s) \/ ReadDecline(s) \/ ReadEdit(s)
  PROVE  \E op \in Staffs, step \in StepKey \cup {"none"}, pc \in {"send", "write"} :
           /\ Begin(s, op, step, pc)
           /\ FreshInv([pc |-> pc, op |-> op, step |-> step, seen |-> Kept(op, journey)])
           /\ pc = "write" => op \notin {"send", "resend"}
  <1> DEFINE R(op, step, pc) ==
               [pc |-> pc, op |-> op, step |-> step, seen |-> Kept(op, journey)]
             Goal(op, step, pc) ==
               /\ Begin(s, op, step, pc) /\ FreshInv(R(op, step, pc))
               /\ pc = "write" => op \notin {"send", "resend"}
  <1>1. /\ journey \in Journey /\ journey.completed = journey.sent
        /\ FirstRoundInv(journey.data)
    BY AskedFacts DEF SoloInv
  <1>2. \A op : FirstRoundInv(Kept(op, journey).data)
    BY <1>1, KeptFields DEF FirstRoundInv
  <1>3. ASSUME NEW op \in {"send", "resend"}, NEW step \in Workflow,
               op = "send" => step \notin journey.completed,
               op = "resend" => step \in journey.completed,
               step = "pickup-scheduled" => journey.ackGen \in Confirmed,
               Begin(s, op, step, "send")
        PROVE  Goal(op, step, "send")
    <2> DEFINE r == R(op, step, "send")
    <2>1. r.pc = "send" /\ r.op = op /\ r.step = step /\ r.seen = Kept(op, journey)
      OBVIOUS
    <2> HIDE DEF r
    <2>2. FreshInv(r)
      BY <1>1, <1>2, <1>3, <2>1, KeptFields DEF FreshInv, Confirmed
    <2> QED BY <1>3, <2>2 DEF r
  <1>4. ASSUME NEW step \in Steps, ReadSend(s, step) PROVE Goal("send", step, "send")
    <2>1. /\ step \in Workflow /\ step \notin journey.completed
          /\ Before(step) \subseteq journey.completed /\ MayDispatch(journey, step)
          /\ Begin(s, "send", step, "send")
      BY <1>1, <1>4, StepsAssumption DEF ReadSend, MaySend
    <2>2. step = "pickup-scheduled" => journey.ackGen \in Confirmed
      BY <2>1, PickupChecked, BeforeFacts DEF MayDispatch
    <2> QED BY <1>3, <2>1, <2>2
  <1>5. ASSUME NEW step \in Resends, ReadResend(s, step) PROVE Goal("resend", step, "send")
    <2>1. /\ step \in Workflow /\ step \in journey.completed /\ MayDispatch(journey, step)
          /\ Begin(s, "resend", step, "send")
      BY <1>1, <1>5, StepsAssumption DEF ReadResend, MayResend
    <2>2. step = "pickup-scheduled" => Before(step) \subseteq journey.completed
      BY <2>1 DEF OrderInv, StepsInOrder, InOrder
    <2>3. step = "pickup-scheduled" => journey.ackGen \in Confirmed
      BY <2>1, <2>2, PickupChecked, BeforeFacts DEF MayDispatch
    <2> QED BY <1>3, <2>1, <2>3
  <1>6. ASSUME ReadReship(s) PROVE Goal("reship", "device-reship", "send")
    <2> DEFINE r == R("reship", "device-reship", "send")
    <2>1. r.pc = "send" /\ r.op = "reship" /\ r.step = "device-reship" /\ r.seen = Kept("reship", journey)
      OBVIOUS
    <2> HIDE DEF r
    <2>2. FreshInv(r)
      BY <1>1, <1>2, <2>1, KeptFields DEF FreshInv
    <2> QED BY <1>6, <2>2 DEF r, ReadReship
  <1>7. ASSUME NEW op \in {"cancel", "decline", "edit"},
               op = "decline" => "offer-ready" \in journey.completed,
               Begin(s, op, "none", "write")
        PROVE  Goal(op, "none", "write")
    <2> DEFINE r == R(op, "none", "write")
    <2>1. r.pc = "write" /\ r.op = op /\ r.step = "none" /\ r.seen = Kept(op, journey)
      OBVIOUS
    <2> HIDE DEF r
    <2>2. FreshInv(r)
      BY <1>2, <1>7, <2>1 DEF FreshInv
    <2> QED BY <1>7, <2>2 DEF r
  <1>8. \E op \in Staffs, step \in StepKey \cup {"none"}, pc \in {"send", "write"} : Goal(op, step, pc)
    <2>1. CASE ReadCancel(s)
      <3>1. Goal("cancel", "none", "write")
        BY <1>7, <2>1 DEF ReadCancel
      <3> HIDE DEF Goal
      <3> QED BY <3>1 DEF Staffs
    <2>2. CASE ReadDecline(s)
      <3>1. Goal("decline", "none", "write")
        BY <1>7, <2>2 DEF ReadDecline
      <3> HIDE DEF Goal
      <3> QED BY <3>1 DEF Staffs
    <2>3. CASE ReadEdit(s)
      <3>1. Goal("edit", "none", "write")
        BY <1>7, <2>3 DEF ReadEdit
      <3> HIDE DEF Goal
      <3> QED BY <3>1 DEF Staffs
    <2> HIDE DEF Goal
    <2> QED BY <1>4, <1>5, <1>6, <2>1, <2>2, <2>3, StepsAssumption DEF Staffs, StepKey
  <1> QED BY <1>8

LEMMA BeginSolo ==
  ASSUME OneStaff, OrderInv, RequestInv, SoloInv, [Next]_vars, NEW s \in Staff,
         NEW op \in Staffs, NEW step, NEW pc \in {"send", "write"}, Begin(s, op, step, pc),
         FreshInv([pc |-> pc, op |-> op, step |-> step, seen |-> Kept(op, journey)]),
         pc = "write" => op \notin {"send", "resend"}
  PROVE  SoloInv'
  <1> DEFINE r == [pc |-> pc, op |-> op, step |-> step, seen |-> Kept(op, journey)]
  <1>1. /\ request' = [request EXCEPT ![s] = r]
        /\ request[s].pc = "idle"
        /\ UNCHANGED <<journey, exists, mails, pressed, faults>>
    BY DEF Begin
  <1>2. request'[s] = r
    BY <1>1 DEF OrderInv, TypeOK
  <1>3. FreshInv(r) /\ (r.pc = "write" => r.op \notin {"send", "resend"})
    OBVIOUS
  <1> HIDE DEF r
  <1>4. FreshInv(request[s])'
    BY <1>1, <1>2, <1>3 DEF FreshInv, FirstRoundInv, PressedGenerations
  <1>5. \A t \in Staff : FreshInv(request[t])'
    BY <1>4 DEF OneStaff
  <1>6. ASSUME NEW gate \in Gate PROVE exists' /\ faults' = 0 => RoundInv(gate)'
    <2>1. ~Unrecorded(gate) /\ ~Unrecorded(gate)'
      BY <1>1, <1>2, <1>3, UnrecordedBy
    <2> QED BY <1>1, <2>1, RoundStays
  <1>7. exists' /\ faults' = 0 => \A gate \in Gate : RoundInv(gate)'
    BY <1>6
  <1> QED BY <1>1, <1>5, <1>7, StageStays DEF SoloInv

\* The generation of the links in an email is the one after the last recorded.
LEMMA NextRound ==
  ASSUME OrderInv, PaymentInv, RequestInv, SoloInv, NEW s \in Staff,
         request[s].pc # "idle", request[s].op \in {"send", "resend"},
         NEW gate \in Gate, request[s].step = gate
  PROVE  /\ NextGeneration(request[s].seen, gate) = Recorded(gate) + 1
         /\ Recorded(gate) \in Int
  <1>1. /\ request[s].seen.completed = journey.completed
        /\ request[s].seen.ackGen = journey.ackGen
        /\ request[s].seen.offerGen = journey.offerGen
        /\ journey.completed = journey.sent
    BY DEF SoloInv, FreshInv
  <1>2. EffectiveOfferGen(request[s].seen) = journey.offerGen
    BY <1>1, AskedFacts DEF EffectiveOfferGen
  <1> QED BY <1>1, <1>2, AskedFacts DEF NextGeneration, Recorded, Gate

LEMMA SendEmailSolo ==
  ASSUME OneStaff, OrderInv, PaymentInv, RequestInv, SoloInv, [Next]_vars,
         NEW s \in Staff, SendEmail(s)
  PROVE  SoloInv'
  <1> DEFINE r == request[s]
  <1>1. /\ request' = [request EXCEPT ![s].pc = "write"]
        /\ r.pc = "send" /\ UNCHANGED <<journey, exists, pressed, faults>>
    BY DEF SendEmail
  <1>2. /\ request'[s].pc = "write" /\ request'[s].op = r.op
        /\ request'[s].step = r.step /\ request'[s].seen = r.seen
    BY <1>1 DEF OrderInv, TypeOK
  <1>3. /\ r.op \in {"send", "resend", "reship"}
        /\ r.op = "reship" => r.step = "device-reship"
        /\ FreshInv(r)
    BY <1>1 DEF SoloInv, FreshInv
  <1>4. mails \in [Gate -> Seq(Generation)]
    BY DEF OrderInv, TypeOK
  <1>5. ASSUME NEW gate \in Gate, gate # r.step PROVE mails'[gate] = mails[gate]
    BY <1>4, <1>5 DEF SendEmail
  <1>6. ASSUME r.step \in Gate
        PROVE  /\ mails'[r.step] = Append(mails[r.step], Recorded(r.step) + 1)
               /\ Recorded(r.step) \in Int
               /\ r.op \in {"send", "resend"}
    <2>1. r.op \in {"send", "resend"}
      BY <1>3, <1>6 DEF Gate
    <2> QED BY <1>1, <1>4, <1>6, <2>1, NextRound DEF SendEmail
  <1>7. ASSUME NEW gate \in Gate PROVE mails[gate] # << >> => mails'[gate] # << >>
    <2>1. CASE gate = r.step
      <3>1. mails[gate] \in Seq(Generation)
        BY <1>4
      <3> QED BY <1>6, <2>1, <3>1
    <2> QED BY <1>5, <2>1
  <1>8. r.step \in Gate => mails'[r.step] # << >>
    <2>1. ASSUME r.step \in Gate PROVE mails'[r.step] # << >>
      <3>1. mails[r.step] \in Seq(Generation)
        BY <1>4, <2>1
      <3> QED BY <1>6, <2>1, <3>1
    <2> QED BY <2>1
  <1>9. FreshInv(request[s])'
    BY <1>1, <1>2, <1>3, <1>8 DEF FreshInv, FirstRoundInv
  <1>10. StageInv'
    <2>1. mails["offer-ready"] # << >> => mails'["offer-ready"] # << >>
      BY <1>7 DEF Gate
    <2>2. mails'["offer-ready"] # << >> =>
            mails["offer-ready"] # << >> \/ r.step = "offer-ready"
      BY <1>5 DEF Gate
    <2>3. ASSUME r.step = "offer-ready" PROVE Before("offer-ready") \subseteq journey.completed
      <3>1. CASE r.op = "send"
        BY <1>1, <1>3, <2>3, <3>1 DEF OrderInv, CopyInv, FreshInv
      <3>2. CASE r.op = "resend"
        BY <1>1, <1>3, <2>3, <3>2 DEF OrderInv, StepsInOrder, InOrder, FreshInv
      <3> QED BY <1>6, <2>3, <3>1, <3>2 DEF Gate
    <2> QED BY <1>1, <2>1, <2>2, <2>3 DEF SoloInv, StageInv
  <1>11. ASSUME NEW gate \in Gate, exists', faults' = 0 PROVE RoundInv(gate)'
    <2>1. RoundInv(gate) /\ ~Unrecorded(gate)
      BY <1>1, <1>11, UnrecordedBy DEF SoloInv
    <2>2. Recorded(gate)' = Recorded(gate)
      BY <1>1 DEF Recorded
    <2>3. CASE gate # r.step
      <3>1. ~Unrecorded(gate)'
        BY <1>2, <2>3, UnrecordedBy
      <3> QED BY <1>5, <2>1, <2>2, <2>3, <3>1 DEF RoundInv
    <2>4. CASE gate = r.step
      <3>1. Unrecorded(gate)'
        BY <1>2, <1>6, <2>4, UnrecordedBy
      <3> DEFINE m == mails[gate]
                 n == Recorded(gate)
      <3>2. m \in Seq(Int) /\ n \in Int /\ mails'[gate] = Append(m, n + 1)
        <4>1. m \in Seq(Generation) /\ Generation = Int
          BY <1>4 DEF Generation
        <4>2. n \in Int /\ mails'[gate] = Append(m, n + 1)
          BY <1>6, <2>4
        <4> QED BY <4>1, <4>2
      <3>3. \A i \in DOMAIN m : m[i] <= n
        <4>1. Recorded(gate) + (IF Unrecorded(gate) THEN 1 ELSE 0) = n
          BY <2>1, <3>2
        <4> QED BY <2>1, <4>1 DEF RoundInv
      <3> HIDE DEF m, n
      <3>4. \A i \in DOMAIN Append(m, n + 1) :
              /\ Append(m, n + 1)[i] <= n + 1
              /\ i < Len(Append(m, n + 1)) => Append(m, n + 1)[i] < n + 1
        <4> SUFFICES ASSUME NEW i \in DOMAIN Append(m, n + 1)
                     PROVE  /\ Append(m, n + 1)[i] <= n + 1
                            /\ i < Len(Append(m, n + 1)) => Append(m, n + 1)[i] < n + 1
          OBVIOUS
        <4>1. CASE i = Len(m) + 1
          BY <3>2, <4>1
        <4>2. CASE i \in DOMAIN m
          <5>1. m[i] \in Int /\ m[i] <= n
            BY <3>2, <3>3, <4>2
          <5> QED BY <3>2, <4>2, <5>1
        <4> QED BY <3>2, <4>1, <4>2
      <3>5. Recorded(gate)' = n
        BY <2>2 DEF n
      <3>6. \A i \in DOMAIN mails'[gate] :
              mails'[gate][i] <= n + 1 /\ (i < Len(mails'[gate]) => mails'[gate][i] < n + 1)
        BY <3>2, <3>4
      <3>7. (Recorded(gate) + IF Unrecorded(gate) THEN 1 ELSE 0)' = n + 1
        BY <3>1, <3>5
      <3> QED BY <3>6, <3>7 DEF RoundInv
    <2> QED BY <2>3, <2>4
  <1>12. exists' /\ faults' = 0 => \A gate \in Gate : RoundInv(gate)'
    BY <1>11
  <1>13. \A t \in Staff : FreshInv(request[t])'
    BY <1>9 DEF OneStaff
  <1>14. journey'.completed = journey'.sent /\ FirstRoundInv(journey.data)'
    BY <1>1 DEF SoloInv, FirstRoundInv
  <1> QED BY <1>10, <1>12, <1>13, <1>14 DEF SoloInv

LEMMA DropSolo ==
  ASSUME OneStaff, OrderInv, SoloInv, [Next]_vars, NEW s \in Staff,
         EmailFails(s) \/ WriteLost(s)
  PROVE  SoloInv'
  <1>1. /\ request' = [request EXCEPT ![s] = NoRequest]
        /\ UNCHANGED <<journey, exists, mails>>
        /\ (request[s].pc = "send" /\ faults' = faults) \/ faults' = faults + 1
    BY DEF EmailFails, WriteLost
  <1>2. request'[s] = NoRequest /\ NoRequest.pc = "idle" /\ faults \in Nat
    BY <1>1 DEF OrderInv, TypeOK, NoRequest
  <1>3. \A t \in Staff : FreshInv(request[t])'
    BY <1>2, IdleFresh DEF OneStaff
  <1>4. ASSUME NEW gate \in Gate, exists', faults' = 0 PROVE RoundInv(gate)'
    <2>1. request[s].pc = "send" /\ faults' = faults
      BY <1>1, <1>2, <1>4
    <2>2. ~Unrecorded(gate) /\ ~Unrecorded(gate)'
      BY <1>2, <2>1, UnrecordedBy
    <2> QED BY <1>1, <1>4, <2>1, <2>2, RoundStays
  <1>5. exists' /\ faults' = 0 => \A gate \in Gate : RoundInv(gate)'
    BY <1>4
  <1> QED BY <1>1, <1>3, <1>5, StageStays DEF SoloInv

\* A write that records the generations it sent keeps the rounds.
LEMMA RecordedRound ==
  ASSUME OneStaff, OrderInv, PaymentInv, RequestInv, SoloInv, NEW s \in Staff, WriteJourney(s),
         NEW gate \in Gate,
         Recorded(gate)' = IF request[s].op \in {"send", "resend"} /\ request[s].step = gate
                           THEN Recorded(gate) + 1 ELSE Recorded(gate)
  PROVE  exists' /\ faults' = 0 => RoundInv(gate)'
  <1> SUFFICES ASSUME exists', faults' = 0 PROVE RoundInv(gate)'
    OBVIOUS
  <1>1. request'[s].pc = "idle"
    BY DEF WriteJourney, OrderInv, TypeOK, NoRequest
  <1>2. ~Unrecorded(gate)'
    BY <1>1, UnrecordedBy
  <1>3. RoundInv(gate) /\ mails' = mails
    BY DEF WriteJourney, SoloInv
  <1>4. Unrecorded(gate) <=> request[s].op \in {"send", "resend"} /\ request[s].step = gate
    BY UnrecordedBy DEF WriteJourney
  <1>5. Recorded(gate) \in Int
    BY AskedFacts DEF Recorded
  <1>6. (Recorded(gate) + IF Unrecorded(gate) THEN 1 ELSE 0)' =
          Recorded(gate) + IF Unrecorded(gate) THEN 1 ELSE 0
    BY <1>2, <1>4, <1>5
  <1> QED BY <1>3, <1>6 DEF RoundInv

LEMMA WriteSolo ==
  ASSUME OneStaff, OrderInv, NEW s \in Staff, WriteJourney(s),
         journey'.completed = journey'.sent, FirstRoundInv(journey.data)', StageInv',
         \A gate \in Gate : exists' /\ faults' = 0 => RoundInv(gate)'
  PROVE  SoloInv'
  <1>1. request'[s] = NoRequest
    BY DEF WriteJourney, OrderInv, TypeOK
  <1>2. \A t \in Staff : FreshInv(request[t])'
    BY <1>1, IdleFresh DEF OneStaff
  <1> QED BY <1>2 DEF SoloInv

LEMMA NextStepBefore ==
  ASSUME NEW done, ~(Workflow \subseteq done)
  PROVE  Before(NextStep(done)) \subseteq done
  <1>1. \E t \in Workflow \ done : Before(t) \subseteq done
    BY WorkflowFacts, BeforeFacts
  <1> QED BY <1>1 DEF NextStep

\* What a request that is about to write can count on.
LEMMA WriterFacts ==
  ASSUME OrderInv, PaymentInv, RequestInv, SoloInv, NEW s \in Staff, WriteJourney(s)
  PROVE  /\ journey \in Journey /\ request[s].seen \in Journey
         /\ request[s].op \in Staffs
         /\ journey.completed = journey.sent /\ InOrder(journey.completed)
         /\ request[s].pc = "write" /\ FreshInv(request[s]) /\ CopyInv(request[s])
         /\ FirstRoundInv(journey.data) /\ StageInv
         /\ mails' = mails
  BY DEF OrderInv, TypeOK, KindInv, StepsInOrder, WriteJourney, Staffs, SoloInv

LEMMA WriteSendSolo ==
  ASSUME OneStaff, OrderInv, PaymentInv, RequestInv, SoloInv, NEW s \in Staff,
         WriteJourney(s), exists, request[s].op = "send"
  PROVE  SoloInv'
  <1> DEFINE r == request[s]
             done == journey.completed \cup {r.step}
  <1>1. /\ r.step \in Workflow /\ r.step \notin journey.completed
        /\ Before(r.step) \subseteq journey.completed
        /\ r.seen.completed = journey.completed
        /\ r.step \in Gate => mails[r.step] # << >>
    BY WriterFacts DEF FreshInv, CopyInv
  <1>2. /\ journey'.data = journey.data
        /\ journey'.sent = journey.sent \cup {r.step}
        /\ journey'.completed = done
        /\ journey'.status \in {"completed", "active"}
        /\ journey'.current =
             IF r.step = "offer-ready" \/ Workflow \subseteq done THEN r.step ELSE NextStep(done)
        /\ journey'.ackGen =
             IF r.step = "request-received" THEN NextGeneration(r.seen, r.step) ELSE journey.ackGen
        /\ journey'.offerGen =
             IF r.step = "offer-ready" THEN NextGeneration(r.seen, r.step) ELSE journey.offerGen
    <2>1. journey' = Sent(journey, r)
      BY DEF WriteJourney, Write
    <2>2. journey \in Journey /\ r.seen \in Journey /\ r.seen.completed \cup {r.step} = done
      BY <1>1, WriterFacts
    <2> HIDE DEF r, done
    <2>3. LET new == r.seen.completed \cup {r.step} IN
          /\ Sent(journey, r).completed = new
          /\ Sent(journey, r).current =
               IF r.step = "offer-ready" \/ Workflow \subseteq new THEN r.step ELSE NextStep(new)
      BY <2>2, SentFields
    <2> QED BY <2>1, <2>2, <2>3, SentFields
  <1>3. r.step \in Gate => NextGeneration(r.seen, r.step) = Recorded(r.step) + 1
    BY NextRound DEF WriteJourney
  <1>4. ASSUME NEW gate \in Gate PROVE exists' /\ faults' = 0 => RoundInv(gate)'
    <2>1. Recorded(gate)' = IF r.op \in {"send", "resend"} /\ r.step = gate
                            THEN Recorded(gate) + 1 ELSE Recorded(gate)
      BY <1>2, <1>3 DEF Recorded, Gate
    <2> QED BY <2>1, RecordedRound
  <1>5. FirstRoundInv(journey.data)'
    <2>1. CASE r.step = "request-received"
      <3>1. journey.ackGen = 0
        BY <1>1, <2>1, AskedFacts, WriterFacts
      <3>2. journey'.ackGen = 1
        BY <1>2, <1>3, <2>1, <3>1 DEF Recorded, Gate
      <3> QED BY <3>2 DEF FirstRoundInv
    <2>2. CASE r.step # "request-received"
      BY <1>2, <2>2, WriterFacts DEF FirstRoundInv
    <2> QED BY <2>1, <2>2
  <1>6. Before(journey'.current) \subseteq done
    BY <1>1, <1>2, NextStepBefore
  <1>7. StageInv'
    <2> DEFINE offered == mails["offer-ready"] # << >>
    <2>1. /\ offered => Before("offer-ready") \subseteq journey.completed
          /\ "offer-ready" \in journey.completed => offered
          /\ mails' = mails
      BY WriterFacts DEF StageInv
    <2>2. "offer-ready" \in done => offered
      BY <1>1, <2>1 DEF Gate
    <2> QED BY <1>2, <1>6, <2>1, <2>2 DEF StageInv
  <1> QED BY <1>2, <1>4, <1>5, <1>7, WriterFacts, WriteSolo

LEMMA WriteResendSolo ==
  ASSUME OneStaff, OrderInv, PaymentInv, RequestInv, SoloInv, NEW s \in Staff,
         WriteJourney(s), exists, request[s].op = "resend"
  PROVE  SoloInv'
  <1> DEFINE r == request[s]
  <1>1. /\ r.step \in journey.completed /\ r.step \in Workflow
        /\ Before(r.step) \subseteq journey.completed
        /\ journey \in Journey /\ r.seen \in Journey /\ journey.completed = journey.sent
    BY WriterFacts DEF FreshInv, InOrder
  <1>2. journey' = Resent(journey, r)
    BY DEF WriteJourney, Write
  <1>3. /\ journey'.completed = journey.completed /\ journey'.sent = journey.sent
        /\ journey'.ackGen =
             IF r.step = "request-received" THEN NextGeneration(r.seen, r.step) ELSE journey.ackGen
        /\ journey'.offerGen =
             IF r.step = "offer-ready" THEN NextGeneration(r.seen, r.step) ELSE journey.offerGen
        /\ \/ journey'.status = "active" /\ journey'.current = r.step
           \/ journey'.status = journey.status /\ journey'.current = journey.current
        /\ \/ r.step # "request-received" /\ journey'.data.ack = journey.data.ack
              /\ journey'.data.ackOf = journey.data.ackOf
           \/ ~journey'.data.ack
    <2>1. CASE r.step = "offer-ready"
      <3> HIDE DEF r
      <3> QED BY <1>1, <1>2, <2>1, ResentOffer
    <2>2. CASE r.step = "request-received"
      <3> HIDE DEF r
      <3> QED BY <1>1, <1>2, <2>2, ResentRequest
    <2>3. CASE r.step \notin Gate
      <3>1. journey' = journey
        BY <1>2, <2>3, ResentOther
      <3> QED BY <2>3, <3>1 DEF Gate
    <2> QED BY <2>1, <2>2, <2>3 DEF Gate
  <1>4. r.step \in Gate => NextGeneration(r.seen, r.step) = Recorded(r.step) + 1
    BY NextRound DEF WriteJourney
  <1>5. ASSUME NEW gate \in Gate PROVE exists' /\ faults' = 0 => RoundInv(gate)'
    <2>1. Recorded(gate)' = IF r.op \in {"send", "resend"} /\ r.step = gate
                            THEN Recorded(gate) + 1 ELSE Recorded(gate)
      BY <1>3, <1>4 DEF Recorded, Gate
    <2> QED BY <2>1, RecordedRound
  <1>6. FirstRoundInv(journey.data)'
    BY <1>3, WriterFacts DEF FirstRoundInv
  <1>7. StageInv'
    BY <1>1, <1>3, WriterFacts DEF StageInv
  <1> QED BY <1>1, <1>3, <1>5, <1>6, <1>7, WriteSolo

LEMMA WriteReshipSolo ==
  ASSUME OneStaff, OrderInv, PaymentInv, RequestInv, SoloInv, NEW s \in Staff,
         WriteJourney(s), exists, request[s].op = "reship"
  PROVE  SoloInv'
  <1> DEFINE r == request[s]
  <1>1. r.seen.sent = journey.sent /\ FirstRoundInv(r.seen.data)
    BY WriterFacts DEF FreshInv
  <1>2. /\ journey'.offerGen = journey.offerGen /\ journey'.ackGen = journey.ackGen
        /\ journey'.status = "completed" /\ journey'.current = "device-reship"
        /\ journey'.completed = (journey.sent \cap Workflow) \cup {"device-reship"}
        /\ journey'.sent = journey.sent \cup {"device-reship"}
        /\ journey'.data.ack = r.seen.data.ack /\ journey'.data.ackOf = r.seen.data.ackOf
    <2>1. journey' = Reshipped(journey, r)
      BY DEF WriteJourney, Write
    <2> QED BY <1>1, <2>1, WriterFacts, ReshippedFields
  <1>3. journey'.completed = journey'.sent
    BY <1>2, WriterFacts DEF Journey, StepKey
  <1>4. \A gate \in Gate : exists' /\ faults' = 0 => RoundInv(gate)'
    BY <1>2, RecordedRound DEF Recorded
  <1>5. FirstRoundInv(journey.data)'
    BY <1>1, <1>2 DEF FirstRoundInv
  <1>6. StageInv'
    <2>1. /\ journey.completed = journey.sent /\ mails' = mails /\ StageInv
          /\ "offer-ready" \in Workflow /\ Before("offer-ready") \subseteq Workflow
          /\ "device-reship" \notin Workflow
      BY WriterFacts, WorkflowFacts, BeforeFacts
    <2> QED BY <1>2, <2>1 DEF StageInv
  <1> QED BY <1>3, <1>4, <1>5, <1>6, WriteSolo

LEMMA WriteStatusSolo ==
  ASSUME OneStaff, OrderInv, PaymentInv, RequestInv, SoloInv, NEW s \in Staff,
         WriteJourney(s), exists, request[s].op \in {"cancel", "decline", "edit"}
  PROVE  SoloInv'
  <1> DEFINE r == request[s]
  <1>1. /\ FirstRoundInv(r.seen.data) /\ journey \in Journey
        /\ r.op = "decline" => "offer-ready" \in journey.completed
    BY WriterFacts DEF FreshInv
  <1>2. /\ journey'.offerGen = journey.offerGen /\ journey'.ackGen = journey.ackGen
        /\ journey'.completed = journey.completed /\ journey'.sent = journey.sent
        /\ \/ journey'.data = r.seen.data
           \/ journey'.data.ack = journey.data.ack /\ journey'.data.ackOf = journey.data.ackOf
        /\ \/ journey'.status \in {"cancelled", journey.status}
              /\ journey'.current = journey.current
           \/ /\ journey'.status = "offer_declined" /\ journey'.current = "offer-ready"
              /\ "offer-ready" \in journey.completed
    <2>1. journey' = Write(journey, r)
      BY DEF WriteJourney
    <2>2. CASE r.op = "cancel"
      BY <1>1, <2>1, <2>2 DEF Write, Journey
    <2>3. CASE r.op = "decline"
      <3>1. journey' = OfferDeclined(journey)
        BY <2>1, <2>3 DEF Write
      <3> QED BY <1>1, <2>3, <3>1, OfferDeclinedFields
    <2>4. CASE r.op = "edit"
      BY <1>1, <2>1, <2>4 DEF Write, Journey
    <2> QED BY <2>2, <2>3, <2>4
  <1>3. \A gate \in Gate : exists' /\ faults' = 0 => RoundInv(gate)'
    BY <1>2, RecordedRound DEF Recorded
  <1>4. FirstRoundInv(journey.data)'
    BY <1>1, <1>2, WriterFacts DEF FirstRoundInv
  <1>5. StageInv'
    BY <1>2, WriterFacts DEF StageInv
  <1> QED BY <1>2, <1>3, <1>4, <1>5, WriterFacts, WriteSolo

LEMMA WriteJourneySolo ==
  ASSUME OneStaff, OrderInv, PaymentInv, RequestInv, SoloInv, NEW s \in Staff, WriteJourney(s)
  PROVE  SoloInv'
  <1>1. CASE ~exists
    <2>1. ~exists' /\ UNCHANGED <<journey, mails>>
      BY <1>1 DEF WriteJourney
    <2> QED BY <2>1, StageStays, WriteSolo
  <1>2. CASE exists
    BY <1>2, WriterFacts, WriteSendSolo, WriteResendSolo, WriteReshipSolo, WriteStatusSolo
       DEF Staffs
  <1> QED BY <1>1, <1>2

\* An answer changes neither steps nor generations.
LEMMA WriteAnswerSolo ==
  ASSUME OneStaff, OrderInv, PaymentInv, RequestInv, SoloInv, [Next]_vars,
         NEW c \in Customer, WriteAnswer(c)
  PROVE  SoloInv'
  <1> DEFINE k == click[c]
  <1>1. /\ journey \in Journey /\ k.answer \in Answer /\ k.gen \in Int
        /\ UNCHANGED <<exists, request, mails, faults>>
        /\ StageInv /\ FirstRoundInv(journey.data) /\ journey.completed = journey.sent
    BY DEF OrderInv, TypeOK, KindInv, WriteAnswer, Generation, SoloInv
  <1>2. /\ k.answer \in {"accept offer", "decline offer"} => mails["offer-ready"] # << >>
        /\ k.answer = "decline request" => k.gen > 0
    <2>1. k.pc = "write" /\ ClickInv(k) /\ RequestClickInv(k)
      BY DEF PaymentInv, RequestInv, WriteAnswer
    <2>2. DOMAIN << >> = {}
      OBVIOUS
    <2> QED BY <2>1, <2>2 DEF ClickInv, RequestClickInv
  <1>3. CASE ~TakesEffect(c)
    <2>1. UNCHANGED <<journey, exists, request, mails, faults>>
      BY <1>3 DEF WriteAnswer
    <2>2. \A t \in Staff : FreshInv(request[t])'
      BY <2>1, FreshStays
    <2>3. \A gate \in Gate : exists' /\ faults' = 0 => RoundInv(gate)'
      BY <2>1, RoundStays DEF Unrecorded
    <2> QED BY <2>1, <2>2, <2>3, StageStays DEF SoloInv
  <1>4. CASE TakesEffect(c)
    <2>1. journey' = Answered(journey, k) /\ StillOpen(journey, k)
      BY <1>4 DEF WriteAnswer, TakesEffect
    <2>2. /\ journey'.offerGen = journey.offerGen /\ journey'.ackGen = journey.ackGen
          /\ journey'.completed = journey.completed /\ journey'.sent = journey.sent
          /\ \/ k.answer \in {"accept offer", "decline offer"}
                /\ journey'.data.ack = journey.data.ack
                /\ journey'.data.ackOf = journey.data.ackOf
             \/ k.answer = "accept request" /\ journey'.data.ackOf = k.gen
             \/ k.answer = "decline request" /\ ~journey'.data.ack
          /\ \/ /\ k.answer = "accept offer" /\ journey'.status = "active"
                /\ journey'.current = "payment-sent"
             \/ /\ k.answer = "decline offer" /\ journey'.status = "offer_declined"
                /\ journey'.current = "offer-ready"
             \/ /\ k.answer = "accept request" /\ journey'.status = "active"
                /\ journey'.current = journey.current
             \/ /\ k.answer = "decline request" /\ journey'.status = "request_declined"
                /\ journey'.current = "request-received"
      <3>1. journey \in Journey /\ k.answer \in Answer
        BY <1>1
      <3> HIDE DEF k
      <3>2. CASE k.answer = "accept offer"
        <4> DEFINE w == Answered(journey, k)
        <4>1. /\ w.offerGen = journey.offerGen /\ w.ackGen = journey.ackGen
              /\ w.completed = journey.completed /\ w.sent = journey.sent
          BY <3>1, AnsweredFields
        <4>2. w.data.ack = journey.data.ack /\ w.data.ackOf = journey.data.ackOf
          BY <3>1, <3>2, AnsweredFields
        <4>3. w.status = "active" /\ w.current = "payment-sent"
          BY <3>1, <3>2, AnsweredFields
        <4> QED BY <2>1, <3>2, <4>1, <4>2, <4>3
      <3>3. CASE k.answer = "decline offer"
        <4> DEFINE w == Answered(journey, k)
        <4>1. /\ w.offerGen = journey.offerGen /\ w.ackGen = journey.ackGen
              /\ w.completed = journey.completed /\ w.sent = journey.sent
          BY <3>1, AnsweredFields
        <4>2. w.data.ack = journey.data.ack /\ w.data.ackOf = journey.data.ackOf
          BY <3>1, <3>3, AnsweredFields
        <4>3. w.status = "offer_declined" /\ w.current = "offer-ready"
          BY <3>1, <3>3, AnsweredFields
        <4> QED BY <2>1, <3>3, <4>1, <4>2, <4>3
      <3>4. CASE k.answer = "accept request"
        <4> DEFINE w == Answered(journey, k)
        <4>1. /\ w.offerGen = journey.offerGen /\ w.ackGen = journey.ackGen
              /\ w.completed = journey.completed /\ w.sent = journey.sent
          BY <3>1, AnsweredFields
        <4>2. w.data.ackOf = k.gen /\ w.status = "active" /\ w.current = journey.current
          BY <3>1, <3>4, AnsweredFields
        <4> QED BY <2>1, <3>4, <4>1, <4>2
      <3>5. CASE k.answer = "decline request"
        BY <2>1, <3>1, <3>5, AnsweredFields
      <3> QED BY <3>1, <3>2, <3>3, <3>4, <3>5 DEF Answer
    <2>3. k.answer \in {"accept request", "decline request"} => k.gen = journey.ackGen
      BY <2>1 DEF StillOpen
    <2>4. \A t \in Staff : FreshInv(request[t])'
      BY <1>1, <2>2, FreshStays
    <2>5. \A gate \in Gate : exists' /\ faults' = 0 => RoundInv(gate)'
      BY <1>1, <2>2, RoundStays DEF Unrecorded
    <2>6. FirstRoundInv(journey.data)'
      <3>1. CASE k.answer \in {"accept offer", "decline offer"}
        <4>1. /\ journey'.data.ack = journey.data.ack /\ journey'.data.ackOf = journey.data.ackOf
              /\ journey'.ackGen = journey.ackGen
          BY <2>2, <3>1
        <4> QED BY <1>1, <4>1 DEF FirstRoundInv
      <3>2. CASE k.answer = "accept request"
        <4>1. journey'.data.ackOf = k.gen /\ k.gen = journey.ackGen
              /\ journey'.ackGen = journey.ackGen
          BY <2>2, <2>3, <3>2
        <4>2. journey.ackGen \in Int
          BY AskedFacts
        <4> QED BY <4>1, <4>2 DEF FirstRoundInv
      <3>3. CASE k.answer = "decline request"
        BY <2>2, <3>3 DEF FirstRoundInv
      <3> QED BY <1>1, <3>1, <3>2, <3>3 DEF Answer
    <2>7. StageInv'
      <3>1. k.answer = "decline request" => "request-received" \in journey.completed
        BY <1>1, <1>2, <2>3, AskedFacts
      <3>2. mails["offer-ready"] # << >> =>
              Before("payment-sent") \subseteq journey.completed \cup {"offer-ready"}
        BY <1>1, WorkflowFacts, BeforeFacts DEF StageInv
      <3> QED BY <1>1, <1>2, <2>2, <3>1, <3>2, BeforeFacts DEF StageInv
    <2> QED BY <1>1, <2>2, <2>4, <2>5, <2>6, <2>7 DEF SoloInv
  <1> QED BY <1>3, <1>4

LEMMA NextSolo ==
  ASSUME OneStaff, OrderInv, PaymentInv, RequestInv, SoloInv, [Next]_vars
  PROVE  SoloInv'
  <1>1. ASSUME NEW s \in Staff, StaffStep(s) PROVE SoloInv'
    <2>1. CASE \/ \E step \in Steps : ReadSend(s, step)
               \/ \E step \in Resends : ReadResend(s, step)
               \/ ReadReship(s) \/ ReadCancel(s) \/ ReadDecline(s) \/ ReadEdit(s)
      BY <2>1, ReadFresh, BeginSolo
    <2> QED BY <1>1, <2>1, SendEmailSolo, DropSolo, WriteJourneySolo DEF StaffStep
  <1>2. ASSUME UNCHANGED <<journey, request, mails>>, exists' => exists, faults' = faults
        PROVE  SoloInv'
    <2>1. \A t \in Staff : FreshInv(request[t])'
      BY <1>2, FreshStays
    <2>2. \A gate \in Gate : exists' /\ faults' = 0 => RoundInv(gate)'
      BY <1>2, RoundStays DEF Unrecorded
    <2> QED BY <1>2, <2>1, <2>2, StageStays DEF SoloInv
  <1>3. ASSUME NEW c \in Customer, ReadAnswer(c) PROVE SoloInv'
    <2>1. UNCHANGED <<journey, request, mails, exists, faults>>
      BY <1>3 DEF ReadAnswer, ReadOfferAnswer, ReadRequestAccept, ReadRequestDecline, Click
    <2> QED BY <1>2, <2>1
  <1>4. CASE Remove \/ UNCHANGED vars
    <2>1. UNCHANGED <<journey, request, mails, faults>> /\ (exists' => exists)
      BY <1>4 DEF Remove, vars
    <2> QED BY <1>2, <2>1
  <1> QED BY <1>1, <1>3, <1>4, WriteAnswerSolo DEF Next, CustomerStep

LEMMA InitSolo == Init => SoloInv
  <1> SUFFICES ASSUME Init PROVE SoloInv
    OBVIOUS
  <1>1. /\ NewJourney.ackGen = 0 /\ NewJourney.offerGen = 0
        /\ NewJourney.sent = {} /\ NewJourney.completed = {} /\ ~NewJourney.data.ack
        /\ NewJourney.status = "active" /\ NewJourney.current = "request-received"
        /\ NoRequest.pc = "idle"
    BY DEF NewJourney, NewData, NoRequest
  <1>2. \A gate \in Gate : mails[gate] = << >>
    BY DEF Init
  <1>3. \A s \in Staff : FreshInv(request[s])
    BY <1>1 DEF Init, FreshInv
  <1>4. \A gate \in Gate : RoundInv(gate)
    BY <1>2 DEF RoundInv
  <1>5. StageInv
    BY <1>1, <1>2, BeforeFacts DEF Init, StageInv, Gate
  <1> QED BY <1>1, <1>3, <1>4, <1>5 DEF Init, SoloInv, FirstRoundInv

THEOREM SoloHolds ==
  ASSUME OneStaff
  PROVE  Spec => []SoloInv
  <1>1. OrderInv /\ PaymentInv /\ RequestInv /\ SoloInv /\ [Next]_vars => SoloInv'
    BY NextSolo
  <1> QED BY <1>1, InitSolo, OrderHolds, PaymentInvHolds, RequestInvHolds, PTL DEF Spec

-----------------------------------------------------------------------------
(* What the staff and the customer can count on.                            *)

\* With one staff request at a time and no lost write, of the emails that ask a question
\* only the last one carries the generation the document holds.
THEOREM LastLinksCorrect ==
  ASSUME OneStaff
  PROVE  Spec => []OnlyLastLinksWork
  <1>1. OrderInv /\ PaymentInv /\ RequestInv /\ SoloInv => OnlyLastLinksWork
    <2> SUFFICES ASSUME OrderInv, PaymentInv, RequestInv, SoloInv, Quiet
                 PROVE  /\ OnlyLastMatches("offer-ready", journey.offerGen)
                        /\ OnlyLastMatches("request-received", journey.ackGen)
      BY DEF OnlyLastLinksWork
    <2>1. ASSUME NEW gate \in Gate PROVE OnlyLastMatches(gate, Recorded(gate))
      <3>1. RoundInv(gate) /\ ~Unrecorded(gate)
        BY DEF SoloInv, Quiet, Unrecorded
      <3>2. Recorded(gate) \in Int
        BY AskedFacts DEF Recorded
      <3>3. Recorded(gate) + (IF Unrecorded(gate) THEN 1 ELSE 0) = Recorded(gate)
        BY <3>1, <3>2
      <3>4. ASSUME NEW i \in DOMAIN mails[gate], i < Len(mails[gate])
            PROVE  mails[gate][i] # Recorded(gate)
        <4>1. mails[gate] \in Seq(Generation) /\ Generation = Int
          BY DEF OrderInv, TypeOK, Generation
        <4>2. mails[gate][i] \in Int
          BY <4>1
        <4>3. mails[gate][i] < Recorded(gate)
          BY <3>1, <3>3, <3>4 DEF RoundInv
        <4> QED BY <3>2, <4>2, <4>3
      <3> QED BY <3>4 DEF OnlyLastMatches
    <2> QED BY <2>1 DEF Recorded, Gate
  <1> QED BY <1>1, SoloHolds, OrderHolds, PaymentInvHolds, RequestInvHolds, PTL

\* With one staff request at a time no pickup email leaves before the customer asked for
\* the pickup by a link of the round that was current.
THEOREM PickupCorrect ==
  ASSUME OneStaff
  PROVE  Spec => PickupWasRequested
  <1> DEFINE Requested ==
        \A s \in Staff : Sends(s, "pickup-scheduled") =>
          request[s].seen.ackGen \in PressedGenerations("request-received")
  <1>1. SoloInv /\ [Next]_vars => [Requested]_vars
    BY DEF SoloInv, FreshInv, Sends
  <1> QED BY <1>1, SoloHolds, PTL DEF Spec, PickupWasRequested

\* At rest an offer that was sent is recorded, because its email carries a generation.
LEMMA OfferedAtRest ==
  ASSUME OrderInv, PaymentInv, RequestInv, SoloInv, Quiet, mails["offer-ready"] # << >>
  PROVE  "offer-ready" \in journey.completed
  <1> SUFFICES ASSUME "offer-ready" \notin journey.completed PROVE FALSE
    OBVIOUS
  <1>1. journey.offerGen = 0
    BY AskedFacts DEF SoloInv
  <1>2. RoundInv("offer-ready") /\ ~Unrecorded("offer-ready")
    BY DEF SoloInv, Quiet, Unrecorded, Gate
  <1>3. Recorded("offer-ready") + (IF Unrecorded("offer-ready") THEN 1 ELSE 0) = 0
    BY <1>1, <1>2 DEF Recorded
  <1>4. 1 \in DOMAIN mails["offer-ready"]
    <2>1. mails["offer-ready"] \in Seq(Generation)
      BY DEF OrderInv, TypeOK, Gate
    <2> QED BY <2>1
  <1>5. mails["offer-ready"][1] <= 0
    BY <1>2, <1>3, <1>4 DEF RoundInv
  <1>6. mails["offer-ready"][1] = 1
    BY <1>1, <1>4 DEF PaymentInv, OfferInv
  <1> QED BY <1>5, <1>6

\* A send the page offers at rest has the steps before it, and the status is active.
LEMMA OfferedSend ==
  ASSUME OrderInv, PaymentInv, RequestInv, SoloInv, Quiet,
         NEW step \in Workflow, OffersSend(journey, step), step \notin journey.completed
  PROVE  /\ Before(step) \subseteq journey.completed
         /\ step \in {"pickup-scheduled", "payment-sent"} => journey.status = "active"
         /\ step = "payment-sent" => journey.current = "payment-sent"
  <1>1. StageInv /\ journey \in Journey
    BY AskedFacts DEF SoloInv
  <1>2. /\ ~isHardTerminal(journey)
        /\ ~OffersRequestResend(journey) /\ ~OffersOfferResend(journey)
        /\ step = NEXT_ACTION(journey)
    BY DEF OffersSend
  <1>3. Before(step) \subseteq journey.completed
    <2>1. CASE journey.current = "request-received" /\ "request-received" \in journey.completed
      BY <1>2, <2>1, BeforeFacts DEF NEXT_ACTION
    <2>2. CASE ~(journey.current = "request-received" /\ "request-received" \in journey.completed)
      <3>1. journey.current = step
        BY <1>2, <2>2 DEF NEXT_ACTION
      <3> QED BY <1>1, <3>1, OfferedAtRest DEF StageInv
    <2> QED BY <2>1, <2>2
  <1>4. ASSUME step \in {"pickup-scheduled", "payment-sent"} PROVE journey.status = "active"
    <2>1. "request-received" \in journey.completed
      BY <1>3, <1>4, BeforeFacts, WorkflowFacts
    <2>2. journey.status # "request_declined"
      BY <1>2, <2>1 DEF OffersRequestResend
    <2>3. journey.status # "offer_declined"
      BY <1>1, <1>2, OfferedAtRest DEF StageInv, OffersOfferResend
    <2> QED BY <1>1, <1>2, <2>2, <2>3 DEF isHardTerminal, Journey, Status
  <1>5. step = "payment-sent" => journey.current = "payment-sent"
    BY <1>2 DEF NEXT_ACTION
  <1> QED BY <1>3, <1>4, <1>5

\* With one staff request at a time, what the staff's page offers the service takes.
THEOREM ConsoleCorrect ==
  ASSUME OneStaff
  PROVE  Spec => []ConsoleOffersAccepted
  <1>1. OrderInv /\ PaymentInv /\ RequestInv /\ SoloInv => ConsoleOffersAccepted
    <2> SUFFICES ASSUME OrderInv, PaymentInv, RequestInv, SoloInv
                 PROVE  ConsoleOffersAccepted
      OBVIOUS
    <2>1. journey.completed = journey.sent /\ journey.data \in Data
      BY AskedFacts DEF SoloInv
    <2>2. ASSUME Quiet, NEW step \in Workflow, OffersSend(journey, step),
                 step \notin journey.sent
          PROVE  MaySend(journey, step)
      <3>1. /\ Before(step) \subseteq journey.completed
            /\ step \in {"pickup-scheduled", "payment-sent"} => journey.status = "active"
            /\ step = "payment-sent" => journey.current = "payment-sent"
        BY <2>1, <2>2, OfferedSend
      <3>2. ASSUME step = "pickup-scheduled" PROVE CustomerAcknowledged(journey)
        <4>1. journey.status = "active" /\ "request-received" \in journey.completed
          BY <3>1, <3>2, BeforeFacts
        <4>2. journey.ackGen > 0 => customerAcknowledgedCurrentRequest(journey)
          BY <2>2, <4>1 DEF OffersSend, pickupBlockedPendingRequestAck
        <4>3. journey.data.ack => ~journey.data.declined
          BY DEF RequestInv, AcknowledgedInv
        <4>4. journey.ackGen \in Int
          BY AskedFacts
        <4> QED BY <4>2, <4>3, <4>4
                DEF CustomerAcknowledged, customerAcknowledgedCurrentRequest
      <3>3. ASSUME step = "payment-sent" PROVE CustomerAccepted(journey)
        <4>1. /\ journey.status = "active" /\ journey.current = "payment-sent"
              /\ "offer-ready" \in journey.completed
          BY <3>1, <3>3, BeforeFacts, WorkflowFacts
        <4>2. customerAcceptedCurrentOffer(journey)
          BY <2>2, <4>1 DEF OffersSend, paymentPhaseBlocked
        <4> QED BY <4>2 DEF CustomerAccepted, customerAcceptedCurrentOffer
      <3> QED BY <2>2, <3>1, <3>2, <3>3 DEF MaySend, MayDispatch
    <2>3. ASSUME OffersRequestResend(journey) PROVE MayResend(journey, "request-received")
      BY <2>1, <2>3 DEF OffersRequestResend, MayResend, MayDispatch
    <2>4. ASSUME OffersOfferResend(journey) PROVE MayResend(journey, "offer-ready")
      BY <2>1, <2>4 DEF OffersOfferResend, MayResend, MayDispatch
    <2> QED BY <2>2, <2>3, <2>4 DEF ConsoleOffersAccepted
  <1> QED BY <1>1, SoloHolds, OrderHolds, PaymentInvHolds, RequestInvHolds, PTL
=============================================================================
