-------------------------- MODULE SellPayment_proofs --------------------------
(***************************************************************************)
(* No payment email leaves without an acceptance of the offer that was      *)
(* current when its request read the journey: the argument follows each     *)
(* acceptance in dynamicData, and in the copies that are written back, to    *)
(* the email whose link it came from.                                       *)
(***************************************************************************)
EXTENDS SellJourney_proofs

Offers == mails["offer-ready"]
Taken  == PressedGenerations("offer-ready")

\* The history only grows, so what was pressed stays pressed.
LEMMA HistoryGrows ==
  ASSUME OrderInv, [Next]_vars
  PROVE  /\ DOMAIN Offers \subseteq DOMAIN Offers'
         /\ \A i \in DOMAIN Offers : Offers'[i] = Offers[i]
         /\ Taken \subseteq Taken'
  <1> DEFINE Grows == /\ DOMAIN Offers \subseteq DOMAIN Offers'
                      /\ \A i \in DOMAIN Offers : Offers'[i] = Offers[i]
                      /\ Taken \subseteq Taken'
  <1>1. /\ mails \in [Gate -> Seq(Generation)] /\ pressed \in [Gate -> SUBSET Nat]
        /\ "offer-ready" \in Gate
    BY DEF OrderInv, TypeOK, Gate
  <1>2. ASSUME DOMAIN Offers \subseteq DOMAIN Offers',
               \A i \in DOMAIN Offers : Offers'[i] = Offers[i],
               pressed["offer-ready"] \subseteq pressed'["offer-ready"]
        PROVE  Grows
    BY <1>2 DEF Taken, Offers, PressedGenerations
  <1>3. ASSUME NEW s \in Staff, SendEmail(s) PROVE Grows
    <2>1. CASE request[s].step = "offer-ready"
      <3> DEFINE g == NextGeneration(request[s].seen, request[s].step)
      <3>1. Offers' = Append(Offers, g)
        BY <1>1, <1>3, <2>1 DEF SendEmail, Offers
      <3>2. Offers \in Seq(Generation)
        BY <1>1 DEF Offers
      <3> HIDE DEF g
      <3>3. DOMAIN Offers \subseteq DOMAIN Append(Offers, g)
            /\ \A i \in DOMAIN Offers : Append(Offers, g)[i] = Offers[i]
        BY <3>2
      <3> QED BY <1>2, <1>3, <3>1, <3>3 DEF SendEmail
    <2>2. CASE request[s].step # "offer-ready"
      BY <1>1, <1>2, <1>3, <2>2 DEF SendEmail, Offers
    <2> QED BY <2>1, <2>2
  <1>4. ASSUME UNCHANGED mails,
               UNCHANGED pressed \/ \E gate \in Gate, mail \in Nat : Press(gate, mail)
        PROVE  Grows
    <2>1. pressed["offer-ready"] \subseteq pressed'["offer-ready"]
      BY <1>1, <1>4 DEF Press
    <2> QED BY <1>2, <1>4, <2>1 DEF Offers
  <1>5. ASSUME NEW s \in Staff, StaffStep(s), ~SendEmail(s)
        PROVE  UNCHANGED <<mails, pressed>>
    BY <1>5 DEF StaffStep, ReadSend, ReadResend, ReadReship, ReadCancel, ReadDecline,
                ReadEdit, Begin, WriteJourney, EmailFails, WriteLost
  <1>6. ASSUME NEW c \in Customer, WriteAnswer(c)
        PROVE  /\ UNCHANGED mails
               /\ UNCHANGED pressed \/ \E gate \in Gate, mail \in Nat : Press(gate, mail)
    <2>1. click[c].mail \in Nat
      BY DEF OrderInv, TypeOK
    <2> QED BY <1>6, <2>1 DEF WriteAnswer, Gate
  <1>7. ASSUME NEW c \in Customer, CustomerStep(c), ~WriteAnswer(c)
        PROVE  UNCHANGED <<mails, pressed>>
    BY <1>7 DEF CustomerStep, ReadAnswer, ReadOfferAnswer, ReadRequestAccept, ReadRequestDecline, Click
  <1> QED BY <1>3, <1>4, <1>5, <1>6, <1>7 DEF Next, Remove, vars

\* What the document has to tell a request that reads it.
LEMMA ReadFacts ==
  ASSUME OrderInv, PaymentInv
  PROVE  /\ journey \in Journey
         /\ journey.offerGen \in Int /\ journey.offerGen >= 0
         /\ "offer-ready" \in journey.sent => journey.offerGen > 0
         /\ "payment-sent" \in journey.sent => "offer-ready" \in journey.sent
         /\ journey.completed \subseteq journey.sent
         /\ NewJourney.offerGen = 0
         /\ AcceptedInv(NewJourney.data)
  <1>1. journey \in Journey
    BY DEF OrderInv, TypeOK
  <1>2. "payment-sent" \in journey.sent => "offer-ready" \in journey.sent
    BY WorkflowFacts, BeforeFacts DEF OrderInv, StepsInOrder, InOrder
  <1>3. NewJourney.offerGen = 0 /\ AcceptedInv(NewJourney.data)
    BY DEF NewJourney, NewData, AcceptedInv
  <1> QED BY <1>1, <1>2, <1>3
          DEF Journey, Generation, OrderInv, StepsInOrder, PaymentInv, OfferInv

\* The check of a payment, on the document as it was read.
LEMMA PaymentChecked ==
  ASSUME OrderInv, PaymentInv, journey.offerGen > 0, CustomerAccepted(journey)
  PROVE  journey.offerGen \in Taken
  <1>1. journey.offerGen \in Int /\ journey.offerGen > 0
    BY ReadFacts
  <1>2. EffectiveOfferGen(journey) = journey.offerGen
    BY <1>1 DEF EffectiveOfferGen
  <1>3. journey.data.accepted /\ journey.data.acceptedOf \in Int
    BY ReadFacts, DataFacts DEF CustomerAccepted, Data, Generation
  <1>4. (IF journey.data.acceptedOf > 0 THEN journey.data.acceptedOf ELSE 1) \in Taken
    BY <1>3 DEF PaymentInv, AcceptedInv, Taken
  <1>5. CASE journey.data.acceptedOf > 0
    BY <1>2, <1>4, <1>5 DEF CustomerAccepted
  <1>6. CASE ~(journey.data.acceptedOf > 0)
    <2>1. journey.offerGen = 1
      BY <1>1, <1>2, <1>6 DEF CustomerAccepted
    <2> QED BY <1>4, <1>6, <2>1
  <1> QED BY <1>5, <1>6

\* A copy, a click and an acceptance that are left alone stay good.
LEMMA SeenStays ==
  ASSUME OrderInv, PaymentInv, [Next]_vars, NEW s \in Staff,
         request'[s].seen = request[s].seen,
         request'[s].step = request[s].step,
         request'[s].pc = "send" => request[s].pc = "send",
         journey'.offerGen = 0 => journey.offerGen = 0
  PROVE  SeenInv(request[s])'
  BY HistoryGrows DEF PaymentInv, SeenInv, AcceptedInv, Taken

LEMMA ClickStays ==
  ASSUME OrderInv, PaymentInv, [Next]_vars, NEW c \in Customer,
         click'[c] = click[c]
  PROVE  ClickInv(click[c])'
  BY HistoryGrows DEF PaymentInv, ClickInv, Offers

LEMMA AcceptedStays ==
  ASSUME OrderInv, PaymentInv, [Next]_vars, journey'.data = journey.data
  PROVE  AcceptedInv(journey.data)'
  BY HistoryGrows DEF PaymentInv, AcceptedInv, Taken

LEMMA OfferStays ==
  ASSUME PaymentInv, UNCHANGED <<journey, mails>>
  PROVE  OfferInv'
  BY DEF PaymentInv, OfferInv

-----------------------------------------------------------------------------
(* Staff requests.                                                          *)

LEMMA BeginPayment ==
  ASSUME OrderInv, PaymentInv, [Next]_vars, NEW s \in Staff, NEW op \in Staffs,
         NEW step, NEW pc,
         step = "payment-sent" =>
           op \in {"send", "resend"} /\ journey.offerGen \in Taken,
         Begin(s, op, step, pc)
  PROVE  PaymentInv'
  <1> DEFINE r == [pc |-> pc, op |-> op, step |-> step, seen |-> Kept(op, journey)]
  <1>1. /\ r.seen.offerGen \in {0, journey.offerGen}
        /\ r.seen.data \in {NewJourney.data, journey.data}
        /\ op \in {"send", "resend"} => r.seen.offerGen = journey.offerGen
    BY ReadFacts DEF Kept, NewJourney, Staffs
  <1>2. /\ r.seen.offerGen >= 0
        /\ journey.offerGen = 0 => r.seen.offerGen = 0
        /\ AcceptedInv(r.seen.data)
        /\ r.step = "payment-sent" => r.seen.offerGen \in Taken
    BY <1>1, ReadFacts DEF PaymentInv
  <1> HIDE DEF r
  <1>3. /\ request' = [request EXCEPT ![s] = r]
        /\ UNCHANGED <<journey, click, mails, pressed>>
    BY DEF Begin, r
  <1>4. SeenInv(request[s])'
    <2>1. request'[s] = r
      BY <1>3 DEF OrderInv, TypeOK
    <2> QED BY <1>2, <1>3, <2>1 DEF SeenInv, AcceptedInv, PressedGenerations, Taken
  <1>5. ASSUME NEW t \in Staff, t # s PROVE SeenInv(request[t])'
    <2>1. request'[t] = request[t]
      BY <1>3, <1>5 DEF OrderInv, TypeOK
    <2> QED BY <1>3, <2>1, SeenStays
  <1>6. ASSUME NEW c \in Customer PROVE ClickInv(click[c])'
    BY <1>3, ClickStays
  <1>7. OfferInv' /\ AcceptedInv(journey.data)'
    BY <1>3, OfferStays, AcceptedStays
  <1> QED BY <1>4, <1>5, <1>6, <1>7 DEF PaymentInv

LEMMA ReadPayment ==
  ASSUME OrderInv, PaymentInv, [Next]_vars, NEW s \in Staff,
         \/ \E step \in Steps : ReadSend(s, step)
         \/ \E step \in Resends : ReadResend(s, step)
         \/ ReadReship(s) \/ ReadCancel(s) \/ ReadDecline(s) \/ ReadEdit(s)
  PROVE  PaymentInv'
  <1>1. ASSUME NEW step \in Steps, ReadSend(s, step) PROVE PaymentInv'
    <2>1. step = "payment-sent" => journey.offerGen \in Taken
      BY <1>1, PaymentChecked, ReadFacts, BeforeFacts, WorkflowFacts
      DEF ReadSend, MaySend, MayDispatch
    <2> QED BY <1>1, <2>1, BeginPayment DEF ReadSend, Staffs
  <1>2. ASSUME NEW step \in Resends, ReadResend(s, step) PROVE PaymentInv'
    <2>1. step = "payment-sent" => journey.offerGen \in Taken
      BY <1>2, PaymentChecked, ReadFacts DEF ReadResend, MayResend, MayDispatch
    <2> QED BY <1>2, <2>1, BeginPayment DEF ReadResend, Staffs
  <1>3. ASSUME ReadReship(s) PROVE PaymentInv'
    BY <1>3, BeginPayment DEF ReadReship, Staffs
  <1>4. ASSUME ReadCancel(s) PROVE PaymentInv'
    BY <1>4, BeginPayment DEF ReadCancel, Staffs
  <1>5. ASSUME ReadDecline(s) PROVE PaymentInv'
    BY <1>5, BeginPayment DEF ReadDecline, Staffs
  <1>6. ASSUME ReadEdit(s) PROVE PaymentInv'
    BY <1>6, BeginPayment DEF ReadEdit, Staffs
  <1> QED BY <1>1, <1>2, <1>3, <1>4, <1>5, <1>6

LEMMA SendEmailPayment ==
  ASSUME OrderInv, PaymentInv, [Next]_vars, NEW s \in Staff, SendEmail(s)
  PROVE  PaymentInv'
  <1>1. /\ request[s] \in [pc : {"idle", "send", "write"}, op : Ops \cup {"none"},
                           step : StepKey \cup {"none"}, seen : Journey]
        /\ mails \in [Gate -> Seq(Generation)]
    BY DEF OrderInv, TypeOK
  <1>2. \A t \in Staff : SeenInv(request[t])'
    <2>1. request' = [request EXCEPT ![s] = [request[s] EXCEPT !.pc = "write"]]
      BY DEF SendEmail
    <2>2. ASSUME NEW t \in Staff
          PROVE  /\ request'[t].seen = request[t].seen
                 /\ request'[t].step = request[t].step
                 /\ request'[t].pc = "send" => request[t].pc = "send"
      <3>1. CASE t = s
        BY <1>1, <2>1, <3>1 DEF OrderInv, TypeOK
      <3>2. CASE t # s
        BY <2>1, <3>2 DEF OrderInv, TypeOK
      <3> QED BY <3>1, <3>2
    <2> QED BY <2>2, SeenStays DEF SendEmail
  <1>3. ASSUME NEW c \in Customer PROVE ClickInv(click[c])'
    BY ClickStays DEF SendEmail
  <1>4. OfferInv'
    <2>1. CASE request[s].step # "offer-ready"
      <3>1. Offers' = Offers
        BY <1>1, <2>1 DEF SendEmail, Offers, Gate
      <3> QED BY <3>1 DEF SendEmail, PaymentInv, OfferInv, Offers
    <2>2. CASE request[s].step = "offer-ready" /\ journey.offerGen = 0
      <3>1. request[s].seen.offerGen = 0 /\ "offer-ready" \notin request[s].seen.completed
        BY <2>2 DEF OrderInv, CopyInv, PaymentInv, SeenInv, OfferInv
      <3>2. NextGeneration(request[s].seen, request[s].step) = 1
        BY <2>2, <3>1 DEF NextGeneration, EffectiveOfferGen
      <3>3. Offers' = Append(Offers, 1) /\ Offers \in Seq(Generation)
        BY <1>1, <2>2, <3>2 DEF SendEmail, Offers, Gate
      <3>4. \A i \in DOMAIN Append(Offers, 1) : Append(Offers, 1)[i] = 1
        <4>1. \A i \in DOMAIN Offers : Offers[i] = 1
          BY <2>2 DEF PaymentInv, OfferInv, Offers
        <4> QED BY <3>3, <4>1
      <3> QED BY <3>3, <3>4 DEF SendEmail, PaymentInv, OfferInv, Offers
    <2>3. CASE journey.offerGen # 0
      BY <2>3 DEF SendEmail, PaymentInv, OfferInv
    <2> QED BY <2>1, <2>2, <2>3
  <1>5. AcceptedInv(journey.data)'
    BY AcceptedStays DEF SendEmail
  <1> QED BY <1>2, <1>3, <1>4, <1>5 DEF PaymentInv

LEMMA IdlePayment ==
  ASSUME OrderInv, PaymentInv, NEW s \in Staff, request'[s] = NoRequest
  PROVE  SeenInv(request[s])'
  <1>1. NoRequest.seen.offerGen = 0 /\ ~NoRequest.seen.data.accepted /\ NoRequest.pc = "idle"
    BY DEF NoRequest, NewJourney, NewData
  <1> QED BY <1>1 DEF SeenInv, AcceptedInv

LEMMA DropPayment ==
  ASSUME OrderInv, PaymentInv, [Next]_vars, NEW s \in Staff, EmailFails(s) \/ WriteLost(s)
  PROVE  PaymentInv'
  <1>1. /\ request' = [request EXCEPT ![s] = NoRequest]
        /\ UNCHANGED <<journey, click, mails>>
    BY DEF EmailFails, WriteLost
  <1>2. ASSUME NEW t \in Staff PROVE SeenInv(request[t])'
    <2>1. request'[t] = IF t = s THEN NoRequest ELSE request[t]
      BY <1>1 DEF OrderInv, TypeOK
    <2>2. CASE t = s
      BY <2>1, <2>2, IdlePayment
    <2>3. CASE t # s
      BY <1>1, <2>1, <2>3, SeenStays
    <2> QED BY <2>2, <2>3
  <1>3. ASSUME NEW c \in Customer PROVE ClickInv(click[c])'
    BY <1>1, ClickStays
  <1> QED BY <1>1, <1>2, <1>3, OfferStays, AcceptedStays DEF PaymentInv

\* A write never takes the first offer back, and an acceptance it writes is the
\* one in the document or the one in the copy.
LEMMA WriteOffer ==
  ASSUME NEW j \in Journey, NEW r, r.seen \in Journey, r.op \in Staffs,
         r.op = "send" => r.step \in Workflow,
         j.offerGen >= 0, r.seen.offerGen >= 0,
         "offer-ready" \in j.sent => j.offerGen > 0
  PROVE  /\ Write(j, r).offerGen >= 0
         /\ "offer-ready" \in Write(j, r).sent => Write(j, r).offerGen > 0
         /\ Write(j, r).offerGen = 0 => j.offerGen = 0
         /\ \/ ~Write(j, r).data.accepted
            \/ \E d \in {j.data, r.seen.data} :
                 Write(j, r).data.accepted = d.accepted /\ Write(j, r).data.acceptedOf = d.acceptedOf
  <1>1. /\ j.offerGen \in Int /\ r.seen.offerGen \in Int
        /\ j.data \in Data /\ r.seen.data \in Data
    BY DataFacts DEF Journey, Generation
  <1>2. r.step = "offer-ready" =>
          NextGeneration(r.seen, r.step) \in Int /\ NextGeneration(r.seen, r.step) > 0
    BY <1>1 DEF NextGeneration, EffectiveOfferGen
  <1>3. CASE r.op = "send"
    <2>1. Write(j, r) = Sent(j, r)
      BY <1>3 DEF Write
    <2>2. /\ Sent(j, r).data = j.data
          /\ Sent(j, r).sent = j.sent \cup {r.step}
          /\ Sent(j, r).offerGen =
               IF r.step = "offer-ready" THEN NextGeneration(r.seen, r.step) ELSE j.offerGen
      BY DEF Sent, Journey
    <2> QED BY <1>1, <1>2, <2>1, <2>2
  <1>4. CASE r.op = "resend"
    <2>1. Write(j, r) = Resent(j, r)
      BY <1>4 DEF Write
    <2>2. CASE r.step \in j.sent /\ r.step = "offer-ready"
      <3>1. /\ Resent(j, r).offerGen = NextGeneration(r.seen, r.step)
            /\ Resent(j, r).sent = j.sent
            /\ ~Resent(j, r).data.accepted
        BY <1>1, <2>2 DEF Resent, Journey, Data
      <3> QED BY <1>2, <2>1, <2>2, <3>1
    <2>3. CASE r.step \in j.sent /\ r.step = "request-received"
      <3>1. /\ Resent(j, r).offerGen = j.offerGen
            /\ Resent(j, r).sent = j.sent
            /\ Resent(j, r).data.accepted = j.data.accepted
            /\ Resent(j, r).data.acceptedOf = j.data.acceptedOf
        BY <1>1, <2>3 DEF Resent, Journey, Data
      <3> QED BY <1>1, <2>1, <3>1
    <2>4. CASE ~(r.step \in j.sent /\ r.step \in Gate)
      BY <1>1, <2>1, <2>4 DEF Resent, Gate
    <2> QED BY <2>2, <2>3, <2>4 DEF Gate
  <1>5. CASE r.op = "reship"
    <2>1. Write(j, r) = Reshipped(j, r)
      BY <1>5 DEF Write
    <2>2. /\ Reshipped(j, r).offerGen = j.offerGen
          /\ Reshipped(j, r).sent = j.sent \cup {"device-reship"}
          /\ Reshipped(j, r).data.accepted = r.seen.data.accepted
          /\ Reshipped(j, r).data.acceptedOf = r.seen.data.acceptedOf
      BY <1>1 DEF Reshipped, Journey, Data
    <2> QED BY <1>1, <2>1, <2>2
  <1>6. CASE r.op = "decline"
    <2>1. Write(j, r) = OfferDeclined(j)
      BY <1>6 DEF Write
    <2>2. /\ OfferDeclined(j).offerGen = j.offerGen
          /\ OfferDeclined(j).sent = j.sent
          /\ ~OfferDeclined(j).data.accepted
      BY <1>1 DEF OfferDeclined, Journey, Data
    <2> QED BY <1>1, <2>1, <2>2
  <1>7. CASE r.op = "cancel"
    BY <1>1, <1>7 DEF Write, Journey
  <1>8. CASE r.op = "edit"
    BY <1>1, <1>8 DEF Write, Journey
  <1> QED BY <1>3, <1>4, <1>5, <1>6, <1>7, <1>8 DEF Staffs

LEMMA WriteJourneyPayment ==
  ASSUME OrderInv, PaymentInv, [Next]_vars, NEW s \in Staff, WriteJourney(s)
  PROVE  PaymentInv'
  <1>1. /\ journey \in Journey /\ request[s].seen \in Journey
        /\ request[s].op \in Staffs
        /\ request[s].op = "send" => request[s].step \in Workflow
        /\ journey.offerGen >= 0 /\ request[s].seen.offerGen >= 0
        /\ "offer-ready" \in journey.sent => journey.offerGen > 0
    BY DEF OrderInv, TypeOK, KindInv, CopyInv, WriteJourney, Staffs,
           PaymentInv, OfferInv, SeenInv
  <1>2. /\ journey'.offerGen >= 0
        /\ "offer-ready" \in journey'.sent => journey'.offerGen > 0
        /\ journey'.offerGen = 0 => journey.offerGen = 0
        /\ \/ ~journey'.data.accepted
           \/ \E d \in {journey.data, request[s].seen.data} :
                journey'.data.accepted = d.accepted /\ journey'.data.acceptedOf = d.acceptedOf
    <2>1. CASE exists
      BY <1>1, <2>1, WriteOffer DEF WriteJourney
    <2>2. CASE ~exists
      BY <1>1, <2>2 DEF WriteJourney
    <2> QED BY <2>1, <2>2
  <1>3. OfferInv'
    BY <1>2 DEF WriteJourney, PaymentInv, OfferInv
  <1>4. AcceptedInv(journey.data)'
    <2>1. AcceptedInv(journey.data) /\ AcceptedInv(request[s].seen.data)
      BY DEF PaymentInv, SeenInv
    <2> QED BY <1>2, <2>1, HistoryGrows DEF AcceptedInv, Taken
  <1>5. ASSUME NEW t \in Staff PROVE SeenInv(request[t])'
    <2>1. request'[t] = IF t = s THEN NoRequest ELSE request[t]
      BY DEF WriteJourney, OrderInv, TypeOK
    <2>2. CASE t = s
      BY <2>1, <2>2, IdlePayment
    <2>3. CASE t # s
      BY <1>2, <2>1, <2>3, SeenStays
    <2> QED BY <2>2, <2>3
  <1>6. ASSUME NEW c \in Customer PROVE ClickInv(click[c])'
    BY ClickStays DEF WriteJourney
  <1> QED BY <1>3, <1>4, <1>5, <1>6 DEF PaymentInv

-----------------------------------------------------------------------------
(* The customer.                                                            *)

LEMMA FirstOffer ==
  ASSUME OrderInv, PaymentInv, ~(EffectiveOfferGen(journey) > 0)
  PROVE  journey.offerGen = 0
  <1>1. journey.offerGen \in Int /\ journey.offerGen >= 0
    BY ReadFacts
  <1>2. CASE journey.offerGen > 0
    BY <1>2 DEF EffectiveOfferGen
  <1> QED BY <1>1, <1>2

LEMMA ClickPayment ==
  ASSUME OrderInv, PaymentInv, [Next]_vars, NEW c \in Customer, NEW answer, NEW gate,
         NEW mail, NEW gen \in Int,
         answer \in {"accept offer", "decline offer"} =>
           gate = "offer-ready" /\ gen = EffectiveOfferGen(journey),
         Click(c, answer, gate, mail, gen)
  PROVE  PaymentInv'
  <1> DEFINE k == [pc |-> "write", answer |-> answer, mail |-> mail, gen |-> gen]
  <1>1. click' = [click EXCEPT ![c] = k] /\ UNCHANGED <<journey, request, mails, pressed>>
    BY DEF Click
  <1>2. ClickInv(click[c])'
    <2>1. click'[c] = k
      BY <1>1 DEF OrderInv, TypeOK
    <2>2. CASE answer \in {"accept offer", "decline offer"}
      <3>1. mail \in DOMAIN Offers /\ (gen > 0 => Offers[mail] = gen)
        BY <2>2 DEF Click, Offers
      <3>2. ASSUME ~(gen > 0) PROVE Offers[mail] = 1
        <4>1. journey.offerGen = 0
          BY <2>2, <3>2, FirstOffer
        <4> QED BY <3>1, <4>1 DEF PaymentInv, OfferInv, Offers
      <3>3. /\ mail \in DOMAIN Offers
            /\ Offers[mail] = IF gen > 0 THEN gen ELSE 1
            /\ Offers' = Offers
        BY <1>1, <3>1, <3>2 DEF Offers
      <3>4. k.mail = mail /\ k.gen = gen
        OBVIOUS
      <3> HIDE DEF k
      <3> QED BY <2>1, <3>3, <3>4 DEF ClickInv, Offers
    <2>3. CASE answer \notin {"accept offer", "decline offer"}
      <3>1. k.answer \notin {"accept offer", "decline offer"}
        BY <2>3
      <3> HIDE DEF k
      <3> QED BY <2>1, <3>1 DEF ClickInv
    <2> QED BY <2>2, <2>3
  <1>3. ASSUME NEW t \in Customer, t # c PROVE ClickInv(click[t])'
    <2>1. click'[t] = click[t]
      BY <1>1, <1>3 DEF OrderInv, TypeOK
    <2> QED BY <2>1, ClickStays
  <1>4. ASSUME NEW s \in Staff PROVE SeenInv(request[s])'
    BY <1>1, SeenStays
  <1> QED BY <1>1, <1>2, <1>3, <1>4, OfferStays, AcceptedStays DEF PaymentInv

LEMMA WriteAnswerPayment ==
  ASSUME OrderInv, PaymentInv, [Next]_vars, NEW c \in Customer, WriteAnswer(c)
  PROVE  PaymentInv'
  <1> DEFINE k == click[c]
  <1>1. /\ journey \in Journey /\ journey.data \in Data
        /\ k \in [pc : {"idle", "write"}, answer : Answer \cup {"none"},
                  mail : Nat, gen : Generation]
        /\ k.answer \in Answer
        /\ ClickInv(k)
        /\ UNCHANGED <<request, mails>>
    BY DataFacts DEF OrderInv, TypeOK, KindInv, WriteAnswer, PaymentInv
  <1>2. /\ journey'.offerGen = journey.offerGen /\ journey'.sent = journey.sent
        /\ \/ journey'.data.accepted = journey.data.accepted
              /\ journey'.data.acceptedOf = journey.data.acceptedOf
           \/ ~journey'.data.accepted
           \/ /\ k.answer = "accept offer" /\ TakesEffect(c)
              /\ journey'.data.acceptedOf = k.gen
    <2>1. CASE TakesEffect(c) /\ k.answer = "accept offer"
      BY <1>1, <2>1 DEF WriteAnswer, Answered, Journey, Data
    <2>2. CASE TakesEffect(c) /\ k.answer = "decline offer"
      BY <1>1, <2>2 DEF WriteAnswer, Answered, OfferDeclined, Journey, Data
    <2>3. CASE TakesEffect(c) /\ k.answer = "accept request"
      BY <1>1, <2>3 DEF WriteAnswer, Answered, Journey, Data
    <2>4. CASE TakesEffect(c) /\ k.answer = "decline request"
      BY <1>1, <2>4 DEF WriteAnswer, Answered, Journey, Data
    <2>5. CASE ~TakesEffect(c)
      BY <2>5 DEF WriteAnswer
    <2> QED BY <1>1, <2>1, <2>2, <2>3, <2>4, <2>5 DEF Answer
  <1>3. OfferInv'
    BY <1>1, <1>2 DEF PaymentInv, OfferInv
  <1>4. AcceptedInv(journey.data)'
    <2>1. CASE k.answer = "accept offer" /\ TakesEffect(c)
      <3>1. k.mail \in DOMAIN Offers /\ Offers[k.mail] = IF k.gen > 0 THEN k.gen ELSE 1
        BY <1>1, <2>1 DEF TakesEffect, ClickInv, Offers
      <3>2. k.mail \in pressed'["offer-ready"]
        BY <2>1 DEF WriteAnswer, Press, OrderInv, TypeOK, Gate
      <3>3. (IF k.gen > 0 THEN k.gen ELSE 1) \in Taken'
        BY <1>1, <3>1, <3>2 DEF Taken, PressedGenerations, Offers
      <3>4. journey'.data.acceptedOf = k.gen
        BY <1>1, <2>1 DEF WriteAnswer, Answered, Journey, Data
      <3> QED BY <3>3, <3>4 DEF AcceptedInv, Taken
    <2>2. CASE ~(k.answer = "accept offer" /\ TakesEffect(c))
      BY <1>2, <2>2, HistoryGrows DEF PaymentInv, AcceptedInv, Taken
    <2> QED BY <2>1, <2>2
  <1>5. ASSUME NEW s \in Staff PROVE SeenInv(request[s])'
    BY <1>1, <1>2, SeenStays
  <1>6. ASSUME NEW t \in Customer PROVE ClickInv(click[t])'
    <2>1. click'[t] = IF t = c THEN NoClick ELSE click[t]
      BY DEF WriteAnswer, OrderInv, TypeOK
    <2>2. CASE t = c
      BY <2>1, <2>2 DEF ClickInv, NoClick
    <2>3. CASE t # c
      BY <2>1, <2>3, ClickStays
    <2> QED BY <2>2, <2>3
  <1> QED BY <1>3, <1>4, <1>5, <1>6 DEF PaymentInv

LEMMA NextPayment == OrderInv /\ PaymentInv /\ [Next]_vars => PaymentInv'
  <1> SUFFICES ASSUME OrderInv, PaymentInv, [Next]_vars PROVE PaymentInv'
    OBVIOUS
  <1>1. ASSUME NEW s \in Staff, StaffStep(s) PROVE PaymentInv'
    BY <1>1, ReadPayment, SendEmailPayment, DropPayment, WriteJourneyPayment DEF StaffStep
  <1>2. ASSUME NEW c \in Customer, CustomerStep(c) PROVE PaymentInv'
    <2>1. journey.ackGen \in Int /\ EffectiveOfferGen(journey) \in Int
      BY DEF OrderInv, TypeOK, Journey, Generation, EffectiveOfferGen
    <2>2. ASSUME NEW mail \in 1..MaxMails,
                 \/ ReadOfferAnswer(c, "accept offer", mail)
                 \/ ReadOfferAnswer(c, "decline offer", mail)
          PROVE  PaymentInv'
      BY <2>1, <2>2, ClickPayment DEF ReadOfferAnswer
    <2>3. ASSUME NEW mail \in 1..MaxMails,
                 ReadRequestAccept(c, mail) \/ ReadRequestDecline(c, mail)
          PROVE  PaymentInv'
      BY <2>1, <2>3, ClickPayment DEF ReadRequestAccept, ReadRequestDecline
    <2> QED BY <1>2, <2>2, <2>3, WriteAnswerPayment DEF CustomerStep, ReadAnswer
  <1>3. ASSUME UNCHANGED <<journey, request, click, mails, pressed>> PROVE PaymentInv'
    BY <1>3 DEF PaymentInv, OfferInv, AcceptedInv, SeenInv, ClickInv, PressedGenerations
  <1> QED BY <1>1, <1>2, <1>3 DEF Next, Remove, vars

LEMMA InitPayment == Init => PaymentInv
  <1> SUFFICES ASSUME Init PROVE PaymentInv
    OBVIOUS
  <1>1. /\ NewJourney.offerGen = 0 /\ NewJourney.sent = {}
        /\ ~NewJourney.data.accepted
    BY DEF NewJourney, NewData
  <1>2. NoRequest.seen = NewJourney /\ NoRequest.pc = "idle" /\ NoClick.pc = "idle"
    BY DEF NoRequest, NoClick
  <1>3. mails["offer-ready"] = << >>
    BY DEF Init, Gate
  <1>4. OfferInv
    BY <1>1, <1>3 DEF Init, OfferInv
  <1>5. AcceptedInv(journey.data)
    BY <1>1 DEF Init, AcceptedInv
  <1>6. ASSUME NEW s \in Staff PROVE SeenInv(request[s])
    BY <1>1, <1>2 DEF Init, SeenInv, AcceptedInv
  <1>7. ASSUME NEW c \in Customer PROVE ClickInv(click[c])
    BY <1>2 DEF Init, ClickInv
  <1> QED BY <1>4, <1>5, <1>6, <1>7 DEF PaymentInv

-----------------------------------------------------------------------------
\* However many requests and clicks interleave, and whatever stale dynamicData
\* they write back, every acceptance in the document was given by a link.
THEOREM PaymentInvHolds == Spec => []PaymentInv
  BY InitPayment, NextPayment, OrderHolds, PTL DEF Spec

\* A payment email leaves only after the customer accepted an offer of the
\* generation its staff request read (assertCustomerAcceptedCurrentOffer).
THEOREM PaymentCorrect == Spec => PaymentWasAccepted
  <1>1. PaymentInv /\ [Next]_vars =>
          [\A s \in Staff : Sends(s, "payment-sent") =>
             request[s].seen.offerGen \in PressedGenerations("offer-ready")]_vars
    BY DEF PaymentInv, SeenInv, Sends
  <1> QED BY <1>1, PaymentInvHolds, PTL DEF Spec, PaymentWasAccepted
=============================================================================
