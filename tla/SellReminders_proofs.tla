------------------------- MODULE SellReminders_proofs -------------------------
(***************************************************************************)
(* However many passes of the scheduler overlap, a reminder is claimed once *)
(* and a journey is closed only after its reminders, as long as no write    *)
(* puts an older value back over a newer one.                               *)
(***************************************************************************)
EXTENDS SellRemindersProps, SellJourney_proofs

APass == [pc : {"idle", "found", "email"}, job : Job \cup {"none"},
          gen : Int, at : Nat, memory : Memory]

LEMMA NewMemoryType == NewMemory \in Memory
  BY DEF NewMemory, Memory, Unset

LEMMA NoPassFacts == NoPass \in APass /\ NoPass.pc = "idle"
  BY NewMemoryType DEF NoPass, APass

LEMMA NoPassInv == PassInv(NoPass)
  BY NoPassFacts DEF PassInv

LEMMA JobFacts ==
  ASSUME NEW job \in Job
  PROVE  /\ StepOf(job) \in Reminded
         /\ job # "no action" => job \in Reminded /\ StepOf(job) = job
         /\ job = "offer-ready" <=> StepOf(job) = "offer-ready"
  BY DEF Job, StepOf, Reminded

\* The numbers of the reminders are 1 to 3.
LEMMA NumberFacts ==
  ASSUME NEW k \in APass, PassInv(k), k.pc = "found", ~CloseDue(k)
  PROVE  /\ k.job \in Reminded
         /\ Count(k) \in 0..2
         /\ Number(k) = Count(k) + 1
         /\ TheReminder(k) \in Reminder
         /\ TheReminder(k) = Nth(k.job, k.gen, Number(k))
  <1>1. k.job \in Job /\ ReminderDue(k) /\ k.memory \in Memory
        /\ (k.job = "request-received" => k.memory.count < 1)
        /\ (k.job # "offer-ready" => k.gen = 0)
    BY DEF PassInv, APass
  <1>2. k.job \in Reminded
    BY <1>1 DEF ReminderDue, Job
  <1>3. k.memory.count \in {-1} \cup 0..3
    BY <1>1 DEF Memory, Unset
  <1>4. Count(k) \in 0..3
    BY <1>3 DEF Count, Unset
  <1>5. Count(k) < 3
    <2>1. CASE k.job = "request-received"
      BY <1>1, <1>3, <2>1 DEF Count, Unset
    <2>2. CASE k.job # "request-received"
      BY <1>1, <1>2, <2>2 DEF ReminderDue, Reminded
    <2> QED BY <2>1, <2>2
  <1>6. Count(k) \in 0..2 /\ Number(k) = Count(k) + 1
    BY <1>4, <1>5 DEF Number
  <1>7. k.gen \in Int
    BY DEF APass
  <1> QED BY <1>1, <1>2, <1>6, <1>7 DEF TheReminder, Reminder, Nth

-----------------------------------------------------------------------------
(* Types.                                                                   *)

LEMMA ReminderInitInv == ReminderInit => OrderInv /\ ReminderInv
  <1> SUFFICES ASSUME ReminderInit PROVE OrderInv /\ ReminderInv
    OBVIOUS
  <1>1. OrderInv
    BY InitOrder DEF ReminderInit
  <1>2. \A p \in Pass : pass[p] = NoPass
    BY DEF ReminderInit
  <1>3. /\ age \in [Reminded -> Seq(Nat)]
        /\ memory \in [Reminded -> Memory]
        /\ kept \in [Staff -> [Reminded -> Memory]]
        /\ pass \in [Pass -> APass]
    BY NewMemoryType, NoPassFacts DEF ReminderInit
  <1>4. ReminderTypeOK
    BY <1>1, <1>3 DEF ReminderInit, ReminderTypeOK, OrderInv, APass
  <1>5. \A p \in Pass : PassInv(pass[p]) /\ pass[p].pc = "idle"
    BY <1>2, NoPassInv, NoPassFacts
  <1>6. ASSUME NEW step \in Reminded
        PROVE  CountedInv(step, memory[step]) /\ LatestInv(step)
    <2>1. memory[step] = NewMemory /\ claimed = {}
      BY DEF ReminderInit
    <2>2. NewMemory.count = -1 /\ NewMemory.gen = 0
      BY DEF NewMemory, Unset
    <2>3. journey.offerGen = 0
      BY DEF ReminderInit, Init, NewJourney
    <2> QED BY <2>1, <2>2, <2>3 DEF CountedInv, LatestInv
  <1> QED BY <1>1, <1>4, <1>5, <1>6 DEF ReminderInv, ClaimInv

\* What leaves the memory, the passes and the claims alone keeps the invariant,
\* as long as the generation of the offer does not go back.
LEMMA Beside ==
  ASSUME ReminderInv, ReminderTypeOK',
         UNCHANGED <<pass, claimed, returned>>,
         ~wentBack' =>
           ~wentBack /\ memory' = memory /\ journey'.offerGen >= journey.offerGen,
         journey.offerGen \in Int, journey'.offerGen \in Int
  PROVE  ReminderInv'
  <1>1. ASSUME NEW p \in Pass PROVE PassInv(pass[p])'
    BY DEF ReminderInv, PassInv
  <1>2. ASSUME ~wentBack' PROVE ClaimInv'
    <2>1. memory \in [Reminded -> Memory]
      BY DEF ReminderInv, ReminderTypeOK
    <2>2. ASSUME NEW step \in Reminded
          PROVE  CountedInv(step, memory[step])' /\ LatestInv(step)'
      <3>1. memory[step].gen \in Int
        BY <2>1 DEF Memory
      <3> QED BY <1>2, <3>1 DEF ReminderInv, ClaimInv, CountedInv, LatestInv
    <2>3. ASSUME NEW p \in Pass, pass'[p].pc = "found"
          PROVE  CountedInv(StepOf(pass[p].job), pass[p].memory)'
      BY <1>2, <2>3 DEF ReminderInv, ClaimInv, CountedInv
    <2> QED BY <2>2, <2>3 DEF ClaimInv
  <1> QED BY <1>1, <1>2 DEF ReminderInv, ClaimInv

LEMMA GenerationTypes ==
  ASSUME OrderInv
  PROVE  journey \in Journey /\ journey.offerGen \in Int
  BY DEF OrderInv, TypeOK, Journey, Generation

LEMMA UnseenInv ==
  ASSUME OrderInv, OrderInv', ReminderInv, Unseen, journey'.offerGen = journey.offerGen
  PROVE  ReminderInv'
  <1>1. ReminderTypeOK'
    BY DEF ReminderInv, ReminderTypeOK, Unseen, OrderInv
  <1>2. journey.offerGen \in Int /\ journey'.offerGen \in Int
    BY GenerationTypes
  <1> QED BY <1>1, <1>2, Beside DEF Unseen

-----------------------------------------------------------------------------
(* The steps of a pass.                                                     *)

LEMMA FindInv ==
  ASSUME OrderInv, ReminderInv, NEW p \in Pass, NEW job \in Job, Find(p, job)
  PROVE  OrderInv' /\ ReminderInv'
  <1> DEFINE k == Copy(job)
  <1>1. OrderInv'
    BY NextOrder DEF Find
  <1>2. StepOf(job) \in Reminded
    BY JobFacts
  <1>3. /\ k.pc = "found" /\ k.job = job /\ k.memory = memory[StepOf(job)]
        /\ k.gen = IF job = "offer-ready" THEN journey.offerGen ELSE 0
        /\ k.at = age[StepOf(job)][Len(age[StepOf(job)])]
    BY DEF Copy
  <1>4. k \in APass
    <2>1. age[StepOf(job)] \in Seq(Nat) /\ age[StepOf(job)] # << >>
      BY <1>2 DEF ReminderInv, ReminderTypeOK, Find
    <2>2. age[StepOf(job)][Len(age[StepOf(job)])] \in Nat
      BY <2>1
    <2>3. memory[StepOf(job)] \in Memory
      BY <1>2 DEF ReminderInv, ReminderTypeOK
    <2> QED BY <2>2, <2>3, GenerationTypes DEF APass, Copy
  <1>5. PassInv(k)
    <2>1. job = "request-received" => memory[StepOf(job)].count < 1
      BY DEF Find, Matches, StepOf, REQUEST_RECEIVED_MAX_REMINDERS
    <2>2. job = "no action" => memory[StepOf(job)].count >= 1
      BY DEF Find, Matches, StepOf, REQUEST_RECEIVED_MAX_REMINDERS
    <2> QED BY <1>3, <2>1, <2>2 DEF Find, PassInv
  <1> HIDE DEF k
  <1>6. pass' = [pass EXCEPT ![p] = k]
    BY DEF Find, k
  <1>7. ReminderTypeOK'
    BY <1>1, <1>4, <1>6 DEF Find, ReminderInv, ReminderTypeOK, OrderInv, APass
  <1>8. \A q \in Pass : pass'[q] = IF q = p THEN k ELSE pass[q]
    BY <1>6 DEF ReminderInv, ReminderTypeOK
  <1>9. ASSUME NEW q \in Pass PROVE PassInv(pass[q])'
    <2>1. PassInv(pass'[q])
      BY <1>5, <1>8 DEF ReminderInv
    <2> QED BY <2>1 DEF PassInv, Find
  <1>10. ClaimInv'
    <2> SUFFICES ASSUME ~wentBack' PROVE ClaimInv'
      BY DEF ClaimInv
    <2>1. UNCHANGED <<journey, memory, claimed, returned, wentBack>>
      BY DEF Find, vars
    <2>2. ASSUME NEW step \in Reminded
          PROVE  CountedInv(step, memory[step])' /\ LatestInv(step)'
      BY <2>1 DEF ReminderInv, ClaimInv, CountedInv, LatestInv
    <2>3. ASSUME NEW q \in Pass, pass'[q].pc = "found"
          PROVE  CountedInv(StepOf(pass[q].job), pass[q].memory)'
      <3>1. CountedInv(StepOf(pass'[q].job), pass'[q].memory)
        BY <1>2, <1>3, <1>8, <2>1, <2>3 DEF ReminderInv, ClaimInv
      <3> QED BY <2>1, <3>1 DEF CountedInv
    <2> QED BY <2>2, <2>3 DEF ClaimInv
  <1> QED BY <1>1, <1>7, <1>9, <1>10 DEF ReminderInv

\* A pass that ends, or only its place in the code, with the claims growing.
LEMMA PassMoves ==
  ASSUME ReminderInv, NEW p \in Pass, NEW k \in APass, PassInv(k)',
         pass' = [pass EXCEPT ![p] = k], k.pc # "found",
         claimed \subseteq claimed'
  PROVE  /\ pass' \in [Pass -> APass]
         /\ \A q \in Pass : PassInv(pass[q])'
         /\ \A q \in Pass : pass'[q].pc = "found" => q # p /\ pass'[q] = pass[q]
  <1>1. pass \in [Pass -> APass]
    BY DEF ReminderInv, ReminderTypeOK, APass
  <1>2. \A q \in Pass : pass'[q] = IF q = p THEN k ELSE pass[q]
    BY <1>1
  <1>3. ASSUME NEW q \in Pass, q # p PROVE PassInv(pass[q])'
    <2>1. PassInv(pass[q]) /\ pass'[q] = pass[q]
      BY <1>2, <1>3 DEF ReminderInv
    <2> QED BY <2>1 DEF PassInv
  <1>4. PassInv(pass[p])'
    BY <1>2 DEF PassInv
  <1> QED BY <1>1, <1>2, <1>3, <1>4

LEMMA MemoryFields ==
  ASSUME NEW m \in Memory
  PROVE  m.count \in {-1} \cup 0..3 /\ m.gen \in Int /\ m.at \in Int
  BY DEF Memory, Unset

LEMMA CountType ==
  ASSUME NEW m \in Memory, NEW c \in 0..3, NEW n, n = [m EXCEPT !.count = c]
  PROVE  n \in Memory /\ n.count = c /\ n.gen = m.gen
  BY DEF Memory

\* What a claim does to the memory of its step.
LEMMA ClaimEffect ==
  ASSUME OrderInv, ReminderInv, NEW p \in Pass, Claim(p)
  PROVE  /\ pass[p] \in APass /\ pass[p].job \in Reminded
         /\ Number(pass[p]) \in 1..3
         /\ memory' \in [Reminded -> Memory]
         /\ memory'[pass[p].job].count = Number(pass[p])
         /\ memory'[pass[p].job].gen =
              IF pass[p].job = "offer-ready" THEN pass[p].gen ELSE memory[pass[p].job].gen
         /\ \A step \in Reminded \ {pass[p].job} : memory'[step] = memory[step]
  <1> DEFINE k == pass[p]
  <1>1. k \in APass /\ PassInv(k) /\ k.pc = "found" /\ ~CloseDue(k)
    BY DEF ReminderInv, ReminderTypeOK, APass, Claim, Claims
  <1>2. k.job \in Reminded /\ Number(k) \in 1..3
    BY <1>1, NumberFacts
  <1>3. memory[k.job] \in Memory /\ memory \in [Reminded -> Memory]
    BY <1>2 DEF ReminderInv, ReminderTypeOK
  <1> DEFINE g == IF k.job = "offer-ready" THEN k.gen ELSE memory[k.job].gen
             a == IF k.job = "request-received" THEN 0 ELSE memory[k.job].at
             m == [memory[k.job] EXCEPT !.count = Number(k), !.gen = g, !.at = a]
  <1>4. g \in Int /\ a \in Int
    <2>1. k.gen \in Int
      BY <1>1 DEF APass
    <2>2. memory[k.job].gen \in Int /\ memory[k.job].at \in Int
      BY <1>3, MemoryFields
    <2> HIDE DEF k
    <2> QED BY <2>1, <2>2
  <1>5. m \in Memory /\ m.count = Number(k) /\ m.gen = g
    <2>1. Number(k) \in 0..3
      BY <1>2, SMT
    <2> DEFINE c == Number(k)
               old == memory[k.job]
    <2>2. m = [old EXCEPT !.count = c, !.gen = g, !.at = a]
      OBVIOUS
    <2>3. old \in Memory /\ c \in 0..3
      BY <1>3, <2>1
    <2> HIDE DEF g, a, old, c, m
    <2>4. m \in Memory /\ m.count = c /\ m.gen = g
      BY <1>4, <2>2, <2>3 DEF Memory
    <2> QED BY <2>4 DEF c
  <1>6. memory' = [memory EXCEPT ![k.job] = m]
    BY DEF Claim
  <1> HIDE DEF m, k
  <1>7. memory' \in [Reminded -> Memory] /\ memory'[k.job] = m
        /\ \A step \in Reminded \ {k.job} : memory'[step] = memory[step]
    BY <1>2, <1>3, <1>5, <1>6
  <1> QED BY <1>1, <1>2, <1>5, <1>7 DEF k

\* The counts after a claim: those of its step go on by one, or start with the
\* first reminder of a newer offer.
LEMMA ClaimCounts ==
  ASSUME OrderInv, ReminderInv, NEW p \in Pass, Claim(p), ~wentBack'
  PROVE  \A step \in Reminded : CountedInv(step, memory[step])' /\ LatestInv(step)'
  <1> PICK k : k = pass[p]
    OBVIOUS
  <1> PICK old, new : old = memory[k.job] /\ new = memory'[k.job]
    OBVIOUS
  <1> DEFINE g == IF k.job = "offer-ready" THEN k.gen ELSE old.gen
  <1>1. /\ k \in APass /\ PassInv(k) /\ k.pc = "found" /\ ~CloseDue(k)
        /\ Claimable(k) /\ ~wentBack /\ old.gen = k.memory.gen
    BY DEF ReminderInv, ReminderTypeOK, APass, Claim, Claims
  <1>2. /\ k.job \in Reminded /\ Count(k) \in 0..2 /\ Number(k) = Count(k) + 1
        /\ TheReminder(k) = Nth(k.job, k.gen, Number(k))
        /\ k.job # "offer-ready" => k.gen = 0
    BY <1>1, NumberFacts DEF PassInv
  <1>3. /\ new.count = Number(k) /\ new.gen = g
        /\ \A step \in Reminded \ {k.job} : memory'[step] = memory[step]
    BY ClaimEffect
  <1>4. old \in Memory /\ claimed \subseteq Reminder
    BY <1>2 DEF ReminderInv, ReminderTypeOK
  <1>5. CountedInv(k.job, old) /\ LatestInv(k.job)
    BY <1>1, <1>2 DEF ReminderInv, ClaimInv
  <1>6. old.count \in {-1} \cup 0..3 /\ old.gen \in Int /\ g \in Int
    BY <1>1, <1>4, MemoryFields DEF APass
  \* either the offer is a later one, or the count goes on from what was read
  <1>7. \/ old.gen < g /\ Count(k) = 0
        \/ old.gen = g /\ (old.count <= Count(k)) /\ (Count(k) = 0 \/ Count(k) = old.count)
    <2>1. k.memory.count = old.count
      BY <1>1 DEF Claimable
    <2>2. CASE k.job = "offer-ready"
      <3>1. old.gen <= k.gen
        BY <1>1, <1>5, <2>2 DEF LatestInv, Claimable
      <3> QED BY <1>1, <1>6, <2>1, <2>2, <3>1 DEF Count, Unset
    <2>3. CASE k.job # "offer-ready"
      BY <1>1, <1>6, <2>1, <2>3 DEF Count, Unset
    <2> QED BY <2>2, <2>3
  <1>8. TheReminder(k) = Nth(k.job, g, Number(k))
    BY <1>2, <1>5 DEF CountedInv
  <1>9. claimed' = claimed \cup {TheReminder(k)} /\ returned' = returned \ {TheReminder(k)}
    BY DEF Claim
  <1>10. CountedInv(k.job, memory[k.job])'
    <2>1. k.job # "offer-ready" => new.gen = 0
      BY <1>3, <1>5 DEF CountedInv
    <2>2. ASSUME NEW n \in 1..Number(k) PROVE Nth(k.job, g, n) \in claimed'
      <3>1. CASE n = Number(k)
        BY <1>8, <1>9, <3>1
      <3>2. CASE n # Number(k)
        <4>1. n \in 1..Count(k)
          BY <1>2, <3>2
        <4>2. old.gen = g /\ n \in 1..old.count
          BY <1>2, <1>7, <4>1
        <4> QED BY <1>5, <1>9, <4>2 DEF CountedInv
      <3> QED BY <3>1, <3>2
    <2> QED BY <1>3, <2>1, <2>2 DEF CountedInv
  <1>11. LatestInv(k.job)'
    <2>1. k.job = "offer-ready" => new.gen <= journey'.offerGen
      <3>1. journey' = journey
        BY DEF Claim, vars
      <3> QED BY <1>1, <1>3, <3>1, GenerationTypes DEF Claimable
    <2>2. ASSUME NEW r \in claimed' \ returned', r.step = k.job
          PROVE  r.gen < new.gen \/ (r.gen = new.gen /\ r.number <= new.count)
      <3>1. CASE r = TheReminder(k)
        BY <1>2, <1>3, <1>8, <3>1 DEF Nth
      <3>2. CASE r # TheReminder(k)
        <4>1. r \in claimed \ returned /\ r \in Reminder
          BY <1>4, <1>9, <3>2
        <4>2. r.gen \in Int /\ r.number \in 1..3
          BY <4>1 DEF Reminder
        <4>3. r.gen < old.gen \/ (r.gen = old.gen /\ r.number <= old.count)
          BY <1>5, <2>2, <4>1 DEF LatestInv
        <4> QED BY <1>2, <1>3, <1>6, <1>7, <4>2, <4>3
      <3> QED BY <3>1, <3>2
    <2> QED BY <2>1, <2>2 DEF LatestInv
  <1>12. ASSUME NEW step \in Reminded, step # k.job
         PROVE  CountedInv(step, memory[step])' /\ LatestInv(step)'
    <2>1. memory'[step] = memory[step] /\ journey' = journey
      BY <1>3, <1>12 DEF Claim, vars
    <2>2. CountedInv(step, memory[step]) /\ LatestInv(step)
      BY <1>1 DEF ReminderInv, ClaimInv
    <2>3. \A r \in claimed' \ returned' : r.step = step => r \in claimed \ returned
      BY <1>8, <1>9, <1>12 DEF Nth
    <2>4. CountedInv(step, memory[step])'
      BY <1>9, <2>1, <2>2 DEF CountedInv
    <2> QED BY <2>1, <2>2, <2>3, <2>4 DEF LatestInv
  <1> QED BY <1>10, <1>11, <1>12

LEMMA ClaimKeeps ==
  ASSUME OrderInv, ReminderInv, NEW p \in Pass, Claim(p)
  PROVE  OrderInv' /\ ReminderInv'
  <1> PICK k : k = [pass[p] EXCEPT !.pc = "email"]
    OBVIOUS
  <1>1. OrderInv'
    BY NextOrder DEF Claim
  <1>2. /\ pass[p] \in APass /\ PassInv(pass[p]) /\ pass[p].pc = "found" /\ ~CloseDue(pass[p])
    BY DEF ReminderInv, ReminderTypeOK, APass, Claim, Claims
  <1>3. /\ k \in APass /\ k.pc = "email" /\ k.job = pass[p].job
        /\ k.gen = pass[p].gen /\ k.memory = pass[p].memory
    BY <1>2 DEF APass
  <1>4. pass[p].job \in Reminded /\ TheReminder(pass[p]) \in Reminder
    BY <1>2, NumberFacts
  <1>5. TheReminder(k) = TheReminder(pass[p])
    BY <1>3 DEF TheReminder, Number, Count
  <1>6. /\ claimed' = claimed \cup {TheReminder(pass[p])}
        /\ returned' = returned \ {TheReminder(pass[p])}
    BY DEF Claim
  <1>7. PassInv(k)'
    <2>1. pass[p].job \in Job
      BY <1>4 DEF Job
    <2>2. TheReminder(k) \in claimed'
      BY <1>5, <1>6
    <2> QED BY <1>3, <1>4, <2>1, <2>2 DEF PassInv
  <1>8. pass' = [pass EXCEPT ![p] = k]
    BY DEF Claim
  <1>9. /\ pass' \in [Pass -> APass]
        /\ \A q \in Pass : PassInv(pass[q])'
        /\ \A q \in Pass : pass'[q].pc = "found" => q # p /\ pass'[q] = pass[q]
    BY <1>3, <1>6, <1>7, <1>8, PassMoves
  <1>10. ReminderTypeOK'
    <2>1. memory' \in [Reminded -> Memory]
      BY ClaimEffect
    <2>2. claimed' \subseteq Reminder /\ returned' \subseteq claimed' /\ wentBack' \in BOOLEAN
      BY <1>4, <1>6 DEF ReminderInv, ReminderTypeOK, Claim
    <2> QED BY <1>1, <1>9, <2>1, <2>2
            DEF Claim, ReminderInv, ReminderTypeOK, OrderInv, APass
  <1>11. ASSUME ~wentBack' PROVE ClaimInv'
    <2>1. \A step \in Reminded : CountedInv(step, memory[step])' /\ LatestInv(step)'
      BY <1>11, ClaimCounts
    <2>2. ASSUME NEW q \in Pass, pass'[q].pc = "found"
          PROVE  CountedInv(StepOf(pass[q].job), pass[q].memory)'
      <3>1. ~wentBack /\ pass'[q] = pass[q]
        BY <1>9, <1>11, <2>2 DEF Claim
      <3>2. CountedInv(StepOf(pass[q].job), pass[q].memory)
        BY <2>2, <3>1 DEF ReminderInv, ClaimInv
      <3> QED BY <1>6, <3>1, <3>2 DEF CountedInv
    <2> QED BY <2>1, <2>2 DEF ClaimInv
  <1> QED BY <1>1, <1>9, <1>10, <1>11 DEF ReminderInv, ClaimInv

\* A pass that gives up, or is done, claims nothing.
LEMMA PassEnds ==
  ASSUME OrderInv, ReminderInv, NEW p \in Pass, ClaimRefused(p) \/ SendReminder(p)
  PROVE  OrderInv' /\ ReminderInv'
  <1>1. UNCHANGED <<vars, age, memory, kept, claimed, returned, wentBack>>
        /\ pass' = [pass EXCEPT ![p] = NoPass]
    BY DEF ClaimRefused, SendReminder
  <1>2. OrderInv'
    BY <1>1, NextOrder
  <1>3. NoPass \in APass /\ NoPass.pc # "found" /\ PassInv(NoPass)'
    BY NoPassFacts DEF PassInv
  <1>4. /\ pass' \in [Pass -> APass]
        /\ \A q \in Pass : PassInv(pass[q])'
        /\ \A q \in Pass : pass'[q].pc = "found" => q # p /\ pass'[q] = pass[q]
    BY <1>1, <1>3, PassMoves
  <1>5. ReminderTypeOK'
    BY <1>1, <1>2, <1>4 DEF ReminderInv, ReminderTypeOK, OrderInv, APass
  <1>6. ClaimInv'
    BY <1>1, <1>4 DEF ReminderInv, ClaimInv, CountedInv, LatestInv, vars
  <1> QED BY <1>2, <1>4, <1>5, <1>6 DEF ReminderInv

\* What a closing, or a failed reminder, does to the document of the journey.
LEMMA StatusOrder ==
  ASSUME OrderInv, UNCHANGED <<exists, request, click, mails, pressed>>, faults' \in Nat,
         \/ journey' = journey
         \/ \E status \in Status : journey' = [journey EXCEPT !.status = status]
  PROVE  OrderInv' /\ journey'.offerGen = journey.offerGen
  <1>1. /\ journey' \in Journey
        /\ journey'.completed = journey.completed /\ journey'.sent = journey.sent
        /\ journey'.offerGen = journey.offerGen
    BY GenerationTypes DEF Journey
  <1>2. TypeOK'
    BY <1>1 DEF OrderInv, TypeOK
  <1>3. KindInv'
    BY DEF OrderInv, KindInv
  <1>4. StepsInOrder' /\ \A s \in Staff : CopyInv(request[s])'
    BY <1>1 DEF OrderInv, StepsInOrder, CopyInv
  <1> QED BY <1>1, <1>2, <1>3, <1>4 DEF OrderInv

LEMMA CloseKeeps ==
  ASSUME OrderInv, ReminderInv, NEW p \in Pass, Close(p)
  PROVE  OrderInv' /\ ReminderInv'
  <1>1. /\ pass[p] \in APass /\ PassInv(pass[p]) /\ pass[p].pc = "found" /\ CloseDue(pass[p])
        /\ memory \in [Reminded -> Memory]
    BY DEF ReminderInv, ReminderTypeOK, APass, Close
  <1>2. pass[p].job \in Job \ {"request-received"} /\ StepOf(pass[p].job) \in Reminded
    BY <1>1, JobFacts DEF PassInv, CloseDue
  <1>3. ClosedStatus(pass[p].job) \in Status
    BY <1>2 DEF ClosedStatus, Status, Job, Reminded
  <1>4. OrderInv' /\ journey'.offerGen = journey.offerGen
    <2>1. UNCHANGED <<exists, request, click, mails, pressed>> /\ faults' \in Nat
      BY DEF Close, sellVars, OrderInv, TypeOK
    <2>2. journey' = journey \/ \E status \in Status : journey' = [journey EXCEPT !.status = status]
      BY <1>3 DEF Close
    <2> QED BY <2>1, <2>2, StatusOrder
  <1>5. /\ memory' \in [Reminded -> Memory]
        /\ \A step \in Reminded : memory'[step].count = memory[step].count
                                 /\ memory'[step].gen = memory[step].gen
    <2>1. CASE memory' = memory
      BY <1>1, <2>1
    <2>2. CASE memory' = [memory EXCEPT ![StepOf(pass[p].job)].closed = TRUE]
      <3>1. ASSUME NEW m \in Memory
            PROVE  [m EXCEPT !.closed = TRUE] \in Memory
                   /\ [m EXCEPT !.closed = TRUE].count = m.count
                   /\ [m EXCEPT !.closed = TRUE].gen = m.gen
        BY DEF Memory
      <3>2. \A step \in Reminded : memory'[step] \in {memory[step], [memory[step] EXCEPT !.closed = TRUE]}
        BY <1>1, <2>2
      <3> QED BY <1>1, <2>2, <3>1, <3>2
    <2> QED BY <2>1, <2>2 DEF Close
  <1>6. /\ pass' = [pass EXCEPT ![p] = NoPass]
        /\ UNCHANGED <<age, kept, claimed, returned, wentBack>>
    BY DEF Close
  <1>7. NoPass \in APass /\ NoPass.pc # "found" /\ PassInv(NoPass)'
    BY NoPassFacts DEF PassInv
  <1>8. /\ pass' \in [Pass -> APass]
        /\ \A q \in Pass : PassInv(pass[q])'
        /\ \A q \in Pass : pass'[q].pc = "found" => q # p /\ pass'[q] = pass[q]
    BY <1>6, <1>7, PassMoves
  <1>9. ReminderTypeOK'
    BY <1>4, <1>5, <1>6, <1>8 DEF ReminderInv, ReminderTypeOK, OrderInv, APass
  <1>10. ClaimInv'
    BY <1>4, <1>5, <1>6, <1>8 DEF ReminderInv, ClaimInv, CountedInv, LatestInv
  <1> QED BY <1>4, <1>8, <1>9, <1>10 DEF ReminderInv

LEMMA FailKeeps ==
  ASSUME OrderInv, ReminderInv, NEW p \in Pass, ReminderFails(p)
  PROVE  OrderInv' /\ ReminderInv'
  <1> PICK k : k = pass[p]
    OBVIOUS
  <1>1. /\ k \in APass /\ PassInv(k) /\ k.pc = "email"
        /\ memory \in [Reminded -> Memory] /\ claimed \subseteq Reminder
    BY DEF ReminderInv, ReminderTypeOK, APass, ReminderFails
  <1>2. k.job \in Reminded /\ TheReminder(k) \in claimed
    BY <1>1 DEF PassInv
  <1> PICK g : g = IF k.job = "offer-ready" THEN k.gen ELSE 0
    OBVIOUS
  <1>3. /\ Number(k) = Count(k) + 1 /\ Count(k) \in 0..2
        /\ TheReminder(k) = Nth(k.job, g, Number(k))
    <2>1. TheReminder(k) = Nth(k.job, g, Number(k)) /\ Number(k) = Count(k) + 1
      BY DEF TheReminder, Nth, Number
    <2>2. Number(k) \in 1..3
      BY <1>1, <1>2, <2>1 DEF Reminder, Nth
    <2>3. Count(k) \in {-1} \cup 0..3
      <3>1. k.memory.count \in {-1} \cup 0..3
        BY <1>1, MemoryFields DEF APass
      <3> QED BY <3>1 DEF Count
    <2> QED BY <2>1, <2>2, <2>3
  <1>4. OrderInv' /\ journey' = journey
    <2>1. /\ UNCHANGED <<exists, request, click, mails, pressed>> /\ faults' \in Nat
          /\ journey' = journey
      BY DEF ReminderFails, sellVars, OrderInv, TypeOK
    <2> QED BY <2>1, StatusOrder
  <1>5. /\ memory' \in [Reminded -> Memory]
        /\ \A step \in Reminded : memory'[step].gen = memory[step].gen
        /\ \A step \in Reminded \ {k.job} : memory'[step].count = memory[step].count
        /\ exists => memory'[k.job].count = Count(k)
        /\ ~exists => memory' = memory
    <2>1. CASE ~exists
      BY <1>1, <2>1 DEF ReminderFails
    <2>2. CASE exists
      <3> PICK n : n = [memory[k.job] EXCEPT !.count = Count(k)]
        OBVIOUS
      <3>1. n \in Memory /\ n.count = Count(k) /\ n.gen = memory[k.job].gen
        <4>1. memory[k.job] \in Memory /\ Count(k) \in 0..3
          BY <1>1, <1>2, <1>3
        <4> QED BY <4>1, CountType
      <3>2. memory' = [memory EXCEPT ![k.job] = n]
        BY <2>2 DEF ReminderFails
      <3> QED BY <1>1, <1>2, <2>2, <3>1, <3>2
    <2> QED BY <2>1, <2>2
  <1>6. /\ pass' = [pass EXCEPT ![p] = NoPass]
        /\ UNCHANGED <<age, kept, claimed>>
        /\ wentBack' \in BOOLEAN
        /\ returned' \subseteq claimed'
    BY <1>2 DEF ReminderFails, ReminderInv, ReminderTypeOK
  <1>7. NoPass \in APass /\ NoPass.pc # "found" /\ PassInv(NoPass)'
    BY NoPassFacts DEF PassInv
  <1>8. /\ pass' \in [Pass -> APass]
        /\ \A q \in Pass : PassInv(pass[q])'
        /\ \A q \in Pass : pass'[q].pc = "found" => q # p /\ pass'[q] = pass[q]
    BY <1>6, <1>7, PassMoves
  <1>9. ReminderTypeOK'
    BY <1>4, <1>5, <1>6, <1>8 DEF ReminderInv, ReminderTypeOK, OrderInv, APass
  <1>10. ASSUME ~wentBack' PROVE ClaimInv'
    <2>1. /\ ~wentBack /\ memory[k.job].count = Number(k)
          /\ k.job = "offer-ready" => memory[k.job].gen = k.gen
          /\ returned' = returned \cup {TheReminder(k)}
      BY <1>10 DEF ReminderFails
    <2>2. \A step \in Reminded : CountedInv(step, memory[step]) /\ LatestInv(step)
      BY <2>1 DEF ReminderInv, ClaimInv
    <2>3. memory[k.job].gen = g
      BY <1>2, <2>1, <2>2 DEF CountedInv
    <2>4. ASSUME NEW step \in Reminded
          PROVE  CountedInv(step, memory[step])'
      <3>1. memory'[step].count <= memory[step].count /\ memory'[step].count \in Int
            /\ memory[step].count \in Int
        BY <1>1, <1>2, <1>3, <1>5, <2>1, MemoryFields
      <3>2. CountedInv(step, memory[step]) /\ memory'[step].gen = memory[step].gen
        BY <1>5, <2>2
      <3> QED BY <1>6, <3>1, <3>2 DEF CountedInv
    <2>5. ASSUME NEW step \in Reminded
          PROVE  LatestInv(step)'
      <3>1. LatestInv(step) /\ memory'[step].gen = memory[step].gen
        BY <1>5, <2>2
      <3>2. ASSUME NEW r \in claimed \ returned', r.step = step
            PROVE  r.gen < memory[step].gen
                   \/ (r.gen = memory[step].gen /\ r.number <= memory'[step].count)
        <4>1. /\ r \in claimed \ returned /\ r # TheReminder(k)
              /\ r \in Reminder /\ r.number \in 1..3
          BY <1>1, <2>1, <3>2 DEF Reminder
        <4>2. r.gen < memory[step].gen
                   \/ (r.gen = memory[step].gen /\ r.number <= memory[step].count)
          BY <3>1, <3>2, <4>1 DEF LatestInv
        <4>3. CASE step # k.job \/ ~exists
          BY <1>5, <4>2, <4>3
        <4>4. CASE step = k.job /\ exists
          <5>1. r = Nth(r.step, r.gen, r.number)
            BY <4>1 DEF Reminder, Nth
          <5>2. r.gen = g => r.number # Number(k)
            BY <1>3, <3>2, <4>1, <4>4, <5>1
          <5> QED BY <1>3, <1>5, <2>1, <2>3, <4>1, <4>2, <4>4, <5>2
        <4> QED BY <4>3, <4>4
      <3> QED BY <1>4, <1>6, <3>1, <3>2 DEF LatestInv
    <2>6. ASSUME NEW q \in Pass, pass'[q].pc = "found"
          PROVE  CountedInv(StepOf(pass[q].job), pass[q].memory)'
      BY <1>6, <1>8, <2>1, <2>6 DEF ReminderInv, ClaimInv, CountedInv
    <2> QED BY <2>4, <2>5, <2>6 DEF ClaimInv
  <1> QED BY <1>4, <1>8, <1>9, <1>10 DEF ReminderInv, ClaimInv

-----------------------------------------------------------------------------
(* The steps of the journey, and time.                                      *)

LEMMA NewKept == [step \in Reminded |-> NewMemory] \in [Reminded -> Memory]
  BY NewMemoryType

LEMMA ReadKeeps ==
  ASSUME OrderInv, ReminderInv, NEW s \in Staff, ReadRequest(s)
  PROVE  OrderInv' /\ ReminderInv'
  <1>1. OrderInv'
    BY ReadOrder DEF ReadRequest
  <1>2. UNCHANGED journey
    BY DEF ReadRequest, ReadSend, ReadResend, ReadReship, ReadCancel, ReadDecline, ReadEdit, Begin
  <1>3. kept' \in [Staff -> [Reminded -> Memory]]
    BY NewKept DEF ReadRequest, ReminderInv, ReminderTypeOK
  <1>4. ReminderTypeOK'
    BY <1>1, <1>3 DEF ReadRequest, ReminderInv, ReminderTypeOK, OrderInv
  <1> QED BY <1>1, <1>2, <1>4, GenerationTypes, Beside DEF ReadRequest

LEMMA DatedType ==
  ASSUME age \in [Reminded -> Seq(Nat)], NEW r, r.step \in Reminded
  PROVE  Dated(r) \in [Reminded -> Seq(Nat)]
  <1>1. age[r.step] \in Seq(Nat)
    OBVIOUS
  <1>2. Append(age[r.step], 0) \in Seq(Nat)
    BY <1>1
  <1>3. ASSUME age[r.step] # << >> PROVE [age[r.step] EXCEPT ![1] = 0] \in Seq(Nat)
    BY <1>1, <1>3
  <1>4. CASE r.op = "send"
    BY <1>2, <1>4 DEF Dated
  <1>5. CASE r.op = "resend" /\ age[r.step] # << >>
    BY <1>3, <1>5 DEF Dated
  <1>6. CASE r.op # "send" /\ ~(r.op = "resend" /\ age[r.step] # << >>)
    BY <1>6 DEF Dated
  <1> QED BY <1>4, <1>5, <1>6

LEMMA WriteKeeps ==
  ASSUME OrderInv, ReminderInv, NEW s \in Staff, WriteRequest(s)
  PROVE  OrderInv' /\ ReminderInv'
  <1>1. OrderInv'
    BY WriteJourneyOrder DEF WriteRequest
  <1>2. age' \in [Reminded -> Seq(Nat)]
    <2>1. age \in [Reminded -> Seq(Nat)]
      BY DEF ReminderInv, ReminderTypeOK
    <2> QED BY <2>1, DatedType DEF WriteRequest
  <1>3. memory' \in [Reminded -> Memory] /\ kept' \in [Staff -> [Reminded -> Memory]]
    BY NewKept DEF WriteRequest, ReminderInv, ReminderTypeOK
  <1>4. wentBack' \in BOOLEAN
    BY DEF WriteRequest, ReminderInv, ReminderTypeOK
  <1>5. ReminderTypeOK'
    BY <1>1, <1>2, <1>3, <1>4 DEF WriteRequest, ReminderInv, ReminderTypeOK, OrderInv
  <1>6. ~wentBack' => ~wentBack /\ memory' = memory /\ journey'.offerGen >= journey.offerGen
    <2>1. journey.offerGen \in Int /\ journey'.offerGen \in Int
      BY <1>1 DEF OrderInv, TypeOK, Journey, Generation
    <2>2. wentBack' = (wentBack \/ memory' # memory \/ journey'.offerGen < journey.offerGen)
      BY DEF WriteRequest
    <2>3. wentBack \in BOOLEAN
      BY DEF ReminderInv, ReminderTypeOK
    <2>4. ~(journey'.offerGen < journey.offerGen) => journey'.offerGen >= journey.offerGen
      BY <2>1
    <2> QED BY <2>2, <2>3, <2>4, Zenon
  <1>7. journey.offerGen \in Int /\ journey'.offerGen \in Int
    BY <1>1 DEF OrderInv, TypeOK, Journey, Generation
  <1>8. UNCHANGED <<pass, claimed, returned>>
    BY DEF WriteRequest
  <1> QED BY <1>1, <1>5, <1>6, <1>7, <1>8, Beside

LEMMA UnseenKeeps ==
  ASSUME OrderInv, ReminderInv,
         \/ \E s \in Staff : StaffEmail(s)
         \/ \E c \in Customer : ClickWrite(c)
         \/ OtherStep
  PROVE  OrderInv' /\ ReminderInv'
  <1>1. ASSUME NEW s \in Staff, StaffEmail(s)
        PROVE  OrderInv' /\ Unseen /\ journey' = journey
    BY <1>1, SendEmailOrder, DropOrder DEF StaffEmail, SendEmail, EmailFails
  <1>2. ASSUME NEW c \in Customer, ClickWrite(c)
        PROVE  OrderInv' /\ Unseen /\ journey'.offerGen = journey.offerGen
    <2>1. WriteAnswer(c) /\ Unseen
      BY <1>2 DEF ClickWrite
    <2>2. ASSUME NEW j \in Journey, NEW k, k.answer \in Answer
          PROVE  Answered(j, k).offerGen = j.offerGen
      BY <2>2 DEF Answered, OfferDeclined, Answer, Journey
    <2>3. journey \in Journey /\ click[c].answer \in Answer
      BY <2>1 DEF OrderInv, TypeOK, KindInv, WriteAnswer
    <2> QED BY <2>1, <2>2, <2>3, WriteAnswerOrder DEF WriteAnswer
  <1>3. ASSUME OtherStep
        PROVE  OrderInv' /\ Unseen /\ journey' = journey
    <2>1. ASSUME NEW s \in Staff, WriteLost(s) PROVE OrderInv' /\ journey' = journey
      BY <2>1, DropOrder DEF WriteLost
    <2>2. ASSUME NEW c \in Customer, ReadAnswer(c) PROVE OrderInv' /\ journey' = journey
      BY <2>2, CustomerOrder
         DEF CustomerStep, ReadAnswer, ReadOfferAnswer, ReadRequestAccept, ReadRequestDecline, Click
    <2>3. ASSUME Remove PROVE OrderInv' /\ journey' = journey
      BY <2>3, NextOrder DEF Next, Remove
    <2> QED BY <1>3, <2>1, <2>2, <2>3 DEF OtherStep
  <1> QED BY <1>1, <1>2, <1>3, UnseenInv

LEMMA OlderType ==
  ASSUME NEW step, NEW days \in Int
  PROVE  Older(step, days) \in Int /\ (days \in Nat => Older(step, days) \in Nat)
  BY DEF Older, AUTO_CLOSE_THRESHOLD

LEMMA TickKeeps ==
  ASSUME OrderInv, ReminderInv, Tick
  PROVE  OrderInv' /\ ReminderInv'
  <1>1. OrderInv' /\ journey' = journey
    BY NextOrder DEF Tick, vars
  <1>2. age' \in [Reminded -> Seq(Nat)]
    <2>1. ASSUME NEW step \in Reminded
          PROVE  [i \in DOMAIN age[step] |-> Older(step, age[step][i])] \in Seq(Nat)
      <3>1. age[step] \in Seq(Nat)
        BY DEF ReminderInv, ReminderTypeOK
      <3>2. DOMAIN age[step] = 1..Len(age[step]) /\ Len(age[step]) \in Nat
        BY <3>1
      <3>3. \A i \in 1..Len(age[step]) : Older(step, age[step][i]) \in Nat
        BY <3>1, OlderType
      <3> QED BY <3>2, <3>3
    <2> QED BY <2>1 DEF Tick
  <1>3. /\ memory' \in [Reminded -> Memory]
        /\ \A step \in Reminded : memory'[step].count = memory[step].count
                                 /\ memory'[step].gen = memory[step].gen
    <2>1. ASSUME NEW m \in Memory, NEW a \in Int, NEW n, n = [m EXCEPT !.at = a]
          PROVE  n \in Memory /\ n.count = m.count /\ n.gen = m.gen
      BY <2>1 DEF Memory
    <2>2. ASSUME NEW step \in Reminded
          PROVE  /\ memory'[step] \in Memory
                 /\ memory'[step].count = memory[step].count
                 /\ memory'[step].gen = memory[step].gen
      <3>1. memory[step] \in Memory
        BY DEF ReminderInv, ReminderTypeOK
      <3>2. Older(step, memory[step].at) \in Int
        BY <3>1, OlderType, MemoryFields
      <3>3. memory'[step] = [memory[step] EXCEPT !.at = Older(step, memory[step].at)]
        BY DEF Tick
      <3> QED BY <2>1, <3>1, <3>2, <3>3
    <2> QED BY <2>2 DEF Tick
  <1>4. UNCHANGED <<kept, pass, claimed, returned, wentBack>>
    BY DEF Tick
  <1>5. ReminderTypeOK'
    BY <1>1, <1>2, <1>3, <1>4 DEF ReminderInv, ReminderTypeOK, OrderInv
  <1>6. \A p \in Pass : PassInv(pass[p])'
    BY <1>4 DEF ReminderInv, PassInv
  <1>7. ClaimInv'
    BY <1>1, <1>3, <1>4 DEF ReminderInv, ClaimInv, CountedInv, LatestInv
  <1> QED BY <1>1, <1>5, <1>6, <1>7 DEF ReminderInv

LEMMA StutterKeeps ==
  ASSUME OrderInv, ReminderInv, UNCHANGED allVars
  PROVE  OrderInv' /\ ReminderInv'
  <1>1. OrderInv' /\ journey' = journey
    BY NextOrder DEF allVars, vars
  <1> QED BY <1>1, UnseenInv DEF allVars, Unseen

LEMMA ReminderNextInv ==
  OrderInv /\ ReminderInv /\ [ReminderNext]_allVars => OrderInv' /\ ReminderInv'
  <1> SUFFICES ASSUME OrderInv, ReminderInv, [ReminderNext]_allVars
               PROVE  OrderInv' /\ ReminderInv'
    OBVIOUS
  <1>1. ASSUME NEW p \in Pass, PassStep(p) PROVE OrderInv' /\ ReminderInv'
    BY <1>1, FindInv, ClaimKeeps, PassEnds, FailKeeps, CloseKeeps DEF PassStep
  <1>2. ASSUME NEW s \in Staff, ReadRequest(s) \/ StaffEmail(s) \/ WriteRequest(s)
        PROVE  OrderInv' /\ ReminderInv'
    BY <1>2, ReadKeeps, WriteKeeps, UnseenKeeps
  <1> QED BY <1>1, <1>2, UnseenKeeps, TickKeeps, StutterKeeps DEF ReminderNext

\* Only a claim moves a pass from what it found to its email.
LEMMA ClaimStep ==
  ASSUME OrderInv, ReminderInv, [ReminderNext]_allVars, NEW p \in Pass, ClaimsNow(p)
  PROVE  Claim(p)
  <1>1. pass[p].pc = "found" /\ pass'[p].pc = "email" /\ pass \in [Pass -> APass]
    BY DEF ClaimsNow, Claims, ReminderInv, ReminderTypeOK, APass
  <1>2. pass' # pass
    BY <1>1
  <1>3. PICK q \in Pass : PassStep(q)
    BY <1>2 DEF ReminderNext, ReadRequest, StaffEmail, WriteRequest, ClickWrite, OtherStep,
                Unseen, Tick, allVars
  <1>4. ASSUME NEW r, pass' = [pass EXCEPT ![q] = r], r.pc # "email" PROVE FALSE
    <2>1. pass'[p] \in {pass[p], r}
      BY <1>1, <1>4
    <2> QED BY <1>1, <1>4, <2>1
  <1>5. NoPass.pc # "email" /\ \A job \in Job : Copy(job).pc # "email"
    BY NoPassFacts DEF Copy
  <1>6. Claim(q)
    BY <1>3, <1>4, <1>5 DEF PassStep, Find, ClaimRefused, SendReminder, ReminderFails, Close
  <1>7. q = p
    BY <1>1, <1>6 DEF Claim
  <1> QED BY <1>6, <1>7

-----------------------------------------------------------------------------
\* Any number of overlapping passes keep what the two properties below rest on.
THEOREM ReminderInvariant == ReminderSpec => [](OrderInv /\ ReminderInv)
  BY ReminderInitInv, ReminderNextInv, PTL DEF ReminderSpec

\* The document, the memory of the scheduler and its passes keep their types,
\* beside any number of staff requests and clicks.
THEOREM ReminderTypeCorrect == ReminderSpec => []ReminderTypeOK
  <1>1. ReminderInv => ReminderTypeOK
    BY DEF ReminderInv
  <1> QED BY <1>1, ReminderInvariant, PTL

\* The closing and the reminders leave the recorded steps in order.
THEOREM ReminderStepsCorrect == ReminderSpec => []StepsInOrder
  <1>1. OrderInv => StepsInOrder
    BY DEF OrderInv
  <1> QED BY <1>1, ReminderInvariant, PTL

\* A reminder that was claimed and not taken back has a number the count has
\* reached, or is about an older offer: the next one claimed is another.
THEOREM ReminderOnceCorrect == ReminderSpec => ReminderClaimedOnce
  <1>1. ASSUME OrderInv, ReminderInv, [ReminderNext]_allVars,
               NEW p \in Pass, ClaimsNow(p), ~wentBack'
        PROVE  TheReminder(pass[p]) \notin claimed \ returned
    <2> PICK k, m : k = pass[p] /\ m = memory[k.job]
      OBVIOUS
    <2>1. /\ k \in APass /\ PassInv(k) /\ k.pc = "found" /\ ~CloseDue(k) /\ Claimable(k)
      BY <1>1 DEF ReminderInv, ReminderTypeOK, APass, ClaimsNow, Claims
    <2>2. /\ k.job \in Reminded /\ Count(k) \in 0..2 /\ Number(k) = Count(k) + 1
          /\ TheReminder(k) = Nth(k.job, k.gen, Number(k))
          /\ k.job # "offer-ready" => k.gen = 0
      BY <2>1, NumberFacts DEF PassInv
    <2>3. Claim(p)
      <3>1. pass'[p] # pass[p]
        BY <2>1, <1>1 DEF ClaimsNow
      <3> QED BY <3>1, <1>1, ClaimStep
    <2>4. ~wentBack /\ m.gen = k.memory.gen
      BY <1>1, <2>3 DEF Claim
    <2>5. LatestInv(k.job) /\ CountedInv(k.job, m) /\ m \in Memory
      BY <1>1, <2>2, <2>4 DEF ReminderInv, ClaimInv, ReminderTypeOK
    <2>6. m.count \in {-1} \cup 0..3 /\ m.gen \in Int /\ k.gen \in Int
      BY <2>1, <2>5, MemoryFields DEF APass
    <2> SUFFICES ASSUME TheReminder(k) \in claimed \ returned PROVE FALSE
      OBVIOUS
    <2>7. k.gen < m.gen \/ (k.gen = m.gen /\ Number(k) <= m.count)
      BY <2>2, <2>5 DEF LatestInv, Nth
    <2>8. k.gen >= m.gen
      BY <2>1, <2>2, <2>5, <2>6 DEF LatestInv, CountedInv, Claimable
    <2>9. k.gen = m.gen => Count(k) >= m.count
      BY <2>1, <2>4, <2>6 DEF Count, Claimable, Unset
    <2> QED BY <2>2, <2>6, <2>7, <2>8, <2>9
  <1>2. OrderInv /\ ReminderInv /\ [ReminderNext]_allVars =>
          [\A p \in Pass : ClaimsNow(p) /\ ~wentBack' =>
             TheReminder(pass[p]) \notin claimed \ returned]_allVars
    BY <1>1
  <1> QED BY <1>2, ReminderInvariant, PTL DEF ReminderSpec, ReminderClaimedOnce

\* A pass closes a journey on a count that stands for reminders claimed, all
\* three for the offer it read.
THEOREM ReminderClosedCorrect == ReminderSpec => ClosedAfterReminders
  <1>1. ASSUME ReminderInv, NEW p \in Pass, Closes(p), ~wentBack
        PROVE  LET k == pass[p] IN
               \A n \in 1..(IF k.job = "no action" THEN 1 ELSE 3) :
                 Nth(StepOf(k.job), k.gen, n) \in claimed
    <2> PICK k : k = pass[p]
      OBVIOUS
    <2>1. /\ k \in APass /\ PassInv(k) /\ k.pc = "found" /\ CloseDue(k)
          /\ CountedInv(StepOf(k.job), k.memory)
      BY <1>1 DEF ReminderInv, ReminderTypeOK, APass, Closes, ClaimInv
    <2>2. /\ k.job \in Job \ {"request-received"}
          /\ k.memory.count \in {-1} \cup 0..3
      BY <2>1, MemoryFields DEF PassInv, CloseDue, APass
    <2>3. /\ k.job = "offer-ready" <=> StepOf(k.job) = "offer-ready"
          /\ k.job # "offer-ready" => k.gen = 0 /\ k.memory.gen = 0
      BY <2>1, <2>2, JobFacts DEF PassInv, CountedInv
    <2>4. CASE k.job = "no action"
      <3>1. k.memory.count >= 1
        BY <2>1, <2>4 DEF PassInv
      <3>2. Nth(StepOf(k.job), k.memory.gen, 1) \in claimed
        BY <2>1, <2>2, <3>1 DEF CountedInv
      <3>3. k.memory.gen = k.gen
        BY <2>3, <2>4
      <3>4. \A n \in 1..1 : n = 1
        OBVIOUS
      <3> QED BY <2>4, <3>2, <3>3, <3>4
    <2>5. CASE k.job # "no action"
      <3>1. Count(k) >= 3
        BY <2>1, <2>2, <2>5 DEF CloseDue
      <3>2. k.memory.count = 3 /\ k.memory.gen = k.gen
        BY <2>2, <2>3, <3>1 DEF Count
      <3> QED BY <2>1, <2>5, <3>2 DEF CountedInv
    <2> QED BY <2>4, <2>5
  <1>2. OrderInv /\ ReminderInv =>
          [\A p \in Pass : Closes(p) /\ ~wentBack =>
             LET k == pass[p] IN
             \A n \in 1..(IF k.job = "no action" THEN 1 ELSE 3) :
               Nth(StepOf(k.job), k.gen, n) \in claimed]_allVars
    BY <1>1
  <1> QED BY <1>2, ReminderInvariant, PTL DEF ClosedAfterReminders

-----------------------------------------------------------------------------
(* One staff request at a time: the dates the passes go by.                 *)

OneRequest == \A s, t \in Staff : s = t

\* What leaves the requests, the ages and the generation of the offer alone.
LEMMA DateBeside ==
  ASSUME DateInv, UNCHANGED age, journey'.offerGen = journey.offerGen,
         journey.sent \subseteq journey'.sent,
         \A s \in Staff :
           \/ request'[s].pc = "idle"
           \/ /\ request[s].pc # "idle" /\ request'[s].op = request[s].op
              /\ request'[s].step = request[s].step /\ request'[s].seen = request[s].seen,
         \A p \in Pass : pass'[p] = pass[p] \/ pass'[p].pc # "found"
  PROVE  DateInv'
  <1>1. \A s \in Staff : OfferedInv(request[s])'
    BY DEF DateInv, OfferedInv
  <1>2. ASSUME NEW p \in Pass PROVE AgedInv(pass[p])'
    <2>1. CASE pass'[p] = pass[p]
      <3>1. AgedInv(pass[p])
        BY DEF DateInv
      <3> QED BY <2>1, <3>1 DEF AgedInv
    <2>2. CASE pass'[p].pc # "found"
      BY <2>2 DEF AgedInv
    <2> QED BY <2>1, <2>2
  <1> QED BY <1>1, <1>2 DEF DateInv

LEMMA FindDates ==
  ASSUME OrderInv, ReminderInv, DateInv, NEW p \in Pass, NEW job \in Job, Find(p, job)
  PROVE  DateInv'
  <1>1. /\ pass' = [pass EXCEPT ![p] = Copy(job)] /\ pass \in [Pass -> APass]
        /\ UNCHANGED <<journey, request, age>> /\ age[StepOf(job)] # << >>
    BY DEF Find, ReminderInv, ReminderTypeOK, APass, vars
  <1>2. age \in [Reminded -> Seq(Nat)] /\ journey.offerGen \in Int
    BY GenerationTypes DEF ReminderInv, ReminderTypeOK
  <1>3. AgedInv(pass[p])'
    <2>1. pass'[p] = Copy(job)
      BY <1>1
    <2>2. ASSUME job = "offer-ready"
          PROVE  LET days == age["offer-ready"] IN
                 /\ Copy(job).gen = journey.offerGen
                 /\ days # << >> /\ days[Len(days)] = Copy(job).at /\ Copy(job).at \in Nat
      <3>1. StepOf(job) = "offer-ready" /\ age["offer-ready"] \in Seq(Nat)
        BY <1>2, <2>2 DEF StepOf, Reminded
      <3>2. Len(age["offer-ready"]) \in DOMAIN age["offer-ready"]
        BY <1>1, <3>1
      <3> QED BY <1>1, <2>2, <3>1, <3>2 DEF Copy
    <2>3. Copy(job).job = job
      BY DEF Copy
    <2> QED BY <1>1, <1>2, <2>1, <2>2, <2>3 DEF AgedInv
  <1>4. ASSUME NEW q \in Pass, q # p PROVE AgedInv(pass[q])'
    <2>1. pass'[q] = pass[q] /\ AgedInv(pass[q])
      BY <1>1, <1>4 DEF DateInv
    <2> QED BY <1>1, <2>1 DEF AgedInv
  <1>5. \A s \in Staff : OfferedInv(request[s])'
    BY <1>1 DEF DateInv, OfferedInv
  <1> QED BY <1>1, <1>3, <1>4, <1>5 DEF DateInv

LEMMA PassDates ==
  ASSUME OrderInv, ReminderInv, DateInv, NEW p \in Pass, PassStep(p)
  PROVE  DateInv'
  <1>1. CASE \E job \in Job : Find(p, job)
    BY <1>1, FindDates
  <1>2. CASE ~\E job \in Job : Find(p, job)
    <2>1. Claim(p) \/ ClaimRefused(p) \/ SendReminder(p) \/ ReminderFails(p) \/ Close(p)
      BY <1>2 DEF PassStep
    <2>2. UNCHANGED <<age, request>>
      BY <2>1 DEF Claim, ClaimRefused, SendReminder, ReminderFails, Close, vars, sellVars
    <2>3. journey'.offerGen = journey.offerGen /\ journey'.sent = journey.sent
      BY <2>1, GenerationTypes
         DEF Claim, ClaimRefused, SendReminder, ReminderFails, Close, vars, Journey
    <2>4. ASSUME NEW q \in Pass PROVE pass'[q] = pass[q] \/ pass'[q].pc # "found"
      <3>1. pass \in [Pass -> APass] /\ NoPass.pc = "idle"
        BY NoPassFacts DEF ReminderInv, ReminderTypeOK, APass
      <3>2. CASE Claim(p)
        <4>1. pass'[p].pc = "email"
          BY <3>1, <3>2 DEF Claim, APass
        <4>2. q # p => pass'[q] = pass[q]
          BY <3>1, <3>2 DEF Claim
        <4> QED BY <4>1, <4>2
      <3>3. CASE ~Claim(p)
        <4>1. pass' = [pass EXCEPT ![p] = NoPass]
          BY <2>1, <3>3 DEF ClaimRefused, SendReminder, ReminderFails, Close
        <4> QED BY <3>1, <4>1
      <3> QED BY <3>2, <3>3
    <2>5. \A s \in Staff : request'[s] = request[s]
      BY <2>2
    <2>6. ASSUME NEW s \in Staff
          PROVE  \/ request'[s].pc = "idle"
                 \/ /\ request[s].pc # "idle" /\ request'[s].op = request[s].op
                    /\ request'[s].step = request[s].step /\ request'[s].seen = request[s].seen
      BY <2>5
    <2> QED BY <2>2, <2>3, <2>4, <2>6, DateBeside
  <1> QED BY <1>1, <1>2

LEMMA ReadDates ==
  ASSUME OneRequest, OrderInv, ReminderInv, DateInv, NEW s \in Staff, ReadRequest(s)
  PROVE  DateInv'
  <1>1. UNCHANGED <<journey, age, pass>>
    BY DEF ReadRequest, ReadSend, ReadResend, ReadReship, ReadCancel, ReadDecline, ReadEdit, Begin
  <1>2. ASSUME NEW op, NEW step, NEW pc, Begin(s, op, step, pc),
               op = "resend" => step \in journey.sent
        PROVE  OfferedInv(request[s])'
    <2> DEFINE r == [pc |-> pc, op |-> op, step |-> step, seen |-> Kept(op, journey)]
    <2>1. request'[s] = r
      BY <1>2 DEF Begin, OrderInv, TypeOK
    <2>2. op \in {"send", "resend"} => Kept(op, journey).offerGen = journey.offerGen
      BY DEF Kept, NewJourney
    <2>3. r.op = op /\ r.step = step /\ r.seen = Kept(op, journey)
      OBVIOUS
    <2> HIDE DEF r
    <2> QED BY <1>1, <1>2, <2>1, <2>2, <2>3 DEF OfferedInv
  <1>3. OfferedInv(request[s])'
    <2>1. CASE \E step \in Steps : ReadSend(s, step)
      BY <1>2, <2>1 DEF ReadSend
    <2>2. CASE \E step \in Resends : ReadResend(s, step)
      BY <1>2, <2>2 DEF ReadResend, MayResend
    <2>3. CASE ReadReship(s) \/ ReadCancel(s) \/ ReadDecline(s) \/ ReadEdit(s)
      BY <1>2, <2>3 DEF ReadReship, ReadCancel, ReadDecline, ReadEdit
    <2> QED BY <2>1, <2>2, <2>3 DEF ReadRequest
  <1>4. \A t \in Staff : OfferedInv(request[t])'
    BY <1>3 DEF OneRequest
  <1>5. \A p \in Pass : AgedInv(pass[p])'
    BY <1>1 DEF DateInv, AgedInv
  <1> QED BY <1>1, <1>4, <1>5 DEF DateInv

\* Which offer a write leaves: the one it sent, or the one that was there.
LEMMA WriteOffers ==
  ASSUME NEW j \in Journey, NEW r, r.seen \in Journey, r.op \in Staffs
  PROVE  Write(j, r).offerGen =
           IF \/ r.op = "send" /\ r.step = "offer-ready"
              \/ r.op = "resend" /\ r.step = "offer-ready" /\ r.step \in j.sent
           THEN NextGeneration(r.seen, r.step) ELSE j.offerGen
  <1>1. CASE r.op = "send"
    BY <1>1 DEF Write, Sent, Journey
  <1>2. CASE r.op = "resend"
    <2>1. Write(j, r) = Resent(j, r)
      BY <1>2 DEF Write
    <2> QED BY <1>2, <2>1 DEF Resent, Journey
  <1>3. CASE r.op = "reship"
    BY <1>3 DEF Write, Reshipped, Journey
  <1>4. CASE r.op = "decline"
    BY <1>4 DEF Write, OfferDeclined, Journey
  <1>5. CASE r.op \in {"cancel", "edit"}
    BY <1>5 DEF Write, Journey
  <1> QED BY <1>1, <1>2, <1>3, <1>4, <1>5 DEF Staffs

LEMMA WriteDates ==
  ASSUME OneRequest, OrderInv, ReminderInv, DateInv, NEW s \in Staff, WriteRequest(s)
  PROVE  DateInv'
  <1> DEFINE r == request[s]
  <1>1. /\ journey \in Journey /\ journey.offerGen \in Int /\ r.seen \in Journey
        /\ r.op \in Staffs /\ r.pc = "write" /\ r.seen.offerGen \in Int
        /\ journey.offerGen >= 0 /\ OfferedInv(r)
        /\ WriteJourney(s) /\ pass' = pass
    BY DEF WriteRequest, WriteJourney, OrderInv, TypeOK, KindInv, Staffs, DateInv, Journey, Generation
  <1>2. \A t \in Staff : OfferedInv(request[t])'
    <2>1. request'[s].pc = "idle"
      BY <1>1 DEF WriteJourney, OrderInv, TypeOK, NoRequest
    <2>2. OfferedInv(request[s])'
      BY <2>1 DEF OfferedInv
    <2> QED BY <2>2 DEF OneRequest
  <1>3. CASE exists /\ r.op \in {"send", "resend"} /\ r.step = "offer-ready"
    <2>1. journey'.offerGen > journey.offerGen /\ journey'.offerGen \in Int
      <3>1. r.seen.offerGen = journey.offerGen
            /\ (r.op = "resend" => "offer-ready" \in journey.sent)
        BY <1>1, <1>3 DEF OfferedInv
      <3>2. journey'.offerGen = NextGeneration(r.seen, r.step)
        BY <1>1, <1>3, <3>1, WriteOffers DEF WriteJourney
      <3> QED BY <1>1, <1>3, <3>1, <3>2 DEF NextGeneration, EffectiveOfferGen
    <2>2. ASSUME NEW p \in Pass PROVE AgedInv(pass[p])'
      <3>1. AgedInv(pass[p]) /\ pass[p].gen \in Int
        BY DEF DateInv, ReminderInv, ReminderTypeOK
      <3> QED BY <1>1, <2>1, <3>1 DEF AgedInv
    <2> QED BY <1>1, <1>2, <2>1, <2>2 DEF DateInv
  <1>4. CASE ~(exists /\ r.op \in {"send", "resend"} /\ r.step = "offer-ready")
    <2>1. journey'.offerGen = journey.offerGen
      <3>1. CASE exists
        BY <1>1, <1>4, <3>1, WriteOffers DEF WriteJourney
      <3>2. CASE ~exists
        BY <1>1, <3>2 DEF WriteJourney
      <3> QED BY <3>1, <3>2
    <2>2. age'["offer-ready"] = age["offer-ready"]
      <3>1. age \in [Reminded -> Seq(Nat)] /\ "offer-ready" \in Reminded
        BY DEF ReminderInv, ReminderTypeOK, Reminded
      <3> QED BY <1>4, <3>1 DEF WriteRequest, Dated
    <2>3. \A p \in Pass : AgedInv(pass[p])'
      BY <1>1, <2>1, <2>2 DEF DateInv, AgedInv
    <2> QED BY <1>1, <1>2, <2>1, <2>3 DEF DateInv
  <1> QED BY <1>3, <1>4

LEMMA ReminderNextDates ==
  ASSUME OneRequest, OrderInv, ReminderInv, DateInv, [ReminderNext]_allVars
  PROVE  DateInv'
  <1>1. ASSUME NEW s \in Staff, StaffEmail(s) \/ (WriteLost(s) /\ Unseen) PROVE DateInv'
    <2>1. UNCHANGED <<journey, age, pass>>
      BY <1>1 DEF StaffEmail, SendEmail, EmailFails, WriteLost, Unseen
    <2>2. ASSUME NEW t \in Staff
          PROVE  \/ request'[t].pc = "idle"
                 \/ /\ request[t].pc # "idle" /\ request'[t].op = request[t].op
                    /\ request'[t].step = request[t].step /\ request'[t].seen = request[t].seen
      <3>1. s = t /\ NoRequest.pc = "idle"
        BY DEF OneRequest, NoRequest
      <3>2. CASE SendEmail(s)
        <4>1. request' = [request EXCEPT ![s].pc = "write"] /\ request[s].pc = "send"
          BY <3>2 DEF SendEmail
        <4> QED BY <3>1, <4>1 DEF OrderInv, TypeOK
      <3>3. CASE ~SendEmail(s)
        <4>1. request' = [request EXCEPT ![s] = NoRequest]
          BY <1>1, <3>3 DEF StaffEmail, EmailFails, WriteLost
        <4> QED BY <3>1, <4>1 DEF OrderInv, TypeOK
      <3> QED BY <3>2, <3>3
    <2> QED BY <2>1, <2>2, DateBeside
  <1>2. ASSUME UNCHANGED <<request, age, pass>>, journey'.offerGen = journey.offerGen,
               journey.sent \subseteq journey'.sent
        PROVE  DateInv'
    BY <1>2 DEF DateInv, OfferedInv, AgedInv
  <1>3. ASSUME NEW c \in Customer, ClickWrite(c) PROVE DateInv'
    <2>1. WriteAnswer(c) /\ Unseen
      BY <1>3 DEF ClickWrite
    <2>2. ASSUME NEW j \in Journey, NEW k, k.answer \in Answer
          PROVE  Answered(j, k).offerGen = j.offerGen /\ Answered(j, k).sent = j.sent
      BY <2>2 DEF Answered, OfferDeclined, Answer, Journey
    <2>3. journey \in Journey /\ click[c].answer \in Answer
      BY <2>1 DEF OrderInv, TypeOK, KindInv, WriteAnswer
    <2> QED BY <1>2, <2>1, <2>2, <2>3 DEF WriteAnswer, Unseen
  <1>4. CASE OtherStep
    <2>1. CASE \E s \in Staff : WriteLost(s)
      BY <1>1, <1>4, <2>1 DEF OtherStep
    <2>2. CASE ~\E s \in Staff : WriteLost(s)
      <3>1. UNCHANGED <<request, journey, age, pass>>
        BY <1>4, <2>2 DEF OtherStep, Unseen, ReadAnswer, ReadOfferAnswer, ReadRequestAccept,
                          ReadRequestDecline, Click, Remove
      <3> QED BY <1>2, <3>1
    <2> QED BY <2>1, <2>2
  <1>5. CASE Tick
    <2>1. UNCHANGED <<journey, request, pass>> /\ \A p \in Pass : pass[p].pc = "idle"
      BY <1>5 DEF Tick, vars
    <2> QED BY <2>1 DEF DateInv, OfferedInv, AgedInv
  <1>6. CASE UNCHANGED allVars
    <2>1. UNCHANGED <<journey, request, age, pass>>
      BY <1>6 DEF allVars, vars
    <2> QED BY <1>2, <2>1
  <1>7. ASSUME NEW s \in Staff, ReadRequest(s) \/ StaffEmail(s) \/ WriteRequest(s) PROVE DateInv'
    <2>1. CASE ReadRequest(s)
      BY <2>1, ReadDates
    <2>2. CASE StaffEmail(s)
      BY <1>1, <2>2
    <2>3. CASE WriteRequest(s)
      BY <2>3, WriteDates
    <2> QED BY <1>7, <2>1, <2>2, <2>3
  <1>8. ASSUME NEW p \in Pass, PassStep(p) PROVE DateInv'
    BY <1>8, PassDates
  <1> QED BY <1>3, <1>4, <1>5, <1>6, <1>7, <1>8 DEF ReminderNext

\* With one staff request at a time the reminders of an offer keep their thresholds,
\* whatever passes, clicks and failures run beside it.
THEOREM ReminderTimeCorrect ==
  ASSUME OneRequest
  PROVE  ReminderSpec => ReminderOnTime
  <1> DEFINE OnTime ==
        \A p \in Pass : ClaimsNow(p) /\ pass[p].job = "offer-ready" =>
          LET days == age["offer-ready"] IN
          days[Len(days)] >= REMINDER_THRESHOLDS[Number(pass[p])]
  <1>1. ReminderInit => DateInv
    BY DEF ReminderInit, Init, NewJourney, NoRequest, NoPass, DateInv, OfferedInv, AgedInv
  <1>2. OrderInv /\ ReminderInv /\ DateInv /\ [ReminderNext]_allVars => DateInv'
    BY ReminderNextDates
  <1>3. ASSUME OrderInv, ReminderInv, DateInv, NEW p \in Pass, ClaimsNow(p),
               pass[p].job = "offer-ready"
        PROVE  LET days == age["offer-ready"] IN
               days[Len(days)] >= REMINDER_THRESHOLDS[Number(pass[p])]
    <2> DEFINE days == age["offer-ready"]
    <2> PICK k : k = pass[p]
      OBVIOUS
    <2>1. /\ k \in APass /\ PassInv(k) /\ AgedInv(k) /\ k.pc = "found" /\ k.job = "offer-ready"
          /\ ~CloseDue(k) /\ Claimable(k)
      BY <1>3 DEF ReminderInv, ReminderTypeOK, APass, ClaimsNow, Claims, DateInv
    <2>2. ReminderDue(k)
      BY <2>1 DEF PassInv
    <2>3. k.at >= REMINDER_THRESHOLDS[Number(k)] /\ Count(k) \in 0..2 /\ Number(k) = Count(k) + 1
      BY <2>1, <2>2, NumberFacts DEF ReminderDue
    <2>4. REMINDER_THRESHOLDS[Number(k)] \in Nat
      BY <2>3 DEF REMINDER_THRESHOLDS
    <2>5. days # << >> /\ days[Len(days)] >= k.at
      BY <2>1 DEF AgedInv, Claimable
    <2>6. days[Len(days)] \in Nat /\ k.at \in Nat
      <3>1. days \in Seq(Nat)
        BY <1>3 DEF ReminderInv, ReminderTypeOK, Reminded
      <3> QED BY <2>1, <2>5, <3>1 DEF APass
    <2> QED BY <2>3, <2>4, <2>5, <2>6
  <1>4. OrderInv /\ ReminderInv /\ DateInv /\ [ReminderNext]_allVars => [OnTime]_allVars
    BY <1>3
  <1> QED BY <1>1, <1>2, <1>4, ReminderInvariant, PTL DEF ReminderSpec, ReminderOnTime
=============================================================================
