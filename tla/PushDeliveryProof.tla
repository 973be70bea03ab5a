------------------------ MODULE PushDeliveryProof ------------------------
(* Proofs about PushDelivery, for any sets of events, subscriptions and     *)
(* workers, any outbox limit and any times in which the lease outlasts the  *)
(* send.                                                                    *)
EXTENDS PushDelivery, FiniteSetTheorems, TLAPS

\* What is queued, retired, accepted or in hand belongs to a reserved identity,
\* which is why a row that was removed cannot come back.
IdentitiesAreKnown ==
  /\ \A w \in Worker : pc[w] \in Active => job[w] \in Delivery /\ job[w][1] \in known
  /\ \A d \in queued \union past \union accepted : d[1] \in known
  /\ \A d \in Delivery : d[1] \notin known => sent[d] = 0

\* The outbox has no rows of a retired epoch or a removed registration.
RowsAreCurrent ==
  /\ queued \intersect past = {}
  /\ \A d \in queued : subs[d[2]] # "none"

\* A send is of the current epoch and registration; so is an answer that has a row.
SendsAreCurrent ==
  \A w \in Worker :
    /\ pc[w] \in InFlight => job[w] \notin past /\ same[w]
    /\ pc[w] = "answered" /\ job[w] \in queued => same[w]

\* The row in hand is not due before the send has ended.
Leased ==
  \A w \in Worker :
    /\ pc[w] # "sending" => left[w] = 0
    /\ pc[w] \in Active /\ job[w] \in queued =>
         /\ attempts[job[w]] = tried[w]
         /\ due[job[w]] > left[w]
         /\ pc[w] = "starting" => due[job[w]] > SendTimeout

Held(d) == \E w \in Worker : pc[w] \in Active /\ job[w] = d

\* The attempts of a row count its sends, but for the one in progress.
SendsAreCounted ==
  /\ \A w \in Worker : pc[w] = "starting" => sent[job[w]] <= tried[w]
  /\ \A w \in Worker : pc[w] \in Active => sent[job[w]] <= tried[w] + 1
  /\ \A d \in queued : available /\ ttl[d] > 0 /\ ~Held(d) => sent[d] <= attempts[d]

\* An accepted delivery has no row left to send, or its answer is on the way to it.
AcceptedIsHeld ==
  /\ \A w \in Worker : pc[w] \in InFlight => job[w] \notin accepted
  /\ \A d \in queued \intersect accepted : available /\ ttl[d] > 0 =>
       \E w \in Worker : pc[w] = "answered" /\ job[w] = d /\ outcome[w] = "ok"

OutboxIsBounded == Cardinality(queued) <= MaxDeliveries

IInv ==
  /\ TypeOK
  /\ IdentitiesAreKnown /\ RowsAreCurrent /\ SendsAreCurrent
  /\ OneSenderPerDelivery /\ Leased
  /\ SendsAreCounted /\ AtMostThreeSends /\ AcceptedIsHeld
  /\ OutboxIsBounded

USE EventAssumption, TimeAssumption, BoundAssumption
USE DEF Active, InFlight, Attempts, Outcomes

\* A delivery has an event and a subscription.
LEMMA DeliveryParts == \A d \in Delivery : d[1] \in Event /\ d[2] \in Sub
  BY DEF Delivery

\* Removing rows keeps the outbox within its limit.
LEMMA FewerRows == ASSUME OutboxIsBounded, TypeOK, NEW q \in SUBSET queued
                   PROVE  Cardinality(q) <= MaxDeliveries
<1>1. IsFiniteSet(queued)
  BY FS_Subset DEF TypeOK, Delivery
<1>2. Cardinality(q) \in Nat /\ Cardinality(queued) \in Nat /\ Cardinality(q) <= Cardinality(queued)
  BY <1>1, FS_Subset, FS_CardinalityType
<1> QED
  BY <1>2 DEF OutboxIsBounded

\* The initial state satisfies the invariant.
LEMMA InitInv == Init => IInv
<1> SUFFICES ASSUME Init PROVE IInv
  OBVIOUS
<1>1. TypeOK
  <2>1. job \in [Worker -> Jobs]
    BY Zenon DEF Init, Jobs
  <2>2. same \in [Worker -> BOOLEAN] /\ connected \in BOOLEAN /\ available \in BOOLEAN
    BY Zenon DEF Init
  <2>3. /\ subs \in [Sub -> {"none", "wants", "quiet"}]
        /\ pc \in [Worker -> {"idle", "answered", "dead"} \union InFlight]
        /\ outcome \in [Worker -> Outcomes]
    BY Zenon DEF Init
  <2>4. /\ due \in [Delivery -> Nat] /\ ttl \in [Delivery -> Nat] /\ sent \in [Delivery -> Nat]
        /\ attempts \in [Delivery -> Attempts]
        /\ tried \in [Worker -> Attempts] /\ left \in [Worker -> Nat]
    BY DEF Init
  <2> QED
    BY <2>1, <2>2, <2>3, <2>4 DEF Init, TypeOK
<1>2. IdentitiesAreKnown /\ RowsAreCurrent /\ SendsAreCurrent /\ OneSenderPerDelivery /\ Leased
  BY DEF Init, IdentitiesAreKnown, RowsAreCurrent, SendsAreCurrent, OneSenderPerDelivery, Leased
<1>3. SendsAreCounted /\ AtMostThreeSends /\ AcceptedIsHeld
  BY DEF Init, SendsAreCounted, AtMostThreeSends, AcceptedIsHeld
<1>4. OutboxIsBounded
  BY FS_EmptySet DEF Init, OutboxIsBounded
<1> QED
  BY <1>1, <1>2, <1>3, <1>4 DEF IInv

-----------------------------------------------------------------------------
(* The steps by shape.                                                     *)

\* The rows in q stay as they are, the others are gone.
RowsLeft(q) ==
  /\ queued' = q
  /\ due' \in [Delivery -> Nat] /\ ttl' \in [Delivery -> Nat] /\ attempts' \in [Delivery -> Attempts]
  /\ \A d \in q : due'[d] = due[d] /\ ttl'[d] = ttl[d] /\ attempts'[d] = attempts[d]

\* Keeping some rows changes nothing about them.
LEMMA KeptRows == ASSUME TypeOK, NEW q \in SUBSET queued, KeepRows(q) PROVE RowsLeft(q)
  BY DEF KeepRows, Rows, RowsLeft, TypeOK

\* Rows are removed and sends of removed rows are cancelled; nobody else moves.
LEMMA RemovalKeepsInv ==
  ASSUME IInv, NEW q \in SUBSET queued, RowsLeft(q), TypeOK',
         UNCHANGED <<known, available, sent, accepted, job, tried>>,
         \A w \in Worker :
           \/ pc'[w] = pc[w] /\ outcome'[w] = outcome[w] /\ left'[w] = left[w]
           \/ /\ pc[w] \in InFlight /\ job[w] \notin q
              /\ pc'[w] = "answered" /\ outcome'[w] = "drop" /\ left'[w] = 0,
         \A w \in Worker : same'[w] = same[w] \/ (pc'[w] \notin InFlight /\ job[w] \notin q),
         \A w \in Worker : pc'[w] \in InFlight => job[w] \notin past',
         \A d \in past' : d[1] \in known /\ d \notin q,
         \A d \in q : subs'[d[2]] # "none"
  PROVE  IInv'
<1> USE DEF IInv, RowsLeft
<1>1. IdentitiesAreKnown' /\ RowsAreCurrent'
  BY DEF IdentitiesAreKnown, RowsAreCurrent
<1>2. SendsAreCurrent'
  BY DEF SendsAreCurrent, TypeOK
<1>3. OneSenderPerDelivery'
  BY DEF OneSenderPerDelivery, TypeOK
<1>4. Leased'
  BY DEF Leased, TypeOK
<1>5. SendsAreCounted'
  BY DEF SendsAreCounted, Held, TypeOK
<1>6. AtMostThreeSends'
  BY DEF AtMostThreeSends
<1>7. AcceptedIsHeld'
  BY DEF AcceptedIsHeld, TypeOK
<1>8. OutboxIsBounded'
  BY FewerRows DEF OutboxIsBounded
<1> QED
  BY <1>1, <1>2, <1>3, <1>4, <1>5, <1>6, <1>7, <1>8

\* Expired or unwanted rows are removed without anybody noticing.
LEMMA PurgeKeepsInv ==
  ASSUME IInv, NEW q \in SUBSET queued, KeepRows(q),
         UNCHANGED <<subs, known, past, connected, available, workerVars, sent, accepted>>
  PROVE  IInv'
<1> USE DEF IInv, workerVars
<1>1. RowsLeft(q)
  BY KeptRows
<1>2. TypeOK'
  BY <1>1 DEF TypeOK, RowsLeft
<1>3. /\ \A w \in Worker : pc'[w] \in InFlight => job[w] \notin past'
      /\ \A d \in past' : d[1] \in known /\ d \notin q
      /\ \A d \in q : subs'[d[2]] # "none"
  BY DEF SendsAreCurrent, IdentitiesAreKnown, RowsAreCurrent
<1>4. \A w \in Worker : pc'[w] = pc[w] /\ outcome'[w] = outcome[w] /\ left'[w] = left[w] /\ same'[w] = same[w]
  OBVIOUS
<1> QED
  BY <1>1, <1>2, <1>3, <1>4, RemovalKeepsInv

\* The deliveries ds lose their rows and their sends.
LEMMA WithdrawalKeepsInv ==
  ASSUME IInv, NEW ds \in SUBSET Delivery, KeepRows(queued \ ds), CancelSends(ds),
         UNCHANGED <<known, available, sent, accepted>>,
         subs' \in [Sub -> {"none", "wants", "quiet"}], connected' \in BOOLEAN,
         past' \in SUBSET Native, \A d \in past' : d[1] \in known,
         past' \subseteq past \union ds,
         same' \in [Worker -> BOOLEAN],
         \A w \in Worker : job[w] \notin ds => same'[w] = same[w],
         \A d \in queued \ ds : subs'[d[2]] # "none"
  PROVE  IInv'
<1> USE DEF IInv
<1>1. RowsLeft(queued \ ds)
  BY KeptRows
<1>2. /\ job' = job /\ tried' = tried
      /\ \A w \in Worker : IF pc[w] \in InFlight /\ job[w] \in ds
                           THEN pc'[w] = "answered" /\ outcome'[w] = "drop" /\ left'[w] = 0
                           ELSE pc'[w] = pc[w] /\ outcome'[w] = outcome[w] /\ left'[w] = left[w]
  BY DEF CancelSends, TypeOK
<1>3. TypeOK'
  BY <1>1, <1>2 DEF TypeOK, CancelSends, RowsLeft
<1>4. \A w \in Worker : pc'[w] \in InFlight => pc[w] \in InFlight /\ job[w] \notin ds
  BY <1>2
<1>5. \A w \in Worker : same'[w] = same[w] \/ (pc'[w] \notin InFlight /\ job[w] \notin queued \ ds)
  BY <1>4
<1>6. \A w \in Worker : pc'[w] \in InFlight => job[w] \notin past'
  BY <1>4 DEF SendsAreCurrent
<1>7. \A d \in past' : d[1] \in known /\ d \notin queued \ ds
  BY DEF RowsAreCurrent
<1> QED
  BY <1>1, <1>2, <1>3, <1>5, <1>6, <1>7, RemovalKeepsInv

\* Queueing inserts fresh rows of a fresh identity.
LEMMA EnqueueKeepsInv ==
  ASSUME IInv, NEW e \in Event, NEW targets \in SUBSET Delivery, NEW life \in Nat,
         \A d \in targets : d[1] = e /\ subs[d[2]] # "none",
         Enqueue(e, targets, life)
  PROVE  IInv'
<1> USE DEF IInv
<1>1. Unexpired \subseteq queued
  BY DEF Unexpired
<1>2. \A d \in targets : e \notin known => d \notin queued \union past \union accepted
  BY DEF IdentitiesAreKnown
<1>3. /\ UNCHANGED <<subs, past, connected, available, workerVars, sent, accepted>>
      /\ known' = known \union {e}
  BY DEF Enqueue
<1>4. PICK ts \in SUBSET targets :
        /\ e \in known => ts = {}
        /\ queued' = Unexpired \union ts
        /\ Cardinality(queued') <= MaxDeliveries
        /\ \A d \in ts : due'[d] = 0 /\ attempts'[d] = 0
        /\ \A d \in Unexpired \ ts :
             due'[d] = due[d] /\ attempts'[d] = attempts[d] /\ ttl'[d] = ttl[d]
        /\ due' \in [Delivery -> Nat] /\ ttl' \in [Delivery -> Nat]
        /\ attempts' \in [Delivery -> Attempts]
  <2>1. CASE e \in known
    <3>1. queued' = Unexpired /\ Cardinality(Unexpired) <= MaxDeliveries
      BY <1>1, <2>1, FewerRows DEF Enqueue, KeepRows, Rows
    <3>2. Unexpired \union {} = Unexpired /\ Unexpired \ {} = Unexpired
      OBVIOUS
    <3>3. /\ \A d \in Unexpired : due'[d] = due[d] /\ attempts'[d] = attempts[d] /\ ttl'[d] = ttl[d]
          /\ due' \in [Delivery -> Nat] /\ ttl' \in [Delivery -> Nat]
          /\ attempts' \in [Delivery -> Attempts]
      BY <2>1, <1>1 DEF Enqueue, KeepRows, Rows, TypeOK
    <3> WITNESS {} \in SUBSET targets
    <3> QED
      BY <2>1, <3>1, <3>2, <3>3
  <2>2. CASE e \notin known
    <3>1. PICK ts \in Truncated(targets, Unexpired) :
            Rows(Unexpired \union ts,
                 [d \in Delivery |-> IF d \in ts THEN 0 ELSE due[d]],
                 [d \in Delivery |-> IF d \in ts THEN 0 ELSE attempts[d]],
                 [d \in Delivery |-> IF d \in ts THEN life ELSE ttl[d]])
      BY <2>2 DEF Enqueue
    <3>2. ts \in SUBSET targets /\ Cardinality(Unexpired \union ts) <= MaxDeliveries
      BY DEF Truncated
    <3>3. queued' = Unexpired \union ts
      BY <3>1 DEF Rows
    <3>4. /\ \A d \in ts : due'[d] = 0 /\ attempts'[d] = 0
          /\ \A d \in Unexpired \ ts :
               due'[d] = due[d] /\ attempts'[d] = attempts[d] /\ ttl'[d] = ttl[d]
          /\ due' \in [Delivery -> Nat] /\ ttl' \in [Delivery -> Nat]
          /\ attempts' \in [Delivery -> Attempts]
      BY <3>1, <3>2, <1>1 DEF Rows, TypeOK
    <3> USE <3>2
    <3> WITNESS ts \in SUBSET targets
    <3> QED
      BY <2>2, <3>2, <3>3, <3>4
  <2> QED
    BY <2>1, <2>2
<1>5. \A d \in ts : d \in Delivery /\ d[1] = e /\ e \notin known
  BY <1>4
<1>6. TypeOK'
  BY <1>1, <1>3, <1>4 DEF TypeOK, workerVars
<1>7. IdentitiesAreKnown' /\ RowsAreCurrent'
  BY <1>1, <1>2, <1>3, <1>4, <1>5 DEF IdentitiesAreKnown, RowsAreCurrent, workerVars
<1>8. \A w \in Worker : pc[w] \in Active => job[w] \notin ts
  BY <1>5 DEF IdentitiesAreKnown
<1>9. SendsAreCurrent' /\ OneSenderPerDelivery' /\ Leased'
  BY <1>1, <1>3, <1>4, <1>8 DEF SendsAreCurrent, OneSenderPerDelivery, Leased, workerVars, TypeOK
<1>10. SendsAreCounted' /\ AtMostThreeSends'
  <2>1. \A d \in ts : sent[d] = 0
    BY <1>5 DEF IdentitiesAreKnown
  <2> QED
    BY <1>1, <1>3, <1>4, <2>1 DEF SendsAreCounted, AtMostThreeSends, Held, workerVars, TypeOK
<1>11. AcceptedIsHeld'
  BY <1>1, <1>2, <1>3, <1>4, <1>5 DEF AcceptedIsHeld, workerVars, TypeOK
<1>12. OutboxIsBounded'
  BY <1>4 DEF OutboxIsBounded
<1> QED
  BY <1>6, <1>7, <1>9, <1>10, <1>11, <1>12

\* A new registration withdraws what was meant for the old one.
LEMMA RegistrationKeepsInv ==
  ASSUME IInv, NEW s \in Sub, NEW choice \in {"none", "wants", "quiet"}, subs' = [subs EXCEPT ![s] = choice],
         Withdraw(s), NewRegistration(s),
         UNCHANGED <<known, past, connected, available, sent, accepted>>
  PROVE  IInv'
<1> USE DEF IInv
<1>1. Of(s) \in SUBSET Delivery /\ \A d \in Delivery \ Of(s) : d[2] # s
  BY DEF Of
<1>2. KeepRows(queued \ Of(s)) /\ CancelSends(Of(s))
  BY DEF Withdraw
<1>3. same' \in [Worker -> BOOLEAN]
  BY Zenon DEF NewRegistration
<1>4. \A w \in Worker : job[w] \notin Of(s) => same'[w] = same[w]
  BY DEF NewRegistration, TypeOK
<1>5. \A d \in queued \ Of(s) : subs'[d[2]] # "none"
  BY <1>1, DeliveryParts DEF RowsAreCurrent, TypeOK
<1>6. past' \in SUBSET Native /\ (\A d \in past' : d[1] \in known) /\ past' \subseteq past \union Of(s)
  BY DEF TypeOK, IdentitiesAreKnown
<1>7. subs' \in [Sub -> {"none", "wants", "quiet"}] /\ connected' \in BOOLEAN
  BY DEF TypeOK
<1> QED
  BY <1>1, <1>2, <1>3, <1>4, <1>5, <1>6, <1>7, WithdrawalKeepsInv

\* A new epoch withdraws what was meant for the source.
LEMMA ConnectKeepsInv == ASSUME IInv, NEW up \in BOOLEAN, Connect(up) PROVE IInv'
<1> USE DEF IInv
<1>1. /\ KeepRows(queued \ Native) /\ CancelSends(Native) /\ same' = same
      /\ past' = {d \in Native : d[1] \in known}
      /\ connected' = up /\ UNCHANGED <<subs, known, available, sent, accepted>>
  BY DEF Connect, Retire
<1>2. Native \in SUBSET Delivery
  BY DEF Native
<1>3. \A d \in queued \ Native : subs'[d[2]] # "none"
  BY <1>1 DEF RowsAreCurrent
<1>4. past' \in SUBSET Native /\ (\A d \in past' : d[1] \in known) /\ past' \subseteq past \union Native
  BY <1>1
<1>5. subs' \in [Sub -> {"none", "wants", "quiet"}] /\ same' \in [Worker -> BOOLEAN]
  BY <1>1 DEF TypeOK
<1> QED
  BY <1>1, <1>2, <1>3, <1>4, <1>5, WithdrawalKeepsInv

-----------------------------------------------------------------------------
(* The worker's steps.                                                     *)

\* A claimed row is leased for longer than its send can last.
LEMMA ClaimKeepsInv ==
  ASSUME IInv, NEW w \in Worker, pc[w] = "idle", NEW d \in Unexpired, due[d] = 0, Wanted(d),
         Rows(Unexpired, Claimed(d), attempts, ttl),
         pc' = [pc EXCEPT ![w] = "starting"], job' = [job EXCEPT ![w] = d],
         tried' = [tried EXCEPT ![w] = attempts[d]], same' = [same EXCEPT ![w] = TRUE],
         UNCHANGED <<left, outcome, subs, known, past, connected, available, sent, accepted>>,
         available
  PROVE  IInv'
<1> USE DEF IInv
<1>1. Unexpired \subseteq queued /\ d \in Delivery /\ ttl[d] > 0
  BY DEF Unexpired, TypeOK
<1>2. /\ queued' = Unexpired
      /\ due' \in [Delivery -> Nat] /\ ttl' \in [Delivery -> Nat] /\ attempts' \in [Delivery -> Attempts]
      /\ due'[d] = Lease
      /\ \A x \in Unexpired : /\ x # d => due'[x] = due[x]
                              /\ ttl'[x] = ttl[x] /\ attempts'[x] = attempts[x]
  BY <1>1 DEF Rows, Claimed, TypeOK
<1>3. TypeOK'
  BY <1>1, <1>2 DEF TypeOK, Jobs
<1>4. \A v \in Worker : pc[v] \in Active => v # w /\ job[v] # d
  BY <1>1 DEF Leased, TypeOK
<1>5. IdentitiesAreKnown' /\ RowsAreCurrent'
  BY <1>1, <1>2 DEF IdentitiesAreKnown, RowsAreCurrent, TypeOK
<1>6. SendsAreCurrent'
  BY <1>1, <1>2 DEF SendsAreCurrent, Wanted, TypeOK
<1>7. OneSenderPerDelivery'
  BY <1>4 DEF OneSenderPerDelivery, TypeOK
<1>8. Leased'
  <2>1. left[w] = 0
    BY DEF Leased
  <2> QED
    BY <1>1, <1>2, <1>4, <2>1 DEF Leased, TypeOK
<1>9. SendsAreCounted' /\ AtMostThreeSends'
  <2>1. sent[d] <= attempts[d]
    BY <1>1, <1>4 DEF SendsAreCounted, Held
  <2> QED
    BY <1>1, <1>2, <2>1 DEF SendsAreCounted, AtMostThreeSends, Held, TypeOK
<1>10. AcceptedIsHeld'
  BY <1>1, <1>2, <1>4 DEF AcceptedIsHeld, TypeOK
<1>11. OutboxIsBounded'
  BY <1>1, <1>2, FewerRows DEF OutboxIsBounded
<1> QED
  BY <1>3, <1>5, <1>6, <1>7, <1>8, <1>9, <1>10, <1>11

\* A poll claims, purges or drops.
LEMMA PollKeepsInv == ASSUME IInv, NEW w \in Worker, Poll(w) PROVE IInv'
<1>1. Unexpired \in SUBSET queued
  BY DEF Unexpired
<1>2. CASE KeepRows(Unexpired) /\ UNCHANGED workerVars
  BY <1>1, <1>2, PurgeKeepsInv DEF Poll
<1>3. ASSUME NEW d \in Unexpired, due[d] = 0,
             IF Wanted(d)
             THEN /\ Rows(Unexpired, Claimed(d), attempts, ttl)
                  /\ pc' = [pc EXCEPT ![w] = "starting"]
                  /\ job' = [job EXCEPT ![w] = d]
                  /\ tried' = [tried EXCEPT ![w] = attempts[d]]
                  /\ same' = [same EXCEPT ![w] = TRUE]
                  /\ UNCHANGED <<left, outcome>>
             ELSE /\ KeepRows(Unexpired \ {d})
                  /\ UNCHANGED workerVars
      PROVE  IInv'
  <2>1. CASE Wanted(d)
    BY <1>3, <2>1, ClaimKeepsInv DEF Poll
  <2>2. CASE ~Wanted(d)
    <3>1. Unexpired \ {d} \in SUBSET queued
      BY <1>1
    <3> QED
      BY <1>3, <2>2, <3>1, PurgeKeepsInv DEF Poll
  <2> QED
    BY <2>1, <2>2
<1> QED
  BY <1>2, <1>3 DEF Poll

\* What is sent was not sent for this attempt before.
LEMMA SendKeepsInv == ASSUME IInv, NEW w \in Worker, Send(w) PROVE IInv'
<1> USE DEF IInv, Send, rowVars
<1>1. job[w] \in Delivery /\ job[w][1] \in known
  BY DEF IdentitiesAreKnown
<1>2. \A v \in Worker : v # w /\ pc[v] \in Active => job[v] # job[w]
  BY DEF OneSenderPerDelivery
<1>3. \A d \in Delivery : sent'[d] = IF d = job[w] THEN sent[d] + 1 ELSE sent[d]
  BY <1>1 DEF TypeOK
<1>4. TypeOK'
  BY <1>1 DEF TypeOK
<1>5. IdentitiesAreKnown' /\ RowsAreCurrent'
  BY <1>1, <1>3 DEF IdentitiesAreKnown, RowsAreCurrent, TypeOK
<1>6. SendsAreCurrent' /\ OneSenderPerDelivery' /\ Leased'
  BY DEF SendsAreCurrent, OneSenderPerDelivery, Leased, TypeOK
<1>7. SendsAreCounted'
  BY <1>1, <1>2, <1>3 DEF SendsAreCounted, Held, IdentitiesAreKnown, TypeOK
<1>8. AtMostThreeSends'
  BY <1>1, <1>3 DEF AtMostThreeSends, SendsAreCounted, TypeOK
<1>9. AcceptedIsHeld'
  BY DEF AcceptedIsHeld, TypeOK
<1>10. OutboxIsBounded'
  BY DEF OutboxIsBounded
<1> QED
  BY <1>4, <1>5, <1>6, <1>7, <1>8, <1>9, <1>10

\* The answer stays with the worker whose send it is.
LEMMA AnswerKeepsInv ==
  ASSUME IInv, NEW w \in Worker, NEW o \in Outcomes, Answer(w, o) PROVE IInv'
<1> USE DEF IInv, Answer, rowVars
<1>1. job[w] \in Delivery /\ job[w][1] \in known
  BY DEF IdentitiesAreKnown
<1>2. \A v \in Worker : v # w /\ pc[v] \in Active => job[v] # job[w]
  BY DEF OneSenderPerDelivery
<1>3. /\ accepted' \subseteq accepted \union {job[w]}
      /\ o # "ok" => accepted' = accepted
  OBVIOUS
<1>4. TypeOK'
  BY <1>1, <1>3 DEF TypeOK
<1>5. IdentitiesAreKnown' /\ RowsAreCurrent'
  BY <1>1, <1>3 DEF IdentitiesAreKnown, RowsAreCurrent, TypeOK
<1>6. SendsAreCurrent' /\ OneSenderPerDelivery' /\ Leased'
  BY DEF SendsAreCurrent, OneSenderPerDelivery, Leased, TypeOK
<1>7. SendsAreCounted' /\ AtMostThreeSends'
  BY DEF SendsAreCounted, AtMostThreeSends, Held, TypeOK
<1>8. AcceptedIsHeld'
  BY <1>2, <1>3 DEF AcceptedIsHeld, TypeOK
<1>9. OutboxIsBounded'
  BY DEF OutboxIsBounded
<1> QED
  BY <1>4, <1>5, <1>6, <1>7, <1>8, <1>9

\* The worker of Complete is idle afterwards, the others go on.
BackToIdle(w) ==
  /\ pc' = [pc EXCEPT ![w] = "idle"] /\ job' = [job EXCEPT ![w] = <<>>]
  /\ tried' = [tried EXCEPT ![w] = 0] /\ outcome' = [outcome EXCEPT ![w] = "drop"]
  /\ same' = [same EXCEPT ![w] = FALSE]
  /\ UNCHANGED <<known, past, connected, available, left, sent, accepted>>

\* Going back to idle respects the types of the worker's state.
LEMMA IdleType ==
  ASSUME TypeOK, NEW w \in Worker, BackToIdle(w)
  PROVE  /\ pc' \in [Worker -> {"idle", "answered", "dead"} \union InFlight]
         /\ job' \in [Worker -> Jobs] /\ tried' \in [Worker -> Attempts]
         /\ left' \in [Worker -> Nat] /\ outcome' \in [Worker -> Outcomes]
         /\ same' \in [Worker -> BOOLEAN]
         /\ pc'[w] = "idle"
         /\ \A v \in Worker \ {w} : /\ pc'[v] = pc[v] /\ job'[v] = job[v] /\ tried'[v] = tried[v]
                                    /\ outcome'[v] = outcome[v] /\ same'[v] = same[v]
<1> USE DEF TypeOK, BackToIdle
<1>1. job' \in [Worker -> Jobs]
  <2>1. <<>> \in Jobs
    BY Zenon DEF Jobs
  <2> QED
    BY Zenon, <2>1
<1>2. same' \in [Worker -> BOOLEAN]
  BY Zenon
<1>3. /\ pc' \in [Worker -> {"idle", "answered", "dead"} \union InFlight]
      /\ tried' \in [Worker -> Attempts]
      /\ left' \in [Worker -> Nat] /\ outcome' \in [Worker -> Outcomes]
  OBVIOUS
<1>4. /\ pc'[w] = "idle"
      /\ \A v \in Worker \ {w} : /\ pc'[v] = pc[v] /\ job'[v] = job[v] /\ tried'[v] = tried[v]
                                 /\ outcome'[v] = outcome[v] /\ same'[v] = same[v]
  OBVIOUS
<1> QED
  BY <1>1, <1>2, <1>3, <1>4

\* A worker lays down a delivery that has no row left to send.
LEMMA LayDownKeepsInv ==
  ASSUME IInv, NEW w \in Worker, pc[w] = "answered", BackToIdle(w),
         NEW q \in SUBSET queued, RowsLeft(q), job[w] \in q => ttl[job[w]] = 0,
         subs' \in [Sub -> {"none", "wants", "quiet"}], \A d \in q : subs'[d[2]] # "none"
  PROVE  IInv'
<1> USE DEF IInv, RowsLeft
<1>1. /\ pc'[w] = "idle"
      /\ \A v \in Worker \ {w} : /\ pc'[v] = pc[v] /\ job'[v] = job[v] /\ tried'[v] = tried[v]
                                 /\ outcome'[v] = outcome[v] /\ same'[v] = same[v]
      /\ UNCHANGED <<known, past, connected, available, left, sent, accepted>>
  BY IdleType DEF BackToIdle
<1>2. TypeOK'
  BY <1>1, IdleType DEF TypeOK
<1>3. IdentitiesAreKnown' /\ RowsAreCurrent'
  BY <1>1 DEF IdentitiesAreKnown, RowsAreCurrent
<1>4. SendsAreCurrent' /\ OneSenderPerDelivery'
  BY <1>1 DEF SendsAreCurrent, OneSenderPerDelivery
<1>5. Leased'
  <2>1. left[w] = 0
    BY DEF Leased
  <2> QED
    BY <1>1, <2>1 DEF Leased
<1>6. SendsAreCounted' /\ AtMostThreeSends'
  BY <1>1 DEF SendsAreCounted, AtMostThreeSends, Held
<1>7. AcceptedIsHeld'
  BY <1>1 DEF AcceptedIsHeld
<1>8. OutboxIsBounded'
  BY FewerRows DEF OutboxIsBounded
<1> QED
  BY <1>2, <1>3, <1>4, <1>5, <1>6, <1>7, <1>8

\* A failed attempt that is not the last one is noted in its row.
LEMMA RetryKeepsInv ==
  ASSUME IInv, NEW w \in Worker, pc[w] = "answered", BackToIdle(w), Owns(w), outcome[w] = "retry",
         attempts[job[w]] < 2,
         Rows(queued, [due EXCEPT ![job[w]] = Backoff[attempts[job[w]]]],
              [attempts EXCEPT ![job[w]] = @ + 1], ttl),
         subs' = subs
  PROVE  IInv'
<1> USE DEF IInv
<1> DEFINE d == job[w]
<1>1. d \in queued /\ d \in Delivery /\ attempts[d] = tried[w] /\ attempts[d] \in {0, 1}
  BY DEF Owns, TypeOK
<1>2. /\ queued' = queued
      /\ due' \in [Delivery -> Nat] /\ ttl' \in [Delivery -> Nat] /\ attempts' \in [Delivery -> Attempts]
      /\ attempts'[d] = attempts[d] + 1
      /\ \A x \in queued : /\ x # d => due'[x] = due[x] /\ attempts'[x] = attempts[x]
                           /\ ttl'[x] = ttl[x]
  <2>1. Backoff[attempts[d]] \in Nat
    BY <1>1
  <2> QED
    BY <1>1, <2>1 DEF Rows, TypeOK
<1>3. /\ pc'[w] = "idle"
      /\ \A v \in Worker \ {w} : /\ pc'[v] = pc[v] /\ job'[v] = job[v] /\ tried'[v] = tried[v]
                                 /\ outcome'[v] = outcome[v] /\ same'[v] = same[v]
      /\ UNCHANGED <<known, past, connected, available, left, sent, accepted>>
  BY IdleType DEF BackToIdle
<1>4. \A v \in Worker \ {w} : pc[v] \in Active => job[v] # d
  BY DEF OneSenderPerDelivery
<1>5. TypeOK'
  BY <1>2, <1>3, IdleType DEF TypeOK
<1>6. IdentitiesAreKnown' /\ RowsAreCurrent'
  BY <1>2, <1>3 DEF IdentitiesAreKnown, RowsAreCurrent
<1>7. SendsAreCurrent' /\ OneSenderPerDelivery'
  BY <1>2, <1>3 DEF SendsAreCurrent, OneSenderPerDelivery
<1>8. Leased'
  BY <1>2, <1>3, <1>4 DEF Leased
<1>9. SendsAreCounted' /\ AtMostThreeSends'
  <2>1. sent[d] <= attempts[d] + 1
    BY <1>1 DEF SendsAreCounted
  <2> QED
    BY <1>1, <1>2, <1>3, <2>1 DEF SendsAreCounted, AtMostThreeSends, Held, TypeOK
<1>10. AcceptedIsHeld'
  <2>1. available /\ ttl[d] > 0 => d \notin accepted
    BY <1>1, <1>4 DEF AcceptedIsHeld
  <2> QED
    BY <1>2, <1>3, <2>1 DEF AcceptedIsHeld
<1>11. OutboxIsBounded'
  BY <1>2 DEF OutboxIsBounded
<1> QED
  BY <1>5, <1>6, <1>7, <1>8, <1>9, <1>10, <1>11

\* Whatever the answer, completing it keeps the invariant.
LEMMA CompleteKeepsInv == ASSUME IInv, NEW w \in Worker, Complete(w) PROVE IInv'
<1> USE DEF IInv
<1>1. pc[w] = "answered" /\ BackToIdle(w) /\ job[w] \in Delivery
  BY DEF Complete, BackToIdle, IdentitiesAreKnown
<1>2. subs \in [Sub -> {"none", "wants", "quiet"}] /\ \A d \in queued : subs[d[2]] # "none"
  BY DEF TypeOK, RowsAreCurrent
<1>3. CASE ~Owns(w)
  <2>1. UNCHANGED <<subs, rowVars>>
    BY <1>3 DEF Complete
  <2>2. RowsLeft(queued) /\ queued \in SUBSET queued
    BY <2>1 DEF RowsLeft, rowVars, TypeOK
  <2>3. job[w] \in queued => ttl[job[w]] = 0
    BY <1>1, <1>3 DEF Owns, RowsAreCurrent, Leased, TypeOK
  <2> QED
    BY <1>1, <1>2, <2>1, <2>2, <2>3, LayDownKeepsInv
<1>4. CASE Owns(w) /\ outcome[w] = "gone"
  <2> DEFINE s == job[w][2]
  <2>1. subs' = [subs EXCEPT ![s] = "none"] /\ KeepRows(queued \ Of(s))
    BY <1>4 DEF Complete
  <2>2. RowsLeft(queued \ Of(s)) /\ queued \ Of(s) \in SUBSET queued
    BY <2>1, KeptRows
  <2>3. job[w] \notin queued \ Of(s)
    BY <1>1 DEF Of
  <2>4. /\ subs' \in [Sub -> {"none", "wants", "quiet"}]
        /\ \A d \in queued \ Of(s) : subs'[d[2]] # "none"
    BY <1>1, <1>2, <2>1, DeliveryParts DEF Of, TypeOK
  <2> QED
    BY <1>1, <2>2, <2>3, <2>4, LayDownKeepsInv
<1>5. CASE Owns(w) /\ outcome[w] # "gone"
  <2>1. Finish(job[w], outcome[w]) /\ subs' = subs
    BY <1>5 DEF Complete
  <2>2. CASE Final(outcome[w], attempts[job[w]])
    <3>1. KeepRows(queued \ {job[w]})
      BY <2>1, <2>2 DEF Finish
    <3>2. RowsLeft(queued \ {job[w]}) /\ queued \ {job[w]} \in SUBSET queued
      BY <3>1, KeptRows
    <3> QED
      BY <1>1, <1>2, <2>1, <3>2, LayDownKeepsInv
  <2>3. CASE ~Final(outcome[w], attempts[job[w]])
    <3>1. outcome[w] = "retry" /\ attempts[job[w]] < 2
      BY <1>1, <2>3 DEF Final, TypeOK
    <3> QED
      BY <1>1, <1>5, <2>1, <2>3, <3>1, RetryKeepsInv DEF Finish
  <2> QED
    BY <2>2, <2>3
<1> QED
  BY <1>3, <1>4, <1>5

-----------------------------------------------------------------------------
(* Time, failure and restart.                                              *)

\* A send and the lease of its row run down together.
LEMMA TickKeepsInv == ASSUME IInv, Tick PROVE IInv'
<1> USE DEF IInv, Tick
<1>1. TypeOK'
  <2>1. due' \in [Delivery -> Nat]
    BY DEF TypeOK
  <2>2. ttl' \in [Delivery -> Nat]
    BY DEF TypeOK
  <2>3. left' \in [Worker -> Nat]
    BY DEF TypeOK
  <2> HIDE DEF Tick
  <2>4. UNCHANGED <<subs, known, queued, attempts, past, connected, available, pc, job, tried,
                    outcome, same, sent, accepted>>
    BY DEF Tick
  <2> QED
    BY <2>1, <2>2, <2>3, <2>4 DEF TypeOK
<1>2. IdentitiesAreKnown' /\ RowsAreCurrent' /\ SendsAreCurrent' /\ OneSenderPerDelivery'
  BY DEF IdentitiesAreKnown, RowsAreCurrent, SendsAreCurrent, OneSenderPerDelivery
<1>3. Leased'
  BY DEF Leased, TypeOK
<1>4. SendsAreCounted' /\ AtMostThreeSends'
  BY DEF SendsAreCounted, AtMostThreeSends, Held, TypeOK
<1>5. AcceptedIsHeld'
  BY DEF AcceptedIsHeld, TypeOK
<1>6. OutboxIsBounded'
  BY DEF OutboxIsBounded
<1> QED
  BY <1>1, <1>2, <1>3, <1>4, <1>5, <1>6

\* Workers without a job have the right types.
LEMMA NoJobsType ==
  ASSUME NEW p \in {"idle", "dead"}, NoJobs(p)
  PROVE  /\ pc' \in [Worker -> {"idle", "answered", "dead"} \union InFlight]
         /\ job' \in [Worker -> Jobs] /\ tried' \in [Worker -> Attempts]
         /\ left' \in [Worker -> Nat] /\ outcome' \in [Worker -> Outcomes]
         /\ same' \in [Worker -> BOOLEAN]
         /\ \A w \in Worker : pc'[w] \notin Active /\ left'[w] = 0
<1>1. job' \in [Worker -> Jobs] /\ same' \in [Worker -> BOOLEAN]
  BY Zenon DEF NoJobs, Jobs
<1>2. /\ pc' = [w \in Worker |-> p] /\ tried' = [w \in Worker |-> 0]
      /\ left' = [w \in Worker |-> 0] /\ outcome' = [w \in Worker |-> "drop"]
  BY Zenon DEF NoJobs
<1> QED
  BY <1>1, <1>2

\* A storage failure leaves the rows to the next start.
LEMMA StoreFailsKeepsInv == ASSUME IInv, StoreFails PROVE IInv'
<1> USE DEF IInv
<1>1. /\ UNCHANGED <<subs, known, rowVars, past, sent, accepted>>
      /\ available' = FALSE /\ connected' = FALSE /\ NoJobs("dead")
  BY DEF StoreFails
<1>2. \A w \in Worker : pc'[w] \notin Active /\ left'[w] = 0
  BY <1>1, NoJobsType
<1>3. TypeOK'
  BY <1>1, NoJobsType DEF TypeOK, rowVars
<1>4. IdentitiesAreKnown' /\ RowsAreCurrent' /\ SendsAreCurrent' /\ OneSenderPerDelivery' /\ Leased'
  BY <1>1, <1>2 DEF IdentitiesAreKnown, RowsAreCurrent, SendsAreCurrent, OneSenderPerDelivery, Leased, rowVars
<1>5. SendsAreCounted' /\ AtMostThreeSends' /\ AcceptedIsHeld' /\ OutboxIsBounded'
  BY <1>1, <1>2 DEF SendsAreCounted, AtMostThreeSends, AcceptedIsHeld, OutboxIsBounded, rowVars
<1> QED
  BY <1>3, <1>4, <1>5

\* A restart keeps only the rows of the test button.
LEMMA RestartKeepsInv == ASSUME IInv, Restart PROVE IInv'
<1> USE DEF IInv
<1>1. /\ available' = TRUE /\ connected' = FALSE /\ NoJobs("idle") /\ UNCHANGED <<subs, known>>
      /\ past' = {d \in Native : d[1] \in known}
      /\ sent' = [d \in Delivery |-> 0] /\ accepted' = accepted \ Resumed
  BY DEF Restart
<1>2. Resumed \in SUBSET queued /\ RowsLeft(Resumed)
  <2>1. Resumed \in SUBSET queued
    BY DEF Resumed
  <2> QED
    BY <2>1, KeptRows DEF Restart
<1>3. \A w \in Worker : pc'[w] \notin Active /\ left'[w] = 0
  BY <1>1, NoJobsType
<1>4. TypeOK'
  BY <1>1, <1>2, NoJobsType DEF TypeOK, RowsLeft
<1>5. IdentitiesAreKnown' /\ RowsAreCurrent'
  BY <1>1, <1>2, <1>3 DEF IdentitiesAreKnown, RowsAreCurrent, RowsLeft, Resumed, Native
<1>6. SendsAreCurrent' /\ OneSenderPerDelivery' /\ Leased'
  BY <1>3 DEF SendsAreCurrent, OneSenderPerDelivery, Leased
<1>7. SendsAreCounted' /\ AtMostThreeSends' /\ AcceptedIsHeld'
  BY <1>1, <1>2, <1>3, <1>4 DEF SendsAreCounted, AtMostThreeSends, AcceptedIsHeld, RowsLeft, TypeOK
<1>8. OutboxIsBounded'
  BY <1>2, FewerRows DEF OutboxIsBounded, RowsLeft
<1> QED
  BY <1>4, <1>5, <1>6, <1>7, <1>8

-----------------------------------------------------------------------------
(* The theorems.                                                           *)

\* The invariant is inductive.
THEOREM Invariance == Spec => []IInv
<1>1. ASSUME IInv, [Next]_vars PROVE IInv'
  <2> USE <1>1
  <2>1. CASE \E e \in Event : Queue(e)
    <3>1. PICK e \in Event : Queue(e)
      BY <2>1
    <3>2. PICK life \in 0 .. Ttl : Enqueue(e, {d \in Delivery : d[1] = e /\ subs[d[2]] = "wants"}, life)
      BY <3>1 DEF Queue
    <3> QED
      BY <3>2, EnqueueKeepsInv
  <2>2. CASE \E e \in Event, s \in Sub : Test(e, s)
    <3>1. PICK e \in Event, s \in Sub : Test(e, s)
      BY <2>2
    <3>2. Enqueue(e, {<<e, s>>}, Ttl) /\ subs[s] # "none"
      BY <3>1 DEF Test
    <3>3. \A d \in {<<e, s>>} : d[1] = e /\ subs[d[2]] # "none"
      BY <3>2
    <3>4. {<<e, s>>} \in SUBSET Delivery /\ Ttl \in Nat
      BY DEF Delivery
    <3> QED
      BY <3>2, <3>3, <3>4, EnqueueKeepsInv
  <2>3. CASE \E s \in Sub, choice \in {"wants", "quiet"} : Register(s, choice)
    BY <2>3, RegistrationKeepsInv DEF Register
  <2>4. CASE \E s \in Sub : Delete(s)
    BY <2>4, RegistrationKeepsInv DEF Delete
  <2>5. CASE \E up \in BOOLEAN : Connect(up)
    BY <2>5, ConnectKeepsInv
  <2>6. CASE \E w \in Worker : WorkerStep(w)
    BY <2>6, PollKeepsInv, SendKeepsInv, AnswerKeepsInv, CompleteKeepsInv DEF WorkerStep
  <2>7. CASE Tick \/ StoreFails \/ Restart
    BY <2>7, TickKeepsInv, StoreFailsKeepsInv, RestartKeepsInv
  <2>8. CASE UNCHANGED vars
    <3>1. UNCHANGED <<available, subs, known, past, connected, workerVars, sent, accepted>>
      BY <2>8 DEF vars
    <3>2. RowsLeft(queued) /\ queued \in SUBSET queued /\ UNCHANGED rowVars
      BY <2>8 DEF vars, rowVars, RowsLeft, IInv, TypeOK
    <3>3. TypeOK' /\ IdentitiesAreKnown' /\ RowsAreCurrent' /\ SendsAreCurrent'
      BY <3>1, <3>2 DEF IInv, TypeOK, IdentitiesAreKnown, RowsAreCurrent, SendsAreCurrent, workerVars, rowVars
    <3>4. OneSenderPerDelivery' /\ Leased' /\ SendsAreCounted' /\ AtMostThreeSends' /\ AcceptedIsHeld' /\ OutboxIsBounded'
      BY <3>1, <3>2 DEF IInv, OneSenderPerDelivery, Leased, SendsAreCounted, AtMostThreeSends,
         AcceptedIsHeld, OutboxIsBounded, Held, workerVars, rowVars
    <3> QED
      BY <3>3, <3>4 DEF IInv
  <2> QED
    BY <2>1, <2>2, <2>3, <2>4, <2>5, <2>6, <2>7, <2>8 DEF Next
<1> QED
  BY InitInv, <1>1, PTL DEF Spec

\* Every reachable state has the types of TypeOK.
THEOREM TypeCorrect == Spec => []TypeOK
  BY Invariance, PTL DEF IInv

\* Two workers never have the same delivery in hand, because a claim outlasts its send.
THEOREM OneSender == Spec => []OneSenderPerDelivery
  BY Invariance, PTL DEF IInv

\* One process sends a delivery at most three times.
THEOREM SendsAreBounded == Spec => []AtMostThreeSends
  BY Invariance, PTL DEF IInv

\* The next start accepts what a crash leaves behind.
THEOREM StoreIsAccepted == Spec => []RestartAccepts
<1>1. IInv => RestartAccepts
  BY DEF IInv, RestartAccepts, OutboxIsBounded, RowsAreCurrent, TypeOK
<1> QED
  BY <1>1, Invariance, PTL

\* Only a send raises the count of sends.
LEMMA OnlySendSends ==
  ASSUME IInv, [Next]_vars, NEW d \in Delivery, Sends(d)
  PROVE  \E w \in Worker : pc[w] = "starting" /\ job[w] = d
<1> USE DEF Sends
<1>1. sent[d] \in Nat /\ sent'[d] # sent[d]
  BY DEF IInv, TypeOK
<1>2. CASE \E w \in Worker : Send(w)
  BY <1>1, <1>2 DEF Send, IInv, TypeOK
<1>3. CASE Restart
  BY <1>1, <1>3 DEF Restart
<1>4. CASE ~Restart /\ ~\E w \in Worker : Send(w)
  <2>1. sent' = sent
    BY <1>4 DEF Next, Queue, Test, Enqueue, Register, Delete, Connect, WorkerStep, Poll, Answer,
       Complete, Tick, StoreFails, vars
  <2> QED
    BY <1>1, <2>1
<1> QED
  BY <1>2, <1>3, <1>4

\* Nothing of a retired epoch is sent.
THEOREM RetirementHolds == Spec => RetiredIsNotSent
<1>1. IInv /\ [Next]_vars => [\A d \in Delivery : Sends(d) => d \notin past]_vars
  BY OnlySendSends DEF IInv, SendsAreCurrent
<1> QED
  BY <1>1, Invariance, PTL DEF Spec, RetiredIsNotSent

\* What the provider accepted is not sent again by this process.
THEOREM AcceptanceHolds == Spec => AcceptedIsFinal
<1>1. IInv /\ [Next]_vars => [\A d \in Delivery : Sends(d) => d \notin accepted]_vars
  BY OnlySendSends DEF IInv, AcceptedIsHeld
<1> QED
  BY <1>1, Invariance, PTL DEF Spec, AcceptedIsFinal

\* A replaced or removed registration gets no send, its successor no stale answer.
THEOREM RegistrationHolds == Spec => StaleRegistrationIsLeftAlone
<1>1. ASSUME IInv
      PROVE  [\A w \in Worker : /\ Send(w) => same[w]
                                /\ Complete(w) /\ subs' # subs => same[w]]_vars
  <2>1. ASSUME NEW w \in Worker, Send(w) PROVE same[w]
    BY <1>1, <2>1 DEF IInv, SendsAreCurrent, Send
  <2>2. ASSUME NEW w \in Worker, Complete(w), subs' # subs PROVE same[w]
    <3>1. pc[w] = "answered" /\ Owns(w)
      BY <2>2 DEF Complete
    <3> QED
      BY <1>1, <3>1 DEF IInv, SendsAreCurrent, Owns
  <2> QED
    BY <2>1, <2>2
<1> QED
  BY <1>1, Invariance, PTL DEF Spec, StaleRegistrationIsLeftAlone
=============================================================================
