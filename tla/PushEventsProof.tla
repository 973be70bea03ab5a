-------------------------- MODULE PushEventsProof --------------------------
(***************************************************************************)
(* Proofs about PushEvents: an occurrence becomes at most one event, for   *)
(* any slots, sources, dates and windows of time; and what is proved of    *)
(* Banners alone holds of the banners the observer reads.                  *)
(***************************************************************************)
EXTENDS PushEvents, BannersProof

\* What has been queued is reserved, so that no epoch, session or replay, and no
\* later observation, can queue it again.
QueueInv ==
  /\ times \in [Event -> Nat]
  /\ \A e \in Event : times[e] <= 1
  /\ \A e \in Event : times[e] > 0 => e \in remembered

\* EventProcessor.native queues what the store does not know, and reserves it.
LEMMA ObserveKeeps ==
  ASSUME QueueInv, NEW bs, NEW ss, NEW prime, NEW held, Observe(bs, ss, prime, held)
  PROVE  QueueInv'
<1> DEFINE dated  == {s \in bs : ss[s].date # Unknown}
           old    == Baseline(bs, ss, prime)
           late   == {s \in dated \ old : ss[s].typed /\ OutOfTime(ss[s].date)}
           events == {<<s, ss[s].date>> : s \in {x \in dated \ (old \union late) : ss[x].typed}}
           queued == {e \in events : IsNew(e)}
<1>1. /\ times' = [e \in Event |-> IF e \in queued THEN times[e] + 1 ELSE times[e]]
      /\ events \subseteq remembered' /\ remembered \subseteq remembered'
  <2> HIDE DEF old
  <2> QED BY DEF Observe, Reserved, Typed, old
<1>2. queued \subseteq events /\ \A e \in queued : e \notin remembered
  BY DEF IsNew
<1> HIDE DEF queued, events
<1>3. ASSUME NEW e \in Event
      PROVE  /\ times'[e] \in Nat /\ times'[e] <= 1
             /\ times'[e] > 0 => e \in remembered'
  <2>1. CASE e \in queued
    <3>1. times[e] = 0
      BY <2>1, <1>2, <1>3 DEF QueueInv
    <3> QED BY <3>1, <2>1, <1>1, <1>2, <1>3
  <2>2. CASE e \notin queued
    BY <2>2, <1>1, <1>3 DEF QueueInv
  <2> QED BY <2>1, <2>2
<1>4. times' \in [Event -> Nat]
  <2>1. times' = [e \in Event |-> times'[e]]
    BY <1>1
  <2> QED BY <2>1, <1>3
<1> QED BY <1>3, <1>4 DEF QueueInv

\* What queues events and what they were queued for survives everything, the end
\* of an epoch included, so each occurrence is queued at most once.
THEOREM QueueInvariance == PushSpec => []QueueInv
<1>1. PushInit => QueueInv
  BY DEF PushInit, QueueInv
<1>2. QueueInv /\ [PushNext]_allVars => QueueInv'
  <2> SUFFICES ASSUME QueueInv, [PushNext]_allVars PROVE QueueInv'
    OBVIOUS
  <2>1. ASSUME UNCHANGED storeVars PROVE QueueInv'
    BY <2>1 DEF QueueInv, storeVars
  <2>2. CASE ObserveMessage
    <3>1. Observe(banners \intersect Slot, slots, clock - startedAt < Priming, NoTitles)
      BY <2>2 DEF ObserveMessage
    <3> QED BY <3>1, ObserveKeeps
  <2>3. CASE PollAndObserve
    <3>1. Observe(banners' \intersect Slot, slots', ~connected,
                  [s \in Slot |-> IF slots' = slots THEN Unknown ELSE native[s].date])
      BY <2>3 DEF PollAndObserve
    <3> QED BY <3>1, ObserveKeeps
  <2>4. CASE Tick
    BY <2>4, <2>1 DEF Tick
  <2>5. CASE Outside
    BY <2>5, <2>1 DEF Outside, pushVars
  <2>6. CASE SessionStarts
    BY <2>6, <2>1 DEF SessionStarts
  <2>7. CASE SessionEnds
    BY <2>7, <2>1 DEF SessionEnds
  <2>8. CASE Apply
    BY <2>8, <2>1 DEF Apply
  <2>9. CASE GatewayLost
    BY <2>9, <2>1 DEF GatewayLost
  <2>10. CASE UNCHANGED allVars
    BY <2>10, <2>1 DEF allVars, pushVars
  <2> QED
    BY <2>2, <2>3, <2>4, <2>5, <2>6, <2>7, <2>8, <2>9, <2>10 DEF PushNext
<1> QED BY <1>1, <1>2, PTL DEF PushSpec

\* One event for an occurrence, over all epochs, sessions and replays.
THEOREM OneEvent == PushSpec => []QueuedOnce
<1>1. QueueInv => QueuedOnce
  BY DEF QueueInv, QueuedOnce
<1> QED BY <1>1, QueueInvariance, PTL

-----------------------------------------------------------------------------
(* Types, and the banners under the observer.                               *)

\* Every step of the observer's world is one that the banners' invariant survives.
LEMMA ObservedSteps == [PushNext]_allVars => AnyStep
<1> SUFFICES ASSUME [PushNext]_allVars PROVE AnyStep
  OBVIOUS
<1>1. ASSUME UNCHANGED vars PROVE AnyStep
  BY <1>1 DEF AnyStep
<1>2. CASE Tick
  BY <1>2, <1>1 DEF Tick
<1>3. CASE Outside
  BY <1>3 DEF Outside, AnyStep, CerboChanges, RaiseAt
<1>4. CASE SessionStarts \/ SessionEnds \/ Apply \/ PollAndObserve
  BY <1>4 DEF SessionStarts, SessionEnds, Apply, PollAndObserve, AnyStep
<1>5. CASE ObserveMessage
  BY <1>5, <1>1 DEF ObserveMessage
<1>6. CASE GatewayLost
  BY <1>6, <1>1 DEF GatewayLost
<1>7. CASE UNCHANGED allVars
  BY <1>7, <1>1 DEF allVars
<1> QED BY <1>2, <1>3, <1>4, <1>5, <1>6, <1>7 DEF PushNext

\* What Banners keeps on its own it keeps under the observer.
THEOREM BannersInvariance == PushSpec => []IInv
<1>1. Init => IInv
  BY Initially
<1>2. IInv /\ [PushNext]_allVars => IInv'
  BY ObservedSteps, AnyStepKeeps
<1>3. PushInit => Init
  BY DEF PushInit
<1> QED BY <1>1, <1>2, <1>3, PTL DEF PushSpec

\* The processor reads slots whose fields are of their types, and its marks stay theirs.
LEMMA ObserveTypes ==
  ASSUME PushTypeOK, NEW bs \in SUBSET Slot, NEW ss, NEW prime, NEW held,
         bs \subseteq DOMAIN ss, ss \in [DOMAIN ss -> Entry],
         held \in [Slot -> Date \union {Unknown}],
         Observe(bs, ss, prime, held)
  PROVE  /\ unknownPrimed' \in [Slot -> Title \union {Unknown}]
         /\ remembered' \in SUBSET Event
         /\ baseline' \in [Slot -> Date \union {Unknown}]
         /\ hydrated' \in SUBSET Event
<1> DEFINE dated  == {s \in bs : ss[s].date # Unknown}
           old    == Baseline(bs, ss, prime)
           late   == {s \in Typed(dated \ old, ss) : OutOfTime(ss[s].date)}
           events == {<<s, ss[s].date>> : s \in Typed(dated \ (old \union late), ss)}
           primed == {s \in bs \ dated : prime}
<1>1. \A s \in bs : /\ ss[s].text \in Title \union {Unknown}
                    /\ ss[s].date \in Date \union {Unknown}
  BY DEF Entry
<1>2. old \subseteq dated /\ late \subseteq dated /\ dated \subseteq bs /\ primed \subseteq bs
  BY DEF Baseline, Typed
<1>3. \A s \in dated : ss[s].date \in Date
  BY <1>1
<1>4. Typed(dated \ (old \union late), ss) \subseteq dated
  BY DEF Typed
<1>5. /\ unknownPrimed' = [s \in Slot |-> IF s \in primed THEN ss[s].text
                             ELSE IF s \in bs \ dated THEN unknownPrimed[s] ELSE Unknown]
      /\ remembered' = remembered \union {<<s, ss[s].date>> : s \in old \union late} \union events
      /\ baseline' = [s \in Slot |->
           IF s \notin bs THEN Unknown
           ELSE IF ~prime THEN baseline[s]
           ELSE IF s \in dated THEN ss[s].date ELSE held[s]]
      /\ hydrated' = hydrated \union {<<s, ss[s].date>> : s \in {b \in old : ~prime}}
  BY DEF Observe, Reserved
<1> HIDE DEF old, late, primed, dated
<1>6. unknownPrimed' \in [Slot -> Title \union {Unknown}]
  BY <1>1, <1>2, <1>5 DEF PushTypeOK
<1>7. remembered' \in SUBSET Event
  <2>1. \A s \in old \union late : <<s, ss[s].date>> \in Slot \X Date
    BY <1>2, <1>3
  <2>2. \A s \in Typed(dated \ (old \union late), ss) : <<s, ss[s].date>> \in Slot \X Date
    BY <1>2, <1>3, <1>4
  <2>3. {<<s, ss[s].date>> : s \in old \union late} \subseteq Slot \X Date
    BY <2>1
  <2>4. events \subseteq Slot \X Date
    BY <2>2
  <2>5. remembered \subseteq Slot \X Date
    BY DEF PushTypeOK, Event
  <2> HIDE DEF events
  <2> QED BY <1>5, <2>3, <2>4, <2>5 DEF Event
<1>8. baseline' \in [Slot -> Date \union {Unknown}]
  BY <1>3, <1>5 DEF PushTypeOK
<1>9. hydrated' \in SUBSET Event
  <2>1. \A s \in {b \in old : ~prime} : <<s, ss[s].date>> \in Slot \X Date
    BY <1>2, <1>3
  <2>2. {<<s, ss[s].date>> : s \in {b \in old : ~prime}} \subseteq Slot \X Date
    BY <2>1
  <2> QED BY <1>5, <2>2 DEF PushTypeOK, Event
<1> QED BY <1>6, <1>7, <1>8, <1>9

\* A step that observes nothing, and may move the clock or begin an epoch.
LEMMA OtherTypes ==
  ASSUME PushTypeOK, UNCHANGED storeVars,
         clock' \in 1 .. MaxDate, observing' \in BOOLEAN,
         UNCHANGED processorVars \/ \E up \in BOOLEAN : Reset(up)
  PROVE  PushTypeOK'
<1>1. CASE UNCHANGED processorVars
  BY <1>1 DEF PushTypeOK, processorVars, storeVars
<1>2. CASE \E up \in BOOLEAN : Reset(up)
  <2>1. /\ connected' \in BOOLEAN /\ startedAt' = clock
        /\ unknownPrimed' = NoTitles /\ baseline' = NoTitles /\ hydrated' = {}
    BY <1>2 DEF Reset
  <2>2. NoTitles \in [Slot -> {Unknown}]
    BY DEF NoTitles
  <2> QED BY <2>1, <2>2 DEF PushTypeOK, storeVars
<1> QED BY <1>1, <1>2

\* The clock, the epoch and what was queued keep their types, as the banners do.
THEOREM PushTypeCorrect == PushSpec => []PushTypeOK
<1>1. PushInit => PushTypeOK
  <2>1. NoTitles \in [Slot -> {Unknown}]
    BY DEF NoTitles
  <2>2. 1 \in 1 .. MaxDate
    BY ClockAssumption, BoundAssumption
  <2> SUFFICES ASSUME PushInit PROVE PushTypeOK
    OBVIOUS
  <2>3. times \in [Event -> Nat] /\ \A e \in Event : times[e] = 0
    BY DEF PushInit
  <2>4. /\ unknownPrimed \in [Slot -> Title \union {Unknown}]
        /\ baseline \in [Slot -> Date \union {Unknown}]
    BY <2>1 DEF PushInit
  <2>5. \A e \in Event : times[e] > 0 => e \in remembered
    BY <2>3
  <2> QED BY <2>2, <2>3, <2>4, <2>5 DEF PushInit, PushTypeOK
<1>2. /\ PushTypeOK /\ QueueInv /\ QueueInv' /\ IInv /\ IInv' /\ [PushNext]_allVars
      => PushTypeOK'
  <2> SUFFICES ASSUME PushTypeOK, QueueInv, QueueInv', IInv, IInv', [PushNext]_allVars
               PROVE  PushTypeOK'
    OBVIOUS
  <2>1. clock \in 1 .. MaxDate /\ observing \in BOOLEAN /\ connected \in BOOLEAN
    BY DEF PushTypeOK
  <2>2. /\ times' \in [Event -> Nat] /\ \A e \in Event : times'[e] > 0 => e \in remembered'
    BY DEF QueueInv
  <2>3. CASE ObserveMessage
    <3> DEFINE bs == banners \intersect Slot
               prime == clock - startedAt < Priming
    <3>1. /\ Observe(bs, slots, prime, NoTitles)
          /\ observing' = FALSE /\ UNCHANGED <<clock, connected, startedAt>>
      BY <2>3 DEF ObserveMessage
    <3>2. bs \in SUBSET Slot /\ bs \subseteq DOMAIN slots /\ slots \in [DOMAIN slots -> Entry]
      BY DEF IInv, TypeOK
    <3>3. NoTitles \in [Slot -> Date \union {Unknown}]
      BY DEF NoTitles
    <3> HIDE DEF bs, prime
    <3>4. /\ unknownPrimed' \in [Slot -> Title \union {Unknown}]
          /\ remembered' \in SUBSET Event
          /\ baseline' \in [Slot -> Date \union {Unknown}]
          /\ hydrated' \in SUBSET Event
      BY <3>1, <3>2, <3>3, ObserveTypes
    <3> QED BY <3>1, <3>4, <2>1, <2>2 DEF PushTypeOK
  <2>4. CASE PollAndObserve
    <3> DEFINE bs == banners' \intersect Slot
               held == [s \in Slot |-> IF slots' = slots THEN Unknown ELSE native[s].date]
    <3>1. /\ Observe(bs, slots', ~connected, held)
          /\ connected' = TRUE /\ startedAt' = (IF connected THEN startedAt ELSE clock)
          /\ UNCHANGED <<clock, observing>>
      BY <2>4 DEF PollAndObserve
    <3>2. bs \in SUBSET Slot /\ bs \subseteq DOMAIN slots' /\ slots' \in [DOMAIN slots' -> Entry]
      BY DEF IInv, TypeOK
    <3>3. held \in [Slot -> Date \union {Unknown}]
      BY DEF IInv, TypeOK, Native
    <3>4. PICK b, ss, h : b = bs /\ ss = slots' /\ h = held
      OBVIOUS
    <3> HIDE DEF bs, held
    <3>5. /\ Observe(b, ss, ~connected, h)
          /\ b \in SUBSET Slot /\ b \subseteq DOMAIN ss /\ ss \in [DOMAIN ss -> Entry]
          /\ h \in [Slot -> Date \union {Unknown}]
      BY <3>1, <3>2, <3>3, <3>4
    <3>6. /\ unknownPrimed' \in [Slot -> Title \union {Unknown}]
          /\ remembered' \in SUBSET Event
          /\ baseline' \in [Slot -> Date \union {Unknown}]
          /\ hydrated' \in SUBSET Event
      BY <3>5, ObserveTypes
    <3>7. startedAt' \in 1 .. MaxDate
      BY <3>1 DEF PushTypeOK
    <3> QED BY <3>1, <3>6, <3>7, <2>1, <2>2 DEF PushTypeOK
  <2>5. CASE Tick
    <3>1. clock' \in 1 .. MaxDate
      BY <2>5, <2>1, BoundAssumption DEF Tick
    <3> QED BY <2>5, <3>1, <2>1, OtherTypes DEF Tick
  <2>6. CASE Outside
    BY <2>6, <2>1, OtherTypes DEF Outside, pushVars
  <2>7. CASE SessionStarts
    BY <2>7, <2>1, OtherTypes DEF SessionStarts
  <2>8. CASE SessionEnds
    BY <2>8, <2>1, OtherTypes DEF SessionEnds
  <2>9. CASE Apply
    BY <2>9, <2>1, OtherTypes DEF Apply
  <2>10. CASE GatewayLost
    BY <2>10, <2>1, OtherTypes DEF GatewayLost
  <2>11. CASE UNCHANGED allVars
    BY <2>11, <2>1, OtherTypes DEF allVars, pushVars
  <2> QED
    BY <2>3, <2>4, <2>5, <2>6, <2>7, <2>8, <2>9, <2>10, <2>11 DEF PushNext
<1> QED BY <1>1, <1>2, QueueInvariance, BannersInvariance, PTL DEF PushSpec

-----------------------------------------------------------------------------
(* What has arrived in time is queued, and a baseline is not.               *)

\* Times that have passed.  Only MQTT observes after an await.
ClockOK ==
  /\ startedAt <= clock
  /\ \A s \in Slot : native[s].date <= clock
  /\ \A e \in remembered : e[2] <= clock
  /\ observing => source = "mqtt"

\* A slot takes an occurrence for the baseline's once in an epoch: the title it was
\* primed with is forgotten then, and nothing is primed any more.
HydratedOK ==
  /\ \A e, f \in hydrated : e[1] = f[1] => e = f
  /\ \A e \in hydrated : unknownPrimed[e[1]] = Unknown

PrimedOK == hydrated # {} => connected /\ (source = "igw" \/ clock >= startedAt + Priming)

\* Reserved and not queued: from before this epoch, taken for its baseline's, or too old.
QueuedOK == \A e \in remembered :
  /\ e[2] >= startedAt + Priming /\ clock - e[2] <= MaxAge /\ e \notin hydrated
  => times[e] > 0

\* What has been observed is reserved.
ObservedOK == connected /\ ~observing =>
  \A s \in banners \intersect Slot :
    slots[s].date # Unknown /\ slots[s].typed => <<s, slots[s].date>> \in remembered

\* The occurrence of the baseline is reserved; or the slot has gone on to another,
\* which its banner may not show yet; or its date is still to come, with its title.
Succeeded(s) == /\ native[s].date > baseline[s]
                /\ s \in DOMAIN slots => slots[s].date # baseline[s]
Undetermined(s) == /\ native[s].date = baseline[s] /\ native[s].text = unknownPrimed[s]
                   /\ s \in DOMAIN slots /\ slots[s].date = Unknown

BaselineOK == \A s \in Slot :
  \/ baseline[s] = Unknown
  \/ <<s, baseline[s]>> \in remembered
  \/ source = "igw" /\ (Succeeded(s) \/ Undetermined(s))

ObserverInv == ClockOK /\ HydratedOK /\ PrimedOK /\ QueuedOK /\ ObservedOK /\ BaselineOK

\* What EventProcessor.native remembers of each slot.
Marks(bs, ss, prime, held) ==
  \A s \in Slot :
    /\ unknownPrimed'[s] = IF s \in bs /\ ss[s].date = Unknown
                           THEN IF prime THEN ss[s].text ELSE unknownPrimed[s] ELSE Unknown
    /\ baseline'[s] = IF s \notin bs THEN Unknown
                      ELSE IF ~prime THEN baseline[s]
                      ELSE IF ss[s].date # Unknown THEN ss[s].date ELSE held[s]

LEMMA ObserveMarks ==
  ASSUME NEW bs, NEW ss, NEW prime \in BOOLEAN, NEW held, Observe(bs, ss, prime, held)
  PROVE  Marks(bs, ss, prime, held)
<1> DEFINE dated  == {s \in bs : ss[s].date # Unknown}
           primed == {s \in bs \ dated : prime}
<1>1. /\ unknownPrimed' = [s \in Slot |-> IF s \in primed THEN ss[s].text
                             ELSE IF s \in bs \ dated THEN unknownPrimed[s] ELSE Unknown]
      /\ baseline' = [s \in Slot |->
           IF s \notin bs THEN Unknown
           ELSE IF ~prime THEN baseline[s]
           ELSE IF s \in dated THEN ss[s].date ELSE held[s]]
  BY DEF Observe
<1>2. /\ \A s : s \in dated <=> s \in bs /\ ss[s].date # Unknown
      /\ \A s : s \in primed <=> s \in bs /\ ss[s].date = Unknown /\ prime
  OBVIOUS
<1> HIDE DEF dated, primed
<1> QED BY <1>1, <1>2 DEF Marks

\* What it takes for the baseline's by the title.
Hydrates(bs, ss, prime) ==
  /\ hydrated \subseteq hydrated'
  /\ \A s \in bs : ss[s].date # Unknown /\ ~prime /\ unknownPrimed[s] = ss[s].text
                   => <<s, ss[s].date>> \in hydrated'
  /\ \A e \in hydrated' : e \in hydrated \/ \E s \in bs :
       /\ ss[s].date # Unknown /\ e = <<s, ss[s].date>>
       /\ ~prime /\ unknownPrimed[s] = ss[s].text

LEMMA ObserveHydrates ==
  ASSUME NEW bs, NEW ss, NEW prime \in BOOLEAN, NEW held, Observe(bs, ss, prime, held)
  PROVE  Hydrates(bs, ss, prime)
<1> DEFINE taken == {b \in Baseline(bs, ss, prime) : ~prime}
           news  == {<<s, ss[s].date>> : s \in taken}
<1>1. hydrated' = hydrated \union news
  BY DEF Observe
<1>2. /\ \A s : s \in taken <=> /\ s \in bs /\ ss[s].date # Unknown
                               /\ ~prime /\ unknownPrimed[s] = ss[s].text
      /\ \A e : e \in news <=> \E s \in taken : e = <<s, ss[s].date>>
  BY Zenon DEF Baseline
<1> HIDE DEF taken, news
<1> QED BY <1>1, <1>2 DEF Hydrates

\* What it reserves and queues.
Reserves(bs, ss, prime) ==
  /\ remembered \subseteq remembered'
  /\ \A s \in bs :
       /\ ss[s].date # Unknown
       /\ ss[s].typed \/ prime \/ unknownPrimed[s] = ss[s].text
       => <<s, ss[s].date>> \in remembered'

Enters(bs, ss, prime) ==
  \A e \in remembered' : e \in remembered \/ \E s \in bs :
    /\ ss[s].date # Unknown /\ e = <<s, ss[s].date>>
    /\ \/ prime \/ unknownPrimed[s] = ss[s].text
       \/ OutOfTime(ss[s].date)
       \/ e \in Event => times'[e] = times[e] + 1

Queues(bs, ss, prime) ==
  \A e \in Event :
    \/ times'[e] = times[e]
    \/ /\ times'[e] = times[e] + 1 /\ e \notin remembered
       /\ \E s \in bs : /\ ss[s].date # Unknown /\ e = <<s, ss[s].date>>
                        /\ ~prime /\ unknownPrimed[s] # ss[s].text

LEMMA ObserveDoes ==
  ASSUME PushTypeOK, NEW bs \in SUBSET Slot, NEW ss, NEW prime \in BOOLEAN, NEW held,
         Observe(bs, ss, prime, held)
  PROVE  Reserves(bs, ss, prime) /\ Enters(bs, ss, prime) /\ Queues(bs, ss, prime)
<1> DEFINE dated  == {s \in bs : ss[s].date # Unknown}
           old    == Baseline(bs, ss, prime)
           late   == {s \in Typed(dated \ old, ss) : OutOfTime(ss[s].date)}
           events == {<<s, ss[s].date>> : s \in Typed(dated \ (old \union late), ss)}
           queued == {e \in events : IsNew(e)}
<1>1. /\ remembered' = remembered \union {<<s, ss[s].date>> : s \in old \union late} \union events
      /\ times' = [e \in Event |-> IF e \in queued THEN times[e] + 1 ELSE times[e]]
  BY DEF Observe, Reserved
<1>2. /\ \A s : s \in dated <=> s \in bs /\ ss[s].date # Unknown
      /\ \A s : s \in old <=> s \in dated /\ (prime \/ unknownPrimed[s] = ss[s].text)
      /\ \A s : s \in late <=> s \in dated \ old /\ ss[s].typed /\ OutOfTime(ss[s].date)
      /\ \A e : e \in events <=> \E s \in dated \ (old \union late) :
                                   ss[s].typed /\ e = <<s, ss[s].date>>
      /\ \A e : e \in queued <=> e \in events /\ e \notin remembered
  BY Zenon DEF Baseline, Typed, IsNew
<1> HIDE DEF dated, old, late, events, queued
<1>3. remembered \subseteq remembered'
  BY <1>1
<1>4. ASSUME NEW s \in bs, ss[s].date # Unknown,
             ss[s].typed \/ prime \/ unknownPrimed[s] = ss[s].text
      PROVE  <<s, ss[s].date>> \in remembered'
  <2>1. CASE s \in old \union late
    BY <2>1, <1>1
  <2>2. CASE s \notin old \union late
    <3>1. s \in dated \ (old \union late) /\ ss[s].typed
      BY <2>2, <1>2, <1>4
    <3>2. <<s, ss[s].date>> \in events
      BY <3>1, <1>2
    <3> QED BY <3>2, <1>1
  <2> QED BY <2>1, <2>2
<1>5. ASSUME NEW e \in remembered', e \notin remembered
      PROVE  \E s \in bs :
               /\ ss[s].date # Unknown /\ e = <<s, ss[s].date>>
               /\ \/ prime \/ unknownPrimed[s] = ss[s].text
                  \/ OutOfTime(ss[s].date)
                  \/ e \in Event => times'[e] = times[e] + 1
  <2>1. CASE e \in events
    <3>1. e \in Event => times'[e] = times[e] + 1
      BY <2>1, <1>1, <1>2, <1>5
    <3>2. PICK s \in dated \ (old \union late) : e = <<s, ss[s].date>>
      BY <2>1, <1>2
    <3> QED BY <3>1, <3>2, <1>2
  <2>2. CASE e \notin events
    <3>1. PICK s \in old \union late : e = <<s, ss[s].date>>
      BY <2>2, <1>1, <1>5
    <3> QED BY <3>1, <1>2, Zenon
  <2> QED BY <2>1, <2>2
<1>6. ASSUME NEW e \in Event, times'[e] # times[e]
      PROVE  /\ times'[e] = times[e] + 1 /\ e \notin remembered
             /\ \E s \in bs : /\ ss[s].date # Unknown /\ e = <<s, ss[s].date>>
                              /\ ~prime /\ unknownPrimed[s] # ss[s].text
  <2>1. e \in queued /\ times'[e] = times[e] + 1
    BY <1>1, <1>6
  <2>2. e \in events /\ e \notin remembered
    BY <2>1, <1>2
  <2>3. PICK s \in dated \ (old \union late) : e = <<s, ss[s].date>>
    BY <2>2, <1>2
  <2> QED BY <2>1, <2>2, <2>3, <1>2, Zenon
<1>7. Reserves(bs, ss, prime)
  BY <1>3, <1>4 DEF Reserves
<1>8. Enters(bs, ss, prime)
  BY <1>5, Zenon DEF Enters
<1>9. Queues(bs, ss, prime)
  BY <1>6, Zenon DEF Queues
<1> QED BY <1>7, <1>8, <1>9

LEMMA BeforePriming ==
  ASSUME NEW d \in Nat, NEW now \in Nat, NEW start \in Nat, Priming \in Nat,
         d <= now, now < start + Priming
  PROVE  ~(d >= start + Priming)
OBVIOUS

\* An event that is in time, for an occurrence that came after the baseline, is
\* queued; what is reserved without that came before.
LEMMA ObserveEligible ==
  ASSUME PushTypeOK, QueueInv, ClockOK, HydratedOK, QueuedOK,
         NEW bs \in SUBSET Slot, NEW ss, NEW prime \in BOOLEAN, NEW held,
         Observe(bs, ss, prime, held), clock' = clock, startedAt' \in {startedAt, clock},
         prime => clock < startedAt' + Priming, prime => hydrated = {},
         \A s \in bs : /\ ss[s].text # Unknown
                       /\ ss[s].date \in Date \union {Unknown} /\ ss[s].date <= clock
  PROVE  HydratedOK' /\ QueuedOK' /\ \A e \in remembered' : e[2] <= clock
<1>1. /\ clock \in Nat /\ startedAt \in Nat /\ startedAt' \in Nat /\ startedAt <= startedAt'
      /\ MaxAge \in Nat /\ FutureSkew \in Nat /\ Priming \in Nat /\ Priming > 0
  BY AgeAssumption, PrimingAssumption, BoundAssumption DEF PushTypeOK, ClockOK
<1>2. \A s \in bs : ss[s].date \in Nat
  BY BoundAssumption DEF Date, Unknown
<1>3. Marks(bs, ss, prime, held)
  BY ObserveMarks
<1>hydrates. Hydrates(bs, ss, prime)
  BY ObserveHydrates
<1>4. HydratedOK'
  <2>1. ASSUME NEW e \in hydrated' PROVE e \in Event
    <3>1. CASE e \in hydrated
      BY <3>1 DEF PushTypeOK
    <3>2. CASE e \notin hydrated
      BY <2>1, <3>2, <1>hydrates DEF Hydrates, Event
    <3> QED BY <3>1, <3>2
  <2>2. ASSUME NEW e \in hydrated', e \notin hydrated
        PROVE  /\ e[1] \in bs /\ e = <<e[1], ss[e[1]].date>> /\ ss[e[1]].date # Unknown
               /\ unknownPrimed[e[1]] # Unknown /\ ~prime
    BY <2>2, <1>hydrates DEF Hydrates
  <2>3. ASSUME NEW e \in hydrated' PROVE unknownPrimed'[e[1]] = Unknown
    <3>1. e[1] \in Slot
      BY <2>1, <2>3 DEF Event
    <3>2. CASE e \in hydrated
      BY <3>1, <3>2, <1>3 DEF HydratedOK, Marks
    <3>3. CASE e \notin hydrated
      BY <2>3, <3>1, <3>3, <2>2, <1>3 DEF Marks
    <3> QED BY <3>2, <3>3
  <2>4. ASSUME NEW e \in hydrated', NEW f \in hydrated', e[1] = f[1] PROVE e = f
    <3>1. CASE e \in hydrated /\ f \in hydrated
      BY <2>4, <3>1 DEF HydratedOK
    <3>2. CASE e \notin hydrated /\ f \notin hydrated
      BY <2>4, <3>2, <2>2
    <3>3. CASE e \in hydrated /\ f \notin hydrated
      BY <2>4, <3>3, <2>2 DEF HydratedOK
    <3>4. CASE e \notin hydrated /\ f \in hydrated
      BY <2>4, <3>4, <2>2 DEF HydratedOK
    <3> QED BY <3>1, <3>2, <3>3, <3>4
  <2> QED BY <2>3, <2>4 DEF HydratedOK
<1>5. ASSUME NEW e \in remembered', e \notin remembered
      PROVE  /\ e[2] <= clock
             /\ e[2] >= startedAt' + Priming /\ clock - e[2] <= MaxAge /\ e \notin hydrated'
                => times'[e] > 0
  <2>1. PICK s \in bs :
          /\ ss[s].date # Unknown /\ e = <<s, ss[s].date>>
          /\ \/ prime \/ unknownPrimed[s] = ss[s].text
             \/ OutOfTime(ss[s].date)
             \/ e \in Event => times'[e] = times[e] + 1
    <3>1. Enters(bs, ss, prime)
      BY ObserveDoes, Zenon
    <3> QED BY <3>1, <1>5, Zenon DEF Enters
  <2>2. e[1] = s /\ e[2] = ss[s].date /\ ss[s].date \in Nat /\ ss[s].date <= clock /\ s \in Slot
    BY <2>1, <1>2
  <2>3. e \in Event /\ times[e] \in Nat
    BY <2>1 DEF Event, QueueInv
  <2>4. CASE prime
    <3>1. clock < startedAt' + Priming
      BY <2>4
    <3>2. ~(ss[s].date >= startedAt' + Priming)
      BY <3>1, <2>2, <1>1, BeforePriming
    <3> QED BY <3>2, <2>2
  <2>5. CASE unknownPrimed[s] = ss[s].text
    BY <2>1, <2>4, <2>5, <1>hydrates DEF Hydrates
  <2>6. CASE OutOfTime(ss[s].date)
    BY <2>2, <2>6, <1>1 DEF OutOfTime
  <2>7. CASE e \in Event => times'[e] = times[e] + 1
    BY <2>2, <2>3, <2>7
  <2> QED BY <2>1, <2>4, <2>5, <2>6, <2>7
<1>6. ASSUME NEW e \in remembered', e \in remembered
      PROVE  /\ e[2] <= clock
             /\ e[2] >= startedAt' + Priming /\ clock - e[2] <= MaxAge /\ e \notin hydrated'
                => times'[e] > 0
  <2>1. e \in Event /\ times[e] \in Nat /\ (times'[e] = times[e] \/ times'[e] = times[e] + 1)
    <3>1. e \in Event
      BY <1>6 DEF PushTypeOK
    <3>2. Queues(bs, ss, prime)
      BY ObserveDoes, Zenon
    <3> QED BY <3>1, <3>2 DEF QueueInv, Queues
  <2>2. e[2] \in Nat /\ e[1] \in Slot
    BY <2>1, BoundAssumption DEF Event, Date
  <2>3. e[2] <= clock
    BY <1>6 DEF ClockOK
  <2>4. ASSUME e[2] >= startedAt' + Priming, clock - e[2] <= MaxAge, e \notin hydrated'
        PROVE  times'[e] > 0
    <3>1. e[2] >= startedAt + Priming
      BY <2>2, <2>4, <1>1
    <3>2. e \notin hydrated
      BY <2>4, <1>hydrates DEF Hydrates
    <3>3. times[e] > 0
      BY <3>1, <3>2, <2>4, <1>6 DEF QueuedOK
    <3> QED BY <3>3, <2>1
  <2> QED BY <2>3, <2>4
<1>7. QueuedOK'
  BY <1>5, <1>6 DEF QueuedOK
<1> QED BY <1>4, <1>5, <1>6, <1>7

\* What the Cerbo and the browsers do leaves the dates of the slots alone, and adds
\* no banner of a slot.
LEMMA OutsideDoes ==
  ASSUME IInv, Outside
  PROVE  /\ source' = source
         /\ DOMAIN slots' = DOMAIN slots
         /\ \A s \in DOMAIN slots : slots'[s].date = slots[s].date /\ slots'[s].typed = slots[s].typed
         /\ banners' \intersect Slot \subseteq banners
         /\ \A s \in Slot : \/ native'[s].date = native[s].date /\ native'[s].text = native[s].text
                            \/ native'[s].date = clock /\ clock > native[s].date
<1>1. /\ native \in [Slot \union Raw -> Native]
      /\ slots \in [DOMAIN slots -> Entry]
  BY DEF IInv, TypeOK
<1>2. ASSUME NEW i \in Slot \union Raw, NEW new \in Native, NEW fields,
             Becomes(i, new, fields),
             \/ new.date = native[i].date /\ new.text = native[i].text
             \/ i \in Slot /\ new.date = clock /\ clock > native[i].date
      PROVE  /\ source' = source /\ slots' = slots /\ banners' = banners
             /\ \A s \in Slot : \/ native'[s].date = native[s].date /\ native'[s].text = native[s].text
                                \/ native'[s].date = clock /\ clock > native[s].date
  <2>1. source' = source /\ slots' = slots /\ banners' = banners /\ native' = [native EXCEPT ![i] = new]
    BY <1>2 DEF Becomes, stateVars
  <2>2. native'[i] = new /\ \A s \in (Slot \union Raw) \ {i} : native'[s] = native[s]
    BY <2>1, <1>1
  <2> QED BY <2>1, <2>2, <1>2
<1>3. ASSUME NEW s \in Slot, RaiseAt(s, clock)
      PROVE  /\ source' = source /\ slots' = slots /\ banners' = banners
             /\ \A x \in Slot : \/ native'[x].date = native[x].date /\ native'[x].text = native[x].text
                                \/ native'[x].date = clock /\ clock > native[x].date
  <2>1. PICK t \in Title :
          /\ clock \in Date /\ clock > native[s].date
          /\ Becomes(s, [text |-> t, date |-> clock, active |-> TRUE, acknowledged |-> FALSE], Fields)
    BY <1>3 DEF RaiseAt
  <2> DEFINE new_ == [text |-> t, date |-> clock, active |-> TRUE, acknowledged |-> FALSE]
  <2>2. PICK new \in Native : new = new_
    BY <2>1 DEF Native
  <2>3. Becomes(s, new, Fields) /\ new.date = clock
    BY <2>1, <2>2
  <2> QED BY <2>1, <2>3, <1>2
<1>4. ASSUME NEW s \in Slot, Subside(s)
      PROVE  /\ source' = source /\ slots' = slots /\ banners' = banners
             /\ \A x \in Slot : native'[x].date = native[x].date /\ native'[x].text = native[x].text
  <2> DEFINE new_ == [native[s] EXCEPT !.active = FALSE]
  <2>1. native' = [native EXCEPT ![s] = new_] /\ source' = source /\ UNCHANGED stateVars
    BY <1>4 DEF Subside, Becomes
  <2>2. new_.date = native[s].date /\ new_.text = native[s].text
    BY <1>1 DEF Native
  <2> HIDE DEF new_
  <2> QED BY <2>1, <2>2, <1>1 DEF stateVars
<1>5. ASSUME NEW s \in Slot, Acknowledge(s)
      PROVE  /\ source' = source /\ slots' = slots /\ banners' = banners
             /\ \A x \in Slot : native'[x].date = native[x].date /\ native'[x].text = native[x].text
  <2> DEFINE new_ == [native[s] EXCEPT !.acknowledged = TRUE]
  <2>1. native' = [native EXCEPT ![s] = new_] /\ source' = source /\ UNCHANGED stateVars
    BY <1>5 DEF Acknowledge, Becomes
  <2>2. new_.date = native[s].date /\ new_.text = native[s].text
    BY <1>1 DEF Native
  <2> HIDE DEF new_
  <2> QED BY <2>1, <2>2, <1>1 DEF stateVars
<1>6. ASSUME NEW a \in Raw, Alarm(a)
      PROVE  /\ source' = source /\ slots' = slots /\ banners' = banners
             /\ \A x \in Slot : native'[x].date = native[x].date /\ native'[x].text = native[x].text
  <2>1. native' = [native EXCEPT ![a] = [native[a] EXCEPT !.active = ~@]] /\ source' = source
        /\ UNCHANGED stateVars
    BY <1>6 DEF Alarm, Becomes
  <2>2. \A x \in Slot : native'[x] = native[x]
    BY <2>1, <1>1, DisjointIds
  <2> QED BY <2>1, <2>2 DEF stateVars
<1>7. ASSUME NEW p \in Slot, DismissSlot(p)
      PROVE  /\ source' = source /\ native' = native /\ DOMAIN slots' = DOMAIN slots
             /\ banners' \subseteq banners
             /\ \A s \in DOMAIN slots : slots'[s].date = slots[s].date /\ slots'[s].typed = slots[s].typed
  <2>1. /\ source' = source /\ native' = native /\ banners' = banners \ {p}
        /\ slots' = IF p \in DOMAIN slots THEN [slots EXCEPT ![p].dismissed = TRUE] ELSE slots
    BY <1>7 DEF DismissSlot, Dismissed, cerboVars
  <2>2. CASE p \in DOMAIN slots
    <3>1. slots[p] \in Entry
      BY <2>2, <1>1
    <3>2. DOMAIN slots' = DOMAIN slots /\ slots'[p] = [slots[p] EXCEPT !.dismissed = TRUE]
      BY <2>1, <2>2, <1>1
    <3>3. slots'[p].date = slots[p].date /\ slots'[p].typed = slots[p].typed
      BY <3>1, <3>2 DEF Entry
    <3>4. \A s \in DOMAIN slots : s # p => slots'[s] = slots[s]
      BY <2>1, <1>1
    <3> QED BY <3>2, <3>3, <3>4, <2>1
  <2>3. CASE p \notin DOMAIN slots
    BY <2>1, <2>3
  <2> QED BY <2>2, <2>3
<1>8. ASSUME \/ Repeat
             \/ \E n \in Notice : Notify(n)
             \/ \E i \in Raw \union Notice : DismissId(i)
      PROVE  /\ source' = source /\ native' = native /\ slots' = slots
             /\ banners' \intersect Slot \subseteq banners
  BY <1>8, DisjointIds DEF Repeat, Notify, DismissId, Pushed, cerboVars, stateVars
<1> QED BY <1>3, <1>4, <1>5, <1>6, <1>7, <1>8 DEF Outside

\* The banners of slots have a title, and a date that has been.
NativeInTime == clock \in Nat /\ \A s \in Slot : native[s].date <= clock
ShownInTime  == \A s \in banners \intersect Slot :
  /\ s \in DOMAIN slots /\ slots[s].text # Unknown
  /\ slots[s].date \in Date \union {Unknown} /\ slots[s].date <= clock

LEMMA ShownSlots == IInv /\ NativeInTime => ShownInTime
<1> SUFFICES ASSUME IInv, NativeInTime, NEW s \in banners \intersect Slot
             PROVE  /\ s \in DOMAIN slots /\ slots[s].text # Unknown
                    /\ slots[s].date \in Date \union {Unknown} /\ slots[s].date <= clock
  BY Zenon DEF ShownInTime
<1>1. s \in DOMAIN slots /\ slots[s].text # Unknown
  BY DEF IInv, TypeOK, Shows
<1>2. slots[s] \in Entry /\ slots[s].last \in Nat /\ native[s].date \in Nat
  BY <1>1, Values
<1>3. slots[s].date \in {Unknown, slots[s].last} /\ slots[s].last <= native[s].date
  BY <1>1 DEF IInv, DatesInOrder
<1>4. slots[s].date \in Date \union {Unknown}
  BY <1>2 DEF Entry
<1>5. slots[s].date \in Nat /\ slots[s].date <= native[s].date /\ native[s].date <= clock /\ clock \in Nat
  BY <1>2, <1>3 DEF Unknown, NativeInTime
<1>6. slots[s].date <= clock
  BY <1>2, <1>5
<1> QED BY <1>1, <1>4, <1>6

\* A snapshot's slots have the titles and dates the Cerbo holds, or no date.
LEMMA PollReads ==
  ASSUME IInv, ShowInv, Poll
  PROVE  /\ source = "igw" /\ source' = source /\ native' = native
         /\ \/ slots' = slots
            \/ \A s \in DOMAIN slots' : /\ slots'[s].text = native[s].text
                                        /\ slots'[s].date \in {Unknown, native[s].date}
<1>1. PICK wellFormed \in BOOLEAN, heard \in SUBSET Raw,
           read \in SUBSET {s \in Slot : native[s].date # Unknown} :
        \E dated \in SUBSET read : Snapshot(wellFormed, read, dated, heard)
  BY DEF Poll
<1>2. PICK dated \in SUBSET read : Snapshot(wellFormed, read, dated, heard)
  BY <1>1
<1>3. /\ source = "igw" /\ source' = source /\ native' = native
      /\ wellFormed => slots' = [s \in read |-> Rebuilt(s, Read(s, s \in dated))]
      /\ ~wellFormed => slots' = slots
  BY <1>2 DEF Snapshot
<1>4. ASSUME wellFormed, NEW s \in DOMAIN slots'
      PROVE  /\ slots'[s].text = native[s].text
             /\ slots'[s].date \in {Unknown, native[s].date}
  <2>1. s \in read /\ s \in Slot /\ slots'[s] = Rebuilt(s, Read(s, s \in dated))
    BY <1>3, <1>4
  <2>2. \A d \in BOOLEAN : /\ Rebuilt(s, Read(s, d)).text = native[s].text
                           /\ Rebuilt(s, Read(s, d)).date \in {Unknown, native[s].date}
    <3> SUFFICES ASSUME NEW d \in BOOLEAN
                 PROVE  /\ Rebuilt(s, Read(s, d)).text = native[s].text
                        /\ Rebuilt(s, Read(s, d)).date \in {Unknown, native[s].date}
      OBVIOUS
    <3>1. Rebuilt(s, Read(s, d)).text = native[s].text
      BY <2>1, RebuiltShows
    <3>2. Read(s, d) \in Entry /\ Read(s, d).date \in {Unknown, native[s].date}
      <4>1. native[s] \in Native
        BY <2>1, Values
      <4> QED BY <4>1 DEF Read, Blank, Entry, Native
    <3>3. Rebuilt(s, Read(s, d)).date = Read(s, d).date
      BY <3>2 DEF Rebuilt, Entry
    <3> QED BY <3>1, <3>2, <3>3
  <2>3. CASE s \in dated
    <3>1. Read(s, s \in dated) = Read(s, TRUE)
      BY <2>3 DEF Read
    <3> QED BY <3>1, <2>1, <2>2
  <2>4. CASE s \notin dated
    <3>1. Read(s, s \in dated) = Read(s, FALSE)
      BY <2>4 DEF Read
    <3> QED BY <3>1, <2>1, <2>2
  <2> QED BY <2>3, <2>4
<1> QED BY <1>3, <1>4

\* A new epoch begins later than all that is reserved, or none is open.
LEMMA ResetKeeps ==
  ASSUME PushTypeOK, ObserverInv, NEW up \in BOOLEAN, Reset(up), UNCHANGED <<clock, storeVars>>,
         native' = native, source' = source, observing' \in {FALSE, observing},
         ~up \/ banners' \intersect Slot = {}
  PROVE  ObserverInv'
<1> USE DEF ObserverInv
<1>1. /\ connected' = up /\ startedAt' = clock
      /\ unknownPrimed' = NoTitles /\ baseline' = NoTitles /\ hydrated' = {}
      /\ clock' = clock /\ remembered' = remembered /\ times' = times
  BY DEF Reset, storeVars
<1>2. clock \in Nat /\ Priming \in Nat /\ Priming > 0
  BY AgeAssumption, PrimingAssumption DEF PushTypeOK
<1>3. ClockOK'
  <2>1. observing' => source' = "mqtt"
    BY DEF ClockOK
  <2>2. startedAt' <= clock'
    BY <1>1, <1>2
  <2> QED BY <2>1, <2>2, <1>1 DEF ClockOK
<1>4. HydratedOK' /\ PrimedOK' /\ BaselineOK'
  <2>1. \A s \in Slot : baseline'[s] = Unknown
    BY <1>1 DEF NoTitles
  <2> QED BY <2>1, <1>1 DEF HydratedOK, PrimedOK, BaselineOK
<1>5. QueuedOK'
  <2> SUFFICES ASSUME NEW e \in remembered
               PROVE  ~(e[2] >= clock + Priming)
    BY <1>1 DEF QueuedOK
  <2>1. e[2] \in Nat
    BY BoundAssumption DEF PushTypeOK, Event, Date
  <2>2. e[2] <= clock /\ clock < clock + Priming
    BY <1>2 DEF ClockOK
  <2> QED BY <2>1, <2>2, <1>2, BeforePriming
<1>6. ObservedOK'
  BY <1>1 DEF ObservedOK
<1> QED BY <1>3, <1>4, <1>5, <1>6

\* The Cerbo raises later occurrences than those of the baseline.
LEMMA OutsideKeeps ==
  ASSUME PushTypeOK, IInv, ObserverInv, Outside
  PROVE  ObserverInv'
<1> USE DEF ObserverInv
<1>1. /\ clock' = clock /\ observing' = observing /\ connected' = connected
      /\ startedAt' = startedAt /\ unknownPrimed' = unknownPrimed /\ baseline' = baseline
      /\ hydrated' = hydrated /\ remembered' = remembered /\ times' = times
  BY DEF Outside, pushVars, processorVars, storeVars
<1>2. /\ source' = source
      /\ DOMAIN slots' = DOMAIN slots
      /\ \A s \in DOMAIN slots : slots'[s].date = slots[s].date /\ slots'[s].typed = slots[s].typed
      /\ banners' \intersect Slot \subseteq banners
      /\ \A s \in Slot : \/ native'[s].date = native[s].date /\ native'[s].text = native[s].text
                         \/ native'[s].date = clock /\ clock > native[s].date
  BY OutsideDoes
<1>3. clock \in Nat /\ \A s \in Slot : native[s].date \in Nat /\ baseline[s] \in Nat
  BY Values, BoundAssumption DEF PushTypeOK, Date, Unknown
<1>4. ClockOK'
  BY <1>1, <1>2, <1>3 DEF ClockOK
<1>5. HydratedOK' /\ PrimedOK'
  BY <1>1, <1>2 DEF HydratedOK, PrimedOK
<1>6. QueuedOK'
  BY <1>1 DEF QueuedOK
<1>7. ObservedOK'
  <2>1. \A s \in banners \intersect Slot : s \in DOMAIN slots
    BY DEF IInv, TypeOK
  <2> QED BY <2>1, <1>1, <1>2 DEF ObservedOK
<1>8. BaselineOK'
  <2> SUFFICES ASSUME NEW s \in Slot, source = "igw", baseline[s] # Unknown,
                      Succeeded(s) \/ Undetermined(s)
               PROVE  Succeeded(s)' \/ Undetermined(s)'
    BY <1>1, <1>2 DEF BaselineOK
  <2>1. CASE native'[s].date = native[s].date /\ native'[s].text = native[s].text
    BY <2>1, <1>1, <1>2 DEF Succeeded, Undetermined
  <2>2. CASE native'[s].date = clock /\ clock > native[s].date /\ Succeeded(s)
    BY <2>2, <1>1, <1>2, <1>3 DEF Succeeded
  <2>3. CASE native'[s].date = clock /\ clock > native[s].date /\ Undetermined(s)
    <3>1. native'[s].date > baseline[s]
      BY <2>3, <1>3 DEF Undetermined
    <3> QED BY <2>3, <3>1, <1>1, <1>2 DEF Succeeded, Undetermined
  <2> QED BY <2>1, <2>2, <2>3, <1>2
<1> QED BY <1>4, <1>5, <1>6, <1>7, <1>8

\* A message is observed when it has been applied: what it completed is queued, or
\* reserved because it is old.
LEMMA ObserveMessageKeeps ==
  ASSUME PushTypeOK, IInv, QueueInv, ObserverInv, ObserveMessage
  PROVE  ObserverInv'
<1> USE DEF ObserverInv
<1> DEFINE bs    == banners \intersect Slot
           prime == clock - startedAt < Priming
<1>1. /\ Observe(bs, slots, prime, NoTitles)
      /\ observing /\ observing' = FALSE /\ clock' = clock /\ connected' = connected
      /\ startedAt' = startedAt /\ native' = native /\ source' = source
      /\ slots' = slots /\ banners' = banners
  BY DEF ObserveMessage, vars, cerboVars, stateVars
<1>2. /\ clock \in Nat /\ startedAt \in Nat /\ Priming \in Nat /\ prime \in BOOLEAN
      /\ prime => clock < startedAt + Priming
  BY AgeAssumption, BoundAssumption DEF PushTypeOK
<1>3. /\ bs \in SUBSET Slot
      /\ \A s \in bs : /\ s \in DOMAIN slots /\ slots[s].text # Unknown
                       /\ slots[s].date \in Date \union {Unknown} /\ slots[s].date <= clock
  BY <1>2, ShownSlots DEF ClockOK, NativeInTime, ShownInTime
<1> HIDE DEF bs, prime
<1>9. source = "mqtt" /\ connected
  BY <1>1 DEF ClockOK, ObserveMessage
<1>unmarked. prime => hydrated = {}
  <2>1. ~(clock >= startedAt + Priming /\ clock < startedAt + Priming)
    BY <1>2
  <2> QED BY <2>1, <1>2, <1>9 DEF PrimedOK
<1>4. HydratedOK' /\ QueuedOK' /\ \A e \in remembered' : e[2] <= clock
  BY <1>1, <1>2, <1>3, <1>unmarked, ObserveEligible
<1>primed. PrimedOK'
  <2>1. Hydrates(bs, slots, prime)
    BY <1>1, <1>2, ObserveHydrates
  <2>2. CASE prime
    BY <2>1, <2>2, <1>unmarked DEF Hydrates, PrimedOK
  <2>3. CASE ~prime
    <3>1. clock >= startedAt + Priming
      BY <2>3, <1>2 DEF prime
    <3> QED BY <3>1, <1>1, <1>9 DEF PrimedOK
  <2> QED BY <2>2, <2>3
<1>5. ClockOK'
  BY <1>1, <1>4 DEF ClockOK
<1>6. Reserves(bs, slots, prime)
  BY <1>1, <1>2, <1>3, ObserveDoes, Zenon
<1>7. ObservedOK'
  BY <1>1, <1>6 DEF ObservedOK, Reserves, bs
<1>8. Marks(bs, slots, prime, NoTitles)
  BY <1>1, <1>2, ObserveMarks
<1>10. BaselineOK'
  <2> SUFFICES ASSUME NEW s \in Slot, baseline'[s] # Unknown
               PROVE  <<s, baseline'[s]>> \in remembered'
    BY Zenon DEF BaselineOK
  <2>1. s \in bs /\ (baseline'[s] = baseline[s] \/
                     (prime /\ slots[s].date # Unknown /\ baseline'[s] = slots[s].date))
    BY <1>8 DEF Marks, NoTitles
  <2>2. CASE baseline'[s] = baseline[s]
    BY <2>2, <1>6, <1>9 DEF BaselineOK, Reserves
  <2>3. CASE prime /\ slots[s].date # Unknown /\ baseline'[s] = slots[s].date
    BY <2>1, <2>3, <1>6 DEF Reserves
  <2> QED BY <2>1, <2>2, <2>3
<1> QED BY <1>4, <1>5, <1>7, <1>10, <1>primed

\* A snapshot primes with what it has; a slot whose date is still missing stays a
\* part of the baseline until the Cerbo has another occurrence in it.
LEMMA PollAndObserveKeeps ==
  ASSUME PushTypeOK, IInv, IInv', ShowInv, QueueInv, ObserverInv, PollAndObserve
  PROVE  ObserverInv'
<1> USE DEF ObserverInv
<1>1. /\ source = "igw" /\ source' = source /\ native' = native
      /\ \/ slots' = slots
         \/ \A s \in DOMAIN slots' : /\ slots'[s].text = native[s].text
                                     /\ slots'[s].date \in {Unknown, native[s].date}
  BY PollReads DEF PollAndObserve
<1>2. /\ clock' = clock /\ observing' = observing /\ connected' = TRUE
      /\ startedAt' = IF connected THEN startedAt ELSE clock
      /\ Observe(banners' \intersect Slot, slots', ~connected,
                 [s \in Slot |-> IF slots' = slots THEN Unknown ELSE native[s].date])
  BY DEF PollAndObserve
<1>3. PICK bs, ss, held :
        /\ bs = banners' \intersect Slot /\ ss = slots'
        /\ held = [s \in Slot |-> IF slots' = slots THEN Unknown ELSE native[s].date]
  OBVIOUS
<1> DEFINE prime == ~connected
<1>4. Observe(bs, ss, prime, held)
  BY <1>2, <1>3
<1>5. /\ clock \in Nat /\ startedAt \in Nat /\ Priming \in Nat /\ Priming > 0 /\ prime \in BOOLEAN
      /\ startedAt' \in {startedAt, clock} /\ (prime => startedAt' = clock)
  BY <1>2, <1>3, AgeAssumption, PrimingAssumption, BoundAssumption DEF PushTypeOK
<1> HIDE DEF prime
<1>6. prime => clock < startedAt' + Priming
  BY <1>5
<1>7. /\ bs \in SUBSET Slot
      /\ \A s \in bs : /\ s \in DOMAIN ss /\ ss[s].text # Unknown
                       /\ ss[s].date \in Date \union {Unknown} /\ ss[s].date <= clock
  <2>1. NativeInTime'
    BY <1>1, <1>2, <1>5 DEF ClockOK, NativeInTime
  <2>2. IInv' /\ NativeInTime' => ShownInTime'
    BY ShownSlots, PTL
  <2> QED BY <2>1, <2>2, <1>2, <1>3 DEF ShownInTime
<1>unmarked. prime => hydrated = {}
  BY DEF PrimedOK, prime
<1>8. HydratedOK' /\ QueuedOK' /\ \A e \in remembered' : e[2] <= clock
  BY <1>2, <1>4, <1>5, <1>6, <1>7, <1>unmarked, ObserveEligible
<1>primed. PrimedOK'
  BY <1>1, <1>2 DEF PrimedOK
<1>9. ClockOK'
  <2>1. startedAt' <= clock'
    BY <1>2, <1>5 DEF ClockOK
  <2> QED BY <2>1, <1>1, <1>2, <1>8 DEF ClockOK
<1>10. Reserves(bs, ss, prime)
  BY <1>4, <1>5, <1>7, ObserveDoes, Zenon
<1>11. ObservedOK'
  BY <1>3, <1>10 DEF ObservedOK, Reserves
<1>12. Marks(bs, ss, prime, held)
  BY <1>4, <1>5, ObserveMarks
<1>13. BaselineOK'
  <2> SUFFICES ASSUME NEW s \in Slot, baseline'[s] # Unknown,
                      <<s, baseline'[s]>> \notin remembered'
               PROVE  Succeeded(s)' \/ Undetermined(s)'
    BY <1>1, Zenon DEF BaselineOK
  <2>1. /\ s \in bs /\ s \in DOMAIN ss
        /\ baseline'[s] = IF ~prime THEN baseline[s]
                          ELSE IF ss[s].date # Unknown THEN ss[s].date ELSE held[s]
        /\ unknownPrimed'[s] = IF ss[s].date = Unknown
                               THEN IF prime THEN ss[s].text ELSE unknownPrimed[s] ELSE Unknown
    BY <1>7, <1>12 DEF Marks
  <2>2. slots' = slots \/ (/\ ss[s].text = native[s].text
                           /\ ss[s].date \in {Unknown, native[s].date})
    BY <2>1, <1>1, <1>3
  <2>3. CASE prime
    <3>1. ss[s].date = Unknown /\ baseline'[s] = held[s]
      BY <2>1, <2>3, <1>10 DEF Reserves
    <3>2. slots' # slots /\ held[s] = native[s].date
      BY <3>1, <1>3
    <3>3. ss[s].text = native[s].text
      BY <3>2, <2>2
    <3> QED BY <3>1, <3>2, <3>3, <2>1, <2>3, <1>1, <1>3 DEF Undetermined
  <2>4. CASE ~prime
    <3>1. baseline'[s] = baseline[s]
      BY <2>1, <2>4
    <3>2. Succeeded(s) \/ Undetermined(s)
      BY <3>1, <1>10 DEF BaselineOK, Reserves
    <3>3. CASE Succeeded(s)
      <4>1. ss[s].date # baseline[s]
        <5>1. native[s].date # baseline[s]
          <6>1. native[s].date \in Nat /\ baseline[s] \in Nat
            BY Values, BoundAssumption DEF PushTypeOK, Date, Unknown
          <6> QED BY <6>1, <3>3 DEF Succeeded
        <5>2. CASE slots' = slots
          BY <5>2, <3>3, <2>1, <1>3 DEF Succeeded
        <5>3. CASE ss[s].date \in {Unknown, native[s].date}
          BY <5>1, <5>3, <3>1
        <5> QED BY <5>2, <5>3, <2>2
      <4> QED BY <4>1, <3>1, <3>3, <1>1, <1>3 DEF Succeeded
    <3>4. CASE Undetermined(s)
      <4>1. ss[s].date = Unknown
        <5>1. CASE slots' = slots
          BY <5>1, <3>4, <1>3 DEF Undetermined
        <5>2. CASE /\ ss[s].text = native[s].text
                   /\ ss[s].date \in {Unknown, native[s].date}
          <6>1. unknownPrimed[s] = ss[s].text /\ native[s].date = baseline[s]
            BY <5>2, <3>4 DEF Undetermined
          <6> QED BY <6>1, <5>2, <3>1, <2>1, <1>10 DEF Reserves
        <5> QED BY <5>1, <5>2, <2>2
      <4>2. unknownPrimed'[s] = unknownPrimed[s]
        BY <4>1, <2>1, <2>4
      <4> QED BY <4>1, <4>2, <3>1, <3>4, <2>1, <1>1, <1>3 DEF Undetermined
    <3> QED BY <3>2, <3>3, <3>4
  <2> QED BY <2>3, <2>4
<1> QED BY <1>8, <1>9, <1>11, <1>13, <1>primed

\* Time passes, messages are applied, and the observer keeps up.
LEMMA ObserverKeeps ==
  /\ PushTypeOK /\ IInv /\ IInv' /\ ShowInv /\ QueueInv /\ ObserverInv /\ [PushNext]_allVars
  => ObserverInv'
<1> SUFFICES ASSUME PushTypeOK, IInv, IInv', ShowInv, QueueInv, ObserverInv, [PushNext]_allVars
             PROVE  ObserverInv'
  OBVIOUS
<1> USE DEF ObserverInv
<1>1. CASE Tick
  <2>1. /\ clock' = clock + 1 /\ observing' = observing /\ connected' = connected
        /\ startedAt' = startedAt /\ unknownPrimed' = unknownPrimed /\ baseline' = baseline
        /\ hydrated' = hydrated /\ remembered' = remembered /\ times' = times
        /\ source' = source /\ native' = native /\ slots' = slots /\ banners' = banners
    BY <1>1 DEF Tick, vars, cerboVars, stateVars, processorVars, storeVars
  <2>2. /\ clock \in Nat /\ startedAt \in Nat /\ MaxAge \in Nat
        /\ \A s \in Slot : native[s].date \in Nat
        /\ \A e \in remembered : e[2] \in Nat
    BY Values, AgeAssumption, BoundAssumption DEF PushTypeOK, Event, Date
  <2>3. ClockOK'
    BY <2>1, <2>2 DEF ClockOK
  <2>4. HydratedOK' /\ ObservedOK'
    BY <2>1 DEF HydratedOK, ObservedOK
  <2>7. PrimedOK'
    BY <2>1, <2>2, AgeAssumption DEF PrimedOK
  <2>5. QueuedOK'
    <3> SUFFICES ASSUME NEW e \in remembered, clock' - e[2] <= MaxAge
                 PROVE  clock - e[2] <= MaxAge
      BY <2>1 DEF QueuedOK
    <3> QED BY <2>1, <2>2
  <2>6. BaselineOK'
    BY <2>1 DEF BaselineOK, Succeeded, Undetermined
  <2> QED BY <2>3, <2>4, <2>5, <2>6, <2>7
<1>2. CASE Outside
  BY <1>2, OutsideKeeps
<1>3. CASE SessionStarts
  <2>1. /\ Reset(TRUE) /\ UNCHANGED <<clock, storeVars>> /\ observing' = FALSE
        /\ native' = native /\ source' = source /\ banners' \intersect Slot = {}
    BY <1>3 DEF SessionStarts, Connect, ClearNative, NoticesOf, cerboVars
  <2> QED BY <2>1, ResetKeeps
<1>4. CASE SessionEnds
  <2>1. /\ Reset(FALSE) /\ UNCHANGED <<clock, storeVars>> /\ observing' = FALSE
        /\ native' = native /\ source' = source
    BY <1>4 DEF SessionEnds, Disconnect, cerboVars
  <2> QED BY <2>1, ResetKeeps
<1>5. CASE GatewayLost
  <2>1. /\ Reset(FALSE) /\ UNCHANGED <<clock, storeVars>> /\ observing' = observing
        /\ native' = native /\ source' = source
    <3>1. Reset(FALSE) /\ UNCHANGED <<vars, clock, observing, storeVars>>
      BY <1>5, Zenon DEF GatewayLost
    <3>2. vars' = vars /\ clock' = clock /\ observing' = observing /\ storeVars' = storeVars
      BY <3>1
    <3>3. source' = source /\ cerboVars' = cerboVars
      BY <3>2 DEF vars
    <3>4. native' = native
      BY <3>3 DEF cerboVars
    <3> QED BY <3>1, <3>2, <3>3, <3>4, Zenon
  <2> QED BY <2>1, ResetKeeps
<1>6. CASE Apply
  <2>1. /\ clock' = clock /\ observing' = TRUE /\ connected' = connected
        /\ startedAt' = startedAt /\ unknownPrimed' = unknownPrimed /\ baseline' = baseline
        /\ hydrated' = hydrated /\ remembered' = remembered /\ times' = times
        /\ source' = source /\ native' = native /\ feed # <<>>
    BY <1>6 DEF Apply, Deliver, cerboVars, processorVars, storeVars
  <2>2. source = "mqtt"
    BY <2>1 DEF IInv, TypeOK, DatesInOrder
  <2>3. ClockOK' /\ HydratedOK' /\ PrimedOK' /\ QueuedOK'
    BY <2>1, <2>2 DEF ClockOK, HydratedOK, PrimedOK, QueuedOK
  <2>4. ObservedOK'
    BY <2>1 DEF ObservedOK
  <2>5. BaselineOK'
    BY <2>1, <2>2, Zenon DEF BaselineOK
  <2> QED BY <2>3, <2>4, <2>5
<1>7. CASE ObserveMessage
  BY <1>7, ObserveMessageKeeps
<1>8. CASE PollAndObserve
  BY <1>8, PollAndObserveKeeps
<1>9. CASE UNCHANGED allVars
  <2>1. /\ clock' = clock /\ observing' = observing /\ connected' = connected
        /\ startedAt' = startedAt /\ unknownPrimed' = unknownPrimed /\ baseline' = baseline
        /\ hydrated' = hydrated /\ remembered' = remembered /\ times' = times
        /\ source' = source /\ native' = native /\ slots' = slots /\ banners' = banners
    BY <1>9 DEF allVars, pushVars, vars, cerboVars, stateVars, processorVars, storeVars
  <2>2. ClockOK' /\ HydratedOK' /\ PrimedOK' /\ QueuedOK' /\ ObservedOK'
    BY <2>1 DEF ClockOK, HydratedOK, PrimedOK, QueuedOK, ObservedOK
  <2>3. BaselineOK'
    BY <2>1 DEF BaselineOK, Succeeded, Undetermined
  <2> QED BY <2>2, <2>3
<1> QED BY <1>1, <1>2, <1>3, <1>4, <1>5, <1>6, <1>7, <1>8, <1>9 DEF PushNext

LEMMA ObserverInitially == PushInit => ObserverInv
<1> SUFFICES ASSUME PushInit
             PROVE  ObserverInv
  OBVIOUS
<1>1. \A s \in Slot : native[s].date = Unknown
  <2> SUFFICES ASSUME NEW s \in Slot
               PROVE  native[s].date = Unknown
    BY Zenon
  <2>1. native[s] = Off
    BY DEF PushInit, Init
  <2> QED BY <2>1 DEF Off
<1>2. ClockOK
  BY <1>1 DEF PushInit, ClockOK, Unknown
<1>3. HydratedOK /\ PrimedOK /\ BaselineOK
  BY DEF PushInit, NoTitles, HydratedOK, PrimedOK, BaselineOK
<1>4. QueuedOK /\ ObservedOK
  BY DEF PushInit, QueuedOK, ObservedOK
<1> QED BY <1>2, <1>3, <1>4 DEF ObserverInv

\* The display keeps up under the observer as it does alone.
THEOREM ShownUnderObserver == PushSpec => []ShowInv
<1>1. IInv /\ ShowInv /\ [PushNext]_allVars => ShowInv'
  BY ObservedSteps, AnyStepShows
<1>2. PushInit => ShowInv
  BY ShowsInitially DEF PushInit
<1> QED BY <1>1, <1>2, BannersInvariance, PTL DEF PushSpec

\* In every reachable state what has been observed is reserved, and what is reserved
\* without having been queued is too old, from before the epoch or taken for its baseline's.
THEOREM ObserverInvariance == PushSpec => []ObserverInv
BY ObserverKeeps, ObserverInitially, PushTypeCorrect, BannersInvariance, ShownUnderObserver,
   QueueInvariance, PTL DEF PushSpec

LEMMA ArrivedIsQueued ==
  IInv /\ ShowInv /\ PushTypeOK /\ ObserverInv => OccurrenceIsQueued
<1>hydrates. ObserverInv => \A e, f \in hydrated : e[1] = f[1] => e = f
  BY DEF ObserverInv, HydratedOK
<1> SUFFICES ASSUME IInv, ShowInv, PushTypeOK, ObserverInv,
                    NEW s \in Slot, Arrived(s), closed[s] # native[s].date,
                    <<s, native[s].date>> \notin hydrated
             PROVE  times[<<s, native[s].date>>] > 0
  BY <1>hydrates, Zenon DEF OccurrenceIsQueued
<1>1. s \in banners
  BY RaisedShows DEF Arrived, RaisedIsShown
<1>2. <<s, native[s].date>> \in remembered
  BY <1>1 DEF Arrived, ObserverInv, ObservedOK
<1>3. PICK d : d = native[s].date
  OBVIOUS
<1>4. <<s, d>> \in remembered /\ d >= startedAt + Priming /\ clock - d <= MaxAge /\ <<s, d>> \notin hydrated
  BY <1>2, <1>3 DEF Arrived
<1>5. times[<<s, d>>] > 0
  BY <1>4 DEF ObserverInv, QueuedOK
<1> QED BY <1>3, <1>5

\* An occurrence that arrived in time has been queued, in whatever order its leaves
\* came and whatever its slot held before, unless a browser dismissed it or it was
\* taken for the baseline's, which a slot does at most once in an epoch.
THEOREM ArrivedHolds == PushSpec => []OccurrenceIsQueued
BY ArrivedIsQueued, ObserverInvariance, PushTypeCorrect, BannersInvariance, ShownUnderObserver, PTL

LEMMA BaselineStays ==
  /\ PushTypeOK /\ IInv /\ IInv' /\ ShowInv /\ ObserverInv /\ [PushNext]_allVars
  => \A s \in Slot : baseline[s] # Unknown =>
       times'[<<s, baseline[s]>>] = times[<<s, baseline[s]>>]
<1> SUFFICES ASSUME PushTypeOK, IInv, IInv', ShowInv, ObserverInv, [PushNext]_allVars,
                    NEW s \in Slot, baseline[s] # Unknown
             PROVE  times'[<<s, baseline[s]>>] = times[<<s, baseline[s]>>]
  OBVIOUS
<1>1. PICK e \in Event : e = <<s, baseline[s]>>
  BY DEF PushTypeOK, Event
<1>2. \/ e \in remembered
      \/ source = "igw" /\ (Succeeded(s) \/ Undetermined(s))
  BY <1>1 DEF ObserverInv, BaselineOK
<1>3. ASSUME NEW bs \in SUBSET Slot, NEW ss, NEW prime \in BOOLEAN, NEW held,
             Observe(bs, ss, prime, held), times'[e] # times[e]
      PROVE  /\ e \notin remembered /\ s \in bs /\ ss[s].date = baseline[s] /\ unknownPrimed[s] # ss[s].text
  <2>1. /\ e \notin remembered
        /\ \E x \in bs : ss[x].date # Unknown /\ e = <<x, ss[x].date>>
                         /\ ~prime /\ unknownPrimed[x] # ss[x].text
    <3>1. Queues(bs, ss, prime)
      BY <1>3, ObserveDoes, Zenon
    <3> QED BY <3>1, <1>3, Zenon DEF Queues
  <2> QED BY <2>1, <1>1
<1>4. ASSUME UNCHANGED storeVars
      PROVE  times' = times
  BY <1>4 DEF storeVars
<1>5. CASE ObserveMessage
  <2> SUFFICES ASSUME times'[e] # times[e]
               PROVE  FALSE
    BY <1>1
  <2>1. /\ Observe(banners \intersect Slot, slots, clock - startedAt < Priming, NoTitles)
        /\ (clock - startedAt < Priming) \in BOOLEAN
    BY <1>5 DEF ObserveMessage
  <2>2. e \notin remembered
    BY <2>1, <1>3
  <2>3. source = "mqtt"
    BY <1>5 DEF ObserveMessage, ObserverInv, ClockOK
  <2> QED BY <2>2, <2>3, <1>2
<1>6. CASE PollAndObserve
  <2> SUFFICES ASSUME times'[e] # times[e]
               PROVE  FALSE
    BY <1>1
  <2>1. PICK bs, ss, held :
          /\ bs = banners' \intersect Slot /\ ss = slots'
          /\ held = [x \in Slot |-> IF slots' = slots THEN Unknown ELSE native[x].date]
    OBVIOUS
  <2>2. Observe(bs, ss, ~connected, held) /\ bs \in SUBSET Slot /\ (~connected) \in BOOLEAN
    BY <1>6, <2>1 DEF PollAndObserve, PushTypeOK
  <2>3. /\ e \notin remembered /\ s \in bs /\ ss[s].date = baseline[s]
        /\ unknownPrimed[s] # ss[s].text
    BY <2>2, <1>3
  <2>4. s \in DOMAIN slots'
    BY <2>1, <2>3 DEF IInv, TypeOK
  <2>5. slots' = slots \/ (/\ ss[s].text = native[s].text
                           /\ ss[s].date \in {Unknown, native[s].date})
    BY <2>1, <2>4, <1>6, PollReads DEF PollAndObserve
  <2>6. native[s].date \in Nat /\ baseline[s] \in Nat
    BY Values, BoundAssumption DEF PushTypeOK, Date, Unknown
  <2>7. CASE Succeeded(s)
    <3>1. native[s].date # baseline[s]
      BY <2>6, <2>7 DEF Succeeded
    <3>2. CASE slots' = slots
      BY <3>2, <2>1, <2>3, <2>4, <2>7 DEF Succeeded
    <3>3. CASE ss[s].date \in {Unknown, native[s].date}
      BY <3>1, <3>3, <2>3
    <3> QED BY <3>2, <3>3, <2>5
  <2>8. CASE Undetermined(s)
    <3>1. CASE slots' = slots
      BY <3>1, <2>1, <2>3, <2>8 DEF Undetermined
    <3>2. CASE ss[s].text = native[s].text
      BY <3>2, <2>3, <2>8 DEF Undetermined
    <3> QED BY <3>1, <3>2, <2>5
  <2> QED BY <2>3, <2>7, <2>8, <1>2
<1>7. CASE Tick \/ Outside \/ SessionStarts \/ SessionEnds \/ Apply \/ GatewayLost
           \/ UNCHANGED allVars
  BY <1>4, <1>7 DEF Tick, Outside, SessionStarts, SessionEnds, Apply, GatewayLost, allVars, pushVars
<1> QED BY <1>5, <1>6, <1>7 DEF PushNext

\* Nothing a slot showed when the epoch began, and has shown since, becomes an event.
THEOREM BaselineHolds == PushSpec => BaselineIsSilent
BY BaselineStays, ObserverInvariance, PushTypeCorrect, BannersInvariance, ShownUnderObserver,
   PTL DEF PushSpec, BaselineIsSilent
=============================================================================
