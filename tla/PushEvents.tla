---------------------------- MODULE PushEvents -----------------------------
(***************************************************************************)
(* Which native notifications become Web Push events: EventProcessor.native*)
(* of src/inverter_dashboard/push_events.py, fed by push_observer.py from  *)
(* the banners of module Banners.                                          *)
(*                                                                         *)
(* Over MQTT the observer runs after the message was applied and the new   *)
(* state broadcast, that is after an await; with a gateway it runs at once.*)
(* Dates are readings of one clock.  Raw alarms have no date and never     *)
(* become events; what an event is queued for is module PushDelivery.      *)
(***************************************************************************)
EXTENDS Banners

CONSTANTS
  MaxAge, FutureSkew, Priming   \* 300 s, 30 s and 10 s

ASSUME AgeAssumption == {MaxAge, FutureSkew, Priming} \subseteq Nat
ASSUME PrimingAssumption == Priming > 0
ASSUME ClockAssumption == MaxDate > 0

VARIABLES
  clock,
  observing,            \* a message was applied and is not yet observed
  connected, startedAt, \* the epoch of the processor
  unknownPrimed,        \* titles of baseline slots without a date
  remembered,           \* identities in the store, for ever
  times,                \* history: how often an occurrence was queued
  baseline,             \* history: occurrence a slot has shown since it was primed
  hydrated              \* history: what the epoch took for the baseline's by its title

processorVars == <<connected, startedAt, unknownPrimed, baseline, hydrated>>
storeVars     == <<remembered, times>>
pushVars      == <<clock, observing, processorVars, storeVars>>
allVars       == <<vars, pushVars>>

Event == Slot \X Date

PushTypeOK ==
  /\ clock \in 1 .. MaxDate
  /\ observing \in BOOLEAN /\ connected \in BOOLEAN
  /\ startedAt \in 1 .. MaxDate
  /\ unknownPrimed \in [Slot -> Title \union {Unknown}]
  /\ remembered \in SUBSET Event
  /\ times \in [Event -> Nat] /\ \A e \in Event : times[e] > 0 => e \in remembered
  /\ baseline \in [Slot -> Date \union {Unknown}]
  /\ hydrated \in SUBSET Event

NoTitles == [s \in Slot |-> Unknown]

PushInit ==
  /\ Init
  /\ clock = 1 /\ startedAt = 1
  /\ observing = FALSE /\ connected = FALSE
  /\ unknownPrimed = NoTitles /\ baseline = NoTitles /\ hydrated = {}
  /\ remembered = {} /\ times = [e \in Event |-> 0]

-----------------------------------------------------------------------------
(* EventProcessor.native over the banners bs of the slots ss.              *)

\* Mutant: a date that becomes known later is taken for a new occurrence's.
DatedOnly(bs, ss, prime) == {s \in bs : ss[s].date # Unknown /\ prime}

\* what is known from the baseline, by its date or because it had none and now
\* comes with the same title
Baseline(bs, ss, prime) ==
  {s \in bs : ss[s].date # Unknown /\ (prime \/ unknownPrimed[s] = ss[s].text)}

OutOfTime(d) == d + FutureSkew < startedAt' \/ clock - d > MaxAge \/ d > clock + FutureSkew

\* Mutant: an event is its slot.
SlotIdentity(e) == \A f \in remembered : f[1] # e[1]

\* Mutant: what was queued before is queued again.
AnyEvent(e) == TRUE

\* by slot and date
IsNew(e) == e \notin remembered

\* native_notifications: a slot whose Type is not known is no event yet
Typed(bs, ss) == {s \in bs : ss[s].typed}

\* of what is queued, the identities the store keeps
Reserved(events) == events

\* held: the occurrences whose fields the undated slots are known to hold (history)
Observe(bs, ss, prime, held) ==
  LET dated   == {s \in bs : ss[s].date # Unknown}
      old     == Baseline(bs, ss, prime)
      late    == {s \in Typed(dated \ old, ss) : OutOfTime(ss[s].date)}
      events  == {<<s, ss[s].date>> : s \in Typed(dated \ (old \union late), ss)}
      queued  == {e \in events : IsNew(e)}
      primed  == {s \in bs \ dated : prime}
  IN /\ unknownPrimed' = [s \in Slot |-> IF s \in primed THEN ss[s].text
                                         ELSE IF s \in bs \ dated THEN unknownPrimed[s] ELSE Unknown]
     /\ remembered' = remembered \union {<<s, ss[s].date>> : s \in old \union late} \union Reserved(events)
     /\ times' = [e \in Event |-> IF e \in queued THEN times[e] + 1 ELSE times[e]]
     /\ baseline' = [s \in Slot |->
          IF s \notin bs THEN Unknown
          ELSE IF ~prime THEN baseline[s]
          ELSE IF s \in dated THEN ss[s].date
          ELSE held[s]]
     /\ hydrated' = hydrated \union {<<s, ss[s].date>> : s \in {b \in old : ~prime}}

\* reset: a new epoch begins, or none
Reset(up) ==
  /\ connected' = up
  /\ startedAt' = clock
  /\ unknownPrimed' = NoTitles /\ baseline' = NoTitles /\ hydrated' = {}

-----------------------------------------------------------------------------
Tick ==
  /\ clock < MaxDate
  /\ clock' = clock + 1
  /\ UNCHANGED <<vars, observing, processorVars, storeVars>>

\* the Cerbo and the browsers act as in Banners, the date of an occurrence being
\* that of the clock
Outside ==
  /\ \/ \E s \in Slot : RaiseAt(s, clock) \/ Subside(s) \/ Acknowledge(s) \/ DismissSlot(s)
     \/ \E a \in Raw : Alarm(a)
     \/ Repeat
     \/ \E n \in Notice : ~observing /\ Notify(n)
     \/ \E i \in Raw \union Notice : DismissId(i)
  /\ UNCHANGED pushVars

\* _prepare_mqtt_session, which primes with nothing
SessionStarts ==
  /\ Connect /\ Reset(TRUE)
  /\ observing' = FALSE
  /\ UNCHANGED <<clock, storeVars>>

SessionEnds ==
  /\ Disconnect /\ Reset(FALSE)
  /\ observing' = FALSE
  /\ UNCHANGED <<clock, storeVars>>

\* on_message, up to and including the broadcast
Apply ==
  /\ ~observing /\ Deliver
  /\ observing' = TRUE
  /\ UNCHANGED <<clock, processorVars, storeVars>>

\* PushObserver.mqtt; retained messages come with the subscription, within Priming
ObserveMessage ==
  /\ observing /\ connected
  /\ observing' = FALSE
  /\ UNCHANGED <<clock, connected, startedAt, vars>>
  /\ Observe(banners \intersect Slot, slots, clock - startedAt < Priming, NoTitles)

\* apply_snapshot and PushObserver.snapshot; the first of a connection primes
PollAndObserve ==
  /\ Poll
  /\ connected' = TRUE
  /\ startedAt' = IF connected THEN startedAt ELSE clock
  /\ UNCHANGED <<clock, observing>>
  /\ Observe(banners' \intersect Slot, slots', ~connected,
             [s \in Slot |-> IF slots' = slots THEN Unknown ELSE native[s].date])

\* the gateway is lost
GatewayLost ==
  /\ source = "igw" /\ connected
  /\ Reset(FALSE)
  /\ UNCHANGED <<vars, clock, observing, storeVars>>

PushNext ==
  \/ Tick \/ Outside
  \/ SessionStarts \/ SessionEnds \/ Apply \/ ObserveMessage
  \/ PollAndObserve \/ GatewayLost

PushSpec == PushInit /\ [][PushNext]_allVars

-----------------------------------------------------------------------------
\* An occurrence that came after the baseline, and has arrived and been observed in
\* time.
Arrived(s) ==
  /\ Settled /\ ~observing /\ connected
  /\ s \in DOMAIN slots /\ slots[s].date = native[s].date /\ slots[s].typed
  /\ native[s].date # Unknown /\ ~native[s].acknowledged
  /\ native[s].date >= startedAt + Priming /\ clock - native[s].date <= MaxAge

\* A new occurrence in a slot, once it has arrived, has been queued, in whatever
\* order its leaves came, unless a browser dismissed it or it was taken for the
\* baseline's: the first dated reading, under the same title, of a slot that was
\* primed without a date.  That happens at most once in a slot and epoch, so the slot
\* is not lost for the occurrence after it.
OccurrenceIsQueued ==
  /\ \A s \in Slot : /\ Arrived(s)
                     /\ closed[s] # native[s].date /\ <<s, native[s].date>> \notin hydrated
                     => times[<<s, native[s].date>>] > 0
  /\ \A e, f \in hydrated : e[1] = f[1] => e = f

\* Whatever the browsers dismiss, an occurrence that is not taken for the baseline's is
\* queued: detection is "independent from banners and open tabs", and "a genuinely new
\* later occurrence remains eligible".
OccurrenceRemainsEligible ==
  \A s \in Slot : Arrived(s) /\ <<s, native[s].date>> \notin hydrated
                  => times[<<s, native[s].date>>] > 0

\* An occurrence that was on display when the epoch was primed, and has been since,
\* makes no event in that epoch, not even when its date becomes known later.
BaselineIsSilent ==
  [][\A s \in Slot : baseline[s] # Unknown =>
       times'[<<s, baseline[s]>>] = times[<<s, baseline[s]>>]]_allVars

\* One event for an occurrence, over all epochs, sessions and replays.
QueuedOnce == \A e \in Event : times[e] <= 1
=============================================================================
