------------------------------ MODULE Banners ------------------------------
(***************************************************************************)
(* Alert banners: src/inverter_dashboard/notifications.py on the state of  *)
(* one data source (MqttState in server.py).                               *)
(*                                                                         *)
(* The Cerbo keeps notification slots, reused by one occurrence after      *)
(* another, and raw alarms.  Over MQTT their fields arrive one leaf at a   *)
(* time, in the order published; a gateway snapshot has all of them at     *)
(* once.  An occurrence is its date.  The controller adds notices of its   *)
(* own, and browsers dismiss banners by slot or by id.                     *)
(***************************************************************************)
EXTENDS Naturals, Sequences

CONSTANTS
  Slot, Raw, Notice,    \* platform slots, alarm leaves, ids of controller notices
  Title,                \* descriptions
  MaxDate,              \* bound on the dates of occurrences
  Tellings,             \* orders in which the Cerbo publishes any of its topics
  Sources,              \* kinds of data source to consider
  MaxFeed, MaxRepeat    \* bounds on leaves under way, and with a repeated one

VARIABLES
  source,               \* "mqtt" or "igw", fixed for one MqttState
  native,               \* what the Cerbo holds
  live, feed,           \* an MQTT session is up, and its leaves under way
  slots,                \* _platform_slots
  platformSeen,         \* _platform_seen
  alarmOn,              \* _alarm_values of 1 or 2
  banners,              \* ids in ms.notifications
  dismissedIds,         \* _dismissed_ids
  upToDate,             \* history: nothing changed since the last whole snapshot
  closed                \* history: date of the occurrence dismissed last

cerboVars == <<native, upToDate>>
stateVars == <<slots, platformSeen, alarmOn, banners, dismissedIds>>
vars == <<source, cerboVars, live, feed, stateVars, closed>>

Unknown == 0                            \* no title, no date
Date    == 1 .. MaxDate
Fields  == {"text", "type", "date", "active", "acknowledged"}
Topic   == (Slot \X Fields) \union (Raw \X {"active"})
Native  == [text : Title \union {Unknown}, date : Date \union {Unknown},
            active : BOOLEAN, acknowledged : BOOLEAN]
Leaf    == [topic : Topic, from : Native]
Entry   == [text : Title \union {Unknown}, date : Date \union {Unknown},
            last : Date \union {Unknown}, active : {"unknown", "on", "off"},
            acknowledged : BOOLEAN, typed : BOOLEAN, dismissed : BOOLEAN]
Id      == Slot \union Raw \union Notice

ASSUME DisjointIds ==
  Slot \intersect Raw = {} /\ Slot \intersect Notice = {} /\ Raw \intersect Notice = {}
ASSUME TitleAssumption == Title # {} /\ Title \subseteq Nat \ {Unknown}
ASSUME BoundAssumption == {MaxDate, MaxFeed, MaxRepeat} \subseteq Nat
ASSUME SourceAssumption == Sources \subseteq {"mqtt", "igw"}
ASSUME TellingAssumption == Tellings \subseteq Seq(Topic)

Off   == [text |-> Unknown, date |-> Unknown, active |-> FALSE, acknowledged |-> FALSE]
Blank == [text |-> Unknown, date |-> Unknown, last |-> Unknown, active |-> "unknown",
          acknowledged |-> FALSE, typed |-> FALSE, dismissed |-> FALSE]

\* _slot_should_show
Shows(e) == e.text # Unknown /\ ~e.acknowledged /\ ~e.dismissed

TypeOK ==
  /\ source \in Sources
  /\ native \in [Slot \union Raw -> Native]
  /\ live \in BOOLEAN /\ (live => source = "mqtt")
  /\ feed \in Seq(Leaf)
  /\ DOMAIN slots \subseteq Slot /\ slots \in [DOMAIN slots -> Entry]
  /\ platformSeen \in BOOLEAN
  /\ alarmOn \in SUBSET Raw
  /\ banners \in SUBSET Id /\ banners \intersect Slot = {s \in DOMAIN slots : Shows(slots[s])}
  /\ dismissedIds \in SUBSET (Raw \union Notice)
  /\ upToDate \in BOOLEAN
  /\ closed \in [Slot -> Date \union {Unknown}]

Init ==
  /\ source \in Sources
  /\ native = [i \in Slot \union Raw |-> Off]
  /\ live = FALSE /\ feed = <<>>
  /\ slots = [s \in {} |-> Blank]
  /\ platformSeen = FALSE
  /\ alarmOn = {} /\ banners = {} /\ dismissedIds = {}
  /\ upToDate = FALSE
  /\ closed = [s \in Slot |-> Unknown]

-----------------------------------------------------------------------------
(* The Cerbo.                                                              *)

\* what a leaf of this field says
Part(field, n) ==
  CASE field = "text" -> [Off EXCEPT !.text = n.text]
    [] field = "type" -> Off
    [] field = "date" -> [Off EXCEPT !.date = n.date]
    [] field = "active" -> [Off EXCEPT !.active = n.active]
    [] field = "acknowledged" -> [Off EXCEPT !.acknowledged = n.acknowledged]

LeafOf(t, n) == [topic |-> t, from |-> Part(t[2], n)]

ToldBy(told) == {told[i] : i \in DOMAIN told}
Published    == UNION {ToldBy(told) : told \in Tellings}

\* the fields a banner depends on are among those the Cerbo publishes
ASSUME PublishAssumption ==
  (Slot \X {"text", "acknowledged"}) \union (Raw \X {"active"}) \subseteq Published

\* the orders in which the Cerbo publishes topics, and the leaves it then sends
Tells(topics)      == {told \in Tellings : ToldBy(told) = topics \intersect Published}
Leaves(told, from) == [i \in DOMAIN told |-> LeafOf(told[i], from[told[i][1]])]

\* i changes, and a session hears of it
Becomes(i, new, fields) ==
  /\ new # native[i]
  /\ native' = [native EXCEPT ![i] = new]
  /\ IF live
     THEN \E told \in Tells({i} \X fields) : feed' = feed \o Leaves(told, native')
     ELSE UNCHANGED feed
  /\ Len(feed') <= MaxFeed
  /\ upToDate' = FALSE
  /\ UNCHANGED <<source, live, stateVars, closed>>

\* the slot is taken by an occurrence at d
RaiseAt(s, d) ==
  \E t \in Title :
    /\ d \in Date /\ d > native[s].date
    /\ Becomes(s, [text |-> t, date |-> d, active |-> TRUE, acknowledged |-> FALSE], Fields)

Raise(s) == RaiseAt(s, native[s].date + 1)

Subside(s) ==
  native[s].active /\ Becomes(s, [native[s] EXCEPT !.active = FALSE], {"active"})

\* by this dashboard's AcknowledgeAll, another client or at the device
Acknowledge(s) ==
  /\ native[s].date # Unknown
  /\ Becomes(s, [native[s] EXCEPT !.acknowledged = TRUE], {"acknowledged"})

Alarm(a) == Becomes(a, [native[a] EXCEPT !.active = ~@], {"active"})

\* A leaf comes again, its date possibly invalid or erased.
Repeat ==
  /\ live /\ Len(feed) < MaxRepeat
  /\ \E t \in Published :
       LET n == native[t[1]] IN
       /\ t[1] \in Slot => n.date # Unknown
       /\ \E from \in {n, [n EXCEPT !.date = Unknown]} : feed' = Append(feed, LeafOf(t, from))
  /\ UNCHANGED <<source, cerboVars, live, stateVars, closed>>

-----------------------------------------------------------------------------
(* The state of the slots.                                                 *)

Visible(ss) == {s \in DOMAIN ss : Shows(ss[s])}

\* Mutant: a dismissal is for the slot, whatever occurs in it.
SameSlot(e, d) == FALSE

\* a valid date other than the last valid one is another occurrence
OtherOccurrence(e, d) == d # Unknown /\ d # e.last

\* _apply_platform_datetime
Dated(e, d) ==
  [e EXCEPT !.date = d,
            !.last = IF d = Unknown THEN @ ELSE d,
            !.dismissed = @ /\ ~OtherOccurrence(e, d)]

\* apply_platform_field
ApplyField(e, field, from) ==
  CASE field = "text" -> [e EXCEPT !.text = from.text]
    [] field = "type" -> [e EXCEPT !.typed = TRUE]
    [] field = "date" -> Dated(e, from.date)
    [] field = "active" ->
         [e EXCEPT !.active = IF from.active THEN "on" ELSE "off",
                   !.dismissed = @ /\ ~(e.active = "on" /\ ~from.active)]
    [] field = "acknowledged" -> [e EXCEPT !.acknowledged = from.acknowledged]

\* setdefault
EntryOf(s) == IF s \in DOMAIN slots THEN slots[s] ELSE Blank

\* Mutant: the date of a dismissed occurrence goes with the session.
ClearedDates(ss) == [s \in {t \in DOMAIN ss : ss[t].dismissed} |-> [ss[s] EXCEPT !.last = Unknown]]

\* of the slots, mqtt_clear_native_state keeps the dismissals and their dates
Cleared(ss) ==
  [s \in {t \in DOMAIN ss : ss[t].dismissed} |->
     [Blank EXCEPT !.dismissed = TRUE, !.last = ss[s].last]]

\* Mutant: only the platform's banners are taken down.
KeepAlarms(bs) == bs \ Slot

\* controller notices survive the session
NoticesOf(bs) == bs \ (Slot \union Raw)

ClearNative ==
  /\ slots' = Cleared(slots)
  /\ platformSeen' = FALSE
  /\ alarmOn' = {}
  /\ banners' = NoticesOf(banners)

\* Mutant: raw banners stay beside the platform's.
BesidePlatform(bs, ss) == (bs \ Slot) \union Visible(ss)

\* _activate_platform and the list that follows it
WithPlatform(bs, ss) == (bs \ (Slot \union Raw)) \union Visible(ss)

\* mqtt_push_notification
Pushed(bs, i) == IF i \in dismissedIds THEN bs ELSE bs \union {i}

-----------------------------------------------------------------------------
(* MQTT.                                                                   *)

Connect ==
  /\ source = "mqtt" /\ ~live
  /\ live' = TRUE
  /\ ClearNative
  /\ \E told \in Tells({t \in Topic : t[1] \in Slot => native[t[1]].date # Unknown}) :
       feed' = Leaves(told, native)
  /\ UNCHANGED <<source, cerboVars, dismissedIds, closed>>

Disconnect ==
  /\ live
  /\ live' = FALSE /\ feed' = <<>>
  /\ ClearNative
  /\ UNCHANGED <<source, cerboVars, dismissedIds, closed>>

\* an occurrence that is no longer the one dismissed, or may be shown again
Reopened(s, ss) == IF s \in DOMAIN ss /\ ss[s].active = "off" /\ slots[s].active = "on"
                   THEN Unknown ELSE closed[s]

\* mqtt_handle_platform_notification
PlatformLeaf(leaf) ==
  LET s == leaf.topic[1] IN
  /\ s \in Slot
  /\ slots' = [t \in DOMAIN slots \union {s} |->
                 IF t = s THEN ApplyField(EntryOf(s), leaf.topic[2], leaf.from) ELSE slots[t]]
  /\ platformSeen' = TRUE
  /\ banners' = WithPlatform(banners, slots')
  /\ closed' = [closed EXCEPT ![s] = IF s \in DOMAIN slots THEN Reopened(s, slots') ELSE @]
  /\ UNCHANGED alarmOn

\* handle_alarm, unless the platform has been seen
AlarmLeaf(leaf) ==
  LET a == leaf.topic[1] IN
  /\ a \in Raw
  /\ IF platformSeen \/ (a \in alarmOn) = leaf.from.active
     THEN UNCHANGED <<alarmOn, banners>>
     ELSE IF leaf.from.active
          THEN alarmOn' = alarmOn \union {a} /\ banners' = Pushed(banners, a)
          ELSE alarmOn' = alarmOn \ {a} /\ banners' = banners \ {a}
  /\ UNCHANGED <<slots, platformSeen, closed>>

Deliver ==
  /\ feed # <<>>
  /\ feed' = Tail(feed)
  /\ PlatformLeaf(Head(feed)) \/ AlarmLeaf(Head(feed))
  /\ UNCHANGED <<source, cerboVars, live, dismissedIds>>

\* inverter/notifications
Notify(n) ==
  /\ live
  /\ banners' = Pushed(banners, n)
  /\ UNCHANGED <<source, cerboVars, live, feed, slots, platformSeen, alarmOn, dismissedIds, closed>>

-----------------------------------------------------------------------------
(* The gateway.                                                            *)

\* sync_platform_map: what the dismissals of before mean for a slot read anew
Rebuilt(s, e) ==
  LET before == IF s \in DOMAIN slots THEN slots[s] ELSE Blank IN
  [e EXCEPT !.last = IF e.date = Unknown THEN before.last ELSE @,
            !.dismissed = before.dismissed /\ ~OtherOccurrence(before, e.date)]

\* a slot as a snapshot has it, its date possibly missing
Read(s, dated) ==
  [Blank EXCEPT !.text = native[s].text, !.typed = TRUE,
                !.date = IF dated THEN native[s].date ELSE Unknown,
                !.last = IF dated THEN native[s].date ELSE Unknown,
                !.active = IF native[s].active THEN "on" ELSE "off",
                !.acknowledged = native[s].acknowledged]

\* Raw alarms count as long as the platform is silent; a malformed bucket leaves
\* those it would tell of as they are.
AlarmsRead(heard) ==
  {a \in Raw : IF a \in heard THEN native[a].active ELSE a \in alarmOn}

\* The part of a snapshot that is well formed: these slots, the dates of those,
\* and the state of those alarms.  A malformed platform part changes nothing.
Snapshot(wellFormed, read, dated, heard) ==
  /\ source = "igw"
  /\ IF wellFormed
     THEN /\ slots' = [s \in read |-> Rebuilt(s, Read(s, s \in dated))]
          /\ platformSeen' = (platformSeen \/ read # {})
          /\ closed' = [s \in Slot |-> IF s \in read THEN closed[s] ELSE Unknown]
     ELSE UNCHANGED <<slots, platformSeen, closed>>
  /\ LET on  == IF platformSeen' THEN alarmOn ELSE AlarmsRead(heard)
         new == on \ (alarmOn \union dismissedIds)
         bs  == IF wellFormed /\ read # {} THEN WithPlatform(banners, slots')
                ELSE (banners \ Slot) \union Visible(slots')
     IN /\ alarmOn' = on
        /\ banners' = IF platformSeen' THEN bs ELSE (bs \ (alarmOn \ on)) \union new
  /\ upToDate' = (wellFormed /\ heard = Raw /\ read = dated
                  /\ read = {s \in Slot : native[s].date # Unknown})
  /\ UNCHANGED <<source, native, live, feed, dismissedIds>>

Poll ==
  \E wellFormed \in BOOLEAN, heard \in SUBSET Raw,
     read \in SUBSET {s \in Slot : native[s].date # Unknown} :
    \E dated \in SUBSET read : Snapshot(wellFormed, read, dated, heard)

-----------------------------------------------------------------------------
(* The browsers.  A click may come from a frame that is no longer current.  *)

\* the slot remembers that it was dismissed
Dismissed(s) == [slots EXCEPT ![s].dismissed = TRUE]

\* mqtt_dismiss_notification
DismissSlot(s) ==
  /\ banners' = banners \ {s}
  /\ slots' = IF s \in DOMAIN slots THEN Dismissed(s) ELSE slots
  /\ closed' = IF s \in DOMAIN slots THEN [closed EXCEPT ![s] = slots[s].last] ELSE closed
  /\ UNCHANGED <<source, cerboVars, live, feed, platformSeen, alarmOn, dismissedIds>>

DismissId(i) ==
  /\ banners' = banners \ {i}
  /\ dismissedIds' = dismissedIds \union {i}
  /\ UNCHANGED <<source, cerboVars, live, feed, slots, platformSeen, alarmOn, closed>>

-----------------------------------------------------------------------------
Next ==
  \/ \E s \in Slot : Raise(s) \/ Subside(s) \/ Acknowledge(s) \/ DismissSlot(s)
  \/ \E a \in Raw : Alarm(a)
  \/ Repeat
  \/ Connect \/ Disconnect \/ Deliver \/ Poll
  \/ \E n \in Notice : Notify(n)
  \/ \E i \in Raw \union Notice : DismissId(i)

Spec == Init /\ [][Next]_vars
-----------------------------------------------------------------------------
\* the dashboard has heard all the Cerbo has to say
Settled == IF source = "mqtt" THEN live /\ feed = <<>> ELSE upToDate

\* Once everything has arrived, an unacknowledged occurrence is on display unless
\* it is the one that was dismissed: no dismissal hides its successor in the slot,
\* through replays, invalid dates and sessions.
RaisedIsShown ==
  Settled =>
    \A s \in Slot :
      /\ s \in DOMAIN slots /\ slots[s].date = native[s].date
      /\ native[s].date \notin {Unknown, closed[s]} /\ ~native[s].acknowledged
      => s \in banners

\* A dismissed occurrence stays away, whatever is replayed, until the Cerbo says
\* that its condition ended, or a snapshot that it is gone.
DismissedStaysAway ==
  \A s \in Slot \intersect DOMAIN slots :
    closed[s] # Unknown /\ slots[s].date = closed[s] => s \notin banners

\* Native banners show nothing the Cerbo has not on: what was acknowledged or has
\* ended, or belongs to a session that ended, is gone.
NothingIsStale ==
  /\ Settled => \A i \in banners \ Notice :
                  IF i \in Slot THEN native[i].date # Unknown /\ ~native[i].acknowledged
                  ELSE native[i].active
  /\ source = "mqtt" /\ ~live => banners \subseteq Notice

\* A condition is shown once: raw alarms only as long as the platform is silent.
PlatformReplacesRaw == platformSeen => banners \intersect Raw = {}
=============================================================================
