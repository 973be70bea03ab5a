---------------------------- MODULE BannersProof ----------------------------
(***************************************************************************)
(* Proofs about Banners: what a dismissal hides and what the platform      *)
(* replaces, for any slots, alarms, notices and orders of publication.     *)
(***************************************************************************)
EXTENDS Banners, TLAPS

LastOf(s) == IF s \in DOMAIN slots THEN slots[s].last ELSE Unknown

IsDate(leaf, s) == leaf.topic = <<s, "date">> /\ leaf.from.date # Unknown

\* A slot holds the last valid date it was given, which the Cerbo has reached, and
\* the dates under way go on from there.
DatesInOrder ==
  /\ \A s \in DOMAIN slots : /\ slots[s].date \in {Unknown, slots[s].last}
                             /\ slots[s].last <= native[s].date
  /\ \A s \in Slot : \A i \in DOMAIN feed :
       IsDate(feed[i], s) => /\ LastOf(s) <= feed[i].from.date
                             /\ feed[i].from.date <= native[s].date
  /\ \A s \in Slot : \A i, j \in DOMAIN feed :
       i < j /\ IsDate(feed[i], s) /\ IsDate(feed[j], s) => feed[i].from.date <= feed[j].from.date
  /\ live \/ feed = <<>>

\* The slot still has the occurrence that was dismissed, and knows it.
StillClosed(s) == s \in DOMAIN slots /\ slots[s].dismissed /\ slots[s].last = closed[s]

\* A later occurrence has taken the slot, and the one dismissed cannot come back.
Superseded(s) ==
  /\ native[s].date > closed[s]
  /\ LastOf(s) # closed[s]
  /\ \A i \in DOMAIN feed : IsDate(feed[i], s) => feed[i].from.date > closed[s]

ClosedOK == \A s \in Slot : closed[s] = Unknown \/ StillClosed(s) \/ Superseded(s)

IInv == TypeOK /\ PlatformReplacesRaw /\ DatesInOrder /\ ClosedOK

-----------------------------------------------------------------------------
(* The types of what the operators return.                                 *)

LEMMA OffType == Off \in Native /\ Blank \in Entry
  BY DEF Off, Blank, Native, Entry

LEMMA PartType ==
  ASSUME NEW field \in Fields, NEW n \in Native
  PROVE  Part(field, n) \in Native /\ (field = "date" => Part(field, n).date = n.date)
  BY DEF Part, Off, Native, Fields

\* A leaf carries the date its slot had when it was published.
LEMMA LeavesType ==
  ASSUME NEW told \in Tellings, NEW from \in [Slot \union Raw -> Native]
  PROVE  /\ Leaves(told, from) \in Seq(Leaf)
         /\ DOMAIN Leaves(told, from) = DOMAIN told
         /\ \A i \in DOMAIN told, s \in Slot :
              IsDate(Leaves(told, from)[i], s) => Leaves(told, from)[i].from.date = from[s].date
<1>1. told \in Seq(Topic)
  BY TellingAssumption
<1>2. ASSUME NEW i \in DOMAIN told
      PROVE  /\ told[i] \in Topic /\ told[i][1] \in Slot \union Raw /\ told[i][2] \in Fields
             /\ LeafOf(told[i], from[told[i][1]]) \in Leaf
             /\ \A s \in Slot : IsDate(LeafOf(told[i], from[told[i][1]]), s) =>
                  LeafOf(told[i], from[told[i][1]]).from.date = from[s].date
  <2>1. told[i] \in Topic
    BY <1>1
  <2>2. told[i][1] \in Slot \union Raw /\ told[i][2] \in Fields
    BY <2>1 DEF Topic, Fields
  <2>3. from[told[i][1]] \in Native
    BY <2>2
  <2>4. /\ Part(told[i][2], from[told[i][1]]) \in Native
        /\ told[i][2] = "date" => Part(told[i][2], from[told[i][1]]).date = from[told[i][1]].date
    BY <2>2, <2>3, PartType
  <2>5. LeafOf(told[i], from[told[i][1]]) \in Leaf
    BY <2>1, <2>4 DEF LeafOf, Leaf
  <2>6. ASSUME NEW s \in Slot, IsDate(LeafOf(told[i], from[told[i][1]]), s)
        PROVE  LeafOf(told[i], from[told[i][1]]).from.date = from[s].date
    <3>1. told[i] = <<s, "date">>
      BY <2>6 DEF IsDate, LeafOf
    <3> QED BY <3>1, <2>4 DEF LeafOf
  <2> QED BY <2>1, <2>2, <2>5, <2>6
<1>3. Leaves(told, from) = [i \in DOMAIN told |-> LeafOf(told[i], from[told[i][1]])]
  BY DEF Leaves
<1>4. DOMAIN told = 1 .. Len(told) /\ Len(told) \in Nat
  BY <1>1
<1>5. Leaves(told, from) \in Seq(Leaf)
  BY <1>2, <1>3, <1>4
<1> QED BY <1>2, <1>3, <1>5

\* What a leaf does to a slot: it stays a slot, its date advances only by a valid
\* one, and a dismissal ends only by another date or the end of the condition.
LEMMA ApplyType ==
  ASSUME NEW e \in Entry, NEW field \in Fields, NEW n \in Native
  PROVE  /\ ApplyField(e, field, n) \in Entry
         /\ field # "date" => /\ ApplyField(e, field, n).date = e.date
                              /\ ApplyField(e, field, n).last = e.last
         /\ field = "date" => /\ ApplyField(e, field, n).date = n.date
                              /\ n.date = Unknown => ApplyField(e, field, n).last = e.last
                              /\ n.date # Unknown => ApplyField(e, field, n).last = n.date
         /\ e.dismissed /\ ~ApplyField(e, field, n).dismissed =>
              \/ field = "date" /\ n.date \notin {Unknown, e.last}
              \/ field = "active" /\ e.active = "on" /\ ApplyField(e, field, n).active = "off"
<1>1. CASE field = "text"
  BY <1>1 DEF ApplyField, Entry, Native
<1>2. CASE field = "type"
  BY <1>2 DEF ApplyField, Entry, Native
<1>3. CASE field = "date"
  BY <1>3 DEF ApplyField, Dated, OtherOccurrence, Entry, Native
<1>4. CASE field = "active"
  BY <1>4 DEF ApplyField, Entry, Native
<1>5. CASE field = "acknowledged"
  BY <1>5 DEF ApplyField, Entry, Native
<1> QED BY <1>1, <1>2, <1>3, <1>4, <1>5 DEF Fields

-----------------------------------------------------------------------------
\* The values the invariant is about, as the arithmetic of the proofs needs them.
LEMMA Values ==
  ASSUME IInv
  PROVE  /\ \A s \in Slot : /\ native[s] \in Native /\ native[s].date \in Nat
                            /\ closed[s] \in Nat
                            /\ LastOf(s) \in Nat /\ LastOf(s) <= native[s].date
         /\ \A s \in DOMAIN slots : slots[s] \in Entry /\ slots[s].last \in Nat /\ s \in Slot
         /\ \A k \in DOMAIN feed : feed[k] \in Leaf /\ feed[k].from.date \in Nat
         /\ feed \in Seq(Leaf)
<1> USE DEF IInv, TypeOK
<1>1. ASSUME NEW s \in DOMAIN slots
      PROVE  slots[s] \in Entry /\ slots[s].last \in Nat /\ s \in Slot /\ LastOf(s) = slots[s].last
  <2>1. slots[s] \in Entry
    OBVIOUS
  <2> QED BY <2>1, BoundAssumption DEF Entry, Date, Unknown, LastOf
<1>2. ASSUME NEW s \in Slot
      PROVE  /\ native[s] \in Native /\ native[s].date \in Nat /\ closed[s] \in Nat
             /\ LastOf(s) \in Nat /\ LastOf(s) <= native[s].date
  <2>1. native[s] \in Native
    OBVIOUS
  <2>2. native[s].date \in Nat
    BY <2>1, BoundAssumption DEF Native, Date, Unknown
  <2>3. closed[s] \in Nat
    BY BoundAssumption DEF Date, Unknown
  <2>4. CASE s \in DOMAIN slots
    BY <2>1, <2>2, <2>3, <2>4, <1>1 DEF DatesInOrder
  <2>5. CASE s \notin DOMAIN slots
    BY <2>1, <2>2, <2>3, <2>5 DEF LastOf, Unknown
  <2> QED BY <2>4, <2>5
<1>3. ASSUME NEW k \in DOMAIN feed
      PROVE  feed[k] \in Leaf /\ feed[k].from.date \in Nat
  <2>1. feed[k] \in Leaf
    OBVIOUS
  <2>2. feed[k].from \in Native
    BY <2>1 DEF Leaf
  <2> QED BY <2>1, <2>2, BoundAssumption DEF Native, Date, Unknown
<1> QED BY <1>1, <1>2, <1>3

-----------------------------------------------------------------------------
(* The Cerbo.                                                              *)

\* What the Cerbo publishes comes after all that is under way.
LEMMA FeedGrows ==
  ASSUME IInv, UNCHANGED <<source, live, stateVars, closed>>, upToDate' \in BOOLEAN,
         native' \in [Slot \union Raw -> Native],
         \A s \in Slot : native'[s].date >= native[s].date,
         feed' \in Seq(Leaf), DOMAIN feed \subseteq DOMAIN feed',
         \A k \in DOMAIN feed : feed'[k] = feed[k],
         \A k \in DOMAIN feed' \ DOMAIN feed : \A s \in Slot :
           IsDate(feed'[k], s) => feed'[k].from.date = native'[s].date,
         live \/ feed' = feed
  PROVE  IInv'
<1> USE DEF IInv
<1>1. TypeOK'
  BY DEF TypeOK, stateVars
<1>2. PlatformReplacesRaw'
  BY DEF PlatformReplacesRaw, stateVars
<1>3. \A s \in Slot : /\ native[s].date \in Nat /\ closed[s] \in Nat
                      /\ LastOf(s)' = LastOf(s) /\ LastOf(s) \in Nat /\ LastOf(s) <= native[s].date
  BY Values DEF LastOf, stateVars
<1>4. ASSUME NEW s \in Slot
      PROVE  native'[s].date \in Nat
  <2>1. native'[s] \in Native
    OBVIOUS
  <2> QED BY <2>1, BoundAssumption DEF Native, Date, Unknown
<1>5. \A k \in DOMAIN feed : feed[k].from.date \in Nat
  BY Values
<1>6. DOMAIN feed = 1 .. Len(feed) /\ DOMAIN feed' = 1 .. Len(feed') /\ Len(feed) \in Nat
  BY Values
<1>7. DatesInOrder'
  <2>1. \A s \in DOMAIN slots' : /\ slots'[s].date \in {Unknown, slots'[s].last}
                                 /\ slots'[s].last <= native'[s].date
    <3>1. \A s \in DOMAIN slots : slots[s].last \in Nat /\ slots[s].last <= native[s].date /\ s \in Slot
      BY Values DEF DatesInOrder
    <3> QED BY <3>1, <1>3, <1>4 DEF DatesInOrder, stateVars
  <2>2. ASSUME NEW s \in Slot, NEW k \in DOMAIN feed', IsDate(feed'[k], s)
        PROVE  LastOf(s)' <= feed'[k].from.date /\ feed'[k].from.date <= native'[s].date
    <3>1. CASE k \in DOMAIN feed
      BY <3>1, <2>2, <1>3, <1>4, <1>5 DEF DatesInOrder
    <3>2. CASE k \notin DOMAIN feed
      BY <3>2, <2>2, <1>3, <1>4
    <3> QED BY <3>1, <3>2
  <2>3. ASSUME NEW s \in Slot, NEW k \in DOMAIN feed', NEW l \in DOMAIN feed', k < l,
               IsDate(feed'[k], s), IsDate(feed'[l], s)
        PROVE  feed'[k].from.date <= feed'[l].from.date
    <3>1. CASE l \in DOMAIN feed
      <4>1. k \in DOMAIN feed
        BY <3>1, <2>3, <1>6
      <4> QED BY <4>1, <3>1, <2>3 DEF DatesInOrder
    <3>2. CASE l \notin DOMAIN feed
      BY <3>2, <2>2, <2>3
    <3> QED BY <3>1, <3>2
  <2>4. live' \/ feed' = <<>>
    BY DEF DatesInOrder
  <2> QED BY <2>1, <2>2, <2>3, <2>4 DEF DatesInOrder
<1>8. ClosedOK'
  <2> SUFFICES ASSUME NEW s \in Slot, StillClosed(s) \/ Superseded(s)
               PROVE  StillClosed(s)' \/ Superseded(s)'
    BY DEF ClosedOK
  <2>1. CASE StillClosed(s)
    BY <2>1 DEF StillClosed, stateVars
  <2>2. CASE Superseded(s)
    <3>1. \A k \in DOMAIN feed' : IsDate(feed'[k], s) => feed'[k].from.date > closed[s]
      BY <2>2, <1>3, <1>4, <1>5 DEF Superseded
    <3> QED BY <2>2, <3>1, <1>3, <1>4 DEF Superseded
  <2> QED BY <2>1, <2>2
<1> QED BY <1>1, <1>2, <1>7, <1>8

\* A change of one topic's slot or alarm, its date not going back.
LEMMA BecomesKeeps ==
  ASSUME IInv, NEW i \in Slot \union Raw, NEW new \in Native, new.date >= native[i].date,
         NEW fields \in SUBSET Fields, Becomes(i, new, fields)
  PROVE  IInv'
<1>1. /\ native' = [native EXCEPT ![i] = new]
      /\ UNCHANGED <<source, live, stateVars, closed>> /\ upToDate' = FALSE
  BY DEF Becomes
<1>2. native' \in [Slot \union Raw -> Native]
  BY <1>1 DEF IInv, TypeOK
<1>3. \A s \in Slot : native'[s].date >= native[s].date
  BY <1>1, <1>2, Values DEF IInv, TypeOK
<1>4. feed \in Seq(Leaf)
  BY Values
<1>5. /\ feed' \in Seq(Leaf)
      /\ DOMAIN feed \subseteq DOMAIN feed' /\ \A k \in DOMAIN feed : feed'[k] = feed[k]
      /\ \A k \in DOMAIN feed' \ DOMAIN feed : \A s \in Slot :
           IsDate(feed'[k], s) => feed'[k].from.date = native'[s].date
      /\ live \/ feed' = feed
  <2>1. CASE ~live
    BY <2>1, <1>4 DEF Becomes
  <2>2. CASE live
    <3>1. PICK told \in Tells({i} \X fields) : feed' = feed \o Leaves(told, native')
      BY <2>2 DEF Becomes
    <3>2. told \in Tellings
      BY DEF Tells
    <3> DEFINE new_ == Leaves(told, native')
    <3>3. /\ new_ \in Seq(Leaf)
          /\ \A k \in DOMAIN new_, s \in Slot :
               IsDate(new_[k], s) => new_[k].from.date = native'[s].date
      BY <3>2, <1>2, LeavesType
    <3> HIDE DEF new_
    <3>4. feed' = feed \o new_
      BY <3>1 DEF new_
    <3>5. /\ feed' \in Seq(Leaf)
          /\ DOMAIN feed' = 1 .. Len(feed) + Len(new_) /\ DOMAIN feed = 1 .. Len(feed)
          /\ Len(feed) \in Nat /\ Len(new_) \in Nat
          /\ \A k \in 1 .. Len(feed) : feed'[k] = feed[k]
          /\ \A k \in Len(feed) + 1 .. Len(feed) + Len(new_) :
               k - Len(feed) \in DOMAIN new_ /\ feed'[k] = new_[k - Len(feed)]
      BY <3>3, <3>4, <1>4
    <3> QED BY <3>3, <3>5, <2>2
  <2> QED BY <2>1, <2>2
<1> QED BY <1>1, <1>2, <1>3, <1>5, FeedGrows

\* The Cerbo changes, an occurrence being raised at any later date.
CerboChanges ==
  \/ \E s \in Slot : Subside(s) \/ Acknowledge(s) \/ \E d \in Date : RaiseAt(s, d)
  \/ \E a \in Raw : Alarm(a)

\* What the Cerbo does keeps what is closed closed: dates do not go back.
LEMMA CerboKeeps ==
  ASSUME IInv, CerboChanges
  PROVE  IInv'
<1>1. ASSUME NEW s \in Slot, NEW d \in Date, RaiseAt(s, d)
      PROVE  IInv'
  <2>1. PICK t \in Title :
          /\ d \in Date /\ d > native[s].date
          /\ Becomes(s, [text |-> t, date |-> d, active |-> TRUE, acknowledged |-> FALSE], Fields)
    BY <1>1 DEF RaiseAt
  <2> DEFINE new_ == [text |-> t, date |-> d, active |-> TRUE, acknowledged |-> FALSE]
  <2>2. new_ \in Native
    BY <2>1 DEF Native
  <2>3. new_.date >= native[s].date
    <3>1. d \in Nat /\ native[s].date \in Nat /\ d > native[s].date
      BY <2>1, Values, BoundAssumption DEF Date
    <3> QED BY <3>1
  <2>4. Becomes(s, new_, Fields) /\ s \in Slot \union Raw
    BY <2>1
  <2> HIDE DEF new_
  <2> QED BY <2>2, <2>3, <2>4, BecomesKeeps
<1>2. ASSUME NEW s \in Slot, Subside(s)
      PROVE  IInv'
  <2> DEFINE new_ == [native[s] EXCEPT !.active = FALSE]
  <2>1. new_ \in Native /\ new_.date >= native[s].date
    <3>1. native[s] \in Native /\ native[s].date \in Nat
      BY Values
    <3>2. new_ \in Native
      BY <3>1 DEF Native
    <3>3. new_.date = native[s].date
      BY <3>1 DEF Native
    <3> QED BY <3>1, <3>2, <3>3
  <2>2. {"active"} \in SUBSET Fields
    BY DEF Fields
  <2>3. Becomes(s, new_, {"active"}) /\ s \in Slot \union Raw
    BY <1>2 DEF Subside
  <2> HIDE DEF new_
  <2> QED BY <2>1, <2>2, <2>3, BecomesKeeps
<1>3. ASSUME NEW s \in Slot, Acknowledge(s)
      PROVE  IInv'
  <2> DEFINE new_ == [native[s] EXCEPT !.acknowledged = TRUE]
  <2>1. new_ \in Native /\ new_.date >= native[s].date
    <3>1. native[s] \in Native /\ native[s].date \in Nat
      BY Values
    <3>2. new_ \in Native
      BY <3>1 DEF Native
    <3>3. new_.date = native[s].date
      BY <3>1 DEF Native
    <3> QED BY <3>1, <3>2, <3>3
  <2>2. {"acknowledged"} \in SUBSET Fields
    BY DEF Fields
  <2>3. Becomes(s, new_, {"acknowledged"}) /\ s \in Slot \union Raw
    BY <1>3 DEF Acknowledge
  <2> HIDE DEF new_
  <2> QED BY <2>1, <2>2, <2>3, BecomesKeeps
<1>4. ASSUME NEW a \in Raw, Alarm(a)
      PROVE  IInv'
  <2>1. native[a] \in Native
    BY DEF IInv, TypeOK
  <2>2. native[a].date \in Nat
    BY <2>1, BoundAssumption DEF Native, Date, Unknown
  <2> DEFINE new_ == [native[a] EXCEPT !.active = ~@]
  <2>3. new_ \in Native /\ new_.date >= native[a].date
    <3>1. new_ \in Native
      BY <2>1 DEF Native
    <3>2. new_.date = native[a].date
      BY <2>1 DEF Native
    <3> QED BY <2>2, <3>1, <3>2
  <2>4. {"active"} \in SUBSET Fields
    BY DEF Fields
  <2>5. Becomes(a, new_, {"active"}) /\ a \in Slot \union Raw
    BY <1>4 DEF Alarm
  <2> HIDE DEF new_
  <2> QED BY <2>3, <2>4, <2>5, BecomesKeeps
<1> QED BY <1>1, <1>2, <1>3, <1>4 DEF CerboChanges

\* A leaf that comes again tells at most the date its slot still has.
LEMMA RepeatKeeps ==
  ASSUME IInv, Repeat
  PROVE  IInv'
<1>1. PICK t \in Published : \E from \in {native[t[1]], [native[t[1]] EXCEPT !.date = Unknown]} :
        feed' = Append(feed, LeafOf(t, from))
  BY Zenon DEF Repeat
<1>2. PICK from \in {native[t[1]], [native[t[1]] EXCEPT !.date = Unknown]} :
        feed' = Append(feed, LeafOf(t, from))
  BY <1>1
<1>3. t \in Topic
  <2>1. PICK told \in Tellings : t \in ToldBy(told)
    BY DEF Published
  <2> QED BY <2>1, TellingAssumption DEF ToldBy
<1>4. t[1] \in Slot \union Raw /\ t[2] \in Fields
  BY <1>3 DEF Topic, Fields
<1>5. native[t[1]] \in Native
  BY <1>4 DEF IInv, TypeOK
<1>6. from \in Native /\ from.date \in {Unknown, native[t[1]].date}
  <2>1. CASE from = native[t[1]]
    BY <2>1, <1>5
  <2>2. CASE from = [native[t[1]] EXCEPT !.date = Unknown]
    BY <2>2, <1>5 DEF Native
  <2> QED BY <2>1, <2>2, <1>2
<1> DEFINE leaf == LeafOf(t, from)
<1>7. leaf \in Leaf /\ leaf.topic = t /\ (t[2] = "date" => leaf.from.date = from.date)
  BY <1>3, <1>4, <1>6, PartType DEF LeafOf, Leaf
<1>8. \A s \in Slot : IsDate(leaf, s) => leaf.from.date = native[s].date
  <2> SUFFICES ASSUME NEW s \in Slot, IsDate(leaf, s)
               PROVE  leaf.from.date = native[s].date
    OBVIOUS
  <2>1. t = <<s, "date">> /\ leaf.from.date # Unknown
    BY <1>7 DEF IsDate
  <2> QED BY <2>1, <1>6, <1>7
<1> HIDE DEF leaf
<1>9. feed' = Append(feed, leaf)
  BY <1>2 DEF leaf
<1>10. /\ UNCHANGED <<source, live, stateVars, closed>> /\ UNCHANGED cerboVars
       /\ native' = native /\ upToDate' = upToDate
  BY DEF Repeat, cerboVars
<1>11. feed \in Seq(Leaf)
  BY Values
<1>12. /\ feed' \in Seq(Leaf) /\ DOMAIN feed \subseteq DOMAIN feed'
       /\ \A k \in DOMAIN feed : feed'[k] = feed[k]
       /\ \A k \in DOMAIN feed' \ DOMAIN feed : feed'[k] = leaf
  BY <1>7, <1>9, <1>11
<1>13. \A s \in Slot : native'[s].date >= native[s].date
  BY <1>10, Values
<1>14. native' \in [Slot \union Raw -> Native] /\ upToDate' \in BOOLEAN
  BY <1>10 DEF IInv, TypeOK
<1>15. live
  BY DEF Repeat
<1> QED BY <1>8, <1>10, <1>12, <1>13, <1>14, <1>15, FeedGrows

-----------------------------------------------------------------------------
(* Sessions.                                                               *)

\* The end of a session keeps what was dismissed, with its date.
LEMMA ClearKeeps ==
  ASSUME IInv, ClearNative, UNCHANGED <<source, cerboVars, dismissedIds, closed>>,
         live' \in BOOLEAN, live' => source = "mqtt", feed' \in Seq(Leaf), live' \/ feed' = <<>>,
         \A k \in DOMAIN feed', s \in Slot : IsDate(feed'[k], s) => feed'[k].from.date = native[s].date
  PROVE  IInv'
<1> USE DEF IInv
<1>1. native' = native /\ upToDate' = upToDate /\ closed' = closed /\ source' = source
  BY DEF cerboVars
<1>2. /\ DOMAIN slots' = {s \in DOMAIN slots : slots[s].dismissed}
      /\ \A s \in DOMAIN slots' : slots'[s] = [Blank EXCEPT !.dismissed = TRUE, !.last = slots[s].last]
  BY DEF ClearNative, Cleared
<1>3. ASSUME NEW s \in DOMAIN slots'
      PROVE  /\ s \in DOMAIN slots /\ slots[s].dismissed
             /\ slots'[s] \in Entry /\ slots'[s].dismissed
             /\ slots'[s].last = slots[s].last /\ slots'[s].date = Unknown
  <2>1. s \in DOMAIN slots /\ slots[s].dismissed /\ slots[s] \in Entry
    BY <1>2, Values
  <2>2. slots[s].last \in Date \union {Unknown}
    BY <2>1 DEF Entry
  <2>3. slots'[s] = [Blank EXCEPT !.dismissed = TRUE, !.last = slots[s].last]
    BY <1>2
  <2>4. /\ slots'[s] \in Entry /\ slots'[s].dismissed
        /\ slots'[s].last = slots[s].last /\ slots'[s].date = Unknown
    BY <2>2, <2>3, OffType DEF Blank, Entry
  <2> QED BY <2>1, <2>4
<1>4. TypeOK'
  <2>1. DOMAIN slots' \subseteq Slot
    BY <1>3, Values
  <2>2. slots' \in [DOMAIN slots' -> Entry]
    <3>1. slots' = [s \in DOMAIN slots' |-> slots'[s]]
      BY DEF ClearNative, Cleared
    <3> QED BY <3>1, <1>3
  <2>3. banners' \in SUBSET Id /\ banners' \intersect Slot = {}
    BY DEF ClearNative, NoticesOf, TypeOK
  <2>4. {s \in DOMAIN slots' : Shows(slots'[s])} = {}
    BY <1>3 DEF Shows
  <2>5. platformSeen' \in BOOLEAN /\ alarmOn' \in SUBSET Raw
    BY DEF ClearNative
  <2> QED BY <2>1, <2>2, <2>3, <2>4, <2>5, <1>1 DEF TypeOK
<1>5. PlatformReplacesRaw'
  BY DEF PlatformReplacesRaw, ClearNative
<1>6. \A s \in Slot : /\ LastOf(s)' \in {Unknown, LastOf(s)} /\ LastOf(s)' <= native[s].date
                      /\ native[s].date \in Nat /\ closed[s] \in Nat /\ LastOf(s)' \in Nat
  <2> TAKE s \in Slot
  <2>1. native[s].date \in Nat /\ closed[s] \in Nat /\ LastOf(s) \in Nat /\ LastOf(s) <= native[s].date
    BY Values
  <2>2. LastOf(s)' \in {Unknown, LastOf(s)}
    BY <1>3 DEF LastOf
  <2> QED BY <2>1, <2>2 DEF Unknown
<1>7. DatesInOrder'
  <2>1. ASSUME NEW s \in DOMAIN slots'
        PROVE  /\ slots'[s].date \in {Unknown, slots'[s].last}
               /\ slots'[s].last <= native'[s].date
    BY <1>1, <1>3 DEF DatesInOrder
  <2>2. ASSUME NEW s \in Slot, NEW k \in DOMAIN feed', IsDate(feed'[k], s)
        PROVE  LastOf(s)' <= feed'[k].from.date /\ feed'[k].from.date <= native'[s].date
    BY <2>2, <1>1, <1>6
  <2>3. ASSUME NEW s \in Slot, NEW k \in DOMAIN feed', NEW l \in DOMAIN feed', k < l,
               IsDate(feed'[k], s), IsDate(feed'[l], s)
        PROVE  feed'[k].from.date <= feed'[l].from.date
    BY <2>3, <1>6
  <2> QED BY <2>1, <2>2, <2>3 DEF DatesInOrder
<1>8. ClosedOK'
  <2> SUFFICES ASSUME NEW s \in Slot, closed[s] # Unknown, StillClosed(s) \/ Superseded(s)
               PROVE  StillClosed(s)' \/ Superseded(s)'
    BY <1>1 DEF ClosedOK
  <2>1. CASE StillClosed(s)
    <3>1. s \in DOMAIN slots'
      BY <2>1, <1>2 DEF StillClosed
    <3> QED BY <3>1, <2>1, <1>1, <1>3 DEF StillClosed
  <2>2. CASE Superseded(s)
    <3>1. \A k \in DOMAIN feed' : IsDate(feed'[k], s) => feed'[k].from.date > closed[s]
      BY <2>2 DEF Superseded
    <3>2. LastOf(s)' # closed[s]
      BY <2>2, <1>6 DEF Superseded
    <3> QED BY <2>2, <3>1, <3>2, <1>1 DEF Superseded
  <2> QED BY <2>1, <2>2
<1> QED BY <1>4, <1>5, <1>7, <1>8

LEMMA SessionKeeps ==
  ASSUME IInv, Connect \/ Disconnect
  PROVE  IInv'
<1>1. CASE Connect
  <2>1. PICK told \in Tells({t \in Topic : t[1] \in Slot => native[t[1]].date # Unknown}) :
          feed' = Leaves(told, native)
    BY <1>1 DEF Connect
  <2>2. told \in Tellings /\ native \in [Slot \union Raw -> Native]
    BY DEF Tells, IInv, TypeOK
  <2>3. /\ feed' \in Seq(Leaf)
        /\ \A k \in DOMAIN feed', s \in Slot :
             IsDate(feed'[k], s) => feed'[k].from.date = native[s].date
    <3> DEFINE new_ == Leaves(told, native)
    <3>1. /\ new_ \in Seq(Leaf)
          /\ \A k \in DOMAIN new_, s \in Slot :
               IsDate(new_[k], s) => new_[k].from.date = native[s].date
      BY <2>2, LeavesType
    <3>2. feed' = new_
      BY <2>1
    <3> HIDE DEF new_
    <3> QED BY <3>1, <3>2
  <2>4. /\ ClearNative /\ live' = TRUE /\ source = "mqtt"
        /\ UNCHANGED <<source, cerboVars, dismissedIds, closed>>
    BY <1>1 DEF Connect
  <2> QED BY <2>3, <2>4, ClearKeeps
<1>2. CASE Disconnect
  <2>1. /\ ClearNative /\ live' = FALSE /\ feed' = <<>>
        /\ UNCHANGED <<source, cerboVars, dismissedIds, closed>>
    BY <1>2 DEF Disconnect
  <2>2. feed' \in Seq(Leaf) /\ DOMAIN feed' = {}
    BY <2>1
  <2> QED BY <2>1, <2>2, ClearKeeps
<1> QED BY <1>1, <1>2

-----------------------------------------------------------------------------
(* Deliveries.                                                             *)

\* The leaves that are left after the first.
LEMMA RestOfFeed ==
  ASSUME IInv, feed # <<>>, feed' = Tail(feed)
  PROVE  /\ feed' \in Seq(Leaf)
         /\ 1 \in DOMAIN feed /\ Head(feed) = feed[1]
         /\ \A k \in DOMAIN feed' :
              k \in Nat /\ k + 1 \in DOMAIN feed /\ 1 < k + 1 /\ feed'[k] = feed[k + 1]
<1>1. feed \in Seq(Leaf)
  BY Values
<1> QED BY <1>1

LEMMA AlarmLeafKeeps ==
  ASSUME IInv, feed # <<>>, feed' = Tail(feed), AlarmLeaf(Head(feed)),
         UNCHANGED <<source, cerboVars, live, dismissedIds>>
  PROVE  IInv'
<1> USE DEF IInv
<1> DEFINE leaf == Head(feed)
           a    == leaf.topic[1]
<1>1. /\ UNCHANGED <<slots, platformSeen, closed>> /\ native' = native /\ upToDate' = upToDate
      /\ source' = source /\ live' = live /\ dismissedIds' = dismissedIds
  BY DEF AlarmLeaf, cerboVars
<1>2. a \in Raw
  BY DEF AlarmLeaf
<1>3. \/ alarmOn' = alarmOn /\ banners' = banners
      \/ ~platformSeen /\ alarmOn' = alarmOn \union {a} /\ banners' = Pushed(banners, a)
      \/ ~platformSeen /\ alarmOn' = alarmOn \ {a} /\ banners' = banners \ {a}
  BY DEF AlarmLeaf
<1> HIDE DEF a, leaf
<1>4. /\ alarmOn' \in SUBSET Raw /\ banners' \in SUBSET Id
      /\ banners' \intersect Slot = banners \intersect Slot
      /\ platformSeen => banners' = banners
  BY <1>2, <1>3, DisjointIds DEF TypeOK, Id, Pushed
<1>5. /\ feed' \in Seq(Leaf)
      /\ \A k \in DOMAIN feed' :
           k \in Nat /\ k + 1 \in DOMAIN feed /\ feed'[k] = feed[k + 1]
  BY RestOfFeed
<1>6. TypeOK'
  BY <1>1, <1>4, <1>5 DEF TypeOK
<1>7. PlatformReplacesRaw'
  BY <1>1, <1>4 DEF PlatformReplacesRaw
<1>8. \A s \in Slot : LastOf(s)' = LastOf(s)
  BY <1>1 DEF LastOf
<1>9. DatesInOrder'
  <2>1. \A s \in DOMAIN slots' : /\ slots'[s].date \in {Unknown, slots'[s].last}
                                 /\ slots'[s].last <= native'[s].date
    BY <1>1 DEF DatesInOrder
  <2>2. \A s \in Slot : \A k \in DOMAIN feed' :
          IsDate(feed'[k], s) => /\ LastOf(s)' <= feed'[k].from.date
                                 /\ feed'[k].from.date <= native'[s].date
    BY <1>1, <1>5, <1>8 DEF DatesInOrder
  <2>3. \A s \in Slot : \A k, l \in DOMAIN feed' :
          k < l /\ IsDate(feed'[k], s) /\ IsDate(feed'[l], s) =>
            feed'[k].from.date <= feed'[l].from.date
    BY <1>5 DEF DatesInOrder
  <2>4. live' \/ feed' = <<>>
    BY <1>1 DEF DatesInOrder
  <2> QED BY <2>1, <2>2, <2>3, <2>4 DEF DatesInOrder
<1>10. ClosedOK'
  <2> SUFFICES ASSUME NEW s \in Slot, StillClosed(s) \/ Superseded(s)
               PROVE  StillClosed(s)' \/ Superseded(s)'
    BY <1>1 DEF ClosedOK
  <2>1. CASE StillClosed(s)
    BY <2>1, <1>1 DEF StillClosed
  <2>2. CASE Superseded(s)
    BY <2>2, <1>1, <1>5, <1>8 DEF Superseded
  <2> QED BY <2>1, <2>2
<1> QED BY <1>6, <1>7, <1>9, <1>10

\* Only a later date in its own slot, or the end of its condition, reopens what was
\* dismissed; and then no date under way is as old.
LEMMA PlatformLeafKeeps ==
  ASSUME IInv, feed # <<>>, feed' = Tail(feed), PlatformLeaf(Head(feed)),
         UNCHANGED <<source, cerboVars, live, dismissedIds>>
  PROVE  IInv'
<1> USE DEF IInv
<1>0. PICK p \in Slot : p = Head(feed).topic[1]
  BY DEF PlatformLeaf
<1> DEFINE leaf  == Head(feed)
           field == leaf.topic[2]
           e     == EntryOf(p)
           e2    == ApplyField(e, field, leaf.from)
<1>1. /\ p \in Slot
      /\ slots' = [t \in DOMAIN slots \union {p} |-> IF t = p THEN e2 ELSE slots[t]]
      /\ platformSeen' = TRUE /\ banners' = WithPlatform(banners, slots')
      /\ closed' = [closed EXCEPT ![p] = IF p \in DOMAIN slots THEN Reopened(p, slots') ELSE @]
      /\ alarmOn' = alarmOn
  BY <1>0 DEF PlatformLeaf
<1>2. /\ native' = native /\ upToDate' = upToDate
      /\ source' = source /\ live' = live /\ dismissedIds' = dismissedIds
  BY DEF cerboVars
<1>3. /\ feed' \in Seq(Leaf)
      /\ 1 \in DOMAIN feed /\ leaf = feed[1]
      /\ \A k \in DOMAIN feed' :
           k \in Nat /\ k + 1 \in DOMAIN feed /\ 1 < k + 1 /\ feed'[k] = feed[k + 1]
  BY RestOfFeed
<1>4. leaf \in Leaf
  BY <1>3, Values
<1>5. /\ leaf.topic \in Topic /\ leaf.from \in Native /\ leaf.from.date \in Nat
      /\ leaf.topic = <<p, field>>
  <2>1. leaf.topic \in Topic /\ leaf.from \in Native
    BY <1>4 DEF Leaf
  <2>2. leaf.topic = <<p, field>>
    BY <2>1, <1>0 DEF Topic
  <2> QED BY <2>1, <2>2, BoundAssumption DEF Native, Date, Unknown
<1>6. field \in Fields
  BY <1>5 DEF Topic, Fields
<1>7. e \in Entry /\ e.last = LastOf(p) /\ (p \in DOMAIN slots => e = slots[p])
  BY OffType, Values DEF EntryOf, LastOf, Blank
<1>8. /\ e2 \in Entry
      /\ field # "date" => e2.date = e.date /\ e2.last = e.last
      /\ field = "date" => /\ e2.date = leaf.from.date
                           /\ leaf.from.date = Unknown => e2.last = e.last
                           /\ leaf.from.date # Unknown => e2.last = leaf.from.date
      /\ e.dismissed /\ ~e2.dismissed =>
           \/ field = "date" /\ leaf.from.date \notin {Unknown, e.last}
           \/ field = "active" /\ e.active = "on" /\ e2.active = "off"
  BY <1>5, <1>6, <1>7, ApplyType
<1>9. field = "date" /\ leaf.from.date # Unknown => IsDate(feed[1], p)
  BY <1>3, <1>5 DEF IsDate
<1>10. /\ native[p].date \in Nat /\ LastOf(p) \in Nat /\ LastOf(p) <= native[p].date
       /\ closed[p] \in Nat
  BY <1>1, Values
<1>11. /\ IsDate(feed[1], p) => LastOf(p) <= leaf.from.date /\ leaf.from.date <= native[p].date
       /\ \A k \in DOMAIN feed' : IsDate(feed[1], p) /\ IsDate(feed'[k], p) =>
            leaf.from.date <= feed'[k].from.date
       /\ \A s \in Slot : \A k \in DOMAIN feed' : IsDate(feed'[k], s) =>
            LastOf(s) <= feed'[k].from.date /\ feed'[k].from.date <= native[s].date
  BY <1>1, <1>3 DEF DatesInOrder
<1>12. \A k \in DOMAIN feed' : feed'[k].from.date \in Nat
  BY <1>3, Values
<1> HIDE DEF leaf, field, e, e2
\* the slot's last date: what it was, or the leaf's
<1>13. /\ e2.last = LastOf(p) \/ (IsDate(feed[1], p) /\ e2.last = leaf.from.date)
       /\ e2.last \in Nat /\ e2.last <= native[p].date
       /\ LastOf(p) <= e2.last
       /\ e2.date \in {Unknown, e2.last}
  <2>1. e.date \in {Unknown, e.last}
    <3>1. CASE p \in DOMAIN slots
      BY <3>1, <1>7 DEF DatesInOrder
    <3>2. CASE p \notin DOMAIN slots
      BY <3>2 DEF e, EntryOf, Blank
    <3> QED BY <3>1, <3>2
  <2> QED BY <2>1, <1>5, <1>7, <1>8, <1>9, <1>10, <1>11
<1>14. /\ DOMAIN slots' = DOMAIN slots \union {p} /\ slots'[p] = e2 /\ LastOf(p)' = e2.last
       /\ \A s \in Slot \ {p} : /\ s \in DOMAIN slots' <=> s \in DOMAIN slots
                                /\ s \in DOMAIN slots => slots'[s] = slots[s]
                                /\ LastOf(s)' = LastOf(s)
  <2>1. DOMAIN slots' = DOMAIN slots \union {p} /\ slots'[p] = e2
    BY <1>1
  <2>2. \A s \in Slot \ {p} : s \in DOMAIN slots => slots'[s] = slots[s]
    BY <1>1
  <2> QED BY <2>1, <2>2 DEF LastOf
<1>15. \A s \in DOMAIN slots' : slots'[s] \in Entry /\ s \in Slot
  BY <1>1, <1>8, <1>14, Values
<1>16. TypeOK'
  <2>1. slots' \in [DOMAIN slots' -> Entry] /\ DOMAIN slots' \subseteq Slot
    <3>1. slots' = [s \in DOMAIN slots' |-> slots'[s]]
      BY <1>1
    <3> QED BY <3>1, <1>15
  <2>2. /\ banners' \in SUBSET Id
        /\ banners' \intersect Slot = {s \in DOMAIN slots' : Shows(slots'[s])}
    BY <1>1, <2>1 DEF WithPlatform, Visible, TypeOK, Id
  <2>3. closed' \in [Slot -> Date \union {Unknown}]
    <3>1. closed \in [Slot -> Date \union {Unknown}]
      BY DEF TypeOK
    <3>2. Reopened(p, slots') \in Date \union {Unknown}
      BY <3>1, <1>1 DEF Reopened
    <3> QED BY <3>1, <3>2, <1>1
  <2>4. /\ source' \in Sources /\ native' \in [Slot \union Raw -> Native]
        /\ live' \in BOOLEAN /\ (live' => source' = "mqtt") /\ upToDate' \in BOOLEAN
        /\ alarmOn' \in SUBSET Raw /\ dismissedIds' \in SUBSET (Raw \union Notice)
    BY <1>1, <1>2 DEF TypeOK
  <2>5. platformSeen' \in BOOLEAN /\ feed' \in Seq(Leaf)
    BY <1>1, <1>3
  <2> QED BY <2>1, <2>2, <2>3, <2>4, <2>5 DEF TypeOK
<1>17. PlatformReplacesRaw'
  BY <1>1, <1>15, DisjointIds DEF PlatformReplacesRaw, WithPlatform, Visible
<1>18. DatesInOrder'
  <2>1. ASSUME NEW s \in DOMAIN slots'
        PROVE  slots'[s].date \in {Unknown, slots'[s].last} /\ slots'[s].last <= native'[s].date
    <3>1. CASE s = p
      BY <3>1, <1>2, <1>13, <1>14
    <3>2. CASE s # p
      <4>1. s \in DOMAIN slots /\ slots'[s] = slots[s]
        BY <3>2, <1>14, <1>15
      <4> QED BY <4>1, <1>2 DEF DatesInOrder
    <3> QED BY <3>1, <3>2
  <2>2. ASSUME NEW s \in Slot, NEW k \in DOMAIN feed', IsDate(feed'[k], s)
        PROVE  LastOf(s)' <= feed'[k].from.date /\ feed'[k].from.date <= native'[s].date
    <3>1. CASE s = p
      BY <3>1, <2>2, <1>2, <1>11, <1>12, <1>13, <1>14
    <3>2. CASE s # p
      BY <3>2, <2>2, <1>2, <1>11, <1>14
    <3> QED BY <3>1, <3>2
  <2>3. \A s \in Slot : \A k, l \in DOMAIN feed' :
          k < l /\ IsDate(feed'[k], s) /\ IsDate(feed'[l], s) =>
            feed'[k].from.date <= feed'[l].from.date
    BY <1>3 DEF DatesInOrder
  <2>4. live' \/ feed' = <<>>
    BY <1>2 DEF DatesInOrder
  <2> QED BY <2>1, <2>2, <2>3, <2>4 DEF DatesInOrder
<1>19. ClosedOK'
  <2> SUFFICES ASSUME NEW s \in Slot, closed[s] # Unknown, closed'[s] = closed[s],
                      StillClosed(s) \/ Superseded(s)
               PROVE  StillClosed(s)' \/ Superseded(s)'
    <3>1. \A s \in Slot : closed'[s] \in {Unknown, closed[s]}
      BY <1>1 DEF Reopened, TypeOK
    <3> QED BY <3>1 DEF ClosedOK
  <2>1. CASE s # p
    <3>1. CASE StillClosed(s)
      BY <2>1, <3>1, <1>14 DEF StillClosed
    <3>2. CASE Superseded(s)
      BY <2>1, <3>2, <1>2, <1>3, <1>14 DEF Superseded
    <3> QED BY <3>1, <3>2
  <2>2. CASE s = p /\ StillClosed(s)
    <3>1. p \in DOMAIN slots /\ e = slots[p] /\ e.dismissed /\ LastOf(p) = closed[p]
      BY <2>2, <1>7 DEF StillClosed, LastOf
    <3>2. ~(e.active = "on" /\ e2.active = "off")
      <4>1. closed'[p] = Reopened(p, slots')
        BY <3>1, <1>1 DEF TypeOK
      <4> QED BY <4>1, <2>2, <3>1, <1>14 DEF Reopened
    <3>3. CASE e2.dismissed /\ e2.last = LastOf(p)
      BY <3>1, <3>3, <2>2, <1>14 DEF StillClosed
    <3>4. CASE ~(e2.dismissed /\ e2.last = LastOf(p))
      <4>1. IsDate(feed[1], p) /\ e2.last = leaf.from.date /\ leaf.from.date # LastOf(p)
        BY <3>1, <3>2, <3>4, <1>7, <1>8, <1>9, <1>13
      <4>2. leaf.from.date > LastOf(p) /\ native[p].date > LastOf(p)
        BY <4>1, <1>5, <1>10, <1>11
      <4>3. \A k \in DOMAIN feed' : IsDate(feed'[k], p) => feed'[k].from.date > LastOf(p)
        BY <4>1, <4>2, <1>5, <1>10, <1>11, <1>12
      <4> QED BY <4>1, <4>2, <4>3, <3>1, <2>2, <1>2, <1>14 DEF Superseded
    <3> QED BY <3>3, <3>4
  <2>3. CASE s = p /\ Superseded(s)
    <3>1. \A k \in DOMAIN feed' : IsDate(feed'[k], p) => feed'[k].from.date > closed[p]
      BY <2>3, <1>3 DEF Superseded
    <3>2. e2.last # closed[p]
      BY <2>3, <1>3, <1>5, <1>10, <1>13 DEF Superseded
    <3> QED BY <2>3, <3>1, <3>2, <1>2, <1>14 DEF Superseded
  <2> QED BY <2>1, <2>2, <2>3
<1> QED BY <1>16, <1>17, <1>18, <1>19

-----------------------------------------------------------------------------
(* Snapshots, the controller and the browsers.                             *)

\* Nothing is under way between snapshots: what they read is what the Cerbo holds.
LEMMA SnapshotKeeps ==
  ASSUME IInv, NEW wellFormed \in BOOLEAN, NEW heard \in SUBSET Raw,
         NEW read \in SUBSET {s \in Slot : native[s].date # Unknown}, NEW dated \in SUBSET read,
         Snapshot(wellFormed, read, dated, heard)
  PROVE  IInv'
<1> USE DEF IInv
<1>1. /\ source' = source /\ native' = native /\ live' = live /\ feed' = feed
      /\ dismissedIds' = dismissedIds /\ upToDate' \in BOOLEAN
      /\ live = FALSE /\ feed = <<>>
  BY DEF Snapshot, TypeOK, DatesInOrder
<1> DEFINE bs == IF wellFormed /\ read # {} THEN WithPlatform(banners, slots')
                 ELSE (banners \ Slot) \union Visible(slots')
           on == IF platformSeen' THEN alarmOn
                 ELSE {a \in Raw : IF a \in heard THEN native[a].active ELSE a \in alarmOn}
           new == on \ (alarmOn \union dismissedIds)
<1>2. /\ alarmOn' = on
      /\ banners' = IF platformSeen' THEN bs ELSE (bs \ (alarmOn \ on)) \union new
  BY Zenon DEF Snapshot, AlarmsRead
<1>3. ASSUME wellFormed
      PROVE  /\ slots' = [s \in read |-> Rebuilt(s, Read(s, s \in dated))]
             /\ platformSeen' = (platformSeen \/ read # {})
             /\ closed' = [s \in Slot |-> IF s \in read THEN closed[s] ELSE Unknown]
  BY <1>3 DEF Snapshot
<1>4. ASSUME ~wellFormed
      PROVE  slots' = slots /\ platformSeen' = platformSeen /\ closed' = closed
  BY <1>4 DEF Snapshot
\* what a slot is after it was read anew
<1>5. ASSUME NEW s \in read
      PROVE  LET r == Rebuilt(s, Read(s, s \in dated)) IN
             /\ r \in Entry /\ r.date \in {Unknown, r.last} /\ r.last <= native[s].date
             /\ r.last \in {LastOf(s), native[s].date}
             /\ StillClosed(s) => /\ r.last = LastOf(s) => r.dismissed
                                  /\ LastOf(s) = closed[s]
  <2> DEFINE before == EntryOf(s)
             e      == Read(s, s \in dated)
             r      == Rebuilt(s, e)
  <2>1. s \in Slot /\ native[s] \in Native /\ native[s].date # Unknown
    BY Values
  <2>2. before \in Entry /\ before.last = LastOf(s) /\ (StillClosed(s) => before.dismissed)
    BY OffType, Values DEF EntryOf, LastOf, Blank, StillClosed
  <2>3. /\ e \in Entry /\ e.date \in {Unknown, native[s].date}
        /\ e.last = e.date
    BY <2>1 DEF Read, Blank, Entry, Native
  <2>4. r = [e EXCEPT !.last = IF e.date = Unknown THEN before.last ELSE @,
                      !.dismissed = before.dismissed /\ ~OtherOccurrence(before, e.date)]
    BY DEF Rebuilt, EntryOf
  <2> HIDE DEF e, before, r
  <2>5. /\ r \in Entry /\ r.date = e.date
        /\ r.last = IF e.date = Unknown THEN LastOf(s) ELSE e.date
    BY <2>2, <2>3, <2>4 DEF Entry
  <2>6. r.dismissed = (before.dismissed /\ ~(e.date # Unknown /\ e.date # LastOf(s)))
    BY <2>2, <2>3, <2>4 DEF Entry, OtherOccurrence
  <2>7. native[s].date \in Nat /\ LastOf(s) <= native[s].date
    BY <2>1, Values
  <2>8. StillClosed(s) => LastOf(s) = closed[s]
    BY DEF StillClosed, LastOf
  <2>9. r.date \in {Unknown, r.last} /\ r.last <= native[s].date /\ r.last \in {LastOf(s), native[s].date}
    BY <2>3, <2>5, <2>7
  <2>10. StillClosed(s) /\ r.last = LastOf(s) => r.dismissed
    BY <2>2, <2>5, <2>6
  <2> QED BY <2>5, <2>8, <2>9, <2>10 DEF r, e
<1>6. /\ slots' \in [DOMAIN slots' -> Entry] /\ DOMAIN slots' \subseteq Slot
      /\ \A s \in DOMAIN slots' : /\ slots'[s].date \in {Unknown, slots'[s].last}
                                  /\ slots'[s].last <= native[s].date
  <2>1. CASE wellFormed
    BY <2>1, <1>3, <1>5
  <2>2. CASE ~wellFormed
    BY <2>2, <1>4 DEF TypeOK, DatesInOrder
  <2> QED BY <2>1, <2>2
<1>7. /\ platformSeen' \in BOOLEAN /\ closed' \in [Slot -> Date \union {Unknown}]
      /\ platformSeen => platformSeen'
      /\ wellFormed /\ read # {} => platformSeen'
      /\ ~(wellFormed /\ read # {}) => platformSeen' = platformSeen
  <2>1. CASE wellFormed
    BY <2>1, <1>3 DEF TypeOK
  <2>2. CASE ~wellFormed
    BY <2>2, <1>4 DEF TypeOK
  <2> QED BY <2>1, <2>2
<1>8. /\ bs \in SUBSET Id /\ bs \intersect Slot = {s \in DOMAIN slots' : Shows(slots'[s])}
      /\ platformSeen' => bs \intersect Raw = {}
  <2>1. CASE wellFormed /\ read # {}
    BY <2>1, <1>6, DisjointIds DEF WithPlatform, Visible, TypeOK, Id
  <2>2. CASE ~(wellFormed /\ read # {})
    BY <2>2, <1>6, <1>7, DisjointIds DEF Visible, TypeOK, Id, PlatformReplacesRaw
  <2> QED BY <2>1, <2>2
<1>9. on \in SUBSET Raw /\ new \in SUBSET Raw /\ alarmOn \in SUBSET Raw
  BY DEF TypeOK
<1> HIDE DEF bs, on, new
<1>10. /\ banners' \in SUBSET Id /\ banners' \intersect Slot = {s \in DOMAIN slots' : Shows(slots'[s])}
       /\ platformSeen' => banners' \intersect Raw = {}
  <2>1. CASE platformSeen'
    BY <2>1, <1>2, <1>8
  <2>2. CASE ~platformSeen'
    BY <2>2, <1>2, <1>8, <1>9, DisjointIds DEF Id
  <2> QED BY <2>1, <2>2
<1>11. TypeOK'
  <2>1. /\ source' \in Sources /\ native' \in [Slot \union Raw -> Native]
        /\ live' \in BOOLEAN /\ (live' => source' = "mqtt") /\ feed' \in Seq(Leaf)
        /\ dismissedIds' \in SUBSET (Raw \union Notice)
    BY <1>1 DEF TypeOK
  <2>2. alarmOn' \in SUBSET Raw
    BY <1>2, <1>9
  <2> QED BY <2>1, <2>2, <1>1, <1>6, <1>7, <1>10 DEF TypeOK
<1>12. PlatformReplacesRaw'
  BY <1>10 DEF PlatformReplacesRaw
<1>13. DatesInOrder'
  <2>1. DOMAIN feed' = {} /\ feed' = <<>>
    BY <1>1
  <2> QED BY <2>1, <1>1, <1>6 DEF DatesInOrder
<1>14. ClosedOK'
  <2> SUFFICES ASSUME NEW s \in Slot, closed'[s] # Unknown
               PROVE  StillClosed(s)' \/ Superseded(s)'
    BY DEF ClosedOK
  <2>1. closed'[s] = closed[s] /\ (wellFormed => s \in read)
    BY <1>3, <1>4
  <2>2. StillClosed(s) \/ Superseded(s)
    BY <2>1 DEF ClosedOK
  <2>3. DOMAIN feed' = {}
    BY <1>1
  <2>4. CASE ~wellFormed
    <3>1. StillClosed(s)' <=> StillClosed(s)
      BY <2>1, <2>4, <1>4 DEF StillClosed
    <3>2. Superseded(s) => Superseded(s)'
      BY <2>1, <2>3, <2>4, <1>1, <1>4 DEF Superseded, LastOf
    <3> QED BY <3>1, <3>2, <2>2
  <2>5. CASE wellFormed
    <3> DEFINE r == Rebuilt(s, Read(s, s \in dated))
    <3>1. s \in read /\ s \in DOMAIN slots' /\ slots'[s] = r
      BY <2>1, <2>5, <1>3
    <3>2. /\ r.last \in {LastOf(s), native[s].date} /\ r.last <= native[s].date
          /\ StillClosed(s) => (r.last = LastOf(s) => r.dismissed) /\ LastOf(s) = closed[s]
      BY <3>1, <1>5
    <3>3. LastOf(s)' = r.last
      BY <3>1 DEF LastOf
    <3>4. /\ native[s].date \in Nat /\ closed[s] \in Nat
          /\ LastOf(s) \in Nat /\ LastOf(s) <= native[s].date
      BY Values
    <3> HIDE DEF r
    <3>5. CASE StillClosed(s)
      <4>1. CASE r.last = LastOf(s)
        BY <4>1, <3>1, <3>2, <3>5, <2>1 DEF StillClosed
      <4>2. CASE r.last # LastOf(s)
        BY <4>2, <3>2, <3>3, <3>4, <3>5, <2>1, <2>3, <1>1 DEF Superseded
      <4> QED BY <4>1, <4>2
    <3>6. CASE Superseded(s)
      BY <3>2, <3>3, <3>4, <3>6, <2>1, <2>3, <1>1 DEF Superseded
    <3> QED BY <3>5, <3>6, <2>2
  <2> QED BY <2>4, <2>5
<1> QED BY <1>11, <1>12, <1>13, <1>14

\* Banners of notices and alarms come and go without touching a slot.
LEMMA OthersKeep ==
  ASSUME IInv, UNCHANGED <<source, cerboVars, live, feed, slots, platformSeen, alarmOn, closed>>,
         dismissedIds' \in SUBSET (Raw \union Notice), banners' \in SUBSET Id,
         banners' \intersect Slot = banners \intersect Slot,
         banners' \intersect Raw \subseteq banners
  PROVE  IInv'
<1> USE DEF IInv
<1>1. native' = native /\ upToDate' = upToDate
  BY DEF cerboVars
<1>2. TypeOK'
  BY <1>1 DEF TypeOK
<1>3. PlatformReplacesRaw'
  BY DEF PlatformReplacesRaw
<1>4. DatesInOrder'
  BY <1>1 DEF DatesInOrder, LastOf
<1>5. ClosedOK'
  BY <1>1 DEF ClosedOK, StillClosed, Superseded, LastOf
<1> QED BY <1>2, <1>3, <1>4, <1>5

\* A click closes the occurrence the slot has at that moment.
LEMMA DismissSlotKeeps ==
  ASSUME IInv, NEW p \in Slot, DismissSlot(p)
  PROVE  IInv'
<1> USE DEF IInv
<1>1. /\ source' = source /\ native' = native /\ upToDate' = upToDate /\ live' = live
      /\ feed' = feed /\ platformSeen' = platformSeen /\ alarmOn' = alarmOn
      /\ dismissedIds' = dismissedIds /\ banners' = banners \ {p}
  BY DEF DismissSlot, cerboVars
<1>2. CASE p \notin DOMAIN slots
  <2>1. slots' = slots /\ closed' = closed
    BY <1>2 DEF DismissSlot
  <2>2. p \notin banners
    BY <1>2 DEF TypeOK
  <2>3. banners' = banners
    BY <2>2, <1>1
  <2>4. UNCHANGED vars
    BY <2>1, <2>3, <1>1 DEF vars, cerboVars, stateVars
  <2>5. TypeOK' /\ PlatformReplacesRaw'
    BY <2>1, <2>3, <1>1 DEF TypeOK, PlatformReplacesRaw
  <2>6. DatesInOrder'
    BY <2>1, <1>1 DEF DatesInOrder, LastOf
  <2>7. ClosedOK'
    BY <2>1, <1>1 DEF ClosedOK, StillClosed, Superseded, LastOf
  <2> QED BY <2>5, <2>6, <2>7
<1>3. CASE p \in DOMAIN slots
  <2>1. /\ slots' = [slots EXCEPT ![p].dismissed = TRUE]
        /\ closed' = [closed EXCEPT ![p] = slots[p].last]
    BY <1>3 DEF DismissSlot, Dismissed
  <2>2. /\ slots \in [DOMAIN slots -> Entry] /\ DOMAIN slots \subseteq Slot
        /\ closed \in [Slot -> Date \union {Unknown}]
    BY DEF TypeOK
  <2>3. slots[p] \in Entry
    BY <2>2, <1>3
  <2>4. DOMAIN slots' = DOMAIN slots /\ slots'[p] = [slots[p] EXCEPT !.dismissed = TRUE]
    BY <2>1, <2>2, <1>3
  <2>5. /\ slots'[p] \in Entry /\ slots'[p].dismissed
        /\ slots'[p].last = slots[p].last /\ slots'[p].date = slots[p].date
    BY <2>3, <2>4 DEF Entry
  <2>6. \A s \in DOMAIN slots : s # p => slots'[s] = slots[s]
    BY <2>1, <2>2
  <2>7. \A s \in Slot : LastOf(s)' = LastOf(s)
    BY <2>4, <2>5, <2>6 DEF LastOf
  <2>8. TypeOK'
    <3>1. slots' \in [DOMAIN slots' -> Entry]
      <4>1. \A s \in DOMAIN slots' : slots'[s] \in Entry
        BY <2>2, <2>4, <2>5, <2>6
      <4>2. slots' = [s \in DOMAIN slots' |-> slots'[s]]
        BY <2>1, <2>2
      <4> QED BY <4>1, <4>2
    <3>2. banners' \in SUBSET Id /\ banners' \intersect Slot = {s \in DOMAIN slots' : Shows(slots'[s])}
      <4>1. ~Shows(slots'[p])
        BY <2>5 DEF Shows
      <4> QED BY <4>1, <1>1, <2>4, <2>6 DEF TypeOK
    <3>3. closed' \in [Slot -> Date \union {Unknown}]
      <4>1. slots[p].last \in Date \union {Unknown}
        BY <2>3 DEF Entry
      <4> QED BY <4>1, <2>1, <2>2
    <3> QED BY <3>1, <3>2, <3>3, <1>1, <2>2, <2>4 DEF TypeOK
  <2>9. PlatformReplacesRaw'
    BY <1>1 DEF PlatformReplacesRaw
  <2>10. DatesInOrder'
    <3>1. \A s \in DOMAIN slots' : /\ slots'[s].date \in {Unknown, slots'[s].last}
                                   /\ slots'[s].last <= native'[s].date
      <4>1. \A s \in DOMAIN slots' : slots'[s].date = slots[s].date /\ slots'[s].last = slots[s].last
        BY <2>4, <2>5, <2>6
      <4> QED BY <4>1, <2>4, <1>1 DEF DatesInOrder
    <3> QED BY <3>1, <2>7, <1>1 DEF DatesInOrder
  <2>11. ClosedOK'
    <3> SUFFICES ASSUME NEW s \in Slot, closed'[s] # Unknown
                 PROVE  StillClosed(s)' \/ Superseded(s)'
      BY DEF ClosedOK
    <3>1. CASE s = p
      BY <3>1, <1>3, <2>1, <2>2, <2>4, <2>5 DEF StillClosed
    <3>2. CASE s # p
      <4>1. closed'[s] = closed[s] /\ (StillClosed(s) \/ Superseded(s))
        BY <3>2, <2>1, <2>2 DEF ClosedOK
      <4>2. CASE StillClosed(s)
        BY <4>1, <4>2, <3>2, <2>4, <2>6 DEF StillClosed
      <4>3. CASE Superseded(s)
        BY <4>1, <4>3, <2>7, <1>1 DEF Superseded
      <4> QED BY <4>1, <4>2, <4>3
    <3> QED BY <3>1, <3>2
  <2> QED BY <2>8, <2>9, <2>10, <2>11
<1> QED BY <1>2, <1>3

-----------------------------------------------------------------------------
\* A step, an occurrence being raised at any later date, or one that leaves all this alone.
AnyStep ==
  \/ CerboChanges \/ Repeat \/ Connect \/ Disconnect \/ Deliver \/ Poll
  \/ \E s \in Slot : DismissSlot(s)
  \/ \E n \in Notice : Notify(n)
  \/ \E i \in Raw \union Notice : DismissId(i)
  \/ UNCHANGED vars

\* The steps of Banners are among them.
LEMMA RaiseIsAnyStep == [Next]_vars => AnyStep
BY DEF Next, AnyStep, CerboChanges, Raise, RaiseAt

\* Whatever happens, the invariant holds again.
LEMMA AnyStepKeeps ==
  ASSUME IInv, AnyStep
  PROVE  IInv'
<1>1. ASSUME NEW s \in Slot, DismissSlot(s)
      PROVE  IInv'
  BY <1>1, DismissSlotKeeps
<1>2. CASE CerboChanges
  BY <1>2, CerboKeeps
<1>3. CASE Repeat
  BY <1>3, RepeatKeeps
<1>4. CASE Connect \/ Disconnect
  BY <1>4, SessionKeeps
<1>5. CASE Deliver
  <2>1. feed # <<>> /\ feed' = Tail(feed) /\ UNCHANGED <<source, cerboVars, live, dismissedIds>>
    BY <1>5 DEF Deliver
  <2>2. PlatformLeaf(Head(feed)) \/ AlarmLeaf(Head(feed))
    BY <1>5 DEF Deliver
  <2> QED BY <2>1, <2>2, PlatformLeafKeeps, AlarmLeafKeeps
<1>6. CASE Poll
  <2>1. PICK wellFormed \in BOOLEAN, heard \in SUBSET Raw,
             read \in SUBSET {s \in Slot : native[s].date # Unknown} :
          \E dated \in SUBSET read : Snapshot(wellFormed, read, dated, heard)
    BY <1>6 DEF Poll
  <2>2. PICK dated \in SUBSET read : Snapshot(wellFormed, read, dated, heard)
    BY <2>1
  <2> QED BY <2>2, SnapshotKeeps
<1>7. ASSUME NEW n \in Notice, Notify(n)
      PROVE  IInv'
  <2>1. /\ banners' = Pushed(banners, n) /\ dismissedIds' = dismissedIds
        /\ UNCHANGED <<source, cerboVars, live, feed, slots, platformSeen, alarmOn, closed>>
    BY <1>7 DEF Notify
  <2>2. /\ dismissedIds' \in SUBSET (Raw \union Notice) /\ banners' \in SUBSET Id
        /\ banners' \intersect Slot = banners \intersect Slot
        /\ banners' \intersect Raw \subseteq banners
    BY <2>1, DisjointIds DEF Pushed, IInv, TypeOK, Id
  <2> QED BY <2>1, <2>2, OthersKeep
<1>8. ASSUME NEW i \in Raw \union Notice, DismissId(i)
      PROVE  IInv'
  <2>1. /\ banners' = banners \ {i} /\ dismissedIds' = dismissedIds \union {i}
        /\ UNCHANGED <<source, cerboVars, live, feed, slots, platformSeen, alarmOn, closed>>
    BY <1>8 DEF DismissId
  <2>2. /\ dismissedIds' \in SUBSET (Raw \union Notice) /\ banners' \in SUBSET Id
        /\ banners' \intersect Slot = banners \intersect Slot
        /\ banners' \intersect Raw \subseteq banners
    BY <2>1, DisjointIds DEF IInv, TypeOK, Id
  <2> QED BY <2>1, <2>2, OthersKeep
<1>9. CASE UNCHANGED vars
  <2>1. /\ UNCHANGED <<source, cerboVars, live, feed, slots, platformSeen, alarmOn, closed>>
        /\ dismissedIds' = dismissedIds /\ banners' = banners
    BY <1>9 DEF vars, stateVars
  <2>2. /\ dismissedIds' \in SUBSET (Raw \union Notice) /\ banners' \in SUBSET Id
    BY <2>1 DEF IInv, TypeOK
  <2> QED BY <2>1, <2>2, OthersKeep
<1> QED BY <1>1, <1>2, <1>3, <1>4, <1>5, <1>6, <1>7, <1>8, <1>9 DEF AnyStep

\* Nothing is on display at first.
LEMMA Initially == Init => IInv
<1> SUFFICES ASSUME Init
             PROVE  IInv
  OBVIOUS
<1>1. TypeOK
  <2>1. native \in [Slot \union Raw -> Native]
    BY OffType DEF Init
  <2>2. DOMAIN slots = {} /\ slots \in [DOMAIN slots -> Entry]
    BY DEF Init
  <2>3. feed \in Seq(Leaf)
    BY DEF Init
  <2> QED BY <2>1, <2>2, <2>3 DEF Init, TypeOK
<1>2. PlatformReplacesRaw
  BY DEF Init, PlatformReplacesRaw
<1>3. DatesInOrder
  BY DEF Init, DatesInOrder
<1>4. ClosedOK
  BY DEF Init, ClosedOK
<1> QED BY <1>1, <1>2, <1>3, <1>4 DEF IInv

\* Every reachable state has well-formed slots whose dates are in order, and of each
\* dismissal either the slot still knows or it has been superseded.
THEOREM Invariance == Spec => []IInv
<1>1. Init => IInv
  BY Initially
<1>2. IInv /\ [Next]_vars => IInv'
  BY AnyStepKeeps, RaiseIsAnyStep
<1> QED BY <1>1, <1>2, PTL DEF Spec

\* The list always shows exactly the slots that have a title and were neither
\* acknowledged nor dismissed, and nothing of an unknown origin.
THEOREM TypeCorrect == Spec => []TypeOK
BY Invariance, PTL DEF IInv

\* A raw alarm is never shown beside the platform's notifications.
THEOREM OneOrigin == Spec => []PlatformReplacesRaw
BY Invariance, PTL DEF IInv

\* A dismissed occurrence stays away through replays, invalid dates and sessions.
THEOREM DismissalHolds == Spec => []DismissedStaysAway
<1>1. IInv => DismissedStaysAway
  <2> SUFFICES ASSUME IInv, NEW s \in Slot \intersect DOMAIN slots,
                      closed[s] # Unknown, slots[s].date = closed[s]
               PROVE  s \notin banners
    BY DEF DismissedStaysAway
  <2>1. LastOf(s) = closed[s]
    BY DEF IInv, DatesInOrder, LastOf
  <2>2. StillClosed(s)
    BY <2>1 DEF IInv, ClosedOK, Superseded
  <2> QED BY <2>2 DEF StillClosed, Shows, IInv, TypeOK
<1> QED BY <1>1, Invariance, PTL

-----------------------------------------------------------------------------
(* What is on display is what the Cerbo last told.                         *)

\* The two agree in this field.
Agree(field, n, m) ==
  /\ field = "text" => n.text = m.text
  /\ field = "acknowledged" => n.acknowledged = m.acknowledged
  /\ field = "active" => n.active = m.active

\* What a banner depends on, of the slots that have ever been used.
Watched == {t \in (Slot \X {"text", "acknowledged"}) \union (Raw \X {"active"}) :
              t[1] \in Slot => native[t[1]].date # Unknown}

Pending(t)   == \E k \in DOMAIN feed : feed[k].topic = t
Newest(k, t) == feed[k].topic = t /\ \A j \in DOMAIN feed : j > k => feed[j].topic # t
Heard(t)     == IF t[1] \in Slot
                THEN t[1] \in DOMAIN slots /\ Agree(t[2], slots[t[1]], native[t[1]])
                ELSE platformSeen \/ (t[1] \in alarmOn) = native[t[1]].active

\* In a session, and after a whole snapshot, the last word about every topic is what
\* the Cerbo holds, and has arrived unless a leaf is still under way.
InStep == live \/ upToDate =>
  \A t \in Watched :
    /\ \A k \in DOMAIN feed : Newest(k, t) => Agree(t[2], feed[k].from, native[t[1]])
    /\ Pending(t) \/ Heard(t)

\* Nobody tells of a slot that was never used; the others have a title.
Unused == \A s \in Slot :
  IF native[s].date = Unknown
  THEN /\ ~native[s].active /\ s \notin DOMAIN slots
       /\ \A k \in DOMAIN feed : feed[k].topic[1] # s
  ELSE native[s].text # Unknown

\* A dismissed slot is dismissed for the last date it was given.
DismissalsOK == \A s \in DOMAIN slots : slots[s].dismissed => closed[s] = slots[s].last

ShownOK ==
  /\ banners \intersect Raw \subseteq alarmOn
  /\ source = "mqtt" /\ ~live => banners \subseteq Notice
  /\ upToDate => source = "igw"

ShowInv == InStep /\ Unused /\ DismissalsOK /\ ShownOK

\* A leaf agrees with what it was made of.
LEMMA LeafAgrees ==
  ASSUME NEW t \in Topic, NEW n \in Native
  PROVE  LeafOf(t, n).topic = t /\ Agree(t[2], LeafOf(t, n).from, n)
BY DEF Topic, Fields, LeafOf, Part, Off, Native, Agree

LEMMA LeavesAgree ==
  ASSUME NEW told \in Tellings, NEW from \in [Slot \union Raw -> Native]
  PROVE  /\ DOMAIN Leaves(told, from) = DOMAIN told
         /\ \A k \in DOMAIN told : /\ told[k] \in Topic
                                   /\ Leaves(told, from)[k].topic = told[k]
                                   /\ Agree(told[k][2], Leaves(told, from)[k].from, from[told[k][1]])
<1>1. told \in Seq(Topic)
  BY TellingAssumption
<1>2. ASSUME NEW k \in DOMAIN told
      PROVE  /\ told[k] \in Topic
             /\ Leaves(told, from)[k].topic = told[k]
             /\ Agree(told[k][2], Leaves(told, from)[k].from, from[told[k][1]])
  <2>1. told[k] \in Topic
    BY <1>1
  <2>2. told[k][1] \in Slot \union Raw
    BY <2>1 DEF Topic
  <2>3. from[told[k][1]] \in Native
    BY <2>2
  <2>4. Leaves(told, from)[k] = LeafOf(told[k], from[told[k][1]])
    BY DEF Leaves
  <2> QED BY <2>1, <2>3, <2>4, LeafAgrees
<1> QED BY <1>2 DEF Leaves

\* More leaves, each with the Cerbo's word, and one for every topic that changed.
LEMMA MoreIsInStep ==
  ASSUME InStep, feed' \in Seq(Leaf), feed \in Seq(Leaf), DOMAIN feed \subseteq DOMAIN feed',
         \A k \in DOMAIN feed : feed'[k] = feed[k],
         \A k \in DOMAIN feed' \ DOMAIN feed :
           Agree(feed'[k].topic[2], feed'[k].from, native'[feed'[k].topic[1]]),
         \A t \in Watched' :
           \/ \E k \in DOMAIN feed' \ DOMAIN feed : feed'[k].topic = t
           \/ t \in Watched /\ Agree(t[2], native'[t[1]], native[t[1]]),
         live, UNCHANGED stateVars
  PROVE  InStep'
<1> SUFFICES ASSUME NEW t \in Watched'
             PROVE  /\ \A k \in DOMAIN feed' :
                         Newest(k, t)' => Agree(t[2], feed'[k].from, native'[t[1]])
                    /\ Pending(t)' \/ Heard(t)'
  BY DEF InStep, Agree
<1>1. DOMAIN feed = 1 .. Len(feed) /\ DOMAIN feed' = 1 .. Len(feed')
  OBVIOUS
<1>2. \A k \in DOMAIN feed, j \in DOMAIN feed' \ DOMAIN feed : j > k
  BY <1>1
<1>3. CASE \E k \in DOMAIN feed' \ DOMAIN feed : feed'[k].topic = t
  <2>1. Pending(t)'
    BY <1>3 DEF Pending
  <2>2. ASSUME NEW k \in DOMAIN feed', Newest(k, t)'
        PROVE  Agree(t[2], feed'[k].from, native'[t[1]])
    <3>1. k \notin DOMAIN feed
      BY <2>2, <1>2, <1>3 DEF Newest
    <3> QED BY <3>1, <2>2 DEF Newest
  <2> QED BY <2>1, <2>2
<1>4. CASE t \in Watched /\ Agree(t[2], native'[t[1]], native[t[1]]) /\ ~Pending(t)'
  <2>1. ~Pending(t)
    BY <1>4 DEF Pending
  <2>2. Heard(t)
    BY <1>4, <2>1 DEF InStep
  <2>3. t[1] \notin Slot => t[2] = "active"
    BY <1>4 DEF Watched
  <2>4. Heard(t)'
    BY <1>4, <2>2, <2>3 DEF Heard, Agree, stateVars
  <2>5. \A k \in DOMAIN feed' : ~Newest(k, t)'
    BY <1>4 DEF Newest, Pending
  <2> QED BY <2>4, <2>5
<1>5. CASE /\ t \in Watched /\ Agree(t[2], native'[t[1]], native[t[1]])
           /\ ~\E k \in DOMAIN feed' \ DOMAIN feed : feed'[k].topic = t
           /\ Pending(t)'
  <2>1. ASSUME NEW k \in DOMAIN feed', Newest(k, t)'
        PROVE  Agree(t[2], feed'[k].from, native'[t[1]])
    <3>1. k \in DOMAIN feed /\ Newest(k, t)
      BY <2>1, <1>5 DEF Newest
    <3>2. Agree(t[2], feed[k].from, native[t[1]])
      BY <3>1, <1>5 DEF InStep
    <3> QED BY <3>1, <3>2, <1>5 DEF Agree
  <2> QED BY <2>1, <1>5
<1> QED BY <1>3, <1>4, <1>5

\* A change of a slot or an alarm: every field that changed is told.
LEMMA BecomesShows ==
  ASSUME IInv, ShowInv, NEW i \in Slot \union Raw, NEW new \in Native,
         NEW fields \in SUBSET Fields, Becomes(i, new, fields),
         \A field \in Fields \ fields : Agree(field, new, native[i]),
         i \in Slot => /\ new.date # Unknown /\ new.text # Unknown
                       /\ native[i].date # Unknown \/ fields = Fields
  PROVE  ShowInv'
<1> USE DEF ShowInv
<1>1. /\ native' = [native EXCEPT ![i] = new]
      /\ source' = source /\ live' = live /\ closed' = closed /\ upToDate' = FALSE
      /\ UNCHANGED stateVars
  BY DEF Becomes
<1>2. native \in [Slot \union Raw -> Native] /\ native' \in [Slot \union Raw -> Native]
  BY <1>1 DEF IInv, TypeOK
<1>3. native'[i] = new /\ \A j \in (Slot \union Raw) \ {i} : native'[j] = native[j]
  BY <1>1, <1>2
<1>4. feed \in Seq(Leaf)
  BY Values
<1>5. CASE ~live
  <2>1. feed' = feed
    BY <1>5 DEF Becomes
  <2>2. InStep'
    BY <1>1, <1>5 DEF InStep
  <2>3. feed = <<>>
    BY <1>5 DEF IInv, DatesInOrder
  <2>4. Unused'
    BY <1>1, <1>3, <2>1, <2>3 DEF Unused, stateVars
  <2>5. DismissalsOK' /\ ShownOK'
    BY <1>1 DEF DismissalsOK, ShownOK, stateVars
  <2> QED BY <2>2, <2>4, <2>5
<1>6. CASE live
  <2>1. PICK told \in Tells({i} \X fields) : feed' = feed \o Leaves(told, native')
    BY <1>6 DEF Becomes
  <2>2. told \in Tellings /\ ToldBy(told) = ({i} \X fields) \intersect Published
    BY DEF Tells
  <2> DEFINE new_ == Leaves(told, native')
  <2>3. /\ new_ \in Seq(Leaf) /\ DOMAIN new_ = DOMAIN told
        /\ \A k \in DOMAIN told : /\ told[k] \in Topic
                                  /\ new_[k].topic = told[k]
                                  /\ Agree(told[k][2], new_[k].from, native'[told[k][1]])
    BY <2>2, <1>2, LeavesType, LeavesAgree
  <2>4. feed' = feed \o new_
    BY <2>1
  <2> HIDE DEF new_
  <2>5. /\ feed' \in Seq(Leaf)
        /\ DOMAIN feed' = 1 .. Len(feed) + Len(new_) /\ DOMAIN feed = 1 .. Len(feed)
        /\ Len(feed) \in Nat /\ Len(new_) \in Nat
        /\ \A k \in 1 .. Len(feed) : feed'[k] = feed[k]
        /\ \A k \in Len(feed) + 1 .. Len(feed) + Len(new_) :
             k - Len(feed) \in DOMAIN new_ /\ feed'[k] = new_[k - Len(feed)]
    BY <2>3, <2>4, <1>4
  <2>6. \A k \in DOMAIN told : told[k] \in {i} \X fields
    BY <2>2 DEF ToldBy
  <2>7. ASSUME NEW k \in DOMAIN feed' \ DOMAIN feed
        PROVE  /\ Agree(feed'[k].topic[2], feed'[k].from, native'[feed'[k].topic[1]])
               /\ feed'[k].topic[1] = i
    <3>1. k - Len(feed) \in DOMAIN told /\ feed'[k] = new_[k - Len(feed)]
      BY <2>3, <2>5
    <3> QED BY <3>1, <2>3, <2>6
  <2>8. ASSUME NEW t \in Watched'
        PROVE  \/ \E k \in DOMAIN feed' \ DOMAIN feed : feed'[k].topic = t
               \/ t \in Watched /\ Agree(t[2], native'[t[1]], native[t[1]])
    <3>1. /\ t \in (Slot \X {"text", "acknowledged"}) \union (Raw \X {"active"})
          /\ t[1] \in Slot => native'[t[1]].date # Unknown
          /\ t[1] \in Slot \union Raw /\ t[2] \in Fields /\ t = <<t[1], t[2]>>
      BY DEF Watched, Fields
    <3>2. t \in Published
      BY <3>1, PublishAssumption
    <3>3. CASE t[1] = i /\ t[2] \in fields
      <4>1. t \in ({i} \X fields) \intersect Published
        BY <3>1, <3>2, <3>3
      <4>2. PICK k \in DOMAIN told : told[k] = t
        BY <4>1, <2>2 DEF ToldBy
      <4>3. k \in 1 .. Len(new_) /\ new_[k].topic = t
        BY <4>2, <2>3
      <4>4. PICK m \in Len(feed) + 1 .. Len(feed) + Len(new_) : m - Len(feed) = k
        <5>1. k \in Nat /\ 1 <= k /\ k <= Len(new_) /\ Len(feed) \in Nat /\ Len(new_) \in Nat
          BY <4>3, <2>5
        <5>2. /\ k + Len(feed) \in Len(feed) + 1 .. Len(feed) + Len(new_)
              /\ (k + Len(feed)) - Len(feed) = k
          BY <5>1
        <5> QED BY <5>2
      <4>5. m \in DOMAIN feed' \ DOMAIN feed
        BY <2>5
      <4>6. feed'[m] = new_[k]
        BY <4>4, <2>5
      <4> QED BY <4>3, <4>5, <4>6
    <3>4. CASE t[1] = i /\ t[2] \notin fields
      <4>1. t \in Watched
        BY <3>1, <3>4 DEF Watched
      <4>2. Agree(t[2], native'[t[1]], native[t[1]])
        BY <3>1, <3>4, <1>3
      <4> QED BY <4>1, <4>2
    <3>5. CASE t[1] # i
      <4>1. native'[t[1]] = native[t[1]]
        BY <3>1, <3>5, <1>3
      <4>2. t \in Watched
        BY <3>1, <4>1 DEF Watched
      <4> QED BY <4>1, <4>2 DEF Agree
    <3> QED BY <3>3, <3>4, <3>5
  <2>9. InStep'
    <3>1. \A k \in DOMAIN feed' \ DOMAIN feed :
            Agree(feed'[k].topic[2], feed'[k].from, native'[feed'[k].topic[1]])
      BY <2>7
    <3>2. \A t \in Watched' :
            \/ \E k \in DOMAIN feed' \ DOMAIN feed : feed'[k].topic = t
            \/ t \in Watched /\ Agree(t[2], native'[t[1]], native[t[1]])
      BY <2>8
    <3>3. DOMAIN feed \subseteq DOMAIN feed' /\ \A k \in DOMAIN feed : feed'[k] = feed[k]
      BY <2>5
    <3> QED BY <3>1, <3>2, <3>3, <2>5, <1>1, <1>4, <1>6, MoreIsInStep
  <2>10. Unused'
    <3> SUFFICES ASSUME NEW s \in Slot
                 PROVE  IF native'[s].date = Unknown
                        THEN /\ ~native'[s].active /\ s \notin DOMAIN slots'
                             /\ \A k \in DOMAIN feed' : feed'[k].topic[1] # s
                        ELSE native'[s].text # Unknown
      BY DEF Unused
    <3>1. CASE s = i
      BY <3>1, <1>3
    <3>2. CASE s # i
      <4>1. native'[s] = native[s] /\ slots' = slots
        BY <3>2, <1>1, <1>3 DEF stateVars
      <4>2. ASSUME native[s].date = Unknown
            PROVE  \A k \in DOMAIN feed' : feed'[k].topic[1] # s
        BY <4>2, <3>2, <2>5, <2>7 DEF Unused
      <4> QED BY <4>1, <4>2 DEF Unused
    <3> QED BY <3>1, <3>2
  <2>11. DismissalsOK' /\ ShownOK'
    BY <1>1 DEF DismissalsOK, ShownOK, stateVars
  <2> QED BY <2>9, <2>10, <2>11
<1> QED BY <1>5, <1>6

LEMMA CerboShows ==
  ASSUME IInv, ShowInv, CerboChanges
  PROVE  ShowInv'
<1> USE DEF ShowInv
<1>1. ASSUME NEW s \in Slot, NEW d \in Date, RaiseAt(s, d)
      PROVE  ShowInv'
  <2>1. PICK t \in Title :
          Becomes(s, [text |-> t, date |-> d, active |-> TRUE, acknowledged |-> FALSE], Fields)
    BY <1>1 DEF RaiseAt
  <2> DEFINE new_ == [text |-> t, date |-> d, active |-> TRUE, acknowledged |-> FALSE]
  <2>2. new_ \in Native
    BY DEF Native
  <2>3. new_.date # Unknown /\ new_.text # Unknown
    <3>1. t # Unknown
      BY TitleAssumption
    <3>2. d # Unknown
      BY BoundAssumption DEF Date, Unknown
    <3> QED BY <3>1, <3>2
  <2>4. Becomes(s, new_, Fields) /\ s \in Slot \union Raw
    BY <2>1
  <2> HIDE DEF new_
  <2>5. \A field \in Fields \ Fields : Agree(field, new_, native[s])
    OBVIOUS
  <2> QED BY <2>2, <2>3, <2>4, <2>5, BecomesShows
<1>2. ASSUME NEW s \in Slot, Subside(s)
      PROVE  ShowInv'
  <2> DEFINE new_ == [native[s] EXCEPT !.active = FALSE]
  <2>1. native[s] \in Native
    BY Values
  <2>2. native[s].date # Unknown /\ native[s].text # Unknown
    BY <1>2 DEF Subside, Unused
  <2>3. new_ \in Native /\ new_.date = native[s].date /\ new_.text = native[s].text
        /\ new_.acknowledged = native[s].acknowledged
    BY <2>1 DEF Native
  <2>4. {"active"} \in SUBSET Fields
    BY DEF Fields
  <2>5. Becomes(s, new_, {"active"}) /\ s \in Slot \union Raw
    BY <1>2 DEF Subside
  <2> HIDE DEF new_
  <2>6. \A field \in Fields \ {"active"} : Agree(field, new_, native[s])
    BY <2>3 DEF Agree
  <2> QED BY <2>2, <2>3, <2>4, <2>5, <2>6, BecomesShows
<1>3. ASSUME NEW s \in Slot, Acknowledge(s)
      PROVE  ShowInv'
  <2> DEFINE new_ == [native[s] EXCEPT !.acknowledged = TRUE]
  <2>1. native[s] \in Native
    BY Values
  <2>2. native[s].date # Unknown /\ native[s].text # Unknown
    BY <1>3 DEF Acknowledge, Unused
  <2>3. new_ \in Native /\ new_.date = native[s].date /\ new_.text = native[s].text
        /\ new_.active = native[s].active
    BY <2>1 DEF Native
  <2>4. {"acknowledged"} \in SUBSET Fields
    BY DEF Fields
  <2>5. Becomes(s, new_, {"acknowledged"}) /\ s \in Slot \union Raw
    BY <1>3 DEF Acknowledge
  <2> HIDE DEF new_
  <2>6. \A field \in Fields \ {"acknowledged"} : Agree(field, new_, native[s])
    BY <2>3 DEF Agree
  <2> QED BY <2>2, <2>3, <2>4, <2>5, <2>6, BecomesShows
<1>4. ASSUME NEW a \in Raw, Alarm(a)
      PROVE  ShowInv'
  <2> DEFINE new_ == [native[a] EXCEPT !.active = ~@]
  <2>1. native[a] \in Native
    BY DEF IInv, TypeOK
  <2>2. new_ \in Native /\ new_.text = native[a].text
        /\ new_.acknowledged = native[a].acknowledged
    BY <2>1 DEF Native
  <2>3. {"active"} \in SUBSET Fields
    BY DEF Fields
  <2>4. Becomes(a, new_, {"active"}) /\ a \in Slot \union Raw /\ a \notin Slot
    BY <1>4, DisjointIds DEF Alarm
  <2> HIDE DEF new_
  <2>5. \A field \in Fields \ {"active"} : Agree(field, new_, native[a])
    BY <2>2 DEF Agree
  <2> QED BY <2>2, <2>3, <2>4, <2>5, BecomesShows
<1> QED BY <1>1, <1>2, <1>3, <1>4 DEF CerboChanges

\* A leaf that comes again tells what the Cerbo still holds.
LEMMA RepeatShows ==
  ASSUME IInv, ShowInv, Repeat
  PROVE  ShowInv'
<1> USE DEF ShowInv
<1>1. PICK t \in Published :
        /\ t[1] \in Slot => native[t[1]].date # Unknown
        /\ \E from \in {native[t[1]], [native[t[1]] EXCEPT !.date = Unknown]} :
             feed' = Append(feed, LeafOf(t, from))
  BY Zenon DEF Repeat
<1>2. PICK from \in {native[t[1]], [native[t[1]] EXCEPT !.date = Unknown]} :
        feed' = Append(feed, LeafOf(t, from))
  BY <1>1
<1>3. t \in Topic
  <2>1. PICK told \in Tellings : t \in ToldBy(told)
    BY DEF Published
  <2> QED BY <2>1, TellingAssumption DEF ToldBy
<1>4. t[1] \in Slot \union Raw /\ t[2] \in Fields
  BY <1>3 DEF Topic, Fields
<1>5. native[t[1]] \in Native
  BY <1>4 DEF IInv, TypeOK
<1>6. from \in Native /\ Agree(t[2], from, native[t[1]])
  BY <1>2, <1>5 DEF Native, Agree
<1> DEFINE leaf == LeafOf(t, from)
<1>7. leaf.topic = t /\ Agree(t[2], leaf.from, native[t[1]])
  BY <1>3, <1>6, LeafAgrees DEF Agree
<1>8. leaf \in Leaf
  BY <1>3, <1>4, <1>6, PartType DEF LeafOf, Leaf
<1> HIDE DEF leaf
<1>9. feed' = Append(feed, leaf)
  BY <1>2 DEF leaf
<1>10. /\ live /\ live' = live /\ source' = source /\ UNCHANGED stateVars /\ closed' = closed
       /\ native' = native /\ upToDate' = upToDate
  BY DEF Repeat, cerboVars
<1>11. feed \in Seq(Leaf)
  BY Values
<1>12. /\ feed' \in Seq(Leaf) /\ DOMAIN feed \subseteq DOMAIN feed'
       /\ \A k \in DOMAIN feed : feed'[k] = feed[k]
       /\ \A k \in DOMAIN feed' \ DOMAIN feed : feed'[k] = leaf
  BY <1>8, <1>9, <1>11
<1>13. InStep'
  <2>1. \A k \in DOMAIN feed' \ DOMAIN feed :
          Agree(feed'[k].topic[2], feed'[k].from, native'[feed'[k].topic[1]])
    BY <1>7, <1>10, <1>12
  <2>2. \A w \in Watched' : w \in Watched /\ Agree(w[2], native'[w[1]], native[w[1]])
    BY <1>10 DEF Watched, Agree
  <2> QED BY <2>1, <2>2, <1>10, <1>11, <1>12, MoreIsInStep
<1>14. Unused'
  <2>1. \A k \in DOMAIN feed' : k \in DOMAIN feed \/ feed'[k].topic = t
    BY <1>7, <1>12
  <2> QED BY <2>1, <1>1, <1>10, <1>12 DEF Unused, stateVars
<1>15. DismissalsOK' /\ ShownOK'
  BY <1>10 DEF DismissalsOK, ShownOK, stateVars
<1> QED BY <1>13, <1>14, <1>15

\* A session begins with the whole of it, and ends with nothing on display.
LEMMA SessionShows ==
  ASSUME IInv, ShowInv, Connect \/ Disconnect
  PROVE  ShowInv'
<1> USE DEF ShowInv
<1>1. /\ source = "mqtt" /\ source' = source /\ native' = native /\ closed' = closed
      /\ upToDate' = upToDate /\ ClearNative
  BY DEF Connect, Disconnect, cerboVars, IInv, TypeOK
<1>2. slots' = Cleared(slots)
  BY <1>1 DEF ClearNative
<1>3. DOMAIN slots' \subseteq DOMAIN slots /\ DismissalsOK'
  <2>1. DOMAIN slots' = {s \in DOMAIN slots : slots[s].dismissed}
    BY <1>2, Zenon DEF Cleared
  <2>2. ASSUME NEW s \in DOMAIN slots'
        PROVE  closed'[s] = slots'[s].last
    <3>1. s \in DOMAIN slots /\ slots[s].dismissed
      BY <2>1
    <3>2. slots'[s] = [Blank EXCEPT !.dismissed = TRUE, !.last = slots[s].last]
      BY <1>2, <2>1, Zenon DEF Cleared
    <3>3. slots'[s].last = slots[s].last
      BY <3>2 DEF Blank
    <3> QED BY <3>1, <3>3, <1>1 DEF DismissalsOK
  <2> QED BY <2>1, <2>2 DEF DismissalsOK
<1>4. banners' \intersect Raw = {} /\ banners' \subseteq Notice
  BY <1>1 DEF ClearNative, NoticesOf, IInv, TypeOK, Id
<1>5. ShownOK'
  BY <1>1, <1>4 DEF ShownOK
<1>6. ~upToDate
  BY <1>1 DEF ShownOK
<1>7. CASE Connect
  <2> DEFINE whole == {t \in Topic : t[1] \in Slot => native[t[1]].date # Unknown}
  <2>1. PICK told \in Tells(whole) : feed' = Leaves(told, native)
    BY <1>7 DEF Connect
  <2>2. told \in Tellings /\ ToldBy(told) = whole \intersect Published
    BY DEF Tells
  <2>3. native \in [Slot \union Raw -> Native]
    BY DEF IInv, TypeOK
  <2> DEFINE new_ == Leaves(told, native)
  <2>4. /\ DOMAIN new_ = DOMAIN told
        /\ \A k \in DOMAIN told : /\ told[k] \in Topic
                                  /\ new_[k].topic = told[k]
                                  /\ Agree(told[k][2], new_[k].from, native[told[k][1]])
    BY <2>2, <2>3, LeavesAgree
  <2>5. feed' = new_
    BY <2>1
  <2> HIDE DEF new_
  <2>6. InStep'
    <3> SUFFICES ASSUME NEW t \in Watched
                 PROVE  /\ \A k \in DOMAIN feed' :
                             Newest(k, t)' => Agree(t[2], feed'[k].from, native[t[1]])
                        /\ Pending(t)'
      <4>1. Watched' = Watched
        BY <1>1 DEF Watched
      <4> QED BY <4>1, <1>1 DEF InStep, Agree
    <3>1. \A k \in DOMAIN feed' : Newest(k, t)' => Agree(t[2], feed'[k].from, native[t[1]])
      BY <2>4, <2>5 DEF Newest
    <3>2. t \in Published
      BY PublishAssumption DEF Watched
    <3>3. t \in Topic
      BY DEF Watched, Topic, Fields
    <3>4. t \in whole
      BY <3>3 DEF Watched
    <3>5. PICK k \in DOMAIN told : told[k] = t
      BY <3>2, <3>4, <2>2 DEF ToldBy
    <3> QED BY <3>1, <3>5, <2>4, <2>5 DEF Pending
  <2>7. Unused'
    <3> SUFFICES ASSUME NEW s \in Slot, native[s].date = Unknown
                 PROVE  /\ s \notin DOMAIN slots'
                        /\ \A k \in DOMAIN feed' : feed'[k].topic[1] # s
      BY <1>1 DEF Unused
    <3>1. s \notin DOMAIN slots'
      BY <1>3 DEF Unused
    <3>2. \A k \in DOMAIN told : told[k] \in whole
      BY <2>2 DEF ToldBy
    <3> QED BY <3>1, <3>2, <2>4, <2>5
  <2> QED BY <1>3, <1>5, <2>6, <2>7
<1>8. CASE Disconnect
  <2>1. live' = FALSE /\ feed' = <<>>
    BY <1>8 DEF Disconnect
  <2>2. InStep'
    BY <1>1, <1>6, <2>1 DEF InStep
  <2>3. Unused'
    BY <1>1, <1>3, <2>1 DEF Unused
  <2> QED BY <1>3, <1>5, <2>2, <2>3
<1> QED BY <1>7, <1>8

\* The last word about a topic that is not told again has arrived with its delivery.
LEMMA DeliverInStep ==
  ASSUME IInv, ShowInv, feed # <<>>, feed' = Tail(feed), native' = native, live' = live,
         upToDate' = upToDate, NEW leaf, leaf = Head(feed),
         \A t \in Watched : /\ Heard(t) /\ t # leaf.topic => Heard(t)'
                            /\ t = leaf.topic /\ Agree(t[2], leaf.from, native[t[1]]) => Heard(t)'
  PROVE  InStep'
<1>1. /\ 1 \in DOMAIN feed /\ leaf = feed[1]
      /\ DOMAIN feed' = 1 .. Len(feed) - 1 /\ DOMAIN feed = 1 .. Len(feed) /\ Len(feed) \in Nat
      /\ \A k \in DOMAIN feed' : feed'[k] = feed[k + 1]
  <2>1. feed \in Seq(Leaf)
    BY Values
  <2> QED BY <2>1
<1>2. \A k \in DOMAIN feed' : k \in Nat /\ k + 1 \in DOMAIN feed
  BY <1>1
<1> SUFFICES ASSUME live \/ upToDate, NEW t \in Watched
             PROVE  /\ \A k \in DOMAIN feed' :
                         Newest(k, t)' => Agree(t[2], feed'[k].from, native[t[1]])
                    /\ Pending(t)' \/ Heard(t)'
  <2>1. Watched' = Watched
    BY DEF Watched
  <2> QED BY <2>1 DEF InStep, Agree
<1>3. ASSUME NEW j \in DOMAIN feed, feed[j].topic = t, ~Pending(t)'
      PROVE  j = 1
  <2>1. CASE j > 1
    <3>1. PICK m \in DOMAIN feed' : m + 1 = j
      <4>1. j - 1 \in DOMAIN feed' /\ (j - 1) + 1 = j
        BY <2>1, <1>1
      <4> QED BY <4>1
    <3>2. feed'[m] = feed[j]
      BY <3>1, <1>1
    <3> QED BY <3>2, <1>3 DEF Pending
  <2> QED BY <2>1, <1>1
<1>4. ASSUME NEW k \in DOMAIN feed', Newest(k, t)'
      PROVE  Agree(t[2], feed'[k].from, native[t[1]])
  <2>1. PICK l \in DOMAIN feed : l = k + 1 /\ feed'[k] = feed[l]
    BY <1>1, <1>2
  <2>2. ASSUME NEW j \in DOMAIN feed, j > l
        PROVE  feed[j].topic # t
    <3>1. PICK m \in DOMAIN feed' : m + 1 = j
      <4>1. j - 1 \in DOMAIN feed' /\ (j - 1) + 1 = j
        BY <2>1, <2>2, <1>1
      <4> QED BY <4>1
    <3>2. feed'[m] = feed[j] /\ m > k
      BY <3>1, <2>1, <2>2, <1>1, <1>2
    <3> QED BY <3>2, <1>4 DEF Newest
  <2>3. Newest(l, t)
    BY <2>1, <2>2, <1>4 DEF Newest
  <2> QED BY <2>1, <2>3 DEF ShowInv, InStep
<1>5. ASSUME ~Pending(t)'
      PROVE  Heard(t)'
  <2>1. CASE Pending(t)
    <3>1. PICK k \in DOMAIN feed : feed[k].topic = t
      BY <2>1 DEF Pending
    <3>2. k = 1 /\ t = leaf.topic
      BY <3>1, <1>1, <1>3, <1>5
    <3>3. Newest(1, t)
      BY <3>1, <3>2, <1>1, <1>3, <1>5 DEF Newest
    <3>4. Agree(t[2], feed[1].from, native[t[1]])
      BY <3>3, <1>1 DEF ShowInv, InStep
    <3> QED BY <3>2, <3>4, <1>1
  <2>2. CASE ~Pending(t)
    <3>1. Heard(t)
      BY <2>2 DEF ShowInv, InStep
    <3>2. t # leaf.topic
      BY <2>2, <1>1 DEF Pending
    <3> QED BY <3>1, <3>2
  <2> QED BY <2>1, <2>2
<1> QED BY <1>4, <1>5

LEMMA AlarmLeafShows ==
  ASSUME IInv, ShowInv, feed # <<>>, feed' = Tail(feed), AlarmLeaf(Head(feed)),
         UNCHANGED <<source, cerboVars, live, dismissedIds>>
  PROVE  ShowInv'
<1>1. PICK leaf \in Leaf : leaf = Head(feed)
  BY RestOfFeed, Values
<1>2. PICK a \in Raw : a = leaf.topic[1]
  BY <1>1 DEF AlarmLeaf
<1>3. /\ UNCHANGED <<slots, platformSeen, closed>> /\ native' = native /\ upToDate' = upToDate
      /\ source' = source /\ live' = live
      /\ IF platformSeen \/ (a \in alarmOn) = leaf.from.active
         THEN UNCHANGED <<alarmOn, banners>>
         ELSE IF leaf.from.active
              THEN alarmOn' = alarmOn \union {a} /\ banners' = Pushed(banners, a)
              ELSE alarmOn' = alarmOn \ {a} /\ banners' = banners \ {a}
  BY <1>1, <1>2 DEF AlarmLeaf, cerboVars
<1>4. leaf.topic = <<a, "active">>
  BY <1>1, <1>2, DisjointIds DEF Leaf, Topic
<1>5. leaf.from.active \in BOOLEAN
  BY DEF Leaf, Native
<1>6. live
  BY DEF IInv, DatesInOrder
<1>7. InStep'
  <2> SUFFICES ASSUME NEW t \in Watched
               PROVE  /\ Heard(t) /\ t # leaf.topic => Heard(t)'
                      /\ t = leaf.topic /\ Agree(t[2], leaf.from, native[t[1]]) => Heard(t)'
    BY <1>1, <1>3, DeliverInStep
  <2>1. t \in (Slot \X {"text", "acknowledged"}) \union (Raw \X {"active"})
    BY DEF Watched
  <2>2. CASE t[1] \in Slot
    BY <2>2, <1>3, <1>4, DisjointIds DEF Heard
  <2>3. CASE t[1] \notin Slot /\ platformSeen
    BY <2>3, <1>3 DEF Heard
  <2>4. CASE t[1] \notin Slot /\ ~platformSeen /\ t[1] # a
    <3>1. (t[1] \in alarmOn') = (t[1] \in alarmOn)
      BY <2>4, <1>3
    <3> QED BY <3>1, <2>4, <1>3, <1>4 DEF Heard
  <2>5. CASE t[1] \notin Slot /\ ~platformSeen /\ t[1] = a
    <3>1. t = leaf.topic /\ t[2] = "active"
      BY <2>1, <2>5, <1>4
    <3>2. (a \in alarmOn') = leaf.from.active
      BY <2>5, <1>3, <1>5
    <3> QED BY <3>1, <3>2, <2>5, <1>3 DEF Heard, Agree
  <2> QED BY <2>2, <2>3, <2>4, <2>5
<1>8. Unused'
  <2>1. \A k \in DOMAIN feed' : k + 1 \in DOMAIN feed /\ feed'[k] = feed[k + 1]
    BY RestOfFeed
  <2> QED BY <2>1, <1>3 DEF Unused, ShowInv
<1>9. DismissalsOK'
  BY <1>3 DEF DismissalsOK, ShowInv
<1>10. ShownOK'
  <2>1. banners' \intersect Raw \subseteq alarmOn'
    BY <1>3 DEF ShownOK, ShowInv, Pushed
  <2> QED BY <2>1, <1>3, <1>6 DEF ShownOK, ShowInv
<1> QED BY <1>7, <1>8, <1>9, <1>10 DEF ShowInv

\* What a leaf does to the fields a banner depends on, and to a dismissal.
LEMMA ApplyShows ==
  ASSUME NEW e \in Entry, NEW field \in Fields, NEW n \in Native
  PROVE  /\ field # "text" => ApplyField(e, field, n).text = e.text
         /\ field # "acknowledged" => ApplyField(e, field, n).acknowledged = e.acknowledged
         /\ field \in {"text", "acknowledged"} => Agree(field, ApplyField(e, field, n), n)
         /\ ApplyField(e, field, n).dismissed =>
              /\ e.dismissed /\ ApplyField(e, field, n).last = e.last
              /\ ~(e.active = "on" /\ ApplyField(e, field, n).active = "off")
<1>1. CASE field = "text"
  BY <1>1 DEF ApplyField, Entry, Native, Agree
<1>2. CASE field = "type"
  BY <1>2 DEF ApplyField, Entry, Native
<1>3. CASE field = "date"
  BY <1>3 DEF ApplyField, Dated, OtherOccurrence, Entry, Native
<1>4. CASE field = "active"
  BY <1>4 DEF ApplyField, Entry, Native
<1>5. CASE field = "acknowledged"
  BY <1>5 DEF ApplyField, Entry, Native, Agree
<1> QED BY <1>1, <1>2, <1>3, <1>4, <1>5 DEF Fields

LEMMA PlatformLeafShows ==
  ASSUME IInv, ShowInv, feed # <<>>, feed' = Tail(feed), PlatformLeaf(Head(feed)),
         UNCHANGED <<source, cerboVars, live, dismissedIds>>
  PROVE  ShowInv'
<1>1. PICK leaf \in Leaf : leaf = Head(feed) /\ leaf = feed[1] /\ 1 \in DOMAIN feed
  BY RestOfFeed, Values
<1>2. PICK p \in Slot : p = leaf.topic[1]
  BY <1>1 DEF PlatformLeaf
<1>3. leaf.topic \in Topic /\ leaf.from \in Native
  BY DEF Leaf
<1> DEFINE field == leaf.topic[2]
           e     == EntryOf(p)
           e2    == ApplyField(e, field, leaf.from)
<1>4. field \in Fields /\ leaf.topic = <<p, field>>
  BY <1>2, <1>3, DisjointIds DEF Topic
<1>5. /\ slots' = [t \in DOMAIN slots \union {p} |-> IF t = p THEN e2 ELSE slots[t]]
      /\ platformSeen' = TRUE /\ banners' = WithPlatform(banners, slots')
      /\ closed' = [closed EXCEPT ![p] = IF p \in DOMAIN slots THEN Reopened(p, slots') ELSE @]
      /\ alarmOn' = alarmOn
  BY <1>1, <1>2 DEF PlatformLeaf
<1>6. /\ native' = native /\ upToDate' = upToDate /\ source' = source /\ live' = live /\ live
  BY DEF cerboVars, IInv, DatesInOrder
<1>7. e \in Entry /\ (p \in DOMAIN slots => e = slots[p]) /\ (p \notin DOMAIN slots => ~e.dismissed)
  BY OffType, Values DEF EntryOf, Blank
<1> HIDE DEF field, e
<1>8. /\ field # "text" => e2.text = e.text
      /\ field # "acknowledged" => e2.acknowledged = e.acknowledged
      /\ field \in {"text", "acknowledged"} => Agree(field, e2, leaf.from)
      /\ e2.dismissed => /\ e.dismissed /\ e2.last = e.last
                         /\ ~(e.active = "on" /\ e2.active = "off")
  BY <1>3, <1>4, <1>7, ApplyShows, Zenon
<1> HIDE DEF e2
<1>9. /\ DOMAIN slots' = DOMAIN slots \union {p} /\ slots'[p] = e2
      /\ \A s \in DOMAIN slots \ {p} : slots'[s] = slots[s]
  BY <1>5
<1>10. InStep'
  <2> SUFFICES ASSUME NEW t \in Watched
               PROVE  /\ Heard(t) /\ t # leaf.topic => Heard(t)'
                      /\ t = leaf.topic /\ Agree(t[2], leaf.from, native[t[1]]) => Heard(t)'
    BY <1>1, <1>6, DeliverInStep
  <2>1. t \in (Slot \X {"text", "acknowledged"}) \union (Raw \X {"active"}) /\ t = <<t[1], t[2]>>
    BY DEF Watched
  <2>2. CASE t[1] \notin Slot
    BY <2>2, <1>4, <1>5 DEF Heard
  <2>3. CASE t[1] \in Slot /\ t[1] # p
    <3>1. t # leaf.topic
      BY <2>3, <1>4
    <3>2. t[1] \in DOMAIN slots => slots'[t[1]] = slots[t[1]] /\ t[1] \in DOMAIN slots'
      BY <2>3, <1>9
    <3> QED BY <3>1, <3>2, <2>3, <1>6 DEF Heard, Agree
  <2>4. CASE t[1] = p /\ t # leaf.topic
    <3>1. t[2] # field /\ t[2] \in {"text", "acknowledged"}
      BY <2>1, <2>4, <1>4, DisjointIds
    <3>2. Heard(t) => Agree(t[2], e2, native[p])
      BY <3>1, <2>4, <1>7, <1>8 DEF Heard, Agree
    <3> QED BY <3>2, <2>4, <1>6, <1>9 DEF Heard, Agree
  <2>5. CASE t = leaf.topic
    <3>1. t[1] = p /\ t[2] = field /\ field \in {"text", "acknowledged"}
      BY <2>1, <2>5, <1>4, DisjointIds
    <3>2. Agree(field, leaf.from, native[p]) => Agree(field, e2, native[p])
      BY <3>1, <1>8 DEF Agree
    <3> QED BY <3>1, <3>2, <2>5, <1>6, <1>9 DEF Heard, Agree
  <2> QED BY <2>2, <2>3, <2>4, <2>5
<1>11. Unused'
  <2>1. \A k \in DOMAIN feed' : k + 1 \in DOMAIN feed /\ feed'[k] = feed[k + 1]
    BY RestOfFeed
  <2>2. native[p].date # Unknown
    BY <1>1, <1>2 DEF Unused, ShowInv
  <2> QED BY <2>1, <2>2, <1>6, <1>9 DEF Unused, ShowInv
<1>12. DismissalsOK'
  <2> SUFFICES ASSUME NEW s \in DOMAIN slots', slots'[s].dismissed
               PROVE  closed'[s] = slots'[s].last
    BY DEF DismissalsOK
  <2>1. closed \in [Slot -> Date \union {Unknown}] /\ DOMAIN slots \subseteq Slot
    BY DEF IInv, TypeOK
  <2>2. CASE s # p
    <3>1. s \in DOMAIN slots /\ slots'[s] = slots[s] /\ s \in Slot
      BY <2>1, <2>2, <1>9
    <3>2. closed'[s] = closed[s]
      BY <2>1, <2>2, <3>1, <1>5
    <3> QED BY <3>1, <3>2 DEF DismissalsOK, ShowInv
  <2>3. CASE s = p
    <3>1. p \in DOMAIN slots /\ e = slots[p] /\ slots[p].dismissed /\ e2.last = slots[p].last
      BY <2>3, <1>7, <1>8, <1>9
    <3>2. ~(slots[p].active = "on" /\ slots'[p].active = "off")
      BY <2>3, <3>1, <1>8, <1>9
    <3>3. closed'[p] = closed[p]
      BY <2>1, <3>1, <3>2, <1>5 DEF Reopened
    <3> QED BY <2>3, <3>1, <3>3, <1>9 DEF DismissalsOK, ShowInv
  <2> QED BY <2>2, <2>3
<1>13. ShownOK'
  <2>1. banners' \intersect Raw = {}
    <3>1. PlatformReplacesRaw'
      BY PlatformLeafKeeps, Zenon DEF IInv
    <3> QED BY <3>1, <1>5 DEF PlatformReplacesRaw
  <2> QED BY <2>1, <1>6 DEF ShownOK, ShowInv
<1> QED BY <1>10, <1>11, <1>12, <1>13 DEF ShowInv

\* A slot read anew is dismissed only for the date it was dismissed for, and tells
\* what the Cerbo holds.
LEMMA RebuiltShows ==
  ASSUME IInv, ShowInv, NEW s \in Slot, NEW d \in BOOLEAN
  PROVE  LET r == Rebuilt(s, Read(s, d)) IN
         /\ r.text = native[s].text /\ r.acknowledged = native[s].acknowledged
         /\ r.dismissed => r.last = closed[s]
<1> DEFINE before == EntryOf(s)
           e      == Read(s, d)
           r      == Rebuilt(s, e)
<1>1. native[s] \in Native
  BY Values
<1>2. before \in Entry /\ (before.dismissed => s \in DOMAIN slots /\ before = slots[s])
  BY OffType, Values DEF EntryOf, Blank
<1>3. /\ e \in Entry /\ e.last = e.date
      /\ e.text = native[s].text /\ e.acknowledged = native[s].acknowledged
  BY <1>1 DEF Read, Blank, Entry, Native
<1>4. r = [e EXCEPT !.last = IF e.date = Unknown THEN before.last ELSE @,
                    !.dismissed = before.dismissed /\ ~OtherOccurrence(before, e.date)]
  BY DEF Rebuilt, EntryOf
<1> HIDE DEF e, before, r
<1>5. /\ r.text = e.text /\ r.acknowledged = e.acknowledged
      /\ r.last = IF e.date = Unknown THEN before.last ELSE e.date
  BY <1>2, <1>3, <1>4 DEF Entry
<1>6. r.dismissed = (before.dismissed /\ ~(e.date # Unknown /\ e.date # before.last))
  BY <1>2, <1>3, <1>4 DEF Entry, OtherOccurrence
<1>7. r.dismissed => r.last = closed[s]
  <2>1. before.dismissed => before.last = closed[s]
    BY <1>2 DEF ShowInv, DismissalsOK
  <2> QED BY <2>1, <1>5, <1>6
<1>8. r.text = native[s].text /\ r.acknowledged = native[s].acknowledged
  BY <1>3, <1>5
<1> QED BY <1>7, <1>8 DEF r, e

\* A whole snapshot is all the Cerbo holds; any other leaves the display behind.
LEMMA SnapshotShows ==
  ASSUME IInv, ShowInv, NEW wellFormed \in BOOLEAN, NEW heard \in SUBSET Raw,
         NEW read \in SUBSET {s \in Slot : native[s].date # Unknown}, NEW dated \in SUBSET read,
         Snapshot(wellFormed, read, dated, heard)
  PROVE  ShowInv'
<1>1. /\ source = "igw" /\ source' = source /\ native' = native /\ live' = live /\ feed' = feed
      /\ live = FALSE /\ feed = <<>>
      /\ upToDate' = (wellFormed /\ heard = Raw /\ read = dated
                      /\ read = {s \in Slot : native[s].date # Unknown})
  BY DEF Snapshot, IInv, TypeOK, DatesInOrder
<1>2. ASSUME wellFormed
      PROVE  /\ slots' = [s \in read |-> Rebuilt(s, Read(s, s \in dated))]
             /\ closed' = [s \in Slot |-> IF s \in read THEN closed[s] ELSE Unknown]
  BY <1>2 DEF Snapshot
<1>3. ASSUME ~wellFormed
      PROVE  slots' = slots /\ closed' = closed /\ platformSeen' = platformSeen
  BY <1>3 DEF Snapshot
<1> DEFINE on == IF platformSeen' THEN alarmOn ELSE AlarmsRead(heard)
           new == on \ (alarmOn \union dismissedIds)
           bs == IF wellFormed /\ read # {} THEN WithPlatform(banners, slots')
                 ELSE (banners \ Slot) \union Visible(slots')
<1>4. /\ alarmOn' = on
      /\ banners' = IF platformSeen' THEN bs ELSE (bs \ (alarmOn \ on)) \union new
  BY Zenon DEF Snapshot
<1>5. ASSUME wellFormed
      PROVE  \A s \in DOMAIN slots' :
               /\ s \in read /\ s \in Slot
               /\ slots'[s].text = native[s].text
               /\ slots'[s].acknowledged = native[s].acknowledged
               /\ slots'[s].dismissed => closed'[s] = slots'[s].last
  <2> SUFFICES ASSUME NEW s \in read
               PROVE  /\ s \in Slot
                      /\ slots'[s].text = native[s].text
                      /\ slots'[s].acknowledged = native[s].acknowledged
                      /\ slots'[s].dismissed => closed'[s] = slots'[s].last
    BY <1>2, <1>5
  <2>1. slots'[s] = Rebuilt(s, Read(s, s \in dated)) /\ closed'[s] = closed[s]
    BY <1>2, <1>5
  <2>2. CASE s \in dated
    <3>1. Read(s, s \in dated) = Read(s, TRUE)
      BY <2>2 DEF Read
    <3> QED BY <3>1, <2>1, RebuiltShows
  <2>3. CASE s \notin dated
    <3>1. Read(s, s \in dated) = Read(s, FALSE)
      BY <2>3 DEF Read
    <3> QED BY <3>1, <2>1, RebuiltShows
  <2> QED BY <2>2, <2>3
<1>6. InStep'
  <2> SUFFICES ASSUME upToDate', NEW t \in Watched
               PROVE  Heard(t)'
    <3>1. Watched' = Watched
      BY <1>1 DEF Watched
    <3> QED BY <3>1, <1>1 DEF InStep
  <2>1. wellFormed /\ heard = Raw /\ read = {s \in Slot : native[s].date # Unknown}
    BY <1>1
  <2>2. CASE t[1] \in Slot
    <3>1. t[1] \in read /\ t[2] # "active"
      BY <2>1, <2>2, DisjointIds DEF Watched
    <3>2. t[1] \in DOMAIN slots'
      BY <2>1, <3>1, <1>2
    <3> QED BY <2>1, <2>2, <3>1, <3>2, <1>1, <1>5 DEF Heard, Agree
  <2>3. CASE t[1] \notin Slot
    <3>1. t[1] \in Raw
      BY <2>3 DEF Watched
    <3>2. ~platformSeen' => alarmOn' = {a \in Raw : native[a].active}
      BY <2>1, <1>4 DEF AlarmsRead
    <3>3. native[t[1]].active \in BOOLEAN
      BY <3>1 DEF IInv, TypeOK, Native
    <3>4. platformSeen' \/ (t[1] \in alarmOn') = native[t[1]].active
      BY <3>1, <3>2, <3>3
    <3> QED BY <2>3, <3>4, <1>1 DEF Heard
  <2> QED BY <2>2, <2>3
<1>7. Unused'
  <2>1. \A s \in DOMAIN slots' : s \in DOMAIN slots \/ native[s].date # Unknown
    BY <1>3, <1>5
  <2> QED BY <2>1, <1>1 DEF Unused, ShowInv
<1>8. DismissalsOK'
  BY <1>3, <1>5 DEF DismissalsOK, ShowInv
<1>9. ShownOK'
  <2>1. banners \intersect Raw \subseteq alarmOn
    BY DEF ShownOK, ShowInv
  <2>2. bs \intersect Raw \subseteq banners
    <3>1. Visible(slots') \intersect Raw = {}
      <4>1. DOMAIN slots' \subseteq Slot
        BY <1>3, <1>5 DEF IInv, TypeOK
      <4> QED BY <4>1, DisjointIds DEF Visible
    <3> QED BY <3>1 DEF WithPlatform
  <2> HIDE DEF bs
  <2>3. banners' \intersect Raw \subseteq alarmOn'
    <3>1. CASE platformSeen'
      BY <3>1, <2>1, <2>2, <1>4
    <3>2. CASE ~platformSeen'
      BY <3>2, <2>1, <2>2, <1>4
    <3> QED BY <3>1, <3>2
  <2> QED BY <2>3, <1>1 DEF ShownOK
<1> QED BY <1>6, <1>7, <1>8, <1>9 DEF ShowInv

\* Notices come in a session only, and clicks take banners away.
LEMMA OthersShow ==
  ASSUME IInv, ShowInv, UNCHANGED <<source, cerboVars, live, feed, slots, platformSeen, alarmOn, closed>>,
         banners' \intersect Raw \subseteq banners,
         live \/ banners' \subseteq banners
  PROVE  ShowInv'
<1>1. native' = native /\ upToDate' = upToDate
  BY DEF cerboVars
<1>2. InStep'
  BY <1>1 DEF ShowInv, InStep, Watched, Newest, Pending, Heard, Agree
<1>3. Unused'
  BY <1>1 DEF ShowInv, Unused
<1>4. DismissalsOK'
  BY DEF ShowInv, DismissalsOK
<1>5. ShownOK'
  BY <1>1 DEF ShowInv, ShownOK
<1> QED BY <1>2, <1>3, <1>4, <1>5 DEF ShowInv

\* A click touches no field that the Cerbo tells of.
LEMMA DismissSlotShows ==
  ASSUME IInv, ShowInv, NEW p \in Slot, DismissSlot(p)
  PROVE  ShowInv'
<1>1. /\ source' = source /\ native' = native /\ upToDate' = upToDate /\ live' = live
      /\ feed' = feed /\ platformSeen' = platformSeen /\ alarmOn' = alarmOn
      /\ dismissedIds' = dismissedIds /\ banners' = banners \ {p}
  BY DEF DismissSlot, cerboVars
<1>2. CASE p \notin DOMAIN slots
  <2>1. slots' = slots /\ closed' = closed
    BY <1>2 DEF DismissSlot
  <2> QED BY <2>1, <1>1, OthersShow DEF cerboVars
<1>3. CASE p \in DOMAIN slots
  <2>1. /\ slots' = [slots EXCEPT ![p].dismissed = TRUE]
        /\ closed' = [closed EXCEPT ![p] = slots[p].last]
    BY <1>3 DEF DismissSlot, Dismissed
  <2>2. /\ slots \in [DOMAIN slots -> Entry] /\ DOMAIN slots \subseteq Slot
        /\ closed \in [Slot -> Date \union {Unknown}]
    BY DEF IInv, TypeOK
  <2>3. slots[p] \in Entry
    BY <2>2, <1>3
  <2>4. DOMAIN slots' = DOMAIN slots /\ slots'[p] = [slots[p] EXCEPT !.dismissed = TRUE]
    BY <2>1, <2>2, <1>3
  <2>5. /\ slots'[p].last = slots[p].last /\ slots'[p].text = slots[p].text
        /\ slots'[p].acknowledged = slots[p].acknowledged
    BY <2>3, <2>4 DEF Entry
  <2>6. \A s \in DOMAIN slots : s # p => slots'[s] = slots[s]
    BY <2>1, <2>2
  <2>7. \A s \in DOMAIN slots : /\ slots'[s].text = slots[s].text
                                /\ slots'[s].acknowledged = slots[s].acknowledged
    BY <2>5, <2>6
  <2>8. InStep'
    <3>1. \A t \in Watched : Heard(t) => Heard(t)'
      <4> SUFFICES ASSUME NEW t \in Watched, Heard(t)
                   PROVE  Heard(t)'
        OBVIOUS
      <4>1. CASE t[1] \in Slot
        <5>1. t[2] # "active"
          BY <4>1, DisjointIds DEF Watched
        <5> QED BY <5>1, <4>1, <2>4, <2>7, <1>1 DEF Heard, Agree
      <4>2. CASE t[1] \notin Slot
        BY <4>2, <1>1 DEF Heard
      <4> QED BY <4>1, <4>2
    <3>2. Watched' = Watched
      BY <1>1 DEF Watched
    <3> QED BY <3>1, <3>2, <1>1 DEF ShowInv, InStep, Newest, Pending, Agree
  <2>9. Unused'
    BY <2>4, <1>1 DEF ShowInv, Unused
  <2>10. DismissalsOK'
    BY <2>1, <2>2, <2>4, <2>5, <2>6 DEF ShowInv, DismissalsOK
  <2>11. ShownOK'
    BY <1>1 DEF ShowInv, ShownOK
  <2> QED BY <2>8, <2>9, <2>10, <2>11 DEF ShowInv
<1> QED BY <1>2, <1>3

\* Whatever happens, the display keeps up.
LEMMA AnyStepShows ==
  ASSUME IInv, ShowInv, AnyStep
  PROVE  ShowInv'
<1>1. CASE CerboChanges
  BY <1>1, CerboShows
<1>2. CASE Repeat
  BY <1>2, RepeatShows
<1>3. CASE Connect \/ Disconnect
  BY <1>3, SessionShows
<1>4. CASE Deliver
  <2>1. feed # <<>> /\ feed' = Tail(feed) /\ UNCHANGED <<source, cerboVars, live, dismissedIds>>
    BY <1>4 DEF Deliver
  <2>2. PlatformLeaf(Head(feed)) \/ AlarmLeaf(Head(feed))
    BY <1>4 DEF Deliver
  <2> QED BY <2>1, <2>2, PlatformLeafShows, AlarmLeafShows
<1>5. CASE Poll
  <2>1. PICK wellFormed \in BOOLEAN, heard \in SUBSET Raw,
             read \in SUBSET {s \in Slot : native[s].date # Unknown} :
          \E dated \in SUBSET read : Snapshot(wellFormed, read, dated, heard)
    BY <1>5 DEF Poll
  <2>2. PICK dated \in SUBSET read : Snapshot(wellFormed, read, dated, heard)
    BY <2>1
  <2> QED BY <2>2, SnapshotShows
<1>6. ASSUME NEW s \in Slot, DismissSlot(s)
      PROVE  ShowInv'
  BY <1>6, DismissSlotShows
<1>7. ASSUME NEW n \in Notice, Notify(n)
      PROVE  ShowInv'
  <2>1. banners' \intersect Raw \subseteq banners /\ live
    BY <1>7, DisjointIds DEF Notify, Pushed
  <2> QED BY <2>1, <1>7, OthersShow DEF Notify
<1>8. ASSUME NEW i \in Raw \union Notice, DismissId(i)
      PROVE  ShowInv'
  <2>1. banners' \subseteq banners
    BY <1>8 DEF DismissId
  <2> QED BY <2>1, <1>8, OthersShow DEF DismissId
<1>9. CASE UNCHANGED vars
  BY <1>9, OthersShow DEF vars, stateVars
<1> QED BY <1>1, <1>2, <1>3, <1>4, <1>5, <1>6, <1>7, <1>8, <1>9 DEF AnyStep

LEMMA ShowsInitially == Init => ShowInv
<1> SUFFICES ASSUME Init
             PROVE  ShowInv
  OBVIOUS
<1>1. InStep
  BY DEF Init, InStep
<1>2. Unused
  <2>1. \A s \in Slot : native[s].date = Unknown /\ ~native[s].active
    <3> SUFFICES ASSUME NEW s \in Slot
                 PROVE  native[s].date = Unknown /\ ~native[s].active
      BY Zenon
    <3>1. native[s] = Off
      BY DEF Init
    <3> QED BY <3>1 DEF Off
  <2>2. DOMAIN slots = {} /\ DOMAIN feed = {}
    BY DEF Init
  <2>3. \A s \in Slot : s \notin DOMAIN slots /\ \A k \in DOMAIN feed : feed[k].topic[1] # s
    BY <2>2
  <2> QED BY <2>1, <2>3, Zenon DEF Unused
<1>3. DismissalsOK /\ ShownOK
  BY DEF Init, DismissalsOK, ShownOK
<1> QED BY <1>1, <1>2, <1>3 DEF ShowInv

\* Once all has arrived, the slots and alarms are as the Cerbo holds them.
LEMMA SettledAgrees ==
  ASSUME IInv, ShowInv, Settled
  PROVE  /\ \A s \in Slot : native[s].date # Unknown =>
              /\ s \in DOMAIN slots
              /\ slots[s].text = native[s].text
              /\ slots[s].acknowledged = native[s].acknowledged
         /\ \A a \in Raw : platformSeen \/ (a \in alarmOn) = native[a].active
<1>1. (live \/ upToDate) /\ feed = <<>>
  BY DEF Settled, IInv, TypeOK, DatesInOrder, ShowInv, ShownOK
<1>2. \A t \in Watched : Heard(t)
  BY <1>1 DEF ShowInv, InStep, Pending
<1>3. ASSUME NEW s \in Slot, native[s].date # Unknown
      PROVE  /\ s \in DOMAIN slots
             /\ slots[s].text = native[s].text
             /\ slots[s].acknowledged = native[s].acknowledged
  <2>1. <<s, "text">> \in Watched /\ <<s, "acknowledged">> \in Watched
    BY <1>3 DEF Watched
  <2>2. Heard(<<s, "text">>) /\ Heard(<<s, "acknowledged">>)
    BY <2>1, <1>2
  <2> QED BY <2>2 DEF Heard, Agree
<1>4. ASSUME NEW a \in Raw
      PROVE  platformSeen \/ (a \in alarmOn) = native[a].active
  <2>1. <<a, "active">> \in Watched /\ a \notin Slot
    BY DisjointIds DEF Watched
  <2>2. Heard(<<a, "active">>)
    BY <2>1, <1>2
  <2> QED BY <2>1, <2>2 DEF Heard
<1> QED BY <1>3, <1>4

LEMMA RaisedShows == IInv /\ ShowInv => RaisedIsShown
<1> SUFFICES ASSUME IInv, ShowInv, Settled, NEW s \in DOMAIN slots, s \in Slot,
                    slots[s].date = native[s].date, native[s].date \notin {Unknown, closed[s]},
                    ~native[s].acknowledged
             PROVE  s \in banners
  BY DEF RaisedIsShown
<1>1. slots[s].text = native[s].text /\ ~slots[s].acknowledged
  BY SettledAgrees
<1>2. slots[s].text # Unknown
  BY <1>1 DEF ShowInv, Unused
<1>3. slots[s].last # closed[s]
  BY DEF IInv, DatesInOrder
<1>4. ~slots[s].dismissed
  BY <1>3 DEF ShowInv, DismissalsOK
<1> QED BY <1>1, <1>2, <1>4 DEF IInv, TypeOK, Shows

\* What is on display has been told last, and what a session told ends with it.
LEMMA NothingStaleShows == IInv /\ ShowInv => NothingIsStale
<1> SUFFICES ASSUME IInv, ShowInv
             PROVE  NothingIsStale
  OBVIOUS
<1>1. ASSUME Settled, NEW i \in banners \ Notice, i \in Slot
      PROVE  native[i].date # Unknown /\ ~native[i].acknowledged
  <2>1. i \in DOMAIN slots /\ ~slots[i].acknowledged
    BY <1>1 DEF IInv, TypeOK, Shows
  <2>2. native[i].date # Unknown
    BY <2>1, <1>1 DEF ShowInv, Unused
  <2> QED BY <2>1, <2>2, <1>1, SettledAgrees
<1>2. ASSUME Settled, NEW i \in banners \ Notice, i \notin Slot
      PROVE  native[i].active
  <2>1. i \in Raw
    BY <1>2 DEF IInv, TypeOK, Id
  <2>2. i \in alarmOn /\ ~platformSeen
    BY <2>1 DEF ShowInv, ShownOK, IInv, PlatformReplacesRaw
  <2> QED BY <2>1, <2>2, <1>2, SettledAgrees
<1> QED BY <1>1, <1>2 DEF NothingIsStale, ShowInv, ShownOK

\* In every reachable state the display is what was told last.
THEOREM ShowInvariance == Spec => []ShowInv
<1>1. IInv /\ ShowInv /\ [Next]_vars => ShowInv'
  BY AnyStepShows, RaiseIsAnyStep
<1> QED BY <1>1, ShowsInitially, Invariance, PTL DEF Spec

\* An occurrence that was raised and not dismissed is on display once all has arrived.
THEOREM RaisedHolds == Spec => []RaisedIsShown
BY RaisedShows, ShowInvariance, Invariance, PTL

\* Nothing is on display that was acknowledged, has ended or belongs to a session
\* that ended.
THEOREM NothingStaleHolds == Spec => []NothingIsStale
BY NothingStaleShows, ShowInvariance, Invariance, PTL
=============================================================================
