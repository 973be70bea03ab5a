------------------------- MODULE NotificationProof -------------------------
(***************************************************************************)
(* Proofs about NotificationWorker and the windows of NotificationTabs, for *)
(* any number of windows, ports, pushes and events, and for every limit on  *)
(* claims and generations.                                                  *)
(***************************************************************************)
EXTENDS NotificationTabs, TLAPS

\* Pushes whose key is claimed for them: from their claim to the end of their run.
Holds(d) == delivery[d].step \in {"checking", "showing", "releasing"}

\* A claim that was not evicted has one push at most, and none once its event was shown.
ClaimInv ==
  /\ \A d \in Delivery : Holds(d) => Carries[d] \in claimed \cup evicted
  /\ \A c, d \in Delivery :
       Holds(c) /\ Holds(d) /\ Carries[c] = Carries[d] => c = d \/ Carries[d] \in evicted
  /\ \A e \in shown : e \in claimed \cup evicted
  /\ \A d \in Delivery : Holds(d) /\ Carries[d] \in shown => Carries[d] \in evicted
  /\ ShownOnce

\* A push between its looks saw the generation there is or an earlier one, and an earlier
\* one if it was retired.
LookInv ==
  /\ \A d \in Between : delivery[d].seen <= settings.generation
  /\ \A d \in retired : /\ delivery[d].step \notin {"waiting", "showing"}
                        /\ d \in Between => delivery[d].seen < settings.generation

\* The generation there is was created by a begin only if that is the last choice, and
\* whoever asks to enable names a generation that a begin created.
ChoiceInv ==
  /\ \A g \in granted : g <= settings.generation
  /\ settings.generation \in granted => choice = "enable"
  /\ DisableRetiresEnable
  /\ \A r \in Slot : request[r].step = "sent" /\ request[r].kind = "enable"
                       => request[r].generation \in granted

IInv == TypeOK /\ ClaimInv /\ LookInv /\ ChoiceInv

-----------------------------------------------------------------------------
(* Initial states.                                                          *)

LEMMA Initially == WorkerInit => IInv
<1> SUFFICES ASSUME WorkerInit PROVE IInv
  OBVIOUS
<1>1. /\ settings \in Settings /\ settings.generation \in {0, 1}
      /\ settings.enabled => settings.generation = 1
  <2>1. CASE settings = DEFAULT_SETTINGS
    <3>1. settings = [enabled |-> FALSE, generation |-> 0]
      BY <2>1 DEF DEFAULT_SETTINGS
    <3> QED BY <3>1 DEF Settings
  <2>2. CASE settings = SavedSettings
    <3>1. settings = [enabled |-> TRUE, generation |-> 1]
      BY <2>2 DEF SavedSettings
    <3> QED BY <3>1 DEF Settings
  <2> QED BY <2>1, <2>2 DEF WorkerInit
<1>2. delivery \in [Delivery -> Deliveries]
  BY DEF WorkerInit, Deliveries
<1>3. request \in [Slot -> Requests]
  <2>1. Free \in Requests
    BY DEF Free, Requests, Kind, Reply
  <2> QED BY <2>1 DEF WorkerInit
<1>4. /\ open \subseteq Page /\ changed \in [Page -> Nat]
      /\ newer \in [Event -> SUBSET Event]
      /\ choice \in {"enable", "disable"} /\ granted \subseteq Nat
      /\ \A g \in granted : g = 1 /\ settings.enabled
  BY DEF WorkerInit
<1>5. TypeOK
  BY <1>1, <1>2, <1>3, <1>4 DEF TypeOK, WorkerInit
<1>6. \A d \in Delivery : delivery[d].step = "waiting"
  BY DEF WorkerInit
<1>7. ClaimInv
  BY <1>6 DEF ClaimInv, Holds, ShownOnce, WorkerInit
<1>8. LookInv
  BY <1>6 DEF LookInv, Between, WorkerInit
<1>9. ChoiceInv
  <2>1. settings.enabled => choice = "enable"
    BY DEF WorkerInit
  <2>2. \A r \in Slot : request[r].step = "free"
    BY DEF WorkerInit, Free
  <2> QED BY <2>1, <2>2, <1>1, <1>4 DEF ChoiceInv, DisableRetiresEnable
<1> QED BY <1>5, <1>7, <1>8, <1>9 DEF IInv

-----------------------------------------------------------------------------
(* Type correctness, conjunct by conjunct.                                  *)

\* What a step moves to is a step of a delivery.
LEMMA MoveType ==
  ASSUME TypeOK, NEW d \in Delivery, NEW step, Moves(d, step),
         step \in {"waiting", "claiming", "checking", "showing", "releasing", "done"}
  PROVE  delivery' \in [Delivery -> Deliveries]
BY DEF TypeOK, Moves, Deliveries

LEMMA UpdatedType ==
  ASSUME TypeOK, NEW q \in Requests
  PROVE  /\ Updated(q) \in Settings
         /\ Updated(q).generation =
              IF q.kind = "enable" THEN settings.generation ELSE settings.generation + 1
         /\ Updated(q).enabled => q.kind = "enable"
<1>1. settings.generation \in Nat
  BY DEF TypeOK, Settings
<1>2. CASE q.kind = "enable"
  <2>1. Updated(q) = [enabled |-> TRUE, generation |-> settings.generation]
    BY <1>2 DEF Updated
  <2> QED BY <2>1, <1>1, <1>2 DEF Settings
<1>3. CASE q.kind # "enable"
  <2>1. Updated(q) = [enabled |-> FALSE, generation |-> settings.generation + 1]
    BY <1>3 DEF Updated
  <2> QED BY <2>1, <1>1, <1>3 DEF Settings
<1> QED BY <1>2, <1>3

LEMMA ReplyType ==
  ASSUME NEW after \in Settings, NEW applied \in BOOLEAN
  PROVE  ReplyTo(applied, after) \in Reply
BY DEF ReplyTo, Reply, Settings

LEMMA PostType ==
  ASSUME TypeOK, NEW r \in Slot, NEW kind \in Kind, NEW g \in Nat, Post(r, kind, g)
  PROVE  /\ request' \in [Slot -> Requests]
         /\ request'[r].step = "sent" /\ request'[r].kind = kind /\ request'[r].generation = g
         /\ \A s \in Slot \ {r} : request'[s] = request[s]
<1> DEFINE q == [Free EXCEPT !.step = "sent", !.kind = kind, !.generation = g]
<1>1. q \in Requests /\ q.step = "sent" /\ q.kind = kind /\ q.generation = g
  BY DEF Free, Requests, Reply, Kind
<1>2. request' = [request EXCEPT ![r] = q]
  BY DEF Post
<1>3. request \in [Slot -> Requests]
  BY DEF TypeOK
<1> HIDE DEF q
<1> QED BY <1>1, <1>2, <1>3

\* The claims a transaction leaves, and what it evicts, are events.
LEMMA KeepType ==
  ASSUME NEW keys \in SUBSET Event, NEW after \in [Event -> SUBSET Event], Keep(keys, after)
  PROVE  claimed' \subseteq Event /\ newer' \in [Event -> SUBSET Event]
BY DEF Keep

\* What the worker is, and what is recorded of it, keeps its type.
LEMMA TypeStep == TypeOK /\ [WorkerNext]_workerVars => TypeOK'
<1> SUFFICES ASSUME TypeOK, [WorkerNext]_workerVars PROVE TypeOK'
  OBVIOUS
<1>0. /\ settings \in Settings /\ settings.generation \in Nat
      /\ request \in [Slot -> Requests] /\ delivery \in [Delivery -> Deliveries]
      /\ granted \subseteq Nat /\ claimed \subseteq Event /\ evicted \subseteq Event
      /\ newer \in [Event -> SUBSET Event]
      /\ open \subseteq Page /\ changed \in [Page -> Nat]
      /\ shown \subseteq Event /\ displayed \subseteq Event /\ shownAgain \subseteq Event
  BY DEF TypeOK, Settings
<1>1. ASSUME NEW r \in Slot, NEW k \in Kind, NEW g \in 0 .. settings.generation, Ask(r, k, g)
      PROVE  TypeOK'
  <2>1. Post(r, k, g) /\ g \in Nat
    BY <1>1, <1>0 DEF Ask
  <2>2. request' \in [Slot -> Requests]
    BY <2>1, PostType
  <2> QED BY <2>1, <2>2 DEF Post, TypeOK, deliveryVars, windowVars
<1>2. ASSUME NEW r \in Slot, Change(r) PROVE TypeOK'
  <2> DEFINE q == request[r]
  <2>1. q \in Requests /\ q.kind \in Kind
    BY <1>0 DEF Requests
  <2>2. settings' = Updated(q) /\ settings' \in Settings
    BY <1>2, <2>1, UpdatedType DEF Change
  <2>3. request' \in [Slot -> Requests]
    <3>1. ReplyTo(TRUE, Updated(q)) \in Reply
      BY <2>2, ReplyType
    <3>2. request' = [request EXCEPT ![r] = [q EXCEPT !.step = "announcing",
                                                      !.reply = ReplyTo(TRUE, Updated(q))]]
      BY <1>2 DEF Change
    <3>3. [q EXCEPT !.step = "announcing", !.reply = ReplyTo(TRUE, Updated(q))] \in Requests
      BY <2>1, <3>1 DEF Requests
    <3> HIDE DEF q
    <3> QED BY <3>2, <3>3, <1>0
  <2>4. choice' \in {"enable", "disable"} /\ granted' \subseteq Nat
    BY <1>2, <1>0 DEF Change, TypeOK
  <2>5. retired' \subseteq Delivery
    BY <1>2 DEF Change, TypeOK, Between
  <2>6. unannounced' = TRUE /\ UNCHANGED <<changed, deliveryVars, windowVars>>
    BY <1>2 DEF Change
  <2> QED BY <2>2, <2>3, <2>4, <2>5, <2>6 DEF TypeOK, deliveryVars, windowVars
<1>3. ASSUME NEW r \in Slot, Supersede(r) PROVE TypeOK'
  <2> DEFINE q == request[r]
  <2>1. q \in Requests
    BY <1>0
  <2>2. request' = [request EXCEPT ![r] = [q EXCEPT !.step = "answered",
                                                    !.reply = ReplyTo(FALSE, settings)]]
    BY <1>3 DEF Supersede
  <2>3. ReplyTo(FALSE, settings) \in Reply
    BY <1>0, ReplyType
  <2>4. [q EXCEPT !.step = "answered", !.reply = ReplyTo(FALSE, settings)] \in Requests
    BY <2>1, <2>3 DEF Requests
  <2>5. request' \in [Slot -> Requests]
    <3> HIDE DEF q
    <3> QED BY <2>2, <2>4, <1>0
  <2>6. UNCHANGED <<settings, changed, choice, granted, unannounced, deliveryVars, windowVars, retired>>
    BY <1>3 DEF Supersede
  <2> QED BY <2>5, <2>6 DEF TypeOK, deliveryVars, windowVars
<1>4. ASSUME NEW r \in Slot, Announce(r) \/ Refuse(r) \/ Close(r) PROVE TypeOK'
  <2>1. request' \in [Slot -> Requests]
    <3>1. request[r] \in Requests
      BY <1>0
    <3>2. Free \in Requests
      BY DEF Free, Requests, Kind, Reply
    <3>3. \A step \in {"answered", "refused"} : [request[r] EXCEPT !.step = step] \in Requests
      BY <3>1 DEF Requests
    <3>4. \/ request' = [request EXCEPT ![r] = [request[r] EXCEPT !.step = "answered"]]
          \/ request' = [request EXCEPT ![r] = [request[r] EXCEPT !.step = "refused"]]
          \/ request' = [request EXCEPT ![r] = Free]
      BY <1>4 DEF Announce, Refuse, Close
    <3> QED BY <3>2, <3>3, <3>4, <1>0
  <2>2. changed' \in [Page -> Nat] /\ unannounced' \in BOOLEAN
    <3>1. CASE Announce(r)
      <4>1. changed' = [p \in Page |-> IF p \in open THEN changed[p] + 1 ELSE changed[p]]
        BY <3>1 DEF Announce
      <4>2. \A p \in Page : changed[p] \in Nat /\ changed[p] + 1 \in Nat
        BY <1>0
      <4>3. unannounced' = FALSE
        BY <3>1 DEF Announce
      <4> QED BY <4>1, <4>2, <4>3
    <3>2. CASE Refuse(r)
      BY <3>2, <1>0 DEF Refuse, TypeOK
    <3>3. CASE Close(r)
      BY <3>3, <1>0 DEF Close, TypeOK
    <3> QED BY <3>1, <3>2, <3>3, <1>4
  <2>3. UNCHANGED <<settings, choice, granted, deliveryVars, windowVars, retired>>
    BY <1>4 DEF Announce, Refuse, Close
  <2> QED BY <2>1, <2>2, <2>3 DEF TypeOK, deliveryVars, windowVars
<1>5. ASSUME NEW d \in Delivery, Receive(d) PROVE TypeOK'
  <2>1. delivery' \in [Delivery -> Deliveries]
    <3>1. CASE Moves(d, "done")
      BY <3>1, MoveType
    <3>2. CASE delivery' = [delivery EXCEPT ![d] = [step |-> "claiming", seen |-> settings.generation]]
      BY <3>2, <1>0 DEF Deliveries
    <3> QED BY <3>1, <3>2, <1>5 DEF Receive
  <2>2. UNCHANGED <<settings, requestVars, claimed, newer, evicted, shown, shownAgain, windowVars, retired>>
    BY <1>5 DEF Receive
  <2> QED BY <2>1, <2>2 DEF TypeOK, requestVars, windowVars
<1>6. ASSUME NEW d \in Delivery, Claim(d) PROVE TypeOK'
  <2> DEFINE e == Carries[d]
             keys == claimed \cup {e}
             after == IF e \in claimed THEN newer
                      ELSE [f \in Event |-> IF f \in claimed THEN newer[f] \cup {e} ELSE {}]
  <2>1. e \in Event
    BY CarriesAssumption
  <2>2. keys \subseteq Event /\ after \in [Event -> SUBSET Event]
    BY <2>1, <1>0
  <2>3. /\ Moves(d, IF e \in claimed THEN "done" ELSE "checking")
        /\ Keep(keys \ Excess(keys, after), after)
        /\ evicted' = evicted \cup Excess(keys, after)
        /\ UNCHANGED <<settings, requestVars, shown, shownAgain, windowVars, retired>>
    BY <1>6 DEF Claim
  <2>4. Excess(keys, after) \subseteq keys
    BY DEF Excess
  <2> HIDE DEF e, keys, after
  <2>5. delivery' \in [Delivery -> Deliveries]
    BY <2>3, MoveType
  <2>6. claimed' \subseteq Event /\ newer' \in [Event -> SUBSET Event]
    BY <2>2, <2>3, KeepType
  <2>7. evicted' \subseteq Event
    BY <2>2, <2>3, <2>4, <1>0
  <2> QED BY <2>3, <2>5, <2>6, <2>7 DEF TypeOK, requestVars, windowVars
<1>7. ASSUME NEW d \in Delivery, Recheck(d) \/ ShowFails(d) \/ StorageFails(d) PROVE TypeOK'
  <2>1. \E step \in {"showing", "done", "releasing"} : Moves(d, step)
    BY <1>7 DEF Recheck, ShowFails, StorageFails
  <2>2. delivery' \in [Delivery -> Deliveries]
    BY <2>1, MoveType
  <2>3. UNCHANGED <<settings, requestVars, claimed, newer, evicted, shown, shownAgain, windowVars, retired>>
    BY <1>7 DEF Recheck, ShowFails, StorageFails
  <2> QED BY <2>2, <2>3 DEF TypeOK, requestVars, windowVars
<1>8. ASSUME NEW d \in Delivery, Show(d) PROVE TypeOK'
  <2>1. Moves(d, "done") /\ Carries[d] \in Event
    BY <1>8, CarriesAssumption DEF Show
  <2>2. delivery' \in [Delivery -> Deliveries]
    BY <2>1, MoveType
  <2>3. shown' \subseteq Event /\ shownAgain' \subseteq Event /\ displayed' \subseteq Event
    BY <2>1, <1>8, <1>0 DEF Show
  <2>4. UNCHANGED <<settings, requestVars, claimed, newer, evicted, open, retired>>
    BY <1>8 DEF Show
  <2> QED BY <2>2, <2>3, <2>4 DEF TypeOK, requestVars
<1>9. ASSUME NEW d \in Delivery, Release(d) PROVE TypeOK'
  <2>1. Moves(d, "done") /\ Keep(claimed \ {Carries[d]}, newer)
    BY <1>9 DEF Release
  <2>2. delivery' \in [Delivery -> Deliveries]
    BY <2>1, MoveType
  <2>3. claimed' \subseteq Event /\ newer' \in [Event -> SUBSET Event]
    BY <2>1, <1>0, KeepType
  <2>4. UNCHANGED <<settings, requestVars, evicted, shown, shownAgain, windowVars, retired>>
    BY <1>9 DEF Release
  <2> QED BY <2>2, <2>3, <2>4 DEF TypeOK, requestVars, windowVars
<1>10. ASSUME NEW p \in Page, Handle(p) \/ Leave(p) \/ Enter(p) PROVE TypeOK'
  <2>1. open' \subseteq Page /\ changed' \in [Page -> Nat]
    <3>1. CASE Handle(p)
      BY <3>1, <1>0 DEF Handle, windowVars
    <3>2. CASE Leave(p)
      BY <3>2, <1>0 DEF Leave
    <3>3. CASE Enter(p)
      BY <3>3, <1>0 DEF Enter, requestVars
    <3> QED BY <3>1, <3>2, <3>3, <1>10
  <2>2. UNCHANGED <<settings, request, choice, granted, unannounced, deliveryVars, displayed, retired>>
    BY <1>10 DEF Handle, Leave, Enter, requestVars, windowVars
  <2> QED BY <2>1, <2>2 DEF TypeOK, deliveryVars
<1>11. ASSUME NEW e \in Event, NEW p \in Page, Click(e, p) PROVE TypeOK'
  <2>1. open' \subseteq Page /\ displayed' \subseteq Event
    BY <1>11, <1>0 DEF Click
  <2>2. UNCHANGED <<settings, requestVars, deliveryVars, retired>>
    BY <1>11 DEF Click
  <2> QED BY <2>1, <2>2 DEF TypeOK, requestVars, deliveryVars
<1>12. ASSUME Kill PROVE TypeOK'
  <2>1. delivery' \in [Delivery -> Deliveries]
    BY <1>12, <1>0 DEF Kill, Deliveries
  <2>2. request' \in [Slot -> Requests]
    <3>1. PICK begun \in SUBSET {r \in Slot : request[r].step = "sent"} :
            request' = [r \in Slot |-> IF r \in begun \/ request[r].step = "announcing"
                                       THEN [request[r] EXCEPT !.step = "lost"] ELSE request[r]]
      BY <1>12 DEF Kill
    <3>2. \A r \in Slot : [request[r] EXCEPT !.step = "lost"] \in Requests
      BY <1>0 DEF Requests
    <3> QED BY <3>1, <3>2, <1>0
  <2>3. unannounced' \in BOOLEAN
    BY <1>12 DEF Kill, TypeOK
  <2>4. UNCHANGED <<settings, changed, choice, granted, claimed, newer, evicted, shown, shownAgain,
                    windowVars, retired>>
    BY <1>12 DEF Kill
  <2> QED BY <2>1, <2>2, <2>3, <2>4 DEF TypeOK, windowVars
<1>13. ASSUME UNCHANGED workerVars PROVE TypeOK'
  BY <1>13 DEF TypeOK, workerVars, requestVars, deliveryVars, windowVars
<1> QED
  BY <1>1, <1>2, <1>3, <1>4, <1>5, <1>6, <1>7, <1>8, <1>9, <1>10, <1>11, <1>12, <1>13
  DEF WorkerNext

-----------------------------------------------------------------------------
(* Claims: each push of an event is stopped by the claim of the first.      *)

\* No push begins to hold a claim, and no claim is given up.
LEMMA ClaimsStay ==
  ASSUME TypeOK, ClaimInv,
         \A d \in Delivery : Holds(d)' => Holds(d),
         UNCHANGED <<claimed, evicted, shown, shownAgain>>
  PROVE  ClaimInv'
<1>1. \A d \in Delivery : Holds(d)' => Holds(d)
  OBVIOUS
<1> HIDE DEF Holds
<1> QED BY <1>1 DEF ClaimInv, ShownOnce

\* One delivery moves.
LEMMA Moved ==
  ASSUME TypeOK, NEW d \in Delivery, NEW step, Moves(d, step)
  PROVE  /\ delivery'[d].step = step /\ delivery'[d].seen = delivery[d].seen
         /\ \A c \in Delivery \ {d} : delivery'[c] = delivery[c]
BY DEF TypeOK, Moves, Deliveries

\* A claim is made once, given up only before its event is shown, and otherwise leaves the
\* store only by eviction.
LEMMA ClaimStep == TypeOK /\ ClaimInv /\ [WorkerNext]_workerVars => ClaimInv'
<1> SUFFICES ASSUME TypeOK, ClaimInv, [WorkerNext]_workerVars PROVE ClaimInv'
  OBVIOUS
<1>1. ASSUME UNCHANGED deliveryVars PROVE ClaimInv'
  BY <1>1, ClaimsStay DEF deliveryVars, Holds
<1>2. ASSUME NEW d \in Delivery, Receive(d) PROVE ClaimInv'
  <2>1. delivery'[d].step \in {"claiming", "done"} /\ \A c \in Delivery \ {d} : delivery'[c] = delivery[c]
    <3>1. CASE Moves(d, "done")
      BY <3>1, Moved
    <3>2. CASE delivery' = [delivery EXCEPT ![d] = [step |-> "claiming", seen |-> settings.generation]]
      BY <3>2 DEF TypeOK
    <3> QED BY <3>1, <3>2, <1>2 DEF Receive
  <2> QED BY <2>1, <1>2, ClaimsStay DEF Receive, Holds
<1>3. ASSUME NEW d \in Delivery, Claim(d) PROVE ClaimInv'
  <2> DEFINE e == Carries[d]
             keys == claimed \cup {e}
             after == IF e \in claimed THEN newer
                      ELSE [f \in Event |-> IF f \in claimed THEN newer[f] \cup {e} ELSE {}]
  <2>1. e \in Event
    BY CarriesAssumption
  <2>2. /\ delivery[d].step = "claiming"
        /\ Moves(d, IF e \in claimed THEN "done" ELSE "checking")
        /\ claimed' = keys \ Excess(keys, after)
        /\ evicted' = evicted \cup Excess(keys, after)
        /\ UNCHANGED <<shown, shownAgain>>
    BY <1>3 DEF Claim, Keep
  <2>3. /\ delivery'[d].step = (IF e \in claimed THEN "done" ELSE "checking")
        /\ \A c \in Delivery \ {d} : delivery'[c] = delivery[c]
    BY <2>2, Moved
  <2>4. claimed \cup evicted \cup {e} \subseteq claimed' \cup evicted' /\ evicted \subseteq evicted'
    BY <2>2
  <2>5. ~Holds(d) /\ \A c \in Delivery \ {d} : Holds(c)' <=> Holds(c)
    BY <2>2, <2>3 DEF Holds
  <2>6. Holds(d)' => e \notin claimed
    BY <2>3 DEF Holds
  <2>7. shown' = shown /\ shownAgain' = shownAgain
    BY <2>2
  <2> HIDE DEF keys, after, Holds
  <2>8. \A c \in Delivery : Holds(c)' => Carries[c] \in claimed' \cup evicted'
    BY <2>4, <2>5 DEF ClaimInv
  <2>9. \A b, c \in Delivery :
          Holds(b)' /\ Holds(c)' /\ Carries[b] = Carries[c] => b = c \/ Carries[c] \in evicted'
    BY <2>4, <2>5, <2>6 DEF ClaimInv
  <2>10. \A f \in shown' : f \in claimed' \cup evicted'
    BY <2>4, <2>7 DEF ClaimInv
  <2>11. \A c \in Delivery : Holds(c)' /\ Carries[c] \in shown' => Carries[c] \in evicted'
    BY <2>4, <2>5, <2>6, <2>7 DEF ClaimInv
  <2>12. ShownOnce'
    BY <2>4, <2>7 DEF ClaimInv, ShownOnce
  <2> QED BY <2>8, <2>9, <2>10, <2>11, <2>12 DEF ClaimInv
<1>4. ASSUME NEW d \in Delivery, Recheck(d) \/ ShowFails(d) \/ StorageFails(d) PROVE ClaimInv'
  <2>1. CASE Recheck(d)
    <3>1. PICK step \in {"showing", "done"} : Moves(d, step)
      BY <2>1 DEF Recheck
    <3>2. delivery[d].step = "checking" /\ UNCHANGED <<claimed, evicted, shown, shownAgain>>
      BY <2>1 DEF Recheck
    <3> QED BY <3>1, <3>2, Moved, ClaimsStay DEF Holds
  <2>2. CASE ShowFails(d)
    <3>1. Moves(d, "releasing") /\ delivery[d].step = "showing"
      BY <2>2 DEF ShowFails
    <3>2. UNCHANGED <<claimed, evicted, shown, shownAgain>>
      BY <2>2 DEF ShowFails
    <3> QED BY <3>1, <3>2, Moved, ClaimsStay DEF Holds
  <2>3. CASE StorageFails(d)
    <3>1. Moves(d, "done") /\ UNCHANGED <<claimed, evicted, shown, shownAgain>>
      BY <2>3 DEF StorageFails
    <3> QED BY <3>1, Moved, ClaimsStay DEF Holds
  <2> QED BY <1>4, <2>1, <2>2, <2>3
<1>5. ASSUME NEW d \in Delivery, Show(d) PROVE ClaimInv'
  <2> DEFINE e == Carries[d]
  <2>1. /\ delivery[d].step = "showing" /\ Moves(d, "done")
        /\ shown' = shown \cup {e}
        /\ shownAgain' = IF e \in shown THEN shownAgain \cup {e} ELSE shownAgain
        /\ UNCHANGED <<claimed, evicted>>
    BY <1>5 DEF Show
  <2>2. Holds(d) /\ ~Holds(d)' /\ \A c \in Delivery \ {d} : Holds(c)' <=> Holds(c)
    BY <2>1, Moved DEF Holds
  <2> HIDE DEF Holds
  <2>3. e \in claimed \cup evicted /\ (e \in shown => e \in evicted)
    BY <2>2 DEF ClaimInv
  <2>4. ShownOnce'
    BY <2>1, <2>3 DEF ClaimInv, ShownOnce
  <2>5. \A c \in Delivery : Holds(c)' /\ Carries[c] \in shown' => Carries[c] \in evicted'
    BY <2>1, <2>2 DEF ClaimInv
  <2> QED BY <2>1, <2>2, <2>3, <2>4, <2>5 DEF ClaimInv
<1>6. ASSUME NEW d \in Delivery, Release(d) PROVE ClaimInv'
  <2> DEFINE e == Carries[d]
  <2>1. /\ delivery[d].step = "releasing" /\ Moves(d, "done")
        /\ claimed' = claimed \ {e}
        /\ UNCHANGED <<evicted, shown, shownAgain>>
    BY <1>6 DEF Release, Keep
  <2>2. Holds(d) /\ ~Holds(d)' /\ \A c \in Delivery \ {d} : Holds(c)' <=> Holds(c)
    BY <2>1, Moved DEF Holds
  <2> HIDE DEF Holds
  <2>3. e \in shown => e \in evicted
    BY <2>2 DEF ClaimInv
  <2>4. \A c \in Delivery : Holds(c)' => Carries[c] # e \/ e \in evicted
    BY <2>2 DEF ClaimInv
  <2> QED BY <2>1, <2>2, <2>3, <2>4 DEF ClaimInv, ShownOnce
<1>7. ASSUME Kill PROVE ClaimInv'
  <2>1. \A d \in Delivery : Holds(d)' => Holds(d)
    BY <1>7 DEF Kill, Holds, TypeOK, Deliveries
  <2>2. UNCHANGED <<claimed, evicted, shown, shownAgain>>
    BY <1>7 DEF Kill
  <2> QED BY <2>1, <2>2, ClaimsStay
<1>8. ASSUME NEW r \in Slot,
             \/ \E k \in Kind, g \in 0 .. settings.generation : Ask(r, k, g)
             \/ Change(r) \/ Supersede(r) \/ Announce(r) \/ Refuse(r) \/ Close(r)
      PROVE  ClaimInv'
  <2>1. (Change(r) \/ Supersede(r) \/ Announce(r) \/ Refuse(r) \/ Close(r)) => UNCHANGED deliveryVars
    BY DEF Change, Supersede, Announce, Refuse, Close
  <2>2. (\E k \in Kind, g \in 0 .. settings.generation : Ask(r, k, g)) => UNCHANGED deliveryVars
    BY DEF Ask, Post
  <2> QED BY <2>1, <2>2, <1>8, <1>1
<1>9. ASSUME NEW p \in Page, Handle(p) \/ Leave(p) \/ Enter(p) \/ \E e \in Event : Click(e, p)
      PROVE  ClaimInv'
  BY <1>9, <1>1 DEF Handle, Leave, Enter, Click
<1>10. ASSUME UNCHANGED workerVars PROVE ClaimInv'
  BY <1>10, <1>1 DEF workerVars
<1> QED
  BY <1>2, <1>3, <1>4, <1>5, <1>6, <1>7, <1>8, <1>9, <1>10 DEF WorkerNext

-----------------------------------------------------------------------------
(* The two looks at the settings.                                           *)

\* The generation stays, and no push takes a step towards being shown.
LEMMA LooksStay ==
  ASSUME TypeOK, LookInv, UNCHANGED <<settings, retired>>,
         \A d \in Delivery : delivery'[d] = delivery[d] \/ delivery'[d].step \in {"releasing", "done"}
  PROVE  LookInv'
BY DEF LookInv, Between, TypeOK

\* A change retires what is between its looks, and only what saw the generation there is
\* passes the second.
LEMMA LookStep == TypeOK /\ LookInv /\ [WorkerNext]_workerVars => LookInv'
<1> SUFFICES ASSUME TypeOK, LookInv, [WorkerNext]_workerVars PROVE LookInv'
  OBVIOUS
<1>0. settings.generation \in Nat /\ \A d \in Delivery : delivery[d].seen \in Nat
  BY DEF TypeOK, Settings, Deliveries
<1>1. ASSUME UNCHANGED <<settings, delivery, retired>> PROVE LookInv'
  BY <1>1, LooksStay
<1>2. ASSUME NEW r \in Slot, Change(r) PROVE LookInv'
  <2> DEFINE q == request[r]
  <2>1. /\ settings' = Updated(q) /\ delivery' = delivery
        /\ retired' = IF q.kind = "enable" THEN retired ELSE retired \cup Between
    BY <1>2 DEF Change, deliveryVars
  <2>2. settings'.generation =
          IF q.kind = "enable" THEN settings.generation ELSE settings.generation + 1
    BY <2>1, UpdatedType DEF TypeOK
  <2>3. Between' = Between /\ \A d \in Between : d \in Delivery /\ delivery[d].step \in {"claiming", "checking"}
    BY <2>1 DEF Between
  <2> HIDE DEF q
  <2>4. CASE q.kind = "enable"
    BY <2>4, <2>1, <2>2, <2>3 DEF LookInv
  <2>5. CASE q.kind # "enable"
    <3>1. \A d \in Between : delivery[d].seen < settings'.generation
      BY <2>5, <2>2, <2>3, <1>0 DEF LookInv
    <3>2. retired' = retired \cup Between
      BY <2>1, <2>5
    <3> QED BY <3>1, <3>2, <2>1, <2>2, <2>3, <2>5, <1>0 DEF LookInv
  <2> QED BY <2>4, <2>5
<1>3. ASSUME NEW d \in Delivery, Receive(d) PROVE LookInv'
  <2>1. delivery[d].step = "waiting" /\ UNCHANGED <<settings, retired>> /\ d \notin retired
    BY <1>3 DEF Receive, LookInv
  <2>2. CASE Moves(d, "done")
    BY <2>1, <2>2, Moved, LooksStay
  <2>3. CASE delivery' = [delivery EXCEPT ![d] = [step |-> "claiming", seen |-> settings.generation]]
    <3>1. /\ delivery'[d].step = "claiming" /\ delivery'[d].seen = settings.generation
          /\ \A c \in Delivery \ {d} : delivery'[c] = delivery[c]
      BY <2>3 DEF TypeOK
    <3> QED BY <3>1, <2>1, <1>0 DEF LookInv, Between, TypeOK
  <2> QED BY <2>2, <2>3, <1>3 DEF Receive
<1>4. ASSUME NEW d \in Delivery, Claim(d) PROVE LookInv'
  <2>1. PICK step \in {"done", "checking"} : Moves(d, step)
    BY <1>4 DEF Claim
  <2>2. delivery[d].step = "claiming" /\ UNCHANGED <<settings, retired>>
    BY <1>4 DEF Claim
  <2>3. /\ delivery'[d].step = step /\ delivery'[d].seen = delivery[d].seen
        /\ \A c \in Delivery \ {d} : delivery'[c] = delivery[c]
    BY <2>1, Moved
  <2> QED BY <2>2, <2>3 DEF LookInv, Between, TypeOK
<1>5. ASSUME NEW d \in Delivery, Recheck(d) PROVE LookInv'
  <2> DEFINE agrees == settings.enabled /\ settings.generation = delivery[d].seen
  <2>1. /\ delivery[d].step = "checking" /\ UNCHANGED <<settings, retired>>
        /\ Moves(d, IF agrees THEN "showing" ELSE "done")
    BY <1>5 DEF Recheck
  <2>2. CASE ~agrees
    BY <2>1, <2>2, Moved, LooksStay
  <2>3. CASE agrees
    <3>1. d \notin retired
      BY <2>1, <2>3, <1>0 DEF LookInv, Between
    <3>2. /\ delivery'[d].step = "showing"
          /\ \A c \in Delivery \ {d} : delivery'[c] = delivery[c]
      BY <2>1, <2>3, Moved
    <3> HIDE DEF agrees
    <3> QED BY <3>1, <3>2, <2>1 DEF LookInv, Between, TypeOK
  <2> QED BY <2>2, <2>3
<1>6. ASSUME NEW d \in Delivery,
             Show(d) \/ ShowFails(d) \/ Release(d) \/ StorageFails(d)
      PROVE  LookInv'
  <2>1. PICK step \in {"releasing", "done"} : Moves(d, step)
    BY <1>6 DEF Show, ShowFails, Release, StorageFails
  <2>2. UNCHANGED <<settings, retired>>
    BY <1>6 DEF Show, ShowFails, Release, StorageFails
  <2> QED BY <2>1, <2>2, Moved, LooksStay
<1>7. ASSUME Kill PROVE LookInv'
  <2>1. UNCHANGED <<settings, retired>>
    BY <1>7 DEF Kill
  <2>2. \A d \in Delivery : delivery'[d] = delivery[d] \/ delivery'[d].step = "done"
    BY <1>7 DEF Kill, TypeOK, Deliveries
  <2> QED BY <2>1, <2>2, LooksStay
<1>8. ASSUME NEW r \in Slot,
             \/ \E k \in Kind, g \in 0 .. settings.generation : Ask(r, k, g)
             \/ Supersede(r) \/ Announce(r) \/ Refuse(r) \/ Close(r)
      PROVE  LookInv'
  <2>1. (Supersede(r) \/ Announce(r) \/ Refuse(r) \/ Close(r))
        => UNCHANGED <<settings, deliveryVars, retired>>
    BY DEF Supersede, Announce, Refuse, Close
  <2>2. (\E k \in Kind, g \in 0 .. settings.generation : Ask(r, k, g))
        => UNCHANGED <<settings, deliveryVars, retired>>
    BY DEF Ask, Post
  <2>3. UNCHANGED <<settings, deliveryVars, retired>>
    BY <2>1, <2>2, <1>8
  <2> QED BY <2>3, <1>1 DEF deliveryVars
<1>9. ASSUME NEW p \in Page, Handle(p) \/ Leave(p) \/ Enter(p) \/ \E e \in Event : Click(e, p)
      PROVE  LookInv'
  BY <1>9, <1>1 DEF Handle, Leave, Enter, Click, deliveryVars
<1>10. ASSUME UNCHANGED workerVars PROVE LookInv'
  BY <1>10, <1>1 DEF workerVars, deliveryVars
<1> QED
  BY <1>2, <1>3, <1>4, <1>5, <1>6, <1>7, <1>8, <1>9, <1>10 DEF WorkerNext

-----------------------------------------------------------------------------
(* Choices.                                                                 *)

\* Nothing is chosen, and no request to enable is made.
LEMMA ChoicesStay ==
  ASSUME TypeOK, ChoiceInv, UNCHANGED <<settings, choice, granted>>,
         \A r \in Slot : request'[r].step = "sent" => request'[r] = request[r]
  PROVE  ChoiceInv'
BY DEF ChoiceInv, DisableRetiresEnable

\* A begin is the only change that grants a generation, and a disable makes one that none
\* granted.
LEMMA ChoiceStep == TypeOK /\ ChoiceInv /\ [WorkerNext]_workerVars => ChoiceInv'
<1> SUFFICES ASSUME TypeOK, ChoiceInv, [WorkerNext]_workerVars PROVE ChoiceInv'
  OBVIOUS
<1>0. /\ settings.generation \in Nat /\ granted \subseteq Nat
      /\ request \in [Slot -> Requests]
      /\ \A r \in Slot : request[r].kind \in Kind
  BY DEF TypeOK, Settings, Requests
<1>1. ASSUME UNCHANGED <<settings, choice, granted, request>> PROVE ChoiceInv'
  BY <1>1, ChoicesStay
<1>2. ASSUME NEW r \in Slot, NEW k \in Kind, NEW g \in 0 .. settings.generation, Ask(r, k, g)
      PROVE  ChoiceInv'
  <2>1. Post(r, k, g) /\ (k = "enable" => g \in granted) /\ g \in Nat
    BY <1>2, <1>0 DEF Ask
  <2>2. /\ request'[r].step = "sent" /\ request'[r].kind = k /\ request'[r].generation = g
        /\ \A s \in Slot \ {r} : request'[s] = request[s]
    BY <2>1, PostType
  <2>3. UNCHANGED <<settings, choice, granted>>
    BY <2>1 DEF Post
  <2> QED BY <2>1, <2>2, <2>3 DEF ChoiceInv, DisableRetiresEnable
<1>3. ASSUME NEW r \in Slot, Change(r) PROVE ChoiceInv'
  <2> DEFINE q == request[r]
  <2>1. /\ q.step = "sent" /\ Permitted(q) /\ q.kind \in Kind
        /\ settings' = Updated(q)
        /\ choice' = CASE q.kind = "begin" -> "enable" [] q.kind = "disable" -> "disable"
                       [] OTHER -> choice
        /\ granted' = IF q.kind = "begin" THEN granted \cup {settings.generation + 1} ELSE granted
    BY <1>3, <1>0 DEF Change
  <2>2. /\ settings'.generation =
             IF q.kind = "enable" THEN settings.generation ELSE settings.generation + 1
        /\ settings'.enabled => q.kind = "enable"
    BY <2>1, <1>0, UpdatedType
  <2>3. \A s \in Slot : request'[s].step = "sent" => request'[s] = request[s]
    <3>1. request' = [request EXCEPT ![r] = [q EXCEPT !.step = "announcing",
                                                      !.reply = ReplyTo(TRUE, Updated(q))]]
      BY <1>3 DEF Change
    <3>2. q \in Requests
      BY <1>0
    <3>3. request'[r].step = "announcing" /\ \A s \in Slot \ {r} : request'[s] = request[s]
      BY <3>1, <3>2, <1>0 DEF Requests
    <3> QED BY <3>3
  <2>4. granted \subseteq granted'
    BY <2>1
  <2>5. \A s \in Slot : request'[s].step = "sent" /\ request'[s].kind = "enable"
                         => request'[s].generation \in granted'
    BY <2>3, <2>4 DEF ChoiceInv
  <2>6. q.kind = "enable" => settings.generation \in granted
    BY <2>1 DEF ChoiceInv, Permitted
  <2> HIDE DEF q
  <2>7. CASE q.kind = "enable"
    <3>1. /\ choice' = choice /\ granted' = granted
          /\ settings'.generation = settings.generation
      BY <2>7, <2>1, <2>2
    <3>2. choice = "enable"
      BY <2>6, <2>7 DEF ChoiceInv
    <3> QED BY <3>1, <3>2, <2>5 DEF ChoiceInv, DisableRetiresEnable
  <2>8. CASE q.kind = "begin"
    <3>1. /\ choice' = "enable" /\ granted' = granted \cup {settings.generation + 1}
          /\ settings'.generation = settings.generation + 1
      BY <2>8, <2>1, <2>2
    <3>2. \A g \in granted' : g <= settings'.generation
      BY <3>1, <1>0 DEF ChoiceInv
    <3> QED BY <3>1, <3>2, <2>5 DEF ChoiceInv, DisableRetiresEnable
  <2>9. CASE q.kind = "disable"
    <3>1. granted' = granted /\ settings'.generation = settings.generation + 1 /\ ~settings'.enabled
      BY <2>9, <2>1, <2>2
    <3>2. settings'.generation \notin granted' /\ \A g \in granted' : g <= settings'.generation
      BY <3>1, <1>0 DEF ChoiceInv
    <3> QED BY <3>1, <3>2, <2>5 DEF ChoiceInv, DisableRetiresEnable
  <2> QED BY <2>1, <2>7, <2>8, <2>9 DEF Kind
<1>4. ASSUME NEW r \in Slot, Supersede(r) \/ Announce(r) \/ Refuse(r) \/ Close(r)
      PROVE  ChoiceInv'
  <2>1. /\ request'[r].step \in {"answered", "refused", "free"}
        /\ \A s \in Slot \ {r} : request'[s] = request[s]
    <3>1. request[r] \in Requests
      BY <1>0
    <3>2. CASE Supersede(r)
      <4>1. request' = [request EXCEPT ![r] = [request[r] EXCEPT !.step = "answered",
                                                    !.reply = ReplyTo(FALSE, settings)]]
        BY <3>2 DEF Supersede
      <4> QED BY <4>1, <3>1, <1>0 DEF Requests
    <3>3. CASE Announce(r) \/ Refuse(r)
      BY <3>3, <3>1, <1>0 DEF Announce, Refuse, Requests
    <3>4. CASE Close(r)
      BY <3>4, <1>0 DEF Close, Free
    <3> QED BY <3>2, <3>3, <3>4, <1>4
  <2>2. UNCHANGED <<settings, choice, granted>>
    BY <1>4 DEF Supersede, Announce, Refuse, Close
  <2> QED BY <2>1, <2>2, ChoicesStay
<1>5. ASSUME Kill PROVE ChoiceInv'
  <2>1. UNCHANGED <<settings, choice, granted>>
    BY <1>5 DEF Kill
  <2>2. \A r \in Slot : request'[r].step = "sent" => request'[r] = request[r]
    BY <1>5, <1>0 DEF Kill, Requests
  <2> QED BY <2>1, <2>2, ChoicesStay
<1>6. ASSUME NEW d \in Delivery,
             \/ Receive(d) \/ Claim(d) \/ Recheck(d) \/ Show(d)
             \/ ShowFails(d) \/ Release(d) \/ StorageFails(d)
      PROVE  ChoiceInv'
  BY <1>6, <1>1 DEF Receive, Claim, Recheck, Show, ShowFails, Release, StorageFails, requestVars
<1>7. ASSUME NEW p \in Page, Handle(p) \/ Leave(p) \/ Enter(p) \/ \E e \in Event : Click(e, p)
      PROVE  ChoiceInv'
  BY <1>7, <1>1 DEF Handle, Leave, Enter, Click, requestVars
<1>8. ASSUME UNCHANGED workerVars PROVE ChoiceInv'
  BY <1>8, <1>1 DEF workerVars, requestVars
<1> QED
  BY <1>2, <1>3, <1>4, <1>5, <1>6, <1>7, <1>8 DEF WorkerNext

-----------------------------------------------------------------------------
(* The theorems.                                                            *)

\* The strengthened invariant of the worker is inductive.
THEOREM Invariance == WorkerSpec => []IInv
<1>1. IInv /\ [WorkerNext]_workerVars => IInv'
  BY TypeStep, ClaimStep, LookStep, ChoiceStep DEF IInv
<1> QED BY <1>1, Initially, PTL DEF WorkerSpec

\* The settings, claims, requests and pushes of the worker keep their types.
THEOREM TypeCorrect == WorkerSpec => []TypeOK
<1>1. IInv => TypeOK
  BY DEF IInv
<1> QED BY <1>1, Invariance, PTL

\* An event whose claim was not evicted is shown once, however often it is pushed and
\* whatever fails or dies in between.
THEOREM OneNotification == WorkerSpec => []ShownOnce
<1>1. IInv => ShownOnce
  BY DEF IInv, ClaimInv
<1> QED BY <1>1, Invariance, PTL

\* A push that a Disable, or a new Enable, found between its two looks is never shown.
THEOREM RetiredIsNotShown == WorkerSpec => []ChangeRetiresPushes
<1>1. IInv => ChangeRetiresPushes
  BY DEF IInv, LookInv, ChangeRetiresPushes
<1> QED BY <1>1, Invariance, PTL

\* Notifications are on only while to enable them is the last choice that was persisted.
THEOREM LastChoiceWins == WorkerSpec => []DisableRetiresEnable
<1>1. IInv => DisableRetiresEnable
  BY DEF IInv, ChoiceInv
<1> QED BY <1>1, Invariance, PTL

-----------------------------------------------------------------------------
(* The windows.                                                             *)

\* Steps in which a window waits for the answer to a request, and what it asked.
Awaiting == {"beginning", "enabling", "disabling"}
KindOf(step) == CASE step = "beginning" -> "begin" [] step = "enabling" -> "enable"
                  [] OTHER -> "disable"

\* A reply names no generation that is still to come, and of a begin that was applied one
\* that it created.
AnswerIs(r) ==
  request[r].step \in {"announcing", "answered"} =>
    /\ request[r].reply.generation <= settings.generation
    /\ request[r].kind = "begin" /\ request[r].reply.applied
         => request[r].reply.generation \in granted

AnswerInv == \A r \in Slot : AnswerIs(r)

\* A window knows no generation that is still to come, and keeps for its enable one that
\* a begin created.
Knows(w) ==
  /\ w.generation <= settings.generation /\ w.found.generation <= settings.generation
  /\ w.step \in {"subscribing", "registering"} => w.token \in granted

\* A window that waits has a request of its kind,
Waits(w) ==
  w.step \in Awaiting => /\ w.slot \in Slot
                       /\ request[w.slot].step # "free" /\ request[w.slot].kind = KindOf(w.step)

\* which is its own.
AskInv ==
  /\ \A t \in Page : Knows(tab[t]) /\ Waits(tab[t])
  /\ \A t, u \in Page :
       tab[t].step \in Awaiting /\ tab[u].step \in Awaiting /\ tab[t].slot = tab[u].slot => t = u

TabsInv == TabsTypeOK /\ IInv /\ AnswerInv /\ AskInv

-----------------------------------------------------------------------------
(* What the worker does to the windows.                                     *)

\* The generation only grows, and so does what begins created.
LEMMA Grows ==
  ASSUME TypeOK, [WorkerNext]_workerVars
  PROVE  settings'.generation >= settings.generation /\ granted \subseteq granted'
<1>1. settings.generation \in Nat /\ settings \in Settings
  BY DEF TypeOK, Settings
<1>2. ASSUME NEW r \in Slot, Change(r)
      PROVE  settings'.generation >= settings.generation /\ granted \subseteq granted'
  <2>1. settings' = Updated(request[r]) /\ granted \subseteq granted'
    BY <1>2 DEF Change
  <2>2. settings'.generation \in {settings.generation, settings.generation + 1}
    BY <2>1 DEF Updated
  <2> QED BY <1>1, <2>1, <2>2
<1>3. CASE UNCHANGED <<settings, granted>>
  BY <1>1, <1>3
<1>4. CASE UNCHANGED workerVars
  BY <1>3, <1>4 DEF workerVars, requestVars
<1>5. ASSUME NEW r \in Slot, Supersede(r) \/ Announce(r) \/ Refuse(r) \/ Close(r)
      PROVE  UNCHANGED <<settings, granted>>
  BY <1>5 DEF Supersede, Announce, Refuse, Close
<1>9. ASSUME NEW r \in Slot, NEW k \in Kind, NEW g \in 0 .. settings.generation, Ask(r, k, g)
      PROVE  UNCHANGED <<settings, granted>>
  BY <1>9 DEF Ask, Post
<1>6. ASSUME NEW d \in Delivery,
             \/ Receive(d) \/ Claim(d) \/ Recheck(d) \/ Show(d)
             \/ ShowFails(d) \/ Release(d) \/ StorageFails(d)
      PROVE  UNCHANGED <<settings, granted>>
  <2>1. UNCHANGED <<settings, requestVars>>
    <3>1. (Receive(d) \/ Recheck(d) \/ Show(d) \/ ShowFails(d)) => UNCHANGED <<settings, requestVars>>
      BY DEF Receive, Recheck, Show, ShowFails
    <3>2. (Claim(d) \/ Release(d) \/ StorageFails(d)) => UNCHANGED <<settings, requestVars>>
      BY DEF Claim, Release, StorageFails
    <3> QED BY <3>1, <3>2, <1>6
  <2> QED BY <2>1 DEF requestVars
<1>7. ASSUME NEW p \in Page, Handle(p) \/ Leave(p) \/ Enter(p) \/ \E e \in Event : Click(e, p)
      PROVE  UNCHANGED <<settings, granted>>
  BY <1>7 DEF Handle, Leave, Enter, Click, requestVars
<1>8. Kill => UNCHANGED <<settings, granted>>
  BY DEF Kill
<1> QED BY <1>2, <1>3, <1>4, <1>5, <1>6, <1>7, <1>8, <1>9 DEF WorkerNext

\* A request goes on as what it was.
Same(r) ==
  request[r].step # "free" => request'[r].step # "free" /\ request'[r].kind = request[r].kind

Goes(s) == Change(s) \/ Supersede(s) \/ Announce(s) \/ Refuse(s)
Posts   == \E s \in Slot, k \in Kind, g \in Nat : Post(s, k, g)

LEMMA Persists ==
  ASSUME TypeOK, NEW r \in Slot, (\E s \in Slot : Goes(s)) \/ Posts \/ Kill \/ UNCHANGED request
  PROVE  Same(r)
<1>1. request \in [Slot -> Requests]
  BY DEF TypeOK
<1>2. ASSUME NEW s \in Slot, Goes(s) PROVE Same(r)
  <2>1. request[s] \in Requests
    BY <1>1
  <2>2. /\ request'[s].step # "free" /\ request'[s].kind = request[s].kind
        /\ s # r => request'[r] = request[r]
    <3>1. CASE Change(s)
      <4>1. request' = [request EXCEPT ![s] = [request[s] EXCEPT !.step = "announcing",
                                         !.reply = ReplyTo(TRUE, Updated(request[s]))]]
        BY <3>1 DEF Change
      <4> QED BY <4>1, <2>1, <1>1 DEF Requests
    <3>2. CASE Supersede(s)
      <4>1. request' = [request EXCEPT ![s] = [request[s] EXCEPT !.step = "answered",
                                                    !.reply = ReplyTo(FALSE, settings)]]
        BY <3>2 DEF Supersede
      <4> QED BY <4>1, <2>1, <1>1 DEF Requests
    <3>3. CASE Announce(s) \/ Refuse(s)
      BY <3>3, <2>1, <1>1 DEF Announce, Refuse, Requests
    <3> QED BY <3>1, <3>2, <3>3, <1>2 DEF Goes
  <2> QED BY <2>2 DEF Same
<1>3. ASSUME NEW s \in Slot, NEW k \in Kind, NEW g \in Nat, Post(s, k, g) PROVE Same(r)
  <2>1. request[s] = Free /\ request' = [request EXCEPT ![s] =
             [Free EXCEPT !.step = "sent", !.kind = k, !.generation = g]]
    BY <1>3 DEF Post
  <2>2. request[s].step = "free"
    BY <2>1 DEF Free
  <2>3. s # r => request'[r] = request[r]
    BY <2>1, <1>1
  <2>4. s = r \/ s # r
    OBVIOUS
  <2> QED BY <2>2, <2>3, <2>4 DEF Same
<1>4. CASE Kill
  <2>1. request[r] \in Requests
    BY <1>1
  <2>2. request'[r] = request[r] \/ request'[r] = [request[r] EXCEPT !.step = "lost"]
    BY <1>4 DEF Kill
  <2> QED BY <2>1, <2>2 DEF Same, Requests
<1>5. CASE UNCHANGED request
  BY <1>5 DEF Same
<1> QED BY <1>2, <1>3, <1>4, <1>5 DEF Posts

\* An answer comes from a change or from its refusal, and stays what it was.
LEMMA RequestStep ==
  ASSUME TypeOK, [WorkerNext]_workerVars, NEW r \in Slot
  PROVE  \/ request'[r].step \notin {"announcing", "answered"}
         \/ /\ request[r].step \in {"announcing", "answered"}
            /\ request'[r].kind = request[r].kind /\ request'[r].reply = request[r].reply
            /\ request'[r].step = request[r].step \/ Announce(r)
         \/ Change(r) \/ Supersede(r)
<1> DEFINE Goal == \/ request'[r].step \notin {"announcing", "answered"}
                   \/ /\ request[r].step \in {"announcing", "answered"}
                      /\ request'[r].kind = request[r].kind /\ request'[r].reply = request[r].reply
                      /\ request'[r].step = request[r].step \/ Announce(r)
                   \/ Change(r) \/ Supersede(r)
<1>1. /\ request \in [Slot -> Requests] /\ request[r] \in Requests
      /\ settings \in Settings /\ settings.generation \in Nat
  BY DEF TypeOK, Settings
<1>2. CASE request'[r] = request[r]
  BY <1>2
<1>3. ASSUME NEW k \in Kind, NEW g \in 0 .. settings.generation, NEW s \in Slot, Ask(s, k, g)
      PROVE  Goal
  <2>1. Post(s, k, g) /\ g \in Nat
    BY <1>1, <1>3 DEF Ask
  <2>2. request'[s].step = "sent" /\ (s # r => request'[r] = request[r])
    BY <2>1, PostType
  <2> QED BY <2>2, <1>2
<1>4. ASSUME NEW s \in Slot, s # r, Change(s) \/ Supersede(s) \/ Announce(s) \/ Refuse(s) \/ Close(s)
      PROVE  Goal
  <2>1. request'[r] = request[r]
    BY <1>1, <1>4 DEF Change, Supersede, Announce, Refuse, Close
  <2> QED BY <2>1, <1>2
<1>5. CASE Change(r) \/ Supersede(r)
  BY <1>5
<1>6. CASE Announce(r) \/ Refuse(r) \/ Close(r)
  <2>1. CASE Announce(r)
    <3>1. request[r].step = "announcing" /\ request' = [request EXCEPT ![r].step = "answered"]
      BY <2>1 DEF Announce
    <3>2. request'[r].kind = request[r].kind /\ request'[r].reply = request[r].reply
      BY <3>1, <1>1 DEF Requests
    <3> QED BY <2>1, <3>1, <3>2
  <2>2. CASE Refuse(r) \/ Close(r)
    BY <2>2, <1>1 DEF Refuse, Close, Requests, Free
  <2> QED BY <1>6, <2>1, <2>2
<1>7. CASE Kill
  <2>1. request'[r] = request[r] \/ request'[r] = [request[r] EXCEPT !.step = "lost"]
    BY <1>7 DEF Kill
  <2>2. request'[r] = request[r] \/ request'[r].step = "lost"
    BY <2>1, <1>1 DEF Requests
  <2> QED BY <2>2, <1>2
<1>8. ASSUME NEW d \in Delivery,
             \/ Receive(d) \/ Claim(d) \/ Recheck(d) \/ Show(d)
             \/ ShowFails(d) \/ Release(d) \/ StorageFails(d)
      PROVE  UNCHANGED request
  <2>1. UNCHANGED requestVars
    <3>1. (Receive(d) \/ Recheck(d) \/ Show(d) \/ ShowFails(d)) => UNCHANGED requestVars
      BY DEF Receive, Recheck, Show, ShowFails
    <3>2. (Claim(d) \/ Release(d) \/ StorageFails(d)) => UNCHANGED requestVars
      BY DEF Claim, Release, StorageFails
    <3> QED BY <3>1, <3>2, <1>8
  <2> QED BY <2>1 DEF requestVars
<1>9. ASSUME NEW p \in Page, Handle(p) \/ Leave(p) \/ Enter(p) \/ \E e \in Event : Click(e, p)
      PROVE  UNCHANGED request
  BY <1>9 DEF Handle, Leave, Enter, Click, requestVars
<1>10. CASE UNCHANGED workerVars
  BY <1>10, <1>2 DEF workerVars, requestVars
<1> HIDE DEF Goal
<1>11. UNCHANGED request => Goal
  BY <1>2 DEF Goal
<1>12. Goal
  BY <1>3, <1>4, <1>5, <1>6, <1>7, <1>8, <1>9, <1>10, <1>11 DEF WorkerNext, Goal
<1> QED BY <1>12 DEF Goal

\* An answer that stays what it was stays right.
LEMMA AnswersStay ==
  ASSUME TypeOK, AnswerInv, [WorkerNext]_workerVars, NEW r \in Slot,
         request'[r].step \in {"announcing", "answered"} =>
           /\ request[r].step \in {"announcing", "answered"}
           /\ request'[r].kind = request[r].kind /\ request'[r].reply = request[r].reply
  PROVE  AnswerIs(r)'
<1>1. settings'.generation >= settings.generation /\ granted \subseteq granted'
  BY Grows
<1>2. settings.generation \in Nat /\ settings'.generation \in Nat
  <2>1. TypeOK'
    BY TypeStep
  <2> QED BY <2>1 DEF TypeOK, Settings
<1>3. request[r].reply.generation \in Nat
  BY DEF TypeOK, Requests, Reply
<1>4. AnswerIs(r)
  BY DEF AnswerInv
<1> QED BY <1>1, <1>2, <1>3, <1>4 DEF AnswerIs

LEMMA AnswerStep == TypeOK /\ AnswerInv /\ [WorkerNext]_workerVars => AnswerInv'
<1> SUFFICES ASSUME TypeOK, AnswerInv, [WorkerNext]_workerVars, NEW r \in Slot
             PROVE  AnswerIs(r)'
  BY DEF AnswerInv
<1>1. /\ request \in [Slot -> Requests] /\ request[r] \in Requests
      /\ settings \in Settings /\ settings.generation \in Nat
  BY DEF TypeOK, Settings
<1>2. CASE Change(r)
  <2>1. /\ settings' = Updated(request[r])
        /\ granted' = IF request[r].kind = "begin" THEN granted \cup {settings.generation + 1}
                                                   ELSE granted
        /\ request' = [request EXCEPT ![r] = [request[r] EXCEPT !.step = "announcing",
                                                   !.reply = ReplyTo(TRUE, Updated(request[r]))]]
    BY <1>2 DEF Change
  <2>2. /\ request'[r].kind = request[r].kind
        /\ request'[r].reply = ReplyTo(TRUE, settings')
    BY <2>1, <1>1 DEF Requests
  <2>3. request'[r].reply.generation = settings'.generation
    BY <2>2 DEF ReplyTo
  <2>4. /\ settings'.generation =
             IF request[r].kind = "enable" THEN settings.generation ELSE settings.generation + 1
        /\ settings'.generation \in Nat
    BY <2>1, <1>1, UpdatedType
  <2>5. request'[r].kind = "begin" => request'[r].reply.generation \in granted'
    <3>1. request[r].kind = "begin" => settings'.generation \in granted'
      BY <2>1, <2>4
    <3> QED BY <3>1, <2>2, <2>3
  <2>6. request'[r].reply.generation <= settings'.generation
    BY <2>3, <2>4
  <2> QED BY <2>5, <2>6 DEF AnswerIs
<1>3. CASE Supersede(r)
  <2>1. /\ settings' = settings
        /\ request' = [request EXCEPT ![r] = [request[r] EXCEPT !.step = "answered",
                                                   !.reply = ReplyTo(FALSE, settings)]]
    BY <1>3 DEF Supersede
  <2>2. request'[r].reply = ReplyTo(FALSE, settings)
    BY <2>1, <1>1 DEF Requests
  <2>3. request'[r].reply.generation = settings.generation /\ request'[r].reply.applied = FALSE
    BY <2>2 DEF ReplyTo
  <2>4. request'[r].reply.generation <= settings'.generation
    <3>1. settings'.generation = settings.generation
      BY <2>1
    <3> QED BY <3>1, <2>3, <1>1
  <2> QED BY <2>3, <2>4 DEF AnswerIs
<1> QED BY <1>2, <1>3, RequestStep, AnswersStay

-----------------------------------------------------------------------------
(* What a window becomes.                                                   *)

\* What its operations make of a window changes neither what it knows of the worker, nor
\* its type; an operation that ends asks nothing.
Alike(v, w) == v \in Window /\ v.generation = w.generation /\ v.found = w.found

LEMMA Finished ==
  ASSUME NEW w \in Window, NEW trouble \in BOOLEAN
  PROVE  Alike(Finish(w, trouble), w) /\ Finish(w, trouble).step = "idle"
<1> DEFINE done == [w EXCEPT !.step = "idle", !.slot = 0, !.token = 0, !.endpoint = 0,
                             !.rerun = FALSE, !.trouble = trouble]
<1>1. Alike(done, w) /\ done.step = "idle"
  BY DEF Alike, Window
<1>2. Finish(w, trouble) = IF w.rerun THEN [Asking(done) EXCEPT !.kept = trouble] ELSE done
  BY DEF Finish
<1> HIDE DEF done
<1>3. done \in Window
  BY <1>1 DEF Alike
<1>4. Alike([Asking(done) EXCEPT !.kept = trouble], done)
      /\ [Asking(done) EXCEPT !.kept = trouble].step = done.step
  BY <1>3 DEF Asking, Alike, Window
<1> QED BY <1>1, <1>2, <1>4 DEF Alike

LEMMA Failed ==
  ASSUME NEW w \in Window
  PROVE  Alike(Fail(w), w) /\ Fail(w).step = "idle"
<1> DEFINE v == IF w.step \in {"beginning", "subscribing", "registering", "enabling"}
                THEN [w EXCEPT !.registered = FALSE] ELSE w
<1>1. Alike(v, w)
  <2>1. Alike([w EXCEPT !.registered = FALSE], w)
    BY DEF Alike, Window
  <2>2. Alike(w, w)
    BY DEF Alike
  <2>3. v = w \/ v = [w EXCEPT !.registered = FALSE]
    OBVIOUS
  <2> QED BY <2>1, <2>2, <2>3
<1>2. Fail(w) = Finish(v, TRUE)
  BY DEF Fail
<1> HIDE DEF v
<1>3. v \in Window
  BY <1>1 DEF Alike
<1>4. Alike(Finish(v, TRUE), v) /\ Finish(v, TRUE).step = "idle"
  BY <1>3, Finished
<1> QED BY <1>1, <1>2, <1>4 DEF Alike

LEMMA Started ==
  ASSUME tab \in [Page -> Window], NEW t \in Page,
         NEW step \in {"idle", "beginning", "disabling", "saving"}
  PROVE  Alike(Starts(t, step), tab[t]) /\ Starts(t, step).step = step
<1> DEFINE w == Dropping(tab[t])
<1>1. tab[t] \in Window
  OBVIOUS
<1>2. Alike(w, tab[t])
  <2>1. PICK behind \in BOOLEAN : behind = (tab[t].behind \/ tab[t].refresh # "none")
    OBVIOUS
  <2>2. Alike([tab[t] EXCEPT !.refresh = "none", !.kept = FALSE, !.behind = behind], tab[t])
    BY <1>1 DEF Alike, Window
  <2> QED BY <2>1, <2>2, Zenon DEF Dropping
<1>3. Starts(t, step) = [w EXCEPT !.step = step, !.trouble = FALSE]
  BY DEF Starts
<1> HIDE DEF w
<1>4. w \in Window
  BY <1>2 DEF Alike
<1>5. /\ Alike([w EXCEPT !.step = step, !.trouble = FALSE], w)
      /\ [w EXCEPT !.step = step, !.trouble = FALSE].step = step
  BY <1>4 DEF Alike, Window
<1> QED BY <1>2, <1>3, <1>5 DEF Alike

\* A window that takes the answer to its request learns the generation of the worker.
LEMMA Learns ==
  ASSUME TabsTypeOK, NEW t \in Page, tab[t].slot \in Slot
  PROVE  /\ Told(t) \in Window /\ Told(t).step = tab[t].step
         /\ Told(t).found = tab[t].found
         /\ Told(t).generation = request[tab[t].slot].reply.generation
<1>1. tab[t] \in Window /\ request[tab[t].slot].reply \in Reply
  BY DEF TabsTypeOK, TypeOK, Requests
<1>2. /\ request[tab[t].slot].reply.enabled \in BOOLEAN
      /\ request[tab[t].slot].reply.generation \in Nat
  BY <1>1 DEF Reply
<1> QED BY <1>1, <1>2 DEF Told, Window

-----------------------------------------------------------------------------
(* One window's turn.                                                       *)

BrowserOK == subscription \in Nat /\ made \in Nat /\ registered \subseteq Nat

\* The invariant is kept if what the window becomes knows no more than it may, the other
\* windows keep their requests, and the request that it waits for, if any, is its own.
LEMMA Turn ==
  ASSUME TabsInv, [WorkerNext]_workerVars, BrowserOK',
         NEW t \in Page, NEW w \in Window, Becomes(t, w), Knows(w),
         \A u \in Page \ {t} : tab[u].step \in Awaiting => Same(tab[u].slot),
         w.step \in Awaiting =>
           /\ w.slot \in Slot
           /\ request'[w.slot].step # "free" /\ request'[w.slot].kind = KindOf(w.step)
           /\ \A u \in Page \ {t} : tab[u].step \in Awaiting => tab[u].slot # w.slot
  PROVE  TabsInv'
<1>1. TabsTypeOK /\ TypeOK /\ IInv /\ AnswerInv /\ AskInv
  BY DEF TabsInv, TabsTypeOK
<1>2. IInv' /\ AnswerInv' /\ TypeOK'
  BY <1>1, TypeStep, ClaimStep, LookStep, ChoiceStep, AnswerStep DEF IInv
<1>3. /\ tab \in [Page -> Window] /\ tab' \in [Page -> Window]
      /\ tab'[t] = w /\ \A u \in Page \ {t} : tab'[u] = tab[u]
  BY <1>1 DEF TabsTypeOK, Becomes
<1>4. ASSUME NEW v \in Window, Knows(v) PROVE Knows(v)'
  <2>1. settings'.generation >= settings.generation /\ granted \subseteq granted'
    BY <1>1, Grows
  <2>2. /\ settings.generation \in Nat /\ settings'.generation \in Nat
        /\ v.generation \in Nat /\ v.found.generation \in Nat
    BY <1>1, <1>2 DEF TypeOK, Settings, Window
  <2>3. v.generation <= settings'.generation /\ v.found.generation <= settings'.generation
    BY <1>4, <2>1, <2>2 DEF Knows
  <2>4. v.step \in {"subscribing", "registering"} => v.token \in granted'
    BY <1>4, <2>1 DEF Knows
  <2> QED BY <2>3, <2>4 DEF Knows
<1>5. AskInv'
  <2>1. ASSUME NEW u \in Page \ {t} PROVE (Knows(tab[u]) /\ Waits(tab[u]))'
    <3> DEFINE v == tab[u]
    <3>1. v \in Window /\ Knows(v) /\ Waits(v)
      BY <1>1, <1>3 DEF AskInv
    <3>2. tab'[u] = v
      BY <1>3
    <3>3. PICK c \in Window : c = v
      BY <3>1
    <3>4. Knows(c)'
      BY <3>1, <3>3, <1>4
    <3>5. c.step \in Awaiting => /\ c.slot \in Slot
                                 /\ request'[c.slot].step # "free"
                                 /\ request'[c.slot].kind = KindOf(c.step)
      BY <3>1, <3>3 DEF Waits, Same
    <3>6. Waits(c)'
      BY <3>5 DEF Waits
    <3> QED BY <3>2, <3>3, <3>4, <3>6 DEF Knows, Waits
  <2>2. (Knows(tab[t]) /\ Waits(tab[t]))'
    <3>1. Knows(w)' /\ Waits(w)'
      BY <1>4 DEF Waits
    <3> QED BY <3>1, <1>3 DEF Knows, Waits
  <2>3. ASSUME NEW u \in Page, NEW v \in Page,
               tab'[u].step \in Awaiting, tab'[v].step \in Awaiting, tab'[u].slot = tab'[v].slot
        PROVE  u = v
    BY <2>3, <1>1, <1>3 DEF AskInv
  <2> QED BY <2>1, <2>2, <2>3 DEF AskInv
<1> QED BY <1>2, <1>3, <1>5 DEF TabsInv, TabsTypeOK, BrowserOK

\* A window asks nothing, or goes on waiting for what it asked.
LEMMA QuietTurn ==
  ASSUME TabsInv, [WorkerNext]_workerVars, BrowserOK', UNCHANGED request,
         NEW t \in Page, NEW w \in Window, Becomes(t, w), Knows(w),
         w.step \in Awaiting => w.step = tab[t].step /\ w.slot = tab[t].slot
  PROVE  TabsInv'
<1>1. \A u \in Page : Waits(tab[u])
  BY DEF TabsInv, AskInv
<1>2. \A u, v \in Page :
        tab[u].step \in Awaiting /\ tab[v].step \in Awaiting /\ tab[u].slot = tab[v].slot => u = v
  BY DEF TabsInv, AskInv
<1>3. \A u \in Page \ {t} : Same(tab[u].slot)
  BY DEF Same
<1>4. w.step \in Awaiting =>
        /\ w.slot \in Slot
        /\ request'[w.slot].step # "free" /\ request'[w.slot].kind = KindOf(w.step)
        /\ \A u \in Page \ {t} : tab[u].step \in Awaiting => tab[u].slot # w.slot
  BY <1>1, <1>2 DEF Waits
<1> QED BY <1>3, <1>4, Turn

\* A window posts a request on a port that is free.
LEMMA PostTurn ==
  ASSUME TabsInv, [WorkerNext]_workerVars, BrowserOK',
         NEW t \in Page, NEW w \in Window, Becomes(t, w), Knows(w),
         NEW r \in Slot, NEW k \in Kind, NEW g \in Nat, Post(r, k, g),
         w.slot = r, k = KindOf(w.step)
  PROVE  TabsInv'
<1>1. TypeOK /\ \A u \in Page : Waits(tab[u])
  BY DEF TabsInv, TabsTypeOK, AskInv
<1>2. request[r].step = "free" /\ request'[r].step = "sent" /\ request'[r].kind = k
  <2>1. request[r].step = "free"
    BY DEF Post, Free
  <2> QED BY <2>1, <1>1, PostType
<1>3. ASSUME NEW u \in Page \ {t}, tab[u].step \in Awaiting
      PROVE  Same(tab[u].slot) /\ tab[u].slot # r
  <2>1. tab[u].slot \in Slot /\ request[tab[u].slot].step # "free"
    BY <1>1, <1>3 DEF Waits
  <2>2. Posts
    BY DEF Posts
  <2> QED BY <2>1, <2>2, <1>1, <1>2, Persists
<1> QED BY <1>2, <1>3, Turn

\* A window closes the port it waited for.
LEMMA CloseTurn ==
  ASSUME TabsInv, [WorkerNext]_workerVars, BrowserOK',
         NEW t \in Page, NEW w \in Window, Becomes(t, w), Knows(w),
         tab[t].step \in Awaiting, Close(tab[t].slot), w.step \notin Awaiting
  PROVE  TabsInv'
<1>1. TypeOK /\ \A u \in Page : Waits(tab[u])
  BY DEF TabsInv, TabsTypeOK, AskInv
<1>2. ASSUME NEW u \in Page \ {t}, tab[u].step \in Awaiting PROVE Same(tab[u].slot)
  <2>1. tab[u].slot # tab[t].slot
    BY <1>2 DEF TabsInv, AskInv
  <2>2. tab[u].slot \in Slot /\ request \in [Slot -> Requests]
    BY <1>1, <1>2 DEF Waits, TypeOK
  <2>3. request'[tab[u].slot] = request[tab[u].slot]
    BY <2>1, <2>2 DEF Close
  <2> QED BY <2>3 DEF Same
<1> QED BY <1>2, Turn

\* The windows do nothing, and keep their requests.
LEMMA NoTurn ==
  ASSUME TabsInv, [WorkerNext]_workerVars, UNCHANGED <<tab, tabsVars>>,
         \A u \in Page : tab[u].step \in Awaiting => Same(tab[u].slot)
  PROVE  TabsInv'
<1>1. TabsTypeOK /\ TypeOK /\ IInv /\ AnswerInv /\ AskInv
  BY DEF TabsInv, TabsTypeOK
<1>2. IInv' /\ AnswerInv' /\ TypeOK'
  BY <1>1, TypeStep, ClaimStep, LookStep, ChoiceStep, AnswerStep DEF IInv
<1>3. TabsTypeOK'
  BY <1>1, <1>2 DEF TabsTypeOK, tabsVars
<1>4. settings'.generation >= settings.generation /\ granted \subseteq granted'
  BY <1>1, Grows
<1>5. ASSUME NEW u \in Page PROVE (Knows(tab[u]) /\ Waits(tab[u]))'
  <2>1. tab[u] \in Window /\ Knows(tab[u]) /\ Waits(tab[u]) /\ tab'[u] = tab[u]
    BY <1>1 DEF TabsTypeOK, AskInv
  <2>2. /\ settings.generation \in Nat /\ settings'.generation \in Nat
        /\ tab[u].generation \in Nat /\ tab[u].found.generation \in Nat
    BY <2>1, <1>1, <1>2 DEF TypeOK, Settings, Window
  <2>3. /\ tab[u].generation <= settings'.generation
        /\ tab[u].found.generation <= settings'.generation
    BY <2>1, <2>2, <1>4 DEF Knows
  <2>4. tab[u].step \in {"subscribing", "registering"} => tab[u].token \in granted'
    BY <2>1, <1>4 DEF Knows
  <2>5. tab[u].step \in Awaiting => /\ tab[u].slot \in Slot
                                    /\ request'[tab[u].slot].step # "free"
                                    /\ request'[tab[u].slot].kind = KindOf(tab[u].step)
    BY <2>1 DEF Waits, Same
  <2> QED BY <2>1, <2>3, <2>4, <2>5 DEF Knows, Waits
<1>6. AskInv'
  BY <1>1, <1>5 DEF AskInv
<1> QED BY <1>1, <1>2, <1>3, <1>6 DEF TabsInv

-----------------------------------------------------------------------------
(* The actions of a window.  Each is a step of the worker, or none, and keeps the *)
(* invariant.                                                               *)

Kept == TabsInv' /\ [WorkerNext]_workerVars

\* What holds in every state.
LEMMA Facts ==
  ASSUME TabsInv, NEW t \in Page
  PROVE  /\ TabsTypeOK /\ TypeOK /\ BrowserOK /\ AskInv
         /\ tab[t] \in Window /\ Knows(tab[t]) /\ Waits(tab[t])
         /\ settings \in Settings /\ settings.generation \in Nat
BY DEF TabsInv, TabsTypeOK, TypeOK, BrowserOK, AskInv, Settings

LEMMA AlikeKnows ==
  ASSUME NEW v, NEW w, Alike(v, w), Knows(w), v.step \notin {"subscribing", "registering"}
  PROVE  Knows(v)
BY DEF Alike, Knows

\* A turn that leaves the worker alone.
LEMMA AloneTurn ==
  ASSUME TabsInv, UNCHANGED workerVars, BrowserOK',
         NEW t \in Page, NEW w \in Window, Becomes(t, w), Knows(w),
         w.step \in Awaiting => w.step = tab[t].step /\ w.slot = tab[t].slot
  PROVE  Kept
<1>1. UNCHANGED request
  BY DEF workerVars, requestVars
<1> QED BY <1>1, QuietTurn DEF Kept

LEMMA RefreshTurn ==
  ASSUME TabsInv, NEW t \in Page,
         Read(t) \/ Look(t) \/ Unverified(t) \/ Refresh(t)
  PROVE  Kept
<1>1. /\ BrowserOK /\ tab[t] \in Window /\ Knows(tab[t])
      /\ settings \in Settings /\ settings.generation \in Nat
  BY Facts
<1>2. UNCHANGED <<workerVars, tabsVars>>
  BY DEF Read, Look, Unverified, Refresh
<1>3. BrowserOK'
  BY <1>1, <1>2 DEF BrowserOK, tabsVars
<1>4. DEFAULT_SETTINGS \in Settings /\ DEFAULT_SETTINGS.generation = 0
  BY DEF DEFAULT_SETTINGS, Settings
<1>5. CASE Read(t)
  <2> DEFINE w == [tab[t] EXCEPT !.refresh = "told", !.found = settings]
  <2>1. Becomes(t, w)
    BY <1>5 DEF Read
  <2>2. /\ w \in Window /\ w.generation = tab[t].generation /\ w.found = settings
        /\ w.step = tab[t].step /\ w.token = tab[t].token /\ w.slot = tab[t].slot
    BY <1>1 DEF Window
  <2> HIDE DEF w
  <2>3. Knows(w)
    BY <2>2, <1>1 DEF Knows
  <2> QED BY <2>1, <2>2, <2>3, <1>2, <1>3, AloneTurn
<1>6. CASE Look(t)
  <2>0. PICK confirmed \in BOOLEAN : confirmed = (subscription # 0 /\ subscription \in registered)
    OBVIOUS
  <2> DEFINE w == Shows(tab[t], confirmed)
  <2>1. Becomes(t, w)
    BY <1>6, <2>0, Zenon DEF Look
  <2>2. /\ w \in Window /\ w.generation = tab[t].found.generation /\ w.found = DEFAULT_SETTINGS
        /\ w.step = tab[t].step /\ w.token = tab[t].token /\ w.slot = tab[t].slot
    <3> DEFINE v == [tab[t] EXCEPT !.known = TRUE, !.optedIn = tab[t].found.enabled,
                                   !.generation = tab[t].found.generation,
                                   !.registered = confirmed]
    <3>1. /\ tab[t].found.enabled \in BOOLEAN /\ tab[t].found.generation \in Nat
          /\ tab[t].kept \in BOOLEAN
      BY <1>1 DEF Window, Settings
    <3>2. /\ v \in Window /\ v.generation = tab[t].found.generation
          /\ v.step = tab[t].step /\ v.token = tab[t].token /\ v.slot = tab[t].slot
      BY <3>1, <1>1 DEF Window
    <3>3. w = [v EXCEPT !.trouble = tab[t].kept, !.behind = FALSE, !.refresh = "none",
                        !.kept = FALSE, !.found = DEFAULT_SETTINGS]
      BY DEF Shows
    <3> HIDE DEF v, w
    <3> QED BY <3>1, <3>2, <3>3, <1>4 DEF Window
  <2> HIDE DEF w
  <2>3. Knows(w)
    BY <2>2, <1>1, <1>4 DEF Knows
  <2> QED BY <2>1, <2>2, <2>3, <1>2, <1>3, AloneTurn
<1>7. CASE Unverified(t)
  <2> DEFINE w == [tab[t] EXCEPT !.registered = FALSE, !.trouble = TRUE, !.behind = TRUE,
                                 !.refresh = "none", !.kept = FALSE,
                                 !.found = DEFAULT_SETTINGS]
  <2>1. Becomes(t, w)
    BY <1>7 DEF Unverified
  <2>2. /\ w \in Window /\ w.generation = tab[t].generation /\ w.found = DEFAULT_SETTINGS
        /\ w.step = tab[t].step /\ w.token = tab[t].token /\ w.slot = tab[t].slot
    BY <1>1, <1>4 DEF Window
  <2> HIDE DEF w
  <2>3. Knows(w)
    BY <2>2, <1>1, <1>4 DEF Knows
  <2> QED BY <2>1, <2>2, <2>3, <1>2, <1>3, AloneTurn
<1>8. CASE Refresh(t)
  <2> DEFINE w == Asking(tab[t])
  <2>1. Becomes(t, w) /\ tab[t].step = "idle"
    BY <1>8 DEF Refresh, Idle
  <2>2. Alike(w, tab[t]) /\ w.step = "idle"
    BY <1>1, <2>1 DEF Window, Asking, Alike
  <2> HIDE DEF w
  <2>3. Knows(w) /\ w \in Window
    BY <2>2, <1>1, AlikeKnows DEF Alike
  <2>4. w.step \notin Awaiting
    BY <2>2 DEF Awaiting
  <2> QED BY <2>1, <2>3, <2>4, <1>2, <1>3, AloneTurn
<1> QED BY <1>5, <1>6, <1>7, <1>8

LEMMA HearTurn ==
  ASSUME TabsInv, NEW t \in Page, Hear(t)
  PROVE  Kept
<1> DEFINE w == IF tab[t].step = "idle" THEN Asking(tab[t]) ELSE [tab[t] EXCEPT !.rerun = TRUE]
<1>1. BrowserOK /\ tab[t] \in Window /\ Knows(tab[t])
  BY Facts
<1>2. Becomes(t, w) /\ Handle(t) /\ UNCHANGED tabsVars
  BY DEF Hear
<1>3. UNCHANGED request /\ WorkerNext
  BY <1>2 DEF Handle, WorkerNext
<1>4. BrowserOK'
  BY <1>1, <1>2 DEF BrowserOK, tabsVars
<1>5. /\ w \in Window /\ w.generation = tab[t].generation /\ w.found = tab[t].found
      /\ w.step = tab[t].step /\ w.token = tab[t].token /\ w.slot = tab[t].slot
  BY <1>1 DEF Window, Asking
<1> HIDE DEF w
<1>6. Knows(w)
  BY <1>5, <1>1 DEF Knows
<1> QED BY <1>2, <1>3, <1>4, <1>5, <1>6, QuietTurn DEF Kept

\* A turn that ends an operation, or runs one that asks the worker nothing.
LEMMA PlainTurn ==
  ASSUME TabsInv, UNCHANGED workerVars, BrowserOK', NEW t \in Page, NEW w,
         Becomes(t, w), Alike(w, tab[t]),
         w.step \notin Awaiting \cup {"subscribing", "registering"}
  PROVE  Kept
<1>1. Knows(tab[t])
  BY Facts
<1>2. w \in Window /\ Knows(w)
  BY <1>1, AlikeKnows DEF Alike
<1> QED BY <1>2, AloneTurn

LEMMA IdleTurn ==
  ASSUME TabsInv, NEW t \in Page, Decline(t) \/ Save(t) \/ Test(t)
  PROVE  Kept
<1>1. BrowserOK /\ tab[t] \in Window /\ tab \in [Page -> Window]
  BY Facts DEF TabsTypeOK
<1>2. UNCHANGED <<workerVars, tabsVars>>
  BY DEF Decline, Save, Test
<1>3. BrowserOK'
  BY <1>1, <1>2 DEF BrowserOK, tabsVars
<1>4. ASSUME NEW trouble \in BOOLEAN
      PROVE  LET w == Finish(Starts(t, "idle"), trouble)
             IN  Alike(w, tab[t]) /\ w.step = "idle"
  <2> DEFINE v == Starts(t, "idle")
  <2>1. Alike(v, tab[t])
    BY <1>1, Started
  <2>2. v \in Window
    BY <2>1 DEF Alike
  <2>3. Alike(Finish(v, trouble), v) /\ Finish(v, trouble).step = "idle"
    BY <2>2, Finished
  <2> QED BY <2>1, <2>3 DEF Alike
<1>5. ASSUME NEW trouble \in BOOLEAN, Becomes(t, Finish(Starts(t, "idle"), trouble))
      PROVE  Kept
  <2> DEFINE w == Finish(Starts(t, "idle"), trouble)
  <2>1. Alike(w, tab[t]) /\ w.step = "idle"
    BY <1>4
  <2> HIDE DEF w
  <2>2. Becomes(t, w)
    BY <1>5 DEF w
  <2> QED BY <2>1, <2>2, <1>2, <1>3, PlainTurn DEF Awaiting
<1>6. CASE Decline(t)
  BY <1>5, <1>6 DEF Decline
<1>7. CASE Test(t)
  <2>1. PICK trouble \in {TRUE, subscription \notin registered} :
          Becomes(t, Finish(Starts(t, "idle"), trouble))
    BY <1>7 DEF Test
  <2>2. trouble \in BOOLEAN
    OBVIOUS
  <2> QED BY <2>1, <2>2, <1>5
<1>8. CASE Save(t)
  <2>1. CASE subscription = 0
    BY <2>1, <1>8, <1>5 DEF Save
  <2>2. CASE subscription # 0
    <3> DEFINE v == Starts(t, "saving")
               w == [v EXCEPT !.endpoint = subscription]
    <3>1. Becomes(t, w)
      BY <2>2, <1>8 DEF Save
    <3>2. Alike(v, tab[t]) /\ v.step = "saving"
      BY <1>1, Started
    <3>3. v \in Window /\ subscription \in Nat
      BY <3>2, <1>1 DEF Alike, BrowserOK
    <3> HIDE DEF v
    <3>4. Alike(w, v) /\ w.step = "saving"
      BY <3>2, <3>3 DEF Alike, Window
    <3>5. Alike(w, tab[t])
      BY <3>2, <3>4 DEF Alike
    <3> HIDE DEF w
    <3> QED BY <3>1, <3>4, <3>5, <1>2, <1>3, PlainTurn DEF Awaiting
  <2> QED BY <2>1, <2>2
<1> QED BY <1>6, <1>7, <1>8

LEMMA ServerTurn ==
  ASSUME TabsInv, NEW t \in Page,
         Subscribe(t) \/ Delete(t) \/ Unsubscribe(t) \/ Saved(t) \/ ServerFails(t)
  PROVE  Kept
<1>1. BrowserOK /\ tab[t] \in Window /\ Knows(tab[t])
  BY Facts
<1>2. UNCHANGED workerVars
  BY DEF Subscribe, Delete, Unsubscribe, Saved, ServerFails
<1>3. tab[t].endpoint \in Nat /\ subscription \in Nat /\ made \in Nat /\ registered \subseteq Nat
  BY <1>1 DEF Window, BrowserOK
<1>4. ASSUME NEW trouble \in BOOLEAN
      PROVE  LET w == Finish(tab[t], trouble) IN Alike(w, tab[t]) /\ w.step = "idle"
  BY <1>1, Finished
<1>5. Alike(Fail(tab[t]), tab[t]) /\ Fail(tab[t]).step = "idle"
  BY <1>1, Failed
<1>6. CASE Subscribe(t)
  <2>1. /\ tab[t].step = "subscribing" /\ registered' = registered
        /\ made' = (IF subscription = 0 THEN made + 1 ELSE made)
        /\ subscription' = (IF subscription = 0 THEN made + 1 ELSE subscription)
    BY <1>6 DEF Subscribe
  <2>2. BrowserOK'
    BY <1>3, <2>1 DEF BrowserOK
  <2>3. PICK e \in Nat : e = subscription'
    BY <2>2 DEF BrowserOK
  <2> DEFINE w == [tab[t] EXCEPT !.step = "registering", !.endpoint = e]
  <2>4. Becomes(t, w)
    BY <1>6, <2>3 DEF Subscribe
  <2>5. /\ w \in Window /\ w.generation = tab[t].generation /\ w.found = tab[t].found
        /\ w.step = "registering" /\ w.token = tab[t].token
    BY <1>1 DEF Window
  <2> HIDE DEF w
  <2>6. Knows(w)
    BY <2>5, <2>1, <1>1 DEF Knows
  <2> QED BY <2>2, <2>4, <2>5, <2>6, <1>2, AloneTurn DEF Awaiting
<1>7. CASE Delete(t)
  <2> DEFINE w == [tab[t] EXCEPT !.step = "unsubscribing"]
  <2>1. Becomes(t, w) /\ BrowserOK'
    BY <1>3, <1>7 DEF Delete, BrowserOK
  <2>2. Alike(w, tab[t]) /\ w.step = "unsubscribing"
    BY <1>1 DEF Alike, Window
  <2> HIDE DEF w
  <2> QED BY <2>1, <2>2, <1>2, PlainTurn DEF Awaiting
<1>8. CASE Unsubscribe(t)
  <2>1. BrowserOK'
    BY <1>3, <1>8 DEF Unsubscribe, BrowserOK
  <2>2. CASE subscription' = 0
    <3> DEFINE v == [tab[t] EXCEPT !.registered = FALSE]
               w == Finish(v, FALSE)
    <3>1. Becomes(t, w)
      BY <1>8, <2>2 DEF Unsubscribe
    <3>2. Alike(v, tab[t])
      BY <1>1 DEF Alike, Window
    <3>3. v \in Window
      BY <3>2 DEF Alike
    <3> HIDE DEF v
    <3>4. Alike(w, v) /\ w.step = "idle"
      BY <3>3, Finished
    <3> HIDE DEF w
    <3>5. Alike(w, tab[t])
      BY <3>2, <3>4 DEF Alike
    <3> QED BY <3>1, <3>4, <3>5, <2>1, <1>2, PlainTurn DEF Awaiting
  <2>3. CASE subscription' # 0
    <3>1. Becomes(t, Fail(tab[t]))
      BY <1>8, <2>3 DEF Unsubscribe
    <3> QED BY <3>1, <2>1, <1>2, <1>5, PlainTurn DEF Awaiting
  <2> QED BY <2>2, <2>3
<1>9. CASE Saved(t)
  <2> DEFINE w == Finish(tab[t], FALSE)
  <2>1. Becomes(t, w) /\ BrowserOK'
    BY <1>3, <1>9 DEF Saved, BrowserOK
  <2>2. Alike(w, tab[t]) /\ w.step = "idle"
    BY <1>4
  <2> HIDE DEF w
  <2> QED BY <2>1, <2>2, <1>2, PlainTurn DEF Awaiting
<1>10. CASE ServerFails(t)
  <2>1. Becomes(t, Fail(tab[t])) /\ UNCHANGED <<subscription, made>>
    BY <1>10 DEF ServerFails
  <2>2. registered' \subseteq registered \cup {tab[t].endpoint}
    BY <1>10 DEF ServerFails
  <2>3. BrowserOK'
    BY <2>1, <2>2, <1>3 DEF BrowserOK
  <2> QED BY <2>1, <2>3, <1>2, <1>5, PlainTurn DEF Awaiting
<1> QED BY <1>6, <1>7, <1>8, <1>9, <1>10

\* The worker lets a window ask what it knows.
LEMMA Asks ==
  ASSUME TabsInv, NEW r \in Slot, NEW k \in Kind, NEW g \in Nat, Post(r, k, g),
         g <= settings.generation, k = "enable" => g \in granted
  PROVE  WorkerNext
<1>1. g \in 0 .. settings.generation
  <2>1. settings.generation \in Nat
    BY DEF TabsInv, TabsTypeOK, TypeOK, Settings
  <2> QED BY <2>1
<1>2. Ask(r, k, g)
  BY DEF Ask
<1> QED BY <1>1, <1>2 DEF WorkerNext

LEMMA PortTurn ==
  ASSUME TabsInv, NEW t \in Page, Enable(t) \/ Register(t) \/ Disable(t)
  PROVE  Kept
<1>1. /\ BrowserOK /\ tab[t] \in Window /\ Knows(tab[t]) /\ tab \in [Page -> Window]
      /\ settings.generation \in Nat
  BY Facts DEF TabsTypeOK
<1>2. NextSlot \in Slot
  <2>1. FreeSlots # {}
    BY DEF Enable, Register, Disable
  <2> QED BY <2>1 DEF NextSlot, FreeSlots
<1>3. PICK r \in Slot : r = NextSlot
  BY <1>2
<1>4. ASSUME NEW v, Alike(v, tab[t]), v.step \in {"beginning", "disabling"}
      PROVE  LET w == [v EXCEPT !.slot = r]
             IN  w \in Window /\ Knows(w) /\ w.step = v.step /\ w.slot = r
  <2>1. v \in Window
    BY <1>4 DEF Alike
  <2> DEFINE w == [v EXCEPT !.slot = r]
  <2>2. Alike(w, v) /\ w.step = v.step /\ w.slot = r
    BY <2>1 DEF Alike, Window
  <2>3. Alike(w, tab[t])
    BY <2>2, <1>4 DEF Alike
  <2> HIDE DEF w
  <2>4. w \in Window /\ Knows(w)
    BY <2>2, <2>3, <1>1, <1>4, AlikeKnows DEF Alike
  <2> QED BY <2>2, <2>4 DEF w
<1>5. CASE Enable(t)
  <2> DEFINE v == Starts(t, "beginning")
             w == [v EXCEPT !.slot = r]
  <2>1. /\ Becomes(t, w) /\ Post(r, "begin", tab[t].generation) /\ UNCHANGED tabsVars
    BY <1>5, <1>3 DEF Enable
  <2>2. Alike(v, tab[t]) /\ v.step = "beginning"
    BY <1>1, Started
  <2> HIDE DEF v
  <2>3. w \in Window /\ Knows(w) /\ w.step = "beginning" /\ w.slot = r
    BY <2>2, <1>4
  <2> HIDE DEF w
  <2>4. PICK g \in Nat : g = tab[t].generation
    BY <1>1 DEF Window
  <2>5. Post(r, "begin", g) /\ g <= settings.generation /\ "begin" \in Kind
    BY <2>1, <2>4, <1>1 DEF Knows, Kind
  <2>6. WorkerNext
    BY <2>5, Asks
  <2>7. BrowserOK' /\ "begin" = KindOf(w.step)
    BY <2>1, <2>3, <1>1 DEF BrowserOK, tabsVars, KindOf
  <2> QED BY <2>1, <2>3, <2>5, <2>6, <2>7, PostTurn DEF Kept
<1>6. CASE Disable(t)
  <2> DEFINE v == Starts(t, "disabling")
             w == [v EXCEPT !.slot = r]
  <2>1. /\ Becomes(t, w) /\ Post(r, "disable", 0) /\ UNCHANGED tabsVars
    BY <1>6, <1>3 DEF Disable
  <2>2. Alike(v, tab[t]) /\ v.step = "disabling"
    BY <1>1, Started
  <2> HIDE DEF v
  <2>3. w \in Window /\ Knows(w) /\ w.step = "disabling" /\ w.slot = r
    BY <2>2, <1>4
  <2> HIDE DEF w
  <2>4. 0 \in Nat /\ 0 <= settings.generation /\ "disable" \in Kind
    BY <1>1 DEF Kind
  <2>5. WorkerNext
    BY <2>1, <2>4, Asks
  <2>6. BrowserOK' /\ "disable" = KindOf(w.step)
    BY <2>1, <2>3, <1>1 DEF BrowserOK, tabsVars, KindOf
  <2> QED BY <2>1, <2>3, <2>4, <2>5, <2>6, PostTurn DEF Kept
<1>7. CASE Register(t)
  <2> DEFINE w == [tab[t] EXCEPT !.step = "enabling", !.slot = r]
  <2>1. /\ Becomes(t, w) /\ Post(r, "enable", tab[t].token) /\ tab[t].step = "registering"
        /\ UNCHANGED <<subscription, made>> /\ registered' = registered \cup {tab[t].endpoint}
    BY <1>7, <1>3 DEF Register
  <2>2. /\ w \in Window /\ w.generation = tab[t].generation /\ w.found = tab[t].found
        /\ w.step = "enabling" /\ w.slot = r
    BY <1>1 DEF Window
  <2> HIDE DEF w
  <2>3. Knows(w)
    BY <2>2, <1>1 DEF Knows
  <2>4. PICK g \in Nat : g = tab[t].token
    BY <1>1 DEF Window
  <2>5. g \in granted /\ "enable" \in Kind
    BY <2>1, <2>4, <1>1 DEF Knows, Kind
  <2>6. g <= settings.generation
    BY <2>5 DEF TabsInv, IInv, ChoiceInv
  <2>7. Post(r, "enable", g)
    BY <2>1, <2>4
  <2>8. WorkerNext
    BY <2>5, <2>6, <2>7, Asks
  <2>9. BrowserOK'
    <3>1. tab[t].endpoint \in Nat
      BY <1>1 DEF Window
    <3> QED BY <3>1, <2>1, <1>1 DEF BrowserOK
  <2>10. "enable" = KindOf(w.step)
    BY <2>2 DEF KindOf
  <2> QED BY <2>1, <2>2, <2>3, <2>5, <2>7, <2>8, <2>9, <2>10, PostTurn DEF Kept
<1> QED BY <1>5, <1>6, <1>7

\* A window that takes an answer, or an error, ends its operation or goes on with it.
LEMMA AnswerTurn ==
  ASSUME TabsInv, NEW t \in Page,
         Superseded(t) \/ Begun(t) \/ Enabled(t) \/ Disabled(t) \/ NoAnswer(t)
  PROVE  Kept
<1>1. /\ TabsTypeOK /\ BrowserOK /\ tab[t] \in Window /\ Knows(tab[t]) /\ Waits(tab[t])
      /\ settings.generation \in Nat
  BY Facts
<1>2. tab[t].step \in Awaiting
  BY DEF Superseded, Begun, Enabled, Disabled, NoAnswer, Awaiting
<1>3. PICK r \in Slot : r = tab[t].slot
  BY <1>1, <1>2 DEF Waits
<1>4. Close(r) => WorkerNext
  BY DEF WorkerNext
<1>5. UNCHANGED tabsVars /\ BrowserOK'
  BY <1>1 DEF Superseded, Begun, Enabled, Disabled, NoAnswer, BrowserOK, tabsVars
<1>6. ASSUME NEW w, Becomes(t, w), w \in Window, Knows(w), w.step \notin Awaiting, Close(r)
      PROVE  Kept
  BY <1>2, <1>3, <1>4, <1>5, <1>6, CloseTurn DEF Kept
<1>7. CASE NoAnswer(t)
  <2>1. Becomes(t, Fail(tab[t])) /\ (Close(r) \/ UNCHANGED workerVars)
    BY <1>7, <1>3 DEF NoAnswer
  <2>2. Alike(Fail(tab[t]), tab[t]) /\ Fail(tab[t]).step = "idle"
    BY <1>1, Failed
  <2>3. Fail(tab[t]) \in Window /\ Knows(Fail(tab[t]))
    BY <2>2, <1>1, AlikeKnows DEF Alike
  <2>4. CASE Close(r)
    BY <2>1, <2>2, <2>3, <2>4, <1>6 DEF Awaiting
  <2>5. CASE UNCHANGED workerVars
    BY <2>1, <2>2, <2>5, <1>5, PlainTurn DEF Awaiting
  <2> QED BY <2>1, <2>4, <2>5
<1>8. ASSUME Answered(t)
      PROVE  /\ Told(t) \in Window /\ Told(t).step = tab[t].step
             /\ Told(t).generation <= settings.generation
             /\ Told(t).found.generation <= settings.generation
             /\ Told(t).generation = request[r].reply.generation
  <2>1. /\ Told(t) \in Window /\ Told(t).step = tab[t].step
        /\ Told(t).found = tab[t].found
        /\ Told(t).generation = request[r].reply.generation
    BY <1>1, <1>3, Learns
  <2>2. AnswerIs(r) /\ request[r].step = "answered"
    BY <1>3, <1>8 DEF TabsInv, AnswerInv, Answered
  <2> QED BY <2>1, <2>2, <1>1 DEF AnswerIs, Knows
<1>9. ASSUME NEW w, Answered(t), Alike(w, Told(t)), w.step \notin {"subscribing", "registering"}
      PROVE  w \in Window /\ Knows(w)
  BY <1>8, <1>9 DEF Alike, Knows
<1>10. CASE Superseded(t)
  <2> DEFINE w == Fail(Told(t))
  <2>1. Becomes(t, w) /\ Answered(t) /\ Close(r)
    BY <1>10, <1>3 DEF Superseded
  <2>2. Alike(w, Told(t)) /\ w.step = "idle"
    BY <2>1, <1>8, Failed
  <2> HIDE DEF w
  <2>3. w \in Window /\ Knows(w) /\ w.step \notin Awaiting
    BY <2>1, <2>2, <1>9 DEF Awaiting
  <2> QED BY <2>1, <2>3, <1>6
<1>11. CASE Begun(t)
  <2>1. PICK g : g = request[r].reply.generation
    OBVIOUS
  <2> DEFINE w == [Told(t) EXCEPT !.step = "subscribing", !.registered = FALSE, !.token = g]
  <2>2. /\ Becomes(t, w) /\ Answered(t) /\ Applied(t) /\ Close(r) /\ tab[t].step = "beginning"
    BY <1>11, <1>3, <2>1 DEF Begun
  <2>3. g \in granted
    <3>1. request[r].step = "answered" /\ request[r].reply.applied
      BY <2>2, <1>3 DEF Answered, Applied
    <3>2. request[r].kind = "begin"
      BY <2>2, <1>1, <1>2, <1>3 DEF Waits, KindOf
    <3> QED BY <3>1, <3>2, <2>1 DEF TabsInv, AnswerInv, AnswerIs
  <2>4. g \in Nat
    BY <2>3, <1>1 DEF TabsTypeOK, TypeOK
  <2>5. Told(t) \in Window
    BY <2>2, <1>8
  <2>6. /\ w \in Window /\ w.step = "subscribing" /\ w.token = g
        /\ w.generation = Told(t).generation /\ w.found = Told(t).found
    BY <2>4, <2>5 DEF Window
  <2> HIDE DEF w
  <2>7. Knows(w) /\ w.step \notin Awaiting
    BY <2>2, <2>3, <2>6, <1>8 DEF Knows, Awaiting
  <2> QED BY <2>2, <2>6, <2>7, <1>6
<1>12. CASE Enabled(t)
  <2> DEFINE v == [Told(t) EXCEPT !.optedIn = TRUE, !.registered = TRUE]
             w == Finish(v, FALSE)
  <2>1. Becomes(t, w) /\ Answered(t) /\ Close(r)
    BY <1>12, <1>3 DEF Enabled
  <2>2. Alike(v, Told(t))
    BY <2>1, <1>8 DEF Alike, Window
  <2>3. v \in Window
    BY <2>2 DEF Alike
  <2> HIDE DEF v
  <2>4. Alike(w, v) /\ w.step = "idle"
    BY <2>3, Finished
  <2> HIDE DEF w
  <2>5. Alike(w, Told(t))
    BY <2>2, <2>4 DEF Alike
  <2>6. w \in Window /\ Knows(w) /\ w.step \notin Awaiting
    BY <2>1, <2>4, <2>5, <1>9 DEF Awaiting
  <2> QED BY <2>1, <2>6, <1>6
<1>13. CASE Disabled(t)
  <2>1. Answered(t) /\ Close(r)
    BY <1>13, <1>3 DEF Disabled
  <2>2. CASE subscription = 0
    <3> DEFINE v == [Told(t) EXCEPT !.registered = FALSE]
               w == Finish(v, FALSE)
    <3>1. Becomes(t, w)
      BY <1>13, <2>2 DEF Disabled
    <3>2. Alike(v, Told(t))
      BY <2>1, <1>8 DEF Alike, Window
    <3>3. v \in Window
      BY <3>2 DEF Alike
    <3> HIDE DEF v
    <3>4. Alike(w, v) /\ w.step = "idle"
      BY <3>3, Finished
    <3> HIDE DEF w
    <3>5. Alike(w, Told(t))
      BY <3>2, <3>4 DEF Alike
    <3>6. w \in Window /\ Knows(w) /\ w.step \notin Awaiting
      BY <2>1, <3>4, <3>5, <1>9 DEF Awaiting
    <3> QED BY <2>1, <3>1, <3>6, <1>6
  <2>3. CASE subscription # 0
    <3> DEFINE w == [Told(t) EXCEPT !.step = "deleting", !.endpoint = subscription]
    <3>1. Becomes(t, w)
      BY <1>13, <2>3 DEF Disabled
    <3>2. Told(t) \in Window /\ subscription \in Nat
      BY <2>1, <1>1, <1>8 DEF BrowserOK
    <3>3. Alike(w, Told(t)) /\ w.step = "deleting"
      BY <3>2 DEF Alike, Window
    <3> HIDE DEF w
    <3>4. w \in Window /\ Knows(w) /\ w.step \notin Awaiting
      BY <2>1, <3>3, <1>9 DEF Awaiting
    <3> QED BY <2>1, <3>1, <3>4, <1>6
  <2> QED BY <2>2, <2>3
<1> QED BY <1>7, <1>10, <1>11, <1>12, <1>13

\* A window that is closed or opened knows nothing and asks nothing.
LEMMA Blank ==
  ASSUME TabsInv, NEW w \in {Opened, Closed}
  PROVE  w \in Window /\ Knows(w) /\ w.step \notin Awaiting
<1>1. settings.generation \in Nat
  BY DEF TabsInv, TabsTypeOK, TypeOK, Settings
<1>2. /\ Opened \in Window /\ Opened.step = "idle" /\ Opened.generation = 0
      /\ Opened.found.generation = 0
  BY DEF Opened, Window, DEFAULT_SETTINGS, Settings
<1>3. /\ Closed \in Window /\ Closed.step = "idle" /\ Closed.generation = 0
      /\ Closed.found.generation = 0
  <2>1. Alike(Closed, Opened) /\ Closed.step = Opened.step
    BY <1>2 DEF Closed, Alike, Window
  <2> QED BY <2>1, <1>2 DEF Alike
<1> QED BY <1>1, <1>2, <1>3 DEF Knows, Awaiting

LEMMA VisitTurn ==
  ASSUME TabsInv, NEW t \in Page,
         CloseTab(t) \/ OpenTab(t) \/ \E e \in Event : ClickNotification(e, t)
  PROVE  Kept
<1>1. BrowserOK
  BY Facts
<1>2. /\ WorkerNext /\ UNCHANGED <<request, tabsVars>>
      /\ Becomes(t, Opened) \/ Becomes(t, Closed) \/ UNCHANGED tab
  <2>1. CASE CloseTab(t)
    BY <2>1 DEF CloseTab, Leave, WorkerNext
  <2>2. CASE OpenTab(t)
    BY <2>2 DEF OpenTab, Enter, WorkerNext, requestVars
  <2>3. ASSUME NEW e \in Event, ClickNotification(e, t)
        PROVE  /\ Click(e, t) /\ UNCHANGED <<request, tabsVars>>
               /\ Becomes(t, Opened) \/ UNCHANGED tab
    BY <2>3 DEF ClickNotification, Click, Becomes, requestVars
  <2>4. (\E e \in Event : Click(e, t)) => WorkerNext
    BY DEF WorkerNext
  <2> QED BY <2>1, <2>2, <2>3, <2>4
<1>3. BrowserOK'
  BY <1>1, <1>2 DEF BrowserOK, tabsVars
<1>4. ASSUME NEW w \in {Opened, Closed}, Becomes(t, w) PROVE Kept
  <2>1. w \in Window /\ Knows(w) /\ w.step \notin Awaiting
    BY Blank
  <2> QED BY <2>1, <1>2, <1>3, <1>4, QuietTurn DEF Kept
<1>5. CASE UNCHANGED tab
  <2>1. \A u \in Page : Same(tab[u].slot)
    BY <1>2 DEF Same
  <2> QED BY <2>1, <1>2, <1>5, NoTurn DEF Kept
<1> QED BY <1>2, <1>4, <1>5

\* The worker's own steps.
LEMMA WorkerTurn ==
  ASSUME TabsInv,
         \/ \E r \in Slot : WorkerHandles(r)
         \/ \E d \in Delivery : PushArrives(d) \/ Pushed(d)
         \/ WorkerFails
  PROVE  Kept
<1>1. TypeOK /\ \A u \in Page : Waits(tab[u])
  BY DEF TabsInv, TabsTypeOK, AskInv
<1>2. UNCHANGED <<tab, tabsVars>>
  BY DEF WorkerHandles, PushArrives, Pushed, WorkerFails, Apart
<1>3. WorkerNext
  <2>1. ASSUME NEW r \in Slot, WorkerHandles(r) PROVE WorkerNext
    BY <2>1 DEF WorkerHandles, WorkerNext
  <2>2. ASSUME NEW d \in Delivery, PushArrives(d) \/ Pushed(d) PROVE WorkerNext
    BY <2>2 DEF PushArrives, Pushed, WorkerNext
  <2>3. CASE WorkerFails
    BY <2>3 DEF WorkerFails, WorkerNext
  <2> QED BY <2>1, <2>2, <2>3
<1>4. (\E r \in Slot : Goes(r)) \/ Kill \/ UNCHANGED request
  <2>1. ASSUME NEW d \in Delivery,
               \/ Receive(d) \/ Claim(d) \/ Recheck(d) \/ Show(d)
               \/ ShowFails(d) \/ Release(d) \/ StorageFails(d)
        PROVE  UNCHANGED request
    <3>1. (Receive(d) \/ Recheck(d) \/ Show(d) \/ ShowFails(d)) => UNCHANGED requestVars
      BY DEF Receive, Recheck, Show, ShowFails
    <3>2. (Claim(d) \/ Release(d) \/ StorageFails(d)) => UNCHANGED requestVars
      BY DEF Claim, Release, StorageFails
    <3> QED BY <3>1, <3>2, <2>1 DEF requestVars
  <2>2. ASSUME NEW r \in Slot, WorkerHandles(r) PROVE Goes(r)
    BY <2>2 DEF WorkerHandles, Goes
  <2>3. ASSUME NEW d \in Delivery, PushArrives(d) \/ Pushed(d) PROVE UNCHANGED request
    BY <2>1, <2>3 DEF PushArrives, Pushed
  <2>4. CASE WorkerFails
    BY <2>1, <2>4 DEF WorkerFails, Goes
  <2> QED BY <2>2, <2>3, <2>4
<1>5. ASSUME NEW u \in Page, tab[u].step \in Awaiting PROVE Same(tab[u].slot)
  BY <1>1, <1>4, <1>5, Persists DEF Waits
<1> QED BY <1>2, <1>3, <1>5, NoTurn DEF Kept

\* Nobody waits for the port that is closed.
LEMMA ReapTurn ==
  ASSUME TabsInv, NEW r \in Slot, Reap(r)
  PROVE  Kept
<1>1. /\ request \in [Slot -> Requests] /\ \A u \in Page : Waits(tab[u])
  BY DEF TabsInv, TabsTypeOK, TypeOK, AskInv
<1>2. Close(r) /\ UNCHANGED <<tab, tabsVars>> /\ \A u \in Page : tab[u].slot # r
  BY DEF Reap, Waiting
<1>3. WorkerNext
  BY <1>2 DEF WorkerNext
<1>4. ASSUME NEW u \in Page, tab[u].step \in Awaiting PROVE Same(tab[u].slot)
  <2>1. tab[u].slot \in Slot /\ tab[u].slot # r
    BY <1>1, <1>2, <1>4 DEF Waits
  <2>2. request'[tab[u].slot] = request[tab[u].slot]
    BY <2>1, <1>1, <1>2 DEF Close
  <2> QED BY <2>2 DEF Same
<1> QED BY <1>2, <1>3, <1>4, NoTurn DEF Kept

-----------------------------------------------------------------------------
LEMMA TabsInitially == Init => TabsInv /\ WorkerInit
<1> SUFFICES ASSUME Init PROVE TabsInv /\ WorkerInit
  OBVIOUS
<1>1. WorkerInit /\ IInv /\ TypeOK
  BY Initially DEF Init, IInv
<1>2. settings.enabled \in BOOLEAN /\ settings.generation \in Nat
  BY <1>1 DEF TypeOK, Settings
<1>3. Closed \in Window /\ Closed.step = "idle" /\ Closed.found.generation = 0 /\ Closed.generation = 0
  <2>1. Opened \in Window /\ Opened.step = "idle" /\ Opened.found.generation = 0 /\ Opened.generation = 0
    BY DEF Opened, Window, DEFAULT_SETTINGS, Settings
  <2>2. Alike(Closed, Opened) /\ Closed.step = Opened.step
    BY <2>1 DEF Closed, Alike, Window
  <2> QED BY <2>1, <2>2 DEF Alike
<1>4. /\ Refreshed \in Window /\ Refreshed.step = "idle" /\ Refreshed.found = Closed.found
      /\ Refreshed.generation = settings.generation
  BY <1>2, <1>3 DEF Refreshed, Window
<1>5. tab \in [Page -> Window]
  BY <1>3, <1>4 DEF Init
<1>6. made \in {0, 1} /\ subscription = made /\ registered = 1 .. made
  BY DEF Init
<1>7. subscription \in Nat /\ made \in Nat /\ registered \subseteq Nat
  BY <1>6
<1>8. ASSUME NEW t \in Page PROVE Knows(tab[t]) /\ tab[t].step \notin Awaiting
  <2>1. tab[t] = Refreshed \/ tab[t] = Closed
    BY DEF Init
  <2> QED BY <2>1, <1>2, <1>3, <1>4 DEF Knows, Awaiting
<1>9. AskInv
  BY <1>8 DEF AskInv, Waits
<1>10. AnswerInv
  BY DEF AnswerInv, AnswerIs, Init, WorkerInit, Free
<1> QED BY <1>1, <1>5, <1>7, <1>9, <1>10 DEF TabsInv, TabsTypeOK

LEMMA TabsStep == TabsInv /\ [Next]_vars => TabsInv' /\ [WorkerNext]_workerVars
<1> SUFFICES ASSUME TabsInv, [Next]_vars PROVE Kept
  BY DEF Kept
<1>1. ASSUME NEW t \in Page, TabStep(t) PROVE Kept
  BY <1>1, RefreshTurn, HearTurn, ServerTurn, PortTurn, AnswerTurn DEF TabStep
<1>2. ASSUME NEW t \in Page, Choice(t) PROVE Kept
  BY <1>2, RefreshTurn, IdleTurn, PortTurn DEF Choice
<1>3. ASSUME NEW t \in Page, Unverified(t) \/ ServerFails(t) \/ CloseTab(t) \/ OpenTab(t)
      PROVE  Kept
  BY <1>3, RefreshTurn, ServerTurn, VisitTurn
<1>4. ASSUME NEW r \in Slot, WorkerHandles(r) \/ Reap(r) PROVE Kept
  BY <1>4, WorkerTurn, ReapTurn
<1>5. ASSUME NEW d \in Delivery, PushArrives(d) \/ Pushed(d) PROVE Kept
  BY <1>5, WorkerTurn
<1>6. ASSUME NEW e \in Event, NEW t \in Page, ClickNotification(e, t) PROVE Kept
  BY <1>6, VisitTurn
<1>7. WorkerFails => Kept
  BY WorkerTurn
<1>8. CASE UNCHANGED vars
  <2>1. UNCHANGED <<workerVars, request, tab, tabsVars>>
    BY <1>8 DEF vars, workerVars, requestVars
  <2>2. \A u \in Page : Same(tab[u].slot)
    BY <2>1 DEF Same
  <2> QED BY <2>1, <2>2, NoTurn DEF Kept
<1> QED BY <1>1, <1>2, <1>3, <1>4, <1>5, <1>6, <1>7, <1>8 DEF Next

\* The windows, whatever they do and whatever dies or fails, use the worker as it expects.
THEOREM TabsUseWorker == Spec => UsesWorker
<1>1. Spec => []TabsInv
  BY TabsInitially, TabsStep, PTL DEF Spec
<1> QED BY <1>1, TabsInitially, TabsStep, PTL DEF Spec, UsesWorker, WorkerSpec

\* What is proved of the worker holds of the dashboard's windows: no event is shown twice
\* unless its claim was evicted, a push that a choice retired is not shown, and a Disable in
\* one window is not undone by the Enable that it overtook in another.
THEOREM TabsAreSafe == Spec => [](ShownOnce /\ ChangeRetiresPushes /\ DisableRetiresEnable)
<1>1. Spec => WorkerSpec
  BY TabsUseWorker DEF UsesWorker
<1> QED BY <1>1, OneNotification, RetiredIsNotShown, LastChoiceWins, PTL

-----------------------------------------------------------------------------
(* What the windows show.                                                   *)

\* A window will hear of the last change: the worker has still to announce it, or never
\* did, or the message waits.
Owes(t) == unannounced \/ changed[t] > 0

\* What a window shows, or is about to, is as the worker has it, unless it will look again.
Informs(w, t) ==
  /\ w.refresh = "told" => w.found.enabled = settings.enabled \/ Owes(t) \/ w.rerun
  /\ w.refresh = "none" => w.optedIn = settings.enabled \/ w.behind \/ Owes(t) \/ w.rerun
  /\ w.step = "idle" => ~w.rerun

\* So is the answer that it waits for.
Hears(t) ==
  tab[t].step \in Awaiting /\ request[tab[t].slot].step = "answered" =>
    request[tab[t].slot].reply.enabled = settings.enabled \/ Owes(t) \/ tab[t].rerun

\* The answer to an enable that was applied is that notifications are on.
Enables(r) ==
  request[r].step \in {"announcing", "answered"} /\ request[r].kind = "enable"
    /\ request[r].reply.applied => request[r].reply.enabled

ToldInv == /\ \A t \in open : Informs(tab[t], t) /\ Hears(t)
           /\ \A r \in Slot : Enables(r)

LEMMA EnablesStep ==
  ASSUME TypeOK, [WorkerNext]_workerVars, NEW r \in Slot, Enables(r)
  PROVE  Enables(r)'
<1>1. request \in [Slot -> Requests] /\ request[r] \in Requests
  BY DEF TypeOK
<1>2. CASE Change(r)
  <2>1. request' = [request EXCEPT ![r] = [request[r] EXCEPT !.step = "announcing",
                                              !.reply = ReplyTo(TRUE, Updated(request[r]))]]
    BY <1>2 DEF Change
  <2>2. /\ request'[r].kind = request[r].kind
        /\ request'[r].reply = ReplyTo(TRUE, Updated(request[r]))
    BY <2>1, <1>1 DEF Requests
  <2>3. request[r].kind = "enable" => Updated(request[r]).enabled
    BY DEF Updated
  <2> QED BY <2>2, <2>3 DEF Enables, ReplyTo
<1>3. CASE Supersede(r)
  <2>1. request' = [request EXCEPT ![r] = [request[r] EXCEPT !.step = "answered",
                                                 !.reply = ReplyTo(FALSE, settings)]]
    BY <1>3 DEF Supersede
  <2>2. request'[r].reply = ReplyTo(FALSE, settings)
    BY <2>1, <1>1 DEF Requests
  <2> QED BY <2>2 DEF Enables, ReplyTo
<1> QED BY <1>2, <1>3, RequestStep DEF Enables

\* When the worker changes the settings, every window that is open will hear of it; what a
\* window is owed it stays owed, until it handles the message.
LEMMA OwesStays ==
  ASSUME TypeOK, [WorkerNext]_workerVars, NEW t \in Page, t \in open', changed'[t] >= changed[t]
  PROVE  /\ settings' = settings \/ Owes(t)'
         /\ Owes(t) => Owes(t)'
<1> DEFINE Goal == (settings' = settings \/ Owes(t)') /\ (Owes(t) => Owes(t)')
<1>1. /\ request \in [Slot -> Requests] /\ changed \in [Page -> Nat] /\ changed'[t] \in Nat
      /\ unannounced \in BOOLEAN /\ settings.generation \in Nat
  <2>1. TypeOK'
    BY TypeStep
  <2> QED BY <2>1 DEF TypeOK, Settings
<1>2. changed[t] > 0 => changed'[t] > 0
  BY <1>1
<1>3. ASSUME NEW r \in Slot, Change(r) PROVE Goal
  BY <1>3 DEF Change, Owes
<1>4. ASSUME NEW r \in Slot, Announce(r) PROVE Goal
  <2>1. /\ settings' = settings
        /\ changed' = [p \in Page |-> IF p \in open THEN changed[p] + 1 ELSE changed[p]]
        /\ open' = open
    BY <1>4 DEF Announce, windowVars
  <2>2. changed'[t] > 0
    BY <2>1, <1>1
  <2> QED BY <2>1, <2>2 DEF Owes
<1>5. ASSUME NEW r \in Slot, Refuse(r) \/ Supersede(r) \/ Close(r)
      PROVE  UNCHANGED <<settings, unannounced>>
  BY <1>5 DEF Refuse, Supersede, Close
<1>6. ASSUME NEW k \in Kind, NEW g \in 0 .. settings.generation, NEW r \in Slot, Ask(r, k, g)
      PROVE  UNCHANGED <<settings, unannounced>>
  BY <1>6 DEF Ask, Post
<1>7. Kill => UNCHANGED <<settings, unannounced>>
  BY DEF Kill
<1>8. ASSUME NEW d \in Delivery,
             \/ Receive(d) \/ Claim(d) \/ Recheck(d) \/ Show(d)
             \/ ShowFails(d) \/ Release(d) \/ StorageFails(d)
      PROVE  UNCHANGED <<settings, unannounced>>
  <2>1. (Receive(d) \/ Recheck(d) \/ Show(d) \/ ShowFails(d)) => UNCHANGED <<settings, requestVars>>
    BY DEF Receive, Recheck, Show, ShowFails
  <2>2. (Claim(d) \/ Release(d) \/ StorageFails(d)) => UNCHANGED <<settings, requestVars>>
    BY DEF Claim, Release, StorageFails
  <2> QED BY <2>1, <2>2, <1>8 DEF requestVars
<1>9. ASSUME UNCHANGED <<settings, unannounced>> PROVE Goal
  BY <1>9, <1>2 DEF Owes
<1>10. ASSUME NEW p \in Page, Handle(p) \/ Leave(p) \/ Enter(p) \/ \E e \in Event : Click(e, p)
       PROVE  UNCHANGED <<settings, unannounced>>
  BY <1>10 DEF Handle, Leave, Enter, Click, requestVars
<1>11. UNCHANGED workerVars => UNCHANGED <<settings, unannounced>>
  BY DEF workerVars, requestVars
<1> HIDE DEF Goal
<1>13. WorkerNext => Goal
  BY <1>3, <1>4, <1>5, <1>6, <1>7, <1>8, <1>9, <1>10 DEF WorkerNext
<1>14. Goal
  BY <1>9, <1>11, <1>13
<1> QED BY <1>14 DEF Goal

\* What a window keeps showing stays right.
LEMMA ShowsStay ==
  ASSUME TypeOK, [WorkerNext]_workerVars, NEW t \in Page, t \in open', changed'[t] >= changed[t],
         NEW w, Informs(w, t), tab'[t] = w
  PROVE  Informs(tab[t], t)'
<1>1. settings' = settings \/ Owes(t)'
  BY OwesStays
<1>2. Owes(t) => Owes(t)'
  BY OwesStays
<1> QED BY <1>1, <1>2, Zenon DEF Informs

LEMMA AnswerStays ==
  ASSUME TypeOK, [WorkerNext]_workerVars, NEW t \in Page, t \in open', changed'[t] >= changed[t],
         Hears(t), Waits(tab[t]), tab'[t].step = tab[t].step, tab'[t].slot = tab[t].slot,
         tab[t].rerun => tab'[t].rerun
  PROVE  Hears(t)'
<1> SUFFICES ASSUME tab'[t].step \in Awaiting, request'[tab'[t].slot].step = "answered"
             PROVE  \/ request'[tab'[t].slot].reply.enabled = settings'.enabled
                    \/ Owes(t)' \/ tab'[t].rerun
  BY DEF Hears
<1>1. PICK r \in Slot : r = tab[t].slot /\ r = tab'[t].slot
  BY DEF Waits
<1>2. /\ settings' = settings \/ Owes(t)'
      /\ Owes(t) => Owes(t)'
  BY OwesStays
<1>3. request[r] \in Requests /\ request \in [Slot -> Requests]
  BY DEF TypeOK
<1>4. CASE request[r].step \in {"announcing", "answered"} /\ request'[r].reply = request[r].reply
  <2>1. CASE request[r].step = "announcing"
    <3>1. Announce(r)
      <4>1. request'[r].step = "answered"
        BY <1>1
      <4>2. ~Change(r) /\ ~Supersede(r)
        BY <2>1 DEF Change, Supersede
      <4> QED BY <4>1, <4>2, <2>1, RequestStep
    <3>2. /\ changed' = [p \in Page |-> IF p \in open THEN changed[p] + 1 ELSE changed[p]]
          /\ open' = open /\ changed[t] \in Nat
      BY <3>1 DEF Announce, windowVars, TypeOK
    <3> QED BY <3>2 DEF Owes
  <2>2. CASE request[r].step = "answered"
    <3>1. request[r].reply.enabled = settings.enabled \/ Owes(t) \/ tab[t].rerun
      BY <2>2, <1>1 DEF Hears
    <3> QED BY <3>1, <1>1, <1>2, <1>4
  <2> QED BY <1>4, <2>1, <2>2
<1>5. CASE Change(r)
  <2>1. request'[r] = [request[r] EXCEPT !.step = "announcing",
                                         !.reply = ReplyTo(TRUE, Updated(request[r]))]
    BY <1>5, <1>3 DEF Change
  <2>2. request'[r].step = "announcing"
    BY <2>1, <1>3 DEF Requests
  <2> QED BY <2>2, <1>1
<1>6. CASE Supersede(r)
  <2>1. /\ settings' = settings
        /\ request'[r] = [request[r] EXCEPT !.step = "answered",
                                            !.reply = ReplyTo(FALSE, settings)]
    BY <1>6, <1>3 DEF Supersede
  <2>2. request'[r].reply = ReplyTo(FALSE, settings)
    BY <2>1, <1>3 DEF Requests
  <2>3. request'[r].reply.enabled = settings'.enabled
    BY <2>1, <2>2 DEF ReplyTo
  <2> QED BY <2>3, <1>1, Zenon
<1>7. request'[r].step = "answered"
  BY <1>1
<1>8. \/ request[r].step \in {"announcing", "answered"} /\ request'[r].reply = request[r].reply
      \/ Change(r) \/ Supersede(r)
  BY <1>7, RequestStep
<1> QED BY <1>4, <1>5, <1>6, <1>8, Zenon

\* A window in which nothing happens.
LEMMA Bystander ==
  ASSUME TabsInv, ToldInv, [WorkerNext]_workerVars, NEW t \in Page,
         t \in open, t \in open', changed'[t] >= changed[t], tab'[t] = tab[t]
  PROVE  (Informs(tab[t], t) /\ Hears(t))'
<1>1. TypeOK /\ Waits(tab[t])
  BY Facts
<1>2. Informs(tab[t], t) /\ Hears(t)
  BY DEF ToldInv
<1>3. PICK w : w = tab[t]
  OBVIOUS
<1>4. Informs(tab[t], t)'
  BY <1>1, <1>2, <1>3, ShowsStay
<1>5. Hears(t)'
  BY <1>1, <1>2, AnswerStays
<1> QED BY <1>4, <1>5

\* A window that has just posted its request, goes on waiting for it, or waits for none.
Hearing(t, w) ==
  \/ w.step \notin Awaiting
  \/ request'[w.slot].step = "sent"
  \/ w.step = tab[t].step /\ w.slot = tab[t].slot /\ (tab[t].rerun => w.rerun)

\* One window's turn keeps what the windows show.
LEMMA ShowTurn ==
  ASSUME TabsInv, ToldInv, [WorkerNext]_workerVars, UNCHANGED <<open, changed>>,
         NEW t \in Page, NEW w, Becomes(t, w), Hearing(t, w), t \in open => Informs(w, t)
  PROVE  ToldInv'
<1>1. TypeOK /\ tab \in [Page -> Window] /\ open \subseteq Page /\ changed \in [Page -> Nat]
  BY DEF TabsInv, TabsTypeOK, TypeOK
<1>2. /\ tab'[t] = w /\ \A u \in Page \ {t} : tab'[u] = tab[u]
      /\ \A u \in Page : changed'[u] >= changed[u]
  BY <1>1 DEF Becomes
<1>3. ASSUME NEW u \in open', u # t PROVE (Informs(tab[u], u) /\ Hears(u))'
  BY <1>1, <1>2, <1>3, Bystander
<1>4. ASSUME t \in open' PROVE (Informs(tab[t], t) /\ Hears(t))'
  <2>1. Informs(tab[t], t)'
    BY <1>1, <1>2, <1>4, ShowsStay
  <2>2. CASE w.step \notin Awaiting
    BY <2>1, <2>2, <1>2 DEF Hears
  <2>3. CASE request'[w.slot].step = "sent"
    BY <2>1, <2>3, <1>2 DEF Hears
  <2>4. CASE w.step = tab[t].step /\ w.slot = tab[t].slot /\ (tab[t].rerun => w.rerun)
    <3>1. Hears(t) /\ Waits(tab[t])
      BY <1>4, Facts DEF ToldInv
    <3>2. Hears(t)'
      BY <3>1, <2>4, <1>1, <1>2, <1>4, AnswerStays
    <3> QED BY <3>2, <2>1
  <2> QED BY <2>2, <2>3, <2>4 DEF Hearing
<1>5. \A r \in Slot : Enables(r)'
  BY <1>1, EnablesStep DEF ToldInv
<1> QED BY <1>3, <1>4, <1>5 DEF ToldInv

\* A window that shows the same.
ShowsAs(v, w) ==
  /\ v.refresh = w.refresh /\ v.found = w.found /\ v.optedIn = w.optedIn
  /\ v.behind = w.behind /\ v.rerun = w.rerun

LEMMA LikeInforms ==
  ASSUME NEW t, NEW v, NEW w, ShowsAs(v, w), Informs(w, t), v.step # "idle"
  PROVE  Informs(v, t)
BY DEF ShowsAs, Informs

\* The end of an operation: a window that was told of a change meanwhile asks again.
LEMMA FinishInforms ==
  ASSUME NEW t, NEW w \in Window, NEW trouble \in BOOLEAN, Informs(w, t)
  PROVE  Informs(Finish(w, trouble), t)
<1> DEFINE done == [w EXCEPT !.step = "idle", !.slot = 0, !.token = 0, !.endpoint = 0,
                             !.rerun = FALSE, !.trouble = trouble]
<1>1. /\ done \in Window /\ done.refresh = w.refresh /\ done.found = w.found
      /\ done.optedIn = w.optedIn /\ done.behind = w.behind /\ done.rerun = FALSE
  BY DEF Window
<1>2. Finish(w, trouble) = IF w.rerun THEN [Asking(done) EXCEPT !.kept = trouble] ELSE done
  BY DEF Finish
<1> HIDE DEF done
<1>3. CASE w.rerun
  <2> DEFINE v == [Asking(done) EXCEPT !.kept = trouble]
  <2>1. v.refresh = "asked" /\ v.rerun = FALSE
    BY <1>1 DEF Asking, Window
  <2> HIDE DEF v
  <2>2. Informs(v, t)
    BY <2>1 DEF Informs
  <2> QED BY <2>2, <1>2, <1>3 DEF v
<1>4. CASE ~w.rerun
  <2>1. Informs(done, t)
    BY <1>1, <1>4 DEF Informs
  <2> QED BY <2>1, <1>2, <1>4
<1> QED BY <1>3, <1>4

LEMMA FailInforms ==
  ASSUME NEW t, NEW w \in Window, Informs(w, t)
  PROVE  Informs(Fail(w), t)
<1> DEFINE v == IF w.step \in {"beginning", "subscribing", "registering", "enabling"}
                THEN [w EXCEPT !.registered = FALSE] ELSE w
<1>1. v \in Window /\ ShowsAs(v, w) /\ v.step = w.step
  <2> DEFINE u == [w EXCEPT !.registered = FALSE]
  <2>1. u \in Window /\ ShowsAs(u, w) /\ u.step = w.step
    BY DEF Window, ShowsAs
  <2>2. ShowsAs(w, w)
    BY DEF ShowsAs
  <2>3. v = w \/ v = u
    OBVIOUS
  <2> HIDE DEF u, v
  <2> QED BY <2>1, <2>2, <2>3
<1>2. Fail(w) = Finish(v, TRUE)
  BY DEF Fail
<1> HIDE DEF v
<1>3. Informs(v, t)
  BY <1>1 DEF ShowsAs, Informs
<1> QED BY <1>1, <1>2, <1>3, FinishInforms

\* The beginning of one: a window that drops its refresh knows that it is behind.
LEMMA StartInforms ==
  ASSUME NEW t \in Page, tab \in [Page -> Window], NEW step \in {"idle", "beginning", "disabling", "saving"},
         tab[t].step = "idle", Informs(tab[t], t)
  PROVE  Starts(t, step) \in Window /\ Starts(t, step).step = step /\ Informs(Starts(t, step), t)
<1>1. tab[t] \in Window /\ ~tab[t].rerun
  BY DEF Informs
<1>2. Starts(t, step) \in Window /\ Starts(t, step).step = step
  BY Started DEF Alike
<1>3. PICK behind \in BOOLEAN : behind = (tab[t].behind \/ tab[t].refresh # "none")
  OBVIOUS
<1> DEFINE w == [tab[t] EXCEPT !.refresh = "none", !.kept = FALSE, !.behind = behind]
<1>4. Dropping(tab[t]) = w
  BY <1>3, Zenon DEF Dropping
<1>5. /\ w \in Window /\ w.refresh = "none" /\ w.behind = behind /\ w.optedIn = tab[t].optedIn
      /\ w.rerun = tab[t].rerun
  BY <1>1 DEF Window
<1> HIDE DEF w
<1>6. /\ [w EXCEPT !.step = step, !.trouble = FALSE].refresh = "none"
      /\ [w EXCEPT !.step = step, !.trouble = FALSE].behind = behind
      /\ [w EXCEPT !.step = step, !.trouble = FALSE].optedIn = tab[t].optedIn
      /\ [w EXCEPT !.step = step, !.trouble = FALSE].rerun = tab[t].rerun
  BY <1>5 DEF Window
<1>7. Starts(t, step) = [w EXCEPT !.step = step, !.trouble = FALSE]
  BY <1>4 DEF Starts
<1>8. /\ Starts(t, step).refresh = "none" /\ Starts(t, step).behind = behind
      /\ Starts(t, step).optedIn = tab[t].optedIn /\ ~Starts(t, step).rerun
  BY <1>1, <1>6, <1>7
<1>9. tab[t].optedIn = settings.enabled \/ Owes(t) \/ behind
  <2>1. CASE tab[t].refresh = "none"
    BY <2>1, <1>1, <1>3 DEF Informs
  <2>2. CASE tab[t].refresh # "none"
    BY <2>2, <1>3
  <2> QED BY <2>1, <2>2
<1>10. Informs(Starts(t, step), t)
  BY <1>8, <1>9 DEF Informs
<1> QED BY <1>2, <1>10

\* A window that takes an answer shows what it says.
LEMMA ToldInforms ==
  ASSUME TabsInv, ToldInv, NEW t \in Page, t \in open, tab[t].step \in Awaiting, Answered(t)
  PROVE  /\ Told(t) \in Window /\ Told(t).step = tab[t].step /\ Informs(Told(t), t)
         /\ Told(t).optedIn = request[tab[t].slot].reply.enabled
         /\ Told(t).rerun = tab[t].rerun /\ Told(t).behind = FALSE
<1>1. /\ TabsTypeOK /\ tab[t] \in Window /\ Waits(tab[t]) /\ Informs(tab[t], t) /\ Hears(t)
  BY Facts DEF ToldInv
<1>2. tab[t].slot \in Slot
  BY <1>1 DEF Waits
<1>3. Told(t) \in Window /\ Told(t).step = tab[t].step /\ Told(t).found = tab[t].found
  BY <1>1, <1>2, Learns
<1>4. /\ request[tab[t].slot].reply.enabled \in BOOLEAN
      /\ request[tab[t].slot].reply.enabled = settings.enabled \/ Owes(t) \/ tab[t].rerun
  BY <1>1, <1>2 DEF Hears, Answered, TabsTypeOK, TypeOK, Requests, Reply
<1>5. /\ Told(t).refresh = tab[t].refresh /\ Told(t).rerun = tab[t].rerun
      /\ Told(t).optedIn = request[tab[t].slot].reply.enabled /\ Told(t).behind = FALSE
  BY <1>1 DEF Told, Window
<1>6. tab[t].step # "idle"
  BY DEF Awaiting
<1>7. Informs(Told(t), t)
  BY <1>1, <1>3, <1>4, <1>5, <1>6, Zenon DEF Informs
<1> QED BY <1>3, <1>5, <1>7

-----------------------------------------------------------------------------
(* Each action keeps what the windows show.                                 *)

\* A turn that leaves the worker alone.
LEMMA LoneShow ==
  ASSUME TabsInv, ToldInv, UNCHANGED workerVars,
         NEW t \in Page, NEW w, Becomes(t, w), t \in open => Informs(w, t),
         \/ w.step \notin Awaiting
         \/ w.step = tab[t].step /\ w.slot = tab[t].slot /\ (tab[t].rerun => w.rerun)
  PROVE  ToldInv'
<1>1. UNCHANGED <<open, changed>> /\ [WorkerNext]_workerVars
  BY DEF workerVars, windowVars, requestVars
<1> QED BY <1>1, ShowTurn DEF Hearing

LEMMA RefreshShows ==
  ASSUME TabsInv, ToldInv, NEW t \in Page,
         Read(t) \/ Look(t) \/ Unverified(t) \/ Refresh(t)
  PROVE  ToldInv'
<1>1. tab[t] \in Window /\ settings \in Settings /\ (t \in open => Informs(tab[t], t))
  BY Facts DEF ToldInv
<1>2. UNCHANGED workerVars
  BY DEF Read, Look, Unverified, Refresh
<1>3. CASE Read(t)
  <2> DEFINE w == [tab[t] EXCEPT !.refresh = "told", !.found = settings]
  <2>1. Becomes(t, w)
    BY <1>3 DEF Read
  <2>2. /\ w.refresh = "told" /\ w.found = settings /\ w.rerun = tab[t].rerun
        /\ w.step = tab[t].step /\ w.slot = tab[t].slot
    BY <1>1 DEF Window
  <2> HIDE DEF w
  <2>3. t \in open => Informs(w, t)
    BY <1>1, <2>2 DEF Informs
  <2> QED BY <2>1, <2>2, <2>3, <1>2, LoneShow
<1>4. CASE Look(t)
  <2>0. PICK confirmed \in BOOLEAN : confirmed = (subscription # 0 /\ subscription \in registered)
    OBVIOUS
  <2> DEFINE w == Shows(tab[t], confirmed)
  <2>1. Becomes(t, w) /\ tab[t].refresh = "told"
    BY <1>4, <2>0, Zenon DEF Look
  <2>2. /\ w.refresh = "none" /\ w.optedIn = tab[t].found.enabled /\ w.rerun = tab[t].rerun
        /\ w.step = tab[t].step /\ w.slot = tab[t].slot
    BY <1>1 DEF Shows, Window
  <2> HIDE DEF w
  <2>3. t \in open => Informs(w, t)
    BY <1>1, <2>1, <2>2 DEF Informs
  <2> QED BY <2>1, <2>2, <2>3, <1>2, LoneShow
<1>5. CASE Unverified(t)
  <2> DEFINE w == [tab[t] EXCEPT !.registered = FALSE, !.trouble = TRUE, !.behind = TRUE,
                                 !.refresh = "none", !.kept = FALSE,
                                 !.found = DEFAULT_SETTINGS]
  <2>1. Becomes(t, w)
    BY <1>5 DEF Unverified
  <2>2. /\ w.refresh = "none" /\ w.behind = TRUE /\ w.rerun = tab[t].rerun
        /\ w.step = tab[t].step /\ w.slot = tab[t].slot
    BY <1>1 DEF Window
  <2> HIDE DEF w
  <2>3. t \in open => Informs(w, t)
    BY <1>1, <2>2 DEF Informs
  <2> QED BY <2>1, <2>2, <2>3, <1>2, LoneShow
<1>6. CASE Refresh(t)
  <2> DEFINE w == Asking(tab[t])
  <2>1. Becomes(t, w)
    BY <1>6 DEF Refresh
  <2>2. /\ w.refresh = "asked" /\ w.rerun = tab[t].rerun
        /\ w.step = tab[t].step /\ w.slot = tab[t].slot
    BY <1>1 DEF Asking, Window
  <2> HIDE DEF w
  <2>3. t \in open => Informs(w, t)
    BY <1>1, <2>2 DEF Informs
  <2> QED BY <2>1, <2>2, <2>3, <1>2, LoneShow
<1> QED BY <1>3, <1>4, <1>5, <1>6

\* A message makes the window look again, at once or when its operation ends.
LEMMA HearShows ==
  ASSUME TabsInv, ToldInv, [WorkerNext]_workerVars, NEW t \in Page, Hear(t)
  PROVE  ToldInv'
<1> DEFINE w == IF tab[t].step = "idle" THEN Asking(tab[t]) ELSE [tab[t] EXCEPT !.rerun = TRUE]
<1>1. /\ TypeOK /\ tab \in [Page -> Window] /\ open \subseteq Page /\ changed \in [Page -> Nat]
      /\ tab[t] \in Window /\ (t \in open => Informs(tab[t], t))
  BY Facts DEF TabsInv, TabsTypeOK, TypeOK, ToldInv
<1>2. /\ Becomes(t, w) /\ open' = open
      /\ \A u \in Page \ {t} : changed'[u] = changed[u]
  BY <1>1 DEF Hear, Handle, windowVars
<1>3. /\ w.step = tab[t].step
      /\ tab[t].step = "idle" => w.refresh = "asked" /\ w.rerun = tab[t].rerun
      /\ tab[t].step # "idle" => w.rerun = TRUE
  BY <1>1 DEF Asking, Window
<1> HIDE DEF w
<1>4. tab'[t] = w /\ \A u \in Page \ {t} : tab'[u] = tab[u]
  BY <1>1, <1>2 DEF Becomes
<1>5. ASSUME NEW u \in open', u # t PROVE (Informs(tab[u], u) /\ Hears(u))'
  <2>1. u \in Page /\ u \in open /\ changed'[u] >= changed[u] /\ tab'[u] = tab[u]
    BY <1>1, <1>2, <1>4, <1>5
  <2> QED BY <2>1, <1>5, Bystander
<1>6. ASSUME t \in open' PROVE (Informs(tab[t], t) /\ Hears(t))'
  <2>1. CASE tab[t].step = "idle"
    <3>1. tab'[t].refresh = "asked" /\ ~tab'[t].rerun /\ tab'[t].step = "idle"
      BY <2>1, <1>1, <1>2, <1>3, <1>4, <1>6 DEF Informs
    <3> QED BY <3>1 DEF Informs, Hears, Awaiting
  <2>2. CASE tab[t].step # "idle"
    <3>1. tab'[t].rerun /\ tab'[t].step # "idle"
      BY <2>2, <1>3, <1>4
    <3> QED BY <3>1 DEF Informs, Hears
  <2> QED BY <2>1, <2>2
<1>7. \A r \in Slot : Enables(r)'
  BY <1>1, EnablesStep DEF ToldInv
<1> QED BY <1>5, <1>6, <1>7 DEF ToldInv

\* Operations that end at once, and those that only the server answers.
LEMMA IdleShows ==
  ASSUME TabsInv, ToldInv, NEW t \in Page, Decline(t) \/ Save(t) \/ Test(t)
  PROVE  ToldInv'
<1>1. /\ tab \in [Page -> Window] /\ t \in open /\ tab[t].step = "idle" /\ Informs(tab[t], t)
      /\ UNCHANGED workerVars /\ subscription \in Nat
  BY DEF TabsInv, TabsTypeOK, ToldInv, Decline, Save, Test, MayEnable, Idle
<1>2. ASSUME NEW trouble \in BOOLEAN, Becomes(t, Finish(Starts(t, "idle"), trouble))
      PROVE  ToldInv'
  <2> DEFINE v == Starts(t, "idle")
  <2>1. v \in Window /\ Informs(v, t)
    BY <1>1, StartInforms
  <2> HIDE DEF v
  <2>2. Informs(Finish(v, trouble), t) /\ Finish(v, trouble).step = "idle"
    BY <2>1, Finished, FinishInforms
  <2>3. Becomes(t, Finish(v, trouble))
    BY <1>2 DEF v
  <2>4. Finish(v, trouble).step \notin Awaiting
    BY <2>2 DEF Awaiting
  <2> QED BY <2>2, <2>3, <2>4, <1>1, LoneShow
<1>3. CASE Decline(t)
  BY <1>2, <1>3 DEF Decline
<1>4. CASE Test(t)
  <2>1. PICK trouble \in {TRUE, subscription \notin registered} :
          Becomes(t, Finish(Starts(t, "idle"), trouble))
    BY <1>4 DEF Test
  <2>2. trouble \in BOOLEAN
    OBVIOUS
  <2> QED BY <2>1, <2>2, <1>2
<1>5. CASE Save(t)
  <2>1. CASE subscription = 0
    BY <2>1, <1>5, <1>2 DEF Save
  <2>2. CASE subscription # 0
    <3> DEFINE v == Starts(t, "saving")
               w == [v EXCEPT !.endpoint = subscription]
    <3>1. Becomes(t, w)
      BY <2>2, <1>5 DEF Save
    <3>2. v \in Window /\ v.step = "saving" /\ Informs(v, t)
      BY <1>1, StartInforms
    <3> HIDE DEF v
    <3>3. ShowsAs(w, v) /\ w.step = "saving"
      BY <3>2 DEF ShowsAs, Window
    <3> HIDE DEF w
    <3>4. Informs(w, t) /\ w.step \notin Awaiting
      BY <3>2, <3>3, LikeInforms DEF Awaiting
    <3> QED BY <3>1, <3>4, <1>1, LoneShow
  <2> QED BY <2>1, <2>2
<1> QED BY <1>3, <1>4, <1>5

LEMMA ServerShows ==
  ASSUME TabsInv, ToldInv, NEW t \in Page,
         Subscribe(t) \/ Delete(t) \/ Unsubscribe(t) \/ Saved(t) \/ ServerFails(t)
  PROVE  ToldInv'
<1>1. /\ tab[t] \in Window /\ (t \in open => Informs(tab[t], t)) /\ UNCHANGED workerVars
  BY Facts DEF ToldInv, Subscribe, Delete, Unsubscribe, Saved, ServerFails
<1>2. ASSUME NEW w, Becomes(t, w), ShowsAs(w, tab[t]), w.step \notin Awaiting \cup {"idle"}
      PROVE  ToldInv'
  BY <1>1, <1>2, LikeInforms, LoneShow
<1>3. ASSUME NEW w \in Window, t \in open => Informs(w, t), NEW trouble \in BOOLEAN,
             Becomes(t, Finish(w, trouble))
      PROVE  ToldInv'
  <2>1. Finish(w, trouble).step \notin Awaiting
    BY Finished DEF Awaiting
  <2>2. t \in open => Informs(Finish(w, trouble), t)
    BY <1>3, FinishInforms
  <2> QED BY <2>1, <2>2, <1>1, <1>3, LoneShow
<1>4. ASSUME Becomes(t, Fail(tab[t])) PROVE ToldInv'
  <2>1. Fail(tab[t]).step \notin Awaiting
    BY <1>1, Failed DEF Awaiting
  <2>2. t \in open => Informs(Fail(tab[t]), t)
    BY <1>1, FailInforms
  <2> QED BY <2>1, <2>2, <1>1, <1>4, LoneShow
<1>5. CASE Subscribe(t)
  <2> DEFINE w == [tab[t] EXCEPT !.step = "registering", !.endpoint = subscription']
  <2>1. Becomes(t, w)
    BY <1>5 DEF Subscribe
  <2>2. ShowsAs(w, tab[t]) /\ w.step = "registering"
    BY <1>1 DEF ShowsAs, Window
  <2> HIDE DEF w
  <2> QED BY <2>1, <2>2, <1>2 DEF Awaiting
<1>6. CASE Delete(t)
  <2> DEFINE w == [tab[t] EXCEPT !.step = "unsubscribing"]
  <2>1. Becomes(t, w)
    BY <1>6 DEF Delete
  <2>2. ShowsAs(w, tab[t]) /\ w.step = "unsubscribing"
    BY <1>1 DEF ShowsAs, Window
  <2> HIDE DEF w
  <2> QED BY <2>1, <2>2, <1>2 DEF Awaiting
<1>7. CASE Unsubscribe(t)
  <2> DEFINE w == [tab[t] EXCEPT !.registered = FALSE]
  <2>1. Becomes(t, Finish(w, FALSE)) \/ Becomes(t, Fail(tab[t]))
    BY <1>7 DEF Unsubscribe
  <2>2. w \in Window /\ ShowsAs(w, tab[t]) /\ w.step = tab[t].step
    BY <1>1 DEF ShowsAs, Window
  <2> HIDE DEF w
  <2>3. t \in open => Informs(w, t)
    BY <2>2, <1>1 DEF ShowsAs, Informs
  <2> QED BY <2>1, <2>2, <2>3, <1>3, <1>4
<1>8. CASE Saved(t)
  BY <1>8, <1>1, <1>3 DEF Saved
<1>9. CASE ServerFails(t)
  BY <1>9, <1>4 DEF ServerFails
<1> QED BY <1>5, <1>6, <1>7, <1>8, <1>9

\* A window that posts a request.
LEMMA PostShows ==
  ASSUME TabsInv, ToldInv, [WorkerNext]_workerVars, NEW t \in Page, NEW w,
         NEW r \in Slot, NEW k \in Kind, NEW g \in Nat, Post(r, k, g),
         w.slot = r, Becomes(t, w), t \in open => Informs(w, t)
  PROVE  ToldInv'
<1>1. request'[r].step = "sent"
  BY PostType DEF TabsInv, TabsTypeOK
<1>2. UNCHANGED <<open, changed>>
  BY DEF Post, windowVars
<1> QED BY <1>1, <1>2, ShowTurn DEF Hearing

LEMMA PortShows ==
  ASSUME TabsInv, ToldInv, [WorkerNext]_workerVars, NEW t \in Page,
         Enable(t) \/ Register(t) \/ Disable(t)
  PROVE  ToldInv'
<1>1. /\ tab[t] \in Window /\ tab \in [Page -> Window] /\ (t \in open => Informs(tab[t], t))
      /\ tab[t].generation \in Nat /\ tab[t].token \in Nat
  BY Facts DEF TabsTypeOK, ToldInv, Window
<1>2. NextSlot \in Slot
  <2>1. FreeSlots # {}
    BY DEF Enable, Register, Disable
  <2> QED BY <2>1 DEF NextSlot, FreeSlots
<1>3. PICK r \in Slot : r = NextSlot
  BY <1>2
<1>4. ASSUME NEW step \in {"beginning", "disabling"}, NEW k \in Kind, NEW g \in Nat,
             Idle(t), Post(r, k, g), Becomes(t, [Starts(t, step) EXCEPT !.slot = r])
      PROVE  ToldInv'
  <2> DEFINE v == Starts(t, step)
             w == [v EXCEPT !.slot = r]
  <2>1. v \in Window /\ v.step = step /\ Informs(v, t)
    BY <1>1, <1>4, StartInforms DEF Idle
  <2>2. Becomes(t, w)
    BY <1>4
  <2> HIDE DEF v
  <2>3. ShowsAs(w, v) /\ w.step = step /\ w.slot = r
    BY <2>1 DEF ShowsAs, Window
  <2> HIDE DEF w
  <2>4. Informs(w, t)
    BY <2>1, <2>3, LikeInforms
  <2> QED BY <2>2, <2>3, <2>4, <1>4, PostShows
<1>5. CASE Enable(t)
  <2>1. /\ Idle(t) /\ Post(r, "begin", tab[t].generation)
        /\ Becomes(t, [Starts(t, "beginning") EXCEPT !.slot = r])
    BY <1>5, <1>3 DEF Enable, MayEnable
  <2>2. PICK g \in Nat : g = tab[t].generation
    BY <1>1
  <2> QED BY <2>1, <2>2, <1>4 DEF Kind
<1>6. CASE Disable(t)
  <2>1. /\ Idle(t) /\ Post(r, "disable", 0)
        /\ Becomes(t, [Starts(t, "disabling") EXCEPT !.slot = r])
    BY <1>6, <1>3 DEF Disable
  <2> QED BY <2>1, <1>4 DEF Kind
<1>7. CASE Register(t)
  <2> DEFINE w == [tab[t] EXCEPT !.step = "enabling", !.slot = r]
  <2>1. Becomes(t, w) /\ Post(r, "enable", tab[t].token)
    BY <1>7, <1>3 DEF Register
  <2>2. ShowsAs(w, tab[t]) /\ w.step = "enabling" /\ w.slot = r
    BY <1>1 DEF ShowsAs, Window
  <2> HIDE DEF w
  <2>3. PICK g \in Nat : g = tab[t].token
    BY <1>1
  <2>4. t \in open => Informs(w, t)
    BY <2>2, <1>1, LikeInforms
  <2>5. Post(r, "enable", g) /\ "enable" \in Kind
    BY <2>1, <2>3 DEF Kind
  <2> QED BY <2>1, <2>2, <2>4, <2>5, PostShows
<1> QED BY <1>5, <1>6, <1>7

\* A window that closes its port, or gives up: it waits no more.
LEMMA DoneShows ==
  ASSUME TabsInv, ToldInv, [WorkerNext]_workerVars, NEW t \in Page, NEW w, Becomes(t, w),
         Close(tab[t].slot) \/ UNCHANGED workerVars, w.step \notin Awaiting,
         t \in open => Informs(w, t)
  PROVE  ToldInv'
<1>1. UNCHANGED <<open, changed>>
  BY DEF Close, workerVars, windowVars, requestVars
<1> QED BY <1>1, ShowTurn DEF Hearing

LEMMA AnswerShows ==
  ASSUME TabsInv, ToldInv, [WorkerNext]_workerVars, NEW t \in Page,
         Superseded(t) \/ Begun(t) \/ Enabled(t) \/ Disabled(t) \/ NoAnswer(t)
  PROVE  ToldInv'
<1>1. /\ tab[t] \in Window /\ Waits(tab[t]) /\ tab[t].step \in Awaiting
      /\ t \in open => Informs(tab[t], t)
  BY Facts DEF ToldInv, Superseded, Begun, Enabled, Disabled, NoAnswer, Awaiting
<1>2. ASSUME Answered(t)
      PROVE  /\ Told(t) \in Window
             /\ t \in open => Informs(Told(t), t)
  <2>1. tab[t].slot \in Slot
    BY <1>1 DEF Waits
  <2> QED BY <2>1, <1>1, <1>2, Learns, Facts, ToldInforms
<1>3. ASSUME NEW w \in Window, t \in open => Informs(w, t),
             Close(tab[t].slot) \/ UNCHANGED workerVars,
             Becomes(t, Fail(w)) \/ Becomes(t, Finish(w, FALSE))
      PROVE  ToldInv'
  <2>1. CASE Becomes(t, Fail(w))
    <3>1. Fail(w).step \notin Awaiting
      BY Failed DEF Awaiting
    <3>2. t \in open => Informs(Fail(w), t)
      BY <1>3, FailInforms
    <3> QED BY <3>1, <3>2, <2>1, <1>3, DoneShows
  <2>2. CASE Becomes(t, Finish(w, FALSE))
    <3>1. Finish(w, FALSE).step \notin Awaiting
      BY Finished DEF Awaiting
    <3>2. t \in open => Informs(Finish(w, FALSE), t)
      BY <1>3, FinishInforms
    <3> QED BY <3>1, <3>2, <2>2, <1>3, DoneShows
  <2> QED BY <1>3, <2>1, <2>2
<1>4. CASE Superseded(t)
  BY <1>2, <1>3, <1>4 DEF Superseded
<1>5. CASE NoAnswer(t)
  BY <1>1, <1>3, <1>5 DEF NoAnswer
<1>6. CASE Begun(t)
  <2> DEFINE w == [Told(t) EXCEPT !.step = "subscribing", !.registered = FALSE,
                                  !.token = request[tab[t].slot].reply.generation]
  <2>1. Becomes(t, w) /\ Answered(t) /\ Close(tab[t].slot)
    BY <1>6 DEF Begun
  <2>2. Told(t) \in Window /\ (t \in open => Informs(Told(t), t))
    BY <2>1, <1>2
  <2>3. ShowsAs(w, Told(t)) /\ w.step = "subscribing"
    BY <2>2 DEF ShowsAs, Window
  <2> HIDE DEF w
  <2>4. t \in open => Informs(w, t)
    BY <2>2, <2>3, LikeInforms
  <2> QED BY <2>1, <2>3, <2>4, DoneShows DEF Awaiting
<1>7. CASE Enabled(t)
  <2> DEFINE w == [Told(t) EXCEPT !.optedIn = TRUE, !.registered = TRUE]
  <2>1. /\ Becomes(t, Finish(w, FALSE)) /\ Answered(t) /\ Applied(t) /\ Close(tab[t].slot)
        /\ tab[t].step = "enabling"
    BY <1>7 DEF Enabled
  <2>2. Told(t) \in Window /\ (t \in open => Informs(Told(t), t))
    BY <2>1, <1>2
  <2>3. request[tab[t].slot].reply.enabled
    <3>1. tab[t].slot \in Slot /\ request[tab[t].slot].kind = "enable"
      BY <1>1, <2>1 DEF Waits, KindOf
    <3> QED BY <3>1, <2>1 DEF ToldInv, Enables, Answered, Applied
  <2>4. t \in open => Told(t).optedIn = TRUE
    <3>1. t \in open => Told(t).optedIn = request[tab[t].slot].reply.enabled
      BY <1>1, <2>1, ToldInforms
    <3> QED BY <3>1, <2>2, <2>3 DEF Window
  <2>5. w \in Window /\ (t \in open => ShowsAs(w, Told(t))) /\ w.step = Told(t).step
    BY <2>2, <2>4 DEF ShowsAs, Window
  <2> HIDE DEF w
  <2>6. t \in open => Informs(w, t)
    BY <2>2, <2>5 DEF ShowsAs, Informs
  <2> QED BY <2>1, <2>5, <2>6, <1>3
<1>8. CASE Disabled(t)
  <2>1. Answered(t) /\ Close(tab[t].slot)
    BY <1>8 DEF Disabled
  <2>2. Told(t) \in Window /\ (t \in open => Informs(Told(t), t))
    BY <2>1, <1>2
  <2>3. CASE Becomes(t, Finish([Told(t) EXCEPT !.registered = FALSE], FALSE))
    <3> DEFINE w == [Told(t) EXCEPT !.registered = FALSE]
    <3>1. w \in Window /\ ShowsAs(w, Told(t)) /\ w.step = Told(t).step
      BY <2>2 DEF ShowsAs, Window
    <3>2. Becomes(t, Finish(w, FALSE))
      BY <2>3
    <3> HIDE DEF w
    <3>3. t \in open => Informs(w, t)
      BY <2>2, <3>1 DEF ShowsAs, Informs
    <3> QED BY <3>1, <3>2, <3>3, <2>1, <1>3
  <2>4. CASE Becomes(t, [Told(t) EXCEPT !.step = "deleting", !.endpoint = subscription])
    <3> DEFINE w == [Told(t) EXCEPT !.step = "deleting", !.endpoint = subscription]
    <3>1. ShowsAs(w, Told(t)) /\ w.step = "deleting"
      BY <2>2 DEF ShowsAs, Window
    <3>2. Becomes(t, w)
      BY <2>4
    <3> HIDE DEF w
    <3>3. t \in open => Informs(w, t)
      BY <2>2, <3>1, LikeInforms
    <3> QED BY <3>1, <3>2, <3>3, <2>1, DoneShows DEF Awaiting
  <2> QED BY <1>8, <2>3, <2>4 DEF Disabled
<1> QED BY <1>4, <1>5, <1>6, <1>7, <1>8

\* A window that is opened asks at once.
LEMMA VisitShows ==
  ASSUME TabsInv, ToldInv, [WorkerNext]_workerVars, NEW t \in Page,
         CloseTab(t) \/ OpenTab(t) \/ \E e \in Event : ClickNotification(e, t)
  PROVE  ToldInv'
<1>1. /\ TypeOK /\ tab \in [Page -> Window] /\ open \subseteq Page /\ changed \in [Page -> Nat]
  BY DEF TabsInv, TabsTypeOK, TypeOK
<1>2. Opened \in Window /\ Opened.refresh = "asked" /\ Opened.step = "idle" /\ ~Opened.rerun
  BY DEF Opened, Window, DEFAULT_SETTINGS, Settings
<1>3. /\ \A u \in Page \ {t} : tab'[u] = tab[u] /\ changed'[u] = changed[u]
      /\ open' \subseteq open \cup {t}
      /\ t \notin open' \/ tab'[t] = Opened \/ (t \in open /\ tab'[t] = tab[t] /\ changed'[t] = changed[t])
  <2>1. CASE CloseTab(t)
    BY <2>1, <1>1 DEF CloseTab, Leave, Becomes
  <2>2. CASE OpenTab(t)
    BY <2>2, <1>1 DEF OpenTab, Enter, Becomes, requestVars
  <2>3. ASSUME NEW e \in Event, ClickNotification(e, t)
        PROVE  /\ changed' = changed /\ open' \subseteq open \cup {t}
               /\ tab' = IF t \in open' \ open THEN [tab EXCEPT ![t] = Opened] ELSE tab
    BY <2>3 DEF ClickNotification, Click, requestVars
  <2> QED BY <2>1, <2>2, <2>3, <1>1
<1>4. ASSUME NEW u \in open', u \in open, tab'[u] = tab[u], changed'[u] = changed[u]
      PROVE  (Informs(tab[u], u) /\ Hears(u))'
  <2>1. u \in Page /\ changed'[u] >= changed[u]
    BY <1>1, <1>4
  <2> QED BY <2>1, <1>4, Bystander
<1>5. ASSUME tab'[t] = Opened PROVE (Informs(tab[t], t) /\ Hears(t))'
  BY <1>2, <1>5 DEF Informs, Hears, Awaiting
<1>6. \A u \in open' : (Informs(tab[u], u) /\ Hears(u))'
  BY <1>1, <1>3, <1>4, <1>5
<1>7. \A r \in Slot : Enables(r)'
  BY <1>1, EnablesStep DEF ToldInv
<1> QED BY <1>6, <1>7 DEF ToldInv

\* What happens outside the windows; what was owed is owed, or the message has come.
LEMMA OutsideShows ==
  ASSUME TabsInv, ToldInv, [WorkerNext]_workerVars, UNCHANGED <<open, tab>>,
         \A u \in open : changed'[u] >= changed[u]
  PROVE  ToldInv'
<1>1. TypeOK /\ open \subseteq Page
  BY DEF TabsInv, TabsTypeOK, TypeOK
<1>2. ASSUME NEW u \in open' PROVE (Informs(tab[u], u) /\ Hears(u))'
  <2>1. u \in Page /\ u \in open /\ changed'[u] >= changed[u] /\ tab'[u] = tab[u]
    BY <1>1, <1>2
  <2> QED BY <2>1, <1>2, Bystander
<1>3. \A r \in Slot : Enables(r)'
  BY <1>1, EnablesStep DEF ToldInv
<1> QED BY <1>2, <1>3 DEF ToldInv

LEMMA WorkerShows ==
  ASSUME TabsInv, ToldInv, [WorkerNext]_workerVars,
         \/ \E r \in Slot : WorkerHandles(r) \/ Reap(r)
         \/ \E d \in Delivery : PushArrives(d) \/ Pushed(d)
         \/ WorkerFails
         \/ UNCHANGED vars
  PROVE  ToldInv'
<1>1. open \subseteq Page /\ changed \in [Page -> Nat]
  BY DEF TabsInv, TabsTypeOK, TypeOK
<1>2. ASSUME UNCHANGED <<open, changed, tab>> PROVE ToldInv'
  <2>1. \A u \in open : changed'[u] >= changed[u]
    BY <1>1, <1>2
  <2> QED BY <2>1, <1>2, OutsideShows
<1>3. ASSUME NEW d \in Delivery,
             \/ Receive(d) \/ Claim(d) \/ Recheck(d) \/ Show(d)
             \/ ShowFails(d) \/ Release(d) \/ StorageFails(d)
      PROVE  UNCHANGED <<open, changed>>
  <2>1. (Receive(d) \/ Recheck(d) \/ Show(d) \/ ShowFails(d)) => UNCHANGED <<open, requestVars>>
    BY DEF Receive, Recheck, Show, ShowFails, windowVars
  <2>2. (Claim(d) \/ Release(d) \/ StorageFails(d)) => UNCHANGED <<open, requestVars>>
    BY DEF Claim, Release, StorageFails, windowVars
  <2> QED BY <2>1, <2>2, <1>3 DEF requestVars
<1>4. ASSUME NEW r \in Slot, Change(r) \/ Supersede(r) \/ Refuse(r) \/ Close(r) \/ Kill
      PROVE  UNCHANGED <<open, changed>>
  BY <1>4 DEF Change, Supersede, Refuse, Close, Kill, windowVars
<1>5. ASSUME NEW r \in Slot, Announce(r), UNCHANGED tab PROVE ToldInv'
  <2>1. /\ changed' = [p \in Page |-> IF p \in open THEN changed[p] + 1 ELSE changed[p]]
        /\ open' = open
    BY <1>5 DEF Announce, windowVars
  <2>2. \A u \in open : changed'[u] >= changed[u]
    BY <2>1, <1>1
  <2> QED BY <2>1, <2>2, <1>5, OutsideShows
<1>6. ASSUME NEW r \in Slot, WorkerHandles(r) \/ Reap(r) PROVE ToldInv'
  BY <1>2, <1>4, <1>5, <1>6 DEF WorkerHandles, Reap, Apart
<1>7. ASSUME NEW d \in Delivery, PushArrives(d) \/ Pushed(d) PROVE ToldInv'
  BY <1>2, <1>3, <1>7 DEF PushArrives, Pushed, Apart
<1>8. CASE WorkerFails
  <2>1. Kill => UNCHANGED <<open, changed>>
    BY DEF Kill, windowVars
  <2> QED BY <2>1, <1>2, <1>3, <1>4, <1>8 DEF WorkerFails, Apart
<1>9. CASE UNCHANGED vars
  BY <1>2, <1>9 DEF vars, workerVars, windowVars, requestVars
<1> QED BY <1>6, <1>7, <1>8, <1>9

LEMMA ToldStep == TabsInv /\ ToldInv /\ [Next]_vars => ToldInv'
<1> SUFFICES ASSUME TabsInv, ToldInv, [Next]_vars PROVE ToldInv'
  OBVIOUS
<1>1. [WorkerNext]_workerVars
  BY TabsStep
<1>2. ASSUME NEW t \in Page, TabStep(t) PROVE ToldInv'
  BY <1>1, <1>2, RefreshShows, HearShows, ServerShows, PortShows, AnswerShows DEF TabStep
<1>3. ASSUME NEW t \in Page, Choice(t) PROVE ToldInv'
  BY <1>1, <1>3, RefreshShows, IdleShows, PortShows DEF Choice
<1>4. ASSUME NEW t \in Page, Unverified(t) \/ ServerFails(t) \/ CloseTab(t) \/ OpenTab(t)
      PROVE  ToldInv'
  BY <1>1, <1>4, RefreshShows, ServerShows, VisitShows
<1>5. ASSUME NEW e \in Event, NEW t \in Page, ClickNotification(e, t) PROVE ToldInv'
  BY <1>1, <1>5, VisitShows
<1>6. ASSUME \/ \E r \in Slot : WorkerHandles(r) \/ Reap(r)
             \/ \E d \in Delivery : PushArrives(d) \/ Pushed(d)
             \/ WorkerFails
             \/ UNCHANGED vars
      PROVE  ToldInv'
  BY <1>1, <1>6, WorkerShows
<1> QED BY <1>2, <1>3, <1>4, <1>5, <1>6 DEF Next

LEMMA ToldInitially == Init => ToldInv
<1> SUFFICES ASSUME Init PROVE ToldInv
  OBVIOUS
<1>1. TabsInv
  BY TabsInitially
<1>2. settings.enabled \in BOOLEAN /\ settings.generation \in Nat
  BY <1>1 DEF TabsInv, TabsTypeOK, TypeOK, Settings
<1>3. Opened \in Window /\ Opened.step = "idle" /\ Opened.rerun = FALSE
  BY DEF Opened, Window, DEFAULT_SETTINGS, Settings
<1>4. Closed \in Window /\ Closed.step = "idle" /\ Closed.rerun = FALSE /\ Closed.refresh = "none"
  BY <1>3 DEF Closed, Window
<1>5. /\ Refreshed.step = "idle" /\ Refreshed.rerun = FALSE /\ Refreshed.refresh = "none"
      /\ Refreshed.optedIn = settings.enabled
  BY <1>2, <1>4 DEF Refreshed, Window
<1>6. ASSUME NEW t \in open PROVE Informs(tab[t], t) /\ Hears(t)
  <2>1. tab[t] = Refreshed
    BY <1>1, <1>6 DEF Init, TabsInv, TabsTypeOK, TypeOK
  <2> QED BY <2>1, <1>5 DEF Informs, Hears, Awaiting
<1>7. \A r \in Slot : Enables(r)
  BY DEF Init, WorkerInit, Enables, Free
<1> QED BY <1>6, <1>7 DEF ToldInv

\* The settings that a window shows, has read, or is about to be told are those of the worker,
\* or something still makes it look again: an announcement that is due, a message that waits,
\* a rerun when its operation ends; or it knows that it is behind.
THEOREM ToldInvariance == Spec => [](TabsInv /\ ToldInv)
BY TabsInitially, TabsStep, ToldInitially, ToldStep, PTL DEF Spec

\* When nothing is under way, every window shows whether notifications are on, unless the
\* last change was never announced, or the window knows that it is behind.  (Hf, zf and Wf)
THEOREM TabsAgreeHolds == Spec => []TabsAgree
<1>1. TabsInv /\ ToldInv => TabsAgree
  <2> SUFFICES ASSUME TabsInv, ToldInv, Quiet, NEW t \in open
               PROVE  tab[t].optedIn = settings.enabled \/ tab[t].behind \/ unannounced
    BY DEF TabsAgree
  <2>1. tab[t].step = "idle" /\ tab[t].refresh = "none" /\ changed[t] = 0
    BY DEF Quiet
  <2>3. Owes(t) => unannounced
    BY <2>1 DEF Owes
  <2>4. Informs(tab[t], t)
    BY DEF ToldInv
  <2> QED BY <2>1, <2>3, <2>4 DEF Informs
<1> QED BY <1>1, ToldInvariance, PTL
=============================================================================
