------------------------- MODULE NotificationWorker -------------------------
(***************************************************************************)
(* The service worker of the dashboard, static/notifications-sw.js.  One    *)
(* worker serves every window of a browser profile and keeps nothing in     *)
(* memory between events: its settings and the keys of the events it has    *)
(* claimed are in IndexedDB, and the browser may stop it between any two    *)
(* awaits.  Each transaction is one step.                                   *)
(*                                                                         *)
(* A window asks for a change through a message port (request); a push is a *)
(* run of deliver(), which reads the settings, claims the key of the event, *)
(* reads the settings again and only then shows the notification.           *)
(*                                                                         *)
(* Left out: the fields of an event (a push that normalizedEvent rejects is *)
(* a delivery that ends at once), the expiry of a claim after 30 days (an   *)
(* event is accepted for 5 minutes, so its key is not asked for again), and *)
(* the lifecycle of the worker, which takes over as soon as it is installed.*)
(***************************************************************************)
EXTENDS Naturals, FiniteSets

CONSTANTS
  Event,          \* keys of events
  Delivery,       \* pushes that reach the browser
  Carries,        \* the event of a delivery
  Page,           \* windows of the origin
  Slot,           \* message ports
  MaxEvents,      \* MAX_EVENTS: claims that are kept
  MaxGeneration   \* Number.MAX_SAFE_INTEGER

ASSUME CarriesAssumption == Carries \in [Delivery -> Event]
ASSUME BoundsAssumption  == {MaxEvents, MaxGeneration} \subseteq Nat \ {0}

VARIABLES
  settings,      \* the record of the store 'settings'
  claimed,       \* the store 'events': the keys that are claimed, and for each ...
  newer,         \* ... the keys that were claimed after it (the index 'expires')
  delivery,      \* the runs of deliver()
  request,       \* the runs of the message handler, one for each port
  open,          \* windows that matchAll() returns
  changed,       \* notification-settings-changed messages a window has not handled
  displayed,     \* notifications on the screen
  \* what happened so far
  choice,        \* the last choice that was persisted: a begin, or a disable
  granted,       \* generations that a begin created
  retired,       \* deliveries between their two checks when a change retired them
  evicted,       \* keys whose claim was dropped to make room
  shown,         \* keys that were shown, and ...
  shownAgain,    \* ... those that were shown more than once
  unannounced    \* the settings changed since a change was last announced

requestVars  == <<request, changed, choice, granted, unannounced>>
deliveryVars == <<delivery, claimed, newer, evicted, shown, shownAgain>>
windowVars   == <<open, displayed>>
workerVars   == <<settings, requestVars, deliveryVars, windowVars, retired>>

Kind  == {"begin", "enable", "disable"}
Reply == [applied : BOOLEAN, enabled : BOOLEAN, generation : Nat]
Free  == [step |-> "free", kind |-> "disable", generation |-> 0,
          reply |-> [applied |-> FALSE, enabled |-> FALSE, generation |-> 0]]

Settings   == [enabled : BOOLEAN, generation : Nat]
Deliveries == [step : {"waiting", "claiming", "checking", "showing", "releasing", "done"},
               seen : Nat]
Requests   == [step : {"free", "sent", "announcing", "answered", "refused", "lost"},
               kind : Kind, generation : Nat, reply : Reply]

\* A browser that knows nothing of notifications, and one that left them enabled.
DEFAULT_SETTINGS == [enabled |-> FALSE, generation |-> 0]
SavedSettings    == [enabled |-> TRUE,  generation |-> 1]

WorkerInit ==
  /\ settings \in {DEFAULT_SETTINGS, SavedSettings}
  /\ claimed = {} /\ newer = [e \in Event |-> {}]
  /\ delivery = [d \in Delivery |-> [step |-> "waiting", seen |-> 0]]
  /\ request = [r \in Slot |-> Free]
  /\ open \in SUBSET Page
  /\ changed = [p \in Page |-> 0]
  /\ displayed = {} /\ evicted = {} /\ shown = {} /\ shownAgain = {} /\ retired = {}
  /\ choice = IF settings.enabled THEN "enable" ELSE "disable"
  /\ granted = IF settings.enabled THEN {1} ELSE {}
  /\ unannounced = FALSE

-----------------------------------------------------------------------------
(* The message handler.                                                     *)

\* A window posts a request ...
Post(r, kind, generation) ==
  /\ request[r] = Free
  /\ request' = [request EXCEPT ![r] = [Free EXCEPT !.step = "sent", !.kind = kind,
                                                    !.generation = generation]]
  /\ UNCHANGED <<settings, changed, choice, granted, unannounced, deliveryVars, windowVars, retired>>

\* ... as a window may: to enable, with a generation that a begin created.
Ask(r, kind, generation) ==
  /\ kind = "enable" => generation \in granted
  /\ Post(r, kind, generation)

\* Mutant: an enable is applied whatever the generation.
PermittedEnable(q) ==
  /\ q.kind = "begin" => q.generation = settings.generation
  /\ q.kind \in {"begin", "disable"} => settings.generation < MaxGeneration

\* changeSettings: whether the update function returns a record rather than null.
Permitted(q) ==
  /\ q.kind \in {"begin", "enable"}  => q.generation = settings.generation
  /\ q.kind \in {"begin", "disable"} => settings.generation < MaxGeneration

\* ... and the record it returns.
Updated(q) ==
  IF q.kind = "enable" THEN [enabled |-> TRUE,  generation |-> settings.generation]
                       ELSE [enabled |-> FALSE, generation |-> settings.generation + 1]

ReplyTo(applied, after) ==
  [applied |-> applied, enabled |-> after.enabled, generation |-> after.generation]

\* Deliveries that have read the settings once and not yet again.
Between == {d \in Delivery : delivery[d].step \in {"claiming", "checking"}}

\* The read/write transaction on 'settings', when it writes ...
Change(r) ==
  LET q == request[r] IN
  /\ q.step = "sent" /\ Permitted(q)
  /\ settings' = Updated(q)
  /\ request' = [request EXCEPT ![r] = [q EXCEPT !.step = "announcing",
                                                 !.reply = ReplyTo(TRUE, Updated(q))]]
  /\ choice'  = CASE q.kind = "begin" -> "enable" [] q.kind = "disable" -> "disable"
                  [] OTHER -> choice
  /\ granted' = IF q.kind = "begin" THEN granted \cup {settings.generation + 1} ELSE granted
  /\ retired' = IF q.kind = "enable" THEN retired ELSE retired \cup Between
  /\ unannounced' = TRUE
  /\ UNCHANGED <<changed, deliveryVars, windowVars>>

\* ... and when it does not: a newer choice superseded the request.
Supersede(r) ==
  LET q == request[r] IN
  /\ q.step = "sent" /\ ~Permitted(q)
  /\ request' = [request EXCEPT ![r] = [q EXCEPT !.step = "answered",
                                                 !.reply = ReplyTo(FALSE, settings)]]
  /\ UNCHANGED <<settings, changed, choice, granted, unannounced, deliveryVars, windowVars, retired>>

\* After matchAll(): every window is told, then the port is answered.
Announce(r) ==
  /\ request[r].step = "announcing"
  /\ changed' = [p \in Page |-> IF p \in open THEN changed[p] + 1 ELSE changed[p]]
  /\ request' = [request EXCEPT ![r].step = "answered"]
  /\ unannounced' = FALSE
  /\ UNCHANGED <<settings, choice, granted, deliveryVars, windowVars, retired>>

\* Storage, or matchAll(), fails: the port is answered with an error.
Refuse(r) ==
  /\ request[r].step \in {"sent", "announcing"}
  /\ request' = [request EXCEPT ![r].step = "refused"]
  /\ UNCHANGED <<settings, changed, choice, granted, unannounced, deliveryVars, windowVars, retired>>

\* The port is closed: its answer was taken, or the window stopped waiting.
Close(r) ==
  /\ request[r].step \in {"answered", "refused", "lost"}
  /\ request' = [request EXCEPT ![r] = Free]
  /\ UNCHANGED <<settings, changed, choice, granted, unannounced, deliveryVars, windowVars, retired>>

-----------------------------------------------------------------------------
(* A push: deliver().                                                       *)

Moves(d, step) == delivery' = [delivery EXCEPT ![d].step = step]

\* The first look at the settings.  A push that is malformed or too old ends here.
Receive(d) ==
  /\ delivery[d].step = "waiting"
  /\ \/ /\ settings.enabled
        /\ delivery' = [delivery EXCEPT ![d] = [step |-> "claiming", seen |-> settings.generation]]
     \/ Moves(d, "done")
  /\ UNCHANGED <<settings, requestVars, claimed, newer, evicted, shown, shownAgain, windowVars, retired>>

\* pruneEvents: the oldest claims beyond MAX_EVENTS.
Excess(keys, after) == {e \in keys : Cardinality(after[e] \cap keys) >= MaxEvents}

\* The claims that a put or a delete leaves.
Keep(keys, after) ==
  /\ claimed' = keys
  /\ newer' = [e \in Event |-> IF e \in keys THEN after[e] \cap keys ELSE {}]

\* Mutant: a key that is claimed is claimed again.
ClaimAgain(d) ==
  LET e == Carries[d]
      keys  == claimed \cup {e}
      after == [f \in Event |-> IF f \in claimed \ {e} THEN newer[f] \cup {e} ELSE {}]
  IN /\ delivery[d].step = "claiming"
     /\ Moves(d, "checking")
     /\ Keep(keys \ Excess(keys, after), after)
     /\ evicted' = evicted \cup Excess(keys, after)
     /\ UNCHANGED <<settings, requestVars, shown, shownAgain, windowVars, retired>>

\* claimEvent: one transaction reads the key, puts it and prunes.
Claim(d) ==
  LET e == Carries[d]
      keys  == claimed \cup {e}
      after == IF e \in claimed THEN newer
               ELSE [f \in Event |-> IF f \in claimed THEN newer[f] \cup {e} ELSE {}]
  IN /\ delivery[d].step = "claiming"
     /\ Moves(d, IF e \in claimed THEN "done" ELSE "checking")
     /\ Keep(keys \ Excess(keys, after), after)
     /\ evicted' = evicted \cup Excess(keys, after)
     /\ UNCHANGED <<settings, requestVars, shown, shownAgain, windowVars, retired>>

\* Mutant: the second look asks only whether notifications are on.
RecheckEnabled(d) ==
  /\ delivery[d].step = "checking"
  /\ Moves(d, IF settings.enabled THEN "showing" ELSE "done")
  /\ UNCHANGED <<settings, requestVars, claimed, newer, evicted, shown, shownAgain, windowVars, retired>>

\* The second look: notifications are on and nothing was changed in between.
Recheck(d) ==
  /\ delivery[d].step = "checking"
  /\ Moves(d, IF settings.enabled /\ settings.generation = delivery[d].seen
              THEN "showing" ELSE "done")
  /\ UNCHANGED <<settings, requestVars, claimed, newer, evicted, shown, shownAgain, windowVars, retired>>

\* showNotification: the tag is the key, so a repeated one takes the place of the first.
Show(d) ==
  LET e == Carries[d] IN
  /\ delivery[d].step = "showing"
  /\ Moves(d, "done")
  /\ shown' = shown \cup {e}
  /\ shownAgain' = IF e \in shown THEN shownAgain \cup {e} ELSE shownAgain
  /\ displayed' = displayed \cup {e}
  /\ UNCHANGED <<settings, requestVars, claimed, newer, evicted, open, retired>>

\* The browser could not display it: releaseClaim lets a later push of the event try.
ShowFails(d) ==
  /\ delivery[d].step = "showing"
  /\ Moves(d, "releasing")
  /\ UNCHANGED <<settings, requestVars, claimed, newer, evicted, shown, shownAgain, windowVars, retired>>

Release(d) ==
  /\ delivery[d].step = "releasing"
  /\ Moves(d, "done")
  /\ Keep(claimed \ {Carries[d]}, newer)
  /\ UNCHANGED <<settings, requestVars, evicted, shown, shownAgain, windowVars, retired>>

\* A transaction fails; the push handler swallows the error.  A claim stays.
StorageFails(d) ==
  /\ delivery[d].step \in {"claiming", "checking", "releasing"}
  /\ Moves(d, "done")
  /\ UNCHANGED <<settings, requestVars, claimed, newer, evicted, shown, shownAgain, windowVars, retired>>

-----------------------------------------------------------------------------
(* The browser.                                                             *)

\* The browser stops the worker: every handler that is running is gone.  A request it
\* had not begun to handle waits for the next start, or was being handled too.
Kill ==
  /\ delivery' = [d \in Delivery |->
                    IF delivery[d].step = "waiting" THEN delivery[d]
                    ELSE [delivery[d] EXCEPT !.step = "done"]]
  /\ \E begun \in SUBSET {r \in Slot : request[r].step = "sent"} :
       request' = [r \in Slot |-> IF r \in begun \/ request[r].step = "announcing"
                                  THEN [request[r] EXCEPT !.step = "lost"] ELSE request[r]]
  /\ UNCHANGED <<settings, changed, choice, granted, unannounced, claimed, newer, evicted, shown, shownAgain,
                 windowVars, retired>>

\* A window handles one message.
Handle(p) ==
  /\ changed[p] > 0
  /\ changed' = [changed EXCEPT ![p] = @ - 1]
  /\ UNCHANGED <<settings, request, choice, granted, unannounced, deliveryVars, windowVars, retired>>

Leave(p) ==
  /\ p \in open
  /\ open' = open \ {p}
  /\ changed' = [changed EXCEPT ![p] = 0]
  /\ UNCHANGED <<settings, request, choice, granted, unannounced, deliveryVars, displayed, retired>>

Enter(p) ==
  /\ p \notin open
  /\ open' = open \cup {p}
  /\ UNCHANGED <<settings, requestVars, deliveryVars, displayed, retired>>

\* notificationclick: the dashboard that is open gets the focus, or one is opened.
Click(e, p) ==
  /\ e \in displayed
  /\ displayed' = displayed \ {e}
  /\ IF open = {} THEN open' = {p} ELSE UNCHANGED open
  /\ UNCHANGED <<settings, requestVars, deliveryVars, retired>>

WorkerNext ==
  \/ \E r \in Slot, k \in Kind, g \in 0 .. settings.generation : Ask(r, k, g)
  \/ \E r \in Slot : Change(r) \/ Supersede(r) \/ Announce(r) \/ Refuse(r) \/ Close(r)
  \/ \E d \in Delivery : \/ Receive(d) \/ Claim(d) \/ Recheck(d) \/ Show(d)
                         \/ ShowFails(d) \/ Release(d) \/ StorageFails(d)
  \/ \E p \in Page : Handle(p) \/ Leave(p) \/ Enter(p)
  \/ \E e \in Event, p \in Page : Click(e, p)
  \/ Kill

WorkerSpec == WorkerInit /\ [][WorkerNext]_workerVars

-----------------------------------------------------------------------------
TypeOK ==
  /\ settings \in Settings
  /\ claimed \subseteq Event /\ newer \in [Event -> SUBSET Event]
  /\ delivery \in [Delivery -> Deliveries]
  /\ request \in [Slot -> Requests]
  /\ open \subseteq Page /\ changed \in [Page -> Nat]
  /\ displayed \subseteq Event /\ evicted \subseteq Event
  /\ shown \subseteq Event /\ shownAgain \subseteq Event
  /\ retired \subseteq Delivery /\ granted \subseteq Nat
  /\ choice \in {"enable", "disable"} /\ unannounced \in BOOLEAN

\* However often an event is pushed, and whatever fails or dies on the way, it is shown
\* once, unless MAX_EVENTS later events took the place of its claim.  (claimEvent, releaseClaim)
ShownOnce == shownAgain \subseteq evicted

\* A push that was between its two looks at the settings when somebody disabled
\* notifications, or began to enable them anew, is never shown, not even when they
\* are enabled again before its second look.  (the generation in deliver)
ChangeRetiresPushes == \A d \in retired : delivery[d].step # "showing"

\* Notifications are on only if the last choice that was persisted was to enable them:
\* the Enable of a choice that another window's Disable overtook does not turn them on again.
\* (the comment in changeSettings)
DisableRetiresEnable == settings.enabled => choice = "enable"
=============================================================================
