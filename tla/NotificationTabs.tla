-------------------------- MODULE NotificationTabs --------------------------
(***************************************************************************)
(* The notification settings of the dashboard's windows (SystemNotification-*)
(* Settings in static/assets/index-*.js), the service worker they share, the *)
(* push subscription of the browser and the registrations of the server.    *)
(*                                                                         *)
(* Every window shows what it last learnt and runs at most one operation at *)
(* a time: enable, disable, savePreferences or test.  Each await is a step   *)
(* boundary.  Two windows share the subscription, the registration and the  *)
(* settings of the worker, and only the last are guarded by a generation.   *)
(*                                                                         *)
(* A request to the server is one step that succeeds, fails before it took  *)
(* effect or fails after; a request to the worker may also be given up by    *)
(* the window (after 5 s) while the worker still handles it.  The VAPID key  *)
(* of the server does not change, and the texts of errors are one flag.     *)
(***************************************************************************)
EXTENDS NotificationWorker

CONSTANTS
  MaxSubscriptions,  \* bound: push subscriptions the browser makes
  Loads              \* bound: the windows open at first, the pushes that come, and how many
                     \* choices, visits and faults a behaviour has

ASSUME LoadsAssumption ==
  Loads \subseteq [windows : SUBSET Page, pushes : SUBSET Delivery,
                   choices : Nat, visits : Nat, faults : Nat]

VARIABLES
  tab,            \* what each window shows and does
  subscription,   \* the browser's push subscription, 0 if there is none
  made,           \* subscriptions made so far
  registered,     \* subscriptions the server has registered
  left            \* what is left of them

tabsVars  == <<subscription, made, registered>>
vars      == <<workerVars, tab, tabsVars, left>>

Endpoint == 1 .. MaxSubscriptions

\* A window that is closed, one that has just been opened: Gf starts a refresh.
Opened == [step |-> "idle", known |-> FALSE, optedIn |-> FALSE, registered |-> FALSE,
           generation |-> 0, trouble |-> FALSE, slot |-> 0, token |-> 0, endpoint |-> 0,
           rerun |-> FALSE, behind |-> FALSE,
           refresh |-> "asked", found |-> DEFAULT_SETTINGS, kept |-> FALSE]
Closed == [Opened EXCEPT !.refresh = "none"]

\* ... and one that shows what there is.
Refreshed == [Closed EXCEPT !.known = TRUE, !.optedIn = settings.enabled,
                            !.registered = settings.enabled, !.generation = settings.generation]

Init ==
  /\ WorkerInit
  /\ left \in Loads /\ open = left.windows
  /\ tab = [t \in Page |-> IF t \in open THEN Refreshed ELSE Closed]
  /\ made = (IF settings.enabled THEN 1 ELSE 0)
  /\ subscription = made
  /\ registered = 1 .. made

-----------------------------------------------------------------------------
(* Refresh: Vf and Bf.  An operation or a newer refresh (zf) drops the one   *)
(* that is running; its result is never used.                               *)

Idle(t) == t \in open /\ tab[t].step = "idle"

\* zf, when an operation begins.  behind: a refresh was dropped or failed, and the window
\* has learnt nothing since.
Dropping(w) == [w EXCEPT !.refresh = "none", !.kept = FALSE,
                         !.behind = @ \/ w.refresh # "none"]

Asking(w) == [w EXCEPT !.refresh = "asked", !.kept = FALSE]

Becomes(t, w) == tab' = [tab EXCEPT ![t] = w]
\* One of the choices, visits or faults that are left.
Spends(what) == left[what] > 0 /\ left' = [left EXCEPT ![what] = @ - 1]

\* The worker answers notification-settings-get.
Read(t) ==
  /\ tab[t].refresh = "asked"
  /\ Becomes(t, [tab[t] EXCEPT !.refresh = "told", !.found = settings])
  /\ UNCHANGED <<workerVars, tabsVars, left>>

\* What a refresh found becomes what the window shows; Wf puts the error of the
\* operation before it back.
Shows(w, confirmed) ==
  [w EXCEPT !.known = TRUE, !.optedIn = w.found.enabled, !.generation = w.found.generation,
            !.registered = confirmed, !.trouble = w.kept, !.behind = FALSE,
            !.refresh = "none", !.kept = FALSE, !.found = DEFAULT_SETTINGS]

\* getSubscription, and what the server says of it.
Look(t) ==
  /\ tab[t].refresh = "told"
  /\ Becomes(t, Shows(tab[t], subscription # 0 /\ subscription \in registered))
  /\ UNCHANGED <<workerVars, tabsVars, left>>

\* "Notification status could not be verified."
Unverified(t) ==
  /\ tab[t].refresh # "none"
  /\ Spends("faults")
  /\ Becomes(t, [tab[t] EXCEPT !.registered = FALSE, !.trouble = TRUE, !.behind = TRUE,
                               !.refresh = "none", !.kept = FALSE,
                               !.found = DEFAULT_SETTINGS])
  /\ UNCHANGED <<workerVars, tabsVars>>

\* "Refresh status", and a window that becomes visible.
Refresh(t) ==
  /\ Idle(t) /\ tab[t].refresh = "none"
  /\ Spends("choices")
  /\ Becomes(t, Asking(tab[t]))
  /\ UNCHANGED <<workerVars, tabsVars>>

\* Mutant: a busy window forgets the message.
HearIfIdle(t) ==
  /\ Handle(t)
  /\ Becomes(t, IF tab[t].step = "idle" THEN Asking(tab[t]) ELSE tab[t])
  /\ UNCHANGED <<tabsVars, left>>

\* Hf: notification-settings-changed.  A busy window refreshes when it is done.
Hear(t) ==
  /\ Handle(t)
  /\ Becomes(t, IF tab[t].step = "idle" THEN Asking(tab[t])
                ELSE [tab[t] EXCEPT !.rerun = TRUE])
  /\ UNCHANGED <<tabsVars, left>>

-----------------------------------------------------------------------------
(* The operations.                                                          *)

\* ready in Qf: "Enabled -- server registration confirmed".
Ready(w) == w.known /\ w.optedIn /\ w.registered

\* The finally of every operation, Wf.
Finish(w, trouble) ==
  LET done == [w EXCEPT !.step = "idle", !.slot = 0, !.token = 0, !.endpoint = 0,
                        !.rerun = FALSE, !.trouble = trouble]
  IN IF w.rerun THEN [Asking(done) EXCEPT !.kept = trouble] ELSE done

\* The catch of enable and of disable.
Fail(w) == Finish(IF w.step \in {"beginning", "subscribing", "registering", "enabling"}
                  THEN [w EXCEPT !.registered = FALSE] ELSE w, TRUE)

\* A free port; qf posts the request on it.
FreeSlots == {r \in Slot : request[r] = Free}
NextSlot  == CHOOSE r \in FreeSlots : TRUE

Starts(t, step) == [Dropping(tab[t]) EXCEPT !.step = step, !.trouble = FALSE]

MayEnable(t) == Idle(t) /\ tab[t].known /\ ~Ready(tab[t])

\* enable, from the click to the request that persists the intent, with the generation
\* the window knew when it was clicked.
Enable(t) ==
  /\ MayEnable(t) /\ FreeSlots # {}
  /\ Spends("choices")
  /\ Post(NextSlot, "begin", tab[t].generation)
  /\ Becomes(t, [Starts(t, "beginning") EXCEPT !.slot = NextSlot])
  /\ UNCHANGED tabsVars

\* The user closes or denies the permission prompt: enable ends where it began.
Decline(t) ==
  /\ MayEnable(t)
  /\ Spends("choices")
  /\ Becomes(t, Finish(Starts(t, "idle"), FALSE))
  /\ UNCHANGED <<workerVars, tabsVars>>

\* qf: what the worker answered is what the window shows.
Answered(t) == request[tab[t].slot].step = "answered"
Told(t) == LET reply == request[tab[t].slot].reply IN
  [tab[t] EXCEPT !.optedIn = reply.enabled, !.generation = reply.generation, !.slot = 0,
                 !.behind = FALSE]
Applied(t) == request[tab[t].slot].reply.applied

\* "A newer notification choice superseded this operation"
Superseded(t) ==
  /\ tab[t].step \in {"beginning", "enabling", "disabling"}
  /\ Answered(t) /\ ~Applied(t)
  /\ Close(tab[t].slot)
  /\ Becomes(t, Fail(Told(t)))
  /\ UNCHANGED <<tabsVars, left>>

\* Mutant: the enable names the generation the window knew before its begin.
BegunBefore(t) ==
  /\ tab[t].step = "beginning" /\ Answered(t) /\ Applied(t)
  /\ Close(tab[t].slot)
  /\ Becomes(t, [Told(t) EXCEPT !.step = "subscribing", !.registered = FALSE,
                                !.token = tab[t].generation])
  /\ UNCHANGED <<tabsVars, left>>

Begun(t) ==
  /\ tab[t].step = "beginning" /\ Answered(t) /\ Applied(t)
  /\ Close(tab[t].slot)
  /\ Becomes(t, [Told(t) EXCEPT !.step = "subscribing", !.registered = FALSE,
                                !.token = request[tab[t].slot].reply.generation])
  /\ UNCHANGED <<tabsVars, left>>

\* getSubscription, or subscribe, which returns the subscription there is.
Subscribe(t) ==
  /\ tab[t].step = "subscribing"
  /\ subscription # 0 \/ made < MaxSubscriptions
  /\ made' = IF subscription = 0 THEN made + 1 ELSE made
  /\ subscription' = IF subscription = 0 THEN made + 1 ELSE subscription
  /\ Becomes(t, [tab[t] EXCEPT !.step = "registering", !.endpoint = subscription'])
  /\ UNCHANGED <<workerVars, registered, left>>

\* POST subscription, then the request that turns notifications on.
Register(t) ==
  /\ tab[t].step = "registering" /\ FreeSlots # {}
  /\ registered' = registered \cup {tab[t].endpoint}
  /\ Post(NextSlot, "enable", tab[t].token)
  /\ Becomes(t, [tab[t] EXCEPT !.step = "enabling", !.slot = NextSlot])
  /\ UNCHANGED <<subscription, made, left>>

Enabled(t) ==
  /\ tab[t].step = "enabling" /\ Answered(t) /\ Applied(t)
  /\ Close(tab[t].slot)
  /\ Becomes(t, Finish([Told(t) EXCEPT !.optedIn = TRUE, !.registered = TRUE], FALSE))
  /\ UNCHANGED <<tabsVars, left>>

\* disable persists its intent whatever the generation.
Disable(t) ==
  /\ Idle(t) /\ FreeSlots # {}
  /\ Spends("choices")
  /\ Post(NextSlot, "disable", 0)
  /\ Becomes(t, [Starts(t, "disabling") EXCEPT !.slot = NextSlot])
  /\ UNCHANGED tabsVars

Disabled(t) ==
  /\ tab[t].step = "disabling" /\ Answered(t) /\ Applied(t)
  /\ Close(tab[t].slot)
  /\ Becomes(t, IF subscription = 0 THEN Finish([Told(t) EXCEPT !.registered = FALSE], FALSE)
                ELSE [Told(t) EXCEPT !.step = "deleting", !.endpoint = subscription])
  /\ UNCHANGED <<tabsVars, left>>

\* DELETE subscription.
Delete(t) ==
  /\ tab[t].step = "deleting"
  /\ registered' = registered \ {tab[t].endpoint}
  /\ Becomes(t, [tab[t] EXCEPT !.step = "unsubscribing"])
  /\ UNCHANGED <<workerVars, subscription, made, left>>

\* unsubscribe; another subscription in its place is an error.
Unsubscribe(t) ==
  /\ tab[t].step = "unsubscribing"
  /\ subscription' = IF subscription = tab[t].endpoint THEN 0 ELSE subscription
  /\ Becomes(t, IF subscription' = 0 THEN Finish([tab[t] EXCEPT !.registered = FALSE], FALSE)
                ELSE Fail(tab[t]))
  /\ UNCHANGED <<workerVars, made, registered, left>>

\* savePreferences registers the subscription again.
Save(t) ==
  /\ Idle(t) /\ Ready(tab[t])
  /\ Spends("choices")
  /\ Becomes(t, IF subscription = 0 THEN Finish(Starts(t, "idle"), TRUE)
                ELSE [Starts(t, "saving") EXCEPT !.endpoint = subscription])
  /\ UNCHANGED <<workerVars, tabsVars>>

Saved(t) ==
  /\ tab[t].step = "saving"
  /\ registered' = registered \cup {tab[t].endpoint}
  /\ Becomes(t, Finish(tab[t], FALSE))
  /\ UNCHANGED <<workerVars, subscription, made, left>>

\* test queues a push for the subscription; the server may also refuse it for its rate.
Test(t) ==
  /\ Idle(t) /\ Ready(tab[t])
  /\ Spends("choices")
  /\ \E trouble \in {TRUE, subscription \notin registered} :
       Becomes(t, Finish(Starts(t, "idle"), trouble))
  /\ UNCHANGED <<workerVars, tabsVars>>

-----------------------------------------------------------------------------
(* Failures.                                                                *)

\* Mutant: a window waits for an answer however long it takes.
AnyError(t) ==
  /\ tab[t].step \in {"beginning", "enabling", "disabling"}
  /\ request[tab[t].slot].step = "refused"
  /\ Close(tab[t].slot)
  /\ Becomes(t, Fail(tab[t]))
  /\ UNCHANGED <<tabsVars, left>>

\* The worker answers with an error, or does not answer: it died, or is too slow.
NoAnswer(t) ==
  /\ tab[t].step \in {"beginning", "enabling", "disabling"}
  /\ \/ /\ request[tab[t].slot].step \in {"refused", "lost"}
        /\ Close(tab[t].slot)
        /\ UNCHANGED left
     \/ /\ request[tab[t].slot].step \in {"sent", "announcing", "answered"}
        /\ Spends("faults")
        /\ UNCHANGED workerVars
  /\ Becomes(t, Fail(tab[t]))
  /\ UNCHANGED tabsVars

\* A request to the server, or to the push service, fails: before it took effect or after.
ServerFails(t) ==
  /\ tab[t].step \in {"subscribing", "registering", "deleting", "unsubscribing", "saving"}
  /\ Spends("faults")
  /\ registered' \in {registered, CASE tab[t].step \in {"registering", "saving"}
                                         -> registered \cup {tab[t].endpoint}
                                    [] tab[t].step = "deleting"
                                         -> registered \ {tab[t].endpoint}
                                    [] OTHER -> registered}
  /\ Becomes(t, Fail(tab[t]))
  /\ UNCHANGED <<workerVars, subscription, made>>

\* A port whose window no longer waits.
Waiting(r) == \E t \in Page : tab[t].slot = r
Reap(r) ==
  /\ ~Waiting(r)
  /\ Close(r)
  /\ UNCHANGED <<tab, tabsVars, left>>

-----------------------------------------------------------------------------
(* Windows and the worker.                                                  *)

\* A window is closed in the middle of whatever it does.
CloseTab(t) ==
  /\ Leave(t) /\ Spends("visits")
  /\ Becomes(t, Closed)
  /\ UNCHANGED tabsVars

OpenTab(t) ==
  /\ Enter(t) /\ Spends("visits")
  /\ Becomes(t, Opened)
  /\ UNCHANGED tabsVars

ClickNotification(e, t) ==
  /\ Click(e, t)
  /\ tab' = IF t \in open' \ open THEN [tab EXCEPT ![t] = Opened] ELSE tab
  /\ UNCHANGED <<tabsVars, left>>

Apart == UNCHANGED <<tab, tabsVars>>

WorkerHandles(r) == (Change(r) \/ Supersede(r) \/ Announce(r)) /\ Apart /\ UNCHANGED left

Pushed(d) == (Claim(d) \/ Recheck(d) \/ Show(d) \/ Release(d)) /\ Apart /\ UNCHANGED left

PushArrives(d) == d \in left.pushes /\ Receive(d) /\ Apart /\ UNCHANGED left

WorkerFails ==
  /\ \/ Kill
     \/ \E r \in Slot : Refuse(r)
     \/ \E d \in Delivery : ShowFails(d) \/ StorageFails(d)
  /\ Spends("faults") /\ Apart

TabStep(t) ==
  \/ Read(t) \/ Look(t) \/ Hear(t)
  \/ Superseded(t) \/ Begun(t) \/ Subscribe(t) \/ Register(t) \/ Enabled(t)
  \/ Disabled(t) \/ Delete(t) \/ Unsubscribe(t) \/ Saved(t) \/ NoAnswer(t)

Choice(t) == Enable(t) \/ Decline(t) \/ Disable(t) \/ Save(t) \/ Test(t) \/ Refresh(t)

Next ==
  \/ \E t \in Page : \/ TabStep(t) \/ Choice(t) \/ Unverified(t) \/ ServerFails(t)
                     \/ CloseTab(t) \/ OpenTab(t)
  \/ \E r \in Slot : WorkerHandles(r) \/ Reap(r)
  \/ \E d \in Delivery : PushArrives(d) \/ Pushed(d)
  \/ \E e \in Event, t \in Page : ClickNotification(e, t)
  \/ WorkerFails

\* The page's tasks run, the browser runs the worker it has started, and the timers of
\* the window and of fetch end what does not.
Spec == /\ Init /\ [][Next]_vars
        /\ \A t \in Page : WF_vars(TabStep(t))
        /\ \A r \in Slot : WF_vars(WorkerHandles(r))
        /\ \A d \in Delivery : WF_vars(Pushed(d))

-----------------------------------------------------------------------------
Window == [step : {"idle", "beginning", "subscribing", "registering", "enabling",
                   "disabling", "deleting", "unsubscribing", "saving"},
           known : BOOLEAN, optedIn : BOOLEAN, registered : BOOLEAN, generation : Nat,
           trouble : BOOLEAN, slot : Slot \cup {0}, token : Nat, endpoint : Nat,
           rerun : BOOLEAN, behind : BOOLEAN,
           refresh : {"none", "asked", "told"}, found : Settings, kept : BOOLEAN]

TabsTypeOK ==
  /\ TypeOK
  /\ tab \in [Page -> Window]
  /\ subscription \in Nat /\ made \in Nat /\ registered \subseteq Nat

\* Nothing is under way: no window works or refreshes, no request and no message waits.
Quiet ==
  /\ \A t \in open : tab[t].step = "idle" /\ tab[t].refresh = "none" /\ changed[t] = 0
  /\ \A r \in Slot : request[r] = Free

\* When nothing is under way, every window shows whether notifications are on as the
\* worker has it, whichever windows changed it in whatever order, unless the change was
\* never announced, or the refresh that would have told it failed or was dropped for an
\* operation of the window's own.  (Hf, zf and Wf)
TabsAgree == Quiet =>
  \A t \in open : tab[t].optedIn = settings.enabled \/ tab[t].behind \/ unannounced

\* Every operation ends, whatever dies or fails on the way: no window stays busy, with all
\* its buttons disabled.  (the timer in _f, and the finally of the operations)
OperationsEnd == \A t \in Page : (tab[t].step # "idle") ~> (tab[t].step = "idle")

\* The windows use the worker as NotificationWorker says that windows do, so that what is
\* proved of the worker holds here: an enable names a generation that a begin created.
\* (the generation that enable keeps from its begin)
UsesWorker == WorkerSpec
=============================================================================
