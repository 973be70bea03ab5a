# A TLA+ model of inverter-dashboard

inverter-dashboard is a FastAPI process that shows a Victron installation in
the browser.  It reads the installation either from the Cerbo's MQTT broker or
from the HTTP snapshot of an inverter gateway (IGW), overlays Home Assistant
values, broadcasts the merged state to browsers over WebSocket, forwards their
commands to the controller, and optionally sends Web Push notifications.  All of
it runs in one asyncio loop: code between two awaits is one step, and what is
hard is everything that happens during an await.  The other half of the system
runs in the browser: a page per window, one service worker for all of them, and
IndexedDB, which outlives both.  A release is gated on a script that drives that
page in a real browser.

This directory holds TLA+ modules for the parts where that matters, TLC
configurations that check them on small instances, and TLAPS proofs that carry
the results to every value of the constants.

## The system and its parts

| part | code (src/inverter_dashboard) | state it keeps | operations | hard because | what makes it correct |
|---|---|---|---|---|---|
| data-source selection | `server.py`, `gateway.py` | `AppState` (live `MqttState`, connected flags, generation, task list), active source, dual path | startup choice, MQTT session loop, gateway poll, watchdog, failover, recovery, shutdown | tasks cancel, await and replace one another; stale polls and sessions resume later | one transport at a time; flags, controller state and push belong to it; every switch ends; failover and recovery reach the transport that answers |
| command dispatch | `websocket_handler.py`, `gateway.py`, `controller_commands.py`, `ess_mode.py` | pending selection tasks with their generation, live override status | admission, preflight, publish or POST, acknowledgement polling, deadline, invalidation | the source changes between admission and dispatch | a command leaves only under its source; success is reported only for what was done; every command is answered |
| Web Push delivery | `push_service.py`, `push_store.py`, `push_transport.py` | SQLite outbox, registrations, event identities, in-flight sends, epoch | queue, test, register, delete, claim, send, complete, retire, fail, restart | two workers share a table; rows vanish during a send; crash between send and note | no concurrent or endless sends; nothing stale is sent; the store stays acceptable; every row leaves |
| WebSocket sessions | `websocket_handler.py` | connected clients, their locks, the broadcast lock | connect, initial state, broadcast, disconnect | slow peers under one lock; frames of several senders | frames in order, a slow peer costs bounded time |
| banners | `notifications.py` | active banners, dismissed and acknowledged identities | leaf, snapshot, notice, dismiss, clear | fields one by one, slots reused, replays | a dismissed banner stays away, a new occurrence returns |
| Home Assistant overlay | `ha_client.py` | cached entity states, configuration | poll, refresh, service call | poll and refresh overlap | newest value wins |
| settings | `settings_store.py` | JSON file, UI settings | load, validate, save | partial writes, foreign content | a save is atomic, an unreadable file changes nothing |
| native values | `cerbo.py` | none (pure) | reduce native leaves to the dashboard's fields | many shapes of installations | totals agree with their parts |
| push events | `push_events.py`, `push_observer.py` | baselines, priming, epoch | classify samples, native notifications | duplicates, retained messages | one event per change, none for old state |
| notification service worker | `static/notifications-sw.js` | IndexedDB: settings with their generation, claimed event keys | begin, enable, disable, deliver, click | stopped between any two awaits; pushes and windows interleave | one notification per event; a change of the settings stops the pushes it overtakes; the last choice wins |
| browser application | `static/assets/index-*.js` (`pf`, `kg`, `SystemNotificationSettings`) | per window: what it shows, its operation; socket, poll, pending command | connect, frame, poll, command; enable, disable, save, test, refresh | several windows; frames and polls on different connections | never older than shown; no operation hangs; windows agree with the worker |
| push HTTP API | `push_api.py`, `push_subject.py` | none of its own | subscription, status, test | fails before or after it took effect | see the windows that use it |
| browser acceptance | `scripts/browser-*.cjs` | fixture state, mock sockets, scenario list, evidence | serve, broadcast, drive, assert, write evidence | page, fixture and script run concurrently | a run writes evidence exactly when it passed everything |
| configuration, TLS, version check, HTTP pages, release tooling | `config.py`, `tls_policy.py`, `server_tls.py`, `version.py`, ... | constant or external | | | not modelled, see the end |

How they interact: a transport task applies what it receives to the live
`MqttState` and calls back into the broadcast; commands read the same state, the
flags and the source generation; a switch invalidates pending commands, retires
the generation and disconnects push in one step, and only then awaits the old
tasks; push classification follows each applied message of a current source.  A
window asks the service worker over a message port and hears of the choices of
other windows by a message to all of them; pushes reach the worker whether or not
a window is open.

The hazards the properties are aimed at are listed, each at its line, in
`PROJECT.json`.

## Modules

### SourceSelection: one exclusive data source

`server.py` from `_retire_source` to `lifespan`, with the selection state of
`gateway.py`.  A task is a slot of `Tid` with a kind (`loop`, `poller`,
`watchdog`, `recovery`) and the await it stands at (`pc`).  The closure
`current()` compares a captured generation with a counter of which only equality
is asked, so the model keeps the answer, `current[t]`, and retirement clears it.
`Task.cancel()` sets `cancelled[t]`; the task notices at its next step.  The
switch of `_cancel_data_source_tasks` is two steps: what happens before its
`gather` (invalidate, retire, push, cancel, clear the list) and what happens
after it, including the start of the replacement.  A session loop owns a keepalive
task (`keepalive[t]`), which its `finally` cancels and joins (`Leave`, `joining`,
`KeepaliveEnds`, `Joined`): also in the loop that has just replaced the source, which is
then neither listed nor switching and only waits for that end (`Retired`).  The broker
and the gateway answer or do not (`brokerUp`, `igwUp`), and change at any time.

Payloads do not appear.  `authority` says whether the live state holds controller
state, `push` which source push is connected to.

### SourceContract: what the rest relies on

The source as commands see it: at most one transport, authority only while it is
connected, retirement before replacement.  `ImplementsContract` states that
SourceSelection implements it under the refinement `retired <- NoSource` (no task
is current); TLC checks it and `SourceSelectionProof` proves it.

### CommandDispatch: one command from admission to reply

Extends SourceContract with the commands of `websocket_handler.py`, so the
interleavings are those the contract allows and not merely those of one
schedule.  A command goes through its preflight refresh, the open and send of a
POST or the MQTT publish, and, for overrides, the acknowledgement loop that
fetches or observes a status and decides.  `valid[c]` is the answer to "is the
captured generation still current", `client[c]` the same for the MQTT client.
The controller takes a command from `wire` or never sees it, and shows the last
override with its verdict.  A native dismissal is judged first (`Dismissed`), then awaits
a broadcast (`telling`), then repeats the judgement to the browser (`Told`).  Request ids
are distinct.

### PushDelivery: the outbox, its two workers and the provider

`push_service.py` over the tables of `push_store.py`.  Each SQL transaction is
one step, as is each stretch of a worker between two awaits: `Poll` claims a row
and creates the send task, `Send` is that task's first step, `Answer` the
provider's, `Complete` the worker waking up.  Time is counted in ticks, and a tick
cannot pass while something is ready to run.  `past` holds the deliveries of
retired epochs, which is all the code asks of an epoch; `same[w]` is a history
variable: whether the registration the worker read is still that registration.
A request asks whether push is available before it reads its body, so `Register`,
`Delete` and `Test` may act on a store that failed meanwhile and is still open.
`Restart` covers any end of the process, in any state.

### WsBroadcast: frames to browsers that may be slow

The broadcast and session half of `websocket_handler.py`.  A frame is the version
of the state it was built from.  Callers of `broadcast_state` wait for the one
lock, build a frame when they have it, fan out over a copy of the clients and
await all sends; a session sends its first frame and its command replies on its
own.  Every write goes through the lock of its peer, has 2 s, and a peer that
fails is forgotten and closed within another second.  A lock that is free is taken
at once, and the send tasks of a fan-out, created together, start one after the
other; both are single steps.  A task of the source may be cancelled in each of
these awaits.

### Banners: alerts from two sources

`notifications.py` on the state of one source.  The Cerbo's slots (`native`) are
taken by one occurrence after another.  Over MQTT each change reaches the
dashboard as leaves in `feed`, in an order the Cerbo chooses (`Tellings`: the
orders of publication an instance considers), and any leaf may come again, its
date valid, invalid or erased.  A snapshot shows the slots at once but may lack
slots, dates or the whole platform part.  It rebuilds the slots it tells of: over MQTT
a dismissal ends when its condition does, over snapshots only with the next
occurrence.  An occurrence is its date.  `closed`
is the date of the occurrence dismissed last in a slot, a history variable that
the code's `user_dismissed` and `last_valid_date_time` have to agree with.

### PushEvents: what becomes an event

`EventProcessor.native` and the native part of `push_observer.py`, over the
banners of Banners, with a clock that dates the occurrences.  The observer runs
after the await of the broadcast (`observing`), so browsers may act in between.
Queueing is one step: what the outbox does is PushDelivery.  A slot that showed a title
without a date when the epoch was primed gives the first dated reading of that title to
the baseline; the history variable `hydrated` has the occurrences that were taken so.

### NotificationWorker: one worker for all windows

`notifications-sw.js`.  The browser stops the worker whenever it likes (`Kill`), so
all state that counts is in IndexedDB, and each of its transactions is one step.
`delivery[d]` is a run of `deliver()`: read the settings (`Receive`), claim the key
(`Claim`), read the settings again (`Recheck`), show (`Show`), or give the claim back
when showing fails (`ShowFails`, `Release`).  `request[r]` is a run of the message
handler on one port: the transaction on the settings (`Change`, or `Supersede` when
its update function returns null), then the announcement to all windows (`Announce`).
`newer` keeps the order of the claims, which is all that pruning asks of the index
`expires`.  `shown`, `shownAgain`, `evicted`, `retired`, `granted`, `choice` and
`unannounced` are history variables.

### NotificationTabs: the windows' notification settings

Extends the worker with the windows.  A window runs one operation at a time, whose
awaits are the values of `step`; a refresh runs beside it (`refresh`) and is dropped by
the operation or refresh that begins after it, as the counter in `zf` does.  The
browser's subscription and the server's registrations are shared by all windows and
guarded by nothing; the settings are guarded by the generation a window got from its
begin (`token`).  A server request may fail before or after it took effect.
`UsesWorker` states that the windows drive the worker as NotificationWorker lets any
windows do, so what is proved of the worker holds here; it is proved too.

### DashboardClient and BrowserAcceptance: the page under a script

DashboardClient is the live data of the page: one socket with its two queues of
messages, the poll that stands in for it, the reconnect timer, and the pending
command.  BrowserAcceptance composes it with the fixture of the release gate
(`browser-acceptance.cjs`, `browser-socket-fixture.cjs`, `browser-readiness.cjs`) and
the script, whose scenarios are the sequence `Plan`: a step waits, asserts or acts, and
an expired wait or a failed assertion ends the run.  A wait expires when a timer runs out,
or when what it waits for cannot come: a poll may show the page its state before the
socket is open, the page refuses a Save at once, and no reply will come (`InVain`).  The theme, the layout scenarios and
the diagnostics are left out; `errors` and `recorded` stand for what the last
scenario and the inventory check.

### Proof modules

`SourceSelectionProof`, `CommandDispatchProof`, `PushDeliveryProof`, `BannersProof`,
`PushEventsProof` (which builds on `BannersProof`), `NotificationProof` (of
`NotificationWorker` and `NotificationTabs`), `WsBroadcastProof` and
`BrowserAcceptanceProof` extend their component.  `MC...` modules give the constants values.

## What TLC checks

| run | instance | states | shows |
|---|---|---|---|
| `source` | 4 task slots, every configuration, fair | 35,440 | exclusive transports, one switch, flags, authority and push bound to the selection, no task leaks and no keepalive outlives its loop, silence of a retired source, refinement of SourceContract; every switch ends, failover and recovery reach the transport that answers, shutdown completes |
| `source_shutdown_race` | 3 slots | | violation: shutdown misses a task that is switching |
| `commands` | one command of any of six kinds, fair | 7,654 | a command leaves only under its source; it is found successful only while that is current; every command is answered |
| `command_after_retirement` | one command | | violation: a gateway takes a command after its retirement |
| `push_delivery` | 1 native and 1 test event, 1 subscription, room for 1 row, 2 workers, fair | 47,740 | one sender per delivery, nothing retired, withdrawn or accepted is sent; every store a crash leaves is accepted by the next start; every row leaves the outbox |
| `ws_broadcast` | 2 browsers, 2 concurrent broadcasts, the state changes once, symmetric | 666,414 | frames in order, whoever is connected has the frame when a broadcast returns, bounded back-pressure |
| `ws_liveness` | the same, no change, one of the broadcasts the source's, fair | 225,068 | every broadcast ends, whatever the browsers do |
| `banners` | 1 slot used by three occurrences, 1 raw alarm, 1 notice, both sources | 408,756 | a new occurrence is shown, a dismissed one is not; nothing stale on display, platform before raw alarms |
| `push_events` | 1 slot, 2 titles, both sources, clock 1 to 3 | 884,476 | an occurrence is queued, and once, unless it was dismissed or taken for the baseline's; the baseline is silent |
| `push_dismissed` | 1 slot, MQTT and gateway | | violation: a dismissal before the observation keeps an event from everybody |
| `notifications` | 2 windows, 3 ports, 3 pushes of 2 events, room for 1 claim, fair | 115,572 | one notification per event, no push past a change of the settings, the last choice wins, windows agree when nothing is under way, refinement of the worker; every operation ends |
| `acceptance` | 3 sockets, prompt or 1 timer that runs out, fair | 498,987 | broadcasts reach the page, a poll undoes no frame; this run's evidence only for a run that passed, an earlier one's only before the inventory or after it failed |

**Bounds.**  Three slots let the source change: a switching task starts two tasks after
those it took off the list have ended.  The fourth is for a loop that switched and still
joins its keepalive while the next switch begins, and would let a switch that did not
wait go on.  (Five slots have been checked as well: 255,708 states.)  Task slots are reused when a task is done and
nobody refers to it, so runs have no bound on the number of switches; a new task
gets the first free one, since slots are only names.  In the
command runs one command of any kind is asked once, and the source changes without
limit around it; overrides that compete are left to the proof, which has any number.
In the push runs a tick is about ten seconds: a send lasts at most one, a lease
two, a backoff one and a row five, which leaves room for all three attempts, for
an expiry before the third and for a lease that runs out.  Event keys are
reserved once, so two events give every order of a native and a test delivery.
Register, delete, connect, storage failure and restart happen any number of times.
Room for one row and two events make the limit of the outbox bite.
In the WebSocket runs a tick is as long as a timeout, two broadcasts compete for the lock and
two peers for their sends, and the state changes once: enough for a frame
that was built early to arrive late.  In the banner runs three dates give a slot a
dismissed occurrence, its successor and the one after; `Tellings` has the date
before and after the text of a new occurrence; the feed is bounded by the leaves
of one change, and one leaf may be repeated when nothing else is under way.  In the event runs
the clock goes far enough for an occurrence before, within and after the priming
of a session, and for one that is too old.
In the notification run a behaviour starts with one of seven loads (`EachHazard`): how many
windows are open, which pushes come, and how many choices, visits and faults it has.
Each load is one hazard at full length (two windows that choose, windows that come and go, a window that closes in
the middle of an operation, a fault in any of three operations, a push among choices, the
same event pushed twice around a fault and another event that takes the only claim);
all of them at once would only repeat these.  Three ports are one more than two windows
can have in use, so that a port its window gave up can linger.  Settings start as never
used, or enabled.  The acceptance run has three sockets, as many as a reload, a pause
and an event `online` leave unfinished; no timer runs out (`slow = 0`), or one does at
any point.

**Fairness.**  The event loop runs every ready task, so steps of a task that is
ready are weakly fair.  Requests, connects and publishes end because the code puts
a timeout on each (aiohttp totals, `asyncio.wait_for`, aiomqtt's connect timeout).
Nothing the environment does is fair: broker, gateway, controller and browsers may
stay away for ever, and `FailoverHappens` and `RecoveryHappens` state as premises
which of them answers.  `RecoveryHappens` has one more premise, `TimelyConnect`:
a connect attempt (10 s) that the broker answers beats the watchdog (15 s), which
untimed fairness does not know.  `RowsLeave` needs fair workers and a clock that
goes on.  `BroadcastEnds` assumes no browser takes a frame: timers fire, the tasks
of the event loop run, and time passes whenever it may again and again (strong
fairness of `Tick`, which is disabled while something ready to run has not run).
`OperationsEnd` needs the page's tasks to run, the worker to handle what it was
sent unless it is killed, and pushes under way to go on; users, faults and messages of
other windows need not come.  The window's own timer (5 s) answers for a worker that
was killed.  `AcceptancePasses`, the live half of `EvidenceIsEarned`, needs the event
loops of page, fixture and script and has as a premise that nothing is slow: with a
timer that runs out the acceptance may fail, and then leaves no evidence.  One failure
is left when nothing is slow, the refused Save (`InVain`).

**Mutants.**  Each module keeps, next to a definition, the form it would have with
a plausible bug (`Mutant:` comments): an invalidation that does not cancel, a
claim without a lease, an outbox that is not truncated.  `PROJECT.json` pairs each
property with one that violates it.

## What is proved

For every finite set of task slots, every set of commands, and every set of
events, subscriptions and workers with any limit and any times in which the lease
is longer than the send (`SendTimeout < Lease`); for any windows, ports, pushes, events and
limits of the service worker; for any peers, callers and timeouts of the broadcast; and
for any sockets and timers of the page:

* SourceSelection: type correctness, exclusive transports, one switch, flags,
  authority and push bound to the selection, no leaked task or keepalive, silence
  during a switch, no task left by a shutdown that met no switch (but a retired loop that
  joins its keepalive), and the refinement of SourceContract.
* CommandDispatch: type correctness, `ConfirmedIsApplied`,
  `RetirementStopsPending`, `SuccessIsCurrent`.
* Banners: type correctness, with the list showing exactly what the slots say,
  `PlatformReplacesRaw`, `DismissedStaysAway`, `RaisedIsShown` and `NothingIsStale`, for
  any slots, titles, dates, orders of publication and lengths of the feed.
* PushEvents: type correctness, `QueuedOnce`, `OccurrenceIsQueued`, `BaselineIsSilent`, and
  that the invariants of Banners hold in the composition, where occurrences are dated by a
  clock.
* PushDelivery: type correctness, `OneSenderPerDelivery`, `AtMostThreeSends`,
  `RestartAccepts`, `RetiredIsNotSent`, `AcceptedIsFinal`,
  `StaleRegistrationIsLeftAlone`.
* NotificationWorker: type correctness, `ShownOnce`, `ChangeRetiresPushes`,
  `DisableRetiresEnable`.
* NotificationTabs: `UsesWorker`, the refinement of NotificationWorker, and so the same
  three properties of windows, server and worker together; `TabsAgree`.
* WsBroadcast: type correctness, `FramesInOrder`, `BackpressureIsBounded`,
  `BroadcastReaches`.
* BrowserAcceptance: type correctness of page, sockets, poll and fixture,
  `TargetsAreCurrent`, `PollNeverGoesBack`.

So every invariant and every action property that the passing runs check is a theorem;
what TLC alone checks is listed below.

The assumptions are those the modules name: besides the above, that a handler is no
caller of `broadcast_state`, that timeouts, limits and the priming window are positive,
that the clock shows at least one date, that the Cerbo publishes what a banner depends on
(the text and the acknowledgement of a slot, the state of a raw alarm; a topic that is
never published could not be waited for), that each push carries one event, and
that sockets are numbered.

Each proof module defines an inductive invariant `IInv` (`TabsInv` for the windows),
which TLC has checked on the instances above, and proves it action by action; a safety
property is a conjunct or follows from it, an action property follows from it in one
step.  Where a property needs more, a second invariant is proved beside the first
(`ShowInv`, `ObserverInv`, `ToldInv`) and checked in the same way.

The source invariant is needed because exclusiveness alone is not inductive: it
rests on the facts that a current task is listed, that what is neither listed nor
awaited has been cancelled, and that the set a switch waits for does not contain
the switch.  `NoTaskLeaks` adds that a keepalive runs only in a loop that is in its
session and that a loop which joins has cancelled it, so that a retired loop has nothing
left to do.  The command invariant adds that a sender outlives its source only with
its cancellation under way, and that a confirmation on display was published.  The
push invariant adds that rows and jobs belong to reserved identities (so that a
removed row never returns), that the row in hand is leased for longer than what is
left of its send, and that the attempts of a row count its sends.
`DismissedStaysAway` rests on the order of dates: a slot holds the last valid date
it was given, the dates under way go on from it and end at what the Cerbo holds;
so a dismissal is either still known to its slot, or a later occurrence holds the
slot and no leaf under way is as old as the one dismissed.
`RaisedIsShown` and `NothingIsStale` rest on `InStep`: of every topic a banner depends on,
the newest leaf under way says what the Cerbo holds, and when none is under way the slot
does.  An older leaf that is still to come may say anything, which is why the
order of one topic's leaves matters and that of different topics does not.
`OccurrenceIsQueued` needs that whatever was observed is reserved, and that what is
reserved without having been queued is too old, from before the priming window ended, or
taken for the baseline's (`QueuedOK`); the last happens once per slot and epoch, because the
title a slot was primed with is forgotten with it and nothing is primed later
(`HydratedOK`, `PrimedOK`).  `BaselineIsSilent` needs that an occurrence of the baseline
is reserved already, which over the gateway it may not be: then its slot has
gone on to a later occurrence, or its date is still missing from a banner that shows the
title it was primed with.
`ShownOnce` rests on a claim having one push at most, and none once its event was
shown, unless the claim was pruned; `DisableRetiresEnable` on generations: whoever asks
to enable names one that a begin created, and the current one is such only while the
last choice is to enable.  `UsesWorker` adds that an answer names no generation still to
come, and after a begin one that it created; that a window knows no more than that; and
that a window which waits has a port of its own, with the request it made, so that no
other answer is taken for its own.  For `FramesInOrder` the queue of every peer's lock has to be
ordered by the age of its frames, with all of them as new as what the peer got, and
the fan-out whose turn it is to have a frame as new as any in the queues it has yet to
join, which is why the frame must be built under the broadcast lock.
`BackpressureIsBounded` bounds the age of a fan-out plus what the peer may yet take before
the fan-out's turn and in it; while one fan-out sends, a queue holds it and the
peer's handler and nobody else.  `BroadcastReaches` follows everyone asked for from
the snapshot of clients to the send task, to the queue, to the frame.
`TabsAgree` needs that a window whose view differs from the settings is owed something: the
worker has still to announce the change, or never did, or the message waits, or
the window will refresh again, or it is known to be behind.
`TargetsAreCurrent` rests on what each socket's two queues hold: a socket that the page
has not begun to close is its current one, has no close on the way to the fixture,
and once accepted is a target or has its close on the way to the page; a target the page
has begun to close has that close before it.  `PollNeverGoesBack` bounds every state under
way by the fixture's own, and the answer of a poll that is still heard from below by what is
shown: whatever shows something newer has aborted the poll.

**Only model-checked:** the liveness properties (`SwitchEnds`, `FailoverHappens`,
`RecoveryHappens`, `ShutdownEndsEventually`, `CommandsAnswered`, `RowsLeave`,
`BroadcastEnds`, `OperationsEnd`, `AcceptancePasses`), which are out of the prover's
reach.  `EvidenceIsEarned` has a safe half, `EvidenceMeansPassed`; it follows the one
explicit `Plan` of 32 steps, which no constant changes, and TLC visits all of it.

## Where code and documentation differ

* `source_shutdown_race`: "Cancel and await all background tasks."
  (`server.py:830`).  A task that is switching has taken itself off the list that
  `_shutdown_tasks` reads, and starts a new source after the shutdown returned.
  `ShutdownStopsTasks` shows that this is the only way a task survives that may still do
  anything: what else may remain is a loop that waits for its cancelled keepalive.
* `command_after_retirement`: "A failover retires the prior source, clears live
  authority and cancels source-owned pending work" (`docs/architecture.md:9`).
  The flags and the controller state are cleared only after the old tasks have
  been awaited, and a command that arrives during that wait goes to the retired
  gateway.  `RetirementStopsPending` shows that commands admitted before the
  retirement do not.
* `push_dismissed`: events are detected "independent from banners and open tabs"
  (`push_events.py:1`).  The observer reads the list of banners, after the
  broadcast: a browser that dismisses at once keeps the occurrence from every
  subscriber.
* "A genuinely new later occurrence remains eligible even when a slot is reused"
  (`docs/notifications.md:23`).  A slot that was primed without a date remembers its title
  (`push_events.py:156-157`), and the first dated reading of that title is taken for the
  old alarm (`push_events.py:169-173`), also when it is a later occurrence with the same
  title.  Without `hydrated` in its antecedent TLC refutes `OccurrenceIsQueued` of such a
  slot: a snapshot lacks the date, the slot passes to a later occurrence, the next snapshot
  has its date.  `OccurrenceIsQueued` shows that this happens once per slot and epoch at
  most, and that but for it and a dismissal every occurrence that has arrived and been
  observed in time is queued.

What the code does and nothing in the repository contradicts is part of the model, and
where it surprises a property names it as an exception:

* A window that hears of another window's choice and begins an operation of its own
  before its refresh has ended drops the refresh and does not start another: it may
  go on showing that notifications are enabled after they were disabled.  `TabsAgree`
  excepts it as `behind`; `unannounced` is a change of the settings that no announcement
  has followed, because the worker was stopped or failed between the two.  So the property
  finds a window that should have refreshed and did not, not the refresh the code drops.
* A native dismissal is judged before its broadcast and answered after it
  (`websocket_handler.py:581`, `:928-932`, `:1003`): the browser may be told of success
  when the source has been replaced meanwhile.  `SuccessIsCurrent` speaks of the judgement.
* A loop that fails over joins its keepalive after the switch, when no list has it; a
  shutdown then does not await it.  `NoTaskLeaks` and `ShutdownStopsTasks` name it as
  `Retired`.
* The acceptance does not wait for the page's socket, and fails when its Save comes before
  it (`InVain`).  The inventory is checked before the evidence of an earlier run is removed
  (`browser-acceptance.cjs:46-72`): a run that fails there reports its failure and leaves that
  evidence on disk.  `EvidenceMeansPassed` names this case.
* An event may be shown twice once `MAX_EVENTS` later ones have been claimed (`evicted`).
* A 404 or 410 removes a registration while another worker's send to it is under way;
  that send still leaves.
* A raw alarm that was dismissed is never shown again under its id.

## Not modelled

Listed with the reason in `PROJECT.json`: configuration, TLS policy, the version
check, HTTP pages, deployment and release tooling; Home Assistant, the settings store and
native values are planned (below).  Within the
modelled parts: payload contents and their validation (a refused payload is a
refusal), rate limits of push registrations and test notifications, the limits of
4096 event identities, 100 banners and 200 dismissed ids, device names, silencing and
the wording of banners, the text an event carries, jumps of the wall clock (the
service worker's too: a claim is pruned by its `expires`, which the model takes to be
the order of the claims), and the reuse of a request id by a browser.

Of the browser: the tariff editor, charts and other vendored bundles, forms and dialogs, the
theme and the layout; the permission the user gave or took back (a prompt that is
declined is `Decline`); a new VAPID key, which makes a window subscribe anew; effects
of a server request that arrive after the window gave it up (a failed request took effect
at once or never); a new version of the worker's script; hidden pages, which neither
poll nor connect; and a handshake of a socket that hangs.  Of the acceptance: screenshots,
the diagnostics it keeps of a failure, and the scenarios that need nothing but the page.

## Plan

1. Home Assistant overlay: poll loop, refresh after a service call, configuration
   reload.
2. Settings store: save in steps with a crash between any two.
3. Sampled push events (charging, water, battery): freshness, gaps and epochs,
   beside PushEvents.
4. Native values: pure operators against a reference definition.
5. Proofs: `EvidenceMeansPassed`, and a contract for the outbox (what a worker may ask of
   a row, whoever asks) that PushDelivery implements.
