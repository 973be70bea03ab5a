------------------------- MODULE SourceSelection -------------------------
(***************************************************************************)
(* The exclusive data source of the dashboard: src/inverter_dashboard/     *)
(* server.py (source tasks, failover, recovery, shutdown) with the         *)
(* selection state of gateway.py.                                          *)
(*                                                                         *)
(* One asyncio loop runs every task, so the code between two awaits is one *)
(* step.  A task is a slot of Tid.  It is an MQTT session loop, an inverter*)
(* gateway (IGW) poller, the connect watchdog or the MQTT recovery loop.   *)
(* current() compares a captured generation with the owner's counter; only *)
(* equality is ever asked, so the model keeps the answer: current[t].      *)
(* Task.cancel() is delivered when the task next runs: cancelled[t].       *)
(* The keepalive task a session loop owns has no slot: keepalive[t] is the *)
(* one of loop t, which only its cancellation ends.                        *)
(***************************************************************************)
EXTENDS Naturals, FiniteSets

CONSTANT Tid            \* task slots; a finished, unreferenced slot is reused

ASSUME TidAssumption == IsFiniteSet(Tid) /\ Tid \subseteq Nat

VARIABLES
  phase,                \* lifespan: "starting" "running" "stopping" "stopped"
  configured,           \* transports configured at startup
  active, dual,         \* gateway._active_source, gateway._dual_path
  mqttConnected, gatewayConnected,     \* the AppState flags
  authority,            \* the live MqttState holds controller state
  push,                 \* source PushService is connected to
  mqttTasks,            \* AppState.mqtt_tasks
  kind, pc, current, cancelled,        \* one entry per task slot
  keepalive,            \* the keepalive task a session loop owns
  gathering,            \* the tasks a switching task waits for
  shutdownGather,       \* the tasks _shutdown_tasks waits for
  switchAtShutdown,     \* history: a switch was in progress at shutdown
  brokerUp, igwUp       \* environment: who answers

lifeVars == <<phase, configured, shutdownGather, switchAtShutdown>>
flagVars == <<mqttConnected, gatewayConnected>>
taskVars == <<mqttTasks, kind, pc, current, cancelled, keepalive, gathering>>
envVars  == <<brokerUp, igwUp>>
vars == <<phase, configured, active, dual, mqttConnected, gatewayConnected,
          authority, push, mqttTasks, kind, pc, current, cancelled, keepalive,
          gathering, shutdownGather, switchAtShutdown, brokerUp, igwUp>>

Source    == {"mqtt", "igw"}
Kinds     == {"loop", "poller", "watchdog", "recovery"}
Transport == {"loop", "poller"}
InSession == {"subscribing", "consuming", "emitting"}
Pcs       == {"done", "connecting", "flushing", "backoff", "fetching",
              "sleeping", "probing", "switching", "joining"} \union InSession

Done(t)      == pc[t] = "done"
Switching(t) == pc[t] = "switching"
Joining(t)   == pc[t] = "joining"
Runs(t, k)   == kind[t] = k /\ ~cancelled[t] /\ (k \in Transport => current[t])
At(t, k, p)  == Runs(t, k) /\ pc[t] = p

MoveTo(t, p, k) == /\ pc' = [pc EXCEPT ![t] = p]
                   /\ keepalive' = [keepalive EXCEPT ![t] = k]
Goto(t, p) == MoveTo(t, p, keepalive[t])
SameTasks  == UNCHANGED <<mqttTasks, kind, current, cancelled, gathering>>
KeepSource == UNCHANGED <<lifeVars, active, dual, flagVars, authority, push, envVars>>

TypeOK ==
  /\ phase \in {"starting", "running", "stopping", "stopped"}
  /\ configured \in SUBSET Source
  /\ active \in Source \union {"none"}
  /\ dual \in BOOLEAN
  /\ mqttConnected \in BOOLEAN /\ gatewayConnected \in BOOLEAN
  /\ authority \in BOOLEAN
  /\ push \in Source \union {"none"}
  /\ mqttTasks \in SUBSET Tid
  /\ kind \in [Tid -> Kinds]
  /\ pc \in [Tid -> Pcs]
  /\ current \in [Tid -> BOOLEAN]
  /\ cancelled \in [Tid -> BOOLEAN]
  /\ keepalive \in [Tid -> {"none", "running", "cancelled"}]
  /\ gathering \in [Tid -> SUBSET Tid]
  /\ shutdownGather \in SUBSET Tid
  /\ switchAtShutdown \in BOOLEAN
  /\ brokerUp \in BOOLEAN /\ igwUp \in BOOLEAN

Init ==
  /\ phase = "starting"
  /\ configured \in SUBSET Source
  /\ active = "none" /\ dual = FALSE
  /\ mqttConnected = FALSE /\ gatewayConnected = FALSE
  /\ authority = FALSE /\ push = "none"
  /\ mqttTasks = {}
  /\ kind = [t \in Tid |-> "loop"]
  /\ pc = [t \in Tid |-> "done"]
  /\ current = [t \in Tid |-> FALSE]
  /\ cancelled = [t \in Tid |-> FALSE]
  /\ keepalive = [t \in Tid |-> "none"]
  /\ gathering = [t \in Tid |-> {}]
  /\ shutdownGather = {} /\ switchAtShutdown = FALSE
  /\ brokerUp \in BOOLEAN /\ igwUp \in BOOLEAN

-----------------------------------------------------------------------------
(* Starting a source: _new_source_state, _start_mqtt_client,               *)
(* _start_gateway_client and, on the dual path, the task that leaves it.   *)

\* Mutant: the watchdog on either source.
WatchdogOnly(s) == "watchdog"

TransportOf(s) == IF s = "mqtt" THEN "loop" ELSE "poller"
MonitorOf(s)   == IF s = "mqtt" THEN "watchdog" ELSE "recovery"
FirstPc(k)     == CASE k = "loop"   -> "connecting"
                    [] k = "poller" -> "fetching"
                    [] OTHER        -> "sleeping"

Free == {t \in Tid : Done(t) /\ t \notin mqttTasks \union shutdownGather}

\* Slots are names: which of the free ones a task gets makes no difference.
First(S) == {t \in S : \A u \in S : t <= u}

\* Mutant: the monitor task is not appended to mqtt_tasks.
ListTransport(transport, monitors) == mqttTasks \union {transport}
Listed(transport, monitors) == mqttTasks \union {transport} \union monitors

\* The new source's tasks are transport and monitors; `leaving` end with the step,
\* but a session loop then still cancels and joins its keepalive.
StartTasks(s, transport, monitors, leaving) ==
  LET new == {transport} \union monitors
      k   == [t \in new |-> IF t = transport THEN TransportOf(s) ELSE MonitorOf(s)]
  IN  /\ kind' = [t \in Tid |-> IF t \in new THEN k[t] ELSE kind[t]]
      /\ pc' = [t \in Tid |-> IF t \in new THEN FirstPc(k[t])
                              ELSE IF t \notin leaving THEN pc[t]
                              ELSE IF keepalive[t] = "none" THEN "done" ELSE "joining"]
      /\ keepalive' = [t \in Tid |-> IF t \in leaving /\ keepalive[t] # "none"
                                     THEN "cancelled" ELSE keepalive[t]]
      /\ current' = [t \in Tid |-> t = transport]
      /\ cancelled' = [t \in Tid |-> t \notin new /\ cancelled[t]]
      /\ gathering' = [t \in Tid |-> IF t \in new \union leaving THEN {} ELSE gathering[t]]
      /\ mqttTasks' = Listed(transport, monitors)
      /\ authority' = FALSE

\* gateway.choose_startup_source
StartupSource(reachable) ==
  IF configured = Source THEN (IF reachable THEN "mqtt" ELSE "igw")
  ELSE IF configured = {} THEN "none"
  ELSE CHOOSE s \in configured : TRUE

\* probe_mqtt_reachable
ProbeAnswers == brokerUp

\* _select_and_start_data_source
SelectSource ==
  /\ phase = "starting"
  /\ phase' = "running"
  /\ active' = StartupSource(ProbeAnswers)
  /\ dual' = (configured = Source)
  /\ IF active' = "none"
     THEN UNCHANGED <<taskVars, authority>>
     ELSE \E t \in First(Free) : \E m \in First(Free \ {t}) :
            StartTasks(active', t, IF dual' THEN {m} ELSE {}, {})
  /\ UNCHANGED <<configured, shutdownGather, switchAtShutdown, flagVars, push, envVars>>

-----------------------------------------------------------------------------
(* Replacing the source: _cancel_data_source_tasks and its callers.        *)

\* Mutant: the source is neither retired nor cancelled.
RetireNothing(victims) == mqttTasks' = {} /\ push' = "none" /\ UNCHANGED <<current, cancelled>>

\* invalidate, retire the source, disconnect push, cancel the listed tasks
Retire(victims) ==
  /\ current' = [t \in Tid |-> FALSE]
  /\ cancelled' = [t \in Tid |-> cancelled[t] \/ (t \in victims /\ ~Done(t))]
  /\ mqttTasks' = {}
  /\ push' = "none"

\* Mutants: the switching task awaits itself; nothing is awaited.
VictimsAndSelf(t) == mqttTasks
GatherSkipped(t)  == TRUE

Victims(t)  == mqttTasks \ {t}
Gathered(t) == \A u \in gathering[t] : Done(u)

\* A task enters _cancel_data_source_tasks and waits in gather for the others.
BeginSwitch(t) ==
  /\ Retire(Victims(t))
  /\ gathering' = [gathering EXCEPT ![t] = Victims(t)]
  /\ Goto(t, "switching")
  /\ UNCHANGED <<lifeVars, active, dual, flagVars, authority, kind, envVars>>

Target(t) == IF kind[t] = "recovery" THEN "mqtt" ELSE "igw"

\* Mutant: the gateway's flag survives the switch.
ClearMqttFlag == mqttConnected' = FALSE /\ UNCHANGED gatewayConnected
ClearFlags == mqttConnected' = FALSE /\ gatewayConnected' = FALSE

\* gather returned: clear the flags, select the target, start it, leave; a session
\* loop leaves through its finally.
CompleteSwitch(t) ==
  /\ Switching(t)
  /\ Gathered(t)
  /\ active' = Target(t)
  /\ ClearFlags
  /\ \E n \in First(Free) : \E m \in First(Free \ {n}) : StartTasks(Target(t), n, {m}, {t})
  /\ UNCHANGED <<lifeVars, dual, push, envVars>>

\* Mutant: the finally leaves the keepalive running.
LeaveForgets(t, p) == Goto(t, p)

\* The finally of _finish_mqtt_session: cancel the keepalive, await its end, go on to p.
Leave(t, p) == IF keepalive[t] = "none" THEN Goto(t, p) ELSE MoveTo(t, "joining", "cancelled")

\* A cancelled task, or one that finds its source retired, runs to its end.
Exit(t) ==
  /\ ~Done(t) /\ ~Switching(t) /\ ~Joining(t)
  /\ cancelled[t] \/ (kind[t] \in Transport /\ ~current[t])
  /\ Leave(t, "done")
  /\ KeepSource /\ SameTasks

\* the cancelled _keepalive_loop runs once more and ends
KeepaliveEnds(t) ==
  /\ keepalive[t] = "cancelled"
  /\ keepalive' = [keepalive EXCEPT ![t] = "none"]
  /\ UNCHANGED pc /\ KeepSource /\ SameTasks

\* The join returned, or raises the cancellation it held back until then.
Joined(t) ==
  /\ Joining(t) /\ keepalive[t] = "none"
  /\ Goto(t, IF current[t] /\ ~cancelled[t] THEN "backoff" ELSE "done")
  /\ KeepSource /\ SameTasks

-----------------------------------------------------------------------------
(* The MQTT session loop: _mqtt_connect_and_loop.                          *)

\* push work stops for good when the service is closed with the application
PushTo(s) == IF phase = "stopped" THEN "none" ELSE s

\* ConnAck and _prepare_mqtt_session, up to the first subscribe
Connect(t) ==
  /\ At(t, "loop", "connecting") /\ brokerUp
  /\ mqttConnected' = TRUE
  /\ authority' = FALSE
  /\ push' = PushTo("mqtt")
  /\ Goto(t, "subscribing")
  /\ UNCHANGED <<lifeVars, active, dual, gatewayConnected, envVars>> /\ SameTasks

\* the last subscribe returned; the session's keepalive starts
Subscribe(t) ==
  /\ At(t, "loop", "subscribing") /\ brokerUp
  /\ MoveTo(t, "consuming", "running")
  /\ KeepSource /\ SameTasks

\* on_message: a controller state, its removal, or another topic; then emit
Message(t) ==
  /\ At(t, "loop", "consuming") /\ brokerUp
  /\ authority' \in BOOLEAN
  /\ Goto(t, "emitting")
  /\ UNCHANGED <<lifeVars, active, dual, flagVars, push, envVars>> /\ SameTasks

Emitted(t) ==
  /\ At(t, "loop", "emitting")
  /\ Goto(t, "consuming")
  /\ KeepSource /\ SameTasks

\* Mutant: the controller state of a lost session is kept.
FinishKeepsState ==
  /\ mqttConnected' = FALSE
  /\ push' = IF push = "mqtt" THEN "none" ELSE push
  /\ UNCHANGED authority

\* _finish_mqtt_session of a current session, up to its emit
FinishSession ==
  /\ mqttConnected' = FALSE
  /\ authority' = FALSE
  /\ push' = IF push = "mqtt" THEN "none" ELSE push

\* Mutant: the failure handler never fails over.
FailureRetries(t) ==
  IF ~current[t]
  THEN Leave(t, "done") /\ KeepSource /\ SameTasks
  ELSE /\ FinishSession /\ Goto(t, "flushing")
       /\ UNCHANGED <<lifeVars, active, dual, gatewayConnected, envVars>> /\ SameTasks

\* _handle_mqtt_failure and what follows it
HandleFailure(t) ==
  IF ~current[t]
  THEN Leave(t, "done") /\ KeepSource /\ SameTasks
  ELSE IF dual
  THEN BeginSwitch(t)
  ELSE /\ FinishSession /\ Goto(t, "flushing")
       /\ UNCHANGED <<lifeVars, active, dual, gatewayConnected, envVars>> /\ SameTasks

\* The session ends with an exception.  aiomqtt raises MqttError from __aexit__
\* of a lost connection even while a CancelledError is under way, so a cancelled
\* loop gets here as well and leaves only because its source is not current.
LoseSession(t) ==
  /\ kind[t] = "loop" /\ ~brokerUp
  /\ pc[t] \in InSession \/ At(t, "loop", "connecting")
  /\ HandleFailure(t)

\* the last emit, then the keepalive join, if there is one, and the retry wait
Flushed(t) ==
  /\ At(t, "loop", "flushing")
  /\ Leave(t, "backoff")
  /\ KeepSource /\ SameTasks

Retry(t) ==
  /\ At(t, "loop", "backoff")
  /\ Goto(t, "connecting")
  /\ KeepSource /\ SameTasks

-----------------------------------------------------------------------------
(* The IGW poller: gateway_poll_loop and the callbacks of                  *)
(* _start_gateway_client.                                                  *)

PollOk(t) ==
  /\ At(t, "poller", "fetching") /\ igwUp
  /\ gatewayConnected' = TRUE /\ mqttConnected' = FALSE
  /\ authority' \in BOOLEAN
  /\ push' = PushTo("igw")
  /\ Goto(t, "emitting")
  /\ UNCHANGED <<lifeVars, active, dual, envVars>> /\ SameTasks

\* _report_gateway_failure; a snapshot the reducer rejects ends here too
PollFail(t) ==
  /\ At(t, "poller", "fetching") /\ ~igwUp
  /\ gatewayConnected' = FALSE /\ mqttConnected' = FALSE
  /\ IF gatewayConnected
     THEN authority' = FALSE /\ push' = IF push = "igw" THEN "none" ELSE push
     ELSE UNCHANGED <<authority, push>>
  /\ Goto(t, "emitting")
  /\ UNCHANGED <<lifeVars, active, dual, envVars>> /\ SameTasks

PollPause(t) ==
  /\ At(t, "poller", "emitting")
  /\ Goto(t, "sleeping")
  /\ KeepSource /\ SameTasks

PollAgain(t) ==
  /\ At(t, "poller", "sleeping")
  /\ Goto(t, "fetching")
  /\ KeepSource /\ SameTasks

-----------------------------------------------------------------------------
(* The tasks that leave a source on the dual path.                         *)

\* _mqtt_connect_watchdog after its sleep, with _failover_to_igw's guards
WatchdogFires(t) ==
  /\ At(t, "watchdog", "sleeping")
  /\ IF dual /\ active = "mqtt" /\ ~mqttConnected
     THEN BeginSwitch(t)
     ELSE /\ Goto(t, "done")
          /\ KeepSource /\ SameTasks

RecoveryWakes(t) ==
  /\ At(t, "recovery", "sleeping")
  /\ Goto(t, "probing")
  /\ KeepSource /\ SameTasks

\* a failed probe re-evaluates the loop condition
RecoveryProbes(t) ==
  /\ At(t, "recovery", "probing")
  /\ IF ProbeAnswers
     THEN BeginSwitch(t)
     ELSE /\ Goto(t, IF dual /\ active = "igw" THEN "sleeping" ELSE "done")
          /\ KeepSource /\ SameTasks

-----------------------------------------------------------------------------
(* Time, shutdown and the environment.                                     *)

\* controller_available: 120 s without an observation clear the state
AuthorityExpires ==
  /\ authority
  /\ authority' = FALSE
  /\ UNCHANGED <<lifeVars, active, dual, flagVars, push, taskVars, envVars>>

\* Mutant: shutdown cancels nothing.
NothingListed     == {}
ShutdownVictims   == mqttTasks
ShutdownGathered  == \A t \in shutdownGather : Done(t)

\* _shutdown_tasks up to its gather
ShutdownBegins ==
  /\ phase = "running"
  /\ phase' = "stopping"
  /\ Retire(ShutdownVictims)
  /\ shutdownGather' = mqttTasks
  /\ switchAtShutdown' = (\E t \in Tid : Switching(t))
  /\ UNCHANGED <<configured, active, dual, flagVars, authority, kind, pc, keepalive,
                 gathering, envVars>>

\* gather returned; _clear_mqtt_client, PushService.close
ShutdownEnds ==
  /\ phase = "stopping"
  /\ ShutdownGathered
  /\ phase' = "stopped"
  /\ mqttConnected' = FALSE
  /\ push' = "none"
  /\ shutdownGather' = {}
  /\ UNCHANGED <<configured, switchAtShutdown, active, dual, gatewayConnected, authority,
                 taskVars, envVars>>

Environment ==
  /\ \/ brokerUp' = ~brokerUp /\ UNCHANGED igwUp
     \/ igwUp' = ~igwUp /\ UNCHANGED brokerUp
  /\ UNCHANGED <<lifeVars, active, dual, flagVars, authority, push, taskVars>>

-----------------------------------------------------------------------------
LoopStep(t)   == Connect(t) \/ Subscribe(t) \/ Message(t) \/ Emitted(t)
                   \/ LoseSession(t) \/ Flushed(t) \/ Retry(t)
PollerStep(t) == PollOk(t) \/ PollFail(t) \/ PollPause(t) \/ PollAgain(t)
SwitchStep(t) == CompleteSwitch(t) \/ Exit(t) \/ Joined(t)
LeaveStep(t)  == WatchdogFires(t) \/ RecoveryWakes(t) \/ RecoveryProbes(t)
TaskStep(t)   == LoopStep(t) \/ PollerStep(t) \/ SwitchStep(t) \/ LeaveStep(t) \/ KeepaliveEnds(t)

Next ==
  \/ SelectSource
  \/ \E t \in Tid : TaskStep(t)
  \/ AuthorityExpires
  \/ ShutdownBegins \/ ShutdownEnds
  \/ Environment

Spec == Init /\ [][Next]_vars

\* The loop runs every ready task; timers fire.  Nothing makes a broker send
\* a message, the environment change or the operator stop the service.
Fairness ==
  /\ WF_vars(SelectSource)
  /\ WF_vars(ShutdownEnds)
  /\ \A t \in Tid :
       /\ WF_vars(Connect(t) \/ Subscribe(t) \/ Emitted(t) \/ LoseSession(t)
                    \/ Flushed(t) \/ Retry(t))
       /\ WF_vars(PollerStep(t))
       /\ WF_vars(SwitchStep(t))
       /\ WF_vars(KeepaliveEnds(t))
       /\ WF_vars(LeaveStep(t))

FairSpec == Spec /\ Fairness

-----------------------------------------------------------------------------
(* Safety.                                                                 *)

\* A retired loop that joins its keepalive has closed its client: all that is left
\* of it is to see the cancelled keepalive end.
Retired(t) == Joining(t) /\ ~current[t] /\ keepalive[t] # "running"

Transports == {t \in Tid : kind[t] \in Transport /\ ~Done(t) /\ ~Switching(t) /\ ~Retired(t)}
Keepalives == {t \in Tid : keepalive[t] = "running"}

\* "Stop MQTT loop and/or IGW poller (exclusive switch)": an MQTT session, with
\* the keepalive that publishes for it, and a poller, or two of either, are never
\* alive together, not even while one of them is being cancelled.
ExclusiveTransports == \A t, u \in Transports \union Keepalives : t = u

\* At most one task replaces the source at a time; while it waits no task is
\* listed, so nothing can be started, cancelled or awaited by a second switch.
OneSwitch ==
  /\ \A t, u \in Tid : Switching(t) /\ Switching(u) => t = u
  /\ (\E t \in Tid : Switching(t)) => mqttTasks = {}

\* A connected flag is up only for the selected transport, and never both:
\* commands and the browser read the flags, never the tasks.
FlagsFollowSelection ==
  /\ mqttConnected => active = "mqtt" /\ ~gatewayConnected
  /\ gatewayConnected => active = "igw"

\* Controller state is live only while its transport counts as connected;
\* a lost session clears the flag and the state in one step.
AuthorityNeedsConnection ==
  authority /\ phase # "stopped" => mqttConnected \/ gatewayConnected

\* Push classification is bound to a source that is current and connected.
PushFollowsSource ==
  push # "none" =>
    /\ \E t \in Tid : Runs(t, TransportOf(push)) /\ ~Done(t) /\ ~Switching(t)
    /\ (push = "mqtt" => mqttConnected) /\ (push = "igw" => gatewayConnected)

\* What a command guard, a browser or the push classification reads, flags, controller
\* state and push connection, always belongs to the selected transport.
LiveStateIsSelected == FlagsFollowSelection /\ AuthorityNeedsConnection /\ PushFollowsSource

\* Every task that may still do anything is listed, awaited or the one switching,
\* so that the next switch or the shutdown reaches it, and no keepalive outlives
\* its loop: "always join its owned keepalive task".
NoTaskLeaks ==
  \A t \in Tid :
    /\ \/ Done(t) \/ Switching(t) \/ Retired(t)
       \/ t \in mqttTasks \union shutdownGather
       \/ \E u \in Tid : Switching(u) /\ t \in gathering[u]
    /\ keepalive[t] # "none" => ~Done(t)

\* A shutdown that met no switch in progress leaves no task behind that may still
\* do anything.
ShutdownStopsTasks ==
  phase = "stopped" /\ ~switchAtShutdown => \A t \in Tid : Done(t) \/ Retired(t)

\* _shutdown_tasks: "Cancel and await all background tasks.": no source is
\* live once the shutdown has returned.
NoSourceAfterShutdown == phase = "stopped" => \A t \in Transports : ~current[t]

\* From the moment a source is retired until its replacement has started, no
\* step raises a connected flag, gains controller state or connects push.
RetiredSourceIsSilent ==
  [][(\E t \in Tid : Switching(t)) =>
       /\ mqttConnected' => mqttConnected
       /\ gatewayConnected' => gatewayConnected
       /\ authority' => authority
       /\ push' # "none" => push' = push]_vars

\* What the rest of the dashboard sees of all this is a SourceContract: only a
\* retired source is replaced, only a current one connects or observes.
NoSource == \A t \in Tid : ~current[t]
Contract == INSTANCE SourceContract WITH retired <- NoSource
ImplementsContract == Contract!SourceSpec

-----------------------------------------------------------------------------
(* Liveness.                                                               *)

\* A task that has begun a switch ends, and so does the keepalive of the session
\* it gave up: no task waits for itself, for its waiter or for an endless task.
SwitchEnds == \A t \in Tid : Switching(t) ~> Done(t) /\ keepalive[t] = "none"

\* Dual path, broker gone for good, gateway answering: the dashboard ends up
\* polling the gateway, whatever it was doing when the broker went.
FailoverHappens ==
  [](configured = Source)
    /\ <>[](~brokerUp /\ igwUp /\ phase = "running") => <>[]gatewayConnected

\* aiomqtt gives up connecting after 10 s and the watchdog sleeps 15 s, so once
\* the broker answers for good the watchdog no longer beats a connect attempt.
TimelyConnect ==
  <>[][\A t \in Tid : WatchdogFires(t) => ~brokerUp \/ mqttConnected]_vars

\* A broker that answers for good is returned to, on the dual path and after
\* reconnect backoff alike, and the session then stays.
RecoveryHappens ==
  TimelyConnect /\ [](phase \in {"starting", "running"} => "mqtt" \in configured)
    /\ <>[](brokerUp /\ phase = "running") => <>[]mqttConnected

\* A shutdown always completes, whatever the tasks were doing.
ShutdownEndsEventually == phase = "stopping" ~> phase = "stopped"
=============================================================================
