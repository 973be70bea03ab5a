---------------------- MODULE SourceSelectionProof ----------------------
(* Proofs about SourceSelection, for any finite set of task slots.         *)
EXTENDS SourceSelection, TLAPS

SourceOf(k) == IF k = "loop" THEN "mqtt" ELSE "igw"
SomeSwitch  == \E t \in Tid : Switching(t)

\* Nothing runs before the source is selected.
StartIsEmpty ==
  phase = "starting" =>
    /\ active = "none" /\ mqttTasks = {} /\ shutdownGather = {}
    /\ \A t \in Tid : Done(t)

\* The task a source is current for is listed, running and of its transport.
CurrentIsListed ==
  \A t \in Tid : current[t] =>
    /\ t \in mqttTasks /\ ~cancelled[t] /\ ~Done(t) /\ ~Switching(t)
    /\ kind[t] \in Transport
    /\ active = SourceOf(kind[t])

\* A task outside the list is done, switching, cancelled or only joins its keepalive.
UnlistedIsCancelled ==
  \A t \in Tid : t \in mqttTasks \/ Done(t) \/ Switching(t) \/ cancelled[t] \/ Retired(t)

\* Shutdown and a switch never wait at the same time.
GatherExcludesSwitch ==
  /\ shutdownGather # {} => mqttTasks = {} /\ ~SomeSwitch
  /\ SomeSwitch => mqttTasks = {}

\* An open session of the current source counts as connected.
SessionIsConnected ==
  \A t \in Tid : current[t] /\ pc[t] \in InSession /\ kind[t] = "loop" =>
    mqttConnected \/ phase = "stopped"

\* A shutdown that met no switch can meet none later, and nothing is listed.
QuietShutdown ==
  /\ phase # "stopping" => shutdownGather = {}
  /\ phase \in {"stopping", "stopped"} /\ ~switchAtShutdown => ~SomeSwitch /\ mqttTasks = {}

\* Only the dual path has monitors, and only they or a failing loop switch.
SwitchIsDual ==
  \A t \in Tid : Switching(t) \/ (kind[t] \notin Transport /\ ~Done(t)) => dual

\* The keepalive k a task at p may own: only a session runs one, from its last
\* subscribe until the loop's finally cancels it and joins it.
Carries(t, p, k) ==
  /\ k \in {"none", "running", "cancelled"}
  /\ k = "running" => kind[t] = "loop" /\ p \in {"consuming", "emitting", "flushing", "switching"}
  /\ k = "cancelled" => p = "joining"
  /\ p = "joining" => kind[t] = "loop"

KeepaliveOwned == \A t \in Tid : Carries(t, pc[t], keepalive[t])

\* Nothing is published before the selection, and no push after the end.
SilentStart ==
  /\ phase = "starting" => push = "none" /\ ~authority
  /\ phase = "stopped" => push = "none"

\* The part about tasks, and the part about what the tasks publish.
TaskInv ==
  /\ StartIsEmpty
  /\ OneSwitch
  /\ NoTaskLeaks
  /\ CurrentIsListed
  /\ UnlistedIsCancelled
  /\ GatherExcludesSwitch
  /\ ExclusiveTransports
  /\ QuietShutdown
  /\ SwitchIsDual
  /\ KeepaliveOwned

LiveInv ==
  /\ SilentStart
  /\ FlagsFollowSelection
  /\ SessionIsConnected
  /\ AuthorityNeedsConnection
  /\ PushFollowsSource

IInv == TypeOK /\ TaskInv /\ LiveInv

USE DEF Done, Switching, Joining, Retired, SomeSwitch, Transport, Kinds, Source, Pcs, InSession, SourceOf,
        TransportOf, Transports, Keepalives

-----------------------------------------------------------------------------
(* Three shapes of step on the tasks: one task moves on, one task begins a *)
(* switch, nothing happens to the tasks.                                   *)

Move(t, p, k) ==
  /\ ~Done(t) /\ ~Switching(t)
  /\ p \in Pcs \ {"switching"}
  /\ p = "done" => ~current[t]
  /\ Joining(t) => current[t] \/ p \in {"joining", "done"}
  /\ Carries(t, p, k)
  /\ MoveTo(t, p, k) /\ SameTasks
  /\ UNCHANGED <<lifeVars, active, dual>>

MayLeave(t) == ~Done(t) /\ ~Switching(t) /\ ~Joining(t) /\ (~cancelled[t] \/ current[t]) /\ dual

\* A task that moves on disturbs no other task.
LEMMA MoveKeepsTasks ==
  ASSUME TypeOK, TaskInv, NEW t \in Tid, NEW p, NEW k, Move(t, p, k)
  PROVE  TaskInv'
<1> USE DEF TypeOK, TaskInv, Move, MoveTo, SameTasks, lifeVars
<1>0. /\ p \in Pcs /\ p # "switching" /\ pc' = [pc EXCEPT ![t] = p]
      /\ k \in {"none", "running", "cancelled"} /\ keepalive' = [keepalive EXCEPT ![t] = k]
  BY DEF Carries
<1>1. \A u \in Tid : Switching(u)' <=> Switching(u)
  BY <1>0
<1>2. \A u \in Tid : Done(u) => Done(u)'
  BY <1>0
<1>3. SomeSwitch' <=> SomeSwitch
  BY <1>1
<1>4. StartIsEmpty'
  BY <1>2 DEF StartIsEmpty
<1>5. OneSwitch'
  BY <1>1, <1>3 DEF OneSwitch
<1>6. KeepaliveOwned'
  BY <1>0 DEF KeepaliveOwned, Carries
<1>7. \A u \in Tid : Retired(u) => Retired(u)' \/ Done(u)'
  BY <1>0 DEF Carries
<1>8. NoTaskLeaks'
  BY <1>1, <1>2, <1>6, <1>7 DEF NoTaskLeaks, KeepaliveOwned, Carries
<1>9. CurrentIsListed'
  BY <1>0, <1>1 DEF CurrentIsListed
<1>10. UnlistedIsCancelled'
  BY <1>1, <1>2, <1>7 DEF UnlistedIsCancelled
<1>11. GatherExcludesSwitch'
  BY <1>3 DEF GatherExcludesSwitch
<1>12. ExclusiveTransports'
  <2>1. \A u \in Tid : (u \in Transports \union Keepalives)' => u \in Transports \union Keepalives
    BY <1>0, <1>7 DEF Carries, KeepaliveOwned
  <2> QED
    BY <2>1 DEF ExclusiveTransports
<1>13. QuietShutdown'
  BY <1>3 DEF QuietShutdown
<1>14. SwitchIsDual'
  BY <1>0, <1>1 DEF SwitchIsDual
<1> QED
  BY <1>4, <1>5, <1>6, <1>8, <1>9, <1>10, <1>11, <1>12, <1>13, <1>14

\* A task may begin a switch only from the list, so it is the only one.
LEMMA BeginSwitchKeepsTasks ==
  ASSUME TypeOK, TaskInv, NEW t \in Tid, MayLeave(t), BeginSwitch(t)
  PROVE  TaskInv'
<1> USE DEF TypeOK, TaskInv, MayLeave, BeginSwitch, Retire, Victims, Goto, MoveTo, lifeVars
<1>0. t \in mqttTasks /\ ~SomeSwitch /\ shutdownGather = {} /\ phase # "starting"
  BY DEF UnlistedIsCancelled, CurrentIsListed, OneSwitch, GatherExcludesSwitch, StartIsEmpty
<1>1. \A u \in Tid : Switching(u)' <=> u = t
  BY <1>0
<1>2. \A u \in Tid : u # t => (Done(u)' <=> Done(u))
  OBVIOUS
<1>12. keepalive' = keepalive
  OBVIOUS
<1>3. StartIsEmpty'
  BY <1>0 DEF StartIsEmpty
<1>4. OneSwitch'
  BY <1>1 DEF OneSwitch
<1>13. KeepaliveOwned'
  BY <1>0, <1>12 DEF KeepaliveOwned, Carries
<1>5. NoTaskLeaks'
  BY <1>0, <1>1, <1>2, <1>12, <1>13 DEF NoTaskLeaks, KeepaliveOwned, Carries
<1>6. CurrentIsListed'
  BY DEF CurrentIsListed
<1>7. UnlistedIsCancelled'
  <2>1. ASSUME NEW u \in Tid, u # t PROVE Done(u)' \/ cancelled'[u] \/ Retired(u)'
    <3>1. u \in mqttTasks \/ Done(u) \/ cancelled[u] \/ Retired(u)
      BY <1>0 DEF UnlistedIsCancelled
    <3>2. u \in mqttTasks => Done(u) \/ cancelled'[u]
      BY <2>1
    <3>3. cancelled[u] => cancelled'[u]
      OBVIOUS
    <3>4. Retired(u) => Retired(u)'
      BY <2>1, <1>12
    <3> QED
      BY <1>2, <2>1, <3>1, <3>2, <3>3, <3>4
  <2> QED
    BY <1>1, <2>1 DEF UnlistedIsCancelled
<1>8. GatherExcludesSwitch'
  BY <1>0 DEF GatherExcludesSwitch
<1>9. ExclusiveTransports'
  BY <1>1, <1>2, <1>12, <1>13 DEF ExclusiveTransports, KeepaliveOwned, Carries
<1>10. QuietShutdown'
  BY <1>0 DEF QuietShutdown
<1>11. SwitchIsDual'
  BY DEF SwitchIsDual
<1> QED
  BY <1>3, <1>4, <1>5, <1>6, <1>7, <1>8, <1>9, <1>10, <1>11, <1>13

\* While the tasks stand still, only the phase matters to them.
LEMMA IdleKeepsTasks ==
  ASSUME TaskInv, UNCHANGED taskVars, UNCHANGED <<lifeVars, active, dual>>
  PROVE  TaskInv'
  BY DEF TaskInv, taskVars, lifeVars, StartIsEmpty, OneSwitch, NoTaskLeaks, CurrentIsListed,
     UnlistedIsCancelled, GatherExcludesSwitch, ExclusiveTransports, QuietShutdown, SwitchIsDual,
     KeepaliveOwned, Carries

\* The transport of a new source is about to connect or to fetch.
LEMMA StartIsFresh ==
  ASSUME NEW s \in Source, NEW n \in Tid, NEW ms, NEW leaving, StartTasks(s, n, ms, leaving)
  PROVE  /\ \A u \in Tid : current'[u] => pc'[u] \in {"connecting", "fetching"}
         /\ ~authority'
  BY DEF StartTasks, FirstPc

\* A source that starts when all other tasks are done is the only one.
LEMMA StartKeepsTasks ==
  ASSUME TypeOK, NEW s \in Source, NEW n \in Tid, NEW ms \in SUBSET Tid, n \notin ms,
         NEW leaving \in SUBSET Tid, leaving \intersect ({n} \union ms) = {},
         \A u \in Tid : Done(u) \/ Retired(u) \/ u \in leaving,
         \A u \in {n} \union ms : Done(u), \A u \in leaving : Switching(u), KeepaliveOwned,
         mqttTasks = {}, shutdownGather' = {}, StartTasks(s, n, ms, leaving),
         active' = s, phase' # "starting", ms # {} => dual',
         phase' \in {"stopping", "stopped"} => switchAtShutdown'
  PROVE  TaskInv'
<1> USE DEF TypeOK, TaskInv, StartTasks, Listed, MonitorOf
<1>12. /\ FirstPc("loop") = "connecting" /\ FirstPc("poller") = "fetching"
       /\ FirstPc("watchdog") = "sleeping" /\ FirstPc("recovery") = "sleeping"
  BY DEF FirstPc
<1>1. mqttTasks' = {n} \union ms
  OBVIOUS
<1>2. \A u \in Tid : \/ u \in {n} \union ms
                     \/ (Done(u) \/ Retired(u))' /\ ~current'[u]
  BY DEF KeepaliveOwned, Carries
<1>3. /\ kind'[n] = TransportOf(s) /\ current'[n] /\ ~cancelled'[n]
      /\ pc'[n] \in {"connecting", "fetching"}
  BY <1>12
<1>4. \A u \in ms : pc'[u] = "sleeping" /\ ~cancelled'[u] /\ ~current'[u]
                      /\ kind'[u] \in {"watchdog", "recovery"}
  <2> SUFFICES ASSUME NEW u \in ms
               PROVE  /\ pc'[u] = "sleeping" /\ ~cancelled'[u] /\ ~current'[u]
                      /\ kind'[u] \in {"watchdog", "recovery"}
    OBVIOUS
  <2>1. u \in Tid /\ u # n /\ kind'[u] = MonitorOf(s)
    OBVIOUS
  <2>2. ~cancelled'[u] /\ ~current'[u]
    BY <2>1
  <2>3. pc'[u] = FirstPc(MonitorOf(s))
    BY <2>1
  <2> QED
    BY <1>12, <2>1, <2>2, <2>3
<1>11. KeepaliveOwned'
  <2>1. \A u \in {n} \union ms : keepalive'[u] = "none"
    BY DEF KeepaliveOwned, Carries
  <2>2. ASSUME NEW u \in Tid \ ({n} \union ms) PROVE Carries(u, pc[u], keepalive[u])'
    <3>1. kind'[u] = kind[u] /\ Carries(u, pc[u], keepalive[u])
      BY DEF KeepaliveOwned
    <3>2. CASE u \in leaving
      <4>1. Switching(u) /\ keepalive[u] \in {"none", "running"} /\ (keepalive[u] # "none" => kind[u] = "loop")
        BY <3>1, <3>2 DEF Carries
      <4>2. IF keepalive[u] = "none" THEN pc'[u] = "done" /\ keepalive'[u] = "none"
            ELSE pc'[u] = "joining" /\ keepalive'[u] = "cancelled"
        BY <3>2
      <4> HIDE DEF StartTasks, TypeOK, TaskInv
      <4> QED
        BY <3>1, <4>1, <4>2 DEF Carries
    <3>3. CASE u \notin leaving
      <4>1. pc'[u] = pc[u] /\ keepalive'[u] = keepalive[u]
        BY <3>3
      <4> HIDE DEF StartTasks, TypeOK, TaskInv
      <4> QED
        BY <3>1, <4>1 DEF Carries
    <3> QED
      BY <3>2, <3>3
  <2>3. ASSUME NEW u \in {n} \union ms PROVE Carries(u, pc[u], keepalive[u])'
    BY <1>3, <1>4, <2>1 DEF Carries
  <2> QED
    BY <2>2, <2>3 DEF KeepaliveOwned
<1>5. ~SomeSwitch'
  BY <1>2, <1>3, <1>4
<1> HIDE DEF StartTasks, TypeOK
<1>6. StartIsEmpty' /\ OneSwitch' /\ GatherExcludesSwitch' /\ QuietShutdown'
  BY <1>5 DEF StartIsEmpty, OneSwitch, GatherExcludesSwitch, QuietShutdown
<1>7. NoTaskLeaks' /\ UnlistedIsCancelled'
  BY <1>1, <1>2, <1>11 DEF NoTaskLeaks, UnlistedIsCancelled, KeepaliveOwned, Carries
<1>8. CurrentIsListed'
  BY <1>1, <1>2, <1>3, <1>4 DEF CurrentIsListed
<1>9. ExclusiveTransports'
  BY <1>2, <1>3, <1>4, <1>11 DEF ExclusiveTransports, KeepaliveOwned, Carries
<1>10. SwitchIsDual'
  BY <1>2, <1>3, <1>4, <1>5, <1>11 DEF SwitchIsDual, KeepaliveOwned, Carries
<1> QED
  BY <1>6, <1>7, <1>8, <1>9, <1>10, <1>11

\* The first selection starts its tasks on an empty list.
LEMMA SelectKeepsTasks ==
  ASSUME TypeOK, TaskInv, SelectSource
  PROVE  TaskInv'
<1> USE DEF SelectSource, lifeVars, taskVars
<1>1. StartIsEmpty /\ mqttTasks = {} /\ shutdownGather = {} /\ (\A u \in Tid : Done(u) /\ ~current[u])
        /\ KeepaliveOwned
  BY DEF TaskInv, StartIsEmpty, CurrentIsListed
<1>2. CASE active' = "none"
  BY <1>1, <1>2 DEF TaskInv, StartIsEmpty, OneSwitch, NoTaskLeaks, CurrentIsListed, UnlistedIsCancelled,
     GatherExcludesSwitch, ExclusiveTransports, QuietShutdown, SwitchIsDual, KeepaliveOwned, Carries
<1>3. CASE active' # "none"
  <2> DEFINE ms(m) == IF dual' THEN {m} ELSE {}
  <2>1. PICK t \in Free : \E m \in Free \ {t} : StartTasks(active', t, ms(m), {})
    BY <1>3 DEF First
  <2>2. PICK m \in Free \ {t} : StartTasks(active', t, ms(m), {})
    BY <2>1
  <2>3. active' \in Source
    BY <1>3 DEF StartupSource, TypeOK
  <2>4. t \in Tid /\ ms(m) \in SUBSET Tid /\ t \notin ms(m) /\ (ms(m) # {} => dual')
          /\ {} \intersect ({t} \union ms(m)) = {}
    BY <2>1, <2>2 DEF Free
  <2>5. shutdownGather' = {} /\ phase' = "running"
    BY <1>1
  <2> HIDE DEF ms, SelectSource
  <2> QED
    BY <1>1, <2>2, <2>3, <2>4, <2>5, StartKeepsTasks
<1> QED
  BY <1>2, <1>3

\* A completed switch starts its tasks on an empty list.
LEMMA CompleteKeepsTasks ==
  ASSUME TypeOK, TaskInv, NEW t \in Tid, CompleteSwitch(t)
  PROVE  TaskInv'
<1> USE DEF CompleteSwitch, lifeVars
<1>1. /\ mqttTasks = {} /\ shutdownGather = {} /\ phase # "starting" /\ dual
      /\ \A u \in Tid : Done(u) \/ Retired(u) \/ u = t
      /\ Switching(t) /\ KeepaliveOwned
      /\ phase \in {"stopping", "stopped"} => switchAtShutdown
  BY DEF TaskInv, StartIsEmpty, OneSwitch, NoTaskLeaks, GatherExcludesSwitch, QuietShutdown,
     SwitchIsDual, Gathered
<1>2. PICK n \in Free : \E m \in Free \ {n} : StartTasks(Target(t), n, {m}, {t})
  BY DEF First
<1>3. PICK m \in Free \ {n} : StartTasks(Target(t), n, {m}, {t})
  BY <1>2
<1>4. n \in Tid /\ m \in Tid /\ n # m /\ n # t /\ m # t /\ Target(t) \in Source
        /\ Done(n) /\ Done(m)
  BY <1>2, <1>3 DEF Free, Target
<1> HIDE DEF CompleteSwitch
<1>5. active' = Target(t) /\ shutdownGather' = {} /\ phase' = phase /\ dual' = dual
        /\ switchAtShutdown' = switchAtShutdown
  BY <1>1 DEF CompleteSwitch
<1> QED
  BY <1>1, <1>3, <1>4, <1>5, StartKeepsTasks

\* The shutdown waits for the tasks it takes off the list.
LEMMA ShutdownKeepsTasks ==
  ASSUME TypeOK, TaskInv, ShutdownBegins \/ ShutdownEnds
  PROVE  TaskInv'
<1> USE DEF TypeOK, TaskInv
<1>1. CASE ShutdownBegins
  <2> USE <1>1 DEF ShutdownBegins, Retire, ShutdownVictims
  <2>1. SomeSwitch => mqttTasks = {}
    BY DEF OneSwitch
  <2>2. shutdownGather = {}
    BY DEF QuietShutdown, GatherExcludesSwitch
  <2>3. StartIsEmpty'
    <3>1. phase' # "starting"
      OBVIOUS
    <3> QED
      BY <3>1 DEF StartIsEmpty
  <2>4. OneSwitch'
    BY DEF OneSwitch
  <2>5. NoTaskLeaks' /\ UnlistedIsCancelled'
    BY <2>2 DEF NoTaskLeaks, UnlistedIsCancelled
  <2>6. CurrentIsListed'
    BY DEF CurrentIsListed
  <2>7. ExclusiveTransports'
    BY DEF ExclusiveTransports
  <2>8. SwitchIsDual'
    BY DEF SwitchIsDual
  <2>9. GatherExcludesSwitch' /\ QuietShutdown'
    BY <2>1 DEF GatherExcludesSwitch, QuietShutdown
  <2>10. KeepaliveOwned'
    BY DEF KeepaliveOwned, Carries
  <2> QED
    BY <2>10, <2>3, <2>4, <2>5, <2>6, <2>7, <2>8, <2>9
<1>2. CASE ShutdownEnds
  BY <1>2 DEF ShutdownEnds, ShutdownGathered, taskVars, StartIsEmpty, OneSwitch, NoTaskLeaks,
     CurrentIsListed, UnlistedIsCancelled, GatherExcludesSwitch, ExclusiveTransports, QuietShutdown,
     SwitchIsDual, KeepaliveOwned, Carries
<1> QED
  BY <1>1, <1>2

-----------------------------------------------------------------------------
(* What the tasks publish: flags, controller state, the push source.       *)

\* An uncancelled transport of the current source finds its source selected.
LEMMA CurrentSelected ==
  ASSUME TypeOK, TaskInv, NEW t \in Tid, current[t]
  PROVE  /\ active = SourceOf(kind[t])
         /\ \A u \in Tid : current[u] => u = t
  BY DEF TypeOK, TaskInv, CurrentIsListed, ExclusiveTransports

\* During a switch no source is current, and push is disconnected.
LEMMA SwitchIsSilent ==
  ASSUME TypeOK, TaskInv, LiveInv, SomeSwitch
  PROVE  (\A t \in Tid : ~current[t]) /\ push = "none"
  BY DEF TypeOK, TaskInv, LiveInv, CurrentIsListed, GatherExcludesSwitch, PushFollowsSource, Runs

\* The loop and the poller publish for the selected source only.
LEMMA TransportKeepsLive ==
  ASSUME TypeOK, TaskInv, LiveInv, NEW t \in Tid,
         Connect(t) \/ Subscribe(t) \/ Message(t) \/ Emitted(t) \/ Flushed(t) \/ Retry(t) \/ PollerStep(t)
  PROVE  LiveInv'
<1> USE DEF TypeOK, LiveInv, At, Runs, Goto, MoveTo, Leave, SameTasks, KeepSource, PushTo, lifeVars, flagVars, envVars
<1>0. current[t] /\ active = SourceOf(kind[t]) /\ (\A u \in Tid : current[u] => u = t)
  <2>1. current[t]
    BY DEF Connect, Subscribe, Message, Emitted, Flushed, Retry, PollerStep, PollOk, PollFail,
       PollPause, PollAgain
  <2> QED
    BY <2>1, CurrentSelected
<1>1. CASE Connect(t)
  <2> USE <1>0, <1>1 DEF Connect
  <2>1. SilentStart' /\ FlagsFollowSelection' /\ SessionIsConnected' /\ AuthorityNeedsConnection'
    BY DEF SilentStart, FlagsFollowSelection, SessionIsConnected, AuthorityNeedsConnection,
       TaskInv, StartIsEmpty
  <2>2. Runs(t, "loop")' /\ pc'[t] = "subscribing" /\ (push' # "none" => push' = "mqtt")
    OBVIOUS
  <2>3. PushFollowsSource'
    BY <2>2 DEF PushFollowsSource
  <2> QED
    BY <2>1, <2>3
<1>2. CASE Subscribe(t) \/ Message(t) \/ Emitted(t) \/ Flushed(t) \/ Retry(t)
  <2>1. /\ pc' = [pc EXCEPT ![t] = pc'[t]]
        /\ pc'[t] \in {"consuming", "emitting", "backoff", "joining", "connecting"}
        /\ pc'[t] \in InSession => pc[t] \in InSession
        /\ kind[t] = "loop" /\ SameTasks
        /\ UNCHANGED <<phase, active, dual, flagVars, push>>
        /\ authority' # authority => pc[t] \in InSession
    BY <1>2 DEF Subscribe, Message, Emitted, Flushed, Retry
  <2>2. SilentStart'
    BY <1>0, <2>1 DEF SilentStart, TaskInv, StartIsEmpty
  <2>3. FlagsFollowSelection' /\ SessionIsConnected'
    BY <1>0, <2>1 DEF FlagsFollowSelection, SessionIsConnected
  <2>4. AuthorityNeedsConnection'
    BY <1>0, <2>1 DEF AuthorityNeedsConnection, SessionIsConnected
  <2>5. PushFollowsSource'
    BY <1>0, <2>1 DEF PushFollowsSource
  <2> QED
    BY <2>2, <2>3, <2>4, <2>5
<1>3. CASE PollOk(t)
  <2> USE <1>0, <1>3 DEF PollOk
  <2>1. SilentStart'
    BY DEF SilentStart, TaskInv, StartIsEmpty
  <2>2. FlagsFollowSelection' /\ SessionIsConnected' /\ AuthorityNeedsConnection'
    BY DEF FlagsFollowSelection, SessionIsConnected, AuthorityNeedsConnection
  <2>3. Runs(t, "poller")' /\ pc'[t] = "emitting" /\ (push' # "none" => push' = "igw")
    OBVIOUS
  <2>4. PushFollowsSource'
    BY <2>3 DEF PushFollowsSource
  <2> QED
    BY <2>1, <2>2, <2>4
<1>4. CASE PollFail(t)
  BY <1>0, <1>4 DEF PollFail, SilentStart, FlagsFollowSelection, SessionIsConnected,
     AuthorityNeedsConnection, PushFollowsSource
<1>5. CASE PollPause(t) \/ PollAgain(t)
  BY <1>0, <1>5 DEF PollPause, PollAgain, SilentStart, FlagsFollowSelection, SessionIsConnected,
     AuthorityNeedsConnection, PushFollowsSource
<1> QED
  BY <1>1, <1>2, <1>3, <1>4, <1>5 DEF PollerStep

\* A step that only retires, ends a session or marks time keeps it too.
LEMMA RetireKeepsLive ==
  ASSUME TypeOK, TaskInv, LiveInv, NEW v, Retire(v), phase' # "starting", phase # "stopped" => phase' # "stopped",
         phase = "stopped" => phase' = "stopped",
         UNCHANGED <<active, dual, flagVars, authority>>
  PROVE  LiveInv'
  BY DEF TypeOK, LiveInv, Retire, flagVars, SilentStart, FlagsFollowSelection, SessionIsConnected,
     AuthorityNeedsConnection, PushFollowsSource

\* A task of a retired source that moves on publishes nothing.
LEMMA MoveKeepsLive ==
  ASSUME TypeOK, TaskInv, LiveInv, NEW t \in Tid, NEW p, NEW k, Move(t, p, k), ~current[t],
         UNCHANGED <<flagVars, authority, push>>
  PROVE  LiveInv'
<1> USE DEF TypeOK, LiveInv, Move, MoveTo, SameTasks, flagVars, lifeVars, Runs
<1>1. SilentStart' /\ FlagsFollowSelection' /\ AuthorityNeedsConnection'
  BY DEF SilentStart, FlagsFollowSelection, AuthorityNeedsConnection
<1>2. SessionIsConnected'
  BY DEF SessionIsConnected
<1>3. PushFollowsSource'
  BY DEF PushFollowsSource
<1> QED
  BY <1>1, <1>2, <1>3

\* A loop that joins its keepalive is in no session.
LEMMA JoinKeepsLive ==
  ASSUME TypeOK, LiveInv, NEW t \in Tid, Joined(t) \/ KeepaliveEnds(t), KeepaliveOwned
  PROVE  LiveInv'
<1> USE DEF TypeOK, LiveInv, Goto, MoveTo, KeepSource, SameTasks, flagVars, lifeVars, Runs
<1>0. /\ UNCHANGED <<phase, active, flagVars, authority, push, kind, current, cancelled>>
      /\ Joining(t) /\ pc' \in [Tid -> Pcs]
      /\ \A u \in Tid : pc'[u] # pc[u] => u = t /\ pc'[u] \in {"backoff", "done"}
      /\ current[t] /\ ~cancelled[t] => ~Done(t)'
  <2>1. CASE Joined(t)
    <3>1. current[t] => Goto(t, "backoff") \/ cancelled[t]
      BY <2>1, Zenon DEF Joined
    <3>2. Goto(t, "backoff") \/ Goto(t, "done")
      BY <2>1, Zenon DEF Joined
    <3>3. pc' = [pc EXCEPT ![t] = "backoff"] \/ pc' = [pc EXCEPT ![t] = "done"]
      BY <3>2
    <3> QED
      BY <2>1, <3>1, <3>3 DEF Joined
  <2>2. CASE KeepaliveEnds(t)
    BY <2>2 DEF KeepaliveEnds, KeepaliveOwned, Carries
  <2> QED
    BY <2>1, <2>2
<1>1. SilentStart' /\ FlagsFollowSelection' /\ AuthorityNeedsConnection'
  BY <1>0 DEF SilentStart, FlagsFollowSelection, AuthorityNeedsConnection
<1>2. SessionIsConnected'
  BY <1>0 DEF SessionIsConnected
<1>3. PushFollowsSource'
  BY <1>0 DEF PushFollowsSource
<1> QED
  BY <1>1, <1>2, <1>3

\* A lost session takes its flag, state and push with it.
LEMMA FinishKeepsLive ==
  ASSUME TypeOK, TaskInv, LiveInv, NEW t \in Tid, current[t], kind[t] = "loop", FinishSession,
         Goto(t, "flushing"), SameTasks, UNCHANGED <<lifeVars, active, dual, gatewayConnected>>
  PROVE  LiveInv'
<1> USE DEF TypeOK, LiveInv, FinishSession, Goto, MoveTo, SameTasks, lifeVars, Runs
<1>0. active = "mqtt" /\ (\A u \in Tid : current[u] => u = t)
  BY CurrentSelected
<1>1. SilentStart' /\ FlagsFollowSelection' /\ AuthorityNeedsConnection'
  BY DEF SilentStart, FlagsFollowSelection, AuthorityNeedsConnection
<1>2. SessionIsConnected'
  BY <1>0 DEF SessionIsConnected
<1>3. PushFollowsSource'
  BY <1>0 DEF PushFollowsSource, FlagsFollowSelection
<1> QED
  BY <1>1, <1>2, <1>3

\* A source that starts is unconnected.
LEMMA SelectionKeepsLive ==
  ASSUME TypeOK, TaskInv, LiveInv, SelectSource \/ \E t \in Tid : CompleteSwitch(t)
  PROVE  LiveInv'
<1> USE DEF TypeOK, LiveInv, lifeVars, flagVars, taskVars
<1>1. CASE SelectSource
  <2> USE <1>1 DEF SelectSource
  <2>1. ~mqttConnected /\ ~gatewayConnected /\ push = "none" /\ ~authority
          /\ (\A t \in Tid : ~current[t])
    BY DEF TaskInv, StartIsEmpty, SilentStart, FlagsFollowSelection, CurrentIsListed
  <2>2. (\A t \in Tid : current'[t] => pc'[t] \in {"connecting", "fetching"}) /\ ~authority'
    <3>1. CASE active' = "none"
      BY <2>1, <3>1
    <3>2. CASE active' # "none"
      <4>1. PICK t \in Free : \E m \in Free \ {t} :
              StartTasks(active', t, IF dual' THEN {m} ELSE {}, {})
        BY <3>2 DEF First
      <4>2. PICK m \in Free \ {t} : StartTasks(active', t, IF dual' THEN {m} ELSE {}, {})
        BY <4>1
      <4>3. active' \in Source /\ t \in Tid
        BY <3>2 DEF StartupSource, Free
      <4> QED
        BY <4>2, <4>3, StartIsFresh
    <3> QED
      BY <3>1, <3>2
  <2>3. phase' = "running" /\ push' = push /\ UNCHANGED flagVars
    OBVIOUS
  <2> HIDE DEF SelectSource
  <2> QED
    BY <2>1, <2>2, <2>3 DEF SilentStart, FlagsFollowSelection, SessionIsConnected,
       AuthorityNeedsConnection, PushFollowsSource
<1>2. ASSUME NEW t \in Tid, CompleteSwitch(t) PROVE LiveInv'
  <2>1. push = "none" /\ push' = push /\ phase' = phase /\ phase # "starting"
    BY <1>2, SwitchIsSilent DEF CompleteSwitch, TaskInv, StartIsEmpty
  <2>2. ~mqttConnected' /\ ~gatewayConnected'
    BY <1>2 DEF CompleteSwitch, ClearFlags
  <2>3. PICK n \in Tid : \E m \in Tid : StartTasks(Target(t), n, {m}, {t})
    BY <1>2 DEF CompleteSwitch, Free, First
  <2>4. (\A u \in Tid : current'[u] => pc'[u] \in {"connecting", "fetching"}) /\ ~authority'
    BY <2>3, StartIsFresh DEF Target
  <2> QED
    BY <2>1, <2>2, <2>4 DEF SilentStart, FlagsFollowSelection, SessionIsConnected,
       AuthorityNeedsConnection, PushFollowsSource
<1> QED
  BY <1>1, <1>2

-----------------------------------------------------------------------------
(* Types.                                                                  *)

\* Starting a source keeps the types.
LEMMA StartKeepsTypes ==
  ASSUME TypeOK, NEW s \in Source, NEW n \in Tid, NEW ms \in SUBSET Tid, NEW leaving,
         StartTasks(s, n, ms, leaving)
  PROVE  /\ kind' \in [Tid -> Kinds] /\ pc' \in [Tid -> Pcs]
         /\ current' \in [Tid -> BOOLEAN] /\ cancelled' \in [Tid -> BOOLEAN]
         /\ keepalive' \in [Tid -> {"none", "running", "cancelled"}]
         /\ gathering' \in [Tid -> SUBSET Tid] /\ mqttTasks' \in SUBSET Tid
         /\ authority' \in BOOLEAN
  BY DEF TypeOK, StartTasks, Listed, FirstPc, MonitorOf

\* So do the finally of a loop and a join.
LEMMA LeaveKeepsTypes ==
  ASSUME TypeOK, NEW t \in Tid, NEW p \in Pcs, NEW q \in Pcs, Leave(t, p) \/ Goto(t, p) \/ Goto(t, q)
  PROVE  pc' \in [Tid -> Pcs] /\ keepalive' \in [Tid -> {"none", "running", "cancelled"}]
<1> USE DEF TypeOK, Goto, MoveTo
<1>1. Leave(t, p) => Goto(t, p) \/ MoveTo(t, "joining", "cancelled")
  BY Zenon DEF Leave
<1>2. CASE Goto(t, p) \/ Goto(t, q)
  BY <1>2
<1>3. CASE MoveTo(t, "joining", "cancelled")
  BY <1>3
<1> QED
  BY <1>1, <1>2, <1>3

\* Every step keeps the types.
LEMMA TypeStep == ASSUME TypeOK, Next PROVE TypeOK'
<1> USE DEF TypeOK, lifeVars, flagVars, taskVars, envVars, Goto, MoveTo, SameTasks, KeepSource, PushTo
<1>1. CASE SelectSource
  <2>1. CASE active' = "none"
    BY <1>1, <2>1 DEF SelectSource
  <2>2. CASE active' # "none"
    <3>1. PICK t \in Free : \E m \in Free \ {t} :
            StartTasks(active', t, IF dual' THEN {m} ELSE {}, {})
      BY <1>1, <2>2 DEF SelectSource, First
    <3>2. PICK m \in Free \ {t} : StartTasks(active', t, IF dual' THEN {m} ELSE {}, {})
      BY <3>1
    <3>3. active' \in Source /\ t \in Tid /\ (IF dual' THEN {m} ELSE {}) \in SUBSET Tid
      BY <1>1, <2>2, <3>2 DEF SelectSource, StartupSource, Free
    <3> QED
      BY <1>1, <3>2, <3>3, StartKeepsTypes DEF SelectSource
  <2> QED
    BY <2>1, <2>2
<1>2. ASSUME NEW t \in Tid, CompleteSwitch(t) PROVE TypeOK'
  <2>1. PICK n \in Free : \E m \in Free \ {n} : StartTasks(Target(t), n, {m}, {t})
    BY <1>2 DEF CompleteSwitch, First
  <2>2. PICK m \in Free \ {n} : StartTasks(Target(t), n, {m}, {t})
    BY <2>1
  <2>3. Target(t) \in Source /\ n \in Tid /\ {m} \in SUBSET Tid
    BY <2>2 DEF Target, Free
  <2> QED
    BY <1>2, <2>2, <2>3, StartKeepsTypes DEF CompleteSwitch, ClearFlags
<1>3. ASSUME NEW t \in Tid, BeginSwitch(t) PROVE TypeOK'
  BY <1>3 DEF BeginSwitch, Retire, Victims
<1>4. ASSUME NEW t \in Tid, LoopStep(t) PROVE TypeOK'
  <2>1. CASE Connect(t)
    BY <2>1 DEF Connect
  <2>2. CASE Subscribe(t)
    BY <2>2 DEF Subscribe
  <2>3. CASE Message(t)
    BY <2>3 DEF Message
  <2>4. CASE Emitted(t)
    BY <2>4 DEF Emitted
  <2>5. CASE LoseSession(t)
    <3>1. CASE BeginSwitch(t)
      BY <1>3, <3>1
    <3>2. CASE ~BeginSwitch(t)
      <4>1. \/ Leave(t, "done") /\ KeepSource /\ SameTasks
            \/ /\ FinishSession /\ Goto(t, "flushing")
               /\ UNCHANGED <<lifeVars, active, dual, gatewayConnected, envVars>> /\ SameTasks
        BY <2>5, <3>2, Zenon DEF LoseSession, HandleFailure
      <4>2. CASE Leave(t, "done") /\ KeepSource /\ SameTasks
        <5>1. pc' \in [Tid -> Pcs] /\ keepalive' \in [Tid -> {"none", "running", "cancelled"}]
          BY <4>2, LeaveKeepsTypes
        <5> QED
          BY <4>2, <5>1
      <4>3. CASE /\ FinishSession /\ Goto(t, "flushing")
                 /\ UNCHANGED <<lifeVars, active, dual, gatewayConnected, envVars>> /\ SameTasks
        <5>1. pc' \in [Tid -> Pcs] /\ keepalive' \in [Tid -> {"none", "running", "cancelled"}]
          BY <4>3, LeaveKeepsTypes
        <5>2. push' \in Source \union {"none"}
          BY <4>3 DEF FinishSession
        <5>3. /\ UNCHANGED <<phase, configured, shutdownGather, switchAtShutdown, active, dual, gatewayConnected>>
              /\ UNCHANGED <<brokerUp, igwUp, mqttTasks, kind, current, cancelled, gathering>>
              /\ mqttConnected' = FALSE /\ authority' = FALSE
          BY <4>3 DEF FinishSession
        <5> QED
          BY <5>1, <5>2, <5>3
      <4> QED
        BY <4>1, <4>2, <4>3
    <3> QED
      BY <3>1, <3>2
  <2>6. CASE Flushed(t)
    <3>1. pc' \in [Tid -> Pcs] /\ keepalive' \in [Tid -> {"none", "running", "cancelled"}]
      BY <2>6, LeaveKeepsTypes DEF Flushed
    <3> QED
      BY <2>6, <3>1 DEF Flushed
  <2>7. CASE Retry(t)
    BY <2>7 DEF Retry
  <2> QED
    BY <1>4, <2>1, <2>2, <2>3, <2>4, <2>5, <2>6, <2>7 DEF LoopStep
<1>5. ASSUME NEW t \in Tid, PollerStep(t) PROVE TypeOK'
  <2>1. CASE PollOk(t)
    BY <2>1 DEF PollOk
  <2>2. CASE PollFail(t)
    <3>1. pc' \in [Tid -> Pcs] /\ keepalive' \in [Tid -> {"none", "running", "cancelled"}]
      BY <2>2, LeaveKeepsTypes DEF PollFail
    <3>2. authority' \in BOOLEAN /\ push' \in Source \union {"none"}
      BY <2>2 DEF PollFail
    <3> QED
      BY <2>2, <3>1, <3>2 DEF PollFail
  <2>3. CASE PollPause(t)
    BY <2>3 DEF PollPause
  <2>4. CASE PollAgain(t)
    BY <2>4 DEF PollAgain
  <2> QED
    BY <1>5, <2>1, <2>2, <2>3, <2>4 DEF PollerStep
<1>6. ASSUME NEW t \in Tid, Exit(t) \/ Joined(t) \/ KeepaliveEnds(t) \/ LeaveStep(t) PROVE TypeOK'
  <2>1. CASE Exit(t)
    <3>1. pc' \in [Tid -> Pcs] /\ keepalive' \in [Tid -> {"none", "running", "cancelled"}]
      BY <2>1, LeaveKeepsTypes DEF Exit
    <3> QED
      BY <2>1, <3>1 DEF Exit
  <2>5. CASE Joined(t)
    <3>1. pc' \in [Tid -> Pcs] /\ keepalive' \in [Tid -> {"none", "running", "cancelled"}]
      <4>1. Goto(t, "backoff") \/ Goto(t, "done")
        BY <2>5, Zenon DEF Joined
      <4> QED
        BY <4>1, LeaveKeepsTypes
    <3> QED
      BY <2>5, <3>1 DEF Joined
  <2>6. CASE KeepaliveEnds(t)
    BY <2>6 DEF KeepaliveEnds
  <2>2. CASE WatchdogFires(t)
    <3>1. CASE BeginSwitch(t)
      BY <1>3, <3>1
    <3>2. CASE ~BeginSwitch(t)
      <4>1. Goto(t, "done") /\ KeepSource /\ SameTasks
        BY <2>2, <3>2, Zenon DEF WatchdogFires
      <4> QED
        BY <4>1
    <3> QED
      BY <3>1, <3>2
  <2>3. CASE RecoveryWakes(t)
    BY <2>3 DEF RecoveryWakes
  <2>4. CASE RecoveryProbes(t)
    <3>1. CASE BeginSwitch(t)
      BY <1>3, <3>1
    <3>2. CASE ~BeginSwitch(t)
      <4>1. (Goto(t, "sleeping") \/ Goto(t, "done")) /\ KeepSource /\ SameTasks
        BY <2>4, <3>2, Zenon DEF RecoveryProbes
      <4> QED
        BY <4>1
    <3> QED
      BY <3>1, <3>2
  <2> QED
    BY <1>6, <2>1, <2>2, <2>3, <2>4, <2>5, <2>6 DEF LeaveStep
<1>7. CASE AuthorityExpires \/ ShutdownBegins \/ ShutdownEnds \/ Environment
  <2>1. CASE AuthorityExpires
    <3>1. /\ UNCHANGED <<phase, configured, active, dual, mqttConnected, gatewayConnected, push, mqttTasks>>
          /\ UNCHANGED <<shutdownGather, switchAtShutdown, brokerUp, igwUp, gathering>>
          /\ UNCHANGED <<kind, pc, current, cancelled, keepalive>> /\ authority' = FALSE
      BY <2>1 DEF AuthorityExpires
    <3>2. /\ kind' \in [Tid -> Kinds] /\ pc' \in [Tid -> Pcs]
          /\ keepalive' \in [Tid -> {"none", "running", "cancelled"}]
          /\ current' \in [Tid -> BOOLEAN] /\ cancelled' \in [Tid -> BOOLEAN]
          /\ gathering' \in [Tid -> SUBSET Tid]
      BY <3>1
    <3>3. /\ phase' \in {"starting", "running", "stopping", "stopped"} /\ configured' \in SUBSET Source
          /\ active' \in Source \union {"none"} /\ push' \in Source \union {"none"} /\ dual' \in BOOLEAN
          /\ mqttConnected' \in BOOLEAN /\ gatewayConnected' \in BOOLEAN /\ authority' \in BOOLEAN
          /\ mqttTasks' \in SUBSET Tid /\ shutdownGather' \in SUBSET Tid
          /\ switchAtShutdown' \in BOOLEAN /\ brokerUp' \in BOOLEAN /\ igwUp' \in BOOLEAN
      BY <3>1
    <3> QED
      BY <3>2, <3>3, Zenon
  <2>2. CASE ShutdownBegins
    BY <2>2 DEF ShutdownBegins, Retire, ShutdownVictims
  <2>3. CASE ShutdownEnds
    BY <2>3 DEF ShutdownEnds
  <2>4. CASE Environment
    <3>1. brokerUp' \in BOOLEAN /\ igwUp' \in BOOLEAN
      BY <2>4 DEF Environment
    <3> QED
      BY <2>4, <3>1 DEF Environment
  <2> QED
    BY <1>7, <2>1, <2>2, <2>3, <2>4
<1> QED
  BY <1>1, <1>2, <1>4, <1>5, <1>6, <1>7 DEF Next, TaskStep, SwitchStep

-----------------------------------------------------------------------------
(* Every step of the specification has one of the shapes above.            *)

\* The steps that pass no message on: a task ends, waits or begins a switch.
LEMMA QuietTaskStep ==
  ASSUME TypeOK, TaskInv, LiveInv, NEW t \in Tid,
         LoseSession(t) \/ Exit(t) \/ LeaveStep(t)
  PROVE  \/ MayLeave(t) /\ BeginSwitch(t)
         \/ \E p, k : Move(t, p, k) /\ ~current[t] /\ UNCHANGED <<flagVars, authority, push>>
         \/ /\ current[t] /\ kind[t] = "loop" /\ FinishSession /\ Move(t, "flushing", keepalive[t])
            /\ UNCHANGED <<gatewayConnected, envVars>>
<1> USE DEF TypeOK, KeepSource, Goto, MayLeave, At, Runs, lifeVars
<1>0. /\ current[t] => kind[t] \in Transport /\ ~cancelled[t]
      /\ ~Done(t) /\ kind[t] \notin Transport => dual
      /\ Carries(t, pc[t], keepalive[t])
  BY DEF TaskInv, CurrentIsListed, SwitchIsDual, KeepaliveOwned
<1>6. ASSUME Leave(t, "done"), KeepSource, SameTasks, ~current[t], ~Done(t), ~Switching(t), ~Joining(t)
      PROVE  \E p, k : Move(t, p, k) /\ ~current[t] /\ UNCHANGED <<flagVars, authority, push>>
  <2>1. CASE keepalive[t] = "none"
    <3>1. Move(t, "done", "none")
      BY <1>6, <2>1 DEF Leave, Move, Carries
    <3> QED
      BY <1>6, <3>1
  <2>2. CASE keepalive[t] # "none"
    <3>1. Move(t, "joining", "cancelled")
      BY <1>0, <1>6, <2>2 DEF Leave, Move, Carries
    <3> QED
      BY <1>6, <3>1
  <2> QED
    BY <2>1, <2>2
<1>7. ASSUME NEW p \in {"done", "sleeping", "probing"}, Goto(t, p), KeepSource, SameTasks, ~current[t],
             pc[t] \in {"sleeping", "probing"}
      PROVE  \E q, k : Move(t, q, k) /\ ~current[t] /\ UNCHANGED <<flagVars, authority, push>>
  <2>1. Move(t, p, keepalive[t])
    BY <1>0, <1>7 DEF Move, Carries
  <2> QED
    BY <1>7, <2>1
<1>1. CASE Exit(t)
  <2>1. ~current[t]
    BY <1>0, <1>1 DEF Exit
  <2> QED
    BY <1>1, <1>6, <2>1 DEF Exit
<1>2. CASE LoseSession(t)
  <2>0. ~Done(t) /\ ~Switching(t) /\ ~Joining(t)
    BY <1>2 DEF LoseSession
  <2>1. CASE ~current[t]
    <3>1. Leave(t, "done") /\ KeepSource /\ SameTasks
      BY <1>2, <2>1, Zenon DEF LoseSession, HandleFailure
    <3> QED
      BY <1>6, <2>0, <2>1, <3>1
  <2>2. CASE current[t] /\ dual
    <3>1. BeginSwitch(t)
      BY <1>2, <2>2, Zenon DEF LoseSession, HandleFailure
    <3> QED
      BY <2>0, <2>2, <3>1
  <2>3. CASE current[t] /\ ~dual
    <3>1. /\ FinishSession /\ Goto(t, "flushing") /\ SameTasks
          /\ UNCHANGED <<lifeVars, active, dual, gatewayConnected, envVars>>
      BY <1>2, <2>3, Zenon DEF LoseSession, HandleFailure
    <3>2. kind[t] = "loop" /\ pc[t] \in InSession \union {"connecting"}
      BY <1>2 DEF LoseSession
    <3>3. Move(t, "flushing", keepalive[t])
      BY <1>0, <2>0, <3>1, <3>2 DEF Move, Carries
    <3> QED
      BY <2>3, <3>1, <3>2, <3>3
  <2> QED
    BY <2>1, <2>2, <2>3
<1>3. CASE WatchdogFires(t)
  BY <1>0, <1>3, <1>7 DEF WatchdogFires
<1>4. CASE RecoveryWakes(t)
  BY <1>0, <1>4, <1>7 DEF RecoveryWakes
<1>5. CASE RecoveryProbes(t)
  BY <1>0, <1>5, <1>7 DEF RecoveryProbes
<1> QED
  BY <1>1, <1>2, <1>3, <1>4, <1>5 DEF LeaveStep

\* A loop joins its cancelled keepalive, which ends.
LEMMA JoinStep ==
  ASSUME TypeOK, TaskInv, NEW t \in Tid, Joined(t) \/ KeepaliveEnds(t)
  PROVE  (\E p, k : Move(t, p, k)) /\ KeepSource /\ SameTasks
<1> USE DEF TypeOK, KeepSource, Goto, MoveTo, lifeVars
<1>0. /\ Carries(t, pc[t], keepalive[t])
      /\ current[t] => ~cancelled[t]
  BY DEF TaskInv, KeepaliveOwned, CurrentIsListed
<1>1. CASE Joined(t)
  <2>1. CASE current[t]
    <3>1. Move(t, "backoff", "none")
      BY <1>0, <1>1, <2>1 DEF Joined, Move, Carries
    <3> QED
      BY <1>1, <3>1 DEF Joined
  <2>2. CASE ~current[t]
    <3>1. Move(t, "done", "none")
      BY <1>0, <1>1, <2>2 DEF Joined, Move, Carries
    <3> QED
      BY <1>1, <3>1 DEF Joined
  <2> QED
    BY <2>1, <2>2
<1>2. CASE KeepaliveEnds(t)
  <2>1. Joining(t) /\ pc' = [pc EXCEPT ![t] = "joining"]
    BY <1>0, <1>2 DEF KeepaliveEnds, Carries
  <2>2. Move(t, "joining", "none")
    BY <1>0, <1>2, <2>1 DEF KeepaliveEnds, Move, Carries
  <2> QED
    BY <1>2, <2>2 DEF KeepaliveEnds
<1> QED
  BY <1>1, <1>2

\* The steps that publish move their own task along.
LEMMA PublishingStep ==
  ASSUME TypeOK, TaskInv, NEW t \in Tid,
         Connect(t) \/ Subscribe(t) \/ Message(t) \/ Emitted(t) \/ Flushed(t) \/ Retry(t) \/ PollerStep(t)
  PROVE  \E p, k : Move(t, p, k)
<1> USE DEF TypeOK, Goto, KeepSource, At, Runs, lifeVars
<1>0. Carries(t, pc[t], keepalive[t])
  BY DEF TaskInv, KeepaliveOwned
<1>1. CASE Subscribe(t)
  <2>1. Move(t, "consuming", "running")
    BY <1>0, <1>1 DEF Subscribe, Move, Carries
  <2> QED
    BY <2>1
<1>2. CASE Flushed(t)
  <2>1. Move(t, "backoff", "none") \/ Move(t, "joining", "cancelled")
    BY <1>0, <1>2 DEF Flushed, Leave, Move, Carries
  <2> QED
    BY <2>1
<1>3. CASE Connect(t) \/ Retry(t)
  <2>1. Move(t, "subscribing", keepalive[t]) \/ Move(t, "connecting", keepalive[t])
    BY <1>0, <1>3 DEF Connect, Retry, Move, Carries
  <2> QED
    BY <2>1
<1>4. CASE Message(t) \/ Emitted(t)
  <2>1. Move(t, "emitting", keepalive[t]) \/ Move(t, "consuming", keepalive[t])
    BY <1>0, <1>4 DEF Message, Emitted, Move, Carries
  <2> QED
    BY <2>1
<1>5. CASE PollerStep(t)
  <2>1. \E p \in {"emitting", "sleeping", "fetching"} : Move(t, p, keepalive[t])
    BY <1>0, <1>5 DEF PollerStep, PollOk, PollFail, PollPause, PollAgain, Move, Carries
  <2> QED
    BY <2>1
<1> QED
  BY <1>1, <1>2, <1>3, <1>4, <1>5

\* Every step keeps the inductive invariant.
LEMMA IInvStep == ASSUME IInv, Next PROVE IInv'
<1> USE DEF IInv
<1>1. TypeOK'
  BY TypeStep
<1>2. CASE SelectSource
  BY <1>1, <1>2, SelectKeepsTasks, SelectionKeepsLive
<1>3. ASSUME NEW t \in Tid, CompleteSwitch(t) PROVE IInv'
  BY <1>1, <1>3, CompleteKeepsTasks, SelectionKeepsLive
<1>4. ASSUME NEW t \in Tid,
             Connect(t) \/ Subscribe(t) \/ Message(t) \/ Emitted(t) \/ Flushed(t) \/ Retry(t) \/ PollerStep(t)
      PROVE  IInv'
  BY <1>1, <1>4, PublishingStep, MoveKeepsTasks, TransportKeepsLive
<1>5. ASSUME NEW t \in Tid, LoseSession(t) \/ Exit(t) \/ LeaveStep(t) PROVE IInv'
  <2>1. CASE MayLeave(t) /\ BeginSwitch(t)
    <3>1. TaskInv'
      BY <2>1, BeginSwitchKeepsTasks
    <3>2. Retire(Victims(t)) /\ phase' = phase /\ phase # "starting"
            /\ UNCHANGED <<active, dual, flagVars, authority>>
      BY <2>1 DEF BeginSwitch, MayLeave, lifeVars, TaskInv, StartIsEmpty
    <3> QED
      BY <1>1, <3>1, <3>2, RetireKeepsLive
  <2>2. CASE \E p, k : Move(t, p, k) /\ ~current[t] /\ UNCHANGED <<flagVars, authority, push>>
    BY <1>1, <2>2, MoveKeepsTasks, MoveKeepsLive
  <2>3. CASE /\ current[t] /\ kind[t] = "loop" /\ FinishSession /\ Move(t, "flushing", keepalive[t])
             /\ UNCHANGED <<gatewayConnected, envVars>>
    BY <1>1, <2>3, MoveKeepsTasks, FinishKeepsLive DEF Move, Goto
  <2> QED
    BY <1>5, <2>1, <2>2, <2>3, QuietTaskStep
<1>9. ASSUME NEW t \in Tid, Joined(t) \/ KeepaliveEnds(t) PROVE IInv'
  <2>1. TaskInv'
    BY <1>9, JoinStep, MoveKeepsTasks
  <2>2. LiveInv'
    BY <1>9, JoinKeepsLive DEF TaskInv
  <2> QED
    BY <1>1, <2>1, <2>2
<1>6. CASE AuthorityExpires \/ Environment
  <2>1. UNCHANGED taskVars /\ UNCHANGED <<lifeVars, active, dual, flagVars, push>>
          /\ (authority' => authority)
    BY <1>6 DEF AuthorityExpires, Environment
  <2>2. TaskInv'
    BY <2>1, IdleKeepsTasks
  <2>3. LiveInv'
    BY <2>1 DEF LiveInv, taskVars, lifeVars, flagVars, SilentStart, FlagsFollowSelection, Runs,
       SessionIsConnected, AuthorityNeedsConnection, PushFollowsSource
  <2> QED
    BY <1>1, <2>2, <2>3
<1>7. CASE ShutdownBegins
  <2>1. Retire(ShutdownVictims) /\ phase = "running" /\ phase' = "stopping"
          /\ UNCHANGED <<active, dual, flagVars, authority>>
    BY <1>7 DEF ShutdownBegins
  <2> QED
    BY <1>1, <1>7, <2>1, ShutdownKeepsTasks, RetireKeepsLive
<1>8. CASE ShutdownEnds
  <2>1. LiveInv'
    BY <1>8 DEF ShutdownEnds, LiveInv, TypeOK, taskVars, SilentStart, FlagsFollowSelection, Runs,
       SessionIsConnected, AuthorityNeedsConnection, PushFollowsSource
  <2> QED
    BY <1>1, <1>8, <2>1, ShutdownKeepsTasks
<1> QED
  BY <1>2, <1>3, <1>4, <1>5, <1>6, <1>7, <1>8, <1>9
     DEF Next, TaskStep, LoopStep, SwitchStep

\* The inductive invariant holds initially.
LEMMA IInvInit == Init => IInv
<1> SUFFICES ASSUME Init PROVE IInv
  OBVIOUS
<1> USE DEF Init
<1>1. TypeOK
  BY DEF TypeOK
<1>2. KeepaliveOwned
  BY DEF KeepaliveOwned, Carries
<1>3. TaskInv
  BY <1>2 DEF TaskInv, StartIsEmpty, OneSwitch, NoTaskLeaks, CurrentIsListed, UnlistedIsCancelled,
     GatherExcludesSwitch, ExclusiveTransports, QuietShutdown, SwitchIsDual
<1>4. LiveInv
  BY DEF LiveInv, SilentStart, FlagsFollowSelection, SessionIsConnected, AuthorityNeedsConnection,
     PushFollowsSource
<1> QED
  BY <1>1, <1>3, <1>4 DEF IInv

\* The inductive invariant survives stuttering.
LEMMA IInvStutter == ASSUME IInv, UNCHANGED vars PROVE IInv'
<1> USE DEF IInv, vars
<1>1. TypeOK'
  BY DEF TypeOK
<1>2. TaskInv'
  BY IdleKeepsTasks DEF taskVars, lifeVars
<1>3. LiveInv'
  BY DEF LiveInv, SilentStart, FlagsFollowSelection, SessionIsConnected, AuthorityNeedsConnection,
     PushFollowsSource, Runs
<1> QED
  BY <1>1, <1>2, <1>3

\* The inductive invariant holds in every reachable state.
THEOREM Invariance == Spec => []IInv
<1>1. IInv /\ [Next]_vars => IInv'
  BY IInvStep, IInvStutter
<1> QED
  BY IInvInit, <1>1, PTL DEF Spec

-----------------------------------------------------------------------------
(* The properties of SourceSelection.                                      *)

\* Every variable keeps its type.
THEOREM TypeCorrect == Spec => []TypeOK
  BY Invariance, PTL DEF IInv

\* An MQTT session and a gateway poller are never alive together.
THEOREM Exclusive == Spec => []ExclusiveTransports
<1>1. IInv => ExclusiveTransports
  BY DEF IInv, TaskInv
<1> QED
  BY <1>1, Invariance, PTL

\* Only one task replaces the source, and it does so with an empty task list.
THEOREM SingleSwitch == Spec => []OneSwitch
<1>1. IInv => OneSwitch
  BY DEF IInv, TaskInv
<1> QED
  BY <1>1, Invariance, PTL

\* The connected flags tell the selected transport, controller state is live
\* only while it is connected, and push is bound to it.
THEOREM PublishedStateIsCurrent ==
  Spec => []LiveStateIsSelected
<1>1. IInv => LiveStateIsSelected
  BY DEF IInv, LiveInv, LiveStateIsSelected
<1> QED
  BY <1>1, Invariance, PTL

\* Every task that may still run can be reached by the next switch or by a shutdown.
THEOREM TasksAreReached == Spec => []NoTaskLeaks
<1>1. IInv => NoTaskLeaks
  BY DEF IInv, TaskInv
<1> QED
  BY <1>1, Invariance, PTL

\* A shutdown that met no switch in progress leaves no task that may still run.
THEOREM ShutdownIsComplete == Spec => []ShutdownStopsTasks
<1>1. IInv => ShutdownStopsTasks
  BY DEF IInv, TaskInv, NoTaskLeaks, QuietShutdown, ShutdownStopsTasks
<1> QED
  BY <1>1, Invariance, PTL

\* From retirement to replacement nothing is raised, gained or connected.
THEOREM RetirementIsSilent == Spec => RetiredSourceIsSilent
<1> DEFINE Silent == SomeSwitch =>
       /\ mqttConnected' => mqttConnected
       /\ gatewayConnected' => gatewayConnected
       /\ authority' => authority
       /\ push' # "none" => push' = push
<1>1. ASSUME IInv, Next PROVE Silent
  <2> SUFFICES ASSUME SomeSwitch PROVE Silent
    OBVIOUS
  <2> USE <1>1 DEF IInv, lifeVars, flagVars, taskVars, KeepSource
  <2>1. (\A t \in Tid : ~current[t]) /\ phase # "starting"
    <3>1. \A t \in Tid : ~current[t]
      BY SwitchIsSilent
    <3>2. phase # "starting"
      BY DEF TaskInv, StartIsEmpty
    <3> QED
      BY <3>1, <3>2
  <2>2. ASSUME NEW t \in Tid, LoopStep(t) \/ PollerStep(t) PROVE Silent
    <3>1. LoseSession(t)
      BY <2>1, <2>2 DEF LoopStep, PollerStep, Connect, Subscribe, Message, Emitted, Flushed, Retry,
         PollOk, PollFail, PollPause, PollAgain, At, Runs
    <3> QED
      BY <2>1, <3>1 DEF LoseSession, HandleFailure
  <2>3. ASSUME NEW t \in Tid, CompleteSwitch(t) PROVE Silent
    BY <2>3 DEF CompleteSwitch, ClearFlags, StartTasks
  <2>4. ASSUME NEW t \in Tid, Exit(t) \/ Joined(t) \/ KeepaliveEnds(t) \/ LeaveStep(t) PROVE Silent
    BY <2>4 DEF Exit, Joined, KeepaliveEnds, LeaveStep, WatchdogFires, RecoveryWakes, RecoveryProbes, BeginSwitch, Retire
  <2>5. CASE AuthorityExpires \/ ShutdownBegins \/ ShutdownEnds \/ Environment
    BY <2>5 DEF AuthorityExpires, ShutdownBegins, ShutdownEnds, Environment, Retire
  <2>6. ~SelectSource
    BY <2>1 DEF SelectSource
  <2> HIDE DEF Silent
  <2> QED
    BY <1>1, <2>2, <2>3, <2>4, <2>5, <2>6 DEF Next, TaskStep, SwitchStep
<1>2. IInv /\ [Next]_vars => [Silent]_vars
  BY <1>1
<1> QED
  BY <1>2, Invariance, PTL DEF Spec, RetiredSourceIsSilent

-----------------------------------------------------------------------------
(* SourceSelection implements SourceContract.                              *)

\* A step that leaves the published state and every current() alone stutters.
LEMMA HiddenStep ==
  ASSUME UNCHANGED <<active, flagVars, authority, current>>
  PROVE  UNCHANGED Contract!sourceVars
  BY DEF Contract!sourceVars, flagVars, NoSource

\* Beginning a switch or the shutdown retires the source and no more.
LEMMA RetireRefines ==
  ASSUME NEW victims, Retire(victims), UNCHANGED <<active, flagVars, authority>>
  PROVE  Contract!RetireSource
<1>1. NoSource'
  BY DEF Retire, NoSource
<1> QED
  BY <1>1 DEF Contract!RetireSource, flagVars

\* The steps of a transport connect, observe or disconnect a current source.
LEMMA TransportRefines ==
  ASSUME TypeOK, TaskInv, LiveInv, NEW t \in Tid,
         Connect(t) \/ Subscribe(t) \/ Message(t) \/ Emitted(t) \/ Flushed(t) \/ Retry(t) \/ PollerStep(t)
  PROVE  Contract!SourceNext \/ UNCHANGED Contract!sourceVars
<1> USE DEF At, Runs, SameTasks
<1>0. current[t] /\ active = SourceOf(kind[t])
  <2>1. current[t]
    BY DEF Connect, Subscribe, Message, Emitted, Flushed, Retry, PollerStep, PollOk, PollFail,
       PollPause, PollAgain
  <2> QED
    BY <2>1, CurrentSelected
<1>1. ~NoSource /\ (current' = current => NoSource' = NoSource)
  BY <1>0 DEF NoSource
<1>2. CASE Connect(t)
  <2>1. active = "mqtt" /\ gatewayConnected = FALSE
    BY <1>0, <1>2 DEF Connect, LiveInv, FlagsFollowSelection, TypeOK
  <2>2. Contract!ConnectSource
    BY <1>1, <1>2, <2>1 DEF Connect, Contract!ConnectSource
  <2> QED
    BY <2>2 DEF Contract!SourceNext
<1>3. CASE Message(t)
  BY <1>1, <1>3 DEF Message, Contract!SourceNext, Contract!Observe, flagVars
<1>4. CASE PollOk(t)
  <2>1. active = "igw"
    BY <1>0, <1>4 DEF PollOk
  <2>2. Contract!ConnectSource
    BY <1>1, <1>4, <2>1 DEF PollOk, Contract!ConnectSource
  <2> QED
    BY <2>2 DEF Contract!SourceNext
<1>5. CASE PollFail(t)
  <2>1. authority' \in BOOLEAN /\ (authority' => authority)
    BY <1>5 DEF PollFail, TypeOK
  <2>2. Contract!Disconnect
    BY <1>1, <1>5, <2>1 DEF PollFail, Contract!Disconnect
  <2> QED
    BY <2>2 DEF Contract!SourceNext
<1>6. CASE Subscribe(t) \/ Emitted(t) \/ Flushed(t) \/ Retry(t) \/ PollPause(t) \/ PollAgain(t)
  <2>1. UNCHANGED <<active, flagVars, authority, current>>
    BY <1>6 DEF Subscribe, Emitted, Flushed, Retry, PollPause, PollAgain, KeepSource
  <2> QED
    BY <2>1, HiddenStep
<1> QED
  BY <1>2, <1>3, <1>4, <1>5, <1>6 DEF PollerStep

\* Selecting, failing over and recovering start a source where none is current.
LEMMA StartRefines ==
  ASSUME TypeOK, TaskInv, LiveInv,
         SelectSource \/ \E t \in Tid : CompleteSwitch(t)
  PROVE  Contract!SourceNext \/ UNCHANGED Contract!sourceVars
<1>1. ASSUME NEW s, NEW t \in Tid, NEW ms, NEW ls, StartTasks(s, t, ms, ls)
      PROVE  ~NoSource' /\ authority' = FALSE
  BY <1>1 DEF StartTasks, NoSource
<1>2. NoSource
  BY DEF SelectSource, CompleteSwitch, TaskInv, StartIsEmpty, CurrentIsListed, GatherExcludesSwitch,
     NoSource
<1>3. CASE SelectSource /\ active' = "none"
  <2>1. UNCHANGED <<active, flagVars, authority, current>>
    BY <1>3 DEF SelectSource, taskVars, TaskInv, StartIsEmpty
  <2> QED
    BY <2>1, HiddenStep
<1>4. CASE SelectSource /\ active' # "none"
  <2>1. active' \in Source
    BY <1>4, TypeStep DEF Next, TypeOK
  <2>2. ~NoSource' /\ authority' = FALSE
    <3>1. PICK t \in Free, m \in Free : StartTasks(active', t, IF dual' THEN {m} ELSE {}, {})
      BY <1>4 DEF SelectSource, First
    <3> QED
      BY <1>1, <3>1 DEF Free
  <2>3. mqttConnected' = FALSE /\ gatewayConnected' = FALSE
    BY <1>4 DEF SelectSource, TaskInv, StartIsEmpty, LiveInv, FlagsFollowSelection, flagVars, TypeOK
  <2>4. Contract!StartSource(active')
    BY <1>2, <2>2, <2>3 DEF Contract!StartSource
  <2> QED
    BY <2>1, <2>4 DEF Contract!SourceNext, Contract!Sources
<1>5. ASSUME NEW t \in Tid, CompleteSwitch(t) PROVE Contract!SourceNext
  <2>1. active' \in Source
    BY <1>5 DEF CompleteSwitch, Target
  <2>2. ~NoSource' /\ authority' = FALSE
    <3>1. PICK n \in Free, m \in Free : StartTasks(Target(t), n, {m}, {t})
      BY <1>5 DEF CompleteSwitch, First
    <3> QED
      BY <1>1, <3>1 DEF Free
  <2>3. Contract!StartSource(active')
    BY <1>2, <1>5, <2>2 DEF Contract!StartSource, CompleteSwitch, ClearFlags
  <2> QED
    BY <2>1, <2>3 DEF Contract!SourceNext, Contract!Sources
<1> QED
  BY <1>3, <1>4, <1>5

\* Every step of the detailed specification is a step of the contract.
LEMMA StepRefines ==
  ASSUME IInv, Next
  PROVE  Contract!SourceNext \/ UNCHANGED Contract!sourceVars
<1> USE DEF IInv
<1>1. CASE SelectSource \/ \E t \in Tid : CompleteSwitch(t)
  BY <1>1, StartRefines
<1>2. ASSUME NEW t \in Tid,
             Connect(t) \/ Subscribe(t) \/ Message(t) \/ Emitted(t) \/ Flushed(t) \/ Retry(t) \/ PollerStep(t)
      PROVE  Contract!SourceNext \/ UNCHANGED Contract!sourceVars
  BY <1>2, TransportRefines
<1>3. ASSUME NEW t \in Tid, LoseSession(t) \/ Exit(t) \/ LeaveStep(t)
      PROVE  Contract!SourceNext \/ UNCHANGED Contract!sourceVars
  <2>1. CASE MayLeave(t) /\ BeginSwitch(t)
    <3>1. Contract!RetireSource
      BY <2>1, RetireRefines DEF BeginSwitch
    <3> QED
      BY <3>1 DEF Contract!SourceNext
  <2>2. CASE \E p, k : Move(t, p, k) /\ ~current[t] /\ UNCHANGED <<flagVars, authority, push>>
    BY <2>2, HiddenStep DEF Move, SameTasks
  <2>3. CASE /\ current[t] /\ kind[t] = "loop" /\ FinishSession /\ Move(t, "flushing", keepalive[t])
             /\ UNCHANGED <<gatewayConnected, envVars>>
    <3>1. ~NoSource /\ NoSource' = NoSource /\ active' = active
      BY <2>3 DEF NoSource, Move, SameTasks
    <3>2. active = "mqtt" /\ gatewayConnected = FALSE
      BY <2>3, CurrentSelected DEF LiveInv, FlagsFollowSelection, TypeOK
    <3>3. Contract!Disconnect
      BY <2>3, <3>1, <3>2 DEF FinishSession, Contract!Disconnect
    <3> QED
      BY <3>3 DEF Contract!SourceNext
  <2> QED
    BY <1>3, <2>1, <2>2, <2>3, QuietTaskStep
<1>8. ASSUME NEW t \in Tid, Joined(t) \/ KeepaliveEnds(t) PROVE UNCHANGED Contract!sourceVars
  BY <1>8, HiddenStep DEF Joined, KeepaliveEnds, KeepSource, SameTasks
<1>4. CASE AuthorityExpires
  BY <1>4 DEF AuthorityExpires, Contract!SourceNext, Contract!Expire, taskVars, flagVars, NoSource
<1>5. CASE Environment
  BY <1>5, HiddenStep DEF Environment, taskVars
<1>6. CASE ShutdownBegins
  <2>1. Contract!RetireSource
    BY <1>6, RetireRefines DEF ShutdownBegins
  <2> QED
    BY <2>1 DEF Contract!SourceNext
<1>7. CASE ShutdownEnds
  BY <1>7 DEF ShutdownEnds, Contract!SourceNext, Contract!CloseSource, taskVars, NoSource
<1> QED
  BY <1>1, <1>2, <1>3, <1>4, <1>5, <1>6, <1>7, <1>8
     DEF Next, TaskStep, LoopStep, SwitchStep

\* The rest of the dashboard may rely on the contract, whatever the tasks of
\* the source do: the published state is that of a SourceContract.
THEOREM Implementation == Spec => ImplementsContract
<1>1. Init => Contract!SourceInit
  BY DEF Init, Contract!SourceInit, NoSource
<1>2. IInv /\ [Next]_vars => [Contract!SourceNext]_(Contract!sourceVars)
  <2>1. ASSUME UNCHANGED vars PROVE UNCHANGED Contract!sourceVars
    BY <2>1, HiddenStep DEF vars, flagVars
  <2> QED
    BY <2>1, StepRefines
<1> QED
  BY <1>1, <1>2, Invariance, PTL DEF Spec, ImplementsContract, Contract!SourceSpec
=============================================================================
