-------------------------- MODULE BrowserAcceptance --------------------------
(***************************************************************************)
(* The browser acceptance of a release (scripts/browser-acceptance.cjs): a   *)
(* script drives the dashboard's page of DashboardClient in a real browser   *)
(* against a fixture that stands for the backend, and writes evidence that a *)
(* release is gated on.  The script, the fixture's handlers and the page run *)
(* concurrently; the script sees the page only through what is shown.        *)
(*                                                                         *)
(* Left out: the scenarios in which only the page takes part (the settings   *)
(* dialog's focus, the mobile layout), the theme that the reload keeps,      *)
(* screenshots, traces and diagnostics.                                      *)
(***************************************************************************)
EXTENDS DashboardClient, SequencesExt

VARIABLES fixture, script

vars == <<clientVars, fixture, script>>

\* What the scenarios do, step by step.  A step is an action below.
Plan == <<
  <<"none", "inventory">>, <<"none", "load">>, <<"none", "hydrate">>,
  <<"live-telemetry", "rows">>, <<"live-telemetry", "connected">>,
  <<"telemetry-updates", "charge">>, <<"telemetry-updates", "charged">>,
  <<"theme-persists", "reload">>, <<"theme-persists", "hydrate">>,
  <<"valid-save", "save">>, <<"valid-save", "saved">>, <<"valid-save", "accepted">>,
  <<"visibility", "hide">>, <<"visibility", "stored">>, <<"visibility", "hidden">>,
  <<"visibility", "reload">>, <<"visibility", "hydrate">>, <<"visibility", "absent">>,
  <<"visibility", "show">>, <<"visibility", "shown">>,
  <<"rejected-command", "refuse">>, <<"rejected-command", "refused">>,
  <<"reconnect", "pause">>, <<"reconnect", "disconnected">>, <<"reconnect", "online">>,
  <<"reconnect", "reconnected">>, <<"reconnect", "live">>,
  <<"public-mode", "public">>, <<"public-mode", "hydrate">>, <<"public-mode", "readonly">>,
  <<"no-errors", "clean">>,
  <<"none", "evidence">> >>

Scenarios == {Plan[i][1] : i \in DOMAIN Plan} \ {"none"}
Failed    == 0
Done      == Len(Plan) + 1

AcceptanceInit ==
  /\ ClientInit
  /\ fixture = [state |-> [version |-> 1, soc |-> 73, camera |-> "none", shown |-> TRUE],
                reject |-> FALSE, paused |-> FALSE, commands |-> <<>>,
                targets |-> {}, connections |-> 0]
  /\ script \in [step : {1}, seen : {{}}, before : {0}, passed : {<<>>},
                 evidence : {"none", "earlier"},    \* what a run before left
                 recorded : BOOLEAN,                \* the files are those of the manifest
                 errors : BOOLEAN]                  \* the page logs an error somewhere

-----------------------------------------------------------------------------
(* The fixture.                                                             *)

\* A message of the server: lost when the page's end is closed.
Sent(r, messages) == IF r.end \in {"unused", "closed"} THEN r
                     ELSE [r EXCEPT !.inbox = @ \o messages]
StateMessage(state) == [kind |-> "state", state |-> state]

\* routeWebSocket: a paused fixture closes a new socket, else it is a target and gets the
\* state.  The page may have given the socket up meanwhile.
Accept(s) ==
  /\ socket[s].end # "unused" /\ ~socket[s].accepted
  /\ IF fixture.paused
     THEN /\ socket' = [socket EXCEPT ![s] = Sent([@ EXCEPT !.accepted = TRUE],
                                                  <<[kind |-> "close"]>>)]
          /\ UNCHANGED fixture
     ELSE /\ socket' = [socket EXCEPT
                 ![s] = Sent([@ EXCEPT !.accepted = TRUE],
                             <<[kind |-> "open"], StateMessage(fixture.state)>>)]
          /\ fixture' = [fixture EXCEPT !.targets = @ \cup {s}, !.connections = @ + 1]
  /\ UNCHANGED <<page, poll, slow, script>>

\* broadcast
Broadcast(state, sockets) ==
  [s \in Socket |-> IF s \in fixture.targets
                    THEN Sent(sockets[s], <<StateMessage(state)>>) ELSE sockets[s]]

Changed(field, value) ==
  [fixture.state EXCEPT !.version = @ + 1, ![field] = value]
Patched(command) ==
  IF command = "hide" THEN Changed("shown", FALSE)
  ELSE Changed("camera", command)

Heard(s, what) == socket[s].accepted /\ socket[s].outbox # <<>> /\ Head(socket[s].outbox) \in what
Consumed(s) == [socket EXCEPT ![s].outbox = Tail(@)]
Commands == {"fixture/camera", "hide", "fixture/rejected"}

\* Mutant: a saved setting is not broadcast.
SavedInSilence(s) ==
  /\ Heard(s, Commands)
  /\ LET command == Head(socket[s].outbox) IN
       /\ socket' = [Consumed(s) EXCEPT
            ![s] = Sent(@, <<[kind |-> IF fixture.reject THEN "rejected" ELSE "accepted",
                              command |-> command]>>)]
       /\ fixture' = [fixture EXCEPT !.commands = Append(@, command),
                                     !.state = IF fixture.reject THEN @ ELSE Patched(command)]
  /\ UNCHANGED <<page, poll, slow, script>>

\* onMessage: a refusal, or the acceptance, and then the changed state to all.
OnMessage(s) ==
  /\ Heard(s, Commands)
  /\ LET command == Head(socket[s].outbox)
         Answer(kind) ==
           [Consumed(s) EXCEPT ![s] = Sent(@, <<[kind |-> kind, command |-> command]>>)]
     IN  IF fixture.reject
         THEN /\ socket' = Answer("rejected")
              /\ fixture' = [fixture EXCEPT !.commands = Append(@, command)]
         ELSE /\ socket' = Broadcast(Patched(command), Answer("accepted"))
              /\ fixture' = [fixture EXCEPT !.commands = Append(@, command),
                                            !.state = Patched(command)]
  /\ UNCHANGED <<page, poll, slow, script>>

\* Mutant: the close is acknowledged and the socket stays a target.
AcknowledgeOnly(s) ==
  /\ Heard(s, {"close"})
  /\ socket' = [Consumed(s) EXCEPT ![s] = IF s \in fixture.targets
                                          THEN Sent(@, <<[kind |-> "close"]>>) ELSE @]
  /\ UNCHANGED <<page, poll, slow, script, fixture>>

\* trackMockSocket's onClose: a target is removed, then its close is acknowledged.
OnClose(s) ==
  /\ Heard(s, {"close"})
  /\ socket' = [Consumed(s) EXCEPT ![s] = IF s \in fixture.targets
                                          THEN Sent(@, <<[kind |-> "close"]>>) ELSE @]
  /\ fixture' = [fixture EXCEPT !.targets = @ \ {s}]
  /\ UNCHANGED <<page, poll, slow, script>>

\* /api/state, or /api/gateway/snapshot for a public page.
AnswerPoll ==
  /\ poll.step = "asked"
  /\ poll' = IF page.public
             THEN [step |-> "answered", native |-> TRUE,
                   state |-> [fixture.state EXCEPT !.soc = 61]]
             ELSE [step |-> "answered", native |-> ~fixture.paused, state |-> fixture.state]
  /\ UNCHANGED <<page, socket, slow, fixture, script>>

FixtureStep(s) == Accept(s) \/ OnMessage(s) \/ OnClose(s)

-----------------------------------------------------------------------------
(* The script.                                                              *)

At(step) == script.step \in DOMAIN Plan /\ Plan[script.step][2] = step

\* scenario: its name is pushed when the last of its steps has been done.
Advanced ==
  LET name == Plan[script.step][1]
      ends == name # "none" /\ Plan[script.step + 1][1] # name
  IN  [script EXCEPT !.step = @ + 1, !.seen = {}, !.passed = IF ends THEN Append(@, name) ELSE @]

\* Mutant: a failure is recorded, and the script goes on.
Notes == [Advanced EXCEPT !.passed = script.passed]

\* An assertion fails: main's catch and finally; the exit code says so.
Fails == [script EXCEPT !.step = Failed, !.seen = {}]

WaitFor(step, condition) == At(step) /\ condition /\ script' = Advanced
Asserts(step, condition)  == At(step) /\ script' = IF condition THEN Advanced ELSE Fails
Acts(step)               == At(step) /\ script' = Advanced

\* Lines 17-72: what an earlier run left is removed when the inventory is right.
Inventory ==
  /\ At("inventory")
  /\ script' = IF script.recorded THEN [Advanced EXCEPT !.evidence = "none"] ELSE Fails
  /\ UNCHANGED <<clientVars, fixture>>

\* goto and reload: a document begins, and what the one before held is given up.
Begin(public) ==
  /\ page' = Document(public)
  /\ socket' = [s \in Socket |-> GivenUp(socket[s])]
  /\ poll' = NoPoll
  /\ UNCHANGED <<slow, fixture>>

Load ==
  \/ (Acts("load") \/ Acts("reload")) /\ Begin(FALSE)
  \/ /\ At("public") /\ script' = [Advanced EXCEPT !.before = Len(fixture.commands)]
     /\ Begin(TRUE)

\* waitForHydratedDashboard: both have been seen, at one time or another.
HasView == page.view.version > 0
Seen(what) ==
  IF what = "soc" THEN HasView /\ page.view.soc = IF page.public THEN 61 ELSE fixture.state.soc
  ELSE page.public \/ page.live

Hydrate ==
  /\ At("hydrate")
  /\ \E what \in {"soc", "status"} \ script.seen :
       /\ Seen(what)
       /\ script' = IF script.seen = {} THEN [script EXCEPT !.seen = {what}] ELSE Advanced
  /\ UNCHANGED <<clientVars, fixture>>

\* The waits and assertions that only look.
Look ==
  /\ \/ WaitFor("rows", HasView)
     \/ Asserts("connected", page.live)
     \/ WaitFor("charged", HasView /\ page.view.soc = 42)
     \/ WaitFor("saved", fixture.commands # <<>> /\ Last(fixture.commands) = "fixture/camera")
     \/ WaitFor("accepted", page.message = "accepted")
     \/ WaitFor("stored", ~fixture.state.shown)
     \/ WaitFor("hidden", HasView /\ ~page.view.shown)
     \/ Asserts("absent", HasView /\ ~page.view.shown)
     \/ WaitFor("shown", HasView /\ page.view.shown)
     \/ WaitFor("reconnected", fixture.connections > script.before)
     \/ WaitFor("live", page.live)
     \/ Asserts("readonly", page.public /\ Len(fixture.commands) = script.before)
     \/ Asserts("clean", ~script.errors)
  /\ UNCHANGED <<clientVars, fixture>>

\* The script changes the fixture's state and broadcasts it.
Sets(step, field, value) ==
  /\ Acts(step)
  /\ fixture' = [fixture EXCEPT !.state = Changed(field, value)]
  /\ socket' = Broadcast(Changed(field, value), socket)
  /\ UNCHANGED <<page, poll, slow>>

\* A click: the page submits a command.
Clicks(step, command, reject) ==
  /\ Acts(step) /\ Submit(command)
  /\ fixture' = [fixture EXCEPT !.reject = reject]

Refused ==
  /\ At("refused") /\ page.message = "rejected"
  /\ script' = IF fixture.state.camera = "fixture/camera" THEN Advanced ELSE Fails
  /\ fixture' = [fixture EXCEPT !.reject = FALSE]
  /\ UNCHANGED clientVars

\* Every target is closed and forgotten.
Pause ==
  /\ Acts("pause")
  /\ fixture' = [fixture EXCEPT !.paused = TRUE, !.targets = {}]
  /\ socket' = [s \in Socket |-> IF s \in fixture.targets
                                 THEN Sent(socket[s], <<[kind |-> "close"]>>) ELSE socket[s]]
  /\ UNCHANGED <<page, poll, slow>>

Resume ==
  /\ At("disconnected") /\ ~page.live
  /\ script' = [Advanced EXCEPT !.before = fixture.connections]
  /\ fixture' = [fixture EXCEPT !.paused = FALSE]
  /\ UNCHANGED clientVars

GoOnline == Acts("online") /\ Online /\ UNCHANGED fixture

WriteEvidence ==
  /\ At("evidence") /\ script' = [Advanced EXCEPT !.evidence = "this"]
  /\ UNCHANGED <<clientVars, fixture>>

ScriptStep ==
  \/ Inventory \/ Load \/ Hydrate \/ Look \/ Refused \/ Pause \/ Resume \/ GoOnline
  \/ Sets("charge", "soc", 42) \/ Sets("show", "shown", TRUE)
  \/ Clicks("save", "fixture/camera", FALSE) \/ Clicks("hide", "hide", FALSE)
  \/ Clicks("refuse", "fixture/rejected", TRUE)
  \/ WriteEvidence

\* A command the page refused: nothing that is waited for will come.
InVain == page.message = "unavailable"

\* eventually's ten seconds, and Playwright's.
Waits == {"hydrate", "rows", "charged", "saved", "accepted", "stored", "hidden", "shown",
          "refused", "disconnected", "reconnected", "live"}
Expire ==
  /\ \E step \in Waits : At(step)
  /\ slow > 0 \/ InVain
  /\ script' = Fails
  /\ UNCHANGED <<clientVars, fixture>>

-----------------------------------------------------------------------------

\* The browser is closed when the script ends.
Running == script.step \in DOMAIN Plan

PageStep  == Running /\ (ClientStep \/ ClientTimer) /\ UNCHANGED <<fixture, script>>
Serves(s) == Running /\ FixtureStep(s)
Answers   == Running /\ AnswerPoll

Next == PageStep \/ Answers \/ ScriptStep \/ Expire \/ \E s \in Socket : Serves(s)

\* The event loops of the page, of the fixture and of the script go on; timers need not
\* run out.
Fairness ==
  /\ WF_vars(Running /\ Connect /\ UNCHANGED <<fixture, script>>)
  /\ WF_vars(Running /\ (Ask \/ Polled) /\ UNCHANGED <<fixture, script>>)
  /\ \A s \in Socket :
       /\ WF_vars(Running /\ (Opened(s) \/ Closed(s) \/ Framed(s) \/ Resolved(s) \/ Forgotten(s))
                    /\ UNCHANGED <<fixture, script>>)
       /\ WF_vars(Serves(s))
  /\ WF_vars(Answers)
  /\ WF_vars(ScriptStep)

Spec == AcceptanceInit /\ [][Next]_vars /\ Fairness

-----------------------------------------------------------------------------
(* Properties.                                                              *)

\* Evidence on disk, whether the script still runs, has failed or is done: this run's is
\* there only when every scenario has passed, once, on the recorded files, and an earlier
\* run's only before the inventory, or after one that failed (lines 46-72, 134-143 and 317).
EvidenceMeansPassed ==
  /\ script.evidence = "this" => /\ script.step = Done /\ script.recorded /\ ~script.errors
                                 /\ Len(script.passed) = Cardinality(Scenarios)
                                 /\ ToSet(script.passed) = Scenarios
  /\ script.evidence = "earlier" => \/ script.step = 1
                                    \/ script.step = Failed /\ ~script.recorded

\* With the recorded files, an error-free page and nothing slow, it is written: no order of
\* frames, polls, reconnects and steps makes the acceptance hang or fail but one.  A poll
\* may hydrate the page before its socket is open, for which nothing in the script waits,
\* and a Save is then refused.
AcceptancePasses ==
  (slow = 0 /\ script.recorded /\ ~script.errors) => <>(script.evidence = "this" \/ InVain)

\* The evidence a release is gated on is there when it should be, and only then.
EvidenceIsEarned == []EvidenceMeansPassed /\ AcceptancePasses

\* The answer of a poll never replaces a state later than its own: a frame, a close and a new
\* document abort the poll under way (E in static/assets/index-*.js).
PollNeverGoesBack == [][Polled => page'.view.version >= page.view.version]_vars

\* Whom a broadcast goes to is whom the page listens to.  A target the page no longer listens
\* to has its close under way, and a page whose socket is open, with neither side closing it,
\* is a target (scripts/browser-socket-fixture.cjs; its test: "Closed sockets must be removed
\* from broadcast targets").
Leaving(s) ==
  \/ \E i \in DOMAIN socket[s].outbox : socket[s].outbox[i] = "close"
  \/ \E i \in DOMAIN socket[s].inbox : socket[s].inbox[i].kind = "close"
TargetsAreCurrent ==
  /\ \A s \in fixture.targets : s = page.current \/ Leaving(s)
  /\ \A s \in Socket :
       s = page.current /\ socket[s].end = "open" /\ ~Leaving(s) => s \in fixture.targets
=============================================================================
