------------------------- MODULE CommandDispatch -------------------------
(***************************************************************************)
(* Browser commands to the inverter: src/inverter_dashboard/               *)
(* websocket_handler.py (guards, dispatch, acknowledgement) with           *)
(* run_ess_selection and post_command of gateway.py, over a data source    *)
(* that behaves as SourceContract says.                                    *)
(*                                                                         *)
(* Each command is checked when it is admitted, again by the task that     *)
(* sends it, and on the gateway path after every await up to the POST.     *)
(* From there on only the cancellation by invalidate_ess_commands keeps it *)
(* from a source that was replaced.  An override also waits until the      *)
(* controller shows it, and the reply to a dismissed notification until   *)
(* every browser was told.                                                 *)
(***************************************************************************)
EXTENDS SourceContract

CONSTANTS
  Cmd,                  \* commands of all browsers; each has its own request ID
  Asked                 \* the kinds of command they ask for

Kinds        == {"legacy", "native", "water", "ess", "tariff", "override"}
Preflighted  == {"water", "ess", "tariff", "override"}
\* Mutant: the acknowledgement waits outside the total deadline.
TimedDispatch == {"native", "tariff"}
Timed         == {"native", "tariff", "override"}
Uncontrolled == {"native", "water"}      \* need no controller observation

ASSUME AskedAssumption == Asked \subseteq Kinds

VARIABLES
  kind, pc,             \* what is asked, and how far its task has come
  remote, valid, client,\* captured: transport, generation, MQTT client; the
                        \* last two as the answer to "is it still the same?"
  cancelled,            \* cancel() was called on the sending task
  result,               \* the sending task, then the last check, raised nothing
  seen,                 \* an override observation has followed the dispatch
  status,               \* the override status the live MqttState holds
  wire,                 \* written and not yet taken by the controller
  published             \* every override status the controller has shown

commandVars == <<kind, pc, remote, valid, client, cancelled, result, seen>>
vars == <<sourceVars, commandVars, status, wire, published>>

Acking  == {"acking", "fetching", "deciding"}
Sending == {"created", "preflight", "opening", "posting", "sent"} \union Acking
Pcs     == Sending \union {"idle", "returned", "telling", "ok", "failed"}

NoStatus == [id |-> "none", confirmed |-> FALSE]
Status   == [id : Cmd \union {"none"}, confirmed : BOOLEAN]

TypeOK ==
  /\ SourceType
  /\ kind \in [Cmd -> Kinds]
  /\ pc \in [Cmd -> Pcs]
  /\ remote \in [Cmd -> BOOLEAN]
  /\ valid \in [Cmd -> BOOLEAN]
  /\ client \in [Cmd -> BOOLEAN]
  /\ cancelled \in [Cmd -> BOOLEAN]
  /\ result \in [Cmd -> BOOLEAN]
  /\ seen \in [Cmd -> BOOLEAN]
  /\ status \in Status
  /\ wire \in SUBSET Cmd
  /\ published \in SUBSET Status

Init ==
  /\ SourceInit
  /\ kind = [c \in Cmd |-> "legacy"]
  /\ pc = [c \in Cmd |-> "idle"]
  /\ remote = [c \in Cmd |-> FALSE]
  /\ valid = [c \in Cmd |-> FALSE]
  /\ client = [c \in Cmd |-> FALSE]
  /\ cancelled = [c \in Cmd |-> FALSE]
  /\ result = [c \in Cmd |-> FALSE]
  /\ seen = [c \in Cmd |-> FALSE]
  /\ status = NoStatus
  /\ wire = {}
  /\ published = {NoStatus}

-----------------------------------------------------------------------------
(* The source under the commands.                                          *)

\* Mutant: a replacement bumps the generation and lets the senders run.
InvalidateOnly ==
  /\ valid' = [c \in Cmd |-> FALSE]
  /\ UNCHANGED cancelled

\* invalidate_ess_commands
Invalidate ==
  /\ valid' = [c \in Cmd |-> FALSE]
  /\ cancelled' = [c \in Cmd |-> cancelled[c] \/ pc[c] \in Sending]

Uninvolved  == UNCHANGED <<kind, pc, remote, result, wire, published>>
SameGuards  == UNCHANGED <<valid, client, cancelled>>
AfterDispatch(c) == pc[c] \in {"posting", "sent"} \union Acking

\* observe(retained=False) counts for every override already dispatched
Observation == seen' = [c \in Cmd |-> seen[c] \/ (kind[c] = "override" /\ AfterDispatch(c))]

Replace ==
  /\ \E s \in Sources : StartSource(s)
  /\ Invalidate
  /\ status' = NoStatus
  /\ Uninvolved /\ UNCHANGED <<client, seen>>

RetireNow ==
  /\ RetireSource
  /\ Invalidate
  /\ Uninvolved /\ UNCHANGED <<client, status, seen>>

\* A reconnected session has a client of its own and starts without a status;
\* a snapshot brings one.
ConnectNow ==
  /\ ConnectSource
  /\ IF active = "mqtt"
     THEN /\ authority' = FALSE
          /\ client' = [c \in Cmd |-> FALSE]
          /\ status' = NoStatus
          /\ UNCHANGED seen
     ELSE /\ status' \in published \union {NoStatus}
          /\ Observation
          /\ UNCHANGED client
  /\ UNCHANGED <<valid, cancelled>> /\ Uninvolved

\* A controller message.  A retained one shows its status without renewing the
\* command authority and counts as no observation.
Receive ==
  /\ Observe
  /\ status' \in published \union {NoStatus}
  /\ \/ Observation
     \/ UNCHANGED seen /\ authority' = FALSE
  /\ Uninvolved /\ SameGuards

LoseSource ==
  /\ Disconnect \/ CloseSource
  /\ status' \in {status, NoStatus}
  /\ Uninvolved /\ SameGuards /\ UNCHANGED seen

Age ==
  /\ Expire
  /\ status' \in {status, NoStatus}
  /\ Uninvolved /\ SameGuards /\ UNCHANGED seen

SourceStep == Replace \/ RetireNow \/ ConnectNow \/ Receive \/ LoseSource \/ Age

-----------------------------------------------------------------------------
(* Admission and the sending task.                                         *)

Flag(far) == IF far THEN gatewayConnected ELSE mqttConnected

\* _current_source and _current_mqtt_client
SourceCurrent(c) ==
  /\ valid[c]
  /\ remote[c] = (active = "igw")
  /\ remote[c] \/ client[c]

\* Water devices and native notifications need a connected source; everything
\* else needs a controller that is heard over it.
DeviceReady(c)     == kind[c] \in Uncontrolled /\ Flag(remote[c])
ControllerReady(c) == Flag(remote[c]) /\ authority

\* check_current() of every kind of command; what else it asks of the data
\* (capability, portal, tariff revision) may make any check fail: CheckFails.
Guard(c) == SourceCurrent(c) /\ (DeviceReady(c) \/ ControllerReady(c))

Goto(c, p)  == pc' = [pc EXCEPT ![c] = p]
SameCommand == UNCHANGED <<sourceVars, kind, remote, valid, client, cancelled>>
SameView    == UNCHANGED <<seen, status, published>>

\* the sending task ends: by return, or by the exception of a failed check
Return(c, r) ==
  /\ Goto(c, "returned")
  /\ result' = [result EXCEPT ![c] = r]
  /\ SameCommand /\ SameView /\ UNCHANGED wire

\* A step behind a check: the sender goes on to p, or ends.
Checked(c, from, p) ==
  /\ pc[c] = from /\ ~cancelled[c]
  /\ \/ Guard(c) /\ Goto(c, p) /\ SameCommand /\ SameView /\ UNCHANGED <<result, wire>>
     \/ ~Guard(c) /\ Return(c, FALSE)

\* Generation, transport and client are captured where the first check is made,
\* and the task is created in the same step.  A command this check refuses is
\* answered at once and changes nothing.
Admit(c, k) ==
  /\ pc[c] = "idle"
  /\ kind' = [kind EXCEPT ![c] = k]
  /\ remote' = [remote EXCEPT ![c] = (active = "igw")]
  /\ valid' = [valid EXCEPT ![c] = TRUE]
  /\ client' = [client EXCEPT ![c] = active # "igw"]
  /\ UNCHANGED <<sourceVars, cancelled, result, wire>> /\ SameView
  /\ Guard(c)'
  /\ Goto(c, "created")

\* MQTT: check and publish without an await between them
Publish(c) ==
  /\ pc[c] = "created" /\ ~cancelled[c] /\ ~remote[c]
  /\ IF Guard(c)
     THEN /\ wire' = wire \union {c}
          /\ Goto(c, "sent")
          /\ SameCommand /\ SameView /\ UNCHANGED result
     ELSE Return(c, FALSE)

\* gateway: a snapshot first for the kinds that need one, then the client
Preflight(c) ==
  /\ remote[c]
  /\ Checked(c, "created", IF kind[c] \in Preflighted THEN "preflight" ELSE "opening")

Open(c) == Checked(c, "preflight", "opening")

\* post_command: generation and before_send are asked once the client is open
BeforeSend(c) == Checked(c, "opening", "posting")

\* connection set up, request written: nothing is asked any more
Write(c) ==
  /\ pc[c] = "posting" /\ ~cancelled[c]
  /\ wire' = wire \union {c}
  /\ Goto(c, "sent")
  /\ SameCommand /\ SameView /\ UNCHANGED result

\* the response, or the MQTT client's confirmation
Sent(c) ==
  /\ pc[c] = "sent" /\ ~cancelled[c]
  /\ IF kind[c] = "override"
     THEN Goto(c, "acking") /\ SameCommand /\ SameView /\ UNCHANGED <<result, wire>>
     ELSE Return(c, kind[c] = "native" => Guard(c))

\* The snapshot is not had in time, the data of the command or of the snapshot
\* does not pass, the write or its answer fails.
SnapshotFails(c) == pc[c] \in {"preflight", "fetching"}
CheckFails(c)    == pc[c] \in {"created", "opening", "acking", "deciding"}
SendFails(c)     == pc[c] \in {"posting", "sent"}

Refused(c) ==
  /\ ~cancelled[c]
  /\ SnapshotFails(c) \/ CheckFails(c) \/ SendFails(c)
  /\ Return(c, FALSE)

-----------------------------------------------------------------------------
(* _wait_override_ack                                                      *)

\* Mutant: any matching request ID confirms.
MatchOnly(c) == seen[c] /\ status.id = c

\* a later observation shows the request, with its value and no error
Confirmed(c) == seen[c] /\ status.id = c /\ status.confirmed

AckFetch(c) == remote[c] /\ Checked(c, "acking", "fetching")

AckObserve(c) ==
  /\ pc[c] = "fetching" /\ ~cancelled[c]
  /\ IF Guard(c)
     THEN /\ status' \in published
          /\ Observation
          /\ Goto(c, "deciding")
          /\ SameCommand /\ UNCHANGED <<result, wire, published>>
     ELSE Return(c, FALSE)

AckDecide(c) ==
  /\ pc[c] = IF remote[c] THEN "deciding" ELSE "acking"
  /\ ~cancelled[c]
  /\ IF Guard(c) /\ ~(seen[c] /\ status.id = c)
     THEN Goto(c, "acking") /\ SameCommand /\ SameView /\ UNCHANGED <<result, wire>>
     ELSE Return(c, Guard(c) /\ Confirmed(c))

-----------------------------------------------------------------------------
(* The end of a command.                                                   *)

CancelDelivered(c) ==
  /\ pc[c] \in Sending /\ cancelled[c]
  /\ Return(c, FALSE)

\* the total deadline: asyncio.timeout cancels the handler, and gather the sender
Deadline(c) ==
  /\ kind[c] \in Timed
  /\ \/ pc[c] \in Sending /\ cancelled' = [cancelled EXCEPT ![c] = TRUE] /\ UNCHANGED result
     \/ pc[c] = "returned" /\ result' = [result EXCEPT ![c] = FALSE] /\ UNCHANGED cancelled
  /\ UNCHANGED <<sourceVars, kind, pc, remote, valid, client, wire>> /\ SameView

\* Mutant: the result counts whatever has happened to the source.
SuccessUnchecked(c) == result[c]

\* the generation is asked once more after the task; native ones check all again
Success(c) ==
  /\ result[c] /\ valid[c]
  /\ kind[c] = "native" => Guard(c)

\* the reply; what was captured is forgotten
Reply(c, success) ==
  /\ Goto(c, IF success THEN "ok" ELSE "failed")
  /\ remote' = [remote EXCEPT ![c] = FALSE]
  /\ valid' = [valid EXCEPT ![c] = FALSE]
  /\ client' = [client EXCEPT ![c] = FALSE]
  /\ cancelled' = [cancelled EXCEPT ![c] = FALSE]
  /\ result' = [result EXCEPT ![c] = FALSE]
  /\ seen' = [seen EXCEPT ![c] = FALSE]
  /\ UNCHANGED <<sourceVars, kind, status, wire, published>>

\* run_ess_selection returns to the handler, which replies
Finish(c) ==
  /\ pc[c] = "returned" /\ kind[c] # "native"
  /\ Reply(c, Success(c))

\* A dismissal: its success is decided, and before the handler replies the
\* finally of _dispatch_dismissal broadcasts the dismissed banner either way.
Dismissed(c) ==
  /\ pc[c] = "returned" /\ kind[c] = "native"
  /\ Goto(c, "telling")
  /\ result' = [result EXCEPT ![c] = Success(c)]
  /\ SameCommand /\ SameView /\ UNCHANGED wire

\* the broadcast is over
Told(c) == pc[c] = "telling" /\ Reply(c, result[c])

-----------------------------------------------------------------------------
(* The controller: takes a command from the wire or never sees it, and     *)
(* shows the last override with its own verdict.                           *)

Deliver(c) ==
  /\ c \in wire
  /\ wire' = wire \ {c}
  /\ IF kind[c] = "override"
     THEN \E b \in BOOLEAN : published' = published \union {[id |-> c, confirmed |-> b]}
     ELSE UNCHANGED published
  /\ UNCHANGED <<sourceVars, commandVars, status>>

Drop(c) ==
  /\ c \in wire
  /\ wire' = wire \ {c}
  /\ UNCHANGED <<sourceVars, commandVars, status, published>>

-----------------------------------------------------------------------------
Progress(c) ==
  \/ Publish(c) \/ Preflight(c) \/ Open(c) \/ BeforeSend(c) \/ Write(c) \/ Sent(c)
  \/ AckFetch(c) \/ AckObserve(c) \/ AckDecide(c)
  \/ CancelDelivered(c) \/ Finish(c) \/ Dismissed(c) \/ Told(c)

Next ==
  \/ SourceStep
  \/ \E c \in Cmd :
       \/ \E k \in Asked : Admit(c, k)
       \/ Progress(c) \/ Refused(c) \/ Deadline(c)
       \/ Deliver(c) \/ Drop(c)

Spec == Init /\ [][Next]_vars

\* The loop runs a ready task, requests answer or time out, a deadline fires, a
\* broadcast ends (WsBroadcast: every send is timed out).
Fairness == \A c \in Cmd : WF_vars(Progress(c)) /\ WF_vars(Deadline(c))
FairSpec == Spec /\ Fairness

-----------------------------------------------------------------------------
Dispatched(c) == c \in wire' \ wire

\* "Switching source invalidates old callbacks and pending work": a command
\* leaves only while the source it was admitted under has not been retired,
\* and by the transport that is selected, also when nothing is checked between
\* the guard of a POST and its bytes.
RetirementStopsPending ==
  [][\A c \in Cmd : Dispatched(c) => valid[c] /\ remote[c] = (active = "igw")]_vars

\* No command is found successful whose source was replaced meanwhile: it left by
\* the transport that is still selected.  All replies but a dismissal's are sent in
\* the step that finds so; a dismissal's repeats, after the broadcast, what was found
\* before it, and the source may have been replaced in between.
Successful(c) == pc[c] = "ok" \/ (pc[c] = "telling" /\ result[c])
SuccessIsCurrent ==
  [][\A c \in Cmd : Successful(c)' /\ ~Successful(c)
       => valid[c] /\ remote[c] = (active = "igw")]_vars

\* A confirmed override was executed with its value: neither the status of an
\* earlier or competing override nor an error of the controller confirms it.
ConfirmedIsApplied ==
  \A c \in Cmd : kind[c] = "override" /\ pc[c] = "ok" =>
    [id |-> c, confirmed |-> TRUE] \in published

\* docs/architecture.md: "A failover retires the prior source, clears live
\* authority and cancels source-owned pending work": the gateway takes no command
\* once it is retired.
RetiredSourceTakesNoCommand ==
  [][\A c \in Cmd : Dispatched(c) /\ remote[c] => ~retired]_vars

\* Every admitted command is answered, whatever the source and controller do.
CommandsAnswered == \A c \in Cmd : pc[c] = "created" ~> pc[c] \in {"ok", "failed"}
=============================================================================
