---------------------- MODULE CommandDispatchProof ----------------------
(* Proofs about CommandDispatch, for any set of commands.                  *)
EXTENDS CommandDispatch, TLAPS

\* A sender outlives its source only with its cancellation under way.
CancelledOrValid == \A c \in Cmd : pc[c] \in Sending => valid[c] \/ cancelled[c]

\* A captured generation that is still current stands for the same transport.
ValidIsSelected == \A c \in Cmd : valid[c] => remote[c] = (active = "igw")

\* The status on display was published by the controller, if there is one.
StatusIsPublished == NoStatus \in published /\ status \in published

\* A sender that returned with success has seen its override confirmed.
ReturnedIsConfirmed ==
  \A c \in Cmd : pc[c] \in {"returned", "telling"} /\ result[c] /\ kind[c] = "override" =>
    [id |-> c, confirmed |-> TRUE] \in published

IInv ==
  /\ TypeOK
  /\ CancelledOrValid
  /\ ValidIsSelected
  /\ StatusIsPublished
  /\ ReturnedIsConfirmed
  /\ ConfirmedIsApplied

USE DEF Sending, Acking, Pcs, Kinds, Sources, Status, NoStatus

\* Having no status counts as a status.
LEMMA NoStatusIsStatus == NoStatus \in Status
  BY Zenon

-----------------------------------------------------------------------------
(* The steps by shape: the source moves, one sender moves, one returns.    *)

\* The source may change anything but the progress of the commands.
LEMMA SourceKeepsInv == ASSUME IInv, SourceStep PROVE IInv'
<1> USE DEF IInv, Uninvolved, SameGuards, sourceVars
<1>1. pc' = pc /\ kind' = kind /\ remote' = remote /\ result' = result
        /\ wire' = wire /\ published' = published
  BY DEF SourceStep, Replace, RetireNow, ConnectNow, Receive, LoseSource, Age
<1>2. CASE Replace \/ RetireNow
  <2>1. /\ valid' = [c \in Cmd |-> FALSE]
        /\ cancelled' = [c \in Cmd |-> cancelled[c] \/ pc[c] \in Sending]
        /\ status' \in {status, NoStatus} /\ client' = client /\ seen' = seen
    BY <1>2 DEF Replace, RetireNow, Invalidate
  <2>2. SourceType'
    BY <1>2 DEF Replace, RetireNow, StartSource, RetireSource, TypeOK, SourceType
  <2>3. TypeOK'
    <3>1. valid' \in [Cmd -> BOOLEAN] /\ cancelled' \in [Cmd -> BOOLEAN]
      BY <2>1
    <3>2. status' \in Status
      BY <2>1, NoStatusIsStatus DEF TypeOK
    <3> QED
      BY <1>1, <2>1, <2>2, <3>1, <3>2 DEF TypeOK
  <2>4. CancelledOrValid' /\ ValidIsSelected'
    BY <1>1, <2>1 DEF CancelledOrValid, ValidIsSelected
  <2>5. StatusIsPublished' /\ ReturnedIsConfirmed' /\ ConfirmedIsApplied'
    BY <1>1, <2>1 DEF StatusIsPublished, ReturnedIsConfirmed, ConfirmedIsApplied
  <2> QED
    BY <2>3, <2>4, <2>5
<1>3. CASE ConnectNow \/ Receive \/ LoseSource \/ Age
  <2>1. valid' = valid /\ cancelled' = cancelled /\ active' = active
    BY <1>3 DEF ConnectNow, Receive, LoseSource, Age, ConnectSource, Observe, Disconnect,
       CloseSource, Expire
  <2>2. status' \in published /\ seen' \in [Cmd -> BOOLEAN] /\ client' \in [Cmd -> BOOLEAN]
    <3>1. status' \in published
      BY <1>3 DEF ConnectNow, Receive, LoseSource, Age, StatusIsPublished
    <3>2. seen' \in [Cmd -> BOOLEAN]
      BY <1>3 DEF ConnectNow, Receive, LoseSource, Age, Observation, TypeOK
    <3>3. client' \in [Cmd -> BOOLEAN]
      BY <1>3 DEF ConnectNow, Receive, LoseSource, Age, TypeOK
    <3> QED
      BY <3>1, <3>2, <3>3
  <2>3. SourceType'
    BY <1>3 DEF ConnectNow, Receive, LoseSource, Age, ConnectSource, Observe, Disconnect,
       CloseSource, Expire, TypeOK, SourceType
  <2>4. TypeOK'
    BY <1>1, <2>1, <2>2, <2>3 DEF TypeOK
  <2>5. CancelledOrValid' /\ ValidIsSelected'
    BY <1>1, <2>1 DEF CancelledOrValid, ValidIsSelected
  <2>6. StatusIsPublished' /\ ReturnedIsConfirmed' /\ ConfirmedIsApplied'
    BY <1>1, <2>2 DEF StatusIsPublished, ReturnedIsConfirmed, ConfirmedIsApplied
  <2> QED
    BY <2>4, <2>5, <2>6
<1> QED
  BY <1>2, <1>3 DEF SourceStep

\* A sender that goes on stays bound to its source.
LEMMA GoOnKeepsInv ==
  ASSUME IInv, NEW c \in Cmd, NEW p \in Sending, pc[c] \in Sending, Goto(c, p), SameCommand,
         UNCHANGED <<result, published>>, seen' \in [Cmd -> BOOLEAN], status' \in published,
         wire' \in SUBSET Cmd
  PROVE  IInv'
<1> USE DEF IInv, Goto, SameCommand, sourceVars
<1>1. TypeOK'
  BY DEF TypeOK, SourceType
<1>2. CancelledOrValid' /\ ValidIsSelected'
  BY DEF CancelledOrValid, ValidIsSelected, TypeOK
<1>3. StatusIsPublished' /\ ReturnedIsConfirmed' /\ ConfirmedIsApplied'
  BY DEF StatusIsPublished, ReturnedIsConfirmed, ConfirmedIsApplied, TypeOK
<1> QED
  BY <1>1, <1>2, <1>3

\* A sender returns with success for an override only when it is confirmed.
LEMMA ReturnKeepsInv ==
  ASSUME IInv, NEW c \in Cmd, NEW r \in BOOLEAN, Return(c, r),
         r /\ kind[c] = "override" => [id |-> c, confirmed |-> TRUE] \in published
  PROVE  IInv'
<1> USE DEF IInv, Return, Goto, SameCommand, SameView, sourceVars
<1>1. TypeOK'
  BY DEF TypeOK, SourceType
<1>2. CancelledOrValid' /\ ValidIsSelected'
  BY DEF CancelledOrValid, ValidIsSelected, TypeOK
<1>3. StatusIsPublished' /\ ReturnedIsConfirmed' /\ ConfirmedIsApplied'
  BY DEF StatusIsPublished, ReturnedIsConfirmed, ConfirmedIsApplied, TypeOK
<1> QED
  BY <1>1, <1>2, <1>3

\* A step behind a check goes on or returns with a failure.
LEMMA CheckedKeepsInv ==
  ASSUME IInv, NEW c \in Cmd, NEW from \in Sending, NEW p \in Sending, Checked(c, from, p)
  PROVE  IInv'
<1>1. CASE Return(c, FALSE)
  BY <1>1, ReturnKeepsInv
<1>2. CASE Goto(c, p) /\ SameCommand /\ SameView /\ UNCHANGED <<result, wire>>
  BY <1>2, GoOnKeepsInv DEF Checked, SameView, IInv, TypeOK, StatusIsPublished
<1> QED
  BY <1>1, <1>2 DEF Checked

\* The acknowledgement returns with success only for a confirmed request.
LEMMA AckKeepsInv ==
  ASSUME IInv, NEW c \in Cmd, AckFetch(c) \/ AckObserve(c) \/ AckDecide(c)
  PROVE  IInv'
<1>1. CASE AckFetch(c)
  BY <1>1, CheckedKeepsInv DEF AckFetch
<1>2. CASE AckObserve(c)
  <2>1. CASE Guard(c)
    BY <1>2, <2>1, GoOnKeepsInv DEF AckObserve, Observation, IInv, TypeOK, StatusIsPublished
  <2>2. CASE ~Guard(c)
    BY <1>2, <2>2, ReturnKeepsInv DEF AckObserve
  <2> QED
    BY <2>1, <2>2
<1>3. CASE AckDecide(c)
  <2>1. CASE Guard(c) /\ ~(seen[c] /\ status.id = c)
    BY <1>3, <2>1, GoOnKeepsInv DEF AckDecide, SameView, IInv, TypeOK, StatusIsPublished
  <2>2. CASE ~(Guard(c) /\ ~(seen[c] /\ status.id = c))
    <3>1. Return(c, Guard(c) /\ Confirmed(c))
      BY <1>3, <2>2 DEF AckDecide
    <3>2. Confirmed(c) => status = [id |-> c, confirmed |-> TRUE]
      BY DEF Confirmed, IInv, TypeOK
    <3>3. Confirmed(c) => [id |-> c, confirmed |-> TRUE] \in published
      BY <3>2 DEF IInv, StatusIsPublished
    <3>4. (Guard(c) /\ Confirmed(c)) \in BOOLEAN
      OBVIOUS
    <3> HIDE DEF Confirmed
    <3> QED
      BY <3>1, <3>3, <3>4, ReturnKeepsInv
  <2> QED
    BY <2>1, <2>2
<1> QED
  BY <1>1, <1>2, <1>3

\* Admission, the steps up to the write, and the end of a command.
LEMMA CommandKeepsInv ==
  ASSUME IInv, NEW c \in Cmd,
         (\E k \in Asked : Admit(c, k)) \/ Progress(c) \/ Refused(c) \/ Deadline(c)
  PROVE  IInv'
<1>1. ASSUME NEW k \in Asked, Admit(c, k) PROVE IInv'
  <2> USE <1>1 DEF IInv, Admit, Goto, SameView, sourceVars
  <2>1. TypeOK'
    BY AskedAssumption DEF TypeOK, SourceType
  <2>2. CancelledOrValid' /\ ValidIsSelected'
    BY DEF CancelledOrValid, ValidIsSelected, TypeOK
  <2>3. StatusIsPublished' /\ ReturnedIsConfirmed' /\ ConfirmedIsApplied'
    BY DEF StatusIsPublished, ReturnedIsConfirmed, ConfirmedIsApplied, TypeOK
  <2> QED
    BY <2>1, <2>2, <2>3
<1>2. CASE Preflight(c) \/ Open(c) \/ BeforeSend(c)
  <2>1. CASE Preflight(c)
    BY <2>1, CheckedKeepsInv DEF Preflight
  <2>2. CASE Open(c) \/ BeforeSend(c)
    BY <2>2, CheckedKeepsInv DEF Open, BeforeSend, Checked, IInv
  <2> QED
    BY <1>2, <2>1, <2>2
<1>3. CASE Publish(c) \/ Write(c)
  <2>1. CASE Return(c, FALSE)
    BY <2>1, ReturnKeepsInv
  <2>2. CASE wire' = wire \union {c} /\ Goto(c, "sent") /\ SameCommand /\ SameView /\ UNCHANGED result
    BY <1>3, <2>2, GoOnKeepsInv DEF Publish, Write, SameView, IInv, TypeOK, StatusIsPublished
  <2> QED
    BY <1>3, <2>1, <2>2 DEF Publish, Write
<1>4. CASE Sent(c)
  <2>1. CASE kind[c] = "override"
    BY <1>4, <2>1, GoOnKeepsInv DEF Sent, SameView, IInv, TypeOK, StatusIsPublished
  <2>2. CASE kind[c] # "override"
    <3>1. Return(c, kind[c] = "native" => Guard(c))
      BY <1>4, <2>2 DEF Sent
    <3>2. (kind[c] = "native" => Guard(c)) \in BOOLEAN
      OBVIOUS
    <3> QED
      BY <2>2, <3>1, <3>2, ReturnKeepsInv
  <2> QED
    BY <2>1, <2>2
<1>5. CASE Refused(c) \/ CancelDelivered(c)
  BY <1>5, ReturnKeepsInv DEF Refused, CancelDelivered, SnapshotFails, CheckFails, SendFails
<1>6. CASE AckFetch(c) \/ AckObserve(c) \/ AckDecide(c)
  BY <1>6, AckKeepsInv
<1>7. CASE Deadline(c)
  <2> USE <1>7 DEF IInv, Deadline, SameView, sourceVars
  <2>1. TypeOK'
    BY DEF TypeOK, SourceType
  <2>2. CancelledOrValid' /\ ValidIsSelected'
    BY DEF CancelledOrValid, ValidIsSelected, TypeOK
  <2>3. StatusIsPublished' /\ ReturnedIsConfirmed' /\ ConfirmedIsApplied'
    BY DEF StatusIsPublished, ReturnedIsConfirmed, ConfirmedIsApplied, TypeOK
  <2> QED
    BY <2>1, <2>2, <2>3
<1>8. CASE Finish(c) \/ Told(c)
  <2> USE DEF IInv
  <2>1. PICK b \in BOOLEAN : Reply(c, b) /\ (b => pc[c] \in {"returned", "telling"} /\ result[c])
    <3>1. CASE Finish(c)
      <4>1. Success(c) \in BOOLEAN
        BY DEF Success, TypeOK
      <4> QED
        BY <3>1, <4>1 DEF Finish, Success
    <3>2. CASE Told(c)
      BY <3>2 DEF Told, TypeOK
    <3> QED
      BY <1>8, <3>1, <3>2
  <2> USE DEF Reply, Goto, sourceVars
  <2>2. TypeOK'
    BY <2>1 DEF TypeOK, SourceType
  <2>3. CancelledOrValid' /\ ValidIsSelected'
    BY <2>1 DEF CancelledOrValid, ValidIsSelected, TypeOK
  <2>4. StatusIsPublished' /\ ReturnedIsConfirmed'
    BY <2>1 DEF StatusIsPublished, ReturnedIsConfirmed, TypeOK
  <2>5. ConfirmedIsApplied'
    BY <2>1 DEF ReturnedIsConfirmed, ConfirmedIsApplied, TypeOK
  <2> QED
    BY <2>2, <2>3, <2>4, <2>5
<1>9. CASE Dismissed(c)
  <2> USE <1>9 DEF IInv, Dismissed, Goto, SameCommand, SameView, sourceVars
  <2>1. TypeOK'
    <3>1. Success(c) \in BOOLEAN
      BY DEF Success, TypeOK
    <3> QED
      BY <3>1 DEF TypeOK, SourceType
  <2>2. CancelledOrValid' /\ ValidIsSelected'
    BY DEF CancelledOrValid, ValidIsSelected, TypeOK
  <2>3. StatusIsPublished' /\ ReturnedIsConfirmed' /\ ConfirmedIsApplied'
    BY DEF StatusIsPublished, ReturnedIsConfirmed, ConfirmedIsApplied, TypeOK
  <2> QED
    BY <2>1, <2>2, <2>3
<1> QED
  BY <1>1, <1>2, <1>3, <1>4, <1>5, <1>6, <1>7, <1>8, <1>9 DEF Progress

\* The controller only adds to what it has published.
LEMMA ControllerKeepsInv ==
  ASSUME IInv, NEW c \in Cmd, Deliver(c) \/ Drop(c)
  PROVE  IInv'
<1> USE DEF IInv, commandVars, sourceVars
<1>1. /\ UNCHANGED <<sourceVars, commandVars, status>> /\ wire' \in SUBSET Cmd
      /\ published \subseteq published' /\ published' \in SUBSET Status
  BY DEF Deliver, Drop, TypeOK
<1>2. TypeOK'
  BY <1>1 DEF TypeOK, SourceType
<1>3. CancelledOrValid' /\ ValidIsSelected'
  BY <1>1 DEF CancelledOrValid, ValidIsSelected
<1>4. StatusIsPublished' /\ ReturnedIsConfirmed' /\ ConfirmedIsApplied'
  BY <1>1 DEF StatusIsPublished, ReturnedIsConfirmed, ConfirmedIsApplied
<1> QED
  BY <1>2, <1>3, <1>4

\* The inductive invariant holds in every reachable state.
THEOREM Invariance == Spec => []IInv
<1>1. Init => IInv
  <2> SUFFICES ASSUME Init PROVE IInv
    OBVIOUS
  <2> USE DEF Init, SourceInit
  <2>1. TypeOK
    BY NoStatusIsStatus DEF TypeOK, SourceType
  <2>2. CancelledOrValid /\ ValidIsSelected
    BY DEF CancelledOrValid, ValidIsSelected
  <2>3. StatusIsPublished /\ ReturnedIsConfirmed /\ ConfirmedIsApplied
    BY DEF StatusIsPublished, ReturnedIsConfirmed, ConfirmedIsApplied
  <2> QED
    BY <2>1, <2>2, <2>3 DEF IInv
<1>2. ASSUME IInv, Next PROVE IInv'
  BY <1>2, SourceKeepsInv, CommandKeepsInv, ControllerKeepsInv DEF Next
<1>3. ASSUME IInv, UNCHANGED vars PROVE IInv'
  BY <1>3 DEF vars, sourceVars, commandVars, IInv, TypeOK, SourceType, CancelledOrValid,
     ValidIsSelected, StatusIsPublished, ReturnedIsConfirmed, ConfirmedIsApplied
<1> QED
  BY <1>1, <1>2, <1>3, PTL DEF Spec

-----------------------------------------------------------------------------
(* The properties of CommandDispatch.                                      *)

\* Every variable keeps its type.
THEOREM TypeCorrect == Spec => []TypeOK
  BY Invariance, PTL DEF IInv

\* An override reported as done was executed by the controller with its value.
THEOREM Confirmation == Spec => []ConfirmedIsApplied
  BY Invariance, PTL DEF IInv

\* Only the publishing and the posting step write a command.
LEMMA OnlySendersWrite ==
  ASSUME Next, NEW c \in Cmd, Dispatched(c)
  PROVE  (Publish(c) /\ Guard(c)) \/ Write(c)
<1>1. ~SourceStep
  BY DEF SourceStep, Replace, RetireNow, ConnectNow, Receive, LoseSource, Age, Uninvolved, Dispatched
<1>2. ASSUME NEW d \in Cmd, Deliver(d) \/ Drop(d) \/ Deadline(d) \/ Refused(d)
                              \/ \E k \in Asked : Admit(d, k)
      PROVE  FALSE
  BY <1>2 DEF Deliver, Drop, Deadline, Refused, Admit, Return, Dispatched
<1>3. ASSUME NEW d \in Cmd, Progress(d) PROVE d = c /\ ((Publish(d) /\ Guard(d)) \/ Write(d))
  BY <1>3 DEF Progress, Publish, Preflight, Open, BeforeSend, Write, Sent, AckFetch, AckObserve,
     AckDecide, CancelDelivered, Finish, Dismissed, Told, Reply, SameView, Checked, Return, Dispatched
<1> QED
  BY <1>1, <1>2, <1>3 DEF Next

\* A replaced source stops what it has not yet written, and nothing is sent
\* over another transport than the selected one.
THEOREM PendingIsStopped == Spec => RetirementStopsPending
<1> DEFINE Bound == \A c \in Cmd : Dispatched(c) => valid[c] /\ remote[c] = (active = "igw")
<1>1. ASSUME IInv, Next PROVE Bound
  <2> SUFFICES ASSUME NEW c \in Cmd, Dispatched(c)
               PROVE  valid[c] /\ remote[c] = (active = "igw")
    OBVIOUS
  <2>1. CASE Guard(c)
    BY <2>1 DEF Guard, SourceCurrent
  <2>2. CASE Write(c)
    BY <1>1, <2>2 DEF Write, IInv, CancelledOrValid, ValidIsSelected
  <2> QED
    BY <1>1, <2>1, <2>2, OnlySendersWrite
<1>2. IInv /\ [Next]_vars => [Bound]_vars
  BY <1>1
<1> QED
  BY <1>2, Invariance, PTL DEF Spec, RetirementStopsPending

\* A command is found successful only while its source is still the one it was
\* admitted under, however many commands and switches were under way, and the reply
\* that a broadcast delays only repeats the finding.
THEOREM SuccessHolds == Spec => SuccessIsCurrent
<1> DEFINE Current == \A c \in Cmd : Successful(c)' /\ ~Successful(c)
                        => valid[c] /\ remote[c] = (active = "igw")
<1>1. ASSUME IInv, Next PROVE Current
  <2> SUFFICES ASSUME NEW c \in Cmd, Successful(c)', ~Successful(c)
               PROVE  valid[c] /\ remote[c] = (active = "igw")
    OBVIOUS
  <2> USE DEF Successful
  <2>1. pc \in [Cmd -> Pcs] /\ result \in [Cmd -> BOOLEAN]
    BY <1>1 DEF IInv, TypeOK
  <2>2. ~SourceStep
    BY DEF SourceStep, Replace, RetireNow, ConnectNow, Receive, LoseSource, Age, Uninvolved
  <2>3. ASSUME NEW d \in Cmd, Deliver(d) \/ Drop(d) \/ Deadline(d) \/ Refused(d)
                                \/ \E k \in Asked : Admit(d, k)
        PROVE  FALSE
    BY <2>1, <2>3 DEF Deliver, Drop, Deadline, Refused, Admit, Return, Goto, commandVars
  <2>4. ASSUME NEW d \in Cmd, Progress(d) PROVE d = c /\ valid[d]
    <3>1. CASE Finish(d)
      BY <2>1, <3>1 DEF Finish, Reply, Goto, Success
    <3>2. CASE Dismissed(d)
      BY <2>1, <3>2 DEF Dismissed, Goto, Success
    <3>3. CASE Told(d)
      BY <2>1, <3>3 DEF Told, Reply, Goto
    <3>4. CASE ~Finish(d) /\ ~Dismissed(d) /\ ~Told(d)
      BY <2>1, <2>4, <3>4 DEF Progress, Publish, Preflight, Open, BeforeSend, Write, Sent, AckFetch,
         AckObserve, AckDecide, CancelDelivered, Checked, Return, Goto
    <3> QED BY <3>1, <3>2, <3>3, <3>4
  <2>5. valid[c]
    BY <1>1, <2>2, <2>3, <2>4 DEF Next
  <2> QED BY <1>1, <2>5 DEF IInv, ValidIsSelected
<1>2. IInv /\ [Next]_vars => [Current]_vars
  BY <1>1
<1> QED
  BY <1>2, Invariance, PTL DEF Spec, SuccessIsCurrent
=============================================================================
