---------------------------- MODULE WsBroadcast ----------------------------
(***************************************************************************)
(* State frames to the browsers: broadcast_state, _send_state and          *)
(* handle_websocket of src/inverter_dashboard/websocket_handler.py.        *)
(*                                                                         *)
(* One fan-out at a time holds the broadcast lock and has a send task per  *)
(* peer; the peer's own handler sends its initial frame and its command    *)
(* replies.  Both write under the peer's lock.  asyncio locks are first in,*)
(* first out, so a lock is the sequence of those who want it, its holder   *)
(* first.  A frame is the version of the state it was built from.          *)
(***************************************************************************)
EXTENDS Naturals, Sequences

CONSTANTS
  Peer,                 \* WebSocket connections; each is made at most once
  Caller,               \* tasks that broadcast: command handlers, and
  SourceTask,           \* those of the source, which a switch cancels
  SendTimeout, CloseTimeout,      \* 2 s and 1 s
  MaxVersion            \* bound on changes of the state

ASSUME TaskAssumption == SourceTask \subseteq Caller
ASSUME TimeAssumption == SendTimeout \in Nat \ {0} /\ CloseTimeout \in Nat \ {0}
ASSUME VersionAssumption == MaxVersion \in Nat \ {0}

VARIABLES
  version,              \* of the state build_payload reads
  clients,              \* ws_clients
  handler,              \* progress of handle_websocket
  lock,                 \* write lock of a peer: who wants it, with what frame
  write, left,          \* what the holder does, and the time it has left for it
  broadcastLock,        \* callers that want it
  fanout,               \* progress of a call of broadcast_state
  frame, todo,          \* what it sends, and the send tasks that have not started
  age,                  \* how long the fan-out has held the broadcast lock
  got,                  \* newest version that may have reached the peer
  asked                 \* history: version and clients when it was called

peerVars == <<clients, handler, lock, write, left, got>>
callVars == <<broadcastLock, fanout, frame, todo, age, asked>>
vars == <<version, peerVars, callVars>>

Reply    == 0           \* a command reply, which shows no state
Versions == 1 .. MaxVersion
Frames   == {Reply} \union Versions
Handler  == "handler"
Writer   == Caller \union {Handler}
Request  == [who : Writer, frame : Frames]

ASSUME CallerAssumption == Handler \notin Caller

TypeOK ==
  /\ version \in Versions
  /\ clients \in SUBSET Peer
  /\ handler \in [Peer -> {"new", "sending", "receiving", "ended"}]
  /\ lock \in [Peer -> Seq(Request)]
  /\ \A p \in Peer : \A i, j \in DOMAIN lock[p] : lock[p][i].who = lock[p][j].who => i = j
  /\ write \in [Peer -> {"none", "send", "close"}]
  /\ left \in [Peer -> Nat]
  /\ got \in [Peer -> Frames]
  /\ broadcastLock \in Seq(Caller)
  /\ fanout \in [Caller -> {"idle", "waiting", "sending", "aborting"}]
  /\ frame \in [Caller -> Frames]
  /\ todo \in [Caller -> SUBSET Peer]
  /\ age \in [Caller -> Nat]
  /\ asked \in [Caller -> [version : Frames, peers : SUBSET Peer]]

Nothing == [version |-> 0, peers |-> {}]

Init ==
  /\ version = 1
  /\ clients = {}
  /\ handler = [p \in Peer |-> "new"]
  /\ lock = [p \in Peer |-> <<>>]
  /\ write = [p \in Peer |-> "none"]
  /\ left = [p \in Peer |-> 0]
  /\ got = [p \in Peer |-> 0]
  /\ broadcastLock = <<>>
  /\ fanout = [b \in Caller |-> "idle"]
  /\ frame = [b \in Caller |-> 0]
  /\ todo = [b \in Caller |-> {}]
  /\ age = [b \in Caller |-> 0]
  /\ asked = [b \in Caller |-> Nothing]

\* a queue that its i-th has left
Without(q, i) == [k \in 1 .. Len(q) - 1 |-> q[IF k < i THEN k ELSE k + 1]]

Wants(w, p)   == \E i \in DOMAIN lock[p] : lock[p][i].who = w

\* A lock that is free is taken at once.
Queue(ps, w, f) ==
  LET first(p) == p \in ps /\ lock[p] = <<>>
  IN /\ lock'  = [p \in Peer |-> IF p \in ps THEN Append(lock[p], [who |-> w, frame |-> f])
                                 ELSE lock[p]]
     /\ write' = [p \in Peer |-> IF first(p) THEN "send" ELSE write[p]]
     /\ left'  = [p \in Peer |-> IF first(p) THEN SendTimeout ELSE left[p]]

\* The state changes; whoever changed it calls for a broadcast or is a source
\* whose call will follow.
Change ==
  /\ version < MaxVersion
  /\ version' = version + 1
  /\ UNCHANGED <<peerVars, callVars>>

-----------------------------------------------------------------------------
(* A peer's handler.                                                       *)

\* accept, ws_clients.add, and the initial frame up to the first await
Accept(p) ==
  /\ handler[p] = "new"
  /\ handler' = [handler EXCEPT ![p] = "sending"]
  /\ clients' = clients \union {p}
  /\ Queue({p}, Handler, version)
  /\ UNCHANGED <<version, got, callVars>>

\* _command_reply; a peer that was forgotten meanwhile gets none
Answer(p) ==
  /\ handler[p] = "receiving" /\ p \in clients
  /\ handler' = [handler EXCEPT ![p] = "sending"]
  /\ Queue({p}, Handler, Reply)
  /\ UNCHANGED <<version, clients, got, callVars>>

\* the receive loop ends: the peer left, or its socket was closed
Leave(p) ==
  /\ handler[p] = "receiving"
  /\ handler' = [handler EXCEPT ![p] = "ended"]
  /\ clients' = clients \ {p}
  /\ UNCHANGED <<version, lock, write, left, got, callVars>>

-----------------------------------------------------------------------------
(* _send_state, under the peer's lock.                                     *)

\* The writer gets its result.  A handler whose first frame failed returns at
\* once, one whose reply failed goes back to a closed socket: both can only Leave.
Resume(p) ==
  IF Head(lock[p]).who = Handler
  THEN handler' = [handler EXCEPT ![p] = "receiving"]
  ELSE UNCHANGED handler

Release(p) ==
  /\ lock' = [lock EXCEPT ![p] = Tail(@)]
  /\ write' = [write EXCEPT ![p] = "none"]
  /\ left' = [left EXCEPT ![p] = 0]

\* whoever is next in line wakes up
Acquire(p) ==
  /\ lock[p] # <<>> /\ write[p] = "none"
  /\ IF p \in clients
     THEN /\ write' = [write EXCEPT ![p] = "send"]
          /\ left' = [left EXCEPT ![p] = SendTimeout]
          /\ UNCHANGED <<lock, handler>>
     ELSE Release(p) /\ Resume(p)
  /\ UNCHANGED <<version, clients, got, callVars>>

Newest(f, g) == IF f = Reply THEN g ELSE f

Sent(p) ==
  /\ write[p] = "send"
  /\ got' = [got EXCEPT ![p] = Newest(Head(lock[p]).frame, @)]
  /\ Release(p) /\ Resume(p)
  /\ UNCHANGED <<version, clients, callVars>>

\* Mutant: a peer whose send failed stays a client.
Kept(p) == clients

\* _forget_client
Forgotten(p) == clients \ {p}

\* Mutant: nothing bounds the close.
Unbounded == 100

\* how long the close of a failed peer may take
ClosingTime == CloseTimeout

\* An error or the timeout; the frame may have gone out before it.
SendFails(p) ==
  /\ write[p] = "send"
  /\ write' = [write EXCEPT ![p] = "close"]
  /\ left' = [left EXCEPT ![p] = ClosingTime]
  /\ clients' = Forgotten(p)
  /\ \E g \in {got[p], Newest(Head(lock[p]).frame, got[p])} : got' = [got EXCEPT ![p] = g]
  /\ UNCHANGED <<version, handler, lock, callVars>>

\* closed, failed to close, or timed out closing
Closed(p) ==
  /\ write[p] = "close"
  /\ Release(p) /\ Resume(p)
  /\ UNCHANGED <<version, clients, got, callVars>>

-----------------------------------------------------------------------------
(* broadcast_state.                                                        *)

Call(b) ==
  /\ fanout[b] = "idle"
  /\ fanout' = [fanout EXCEPT ![b] = "waiting"]
  /\ broadcastLock' = Append(broadcastLock, b)
  /\ asked' = [asked EXCEPT ![b] = [version |-> version, peers |-> clients]]
  /\ UNCHANGED <<version, peerVars, frame, todo, age>>

\* Mutant: the payload is built before the lock is taken.
BuiltEarly(b) == asked[b].version

\* build_payload, under the lock
Built(b) == version

\* The lock is ours: one send task per client.
Begin(b) ==
  /\ fanout[b] = "waiting" /\ Head(broadcastLock) = b
  /\ IF clients = {}
     THEN /\ fanout' = [fanout EXCEPT ![b] = "idle"]
          /\ broadcastLock' = Tail(broadcastLock)
          /\ asked' = [asked EXCEPT ![b] = Nothing]
          /\ UNCHANGED <<frame, todo>>
     ELSE /\ fanout' = [fanout EXCEPT ![b] = "sending"]
          /\ frame' = [frame EXCEPT ![b] = Built(b)]
          /\ todo' = [todo EXCEPT ![b] = clients]
          /\ UNCHANGED <<broadcastLock, asked>>
  /\ UNCHANGED <<version, peerVars, age>>

\* The send tasks, created together, start one after the other.
Start(b) ==
  /\ fanout[b] = "sending" /\ todo[b] # {}
  /\ todo' = [todo EXCEPT ![b] = {}]
  /\ Queue(todo[b] \intersect clients, b, frame[b])
  /\ UNCHANGED <<version, clients, handler, got, broadcastLock, fanout, frame, age, asked>>

\* the task group has ended
AllSent(b) == todo[b] = {} /\ \A p \in Peer : ~Wants(b, p)

\* Mutant: a cancelled call keeps the broadcast lock.
ReleasedOnSuccess(b) == IF fanout[b] = "aborting" THEN broadcastLock ELSE Tail(broadcastLock)

\* however the call ends
Released(b) == Tail(broadcastLock)

Return(b) ==
  /\ fanout[b] \in {"sending", "aborting"} /\ AllSent(b)
  /\ fanout' = [fanout EXCEPT ![b] = "idle"]
  /\ broadcastLock' = Released(b)
  /\ frame' = [frame EXCEPT ![b] = 0]
  /\ age' = [age EXCEPT ![b] = 0]
  /\ asked' = [asked EXCEPT ![b] = Nothing]
  /\ UNCHANGED <<version, peerVars, todo>>

\* A task of the source is cancelled: it gives up waiting, or its task group cancels all
\* send tasks, of which those that have not started never will.
Cancel(b) ==
  \/ /\ fanout[b] = "waiting"
     /\ fanout' = [fanout EXCEPT ![b] = "idle"]
     /\ \E i \in DOMAIN broadcastLock :
          broadcastLock[i] = b /\ broadcastLock' = Without(broadcastLock, i)
     /\ asked' = [asked EXCEPT ![b] = Nothing]
     /\ UNCHANGED <<version, peerVars, frame, todo, age>>
  \/ /\ fanout[b] = "sending"
     /\ fanout' = [fanout EXCEPT ![b] = "aborting"]
     /\ todo' = [todo EXCEPT ![b] = {}]
     /\ UNCHANGED <<version, peerVars, broadcastLock, frame, age, asked>>

\* A cancelled send task gives up: CancelledError is no Exception, so the peer
\* stays a client, whether or not the frame went out.
Abort(b, p) ==
  /\ fanout[b] = "aborting" /\ Wants(b, p)
  /\ IF Head(lock[p]).who = b
     THEN /\ Release(p)
          /\ \E g \in {got[p], Newest(Head(lock[p]).frame, got[p])} :
               /\ g # got[p] => write[p] = "send"
               /\ got' = [got EXCEPT ![p] = g]
     ELSE /\ \E i \in DOMAIN lock[p] :
               lock[p][i].who = b /\ lock' = [lock EXCEPT ![p] = Without(@, i)]
          /\ UNCHANGED <<write, left, got>>
  /\ UNCHANGED <<version, clients, handler, callVars>>

-----------------------------------------------------------------------------
\* What is ready runs before time passes, and timeouts fire.
Ready ==
  \/ \E p \in Peer : \/ lock[p] # <<>> /\ write[p] = "none"
                     \/ write[p] # "none" /\ left[p] = 0
  \/ \E b \in Caller : \/ fanout[b] = "waiting" /\ Head(broadcastLock) = b
                       \/ fanout[b] = "sending" /\ (todo[b] # {} \/ AllSent(b))
                       \/ fanout[b] = "aborting"

Tick ==
  /\ ~Ready
  /\ \E p \in Peer : left[p] > 0
  /\ left' = [p \in Peer |-> IF left[p] = 0 THEN 0 ELSE left[p] - 1]
  /\ age' = [b \in Caller |-> IF fanout[b] = "sending" THEN age[b] + 1 ELSE age[b]]
  /\ UNCHANGED <<version, clients, handler, lock, write, got, broadcastLock, fanout, frame, todo, asked>>

Next ==
  \/ Change \/ Tick
  \/ \E p \in Peer : \/ Accept(p) \/ Answer(p) \/ Leave(p)
                     \/ Acquire(p) \/ Sent(p) \/ SendFails(p) \/ Closed(p)
  \/ \E b \in Caller : \/ Call(b) \/ Begin(b) \/ Start(b) \/ Return(b)
                       \/ \E p \in Peer : Abort(b, p)
  \/ \E b \in SourceTask : Cancel(b)

Spec == Init /\ [][Next]_vars

\* The loop runs what is ready, time passes however much there is to run (a peer
\* that answers at once can always make more, so weak fairness would not do), and
\* a timeout ends what it bounds.  Nothing makes a peer take its frames.
Fairness ==
  /\ SF_vars(Tick)
  /\ \A p \in Peer : /\ WF_vars(Acquire(p))
                     /\ WF_vars(left[p] = 0 /\ (SendFails(p) \/ Closed(p)))
  /\ \A b \in Caller : /\ WF_vars(Begin(b)) /\ WF_vars(Start(b)) /\ WF_vars(Return(b))
                       /\ \A p \in Peer : WF_vars(Abort(b, p))
FairSpec == Spec /\ Fairness

-----------------------------------------------------------------------------
\* A browser never sees the state go back, although its initial frame, fan-outs
\* and cancelled fan-outs are built at different times by different tasks.
FramesInOrder == [][\A p \in Peer : got'[p] >= got[p]]_vars

\* A broadcast that returns has shown every client that was connected when it
\* was called a state at least as new, unless the client is gone.
BroadcastReaches ==
  [][\A b \in Caller :
       fanout[b] = "sending" /\ Return(b) =>
         \A p \in asked[b].peers \intersect clients : got[p] >= asked[b].version]_vars

\* Slow peers hold up all other broadcasts, and the source that broadcasts, for
\* no longer than a reply and a frame that both take their time, and a close.
BackpressureIsBounded ==
  \A b \in Caller : age[b] <= 2 * SendTimeout + CloseTimeout

\* Every call of broadcast_state ends, whatever the peers do.
BroadcastEnds == \A b \in Caller : fanout[b] # "idle" ~> fanout[b] = "idle"
=============================================================================
