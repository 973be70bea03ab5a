--------------------------- MODULE DashboardClient ---------------------------
(***************************************************************************)
(* The live data of the dashboard's page (pf and kg in static/assets/       *)
(* index-*.js): one WebSocket for state and commands, HTTP polls while it is *)
(* not open, the reconnect timer, and the command whose outcome is awaited.  *)
(*                                                                         *)
(* A socket is two queues: inbox, what the page has yet to handle, and       *)
(* outbox, what the server has yet to handle.  Answers of polls travel on    *)
(* connections of their own, so they and the frames meet in any order; the   *)
(* client keeps a poll from undoing a frame by aborting it.                  *)
(*                                                                         *)
(* Timers that run out only when the other side is slow (8 s and 15 s of     *)
(* silence, 10 s for a poll or a command, 15 s for a polled state) spend     *)
(* slow, which bounds them.  The page is visible all the time, and the        *)
(* handshake of a socket does not fail or hang.                              *)
(***************************************************************************)
EXTENDS Naturals, Sequences, FiniteSets

CONSTANTS
  Socket,      \* bound: sockets that are open or closing at the same time
  MaxSlow      \* bound: timers that run out

\* Sockets are numbered, and 0 is none.
ASSUME SocketAssumption == Socket \subseteq Nat \ {0}

VARIABLES page, socket, poll, slow

clientVars == <<page, socket, poll, slow>>

NoView  == [version |-> 0]
Unused  == [end |-> "unused", accepted |-> FALSE, inbox |-> <<>>, outbox |-> <<>>]
NoPoll  == [step |-> "none"]

\* A document that has just been loaded; public is __INVERTER_PUBLIC__.
Document(public) ==
  [public |-> public, current |-> 0, reconnect |-> ~public, commandConnected |-> FALSE,
   live |-> FALSE, view |-> NoView, polled |-> FALSE,
   pending |-> "none", message |-> "none"]

NoDocument == [Document(FALSE) EXCEPT !.reconnect = FALSE]

ClientInit ==
  /\ page = NoDocument
  /\ socket = [s \in Socket |-> Unused]
  /\ poll = NoPoll
  /\ slow \in {0, MaxSlow + 1}

\* slow: 0 when every answer is in time, else one more than the timers that may run out.
TooSlow == slow > 1 /\ slow' = slow - 1

\* The page gives up a socket: nothing of it is heard any more, and the server is told.
GivenUp(r) ==
  IF r.end \in {"unused", "closed"} THEN r
  ELSE [r EXCEPT !.end = "closed", !.inbox = <<>>,
                 !.outbox = IF r.end = "closing" THEN @ ELSE Append(@, "close")]

-----------------------------------------------------------------------------
(* The socket.                                                              *)

\* ne: called by the reconnect timer, and when the page starts.
Connect ==
  /\ page.reconnect
  /\ \E s \in Socket :
       /\ socket[s] = Unused /\ \A q \in Socket : q < s => socket[q] # Unused
       /\ socket' = [socket EXCEPT ![s].end = "connecting"]
       /\ page' = [page EXCEPT !.current = s, !.reconnect = FALSE]
  /\ UNCHANGED <<poll, slow>>

Head1(s) == Head(socket[s].inbox)
Handles(s, kind) == socket[s].inbox # <<>> /\ Head1(s).kind = kind
Taken(s) == [socket EXCEPT ![s].inbox = Tail(@)]

\* onopen
Opened(s) ==
  /\ Handles(s, "open")
  /\ socket' = [Taken(s) EXCEPT ![s].end = "open"]
  /\ page' = [page EXCEPT !.commandConnected = (s = page.current) \/ @]
  /\ UNCHANGED <<poll, slow>>

\* kg: a command whose connection is lost.
Lost(p) == IF p.pending = "none" THEN p
           ELSE [p EXCEPT !.pending = "none", !.message = "unknown"]

\* onclose: the poll is aborted, and unless a poll vouches for it the state is stale.
Closed(s) ==
  /\ Handles(s, "close")
  /\ socket' = [Taken(s) EXCEPT ![s].end = "closed",
                                ![s].outbox = IF socket[s].end = "closing" THEN @
                                              ELSE Append(@, "close")]
  /\ IF s = page.current
     THEN /\ page' = [Lost(page) EXCEPT !.current = 0, !.commandConnected = FALSE,
                                        !.live = page.live /\ page.polled, !.reconnect = TRUE]
          /\ poll' = NoPoll
     ELSE UNCHANGED <<page, poll>>
  /\ UNCHANGED slow

\* Mutant: a frame leaves the poll under way.
FrameOnly(s) ==
  /\ Handles(s, "state")
  /\ socket' = Taken(s)
  /\ page' = IF s = page.current
             THEN [page EXCEPT !.view = Head1(s).state, !.live = TRUE, !.polled = FALSE] ELSE page
  /\ UNCHANGED <<poll, slow>>

\* onmessage, a state: the poll is aborted, and the state of the frame is shown.
Framed(s) ==
  /\ Handles(s, "state")
  /\ socket' = Taken(s)
  /\ IF s = page.current
     THEN /\ page' = [page EXCEPT !.view = Head1(s).state, !.live = TRUE, !.polled = FALSE]
          /\ poll' = NoPoll
     ELSE UNCHANGED <<page, poll>>
  /\ UNCHANGED slow

\* onmessage, the outcome of a command: of the one that is pending, or it is ignored.
Resolved(s) ==
  /\ socket[s].inbox # <<>> /\ Head1(s).kind \in {"accepted", "rejected"}
  /\ socket' = Taken(s)
  /\ page' = IF s = page.current /\ Head1(s).command = page.pending
             THEN [page EXCEPT !.pending = "none", !.message = Head1(s).kind] ELSE page
  /\ UNCHANGED <<poll, slow>>

\* re: 15 s without data.
KeepAlive ==
  /\ page.current # 0 /\ socket[page.current].end = "open"
  /\ TooSlow
  /\ socket' = [socket EXCEPT ![page.current].end = "closing",
                              ![page.current].outbox = Append(@, "close")]
  /\ UNCHANGED <<page, poll>>

\* M, on the event 'online': the socket is dropped for a new one.
Online ==
  /\ page' = [Lost(page) EXCEPT !.current = 0, !.commandConnected = FALSE, !.live = FALSE,
                                !.polled = FALSE, !.reconnect = TRUE]
  /\ socket' = IF page.current = 0 THEN socket
               ELSE [socket EXCEPT ![page.current] = GivenUp(@)]
  /\ poll' = NoPoll
  /\ UNCHANGED slow

\* A socket that both ends have closed.
Forgotten(s) ==
  /\ socket[s].end = "closed" /\ socket[s].outbox = <<>>
  /\ socket' = [socket EXCEPT ![s] = Unused]
  /\ UNCHANGED <<page, poll, slow>>

-----------------------------------------------------------------------------
(* Polls: D, or T of a public page, every 3 s.                              *)

Ask ==
  /\ page # NoDocument /\ poll = NoPoll
  /\ IF page.current # 0 /\ socket[page.current].end = "open" THEN TooSlow ELSE UNCHANGED slow
  /\ poll' = [step |-> "asked"]
  /\ UNCHANGED <<page, socket>>

\* A state that says native_connected is live, and vouched for.
Polled ==
  /\ poll.step = "answered"
  /\ page' = [page EXCEPT !.view = poll.state, !.live = poll.native, !.polled = poll.native]
  /\ poll' = NoPoll
  /\ UNCHANGED <<socket, slow>>

\* 10 s without an answer; 15 s without the next.
PollFails ==
  /\ TooSlow
  /\ \/ poll # NoPoll /\ poll' = NoPoll /\ UNCHANGED page
     \/ /\ page.polled /\ UNCHANGED poll
        /\ page' = [page EXCEPT !.polled = FALSE, !.live = FALSE]
  /\ UNCHANGED socket

-----------------------------------------------------------------------------
(* Commands: kg.                                                            *)

\* submit: one command at a time, and only on a socket that is open; else it is refused
\* at once.
Submit(command) ==
  /\ page.pending = "none"
  /\ \/ /\ page.commandConnected /\ socket[page.current].end = "open"
        /\ page' = [page EXCEPT !.pending = command, !.message = "sending"]
        /\ socket' = [socket EXCEPT ![page.current].outbox = Append(@, command)]
     \/ /\ ~(page.commandConnected /\ socket[page.current].end = "open")
        /\ page' = [page EXCEPT !.message = "unavailable"]
        /\ UNCHANGED socket
  /\ UNCHANGED <<poll, slow>>

\* 10 s without an outcome.
CommandExpires ==
  /\ page.pending # "none"
  /\ TooSlow
  /\ page' = [page EXCEPT !.pending = "none", !.message = "unknown"]
  /\ UNCHANGED <<socket, poll>>

ClientStep ==
  \/ Connect \/ Ask \/ Polled
  \/ \E s \in Socket : Opened(s) \/ Closed(s) \/ Framed(s) \/ Resolved(s) \/ Forgotten(s)

ClientTimer == KeepAlive \/ PollFails \/ CommandExpires
=============================================================================
