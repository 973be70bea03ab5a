----------------------- MODULE BrowserAcceptanceProof -----------------------
(***************************************************************************)
(* Proofs about BrowserAcceptance, for any number of sockets and timers:    *)
(* whom a broadcast goes to, and which state the page shows.                *)
(***************************************************************************)
EXTENDS BrowserAcceptance, TLAPS

State == [version : Nat, soc : Nat, camera : Commands \cup {"none"}, shown : BOOLEAN]
Message == {[kind |-> "open"], [kind |-> "close"]}
           \cup [kind : {"state"}, state : State]
           \cup [kind : {"accepted", "rejected"}, command : Commands]
Frame  == Commands \cup {"close"}
Record == [end : {"unused", "connecting", "open", "closing", "closed"}, accepted : BOOLEAN,
           inbox : Seq(Message), outbox : Seq(Frame)]

\* A close is on its way to the fixture, or to the page.
Closing(q) == \E i \in DOMAIN q : q[i] = "close"
Ends(q)    == \E i \in DOMAIN q : q[i].kind = "close"

\* No state that is on its way is newer than version v.
Fresh(q, v) == \A i \in DOMAIN q : q[i].kind = "state" => q[i].state.version <= v

\* The page is told once that its socket is open, and first of all.
Opening(r) == \A i \in DOMAIN r.inbox : r.inbox[i].kind = "open" => i = 1 /\ r.end = "connecting"

\* A socket s that the page has not begun to close is its current one, c; once accepted it
\* is a target, or its close is on the way to the page.  A target that the page has begun to
\* close has that close before it.
Sound(r, s, c, T) ==
  /\ r.end \in {"connecting", "open"} =>
       s = c /\ ~Closing(r.outbox) /\ (r.accepted => s \in T \/ Ends(r.inbox))
  /\ r.end \in {"open", "closing"} \/ r.inbox # <<>> => r.accepted
  /\ r.end = "closed" /\ ~r.accepted => Closing(r.outbox)
  /\ s \in T => /\ r.end # "unused" /\ r.accepted
                /\ r.end \in {"closing", "closed"} => Closing(r.outbox)

Good(r, s, c, T, v) == r \in Record /\ Opening(r) /\ Sound(r, s, c, T) /\ Fresh(r.inbox, v)

-----------------------------------------------------------------------------
(* Queues.                                                                  *)

LEMMA TailOf ==
  ASSUME NEW S, NEW q \in Seq(S), q # <<>>
  PROVE  /\ Head(q) \in S /\ Head(q) = q[1] /\ Tail(q) \in Seq(S) /\ 1 \in DOMAIN q
         /\ \A j \in DOMAIN Tail(q) : j + 1 \in DOMAIN q /\ j + 1 # 1 /\ Tail(q)[j] = q[j + 1]
         /\ \A i \in DOMAIN q : i = 1 \/ (i - 1 \in DOMAIN Tail(q) /\ Tail(q)[i - 1] = q[i])
OBVIOUS

LEMMA CatOf ==
  ASSUME NEW S, NEW p \in Seq(S), NEW q \in Seq(S)
  PROVE  /\ p \o q \in Seq(S)
         /\ p \o q = <<>> => p = <<>> /\ q = <<>>
         /\ \A i \in DOMAIN p : i \in DOMAIN (p \o q) /\ (p \o q)[i] = p[i]
         /\ \A j \in DOMAIN q : Len(p) + j \in DOMAIN (p \o q) /\ (p \o q)[Len(p) + j] = q[j]
         /\ \A i \in DOMAIN (p \o q) : \/ i \in DOMAIN p /\ (p \o q)[i] = p[i]
                                       \/ i - Len(p) \in DOMAIN q /\ (p \o q)[i] = q[i - Len(p)]
OBVIOUS

LEMMA ClosingTail ==
  ASSUME NEW q \in Seq(Frame), q # <<>>
  PROVE  /\ Tail(q) \in Seq(Frame)
         /\ Closing(Tail(q)) => Closing(q)
         /\ Closing(q) /\ Head(q) # "close" => Closing(Tail(q))
         /\ Head(q) = "close" => Closing(q)
<1>1. /\ Head(q) \in Frame /\ Head(q) = q[1] /\ Tail(q) \in Seq(Frame) /\ 1 \in DOMAIN q
      /\ \A j \in DOMAIN Tail(q) : j + 1 \in DOMAIN q /\ j + 1 # 1 /\ Tail(q)[j] = q[j + 1]
      /\ \A i \in DOMAIN q : i = 1 \/ (i - 1 \in DOMAIN Tail(q) /\ Tail(q)[i - 1] = q[i])
  BY TailOf
<1>2. Closing(Tail(q)) => Closing(q)
  BY <1>1 DEF Closing
<1>3. Closing(q) /\ Head(q) # "close" => Closing(Tail(q))
  BY <1>1 DEF Closing
<1>4. Head(q) = "close" => Closing(q)
  BY <1>1 DEF Closing
<1> QED BY <1>1, <1>2, <1>3, <1>4

LEMMA ClosingAppend ==
  ASSUME NEW q \in Seq(Frame), NEW x \in Frame
  PROVE  /\ Append(q, x) \in Seq(Frame)
         /\ Closing(Append(q, x)) <=> Closing(q) \/ x = "close"
<1>1. /\ Append(q, x) \in Seq(Frame) /\ Len(q) + 1 \in DOMAIN Append(q, x)
      /\ Append(q, x)[Len(q) + 1] = x
      /\ \A i \in DOMAIN q : i \in DOMAIN Append(q, x) /\ Append(q, x)[i] = q[i]
      /\ \A i \in DOMAIN Append(q, x) : i = Len(q) + 1 \/ i \in DOMAIN q
  OBVIOUS
<1> QED BY <1>1, Zenon DEF Closing

LEMMA EndsTail ==
  ASSUME NEW q \in Seq(Message), q # <<>>, NEW v
  PROVE  /\ Tail(q) \in Seq(Message) /\ Head(q) \in Message
         /\ Ends(q) /\ Head(q).kind # "close" => Ends(Tail(q))
         /\ Fresh(q, v) => /\ Fresh(Tail(q), v)
                           /\ Head(q).kind = "state" => Head(q).state.version <= v
<1>1. /\ Head(q) \in Message /\ Head(q) = q[1] /\ Tail(q) \in Seq(Message) /\ 1 \in DOMAIN q
      /\ \A j \in DOMAIN Tail(q) : j + 1 \in DOMAIN q /\ j + 1 # 1 /\ Tail(q)[j] = q[j + 1]
      /\ \A i \in DOMAIN q : i = 1 \/ (i - 1 \in DOMAIN Tail(q) /\ Tail(q)[i - 1] = q[i])
  BY TailOf
<1>2. ASSUME NEW i \in DOMAIN q, q[i].kind = "close", Head(q).kind # "close"
      PROVE  Ends(Tail(q))
  <2>1. i - 1 \in DOMAIN Tail(q) /\ Tail(q)[i - 1] = q[i]
    BY <1>1, <1>2
  <2> QED BY <2>1, <1>2, Zenon DEF Ends
<1>3. ASSUME Fresh(q, v) PROVE Fresh(Tail(q), v)
  <2> SUFFICES ASSUME NEW j \in DOMAIN Tail(q), Tail(q)[j].kind = "state"
               PROVE  Tail(q)[j].state.version <= v
    BY Zenon DEF Fresh
  <2>1. j + 1 \in DOMAIN q /\ Tail(q)[j] = q[j + 1]
    BY <1>1
  <2> QED BY <2>1, <1>3, Zenon DEF Fresh
<1>4. Fresh(q, v) /\ Head(q).kind = "state" => Head(q).state.version <= v
  BY <1>1, Zenon DEF Fresh
<1> QED BY <1>1, <1>2, <1>3, <1>4, Zenon DEF Ends

LEMMA EndsCat ==
  ASSUME NEW p \in Seq(Message), NEW q \in Seq(Message), NEW v
  PROVE  /\ p \o q \in Seq(Message)
         /\ Ends(p) \/ Ends(q) => Ends(p \o q)
         /\ Fresh(p, v) /\ Fresh(q, v) => Fresh(p \o q, v)
<1>1. /\ p \o q \in Seq(Message)
      /\ \A i \in DOMAIN p : i \in DOMAIN (p \o q) /\ (p \o q)[i] = p[i]
      /\ \A j \in DOMAIN q : Len(p) + j \in DOMAIN (p \o q) /\ (p \o q)[Len(p) + j] = q[j]
      /\ \A i \in DOMAIN (p \o q) : \/ i \in DOMAIN p /\ (p \o q)[i] = p[i]
                                    \/ i - Len(p) \in DOMAIN q /\ (p \o q)[i] = q[i - Len(p)]
  BY CatOf
<1> DEFINE r == p \o q
<1> HIDE DEF r
<1>2. Ends(p) \/ Ends(q) => Ends(r)
  BY <1>1, Zenon DEF Ends, r
<1>3. ASSUME Fresh(p, v), Fresh(q, v) PROVE Fresh(r, v)
  <2> SUFFICES ASSUME NEW i \in DOMAIN r, r[i].kind = "state"
               PROVE  r[i].state.version <= v
    BY Zenon DEF Fresh
  <2>1. (i \in DOMAIN p /\ r[i] = p[i]) \/ (i - Len(p) \in DOMAIN q /\ r[i] = q[i - Len(p)])
    BY <1>1 DEF r
  <2> QED BY <2>1, <1>3, Zenon DEF Fresh
<1> QED BY <1>1, <1>2, <1>3 DEF r

-----------------------------------------------------------------------------
(* What may happen to a socket.                                             *)

LEMMA VersionOf ==
  ASSUME NEW x \in State
  PROVE  x.version \in Nat
BY DEF State

\* The world goes on: another socket becomes current, other targets come and go.
LEMMA OthersGood ==
  ASSUME NEW r, NEW s, NEW c, NEW T, NEW v \in Nat, Good(r, s, c, T, v),
         NEW d, NEW U, NEW w \in Nat, v <= w,
         r.end \in {"connecting", "open"} => s = d,
         \/ s \in U <=> s \in T
         \/ s \notin U /\ (r.end \in {"connecting", "open"} => Ends(r.inbox))
  PROVE  Good(r, s, d, U, w)
<1>1. Sound(r, s, d, U)
  BY DEF Good, Sound
<1>2. Fresh(r.inbox, w)
  <2> SUFFICES ASSUME NEW i \in DOMAIN r.inbox, r.inbox[i].kind = "state"
               PROVE  r.inbox[i].state.version <= w
    BY Zenon DEF Fresh
  <2>1. r.inbox[i].state.version <= v
    BY Zenon DEF Good, Fresh
  <2>2. PICK m \in Message : m = r.inbox[i]
    BY DEF Good, Record
  <2>3. m.state \in State
    BY <2>2 DEF Message
  <2>4. m.state.version \in Nat /\ m.state.version <= v
    <3>1. m.state.version \in Nat
      BY <2>3, VersionOf
    <3>2. m.state.version <= v
      BY <2>1, <2>2, Zenon
    <3> QED BY <3>1, <3>2
  <2>5. m.state.version <= w
    BY <2>4
  <2> QED BY <2>2, <2>5
<1> QED BY <1>1, <1>2 DEF Good

\* The page takes a message that is neither the opening nor the close of the socket.
LEMMA TakenGood ==
  ASSUME NEW r, NEW s, NEW c, NEW T, NEW v, Good(r, s, c, T, v),
         r.inbox # <<>>, Head(r.inbox).kind \notin {"open", "close"},
         NEW u \in Record, u.end = r.end, u.accepted = r.accepted,
         u.inbox = Tail(r.inbox), u.outbox = r.outbox
  PROVE  Good(u, s, c, T, v)
<1>1. r.inbox \in Seq(Message)
  BY DEF Good, Record
<1>2. (Ends(r.inbox) => Ends(u.inbox)) /\ Fresh(u.inbox, v)
  BY <1>1, EndsTail DEF Good
<1>3. \A j \in DOMAIN u.inbox : j + 1 \in DOMAIN r.inbox /\ j + 1 # 1 /\ u.inbox[j] = r.inbox[j + 1]
  BY <1>1, TailOf
<1>4. Opening(u)
  BY <1>3, Zenon DEF Opening, Good
<1>5. Sound(u, s, c, T)
  BY <1>2 DEF Good, Sound
<1> QED BY <1>2, <1>4, <1>5 DEF Good

\* It learns that the socket is open ...
LEMMA OpenedGood ==
  ASSUME NEW r, NEW s, NEW c, NEW T, NEW v, Good(r, s, c, T, v),
         r.inbox # <<>>, Head(r.inbox).kind = "open",
         NEW u \in Record, u.end = "open", u.accepted = r.accepted,
         u.inbox = Tail(r.inbox), u.outbox = r.outbox
  PROVE  Good(u, s, c, T, v) /\ r.end = "connecting"
<1>1. r.inbox \in Seq(Message)
  BY DEF Good, Record
<1>2. (Ends(r.inbox) => Ends(u.inbox)) /\ Fresh(u.inbox, v)
  BY <1>1, EndsTail DEF Good
<1>3. /\ Head(r.inbox) = r.inbox[1] /\ 1 \in DOMAIN r.inbox
      /\ \A j \in DOMAIN u.inbox : j + 1 \in DOMAIN r.inbox /\ j + 1 # 1 /\ u.inbox[j] = r.inbox[j + 1]
  BY <1>1, TailOf
<1>4. r.end = "connecting"
  BY <1>3, Zenon DEF Opening, Good
<1>5. Opening(u)
  BY <1>3, Zenon DEF Opening, Good
<1>6. Sound(u, s, c, T)
  BY <1>2, <1>4 DEF Good, Sound
<1> QED BY <1>2, <1>4, <1>5, <1>6 DEF Good

\* ... or that the fixture closed it.
LEMMA ClosedGood ==
  ASSUME NEW r, NEW s, NEW c, NEW T, NEW v, Good(r, s, c, T, v),
         r.inbox # <<>>, Head(r.inbox).kind = "close",
         NEW u \in Record, u.end = "closed", u.accepted = r.accepted, u.inbox = Tail(r.inbox),
         u.outbox = IF r.end = "closing" THEN r.outbox ELSE Append(r.outbox, "close")
  PROVE  \A d : Good(u, s, d, T, v)
<1>1. r.inbox \in Seq(Message) /\ r.outbox \in Seq(Frame)
  BY DEF Good, Record
<1>2. Fresh(u.inbox, v)
  BY <1>1, EndsTail DEF Good
<1>3. \A j \in DOMAIN u.inbox : j + 1 \in DOMAIN r.inbox /\ j + 1 # 1 /\ u.inbox[j] = r.inbox[j + 1]
  BY <1>1, TailOf
<1>4. Opening(u)
  BY <1>3, Zenon DEF Opening, Good
<1>5. r.end # "closing" => Closing(u.outbox)
  <2>1. Closing(Append(r.outbox, "close"))
    BY <1>1, ClosingAppend DEF Frame
  <2> QED BY <2>1
<1>6. r.end = "closing" /\ s \in T => Closing(u.outbox)
  BY DEF Good, Sound
<1>7. \A d : Sound(u, s, d, T)
  BY <1>5, <1>6 DEF Good, Sound
<1> QED BY <1>2, <1>4, <1>7 DEF Good

\* The page gives a socket up.
LEMMA GivenUpGood ==
  ASSUME NEW r, NEW s, NEW c, NEW T, NEW v, Good(r, s, c, T, v)
  PROVE  \A d : Good(GivenUp(r), s, d, T, v)
<1>1. CASE r.end \in {"unused", "closed"}
  <2>1. GivenUp(r) = r
    BY <1>1 DEF GivenUp
  <2>2. \A d : Sound(r, s, d, T)
    BY <1>1 DEF Good, Sound
  <2> QED BY <2>1, <2>2 DEF Good
<1>2. CASE r.end \notin {"unused", "closed"}
  <2>1. r \in Record /\ r.outbox \in Seq(Frame)
    BY DEF Good, Record
  <2>2. Append(r.outbox, "close") \in Seq(Frame) /\ Closing(Append(r.outbox, "close"))
    BY <2>1, ClosingAppend DEF Frame
  <2>3. PICK o \in Seq(Frame) :
          o = IF r.end = "closing" THEN r.outbox ELSE Append(r.outbox, "close")
    BY <2>1, <2>2
  <2> DEFINE u == [r EXCEPT !.end = "closed", !.inbox = <<>>, !.outbox = o]
  <2>9. GivenUp(r) = u
    <3>1. GivenUp(r) = [r EXCEPT !.end = "closed", !.inbox = <<>>,
                                 !.outbox = IF r.end = "closing" THEN @ ELSE Append(@, "close")]
      BY <1>2 DEF GivenUp
    <3> QED BY <3>1, <2>1, <2>3 DEF Record
  <2>4. /\ u.end = "closed" /\ u.accepted = r.accepted /\ u.inbox = <<>>
        /\ u.outbox = IF r.end = "closing" THEN r.outbox ELSE Append(r.outbox, "close")
        /\ u \in Record
    <3>1. <<>> \in Seq(Message)
      OBVIOUS
    <3>2. u.end = "closed" /\ u.accepted = r.accepted /\ u.inbox = <<>> /\ u.outbox = o
      BY <2>1 DEF Record
    <3>3. u \in Record
      BY <2>1, <3>1 DEF Record
    <3> QED BY <2>3, <3>2, <3>3
  <2> HIDE DEF u
  <2>5. Opening(u) /\ Fresh(u.inbox, v)
    BY <2>4 DEF Opening, Fresh
  <2>6. \A d : Sound(u, s, d, T)
    <3>1. r.end # "closing" => Closing(u.outbox)
      BY <2>2, <2>4
    <3>2. r.end = "closing" => u.accepted /\ (s \in T => Closing(u.outbox))
      BY <2>4 DEF Good, Sound
    <3>3. s \in T => u.accepted
      BY <2>4 DEF Good, Sound
    <3> QED BY <3>1, <3>2, <3>3, <2>4 DEF Sound
  <2> QED BY <2>9, <2>4, <2>5, <2>6 DEF Good
<1> QED BY <1>1, <1>2

\* The fixture sends messages to a socket that it has accepted; with a close it may forget
\* the target.
LEMMA SentGood ==
  ASSUME NEW r, NEW s, NEW c, NEW T, NEW v, Good(r, s, c, T, v), r.accepted,
         NEW q \in Seq(Message), Fresh(q, v), \A i \in DOMAIN q : q[i].kind # "open",
         NEW U, (s \in U <=> s \in T) \/ (s \notin U /\ Ends(q))
  PROVE  Good(Sent(r, q), s, c, U, v) /\ Sent(r, q).accepted
<1>1. r \in Record /\ r.inbox \in Seq(Message)
  BY DEF Good, Record
<1>2. CASE r.end \in {"unused", "closed"}
  <2>1. Sent(r, q) = r
    BY <1>2 DEF Sent
  <2>2. Sound(r, s, c, U)
    BY <1>2 DEF Good, Sound
  <2> QED BY <2>1, <2>2 DEF Good
<1>3. CASE r.end \notin {"unused", "closed"}
  <2> DEFINE p == r.inbox \o q
             u == [r EXCEPT !.inbox = p]
  <2>1. Sent(r, q) = u
    BY <1>3 DEF Sent
  <2>2. /\ p \in Seq(Message) /\ (Ends(r.inbox) \/ Ends(q) => Ends(p))
        /\ Fresh(r.inbox, v) /\ Fresh(q, v) => Fresh(p, v)
    BY <1>1, EndsCat
  <2>3. \A i \in DOMAIN p : \/ i \in DOMAIN r.inbox /\ p[i] = r.inbox[i]
                            \/ p[i].kind # "open"
    BY <1>1, CatOf
  <2> HIDE DEF p
  <2>4. /\ u \in Record /\ u.end = r.end /\ u.accepted = r.accepted
        /\ u.inbox = p /\ u.outbox = r.outbox
    BY <1>1, <2>2 DEF Record
  <2> HIDE DEF u
  <2>5. Fresh(u.inbox, v)
    BY <2>2, <2>4 DEF Good
  <2>6. Opening(u)
    BY <2>3, <2>4, Zenon DEF Opening, Good
  <2>7. Sound(u, s, c, U)
    BY <2>2, <2>4, <1>3 DEF Good, Sound
  <2> QED BY <2>1, <2>4, <2>5, <2>6, <2>7 DEF Good
<1> QED BY <1>2, <1>3

\* It accepts a socket that may have been given up, and makes it a target or closes it.
LEMMA AcceptGood ==
  ASSUME NEW r, NEW s, NEW c, NEW T, NEW v, Good(r, s, c, T, v), ~r.accepted, r.end # "unused",
         NEW q \in Seq(Message), Fresh(q, v), \A i \in DOMAIN q : q[i].kind = "open" => i = 1,
         NEW U, s \in U \/ (Ends(q) /\ s \notin U)
  PROVE  Good(Sent([r EXCEPT !.accepted = TRUE], q), s, c, U, v)
<1>1. /\ r \in Record /\ r.inbox = <<>> /\ r.end \in {"connecting", "closed"}
      /\ r.end = "closed" => Closing(r.outbox)
  BY DEF Good, Sound, Record
<1> DEFINE a == [r EXCEPT !.accepted = TRUE]
<1>2. a \in Record /\ a.end = r.end /\ a.accepted = TRUE /\ a.inbox = <<>> /\ a.outbox = r.outbox
  BY <1>1 DEF Record
<1> HIDE DEF a
<1>3. CASE r.end = "closed"
  <2>1. Sent(a, q) = a
    BY <1>2, <1>3 DEF Sent
  <2>2. Opening(a) /\ Fresh(a.inbox, v)
    BY <1>2 DEF Opening, Fresh
  <2>3. Sound(a, s, c, U)
    BY <1>1, <1>2, <1>3 DEF Sound
  <2> QED BY <2>1, <2>2, <2>3, <1>2 DEF Good, a
<1>4. CASE r.end = "connecting"
  <2> DEFINE u == [a EXCEPT !.inbox = <<>> \o q]
  <2>1. Sent(a, q) = u
    BY <1>2, <1>4 DEF Sent
  <2>2. <<>> \o q = q
    OBVIOUS
  <2>3. /\ u \in Record /\ u.end = "connecting" /\ u.accepted = TRUE
        /\ u.inbox = q /\ u.outbox = r.outbox
    BY <1>2, <1>4, <2>2 DEF Record
  <2> HIDE DEF u
  <2>4. Opening(u) /\ Fresh(u.inbox, v)
    BY <2>3 DEF Opening
  <2>5. Sound(u, s, c, U)
    BY <2>3, <1>4 DEF Good, Sound
  <2> QED BY <2>1, <2>3, <2>4, <2>5 DEF Good, a
<1> QED BY <1>1, <1>3, <1>4

\* The fixture takes what the page sent: a command, or the close of the socket.
LEMMA ConsumedGood ==
  ASSUME NEW r, NEW s, NEW c, NEW T, NEW v, Good(r, s, c, T, v), r.accepted, r.outbox # <<>>,
         NEW u \in Record, u.end = r.end, u.accepted = r.accepted, u.inbox = r.inbox,
         u.outbox = Tail(r.outbox),
         NEW U, \/ Head(r.outbox) # "close" /\ U = T
                \/ Head(r.outbox) = "close" /\ U = T \ {s}
  PROVE  Good(u, s, c, U, v)
<1>1. r.outbox \in Seq(Frame)
  BY DEF Good, Record
<1>2. /\ Closing(u.outbox) => Closing(r.outbox)
      /\ Closing(r.outbox) /\ Head(r.outbox) # "close" => Closing(u.outbox)
      /\ Head(r.outbox) = "close" => Closing(r.outbox)
  BY <1>1, ClosingTail
<1>3. Opening(u)
  BY DEF Good, Opening
<1>4. Sound(u, s, c, U)
  BY <1>2 DEF Good, Sound
<1> QED BY <1>3, <1>4 DEF Good

\* The page sends a command on a socket that is open, or closes it.
LEMMA SubmittedGood ==
  ASSUME NEW r, NEW s, NEW c, NEW T, NEW v, Good(r, s, c, T, v), r.end = "open",
         NEW u \in Record, u.accepted = r.accepted, u.inbox = r.inbox, NEW x \in Frame,
         u.outbox = Append(r.outbox, x),
         \/ x # "close" /\ u.end = "open"
         \/ x = "close" /\ u.end = "closing"
  PROVE  Good(u, s, c, T, v)
<1>1. r.outbox \in Seq(Frame)
  BY DEF Good, Record
<1>2. Closing(u.outbox) <=> Closing(r.outbox) \/ x = "close"
  BY <1>1, ClosingAppend
<1>3. Opening(u)
  BY Zenon DEF Good, Opening
<1>4. Sound(u, s, c, T)
  BY <1>2 DEF Good, Sound
<1> QED BY <1>3, <1>4 DEF Good

-----------------------------------------------------------------------------
(* The invariant.                                                           *)

PageRecord == [public : BOOLEAN, current : Socket \cup {0}, reconnect : BOOLEAN,
               commandConnected : BOOLEAN, live : BOOLEAN, view : {NoView} \cup State,
               polled : BOOLEAN, pending : Commands \cup {"none"},
               message : {"none", "sending", "accepted", "rejected", "unknown", "unavailable"}]
Answer  == [step : {"answered"}, native : BOOLEAN, state : State]
Fixture == [state : State, reject : BOOLEAN, paused : BOOLEAN, commands : Seq(Commands),
            targets : SUBSET Socket, connections : Nat]

Version == fixture.state.version

TypeOK ==
  /\ page \in PageRecord /\ fixture \in Fixture
  /\ poll \in {NoPoll, [step |-> "asked"]} \cup Answer
  /\ socket \in [Socket -> Record]

\* A page that connects has no socket, and one that may send commands has.
ConnectInv ==
  /\ page.reconnect => page.current = 0
  /\ page.commandConnected => page.current \in Socket

\* The answer of a poll that is still heard is no older than what is shown: whatever shows
\* something newer aborts the poll.
VersionInv ==
  /\ page.view.version <= Version
  /\ poll.step = "answered" =>
       page.view.version <= poll.state.version /\ poll.state.version <= Version

SocketsInv == \A s \in Socket : Good(socket[s], s, page.current, fixture.targets, Version)

IInv == TypeOK /\ ConnectInv /\ VersionInv /\ SocketsInv

LEMMA Versions ==
  ASSUME TypeOK
  PROVE  /\ Version \in Nat /\ page.view.version \in Nat
         /\ poll.step = "answered" => poll \in Answer /\ poll.state.version \in Nat
<1>1. Version \in Nat
  <2>1. fixture.state \in State
    BY DEF TypeOK, Fixture
  <2> QED BY <2>1, VersionOf DEF Version
<1>2. page.view.version \in Nat
  <2>1. page.view = NoView \/ page.view \in State
    BY DEF TypeOK, PageRecord
  <2>2. NoView.version = 0
    BY DEF NoView
  <2> QED BY <2>1, <2>2, VersionOf
<1>3. poll.step = "answered" => poll \in Answer
  BY DEF TypeOK, NoPoll
<1>4. ASSUME poll \in Answer PROVE poll.state.version \in Nat
  <2>1. poll.state \in State
    BY <1>4 DEF Answer
  <2> QED BY <2>1, VersionOf
<1> QED BY <1>1, <1>2, <1>3, <1>4

\* A step that changes one socket.
LEMMA OneSocket ==
  ASSUME TypeOK, SocketsInv, NEW s \in Socket, socket' \in [Socket -> Record],
         \A q \in Socket \ {s} : socket'[q] = socket[q],
         Good(socket'[s], s, page'.current, fixture'.targets, Version'),
         page'.current = page.current \/ page.current \in {s, 0},
         \A q \in Socket \ {s} : q \in fixture'.targets <=> q \in fixture.targets,
         Version' \in Nat, Version <= Version'
  PROVE  SocketsInv'
<1>1. Version \in Nat
  BY Versions
<1>2. 0 \notin Socket
  BY SocketAssumption
<1>3. ASSUME NEW q \in Socket, q # s
      PROVE  Good(socket[q], q, page'.current, fixture'.targets, Version')
  <2>1. Good(socket[q], q, page.current, fixture.targets, Version)
    BY DEF SocketsInv
  <2>2. socket[q].end \in {"connecting", "open"} => q = page'.current
    <3>1. socket[q].end \in {"connecting", "open"} => q = page.current
      BY <2>1 DEF Good, Sound
    <3> QED BY <3>1, <1>2, <1>3
  <2>3. q \in fixture'.targets <=> q \in fixture.targets
    BY <1>3
  <2> QED BY <1>1, <2>1, <2>2, <2>3, OthersGood
<1>4. ASSUME NEW q \in Socket PROVE Good(socket[q], q, page.current, fixture.targets, Version)'
  <2>1. CASE q = s
    BY <2>1
  <2>2. CASE q # s
    <3>1. socket'[q] = socket[q]
      BY <2>2
    <3> QED BY <3>1, <2>2, <1>3
  <2> QED BY <2>1, <2>2
<1> QED BY <1>4 DEF SocketsInv

\* A step that leaves the targets and the state of the fixture as they are.
Settled == fixture' \in Fixture /\ Version' = Version /\ fixture'.targets = fixture.targets

LEMMA StaysSettled ==
  ASSUME TypeOK, UNCHANGED fixture
  PROVE  Settled
BY DEF TypeOK, Settled, Version

\* A step that changes no socket.
LEMMA NoSocket ==
  ASSUME TypeOK, SocketsInv, UNCHANGED socket, Settled, page'.current = page.current
  PROVE  SocketsInv' /\ socket' \in [Socket -> Record]
BY DEF SocketsInv, TypeOK, Settled

-----------------------------------------------------------------------------
(* The page.                                                                *)

LEMMA MessageOf ==
  ASSUME NEW m \in Message
  PROVE  /\ m.kind = "state" => m.state \in State
         /\ m.kind \in {"accepted", "rejected"} => m.command \in Commands
BY DEF Message

LEMMA TakenIs ==
  ASSUME TypeOK, NEW s \in Socket, socket[s].inbox # <<>>
  PROVE  /\ Taken(s) \in [Socket -> Record] /\ Head1(s) \in Message
         /\ Taken(s)[s].end = socket[s].end /\ Taken(s)[s].accepted = socket[s].accepted
         /\ Taken(s)[s].inbox = Tail(socket[s].inbox)
         /\ Taken(s)[s].outbox = socket[s].outbox
         /\ \A q \in Socket \ {s} : Taken(s)[q] = socket[q]
<1>1. socket \in [Socket -> Record] /\ socket[s] \in Record /\ socket[s].inbox \in Seq(Message)
  BY DEF TypeOK, Record
<1>2. Tail(socket[s].inbox) \in Seq(Message) /\ Head1(s) \in Message
  BY <1>1, TailOf DEF Head1
<1>3. PICK t \in Seq(Message) : t = Tail(socket[s].inbox)
  BY <1>2
<1>4. [socket[s] EXCEPT !.inbox = t] \in Record
  BY <1>1 DEF Record
<1>5. Taken(s) = [socket EXCEPT ![s].inbox = t]
  BY <1>3, Zenon DEF Taken
<1>6. Taken(s) \in [Socket -> Record] /\ Taken(s)[s] = [socket[s] EXCEPT !.inbox = t]
      /\ \A q \in Socket \ {s} : Taken(s)[q] = socket[q]
  BY <1>1, <1>4, <1>5
<1>7. /\ Taken(s)[s].end = socket[s].end /\ Taken(s)[s].accepted = socket[s].accepted
      /\ Taken(s)[s].inbox = t /\ Taken(s)[s].outbox = socket[s].outbox
  BY <1>1, <1>6 DEF Record
<1> QED BY <1>2, <1>3, <1>6, <1>7

\* What is to be shown of a step of the page that leaves the sockets and the state of the fixture alone.
LEMMA QuietStep ==
  ASSUME IInv, UNCHANGED socket, Settled, page' \in PageRecord,
         page'.current = page.current, page'.reconnect = page.reconnect,
         page'.commandConnected = page.commandConnected,
         \/ page'.view = page.view /\ (UNCHANGED poll \/ poll' = NoPoll \/ poll' = [step |-> "asked"])
         \/ poll' = NoPoll /\ page'.view.version <= Version
  PROVE  IInv'
<1>1. fixture' \in Fixture /\ Version' = Version /\ socket' \in [Socket -> Record]
  BY DEF IInv, TypeOK, Settled
<1>2. poll' \in {NoPoll, [step |-> "asked"]} \cup Answer
  BY DEF IInv, TypeOK
<1>3. TypeOK'
  BY <1>1, <1>2 DEF TypeOK, Fixture
<1>4. ConnectInv'
  BY DEF IInv, ConnectInv
<1>5. VersionInv'
  <2>1. CASE UNCHANGED poll /\ page'.view = page.view
    BY <1>1, <2>1 DEF IInv, VersionInv
  <2>2. CASE poll' = NoPoll \/ poll' = [step |-> "asked"]
    <3>1. poll'.step # "answered"
      BY <2>2 DEF NoPoll
    <3>2. page'.view.version <= Version
      BY DEF IInv, VersionInv
    <3> QED BY <3>1, <3>2, <1>1 DEF VersionInv
  <2> QED BY <2>1, <2>2
<1>6. SocketsInv'
  BY NoSocket DEF IInv
<1> QED BY <1>3, <1>4, <1>5, <1>6 DEF IInv

\* And of one in which it changes a socket.
LEMMA SocketStep ==
  ASSUME IInv, Settled, NEW s \in Socket, socket' \in [Socket -> Record],
         \A q \in Socket \ {s} : socket'[q] = socket[q],
         Good(socket'[s], s, page'.current, fixture.targets, Version),
         page' \in PageRecord, page'.current = page.current \/ page.current \in {s, 0},
         page'.reconnect => page'.current = 0,
         page'.commandConnected => page'.current \in Socket,
         \/ page'.view = page.view /\ UNCHANGED poll
         \/ poll' = NoPoll /\ page'.view.version <= Version
  PROVE  IInv'
<1>1. /\ fixture' \in Fixture /\ Version' = Version /\ fixture'.targets = fixture.targets
      /\ Version \in Nat
  BY Versions DEF IInv, Settled
<1>2. TypeOK'
  BY <1>1 DEF IInv, TypeOK, Fixture
<1>3. ConnectInv'
  BY DEF ConnectInv
<1>4. VersionInv'
  <2>1. CASE UNCHANGED poll /\ page'.view = page.view
    BY <1>1, <2>1 DEF IInv, VersionInv
  <2>2. CASE poll' = NoPoll /\ page'.view.version <= Version
    <3>1. poll'.step # "answered"
      BY <2>2 DEF NoPoll
    <3> QED BY <3>1, <2>2, <1>1 DEF VersionInv
  <2> QED BY <2>1, <2>2
<1>5. SocketsInv'
  BY <1>1, OneSocket DEF IInv
<1> QED BY <1>2, <1>3, <1>4, <1>5 DEF IInv

LEMMA ConnectStep ==
  ASSUME IInv, Connect, Settled
  PROVE  IInv'
<1>1. PICK s \in Socket :
        /\ socket[s] = Unused
        /\ socket' = [socket EXCEPT ![s].end = "connecting"]
        /\ page' = [page EXCEPT !.current = s, !.reconnect = FALSE]
  BY Zenon DEF Connect
<1>2. page.reconnect /\ UNCHANGED poll
  BY DEF Connect
<1>3. page \in PageRecord /\ socket \in [Socket -> Record] /\ page.current = 0
  BY <1>2 DEF IInv, TypeOK, ConnectInv
<1>4. Good(socket[s], s, page.current, fixture.targets, Version)
  BY DEF IInv, SocketsInv
<1> DEFINE u == [socket[s] EXCEPT !.end = "connecting"]
<1>5. /\ u \in Record /\ u.end = "connecting" /\ u.accepted = FALSE
      /\ u.inbox = <<>> /\ u.outbox = <<>>
  <2>1. socket[s] \in Record
    BY <1>3
  <2>2. socket[s].accepted = FALSE /\ socket[s].inbox = <<>> /\ socket[s].outbox = <<>>
    <3>1. Unused.accepted = FALSE /\ Unused.inbox = <<>> /\ Unused.outbox = <<>>
      BY DEF Unused
    <3> QED BY <1>1, <3>1
  <2> QED BY <2>1, <2>2 DEF Record
<1>6. socket'[s] = u /\ socket' \in [Socket -> Record] /\ \A q \in Socket \ {s} : socket'[q] = socket[q]
  BY <1>1, <1>3, <1>5
<1> HIDE DEF u
<1>7. Good(u, s, s, fixture.targets, Version)
  <2>1. s \notin fixture.targets
    BY <1>1, <1>4 DEF Good, Sound, Unused
  <2>2. Opening(u) /\ Fresh(u.inbox, Version)
    BY <1>5 DEF Opening, Fresh
  <2>3. ~Closing(u.outbox)
    BY <1>5 DEF Closing
  <2> QED BY <1>5, <2>1, <2>2, <2>3 DEF Good, Sound
<1>8. /\ page' \in PageRecord /\ page'.current = s /\ ~page'.reconnect /\ page'.view = page.view
  BY <1>1, <1>3 DEF PageRecord
<1> QED BY <1>2, <1>3, <1>6, <1>7, <1>8, SocketStep

LEMMA OpenedStep ==
  ASSUME IInv, NEW s \in Socket, Opened(s), Settled
  PROVE  IInv'
<1> DEFINE t == Taken(s)
<1>1. /\ socket[s].inbox # <<>> /\ Head(socket[s].inbox).kind = "open" /\ UNCHANGED poll
      /\ socket' = [t EXCEPT ![s].end = "open"]
      /\ page' = [page EXCEPT !.commandConnected = (s = page.current) \/ @]
  BY DEF Opened, Handles, Head1
<1>2. /\ t \in [Socket -> Record] /\ t[s].accepted = socket[s].accepted
      /\ t[s].inbox = Tail(socket[s].inbox) /\ t[s].outbox = socket[s].outbox
      /\ \A q \in Socket \ {s} : t[q] = socket[q]
  BY <1>1, TakenIs DEF IInv
<1> HIDE DEF t
<1>3. Good(socket[s], s, page.current, fixture.targets, Version)
  BY DEF IInv, SocketsInv
<1> DEFINE u == [t[s] EXCEPT !.end = "open"]
<1>4. /\ u \in Record /\ u.end = "open" /\ u.accepted = t[s].accepted
      /\ u.inbox = t[s].inbox /\ u.outbox = t[s].outbox
  BY <1>2 DEF Record
<1>5. socket'[s] = u /\ socket' \in [Socket -> Record] /\ \A q \in Socket \ {s} : socket'[q] = t[q]
  BY <1>1, <1>2, <1>4
<1> HIDE DEF u
<1>6. Good(u, s, page.current, fixture.targets, Version) /\ socket[s].end = "connecting"
  BY <1>1, <1>2, <1>3, <1>4, OpenedGood
<1>7. s = page.current
  BY <1>3, <1>6 DEF Good, Sound
<1>8. page \in PageRecord
  BY DEF IInv, TypeOK
<1>9. /\ page' \in PageRecord /\ page'.current = page.current /\ page'.reconnect = page.reconnect
      /\ page'.view = page.view
  BY <1>1, <1>7, <1>8 DEF PageRecord
<1>10. page'.reconnect => page'.current = 0
  BY <1>9 DEF IInv, ConnectInv
<1> QED BY <1>1, <1>2, <1>5, <1>6, <1>7, <1>9, <1>10, SocketStep

LEMMA LostIs ==
  ASSUME page \in PageRecord
  PROVE  /\ Lost(page) \in PageRecord /\ Lost(page).view = page.view
         /\ Lost(page).current = page.current
BY DEF Lost, PageRecord

LEMMA ClosedStep ==
  ASSUME IInv, NEW s \in Socket, Closed(s), Settled
  PROVE  IInv'
<1> DEFINE t == Taken(s)
<1>1. /\ socket[s].inbox # <<>> /\ Head(socket[s].inbox).kind = "close"
      /\ socket' = [t EXCEPT ![s].end = "closed",
                             ![s].outbox = IF socket[s].end = "closing" THEN @
                                           ELSE Append(@, "close")]
  BY DEF Closed, Handles, Head1
<1>2. /\ t \in [Socket -> Record] /\ t[s].accepted = socket[s].accepted
      /\ t[s].inbox = Tail(socket[s].inbox) /\ t[s].outbox = socket[s].outbox
      /\ \A q \in Socket \ {s} : t[q] = socket[q]
  BY <1>1, TakenIs DEF IInv
<1> HIDE DEF t
<1>3. Good(socket[s], s, page.current, fixture.targets, Version)
  BY DEF IInv, SocketsInv
<1>4. t[s].outbox \in Seq(Frame)
  BY <1>2 DEF Record
<1>5. Append(t[s].outbox, "close") \in Seq(Frame)
  BY <1>4, ClosingAppend DEF Frame
<1>6. PICK o \in Seq(Frame) :
        o = IF socket[s].end = "closing" THEN t[s].outbox ELSE Append(t[s].outbox, "close")
  BY <1>4, <1>5
<1> DEFINE u == [t[s] EXCEPT !.end = "closed", !.outbox = o]
<1>7. /\ u \in Record /\ u.end = "closed" /\ u.accepted = t[s].accepted
      /\ u.inbox = t[s].inbox /\ u.outbox = o
  BY <1>2 DEF Record
<1>8. /\ socket'[s] = u /\ socket' \in [Socket -> Record]
      /\ \A q \in Socket \ {s} : socket'[q] = t[q]
  <2>1. s \in DOMAIN t
    BY <1>2
  <2>2. socket' = [t EXCEPT ![s] = u]
    BY <1>1, <1>2, <1>6, <2>1
  <2> QED BY <1>2, <1>7, <2>2
<1> HIDE DEF u
<1>9. \A d : Good(u, s, d, fixture.targets, Version)
  <2>1. u.outbox = IF socket[s].end = "closing" THEN socket[s].outbox
                   ELSE Append(socket[s].outbox, "close")
    BY <1>2, <1>6, <1>7
  <2> QED BY <1>1, <1>2, <1>3, <1>7, <2>1, ClosedGood
<1>10. page \in PageRecord
  BY DEF IInv, TypeOK
<1>11. CASE s = page.current
  <2>1. /\ page' = [Lost(page) EXCEPT !.current = 0, !.commandConnected = FALSE,
                            !.live = page.live /\ page.polled, !.reconnect = TRUE]
        /\ poll' = NoPoll
    BY <1>11 DEF Closed
  <2>2. PICK b \in BOOLEAN : b = (page.live /\ page.polled)
    BY <1>10 DEF PageRecord
  <2>5. PICK p \in PageRecord : p = Lost(page) /\ p.view = page.view
    BY <1>10, LostIs
  <2>6. page' = [p EXCEPT !.current = 0, !.commandConnected = FALSE, !.live = b, !.reconnect = TRUE]
    BY <2>1, <2>2, <2>5, Zenon
  <2>3. /\ page' \in PageRecord /\ page'.current = 0 /\ page'.commandConnected = FALSE
        /\ page'.view = page.view
    BY <2>5, <2>6 DEF PageRecord
  <2>4. page'.view.version <= Version
    BY <2>3 DEF IInv, VersionInv
  <2> QED BY <1>2, <1>8, <1>9, <1>11, <2>1, <2>3, <2>4, SocketStep
<1>12. CASE s # page.current
  <2>1. UNCHANGED <<page, poll>>
    BY <1>12 DEF Closed
  <2>2. /\ page'.reconnect => page'.current = 0
        /\ page'.commandConnected => page'.current \in Socket
    BY <2>1 DEF IInv, ConnectInv
  <2> QED BY <1>2, <1>8, <1>9, <1>10, <2>1, <2>2, SocketStep
<1> QED BY <1>11, <1>12

LEMMA FramedStep ==
  ASSUME IInv, NEW s \in Socket, Framed(s), Settled
  PROVE  IInv'
<1> DEFINE t == Taken(s)
<1>1. socket[s].inbox # <<>> /\ Head(socket[s].inbox).kind = "state" /\ socket' = t
  BY DEF Framed, Handles, Head1
<1>2. /\ t \in [Socket -> Record] /\ t[s].accepted = socket[s].accepted /\ t[s].end = socket[s].end
      /\ t[s].inbox = Tail(socket[s].inbox) /\ t[s].outbox = socket[s].outbox
      /\ \A q \in Socket \ {s} : t[q] = socket[q]
  BY <1>1, TakenIs DEF IInv
<1> HIDE DEF t
<1>3. Good(socket[s], s, page.current, fixture.targets, Version)
  BY DEF IInv, SocketsInv
<1>4. Good(t[s], s, page.current, fixture.targets, Version) /\ t[s] \in Record
  <2>1. t[s] \in Record
    BY <1>2
  <2> QED BY <1>1, <1>2, <1>3, <2>1, TakenGood
<1>5. page \in PageRecord /\ socket[s].inbox \in Seq(Message)
  BY DEF IInv, TypeOK, Record
<1>6. Head1(s) \in Message /\ Head1(s).state.version <= Version
  BY <1>1, <1>3, <1>5, EndsTail DEF Good, Head1
<1>7. Head1(s).state \in State
  BY <1>1, <1>6, MessageOf DEF Head1
<1>8. CASE s = page.current
  <2>1. /\ page' = [page EXCEPT !.view = Head1(s).state, !.live = TRUE, !.polled = FALSE]
        /\ poll' = NoPoll
    BY <1>8 DEF Framed
  <2>2. /\ page' \in PageRecord /\ page'.current = page.current /\ page'.view = Head1(s).state
        /\ page'.reconnect = page.reconnect /\ page'.commandConnected = page.commandConnected
    BY <1>5, <1>7, <2>1 DEF PageRecord
  <2>3. /\ page'.reconnect => page'.current = 0
        /\ page'.commandConnected => page'.current \in Socket
    BY <2>2 DEF IInv, ConnectInv
  <2>4. page'.view.version <= Version
    BY <1>6, <2>2
  <2> QED BY <1>1, <1>2, <1>4, <2>1, <2>2, <2>3, <2>4, SocketStep
<1>9. CASE s # page.current
  <2>1. UNCHANGED <<page, poll>>
    BY <1>9 DEF Framed
  <2>2. /\ page'.reconnect => page'.current = 0
        /\ page'.commandConnected => page'.current \in Socket
    BY <2>1 DEF IInv, ConnectInv
  <2> QED BY <1>1, <1>2, <1>4, <1>5, <2>1, <2>2, SocketStep
<1> QED BY <1>8, <1>9

LEMMA ResolvedStep ==
  ASSUME IInv, NEW s \in Socket, Resolved(s), Settled
  PROVE  IInv'
<1> DEFINE t == Taken(s)
<1>1. /\ socket[s].inbox # <<>> /\ Head(socket[s].inbox).kind \in {"accepted", "rejected"}
      /\ socket' = t /\ UNCHANGED poll
  BY DEF Resolved, Head1
<1>2. /\ t \in [Socket -> Record] /\ t[s].accepted = socket[s].accepted /\ t[s].end = socket[s].end
      /\ t[s].inbox = Tail(socket[s].inbox) /\ t[s].outbox = socket[s].outbox
      /\ \A q \in Socket \ {s} : t[q] = socket[q]
  BY <1>1, TakenIs DEF IInv
<1> HIDE DEF t
<1>3. Good(socket[s], s, page.current, fixture.targets, Version)
  BY DEF IInv, SocketsInv
<1>4. Good(t[s], s, page.current, fixture.targets, Version)
  <2>1. t[s] \in Record
    BY <1>2
  <2> QED BY <1>1, <1>2, <1>3, <2>1, TakenGood
<1>5. page \in PageRecord
  BY DEF IInv, TypeOK
<1>6. /\ page' \in PageRecord /\ page'.current = page.current /\ page'.view = page.view
      /\ page'.reconnect = page.reconnect /\ page'.commandConnected = page.commandConnected
  <2>1. \/ page' = [page EXCEPT !.pending = "none", !.message = Head1(s).kind]
        \/ page' = page
    BY DEF Resolved
  <2>2. PICK k \in {"accepted", "rejected"} : k = Head1(s).kind
    BY <1>1 DEF Head1
  <2> QED BY <1>5, <2>1, <2>2 DEF PageRecord
<1>7. /\ page'.reconnect => page'.current = 0
      /\ page'.commandConnected => page'.current \in Socket
  BY <1>6 DEF IInv, ConnectInv
<1> QED BY <1>1, <1>2, <1>4, <1>6, <1>7, SocketStep

LEMMA ForgottenStep ==
  ASSUME IInv, NEW s \in Socket, Forgotten(s), Settled
  PROVE  IInv'
<1>1. /\ socket[s].end = "closed" /\ socket[s].outbox = <<>>
      /\ socket' = [socket EXCEPT ![s] = Unused] /\ UNCHANGED <<page, poll>>
  BY DEF Forgotten
<1>2. page \in PageRecord /\ socket \in [Socket -> Record]
  BY DEF IInv, TypeOK
<1>3. Unused \in Record
  <2>1. <<>> \in Seq(Message) /\ <<>> \in Seq(Frame)
    OBVIOUS
  <2> QED BY <2>1 DEF Unused, Record
<1>4. /\ socket'[s] = Unused /\ socket' \in [Socket -> Record]
      /\ \A q \in Socket \ {s} : socket'[q] = socket[q]
  BY <1>1, <1>2, <1>3
<1>5. Good(socket[s], s, page.current, fixture.targets, Version)
  BY DEF IInv, SocketsInv
<1>6. Good(Unused, s, page.current, fixture.targets, Version)
  <2>1. ~Closing(socket[s].outbox)
    BY <1>1 DEF Closing
  <2>2. s \notin fixture.targets
    BY <1>1, <1>5, <2>1 DEF Good, Sound
  <2>3. Unused.end = "unused" /\ Unused.inbox = <<>>
    BY DEF Unused
  <2>4. Opening(Unused) /\ Fresh(Unused.inbox, Version)
    BY <2>3 DEF Opening, Fresh
  <2> QED BY <1>3, <2>2, <2>3, <2>4 DEF Good, Sound
<1>7. /\ page'.reconnect => page'.current = 0
      /\ page'.commandConnected => page'.current \in Socket
  BY <1>1 DEF IInv, ConnectInv
<1> QED BY <1>1, <1>2, <1>4, <1>6, <1>7, SocketStep

LEMMA PollStep ==
  ASSUME IInv, Ask \/ Polled \/ PollFails \/ CommandExpires, Settled
  PROVE  IInv'
<1>1. page \in PageRecord
  BY DEF IInv, TypeOK
<1>2. CASE Ask
  <2>1. UNCHANGED <<page, socket>> /\ poll' = [step |-> "asked"]
    BY <1>2 DEF Ask
  <2> QED BY <1>1, <2>1, QuietStep
<1>3. CASE Polled
  <2>1. /\ poll.step = "answered" /\ poll' = NoPoll /\ UNCHANGED socket
        /\ page' = [page EXCEPT !.view = poll.state, !.live = poll.native, !.polled = poll.native]
    BY <1>3 DEF Polled
  <2>2. poll.state.version <= Version
    BY <2>1 DEF IInv, VersionInv
  <2>3. poll \in Answer
    BY <2>1, Versions DEF IInv
  <2>4. poll.state \in State /\ poll.native \in BOOLEAN
    BY <2>3 DEF Answer
  <2>5. /\ page' \in PageRecord /\ page'.current = page.current /\ page'.view = poll.state
        /\ page'.reconnect = page.reconnect /\ page'.commandConnected = page.commandConnected
    BY <1>1, <2>1, <2>4 DEF PageRecord
  <2> QED BY <2>1, <2>2, <2>5, QuietStep
<1>4. CASE PollFails
  <2>1. /\ UNCHANGED socket
        /\ \/ poll' = NoPoll /\ UNCHANGED page
           \/ UNCHANGED poll /\ page' = [page EXCEPT !.polled = FALSE, !.live = FALSE]
    BY <1>4 DEF PollFails
  <2>2. /\ page' \in PageRecord /\ page'.current = page.current /\ page'.view = page.view
        /\ page'.reconnect = page.reconnect /\ page'.commandConnected = page.commandConnected
    BY <1>1, <2>1 DEF PageRecord
  <2> QED BY <2>1, <2>2, QuietStep
<1>5. CASE CommandExpires
  <2>1. /\ UNCHANGED <<socket, poll>>
        /\ page' = [page EXCEPT !.pending = "none", !.message = "unknown"]
    BY <1>5 DEF CommandExpires
  <2>2. /\ page' \in PageRecord /\ page'.current = page.current /\ page'.view = page.view
        /\ page'.reconnect = page.reconnect /\ page'.commandConnected = page.commandConnected
    BY <1>1, <2>1 DEF PageRecord
  <2> QED BY <2>1, <2>2, QuietStep
<1> QED BY <1>2, <1>3, <1>4, <1>5

LEMMA KeepAliveStep ==
  ASSUME IInv, KeepAlive, Settled
  PROVE  IInv'
<1> DEFINE s == page.current
<1>1. /\ s # 0 /\ socket[s].end = "open" /\ UNCHANGED <<page, poll>>
      /\ socket' = [socket EXCEPT ![s].end = "closing", ![s].outbox = Append(@, "close")]
  BY DEF KeepAlive
<1>2. s \in Socket /\ page \in PageRecord /\ socket \in [Socket -> Record]
  BY <1>1 DEF IInv, TypeOK, PageRecord
<1>3. PICK c \in Socket : c = s
  BY <1>2
<1>4. socket[c] \in Record /\ socket[c].outbox \in Seq(Frame)
  BY <1>2 DEF Record
<1>5. PICK o \in Seq(Frame) : o = Append(socket[c].outbox, "close")
  BY <1>4, ClosingAppend DEF Frame
<1> DEFINE u == [socket[c] EXCEPT !.end = "closing", !.outbox = o]
<1>6. /\ u \in Record /\ u.end = "closing" /\ u.accepted = socket[c].accepted
      /\ u.inbox = socket[c].inbox /\ u.outbox = o
  BY <1>4 DEF Record
<1>7. /\ socket'[c] = u /\ socket' \in [Socket -> Record]
      /\ \A q \in Socket \ {c} : socket'[q] = socket[q]
  <2>1. socket' = [socket EXCEPT ![c] = u]
    BY <1>1, <1>2, <1>3, <1>5
  <2> QED BY <1>2, <1>6, <2>1
<1> HIDE DEF u
<1>8. Good(socket[c], c, page.current, fixture.targets, Version)
  BY DEF IInv, SocketsInv
<1>9. Good(u, c, page.current, fixture.targets, Version)
  <2>1. socket[c].end = "open" /\ "close" \in Frame
    BY <1>1, <1>3 DEF Frame
  <2> QED BY <1>5, <1>6, <1>8, <2>1, SubmittedGood
<1>10. /\ page'.reconnect => page'.current = 0
       /\ page'.commandConnected => page'.current \in Socket
  BY <1>1 DEF IInv, ConnectInv
<1> QED BY <1>1, <1>2, <1>3, <1>7, <1>9, <1>10, SocketStep

LEMMA ClientSteps ==
  ASSUME IInv, ClientStep \/ ClientTimer, Settled
  PROVE  IInv'
BY ConnectStep, OpenedStep, ClosedStep, FramedStep, ResolvedStep, ForgottenStep, PollStep,
   KeepAliveStep DEF ClientStep, ClientTimer

-----------------------------------------------------------------------------
(* The fixture.                                                             *)

\* What is to be shown of a step that the page takes no part in.
LEMMA WorldStep ==
  ASSUME IInv, UNCHANGED <<page, poll>>, fixture' \in Fixture, Version <= Version',
         socket' \in [Socket -> Record],
         \A q \in Socket : Good(socket'[q], q, page.current, fixture'.targets, Version')
  PROVE  IInv'
<1>1. Version \in Nat /\ Version' \in Nat
  <2>1. fixture'.state \in State
    BY DEF Fixture
  <2>2. Version' = fixture'.state.version
    BY DEF Version
  <2> QED BY <2>1, <2>2, VersionOf, Versions DEF IInv
<1>2. TypeOK'
  BY DEF IInv, TypeOK
<1>3. ConnectInv'
  BY DEF IInv, ConnectInv
<1>4. VersionInv'
  <2>1. page.view.version <= Version'
    BY <1>1, Versions DEF IInv, VersionInv
  <2>2. ASSUME poll.step = "answered"
        PROVE  page.view.version <= poll.state.version /\ poll.state.version <= Version'
    BY <1>1, <2>2, Versions DEF IInv, VersionInv
  <2> QED BY <2>1, <2>2 DEF VersionInv
<1>5. SocketsInv'
  BY DEF SocketsInv
<1> QED BY <1>2, <1>3, <1>4, <1>5 DEF IInv

\* What the fixture may make of the state.
LEMMA ChangedIs ==
  ASSUME TypeOK
  PROVE  /\ Changed("soc", 42) \in State /\ Changed("soc", 42).version = Version + 1
         /\ \A b \in BOOLEAN : Changed("shown", b) \in State /\ Changed("shown", b).version = Version + 1
         /\ \A c \in Commands : Patched(c) \in State /\ Patched(c).version = Version + 1
<1>1. PICK x \in State : x = fixture.state
  BY DEF TypeOK, Fixture
<1>2. x.version + 1 \in Nat /\ x.version = Version
  BY <1>1, VersionOf DEF Version
<1>3. PICK n \in Nat : n = x.version + 1
  BY <1>2
<1>4. [x EXCEPT !.version = n] \in State /\ [x EXCEPT !.version = n].version = n
  BY DEF State
<1>5. PICK w \in State : w = [x EXCEPT !.version = n] /\ w.version = n
  BY <1>4
<1>7. \A f, v : Changed(f, v) = [w EXCEPT ![f] = v]
  BY <1>1, <1>3, <1>5, Zenon DEF Changed
<1>8. Changed("soc", 42) \in State /\ Changed("soc", 42).version = Version + 1
  <2>1. [w EXCEPT !["soc"] = 42] \in State /\ [w EXCEPT !["soc"] = 42].version = w.version
    BY DEF State
  <2>2. Changed("soc", 42) = [w EXCEPT !["soc"] = 42]
    BY <1>7, Zenon
  <2>3. Changed("soc", 42) \in State /\ Changed("soc", 42).version = w.version
    BY <2>1, <2>2, Zenon
  <2> QED BY <1>2, <1>3, <1>5, <2>3
<1>9. ASSUME NEW b \in BOOLEAN
      PROVE  Changed("shown", b) \in State /\ Changed("shown", b).version = Version + 1
  <2>1. [w EXCEPT !["shown"] = b] \in State /\ [w EXCEPT !["shown"] = b].version = w.version
    BY DEF State
  <2>2. Changed("shown", b) = [w EXCEPT !["shown"] = b]
    BY <1>7, Zenon
  <2>3. Changed("shown", b) \in State /\ Changed("shown", b).version = w.version
    BY <2>1, <2>2, Zenon
  <2> QED BY <1>2, <1>3, <1>5, <2>3
<1>10. ASSUME NEW c \in Commands
       PROVE  Changed("camera", c) \in State /\ Changed("camera", c).version = Version + 1
  <2>1. [w EXCEPT !["camera"] = c] \in State /\ [w EXCEPT !["camera"] = c].version = w.version
    BY DEF State
  <2>2. Changed("camera", c) = [w EXCEPT !["camera"] = c]
    BY <1>7, Zenon
  <2>3. Changed("camera", c) \in State /\ Changed("camera", c).version = w.version
    BY <2>1, <2>2, Zenon
  <2> QED BY <1>2, <1>3, <1>5, <2>3
<1>6. \A c \in Commands : Patched(c) \in State /\ Patched(c).version = Version + 1
  BY <1>9, <1>10 DEF Patched
<1> QED BY <1>6, <1>8, <1>9

LEMMA StateMessageIs ==
  ASSUME NEW st \in State, NEW v, st.version <= v
  PROVE  /\ <<StateMessage(st)>> \in Seq(Message) /\ Fresh(<<StateMessage(st)>>, v)
         /\ \A i \in DOMAIN <<StateMessage(st)>> : <<StateMessage(st)>>[i].kind # "open"
<1>1. PICK m \in Message : m = StateMessage(st)
  BY DEF StateMessage, Message
<1>2. m.kind = "state" /\ m.state = st
  BY <1>1 DEF StateMessage
<1>3. <<m>> \in Seq(Message) /\ \A i \in DOMAIN <<m>> : <<m>>[i] = m
  OBVIOUS
<1>4. Fresh(<<m>>, v)
  BY <1>2, <1>3 DEF Fresh
<1> QED BY <1>1, <1>2, <1>3, <1>4

\* Every target is sent the new state, and the state is the newest.
LEMMA BroadcastGood ==
  ASSUME TypeOK, NEW K \in [Socket -> Record], NEW st \in State, NEW c,
         Version <= st.version,
         \A q \in Socket : Good(K[q], q, c, fixture.targets, Version)
  PROVE  /\ Broadcast(st, K) \in [Socket -> Record]
         /\ \A q \in Socket : Good(Broadcast(st, K)[q], q, c, fixture.targets, st.version)
<1> DEFINE B == Broadcast(st, K)
           m == <<StateMessage(st)>>
           T == fixture.targets
<1>1. Version \in Nat /\ st.version \in Nat
  BY Versions, VersionOf
<1>2. /\ m \in Seq(Message) /\ Fresh(m, st.version)
      /\ \A i \in DOMAIN m : m[i].kind # "open"
  BY <1>1, StateMessageIs
<1>3. /\ DOMAIN B = Socket
      /\ \A q \in Socket : B[q] = IF q \in T THEN Sent(K[q], m) ELSE K[q]
  BY DEF Broadcast
<1>4. B = [q \in Socket |-> B[q]]
  BY DEF Broadcast
<1> HIDE DEF B, m
<1>5. ASSUME NEW q \in Socket PROVE Good(B[q], q, c, T, st.version)
  <2>1. Good(K[q], q, c, T, Version)
    OBVIOUS
  <2>2. K[q].end \in {"connecting", "open"} => q = c
    BY <2>1 DEF Good, Sound
  <2>3. Good(K[q], q, c, T, st.version)
    BY <1>1, <2>1, <2>2, OthersGood
  <2>4. CASE q \in T
    <3>1. K[q].accepted
      BY <2>1, <2>4 DEF Good, Sound
    <3>2. Good(Sent(K[q], m), q, c, T, st.version)
      BY <1>2, <2>3, <3>1, SentGood
    <3> QED BY <1>3, <2>4, <3>2
  <2>5. CASE q \notin T
    BY <1>3, <2>3, <2>5
  <2> QED BY <2>4, <2>5
<1>6. \A q \in Socket : B[q] \in Record
  BY <1>5 DEF Good
<1>7. B \in [Socket -> Record]
  BY <1>4, <1>6
<1> QED BY <1>5, <1>7 DEF B

\* The state is replaced by a newer one, and broadcast; before that, some socket may have
\* been answered.
LEMMA BroadcastStep ==
  ASSUME IInv, UNCHANGED <<page, poll>>, NEW K \in [Socket -> Record], NEW st \in State,
         st.version = Version + 1,
         \A q \in Socket : Good(K[q], q, page.current, fixture.targets, Version),
         socket' = Broadcast(st, K),
         fixture' \in Fixture, fixture'.state = st, fixture'.targets = fixture.targets
  PROVE  IInv'
<1>1. Version \in Nat /\ Version <= st.version
  BY Versions DEF IInv
<1>2. /\ socket' \in [Socket -> Record]
      /\ \A q \in Socket : Good(socket'[q], q, page.current, fixture.targets, st.version)
  BY <1>1, BroadcastGood DEF IInv
<1>3. Version' = st.version
  BY DEF Version
<1> QED BY <1>1, <1>2, <1>3, WorldStep

\* A close, as the fixture sends it, and the outcome of a command.
LEMMA NoticeIs ==
  ASSUME NEW m \in Message, m.kind \notin {"open", "state"}, NEW v
  PROVE  /\ <<m>> \in Seq(Message) /\ Fresh(<<m>>, v) /\ (m.kind = "close" => Ends(<<m>>))
         /\ \A i \in DOMAIN <<m>> : <<m>>[i].kind # "open"
<1>1. <<m>> \in Seq(Message) /\ 1 \in DOMAIN <<m>> /\ \A i \in DOMAIN <<m>> : <<m>>[i] = m
  OBVIOUS
<1> QED BY <1>1 DEF Fresh, Ends

LEMMA CloseIs ==
  /\ [kind |-> "close"] \in Message /\ [kind |-> "close"].kind = "close"
  /\ [kind |-> "open"] \in Message /\ [kind |-> "open"].kind = "open"
BY DEF Message

\* The fixture's step touches one socket, and neither the targets nor the state change for
\* the others.
LEMMA ServeStep ==
  ASSUME IInv, UNCHANGED <<page, poll>>, NEW s \in Socket, socket' \in [Socket -> Record],
         \A q \in Socket \ {s} : socket'[q] = socket[q],
         fixture' \in Fixture, fixture'.state = fixture.state,
         \A q \in Socket \ {s} : q \in fixture'.targets <=> q \in fixture.targets,
         Good(socket'[s], s, page.current, fixture'.targets, Version)
  PROVE  IInv'
<1>1. Version' = Version /\ Version \in Nat
  BY Versions DEF IInv, Version
<1>2. SocketsInv'
  BY <1>1, OneSocket DEF IInv
<1>3. \A q \in Socket : Good(socket'[q], q, page.current, fixture'.targets, Version')
  BY <1>2 DEF SocketsInv
<1> QED BY <1>1, <1>3, WorldStep

LEMMA AcceptStep ==
  ASSUME IInv, NEW s \in Socket, Accept(s)
  PROVE  IInv'
<1> DEFINE a == [socket[s] EXCEPT !.accepted = TRUE]
<1>1. /\ socket[s].end # "unused" /\ ~socket[s].accepted /\ UNCHANGED <<page, poll>>
  BY DEF Accept
<1>2. fixture \in Fixture /\ socket \in [Socket -> Record]
  BY DEF IInv, TypeOK
<1>3. Good(socket[s], s, page.current, fixture.targets, Version)
  BY DEF IInv, SocketsInv
<1>4. CASE fixture.paused
  <2> DEFINE m == <<[kind |-> "close"]>>
  <2>1. /\ socket' = [socket EXCEPT ![s] = Sent(a, m)] /\ UNCHANGED fixture
    BY <1>4, Zenon DEF Accept
  <2>2. m \in Seq(Message) /\ Fresh(m, Version) /\ Ends(m) /\ \A i \in DOMAIN m : m[i].kind # "open"
    BY CloseIs, NoticeIs
  <2>3. s \notin fixture.targets
    BY <1>1, <1>3 DEF Good, Sound
  <2> HIDE DEF m
  <2>4. Good(Sent(a, m), s, page.current, fixture.targets, Version)
    BY <1>1, <1>3, <2>2, <2>3, AcceptGood
  <2> HIDE DEF a
  <2>5. Sent(a, m) \in Record
    BY <2>4 DEF Good
  <2>6. /\ socket'[s] = Sent(a, m) /\ socket' \in [Socket -> Record]
        /\ \A q \in Socket \ {s} : socket'[q] = socket[q]
    BY <1>2, <2>1, <2>5
  <2> QED BY <1>1, <1>2, <2>1, <2>4, <2>6, ServeStep
<1>5. CASE ~fixture.paused
  <2> DEFINE m == <<[kind |-> "open"], StateMessage(fixture.state)>>
             U == fixture.targets \cup {s}
  <2>1. /\ socket' = [socket EXCEPT ![s] = Sent(a, m)]
        /\ fixture' = [fixture EXCEPT !.targets = @ \cup {s}, !.connections = @ + 1]
    BY <1>5, Zenon DEF Accept
  <2>2. /\ m \in Seq(Message) /\ Fresh(m, Version)
        /\ \A i \in DOMAIN m : m[i].kind = "open" => i = 1
    <3>1. fixture.state \in State /\ fixture.state.version = Version /\ Version \in Nat
      BY <1>2, Versions DEF Fixture, Version, IInv
    <3>2. PICK x \in Message : x = StateMessage(fixture.state)
      BY <3>1 DEF Message, StateMessage
    <3>3. x.kind = "state" /\ x.state = fixture.state
      BY <3>2 DEF StateMessage
    <3>4. PICK y \in Message : y = [kind |-> "open"] /\ y.kind = "open"
      BY CloseIs
    <3>5. m = <<y, x>>
      BY <3>2, <3>4
    <3> HIDE DEF m
    <3>6. /\ m \in Seq(Message)
          /\ \A i \in DOMAIN m : (i = 1 /\ m[i] = y) \/ m[i] = x
      BY <3>5
    <3>7. \A i \in DOMAIN m : m[i].kind = "open" => i = 1
      BY <3>3, <3>6
    <3>8. Fresh(m, Version)
      BY <3>1, <3>3, <3>4, <3>6 DEF Fresh
    <3> QED BY <3>6, <3>7, <3>8
  <2> HIDE DEF m
  <2>4. Good(Sent(a, m), s, page.current, U, Version)
    BY <1>1, <1>3, <2>2, AcceptGood
  <2> HIDE DEF a
  <2>5. Sent(a, m) \in Record
    BY <2>4 DEF Good
  <2>6. /\ socket'[s] = Sent(a, m) /\ socket' \in [Socket -> Record]
        /\ \A q \in Socket \ {s} : socket'[q] = socket[q]
    BY <1>2, <2>1, <2>5
  <2>7. fixture' \in Fixture /\ fixture'.state = fixture.state /\ fixture'.targets = U
    <3>1. U \in SUBSET Socket /\ fixture.connections + 1 \in Nat
      BY <1>2 DEF Fixture
    <3>2. PICK V \in SUBSET Socket : V = U
      BY <3>1
    <3>3. PICK n \in Nat : n = fixture.connections + 1
      BY <3>1
    <3>4. fixture' = [fixture EXCEPT !.targets = V, !.connections = n]
      BY <2>1, <3>2, <3>3
    <3> QED BY <1>2, <3>2, <3>4 DEF Fixture
  <2> QED BY <1>1, <2>4, <2>6, <2>7, ServeStep
<1> QED BY <1>4, <1>5

LEMMA ConsumedIs ==
  ASSUME TypeOK, NEW s \in Socket, socket[s].outbox # <<>>
  PROVE  /\ Consumed(s) \in [Socket -> Record] /\ Head(socket[s].outbox) \in Frame
         /\ Consumed(s)[s].end = socket[s].end /\ Consumed(s)[s].accepted = socket[s].accepted
         /\ Consumed(s)[s].inbox = socket[s].inbox
         /\ Consumed(s)[s].outbox = Tail(socket[s].outbox)
         /\ \A q \in Socket \ {s} : Consumed(s)[q] = socket[q]
<1>1. socket \in [Socket -> Record] /\ socket[s] \in Record /\ socket[s].outbox \in Seq(Frame)
  BY DEF TypeOK, Record
<1>2. Tail(socket[s].outbox) \in Seq(Frame) /\ Head(socket[s].outbox) \in Frame
  BY <1>1, TailOf
<1>3. PICK t \in Seq(Frame) : t = Tail(socket[s].outbox)
  BY <1>2
<1>4. [socket[s] EXCEPT !.outbox = t] \in Record
  BY <1>1 DEF Record
<1>5. Consumed(s) = [socket EXCEPT ![s].outbox = t]
  BY <1>3, Zenon DEF Consumed
<1>6. Consumed(s) \in [Socket -> Record] /\ Consumed(s)[s] = [socket[s] EXCEPT !.outbox = t]
      /\ \A q \in Socket \ {s} : Consumed(s)[q] = socket[q]
  BY <1>1, <1>4, <1>5
<1>7. /\ Consumed(s)[s].end = socket[s].end /\ Consumed(s)[s].accepted = socket[s].accepted
      /\ Consumed(s)[s].inbox = socket[s].inbox /\ Consumed(s)[s].outbox = t
  BY <1>1, <1>6 DEF Record
<1> QED BY <1>2, <1>3, <1>6, <1>7

LEMMA OnCloseStep ==
  ASSUME IInv, NEW s \in Socket, OnClose(s)
  PROVE  IInv'
<1> DEFINE k == Consumed(s)
           m == <<[kind |-> "close"]>>
           U == fixture.targets \ {s}
<1>1. /\ socket[s].accepted /\ socket[s].outbox # <<>> /\ Head(socket[s].outbox) = "close"
      /\ UNCHANGED <<page, poll>>
      /\ socket' = [k EXCEPT ![s] = IF s \in fixture.targets THEN Sent(@, m) ELSE @]
      /\ fixture' = [fixture EXCEPT !.targets = @ \ {s}]
  BY Zenon DEF OnClose, Heard
<1>2. /\ k \in [Socket -> Record] /\ k[s].end = socket[s].end /\ k[s].accepted = socket[s].accepted
      /\ k[s].inbox = socket[s].inbox /\ k[s].outbox = Tail(socket[s].outbox)
      /\ \A q \in Socket \ {s} : k[q] = socket[q]
  BY <1>1, ConsumedIs DEF IInv
<1> HIDE DEF k
<1>3. k[s] \in Record
  BY <1>2
<1>4. Good(socket[s], s, page.current, fixture.targets, Version)
  BY DEF IInv, SocketsInv
<1>5. Good(k[s], s, page.current, U, Version)
  BY <1>1, <1>2, <1>3, <1>4, ConsumedGood
<1>6. /\ m \in Seq(Message) /\ Fresh(m, Version)
      /\ \A i \in DOMAIN m : m[i].kind # "open"
  BY CloseIs, NoticeIs
<1> HIDE DEF m
<1>7. Good(Sent(k[s], m), s, page.current, U, Version)
  BY <1>1, <1>2, <1>5, <1>6, SentGood
<1>8. PICK u : /\ u = (IF s \in fixture.targets THEN Sent(k[s], m) ELSE k[s])
               /\ Good(u, s, page.current, U, Version)
  BY <1>5, <1>7
<1>9. u \in Record
  BY <1>8 DEF Good
<1>10. socket' = [k EXCEPT ![s] = u]
  <2>1. socket' = [k EXCEPT ![s] = IF s \in fixture.targets THEN Sent(k[s], m) ELSE k[s]]
    BY <1>1 DEF m
  <2> QED BY <1>8, <2>1, Zenon
<1>11. /\ socket'[s] = u /\ socket' \in [Socket -> Record]
       /\ \A q \in Socket \ {s} : socket'[q] = socket[q]
  BY <1>2, <1>9, <1>10
<1>12. fixture \in Fixture
  BY DEF IInv, TypeOK
<1>13. fixture' \in Fixture /\ fixture'.state = fixture.state /\ fixture'.targets = U
  BY <1>1, <1>12 DEF Fixture
<1> QED BY <1>1, <1>8, <1>11, <1>13, ServeStep

\* A socket is told what became of the command that it sent first.
LEMMA AnsweredGood ==
  ASSUME IInv, NEW s \in Socket, Heard(s, Commands), NEW kind \in {"accepted", "rejected"},
         NEW command, command = Head(socket[s].outbox),
         NEW K, K = [Consumed(s) EXCEPT ![s] = Sent(@, <<[kind |-> kind, command |-> command]>>)]
  PROVE  /\ K \in [Socket -> Record] /\ command \in Commands
         /\ \A q \in Socket : Good(K[q], q, page.current, fixture.targets, Version)
         /\ \A q \in Socket \ {s} : K[q] = socket[q]
<1> DEFINE k == Consumed(s)
           m == <<[kind |-> kind, command |-> command]>>
<1>1. /\ socket[s].accepted /\ socket[s].outbox # <<>> /\ command \in Commands
  BY DEF Heard
<1>2. /\ k \in [Socket -> Record] /\ k[s].end = socket[s].end /\ k[s].accepted = socket[s].accepted
      /\ k[s].inbox = socket[s].inbox /\ k[s].outbox = Tail(socket[s].outbox)
      /\ \A q \in Socket \ {s} : k[q] = socket[q]
  BY <1>1, ConsumedIs DEF IInv
<1>3. K = [k EXCEPT ![s] = Sent(@, m)]
  BY DEF k, m
<1> HIDE DEF k
<1>4. k[s] \in Record
  BY <1>2
<1>5. \A q \in Socket : Good(socket[q], q, page.current, fixture.targets, Version)
  BY DEF IInv, SocketsInv
<1>6. command # "close"
  BY <1>1 DEF Commands
<1>7. Good(k[s], s, page.current, fixture.targets, Version)
  <2>1. Head(socket[s].outbox) # "close" /\ Good(socket[s], s, page.current, fixture.targets, Version)
    BY <1>5, <1>6
  <2> QED BY <1>1, <1>2, <1>4, <2>1, ConsumedGood
<1>8. /\ m \in Seq(Message) /\ Fresh(m, Version)
      /\ \A i \in DOMAIN m : m[i].kind # "open"
  <2>1. PICK x \in Message : x = [kind |-> kind, command |-> command]
    BY <1>1 DEF Message
  <2>2. x.kind \in {"accepted", "rejected"}
    BY <2>1
  <2>3. x.kind \notin {"open", "state"}
    BY <2>2
  <2> QED BY <2>1, <2>3, NoticeIs
<1> HIDE DEF m
<1>9. Good(Sent(k[s], m), s, page.current, fixture.targets, Version)
  BY <1>1, <1>2, <1>7, <1>8, SentGood
<1>10. Sent(k[s], m) \in Record
  BY <1>9 DEF Good
<1>11. /\ K \in [Socket -> Record] /\ K[s] = Sent(k[s], m) /\ \A q \in Socket \ {s} : K[q] = k[q]
  BY <1>2, <1>3, <1>10
<1>12. ASSUME NEW q \in Socket PROVE Good(K[q], q, page.current, fixture.targets, Version)
  <2>1. CASE q = s
    BY <1>9, <1>11, <2>1
  <2>2. CASE q # s
    <3>1. K[q] = socket[q]
      BY <1>2, <1>11, <2>2
    <3> QED BY <1>5, <3>1
  <2> QED BY <2>1, <2>2
<1> QED BY <1>1, <1>2, <1>11, <1>12

LEMMA OnMessageStep ==
  ASSUME IInv, NEW s \in Socket, OnMessage(s)
  PROVE  IInv'
<1> DEFINE command == Head(socket[s].outbox)
           Reply(kind) ==
             [Consumed(s) EXCEPT ![s] = Sent(@, <<[kind |-> kind, command |-> command]>>)]
<1>1. Heard(s, Commands) /\ UNCHANGED <<page, poll>>
  BY DEF OnMessage
<1>2. fixture \in Fixture /\ command \in Commands
  BY <1>1 DEF IInv, TypeOK, Heard
<1>3. PICK cs \in Seq(Commands) : cs = Append(fixture.commands, command)
  <2>1. fixture.commands \in Seq(Commands)
    BY <1>2 DEF Fixture
  <2> HIDE DEF command
  <2>2. Append(fixture.commands, command) \in Seq(Commands)
    BY <1>2, <2>1
  <2> QED BY <2>2
<1>4. CASE fixture.reject
  <2>1. /\ socket' = Reply("rejected")
        /\ fixture' = [fixture EXCEPT !.commands = Append(@, command)]
    BY <1>4, Zenon DEF OnMessage
  <2> DEFINE K == Reply("rejected")
  <2>2. /\ K \in [Socket -> Record]
        /\ \A q \in Socket : Good(K[q], q, page.current, fixture.targets, Version)
    BY <1>1, AnsweredGood
  <2>6. \A q \in Socket \ {s} : K[q] = socket[q]
    <3>1. PICK k \in [Socket -> Record] :
            k = Consumed(s) /\ \A q \in Socket \ {s} : k[q] = socket[q]
      BY <1>1, ConsumedIs DEF IInv, Heard
    <3>2. K = [k EXCEPT ![s] = Sent(@, <<[kind |-> "rejected", command |-> command]>>)]
      BY <3>1, Zenon
    <3> HIDE DEF K
    <3> QED BY <3>1, <3>2
  <2>3. socket' = K
    BY <2>1
  <2> HIDE DEF K
  <2>4. fixture' = [fixture EXCEPT !.commands = cs]
    BY <1>3, <2>1, Zenon
  <2>5. fixture' \in Fixture /\ fixture'.state = fixture.state /\ fixture'.targets = fixture.targets
    BY <1>2, <2>4 DEF Fixture
  <2> QED BY <1>1, <2>2, <2>3, <2>5, <2>6, ServeStep
<1>5. CASE ~fixture.reject
  <2> DEFINE K == Reply("accepted")
             st == Patched(command)
  <2>1. /\ socket' = Broadcast(st, K)
        /\ fixture' = [fixture EXCEPT !.commands = Append(@, command), !.state = st]
    BY <1>5, Zenon DEF OnMessage
  <2>2. /\ K \in [Socket -> Record]
        /\ \A q \in Socket : Good(K[q], q, page.current, fixture.targets, Version)
    BY <1>1, AnsweredGood
  <2>3. st \in State /\ st.version = Version + 1
    BY <1>2, ChangedIs DEF IInv
  <2> HIDE DEF K, st
  <2>4. fixture' = [fixture EXCEPT !.commands = cs, !.state = st]
    BY <1>3, <2>1, Zenon
  <2>5. fixture' \in Fixture /\ fixture'.state = st /\ fixture'.targets = fixture.targets
    BY <1>2, <2>3, <2>4 DEF Fixture
  <2> QED BY <1>1, <2>1, <2>2, <2>3, <2>5, BroadcastStep
<1> QED BY <1>4, <1>5

LEMMA AnswerStep ==
  ASSUME IInv, AnswerPoll
  PROVE  IInv'
<1>1. UNCHANGED <<page, socket, fixture>> /\ Version' = Version
  BY DEF AnswerPoll, Version
<1>2. fixture.state \in State /\ Version \in Nat /\ fixture.paused \in BOOLEAN
  BY Versions DEF IInv, TypeOK, Fixture
<1>3. poll' \in Answer /\ poll'.state.version = Version
  <2>1. CASE page.public
    <3>1. poll' = [step |-> "answered", native |-> TRUE, state |-> [fixture.state EXCEPT !.soc = 61]]
      BY <2>1 DEF AnswerPoll
    <3>2. /\ [fixture.state EXCEPT !.soc = 61] \in State
          /\ [fixture.state EXCEPT !.soc = 61].version = Version
      BY <1>2 DEF State, Version
    <3>3. PICK x \in State : x = [fixture.state EXCEPT !.soc = 61]
      BY <3>2
    <3> QED BY <3>1, <3>2, <3>3 DEF Answer
  <2>2. CASE ~page.public
    <3>1. poll' = [step |-> "answered", native |-> ~fixture.paused, state |-> fixture.state]
      BY <2>2 DEF AnswerPoll
    <3>2. PICK b \in BOOLEAN : b = ~fixture.paused
      BY <1>2
    <3>3. poll' = [step |-> "answered", native |-> b, state |-> fixture.state]
      BY <3>1, <3>2, Zenon
    <3> QED BY <1>2, <3>3 DEF Answer, Version
  <2> QED BY <2>1, <2>2
<1>4. TypeOK'
  BY <1>1, <1>3 DEF IInv, TypeOK
<1>5. ConnectInv'
  BY <1>1 DEF IInv, ConnectInv
<1>6. VersionInv'
  BY <1>1, <1>2, <1>3 DEF IInv, VersionInv
<1>7. SocketsInv'
  BY <1>1 DEF IInv, SocketsInv
<1> QED BY <1>4, <1>5, <1>6, <1>7 DEF IInv

-----------------------------------------------------------------------------
(* The script.                                                              *)

\* A new document.
LEMMA BeginStep ==
  ASSUME IInv, NEW public \in BOOLEAN, Begin(public)
  PROVE  IInv'
<1>1. /\ page' = Document(public) /\ poll' = NoPoll /\ UNCHANGED fixture
      /\ socket' = [s \in Socket |-> GivenUp(socket[s])]
  BY DEF Begin
<1>2. /\ page' \in PageRecord /\ page'.current = 0 /\ ~page'.commandConnected
      /\ page'.view = NoView
  BY <1>1 DEF Document, PageRecord
<1>3. fixture' \in Fixture /\ Version' = Version /\ fixture'.targets = fixture.targets
  BY <1>1 DEF IInv, TypeOK, Version
<1>4. ASSUME NEW q \in Socket
      PROVE  Good(socket'[q], q, page'.current, fixture'.targets, Version')
  <2>1. Good(socket[q], q, page.current, fixture.targets, Version)
    BY DEF IInv, SocketsInv
  <2>2. Good(GivenUp(socket[q]), q, page'.current, fixture.targets, Version)
    BY <2>1, GivenUpGood
  <2> QED BY <1>1, <1>3, <2>2
<1>5. socket' \in [Socket -> Record]
  <2>1. \A q \in Socket : socket'[q] \in Record
    BY <1>4, Zenon DEF Good
  <2> QED BY <1>1, <2>1
<1>6. TypeOK'
  BY <1>1, <1>2, <1>3, <1>5 DEF TypeOK
<1>7. ConnectInv'
  BY <1>2 DEF ConnectInv
<1>8. VersionInv'
  <2>1. page'.view.version = 0 /\ poll'.step # "answered"
    BY <1>1, <1>2 DEF NoView, NoPoll
  <2>2. Version \in Nat
    BY Versions DEF IInv
  <2> QED BY <1>3, <2>1, <2>2 DEF VersionInv
<1>9. SocketsInv'
  BY <1>4 DEF SocketsInv
<1> QED BY <1>6, <1>7, <1>8, <1>9 DEF IInv

LEMMA OnlineStep ==
  ASSUME IInv, Online, Settled
  PROVE  IInv'
<1>1. /\ page' = [Lost(page) EXCEPT !.current = 0, !.commandConnected = FALSE, !.live = FALSE,
                                    !.polled = FALSE, !.reconnect = TRUE]
      /\ socket' = IF page.current = 0 THEN socket
                   ELSE [socket EXCEPT ![page.current] = GivenUp(@)]
      /\ poll' = NoPoll
  BY DEF Online
<1>2. page \in PageRecord /\ socket \in [Socket -> Record]
  BY DEF IInv, TypeOK
<1>3. PICK p \in PageRecord : p = Lost(page) /\ p.view = page.view
  BY <1>2, LostIs
<1>4. page' = [p EXCEPT !.current = 0, !.commandConnected = FALSE, !.live = FALSE,
                        !.polled = FALSE, !.reconnect = TRUE]
  BY <1>1, <1>3
<1>5. /\ page' \in PageRecord /\ page'.current = 0 /\ ~page'.commandConnected
      /\ page'.view = page.view
  BY <1>3, <1>4 DEF PageRecord
<1>6. page'.view.version <= Version
  BY <1>5 DEF IInv, VersionInv
<1>7. CASE page.current = 0
  <2>1. UNCHANGED socket
    BY <1>1, <1>7
  <2>2. SocketsInv'
    BY <1>5, <1>7, <2>1, NoSocket DEF IInv
  <2>3. TypeOK'
    BY <1>1, <1>2, <1>5, <2>1 DEF TypeOK, Settled
  <2>4. VersionInv'
    <3>1. poll'.step # "answered"
      BY <1>1 DEF NoPoll
    <3> QED BY <1>6, <3>1 DEF VersionInv, Settled
  <2>5. ConnectInv'
    BY <1>5 DEF ConnectInv
  <2> QED BY <2>2, <2>3, <2>4, <2>5 DEF IInv
<1>8. CASE page.current # 0
  <2>1. PICK s \in Socket : s = page.current
    BY <1>2, <1>8 DEF PageRecord
  <2>2. Good(socket[s], s, page.current, fixture.targets, Version)
    BY DEF IInv, SocketsInv
  <2>3. Good(GivenUp(socket[s]), s, page'.current, fixture.targets, Version)
    BY <2>2, GivenUpGood
  <2>4. GivenUp(socket[s]) \in Record
    BY <2>3 DEF Good
  <2>5. socket' = [socket EXCEPT ![s] = GivenUp(@)]
    BY <1>1, <1>8, <2>1
  <2>6. /\ socket'[s] = GivenUp(socket[s]) /\ socket' \in [Socket -> Record]
        /\ \A q \in Socket \ {s} : socket'[q] = socket[q]
    BY <1>2, <2>4, <2>5
  <2> QED BY <1>1, <1>5, <1>6, <2>1, <2>3, <2>6, SocketStep
<1> QED BY <1>7, <1>8

\* The page submits a command, or cannot.
LEMMA SubmitStep ==
  ASSUME IInv, NEW command \in Commands, Submit(command), Settled
  PROVE  IInv'
<1>1. page \in PageRecord /\ socket \in [Socket -> Record] /\ UNCHANGED poll
  BY DEF IInv, TypeOK, Submit
<1>2. CASE page.commandConnected /\ socket[page.current].end = "open"
  <2>1. /\ page' = [page EXCEPT !.pending = command, !.message = "sending"]
        /\ socket' = [socket EXCEPT ![page.current].outbox = Append(@, command)]
    BY <1>2 DEF Submit
  <2>2. PICK s \in Socket : s = page.current
    BY <1>2 DEF IInv, ConnectInv
  <2>3. socket[s] \in Record /\ socket[s].outbox \in Seq(Frame) /\ command \in Frame
    BY <1>1 DEF Record, Frame
  <2>4. PICK o \in Seq(Frame) : o = Append(socket[s].outbox, command)
    BY <2>3, ClosingAppend
  <2> DEFINE u == [socket[s] EXCEPT !.outbox = o]
  <2>5. /\ u \in Record /\ u.end = socket[s].end /\ u.accepted = socket[s].accepted
        /\ u.inbox = socket[s].inbox /\ u.outbox = o
    BY <2>3 DEF Record
  <2>6. /\ socket'[s] = u /\ socket' \in [Socket -> Record]
        /\ \A q \in Socket \ {s} : socket'[q] = socket[q]
    <3>1. socket' = [socket EXCEPT ![s] = u]
      BY <1>1, <2>1, <2>2, <2>4
    <3> QED BY <1>1, <2>5, <3>1
  <2> HIDE DEF u
  <2>7. Good(socket[s], s, page.current, fixture.targets, Version)
    BY DEF IInv, SocketsInv
  <2>8. Good(u, s, page.current, fixture.targets, Version)
    <3>1. socket[s].end = "open" /\ command # "close"
      BY <1>2, <2>2 DEF Commands
    <3> QED BY <2>3, <2>4, <2>5, <2>7, <3>1, SubmittedGood
  <2>9. /\ page' \in PageRecord /\ page'.current = page.current /\ page'.view = page.view
        /\ page'.reconnect = page.reconnect /\ page'.commandConnected = page.commandConnected
    BY <1>1, <2>1 DEF PageRecord
  <2>10. /\ page'.reconnect => page'.current = 0
         /\ page'.commandConnected => page'.current \in Socket
    BY <2>9 DEF IInv, ConnectInv
  <2> QED BY <1>1, <2>2, <2>6, <2>8, <2>9, <2>10, SocketStep
<1>3. CASE ~(page.commandConnected /\ socket[page.current].end = "open")
  <2>1. page' = [page EXCEPT !.message = "unavailable"] /\ UNCHANGED socket
    BY <1>3 DEF Submit
  <2>2. /\ page' \in PageRecord /\ page'.current = page.current /\ page'.view = page.view
        /\ page'.reconnect = page.reconnect /\ page'.commandConnected = page.commandConnected
    BY <1>1, <2>1 DEF PageRecord
  <2> QED BY <1>1, <2>1, <2>2, QuietStep
<1> QED BY <1>2, <1>3

LEMMA PauseStep ==
  ASSUME IInv, Pause
  PROVE  IInv'
<1> DEFINE m == <<[kind |-> "close"]>>
           T == fixture.targets
<1>1. /\ fixture' = [fixture EXCEPT !.paused = TRUE, !.targets = {}]
      /\ socket' = [s \in Socket |-> IF s \in T THEN Sent(socket[s], m) ELSE socket[s]]
      /\ UNCHANGED <<page, poll>>
  BY Zenon DEF Pause
<1>2. fixture \in Fixture
  BY DEF IInv, TypeOK
<1>3. fixture' \in Fixture /\ fixture'.state = fixture.state /\ fixture'.targets = {}
  BY <1>1, <1>2 DEF Fixture
<1>4. Version' = Version /\ Version \in Nat
  BY <1>3, Versions DEF Version, IInv
<1>5. /\ m \in Seq(Message) /\ Fresh(m, Version) /\ Ends(m)
      /\ \A i \in DOMAIN m : m[i].kind # "open"
  BY CloseIs, NoticeIs
<1> HIDE DEF m
<1>6. ASSUME NEW q \in Socket
      PROVE  Good(socket'[q], q, page.current, {}, Version)
  <2>1. Good(socket[q], q, page.current, T, Version)
    BY DEF IInv, SocketsInv
  <2>2. CASE q \in T
    <3>1. socket[q].accepted
      BY <2>1, <2>2 DEF Good, Sound
    <3>2. Good(Sent(socket[q], m), q, page.current, {}, Version)
      BY <1>5, <2>1, <3>1, SentGood
    <3> QED BY <1>1, <2>2, <3>2
  <2>3. CASE q \notin T
    <3>1. socket[q].end \in {"connecting", "open"} => q = page.current
      BY <2>1 DEF Good, Sound
    <3>2. Good(socket[q], q, page.current, {}, Version)
      BY <1>4, <2>1, <2>3, <3>1, OthersGood
    <3> QED BY <1>1, <2>3, <3>2
  <2> QED BY <2>2, <2>3
<1>7. socket' \in [Socket -> Record]
  <2>1. \A q \in Socket : socket'[q] \in Record
    BY <1>6, Zenon DEF Good
  <2> QED BY <1>1, <2>1
<1>8. \A q \in Socket : Good(socket'[q], q, page.current, fixture'.targets, Version')
  BY <1>3, <1>4, <1>6
<1> QED BY <1>1, <1>3, <1>4, <1>7, <1>8, WorldStep

LEMMA SetsStep ==
  ASSUME IInv, Sets("charge", "soc", 42) \/ Sets("show", "shown", TRUE)
  PROVE  IInv'
<1>1. PICK st \in State :
        /\ st.version = Version + 1 /\ UNCHANGED <<page, poll>>
        /\ fixture' = [fixture EXCEPT !.state = st] /\ socket' = Broadcast(st, socket)
  <2>1. CASE Sets("charge", "soc", 42)
    BY <2>1, ChangedIs DEF IInv, Sets
  <2>2. CASE Sets("show", "shown", TRUE)
    BY <2>2, ChangedIs DEF IInv, Sets
  <2> QED BY <2>1, <2>2
<1>2. fixture \in Fixture /\ socket \in [Socket -> Record]
  BY DEF IInv, TypeOK
<1>3. fixture' \in Fixture /\ fixture'.state = st /\ fixture'.targets = fixture.targets
  BY <1>1, <1>2 DEF Fixture
<1>4. \A q \in Socket : Good(socket[q], q, page.current, fixture.targets, Version)
  BY DEF IInv, SocketsInv
<1> QED BY <1>1, <1>2, <1>3, <1>4, BroadcastStep

LEMMA ClicksStep ==
  ASSUME IInv, NEW step, NEW command \in Commands, NEW reject \in BOOLEAN,
         Clicks(step, command, reject)
  PROVE  IInv'
<1>1. Submit(command) /\ fixture' = [fixture EXCEPT !.reject = reject]
  BY DEF Clicks
<1>2. fixture \in Fixture
  BY DEF IInv, TypeOK
<1>3. Settled
  BY <1>1, <1>2 DEF Fixture, Settled, Version
<1> QED BY <1>1, <1>3, SubmitStep

\* The script looks, or lifts what it had imposed on the fixture.
LEMMA LookingStep ==
  ASSUME IInv, UNCHANGED clientVars,
         \/ UNCHANGED fixture
         \/ fixture' = [fixture EXCEPT !.reject = FALSE]
         \/ fixture' = [fixture EXCEPT !.paused = FALSE]
  PROVE  IInv'
<1>1. UNCHANGED <<page, socket, poll>>
  BY DEF clientVars
<1>2. fixture \in Fixture /\ page \in PageRecord
  BY DEF IInv, TypeOK
<1>3. Settled
  BY <1>2 DEF Fixture, Settled, Version
<1> QED BY <1>1, <1>2, <1>3, QuietStep

LEMMA ScriptSteps ==
  ASSUME IInv, ScriptStep \/ Expire
  PROVE  IInv'
<1>1. CASE Inventory \/ Hydrate \/ Look \/ WriteEvidence \/ Expire
  BY <1>1, LookingStep DEF Inventory, Hydrate, Look, WriteEvidence, Expire
<1>2. CASE Refused \/ Resume
  BY <1>2, LookingStep DEF Refused, Resume
<1>3. CASE Load
  BY <1>3, BeginStep DEF Load
<1>4. CASE Pause
  BY <1>4, PauseStep
<1>5. CASE GoOnline
  BY <1>5, OnlineStep, StaysSettled DEF GoOnline, IInv
<1>6. CASE Sets("charge", "soc", 42) \/ Sets("show", "shown", TRUE)
  BY <1>6, SetsStep
<1>7. CASE \/ Clicks("save", "fixture/camera", FALSE) \/ Clicks("hide", "hide", FALSE)
           \/ Clicks("refuse", "fixture/rejected", TRUE)
  BY <1>7, ClicksStep DEF Commands
<1> QED BY <1>1, <1>2, <1>3, <1>4, <1>5, <1>6, <1>7 DEF ScriptStep

-----------------------------------------------------------------------------
(* Every behaviour.                                                         *)

LEMMA AcceptanceStep ==
  ASSUME IInv, [Next]_vars
  PROVE  IInv'
<1>1. CASE PageStep
  BY <1>1, ClientSteps, StaysSettled DEF PageStep, IInv
<1>2. CASE Answers
  BY <1>2, AnswerStep DEF Answers
<1>3. CASE ScriptStep \/ Expire
  BY <1>3, ScriptSteps
<1>4. ASSUME NEW s \in Socket, Serves(s)
      PROVE  IInv'
  BY <1>4, AcceptStep, OnMessageStep, OnCloseStep DEF Serves, FixtureStep
<1>5. CASE UNCHANGED vars
  <2>1. UNCHANGED <<clientVars, fixture>>
    BY <1>5 DEF vars
  <2> QED BY <2>1, LookingStep
<1> QED BY <1>1, <1>2, <1>3, <1>4, <1>5 DEF Next

LEMMA AcceptanceInitially ==
  ASSUME AcceptanceInit
  PROVE  IInv
<1>1. /\ page = NoDocument /\ poll = NoPoll /\ socket = [s \in Socket |-> Unused]
      /\ fixture = [state |-> [version |-> 1, soc |-> 73, camera |-> "none", shown |-> TRUE],
                    reject |-> FALSE, paused |-> FALSE, commands |-> <<>>,
                    targets |-> {}, connections |-> 0]
  BY DEF AcceptanceInit, ClientInit
<1>2. page \in PageRecord /\ ~page.reconnect /\ ~page.commandConnected /\ page.view.version = 0
  BY <1>1 DEF NoDocument, Document, PageRecord, NoView
<1>3. fixture \in Fixture /\ fixture.targets = {} /\ Version = 1
  <2>1. PICK x \in State : x = [version |-> 1, soc |-> 73, camera |-> "none", shown |-> TRUE]
    BY DEF State
  <2>2. x.version = 1
    BY <2>1
  <2>3. <<>> \in Seq(Commands) /\ {} \in SUBSET Socket
    OBVIOUS
  <2> QED BY <1>1, <2>1, <2>2, <2>3 DEF Fixture, Version
<1>4. Unused \in Record /\ Unused.end = "unused" /\ Unused.inbox = <<>>
  <2>1. <<>> \in Seq(Message) /\ <<>> \in Seq(Frame)
    OBVIOUS
  <2> QED BY <2>1 DEF Unused, Record
<1>5. Opening(Unused) /\ Fresh(Unused.inbox, Version)
  BY <1>4 DEF Opening, Fresh
<1>6. \A s \in Socket : Good(Unused, s, page.current, {}, Version)
  BY <1>4, <1>5 DEF Good, Sound
<1>7. \A s \in Socket : socket[s] = Unused
  BY <1>1
<1>8. SocketsInv
  BY <1>3, <1>6, <1>7 DEF SocketsInv
<1>9. TypeOK
  BY <1>1, <1>2, <1>3, <1>4 DEF TypeOK
<1>10. VersionInv /\ ConnectInv
  BY <1>1, <1>2, <1>3 DEF VersionInv, ConnectInv, NoPoll
<1> QED BY <1>8, <1>9, <1>10 DEF IInv

\* Page, sockets, poll and fixture stay within what IInv says of them, whatever the order of
\* frames, polls, closes, reconnects and steps of the script.
THEOREM AcceptanceInvariance == Spec => []IInv
<1>1. AcceptanceInit => IInv
  BY AcceptanceInitially
<1>2. IInv /\ [Next]_vars => IInv'
  BY AcceptanceStep
<1> QED BY <1>1, <1>2, PTL DEF Spec

LEMMA IInvTargets ==
  ASSUME IInv
  PROVE  TargetsAreCurrent
<1>1. ASSUME NEW s \in Socket
      PROVE  /\ Good(socket[s], s, page.current, fixture.targets, Version)
             /\ Leaving(s) <=> Closing(socket[s].outbox) \/ Ends(socket[s].inbox)
  BY Zenon DEF IInv, SocketsInv, Leaving, Closing, Ends
<1>2. fixture.targets \subseteq Socket
  BY DEF IInv, TypeOK, Fixture
<1>3. ASSUME NEW s \in fixture.targets PROVE s = page.current \/ Leaving(s)
  <2>1. /\ Good(socket[s], s, page.current, fixture.targets, Version)
        /\ Leaving(s) <=> Closing(socket[s].outbox) \/ Ends(socket[s].inbox)
    BY <1>1, <1>2
  <2> QED BY <2>1 DEF Good, Sound, Record
<1>4. ASSUME NEW s \in Socket, socket[s].end = "open", ~Leaving(s)
      PROVE  s \in fixture.targets
  <2>1. /\ Good(socket[s], s, page.current, fixture.targets, Version)
        /\ Leaving(s) <=> Closing(socket[s].outbox) \/ Ends(socket[s].inbox)
    BY <1>1
  <2> QED BY <2>1, <1>4 DEF Good, Sound
<1> QED BY <1>3, <1>4 DEF TargetsAreCurrent

\* Whom the fixture broadcasts to is whom the page listens to, but for sockets whose close is
\* under way (scripts/browser-socket-fixture.cjs).
THEOREM TargetsHold == Spec => []TargetsAreCurrent
<1>1. IInv => TargetsAreCurrent
  BY IInvTargets
<1> QED BY <1>1, AcceptanceInvariance, PTL

LEMMA PollForward ==
  ASSUME IInv, [Next]_vars
  PROVE  [Polled => page'.view.version >= page.view.version]_vars
<1> SUFFICES ASSUME Polled PROVE page'.view.version >= page.view.version
  OBVIOUS
<1>1. poll.step = "answered" /\ page' = [page EXCEPT !.view = poll.state, !.live = poll.native,
                                                      !.polled = poll.native]
  BY DEF Polled
<1>2. page \in PageRecord
  BY DEF IInv, TypeOK
<1>3. page'.view = poll.state
  BY <1>1, <1>2 DEF PageRecord
<1>4. page.view.version <= poll.state.version
  BY <1>1 DEF IInv, VersionInv
<1>5. page.view.version \in Nat /\ poll.state.version \in Nat
  BY <1>1, Versions DEF IInv
<1> QED BY <1>3, <1>4, <1>5

\* The answer of a poll never replaces a later state: whatever shows one, a frame or a new
\* document, aborts the poll under way (E in static/assets/index-*.js).
THEOREM PollHolds == Spec => PollNeverGoesBack
<1>1. IInv /\ [Next]_vars => [Polled => page'.view.version >= page.view.version]_vars
  BY PollForward
<1> QED BY <1>1, AcceptanceInvariance, PTL DEF Spec, PollNeverGoesBack
=============================================================================
