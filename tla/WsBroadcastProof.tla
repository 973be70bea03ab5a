-------------------------- MODULE WsBroadcastProof --------------------------
(***************************************************************************)
(* Proofs about WsBroadcast, for any number of peers, callers and versions: *)
(* types, mutual exclusion of the locks, the order of frames, and how long   *)
(* a fan-out takes and whom it reaches.                                     *)
(***************************************************************************)
EXTENDS WsBroadcast, TLAPS

\* Those who want a peer's lock each want it once, and their frames are no older than what
\* the peer got nor than those of who came before.  Replies have no age.
Ordered(q, g, v) ==
  /\ q \in Seq(Request)
  /\ \A i, j \in DOMAIN q : q[i].who = q[j].who => i = j
  /\ \A i \in DOMAIN q : q[i].frame <= v /\ (q[i].frame = Reply \/ g <= q[i].frame)
  /\ \A i, j \in DOMAIN q : i < j => q[j].frame = Reply \/ q[i].frame <= q[j].frame

\* Who is in the queue is waiting for it, who writes is its first, and a peer that has not
\* come has none.
PeerInv ==
  \A p \in Peer :
    /\ Ordered(lock[p], got[p], version) /\ got[p] <= version
    /\ \A i \in DOMAIN lock[p] :
         /\ lock[p][i].who = Handler => handler[p] = "sending"
         /\ \A b \in Caller : lock[p][i].who = b
              => fanout[b] \in {"sending", "aborting"} /\ todo[b] = {}
    /\ write[p] # "none" => lock[p] # <<>>
    /\ handler[p] = "new" => p \notin clients /\ lock[p] = <<>>

\* One call has the broadcast lock, and its frame is as new as anything that the peers it has
\* yet to send to got or are being sent.
CallInv ==
  /\ \A i, j \in DOMAIN broadcastLock : broadcastLock[i] = broadcastLock[j] => i = j
  /\ \A i \in DOMAIN broadcastLock : fanout[broadcastLock[i]] # "idle"
  /\ \A b \in Caller :
       /\ fanout[b] # "idle" => \E i \in DOMAIN broadcastLock : broadcastLock[i] = b
       /\ fanout[b] \in {"sending", "aborting"} => broadcastLock # <<>> /\ Head(broadcastLock) = b
       /\ frame[b] <= version
       /\ todo[b] # {} => fanout[b] = "sending"
       /\ \A p \in todo[b] : /\ handler[p] # "new" /\ got[p] <= frame[b]
                             /\ \A i \in DOMAIN lock[p] : lock[p][i].frame <= frame[b]

IInv == TypeOK /\ PeerInv /\ CallInv

-----------------------------------------------------------------------------
(* Queues.                                                                  *)

\* A queue that one more joins.
LEMMA AppendFacts ==
  ASSUME NEW S, NEW q \in Seq(S), NEW x \in S
  PROVE  /\ Append(q, x) \in Seq(S) /\ Append(q, x) # <<>>
         /\ DOMAIN Append(q, x) = 1 .. Len(q) + 1 /\ DOMAIN q = 1 .. Len(q) /\ Len(q) \in Nat
         /\ \A k \in DOMAIN q : Append(q, x)[k] = q[k]
         /\ Append(q, x)[Len(q) + 1] = x
OBVIOUS

\* A queue that its first has left.
LEMMA TailFacts ==
  ASSUME NEW S, NEW q \in Seq(S), q # <<>>
  PROVE  /\ Tail(q) \in Seq(S) /\ DOMAIN Tail(q) = 1 .. Len(q) - 1
         /\ DOMAIN q = 1 .. Len(q) /\ Len(q) \in Nat \ {0}
         /\ Head(q) = q[1] /\ Head(q) \in S
         /\ \A k \in 1 .. Len(q) - 1 : Tail(q)[k] = q[k + 1]
OBVIOUS

\* A queue that another has left.
LEMMA WithoutFacts ==
  ASSUME NEW S, NEW q \in Seq(S), NEW i \in DOMAIN q
  PROVE  /\ Without(q, i) \in Seq(S) /\ DOMAIN Without(q, i) = 1 .. Len(q) - 1
         /\ DOMAIN q = 1 .. Len(q) /\ Len(q) \in Nat \ {0}
         /\ \A k \in 1 .. Len(q) - 1 : Without(q, i)[k] = q[IF k < i THEN k ELSE k + 1]
<1>1. DOMAIN q = 1 .. Len(q) /\ Len(q) \in Nat \ {0} /\ \A k \in 1 .. Len(q) : q[k] \in S
  OBVIOUS
<1>2. Len(q) - 1 \in Nat
  BY <1>1
<1>3. \A k \in 1 .. Len(q) - 1 : q[IF k < i THEN k ELSE k + 1] \in S
  BY <1>1
<1>4. Without(q, i) = [k \in 1 .. Len(q) - 1 |-> q[IF k < i THEN k ELSE k + 1]]
  BY DEF Without
<1>5. Without(q, i) \in Seq(S)
  BY <1>2, <1>3, <1>4
<1> QED BY <1>1, <1>4, <1>5

LEMMA RequestType ==
  ASSUME NEW r \in Request
  PROVE  r.who \in Writer /\ r.frame \in Nat
BY VersionAssumption DEF Request, Frames, Versions, Reply

\* A frame as new as all there is, or a reply, may join.
LEMMA AppendOrdered ==
  ASSUME NEW q, NEW g \in Nat, NEW v \in Nat, Ordered(q, g, v), NEW r \in Request,
         \A k \in DOMAIN q : q[k].who # r.who,
         r.frame <= v,
         r.frame = Reply \/ (g <= r.frame /\ \A k \in DOMAIN q : q[k].frame <= r.frame)
  PROVE  Ordered(Append(q, r), g, v)
<1> DEFINE a == Append(q, r)
<1>1. q \in Seq(Request)
  BY DEF Ordered
<1>2. /\ a \in Seq(Request) /\ DOMAIN a = 1 .. Len(q) + 1 /\ DOMAIN q = 1 .. Len(q) /\ Len(q) \in Nat
      /\ \A k \in DOMAIN q : a[k] = q[k]
      /\ a[Len(q) + 1] = r
  BY <1>1, AppendFacts
<1>3. r.frame \in Nat /\ \A k \in DOMAIN q : q[k].frame \in Nat
  BY <1>1, RequestType
<1> HIDE DEF a
<1>4. \A k \in DOMAIN a : (k \in DOMAIN q /\ a[k] = q[k]) \/ (k = Len(q) + 1 /\ a[k] = r)
  BY <1>2
<1>5. \A i, j \in DOMAIN a : a[i].who = a[j].who => i = j
  BY <1>4 DEF Ordered
<1>6. \A i \in DOMAIN a : a[i].frame <= v /\ (a[i].frame = Reply \/ g <= a[i].frame)
  BY <1>4 DEF Ordered
<1>7. \A i, j \in DOMAIN a : i < j => a[j].frame = Reply \/ a[i].frame <= a[j].frame
  BY <1>2, <1>4 DEF Ordered
<1> QED BY <1>2, <1>5, <1>6, <1>7 DEF Ordered, a

\* When the first leaves, what the peer may have got is no newer than the rest.
LEMMA TailOrdered ==
  ASSUME NEW q, NEW g \in Nat, NEW v \in Nat, Ordered(q, g, v), q # <<>>
  PROVE  /\ Ordered(Tail(q), g, v)
         /\ Ordered(Tail(q), Newest(Head(q).frame, g), v)
         /\ Ordered(q, Newest(Head(q).frame, g), v)
         /\ Newest(Head(q).frame, g) \in Frames \union {g} /\ Newest(Head(q).frame, g) >= g
         /\ g <= v => Newest(Head(q).frame, g) <= v
<1> DEFINE a == Tail(q)
           h == Newest(Head(q).frame, g)
<1>1. q \in Seq(Request)
  BY DEF Ordered
<1>2. /\ a \in Seq(Request) /\ DOMAIN a = 1 .. Len(q) - 1
      /\ DOMAIN q = 1 .. Len(q) /\ Len(q) \in Nat \ {0}
      /\ Head(q) = q[1] /\ Head(q) \in Request
      /\ \A k \in 1 .. Len(q) - 1 : a[k] = q[k + 1]
  BY <1>1, TailFacts
<1>3. \A k \in DOMAIN q : q[k].frame \in Nat
  BY <1>1, RequestType
<1>4. 1 \in DOMAIN q /\ \A k \in DOMAIN a : k + 1 \in DOMAIN q /\ a[k] = q[k + 1] /\ 1 < k + 1
  BY <1>2
<1>5. /\ h = IF q[1].frame = Reply THEN g ELSE q[1].frame
      /\ h \in Nat
  BY <1>2, <1>3 DEF Newest
<1>6. h >= g /\ (g <= v => h <= v)
  BY <1>3, <1>4, <1>5 DEF Ordered
<1>7. h \in Frames \union {g}
  BY <1>2, <1>5 DEF Request
<1>8. \A k \in DOMAIN q : q[k].frame = Reply \/ h <= q[k].frame
  <2>1. \A k \in DOMAIN q : k = 1 \/ 1 < k
    BY <1>2
  <2> QED BY <2>1, <1>3, <1>4, <1>5 DEF Ordered
<1> HIDE DEF a, h
<1>9. Ordered(q, h, v)
  BY <1>8 DEF Ordered
<1>10. ASSUME NEW f, Ordered(q, f, v) PROVE Ordered(a, f, v)
  <2>1. \A i, j \in DOMAIN a : i < j => i + 1 < j + 1
    BY <1>2
  <2>2. \A i, j \in DOMAIN a : i + 1 = j + 1 => i = j
    BY <1>2
  <2> QED BY <1>2, <1>4, <1>10, <2>1, <2>2 DEF Ordered
<1> QED BY <1>6, <1>7, <1>9, <1>10 DEF a, h

\* The order stands when another leaves.
LEMMA WithoutOrdered ==
  ASSUME NEW q, NEW g \in Nat, NEW v \in Nat, Ordered(q, g, v), NEW n \in DOMAIN q
  PROVE  Ordered(Without(q, n), g, v)
<1> DEFINE a == Without(q, n)
           at(k) == IF k < n THEN k ELSE k + 1
<1>1. q \in Seq(Request)
  BY DEF Ordered
<1>2. /\ a \in Seq(Request) /\ DOMAIN a = 1 .. Len(q) - 1
      /\ DOMAIN q = 1 .. Len(q) /\ Len(q) \in Nat \ {0}
      /\ \A k \in 1 .. Len(q) - 1 : a[k] = q[at(k)]
  BY <1>1, WithoutFacts
<1>3. \A k \in DOMAIN a : at(k) \in DOMAIN q /\ a[k] = q[at(k)]
  BY <1>2
<1>4. \A i, j \in DOMAIN a : (i < j => at(i) < at(j)) /\ (at(i) = at(j) => i = j)
  BY <1>2
<1> HIDE DEF a, at
<1> QED BY <1>2, <1>3, <1>4 DEF Ordered, a

-----------------------------------------------------------------------------
(* What every proof of a step uses.                                         *)

LEMMA Values ==
  ASSUME IInv
  PROVE  /\ version \in Nat /\ version \in Versions /\ version \in Frames
         /\ \A p \in Peer : /\ got[p] \in Frames /\ got[p] \in Nat /\ got[p] <= version
                            /\ lock[p] \in Seq(Request) /\ Ordered(lock[p], got[p], version)
                            /\ \A i \in DOMAIN lock[p] : lock[p][i].frame \in Nat
         /\ \A b \in Caller : frame[b] \in Frames /\ frame[b] \in Nat
<1>1. version \in Versions /\ version \in Nat /\ version \in Frames
  BY VersionAssumption DEF IInv, TypeOK, Versions, Frames
<1>2. \A f \in Frames : f \in Nat
  BY VersionAssumption DEF Frames, Versions, Reply
<1>3. \A p \in Peer : lock[p] \in Seq(Request) /\ got[p] \in Frames
  BY DEF IInv, TypeOK
<1>4. \A p \in Peer : \A i \in DOMAIN lock[p] : lock[p][i] \in Request
  BY <1>3
<1>5. \A p \in Peer : \A i \in DOMAIN lock[p] : lock[p][i].frame \in Nat
  BY <1>4, RequestType
<1>6. \A b \in Caller : frame[b] \in Frames
  BY DEF IInv, TypeOK
<1> QED BY <1>1, <1>2, <1>3, <1>5, <1>6 DEF IInv, PeerInv

\* The queues of ps when w has joined them.
Joined(ps, w, f) ==
  /\ write' \in [Peer -> {"none", "send", "close"}] /\ left' \in [Peer -> Nat]
  /\ lock' \in [Peer -> Seq(Request)]
  /\ \A p \in Peer : Ordered(lock'[p], got[p], version)
  /\ \A p \in Peer : write'[p] # "none" => lock'[p] # <<>>
  /\ \A p \in Peer \ ps : lock'[p] = lock[p]
  /\ \A p \in Peer : \A i \in DOMAIN lock'[p] :
       \/ i \in DOMAIN lock[p] /\ lock'[p][i] = lock[p][i]
       \/ p \in ps /\ lock'[p][i] = [who |-> w, frame |-> f]

\* Joining the queues of some peers.
LEMMA QueueKeeps ==
  ASSUME IInv, NEW ps \in SUBSET Peer, NEW w \in Writer, NEW f \in Frames, f <= version,
         \A p \in ps : ~Wants(w, p),
         \A p \in ps : f = Reply \/ (got[p] <= f /\ \A k \in DOMAIN lock[p] : lock[p][k].frame <= f),
         Queue(ps, w, f)
  PROVE  Joined(ps, w, f)
<1> DEFINE r == [who |-> w, frame |-> f]
           first(p) == p \in ps /\ lock[p] = <<>>
<1>1. r \in Request /\ r.who = w /\ r.frame = f
  BY DEF Request
<1>2. /\ lock'  = [p \in Peer |-> IF p \in ps THEN Append(lock[p], r) ELSE lock[p]]
      /\ write' = [p \in Peer |-> IF first(p) THEN "send" ELSE write[p]]
      /\ left'  = [p \in Peer |-> IF first(p) THEN SendTimeout ELSE left[p]]
  BY DEF Queue
<1> HIDE DEF r
<1>3. \A p \in ps : \A k \in DOMAIN lock[p] : lock[p][k].who # r.who
  BY <1>1 DEF Wants
<1>4. ASSUME NEW p \in ps
      PROVE  /\ Ordered(Append(lock[p], r), got[p], version)
             /\ Append(lock[p], r) \in Seq(Request) /\ Append(lock[p], r) # <<>>
             /\ \A i \in DOMAIN Append(lock[p], r) :
                  \/ i \in DOMAIN lock[p] /\ Append(lock[p], r)[i] = lock[p][i]
                  \/ Append(lock[p], r)[i] = r
  <2>1. lock[p] \in Seq(Request)
    BY Values
  <2>2. Ordered(Append(lock[p], r), got[p], version)
    BY <1>1, <1>3, Values, AppendOrdered
  <2>3. /\ Append(lock[p], r) \in Seq(Request) /\ Append(lock[p], r) # <<>>
        /\ DOMAIN Append(lock[p], r) = 1 .. Len(lock[p]) + 1 /\ DOMAIN lock[p] = 1 .. Len(lock[p])
        /\ Len(lock[p]) \in Nat
        /\ \A k \in DOMAIN lock[p] : Append(lock[p], r)[k] = lock[p][k]
        /\ Append(lock[p], r)[Len(lock[p]) + 1] = r
    BY <1>1, <2>1, AppendFacts
  <2>4. \A i \in DOMAIN Append(lock[p], r) : i \in DOMAIN lock[p] \/ i = Len(lock[p]) + 1
    BY <2>3
  <2> QED BY <2>2, <2>3, <2>4
<1>5. /\ write' \in [Peer -> {"none", "send", "close"}] /\ left' \in [Peer -> Nat]
  BY <1>2, TimeAssumption DEF IInv, TypeOK
<1>6. lock' \in [Peer -> Seq(Request)]
  BY <1>2, <1>4, Values
<1>7. \A p \in Peer : Ordered(lock'[p], got[p], version)
  BY <1>2, <1>4, Values
<1>8. \A p \in Peer : write'[p] # "none" => lock'[p] # <<>>
  BY <1>2, <1>4 DEF IInv, PeerInv
<1>9. \A p \in Peer \ ps : lock'[p] = lock[p]
  BY <1>2
<1>10. \A p \in Peer : \A i \in DOMAIN lock'[p] :
              \/ i \in DOMAIN lock[p] /\ lock'[p][i] = lock[p][i]
              \/ p \in ps /\ lock'[p][i] = r
  BY <1>2, <1>4
<1> QED BY <1>5, <1>6, <1>7, <1>8, <1>9, <1>10 DEF r, Joined

\* Whoever is in a queue waits for it.
LEMMA Members ==
  ASSUME IInv, NEW p \in Peer, NEW k \in DOMAIN lock[p]
  PROVE  /\ lock[p][k].who = Handler => handler[p] = "sending"
         /\ \A b \in Caller : lock[p][k].who = b
              => fanout[b] \in {"sending", "aborting"} /\ todo[b] = {}
BY Zenon DEF IInv, PeerInv

\* A peer whose queue shrank, or stayed: what is left of it was there, in its order.
Shrunk(p) ==
  /\ lock'[p] \in Seq(Request)
  /\ Ordered(lock'[p], got'[p], version)
  /\ got'[p] \in Frames /\ got'[p] >= got[p] /\ got'[p] <= version
  /\ got'[p] = got[p] \/ \E i \in DOMAIN lock[p] : got'[p] = lock[p][i].frame
  /\ \A i \in DOMAIN lock'[p] : \E k \in DOMAIN lock[p] : lock'[p][i] = lock[p][k]

\* The first of the queue of p is done, and its frame has reached p or not.
LEMMA ReleaseShrinks ==
  ASSUME IInv, NEW p \in Peer, lock[p] # <<>>, Release(p),
         got'[p] \in {got[p], Newest(Head(lock[p]).frame, got[p])}
  PROVE  Shrunk(p)
<1>1. lock[p] \in Seq(Request) /\ got[p] \in Nat /\ got[p] \in Frames /\ version \in Nat
      /\ Ordered(lock[p], got[p], version) /\ got[p] <= version
  BY Values
<1>2. lock'[p] = Tail(lock[p])
  BY DEF Release, IInv, TypeOK
<1>3. /\ Ordered(lock'[p], got[p], version)
      /\ Ordered(lock'[p], Newest(Head(lock[p]).frame, got[p]), version)
      /\ Newest(Head(lock[p]).frame, got[p]) \in Frames
      /\ Newest(Head(lock[p]).frame, got[p]) >= got[p]
      /\ Newest(Head(lock[p]).frame, got[p]) <= version
  BY <1>1, <1>2, TailOrdered
<1>4. /\ DOMAIN Tail(lock[p]) = 1 .. Len(lock[p]) - 1
      /\ DOMAIN lock[p] = 1 .. Len(lock[p]) /\ Len(lock[p]) \in Nat \ {0}
      /\ Head(lock[p]) = lock[p][1]
      /\ \A k \in 1 .. Len(lock[p]) - 1 : Tail(lock[p])[k] = lock[p][k + 1]
      /\ Tail(lock[p]) \in Seq(Request)
  BY <1>1, TailFacts
<1>5. 1 \in DOMAIN lock[p] /\ \A k \in DOMAIN Tail(lock[p]) : k + 1 \in DOMAIN lock[p]
  BY <1>4
<1>6. Newest(Head(lock[p]).frame, got[p]) \in {got[p], lock[p][1].frame}
  BY <1>4 DEF Newest
<1>7. got'[p] >= got[p]
  BY <1>1, <1>3
<1>8. \A i \in DOMAIN lock'[p] : \E k \in DOMAIN lock[p] : lock'[p][i] = lock[p][k]
  BY <1>2, <1>4, <1>5
<1>9. got'[p] = got[p] \/ \E i \in DOMAIN lock[p] : got'[p] = lock[p][i].frame
  BY <1>5, <1>6
<1> QED BY <1>1, <1>2, <1>3, <1>4, <1>7, <1>8, <1>9 DEF Shrunk

\* What FramesInOrder says of a step.
InOrder == \A p \in Peer : got'[p] >= got[p]

\* Whatever shrinks, the rest that is said of queues goes on holding.
LEMMA ShrunkKeeps ==
  ASSUME IInv, \A p \in Peer : Shrunk(p),
         UNCHANGED <<version, callVars>>,
         lock' \in [Peer -> Seq(Request)], got' \in [Peer -> Frames],
         write' \in [Peer -> {"none", "send", "close"}], left' \in [Peer -> Nat],
         clients' \in SUBSET clients,
         handler' \in [Peer -> {"new", "sending", "receiving", "ended"}],
         \A p \in Peer : write'[p] # "none" => lock'[p] # <<>>,
         \A p \in Peer : handler'[p] = "new" => handler[p] = "new",
         \A p \in Peer : handler'[p] # handler[p] =>
           \A i \in DOMAIN lock'[p] : lock'[p][i].who # Handler
  PROVE  IInv' /\ InOrder
<1>1. /\ version' = version /\ broadcastLock' = broadcastLock /\ fanout' = fanout
      /\ frame' = frame /\ todo' = todo /\ age' = age /\ asked' = asked
  BY DEF callVars
<1>2. TypeOK'
  <2>1. \A p \in Peer : \A i, j \in DOMAIN lock'[p] : lock'[p][i].who = lock'[p][j].who => i = j
    BY DEF Shrunk, Ordered
  <2> QED BY <1>1, <2>1 DEF IInv, TypeOK
<1>3. ASSUME NEW p \in Peer
      PROVE  /\ Ordered(lock[p], got[p], version)' /\ got'[p] <= version'
             /\ \A i \in DOMAIN lock'[p] :
                  /\ lock'[p][i].who = Handler => handler'[p] = "sending"
                  /\ \A b \in Caller : lock'[p][i].who = b
                       => fanout'[b] \in {"sending", "aborting"} /\ todo'[b] = {}
             /\ handler'[p] = "new" => p \notin clients' /\ lock'[p] = <<>>
  <2>1. Ordered(lock[p], got[p], version)' /\ got'[p] <= version'
    BY <1>1 DEF Shrunk
  <2>2. ASSUME NEW i \in DOMAIN lock'[p]
        PROVE  /\ lock'[p][i].who = Handler => handler'[p] = "sending"
               /\ \A b \in Caller : lock'[p][i].who = b
                    => fanout'[b] \in {"sending", "aborting"} /\ todo'[b] = {}
    <3>1. PICK k \in DOMAIN lock[p] : lock'[p][i] = lock[p][k]
      BY DEF Shrunk
    <3>2. /\ lock[p][k].who = Handler => handler[p] = "sending"
          /\ \A b \in Caller : lock[p][k].who = b
               => fanout[b] \in {"sending", "aborting"} /\ todo[b] = {}
      BY Members
    <3>3. lock'[p][i].who = Handler => handler'[p] = handler[p]
      OBVIOUS
    <3> QED BY <3>1, <3>2, <3>3, <1>1
  <2>3. ASSUME handler'[p] = "new" PROVE p \notin clients' /\ lock'[p] = <<>>
    <3>1. p \notin clients /\ lock[p] = <<>>
      BY <2>3 DEF IInv, PeerInv
    <3>2. lock'[p] \in Seq(Request) /\ \A i \in DOMAIN lock'[p] : i \in {}
      BY <3>1 DEF Shrunk
    <3>3. lock'[p] # <<>> => 1 \in DOMAIN lock'[p]
      BY <3>2
    <3> QED BY <3>1, <3>2, <3>3
  <2> QED BY <2>1, <2>2, <2>3
<1>4. PeerInv'
  BY <1>3 DEF PeerInv
<1>5. CallInv'
  <2>1. ASSUME NEW b \in Caller, NEW p \in todo[b]
        PROVE  /\ handler'[p] # "new" /\ got'[p] <= frame[b]
               /\ \A i \in DOMAIN lock'[p] : lock'[p][i].frame <= frame[b]
    <3>1. p \in Peer /\ Shrunk(p)
      BY DEF IInv, TypeOK
    <3>2. /\ handler[p] # "new" /\ got[p] <= frame[b]
          /\ \A i \in DOMAIN lock[p] : lock[p][i].frame <= frame[b]
      BY DEF IInv, CallInv
    <3> QED BY <3>1, <3>2 DEF Shrunk
  <2> QED BY <1>1, <2>1 DEF IInv, CallInv
<1> QED BY <1>2, <1>4, <1>5 DEF IInv, InOrder, Shrunk

-----------------------------------------------------------------------------
(* A peer's lock.                                                           *)

\* A queue nothing was done to.
LEMMA SameShrinks ==
  ASSUME IInv, NEW p \in Peer, lock'[p] = lock[p], got'[p] = got[p], version' = version
  PROVE  Shrunk(p)
BY Values DEF Shrunk

\* The handler of p was first in its queue, and is done with it.
LEMMA HandlerLeaves ==
  ASSUME IInv, NEW p \in Peer, lock[p] # <<>>, Head(lock[p]).who = Handler
  PROVE  \A i \in DOMAIN Tail(lock[p]) : Tail(lock[p])[i].who # Handler
<1>1. lock[p] \in Seq(Request) /\ Ordered(lock[p], got[p], version)
  BY Values
<1>2. /\ DOMAIN Tail(lock[p]) = 1 .. Len(lock[p]) - 1
      /\ DOMAIN lock[p] = 1 .. Len(lock[p]) /\ Len(lock[p]) \in Nat \ {0}
      /\ Head(lock[p]) = lock[p][1]
      /\ \A k \in 1 .. Len(lock[p]) - 1 : Tail(lock[p])[k] = lock[p][k + 1]
  BY <1>1, TailFacts
<1>3. \A i \in DOMAIN lock[p] : lock[p][i].who = lock[p][1].who => i = 1
  BY <1>1, <1>2 DEF Ordered
<1>4. \A k \in DOMAIN Tail(lock[p]) : k + 1 \in DOMAIN lock[p] /\ k + 1 # 1
  BY <1>2
<1> QED BY <1>2, <1>3, <1>4

\* The first of a queue leaves it: its frame was sent, or its send failed or was dropped.
LEMMA ReleaseKeeps ==
  ASSUME IInv, NEW p \in Peer, lock[p] # <<>>, Release(p),
         \/ Resume(p)
         \/ UNCHANGED handler,
         NEW g \in {got[p], Newest(Head(lock[p]).frame, got[p])},
         got' = [got EXCEPT ![p] = g],
         UNCHANGED <<version, clients, callVars>>
  PROVE  IInv' /\ InOrder
<1>1. /\ lock' = [lock EXCEPT ![p] = Tail(@)]
      /\ write' = [write EXCEPT ![p] = "none"] /\ left' = [left EXCEPT ![p] = 0]
  BY DEF Release
<1>2. lock \in [Peer -> Seq(Request)] /\ got \in [Peer -> Frames]
  BY DEF IInv, TypeOK
<1>3. got'[p] = g /\ \A q \in Peer \ {p} : got'[q] = got[q]
  BY <1>2
<1>4. lock'[p] = Tail(lock[p]) /\ \A q \in Peer \ {p} : lock'[q] = lock[q]
  BY <1>1, <1>2
<1>5. Shrunk(p)
  BY <1>3, ReleaseShrinks
<1>6. \A q \in Peer \ {p} : Shrunk(q)
  BY <1>3, <1>4, SameShrinks
<1>7. \A q \in Peer : lock'[q] \in Seq(Request) /\ got'[q] \in Frames
  BY <1>5, <1>6 DEF Shrunk
<1>8. lock' \in [Peer -> Seq(Request)] /\ got' \in [Peer -> Frames]
  <2>1. lock' = [q \in Peer |-> lock'[q]]
    BY <1>1, <1>2
  <2>2. got' = [q \in Peer |-> got'[q]]
    BY <1>2
  <2> QED BY <2>1, <2>2, <1>7
<1>9. /\ write' \in [Peer -> {"none", "send", "close"}] /\ left' \in [Peer -> Nat]
      /\ \A q \in Peer : write'[q] # "none" => q # p /\ write[q] # "none"
  BY <1>1 DEF IInv, TypeOK
<1>10. \A q \in Peer : write'[q] # "none" => lock'[q] # <<>>
  BY <1>4, <1>9 DEF IInv, PeerInv
<1>11. /\ handler' \in [Peer -> {"new", "sending", "receiving", "ended"}]
       /\ \A q \in Peer : handler'[q] = "new" => handler[q] = "new"
       /\ \A q \in Peer : handler'[q] # handler[q] => q = p /\ Head(lock[p]).who = Handler
  BY DEF Resume, IInv, TypeOK
<1>12. \A q \in Peer : handler'[q] # handler[q] =>
         \A i \in DOMAIN lock'[q] : lock'[q][i].who # Handler
  <2>1. Head(lock[p]).who = Handler => \A i \in DOMAIN lock'[p] : lock'[p][i].who # Handler
    BY <1>4, HandlerLeaves
  <2> QED BY <2>1, <1>11
<1>13. clients' \in SUBSET clients /\ UNCHANGED <<version, callVars>>
  BY DEF IInv, TypeOK
<1> QED BY <1>5, <1>6, <1>8, <1>9, <1>10, <1>11, <1>12, <1>13, ShrunkKeeps

\* The queues stay as they are.
LEMMA QueuesStay ==
  ASSUME IInv, UNCHANGED <<version, lock, callVars>>,
         clients' \in SUBSET clients,
         handler' \in [Peer -> {"new", "sending", "receiving", "ended"}],
         \A p \in Peer : handler'[p] = "new" => handler[p] = "new",
         \A p \in Peer : handler'[p] # handler[p] => handler[p] # "sending",
         got' \in [Peer -> Frames],
         \A p \in Peer : got'[p] = got[p] \/ (lock[p] # <<>> /\ got'[p] = Newest(Head(lock[p]).frame, got[p])),
         write' \in [Peer -> {"none", "send", "close"}], left' \in [Peer -> Nat],
         \A p \in Peer : write'[p] # "none" => lock[p] # <<>>
  PROVE  IInv' /\ InOrder
<1>1. ASSUME NEW p \in Peer PROVE Shrunk(p)
  <2>1. CASE got'[p] = got[p]
    BY <2>1, SameShrinks
  <2>2. CASE lock[p] # <<>> /\ got'[p] = Newest(Head(lock[p]).frame, got[p])
    <3>1. lock[p] \in Seq(Request) /\ got[p] \in Nat /\ version \in Nat /\ got[p] <= version
          /\ Ordered(lock[p], got[p], version)
      BY Values
    <3> DEFINE h == Newest(Head(lock[p]).frame, got[p])
    <3>2. Ordered(lock[p], h, version) /\ h >= got[p] /\ h <= version
      BY <3>1, <2>2, TailOrdered
    <3>3. Head(lock[p]) = lock[p][1] /\ 1 \in DOMAIN lock[p]
      BY <3>1, <2>2
    <3>4. got'[p] = got[p] \/ got'[p] = lock[p][1].frame
      BY <3>3, <2>2 DEF Newest
    <3>5. got'[p] = h
      BY <2>2
    <3> HIDE DEF h
    <3>6. Ordered(lock'[p], got'[p], version) /\ got'[p] >= got[p] /\ got'[p] <= version
      BY <3>2, <3>5
    <3> QED BY <3>1, <3>3, <3>4, <3>6 DEF Shrunk
  <2> QED BY <2>1, <2>2
<1>2. \A p \in Peer : handler'[p] # handler[p] =>
        \A i \in DOMAIN lock'[p] : lock'[p][i].who # Handler
  BY Members
<1>3. lock' \in [Peer -> Seq(Request)] /\ \A p \in Peer : write'[p] # "none" => lock'[p] # <<>>
  BY DEF IInv, TypeOK
<1> QED BY <1>1, <1>2, <1>3, ShrunkKeeps

\* A peer's own steps and the writes to it, but for those that join its queue.
LEMMA LeaveKeeps ==
  ASSUME IInv, NEW p \in Peer, Leave(p)
  PROVE  IInv' /\ InOrder
<1>1. /\ handler[p] = "receiving" /\ handler' = [handler EXCEPT ![p] = "ended"]
      /\ clients' = clients \ {p}
      /\ UNCHANGED <<version, lock, write, left, got, callVars>>
  BY DEF Leave
<1>2. /\ handler \in [Peer -> {"new", "sending", "receiving", "ended"}]
      /\ write' \in [Peer -> {"none", "send", "close"}] /\ left' \in [Peer -> Nat]
      /\ got' \in [Peer -> Frames]
  BY <1>1 DEF IInv, TypeOK
<1>3. /\ handler' \in [Peer -> {"new", "sending", "receiving", "ended"}]
      /\ \A q \in Peer : handler'[q] = "new" => handler[q] = "new"
      /\ \A q \in Peer : handler'[q] # handler[q] => handler[q] # "sending"
  BY <1>1, <1>2
<1>4. \A q \in Peer : write'[q] # "none" => lock[q] # <<>>
  BY <1>1 DEF IInv, PeerInv
<1> QED BY <1>1, <1>2, <1>3, <1>4, QueuesStay

LEMMA AcquireKeeps ==
  ASSUME IInv, NEW p \in Peer, Acquire(p)
  PROVE  IInv' /\ InOrder
<1>1. lock[p] # <<>> /\ UNCHANGED <<version, clients, got, callVars>>
  BY DEF Acquire
<1>2. CASE p \in clients
  <2>1. /\ write' = [write EXCEPT ![p] = "send"] /\ left' = [left EXCEPT ![p] = SendTimeout]
        /\ UNCHANGED <<lock, handler>>
    BY <1>2 DEF Acquire
  <2>2. /\ write' \in [Peer -> {"none", "send", "close"}] /\ left' \in [Peer -> Nat]
        /\ got' \in [Peer -> Frames]
        /\ handler' \in [Peer -> {"new", "sending", "receiving", "ended"}]
        /\ \A q \in Peer : write'[q] # "none" => q = p \/ write[q] # "none"
    BY <1>1, <2>1, TimeAssumption DEF IInv, TypeOK
  <2>3. \A q \in Peer : write'[q] # "none" => lock[q] # <<>>
    BY <1>1, <2>2 DEF IInv, PeerInv
  <2> QED BY <1>1, <2>1, <2>2, <2>3, QueuesStay
<1>3. CASE p \notin clients
  <2>1. Release(p) /\ Resume(p)
    BY <1>3 DEF Acquire
  <2>2. got' = [got EXCEPT ![p] = got[p]]
    BY <1>1 DEF IInv, TypeOK
  <2> QED BY <1>1, <2>1, <2>2, ReleaseKeeps
<1> QED BY <1>2, <1>3

LEMMA SentKeeps ==
  ASSUME IInv, NEW p \in Peer, Sent(p) \/ Closed(p)
  PROVE  IInv' /\ InOrder
<1>1. lock[p] # <<>>
  BY DEF Sent, Closed, IInv, PeerInv
<1>2. got' = [got EXCEPT ![p] = Newest(Head(lock[p]).frame, @)] \/ got' = got
  BY DEF Sent, Closed
<1>3. Release(p) /\ Resume(p) /\ UNCHANGED <<version, clients, callVars>>
  BY DEF Sent, Closed
<1>4. \E g \in {got[p], Newest(Head(lock[p]).frame, got[p])} : got' = [got EXCEPT ![p] = g]
  BY <1>2 DEF IInv, TypeOK
<1> QED BY <1>1, <1>3, <1>4, ReleaseKeeps

LEMMA SendFailsKeeps ==
  ASSUME IInv, NEW p \in Peer, SendFails(p)
  PROVE  IInv' /\ InOrder
<1>1. /\ write[p] = "send"
      /\ write' = [write EXCEPT ![p] = "close"] /\ left' = [left EXCEPT ![p] = CloseTimeout]
      /\ clients' = clients \ {p} /\ UNCHANGED <<version, handler, lock, callVars>>
  BY DEF SendFails, ClosingTime, Forgotten
<1>2. lock[p] # <<>>
  BY <1>1 DEF IInv, PeerInv
<1>3. PICK g \in {got[p], Newest(Head(lock[p]).frame, got[p])} : got' = [got EXCEPT ![p] = g]
  BY DEF SendFails
<1>4. g \in Frames
  <2>1. lock[p] \in Seq(Request) /\ got[p] \in Frames /\ got[p] \in Nat /\ version \in Nat
        /\ Ordered(lock[p], got[p], version)
    BY Values
  <2>2. Newest(Head(lock[p]).frame, got[p]) \in Frames \union {got[p]}
    BY <2>1, <1>2, TailOrdered
  <2> QED BY <2>1, <2>2
<1>5. /\ got \in [Peer -> Frames]
      /\ write' \in [Peer -> {"none", "send", "close"}] /\ left' \in [Peer -> Nat]
      /\ handler' \in [Peer -> {"new", "sending", "receiving", "ended"}]
      /\ \A q \in Peer : write'[q] # "none" => write[q] # "none"
  BY <1>1, TimeAssumption DEF IInv, TypeOK
<1>6. \A q \in Peer : write'[q] # "none" => lock[q] # <<>>
  BY <1>5 DEF IInv, PeerInv
<1>7. /\ got' \in [Peer -> Frames]
      /\ \A q \in Peer : got'[q] = got[q] \/ (lock[q] # <<>> /\ got'[q] = Newest(Head(lock[q]).frame, got[q]))
  BY <1>2, <1>3, <1>4, <1>5
<1> QED BY <1>1, <1>5, <1>6, <1>7, QueuesStay

\* A cancelled send leaves the queue, wherever it is in it.
LEMMA AbortKeeps ==
  ASSUME IInv, NEW b \in Caller, NEW p \in Peer, Abort(b, p)
  PROVE  IInv' /\ InOrder
<1>1. Wants(b, p) /\ UNCHANGED <<version, clients, handler, callVars>>
  BY DEF Abort
<1>2. lock[p] \in Seq(Request) /\ Ordered(lock[p], got[p], version) /\ got[p] \in Nat
      /\ version \in Nat /\ got[p] <= version /\ got[p] \in Frames
  BY Values
<1>3. lock[p] # <<>>
  BY <1>1, <1>2 DEF Wants
<1>4. CASE Head(lock[p]).who = b
  <2>1. Release(p)
    BY <1>4 DEF Abort
  <2>2. PICK g \in {got[p], Newest(Head(lock[p]).frame, got[p])} : got' = [got EXCEPT ![p] = g]
    BY <1>4 DEF Abort
  <2> QED BY <1>1, <1>3, <2>1, <2>2, ReleaseKeeps
<1>5. CASE Head(lock[p]).who # b
  <2>1. UNCHANGED <<write, left, got>>
    BY <1>5 DEF Abort
  <2>2. PICK n \in DOMAIN lock[p] : lock' = [lock EXCEPT ![p] = Without(@, n)] /\ lock[p][n].who = b
    BY <1>5 DEF Abort
  <2>3. lock \in [Peer -> Seq(Request)]
    BY DEF IInv, TypeOK
  <2>4. lock'[p] = Without(lock[p], n) /\ \A q \in Peer \ {p} : lock'[q] = lock[q]
    BY <2>2, <2>3
  <2>5. Ordered(Without(lock[p], n), got[p], version)
    BY <1>2, WithoutOrdered
  <2>6. /\ Without(lock[p], n) \in Seq(Request) /\ DOMAIN Without(lock[p], n) = 1 .. Len(lock[p]) - 1
        /\ DOMAIN lock[p] = 1 .. Len(lock[p]) /\ Len(lock[p]) \in Nat \ {0}
        /\ \A k \in 1 .. Len(lock[p]) - 1 :
             Without(lock[p], n)[k] = lock[p][IF k < n THEN k ELSE k + 1]
    BY <1>2, WithoutFacts
  <2>7. \A k \in 1 .. Len(lock[p]) - 1 : (IF k < n THEN k ELSE k + 1) \in DOMAIN lock[p]
    BY <2>6
  <2>8. \A i \in DOMAIN lock'[p] : \E k \in DOMAIN lock[p] : lock'[p][i] = lock[p][k]
    BY <2>4, <2>6, <2>7
  <2>9. Shrunk(p)
    BY <2>1, <2>4, <2>5, <2>6, <2>8, <1>1, <1>2 DEF Shrunk
  <2>10. \A q \in Peer : Shrunk(q)
    BY <2>1, <2>4, <2>9, <1>1, SameShrinks
  <2>11. lock' \in [Peer -> Seq(Request)]
    BY <2>2, <2>3, <2>6
  <2>12. write[p] # "none" => lock'[p] # <<>>
    \* the first, who writes, is another and stays
    <3>1. Head(lock[p]) = lock[p][1] /\ lock[p][n].who = b
      BY <1>2, <1>3, <2>2
    <3>2. n # 1
      BY <3>1, <1>5
    <3>3. 1 \in DOMAIN Without(lock[p], n)
      BY <2>6, <3>2
    <3> QED BY <2>4, <3>3
  <2>13. \A q \in Peer : write'[q] # "none" => lock'[q] # <<>>
    BY <2>1, <2>4, <2>12 DEF IInv, PeerInv
  <2>14. /\ got' \in [Peer -> Frames] /\ write' \in [Peer -> {"none", "send", "close"}]
         /\ left' \in [Peer -> Nat] /\ clients' \in SUBSET clients
         /\ handler' \in [Peer -> {"new", "sending", "receiving", "ended"}] /\ handler' = handler
    BY <2>1, <1>1 DEF IInv, TypeOK
  <2> QED BY <1>1, <2>10, <2>11, <2>13, <2>14, ShrunkKeeps
<1> QED BY <1>4, <1>5

-----------------------------------------------------------------------------
(* Steps that join a queue, and steps of the state.                         *)

\* A newer state leaves the order of the frames as it is.
LEMMA LaterOrdered ==
  ASSUME NEW q \in Seq(Request), NEW g \in Nat, NEW v \in Nat, Ordered(q, g, v)
  PROVE  Ordered(q, g, v + 1)
<1>1. \A i \in DOMAIN q : q[i] \in Request
  OBVIOUS
<1>2. \A i \in DOMAIN q : q[i].frame \in Nat
  BY <1>1, RequestType
<1> QED BY <1>2 DEF Ordered

LEMMA ChangeKeeps ==
  ASSUME IInv, Change
  PROVE  IInv' /\ InOrder
<1>1. version < MaxVersion /\ version' = version + 1 /\ UNCHANGED <<peerVars, callVars>>
  BY DEF Change
<1>2. /\ version \in Nat /\ \A p \in Peer : got[p] \in Nat /\ got[p] <= version
      /\ \A p \in Peer : lock[p] \in Seq(Request) /\ Ordered(lock[p], got[p], version)
  BY Values
<1>3. TypeOK'
  <2>1. version' \in Versions
    BY <1>1, <1>2, VersionAssumption DEF Versions
  <2> QED BY <1>1, <2>1 DEF IInv, TypeOK, peerVars, callVars
<1>4. PeerInv'
  <2>1. \A p \in Peer : Ordered(lock[p], got[p], version + 1) /\ got[p] <= version + 1
    <3>1. ASSUME NEW p \in Peer PROVE Ordered(lock[p], got[p], version + 1)
      BY <1>2, LaterOrdered, Zenon
    <3>2. ASSUME NEW g \in Nat, NEW v \in Nat, g <= v PROVE g <= v + 1
      BY <3>2
    <3>3. ASSUME NEW p \in Peer PROVE got[p] <= version + 1
      BY <1>2, <3>2, Zenon
    <3> QED BY <3>1, <3>3, Zenon
  <2> QED BY <1>1, <2>1 DEF IInv, PeerInv, peerVars, callVars
<1>5. CallInv'
  <2>1. \A b \in Caller : frame[b] <= version + 1
    BY <1>2, Values DEF IInv, CallInv
  <2> QED BY <1>1, <2>1 DEF IInv, CallInv, peerVars, callVars
<1> QED BY <1>1, <1>2, <1>3, <1>4, <1>5 DEF IInv, InOrder, peerVars

\* A handler joins the queue of its own peer.
LEMMA HandlerJoins ==
  ASSUME IInv, NEW p \in Peer, NEW f \in Frames,
         \/ handler[p] = "new" /\ f = version
         \/ handler[p] = "receiving" /\ f = Reply,
         handler' = [handler EXCEPT ![p] = "sending"],
         clients' = clients \union {p},
         Queue({p}, Handler, f),
         UNCHANGED <<version, got, callVars>>
  PROVE  IInv' /\ InOrder
<1>1. /\ broadcastLock' = broadcastLock /\ fanout' = fanout /\ frame' = frame
      /\ todo' = todo /\ age' = age /\ asked' = asked
  BY DEF callVars
<1>2. ~Wants(Handler, p)
  BY Members DEF Wants
<1>3. handler[p] = "new" => lock[p] = <<>>
  BY DEF IInv, PeerInv
<1>4. f <= version /\ (f = Reply \/ (got[p] <= f /\ \A k \in DOMAIN lock[p] : lock[p][k].frame <= f))
  BY <1>3, Values DEF Reply
<1>5. Handler \in Writer
  BY DEF Writer
<1>6. /\ write' \in [Peer -> {"none", "send", "close"}] /\ left' \in [Peer -> Nat]
      /\ lock' \in [Peer -> Seq(Request)]
      /\ \A q \in Peer : Ordered(lock'[q], got[q], version)
      /\ \A q \in Peer : write'[q] # "none" => lock'[q] # <<>>
      /\ \A q \in Peer \ {p} : lock'[q] = lock[q]
      /\ \A q \in Peer : \A i \in DOMAIN lock'[q] :
           \/ i \in DOMAIN lock[q] /\ lock'[q][i] = lock[q][i]
           \/ q \in {p} /\ lock'[q][i] = [who |-> Handler, frame |-> f]
  <2>0. PICK ps : ps = {p}
    OBVIOUS
  <2>1. ps \in SUBSET Peer /\ \A q \in ps : q = p
    BY <2>0
  <2>2. Queue(ps, Handler, f)
    BY <2>0
  <2>3. \A q \in ps : ~Wants(Handler, q)
    BY <1>2, <2>1
  <2>4. \A q \in ps : f = Reply \/ (got[q] <= f /\ \A k \in DOMAIN lock[q] : lock[q][k].frame <= f)
    BY <1>4, <2>1
  <2>5. Joined(ps, Handler, f)
    BY <1>4, <1>5, <2>1, <2>2, <2>3, <2>4, QueueKeeps, Zenon
  <2> QED BY <2>0, <2>5 DEF Joined
<1>7. handler' \in [Peer -> {"new", "sending", "receiving", "ended"}]
      /\ handler'[p] = "sending" /\ \A q \in Peer \ {p} : handler'[q] = handler[q]
  BY DEF IInv, TypeOK
<1>8. TypeOK'
  <2>1. \A q \in Peer : \A i, j \in DOMAIN lock'[q] : lock'[q][i].who = lock'[q][j].who => i = j
    BY <1>6 DEF Ordered
  <2>2. clients' \in SUBSET Peer /\ got' = got /\ version' = version
    BY DEF IInv, TypeOK
  <2> QED BY <1>1, <1>6, <1>7, <2>1, <2>2 DEF IInv, TypeOK
<1>9. ASSUME NEW q \in Peer
      PROVE  /\ \A i \in DOMAIN lock'[q] :
                  /\ lock'[q][i].who = Handler => handler'[q] = "sending"
                  /\ \A b \in Caller : lock'[q][i].who = b
                       => fanout'[b] \in {"sending", "aborting"} /\ todo'[b] = {}
             /\ handler'[q] = "new" => q \notin clients' /\ lock'[q] = <<>>
  <2>1. ASSUME NEW i \in DOMAIN lock'[q]
        PROVE  /\ lock'[q][i].who = Handler => handler'[q] = "sending"
               /\ \A b \in Caller : lock'[q][i].who = b
                    => fanout'[b] \in {"sending", "aborting"} /\ todo'[b] = {}
    <3>1. CASE i \in DOMAIN lock[q] /\ lock'[q][i] = lock[q][i]
      <4>1. /\ lock[q][i].who = Handler => handler[q] = "sending"
            /\ \A b \in Caller : lock[q][i].who = b
                 => fanout[b] \in {"sending", "aborting"} /\ todo[b] = {}
        BY <3>1, Members
      <4> QED BY <3>1, <4>1, <1>1, <1>7
    <3>2. CASE q = p /\ lock'[q][i] = [who |-> Handler, frame |-> f]
      BY <3>2, <1>7, CallerAssumption
    <3> QED BY <3>1, <3>2, <1>6
  <2>2. handler'[q] = "new" => q \notin clients' /\ lock'[q] = <<>>
    BY <1>6, <1>7 DEF IInv, PeerInv
  <2> QED BY <2>1, <2>2
<1>10. PeerInv'
  <2>1. \A q \in Peer : Ordered(lock[q], got[q], version)' /\ (got[q] <= version)'
    BY <1>6, Values
  <2> QED BY <1>6, <1>9, <2>1 DEF PeerInv
<1>11. CallInv'
  <2>1. ASSUME NEW b \in Caller, NEW q \in todo[b]
        PROVE  /\ handler'[q] # "new" /\ got[q] <= frame[b]
               /\ \A i \in DOMAIN lock'[q] : lock'[q][i].frame <= frame[b]
    <3>1. q \in Peer
      BY DEF IInv, TypeOK
    <3>2. /\ handler[q] # "new" /\ got[q] <= frame[b]
          /\ \A i \in DOMAIN lock[q] : lock[q][i].frame <= frame[b]
      BY DEF IInv, CallInv
    <3>3. q = p => f <= frame[b]
      BY <3>2, Values DEF Reply
    <3>4. ASSUME NEW i \in DOMAIN lock'[q] PROVE lock'[q][i].frame <= frame[b]
      <4>1. \/ i \in DOMAIN lock[q] /\ lock'[q][i] = lock[q][i]
            \/ q = p /\ lock'[q][i] = [who |-> Handler, frame |-> f]
        BY <3>1, <1>6
      <4> QED BY <4>1, <3>2, <3>3
    <3>5. handler'[q] # "new"
      BY <3>1, <3>2, <1>7
    <3> QED BY <3>2, <3>4, <3>5
  <2> QED BY <1>1, <2>1 DEF IInv, CallInv
<1> QED BY <1>8, <1>10, <1>11, Values DEF IInv, InOrder

LEMMA AcceptKeeps ==
  ASSUME IInv, NEW p \in Peer, Accept(p) \/ Answer(p)
  PROVE  IInv' /\ InOrder
<1>1. CASE Accept(p)
  <2>1. PICK f \in Frames : f = version
    BY Values
  <2>2. /\ handler[p] = "new" /\ handler' = [handler EXCEPT ![p] = "sending"]
        /\ clients' = clients \union {p} /\ Queue({p}, Handler, f)
        /\ UNCHANGED <<version, got, callVars>>
    BY <1>1, <2>1 DEF Accept
  <2> QED BY <2>1, <2>2, HandlerJoins
<1>2. CASE Answer(p)
  <2>1. clients' = clients \union {p} /\ Reply \in Frames
    BY <1>2 DEF Answer, Frames
  <2>2. /\ handler[p] = "receiving" /\ handler' = [handler EXCEPT ![p] = "sending"]
        /\ Queue({p}, Handler, Reply) /\ UNCHANGED <<version, got, callVars>>
    BY <1>2 DEF Answer
  <2> QED BY <2>1, <2>2, HandlerJoins, Zenon
<1> QED BY <1>1, <1>2

-----------------------------------------------------------------------------
(* Callers.                                                                 *)

\* Whoever leaves the broadcast lock leaves the others in it as they were.
LEMMA LeavesLock ==
  ASSUME IInv, NEW n \in DOMAIN broadcastLock, NEW b \in Caller, broadcastLock[n] = b, NEW q,
         q = Without(broadcastLock, n) \/ (n = 1 /\ q = Tail(broadcastLock))
  PROVE  /\ q \in Seq(Caller)
         /\ \A i, j \in DOMAIN q : q[i] = q[j] => i = j
         /\ \A i \in DOMAIN q : q[i] # b /\ \E k \in DOMAIN broadcastLock : q[i] = broadcastLock[k]
         /\ \A c \in Caller \ {b} : \A k \in DOMAIN broadcastLock :
              broadcastLock[k] = c => \E i \in DOMAIN q : q[i] = c
         /\ \A c \in Caller \ {b} : broadcastLock # <<>> /\ Head(broadcastLock) = c
              => q # <<>> /\ Head(q) = c
<1> DEFINE l == broadcastLock
           at(k) == IF k < n THEN k ELSE k + 1
<1>1. l \in Seq(Caller) /\ \A i, j \in DOMAIN l : l[i] = l[j] => i = j
  BY DEF IInv, TypeOK, CallInv
<1>2. l # <<>> /\ DOMAIN l = 1 .. Len(l) /\ Len(l) \in Nat \ {0} /\ Head(l) = l[1]
  BY <1>1
<1>3. /\ q \in Seq(Caller) /\ DOMAIN q = 1 .. Len(l) - 1
      /\ \A k \in 1 .. Len(l) - 1 : q[k] = l[at(k)]
  <2>1. CASE q = Without(l, n)
    BY <1>1, <2>1, WithoutFacts
  <2>2. CASE n = 1 /\ q = Tail(l)
    <3>1. /\ Tail(l) \in Seq(Caller) /\ DOMAIN Tail(l) = 1 .. Len(l) - 1
          /\ \A k \in 1 .. Len(l) - 1 : Tail(l)[k] = l[k + 1]
      BY <1>1, <1>2, TailFacts
    <3>2. \A k \in 1 .. Len(l) - 1 : at(k) = k + 1
      BY <2>2, <1>2
    <3> QED BY <2>2, <3>1, <3>2
  <2> QED BY <2>1, <2>2
<1>4. \A k \in DOMAIN q : at(k) \in DOMAIN l /\ at(k) # n /\ q[k] = l[at(k)]
  BY <1>2, <1>3
<1>5. \A i, j \in DOMAIN q : at(i) = at(j) => i = j
  BY <1>2, <1>3
<1>6. \A k \in DOMAIN l : k # n => \E i \in DOMAIN q : at(i) = k
  <2>1. ASSUME NEW k \in DOMAIN l, k # n PROVE \E i \in DOMAIN q : at(i) = k
    <3>1. CASE k < n
      <4>1. k \in DOMAIN q /\ at(k) = k
        BY <1>2, <1>3, <3>1
      <4> QED BY <4>1
    <3>2. CASE ~(k < n)
      <4>1. k - 1 \in DOMAIN q /\ at(k - 1) = k
        BY <1>2, <1>3, <2>1, <3>2
      <4> QED BY <4>1
    <3> QED BY <3>1, <3>2
  <2> QED BY <2>1
<1>7. ASSUME NEW c \in Caller \ {b}, Head(l) = c PROVE q # <<>> /\ Head(q) = c
  <2>1. n # 1
    BY <1>2, <1>7
  <2>2. 1 \in DOMAIN q /\ at(1) = 1
    BY <1>2, <1>3, <2>1
  <2>3. q # <<>> /\ Head(q) = q[1]
    BY <1>3, <2>2
  <2> QED BY <1>2, <1>3, <1>7, <2>2, <2>3
<1> HIDE DEF at
<1>8. \A i, j \in DOMAIN q : q[i] = q[j] => i = j
  BY <1>1, <1>4, <1>5
<1>9. \A i \in DOMAIN q : q[i] # b /\ \E k \in DOMAIN l : q[i] = l[k]
  BY <1>1, <1>4
<1>10. \A c \in Caller \ {b} : \A k \in DOMAIN l : l[k] = c => \E i \in DOMAIN q : q[i] = c
  <2>1. ASSUME NEW c \in Caller \ {b}, NEW k \in DOMAIN l, l[k] = c
        PROVE  \E i \in DOMAIN q : q[i] = c
    <3>1. PICK i \in DOMAIN q : at(i) = k
      BY <1>6, <2>1
    <3> QED BY <1>4, <2>1, <3>1
  <2> QED BY <2>1
<1> QED BY <1>3, <1>7, <1>8, <1>9, <1>10

\* A step of callers alone: what a peer's queue says of them still holds.
LEMMA PeersStay ==
  ASSUME IInv, UNCHANGED <<version, peerVars>>,
         \A c \in Caller : \A p \in Peer : Wants(c, p)
           => fanout'[c] \in {"sending", "aborting"} /\ todo'[c] = {}
  PROVE  PeerInv' /\ InOrder
<1>1. /\ version' = version /\ clients' = clients /\ handler' = handler /\ lock' = lock
      /\ write' = write /\ left' = left /\ got' = got
  BY DEF peerVars
<1>2. \A p \in Peer : \A i \in DOMAIN lock[p] : \A b \in Caller : lock[p][i].who = b
        => fanout'[b] \in {"sending", "aborting"} /\ todo'[b] = {}
  BY DEF Wants
<1>3. PeerInv'
  BY <1>1, <1>2 DEF IInv, PeerInv
<1> QED BY <1>1, <1>3, Values DEF InOrder

\* Only a call that sends is in a peer's queue.
LEMMA Wanting ==
  ASSUME IInv, NEW c \in Caller, NEW p \in Peer, Wants(c, p)
  PROVE  fanout[c] \in {"sending", "aborting"} /\ todo[c] = {}
BY Members DEF Wants

LEMMA CallKeeps ==
  ASSUME IInv, NEW b \in Caller, Call(b)
  PROVE  IInv' /\ InOrder
<1>1. /\ fanout[b] = "idle" /\ fanout' = [fanout EXCEPT ![b] = "waiting"]
      /\ broadcastLock' = Append(broadcastLock, b)
      /\ asked' = [asked EXCEPT ![b] = [version |-> version, peers |-> clients]]
      /\ UNCHANGED <<version, peerVars, frame, todo, age>>
  BY DEF Call
<1>2. /\ broadcastLock \in Seq(Caller) /\ fanout \in [Caller -> {"idle", "waiting", "sending", "aborting"}]
  BY DEF IInv, TypeOK
<1>3. /\ broadcastLock' \in Seq(Caller) /\ broadcastLock' # <<>>
      /\ DOMAIN broadcastLock' = 1 .. Len(broadcastLock) + 1
      /\ DOMAIN broadcastLock = 1 .. Len(broadcastLock) /\ Len(broadcastLock) \in Nat
      /\ \A k \in DOMAIN broadcastLock : broadcastLock'[k] = broadcastLock[k]
      /\ broadcastLock'[Len(broadcastLock) + 1] = b
  BY <1>1, <1>2, AppendFacts
<1>4. /\ fanout'[b] = "waiting" /\ \A c \in Caller \ {b} : fanout'[c] = fanout[c]
      /\ fanout' \in [Caller -> {"idle", "waiting", "sending", "aborting"}]
  BY <1>1, <1>2
<1>5. TypeOK'
  <2>1. [version |-> version, peers |-> clients] \in [version : Frames, peers : SUBSET Peer]
    BY Values DEF IInv, TypeOK
  <2>2. asked' \in [Caller -> [version : Frames, peers : SUBSET Peer]]
    BY <1>1, <2>1 DEF IInv, TypeOK
  <2> QED BY <1>1, <1>3, <1>4, <2>2 DEF IInv, TypeOK, peerVars
<1>6. PeerInv' /\ InOrder
  <2>1. \A c \in Caller : \A p \in Peer : Wants(c, p)
           => fanout'[c] \in {"sending", "aborting"} /\ todo'[c] = {}
    BY <1>1, <1>4, Wanting
  <2> QED BY <1>1, <2>1, PeersStay
<1>7. CallInv'
  <2>1. \A k \in DOMAIN broadcastLock : broadcastLock[k] # b
    BY <1>1 DEF IInv, CallInv
  <2>2. \A k \in DOMAIN broadcastLock' : k \in DOMAIN broadcastLock \/ k = Len(broadcastLock) + 1
    BY <1>3
  <2>3. \A k \in DOMAIN broadcastLock : k \in DOMAIN broadcastLock' /\ broadcastLock[k] \in Caller
    BY <1>2, <1>3
  <2>4. \A i, j \in DOMAIN broadcastLock' : broadcastLock'[i] = broadcastLock'[j] => i = j
    BY <1>3, <2>1, <2>2 DEF IInv, CallInv
  <2>5. \A i \in DOMAIN broadcastLock' : fanout'[broadcastLock'[i]] # "idle"
    BY <1>3, <1>4, <2>1, <2>2, <2>3 DEF IInv, CallInv
  <2>6. ASSUME NEW c \in Caller, fanout'[c] # "idle"
        PROVE  \E i \in DOMAIN broadcastLock' : broadcastLock'[i] = c
    <3>1. CASE c = b
      <4>1. Len(broadcastLock) + 1 \in DOMAIN broadcastLock'
        BY <1>3
      <4> QED BY <1>3, <3>1, <4>1
    <3>2. CASE c # b
      <4>1. PICK k \in DOMAIN broadcastLock : broadcastLock[k] = c
        BY <1>4, <2>6, <3>2 DEF IInv, CallInv
      <4> QED BY <4>1, <1>3, <2>3
    <3> QED BY <3>1, <3>2
  <2>7. ASSUME NEW c \in Caller, fanout'[c] \in {"sending", "aborting"}
        PROVE  broadcastLock' # <<>> /\ Head(broadcastLock') = c
    <3>1. fanout[c] \in {"sending", "aborting"}
      BY <1>4, <2>7
    <3>2. broadcastLock # <<>> /\ Head(broadcastLock) = c
      BY <3>1 DEF IInv, CallInv
    <3> QED BY <1>1, <1>2, <3>2
  <2>8. \A c \in Caller : todo'[c] # {} => fanout'[c] = "sending"
    BY <1>1, <1>4 DEF IInv, CallInv
  <2>9. /\ \A c \in Caller : frame'[c] <= version'
        /\ \A c \in Caller : \A p \in todo'[c] :
             /\ handler'[p] # "new" /\ got'[p] <= frame'[c]
             /\ \A i \in DOMAIN lock'[p] : lock'[p][i].frame <= frame'[c]
    BY <1>1 DEF IInv, CallInv, peerVars
  <2> QED BY <2>4, <2>5, <2>6, <2>7, <2>8, <2>9 DEF CallInv
<1> QED BY <1>5, <1>6, <1>7 DEF IInv

\* A call gives up the broadcast lock, or its place in line for it, and is over.
LEMMA IdleKeeps ==
  ASSUME IInv, NEW b \in Caller, NEW n \in DOMAIN broadcastLock, broadcastLock[n] = b,
         \/ broadcastLock' = Without(broadcastLock, n)
         \/ n = 1 /\ broadcastLock' = Tail(broadcastLock),
         fanout' = [fanout EXCEPT ![b] = "idle"],
         \A p \in Peer : ~Wants(b, p), todo[b] = {},
         \/ frame' = frame
         \/ frame' = [frame EXCEPT ![b] = 0],
         \/ age' = age
         \/ age' = [age EXCEPT ![b] = 0],
         asked' = [asked EXCEPT ![b] = Nothing],
         UNCHANGED <<version, peerVars, todo>>
  PROVE  IInv' /\ InOrder
<1>1. PICK q : q = broadcastLock'
  OBVIOUS
<1>2. q = Without(broadcastLock, n) \/ (n = 1 /\ q = Tail(broadcastLock))
  BY <1>1
<1>3. /\ q \in Seq(Caller)
      /\ \A i, j \in DOMAIN q : q[i] = q[j] => i = j
      /\ \A i \in DOMAIN q : q[i] # b /\ \E k \in DOMAIN broadcastLock : q[i] = broadcastLock[k]
      /\ \A c \in Caller \ {b} : \A k \in DOMAIN broadcastLock :
           broadcastLock[k] = c => \E i \in DOMAIN q : q[i] = c
      /\ \A c \in Caller \ {b} : broadcastLock # <<>> /\ Head(broadcastLock) = c
           => q # <<>> /\ Head(q) = c
  BY <1>2, LeavesLock
<1>4. /\ fanout'[b] = "idle" /\ \A c \in Caller \ {b} : fanout'[c] = fanout[c]
      /\ fanout' \in [Caller -> {"idle", "waiting", "sending", "aborting"}]
  BY DEF IInv, TypeOK
<1>5. TypeOK'
  <2>1. Nothing \in [version : Frames, peers : SUBSET Peer]
    BY DEF Nothing, Frames, Reply
  <2>2. asked' \in [Caller -> [version : Frames, peers : SUBSET Peer]]
    BY <2>1 DEF IInv, TypeOK
  <2>3. frame' \in [Caller -> Frames]
    BY DEF IInv, TypeOK, Frames, Reply
  <2>4. age' \in [Caller -> Nat]
    <3>1. age \in [Caller -> Nat]
      BY DEF IInv, TypeOK
    <3> QED BY <3>1
  <2>5. broadcastLock' \in Seq(Caller)
    BY <1>1, <1>3
  <2> QED BY <1>4, <2>2, <2>3, <2>4, <2>5 DEF IInv, TypeOK, peerVars
<1>6. PeerInv' /\ InOrder
  <2>1. \A c \in Caller : \A p \in Peer : Wants(c, p)
           => fanout'[c] \in {"sending", "aborting"} /\ todo'[c] = {}
    BY <1>4, Wanting
  <2> QED BY <2>1, PeersStay
<1>7. CallInv'
  <2>1. ASSUME NEW i \in DOMAIN q PROVE fanout'[q[i]] # "idle"
    <3>1. PICK k \in DOMAIN broadcastLock : q[i] = broadcastLock[k]
      BY <1>3
    <3>2. q[i] \in Caller \ {b}
      BY <1>3
    <3> QED BY <1>4, <3>1, <3>2 DEF IInv, CallInv
  <2>2. ASSUME NEW c \in Caller, fanout'[c] # "idle" PROVE \E i \in DOMAIN q : q[i] = c
    <3>1. c # b /\ fanout[c] # "idle"
      BY <1>4, <2>2
    <3>2. PICK k \in DOMAIN broadcastLock : broadcastLock[k] = c
      BY <3>1 DEF IInv, CallInv
    <3> QED BY <1>3, <3>1, <3>2
  <2>3. ASSUME NEW c \in Caller, fanout'[c] \in {"sending", "aborting"}
        PROVE  q # <<>> /\ Head(q) = c
    <3>1. c # b /\ fanout[c] \in {"sending", "aborting"}
      BY <1>4, <2>3
    <3>2. broadcastLock # <<>> /\ Head(broadcastLock) = c
      BY <3>1 DEF IInv, CallInv
    <3> QED BY <1>3, <3>1, <3>2
  <2>4. ASSUME NEW c \in Caller
        PROVE  /\ frame'[c] <= version
               /\ todo[c] # {} => c # b /\ fanout'[c] = "sending" /\ frame'[c] = frame[c]
    <3>1. frame'[c] = frame[c] \/ (c = b /\ frame'[c] = 0)
      BY DEF IInv, TypeOK
    <3>2. frame[c] <= version /\ (todo[c] # {} => fanout[c] = "sending")
      BY DEF IInv, CallInv
    <3>3. version \in Nat
      BY Values
    <3> QED BY <1>4, <3>1, <3>2, <3>3
  <2>5. ASSUME NEW c \in Caller, NEW p \in todo[c]
        PROVE  /\ handler'[p] # "new" /\ got'[p] <= frame'[c]
               /\ \A i \in DOMAIN lock'[p] : lock'[p][i].frame <= frame'[c]
    <3>1. frame'[c] = frame[c]
      BY <2>4
    <3> QED BY <3>1 DEF IInv, CallInv, peerVars
  <2>6. /\ \A i, j \in DOMAIN broadcastLock' : broadcastLock'[i] = broadcastLock'[j] => i = j
        /\ \A i \in DOMAIN broadcastLock' : fanout'[broadcastLock'[i]] # "idle"
        /\ \A c \in Caller :
             /\ fanout'[c] # "idle" => \E i \in DOMAIN broadcastLock' : broadcastLock'[i] = c
             /\ fanout'[c] \in {"sending", "aborting"}
                  => broadcastLock' # <<>> /\ Head(broadcastLock') = c
    BY <1>1, <1>3, <2>1, <2>2, <2>3
  <2>7. todo' = todo /\ version' = version
    OBVIOUS
  <2> QED BY <2>4, <2>5, <2>6, <2>7 DEF CallInv
<1> QED BY <1>5, <1>6, <1>7 DEF IInv

\* The call whose turn it is holds the broadcast lock.
LEMMA Holding ==
  ASSUME IInv, NEW b \in Caller,
         \/ fanout[b] \in {"sending", "aborting"}
         \/ fanout[b] # "idle" /\ Head(broadcastLock) = b
  PROVE  /\ 1 \in DOMAIN broadcastLock /\ broadcastLock[1] = b
         /\ \A c \in Caller \ {b} : fanout[c] \notin {"sending", "aborting"} /\ todo[c] = {}
<1>1. broadcastLock # <<>> /\ Head(broadcastLock) = b
  BY DEF IInv, CallInv
<1>2. broadcastLock \in Seq(Caller)
  BY DEF IInv, TypeOK
<1>3. \A c \in Caller \ {b} : fanout[c] \notin {"sending", "aborting"}
  BY <1>1 DEF IInv, CallInv
<1> QED BY <1>1, <1>2, <1>3 DEF IInv, CallInv

LEMMA BeginKeeps ==
  ASSUME IInv, NEW b \in Caller, Begin(b)
  PROVE  IInv' /\ InOrder
<1>1. fanout[b] = "waiting" /\ Head(broadcastLock) = b /\ UNCHANGED <<version, peerVars, age>>
  BY DEF Begin
<1>2. /\ 1 \in DOMAIN broadcastLock /\ broadcastLock[1] = b
      /\ \A c \in Caller \ {b} : fanout[c] \notin {"sending", "aborting"} /\ todo[c] = {}
  BY <1>1, Holding
<1>3. todo[b] = {} /\ \A p \in Peer : ~Wants(b, p)
  BY <1>1, Wanting DEF IInv, CallInv
<1>4. CASE clients = {}
  <2>1. /\ fanout' = [fanout EXCEPT ![b] = "idle"] /\ broadcastLock' = Tail(broadcastLock)
        /\ asked' = [asked EXCEPT ![b] = Nothing] /\ UNCHANGED <<frame, todo>>
    BY <1>4 DEF Begin
  <2> QED BY <1>1, <1>2, <1>3, <2>1, IdleKeeps
<1>5. CASE clients # {}
  <2>1. /\ fanout' = [fanout EXCEPT ![b] = "sending"] /\ frame' = [frame EXCEPT ![b] = version]
        /\ todo' = [todo EXCEPT ![b] = clients] /\ UNCHANGED <<broadcastLock, asked>>
    BY <1>5 DEF Begin, Built
  <2>2. TypeOK'
    <3>1. /\ fanout' \in [Caller -> {"idle", "waiting", "sending", "aborting"}]
          /\ todo' \in [Caller -> SUBSET Peer]
      BY <2>1 DEF IInv, TypeOK
    <3>2. frame' \in [Caller -> Frames]
      BY <2>1, Values DEF IInv, TypeOK
    <3> QED BY <1>1, <2>1, <3>1, <3>2 DEF IInv, TypeOK, peerVars
  <2>3. PeerInv' /\ InOrder
    <3>1. \A c \in Caller : \A p \in Peer : Wants(c, p)
             => c # b /\ fanout[c] \in {"sending", "aborting"} /\ todo[c] = {}
      BY <1>3, Wanting
    <3>2. \A c \in Caller : \A p \in Peer : Wants(c, p)
             => fanout'[c] \in {"sending", "aborting"} /\ todo'[c] = {}
      BY <2>1, <3>1 DEF IInv, TypeOK
    <3> QED BY <1>1, <3>2, PeersStay
  <2>4. CallInv'
    <3>1. /\ fanout'[b] = "sending" /\ frame'[b] = version /\ todo'[b] = clients
          /\ \A c \in Caller \ {b} : fanout'[c] = fanout[c] /\ frame'[c] = frame[c] /\ todo'[c] = {}
      BY <1>2, <2>1 DEF IInv, TypeOK
    <3>2. \A i \in DOMAIN broadcastLock : broadcastLock[i] \in Caller
      BY DEF IInv, TypeOK
    <3>3. \A i \in DOMAIN broadcastLock' : fanout'[broadcastLock'[i]] # "idle"
      BY <2>1, <3>1, <3>2 DEF IInv, CallInv
    <3>4. \A c \in Caller :
            /\ fanout'[c] # "idle" => fanout[c] # "idle"
            /\ fanout'[c] \in {"sending", "aborting"} => c = b
      BY <1>1, <1>2, <3>1
    <3>5. broadcastLock # <<>>
      BY <1>2
    <3>6. \A c \in Caller :
            /\ fanout'[c] # "idle" => \E i \in DOMAIN broadcastLock' : broadcastLock'[i] = c
            /\ fanout'[c] \in {"sending", "aborting"}
                 => broadcastLock' # <<>> /\ Head(broadcastLock') = c
      BY <1>1, <2>1, <3>4, <3>5 DEF IInv, CallInv
    <3>7. \A c \in Caller : frame'[c] <= version' /\ (todo'[c] # {} => fanout'[c] = "sending")
      BY <1>1, <3>1, Values DEF IInv, CallInv
    <3>8. ASSUME NEW p \in clients
          PROVE  /\ handler'[p] # "new" /\ got'[p] <= version
                 /\ \A i \in DOMAIN lock'[p] : lock'[p][i].frame <= version
      <4>1. p \in Peer /\ handler' = handler /\ got' = got /\ lock' = lock
        BY <1>1 DEF IInv, TypeOK, peerVars
      <4>2. Ordered(lock[p], got[p], version) /\ got[p] <= version
        BY <4>1, Values
      <4> QED BY <4>1, <4>2 DEF Ordered, IInv, PeerInv
    <3>9. \A c \in Caller : \A p \in todo'[c] :
            /\ handler'[p] # "new" /\ got'[p] <= frame'[c]
            /\ \A i \in DOMAIN lock'[p] : lock'[p][i].frame <= frame'[c]
      BY <3>1, <3>8
    <3> QED BY <2>1, <3>3, <3>6, <3>7, <3>9 DEF IInv, CallInv
  <2> QED BY <2>2, <2>3, <2>4 DEF IInv
<1> QED BY <1>4, <1>5

LEMMA ReturnKeeps ==
  ASSUME IInv, NEW b \in Caller, Return(b)
  PROVE  IInv' /\ InOrder
<1>1. /\ fanout[b] \in {"sending", "aborting"} /\ AllSent(b)
      /\ fanout' = [fanout EXCEPT ![b] = "idle"] /\ broadcastLock' = Tail(broadcastLock)
      /\ frame' = [frame EXCEPT ![b] = 0] /\ age' = [age EXCEPT ![b] = 0]
      /\ asked' = [asked EXCEPT ![b] = Nothing] /\ UNCHANGED <<version, peerVars, todo>>
  BY DEF Return, Released
<1>2. 1 \in DOMAIN broadcastLock /\ broadcastLock[1] = b
  BY <1>1, Holding
<1>3. todo[b] = {} /\ \A p \in Peer : ~Wants(b, p)
  BY <1>1 DEF AllSent
<1> QED BY <1>1, <1>2, <1>3, IdleKeeps

\* A cancelled call gives up its place in line, or its sends.
LEMMA CancelKeeps ==
  ASSUME IInv, NEW b \in Caller, Cancel(b)
  PROVE  IInv' /\ InOrder
<1>1. CASE fanout[b] = "waiting"
  <2>1. PICK n \in DOMAIN broadcastLock :
          broadcastLock[n] = b /\ broadcastLock' = Without(broadcastLock, n)
    BY <1>1 DEF Cancel
  <2>2. /\ fanout' = [fanout EXCEPT ![b] = "idle"] /\ asked' = [asked EXCEPT ![b] = Nothing]
        /\ UNCHANGED <<version, peerVars, frame, todo, age>>
    BY <1>1 DEF Cancel
  <2>3. todo[b] = {} /\ \A p \in Peer : ~Wants(b, p)
    BY <1>1, Wanting DEF IInv, CallInv
  <2> QED BY <2>1, <2>2, <2>3, IdleKeeps
<1>2. CASE fanout[b] = "sending"
  <2>1. /\ fanout' = [fanout EXCEPT ![b] = "aborting"] /\ todo' = [todo EXCEPT ![b] = {}]
        /\ UNCHANGED <<version, peerVars, broadcastLock, frame, age, asked>>
    BY <1>2 DEF Cancel
  <2>2. /\ fanout' \in [Caller -> {"idle", "waiting", "sending", "aborting"}]
        /\ todo' \in [Caller -> SUBSET Peer]
        /\ fanout'[b] = "aborting" /\ todo'[b] = {}
        /\ \A c \in Caller \ {b} : fanout'[c] = fanout[c] /\ todo'[c] = todo[c]
    BY <2>1 DEF IInv, TypeOK
  <2>3. TypeOK'
    BY <2>1, <2>2 DEF IInv, TypeOK, peerVars
  <2>4. PeerInv' /\ InOrder
    <3>1. \A c \in Caller : \A p \in Peer : Wants(c, p)
             => fanout[c] \in {"sending", "aborting"} /\ todo[c] = {}
      BY Wanting
    <3>2. \A c \in Caller : \A p \in Peer : Wants(c, p)
             => fanout'[c] \in {"sending", "aborting"} /\ todo'[c] = {}
      BY <2>2, <3>1
    <3> QED BY <2>1, <3>2, PeersStay
  <2>5. CallInv'
    <3>1. \A c \in Caller : /\ fanout'[c] # "idle" <=> fanout[c] # "idle"
                            /\ fanout'[c] \in {"sending", "aborting"}
                                 => fanout[c] \in {"sending", "aborting"}
                            /\ todo'[c] # {} => c # b
      BY <1>2, <2>2
    <3>2. \A i \in DOMAIN broadcastLock : broadcastLock[i] \in Caller
      BY DEF IInv, TypeOK
    <3>3. \A i \in DOMAIN broadcastLock' : fanout'[broadcastLock'[i]] # "idle"
      BY <2>1, <3>1, <3>2 DEF IInv, CallInv
    <3>4. \A c \in Caller :
            /\ fanout'[c] # "idle" => \E i \in DOMAIN broadcastLock' : broadcastLock'[i] = c
            /\ fanout'[c] \in {"sending", "aborting"}
                 => broadcastLock' # <<>> /\ Head(broadcastLock') = c
            /\ todo'[c] # {} => fanout'[c] = "sending"
      BY <2>1, <2>2, <3>1 DEF IInv, CallInv
    <3>5. \A c \in Caller : \A p \in todo'[c] : p \in todo[c]
      BY <2>2
    <3>6. \A c \in Caller :
            /\ frame'[c] <= version'
            /\ \A p \in todo'[c] :
                 /\ handler'[p] # "new" /\ got'[p] <= frame'[c]
                 /\ \A i \in DOMAIN lock'[p] : lock'[p][i].frame <= frame'[c]
      BY <2>1, <3>5 DEF IInv, CallInv, peerVars
    <3> QED BY <2>1, <3>3, <3>4, <3>6 DEF IInv, CallInv
  <2> QED BY <2>3, <2>4, <2>5 DEF IInv
<1> QED BY <1>1, <1>2 DEF Cancel

\* The send tasks join the queues of the peers that are still clients.
LEMMA StartKeeps ==
  ASSUME IInv, NEW b \in Caller, Start(b)
  PROVE  IInv' /\ InOrder
<1>1. /\ fanout[b] = "sending" /\ todo[b] # {} /\ todo' = [todo EXCEPT ![b] = {}]
      /\ Queue(todo[b] \intersect clients, b, frame[b])
      /\ UNCHANGED <<version, clients, handler, got, broadcastLock, fanout, frame, age, asked>>
  BY DEF Start
<1>2. PICK ps : ps = todo[b] \intersect clients
  OBVIOUS
<1>3. PICK f : f = frame[b]
  OBVIOUS
<1>4. ps \in SUBSET Peer /\ f \in Frames /\ f <= version /\ b \in Writer
  BY <1>2, <1>3, Values DEF IInv, TypeOK, CallInv, Writer
<1>5. \A p \in ps : ~Wants(b, p)
  BY <1>1, <1>4, Wanting
<1>6. \A p \in ps : got[p] <= f /\ \A k \in DOMAIN lock[p] : lock[p][k].frame <= f
  BY <1>2, <1>3 DEF IInv, CallInv
<1>7. Queue(ps, b, f)
  BY <1>1, <1>2, <1>3
<1>8. Joined(ps, b, f)
  BY <1>4, <1>5, <1>6, <1>7, QueueKeeps
<1>9. /\ todo' \in [Caller -> SUBSET Peer] /\ todo'[b] = {}
      /\ \A c \in Caller \ {b} : todo'[c] = todo[c]
  BY <1>1 DEF IInv, TypeOK
<1>10. \A c \in Caller : todo'[c] = {}
  BY <1>1, <1>9, Holding
<1>11. TypeOK'
  <2>1. \A q \in Peer : \A i, j \in DOMAIN lock'[q] : lock'[q][i].who = lock'[q][j].who => i = j
    BY <1>8 DEF Joined, Ordered
  <2> QED BY <1>1, <1>8, <1>9, <2>1 DEF Joined, IInv, TypeOK
<1>12. PeerInv'
  <2>1. ASSUME NEW q \in Peer, NEW i \in DOMAIN lock'[q]
        PROVE  /\ lock'[q][i].who = Handler => handler[q] = "sending"
               /\ \A c \in Caller : lock'[q][i].who = c => fanout[c] \in {"sending", "aborting"}
    <3>1. \/ i \in DOMAIN lock[q] /\ lock'[q][i] = lock[q][i]
          \/ q \in ps /\ lock'[q][i] = [who |-> b, frame |-> f]
      BY <1>8 DEF Joined
    <3>2. CASE i \in DOMAIN lock[q] /\ lock'[q][i] = lock[q][i]
      <4>1. /\ lock[q][i].who = Handler => handler[q] = "sending"
            /\ \A c \in Caller : lock[q][i].who = c => fanout[c] \in {"sending", "aborting"}
        BY <3>2, Members
      <4> QED BY <3>2, <4>1
    <3>3. CASE lock'[q][i] = [who |-> b, frame |-> f]
      BY <1>1, <3>3, CallerAssumption
    <3> QED BY <3>1, <3>2, <3>3
  <2>2. ASSUME NEW q \in Peer, handler[q] = "new" PROVE q \notin clients /\ lock'[q] = <<>>
    <3>1. q \notin clients /\ lock[q] = <<>>
      BY <2>2 DEF IInv, PeerInv
    <3> QED BY <1>2, <1>8, <3>1 DEF Joined
  <2>3. \A q \in Peer : /\ Ordered(lock'[q], got[q], version) /\ got[q] <= version
                        /\ write'[q] # "none" => lock'[q] # <<>>
    BY <1>8, Values DEF Joined
  <2>4. version' = version /\ clients' = clients /\ handler' = handler /\ got' = got /\ fanout' = fanout
    BY <1>1
  <2> QED BY <1>10, <2>1, <2>2, <2>3, <2>4 DEF PeerInv
<1>13. CallInv'
  BY <1>1, <1>10 DEF IInv, CallInv
<1> QED BY <1>1, <1>11, <1>12, <1>13, Values DEF IInv, InOrder

LEMMA TickKeeps ==
  ASSUME IInv, Tick
  PROVE  IInv' /\ InOrder
<1>1. /\ left' = [p \in Peer |-> IF left[p] = 0 THEN 0 ELSE left[p] - 1]
      /\ age' = [b \in Caller |-> IF fanout[b] = "sending" THEN age[b] + 1 ELSE age[b]]
      /\ UNCHANGED <<version, clients, handler, lock, write, got, broadcastLock, fanout, frame, todo, asked>>
  BY DEF Tick
<1>2. left \in [Peer -> Nat] /\ age \in [Caller -> Nat]
  BY DEF IInv, TypeOK
<1>3. left' \in [Peer -> Nat] /\ age' \in [Caller -> Nat]
  BY <1>1, <1>2
<1>4. TypeOK'
  BY <1>1, <1>3 DEF IInv, TypeOK
<1>5. PeerInv' /\ CallInv'
  <2>1. PeerInv'
    BY <1>1 DEF IInv, PeerInv, Ordered
  <2>2. CallInv'
    BY <1>1 DEF IInv, CallInv
  <2> QED BY <2>1, <2>2
<1> QED BY <1>1, <1>4, <1>5, Values DEF IInv, InOrder

-----------------------------------------------------------------------------
(* The theorems.                                                            *)

LEMMA Initially == ASSUME Init PROVE IInv
<1>1. TypeOK
  BY VersionAssumption DEF Init, TypeOK, Versions, Frames, Reply, Nothing
<1>2. PeerInv
  <2>1. /\ \A p \in Peer : lock[p] = <<>> /\ write[p] = "none" /\ got[p] = 0 /\ p \notin clients
        /\ version = 1
    BY DEF Init
  <2>2. Ordered(<<>>, 0, 1)
    BY DEF Ordered
  <2>3. ASSUME NEW p \in Peer
        PROVE  /\ Ordered(lock[p], got[p], version) /\ got[p] <= version
               /\ \A i \in DOMAIN lock[p] : i \in {}
    <3>1. lock[p] = <<>> /\ got[p] = 0 /\ version = 1
      BY <2>1
    <3> QED BY <3>1, <2>2
  <2>4. \A p \in Peer : \A i \in DOMAIN lock[p] :
          /\ lock[p][i].who = Handler => handler[p] = "sending"
          /\ \A b \in Caller : lock[p][i].who = b
               => fanout[b] \in {"sending", "aborting"} /\ todo[b] = {}
    BY <2>3
  <2>5. \A p \in Peer : Ordered(lock[p], got[p], version) /\ got[p] <= version
    BY <2>3, Zenon
  <2> QED BY <2>1, <2>4, <2>5, Zenon DEF PeerInv
<1>3. CallInv
  BY DEF Init, CallInv
<1> QED BY <1>1, <1>2, <1>3 DEF IInv

LEMMA NextKeeps ==
  ASSUME IInv, [Next]_vars
  PROVE  IInv' /\ [InOrder]_vars
<1>1. CASE UNCHANGED vars
  <2>1. IInv'
    <3>1. TypeOK'
      BY <1>1 DEF vars, peerVars, callVars, IInv, TypeOK
    <3>2. PeerInv'
      BY <1>1 DEF vars, peerVars, callVars, IInv, PeerInv, Ordered
    <3>3. CallInv'
      BY <1>1 DEF vars, peerVars, callVars, IInv, CallInv
    <3> QED BY <3>1, <3>2, <3>3 DEF IInv
  <2> QED BY <1>1, <2>1
<1>2. CASE Change
  BY <1>2, ChangeKeeps
<1>3. CASE Tick
  BY <1>3, TickKeeps
<1>4. CASE \E p \in Peer : \/ Accept(p) \/ Answer(p) \/ Leave(p)
                           \/ Acquire(p) \/ Sent(p) \/ SendFails(p) \/ Closed(p)
  BY <1>4, AcceptKeeps, LeaveKeeps, AcquireKeeps, SentKeeps, SendFailsKeeps
<1>5. CASE \E b \in Caller : \/ Call(b) \/ Begin(b) \/ Start(b) \/ Return(b)
                             \/ \E p \in Peer : Abort(b, p)
  BY <1>5, CallKeeps, BeginKeeps, StartKeeps, ReturnKeeps, AbortKeeps
<1>6. CASE \E b \in SourceTask : Cancel(b)
  BY <1>6, CancelKeeps, TaskAssumption
<1> QED BY <1>1, <1>2, <1>3, <1>4, <1>5, <1>6 DEF Next

\* The strengthened invariant holds in every state: the queue of a peer's lock is ordered by
\* the age of what it carries, and the call whose turn it is has the newest frame.
THEOREM Invariance == Spec => []IInv
<1>1. Init => IInv
  BY Initially
<1>2. IInv /\ [Next]_vars => IInv'
  BY NextKeeps
<1> QED BY <1>1, <1>2, PTL DEF Spec

\* Every variable of the WebSocket sessions keeps its type, and no task wants a lock twice.
THEOREM TypeCorrect == Spec => []TypeOK
<1>1. IInv => TypeOK
  BY DEF IInv
<1> QED BY <1>1, Invariance, PTL

\* FramesInOrder of WsBroadcast: whatever initial frames, fan-outs and cancelled fan-outs
\* overlap, no send to a browser shows it an older state than an earlier one did.
THEOREM FramesGoForward == Spec => FramesInOrder
<1>1. IInv /\ [Next]_vars => [\A p \in Peer : got'[p] >= got[p]]_vars
  BY NextKeeps DEF InOrder
<1>2. Spec => [][\A p \in Peer : got'[p] >= got[p]]_vars
  BY <1>1, Invariance, PTL DEF Spec
<1> QED BY <1>2 DEF FramesInOrder

-----------------------------------------------------------------------------
(***************************************************************************)
(* BackpressureIsBounded and BroadcastReaches: how long a fan-out takes and *)
(* whom it reaches, for any timeouts.                                       *)
(***************************************************************************)
Bound == 2 * SendTimeout + CloseTimeout

\* The write at the head of the queue of p is a send, or will be.
Sends(p) == \/ write[p] = "send"
            \/ write[p] = "none" /\ p \in clients

\* What the write at the head of the queue of p may yet take,
Holds(p) == IF write[p] = "send" THEN left[p] + CloseTimeout
            ELSE IF write[p] = "close" THEN left[p]
            ELSE IF p \in clients THEN SendTimeout + CloseTimeout ELSE 0

\* and with it that of b, which is there or next.  After a close nothing is sent.
Rest(b, p) == Holds(p) + IF Head(lock[p]).who # b /\ Sends(p) THEN SendTimeout ELSE 0

\* Timers are set to what bounds the write, and who is being closed is forgotten.
WriteInv ==
  \A p \in Peer :
    /\ write[p] = "send" => left[p] <= SendTimeout
    /\ write[p] = "close" => left[p] <= CloseTimeout /\ p \notin clients

\* A fan-out has, for every peer it waits for, the time left that the peer may take.
AgeInv ==
  \A b \in Caller :
    /\ age[b] <= Bound
    /\ fanout[b] \in {"idle", "waiting"} => age[b] = 0
    /\ todo[b] # {} => age[b] = 0
    /\ fanout[b] = "sending" => \A p \in Peer : Wants(b, p) => age[b] + Rest(b, p) <= Bound

PaceInv == WriteInv /\ AgeInv

-----------------------------------------------------------------------------
(* Numbers and places.                                                      *)

LEMMA Numbers ==
  ASSUME IInv
  PROVE  /\ SendTimeout \in Nat \ {0} /\ CloseTimeout \in Nat \ {0} /\ Bound \in Nat
         /\ \A p \in Peer : left[p] \in Nat /\ write[p] \in {"none", "send", "close"}
         /\ \A b \in Caller : age[b] \in Nat
BY TimeAssumption DEF IInv, TypeOK, Bound

LEMMA RestIsNat ==
  ASSUME IInv, NEW b \in Caller, NEW p \in Peer
  PROVE  Rest(b, p) \in Nat
BY Numbers DEF Rest, Holds

\* While one call sends, nothing else is in a queue but the handler of its peer.
LEMMA Alone ==
  ASSUME IInv, NEW b \in Caller, fanout[b] = "sending", NEW p \in Peer, NEW k \in DOMAIN lock[p]
  PROVE  lock[p][k].who \in {Handler, b} /\ (todo[b] # {} => lock[p][k].who = Handler)
<1>1. lock[p][k] \in Request
  BY DEF IInv, TypeOK
<1>2. lock[p][k].who = Handler \/ lock[p][k].who \in Caller
  BY <1>1 DEF Request, Writer
<1>3. ASSUME NEW c \in Caller, lock[p][k].who = c
      PROVE  c = b /\ todo[b] = {}
  <2>1. fanout[c] \in {"sending", "aborting"} /\ todo[c] = {}
    BY <1>3, Members
  <2>2. \A d \in Caller \ {b} : fanout[d] \notin {"sending", "aborting"}
    BY Holding
  <2> QED BY <2>1, <2>2
<1>4. lock[p][k].who # Handler => lock[p][k].who = b /\ todo[b] = {}
  BY <1>2, <1>3
<1> QED BY <1>4

\* A call that is not at the head of a queue is right behind the handler.
LEMMA NextInLine ==
  ASSUME IInv, NEW b \in Caller, fanout[b] = "sending", NEW p \in Peer, Wants(b, p),
         Head(lock[p]).who # b
  PROVE  Tail(lock[p]) # <<>> /\ Head(Tail(lock[p])).who = b
<1> DEFINE q == lock[p]
<1>1. q \in Seq(Request) /\ \A i, j \in DOMAIN q : q[i].who = q[j].who => i = j
  BY DEF IInv, TypeOK
<1>2. PICK n \in DOMAIN q : q[n].who = b
  BY DEF Wants
<1>3. DOMAIN q = 1 .. Len(q) /\ Len(q) \in Nat
  BY <1>1
<1>4. q # <<>> /\ Head(q) = q[1] /\ 1 \in DOMAIN q /\ n # 1
  BY <1>1, <1>2, <1>3
<1>5. 2 \in DOMAIN q
  BY <1>2, <1>3, <1>4
<1>6. q[1].who \in {Handler, b} /\ q[2].who \in {Handler, b}
  BY <1>4, <1>5, Alone
<1>7. q[1].who # b
  BY <1>4
<1>8. q[1].who # q[2].who
  BY <1>1, <1>4, <1>5
<1>9. q[2].who = b
  BY <1>6, <1>7, <1>8
<1>10. /\ Tail(q) \in Seq(Request) /\ DOMAIN Tail(q) = 1 .. Len(q) - 1
       /\ \A k \in 1 .. Len(q) - 1 : Tail(q)[k] = q[k + 1]
  BY <1>1, <1>4, TailFacts
<1>11. 1 \in DOMAIN Tail(q) /\ Tail(q)[1] = q[2]
  BY <1>3, <1>5, <1>10
<1>12. Tail(q) # <<>> /\ Head(Tail(q)) = q[2]
  <2>1. ASSUME NEW t \in Seq(Request), 1 \in DOMAIN t PROVE t # <<>> /\ Head(t) = t[1]
    BY <2>1
  <2> QED BY <1>10, <1>11, <2>1
<1> QED BY <1>9, <1>12

LEMMA RestIsBounded ==
  ASSUME IInv, WriteInv, NEW b \in Caller, NEW p \in Peer
  PROVE  Rest(b, p) <= Bound
BY Numbers, TimeAssumption DEF Rest, Holds, Sends, WriteInv, Bound

LEMMA RestRange ==
  IInv /\ WriteInv => \A b \in Caller, p \in Peer : Rest(b, p) \in Nat /\ Rest(b, p) <= Bound
BY RestIsNat, RestIsBounded

-----------------------------------------------------------------------------
(* What a step has to show.                                                 *)

\* The time of a call starts, or goes on with what it waited for taking no longer.
LEMMA PaceKeeps ==
  ASSUME IInv, IInv', PaceInv, WriteInv',
         \A b \in Caller :
           \/ age'[b] = 0
           \/ /\ age'[b] = age[b] /\ fanout'[b] \notin {"idle", "waiting"} /\ todo'[b] = {}
              /\ fanout'[b] = "sending" => \A p \in Peer : Wants(b, p)'
                   => fanout[b] = "sending" /\ Wants(b, p) /\ Rest(b, p)' <= Rest(b, p)
  PROVE  PaceInv'
<1>1. (\A b \in Caller, p \in Peer : Rest(b, p) \in Nat /\ Rest(b, p) <= Bound)'
  BY RestRange, PTL
<1>2. ASSUME NEW b \in Caller
      PROVE  /\ age'[b] <= Bound
             /\ fanout'[b] \in {"idle", "waiting"} => age'[b] = 0
             /\ todo'[b] # {} => age'[b] = 0
             /\ fanout'[b] = "sending" => \A p \in Peer : Wants(b, p)' => age'[b] + Rest(b, p)' <= Bound
  <2>1. /\ Bound \in Nat /\ age[b] \in Nat /\ age[b] <= Bound
        /\ \A p \in Peer : Rest(b, p) \in Nat
    BY Numbers, RestIsNat DEF PaceInv, AgeInv
  <2>2. \A p \in Peer : Rest(b, p)' \in Nat /\ Rest(b, p)' <= Bound
    BY <1>1
  <2>3. CASE age'[b] = 0
    BY <2>1, <2>2, <2>3
  <2>4. CASE /\ age'[b] = age[b] /\ fanout'[b] \notin {"idle", "waiting"} /\ todo'[b] = {}
             /\ fanout'[b] = "sending" => \A p \in Peer : Wants(b, p)'
                  => fanout[b] = "sending" /\ Wants(b, p) /\ Rest(b, p)' <= Rest(b, p)
    <3>1. ASSUME fanout'[b] = "sending", NEW p \in Peer, Wants(b, p)'
          PROVE  age'[b] + Rest(b, p)' <= Bound
      <4>1. fanout[b] = "sending" /\ Wants(b, p) /\ Rest(b, p)' <= Rest(b, p)
        BY <2>4, <3>1
      <4>2. age[b] + Rest(b, p) <= Bound
        BY <4>1 DEF PaceInv, AgeInv
      <4>3. age'[b] = age[b] /\ Rest(b, p) \in Nat /\ Rest(b, p)' \in Nat
        BY <2>1, <2>2, <2>4
      <4> QED BY <2>1, <4>1, <4>2, <4>3
    <3> QED BY <2>1, <2>4, <3>1
  <2> QED BY <2>3, <2>4
<1> QED BY <1>2 DEF PaceInv, AgeInv

\* A peer nothing was done to.
LEMMA SamePeer ==
  ASSUME NEW b \in Caller, NEW p \in Peer, lock'[p] = lock[p], write'[p] = write[p], left'[p] = left[p],
         p \in clients' <=> p \in clients
  PROVE  (Wants(b, p)' <=> Wants(b, p)) /\ Rest(b, p)' = Rest(b, p)
BY DEF Wants, Rest, Holds, Sends

\* A step of the peers.
LEMMA PeersPace ==
  ASSUME IInv, IInv', PaceInv, WriteInv', UNCHANGED callVars,
         \A b \in Caller : \A p \in Peer : fanout[b] = "sending" /\ Wants(b, p)'
           => Wants(b, p) /\ Rest(b, p)' <= Rest(b, p)
  PROVE  PaceInv'
<1>1. fanout' = fanout /\ todo' = todo /\ age' = age
  BY DEF callVars
<1>2. ASSUME NEW b \in Caller
      PROVE  \/ age'[b] = 0
             \/ /\ age'[b] = age[b] /\ fanout'[b] \notin {"idle", "waiting"} /\ todo'[b] = {}
                /\ fanout'[b] = "sending" => \A p \in Peer : Wants(b, p)'
                     => fanout[b] = "sending" /\ Wants(b, p) /\ Rest(b, p)' <= Rest(b, p)
  <2>1. fanout[b] \in {"idle", "waiting"} \/ todo[b] # {} => age[b] = 0
    BY DEF PaceInv, AgeInv
  <2> QED BY <1>1, <2>1
<1> QED BY <1>2, PaceKeeps

\* A step of the callers.
LEMMA CallersPace ==
  ASSUME IInv, IInv', PaceInv, UNCHANGED peerVars,
         \A b \in Caller :
           \/ age'[b] = 0
           \/ /\ age'[b] = age[b] /\ fanout'[b] \notin {"idle", "waiting"} /\ todo'[b] = {}
              /\ fanout'[b] = "sending" => fanout[b] = "sending"
  PROVE  PaceInv'
<1>1. clients' = clients /\ lock' = lock /\ write' = write /\ left' = left
  BY DEF peerVars
<1>2. WriteInv'
  BY <1>1 DEF PaceInv, WriteInv
<1>3. ASSUME NEW b \in Caller, NEW p \in Peer
      PROVE  Rest(b, p)' <= Rest(b, p) /\ (Wants(b, p)' => Wants(b, p))
  BY <1>1, SamePeer, RestIsNat
<1> QED BY <1>2, <1>3, PaceKeeps

\* The head of the queue of p leaves; b is next, or was never in it.
LEMMA HeadLeaves ==
  ASSUME IInv, NEW p \in Peer, lock[p] # <<>>, lock'[p] = Tail(lock[p]), write'[p] = "none",
         p \in clients' => Sends(p),
         NEW b \in Caller, fanout[b] = "sending", Wants(b, p)'
  PROVE  Wants(b, p) /\ Rest(b, p)' <= Rest(b, p)
<1>1. lock[p] \in Seq(Request) /\ \A i, j \in DOMAIN lock[p] : lock[p][i].who = lock[p][j].who => i = j
  BY DEF IInv, TypeOK
<1>2. /\ DOMAIN Tail(lock[p]) = 1 .. Len(lock[p]) - 1
      /\ DOMAIN lock[p] = 1 .. Len(lock[p]) /\ Len(lock[p]) \in Nat \ {0}
      /\ Head(lock[p]) = lock[p][1]
      /\ \A k \in 1 .. Len(lock[p]) - 1 : Tail(lock[p])[k] = lock[p][k + 1]
  BY <1>1, TailFacts
<1>3. PICK k \in DOMAIN Tail(lock[p]) : Tail(lock[p])[k].who = b
  BY DEF Wants
<1>4. 1 \in DOMAIN lock[p] /\ k + 1 \in DOMAIN lock[p] /\ k + 1 # 1 /\ lock[p][k + 1].who = b
  BY <1>2, <1>3
<1>5. Wants(b, p) /\ Head(lock[p]).who # b
  BY <1>1, <1>2, <1>4 DEF Wants
<1>6. Head(lock'[p]).who = b
  BY <1>5, NextInLine
<1>7. Rest(b, p)' = IF p \in clients' THEN SendTimeout + CloseTimeout ELSE 0
  BY <1>6, Numbers DEF Rest, Holds
<1>8. p \in clients' => Rest(b, p) >= SendTimeout + CloseTimeout
  <2>1. p \in clients' => Rest(b, p) = Holds(p) + SendTimeout
    BY <1>5 DEF Rest
  <2>2. p \in clients' => Holds(p) = left[p] + CloseTimeout \/ Holds(p) = SendTimeout + CloseTimeout
    BY DEF Holds, Sends
  <2>3. left[p] \in Nat /\ SendTimeout \in Nat /\ CloseTimeout \in Nat
    BY Numbers
  <2> QED BY <2>1, <2>2, <2>3
<1>9. Rest(b, p) >= 0
  BY RestIsNat
<1> QED BY <1>5, <1>7, <1>8, <1>9, Numbers

-----------------------------------------------------------------------------
(* Steps of peers.                                                          *)

LEMMA LeavePace ==
  ASSUME IInv, IInv', PaceInv, NEW p \in Peer, Leave(p)
  PROVE  PaceInv'
<1>1. /\ clients' = clients \ {p} /\ lock' = lock /\ write' = write /\ left' = left
      /\ UNCHANGED callVars
  BY DEF Leave
<1>2. WriteInv'
  BY <1>1 DEF PaceInv, WriteInv
<1>3. ASSUME NEW b \in Caller, NEW q \in Peer
      PROVE  Rest(b, q)' <= Rest(b, q) /\ (Wants(b, q)' => Wants(b, q))
  BY <1>1, Numbers DEF Rest, Holds, Sends, Wants
<1> QED BY <1>1, <1>2, <1>3, PeersPace

LEMMA AcquirePace ==
  ASSUME IInv, IInv', PaceInv, NEW p \in Peer, Acquire(p)
  PROVE  PaceInv'
<1>1. lock[p] # <<>> /\ write[p] = "none" /\ clients' = clients /\ UNCHANGED callVars
  BY DEF Acquire
<1>2. /\ lock \in [Peer -> Seq(Request)] /\ write \in [Peer -> {"none", "send", "close"}]
      /\ left \in [Peer -> Nat]
  BY DEF IInv, TypeOK
<1>3. CASE p \in clients
  <2>1. /\ lock' = lock /\ write' = [write EXCEPT ![p] = "send"]
        /\ left' = [left EXCEPT ![p] = SendTimeout]
    BY <1>3 DEF Acquire
  <2>2. WriteInv'
    BY <1>1, <1>2, <2>1, Numbers DEF PaceInv, WriteInv
  <2>3. ASSUME NEW b \in Caller, NEW q \in Peer
        PROVE  Rest(b, q)' <= Rest(b, q) /\ (Wants(b, q)' => Wants(b, q))
    BY <1>1, <1>2, <1>3, <2>1, Numbers DEF Rest, Holds, Sends, Wants
  <2> QED BY <1>1, <2>2, <2>3, PeersPace
<1>4. CASE p \notin clients
  <2>1. /\ lock' = [lock EXCEPT ![p] = Tail(@)] /\ write' = [write EXCEPT ![p] = "none"]
        /\ left' = [left EXCEPT ![p] = 0]
    BY <1>4 DEF Acquire, Release
  <2>2. WriteInv'
    BY <1>1, <1>2, <2>1 DEF PaceInv, WriteInv
  <2>3. ASSUME NEW b \in Caller, NEW q \in Peer, fanout[b] = "sending", Wants(b, q)'
        PROVE  Wants(b, q) /\ Rest(b, q)' <= Rest(b, q)
    <3>1. CASE q = p
      BY <1>1, <1>2, <1>4, <2>1, <2>3, <3>1, HeadLeaves
    <3>2. CASE q # p
      BY <1>1, <1>2, <2>1, <2>3, <3>2, SamePeer, RestIsNat
    <3> QED BY <3>1, <3>2
  <2> QED BY <1>1, <2>2, <2>3, PeersPace
<1> QED BY <1>3, <1>4

LEMMA SentPace ==
  ASSUME IInv, IInv', PaceInv, NEW p \in Peer, Sent(p) \/ Closed(p)
  PROVE  PaceInv'
<1>1. write[p] \in {"send", "close"} /\ clients' = clients /\ UNCHANGED callVars
  BY DEF Sent, Closed
<1>2. /\ lock' = [lock EXCEPT ![p] = Tail(@)] /\ write' = [write EXCEPT ![p] = "none"]
      /\ left' = [left EXCEPT ![p] = 0]
  BY DEF Sent, Closed, Release
<1>3. /\ lock \in [Peer -> Seq(Request)] /\ write \in [Peer -> {"none", "send", "close"}]
      /\ left \in [Peer -> Nat]
  BY DEF IInv, TypeOK
<1>4. lock[p] # <<>>
  BY <1>1 DEF IInv, PeerInv
<1>5. p \in clients' => Sends(p)
  BY <1>1 DEF PaceInv, WriteInv, Sends
<1>6. WriteInv'
  BY <1>1, <1>2, <1>3 DEF PaceInv, WriteInv
<1>7. ASSUME NEW b \in Caller, NEW q \in Peer, fanout[b] = "sending", Wants(b, q)'
      PROVE  Wants(b, q) /\ Rest(b, q)' <= Rest(b, q)
  <2>1. CASE q = p
    BY <1>2, <1>3, <1>4, <1>5, <1>7, <2>1, HeadLeaves
  <2>2. CASE q # p
    BY <1>1, <1>2, <1>3, <1>7, <2>2, SamePeer, RestIsNat
  <2> QED BY <2>1, <2>2
<1> QED BY <1>1, <1>6, <1>7, PeersPace

LEMMA SendFailsPace ==
  ASSUME IInv, IInv', PaceInv, NEW p \in Peer, SendFails(p)
  PROVE  PaceInv'
<1>1. /\ write[p] = "send" /\ write' = [write EXCEPT ![p] = "close"]
      /\ left' = [left EXCEPT ![p] = CloseTimeout]
      /\ clients' = clients \ {p} /\ lock' = lock /\ UNCHANGED callVars
  BY DEF SendFails, ClosingTime, Forgotten
<1>2. write \in [Peer -> {"none", "send", "close"}] /\ left \in [Peer -> Nat]
  BY DEF IInv, TypeOK
<1>3. WriteInv'
  BY <1>1, <1>2, Numbers DEF PaceInv, WriteInv
<1>4. ASSUME NEW b \in Caller, NEW q \in Peer
      PROVE  Rest(b, q)' <= Rest(b, q) /\ (Wants(b, q)' => Wants(b, q))
  BY <1>1, <1>2, Numbers DEF Rest, Holds, Sends, Wants
<1> QED BY <1>1, <1>3, <1>4, PeersPace

\* A handler joins behind whoever is there.
LEMMA JoinPace ==
  ASSUME IInv, IInv', PaceInv, NEW p \in Peer, Accept(p) \/ Answer(p)
  PROVE  PaceInv'
<1>1. PICK f : Queue({p}, Handler, f)
  BY DEF Accept, Answer
<1>2. UNCHANGED callVars /\ \A q \in Peer \ {p} : q \in clients' <=> q \in clients
  BY DEF Accept, Answer
<1>3. /\ lock' = [q \in Peer |-> IF q = p THEN Append(lock[q], [who |-> Handler, frame |-> f]) ELSE lock[q]]
      /\ write' = [q \in Peer |-> IF q = p /\ lock[q] = <<>> THEN "send" ELSE write[q]]
      /\ left'  = [q \in Peer |-> IF q = p /\ lock[q] = <<>> THEN SendTimeout ELSE left[q]]
  BY <1>1 DEF Queue
<1>4. lock[p] = <<>> \/ (p \in clients /\ clients' = clients)
  BY DEF Accept, Answer, IInv, PeerInv
<1>5. lock[p] \in Seq(Request)
  BY DEF IInv, TypeOK
<1>6. lock[p] = <<>> => write[p] = "none"
  BY DEF IInv, PeerInv
<1>7. WriteInv'
  BY <1>2, <1>3, <1>4, <1>6, Numbers DEF PaceInv, WriteInv
<1>8. ASSUME NEW b \in Caller, NEW q \in Peer, fanout[b] = "sending", Wants(b, q)'
      PROVE  Wants(b, q) /\ Rest(b, q)' <= Rest(b, q)
  <2>1. CASE q = p
    <3> DEFINE r == [who |-> Handler, frame |-> f]
    <3>1. lock'[p] = Append(lock[p], r) /\ r.who = Handler
      BY <1>3
    <3> HIDE DEF r
    <3>2. /\ DOMAIN lock'[p] = 1 .. Len(lock[p]) + 1 /\ DOMAIN lock[p] = 1 .. Len(lock[p])
          /\ Len(lock[p]) \in Nat
          /\ \A k \in DOMAIN lock[p] : lock'[p][k] = lock[p][k]
          /\ lock'[p][Len(lock[p]) + 1] = r
      BY <1>5, <3>1
    <3>3. PICK k \in DOMAIN lock'[p] : lock'[p][k].who = b
      BY <1>8, <2>1 DEF Wants
    <3>4. k \in DOMAIN lock[p] /\ lock[p][k].who = b
      BY <3>1, <3>2, <3>3, CallerAssumption
    <3>5. Wants(b, p) /\ 1 \in DOMAIN lock[p] /\ lock[p] # <<>>
      BY <1>5, <3>2, <3>4 DEF Wants
    <3>6. Head(lock'[p]) = Head(lock[p])
      BY <1>5, <3>1, <3>2, <3>5
    <3>7. write'[p] = write[p] /\ left'[p] = left[p] /\ clients' = clients
      BY <1>3, <1>4, <3>5
    <3>8. Rest(b, p)' = Rest(b, p)
      BY <3>6, <3>7 DEF Rest, Holds, Sends
    <3> QED BY <2>1, <3>5, <3>8, RestIsNat
  <2>2. CASE q # p
    BY <1>2, <1>3, <1>8, <2>2, SamePeer, RestIsNat
  <2> QED BY <2>1, <2>2
<1> QED BY <1>2, <1>7, <1>8, PeersPace

-----------------------------------------------------------------------------
(* Steps of callers, and of time.                                           *)

LEMMA CallPace ==
  ASSUME IInv, IInv', PaceInv, NEW b \in Caller, Call(b) \/ Begin(b) \/ Return(b)
  PROVE  PaceInv'
<1>1. UNCHANGED peerVars
  BY DEF Call, Begin, Return
<1>2. /\ age \in [Caller -> Nat] /\ fanout \in [Caller -> {"idle", "waiting", "sending", "aborting"}]
      /\ todo \in [Caller -> SUBSET Peer]
  BY DEF IInv, TypeOK
<1>3. age'[b] = 0
  <2>1. Call(b) \/ Begin(b) => age' = age /\ age[b] = 0
    BY DEF Call, Begin, PaceInv, AgeInv
  <2>2. Return(b) => age' = [age EXCEPT ![b] = 0]
    BY DEF Return
  <2> QED BY <1>2, <2>1, <2>2
<1>4. ASSUME NEW c \in Caller \ {b}
      PROVE  age'[c] = age[c] /\ fanout'[c] = fanout[c] /\ todo'[c] = todo[c]
  <2>1. CASE Call(b)
    BY <1>2, <2>1 DEF Call
  <2>2. CASE Begin(b)
    BY <1>2, <2>2 DEF Begin
  <2>3. CASE Return(b)
    BY <1>2, <2>3 DEF Return
  <2> QED BY <2>1, <2>2, <2>3
<1>5. \A c \in Caller : age[c] = 0 \/ (fanout[c] \notin {"idle", "waiting"} /\ todo[c] = {})
  BY DEF PaceInv, AgeInv
<1> QED BY <1>1, <1>3, <1>4, <1>5, CallersPace

LEMMA CancelPace ==
  ASSUME IInv, IInv', PaceInv, NEW b \in Caller, Cancel(b)
  PROVE  PaceInv'
<1>1. UNCHANGED peerVars /\ age' = age
  BY DEF Cancel
<1>2. /\ fanout \in [Caller -> {"idle", "waiting", "sending", "aborting"}]
      /\ todo \in [Caller -> SUBSET Peer]
  BY DEF IInv, TypeOK
<1>3. \A c \in Caller : age[c] = 0 \/ (fanout[c] \notin {"idle", "waiting"} /\ todo[c] = {})
  BY DEF PaceInv, AgeInv
<1>4. age[b] = 0 \/ (fanout'[b] = "aborting" /\ todo'[b] = {})
  <2>1. CASE fanout[b] = "waiting"
    BY <1>3, <2>1
  <2>2. CASE fanout[b] = "sending"
    BY <1>2, <2>2 DEF Cancel
  <2> QED BY <2>1, <2>2 DEF Cancel
<1>5. \A c \in Caller \ {b} : fanout'[c] = fanout[c] /\ todo'[c] = todo[c]
  <2>1. \/ fanout' = [fanout EXCEPT ![b] = "idle"] /\ todo' = todo
        \/ fanout' = [fanout EXCEPT ![b] = "aborting"] /\ todo' = [todo EXCEPT ![b] = {}]
    BY DEF Cancel
  <2> QED BY <1>2, <2>1
<1> QED BY <1>1, <1>3, <1>4, <1>5, CallersPace

\* What a fan-out joins holds it up for a reply and its own frame at most.
LEMMA StartPace ==
  ASSUME IInv, IInv', PaceInv, NEW b \in Caller, Start(b)
  PROVE  PaceInv'
<1>1. /\ fanout[b] = "sending" /\ todo[b] # {} /\ fanout' = fanout /\ age' = age
      /\ clients' = clients /\ todo' = [todo EXCEPT ![b] = {}]
      /\ Queue(todo[b] \intersect clients, b, frame[b])
  BY DEF Start
<1>2. /\ write' = [p \in Peer |-> IF p \in todo[b] \intersect clients /\ lock[p] = <<>>
                                 THEN "send" ELSE write[p]]
      /\ left'  = [p \in Peer |-> IF p \in todo[b] \intersect clients /\ lock[p] = <<>>
                                 THEN SendTimeout ELSE left[p]]
  BY <1>1 DEF Queue
<1>3. \A p \in Peer : lock[p] = <<>> => write[p] = "none"
  BY DEF IInv, PeerInv
<1>4. WriteInv'
  BY <1>1, <1>2, <1>3, Numbers DEF PaceInv, WriteInv
<1>5. age[b] = 0
  BY <1>1 DEF PaceInv, AgeInv
<1>6. ASSUME NEW c \in Caller
      PROVE  age[c] = 0 \/ (fanout'[c] = "aborting" /\ todo'[c] = {})
  <2>1. c # b => fanout[c] \in {"idle", "waiting"}
    BY <1>1, Holding DEF IInv, TypeOK
  <2> QED BY <1>5, <2>1 DEF PaceInv, AgeInv
<1> QED BY <1>1, <1>4, <1>6, PaceKeeps

\* While a call aborts, none sends.
LEMMA AbortPace ==
  ASSUME IInv, IInv', PaceInv, NEW b \in Caller, NEW p \in Peer, Abort(b, p)
  PROVE  PaceInv'
<1>1. fanout[b] = "aborting" /\ clients' = clients /\ UNCHANGED callVars
  BY DEF Abort
<1>2. \A c \in Caller : fanout[c] # "sending"
  BY <1>1, Holding
<1>3. \/ write' = [write EXCEPT ![p] = "none"] /\ left' = [left EXCEPT ![p] = 0]
      \/ write' = write /\ left' = left
  BY DEF Abort, Release
<1>4. write \in [Peer -> {"none", "send", "close"}] /\ left \in [Peer -> Nat]
  BY DEF IInv, TypeOK
<1>5. WriteInv'
  BY <1>1, <1>3, <1>4 DEF PaceInv, WriteInv
<1> QED BY <1>1, <1>2, <1>5, PeersPace

\* Time passes only for whom every peer it waits for is at a write that goes on.
LEMMA TickPace ==
  ASSUME IInv, IInv', PaceInv, Tick
  PROVE  PaceInv'
<1>1. /\ ~Ready /\ left' = [p \in Peer |-> IF left[p] = 0 THEN 0 ELSE left[p] - 1]
      /\ age' = [b \in Caller |-> IF fanout[b] = "sending" THEN age[b] + 1 ELSE age[b]]
      /\ UNCHANGED <<clients, lock, write, fanout, todo>>
  BY DEF Tick
<1>2. WriteInv'
  BY <1>1, Numbers DEF PaceInv, WriteInv
<1>3. ASSUME NEW b \in Caller, fanout[b] = "sending", NEW p \in Peer, Wants(b, p)
      PROVE  Rest(b, p)' \in Nat /\ Rest(b, p) = Rest(b, p)' + 1
  <2>1. lock[p] # <<>>
    BY <1>3 DEF Wants, IInv, TypeOK
  <2>2. write[p] \in {"send", "close"} /\ left[p] # 0
    BY <1>1, <2>1, Numbers DEF Ready
  <2>3. left'[p] = left[p] - 1 /\ left[p] \in Nat \ {0} /\ write'[p] = write[p] /\ lock'[p] = lock[p]
    BY <1>1, <2>2, Numbers
  <2> QED BY <2>2, <2>3, Numbers DEF Rest, Holds, Sends
<1>4. ASSUME NEW b \in Caller
      PROVE  /\ age'[b] <= Bound
             /\ fanout'[b] \in {"idle", "waiting"} => age'[b] = 0
             /\ todo'[b] # {} => age'[b] = 0
             /\ fanout'[b] = "sending" => \A p \in Peer : Wants(b, p)' => age'[b] + Rest(b, p)' <= Bound
  <2>1. /\ age[b] <= Bound /\ age[b] \in Nat /\ Bound \in Nat
        /\ fanout[b] \in {"idle", "waiting"} \/ todo[b] # {} => age[b] = 0
    BY Numbers DEF PaceInv, AgeInv
  <2>2. CASE fanout[b] # "sending"
    <3>1. age'[b] = age[b] /\ fanout'[b] = fanout[b] /\ todo'[b] = todo[b]
      BY <1>1, <2>2
    <3> QED BY <2>1, <2>2, <3>1
  <2>3. CASE fanout[b] = "sending"
    <3>1. age'[b] = age[b] + 1 /\ fanout'[b] = "sending" /\ todo'[b] = todo[b]
      BY <1>1, <2>3
    <3>2. todo[b] = {} /\ ~AllSent(b)
      BY <1>1, <2>3 DEF Ready
    <3>3. PICK q \in Peer : Wants(b, q)
      BY <3>2 DEF AllSent
    <3>4. ASSUME NEW p \in Peer, Wants(b, p) PROVE age'[b] + Rest(b, p)' <= Bound
      <4>1. age[b] + Rest(b, p) <= Bound
        BY <2>3, <3>4 DEF PaceInv, AgeInv
      <4>2. Rest(b, p)' \in Nat /\ Rest(b, p) = Rest(b, p)' + 1
        BY <1>3, <2>3, <3>4
      <4> QED BY <2>1, <3>1, <4>1, <4>2
    <3>5. age'[b] <= Bound
      <4>1. age'[b] + Rest(b, q)' <= Bound
        BY <3>3, <3>4
      <4>2. Rest(b, q)' \in Nat
        BY <1>3, <2>3, <3>3
      <4> QED BY <2>1, <3>1, <4>1, <4>2
    <3>6. \A p \in Peer : Wants(b, p)' => Wants(b, p)
      BY <1>1 DEF Wants
    <3> QED BY <3>1, <3>2, <3>4, <3>5, <3>6
  <2> QED BY <2>2, <2>3
<1> QED BY <1>2, <1>4 DEF PaceInv, AgeInv

-----------------------------------------------------------------------------
(* How long a fan-out takes.                                                *)

LEMMA PaceInitially == ASSUME Init PROVE PaceInv
BY TimeAssumption DEF Init, PaceInv, WriteInv, AgeInv, Bound

LEMMA NextPace ==
  ASSUME IInv, IInv', PaceInv, [Next]_vars
  PROVE  PaceInv'
<1>1. CASE UNCHANGED vars \/ Change
  <2>1. UNCHANGED <<peerVars, callVars>>
    BY <1>1 DEF vars, Change
  <2>2. WriteInv'
    BY <2>1 DEF peerVars, PaceInv, WriteInv
  <2>3. ASSUME NEW b \in Caller, NEW p \in Peer
        PROVE  Rest(b, p)' <= Rest(b, p) /\ (Wants(b, p)' => Wants(b, p))
    BY <2>1, SamePeer, RestIsNat DEF peerVars
  <2> QED BY <2>1, <2>2, <2>3, PeersPace
<1>2. CASE Tick
  BY <1>2, TickPace
<1>3. CASE \E p \in Peer : \/ Accept(p) \/ Answer(p) \/ Leave(p)
                           \/ Acquire(p) \/ Sent(p) \/ SendFails(p) \/ Closed(p)
  BY <1>3, JoinPace, LeavePace, AcquirePace, SentPace, SendFailsPace
<1>4. CASE \E b \in Caller : \/ Call(b) \/ Begin(b) \/ Start(b) \/ Return(b)
                             \/ \E p \in Peer : Abort(b, p)
  BY <1>4, CallPace, StartPace, AbortPace
<1>5. CASE \E b \in SourceTask : Cancel(b)
  BY <1>5, CancelPace, TaskAssumption
<1> QED BY <1>1, <1>2, <1>3, <1>4, <1>5 DEF Next

\* Timers and the time left are bounded in every state.
LEMMA PaceHolds == Spec => []PaceInv
<1>1. Init => PaceInv
  BY PaceInitially
<1>2. IInv /\ IInv' /\ PaceInv /\ [Next]_vars => PaceInv'
  BY NextPace
<1> QED BY <1>1, <1>2, Invariance, PTL DEF Spec

\* BackpressureIsBounded of WsBroadcast: however slow and however many the browsers are, a
\* fan-out holds the broadcast lock for two send timeouts and a close timeout at most.
THEOREM BackpressureHolds == Spec => []BackpressureIsBounded
<1>1. PaceInv => BackpressureIsBounded
  BY DEF PaceInv, AgeInv, BackpressureIsBounded, Bound
<1> QED BY <1>1, PaceHolds, PTL

-----------------------------------------------------------------------------
(* Whom a fan-out reaches.                                                  *)

\* A call in progress asked for a state there was, of peers that had come; and a fan-out's
\* frame, the same in every queue, is at least as new as that state, which whoever was
\* asked for and is still there is about to get, or has.
ReachInv ==
  \A b \in Caller :
    /\ fanout[b] \in {"waiting", "sending"} =>
         asked[b].version <= version /\ \A p \in asked[b].peers : handler[p] # "new"
    /\ fanout[b] = "sending" =>
         /\ asked[b].version <= frame[b]
         /\ \A p \in Peer : \A i \in DOMAIN lock[p] : lock[p][i].who = b => lock[p][i].frame = frame[b]
         /\ \A p \in asked[b].peers \intersect clients :
              p \in todo[b] \/ Wants(b, p) \/ got[p] >= asked[b].version

LEMMA Asked ==
  ASSUME IInv, NEW b \in Caller
  PROVE  asked[b].version \in Nat /\ asked[b].peers \subseteq Peer /\ frame[b] \in Nat
<1>1. asked[b] \in [version : Frames, peers : SUBSET Peer]
  BY DEF IInv, TypeOK
<1>2. asked[b].version \in Frames /\ asked[b].peers \subseteq Peer
  BY <1>1
<1>3. \A f \in Frames : f \in Nat
  BY VersionAssumption DEF Frames, Versions, Reply
<1> QED BY <1>2, <1>3, Values

LEMMA VersionsAreNat == IInv => version \in Nat /\ \A r \in Peer : got[r] \in Nat
BY Values

\* A step of the peers, or of the state.
LEMMA PeersReach ==
  ASSUME IInv, IInv', ReachInv, InOrder, UNCHANGED callVars, version' >= version,
         \A p \in Peer : handler'[p] = "new" => handler[p] = "new",
         \A p \in Peer : p \in clients' => p \in clients \/ handler[p] = "new",
         \A b \in Caller : \A p \in Peer : fanout[b] = "sending" /\ Wants(b, p) /\ p \in clients'
           => Wants(b, p)' \/ got'[p] >= frame[b],
         \A b \in Caller : \A p \in Peer : \A i \in DOMAIN lock'[p] : lock'[p][i].who = b
           => \E k \in DOMAIN lock[p] : lock'[p][i] = lock[p][k]
  PROVE  ReachInv'
<1>1. fanout' = fanout /\ todo' = todo /\ frame' = frame /\ asked' = asked
  BY DEF callVars
<1>2. version \in Nat /\ version' \in Nat /\ \A p \in Peer : got[p] \in Nat /\ got'[p] \in Nat
  <2>1. (version \in Nat /\ \A r \in Peer : got[r] \in Nat)'
    BY VersionsAreNat, PTL
  <2> QED BY <2>1, Values
<1>3. ASSUME NEW b \in Caller, fanout[b] \in {"waiting", "sending"}
      PROVE  asked[b].version <= version' /\ \A p \in asked[b].peers : handler'[p] # "new"
  <2>1. asked[b].version <= version /\ \A p \in asked[b].peers : handler[p] # "new"
    BY <1>3 DEF ReachInv
  <2> QED BY <1>2, <2>1, Asked
<1>4. ASSUME NEW b \in Caller, fanout[b] = "sending"
      PROVE  /\ asked[b].version <= frame[b]
             /\ \A p \in Peer : \A i \in DOMAIN lock'[p] : lock'[p][i].who = b => lock'[p][i].frame = frame[b]
  BY <1>4 DEF ReachInv
<1>5. ASSUME NEW b \in Caller, fanout[b] = "sending", NEW p \in asked[b].peers \intersect clients'
      PROVE  p \in todo[b] \/ Wants(b, p)' \/ got'[p] >= asked[b].version
  <2>1. p \in Peer /\ p \in clients
    BY <1>5, Asked DEF ReachInv
  <2>2. p \in todo[b] \/ Wants(b, p) \/ got[p] >= asked[b].version
    BY <1>5, <2>1 DEF ReachInv
  <2>3. CASE Wants(b, p)
    <3>1. Wants(b, p)' \/ got'[p] >= frame[b]
      BY <1>5, <2>1, <2>3
    <3> QED BY <1>2, <1>4, <1>5, <2>1, <3>1, Asked
  <2>4. CASE got[p] >= asked[b].version
    BY <1>2, <2>1, <2>4, Asked DEF InOrder
  <2> QED BY <2>2, <2>3, <2>4
<1> QED BY <1>1, <1>3, <1>4, <1>5 DEF ReachInv

\* The head of the queue of p leaves, with its frame on its way or p no client.
LEMMA HeadReaches ==
  ASSUME IInv, NEW p \in Peer, lock[p] # <<>>, lock'[p] = Tail(lock[p]),
         NEW b \in Caller, fanout[b] = "sending", Wants(b, p), p \in clients',
         Head(lock[p]).who = b => got'[p] >= frame[b]
  PROVE  Wants(b, p)' \/ got'[p] >= frame[b]
<1>1. CASE Head(lock[p]).who # b
  <2>1. lock'[p] # <<>> /\ Head(lock'[p]).who = b
    BY <1>1, NextInLine
  <2>2. lock'[p] \in Seq(Request)
    BY TailFacts DEF IInv, TypeOK
  <2>3. 1 \in DOMAIN lock'[p] /\ Head(lock'[p]) = lock'[p][1]
    BY <2>1, <2>2
  <2> QED BY <2>1, <2>3 DEF Wants
<1> QED BY <1>1

\* Who was in a queue before its head left.
LEMMA TailMembers ==
  ASSUME IInv, NEW p \in Peer, lock[p] # <<>>, NEW i \in DOMAIN Tail(lock[p])
  PROVE  \E k \in DOMAIN lock[p] : Tail(lock[p])[i] = lock[p][k]
<1>1. lock[p] \in Seq(Request)
  BY DEF IInv, TypeOK
<1>2. /\ DOMAIN Tail(lock[p]) = 1 .. Len(lock[p]) - 1 /\ DOMAIN lock[p] = 1 .. Len(lock[p])
      /\ Len(lock[p]) \in Nat
      /\ \A k \in 1 .. Len(lock[p]) - 1 : Tail(lock[p])[k] = lock[p][k + 1]
  BY <1>1, TailFacts
<1>3. i + 1 \in DOMAIN lock[p]
  BY <1>2
<1> QED BY <1>2, <1>3

LEMMA ReleaseReaches ==
  ASSUME IInv, IInv', ReachInv, InOrder, UNCHANGED <<version, clients, callVars>>,
         NEW p \in Peer, lock[p] # <<>>, Release(p), Resume(p),
         p \in clients => Head(lock[p]).frame = Reply \/ got'[p] = Head(lock[p]).frame
  PROVE  ReachInv'
<1>1. lock \in [Peer -> Seq(Request)] /\ handler \in [Peer -> {"new", "sending", "receiving", "ended"}]
  BY DEF IInv, TypeOK
<1>2. lock'[p] = Tail(lock[p]) /\ \A q \in Peer \ {p} : lock'[q] = lock[q]
  BY <1>1 DEF Release
<1>3. \A q \in Peer : handler'[q] = "new" => handler[q] = "new"
  BY <1>1 DEF Resume
<1>4. ASSUME NEW b \in Caller, NEW q \in Peer, fanout[b] = "sending", Wants(b, q), q \in clients'
      PROVE  Wants(b, q)' \/ got'[q] >= frame[b]
  <2>1. CASE q = p
    <3>1. ASSUME Head(lock[p]).who = b PROVE got'[p] >= frame[b]
      <4>1. Head(lock[p]) = lock[p][1] /\ 1 \in DOMAIN lock[p]
        BY <1>1
      <4>2. Head(lock[p]).frame = frame[b]
        BY <1>4, <3>1, <4>1 DEF ReachInv
      <4>3. got[p] \in Nat /\ frame[b] \in Nat /\ got'[p] >= got[p]
        BY Values DEF InOrder
      <4>4. (version \in Nat /\ \A r \in Peer : got[r] \in Nat)'
        BY VersionsAreNat, PTL
      <4> QED BY <1>4, <2>1, <4>2, <4>3, <4>4 DEF Reply
    <3> QED BY <1>2, <1>4, <2>1, <3>1, HeadReaches
  <2>2. CASE q # p
    BY <1>2, <1>4, <2>2 DEF Wants
  <2> QED BY <2>1, <2>2
<1>5. ASSUME NEW b \in Caller, NEW q \in Peer, NEW i \in DOMAIN lock'[q]
      PROVE  \E k \in DOMAIN lock[q] : lock'[q][i] = lock[q][k]
  <2>1. CASE q = p
    <3>1. i \in DOMAIN Tail(lock[p])
      BY <1>2, <2>1
    <3>2. PICK k \in DOMAIN lock[p] : Tail(lock[p])[i] = lock[p][k]
      BY <3>1, TailMembers
    <3> QED BY <1>2, <2>1, <3>2
  <2>2. CASE q # p
    BY <1>2, <2>2
  <2> QED BY <2>1, <2>2
<1>6. version' >= version
  BY Values
<1> QED BY <1>3, <1>4, <1>5, <1>6, PeersReach

\* Steps of a peer that leave its queue as it is, and of the state.
LEMMA QuietReach ==
  ASSUME IInv, IInv', ReachInv, InOrder,
         \/ Change
         \/ \E p \in Peer : Leave(p) \/ SendFails(p)
  PROVE  ReachInv'
<1>1. lock' = lock /\ UNCHANGED callVars
  BY DEF Change, Leave, SendFails, peerVars
<1>2. version' >= version
  BY Values DEF Change, Leave, SendFails
<1>3. clients' \subseteq clients
  BY DEF Change, Leave, SendFails, Forgotten, peerVars
<1>4. \A p \in Peer : handler'[p] = "new" => handler[p] = "new"
  BY DEF Change, Leave, SendFails, peerVars, IInv, TypeOK
<1>5. \A b \in Caller : \A p \in Peer : Wants(b, p) => Wants(b, p)'
  BY <1>1 DEF Wants
<1> QED BY <1>1, <1>2, <1>3, <1>4, <1>5, PeersReach

LEMMA WriteReaches ==
  ASSUME IInv, IInv', PaceInv, ReachInv, InOrder, NEW p \in Peer,
         Acquire(p) \/ Sent(p) \/ Closed(p)
  PROVE  ReachInv'
<1>1. UNCHANGED <<version, clients, callVars>> /\ lock[p] # <<>>
  BY DEF Acquire, Sent, Closed, IInv, PeerInv
<1>2. CASE Acquire(p) /\ p \in clients
  <2>1. UNCHANGED <<lock, handler>>
    BY <1>2 DEF Acquire
  <2>2. \A b \in Caller : \A q \in Peer : Wants(b, q) => Wants(b, q)'
    BY <2>1 DEF Wants
  <2>3. version' >= version /\ clients' = clients /\ UNCHANGED callVars
    BY <1>1, Values
  <2> QED BY <2>1, <2>2, <2>3, PeersReach
<1>3. CASE Sent(p) \/ Closed(p) \/ (Acquire(p) /\ p \notin clients)
  <2>1. Release(p) /\ Resume(p)
    BY <1>3 DEF Acquire, Sent, Closed
  <2>2. Sent(p) => got'[p] = Newest(Head(lock[p]).frame, got[p])
    BY DEF Sent, IInv, TypeOK
  <2>3. Closed(p) => p \notin clients
    BY DEF Closed, PaceInv, WriteInv
  <2>4. p \in clients => Head(lock[p]).frame = Reply \/ got'[p] = Head(lock[p]).frame
    BY <1>3, <2>2, <2>3 DEF Newest
  <2> QED BY <1>1, <2>1, <2>4, ReleaseReaches
<1> QED BY <1>2, <1>3

LEMMA JoinReaches ==
  ASSUME IInv, IInv', ReachInv, InOrder, NEW p \in Peer, Accept(p) \/ Answer(p)
  PROVE  ReachInv'
<1>1. PICK f : Queue({p}, Handler, f)
  BY DEF Accept, Answer
<1>2. /\ UNCHANGED <<version, callVars>> /\ handler' = [handler EXCEPT ![p] = "sending"]
      /\ clients' = clients \union {p}
      /\ handler[p] = "new" \/ p \in clients
  BY DEF Accept, Answer
<1>3. lock' = [q \in Peer |-> IF q \in {p} THEN Append(lock[q], [who |-> Handler, frame |-> f]) ELSE lock[q]]
  BY <1>1 DEF Queue
<1>4. PICK r : r = [who |-> Handler, frame |-> f]
  OBVIOUS
<1>5. r.who = Handler /\ lock'[p] = Append(lock[p], r) /\ \A q \in Peer \ {p} : lock'[q] = lock[q]
  BY <1>3, <1>4
<1>6. lock[p] \in Seq(Request)
  BY DEF IInv, TypeOK
<1>7. /\ DOMAIN lock'[p] = 1 .. Len(lock[p]) + 1 /\ DOMAIN lock[p] = 1 .. Len(lock[p])
      /\ Len(lock[p]) \in Nat
      /\ \A k \in DOMAIN lock[p] : lock'[p][k] = lock[p][k]
      /\ lock'[p][Len(lock[p]) + 1] = r
  BY <1>5, <1>6
<1>8. ASSUME NEW b \in Caller, NEW q \in Peer, Wants(b, q) PROVE Wants(b, q)'
  <2>1. CASE q = p
    <3>1. \A k \in DOMAIN lock[p] : k \in DOMAIN lock'[p] /\ lock'[p][k] = lock[p][k]
      BY <1>7
    <3> QED BY <1>8, <2>1, <3>1 DEF Wants
  <2>2. CASE q # p
    BY <1>5, <1>8, <2>2 DEF Wants
  <2> QED BY <2>1, <2>2
<1>9. ASSUME NEW b \in Caller, NEW q \in Peer, NEW i \in DOMAIN lock'[q], lock'[q][i].who = b
      PROVE  \E k \in DOMAIN lock[q] : lock'[q][i] = lock[q][k]
  <2>1. CASE q = p
    <3>1. i \in DOMAIN lock[p] \/ lock'[p][i] = r
      BY <1>7, <1>9, <2>1
    <3>2. i \in DOMAIN lock[p] /\ lock'[p][i] = lock[p][i]
      BY <1>5, <1>7, <1>9, <2>1, <3>1, CallerAssumption
    <3> QED BY <2>1, <3>2
  <2>2. CASE q # p
    BY <1>5, <1>9, <2>2
  <2> QED BY <2>1, <2>2
<1>10. \A q \in Peer : handler'[q] = "new" => handler[q] = "new"
  BY <1>2 DEF IInv, TypeOK
<1>11. \A q \in Peer : q \in clients' => q \in clients \/ handler[q] = "new"
  BY <1>2
<1>12. version' >= version /\ UNCHANGED callVars
  BY <1>2, Values
<1> QED BY <1>8, <1>9, <1>10, <1>11, <1>12, PeersReach

\* Steps of callers.
LEMMA CallReaches ==
  ASSUME IInv, ReachInv, NEW b \in Caller, Call(b)
  PROVE  ReachInv'
<1>1. /\ fanout' = [fanout EXCEPT ![b] = "waiting"]
      /\ asked' = [asked EXCEPT ![b] = [version |-> version, peers |-> clients]]
      /\ UNCHANGED <<version, peerVars, frame, todo>>
  BY DEF Call
<1>2. /\ fanout'[b] = "waiting" /\ asked'[b].version = version /\ asked'[b].peers = clients
      /\ \A c \in Caller \ {b} : fanout'[c] = fanout[c] /\ asked'[c] = asked[c]
  BY <1>1 DEF IInv, TypeOK
<1>3. version <= version /\ \A p \in clients : handler[p] # "new"
  <2>1. version <= version
    BY VersionsAreNat
  <2>2. clients \subseteq Peer
    BY DEF IInv, TypeOK
  <2>3. \A p \in Peer : handler[p] = "new" => p \notin clients
    BY DEF IInv, PeerInv
  <2> QED BY <2>1, <2>2, <2>3
<1>4. /\ version' = version /\ clients' = clients /\ handler' = handler /\ lock' = lock /\ got' = got
      /\ frame' = frame /\ todo' = todo
  BY <1>1 DEF peerVars
<1>5. \A c \in Caller, p \in Peer : Wants(c, p)' <=> Wants(c, p)
  BY <1>4 DEF Wants
<1>6. \A c \in Caller : asked[c].peers \subseteq Peer
  BY Asked
<1>7. ASSUME NEW c \in Caller
      PROVE  /\ fanout'[c] \in {"waiting", "sending"} =>
                  asked'[c].version <= version /\ \A p \in asked'[c].peers : handler[p] # "new"
             /\ fanout'[c] = "sending" =>
                  /\ asked'[c].version <= frame[c]
                  /\ \A p \in Peer : \A i \in DOMAIN lock[p] : lock[p][i].who = c => lock[p][i].frame = frame[c]
                  /\ \A p \in asked'[c].peers \intersect clients :
                       p \in todo[c] \/ Wants(c, p)' \/ got[p] >= asked'[c].version
  BY <1>2, <1>3, <1>5, <1>6 DEF ReachInv
<1> QED BY <1>4, <1>7 DEF ReachInv

LEMMA BeginReaches ==
  ASSUME IInv, ReachInv, NEW b \in Caller, Begin(b)
  PROVE  ReachInv'
<1>1. fanout[b] = "waiting" /\ UNCHANGED <<version, peerVars>>
  BY DEF Begin
<1>2. /\ version' = version /\ clients' = clients /\ handler' = handler /\ lock' = lock /\ got' = got
  BY <1>1 DEF peerVars
<1>3. \A p \in Peer : ~Wants(b, p)
  BY <1>1, Wanting
<1>4. \A c \in Caller \ {b} : fanout[c] # "sending" /\ fanout'[c] = fanout[c] /\ asked'[c] = asked[c]
  <2>1. Head(broadcastLock) = b
    BY DEF Begin
  <2> QED BY <1>1, <2>1, Holding DEF Begin, IInv, TypeOK
<1>5. \/ fanout'[b] = "idle"
      \/ fanout'[b] = "sending" /\ frame'[b] = version /\ todo'[b] = clients /\ asked' = asked
  BY DEF Begin, Built, IInv, TypeOK
<1>6. asked[b].version <= version /\ \A p \in asked[b].peers : handler[p] # "new"
  BY <1>1 DEF ReachInv
<1>7. \A p \in Peer : \A i \in DOMAIN lock[p] : lock[p][i].who # b
  BY <1>3 DEF Wants
<1>8. ASSUME NEW c \in Caller
      PROVE  /\ fanout'[c] \in {"waiting", "sending"} =>
                  asked'[c].version <= version /\ \A p \in asked'[c].peers : handler[p] # "new"
             /\ fanout'[c] = "sending" =>
                  /\ asked'[c].version <= frame'[c]
                  /\ \A p \in Peer : \A i \in DOMAIN lock[p] : lock[p][i].who = c => lock[p][i].frame = frame'[c]
                  /\ \A p \in asked'[c].peers \intersect clients : p \in todo'[c]
  <2>1. CASE c = b
    BY <1>5, <1>6, <1>7, <2>1
  <2>2. CASE c # b
    BY <1>4, <2>2 DEF ReachInv
  <2> QED BY <2>1, <2>2
<1> QED BY <1>2, <1>8 DEF ReachInv

\* A call ends, or is cancelled: none sends but maybe the one that did.
LEMMA EndReaches ==
  ASSUME IInv, ReachInv, NEW b \in Caller,
         Return(b) \/ Cancel(b) \/ \E p \in Peer : Abort(b, p)
  PROVE  ReachInv'
<1>1. UNCHANGED <<version, clients, handler>>
  BY DEF Return, Cancel, Abort, peerVars
<1>2. CASE Return(b) \/ \E p \in Peer : Abort(b, p)
  <2>1. /\ fanout[b] \in {"sending", "aborting"} /\ fanout'[b] \in {"idle", "aborting"}
        /\ \A c \in Caller \ {b} : fanout'[c] = fanout[c] /\ asked'[c] = asked[c]
    BY <1>2 DEF Return, Abort, callVars, IInv, TypeOK
  <2>2. \A c \in Caller : fanout'[c] # "sending"
    BY <2>1, Holding
  <2>3. \A c \in Caller : fanout'[c] = "waiting" =>
          asked'[c].version <= version /\ \A p \in asked'[c].peers : handler[p] # "new"
    BY <2>1 DEF ReachInv
  <2> QED BY <1>1, <2>2, <2>3 DEF ReachInv
<1>3. CASE Cancel(b)
  <2>1. /\ fanout'[b] \in {"idle", "aborting"} /\ frame' = frame /\ UNCHANGED peerVars
        /\ \A c \in Caller \ {b} : fanout'[c] = fanout[c] /\ asked'[c] = asked[c] /\ todo'[c] = todo[c]
    BY <1>3 DEF Cancel, IInv, TypeOK
  <2>2. /\ version' = version /\ clients' = clients /\ handler' = handler /\ lock' = lock /\ got' = got
    BY <1>1, <2>1 DEF peerVars
  <2>3. \A c \in Caller, p \in Peer : Wants(c, p)' <=> Wants(c, p)
    BY <2>2 DEF Wants
  <2>4. \A c \in Caller : asked[c].peers \subseteq Peer
    BY Asked
  <2>5. ASSUME NEW c \in Caller
        PROVE  /\ fanout'[c] \in {"waiting", "sending"} =>
                    asked'[c].version <= version /\ \A p \in asked'[c].peers : handler[p] # "new"
               /\ fanout'[c] = "sending" =>
                    /\ asked'[c].version <= frame[c]
                    /\ \A p \in Peer : \A i \in DOMAIN lock[p] : lock[p][i].who = c => lock[p][i].frame = frame[c]
                    /\ \A p \in asked'[c].peers \intersect clients :
                         p \in todo'[c] \/ Wants(c, p)' \/ got[p] >= asked'[c].version
    BY <2>1, <2>3, <2>4 DEF ReachInv
  <2> QED BY <2>1, <2>2, <2>5 DEF ReachInv
<1> QED BY <1>2, <1>3

\* The send tasks of b start: they join the queues with its frame.
LEMMA StartReaches ==
  ASSUME IInv, IInv', ReachInv, NEW b \in Caller, Start(b)
  PROVE  ReachInv'
<1>1. /\ fanout[b] = "sending" /\ todo[b] # {} /\ todo' = [todo EXCEPT ![b] = {}]
      /\ Queue(todo[b] \intersect clients, b, frame[b])
      /\ UNCHANGED <<version, clients, handler, got, fanout, frame, asked>>
  BY DEF Start
<1>2. \A p \in Peer : \A k \in DOMAIN lock[p] : lock[p][k].who # b
  <2>1. \A p \in Peer : ~Wants(b, p)
    BY <1>1, Wanting
  <2> QED BY <2>1 DEF Wants
<1>3. \A c \in Caller \ {b} : fanout[c] # "sending"
  BY <1>1, Holding
<1>4. PICK r : r = [who |-> b, frame |-> frame[b]]
  OBVIOUS
<1>5. /\ r.who = b /\ r.frame = frame[b]
      /\ \A p \in Peer : lock'[p] = IF p \in todo[b] \intersect clients THEN Append(lock[p], r) ELSE lock[p]
  BY <1>1, <1>4 DEF Queue
<1>6. \A p \in Peer : lock[p] \in Seq(Request)
  BY DEF IInv, TypeOK
<1>7. ASSUME NEW p \in Peer, p \in todo[b] \intersect clients
      PROVE  /\ DOMAIN lock'[p] = 1 .. Len(lock[p]) + 1 /\ DOMAIN lock[p] = 1 .. Len(lock[p])
             /\ Len(lock[p]) \in Nat /\ lock'[p][Len(lock[p]) + 1] = r
             /\ \A k \in DOMAIN lock[p] : lock'[p][k] = lock[p][k]
  <2>1. r \in Request
    BY <1>4, Values DEF Request, Writer
  <2>2. lock[p] \in Seq(Request)
    BY <1>6
  <2>3. lock'[p] = Append(lock[p], r)
    BY <1>5, <1>7
  <2> QED BY <2>1, <2>2, <2>3, AppendFacts
<1>8. ASSUME NEW p \in Peer, NEW i \in DOMAIN lock'[p], lock'[p][i].who = b
      PROVE  lock'[p][i].frame = frame[b]
  <2>1. CASE p \in todo[b] \intersect clients
    <3>1. (i \in DOMAIN lock[p] /\ lock'[p][i] = lock[p][i]) \/ lock'[p][i] = r
      BY <1>7, <1>8, <2>1
    <3> QED BY <1>2, <1>5, <1>8, <3>1
  <2>2. CASE p \notin todo[b] \intersect clients
    BY <1>2, <1>5, <1>8, <2>2
  <2> QED BY <2>1, <2>2
<1>9. ASSUME NEW p \in asked[b].peers \intersect clients
      PROVE  Wants(b, p)' \/ got[p] >= asked[b].version
  <2>1. p \in Peer
    BY Asked
  <2>2. CASE p \in todo[b]
    <3>1. Len(lock[p]) + 1 \in DOMAIN lock'[p] /\ lock'[p][Len(lock[p]) + 1] = r
      BY <1>7, <2>1, <2>2
    <3> QED BY <1>5, <3>1 DEF Wants
  <2>3. CASE p \notin todo[b]
    <3>1. ~Wants(b, p)
      BY <1>2, <2>1 DEF Wants
    <3> QED BY <1>1, <2>1, <2>3, <3>1 DEF ReachInv
  <2> QED BY <2>2, <2>3
<1>10. /\ version' = version /\ clients' = clients /\ handler' = handler /\ got' = got
       /\ fanout' = fanout /\ frame' = frame /\ asked' = asked
  BY <1>1
<1>11. ASSUME NEW c \in Caller
       PROVE  /\ fanout[c] \in {"waiting", "sending"} =>
                   asked[c].version <= version /\ \A p \in asked[c].peers : handler[p] # "new"
              /\ fanout[c] = "sending" =>
                   /\ asked[c].version <= frame[c]
                   /\ \A p \in Peer : \A i \in DOMAIN lock'[p] : lock'[p][i].who = c => lock'[p][i].frame = frame[c]
                   /\ \A p \in asked[c].peers \intersect clients :
                        p \in todo'[c] \/ Wants(c, p)' \/ got[p] >= asked[c].version
  <2>1. CASE c = b
    BY <1>1, <1>8, <1>9, <2>1 DEF ReachInv
  <2>2. CASE c # b
    BY <1>3, <2>2 DEF ReachInv
  <2> QED BY <2>1, <2>2
<1> QED BY <1>10, <1>11 DEF ReachInv

\* Time passes, or nothing happens.
LEMMA StillReaches ==
  ASSUME IInv, ReachInv,
         UNCHANGED <<version, clients, handler, lock, got, fanout, frame, todo, asked>>
  PROVE  ReachInv'
<1>1. \A c \in Caller, p \in Peer : Wants(c, p)' <=> Wants(c, p)
  BY DEF Wants
<1>2. /\ version' = version /\ clients' = clients /\ handler' = handler /\ lock' = lock /\ got' = got
      /\ fanout' = fanout /\ frame' = frame /\ todo' = todo /\ asked' = asked
  OBVIOUS
<1>3. ASSUME NEW c \in Caller
      PROVE  /\ fanout[c] \in {"waiting", "sending"} =>
                  asked[c].version <= version /\ \A p \in asked[c].peers : handler[p] # "new"
             /\ fanout[c] = "sending" =>
                  /\ asked[c].version <= frame[c]
                  /\ \A p \in Peer : \A i \in DOMAIN lock[p] : lock[p][i].who = c => lock[p][i].frame = frame[c]
                  /\ \A p \in asked[c].peers \intersect clients :
                       p \in todo[c] \/ Wants(c, p)' \/ got[p] >= asked[c].version
  <2>1. \A p \in asked[c].peers : fanout[c] = "sending" => p \in Peer
    BY Asked
  <2> QED BY <1>1, <2>1 DEF ReachInv
<1> QED BY <1>2, <1>3 DEF ReachInv

LEMMA NextReaches ==
  ASSUME IInv, IInv', PaceInv, ReachInv, [Next]_vars
  PROVE  ReachInv'
<1>1. CASE UNCHANGED vars \/ Tick
  <2>1. UNCHANGED <<version, clients, handler, lock, got, fanout, frame, todo, asked>>
    BY <1>1 DEF vars, peerVars, callVars, Tick
  <2> QED BY <2>1, StillReaches
<1>2. CASE Next /\ ~UNCHANGED vars
  <2>1. InOrder
    BY <1>2, NextKeeps
  <2>2. CASE Change \/ Tick
    BY <1>1, <2>1, <2>2, QuietReach
  <2>3. CASE \E p \in Peer : \/ Accept(p) \/ Answer(p) \/ Leave(p)
                             \/ Acquire(p) \/ Sent(p) \/ SendFails(p) \/ Closed(p)
    BY <2>1, <2>3, JoinReaches, QuietReach, WriteReaches
  <2>4. CASE \E b \in Caller : \/ Call(b) \/ Begin(b) \/ Start(b) \/ Return(b)
                               \/ \E p \in Peer : Abort(b, p)
    BY <2>4, CallReaches, BeginReaches, StartReaches, EndReaches
  <2>5. CASE \E b \in SourceTask : Cancel(b)
    BY <2>5, EndReaches, TaskAssumption
  <2> QED BY <1>2, <2>2, <2>3, <2>4, <2>5 DEF Next
<1> QED BY <1>1, <1>2

\* BroadcastReaches of WsBroadcast: when a fan-out that nobody cancelled returns, whoever was
\* connected when it was called, and still is, has a state no older than the one it announced,
\* however many calls, handlers and timeouts came between.
THEOREM FanOutReaches == Spec => BroadcastReaches
<1>1. Init => ReachInv
  BY DEF Init, ReachInv
<1>2. IInv /\ IInv' /\ PaceInv /\ ReachInv /\ [Next]_vars => ReachInv'
  BY NextReaches
<1>3. Spec => []ReachInv
  BY <1>1, <1>2, Invariance, PaceHolds, PTL DEF Spec
<1>4. IInv /\ ReachInv =>
        \A b \in Caller :
          fanout[b] = "sending" /\ Return(b) =>
            \A p \in asked[b].peers \intersect clients : got[p] >= asked[b].version
  <2>1. SUFFICES ASSUME IInv, ReachInv, NEW b \in Caller, fanout[b] = "sending", Return(b),
                        NEW p \in asked[b].peers \intersect clients
                 PROVE  got[p] >= asked[b].version
    OBVIOUS
  <2>2. p \in Peer
    BY Asked, <2>1
  <2>3. todo[b] = {} /\ ~Wants(b, p)
    BY <2>1, <2>2 DEF Return, AllSent
  <2> QED BY <2>1, <2>2, <2>3 DEF ReachInv
<1>5. Spec => [][\A b \in Caller :
                   fanout[b] = "sending" /\ Return(b) =>
                     \A p \in asked[b].peers \intersect clients : got[p] >= asked[b].version]_vars
  BY <1>3, <1>4, Invariance, PTL
<1> QED BY <1>5 DEF BroadcastReaches
=============================================================================
