--------------------------- MODULE PushDelivery ---------------------------
(***************************************************************************)
(* Web Push from a queued event to the provider's answer: src/             *)
(* inverter_dashboard/push_service.py over the SQLite outbox of            *)
(* push_store.py.                                                          *)
(*                                                                         *)
(* Workers claim a due row by moving its next attempt past a lease, send   *)
(* it, and may complete it only while they still own it.  Registration,    *)
(* removal, a new source epoch, a storage failure and a restart take rows  *)
(* and sends away from under them.  Time is counted in ticks: what is left *)
(* until a row is due or expires, and until a send times out.              *)
(***************************************************************************)
EXTENDS Naturals, FiniteSets

CONSTANTS
  Event, TestEvent,     \* event keys; those of the browser's test button
  Sub,                  \* endpoints; the 64 subscriptions they may be are not counted
  Worker,
  SendTimeout,          \* aiohttp's total timeout, 10 s
  Lease,                \* how far a claim moves next_at, 30 s
  Backoff,              \* delay after each failed attempt: 5 s, 10 s (20 s is never used)
  Ttl,                  \* a row expires after 300 s
  MaxDeliveries         \* rows in the outbox, 1024

ASSUME EventAssumption == TestEvent \subseteq Event /\ IsFiniteSet(Event \X Sub)
ASSUME TimeAssumption ==
  /\ SendTimeout \in Nat /\ Lease \in Nat /\ SendTimeout < Lease
  /\ Backoff \in [0 .. 2 -> Nat]
  /\ Ttl \in Nat \ {0}
ASSUME BoundAssumption == MaxDeliveries \in Nat

VARIABLES
  subs,                 \* table subscriptions: none, or whether it wants the events
  known,                \* table events: reserved identities (no more than 4096, so none is evicted)
  queued, due, ttl, attempts,     \* table deliveries
  past,                 \* deliveries of an epoch that was retired
  connected, available, \* PushService: a source is connected; storage works
  pc, job, tried, left, outcome,  \* one entry per worker
  same,                 \* the job's registration is the one it was claimed for
  sent, accepted        \* history: sends of this process; answered with success

rowVars    == <<queued, due, ttl, attempts>>
workerVars == <<pc, job, tried, left, outcome, same>>
vars == <<subs, known, rowVars, past, connected, available, workerVars, sent, accepted>>

Delivery   == Event \X Sub
Native     == {d \in Delivery : d[1] \notin TestEvent}
Of(s)      == {d \in Delivery : d[2] = s}
Attempts   == 0 .. 2
InFlight   == {"starting", "sending"}
Active     == InFlight \union {"answered"}
Outcomes   == {"ok", "drop", "gone", "retry"}
Jobs       == Delivery \union {<<>>}

TypeOK ==
  /\ subs \in [Sub -> {"none", "wants", "quiet"}]
  /\ known \in SUBSET Event
  /\ queued \in SUBSET Delivery
  /\ due \in [Delivery -> Nat] /\ ttl \in [Delivery -> Nat]
  /\ attempts \in [Delivery -> Attempts]
  /\ past \in SUBSET Native
  /\ connected \in BOOLEAN /\ available \in BOOLEAN
  /\ pc \in [Worker -> {"idle", "answered", "dead"} \union InFlight]
  /\ job \in [Worker -> Jobs]
  /\ tried \in [Worker -> Attempts]
  /\ left \in [Worker -> Nat]
  /\ outcome \in [Worker -> Outcomes]
  /\ same \in [Worker -> BOOLEAN]
  /\ sent \in [Delivery -> Nat]
  /\ accepted \in SUBSET Delivery

Init ==
  /\ subs = [s \in Sub |-> "none"]
  /\ known = {}
  /\ queued = {}
  /\ due = [d \in Delivery |-> 0] /\ ttl = [d \in Delivery |-> 0]
  /\ attempts = [d \in Delivery |-> 0]
  /\ past = {}
  /\ connected = FALSE /\ available = TRUE
  /\ pc = [w \in Worker |-> "idle"]
  /\ job = [w \in Worker |-> <<>>]
  /\ tried = [w \in Worker |-> 0]
  /\ left = [w \in Worker |-> 0]
  /\ outcome = [w \in Worker |-> "drop"]
  /\ same = [w \in Worker |-> FALSE]
  /\ sent = [d \in Delivery |-> 0]
  /\ accepted = {}

-----------------------------------------------------------------------------
(* The outbox.                                                             *)

\* The rows in q remain, with the given due times, attempts and lifetimes.
Rows(q, du, at, tt) ==
  /\ queued' = q
  /\ due' = [d \in Delivery |-> IF d \in q THEN du[d] ELSE 0]
  /\ attempts' = [d \in Delivery |-> IF d \in q THEN at[d] ELSE 0]
  /\ ttl' = [d \in Delivery |-> IF d \in q THEN tt[d] ELSE 0]

KeepRows(q) == Rows(q, due, attempts, ttl)

\* Mutant: nothing expires.
NeverExpires == queued

\* EXPIRE_DELIVERIES_SQL
Unexpired == {d \in queued : ttl[d] > 0}

\* Mutant: a full outbox takes all targets of one more event.
NoTruncation(targets, q) == {targets}

\* "targets[: max(0, available)]"; the order of the targets is not modelled
Truncated(targets, q) ==
  {ts \in SUBSET targets :
     \/ ts = targets /\ Cardinality(q \union ts) <= MaxDeliveries
     \/ ts # targets /\ Cardinality(q \union ts) = MaxDeliveries}

\* enqueue: expire, reserve the identity, insert what fits, all in one transaction
Enqueue(e, targets, life) ==
  /\ IF e \in known
     THEN KeepRows(Unexpired)
     ELSE \E ts \in Truncated(targets, Unexpired) :
            Rows(Unexpired \union ts,
                 [d \in Delivery |-> IF d \in ts THEN 0 ELSE due[d]],
                 [d \in Delivery |-> IF d \in ts THEN 0 ELSE attempts[d]],
                 [d \in Delivery |-> IF d \in ts THEN life ELSE ttl[d]])
  /\ known' = known \union {e}
  /\ UNCHANGED <<subs, past, connected, available, workerVars, sent, accepted>>

\* queue: an event of the connected source, for those who want its kind
Queue(e) ==
  /\ available /\ connected /\ e \notin TestEvent
  /\ \E life \in 0 .. Ttl : Enqueue(e, {d \in Delivery : d[1] = e /\ subs[d[2]] = "wants"}, life)

\* test: rate limits only make it rarer and are left out; a full outbox refuses it.  A
\* request asks whether storage works before its body is read, and so may come after a
\* failure, which leaves the store open.
Test(e, s) ==
  /\ e \in TestEvent \ known
  /\ subs[s] # "none"
  /\ Cardinality(Unexpired) < MaxDeliveries
  /\ Enqueue(e, {<<e, s>>}, Ttl)

-----------------------------------------------------------------------------
(* Registrations and epochs: rows disappear and sends are cancelled.       *)

\* cancel() of a send that has not ended yet; the worker goes on without it
CancelSends(ds) ==
  LET hit == {w \in Worker : pc[w] \in InFlight /\ job[w] \in ds}
  IN  /\ pc' = [w \in Worker |-> IF w \in hit THEN "answered" ELSE pc[w]]
      /\ outcome' = [w \in Worker |-> IF w \in hit THEN "drop" ELSE outcome[w]]
      /\ left' = [w \in Worker |-> IF w \in hit THEN 0 ELSE left[w]]
      /\ UNCHANGED <<job, tried>>

\* Mutant: a registration update leaves the running send alone.
UpdateRowsOnly(s) ==
  /\ KeepRows(queued \ Of(s))
  /\ UNCHANGED <<pc, outcome, left, job, tried>>

\* the rows of a registration go, and its sends are cancelled
Withdraw(s) ==
  /\ KeepRows(queued \ Of(s))
  /\ CancelSends(Of(s))

NewRegistration(s) == same' = [w \in Worker |-> same[w] /\ job[w] \notin Of(s)]

\* register and delete, of a request whose body has been read (see Test)
Register(s, choice) ==
  /\ subs' = [subs EXCEPT ![s] = choice]
  /\ Withdraw(s)
  /\ NewRegistration(s)
  /\ UNCHANGED <<known, past, connected, available, sent, accepted>>

Delete(s) ==
  /\ subs' = [subs EXCEPT ![s] = "none"]
  /\ Withdraw(s)
  /\ NewRegistration(s)
  /\ UNCHANGED <<known, past, connected, available, sent, accepted>>

\* Mutant: the rows of the old epoch go, its running sends stay.
RetireRowsOnly ==
  /\ past' = {d \in Native : d[1] \in known}
  /\ KeepRows(queued \ Native)
  /\ UNCHANGED workerVars

\* _retire and EventProcessor.reset: a new epoch
Retire ==
  /\ past' = {d \in Native : d[1] \in known}
  /\ KeepRows(queued \ Native)
  /\ CancelSends(Native)
  /\ UNCHANGED same

\* connect and disconnect
Connect(up) ==
  /\ available
  /\ connected' = up
  /\ Retire
  /\ UNCHANGED <<subs, known, available, sent, accepted>>

-----------------------------------------------------------------------------
(* A worker: _worker and _deliver.                                         *)

Wanted(d) == subs[d[2]] # "none" /\ d \notin past /\ (d \in Native => subs[d[2]] = "wants")

\* Mutant: a claim leaves next_at as it is.
ClaimUnleased(d) == due

Claimed(d) == [due EXCEPT ![d] = Lease]

\* next_delivery(claim=True) and _deliver up to the send task, without an await
Poll(w) ==
  /\ available /\ pc[w] = "idle"
  /\ \/ /\ \A d \in Unexpired : due[d] > 0
        /\ Unexpired # queued
        /\ KeepRows(Unexpired)
        /\ UNCHANGED workerVars
     \/ \E d \in Unexpired :
          /\ due[d] = 0
          /\ IF Wanted(d)
             THEN /\ Rows(Unexpired, Claimed(d), attempts, ttl)
                  /\ pc' = [pc EXCEPT ![w] = "starting"]
                  /\ job' = [job EXCEPT ![w] = d]
                  /\ tried' = [tried EXCEPT ![w] = attempts[d]]
                  /\ same' = [same EXCEPT ![w] = TRUE]
                  /\ UNCHANGED <<left, outcome>>
             ELSE /\ KeepRows(Unexpired \ {d})
                  /\ UNCHANGED workerVars
  /\ UNCHANGED <<subs, known, past, connected, available, sent, accepted>>

\* the send task starts: the request leaves
Send(w) ==
  /\ pc[w] = "starting"
  /\ pc' = [pc EXCEPT ![w] = "sending"]
  /\ left' = [left EXCEPT ![w] = SendTimeout]
  /\ sent' = [sent EXCEPT ![job[w]] = @ + 1]
  /\ UNCHANGED <<subs, known, rowVars, past, connected, available, job, tried, outcome, same, accepted>>

\* An answer, its lack, or a send that refuses its data: 404 and 410 are "gone";
\* 429, 5xx, timeouts and network errors "retry"; the rest ends the delivery.
Answer(w, o) ==
  /\ pc[w] = "sending"
  /\ pc' = [pc EXCEPT ![w] = "answered"]
  /\ outcome' = [outcome EXCEPT ![w] = o]
  /\ left' = [left EXCEPT ![w] = 0]
  /\ accepted' = IF o = "ok" THEN accepted \union {job[w]} ELSE accepted
  /\ UNCHANGED <<subs, known, rowVars, past, connected, available, job, tried, same, sent>>

\* Mutant: an answer counts for whatever row and registration there is now.
OwnsAnyway(w) == TRUE

\* _owns_delivery
Owns(w) ==
  /\ job[w] \notin past
  /\ job[w] \in queued
  /\ attempts[job[w]] = tried[w]
  /\ ttl[job[w]] > 0

\* Mutant: a delivery that succeeded is tried again.
RetriesAlways(o, n) == n >= 2

\* finish: retry_at is None, or this was attempt 3
Final(o, n) == o # "retry" \/ n >= 2

Finish(d, o) ==
  IF Final(o, attempts[d])
  THEN KeepRows(queued \ {d})
  ELSE Rows(queued, [due EXCEPT ![d] = Backoff[attempts[d]]],
            [attempts EXCEPT ![d] = @ + 1], ttl)

\* the worker wakes up and completes what it still owns
Complete(w) ==
  /\ pc[w] = "answered"
  /\ IF ~Owns(w)
     THEN UNCHANGED <<subs, rowVars>>
     ELSE IF outcome[w] = "gone"
     THEN subs' = [subs EXCEPT ![job[w][2]] = "none"] /\ KeepRows(queued \ Of(job[w][2]))
     ELSE Finish(job[w], outcome[w]) /\ UNCHANGED subs
  /\ pc' = [pc EXCEPT ![w] = "idle"]
  /\ job' = [job EXCEPT ![w] = <<>>]
  /\ tried' = [tried EXCEPT ![w] = 0]
  /\ outcome' = [outcome EXCEPT ![w] = "drop"]
  /\ same' = [same EXCEPT ![w] = FALSE]
  /\ UNCHANGED <<known, past, connected, available, left, sent, accepted>>

-----------------------------------------------------------------------------
(* Time, failure and restart.                                              *)

\* What is ready runs before time passes: a send starts, an answer is handled,
\* a timeout fires.
Tick ==
  /\ \A w \in Worker : pc[w] \notin {"starting", "answered"} /\ (pc[w] = "sending" => left[w] > 0)
  /\ \/ \E d \in queued : due[d] > 0 \/ ttl[d] > 0
     \/ \E w \in Worker : left[w] > 0
  /\ due' = [d \in Delivery |-> IF due[d] = 0 THEN 0 ELSE due[d] - 1]
  /\ ttl' = [d \in Delivery |-> IF ttl[d] = 0 THEN 0 ELSE ttl[d] - 1]
  /\ left' = [w \in Worker |-> IF left[w] = 0 THEN 0 ELSE left[w] - 1]
  /\ UNCHANGED <<subs, known, queued, attempts, past, connected, available, pc, job, tried,
                 outcome, same, sent, accepted>>

NoJobs(p) ==
  /\ pc' = [w \in Worker |-> p]
  /\ job' = [w \in Worker |-> <<>>]
  /\ tried' = [w \in Worker |-> 0]
  /\ left' = [w \in Worker |-> 0]
  /\ outcome' = [w \in Worker |-> "drop"]
  /\ same' = [w \in Worker |-> FALSE]

\* fail: a storage error anywhere ends workers and sends, not the dashboard
StoreFails ==
  /\ available
  /\ available' = FALSE /\ connected' = FALSE
  /\ NoJobs("dead")
  /\ UNCHANGED <<subs, known, rowVars, past, sent, accepted>>

\* Mutant: a restart resumes the rows of the last epoch.
AllResumed == queued

\* rows of the last process that survive the new epoch of __init__
Resumed == queued \ Native

\* The process ends, in whatever way, and starts again; the tables remain.
Restart ==
  /\ available' = TRUE /\ connected' = FALSE
  /\ past' = {d \in Native : d[1] \in known}
  /\ KeepRows(Resumed)
  /\ NoJobs("idle")
  /\ sent' = [d \in Delivery |-> 0]
  /\ accepted' = accepted \ Resumed
  /\ UNCHANGED <<subs, known>>

-----------------------------------------------------------------------------
WorkerStep(w) == Poll(w) \/ Send(w) \/ (\E o \in Outcomes : Answer(w, o)) \/ Complete(w)

Next ==
  \/ \E e \in Event : Queue(e)
  \/ \E e \in Event, s \in Sub : Test(e, s)
  \/ \E s \in Sub, choice \in {"wants", "quiet"} : Register(s, choice)
  \/ \E s \in Sub : Delete(s)
  \/ \E up \in BOOLEAN : Connect(up)
  \/ \E w \in Worker : WorkerStep(w)
  \/ Tick \/ StoreFails \/ Restart

Spec == Init /\ [][Next]_vars

\* Workers run, a send answers or times out, time passes.
Fairness == WF_vars(Tick) /\ \A w \in Worker : WF_vars(WorkerStep(w))
FairSpec == Spec /\ Fairness

-----------------------------------------------------------------------------
Sends(d) == sent'[d] = sent[d] + 1

\* Two workers never have the same delivery in hand: the lease outlasts the
\* send, although a claim writes nothing but a later next_at, and what is
\* withdrawn, retired or expired under a worker is not handed to the other.
OneSenderPerDelivery ==
  \A v, w \in Worker : v # w /\ {pc[v], pc[w]} \subseteq Active => job[v] # job[w]

\* One process sends a delivery at most three times.
AtMostThreeSends == \A d \in Delivery : sent[d] <= 3

\* What a crash leaves behind is a store the next start accepts: "Push store
\* exceeds limits" and "Push store contains invalid delivery" are not its fate.
RestartAccepts ==
  /\ Cardinality(queued) <= MaxDeliveries
  /\ \A d \in queued : attempts[d] \in Attempts /\ subs[d[2]] # "none"

\* Nothing of a retired source epoch is sent, not even by a send task that was
\* created before and starts after the retirement, or after a restart.
RetiredIsNotSent == [][\A d \in Delivery : Sends(d) => d \notin past]_vars

\* Nothing is sent to a registration that its browser replaced or removed since
\* it was read, and no answer meant for it removes its successor.  (A 404 or 410
\* removes a registration too, and leaves its other send alone.)
StaleRegistrationIsLeftAlone ==
  [][\A w \in Worker :
       /\ Send(w) => same[w]
       /\ Complete(w) /\ subs' # subs => same[w]]_vars

\* A delivery the provider has accepted is not sent again, unless the process
\* ended before it could note the answer.
AcceptedIsFinal == [][\A d \in Delivery : Sends(d) => d \notin accepted]_vars

\* While storage works, every row leaves the outbox: delivered, given up or
\* expired, and no worker keeps it for ever.
RowsLeave == \A d \in Delivery : d \in queued ~> d \notin queued \/ ~available
=============================================================================
