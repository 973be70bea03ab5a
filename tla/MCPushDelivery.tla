-------------------------- MODULE MCPushDelivery --------------------------
(* TLC instance of PushDelivery, in ticks of about ten seconds: a send ends  *)
(* within one, a lease lasts two, a retry waits one, a row lives for five,   *)
(* long enough for three attempts and for an expiry before the third.  The   *)
(* outbox has room for one of the two events.                                *)
EXTENDS PushDelivery, TLC

CONSTANTS e, t, s1, w1, w2

Both       == {e, t}
TestOnly   == {t}
OneSub     == {s1}
TwoWorkers == {w1, w2}
Delays     == [n \in 0 .. 2 |-> 1]
=============================================================================
