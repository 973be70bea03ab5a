--------------------------- MODULE MCWsBroadcast ---------------------------
(* TLC instances of WsBroadcast.                                            *)
EXTENDS WsBroadcast, TLC

CONSTANTS p1, p2, b1, b2

TwoPeers   == {p1, p2}
TwoCallers == {b1, b2}
OneSource  == {b1}
Symmetric  == Permutations(TwoPeers) \union Permutations(TwoCallers)
=============================================================================
