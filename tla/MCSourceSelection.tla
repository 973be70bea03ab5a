------------------------- MODULE MCSourceSelection -------------------------
(* TLC instances of SourceSelection.  Three slots let the source change: a   *)
(* switching task waits until every task it took off the list is done, then  *)
(* starts two.  A spare slot leaves room for a loop that switched and still  *)
(* joins its keepalive, or for a switch that did not wait.                   *)
EXTENDS SourceSelection

Slots      == 1 .. 3
SpareSlots == 1 .. 4
=============================================================================
