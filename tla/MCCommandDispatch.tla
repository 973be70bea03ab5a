------------------------ MODULE MCCommandDispatch ------------------------
(* TLC instance of CommandDispatch: one command, of any kind.              *)
EXTENDS CommandDispatch

CONSTANTS c1

One == {c1}
=============================================================================
