------------------------- MODULE MCBrowserAcceptance -------------------------
(* The acceptance with three sockets at a time.  Init leaves open how patient the run is:  *)
(* slow = 0 lets no timer run out; otherwise MaxSlow timers of the page may.               *)
EXTENDS BrowserAcceptance

MCSocket == 1 .. 3
=============================================================================
