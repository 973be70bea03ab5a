------------------------ MODULE MCNotificationTabs ------------------------
(* TLC instances of NotificationTabs: two windows, three ports, and pushes of *)
(* two events, the first of them sent twice, to a store that keeps one claim. *)
EXTENDS NotificationTabs, TLC

CONSTANTS a, b, e1, e2, d1, d2, d3

TwoWindows  == {a, b}
Ports       == 1 .. 3
TwoEvents   == {e1, e2}
ThreePushes == {d1, d2, d3}
Carried     == [d \in ThreePushes |-> IF d = d3 THEN e2 ELSE e1]

Load(windows, pushes, choices, visits, faults) ==
  [windows |-> windows, pushes |-> pushes, choices |-> choices, visits |-> visits, faults |-> faults]

\* Two choices in two windows; one, with a window that goes and a fault, or windows that
\* come and go; three in one window with a fault; a push among the choices of a window, and pushes that fail
\* while no window is open.
EachHazard == {Load({a, b}, {},          2, 0, 0),
               Load({a},    {d1},        1, 0, 1),
               Load({a, b}, {},          1, 1, 1),
               Load({a},    {},          1, 2, 0),
               Load({a},    {},          3, 0, 1),
               Load({a},    {d1},        2, 0, 0),
               Load({},     ThreePushes, 0, 0, 1)}
=============================================================================
