---------------------------- MODULE MCPushEvents ---------------------------
(* TLC instances of PushEvents.                                             *)
EXTENDS PushEvents, TLC

CONSTANTS s1

OneSlot   == {s1}
OneTitle  == {1}
TwoTitles == {1, 2}
None      == {}
Both      == {"mqtt", "igw"}

\* The type, the date and the acknowledgement each come before and after each of
\* the others.
SomeOrders == {
  <<"text", "date", "acknowledged", "type">>, <<"acknowledged", "type", "date", "text">>,
  <<"type", "text", "acknowledged", "date">>}

Whole == {[i \in DOMAIN o |-> <<s1, o[i]>>] : o \in SomeOrders}
SlotTellings ==
  {SelectSeq(o, LAMBDA t : t \in part) :
     o \in Whole, part \in SUBSET ({s1} \X {"text", "date", "acknowledged", "type"})}
=============================================================================
