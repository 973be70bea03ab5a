----------------------------- MODULE MCBanners -----------------------------
(* TLC instances of Banners.                                                *)
EXTENDS Banners, TLC

CONSTANTS s1, a1, n1

OneSlot   == {s1}
OneRaw    == {a1}
OneNotice == {n1}
OneTitle  == {1}
Both      == {"mqtt", "igw"}

\* Each field of the slot comes first in some order and last in another, and the
\* date before and after each of the others.
SomeOrders == {
  <<"text", "date", "active", "acknowledged">>, <<"date", "acknowledged", "text", "active">>,
  <<"acknowledged", "active", "date", "text">>, <<"active", "text", "acknowledged", "date">>}

\* these orders of the fields of s1, the alarm last, and every part of them
Whole == {[i \in DOMAIN o |-> <<s1, o[i]>>] \o << <<a1, "active">> >> : o \in SomeOrders}
SlotTellings ==
  {SelectSeq(o, LAMBDA t : t \in part) : o \in Whole,
     part \in SUBSET (({s1} \X {"text", "date", "active", "acknowledged"}) \union {<<a1, "active">>})}
=============================================================================
