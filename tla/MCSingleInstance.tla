-------------------------- MODULE MCSingleInstance --------------------------
(***************************************************************************)
(* Two small worlds for TLC.                                               *)
(* - Rivals: three processes with one request each, enough for a crashed   *)
(*   or released owner and two processes that race to succeed it.          *)
(* - Repeat: two processes, the first of which may ask twice, so that a    *)
(*   primary meets its own listener and a released process asks again.     *)
(***************************************************************************)
EXTENDS SingleInstance

CONSTANTS p1, p2, p3, c1, c1again, c2, c3

RivalProc  == {p1, p2, p3}
RivalCall  == {c1, c2, c3}
RivalOwner == [c \in RivalCall |-> CASE c = c1 -> p1 [] c = c2 -> p2 [] OTHER -> p3]

RepeatProc  == {p1, p2}
RepeatCall  == {c1, c1again, c2}
RepeatOwner == [c \in RepeatCall |-> IF c = c2 THEN p2 ELSE p1]

=============================================================================
