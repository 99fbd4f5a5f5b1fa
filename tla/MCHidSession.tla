---------------------------- MODULE MCHidSession ----------------------------
(* Instances of HidSession for TLC: two openings of one device, so that a    *)
(* device id is reused, and transfers on them.                               *)
EXTENDS HidSession

CONSTANTS o1, o2, t1, t2, d1

OneDevice == [o \in Open |-> d1]

\* The first transfer is made on the first opening, the second on the second.
OneEach == [t \in Transfer |-> IF t = t1 THEN o1 ELSE o2]

\* Both transfers are made on the first opening.
BothOnFirst == [t \in Transfer |-> o1]

=============================================================================
