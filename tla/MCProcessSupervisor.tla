------------------------ MODULE MCProcessSupervisor ------------------------
(* Instances of ProcessSupervisor for TLC.                                   *)
EXTENDS ProcessSupervisor

CONSTANTS s1, s2, w1, w2

\* Every write is made to the first child.
ToFirst == [w \in Write |-> s1]

\* The first child writes two chunks or one, and the second nothing.
TwoChunks == [s \in Spawn |-> IF s = s1 THEN 2 ELSE 0]
OneChunk  == [s \in Spawn |-> IF s = s1 THEN 1 ELSE 0]

=============================================================================
