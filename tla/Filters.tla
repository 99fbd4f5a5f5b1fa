------------------------------- MODULE Filters -------------------------------
(***************************************************************************)
(* What retain and filter leave of a list: the items of s that are in K,   *)
(* in their order.  SelectSeq says the same, but its definition recurs,    *)
(* and nothing could be proved of it.                                      *)
(***************************************************************************)
EXTENDS SequencesExt

ItemsIn(s, K) ==
    FoldLeft(LAMBDA kept, o : IF o \in K THEN Append(kept, o) ELSE kept, <<>>, s)

=============================================================================
