---------------------------- MODULE MCRadixSort -----------------------------
(***************************************************************************)
(* Model checking of RadixSort: every distribution of a few features over   *)
(* two readers and over indices that differ in the first, a middle and the  *)
(* last bit, or not at all.                                                 *)
(***************************************************************************)
EXTENDS RadixSort

Some == {0, 1, 9}
Indexed(n, indices) == [1 .. n -> indices]
Sorted(n, S, index) ==
    LET seqs == SetToSortSeq(S, <)
    IN [k \in DOMAIN seqs |-> [ix |-> index[seqs[k]], seq |-> seqs[k]]]

\* A reader has its features in the order of the input.
TwoReaders(n, indices) ==
    {<<Sorted(n, S, index), Sorted(n, 1 .. n \ S, index)>> :
        S \in SUBSET (1 .. n), index \in Indexed(n, indices)}

Two(n) == TwoReaders(n, Some)
Four == Two(4)
Few == {8, 13, 16, 19}
=============================================================================
