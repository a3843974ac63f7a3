------------------------------- MODULE Slices -------------------------------
(* The places of a sequence, as clients count them: from 0 on the left and *)
(* from -1 on the right.                                                   *)
EXTENDS Integers, SequencesExt

Place(p, n) == IF p < 0 THEN n + p ELSE p

(* The values at the places from first to final, of those there are.       *)
Slice(s, first, final) ==
    LET n == Len(s)
        S == {i \in 0..(n - 1) : Place(first, n) <= i /\ i <= Place(final, n)} IN
    [j \in 1..Cardinality(S) |-> s[Min(S) + j]]
=============================================================================
