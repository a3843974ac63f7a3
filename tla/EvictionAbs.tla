---------------------------- MODULE EvictionAbs ----------------------------
(***************************************************************************)
(* What the store owes to evict(): a Put into a full store first loses as  *)
(* many keys as the strategy says, and one step is all anybody sees of it. *)
(***************************************************************************)
EXTENDS Integers, FiniteSets

CONSTANTS Keys, KeysLimit, Quota

VARIABLE present

Init == present = {}

(* The sets of keys an eviction may remove.                                *)
Victims == {V \in SUBSET present :
               Cardinality(V) = IF Quota < Cardinality(present) THEN Quota
                                                                ELSE Cardinality(present)}

Put(k) ==
    IF Cardinality(present) < KeysLimit
    THEN present' = present \cup {k}
    ELSE \E V \in Victims : present' = (present \ V) \cup {k}

Del(k) == present' = present \ {k}

Next == \E k \in Keys : Put(k) \/ Del(k)

Spec == Init /\ [][Next]_present
=============================================================================
