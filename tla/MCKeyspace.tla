---------------------------- MODULE MCKeyspace ----------------------------
(* Keyspace on small sets, for TLC.                                        *)
EXTENDS Keyspace, TLC

CONSTANTS k1, k2, k3, o1, o2, o3, o4, v1, v2

MCKeys == {k1, k2, k3}
MCObjs == {o1, o2, o3, o4}
MCVals == {v1, v2}
MCTimes == {1, 2}
MCDurs == {-1, 1}

(* Keys, objects and values are interchangeable: every action quantifies over all  *)
(* of them and no constant singles one out.                                *)
Symmetry == Permutations(MCKeys) \cup Permutations(MCObjs)
            \cup Permutations(MCVals)
=============================================================================
