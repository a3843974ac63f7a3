------------------------------- MODULE MCTxn -------------------------------
(* Txn on small sets, for TLC.                                             *)
EXTENDS Txn, TLC

CONSTANTS c1, c2, o1, o2, o3, set

MCClients == {c1, c2}
MCObjs == {o1, o2, o3}
MCPlain == {set}

(* No constant singles out a client or an object.                         *)
Symmetry == Permutations(MCClients) \cup Permutations(MCObjs)
=============================================================================
