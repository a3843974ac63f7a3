----------------------------- MODULE MCPubSub -----------------------------
(* PubSub on small sets, for TLC.                                          *)
EXTENDS PubSub, TLC

CONSTANTS p1, p2, p3, f1, f2, a, b

MCClients == {p1, p2, p3}
MCFds == {f1, f2}
MCChannels == {a, b}

(* No constant singles out a client, a descriptor or a channel.            *)
Symmetry == Permutations(MCClients) \cup Permutations(MCFds) \cup Permutations(MCChannels)
=============================================================================
