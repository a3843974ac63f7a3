--------------------------- MODULE MCLruEviction ---------------------------
(* LruEviction on small sets, for TLC.                                     *)
EXTENDS LruEviction, TLC

CONSTANTS k1, k2, k3, k4
MCKeys == {k1, k2, k3, k4}
=============================================================================
