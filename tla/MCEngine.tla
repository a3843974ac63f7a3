----------------------------- MODULE MCEngine -----------------------------
(* Engine on small sets, for TLC.                                          *)
EXTENDS Engine, TLC

CONSTANTS k1, k2
MCKeys == {k1, k2}
=============================================================================
