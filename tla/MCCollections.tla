--------------------------- MODULE MCCollections ---------------------------
(* Collections on small sets, for TLC.  Numbers are -2, -1, 0 and 1, and   *)
(* each is spelled as in decimal, 1 also as "01"; txt is no number.  The   *)
(* string that is too long for a ziplist is the one sums wrap to.          *)
EXTENDS Collections

CONSTANTS m2, m1, s0, s1, z1, txt
MCStrings == {m2, m1, s0, s1, z1, txt}
MCParse == m2 :> (-2) @@ m1 :> (-1) @@ s0 :> 0 @@ s1 :> 1 @@ z1 :> 1 @@ txt :> NotInt
MCDecimal == (-2) :> m2 @@ (-1) :> m1 @@ 0 :> s0 @@ 1 :> s1
MCFields == {s0, s1, txt}
MCLong == {m2}
MCVals == {s0, txt}
MCMembers == 0..2
MCScores == {1, 2}
=============================================================================
