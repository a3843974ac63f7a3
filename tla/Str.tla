-------------------------------- MODULE Str --------------------------------
(***************************************************************************)
(* The string commands of one key (core/eval.go).  The value is a string;  *)
(* the tag beside it says whether ParseInt takes it for a number, and INCR *)
(* and its kin trust the tag and ignore the error of ParseInt.             *)
(***************************************************************************)
EXTENDS Data

VARIABLES
    str,     \* the value of the key, and its tag
    strsaid  \* what the last command answered

strVars == <<str, strsaid>>

NoStr == [enc |-> "none", val |-> Nil]

(* deduceTypeEncoding; EMBSTR and RAW differ in nothing but their names.   *)
Tagged(v) == [enc |-> IF IsInt(v) THEN "int" ELSE "text", val |-> v]

StrInit == str = NoStr /\ strsaid = NoAnswer

(* SET, and MSET for one of its keys.                                      *)
Set(v) == str' = Tagged(v) /\ strsaid' = <<"set", "OK">>

(* INCRBY with d, and DECRBY with -d: a key that is missing is 0.  INCR    *)
(* and DECR take 1.                                                        *)
Shift(d) ==
    LET s == IF str = NoStr THEN [enc |-> "int", val |-> Decimal[0]] ELSE str
        n == Wrap((IF IsInt(s.val) THEN Parse[s.val] ELSE 0) + d) IN
    IF s.enc # "int" THEN strsaid' = <<"incrby", Err>> /\ str' = s
    ELSE str' = [s EXCEPT !.val = Decimal[n]] /\ strsaid' = <<"incrby", n>>

IncrBy(d) == Shift(d)
DecrBy(d) == Shift(-d)

GetStr == strsaid' = <<"get", str.val>> /\ UNCHANGED str

(* The key is deleted, overwritten, expired or evicted.                    *)
StrDropped == str' = NoStr /\ strsaid' = NoAnswer

StrNext ==
    \/ \E v \in Strings : Set(v)
    \/ \E d \in Numbers : IncrBy(d) \/ DecrBy(d)
    \/ GetStr \/ StrDropped

StrSpec == StrInit /\ [][StrNext]_strVars
-----------------------------------------------------------------------------
StrTypeOK == str = NoStr \/ str \in [enc : {"int", "text"}, val : Strings]

(* The tag tells the truth, so that no counter silently starts again at 0  *)
(* (eval.go:76, type_string.go:8-17).                                      *)
TagTold == str # NoStr => (str.enc = "int" <=> IsInt(str.val))
=============================================================================
