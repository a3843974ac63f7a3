----------------------------- MODULE Collections -----------------------------
(***************************************************************************)
(* One key and the commands of every type (core/eval*.go).  Each type's    *)
(* module knows the values of its own type: the key has at most one value, *)
(* commands of other types are refused (assertType) and change nothing,    *)
(* DEL and expiry take away a value of any type, SET overwrites one, and   *)
(* each command of a collection begins on what the one before it left.     *)
(*                                                                         *)
(* Keys share nothing here; what they share is in module Keyspace.         *)
(***************************************************************************)
EXTENDS Str, Hash, Sets, ZSet, QuickList

vars == <<strVars, hashVars, setVars, zsetVars, listVars>>

Absent(type) ==
    CASE type = "string" -> str = NoStr
      [] type = "hash" -> hash = NoHash
      [] type = "set" -> set = NoSet
      [] type = "zset" -> ~zset.bound
      [] type = "list" -> ~ql.bound

Types == {"string", "hash", "set", "zset", "list"}

(* assertType: the key is missing, or has this type.                       *)
Allows(type) == \A t \in Types \ {type} : Absent(t)

(* What the other types' values are after a command, their answers being   *)
(* forgotten: nothing.                                                     *)
NoneOf(types) ==
    /\ "string" \in types => StrDropped
    /\ "hash" \in types => HashDropped
    /\ "set" \in types => SetDropped
    /\ "zset" \in types => ZSetDropped
    /\ "list" \in types => ListDropped

Init == StrInit /\ HashInit /\ SetInit /\ ZSetInit /\ ListInit

StrCommand == Allows("string") /\ StrNext /\ NoneOf(Types \ {"string"})
HashCommand == Allows("hash") /\ HashNext /\ NoneOf(Types \ {"hash"})
SetCommand == Allows("set") /\ SetNext /\ NoneOf(Types \ {"set"})
ZSetCommand == Allows("zset") /\ ZSetNext /\ NoneOf(Types \ {"zset"})
ListCommand == Allows("list") /\ ListNext /\ NoneOf(Types \ {"list"})

(* Fault: SET leaves what it overwrites.                                   *)
OverwriteBeside ==
    \E v \in Strings : Set(v) /\ UNCHANGED <<hashVars, setVars, zsetVars, listVars>>

(* SET asks for no type.                                                   *)
Overwrite == \E v \in Strings : Set(v) /\ NoneOf(Types \ {"string"})

Next ==
    \/ StrCommand \/ HashCommand \/ SetCommand \/ ZSetCommand \/ ListCommand
    \/ Overwrite

Spec == Init /\ [][Next]_vars
-----------------------------------------------------------------------------
(* The key has at most one value.                                          *)
OneValue == \A t, u \in Types : t = u \/ Absent(t) \/ Absent(u)

TypeOK == StrTypeOK /\ HashTypeOK /\ SetTypeOK /\ ZSetTypeOK /\ ListTypeOK /\ OneValue

(* Between two commands, every value is what the commands to come take it  *)
(* for: a string's tag tells whether it is a number, a ziplist is within   *)
(* its limits, an intset is sorted and within its own, and no hash or set  *)
(* is empty (eval.go:76, eval_hash.go:43-65, 209-222, eval_set.go:72-76,   *)
(* 148-158, intset.go:51-72).                                              *)
ValuesSettled == TagTold /\ HashSettled /\ NoEmptyHash /\ IntSetSorted /\ NoEmptySet
=============================================================================
