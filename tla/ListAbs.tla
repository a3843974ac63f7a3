------------------------------ MODULE ListAbs ------------------------------
(***************************************************************************)
(* What the list commands promise: a key with no list, or a list, which is *)
(* a sequence that is not empty.  The commands that push many values push  *)
(* them one by one, and tell the length in the end.                        *)
(***************************************************************************)
EXTENDS Slices

CONSTANTS Vals, Nil, NoAnswer

VARIABLES
    list,    \* <<>> if there is none
    doing,   \* the command with many values that is running, or "none"
    answer   \* what the last command answered, if it is over

Begun(op) == doing \in {"none", op} /\ doing' = op /\ answer' = NoAnswer
Ended(op) ==
    /\ doing = op /\ doing' = "none"
    /\ answer' = <<op, Len(list)>> /\ UNCHANGED list
Said(op, val) == doing = "none" /\ answer' = <<op, val>> /\ UNCHANGED doing

Init == list = <<>> /\ doing = "none" /\ answer = NoAnswer

(* DEL, SET, expiry and eviction.                                          *)
Drop == doing = "none" /\ list' = <<>> /\ answer' = NoAnswer /\ UNCHANGED doing

LPush(v) == Begun("lpush") /\ list' = <<v>> \o list
RPush(v) == Begun("rpush") /\ list' = Append(list, v)

LPop ==
    \/ list = <<>> /\ Said("lpop", Nil) /\ UNCHANGED list
    \/ list # <<>> /\ Said("lpop", Head(list)) /\ list' = Tail(list)
RPop ==
    \/ list = <<>> /\ Said("rpop", Nil) /\ UNCHANGED list
    \/ list # <<>> /\ Said("rpop", Last(list)) /\ list' = Front(list)
LLen == Said("llen", Len(list)) /\ UNCHANGED list

Next ==
    \/ Drop
    \/ \E v \in Vals : LPush(v) \/ RPush(v)
    \/ Ended("lpush") \/ Ended("rpush")
    \/ LPop \/ RPop \/ LLen

Spec == Init /\ [][Next]_<<list, doing, answer>>
=============================================================================
