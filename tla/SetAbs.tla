------------------------------- MODULE SetAbs -------------------------------
(***************************************************************************)
(* What the set commands promise: a key with no set, or a set of strings,  *)
(* which is not empty.  A member that spells an integer may be taken for   *)
(* that integer in decimal (see Spellings): any one of the two is added,   *)
(* removed or looked for.  Members in decimal, and those that are no       *)
(* integers, are taken as they are.                                        *)
(***************************************************************************)
EXTENDS Data, FiniteSets

VARIABLES
    members,  \* empty if there is none
    doing,    \* the command with many members, and the set before it
    answer    \* what the last command answered, if it is over

Nothing == [op |-> "none", before |-> {}]
Idle == doing = Nothing

Begun(op) ==
    /\ doing \in {Nothing, [op |-> op, before |-> doing.before]}
    /\ doing' = [op |-> op, before |-> IF Idle THEN members ELSE doing.before]
    /\ answer' = NoAnswer
Ended(op, changed) ==
    /\ doing.op = op /\ doing' = Nothing
    /\ answer' = <<op, Cardinality(changed)>>
    /\ UNCHANGED members
Said(op, val) == Idle /\ answer' = <<op, val>> /\ UNCHANGED <<members, doing>>

Init == members = {} /\ doing = Nothing /\ answer = NoAnswer

SAdd(m) == Begun("sadd") /\ \E s \in Spellings(m) : members' = members \cup {s}
SAddEnd == Ended("sadd", members \ doing.before)

SRem(m) == Begun("srem") /\ \E s \in Spellings(m) : members' = members \ {s}
SRemEnd == Ended("srem", doing.before \ members)
SRemNothing == members = {} /\ Said("srem", 0)

(* An answer comes with the question.                                      *)
Read ==
    \/ \E m \in Strings : \E s \in Spellings(m) : Said("sismember", <<m, s \in members>>)
    \/ Said("scard", Cardinality(members))
    \/ Said("smembers", members)

(* With the members T of another set, or of none; T is in the answer.      *)
Combine ==
    \E T \in SUBSET Strings :
        Said("sinter", <<T, members \cap T>>) \/ Said("sunion", <<T, members \cup T>>)

Drop == Idle /\ members' = {} /\ answer' = NoAnswer /\ UNCHANGED doing

Next ==
    \/ Drop
    \/ \E m \in Strings : SAdd(m) \/ SRem(m)
    \/ SAddEnd \/ SRemEnd \/ SRemNothing \/ Read \/ Combine

Spec == Init /\ [][Next]_<<members, doing, answer>>
=============================================================================
