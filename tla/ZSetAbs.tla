------------------------------ MODULE ZSetAbs ------------------------------
(***************************************************************************)
(* What the sorted set commands promise: a key with no sorted set, or a    *)
(* map from members to scores, ordered by score and then by member.  Once  *)
(* a score was NaN there is no order, until the set is gone.               *)
(***************************************************************************)
EXTENDS Data, Slices

CONSTANTS ZMembers, Scores, NaN, Ranks

VARIABLES
    bound,   \* there is a sorted set
    dict,    \* its scores
    ordered, \* none of them has been NaN
    doing,   \* the command with many members, and the members before it
    answer   \* what the last command answered, if it is over

EmptyDict == [m \in {} |-> Nil]
Nothing == [op |-> "none", before |-> {}]
Idle == doing = Nothing
Members == DOMAIN dict

Precedes(m, n) == dict[m] < dict[n] \/ (dict[m] = dict[n] /\ m < n)
Rank(m) == Cardinality({n \in Members : Precedes(n, m)})
InOrder == [i \in 1..Cardinality(Members) |-> CHOOSE m \in Members : Rank(m) = i - 1]

Begun(op) ==
    /\ doing \in {Nothing, [op |-> op, before |-> doing.before]}
    /\ doing' = [op |-> op, before |-> IF Idle THEN Members ELSE doing.before]
    /\ answer' = NoAnswer
Ended(op, val) == doing.op = op /\ doing' = Nothing /\ answer' = <<op, val>>
Said(op, val) == Idle /\ answer' = <<op, val>> /\ UNCHANGED <<bound, dict, ordered, doing>>

Init == bound = FALSE /\ dict = EmptyDict /\ ordered = TRUE /\ doing = Nothing
        /\ answer = NoAnswer

ZAdd(s, m) ==
    /\ Begun("zadd") /\ bound' = TRUE /\ ordered' = (ordered /\ s # NaN)
    /\ dict' = [n \in Members \cup {m} |-> IF n = m THEN s ELSE dict[n]]
ZAddEnd == Ended("zadd", Cardinality(Members \ doing.before)) /\ UNCHANGED <<bound, dict, ordered>>

(* A score that is none: the command stops, and keeps what it has done.    *)
ZAddBad ==
    /\ Idle \/ doing.op = "zadd"
    /\ doing' = Nothing /\ answer' = <<"zadd", Err>>
    /\ bound' = TRUE /\ UNCHANGED <<dict, ordered>>

ZRem(m) ==
    /\ bound /\ Begun("zrem") /\ UNCHANGED <<bound, ordered>>
    /\ dict' = [n \in Members \ {m} |-> dict[n]]
ZRemEnd ==
    /\ Ended("zrem", Cardinality(doing.before \ Members)) /\ UNCHANGED dict
    /\ bound' = (Members # {}) /\ ordered' = (ordered \/ Members = {})
ZRemNothing == ~bound /\ Said("zrem", 0)

(* An answer comes with the question; that of ZRANGE is for all questions. *)
(* The empty member may be told that it has no rank.                       *)
Read ==
    \/ \E m \in ZMembers : Said("zscore", <<m, IF m \in Members THEN dict[m] ELSE Nil>>)
    \/ Said("zcard", Cardinality(Members))
    \/ ordered /\ \E m \in ZMembers :
        Said("zrank", <<m, IF m \in Members THEN Rank(m) ELSE Nil>>)
    \/ ordered /\ Said("zrank", <<0, Nil>>) /\ 0 \in Members
    \/ ordered /\ Said("zrange", [r \in Ranks \X Ranks |-> Slice(InOrder, r[1], r[2])])
    \/ ~ordered /\ \E op \in {"zrank", "zrange"} : Said(op, answer'[2])

Drop ==
    /\ Idle /\ bound' = FALSE /\ dict' = EmptyDict /\ ordered' = TRUE /\ answer' = NoAnswer
    /\ UNCHANGED doing

Next ==
    \/ Drop
    \/ \E m \in ZMembers : ZRem(m) \/ \E s \in Scores \cup {NaN} : ZAdd(s, m)
    \/ ZAddEnd \/ ZAddBad \/ ZRemEnd \/ ZRemNothing \/ Read

Spec == Init /\ [][Next]_<<bound, dict, ordered, doing, answer>>
=============================================================================
