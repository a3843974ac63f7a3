------------------------------ MODULE HashAbs ------------------------------
(***************************************************************************)
(* What the hash commands promise: a key with no hash, or a map from       *)
(* fields to values, which is not empty.  The commands that take many      *)
(* fields do them one by one, and count those that changed in the end.     *)
(***************************************************************************)
EXTENDS Data, FiniteSets

CONSTANT Fields

VARIABLES
    map,     \* empty if there is none
    doing,   \* the command with many fields, and the fields before it
    answer   \* what the last command answered, if it is over

EmptyMap == [f \in {} |-> Nil]
Nothing == [op |-> "none", before |-> {}]

With(f, v) == [g \in DOMAIN map \cup {f} |-> IF g = f THEN v ELSE map[g]]
Value(f) == IF f \in DOMAIN map THEN map[f] ELSE Nil
Idle == doing = Nothing

Begun(op) ==
    /\ doing \in {Nothing, [op |-> op, before |-> doing.before]}
    /\ doing' = [op |-> op, before |-> IF Idle THEN DOMAIN map ELSE doing.before]
    /\ answer' = NoAnswer
Ended(op, fields) ==
    /\ doing.op = op /\ doing' = Nothing
    /\ answer' = <<op, Cardinality(fields)>>
    /\ UNCHANGED map
Said(op, val) == Idle /\ answer' = <<op, val>> /\ UNCHANGED <<map, doing>>

Init == map = EmptyMap /\ doing = Nothing /\ answer = NoAnswer

HSet(f, v) == Begun("hset") /\ map' = With(f, v)
HSetEnd == Ended("hset", DOMAIN map \ doing.before)

HDel(f) == Begun("hdel") /\ map' = [g \in DOMAIN map \ {f} |-> map[g]]
HDelEnd == Ended("hdel", doing.before \ DOMAIN map)

HSetNX(f, v) ==
    /\ Idle /\ UNCHANGED doing
    /\ IF f \in DOMAIN map THEN UNCHANGED map ELSE map' = With(f, v)
    /\ answer' = <<"hsetnx", IF f \in DOMAIN map THEN 0 ELSE 1>>

HIncrBy(f, d) ==
    /\ Idle /\ UNCHANGED doing
    /\ IF f \in DOMAIN map /\ ~IsInt(map[f])
       THEN answer' = <<"hincrby", Err>> /\ UNCHANGED map
       ELSE LET n == Wrap((IF f \in DOMAIN map THEN Parse[map[f]] ELSE 0) + d) IN
            map' = With(f, Decimal[n]) /\ answer' = <<"hincrby", n>>

(* An answer comes with the question.                                      *)
Read ==
    \/ \E f \in Fields : Said("hget", <<f, Value(f)>>) \/ Said("hexists", <<f, f \in DOMAIN map>>)
    \/ Said("hlen", Cardinality(DOMAIN map))
    \/ Said("hgetall", {<<f, map[f]>> : f \in DOMAIN map})

(* HDEL finds no hash.                                                     *)
HDelNothing == map = EmptyMap /\ Said("hdel", 0)

(* DEL, SET, expiry and eviction.                                          *)
Drop == Idle /\ map' = EmptyMap /\ answer' = NoAnswer /\ UNCHANGED doing

Next ==
    \/ Drop
    \/ \E f \in Fields, v \in Strings : HSet(f, v) \/ HSetNX(f, v)
    \/ \E f \in Fields : HDel(f) \/ \E d \in Numbers : HIncrBy(f, d)
    \/ HSetEnd \/ HDelEnd \/ HDelNothing \/ Read

Spec == Init /\ [][Next]_<<map, doing, answer>>
=============================================================================
