------------------------------- MODULE MCAof -------------------------------
(* Aof on small sets, for TLC: a key of one word and one of two, and a     *)
(* value of each kind and of each kind of string.                          *)
EXTENDS Aof

MCStrings ==
    {<<w>> : w \in {"", "a", "v", "EX", "-2", "-1", "0", "1", "01",
                    "SET", "HSET", "RPUSH", "SADD"}}
    \cup {<<"a", "v">>, <<"EX", "1">>, <<"v", "EX", "1">>}
NumberOf == [w \in {<<"-2">>, <<"-1">>, <<"0">>, <<"1">>, <<"01">>} |->
    CASE w = <<"-2">> -> -2 [] w = <<"-1">> -> -1 [] w = <<"0">> -> 0 [] OTHER -> 1]
MCParse == [s \in MCStrings |-> IF s \in DOMAIN NumberOf THEN NumberOf[s] ELSE NotInt]
MCDecimal == [n \in -2..1 |-> CHOOSE s \in DOMAIN NumberOf \ {<<"01">>} : NumberOf[s] = n]
MCEmptyString == <<"">>

MCKeys == {<<"a">>, <<"a", "v">>}
Of(t, v) == [type |-> t, val |-> v]
MCValues ==
    {Of("string", <<"v">>), Of("string", <<"">>),
     Of("string", <<"EX", "1">>), Of("string", <<"v", "EX", "1">>),
     Of("hash", [f \in {<<"v">>, <<"a", "v">>} |-> IF f = <<"v">> THEN <<"1">> ELSE <<"">>]),
     Of("list", << <<"a", "v">>, <<"v">> >>),
     Of("set", IntSet(<<0, 1>>)), Of("set", Hashed({<<"01">>, <<"v">>})),
     Of("zset", 0)}
=============================================================================
