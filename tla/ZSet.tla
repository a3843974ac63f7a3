-------------------------------- MODULE ZSet --------------------------------
(***************************************************************************)
(* The sorted set commands of one key (core/eval_zset.go), on a skip list  *)
(* (core/skiplist.go) and a map from members to scores, which every        *)
(* insertion and deletion updates both.                                    *)
(*                                                                         *)
(* Nodes have addresses: the header's is 0, and Null is Go's nil.  Levels  *)
(* are counted from 1.  A node that was unlinked is garbage and gone.  The *)
(* loops of ZADD and ZREM take one step per round.                         *)
(*                                                                         *)
(* A score may be NaN, which ParseFloat gives for "nan" without an error.  *)
(* It is less than no score and equal to none, itself included: the list   *)
(* has no order from then on and Delete does not find its node again.  The *)
(* map goes on; what is claimed of the list is claimed of the sets that    *)
(* have had no NaN.                                                        *)
(***************************************************************************)
EXTENDS Data, SequencesExt

CONSTANTS
    ZMembers,          \* member strings, as numbers in their order; 0 is ""
    Scores,            \* the numbers that ParseFloat gives, in order
    NaN,               \* and what it gives for "nan"
    SkipListMaxLevel,  \* 32 in the code
    MaxNodes           \* bound on the nodes of a list that has had a NaN

ASSUME ZSetAssumption ==
    /\ ZMembers \subseteq Nat /\ Scores \subseteq Int /\ NaN \notin Int
    /\ SkipListMaxLevel \in Nat \ {0}

Given == Scores \cup {NaN}

(* Go's < and == on scores.                                                *)
Lower(a, b) == a # NaN /\ b # NaN /\ a < b
Same(a, b) == a # NaN /\ a = b

VARIABLES
    zset,    \* the value of the key: the skip list's fields, and the dict
    zcmd,    \* the command whose loop is running, its rounds and its counter
    zsaid    \* what the last command answered, if it is over

zsetVars == <<zset, zcmd, zsaid>>

Header == 0
Null == -1
Levels == 1..SkipListMaxLevel

(* CreateSkipList: the header's member is the empty string.  real is       *)
(* history: every score was a number.                                      *)
NewZSet ==
    LET header(v) == [a \in {Header} |-> v] IN
    [bound |-> TRUE, real |-> TRUE, dict |-> [m \in {} |-> Nil],
     member |-> header(0), score |-> header(0), backward |-> header(Null),
     forward |-> header([i \in Levels |-> Null]), span |-> header([i \in Levels |-> 0]),
     tail |-> Null, length |-> 0, level |-> 1]
NoZSet == [NewZSet EXCEPT !.bound = FALSE]

Addresses(z) == DOMAIN z.member
NodesOf(z) == Addresses(z) \ {Header}
NewNode(z) == CHOOSE a \in 1..(z.length + 1) : a \notin Addresses(z)

(* before: history, the members when the command began.                    *)
ZSetIdle == [op |-> "none", n |-> 0, count |-> 0, before |-> {}]
-----------------------------------------------------------------------------
(* The searches, from the top level down.  A point is a node and how far   *)
(* it is from the header; on each level the walk goes on while the next    *)
(* point is in G.                                                          *)
Onward(z, i, G, p) ==
    LET next == <<z.forward[p[1]][i], p[2] + z.span[p[1]][i]>> IN
    IF next \in G THEN next ELSE p

Along(z, i, from, G) ==
    LET at[n \in 0..z.length] == IF n = 0 THEN from ELSE Onward(z, i, G, at[n - 1]) IN
    at[z.length]

Descent(z, G) ==
    LET at[i \in 1..(z.level + 1)] ==
            IF i > z.level THEN <<Header, 0>> ELSE Along(z, i, at[i + 1], G) IN
    at

Less(z, y, s, m) == Lower(z.score[y], s) \/ (Same(z.score[y], s) /\ z.member[y] < m)

(* The last points before the place of a score and a member, which are the *)
(* code's update and rank: on the levels that are not in use, the header.  *)
Before(z, s, m) ==
    LET at == Descent(z, {y \in NodesOf(z) : Less(z, y, s, m)} \X Nat) IN
    [i \in Levels |-> IF i <= z.level THEN at[i] ELSE <<Header, 0>>]

(* Insert's links: x comes behind the points before it, on its levels.     *)
LinksWith(z, before, x, level) ==
    Extended([a \in Addresses(z) |-> [i \in DOMAIN z.forward[a] |->
                 IF i <= level /\ before[i][1] = a THEN x ELSE z.forward[a][i]]],
             x, [i \in 1..level |-> z.forward[before[i][1]][i]])

(* How far a point is behind the new node's place, and how long its link   *)
(* has been.                                                               *)
Gap(before, i) == before[1][2] - before[i][2]
Over(z, before, i) == IF i <= z.level THEN z.span[before[i][1]][i] ELSE z.length

(* Fault: the links above the new node do not grow.                        *)
SpansFlat(z, before, x, level) ==
    Extended([a \in Addresses(z) |-> [i \in DOMAIN z.span[a] |->
                 IF i <= level /\ before[i][1] = a THEN Gap(before, i) + 1 ELSE z.span[a][i]]],
             x, [i \in 1..level |-> Over(z, before, i) - Gap(before, i)])

SpansWith(z, before, x, level) ==
    Extended([a \in Addresses(z) |-> [i \in DOMAIN z.span[a] |->
                 IF before[i][1] # a THEN z.span[a][i]
                 ELSE IF i <= level THEN Gap(before, i) + 1
                 ELSE IF i <= z.level THEN z.span[a][i] + 1 ELSE z.span[a][i]]],
             x, [i \in 1..level |-> Over(z, before, i) - Gap(before, i)])

(* Insert, of a node with the given height.                                *)
Insert(z, s, m, level) ==
    LET before == Before(z, s, m)
        prior == before[1][1]
        after == z.forward[prior][1]
        x == NewNode(z) IN
    [bound |-> z.bound, real |-> z.real /\ s # NaN, dict |-> z.dict,
     member |-> Extended(z.member, x, m), score |-> Extended(z.score, x, s),
     backward |-> Extended([a \in Addresses(z) |-> IF a = after THEN x ELSE z.backward[a]],
                           x, IF prior = Header THEN Null ELSE prior),
     forward |-> LinksWith(z, before, x, level), span |-> SpansWith(z, before, x, level),
     tail |-> IF after = Null THEN x ELSE z.tail, length |-> z.length + 1,
     level |-> IF level > z.level THEN level ELSE z.level]

(* deleteNode: x is linked over on its levels, and those above shrink.     *)
LinksWithout(z, before, x) ==
    [a \in Addresses(z) \ {x} |-> [i \in DOMAIN z.forward[a] |->
        IF i <= z.level /\ before[i][1] = a /\ z.forward[a][i] = x
        THEN z.forward[x][i] ELSE z.forward[a][i]]]

SpansWithout(z, before, x) ==
    [a \in Addresses(z) \ {x} |-> [i \in DOMAIN z.span[a] |->
        IF i > z.level \/ before[i][1] # a THEN z.span[a][i]
        ELSE IF z.forward[a][i] = x THEN z.span[a][i] + z.span[x][i] - 1 ELSE z.span[a][i] - 1]]

DeleteNode(z, x, before) ==
    LET rest == Addresses(z) \ {x}
        after == z.forward[x][1]
        forward == LinksWithout(z, before, x) IN
    [bound |-> z.bound, real |-> z.real, dict |-> z.dict,
     member |-> [a \in rest |-> z.member[a]], score |-> [a \in rest |-> z.score[a]],
     backward |-> [a \in rest |-> IF a = after THEN z.backward[x] ELSE z.backward[a]],
     forward |-> forward, span |-> SpansWithout(z, before, x),
     tail |-> IF after = Null THEN z.backward[x] ELSE z.tail, length |-> z.length - 1,
     level |-> Max({1} \cup {i \in 1..z.level : forward[Header][i] # Null})]

Delete(z, s, m) ==
    LET before == Before(z, s, m)
        x == z.forward[before[1][1]][1] IN
    IF x # Null /\ Same(z.score[x], s) /\ z.member[x] = m THEN DeleteNode(z, x, before) ELSE z

(* GetRank: the walk includes the node looked for, and stops at the first  *)
(* level that ends at its member; 0 if there is none.                      *)
GetRank(z, s, m) ==
    LET same(y) == Same(z.score[y], s) /\ z.member[y] = m
        at == Descent(z, {y \in NodesOf(z) : Less(z, y, s, m) \/ same(y)} \X Nat)
        S == {i \in 1..z.level : z.member[at[i][1]] = m} IN
    IF S = {} THEN 0 ELSE at[Max(S)][2]

GetNodeByRank(z, rank) ==
    LET at == Descent(z, NodesOf(z) \X (0..rank))
        S == {i \in 1..z.level : at[i][2] = rank} IN
    IF rank = 0 \/ rank > z.length \/ S = {} THEN Null ELSE at[Max(S)][1]

(* The nodes from a on, along the lowest level.                            *)
Walk(z, a) ==
    LET at[i \in 0..z.length] ==
            IF i = 0 THEN a
            ELSE IF at[i - 1] = Null THEN Null ELSE z.forward[at[i - 1]][1] IN
    at

(* Fault: the stop is left out, as Go's slices do.                         *)
HalfOpen(start, stop) == stop - start

Count(start, stop) == stop - start + 1

(* Range, of indices that count from the end if they are negative.         *)
ZRange(z, first, final) ==
    LET from == IF first < 0 THEN z.length + first ELSE first
        to == IF final < 0 THEN z.length + final ELSE final
        start == IF from < 0 THEN 0 ELSE from
        stop == IF to >= z.length THEN z.length - 1 ELSE to
        at == Walk(z, GetNodeByRank(z, start + 1)) IN
    IF start > to \/ start >= z.length THEN <<>>
    ELSE [j \in 1..Count(start, stop) |-> z.member[at[j - 1]]]
-----------------------------------------------------------------------------
ZSetInit == zset = NoZSet /\ zcmd = ZSetIdle /\ zsaid = NoAnswer

ZRound(op, counts) ==
    /\ zcmd.op \in {"none", op} /\ zcmd.n < MaxArgs
    /\ zcmd' = [op |-> op, n |-> zcmd.n + 1,
                count |-> zcmd.count + (IF counts THEN 1 ELSE 0),
                before |-> IF zcmd.op = op THEN zcmd.before ELSE DOMAIN zset.dict]
    /\ zsaid' = NoAnswer

EndZRounds(op) ==
    /\ zcmd.op = op
    /\ zcmd' = ZSetIdle /\ zsaid' = <<op, zcmd.count>>

(* zsetGetOrCreate                                                         *)
ZSetCreated(z) == [z EXCEPT !.bound = TRUE]

(* A round of ZADD.  randomLevel may give any level up to the largest.     *)
ZAdd(s, m) ==
    LET z == ZSetCreated(zset) IN
    /\ ZRound("zadd", m \notin DOMAIN z.dict)
    /\ IF m \in DOMAIN z.dict /\ Same(z.dict[m], s) THEN zset' = z
       ELSE LET rest == IF m \in DOMAIN z.dict THEN Delete(z, z.dict[m], m) ELSE z IN
            \E level \in Levels :
                zset' = [Insert(rest, s, m, level) EXCEPT !.dict = Extended(@, m, s)]
    /\ zset'.real \/ zset'.length <= MaxNodes

(* The score is no float: an error at once, in the first round or later.   *)
ZAddBad ==
    /\ zcmd.op \in {"none", "zadd"} /\ zcmd.n < MaxArgs
    /\ zset' = ZSetCreated(zset)
    /\ zcmd' = ZSetIdle /\ zsaid' = <<"zadd", Err>>

ZAddEnd == EndZRounds("zadd") /\ UNCHANGED zset

ZRem(m) ==
    /\ zset.bound
    /\ ZRound("zrem", m \in DOMAIN zset.dict)
    /\ zset' = IF m \notin DOMAIN zset.dict THEN zset
               ELSE [Delete(zset, zset.dict[m], m) EXCEPT
                        !.dict = [n \in DOMAIN @ \ {m} |-> @[n]]]

ZRemEnd ==
    /\ EndZRounds("zrem")
    /\ zset' = IF zset.dict = NoZSet.dict THEN NoZSet ELSE zset

ZSetAnswer(op, val) ==
    /\ zcmd = ZSetIdle /\ zsaid' = <<op, val>>
    /\ UNCHANGED <<zset, zcmd>>

ZRemMissing == ~zset.bound /\ ZSetAnswer("zrem", 0)
ZScore(m) ==
    ZSetAnswer("zscore", <<m, IF m \in DOMAIN zset.dict THEN zset.dict[m] ELSE Nil>>)
ZCard == ZSetAnswer("zcard", Cardinality(DOMAIN zset.dict))

ZRank(m) ==
    LET rank == IF m \in DOMAIN zset.dict THEN GetRank(zset, zset.dict[m], m) ELSE 0 IN
    ZSetAnswer("zrank", <<m, IF rank = 0 THEN Nil ELSE rank - 1>>)

(* The indices worth asking for: all there are, and one beyond each end.   *)
(* All the ranges are asked for at once.                                   *)
Ranks == (-Cardinality(ZMembers) - 1)..Cardinality(ZMembers)
ZRanges ==
    ZSetAnswer("zrange", [r \in Ranks \X Ranks |-> ZRange(zset, r[1], r[2])])

(* The key is deleted, overwritten, expired or evicted.                    *)
ZSetDropped == zcmd = ZSetIdle /\ zset' = NoZSet /\ zsaid' = NoAnswer /\ UNCHANGED zcmd

ZSetNext ==
    \/ \E s \in Given, m \in ZMembers : ZAdd(s, m)
    \/ \E m \in ZMembers : ZRem(m) \/ ZScore(m) \/ ZRank(m)
    \/ ZAddBad \/ ZAddEnd \/ ZRemEnd \/ ZRemMissing \/ ZRanges \/ ZCard \/ ZSetDropped

ZSetSpec == ZSetInit /\ [][ZSetNext]_zsetVars
-----------------------------------------------------------------------------
Height(z, a) == Len(z.forward[a])
ZSetTypeOK ==
    /\ zset.bound \in BOOLEAN /\ zset.real \in BOOLEAN /\ zset.level \in Levels /\ zset.length \in Nat
    /\ zset.dict \in UNION {[D -> Given] : D \in SUBSET ZMembers}
    /\ zset.member \in [Addresses(zset) -> ZMembers \cup {0}]
    /\ zset.score \in [Addresses(zset) -> Given \cup {0}]
    /\ zset.tail \in NodesOf(zset) \cup {Null}
    /\ \A a \in Addresses(zset) :
        /\ Height(zset, a) \in Levels /\ Len(zset.span[a]) = Height(zset, a)
        /\ zset.forward[a] \in Seq(NodesOf(zset) \cup {Null}) /\ zset.span[a] \in Seq(Nat)
        /\ zset.backward[a] \in NodesOf(zset) \cup {Null}
    /\ zcmd \in [op : {"none", "zadd", "zrem"}, n : 0..MaxArgs, count : 0..MaxArgs,
                 before : SUBSET ZMembers]

(* As long as no score has been NaN, the skip list and the map agree: they *)
(* have the same members with the same scores; on every level, a node      *)
(* leads to the next one that is high enough, in the order of scores and   *)
(* members, and its span is the distance, or that to the end; the lowest   *)
(* level can be walked backwards, and the list is as high as its highest   *)
(* node (skiplist.go:82-176, eval_zset.go:70-84).                          *)
Position(z, a) ==
    IF a = Header THEN 0
    ELSE 1 + Cardinality({b \in NodesOf(z) : Less(z, b, z.score[a], z.member[a])})
SkipListSound == zset.real =>
    LET nodes == NodesOf(zset)
        pos == [a \in nodes \cup {Header} |-> Position(zset, a)]
        At(p) == {a \in nodes : pos[a] = p}
        High(i) == {a \in nodes : Height(zset, a) >= i}
        Later(a, i) == {b \in High(i) : pos[b] > pos[a]}
        Nearest(a, i) == CHOOSE b \in Later(a, i) : \A c \in Later(a, i) : pos[b] <= pos[c] IN
    /\ zset.length = Cardinality(nodes) /\ zset.length = Cardinality(DOMAIN zset.dict)
    /\ \A a \in nodes :
        /\ zset.member[a] \in DOMAIN zset.dict
        /\ zset.score[a] = zset.dict[zset.member[a]]
    /\ zset.level = Max({1} \cup {Height(zset, a) : a \in nodes})
    /\ \A a \in nodes \cup {Header} : \A i \in 1..zset.level :
        i <= Height(zset, a) =>
            IF Later(a, i) = {}
            THEN /\ zset.forward[a][i] = Null
                 /\ zset.span[a][i] = zset.length - pos[a]
            ELSE /\ zset.forward[a][i] = Nearest(a, i)
                 /\ zset.span[a][i] = pos[Nearest(a, i)] - pos[a]
    /\ \A a \in nodes : At(pos[a] - 1) =
                            IF zset.backward[a] = Null THEN {} ELSE {zset.backward[a]}
    /\ At(zset.length) = IF zset.tail = Null THEN {} ELSE {zset.tail}

(* Between two commands, the list has as many nodes as the map has         *)
(* members, one each: "Every insert/delete updates both" (eval_zset.go:15),*)
(* and the map is there "to enforce uniqueness" (skiplist.go:105-106).     *)
EachMemberOnce == zcmd = ZSetIdle => zset.length = Cardinality(DOMAIN zset.dict)

(* What clients are told is what the scores alone say: ranks and ranges    *)
(* come from the spans and the nodes (skiplist.go:201-275), and after a    *)
(* NaN only they may say anything.                                         *)
ZAbs == INSTANCE ZSetAbs WITH
    bound <- zset.bound, dict <- zset.dict, ordered <- zset.real, answer <- zsaid,
    doing <- [op |-> zcmd.op, before |-> zcmd.before]
ImplementsZSet == ZAbs!Spec
=============================================================================
