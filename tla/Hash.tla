-------------------------------- MODULE Hash --------------------------------
(***************************************************************************)
(* The hash commands of one key (core/eval_hash.go).  A small hash is a    *)
(* ZipList of fields and values one after the other (core/ziplist.go); one *)
(* with too many of them, or too long ones, becomes a map and stays one.   *)
(*                                                                         *)
(* HSET and HDEL loop over their arguments: a step is one round of the     *)
(* loop, the first one together with what comes before it, and the last    *)
(* one is what comes after it.  Nothing else touches the key meanwhile.    *)
(***************************************************************************)
EXTENDS Data, SequencesExt

CONSTANTS
    Fields,                 \* those of the strings that are used as fields
    Long,                   \* the strings longer than config.HashMaxZiplistValue
    HashMaxZiplistEntries   \* config.HashMaxZiplistEntries, 128 in the code

ASSUME HashAssumption ==
    IsFiniteSet(Fields) /\ Fields \subseteq Strings /\ HashMaxZiplistEntries \in Nat

VARIABLES
    hash,    \* the value of the key: its encoding, and the ZipList or the map
    hcmd,    \* the command whose loop is running, its rounds and its counter
    hsaid    \* what the last command answered, if it is over

hashVars == <<hash, hcmd, hsaid>>

Maps == UNION {[D -> Strings] : D \in SUBSET Fields}
NoMap == [f \in {} |-> Nil]
NoHash == [enc |-> "none", zl |-> <<>>, ht |-> NoMap]
NewHash == [enc |-> "ziplist", zl |-> <<>>, ht |-> NoMap]
AsMap(m) == [enc |-> "ht", zl |-> <<>>, ht |-> m]

(* before: history, the fields when the command began.                     *)
HashIdle == [op |-> "none", n |-> 0, count |-> 0, before |-> {}]
-----------------------------------------------------------------------------
(* The ZipList as the sequence of its pairs, searched from the front.      *)
Places(zl, f) == {i \in DOMAIN zl : zl[i][1] = f}
First(S) == CHOOSE i \in S : \A j \in S : i <= j
Final(S) == CHOOSE i \in S : \A j \in S : i >= j

(* Fault: HashSet appends without a search.                                *)
HashSetBlind(zl, f, v) == Append(zl, <<f, v>>)

HashSet(zl, f, v) ==
    IF Places(zl, f) = {} THEN Append(zl, <<f, v>>)
                          ELSE [zl EXCEPT ![First(Places(zl, f))] = <<f, v>>]

HashDel(zl, f) ==
    IF Places(zl, f) = {} THEN zl ELSE RemoveAt(zl, First(Places(zl, f)))

(* HashEntries: later pairs overwrite earlier ones.                        *)
HashEntries(zl) ==
    [f \in {zl[i][1] : i \in DOMAIN zl} |-> zl[Final(Places(zl, f))][2]]

(* What each encoding does for the commands.                               *)
Has(h, f) == IF h.enc = "ht" THEN f \in DOMAIN h.ht ELSE Places(h.zl, f) # {}
ValueOf(h, f) == IF h.enc = "ht" THEN h.ht[f] ELSE h.zl[First(Places(h.zl, f))][2]
HashLen(h) == IF h.enc = "ht" THEN Cardinality(DOMAIN h.ht) ELSE Len(h.zl)
Pairs(h) == IF h.enc = "ht" THEN {<<f, h.ht[f]>> : f \in DOMAIN h.ht} ELSE ToSet(h.zl)

With(h, f, v) ==
    IF h.enc = "ht"
    THEN [h EXCEPT !.ht = [g \in DOMAIN @ \cup {f} |-> IF g = f THEN v ELSE @[g]]]
    ELSE [h EXCEPT !.zl = HashSet(@, f, v)]

Without(h, f) ==
    IF h.enc = "ht" THEN [h EXCEPT !.ht = [g \in DOMAIN @ \ {f} |-> @[g]]]
                    ELSE [h EXCEPT !.zl = HashDel(@, f)]

(* Fault: only the number of pairs is looked at.                           *)
PromotedByCount(h) ==
    IF h.enc = "ziplist" /\ Len(h.zl) > HashMaxZiplistEntries THEN AsMap(HashEntries(h.zl)) ELSE h

TooLong(pair) == pair[1] \in Long \/ pair[2] \in Long

(* hashCheckPromote                                                        *)
Promoted(h) ==
    IF /\ h.enc = "ziplist"
       /\ Len(h.zl) > HashMaxZiplistEntries \/ \E i \in DOMAIN h.zl : TooLong(h.zl[i])
    THEN AsMap(HashEntries(h.zl)) ELSE h

(* hashGetOrCreate                                                         *)
Created(h) == IF h = NoHash THEN NewHash ELSE h
-----------------------------------------------------------------------------
HashInit == hash = NoHash /\ hcmd = HashIdle /\ hsaid = NoAnswer

(* The fields of the key, or none.                                         *)
FieldsOf(h) == {p[1] : p \in Pairs(h)}

(* One more round of the loop of op, which counts if so.                   *)
Round(op, counts) ==
    /\ hcmd.op \in {"none", op} /\ hcmd.n < MaxArgs
    /\ hcmd' = [op |-> op, n |-> hcmd.n + 1,
                count |-> hcmd.count + (IF counts THEN 1 ELSE 0),
                before |-> IF hcmd.op = op THEN hcmd.before ELSE FieldsOf(hash)]
    /\ hsaid' = NoAnswer

EndRounds(op) ==
    /\ hcmd.op = op
    /\ hcmd' = HashIdle /\ hsaid' = <<op, hcmd.count>>

HSet(f, v) ==
    /\ Round("hset", ~Has(Created(hash), f))
    /\ hash' = With(Created(hash), f, v)

HSetEnd == EndRounds("hset") /\ hash' = Promoted(hash)

HDel(f) ==
    /\ hash # NoHash
    /\ Round("hdel", Has(hash, f))
    /\ hash' = Without(hash, f)

HDelEnd ==
    /\ EndRounds("hdel")
    /\ hash' = IF HashLen(hash) = 0 THEN NoHash ELSE hash

HashAnswer(op, val) ==
    /\ hcmd = HashIdle /\ hsaid' = <<op, val>>
    /\ UNCHANGED <<hash, hcmd>>

HDelMissing == hash = NoHash /\ HashAnswer("hdel", 0)

HSetNX(f, v) ==
    /\ hcmd = HashIdle /\ UNCHANGED hcmd
    /\ LET h == Created(hash) IN
       IF Has(h, f) THEN hash' = h /\ hsaid' = <<"hsetnx", 0>>
                    ELSE hash' = Promoted(With(h, f, v)) /\ hsaid' = <<"hsetnx", 1>>

(* A field that is no integer is found after the hash is created; then it  *)
(* was there before.                                                       *)
HIncrBy(f, d) ==
    /\ hcmd = HashIdle /\ UNCHANGED hcmd
    /\ LET h == Created(hash) IN
       IF Has(h, f) /\ ~IsInt(ValueOf(h, f))
       THEN hash' = h /\ hsaid' = <<"hincrby", Err>>
       ELSE LET n == Wrap((IF Has(h, f) THEN Parse[ValueOf(h, f)] ELSE 0) + d) IN
            hash' = Promoted(With(h, f, Decimal[n])) /\ hsaid' = <<"hincrby", n>>

HGet(f) == HashAnswer("hget", <<f, IF Has(hash, f) THEN ValueOf(hash, f) ELSE Nil>>)
HExists(f) == HashAnswer("hexists", <<f, Has(hash, f)>>)
HLen == HashAnswer("hlen", HashLen(hash))

(* Also HKEYS and HVALS, which give one half of the pairs.                 *)
HGetAll == HashAnswer("hgetall", Pairs(hash))

(* The key is deleted, overwritten, expired or evicted.                    *)
HashDropped == hcmd = HashIdle /\ hash' = NoHash /\ hsaid' = NoAnswer /\ UNCHANGED hcmd

HashNext ==
    \/ \E f \in Fields, v \in Strings : HSet(f, v) \/ HSetNX(f, v)
    \/ \E f \in Fields, d \in Numbers : HIncrBy(f, d)
    \/ \E f \in Fields : HDel(f) \/ HGet(f) \/ HExists(f)
    \/ HSetEnd \/ HDelEnd \/ HDelMissing \/ HLen \/ HGetAll \/ HashDropped

HashSpec == HashInit /\ [][HashNext]_hashVars
-----------------------------------------------------------------------------
HashTypeOK ==
    /\ hash.enc \in {"none", "ziplist", "ht"}
    /\ hash.zl \in Seq(Fields \X Strings) /\ hash.ht \in Maps
    /\ hash = [enc |-> hash.enc, zl |-> hash.zl, ht |-> hash.ht]
    /\ hash.enc = "none" => hash = NoHash
    /\ hash.enc = "ziplist" => hash.ht = NoMap
    /\ hash.enc = "ht" => hash.zl = <<>>
    /\ hcmd \in [op : {"none", "hset", "hdel"}, n : 0..MaxArgs, count : 0..MaxArgs,
                 before : SUBSET Fields]
    /\ hcmd.op = "none" <=> hcmd = HashIdle
    /\ hcmd.op # "none" => hash # NoHash
    /\ hcmd.count <= hcmd.n

(* Between commands, a ziplist is one that need not be promoted, whichever *)
(* command made it grow (eval_hash.go:43-65).                              *)
HashSettled ==
    hcmd = HashIdle /\ hash.enc = "ziplist" =>
        /\ Len(hash.zl) <= HashMaxZiplistEntries
        /\ \A i \in DOMAIN hash.zl : ~TooLong(hash.zl[i])

(* No command leaves an empty hash behind (eval_hash.go:209-222).          *)
NoEmptyHash == hcmd = HashIdle /\ hash # NoHash => HashLen(hash) > 0

(* Whatever its encoding, a hash is a map, promotion changes nothing that  *)
(* can be asked, and the commands count what they changed.                 *)
MapOf(h) == IF h.enc = "ht" THEN h.ht ELSE HashEntries(h.zl)
HAbs == INSTANCE HashAbs WITH
    map <- MapOf(hash), answer <- hsaid,
    doing <- [op |-> hcmd.op, before |-> hcmd.before]
ImplementsHash == HAbs!Spec
=============================================================================
