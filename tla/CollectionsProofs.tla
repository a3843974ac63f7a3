-------------------------- MODULE CollectionsProofs --------------------------
(***************************************************************************)
(* A key and the commands of every type, proved for any strings, any word  *)
(* size and any limits.  First the hash, the set, the list and the sorted   *)
(* set, each for a key that only has commands of its own type:             *)
(*   - A ZipList of pairs and a map hold the same hash, an intset and a    *)
(*     map the same set; the promotions change nothing that can be asked;  *)
(*     and the loops of the commands count what they changed.              *)
(*   - The nodes of a list are linked in one order, forth and back, their  *)
(*     elements in that order are a sequence that pushes and pops change   *)
(*     at its ends, the counters agree with it, and ranges and indices are *)
(*     those of the sequence.                                              *)
(*   - The nodes of a skip list are in one order s, by score and member,   *)
(*     with heights h: on each level a node leads to the next place of s   *)
(*     that is high enough, over as many nodes as its span says.  So a     *)
(*     descent leaves each level at the last place before what it looks    *)
(*     for, having added up the spans to that place; an insertion puts a   *)
(*     node into s and h, a deletion takes one out; ranks and ranges are   *)
(*     places of s.                                                        *)
(* Then all of it for a key with commands of every type: to the hash, a    *)
(* command of another type does what HashDropped does.                     *)
(***************************************************************************)
EXTENDS Collections, DataProofs

-----------------------------------------------------------------------------
(* Hashes.                                                                 *)
PairSeq == Seq(Fields \X Strings)

(* HashSet and HashDel keep a field in one place at most.                  *)
Distinct(zl) == \A i, j \in DOMAIN zl : zl[i][1] = zl[j][1] => i = j

HashValue == [enc : {"none", "ziplist", "ht"}, zl : PairSeq, ht : Maps]
Sound(h) ==
    /\ h \in HashValue /\ Distinct(h.zl)
    /\ h.enc = "none" => h = NoHash
    /\ h.enc = "ziplist" => h.ht = NoMap
    /\ h.enc = "ht" => h.zl = <<>>

(* A ziplist within its limits.                                           *)
Short(h) ==
    h.enc = "ziplist" =>
        /\ Len(h.zl) <= HashMaxZiplistEntries
        /\ \A i \in DOMAIN h.zl : ~TooLong(h.zl[i])
-----------------------------------------------------------------------------
(* The pairs of a ZipList, and its one place for a field.                  *)
LEMMA PairType ==
    ASSUME NEW zl \in PairSeq
    PROVE  /\ DOMAIN zl = 1..Len(zl) /\ Len(zl) \in Nat
           /\ \A i \in DOMAIN zl : /\ zl[i][1] \in Fields /\ zl[i][2] \in Strings
                                   /\ zl[i] = <<zl[i][1], zl[i][2]>>
<1>1. DOMAIN zl = 1..Len(zl) /\ Len(zl) \in Nat /\ \A i \in DOMAIN zl : zl[i] \in Fields \X Strings
    BY DEF PairSeq
<1> QED BY <1>1

(* A field of a sound ziplist is at one place, if at any.                  *)
LEMMA OnePlace ==
    ASSUME NEW zl \in PairSeq, Distinct(zl), NEW i \in DOMAIN zl
    PROVE  /\ Places(zl, zl[i][1]) = {i}
           /\ First(Places(zl, zl[i][1])) = i /\ Final(Places(zl, zl[i][1])) = i
<1>1. Places(zl, zl[i][1]) = {i}
    BY DEF Places, Distinct
<1>2. i \in Nat
    BY PairType
<1> QED BY <1>1, <1>2 DEF First, Final

(* A ZipList of distinct fields, as a map.                                 *)
LEMMA EntriesAre ==
    ASSUME NEW zl \in PairSeq, Distinct(zl)
    PROVE  /\ DOMAIN HashEntries(zl) = {zl[i][1] : i \in DOMAIN zl}
           /\ \A i \in DOMAIN zl : HashEntries(zl)[zl[i][1]] = zl[i][2]
           /\ HashEntries(zl) \in Maps
<1> DEFINE D == {zl[i][1] : i \in DOMAIN zl}
<1>1. HashEntries(zl) = [f \in D |-> zl[Final(Places(zl, f))][2]]
    BY DEF HashEntries
<1>2. \A i \in DOMAIN zl : zl[i][1] \in D /\ HashEntries(zl)[zl[i][1]] = zl[i][2]
    <2> TAKE i \in DOMAIN zl
    <2>1. zl[i][1] \in D
        OBVIOUS
    <2>2. HashEntries(zl)[zl[i][1]] = zl[Final(Places(zl, zl[i][1]))][2]
        BY <1>1, <2>1
    <2> QED BY <2>1, <2>2, OnePlace
<1>3. D \in SUBSET Fields
    BY PairType
<1>4. \A f \in D : HashEntries(zl)[f] \in Strings
    BY <1>2, PairType
<1>5. HashEntries(zl) \in [D -> Strings]
    BY <1>1, <1>4
<1> QED BY <1>1, <1>2, <1>3, <1>5 DEF Maps

(* HashSet overwrites the value of a field, or adds one.                   *)
LEMMA SetPair ==
    ASSUME NEW zl \in PairSeq, Distinct(zl), NEW f \in Fields, NEW v \in Strings
    PROVE  /\ HashSet(zl, f, v) \in PairSeq /\ Distinct(HashSet(zl, f, v))
           /\ HashSet(zl, f, v) # <<>>
           /\ HashEntries(HashSet(zl, f, v)) =
                [g \in DOMAIN HashEntries(zl) \cup {f} |->
                    IF g = f THEN v ELSE HashEntries(zl)[g]]
<1> DEFINE new == HashSet(zl, f, v)
           e == HashEntries(zl)
<1>1. DOMAIN zl = 1..Len(zl) /\ Len(zl) \in Nat
      /\ \A i \in DOMAIN zl : zl[i][1] \in Fields /\ zl[i][2] \in Strings
    BY PairType
<1>2. DOMAIN e = {zl[i][1] : i \in DOMAIN zl} /\ \A i \in DOMAIN zl : e[zl[i][1]] = zl[i][2]
    BY EntriesAre
<1>3. <<f, v>> \in Fields \X Strings /\ <<f, v>>[1] = f /\ <<f, v>>[2] = v
    OBVIOUS
<1> DEFINE goal == /\ new \in PairSeq /\ Distinct(new) /\ new # <<>>
                   /\ DOMAIN e \cup {f} = {new[i][1] : i \in DOMAIN new}
                   /\ \A i \in DOMAIN new : new[i][2] = IF new[i][1] = f THEN v ELSE e[new[i][1]]
<1>4. goal
    <2>1. CASE Places(zl, f) = {}
        <3>1. new = Append(zl, <<f, v>>) /\ \A i \in DOMAIN zl : zl[i][1] # f
            BY <2>1 DEF HashSet, Places
        <3>2. /\ new \in PairSeq /\ DOMAIN new = 1..(Len(zl) + 1) /\ new # <<>>
              /\ \A i \in 1..Len(zl) : new[i] = zl[i]
              /\ new[Len(zl) + 1] = <<f, v>>
            BY <1>1, <1>3, <3>1 DEF PairSeq
        <3> HIDE DEF new
        <3>3. \A i \in DOMAIN new : i \in 1..Len(zl) \/ i = Len(zl) + 1
            BY <1>1, <3>2
        <3>4. Distinct(new)
            BY <1>1, <1>3, <3>1, <3>2, <3>3 DEF Distinct
        <3>5. DOMAIN e \cup {f} = {new[i][1] : i \in DOMAIN new}
            <4>1. Len(zl) + 1 \in DOMAIN new /\ \A i \in 1..Len(zl) : i \in DOMAIN new
                BY <1>1, <3>2
            <4> QED BY <4>1, <1>1, <1>2, <1>3, <3>2, <3>3
        <3>6. \A i \in DOMAIN new : new[i][2] = IF new[i][1] = f THEN v ELSE e[new[i][1]]
            BY <1>1, <1>2, <1>3, <3>1, <3>2, <3>3
        <3> QED BY <3>2, <3>4, <3>5, <3>6
    <2>2. CASE Places(zl, f) # {}
        <3>1. PICK k \in DOMAIN zl : zl[k][1] = f
            BY <2>2 DEF Places
        <3>2. new = [zl EXCEPT ![k] = <<f, v>>]
            BY <2>2, <3>1, OnePlace DEF HashSet
        <3>3. /\ new \in PairSeq /\ DOMAIN new = DOMAIN zl /\ new # <<>>
              /\ \A i \in DOMAIN zl : i # k => new[i] = zl[i]
              /\ new[k] = <<f, v>>
            BY <1>1, <1>3, <3>2 DEF PairSeq
        <3> HIDE DEF new
        <3>4. \A i \in DOMAIN zl : new[i][1] = zl[i][1]
            BY <1>3, <3>1, <3>3
        <3>5. Distinct(new)
            BY <3>3, <3>4 DEF Distinct
        <3>6. DOMAIN e \cup {f} = {new[i][1] : i \in DOMAIN new}
            BY <1>2, <3>1, <3>3, <3>4
        <3>7. \A i \in DOMAIN new : new[i][2] = IF new[i][1] = f THEN v ELSE e[new[i][1]]
            BY <1>2, <1>3, <3>1, <3>3, <3>4 DEF Distinct
        <3> QED BY <3>3, <3>5, <3>6, <3>7
    <2> QED BY <2>1, <2>2
<1> HIDE DEF new, e
<1>5. /\ DOMAIN HashEntries(new) = {new[i][1] : i \in DOMAIN new}
      /\ \A i \in DOMAIN new : HashEntries(new)[new[i][1]] = new[i][2]
      /\ HashEntries(new) \in Maps
    BY <1>4, EntriesAre
<1>6. \A g \in DOMAIN e \cup {f} : HashEntries(new)[g] = IF g = f THEN v ELSE e[g]
    BY SMTT(30), <1>4, <1>5
<1>7. HashEntries(new) = [g \in DOMAIN e \cup {f} |-> IF g = f THEN v ELSE e[g]]
    <2>1. HashEntries(new) = [g \in DOMAIN HashEntries(new) |-> HashEntries(new)[g]]
        BY <1>5 DEF Maps
    <2> QED BY <2>1, <1>4, <1>5, <1>6
<1> QED BY <1>4, <1>7 DEF new, e

(* HashDel drops the pair of a field.                                      *)
LEMMA DelPair ==
    ASSUME NEW zl \in PairSeq, Distinct(zl), NEW f \in Fields
    PROVE  /\ HashDel(zl, f) \in PairSeq /\ Distinct(HashDel(zl, f))
           /\ Len(HashDel(zl, f)) <= Len(zl)
           /\ \A i \in DOMAIN HashDel(zl, f) : \E j \in DOMAIN zl : HashDel(zl, f)[i] = zl[j]
           /\ HashEntries(HashDel(zl, f)) =
                [g \in DOMAIN HashEntries(zl) \ {f} |-> HashEntries(zl)[g]]
<1> DEFINE new == HashDel(zl, f)
           e == HashEntries(zl)
<1>1. DOMAIN zl = 1..Len(zl) /\ Len(zl) \in Nat
    BY PairType
<1>2. /\ DOMAIN e = {zl[i][1] : i \in DOMAIN zl} /\ \A i \in DOMAIN zl : e[zl[i][1]] = zl[i][2]
      /\ e \in Maps
    BY EntriesAre
<1>3. /\ new \in PairSeq /\ Distinct(new) /\ Len(new) <= Len(zl)
      /\ \A i \in DOMAIN new : \E j \in DOMAIN zl : new[i] = zl[j]
      /\ DOMAIN e \ {f} = {new[i][1] : i \in DOMAIN new}
      /\ \A i \in DOMAIN new : new[i][2] = e[new[i][1]]
    <2>1. CASE Places(zl, f) = {}
        <3>1. new = zl /\ \A i \in DOMAIN zl : zl[i][1] # f
            BY <2>1 DEF HashDel, Places
        <3> QED BY <1>1, <1>2, <3>1
    <2>2. CASE Places(zl, f) # {}
        <3>1. PICK k \in DOMAIN zl : zl[k][1] = f
            BY <2>2 DEF Places
        <3>2. new = RemoveAt(zl, k)
            BY <2>2, <3>1, OnePlace DEF HashDel
        <3>3. /\ new \in PairSeq /\ Len(new) = Len(zl) - 1
              /\ \A j \in 1..(Len(zl) - 1) : new[j] = IF j < k THEN zl[j] ELSE zl[j + 1]
            <4>1. zl \in Seq(Fields \X Strings) /\ k \in 1..Len(zl)
                BY <1>1 DEF PairSeq
            <4> QED BY <4>1, <3>2, OneRemoved DEF PairSeq
        <3> HIDE DEF new
        <3> DEFINE at == [j \in 1..(Len(zl) - 1) |-> IF j < k THEN j ELSE j + 1]
        <3>4. /\ DOMAIN new = 1..(Len(zl) - 1)
              /\ \A j \in DOMAIN new : at[j] \in DOMAIN zl /\ at[j] # k /\ new[j] = zl[at[j]]
              /\ \A i, j \in DOMAIN new : at[i] = at[j] => i = j
            BY <1>1, <3>1, <3>3, PairType
        <3>5. \A i \in DOMAIN zl : i # k => \E j \in DOMAIN new : at[j] = i
            <4> SUFFICES ASSUME NEW i \in DOMAIN zl, i # k PROVE \E j \in DOMAIN new : at[j] = i
                OBVIOUS
            <4>1. CASE i < k
                <5>1. i \in DOMAIN new /\ at[i] = i
                    BY <1>1, <3>1, <3>4, <4>1
                <5> QED BY <5>1
            <4>2. CASE ~(i < k)
                <5>1. i - 1 \in DOMAIN new /\ at[i - 1] = i
                    BY <1>1, <3>1, <3>4, <4>2
                <5> QED BY <5>1
            <4> QED BY <4>1, <4>2
        <3> HIDE DEF at
        <3>6. Distinct(new)
            BY <3>4 DEF Distinct
        <3>7. DOMAIN e \ {f} = {new[i][1] : i \in DOMAIN new}
            <4>1. ASSUME NEW g \in DOMAIN e \ {f} PROVE \E i \in DOMAIN new : g = new[i][1]
                <5>1. PICK i \in DOMAIN zl : g = zl[i][1] /\ i # k
                    BY <1>2, <3>1
                <5> QED BY <5>1, <3>4, <3>5
            <4>2. ASSUME NEW i \in DOMAIN new PROVE new[i][1] \in DOMAIN e \ {f}
                BY <1>2, <3>1, <3>4 DEF Distinct
            <4> QED BY <4>1, <4>2
        <3>8. \A i \in DOMAIN new : new[i][2] = e[new[i][1]]
            BY <1>2, <3>4
        <3>9. Len(new) <= Len(zl) /\ \A i \in DOMAIN new : \E j \in DOMAIN zl : new[i] = zl[j]
            BY <1>1, <3>3, <3>4
        <3> QED BY <3>3, <3>6, <3>7, <3>8, <3>9
    <2> QED BY <2>1, <2>2
<1> HIDE DEF new, e
<1>4. /\ DOMAIN HashEntries(new) = {new[i][1] : i \in DOMAIN new}
      /\ \A i \in DOMAIN new : HashEntries(new)[new[i][1]] = new[i][2]
      /\ HashEntries(new) \in Maps
    BY <1>3, EntriesAre
<1>5. \A g \in DOMAIN e \ {f} : HashEntries(new)[g] = e[g]
    BY <1>3, <1>4
<1>6. HashEntries(new) = [g \in DOMAIN e \ {f} |-> e[g]]
    <2>1. HashEntries(new) = [g \in DOMAIN HashEntries(new) |-> HashEntries(new)[g]]
        BY <1>4 DEF Maps
    <2> QED BY <2>1, <1>3, <1>4, <1>5
<1> QED BY <1>3, <1>6 DEF new, e
-----------------------------------------------------------------------------
(* A map from some of the fields.                                          *)
LEMMA MapType ==
    ASSUME NEW m \in Maps
    PROVE  /\ DOMAIN m \subseteq Fields /\ IsFiniteSet(DOMAIN m)
           /\ Cardinality(DOMAIN m) \in Nat /\ m \in [DOMAIN m -> Strings]
           /\ \A f \in DOMAIN m : m[f] \in Strings
<1>1. DOMAIN m \subseteq Fields /\ m \in [DOMAIN m -> Strings]
    BY DEF Maps
<1>2. IsFiniteSet(DOMAIN m) /\ Cardinality(DOMAIN m) \in Nat
    BY <1>1, HashAssumption, FS_Subset, FS_CardinalityType
<1> QED BY <1>1, <1>2

(* A sound hash amounts to a map.                                          *)
LEMMA MapOfSound ==
    ASSUME NEW h, Sound(h)
    PROVE  /\ MapOf(h) \in Maps
           /\ h.enc = "ht" => MapOf(h) = h.ht
           /\ h.enc # "ht" => MapOf(h) = HashEntries(h.zl)
           /\ h.zl \in PairSeq /\ Distinct(h.zl)
<1>1. h.zl \in PairSeq /\ Distinct(h.zl) /\ h.ht \in Maps
    BY DEF Sound, HashValue
<1> QED BY <1>1, EntriesAre DEF MapOf

(* Both encodings are asked the same questions.                            *)
LEMMA HasIs ==
    ASSUME NEW h, Sound(h), NEW f \in Fields
    PROVE  /\ Has(h, f) <=> f \in DOMAIN MapOf(h)
           /\ Has(h, f) => ValueOf(h, f) = MapOf(h)[f]
<1>1. CASE h.enc = "ht"
    BY <1>1, MapOfSound DEF Has, ValueOf
<1>2. CASE h.enc # "ht"
    <2>1. MapOf(h) = HashEntries(h.zl) /\ h.zl \in PairSeq /\ Distinct(h.zl)
        BY <1>2, MapOfSound
    <2>2. DOMAIN MapOf(h) = {h.zl[i][1] : i \in DOMAIN h.zl}
          /\ \A i \in DOMAIN h.zl : MapOf(h)[h.zl[i][1]] = h.zl[i][2]
        BY <2>1, EntriesAre
    <2>3. Has(h, f) <=> \E i \in DOMAIN h.zl : h.zl[i][1] = f
        BY <1>2 DEF Has, Places
    <2>4. ASSUME NEW i \in DOMAIN h.zl, h.zl[i][1] = f
          PROVE  ValueOf(h, f) = h.zl[i][2]
        BY <1>2, <2>1, <2>4, OnePlace DEF ValueOf
    <2> QED BY <2>2, <2>3, <2>4
<1> QED BY <1>1, <1>2

(* HLEN counts the fields of that map.                                     *)
LEMMA LenIs ==
    ASSUME NEW h, Sound(h)
    PROVE  HashLen(h) = Cardinality(DOMAIN MapOf(h))
<1>1. CASE h.enc = "ht"
    BY <1>1, MapOfSound DEF HashLen
<1>2. CASE h.enc # "ht"
    <2> DEFINE zl == h.zl
               D == {zl[i][1] : i \in 1..Len(zl)}
               name == [i \in 1..Len(zl) |-> zl[i][1]]
    <2>1. zl \in PairSeq /\ Distinct(zl) /\ MapOf(h) = HashEntries(zl)
        BY <1>2, MapOfSound
    <2>2. DOMAIN MapOf(h) = D /\ DOMAIN zl = 1..Len(zl) /\ Len(zl) \in Nat
        BY <2>1, EntriesAre, PairType
    <2>3. name \in Bijection(1..Len(zl), D)
        BY <2>1, <2>2 DEF Distinct, Bijection, Injection, Surjection, IsInjective
    <2>4. IsFiniteSet(1..Len(zl)) /\ Cardinality(1..Len(zl)) = Len(zl)
        BY <2>2, FS_Interval
    <2>5. Cardinality(D) = Len(zl)
        BY <2>3, <2>4, FS_Bijection DEF ExistsBijection
    <2> QED BY <1>2, <2>2, <2>5 DEF HashLen
<1> QED BY <1>1, <1>2

(* The pairs of a hash are those of its map.                               *)
LEMMA PairsAre ==
    ASSUME NEW h, Sound(h)
    PROVE  /\ Pairs(h) = {<<f, MapOf(h)[f]>> : f \in DOMAIN MapOf(h)}
           /\ FieldsOf(h) = DOMAIN MapOf(h)
<1>1. Pairs(h) = {<<f, MapOf(h)[f]>> : f \in DOMAIN MapOf(h)}
    <2>1. CASE h.enc = "ht"
        BY <2>1, MapOfSound DEF Pairs
    <2>2. CASE h.enc # "ht"
        <3>1. h.zl \in PairSeq /\ Distinct(h.zl) /\ MapOf(h) = HashEntries(h.zl)
            BY <2>2, MapOfSound
        <3>2. /\ DOMAIN MapOf(h) = {h.zl[i][1] : i \in DOMAIN h.zl}
              /\ \A i \in DOMAIN h.zl : h.zl[i] = <<h.zl[i][1], MapOf(h)[h.zl[i][1]]>>
            <4>1. /\ DOMAIN MapOf(h) = {h.zl[i][1] : i \in DOMAIN h.zl}
                  /\ \A i \in DOMAIN h.zl : MapOf(h)[h.zl[i][1]] = h.zl[i][2]
                BY <3>1, EntriesAre
            <4>2. \A i \in DOMAIN h.zl : h.zl[i] = <<h.zl[i][1], h.zl[i][2]>>
                BY <3>1, PairType
            <4> QED BY <4>1, <4>2
        <3>3. Pairs(h) = {h.zl[i] : i \in DOMAIN h.zl}
            BY <2>2 DEF Pairs, ToSet
        <3>4. ASSUME NEW p \in Pairs(h) PROVE \E f \in DOMAIN MapOf(h) : p = <<f, MapOf(h)[f]>>
            <4>1. PICK i \in DOMAIN h.zl : p = h.zl[i]
                BY <3>3, <3>4
            <4>2. p = <<h.zl[i][1], MapOf(h)[h.zl[i][1]]>> /\ h.zl[i][1] \in DOMAIN MapOf(h)
                BY <4>1, <3>2
            <4> QED BY <4>2
        <3>5. ASSUME NEW f \in DOMAIN MapOf(h) PROVE <<f, MapOf(h)[f]>> \in Pairs(h)
            <4>1. PICK i \in DOMAIN h.zl : f = h.zl[i][1]
                BY <3>2
            <4> QED BY <4>1, <3>2, <3>3
        <3> QED BY <3>4, <3>5
    <2> QED BY <2>1, <2>2
<1>2. \A f : <<f, MapOf(h)[f]>>[1] = f
    OBVIOUS
<1>3. FieldsOf(h) = DOMAIN MapOf(h)
    <2>1. ASSUME NEW p \in Pairs(h) PROVE p[1] \in DOMAIN MapOf(h)
        BY <1>1
    <2>2. ASSUME NEW f \in DOMAIN MapOf(h) PROVE \E p \in Pairs(h) : f = p[1]
        <3>1. <<f, MapOf(h)[f]>> \in Pairs(h)
            BY <1>1
        <3> QED BY <3>1, <1>2
    <2> QED BY <2>1, <2>2 DEF FieldsOf
<1> QED BY <1>1, <1>3

(* What the commands do to a hash, and to the map it is.                   *)
LEMMA NoHashIs == Sound(NoHash) /\ MapOf(NoHash) = NoMap /\ Short(NoHash)
<1>1. NoMap \in Maps /\ DOMAIN NoMap = {}
    <2>1. {} \in SUBSET Fields /\ NoMap \in [{} -> Strings] /\ DOMAIN NoMap = {}
        BY DEF NoMap
    <2> QED BY <2>1 DEF Maps
<1>2. <<>> \in PairSeq /\ Distinct(<<>>) /\ DOMAIN <<>> = {}
    BY DEF PairSeq, Distinct
<1>3. HashEntries(<<>>) = NoMap
    <2>1. DOMAIN HashEntries(<<>>) = {} /\ HashEntries(<<>>) \in Maps
        BY <1>2, EntriesAre
    <2> QED BY <2>1, <1>1 DEF Maps, NoMap
<1>4. NoHash.enc = "none" /\ NoHash.zl = <<>> /\ NoHash.ht = NoMap
    BY DEF NoHash
<1>5. NoHash \in HashValue
    BY <1>1, <1>2 DEF NoHash, HashValue
<1> QED BY <1>2, <1>3, <1>4, <1>5 DEF Sound, MapOf, Short

(* A map without fields is the empty one.                                  *)
LEMMA AnEmptyMap ==
    ASSUME NEW m \in Maps, DOMAIN m = {}
    PROVE  m = NoMap
    BY DEF Maps, NoMap

(* hashGetOrCreate changes no map.                                         *)
LEMMA CreatedIs ==
    ASSUME NEW h, Sound(h)
    PROVE  /\ Sound(Created(h)) /\ Created(h).enc # "none" /\ MapOf(Created(h)) = MapOf(h)
           /\ h.enc # "none" => Created(h) = h
<1>1. CASE h = NoHash
    <2>1. Created(h) = NewHash /\ NewHash.enc = "ziplist" /\ NewHash.zl = <<>> /\ NewHash.ht = NoMap
        BY <1>1 DEF Created, NewHash
    <2>2. NoHash.zl = <<>> /\ NoHash.enc = "none" /\ NoHash.ht = NoMap
        BY DEF NoHash
    <2>3. NewHash \in HashValue
        BY NoHashIs, <2>2 DEF NewHash, HashValue, Sound
    <2>4. Sound(NewHash)
        BY <2>1, <2>2, <2>3, NoHashIs DEF Sound
    <2>5. MapOf(NewHash) = MapOf(NoHash)
        BY <2>1, <2>2 DEF MapOf
    <2> QED BY <1>1, <2>1, <2>2, <2>4, <2>5
<1>2. CASE h # NoHash
    BY <1>2 DEF Created, Sound
<1> QED BY <1>1, <1>2

(* HSET sets one field, in either encoding.                                *)
LEMMA WithIs ==
    ASSUME NEW h, Sound(h), h.enc # "none", NEW f \in Fields, NEW v \in Strings
    PROVE  /\ Sound(With(h, f, v)) /\ With(h, f, v).enc = h.enc
           /\ MapOf(With(h, f, v)) =
                [g \in DOMAIN MapOf(h) \cup {f} |-> IF g = f THEN v ELSE MapOf(h)[g]]
<1>1. CASE h.enc = "ht"
    <2> DEFINE m == [g \in DOMAIN h.ht \cup {f} |-> IF g = f THEN v ELSE h.ht[g]]
    <2>1. With(h, f, v) = [h EXCEPT !.ht = m]
        BY <1>1 DEF With
    <2>2. m \in Maps
        <3>1. h.ht \in Maps
            BY DEF Sound, HashValue
        <3>2. DOMAIN m \in SUBSET Fields /\ m \in [DOMAIN m -> Strings]
            BY <3>1, MapType
        <3> QED BY <3>2 DEF Maps
    <2> HIDE DEF m
    <2>3. /\ With(h, f, v) \in HashValue /\ With(h, f, v).enc = "ht"
          /\ With(h, f, v).zl = h.zl /\ With(h, f, v).ht = m
        BY <1>1, <2>1, <2>2 DEF Sound, HashValue
    <2>4. Sound(With(h, f, v)) /\ MapOf(With(h, f, v)) = m
        BY <1>1, <2>3 DEF Sound, MapOf
    <2>5. MapOf(h) = h.ht
        BY <1>1 DEF MapOf
    <2> QED BY <1>1, <2>3, <2>4, <2>5 DEF m
<1>2. CASE h.enc # "ht"
    <2> DEFINE zl == HashSet(h.zl, f, v)
    <2>1. With(h, f, v) = [h EXCEPT !.zl = zl]
        BY <1>2 DEF With
    <2>2. /\ zl \in PairSeq /\ Distinct(zl)
          /\ HashEntries(zl) = [g \in DOMAIN HashEntries(h.zl) \cup {f} |->
                                   IF g = f THEN v ELSE HashEntries(h.zl)[g]]
        <3>1. h.zl \in PairSeq /\ Distinct(h.zl)
            BY MapOfSound
        <3> QED BY <3>1, SetPair
    <2> HIDE DEF zl
    <2>3. h.enc = "ziplist" /\ h.ht = NoMap
        BY <1>2 DEF Sound, HashValue
    <2>4. /\ With(h, f, v) \in HashValue /\ With(h, f, v).enc = "ziplist"
          /\ With(h, f, v).zl = zl /\ With(h, f, v).ht = NoMap
        BY <2>1, <2>2, <2>3 DEF Sound, HashValue
    <2>5. Sound(With(h, f, v)) /\ MapOf(With(h, f, v)) = HashEntries(zl)
        BY <2>2, <2>4 DEF Sound, MapOf
    <2>6. MapOf(h) = HashEntries(h.zl)
        BY <1>2, MapOfSound
    <2> QED BY <2>2, <2>3, <2>4, <2>5, <2>6
<1> QED BY <1>1, <1>2

(* HDEL takes one field away, in either encoding.                          *)
LEMMA WithoutIs ==
    ASSUME NEW h, Sound(h), h.enc # "none", NEW f \in Fields
    PROVE  /\ Sound(Without(h, f)) /\ Without(h, f).enc = h.enc
           /\ Short(h) => Short(Without(h, f))
           /\ MapOf(Without(h, f)) = [g \in DOMAIN MapOf(h) \ {f} |-> MapOf(h)[g]]
<1>1. CASE h.enc = "ht"
    <2> DEFINE m == [g \in DOMAIN h.ht \ {f} |-> h.ht[g]]
    <2>1. Without(h, f) = [h EXCEPT !.ht = m]
        BY <1>1 DEF Without
    <2>2. m \in Maps
        <3>1. h.ht \in Maps
            BY DEF Sound, HashValue
        <3>2. DOMAIN m \in SUBSET Fields /\ m \in [DOMAIN m -> Strings]
            BY <3>1, MapType
        <3> QED BY <3>2 DEF Maps
    <2> HIDE DEF m
    <2>3. /\ Without(h, f) \in HashValue /\ Without(h, f).enc = "ht"
          /\ Without(h, f).zl = h.zl /\ Without(h, f).ht = m
        BY <1>1, <2>1, <2>2 DEF Sound, HashValue
    <2>4. Sound(Without(h, f)) /\ MapOf(Without(h, f)) = m /\ Short(Without(h, f))
        BY <1>1, <2>3 DEF Sound, MapOf, Short
    <2>5. MapOf(h) = h.ht
        BY <1>1 DEF MapOf
    <2> QED BY <1>1, <2>3, <2>4, <2>5 DEF m
<1>2. CASE h.enc # "ht"
    <2> DEFINE zl == HashDel(h.zl, f)
    <2>1. Without(h, f) = [h EXCEPT !.zl = zl]
        BY <1>2 DEF Without
    <2>2. /\ zl \in PairSeq /\ Distinct(zl) /\ Len(zl) <= Len(h.zl)
          /\ \A i \in DOMAIN zl : \E j \in DOMAIN h.zl : zl[i] = h.zl[j]
          /\ HashEntries(zl) = [g \in DOMAIN HashEntries(h.zl) \ {f} |-> HashEntries(h.zl)[g]]
        <3>1. h.zl \in PairSeq /\ Distinct(h.zl)
            BY MapOfSound
        <3> QED BY <3>1, DelPair
    <2> HIDE DEF zl
    <2>3. h.enc = "ziplist" /\ h.ht = NoMap /\ Len(h.zl) \in Nat /\ Len(zl) \in Nat
        BY <1>2, <2>2, PairType DEF Sound, HashValue
    <2>4. /\ Without(h, f) \in HashValue /\ Without(h, f).enc = "ziplist"
          /\ Without(h, f).zl = zl /\ Without(h, f).ht = NoMap
        BY <2>1, <2>2, <2>3 DEF Sound, HashValue
    <2>5. Sound(Without(h, f)) /\ MapOf(Without(h, f)) = HashEntries(zl)
        BY <2>2, <2>4 DEF Sound, MapOf
    <2>6. MapOf(h) = HashEntries(h.zl)
        BY <1>2, MapOfSound
    <2>7. Short(h) => Short(Without(h, f))
        <3> SUFFICES ASSUME Short(h)
                     PROVE  /\ Len(zl) <= HashMaxZiplistEntries
                            /\ \A i \in DOMAIN zl : ~TooLong(zl[i])
            BY <2>4 DEF Short
        <3>1. Len(zl) <= HashMaxZiplistEntries
            BY <2>2, <2>3, HashAssumption DEF Short
        <3>2. \A i \in DOMAIN zl : ~TooLong(zl[i])
            BY <2>2, <2>3 DEF Short
        <3> QED BY <3>1, <3>2
    <2> QED BY <2>2, <2>3, <2>4, <2>5, <2>6, <2>7
<1> QED BY <1>1, <1>2

(* hashCheckPromote changes no map, and leaves no ziplist too long.        *)
LEMMA PromotedIs ==
    ASSUME NEW h, Sound(h), h.enc # "none"
    PROVE  /\ Sound(Promoted(h)) /\ Promoted(h).enc # "none" /\ Short(Promoted(h))
           /\ MapOf(Promoted(h)) = MapOf(h)
<1> DEFINE full == \/ Len(h.zl) > HashMaxZiplistEntries
                   \/ \E i \in DOMAIN h.zl : TooLong(h.zl[i])
           m == HashEntries(h.zl)
<1>1. CASE h.enc = "ziplist" /\ full
    <2>1. m \in Maps /\ MapOf(h) = m
        BY <1>1, MapOfSound
    <2> HIDE DEF m
    <2>2. Promoted(h) = AsMap(m)
        BY <1>1 DEF Promoted, m
    <2>3. AsMap(m).enc = "ht" /\ AsMap(m).zl = <<>> /\ AsMap(m).ht = m
        BY DEF AsMap
    <2>4. AsMap(m) \in HashValue
        BY <2>1 DEF AsMap, HashValue, PairSeq
    <2>5. Sound(AsMap(m)) /\ MapOf(AsMap(m)) = m /\ Short(AsMap(m))
        BY <2>3, <2>4 DEF Sound, MapOf, Short, Distinct
    <2> QED BY <2>1, <2>2, <2>3, <2>5
<1>2. CASE ~(h.enc = "ziplist" /\ full)
    <2>1. Promoted(h) = h
        BY <1>2 DEF Promoted
    <2>2. h.enc = "ziplist" => Len(h.zl) <= HashMaxZiplistEntries
        <3>1. Len(h.zl) \in Nat
            BY MapOfSound, PairType
        <3> QED BY <3>1, <1>2, HashAssumption
    <2> QED BY <2>1, <2>2, <1>2 DEF Short
<1> QED BY <1>1, <1>2
-----------------------------------------------------------------------------
(* The loops keep their count: what HSET has added, and what HDEL has      *)
(* removed, since they began.                                              *)
HashFields == DOMAIN MapOf(hash)
HashCounted ==
    /\ hcmd.op = "hset" => /\ hcmd.before \subseteq HashFields
                           /\ hcmd.count = Cardinality(HashFields \ hcmd.before)
    /\ hcmd.op = "hdel" => /\ HashFields \subseteq hcmd.before
                           /\ hcmd.count = Cardinality(hcmd.before \ HashFields)

HashLooping ==
    /\ hcmd \in [op : {"none", "hset", "hdel"}, n : 0..MaxArgs, count : 0..MaxArgs,
                 before : SUBSET Fields]
    /\ hcmd.op = "none" <=> hcmd = HashIdle
    /\ hcmd.op # "none" => hash.enc # "none"
    /\ hcmd.count <= hcmd.n

(* A hash is settled but in the middle of HSET, and has fields but in the  *)
(* middle of HDEL.                                                         *)
HashIInv ==
    /\ Sound(hash) /\ HashLooping /\ HashCounted
    /\ hcmd.op # "hset" => Short(hash)
    /\ hcmd.op # "hdel" /\ hash.enc # "none" => HashFields # {}

(* A missing hash is told by its encoding.                                 *)
LEMMA NoneIsNoHash ==
    ASSUME NEW h, Sound(h)
    PROVE  h.enc = "none" <=> h = NoHash
    BY DEF Sound, NoHash

(* A hash has finitely many fields, to be counted.                         *)
LEMMA FieldsFinite ==
    ASSUME Sound(hash)
    PROVE  HashFields \subseteq Fields /\ IsFiniteSet(HashFields) /\ MapOf(hash) \in Maps
    BY MapOfSound, MapType DEF HashFields

(* A round of a loop, and what it is abstractly.                           *)
LEMMA HashRoundIs ==
    ASSUME HashIInv, NEW op \in {"hset", "hdel"}, NEW counts, Round(op, counts),
           NEW D, hcmd.op = "none" => D = HashFields, hcmd.op # "none" => D = hcmd.before
    PROVE  /\ hcmd.op \in {"none", op} /\ hcmd.count \in Nat /\ D \in SUBSET Fields
           /\ hcmd' \in [op : {"none", "hset", "hdel"}, n : 0..MaxArgs, count : 0..MaxArgs,
                         before : SUBSET Fields]
           /\ hcmd'.op = op /\ hcmd' # HashIdle /\ hcmd'.count <= hcmd'.n
           /\ hcmd'.before = D
           /\ hcmd'.count = hcmd.count + (IF counts THEN 1 ELSE 0)
           /\ hcmd.op = "none" => hcmd.count = 0
           /\ HAbs!Begun(op)
<1>1. /\ hcmd.op \in {"none", op} /\ hcmd.n < MaxArgs
      /\ hcmd' = [op |-> op, n |-> hcmd.n + 1,
                  count |-> hcmd.count + (IF counts THEN 1 ELSE 0),
                  before |-> IF hcmd.op = op THEN hcmd.before ELSE FieldsOf(hash)]
      /\ hsaid' = NoAnswer
    BY DEF Round
<1>2. /\ hcmd \in [op : {"none", "hset", "hdel"}, n : 0..MaxArgs, count : 0..MaxArgs,
                   before : SUBSET Fields]
      /\ hcmd.count <= hcmd.n /\ (hcmd.op = "none" <=> hcmd = HashIdle)
    BY DEF HashIInv, HashLooping
<1>3. HashFields \subseteq Fields /\ FieldsOf(hash) = HashFields
    BY FieldsFinite, PairsAre DEF HashIInv, HashFields
<1>4. /\ hcmd.n \in Nat /\ hcmd.count \in Nat /\ hcmd.count <= hcmd.n /\ MaxArgs \in Nat
      /\ hcmd.before \in SUBSET Fields
    BY <1>2, ReplyAssumption
<1>5. hcmd'.before = D /\ D \in SUBSET Fields
    BY <1>1, <1>3, <1>4
<1>6. hcmd.op = "none" => hcmd = HashIdle /\ hcmd.count = 0 /\ hcmd.before = {}
    BY <1>2 DEF HashIdle
<1>7. /\ hcmd'.n = hcmd.n + 1 /\ hcmd'.count = hcmd.count + (IF counts THEN 1 ELSE 0)
      /\ hcmd'.op = op /\ op # "none"
    BY <1>1
<1>8. hcmd' \in [op : {"none", "hset", "hdel"}, n : 0..MaxArgs, count : 0..MaxArgs,
                 before : SUBSET Fields]
    <2>1. hcmd.n + 1 \in 0..MaxArgs /\ hcmd.count + (IF counts THEN 1 ELSE 0) \in 0..MaxArgs
        BY <1>1, <1>4
    <2> QED BY <2>1, <1>1, <1>5
<1>9. hcmd'.count <= hcmd'.n
    BY <1>4, <1>7
<1>10. hcmd' # HashIdle
    BY <1>7 DEF HashIdle
<1>11. HAbs!Begun(op)
    <2>1. CASE hcmd.op = "none"
        BY <2>1, <1>1, <1>3, <1>6, <1>7 DEF HAbs!Begun, HAbs!Nothing, HAbs!Idle, HAbs!NoAnswer, NoAnswer,
            HashFields
    <2>2. CASE hcmd.op = op
        BY <2>2, <1>1, <1>7 DEF HAbs!Begun, HAbs!Nothing, HAbs!Idle, HAbs!NoAnswer, NoAnswer
    <2> QED BY <1>1, <2>1, <2>2
<1> QED BY <1>1, <1>4, <1>5, <1>6, <1>7, <1>8, <1>9, <1>10, <1>11

(* A round of HSET.                                                        *)
LEMMA HSetKeeps ==
    ASSUME HashIInv, NEW f \in Fields, NEW v \in Strings, HSet(f, v)
    PROVE  HashIInv' /\ HAbs!HSet(f, v)
<1> DEFINE h == Created(hash)
           D == IF hcmd.op = "none" THEN HashFields ELSE hcmd.before
<1>1. Sound(hash) /\ HashLooping /\ HashCounted
    BY DEF HashIInv
<1>2. Sound(h) /\ h.enc # "none" /\ MapOf(h) = MapOf(hash)
    BY <1>1, CreatedIs
<1>3. Has(h, f) <=> f \in HashFields
    BY <1>2, HasIs DEF HashFields
<1>4. Round("hset", ~Has(h, f)) /\ hash' = With(h, f, v)
    BY DEF HSet
<1> HIDE DEF h
<1>5. /\ Sound(hash') /\ hash'.enc # "none"
      /\ MapOf(hash') = [g \in HashFields \cup {f} |-> IF g = f THEN v ELSE MapOf(hash)[g]]
    <2>1. /\ Sound(With(h, f, v)) /\ With(h, f, v).enc # "none"
          /\ MapOf(With(h, f, v)) =
               [g \in DOMAIN MapOf(h) \cup {f} |-> IF g = f THEN v ELSE MapOf(h)[g]]
        BY <1>2, WithIs
    <2>2. MapOf(With(h, f, v)) =
              [g \in DOMAIN MapOf(hash) \cup {f} |-> IF g = f THEN v ELSE MapOf(hash)[g]]
        BY <2>1, <1>2
    <2> QED BY <2>1, <2>2, <1>4 DEF HashFields
<1>6. HashFields' = HashFields \cup {f}
    BY <1>5 DEF HashFields
<1> DEFINE c == ~Has(h, f)
<1>r. Round("hset", c) /\ (c <=> f \notin HashFields)
    BY <1>3, <1>4
<1> HIDE DEF c
<1>7. /\ hcmd.op \in {"none", "hset"} /\ hcmd.count \in Nat /\ D \in SUBSET Fields
      /\ hcmd' \in [op : {"none", "hset", "hdel"}, n : 0..MaxArgs, count : 0..MaxArgs,
                    before : SUBSET Fields]
      /\ hcmd'.op = "hset" /\ hcmd' # HashIdle /\ hcmd'.count <= hcmd'.n
      /\ hcmd'.before = D
      /\ hcmd'.count = hcmd.count + (IF c THEN 1 ELSE 0)
      /\ hcmd.op = "none" => hcmd.count = 0
      /\ HAbs!Begun("hset")
    BY <1>r, HashRoundIs
<1>8. D \subseteq HashFields /\ hcmd.count = Cardinality(HashFields \ D)
    <2>1. CASE hcmd.op = "none"
        <3>1. HashFields \ D = {}
            BY <2>1
        <3> QED BY <3>1, <2>1, <1>7, FS_EmptySet
    <2>2. CASE hcmd.op = "hset"
        BY <2>2, <1>1 DEF HashCounted
    <2> QED BY <2>1, <2>2, <1>7
<1> HIDE DEF D
<1>9. Cardinality(HashFields' \ D) = hcmd'.count
    <2>1. IsFiniteSet(HashFields \ D)
        BY <1>1, FieldsFinite, FS_Subset
    <2>2. CASE f \in HashFields
        <3>1. HashFields' \ D = HashFields \ D
            BY <1>6, <2>2
        <3>2. hcmd'.count = hcmd.count
            BY <2>2, <1>r, <1>7
        <3> QED BY <3>1, <3>2, <1>8
    <2>3. CASE f \notin HashFields
        <3>1. HashFields' \ D = (HashFields \ D) \cup {f} /\ f \notin HashFields \ D
            BY <1>6, <1>8, <2>3
        <3>2. hcmd'.count = hcmd.count + 1
            BY <2>3, <1>r, <1>7
        <3> QED BY <3>1, <3>2, <2>1, <1>8, FS_AddElement
    <2> QED BY <2>2, <2>3
<1>10. HashLooping'
    <2>1. hcmd'.op # "none"
        BY <1>7
    <2> QED BY <2>1, <1>5, <1>7 DEF HashLooping
<1>11. HashCounted'
    BY <1>6, <1>7, <1>8, <1>9 DEF HashCounted
<1>12. HashIInv'
    BY <1>5, <1>6, <1>7, <1>10, <1>11 DEF HashIInv
<1>13. HAbs!HSet(f, v)
    BY <1>5, <1>7 DEF HAbs!HSet, HAbs!With, HashFields
<1> QED BY <1>12, <1>13

(* A round of HDEL.                                                        *)
LEMMA HDelKeeps ==
    ASSUME HashIInv, NEW f \in Fields, HDel(f)
    PROVE  HashIInv' /\ HAbs!HDel(f)
<1> DEFINE D == IF hcmd.op = "none" THEN HashFields ELSE hcmd.before
           c == Has(hash, f)
<1>1. /\ Sound(hash) /\ HashLooping /\ HashCounted /\ hash.enc # "none"
      /\ hcmd.op # "hset" => Short(hash)
    BY NoneIsNoHash DEF HashIInv, HDel
<1>2. c <=> f \in HashFields
    BY <1>1, HasIs DEF HashFields
<1>3. Round("hdel", c) /\ hash' = Without(hash, f)
    BY DEF HDel
<1> HIDE DEF c
<1>4. /\ Sound(hash') /\ hash'.enc # "none" /\ (Short(hash) => Short(hash'))
      /\ MapOf(hash') = [g \in HashFields \ {f} |-> MapOf(hash)[g]]
    BY <1>1, <1>3, WithoutIs DEF HashFields
<1>5. HashFields' = HashFields \ {f}
    BY <1>4 DEF HashFields
<1>6. /\ hcmd.op \in {"none", "hdel"} /\ hcmd.count \in Nat /\ D \in SUBSET Fields
      /\ hcmd' \in [op : {"none", "hset", "hdel"}, n : 0..MaxArgs, count : 0..MaxArgs,
                    before : SUBSET Fields]
      /\ hcmd'.op = "hdel" /\ hcmd' # HashIdle /\ hcmd'.count <= hcmd'.n
      /\ hcmd'.before = D
      /\ hcmd'.count = hcmd.count + (IF c THEN 1 ELSE 0)
      /\ hcmd.op = "none" => hcmd.count = 0
      /\ HAbs!Begun("hdel")
    BY <1>3, HashRoundIs
<1>7. HashFields \subseteq D /\ hcmd.count = Cardinality(D \ HashFields)
    <2>1. CASE hcmd.op = "none"
        <3>1. D \ HashFields = {}
            BY <2>1
        <3> QED BY <3>1, <2>1, <1>6, FS_EmptySet
    <2>2. CASE hcmd.op = "hdel"
        BY <2>2, <1>1 DEF HashCounted
    <2> QED BY <2>1, <2>2, <1>6
<1> HIDE DEF D
<1>8. Cardinality(D \ HashFields') = hcmd'.count
    <2>1. IsFiniteSet(D \ HashFields)
        BY <1>6, HashAssumption, FS_Subset
    <2>2. CASE f \in HashFields
        <3>1. D \ HashFields' = (D \ HashFields) \cup {f} /\ f \notin D \ HashFields
            BY <1>5, <1>7, <2>2
        <3>2. hcmd'.count = hcmd.count + 1
            BY <2>2, <1>2, <1>6
        <3> QED BY <3>1, <3>2, <2>1, <1>7, FS_AddElement
    <2>3. CASE f \notin HashFields
        <3>1. D \ HashFields' = D \ HashFields
            BY <1>5, <2>3
        <3>2. hcmd'.count = hcmd.count
            BY <2>3, <1>2, <1>6
        <3> QED BY <3>1, <3>2, <1>7
    <2> QED BY <2>2, <2>3
<1>9. HashLooping'
    <2>1. hcmd'.op # "none"
        BY <1>6
    <2> QED BY <2>1, <1>4, <1>6 DEF HashLooping
<1>10. HashCounted'
    BY <1>5, <1>6, <1>7, <1>8 DEF HashCounted
<1>11. HashIInv'
    <2>1. Short(hash')
        BY <1>1, <1>4, <1>6
    <2> QED BY <2>1, <1>4, <1>6, <1>9, <1>10 DEF HashIInv
<1>12. HAbs!HDel(f)
    BY <1>4, <1>6 DEF HAbs!HDel, HashFields
<1> QED BY <1>11, <1>12

(* Between commands a hash may be replaced by any that is settled and not  *)
(* empty.                                                                  *)
LEMMA HashIdleKeeps ==
    ASSUME hcmd' = HashIdle, Sound(hash'), Short(hash'),
           hash'.enc # "none" => DOMAIN MapOf(hash') # {}
    PROVE  HashIInv'
<1>1. /\ HashIdle \in [op : {"none", "hset", "hdel"}, n : 0..MaxArgs, count : 0..MaxArgs,
                       before : SUBSET Fields]
      /\ HashIdle.op = "none" /\ HashIdle.count <= HashIdle.n
    BY ReplyAssumption DEF HashIdle
<1> QED BY <1>1 DEF HashIInv, HashLooping, HashCounted, HashFields

(* The same answers, of the map.                                           *)
LEMMA HashSameSize == ASSUME NEW S PROVE HAbs!Cardinality(S) = Cardinality(S)
    BY Zenon DEF HAbs!Cardinality, Cardinality

(* The end of HSET: the count is told, a long ziplist promoted.            *)
LEMMA HSetEndKeeps ==
    ASSUME HashIInv, HSetEnd
    PROVE  HashIInv' /\ HAbs!HSetEnd
<1>1. /\ Sound(hash) /\ HashLooping /\ HashCounted /\ hcmd.op = "hset" /\ hcmd' = HashIdle
      /\ hsaid' = <<"hset", hcmd.count>> /\ hash' = Promoted(hash)
    BY DEF HashIInv, HSetEnd, EndRounds
<1>2. hash.enc # "none" /\ HashFields # {}
    BY <1>1 DEF HashLooping, HashIInv
<1>3. Sound(hash') /\ Short(hash') /\ MapOf(hash') = MapOf(hash)
    BY <1>1, <1>2, PromotedIs
<1>4. HashIInv'
    BY <1>1, <1>2, <1>3, HashIdleKeeps DEF HashFields
<1>5. hcmd.count = Cardinality(HashFields \ hcmd.before)
    BY <1>1 DEF HashCounted
<1>6. [op |-> hcmd'.op, before |-> hcmd'.before] = HAbs!Nothing
    BY <1>1 DEF HashIdle, HAbs!Nothing
<1>7. HAbs!HSetEnd
    BY <1>1, <1>3, <1>5, <1>6, HashSameSize DEF HAbs!HSetEnd, HAbs!Ended, HashFields
<1> QED BY <1>4, <1>7

(* The end of HDEL: the count is told, an emptied hash is gone.            *)
LEMMA HDelEndKeeps ==
    ASSUME HashIInv, HDelEnd
    PROVE  HashIInv' /\ HAbs!HDelEnd
<1>1. /\ Sound(hash) /\ Short(hash) /\ HashLooping /\ HashCounted
      /\ hcmd.op = "hdel" /\ hcmd' = HashIdle /\ hsaid' = <<"hdel", hcmd.count>>
      /\ hash' = IF HashLen(hash) = 0 THEN NoHash ELSE hash
    BY DEF HashIInv, HDelEnd, EndRounds
<1>2. HashLen(hash) = Cardinality(HashFields) /\ IsFiniteSet(HashFields) /\ MapOf(hash) \in Maps
    BY <1>1, LenIs, FieldsFinite DEF HashFields
<1>3. HashLen(hash) = 0 <=> HashFields = {}
    BY <1>2, FS_EmptySet
<1>4. /\ Sound(hash') /\ Short(hash') /\ MapOf(hash') = MapOf(hash)
      /\ hash'.enc # "none" => DOMAIN MapOf(hash') # {}
    <2>1. CASE HashFields = {}
        <3>1. hash' = NoHash /\ MapOf(hash) = NoMap
            BY <1>1, <1>2, <1>3, <2>1, AnEmptyMap DEF HashFields
        <3>2. NoHash.enc = "none"
            BY DEF NoHash
        <3> QED BY <3>1, <3>2, NoHashIs
    <2>2. CASE HashFields # {}
        BY <1>1, <1>3, <2>2 DEF HashFields
    <2> QED BY <2>1, <2>2
<1>5. HashIInv'
    BY <1>1, <1>4, HashIdleKeeps
<1>6. hcmd.count = Cardinality(hcmd.before \ HashFields)
    BY <1>1 DEF HashCounted
<1>7. [op |-> hcmd'.op, before |-> hcmd'.before] = HAbs!Nothing
    BY <1>1 DEF HashIdle, HAbs!Nothing
<1>8. HAbs!HDelEnd
    BY <1>1, <1>4, <1>6, <1>7, HashSameSize DEF HAbs!HDelEnd, HAbs!Ended, HashFields
<1> QED BY <1>5, <1>8

(* A command that is over at once leaves no loop behind.                   *)
LEMMA HashStaysIdle ==
    ASSUME HashIInv, hcmd = HashIdle, hcmd' = hcmd, Sound(hash'), Short(hash'),
           hash'.enc # "none" => DOMAIN MapOf(hash') # {}
    PROVE  HashIInv' /\ HAbs!Idle /\ HAbs!Nothing
                        = [op |-> hcmd'.op, before |-> hcmd'.before]
           /\ [op |-> hcmd'.op, before |-> hcmd'.before] = [op |-> hcmd.op, before |-> hcmd.before]
    BY HashIdleKeeps DEF HAbs!Idle, HAbs!Nothing, HashIdle

(* HSETNX writes a field that is not there, and no other.                  *)
LEMMA HSetNXKeeps ==
    ASSUME HashIInv, NEW f \in Fields, NEW v \in Strings, HSetNX(f, v)
    PROVE  HashIInv' /\ HAbs!HSetNX(f, v)
<1> DEFINE h == Created(hash)
<1>1. /\ Sound(hash) /\ hcmd = HashIdle /\ hcmd' = hcmd /\ Short(hash)
      /\ hash.enc # "none" => HashFields # {}
    BY DEF HashIInv, HSetNX, HashIdle
<1>2. /\ Sound(h) /\ h.enc # "none" /\ MapOf(h) = MapOf(hash)
      /\ hash.enc # "none" => h = hash
    BY <1>1, CreatedIs
<1>3. Has(h, f) <=> f \in HashFields
    BY <1>2, HasIs DEF HashFields
<1>4. IF Has(h, f) THEN hash' = h /\ hsaid' = <<"hsetnx", 0>>
                   ELSE hash' = Promoted(With(h, f, v)) /\ hsaid' = <<"hsetnx", 1>>
    BY DEF HSetNX
<1> HIDE DEF h
<1>5. CASE f \in HashFields
    <2>1. hash.enc # "none"
        <3>1. NoHash.enc = "none" /\ DOMAIN NoMap = {}
            BY DEF NoHash, NoMap
        <3> QED BY <3>1, <1>1, <1>5, NoneIsNoHash, NoHashIs DEF HashFields
    <2>2. hash' = hash /\ hsaid' = <<"hsetnx", 0>>
        BY <1>2, <1>3, <1>4, <1>5, <2>1
    <2>3. HashIInv' /\ HAbs!Idle
          /\ [op |-> hcmd'.op, before |-> hcmd'.before] = [op |-> hcmd.op, before |-> hcmd.before]
        BY <1>1, <2>2, HashStaysIdle DEF HashFields
    <2> QED BY <1>5, <2>2, <2>3 DEF HAbs!HSetNX, HashFields
<1>6. CASE f \notin HashFields
    <2> DEFINE w == With(h, f, v)
    <2>1. /\ Sound(w) /\ w.enc # "none"
          /\ MapOf(w) = [g \in DOMAIN MapOf(h) \cup {f} |-> IF g = f THEN v ELSE MapOf(h)[g]]
        BY <1>2, WithIs
    <2>2. MapOf(w) = [g \in DOMAIN MapOf(hash) \cup {f} |-> IF g = f THEN v ELSE MapOf(hash)[g]]
        BY <1>2, <2>1
    <2>3. hash' = Promoted(w) /\ hsaid' = <<"hsetnx", 1>>
        BY <1>3, <1>4, <1>6
    <2> HIDE DEF w
    <2>4. Sound(hash') /\ Short(hash') /\ MapOf(hash') = MapOf(w)
        BY <2>1, <2>3, PromotedIs
    <2>5. MapOf(hash') = [g \in DOMAIN MapOf(hash) \cup {f} |-> IF g = f THEN v ELSE MapOf(hash)[g]]
        BY <2>2, <2>4
    <2>6. f \in DOMAIN MapOf(hash')
        BY <2>5
    <2>7. HashIInv' /\ HAbs!Idle
          /\ [op |-> hcmd'.op, before |-> hcmd'.before] = [op |-> hcmd.op, before |-> hcmd.before]
        BY <1>1, <2>4, <2>6, HashStaysIdle
    <2> QED BY <1>6, <2>3, <2>5, <2>7 DEF HAbs!HSetNX, HAbs!With, HashFields
<1> QED BY <1>5, <1>6

(* HINCRBY counts on from the number that is there, or from 0.             *)
LEMMA HIncrByKeeps ==
    ASSUME HashIInv, NEW f \in Fields, NEW d \in Numbers, HIncrBy(f, d)
    PROVE  HashIInv' /\ HAbs!HIncrBy(f, d)
<1> DEFINE h == Created(hash)
           m == MapOf(hash)
           there == f \in DOMAIN m
           n == Wrap((IF there THEN Parse[m[f]] ELSE 0) + d)
<1>1. /\ Sound(hash) /\ hcmd = HashIdle /\ hcmd' = hcmd /\ Short(hash)
      /\ hash.enc # "none" => DOMAIN MapOf(hash) # {}
    BY DEF HashIInv, HIncrBy, HashIdle, HashFields
<1>2. /\ Sound(h) /\ h.enc # "none" /\ MapOf(h) = m
      /\ hash.enc # "none" => h = hash
    BY <1>1, CreatedIs
<1>3. (Has(h, f) <=> there) /\ (there => ValueOf(h, f) = m[f])
    BY <1>2, HasIs
<1>4. IF Has(h, f) /\ ~IsInt(ValueOf(h, f))
      THEN hash' = h /\ hsaid' = <<"hincrby", Err>>
      ELSE LET k == Wrap((IF Has(h, f) THEN Parse[ValueOf(h, f)] ELSE 0) + d) IN
           hash' = Promoted(With(h, f, Decimal[k])) /\ hsaid' = <<"hincrby", k>>
    BY DEF HIncrBy
<1>5. m \in Maps
    BY <1>1, MapOfSound
<1> HIDE DEF h
<1>6. CASE there /\ ~IsInt(m[f])
    <2>1. hash.enc # "none"
        <3>1. NoHash.enc = "none" /\ DOMAIN NoMap = {}
            BY DEF NoHash, NoMap
        <3> QED BY <3>1, <1>1, <1>6, NoneIsNoHash, NoHashIs
    <2>2. hash' = hash /\ hsaid' = <<"hincrby", Err>>
        BY <1>2, <1>3, <1>4, <1>6, <2>1
    <2>3. HashIInv' /\ HAbs!Idle
          /\ [op |-> hcmd'.op, before |-> hcmd'.before] = [op |-> hcmd.op, before |-> hcmd.before]
        BY <1>1, <2>2, HashStaysIdle
    <2> QED BY <1>6, <2>2, <2>3 DEF HAbs!HIncrBy, HAbs!IsInt, IsInt
<1>7. CASE ~(there /\ ~IsInt(m[f]))
    <2> DEFINE w == With(h, f, Decimal[n])
    <2>1. n \in Numbers /\ Decimal[n] \in Strings
        <3>1. there => m[f] \in Strings /\ Parse[m[f]] # NotInt
            BY <1>5, <1>7, MapType DEF IsInt
        <3>2. (IF there THEN Parse[m[f]] ELSE 0) \in Int
            BY <3>1, NumeralAssumption, WordAssumption DEF Numbers
        <3>3. d \in Int
            BY WordAssumption DEF Numbers
        <3>4. (IF there THEN Parse[m[f]] ELSE 0) + d \in Int
            BY <3>2, <3>3
        <3> QED BY <3>4, WrapIs
    <2>2. hash' = Promoted(w) /\ hsaid' = <<"hincrby", n>>
        <3>1. ~(Has(h, f) /\ ~IsInt(ValueOf(h, f)))
            BY <1>3, <1>7
        <3>2. (IF Has(h, f) THEN Parse[ValueOf(h, f)] ELSE 0) = IF there THEN Parse[m[f]] ELSE 0
            BY <1>3
        <3> QED BY <3>1, <3>2, <1>4
    <2> HIDE DEF n
    <2>3. /\ Sound(w) /\ w.enc # "none"
          /\ MapOf(w) = [g \in DOMAIN MapOf(h) \cup {f} |->
                            IF g = f THEN Decimal[n] ELSE MapOf(h)[g]]
        BY <1>2, <2>1, WithIs
    <2>4. MapOf(w) = [g \in DOMAIN m \cup {f} |-> IF g = f THEN Decimal[n] ELSE m[g]]
        BY <1>2, <2>3
    <2> HIDE DEF w
    <2>5. Sound(hash') /\ Short(hash') /\ MapOf(hash') = MapOf(w)
        BY <2>2, <2>3, PromotedIs
    <2>6. MapOf(hash') = [g \in DOMAIN m \cup {f} |-> IF g = f THEN Decimal[n] ELSE m[g]]
        BY <2>4, <2>5
    <2>7. f \in DOMAIN MapOf(hash')
        BY <2>6
    <2>8. HashIInv' /\ HAbs!Idle
          /\ [op |-> hcmd'.op, before |-> hcmd'.before] = [op |-> hcmd.op, before |-> hcmd.before]
        BY <1>1, <2>5, <2>7, HashStaysIdle
    <2> QED BY <1>7, <2>2, <2>6, <2>8
            DEF HAbs!HIncrBy, HAbs!With, HAbs!IsInt, IsInt, HAbs!Wrap, Wrap, n
<1> QED BY <1>6, <1>7

(* A read leaves all as it was.                                            *)
LEMMA HashAnswerKeeps ==
    ASSUME HashIInv, NEW op, NEW val, HashAnswer(op, val)
    PROVE  HashIInv' /\ HAbs!Said(op, val)
<1>1. hcmd = HashIdle /\ hcmd' = hcmd /\ hash' = hash /\ hsaid' = <<op, val>>
    BY DEF HashAnswer
<1>2. HashIInv'
    BY <1>1 DEF HashIInv, HashLooping, HashCounted, HashFields
<1> QED BY <1>1, <1>2 DEF HAbs!Said, HAbs!Idle, HAbs!Nothing, HashIdle

(* HGET, HEXISTS, HLEN, HGETALL, and HDEL on a missing key.                *)
LEMMA HashReadKeeps ==
    ASSUME HashIInv,
           \/ \E f \in Fields : HGet(f) \/ HExists(f)
           \/ HLen \/ HGetAll \/ HDelMissing
    PROVE  HashIInv' /\ HAbs!Next
<1>1. Sound(hash)
    BY DEF HashIInv
<1>2. ASSUME NEW f \in Fields, HGet(f)
      PROVE  HashIInv' /\ HAbs!Next
    <2> DEFINE val == <<f, IF Has(hash, f) THEN ValueOf(hash, f) ELSE Nil>>
    <2>1. HashAnswer("hget", val)
        BY <1>2 DEF HGet
    <2>2. val = <<f, HAbs!Value(f)>>
        BY <1>1, HasIs DEF HAbs!Value
    <2> HIDE DEF val
    <2>3. HashIInv' /\ HAbs!Said("hget", val)
        BY <2>1, HashAnswerKeeps
    <2> QED BY <2>2, <2>3 DEF HAbs!Next, HAbs!Read
<1>3. ASSUME NEW f \in Fields, HExists(f)
      PROVE  HashIInv' /\ HAbs!Next
    <2> DEFINE val == <<f, Has(hash, f)>>
    <2>1. HashAnswer("hexists", val)
        BY <1>3 DEF HExists
    <2>2. val = <<f, f \in DOMAIN MapOf(hash)>>
        <3>1. CASE hash.enc = "ht"
            BY <3>1 DEF Has, MapOf
        <3>2. CASE hash.enc # "ht"
            <4>1. Has(hash, f) = (Places(hash.zl, f) # {})
                BY <3>2 DEF Has
            <4>2. (Places(hash.zl, f) # {}) <=> f \in DOMAIN MapOf(hash)
                BY <4>1, <1>1, HasIs
            <4>3. (Places(hash.zl, f) # {}) = (f \in DOMAIN MapOf(hash))
                BY <4>2
            <4> QED BY <4>1, <4>3
        <3> QED BY <3>1, <3>2
    <2> HIDE DEF val
    <2>3. HashIInv' /\ HAbs!Said("hexists", val)
        BY <2>1, HashAnswerKeeps
    <2> QED BY <2>2, <2>3 DEF HAbs!Next, HAbs!Read
<1>4. CASE HLen
    <2>1. HashAnswer("hlen", Cardinality(DOMAIN MapOf(hash)))
        BY <1>1, <1>4, LenIs DEF HLen
    <2>2. HashIInv' /\ HAbs!Said("hlen", Cardinality(DOMAIN MapOf(hash)))
        BY <2>1, HashAnswerKeeps
    <2>3. HAbs!Cardinality(DOMAIN MapOf(hash)) = Cardinality(DOMAIN MapOf(hash))
        BY HashSameSize
    <2> QED BY <2>2, <2>3 DEF HAbs!Next, HAbs!Read
<1>5. CASE HGetAll
    <2> DEFINE val == {<<f, MapOf(hash)[f]>> : f \in DOMAIN MapOf(hash)}
    <2>1. HashAnswer("hgetall", val)
        BY <1>1, <1>5, PairsAre DEF HGetAll
    <2>2. HashIInv' /\ HAbs!Said("hgetall", val)
        BY <2>1, HashAnswerKeeps
    <2> QED BY <2>2 DEF HAbs!Next, HAbs!Read
<1>6. CASE HDelMissing
    <2>1. hash = NoHash /\ HashAnswer("hdel", 0)
        BY <1>6 DEF HDelMissing
    <2>2. MapOf(hash) = HAbs!EmptyMap
        BY <2>1, NoHashIs DEF HAbs!EmptyMap, NoMap
    <2>3. HashIInv' /\ HAbs!Said("hdel", 0)
        BY <2>1, HashAnswerKeeps
    <2> QED BY <2>2, <2>3 DEF HAbs!Next, HAbs!HDelNothing
<1> QED BY <1>2, <1>3, <1>4, <1>5, <1>6

(* The key goes, with its hash.                                            *)
LEMMA HashDroppedKeeps ==
    ASSUME HashIInv, HashDropped
    PROVE  HashIInv' /\ HAbs!Drop
<1>1. hcmd = HashIdle /\ hash' = NoHash /\ hsaid' = NoAnswer /\ hcmd' = hcmd
    BY DEF HashDropped
<1>2. NoHash.enc = "none"
    BY DEF NoHash
<1>3. MapOf(hash') = HAbs!EmptyMap
    BY <1>1, NoHashIs DEF HAbs!EmptyMap, NoMap
<1>4. HashIInv' /\ HAbs!Idle
      /\ [op |-> hcmd'.op, before |-> hcmd'.before] = [op |-> hcmd.op, before |-> hcmd.before]
    BY <1>1, <1>2, NoHashIs, HashStaysIdle
<1> QED BY <1>1, <1>3, <1>4 DEF HAbs!Drop, HAbs!NoAnswer, NoAnswer

(* A step of nothing.                                                      *)
LEMMA HashStutters ==
    ASSUME HashIInv, UNCHANGED hashVars
    PROVE  /\ HashIInv'
           /\ UNCHANGED <<MapOf(hash), [op |-> hcmd.op, before |-> hcmd.before], hsaid>>
    BY DEF hashVars, HashIInv, HashLooping, HashCounted, HashFields

(* There is no hash at first.                                              *)
LEMMA HashInitIInv == HashInit => HashIInv /\ HAbs!Init
<1> SUFFICES ASSUME HashInit PROVE HashIInv /\ HAbs!Init
    OBVIOUS
<1>1. hash = NoHash /\ hcmd = HashIdle /\ hsaid = NoAnswer
    BY DEF HashInit
<1>2. NoHash.enc = "none"
    BY DEF NoHash
<1>3. /\ HashIdle \in [op : {"none", "hset", "hdel"}, n : 0..MaxArgs, count : 0..MaxArgs,
                       before : SUBSET Fields]
      /\ HashIdle.op = "none" /\ HashIdle.count <= HashIdle.n
    BY ReplyAssumption DEF HashIdle
<1>4. HashIInv
    BY <1>1, <1>2, <1>3, NoHashIs DEF HashIInv, HashLooping, HashCounted
<1>5. HAbs!Init
    BY <1>1, NoHashIs DEF HAbs!Init, HAbs!EmptyMap, NoMap, HAbs!Nothing, HashIdle,
        HAbs!NoAnswer, NoAnswer
<1> QED BY <1>4, <1>5

(* A step of a command on a ZipList or a map is one on the abstract map.   *)
LEMMA HashNextIInv ==
    HashIInv /\ [HashNext]_hashVars =>
        HashIInv' /\ [HAbs!Next]_<<MapOf(hash), [op |-> hcmd.op, before |-> hcmd.before], hsaid>>
<1> SUFFICES ASSUME HashIInv, [HashNext]_hashVars
             PROVE  HashIInv' /\ [HAbs!Next]_<<MapOf(hash), [op |-> hcmd.op, before |-> hcmd.before], hsaid>>
    OBVIOUS
<1>1. ASSUME NEW f \in Fields, NEW v \in Strings, HSet(f, v)
      PROVE  HashIInv' /\ HAbs!Next
    BY <1>1, HSetKeeps DEF HAbs!Next
<1>2. ASSUME NEW f \in Fields, NEW v \in Strings, HSetNX(f, v)
      PROVE  HashIInv' /\ HAbs!Next
    BY <1>2, HSetNXKeeps DEF HAbs!Next
<1>3. ASSUME NEW f \in Fields, NEW d \in Numbers, HIncrBy(f, d)
      PROVE  HashIInv' /\ HAbs!Next
    <2>1. HashIInv' /\ HAbs!HIncrBy(f, d)
        BY <1>3, HIncrByKeeps
    <2>2. d \in HAbs!Numbers
        BY DEF HAbs!Numbers, Numbers
    <2> QED BY <2>1, <2>2 DEF HAbs!Next
<1>4. ASSUME NEW f \in Fields, HDel(f)
      PROVE  HashIInv' /\ HAbs!Next
    BY <1>4, HDelKeeps DEF HAbs!Next
<1>5. CASE HSetEnd
    BY <1>5, HSetEndKeeps DEF HAbs!Next
<1>6. CASE HDelEnd
    BY <1>6, HDelEndKeeps DEF HAbs!Next
<1>7. CASE (\E f \in Fields : HGet(f) \/ HExists(f)) \/ HLen \/ HGetAll \/ HDelMissing
    BY <1>7, HashReadKeeps
<1>8. CASE HashDropped
    BY <1>8, HashDroppedKeeps DEF HAbs!Next
<1>9. CASE UNCHANGED hashVars
    BY <1>9, HashStutters
<1> QED BY <1>1, <1>2, <1>3, <1>4, <1>5, <1>6, <1>7, <1>8, <1>9 DEF HashNext
-----------------------------------------------------------------------------
(* The strengthened invariant of the hash commands of a key.               *)
THEOREM HashAlwaysIInv == HashSpec => []HashIInv
<1>1. HashInit => HashIInv
    BY HashInitIInv
<1>2. HashIInv /\ [HashNext]_hashVars => HashIInv'
    BY HashNextIInv
<1> QED BY <1>1, <1>2, PTL DEF HashSpec

(* A hash has one encoding at a time, and the loops their bounds.          *)
THEOREM HashTypeCorrect == HashSpec => []HashTypeOK
<1>1. HashIInv => HashTypeOK
    <2> SUFFICES ASSUME HashIInv PROVE HashTypeOK
        OBVIOUS
    <2>1. Sound(hash) /\ HashLooping
        BY DEF HashIInv
    <2>2. /\ hash.enc \in {"none", "ziplist", "ht"}
          /\ hash.zl \in Seq(Fields \X Strings) /\ hash.ht \in Maps
          /\ hash = [enc |-> hash.enc, zl |-> hash.zl, ht |-> hash.ht]
        BY <2>1 DEF Sound, HashValue, PairSeq
    <2>3. hcmd.op # "none" => hash # NoHash
        BY <2>1, NoneIsNoHash DEF HashLooping
    <2> QED BY <2>1, <2>2, <2>3 DEF HashTypeOK, Sound, HashLooping
<1> QED BY <1>1, HashAlwaysIInv, PTL

(* hashCheckPromote is called wherever a ziplist may have grown            *)
(* (eval_hash.go:43-65).                                                   *)
THEOREM HashAlwaysSettled == HashSpec => []HashSettled
<1>1. HashIInv => HashSettled
    BY DEF HashIInv, HashSettled, Short, HashIdle
<1> QED BY <1>1, HashAlwaysIInv, PTL

(* HDEL takes the key away with its last field (eval_hash.go:209-222).     *)
THEOREM NoHashEverEmpty == HashSpec => []NoEmptyHash
<1>1. HashIInv => NoEmptyHash
    <2> SUFFICES ASSUME HashIInv, hcmd = HashIdle, hash # NoHash PROVE HashLen(hash) > 0
        BY DEF NoEmptyHash
    <2>1. Sound(hash) /\ HashFields # {}
        BY NoneIsNoHash DEF HashIInv, HashIdle
    <2>2. HashLen(hash) = Cardinality(HashFields) /\ IsFiniteSet(HashFields)
        BY <2>1, LenIs, FieldsFinite DEF HashFields
    <2> QED BY <2>1, <2>2, FS_EmptySet, FS_CardinalityType
<1> QED BY <1>1, HashAlwaysIInv, PTL

(* Whatever its encoding, the hash is a map from fields to values, and     *)
(* every command of eval_hash.go answers as for that map.                  *)
THEOREM HashImplementation == HashSpec => ImplementsHash
<1>1. HashInit => HAbs!Init
    BY HashInitIInv
<1>2. HashIInv /\ [HashNext]_hashVars =>
          [HAbs!Next]_<<MapOf(hash), [op |-> hcmd.op, before |-> hcmd.before], hsaid>>
    BY HashNextIInv
<1> QED BY <1>1, <1>2, HashAlwaysIInv, PTL DEF HashSpec, ImplementsHash, HAbs!Spec
-----------------------------------------------------------------------------
(* Sets.                                                                   *)
(* The loops keep their count: what SADD has added, and what SREM has      *)
(* removed, since they began.                                              *)
Members == MembersOf(set)
SetCounted ==
    /\ scmd.op = "sadd" => /\ scmd.before \subseteq Members
                           /\ scmd.count = Cardinality(Members \ scmd.before)
    /\ scmd.op = "srem" => /\ Members \subseteq scmd.before
                           /\ scmd.count = Cardinality(scmd.before \ Members)

SetLooping ==
    /\ scmd \in [op : {"none", "sadd", "srem"}, n : 0..MaxArgs, count : 0..MaxArgs,
                 before : SUBSET Strings]
    /\ scmd.op = "none" <=> scmd = SetIdle
    /\ scmd.op # "none" => set.enc # "none"
    /\ scmd.count <= scmd.n

(* A set has members but in the middle of SREM.                            *)
SetIInv ==
    /\ SetSound(set) /\ SetLooping /\ SetCounted
    /\ scmd.op # "srem" /\ set.enc # "none" => Members # {}

(* A round of a loop, and what it is abstractly.                           *)
LEMMA SetRoundIs ==
    ASSUME SetIInv, NEW op \in {"sadd", "srem"}, NEW counts, SetRound(op, counts),
           NEW D, scmd.op = "none" => D = Members, scmd.op # "none" => D = scmd.before
    PROVE  /\ scmd.op \in {"none", op} /\ scmd.count \in Nat /\ D \in SUBSET Strings
           /\ scmd' \in [op : {"none", "sadd", "srem"}, n : 0..MaxArgs, count : 0..MaxArgs,
                         before : SUBSET Strings]
           /\ scmd'.op = op /\ scmd' # SetIdle /\ scmd'.count <= scmd'.n
           /\ scmd'.before = D
           /\ scmd'.count = scmd.count + (IF counts THEN 1 ELSE 0)
           /\ scmd.op = "none" => scmd.count = 0
           /\ SAbs!Begun(op)
<1>1. /\ scmd.op \in {"none", op} /\ scmd.n < MaxArgs
      /\ scmd' = [op |-> op, n |-> scmd.n + 1,
                  count |-> scmd.count + (IF counts THEN 1 ELSE 0),
                  before |-> IF scmd.op = op THEN scmd.before ELSE MembersOf(set)]
      /\ ssaid' = NoAnswer
    BY DEF SetRound
<1>2. /\ scmd \in [op : {"none", "sadd", "srem"}, n : 0..MaxArgs, count : 0..MaxArgs,
                   before : SUBSET Strings]
      /\ scmd.count <= scmd.n /\ (scmd.op = "none" <=> scmd = SetIdle)
    BY DEF SetIInv, SetLooping
<1>3. Members \subseteq Strings /\ MembersOf(set) = Members
    BY MembersAre DEF SetIInv, Members
<1>4. /\ scmd.n \in Nat /\ scmd.count \in Nat /\ scmd.count <= scmd.n /\ MaxArgs \in Nat
      /\ scmd.before \in SUBSET Strings
    BY <1>2, ReplyAssumption
<1>5. scmd'.before = D /\ D \in SUBSET Strings
    BY <1>1, <1>3, <1>4
<1>6. scmd.op = "none" => scmd = SetIdle /\ scmd.count = 0 /\ scmd.before = {}
    BY <1>2 DEF SetIdle
<1>7. /\ scmd'.n = scmd.n + 1 /\ scmd'.count = scmd.count + (IF counts THEN 1 ELSE 0)
      /\ scmd'.op = op /\ op # "none"
    BY <1>1
<1>8. scmd' \in [op : {"none", "sadd", "srem"}, n : 0..MaxArgs, count : 0..MaxArgs,
                 before : SUBSET Strings]
    <2>1. scmd.n + 1 \in 0..MaxArgs /\ scmd.count + (IF counts THEN 1 ELSE 0) \in 0..MaxArgs
        BY <1>1, <1>4
    <2> QED BY <2>1, <1>1, <1>5
<1>9. scmd'.count <= scmd'.n
    BY <1>4, <1>7
<1>10. scmd' # SetIdle
    BY <1>7 DEF SetIdle
<1>11. SAbs!Begun(op)
    <2>1. CASE scmd.op = "none"
        BY <2>1, <1>1, <1>3, <1>6, <1>7 DEF SAbs!Begun, SAbs!Nothing, SAbs!Idle, SAbs!NoAnswer, NoAnswer,
            Members
    <2>2. CASE scmd.op = op
        BY <2>2, <1>1, <1>7 DEF SAbs!Begun, SAbs!Nothing, SAbs!Idle, SAbs!NoAnswer, NoAnswer
    <2> QED BY <1>1, <2>1, <2>2
<1> QED BY <1>1, <1>4, <1>5, <1>6, <1>7, <1>8, <1>9, <1>10, <1>11

(* A round of SADD.                                                        *)
LEMMA SAddKeeps ==
    ASSUME SetIInv, NEW m \in Strings, SAdd(m)
    PROVE  SetIInv' /\ SAbs!SAdd(m)
<1> DEFINE s == SetCreated(set, m)
           x == Spelled(s, m)
           c == ~IsMember(s, m)
           D == IF scmd.op = "none" THEN Members ELSE scmd.before
<1>1. SetSound(set) /\ SetLooping /\ SetCounted
    BY DEF SetIInv
<1>2. SetSound(s) /\ s.enc # "none" /\ MembersOf(s) = Members
    BY <1>1, SetCreatedIs DEF Members
<1>3. (c <=> x \notin Members) /\ x \in SAbs!Spellings(m) /\ x \in Strings
    <2>1. (IsMember(s, m) <=> x \in Members) /\ x \in Spellings(m) /\ x \in Strings
        BY <1>2, IsMemberIs
    <2> QED BY <2>1 DEF SAbs!Spellings, Spellings, SAbs!IsInt, IsInt
<1>4. SetRound("sadd", c) /\ set' = SetAdd(s, m)
    BY DEF SAdd
<1>5. SetSound(set') /\ set'.enc # "none" /\ Members' = Members \cup {x}
    <2>1. /\ SetSound(SetAdd(s, m)) /\ SetAdd(s, m).enc # "none"
          /\ MembersOf(SetAdd(s, m)) = MembersOf(s) \cup {x}
        BY <1>2, SetAddIs
    <2> QED BY <2>1, <1>2, <1>4 DEF Members
<1> HIDE DEF s, x, c
<1>6. /\ scmd.op \in {"none", "sadd"} /\ scmd.count \in Nat /\ D \in SUBSET Strings
      /\ scmd' \in [op : {"none", "sadd", "srem"}, n : 0..MaxArgs, count : 0..MaxArgs,
                    before : SUBSET Strings]
      /\ scmd'.op = "sadd" /\ scmd' # SetIdle /\ scmd'.count <= scmd'.n
      /\ scmd'.before = D
      /\ scmd'.count = scmd.count + (IF c THEN 1 ELSE 0)
      /\ scmd.op = "none" => scmd.count = 0
      /\ SAbs!Begun("sadd")
    BY <1>1, <1>4, SetRoundIs
<1>7. D \subseteq Members /\ scmd.count = Cardinality(Members \ D)
    <2>1. CASE scmd.op = "none"
        <3>1. Members \ D = {}
            BY <2>1
        <3> QED BY <3>1, <2>1, <1>6, FS_EmptySet
    <2>2. CASE scmd.op = "sadd"
        BY <2>2, <1>1 DEF SetCounted
    <2> QED BY <2>1, <2>2, <1>6
<1> HIDE DEF D
<1>8. Cardinality(Members' \ D) = scmd'.count
    <2>1. IsFiniteSet(Members \ D)
        <3>1. Members \ D \in SUBSET Strings
            BY <1>1, MembersAre DEF Members
        <3> QED BY <3>1, Finite
    <2>2. CASE x \in Members
        <3>1. Members' \ D = Members \ D
            BY <1>5, <2>2
        <3>2. scmd'.count = scmd.count
            BY <2>2, <1>3, <1>6
        <3> QED BY <3>1, <3>2, <1>7
    <2>3. CASE x \notin Members
        <3>1. Members' \ D = (Members \ D) \cup {x} /\ x \notin Members \ D
            BY <1>5, <1>7, <2>3
        <3>2. scmd'.count = scmd.count + 1
            BY <2>3, <1>3, <1>6
        <3> QED BY <3>1, <3>2, <2>1, <1>7, FS_AddElement
    <2> QED BY <2>2, <2>3
<1>9. SetLooping'
    <2>1. scmd'.op # "none"
        BY <1>6
    <2> QED BY <2>1, <1>5, <1>6 DEF SetLooping
<1>10. SetCounted'
    BY <1>5, <1>6, <1>7, <1>8 DEF SetCounted
<1>11. SetIInv'
    BY <1>5, <1>6, <1>9, <1>10 DEF SetIInv
<1>12. SAbs!SAdd(m)
    BY <1>3, <1>5, <1>6 DEF SAbs!SAdd, Members
<1> QED BY <1>11, <1>12

(* A round of SREM.                                                        *)
LEMMA SRemKeeps ==
    ASSUME SetIInv, NEW m \in Strings, SRem(m)
    PROVE  SetIInv' /\ SAbs!SRem(m)
<1> DEFINE x == Spelled(set, m)
           c == IsMember(set, m)
           D == IF scmd.op = "none" THEN Members ELSE scmd.before
<1>1. SetSound(set) /\ SetLooping /\ SetCounted /\ set.enc # "none"
    BY MembersAre DEF SetIInv, SRem
<1>2. Members \in SUBSET Strings
    BY <1>1, MembersAre DEF Members
<1>3. (c <=> x \in Members) /\ x \in SAbs!Spellings(m) /\ x \in Strings
    <2>1. (c <=> x \in Members) /\ x \in Spellings(m) /\ x \in Strings
        BY <1>1, IsMemberIs DEF Members
    <2> QED BY <2>1 DEF SAbs!Spellings, Spellings, SAbs!IsInt, IsInt
<1>4. SetRound("srem", c) /\ set' = SetRem(set, m)
    BY DEF SRem
<1>5. SetSound(set') /\ set'.enc # "none" /\ Members' = Members \ {x}
    BY <1>1, <1>4, SetRemIs DEF Members
<1> HIDE DEF x, c
<1>6. /\ scmd.op \in {"none", "srem"} /\ scmd.count \in Nat /\ D \in SUBSET Strings
      /\ scmd' \in [op : {"none", "sadd", "srem"}, n : 0..MaxArgs, count : 0..MaxArgs,
                    before : SUBSET Strings]
      /\ scmd'.op = "srem" /\ scmd' # SetIdle /\ scmd'.count <= scmd'.n
      /\ scmd'.before = D
      /\ scmd'.count = scmd.count + (IF c THEN 1 ELSE 0)
      /\ scmd.op = "none" => scmd.count = 0
      /\ SAbs!Begun("srem")
    BY <1>4, SetRoundIs
<1>7. Members \subseteq D /\ scmd.count = Cardinality(D \ Members)
    <2>1. CASE scmd.op = "none"
        <3>1. D \ Members = {}
            BY <2>1
        <3> QED BY <3>1, <2>1, <1>6, FS_EmptySet
    <2>2. CASE scmd.op = "srem"
        BY <2>2, <1>1 DEF SetCounted
    <2> QED BY <2>1, <2>2, <1>6
<1> HIDE DEF D
<1>8. Cardinality(D \ Members') = scmd'.count
    <2>1. IsFiniteSet(D \ Members)
        <3>1. D \ Members \in SUBSET Strings
            BY <1>6
        <3> QED BY <3>1, Finite
    <2>2. CASE x \in Members
        <3>1. D \ Members' = (D \ Members) \cup {x} /\ x \notin D \ Members
            BY <1>5, <1>7, <2>2
        <3>2. scmd'.count = scmd.count + 1
            BY <2>2, <1>3, <1>6
        <3> QED BY <3>1, <3>2, <2>1, <1>7, FS_AddElement
    <2>3. CASE x \notin Members
        <3>1. D \ Members' = D \ Members
            BY <1>5, <2>3
        <3>2. scmd'.count = scmd.count
            BY <2>3, <1>3, <1>6
        <3> QED BY <3>1, <3>2, <1>7
    <2> QED BY <2>2, <2>3
<1>9. SetLooping'
    <2>1. scmd'.op # "none"
        BY <1>6
    <2> QED BY <2>1, <1>5, <1>6 DEF SetLooping
<1>10. SetCounted'
    BY <1>5, <1>6, <1>7, <1>8 DEF SetCounted
<1>11. SetIInv'
    BY <1>5, <1>6, <1>9, <1>10 DEF SetIInv
<1>12. SAbs!SRem(m)
    BY <1>3, <1>5, <1>6 DEF SAbs!SRem, Members
<1> QED BY <1>11, <1>12

(* Between commands a set may be replaced by any that is not empty.        *)
LEMMA SetIdleKeeps ==
    ASSUME scmd' = SetIdle, SetSound(set'), set'.enc # "none" => MembersOf(set') # {}
    PROVE  SetIInv' /\ [op |-> scmd'.op, before |-> scmd'.before] = SAbs!Nothing
<1>1. /\ SetIdle \in [op : {"none", "sadd", "srem"}, n : 0..MaxArgs, count : 0..MaxArgs,
                      before : SUBSET Strings]
      /\ SetIdle.op = "none" /\ SetIdle.count <= SetIdle.n /\ SetIdle.before = {}
    BY ReplyAssumption DEF SetIdle
<1> QED BY <1>1 DEF SetIInv, SetLooping, SetCounted, Members, SAbs!Nothing

(* A cardinality of the abstract set is one of ours.                       *)
LEMMA SetSameSize == ASSUME NEW S PROVE SAbs!Cardinality(S) = Cardinality(S)
    BY Zenon DEF SAbs!Cardinality, Cardinality

(* The ends of the loops: the count is told, and an emptied set is gone.   *)
LEMMA SetEndsKeep ==
    ASSUME SetIInv, SAddEnd \/ SRemEnd
    PROVE  SetIInv' /\ (SAbs!SAddEnd \/ SAbs!SRemEnd)
<1>1. SetSound(set) /\ SetLooping /\ SetCounted
    BY DEF SetIInv
<1>2. CASE SAddEnd
    <2>1. scmd.op = "sadd" /\ scmd' = SetIdle /\ ssaid' = <<"sadd", scmd.count>> /\ set' = set
        BY <1>2 DEF SAddEnd, EndSetRounds
    <2>2. set.enc # "none" => Members # {}
        BY <2>1 DEF SetIInv
    <2>3. SetIInv' /\ [op |-> scmd'.op, before |-> scmd'.before] = SAbs!Nothing
        BY <1>1, <2>1, <2>2, SetIdleKeeps DEF Members
    <2>4. scmd.count = Cardinality(Members \ scmd.before)
        BY <1>1, <2>1 DEF SetCounted
    <2>5. SAbs!SAddEnd
        BY <2>1, <2>3, <2>4, SetSameSize DEF SAbs!SAddEnd, SAbs!Ended, Members
    <2> QED BY <2>3, <2>5
<1>3. CASE SRemEnd
    <2>1. /\ scmd.op = "srem" /\ scmd' = SetIdle /\ ssaid' = <<"srem", scmd.count>>
          /\ set' = IF SetLen(set) = 0 THEN NoSet ELSE set
        BY <1>3 DEF SRemEnd, EndSetRounds
    <2>2. SetLen(set) = 0 <=> Members = {}
        BY <1>1, MembersAre, Finite DEF Members
    <2>3. SetSound(set') /\ MembersOf(set') = Members /\ (set'.enc # "none" => MembersOf(set') # {})
        <3>1. CASE Members = {}
            BY <3>1, <2>1, <2>2, NoSetIs
        <3>2. CASE Members # {}
            BY <3>2, <2>1, <2>2, <1>1 DEF Members
        <3> QED BY <3>1, <3>2
    <2>4. SetIInv' /\ [op |-> scmd'.op, before |-> scmd'.before] = SAbs!Nothing
        BY <2>1, <2>3, SetIdleKeeps
    <2>5. scmd.count = Cardinality(scmd.before \ Members)
        BY <1>1, <2>1 DEF SetCounted
    <2>6. SAbs!SRemEnd
        BY <2>1, <2>3, <2>4, <2>5, SetSameSize DEF SAbs!SRemEnd, SAbs!Ended, Members
    <2> QED BY <2>4, <2>6
<1> QED BY <1>2, <1>3

(* A read leaves all as it was.                                            *)
LEMMA SetAnswerKeeps ==
    ASSUME SetIInv, NEW op, NEW val, SetAnswer(op, val)
    PROVE  SetIInv' /\ SAbs!Said(op, val)
<1>1. scmd = SetIdle /\ scmd' = scmd /\ set' = set /\ ssaid' = <<op, val>>
    BY DEF SetAnswer
<1>2. SetIInv'
    BY <1>1 DEF SetIInv, SetLooping, SetCounted, Members
<1> QED BY <1>1, <1>2 DEF SAbs!Said, SAbs!Idle, SAbs!Nothing, SetIdle

(* SISMEMBER, SCARD, SMEMBERS, and SREM on a missing key.                  *)
LEMMA SetReadKeeps ==
    ASSUME SetIInv, (\E m \in Strings : SIsMember(m)) \/ SCard \/ SMembers \/ SRemMissing
    PROVE  SetIInv' /\ SAbs!Next
<1>1. SetSound(set)
    BY DEF SetIInv
<1>2. ASSUME NEW m \in Strings, SIsMember(m)
      PROVE  SetIInv' /\ SAbs!Next
    <2> DEFINE x == Spelled(set, m)
               val == <<m, IsMember(set, m)>>
    <2>1. x \in SAbs!Spellings(m) /\ val = <<m, x \in MembersOf(set)>>
        BY <1>1, IsMemberIs, IsMemberEquals
        DEF SAbs!Spellings, Spellings, SAbs!IsInt, IsInt
    <2>2. SetAnswer("sismember", val)
        BY <1>2 DEF SIsMember
    <2> HIDE DEF x, val
    <2>3. SetIInv' /\ SAbs!Said("sismember", val)
        BY <2>2, SetAnswerKeeps
    <2> QED BY <2>1, <2>3 DEF SAbs!Next, SAbs!Read
<1>3. CASE SCard
    <2>1. SetAnswer("scard", Cardinality(MembersOf(set)))
        BY <1>1, <1>3, MembersAre DEF SCard
    <2>2. SetIInv' /\ SAbs!Said("scard", Cardinality(MembersOf(set)))
        BY <2>1, SetAnswerKeeps
    <2>3. SAbs!Cardinality(MembersOf(set)) = Cardinality(MembersOf(set))
        BY SetSameSize
    <2> QED BY <2>2, <2>3 DEF SAbs!Next, SAbs!Read
<1>4. CASE SMembers
    <2>1. SetIInv' /\ SAbs!Said("smembers", MembersOf(set))
        BY <1>4, SetAnswerKeeps DEF SMembers
    <2> QED BY <2>1 DEF SAbs!Next, SAbs!Read
<1>5. CASE SRemMissing
    <2>1. SetIInv' /\ SAbs!Said("srem", 0) /\ MembersOf(set) = {}
        BY <1>5, NoSetIs, SetAnswerKeeps DEF SRemMissing
    <2> QED BY <2>1 DEF SAbs!Next, SAbs!SRemNothing
<1> QED BY <1>2, <1>3, <1>4, <1>5

(* The other set of SINTER and SUNION is one of strings.                   *)
LEMMA OtherMembers ==
    ASSUME NEW other \in OtherSets
    PROVE  MembersOf(other) \in SUBSET Strings
<1>1. CASE other = NoSet
    BY <1>1, NoSetIs
<1>2. ASSUME NEW n \in Numbers, other = IntSet(<<n>>)
      PROVE  MembersOf(other) \in SUBSET Strings
    <2>1. <<n>> \in Seq(Numbers) /\ Len(<<n>>) = 1
        OBVIOUS
    <2>2. Sorted(<<n>>)
        <3>1. \A i, j \in DOMAIN <<n>> : ~(i < j)
            BY <2>1
        <3> QED BY <3>1 DEF Sorted
    <2> QED BY <1>2, <2>1, <2>2, IntSetIs
<1>3. ASSUME NEW s \in {s \in Numbers \X Numbers : s[1] < s[2]}, other = IntSet(s)
      PROVE  MembersOf(other) \in SUBSET Strings
    <2>1. PICK a \in Numbers, b \in Numbers : s = <<a, b>> /\ a < b
        OBVIOUS
    <2>2. s \in Seq(Numbers) /\ DOMAIN s = 1..2 /\ s[1] = a /\ s[2] = b
        BY <2>1
    <2>3. Sorted(s)
        <3>1. ASSUME NEW i \in 1..2, NEW j \in 1..2, i < j PROVE i = 1 /\ j = 2
            BY <3>1
        <3> QED BY <2>1, <2>2, <3>1 DEF Sorted
    <2> QED BY <1>3, <2>2, <2>3, IntSetIs
<1>4. ASSUME NEW S \in SUBSET Strings, other = Hashed(S)
      PROVE  MembersOf(other) \in SUBSET Strings
    BY <1>4, HashedIs
<1>5. CASE other \in {IntSet(<<n>>) : n \in Numbers}
    BY <1>2, <1>5
<1>6. CASE other \in {IntSet(s) : s \in {s \in Numbers \X Numbers : s[1] < s[2]}}
    BY <1>3, <1>6
<1>7. CASE other \in {Hashed(S) : S \in {S \in SUBSET Strings : Cardinality(S) \in 1..2}}
    BY <1>4, <1>7
<1>8. \/ other = NoSet
      \/ other \in {IntSet(<<n>>) : n \in Numbers}
      \/ other \in {IntSet(s) : s \in {s \in Numbers \X Numbers : s[1] < s[2]}}
      \/ other \in {Hashed(S) : S \in {S \in SUBSET Strings : Cardinality(S) \in 1..2}}
    BY DEF OtherSets
<1> QED BY <1>1, <1>5, <1>6, <1>7, <1>8

(* A missing key empties the intersection, as an empty set would.          *)
LEMMA SetCombineKeeps ==
    ASSUME SetIInv, NEW other \in OtherSets, SInter(other) \/ SUnion(other)
    PROVE  SetIInv' /\ SAbs!Next
<1> DEFINE T == MembersOf(other)
<1>1. T \in SUBSET Strings
    BY OtherMembers
<1>2. (set = NoSet => MembersOf(set) = {}) /\ (other = NoSet => T = {})
    BY NoSetIs
<1> HIDE DEF T
<1>3. CASE SInter(other)
    <2>1. SetAnswer("sinter", <<T, IF set = NoSet \/ other = NoSet THEN {}
                                   ELSE MembersOf(set) \cap T>>)
        BY <1>3 DEF SInter, T
    <2>2. (IF set = NoSet \/ other = NoSet THEN {} ELSE MembersOf(set) \cap T)
              = MembersOf(set) \cap T
        BY <1>2
    <2>3. SetAnswer("sinter", <<T, MembersOf(set) \cap T>>)
        BY <2>1, <2>2
    <2>4. SetIInv' /\ SAbs!Said("sinter", <<T, MembersOf(set) \cap T>>)
        BY <2>3, SetAnswerKeeps
    <2> QED BY <1>1, <2>4 DEF SAbs!Next, SAbs!Combine
<1>4. CASE SUnion(other)
    <2>1. SetAnswer("sunion", <<T, MembersOf(set) \cup T>>)
        BY <1>4 DEF SUnion, T
    <2>2. SetIInv' /\ SAbs!Said("sunion", <<T, MembersOf(set) \cup T>>)
        BY <2>1, SetAnswerKeeps
    <2> QED BY <1>1, <2>2 DEF SAbs!Next, SAbs!Combine
<1> QED BY <1>3, <1>4

(* The key goes, with its set.                                             *)
LEMMA SetDroppedKeeps ==
    ASSUME SetIInv, SetDropped
    PROVE  SetIInv' /\ SAbs!Drop
<1>1. scmd = SetIdle /\ scmd' = SetIdle /\ scmd' = scmd /\ set' = NoSet /\ ssaid' = NoAnswer
    BY DEF SetDropped
<1>2. SetIInv' /\ MembersOf(set') = {}
    BY <1>1, NoSetIs, SetIdleKeeps
<1>3. /\ SAbs!Idle
      /\ [op |-> scmd'.op, before |-> scmd'.before] = [op |-> scmd.op, before |-> scmd.before]
    BY <1>1 DEF SAbs!Idle, SAbs!Nothing, SetIdle
<1> QED BY <1>1, <1>2, <1>3 DEF SAbs!Drop, SAbs!NoAnswer, NoAnswer

(* A step of nothing.                                                      *)
LEMMA SetStutters ==
    ASSUME SetIInv, UNCHANGED setVars
    PROVE  /\ SetIInv'
           /\ UNCHANGED <<MembersOf(set), [op |-> scmd.op, before |-> scmd.before], ssaid>>
    BY DEF setVars, SetIInv, SetLooping, SetCounted, Members

(* There is no set at first.                                               *)
LEMMA SetInitIInv == SetInit => SetIInv /\ SAbs!Init
<1> SUFFICES ASSUME SetInit PROVE SetIInv /\ SAbs!Init
    OBVIOUS
<1>1. set = NoSet /\ scmd = SetIdle /\ ssaid = NoAnswer
    BY DEF SetInit
<1>2. /\ SetIdle \in [op : {"none", "sadd", "srem"}, n : 0..MaxArgs, count : 0..MaxArgs,
                       before : SUBSET Strings]
      /\ SetIdle.op = "none" /\ SetIdle.count <= SetIdle.n
    BY ReplyAssumption DEF SetIdle
<1>3. SetIInv
    BY <1>1, <1>2, NoSetIs DEF SetIInv, SetLooping, SetCounted
<1>4. SAbs!Init
    BY <1>1, NoSetIs DEF SAbs!Init, SAbs!Nothing, SetIdle, SAbs!NoAnswer, NoAnswer
<1> QED BY <1>3, <1>4

(* A step of a command on an intset or a map is one on the abstract set.   *)
LEMMA SetNextIInv ==
    SetIInv /\ [SetNext]_setVars =>
        SetIInv' /\ [SAbs!Next]_<<MembersOf(set), [op |-> scmd.op, before |-> scmd.before], ssaid>>
<1> SUFFICES ASSUME SetIInv, [SetNext]_setVars
             PROVE  SetIInv' /\ [SAbs!Next]_<<MembersOf(set), [op |-> scmd.op, before |-> scmd.before], ssaid>>
    OBVIOUS
<1>1. ASSUME NEW m \in Strings, SAdd(m)
      PROVE  SetIInv' /\ SAbs!Next
    BY <1>1, SAddKeeps DEF SAbs!Next
<1>2. ASSUME NEW m \in Strings, SRem(m)
      PROVE  SetIInv' /\ SAbs!Next
    BY <1>2, SRemKeeps DEF SAbs!Next
<1>3. CASE SAddEnd \/ SRemEnd
    BY <1>3, SetEndsKeep DEF SAbs!Next
<1>4. CASE (\E m \in Strings : SIsMember(m)) \/ SCard \/ SMembers \/ SRemMissing
    BY <1>4, SetReadKeeps
<1>5. ASSUME NEW other \in OtherSets, SInter(other) \/ SUnion(other)
      PROVE  SetIInv' /\ SAbs!Next
    BY <1>5, SetCombineKeeps
<1>6. CASE SetDropped
    BY <1>6, SetDroppedKeeps DEF SAbs!Next
<1>7. CASE UNCHANGED setVars
    BY <1>7, SetStutters
<1> QED BY <1>1, <1>2, <1>3, <1>4, <1>5, <1>6, <1>7 DEF SetNext
-----------------------------------------------------------------------------
(* The strengthened invariant of the set commands of a key.                *)
THEOREM SetAlwaysIInv == SetSpec => []SetIInv
<1>1. SetInit => SetIInv
    BY SetInitIInv
<1>2. SetIInv /\ [SetNext]_setVars => SetIInv'
    BY SetNextIInv
<1> QED BY <1>1, <1>2, PTL DEF SetSpec

(* A set has one encoding at a time, and the loops their bounds.           *)
THEOREM SetTypeCorrect == SetSpec => []SetTypeOK
<1>1. SetIInv => SetTypeOK
    <2> SUFFICES ASSUME SetIInv PROVE SetTypeOK
        OBVIOUS
    <2>1. SetSound(set) /\ SetLooping
        BY DEF SetIInv
    <2>2. /\ set.enc \in {"none", "intset", "ht"}
          /\ set.is \in Seq(Numbers) /\ set.ht \in SUBSET Strings
          /\ set = [enc |-> set.enc, is |-> set.is, ht |-> set.ht]
        BY <2>1 DEF SetSound, SetValue
    <2>3. scmd.op # "none" => set # NoSet
        BY <2>1, NoSetIs DEF SetLooping
    <2> QED BY <2>1, <2>2, <2>3 DEF SetTypeOK, SetSound, SetLooping
<1> QED BY <1>1, SetAlwaysIInv, PTL

(* The array the binary search relies on is sorted in every state, and the *)
(* promotion keeps it short (intset.go:51-72, eval_set.go:72-76).          *)
THEOREM IntSetAlwaysSorted == SetSpec => []IntSetSorted
<1>1. SetIInv => IntSetSorted
    BY DEF SetIInv, SetSound, Sorted, IntSetSorted
<1> QED BY <1>1, SetAlwaysIInv, PTL

(* SREM takes the key away with its last member (eval_set.go:148-158).     *)
THEOREM NoSetEverEmpty == SetSpec => []NoEmptySet
<1>1. SetIInv => NoEmptySet
    <2> SUFFICES ASSUME SetIInv, scmd = SetIdle, set # NoSet PROVE SetLen(set) > 0
        BY DEF NoEmptySet
    <2>1. SetSound(set) /\ scmd.op = "none"
        BY DEF SetIInv, SetIdle
    <2>2. set.enc # "none"
        BY <2>1, MembersAre
    <2>3. Members # {} /\ Members \in SUBSET Strings /\ SetLen(set) = Cardinality(Members)
        BY <2>1, <2>2, MembersAre DEF SetIInv, Members
    <2>4. IsFiniteSet(Members)
        BY <2>3, SetAssumption, FS_Subset
    <2> QED BY <2>3, <2>4, FS_EmptySet, FS_CardinalityType
<1> QED BY <1>1, SetAlwaysIInv, PTL

(* Whatever its encoding, the set is a set of strings up to the spelling   *)
(* of integers, and every command of eval_set.go answers as for that set.  *)
THEOREM SetImplementation == SetSpec => ImplementsSet
<1>1. SetInit => SAbs!Init
    BY SetInitIInv
<1>2. SetIInv /\ [SetNext]_setVars =>
          [SAbs!Next]_<<MembersOf(set), [op |-> scmd.op, before |-> scmd.before], ssaid>>
    BY SetNextIInv
<1> QED BY <1>1, <1>2, SetAlwaysIInv, PTL DEF SetSpec, ImplementsSet, SAbs!Spec
-----------------------------------------------------------------------------
(* Lists.  The nodes are a set with pointers.  Strung(q, s, n) says that s *)
(* is an order of the n nodes that the pointers agree with, All(zl, s, n)  *)
(* is what the nodes have in that order, and Holds(q, l) that this is l.   *)
(* The invariant is that some l is held; each operation is shown to make,  *)
(* of a record that holds l, one that holds what ListAbs says.             *)

(* The i-th of n nodes in an order, and nil beyond its ends.               *)
Link(s, n, i) == IF i \in 1..n THEN s[i] ELSE NoNode

(* The nodes of q are the n nodes of s, linked both ways in that order.    *)
Strung(q, s, n) ==
    /\ n \in Nat /\ s \in [1..n -> Nat \ {0}]
    /\ \A i, j \in 1..n : s[i] = s[j] => i = j
    /\ Nodes(q) = {s[i] : i \in 1..n}
    /\ q.next \in [Nodes(q) -> Nat] /\ q.prev \in [Nodes(q) -> Nat]
    /\ q.head = Link(s, n, 1) /\ q.tail = Link(s, n, n) /\ q.len = n
    /\ \A i \in 1..n : q.next[s[i]] = Link(s, n, i + 1) /\ q.prev[s[i]] = Link(s, n, i - 1)

(* An order with one node more or one less, at either end.                 *)
Ahead(a, s, n) == [i \in 1..(n + 1) |-> IF i = 1 THEN a ELSE s[i - 1]]
Behind(a, s, n) == [i \in 1..(n + 1) |-> IF i = n + 1 THEN a ELSE s[i]]
Rest(s, n) == [i \in 1..(n - 1) |-> s[i + 1]]
Most(s, n) == [i \in 1..(n - 1) |-> s[i]]

(* The elements of the ziplists zl of the nodes of s, one after the other. *)
All(zl, s, n) == FlattenSeq([i \in 1..n |-> zl[s[i]]])

(* A list that is strung has as many nodes as its order has places.        *)
LEMMA NodesCounted ==
    ASSUME NEW q, NEW s, NEW n, Strung(q, s, n)
    PROVE  IsFiniteSet(Nodes(q)) /\ Cardinality(Nodes(q)) = n
<1>1. n \in Nat /\ s \in [1..n -> Nodes(q)]
    BY DEF Strung
<1>2. s \in Bijection(1..n, Nodes(q))
    BY <1>1 DEF Strung, Bijection, Injection, Surjection, IsInjective
<1>3. ExistsBijection(1..n, Nodes(q))
    BY <1>2 DEF ExistsBijection
<1>4. Cardinality(Nodes(q)) = n
    BY <1>1, <1>3, FS_CountingElements
<1>5. IsFiniteSet(Nodes(q))
    BY <1>1, <1>3, FS_NatBijection
<1> QED BY <1>4, <1>5

(* The address of a new node is not in use.                                *)
LEMMA FreshIsNew ==
    ASSUME NEW q, NEW s, NEW n, Strung(q, s, n)
    PROVE  Fresh(q) \in Nat \ {0} /\ Fresh(q) \notin Nodes(q)
<1>1. n \in Nat /\ IsFiniteSet(Nodes(q)) /\ Cardinality(Nodes(q)) = n
    <2>1. n \in Nat
        BY DEF Strung
    <2> QED BY <2>1, NodesCounted
<1>2. \E a \in 1..(n + 1) : a \notin Nodes(q)
    <2> SUFFICES ASSUME 1..(n + 1) \subseteq Nodes(q) PROVE FALSE
        OBVIOUS
    <2>1. Cardinality(1..(n + 1)) = n + 1
        <3>1. Cardinality(1..(n + 1)) = IF 1 > n + 1 THEN 0 ELSE (n + 1) - 1 + 1
            BY <1>1, FS_Interval
        <3> QED BY <1>1, <3>1
    <2>2. Cardinality(1..(n + 1)) <= Cardinality(Nodes(q))
        BY <1>1, FS_Subset
    <2> QED BY <1>1, <2>1, <2>2
<1>3. Fresh(q) \in 1..(n + 1) /\ Fresh(q) \notin Nodes(q)
    BY <1>1, <1>2 DEF Fresh
<1> QED BY <1>1, <1>3

(* The walk along the next pointers visits the nodes in their order.       *)
LEMMA ChainIs ==
    ASSUME NEW q, NEW s, NEW n, Strung(q, s, n)
    PROVE  Chain(q) = s
<1> DEFINE N == 1..(n + 1)
           NextOf(g, i) == IF i = 1 THEN q.head
                           ELSE IF g[i - 1] = NoNode THEN NoNode ELSE q.next[g[i - 1]]
           Follows(g) == g = [i \in N |-> NextOf(g, i)]
           f == CHOOSE g : Follows(g)
           w == [i \in N |-> Link(s, n, i)]
<1>1. /\ n \in Nat /\ Cardinality(Nodes(q)) = n /\ q.head = Link(s, n, 1)
      /\ s \in [1..n -> Nat \ {0}]
      /\ \A i \in 1..n : s[i] # NoNode /\ q.next[s[i]] = Link(s, n, i + 1)
    <2>1. Cardinality(Nodes(q)) = n
        BY NodesCounted
    <2> QED BY <2>1 DEF Strung, NoNode
<1>2. Follows(w)
    <2>1. ASSUME NEW i \in N PROVE w[i] = NextOf(w, i)
        <3>1. CASE i = 1
            BY <1>1, <3>1
        <3>2. CASE i # 1
            <4>1. i - 1 \in 1..n /\ i - 1 \in N /\ (i - 1) + 1 = i
                BY <1>1, <3>2
            <4>2. w[i - 1] = s[i - 1]
                BY <4>1 DEF Link
            <4>3. q.next[s[i - 1]] = Link(s, n, i) /\ s[i - 1] # NoNode
                BY <1>1, <4>1
            <4> QED BY <3>2, <4>2, <4>3
        <3> QED BY <3>1, <3>2
    <2> QED BY <2>1
<1>3. Follows(f)
    BY <1>2, Zenon
<1>4. Chain(q) = [i \in {j \in DOMAIN f : f[j] # NoNode} |-> f[i]]
    BY <1>1 DEF Chain
<1>5. DOMAIN f = N /\ \A i \in N : f[i] = NextOf(f, i)
    <2> HIDE DEF f
    <2> QED BY <1>3
<1> HIDE DEF f
<1>6. \A k \in Nat : k \in N => f[k] = w[k]
    <2> DEFINE T == {k \in Nat : k \in N => f[k] = w[k]}
    <2>1. 0 \in T
        OBVIOUS
    <2>2. ASSUME NEW k \in Nat, k \in T PROVE k + 1 \in T
        <3> SUFFICES ASSUME k + 1 \in N PROVE f[k + 1] = w[k + 1]
            OBVIOUS
        <3>1. f[k + 1] = NextOf(f, k + 1)
            BY <1>5
        <3>2. CASE k = 0
            BY <1>1, <3>1, <3>2
        <3>3. CASE k # 0
            <4>1. k \in N /\ k \in 1..n /\ k + 1 # 1 /\ (k + 1) - 1 = k
                BY <1>1, <3>3
            <4>2. f[k] = s[k]
                BY <2>2, <4>1 DEF Link
            <4>3. q.next[s[k]] = Link(s, n, k + 1) /\ s[k] # NoNode
                BY <1>1, <4>1
            <4> QED BY <3>1, <4>1, <4>2, <4>3
        <3> QED BY <3>2, <3>3
    <2>3. \A k \in Nat : k \in T
        <3> HIDE DEF T
        <3> QED BY <2>1, <2>2, Reached
    <2> QED BY <2>3
<1>7. \A k \in N : f[k] = Link(s, n, k)
    BY <1>1, <1>6
<1>8. {j \in DOMAIN f : f[j] # NoNode} = 1..n
    BY <1>1, <1>5, <1>7 DEF Link
<1>9. \A i \in 1..n : f[i] = s[i]
    BY <1>1, <1>7 DEF Link
<1>10. Chain(q) = [i \in 1..n |-> s[i]]
    BY <1>4, <1>8, <1>9
<1> QED BY <1>1, <1>10

(* The walk along the next pointers finds the parts in their order.        *)
LEMMA AllElementsAre ==
    ASSUME NEW q, NEW s, NEW n, Strung(q, s, n)
    PROVE  Parts(q) = [i \in 1..n |-> q.zl[s[i]]] /\ AllElements(q) = All(q.zl, s, n)
<1>1. Parts(q) = [i \in DOMAIN s |-> q.zl[s[i]]]
    BY ChainIs DEF Parts
<1>2. DOMAIN s = 1..n
    BY DEF Strung
<1> QED BY <1>1, <1>2 DEF AllElements, All
-----------------------------------------------------------------------------
(* A node at the front of the others.                                      *)
LEMMA StrungFront ==
    ASSUME NEW q, NEW s, NEW n, Strung(q, s, n), NEW a \in Nat \ {0}, a \notin Nodes(q),
           NEW r, Nodes(r) = Nodes(q) \cup {a},
           r.next \in [Nodes(r) -> Nat], r.prev \in [Nodes(r) -> Nat],
           r.head = a, r.tail = IF n = 0 THEN a ELSE q.tail, r.len = q.len + 1,
           r.next[a] = q.head, r.prev[a] = NoNode,
           \A b \in Nodes(q) : /\ r.next[b] = q.next[b]
                               /\ r.prev[b] = IF b = q.head THEN a ELSE q.prev[b]
    PROVE  Strung(r, Ahead(a, s, n), n + 1)
<1> DEFINE t == [i \in 1..(n + 1) |-> IF i = 1 THEN a ELSE s[i - 1]]
<1>1. /\ n \in Nat /\ s \in [1..n -> Nat \ {0}] /\ Nodes(q) = {s[i] : i \in 1..n}
      /\ \A i, j \in 1..n : s[i] = s[j] => i = j
      /\ q.head = Link(s, n, 1) /\ q.tail = Link(s, n, n) /\ q.len = n
      /\ \A i \in 1..n : q.next[s[i]] = Link(s, n, i + 1) /\ q.prev[s[i]] = Link(s, n, i - 1)
    BY DEF Strung
<1>2. \A i \in 1..n : s[i] \in Nodes(q)
    BY <1>1
<1>3. /\ t[1] = a /\ t \in [1..(n + 1) -> Nat \ {0}]
      /\ \A i \in 1..n : i + 1 \in 1..(n + 1) /\ t[i + 1] = s[i]
    BY <1>1
<1>4. \A i \in 1..(n + 1) : i = 1 \/ (i - 1 \in 1..n /\ t[i] = s[i - 1])
    BY <1>1
<1> HIDE DEF t
<1>5. \A i, j \in 1..(n + 1) : t[i] = t[j] => i = j
    <2> SUFFICES ASSUME NEW i \in 1..(n + 1), NEW j \in 1..(n + 1), t[i] = t[j] PROVE i = j
        OBVIOUS
    <2>1. CASE i = 1 /\ j = 1
        BY <2>1
    <2>2. CASE i # 1 /\ j # 1
        <3>1. i - 1 \in 1..n /\ j - 1 \in 1..n /\ s[i - 1] = s[j - 1]
            BY <1>4, <2>2
        <3>2. i - 1 = j - 1
            BY <1>1, <3>1
        <3> QED BY <1>1, <3>2
    <2>3. CASE (i = 1) # (j = 1)
        BY <1>2, <1>3, <1>4, <2>3
    <2> QED BY <2>1, <2>2, <2>3
<1>6. Nodes(r) = {t[i] : i \in 1..(n + 1)}
    <2>1. \A i \in 1..(n + 1) : t[i] \in Nodes(q) \cup {a}
        BY <1>2, <1>3, <1>4
    <2>2. \A b \in Nodes(q) \cup {a} : \E i \in 1..(n + 1) : b = t[i]
        BY <1>1, <1>3
    <2> QED BY <2>1, <2>2
<1>7. r.tail = Link(t, n + 1, n + 1)
    <2>1. n = 0 \/ n \in 1..n
        BY <1>1
    <2> QED BY <1>1, <1>3, <2>1 DEF Link
<1>8. r.head = Link(t, n + 1, 1)
    BY <1>1, <1>3 DEF Link
<1>9. ASSUME NEW i \in 1..(n + 1)
      PROVE  r.next[t[i]] = Link(t, n + 1, i + 1) /\ r.prev[t[i]] = Link(t, n + 1, i - 1)
    <2>1. CASE i = 1
        <3>1. Link(s, n, 1) = Link(t, n + 1, 2) /\ Link(t, n + 1, 0) = NoNode
            BY <1>1, <1>3 DEF Link
        <3> QED BY <1>1, <1>3, <2>1, <3>1
    <2>2. CASE i # 1
        <3>1. i - 1 \in 1..n /\ t[i] = s[i - 1] /\ (i - 1) + 1 = i
            BY <1>4, <2>2
        <3>2. r.next[t[i]] = Link(s, n, i)
            <4>1. s[i - 1] \in Nodes(q) /\ r.next[s[i - 1]] = q.next[s[i - 1]]
                BY <1>2, <3>1
            <4>2. q.next[s[i - 1]] = Link(s, n, (i - 1) + 1)
                BY <1>1, <3>1
            <4> QED BY <3>1, <4>1, <4>2
        <3>3. Link(s, n, i) = Link(t, n + 1, i + 1)
            BY <1>1, <1>3 DEF Link
        <3>4. r.prev[t[i]] = IF s[i - 1] = q.head THEN a ELSE Link(s, n, i - 2)
            <4>1. (i - 1) - 1 = i - 2
                OBVIOUS
            <4>2. q.prev[s[i - 1]] = Link(s, n, i - 2)
                BY <1>1, <3>1, <4>1
            <4> QED BY <1>2, <3>1, <4>2
        <3>5. 1 \in 1..n /\ (s[i - 1] = q.head <=> i = 2)
            <4>1. 1 \in 1..n /\ q.head = s[1]
                BY <1>1, <3>1 DEF Link
            <4>2. s[i - 1] = s[1] <=> i - 1 = 1
                BY <1>1, <3>1, <4>1
            <4> QED BY <3>1, <4>1, <4>2
        <3>6. CASE i = 2
            BY <1>1, <1>3, <3>2, <3>3, <3>4, <3>5, <3>6 DEF Link
        <3>7. CASE i # 2
            <4>1. i - 2 \in 1..n /\ (i - 2) + 1 = i - 1
                BY <1>1, <3>1, <3>7
            <4>2. i - 1 \in 1..(n + 1) /\ t[i - 1] = s[i - 2]
                BY <1>3, <4>1
            <4> QED BY <3>2, <3>3, <3>4, <3>5, <3>7, <4>1, <4>2 DEF Link
        <3> QED BY <3>6, <3>7
    <2> QED BY <2>1, <2>2
<1>10. n + 1 \in Nat /\ r.len = n + 1
    BY <1>1
<1>11. Strung(r, t, n + 1)
    BY <1>3, <1>5, <1>6, <1>7, <1>8, <1>9, <1>10 DEF Strung
<1> QED BY <1>11 DEF t, Ahead

(* A node behind the others.                                               *)
LEMMA StrungBack ==
    ASSUME NEW q, NEW s, NEW n, Strung(q, s, n), n # 0, NEW a \in Nat \ {0}, a \notin Nodes(q),
           NEW r, Nodes(r) = Nodes(q) \cup {a},
           r.next \in [Nodes(r) -> Nat], r.prev \in [Nodes(r) -> Nat],
           r.head = q.head, r.tail = a, r.len = q.len + 1,
           r.next[a] = NoNode, r.prev[a] = q.tail,
           \A b \in Nodes(q) : /\ r.prev[b] = q.prev[b]
                               /\ r.next[b] = IF b = q.tail THEN a ELSE q.next[b]
    PROVE  Strung(r, Behind(a, s, n), n + 1)
<1> DEFINE t == [i \in 1..(n + 1) |-> IF i = n + 1 THEN a ELSE s[i]]
<1>1. /\ n \in Nat /\ s \in [1..n -> Nat \ {0}] /\ Nodes(q) = {s[i] : i \in 1..n}
      /\ \A i, j \in 1..n : s[i] = s[j] => i = j
      /\ q.head = Link(s, n, 1) /\ q.tail = Link(s, n, n) /\ q.len = n
      /\ \A i \in 1..n : q.next[s[i]] = Link(s, n, i + 1) /\ q.prev[s[i]] = Link(s, n, i - 1)
    BY DEF Strung
<1>2. \A i \in 1..n : s[i] \in Nodes(q)
    BY <1>1
<1>3. /\ t[n + 1] = a /\ t \in [1..(n + 1) -> Nat \ {0}] /\ n + 1 \in 1..(n + 1)
      /\ \A i \in 1..n : i \in 1..(n + 1) /\ i # n + 1 /\ t[i] = s[i]
    BY <1>1
<1>4. \A i \in 1..(n + 1) : i = n + 1 \/ (i \in 1..n /\ t[i] = s[i])
    BY <1>1
<1> HIDE DEF t
<1>5. \A i, j \in 1..(n + 1) : t[i] = t[j] => i = j
    <2> SUFFICES ASSUME NEW i \in 1..(n + 1), NEW j \in 1..(n + 1), t[i] = t[j] PROVE i = j
        OBVIOUS
    <2>1. CASE i \in 1..n /\ j \in 1..n
        BY <1>1, <1>3, <2>1
    <2>2. CASE i = n + 1 \/ j = n + 1
        BY <1>2, <1>3, <1>4, <2>2
    <2> QED BY <1>4, <2>1, <2>2
<1>6. Nodes(r) = {t[i] : i \in 1..(n + 1)}
    <2>1. \A i \in 1..(n + 1) : t[i] \in Nodes(q) \cup {a}
        BY <1>2, <1>3, <1>4
    <2>2. \A b \in Nodes(q) \cup {a} : \E i \in 1..(n + 1) : b = t[i]
        BY <1>1, <1>3
    <2> QED BY <2>1, <2>2
<1>7. n \in 1..n /\ 1 \in 1..n /\ q.tail = s[n]
    BY <1>1 DEF Link
<1>8. r.head = Link(t, n + 1, 1) /\ r.tail = Link(t, n + 1, n + 1)
    BY <1>1, <1>3, <1>7 DEF Link
<1>9. ASSUME NEW i \in 1..(n + 1)
      PROVE  r.next[t[i]] = Link(t, n + 1, i + 1) /\ r.prev[t[i]] = Link(t, n + 1, i - 1)
    <2>1. CASE i = n + 1
        <3>1. Link(t, n + 1, (n + 1) + 1) = NoNode /\ Link(t, n + 1, (n + 1) - 1) = s[n]
            BY <1>1, <1>3, <1>7 DEF Link
        <3> QED BY <1>3, <1>7, <2>1, <3>1
    <2>2. CASE i # n + 1
        <3>1. i \in 1..n /\ t[i] = s[i]
            BY <1>4, <2>2
        <3>2. r.prev[t[i]] = Link(s, n, i - 1) /\ Link(s, n, i - 1) = Link(t, n + 1, i - 1)
            <4>1. s[i] \in Nodes(q) /\ r.prev[s[i]] = q.prev[s[i]] /\ q.prev[s[i]] = Link(s, n, i - 1)
                BY <1>1, <1>2, <3>1
            <4>2. Link(s, n, i - 1) = Link(t, n + 1, i - 1)
                BY <1>1, <1>3, <3>1 DEF Link
            <4> QED BY <3>1, <4>1, <4>2
        <3>3. r.next[t[i]] = IF i = n THEN a ELSE Link(s, n, i + 1)
            <4>1. /\ s[i] \in Nodes(q) /\ q.next[s[i]] = Link(s, n, i + 1)
                  /\ r.next[s[i]] = IF s[i] = q.tail THEN a ELSE q.next[s[i]]
                BY <1>1, <1>2, <3>1
            <4>2. s[i] = q.tail <=> i = n
                BY <1>1, <1>7, <3>1
            <4> QED BY <3>1, <4>1, <4>2
        <3>4. Link(t, n + 1, i + 1) = IF i = n THEN a ELSE Link(s, n, i + 1)
            BY <1>1, <1>3, <3>1 DEF Link
        <3> QED BY <3>2, <3>3, <3>4
    <2> QED BY <2>1, <2>2
<1>10. n + 1 \in Nat /\ r.len = n + 1
    BY <1>1
<1>11. Strung(r, t, n + 1)
    BY <1>3, <1>5, <1>6, <1>8, <1>9, <1>10 DEF Strung
<1> QED BY <1>11 DEF t, Behind

(* Without the node at the front.                                          *)
LEMMA StrungRest ==
    ASSUME NEW q, NEW s, NEW n, Strung(q, s, n), n # 0,
           NEW r, Nodes(r) = Nodes(q) \ {s[1]},
           r.next \in [Nodes(r) -> Nat], r.prev \in [Nodes(r) -> Nat],
           r.head = q.next[s[1]], r.tail = IF n = 1 THEN NoNode ELSE q.tail, r.len = q.len - 1,
           \A b \in Nodes(r) : /\ r.next[b] = q.next[b]
                               /\ r.prev[b] = IF b = q.next[s[1]] THEN NoNode ELSE q.prev[b]
    PROVE  Strung(r, Rest(s, n), n - 1)
<1> DEFINE t == [i \in 1..(n - 1) |-> s[i + 1]]
<1>1. /\ n \in Nat \ {0} /\ s \in [1..n -> Nat \ {0}] /\ Nodes(q) = {s[i] : i \in 1..n}
      /\ \A i, j \in 1..n : s[i] = s[j] => i = j
      /\ q.head = Link(s, n, 1) /\ q.tail = Link(s, n, n) /\ q.len = n
      /\ \A i \in 1..n : q.next[s[i]] = Link(s, n, i + 1) /\ q.prev[s[i]] = Link(s, n, i - 1)
    BY DEF Strung
<1>2. /\ t \in [1..(n - 1) -> Nat \ {0}] /\ n - 1 \in Nat /\ 1 \in 1..n /\ n \in 1..n
      /\ \A i \in 1..(n - 1) : i + 1 \in 1..n /\ i + 1 # 1 /\ t[i] = s[i + 1]
    <2>1. n - 1 \in Nat /\ 1 \in 1..n /\ n \in 1..n /\ \A i \in 1..(n - 1) : i + 1 \in 1..n /\ i + 1 # 1
        BY <1>1
    <2>2. \A i \in 1..(n - 1) : s[i + 1] \in Nat \ {0}
        BY <1>1, <2>1
    <2> QED BY <2>1, <2>2
<1>3. \A i \in 1..n : i # 1 => i - 1 \in 1..(n - 1) /\ t[i - 1] = s[i]
    <2> SUFFICES ASSUME NEW i \in 1..n, i # 1 PROVE i - 1 \in 1..(n - 1) /\ t[i - 1] = s[i]
        OBVIOUS
    <2>1. i - 1 \in 1..(n - 1) /\ (i - 1) + 1 = i
        BY <1>1
    <2> QED BY <1>2, <2>1
<1> HIDE DEF t
<1>4. ASSUME NEW i \in 1..(n - 1), NEW j \in 1..(n - 1), t[i] = t[j] PROVE i = j
    <2>1. i + 1 \in 1..n /\ j + 1 \in 1..n /\ s[i + 1] = s[j + 1]
        BY <1>2, <1>4
    <2>2. i + 1 = j + 1
        BY <1>1, <2>1
    <2> QED BY <2>2
<1>5. Nodes(r) = {t[i] : i \in 1..(n - 1)}
    <2>1. \A i \in 1..(n - 1) : t[i] \in Nodes(q) /\ t[i] # s[1]
        BY <1>1, <1>2
    <2>2. \A b \in Nodes(q) \ {s[1]} : \E i \in 1..(n - 1) : b = t[i]
        <3> SUFFICES ASSUME NEW b \in Nodes(q), b # s[1] PROVE \E i \in 1..(n - 1) : b = t[i]
            OBVIOUS
        <3>1. PICK i \in 1..n : s[i] = b
            BY <1>1
        <3> QED BY <1>3, <3>1
    <2> QED BY <2>1, <2>2
<1>6. \A i \in Nat : i # 0 => Link(s, n, i + 1) = Link(t, n - 1, i)
    BY <1>1, <1>2 DEF Link
<1>7. r.head = Link(t, n - 1, 1)
    <2>1. q.next[s[1]] = Link(s, n, 1 + 1)
        BY <1>1, <1>2
    <2> QED BY <1>6, <2>1
<1>8. r.tail = Link(t, n - 1, n - 1)
    <2>1. CASE n = 1
        BY <2>1 DEF Link
    <2>2. CASE n # 1
        BY <1>1, <1>2, <2>2 DEF Link
    <2> QED BY <2>1, <2>2
<1>9. ASSUME NEW i \in 1..(n - 1)
      PROVE  r.next[t[i]] = Link(t, n - 1, i + 1) /\ r.prev[t[i]] = Link(t, n - 1, i - 1)
    <2>1. t[i] = s[i + 1] /\ t[i] \in Nodes(r) /\ i + 1 \in 1..n /\ i + 1 \in Nat /\ i + 1 # 0
        <3>1. t[i] \in Nodes(r)
            BY <1>5, Zenon
        <3> QED BY <1>2, <3>1
    <2>2. r.next[t[i]] = Link(t, n - 1, i + 1)
        <3>1. r.next[t[i]] = Link(s, n, (i + 1) + 1)
            <4>1. r.next[t[i]] = q.next[s[i + 1]]
                BY <2>1
            <4>2. q.next[s[i + 1]] = Link(s, n, (i + 1) + 1)
                BY <1>1, <2>1
            <4> QED BY <4>1, <4>2
        <3> QED BY <1>6, <2>1, <3>1
    <2>3. r.prev[t[i]] = IF s[i + 1] = q.next[s[1]] THEN NoNode ELSE Link(s, n, (i + 1) - 1)
        <3>1. r.prev[t[i]] = IF s[i + 1] = q.next[s[1]] THEN NoNode ELSE q.prev[s[i + 1]]
            BY <2>1
        <3>2. q.prev[s[i + 1]] = Link(s, n, (i + 1) - 1)
            BY <1>1, <2>1
        <3> QED BY <3>1, <3>2
    <2>4. s[i + 1] = q.next[s[1]] <=> i = 1
        <3>1. q.next[s[1]] = Link(s, n, 1 + 1)
            BY <1>1, <1>2
        <3>2. 2 \in 1..n /\ q.next[s[1]] = s[2]
            BY <1>1, <2>1, <3>1 DEF Link
        <3>3. s[i + 1] = s[2] <=> i + 1 = 2
            BY <1>1, <2>1, <3>2
        <3> QED BY <3>2, <3>3
    <2>5. CASE i = 1
        BY <1>1, <2>2, <2>3, <2>4, <2>5 DEF Link
    <2>6. CASE i # 1
        <3>1. i - 1 \in 1..(n - 1) /\ (i - 1) + 1 = i /\ (i + 1) - 1 = i /\ i \in 1..n
            BY <1>1, <2>6
        <3>2. t[i - 1] = s[i]
            BY <1>2, <3>1
        <3> QED BY <2>2, <2>3, <2>4, <2>6, <3>1, <3>2 DEF Link
    <2> QED BY <2>5, <2>6
<1>10. r.len = n - 1
    BY <1>1
<1>11. Strung(r, t, n - 1)
    BY <1>2, <1>4, <1>5, <1>7, <1>8, <1>9, <1>10 DEF Strung
<1> QED BY <1>11 DEF t, Rest

(* Without the node at the back.                                           *)
LEMMA StrungMost ==
    ASSUME NEW q, NEW s, NEW n, Strung(q, s, n), n # 0,
           NEW r, Nodes(r) = Nodes(q) \ {s[n]},
           r.next \in [Nodes(r) -> Nat], r.prev \in [Nodes(r) -> Nat],
           r.tail = q.prev[s[n]], r.head = IF n = 1 THEN NoNode ELSE q.head, r.len = q.len - 1,
           \A b \in Nodes(r) : /\ r.prev[b] = q.prev[b]
                               /\ r.next[b] = IF b = q.prev[s[n]] THEN NoNode ELSE q.next[b]
    PROVE  Strung(r, Most(s, n), n - 1)
<1> DEFINE t == [i \in 1..(n - 1) |-> s[i]]
<1>1. /\ n \in Nat \ {0} /\ s \in [1..n -> Nat \ {0}] /\ Nodes(q) = {s[i] : i \in 1..n}
      /\ \A i, j \in 1..n : s[i] = s[j] => i = j
      /\ q.head = Link(s, n, 1) /\ q.tail = Link(s, n, n) /\ q.len = n
      /\ \A i \in 1..n : q.next[s[i]] = Link(s, n, i + 1) /\ q.prev[s[i]] = Link(s, n, i - 1)
    BY DEF Strung
<1>2. /\ t \in [1..(n - 1) -> Nat \ {0}] /\ n - 1 \in Nat /\ 1 \in 1..n /\ n \in 1..n
      /\ \A i \in 1..(n - 1) : i \in 1..n /\ i # n /\ t[i] = s[i]
    BY <1>1
<1>3. \A i \in 1..n : i # n => i \in 1..(n - 1)
    BY <1>1
<1> HIDE DEF t
<1>4. \A i, j \in 1..(n - 1) : t[i] = t[j] => i = j
    BY <1>1, <1>2
<1>5. Nodes(r) = {t[i] : i \in 1..(n - 1)}
    <2>1. \A i \in 1..(n - 1) : t[i] \in Nodes(q) /\ t[i] # s[n]
        BY <1>1, <1>2
    <2>2. ASSUME NEW b \in Nodes(q) \ {s[n]} PROVE b \in {t[i] : i \in 1..(n - 1)}
        <3>1. PICK i \in 1..n : b = s[i]
            BY <1>1
        <3>2. i \in 1..(n - 1)
            BY <1>3, <3>1
        <3>3. b = t[i]
            BY <1>2, <3>1, <3>2
        <3> QED BY <3>2, <3>3
    <2>3. Nodes(r) = Nodes(q) \ {s[n]}
        OBVIOUS
    <2>4. \A i \in 1..(n - 1) : t[i] \in Nodes(r)
        BY <2>1, <2>3
    <2> QED BY <2>2, <2>3, <2>4
<1>6. \A i \in Int : i # n => Link(s, n, i) = Link(t, n - 1, i)
    BY <1>1, <1>2, <1>3 DEF Link
<1>7. r.tail = Link(t, n - 1, n - 1)
    <2>1. q.prev[s[n]] = Link(s, n, n - 1)
        BY <1>1, <1>2
    <2>2. n - 1 # n /\ n - 1 \in Int
        BY <1>1
    <2> QED BY <1>6, <2>1, <2>2
<1>8. r.head = Link(t, n - 1, 1)
    <2>1. CASE n = 1
        BY <2>1 DEF Link
    <2>2. CASE n # 1
        BY <1>1, <1>6, <2>2
    <2> QED BY <2>1, <2>2
<1>9. ASSUME NEW i \in 1..(n - 1)
      PROVE  r.next[t[i]] = Link(t, n - 1, i + 1) /\ r.prev[t[i]] = Link(t, n - 1, i - 1)
    <2>1. t[i] = s[i] /\ t[i] \in Nodes(r) /\ i \in 1..n /\ i - 1 # n /\ i - 1 \in Int /\ i + 1 \in Int
        <3>1. t[i] \in Nodes(r)
            BY <1>5, Zenon
        <3>2. i - 1 # n /\ i - 1 \in Int /\ i + 1 \in Int
            BY <1>1
        <3> QED BY <1>2, <3>1, <3>2
    <2>2. r.prev[t[i]] = Link(t, n - 1, i - 1)
        <3>1. r.prev[t[i]] = Link(s, n, i - 1)
            <4>1. r.prev[t[i]] = q.prev[s[i]]
                BY <2>1
            <4>2. q.prev[s[i]] = Link(s, n, i - 1)
                BY <1>1, <2>1
            <4> QED BY <4>1, <4>2
        <3> QED BY <1>6, <2>1, <3>1
    <2>3. r.next[t[i]] = IF s[i] = q.prev[s[n]] THEN NoNode ELSE Link(s, n, i + 1)
        <3>1. r.next[t[i]] = IF s[i] = q.prev[s[n]] THEN NoNode ELSE q.next[s[i]]
            BY <2>1
        <3>2. q.next[s[i]] = Link(s, n, i + 1)
            BY <1>1, <2>1
        <3> QED BY <3>1, <3>2
    <2>4. s[i] = q.prev[s[n]] <=> i = n - 1
        <3>1. q.prev[s[n]] = Link(s, n, n - 1) /\ n - 1 \in 1..n
            BY <1>1, <1>2, <2>1
        <3>2. q.prev[s[n]] = s[n - 1]
            BY <3>1 DEF Link
        <3>3. s[i] = s[n - 1] => i = n - 1
            BY <1>1, <2>1, <3>1
        <3> QED BY <3>2, <3>3
    <2>5. CASE i = n - 1
        BY <1>1, <2>2, <2>3, <2>4, <2>5 DEF Link
    <2>6. CASE i # n - 1
        <3>1. i + 1 # n
            BY <1>1, <2>6
        <3> QED BY <1>6, <2>1, <2>2, <2>3, <2>4, <2>6, <3>1
    <2> QED BY <2>5, <2>6
<1>10. r.len = n - 1
    BY <1>1
<1>11. Strung(r, t, n - 1)
    BY <1>2, <1>4, <1>5, <1>7, <1>8, <1>9, <1>10 DEF Strung
<1> QED BY <1>11 DEF t, Most
-----------------------------------------------------------------------------
(* The parts of nodes that have some.                                      *)
LEMMA PartsAre ==
    ASSUME NEW n \in Nat, NEW s \in [1..n -> Nat], NEW zl, \A i \in 1..n : zl[s[i]] \in Seq(Vals)
    PROVE  /\ [i \in 1..n |-> zl[s[i]]] \in Seq(Seq(Vals))
           /\ Len([i \in 1..n |-> zl[s[i]]]) = n
    OBVIOUS

(* The elements of the nodes, together.                                    *)
LEMMA AllType ==
    ASSUME NEW n \in Nat, NEW s \in [1..n -> Nat], NEW zl, \A i \in 1..n : zl[s[i]] \in Seq(Vals)
    PROVE  All(zl, s, n) \in Seq(Vals) /\ (n = 0 => All(zl, s, n) = <<>>)
<1>1. /\ [i \in 1..n |-> zl[s[i]]] \in Seq(Seq(Vals))
      /\ Len([i \in 1..n |-> zl[s[i]]]) = n
    BY PartsAre
<1> QED BY <1>1, FlattenType DEF All

(* Those of the first node come ahead of the others'.                      *)
LEMMA AllFirst ==
    ASSUME NEW n \in Nat \ {0}, NEW s \in [1..n -> Nat], NEW zl,
           \A i \in 1..n : zl[s[i]] \in Seq(Vals)
    PROVE  /\ Rest(s, n) \in [1..(n - 1) -> Nat] /\ n - 1 \in Nat
           /\ All(zl, s, n) = zl[s[1]] \o All(zl, Rest(s, n), n - 1)
<1> DEFINE p == [i \in 1..n |-> zl[s[i]]]
           t == Rest(s, n)
           r == [i \in 1..(n - 1) |-> zl[t[i]]]
<1>1. n - 1 \in Nat /\ \A i \in 1..(n - 1) : i + 1 \in 1..n
    OBVIOUS
<1>2. t \in [1..(n - 1) -> Nat] /\ \A i \in 1..(n - 1) : t[i] = s[i + 1]
    BY <1>1 DEF Rest
<1>3. p \in Seq(Seq(Vals)) /\ Len(p) = n /\ \A i \in 1..n : p[i] = zl[s[i]]
    BY PartsAre
<1> HIDE DEF t
<1>4. r \in Seq(Seq(Vals)) /\ Len(r) = n - 1 /\ \A i \in 1..(n - 1) : r[i] = zl[t[i]]
    BY <1>1, <1>2, PartsAre
<1> HIDE DEF p, r
<1>5. /\ Tail(p) \in Seq(Seq(Vals)) /\ Len(Tail(p)) = n - 1
      /\ \A i \in 1..(n - 1) : Tail(p)[i] = p[i + 1]
    BY <1>3, RestIs
<1>6. Tail(p) = r
    <2>1. ASSUME NEW i \in 1..(n - 1) PROVE Tail(p)[i] = r[i]
        <3>1. Tail(p)[i] = zl[s[i + 1]]
            BY <1>1, <1>3, <1>5
        <3>2. r[i] = zl[s[i + 1]]
            BY <1>2, <1>4
        <3> QED BY <3>1, <3>2
    <2>2. Len(Tail(p)) = Len(r) /\ \A i \in 1..Len(Tail(p)) : Tail(p)[i] = r[i]
        BY <1>4, <1>5, <2>1
    <2>3. Tail(p) \in Seq(Seq(Vals)) /\ r \in Seq(Seq(Vals))
        BY <1>4, <1>5
    <2> QED BY ONLY <2>2, <2>3, SeqEqual
<1>7. FlattenSeq(p) = p[1] \o FlattenSeq(r)
    BY <1>3, <1>6, FlattenFirst
<1>8. p[1] = zl[s[1]]
    BY <1>3, 1 \in 1..n
<1> QED BY <1>1, <1>2, <1>7, <1>8 DEF All, p, r, t

(* And those of the last one behind.                                       *)
LEMMA AllLast ==
    ASSUME NEW n \in Nat \ {0}, NEW s \in [1..n -> Nat], NEW zl,
           \A i \in 1..n : zl[s[i]] \in Seq(Vals)
    PROVE  /\ Most(s, n) \in [1..(n - 1) -> Nat] /\ n - 1 \in Nat
           /\ All(zl, s, n) = All(zl, Most(s, n), n - 1) \o zl[s[n]]
<1> DEFINE p == [i \in 1..n |-> zl[s[i]]]
           t == Most(s, n)
           r == [i \in 1..(n - 1) |-> zl[t[i]]]
<1>1. n - 1 \in Nat /\ n - 1 <= n /\ \A i \in 1..(n - 1) : i \in 1..n
    OBVIOUS
<1>2. t \in [1..(n - 1) -> Nat] /\ \A i \in 1..(n - 1) : t[i] = s[i]
    BY <1>1 DEF Most
<1>3. p \in Seq(Seq(Vals)) /\ Len(p) = n /\ \A i \in 1..n : p[i] = zl[s[i]]
    BY PartsAre
<1> HIDE DEF t
<1>4. r \in Seq(Seq(Vals)) /\ Len(r) = n - 1 /\ \A i \in 1..(n - 1) : r[i] = zl[t[i]]
    BY <1>1, <1>2, PartsAre
<1> HIDE DEF p, r
<1>5. /\ SubSeq(p, 1, n - 1) \in Seq(Seq(Vals)) /\ Len(SubSeq(p, 1, n - 1)) = n - 1
      /\ \A i \in 1..(n - 1) : SubSeq(p, 1, n - 1)[i] = p[i]
    BY <1>1, <1>3, FrontIs
<1>6. SubSeq(p, 1, n - 1) = r
    <2>1. ASSUME NEW i \in 1..(n - 1) PROVE SubSeq(p, 1, n - 1)[i] = r[i]
        <3>1. SubSeq(p, 1, n - 1)[i] = zl[s[i]]
            BY <1>1, <1>3, <1>5
        <3>2. r[i] = zl[s[i]]
            BY <1>2, <1>4
        <3> QED BY <3>1, <3>2
    <2> QED BY <1>4, <1>5, <2>1, SeqEqual
<1>7. FlattenSeq(p) = FlattenSeq(r) \o p[n]
    BY <1>3, <1>6, FlattenLast
<1>8. p[n] = zl[s[n]]
    BY <1>3
<1> QED BY <1>1, <1>2, <1>7, <1>8 DEF All, p, r, t

(* A node that is put ahead brings its elements ahead.                     *)
LEMMA AllAhead ==
    ASSUME NEW n \in Nat, NEW s \in [1..n -> Nat], NEW a \in Nat, NEW zl,
           \A i \in 1..n : zl[s[i]] \in Seq(Vals), zl[a] \in Seq(Vals)
    PROVE  All(zl, Ahead(a, s, n), n + 1) = zl[a] \o All(zl, s, n)
<1> DEFINE t == Ahead(a, s, n)
<1>1. n + 1 \in Nat \ {0} /\ (n + 1) - 1 = n
    OBVIOUS
<1>2. t \in [1..(n + 1) -> Nat] /\ t[1] = a
    BY DEF Ahead
<1>5. \A i \in 1..(n + 1) : zl[t[i]] \in Seq(Vals)
    BY DEF Ahead
<1>3. Rest(t, n + 1) = s
    <2>1. \A i \in 1..n : i + 1 \in 1..(n + 1) /\ i + 1 # 1 /\ (i + 1) - 1 = i
        OBVIOUS
    <2>2. \A i \in 1..n : t[i + 1] = s[i]
        BY <2>1 DEF Ahead
    <2> HIDE DEF t
    <2> QED BY <1>1, <2>2 DEF Rest
<1> HIDE DEF t
<1>4. All(zl, t, n + 1) = zl[t[1]] \o All(zl, Rest(t, n + 1), (n + 1) - 1)
    BY <1>1, <1>2, <1>5, AllFirst, Zenon
<1> QED BY <1>1, <1>2, <1>3, <1>4 DEF t

(* And one that is put behind, behind.                                     *)
LEMMA AllBehind ==
    ASSUME NEW n \in Nat, NEW s \in [1..n -> Nat], NEW a \in Nat, NEW zl,
           \A i \in 1..n : zl[s[i]] \in Seq(Vals), zl[a] \in Seq(Vals)
    PROVE  All(zl, Behind(a, s, n), n + 1) = All(zl, s, n) \o zl[a]
<1> DEFINE t == Behind(a, s, n)
<1>1. n + 1 \in Nat \ {0} /\ (n + 1) - 1 = n
    OBVIOUS
<1>2. t \in [1..(n + 1) -> Nat] /\ t[n + 1] = a
    BY DEF Behind
<1>5. \A i \in 1..(n + 1) : zl[t[i]] \in Seq(Vals)
    BY DEF Behind
<1>3. Most(t, n + 1) = s
    <2>1. \A i \in 1..n : i \in 1..(n + 1) /\ i # n + 1
        OBVIOUS
    <2>2. \A i \in 1..n : t[i] = s[i]
        BY <2>1 DEF Behind
    <2> HIDE DEF t
    <2> QED BY <1>1, <2>2 DEF Most
<1> HIDE DEF t
<1>4. All(zl, t, n + 1) = All(zl, Most(t, n + 1), (n + 1) - 1) \o zl[t[n + 1]]
    BY <1>1, <1>2, <1>5, AllLast, Zenon
<1> QED BY <1>1, <1>2, <1>3, <1>4 DEF t

(* Only the parts of the nodes in the order count.                         *)
LEMMA AllSame ==
    ASSUME NEW n \in Nat, NEW s, NEW zl, NEW zm, \A i \in 1..n : zl[s[i]] = zm[s[i]]
    PROVE  All(zl, s, n) = All(zm, s, n)
<1>1. [i \in 1..n |-> zl[s[i]]] = [i \in 1..n |-> zm[s[i]]]
    OBVIOUS
<1> QED BY <1>1 DEF All
-----------------------------------------------------------------------------
(* A record like those QuickList.tla makes, with ziplists of values.       *)
ListValue(q) ==
    /\ q = [bound |-> q.bound, zl |-> q.zl, prev |-> q.prev, next |-> q.next,
            head |-> q.head, tail |-> q.tail, count |-> q.count, len |-> q.len]
    /\ q.bound \in BOOLEAN /\ q.zl \in [Nodes(q) -> Seq(Vals)] /\ q.count \in Nat

(* One on the way to a push at the x-th node: it has room, and it may be   *)
(* new and empty; the others hold some elements, and not too many.         *)
Ready(q, s, n, x) ==
    /\ ListValue(q) /\ Strung(q, s, n) /\ x \in 1..n
    /\ Len(q.zl[s[x]]) \in 0..(ListMaxZiplistSize - 1)
    /\ \A i \in 1..n : i # x => Len(q.zl[s[i]]) \in 1..ListMaxZiplistSize

(* One between two pushes or pops.                                         *)
ListSound(q, s, n) ==
    /\ ListValue(q) /\ Strung(q, s, n)
    /\ \A i \in 1..n : Len(q.zl[s[i]]) \in 1..ListMaxZiplistSize

(* The size of a node, as the code configures it.                          *)
LEMMA SizeIs == ListMaxZiplistSize \in Nat \ {0}
    BY ListAssumption

(* What WithNode leaves in each field.                                     *)
LEMMA NodeAdded ==
    ASSUME NEW q, NEW s, NEW n, ListValue(q), Strung(q, s, n),
           NEW a \in Nat \ {0}, a \notin Nodes(q), NEW p \in Nat, NEW x \in Nat,
           NEW w, w = WithNode(q, a, p, x)
    PROVE  /\ ListValue(w) /\ Nodes(w) = Nodes(q) \cup {a}
           /\ w.zl[a] = <<>> /\ \A b \in Nodes(q) : w.zl[b] = q.zl[b]
           /\ w.next \in [Nodes(w) -> Nat] /\ w.prev \in [Nodes(w) -> Nat]
           /\ w.next[a] = x /\ w.prev[a] = p
           /\ \A b \in Nodes(q) : w.next[b] = q.next[b] /\ w.prev[b] = q.prev[b]
           /\ w.head = q.head /\ w.tail = q.tail /\ w.len = q.len + 1
           /\ w.count = q.count /\ w.bound = q.bound
<1>1. /\ q.next \in [Nodes(q) -> Nat] /\ q.prev \in [Nodes(q) -> Nat]
      /\ q.zl \in [Nodes(q) -> Seq(Vals)]
    BY DEF Strung, ListValue
<1> DEFINE zl == Extended(q.zl, a, NewZipList)
           prev == Extended(q.prev, a, p)
           next == Extended(q.next, a, x)
<1>2. /\ zl \in [Nodes(q) \cup {a} -> Seq(Vals)] /\ zl[a] = <<>>
      /\ \A b \in Nodes(q) : zl[b] = q.zl[b]
    BY <1>1 DEF Extended, NewZipList
<1>3. /\ prev \in [Nodes(q) \cup {a} -> Nat] /\ prev[a] = p
      /\ \A b \in Nodes(q) : prev[b] = q.prev[b]
    BY <1>1 DEF Extended
<1>4. /\ next \in [Nodes(q) \cup {a} -> Nat] /\ next[a] = x
      /\ \A b \in Nodes(q) : next[b] = q.next[b]
    BY <1>1 DEF Extended
<1>5. w = [bound |-> q.bound, zl |-> zl, prev |-> prev, next |-> next,
           head |-> q.head, tail |-> q.tail, count |-> q.count, len |-> q.len + 1]
    BY DEF WithNode, ListValue
<1> HIDE DEF zl, prev, next
<1>6. /\ w.bound = q.bound /\ w.zl = zl /\ w.prev = prev /\ w.next = next /\ w.head = q.head
      /\ w.tail = q.tail /\ w.count = q.count /\ w.len = q.len + 1
    BY <1>5
<1>7. Nodes(w) = Nodes(q) \cup {a}
    BY <1>2, <1>6 DEF Nodes
<1>8. ListValue(w)
    BY <1>2, <1>5, <1>6, <1>7 DEF ListValue
<1> QED BY <1>2, <1>3, <1>4, <1>6, <1>7, <1>8

(* A new node at the front changes no element.                             *)
LEMMA SameAhead ==
    ASSUME NEW q, NEW s, NEW n, ListValue(q), Strung(q, s, n), NEW a \in Nat, a \notin Nodes(q),
           NEW r, ListValue(r), Nodes(r) = Nodes(q) \cup {a},
           r.zl[a] = <<>>, \A b \in Nodes(q) : r.zl[b] = q.zl[b]
    PROVE  /\ All(r.zl, Ahead(a, s, n), n + 1) = All(q.zl, s, n)
           /\ All(r.zl, Behind(a, s, n), n + 1) = All(q.zl, s, n)
<1>1. /\ n \in Nat /\ s \in [1..n -> Nat] /\ \A i \in 1..n : s[i] \in Nodes(q)
      /\ \A b \in Nodes(q) : q.zl[b] \in Seq(Vals)
      /\ \A b \in Nodes(r) : r.zl[b] \in Seq(Vals)
    BY DEF Strung, ListValue
<1>2. /\ \A i \in 1..n : r.zl[s[i]] = q.zl[s[i]] /\ r.zl[s[i]] \in Seq(Vals)
      /\ \A i \in 1..n : q.zl[s[i]] \in Seq(Vals)
      /\ r.zl[a] \in Seq(Vals)
    BY <1>1
<1>3. All(r.zl, s, n) = All(q.zl, s, n)
    <2> DEFINE zl == q.zl
               zm == r.zl
    <2>1. n \in Nat /\ \A i \in 1..n : zm[s[i]] = zl[s[i]]
        BY <1>1, <1>2
    <2> HIDE DEF zl, zm
    <2>2. All(zm, s, n) = All(zl, s, n)
        BY ONLY <2>1, AllSame, Zenon
    <2> QED BY <2>2 DEF zl, zm
<1>4. All(q.zl, s, n) \in Seq(Vals)
    BY <1>1, <1>2, AllType
<1>5. /\ <<>> \o All(q.zl, s, n) = All(q.zl, s, n)
      /\ All(q.zl, s, n) \o <<>> = All(q.zl, s, n)
    BY <1>4, ConcatEmptySeq
<1>6. All(r.zl, Ahead(a, s, n), n + 1) = r.zl[a] \o All(r.zl, s, n)
    BY <1>1, <1>2, AllAhead
<1>7. All(r.zl, Behind(a, s, n), n + 1) = All(r.zl, s, n) \o r.zl[a]
    <2>1. /\ n \in Nat /\ s \in [1..n -> Nat] /\ a \in Nat /\ r.zl[a] \in Seq(Vals)
          /\ \A i \in 1..n : r.zl[s[i]] \in Seq(Vals)
        BY <1>1, <1>2
    <2> QED BY ONLY <2>1, AllBehind
<1> QED BY <1>3, <1>5, <1>6, <1>7

(* What ensureHead makes of a list without nodes: one with an empty one.   *)
LEMMA Started ==
    ASSUME NEW q, NEW s, NEW n, ListSound(q, s, n), n = 0, NEW e, e = ensureHead(q)
    PROVE  /\ \E t : /\ Ready(e, t, 1, 1) /\ All(e.zl, t, 1) = All(q.zl, s, n)
                     /\ e.count = q.count /\ e.bound = q.bound
           /\ e.tail = e.head /\ ~IsFull(e.zl[e.head])
<1> DEFINE a == Fresh(q)
           w == WithNode(q, a, NoNode, NoNode)
<1>1. /\ ListValue(q) /\ Strung(q, s, n) /\ q.head = NoNode /\ q.len = n /\ Nodes(q) = {}
      /\ q.head \in Nat
    BY DEF ListSound, Strung, Link, NoNode
<1>2. a \in Nat \ {0} /\ a \notin Nodes(q)
    BY <1>1, FreshIsNew
<1>3. e = [w EXCEPT !.head = a, !.tail = a]
    BY <1>1 DEF ensureHead
<1> HIDE DEF a
<1>4. /\ ListValue(w) /\ Nodes(w) = Nodes(q) \cup {a}
      /\ w.zl[a] = <<>> /\ \A b \in Nodes(q) : w.zl[b] = q.zl[b]
      /\ w.next \in [Nodes(w) -> Nat] /\ w.prev \in [Nodes(w) -> Nat]
      /\ w.next[a] = NoNode /\ w.prev[a] = NoNode
      /\ w.len = q.len + 1 /\ w.count = q.count /\ w.bound = q.bound
    BY <1>1, <1>2, NodeAdded DEF NoNode
<1> HIDE DEF w
<1>5. /\ e = [bound |-> q.bound, zl |-> w.zl, prev |-> w.prev, next |-> w.next,
              head |-> a, tail |-> a, count |-> q.count, len |-> q.len + 1]
    BY <1>3, <1>4 DEF ListValue
<1>6. /\ e.zl = w.zl /\ e.prev = w.prev /\ e.next = w.next /\ e.head = a /\ e.tail = a
      /\ e.len = q.len + 1 /\ e.count = q.count /\ e.bound = q.bound
    BY <1>5
<1>7. Nodes(e) = Nodes(q) \cup {a}
    BY <1>4, <1>6 DEF Nodes
<1>8. ListValue(e)
    BY <1>4, <1>5, <1>6, <1>7 DEF ListValue
<1>9. Strung(e, Ahead(a, s, n), n + 1)
    BY <1>1, <1>2, <1>4, <1>6, <1>7, StrungFront
<1>10. All(e.zl, Ahead(a, s, n), n + 1) = All(q.zl, s, n)
    BY <1>1, <1>2, <1>4, <1>6, <1>7, <1>8, SameAhead
<1>11. Ahead(a, s, n)[1] = a /\ n + 1 = 1
    BY DEF Ahead
<1>12. e.zl[e.head] = <<>> /\ Len(e.zl[e.head]) = 0
    BY <1>4, <1>6
<1>13. ~IsFull(e.zl[e.head])
    BY <1>12, SizeIs DEF IsFull
<1>14. Ready(e, Ahead(a, s, n), n + 1, 1)
    BY <1>6, <1>8, <1>9, <1>11, <1>12, SizeIs DEF Ready
<1> QED BY <1>6, <1>10, <1>11, <1>13, <1>14

(* Before a push at the front, there is a node there that has room.        *)
LEMMA ReadyAhead ==
    ASSUME NEW q, NEW s, NEW n, ListSound(q, s, n), NEW e, e = ensureHead(q),
           NEW g, g = IF IsFull(e.zl[e.head]) THEN GrowHead(e) ELSE e
    PROVE  \E t, m : /\ Ready(g, t, m, 1) /\ All(g.zl, t, m) = All(q.zl, s, n)
                     /\ g.count = q.count /\ g.bound = q.bound
<1> DEFINE a == Fresh(q)
<1>1. /\ ListValue(q) /\ Strung(q, s, n) /\ n \in Nat /\ q.head \in Nat /\ q.len = n
      /\ \A i \in 1..n : Len(q.zl[s[i]]) \in 1..ListMaxZiplistSize
      /\ s \in [1..n -> Nat \ {0}] /\ \A i \in 1..n : s[i] \in Nodes(q)
      /\ q.head = (IF n = 0 THEN NoNode ELSE s[1])
    <2>1. ListValue(q) /\ Strung(q, s, n)
          /\ \A i \in 1..n : Len(q.zl[s[i]]) \in 1..ListMaxZiplistSize
        BY DEF ListSound
    <2>2. n \in Nat /\ q.len = n /\ s \in [1..n -> Nat \ {0}] /\ \A i \in 1..n : s[i] \in Nodes(q)
        BY <2>1 DEF Strung
    <2>3. q.head = (IF n = 0 THEN NoNode ELSE s[1]) /\ q.head \in Nat
        BY <2>1, <2>2 DEF Strung, Link, NoNode
    <2> QED BY <2>1, <2>2, <2>3
<1>2. a \in Nat \ {0} /\ a \notin Nodes(q)
    BY <1>1, FreshIsNew
<1>3. CASE n = 0
    <2>1. PICK t : /\ Ready(e, t, 1, 1) /\ All(e.zl, t, 1) = All(q.zl, s, n)
                   /\ e.count = q.count /\ e.bound = q.bound
        BY <1>3, Started
    <2>2. g = e
        BY <1>3, Started
    <2> QED BY <2>1, <2>2
<1>4. CASE n # 0
    <2>1. e = q /\ q.head = s[1] /\ 1 \in 1..n
        BY <1>1, <1>4 DEF ensureHead, NoNode
    <2>2. CASE ~IsFull(q.zl[q.head])
        <3>1. g = q
            BY <2>1, <2>2
        <3>2. Len(q.zl[s[1]]) \in 0..(ListMaxZiplistSize - 1)
            BY <1>1, <2>1, <2>2, SizeIs DEF IsFull
        <3>3. Ready(q, s, n, 1)
            BY <1>1, <2>1, <3>2 DEF Ready
        <3> QED BY <3>1, <3>3
    <2>3. CASE IsFull(q.zl[q.head])
        <3> DEFINE w == WithNode(q, a, NoNode, q.head)
                   r == [w EXCEPT !.prev[q.head] = a, !.head = a]
        <3>1. g = r
            BY <2>1, <2>3 DEF GrowHead
        <3> HIDE DEF a
        <3>0. q.head \in Nat /\ NoNode \in Nat
            BY <1>1 DEF NoNode
        <3>2. /\ ListValue(w) /\ Nodes(w) = Nodes(q) \cup {a}
              /\ w.zl[a] = <<>> /\ \A b \in Nodes(q) : w.zl[b] = q.zl[b]
              /\ w.next \in [Nodes(w) -> Nat] /\ w.prev \in [Nodes(w) -> Nat]
              /\ w.next[a] = q.head /\ w.prev[a] = NoNode
              /\ \A b \in Nodes(q) : w.next[b] = q.next[b] /\ w.prev[b] = q.prev[b]
              /\ w.head = q.head /\ w.tail = q.tail /\ w.len = q.len + 1
              /\ w.count = q.count /\ w.bound = q.bound
            <4> DEFINE h == q.head
            <4>1. h \in Nat /\ NoNode \in Nat /\ w = WithNode(q, a, NoNode, h)
                BY <3>0
            <4>2. ListValue(q) /\ Strung(q, s, n)
                BY <1>1
            <4> HIDE DEF h, w
            <4>3. /\ ListValue(w) /\ Nodes(w) = Nodes(q) \cup {a}
                  /\ w.zl[a] = <<>> /\ \A b \in Nodes(q) : w.zl[b] = q.zl[b]
                  /\ w.next \in [Nodes(w) -> Nat] /\ w.prev \in [Nodes(w) -> Nat]
                  /\ w.next[a] = h /\ w.prev[a] = NoNode
                  /\ \A b \in Nodes(q) : w.next[b] = q.next[b] /\ w.prev[b] = q.prev[b]
                  /\ w.head = q.head /\ w.tail = q.tail /\ w.len = q.len + 1
                  /\ w.count = q.count /\ w.bound = q.bound
                BY ONLY <1>2, <4>1, <4>2, NodeAdded, SMTT(60)
            <4> QED BY <4>3 DEF h
        <3> HIDE DEF w
        <3> DEFINE prev == [w.prev EXCEPT ![q.head] = a]
        <3>3. r = [bound |-> q.bound, zl |-> w.zl, prev |-> prev, next |-> w.next,
                   head |-> a, tail |-> q.tail, count |-> q.count, len |-> q.len + 1]
            <4>1. r = [w EXCEPT !.prev = prev, !.head = a]
                OBVIOUS
            <4> HIDE DEF prev, r
            <4> QED BY <3>2, <4>1 DEF ListValue
        <3> HIDE DEF r
        <3>4. /\ prev \in [Nodes(w) -> Nat] /\ prev[a] = NoNode
              /\ \A b \in Nodes(q) : prev[b] = IF b = q.head THEN a ELSE q.prev[b]
            BY <1>1, <1>2, <2>1, <3>2
        <3> HIDE DEF prev
        <3>5. /\ r.zl = w.zl /\ r.prev = prev /\ r.next = w.next /\ r.head = a /\ r.tail = q.tail
              /\ r.len = q.len + 1 /\ r.count = q.count /\ r.bound = q.bound
            BY <3>3
        <3>6. Nodes(r) = Nodes(q) \cup {a}
            BY <3>2, <3>5 DEF Nodes
        <3>7. ListValue(r)
            BY <3>2, <3>3, <3>5, <3>6 DEF ListValue
        <3>8. Strung(r, Ahead(a, s, n), n + 1)
            <4>1. r.next \in [Nodes(r) -> Nat] /\ r.prev \in [Nodes(r) -> Nat]
                BY <3>2, <3>4, <3>5, <3>6
            <4>2. r.next[a] = q.head /\ r.prev[a] = NoNode
                BY <3>2, <3>4, <3>5
            <4>3. \A b \in Nodes(q) : /\ r.next[b] = q.next[b]
                                      /\ r.prev[b] = IF b = q.head THEN a ELSE q.prev[b]
                BY <3>2, <3>4, <3>5
            <4> QED BY <1>1, <1>2, <1>4, <3>5, <3>6, <4>1, <4>2, <4>3, StrungFront
        <3>9. All(r.zl, Ahead(a, s, n), n + 1) = All(q.zl, s, n)
            BY <1>1, <1>2, <3>2, <3>5, <3>6, <3>7, SameAhead
        <3>10. /\ Ahead(a, s, n)[1] = a /\ 1 \in 1..(n + 1)
               /\ \A i \in 1..(n + 1) : i # 1 => i - 1 \in 1..n /\ Ahead(a, s, n)[i] = s[i - 1]
            BY <1>1 DEF Ahead
        <3>11. Len(r.zl[a]) = 0
            BY <3>2, <3>5
        <3>12. ASSUME NEW i \in 1..(n + 1), i # 1
               PROVE  Len(r.zl[Ahead(a, s, n)[i]]) \in 1..ListMaxZiplistSize
            <4>1. i - 1 \in 1..n /\ Ahead(a, s, n)[i] = s[i - 1]
                BY <3>10, <3>12
            <4>2. r.zl[s[i - 1]] = q.zl[s[i - 1]]
                BY <1>1, <3>2, <3>5, <4>1
            <4> QED BY <1>1, <4>1, <4>2
        <3>13. Ready(r, Ahead(a, s, n), n + 1, 1)
            BY <3>7, <3>8, <3>10, <3>11, <3>12, SizeIs DEF Ready
        <3> QED BY <3>1, <3>5, <3>9, <3>13
    <2> QED BY <2>2, <2>3
<1> QED BY <1>1, <1>3, <1>4

(* Before a push at the back, there is one at the back.                    *)
LEMMA ReadyBehind ==
    ASSUME NEW q, NEW s, NEW n, ListSound(q, s, n), NEW e, e = ensureHead(q),
           NEW g, g = IF IsFull(e.zl[e.tail]) THEN GrowTail(e) ELSE e
    PROVE  \E t, m : /\ Ready(g, t, m, m) /\ All(g.zl, t, m) = All(q.zl, s, n)
                     /\ g.count = q.count /\ g.bound = q.bound
<1> DEFINE a == Fresh(q)
<1>1. /\ ListValue(q) /\ Strung(q, s, n) /\ n \in Nat /\ q.tail \in Nat /\ q.len = n
      /\ \A i \in 1..n : Len(q.zl[s[i]]) \in 1..ListMaxZiplistSize
      /\ s \in [1..n -> Nat \ {0}] /\ \A i \in 1..n : s[i] \in Nodes(q)
      /\ q.tail = (IF n = 0 THEN NoNode ELSE s[n])
      /\ n # 0 => q.head # NoNode
    <2>1. ListValue(q) /\ Strung(q, s, n)
          /\ \A i \in 1..n : Len(q.zl[s[i]]) \in 1..ListMaxZiplistSize
        BY DEF ListSound
    <2>2. n \in Nat /\ q.len = n /\ s \in [1..n -> Nat \ {0}] /\ \A i \in 1..n : s[i] \in Nodes(q)
        BY <2>1 DEF Strung
    <2>3. q.tail = (IF n = 0 THEN NoNode ELSE s[n]) /\ q.tail \in Nat /\ (n # 0 => q.head # NoNode)
        BY <2>1, <2>2 DEF Strung, Link, NoNode
    <2> QED BY <2>1, <2>2, <2>3
<1>2. a \in Nat \ {0} /\ a \notin Nodes(q)
    BY <1>1, FreshIsNew
<1>3. CASE n = 0
    <2>1. PICK t : /\ Ready(e, t, 1, 1) /\ All(e.zl, t, 1) = All(q.zl, s, n)
                   /\ e.count = q.count /\ e.bound = q.bound
        BY <1>3, Started
    <2>2. g = e
        BY <1>3, Started
    <2> QED BY <2>1, <2>2
<1>4. CASE n # 0
    <2>1. e = q /\ q.tail = s[n] /\ n \in 1..n
        BY <1>1, <1>4 DEF ensureHead
    <2>2. CASE ~IsFull(q.zl[q.tail])
        <3>1. g = q
            BY <2>1, <2>2
        <3>2. Len(q.zl[s[n]]) \in 0..(ListMaxZiplistSize - 1)
            BY <1>1, <2>1, <2>2, SizeIs DEF IsFull
        <3>3. Ready(q, s, n, n)
            BY <1>1, <2>1, <3>2 DEF Ready
        <3> QED BY <3>1, <3>3
    <2>3. CASE IsFull(q.zl[q.tail])
        <3> DEFINE w == WithNode(q, a, q.tail, NoNode)
                   r == [w EXCEPT !.next[q.tail] = a, !.tail = a]
        <3>1. g = r
            BY <2>1, <2>3 DEF GrowTail
        <3> HIDE DEF a
        <3>0. q.tail \in Nat /\ NoNode \in Nat
            BY <1>1 DEF NoNode
        <3>2. /\ ListValue(w) /\ Nodes(w) = Nodes(q) \cup {a}
              /\ w.zl[a] = <<>> /\ \A b \in Nodes(q) : w.zl[b] = q.zl[b]
              /\ w.next \in [Nodes(w) -> Nat] /\ w.prev \in [Nodes(w) -> Nat]
              /\ w.next[a] = NoNode /\ w.prev[a] = q.tail
              /\ \A b \in Nodes(q) : w.next[b] = q.next[b] /\ w.prev[b] = q.prev[b]
              /\ w.head = q.head /\ w.tail = q.tail /\ w.len = q.len + 1
              /\ w.count = q.count /\ w.bound = q.bound
            <4>1. ListValue(q) /\ Strung(q, s, n) /\ w = WithNode(q, a, q.tail, NoNode)
                BY <1>1
            <4> HIDE DEF w
            <4> QED BY ONLY <1>2, <3>0, <4>1, NodeAdded, SMTT(60)
        <3> HIDE DEF w
        <3> DEFINE next == [w.next EXCEPT ![q.tail] = a]
        <3>3. r = [bound |-> q.bound, zl |-> w.zl, prev |-> w.prev, next |-> next,
                   head |-> q.head, tail |-> a, count |-> q.count, len |-> q.len + 1]
            <4>1. r = [w EXCEPT !.next = next, !.tail = a]
                OBVIOUS
            <4> HIDE DEF next, r
            <4> QED BY <3>2, <4>1 DEF ListValue
        <3> HIDE DEF r
        <3>4. /\ next \in [Nodes(w) -> Nat] /\ next[a] = NoNode
              /\ \A b \in Nodes(q) : next[b] = IF b = q.tail THEN a ELSE q.next[b]
            BY <1>1, <1>2, <2>1, <3>2
        <3> HIDE DEF next
        <3>5. /\ r.zl = w.zl /\ r.prev = w.prev /\ r.next = next /\ r.head = q.head /\ r.tail = a
              /\ r.len = q.len + 1 /\ r.count = q.count /\ r.bound = q.bound
            BY <3>3
        <3>6. Nodes(r) = Nodes(q) \cup {a}
            BY <3>2, <3>5 DEF Nodes
        <3>7. ListValue(r)
            BY <3>2, <3>3, <3>5, <3>6 DEF ListValue
        <3>8. Strung(r, Behind(a, s, n), n + 1)
            <4>1. r.next \in [Nodes(r) -> Nat] /\ r.prev \in [Nodes(r) -> Nat]
                BY <3>2, <3>4, <3>5, <3>6
            <4>2. r.next[a] = NoNode /\ r.prev[a] = q.tail
                BY <3>2, <3>4, <3>5
            <4>3. \A b \in Nodes(q) : /\ r.prev[b] = q.prev[b]
                                      /\ r.next[b] = IF b = q.tail THEN a ELSE q.next[b]
                BY <3>2, <3>4, <3>5
            <4> QED BY <1>1, <1>2, <1>4, <3>5, <3>6, <4>1, <4>2, <4>3, StrungBack
        <3>9. All(r.zl, Behind(a, s, n), n + 1) = All(q.zl, s, n)
            BY <1>1, <1>2, <3>2, <3>5, <3>6, <3>7, SameAhead
        <3>10. /\ Behind(a, s, n)[n + 1] = a /\ n + 1 \in 1..(n + 1)
               /\ \A i \in 1..(n + 1) : i # n + 1 => i \in 1..n /\ Behind(a, s, n)[i] = s[i]
            BY <1>1 DEF Behind
        <3>11. Len(r.zl[a]) = 0
            BY <3>2, <3>5
        <3>12. ASSUME NEW i \in 1..(n + 1), i # n + 1
               PROVE  Len(r.zl[Behind(a, s, n)[i]]) \in 1..ListMaxZiplistSize
            <4>1. i \in 1..n /\ Behind(a, s, n)[i] = s[i]
                BY <3>10, <3>12
            <4>2. r.zl[s[i]] = q.zl[s[i]]
                BY <1>1, <3>2, <3>5, <4>1
            <4> QED BY <1>1, <4>1, <4>2
        <3>13. Ready(r, Behind(a, s, n), n + 1, n + 1)
            BY <3>7, <3>8, <3>10, <3>11, <3>12, SizeIs DEF Ready
        <3> QED BY <3>1, <3>5, <3>9, <3>13
    <2> QED BY <2>2, <2>3
<1> QED BY <1>1, <1>3, <1>4
-----------------------------------------------------------------------------
(* A node's ziplist and the number of elements are changed, nothing else.  *)
Refill(q, a, y, c) == [q EXCEPT !.zl[a] = y, !.count = c]

(* A node that is filled anew: the links stay, and so do the others.       *)
LEMMA Refilled ==
    ASSUME NEW q, NEW s, NEW n, ListValue(q), Strung(q, s, n), NEW x \in 1..n,
           NEW y \in Seq(Vals), NEW c \in Nat,
           NEW w, w = Refill(q, s[x], y, c)
    PROVE  /\ ListValue(w) /\ Strung(w, s, n) /\ Nodes(w) = Nodes(q)
           /\ w.count = c /\ w.bound = q.bound /\ w.len = q.len
           /\ w.head = q.head /\ w.tail = q.tail /\ w.next = q.next /\ w.prev = q.prev
           /\ w.zl[s[x]] = y /\ \A i \in 1..n : i # x => w.zl[s[i]] = q.zl[s[i]]
<1> DEFINE zl == [q.zl EXCEPT ![s[x]] = y]
<1>1. /\ s[x] \in Nodes(q) /\ \A i \in 1..n : s[i] \in Nodes(q) /\ (s[i] = s[x] => i = x)
      /\ q.zl \in [Nodes(q) -> Seq(Vals)]
    BY DEF Strung, ListValue
<1>2. /\ zl \in [Nodes(q) -> Seq(Vals)] /\ zl[s[x]] = y
      /\ \A i \in 1..n : i # x => zl[s[i]] = q.zl[s[i]]
    BY <1>1
<1>3. w = [bound |-> q.bound, zl |-> zl, prev |-> q.prev, next |-> q.next,
           head |-> q.head, tail |-> q.tail, count |-> c, len |-> q.len]
    <2>1. w = [q EXCEPT !.zl = zl, !.count = c]
        BY DEF Refill
    <2> HIDE DEF zl
    <2> QED BY <2>1 DEF ListValue
<1> HIDE DEF zl
<1>4. /\ w.zl = zl /\ w.prev = q.prev /\ w.next = q.next /\ w.head = q.head /\ w.tail = q.tail
      /\ w.len = q.len /\ w.count = c /\ w.bound = q.bound
    BY ONLY <1>3
<1>5. Nodes(w) = Nodes(q)
    BY <1>2, <1>4 DEF Nodes
<1>6. ListValue(w)
    BY <1>2, <1>3, <1>4, <1>5 DEF ListValue
<1>7. Strung(w, s, n)
    BY <1>4, <1>5 DEF Strung
<1> QED BY <1>2, <1>4, <1>5, <1>6, <1>7

(* With a value more in a node that has room, a list is sound.             *)
LEMMA Filled ==
    ASSUME NEW g, NEW t, NEW m, NEW x, Ready(g, t, m, x), NEW y \in Seq(Vals),
           Len(y) = Len(g.zl[t[x]]) + 1,
           NEW r, r = Refill(g, t[x], y, g.count + 1)
    PROVE  /\ ListSound(r, t, m) /\ m # 0 /\ r.zl[t[x]] = y
           /\ \A i \in 1..m : i # x => r.zl[t[i]] = g.zl[t[i]]
           /\ r.count = g.count + 1 /\ r.bound = g.bound
<1>1. /\ ListValue(g) /\ Strung(g, t, m) /\ x \in 1..m /\ g.count \in Nat /\ m # 0
      /\ Len(g.zl[t[x]]) \in 0..(ListMaxZiplistSize - 1)
      /\ \A i \in 1..m : i # x => Len(g.zl[t[i]]) \in 1..ListMaxZiplistSize
    BY SMTT(30) DEF Ready, ListValue, Strung
<1>2. g.count + 1 \in Nat
    BY <1>1
<1>3. /\ ListValue(r) /\ Strung(r, t, m) /\ r.count = g.count + 1 /\ r.bound = g.bound
      /\ r.zl[t[x]] = y /\ \A i \in 1..m : i # x => r.zl[t[i]] = g.zl[t[i]]
    <2> DEFINE c == g.count + 1
    <2>1. ListValue(g) /\ Strung(g, t, m) /\ x \in 1..m /\ y \in Seq(Vals) /\ c \in Nat
        BY <1>1, <1>2
    <2>2. r = Refill(g, t[x], y, c)
        OBVIOUS
    <2> HIDE DEF c
    <2>3. /\ ListValue(r) /\ Strung(r, t, m) /\ r.count = c /\ r.bound = g.bound
          /\ r.zl[t[x]] = y /\ \A i \in 1..m : i # x => r.zl[t[i]] = g.zl[t[i]]
        BY ONLY <2>1, <2>2, Refilled, SMTT(60)
    <2> QED BY <2>3 DEF c
<1>4. ASSUME NEW i \in 1..m PROVE Len(r.zl[t[i]]) \in 1..ListMaxZiplistSize
    <2>1. CASE i = x
        BY SMTT(30), <1>1, <1>3, <2>1, SizeIs
    <2>2. CASE i # x
        BY <1>1, <1>3, <2>2
    <2> QED BY <2>1, <2>2
<1> QED BY <1>1, <1>3, <1>4 DEF ListSound

(* The elements, when only those of the first node, or the last, change.   *)
LEMMA FirstChanged ==
    ASSUME NEW n \in Nat \ {0}, NEW s \in [1..n -> Nat], NEW zl, NEW zm,
           \A i \in 1..n : zl[s[i]] \in Seq(Vals), \A i \in 1..n : zm[s[i]] \in Seq(Vals),
           \A i \in 1..n : i # 1 => zm[s[i]] = zl[s[i]]
    PROVE  /\ All(zl, s, n) = zl[s[1]] \o All(zl, Rest(s, n), n - 1)
           /\ All(zm, s, n) = zm[s[1]] \o All(zl, Rest(s, n), n - 1)
           /\ All(zl, Rest(s, n), n - 1) \in Seq(Vals)
<1>1. /\ Rest(s, n) \in [1..(n - 1) -> Nat] /\ n - 1 \in Nat
      /\ All(zl, s, n) = zl[s[1]] \o All(zl, Rest(s, n), n - 1)
    BY AllFirst
<1>2. All(zm, s, n) = zm[s[1]] \o All(zm, Rest(s, n), n - 1)
    BY AllFirst
<1>3. All(zm, Rest(s, n), n - 1) = All(zl, Rest(s, n), n - 1)
    <2>1. ASSUME NEW i \in 1..(n - 1) PROVE zm[Rest(s, n)[i]] = zl[Rest(s, n)[i]]
        <3>1. Rest(s, n)[i] = s[i + 1] /\ i + 1 \in 1..n /\ i + 1 # 1
            BY DEF Rest
        <3> QED BY <3>1
    <2> QED BY <1>1, <2>1, AllSame
<1>4. All(zl, Rest(s, n), n - 1) \in Seq(Vals)
    <2>1. \A i \in 1..(n - 1) : zl[Rest(s, n)[i]] \in Seq(Vals)
        <3>1. \A i \in 1..(n - 1) : i + 1 \in 1..n
            OBVIOUS
        <3> QED BY <3>1 DEF Rest
    <2> QED BY <1>1, <2>1, AllType
<1> QED BY <1>1, <1>2, <1>3, <1>4

(* And if only the last node has changed.                                  *)
LEMMA LastChanged ==
    ASSUME NEW n \in Nat \ {0}, NEW s \in [1..n -> Nat], NEW zl, NEW zm,
           \A i \in 1..n : zl[s[i]] \in Seq(Vals), \A i \in 1..n : zm[s[i]] \in Seq(Vals),
           \A i \in 1..n : i # n => zm[s[i]] = zl[s[i]]
    PROVE  /\ All(zl, s, n) = All(zl, Most(s, n), n - 1) \o zl[s[n]]
           /\ All(zm, s, n) = All(zl, Most(s, n), n - 1) \o zm[s[n]]
           /\ All(zl, Most(s, n), n - 1) \in Seq(Vals)
<1>1. /\ Most(s, n) \in [1..(n - 1) -> Nat] /\ n - 1 \in Nat
      /\ All(zl, s, n) = All(zl, Most(s, n), n - 1) \o zl[s[n]]
    BY AllLast, Zenon
<1>2. All(zm, s, n) = All(zm, Most(s, n), n - 1) \o zm[s[n]]
    BY AllLast, Zenon
<1>3. All(zm, Most(s, n), n - 1) = All(zl, Most(s, n), n - 1)
    <2>1. ASSUME NEW i \in 1..(n - 1) PROVE zm[Most(s, n)[i]] = zl[Most(s, n)[i]]
        <3>1. Most(s, n)[i] = s[i] /\ i \in 1..n /\ i # n
            BY DEF Most
        <3> QED BY <3>1
    <2> QED BY <1>1, <2>1, AllSame
<1>4. All(zl, Most(s, n), n - 1) \in Seq(Vals)
    <2>1. \A i \in 1..(n - 1) : zl[Most(s, n)[i]] \in Seq(Vals)
        <3>1. \A i \in 1..(n - 1) : i \in 1..n
            OBVIOUS
        <3> QED BY <3>1 DEF Most
    <2> QED BY <1>1, <2>1, AllType
<1> QED BY <1>1, <1>2, <1>3, <1>4

(* A push to the front puts a value ahead of the others.                   *)
LEMMA PushedAhead ==
    ASSUME NEW q, NEW s, NEW n, ListSound(q, s, n), NEW v \in Vals,
           NEW r, r = LPushOne(q, v)
    PROVE  \E t, m : /\ ListSound(r, t, m) /\ m # 0
                     /\ All(r.zl, t, m) = <<v>> \o All(q.zl, s, n)
                     /\ r.count = q.count + 1 /\ r.bound = q.bound
<1> DEFINE e == ensureHead(q)
           g == IF IsFull(e.zl[e.head]) THEN GrowHead(e) ELSE e
<1>1. r = [g EXCEPT !.zl[g.head] = <<v>> \o @, !.count = @ + 1]
    BY DEF LPushOne
<1>2. PICK t, m : /\ Ready(g, t, m, 1) /\ All(g.zl, t, m) = All(q.zl, s, n)
                  /\ g.count = q.count /\ g.bound = q.bound
    BY ReadyAhead
<1> HIDE DEF e, g
<1>3. /\ ListValue(g) /\ Strung(g, t, m) /\ m \in Nat \ {0} /\ t \in [1..m -> Nat]
      /\ g.head = t[1] /\ \A i \in 1..m : g.zl[t[i]] \in Seq(Vals)
    BY <1>2 DEF Ready, Strung, Link, ListValue
<1> DEFINE x == g.zl[t[1]]
<1>4. x \in Seq(Vals) /\ <<v>> \o x \in Seq(Vals) /\ Len(<<v>> \o x) = Len(x) + 1
    <2>1. x \in Seq(Vals) /\ <<v>> \in Seq(Vals) /\ Len(<<v>>) = 1
        BY <1>3
    <2>2. <<v>> \o x \in Seq(Vals) /\ Len(<<v>> \o x) = Len(<<v>>) + Len(x)
        BY <2>1, ConcatProperties
    <2>3. Len(x) \in Nat
        BY <2>1, LenProperties
    <2> QED BY <2>1, <2>2, <2>3
<1>5. r = Refill(g, t[1], <<v>> \o x, g.count + 1)
    BY <1>1, <1>3 DEF Refill
<1>6. /\ ListSound(r, t, m) /\ m # 0 /\ r.zl[t[1]] = <<v>> \o x
      /\ \A i \in 1..m : i # 1 => r.zl[t[i]] = g.zl[t[i]]
      /\ r.count = g.count + 1 /\ r.bound = g.bound
    <2> DEFINE y == <<v>> \o x
    <2>1. Ready(g, t, m, 1) /\ y \in Seq(Vals) /\ Len(y) = Len(g.zl[t[1]]) + 1
        BY <1>2, <1>4
    <2>2. r = Refill(g, t[1], y, g.count + 1)
        BY <1>5
    <2> HIDE DEF x, y
    <2>3. /\ ListSound(r, t, m) /\ m # 0 /\ r.zl[t[1]] = y
          /\ \A i \in 1..m : i # 1 => r.zl[t[i]] = g.zl[t[i]]
          /\ r.count = g.count + 1 /\ r.bound = g.bound
        BY ONLY <2>1, <2>2, Filled
    <2> QED BY <2>3 DEF y
<1>7. All(r.zl, t, m) = <<v>> \o All(g.zl, t, m)
    <2> DEFINE y == All(g.zl, Rest(t, m), m - 1)
               zm == r.zl
    <2>1. \A i \in 1..m : zm[t[i]] \in Seq(Vals)
        <3>1. zm \in [Nodes(r) -> Seq(Vals)] /\ t \in [1..m -> Nodes(r)]
            BY <1>6 DEF ListSound, ListValue, Strung
        <3> QED BY ONLY <3>1
    <2>2. /\ m \in Nat \ {0} /\ t \in [1..m -> Nat]
          /\ \A i \in 1..m : g.zl[t[i]] \in Seq(Vals)
          /\ \A i \in 1..m : zm[t[i]] \in Seq(Vals)
          /\ \A i \in 1..m : i # 1 => zm[t[i]] = g.zl[t[i]]
        BY <1>3, <1>6, <2>1
    <2> HIDE DEF zm
    <2>3. All(g.zl, t, m) = x \o y /\ All(zm, t, m) = zm[t[1]] \o y /\ y \in Seq(Vals)
        BY ONLY <2>2, FirstChanged, Zenon
    <2> HIDE DEF y, x
    <2>4. (<<v>> \o x) \o y = <<v>> \o (x \o y)
        BY <1>4, <2>3
    <2> QED BY <1>6, <2>3, <2>4 DEF zm
<1> QED BY <1>2, <1>6, <1>7

(* A push to the back puts one behind them.                                *)
LEMMA PushedBehind ==
    ASSUME NEW q, NEW s, NEW n, ListSound(q, s, n), NEW v \in Vals,
           NEW r, r = RPushOne(q, v)
    PROVE  \E t, m : /\ ListSound(r, t, m) /\ m # 0
                     /\ All(r.zl, t, m) = Append(All(q.zl, s, n), v)
                     /\ r.count = q.count + 1 /\ r.bound = q.bound
<1> DEFINE e == ensureHead(q)
           g == IF IsFull(e.zl[e.tail]) THEN GrowTail(e) ELSE e
<1>1. r = [g EXCEPT !.zl[g.tail] = Append(@, v), !.count = @ + 1]
    BY DEF RPushOne
<1>2. PICK t, m : /\ Ready(g, t, m, m) /\ All(g.zl, t, m) = All(q.zl, s, n)
                  /\ g.count = q.count /\ g.bound = q.bound
    BY ReadyBehind
<1> HIDE DEF e, g
<1>3. /\ ListValue(g) /\ Strung(g, t, m) /\ m \in Nat \ {0} /\ t \in [1..m -> Nat]
      /\ g.tail = t[m] /\ \A i \in 1..m : g.zl[t[i]] \in Seq(Vals)
    BY <1>2 DEF Ready, Strung, Link, ListValue
<1> DEFINE x == g.zl[t[m]]
<1>4. x \in Seq(Vals) /\ Append(x, v) \in Seq(Vals) /\ Len(Append(x, v)) = Len(x) + 1
    <2>1. x \in Seq(Vals)
        BY <1>3
    <2> QED BY <2>1, AppendProperties
<1>5. r = Refill(g, t[m], Append(x, v), g.count + 1)
    BY <1>1, <1>3 DEF Refill
<1>6. /\ ListSound(r, t, m) /\ m # 0 /\ r.zl[t[m]] = Append(x, v)
      /\ \A i \in 1..m : i # m => r.zl[t[i]] = g.zl[t[i]]
      /\ r.count = g.count + 1 /\ r.bound = g.bound
    <2> DEFINE y == Append(x, v)
    <2>1. Ready(g, t, m, m) /\ y \in Seq(Vals) /\ Len(y) = Len(g.zl[t[m]]) + 1
        BY <1>2, <1>4
    <2>2. r = Refill(g, t[m], y, g.count + 1)
        BY <1>5
    <2> HIDE DEF x, y
    <2>3. /\ ListSound(r, t, m) /\ m # 0 /\ r.zl[t[m]] = y
          /\ \A i \in 1..m : i # m => r.zl[t[i]] = g.zl[t[i]]
          /\ r.count = g.count + 1 /\ r.bound = g.bound
        BY ONLY <2>1, <2>2, Filled
    <2> QED BY <2>3 DEF y
<1>7. All(r.zl, t, m) = Append(All(g.zl, t, m), v)
    <2> DEFINE y == All(g.zl, Most(t, m), m - 1)
               zm == r.zl
    <2>1. \A i \in 1..m : zm[t[i]] \in Seq(Vals)
        <3>1. zm \in [Nodes(r) -> Seq(Vals)] /\ t \in [1..m -> Nodes(r)]
            BY SMTT(30), <1>6 DEF ListSound, ListValue, Strung
        <3> QED BY ONLY <3>1
    <2>2. /\ m \in Nat \ {0} /\ t \in [1..m -> Nat]
          /\ \A i \in 1..m : g.zl[t[i]] \in Seq(Vals)
          /\ \A i \in 1..m : zm[t[i]] \in Seq(Vals)
          /\ \A i \in 1..m : i # m => zm[t[i]] = g.zl[t[i]]
        BY <1>3, <1>6, <2>1
    <2> HIDE DEF zm
    <2>3. All(g.zl, t, m) = y \o x /\ All(zm, t, m) = y \o zm[t[m]] /\ y \in Seq(Vals)
        BY ONLY <2>2, LastChanged, ZenonT(30)
    <2> HIDE DEF y, x
    <2>4. y \o Append(x, v) = Append(y \o x, v)
        BY <1>4, <2>3
    <2> QED BY <1>6, <2>3, <2>4 DEF zm
<1> QED BY <1>2, <1>6, <1>7
-----------------------------------------------------------------------------
(* What removeNode leaves in each field.                                   *)
LEMMA NodeRemoved ==
    ASSUME NEW q, NEW s, NEW n, ListValue(q), Strung(q, s, n), NEW a \in Nodes(q),
           NEW r, r = removeNode(q, a)
    PROVE  /\ ListValue(r) /\ Nodes(r) = Nodes(q) \ {a}
           /\ \A b \in Nodes(r) : r.zl[b] = q.zl[b]
           /\ r.next \in [Nodes(r) -> Nat] /\ r.prev \in [Nodes(r) -> Nat]
           /\ \A b \in Nodes(r) : r.next[b] = IF b = q.prev[a] THEN q.next[a] ELSE q.next[b]
           /\ \A b \in Nodes(r) : r.prev[b] = IF b = q.next[a] THEN q.prev[a] ELSE q.prev[b]
           /\ r.head = IF n = 1 THEN NoNode ELSE IF q.prev[a] = NoNode THEN q.next[a] ELSE q.head
           /\ r.tail = IF n = 1 THEN NoNode ELSE IF q.next[a] = NoNode THEN q.prev[a] ELSE q.tail
           /\ r.len = q.len - 1 /\ r.count = q.count /\ r.bound = q.bound
<1> DEFINE rest == Nodes(q) \ {a}
           zl == [b \in rest |-> q.zl[b]]
           next == [b \in rest |-> IF b = q.prev[a] THEN q.next[a] ELSE q.next[b]]
           prev == [b \in rest |-> IF b = q.next[a] THEN q.prev[a] ELSE q.prev[b]]
           head == IF n = 1 THEN NoNode ELSE IF q.prev[a] = NoNode THEN q.next[a] ELSE q.head
           tail == IF n = 1 THEN NoNode ELSE IF q.next[a] = NoNode THEN q.prev[a] ELSE q.tail
           d == Detach(q, a)
<1>1. /\ q.next \in [Nodes(q) -> Nat] /\ q.prev \in [Nodes(q) -> Nat] /\ q.len = n
      /\ q.zl \in [Nodes(q) -> Seq(Vals)]
    BY DEF Strung, ListValue
<1>2. /\ zl \in [rest -> Seq(Vals)] /\ next \in [rest -> Nat] /\ prev \in [rest -> Nat]
      /\ \A b \in rest : zl[b] = q.zl[b]
      /\ \A b \in rest : next[b] = IF b = q.prev[a] THEN q.next[a] ELSE q.next[b]
      /\ \A b \in rest : prev[b] = IF b = q.next[a] THEN q.prev[a] ELSE q.prev[b]
    BY <1>1
<1>3. d = [q EXCEPT !.zl = zl, !.next = next, !.prev = prev]
    BY DEF Detach
<1>4. r = [d EXCEPT !.head = head, !.tail = tail, !.len = q.len - 1]
    <2>1. d.head = q.head /\ d.tail = q.tail /\ d.len = q.len
        <3> HIDE DEF d, zl, next, prev
        <3> QED BY <1>3 DEF ListValue
    <2> HIDE DEF d
    <2>2. r = [d EXCEPT
                !.head = IF q.len = 1 THEN NoNode ELSE IF q.prev[a] = NoNode THEN q.next[a] ELSE @,
                !.tail = IF q.len = 1 THEN NoNode ELSE IF q.next[a] = NoNode THEN q.prev[a] ELSE @,
                !.len = @ - 1]
        BY DEF d, removeNode
    <2> QED BY <1>1, <2>1, <2>2
<1> HIDE DEF zl, next, prev, head, tail, d
<1>5. d = [bound |-> q.bound, zl |-> zl, prev |-> prev, next |-> next,
           head |-> q.head, tail |-> q.tail, count |-> q.count, len |-> q.len]
    BY <1>3 DEF ListValue
<1>6. r = [bound |-> q.bound, zl |-> zl, prev |-> prev, next |-> next,
           head |-> head, tail |-> tail, count |-> q.count, len |-> q.len - 1]
    BY ONLY <1>4, <1>5
<1>7. /\ r.zl = zl /\ r.prev = prev /\ r.next = next /\ r.head = head /\ r.tail = tail
      /\ r.len = q.len - 1 /\ r.count = q.count /\ r.bound = q.bound
    BY ONLY <1>6
<1>8. Nodes(r) = rest
    BY <1>2, <1>7 DEF Nodes
<1>9. ListValue(r)
    BY <1>2, <1>6, <1>7, <1>8 DEF ListValue
<1> QED BY <1>2, <1>7, <1>8, <1>9 DEF head, tail

(* A node that is emptied at the front is unlinked.                        *)
LEMMA FrontRemoved ==
    ASSUME NEW q, NEW s, NEW n, ListValue(q), Strung(q, s, n), n # 0,
           NEW r, r = removeNode(q, s[1])
    PROVE  /\ ListValue(r) /\ Strung(r, Rest(s, n), n - 1)
           /\ \A i \in 1..n : i # 1 => r.zl[s[i]] = q.zl[s[i]]
           /\ r.count = q.count /\ r.bound = q.bound
<1> DEFINE a == s[1]
<1>1. /\ n \in Nat \ {0} /\ a \in Nodes(q) /\ q.prev[a] = NoNode /\ q.len = n
      /\ \A i \in 1..n : i # 1 => s[i] \in Nodes(q) \ {a}
      /\ \A b \in Nodes(q) : b # NoNode
      /\ q.next[a] = (IF n = 1 THEN NoNode ELSE s[2])
    <2>1. n \in Nat \ {0} /\ 1 \in 1..n /\ (n # 1 => 2 \in 1..n) /\ 1 - 1 = 0 /\ 1 + 1 = 2
        BY DEF Strung
    <2>2. q.prev[a] = Link(s, n, 0) /\ q.next[a] = Link(s, n, 2)
        BY <2>1 DEF Strung
    <2>3. \A b \in Nodes(q) : b # NoNode
        BY DEF Strung, NoNode
    <2> QED BY <2>1, <2>2, <2>3 DEF Strung, Link
<1>2. n # 1 => s[2] # NoNode
    <2>1. n # 1 => 2 \in 1..n /\ 2 # 1
        BY <1>1
    <2> QED BY <1>1, <2>1
<1>3. /\ ListValue(r) /\ Nodes(r) = Nodes(q) \ {a}
      /\ \A b \in Nodes(r) : r.zl[b] = q.zl[b]
      /\ r.next \in [Nodes(r) -> Nat] /\ r.prev \in [Nodes(r) -> Nat]
      /\ \A b \in Nodes(r) : r.next[b] = IF b = q.prev[a] THEN q.next[a] ELSE q.next[b]
      /\ \A b \in Nodes(r) : r.prev[b] = IF b = q.next[a] THEN q.prev[a] ELSE q.prev[b]
      /\ r.head = IF n = 1 THEN NoNode ELSE IF q.prev[a] = NoNode THEN q.next[a] ELSE q.head
      /\ r.tail = IF n = 1 THEN NoNode ELSE IF q.next[a] = NoNode THEN q.prev[a] ELSE q.tail
      /\ r.len = q.len - 1 /\ r.count = q.count /\ r.bound = q.bound
    BY <1>1, NodeRemoved
<1> HIDE DEF a
<1>4. /\ r.head = q.next[a] /\ r.tail = (IF n = 1 THEN NoNode ELSE q.tail)
      /\ \A b \in Nodes(r) : /\ r.next[b] = q.next[b]
                             /\ r.prev[b] = IF b = q.next[a] THEN NoNode ELSE q.prev[b]
    BY <1>1, <1>2, <1>3
<1>5. Strung(r, Rest(s, n), n - 1)
    <2>1. /\ Nodes(r) = Nodes(q) \ {s[1]}
          /\ r.next \in [Nodes(r) -> Nat] /\ r.prev \in [Nodes(r) -> Nat]
          /\ r.head = q.next[s[1]] /\ r.tail = (IF n = 1 THEN NoNode ELSE q.tail)
          /\ r.len = q.len - 1
          /\ \A b \in Nodes(r) : /\ r.next[b] = q.next[b]
                                 /\ r.prev[b] = IF b = q.next[s[1]] THEN NoNode ELSE q.prev[b]
        BY <1>3, <1>4 DEF a
    <2> QED BY ZenonT(30), <2>1, StrungRest
<1>6. \A i \in 1..n : i # 1 => r.zl[s[i]] = q.zl[s[i]]
    BY <1>1, <1>3
<1> QED BY <1>3, <1>5, <1>6

(* And one at the back.                                                    *)
LEMMA BackRemoved ==
    ASSUME NEW q, NEW s, NEW n, ListValue(q), Strung(q, s, n), n # 0,
           NEW r, r = removeNode(q, s[n])
    PROVE  /\ ListValue(r) /\ Strung(r, Most(s, n), n - 1)
           /\ \A i \in 1..n : i # n => r.zl[s[i]] = q.zl[s[i]]
           /\ r.count = q.count /\ r.bound = q.bound
<1> DEFINE a == s[n]
<1>1. /\ n \in Nat \ {0} /\ a \in Nodes(q) /\ q.next[a] = NoNode /\ q.len = n
      /\ \A i \in 1..n : i # n => s[i] \in Nodes(q) \ {a}
      /\ \A b \in Nodes(q) : b # NoNode
      /\ q.prev[a] = (IF n = 1 THEN NoNode ELSE s[n - 1])
    <2>1. n \in Nat \ {0} /\ n \in 1..n /\ (n # 1 => n - 1 \in 1..n) /\ n + 1 \notin 1..n
          /\ (n = 1 => n - 1 \notin 1..n)
        BY DEF Strung
    <2>2. q.prev[a] = Link(s, n, n - 1) /\ q.next[a] = Link(s, n, n + 1)
        BY <2>1 DEF Strung
    <2>3. \A b \in Nodes(q) : b # NoNode
        BY DEF Strung, NoNode
    <2> QED BY <2>1, <2>2, <2>3 DEF Strung, Link
<1>2. n # 1 => s[n - 1] # NoNode
    <2>1. n # 1 => n - 1 \in 1..n /\ n - 1 # n
        BY <1>1
    <2> QED BY <1>1, <2>1
<1>3. /\ ListValue(r) /\ Nodes(r) = Nodes(q) \ {a}
      /\ \A b \in Nodes(r) : r.zl[b] = q.zl[b]
      /\ r.next \in [Nodes(r) -> Nat] /\ r.prev \in [Nodes(r) -> Nat]
      /\ \A b \in Nodes(r) : r.next[b] = IF b = q.prev[a] THEN q.next[a] ELSE q.next[b]
      /\ \A b \in Nodes(r) : r.prev[b] = IF b = q.next[a] THEN q.prev[a] ELSE q.prev[b]
      /\ r.head = IF n = 1 THEN NoNode ELSE IF q.prev[a] = NoNode THEN q.next[a] ELSE q.head
      /\ r.tail = IF n = 1 THEN NoNode ELSE IF q.next[a] = NoNode THEN q.prev[a] ELSE q.tail
      /\ r.len = q.len - 1 /\ r.count = q.count /\ r.bound = q.bound
    BY <1>1, NodeRemoved
<1> HIDE DEF a
<1>4. /\ r.tail = q.prev[a] /\ r.head = (IF n = 1 THEN NoNode ELSE q.head)
      /\ \A b \in Nodes(r) : /\ r.prev[b] = q.prev[b]
                             /\ r.next[b] = IF b = q.prev[a] THEN NoNode ELSE q.next[b]
    BY <1>1, <1>2, <1>3
<1>5. Strung(r, Most(s, n), n - 1)
    <2>1. /\ Nodes(r) = Nodes(q) \ {s[n]}
          /\ r.next \in [Nodes(r) -> Nat] /\ r.prev \in [Nodes(r) -> Nat]
          /\ r.tail = q.prev[s[n]] /\ r.head = (IF n = 1 THEN NoNode ELSE q.head)
          /\ r.len = q.len - 1
          /\ \A b \in Nodes(r) : /\ r.prev[b] = q.prev[b]
                                 /\ r.next[b] = IF b = q.prev[s[n]] THEN NoNode ELSE q.next[b]
        BY <1>3, <1>4 DEF a
    <2> QED BY ZenonT(30), <2>1, StrungMost
<1>6. \A i \in 1..n : i # n => r.zl[s[i]] = q.zl[s[i]]
    BY <1>1, <1>3
<1> QED BY <1>3, <1>5, <1>6
(* A pop at the front takes the first value, and the node that held        *)
(* nothing else.                                                           *)
LEMMA PoppedFront ==
    ASSUME NEW q, NEW s, NEW n, ListSound(q, s, n), n # 0, q.count = Len(All(q.zl, s, n)),
           NEW r, r = LPopped(q)
    PROVE  /\ \E t, m : /\ ListSound(r, t, m)
                        /\ All(r.zl, t, m) = Tail(All(q.zl, s, n))
                        /\ r.count = Len(All(r.zl, t, m))
           /\ All(q.zl, s, n) # <<>> /\ Head(q.zl[q.head]) = Head(All(q.zl, s, n))
           /\ r.bound = q.bound
<1>1. /\ ListValue(q) /\ Strung(q, s, n) /\ q.head = s[1] /\ 1 \in 1..n /\ n \in Nat \ {0}
      /\ s \in [1..n -> Nat] /\ \A i \in 1..n : q.zl[s[i]] \in Seq(Vals)
      /\ \A i \in 1..n : Len(q.zl[s[i]]) \in 1..ListMaxZiplistSize
    BY DEF ListSound, ListValue, Strung, Link
<1> DEFINE zl == q.zl
           x == zl[s[1]]
           y == All(zl, Rest(s, n), n - 1)
           c == q.count - 1
           w == Refill(q, s[1], Tail(x), c)
<1>2. r = Unlinked(w, s[1])
    BY <1>1 DEF LPopped, Refill
<1>3. /\ x \in Seq(Vals) /\ Len(x) # 0 /\ y \in Seq(Vals) /\ All(zl, s, n) = x \o y
      /\ Len(x) \in 1..ListMaxZiplistSize
    <2>1. All(zl, s, n) = x \o y /\ y \in Seq(Vals)
        BY ONLY <1>1, FirstChanged
    <2> QED BY <1>1, <2>1, SizeIs
<1> HIDE DEF x, y
<1>4. /\ x \o y # <<>> /\ Head(x \o y) = Head(x) /\ Tail(x \o y) = Tail(x) \o y
      /\ Tail(x) \in Seq(Vals) /\ Len(Tail(x)) = Len(x) - 1
      /\ Len(x \o y) = Len(x) + Len(y) /\ Len(Tail(x \o y)) = Len(x \o y) - 1
    BY ONLY <1>3, HeadOfConcat
<1>5. c \in Nat /\ c = Len(Tail(x \o y))
    <2>1. Len(x) \in Nat /\ Len(y) \in Nat
        BY <1>3, LenProperties
    <2> QED BY <1>3, <1>4, <2>1 DEF zl
<1> HIDE DEF c
<1>6. /\ ListValue(w) /\ Strung(w, s, n) /\ w.count = c /\ w.bound = q.bound
      /\ w.zl[s[1]] = Tail(x) /\ \A i \in 1..n : i # 1 => w.zl[s[i]] = q.zl[s[i]]
    <2> DEFINE u == Tail(x)
    <2>1. w = Refill(q, s[1], u, c)
        OBVIOUS
    <2>2. ListValue(q) /\ Strung(q, s, n) /\ 1 \in 1..n /\ u \in Seq(Vals) /\ c \in Nat
        BY <1>1, <1>4, <1>5
    <2> HIDE DEF w, u
    <2>3. /\ ListValue(w) /\ Strung(w, s, n) /\ w.count = c /\ w.bound = q.bound
          /\ w.zl[s[1]] = u /\ \A i \in 1..n : i # 1 => w.zl[s[i]] = q.zl[s[i]]
        BY ONLY <2>1, <2>2, Refilled, SMTT(60)
    <2> QED BY <2>3 DEF u
<1> HIDE DEF w
<1>9. /\ All(q.zl, s, n) = x \o y /\ q.zl[q.head] = x /\ c = Len(Tail(x \o y))
      /\ All(q.zl, s, n) # <<>> /\ Head(q.zl[q.head]) = Head(All(q.zl, s, n))
    BY <1>1, <1>3, <1>4, <1>5 DEF x, zl
<1>7. CASE Tail(x) # <<>>
    <2>1. r = w
        BY <1>2, <1>6, <1>7 DEF Unlinked
    <2>2. Len(Tail(x)) \in 1..ListMaxZiplistSize
        <3>1. Len(Tail(x)) \in Nat \ {0}
            BY <1>4, <1>7
        <3> QED BY <1>3, <1>4, <3>1, SizeIs
    <2>3. \A i \in 1..n : Len(w.zl[s[i]]) \in 1..ListMaxZiplistSize
        BY <1>1, <1>6, <2>2
    <2>4. ListSound(w, s, n)
        BY <1>6, <2>3 DEF ListSound
    <2> DEFINE zm == w.zl
    <2>5. /\ n \in Nat \ {0} /\ s \in [1..n -> Nat] /\ \A i \in 1..n : zl[s[i]] \in Seq(Vals)
          /\ \A i \in 1..n : i # 1 => zm[s[i]] = zl[s[i]]
        BY <1>1, <1>6
    <2>6. \A i \in 1..n : zm[s[i]] \in Seq(Vals)
        BY <1>4, <1>6, <2>5
    <2> HIDE DEF zm, zl
    <2>7. All(zm, s, n) = zm[s[1]] \o All(zl, Rest(s, n), n - 1)
        BY ONLY <2>5, <2>6, FirstChanged
    <2>8. All(w.zl, s, n) = Tail(x \o y)
        BY <1>4, <1>6, <2>7 DEF zm, y
    <2>9. w.count = Len(All(w.zl, s, n)) /\ All(w.zl, s, n) = Tail(All(q.zl, s, n))
        BY <1>6, <1>9, <2>8
    <2> QED BY ONLY <1>6, <1>9, <2>1, <2>4, <2>9
<1>8. CASE Tail(x) = <<>>
    <2>1. r = removeNode(w, s[1])
        BY <1>2, <1>6, <1>8 DEF Unlinked
    <2>2. /\ ListValue(r) /\ Strung(r, Rest(s, n), n - 1)
          /\ \A i \in 1..n : i # 1 => r.zl[s[i]] = w.zl[s[i]]
          /\ r.count = w.count /\ r.bound = w.bound
        BY <1>6, <2>1, FrontRemoved
    <2>3. \A i \in 1..(n - 1) : Rest(s, n)[i] = s[i + 1] /\ i + 1 \in 1..n /\ i + 1 # 1
        BY <1>1 DEF Rest
    <2>4. \A i \in 1..(n - 1) : r.zl[Rest(s, n)[i]] = zl[Rest(s, n)[i]]
        BY <1>6, <2>2, <2>3
    <2>5. \A i \in 1..(n - 1) : Len(r.zl[Rest(s, n)[i]]) \in 1..ListMaxZiplistSize
        BY <1>1, <2>3, <2>4
    <2>6. ListSound(r, Rest(s, n), n - 1)
        BY <2>2, <2>5 DEF ListSound
    <2>7. All(r.zl, Rest(s, n), n - 1) = y
        <3>1. n - 1 \in Nat
            BY <1>1
        <3> QED BY <2>4, <3>1, AllSame DEF y
    <2>8. Tail(x) \o y = y
        BY <1>3, <1>8, ConcatEmptySeq
    <2>9. r.count = Len(y) /\ y = Tail(All(q.zl, s, n))
        BY <1>4, <1>6, <1>9, <2>2, <2>8
    <2>10. ListSound(r, Rest(s, n), n - 1) /\ r.count = Len(All(r.zl, Rest(s, n), n - 1))
           /\ All(r.zl, Rest(s, n), n - 1) = Tail(All(q.zl, s, n)) /\ r.bound = q.bound
        BY ONLY <1>6, <2>2, <2>6, <2>7, <2>9
    <2> QED BY ONLY <1>9, <2>10
<1> QED BY <1>7, <1>8

(* And one at the back the last.                                           *)
LEMMA PoppedBack ==
    ASSUME NEW q, NEW s, NEW n, ListSound(q, s, n), n # 0, q.count = Len(All(q.zl, s, n)),
           NEW r, r = RPopped(q)
    PROVE  /\ \E t, m : /\ ListSound(r, t, m)
                        /\ All(r.zl, t, m) = Front(All(q.zl, s, n))
                        /\ r.count = Len(All(r.zl, t, m))
           /\ All(q.zl, s, n) # <<>> /\ Last(q.zl[q.tail]) = Last(All(q.zl, s, n))
           /\ r.bound = q.bound
<1>1. /\ ListValue(q) /\ Strung(q, s, n) /\ q.tail = s[n] /\ n \in 1..n /\ n \in Nat \ {0}
      /\ s \in [1..n -> Nat] /\ \A i \in 1..n : q.zl[s[i]] \in Seq(Vals)
      /\ \A i \in 1..n : Len(q.zl[s[i]]) \in 1..ListMaxZiplistSize
    BY DEF ListSound, ListValue, Strung, Link
<1> DEFINE zl == q.zl
           x == zl[s[n]]
           y == All(zl, Most(s, n), n - 1)
           c == q.count - 1
           w == Refill(q, s[n], Front(x), c)
<1>2. r = Unlinked(w, s[n])
    BY <1>1 DEF RPopped, Refill
<1>3. /\ x \in Seq(Vals) /\ Len(x) # 0 /\ y \in Seq(Vals) /\ All(zl, s, n) = y \o x
      /\ Len(x) \in 1..ListMaxZiplistSize
    <2>1. All(zl, s, n) = y \o x /\ y \in Seq(Vals)
        BY ONLY <1>1, LastChanged
    <2> QED BY <1>1, <2>1, SizeIs
<1> HIDE DEF x, y
<1>4. /\ y \o x # <<>> /\ Last(y \o x) = Last(x) /\ Front(y \o x) = y \o Front(x)
      /\ Front(x) \in Seq(Vals) /\ Len(Front(x)) = Len(x) - 1
      /\ Len(y \o x) = Len(x) + Len(y) /\ Len(Front(y \o x)) = Len(y \o x) - 1
    BY ONLY <1>3, LastOfConcat
<1>5. c \in Nat /\ c = Len(Front(y \o x))
    <2>1. Len(x) \in Nat /\ Len(y) \in Nat
        BY <1>3, LenProperties
    <2> QED BY <1>3, <1>4, <2>1 DEF zl
<1> HIDE DEF c
<1>6. /\ ListValue(w) /\ Strung(w, s, n) /\ w.count = c /\ w.bound = q.bound
      /\ w.zl[s[n]] = Front(x) /\ \A i \in 1..n : i # n => w.zl[s[i]] = q.zl[s[i]]
    <2> DEFINE u == Front(x)
    <2>1. w = Refill(q, s[n], u, c)
        OBVIOUS
    <2>2. ListValue(q) /\ Strung(q, s, n) /\ n \in 1..n /\ u \in Seq(Vals) /\ c \in Nat
        BY <1>1, <1>4, <1>5
    <2> HIDE DEF w, u
    <2>3. /\ ListValue(w) /\ Strung(w, s, n) /\ w.count = c /\ w.bound = q.bound
          /\ w.zl[s[n]] = u /\ \A i \in 1..n : i # n => w.zl[s[i]] = q.zl[s[i]]
        BY ONLY <2>1, <2>2, Refilled, SMTT(60)
    <2> QED BY <2>3 DEF u
<1> HIDE DEF w
<1>9. /\ All(q.zl, s, n) = y \o x /\ q.zl[q.tail] = x /\ c = Len(Front(y \o x))
      /\ All(q.zl, s, n) # <<>> /\ Last(q.zl[q.tail]) = Last(All(q.zl, s, n))
    BY <1>1, <1>3, <1>4, <1>5 DEF x, zl
<1>7. CASE Front(x) # <<>>
    <2>1. r = w
        BY <1>2, <1>6, <1>7 DEF Unlinked
    <2>2. Len(Front(x)) \in 1..ListMaxZiplistSize
        <3>1. Len(Front(x)) \in Nat \ {0}
            BY <1>4, <1>7
        <3> QED BY <1>3, <1>4, <3>1, SizeIs
    <2>3. \A i \in 1..n : Len(w.zl[s[i]]) \in 1..ListMaxZiplistSize
        BY <1>1, <1>6, <2>2
    <2>4. ListSound(w, s, n)
        BY <1>6, <2>3 DEF ListSound
    <2> DEFINE zm == w.zl
    <2>5. /\ n \in Nat \ {0} /\ s \in [1..n -> Nat] /\ \A i \in 1..n : zl[s[i]] \in Seq(Vals)
          /\ \A i \in 1..n : i # n => zm[s[i]] = zl[s[i]]
        BY <1>1, <1>6
    <2>6. \A i \in 1..n : zm[s[i]] \in Seq(Vals)
        BY <1>4, <1>6, <2>5
    <2> HIDE DEF zm, zl
    <2>7. All(zm, s, n) = All(zl, Most(s, n), n - 1) \o zm[s[n]]
        BY ONLY ZenonT(30), <2>5, <2>6, LastChanged
    <2>8. All(w.zl, s, n) = Front(y \o x)
        BY <1>4, <1>6, <2>7 DEF zm, y
    <2>9. w.count = Len(All(w.zl, s, n)) /\ All(w.zl, s, n) = Front(All(q.zl, s, n))
        BY <1>6, <1>9, <2>8
    <2> QED BY ONLY <1>6, <1>9, <2>1, <2>4, <2>9
<1>8. CASE Front(x) = <<>>
    <2>1. r = removeNode(w, s[n])
        BY <1>2, <1>6, <1>8 DEF Unlinked
    <2>2. /\ ListValue(r) /\ Strung(r, Most(s, n), n - 1)
          /\ \A i \in 1..n : i # n => r.zl[s[i]] = w.zl[s[i]]
          /\ r.count = w.count /\ r.bound = w.bound
        BY <1>6, <2>1, BackRemoved
    <2>3. \A i \in 1..(n - 1) : Most(s, n)[i] = s[i] /\ i \in 1..n /\ i # n
        BY <1>1 DEF Most
    <2>4. \A i \in 1..(n - 1) : r.zl[Most(s, n)[i]] = zl[Most(s, n)[i]]
        BY <1>6, <2>2, <2>3
    <2>5. \A i \in 1..(n - 1) : Len(r.zl[Most(s, n)[i]]) \in 1..ListMaxZiplistSize
        BY <1>1, <2>3, <2>4
    <2>6. ListSound(r, Most(s, n), n - 1)
        BY <2>2, <2>5 DEF ListSound
    <2>7. All(r.zl, Most(s, n), n - 1) = y
        <3>1. n - 1 \in Nat
            BY <1>1
        <3> QED BY <2>4, <3>1, AllSame DEF y
    <2>8. y \o Front(x) = y
        BY <1>3, <1>8, ConcatEmptySeq
    <2>9. r.count = Len(y) /\ y = Front(All(q.zl, s, n))
        BY <1>4, <1>6, <1>9, <2>2, <2>8
    <2> QED BY ONLY <1>6, <1>9, <2>2, <2>6, <2>7, <2>9
<1> QED BY <1>7, <1>8
-----------------------------------------------------------------------------
(* q is sound, and its elements are those of l.                            *)
Holds(q, l) ==
    \E s, n : ListSound(q, s, n) /\ l = All(q.zl, s, n) /\ q.count = Len(l)

(* What can be told of the elements from the fields, and from the nodes.   *)
LEMMA HeldIs ==
    ASSUME NEW q, NEW l, Holds(q, l)
    PROVE  /\ AllElements(q) = l /\ l \in Seq(Vals) /\ q.count = Len(l)
           /\ q.head = NoNode <=> l = <<>>
           /\ q.tail = NoNode <=> l = <<>>
           /\ ListValue(q) /\ q.bound \in BOOLEAN /\ q.count \in Nat
<1>1. PICK s, n : ListSound(q, s, n) /\ l = All(q.zl, s, n) /\ q.count = Len(l)
    BY DEF Holds
<1>2. /\ ListValue(q) /\ Strung(q, s, n) /\ n \in Nat /\ s \in [1..n -> Nat]
      /\ \A i \in 1..n : q.zl[s[i]] \in Seq(Vals) /\ Len(q.zl[s[i]]) \in 1..ListMaxZiplistSize
      /\ q.head = (IF n = 0 THEN NoNode ELSE s[1]) /\ q.tail = (IF n = 0 THEN NoNode ELSE s[n])
      /\ \A i \in 1..n : s[i] # NoNode
    BY <1>1 DEF ListSound, ListValue, Strung, Link, NoNode
<1>3. AllElements(q) = l
    BY <1>1, <1>2, AllElementsAre
<1>4. l \in Seq(Vals) /\ (n = 0 => l = <<>>)
    BY <1>1, <1>2, AllType
<1>5. n # 0 => l # <<>>
    <2> SUFFICES ASSUME n # 0 PROVE l # <<>>
        OBVIOUS
    <2> DEFINE zl == q.zl
    <2>1. /\ n \in Nat \ {0} /\ s \in [1..n -> Nat] /\ \A i \in 1..n : zl[s[i]] \in Seq(Vals)
          /\ \A i \in 1..n : i # 1 => zl[s[i]] = zl[s[i]]
        BY <1>2
    <2> HIDE DEF zl
    <2>2. /\ All(zl, s, n) = zl[s[1]] \o All(zl, Rest(s, n), n - 1)
          /\ All(zl, Rest(s, n), n - 1) \in Seq(Vals)
        BY ONLY <2>1, FirstChanged
    <2>3. zl[s[1]] \in Seq(Vals) /\ Len(zl[s[1]]) # 0
        <3>1. 1 \in 1..n
            BY <2>1
        <3> QED BY <1>2, <3>1, SizeIs DEF zl
    <2>4. All(zl, s, n) # <<>>
        BY ONLY <2>2, <2>3, HeadOfConcat
    <2> QED BY <1>1, <2>4 DEF zl
<1>6. /\ q.head = NoNode <=> l = <<>>
      /\ q.tail = NoNode <=> l = <<>>
    <2>1. n # 0 => 1 \in 1..n /\ n \in 1..n
        BY <1>2
    <2> QED BY <1>2, <1>4, <1>5, <2>1
<1>7. q.bound \in BOOLEAN /\ q.count \in Nat
    BY <1>2 DEF ListValue
<1> QED BY <1>1, <1>2, <1>3, <1>4, <1>6, <1>7

(* No list holds nothing.                                                  *)
LEMMA NoListHolds == Holds(NoList, <<>>) /\ ~NoList.bound /\ NoList.count = 0
<1> DEFINE e == [a \in {} |-> <<>>]
           p == [a \in {} |-> NoNode]
           s == [i \in 1..0 |-> 1]
<1>1. NoList = [bound |-> FALSE, zl |-> e, prev |-> p, next |-> p,
                head |-> NoNode, tail |-> NoNode, count |-> 0, len |-> 0]
    <2>1. NewQuickList = [bound |-> TRUE, zl |-> e, prev |-> p, next |-> p,
                          head |-> NoNode, tail |-> NoNode, count |-> 0, len |-> 0]
        BY DEF NewQuickList
    <2> DEFINE b == FALSE
               w == NewQuickList
    <2> HIDE DEF e, p, b, w
    <2>2. [w EXCEPT !.bound = b] = [bound |-> b, zl |-> e, prev |-> p, next |-> p,
               head |-> NoNode, tail |-> NoNode, count |-> 0, len |-> 0]
        BY <2>1 DEF w
    <2> QED BY <2>2 DEF NoList, b, w
<1>2. e \in [{} -> Seq(Vals)] /\ p \in [{} -> Nat] /\ DOMAIN e = {}
    OBVIOUS
<1> HIDE DEF e, p
<1>3. /\ NoList.bound = FALSE /\ NoList.zl = e /\ NoList.prev = p /\ NoList.next = p
      /\ NoList.head = NoNode /\ NoList.tail = NoNode /\ NoList.count = 0 /\ NoList.len = 0
    BY <1>1
<1>4. Nodes(NoList) = {}
    BY <1>2, <1>3 DEF Nodes
<1>5. ListValue(NoList)
    BY <1>1, <1>2, <1>3, <1>4 DEF ListValue
<1>6. Strung(NoList, s, 0)
    BY <1>2, <1>3, <1>4 DEF Strung, Link
<1>7. All(NoList.zl, s, 0) = <<>>
    <2>1. 0 \in Nat /\ s \in [1..0 -> Nat] /\ \A i \in 1..0 : NoList.zl[s[i]] \in Seq(Vals)
        OBVIOUS
    <2> HIDE DEF s
    <2> QED BY <2>1, AllType
<1>8. ListSound(NoList, s, 0)
    BY <1>5, <1>6 DEF ListSound
<1>9. Len(<<>>) = 0
    OBVIOUS
<1> QED BY <1>3, <1>7, <1>8, <1>9 DEF Holds

(* What the operations do to the elements.                                 *)
LEMMA CreatedHolds ==
    ASSUME NEW q, NEW l, Holds(q, l)
    PROVE  Holds(ListCreated(q), l) /\ ListCreated(q).bound = TRUE
<1> DEFINE r == ListCreated(q)
<1>1. PICK s, n : ListSound(q, s, n) /\ l = All(q.zl, s, n) /\ q.count = Len(l)
    BY DEF Holds
<1>2. /\ ListValue(q) /\ Strung(q, s, n)
      /\ \A i \in 1..n : Len(q.zl[s[i]]) \in 1..ListMaxZiplistSize
    BY <1>1 DEF ListSound
<1>3. r = [bound |-> TRUE, zl |-> q.zl, prev |-> q.prev, next |-> q.next,
           head |-> q.head, tail |-> q.tail, count |-> q.count, len |-> q.len]
    <2>1. q = [bound |-> q.bound, zl |-> q.zl, prev |-> q.prev, next |-> q.next,
               head |-> q.head, tail |-> q.tail, count |-> q.count, len |-> q.len]
        BY <1>2 DEF ListValue
    <2> DEFINE b == TRUE
    <2> HIDE DEF b
    <2>2. [q EXCEPT !.bound = b] =
             [bound |-> b, zl |-> q.zl, prev |-> q.prev, next |-> q.next,
              head |-> q.head, tail |-> q.tail, count |-> q.count, len |-> q.len]
        BY ONLY <2>1
    <2> QED BY <2>2 DEF ListCreated, b
<1> HIDE DEF r
<1>4. /\ r.bound = TRUE /\ r.zl = q.zl /\ r.prev = q.prev /\ r.next = q.next
      /\ r.head = q.head /\ r.tail = q.tail /\ r.count = q.count /\ r.len = q.len
    BY ONLY <1>3
<1>5. Nodes(r) = Nodes(q)
    BY <1>4 DEF Nodes
<1>6. ListValue(r)
    BY <1>2, <1>3, <1>4, <1>5 DEF ListValue
<1>7. Strung(r, s, n)
    BY <1>2, <1>4, <1>5 DEF Strung
<1>8. ListSound(r, s, n)
    BY <1>2, <1>4, <1>6, <1>7 DEF ListSound
<1> QED BY <1>1, <1>4, <1>8 DEF Holds, r

(* A push on the left puts the value ahead of those the list holds.        *)
LEMMA LPushHolds ==
    ASSUME NEW q, NEW l, Holds(q, l), NEW v \in Vals
    PROVE  Holds(LPushOne(q, v), <<v>> \o l) /\ LPushOne(q, v).bound = q.bound
<1> DEFINE r == LPushOne(q, v)
<1>1. PICK s, n : ListSound(q, s, n) /\ l = All(q.zl, s, n) /\ q.count = Len(l)
    BY DEF Holds
<1>2. PICK t, m : /\ ListSound(r, t, m)
                  /\ All(r.zl, t, m) = <<v>> \o All(q.zl, s, n)
                  /\ r.count = q.count + 1 /\ r.bound = q.bound
    BY ZenonT(30), <1>1, PushedAhead
<1>3. Len(<<v>> \o l) = Len(l) + 1
    <2>1. l \in Seq(Vals)
        BY HeldIs
    <2> QED BY <2>1
<1> QED BY <1>1, <1>2, <1>3 DEF Holds

(* And one on the right behind them.                                       *)
LEMMA RPushHolds ==
    ASSUME NEW q, NEW l, Holds(q, l), NEW v \in Vals
    PROVE  Holds(RPushOne(q, v), Append(l, v)) /\ RPushOne(q, v).bound = q.bound
<1> DEFINE r == RPushOne(q, v)
<1>1. PICK s, n : ListSound(q, s, n) /\ l = All(q.zl, s, n) /\ q.count = Len(l)
    BY DEF Holds
<1>2. PICK t, m : /\ ListSound(r, t, m)
                  /\ All(r.zl, t, m) = Append(All(q.zl, s, n), v)
                  /\ r.count = q.count + 1 /\ r.bound = q.bound
    BY <1>1, PushedBehind
<1>3. Len(Append(l, v)) = Len(l) + 1
    <2>1. l \in Seq(Vals)
        BY HeldIs
    <2> QED BY <2>1
<1> QED BY <1>1, <1>2, <1>3 DEF Holds

(* A pop on the left takes the first value and leaves the others.          *)
LEMMA LPopHolds ==
    ASSUME NEW q, NEW l, Holds(q, l), l # <<>>
    PROVE  /\ Holds(LPopped(q), Tail(l)) /\ LPopped(q).bound = q.bound
           /\ Head(q.zl[q.head]) = Head(l)
<1>1. PICK s, n : ListSound(q, s, n) /\ l = All(q.zl, s, n) /\ q.count = Len(l)
    BY DEF Holds
<1>2. n # 0
    <2> SUFFICES ASSUME n = 0 PROVE FALSE
        OBVIOUS
    <2>1. q.head = NoNode
        BY <1>1 DEF ListSound, Strung, Link
    <2> QED BY <2>1, HeldIs
<1>3. /\ \E t, m : /\ ListSound(LPopped(q), t, m)
                   /\ All(LPopped(q).zl, t, m) = Tail(All(q.zl, s, n))
                   /\ LPopped(q).count = Len(All(LPopped(q).zl, t, m))
      /\ Head(q.zl[q.head]) = Head(All(q.zl, s, n))
      /\ LPopped(q).bound = q.bound
    BY <1>1, <1>2, PoppedFront
<1> QED BY <1>1, <1>3 DEF Holds

(* And one on the right the last.                                          *)
LEMMA RPopHolds ==
    ASSUME NEW q, NEW l, Holds(q, l), l # <<>>
    PROVE  /\ Holds(RPopped(q), Front(l)) /\ RPopped(q).bound = q.bound
           /\ Last(q.zl[q.tail]) = Last(l)
<1>1. PICK s, n : ListSound(q, s, n) /\ l = All(q.zl, s, n) /\ q.count = Len(l)
    BY DEF Holds
<1>2. n # 0
    <2> SUFFICES ASSUME n = 0 PROVE FALSE
        OBVIOUS
    <2>1. q.head = NoNode
        BY <1>1 DEF ListSound, Strung, Link
    <2> QED BY <2>1, HeldIs
<1>3. /\ \E t, m : /\ ListSound(RPopped(q), t, m)
                   /\ All(RPopped(q).zl, t, m) = Front(All(q.zl, s, n))
                   /\ RPopped(q).count = Len(All(RPopped(q).zl, t, m))
      /\ Last(q.zl[q.tail]) = Last(All(q.zl, s, n))
      /\ RPopped(q).bound = q.bound
    BY <1>1, <1>2, PoppedBack
<1> QED BY <1>1, <1>3 DEF Holds

(* A list that is emptied goes with its key, and only then.                *)
LEMMA SettledHolds ==
    ASSUME NEW q, NEW l, Holds(q, l), q.bound
    PROVE  Holds(Settled(q), l) /\ (Settled(q).bound <=> Settled(q).count > 0)
<1>1. q.count \in Nat /\ q.count = Len(l) /\ l \in Seq(Vals)
    BY HeldIs
<1>2. CASE q.count = 0
    <2>1. Len(l) = 0
        BY <1>1, <1>2
    <2>2. l = <<>>
        BY <1>1, <2>1
    <2>3. Settled(q) = NoList
        BY <1>2 DEF Settled
    <2> QED BY <2>2, <2>3, NoListHolds
<1>3. CASE q.count # 0
    BY <1>1, <1>3 DEF Settled
<1> QED BY <1>2, <1>3
-----------------------------------------------------------------------------
(* What holds between any two rounds: the nodes hold a sequence, there is a *)
(* key if it is not empty, and the loop is within its bounds.              *)
ListIInv ==
    /\ \E l : Holds(ql, l)
    /\ ql.bound <=> ql.count > 0
    /\ lcmd \in [op : {"none", "lpush", "rpush"}, n : 0..MaxArgs]
    /\ lcmd.op = "none" <=> lcmd = ListIdle

(* The step of a command that is under way, and of one that is not.        *)
LEMMA RoundKeeps ==
    ASSUME ListIInv, NEW op \in {"lpush", "rpush"}, ListRound(op)
    PROVE  /\ lcmd' \in [op : {"none", "lpush", "rpush"}, n : 0..MaxArgs]
           /\ lcmd'.op = "none" <=> lcmd' = ListIdle
           /\ lcmd'.op = op /\ lcmd.op \in {"none", op} /\ lsaid' = NoAnswer
<1>1. lcmd \in [op : {"none", "lpush", "rpush"}, n : 0..MaxArgs] /\ MaxArgs \in Nat
    BY ReplyAssumption DEF ListIInv
<1>2. /\ lcmd' = [op |-> op, n |-> lcmd.n + 1] /\ lcmd.n < MaxArgs
      /\ lcmd.op \in {"none", op} /\ lsaid' = NoAnswer
    BY DEF ListRound
<1>3. lcmd.n + 1 \in 0..MaxArgs
    BY <1>1, <1>2
<1>4. lcmd'.op = op /\ op # "none"
    BY <1>2
<1>5. lcmd' \in [op : {"none", "lpush", "rpush"}, n : 0..MaxArgs]
    BY <1>2, <1>3
<1>6. lcmd' # ListIdle
    BY <1>4 DEF ListIdle
<1> QED BY <1>2, <1>4, <1>5, <1>6

(* Every step of the implementation is one of the sequence it holds, and   *)
(* keeps what the next step relies on.                                     *)
LEMMA ListStep ==
    ASSUME ListIInv, [ListNext]_listVars
    PROVE  /\ ListIInv'
           /\ [LAbs!Next]_<<AllElements(ql), lcmd.op, lsaid>>
<1> DEFINE A == [LAbs!Next]_<<AllElements(ql), lcmd.op, lsaid>>
<1>1. PICK l : Holds(ql, l)
    BY DEF ListIInv
<1>2. /\ AllElements(ql) = l /\ l \in Seq(Vals) /\ ql.count = Len(l) /\ ql.count \in Nat
      /\ ql.head = NoNode <=> l = <<>>
      /\ ql.tail = NoNode <=> l = <<>>
    BY <1>1, HeldIs
<1>3. ASSUME NEW k, Holds(ql', k) PROVE AllElements(ql)' = k /\ ql'.count = Len(k) /\ k \in Seq(Vals)
    <2>1. AllElements(ql') = k /\ ql'.count = Len(k) /\ k \in Seq(Vals)
        BY <1>3, HeldIs
    <2> QED BY <2>1
<1>4. ASSUME NEW v \in Vals, LPush(v) PROVE ListIInv' /\ A
    <2>1. ListRound("lpush") /\ ql' = LPushOne(ListCreated(ql), v)
        BY <1>4 DEF LPush
    <2>2. Holds(ListCreated(ql), l) /\ ListCreated(ql).bound = TRUE
        BY <1>1, CreatedHolds
    <2>3. Holds(ql', <<v>> \o l) /\ ql'.bound = TRUE
        BY <2>1, <2>2, LPushHolds
    <2>4. AllElements(ql)' = <<v>> \o l /\ ql'.count > 0
        <3>1. Len(<<v>> \o l) = Len(l) + 1 /\ Len(l) \in Nat
            BY <1>2
        <3>2. AllElements(ql)' = <<v>> \o l /\ ql'.count = Len(<<v>> \o l)
            BY <1>3, <2>3
        <3> QED BY <3>1, <3>2
    <2>5. /\ lcmd' \in [op : {"none", "lpush", "rpush"}, n : 0..MaxArgs]
          /\ lcmd'.op = "none" <=> lcmd' = ListIdle
          /\ lcmd'.op = "lpush" /\ lcmd.op \in {"none", "lpush"} /\ lsaid' = NoAnswer
        BY <2>1, RoundKeeps
    <2>6. ListIInv'
        BY <2>3, <2>4, <2>5 DEF ListIInv
    <2>7. LAbs!LPush(v)
        BY <1>2, <2>4, <2>5 DEF LAbs!LPush, LAbs!Begun
    <2> QED BY <2>6, <2>7 DEF LAbs!Next
<1>5. ASSUME NEW v \in Vals, RPush(v) PROVE ListIInv' /\ A
    <2>1. ListRound("rpush") /\ ql' = RPushOne(ListCreated(ql), v)
        BY <1>5 DEF RPush
    <2>2. Holds(ListCreated(ql), l) /\ ListCreated(ql).bound = TRUE
        BY <1>1, CreatedHolds
    <2>3. Holds(ql', Append(l, v)) /\ ql'.bound = TRUE
        BY <2>1, <2>2, RPushHolds
    <2>4. AllElements(ql)' = Append(l, v) /\ ql'.count > 0
        <3>1. Len(Append(l, v)) = Len(l) + 1 /\ Len(l) \in Nat
            BY <1>2
        <3>2. AllElements(ql)' = Append(l, v) /\ ql'.count = Len(Append(l, v))
            BY <1>3, <2>3
        <3> QED BY <3>1, <3>2
    <2>5. /\ lcmd' \in [op : {"none", "lpush", "rpush"}, n : 0..MaxArgs]
          /\ lcmd'.op = "none" <=> lcmd' = ListIdle
          /\ lcmd'.op = "rpush" /\ lcmd.op \in {"none", "rpush"} /\ lsaid' = NoAnswer
        BY <2>1, RoundKeeps
    <2>6. ListIInv'
        BY <2>3, <2>4, <2>5 DEF ListIInv
    <2>7. LAbs!RPush(v)
        BY <1>2, <2>4, <2>5 DEF LAbs!RPush, LAbs!Begun
    <2> QED BY <2>6, <2>7 DEF LAbs!Next
<1>6. CASE PushEnd
    <2>1. /\ lcmd # ListIdle /\ lcmd' = ListIdle /\ lsaid' = <<lcmd.op, ql.count>> /\ ql' = ql
        BY <1>6 DEF PushEnd
    <2>2. lcmd.op \in {"lpush", "rpush"} /\ lcmd'.op = "none" /\ AllElements(ql)' = AllElements(ql)
        BY <2>1 DEF ListIInv, ListIdle
    <2>3. ListIInv'
        BY <2>1, ReplyAssumption DEF ListIInv, ListIdle
    <2>4. LAbs!Ended("lpush") \/ LAbs!Ended("rpush")
        BY <1>2, <2>1, <2>2 DEF LAbs!Ended
    <2> QED BY <2>3, <2>4 DEF LAbs!Next
<1>7. ASSUME ql' = ql, lcmd' = lcmd PROVE ListIInv'
    BY <1>7 DEF ListIInv
<1>8. ASSUME lcmd = ListIdle, lcmd' = lcmd, NEW k, Holds(ql', k), ql'.bound <=> ql'.count > 0
      PROVE  ListIInv' /\ AllElements(ql)' = k
    <2>1. ListIInv'
        BY <1>8 DEF ListIInv
    <2> QED BY <1>3, <1>8, <2>1
<1>9. lcmd = ListIdle => lcmd.op = "none"
    BY DEF ListIInv
<1>10. CASE LPop
    <2>1. CASE ql.head = NoNode /\ ListAnswer("lpop", Nil) /\ UNCHANGED ql
        <3>1. lcmd = ListIdle /\ lcmd' = lcmd /\ ql' = ql /\ lsaid' = <<"lpop", Nil>> /\ l = <<>>
              /\ AllElements(ql)' = AllElements(ql)
            BY <1>2, <2>1 DEF ListAnswer
        <3>2. LAbs!LPop
            BY <1>2, <1>9, <3>1 DEF LAbs!LPop, LAbs!Said
        <3> QED BY <1>7, <3>1, <3>2 DEF LAbs!Next
    <2>2. CASE ql.head # NoNode /\ ListAnswer("lpop", Head(ql.zl[ql.head]))
               /\ ql' = Settled(LPopped(ql))
        <3>1. /\ lcmd = ListIdle /\ lcmd' = lcmd /\ l # <<>>
              /\ lsaid' = <<"lpop", Head(ql.zl[ql.head])>>
            BY <1>2, <2>2 DEF ListAnswer
        <3>2. ql.bound = TRUE
            <4>1. Len(l) # 0
                BY <1>2, <3>1
            <4>2. ql.bound \in BOOLEAN
                BY <1>1, HeldIs
            <4> QED BY <1>2, <4>1, <4>2 DEF ListIInv
        <3>3. /\ Holds(LPopped(ql), Tail(l)) /\ LPopped(ql).bound = TRUE
              /\ Head(ql.zl[ql.head]) = Head(l)
            BY <1>1, <3>1, <3>2, LPopHolds
        <3>4. Holds(ql', Tail(l)) /\ (ql'.bound <=> ql'.count > 0)
            BY <2>2, <3>3, SettledHolds
        <3>5. ListIInv' /\ AllElements(ql)' = Tail(l)
            BY <1>8, <3>1, <3>4
        <3>6. LAbs!LPop
            BY <1>2, <1>9, <3>1, <3>3, <3>5 DEF LAbs!LPop, LAbs!Said
        <3> QED BY <3>5, <3>6 DEF LAbs!Next
    <2> QED BY <1>10, <2>1, <2>2 DEF LPop
<1>11. CASE RPop
    <2>1. CASE ql.tail = NoNode /\ ListAnswer("rpop", Nil) /\ UNCHANGED ql
        <3>1. lcmd = ListIdle /\ lcmd' = lcmd /\ ql' = ql /\ lsaid' = <<"rpop", Nil>> /\ l = <<>>
              /\ AllElements(ql)' = AllElements(ql)
            BY <1>2, <2>1 DEF ListAnswer
        <3>2. LAbs!RPop
            BY <1>2, <1>9, <3>1 DEF LAbs!RPop, LAbs!Said
        <3> QED BY <1>7, <3>1, <3>2 DEF LAbs!Next
    <2>2. CASE ql.tail # NoNode /\ ListAnswer("rpop", Last(ql.zl[ql.tail]))
               /\ ql' = Settled(RPopped(ql))
        <3>1. /\ lcmd = ListIdle /\ lcmd' = lcmd /\ l # <<>>
              /\ lsaid' = <<"rpop", Last(ql.zl[ql.tail])>>
            BY <1>2, <2>2 DEF ListAnswer
        <3>2. ql.bound = TRUE
            <4>1. Len(l) # 0
                BY <1>2, <3>1
            <4>2. ql.bound \in BOOLEAN
                BY <1>1, HeldIs
            <4> QED BY <1>2, <4>1, <4>2 DEF ListIInv
        <3>3. /\ Holds(RPopped(ql), Front(l)) /\ RPopped(ql).bound = TRUE
              /\ Last(ql.zl[ql.tail]) = Last(l)
            BY <1>1, <3>1, <3>2, RPopHolds
        <3>4. Holds(ql', Front(l)) /\ (ql'.bound <=> ql'.count > 0)
            BY <2>2, <3>3, SettledHolds
        <3>5. ListIInv' /\ AllElements(ql)' = Front(l)
            BY <1>8, <3>1, <3>4
        <3>6. LAbs!RPop
            BY <1>2, <1>9, <3>1, <3>3, <3>5 DEF LAbs!RPop, LAbs!Said, LAbs!Last, LAbs!Front, Last, Front
        <3> QED BY <3>5, <3>6 DEF LAbs!Next
    <2> QED BY <1>11, <2>1, <2>2 DEF RPop
<1>12. CASE LLen
    <2>1. lcmd = ListIdle /\ lcmd' = lcmd /\ ql' = ql /\ lsaid' = <<"llen", ql.count>>
          /\ AllElements(ql)' = AllElements(ql)
        BY <1>12 DEF LLen, ListAnswer
    <2>2. LAbs!LLen
        BY <1>2, <1>9, <2>1 DEF LAbs!LLen, LAbs!Said
    <2> QED BY <1>7, <2>1, <2>2 DEF LAbs!Next
<1>13. CASE ListDropped
    <2>1. lcmd = ListIdle /\ lcmd' = lcmd /\ ql' = NoList /\ lsaid' = NoAnswer
        BY <1>13 DEF ListDropped
    <2>2. Holds(ql', <<>>) /\ (ql'.bound <=> ql'.count > 0)
        BY <2>1, NoListHolds
    <2>3. ListIInv' /\ AllElements(ql)' = <<>>
        BY <1>8, <2>1, <2>2
    <2>4. LAbs!Drop
        BY <1>9, <2>1, <2>3 DEF LAbs!Drop
    <2> QED BY <2>3, <2>4 DEF LAbs!Next
<1>14. CASE UNCHANGED listVars
    <2>1. ql' = ql /\ lcmd' = lcmd /\ lsaid' = lsaid /\ AllElements(ql)' = AllElements(ql)
        BY <1>14 DEF listVars
    <2> QED BY <2>1 DEF ListIInv
<1> QED BY <1>4, <1>5, <1>6, <1>10, <1>11, <1>12, <1>13, <1>14 DEF ListNext
-----------------------------------------------------------------------------
(* The key begins with no list.                                            *)
LEMMA ListStarts == ListInit => ListIInv /\ LAbs!Init
<1> SUFFICES ASSUME ListInit PROVE ListIInv /\ LAbs!Init
    OBVIOUS
<1>1. ql = NoList /\ lcmd = ListIdle /\ lsaid = NoAnswer /\ MaxArgs \in Nat
    BY ReplyAssumption DEF ListInit
<1>2. Holds(ql, <<>>) /\ (ql.bound <=> ql.count > 0)
    BY <1>1, NoListHolds
<1>3. AllElements(ql) = <<>>
    BY <1>2, HeldIs
<1>4. lcmd = [op |-> "none", n |-> 0] /\ 0 \in 0..MaxArgs
    BY <1>1 DEF ListIdle
<1>5. lcmd \in [op : {"none", "lpush", "rpush"}, n : 0..MaxArgs] /\ lcmd.op = "none"
    BY <1>4
<1> QED BY <1>1, <1>2, <1>3, <1>5 DEF ListIInv, LAbs!Init

(* What the invariant says, in the terms of module QuickList.              *)
LEMMA ListSays == ListIInv => ListTypeOK /\ WellLinked /\ CountsAgree
<1> SUFFICES ASSUME ListIInv PROVE ListTypeOK /\ WellLinked /\ CountsAgree
    OBVIOUS
<1>1. PICK s, n : ListSound(ql, s, n) /\ ql.count = Len(All(ql.zl, s, n))
    BY DEF ListIInv, Holds
<1>2. Holds(ql, All(ql.zl, s, n))
    BY <1>1 DEF Holds
<1>3. /\ ListValue(ql) /\ Strung(ql, s, n)
      /\ \A i \in 1..n : Len(ql.zl[s[i]]) \in 1..ListMaxZiplistSize
    BY <1>1 DEF ListSound
<1>4. /\ n \in Nat /\ s \in [1..n -> Nodes(ql)] /\ Cardinality(Nodes(ql)) = n
      /\ \A a \in Nodes(ql) : \E i \in 1..n : s[i] = a
      /\ \A i \in 1..n : s[i] \in Nodes(ql)
    <2>1. Cardinality(Nodes(ql)) = n
        BY <1>3, NodesCounted
    <2> QED BY <1>3, <2>1 DEF Strung
<1>5. CountsAgree
    <2>1. AllElements(ql) = All(ql.zl, s, n)
        BY <1>2, HeldIs
    <2>2. ql.len = n
        BY <1>3 DEF Strung
    <2> QED BY <1>1, <1>4, <2>1, <2>2 DEF CountsAgree, ListIInv
<1>6. WellLinked
    <2> DEFINE at(i) == IF i \in 1..n THEN s[i] ELSE NoNode
    <2>1. /\ ql.head = at(1) /\ ql.tail = at(n)
          /\ \A i \in 1..n : ql.next[s[i]] = at(i + 1) /\ ql.prev[s[i]] = at(i - 1)
        BY <1>3 DEF Strung, Link
    <2>2. s \in Orders(ql)
        BY <1>4 DEF Orders
    <2>3. InOrder(ql, s)
        BY <1>4, <2>1 DEF InOrder
    <2>4. \A a \in Nodes(ql) : Len(ql.zl[a]) \in 1..ListMaxZiplistSize
        BY <1>3, <1>4
    <2> QED BY <2>2, <2>3, <2>4 DEF WellLinked
<1>7. ListTypeOK
    <2>1. \A i \in Int : Link(s, n, i) \in Nodes(ql) \cup {NoNode}
        BY <1>4 DEF Link
    <2>2. ASSUME NEW a \in Nodes(ql)
          PROVE  ql.prev[a] \in Nodes(ql) \cup {NoNode} /\ ql.next[a] \in Nodes(ql) \cup {NoNode}
        <3>1. PICK i \in 1..n : s[i] = a
            BY <1>4
        <3>2. i + 1 \in Int /\ i - 1 \in Int
            OBVIOUS
        <3>3. ql.prev[a] = Link(s, n, i - 1) /\ ql.next[a] = Link(s, n, i + 1)
            BY <1>3, <3>1 DEF Strung
        <3> QED BY <2>1, <3>2, <3>3
    <2>3. /\ ql.prev \in [Nodes(ql) -> Nodes(ql) \cup {NoNode}]
          /\ ql.next \in [Nodes(ql) -> Nodes(ql) \cup {NoNode}]
        BY <1>3, <2>2 DEF Strung
    <2>4. /\ ql.head \in Nodes(ql) \cup {NoNode} /\ ql.tail \in Nodes(ql) \cup {NoNode}
          /\ ql.len \in Nat
        BY <1>3, <1>4, <2>1 DEF Strung
    <2> QED BY <1>3, <2>3, <2>4 DEF ListTypeOK, ListIInv, ListValue
<1> QED BY <1>5, <1>6, <1>7

(* The invariant, of every state that is reached.                          *)
LEMMA ListAlwaysSound == ListSpec => []ListIInv
<1>1. ListIInv /\ [ListNext]_listVars => ListIInv'
    BY ListStep
<1> QED BY <1>1, ListStarts, PTL DEF ListSpec

(* The value of a list's key is a QuickList of strings, its pointers are   *)
(* those of its nodes, and the loop is in its bounds (quicklist.go:27-34). *)
THEOREM ListTypeCorrect == ListSpec => []ListTypeOK
    BY ListAlwaysSound, ListSays, PTL

(* However pushes and pops at the two ends fill, add and unlink nodes, the *)
(* pointers forth and back agree on one order of all of them, from the     *)
(* head to the tail, and no node is empty or larger than configured        *)
(* (quicklist.go:62-154).                                                  *)
THEOREM ListAlwaysWellLinked == ListSpec => []WellLinked
    BY ListAlwaysSound, ListSays, PTL

(* The number of elements is counted right, whatever node they are in, the *)
(* number of nodes too, and there is no list without elements              *)
(* (quicklist.go:31-34, eval_list.go:74-76).                               *)
THEOREM ListAlwaysCounted == ListSpec => []CountsAgree
    BY ListAlwaysSound, ListSays, PTL

(* The nodes together are a sequence: the commands change it, and answer,  *)
(* as ListAbs says.                                                        *)
THEOREM ListImplementation == ListSpec => ImplementsList
<1>1. ListIInv /\ [ListNext]_listVars => [LAbs!Next]_<<AllElements(ql), lcmd.op, lsaid>>
    BY ListStep
<1> QED BY <1>1, ListStarts, ListAlwaysSound, PTL DEF ListSpec, ImplementsList, LAbs!Spec
-----------------------------------------------------------------------------
(* The end of a cut, and the cut.                                          *)
CutEnd(a, stop) == IF stop < Len(a) THEN stop + 1 ELSE Len(a)
Cut(a, start, stop) == [i \in 1..(CutEnd(a, stop) - start) |-> a[start + i]]

(* What a cut has, and how much of it.                                     *)
LEMMA CutIs ==
    ASSUME NEW S, NEW a \in Seq(S), NEW start \in Nat, NEW stop \in Nat
    PROVE  /\ Cut(a, start, stop) \in Seq(S)
           /\ Len(Cut(a, start, stop)) =
                 IF start <= CutEnd(a, stop) THEN CutEnd(a, stop) - start ELSE 0
           /\ \A i \in 1..Len(Cut(a, start, stop)) : Cut(a, start, stop)[i] = a[start + i]
           /\ CutEnd(a, stop) \in Nat /\ CutEnd(a, stop) <= Len(a)
<1> DEFINE e == CutEnd(a, stop)
           n == IF start <= e THEN e - start ELSE 0
<1>1. e \in Nat /\ e <= Len(a) /\ Len(a) \in Nat
    <2>1. Len(a) \in Nat
        BY LenProperties
    <2> QED BY <2>1 DEF CutEnd
<1> HIDE DEF e
<1>2. n \in Nat /\ 1..(e - start) = 1..n
    BY <1>1
<1>3. \A i \in 1..n : start + i \in 1..Len(a)
    BY <1>1
<1> HIDE DEF n
<1>4. \A i \in 1..n : a[start + i] \in S
    BY <1>3, ElementOfSeq
<1>5. Cut(a, start, stop) = [i \in 1..n |-> a[start + i]]
    BY <1>2 DEF Cut, e
<1>6. /\ [i \in 1..n |-> a[start + i]] \in Seq(S)
      /\ Len([i \in 1..n |-> a[start + i]]) = n
    BY <1>2, <1>4
<1> QED BY <1>1, <1>5, <1>6 DEF n, e

(* Where the part of a node begins and ends in it.                         *)
PartFrom(pos, start) == IF start > pos THEN start - pos ELSE 0
PartTo(b, pos, stop) == IF stop < pos + Len(b) - 1 THEN stop - pos ELSE Len(b) - 1

(* What the part of a node has, and how much of it.                        *)
LEMMA PartIs ==
    ASSUME NEW S, NEW b \in Seq(S), NEW pos \in Nat, NEW start \in Nat, NEW stop \in Nat
    PROVE  /\ Part(b, pos, start, stop) \in Seq(S)
           /\ Len(Part(b, pos, start, stop)) =
                 IF PartFrom(pos, start) <= PartTo(b, pos, stop)
                 THEN PartTo(b, pos, stop) - PartFrom(pos, start) + 1 ELSE 0
           /\ \A i \in 1..Len(Part(b, pos, start, stop)) :
                 Part(b, pos, start, stop)[i] = b[PartFrom(pos, start) + i]
<1> DEFINE from == PartFrom(pos, start)
           to == PartTo(b, pos, stop)
<1>1. Part(b, pos, start, stop) = SubSeq(b, from + 1, to + 1)
    BY DEF Part, PartFrom, PartTo
<1>2. Len(b) \in Nat
    BY LenProperties
<1>3. from \in Nat /\ to \in Int /\ to <= Len(b) - 1
    BY <1>2 DEF PartFrom, PartTo
<1> HIDE DEF from, to
<1>4. from + 1 \in Int /\ to + 1 \in Int /\ \A i \in (from + 1)..(to + 1) : i \in 1..Len(b)
    BY <1>2, <1>3
<1>5. \A i \in (from + 1)..(to + 1) : b[i] \in S
    BY <1>4, ElementOfSeq
<1> DEFINE m == from + 1
           n == to + 1
<1>6. m \in Int /\ n \in Int /\ \A i \in m..n : b[i] \in S
    BY <1>4, <1>5
<1> HIDE DEF m, n
<1>7. /\ SubSeq(b, m, n) \in Seq(S) /\ Len(SubSeq(b, m, n)) = (IF m <= n THEN n - m + 1 ELSE 0)
      /\ \A i \in 1..(n - m + 1) : SubSeq(b, m, n)[i] = b[m + i - 1]
    BY ONLY <1>6, SubSeqProperties
<1>8. Len(SubSeq(b, m, n)) = IF from <= to THEN to - from + 1 ELSE 0
    <2>1. m = from + 1 /\ n = to + 1
        BY DEF m, n
    <2> QED BY ONLY <1>3, <1>7, <2>1
<1>9. ASSUME NEW i \in 1..Len(SubSeq(b, m, n)) PROVE SubSeq(b, m, n)[i] = b[from + i]
    <2>1. i \in 1..(n - m + 1) /\ m + i - 1 = from + i
        BY <1>3, <1>7 DEF m, n
    <2> QED BY <1>7, <2>1
<1> QED BY <1>1, <1>7, <1>8, <1>9 DEF m, n, from, to

(* The cut of a sequence and more is a cut of each.                        *)
LEMMA CutOfConcat ==
    ASSUME NEW S, NEW a \in Seq(S), NEW b \in Seq(S), NEW start \in Nat, NEW stop \in Nat
    PROVE  Cut(a, start, stop) \o Part(b, Len(a), start, stop) = Cut(a \o b, start, stop)
<1> DEFINE pos == Len(a)
           from == IF start > pos THEN start - pos ELSE 0
           to == IF stop < pos + Len(b) - 1 THEN stop - pos ELSE Len(b) - 1
           c == a \o b
           u == Cut(a, start, stop)
           w == Part(b, pos, start, stop)
           r == Cut(c, start, stop)
           ea == CutEnd(a, stop)
           ec == CutEnd(c, stop)
<1>1. /\ pos \in Nat /\ Len(b) \in Nat /\ c \in Seq(S) /\ Len(c) = pos + Len(b)
      /\ \A i \in 1..(pos + Len(b)) : c[i] = IF i <= pos THEN a[i] ELSE b[i - pos]
    BY LenProperties, ConcatProperties
<1>2. /\ w \in Seq(S) /\ Len(w) = (IF from <= to THEN to - from + 1 ELSE 0)
      /\ \A i \in 1..Len(w) : w[i] = b[from + i]
    <2>1. pos \in Nat
        BY <1>1
    <2>2. from = PartFrom(pos, start) /\ to = PartTo(b, pos, stop)
        BY DEF PartFrom, PartTo
    <2> HIDE DEF from, to, pos
    <2>3. /\ Part(b, pos, start, stop) \in Seq(S)
          /\ Len(Part(b, pos, start, stop)) =
                IF PartFrom(pos, start) <= PartTo(b, pos, stop)
                THEN PartTo(b, pos, stop) - PartFrom(pos, start) + 1 ELSE 0
          /\ \A i \in 1..Len(Part(b, pos, start, stop)) :
                Part(b, pos, start, stop)[i] = b[PartFrom(pos, start) + i]
        BY ONLY <2>1, PartIs, b \in Seq(S), start \in Nat, stop \in Nat
    <2> QED BY <2>2, <2>3
<1>3. /\ u \in Seq(S) /\ Len(u) = (IF start <= ea THEN ea - start ELSE 0)
      /\ \A i \in 1..Len(u) : u[i] = a[start + i]
      /\ ea = (IF stop < pos THEN stop + 1 ELSE pos)
    BY CutIs DEF CutEnd
<1>4. /\ r \in Seq(S) /\ Len(r) = (IF start <= ec THEN ec - start ELSE 0)
      /\ \A i \in 1..Len(r) : r[i] = c[start + i]
      /\ ec = (IF stop < pos + Len(b) THEN stop + 1 ELSE pos + Len(b))
    <2> HIDE DEF c
    <2> QED BY <1>1, CutIs DEF CutEnd
<1> DEFINE lb == Len(b)
           lu == Len(u)
           lw == Len(w)
           lr == Len(r)
<1> HIDE DEF c, u, w, r, ea, ec
<1>5. lu \in Nat /\ lw \in Nat /\ lr = lu + lw
    <2>1. lb \in Nat /\ pos \in Nat
        BY <1>1
    <2>2. lu = (IF start <= ea THEN ea - start ELSE 0) /\ ea = (IF stop < pos THEN stop + 1 ELSE pos)
        BY <1>3
    <2>3. lw = IF from <= to THEN to - from + 1 ELSE 0
        BY <1>2
    <2>4. /\ lr = (IF start <= ec THEN ec - start ELSE 0)
          /\ ec = (IF stop < pos + lb THEN stop + 1 ELSE pos + lb)
        BY <1>4
    <2>5. /\ from = IF start > pos THEN start - pos ELSE 0
          /\ to = IF stop < pos + lb - 1 THEN stop - pos ELSE lb - 1
        OBVIOUS
    <2> HIDE DEF lb, lu, lw, lr, pos, from, to
    <2> QED BY ONLY <2>1, <2>2, <2>3, <2>4, <2>5, start \in Nat, stop \in Nat
<1> DEFINE v == u \o w
<1>6. /\ v \in Seq(S) /\ Len(v) = lu + lw
      /\ \A i \in 1..(lu + lw) : v[i] = IF i <= lu THEN u[i] ELSE w[i - lu]
    BY <1>2, <1>3, ConcatProperties
<1> HIDE DEF v
<1>7. ASSUME NEW i \in 1..lr PROVE v[i] = r[i]
    <2>1. i \in Nat /\ i # 0 /\ i <= lr /\ i \in 1..(lu + lw) /\ r[i] = c[start + i]
        BY <1>4, <1>5
    <2>2. start + i \in 1..(pos + lb)
        <3>1. lr <= pos + lb - start
            BY <1>1, <1>4, <2>1
        <3> QED BY <1>1, <2>1, <3>1
    <2>3. c[start + i] = IF start + i <= pos THEN a[start + i] ELSE b[start + i - pos]
        BY <1>1, <2>2
    <2>4. CASE start + i <= pos
        <3>1. i <= lu
            BY <1>1, <1>3, <1>4, <2>1, <2>4
        <3>2. i \in 1..lu
            BY <1>5, <2>1, <3>1
        <3> QED BY <1>3, <1>6, <2>1, <2>3, <2>4, <3>1, <3>2
    <2>5. CASE ~(start + i <= pos)
        <3> DEFINE k == i - lu
        <3>1. ~(i <= lu) /\ k \in 1..lw
            BY <1>1, <1>3, <1>4, <1>5, <2>1, <2>5
        <3>2. from + k = start + i - pos
            <4>1. from = IF start > pos THEN start - pos ELSE 0
                OBVIOUS
            <4>2. lb \in Nat /\ pos \in Nat /\ k = i - lu
                BY <1>1
            <4>3. lu = (IF start <= ea THEN ea - start ELSE 0) /\ ea = (IF stop < pos THEN stop + 1 ELSE pos)
                BY <1>3
            <4>4. /\ lr = (IF start <= ec THEN ec - start ELSE 0)
                  /\ ec = (IF stop < pos + lb THEN stop + 1 ELSE pos + lb)
                BY <1>4
            <4>5. i \in Nat /\ i # 0 /\ i <= lr
                BY <2>1
            <4> HIDE DEF lb, lu, lw, lr, pos, from, k
            <4> QED BY ONLY <2>5, <4>1, <4>2, <4>3, <4>4, <4>5, start \in Nat, stop \in Nat
        <3>3. v[i] = w[k]
            BY <1>6, <2>1, <3>1
        <3> HIDE DEF k, from
        <3>4. w[k] = b[from + k]
            BY <1>2, <3>1
        <3> QED BY <2>1, <2>3, <2>5, <3>2, <3>3, <3>4
    <2> QED BY <2>4, <2>5
<1>8. v = r
    <2>1. Len(v) = Len(r) /\ \A i \in 1..Len(v) : v[i] = r[i]
        BY <1>5, <1>6, <1>7
    <2> QED BY ONLY <1>4, <1>6, <2>1, SeqEqual
<1> QED BY <1>8 DEF v, u, w, r, c
(* The parts of the nodes between two places, together, are what is        *)
(* between them in the list.                                               *)
LEMMA PartsCut ==
    ASSUME NEW S, NEW p \in Seq(Seq(S)), NEW start \in Nat, NEW stop \in Nat
    PROVE  FlattenSeq([i \in DOMAIN p |-> Part(p[i], Pos(p, i), start, stop)])
              = Cut(FlattenSeq(p), start, stop)
<1> DEFINE n == Len(p)
           h == [i \in 1..n |-> Part(p[i], Pos(p, i), start, stop)]
           T == {k \in Nat : k <= n => Upto(h, k) = Cut(Upto(p, k), start, stop)}
<1>1. /\ n \in Nat /\ DOMAIN p = 1..n
      /\ Upto(p, 0) = <<>> /\ Upto(p, n) = FlattenSeq(p)
      /\ \A k \in 0..n : Upto(p, k) \in Seq(S)
      /\ \A k \in 1..n : p[k] \in Seq(S) /\ Upto(p, k) = Upto(p, k - 1) \o p[k]
    BY LenProperties, UptoIs
<1>2. ASSUME NEW i \in 1..n
      PROVE  /\ Part(p[i], Pos(p, i), start, stop) \in Seq(S)
             /\ i - 1 \in 0..n /\ Pos(p, i) = Len(Upto(p, i - 1))
    <2>1. Pos(p, i) = Len(Upto(p, i - 1))
        BY DEF Pos, Upto
    <2>2. i - 1 \in 0..n /\ p[i] \in Seq(S)
        BY <1>1
    <2>3. Upto(p, i - 1) \in Seq(S)
        BY <1>1, <2>2
    <2>4. Pos(p, i) \in Nat
        BY <2>1, <2>3, LenProperties
    <2>5. Part(p[i], Pos(p, i), start, stop) \in Seq(S)
        BY <2>2, <2>4, PartIs
    <2> QED BY <2>1, <2>2, <2>5
<1>3. h \in Seq(Seq(S)) /\ Len(h) = n
    BY <1>1, <1>2
<1>4. \A i \in 1..n : h[i] = Part(p[i], Pos(p, i), start, stop)
    OBVIOUS
<1> HIDE DEF n, h
<1>5. /\ Upto(h, 0) = <<>> /\ Upto(h, n) = FlattenSeq(h)
      /\ \A k \in 1..n : Upto(h, k) = Upto(h, k - 1) \o h[k]
    BY <1>3, UptoIs
<1>6. 0 \in T
    <2>1. <<>> \in Seq(S) /\ Len(<<>>) = 0
        OBVIOUS
    <2>2. CutEnd(<<>>, stop) = 0
        BY <2>1 DEF CutEnd
    <2>3. Cut(<<>>, start, stop) \in Seq(S) /\ Len(Cut(<<>>, start, stop)) = 0
        <3>1. /\ Cut(<<>>, start, stop) \in Seq(S)
              /\ Len(Cut(<<>>, start, stop)) =
                    IF start <= CutEnd(<<>>, stop) THEN CutEnd(<<>>, stop) - start ELSE 0
            BY <2>1, CutIs, ZenonT(30)
        <3> QED BY <2>2, <3>1
    <2>4. Cut(<<>>, start, stop) = <<>>
        BY <2>3
    <2> QED BY <1>1, <1>5, <2>4
<1>7. ASSUME NEW k \in Nat, k \in T PROVE k + 1 \in T
    <2> SUFFICES ASSUME k + 1 <= n PROVE Upto(h, k + 1) = Cut(Upto(p, k + 1), start, stop)
        OBVIOUS
    <2>1. k + 1 \in 1..n /\ (k + 1) - 1 = k /\ k <= n /\ k \in 0..n
        BY <1>1
    <2>2. /\ Upto(h, k + 1) = Upto(h, k) \o h[k + 1]
          /\ Upto(p, k + 1) = Upto(p, k) \o p[k + 1]
          /\ Upto(p, k) \in Seq(S) /\ p[k + 1] \in Seq(S)
        BY <1>1, <1>5, <2>1
    <2>3. h[k + 1] = Part(p[k + 1], Len(Upto(p, k)), start, stop)
        BY <1>2, <1>4, <2>1
    <2>4. Upto(h, k) = Cut(Upto(p, k), start, stop)
        BY <1>7, <2>1
    <2>5. Cut(Upto(p, k), start, stop) \o Part(p[k + 1], Len(Upto(p, k)), start, stop)
             = Cut(Upto(p, k) \o p[k + 1], start, stop)
        <3> DEFINE a == Upto(p, k)
                   b == p[k + 1]
        <3>1. a \in Seq(S) /\ b \in Seq(S) /\ start \in Nat /\ stop \in Nat
            BY <2>2
        <3> HIDE DEF a, b
        <3>2. Cut(a, start, stop) \o Part(b, Len(a), start, stop) = Cut(a \o b, start, stop)
            BY ONLY <3>1, CutOfConcat
        <3> QED BY <3>2 DEF a, b
    <2> QED BY <2>2, <2>3, <2>4, <2>5
<1>8. \A k \in Nat : k \in T
    <2> HIDE DEF T
    <2> QED BY <1>6, <1>7, Reached
<1>9. Upto(h, n) = Cut(Upto(p, n), start, stop)
    BY <1>1, <1>8
<1> QED BY <1>1, <1>5, <1>9 DEF h

(* Where the places that a client names are, in a list of n.               *)
Begins(n, first) == IF LAbs!Place(first, n) < 0 THEN 0 ELSE LAbs!Place(first, n)
Ends(n, final) == IF LAbs!Place(final, n) >= n THEN n - 1 ELSE LAbs!Place(final, n)

(* The abstract module counts as this one does.                            *)
LEMMA ListSameSize == ASSUME NEW S PROVE LAbs!Cardinality(S) = Cardinality(S)
    BY Zenon DEF LAbs!Cardinality, Cardinality

(* The slice of a list is a cut of it, or nothing.                         *)
LEMMA SliceIs ==
    ASSUME NEW l \in Seq(Vals), NEW first \in Int, NEW final \in Int
    PROVE  LAbs!Slice(l, first, final) =
              IF Len(l) = 0 \/ Begins(Len(l), first) > Ends(Len(l), final) THEN <<>>
              ELSE Cut(l, Begins(Len(l), first), Ends(Len(l), final))
<1> DEFINE n == Len(l)
           b == Begins(n, first)
           e == Ends(n, final)
           S == {i \in 0..(n - 1) : LAbs!Place(first, n) <= i /\ i <= LAbs!Place(final, n)}
<1>1. n \in Nat
    BY LenProperties
<1>2. b \in Nat /\ e \in Int /\ e <= n - 1 /\ S = b..e
    <2>1. LAbs!Place(first, n) \in Int /\ LAbs!Place(final, n) \in Int
        BY <1>1 DEF LAbs!Place
    <2> QED BY <1>1, <2>1 DEF Begins, Ends
<1>3. LAbs!Slice(l, first, final) = [j \in 1..Cardinality(S) |-> l[LAbs!Min(S) + j]]
    BY ListSameSize DEF LAbs!Slice
<1> HIDE DEF n, b, e, S
<1>4. Cardinality(S) = IF b > e THEN 0 ELSE e - b + 1
    BY <1>2, FS_Interval
<1>5. CASE n = 0 \/ b > e
    <2>1. b > e
        BY <1>1, <1>2, <1>5
    <2>2. Cardinality(S) = 0
        BY <1>4, <2>1
    <2>3. LAbs!Slice(l, first, final) = [j \in 1..0 |-> l[LAbs!Min(S) + j]]
        BY <1>3, <2>2
    <2>4. LAbs!Slice(l, first, final) = <<>>
        BY <2>3
    <2> QED BY <1>5, <2>4 DEF n, b, e
<1>6. CASE ~(n = 0 \/ b > e)
    <2>1. Cardinality(S) = (e + 1) - b
        BY <1>2, <1>4, <1>6
    <2>2. LAbs!Min(S) = b
        <3>1. b \in S /\ \A y \in S : b <= y
            BY <1>2, <1>6
        <3>2. \A x \in S : (\A y \in S : x <= y) => x = b
            BY <1>2, <3>1
        <3>3. \E x \in S : \A y \in S : x <= y
            BY <3>1
        <3> QED BY <3>2, <3>3 DEF LAbs!Min
    <2>3. CutEnd(l, e) = e + 1
        <3>1. e < Len(l)
            BY <1>1, <1>2 DEF n
        <3> QED BY <3>1 DEF CutEnd
    <2>4. Cut(l, b, e) = [i \in 1..((e + 1) - b) |-> l[b + i]]
        BY <2>3 DEF Cut
    <2> QED BY <1>3, <1>6, <2>1, <2>2, <2>4 DEF n, b, e
<1> QED BY <1>5, <1>6

(* What a list that holds l has at the places from first to final.         *)
LEMMA RangeIs ==
    ASSUME NEW q, NEW l, Holds(q, l), NEW first \in Int, NEW final \in Int
    PROVE  RangeOf(q, first, final) = LAbs!Slice(l, first, final)
<1>1. PICK s, n : ListSound(q, s, n) /\ l = All(q.zl, s, n) /\ q.count = Len(l)
    BY DEF Holds
<1> DEFINE zl == q.zl
           p == [i \in 1..n |-> zl[s[i]]]
           b == Begins(Len(l), first)
           e == Ends(Len(l), final)
<1>2. Strung(q, s, n) /\ n \in Nat /\ s \in [1..n -> Nat] /\ \A i \in 1..n : zl[s[i]] \in Seq(Vals)
    BY <1>1 DEF ListSound, ListValue, Strung
<1>3. l \in Seq(Vals) /\ Len(l) \in Nat /\ q.count = Len(l)
    BY HeldIs, LenProperties
<1>4. Parts(q) = p /\ FlattenSeq(p) = l
    BY <1>1, <1>2, AllElementsAre DEF All
<1>5. p \in Seq(Seq(Vals))
    <2> HIDE DEF zl
    <2> QED BY <1>2, PartsAre
<1> HIDE DEF p, zl
<1>6. \A x \in Int : Normal(q, x) = LAbs!Place(x, Len(l))
    BY <1>3 DEF Normal, LAbs!Place
<1>7. RangeOf(q, first, final) = IF Len(l) = 0 \/ b > e THEN <<>> ELSE Between(q, b, e)
    BY <1>3, <1>6 DEF RangeOf, Begins, Ends
<1>8. b \in Nat /\ e \in Int
    BY <1>3 DEF Begins, Ends, LAbs!Place
<1> HIDE DEF b, e
<1>9. CASE Len(l) = 0 \/ b > e
    BY <1>3, <1>7, <1>9, SliceIs DEF b, e
<1>10. CASE ~(Len(l) = 0 \/ b > e)
    <2>1. e \in Nat
        BY <1>8, <1>10
    <2>2. Between(q, b, e) = FlattenSeq([i \in DOMAIN p |-> Part(p[i], Pos(p, i), b, e)])
        BY <1>4 DEF Between
    <2>3. FlattenSeq([i \in DOMAIN p |-> Part(p[i], Pos(p, i), b, e)]) = Cut(FlattenSeq(p), b, e)
        BY ONLY <1>5, <1>8, <2>1, PartsCut
    <2>4. LAbs!Slice(l, first, final) = Cut(l, b, e)
        BY <1>3, <1>10, SliceIs DEF b, e
    <2> QED BY <1>4, <1>7, <1>10, <2>2, <2>3, <2>4
<1> QED BY <1>9, <1>10

(* What it has at one place.                                               *)
LEMMA IndexIs ==
    ASSUME NEW q, NEW l, Holds(q, l), NEW x \in Int
    PROVE  Index(q, x) = LAbs!Slice(l, x, x)
<1>1. PICK s, n : ListSound(q, s, n) /\ l = All(q.zl, s, n) /\ q.count = Len(l)
    BY DEF Holds
<1> DEFINE zl == q.zl
           p == [i \in 1..n |-> zl[s[i]]]
           i == Normal(q, x)
           In(k) == Pos(p, k) <= i /\ i < Pos(p, k + 1)
           j == CHOOSE k \in DOMAIN p : In(k)
<1>2. Strung(q, s, n) /\ n \in Nat /\ s \in [1..n -> Nat] /\ \A k \in 1..n : zl[s[k]] \in Seq(Vals)
    BY <1>1 DEF ListSound, ListValue, Strung
<1>3. l \in Seq(Vals) /\ Len(l) \in Nat /\ q.count = Len(l)
    BY HeldIs, LenProperties
<1>4. Parts(q) = p /\ FlattenSeq(p) = l
    BY <1>1, <1>2, AllElementsAre DEF All
<1>5. p \in Seq(Seq(Vals)) /\ DOMAIN p = 1..Len(p) /\ Len(p) = n
    <2> HIDE DEF zl
    <2>1. p \in Seq(Seq(Vals)) /\ Len(p) = n
        BY <1>2, PartsAre
    <2> QED BY <2>1
<1> HIDE DEF p, zl
<1>6. i = LAbs!Place(x, Len(l)) /\ i \in Int
    BY <1>3 DEF Normal, LAbs!Place
<1>7. Index(q, x) = IF i < 0 \/ i >= Len(l) THEN <<>> ELSE <<p[j][i - Pos(p, j) + 1]>>
    BY <1>3, <1>4 DEF Index
<1> HIDE DEF i, j
<1>8. CASE i < 0 \/ i >= Len(l)
    <2>1. Begins(Len(l), x) > Ends(Len(l), x)
        BY <1>3, <1>6, <1>8 DEF Begins, Ends
    <2>2. LAbs!Slice(l, x, x) = <<>>
        BY <1>3, <2>1, SliceIs
    <2> QED BY <1>7, <1>8, <2>2
<1>9. CASE ~(i < 0 \/ i >= Len(l))
    <2>1. i \in Nat /\ i < Len(FlattenSeq(p))
        BY <1>3, <1>4, <1>6, <1>9
    <2>2. \A k \in 1..Len(p) : Pos(p, k) = Len(Upto(p, k - 1)) /\ Pos(p, k + 1) = Len(Upto(p, k))
        <3>1. \A k \in 1..Len(p) : (k + 1) - 1 = k
            OBVIOUS
        <3> QED BY <3>1 DEF Pos, Upto
    <2>3. \E k \in 1..Len(p) : Len(Upto(p, k - 1)) <= i /\ i < Len(Upto(p, k))
        BY <1>5, <2>1, PartFound
    <2>4. \E k \in DOMAIN p : In(k)
        BY <1>5, <2>2, <2>3
    <2>5. j \in DOMAIN p /\ In(j)
        <3> HIDE DEF In
        <3> QED BY <2>4 DEF j
    <2>6. j \in 1..Len(p) /\ Len(Upto(p, j - 1)) <= i /\ i < Len(Upto(p, j))
        BY <1>5, <2>2, <2>5
    <2>7. p[j][i - Len(Upto(p, j - 1)) + 1] = FlattenSeq(p)[i + 1]
        BY <1>5, <2>1, <2>6, PartHas
    <2>8. Index(q, x) = <<l[i + 1]>>
        BY <1>4, <1>7, <1>9, <2>2, <2>6, <2>7
    <2>9. Begins(Len(l), x) = i /\ Ends(Len(l), x) = i
        BY <1>3, <1>6, <1>9 DEF Begins, Ends
    <2>10. LAbs!Slice(l, x, x) = Cut(l, i, i)
        BY <1>3, <1>6, <1>9, <2>9, SliceIs
    <2>11. Cut(l, i, i) = <<l[i + 1]>>
        <3>1. CutEnd(l, i) = i + 1
            BY <1>3, <1>6, <1>9 DEF CutEnd
        <3>2. Cut(l, i, i) = [k \in 1..1 |-> l[i + k]]
            <4>1. (i + 1) - i = 1
                BY <1>6
            <4> QED BY <3>1, <4>1 DEF Cut
        <3> QED BY <3>2
    <2> QED BY <2>8, <2>10, <2>11
<1> QED BY <1>8, <1>9

(* From either end of the list, and beyond it, LRANGE and LINDEX answer    *)
(* with what is at the places asked for, whatever nodes it is spread over  *)
(* (quicklist.go:156-237).                                                 *)
THEOREM ListRangesAgree == ListSpec => []RangesAgree
<1>1. ListIInv => RangesAgree
    <2> SUFFICES ASSUME ListIInv PROVE RangesAgree
        OBVIOUS
    <2>1. PICK l : Holds(ql, l)
        BY DEF ListIInv
    <2>2. AllElements(ql) = l
        BY <2>1, HeldIs
    <2>3. Positions \subseteq Int
        BY ListAssumption DEF Positions
    <2>4. ASSUME NEW first \in Positions, NEW final \in Positions
          PROVE  RangeOf(ql, first, final) = LAbs!Slice(l, first, final)
        BY <2>1, <2>3, RangeIs
    <2>5. ASSUME NEW x \in Positions PROVE Index(ql, x) = LAbs!Slice(l, x, x)
        BY <2>1, <2>3, IndexIs
    <2> QED BY <2>2, <2>4, <2>5 DEF RangesAgree
<1> QED BY <1>1, ListAlwaysSound, PTL
-----------------------------------------------------------------------------
(* Sorted sets.  Placed(z, s, n) says that s is an order of the header and *)
(* the n nodes of z, Linked that on every level each of them leads to the  *)
(* next that is high enough, the heights being h, and that the spans are   *)
(* how far that is.  The invariant is that there are such s and h.         *)

Placed(z, s, n) ==
    /\ n \in Nat /\ s \in [0..n -> Nat] /\ s[0] = Header
    /\ \A p, q \in 0..n : s[p] = s[q] => p = q
    /\ Addresses(z) = {s[p] : p \in 0..n} /\ z.length = n

Tall(z, h, n) ==
    /\ h \in [0..n -> Levels] /\ h[0] = SkipListMaxLevel
    /\ z.level \in Levels /\ \A p \in 1..n : h[p] <= z.level
    /\ z.level = 1 \/ \E p \in 1..n : h[p] = z.level

(* The p-th node, nil beyond the ends, and how far the end is at most.     *)
NodeAt(s, n, p) == IF p \in 1..n THEN s[p] ELSE Null
Reach(n, q) == IF q <= n THEN q ELSE n

Leads(z, s, h, n, p, i) ==
    \E q \in (p + 1)..(n + 1) :
        /\ NextUp(h, n, i, p, q) /\ z.forward[s[p]][i] = NodeAt(s, n, q)
        /\ i <= z.level => z.span[s[p]][i] = Reach(n, q) - p

Linked(z, s, h, n) ==
    /\ DOMAIN z.forward = Addresses(z) /\ DOMAIN z.span = Addresses(z)
    /\ \A p \in 0..n :
        /\ z.forward[s[p]] \in [1..h[p] -> Int] /\ z.span[s[p]] \in [1..h[p] -> Nat]
        /\ \A i \in 1..h[p] : Leads(z, s, h, n, p, i)

(* What the points of G are: the nodes up to the k-th.                     *)
Covers(G, s, n, k) ==
    /\ \A q \in 1..n : q <= k <=> <<s[q], q>> \in G
    /\ \A r : <<Null, r>> \notin G

(* One step of a descent stays where it is if that is the last place of    *)
(* the level among the points of G, and else gets on to a later one        *)
(* (skiplist.go:96-101).                                                   *)
LEMMA OnwardIs ==
    ASSUME NEW z, NEW s, NEW h, NEW n, Placed(z, s, n), Tall(z, h, n), Linked(z, s, h, n),
           NEW i \in 1..z.level, NEW k \in 0..n, NEW G, Covers(G, s, n, k),
           NEW p \in 0..k, h[p] >= i
    PROVE  \E q \in 0..k :
              /\ Onward(z, i, G, <<s[p], p>>) = <<s[q], q>> /\ h[q] >= i
              /\ LastUp(h, i, k, q) \/ q > p
<1>1. n \in Nat /\ p \in 0..n /\ h[p] \in Nat /\ i \in 1..h[p] /\ i \in Nat
    BY DEF Placed, Tall, Levels
<1>2. PICK q \in (p + 1)..(n + 1) :
          /\ NextUp(h, n, i, p, q) /\ z.forward[s[p]][i] = NodeAt(s, n, q)
          /\ i <= z.level => z.span[s[p]][i] = Reach(n, q) - p
    BY <1>1 DEF Linked, Leads
<1>3. z.span[s[p]][i] = Reach(n, q) - p
    BY <1>2
<1> DEFINE next == <<z.forward[s[p]][i], p + z.span[s[p]][i]>>
<1>4. Onward(z, i, G, <<s[p], p>>) = IF next \in G THEN next ELSE <<s[p], p>>
    BY DEF Onward
<1>5. CASE q <= k
    <2>1. next = <<s[q], q>>
        <3>1. q \in 1..n /\ Reach(n, q) = q /\ NodeAt(s, n, q) = s[q]
            BY <1>1, <1>5 DEF Reach, NodeAt
        <3>2. p + (q - p) = q
            BY <1>1
        <3> QED BY <1>2, <1>3, <3>1, <3>2
    <2>2. next \in G
        BY <1>1, <1>5, <2>1 DEF Covers
    <2>3. h[q] >= i
        BY <1>1, <1>2, <1>5 DEF NextUp
    <2> QED BY <1>1, <1>4, <1>5, <2>1, <2>2, <2>3
<1>6. CASE q > k
    <2>1. next \notin G
        <3>1. CASE q <= n
            <4>1. next = <<s[q], q>>
                <5>1. q \in 1..n /\ Reach(n, q) = q /\ NodeAt(s, n, q) = s[q]
                    BY <1>1, <3>1 DEF Reach, NodeAt
                <5>2. p + (q - p) = q
                    BY <1>1
                <5> QED BY <1>2, <1>3, <5>1, <5>2
            <4> QED BY <1>1, <1>6, <3>1, <4>1 DEF Covers
        <3>2. CASE q > n
            <4>1. z.forward[s[p]][i] = Null
                BY <1>1, <1>2, <3>2 DEF NodeAt
            <4> QED BY <4>1 DEF Covers
        <3> QED BY <1>1, <3>1, <3>2
    <2>2. LastUp(h, i, k, p)
        BY <1>1, <1>2, <1>6 DEF NextUp, LastUp
    <2> QED BY <1>4, <2>1, <2>2
<1> QED BY <1>1, <1>5, <1>6

(* A walk is a function with the equation that defines it.                 *)
Steps(z, i, from, G, at) ==
    at = [n \in 0..z.length |-> IF n = 0 THEN from ELSE Onward(z, i, G, at[n - 1])]

(* There are as many steps as nodes: a walk is defined by counting up.     *)
LEMMA StepsExist ==
    ASSUME NEW z, z.length \in Nat, NEW i, NEW from, NEW G
    PROVE  \E at : Steps(z, i, from, G, at)
<1> DEFINE Done(n, g) == g = [j \in 0..n |-> IF j = 0 THEN from ELSE Onward(z, i, G, g[j - 1])]
           T == {n \in Nat : \E g : Done(n, g)}
<1>1. 0 \in T
    <2> DEFINE g == [j \in 0..0 |-> from]
    <2>1. Done(0, g)
        OBVIOUS
    <2> QED BY <2>1
<1>2. ASSUME NEW n \in Nat, n \in T PROVE n + 1 \in T
    <2>1. PICK g : Done(n, g)
        BY <1>2
    <2> DEFINE f == [j \in 0..(n + 1) |-> IF j = n + 1 THEN Onward(z, i, G, g[n]) ELSE g[j]]
    <2>2. \A j \in 0..n : g[j] = IF j = 0 THEN from ELSE Onward(z, i, G, g[j - 1])
        BY <2>1
    <2>3. \A j \in 0..(n + 1) : f[j] = IF j = 0 THEN from ELSE Onward(z, i, G, f[j - 1])
        <3> SUFFICES ASSUME NEW j \in 0..(n + 1)
                     PROVE  f[j] = IF j = 0 THEN from ELSE Onward(z, i, G, f[j - 1])
            OBVIOUS
        <3>1. CASE j = n + 1
            <4>1. f[j] = Onward(z, i, G, g[n]) /\ j # 0 /\ j - 1 = n /\ f[j - 1] = g[n]
                BY <3>1
            <4> QED BY <4>1
        <3>2. CASE j \in 1..n
            <4>1. f[j] = g[j] /\ f[j - 1] = g[j - 1] /\ j # 0 /\ j \in 0..n
                BY <3>2
            <4> QED BY <2>2, <4>1
        <3>3. CASE j = 0
            <4>1. f[j] = g[0] /\ 0 \in 0..n
                BY <3>3
            <4> QED BY <2>2, <3>3, <4>1
        <3> QED BY <3>1, <3>2, <3>3
    <2>4. f = [j \in 0..(n + 1) |-> f[j]]
        OBVIOUS
    <2> HIDE DEF f
    <2>5. Done(n + 1, f)
        BY <2>3, <2>4
    <2> QED BY <2>5
<1>3. \A n \in Nat : n \in T
    <2> HIDE DEF T
    <2> QED BY <1>1, <1>2, Reached
<1> QED BY <1>3 DEF Steps

(* A level is followed to the last of the points of G that is high enough, *)
(* and there are enough steps for that (skiplist.go:96-101).               *)
LEMMA AlongIs ==
    ASSUME NEW z, NEW s, NEW h, NEW n, Placed(z, s, n), Tall(z, h, n), Linked(z, s, h, n),
           NEW i \in 1..z.level, NEW k \in 0..n, NEW G, Covers(G, s, n, k),
           NEW p \in 0..k, h[p] >= i
    PROVE  \E q : LastUp(h, i, k, q) /\ Along(z, i, <<s[p], p>>, G) = <<s[q], q>>
<1> DEFINE from == <<s[p], p>>
           at == CHOOSE f : Steps(z, i, from, G, f)
<1>1. n \in Nat /\ z.length = n
    BY DEF Placed
<1>2. Steps(z, i, from, G, at)
    BY <1>1, StepsExist
<1>3. Along(z, i, from, G) = at[n]
    BY <1>1 DEF Along, Steps
<1> HIDE DEF at
<1>4. \A j \in 0..n : at[j] = IF j = 0 THEN from ELSE Onward(z, i, G, at[j - 1])
    BY <1>1, <1>2 DEF Steps
<1> DEFINE Here(j, q) == /\ at[j] = <<s[q], q>> /\ q \in 0..k /\ h[q] >= i
                         /\ LastUp(h, i, k, q) \/ q >= p + j
           K == {j \in Nat : j <= n => \E q : Here(j, q)}
<1>5. 0 \in K
    <2>1. Here(0, p)
        BY <1>1, <1>4
    <2> QED BY <2>1
<1>6. ASSUME NEW j \in Nat, j \in K PROVE j + 1 \in K
    <2> SUFFICES ASSUME j + 1 <= n PROVE \E q : Here(j + 1, q)
        OBVIOUS
    <2>1. PICK q : Here(j, q)
        BY <1>1, <1>6
    <2>2. at[j + 1] = Onward(z, i, G, <<s[q], q>>)
        BY <1>1, <1>4, <2>1
    <2>3. PICK r \in 0..k : /\ Onward(z, i, G, <<s[q], q>>) = <<s[r], r>> /\ h[r] >= i
                            /\ LastUp(h, i, k, r) \/ r > q
        BY <2>1, OnwardIs
    <2>4. CASE LastUp(h, i, k, r)
        BY <2>2, <2>3, <2>4
    <2>5. CASE r > q /\ ~LastUp(h, i, k, q)
        <3>1. r >= p + (j + 1)
            BY <1>1, <2>1, <2>5
        <3> QED BY <2>2, <2>3, <3>1
    <2>6. CASE r > q /\ LastUp(h, i, k, q)
        <3>1. h[r] \in Nat /\ i \in Nat /\ r \in (q + 1)..k
            BY SMTT(30), <1>1, <2>1, <2>6 DEF Tall, Levels
        <3> QED BY <2>3, <2>6, <3>1 DEF LastUp
    <2> QED BY <2>3, <2>4, <2>5, <2>6
<1>7. \A j \in Nat : j \in K
    <2> HIDE DEF K
    <2> QED BY <1>5, <1>6, Reached
<1>8. PICK q : Here(n, q)
    BY <1>1, <1>7
<1>9. LastUp(h, i, k, q)
    <2>1. CASE q >= p + n
        <3>1. q = k
            BY <1>1, <1>8, <2>1
        <3> QED BY <1>1, <1>8, <3>1 DEF LastUp
    <2> QED BY <1>8, <2>1
<1> QED BY <1>3, <1>8, <1>9
-----------------------------------------------------------------------------
(* Sorted sets: descents.                                                  *)

(* A descent is a function with its equation, too, and ends on each level  *)
(* at the last of the places up to the k-th that are high enough.          *)
Falls(z, G, at) ==
    at = [i \in 1..(z.level + 1) |->
            IF i > z.level THEN <<Header, 0>> ELSE Along(z, i, at[i + 1], G)]

(* The descent leaves every level at the last of the points of G that is   *)
(* high enough for it (skiplist.go:88-104).                                *)
LEMMA DescentIs ==
    ASSUME NEW z, NEW s, NEW h, NEW n, Placed(z, s, n), Tall(z, h, n), Linked(z, s, h, n),
           NEW k \in 0..n, NEW G, Covers(G, s, n, k)
    PROVE  \A i \in 1..z.level :
              \E p : LastUp(h, i, k, p) /\ Descent(z, G)[i] = <<s[p], p>>
<1> DEFINE l == z.level
           P(i) == CHOOSE p : LastUp(h, i, k, p)
           f == [i \in 1..(l + 1) |-> IF i > l THEN <<Header, 0>> ELSE <<s[P(i)], P(i)>>]
           at == CHOOSE g : Falls(z, G, g)
<1>1. /\ n \in Nat /\ l \in Nat \ {0} /\ h[0] >= l /\ s[0] = Header /\ k \in Nat
      /\ \A p \in 0..n : h[p] \in Nat
    BY ZSetAssumption DEF Placed, Tall, Levels
<1>2. ASSUME NEW i \in 1..l PROVE LastUp(h, i, k, P(i))
    <2>1. i \in Nat /\ h[0] >= i
        BY <1>1
    <2>2. \E p : LastUp(h, i, k, p)
        BY <1>1, <2>1, LastExists
    <2> QED BY <2>2
<1>3. ASSUME NEW i \in 1..l PROVE f[i] = Along(z, i, f[i + 1], G)
    <2>1. i + 1 \in 1..(l + 1) /\ i \in 1..(l + 1) /\ ~(i > l)
        BY <1>1
    <2>2. f[i] = <<s[P(i)], P(i)>>
        BY <2>1
    <2>3. \E p \in 0..k : h[p] >= i /\ f[i + 1] = <<s[p], p>>
        <3>1. CASE i = l
            <4>1. f[i + 1] = <<s[0], 0>>
                BY <1>1, <2>1, <3>1
            <4>2. 0 \in 0..k /\ h[0] >= i
                BY <1>1, <3>1
            <4> QED BY <4>1, <4>2
        <3>2. CASE i # l
            <4>1. i + 1 \in 1..l /\ ~(i + 1 > l)
                BY <1>1, <3>2
            <4>2. f[i + 1] = <<s[P(i + 1)], P(i + 1)>>
                BY <2>1, <4>1
            <4>3. LastUp(h, i + 1, k, P(i + 1))
                BY <1>2, <4>1
            <4> DEFINE p == P(i + 1)
            <4> HIDE DEF p
            <4>4. LastUp(h, i + 1, k, p) /\ f[i + 1] = <<s[p], p>>
                BY <4>2, <4>3 DEF p
            <4>5. p \in 0..k /\ h[p] >= i + 1 /\ h[p] \in Nat
                BY <1>1, <4>4 DEF LastUp
            <4>6. h[p] >= i
                BY <4>5
            <4> QED BY <4>4, <4>5, <4>6
        <3> QED BY <3>1, <3>2
    <2>4. PICK p \in 0..k : h[p] >= i /\ f[i + 1] = <<s[p], p>>
        BY <2>3
    <2>5. PICK q : LastUp(h, i, k, q) /\ Along(z, i, <<s[p], p>>, G) = <<s[q], q>>
        <3> HIDE DEF l, f
        <3>1. i \in 1..z.level
            BY DEF l
        <3> QED BY <2>4, <3>1, AlongIs
    <2>6. q = P(i)
        <3>1. LastUp(h, i, k, P(i))
            BY <1>2
        <3>2. \A r \in 0..k : h[r] \in Nat
            BY <1>1
        <3> HIDE DEF P
        <3> QED BY <1>1, <2>5, <3>1, <3>2, LastIs
    <2> HIDE DEF f, P
    <2> QED BY <2>2, <2>4, <2>5, <2>6
<1>4. Falls(z, G, f)
    <2>1. ASSUME NEW i \in 1..(l + 1)
          PROVE  f[i] = IF i > z.level THEN <<Header, 0>> ELSE Along(z, i, f[i + 1], G)
        <3>1. CASE i > l
            BY <3>1
        <3>2. CASE ~(i > l)
            <4>1. i \in 1..l
                BY <1>1, <3>2
            <4> HIDE DEF f
            <4> QED BY <1>3, <3>2, <4>1
        <3> QED BY <3>1, <3>2
    <2>2. f = [i \in 1..(l + 1) |-> f[i]]
        OBVIOUS
    <2> HIDE DEF f
    <2> QED BY <2>1, <2>2 DEF Falls
<1>5. Falls(z, G, at)
    BY <1>4
<1>6. Descent(z, G) = at
    BY DEF Descent, Falls
<1> HIDE DEF at, f, P
<1>7. \A i \in 1..(l + 1) :
        at[i] = IF i > l THEN <<Header, 0>> ELSE Along(z, i, at[i + 1], G)
    BY <1>5 DEF Falls
<1> DEFINE Here(i) == \E p : LastUp(h, i, k, p) /\ at[i] = <<s[p], p>>
           From(i) == \E p \in 0..k : h[p] >= i /\ at[i + 1] = <<s[p], p>>
           K == {j \in Nat : j < l => From(l - j)}
<1>8. ASSUME NEW i \in 1..l, From(i) PROVE Here(i)
    <2>1. PICK p \in 0..k : h[p] >= i /\ at[i + 1] = <<s[p], p>>
        BY <1>8
    <2>2. at[i] = Along(z, i, <<s[p], p>>, G)
        BY <1>1, <1>7, <2>1
    <2>3. i \in 1..z.level
        OBVIOUS
    <2> HIDE DEF l
    <2> QED BY <2>1, <2>2, <2>3, AlongIs
<1>9. 0 \in K
    <2>1. at[l + 1] = <<s[0], 0>>
        BY <1>1, <1>7
    <2>2. From(l - 0)
        BY <1>1, <2>1
    <2> QED BY <2>2
<1>10. ASSUME NEW j \in Nat, j \in K PROVE j + 1 \in K
    <2> SUFFICES ASSUME j + 1 < l PROVE From(l - (j + 1))
        OBVIOUS
    <2>1. l - j \in 1..l /\ l - (j + 1) + 1 = l - j
        BY <1>1
    <2>5. From(l - j)
        <3>1. j < l
            BY <1>1
        <3> QED BY <1>10, <3>1
    <2>6. Here(l - j)
        BY <1>8, <2>1, <2>5
    <2>2. PICK p : LastUp(h, l - j, k, p) /\ at[l - j] = <<s[p], p>>
        BY <2>6
    <2>3. p \in 0..k /\ h[p] >= l - j /\ h[p] \in Nat
        BY <1>1, <2>2 DEF LastUp
    <2>4. h[p] >= l - (j + 1)
        BY <1>1, <2>3
    <2> QED BY <2>1, <2>2, <2>3, <2>4
<1>11. \A j \in Nat : j \in K
    <2> HIDE DEF K
    <2> QED BY <1>9, <1>10, Reached
<1>12. ASSUME NEW i \in 1..l PROVE Here(i)
    <2>1. l - i \in Nat /\ l - i < l /\ l - (l - i) = i
        BY <1>1
    <2>2. From(i)
        BY <1>11, <2>1
    <2> QED BY <1>8, <2>2
<1> QED BY <1>6, <1>12
-----------------------------------------------------------------------------
(* Sorted sets: what a descent looks for.                                  *)

(* The nodes are in the order of scores and members.                       *)
Ordered(z, s, n) ==
    /\ DOMAIN z.score = Addresses(z) /\ z.member[Header] = 0 /\ z.score[Header] = 0
    /\ \A p \in 1..n : z.member[s[p]] \in ZMembers /\ z.score[s[p]] \in Scores
    /\ \A p, q \in 1..n : p < q => Less(z, s[p], z.score[s[q]], z.member[s[q]])

(* On each level, b has the last of the places up to the k-th.             *)
Foremost(b, s, h, k) ==
    \A i \in Levels : \E p : LastUp(h, i, k, p) /\ b[i] = <<s[p], p>>

(* The nodes are the places but the header's.                              *)
LEMMA NodesAre ==
    ASSUME NEW z, NEW s, NEW n, Placed(z, s, n)
    PROVE  /\ NodesOf(z) = {s[p] : p \in 1..n} /\ NodesOf(z) \subseteq Nat
           /\ \A p \in 0..n : s[p] \in Addresses(z) /\ (s[p] = Header <=> p = 0)
<1>1. /\ n \in Nat /\ s \in [0..n -> Nat] /\ s[0] = Header
      /\ \A p, q \in 0..n : s[p] = s[q] => p = q
      /\ Addresses(z) = {s[p] : p \in 0..n}
    BY DEF Placed
<1>2. \A p \in 0..n : s[p] \in Addresses(z) /\ (s[p] = Header <=> p = 0)
    <2>1. 0 \in 0..n
        BY <1>1
    <2> QED BY <1>1, <2>1
<1>3. \A p : p \in 1..n <=> p \in 0..n /\ p # 0
    BY <1>1
<1>4. NodesOf(z) = {s[p] : p \in 1..n}
    BY <1>1, <1>2, <1>3 DEF NodesOf
<1> QED BY <1>1, <1>2, <1>3, <1>4

(* Searches of the nodes that are in P find how many these are.            *)
LEMMA SearchFor ==
    ASSUME NEW z, NEW s, NEW n, Placed(z, s, n), NEW P,
           NEW k \in 0..n, \A q \in 1..n : q <= k <=> s[q] \in P
    PROVE  Covers((NodesOf(z) \cap P) \X Nat, s, n, k)
<1>1. NodesOf(z) = {s[p] : p \in 1..n} /\ NodesOf(z) \subseteq Nat
    BY NodesAre
<1>2. n \in Nat /\ Null \notin Nat
    BY DEF Placed, Null
<1>3. \A q \in 1..n : q \in Nat /\ s[q] \in NodesOf(z)
    BY <1>1, <1>2
<1>4. \A q \in 1..n : q <= k <=> <<s[q], q>> \in (NodesOf(z) \cap P) \X Nat
    BY <1>3
<1>5. \A r : <<Null, r>> \notin (NodesOf(z) \cap P) \X Nat
    BY <1>1, <1>2
<1> QED BY <1>4, <1>5 DEF Covers

(* On numbers, Go's comparisons are those of the integers.                 *)
LEMMA NumbersCompare ==
    ASSUME NEW a \in Scores, NEW b \in Scores
    PROVE  (Lower(a, b) <=> a < b) /\ (Same(a, b) <=> a = b) /\ a # NaN
<1>1. a # NaN /\ b # NaN
    BY ZSetAssumption
<1> QED BY <1>1 DEF Lower, Same

(* So the nodes are in the order of integers.                              *)
LEMMA OrderMeans ==
    ASSUME NEW z, NEW s, NEW n, Ordered(z, s, n)
    PROVE  /\ \A q \in 1..n : \A sc \in Scores : \A m :
                 Less(z, s[q], sc, m) <=>
                     \/ z.score[s[q]] < sc
                     \/ z.score[s[q]] = sc /\ z.member[s[q]] < m
           /\ \A p, q \in 1..n : p < q =>
                 \/ z.score[s[p]] < z.score[s[q]]
                 \/ z.score[s[p]] = z.score[s[q]] /\ z.member[s[p]] < z.member[s[q]]
<1>1. ASSUME NEW q \in 1..n, NEW sc \in Scores, NEW m
      PROVE  Less(z, s[q], sc, m) <=>
                 \/ z.score[s[q]] < sc
                 \/ z.score[s[q]] = sc /\ z.member[s[q]] < m
    <2>1. z.score[s[q]] \in Scores
        BY DEF Ordered
    <2>2. (Lower(z.score[s[q]], sc) <=> z.score[s[q]] < sc) /\ (Same(z.score[s[q]], sc) <=> z.score[s[q]] = sc)
        BY <2>1, NumbersCompare
    <2> QED BY <2>2 DEF Less
<1>2. ASSUME NEW p \in 1..n, NEW q \in 1..n, p < q
      PROVE  \/ z.score[s[p]] < z.score[s[q]]
             \/ z.score[s[p]] = z.score[s[q]] /\ z.member[s[p]] < z.member[s[q]]
    <2>1. z.score[s[q]] \in Scores /\ Less(z, s[p], z.score[s[q]], z.member[s[q]])
        BY <1>2 DEF Ordered
    <2> QED BY <1>1, <2>1
<1> QED BY <1>1, <1>2

(* What is less than something less is less.                               *)
LEMMA LessIs ==
    ASSUME NEW z, NEW s, NEW n, Ordered(z, s, n), NEW sc \in Scores, NEW m \in ZMembers
    PROVE  \A p, q \in 1..n : p < q /\ Less(z, s[q], sc, m) => Less(z, s[p], sc, m)
<1>1. Scores \subseteq Int /\ ZMembers \subseteq Int
    BY ZSetAssumption
<1>2. ASSUME NEW p \in 1..n, NEW q \in 1..n, p < q, Less(z, s[q], sc, m)
      PROVE  Less(z, s[p], sc, m)
    <2>1. /\ z.member[s[p]] \in Int /\ z.score[s[p]] \in Int /\ sc \in Int /\ m \in Int
          /\ z.member[s[q]] \in Int /\ z.score[s[q]] \in Int
        BY <1>1 DEF Ordered
    <2>2. \/ z.score[s[p]] < z.score[s[q]]
          \/ z.score[s[p]] = z.score[s[q]] /\ z.member[s[p]] < z.member[s[q]]
        BY <1>2, OrderMeans
    <2>3. /\ Less(z, s[p], sc, m) <=> z.score[s[p]] < sc \/ (z.score[s[p]] = sc /\ z.member[s[p]] < m)
          /\ Less(z, s[q], sc, m) <=> z.score[s[q]] < sc \/ (z.score[s[q]] = sc /\ z.member[s[q]] < m)
        BY OrderMeans
    <2> QED BY <1>2, <2>1, <2>2, <2>3
<1> QED BY <1>2

(* The points that come before a score and a member are the first k nodes, *)
(* for some k, so the descent leaves every level in front of where the two *)
(* belong (skiplist.go:88-104, 183-190).                                   *)
LEMMA BeforeIs ==
    ASSUME NEW z, NEW s, NEW h, NEW n, Placed(z, s, n), Tall(z, h, n), Linked(z, s, h, n),
           Ordered(z, s, n), NEW sc \in Scores, NEW m \in ZMembers
    PROVE  \E k \in 0..n : /\ \A q \in 1..n : q <= k <=> Less(z, s[q], sc, m)
                           /\ Foremost(Before(z, sc, m), s, h, k)
<1> DEFINE P == {y \in NodesOf(z) : Less(z, y, sc, m)}
           S == {q \in 1..n : Less(z, s[q], sc, m)}
           G == P \X Nat
           b == Before(z, sc, m)
<1>1. n \in Nat /\ s[0] = Header /\ z.level \in Levels /\ h[0] = SkipListMaxLevel
    BY DEF Placed, Tall
<1>2. \E k \in 0..n : \A q \in 1..n : q <= k <=> q \in S
    <2>1. \A p, q \in 1..n : p < q /\ q \in S => p \in S
        BY LessIs
    <2> HIDE DEF S
    <2> QED BY <1>1, <2>1, EdgeExists
<1>3. PICK k \in 0..n : \A q \in 1..n : q <= k <=> Less(z, s[q], sc, m)
    BY <1>2
<1>4. Covers(G, s, n, k)
    <2>1. \A q \in 1..n : s[q] \in NodesOf(z)
        BY NodesAre
    <2>2. \A q \in 1..n : q <= k <=> s[q] \in P
        BY <1>3, <2>1
    <2>3. NodesOf(z) \cap P = P
        OBVIOUS
    <2> HIDE DEF P
    <2>4. Covers((NodesOf(z) \cap P) \X Nat, s, n, k)
        BY <2>2, SearchFor
    <2> QED BY <2>3, <2>4
<1>5. \A i \in 1..z.level : \E p : LastUp(h, i, k, p) /\ Descent(z, G)[i] = <<s[p], p>>
    <2> HIDE DEF G
    <2> QED BY <1>4, DescentIs
<1>6. \A i \in Levels : b[i] = IF i <= z.level THEN Descent(z, G)[i] ELSE <<Header, 0>>
    BY DEF Before
<1> HIDE DEF b, G
<1>7. ASSUME NEW i \in Levels PROVE \E p : LastUp(h, i, k, p) /\ b[i] = <<s[p], p>>
    <2>1. CASE i <= z.level
        <3>1. i \in 1..z.level
            BY <1>1, <2>1 DEF Levels
        <3> QED BY <1>5, <1>6, <2>1, <3>1
    <2>2. CASE ~(i <= z.level)
        <3>1. b[i] = <<s[0], 0>>
            BY <1>1, <1>6, <2>2
        <3>2. 0 \in 0..k /\ h[0] >= i
            BY <1>1 DEF Levels
        <3>3. ASSUME NEW r \in (0 + 1)..k PROVE h[r] < i
            <4>1. r \in 1..n
                BY <1>1
            <4>2. h[r] \in Levels /\ h[r] <= z.level
                BY <1>1, <4>1 DEF Tall
            <4> QED BY <1>1, <2>2, <4>2, ZSetAssumption DEF Levels
        <3>4. LastUp(h, i, k, 0)
            BY <3>2, <3>3 DEF LastUp
        <3> QED BY <3>1, <3>4
    <2> QED BY <2>1, <2>2
<1> QED BY <1>3, <1>7 DEF Foremost, b

(* On the lowest level every place is high enough.                         *)
LEMMA ForemostIs ==
    ASSUME NEW b, NEW s, NEW h, NEW n \in Nat, NEW k \in 0..n, Foremost(b, s, h, k),
           \A p \in 0..n : h[p] \in Levels
    PROVE  b[1] = <<s[k], k>>
<1>1. 1 \in Levels
    BY ZSetAssumption DEF Levels
<1>2. PICK p : LastUp(h, 1, k, p) /\ b[1] = <<s[p], p>>
    BY <1>1 DEF Foremost
<1>3. p = k
    <2>1. p \in 0..k /\ \A r \in (p + 1)..k : h[r] < 1
        BY <1>2 DEF LastUp
    <2>2. ~(p < k)
        <3>1. p < k => k \in (p + 1)..k /\ k \in 0..n
            BY <2>1
        <3>2. h[k] \in Levels
            OBVIOUS
        <3> QED BY <2>1, <3>1, <3>2 DEF Levels
    <2> QED BY <2>1, <2>2
<1> QED BY <1>2, <1>3
-----------------------------------------------------------------------------
(* Sorted sets: insert.                                                    *)

(* What a place leads to, and the last place up to the k-th.               *)
LEMMA LeadsIs ==
    ASSUME NEW z, NEW s, NEW h, NEW n, Placed(z, s, n), Tall(z, h, n), Linked(z, s, h, n),
           NEW k \in 0..n, NEW b, Foremost(b, s, h, k), NEW p \in 0..n, NEW i \in 1..h[p]
    PROVE  \E c \in 0..k : \E q \in (p + 1)..(n + 1) :
              /\ LastUp(h, i, k, c) /\ b[i] = <<s[c], c>> /\ h[c] >= i
              /\ NextUp(h, n, i, p, q) /\ z.forward[s[p]][i] = NodeAt(s, n, q)
              /\ i <= z.level => z.span[s[p]][i] = Reach(n, q) - p
              /\ b[i][1] = s[p] <=> p = c
              /\ p = c => q > k
              /\ p <= k /\ p # c => p < c /\ q <= c
<1>1. n \in Nat /\ \A r \in 0..n : h[r] \in Levels
    BY DEF Placed, Tall
<1>2. i \in Levels /\ \A r \in 0..n : h[r] \in Nat
    BY <1>1, ZSetAssumption DEF Levels
<1>3. PICK c : LastUp(h, i, k, c) /\ b[i] = <<s[c], c>>
    BY <1>2 DEF Foremost
<1>4. c \in 0..k /\ h[c] >= i /\ (\A r \in (c + 1)..k : h[r] < i) /\ c \in 0..n
    BY <1>1, <1>3 DEF LastUp
<1>5. PICK q \in (p + 1)..(n + 1) :
          /\ NextUp(h, n, i, p, q) /\ z.forward[s[p]][i] = NodeAt(s, n, q)
          /\ i <= z.level => z.span[s[p]][i] = Reach(n, q) - p
    BY DEF Linked, Leads
<1>6. (q <= n => h[q] >= i) /\ \A r \in (p + 1)..(q - 1) : h[r] < i
    BY <1>5 DEF NextUp
<1>7. b[i][1] = s[p] <=> p = c
    <2>1. s[c] = s[p] <=> p = c
        BY <1>4 DEF Placed
    <2> QED BY <1>3, <2>1
<1>8. p = c => q > k
    <2> SUFFICES ASSUME p = c, q <= k PROVE FALSE
        BY <1>1
    <2>1. q \in (c + 1)..k /\ q <= n /\ h[q] \in Nat /\ i \in Nat
        BY <1>1, <1>2
    <2> QED BY <1>4, <1>6, <2>1
<1>9. p <= k /\ p # c => p < c /\ q <= c
    <2> SUFFICES ASSUME p <= k, p # c PROVE p < c /\ q <= c
        OBVIOUS
    <2>1. h[p] \in Nat /\ i \in Nat /\ h[p] >= i
        BY <1>2
    <2>2. ~(c < p)
        BY <1>4, <2>1
    <2>3. p < c
        BY <1>4, <2>2
    <2>4. ~(q > c)
        <3>1. q > c => c \in (p + 1)..(q - 1)
            BY <1>4, <2>3
        <3>2. h[c] \in Nat
            BY <1>2, <1>4
        <3> QED BY <1>4, <1>6, <2>1, <3>1, <3>2
    <2> QED BY <1>4, <2>3, <2>4
<1> QED BY <1>3, <1>4, <1>5, <1>7, <1>8, <1>9

(* Insert's links and spans: those of an old node.                         *)
LEMMA OldLinksPut ==
    ASSUME NEW z, NEW s, NEW h, NEW n, Placed(z, s, n), Tall(z, h, n), Linked(z, s, h, n),
           NEW k \in 0..n, NEW b, Foremost(b, s, h, k), NEW level \in Levels,
           NEW x \in Nat, x \notin Addresses(z), NEW w,
           w.forward = LinksWith(z, b, x, level), w.span = SpansWith(z, b, x, level),
           w.level = IF level > z.level THEN level ELSE z.level,
           NEW p \in 0..n
    PROVE  /\ w.forward[s[p]] \in [1..h[p] -> Int] /\ w.span[s[p]] \in [1..h[p] -> Nat]
           /\ \A i \in 1..h[p] : Leads(w, Put(s, n, k, x), Put(h, n, k, level), n + 1,
                                       IF p <= k THEN p ELSE p + 1, i)
<1> DEFINE a == s[p]
           g == Put(s, n, k, x)
           t == Put(h, n, k, level)
           o == IF p <= k THEN p ELSE p + 1
<1>1. /\ n \in Nat /\ z.level \in Nat /\ level \in Nat /\ k \in Nat /\ p \in Nat
      /\ \A r \in 0..n : h[r] \in Levels /\ h[r] \in Nat
      /\ \A r \in 1..n : h[r] <= z.level
    <2>1. n \in Nat /\ z.level \in Levels /\ h \in [0..n -> Levels] /\ \A r \in 1..n : h[r] <= z.level
        BY DEF Placed, Tall
    <2>2. Levels \subseteq Nat
        BY DEF Levels
    <2>3. \A r \in 0..n : h[r] \in Levels /\ h[r] \in Nat
        BY <2>1, <2>2
    <2>4. z.level \in Nat /\ level \in Nat
        BY <2>1, <2>2
    <2>5. k \in Nat /\ p \in Nat
        BY <2>1
    <2> QED BY <2>1, <2>3, <2>4, <2>5
<1>2. a \in Addresses(z) /\ a # x /\ \A r \in 1..n : s[r] \in Nat
    BY NodesAre DEF Placed
<1>3. /\ z.forward[a] \in [1..h[p] -> Int] /\ z.span[a] \in [1..h[p] -> Nat]
      /\ DOMAIN z.forward[a] = 1..h[p] /\ DOMAIN z.span[a] = 1..h[p]
    BY DEF Linked
<1>4. b[1] = <<s[k], k>>
    BY <1>1, ForemostIs
<1>5. w.forward[a] = [i \in 1..h[p] |-> IF i <= level /\ b[i][1] = a THEN x ELSE z.forward[a][i]]
    <2>1. LinksWith(z, b, x, level)[a] =
              [i \in DOMAIN z.forward[a] |->
                  IF i <= level /\ b[i][1] = a THEN x ELSE z.forward[a][i]]
        BY <1>2 DEF LinksWith, Extended
    <2> QED BY <1>3, <2>1
<1>6. w.span[a] = [i \in 1..h[p] |->
                      IF b[i][1] # a THEN z.span[a][i]
                      ELSE IF i <= level THEN Gap(b, i) + 1
                      ELSE IF i <= z.level THEN z.span[a][i] + 1 ELSE z.span[a][i]]
    <2>1. SpansWith(z, b, x, level)[a] =
              [i \in DOMAIN z.span[a] |->
                  IF b[i][1] # a THEN z.span[a][i]
                  ELSE IF i <= level THEN Gap(b, i) + 1
                  ELSE IF i <= z.level THEN z.span[a][i] + 1 ELSE z.span[a][i]]
        BY <1>2 DEF SpansWith, Extended
    <2> QED BY <1>3, <2>1
<1>7. /\ \A r \in 0..k : g[r] = s[r]
      /\ g[k + 1] = x
      /\ \A r \in (k + 1)..n : g[r + 1] = s[r]
      /\ g[o] = a /\ o \in 0..(n + 1)
    BY <1>1, PutIs
<1>8. ASSUME NEW i \in 1..h[p]
      PROVE  w.forward[a][i] \in Int /\ w.span[a][i] \in Nat /\ Leads(w, g, t, n + 1, o, i)
    <2>1. PICK c \in 0..k, q \in (p + 1)..(n + 1) :
              /\ LastUp(h, i, k, c) /\ b[i] = <<s[c], c>> /\ h[c] >= i
              /\ NextUp(h, n, i, p, q) /\ z.forward[a][i] = NodeAt(s, n, q)
              /\ i <= z.level => z.span[a][i] = Reach(n, q) - p
              /\ b[i][1] = a <=> p = c
              /\ p = c => q > k
              /\ p <= k /\ p # c => p < c /\ q <= c
        BY LeadsIs
    <2>2. z.forward[a][i] \in Int /\ z.span[a][i] \in Nat /\ i \in Nat
        BY SMTT(30), <1>1, <1>3
    <2>3. /\ w.forward[a][i] = IF i <= level /\ p = c THEN x ELSE z.forward[a][i]
          /\ w.span[a][i] = IF p # c THEN z.span[a][i]
                            ELSE IF i <= level THEN Gap(b, i) + 1
                            ELSE IF i <= z.level THEN z.span[a][i] + 1 ELSE z.span[a][i]
        BY <1>5, <1>6, <2>1
    <2>4. Gap(b, i) = k - c /\ k - c \in Nat
        BY <1>1, <1>4, <2>1 DEF Gap
    <2>5. w.forward[a][i] \in Int /\ w.span[a][i] \in Nat
        BY <2>2, <2>3, <2>4
    <2>6. /\ q <= k => NextUp(t, n + 1, i, p, q)
          /\ p <= k /\ q > k /\ level < i => NextUp(t, n + 1, i, p, q + 1)
          /\ p <= k /\ q > k /\ level >= i => NextUp(t, n + 1, i, p, k + 1)
          /\ p <= k /\ q > k => NextUp(t, n + 1, i, k + 1, q + 1)
          /\ p > k => NextUp(t, n + 1, i, p + 1, q + 1)
        <3>1. \A r \in 0..n : h[r] \in Nat
            BY <1>1
        <3> QED BY <1>1, <2>1, <2>2, <3>1, NextPut
    <2>7. /\ q > k => NodeAt(g, n + 1, q + 1) = NodeAt(s, n, q) /\ Reach(n + 1, q + 1) = Reach(n, q) + 1
          /\ q <= k => NodeAt(g, n + 1, q) = NodeAt(s, n, q) /\ Reach(n + 1, q) = q /\ Reach(n, q) = q
          /\ NodeAt(g, n + 1, k + 1) = x /\ Reach(n + 1, k + 1) = k + 1
          /\ Reach(n, q) \in Nat
        <3> HIDE DEF g
        <3>1. q > k => NodeAt(g, n + 1, q + 1) = NodeAt(s, n, q) /\ Reach(n + 1, q + 1) = Reach(n, q) + 1
            BY <1>1, <1>7 DEF NodeAt, Reach
        <3>2. q <= k => NodeAt(g, n + 1, q) = NodeAt(s, n, q) /\ Reach(n + 1, q) = q /\ Reach(n, q) = q
            BY <1>1, <1>7 DEF NodeAt, Reach
        <3>3. NodeAt(g, n + 1, k + 1) = x /\ Reach(n + 1, k + 1) = k + 1
            BY <1>1, <1>7 DEF NodeAt, Reach
        <3> QED BY <1>1, <3>1, <3>2, <3>3 DEF Reach
    <2>8. i <= w.level /\ i > level => i <= z.level
        BY <1>1
    <2>9. p # 0 \/ (p # c /\ p <= k) => i <= z.level
        <3>1. p # 0 => p \in 1..n
            BY <1>1
        <3>2. p # c /\ p <= k => c \in 1..n /\ h[c] \in Nat
            BY <1>1, <2>1
        <3> QED BY <1>1, <2>1, <2>2, <3>1, <3>2
    <2> HIDE DEF g, t
    <2>10. CASE p = c /\ i <= level
        <3>1. NextUp(t, n + 1, i, p, k + 1) /\ w.forward[a][i] = NodeAt(g, n + 1, k + 1)
            BY <1>1, <2>1, <2>2, <2>3, <2>6, <2>7, <2>10
        <3>2. w.span[a][i] = Reach(n + 1, k + 1) - p
            BY <1>1, <2>3, <2>4, <2>7, <2>10
        <3>3. o = p /\ k + 1 \in (p + 1)..((n + 1) + 1) /\ g[p] = a
            BY <1>1, <1>7, <2>1, <2>10
        <3> QED BY <2>5, <3>1, <3>2, <3>3 DEF Leads
    <2>11. CASE p = c /\ i > level
        <3>1. NextUp(t, n + 1, i, p, q + 1) /\ w.forward[a][i] = NodeAt(g, n + 1, q + 1)
            BY <1>1, <2>1, <2>2, <2>3, <2>6, <2>7, <2>11
        <3>2. i <= w.level => w.span[a][i] = Reach(n + 1, q + 1) - p
            <4>1. i <= w.level => w.span[a][i] = (Reach(n, q) - p) + 1
                BY <1>1, <2>1, <2>2, <2>3, <2>8, <2>11
            <4> QED BY <1>1, <2>1, <2>7, <2>11, <4>1
        <3>3. o = p /\ q + 1 \in (p + 1)..((n + 1) + 1) /\ g[p] = a
            BY <1>1, <1>7, <2>1, <2>11
        <3> QED BY <2>5, <3>1, <3>2, <3>3 DEF Leads
    <2>12. CASE p # c /\ p <= k
        <3>1. NextUp(t, n + 1, i, p, q) /\ w.forward[a][i] = NodeAt(g, n + 1, q)
            BY <1>1, <2>1, <2>3, <2>6, <2>7, <2>12
        <3>2. w.span[a][i] = Reach(n + 1, q) - p
            BY <1>1, <2>1, <2>3, <2>7, <2>9, <2>12
        <3>3. o = p /\ q \in (p + 1)..((n + 1) + 1) /\ g[p] = a
            BY <1>1, <1>7, <2>1, <2>12
        <3> QED BY <2>5, <3>1, <3>2, <3>3 DEF Leads
    <2>13. CASE p > k
        <3>1. NextUp(t, n + 1, i, p + 1, q + 1) /\ w.forward[a][i] = NodeAt(g, n + 1, q + 1)
            BY <1>1, <2>1, <2>3, <2>6, <2>7, <2>13
        <3>2. w.span[a][i] = Reach(n + 1, q + 1) - (p + 1)
            BY <1>1, <2>1, <2>3, <2>7, <2>9, <2>13
        <3>3. o = p + 1 /\ q + 1 \in ((p + 1) + 1)..((n + 1) + 1) /\ g[p + 1] = a
            BY <1>1, <1>7, <2>1, <2>13
        <3> QED BY <2>5, <3>1, <3>2, <3>3 DEF Leads
    <2> QED BY <1>1, <2>1, <2>2, <2>10, <2>11, <2>12, <2>13
<1>9. w.forward[a] \in [1..h[p] -> Int]
    <2>1. \A i \in 1..h[p] : w.forward[a][i] \in Int
        BY <1>8
    <2> QED BY <1>5, <2>1
<1>10. w.span[a] \in [1..h[p] -> Nat]
    <2>1. \A i \in 1..h[p] : w.span[a][i] \in Nat
        BY <1>8
    <2> QED BY <1>6, <2>1
<1> QED BY <1>8, <1>9, <1>10

(* And those of the new one.                                               *)
LEMMA NewLinksPut ==
    ASSUME NEW z, NEW s, NEW h, NEW n, Placed(z, s, n), Tall(z, h, n), Linked(z, s, h, n),
           NEW k \in 0..n, NEW b, Foremost(b, s, h, k), NEW level \in Levels,
           NEW x \in Nat, x \notin Addresses(z), NEW w,
           w.forward = LinksWith(z, b, x, level), w.span = SpansWith(z, b, x, level)
    PROVE  /\ w.forward[x] \in [1..level -> Int] /\ w.span[x] \in [1..level -> Nat]
           /\ \A i \in 1..level : Leads(w, Put(s, n, k, x), Put(h, n, k, level), n + 1, k + 1, i)
<1> DEFINE g == Put(s, n, k, x)
           t == Put(h, n, k, level)
<1>1. n \in Nat /\ z.length = n /\ z.level \in Nat /\ level \in Nat /\ k \in Nat
    <2>1. n \in Nat /\ z.length = n /\ z.level \in Levels
        BY DEF Placed, Tall
    <2>2. Levels \subseteq Nat
        BY DEF Levels
    <2>3. z.level \in Nat /\ level \in Nat
        BY <2>1, <2>2
    <2> QED BY <2>1, <2>3
<1>2. \A r \in 0..n : h[r] \in Levels /\ h[r] \in Nat
    BY DEF Tall, Levels
<1>3. b[1] = <<s[k], k>>
    BY <1>1, <1>2, ForemostIs
<1>4. w.forward[x] = [i \in 1..level |-> z.forward[b[i][1]][i]]
    BY DEF LinksWith, Extended
<1>5. w.span[x] = [i \in 1..level |-> Over(z, b, i) - Gap(b, i)]
    BY DEF SpansWith, Extended
<1>6. /\ \A r \in 0..k : g[r] = s[r]
      /\ g[k + 1] = x
      /\ \A r \in (k + 1)..n : g[r + 1] = s[r]
      /\ \A r \in (k + 2)..(n + 1) : g[r] = s[r - 1]
    BY <1>1, PutIs
<1>7. ASSUME NEW i \in 1..level
      PROVE  w.forward[x][i] \in Int /\ w.span[x][i] \in Nat /\ Leads(w, g, t, n + 1, k + 1, i)
    <2>1. i \in Levels /\ i \in Nat
        BY <1>1, ZSetAssumption DEF Levels
    <2>2. PICK c : LastUp(h, i, k, c) /\ b[i] = <<s[c], c>>
        BY <2>1 DEF Foremost
    <2>3. c \in 0..n /\ c \in 0..k /\ h[c] >= i /\ i \in 1..h[c]
        BY <1>1, <1>2, <2>1, <2>2 DEF LastUp
    <2>4. PICK q \in (c + 1)..(n + 1) :
              /\ NextUp(h, n, i, c, q) /\ z.forward[s[c]][i] = NodeAt(s, n, q)
              /\ i <= z.level => z.span[s[c]][i] = Reach(n, q) - c
              /\ q > k
        <3>1. PICK d \in 0..k, q \in (c + 1)..(n + 1) :
                  /\ b[i] = <<s[d], d>>
                  /\ NextUp(h, n, i, c, q) /\ z.forward[s[c]][i] = NodeAt(s, n, q)
                  /\ i <= z.level => z.span[s[c]][i] = Reach(n, q) - c
                  /\ c = d => q > k
            BY <2>3, LeadsIs
        <3>2. c = d
            BY <2>2, <3>1
        <3> QED BY <3>1, <3>2
    <2>5. Over(z, b, i) = Reach(n, q) - c
        <3>1. CASE i <= z.level
            BY <2>2, <2>4, <3>1 DEF Over
        <3>2. CASE ~(i <= z.level)
            <4>1. \A r \in 1..n : ~(h[r] >= i)
                BY <1>1, <1>2, <2>1, <3>2 DEF Tall
            <4>2. c = 0
                BY <2>3, <4>1
            <4>3. q = n + 1
                <5>1. q \in 1..(n + 1) /\ (q <= n => h[q] >= i)
                    BY <2>4, <4>2 DEF NextUp
                <5> QED BY <1>1, <4>1, <5>1
            <4> QED BY <1>1, <3>2, <4>2, <4>3 DEF Over, Reach
        <3> QED BY <3>1, <3>2
    <2>6. Gap(b, i) = k - c
        BY <1>3, <2>2 DEF Gap
    <2>7. w.forward[x][i] = NodeAt(s, n, q) /\ w.span[x][i] = (Reach(n, q) - c) - (k - c)
        BY <1>4, <1>5, <2>2, <2>4, <2>5, <2>6
    <2>8. NodeAt(g, n + 1, q + 1) = NodeAt(s, n, q)
        <3> HIDE DEF g
        <3> QED BY <1>1, <1>6, <2>4 DEF NodeAt
    <2>9. Reach(n + 1, q + 1) - (k + 1) = (Reach(n, q) - c) - (k - c) /\ Reach(n, q) >= k
        BY <1>1, <2>3, <2>4 DEF Reach
    <2>10. NextUp(t, n + 1, i, k + 1, q + 1)
        <3>1. \A r \in 0..n : h[r] \in Nat
            BY <1>2
        <3>2. c <= k
            BY <2>3
        <3> HIDE DEF t
        <3>3. NextUp(Put(h, n, k, level), n + 1, i, k + 1, q + 1)
            BY <1>1, <2>1, <2>3, <2>4, <3>1, <3>2, NextPut
        <3> QED BY <3>3 DEF t
    <2>11. q + 1 \in ((k + 1) + 1)..((n + 1) + 1) /\ Reach(n, q) \in Nat
        BY <1>1, <2>4 DEF Reach
    <2>12. w.span[x][i] \in Nat
        BY <1>1, <2>3, <2>7, <2>9, <2>11
    <2>13. NodeAt(s, n, q) \in Int
        BY DEF NodeAt, Placed, Null
    <2> HIDE DEF g, t
    <2> QED BY <1>6, <2>7, <2>8, <2>9, <2>10, <2>11, <2>12, <2>13 DEF Leads
<1>8. w.forward[x] \in [1..level -> Int] /\ w.span[x] \in [1..level -> Nat]
    <2>1. \A i \in 1..level : w.forward[x][i] \in Int /\ w.span[x][i] \in Nat
        BY <1>7
    <2> QED BY <1>4, <1>5, <2>1
<1> QED BY <1>7, <1>8

(* All the links.                                                          *)
LEMMA LinkedPut ==
    ASSUME NEW z, NEW s, NEW h, NEW n, Placed(z, s, n), Tall(z, h, n), Linked(z, s, h, n),
           NEW k \in 0..n, NEW b, Foremost(b, s, h, k), NEW level \in Levels,
           NEW x \in Nat, x \notin Addresses(z), NEW w,
           w.forward = LinksWith(z, b, x, level), w.span = SpansWith(z, b, x, level),
           w.level = IF level > z.level THEN level ELSE z.level,
           DOMAIN w.member = DOMAIN z.member \cup {x}
    PROVE  Linked(w, Put(s, n, k, x), Put(h, n, k, level), n + 1)
<1> DEFINE g == Put(s, n, k, x)
           t == Put(h, n, k, level)
<1>1. n \in Nat /\ k \in Nat
    BY DEF Placed
<1>0. k \in 0..n
    OBVIOUS
<1>2. DOMAIN w.forward = Addresses(w) /\ DOMAIN w.span = Addresses(w)
    BY DEF LinksWith, SpansWith, Extended, Addresses
<1>3. /\ \A r \in 0..k : g[r] = s[r]
      /\ g[k + 1] = x
      /\ \A r \in (k + 1)..n : g[r + 1] = s[r]
      /\ \A r \in (k + 2)..(n + 1) : g[r] = s[r - 1]
    <2>1. g[k + 1] = x
        BY <1>0, <1>1 DEF Put
    <2>2. /\ \A r \in 0..k : g[r] = s[r]
          /\ \A r \in (k + 1)..n : g[r + 1] = s[r]
          /\ \A r \in (k + 2)..(n + 1) : g[r] = s[r - 1]
        BY ONLY <1>0, <1>1, PutIs
    <2> QED BY <2>1, <2>2
<1>6. /\ \A r \in 0..k : t[r] = h[r]
      /\ t[k + 1] = level
      /\ \A r \in (k + 1)..n : t[r + 1] = h[r]
      /\ \A r \in (k + 2)..(n + 1) : t[r] = h[r - 1]
    <2>1. t[k + 1] = level
        BY <1>0, <1>1 DEF Put
    <2>2. /\ \A r \in 0..k : t[r] = h[r]
          /\ \A r \in (k + 1)..n : t[r + 1] = h[r]
          /\ \A r \in (k + 2)..(n + 1) : t[r] = h[r - 1]
        BY ONLY <1>0, <1>1, PutIs
    <2> QED BY <2>1, <2>2
<1>4. ASSUME NEW p \in 0..(n + 1)
      PROVE  /\ w.forward[g[p]] \in [1..t[p] -> Int] /\ w.span[g[p]] \in [1..t[p] -> Nat]
             /\ \A i \in 1..t[p] : Leads(w, g, t, n + 1, p, i)
    <2>1. ASSUME NEW q \in 0..n
          PROVE  /\ w.forward[s[q]] \in [1..h[q] -> Int] /\ w.span[s[q]] \in [1..h[q] -> Nat]
                 /\ \A i \in 1..h[q] : Leads(w, g, t, n + 1, IF q <= k THEN q ELSE q + 1, i)
        BY OldLinksPut
    <2>2. /\ w.forward[x] \in [1..level -> Int] /\ w.span[x] \in [1..level -> Nat]
          /\ \A i \in 1..level : Leads(w, g, t, n + 1, k + 1, i)
        BY NewLinksPut
    <2> HIDE DEF g, t
    <2>3. CASE p <= k
        <3>1. p \in 0..n /\ g[p] = s[p] /\ t[p] = h[p]
            BY <1>1, <1>3, <1>6, <2>3
        <3> QED BY <2>1, <2>3, <3>1
    <2>4. CASE p = k + 1
        BY <1>3, <1>6, <2>2, <2>4
    <2>5. CASE p > k + 1
        <3>1. p - 1 \in 0..n /\ ~(p - 1 <= k) /\ (p - 1) + 1 = p
            BY <1>1, <2>5
        <3>2. g[p] = s[p - 1] /\ t[p] = h[p - 1]
            BY <1>1, <1>3, <1>6, <2>5
        <3> QED BY <2>1, <3>1, <3>2
    <2> QED BY <1>1, <2>3, <2>4, <2>5
<1> HIDE DEF g, t
<1>5. Linked(w, g, t, n + 1)
    BY <1>2, <1>4 DEF Linked
<1> QED BY <1>5 DEF g, t

(* A new node has its place among the nodes.                               *)
LEMMA PlacedPut ==
    ASSUME NEW z, NEW s, NEW n, Placed(z, s, n), NEW k \in 0..n, NEW x \in Nat,
           x \notin Addresses(z), NEW w, DOMAIN w.member = DOMAIN z.member \cup {x},
           w.length = z.length + 1
    PROVE  Placed(w, Put(s, n, k, x), n + 1)
<1> DEFINE g == Put(s, n, k, x)
<1>1. /\ n \in Nat /\ k \in Nat /\ s \in [0..n -> Nat] /\ s[0] = Header /\ z.length = n
      /\ \A p, q \in 0..n : s[p] = s[q] => p = q
      /\ Addresses(z) = {s[p] : p \in 0..n}
    BY DEF Placed
<1>2. g \in [0..(n + 1) -> Nat]
    BY <1>1 DEF Put
<1>3. /\ \A r \in 0..k : g[r] = s[r]
      /\ g[k + 1] = x
      /\ \A r \in (k + 1)..n : g[r + 1] = s[r]
      /\ \A r \in (k + 2)..(n + 1) : g[r] = s[r - 1]
    BY <1>1, PutIs
<1> DEFINE Old(p) == IF p <= k THEN p ELSE p - 1
<1>4. ASSUME NEW p \in 0..(n + 1), p # k + 1
      PROVE  Old(p) \in 0..n /\ g[p] = s[Old(p)] /\ g[p] # x
    <2> HIDE DEF g
    <2>1. Old(p) \in 0..n /\ g[p] = s[Old(p)]
        <3>1. CASE p <= k
            BY <1>1, <1>3, <3>1
        <3>2. CASE ~(p <= k)
            <4>1. p \in (k + 2)..(n + 1) /\ p - 1 \in 0..n
                BY <1>1, <1>4, <3>2
            <4> QED BY <1>3, <3>2, <4>1
        <3> QED BY <3>1, <3>2
    <2>2. s[Old(p)] \in Addresses(z)
        BY <1>1, <2>1
    <2> QED BY <2>1, <2>2
<1>5. g[0] = Header
    BY <1>1, <1>3
<1> HIDE DEF g
<1>6. ASSUME NEW p \in 0..(n + 1), NEW q \in 0..(n + 1), g[p] = g[q]
      PROVE  p = q
    <2>1. CASE p = k + 1 \/ q = k + 1
        BY <1>3, <1>4, <1>6, <2>1
    <2>2. CASE p # k + 1 /\ q # k + 1
        <3>1. Old(p) = Old(q)
            <4>1. /\ Old(p) \in 0..n /\ g[p] = s[Old(p)]
                  /\ Old(q) \in 0..n /\ g[q] = s[Old(q)]
                BY <1>4, <2>2
            <4> HIDE DEF Old
            <4> QED BY <1>1, <1>6, <4>1
        <3> QED BY <1>1, <2>2, <3>1
    <2> QED BY <2>1, <2>2
<1>7. Addresses(w) = {g[p] : p \in 0..(n + 1)}
    <2>1. Addresses(w) = Addresses(z) \cup {x}
        BY DEF Addresses
    <2>2. ASSUME NEW p \in 0..(n + 1) PROVE g[p] \in Addresses(w)
        <3>1. CASE p = k + 1
            BY <1>3, <2>1, <3>1
        <3>2. CASE p # k + 1
            <4>1. Old(p) \in 0..n /\ g[p] = s[Old(p)]
                BY <1>4, <3>2
            <4> HIDE DEF Old
            <4> QED BY <1>1, <2>1, <4>1
        <3> QED BY <3>1, <3>2
    <2>3. ASSUME NEW a \in Addresses(w) PROVE \E p \in 0..(n + 1) : a = g[p]
        <3>1. CASE a = x
            <4>1. k + 1 \in 0..(n + 1)
                BY <1>1
            <4> QED BY <1>3, <3>1, <4>1
        <3>2. CASE a # x
            <4>1. PICK p \in 0..n : a = s[p]
                BY <1>1, <2>1, <3>2
            <4>2. CASE p <= k
                <5>1. p \in 0..(n + 1) /\ g[p] = s[p]
                    BY <1>1, <1>3, <4>2
                <5> QED BY <4>1, <5>1
            <4>3. CASE ~(p <= k)
                <5>1. p + 1 \in 0..(n + 1) /\ g[p + 1] = s[p]
                    BY <1>1, <1>3, <4>3
                <5> QED BY <4>1, <5>1
            <4> QED BY <4>2, <4>3
        <3> QED BY <3>1, <3>2
    <2> QED BY <2>2, <2>3
<1>8. Placed(w, g, n + 1)
    BY <1>1, <1>2, <1>5, <1>6, <1>7 DEF Placed
<1> QED BY <1>8 DEF g

(* The list is as high as its highest node when it has grown               *)
(* (skiplist.go:108-116).                                                  *)
LEMMA TallPut ==
    ASSUME NEW z, NEW h, NEW n \in Nat, Tall(z, h, n), NEW k \in 0..n, NEW level \in Levels,
           NEW w, w.level = IF level > z.level THEN level ELSE z.level
    PROVE  Tall(w, Put(h, n, k, level), n + 1)
<1> DEFINE t == Put(h, n, k, level)
<1>1. /\ h \in [0..n -> Levels] /\ h[0] = SkipListMaxLevel /\ z.level \in Levels
      /\ \A p \in 1..n : h[p] <= z.level
      /\ z.level = 1 \/ \E p \in 1..n : h[p] = z.level
      /\ Levels \subseteq Nat
    BY DEF Tall, Levels
<1>2. t \in [0..(n + 1) -> Levels]
    BY <1>1 DEF Put
<1>3. /\ \A r \in 0..k : t[r] = h[r]
      /\ t[k + 1] = level
      /\ \A r \in (k + 1)..n : t[r + 1] = h[r]
      /\ \A r \in (k + 2)..(n + 1) : t[r] = h[r - 1]
    <2>1. n \in Nat /\ k \in 0..n
        OBVIOUS
    <2>2. t[k + 1] = level
        BY <2>1 DEF Put
    <2>3. /\ \A r \in 0..k : t[r] = h[r]
          /\ \A r \in (k + 1)..n : t[r + 1] = h[r]
          /\ \A r \in (k + 2)..(n + 1) : t[r] = h[r - 1]
        BY ONLY <2>1, PutIs
    <2> QED BY <2>2, <2>3
<1> HIDE DEF t
<1>4. w.level \in Levels /\ w.level \in Nat /\ z.level <= w.level /\ level <= w.level /\ z.level \in Nat
    <2>1. z.level \in Nat /\ level \in Nat
        BY <1>1
    <2> QED BY <1>1, <2>1
<1>5. ASSUME NEW p \in 1..(n + 1) PROVE t[p] <= w.level
    <2>1. \A q \in 1..n : h[q] <= w.level
        <3>1. ASSUME NEW q \in 1..n PROVE h[q] \in Nat /\ h[q] <= z.level
            <4>1. q \in 0..n
                OBVIOUS
            <4>2. h[q] \in Levels
                BY <1>1, <4>1
            <4> QED BY <1>1, <4>2
        <3> QED BY <1>4, <3>1
    <2>2. CASE p <= k
        BY <1>3, <2>1, <2>2
    <2>3. CASE p = k + 1
        BY <1>3, <1>4, <2>3
    <2>4. CASE p > k + 1
        <3>1. p \in (k + 2)..(n + 1) /\ p - 1 \in 1..n
            BY <2>4
        <3> QED BY <1>3, <2>1, <3>1
    <2> QED BY <2>2, <2>3, <2>4
<1>6. w.level = 1 \/ \E p \in 1..(n + 1) : t[p] = w.level
    <2>1. CASE level > z.level
        <3>1. k + 1 \in 1..(n + 1)
            OBVIOUS
        <3> QED BY <1>3, <2>1, <3>1
    <2>2. CASE ~(level > z.level) /\ z.level = 1
        BY <2>2
    <2>3. CASE ~(level > z.level) /\ z.level # 1
        <3>1. PICK p \in 1..n : h[p] = z.level
            BY <1>1, <2>3
        <3>2. CASE p <= k
            <4>1. p \in 1..(n + 1) /\ t[p] = h[p]
                BY <1>3, <3>2
            <4> QED BY <2>3, <3>1, <4>1
        <3>3. CASE ~(p <= k)
            <4>1. p + 1 \in 1..(n + 1) /\ t[p + 1] = h[p]
                BY <1>3, <3>3
            <4> QED BY <2>3, <3>1, <4>1
        <3> QED BY <3>2, <3>3
    <2> QED BY <2>1, <2>2, <2>3
<1>7. t[0] = SkipListMaxLevel
    BY <1>1, <1>3
<1>8. Tall(w, t, n + 1)
    BY <1>2, <1>4, <1>5, <1>6, <1>7 DEF Tall
<1> QED BY <1>8 DEF t

(* The lowest level leads from each place to the next.                     *)
LEMMA LowestIs ==
    ASSUME NEW z, NEW s, NEW h, NEW n, Placed(z, s, n), Tall(z, h, n), Linked(z, s, h, n),
           NEW p \in 0..n
    PROVE  z.forward[s[p]][1] = NodeAt(s, n, p + 1)
<1>1. n \in Nat /\ \A r \in 0..n : h[r] \in Levels
    BY DEF Placed, Tall
<1>2. 1 \in 1..h[p]
    BY <1>1 DEF Levels
<1>3. PICK q \in (p + 1)..(n + 1) :
          NextUp(h, n, 1, p, q) /\ z.forward[s[p]][1] = NodeAt(s, n, q)
    BY <1>2 DEF Linked, Leads
<1>4. ~(q > p + 1)
    <2>1. q > p + 1 => p + 1 \in (p + 1)..(q - 1) /\ p + 1 \in 0..n
        BY <1>1
    <2>2. \A r \in 0..n : ~(h[r] < 1)
        BY <1>1 DEF Levels
    <2> QED BY <1>3, <2>1, <2>2 DEF NextUp
<1>5. q = p + 1
    BY <1>1, <1>4
<1> QED BY <1>3, <1>5

(* Backwards, too, every node leads to the one before it.                  *)
Backed(z, s, n) ==
    /\ DOMAIN z.backward = Addresses(z)
    /\ \A p \in 0..n : z.backward[s[p]] = NodeAt(s, n, p - 1)
    /\ z.tail = NodeAt(s, n, n)

(* The order by score and member still holds if the new node is put behind *)
(* those that are less (skiplist.go:96-101).                               *)
LEMMA OrderedPut ==
    ASSUME NEW z, NEW s, NEW n, Placed(z, s, n), Ordered(z, s, n), NEW k \in 0..n,
           NEW sc \in Scores, NEW m \in ZMembers,
           \A q \in 1..n : q <= k <=> Less(z, s[q], sc, m),
           \A q \in 1..n : z.score[s[q]] # sc \/ z.member[s[q]] # m,
           NEW x \in Nat, x \notin Addresses(z), NEW w,
           w.member = Extended(z.member, x, m), w.score = Extended(z.score, x, sc)
    PROVE  Ordered(w, Put(s, n, k, x), n + 1)
<1> DEFINE g == Put(s, n, k, x)
           M == [p \in 1..(n + 1) |-> w.member[g[p]]]
           C == [p \in 1..(n + 1) |-> w.score[g[p]]]
<1>1. n \in Nat /\ k \in Nat /\ k <= n /\ Scores \subseteq Int /\ ZMembers \subseteq Int
    BY ZSetAssumption DEF Placed
<1>2. /\ DOMAIN z.score = Addresses(z) /\ DOMAIN z.member = Addresses(z)
      /\ \A p \in 0..n : s[p] \in Addresses(z) /\ s[p] # x
      /\ s[0] = Header
    BY NodesAre DEF Ordered, Addresses, Placed
<1>3. /\ \A p \in 0..n : w.member[s[p]] = z.member[s[p]] /\ w.score[s[p]] = z.score[s[p]]
      /\ w.member[x] = m /\ w.score[x] = sc
    BY <1>2 DEF Extended
<1>4. /\ \A r \in 0..k : g[r] = s[r]
      /\ g[k + 1] = x
      /\ \A r \in (k + 1)..n : g[r + 1] = s[r]
      /\ \A r \in (k + 2)..(n + 1) : g[r] = s[r - 1]
    BY <1>1, PutIs DEF Put
<1> HIDE DEF g
<1>5. /\ \A p \in 1..k : M[p] = z.member[s[p]] /\ C[p] = z.score[s[p]]
      /\ M[k + 1] = m /\ C[k + 1] = sc
      /\ \A p \in (k + 2)..(n + 1) : M[p] = z.member[s[p - 1]] /\ C[p] = z.score[s[p - 1]]
    <2>1. ASSUME NEW p \in 1..k PROVE M[p] = z.member[s[p]] /\ C[p] = z.score[s[p]]
        <3>1. p \in 1..(n + 1) /\ p \in 0..n /\ g[p] = s[p]
            BY <1>1, <1>4
        <3> QED BY <1>3, <3>1
    <2>2. M[k + 1] = m /\ C[k + 1] = sc
        <3>1. k + 1 \in 1..(n + 1)
            BY <1>1
        <3> QED BY <1>3, <1>4, <3>1
    <2>3. ASSUME NEW p \in (k + 2)..(n + 1)
          PROVE  M[p] = z.member[s[p - 1]] /\ C[p] = z.score[s[p - 1]]
        <3>1. p \in 1..(n + 1) /\ p - 1 \in 0..n /\ g[p] = s[p - 1]
            BY <1>1, <1>4
        <3> QED BY <1>3, <3>1
    <2> QED BY <2>1, <2>2, <2>3
<1>6. ASSUME NEW p \in 1..(n + 1) PROVE M[p] \in ZMembers /\ C[p] \in Scores
    <2>1. \A q \in 1..n : z.member[s[q]] \in ZMembers /\ z.score[s[q]] \in Scores
        BY DEF Ordered
    <2>2. CASE p <= k
        <3>1. p \in 1..k /\ p \in 1..n
            BY <1>1, <2>2
        <3> QED BY <1>5, <2>1, <3>1
    <2>3. CASE p = k + 1
        BY <1>5, <2>3
    <2>4. CASE p > k + 1
        <3>1. p \in (k + 2)..(n + 1) /\ p - 1 \in 1..n
            BY <1>1, <2>4
        <3> QED BY <1>5, <2>1, <3>1
    <2> QED BY <1>1, <2>2, <2>3, <2>4
<1> HIDE DEF M, C
<1> DEFINE Below(p, q) == C[p] < C[q] \/ (C[p] = C[q] /\ M[p] < M[q])
<1>7. ASSUME NEW p \in 1..(n + 1), NEW q \in 1..(n + 1), p < q PROVE Below(p, q)
    <2>1. \A a, c \in 1..n : a < c =>
              \/ z.score[s[a]] < z.score[s[c]]
              \/ z.score[s[a]] = z.score[s[c]] /\ z.member[s[a]] < z.member[s[c]]
        BY OrderMeans
    <2>2. \A a \in 1..n : /\ a <= k <=> (z.score[s[a]] < sc \/ (z.score[s[a]] = sc /\ z.member[s[a]] < m))
                          /\ z.score[s[a]] # sc \/ z.member[s[a]] # m
                          /\ z.score[s[a]] \in Int /\ z.member[s[a]] \in Int
        BY <1>1, OrderMeans DEF Ordered
    <2>3. CASE q <= k
        <3>1. p \in 1..k /\ q \in 1..k /\ p \in 1..n /\ q \in 1..n
            BY <1>1, <1>7, <2>3
        <3>2. M[p] = z.member[s[p]] /\ C[p] = z.score[s[p]] /\ M[q] = z.member[s[q]] /\ C[q] = z.score[s[q]]
            BY <1>5, <3>1
        <3> QED BY <1>7, <2>1, <3>1, <3>2
    <2>4. CASE q = k + 1
        <3>1. p \in 1..k /\ p \in 1..n /\ p <= k
            BY <1>1, <1>7, <2>4
        <3>2. M[p] = z.member[s[p]] /\ C[p] = z.score[s[p]] /\ M[q] = m /\ C[q] = sc
            BY <1>5, <2>4, <3>1
        <3> QED BY <2>2, <3>1, <3>2
    <2>5. CASE q > k + 1
        <3>1. q \in (k + 2)..(n + 1) /\ q - 1 \in 1..n /\ ~(q - 1 <= k)
            BY <1>1, <2>5
        <3>2. M[q] = z.member[s[q - 1]] /\ C[q] = z.score[s[q - 1]]
            BY <1>5, <3>1
        <3>3. CASE p <= k
            <4>1. p \in 1..k /\ p \in 1..n /\ p < q - 1
                BY <1>1, <2>5, <3>3
            <4>2. M[p] = z.member[s[p]] /\ C[p] = z.score[s[p]]
                BY <1>5, <4>1
            <4> QED BY <2>1, <3>1, <3>2, <4>1, <4>2
        <3>4. CASE p = k + 1
            <4>1. M[p] = m /\ C[p] = sc
                BY <1>5, <3>4
            <4>2. sc \in Int /\ m \in Int
                BY <1>1
            <4> DEFINE d == z.score[s[q - 1]]
                       e == z.member[s[q - 1]]
            <4>3. ~(d < sc \/ (d = sc /\ e < m)) /\ (d # sc \/ e # m) /\ d \in Int /\ e \in Int
                BY <2>2, <3>1
            <4>4. sc < d \/ (sc = d /\ m < e)
                <5> HIDE DEF d, e
                <5> QED BY <4>2, <4>3
            <4> QED BY <3>2, <4>1, <4>4
        <3>5. CASE p > k + 1
            <4>1. p \in (k + 2)..(n + 1) /\ p - 1 \in 1..n /\ p - 1 < q - 1
                BY <1>1, <1>7, <3>5
            <4>2. M[p] = z.member[s[p - 1]] /\ C[p] = z.score[s[p - 1]]
                BY <1>5, <4>1
            <4> QED BY <2>1, <3>1, <3>2, <4>1, <4>2
        <3> QED BY <1>1, <3>3, <3>4, <3>5
    <2> QED BY <1>1, <2>3, <2>4, <2>5
<1>8. \A p \in 1..(n + 1) : w.member[g[p]] = M[p] /\ w.score[g[p]] = C[p]
    BY DEF M, C
<1>9. w.member[Header] = 0 /\ w.score[Header] = 0
    <2>1. w.member[s[0]] = z.member[s[0]] /\ w.score[s[0]] = z.score[s[0]]
        <3>1. 0 \in 0..n
            BY <1>1
        <3> QED BY <1>3, <3>1
    <2> QED BY <1>2, <2>1 DEF Ordered
<1>10. DOMAIN w.score = Addresses(w)
    BY <1>2 DEF Extended, Addresses
<1>11. \A p, q \in 1..(n + 1) : p < q => Less(w, g[p], w.score[g[q]], w.member[g[q]])
    <2> SUFFICES ASSUME NEW p \in 1..(n + 1), NEW q \in 1..(n + 1), p < q
                 PROVE  Less(w, g[p], w.score[g[q]], w.member[g[q]])
        OBVIOUS
    <2>1. C[p] \in Scores /\ C[q] \in Scores /\ Below(p, q)
        BY <1>6, <1>7
    <2>2. Lower(C[p], C[q]) \/ (Same(C[p], C[q]) /\ M[p] < M[q])
        BY <2>1, NumbersCompare
    <2> QED BY <1>8, <2>2 DEF Less
<1>12. Ordered(w, g, n + 1)
    BY <1>6, <1>8, <1>9, <1>10, <1>11 DEF Ordered
<1> QED BY <1>12 DEF g

(* The backward links of the new node and of the one behind it, or the     *)
(* tail (skiplist.go:138-149).                                             *)
LEMMA BackedPut ==
    ASSUME NEW z, NEW s, NEW n, Placed(z, s, n), Backed(z, s, n), NEW k \in 0..n,
           NEW x \in Nat, x \notin Addresses(z), NEW after, after = NodeAt(s, n, k + 1), NEW w,
           DOMAIN w.member = DOMAIN z.member \cup {x},
           w.backward = Extended([a \in Addresses(z) |-> IF a = after THEN x ELSE z.backward[a]],
                                 x, IF s[k] = Header THEN Null ELSE s[k]),
           w.tail = IF after = Null THEN x ELSE z.tail
    PROVE  Backed(w, Put(s, n, k, x), n + 1)
<1> DEFINE g == Put(s, n, k, x)
<1>1. /\ n \in Nat /\ k \in Nat /\ k <= n /\ s \in [0..n -> Nat]
      /\ \A p, q \in 0..n : s[p] = s[q] => p = q
    BY DEF Placed
<1>2. \A p \in 0..n : s[p] \in Addresses(z) /\ s[p] # x /\ (s[p] = Header <=> p = 0)
    BY NodesAre
<1>3. /\ \A p \in 0..n : w.backward[s[p]] = IF s[p] = after THEN x ELSE NodeAt(s, n, p - 1)
      /\ w.backward[x] = IF k = 0 THEN Null ELSE s[k]
    BY <1>2 DEF Extended, Backed
<1>4. /\ \A r \in 0..k : g[r] = s[r]
      /\ g[k + 1] = x
      /\ \A r \in (k + 1)..n : g[r + 1] = s[r]
      /\ \A r \in (k + 2)..(n + 1) : g[r] = s[r - 1]
    BY <1>1, PutIs
<1> HIDE DEF g
<1>5. \A p \in 0..n : s[p] = after <=> p = k + 1
    <2>1. CASE k < n
        <3>1. after = s[k + 1] /\ k + 1 \in 0..n
            BY <1>1, <2>1 DEF NodeAt
        <3> QED BY <1>1, <3>1
    <2>2. CASE k = n
        <3>1. after = Null
            BY <1>1, <2>2 DEF NodeAt
        <3>2. \A p \in 0..n : s[p] # Null /\ p # k + 1
            BY <1>1, <2>2 DEF Null
        <3> QED BY <3>1, <3>2
    <2> QED BY <1>1, <2>1, <2>2
<1>6. ASSUME NEW p \in 0..(n + 1) PROVE w.backward[g[p]] = NodeAt(g, n + 1, p - 1)
    <2>1. CASE p <= k
        <3>1. p \in 0..n /\ g[p] = s[p] /\ p # k + 1
            BY <1>1, <1>4, <2>1
        <3>2. NodeAt(g, n + 1, p - 1) = NodeAt(s, n, p - 1)
            BY <1>1, <1>4, <2>1 DEF NodeAt
        <3> QED BY <1>3, <1>5, <3>1, <3>2
    <2>2. CASE p = k + 1
        <3>1. NodeAt(g, n + 1, p - 1) = IF k = 0 THEN Null ELSE s[k]
            BY <1>1, <1>4, <2>2 DEF NodeAt
        <3> QED BY <1>3, <1>4, <2>2, <3>1
    <2>3. CASE p > k + 1
        <3>1. p \in (k + 2)..(n + 1) /\ p - 1 \in 0..n /\ g[p] = s[p - 1]
            BY <1>1, <1>4, <2>3
        <3>2. w.backward[g[p]] = IF p - 1 = k + 1 THEN x ELSE NodeAt(s, n, (p - 1) - 1)
            BY <1>3, <1>5, <3>1
        <3>3. CASE p - 1 = k + 1
            <4>1. NodeAt(g, n + 1, p - 1) = x
                BY <1>1, <1>4, <3>3 DEF NodeAt
            <4> QED BY <3>2, <3>3, <4>1
        <3>4. CASE p - 1 # k + 1
            <4>1. p - 1 \in (k + 2)..(n + 1) /\ (p - 1) - 1 \in 1..n /\ p - 1 \in 1..(n + 1)
                BY <1>1, <2>3, <3>4
            <4>2. NodeAt(g, n + 1, p - 1) = NodeAt(s, n, (p - 1) - 1)
                BY <1>4, <4>1 DEF NodeAt
            <4> QED BY <3>2, <3>4, <4>2
        <3> QED BY <3>3, <3>4
    <2> QED BY <1>1, <2>1, <2>2, <2>3
<1>7. w.tail = NodeAt(g, n + 1, n + 1)
    <2>1. CASE k < n
        <3>1. after # Null
            BY <1>1, <2>1 DEF NodeAt, Null
        <3>2. g[n + 1] = s[n] /\ n \in 1..n /\ n + 1 \in 1..(n + 1)
            BY <1>1, <1>4, <2>1
        <3> QED BY <3>1, <3>2 DEF NodeAt, Backed
    <2>2. CASE k = n
        <3>1. after = Null
            BY <1>1, <2>2 DEF NodeAt
        <3>2. g[n + 1] = x /\ n + 1 \in 1..(n + 1)
            BY <1>1, <1>4, <2>2
        <3> QED BY <3>1, <3>2 DEF NodeAt
    <2> QED BY <1>1, <2>1, <2>2
<1>8. DOMAIN w.backward = Addresses(w)
    BY DEF Extended, Addresses
<1>9. Backed(w, g, n + 1)
    BY <1>6, <1>7, <1>8 DEF Backed
<1> QED BY <1>9 DEF g

Shaped(z) ==
    /\ DOMAIN z = {"bound", "real", "dict", "member", "score", "backward", "forward", "span", "tail",
                   "length", "level"}
    /\ z.member = [a \in DOMAIN z.member |-> z.member[a]]
    /\ z.score = [a \in DOMAIN z.score |-> z.score[a]]

(* All that is right about a skip list, in itself.                         *)
Listed(z, s, h, n) ==
    /\ Shaped(z) /\ Placed(z, s, n) /\ Tall(z, h, n) /\ Linked(z, s, h, n)
    /\ Ordered(z, s, n) /\ Backed(z, s, n)

(* What it holds.                                                          *)
MemberScores(z) == {<<z.member[a], z.score[a]>> : a \in NodesOf(z)}

(* The address of a new node is that of no other.                          *)
LEMMA NewNodeIs ==
    ASSUME NEW z, NEW s, NEW n, Placed(z, s, n)
    PROVE  NewNode(z) \in Nat \ {0} /\ NewNode(z) \notin Addresses(z)
<1>1. /\ n \in Nat /\ z.length = n /\ s \in [0..n -> Nat] /\ s[0] = Header
      /\ \A p, q \in 0..n : s[p] = s[q] => p = q
    BY DEF Placed
<1>2. NodesOf(z) = {s[p] : p \in 1..n} /\ Addresses(z) = {s[p] : p \in 0..n}
    BY NodesAre DEF Placed
<1> DEFINE f == [p \in 1..n |-> s[p]]
           N == NodesOf(z)
<1>3. f \in Bijection(1..n, N)
    <2>1. f \in [1..n -> N] /\ \A p, q \in 1..n : f[p] = f[q] => p = q
        BY <1>1, <1>2
    <2>2. \A a \in N : \E p \in 1..n : f[p] = a
        BY <1>2
    <2> HIDE DEF f, N
    <2> QED BY <2>1, <2>2 DEF Bijection, Injection, Surjection, IsInjective
<1> HIDE DEF f, N
<1>4. IsFiniteSet(N) /\ Cardinality(N) = n
    <2>1. ExistsBijection(1..n, N)
        BY <1>3 DEF ExistsBijection
    <2> QED BY <1>1, <2>1, FS_CountingElements, FS_NatBijection
<1>5. \E a \in 1..(n + 1) : a \notin N
    <2> SUFFICES ASSUME 1..(n + 1) \subseteq N PROVE FALSE
        OBVIOUS
    <2>1. Cardinality(1..(n + 1)) = n + 1
        <3>1. Cardinality(1..(n + 1)) = IF 1 > n + 1 THEN 0 ELSE (n + 1) - 1 + 1
            BY <1>1, FS_Interval
        <3> QED BY <1>1, <3>1
    <2>2. Cardinality(1..(n + 1)) <= Cardinality(N)
        BY <1>4, FS_Subset
    <2> QED BY <1>1, <1>4, <2>1, <2>2
<1>6. \E a \in 1..(z.length + 1) : a \notin Addresses(z)
    <2>1. \A a \in 1..(n + 1) : a \in Addresses(z) => a \in N
        BY DEF N, NodesOf, Header
    <2> QED BY <1>1, <1>5, <2>1
<1>7. NewNode(z) \in 1..(z.length + 1) /\ NewNode(z) \notin Addresses(z)
    BY <1>6 DEF NewNode
<1> QED BY <1>1, <1>7

(* Insert puts the node in its place, and changes no other.                *)
LEMMA InsertIs ==
    ASSUME NEW z, NEW s, NEW h, NEW n, Listed(z, s, h, n), NEW sc \in Scores,
           NEW m \in ZMembers, NEW level \in Levels, <<m, sc>> \notin MemberScores(z)
    PROVE  /\ \E g, t : Listed(Insert(z, sc, m, level), g, t, n + 1)
           /\ MemberScores(Insert(z, sc, m, level)) = MemberScores(z) \cup {<<m, sc>>}
           /\ Insert(z, sc, m, level).bound = z.bound
           /\ Insert(z, sc, m, level).dict = z.dict
<1> DEFINE w == Insert(z, sc, m, level)
           b == Before(z, sc, m)
           x == NewNode(z)
           prior == b[1][1]
           after == z.forward[prior][1]
<1>1. /\ Placed(z, s, n) /\ Tall(z, h, n) /\ Linked(z, s, h, n)
      /\ Ordered(z, s, n) /\ Backed(z, s, n)
    BY DEF Listed
<1>2. n \in Nat /\ \A p \in 0..n : h[p] \in Levels
    BY <1>1 DEF Placed, Tall
<1>3. PICK k \in 0..n : /\ \A q \in 1..n : q <= k <=> Less(z, s[q], sc, m)
                        /\ Foremost(b, s, h, k)
    BY <1>1, BeforeIs
<1>4. x \in Nat /\ x # 0 /\ x \notin Addresses(z)
    BY <1>1, NewNodeIs
<1>5. w = [bound |-> z.bound, real |-> z.real /\ sc # NaN, dict |-> z.dict,
           member |-> Extended(z.member, x, m), score |-> Extended(z.score, x, sc),
           backward |-> Extended([a \in Addresses(z) |-> IF a = after THEN x ELSE z.backward[a]],
                                 x, IF prior = Header THEN Null ELSE prior),
           forward |-> LinksWith(z, b, x, level), span |-> SpansWith(z, b, x, level),
           tail |-> IF after = Null THEN x ELSE z.tail, length |-> z.length + 1,
           level |-> IF level > z.level THEN level ELSE z.level]
    BY DEF Insert
<1>6. prior = s[k] /\ after = NodeAt(s, n, k + 1)
    <2>1. b[1] = <<s[k], k>>
        BY <1>2, <1>3, ForemostIs
    <2>2. z.forward[s[k]][1] = NodeAt(s, n, k + 1)
        BY <1>1, LowestIs
    <2> HIDE DEF b
    <2> QED BY <2>1, <2>2
<1> HIDE DEF b, x, prior, after, w
<1>7. /\ Shaped(w) /\ w.bound = z.bound /\ w.dict = z.dict
      /\ w.member = Extended(z.member, x, m) /\ w.score = Extended(z.score, x, sc)
      /\ w.backward = Extended([a \in Addresses(z) |-> IF a = after THEN x ELSE z.backward[a]],
                               x, IF s[k] = Header THEN Null ELSE s[k])
      /\ w.forward = LinksWith(z, b, x, level) /\ w.span = SpansWith(z, b, x, level)
      /\ w.tail = (IF after = Null THEN x ELSE z.tail) /\ w.length = z.length + 1
      /\ w.level = (IF level > z.level THEN level ELSE z.level)
    <2>1. /\ Extended(z.member, x, m) = [c \in DOMAIN Extended(z.member, x, m) |-> Extended(z.member, x, m)[c]]
          /\ Extended(z.score, x, sc) = [c \in DOMAIN Extended(z.score, x, sc) |-> Extended(z.score, x, sc)[c]]
        BY DEF Extended
    <2> QED BY <1>5, <1>6, <2>1 DEF Shaped
<1>8. DOMAIN w.member = DOMAIN z.member \cup {x}
    BY <1>7 DEF Extended
<1> DEFINE g == Put(s, n, k, x)
           t == Put(h, n, k, level)
<1>9. Placed(w, g, n + 1)
    BY <1>1, <1>4, <1>7, <1>8, PlacedPut
<1>10. Tall(w, t, n + 1)
    BY <1>1, <1>2, <1>7, TallPut
<1>11. Linked(w, g, t, n + 1)
    BY <1>1, <1>3, <1>4, <1>7, <1>8, LinkedPut
<1>12. \A q \in 1..n : z.score[s[q]] # sc \/ z.member[s[q]] # m
    <2>1. \A q \in 1..n : s[q] \in NodesOf(z)
        BY <1>1, NodesAre
    <2> QED BY <2>1 DEF MemberScores
<1>13. Ordered(w, g, n + 1)
    BY <1>1, <1>3, <1>4, <1>7, <1>12, OrderedPut
<1>14. Backed(w, g, n + 1)
    BY <1>1, <1>4, <1>6, <1>7, <1>8, BackedPut
<1>15. Listed(w, g, t, n + 1)
    BY <1>7, <1>9, <1>10, <1>11, <1>13, <1>14 DEF Listed
<1>16. MemberScores(w) = MemberScores(z) \cup {<<m, sc>>}
    <2>1. NodesOf(w) = NodesOf(z) \cup {x} /\ x \notin NodesOf(z)
        BY <1>4, <1>8 DEF NodesOf, Addresses, Header
    <2>2. /\ \A a \in NodesOf(z) : w.member[a] = z.member[a] /\ w.score[a] = z.score[a]
          /\ w.member[x] = m /\ w.score[x] = sc
        <3>1. DOMAIN z.score = Addresses(z) /\ DOMAIN z.member = Addresses(z)
              /\ \A a \in NodesOf(z) : a \in Addresses(z) /\ a # x
            BY <1>1, <1>4 DEF Ordered, Addresses, NodesOf
        <3> QED BY <1>7, <3>1 DEF Extended
    <2> QED BY <2>1, <2>2 DEF MemberScores
<1> QED BY <1>7, <1>15, <1>16 DEF w
-----------------------------------------------------------------------------
(* Sorted sets: delete.                                                    *)

(* deleteNode's links and spans.                                           *)
LEMMA LinksTake ==
    ASSUME NEW z, NEW s, NEW h, NEW n, Placed(z, s, n), Tall(z, h, n), Linked(z, s, h, n),
           NEW j \in 1..n, NEW b, Foremost(b, s, h, j - 1), NEW w,
           w.forward = LinksWithout(z, b, s[j]), w.span = SpansWithout(z, b, s[j]),
           w.level \in Nat, w.level <= z.level, NEW p \in 0..n, p # j
    PROVE  /\ w.forward[s[p]] \in [1..h[p] -> Int] /\ w.span[s[p]] \in [1..h[p] -> Nat]
           /\ \A i \in 1..h[p] : Leads(w, Take(s, n, j), Take(h, n, j), n - 1,
                                       IF p < j THEN p ELSE p - 1, i)
<1> DEFINE a == s[p]
           x == s[j]
           k == j - 1
           g == Take(s, n, j)
           t == Take(h, n, j)
           o == IF p < j THEN p ELSE p - 1
<1>1. /\ n \in Nat /\ z.level \in Nat /\ k \in 0..n /\ p \in Nat /\ j \in Nat
    <2>1. n \in Nat /\ z.level \in Levels /\ Levels \subseteq Nat
        BY DEF Placed, Tall, Levels
    <2>2. z.level \in Nat
        BY <2>1
    <2>3. k \in 0..n /\ p \in Nat /\ j \in Nat
        BY <2>1
    <2> QED BY <2>1, <2>2, <2>3
<1>2. \A r \in 0..n : h[r] \in Levels /\ h[r] \in Nat
    BY DEF Tall, Levels
<1>3. \A r \in 1..n : h[r] <= z.level
    BY DEF Tall
<1>4. a \in Addresses(z) \ {x} /\ x \in Addresses(z) /\ \A r \in 1..n : s[r] = x <=> r = j
    <2>1. \A c, d \in 0..n : s[c] = s[d] => c = d
        BY DEF Placed
    <2>2. j \in 0..n /\ \A r \in 1..n : r \in 0..n
        OBVIOUS
    <2> QED BY <2>1, <2>2, NodesAre
<1>5. /\ z.forward[a] \in [1..h[p] -> Int] /\ z.span[a] \in [1..h[p] -> Nat]
      /\ DOMAIN z.forward[a] = 1..h[p] /\ DOMAIN z.span[a] = 1..h[p]
    BY DEF Linked
<1>6. w.forward[a] = [i \in 1..h[p] |->
                          IF i <= z.level /\ b[i][1] = a /\ z.forward[a][i] = x
                          THEN z.forward[x][i] ELSE z.forward[a][i]]
    BY <1>4, <1>5 DEF LinksWithout
<1>7. w.span[a] = [i \in 1..h[p] |->
                      IF i > z.level \/ b[i][1] # a THEN z.span[a][i]
                      ELSE IF z.forward[a][i] = x THEN z.span[a][i] + z.span[x][i] - 1
                      ELSE z.span[a][i] - 1]
    <2>1. SpansWithout(z, b, x)[a] =
              [i \in DOMAIN z.span[a] |->
                  IF i > z.level \/ b[i][1] # a THEN z.span[a][i]
                  ELSE IF z.forward[a][i] = x THEN z.span[a][i] + z.span[x][i] - 1
                  ELSE z.span[a][i] - 1]
        BY <1>4 DEF SpansWithout
    <2> QED BY <1>5, <2>1
<1>8. /\ \A r \in 0..(j - 1) : g[r] = s[r]
      /\ \A r \in (j + 1)..n : g[r - 1] = s[r]
      /\ \A r \in j..(n - 1) : g[r] = s[r + 1]
    BY <1>1, TakeIs
<1>9. g[o] = a /\ o \in 0..(n - 1)
    <2> HIDE DEF g
    <2>1. CASE p < j
        BY <1>1, <1>8, <2>1
    <2>2. CASE ~(p < j)
        <3>1. p \in (j + 1)..n
            BY <1>1, <2>2
        <3> QED BY <1>1, <1>8, <2>2, <3>1
    <2> QED BY <2>1, <2>2
<1>10. ASSUME NEW i \in 1..h[p]
      PROVE  w.forward[a][i] \in Int /\ w.span[a][i] \in Nat /\ Leads(w, g, t, n - 1, o, i)
    <2>1. PICK c \in 0..k, q \in (p + 1)..(n + 1) :
              /\ LastUp(h, i, k, c) /\ b[i] = <<s[c], c>> /\ h[c] >= i
              /\ NextUp(h, n, i, p, q) /\ z.forward[a][i] = NodeAt(s, n, q)
              /\ i <= z.level => z.span[a][i] = Reach(n, q) - p
              /\ b[i][1] = a <=> p = c
              /\ p = c => q > k
              /\ p <= k /\ p # c => p < c /\ q <= c
        BY <1>1, LeadsIs
    <2>2. z.forward[a][i] \in Int /\ z.span[a][i] \in Nat /\ i \in Nat
        BY SMTT(30), <1>2, <1>5
    <2>3. z.forward[a][i] = x <=> q = j
        <3>1. x # Null /\ x \in Nat
            BY DEF Placed, Null
        <3>2. CASE q \in 1..n
            BY <1>4, <2>1, <3>2 DEF NodeAt
        <3>3. CASE q \notin 1..n
            BY <2>1, <3>1, <3>3 DEF NodeAt
        <3> QED BY <3>2, <3>3
    <2>4. /\ w.forward[a][i] = IF i <= z.level /\ p = c /\ q = j THEN z.forward[x][i] ELSE z.forward[a][i]
          /\ w.span[a][i] = IF i > z.level \/ p # c THEN z.span[a][i]
                            ELSE IF q = j THEN z.span[a][i] + z.span[x][i] - 1
                            ELSE z.span[a][i] - 1
        BY <1>6, <1>7, <2>1, <2>3
    <2>5. i > z.level => p = 0 /\ q = n + 1
        <3> SUFFICES ASSUME i > z.level PROVE p = 0 /\ q = n + 1
            OBVIOUS
        <3>1. \A r \in 1..n : ~(h[r] >= i)
            <4>1. \A r \in 1..n : h[r] \in Nat
                BY <1>2
            <4> QED BY <1>1, <1>3, <2>2, <4>1
        <3>2. p = 0
            <4>1. h[p] >= i
                BY <1>2, <2>2
            <4> QED BY <1>1, <3>1, <4>1
        <3>3. q \in 1..(n + 1) /\ (q <= n => h[q] >= i)
            BY <2>1, <3>2 DEF NextUp
        <3> QED BY <1>1, <3>1, <3>2, <3>3
    <2>6. /\ q < j => NextUp(t, n - 1, i, p, q)
          /\ p < j /\ q > j => NextUp(t, n - 1, i, p, q - 1)
          /\ q = j => \A r : NextUp(h, n, i, j, r) => NextUp(t, n - 1, i, p, r - 1)
          /\ p > j => NextUp(t, n - 1, i, p - 1, q - 1)
        <3>1. \A r \in 0..n : h[r] \in Nat
            BY <1>2
        <3> QED BY <1>1, <2>1, <2>2, <3>1, NextTake
    <2> HIDE DEF g, t
    <2>7. \A r \in (j + 1)..(n + 1) : /\ NodeAt(g, n - 1, r - 1) = NodeAt(s, n, r)
                                      /\ Reach(n - 1, r - 1) = Reach(n, r) - 1
                                      /\ Reach(n, r) \in Nat /\ Reach(n, r) >= j
                                      /\ r - 1 \in j..n
        <3> SUFFICES ASSUME NEW r \in (j + 1)..(n + 1)
                     PROVE  /\ NodeAt(g, n - 1, r - 1) = NodeAt(s, n, r)
                            /\ Reach(n - 1, r - 1) = Reach(n, r) - 1
                            /\ Reach(n, r) \in Nat /\ Reach(n, r) >= j
                            /\ r - 1 \in j..n
            OBVIOUS
        <3>1. CASE r \in (j + 1)..n
            <4>1. r \in 1..n /\ r - 1 \in 1..(n - 1) /\ g[r - 1] = s[r]
                BY <1>1, <1>8, <3>1
            <4> QED BY <1>1, <3>1, <4>1 DEF NodeAt, Reach
        <3>2. CASE r = n + 1
            BY <1>1, <3>2 DEF NodeAt, Reach
        <3> QED BY <1>1, <3>1, <3>2
    <2>8. CASE p < j /\ q < j
        <3>1. p # c /\ p < c
            BY <1>1, <2>1, <2>8
        <3>2. ~(i > z.level)
            BY <1>1, <2>5, <2>8
        <3>3. w.forward[a][i] = NodeAt(s, n, q) /\ w.span[a][i] = Reach(n, q) - p
            BY <1>1, <2>1, <2>2, <2>4, <3>1, <3>2
        <3>4. NodeAt(g, n - 1, q) = NodeAt(s, n, q) /\ Reach(n - 1, q) = q /\ Reach(n, q) = q
            <4>1. q \in 0..(j - 1) /\ q \in 1..n /\ q \in 1..(n - 1)
                BY <1>1, <2>8
            <4> QED BY <1>1, <1>8, <4>1 DEF NodeAt, Reach
        <3>5. o = p /\ q \in (p + 1)..((n - 1) + 1) /\ g[p] = a
            BY <1>1, <1>9, <2>8
        <3>6. w.forward[a][i] \in Int /\ w.span[a][i] \in Nat
            BY <2>2, <2>4, <3>1
        <3> QED BY <2>6, <2>8, <3>3, <3>4, <3>5, <3>6 DEF Leads
    <2>9. CASE p < j /\ q > j
        <3>1. p = c
            BY <1>1, <2>1, <2>9
        <3>2. w.forward[a][i] = NodeAt(s, n, q)
            BY <2>1, <2>4, <2>9
        <3>3. i <= w.level => w.span[a][i] = (Reach(n, q) - p) - 1
            BY <1>1, <2>1, <2>2, <2>4, <2>9, <3>1
        <3>4. q \in (j + 1)..(n + 1)
            BY <1>1, <2>9
        <3>5. w.span[a][i] \in Nat
            <4>1. CASE i > z.level
                BY <2>2, <2>4, <4>1
            <4>2. CASE ~(i > z.level)
                <5>1. w.span[a][i] = (Reach(n, q) - p) - 1
                    BY <1>1, <2>1, <2>2, <2>4, <2>9, <3>1, <4>2
                <5> QED BY <1>1, <2>7, <2>9, <3>4, <5>1
            <4> QED BY <4>1, <4>2
        <3>6. o = p /\ q - 1 \in (p + 1)..((n - 1) + 1) /\ g[p] = a
            BY <1>1, <1>9, <2>9
        <3>7. i <= w.level => w.span[a][i] = Reach(n - 1, q - 1) - p
            BY <1>1, <2>7, <3>3, <3>4
        <3>8. w.forward[a][i] \in Int
            BY <2>1, <2>2, <3>2
        <3>9. NextUp(t, n - 1, i, p, q - 1)
            BY <2>6, <2>9
        <3> QED BY <2>7, <3>2, <3>4, <3>5, <3>6, <3>7, <3>8, <3>9 DEF Leads
    <2>10. CASE p < j /\ q = j
        <3>1. p = c
            BY <1>1, <2>1, <2>10
        <3>2. ~(i > z.level)
            BY <1>1, <2>5, <2>10
        <3>3. j \in 0..n /\ h[j] >= i /\ i \in 1..h[j]
            BY <1>1, <1>2, <2>1, <2>2, <2>10 DEF NextUp
        <3>4. PICK r \in (j + 1)..(n + 1) :
                  /\ NextUp(h, n, i, j, r) /\ z.forward[x][i] = NodeAt(s, n, r)
                  /\ i <= z.level => z.span[x][i] = Reach(n, r) - j
            <4>1. Leads(z, s, h, n, j, i)
                BY <3>3 DEF Linked
            <4> QED BY <4>1 DEF Leads
        <3>5. i <= z.level
            BY <1>1, <2>2, <3>2
        <3>6. w.forward[a][i] = NodeAt(s, n, r)
            BY <2>4, <2>10, <3>1, <3>4, <3>5
        <3>7. w.span[a][i] = ((j - p) + (Reach(n, r) - j)) - 1
            <4>1. z.span[a][i] = j - p /\ z.span[x][i] = Reach(n, r) - j
                BY <1>1, <2>1, <2>10, <3>4, <3>5 DEF Reach
            <4>2. w.span[a][i] = (z.span[a][i] + z.span[x][i]) - 1
                <5>1. ~(i > z.level \/ p # c)
                    BY <3>1, <3>2
                <5>2. w.span[a][i] = IF q = j THEN z.span[a][i] + z.span[x][i] - 1
                                     ELSE z.span[a][i] - 1
                    BY <2>4, <5>1, Zenon
                <5>3. z.span[x][i] \in Int
                    BY <1>1, <2>7, <3>4, <4>1
                <5> HIDE DEF x, a
                <5> QED BY <2>2, <2>10, <5>2, <5>3
            <4> QED BY <4>1, <4>2
        <3>8. NextUp(t, n - 1, i, p, r - 1)
            BY <2>6, <2>10, <3>4
        <3>9. w.span[a][i] = Reach(n - 1, r - 1) - p /\ w.span[a][i] \in Nat
            BY <1>1, <2>7, <2>10, <3>4, <3>7
        <3>10. o = p /\ r - 1 \in (p + 1)..((n - 1) + 1) /\ g[p] = a
            BY <1>1, <1>9, <2>10, <3>4
        <3>11. NodeAt(s, n, r) \in Int
            BY DEF NodeAt, Placed, Null
        <3> QED BY <2>7, <3>4, <3>6, <3>8, <3>9, <3>10, <3>11 DEF Leads
    <2>11. CASE p > j
        <3>1. p # c
            BY <1>1, <2>1, <2>11
        <3>2. ~(i > z.level)
            BY <1>1, <2>5, <2>11
        <3>3. w.forward[a][i] = NodeAt(s, n, q) /\ w.span[a][i] = Reach(n, q) - p
            BY <1>1, <2>1, <2>2, <2>4, <3>1, <3>2
        <3>4. q \in (j + 1)..(n + 1)
            BY <1>1, <2>11
        <3>5. o = p - 1 /\ q - 1 \in ((p - 1) + 1)..((n - 1) + 1) /\ g[p - 1] = a
            BY <1>1, <1>9, <2>11
        <3>6. w.forward[a][i] \in Int /\ w.span[a][i] \in Nat
            BY <2>2, <2>4, <3>1
        <3>7. w.span[a][i] = Reach(n - 1, q - 1) - (p - 1)
            BY <1>1, <2>7, <3>3, <3>4
        <3> QED BY <2>6, <2>7, <2>11, <3>3, <3>4, <3>5, <3>6, <3>7 DEF Leads
    <2> QED BY <1>1, <2>8, <2>9, <2>10, <2>11
<1>11. w.forward[a] \in [1..h[p] -> Int]
    <2>1. \A i \in 1..h[p] : w.forward[a][i] \in Int
        BY <1>10
    <2> QED BY <1>6, <2>1
<1>12. w.span[a] \in [1..h[p] -> Nat]
    <2>1. \A i \in 1..h[p] : w.span[a][i] \in Nat
        BY <1>10
    <2> QED BY <1>7, <2>1
<1> QED BY <1>10, <1>11, <1>12

(* Without the node, its links and spans are added to those of the nodes   *)
(* that led to it or over it (skiplist.go:156-164).                        *)
LEMMA LinkedTake ==
    ASSUME NEW z, NEW s, NEW h, NEW n, Placed(z, s, n), Tall(z, h, n), Linked(z, s, h, n),
           NEW j \in 1..n, NEW b, Foremost(b, s, h, j - 1), NEW w,
           w.forward = LinksWithout(z, b, s[j]), w.span = SpansWithout(z, b, s[j]),
           w.level \in Nat, w.level <= z.level, DOMAIN w.member = DOMAIN z.member \ {s[j]}
    PROVE  Linked(w, Take(s, n, j), Take(h, n, j), n - 1)
<1> DEFINE g == Take(s, n, j)
           t == Take(h, n, j)
<1>1. n \in Nat /\ j \in 1..n
    BY DEF Placed
<1>2. DOMAIN w.forward = Addresses(w) /\ DOMAIN w.span = Addresses(w)
    BY DEF LinksWithout, SpansWithout, Addresses
<1>3. ASSUME NEW q \in 0..n, q # j
      PROVE  /\ w.forward[s[q]] \in [1..h[q] -> Int] /\ w.span[s[q]] \in [1..h[q] -> Nat]
             /\ \A i \in 1..h[q] : Leads(w, g, t, n - 1, IF q < j THEN q ELSE q - 1, i)
    BY <1>3, LinksTake
<1>4. ASSUME NEW p \in 0..(n - 1)
      PROVE  \E q \in 0..n : q # j /\ g[p] = s[q] /\ t[p] = h[q] /\ p = IF q < j THEN q ELSE q - 1
    <2>1. CASE p < j
        <3>1. p \in 0..n /\ p # j /\ g[p] = s[p] /\ t[p] = h[p]
            BY <1>1, <2>1 DEF Take
        <3> QED BY <2>1, <3>1
    <2>2. CASE ~(p < j)
        <3>1. p + 1 \in 0..n /\ p + 1 # j /\ g[p] = s[p + 1] /\ t[p] = h[p + 1]
            BY <1>1, <2>2 DEF Take
        <3>2. ~(p + 1 < j) /\ (p + 1) - 1 = p
            BY <1>1, <2>2
        <3> QED BY <3>1, <3>2
    <2> QED BY <2>1, <2>2
<1> HIDE DEF g, t
<1>5. ASSUME NEW p \in 0..(n - 1)
      PROVE  /\ w.forward[g[p]] \in [1..t[p] -> Int] /\ w.span[g[p]] \in [1..t[p] -> Nat]
             /\ \A i \in 1..t[p] : Leads(w, g, t, n - 1, p, i)
    <2>1. PICK q \in 0..n : /\ q # j /\ g[p] = s[q] /\ t[p] = h[q]
                            /\ p = IF q < j THEN q ELSE q - 1
        BY <1>4
    <2> QED BY <1>3, <2>1
<1>6. Linked(w, g, t, n - 1)
    BY <1>2, <1>5 DEF Linked
<1> QED BY <1>6 DEF g, t

(* The other nodes keep their order when one is taken away.                *)
LEMMA PlacedTake ==
    ASSUME NEW z, NEW s, NEW n, Placed(z, s, n), NEW j \in 1..n,
           NEW w, DOMAIN w.member = DOMAIN z.member \ {s[j]}, w.length = z.length - 1
    PROVE  Placed(w, Take(s, n, j), n - 1)
<1> DEFINE g == Take(s, n, j)
           O(p) == IF p < j THEN p ELSE p + 1
<1>1. /\ n \in Nat /\ s \in [0..n -> Nat] /\ s[0] = Header /\ z.length = n
      /\ \A p, q \in 0..n : s[p] = s[q] => p = q
      /\ Addresses(z) = {s[p] : p \in 0..n}
    BY DEF Placed
<1>2. \A p \in 0..(n - 1) : O(p) \in 0..n /\ O(p) # j
    BY <1>1
<1>3. g = [p \in 0..(n - 1) |-> s[O(p)]]
    BY DEF Take
<1>4. \A p, q \in 0..(n - 1) : O(p) = O(q) => p = q
    BY <1>1
<1>5. \A q \in 0..n : q # j => \E p \in 0..(n - 1) : O(p) = q
    <2> SUFFICES ASSUME NEW q \in 0..n, q # j PROVE \E p \in 0..(n - 1) : O(p) = q
        OBVIOUS
    <2>1. CASE q < j
        <3>1. q \in 0..(n - 1) /\ O(q) = q
            BY <1>1, <2>1
        <3> QED BY <3>1
    <2>2. CASE q > j
        <3>1. q - 1 \in 0..(n - 1) /\ O(q - 1) = q
            BY <1>1, <2>2
        <3> QED BY <3>1
    <2> QED BY <1>1, <2>1, <2>2
<1>6. O(0) = 0
    BY <1>1
<1> HIDE DEF g, O
<1>7. g \in [0..(n - 1) -> Nat] /\ g[0] = Header
    BY <1>1, <1>2, <1>3, <1>6
<1>8. \A p, q \in 0..(n - 1) : g[p] = g[q] => p = q
    BY <1>1, <1>2, <1>3, <1>4
<1>9. Addresses(w) = {g[p] : p \in 0..(n - 1)}
    <2>1. Addresses(w) = Addresses(z) \ {s[j]} /\ j \in 0..n
        BY <1>1 DEF Addresses
    <2>2. ASSUME NEW p \in 0..(n - 1) PROVE g[p] \in Addresses(w)
        <3>1. g[p] = s[O(p)] /\ O(p) \in 0..n /\ O(p) # j
            BY <1>2, <1>3
        <3> QED BY <1>1, <2>1, <3>1
    <2>3. ASSUME NEW a \in Addresses(w) PROVE \E p \in 0..(n - 1) : a = g[p]
        <3>1. PICK q \in 0..n : a = s[q] /\ q # j
            BY <1>1, <2>1
        <3>2. PICK p \in 0..(n - 1) : O(p) = q
            BY <1>5, <3>1
        <3> QED BY <1>3, <3>1, <3>2
    <2> QED BY <2>2, <2>3
<1>10. n - 1 \in Nat /\ w.length = n - 1
    BY <1>1
<1>11. Placed(w, g, n - 1)
    BY <1>7, <1>8, <1>9, <1>10 DEF Placed
<1> QED BY <1>11 DEF g

(* Levels that have become empty are given up, and no others               *)
(* (skiplist.go:172-174).                                                  *)
LEMMA TallTake ==
    ASSUME NEW z, NEW s, NEW h, NEW n, Placed(z, s, n), Tall(z, h, n), Linked(z, s, h, n),
           NEW j \in 1..n, NEW b, Foremost(b, s, h, j - 1), NEW w,
           w.forward = LinksWithout(z, b, s[j]), w.span = SpansWithout(z, b, s[j]),
           w.level = Max({1} \cup {i \in 1..z.level : w.forward[Header][i] # Null})
    PROVE  w.level <= z.level /\ Tall(w, Take(h, n, j), n - 1)
<1> DEFINE g == Take(s, n, j)
           t == Take(h, n, j)
           S == {1} \cup {i \in 1..z.level : w.forward[Header][i] # Null}
           l == z.level
<1>1. /\ n \in Nat /\ l \in Levels /\ l \in Nat \ {0} /\ s[0] = Header /\ s \in [0..n -> Nat]
      /\ h \in [0..n -> Levels] /\ h[0] = SkipListMaxLevel /\ l <= SkipListMaxLevel
      /\ \A p \in 1..n : h[p] <= l
    <2>1. /\ n \in Nat /\ l \in Levels /\ s[0] = Header /\ s \in [0..n -> Nat]
          /\ h \in [0..n -> Levels] /\ h[0] = SkipListMaxLevel
          /\ \A p \in 1..n : h[p] <= l
        BY DEF Placed, Tall
    <2>2. l \in Nat \ {0} /\ l <= SkipListMaxLevel
        BY <2>1, ZSetAssumption DEF Levels
    <2> QED BY <2>1, <2>2
<1>2. \A r \in 0..n : h[r] \in Levels /\ h[r] \in Nat
    <2>1. Levels \subseteq Nat
        BY DEF Levels
    <2> QED BY <1>1, <2>1
<1>3. S \in SUBSET (1..l) /\ S \in SUBSET (0..l) /\ S # {}
    BY <1>1
<1>4. w.level \in S /\ \A i \in S : i <= w.level
    <2> HIDE DEF S
    <2>1. w.level = Max(S)
        BY DEF S
    <2> QED BY <1>1, <1>3, <2>1, GreatestIs
<1>5. w.level \in Nat /\ w.level <= l /\ w.level \in Levels
    <2>1. w.level \in 1..l
        BY <1>3, <1>4
    <2> QED BY <1>1, <2>1, ZSetAssumption DEF Levels
<1>6. t \in [0..(n - 1) -> Levels] /\ \A p \in 1..(n - 1) : t[p] <= l /\ t[p] \in 1..l
    <2>1. \A p \in 0..(n - 1) : p \in 0..n /\ p + 1 \in 0..n
        BY <1>1
    <2>2. t \in [0..(n - 1) -> Levels]
        BY <1>2, <2>1 DEF Take
    <2>3. \A p \in 1..(n - 1) : t[p] <= l
        <3>1. \A p \in 1..(n - 1) : p \in 0..(n - 1) /\ p \in 1..n /\ p + 1 \in 1..n
            BY <1>1
        <3> QED BY <1>1, <3>1 DEF Take
    <2>4. ASSUME NEW p \in 1..(n - 1) PROVE t[p] \in 1..l
        <3>1. t[p] \in Levels /\ t[p] <= l
            <4>1. p \in 0..(n - 1)
                OBVIOUS
            <4> QED BY <2>2, <2>3, <4>1
        <3> HIDE DEF t
        <3> QED BY <1>1, <3>1 DEF Levels
    <2> HIDE DEF t
    <2> QED BY <2>2, <2>3, <2>4
<1>7. t[0] = SkipListMaxLevel
    BY <1>1 DEF Take
<1>8. ASSUME NEW i \in 1..l
      PROVE  w.forward[Header][i] # Null <=> \E p \in 1..(n - 1) : t[p] >= i
    <2>1. Leads(w, g, t, n - 1, 0, i)
        <3>1. 0 \in 0..n /\ 0 # j /\ 0 < j /\ i \in 1..h[0]
            BY <1>1, ZSetAssumption
        <3>2. \A c \in 1..h[0] : Leads(w, g, t, n - 1, IF 0 < j THEN 0 ELSE 0 - 1, c)
            <4> HIDE DEF g, t
            <4> QED BY <1>5, <3>1, LinksTake DEF g, t
        <3> QED BY <3>1, <3>2
    <2>2. g[0] = Header
        BY <1>1 DEF Take
    <2>3. \A p \in 1..(n - 1) : g[p] \in Nat
        BY <1>1 DEF Take
    <2> HIDE DEF g, t
    <2>4. PICK q \in (0 + 1)..((n - 1) + 1) :
              NextUp(t, n - 1, i, 0, q) /\ w.forward[Header][i] = NodeAt(g, n - 1, q)
        BY <2>1, <2>2 DEF Leads
    <2>5. (q <= n - 1 => t[q] >= i) /\ \A r \in (0 + 1)..(q - 1) : t[r] < i
        BY <2>4 DEF NextUp
    <2>6. CASE q <= n - 1
        <3>1. q \in 1..(n - 1) /\ g[q] # Null
            BY <1>1, <2>3, <2>4, <2>6 DEF Null
        <3> QED BY <2>4, <2>5, <2>6, <3>1 DEF NodeAt
    <2>7. CASE ~(q <= n - 1)
        <3>1. q = n /\ q \notin 1..(n - 1)
            BY <1>1, <2>4, <2>7
        <3>2. \A p \in 1..(n - 1) : t[p] < i /\ t[p] \in Nat
            BY <1>1, <1>6, <2>5, <3>1
        <3>3. \A p \in 1..(n - 1) : ~(t[p] >= i)
            BY <3>2
        <3> QED BY <2>4, <3>1, <3>3 DEF NodeAt
    <2> QED BY <2>6, <2>7
<1> HIDE DEF g, t
<1>9. ASSUME NEW p \in 1..(n - 1) PROVE t[p] <= w.level
    <2>1. t[p] \in 1..l /\ t[p] >= t[p]
        BY <1>6
    <2>2. t[p] \in S
        BY <1>8, <2>1
    <2> QED BY <1>4, <2>2
<1>10. w.level = 1 \/ \E p \in 1..(n - 1) : t[p] = w.level
    <2> SUFFICES ASSUME w.level # 1 PROVE \E p \in 1..(n - 1) : t[p] = w.level
        OBVIOUS
    <2>1. w.level \in 1..l /\ w.forward[Header][w.level] # Null
        BY <1>4
    <2>2. PICK p \in 1..(n - 1) : t[p] >= w.level
        BY <1>8, <2>1
    <2>3. t[p] = w.level
        BY <1>5, <1>6, <1>9, <2>2
    <2> QED BY <2>3
<1>11. Tall(w, t, n - 1)
    BY <1>5, <1>6, <1>7, <1>9, <1>10 DEF Tall
<1> QED BY <1>5, <1>11 DEF t

(* No two nodes hold the same.                                             *)
LEMMA PairsDiffer ==
    ASSUME NEW z, NEW s, NEW n \in Nat, Ordered(z, s, n)
    PROVE  \A p, q \in 1..n :
              /\ z.score[s[p]] = z.score[s[q]] /\ z.member[s[p]] = z.member[s[q]] => p = q
              /\ Less(z, s[p], z.score[s[q]], z.member[s[q]]) <=> p < q
<1>1. Scores \subseteq Int /\ ZMembers \subseteq Int
    BY ZSetAssumption
<1>2. \A p \in 1..n : z.score[s[p]] \in Int /\ z.member[s[p]] \in Int
    BY <1>1 DEF Ordered
<1>3. \A p, q \in 1..n : p < q => Less(z, s[p], z.score[s[q]], z.member[s[q]])
    BY DEF Ordered
<1> SUFFICES ASSUME NEW p \in 1..n, NEW q \in 1..n
             PROVE  /\ z.score[s[p]] = z.score[s[q]] /\ z.member[s[p]] = z.member[s[q]] => p = q
                    /\ Less(z, s[p], z.score[s[q]], z.member[s[q]]) <=> p < q
    OBVIOUS
<1> DEFINE a == z.score[s[p]]
           b == z.score[s[q]]
           c == z.member[s[p]]
           d == z.member[s[q]]
<1>4. a \in Int /\ b \in Int /\ c \in Int /\ d \in Int
    BY <1>2
<1>10. a \in Scores /\ b \in Scores
    BY DEF Ordered
<1>5. Less(z, s[p], b, d) <=> (a < b \/ (a = b /\ c < d))
    BY <1>10, OrderMeans
<1>6. Less(z, s[q], a, c) <=> (b < a \/ (b = a /\ d < c))
    BY <1>10, OrderMeans
<1>7. (p < q => Less(z, s[p], b, d)) /\ (q < p => Less(z, s[q], a, c))
    BY <1>3
<1>9. p = q => a = b /\ c = d
    OBVIOUS
<1> HIDE DEF a, b, c, d
<1>8. (a = b /\ c = d => p = q) /\ (Less(z, s[p], b, d) <=> p < q)
    BY <1>4, <1>5, <1>6, <1>7, <1>9
<1> QED BY <1>8 DEF a, b, c, d

(* The order by score and member without the node.                         *)
LEMMA OrderedTake ==
    ASSUME NEW z, NEW s, NEW n, Placed(z, s, n), Ordered(z, s, n), NEW j \in 1..n, NEW w,
           w.member = [a \in Addresses(z) \ {s[j]} |-> z.member[a]],
           w.score = [a \in Addresses(z) \ {s[j]} |-> z.score[a]]
    PROVE  Ordered(w, Take(s, n, j), n - 1)
<1> DEFINE g == Take(s, n, j)
           O(p) == IF p < j THEN p ELSE p + 1
           A == Addresses(z) \ {s[j]}
<1>1. n \in Nat /\ s[0] = Header /\ \A p, q \in 0..n : s[p] = s[q] => p = q
    BY DEF Placed
<1>2. \A p \in 0..n : p # j => s[p] \in A
    <2>1. j \in 0..n /\ \A p \in 0..n : s[p] \in Addresses(z)
        BY <1>1, NodesAre
    <2> QED BY <1>1, <2>1
<1>3. \A a \in A : w.member[a] = z.member[a] /\ w.score[a] = z.score[a]
    OBVIOUS
<1>4. \A p \in 1..(n - 1) : O(p) \in 1..n /\ O(p) \in 0..n /\ O(p) # j /\ g[p] = s[O(p)]
    BY <1>1 DEF Take
<1>5. \A p, q \in 1..(n - 1) : p < q => O(p) < O(q)
    BY <1>1
<1> HIDE DEF g, O
<1>6. \A p \in 1..(n - 1) : w.member[g[p]] = z.member[s[O(p)]] /\ w.score[g[p]] = z.score[s[O(p)]]
    BY <1>2, <1>3, <1>4
<1>7. DOMAIN w.score = Addresses(w)
    BY DEF Addresses
<1>8. w.member[Header] = 0 /\ w.score[Header] = 0
    <2>1. Header \in A
        <3>1. 0 \in 0..n /\ 0 # j
            BY <1>1
        <3> QED BY <1>1, <1>2, <3>1
    <2> QED BY <1>3, <2>1 DEF Ordered
<1>9. \A p \in 1..(n - 1) : w.member[g[p]] \in ZMembers /\ w.score[g[p]] \in Scores
    BY <1>4, <1>6 DEF Ordered
<1>10. ASSUME NEW p \in 1..(n - 1), NEW q \in 1..(n - 1), p < q
       PROVE  Less(w, g[p], w.score[g[q]], w.member[g[q]])
    <2>1. O(p) < O(q) /\ O(p) \in 1..n /\ O(q) \in 1..n
        BY <1>4, <1>5, <1>10
    <2>2. Less(z, s[O(p)], z.score[s[O(q)]], z.member[s[O(q)]])
        BY <2>1 DEF Ordered
    <2> QED BY <1>6, <2>2 DEF Less
<1>11. Ordered(w, g, n - 1)
    BY <1>7, <1>8, <1>9, <1>10 DEF Ordered
<1> QED BY <1>11 DEF g

(* The backward link behind the node, or the tail (skiplist.go:166-170).   *)
LEMMA BackedTake ==
    ASSUME NEW z, NEW s, NEW n, Placed(z, s, n), Backed(z, s, n), NEW j \in 1..n,
           NEW after, after = NodeAt(s, n, j + 1), NEW w,
           DOMAIN w.member = DOMAIN z.member \ {s[j]},
           w.backward = [a \in Addresses(z) \ {s[j]} |->
                            IF a = after THEN z.backward[s[j]] ELSE z.backward[a]],
           w.tail = IF after = Null THEN z.backward[s[j]] ELSE z.tail
    PROVE  Backed(w, Take(s, n, j), n - 1)
<1> DEFINE g == Take(s, n, j)
<1>1. /\ n \in Nat /\ j \in 1..n /\ s \in [0..n -> Nat]
      /\ \A p, q \in 0..n : s[p] = s[q] => p = q
    BY DEF Placed
<1>2. \A p \in 0..n : p # j => s[p] \in Addresses(z) \ {s[j]}
    <2>1. j \in 0..n /\ \A p \in 0..n : s[p] \in Addresses(z)
        BY SMTT(30), <1>1, NodesAre
    <2> QED BY <1>1, <2>1
<1>3. \A p \in 0..n : z.backward[s[p]] = NodeAt(s, n, p - 1)
    BY DEF Backed
<1>4. /\ \A r \in 0..(j - 1) : g[r] = s[r]
      /\ \A r \in (j + 1)..n : g[r - 1] = s[r]
      /\ \A r \in j..(n - 1) : g[r] = s[r + 1]
    BY <1>1, TakeIs DEF Take
<1> HIDE DEF g
<1>5. z.backward[s[j]] = NodeAt(s, n, j - 1) /\ NodeAt(g, n - 1, j - 1) = NodeAt(s, n, j - 1)
    <2>1. j \in 0..n
        BY <1>1
    <2>2. NodeAt(g, n - 1, j - 1) = NodeAt(s, n, j - 1)
        BY <1>1, <1>4 DEF NodeAt
    <2> QED BY <1>3, <2>1, <2>2
<1>6. \A p \in 0..n : s[p] = after <=> p = j + 1
    <2>1. CASE j < n
        <3>1. after = s[j + 1] /\ j + 1 \in 0..n
            BY <1>1, <2>1 DEF NodeAt
        <3> QED BY <1>1, <3>1
    <2>2. CASE j = n
        <3>1. after = Null
            BY <1>1, <2>2 DEF NodeAt
        <3>2. \A p \in 0..n : s[p] # Null /\ p # j + 1
            BY <1>1, <2>2 DEF Null
        <3> QED BY <3>1, <3>2
    <2> QED BY <1>1, <2>1, <2>2
<1>7. ASSUME NEW p \in 0..(n - 1) PROVE w.backward[g[p]] = NodeAt(g, n - 1, p - 1)
    <2>1. CASE p < j
        <3>1. p \in 0..n /\ g[p] = s[p] /\ p # j + 1 /\ p # j
            BY <1>1, <1>4, <2>1
        <3>2. NodeAt(g, n - 1, p - 1) = NodeAt(s, n, p - 1)
            BY <1>1, <1>4, <2>1 DEF NodeAt
        <3> QED BY <1>2, <1>3, <1>6, <3>1, <3>2
    <2>2. CASE p = j
        <3>1. p + 1 \in 0..n /\ g[p] = s[p + 1] /\ p + 1 = j + 1 /\ p + 1 # j
            BY <1>1, <1>4, <2>2
        <3> QED BY <1>2, <1>5, <1>6, <2>2, <3>1
    <2>3. CASE p > j
        <3>1. p + 1 \in 0..n /\ g[p] = s[p + 1] /\ p + 1 # j + 1 /\ p + 1 # j /\ (p + 1) - 1 = p
            <4>1. p \in j..(n - 1)
                BY <1>1, <2>3
            <4>2. g[p] = s[p + 1]
                BY <1>4, <4>1
            <4> QED BY <1>1, <2>3, <4>2
        <3>2. NodeAt(g, n - 1, p - 1) = NodeAt(s, n, p)
            <4>1. p \in (j + 1)..n /\ p \in 1..n /\ p - 1 \in 1..(n - 1)
                BY <1>1, <2>3
            <4> QED BY <1>4, <4>1 DEF NodeAt
        <3> QED BY <1>2, <1>3, <1>6, <3>1, <3>2
    <2> QED BY <1>1, <2>1, <2>2, <2>3
<1>8. w.tail = NodeAt(g, n - 1, n - 1)
    <2>1. CASE j < n
        <3>1. after # Null
            BY <1>1, <2>1 DEF NodeAt, Null
        <3>2. g[n - 1] = s[n] /\ n \in 1..n /\ n - 1 \in 1..(n - 1)
            BY <1>1, <1>4, <2>1
        <3> QED BY <3>1, <3>2 DEF NodeAt, Backed
    <2>2. CASE j = n
        <3>1. after = Null
            BY <1>1, <2>2 DEF NodeAt
        <3> QED BY <1>5, <2>2, <3>1
    <2> QED BY <1>1, <2>1, <2>2
<1>9. DOMAIN w.backward = Addresses(w)
    BY DEF Addresses
<1>10. Backed(w, g, n - 1)
    BY <1>7, <1>8, <1>9 DEF Backed
<1> QED BY <1>10 DEF g

(* Delete takes away the node that holds what it looks for, and no other.  *)
LEMMA DeleteIs ==
    ASSUME NEW z, NEW s, NEW h, NEW n, Listed(z, s, h, n), NEW sc \in Scores,
           NEW m \in ZMembers, <<m, sc>> \in MemberScores(z)
    PROVE  /\ n - 1 \in Nat /\ \E g, t : Listed(Delete(z, sc, m), g, t, n - 1)
           /\ MemberScores(Delete(z, sc, m)) = MemberScores(z) \ {<<m, sc>>}
           /\ Delete(z, sc, m).bound = z.bound /\ Delete(z, sc, m).dict = z.dict
<1> DEFINE w == Delete(z, sc, m)
           b == Before(z, sc, m)
<1>1. /\ Placed(z, s, n) /\ Tall(z, h, n) /\ Linked(z, s, h, n)
      /\ Ordered(z, s, n) /\ Backed(z, s, n)
    BY DEF Listed
<1>2. /\ n \in Nat /\ s \in [0..n -> Nat] /\ \A p \in 0..n : h[p] \in Levels
      /\ \A p, q \in 0..n : s[p] = s[q] => p = q
    BY <1>1 DEF Placed, Tall
<1>3. PICK j \in 1..n : z.member[s[j]] = m /\ z.score[s[j]] = sc
    BY <1>1, NodesAre DEF MemberScores
<1>4. PICK k \in 0..n : /\ \A q \in 1..n : q <= k <=> Less(z, s[q], sc, m)
                        /\ Foremost(b, s, h, k)
    BY <1>1, BeforeIs
<1>5. k = j - 1
    <2>1. \A q \in 1..n : q <= k <=> q < j
        BY <1>1, <1>2, <1>3, <1>4, PairsDiffer
    <2>2. k \in 1..n \/ k = 0
        BY <1>2
    <2>3. j - 1 \in 1..n \/ j - 1 = 0
        BY <1>2
    <2>4. ~(j <= k)
        <3>1. ~(j < j) /\ j \in 1..n
            BY <1>2
        <3> QED BY <2>1, <3>1
    <2>5. ASSUME k \in 1..n PROVE k < j
        <3>1. k <= k
            BY <1>2
        <3> QED BY <2>1, <2>5, <3>1
    <2>6. ASSUME j - 1 \in 1..n PROVE j - 1 <= k
        <3>1. j - 1 < j
            BY <1>2
        <3> QED BY <2>1, <2>6, <3>1
    <2> QED BY <1>2, <2>2, <2>3, <2>4, <2>5, <2>6
<1> DEFINE x == s[j]
           after == NodeAt(s, n, j + 1)
<1>6. z.forward[b[1][1]][1] = x
    <2>1. b[1] = <<s[k], k>>
        <3>1. n \in Nat /\ \A p \in 0..n : h[p] \in Levels
            BY <1>2
        <3>2. k \in 0..n /\ Foremost(b, s, h, k)
            BY <1>4
        <3> HIDE DEF b
        <3> QED BY ONLY <3>1, <3>2, ForemostIs
    <2>2. z.forward[s[k]][1] = NodeAt(s, n, k + 1)
        BY <1>1, LowestIs
    <2>3. NodeAt(s, n, k + 1) = x
        BY <1>2, <1>5 DEF NodeAt
    <2> HIDE DEF b
    <2> QED BY <2>1, <2>2, <2>3
<1>7. z.forward[x][1] = after
    <2>1. j \in 0..n
        BY <1>2
    <2> QED BY <1>1, <2>1, LowestIs
<1>8. w = DeleteNode(z, x, b)
    <2>1. x # Null
        BY <1>2 DEF Null
    <2>2. z.score[x] \in Scores /\ z.score[x] = sc /\ z.member[x] = m
        BY <1>1, <1>3 DEF Ordered
    <2>3. Same(z.score[x], sc)
        BY <2>2, NumbersCompare
    <2> HIDE DEF x
    <2> QED BY <1>6, <2>1, <2>2, <2>3 DEF Delete
<1> HIDE DEF b, w
<1>9. /\ Shaped(w) /\ w.bound = z.bound /\ w.dict = z.dict
      /\ w.member = [a \in Addresses(z) \ {x} |-> z.member[a]]
      /\ w.score = [a \in Addresses(z) \ {x} |-> z.score[a]]
      /\ w.backward = [a \in Addresses(z) \ {x} |->
                          IF a = after THEN z.backward[x] ELSE z.backward[a]]
      /\ w.forward = LinksWithout(z, b, x) /\ w.span = SpansWithout(z, b, x)
      /\ w.tail = (IF after = Null THEN z.backward[x] ELSE z.tail)
      /\ w.length = z.length - 1
      /\ w.level = Max({1} \cup {i \in 1..z.level : w.forward[Header][i] # Null})
    <2> HIDE DEF after, x
    <2> QED BY <1>7, <1>8 DEF DeleteNode, Shaped
<1>10. DOMAIN w.member = DOMAIN z.member \ {x}
    BY <1>9 DEF Addresses
<1> DEFINE g == Take(s, n, j)
           t == Take(h, n, j)
<1>11. Placed(w, g, n - 1)
    BY <1>1, <1>9, <1>10, PlacedTake
<1>12. Foremost(b, s, h, j - 1)
    BY <1>4, <1>5
<1>13. w.level <= z.level /\ Tall(w, t, n - 1)
    BY <1>1, <1>9, <1>12, TallTake
<1>14. Linked(w, g, t, n - 1)
    <2>1. w.level \in Nat
        BY <1>13 DEF Tall, Levels
    <2> QED BY <1>1, <1>9, <1>10, <1>12, <1>13, <2>1, LinkedTake
<1>15. Ordered(w, g, n - 1)
    BY <1>1, <1>9, OrderedTake
<1>16. Backed(w, g, n - 1)
    <2>1. DOMAIN w.member = DOMAIN z.member \ {s[j]}
        BY <1>1, <1>10
    <2>2. w.backward = [a \in Addresses(z) \ {s[j]} |->
                           IF a = after THEN z.backward[s[j]] ELSE z.backward[a]]
        BY <1>1, <1>9
    <2>3. w.tail = IF after = Null THEN z.backward[s[j]] ELSE z.tail
        BY <1>1, <1>9
    <2>4. Placed(z, s, n) /\ Backed(z, s, n) /\ j \in 1..n /\ after = NodeAt(s, n, j + 1)
        BY <1>1
    <2> QED BY ONLY <2>1, <2>2, <2>3, <2>4, BackedTake
<1>17. Listed(w, g, t, n - 1)
    BY <1>9, <1>11, <1>13, <1>14, <1>15, <1>16 DEF Listed
<1>18. MemberScores(w) = MemberScores(z) \ {<<m, sc>>}
    <2>1. NodesOf(w) = NodesOf(z) \ {x}
        BY <1>10 DEF NodesOf, Addresses
    <2>2. \A a \in NodesOf(z) \ {x} : w.member[a] = z.member[a] /\ w.score[a] = z.score[a]
        BY <1>9 DEF NodesOf
    <2>3. \A a \in NodesOf(z) \ {x} : z.member[a] # m \/ z.score[a] # sc
        <3>1. \A a \in NodesOf(z) : \E p \in 1..n : a = s[p]
            BY <1>1, NodesAre
        <3>2. \A p \in 1..n : z.member[s[p]] = m /\ z.score[s[p]] = sc => p = j
            <4>1. \A p, q \in 1..n :
                     z.score[s[p]] = z.score[s[q]] /\ z.member[s[p]] = z.member[s[q]] => p = q
                <5>1. n \in Nat /\ Ordered(z, s, n)
                    BY <1>1, <1>2
                <5> QED BY ONLY <5>1, PairsDiffer
            <4> QED BY <1>3, <4>1
        <3> QED BY <3>1, <3>2
    <2>4. x \in NodesOf(z)
        BY <1>1, NodesAre
    <2> HIDE DEF x
    <2>5. z.member[x] = m /\ z.score[x] = sc
        BY <1>3 DEF x
    <2> QED BY <2>1, <2>2, <2>3, <2>4, <2>5 DEF MemberScores
<1>19. n - 1 \in Nat
    BY <1>2
<1> QED BY <1>9, <1>17, <1>18, <1>19 DEF w
-----------------------------------------------------------------------------
(* Sorted sets: ranks: GetRank and GetNodeByRank.                          *)

(* The map has what the list has.                                          *)
Kept(z) ==
    /\ DOMAIN z.dict \subseteq ZMembers /\ z.dict \in [DOMAIN z.dict -> Scores]
    /\ MemberScores(z) = {<<m, z.dict[m]>> : m \in DOMAIN z.dict}

(* e is the members of a map, in the order of scores and members.          *)
Enumerated(d, e, n) ==
    /\ n \in Nat /\ e \in [1..n -> ZMembers] /\ DOMAIN d = {e[p] : p \in 1..n}
    /\ \A p, q \in 1..n : p < q => d[e[p]] < d[e[q]] \/ (d[e[p]] = d[e[q]] /\ e[p] < e[q])
    /\ \A p \in 1..n : d[e[p]] \in Int

(* Its scores are those of the nodes.                                      *)
Scored(z, s, e, n) == \A p \in 1..n : z.dict[e[p]] = z.score[s[p]]

(* The members of the nodes, in their order, are those of the map, each    *)
(* once.                                                                   *)
LEMMA EnumeratedIs ==
    ASSUME NEW z, NEW s, NEW h, NEW n, Listed(z, s, h, n), Kept(z), NEW e,
           e = [p \in 1..n |-> z.member[s[p]]]
    PROVE  /\ Enumerated(z.dict, e, n) /\ Scored(z, s, e, n)
           /\ \A p, q \in 1..n : z.member[s[p]] = z.member[s[q]] => p = q
<1>1. Placed(z, s, n) /\ Ordered(z, s, n) /\ n \in Nat
    BY DEF Listed, Placed
<1>2. MemberScores(z) = {<<e[p], z.score[s[p]]>> : p \in 1..n}
    <2>1. NodesOf(z) = {s[p] : p \in 1..n}
        BY <1>1, NodesAre
    <2> QED BY <2>1 DEF MemberScores
<1>3. \A p \in 1..n : e[p] \in DOMAIN z.dict /\ z.dict[e[p]] = z.score[s[p]]
    <2> SUFFICES ASSUME NEW p \in 1..n
                 PROVE  e[p] \in DOMAIN z.dict /\ z.dict[e[p]] = z.score[s[p]]
        OBVIOUS
    <2>1. <<e[p], z.score[s[p]]>> \in {<<m, z.dict[m]>> : m \in DOMAIN z.dict}
        BY <1>2 DEF Kept
    <2>2. PICK m \in DOMAIN z.dict : <<e[p], z.score[s[p]]>> = <<m, z.dict[m]>>
        BY <2>1
    <2> QED BY <2>2
<1>4. \A m \in DOMAIN z.dict : \E p \in 1..n : m = e[p]
    <2> SUFFICES ASSUME NEW m \in DOMAIN z.dict PROVE \E p \in 1..n : m = e[p]
        OBVIOUS
    <2>1. <<m, z.dict[m]>> \in {<<e[p], z.score[s[p]]>> : p \in 1..n}
        BY <1>2 DEF Kept
    <2>2. PICK p \in 1..n : <<m, z.dict[m]>> = <<e[p], z.score[s[p]]>>
        BY <2>1
    <2> QED BY <2>2
<1>5. DOMAIN z.dict = {e[p] : p \in 1..n}
    BY <1>3, <1>4
<1>6. e \in [1..n -> ZMembers]
    BY <1>1 DEF Ordered
<1>7. \A p, q \in 1..n : p < q => \/ z.dict[e[p]] < z.dict[e[q]]
                                  \/ z.dict[e[p]] = z.dict[e[q]] /\ e[p] < e[q]
    <2>1. \A p, q \in 1..n : p < q => \/ z.score[s[p]] < z.score[s[q]]
                                      \/ z.score[s[p]] = z.score[s[q]] /\ z.member[s[p]] < z.member[s[q]]
        BY <1>1, OrderMeans
    <2>2. \A p \in 1..n : e[p] = z.member[s[p]]
        OBVIOUS
    <2> QED BY <1>3, <2>1, <2>2
<1>8. \A p \in 1..n : z.dict[e[p]] \in Int
    <2>1. \A p \in 1..n : z.score[s[p]] \in Scores
        BY <1>1 DEF Ordered
    <2> QED BY <1>3, <2>1, ZSetAssumption
<1>9. \A p, q \in 1..n : z.member[s[p]] = z.member[s[q]] => p = q
    <2> SUFFICES ASSUME NEW p \in 1..n, NEW q \in 1..n, z.member[s[p]] = z.member[s[q]]
                 PROVE  p = q
        OBVIOUS
    <2>1. e[p] = e[q]
        OBVIOUS
    <2>2. z.score[s[p]] = z.score[s[q]]
        BY <1>3, <2>1
    <2> QED BY <1>1, <2>2, PairsDiffer
<1>10. Enumerated(z.dict, e, n)
    BY <1>1, <1>5, <1>6, <1>7, <1>8 DEF Enumerated
<1>11. Scored(z, s, e, n)
    BY <1>3 DEF Scored
<1> QED BY <1>9, <1>10, <1>11

(* The places of an enumeration are as many as its members.                *)
LEMMA EnumeratedDiffer ==
    ASSUME NEW d, NEW e, NEW n, Enumerated(d, e, n)
    PROVE  /\ \A p, q \in 1..n : e[p] = e[q] => p = q
           /\ IsFiniteSet(DOMAIN d) /\ Cardinality(DOMAIN d) = n
<1>1. /\ n \in Nat /\ DOMAIN d = {e[p] : p \in 1..n}
      /\ \A p \in 1..n : e[p] \in Int /\ d[e[p]] \in Int
      /\ \A p, q \in 1..n : p < q => d[e[p]] < d[e[q]] \/ (d[e[p]] = d[e[q]] /\ e[p] < e[q])
    <2>1. e \in [1..n -> ZMembers] /\ ZMembers \subseteq Int
        BY ZSetAssumption DEF Enumerated
    <2>2. \A p \in 1..n : e[p] \in Int
        BY <2>1
    <2> QED BY <2>2 DEF Enumerated
<1>2. ASSUME NEW p \in 1..n, NEW q \in 1..n, e[p] = e[q] PROVE ~(p < q)
    <2>1. d[e[p]] = d[e[q]] /\ ~(e[p] < e[q]) /\ ~(d[e[p]] < d[e[q]])
        <3>1. ~(e[p] < e[p]) /\ ~(d[e[p]] < d[e[p]])
            BY <1>1
        <3> QED BY <1>2, <3>1
    <2> QED BY <1>1, <2>1
<1>3. \A p, q \in 1..n : e[p] = e[q] => p = q
    <2> SUFFICES ASSUME NEW p \in 1..n, NEW q \in 1..n, e[p] = e[q] PROVE p = q
        OBVIOUS
    <2>1. ~(p < q) /\ ~(q < p)
        BY <1>2
    <2> QED BY <2>1
<1>4. IsFiniteSet({e[p] : p \in 1..n}) /\ Cardinality({e[p] : p \in 1..n}) = n
    BY SMTT(30), <1>1, <1>3, CountedIs
<1> QED BY <1>1, <1>3, <1>4

(* The abstract module counts as this one does.                            *)
LEMMA ZSetSameSize == ASSUME NEW S PROVE ZAbs!Cardinality(S) = Cardinality(S)
    BY Zenon DEF ZAbs!Cardinality, Cardinality

(* The rank of a member is its place.                                      *)
LEMMA RankIs ==
    ASSUME NEW e, NEW n, Enumerated(zset.dict, e, n), NEW j \in 1..n
    PROVE  ZAbs!Rank(e[j]) = j - 1
<1> DEFINE d == zset.dict
           S == {x \in DOMAIN d : d[x] < d[e[j]] \/ (d[x] = d[e[j]] /\ x < e[j])}
<1>1. /\ n \in Nat /\ DOMAIN d = {e[p] : p \in 1..n}
      /\ \A p \in 1..n : e[p] \in Int /\ d[e[p]] \in Int
      /\ \A p, q \in 1..n : p < q => d[e[p]] < d[e[q]] \/ (d[e[p]] = d[e[q]] /\ e[p] < e[q])
    <2>1. e \in [1..n -> ZMembers] /\ ZMembers \subseteq Int
        BY ZSetAssumption DEF Enumerated
    <2>2. \A p \in 1..n : e[p] \in Int
        BY <2>1
    <2> QED BY <2>2 DEF Enumerated
<1>2. \A p, q \in 1..n : e[p] = e[q] => p = q
    BY EnumeratedDiffer
<1>3. ZAbs!Rank(e[j]) = Cardinality(S)
    <2>1. ZAbs!Rank(e[j]) = ZAbs!Cardinality(S)
        BY DEF ZAbs!Rank, ZAbs!Members, ZAbs!Precedes
    <2> QED BY <2>1, ZSetSameSize
<1>4. S = {e[p] : p \in 1..(j - 1)}
    <2>1. ASSUME NEW p \in 1..n PROVE e[p] \in S <=> p < j
        <3> DEFINE a == d[e[p]]
                   b == d[e[j]]
        <3>1. a \in Int /\ b \in Int /\ e[p] \in Int /\ e[j] \in Int
            BY <1>1
        <3>2. e[p] \in DOMAIN d
            BY <1>1
        <3>3. e[p] \in S <=> a < b \/ (a = b /\ e[p] < e[j])
            BY <3>2
        <3>4. p < j => a < b \/ (a = b /\ e[p] < e[j])
            BY <1>1
        <3>5. j < p => b < a \/ (b = a /\ e[j] < e[p])
            BY <1>1
        <3>6. p = j => a = b /\ e[p] = e[j]
            OBVIOUS
        <3> HIDE DEF a, b, d, S
        <3> QED BY <3>1, <3>3, <3>4, <3>5, <3>6
    <2>2. \A x \in S : \E p \in 1..n : x = e[p]
        BY <1>1
    <2> HIDE DEF S
    <2>3. ASSUME NEW x \in S PROVE \E p \in 1..(j - 1) : x = e[p]
        <3>1. PICK p \in 1..n : x = e[p]
            BY <2>2
        <3>2. p < j
            BY <2>1, <3>1
        <3>3. p \in 1..(j - 1)
            BY <3>2
        <3> QED BY <3>1, <3>3
    <2>4. ASSUME NEW p \in 1..(j - 1) PROVE e[p] \in S
        <3>1. p \in 1..n /\ p < j
            BY <1>1
        <3> QED BY <2>1, <3>1
    <2> QED BY <2>3, <2>4
<1> HIDE DEF S
<1>5. j - 1 \in Nat /\ \A p \in 1..(j - 1) : p \in 1..n
    BY <1>1
<1>6. Cardinality({e[p] : p \in 1..(j - 1)}) = j - 1
    <2>1. \A p, q \in 1..(j - 1) : e[p] = e[q] => p = q
        BY <1>2, <1>5
    <2> QED BY <1>5, <2>1, CountedIs
<1> QED BY <1>3, <1>4, <1>6

(* And the members in order are the enumeration.                           *)
LEMMA InOrderIs ==
    ASSUME NEW e, NEW n, Enumerated(zset.dict, e, n)
    PROVE  ZAbs!InOrder = e
<1>1. n \in Nat /\ e \in [1..n -> ZMembers] /\ DOMAIN zset.dict = {e[p] : p \in 1..n}
    BY DEF Enumerated
<1>2. ZAbs!Members = DOMAIN zset.dict
    BY DEF ZAbs!Members
<1>3. ZAbs!Cardinality(ZAbs!Members) = n
    BY <1>2, ZSetSameSize, EnumeratedDiffer
<1>4. \A p \in 1..n : ZAbs!Rank(e[p]) = p - 1
    BY RankIs
<1>5. ASSUME NEW i \in 1..n PROVE (CHOOSE m \in ZAbs!Members : ZAbs!Rank(m) = i - 1) = e[i]
    <2>1. e[i] \in ZAbs!Members /\ ZAbs!Rank(e[i]) = i - 1
        BY <1>1, <1>2, <1>4
    <2>2. ASSUME NEW m \in ZAbs!Members, ZAbs!Rank(m) = i - 1 PROVE m = e[i]
        <3>1. PICK p \in 1..n : m = e[p]
            BY <1>1, <1>2
        <3>2. p - 1 = i - 1
            BY <1>4, <2>2, <3>1
        <3>3. p = i
            BY <3>2
        <3> QED BY <3>1, <3>3
    <2> QED BY <2>1, <2>2
<1>6. ZAbs!InOrder = [i \in 1..n |-> CHOOSE m \in ZAbs!Members : ZAbs!Rank(m) = i - 1]
    BY <1>3 DEF ZAbs!InOrder
<1>7. e = [i \in 1..n |-> e[i]]
    BY <1>1
<1> QED BY <1>5, <1>6, <1>7

(* GetRank finds the place of a member; of the empty one, perhaps not.     *)
LEMMA GetRankIs ==
    ASSUME NEW z, NEW s, NEW h, NEW n, Listed(z, s, h, n), NEW j \in 1..n,
           \A p, q \in 1..n : z.member[s[p]] = z.member[s[q]] => p = q,
           NEW sc, sc = z.score[s[j]], NEW m, m = z.member[s[j]]
    PROVE  GetRank(z, sc, m) = j \/ (m = 0 /\ GetRank(z, sc, m) = 0)
<1> DEFINE P == {y \in NodesOf(z) : Less(z, y, sc, m) \/ (Same(z.score[y], sc) /\ z.member[y] = m)}
           at == Descent(z, P \X Nat)
           S == {i \in 1..z.level : z.member[at[i][1]] = m}
<1>1. /\ Placed(z, s, n) /\ Tall(z, h, n) /\ Linked(z, s, h, n) /\ Ordered(z, s, n)
      /\ n \in Nat /\ j \in 0..n /\ j \in Nat /\ s[0] = Header /\ z.member[Header] = 0
    BY DEF Listed, Placed, Ordered
<1>2. GetRank(z, sc, m) = IF S = {} THEN 0 ELSE at[Max(S)][2]
    BY DEF GetRank
<1>3. \A q \in 1..n : q <= j <=> s[q] \in P
    <2>1. \A q \in 1..n : s[q] \in NodesOf(z)
        BY <1>1, NodesAre
    <2>2. \A q \in 1..n : z.score[s[q]] \in Int /\ z.member[s[q]] \in Int
        <3>1. Scores \subseteq Int /\ ZMembers \subseteq Int
            BY ZSetAssumption
        <3> QED BY <1>1, <3>1 DEF Ordered
    <2>3. \A p, q \in 1..n : p < q => \/ z.score[s[p]] < z.score[s[q]]
                                      \/ z.score[s[p]] = z.score[s[q]] /\ z.member[s[p]] < z.member[s[q]]
        BY <1>1, OrderMeans
    <2> SUFFICES ASSUME NEW q \in 1..n
                 PROVE  q <= j <=> (Less(z, s[q], sc, m) \/ (Same(z.score[s[q]], sc) /\ z.member[s[q]] = m))
        BY <2>1
    <2> DEFINE a == z.score[s[q]]
               c == z.member[s[q]]
    <2>4. a \in Int /\ c \in Int /\ sc \in Int /\ m \in Int
        BY <2>2
    <2>9. a \in Scores /\ sc \in Scores
        BY <1>1 DEF Ordered
    <2>5. /\ Less(z, s[q], sc, m) <=> a < sc \/ (a = sc /\ c < m)
          /\ Same(a, sc) <=> a = sc
        <3>1. Same(a, sc) <=> a = sc
            BY <2>9, NumbersCompare
        <3>2. Less(z, s[q], sc, m) <=> a < sc \/ (a = sc /\ c < m)
            <4>1. \A k \in Scores : \A l : Less(z, s[q], k, l) <=> a < k \/ (a = k /\ c < l)
                BY <1>1, OrderMeans
            <4> QED BY <2>9, <4>1
        <3> QED BY <3>1, <3>2
    <2>6. (q < j => a < sc \/ (a = sc /\ c < m)) /\ (j < q => sc < a \/ (sc = a /\ m < c))
        BY <2>3
    <2>7. q = j => a = sc /\ c = m
        OBVIOUS
    <2> HIDE DEF a, c
    <2>8. q <= j <=> (a < sc \/ (a = sc /\ c < m)) \/ (a = sc /\ c = m)
        BY <1>1, <2>4, <2>6, <2>7
    <2> QED BY <2>5, <2>8 DEF a, c
<1>4. Covers(P \X Nat, s, n, j)
    <2>1. NodesOf(z) \cap P = P
        OBVIOUS
    <2> HIDE DEF P
    <2>2. Covers((NodesOf(z) \cap P) \X Nat, s, n, j)
        BY <1>1, <1>3, SearchFor
    <2> QED BY <2>1, <2>2
<1>5. \A i \in 1..z.level : \E p : LastUp(h, i, j, p) /\ at[i] = <<s[p], p>>
    <2> DEFINE G == P \X Nat
    <2>1. Covers(G, s, n, j)
        BY <1>4
    <2> HIDE DEF G
    <2>2. \A i \in 1..z.level : \E p : LastUp(h, i, j, p) /\ Descent(z, G)[i] = <<s[p], p>>
        BY <1>1, <2>1, DescentIs
    <2> QED BY <2>2 DEF G
<1> HIDE DEF P, at
<1>6. z.level \in Nat /\ 1 \in 1..z.level /\ \A p \in 0..n : h[p] \in Nat /\ ~(h[p] < 1)
    <2>1. SkipListMaxLevel \in Nat
        BY ZSetAssumption
    <2>2. \A i \in Levels : i \in Nat /\ ~(i < 1) /\ 1 \in 1..i
        BY <2>1 DEF Levels
    <2>3. z.level \in Levels /\ \A p \in 0..n : h[p] \in Levels
        BY <1>1 DEF Tall
    <2> QED BY <2>2, <2>3
<1>7. 1 \in S
    <2>1. PICK p : LastUp(h, 1, j, p) /\ at[1] = <<s[p], p>>
        BY <1>5, <1>6
    <2>2. p = j
        <3>1. p \in 0..j /\ \A r \in (p + 1)..j : h[r] < 1
            BY <2>1 DEF LastUp
        <3>2. p < j => j \in (p + 1)..j
            BY <1>1, <3>1
        <3>3. ~(h[j] < 1)
            BY <1>1, <1>6
        <3> QED BY <1>1, <3>1, <3>2, <3>3
    <2> QED BY <1>6, <2>1, <2>2
<1>8. Max(S) \in S
    <2>1. S \in SUBSET (0..z.level) /\ S # {}
        BY <1>6, <1>7
    <2> HIDE DEF S
    <2> QED BY <1>6, <2>1, GreatestIs
<1>9. PICK p : LastUp(h, Max(S), j, p) /\ at[Max(S)] = <<s[p], p>>
    <2> DEFINE i == Max(S)
    <2>1. i \in 1..z.level
        BY <1>8
    <2> HIDE DEF i
    <2>2. \E p : LastUp(h, i, j, p) /\ at[i] = <<s[p], p>>
        BY <1>5, <2>1
    <2> QED BY <2>2 DEF i
<1>10. p \in 0..j /\ GetRank(z, sc, m) = p /\ z.member[s[p]] = m
    <2>1. p \in 0..j
        BY <1>9 DEF LastUp
    <2>2. z.member[at[Max(S)][1]] = m
        BY <1>8
    <2>3. S # {}
        BY <1>7
    <2> HIDE DEF S
    <2>4. at[Max(S)][2] = p /\ at[Max(S)][1] = s[p]
        BY <1>9
    <2> QED BY <1>2, <2>1, <2>2, <2>3, <2>4
<1>11. p \in 1..n => p = j
    BY <1>10
<1>12. CASE p = 0
    BY <1>1, <1>10, <1>12
<1>13. CASE p # 0
    <2>1. p \in 1..n
        BY <1>1, <1>10, <1>13
    <2> QED BY <1>10, <1>11, <2>1
<1> QED BY <1>12, <1>13

(* GetNodeByRank finds the node at a place, if there is such a place.      *)
LEMMA GetNodeByRankIs ==
    ASSUME NEW z, NEW s, NEW h, NEW n, Listed(z, s, h, n), NEW r \in Int
    PROVE  r \in 1..n => GetNodeByRank(z, r) = s[r]
<1> SUFFICES ASSUME r \in 1..n PROVE GetNodeByRank(z, r) = s[r]
    OBVIOUS
<1> DEFINE G == NodesOf(z) \X (0..r)
           at == Descent(z, G)
           S == {i \in 1..z.level : at[i][2] = r}
<1>1. /\ Placed(z, s, n) /\ Tall(z, h, n) /\ Linked(z, s, h, n)
      /\ n \in Nat /\ r \in 0..n /\ r \in Nat /\ r # 0 /\ z.length = n /\ ~(r > n)
    BY DEF Listed, Placed
<1>2. GetNodeByRank(z, r) = IF S = {} THEN Null ELSE at[Max(S)][1]
    BY <1>1 DEF GetNodeByRank
<1>3. Covers(G, s, n, r)
    <2>1. NodesOf(z) \subseteq Nat /\ \A q \in 1..n : s[q] \in NodesOf(z)
        BY <1>1, NodesAre
    <2>2. \A q \in 1..n : q <= r <=> q \in 0..r
        BY <1>1
    <2>3. Null \notin Nat
        BY DEF Null
    <2> QED BY <2>1, <2>2, <2>3 DEF Covers
<1> HIDE DEF G
<1>4. \A i \in 1..z.level : \E p : LastUp(h, i, r, p) /\ at[i] = <<s[p], p>>
    BY <1>1, <1>3, DescentIs
<1> HIDE DEF at
<1>5. z.level \in Nat /\ 1 \in 1..z.level /\ \A p \in 0..n : h[p] \in Nat /\ ~(h[p] < 1)
    BY <1>1, ZSetAssumption DEF Tall, Levels
<1>6. 1 \in S
    <2>1. PICK p : LastUp(h, 1, r, p) /\ at[1] = <<s[p], p>>
        BY <1>4, <1>5
    <2>2. p = r
        <3>1. p \in 0..r /\ \A q \in (p + 1)..r : h[q] < 1
            BY <2>1 DEF LastUp
        <3>2. p < r => r \in (p + 1)..r
            BY <1>1, <3>1
        <3>3. ~(h[r] < 1)
            BY <1>1, <1>5
        <3> QED BY <1>1, <3>1, <3>2, <3>3
    <2> QED BY <1>5, <2>1, <2>2
<1>7. Max(S) \in S
    <2>1. S \in SUBSET (0..z.level) /\ S # {}
        BY <1>5, <1>6
    <2> HIDE DEF S
    <2> QED BY <1>5, <2>1, GreatestIs
<1> DEFINE i == Max(S)
<1>8. i \in 1..z.level /\ at[i][2] = r
    BY <1>7
<1>9. GetNodeByRank(z, r) = at[i][1]
    <2>1. S # {}
        BY <1>6
    <2> QED BY <1>2, <2>1
<1> HIDE DEF i
<1>10. PICK p : LastUp(h, i, r, p) /\ at[i] = <<s[p], p>>
    BY <1>4, <1>8
<1> QED BY <1>8, <1>9, <1>10
-----------------------------------------------------------------------------
(* Sorted sets: ranges.                                                    *)

(* And from there the lowest level has the places behind it, in order.     *)
LEMMA WalkIs ==
    ASSUME NEW z, NEW s, NEW h, NEW n, Listed(z, s, h, n), NEW r \in 1..n
    PROVE  \A i \in 0..n : r + i <= n => Walk(z, s[r])[i] = s[r + i]
<1> DEFINE Walks(f) == f = [i \in 0..n |-> IF i = 0 THEN s[r]
                               ELSE IF f[i - 1] = Null THEN Null ELSE z.forward[f[i - 1]][1]]
           at == CHOOSE f : Walks(f)
           g == [i \in 0..n |-> NodeAt(s, n, r + i)]
<1>1. /\ Placed(z, s, n) /\ Tall(z, h, n) /\ Linked(z, s, h, n)
      /\ n \in Nat /\ z.length = n /\ r \in Nat /\ s \in [0..n -> Nat]
    BY DEF Listed, Placed
<1>1a. ASSUME NEW p \in 0..n PROVE z.forward[s[p]][1] = NodeAt(s, n, p + 1)
    <2> HIDE DEF at, g
    <2>1. Placed(z, s, n) /\ Tall(z, h, n) /\ Linked(z, s, h, n) /\ p \in 0..n
        BY <1>1
    <2> QED BY ONLY <2>1, LowestIs
<1>2. Walk(z, s[r]) = at
    BY <1>1 DEF Walk
<1>3. ASSUME NEW i \in 0..n
      PROVE  g[i] = IF i = 0 THEN s[r] ELSE IF g[i - 1] = Null THEN Null ELSE z.forward[g[i - 1]][1]
    <2>1. CASE i = 0
        BY <1>1, <2>1 DEF NodeAt
    <2>2. CASE i # 0
        <3>1. i - 1 \in 0..n /\ r + (i - 1) = r + i - 1 /\ r + (i - 1) \in Nat \ {0}
            BY <1>1, <2>2
        <3>2. g[i - 1] = NodeAt(s, n, r + (i - 1)) /\ g[i] = NodeAt(s, n, r + i)
            BY <3>1
        <3> HIDE DEF g
        <3>3. CASE r + (i - 1) <= n
            <4> DEFINE p == r + (i - 1)
            <4>1. p \in 0..n /\ p \in 1..n /\ p + 1 = r + i
                BY <1>1, <3>1, <3>3
            <4> HIDE DEF p
            <4>2. z.forward[s[p]][1] = NodeAt(s, n, p + 1) /\ NodeAt(s, n, p) = s[p] /\ s[p] # Null
                <5>1. z.forward[s[p]][1] = NodeAt(s, n, p + 1)
                    BY <1>1a, <4>1
                <5>2. s[p] \in Nat /\ Null \notin Nat
                    BY <1>1, <4>1 DEF Null
                <5> QED BY <4>1, <5>1, <5>2 DEF NodeAt
            <4>3. g[i - 1] = s[p] /\ g[i] = NodeAt(s, n, p + 1)
                BY <3>2, <4>1, <4>2 DEF p
            <4> QED BY <2>2, <4>2, <4>3
        <3>4. CASE ~(r + (i - 1) <= n)
            <4>1. r + i \notin 1..n /\ r + (i - 1) \notin 1..n
                BY <1>1, <3>1, <3>4
            <4> QED BY <2>2, <3>2, <4>1 DEF NodeAt
        <3> QED BY <3>3, <3>4
    <2> QED BY <2>1, <2>2
<1>4. Walks(g)
    <2>1. g = [i \in 0..n |-> g[i]]
        OBVIOUS
    <2> HIDE DEF g
    <2> QED BY <1>3, <2>1
<1>5. Walks(at)
    <2> HIDE DEF g
    <2> QED BY <1>4
<1>6. \A i \in 0..n : at[i] = IF i = 0 THEN s[r]
                              ELSE IF at[i - 1] = Null THEN Null ELSE z.forward[at[i - 1]][1]
    <2> HIDE DEF at
    <2> QED BY <1>5
<1> HIDE DEF at, g
<1> DEFINE K == {i \in Nat : i <= n => at[i] = g[i]}
<1>7. 0 \in K
    BY <1>1, <1>3, <1>6
<1>8. ASSUME NEW i \in Nat, i \in K PROVE i + 1 \in K
    <2> SUFFICES ASSUME i + 1 <= n PROVE at[i + 1] = g[i + 1]
        OBVIOUS
    <2>1. i + 1 \in 0..n /\ i + 1 # 0 /\ (i + 1) - 1 = i /\ at[i] = g[i]
        BY <1>1, <1>8
    <2> QED BY <1>3, <1>6, <2>1
<1>9. \A i \in Nat : i \in K
    <2> HIDE DEF K
    <2> QED BY <1>7, <1>8, Reached
<1>10. ASSUME NEW i \in 0..n, r + i <= n PROVE at[i] = s[r + i]
    <2>1. at[i] = g[i]
        BY <1>1, <1>9
    <2>2. g[i] = NodeAt(s, n, r + i)
        BY DEF g
    <2>3. r + i \in 1..n
        BY <1>1, <1>10
    <2> QED BY <2>1, <2>2, <2>3 DEF NodeAt
<1> QED BY <1>2, <1>10

(* The members at the places from first to final, in order.                *)
LEMMA ZRangeIs ==
    ASSUME NEW s, NEW h, NEW n, Listed(zset, s, h, n), Kept(zset),
           NEW first \in Int, NEW final \in Int
    PROVE  ZRange(zset, first, final) = ZAbs!Slice(ZAbs!InOrder, first, final)
<1> DEFINE e == [p \in 1..n |-> zset.member[s[p]]]
           from == IF first < 0 THEN n + first ELSE first
           to == IF final < 0 THEN n + final ELSE final
           start == IF from < 0 THEN 0 ELSE from
           stop == IF to >= n THEN n - 1 ELSE to
           at == Walk(zset, GetNodeByRank(zset, start + 1))
           S == {i \in 0..(n - 1) : ZAbs!Place(first, n) <= i /\ i <= ZAbs!Place(final, n)}
<1>1. n \in Nat /\ zset.length = n
    BY DEF Listed, Placed
<1>2. ZAbs!InOrder = e
    <2>1. Enumerated(zset.dict, e, n)
        BY EnumeratedIs
    <2> HIDE DEF e
    <2> QED BY <2>1, InOrderIs
<1>3. Len(e) = n
    BY <1>1
<1>4. ZAbs!Slice(ZAbs!InOrder, first, final) = [j \in 1..Cardinality(S) |-> e[ZAbs!Min(S) + j]]
    <2> HIDE DEF e
    <2> QED BY <1>2, <1>3, ZSetSameSize DEF ZAbs!Slice
<1>5. ZRange(zset, first, final) =
          IF start > to \/ start >= n THEN <<>>
          ELSE [j \in 1..Count(start, stop) |-> zset.member[at[j - 1]]]
    BY <1>1 DEF ZRange
<1>6. from = ZAbs!Place(first, n) /\ to = ZAbs!Place(final, n) /\ from \in Int /\ to \in Int
    BY <1>1 DEF ZAbs!Place
<1> HIDE DEF from, to, at
<1>7. start \in Nat /\ stop \in Int
    BY <1>1, <1>6
<1>8. S = {i \in 0..(n - 1) : start <= i /\ i <= stop}
    BY <1>1, <1>6
<1>9. CASE start > to \/ start >= n
    <2>1. S = {}
        BY <1>1, <1>6, <1>8, <1>9
    <2>2. Cardinality(S) = 0
        BY <2>1, FS_EmptySet
    <2> HIDE DEF S, start, stop
    <2>3. ZAbs!Slice(ZAbs!InOrder, first, final) = [j \in 1..0 |-> e[ZAbs!Min(S) + j]]
        BY <1>4, <2>2
    <2>4. ZRange(zset, first, final) = <<>>
        BY <1>5, <1>9
    <2>5. [j \in 1..0 |-> e[ZAbs!Min(S) + j]] = <<>>
        OBVIOUS
    <2> QED BY <2>3, <2>4, <2>5
<1>10. CASE ~(start > to \/ start >= n)
    <2>1. start <= stop /\ stop <= n - 1
        BY <1>1, <1>6, <1>7, <1>10
    <2>2. S = start..stop
        <3> HIDE DEF start, stop
        <3> QED BY <1>1, <1>7, <1>8, <2>1
    <2> HIDE DEF S, start, stop
    <2>3. Cardinality(S) = Count(start, stop) /\ Count(start, stop) = stop - start + 1
        <3>1. Cardinality(S) = IF start > stop THEN 0 ELSE stop - start + 1
            BY <1>7, <2>2, FS_Interval
        <3> QED BY <1>7, <2>1, <3>1 DEF Count
    <2>4. ZAbs!Min(S) = start
        <3>1. start \in S /\ \A y \in S : start <= y
            BY <1>7, <2>1, <2>2
        <3>2. \A x \in S : (\A y \in S : x <= y) => x = start
            BY <1>7, <2>2, <3>1
        <3>3. \E x \in S : \A y \in S : x <= y
            BY <3>1
        <3> QED BY <3>2, <3>3 DEF ZAbs!Min
    <2>5. at = Walk(zset, s[start + 1]) /\ start + 1 \in 1..n
        <3>1. start + 1 \in 1..n
            BY <1>1, <1>7, <2>1
        <3>2. GetNodeByRank(zset, start + 1) = s[start + 1]
            <4>1. start + 1 \in Int /\ Listed(zset, s, h, n)
                BY <3>1
            <4>2. start + 1 \in 1..n => GetNodeByRank(zset, start + 1) = s[start + 1]
                BY ONLY <4>1, GetNodeByRankIs
            <4> QED BY <3>1, <4>2
        <3> QED BY <3>1, <3>2 DEF at
    <2>6. \A i \in 0..n : (start + 1) + i <= n => at[i] = s[(start + 1) + i]
        <3>1. \A i \in 0..n : (start + 1) + i <= n => Walk(zset, s[start + 1])[i] = s[(start + 1) + i]
            <4>1. Listed(zset, s, h, n) /\ start + 1 \in 1..n
                BY <2>5
            <4> QED BY ONLY <4>1, WalkIs
        <3> QED BY <2>5, <3>1
    <2>7. ASSUME NEW j \in 1..Count(start, stop) PROVE zset.member[at[j - 1]] = e[start + j]
        <3>1. j - 1 \in 0..n /\ (start + 1) + (j - 1) = start + j /\ start + j \in 1..n
            BY <1>1, <1>7, <2>1, <2>3
        <3>2. at[j - 1] = s[start + j]
            <4>1. (start + 1) + (j - 1) <= n
                BY <3>1
            <4>2. at[j - 1] = s[(start + 1) + (j - 1)]
                BY <2>6, <3>1, <4>1
            <4> QED BY <3>1, <4>2
        <3> QED BY <3>1, <3>2
    <2> HIDE DEF e
    <2>8. ZRange(zset, first, final) = [j \in 1..Count(start, stop) |-> zset.member[at[j - 1]]]
        BY <1>5, <1>10
    <2>9. ZAbs!Slice(ZAbs!InOrder, first, final) = [j \in 1..Count(start, stop) |-> e[start + j]]
        BY <1>4, <2>3, <2>4
    <2> QED BY <2>7, <2>8, <2>9
<1> QED BY <1>9, <1>10
-----------------------------------------------------------------------------
(* Sorted sets: the list and the map together: ZADD and ZREM.              *)

(* What a skip list is does not depend on the map beside it.               *)
LEMMA SameList ==
    ASSUME NEW z, NEW s, NEW h, NEW n, Listed(z, s, h, n), NEW w, Shaped(w),
           w.member = z.member, w.score = z.score, w.backward = z.backward,
           w.forward = z.forward, w.span = z.span, w.tail = z.tail,
           w.length = z.length, w.level = z.level
    PROVE  Listed(w, s, h, n) /\ MemberScores(w) = MemberScores(z) /\ DOMAIN w.member = DOMAIN z.member
<1>1. Placed(w, s, n)
    BY DEF Listed, Placed, Addresses
<1>2. Tall(w, h, n)
    BY DEF Listed, Tall
<1>3. \A p, i : Leads(w, s, h, n, p, i) <=> Leads(z, s, h, n, p, i)
    BY DEF Leads
<1>4. Linked(w, s, h, n)
    BY <1>3 DEF Listed, Linked, Addresses
<1>5. Ordered(w, s, n)
    BY DEF Listed, Ordered, Addresses, Less
<1>6. Backed(w, s, n)
    BY DEF Listed, Backed, Addresses
<1> QED BY <1>1, <1>2, <1>4, <1>5, <1>6 DEF Listed, MemberScores, NodesOf, Addresses

(* A sorted set, in both its forms.                                        *)
ZHolds(z) == z.bound \in BOOLEAN /\ (\E s, h, n : Listed(z, s, h, n)) /\ Kept(z)

(* The sorted set that is not there.                                       *)
LEMMA NoZSetHolds ==
    /\ ZHolds(NoZSet) /\ NoZSet.dict = ZAbs!EmptyDict /\ NoZSet.bound = FALSE
    /\ NoZSet.real = TRUE
<1> DEFINE s == [p \in 0..0 |-> Header]
           h == [p \in 0..0 |-> SkipListMaxLevel]
           z == NoZSet
<1>1. /\ z.bound = FALSE /\ z.real = TRUE /\ z.dict = [m \in {} |-> Nil]
      /\ z.member = [a \in {Header} |-> 0] /\ z.score = [a \in {Header} |-> 0]
      /\ z.backward = [a \in {Header} |-> Null]
      /\ z.forward = [a \in {Header} |-> [i \in Levels |-> Null]]
      /\ z.span = [a \in {Header} |-> [i \in Levels |-> 0]]
      /\ z.tail = Null /\ z.length = 0 /\ z.level = 1
    <2>1. NewZSet = [bound |-> TRUE, real |-> TRUE, dict |-> [m \in {} |-> Nil],
                     member |-> [a \in {Header} |-> 0], score |-> [a \in {Header} |-> 0],
                     backward |-> [a \in {Header} |-> Null],
                     forward |-> [a \in {Header} |-> [i \in Levels |-> Null]],
                     span |-> [a \in {Header} |-> [i \in Levels |-> 0]],
                     tail |-> Null, length |-> 0, level |-> 1]
        BY DEF NewZSet
    <2> QED BY <2>1 DEF NoZSet
<1>2. Shaped(z)
    BY DEF Shaped, NoZSet, NewZSet
<1> HIDE DEF z
<1>3. \A p : p \in 0..0 <=> p = 0
    OBVIOUS
<1>4. s = [p \in 0..0 |-> 0] /\ s[0] = 0 /\ Header = 0 /\ h[0] = SkipListMaxLevel
    BY <1>3 DEF Header
<1>5. Placed(z, s, 0)
    <2>1. s \in [0..0 -> Nat] /\ \A p, q \in 0..0 : s[p] = s[q] => p = q
        BY <1>3, <1>4
    <2>2. {Header} = {s[p] : p \in 0..0}
        BY <1>3, <1>4
    <2> HIDE DEF s
    <2> QED BY <1>1, <1>4, <2>1, <2>2 DEF Placed, Addresses
<1>6. SkipListMaxLevel \in Levels /\ 1 \in Levels /\ Levels = 1..SkipListMaxLevel
      /\ Levels \subseteq Nat
    BY ZSetAssumption DEF Levels
<1>7. Tall(z, h, 0)
    <2>1. h \in [0..0 -> Levels]
        BY <1>6
    <2> HIDE DEF h
    <2> QED BY <1>1, <1>4, <1>6, <2>1 DEF Tall
<1>8. Linked(z, s, h, 0)
    <2>1. z.forward[0] = [i \in Levels |-> Null] /\ z.span[0] = [i \in Levels |-> 0]
          /\ DOMAIN z.forward = Addresses(z) /\ DOMAIN z.span = Addresses(z)
        BY <1>1, <1>4 DEF Addresses
    <2>2. z.forward[0] \in [1..SkipListMaxLevel -> Int] /\ z.span[0] \in [1..SkipListMaxLevel -> Nat]
        BY <1>6, <2>1 DEF Null
    <2>3. ASSUME NEW i \in 1..SkipListMaxLevel PROVE Leads(z, s, h, 0, 0, i)
        <3>1. NextUp(h, 0, i, 0, 1)
            BY DEF NextUp
        <3>2. z.forward[s[0]][i] = Null /\ z.span[s[0]][i] = 0
            BY <1>4, <1>6, <2>1
        <3>3. NodeAt(s, 0, 1) = Null /\ Reach(0, 1) - 0 = 0 /\ 1 \in (0 + 1)..(0 + 1)
            BY DEF NodeAt, Reach
        <3> HIDE DEF s, h
        <3> QED BY <3>1, <3>2, <3>3 DEF Leads
    <2> HIDE DEF s, h
    <2> QED BY <1>3, <1>4, <2>1, <2>2, <2>3 DEF Linked
<1>9. Ordered(z, s, 0)
    <2>1. DOMAIN z.score = Addresses(z) /\ z.member[Header] = 0 /\ z.score[Header] = 0
        BY <1>1, <1>4 DEF Addresses
    <2> QED BY <2>1 DEF Ordered
<1>10. Backed(z, s, 0)
    <2>1. DOMAIN z.backward = Addresses(z) /\ z.backward[Header] = Null /\ z.tail = Null
        BY <1>1 DEF Addresses
    <2>2. NodeAt(s, 0, 0 - 1) = Null /\ NodeAt(s, 0, 0) = Null
        BY DEF NodeAt
    <2> HIDE DEF s
    <2> QED BY <1>3, <1>4, <2>1, <2>2 DEF Backed
<1>11. Listed(z, s, h, 0)
    BY <1>2, <1>5, <1>7, <1>8, <1>9, <1>10 DEF Listed
<1>12. Kept(z)
    <2>1. NodesOf(z) = {} /\ DOMAIN z.dict = {} /\ z.dict \in [DOMAIN z.dict -> Scores]
        BY <1>1 DEF NodesOf, Addresses
    <2> QED BY <2>1 DEF Kept, MemberScores
<1>13. ZHolds(z) /\ z.dict = ZAbs!EmptyDict /\ z.bound = FALSE /\ z.real = TRUE
    BY <1>1, <1>11, <1>12 DEF ZHolds, ZAbs!EmptyDict
<1> QED BY <1>13 DEF z

(* zsetGetOrCreate.                                                        *)
LEMMA ZSetCreatedHolds ==
    ASSUME NEW z, ZHolds(z)
    PROVE  /\ ZHolds(ZSetCreated(z)) /\ ZSetCreated(z).bound = TRUE
           /\ ZSetCreated(z).dict = z.dict
<1> DEFINE w == ZSetCreated(z)
<1>1. PICK s, h, n : Listed(z, s, h, n)
    BY DEF ZHolds
<1>2. Shaped(w) /\ w.bound = TRUE
    BY <1>1 DEF Listed, Shaped, ZSetCreated
<1>3. /\ w.dict = z.dict /\ w.member = z.member /\ w.score = z.score /\ w.backward = z.backward
      /\ w.forward = z.forward /\ w.span = z.span /\ w.tail = z.tail
      /\ w.length = z.length /\ w.level = z.level
    BY DEF ZSetCreated
<1> HIDE DEF w
<1>4. Listed(w, s, h, n) /\ MemberScores(w) = MemberScores(z)
    BY ONLY <1>1, <1>2, <1>3, SameList
<1>5. ZHolds(w)
    BY <1>2, <1>3, <1>4 DEF ZHolds, Kept
<1> QED BY <1>2, <1>3, <1>5 DEF w

(* A list that has what a map has, with that map.                          *)
LEMMA KeptBeside ==
    ASSUME NEW z, NEW d, z.bound = TRUE, \E s, h, n : Listed(z, s, h, n),
           DOMAIN d \subseteq ZMembers, d \in [DOMAIN d -> Scores],
           MemberScores(z) = {<<m, d[m]>> : m \in DOMAIN d}
    PROVE  /\ ZHolds([z EXCEPT !.dict = d]) /\ [z EXCEPT !.dict = d].bound = TRUE
           /\ [z EXCEPT !.dict = d].dict = d
<1> DEFINE w == [z EXCEPT !.dict = d]
<1>1. PICK s, h, n : Listed(z, s, h, n)
    OBVIOUS
<1>2. Shaped(w) /\ w.bound = TRUE /\ w.dict = d
    BY <1>1 DEF Listed, Shaped
<1>3. /\ w.member = z.member /\ w.score = z.score /\ w.backward = z.backward
      /\ w.forward = z.forward /\ w.span = z.span /\ w.tail = z.tail
      /\ w.length = z.length /\ w.level = z.level
    OBVIOUS
<1> HIDE DEF w
<1>4. Listed(w, s, h, n) /\ MemberScores(w) = MemberScores(z)
    BY ONLY <1>1, <1>2, <1>3, SameList
<1>5. ZHolds(w)
    BY <1>2, <1>4 DEF ZHolds, Kept
<1> QED BY <1>2, <1>5 DEF w

(* A member that is not there comes, and one that is there goes.           *)
LEMMA InsertHolds ==
    ASSUME NEW z, NEW s, NEW h, NEW n, Listed(z, s, h, n), z.bound = TRUE, NEW d,
           DOMAIN d \subseteq ZMembers, d \in [DOMAIN d -> Scores],
           NEW sc \in Scores, NEW m \in ZMembers, NEW level \in Levels,
           MemberScores(z) = {<<k, d[k]>> : k \in DOMAIN d \ {m}}, NEW u,
           u = [Insert(z, sc, m, level) EXCEPT !.dict = Extended(d, m, sc)]
    PROVE  ZHolds(u) /\ u.bound = TRUE /\ u.dict = Extended(d, m, sc)
<1> DEFINE w == Insert(z, sc, m, level)
           f == Extended(d, m, sc)
<1>1. <<m, sc>> \notin MemberScores(z)
    OBVIOUS
<1>2. /\ \E g, t : Listed(w, g, t, n + 1)
      /\ MemberScores(w) = MemberScores(z) \cup {<<m, sc>>} /\ w.bound = TRUE
    <2> HIDE DEF w, f
    <2>1. /\ Listed(z, s, h, n) /\ sc \in Scores /\ m \in ZMembers /\ level \in Levels
          /\ <<m, sc>> \notin MemberScores(z)
        BY <1>1
    <2>2. /\ \E g, t : Listed(Insert(z, sc, m, level), g, t, n + 1)
          /\ MemberScores(Insert(z, sc, m, level)) = MemberScores(z) \cup {<<m, sc>>}
          /\ Insert(z, sc, m, level).bound = z.bound
        BY ONLY <2>1, InsertIs
    <2> QED BY <2>2 DEF w
<1>3. /\ DOMAIN f = DOMAIN d \cup {m} /\ DOMAIN f \subseteq ZMembers /\ f \in [DOMAIN f -> Scores]
      /\ \A k \in DOMAIN d \ {m} : f[k] = d[k]
      /\ f[m] = sc
    BY DEF Extended
<1> HIDE DEF w, f
<1>4. MemberScores(w) = {<<k, f[k]>> : k \in DOMAIN f}
    <2>1. {<<k, f[k]>> : k \in DOMAIN f} = {<<k, f[k]>> : k \in DOMAIN d \ {m}} \cup {<<m, f[m]>>}
        BY <1>3
    <2>2. {<<k, f[k]>> : k \in DOMAIN d \ {m}} = {<<k, d[k]>> : k \in DOMAIN d \ {m}}
        BY <1>3
    <2> QED BY <1>2, <1>3, <2>1, <2>2
<1>5. \E g, t, q : Listed(w, g, t, q)
    BY <1>2
<1>6. /\ ZHolds([w EXCEPT !.dict = f]) /\ [w EXCEPT !.dict = f].bound = TRUE
      /\ [w EXCEPT !.dict = f].dict = f
    BY ONLY <1>2, <1>3, <1>4, <1>5, KeptBeside
<1> QED BY <1>6 DEF w, f

(* After a deletion from the list, the map has the member still, and the   *)
(* list not (eval_zset.go:75, 210).                                        *)
LEMMA DeleteHolds ==
    ASSUME NEW z, ZHolds(z), z.bound = TRUE, NEW m \in DOMAIN z.dict
    PROVE  /\ \E g, t, q : Listed(Delete(z, z.dict[m], m), g, t, q)
           /\ MemberScores(Delete(z, z.dict[m], m)) = {<<k, z.dict[k]>> : k \in DOMAIN z.dict \ {m}}
           /\ Delete(z, z.dict[m], m).bound = TRUE
           /\ Delete(z, z.dict[m], m).dict = z.dict
<1> DEFINE sc == z.dict[m]
           w == Delete(z, sc, m)
<1>1. PICK s, h, n : Listed(z, s, h, n)
    BY DEF ZHolds
<1>2. /\ sc \in Scores /\ m \in ZMembers /\ <<m, sc>> \in MemberScores(z)
      /\ MemberScores(z) = {<<k, z.dict[k]>> : k \in DOMAIN z.dict}
    BY DEF ZHolds, Kept
<1> HIDE DEF sc
<1>3. /\ \E g, t : Listed(w, g, t, n - 1)
      /\ MemberScores(w) = MemberScores(z) \ {<<m, sc>>} /\ w.bound = TRUE /\ w.dict = z.dict
    <2> HIDE DEF w
    <2>1. /\ \E g, t : Listed(Delete(z, sc, m), g, t, n - 1)
          /\ MemberScores(Delete(z, sc, m)) = MemberScores(z) \ {<<m, sc>>}
          /\ Delete(z, sc, m).bound = z.bound /\ Delete(z, sc, m).dict = z.dict
        BY ONLY <1>1, <1>2, DeleteIs
    <2> QED BY <2>1 DEF w
<1>4. MemberScores(w) = {<<k, z.dict[k]>> : k \in DOMAIN z.dict \ {m}}
    <2> HIDE DEF w
    <2> QED BY <1>2, <1>3 DEF sc
<1> QED BY <1>3, <1>4 DEF sc

(* The loops keep their count: what ZADD has added, and what ZREM has      *)
(* removed, since they began.                                              *)
ZKeys == DOMAIN zset.dict
ZCounted ==
    /\ zcmd.op = "zadd" => /\ zcmd.before \subseteq ZKeys
                           /\ zcmd.count = Cardinality(ZKeys \ zcmd.before)
    /\ zcmd.op = "zrem" => /\ ZKeys \subseteq zcmd.before
                           /\ zcmd.count = Cardinality(zcmd.before \ ZKeys)

ZLooping ==
    /\ zcmd \in [op : {"none", "zadd", "zrem"}, n : 0..MaxArgs, count : 0..MaxArgs,
                 before : SUBSET ZMembers]
    /\ zcmd.op = "none" <=> zcmd = ZSetIdle
    /\ zcmd.op # "none" => zset.bound
    /\ zcmd.count <= zcmd.n /\ IsFiniteSet(zcmd.before)

(* The map is one whatever the scores; the list goes with it as long as    *)
(* they have been numbers.                                                 *)
ZStored(z) ==
    /\ {"bound", "real", "dict"} \subseteq DOMAIN z
    /\ z.bound \in BOOLEAN /\ z.real \in BOOLEAN
    /\ DOMAIN z.dict \subseteq ZMembers /\ IsFiniteSet(DOMAIN z.dict)
    /\ z.dict \in [DOMAIN z.dict -> Given]
    /\ z.real => ZHolds(z)

ZSetIInv == ZStored(zset) /\ ZLooping /\ ZCounted

(* The map has finitely many members.                                      *)
LEMMA ZKeysFinite ==
    ASSUME ZStored(zset)
    PROVE  ZKeys \subseteq ZMembers /\ IsFiniteSet(ZKeys)
    BY DEF ZStored, ZKeys

(* The sorted set that is not there is one.                                *)
LEMMA NoZSetStored == ZStored(NoZSet)
<1>1. /\ ZHolds(NoZSet) /\ NoZSet.dict = [m \in {} |-> Nil]
      /\ NoZSet.bound = FALSE /\ NoZSet.real = TRUE
    BY NoZSetHolds DEF ZAbs!EmptyDict
<1>2. {"bound", "real", "dict"} \subseteq DOMAIN NoZSet
    BY DEF NoZSet, NewZSet
<1>3. DOMAIN NoZSet.dict = {} /\ IsFiniteSet(DOMAIN NoZSet.dict) /\ NoZSet.dict \in [{} -> Given]
    BY <1>1, FS_EmptySet
<1> QED BY <1>1, <1>2, <1>3 DEF ZStored

(* zsetGetOrCreate, of any.                                                *)
LEMMA ZSetCreatedStored ==
    ASSUME NEW z, ZStored(z)
    PROVE  /\ ZStored(ZSetCreated(z)) /\ ZSetCreated(z).bound = TRUE
           /\ ZSetCreated(z).real = z.real /\ ZSetCreated(z).dict = z.dict
<1> DEFINE w == ZSetCreated(z)
<1>1. /\ w.bound = TRUE /\ w.real = z.real /\ w.dict = z.dict
      /\ {"bound", "real", "dict"} \subseteq DOMAIN w
    BY DEF ZStored, ZSetCreated
<1>2. z.real => ZHolds(w)
    BY ZSetCreatedHolds DEF ZStored
<1> HIDE DEF w
<1> QED BY <1>1, <1>2 DEF ZStored, w

(* What insertions and deletions leave alone.                              *)
LEMMA InsertLeaves ==
    ASSUME NEW z, NEW s, NEW m, NEW level, NEW f
    PROVE  LET w == [Insert(z, s, m, level) EXCEPT !.dict = f] IN
           /\ Insert(z, s, m, level).dict = z.dict
           /\ {"bound", "real", "dict"} \subseteq DOMAIN w
           /\ w.bound = z.bound /\ w.real = (z.real /\ s # NaN) /\ w.dict = f
    BY DEF Insert

(* Nor does a deletion change what is not of the list.                     *)
LEMMA DeleteLeaves ==
    ASSUME NEW z, {"bound", "real", "dict"} \subseteq DOMAIN z, NEW s, NEW m
    PROVE  /\ {"bound", "real", "dict"} \subseteq DOMAIN Delete(z, s, m)
           /\ Delete(z, s, m).bound = z.bound /\ Delete(z, s, m).real = z.real
           /\ Delete(z, s, m).dict = z.dict
<1>1. Delete(z, s, m) = z \/ \E x, b : Delete(z, s, m) = DeleteNode(z, x, b)
    BY DEF Delete
<1>2. \A x, b : /\ {"bound", "real", "dict"} \subseteq DOMAIN DeleteNode(z, x, b)
                /\ DeleteNode(z, x, b).bound = z.bound /\ DeleteNode(z, x, b).real = z.real
                /\ DeleteNode(z, x, b).dict = z.dict
    BY DEF DeleteNode
<1> QED BY <1>1, <1>2

(* A round of a loop, and what it is abstractly.                           *)
LEMMA ZSetRoundIs ==
    ASSUME ZSetIInv, NEW op \in {"zadd", "zrem"}, NEW counts, ZRound(op, counts),
           NEW D, zcmd.op = "none" => D = ZKeys, zcmd.op # "none" => D = zcmd.before
    PROVE  /\ zcmd.op \in {"none", op} /\ zcmd.count \in Nat /\ D \in SUBSET ZMembers
           /\ IsFiniteSet(D)
           /\ zcmd' \in [op : {"none", "zadd", "zrem"}, n : 0..MaxArgs, count : 0..MaxArgs,
                         before : SUBSET ZMembers]
           /\ zcmd'.op = op /\ zcmd' # ZSetIdle /\ zcmd'.count <= zcmd'.n
           /\ zcmd'.before = D
           /\ zcmd'.count = zcmd.count + (IF counts THEN 1 ELSE 0)
           /\ zcmd.op = "none" => zcmd.count = 0
           /\ ZAbs!Begun(op)
<1>1. /\ zcmd.op \in {"none", op} /\ zcmd.n < MaxArgs
      /\ zcmd' = [op |-> op, n |-> zcmd.n + 1,
                  count |-> zcmd.count + (IF counts THEN 1 ELSE 0),
                  before |-> IF zcmd.op = op THEN zcmd.before ELSE DOMAIN zset.dict]
      /\ zsaid' = NoAnswer
    BY DEF ZRound
<1>2. /\ zcmd \in [op : {"none", "zadd", "zrem"}, n : 0..MaxArgs, count : 0..MaxArgs,
                   before : SUBSET ZMembers]
      /\ zcmd.count <= zcmd.n /\ (zcmd.op = "none" <=> zcmd = ZSetIdle)
      /\ IsFiniteSet(zcmd.before)
    BY DEF ZSetIInv, ZLooping
<1>3. ZKeys \subseteq ZMembers /\ DOMAIN zset.dict = ZKeys /\ IsFiniteSet(ZKeys)
    BY ZKeysFinite DEF ZSetIInv, ZKeys
<1>4. /\ zcmd.n \in Nat /\ zcmd.count \in Nat /\ zcmd.count <= zcmd.n /\ MaxArgs \in Nat
      /\ zcmd.before \in SUBSET ZMembers
    BY <1>2, ReplyAssumption
<1>5. zcmd'.before = D /\ D \in SUBSET ZMembers /\ IsFiniteSet(D)
    BY <1>1, <1>2, <1>3, <1>4
<1>6. zcmd.op = "none" => zcmd = ZSetIdle /\ zcmd.count = 0 /\ zcmd.before = {}
    BY <1>2 DEF ZSetIdle
<1>7. /\ zcmd'.n = zcmd.n + 1 /\ zcmd'.count = zcmd.count + (IF counts THEN 1 ELSE 0)
      /\ zcmd'.op = op /\ op # "none"
    BY <1>1
<1>8. zcmd' \in [op : {"none", "zadd", "zrem"}, n : 0..MaxArgs, count : 0..MaxArgs,
                 before : SUBSET ZMembers]
    <2>1. zcmd.n + 1 \in 0..MaxArgs /\ zcmd.count + (IF counts THEN 1 ELSE 0) \in 0..MaxArgs
        BY <1>1, <1>4
    <2> QED BY <2>1, <1>1, <1>5
<1>9. zcmd'.count <= zcmd'.n
    BY <1>4, <1>7
<1>10. zcmd' # ZSetIdle
    BY <1>7 DEF ZSetIdle
<1>11. ZAbs!Begun(op)
    <2>1. CASE zcmd.op = "none"
        BY <2>1, <1>1, <1>6, <1>7 DEF ZAbs!Begun, ZAbs!Nothing, ZAbs!Idle, ZAbs!NoAnswer,
            NoAnswer, ZAbs!Members
    <2>2. CASE zcmd.op = op
        BY <2>2, <1>1, <1>7 DEF ZAbs!Begun, ZAbs!Nothing, ZAbs!Idle, ZAbs!NoAnswer, NoAnswer
    <2> QED BY <1>1, <2>1, <2>2
<1> QED BY <1>1, <1>4, <1>5, <1>6, <1>7, <1>8, <1>9, <1>10, <1>11

(* What ZADD leaves of the set: the member, with its score.                *)
LEMMA ZAddHolds ==
    ASSUME ZHolds(zset), NEW s \in Scores, NEW m \in ZMembers, ZAdd(s, m)
    PROVE  /\ ZHolds(zset') /\ zset'.bound = TRUE
           /\ zset'.dict = [k \in ZKeys \cup {m} |-> IF k = m THEN s ELSE zset.dict[k]]
<1> DEFINE z == ZSetCreated(zset)
           d == zset.dict
<1>1. ZHolds(z) /\ z.bound = TRUE /\ z.dict = d
    BY ZSetCreatedHolds
<1>2. IF m \in DOMAIN z.dict /\ Same(z.dict[m], s) THEN zset' = z
      ELSE LET rest == IF m \in DOMAIN z.dict THEN Delete(z, z.dict[m], m) ELSE z IN
           \E level \in Levels :
               zset' = [Insert(rest, s, m, level) EXCEPT !.dict = Extended(@, m, s)]
    BY DEF ZAdd
<1> HIDE DEF z
<1>3. DOMAIN d \subseteq ZMembers /\ d \in [DOMAIN d -> Scores]
    BY <1>1 DEF ZHolds, Kept
<1>4. Extended(d, m, s) = [k \in ZKeys \cup {m} |-> IF k = m THEN s ELSE d[k]]
    BY DEF Extended, ZKeys
<1>7. m \in DOMAIN d => (Same(d[m], s) <=> d[m] = s)
    BY <1>3, NumbersCompare
<1>5. CASE m \in DOMAIN d /\ d[m] = s
    <2>1. zset' = z
        BY <1>1, <1>2, <1>5, <1>7
    <2>2. d = [k \in ZKeys \cup {m} |-> IF k = m THEN s ELSE d[k]]
        <3>1. ZKeys \cup {m} = DOMAIN d
            BY <1>5 DEF ZKeys
        <3>2. [k \in DOMAIN d |-> IF k = m THEN s ELSE d[k]] = [k \in DOMAIN d |-> d[k]]
            BY <1>5
        <3>3. d = [k \in DOMAIN d |-> d[k]]
            BY <1>3
        <3> QED BY <3>1, <3>2, <3>3
    <2> QED BY <1>1, <2>1, <2>2
<1>6. CASE ~(m \in DOMAIN d /\ d[m] = s)
    <2> DEFINE rest == IF m \in DOMAIN d THEN Delete(z, d[m], m) ELSE z
    <2>1. PICK level \in Levels :
              zset' = [Insert(rest, s, m, level) EXCEPT !.dict = Extended(@, m, s)]
        BY <1>1, <1>2, <1>6, <1>7
    <2>2. /\ \E g, h, n : Listed(rest, g, h, n)
          /\ MemberScores(rest) = {<<k, d[k]>> : k \in DOMAIN d \ {m}}
          /\ rest.bound = TRUE /\ rest.dict = d
        <3>1. CASE m \in DOMAIN d
            <4>1. /\ \E g, h, n : Listed(Delete(z, z.dict[m], m), g, h, n)
                  /\ MemberScores(Delete(z, z.dict[m], m)) = {<<k, z.dict[k]>> : k \in DOMAIN z.dict \ {m}}
                  /\ Delete(z, z.dict[m], m).bound = TRUE
                  /\ Delete(z, z.dict[m], m).dict = z.dict
                BY <1>1, <3>1, DeleteHolds
            <4>2. rest = Delete(z, z.dict[m], m)
                BY <1>1, <3>1
            <4> HIDE DEF rest, d
            <4> QED BY <1>1, <4>1, <4>2
        <3>2. CASE m \notin DOMAIN d
            <4>1. rest = z /\ DOMAIN d \ {m} = DOMAIN d
                BY <3>2
            <4> QED BY <1>1, <4>1 DEF ZHolds, Kept
        <3> QED BY <3>1, <3>2
    <2> HIDE DEF rest
    <2>3. PICK g, h, n : Listed(rest, g, h, n)
        BY <2>2
    <2>4. Insert(rest, s, m, level).dict = d
        <3>1. <<m, s>> \notin MemberScores(rest)
            BY <2>2
        <3>2. Insert(rest, s, m, level).dict = rest.dict
            BY ONLY <2>3, <3>1, s \in Scores, m \in ZMembers, level \in Levels, InsertIs
        <3> QED BY <2>2, <3>2
    <2>5. zset' = [Insert(rest, s, m, level) EXCEPT !.dict = Extended(d, m, s)]
        BY <2>1, <2>4
    <2> HIDE DEF d
    <2>6. ZHolds(zset') /\ zset'.bound = TRUE /\ zset'.dict = Extended(d, m, s)
        <3>1. /\ Listed(rest, g, h, n) /\ rest.bound = TRUE /\ DOMAIN d \subseteq ZMembers
              /\ d \in [DOMAIN d -> Scores] /\ s \in Scores /\ m \in ZMembers /\ level \in Levels
              /\ MemberScores(rest) = {<<k, d[k]>> : k \in DOMAIN d \ {m}}
              /\ zset' = [Insert(rest, s, m, level) EXCEPT !.dict = Extended(d, m, s)]
            BY <1>3, <2>2, <2>3, <2>5
        <3>2. ZHolds(zset')
            BY ONLY <3>1, InsertHolds
        <3>3. zset'.bound = TRUE
            BY ONLY <3>1, InsertHolds
        <3>4. zset'.dict = Extended(d, m, s)
            BY ONLY <3>1, InsertHolds
        <3> QED BY <3>2, <3>3, <3>4
    <2> QED BY <1>4, <2>5, <2>6 DEF d
<1> QED BY <1>5, <1>6

(* What ZREM leaves of it: all but the member.                             *)
LEMMA ZRemHolds ==
    ASSUME ZHolds(zset), NEW m \in ZMembers, ZRem(m)
    PROVE  /\ ZHolds(zset') /\ zset'.bound = TRUE
           /\ zset'.dict = [k \in ZKeys \ {m} |-> zset.dict[k]]
<1> DEFINE d == zset.dict
           f == [k \in DOMAIN d \ {m} |-> d[k]]
           w == Delete(zset, d[m], m)
<1>1. /\ zset.bound = TRUE
      /\ zset' = IF m \notin DOMAIN zset.dict THEN zset
                 ELSE [Delete(zset, zset.dict[m], m) EXCEPT
                          !.dict = [n \in DOMAIN @ \ {m} |-> @[n]]]
    BY DEF ZRem, ZHolds
<1>2. DOMAIN d \subseteq ZMembers /\ d \in [DOMAIN d -> Scores]
    BY DEF ZHolds, Kept
<1>3. f = [k \in ZKeys \ {m} |-> d[k]]
    BY DEF ZKeys
<1>4. CASE m \notin DOMAIN d
    <2>1. zset' = zset /\ DOMAIN d \ {m} = DOMAIN d
        BY <1>1, <1>4
    <2>2. d = f
        BY <1>2, <2>1
    <2> QED BY <1>1, <1>3, <2>1, <2>2
<1>5. CASE m \in DOMAIN d
    <2>1. /\ \E g, h, n : Listed(w, g, h, n)
          /\ MemberScores(w) = {<<k, d[k]>> : k \in DOMAIN d \ {m}}
          /\ w.bound = TRUE /\ w.dict = d
        <3>1. /\ \E g, h, n : Listed(Delete(zset, zset.dict[m], m), g, h, n)
              /\ MemberScores(Delete(zset, zset.dict[m], m)) = {<<k, zset.dict[k]>> : k \in DOMAIN zset.dict \ {m}}
              /\ Delete(zset, zset.dict[m], m).bound = TRUE
              /\ Delete(zset, zset.dict[m], m).dict = zset.dict
            BY <1>1, <1>5, DeleteHolds
        <3> QED BY <3>1
    <2> HIDE DEF w
    <2>2. zset' = [w EXCEPT !.dict = f]
        <3>1. zset' = [w EXCEPT !.dict = [n \in DOMAIN @ \ {m} |-> @[n]]]
            BY <1>1, <1>5 DEF w
        <3> QED BY <2>1, <3>1
    <2>3. /\ DOMAIN f \subseteq ZMembers /\ f \in [DOMAIN f -> Scores]
          /\ MemberScores(w) = {<<k, f[k]>> : k \in DOMAIN f}
        <3>1. DOMAIN f = DOMAIN d \ {m} /\ \A k \in DOMAIN f : f[k] = d[k]
            OBVIOUS
        <3> HIDE DEF f
        <3>2. f = [k \in DOMAIN f |-> f[k]]
            BY DEF f
        <3> QED BY <1>2, <2>1, <3>1, <3>2
    <2> HIDE DEF f
    <2>4. ZHolds([w EXCEPT !.dict = f]) /\ [w EXCEPT !.dict = f].bound = TRUE
          /\ [w EXCEPT !.dict = f].dict = f
        BY ONLY <2>1, <2>3, KeptBeside
    <2> QED BY <1>3, <2>2, <2>4
<1> QED BY <1>4, <1>5
-----------------------------------------------------------------------------
(* Sorted sets: every command.                                             *)

(* ZADD makes the map what it should be, whatever the score.               *)
LEMMA ZAddMaps ==
    ASSUME ZStored(zset), NEW s \in Given, NEW m \in ZMembers, ZAdd(s, m)
    PROVE  /\ {"bound", "real", "dict"} \subseteq DOMAIN zset'
           /\ zset'.bound = TRUE /\ zset'.real = (zset.real /\ s # NaN)
           /\ zset'.dict = [k \in ZKeys \cup {m} |-> IF k = m THEN s ELSE zset.dict[k]]
<1> DEFINE z == ZSetCreated(zset)
           d == zset.dict
           f == [k \in ZKeys \cup {m} |-> IF k = m THEN s ELSE d[k]]
<1>1. /\ {"bound", "real", "dict"} \subseteq DOMAIN z /\ z.bound = TRUE
      /\ z.real = zset.real /\ z.dict = d
    BY ZSetCreatedStored DEF ZStored
<1>2. IF m \in DOMAIN z.dict /\ Same(z.dict[m], s) THEN zset' = z
      ELSE LET rest == IF m \in DOMAIN z.dict THEN Delete(z, z.dict[m], m) ELSE z IN
           \E level \in Levels :
               zset' = [Insert(rest, s, m, level) EXCEPT !.dict = Extended(@, m, s)]
    BY DEF ZAdd
<1> HIDE DEF z
<1>3. zset.real \in BOOLEAN /\ d \in [DOMAIN d -> Given] /\ ZKeys = DOMAIN d
    BY DEF ZStored, ZKeys
<1>4. Extended(d, m, s) = f
    BY <1>3 DEF Extended
<1>5. CASE m \in DOMAIN d /\ Same(d[m], s)
    <2>1. zset' = z /\ d[m] = s /\ s # NaN
        BY <1>1, <1>2, <1>5 DEF Same
    <2>2. d = f
        <3>1. d = [k \in DOMAIN d |-> d[k]] /\ ZKeys \cup {m} = DOMAIN d
            BY <1>3, <1>5
        <3>2. f = [k \in DOMAIN d |-> d[k]]
            BY <2>1, <3>1
        <3> QED BY <3>1, <3>2
    <2> HIDE DEF d, f
    <2>3. zset'.real = (zset.real /\ s # NaN)
        BY <1>1, <1>3, <2>1
    <2> QED BY <1>1, <2>1, <2>2, <2>3 DEF d, f
<1>6. CASE ~(m \in DOMAIN d /\ Same(d[m], s))
    <2> DEFINE rest == IF m \in DOMAIN d THEN Delete(z, d[m], m) ELSE z
    <2>1. PICK level \in Levels :
              zset' = [Insert(rest, s, m, level) EXCEPT !.dict = Extended(@, m, s)]
        BY <1>1, <1>2, <1>6
    <2>2. rest.bound = TRUE /\ rest.real = zset.real /\ rest.dict = d
        BY <1>1, DeleteLeaves
    <2> HIDE DEF rest, d, f
    <2>3. Insert(rest, s, m, level).dict = d
        BY <2>2, InsertLeaves
    <2>4. zset' = [Insert(rest, s, m, level) EXCEPT !.dict = f]
        BY <1>4, <2>1, <2>3
    <2>5. /\ {"bound", "real", "dict"} \subseteq DOMAIN zset'
          /\ zset'.bound = rest.bound /\ zset'.real = (rest.real /\ s # NaN) /\ zset'.dict = f
        BY <2>4, InsertLeaves
    <2> QED BY <2>2, <2>5 DEF d, f
<1> QED BY <1>5, <1>6

(* And leaves a list that goes with it, if it has been given numbers only. *)
LEMMA ZAddStored ==
    ASSUME ZStored(zset), NEW s \in Given, NEW m \in ZMembers, ZAdd(s, m)
    PROVE  ZStored(zset')
<1>1. /\ {"bound", "real", "dict"} \subseteq DOMAIN zset'
      /\ zset'.bound = TRUE /\ zset'.real = (zset.real /\ s # NaN)
      /\ zset'.dict = [k \in ZKeys \cup {m} |-> IF k = m THEN s ELSE zset.dict[k]]
    BY ZAddMaps
<1>2. /\ ZKeys \subseteq ZMembers /\ IsFiniteSet(ZKeys) /\ ZKeys = DOMAIN zset.dict
      /\ zset.dict \in [ZKeys -> Given]
    BY ZKeysFinite DEF ZStored, ZKeys
<1>3. IsFiniteSet(ZKeys \cup {m})
    BY <1>2, FS_AddElement
<1>4. zset'.real => ZHolds(zset')
    <2> SUFFICES ASSUME zset'.real PROVE ZHolds(zset')
        OBVIOUS
    <2>1. zset.real /\ s \in Scores
        BY <1>1 DEF Given
    <2>2. ZHolds(zset)
        BY <2>1 DEF ZStored
    <2> QED BY ONLY <2>1, <2>2, m \in ZMembers, ZAdd(s, m), ZAddHolds
<1>5. DOMAIN zset'.dict = ZKeys \cup {m} /\ zset'.dict \in [ZKeys \cup {m} -> Given]
    BY <1>1, <1>2
<1> QED BY <1>1, <1>2, <1>3, <1>4, <1>5 DEF ZStored

(* ZREM likewise.                                                          *)
LEMMA ZRemStored ==
    ASSUME ZStored(zset), NEW m \in ZMembers, ZRem(m)
    PROVE  /\ ZStored(zset') /\ zset'.bound = TRUE /\ zset'.real = zset.real
           /\ zset'.dict = [k \in ZKeys \ {m} |-> zset.dict[k]]
<1> DEFINE d == zset.dict
           f == [k \in ZKeys \ {m} |-> d[k]]
           w == Delete(zset, d[m], m)
<1>1. /\ zset.bound = TRUE
      /\ zset' = IF m \notin DOMAIN zset.dict THEN zset
                 ELSE [Delete(zset, zset.dict[m], m) EXCEPT
                          !.dict = [n \in DOMAIN @ \ {m} |-> @[n]]]
    BY DEF ZRem, ZStored
<1>2. /\ {"bound", "real", "dict"} \subseteq DOMAIN zset /\ zset.real \in BOOLEAN
      /\ ZKeys \subseteq ZMembers /\ IsFiniteSet(ZKeys) /\ ZKeys = DOMAIN d /\ d \in [ZKeys -> Given]
    BY ZKeysFinite DEF ZStored, ZKeys
<1>3. /\ {"bound", "real", "dict"} \subseteq DOMAIN zset'
      /\ zset'.bound = TRUE /\ zset'.real = zset.real /\ zset'.dict = f
    <2>1. CASE m \notin ZKeys
        <3>1. d = f
            BY <1>2, <2>1
        <3> HIDE DEF f, d
        <3>2. zset' = zset
            BY <1>1, <1>2, <2>1 DEF d
        <3> QED BY <1>1, <1>2, <3>1, <3>2 DEF d
    <2>2. CASE m \in ZKeys
        <3>1. /\ {"bound", "real", "dict"} \subseteq DOMAIN w
              /\ w.bound = TRUE /\ w.real = zset.real /\ w.dict = d
            BY <1>1, <1>2, DeleteLeaves
        <3>2. zset' = [w EXCEPT !.dict = [n \in DOMAIN @ \ {m} |-> @[n]]]
            BY <1>1, <1>2, <2>2
        <3> HIDE DEF w
        <3>3. zset' = [w EXCEPT !.dict = f]
            BY <1>2, <3>1, <3>2
        <3> HIDE DEF f, d
        <3> QED BY <3>1, <3>3
    <2> QED BY <2>1, <2>2
<1>4. zset'.real => ZHolds(zset')
    <2> SUFFICES ASSUME zset'.real PROVE ZHolds(zset')
        OBVIOUS
    <2>1. ZHolds(zset)
        BY <1>3 DEF ZStored
    <2> QED BY ONLY <2>1, m \in ZMembers, ZRem(m), ZRemHolds
<1>5. DOMAIN f = ZKeys \ {m} /\ f \in [ZKeys \ {m} -> Given] /\ IsFiniteSet(ZKeys \ {m})
    BY <1>2, FS_Subset
<1> HIDE DEF f
<1>6. ZStored(zset')
    BY <1>2, <1>3, <1>4, <1>5 DEF ZStored
<1> QED BY <1>3, <1>6 DEF f

(* A round of ZADD.                                                        *)
LEMMA ZAddKeeps ==
    ASSUME ZSetIInv, NEW s \in Given, NEW m \in ZMembers, ZAdd(s, m)
    PROVE  ZSetIInv' /\ ZAbs!ZAdd(s, m)
<1> DEFINE D == IF zcmd.op = "none" THEN ZKeys ELSE zcmd.before
           c == m \notin ZKeys
<1>1. ZStored(zset) /\ ZLooping /\ ZCounted
    BY DEF ZSetIInv
<1>2. ZRound("zadd", c)
    <2>1. DOMAIN ZSetCreated(zset).dict = ZKeys
        BY <1>1, ZSetCreatedStored DEF ZKeys
    <2> QED BY <2>1 DEF ZAdd
<1>3. /\ ZStored(zset') /\ zset'.bound = TRUE /\ zset'.real = (zset.real /\ s # NaN)
      /\ zset'.dict = [k \in ZKeys \cup {m} |-> IF k = m THEN s ELSE zset.dict[k]]
    BY <1>1, ZAddMaps, ZAddStored
<1>4. ZKeys' = ZKeys \cup {m}
    BY <1>3 DEF ZKeys
<1> HIDE DEF c
<1>5. /\ zcmd.op \in {"none", "zadd"} /\ zcmd.count \in Nat /\ D \in SUBSET ZMembers
      /\ IsFiniteSet(D)
      /\ zcmd' \in [op : {"none", "zadd", "zrem"}, n : 0..MaxArgs, count : 0..MaxArgs,
                    before : SUBSET ZMembers]
      /\ zcmd'.op = "zadd" /\ zcmd' # ZSetIdle /\ zcmd'.count <= zcmd'.n
      /\ zcmd'.before = D
      /\ zcmd'.count = zcmd.count + (IF c THEN 1 ELSE 0)
      /\ zcmd.op = "none" => zcmd.count = 0
      /\ ZAbs!Begun("zadd")
    BY <1>2, ZSetRoundIs
<1>6. D \subseteq ZKeys /\ zcmd.count = Cardinality(ZKeys \ D)
    <2>1. CASE zcmd.op = "none"
        <3>1. ZKeys \ D = {}
            BY <2>1
        <3> QED BY <3>1, <2>1, <1>5, FS_EmptySet
    <2>2. CASE zcmd.op = "zadd"
        BY <2>2, <1>1 DEF ZCounted
    <2> QED BY <2>1, <2>2, <1>5
<1> HIDE DEF D
<1>7. Cardinality(ZKeys' \ D) = zcmd'.count
    <2>1. IsFiniteSet(ZKeys \ D)
        BY <1>1, ZKeysFinite, FS_Subset
    <2>2. CASE m \in ZKeys
        <3>1. ZKeys' \ D = ZKeys \ D
            BY <1>4, <2>2
        <3>2. zcmd'.count = zcmd.count
            BY <2>2, <1>5 DEF c
        <3> QED BY <3>1, <3>2, <1>6
    <2>3. CASE m \notin ZKeys
        <3>1. ZKeys' \ D = (ZKeys \ D) \cup {m} /\ m \notin ZKeys \ D
            BY <1>4, <1>6, <2>3
        <3>2. zcmd'.count = zcmd.count + 1
            BY <2>3, <1>5 DEF c
        <3> QED BY <3>1, <3>2, <2>1, <1>6, FS_AddElement
    <2> QED BY <2>2, <2>3
<1>8. ZLooping'
    <2>1. zcmd'.op # "none"
        BY <1>5
    <2> QED BY <2>1, <1>3, <1>5 DEF ZLooping
<1>9. ZCounted'
    BY <1>4, <1>5, <1>6, <1>7 DEF ZCounted
<1>10. ZSetIInv'
    BY <1>3, <1>8, <1>9 DEF ZSetIInv
<1>11. ZAbs!ZAdd(s, m)
    BY <1>3, <1>5 DEF ZAbs!ZAdd, ZAbs!Members, ZKeys
<1> QED BY <1>10, <1>11

(* A round of ZREM.                                                        *)
LEMMA ZRemKeeps ==
    ASSUME ZSetIInv, NEW m \in ZMembers, ZRem(m)
    PROVE  ZSetIInv' /\ ZAbs!ZRem(m)
<1> DEFINE D == IF zcmd.op = "none" THEN ZKeys ELSE zcmd.before
           c == m \in ZKeys
<1>1. ZStored(zset) /\ ZLooping /\ ZCounted
    BY DEF ZSetIInv
<1>2. ZRound("zrem", c) /\ zset.bound = TRUE
    BY <1>1 DEF ZRem, ZKeys, ZStored
<1>3. /\ ZStored(zset') /\ zset'.bound = TRUE /\ zset'.real = zset.real
      /\ zset'.dict = [k \in ZKeys \ {m} |-> zset.dict[k]]
    BY <1>1, ZRemStored
<1>4. ZKeys' = ZKeys \ {m}
    BY <1>3 DEF ZKeys
<1> HIDE DEF c
<1>5. /\ zcmd.op \in {"none", "zrem"} /\ zcmd.count \in Nat /\ D \in SUBSET ZMembers
      /\ IsFiniteSet(D)
      /\ zcmd' \in [op : {"none", "zadd", "zrem"}, n : 0..MaxArgs, count : 0..MaxArgs,
                    before : SUBSET ZMembers]
      /\ zcmd'.op = "zrem" /\ zcmd' # ZSetIdle /\ zcmd'.count <= zcmd'.n
      /\ zcmd'.before = D
      /\ zcmd'.count = zcmd.count + (IF c THEN 1 ELSE 0)
      /\ zcmd.op = "none" => zcmd.count = 0
      /\ ZAbs!Begun("zrem")
    BY <1>2, ZSetRoundIs
<1>6. ZKeys \subseteq D /\ zcmd.count = Cardinality(D \ ZKeys)
    <2>1. CASE zcmd.op = "none"
        <3>1. D \ ZKeys = {}
            BY <2>1
        <3> QED BY <3>1, <2>1, <1>5, FS_EmptySet
    <2>2. CASE zcmd.op = "zrem"
        BY <2>2, <1>1 DEF ZCounted
    <2> QED BY <2>1, <2>2, <1>5
<1> HIDE DEF D
<1>7. Cardinality(D \ ZKeys') = zcmd'.count
    <2>1. IsFiniteSet(D \ ZKeys)
        BY <1>5, FS_Subset
    <2>2. CASE m \in ZKeys
        <3>1. D \ ZKeys' = (D \ ZKeys) \cup {m} /\ m \notin D \ ZKeys
            BY <1>4, <1>6, <2>2
        <3>2. zcmd'.count = zcmd.count + 1
            BY <2>2, <1>5 DEF c
        <3> QED BY ZenonT(30), <3>1, <3>2, <2>1, <1>6, FS_AddElement
    <2>3. CASE m \notin ZKeys
        <3>1. D \ ZKeys' = D \ ZKeys
            BY <1>4, <2>3
        <3>2. zcmd'.count = zcmd.count
            BY <2>3, <1>5 DEF c
        <3> QED BY <3>1, <3>2, <1>6
    <2> QED BY <2>2, <2>3
<1>8. ZLooping'
    <2>1. zcmd'.op # "none"
        BY <1>5
    <2> QED BY <2>1, <1>3, <1>5 DEF ZLooping
<1>9. ZCounted'
    BY <1>4, <1>5, <1>6, <1>7 DEF ZCounted
<1>10. ZSetIInv'
    BY <1>3, <1>8, <1>9 DEF ZSetIInv
<1>11. ZAbs!ZRem(m)
    BY <1>2, <1>3, <1>5 DEF ZAbs!ZRem, ZAbs!Members, ZKeys
<1> QED BY <1>10, <1>11

(* Between commands there may be any sorted set.                           *)
LEMMA ZSetIdleKeeps ==
    ASSUME zcmd' = ZSetIdle, ZStored(zset')
    PROVE  ZSetIInv' /\ [op |-> zcmd'.op, before |-> zcmd'.before] = ZAbs!Nothing
<1>1. /\ ZSetIdle \in [op : {"none", "zadd", "zrem"}, n : 0..MaxArgs, count : 0..MaxArgs,
                       before : SUBSET ZMembers]
      /\ ZSetIdle.op = "none" /\ ZSetIdle.count <= ZSetIdle.n /\ IsFiniteSet(ZSetIdle.before)
    BY ReplyAssumption, FS_EmptySet DEF ZSetIdle
<1>2. ZSetIInv'
    BY <1>1 DEF ZSetIInv, ZLooping, ZCounted
<1> QED BY <1>2 DEF ZAbs!Nothing, ZSetIdle

(* The ends of the loops; an emptied set is gone.                          *)
LEMMA ZSetEndsKeep ==
    ASSUME ZSetIInv, ZAddEnd \/ ZAddBad \/ ZRemEnd
    PROVE  ZSetIInv' /\ ZAbs!Next
<1>1. ZStored(zset) /\ ZLooping /\ ZCounted
    BY DEF ZSetIInv
<1>2. CASE ZAddEnd
    <2>1. zcmd.op = "zadd" /\ zcmd' = ZSetIdle /\ zsaid' = <<"zadd", zcmd.count>> /\ zset' = zset
        BY <1>2 DEF ZAddEnd, EndZRounds
    <2>2. ZSetIInv' /\ [op |-> zcmd'.op, before |-> zcmd'.before] = ZAbs!Nothing
        BY <1>1, <2>1, ZSetIdleKeeps
    <2>3. zcmd.count = ZAbs!Cardinality(ZAbs!Members \ zcmd.before)
        BY <1>1, <2>1, ZSetSameSize DEF ZCounted, ZKeys, ZAbs!Members
    <2> QED BY <2>1, <2>2, <2>3 DEF ZAbs!Next, ZAbs!ZAddEnd, ZAbs!Ended
<1>3. CASE ZAddBad
    <2>1. /\ zcmd.op \in {"none", "zadd"} /\ zcmd' = ZSetIdle /\ zsaid' = <<"zadd", Err>>
          /\ zset' = ZSetCreated(zset)
        BY <1>3 DEF ZAddBad
    <2>2. /\ ZStored(zset') /\ zset'.bound = TRUE /\ zset'.dict = zset.dict
          /\ zset'.real = zset.real
        BY <1>1, <2>1, ZSetCreatedStored
    <2>3. ZSetIInv' /\ [op |-> zcmd'.op, before |-> zcmd'.before] = ZAbs!Nothing
        BY <2>1, <2>2, ZSetIdleKeeps
    <2>4. zcmd.op = "none" => [op |-> zcmd.op, before |-> zcmd.before] = ZAbs!Nothing
        BY <1>1 DEF ZLooping, ZSetIdle, ZAbs!Nothing
    <2> QED BY <2>1, <2>2, <2>3, <2>4 DEF ZAbs!Next, ZAbs!ZAddBad, ZAbs!Idle
<1>4. CASE ZRemEnd
    <2>1. /\ zcmd.op = "zrem" /\ zcmd' = ZSetIdle /\ zsaid' = <<"zrem", zcmd.count>>
          /\ zset' = IF zset.dict = NoZSet.dict THEN NoZSet ELSE zset
        BY <1>4 DEF ZRemEnd, EndZRounds
    <2>2. zset.bound = TRUE
        BY <1>1, <2>1 DEF ZLooping, ZStored
    <2>3. zset.dict = NoZSet.dict <=> ZKeys = {}
        <3>1. NoZSet.dict = [m \in {} |-> Nil]
            BY NoZSetHolds DEF ZAbs!EmptyDict
        <3>2. zset.dict \in [ZKeys -> Given]
            BY <1>1 DEF ZStored, ZKeys
        <3> QED BY <3>1, <3>2 DEF ZKeys
    <2>4. /\ ZStored(zset') /\ zset'.dict = zset.dict
          /\ zset'.bound = (ZKeys # {}) /\ zset'.real = (zset.real \/ ZKeys = {})
        <3>1. CASE ZKeys = {}
            BY <2>1, <2>3, <3>1, NoZSetHolds, NoZSetStored
        <3>2. CASE ZKeys # {}
            <4>1. zset.real \in BOOLEAN
                BY <1>1 DEF ZStored
            <4> QED BY <1>1, <2>1, <2>2, <2>3, <3>2, <4>1
        <3> QED BY <3>1, <3>2
    <2>5. ZSetIInv' /\ [op |-> zcmd'.op, before |-> zcmd'.before] = ZAbs!Nothing
        BY <2>1, <2>4, ZSetIdleKeeps
    <2>6. zcmd.count = ZAbs!Cardinality(zcmd.before \ ZAbs!Members)
        BY <1>1, <2>1, ZSetSameSize DEF ZCounted, ZKeys, ZAbs!Members
    <2> QED BY <2>1, <2>4, <2>5, <2>6 DEF ZAbs!Next, ZAbs!ZRemEnd, ZAbs!Ended, ZAbs!Members, ZKeys
<1> QED BY <1>2, <1>3, <1>4

(* A read leaves all as it was.                                            *)
LEMMA ZSetAnswerKeeps ==
    ASSUME ZSetIInv, NEW op, NEW val, ZSetAnswer(op, val)
    PROVE  ZSetIInv' /\ ZAbs!Said(op, val)
<1>1. zcmd = ZSetIdle /\ zcmd' = zcmd /\ zset' = zset /\ zsaid' = <<op, val>>
    BY DEF ZSetAnswer
<1>2. ZSetIInv' /\ [op |-> zcmd'.op, before |-> zcmd'.before] = ZAbs!Nothing
    BY <1>1, ZSetIdleKeeps DEF ZSetIInv
<1> QED BY <1>1, <1>2 DEF ZAbs!Said, ZAbs!Idle

(* A rank, found by the spans, is the number of members before.            *)
LEMMA ZRankKeeps ==
    ASSUME ZSetIInv, zset.real, NEW m \in ZMembers, ZRank(m)
    PROVE  ZSetIInv' /\ ZAbs!Next
<1> DEFINE rank == IF m \in DOMAIN zset.dict THEN GetRank(zset, zset.dict[m], m) ELSE 0
           val == <<m, IF rank = 0 THEN Nil ELSE rank - 1>>
<1>1. PICK s, h, n : Listed(zset, s, h, n)
    BY DEF ZSetIInv, ZStored, ZHolds
<1> DEFINE e == [p \in 1..n |-> zset.member[s[p]]]
<1>2. /\ Enumerated(zset.dict, e, n) /\ \A p \in 1..n : zset.dict[e[p]] = zset.score[s[p]]
      /\ \A p, q \in 1..n : zset.member[s[p]] = zset.member[s[q]] => p = q
    <2>1. Listed(zset, s, h, n) /\ Kept(zset) /\ e = [p \in 1..n |-> zset.member[s[p]]]
        BY <1>1 DEF ZSetIInv, ZStored, ZHolds
    <2> HIDE DEF e
    <2>2. Enumerated(zset.dict, e, n)
        BY ONLY <2>1, EnumeratedIs
    <2>3. Scored(zset, s, e, n)
        BY ONLY <2>1, EnumeratedIs
    <2>4. \A p, q \in 1..n : zset.member[s[p]] = zset.member[s[q]] => p = q
        BY ONLY <2>1, EnumeratedIs
    <2> QED BY <2>2, <2>3, <2>4 DEF Scored
<1>3. ZSetIInv' /\ ZAbs!Said("zrank", val)
    <2>1. ZSetAnswer("zrank", val)
        BY DEF ZRank
    <2> HIDE DEF val
    <2> QED BY <2>1, ZSetAnswerKeeps
<1>4. CASE m \notin DOMAIN zset.dict
    <2>1. val = <<m, IF m \in ZAbs!Members THEN ZAbs!Rank(m) ELSE Nil>>
        BY <1>4 DEF ZAbs!Members
    <2> HIDE DEF val
    <2> QED BY <1>3, <2>1 DEF ZAbs!Next, ZAbs!Read
<1>5. CASE m \in DOMAIN zset.dict
    <2>1. PICK j \in 1..n : m = e[j]
        <3> HIDE DEF e
        <3> QED BY <1>2, <1>5 DEF Enumerated
    <2> DEFINE sc == zset.dict[m]
    <2>2. m = zset.member[s[j]] /\ sc = zset.score[s[j]]
        BY <1>2, <2>1
    <2>3. rank = GetRank(zset, sc, m)
        BY <1>5
    <2> HIDE DEF sc
    <2>4. GetRank(zset, sc, m) = j \/ (m = 0 /\ GetRank(zset, sc, m) = 0)
        BY ONLY <1>1, <1>2, <2>2, j \in 1..n, GetRankIs
    <2>5. ZAbs!Rank(m) = j - 1 /\ m \in ZAbs!Members
        <3> HIDE DEF e
        <3>1. ZAbs!Rank(e[j]) = j - 1
            BY <1>2, RankIs
        <3> QED BY <1>5, <2>1, <3>1 DEF ZAbs!Members
    <2> HIDE DEF rank, e
    <2>6. CASE GetRank(zset, sc, m) = j
        <3>1. rank # 0 /\ rank - 1 = ZAbs!Rank(m)
            BY <2>3, <2>5, <2>6
        <3>2. val = <<m, IF m \in ZAbs!Members THEN ZAbs!Rank(m) ELSE Nil>>
            BY <2>5, <3>1
        <3> HIDE DEF val
        <3> QED BY <1>3, <3>2 DEF ZAbs!Next, ZAbs!Read
    <2>7. CASE m = 0 /\ GetRank(zset, sc, m) = 0
        <3>1. val = <<0, Nil>> /\ 0 \in ZAbs!Members
            BY <2>3, <2>5, <2>7
        <3> HIDE DEF val
        <3> QED BY <1>3, <3>1 DEF ZAbs!Next, ZAbs!Read
    <2> QED BY <2>4, <2>6, <2>7
<1> QED BY <1>4, <1>5

(* After a NaN, ranks and ranges may be any.                               *)
LEMMA UnorderedKeeps ==
    ASSUME ZSetIInv, ~zset.real, (\E m \in ZMembers : ZRank(m)) \/ ZRanges
    PROVE  ZSetIInv' /\ ZAbs!Next
<1>1. PICK op \in {"zrank", "zrange"} : \E val : ZSetAnswer(op, val)
    BY DEF ZRank, ZRanges
<1>2. PICK val : ZSetAnswer(op, val)
    BY <1>1
<1>3. ZSetIInv' /\ ZAbs!Said(op, val)
    BY <1>2, ZSetAnswerKeeps
<1>4. val = zsaid'[2]
    BY <1>2 DEF ZSetAnswer
<1> QED BY <1>3, <1>4 DEF ZAbs!Next, ZAbs!Read

(* The other reads, and ZREM of a missing key.                             *)
LEMMA ZSetReadKeeps ==
    ASSUME ZSetIInv, \/ (\E m \in ZMembers : ZScore(m)) \/ ZCard \/ ZRemMissing
                     \/ zset.real /\ ZRanges
    PROVE  ZSetIInv' /\ ZAbs!Next
<1>1. ASSUME NEW m \in ZMembers, ZScore(m) PROVE ZSetIInv' /\ ZAbs!Next
    <2> DEFINE val == <<m, IF m \in DOMAIN zset.dict THEN zset.dict[m] ELSE Nil>>
    <2>1. ZSetAnswer("zscore", val)
        BY <1>1 DEF ZScore
    <2>2. val = <<m, IF m \in ZAbs!Members THEN zset.dict[m] ELSE Nil>>
        BY DEF ZAbs!Members
    <2> HIDE DEF val
    <2>3. ZSetIInv' /\ ZAbs!Said("zscore", val)
        BY <2>1, ZSetAnswerKeeps
    <2> QED BY <2>2, <2>3 DEF ZAbs!Next, ZAbs!Read
<1>2. CASE ZCard
    <2>1. ZSetAnswer("zcard", Cardinality(DOMAIN zset.dict))
        BY <1>2 DEF ZCard
    <2>2. ZSetIInv' /\ ZAbs!Said("zcard", Cardinality(DOMAIN zset.dict))
        BY <2>1, ZSetAnswerKeeps
    <2>3. Cardinality(DOMAIN zset.dict) = ZAbs!Cardinality(ZAbs!Members)
        BY ZSetSameSize DEF ZAbs!Members
    <2> QED BY <2>2, <2>3 DEF ZAbs!Next, ZAbs!Read
<1>3. CASE zset.real /\ ZRanges
    <2> DEFINE val == [r \in Ranks \X Ranks |-> ZRange(zset, r[1], r[2])]
    <2>1. ZSetAnswer("zrange", val)
        BY <1>3 DEF ZRanges
    <2>2. PICK s, h, n : Listed(zset, s, h, n) /\ Kept(zset)
        BY <1>3 DEF ZSetIInv, ZStored, ZHolds
    <2>3. Ranks \subseteq Int
        BY DEF Ranks
    <2>4. ASSUME NEW r \in Ranks \X Ranks
          PROVE  ZRange(zset, r[1], r[2]) = ZAbs!Slice(ZAbs!InOrder, r[1], r[2])
        <3>1. r[1] \in Int /\ r[2] \in Int
            BY <2>3
        <3> QED BY ONLY <2>2, <3>1, ZRangeIs
    <2>5. val = [r \in Ranks \X Ranks |-> ZAbs!Slice(ZAbs!InOrder, r[1], r[2])]
        BY <2>4
    <2> HIDE DEF val
    <2>6. ZSetIInv' /\ ZAbs!Said("zrange", val)
        BY <2>1, ZSetAnswerKeeps
    <2> QED BY <1>3, <2>5, <2>6 DEF ZAbs!Next, ZAbs!Read
<1>4. CASE ZRemMissing
    <2>1. zset.bound = FALSE /\ ZSetAnswer("zrem", 0)
        BY <1>4 DEF ZRemMissing, ZSetIInv, ZStored
    <2>2. ZSetIInv' /\ ZAbs!Said("zrem", 0)
        BY <2>1, ZSetAnswerKeeps
    <2> QED BY <2>1, <2>2 DEF ZAbs!Next, ZAbs!ZRemNothing
<1> QED BY <1>1, <1>2, <1>3, <1>4

(* The key goes, with its sorted set.                                      *)
LEMMA ZSetDroppedKeeps ==
    ASSUME ZSetIInv, ZSetDropped
    PROVE  ZSetIInv' /\ ZAbs!Drop
<1>1. zcmd = ZSetIdle /\ zcmd' = zcmd /\ zset' = NoZSet /\ zsaid' = NoAnswer
    BY DEF ZSetDropped
<1>2. ZSetIInv' /\ [op |-> zcmd'.op, before |-> zcmd'.before] = ZAbs!Nothing
    BY <1>1, NoZSetStored, ZSetIdleKeeps
<1> QED BY <1>1, <1>2, NoZSetHolds DEF ZAbs!Drop, ZAbs!Idle, ZAbs!NoAnswer, NoAnswer

(* There is no sorted set at first.                                        *)
LEMMA ZSetInitIInv == ZSetInit => ZSetIInv /\ ZAbs!Init
<1> SUFFICES ASSUME ZSetInit PROVE ZSetIInv /\ ZAbs!Init
    OBVIOUS
<1>1. zset = NoZSet /\ zcmd = ZSetIdle /\ zsaid = NoAnswer
    BY DEF ZSetInit
<1>2. /\ ZSetIdle \in [op : {"none", "zadd", "zrem"}, n : 0..MaxArgs, count : 0..MaxArgs,
                       before : SUBSET ZMembers]
      /\ ZSetIdle.op = "none" /\ ZSetIdle.count <= ZSetIdle.n /\ IsFiniteSet(ZSetIdle.before)
    BY ReplyAssumption, FS_EmptySet DEF ZSetIdle
<1>3. ZSetIInv
    BY <1>1, <1>2, NoZSetStored DEF ZSetIInv, ZLooping, ZCounted
<1>4. ZAbs!Init
    BY <1>1, NoZSetHolds DEF ZAbs!Init, ZAbs!Nothing, ZSetIdle, ZAbs!NoAnswer, NoAnswer
<1> QED BY <1>3, <1>4

(* A step of a command on the skip list is one on the abstract map.        *)
LEMMA ZSetNextIInv ==
    ZSetIInv /\ [ZSetNext]_zsetVars =>
        ZSetIInv' /\ [ZAbs!Next]_<<zset.bound, zset.dict, zset.real,
                                   [op |-> zcmd.op, before |-> zcmd.before], zsaid>>
<1> SUFFICES ASSUME ZSetIInv, [ZSetNext]_zsetVars
             PROVE  ZSetIInv' /\ [ZAbs!Next]_<<zset.bound, zset.dict, zset.real,
                                               [op |-> zcmd.op, before |-> zcmd.before], zsaid>>
    OBVIOUS
<1>1. ASSUME NEW s \in Given, NEW m \in ZMembers, ZAdd(s, m)
      PROVE  ZSetIInv' /\ ZAbs!Next
    BY <1>1, ZAddKeeps DEF ZAbs!Next, Given
<1>2. ASSUME NEW m \in ZMembers, ZRem(m)
      PROVE  ZSetIInv' /\ ZAbs!Next
    BY <1>2, ZRemKeeps DEF ZAbs!Next
<1>3. ASSUME NEW m \in ZMembers, ZRank(m)
      PROVE  ZSetIInv' /\ ZAbs!Next
    BY <1>3, ZRankKeeps, UnorderedKeeps
<1>4. CASE ZAddEnd \/ ZAddBad \/ ZRemEnd
    BY <1>4, ZSetEndsKeep
<1>5. CASE (\E m \in ZMembers : ZScore(m)) \/ ZCard \/ ZRanges \/ ZRemMissing
    BY <1>5, ZSetReadKeeps, UnorderedKeeps
<1>6. CASE ZSetDropped
    BY <1>6, ZSetDroppedKeeps DEF ZAbs!Next
<1>7. CASE UNCHANGED zsetVars
    BY <1>7 DEF zsetVars, ZSetIInv, ZLooping, ZCounted, ZKeys
<1> QED BY <1>1, <1>2, <1>3, <1>4, <1>5, <1>6, <1>7 DEF ZSetNext

(* The strengthened invariant of the sorted set commands of a key.         *)
THEOREM ZSetAlwaysIInv == ZSetSpec => []ZSetIInv
<1>1. ZSetInit => ZSetIInv
    BY ZSetInitIInv
<1>2. ZSetIInv /\ [ZSetNext]_zsetVars => ZSetIInv'
    BY ZSetNextIInv
<1> QED BY <1>1, <1>2, PTL DEF ZSetSpec

(* The skip list and its map are one map from members to scores, whatever  *)
(* the scores; and as long as none has been NaN, the spans give the ranks  *)
(* and the ranges of its order (skiplist.go:82-275, eval_zset.go:66-84).   *)
THEOREM ZSetImplementation == ZSetSpec => ImplementsZSet
<1>1. ZSetInit => ZAbs!Init
    BY ZSetInitIInv
<1>2. ZSetIInv /\ [ZSetNext]_zsetVars =>
          [ZAbs!Next]_<<zset.bound, zset.dict, zset.real,
                        [op |-> zcmd.op, before |-> zcmd.before], zsaid>>
    BY ZSetNextIInv
<1> QED BY <1>1, <1>2, ZSetAlwaysIInv, PTL DEF ZSetSpec, ImplementsZSet, ZAbs!Spec
-----------------------------------------------------------------------------
(* Sorted sets: the places, and the types.                                 *)

(* What the fields of a node are.                                          *)
LEMMA NodeFieldsAre ==
    ASSUME NEW z, NEW s, NEW h, NEW n, Listed(z, s, h, n), NEW a \in Addresses(z)
    PROVE  /\ Height(z, a) \in Levels /\ Len(z.span[a]) = Height(z, a)
           /\ z.forward[a] \in Seq(NodesOf(z) \cup {Null}) /\ z.span[a] \in Seq(Nat)
           /\ z.backward[a] \in NodesOf(z) \cup {Null}
<1>1. /\ Placed(z, s, n) /\ Tall(z, h, n) /\ Linked(z, s, h, n) /\ Backed(z, s, n) /\ n \in Nat
    BY DEF Listed, Placed
<1>2. PICK p \in 0..n : a = s[p]
    BY <1>1 DEF Placed
<1>3. NodesOf(z) = {s[q] : q \in 1..n}
    BY <1>1, NodesAre
<1>4. \A q : NodeAt(s, n, q) \in NodesOf(z) \cup {Null}
    BY <1>3 DEF NodeAt
<1>5. h[p] \in Levels /\ h[p] \in Nat
    BY <1>1 DEF Tall, Levels
<1>6. z.forward[a] \in [1..h[p] -> Int] /\ z.span[a] \in [1..h[p] -> Nat]
    BY <1>1, <1>2 DEF Linked
<1>7. \A i \in 1..h[p] : z.forward[a][i] \in NodesOf(z) \cup {Null}
    <2>1. \A i \in 1..h[p] : Leads(z, s, h, n, p, i)
        BY <1>1 DEF Linked
    <2>2. \A i \in 1..h[p] : \E q : z.forward[a][i] = NodeAt(s, n, q)
        BY <1>2, <2>1 DEF Leads
    <2> QED BY <1>4, <2>2
<1>8. z.forward[a] \in Seq(NodesOf(z) \cup {Null}) /\ Len(z.forward[a]) = h[p]
    <2> DEFINE f == z.forward[a]
               S == NodesOf(z) \cup {Null}
    <2>1. f \in [1..h[p] -> S]
        BY <1>6, <1>7
    <2> HIDE DEF f, S
    <2>2. f \in Seq(S) /\ Len(f) = h[p]
        BY <1>5, <2>1
    <2> QED BY <2>2 DEF f, S
<1>9. z.span[a] \in Seq(Nat) /\ Len(z.span[a]) = h[p]
    <2> DEFINE f == z.span[a]
    <2>1. f \in [1..h[p] -> Nat]
        BY <1>6
    <2> HIDE DEF f
    <2>2. f \in Seq(Nat) /\ Len(f) = h[p]
        BY <1>5, <2>1
    <2> QED BY <2>2 DEF f
<1>10. z.backward[a] \in NodesOf(z) \cup {Null}
    BY <1>1, <1>2, <1>4 DEF Backed
<1> QED BY <1>5, <1>8, <1>9, <1>10 DEF Height

(* What the invariant says of the types.                                   *)
LEMMA ZSetIsTyped == ZSetIInv => (zset.real => ZSetTypeOK)
<1> SUFFICES ASSUME ZSetIInv, zset.real PROVE ZSetTypeOK
    OBVIOUS
<1>1. PICK s, h, n : Listed(zset, s, h, n)
    BY DEF ZSetIInv, ZStored, ZHolds
<1>2. /\ Shaped(zset) /\ Placed(zset, s, n) /\ Tall(zset, h, n) /\ Ordered(zset, s, n)
      /\ Backed(zset, s, n) /\ n \in Nat
    BY <1>1 DEF Listed, Placed
<1>3. NodesOf(zset) = {s[q] : q \in 1..n} /\ Addresses(zset) = {s[q] : q \in 0..n} /\ s[0] = Header
    BY <1>2, NodesAre DEF Placed
<1>4. /\ zset.bound \in BOOLEAN /\ zset.real \in BOOLEAN
      /\ zset.level \in Levels /\ zset.length \in Nat
    BY <1>2 DEF ZSetIInv, ZStored, Tall, Placed
<1>5. zset.dict \in UNION {[D -> Given] : D \in SUBSET ZMembers}
    <2> DEFINE D == DOMAIN zset.dict
    <2>1. zset.dict \in [D -> Given] /\ D \in SUBSET ZMembers
        BY DEF ZSetIInv, ZStored
    <2> HIDE DEF D
    <2> QED BY <2>1
<1>6. \A a \in Addresses(zset) : zset.member[a] \in ZMembers \cup {0} /\ zset.score[a] \in Given \cup {0}
    <2>1. \A q \in 1..n : zset.member[s[q]] \in ZMembers /\ zset.score[s[q]] \in Given
        BY <1>2 DEF Ordered, Given
    <2>2. zset.member[s[0]] = 0 /\ zset.score[s[0]] = 0
        BY <1>2, <1>3 DEF Ordered
    <2>3. \A q \in 0..n : q = 0 \/ q \in 1..n
        BY <1>2
    <2> QED BY <1>3, <2>1, <2>2, <2>3
<1>7. /\ zset.member \in [Addresses(zset) -> ZMembers \cup {0}]
      /\ zset.score \in [Addresses(zset) -> Given \cup {0}]
    <2>1. DOMAIN zset.member = Addresses(zset) /\ DOMAIN zset.score = Addresses(zset)
        BY <1>2 DEF Addresses, Ordered
    <2>2. /\ zset.member = [a \in Addresses(zset) |-> zset.member[a]]
          /\ zset.score = [a \in Addresses(zset) |-> zset.score[a]]
        BY <1>2, <2>1 DEF Shaped
    <2> QED BY <1>6, <2>2
<1>8. zset.tail \in NodesOf(zset) \cup {Null}
    BY <1>2, <1>3 DEF Backed, NodeAt
<1>9. \A a \in Addresses(zset) :
        /\ Height(zset, a) \in Levels /\ Len(zset.span[a]) = Height(zset, a)
        /\ zset.forward[a] \in Seq(NodesOf(zset) \cup {Null}) /\ zset.span[a] \in Seq(Nat)
        /\ zset.backward[a] \in NodesOf(zset) \cup {Null}
    <2> SUFFICES ASSUME NEW a \in Addresses(zset)
                 PROVE  /\ Height(zset, a) \in Levels /\ Len(zset.span[a]) = Height(zset, a)
                        /\ zset.forward[a] \in Seq(NodesOf(zset) \cup {Null}) /\ zset.span[a] \in Seq(Nat)
                        /\ zset.backward[a] \in NodesOf(zset) \cup {Null}
        OBVIOUS
    <2> QED BY ONLY <1>1, a \in Addresses(zset), NodeFieldsAre
<1>10. zcmd \in [op : {"none", "zadd", "zrem"}, n : 0..MaxArgs, count : 0..MaxArgs,
                 before : SUBSET ZMembers]
    BY DEF ZSetIInv, ZLooping
<1> QED BY <1>4, <1>5, <1>7, <1>8, <1>9, <1>10 DEF ZSetTypeOK

(* As long as no score has been NaN, a skip list has its bounds, and every *)
(* node as many links as levels.                                           *)
THEOREM ZSetTypeCorrect == ZSetSpec => [](zset.real => ZSetTypeOK)
    BY ZSetIsTyped, ZSetAlwaysIInv, PTL

(* The position of a node, which counts those less than it, is its place.  *)
LEMMA PositionIs ==
    ASSUME NEW z, NEW s, NEW h, NEW n, Listed(z, s, h, n), NEW p \in 0..n
    PROVE  Position(z, s[p]) = p
<1>1. /\ Placed(z, s, n) /\ Ordered(z, s, n) /\ n \in Nat /\ s[0] = Header
      /\ \A q, r \in 0..n : s[q] = s[r] => q = r
    BY DEF Listed, Placed
<1>2. NodesOf(z) = {s[q] : q \in 1..n} /\ (s[p] = Header <=> p = 0)
    BY <1>1, NodesAre
<1>3. CASE p = 0
    BY <1>2, <1>3 DEF Position
<1>4. CASE p # 0
    <2> DEFINE sc == z.score[s[p]]
               m == z.member[s[p]]
               S == {b \in NodesOf(z) : Less(z, b, sc, m)}
    <2>1. p \in 1..n /\ p - 1 \in Nat /\ Position(z, s[p]) = 1 + Cardinality(S)
        BY <1>1, <1>2, <1>4 DEF Position
    <2>2. \A q \in 1..n : Less(z, s[q], sc, m) <=> q < p
        <3>1. \A q \in 1..n : z.score[s[q]] \in Int /\ z.member[s[q]] \in Int
            <4>1. Scores \subseteq Int /\ ZMembers \subseteq Int
                BY ZSetAssumption
            <4> QED BY <1>1, <4>1 DEF Ordered
        <3>2. \A q, r \in 1..n : q < r => \/ z.score[s[q]] < z.score[s[r]]
                                          \/ z.score[s[q]] = z.score[s[r]] /\ z.member[s[q]] < z.member[s[r]]
            BY <1>1, OrderMeans
        <3> SUFFICES ASSUME NEW q \in 1..n PROVE Less(z, s[q], sc, m) <=> q < p
            OBVIOUS
        <3> DEFINE a == z.score[s[q]]
                   c == z.member[s[q]]
        <3>3. a \in Int /\ c \in Int /\ sc \in Int /\ m \in Int
            BY <2>1, <3>1
        <3>4. Less(z, s[q], sc, m) <=> a < sc \/ (a = sc /\ c < m)
            <4>1. sc \in Scores
                BY <1>1, <2>1 DEF Ordered
            <4> QED BY <1>1, <4>1, OrderMeans
        <3>5. /\ q < p => a < sc \/ (a = sc /\ c < m)
              /\ p < q => sc < a \/ (sc = a /\ m < c)
            BY <2>1, <3>2
        <3>6. q = p => a = sc /\ c = m
            OBVIOUS
        <3> HIDE DEF a, c, sc, m
        <3> QED BY <1>1, <2>1, <3>3, <3>4, <3>5, <3>6
    <2> HIDE DEF sc, m
    <2>3. S = {s[q] : q \in 1..(p - 1)}
        <3>1. \A q \in 1..(p - 1) : q \in 1..n /\ q < p
            BY <1>1, <2>1
        <3>2. \A q \in 1..n : q < p => q \in 1..(p - 1)
            BY <1>1, <2>1
        <3> QED BY <1>2, <2>2, <3>1, <3>2
    <2>4. \A q, r \in 1..(p - 1) : s[q] = s[r] => q = r
        BY <1>1, <2>1
    <2>5. Cardinality(S) = p - 1
        <3> HIDE DEF S
        <3> QED BY <2>1, <2>3, <2>4, CountedIs
    <2> HIDE DEF S
    <2> QED BY <2>1, <2>5
<1> QED BY <1>3, <1>4

(* The list is as high as the highest node.                                *)
LEMMA LevelIs ==
    ASSUME NEW z, NEW s, NEW h, NEW n, Listed(z, s, h, n)
    PROVE  z.level = Max({1} \cup {Height(z, a) : a \in NodesOf(z)})
<1> DEFINE S == {1} \cup {Height(z, a) : a \in NodesOf(z)}
<1>1. Placed(z, s, n) /\ Tall(z, h, n) /\ Linked(z, s, h, n) /\ n \in Nat
    BY DEF Listed, Placed
<1>2. NodesOf(z) = {s[p] : p \in 1..n}
    BY <1>1, NodesAre
<1>3. \A p \in 1..n : Height(z, s[p]) = h[p]
    <2> SUFFICES ASSUME NEW p \in 1..n PROVE Height(z, s[p]) = h[p]
        OBVIOUS
    <2>1. z.forward[s[p]] \in [1..h[p] -> Int] /\ h[p] \in Nat
        BY <1>1 DEF Linked, Tall, Levels
    <2> QED BY <2>1 DEF Height
<1>4. S = {1} \cup {h[p] : p \in 1..n}
    BY <1>2, <1>3
<1>5. z.level \in S /\ \A y \in S : y <= z.level
    <2>1. z.level \in Nat /\ 1 <= z.level
        BY <1>1 DEF Tall, Levels
    <2>2. z.level = 1 \/ \E p \in 1..n : h[p] = z.level
        BY <1>1 DEF Tall
    <2>3. \A p \in 1..n : h[p] <= z.level
        BY <1>1 DEF Tall
    <2> HIDE DEF S
    <2> QED BY <1>4, <2>1, <2>2, <2>3
<1>6. S \in SUBSET Nat /\ z.level \in Nat
    <2>1. \A p \in 1..n : h[p] \in Nat
        BY <1>1 DEF Tall, Levels
    <2> HIDE DEF S
    <2> QED BY <1>1, <1>4, <2>1 DEF Tall, Levels
<1> HIDE DEF S
<1>7. Max(S) \in S /\ \A y \in S : y <= Max(S)
    <2>1. S \in SUBSET (0..z.level) /\ S # {}
        BY <1>5, <1>6
    <2> QED BY <1>6, <2>1, GreatestIs
<1>8. Max(S) = z.level
    <2>1. Max(S) \in Nat /\ Max(S) <= z.level /\ z.level <= Max(S)
        BY <1>5, <1>6, <1>7
    <2> QED BY <1>6, <2>1
<1> QED BY <1>8 DEF S

(* What the skip list should be, with the positions that the order gives.  *)
LEMMA ZSetIsSound == ZSetIInv => SkipListSound
<1>14. CASE ~zset.real
    BY <1>14 DEF SkipListSound
<1> SUFFICES ASSUME ZSetIInv, zset.real PROVE SkipListSound
    BY <1>14
<1>1. PICK s, h, n : Listed(zset, s, h, n)
    BY DEF ZSetIInv, ZStored, ZHolds
<1>2. /\ Placed(zset, s, n) /\ Tall(zset, h, n) /\ Linked(zset, s, h, n)
      /\ Ordered(zset, s, n) /\ Backed(zset, s, n) /\ n \in Nat /\ zset.length = n
      /\ s \in [0..n -> Nat] /\ s[0] = Header /\ \A p, q \in 0..n : s[p] = s[q] => p = q
    BY <1>1 DEF Listed, Placed
<1>3. /\ NodesOf(zset) = {s[p] : p \in 1..n} /\ NodesOf(zset) \cup {Header} = {s[p] : p \in 0..n}
      /\ \A p \in 0..n : (s[p] \in NodesOf(zset) <=> p # 0) /\ s[p] # Null
    <2>1. NodesOf(zset) = {s[p] : p \in 1..n} /\ \A p \in 0..n : s[p] = Header <=> p = 0
        BY <1>2, NodesAre
    <2>2. \A p : p \in 0..n <=> p = 0 \/ p \in 1..n
        BY <1>2
    <2>3. \A p \in 0..n : s[p] # Null
        BY <1>2 DEF Null
    <2>4. NodesOf(zset) \cup {Header} = {s[p] : p \in 0..n}
        BY <1>2, <2>1, <2>2
    <2>5. \A p \in 1..n : p # 0 /\ p \in 0..n
        BY <1>2
    <2>6. \A p \in 0..n : s[p] \in NodesOf(zset) <=> p # 0
        BY <1>2, <2>1, <2>2, <2>5
    <2> QED BY <2>1, <2>3, <2>4, <2>6
<1> DEFINE nodes == NodesOf(zset)
           pos == [a \in nodes \cup {Header} |-> Position(zset, a)]
           At(p) == {a \in nodes : pos[a] = p}
           High(i) == {a \in nodes : Height(zset, a) >= i}
           Later(a, i) == {b \in High(i) : pos[b] > pos[a]}
           Nearest(a, i) == CHOOSE b \in Later(a, i) : \A c \in Later(a, i) : pos[b] <= pos[c]
<1>4. \A p \in 0..n : pos[s[p]] = p
    <2>1. \A p \in 0..n : Position(zset, s[p]) = p
        <3> SUFFICES ASSUME NEW p \in 0..n PROVE Position(zset, s[p]) = p
            OBVIOUS
        <3> QED BY ONLY <1>1, p \in 0..n, PositionIs
    <2> QED BY <1>3, <2>1
<1>5. \A p \in 0..n : Height(zset, s[p]) = h[p] /\ h[p] \in Nat
    <2> SUFFICES ASSUME NEW p \in 0..n PROVE Height(zset, s[p]) = h[p] /\ h[p] \in Nat
        OBVIOUS
    <2>1. zset.forward[s[p]] \in [1..h[p] -> Int] /\ h[p] \in Nat
        BY <1>2 DEF Linked, Tall, Levels
    <2> QED BY <2>1 DEF Height
<1> HIDE DEF pos
<1>6. zset.length = Cardinality(nodes) /\ zset.length = Cardinality(DOMAIN zset.dict)
    <2>1. IsFiniteSet({s[p] : p \in 1..n}) /\ Cardinality({s[p] : p \in 1..n}) = n
        <3>1. n \in Nat /\ \A p, q \in 1..n : s[p] = s[q] => p = q
            BY <1>2
        <3> QED BY ONLY <3>1, CountedIs
    <2> DEFINE e == [p \in 1..n |-> zset.member[s[p]]]
    <2>2. Enumerated(zset.dict, e, n)
        BY <1>1, EnumeratedIs DEF ZSetIInv, ZStored, ZHolds
    <2> HIDE DEF e
    <2>3. Cardinality(DOMAIN zset.dict) = n
        BY <2>2, EnumeratedDiffer
    <2> QED BY <1>2, <1>3, <2>1, <2>3
<1>7. \A a \in nodes : zset.member[a] \in DOMAIN zset.dict /\ zset.score[a] = zset.dict[zset.member[a]]
    <2> SUFFICES ASSUME NEW a \in nodes
                 PROVE  zset.member[a] \in DOMAIN zset.dict /\ zset.score[a] = zset.dict[zset.member[a]]
        OBVIOUS
    <2>1. <<zset.member[a], zset.score[a]>> \in {<<m, zset.dict[m]>> : m \in DOMAIN zset.dict}
        <3>1. <<zset.member[a], zset.score[a]>> \in MemberScores(zset)
            BY DEF MemberScores
        <3> QED BY <3>1 DEF ZSetIInv, ZStored, ZHolds, Kept
    <2>2. PICK m \in DOMAIN zset.dict : <<zset.member[a], zset.score[a]>> = <<m, zset.dict[m]>>
        BY <2>1
    <2> QED BY <2>2
<1>8. zset.level = Max({1} \cup {Height(zset, a) : a \in nodes})
    BY ONLY <1>1, LevelIs
<1>9. \A a \in nodes \cup {Header} : \A i \in 1..zset.level :
        i <= Height(zset, a) =>
            IF Later(a, i) = {}
            THEN /\ zset.forward[a][i] = Null
                 /\ zset.span[a][i] = zset.length - pos[a]
            ELSE /\ zset.forward[a][i] = Nearest(a, i)
                 /\ zset.span[a][i] = pos[Nearest(a, i)] - pos[a]
    <2> SUFFICES ASSUME NEW a \in nodes \cup {Header}, NEW i \in 1..zset.level, i <= Height(zset, a)
                 PROVE  IF Later(a, i) = {}
                        THEN /\ zset.forward[a][i] = Null
                             /\ zset.span[a][i] = zset.length - pos[a]
                        ELSE /\ zset.forward[a][i] = Nearest(a, i)
                             /\ zset.span[a][i] = pos[Nearest(a, i)] - pos[a]
        OBVIOUS
    <2>1. PICK p \in 0..n : a = s[p]
        BY <1>3
    <2>2. i \in Nat /\ i \in 1..h[p] /\ pos[a] = p /\ i <= zset.level
        <3>1. zset.level \in Nat
            BY <1>2 DEF Tall, Levels
        <3> QED BY <1>4, <1>5, <2>1, <3>1
    <2>3. PICK q \in (p + 1)..(n + 1) :
              /\ NextUp(h, n, i, p, q) /\ zset.forward[a][i] = NodeAt(s, n, q)
              /\ i <= zset.level => zset.span[a][i] = Reach(n, q) - p
        BY SMTT(30), <1>2, <2>1, <2>2 DEF Linked, Leads
    <2>4. \A r \in 0..n : s[r] \in Later(a, i) <=> r > p /\ h[r] >= i
        BY <1>2, <1>3, <1>4, <1>5, <2>2
    <2>5. \A b \in Later(a, i) : \E r \in 0..n : b = s[r]
        <3>1. \A r \in 1..n : r \in 0..n
            BY <1>2
        <3> QED BY <1>3, <3>1
    <2> HIDE DEF Later
    <2>6. CASE q > n
        <3>1. \A r \in 0..n : ~(r > p /\ h[r] >= i)
            BY SMTT(30), <1>2, <1>5, <2>2, <2>3, <2>6 DEF NextUp
        <3>2. Later(a, i) = {}
            BY <2>4, <2>5, <3>1
        <3>3. NodeAt(s, n, q) = Null /\ Reach(n, q) = n
            BY <1>2, <2>6 DEF NodeAt, Reach
        <3> QED BY <1>2, <2>2, <2>3, <3>2, <3>3
    <2>7. CASE q <= n
        <3>1. q \in 0..n /\ q \in 1..n /\ q > p /\ h[q] >= i
            BY <1>2, <2>3, <2>7 DEF NextUp
        <3>2. s[q] \in Later(a, i)
            BY <2>4, <3>1
        <3>3. \A r \in 0..n : r > p /\ h[r] >= i => q <= r
            BY <1>2, <1>5, <2>2, <2>3, <2>7 DEF NextUp
        <3>4. \A b \in Later(a, i) : pos[s[q]] <= pos[b]
            BY <1>4, <2>4, <2>5, <3>1, <3>3
        <3>5. \A b \in Later(a, i) : (\A c \in Later(a, i) : pos[b] <= pos[c]) => b = s[q]
            <4> SUFFICES ASSUME NEW b \in Later(a, i), \A c \in Later(a, i) : pos[b] <= pos[c]
                         PROVE  b = s[q]
                OBVIOUS
            <4>1. PICK r \in 0..n : b = s[r]
                BY <2>5
            <4>2. r <= q /\ q <= r
                BY <1>4, <3>1, <3>2, <3>4, <4>1
            <4>3. r = q
                BY <3>1, <4>2
            <4> QED BY <4>1, <4>3
        <3>6. Nearest(a, i) = s[q]
            BY <3>2, <3>4, <3>5
        <3> HIDE DEF Nearest
        <3>7. NodeAt(s, n, q) = s[q] /\ Reach(n, q) = q /\ pos[s[q]] = q
            BY <1>4, <2>7, <3>1 DEF NodeAt, Reach
        <3>8. Later(a, i) # {}
            BY <3>2
        <3> QED BY <2>2, <2>3, <3>6, <3>7, <3>8
    <2> QED BY <1>2, <2>6, <2>7
<1>10. \A p \in Int : At(p) = IF p \in 1..n THEN {s[p]} ELSE {}
    <2> SUFFICES ASSUME NEW p \in Int PROVE At(p) = IF p \in 1..n THEN {s[p]} ELSE {}
        OBVIOUS
    <2>1. \A r \in 1..n : pos[s[r]] = r
        BY <1>2, <1>4
    <2> QED BY <1>3, <2>1
<1> HIDE DEF At
<1>11. \A p \in 0..n : At(p) = IF NodeAt(s, n, p) = Null THEN {} ELSE {NodeAt(s, n, p)}
    <2> SUFFICES ASSUME NEW p \in 0..n
                 PROVE  At(p) = IF NodeAt(s, n, p) = Null THEN {} ELSE {NodeAt(s, n, p)}
        OBVIOUS
    <2> QED BY <1>3, <1>10 DEF NodeAt
<1>12. \A a \in nodes : At(pos[a] - 1) = IF zset.backward[a] = Null THEN {} ELSE {zset.backward[a]}
    <2> SUFFICES ASSUME NEW a \in nodes
                 PROVE  At(pos[a] - 1) = IF zset.backward[a] = Null THEN {} ELSE {zset.backward[a]}
        OBVIOUS
    <2>1. PICK p \in 1..n : a = s[p]
        BY <1>3
    <2>2. p \in 0..n /\ p - 1 \in 0..n /\ pos[a] = p
        BY <1>2, <1>4, <2>1
    <2>3. zset.backward[a] = NodeAt(s, n, p - 1)
        BY <1>2, <2>1, <2>2 DEF Backed
    <2> QED BY <1>11, <2>2, <2>3
<1>13. At(zset.length) = IF zset.tail = Null THEN {} ELSE {zset.tail}
    BY <1>2, <1>11 DEF Backed
<1> QED BY <1>6, <1>7, <1>8, <1>9, <1>12, <1>13 DEF SkipListSound, pos, At

(* On every level, whatever the heights that were drawn, the links lead to *)
(* the next node in the order of the scores and the spans say how far it   *)
(* is; the map has the same members (skiplist.go:82-176).  All of it as    *)
(* long as no score has been NaN (eval_zset.go:66), and again when a set   *)
(* that has had one is gone.                                               *)
THEOREM SkipListAlwaysSound == ZSetSpec => []SkipListSound
    BY ZSetIsSound, ZSetAlwaysIInv, PTL
-----------------------------------------------------------------------------
(* All the types.                                                          *)
(* To the hash, every step is one of a hash command.                       *)
LEMMA HashSteps == [Next]_vars => [HashNext]_hashVars
<1> SUFFICES ASSUME [Next]_vars PROVE [HashNext]_hashVars
    OBVIOUS
<1>1. CASE HashCommand
    BY <1>1 DEF HashCommand
<1>2. CASE StrCommand \/ SetCommand \/ ZSetCommand \/ ListCommand \/ Overwrite
    <2>1. HashDropped
        BY <1>2 DEF StrCommand, SetCommand, ZSetCommand, ListCommand, Overwrite, NoneOf, Types
    <2> QED BY <2>1 DEF HashNext
<1>3. CASE UNCHANGED vars
    BY <1>3 DEF vars
<1> QED BY <1>1, <1>2, <1>3 DEF Next

(* To the set, every step is one of a set command.                         *)
LEMMA SetSteps == [Next]_vars => [SetNext]_setVars
<1> SUFFICES ASSUME [Next]_vars PROVE [SetNext]_setVars
    OBVIOUS
<1>1. CASE SetCommand
    BY <1>1 DEF SetCommand
<1>2. CASE StrCommand \/ HashCommand \/ ZSetCommand \/ ListCommand \/ Overwrite
    <2>1. SetDropped
        BY <1>2 DEF StrCommand, HashCommand, ZSetCommand, ListCommand, Overwrite, NoneOf, Types
    <2> QED BY <2>1 DEF SetNext
<1>3. CASE UNCHANGED vars
    BY <1>3 DEF vars
<1> QED BY <1>1, <1>2, <1>3 DEF Next

(* To the sorted set, every step is one of a sorted set command.           *)
LEMMA ZSetSteps == [Next]_vars => [ZSetNext]_zsetVars
<1> SUFFICES ASSUME [Next]_vars PROVE [ZSetNext]_zsetVars
    OBVIOUS
<1>1. CASE ZSetCommand
    BY <1>1 DEF ZSetCommand
<1>2. CASE StrCommand \/ HashCommand \/ SetCommand \/ ListCommand \/ Overwrite
    <2>1. ZSetDropped
        BY <1>2 DEF StrCommand, HashCommand, SetCommand, ListCommand, Overwrite, NoneOf, Types
    <2> QED BY <2>1 DEF ZSetNext
<1>3. CASE UNCHANGED vars
    BY <1>3 DEF vars
<1> QED BY <1>1, <1>2, <1>3 DEF Next

(* To the list, every step is one of a list command.                       *)
LEMMA ListSteps == [Next]_vars => [ListNext]_listVars
<1> SUFFICES ASSUME [Next]_vars PROVE [ListNext]_listVars
    OBVIOUS
<1>1. CASE ListCommand
    BY <1>1 DEF ListCommand
<1>2. CASE StrCommand \/ HashCommand \/ SetCommand \/ ZSetCommand \/ Overwrite
    <2>1. ListDropped
        BY <1>2 DEF StrCommand, HashCommand, SetCommand, ZSetCommand, Overwrite, NoneOf, Types
    <2> QED BY <2>1 DEF ListNext
<1>3. CASE UNCHANGED vars
    BY <1>3 DEF vars
<1> QED BY <1>1, <1>2, <1>3 DEF Next

(* Among the commands of all the types, those of hashes are still those.   *)
THEOREM HashWithin == Spec => HashSpec
<1>1. Init => HashInit
    BY DEF Init
<1> QED BY <1>1, HashSteps, PTL DEF Spec, HashSpec

(* And those of sets.                                                      *)
THEOREM SetWithin == Spec => SetSpec
<1>1. Init => SetInit
    BY DEF Init
<1> QED BY <1>1, SetSteps, PTL DEF Spec, SetSpec

(* And those of sorted sets.                                               *)
THEOREM ZSetWithin == Spec => ZSetSpec
<1>1. Init => ZSetInit
    BY DEF Init
<1> QED BY <1>1, ZSetSteps, PTL DEF Spec, ZSetSpec

(* And those of lists.                                                     *)
THEOREM ListWithin == Spec => ListSpec
<1>1. Init => ListInit
    BY DEF Init
<1> QED BY <1>1, ListSteps, PTL DEF Spec, ListSpec
-----------------------------------------------------------------------------
StrIInv == StrTypeOK /\ TagTold

(* A string that is stored is tagged for what it is.                       *)
LEMMA TaggedTruly ==
    ASSUME NEW v \in Strings
    PROVE  /\ Tagged(v) \in [enc : {"int", "text"}, val : Strings]
           /\ Tagged(v).enc = "int" <=> IsInt(Tagged(v).val)
    BY DEF Tagged

(* A key that is missing counts from 0, and a counter keeps its tag.       *)
LEMMA ShiftKeeps ==
    ASSUME StrIInv, NEW d \in Int, Shift(d)
    PROVE  StrIInv'
<1> DEFINE s == IF str = NoStr THEN [enc |-> "int", val |-> Decimal[0]] ELSE str
           n == Wrap((IF IsInt(s.val) THEN Parse[s.val] ELSE 0) + d)
<1>1. 0 \in Numbers
    BY WordAssumption DEF Numbers
<1>2. /\ s \in [enc : {"int", "text"}, val : Strings]
      /\ s.enc = "int" <=> IsInt(s.val)
    <2>1. CASE str = NoStr
        BY <1>1, <2>1, Decimals
    <2>2. CASE str # NoStr
        BY <2>2 DEF StrIInv, StrTypeOK, TagTold
    <2> QED BY <2>1, <2>2
<1>3. IF s.enc # "int" THEN str' = s ELSE str' = [s EXCEPT !.val = Decimal[n]]
    BY DEF Shift
<1> HIDE DEF s
<1>4. n \in Numbers
    <2>1. (IF IsInt(s.val) THEN Parse[s.val] ELSE 0) \in Int
        BY <1>1, <1>2, Decimals
    <2>2. (IF IsInt(s.val) THEN Parse[s.val] ELSE 0) + d \in Int
        BY <2>1
    <2> QED BY <2>2, WrapIs
<1> HIDE DEF n
<1>5. Decimal[n] \in Strings /\ IsInt(Decimal[n])
    BY <1>4, Decimals
<1>6. CASE s.enc # "int"
    BY <1>2, <1>3, <1>6 DEF StrIInv, StrTypeOK, TagTold
<1>7. CASE s.enc = "int"
    <2>1. str' \in [enc : {"int", "text"}, val : Strings] /\ str'.enc = "int" /\ IsInt(str'.val)
        BY <1>2, <1>3, <1>5, <1>7
    <2> QED BY <2>1 DEF StrIInv, StrTypeOK, TagTold
<1> QED BY <1>6, <1>7

(* The string and its tag, whatever the command.                           *)
LEMMA StrKeeps ==
    ASSUME StrIInv, [Next]_vars
    PROVE  StrIInv'
<1>1. ASSUME NEW v \in Strings, Set(v) PROVE StrIInv'
    BY <1>1, TaggedTruly DEF Set, StrIInv, StrTypeOK, TagTold
<1>2. ASSUME NEW d \in Numbers, IncrBy(d) \/ DecrBy(d) PROVE StrIInv'
    <2>1. d \in Int /\ -d \in Int
        BY Decimals
    <2> QED BY <1>2, <2>1, ShiftKeeps DEF IncrBy, DecrBy
<1>3. CASE GetStr
    BY <1>3 DEF GetStr, StrIInv, StrTypeOK, TagTold
<1>4. CASE StrDropped
    BY <1>4 DEF StrDropped, StrIInv, StrTypeOK, TagTold
<1>5. CASE StrCommand
    BY <1>1, <1>2, <1>3, <1>4, <1>5 DEF StrCommand, StrNext
<1>6. CASE HashCommand \/ SetCommand \/ ZSetCommand \/ ListCommand
    <2>1. StrDropped
        BY <1>6 DEF HashCommand, SetCommand, ZSetCommand, ListCommand, NoneOf, Types
    <2> QED BY <1>4, <2>1
<1>7. CASE Overwrite
    BY <1>1, <1>7 DEF Overwrite
<1>8. CASE UNCHANGED vars
    BY <1>8 DEF vars, strVars, StrIInv, StrTypeOK, TagTold
<1> QED BY <1>5, <1>6, <1>7, <1>8 DEF Next

(* A string is tagged as a number when ParseInt takes it for one, so that  *)
(* INCR counts on from it (eval.go:76, type_string.go:8-17).               *)
THEOREM StringAlwaysTagged == Spec => [](StrTypeOK /\ TagTold)
<1>1. Init => StrIInv
    BY DEF Init, StrInit, StrIInv, StrTypeOK, TagTold
<1>2. StrIInv /\ [Next]_vars => StrIInv'
    BY StrKeeps
<1>3. StrIInv => StrTypeOK /\ TagTold
    BY DEF StrIInv
<1> QED BY <1>1, <1>2, <1>3, PTL DEF Spec
-----------------------------------------------------------------------------
(* What each command leaves of the other types' values.                    *)
LEMMA OthersAbsent ==
    ASSUME NEW u \in Types, NoneOf(Types \ {u}), NEW t \in Types \ {u}
    PROVE  Absent(t)'
<1>1. CASE t = "string"
    BY <1>1 DEF NoneOf, Types, Absent, StrDropped
<1>2. CASE t = "hash"
    BY <1>2 DEF NoneOf, Types, Absent, HashDropped
<1>3. CASE t = "set"
    BY <1>3 DEF NoneOf, Types, Absent, SetDropped
<1>4. CASE t = "zset"
    BY <1>4 DEF NoneOf, Types, Absent, ZSetDropped, NoZSet, NewZSet
<1>5. CASE t = "list"
    BY <1>5 DEF NoneOf, Types, Absent, ListDropped, NoList, NewQuickList
<1> QED BY <1>1, <1>2, <1>3, <1>4, <1>5 DEF Types

(* A key never has values of two types: assertType refuses the commands of *)
(* another type, and SET overwrites (eval.go:68, eval_hash.go:37).         *)
THEOREM OneValueAlways == Spec => []OneValue
<1>1. Init => OneValue
    BY DEF Init, OneValue, Types, Absent, StrInit, HashInit, SetInit, ZSetInit, ListInit,
        NoZSet, NewZSet, NoList, NewQuickList
<1>2. ASSUME OneValue, [Next]_vars PROVE OneValue'
    <2>1. ASSUME NEW u \in Types, NoneOf(Types \ {u}) PROVE OneValue'
        BY <2>1, OthersAbsent DEF OneValue
    <2>2. CASE StrCommand \/ Overwrite
        BY <2>1, <2>2 DEF StrCommand, Overwrite, Types
    <2>3. CASE HashCommand
        BY <2>1, <2>3 DEF HashCommand, Types
    <2>4. CASE SetCommand
        BY <2>1, <2>4 DEF SetCommand, Types
    <2>5. CASE ZSetCommand
        BY <2>1, <2>5 DEF ZSetCommand, Types
    <2>6. CASE ListCommand
        BY <2>1, <2>6 DEF ListCommand, Types
    <2>7. CASE UNCHANGED vars
        BY <1>2, <2>7 DEF vars, strVars, hashVars, setVars, zsetVars, listVars, OneValue, Absent
    <2> QED BY <1>2, <2>2, <2>3, <2>4, <2>5, <2>6, <2>7 DEF Next
<1> QED BY <1>1, <1>2, PTL DEF Spec

(* Between two commands, of any types, a value is what the next command    *)
(* takes it for: its tag, its limits and its order (eval.go:76,            *)
(* eval_hash.go:43-65, 209-222, eval_set.go:72-76, 148-158).               *)
THEOREM ValuesAlwaysSettled == Spec => []ValuesSettled
<1>1. StrTypeOK /\ TagTold /\ HashSettled /\ NoEmptyHash /\ IntSetSorted /\ NoEmptySet
          => ValuesSettled
    BY DEF ValuesSettled
<1> QED BY <1>1, StringAlwaysTagged, HashWithin, SetWithin, HashAlwaysSettled, NoHashEverEmpty,
        IntSetAlwaysSorted, NoSetEverEmpty, PTL

(* The hash of a key that takes commands of every type is still a map.     *)
THEOREM HashImplementationWithin == Spec => ImplementsHash
    BY HashWithin, HashImplementation, PTL

(* And its set still a set.                                                *)
THEOREM SetImplementationWithin == Spec => ImplementsSet
    BY SetWithin, SetImplementation, PTL

(* And its sorted set still a map, ordered by score and member as long as  *)
(* no score has been NaN.                                                  *)
THEOREM ZSetImplementationWithin == Spec => ImplementsZSet
    BY ZSetWithin, ZSetImplementation, PTL

(* The skip list of such a key stays sound, as long as no score has been   *)
(* NaN: what a descent adds up as it skips nodes is their number, and both *)
(* directions see the same nodes in the same order (skiplist.go:82-175,    *)
(* 193-274, eval_zset.go:66).                                              *)
THEOREM SkipListSoundWithin == Spec => []SkipListSound
    BY ZSetWithin, SkipListAlwaysSound, PTL

(* And its list still a sequence.                                          *)
THEOREM ListImplementationWithin == Spec => ImplementsList
    BY ListWithin, ListImplementation, PTL

(* The list of such a key stays linked and counted, whatever other types   *)
(* of values the key has in between (quicklist.go:31-34, 62-154), and its  *)
(* ranges are those of the sequence (quicklist.go:156-237).                *)
THEOREM ListSoundWithin == Spec => [](WellLinked /\ CountsAgree /\ RangesAgree)
    BY ListWithin, ListAlwaysWellLinked, ListAlwaysCounted, ListRangesAgree, PTL

(* Every encoding of every type is what the next command can read, and a   *)
(* key has values of one type only (eval.go:68, eval_hash.go:37,           *)
(* eval_set.go:36, eval_zset.go:43, eval_list.go:20); of a sorted set only *)
(* as long as no score has been NaN.                                       *)
THEOREM TypeAlwaysCorrect == Spec => [](zset.real => TypeOK)
<1>1. StrTypeOK /\ TagTold /\ HashTypeOK /\ SetTypeOK /\ (zset.real => ZSetTypeOK)
          /\ ListTypeOK /\ OneValue => (zset.real => TypeOK)
    BY DEF TypeOK
<1> QED BY <1>1, StringAlwaysTagged, HashWithin, SetWithin, ZSetWithin, ListWithin,
        HashTypeCorrect, SetTypeCorrect, ZSetTypeCorrect, ListTypeCorrect, OneValueAlways, PTL
=============================================================================
