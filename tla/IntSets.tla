------------------------------ MODULE IntSets ------------------------------
(***************************************************************************)
(* The values of sets (core/eval_set.go).  A set that begins with an       *)
(* integer is an IntSet (core/intset.go), a sorted array, until it has too *)
(* many members or one that is no integer; then, and otherwise, it is a    *)
(* map with strings as its keys.                                           *)
(***************************************************************************)
EXTENDS Data, SequencesExt

CONSTANT SetMaxIntsetEntries   \* config.SetMaxIntsetEntries, 512 in the code

ASSUME SetAssumption == IsFiniteSet(Strings) /\ SetMaxIntsetEntries \in Nat \ {0}

NoSet == [enc |-> "none", is |-> <<>>, ht |-> {}]
IntSet(s) == [enc |-> "intset", is |-> s, ht |-> {}]
Hashed(S) == [enc |-> "ht", is |-> <<>>, ht |-> S]

(* What the commands leave as the value of a set.                          *)
Sorted(is) == \A i, j \in DOMAIN is : i < j => is[i] < is[j]
SetValue == [enc : {"none", "intset", "ht"}, is : Seq(Numbers), ht : SUBSET Strings]
SetSound(s) ==
    /\ s \in SetValue /\ Sorted(s.is) /\ Len(s.is) <= SetMaxIntsetEntries
    /\ s.enc = "none" => s = NoSet
    /\ s.enc = "intset" => s.ht = {}
    /\ s.enc = "ht" => s.is = <<>>

(* The IntSet.  sort.Search gives the least index the test holds at, or    *)
(* the length.                                                             *)
Search(is, n) ==
    CHOOSE i \in 1..(Len(is) + 1) :
        /\ i > Len(is) \/ is[i] >= n
        /\ \A j \in 1..(i - 1) : is[j] < n
Found(is, n) == LET i == Search(is, n) IN i <= Len(is) /\ is[i] = n

Add(is, n) == IF Found(is, n) THEN is ELSE InsertAt(is, Search(is, n), n)
Removed(is, n) == IF Found(is, n) THEN RemoveAt(is, Search(is, n)) ELSE is

(* getSetMembers; SMEMBERS and setPromoteToHashtable list the same.        *)
MembersOf(s) == IF s.enc = "intset" THEN {Decimal[n] : n \in ToSet(s.is)} ELSE s.ht
SetLen(s) == IF s.enc = "intset" THEN Len(s.is) ELSE Cardinality(s.ht)

(* SISMEMBER's test, and that of the rounds of SADD and SREM.              *)
IsMember(s, m) ==
    IF s.enc = "intset" THEN IsInt(m) /\ Found(s.is, Parse[m]) ELSE m \in s.ht

(* setGetOrCreate looks at the first member only.                          *)
SetCreated(s, m) ==
    IF s # NoSet THEN s ELSE IF IsInt(m) THEN IntSet(<<>>) ELSE Hashed({})

(* Fault: an intset that is promoted for its size forgets the new member.  *)
SetAddLosing(s, m) ==
    IF s.enc = "intset" /\ IsInt(m)
    THEN LET is == Add(s.is, Parse[m]) IN
         IF Len(is) > SetMaxIntsetEntries THEN Hashed(MembersOf(s)) ELSE IntSet(is)
    ELSE Hashed(MembersOf(s) \cup {m})

(* setAdd: the encoding is read again for every member.                    *)
SetAdd(s, m) ==
    IF s.enc = "intset" /\ IsInt(m)
    THEN LET is == Add(s.is, Parse[m]) IN
         IF Len(is) > SetMaxIntsetEntries THEN Hashed(MembersOf(IntSet(is))) ELSE IntSet(is)
    ELSE Hashed(MembersOf(s) \cup {m})

SetRem(s, m) ==
    CASE s.enc = "ht" -> Hashed(s.ht \ {m})
      [] s.enc = "intset" /\ IsInt(m) -> IntSet(Removed(s.is, Parse[m]))
      [] OTHER -> s
=============================================================================
