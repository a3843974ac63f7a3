-------------------------------- MODULE Sets --------------------------------
(***************************************************************************)
(* The set commands of one key (core/eval_set.go), on the values of module *)
(* IntSets.  SADD and SREM loop over their arguments, one round in a step, *)
(* as the commands of module Hash do.                                      *)
(***************************************************************************)
EXTENDS IntSets

VARIABLES
    set,     \* the value of the key: its encoding, and the IntSet or the map
    scmd,    \* the command whose loop is running, its rounds and its counter
    ssaid    \* what the last command answered, if it is over

setVars == <<set, scmd, ssaid>>

(* before: history, the members when the command began.                    *)
SetIdle == [op |-> "none", n |-> 0, count |-> 0, before |-> {}]
-----------------------------------------------------------------------------
SetInit == set = NoSet /\ scmd = SetIdle /\ ssaid = NoAnswer

(* One more round of the loop of op, which counts if so.                   *)
SetRound(op, counts) ==
    /\ scmd.op \in {"none", op} /\ scmd.n < MaxArgs
    /\ scmd' = [op |-> op, n |-> scmd.n + 1,
                count |-> scmd.count + (IF counts THEN 1 ELSE 0),
                before |-> IF scmd.op = op THEN scmd.before ELSE MembersOf(set)]
    /\ ssaid' = NoAnswer

EndSetRounds(op) ==
    /\ scmd.op = op
    /\ scmd' = SetIdle /\ ssaid' = <<op, scmd.count>>

SAdd(m) ==
    LET s == SetCreated(set, m) IN
    SetRound("sadd", ~IsMember(s, m)) /\ set' = SetAdd(s, m)

SAddEnd == EndSetRounds("sadd") /\ UNCHANGED set

SRem(m) ==
    /\ set # NoSet
    /\ SetRound("srem", IsMember(set, m)) /\ set' = SetRem(set, m)

SRemEnd ==
    /\ EndSetRounds("srem")
    /\ set' = IF SetLen(set) = 0 THEN NoSet ELSE set

SetAnswer(op, val) ==
    /\ scmd = SetIdle /\ ssaid' = <<op, val>>
    /\ UNCHANGED <<set, scmd>>
SRemMissing == set = NoSet /\ SetAnswer("srem", 0)
SIsMember(m) == SetAnswer("sismember", <<m, IsMember(set, m)>>)
SCard == SetAnswer("scard", SetLen(set))
SMembers == SetAnswer("smembers", MembersOf(set))

(* The sets another key may have, the missing one included: those of at    *)
(* most two members.                                                       *)
OtherSets ==
    {NoSet} \cup {IntSet(<<n>>) : n \in Numbers}
    \cup {IntSet(s) : s \in {s \in Numbers \X Numbers : s[1] < s[2]}}
    \cup {Hashed(S) : S \in {S \in SUBSET Strings : Cardinality(S) \in 1..2}}

(* A missing key empties the intersection, whichever it is.  The answer is *)
(* kept with the members of the other set.                                 *)
SInter(other) ==
    SetAnswer("sinter", <<MembersOf(other),
                          IF set = NoSet \/ other = NoSet THEN {}
                          ELSE MembersOf(set) \cap MembersOf(other)>>)
SUnion(other) ==
    SetAnswer("sunion", <<MembersOf(other), MembersOf(set) \cup MembersOf(other)>>)

(* The key is deleted, overwritten, expired or evicted.                    *)
SetDropped == scmd = SetIdle /\ set' = NoSet /\ ssaid' = NoAnswer /\ UNCHANGED scmd

SetNext ==
    \/ \E m \in Strings : SAdd(m) \/ SRem(m) \/ SIsMember(m)
    \/ SAddEnd \/ SRemEnd \/ SRemMissing \/ SCard \/ SMembers
    \/ \E other \in OtherSets : SInter(other) \/ SUnion(other)
    \/ SetDropped

SetSpec == SetInit /\ [][SetNext]_setVars
-----------------------------------------------------------------------------
SetTypeOK ==
    /\ set.enc \in {"none", "intset", "ht"}
    /\ set.is \in Seq(Numbers) /\ set.ht \in SUBSET Strings
    /\ set = [enc |-> set.enc, is |-> set.is, ht |-> set.ht]
    /\ set.enc = "none" => set = NoSet
    /\ set.enc = "intset" => set.ht = {}
    /\ set.enc = "ht" => set.is = <<>>
    /\ scmd \in [op : {"none", "sadd", "srem"}, n : 0..MaxArgs, count : 0..MaxArgs,
                 before : SUBSET Strings]
    /\ scmd.op = "none" <=> scmd = SetIdle
    /\ scmd.op # "none" => set # NoSet
    /\ scmd.count <= scmd.n

(* An intset is sorted, without duplicates, and of a bounded size, in the  *)
(* middle of a command too (intset.go:51-72, eval_set.go:72-76).           *)
IntSetSorted ==
    /\ \A i, j \in DOMAIN set.is : i < j => set.is[i] < set.is[j]
    /\ Len(set.is) <= SetMaxIntsetEntries

(* No command leaves an empty set behind (eval_set.go:148-158).            *)
NoEmptySet == scmd = SetIdle /\ set # NoSet => SetLen(set) > 0

(* Whatever its encoding, a set is a set of strings, up to the spelling of *)
(* integers; promotion in the middle of SADD loses nothing and adds        *)
(* nothing, and the commands count what they changed.                      *)
SAbs == INSTANCE SetAbs WITH
    members <- MembersOf(set), answer <- ssaid,
    doing <- [op |-> scmd.op, before |-> scmd.before]
ImplementsSet == SAbs!Spec
=============================================================================
