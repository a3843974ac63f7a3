-------------------------------- MODULE Aof --------------------------------
(***************************************************************************)
(* What a restart makes of the store (core/aof.go).  A dump truncates the  *)
(* file and writes a command for each key; its buffer reaches the disk in  *)
(* pieces, so that a kill leaves any part of it; a restart decodes the     *)
(* file and evaluates its commands one after the other.                    *)
(*                                                                         *)
(* A string is the sequence of its words, which is what splitting it at    *)
(* the spaces gives: the empty string is one empty word.  When the loop    *)
(* and the signal handler run and dump is the matter of module Engine.     *)
(***************************************************************************)
EXTENDS IntSets, Resp

CONSTANTS
    Keys,      \* some of the strings
    Values,    \* what the commands of clients may give a key
    MaxWrites  \* bound on the commands of clients

Word(w) == <<w>>
Words == {s[1] : s \in Strings}

(* What a command leaves in a key: nothing is ever left empty.             *)
IsValue(v) ==
    CASE v.type = "string" -> v.val \in Strings
      [] v.type = "hash" ->
            /\ DOMAIN v.val # {} /\ DOMAIN v.val \subseteq Strings
            /\ v.val \in [DOMAIN v.val -> Strings]
      [] v.type = "list" -> v.val \in Seq(Strings) /\ Len(v.val) # 0
      [] v.type = "set" -> SetSound(v.val) /\ MembersOf(v.val) # {}
      [] OTHER -> v.type = "zset"

ASSUME AofAssumption ==
    /\ Keys \subseteq Strings /\ MaxWrites \in Nat
    /\ \A s \in Strings : s \in Seq(Words) /\ Len(s) # 0
    /\ \A w \in Words \cup {"SET", "HSET", "RPUSH", "SADD"} : Word(w) \in Strings
    /\ \A v \in Values : IsValue(v)

VARIABLES
    db,      \* the store: the keys' types, values, and whether they expire
    status,  \* "up", "dumping" or "down"
    file,    \* the file, as a sequence of symbols
    left,    \* the keys the dump has not come to
    lines,   \* the commands it has written so far
    saved,   \* history: the store when the dump began
    writes   \* the commands of clients so far

vars == <<db, status, file, left, lines, saved, writes>>
dumpVars == <<file, left, lines, saved>>

EmptyDb == [k \in {} |-> Nil]
Entry(value) == [type |-> value.type, val |-> value.val, ttl |-> FALSE]
Stored(d, k, e) == [j \in DOMAIN d \cup {k} |-> IF j = k THEN e ELSE d[j]]
Dropped(d, k) == [j \in DOMAIN d \ {k} |-> d[j]]
-----------------------------------------------------------------------------
(* All the orders of a set.                                                *)
Orders(S) == {s \in [1..Cardinality(S) -> S] : IsInjective(s)}

(* Fault: a hash is written values first.                                  *)
PairsSwapped(m, o) == FlattenSeq([i \in DOMAIN o |-> <<m[o[i]], o[i]>>])

(* The fields of a hash, each with its value.                              *)
Pairs(m, o) == FlattenSeq([i \in DOMAIN o |-> <<o[i], m[o[i]]>>])

(* dumpKey: the commands it may write for a key, one or none.  A string is *)
(* written by way of the text of its command, split at the spaces again.   *)
(* Go's maps have no order; an IntSet is written in its own.               *)
Lines(k, e) ==
    CASE e.type = "string" ->
            LET text == k \o e.val IN
            {<<Word("SET")>> \o [i \in DOMAIN text |-> Word(text[i])]}
      [] e.type = "hash" ->
            {<<Word("HSET"), k>> \o Pairs(e.val, o) : o \in Orders(DOMAIN e.val)}
      [] e.type = "list" -> {<<Word("RPUSH"), k>> \o e.val}
      [] e.type = "set" /\ e.val.enc = "intset" ->
            {<<Word("SADD"), k>> \o [i \in DOMAIN e.val.is |-> Decimal[e.val.is[i]]]}
      [] e.type = "set" /\ e.val.enc = "ht" ->
            {<<Word("SADD"), k>> \o o : o \in Orders(e.val.ht)}
      [] OTHER -> {}
-----------------------------------------------------------------------------
(* The commands of a replay.  Their replies are dropped, errors too.       *)

(* The options behind SET's value: pairs of EX and a number.               *)
OptionsOK(opts) ==
    /\ Len(opts) % 2 = 0
    /\ \A i \in DOMAIN opts :
        IF i % 2 = 1 THEN opts[i] \in {Word("EX"), Word("ex")} ELSE IsInt(opts[i])

ReplaySet(d, args) ==
    LET opts == SubSeq(args, 3, Len(args))
        e == [type |-> "string", val |-> args[2],
              ttl |-> opts # <<>> /\ Parse[Last(opts)] > 0] IN
    IF OptionsOK(opts) THEN Stored(d, args[1], e) ELSE d

(* A key of another type is left as it is.                                 *)
Fits(d, k, type) == k \notin DOMAIN d \/ d[k].type = type
Held(d, k, new) == IF k \in DOMAIN d THEN d[k].val ELSE new
Revised(d, k, type, val) ==
    IF Fits(d, k, type)
    THEN Stored(d, k, [type |-> type, val |-> val, ttl |-> k \in DOMAIN d /\ d[k].ttl])
    ELSE d

HashWith(m, args) ==
    LET at(f) == Max({i \in 2..(Len(args) - 1) : i % 2 = 0 /\ args[i] = f})
        new == {args[i] : i \in {i \in 2..(Len(args) - 1) : i % 2 = 0}} IN
    [f \in DOMAIN m \cup new |-> IF f \in new THEN args[at(f) + 1] ELSE m[f]]

(* The rounds of SADD, of which the first makes the set.                   *)
SetWith(s, members) ==
    LET at[i \in 0..Len(members)] ==
            IF i = 0 THEN SetCreated(s, Head(members)) ELSE SetAdd(at[i - 1], members[i]) IN
    at[Len(members)]

Replay(d, cmd) ==
    LET args == Tail(cmd)
        k == Head(args) IN
    CASE cmd[1] = Word("SET") -> ReplaySet(d, args)
      [] cmd[1] = Word("HSET") -> Revised(d, k, "hash", HashWith(Held(d, k, EmptyDb), args))
      [] cmd[1] = Word("RPUSH") -> Revised(d, k, "list", Held(d, k, <<>>) \o Tail(args))
      [] cmd[1] = Word("SADD") -> Revised(d, k, "set", SetWith(Held(d, k, NoSet), Tail(args)))

Replayed(cmds) ==
    LET at[i \in 0..Len(cmds)] == IF i = 0 THEN EmptyDb ELSE Replay(at[i - 1], cmds[i]) IN
    at[Len(cmds)]
-----------------------------------------------------------------------------
Init ==
    /\ db = EmptyDb /\ status = "up" /\ writes = 0
    /\ file = <<>> /\ left = {} /\ lines = <<>> /\ saved = EmptyDb

(* The commands of clients, none of which touches the file; a key goes by  *)
(* a command, by expiry or by eviction.                                    *)
Client ==
    /\ status = "up" /\ writes < MaxWrites /\ writes' = writes + 1
    /\ UNCHANGED <<status, dumpVars>>
Write(k, value) == Client /\ db' = Stored(db, k, Entry(value))
Expire(k) == Client /\ db' = [db EXCEPT ![k].ttl = TRUE]
Delete(k) == Client /\ db' = Dropped(db, k)

(* Fault: the file is opened without O_TRUNC.                              *)
BeginDumpOver ==
    /\ status = "up" /\ status' = "dumping"
    /\ left' = DOMAIN db /\ lines' = <<>> /\ saved' = db
    /\ UNCHANGED <<db, file, writes>>

(* DumpAllAOF: O_TRUNC, then the keys in any order, then the last flush.   *)
BeginDump ==
    /\ status = "up" /\ status' = "dumping"
    /\ file' = <<>> /\ left' = DOMAIN db /\ lines' = <<>> /\ saved' = db
    /\ UNCHANGED <<db, writes>>

DumpKey(k) ==
    /\ status = "dumping" /\ k \in left /\ left' = left \ {k}
    /\ IF Lines(k, db[k]) = {} THEN UNCHANGED lines
       ELSE \E line \in Lines(k, db[k]) : lines' = Append(lines, line)
    /\ UNCHANGED <<db, status, file, saved, writes>>

EndDump ==
    /\ status = "dumping" /\ left = {} /\ status' = "up"
    /\ file' = EncodeAll(lines)
    /\ UNCHANGED <<db, left, lines, saved, writes>>

(* The end of the process, in the middle of a dump too: what the buffer    *)
(* holds, of what is written, is lost.                                     *)
Kill ==
    /\ status # "down" /\ status' = "down"
    /\ db' = EmptyDb
    /\ IF status = "up" THEN UNCHANGED file
       ELSE LET bytes == EncodeAll(lines) IN
            \E n \in 0..Len(bytes) : file' = SubSeq(bytes, 1, n)
    /\ UNCHANGED <<left, lines, saved, writes>>

(* ReplayAOF, at startup.                                                  *)
Restart ==
    LET read == Decode(file) IN
    /\ status = "down" /\ read.kind # "panic" /\ status' = "up"
    /\ db' = Replayed(IF read.kind = "ok" THEN read.cmds ELSE <<>>)
    /\ UNCHANGED <<dumpVars, writes>>

(* A panic ends the process again.                                         *)
RestartFails == status = "down" /\ Decode(file).kind = "panic" /\ UNCHANGED vars

Next ==
    \/ \E k \in Keys, value \in Values : Write(k, value)
    \/ \E k \in DOMAIN db : Expire(k) \/ Delete(k)
    \/ \E k \in left : DumpKey(k)
    \/ BeginDump \/ EndDump \/ Kill \/ Restart \/ RestartFails

Spec == Init /\ [][Next]_vars
-----------------------------------------------------------------------------
IsEntry(e) == DOMAIN e = {"type", "val", "ttl"} /\ e.ttl \in BOOLEAN /\ IsValue(e)

TypeOK ==
    /\ DOMAIN db \subseteq Strings /\ \A k \in DOMAIN db : IsEntry(db[k])
    /\ status \in {"up", "dumping", "down"} /\ writes \in 0..MaxWrites
    /\ left \subseteq DOMAIN saved
    /\ \A i \in DOMAIN lines : lines[i] \in Seq(Strings) /\ Len(lines[i]) >= 3
    /\ status = "down" => db = EmptyDb
    /\ status = "dumping" => saved = db /\ file = <<>>

(* What a kill leaves of a dump is refused, or decoded to the commands it  *)
(* holds, nothing of any other; it is refused only if it ends inside a     *)
(* command (resp.go:190-240, aof.go:76-98).                                *)
TornFileIsRefused ==
    status = "down" =>
        LET read == Decode(file)
            Whole(i) == EncodeAll(SubSeq(lines, 1, i)) IN
        /\ read.kind # "error"
        /\ read.kind = "ok" =>
            \E i \in 0..Len(lines) :
                read.cmds = SubSeq(lines, 1, i) /\ IsPrefix(file, Whole(i))
        /\ (\E i \in 0..Len(lines) : file = Whole(i)) => read.kind = "ok"

(* Entries that a client cannot tell apart but by the spelling of integers *)
(* in a set, and by TTL.                                                   *)
SameSet(S, T) ==
    /\ \A m \in S : Spellings(m) \cap T # {}
    /\ \A n \in T : \E m \in S : n \in Spellings(m)
Same(e, f) ==
    /\ e.type = f.type
    /\ IF e.type = "set" THEN SameSet(MembersOf(e.val), MembersOf(f.val)) ELSE e.val = f.val

(* A string whose key or value has spaces is not written as it is, and may *)
(* be taken for another key; sorted sets are not written at all.           *)
Spaced(k, e) == e.type = "string" /\ Len(k \o e.val) > 2
Keeps(d, k) ==
    /\ d[k].type # "zset" /\ ~Spaced(k, d[k])
    /\ \A j \in DOMAIN d : Spaced(j, d[j]) => Word(Head(j)) # k

(* A restart restores the dump (aof.go:100-167): each key that can be kept *)
(* has its value, or, if the file was cut, none, and no TTL; nothing else  *)
(* is there but what became of strings with spaces.                        *)
Restarted == status = "down" /\ status' = "up"
RestartRestores ==
    [][Restarted =>
        /\ \A k \in DOMAIN saved : Keeps(saved, k) =>
            IF k \in DOMAIN db' THEN Same(saved[k], db'[k]) /\ ~db'[k].ttl
                                ELSE left # {} \/ file # EncodeAll(lines)
        /\ \A k \in DOMAIN db' :
            \/ k \in DOMAIN saved /\ Keeps(saved, k)
            \/ \E j \in DOMAIN saved : Spaced(j, saved[j]) /\ Word(Head(j)) = k]_vars

(* What came back once comes back again: the second dump of a key, in any  *)
(* order of its parts, restores it (aof.go:15-72).                         *)
RestartSettles ==
    [][Restarted =>
        \A k \in DOMAIN db' : \A line \in Lines(k, db'[k]) :
            LET d == Replayed(<<line>>) IN
            DOMAIN d = {k} /\ Same(db'[k], d[k])]_vars

(* Readme.md:641 says that a replay "restores the full state from the last *)
(* dump", and strings are among the types of its table; the code loses     *)
(* those with a space in the key or the value (aof.go:20, eval.go:268).    *)
RestoresStrings ==
    [][Restarted /\ left = {} /\ file = EncodeAll(lines) =>
        \A k \in DOMAIN saved : saved[k].type = "string" =>
            k \in DOMAIN db' /\ Same(saved[k], db'[k])]_vars
=============================================================================
