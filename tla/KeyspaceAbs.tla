---------------------------- MODULE KeyspaceAbs ----------------------------
(***************************************************************************)
(* What the keyspace promises its clients: a map from keys to entries, an  *)
(* entry being a value and an optional deadline.  Nothing here knows of    *)
(* objects, of the object pool, or of a table of deadlines kept by object  *)
(* pointer.  Keyspace.tla, translated from core/store.go, core/expire.go   *)
(* and core/eval.go, is checked and proved to implement this module.       *)
(***************************************************************************)
EXTENDS Integers, Sequences, FiniteSets

CONSTANTS
    Keys,       \* the names clients use
    Vals,       \* what a command can store under a name
    KeysLimit,  \* config.KeysLimit
    Times,      \* the instants the cached clock can show
    Durs,       \* the durations a command can ask for
    MaxBatch,   \* bound on the pairs of one MSET
    NoVal       \* no value

VARIABLES db, now, reply, mset, pos, sweeping

vars == <<db, now, reply, mset, pos, sweeping>>

Never == -1                             \* no deadline
Absent == [val |-> NoVal, dl |-> -2]    \* no entry
Done == [val |-> NoVal, dl |-> -3]      \* the reply of a command that reads nothing

Entries == [val : Vals, dl : Int]
Batches == UNION {[1..n -> Keys \X Vals] : n \in 1..MaxBatch}
Idle == mset = <<>> /\ ~sweeping

Present == {k \in Keys : db[k] # Absent}
Expired(k) == db[k] # Absent /\ db[k].dl # Never /\ db[k].dl <= now
Live(k) == db[k] # Absent /\ ~Expired(k)

Init ==
    /\ db = [k \in Keys |-> Absent]
    /\ now \in Times
    /\ reply = Done
    /\ mset = <<>> /\ pos = 1 /\ sweeping = FALSE

(* k gets entry e.  Another key may be lost only if the keyspace was full, *)
(* and the keyspace is within its limit afterwards.                        *)
Store(k, e) ==
    \E lost \in SUBSET (Keys \ {k}) :
        /\ lost # {} => Cardinality(Present) >= KeysLimit
        /\ db' = [x \in Keys |-> IF x = k THEN e
                                 ELSE IF x \in lost THEN Absent ELSE db[x]]
        /\ Cardinality({x \in Keys : db'[x] # Absent}) <= KeysLimit

Set(k, v, d) ==
    /\ Idle
    /\ Store(k, [val |-> v, dl |-> IF d > 0 THEN now + d ELSE Never])
    /\ reply' = Done
    /\ UNCHANGED <<now, mset, pos, sweeping>>

MSetBegin(pairs) ==
    /\ Idle
    /\ mset' = pairs
    /\ UNCHANGED <<db, now, reply, pos, sweeping>>

MSetPut ==
    /\ pos <= Len(mset)
    /\ Store(mset[pos][1], [val |-> mset[pos][2], dl |-> Never])
    /\ pos' = pos + 1
    /\ UNCHANGED <<now, reply, mset, sweeping>>

MSetEnd ==
    /\ mset # <<>> /\ pos > Len(mset)
    /\ mset' = <<>> /\ pos' = 1 /\ reply' = Done
    /\ UNCHANGED <<db, now, sweeping>>

(* A command that writes into whatever k holds keeps k's deadline.         *)
Write(k, v) ==
    /\ Idle
    /\ IF Live(k) THEN db' = [db EXCEPT ![k].val = v]
                  ELSE Store(k, [val |-> v, dl |-> Never])
    /\ reply' = Done
    /\ UNCHANGED <<now, mset, pos, sweeping>>

(* A reader sees a live entry or nothing; what it finds expired is gone.   *)
Read(k) ==
    /\ Idle
    /\ reply' = IF Live(k) THEN db[k] ELSE Absent
    /\ db' = IF Expired(k) THEN [db EXCEPT ![k] = Absent] ELSE db
    /\ UNCHANGED <<now, mset, pos, sweeping>>

Expire(k, d) ==
    /\ Idle
    /\ db' = IF Live(k) THEN [db EXCEPT ![k].dl = now + d]
                        ELSE [db EXCEPT ![k] = Absent]
    /\ reply' = Done
    /\ UNCHANGED <<now, mset, pos, sweeping>>

Remove(K) ==
    /\ Idle
    /\ db' = [x \in Keys |-> IF x \in K THEN Absent ELSE db[x]]
    /\ reply' = Done
    /\ UNCHANGED <<now, mset, pos, sweeping>>

Tick(t) ==
    /\ Idle
    /\ now' = t
    /\ sweeping' \in BOOLEAN
    /\ UNCHANGED <<db, reply, mset, pos>>

(* The periodic sweep takes expired keys only, and leaves none when over.  *)
Sweep ==
    /\ sweeping
    /\ \E K \in SUBSET {k \in Keys : Expired(k)} :
           /\ db' = [x \in Keys |-> IF x \in K THEN Absent ELSE db[x]]
           /\ sweeping' \in BOOLEAN
           /\ ~sweeping' => K = {k \in Keys : Expired(k)}
    /\ UNCHANGED <<now, reply, mset, pos>>

Next ==
    \/ \E k \in Keys, v \in Vals, d \in Durs : Set(k, v, d)
    \/ \E pairs \in Batches : MSetBegin(pairs)
    \/ MSetPut
    \/ MSetEnd
    \/ \E k \in Keys, v \in Vals : Write(k, v)
    \/ \E k \in Keys : Read(k)
    \/ \E k \in Keys, d \in Durs : Expire(k, d)
    \/ \E K \in SUBSET Keys : Remove(K)
    \/ \E t \in Times : Tick(t)
    \/ Sweep

Spec == Init /\ [][Next]_vars
=============================================================================
