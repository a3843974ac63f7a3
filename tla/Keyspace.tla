------------------------------ MODULE Keyspace ------------------------------
(***************************************************************************)
(* The keyspace of Velox: core/store.go, core/expire.go, core/stats.go,    *)
(* the contract of core/eviction.go, and the commands of core/eval.go that *)
(* go through them.                                                        *)
(*                                                                         *)
(* A key is bound to a heap object; deadlines are kept in a second map,    *)
(* keyed by object POINTER; deleted objects go to a sync.Pool and are used *)
(* again for other keys.  An object that is overwritten, or flushed, is    *)
(* neither unlinked from the deadlines nor pooled: it is garbage, and stays*)
(* allocated for as long as the deadline map mentions it.                  *)
(*                                                                         *)
(* Every command is one step, because one goroutine runs the event loop    *)
(* and the other one only reads the store.  Two loops take several steps,  *)
(* since storeMu is free between their rounds: MSET (one Put per pair) and *)
(* the expiry cron (one expireSample per round).                           *)
(***************************************************************************)
EXTENDS Integers, Sequences, FiniteSets

CONSTANTS
    Keys,         \* the names clients use
    Vals,         \* what a command can store under a name
    Objs,         \* the addresses NewObj can return: bounds live and leaked ones
    KeysLimit,    \* config.KeysLimit
    Strategy,     \* config.EvictionStrategy
    EvictCount,   \* int(config.EvictionRatio * KeysLimit)
    SampleLimit,  \* expireSample's limit (20 in the code)
    Times,        \* instants the cached clock can show
    Durs,         \* durations a command can ask for; -1 is "no EX given"
    MaxBatch,     \* bound on the pairs of one MSET
    MaxStat,      \* bound on keyStat, which overwriting would drive up for ever
    NoObj, NoVal  \* Go's nil, as an object and as a value

ASSUME LimitAssumption == KeysLimit \in Nat \ {0} /\ EvictCount \in 0..KeysLimit
ASSUME BoundAssumption == IsFiniteSet(Keys) /\ MaxBatch \in Nat \ {0} /\ MaxStat \in Nat
ASSUME StrategyAssumption ==
    Strategy \in {"simple-first", "allkeys-random", "allkeys-lru"}
ASSUME NilAssumption == NoObj \notin Objs /\ NoVal \notin Vals
ASSUME SampleAssumption == SampleLimit \in Nat \ {0}
(* Milliseconds since the epoch, and durations that lead to no instant     *)
(* before it: setExpiry's unsigned addition does not wrap.                 *)
ASSUME TimeAssumption ==
    Times \subseteq Nat /\ Durs \subseteq Int /\ \A t \in Times, d \in Durs : t + d \in Nat

VARIABLES
    store,     \* the map key -> *Obj
    expires,   \* the map *Obj -> deadline
    val,       \* Obj.Value
    objPool,   \* the objects waiting in the sync.Pool
    keyStat,   \* KeyspaceStat[0]["keys"]
    now,       \* GlobalCachedTime
    reply,     \* what the last command told its client about a key
    mset,      \* the pairs of the MSET being executed, <<>> outside of one
    pos,       \* the pair evalMSET's loop is at
    sweeping   \* DeleteExpiredKey's loop is running

vars == <<store, expires, val, objPool, keyStat, now, reply, mset, pos, sweeping>>
heap == <<store, expires, val, objPool, keyStat>>

Never == -1                             \* no entry in the expires map
Absent == [val |-> NoVal, dl |-> -2]    \* the reply for a missing key
Done == [val |-> NoVal, dl |-> -3]      \* any other reply

Batches == UNION {[1..n -> Keys \X Vals] : n \in 1..MaxBatch}
Idle == mset = <<>> /\ ~sweeping

Bound(k) == store[k] # NoObj
Present == {k \in Keys : Bound(k)}
ObjsAt(K) == {store[k] : k \in K}

hasExpired(o) == expires[o] # Never /\ expires[o] <= now
Expired == {k \in Present : hasExpired(store[k])}
Live(k) == Bound(k) /\ ~hasExpired(store[k])

-----------------------------------------------------------------------------
(* delLocked of every key of K, all of them present, as its effect on each *)
(* of the structures it touches.                                           *)

StoreWithout(K) == [k \in Keys |-> IF k \in K THEN NoObj ELSE store[k]]
(* Fault: the deadline outlives the key, as if delLocked only unlinked it. *)
ExpiresKept(K) == expires

ExpiresWithout(K) == [o \in Objs |-> IF o \in ObjsAt(K) THEN Never ELSE expires[o]]
ValWithout(K) == [o \in Objs |-> IF o \in ObjsAt(K) THEN NoVal ELSE val[o]]

delLocked(K) ==
    /\ store' = StoreWithout(K)
    /\ expires' = ExpiresWithout(K)
    /\ val' = ValWithout(K)
    /\ objPool' = objPool \cup ObjsAt(K)
    /\ keyStat' = keyStat - Cardinality(K)

(* objPool.Get: a pooled object, or a new allocation, which is an address  *)
(* nothing refers to.  K are the keys deleted earlier in the same command. *)
Allocatable(K) ==
    objPool \cup ObjsAt(K)
      \cup {o \in Objs : expires[o] = Never /\ o \notin ObjsAt(Present)}

(* The bounds leave room for n more Puts: neither the counter nor the set  *)
(* of addresses runs out half-way through a command.                       *)
Room(n) == keyStat + n <= MaxStat /\ Cardinality(Allocatable({})) >= n

(* How many of P's keys one evict() removes.                               *)
Quota(P) ==
    CASE Strategy = "simple-first" -> 1
      [] Strategy = "allkeys-random" -> IF EvictCount = 0 THEN Cardinality(P) ELSE EvictCount
      [] Strategy = "allkeys-lru" -> IF EvictCount < 1 THEN 1 ELSE EvictCount

(* What a walk over the set S in map order deletes when it stops after n.  *)
Walks(S, n) ==
    IF Cardinality(S) <= n THEN {S} ELSE {K \in SUBSET S : Cardinality(K) = n}

(* Fault: evict() once the limit is passed, not when it is reached.        *)
VictimsPastLimit(P) ==
    IF Cardinality(P) <= KeysLimit THEN {{}} ELSE Walks(P, Quota(P))

(* The sets of keys evict() may remove when Put finds the keys P.          *)
Victims(P) ==
    IF Cardinality(P) < KeysLimit THEN {{}} ELSE Walks(P, Quota(P))

(* Put of the new object o at k, once the keys of out are deleted: NewObj  *)
(* records a deadline for a positive d only, and leaves the map alone      *)
(* otherwise; Put counts k even if it was there.                           *)
Bind(k, v, d, o, out) ==
    /\ store' = [StoreWithout(out) EXCEPT ![k] = o]
    /\ expires' = IF d > 0 THEN [ExpiresWithout(out) EXCEPT ![o] = now + d]
                           ELSE ExpiresWithout(out)
    /\ val' = [ValWithout(out) EXCEPT ![o] = v]
    /\ objPool' = (objPool \cup ObjsAt(out)) \ {o}
    /\ keyStat' = keyStat - Cardinality(out) + 1

(* Put(k, NewObj(v, d)) after gone was deleted: Put evicts if the store is *)
(* full, even if k is already there.                                       *)
PutNew(k, v, d, gone) ==
    \E o \in Allocatable(gone), V \in Victims(Present \ gone) :
        Bind(k, v, d, o, gone \cup V)

(* The keys Get(k) deletes on the way.                                     *)
Stale(k) == {k} \cap Expired
-----------------------------------------------------------------------------
Init ==
    /\ store = [k \in Keys |-> NoObj]
    /\ expires = [o \in Objs |-> Never]
    /\ val = [o \in Objs |-> NoVal]
    /\ objPool = {}
    /\ keyStat = 0
    /\ now \in Times
    /\ reply = Done
    /\ mset = <<>> /\ pos = 1
    /\ sweeping = FALSE

(* SET k v [EX d]: no Get first, so an expired k is simply rebound.        *)
Set(k, v, d) ==
    /\ Idle /\ Room(1)
    /\ PutNew(k, v, d, {})
    /\ reply' = Done
    /\ UNCHANGED <<now, mset, pos, sweeping>>

MSetBegin(pairs) ==
    /\ Idle /\ Room(Len(pairs))
    /\ mset' = pairs
    /\ UNCHANGED <<heap, now, reply, pos, sweeping>>

MSetPut ==
    /\ pos <= Len(mset)
    /\ PutNew(mset[pos][1], mset[pos][2], -1, {})
    /\ pos' = pos + 1
    /\ UNCHANGED <<now, reply, mset, sweeping>>

MSetEnd ==
    /\ mset # <<>> /\ pos > Len(mset)
    /\ mset' = <<>> /\ pos' = 1 /\ reply' = Done
    /\ UNCHANGED <<heap, now, sweeping>>

(* INCR, DECR, INCRBY, DECRBY and the writers of hashes, lists, sets and   *)
(* sorted sets: Get, then update the object in place, or make a new one.   *)
Write(k, v) ==
    /\ Idle
    /\ IF Live(k)
       THEN /\ val' = [val EXCEPT ![store[k]] = v]
            /\ UNCHANGED <<store, expires, objPool, keyStat>>
       ELSE Room(1) /\ PutNew(k, v, -1, Stale(k))
    /\ reply' = Done
    /\ UNCHANGED <<now, mset, pos, sweeping>>

(* Fault: the reply is read from the object after it was deleted.          *)
ReadDeleted(k) ==
    /\ Idle
    /\ IF k \in Expired THEN delLocked({k}) ELSE UNCHANGED heap
    /\ reply' = IF Bound(k) THEN [val |-> val'[store[k]], dl |-> expires'[store[k]]]
                            ELSE Absent
    /\ UNCHANGED <<now, mset, pos, sweeping>>

(* GET, TTL, TYPE, EXISTS and every other reader: what Get(k) returns.     *)
Read(k) ==
    /\ Idle
    /\ reply' = IF Live(k) THEN [val |-> val[store[k]], dl |-> expires[store[k]]]
                           ELSE Absent
    /\ IF k \in Expired THEN delLocked({k}) ELSE UNCHANGED heap
    /\ UNCHANGED <<now, mset, pos, sweeping>>

Expire(k, d) ==
    /\ Idle
    /\ IF Live(k)
       THEN /\ expires' = [expires EXCEPT ![store[k]] = now + d]
            /\ UNCHANGED <<store, val, objPool, keyStat>>
       ELSE IF k \in Expired THEN delLocked({k}) ELSE UNCHANGED heap
    /\ reply' = Done
    /\ UNCHANGED <<now, mset, pos, sweeping>>

(* Fault: DEL counts a key down whether or not it was there.              *)
DelUnchecked(K) ==
    /\ Idle
    /\ store' = StoreWithout(K)
    /\ expires' = ExpiresWithout(K \cap Present)
    /\ val' = ValWithout(K \cap Present)
    /\ objPool' = objPool \cup ObjsAt(K \cap Present)
    /\ keyStat' = keyStat - Cardinality(K)
    /\ reply' = Done
    /\ UNCHANGED <<now, mset, pos, sweeping>>

(* DEL of several keys; also what LPOP, SREM, HDEL and ZREM end in when    *)
(* they empty the value of their key.                                      *)
Del(K) ==
    /\ Idle
    /\ delLocked(K \cap Present)
    /\ reply' = Done
    /\ UNCHANGED <<now, mset, pos, sweeping>>

(* FLUSHDB drops both maps; the objects are not pooled.                    *)
FlushDB ==
    /\ Idle
    /\ store' = [k \in Keys |-> NoObj]
    /\ expires' = [o \in Objs |-> Never]
    /\ keyStat' = 0
    /\ reply' = Done
    /\ UNCHANGED <<val, objPool, now, mset, pos, sweeping>>

(* Top of the event loop: UpdateCachedTime reads the wall clock, which may *)
(* have been stepped back; the cron runs if a second has passed.           *)
Tick(t) ==
    /\ Idle
    /\ now' = t
    /\ sweeping' \in BOOLEAN
    /\ UNCHANGED <<heap, reply, mset, pos>>

(* The sets of keys one expireSample may delete: it walks the store in any *)
(* order, deletes what has expired, and stops at SampleLimit deletions.    *)
Samples == Walks(Expired, SampleLimit)

(* One round of DeleteExpiredKey, which goes on while a quarter of the     *)
(* sample limit was deleted; Cron.tla has its iterations.                  *)
Sweep ==
    /\ sweeping
    /\ \E K \in Samples :
           /\ delLocked(K)
           /\ sweeping' = (4 * Cardinality(K) >= SampleLimit)
    /\ UNCHANGED <<now, reply, mset, pos>>

(* The garbage collector empties the sync.Pool, or a part of it.           *)
PoolGC(o) ==
    /\ o \in objPool
    /\ objPool' = objPool \ {o}
    /\ UNCHANGED <<store, expires, val, keyStat, now, reply, mset, pos, sweeping>>

Next ==
    \/ \E k \in Keys, v \in Vals, d \in Durs : Set(k, v, d)
    \/ \E pairs \in Batches : MSetBegin(pairs)
    \/ MSetPut
    \/ MSetEnd
    \/ \E k \in Keys, v \in Vals : Write(k, v)
    \/ \E k \in Keys : Read(k)
    \/ \E k \in Keys, d \in Durs : Expire(k, d)
    \/ \E K \in SUBSET Keys : Del(K)
    \/ FlushDB
    \/ \E t \in Times : Tick(t)
    \/ Sweep
    \/ \E o \in Objs : PoolGC(o)

Spec == Init /\ [][Next]_vars
-----------------------------------------------------------------------------
TypeOK ==
    /\ store \in [Keys -> Objs \cup {NoObj}]
    /\ expires \in [Objs -> Nat \cup {Never}]
    /\ val \in [Objs -> Vals \cup {NoVal}]
    /\ objPool \in SUBSET Objs
    /\ keyStat \in Int
    /\ now \in Times
    /\ reply \in {Done, Absent} \cup [val : Vals, dl : Nat \cup {Never}]
    /\ mset \in {<<>>} \cup Batches
    /\ pos \in 1..(MaxBatch + 1) /\ pos <= Len(mset) + 1
    /\ sweeping \in BOOLEAN

(* No object serves two keys, an object waiting in the pool serves none,   *)
(* and carries neither a value nor a deadline into its next life: what     *)
(* NewObj relies on when it reuses an object without touching the expires  *)
(* map (store.go:50-60).                                                   *)
NoAliasing ==
    /\ \A j, k \in Present : store[j] = store[k] => j = k
    /\ objPool \cap ObjsAt(Present) = {}
    /\ \A o \in objPool : expires[o] = Never /\ val[o] = NoVal
    /\ \A k \in Present : val[store[k]] # NoVal

(* The store is never larger than config.KeysLimit, whatever the eviction  *)
(* strategy, although Put evicts before it inserts and one MSET inserts    *)
(* many keys (store.go:76-80).                                             *)
SizeWithinLimit == Cardinality(Present) <= KeysLimit

(* The statistics never report fewer keys than there are: overwriting,     *)
(* evicting, lazy deletion, sweeping and flushing only ever drift upwards  *)
(* (store.go:84, 134, eval.go:238).                                        *)
StatCoversKeys == keyStat >= Cardinality(Present)

(* When the cron stops after a round of few deletions, nothing expired is  *)
(* left: stopping below a quarter of the limit implies that the round saw  *)
(* the whole store (expire.go:29-74).                                      *)
SweepLeavesNoneExpired == [][sweeping /\ ~sweeping' => Expired' = {}]_vars

(* Seen through the pointers, the keyspace is a map from keys to entries   *)
(* with their own deadlines: reusing objects, keeping deadlines by pointer *)
(* and leaking overwritten objects never give a key a value or a deadline  *)
(* that no command gave it, and no key is lost without a reason.           *)
Entry(k) == IF Bound(k) THEN [val |-> val[store[k]], dl |-> expires[store[k]]]
                        ELSE Absent
Map == INSTANCE KeyspaceAbs WITH db <- [k \in Keys |-> Entry(k)]
ImplementsMap == Map!Spec

(* MSET sets its pairs "atomically" (eval.go:160): once the last pair is   *)
(* in, all of them are.                                                    *)
MSetIsAtomic ==
    mset # <<>> /\ pos > Len(mset) => \A i \in 1..Len(mset) : Bound(mset[i][1])
=============================================================================
