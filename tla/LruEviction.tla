---------------------------- MODULE LruEviction ----------------------------
(***************************************************************************)
(* The default eviction strategy: evictAllKeysLRU (core/eviction.go) and   *)
(* its pool of candidates (core/evictionpool.go).                          *)
(*                                                                         *)
(* The pool is a max-heap by idle time that survives from one eviction to  *)
(* the next: it mentions keys that have been deleted since, and snapshots  *)
(* of access times that have changed since.  Idle times come from a clock  *)
(* of few bits that wraps around; it goes on while an eviction runs.       *)
(*                                                                         *)
(* Instants are kept in full and cut down to the clock's bits where the    *)
(* code computes with them.  container/heap is taken at its contract: what *)
(* it leaves is a heap of the same items if what it was given was one.     *)
(***************************************************************************)
EXTENDS Integers, Sequences, FiniteSets

CONSTANTS
    Keys,
    KeysLimit,      \* config.KeysLimit
    EvictCount,     \* int(config.EvictionRatio * KeysLimit)
    LRUSampleSize,  \* config.LRUSampleSize
    ePoolSizeMax,   \* 16 in the code
    Cycle,          \* the instants the clock tells apart, 2^20 in the code
    MaxTime         \* bound on time

ASSUME LimitAssumption == KeysLimit \in Nat \ {0} /\ EvictCount \in Nat
ASSUME PoolAssumption == ePoolSizeMax \in Nat \ {0} /\ LRUSampleSize \in Nat
ASSUME ClockAssumption == Cycle \in Nat \ {0} /\ MaxTime \in Nat
ASSUME KeyAssumption == IsFiniteSet(Keys)

VARIABLES
    lastAccess,  \* the keys in the store, each with its last access
    now,         \* the time of day
    pool,        \* ePool.pool, a sequence of candidates
    keyset,      \* ePool.keyset
    pc,          \* where evict() is, "idle" if no Put is under way
    sampled,     \* the keys this round of populateEvictionPool has visited
    evicted,     \* how many keys this eviction has deleted
    before,      \* history: the store when it began
    outlived     \* history: a candidate, taken or turned away, was a cycle old

evicting == <<pc, sampled, evicted, before>>
vars == <<lastAccess, now, pool, keyset, evicting, outlived>>

Store == DOMAIN lastAccess
Items == [key : Keys, at : 0..MaxTime]
Elems(s) == {s[i] : i \in DOMAIN s}

(* The instant as getCurrentClock shows it.                                *)
Clock(t) == t % Cycle

(* Fault: the clock is taken never to wrap.                                *)
IdleUnwrapped(t) == Clock(now) - Clock(t)

(* If the clock is behind the last access, it has wrapped around.          *)
getIdleTime(t) ==
    IF Clock(now) >= Clock(t) THEN Clock(now) - Clock(t)
                              ELSE (Cycle - 1 - Clock(t)) + Clock(now)

Less(x, y) == getIdleTime(x.at) > getIdleTime(y.at)

(* Every item is at least as idle as its children.                         *)
IsHeap(s) == \A i \in 2..Len(s) : ~Less(s[i], s[i \div 2])

(* What container/heap makes of the items S, given a heap or not.          *)
Arrangements(S, given) ==
    {s \in [1..Cardinality(S) -> S] : Elems(s) = S /\ (given => IsHeap(s))}

Outlives(s, t) == \E i \in DOMAIN s : t - s[i].at >= Cycle

Init ==
    /\ lastAccess = [k \in {} |-> 0]
    /\ now \in 0..MaxTime
    /\ pool = <<>> /\ keyset = {}
    /\ pc = "idle"
    /\ sampled = {} /\ evicted = 0 /\ before = {}
    /\ outlived = FALSE
-----------------------------------------------------------------------------
Tick ==
    /\ now < MaxTime
    /\ now' = now + 1
    /\ outlived' = (outlived \/ Outlives(pool, now'))
    /\ UNCHANGED <<lastAccess, pool, keyset, evicting>>

(* Get of a key that is there.                                             *)
Touch(k) ==
    /\ pc = "idle" /\ k \in Store
    /\ lastAccess' = [lastAccess EXCEPT ![k] = now]
    /\ UNCHANGED <<now, pool, keyset, evicting, outlived>>

(* Any deletion outside of an eviction: the pool is not told.              *)
Del(k) ==
    /\ pc = "idle" /\ k \in Store
    /\ lastAccess' = [j \in Store \ {k} |-> lastAccess[j]]
    /\ UNCHANGED <<now, pool, keyset, evicting, outlived>>

Inserted(k) == [j \in Store \cup {k} |-> IF j = k THEN now ELSE lastAccess[j]]

(* A Put into a store with room.                                           *)
PutRoom(k) ==
    /\ pc = "idle" /\ Cardinality(Store) < KeysLimit
    /\ lastAccess' = Inserted(k)
    /\ UNCHANGED <<now, pool, keyset, evicting, outlived>>

(* A Put into a full store: evict() does not look at the key.              *)
PutFull ==
    /\ pc = "idle" /\ Cardinality(Store) >= KeysLimit
    /\ pc' = "sample"
    /\ sampled' = {} /\ evicted' = 0 /\ before' = Store
    /\ UNCHANGED <<lastAccess, now, pool, keyset, outlived>>

evictCount == IF EvictCount < 1 THEN 1 ELSE EvictCount
-----------------------------------------------------------------------------
(* PushItem with room: heap.Push.                                          *)
Push(item) ==
    /\ pool' \in Arrangements(Elems(pool) \cup {item}, IsHeap(pool))
    /\ keyset' = keyset \cup {item.key}

(* The least idle of the leaves, the first one if there are several.       *)
Leaves == (Len(pool) \div 2 + 1)..Len(pool)
minIdx == CHOOSE i \in Leaves : \A j \in Leaves :
              \/ getIdleTime(pool[i].at) < getIdleTime(pool[j].at)
              \/ getIdleTime(pool[i].at) = getIdleTime(pool[j].at) /\ i <= j

(* Fault: the key that is replaced stays in the key set.                   *)
ReplaceKeeping(item) ==
    IF getIdleTime(item.at) > getIdleTime(pool[minIdx].at)
    THEN /\ pool' \in Arrangements((Elems(pool) \ {pool[minIdx]}) \cup {item}, IsHeap(pool))
         /\ keyset' = keyset \cup {item.key}
    ELSE UNCHANGED <<pool, keyset>>

(* Fault: the last item of the array is taken for the least idle.          *)
ReplaceLast(item) ==
    LET last == pool[Len(pool)] IN
    IF getIdleTime(item.at) > getIdleTime(last.at)
    THEN /\ pool' \in Arrangements((Elems(pool) \ {last}) \cup {item}, IsHeap(pool))
         /\ keyset' = (keyset \ {last.key}) \cup {item.key}
    ELSE UNCHANGED <<pool, keyset>>

(* PushItem into a full pool: overwrite in place, then heap.Fix.           *)
Replace(item) ==
    IF getIdleTime(item.at) > getIdleTime(pool[minIdx].at)
    THEN /\ pool' \in Arrangements((Elems(pool) \ {pool[minIdx]}) \cup {item}, IsHeap(pool))
         /\ keyset' = (keyset \ {pool[minIdx].key}) \cup {item.key}
    ELSE UNCHANGED <<pool, keyset>>

(* One key of a round of populateEvictionPool, which walks the store in    *)
(* any order.  A candidate that is in the pool already keeps its snapshot. *)
Sample(k) ==
    /\ pc = "sample" /\ k \in Store \ sampled
    /\ LET item == [key |-> k, at |-> lastAccess[k]] IN
           IF k \in keyset THEN UNCHANGED <<pool, keyset>>
           ELSE IF Len(pool) < ePoolSizeMax THEN Push(item) ELSE Replace(item)
    /\ sampled' = sampled \cup {k}
    /\ pc' = IF Cardinality(sampled') >= LRUSampleSize THEN "pop" ELSE "sample"
    /\ outlived' = (outlived \/ now - lastAccess[k] >= Cycle)
    /\ UNCHANGED <<lastAccess, now, evicted, before>>

(* The round ends with the store, if that is smaller than the sample.      *)
SampleEnd ==
    /\ pc = "sample" /\ sampled = Store
    /\ pc' = "pop"
    /\ UNCHANGED <<lastAccess, now, pool, keyset, sampled, evicted, before, outlived>>

(* The loop's condition, and its break on an empty pool.                   *)
GoOn == pc' = IF pool # <<>> /\ evicted' < evictCount THEN "sample" ELSE "insert"

(* Fault: a candidate that is gone from the store counts as evicted.       *)
TakeCountingGhosts(item) ==
    /\ pool' \in Arrangements(Elems(pool) \ {item}, IsHeap(pool))
    /\ keyset' = keyset \ {item.key}
    /\ lastAccess' = [j \in Store \ {item.key} |-> lastAccess[j]]
    /\ evicted' = evicted + 1

(* Fault: a candidate that is gone from the store stays in the pool.       *)
TakeLeavingGhosts(item) ==
    IF item.key \in Store
    THEN /\ pool' \in Arrangements(Elems(pool) \ {item}, IsHeap(pool))
         /\ keyset' = keyset \ {item.key}
         /\ lastAccess' = [j \in Store \ {item.key} |-> lastAccess[j]]
         /\ evicted' = evicted + 1
    ELSE UNCHANGED <<pool, keyset, lastAccess, evicted>>

(* PopItem, then delLocked: a key that is gone already does not count.     *)
Take(item) ==
    /\ pool' \in Arrangements(Elems(pool) \ {item}, IsHeap(pool))
    /\ keyset' = keyset \ {item.key}
    /\ lastAccess' = [j \in Store \ {item.key} |-> lastAccess[j]]
    /\ evicted' = evicted + (IF item.key \in Store THEN 1 ELSE 0)

(* The head of the heap goes; without one there is nothing left to evict.  *)
Pop ==
    /\ pc = "pop"
    /\ IF pool = <<>> THEN UNCHANGED <<pool, keyset, lastAccess, evicted>> ELSE Take(pool[1])
    /\ GoOn
    /\ sampled' = {}
    /\ UNCHANGED <<now, before, outlived>>

(* Fault: the Put does not forget that it evicts.                          *)
InsertUnended(k) ==
    /\ pc = "insert"
    /\ lastAccess' = Inserted(k)
    /\ evicted' = 0 /\ before' = {}
    /\ UNCHANGED <<now, pool, keyset, pc, sampled, outlived>>

(* evict() is over, and the Put goes on, with a key that may have been in  *)
(* the store and may have been evicted.                                    *)
Insert(k) ==
    /\ pc = "insert"
    /\ lastAccess' = Inserted(k)
    /\ pc' = "idle"
    /\ evicted' = 0 /\ before' = {}
    /\ UNCHANGED <<now, pool, keyset, sampled, outlived>>

Evict == (\E k \in Keys : Sample(k) \/ Insert(k)) \/ SampleEnd \/ Pop

Next ==
    \/ Tick
    \/ \E k \in Keys : Touch(k) \/ Del(k) \/ PutRoom(k)
    \/ PutFull
    \/ Evict

Spec == Init /\ [][Next]_vars

(* An eviction runs inside of Put, and nothing in it waits.                *)
FairSpec == Spec /\ WF_vars(Evict)
-----------------------------------------------------------------------------
TypeOK ==
    /\ Store \subseteq Keys /\ lastAccess \in [Store -> 0..MaxTime]
    /\ now \in 0..MaxTime
    /\ pool \in Seq(Items) /\ keyset \subseteq Keys
    /\ pc \in {"idle", "sample", "pop", "insert"}
    /\ sampled \subseteq Keys
    /\ before \subseteq Keys /\ (before = {} <=> pc = "idle")
    /\ evicted \in Nat
    /\ outlived \in BOOLEAN

(* The key set names the pool's candidates, each of them once, and there   *)
(* are never more than the pool is to hold, whatever was replaced in       *)
(* place, popped, or deleted behind the pool's back                        *)
(* (evictionpool.go:90-135).                                               *)
PoolConsistent ==
    /\ keyset = {pool[i].key : i \in DOMAIN pool}
    /\ \A i, j \in DOMAIN pool : pool[i].key = pool[j].key => i = j
    /\ Len(pool) <= ePoolSizeMax

(* As long as no candidate outlives a cycle of the clock, the one popped   *)
(* is older than every other, but for the second that a wrap loses         *)
(* (evictionpool.go:46-50, eviction.go:59-66).                             *)
PopsTheIdlest ==
    [][Pop /\ ~outlived => \A i \in DOMAIN pool : pool[1].at <= pool[i].at + 1]_vars

(* Likewise, what a full pool turns away or replaces is not older than     *)
(* what it keeps: looking among the leaves is enough                       *)
(* (evictionpool.go:104-123).                                              *)
PoolKeepsTheIdlest ==
    [][\A k \in sampled' \ sampled :
           k \notin keyset /\ ~outlived' =>
               LET offered == Elems(pool) \cup {[key |-> k, at |-> lastAccess[k]]} IN
               \A x \in offered \ Elems(pool'), y \in Elems(pool') : y.at <= x.at + 1]_vars

(* Stale candidates notwithstanding, a Put into a full store removes       *)
(* exactly the keys its strategy says, and seen from outside in one step.  *)
Contract == INSTANCE EvictionAbs WITH
    Quota <- evictCount, present <- IF pc = "idle" THEN Store ELSE before
ImplementsContract == Contract!Spec

(* The loop goes on until enough keys are gone, and each round may pop a   *)
(* candidate that no longer exists: it must come to an end all the same    *)
(* (eviction.go:128-146).                                                  *)
EvictionEnds == pc = "sample" ~> pc = "idle"

(* "Wraparound is handled correctly in getIdleTime" (Readme.md:525): the   *)
(* idle time of a key that was used within the last cycle is the time      *)
(* since then.                                                             *)
IdleTimeIsElapsed ==
    \A k \in Store : now - lastAccess[k] < Cycle => getIdleTime(lastAccess[k]) = now - lastAccess[k]
=============================================================================
