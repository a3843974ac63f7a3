--------------------------- MODULE KeyspaceProofs ---------------------------
(***************************************************************************)
(* Theorems about Keyspace, and about its cron one iteration at a time, for*)
(* every value of their constants.                                         *)
(*                                                                         *)
(* The heap part of TypeOK and NoAliasing are inductive together: they say *)
(* that an object NewObj can return is bound to no key and has no          *)
(* deadline.  Two lemmas carry the argument, one for the two ways the code *)
(* changes the heap: deleting a set of keys, and Put of a new object.      *)
(***************************************************************************)
EXTENDS Cron, FiniteSetTheorems, TLAPS

HeapType ==
    /\ store \in [Keys -> Objs \cup {NoObj}]
    /\ expires \in [Objs -> Nat \cup {Never}]
    /\ val \in [Objs -> Vals \cup {NoVal}]
    /\ objPool \in SUBSET Objs
    /\ keyStat \in Int

HeapOK == HeapType /\ NoAliasing

(* A walk deletes members of the set it walks.                             *)
LEMMA WalksWithin ==
    ASSUME NEW S, NEW n, NEW W \in Walks(S, n)
    PROVE  W \subseteq S
BY DEF Walks

(* evict() deletes keys that are there.                                    *)
LEMMA VictimsWithin ==
    ASSUME NEW P, NEW V \in Victims(P)
    PROVE  V \subseteq P
BY WalksWithin DEF Victims

(* Any set of keys is finite and has a number of elements.                 *)
LEMMA KeySets ==
    ASSUME NEW K, K \subseteq Keys
    PROVE  IsFiniteSet(K) /\ Cardinality(K) \in Nat
BY BoundAssumption, FS_Subset, FS_CardinalityType

(* The objects of a set of bound keys are objects.                         *)
LEMMA BoundObjects ==
    ASSUME HeapType, NEW K, K \subseteq Present
    PROVE  ObjsAt(K) \subseteq Objs /\ NoObj \notin ObjsAt(K)
BY NilAssumption DEF HeapType, Present, Bound, ObjsAt

(* Deleting a set of present keys keeps the heap well formed.              *)
LEMMA DeleteHeap ==
    ASSUME HeapOK, NEW K, K \subseteq Present, delLocked(K)
    PROVE  HeapOK'
<1> USE NilAssumption
<1>1. K \subseteq Keys /\ Present \subseteq Keys
    BY DEF Present
<1>2. HeapType'
    BY <1>1, KeySets, BoundObjects
       DEF HeapOK, HeapType, delLocked, StoreWithout, ExpiresWithout, ValWithout
<1>3. Present' = Present \ K
    BY DEF delLocked, StoreWithout, Present, Bound
<1>4. \A k \in Present' : store'[k] = store[k] /\ store[k] \notin ObjsAt(K)
    BY <1>1, <1>3 DEF delLocked, StoreWithout, HeapOK, NoAliasing, ObjsAt, Present
<1>5. \A o \in Objs : /\ o \in ObjsAt(K) => expires'[o] = Never /\ val'[o] = NoVal
                      /\ o \notin ObjsAt(K) => expires'[o] = expires[o] /\ val'[o] = val[o]
    BY DEF delLocked, ExpiresWithout, ValWithout
<1>6. NoAliasing'
  <2>1. \A j, k \in Present' : store'[j] = store'[k] => j = k
      BY <1>3, <1>4 DEF HeapOK, NoAliasing
  <2>2. objPool' \cap ObjsAt(Present)' = {}
      BY <1>3, <1>4 DEF HeapOK, NoAliasing, delLocked, ObjsAt
  <2>3. \A o \in objPool' : expires'[o] = Never /\ val'[o] = NoVal
      BY <1>5, BoundObjects DEF HeapOK, HeapType, NoAliasing, delLocked
  <2>4. \A k \in Present' : val'[store'[k]] # NoVal
      BY <1>1, <1>3, <1>4, <1>5, BoundObjects DEF HeapOK, HeapType, NoAliasing, ObjsAt, Present, Bound
  <2> QED BY <2>1, <2>2, <2>3, <2>4 DEF NoAliasing, ObjsAt
<1> QED BY <1>2, <1>6 DEF HeapOK

(* What NewObj returns is an object, serves no key that remains, and has   *)
(* no deadline once the deleted keys are gone.                             *)
LEMMA AllocatableIsFree ==
    ASSUME HeapOK, NEW out, out \subseteq Present,
           NEW gone, gone \subseteq out, NEW o \in Allocatable(gone)
    PROVE  /\ o \in Objs
           /\ \A k \in Present \ out : store[k] # o
           /\ ExpiresWithout(out)[o] = Never
<1>1. gone \subseteq Present /\ Present \subseteq Keys
    BY DEF Present
<1>2. CASE o \in objPool
    BY <1>1, <1>2 DEF HeapOK, HeapType, NoAliasing, ExpiresWithout, ObjsAt
<1>3. CASE o \in ObjsAt(gone)
  <2>1. PICK g \in gone : o = store[g]
      BY <1>3 DEF ObjsAt
  <2>2. o \in Objs
      BY <1>1, <1>3, BoundObjects DEF HeapOK
  <2>3. \A k \in Present \ out : store[k] # o
      BY <1>1, <2>1 DEF HeapOK, NoAliasing
  <2> QED BY <2>1, <2>2, <2>3 DEF ExpiresWithout, ObjsAt
<1>4. CASE o \in Objs /\ expires[o] = Never /\ o \notin ObjsAt(Present)
    BY <1>1, <1>4 DEF ExpiresWithout, ObjsAt
<1> QED BY <1>2, <1>3, <1>4 DEF Allocatable

(* Binding a key to a free object keeps the heap well formed.              *)
LEMMA BindHeap ==
    ASSUME HeapOK, NEW k \in Keys, NEW v \in Vals, NEW d \in Int,
           d > 0 => now + d \in Nat, NEW out, out \subseteq Present,
           NEW o \in Objs, \A x \in Present \ out : store[x] # o,
           Bind(k, v, d, o, out)
    PROVE  HeapOK'
<1> USE NilAssumption
<1>1. out \subseteq Keys /\ Present \subseteq Keys
    BY DEF Present
<1>2. ExpiresWithout(out) \in [Objs -> Nat \cup {Never}]
    BY DEF ExpiresWithout, HeapOK, HeapType
<1>3. HeapType'
  <2>1. store' \in [Keys -> Objs \cup {NoObj}]
      BY DEF Bind, StoreWithout, HeapOK, HeapType
  <2>2. expires' \in [Objs -> Nat \cup {Never}]
      BY <1>2 DEF Bind
  <2>3. val' \in [Objs -> Vals \cup {NoVal}]
      BY DEF Bind, ValWithout, HeapOK, HeapType
  <2>4. objPool' \in SUBSET Objs
      BY BoundObjects DEF Bind, HeapOK, HeapType
  <2>5. keyStat' \in Int
      BY <1>1, KeySets DEF Bind, HeapOK, HeapType
  <2> QED BY <2>1, <2>2, <2>3, <2>4, <2>5 DEF HeapType
<1>4. Present' = (Present \ out) \cup {k}
    BY <1>1 DEF Bind, StoreWithout, Present, Bound, HeapOK, HeapType
<1>5. \A x \in Present' : store'[x] = IF x = k THEN o ELSE store[x]
    BY <1>1, <1>4 DEF Bind, StoreWithout, HeapOK, HeapType
<1>6. \A x \in Objs \ {o} :
          /\ x \in ObjsAt(out) => expires'[x] = Never /\ val'[x] = NoVal
          /\ x \notin ObjsAt(out) => expires'[x] = expires[x] /\ val'[x] = val[x]
    BY DEF Bind, ExpiresWithout, ValWithout, HeapOK, HeapType
<1>7. val'[o] = v
    BY DEF Bind, ValWithout
<1>8. NoAliasing'
  <2>1. \A i, j \in Present' : store'[i] = store'[j] => i = j
      BY <1>4, <1>5 DEF HeapOK, NoAliasing
  <2>2. objPool' \cap ObjsAt(Present)' = {}
    <3>1. \A x \in Present' \ {k} : store'[x] \notin objPool \cup ObjsAt(out)
        BY <1>4, <1>5 DEF HeapOK, NoAliasing, ObjsAt
    <3> QED BY <1>5, <3>1 DEF Bind, ObjsAt
  <2>3. \A x \in objPool' : expires'[x] = Never /\ val'[x] = NoVal
      BY <1>6, BoundObjects DEF HeapOK, HeapType, NoAliasing, Bind
  <2>4. \A x \in Present' : val'[store'[x]] # NoVal
    <3>1. \A x \in Present' \ {k} : store'[x] \in Objs \ ({o} \cup ObjsAt(out))
        BY <1>1, <1>4, <1>5, BoundObjects
           DEF HeapOK, HeapType, NoAliasing, ObjsAt, Present, Bound
    <3> QED BY <1>4, <1>5, <1>6, <1>7, <3>1 DEF HeapOK, NoAliasing
  <2> QED BY <2>1, <2>2, <2>3, <2>4 DEF NoAliasing, ObjsAt
<1> QED BY <1>3, <1>8 DEF HeapOK

(* So does Put of a new object, whatever it evicts on the way.             *)
LEMMA PutHeap ==
    ASSUME HeapOK, NEW k \in Keys, NEW v \in Vals, NEW d \in Int,
           d > 0 => now + d \in Nat, NEW gone, gone \subseteq Present,
           PutNew(k, v, d, gone)
    PROVE  HeapOK'
<1>1. PICK o \in Allocatable(gone), V \in Victims(Present \ gone) :
          Bind(k, v, d, o, gone \cup V)
    BY DEF PutNew
<1>2. gone \cup V \subseteq Present
    BY VictimsWithin
<1>3. o \in Objs /\ \A x \in Present \ (gone \cup V) : store[x] # o
    BY <1>2, AllocatableIsFree
<1> QED BY <1>1, <1>2, <1>3, BindHeap
-----------------------------------------------------------------------------
IInv == TypeOK /\ NoAliasing

LEMMA IInvHeap == IInv => HeapOK
BY DEF IInv, TypeOK, HeapOK, HeapType

(* The instants and durations of the commands give legal deadlines.        *)
LEMMA Deadlines ==
    ASSUME IInv, NEW d \in Durs
    PROVE  d \in Int /\ now + d \in Nat
BY TimeAssumption DEF IInv, TypeOK

(* A pair of an MSET is a key and a value.                                 *)
LEMMA BatchPairs ==
    ASSUME IInv, pos <= Len(mset)
    PROVE  mset[pos][1] \in Keys /\ mset[pos][2] \in Vals /\ pos \in 1..MaxBatch
<1>1. mset \in Batches
    BY BoundAssumption DEF IInv, TypeOK
<1>2. PICK n \in 1..MaxBatch : mset \in [1..n -> Keys \X Vals]
    BY <1>1 DEF Batches
<1>3. Len(mset) = n /\ n \in Nat
    BY <1>2, BoundAssumption
<1>4. pos \in 1..n
    BY <1>3, BoundAssumption DEF IInv, TypeOK
<1> QED BY <1>2, <1>4, BoundAssumption

(* Every step keeps the heap well formed.                                  *)
LEMMA NextHeap ==
    ASSUME IInv, [Next]_vars
    PROVE  HeapOK'
<1> USE IInvHeap
<1>1. ASSUME NEW k \in Keys, NEW v \in Vals, NEW d \in Durs, Set(k, v, d) PROVE HeapOK'
    BY <1>1, PutHeap, Deadlines DEF Set
<1>2. ASSUME MSetPut PROVE HeapOK'
    BY <1>2, PutHeap, BatchPairs DEF MSetPut
<1>3. ASSUME NEW k \in Keys, NEW v \in Vals, Write(k, v) PROVE HeapOK'
  <2>1. CASE Live(k)
    <3>1. store[k] \in Objs /\ k \in Present
        BY <2>1 DEF Live, Bound, Present, HeapOK, HeapType
    <3>2. UNCHANGED <<store, expires, objPool, keyStat>> /\ val' = [val EXCEPT ![store[k]] = v]
        BY <1>3, <2>1 DEF Write
    <3>3. HeapType'
        BY <3>1, <3>2 DEF HeapOK, HeapType
    <3>4. Present' = Present /\ store[k] \notin objPool
        BY <3>1, <3>2 DEF Present, Bound, HeapOK, NoAliasing, ObjsAt
    <3>5. \A x \in Present : val'[store[x]] # NoVal
        BY <3>1, <3>2, NilAssumption DEF HeapOK, HeapType, NoAliasing
    <3>6. \A x \in objPool : val'[x] = val[x]
        BY <3>2, <3>4 DEF HeapOK, HeapType
    <3> QED BY <3>2, <3>3, <3>4, <3>5, <3>6 DEF HeapOK, NoAliasing, ObjsAt
  <2>2. CASE ~Live(k)
    <3>1. PutNew(k, v, -1, Stale(k))
        BY <1>3, <2>2 DEF Write
    <3>2. Stale(k) \subseteq Present
        BY DEF Stale, Expired
    <3> QED BY <3>1, <3>2, PutHeap
  <2> QED BY <2>1, <2>2
<1>4. ASSUME NEW k \in Keys, k \in Expired, delLocked({k}) PROVE HeapOK'
    BY <1>4, DeleteHeap DEF Expired
<1>5. ASSUME UNCHANGED heap PROVE HeapOK'
    BY <1>5 DEF heap, HeapOK, HeapType, NoAliasing, Present, Bound, ObjsAt
<1>6. ASSUME NEW k \in Keys, NEW d \in Durs, Expire(k, d) PROVE HeapOK'
  <2>1. CASE Live(k)
    <3>1. store[k] \in Objs /\ k \in Present
        BY <2>1 DEF Live, Bound, Present, HeapOK, HeapType
    <3>2. UNCHANGED <<store, val, objPool, keyStat>>
          /\ expires' = [expires EXCEPT ![store[k]] = now + d]
        BY <1>6, <2>1 DEF Expire
    <3>3. HeapType'
        BY <3>1, <3>2, Deadlines DEF HeapOK, HeapType
    <3>4. Present' = Present /\ store[k] \notin objPool
        BY <3>1, <3>2 DEF Present, Bound, HeapOK, NoAliasing, ObjsAt
    <3>5. \A x \in objPool : expires'[x] = expires[x]
        BY <3>2, <3>4 DEF HeapOK, HeapType
    <3> QED BY <3>2, <3>3, <3>4, <3>5 DEF HeapOK, NoAliasing, ObjsAt
  <2> QED BY <1>4, <1>5, <1>6, <2>1 DEF Expire
<1>7. ASSUME NEW K \in SUBSET Keys, Del(K) PROVE HeapOK'
    BY <1>7, DeleteHeap DEF Del
<1>8. ASSUME FlushDB PROVE HeapOK'
    BY <1>8 DEF FlushDB, HeapOK, HeapType, NoAliasing, Present, Bound, ObjsAt
<1>9. ASSUME Sweep PROVE HeapOK'
  <2>1. PICK K \in Samples : delLocked(K)
      BY <1>9 DEF Sweep
  <2>2. K \subseteq Present
      BY WalksWithin DEF Samples, Expired
  <2> QED BY <2>1, <2>2, DeleteHeap
<1>10. ASSUME NEW o \in Objs, PoolGC(o) PROVE HeapOK'
    BY <1>10 DEF PoolGC, HeapOK, HeapType, NoAliasing, Present, Bound, ObjsAt
<1>11. ASSUME NEW k \in Keys, Read(k) PROVE HeapOK'
    BY <1>4, <1>5, <1>11 DEF Read
<1>12. ASSUME UNCHANGED vars PROVE UNCHANGED heap
    BY <1>12 DEF vars, heap
<1> QED
    BY <1>1, <1>2, <1>3, <1>5, <1>6, <1>7, <1>8, <1>9, <1>10, <1>11, <1>12
       DEF Next, MSetBegin, MSetEnd, Tick

(* What Read tells its client is an entry.                                 *)
LEMMA ReadReply ==
    ASSUME IInv, NEW k \in Keys, Live(k)
    PROVE  [val |-> val[store[k]], dl |-> expires[store[k]]]
               \in [val : Vals, dl : Nat \cup {Never}]
<1>1. store[k] \in Objs /\ val[store[k]] # NoVal
    BY DEF IInv, TypeOK, NoAliasing, Live, Present, Bound
<1> QED BY <1>1 DEF IInv, TypeOK

(* The rest of the type invariant: clock, reply, and the two loops.        *)
LEMMA NextControl ==
    ASSUME IInv, [Next]_vars
    PROVE  /\ now' \in Times
           /\ reply' \in {Done, Absent} \cup [val : Vals, dl : Nat \cup {Never}]
           /\ mset' \in {<<>>} \cup Batches
           /\ pos' \in 1..(MaxBatch + 1) /\ pos' <= Len(mset') + 1
           /\ sweeping' \in BOOLEAN
<1> DEFINE Control ==
           /\ now \in Times
           /\ reply \in {Done, Absent} \cup [val : Vals, dl : Nat \cup {Never}]
           /\ mset \in {<<>>} \cup Batches
           /\ pos \in 1..(MaxBatch + 1) /\ pos <= Len(mset) + 1
           /\ sweeping \in BOOLEAN
<1> SUFFICES Control'
    OBVIOUS
<1> USE BoundAssumption
<1>0. Control
    BY DEF IInv, TypeOK
<1>1. CASE UNCHANGED <<now, reply, mset, pos, sweeping>>
    BY <1>0, <1>1
<1>2. CASE reply' = Done /\ UNCHANGED <<now, mset, pos, sweeping>>
    BY <1>0, <1>2
<1>3. ASSUME NEW pairs \in Batches, MSetBegin(pairs) PROVE Control'
  <2>1. pos = 1
      BY <1>0, <1>3 DEF MSetBegin, Idle
  <2>2. Len(pairs) \in Nat
      BY DEF Batches
  <2> QED BY <1>0, <1>3, <2>1, <2>2 DEF MSetBegin
<1>4. ASSUME MSetPut PROVE Control'
  <2>1. pos \in 1..MaxBatch /\ Len(mset) \in Nat
      BY <1>0, <1>4, BatchPairs DEF MSetPut, Batches
  <2> QED BY <1>0, <1>4, <2>1 DEF MSetPut
<1>5. ASSUME MSetEnd PROVE Control'
    BY <1>0, <1>5 DEF MSetEnd
<1>6. ASSUME NEW k \in Keys, Read(k) PROVE Control'
    BY <1>0, <1>6, ReadReply DEF Read
<1>7. ASSUME NEW t \in Times, Tick(t) PROVE Control'
    BY <1>0, <1>7 DEF Tick
<1>8. ASSUME Sweep PROVE Control'
  <2>1. sweeping' \in BOOLEAN
      BY <1>8 DEF Sweep
  <2> QED BY <1>0, <1>8, <2>1 DEF Sweep
<1>9. ASSUME UNCHANGED vars PROVE Control'
    BY <1>1, <1>9 DEF vars
<1>10. ASSUME Next PROVE Control'
    BY <1>1, <1>2, <1>3, <1>4, <1>5, <1>6, <1>7, <1>8, <1>10
       DEF Next, Set, Write, Expire, Del, FlushDB, PoolGC
<1> QED BY <1>9, <1>10

LEMMA InitIInv == Init => IInv
<1> SUFFICES ASSUME Init PROVE IInv
    OBVIOUS
<1>1. Present = {}
    BY DEF Init, Present, Bound
<1>2. pos \in 1..(MaxBatch + 1) /\ pos <= Len(mset) + 1
    BY BoundAssumption DEF Init
<1>3. TypeOK
  <2>1. /\ store \in [Keys -> Objs \cup {NoObj}]
        /\ expires \in [Objs -> Nat \cup {Never}]
        /\ val \in [Objs -> Vals \cup {NoVal}]
        /\ objPool \in SUBSET Objs /\ keyStat \in Int /\ now \in Times
      BY DEF Init
  <2>2. /\ reply \in {Done, Absent} \cup [val : Vals, dl : Nat \cup {Never}]
        /\ mset \in {<<>>} \cup Batches /\ sweeping \in BOOLEAN
      BY DEF Init
  <2> QED BY <1>2, <2>1, <2>2 DEF TypeOK
<1>4. NoAliasing
    BY <1>1 DEF Init, NoAliasing
<1> QED BY <1>3, <1>4 DEF IInv

LEMMA NextIInv == IInv /\ [Next]_vars => IInv'
BY NextHeap, NextControl DEF IInv, TypeOK, HeapOK, HeapType

LEMMA Invariance == Spec => []IInv
BY InitIInv, NextIInv, PTL DEF Spec

(* Every variable keeps its type: in particular the loops of MSET never    *)
(* leave the batch, and what a reader is told is an entry or nothing.      *)
THEOREM TypeCorrect == Spec => []TypeOK
BY Invariance, PTL DEF IInv

(* No object ever serves two keys, and one that waits for reuse carries    *)
(* nothing over: NewObj may leave the deadline map alone (store.go:50-60). *)
THEOREM NoAliasingAlways == Spec => []NoAliasing
BY Invariance, PTL DEF IInv
-----------------------------------------------------------------------------
(* Deleting makes the store smaller, and counts every deletion.            *)
LEMMA DeleteCounts ==
    ASSUME HeapOK, NEW K, K \subseteq Present, delLocked(K)
    PROVE  /\ Cardinality(Present') = Cardinality(Present) - Cardinality(K)
           /\ keyStat' = keyStat - Cardinality(K)
           /\ Cardinality(Present) \in Nat /\ Cardinality(K) \in Nat
           /\ Cardinality(Present') \in Nat
<1>1. Present' = Present \ K
    BY DEF delLocked, StoreWithout, Present, Bound
<1>2. IsFiniteSet(Present) /\ Present \cap K = K /\ Present \subseteq Keys /\ K \subseteq Keys
    BY KeySets DEF Present
<1>3. Cardinality(Present \ K) = Cardinality(Present) - Cardinality(Present \cap K)
    BY <1>2, FS_Difference
<1> QED BY <1>1, <1>2, <1>3, KeySets DEF delLocked

(* Put of a new object makes the store larger by one at most, and counts   *)
(* one more key in any case.                                               *)
LEMMA BindCounts ==
    ASSUME HeapOK, NEW k \in Keys, NEW v, NEW d, NEW o \in Objs,
           NEW out, out \subseteq Present, Bind(k, v, d, o, out)
    PROVE  /\ Cardinality(Present') <= Cardinality(Present) - Cardinality(out) + 1
           /\ keyStat' = keyStat - Cardinality(out) + 1
           /\ Cardinality(Present) \in Nat /\ Cardinality(out) \in Nat
           /\ Cardinality(Present') \in Nat
<1>1. Present' = (Present \ out) \cup {k}
    BY NilAssumption DEF Bind, StoreWithout, Present, Bound, HeapOK, HeapType
<1>2. IsFiniteSet(Present) /\ Present \cap out = out /\ Present \subseteq Keys /\ out \subseteq Keys
    BY KeySets DEF Present
<1>3. Cardinality(Present \ out) = Cardinality(Present) - Cardinality(Present \cap out)
    BY <1>2, FS_Difference
<1>4. IsFiniteSet(Present \ out) /\ Cardinality(Present \ out) \in Nat
    BY <1>2, FS_Subset, FS_CardinalityType
<1>5. Cardinality((Present \ out) \cup {k}) <= Cardinality(Present \ out) + 1
  <2>1. Cardinality((Present \ out) \cup {k})
            = IF k \in Present \ out THEN Cardinality(Present \ out)
                                    ELSE Cardinality(Present \ out) + 1
      BY <1>4, FS_AddElement
  <2> QED BY <1>4, <2>1
<1>6. (Present \ out) \cup {k} \subseteq Keys
    BY <1>2
<1> QED BY <1>1, <1>2, <1>3, <1>4, <1>5, <1>6, KeySets DEF Bind

(* What is left after an eviction has room for one more key.               *)
LEMMA EvictionMakesRoom ==
    ASSUME NEW P, P \subseteq Keys, Cardinality(P) <= KeysLimit, NEW V \in Victims(P)
    PROVE  Cardinality(P) - Cardinality(V) < KeysLimit
<1> USE LimitAssumption
<1>1. IsFiniteSet(P) /\ Cardinality(P) \in Nat /\ Cardinality({}) = 0
    BY KeySets, FS_EmptySet
<1>2. CASE Cardinality(P) < KeysLimit
    BY <1>1, <1>2 DEF Victims
<1>3. CASE Cardinality(P) = KeysLimit
  <2>1. Quota(P) \in Nat /\ Quota(P) > 0
      BY <1>1, <1>3, StrategyAssumption DEF Quota
  <2>2. V = P \/ Cardinality(V) = Quota(P)
      BY <1>3 DEF Victims, Walks
  <2> QED BY <1>1, <1>3, <2>1, <2>2
<1> QED BY <1>1, <1>2, <1>3

SizeAndStat == SizeWithinLimit /\ StatCoversKeys

(* Put of a new object keeps the store within its limit, and the counter   *)
(* above its size.                                                         *)
LEMMA PutCounts ==
    ASSUME HeapOK, SizeAndStat, NEW k \in Keys, NEW v, NEW d,
           NEW gone, gone \subseteq Present, PutNew(k, v, d, gone)
    PROVE  SizeAndStat'
<1>1. PICK o \in Allocatable(gone), V \in Victims(Present \ gone) :
          Bind(k, v, d, o, gone \cup V)
    BY DEF PutNew
<1>2. V \subseteq Present \ gone /\ gone \cup V \subseteq Present
    BY VictimsWithin
<1>3. o \in Objs
    BY <1>2, AllocatableIsFree
<1> DEFINE out == gone \cup V
<1>4. /\ Cardinality(Present') <= Cardinality(Present) - Cardinality(out) + 1
      /\ keyStat' = keyStat - Cardinality(out) + 1
      /\ Cardinality(Present) \in Nat /\ Cardinality(out) \in Nat
      /\ Cardinality(Present') \in Nat
    BY <1>1, <1>2, <1>3, BindCounts
<1>5. /\ IsFiniteSet(Present) /\ IsFiniteSet(gone) /\ IsFiniteSet(V)
      /\ Cardinality(gone) \in Nat /\ Cardinality(V) \in Nat
  <2>1. Present \subseteq Keys
      BY DEF Present
  <2> QED BY <1>2, <2>1, KeySets
<1>6. Cardinality(Present \ gone) = Cardinality(Present) - Cardinality(gone)
  <2>1. Present \cap gone = gone
      OBVIOUS
  <2> QED BY <1>5, <2>1, FS_Difference
<1>7. Cardinality(out) = Cardinality(gone) + Cardinality(V)
  <2>1. gone \cap V = {} /\ Cardinality({}) = 0
      BY <1>2, FS_EmptySet
  <2>2. Cardinality(gone \cup V)
            = Cardinality(gone) + Cardinality(V) - Cardinality(gone \cap V)
      BY <1>5, FS_Union
  <2>3. Cardinality(gone \cap V) = 0
      BY <2>1
  <2>4. Cardinality(gone \cup V) = Cardinality(gone) + Cardinality(V)
      BY <1>5, <2>2, <2>3
  <2> QED BY <2>4
<1>8. Cardinality(Present \ gone) - Cardinality(V) < KeysLimit
  <2>1. Present \ gone \subseteq Keys
      BY DEF Present
  <2>2. Cardinality(Present \ gone) <= KeysLimit
      BY <1>4, <1>5, <1>6, LimitAssumption DEF SizeAndStat, SizeWithinLimit
  <2> QED BY <2>1, <2>2, EvictionMakesRoom
<1>9. SizeWithinLimit'
    BY <1>4, <1>5, <1>6, <1>7, <1>8, LimitAssumption DEF SizeWithinLimit
<1>10. StatCoversKeys'
    BY <1>4 DEF SizeAndStat, StatCoversKeys, HeapOK, HeapType
<1> QED BY <1>9, <1>10 DEF SizeAndStat

LEMMA NextCounts ==
    ASSUME IInv, SizeAndStat, [Next]_vars
    PROVE  SizeAndStat'
<1>0. HeapOK
    BY IInvHeap
<1>1. ASSUME NEW K, K \subseteq Present, delLocked(K) PROVE SizeAndStat'
    BY <1>0, <1>1, DeleteCounts, LimitAssumption
       DEF SizeAndStat, SizeWithinLimit, StatCoversKeys, HeapOK, HeapType
<1>2. ASSUME UNCHANGED <<store, keyStat>> PROVE SizeAndStat'
    BY <1>2 DEF SizeAndStat, SizeWithinLimit, StatCoversKeys, Present, Bound
<1>3. ASSUME NEW k \in Keys, NEW v \in Vals, NEW d \in Durs, Set(k, v, d) PROVE SizeAndStat'
    BY <1>0, <1>3, PutCounts DEF Set
<1>4. ASSUME MSetPut PROVE SizeAndStat'
    BY <1>0, <1>4, PutCounts, BatchPairs DEF MSetPut
<1>5. ASSUME NEW k \in Keys, NEW v \in Vals, Write(k, v) PROVE SizeAndStat'
  <2>1. CASE Live(k)
      BY <1>2, <1>5, <2>1 DEF Write
  <2>2. CASE ~Live(k)
    <3>1. PutNew(k, v, -1, Stale(k)) /\ Stale(k) \subseteq Present
        BY <1>5, <2>2 DEF Write, Stale, Expired
    <3> QED BY <1>0, <3>1, PutCounts
  <2> QED BY <2>1, <2>2
<1>6. ASSUME NEW k \in Keys, Read(k) PROVE SizeAndStat'
    BY <1>1, <1>2, <1>6 DEF Read, Expired, heap
<1>7. ASSUME NEW k \in Keys, NEW d \in Durs, Expire(k, d) PROVE SizeAndStat'
    BY <1>1, <1>2, <1>7 DEF Expire, Expired, heap
<1>8. ASSUME NEW K \in SUBSET Keys, Del(K) PROVE SizeAndStat'
    BY <1>1, <1>8 DEF Del
<1>9. ASSUME FlushDB PROVE SizeAndStat'
  <2>1. Present' = {} /\ keyStat' = 0
      BY <1>9 DEF FlushDB, Present, Bound
  <2> QED BY <2>1, FS_EmptySet, LimitAssumption
          DEF SizeAndStat, SizeWithinLimit, StatCoversKeys
<1>10. ASSUME Sweep PROVE SizeAndStat'
  <2>1. PICK K \in Samples : delLocked(K)
      BY <1>10 DEF Sweep
  <2>2. K \subseteq Present
      BY WalksWithin DEF Samples, Expired
  <2> QED BY <1>1, <2>1, <2>2
<1>11. CASE UNCHANGED vars
    BY <1>2, <1>11 DEF vars
<1> QED
    BY <1>2, <1>3, <1>4, <1>5, <1>6, <1>7, <1>8, <1>9, <1>10, <1>11
       DEF Next, MSetBegin, MSetEnd, Tick, PoolGC, heap

LEMMA InitCounts == Init => SizeAndStat
<1> SUFFICES ASSUME Init PROVE SizeAndStat
    OBVIOUS
<1>1. Present = {} /\ keyStat = 0
    BY DEF Init, Present, Bound
<1> QED BY <1>1, FS_EmptySet, LimitAssumption
        DEF SizeAndStat, SizeWithinLimit, StatCoversKeys

LEMMA CountsInvariance == Spec => []SizeAndStat
BY Invariance, InitCounts, NextCounts, PTL DEF Spec

(* For every limit, ratio and strategy, the store never exceeds KeysLimit: *)
(* eviction before insertion is enough (store.go:76-80, eviction.go).      *)
THEOREM SizeAlwaysWithinLimit == Spec => []SizeWithinLimit
BY CountsInvariance, PTL DEF SizeAndStat

(* The key counter INFO reports is never below the number of keys          *)
(* (store.go:84, 134, eval.go:238).                                        *)
THEOREM StatAlwaysCoversKeys == Spec => []StatCoversKeys
BY CountsInvariance, PTL DEF SizeAndStat
-----------------------------------------------------------------------------
(* What a key shows after a deletion: the deleted keys nothing, the others *)
(* what they showed before.                                                *)
LEMMA DeleteEntries ==
    ASSUME HeapOK, NEW K, K \subseteq Present, delLocked(K)
    PROVE  \A x \in Keys : Entry(x)' = IF x \in K THEN Absent ELSE Entry(x)
<1> SUFFICES ASSUME NEW x \in Keys
             PROVE  Entry(x)' = IF x \in K THEN Absent ELSE Entry(x)
    OBVIOUS
<1>1. CASE x \in K
    BY <1>1 DEF delLocked, StoreWithout, Entry, Bound
<1>2. CASE x \notin K
  <2>1. store'[x] = store[x]
      BY <1>2 DEF delLocked, StoreWithout
  <2>2. CASE Bound(x)
    <3>1. store[x] \in Objs /\ store[x] \notin ObjsAt(K)
        BY <1>2, <2>2 DEF HeapOK, HeapType, NoAliasing, ObjsAt, Present, Bound
    <3>2. expires'[store[x]] = expires[store[x]] /\ val'[store[x]] = val[store[x]]
        BY <3>1 DEF delLocked, ExpiresWithout, ValWithout
    <3> QED BY <1>2, <2>1, <3>2 DEF Entry, Bound
  <2> QED BY <1>2, <2>1, <2>2 DEF Entry, Bound
<1> QED BY <1>1, <1>2

(* What a key shows after Put of a new object: k the new value, with the   *)
(* deadline asked for or none, the deleted keys nothing, the others what   *)
(* they showed before.                                                     *)
LEMMA BindEntries ==
    ASSUME HeapOK, NEW k \in Keys, NEW v \in Vals, NEW d \in Int,
           NEW out, out \subseteq Present,
           NEW o \in Objs, \A x \in Present \ out : store[x] # o,
           ExpiresWithout(out)[o] = Never, Bind(k, v, d, o, out)
    PROVE  \A x \in Keys : Entry(x)' =
               IF x = k THEN [val |-> v, dl |-> IF d > 0 THEN now + d ELSE Never]
               ELSE IF x \in out THEN Absent ELSE Entry(x)
<1> USE NilAssumption
<1> SUFFICES ASSUME NEW x \in Keys
             PROVE  Entry(x)' =
                 IF x = k THEN [val |-> v, dl |-> IF d > 0 THEN now + d ELSE Never]
                 ELSE IF x \in out THEN Absent ELSE Entry(x)
    OBVIOUS
<1>1. CASE x = k
  <2>1. store'[k] = o /\ val'[o] = v
      BY DEF Bind, StoreWithout, ValWithout
  <2>2. expires'[o] = IF d > 0 THEN now + d ELSE Never
      BY DEF Bind, ExpiresWithout
  <2> QED BY <1>1, <2>1, <2>2 DEF Entry, Bound
<1>2. CASE x # k /\ x \in out
    BY <1>2 DEF Bind, StoreWithout, Entry, Bound
<1>3. CASE x # k /\ x \notin out
  <2>1. store'[x] = store[x]
      BY <1>3 DEF Bind, StoreWithout
  <2>2. CASE Bound(x)
    <3>1. store[x] \in Objs \ {o} /\ store[x] \notin ObjsAt(out)
        BY <1>3, <2>2 DEF HeapOK, HeapType, NoAliasing, ObjsAt, Present, Bound
    <3>2. expires'[store[x]] = expires[store[x]] /\ val'[store[x]] = val[store[x]]
        BY <3>1 DEF Bind, ExpiresWithout, ValWithout
    <3> QED BY <1>3, <2>1, <3>2 DEF Entry, Bound
  <2> QED BY <1>3, <2>1, <2>2 DEF Entry, Bound
<1> QED BY <1>1, <1>2, <1>3

(* A key is present, expired or live for the map when it is for the store. *)
LEMMA SameKeys ==
    ASSUME HeapOK
    PROVE  /\ \A x \in Keys : Bound(x) <=> Entry(x) # Absent
           /\ Map!Present = Present
           /\ \A x \in Keys : Map!Expired(x) <=> x \in Expired
           /\ \A x \in Keys : Map!Live(x) <=> Live(x)
<1>1. \A x \in Keys : Bound(x) <=> Entry(x) # Absent
    BY DEF HeapOK, NoAliasing, Entry, Absent, Present
<1>2. Absent = Map!Absent /\ Never = Map!Never
    BY DEF Absent, Map!Absent, Never, Map!Never
<1>3. Map!Present = Present
    BY <1>1, <1>2 DEF Map!Present, Present
<1>4. \A x \in Keys : Map!Expired(x) <=> x \in Expired
    BY <1>1, <1>2 DEF Map!Expired, Expired, Present, hasExpired, Entry
<1>5. \A x \in Keys : Map!Live(x) <=> Live(x)
    BY <1>1, <1>2, <1>4 DEF Map!Live, Live, Expired, Present
<1> QED BY <1>1, <1>3, <1>4, <1>5

(* The size of a set is the same in both modules.                          *)
LEMMA SameSize == ASSUME NEW S PROVE Map!Cardinality(S) = Cardinality(S)
BY Zenon DEF Map!Cardinality, Cardinality

(* Put of a new object is the map's Store: what eviction takes besides is  *)
(* taken from a full store only.                                           *)
LEMMA PutStores ==
    ASSUME HeapOK, SizeAndStat, NEW k \in Keys, NEW v \in Vals, NEW d \in Int,
           d > 0 => now + d \in Nat,
           NEW gone, gone \subseteq Present \cap {k}, PutNew(k, v, d, gone)
    PROVE  Map!Store(k, [val |-> v, dl |-> IF d > 0 THEN now + d ELSE Map!Never])
<1> USE DEF Map!Never
<1>1. PICK o \in Allocatable(gone), V \in Victims(Present \ gone) :
          Bind(k, v, d, o, gone \cup V)
    BY DEF PutNew
<1> DEFINE out == gone \cup V
           lost == V \ {k}
           e == [val |-> v, dl |-> IF d > 0 THEN now + d ELSE Never]
<1>2. V \subseteq Present /\ out \subseteq Present /\ lost \subseteq Keys \ {k}
    BY VictimsWithin DEF Present
<1>3. /\ o \in Objs
      /\ \A x \in Present \ out : store[x] # o
      /\ ExpiresWithout(out)[o] = Never
    BY <1>2, AllocatableIsFree
<1>4. \A x \in Keys : Entry(x)' = IF x = k THEN e
                                  ELSE IF x \in out THEN Absent ELSE Entry(x)
  <2>1. Bind(k, v, d, o, out)
      BY <1>1
  <2> HIDE DEF out
  <2> QED BY <1>2, <1>3, <2>1, BindEntries
<1>5. \A x \in Keys : Entry(x)' = IF x = k THEN e
                                  ELSE IF x \in lost THEN Absent ELSE Entry(x)
    BY <1>4
<1>6. lost # {} => Cardinality(Present) >= KeysLimit
  <2>1. Cardinality(Present) \in Nat /\ IsFiniteSet(Present)
      BY KeySets DEF Present
  <2>2. SUFFICES ASSUME lost # {} PROVE Cardinality(Present) >= KeysLimit
      OBVIOUS
  <2>3. Cardinality(Present \ gone) >= KeysLimit
    <3>1. ~(Cardinality(Present \ gone) < KeysLimit)
        BY <2>2 DEF Victims
    <3>2. Cardinality(Present \ gone) \in Nat
        BY KeySets DEF Present
    <3> QED BY <3>1, <3>2, LimitAssumption
  <2>4. Cardinality(Present \ gone) <= Cardinality(Present)
      BY <2>1, FS_Subset
  <2>5. Cardinality(Present \ gone) \in Nat
      BY KeySets DEF Present
  <2> QED BY <2>1, <2>3, <2>4, <2>5, LimitAssumption
<1>7. HeapOK' /\ SizeWithinLimit'
    BY PutHeap, PutCounts DEF SizeAndStat
<1>8. Present' = {x \in Keys : Entry(x)' # Absent}
    BY <1>7, NilAssumption DEF HeapOK, NoAliasing, Present, Bound, Entry, Absent
<1>9. Cardinality({x \in Keys : Entry(x)' # Absent}) <= KeysLimit
    BY <1>7, <1>8 DEF SizeWithinLimit
<1>10. [x \in Keys |-> Entry(x)]'
           = [x \in Keys |-> IF x = k THEN e
                             ELSE IF x \in lost THEN Map!Absent
                             ELSE [y \in Keys |-> Entry(y)][x]]
    BY <1>5 DEF Map!Absent, Absent
<1>11. Map!Cardinality({x \in Keys : [y \in Keys |-> Entry(y)]'[x] # Map!Absent}) <= KeysLimit
  <2>1. {x \in Keys : [y \in Keys |-> Entry(y)]'[x] # Map!Absent}
            = {x \in Keys : Entry(x)' # Absent}
      BY DEF Map!Absent, Absent
  <2> QED BY <1>9, <2>1, SameSize
<1>12. lost # {} => Map!Cardinality(Map!Present) >= KeysLimit
    BY <1>6, SameKeys, SameSize
<1>13. lost \in SUBSET (Keys \ {k})
    BY <1>2
<1> HIDE DEF lost
<1> QED BY <1>10, <1>11, <1>12, <1>13 DEF Map!Store, Never

(* Get's deletion of an expired key, as the map sees it.                   *)
LEMMA DeleteOne ==
    ASSUME HeapOK, NEW k \in Present, delLocked({k})
    PROVE  [x \in Keys |-> Entry(x)]'
               = [[x \in Keys |-> Entry(x)] EXCEPT ![k] = Map!Absent]
BY DeleteEntries DEF Map!Absent, Absent, Present

(* A step that leaves the heap alone leaves every entry alone.             *)
LEMMA SameHeapSameEntries ==
    ASSUME UNCHANGED heap
    PROVE  [x \in Keys |-> Entry(x)]' = [x \in Keys |-> Entry(x)]
<1>1. \A x \in Keys : Entry(x)' = Entry(x)
    BY DEF heap, Entry, Bound
<1> QED BY <1>1

(* Updating the value or the deadline of a live key's object changes that  *)
(* key's entry and no other one.                                           *)
LEMMA WriteEntries ==
    ASSUME HeapOK, NEW k \in Present, NEW v,
           val' = [val EXCEPT ![store[k]] = v], UNCHANGED <<store, expires>>
    PROVE  [x \in Keys |-> Entry(x)]' = [[x \in Keys |-> Entry(x)] EXCEPT ![k].val = v]
<1>1. k \in Keys /\ store[k] \in Objs /\ Bound(k)
    BY DEF HeapOK, HeapType, Present, Bound
<1>2. Entry(k)' = [Entry(k) EXCEPT !.val = v]
    BY <1>1 DEF Entry, Bound, HeapOK, HeapType
<1>3. \A x \in Keys \ {k} : Entry(x)' = Entry(x)
    BY <1>1 DEF Entry, Bound, HeapOK, HeapType, NoAliasing, Present
<1> QED BY <1>1, <1>2, <1>3

LEMMA ExpireEntries ==
    ASSUME HeapOK, NEW k \in Present, NEW t,
           expires' = [expires EXCEPT ![store[k]] = t], UNCHANGED <<store, val>>
    PROVE  [x \in Keys |-> Entry(x)]' = [[x \in Keys |-> Entry(x)] EXCEPT ![k].dl = t]
<1>1. k \in Keys /\ store[k] \in Objs /\ Bound(k)
    BY DEF HeapOK, HeapType, Present, Bound
<1>2. Entry(k)' = [Entry(k) EXCEPT !.dl = t]
    BY <1>1 DEF Entry, Bound, HeapOK, HeapType
<1>3. \A x \in Keys \ {k} : Entry(x)' = Entry(x)
    BY <1>1 DEF Entry, Bound, HeapOK, HeapType, NoAliasing, Present
<1> QED BY <1>1, <1>2, <1>3

(* A round of the sweep that ends the loop has deleted all that expired.   *)
LEMMA LastRound ==
    ASSUME HeapOK, Sweep
    PROVE  \E K \in SUBSET Expired :
               delLocked(K) /\ sweeping' \in BOOLEAN /\ (~sweeping' => K = Expired)
<1>1. PICK K \in Samples : delLocked(K) /\ sweeping' = (4 * Cardinality(K) >= SampleLimit)
    BY DEF Sweep
<1>2. K \subseteq Expired
    BY WalksWithin DEF Samples
<1>3. ~sweeping' => K = Expired
  <2>1. CASE K = Expired
      BY <2>1
  <2>2. CASE K # Expired
    <3>1. Cardinality(K) = SampleLimit
        BY <2>2 DEF Samples, Walks
    <3>2. 4 * Cardinality(K) >= SampleLimit
        BY <3>1, SampleAssumption
    <3> QED BY <1>1, <3>2, Zenon
  <2> QED BY <2>1, <2>2
<1>4. sweeping' \in BOOLEAN
    BY <1>1
<1> QED BY <1>1, <1>2, <1>3, <1>4

(* After deleting all that had expired, with the clock unchanged, nothing  *)
(* has.                                                                    *)
LEMMA NothingExpired ==
    ASSUME HeapOK, delLocked(Expired), now' = now
    PROVE  Expired' = {}
<1>1. Present' = Present \ Expired
    BY DEF delLocked, StoreWithout, Present, Bound
<1>2. \A k \in Present' : store'[k] = store[k] /\ store[k] \notin ObjsAt(Expired)
    BY <1>1 DEF delLocked, StoreWithout, HeapOK, NoAliasing, ObjsAt, Present, Expired
<1>3. \A k \in Present' : expires'[store'[k]] = expires[store[k]]
    BY <1>1, <1>2 DEF delLocked, ExpiresWithout, HeapOK, HeapType, Present, Bound
<1> QED BY <1>1, <1>2, <1>3 DEF Expired, hasExpired

LEMMA NextSweep ==
    ASSUME IInv, [Next]_vars, sweeping, ~sweeping'
    PROVE  Expired' = {}
<1>1. HeapOK
    BY IInvHeap
<1>2. CASE Sweep
    BY <1>1, <1>2, LastRound, NothingExpired DEF Sweep
<1>3. CASE ~Sweep
  <2>1. sweeping' = sweeping
      BY <1>3 DEF Next, vars, Set, MSetBegin, MSetPut, MSetEnd, Write, Read, Expire, Del,
                  FlushDB, Tick, PoolGC, Idle
  <2> QED BY <2>1
<1> QED BY <1>2, <1>3

(* Stopping the cron at a round that deleted less than a quarter of the    *)
(* limit is safe: such a round has walked the whole store (expire.go:29-74)*)
THEOREM SweepAlwaysLeavesNoneExpired == Spec => SweepLeavesNoneExpired
<1>1. IInv /\ [Next]_vars => [sweeping /\ ~sweeping' => Expired' = {}]_vars
    BY NextSweep
<1> QED BY <1>1, Invariance, PTL DEF Spec, SweepLeavesNoneExpired
-----------------------------------------------------------------------------
(* Every step of the keyspace is a step of the map, or changes nothing the *)
(* map can see.                                                            *)
LEMMA NextImplements ==
    ASSUME IInv, SizeAndStat, [Next]_vars
    PROVE  [Map!Next]_(Map!vars)
<1> DEFINE db == [x \in Keys |-> Entry(x)]
<1>0. /\ HeapOK /\ Idle = Map!Idle /\ Done = Map!Done /\ Absent = Map!Absent
      /\ Never = Map!Never /\ Batches = Map!Batches
    BY IInvHeap DEF Idle, Map!Idle, Done, Map!Done, Absent, Map!Absent, Never, Map!Never,
                    Batches, Map!Batches
<1>1. ASSUME NEW k \in Keys, NEW v \in Vals, NEW d \in Durs, Set(k, v, d)
      PROVE  Map!Set(k, v, d)
    BY <1>0, <1>1, PutStores, Deadlines DEF Set, Map!Set
<1>2. ASSUME NEW pairs \in Batches, MSetBegin(pairs) PROVE Map!MSetBegin(pairs)
    BY <1>0, <1>2, SameHeapSameEntries DEF MSetBegin, Map!MSetBegin
<1>3. ASSUME MSetPut PROVE Map!MSetPut
  <2>1. PutNew(mset[pos][1], mset[pos][2], -1, {}) /\ pos <= Len(mset)
      BY <1>3 DEF MSetPut
  <2>2. mset[pos][1] \in Keys /\ mset[pos][2] \in Vals
      BY <2>1, BatchPairs
  <2>3. Map!Store(mset[pos][1], [val |-> mset[pos][2], dl |-> Map!Never])
      BY <1>0, <2>1, <2>2, PutStores
  <2> QED BY <1>3, <2>3 DEF MSetPut, Map!MSetPut
<1>4. ASSUME MSetEnd PROVE Map!MSetEnd
    BY <1>0, <1>4, SameHeapSameEntries DEF MSetEnd, Map!MSetEnd
<1>5. ASSUME NEW k \in Keys, NEW v \in Vals, Write(k, v) PROVE Map!Write(k, v)
  <2>1. CASE Live(k)
    <3>1. val' = [val EXCEPT ![store[k]] = v] /\ UNCHANGED <<store, expires>>
          /\ k \in Present
        BY <1>5, <2>1 DEF Write, Live, Present
    <3>2. db' = [db EXCEPT ![k].val = v]
        BY <1>0, <3>1, WriteEntries
    <3> QED BY <1>0, <1>5, <2>1, <3>2, SameKeys DEF Write, Map!Write
  <2>2. CASE ~Live(k)
    <3>1. PutNew(k, v, -1, Stale(k)) /\ Stale(k) \subseteq Present \cap {k}
        BY <1>5, <2>2 DEF Write, Stale, Expired
    <3>2. Map!Store(k, [val |-> v, dl |-> Map!Never])
        BY <1>0, <3>1, PutStores
    <3> QED BY <1>0, <1>5, <2>2, <3>2, SameKeys DEF Write, Map!Write
  <2> QED BY <2>1, <2>2
<1>6. ASSUME NEW k \in Keys, Read(k) PROVE Map!Read(k)
  <2>1. Live(k) => db[k] = [val |-> val[store[k]], dl |-> expires[store[k]]]
      BY DEF Live, Entry
  <2>2. reply' = IF Live(k) THEN db[k] ELSE Map!Absent
      BY <1>0, <1>6, <2>1 DEF Read
  <2>3. db' = IF k \in Expired THEN [db EXCEPT ![k] = Map!Absent] ELSE db
      BY <1>0, <1>6, DeleteOne, SameHeapSameEntries DEF Read, Expired
  <2> QED BY <1>0, <1>6, <2>2, <2>3, SameKeys DEF Read, Map!Read
<1>7. ASSUME NEW k \in Keys, NEW d \in Durs, Expire(k, d) PROVE Map!Expire(k, d)
  <2>1. CASE Live(k)
    <3>1. expires' = [expires EXCEPT ![store[k]] = now + d] /\ UNCHANGED <<store, val>>
          /\ k \in Present
        BY <1>7, <2>1 DEF Expire, Live, Present
    <3>2. db' = [db EXCEPT ![k].dl = now + d]
        BY <1>0, <3>1, ExpireEntries
    <3> QED BY <1>0, <1>7, <2>1, <3>2, SameKeys DEF Expire, Map!Expire
  <2>2. CASE ~Live(k)
    <3>1. db' = [db EXCEPT ![k] = Map!Absent]
      <4>1. CASE k \in Expired
          BY <1>0, <1>7, <2>2, <4>1, DeleteOne DEF Expire, Expired
      <4>2. CASE k \notin Expired
        <5>1. ~Bound(k) /\ db[k] = Map!Absent
            BY <1>0, <2>2, <4>2 DEF Live, Expired, Present, Entry
        <5>2. db' = db
            BY <1>7, <2>2, <4>2, SameHeapSameEntries DEF Expire
        <5> QED BY <5>1, <5>2
      <4> QED BY <4>1, <4>2
    <3> QED BY <1>0, <1>7, <2>2, <3>1, SameKeys DEF Expire, Map!Expire
  <2> QED BY <2>1, <2>2
<1>8. ASSUME NEW K \in SUBSET Keys, Del(K) PROVE Map!Remove(K)
  <2>1. \A x \in Keys : Entry(x)' = IF x \in K THEN Absent ELSE Entry(x)
    <3>1. \A x \in Keys : Entry(x)' = IF x \in K \cap Present THEN Absent ELSE Entry(x)
        BY <1>0, <1>8, DeleteEntries DEF Del
    <3> QED BY <1>0, <3>1, SameKeys DEF Present
  <2>2. db' = [x \in Keys |-> IF x \in K THEN Map!Absent ELSE db[x]]
      BY <1>0, <2>1
  <2> QED BY <1>0, <1>8, <2>2 DEF Del, Map!Remove
<1>9. ASSUME FlushDB PROVE Map!Remove(Keys)
  <2>1. \A x \in Keys : Entry(x)' = Absent
      BY <1>9 DEF FlushDB, Entry, Bound
  <2>2. db' = [x \in Keys |-> IF x \in Keys THEN Map!Absent ELSE db[x]]
      BY <1>0, <2>1
  <2> QED BY <1>0, <1>9, <2>2 DEF FlushDB, Map!Remove
<1>10. ASSUME NEW t \in Times, Tick(t) PROVE Map!Tick(t)
    BY <1>0, <1>10, SameHeapSameEntries DEF Tick, Map!Tick
<1>11. ASSUME Sweep PROVE Map!Sweep
  <2>1. PICK K \in SUBSET Expired :
            delLocked(K) /\ sweeping' \in BOOLEAN /\ (~sweeping' => K = Expired)
      BY <1>0, <1>11, LastRound
  <2>2. Expired = {x \in Keys : Map!Expired(x)} /\ K \subseteq Present
      BY <1>0, SameKeys DEF Expired, Present
  <2>3. db' = [x \in Keys |-> IF x \in K THEN Map!Absent ELSE db[x]]
      BY <1>0, <2>1, <2>2, DeleteEntries
  <2> QED BY <1>11, <2>1, <2>2, <2>3 DEF Sweep, Map!Sweep
<1>12. ASSUME NEW o \in Objs, PoolGC(o) PROVE UNCHANGED Map!vars
  <2>1. \A x \in Keys : Entry(x)' = Entry(x)
      BY <1>12 DEF PoolGC, Entry, Bound
  <2> QED BY <1>12, <2>1 DEF PoolGC, Map!vars
<1>13. ASSUME UNCHANGED vars PROVE UNCHANGED Map!vars
    BY <1>13, SameHeapSameEntries DEF vars, heap, Map!vars
<1>14. CASE Next
    BY <1>0, <1>1, <1>2, <1>3, <1>4, <1>5, <1>6, <1>7, <1>8, <1>9, <1>10, <1>11, <1>12, <1>14
       DEF Next, Map!Next
<1> QED BY <1>13, <1>14

LEMMA InitImplements == Init => Map!Init
<1> SUFFICES ASSUME Init PROVE Map!Init
    OBVIOUS
<1>1. \A x \in Keys : Entry(x) = Map!Absent
    BY DEF Init, Entry, Bound, Absent, Map!Absent
<1> QED BY <1>1 DEF Init, Map!Init, Done, Map!Done

(* Behind the pointers the keyspace is a map from keys to entries: pooling *)
(* objects, keeping deadlines by pointer and dropping overwritten objects  *)
(* are invisible to clients (store.go, expire.go, eval.go).                *)
THEOREM Implementation == Spec => ImplementsMap
<1>1. IInv /\ SizeAndStat /\ [Next]_vars => [Map!Next]_(Map!vars)
    BY NextImplements
<1> QED
    BY <1>1, InitImplements, Invariance, CountsInvariance, PTL
       DEF Spec, ImplementsMap, Map!Spec
-----------------------------------------------------------------------------
(* What a round knows half-way: what it has looked at and not deleted had  *)
(* not expired, and cannot expire while the cached clock stands still.     *)
CronIInv ==
    /\ store \in [Keys -> Objs \cup {NoObj}]
    /\ expires \in [Objs -> Nat \cup {Never}]
    /\ deleted \in 0..SampleLimit
    /\ seen \cap Expired = {}
    /\ sweeping \in BOOLEAN
    /\ ~sweeping => seen = {} /\ deleted = 0

(* Deleting an expired key makes no other key expired, nor itself.         *)
LEMMA DeletingExpiresNone ==
    ASSUME NEW k \in Present, delLocked({k}), now' = now,
           store \in [Keys -> Objs \cup {NoObj}], expires \in [Objs -> Nat \cup {Never}]
    PROVE  /\ Expired' \subseteq Expired \ {k}
           /\ store' \in [Keys -> Objs \cup {NoObj}]
           /\ expires' \in [Objs -> Nat \cup {Never}]
<1>1. store' = StoreWithout({k}) /\ expires' = ExpiresWithout({k})
    BY DEF delLocked
<1>2. store' \in [Keys -> Objs \cup {NoObj}] /\ expires' \in [Objs -> Nat \cup {Never}]
    BY <1>1 DEF StoreWithout, ExpiresWithout
<1>3. ASSUME NEW x \in Expired' PROVE x \in Expired \ {k}
  <2>1. x \in Keys /\ store'[x] # NoObj /\ hasExpired(store[x])'
      BY <1>3, <1>1 DEF Expired, Present, Bound, hasExpired
  <2>2. x # k /\ store'[x] = store[x] /\ store[x] \in Objs
      BY <1>1, <2>1 DEF StoreWithout
  <2>3. expires'[store[x]] = Never \/ expires'[store[x]] = expires[store[x]]
      BY <1>1, <2>2 DEF ExpiresWithout
  <2>4. expires'[store[x]] # Never /\ expires'[store[x]] <= now
      BY <1>3, <2>2 DEF Expired, hasExpired
  <2> QED BY <2>1, <2>2, <2>3, <2>4 DEF Expired, Present, Bound, hasExpired
<1> QED BY <1>2, <1>3

LEMMA LookAtKeeps ==
    ASSUME CronIInv, NEW k \in Keys, LookAt(k)
    PROVE  CronIInv'
<1>1. sweeping' = sweeping /\ sweeping /\ now' = now /\ seen' = seen \cup {k} /\ k \in Present
    BY DEF LookAt, Unseen
<1>2. CASE k \in Expired
  <2>1. delLocked({k}) /\ deleted' = deleted + 1 /\ deleted # SampleLimit
      BY <1>2, SampleAssumption DEF LookAt, limit, CronIInv
  <2>2. deleted' \in 0..SampleLimit
      BY <2>1, SampleAssumption DEF CronIInv
  <2>3. /\ Expired' \subseteq Expired \ {k}
        /\ store' \in [Keys -> Objs \cup {NoObj}]
        /\ expires' \in [Objs -> Nat \cup {Never}]
      BY <1>1, <2>1, DeletingExpiresNone DEF CronIInv
  <2> QED BY <1>1, <2>2, <2>3 DEF CronIInv
<1>3. CASE k \notin Expired
  <2>1. UNCHANGED <<store, expires, now, deleted>>
      BY <1>1, <1>3 DEF LookAt, heap
  <2>2. Expired' = Expired
      BY <2>1 DEF Expired, Present, Bound, hasExpired
  <2> QED BY <1>1, <1>3, <2>1, <2>2 DEF CronIInv
<1> QED BY <1>2, <1>3

(* The end of a round, and what holds when it is the last.                 *)
LEMMA RoundEndKeeps ==
    ASSUME CronIInv, RoundEnd
    PROVE  CronIInv' /\ (~sweeping' => Expired' = {})
<1>1. UNCHANGED <<store, expires, now>> /\ seen' = {} /\ deleted' = 0 /\ sweeping' = Many
    BY DEF RoundEnd, heap
<1>2. Expired' = Expired
    BY <1>1 DEF Expired, Present, Bound, hasExpired
<1>3. CronIInv'
    BY <1>1, SampleAssumption DEF CronIInv, Many
<1>4. ASSUME ~sweeping' PROVE Expired = {}
  <2>1. ~(4 * deleted >= SampleLimit)
      BY <1>1, <1>4 DEF Many
  <2>2. limit # 0
      BY <2>1, SampleAssumption DEF limit, CronIInv
  <2>3. Present \subseteq seen
      BY <2>2 DEF RoundEnd, Unseen
  <2> QED BY <2>3 DEF CronIInv, Expired
<1> QED BY <1>2, <1>3, <1>4

LEMMA CronNextKeeps ==
    ASSUME CronIInv, [CronNext]_cvars
    PROVE  CronIInv' /\ (sweeping /\ ~sweeping' => Expired' = {})
<1>1. ASSUME NEW t \in Times, Turn(t)
      PROVE  CronIInv' /\ ~sweeping
  <2>1. /\ UNCHANGED <<store, expires, seen, deleted>>
        /\ ~sweeping /\ sweeping' \in BOOLEAN
      BY <1>1 DEF Turn, Tick, Idle, heap
  <2>2. seen' = {} /\ deleted' = 0
      BY <2>1 DEF CronIInv
  <2> QED BY <2>1, <2>2, SampleAssumption DEF CronIInv
<1>2. ASSUME NEW k \in Keys, LookAt(k) PROVE CronIInv' /\ sweeping'
    BY <1>2, LookAtKeeps DEF LookAt
<1>3. CASE UNCHANGED cvars
  <2>1. UNCHANGED <<store, expires, now, seen, deleted, sweeping>>
      BY <1>3 DEF cvars, vars
  <2>2. Expired' = Expired
      BY <2>1 DEF Expired, Present, Bound, hasExpired
  <2> QED BY <2>1, <2>2 DEF CronIInv
<1> QED BY <1>1, <1>2, <1>3, RoundEndKeeps DEF CronNext

(* The same of the loop as the code runs it: whatever store the cron finds,*)
(* in whatever order it walks it, a round that ends the loop did so after  *)
(* looking at every key, and no key it had passed has expired since        *)
(* (expire.go:29-74).                                                      *)
THEOREM CronAlwaysLeavesNoneExpired == CronSpec => SweepLeavesNoneExpired
<1>1. ASSUME CronInit PROVE CronIInv
  <2>1. store \in [Keys -> Objs \cup {NoObj}]
      BY <1>1, FilledAssumption DEF CronInit
  <2>2. expires \in [Objs -> Nat \cup {Never}]
      BY <1>1, StartDeadlinesAssumption DEF CronInit
  <2>3. seen = {} /\ deleted = 0 /\ sweeping = FALSE
      BY <1>1 DEF CronInit
  <2>4. deleted \in 0..SampleLimit
      BY <2>3, SampleAssumption
  <2> QED BY <2>1, <2>2, <2>3, <2>4 DEF CronIInv
<1>2. CronIInv /\ [CronNext]_cvars => CronIInv'
    BY CronNextKeeps
<1>3. CronIInv /\ [CronNext]_cvars => [sweeping /\ ~sweeping' => Expired' = {}]_vars
    BY CronNextKeeps
<1> QED BY <1>1, <1>2, <1>3, PTL DEF CronSpec, SweepLeavesNoneExpired
=============================================================================
