------------------------- MODULE LruEvictionProofs -------------------------
(***************************************************************************)
(* What LruEviction.tla checks on four keys, proved for any of its         *)
(* constants: type correctness, the agreement of the pool and its key set, *)
(* the contract of evict(), and that the heap stays in the order of age    *)
(* while its candidates are within a cycle of the clock.                   *)
(***************************************************************************)
EXTENDS LruEviction, FiniteSetTheorems, TLAPS

(* Every set of natural numbers that is not empty has a least one.         *)
LEMMA LeastNat ==
    ASSUME NEW T \in SUBSET Nat, T # {}
    PROVE  \E m \in T : \A n \in T : m <= n
<1>1. \E m \in T : \A n \in T : ~ (<<n, m>> \in OpToRel(<, Nat))
    BY NatLessThanWellFounded, WFMin, Zenon
<1>2. PICK m \in T : \A n \in T : ~ (<<n, m>> \in OpToRel(<, Nat))
    BY <1>1
<1>3. \A n \in T : ~ (n < m)
    BY <1>2 DEF OpToRel
<1> QED BY <1>3

(* The places of a sequence of a given length.                             *)
LEMMA OneTo ==
    ASSUME NEW n \in Nat
    PROVE  IsFiniteSet(1..n) /\ Cardinality(1..n) = n
    BY FS_Interval

(* A sequence's items are finitely many, and as many as its length if none *)
(* occurs twice.                                                           *)
LEMMA ElemsOfSequence ==
    ASSUME NEW X, NEW s \in Seq(X)
    PROVE  /\ IsFiniteSet(Elems(s)) /\ Elems(s) \subseteq X
           /\ (\A i, j \in DOMAIN s : s[i] = s[j] => i = j) => Cardinality(Elems(s)) = Len(s)
<1>1. s \in [1..Len(s) -> Elems(s)] /\ Len(s) \in Nat /\ DOMAIN s = 1..Len(s)
    BY DEF Elems
<1>2. s \in Surjection(1..Len(s), Elems(s))
    BY <1>1 DEF Surjection, Elems
<1>3. IsFiniteSet(1..Len(s)) /\ Cardinality(1..Len(s)) = Len(s)
    BY <1>1, OneTo
<1>4. IsFiniteSet(Elems(s))
    BY <1>2, <1>3, FS_Surjection
<1>5. ASSUME \A i, j \in DOMAIN s : s[i] = s[j] => i = j
      PROVE  Cardinality(Elems(s)) = Len(s)
    <2>1. s \in Injection(1..Len(s), Elems(s))
        BY <1>1, <1>5 DEF Injection, IsInjective
    <2> QED BY <1>2, <1>3, <2>1, FS_Surjection
<1>6. Elems(s) \subseteq X
    BY <1>1 DEF Elems
<1> QED BY <1>4, <1>5, <1>6

(* An arrangement of a finite set is a sequence of its members, each once. *)
LEMMA Arranged ==
    ASSUME NEW S, IsFiniteSet(S), NEW given, NEW s \in Arrangements(S, given)
    PROVE  /\ s \in Seq(S) /\ Len(s) = Cardinality(S) /\ Elems(s) = S
           /\ \A i, j \in DOMAIN s : s[i] = s[j] => i = j
           /\ given => IsHeap(s)
<1>1. Cardinality(S) \in Nat
    BY FS_CardinalityType
<1>2. s \in [1..Cardinality(S) -> S] /\ Elems(s) = S /\ (given => IsHeap(s))
    BY DEF Arrangements
<1>3. s \in Seq(S) /\ Len(s) = Cardinality(S)
    BY <1>1, <1>2
<1>4. s \in Surjection(1..Cardinality(S), S)
    BY <1>2 DEF Surjection, Elems
<1>5. IsFiniteSet(1..Cardinality(S)) /\ Cardinality(1..Cardinality(S)) = Cardinality(S)
    BY <1>1, OneTo
<1>6. s \in Injection(1..Cardinality(S), S)
    BY <1>4, <1>5, FS_SurjSameCardinalityImpliesInj
<1>7. \A i, j \in DOMAIN s : s[i] = s[j] => i = j
    BY <1>6 DEF Injection, IsInjective
<1> QED BY <1>2, <1>3, <1>7
-----------------------------------------------------------------------------
(* The clock is a number below Cycle.                                      *)
LEMMA ClockRange ==
    ASSUME NEW t \in Nat
    PROVE  Clock(t) \in 0..(Cycle - 1)
    BY ClockAssumption DEF Clock

LEMMA IdleRange ==
    ASSUME now \in Nat, NEW t \in Nat
    PROVE  getIdleTime(t) \in Nat
    BY ClockAssumption, ClockRange DEF getIdleTime

(* Instants less than a cycle apart differ on the clock by as much, or, if *)
(* it wrapped between them, by a cycle less.                               *)
LEMMA ClockDifference ==
    ASSUME NEW a \in Nat, NEW t \in Nat, a <= t, t - a < Cycle
    PROVE  \/ Clock(t) - Clock(a) = t - a
           \/ Clock(t) - Clock(a) = t - a - Cycle
<1>1. a = Cycle * (a \div Cycle) + Clock(a) /\ a \div Cycle \in Int
    BY ClockAssumption DEF Clock
<1>2. t = Cycle * (t \div Cycle) + Clock(t) /\ t \div Cycle \in Int
    BY ClockAssumption DEF Clock
<1>3. PICK p \in Int, q \in Int : a = Cycle * p + Clock(a) /\ t = Cycle * q + Clock(t)
    BY <1>1, <1>2
<1>4. Clock(a) \in 0..(Cycle - 1) /\ Clock(t) \in 0..(Cycle - 1)
    BY ClockRange
<1>5. t - a = Cycle * (q - p) + (Clock(t) - Clock(a))
    <2>1. Cycle * (q - p) = Cycle * q - Cycle * p /\ Cycle * q \in Int /\ Cycle * p \in Int
        BY ClockAssumption
    <2> QED BY <1>3, <1>4, <2>1
<1>6. CASE q - p <= -1
    <2>1. Cycle * (q - p) <= -Cycle
        BY <1>6, ClockAssumption
    <2> QED BY <1>4, <1>5, <2>1, ClockAssumption
<1>7. CASE q - p >= 2
    <2>1. Cycle * (q - p) >= 2 * Cycle
        BY <1>7, ClockAssumption
    <2> QED BY <1>4, <1>5, <2>1, ClockAssumption
<1>8. CASE q - p = 0 \/ q - p = 1
    BY <1>4, <1>5, <1>8, ClockAssumption
<1> QED BY <1>3, <1>6, <1>7, <1>8

(* What getIdleTime says of an instant less than a cycle ago is its age,   *)
(* or a second less.                                                       *)
LEMMA IdleIsAge ==
    ASSUME now \in Nat, NEW t \in Nat, t <= now, now - t < Cycle
    PROVE  getIdleTime(t) \in {now - t, now - t - 1}
    BY ClockDifference, ClockRange, ClockAssumption DEF getIdleTime

(* A second adds as much to the idle times of all such instants: nothing   *)
(* when the clock wraps around, and one otherwise.                         *)
LEMMA IdleAdvances ==
    ASSUME now \in Nat, now' = now + 1, NEW t \in Nat, t <= now, now' - t < Cycle
    PROVE  getIdleTime(t)' = getIdleTime(t) + (IF Clock(now + 1) < Clock(now) THEN 0 ELSE 1)
<1>1. \/ Clock(now) - Clock(t) = now - t
      \/ Clock(now) - Clock(t) = now - t - Cycle
    BY ClockDifference, ClockAssumption
<1>2. \/ Clock(now + 1) - Clock(t) = now + 1 - t
      \/ Clock(now + 1) - Clock(t) = now + 1 - t - Cycle
    BY ClockDifference, ClockAssumption
<1>3. /\ Clock(now) \in 0..(Cycle - 1) /\ Clock(now + 1) \in 0..(Cycle - 1)
      /\ Clock(t) \in 0..(Cycle - 1)
    BY ClockRange, ClockAssumption
<1>4. getIdleTime(t)' = IF Clock(now + 1) >= Clock(t) THEN Clock(now + 1) - Clock(t)
                                                     ELSE (Cycle - 1 - Clock(t)) + Clock(now + 1)
    BY DEF getIdleTime, Clock
<1> QED BY <1>1, <1>2, <1>3, <1>4, ClockAssumption DEF getIdleTime

(* So their order stays.                                                   *)
LEMMA OrderStays ==
    ASSUME now \in Nat, now' = now + 1,
           NEW x \in Items, NEW y \in Items, x.at \in Nat, y.at \in Nat,
           x.at <= now, now' - x.at < Cycle, y.at <= now, now' - y.at < Cycle
    PROVE  Less(x, y)' <=> Less(x, y)
<1>1. getIdleTime(x.at) \in Nat /\ getIdleTime(y.at) \in Nat
    BY IdleRange
<1>2. /\ getIdleTime(x.at)' = getIdleTime(x.at) + (IF Clock(now + 1) < Clock(now) THEN 0 ELSE 1)
      /\ getIdleTime(y.at)' = getIdleTime(y.at) + (IF Clock(now + 1) < Clock(now) THEN 0 ELSE 1)
    BY IdleAdvances
<1>3. Less(x, y)' <=> getIdleTime(x.at)' > getIdleTime(y.at)'
    BY DEF Less
<1> QED BY <1>1, <1>2, <1>3 DEF Less
-----------------------------------------------------------------------------
(* The types of the pool's items.                                          *)
LEMMA PoolTyped ==
    ASSUME now \in Nat, pool \in Seq(Items)
    PROVE  \A j \in DOMAIN pool : /\ pool[j] \in Items /\ pool[j].at \in Nat
                                  /\ getIdleTime(pool[j].at) \in Nat
<1> SUFFICES ASSUME NEW j \in DOMAIN pool
             PROVE  /\ pool[j] \in Items /\ pool[j].at \in Nat
                    /\ getIdleTime(pool[j].at) \in Nat
    OBVIOUS
<1>1. pool[j] \in Items
    OBVIOUS
<1>2. pool[j].at \in 0..MaxTime
    BY <1>1 DEF Items
<1>3. pool[j].at \in Nat
    BY <1>2, ClockAssumption
<1> QED BY <1>1, <1>3, IdleRange

(* Which places of the pool are leaves.                                    *)
LEMMA LeavesArePlaces ==
    ASSUME pool \in Seq(Items)
    PROVE  /\ DOMAIN pool = 1..Len(pool) /\ Len(pool) \in Nat
           /\ Leaves \subseteq DOMAIN pool
           /\ pool # <<>> => Len(pool) \in Leaves
           /\ \A j \in DOMAIN pool : j \notin Leaves => 2 * j <= Len(pool)
<1>1. DOMAIN pool = 1..Len(pool) /\ Len(pool) \in Nat
    OBVIOUS
<1>2. pool # <<>> => Len(pool) >= 1
    OBVIOUS
<1>3. PICK n \in Nat : n = Len(pool)
    BY <1>1
<1>4. Leaves = (n \div 2 + 1)..n
    BY <1>3 DEF Leaves
<1>5. (n \div 2 + 1)..n \subseteq 1..n
    OBVIOUS
<1>6. n >= 1 => n \in (n \div 2 + 1)..n
    OBVIOUS
<1>7. \A j \in 1..n : j \notin (n \div 2 + 1)..n => 2 * j <= n
    OBVIOUS
<1> QED BY <1>1, <1>2, <1>3, <1>4, <1>5, <1>6, <1>7

(* The head of a heap is the most idle of its items.                       *)
LEMMA HeadIsIdlest ==
    ASSUME now \in Nat, pool \in Seq(Items), IsHeap(pool), NEW i \in DOMAIN pool
    PROVE  getIdleTime(pool[i].at) <= getIdleTime(pool[1].at)
<1> DEFINE Idle(j) == getIdleTime(pool[j].at)
           Above == {j \in DOMAIN pool : Idle(j) > Idle(1)}
<1>1. DOMAIN pool = 1..Len(pool) /\ Len(pool) \in Nat
    BY DEF Items
<1>3. \A j \in DOMAIN pool : Idle(j) \in Nat
    BY PoolTyped
<1>4. \A j \in 2..Len(pool) : Idle(j) <= Idle(j \div 2) /\ j \div 2 \in 1..(j - 1)
    <2> TAKE j \in 2..Len(pool)
    <2>1. j \div 2 \in 1..(j - 1)
        BY <1>1
    <2>2. ~Less(pool[j], pool[j \div 2])
        BY DEF IsHeap
    <2>3. Idle(j) \in Nat /\ Idle(j \div 2) \in Nat
        BY <1>1, <1>3, <2>1
    <2> QED BY <2>1, <2>2, <2>3 DEF Less
<1> HIDE DEF Idle
<1>5. SUFFICES ASSUME Above # {} PROVE FALSE
    BY <1>1, <1>3 DEF Idle
<1>6. PICK m \in Above : \A n \in Above : m <= n
    <2>1. Above \in SUBSET Nat
        BY <1>1
    <2> HIDE DEF Above
    <2> QED BY <1>5, <2>1, LeastNat
<1>7. m \in 2..Len(pool)
    BY <1>1, <1>3, <1>6
<1> QED BY <1>1, <1>3, <1>4, <1>6, <1>7

(* Some leaf of a heap is at most as idle as any given item.               *)
LEMMA LeafBelow ==
    ASSUME now \in Nat, pool \in Seq(Items), IsHeap(pool), NEW i \in DOMAIN pool
    PROVE  \E j \in Leaves : getIdleTime(pool[j].at) <= getIdleTime(pool[i].at)
<1> DEFINE Idle(j) == getIdleTime(pool[j].at)
           Bare == {n \in DOMAIN pool : \A j \in Leaves : ~ (Idle(j) <= Idle(n))}
           FromEnd == {n \in 0..Len(pool) : Len(pool) - n \in Bare}
<1>1. DOMAIN pool = 1..Len(pool) /\ Len(pool) \in Nat
    BY DEF Items
<1>3. \A j \in DOMAIN pool : Idle(j) \in Nat
    BY PoolTyped
<1>4. \A j \in 1..Len(pool) : 2 * j <= Len(pool) => Idle(2 * j) <= Idle(j)
    <2> SUFFICES ASSUME NEW j \in 1..Len(pool), 2 * j <= Len(pool)
                 PROVE  Idle(2 * j) <= Idle(j)
        OBVIOUS
    <2>1. 2 * j \in 2..Len(pool) /\ (2 * j) \div 2 = j
        BY <1>1
    <2>2. ~Less(pool[2 * j], pool[j])
        BY <2>1 DEF IsHeap
    <2>3. Idle(j) \in Nat /\ Idle(2 * j) \in Nat
        BY <1>1, <1>3, <2>1
    <2> QED BY <2>2, <2>3 DEF Less
<1>5. Leaves \subseteq DOMAIN pool /\ \A j \in DOMAIN pool : j \notin Leaves => 2 * j <= Len(pool)
    BY LeavesArePlaces
<1> HIDE DEF Idle
<1>6. SUFFICES ASSUME Bare # {} PROVE FALSE
    BY <1>1, <1>3 DEF Idle
<1>7. PICK b \in Bare : TRUE
    BY <1>6
<1>8. Len(pool) - b \in FromEnd
    BY <1>1, <1>7
<1>9. PICK m \in FromEnd : \A n \in FromEnd : m <= n
    <2>1. FromEnd \in SUBSET Nat
        BY <1>1
    <2> HIDE DEF FromEnd
    <2> QED BY <1>8, <2>1, LeastNat
<1>10. PICK w \in Bare : w = Len(pool) - m /\ w \in 1..Len(pool)
    BY <1>1, <1>9
<1>11. w \notin Leaves
    BY <1>3, <1>5, <1>10
<1>12. 2 * w \in 1..Len(pool) /\ Idle(2 * w) <= Idle(w)
    BY <1>1, <1>4, <1>5, <1>10, <1>11
<1>13. 2 * w \in Bare
    BY SMTT(30), <1>1, <1>3, <1>5, <1>10, <1>12
<1>14. Len(pool) - 2 * w \in FromEnd
    BY SMTT(30), <1>1, <1>12, <1>13
<1> QED BY <1>1, <1>9, <1>10, <1>14

(* What PushItem looks for among the leaves is there.                      *)
LEMMA MinIdxFound ==
    ASSUME now \in Nat, pool \in Seq(Items), pool # <<>>
    PROVE  /\ minIdx \in DOMAIN pool
           /\ \A j \in Leaves : getIdleTime(pool[minIdx].at) <= getIdleTime(pool[j].at)
<1> DEFINE Idle(j) == getIdleTime(pool[j].at)
           Idles == {Idle(j) : j \in Leaves}
<1>1. DOMAIN pool = 1..Len(pool) /\ Len(pool) \in Nat /\ Len(pool) >= 1
    BY DEF Items
<1>2. Leaves \subseteq DOMAIN pool /\ Leaves \subseteq Nat /\ Leaves # {}
    BY <1>1, LeavesArePlaces
<1>4. \A j \in DOMAIN pool : Idle(j) \in Nat
    BY PoolTyped
<1> HIDE DEF Idle
<1>5. PICK least \in Idles : \A n \in Idles : least <= n
    <2>1. Idles \in SUBSET Nat /\ Idles # {}
        BY <1>2, <1>4
    <2> QED BY <2>1, LeastNat
<1> DEFINE Lowest == {j \in Leaves : Idle(j) = least}
<1>6. PICK m \in Lowest : \A j \in Lowest : m <= j
    <2>1. Lowest \in SUBSET Nat /\ Lowest # {}
        BY <1>2, <1>5
    <2> QED BY <2>1, LeastNat
<1>7. \A j \in Leaves : Idle(m) < Idle(j) \/ (Idle(m) = Idle(j) /\ m <= j)
    <2> TAKE j \in Leaves
    <2>1. Idle(m) = least /\ least <= Idle(j) /\ Idle(j) \in Nat /\ Idle(m) \in Nat
        BY <1>2, <1>4, <1>5, <1>6
    <2>2. Idle(j) = least => m <= j
        BY <1>6
    <2> QED BY <2>1, <2>2
<1>8. /\ minIdx \in Leaves
      /\ \A j \in Leaves : \/ Idle(minIdx) < Idle(j)
                           \/ Idle(minIdx) = Idle(j) /\ minIdx <= j
    BY <1>6, <1>7 DEF minIdx, Idle
<1> QED BY <1>2, <1>4, <1>8 DEF Idle

(* In a heap it is at most as idle as every item.                          *)
LEMMA MinIdxIsLeast ==
    ASSUME now \in Nat, pool \in Seq(Items), IsHeap(pool), NEW i \in DOMAIN pool
    PROVE  getIdleTime(pool[minIdx].at) <= getIdleTime(pool[i].at)
<1>1. pool # <<>>
    OBVIOUS
<1>2. PICK j \in Leaves : getIdleTime(pool[j].at) <= getIdleTime(pool[i].at)
    BY LeafBelow
<1>3. minIdx \in DOMAIN pool /\ getIdleTime(pool[minIdx].at) <= getIdleTime(pool[j].at)
    BY <1>1, MinIdxFound
<1>4. j \in DOMAIN pool
    BY LeavesArePlaces
<1>5. \A n \in DOMAIN pool : getIdleTime(pool[n].at) \in Nat
    BY PoolTyped
<1> QED BY <1>2, <1>3, <1>4, <1>5
-----------------------------------------------------------------------------
(* The pool as a set of items, one for each key of the key set.            *)
LEMMA PoolAsSet ==
    ASSUME TypeOK, PoolConsistent
    PROVE  /\ Elems(pool) \subseteq Items /\ IsFiniteSet(Elems(pool))
           /\ Cardinality(Elems(pool)) = Len(pool) /\ Len(pool) \in Nat
           /\ \A x, y \in Elems(pool) : x.key = y.key => x = y
           /\ keyset = {x.key : x \in Elems(pool)}
<1>1. pool \in Seq(Items)
    BY DEF TypeOK
<1>2. \A i, j \in DOMAIN pool : pool[i] = pool[j] => i = j
    BY DEF PoolConsistent
<1>3. /\ Elems(pool) \subseteq Items /\ IsFiniteSet(Elems(pool))
      /\ Cardinality(Elems(pool)) = Len(pool)
    BY <1>1, <1>2, ElemsOfSequence
<1>4. Len(pool) \in Nat
    BY <1>1
<1>5. \A x, y \in Elems(pool) : x.key = y.key => x = y
    BY DEF PoolConsistent, Elems
<1>6. keyset = {x.key : x \in Elems(pool)}
    BY DEF PoolConsistent, Elems
<1> QED BY <1>3, <1>4, <1>5, <1>6

(* What the pool is after container/heap has arranged such a set.          *)
LEMMA PoolBuilt ==
    ASSUME NEW S \in SUBSET Items, IsFiniteSet(S), Cardinality(S) <= ePoolSizeMax,
           \A x, y \in S : x.key = y.key => x = y,
           NEW given, pool' \in Arrangements(S, given), keyset' = {x.key : x \in S}
    PROVE  /\ pool' \in Seq(Items) /\ Elems(pool') = S /\ keyset' \subseteq Keys
           /\ PoolConsistent'
           /\ given => IsHeap(pool')
<1>1. /\ pool' \in Seq(S) /\ Len(pool') = Cardinality(S) /\ Elems(pool') = S
      /\ \A i, j \in DOMAIN pool' : pool'[i] = pool'[j] => i = j
      /\ given => IsHeap(pool')
    BY Arranged
<1>2. pool' \in Seq(Items)
    BY <1>1
<1>3. \A i \in DOMAIN pool' : pool'[i] \in S
    BY <1>1
<1>4. keyset' = {pool'[i].key : i \in DOMAIN pool'}
    BY <1>1 DEF Elems
<1>5. \A i, j \in DOMAIN pool' : pool'[i].key = pool'[j].key => i = j
    BY <1>1, <1>3
<1>6. keyset' \subseteq Keys
    BY DEF Items
<1> QED BY <1>1, <1>2, <1>4, <1>5, <1>6 DEF PoolConsistent

(* An item more makes a set at most one larger.                            *)
LEMMA OneMore ==
    ASSUME NEW S, IsFiniteSet(S), NEW x
    PROVE  IsFiniteSet(S \cup {x}) /\ Cardinality(S \cup {x}) <= Cardinality(S) + 1
<1>1. Cardinality(S) \in Nat
    BY FS_CardinalityType
<1>2. IsFiniteSet(S \cup {x})
    BY FS_AddElement
<1>3. Cardinality(S \cup {x}) = IF x \in S THEN Cardinality(S) ELSE Cardinality(S) + 1
    BY FS_AddElement
<1> QED BY <1>1, <1>2, <1>3

(* PushItem with room: one candidate more, and no order lost.              *)
LEMMA PushResult ==
    ASSUME TypeOK, PoolConsistent, NEW item \in Items, item.key \notin keyset,
           Len(pool) < ePoolSizeMax, Push(item)
    PROVE  /\ pool' \in Seq(Items) /\ keyset' \subseteq Keys /\ PoolConsistent'
           /\ Elems(pool') = Elems(pool) \cup {item}
           /\ IsHeap(pool) => IsHeap(pool')
<1> DEFINE S == Elems(pool) \cup {item}
<1>1. /\ Elems(pool) \subseteq Items /\ IsFiniteSet(Elems(pool))
      /\ Cardinality(Elems(pool)) = Len(pool) /\ Len(pool) \in Nat
      /\ \A x, y \in Elems(pool) : x.key = y.key => x = y
      /\ keyset = {x.key : x \in Elems(pool)}
    BY PoolAsSet
<1>2. IsFiniteSet(S) /\ Cardinality(S) <= Len(pool) + 1
    BY <1>1, OneMore
<1>3. S \in SUBSET Items /\ Cardinality(S) <= ePoolSizeMax
    <2>1. Cardinality(S) \in Nat
        BY <1>2, FS_CardinalityType
    <2> QED BY <1>1, <1>2, <2>1, PoolAssumption
<1>4. \A x, y \in S : x.key = y.key => x = y
    BY <1>1
<1>5. keyset' = {x.key : x \in S} /\ pool' \in Arrangements(S, IsHeap(pool))
    BY <1>1 DEF Push
<1> HIDE DEF S
<1>6. /\ pool' \in Seq(Items) /\ Elems(pool') = S /\ keyset' \subseteq Keys
      /\ PoolConsistent'
      /\ IsHeap(pool) => IsHeap(pool')
    BY <1>2, <1>3, <1>4, <1>5, PoolBuilt
<1> QED BY <1>6 DEF S

(* PushItem into a full pool: the candidate instead of the least idle of   *)
(* the leaves, or nothing.                                                 *)
LEMMA ReplaceResult ==
    ASSUME TypeOK, PoolConsistent, NEW item \in Items, item.key \notin keyset,
           Len(pool) >= ePoolSizeMax, Replace(item)
    PROVE  /\ pool' \in Seq(Items) /\ keyset' \subseteq Keys /\ PoolConsistent'
           /\ IsHeap(pool) => IsHeap(pool')
           /\ minIdx \in DOMAIN pool
           /\ \/ /\ ~ (getIdleTime(item.at) > getIdleTime(pool[minIdx].at))
                 /\ pool' = pool
              \/ /\ getIdleTime(item.at) > getIdleTime(pool[minIdx].at)
                 /\ Elems(pool') = (Elems(pool) \ {pool[minIdx]}) \cup {item}
<1>1. /\ Elems(pool) \subseteq Items /\ IsFiniteSet(Elems(pool))
      /\ Cardinality(Elems(pool)) = Len(pool) /\ Len(pool) \in Nat
      /\ \A x, y \in Elems(pool) : x.key = y.key => x = y
      /\ keyset = {x.key : x \in Elems(pool)}
    BY PoolAsSet
<1>2. minIdx \in DOMAIN pool
    <2>1. pool # <<>> /\ pool \in Seq(Items) /\ now \in Nat
        BY PoolAssumption, ClockAssumption DEF TypeOK
    <2> QED BY <2>1, MinIdxFound
<1>3. CASE ~ (getIdleTime(item.at) > getIdleTime(pool[minIdx].at))
    BY <1>2, <1>3 DEF Replace, TypeOK, PoolConsistent
<1>4. CASE getIdleTime(item.at) > getIdleTime(pool[minIdx].at)
    <2> DEFINE m == pool[minIdx]
               S == (Elems(pool) \ {m}) \cup {item}
    <2>1. m \in Elems(pool)
        BY <1>2 DEF Elems
    <2>2. IsFiniteSet(Elems(pool) \ {m}) /\ Cardinality(Elems(pool) \ {m}) = Len(pool) - 1
        BY <1>1, <2>1, FS_RemoveElement
    <2>3. IsFiniteSet(S) /\ Cardinality(S) <= Len(pool)
        <3>1. IsFiniteSet(S) /\ Cardinality(S) <= Cardinality(Elems(pool) \ {m}) + 1
            BY <2>2, OneMore
        <3> QED BY <1>1, <2>2, <3>1
    <2>4. S \in SUBSET Items /\ Cardinality(S) <= ePoolSizeMax
        <3>1. Cardinality(S) \in Nat
            BY <2>3, FS_CardinalityType
        <3>2. Len(pool) <= ePoolSizeMax
            BY DEF PoolConsistent
        <3> QED BY <1>1, <2>3, <3>1, <3>2, PoolAssumption
    <2>5. \A x, y \in S : x.key = y.key => x = y
        BY <1>1
    <2>6. keyset' = {x.key : x \in S} /\ pool' \in Arrangements(S, IsHeap(pool))
        <3>1. keyset' = (keyset \ {m.key}) \cup {item.key} /\ pool' \in Arrangements(S, IsHeap(pool))
            BY <1>4 DEF Replace
        <3> QED BY <1>1, <2>1, <3>1
    <2> HIDE DEF S
    <2>7. /\ pool' \in Seq(Items) /\ Elems(pool') = S /\ keyset' \subseteq Keys
          /\ PoolConsistent'
          /\ IsHeap(pool) => IsHeap(pool')
        BY <2>3, <2>4, <2>5, <2>6, PoolBuilt
    <2> QED BY <1>2, <1>4, <2>7 DEF S
<1> QED BY <1>3, <1>4

(* PopItem: one candidate less, and no order lost.                         *)
LEMMA TakeResult ==
    ASSUME TypeOK, PoolConsistent, NEW item \in Elems(pool), Take(item)
    PROVE  /\ pool' \in Seq(Items) /\ keyset' \subseteq Keys /\ PoolConsistent'
           /\ Elems(pool') = Elems(pool) \ {item}
           /\ IsHeap(pool) => IsHeap(pool')
<1> DEFINE S == Elems(pool) \ {item}
<1>1. /\ Elems(pool) \subseteq Items /\ IsFiniteSet(Elems(pool))
      /\ Cardinality(Elems(pool)) = Len(pool) /\ Len(pool) \in Nat
      /\ \A x, y \in Elems(pool) : x.key = y.key => x = y
      /\ keyset = {x.key : x \in Elems(pool)}
    BY PoolAsSet
<1>2. IsFiniteSet(S) /\ Cardinality(S) = Len(pool) - 1
    BY <1>1, FS_RemoveElement
<1>3. S \in SUBSET Items /\ Cardinality(S) <= ePoolSizeMax
    BY <1>1, <1>2, PoolAssumption DEF PoolConsistent
<1>4. \A x, y \in S : x.key = y.key => x = y
    BY <1>1
<1>5. keyset' = {x.key : x \in S} /\ pool' \in Arrangements(S, IsHeap(pool))
    BY <1>1 DEF Take
<1> HIDE DEF S
<1>6. /\ pool' \in Seq(Items) /\ Elems(pool') = S /\ keyset' \subseteq Keys
      /\ PoolConsistent'
      /\ IsHeap(pool) => IsHeap(pool')
    BY <1>2, <1>3, <1>4, <1>5, PoolBuilt
<1> QED BY <1>6 DEF S

Offer(k) == [key |-> k, at |-> lastAccess[k]]

(* A key of a round: the pool is in order, and not empty.                  *)
LEMMA SampleResult ==
    ASSUME TypeOK, PoolConsistent, NEW k \in Keys, Sample(k)
    PROVE  /\ pool' \in Seq(Items) /\ keyset' \subseteq Keys /\ PoolConsistent'
           /\ Elems(pool') \subseteq Elems(pool) \cup {Offer(k)}
           /\ IsHeap(pool) => IsHeap(pool')
           /\ pool' # <<>>
           /\ Offer(k) \in Items
<1>1. Offer(k) \in Items /\ Offer(k).key = k
    <2>1. k \in Store /\ lastAccess[k] \in 0..MaxTime
        BY DEF Sample, TypeOK
    <2> QED BY <2>1 DEF Offer, Items
<1>2. CASE k \in keyset
    <2>1. UNCHANGED <<pool, keyset>>
        BY <1>2 DEF Sample
    <2>2. pool # <<>>
        BY <1>2 DEF PoolConsistent
    <2> QED BY <1>1, <2>1, <2>2 DEF TypeOK, PoolConsistent
<1>3. CASE k \notin keyset /\ Len(pool) < ePoolSizeMax
    <2>1. Push(Offer(k))
        BY <1>3 DEF Sample, Offer
    <2>2. /\ pool' \in Seq(Items) /\ keyset' \subseteq Keys /\ PoolConsistent'
          /\ Elems(pool') = Elems(pool) \cup {Offer(k)}
          /\ IsHeap(pool) => IsHeap(pool')
        BY <1>1, <1>3, <2>1, PushResult
    <2>3. pool' # <<>>
        BY <2>2 DEF Elems
    <2> QED BY <1>1, <2>2, <2>3
<1>4. CASE k \notin keyset /\ ~ (Len(pool) < ePoolSizeMax)
    <2>1. Replace(Offer(k)) /\ Len(pool) >= ePoolSizeMax
        <3>1. Len(pool) \in Nat
            BY PoolAsSet
        <3>2. Replace(Offer(k))
            BY <1>4 DEF Sample, Offer
        <3> QED BY <1>4, <3>1, <3>2, PoolAssumption
    <2>2. /\ pool' \in Seq(Items) /\ keyset' \subseteq Keys /\ PoolConsistent'
          /\ IsHeap(pool) => IsHeap(pool')
          /\ minIdx \in DOMAIN pool
          /\ pool' = pool \/ Elems(pool') = (Elems(pool) \ {pool[minIdx]}) \cup {Offer(k)}
        BY <1>1, <1>4, <2>1, ReplaceResult
    <2>3. pool' # <<>>
        <3>1. pool' = pool => pool' # <<>>
            BY <2>2
        <3>2. Elems(pool') # {} => pool' # <<>>
            BY DEF Elems
        <3> QED BY <2>2, <3>1, <3>2
    <2> QED BY <1>1, <2>2, <2>3
<1> QED BY <1>2, <1>3, <1>4

(* The head of the pool is one of its items.                               *)
LEMMA HeadIsItem ==
    ASSUME pool \in Seq(Items), pool # <<>>
    PROVE  pool[1] \in Elems(pool) /\ pool[1] \in Items /\ 1 \in DOMAIN pool
<1>1. 1 \in DOMAIN pool
    OBVIOUS
<1> QED BY <1>1 DEF Elems

(* One step keeps the types, and the pool and its key set together.        *)
LEMMA TypeStep ==
    ASSUME TypeOK, PoolConsistent, [Next]_vars
    PROVE  TypeOK' /\ PoolConsistent'
<1>1. CASE Tick
    BY <1>1, ClockAssumption DEF Tick, TypeOK, PoolConsistent, Store, evicting, Outlives
<1>2. ASSUME NEW k \in Keys, Touch(k)
      PROVE  TypeOK' /\ PoolConsistent'
    BY <1>2 DEF Touch, TypeOK, PoolConsistent, Store, evicting
<1>3. ASSUME NEW k \in Keys, Del(k)
      PROVE  TypeOK' /\ PoolConsistent'
    BY <1>3 DEF Del, TypeOK, PoolConsistent, Store, evicting
<1>4. ASSUME NEW k \in Keys, PutRoom(k)
      PROVE  TypeOK' /\ PoolConsistent'
    BY <1>4 DEF PutRoom, Inserted, TypeOK, PoolConsistent, Store, evicting
<1>5. CASE PutFull
    <2>1. Store # {}
        BY <1>5, FS_EmptySet, LimitAssumption DEF PutFull
    <2> QED BY <1>5, <2>1 DEF PutFull, TypeOK, PoolConsistent, Store
<1>6. ASSUME NEW k \in Keys, Sample(k)
      PROVE  TypeOK' /\ PoolConsistent'
    <2>1. pool' \in Seq(Items) /\ keyset' \subseteq Keys /\ PoolConsistent'
        BY <1>6, SampleResult
    <2>2. /\ pc = "sample" /\ pc' \in {"sample", "pop"}
          /\ sampled' = sampled \cup {k}
          /\ outlived' = (outlived \/ now - lastAccess[k] >= Cycle)
          /\ UNCHANGED <<lastAccess, now, evicted, before>>
        BY <1>6 DEF Sample
    <2> QED BY <2>1, <2>2 DEF TypeOK, Store
<1>7. CASE SampleEnd
    BY <1>7 DEF SampleEnd, TypeOK, PoolConsistent, Store
<1>8. CASE Pop
    <2>1. /\ pc = "pop" /\ pc' \in {"sample", "insert"} /\ sampled' = {}
          /\ UNCHANGED <<now, before, outlived>>
        BY <1>8 DEF Pop, GoOn
    <2>2. CASE pool = <<>>
        BY <1>8, <2>1, <2>2 DEF Pop, TypeOK, PoolConsistent, Store
    <2>3. CASE pool # <<>>
        <3>1. Take(pool[1]) /\ pool \in Seq(Items)
            BY <1>8, <2>3 DEF Pop, TypeOK
        <3>2. pool[1] \in Elems(pool)
            BY <2>3, <3>1, HeadIsItem
        <3>3. pool' \in Seq(Items) /\ keyset' \subseteq Keys /\ PoolConsistent'
            BY <3>1, <3>2, TakeResult
        <3>4. lastAccess' = [j \in Store \ {pool[1].key} |-> lastAccess[j]] /\ evicted' \in Nat
            BY <3>1 DEF Take, TypeOK
        <3> QED BY <2>1, <3>3, <3>4 DEF TypeOK, Store
    <2> QED BY <2>2, <2>3
<1>9. ASSUME NEW k \in Keys, Insert(k)
      PROVE  TypeOK' /\ PoolConsistent'
    BY <1>9 DEF Insert, Inserted, TypeOK, PoolConsistent, Store
<1>10. CASE UNCHANGED vars
    BY <1>10 DEF vars, evicting, TypeOK, PoolConsistent, Store
<1> QED
    BY <1>1, <1>2, <1>3, <1>4, <1>5, <1>6, <1>7, <1>8, <1>9, <1>10 DEF Next, Evict

LEMMA TypeInit ==
    ASSUME Init
    PROVE  TypeOK /\ PoolConsistent
<1>1. pool \in Seq(Items) /\ keyset \subseteq Keys /\ sampled \subseteq Keys
    BY DEF Init
<1>2. Store = {} /\ lastAccess \in [Store -> 0..MaxTime]
    BY DEF Init, Store
<1>3. TypeOK
    BY <1>1, <1>2 DEF Init, TypeOK
<1>4. DOMAIN pool = {} /\ Len(pool) = 0
    BY DEF Init
<1>5. PoolConsistent
    BY <1>4, PoolAssumption DEF Init, PoolConsistent
<1> QED BY <1>3, <1>5

(* The variables keep their types (eviction.go:122-146).                   *)
THEOREM TypeCorrect == Spec => []TypeOK
<1>1. TypeOK /\ PoolConsistent /\ [Next]_vars => (TypeOK /\ PoolConsistent)'
    BY TypeStep
<1>2. Init => TypeOK /\ PoolConsistent
    BY TypeInit
<1> QED BY <1>1, <1>2, PTL DEF Spec

(* The pool and its key set never drift apart, and the pool stays within   *)
(* its size (evictionpool.go:90-135).                                      *)
THEOREM PoolAlwaysConsistent == Spec => []PoolConsistent
<1>1. TypeOK /\ PoolConsistent /\ [Next]_vars => (TypeOK /\ PoolConsistent)'
    BY TypeStep
<1>2. Init => TypeOK /\ PoolConsistent
    BY TypeInit
<1> QED BY <1>1, <1>2, PTL DEF Spec
-----------------------------------------------------------------------------
(* How far an eviction has come: what is gone from the store is what it    *)
(* has counted, and it has a candidate left to pop, or nothing to evict.   *)
OnTrack ==
    pc # "idle" =>
        /\ Store \subseteq before /\ Cardinality(before) >= KeysLimit
        /\ evicted + Cardinality(Store) = Cardinality(before)
        /\ sampled \subseteq Store
        /\ pc # "insert" => evicted < evictCount
        /\ pc = "insert" => evicted <= evictCount /\ (Store = {} \/ evicted = evictCount)
        /\ pc = "sample" /\ sampled # {} => pool # <<>>
        /\ pc = "pop" => pool # <<>> \/ Store = {}

LEMMA CountType == evictCount \in Nat \ {0}
    BY LimitAssumption DEF evictCount

(* The store and what it was are finite.                                   *)
LEMMA StoreFinite ==
    ASSUME TypeOK
    PROVE  /\ IsFiniteSet(Store) /\ Cardinality(Store) \in Nat
           /\ IsFiniteSet(before) /\ Cardinality(before) \in Nat
<1>1. Store \subseteq Keys /\ before \subseteq Keys
    BY DEF TypeOK
<1>2. IsFiniteSet(Store) /\ IsFiniteSet(before)
    BY <1>1, KeyAssumption, FS_Subset
<1> QED BY <1>2, FS_CardinalityType

LEMMA OnTrackStep ==
    ASSUME TypeOK, PoolConsistent, OnTrack, [Next]_vars
    PROVE  OnTrack'
<1>1. CASE Tick
    BY <1>1 DEF Tick, OnTrack, Store, evicting
<1>2. ASSUME NEW k \in Keys, Touch(k) \/ Del(k) \/ PutRoom(k)
      PROVE  OnTrack'
    BY <1>2 DEF Touch, Del, PutRoom, OnTrack, evicting
<1>3. CASE PutFull
    <2>1. Store' = Store /\ before' = Store /\ evicted' = 0 /\ sampled' = {} /\ pc' = "sample"
        BY <1>3 DEF PutFull, Store
    <2>2. Cardinality(Store) >= KeysLimit /\ Cardinality(Store) \in Nat
        BY <1>3, StoreFinite DEF PutFull
    <2> QED BY <2>1, <2>2, CountType DEF OnTrack
<1>4. ASSUME NEW k \in Keys, Sample(k)
      PROVE  OnTrack'
    <2>1. pool' # <<>>
        BY <1>4, SampleResult
    <2>2. /\ pc = "sample" /\ pc' \in {"sample", "pop"}
          /\ sampled' = sampled \cup {k} /\ k \in Store
          /\ UNCHANGED <<lastAccess, now, evicted, before>>
        BY <1>4 DEF Sample
    <2> QED BY <2>1, <2>2 DEF OnTrack, Store
<1>5. CASE SampleEnd
    BY <1>5 DEF SampleEnd, OnTrack, Store
<1>6. CASE Pop
    <2>1. /\ pc = "pop" /\ pc' \in {"sample", "insert"} /\ sampled' = {} /\ before' = before
          /\ pc' = IF pool # <<>> /\ evicted' < evictCount THEN "sample" ELSE "insert"
        BY <1>6 DEF Pop, GoOn
    <2>2. /\ Store \subseteq before /\ Cardinality(before) >= KeysLimit
          /\ evicted + Cardinality(Store) = Cardinality(before)
          /\ evicted < evictCount /\ (pool # <<>> \/ Store = {})
        BY <2>1 DEF OnTrack
    <2>3. /\ evicted \in Nat /\ Cardinality(Store) \in Nat /\ Cardinality(before) \in Nat
          /\ IsFiniteSet(Store)
        BY StoreFinite DEF TypeOK
    <2>4. CASE pool = <<>>
        <3>1. Store' = Store /\ evicted' = evicted /\ pc' = "insert" /\ Store = {}
            BY <1>6, <2>1, <2>2, <2>4 DEF Pop, Store
        <3> QED BY <2>1, <2>2, <2>3, <3>1, CountType DEF OnTrack
    <2>5. CASE pool # <<>>
        <3> DEFINE key == pool[1].key
        <3>1. Take(pool[1])
            BY <1>6, <2>5 DEF Pop
        <3>2. /\ Store' = Store \ {key}
              /\ evicted' = evicted + (IF key \in Store THEN 1 ELSE 0)
            BY <3>1 DEF Take, Store
        <3>3. Cardinality(Store \ {key}) =
                  IF key \in Store THEN Cardinality(Store) - 1 ELSE Cardinality(Store)
            BY <2>3, FS_RemoveElement
        <3> HIDE DEF key
        <3>4. evicted' + Cardinality(Store') = Cardinality(before)
            BY <2>2, <2>3, <3>2, <3>3
        <3>5. evicted' <= evictCount /\ evicted' \in Nat
            BY <2>2, <2>3, <3>2, CountType
        <3>6. pc' = "insert" => evicted' = evictCount
            BY <2>1, <2>5, <3>5, CountType
        <3>7. pc' # "insert" => evicted' < evictCount
            BY <2>1
        <3> QED BY <2>1, <2>2, <3>2, <3>4, <3>5, <3>6, <3>7 DEF OnTrack
    <2> QED BY <2>4, <2>5
<1>7. ASSUME NEW k \in Keys, Insert(k)
      PROVE  OnTrack'
    BY <1>7 DEF Insert, OnTrack
<1>8. CASE UNCHANGED vars
    BY <1>8 DEF vars, evicting, OnTrack, Store
<1> QED
    BY <1>1, <1>2, <1>3, <1>4, <1>5, <1>6, <1>7, <1>8 DEF Next, Evict

LEMMA SameSize == ASSUME NEW S PROVE Contract!Cardinality(S) = Cardinality(S)
    BY Zenon DEF Contract!Cardinality, Cardinality

Present == IF pc = "idle" THEN Store ELSE before

(* A step is none, a deletion or a Put for those who do not see evict().   *)
LEMMA StepOfContract ==
    ASSUME TypeOK, PoolConsistent, OnTrack, [Next]_vars
    PROVE  [Contract!Next]_Present
<1>1. CASE Tick
    BY <1>1 DEF Tick, Present, Store, evicting
<1>2. ASSUME NEW k \in Keys, Touch(k)
      PROVE  UNCHANGED Present
    BY <1>2 DEF Touch, Present, Store, evicting, TypeOK
<1>3. ASSUME NEW k \in Keys, Del(k)
      PROVE  Contract!Del(k)
    BY <1>3 DEF Del, Contract!Del, Store, evicting
<1>4. ASSUME NEW k \in Keys, PutRoom(k)
      PROVE  Contract!Put(k)
    <2>1. pc = "idle" /\ pc' = "idle" /\ Store' = Store \cup {k}
        BY <1>4 DEF PutRoom, Inserted, Store, evicting
    <2>2. Cardinality(Store) < KeysLimit
        BY <1>4 DEF PutRoom
    <2> QED BY <2>1, <2>2, SameSize DEF Contract!Put
<1>5. CASE PutFull
    BY <1>5 DEF PutFull, Present
<1>6. CASE (\E k \in Keys : Sample(k)) \/ SampleEnd
    BY <1>6 DEF Sample, SampleEnd, Present, Store
<1>7. CASE Pop
    BY <1>7 DEF Pop, GoOn, Present
<1>8. ASSUME NEW k \in Keys, Insert(k)
      PROVE  Contract!Put(k)
    <2> DEFINE V == before \ Store
    <2>1. pc = "insert" /\ pc' = "idle" /\ Store' = Store \cup {k}
        BY <1>8 DEF Insert, Inserted, Store
    <2>2. /\ Store \subseteq before /\ Cardinality(before) >= KeysLimit
          /\ evicted + Cardinality(Store) = Cardinality(before)
          /\ evicted <= evictCount /\ (Store = {} \/ evicted = evictCount)
        BY <2>1 DEF OnTrack
    <2>3. /\ evicted \in Nat /\ Cardinality(Store) \in Nat /\ Cardinality(before) \in Nat
          /\ IsFiniteSet(Store) /\ IsFiniteSet(before)
        BY StoreFinite DEF TypeOK
    <2>4. Cardinality(V) = evicted
        <3>1. before \cap Store = Store
            BY <2>2
        <3>2. Cardinality(V) = Cardinality(before) - Cardinality(before \cap Store)
            BY <2>3, FS_Difference
        <3>3. Cardinality(V) = Cardinality(before) - Cardinality(Store)
            BY <3>1, <3>2
        <3> HIDE DEF V
        <3> QED BY <2>2, <2>3, <3>3
    <2>5. evicted = IF evictCount < Cardinality(before) THEN evictCount ELSE Cardinality(before)
        <3>1. Store = {} => Cardinality(Store) = 0
            BY FS_EmptySet
        <3> QED BY <2>2, <2>3, <3>1, CountType
    <2>6. V \in Contract!Victims
        <3>1. V \in SUBSET before
            OBVIOUS
        <3> HIDE DEF V
        <3> QED BY <2>1, <2>4, <2>5, <3>1, SameSize DEF Contract!Victims
    <2>7. Store' = (before \ V) \cup {k}
        BY <2>1, <2>2
    <2>8. ~ (Cardinality(before) < KeysLimit)
        BY <2>2, <2>3, LimitAssumption
    <2> HIDE DEF V
    <2> QED BY <2>1, <2>6, <2>7, <2>8, SameSize DEF Contract!Put
<1>9. CASE UNCHANGED vars
    BY <1>9 DEF vars, evicting, Present, Store
<1> QED
    BY <1>1, <1>2, <1>3, <1>4, <1>5, <1>6, <1>7, <1>8, <1>9 DEF Next, Evict, Contract!Next

(* A Put into a full store loses as many keys as the strategy says, or all *)
(* of them, whatever stale candidates the pool holds, and nobody sees it   *)
(* half done (eviction.go:122-146, store.go:76-78).                       *)
THEOREM Implementation == Spec => ImplementsContract
<1>1. Init => TypeOK /\ PoolConsistent /\ OnTrack /\ Contract!Init
    <2> SUFFICES ASSUME Init PROVE TypeOK /\ PoolConsistent /\ OnTrack /\ Contract!Init
        OBVIOUS
    <2>1. OnTrack /\ Contract!Init
        BY DEF Init, OnTrack, Contract!Init, Store
    <2> QED BY <2>1, TypeInit
<1>2. TypeOK /\ PoolConsistent /\ OnTrack /\ [Next]_vars
          => (TypeOK /\ PoolConsistent /\ OnTrack)' /\ [Contract!Next]_Present
    BY TypeStep, OnTrackStep, StepOfContract
<1> QED BY <1>1, <1>2, PTL DEF Spec, ImplementsContract, Contract!Spec, Present
-----------------------------------------------------------------------------
(* Nothing was used in the future, and while no candidate outlives a cycle *)
(* of the clock the pool is a heap: what container/heap left stays one,    *)
(* though the clock that orders it goes on and may wrap around.            *)
InThePast ==
    /\ \A k \in Store : lastAccess[k] <= now
    /\ \A x \in Elems(pool) : x.at <= now
HeapInOrder ==
    ~outlived => IsHeap(pool) /\ \A x \in Elems(pool) : now - x.at < Cycle

(* Items with an instant each, the pool's and those of the store.          *)
LEMMA ItemTimes ==
    ASSUME TypeOK
    PROVE  /\ now \in Nat
           /\ \A x \in Items : x.at \in Nat
           /\ \A k \in Store : lastAccess[k] \in Nat
           /\ Elems(pool) \subseteq Items
<1>1. now \in Nat /\ \A k \in Store : lastAccess[k] \in Nat
    BY ClockAssumption DEF TypeOK
<1>2. \A x \in Items : x.at \in 0..MaxTime
    BY DEF Items
<1>3. \A x \in Items : x.at \in Nat
    BY <1>2, ClockAssumption
<1>4. pool \in Seq(Items)
    BY DEF TypeOK
<1> QED BY <1>1, <1>3, <1>4, ElemsOfSequence

(* A tick keeps a heap of items that are not too old a heap.               *)
LEMMA TickKeepsHeap ==
    ASSUME TypeOK, InThePast, IsHeap(pool), now' = now + 1, pool' = pool,
           \A x \in Elems(pool) : now' - x.at < Cycle
    PROVE  IsHeap(pool)'
<1>1. SUFFICES ASSUME NEW i \in 2..Len(pool)
               PROVE  ~Less(pool[i], pool[i \div 2])'
    <2>1. IsHeap(pool)' <=> \A i \in 2..Len(pool) : ~Less(pool[i], pool[i \div 2])'
        BY DEF IsHeap
    <2> QED BY <2>1
<1>2. DOMAIN pool = 1..Len(pool) /\ Len(pool) \in Nat
    BY DEF TypeOK
<1>3. i \in DOMAIN pool /\ i \div 2 \in DOMAIN pool
    BY <1>2
<1>4. PICK x \in Elems(pool), y \in Elems(pool) : x = pool[i] /\ y = pool[i \div 2]
    BY <1>3 DEF Elems
<1>5. /\ now \in Nat /\ x \in Items /\ y \in Items /\ x.at \in Nat /\ y.at \in Nat
      /\ x.at <= now /\ y.at <= now /\ now' - x.at < Cycle /\ now' - y.at < Cycle
    BY ItemTimes DEF InThePast
<1>6. Less(x, y)' <=> Less(x, y)
    BY <1>5, OrderStays
<1>7. ~Less(x, y)
    BY <1>4 DEF IsHeap
<1>8. Less(pool[i], pool[i \div 2])' <=> Less(x, y)'
    BY <1>4 DEF Less, getIdleTime
<1> QED BY <1>6, <1>7, <1>8

LEMMA OrderStep ==
    ASSUME TypeOK, PoolConsistent, InThePast, HeapInOrder, [Next]_vars
    PROVE  InThePast' /\ HeapInOrder'
<1>0. /\ now \in Nat
      /\ \A x \in Items : x.at \in Nat
      /\ \A k \in Store : lastAccess[k] \in Nat
      /\ Elems(pool) \subseteq Items
    BY ItemTimes
<1>a. ASSUME now' = now, IsHeap(pool')
      PROVE  IsHeap(pool)'
    BY <1>a DEF IsHeap, Less, getIdleTime
<1>1. CASE Tick
    <2>1. /\ now' = now + 1 /\ pool' = pool /\ lastAccess' = lastAccess
          /\ outlived' = (outlived \/ Outlives(pool, now'))
        BY <1>1 DEF Tick
    <2>2. InThePast'
        BY <1>0, <2>1 DEF InThePast, Store, Elems
    <2>3. HeapInOrder'
        <3>1. SUFFICES ASSUME ~outlived'
                       PROVE  IsHeap(pool)' /\ \A x \in Elems(pool)' : now' - x.at < Cycle
            BY DEF HeapInOrder
        <3>2. ~outlived /\ \A i \in DOMAIN pool : ~ (now' - pool[i].at >= Cycle)
            BY <2>1, <3>1 DEF Outlives
        <3>3. \A x \in Elems(pool) : ~ (now' - x.at >= Cycle)
            BY <3>2 DEF Elems
        <3>4. \A x \in Elems(pool) : now' - x.at < Cycle
            BY <1>0, <2>1, <3>3, ClockAssumption
        <3>5. IsHeap(pool)'
            BY <2>1, <3>2, <3>4, TickKeepsHeap DEF HeapInOrder
        <3> QED BY <2>1, <3>4, <3>5 DEF Elems
    <2> QED BY <2>2, <2>3
<1>2. ASSUME pool' = pool, now' = now, outlived' = outlived
      PROVE  HeapInOrder' /\ (\A x \in Elems(pool)' : x.at <= now')
    <2>1. Elems(pool)' = Elems(pool)
        BY <1>2 DEF Elems
    <2>2. IsHeap(pool) => IsHeap(pool)'
        BY <1>a, <1>2
    <2> QED BY <1>2, <2>1, <2>2 DEF HeapInOrder, InThePast
<1>3. ASSUME NEW k \in Keys, Touch(k) \/ Del(k) \/ PutRoom(k) \/ Insert(k)
      PROVE  InThePast' /\ HeapInOrder'
    <2>1. pool' = pool /\ now' = now /\ outlived' = outlived
        BY <1>3 DEF Touch, Del, PutRoom, Insert
    <2>2. \A j \in Store' : lastAccess'[j] <= now'
        BY <1>0, <1>3, <2>1 DEF Touch, Del, PutRoom, Insert, Inserted, InThePast, Store
    <2> QED BY <1>2, <2>1, <2>2 DEF InThePast
<1>4. CASE PutFull \/ SampleEnd \/ UNCHANGED vars
    <2>1. pool' = pool /\ now' = now /\ outlived' = outlived /\ lastAccess' = lastAccess
        BY <1>4 DEF PutFull, SampleEnd, vars
    <2>2. \A j \in Store' : lastAccess'[j] <= now'
        BY <2>1 DEF InThePast, Store
    <2> QED BY <1>2, <2>1, <2>2 DEF InThePast
<1>5. ASSUME NEW k \in Keys, Sample(k)
      PROVE  InThePast' /\ HeapInOrder'
    <2>1. /\ now' = now /\ lastAccess' = lastAccess /\ k \in Store
          /\ outlived' = (outlived \/ now - lastAccess[k] >= Cycle)
        BY <1>5 DEF Sample
    <2>2. /\ Elems(pool') \subseteq Elems(pool) \cup {Offer(k)}
          /\ IsHeap(pool) => IsHeap(pool')
        BY <1>5, SampleResult
    <2>3. Elems(pool)' = Elems(pool')
        BY DEF Elems
    <2>4. Offer(k).at = lastAccess[k]
        BY DEF Offer
    <2>5. InThePast'
        <3>1. \A j \in Store' : lastAccess'[j] <= now'
            BY <2>1 DEF InThePast, Store
        <3>2. \A x \in Elems(pool') : x.at <= now
            BY <2>1, <2>2, <2>4 DEF InThePast
        <3> QED BY <2>1, <2>3, <3>1, <3>2 DEF InThePast
    <2>6. HeapInOrder'
        <3>1. SUFFICES ASSUME ~outlived'
                       PROVE  IsHeap(pool)' /\ \A x \in Elems(pool)' : now' - x.at < Cycle
            BY DEF HeapInOrder
        <3>2. ~outlived /\ now - lastAccess[k] < Cycle
            <4>1. ~outlived /\ ~ (now - lastAccess[k] >= Cycle)
                BY <2>1, <3>1, Zenon
            <4>2. lastAccess[k] \in Nat
                BY <1>0, <2>1
            <4> QED BY <1>0, <4>1, <4>2, ClockAssumption
        <3>3. IsHeap(pool)'
            BY <1>a, <2>1, <2>2, <3>2 DEF HeapInOrder
        <3>4. \A x \in Elems(pool') : now - x.at < Cycle
            BY <2>2, <2>4, <3>2 DEF HeapInOrder
        <3> QED BY <2>1, <2>3, <3>3, <3>4
    <2> QED BY <2>5, <2>6
<1>6. CASE Pop
    <2>1. now' = now /\ outlived' = outlived
        BY <1>6 DEF Pop
    <2>2. CASE pool = <<>>
        <3>1. pool' = pool /\ lastAccess' = lastAccess
            BY <1>6, <2>2 DEF Pop
        <3> QED BY <1>2, <2>1, <3>1 DEF InThePast, Store
    <2>3. CASE pool # <<>>
        <3>1. Take(pool[1]) /\ pool[1] \in Elems(pool)
            BY <1>6, <2>3, HeadIsItem DEF Pop, TypeOK
        <3>2. Elems(pool') = Elems(pool) \ {pool[1]} /\ (IsHeap(pool) => IsHeap(pool'))
            BY <3>1, TakeResult
        <3>3. Elems(pool)' = Elems(pool')
            BY DEF Elems
        <3>4. lastAccess' = [j \in Store \ {pool[1].key} |-> lastAccess[j]]
            BY <3>1 DEF Take
        <3>5. InThePast'
            BY <2>1, <3>2, <3>3, <3>4 DEF InThePast, Store
        <3>6. HeapInOrder'
            BY <1>a, <2>1, <3>2, <3>3 DEF HeapInOrder
        <3> QED BY <3>5, <3>6
    <2> QED BY <2>2, <2>3
<1> QED
    BY <1>1, <1>3, <1>4, <1>5, <1>6 DEF Next, Evict

OrderInv == TypeOK /\ PoolConsistent /\ InThePast /\ HeapInOrder

LEMMA OrderInvariance == Spec => []OrderInv
<1>1. Init => OrderInv
    <2> SUFFICES ASSUME Init PROVE OrderInv
        OBVIOUS
    <2>1. InThePast /\ HeapInOrder
        BY DEF Init, InThePast, HeapInOrder, Store, Elems, IsHeap
    <2> QED BY <2>1, TypeInit DEF OrderInv
<1>2. OrderInv /\ [Next]_vars => OrderInv'
    BY TypeStep, OrderStep DEF OrderInv
<1> QED BY <1>1, <1>2, PTL DEF Spec

(* Of two instants within a cycle, the one with the longer idle time is    *)
(* the earlier, but for a second.                                          *)
LEMMA IdlerIsOlder ==
    ASSUME now \in Nat, NEW s \in Nat, NEW t \in Nat, s <= now, t <= now,
           now - s < Cycle, now - t < Cycle, getIdleTime(s) <= getIdleTime(t)
    PROVE  t <= s + 1
<1>1. /\ getIdleTime(s) \in {now - s, now - s - 1}
      /\ getIdleTime(t) \in {now - t, now - t - 1}
    BY IdleIsAge
<1> QED BY <1>1

(* evict() deletes the oldest of its candidates, or one that is a second   *)
(* younger, as long as they are within a cycle of the clock                *)
(* (evictionpool.go:46-50, 128-135).                                       *)
THEOREM AlwaysPopsTheIdlest == Spec => PopsTheIdlest
<1> DEFINE A == Pop /\ ~outlived => \A i \in DOMAIN pool : pool[1].at <= pool[i].at + 1
<1>1. OrderInv /\ [Next]_vars => [A]_vars
    <2> SUFFICES ASSUME OrderInv, ~outlived, NEW i \in DOMAIN pool
                 PROVE  pool[1].at <= pool[i].at + 1
        OBVIOUS
    <2>1. pool \in Seq(Items) /\ pool # <<>> /\ IsHeap(pool) /\ now \in Nat
        BY ItemTimes DEF OrderInv, TypeOK, HeapInOrder
    <2>2. getIdleTime(pool[i].at) <= getIdleTime(pool[1].at)
        BY <2>1, HeadIsIdlest
    <2>3. pool[1] \in Elems(pool) /\ pool[i] \in Elems(pool)
        BY <2>1, HeadIsItem DEF Elems
    <2>4. \A x \in Elems(pool) : x.at \in Nat /\ x.at <= now /\ now - x.at < Cycle
        BY ItemTimes DEF OrderInv, InThePast, HeapInOrder
    <2> QED BY <2>1, <2>2, <2>3, <2>4, IdlerIsOlder
<1> QED BY <1>1, OrderInvariance, PTL DEF Spec, PopsTheIdlest

(* One offer to the pool: what is left out is no older than what is kept.  *)
LEMMA OfferKeepsTheIdlest ==
    ASSUME OrderInv, NEW k \in Keys, Sample(k), k \notin keyset, ~outlived',
           NEW x \in (Elems(pool) \cup {Offer(k)}) \ Elems(pool'), NEW y \in Elems(pool')
    PROVE  y.at <= x.at + 1
<1>1. /\ TypeOK /\ PoolConsistent /\ now \in Nat /\ pool \in Seq(Items)
      /\ \A i \in Items : i.at \in Nat
      /\ Elems(pool) \subseteq Items
    BY ItemTimes DEF OrderInv, TypeOK
<1>2. k \in Store /\ ~outlived /\ ~ (now - lastAccess[k] >= Cycle)
    BY Zenon DEF Sample
<1>3. Offer(k) \in Items /\ Offer(k).key = k /\ Offer(k).at = lastAccess[k]
    BY <1>1, SampleResult DEF Offer
<1>4. \A i \in Elems(pool) \cup {Offer(k)} :
          i.at \in Nat /\ i.at <= now /\ now - i.at < Cycle /\ getIdleTime(i.at) \in Nat
    <2>1. Offer(k).at \in Nat /\ Offer(k).at <= now /\ now - Offer(k).at < Cycle
        <3>1. Offer(k).at \in Nat /\ Offer(k).at <= now
            BY <1>1, <1>2, <1>3 DEF OrderInv, InThePast
        <3> QED BY <1>1, <1>2, <1>3, <3>1, ClockAssumption
    <2>2. \A i \in Elems(pool) : i.at \in Nat /\ i.at <= now /\ now - i.at < Cycle
        BY <1>1, <1>2 DEF OrderInv, InThePast, HeapInOrder
    <2> QED BY <1>1, <2>1, <2>2, IdleRange
<1>5. IsHeap(pool)
    BY <1>2 DEF OrderInv, HeapInOrder
<1>6. CASE Len(pool) < ePoolSizeMax
    <2>1. Push(Offer(k))
        BY <1>6 DEF Sample, Offer
    <2>2. Elems(pool') = Elems(pool) \cup {Offer(k)}
        BY <1>1, <1>3, <1>6, <2>1, PushResult
    <2> QED BY <2>2
<1>7. CASE ~ (Len(pool) < ePoolSizeMax)
    <2>1. Replace(Offer(k)) /\ Len(pool) >= ePoolSizeMax
        <3>1. Len(pool) \in Nat
            BY <1>1
        <3>2. Replace(Offer(k))
            BY <1>7 DEF Sample, Offer
        <3> QED BY <1>7, <3>1, <3>2, PoolAssumption
    <2> DEFINE m == pool[minIdx]
    <2>2. /\ minIdx \in DOMAIN pool
          /\ \/ ~ (getIdleTime(Offer(k).at) > getIdleTime(m.at)) /\ pool' = pool
             \/ /\ getIdleTime(Offer(k).at) > getIdleTime(m.at)
                /\ Elems(pool') = (Elems(pool) \ {m}) \cup {Offer(k)}
        BY <1>1, <1>3, <2>1, ReplaceResult
    <2>3. m \in Elems(pool)
        BY <2>2 DEF Elems
    <2>4. \A i \in Elems(pool) : getIdleTime(m.at) <= getIdleTime(i.at)
        <3>1. \A i \in DOMAIN pool : getIdleTime(m.at) <= getIdleTime(pool[i].at)
            BY <1>1, <1>5, MinIdxIsLeast
        <3> QED BY <3>1 DEF Elems
    <2> HIDE DEF m
    <2>5. getIdleTime(x.at) <= getIdleTime(y.at) /\ y \in Elems(pool) \cup {Offer(k)}
        <3>1. CASE ~ (getIdleTime(Offer(k).at) > getIdleTime(m.at)) /\ pool' = pool
            <4>1. x = Offer(k) /\ y \in Elems(pool)
                BY <3>1
            <4> QED BY <1>4, <2>3, <2>4, <3>1, <4>1
        <3>2. CASE /\ getIdleTime(Offer(k).at) > getIdleTime(m.at)
                   /\ Elems(pool') = (Elems(pool) \ {m}) \cup {Offer(k)}
            <4>1. x = m /\ (y \in Elems(pool) \/ y = Offer(k))
                BY <3>2
            <4> QED BY <1>4, <2>3, <2>4, <3>2, <4>1
        <3> QED BY <2>2, <3>1, <3>2
    <2> QED BY <1>1, <1>4, <2>5, IdlerIsOlder
<1> QED BY <1>6, <1>7

(* A full pool turns away or drops no candidate that is older than those   *)
(* it keeps, though it compares with the leaves of the heap only           *)
(* (evictionpool.go:104-123).                                              *)
THEOREM PoolAlwaysKeepsTheIdlest == Spec => PoolKeepsTheIdlest
<1> DEFINE A == \A k \in sampled' \ sampled :
                    k \notin keyset /\ ~outlived' =>
                        \A x \in (Elems(pool) \cup {Offer(k)}) \ Elems(pool'), y \in Elems(pool') :
                            y.at <= x.at + 1
<1>1. OrderInv /\ [Next]_vars => [A]_vars
    <2> SUFFICES ASSUME OrderInv, Next, NEW k \in sampled' \ sampled, k \notin keyset, ~outlived',
                        NEW x \in (Elems(pool) \cup {Offer(k)}) \ Elems(pool'), NEW y \in Elems(pool')
                 PROVE  y.at <= x.at + 1
        OBVIOUS
    <2>1. PICK j \in Keys : Sample(j)
        BY DEF Next, Evict, Tick, Touch, Del, PutRoom, PutFull, SampleEnd, Pop, Insert, evicting
    <2>2. k = j
        BY <2>1 DEF Sample
    <2> QED BY <2>1, <2>2, OfferKeepsTheIdlest
<1> QED BY <1>1, OrderInvariance, PTL DEF Spec, PoolKeepsTheIdlest, Offer
=============================================================================
