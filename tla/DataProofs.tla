------------------------------ MODULE DataProofs ------------------------------
(***************************************************************************)
(* What the proofs of the other modules share: induction, sequences and    *)
(* parts of them put together, places in an order, numbers and their       *)
(* decimals, and the values of sets, for any strings, any word size and    *)
(* any size of an intset.  The binary search finds what an intset has, an  *)
(* intset stays sorted, and a promotion neither loses nor adds a member.   *)
(***************************************************************************)
EXTENDS IntSets, FiniteSetTheorems, SequenceTheorems, WellFoundedInduction, TLAPS

(* Induction on the natural numbers, over a set of them.                   *)
LEMMA Reached ==
    ASSUME NEW T, 0 \in T, \A n \in Nat : n \in T => n + 1 \in T
    PROVE  \A n \in Nat : n \in T
<1> SUFFICES ASSUME NEW k \in Nat, k \notin T PROVE FALSE
    OBVIOUS
<1> DEFINE Missed == {n \in Nat : n \notin T}
<1>1. PICK m \in Missed : \A n \in Missed : ~ (<<n, m>> \in OpToRel(<, Nat))
    <2>1. Missed \subseteq Nat /\ Missed # {}
        OBVIOUS
    <2> QED BY <2>1, NatLessThanWellFounded, WFMin, Zenon
<1>2. \A n \in Missed : ~ (n < m)
    BY <1>1 DEF OpToRel
<1>3. m \in Nat /\ m # 0
    OBVIOUS
<1>4. m - 1 \in Nat /\ m - 1 < m /\ m = (m - 1) + 1
    BY <1>3
<1>5. m - 1 \in T
    BY <1>2, <1>4
<1> QED BY <1>4, <1>5

(* A sequence without its end.                                             *)
LEMMA FrontIs ==
    ASSUME NEW S, NEW s \in Seq(S), NEW n \in Nat, n <= Len(s)
    PROVE  /\ SubSeq(s, 1, n) \in Seq(S) /\ Len(SubSeq(s, 1, n)) = n
           /\ \A i \in 1..n : SubSeq(s, 1, n)[i] = s[i] /\ s[i] \in S
<1>1. \A i \in 1..n : s[i] \in S /\ 1 + i - 1 = i
    BY ElementOfSeq, LenProperties
<1>2. /\ SubSeq(s, 1, n) \in Seq(S)
      /\ Len(SubSeq(s, 1, n)) = IF 1 <= n THEN n - 1 + 1 ELSE 0
      /\ \A i \in 1..(n - 1 + 1) : SubSeq(s, 1, n)[i] = s[1 + i - 1]
    BY <1>1, SubSeqProperties
<1>3. n - 1 + 1 = n /\ (1 <= n \/ n = 0)
    OBVIOUS
<1> QED BY <1>1, <1>2, <1>3

(* And without its beginning.                                              *)
LEMMA RestIs ==
    ASSUME NEW S, NEW s \in Seq(S), Len(s) # 0
    PROVE  /\ s # <<>> /\ Head(s) = s[1] /\ s[1] \in S /\ Len(s) \in Nat \ {0}
           /\ Tail(s) \in Seq(S) /\ Len(Tail(s)) = Len(s) - 1
           /\ \A i \in 1..(Len(s) - 1) : Tail(s)[i] = s[i + 1]
<1>1. s # <<>> /\ Len(s) \in Nat \ {0} /\ Head(s) = s[1]
    BY LenProperties
<1>2. s[1] \in S
    BY <1>1, ElementOfSeq
<1> QED BY <1>1, <1>2, HeadTailProperties

(* The ends of two sequences, one behind the other.                        *)
LEMMA HeadOfConcat ==
    ASSUME NEW S, NEW x \in Seq(S), NEW y \in Seq(S), Len(x) # 0
    PROVE  /\ x \o y # <<>> /\ Head(x \o y) = Head(x) /\ Tail(x \o y) = Tail(x) \o y
           /\ Tail(x) \in Seq(S) /\ Len(Tail(x)) = Len(x) - 1 /\ Len(x \o y) = Len(x) + Len(y)
           /\ Len(Tail(x \o y)) = Len(x \o y) - 1
    OBVIOUS

(* The end of a sequence that is put behind another.                       *)
LEMMA LastOfConcat ==
    ASSUME NEW S, NEW x \in Seq(S), NEW y \in Seq(S), Len(x) # 0
    PROVE  /\ y \o x # <<>> /\ Last(y \o x) = Last(x) /\ Front(y \o x) = y \o Front(x)
           /\ Front(x) \in Seq(S) /\ Len(Front(x)) = Len(x) - 1 /\ Len(y \o x) = Len(x) + Len(y)
           /\ Len(Front(y \o x)) = Len(y \o x) - 1
<1> DEFINE z == y \o x
<1>1. Len(x) \in Nat \ {0} /\ Len(y) \in Nat
    BY LenProperties
<1>2. /\ z \in Seq(S) /\ Len(z) = Len(y) + Len(x)
      /\ \A i \in 1..Len(y) : z[i] = y[i]
      /\ \A i \in 1..(Len(y) + Len(x)) : ~(i <= Len(y)) => z[i] = x[i - Len(y)]
    <2>1. z \in Seq(S) /\ Len(z) = Len(y) + Len(x)
        BY ConcatProperties
    <2>2. \A i \in 1..(Len(y) + Len(x)) : z[i] = IF i <= Len(y) THEN y[i] ELSE x[i - Len(y)]
        BY ConcatProperties
    <2>3. ASSUME NEW i \in 1..Len(y) PROVE z[i] = y[i]
        BY <1>1, <2>2
    <2> QED BY <2>1, <2>2, <2>3
<1> HIDE DEF z
<1>3. Len(z) # 0 /\ z # <<>> /\ Last(z) = Last(x)
    <2>1. Len(z) # 0 /\ Len(x) \in 1..Len(x)
        BY <1>1, <1>2
    <2>2. z # <<>>
        BY <2>1
    <2>3. Last(z) = z[Len(y) + Len(x)] /\ Last(x) = x[Len(x)]
        BY <1>2 DEF Last
    <2>4. z[Len(y) + Len(x)] = x[Len(x)]
        <3>1. /\ Len(y) + Len(x) \in 1..(Len(y) + Len(x)) /\ ~(Len(y) + Len(x) <= Len(y))
              /\ (Len(y) + Len(x)) - Len(y) = Len(x)
            BY <1>1
        <3> DEFINE j == Len(y) + Len(x)
        <3>2. z[j] = x[j - Len(y)]
            <4> HIDE DEF j
            <4> QED BY <1>2, <3>1 DEF j
        <3> QED BY <3>1, <3>2
    <2> QED BY <2>1, <2>2, <2>3, <2>4
<1>4. /\ Front(x) \in Seq(S) /\ Len(Front(x)) = Len(x) - 1 /\ Len(x) - 1 \in Nat
      /\ \A i \in 1..(Len(x) - 1) : Front(x)[i] = x[i]
    <2>1. Len(x) - 1 \in Nat /\ Len(x) - 1 <= Len(x)
        BY <1>1
    <2> QED BY <2>1, FrontIs DEF Front
<1>5. /\ Front(z) \in Seq(S) /\ Len(Front(z)) = Len(z) - 1
      /\ \A i \in 1..(Len(z) - 1) : Front(z)[i] = z[i]
    <2>1. Len(z) - 1 \in Nat /\ Len(z) - 1 <= Len(z) /\ z \in Seq(S)
        BY <1>1, <1>2
    <2> QED BY <2>1, FrontIs DEF Front
<1> DEFINE u == y \o Front(x)
<1>6. /\ u \in Seq(S) /\ Len(u) = Len(y) + (Len(x) - 1)
      /\ \A i \in 1..(Len(y) + (Len(x) - 1)) :
            u[i] = IF i <= Len(y) THEN y[i] ELSE Front(x)[i - Len(y)]
    <2> DEFINE f == Front(x)
    <2>1. f \in Seq(S) /\ Len(f) = Len(x) - 1
        BY <1>4
    <2> HIDE DEF f
    <2>2. /\ y \o f \in Seq(S) /\ Len(y \o f) = Len(y) + Len(f)
          /\ \A i \in 1..(Len(y) + Len(f)) : (y \o f)[i] = IF i <= Len(y) THEN y[i] ELSE f[i - Len(y)]
        BY <2>1, ConcatProperties
    <2> QED BY <2>1, <2>2 DEF f
<1> HIDE DEF u
<1>7. ASSUME NEW i \in 1..(Len(z) - 1) PROVE Front(z)[i] = u[i]
    <2>1. i \in 1..(Len(y) + (Len(x) - 1)) /\ Front(z)[i] = z[i]
        BY <1>1, <1>2, <1>5
    <2>2. CASE i <= Len(y)
        <3>1. i \in 1..Len(y)
            BY <2>1, <2>2
        <3> QED BY <1>2, <1>6, <2>1, <2>2, <3>1
    <2>3. CASE ~(i <= Len(y))
        <3> DEFINE k == i - Len(y)
        <3>1. k \in 1..(Len(x) - 1) /\ k \in 1..Len(x) /\ Len(y) + k = i
            BY <1>1, <2>1, <2>3
        <3>2. u[i] = Front(x)[k]
            BY <1>6, <2>1, <2>3
        <3> HIDE DEF k
        <3>3. Front(x)[k] = x[k]
            BY <1>4, <3>1
        <3>4. z[i] = x[k]
            <4>1. i \in 1..(Len(y) + Len(x)) /\ ~(i <= Len(y)) /\ k = i - Len(y)
                BY <1>1, <2>1, <2>3 DEF k
            <4>2. z[i] = x[i - Len(y)]
                BY <1>2, <4>1
            <4> QED BY <4>1, <4>2
        <3> QED BY <2>1, <3>1, <3>2, <3>3, <3>4
    <2> QED BY <2>2, <2>3
<1>8. Front(z) = u
    <2>1. Len(Front(z)) = Len(u) /\ \A i \in 1..Len(Front(z)) : Front(z)[i] = u[i]
        BY <1>1, <1>2, <1>5, <1>6, <1>7
    <2>2. Front(z) \in Seq(S) /\ u \in Seq(S)
        BY <1>5, <1>6
    <2> QED BY ONLY <2>1, <2>2, SeqEqual
<1> QED BY <1>1, <1>2, <1>3, <1>4, <1>5, <1>8 DEF z, u

(* What SequencesExt's FlattenSeq calculates from left to right.           *)
Joins(p, g) == g = [i \in 1..Len(p) |-> IF i = 1 THEN p[i] ELSE g[i - 1] \o p[i]]

(* What Joins says of each place.                                          *)
LEMMA JoinsAt ==
    ASSUME NEW p, NEW g, Joins(p, g)
    PROVE  \A i \in 1..Len(p) : g[i] = IF i = 1 THEN p[i] ELSE g[i - 1] \o p[i]
    BY Zenon DEF Joins

(* Any parts can be joined, by induction on how many there are.            *)
LEMMA JoinsExist ==
    ASSUME NEW S, NEW p \in Seq(Seq(S))
    PROVE  \E g \in [1..Len(p) -> Seq(S)] : Joins(p, g)
<1> DEFINE T == {n \in Nat : \A q \in Seq(Seq(S)) : Len(q) = n =>
                                \E g \in [1..n -> Seq(S)] : Joins(q, g)}
<1>1. 0 \in T
    <2> SUFFICES ASSUME NEW q \in Seq(Seq(S)), Len(q) = 0
                 PROVE  \E g \in [1..0 -> Seq(S)] : Joins(q, g)
        OBVIOUS
    <2> DEFINE g == [i \in 1..0 |-> <<>>]
    <2>1. g \in [1..0 -> Seq(S)] /\ Joins(q, g)
        BY DEF Joins
    <2> QED BY <2>1
<1>2. ASSUME NEW n \in Nat, n \in T PROVE n + 1 \in T
    <2> SUFFICES ASSUME NEW q \in Seq(Seq(S)), Len(q) = n + 1
                 PROVE  \E g \in [1..(n + 1) -> Seq(S)] : Joins(q, g)
        OBVIOUS
    <2> DEFINE r == SubSeq(q, 1, n)
    <2>1. r \in Seq(Seq(S)) /\ Len(r) = n /\ \A i \in 1..n : r[i] = q[i]
        OBVIOUS
    <2>2. PICK g \in [1..n -> Seq(S)] : Joins(r, g)
        BY <1>2, <2>1
    <2> HIDE DEF r
    <2>3. \A i \in 1..n : g[i] = IF i = 1 THEN q[i] ELSE g[i - 1] \o q[i]
        BY <2>1, <2>2 DEF Joins
    <2> DEFINE last == IF n = 0 THEN q[1] ELSE g[n] \o q[n + 1]
               h == [i \in 1..(n + 1) |-> IF i = n + 1 THEN last ELSE g[i]]
    <2>4. last \in Seq(S)
        <3>1. q[n + 1] \in Seq(S) /\ (n = 0 => q[1] \in Seq(S))
            OBVIOUS
        <3> QED BY <3>1
    <2>5. h \in [1..(n + 1) -> Seq(S)]
        BY <2>4
    <2>6. ASSUME NEW i \in 1..(n + 1)
          PROVE  h[i] = IF i = 1 THEN q[i] ELSE h[i - 1] \o q[i]
        <3>1. CASE i = n + 1
            BY <3>1
        <3>2. CASE i # n + 1
            <4>1. i \in 1..n /\ i - 1 # n + 1 /\ (i # 1 => i - 1 \in 1..(n + 1))
                BY <3>2
            <4>2. h[i] = g[i]
                BY <3>2
            <4>3. g[i] = IF i = 1 THEN q[i] ELSE g[i - 1] \o q[i]
                BY <4>1, <2>3
            <4>4. i # 1 => h[i - 1] = g[i - 1]
                BY <4>1
            <4> QED BY <4>2, <4>3, <4>4
        <3> QED BY <3>1, <3>2
    <2>7. Joins(q, h)
        BY <2>5, <2>6 DEF Joins
    <2> QED BY <2>5, <2>7
<1>3. \A n \in Nat : n \in T
    <2> HIDE DEF T
    <2> QED BY <1>1, <1>2, Reached
<1> QED BY <1>3

(* They are determined, as far as the sequences agree.                     *)
LEMMA JoinsAgree ==
    ASSUME NEW p, NEW q, NEW g, NEW h, NEW n \in Nat,
           Len(p) \in Nat, Len(q) \in Nat, n <= Len(p), n <= Len(q),
           \A i \in 1..n : p[i] = q[i], Joins(p, g), Joins(q, h)
    PROVE  \A i \in 1..n : g[i] = h[i]
<1> DEFINE T == {k \in Nat : k \in 1..n => g[k] = h[k]}
<1>1. \A i \in 1..n : g[i] = (IF i = 1 THEN p[i] ELSE g[i - 1] \o p[i])
    BY JoinsAt
<1>2. \A i \in 1..n : h[i] = (IF i = 1 THEN q[i] ELSE h[i - 1] \o q[i])
    BY JoinsAt
<1>3. 0 \in T
    OBVIOUS
<1>4. ASSUME NEW k \in Nat, k \in T PROVE k + 1 \in T
    <2> SUFFICES ASSUME k + 1 \in 1..n PROVE g[k + 1] = h[k + 1]
        OBVIOUS
    <2>1. CASE k = 0
        BY <1>1, <1>2, <2>1
    <2>2. CASE k # 0
        <3>1. k \in 1..n /\ k + 1 # 1 /\ (k + 1) - 1 = k
            BY <2>2
        <3> QED BY <3>1, <1>1, <1>2, <1>4
    <2> QED BY <2>1, <2>2
<1>5. \A k \in Nat : k \in T
    <2> HIDE DEF T
    <2> QED BY <1>3, <1>4, Reached
<1> QED BY <1>5

(* FlattenSeq is the last of its joins.                                    *)
LEMMA FlattenIs ==
    ASSUME NEW S, NEW p \in Seq(Seq(S))
    PROVE  \E g \in [1..Len(p) -> Seq(S)] :
              Joins(p, g) /\ FlattenSeq(p) = IF Len(p) = 0 THEN <<>> ELSE g[Len(p)]
<1> DEFINE f == CHOOSE g : Joins(p, g)
<1>1. Joins(p, f)
    BY JoinsExist, Zenon
<1>2. PICK h \in [1..Len(p) -> Seq(S)] : Joins(p, h)
    BY JoinsExist
<1>3. FlattenSeq(p) = IF Len(p) = 0 THEN p ELSE f[Len(p)]
    BY DEF FlattenSeq, Joins
<1> HIDE DEF f
<1>4. \A i \in 1..Len(p) : f[i] = h[i]
    <2>1. Len(p) \in Nat /\ Len(p) <= Len(p)
        OBVIOUS
    <2> QED BY <1>1, <1>2, <2>1, JoinsAgree
<1>5. Len(p) = 0 => p = <<>>
    OBVIOUS
<1>6. Len(p) # 0 => Len(p) \in 1..Len(p)
    OBVIOUS
<1> QED BY <1>2, <1>3, <1>4, <1>5, <1>6

(* Parts of a type, together, are a sequence of that type.                 *)
LEMMA FlattenType ==
    ASSUME NEW S, NEW p \in Seq(Seq(S))
    PROVE  FlattenSeq(p) \in Seq(S) /\ (Len(p) = 0 => FlattenSeq(p) = <<>>)
<1>1. PICK g \in [1..Len(p) -> Seq(S)] : FlattenSeq(p) = IF Len(p) = 0 THEN <<>> ELSE g[Len(p)]
    BY FlattenIs
<1> QED BY SMTT(30), <1>1

(* The last part is put behind all the others.                             *)
LEMMA FlattenLast ==
    ASSUME NEW S, NEW p \in Seq(Seq(S)), Len(p) # 0
    PROVE  FlattenSeq(p) = FlattenSeq(SubSeq(p, 1, Len(p) - 1)) \o p[Len(p)]
<1> DEFINE n == Len(p) - 1
           r == SubSeq(p, 1, n)
<1>1. n \in Nat /\ Len(p) = n + 1 /\ n <= Len(p) /\ Len(p) \in Nat
    BY LenProperties
<1>2. r \in Seq(Seq(S)) /\ Len(r) = n /\ \A i \in 1..n : r[i] = p[i]
    <2> HIDE DEF n
    <2> QED BY <1>1, FrontIs
<1>3. p[n + 1] \in Seq(S)
    BY <1>1, ElementOfSeq
<1>4. SubSeq(p, 1, Len(p) - 1) = r
    OBVIOUS
<1> HIDE DEF n, r
<1>5. PICK g \in [1..Len(p) -> Seq(S)] : Joins(p, g) /\ FlattenSeq(p) = g[Len(p)]
    BY <1>1, FlattenIs
<1>6. PICK h \in [1..Len(r) -> Seq(S)] : Joins(r, h) /\ FlattenSeq(r) = IF n = 0 THEN <<>> ELSE h[n]
    BY <1>2, FlattenIs
<1>7. \A i \in 1..n : g[i] = h[i]
    <2>1. /\ n \in Nat /\ n <= Len(p) /\ Len(p) \in Nat /\ n <= Len(r) /\ Len(r) \in Nat
          /\ \A i \in 1..n : p[i] = r[i]
        BY <1>1, <1>2
    <2>2. Joins(p, g) /\ Joins(r, h)
        BY <1>5, <1>6
    <2> QED BY ONLY <2>1, <2>2, JoinsAgree
<1>8. g[n + 1] = IF n + 1 = 1 THEN p[n + 1] ELSE g[(n + 1) - 1] \o p[n + 1]
    <2>1. n + 1 \in 1..Len(p)
        BY <1>1
    <2> QED BY <1>5, <2>1, JoinsAt
<1>9. FlattenSeq(p) = FlattenSeq(r) \o p[n + 1]
    <2>1. CASE n = 0
        <3>1. <<>> \o p[n + 1] = p[n + 1]
            BY <1>3, ConcatEmptySeq
        <3> QED BY <1>1, <1>5, <1>6, <1>8, <2>1, <3>1
    <2>2. CASE n # 0
        <3>1. n \in 1..n /\ (n + 1) - 1 = n /\ n + 1 # 1
            BY <1>1, <2>2
        <3> QED BY <1>1, <1>5, <1>6, <1>7, <1>8, <2>2, <3>1
    <2> QED BY <2>1, <2>2
<1> QED BY <1>1, <1>4, <1>9

(* And the first one ahead of them.                                        *)
LEMMA FlattenFirst ==
    ASSUME NEW S, NEW p \in Seq(Seq(S)), Len(p) # 0
    PROVE  FlattenSeq(p) = p[1] \o FlattenSeq(Tail(p))
<1> DEFINE First(q) == q[1] \o FlattenSeq(Tail(q))
           T == {n \in Nat : \A q \in Seq(Seq(S)) : Len(q) = n + 1 => FlattenSeq(q) = First(q)}
<1>1. 0 \in T
    <2> SUFFICES ASSUME NEW q \in Seq(Seq(S)), Len(q) = 1
                 PROVE  FlattenSeq(q) = First(q)
        OBVIOUS
    <2>0. Len(q) # 0 /\ Len(q) - 1 = 0 /\ 0 <= Len(q)
        OBVIOUS
    <2>1. q[1] \in Seq(S) /\ Tail(q) \in Seq(Seq(S)) /\ Len(Tail(q)) = 0
        BY <2>0, RestIs
    <2>2. /\ SubSeq(q, 1, Len(q) - 1) \in Seq(Seq(S))
          /\ Len(SubSeq(q, 1, Len(q) - 1)) = 0
        BY <2>0, FrontIs
    <2>3. FlattenSeq(q) = <<>> \o q[1]
        <3>1. FlattenSeq(q) = FlattenSeq(SubSeq(q, 1, Len(q) - 1)) \o q[Len(q)]
            BY <2>0, FlattenLast, Zenon
        <3>2. FlattenSeq(SubSeq(q, 1, Len(q) - 1)) = <<>>
            BY <2>2, FlattenType, Zenon
        <3> QED BY <3>1, <3>2
    <2>4. First(q) = q[1] \o <<>>
        BY <2>1, FlattenType
    <2> QED BY <2>1, <2>3, <2>4, ConcatEmptySeq
<1>2. ASSUME NEW n \in Nat, n \in T PROVE n + 1 \in T
    <2> SUFFICES ASSUME NEW q \in Seq(Seq(S)), Len(q) = (n + 1) + 1
                 PROVE  FlattenSeq(q) = First(q)
        OBVIOUS
    <2> DEFINE r == SubSeq(q, 1, n + 1)
               t == Tail(q)
               x == q[n + 2]
    <2>1. Len(q) = n + 2 /\ Len(q) # 0 /\ n + 1 <= Len(q) /\ Len(q) - 1 = n + 1 /\ n + 1 \in Nat
        OBVIOUS
    <2>2. r \in Seq(Seq(S)) /\ Len(r) = n + 1 /\ \A i \in 1..(n + 1) : r[i] = q[i]
        BY <2>1, FrontIs
    <2>3. t \in Seq(Seq(S)) /\ Len(t) = n + 1 /\ \A i \in 1..(n + 1) : t[i] = q[i + 1]
        BY <2>1, RestIs
    <2>4. x \in Seq(S) /\ q[1] \in Seq(S)
        BY <2>1, ElementOfSeq
    <2>5. FlattenSeq(q) = FlattenSeq(r) \o x
        BY <2>1, FlattenLast
    <2> HIDE DEF r, t, x
    <2>6. r[1] = q[1] /\ t[n + 1] = x
        BY <2>2, <2>3 DEF x
    <2>7. Tail(r) \in Seq(Seq(S)) /\ Len(Tail(r)) = n /\ \A i \in 1..n : Tail(r)[i] = r[i + 1]
        BY <2>2, RestIs
    <2>8. Tail(r) = SubSeq(t, 1, n)
        <3>1. SubSeq(t, 1, n) \in Seq(Seq(S)) /\ Len(SubSeq(t, 1, n)) = n
              /\ \A i \in 1..n : SubSeq(t, 1, n)[i] = t[i]
            BY <2>3, FrontIs
        <3>2. \A i \in 1..n : Tail(r)[i] = SubSeq(t, 1, n)[i]
            BY <2>2, <2>3, <2>7, <3>1
        <3> QED BY <2>7, <3>1, <3>2, SeqEqual
    <2>9. FlattenSeq(t) = FlattenSeq(Tail(r)) \o x
        <3>1. Len(t) # 0 /\ Len(t) - 1 = n
            BY <2>3
        <3> QED BY <2>3, <2>6, <2>8, <3>1, FlattenLast
    <2>10. FlattenSeq(r) = q[1] \o FlattenSeq(Tail(r))
        BY <1>2, <2>2, <2>6
    <2>11. FlattenSeq(Tail(r)) \in Seq(S)
        BY <2>7, FlattenType
    <2>12. (q[1] \o FlattenSeq(Tail(r))) \o x = q[1] \o (FlattenSeq(Tail(r)) \o x)
        <3>1. ASSUME NEW a \in Seq(S), NEW b \in Seq(S), NEW c \in Seq(S)
              PROVE  (a \o b) \o c = a \o (b \o c)
            BY SMTT(30)
        <3> QED BY <2>4, <2>11, <3>1
    <2> QED BY <2>5, <2>9, <2>10, <2>12 DEF t
<1>3. \A n \in Nat : n \in T
    <2> HIDE DEF T
    <2> QED BY <1>1, <1>2, Reached
<1>4. Len(p) - 1 \in Nat /\ Len(p) = (Len(p) - 1) + 1
    BY LenProperties
<1>5. Len(p) - 1 \in T
    <2> HIDE DEF T
    <2> QED BY <1>3, <1>4
<1> QED BY <1>4, <1>5

(* The elements of the first k parts.                                      *)
Upto(p, k) == FlattenSeq(SubSeq(p, 1, k))

(* Each part adds its elements to those of the parts ahead of it.          *)
LEMMA UptoIs ==
    ASSUME NEW S, NEW p \in Seq(Seq(S))
    PROVE  /\ Upto(p, 0) = <<>> /\ Upto(p, Len(p)) = FlattenSeq(p)
           /\ \A k \in 0..Len(p) : Upto(p, k) \in Seq(S)
           /\ \A k \in 1..Len(p) : p[k] \in Seq(S) /\ Upto(p, k) = Upto(p, k - 1) \o p[k]
<1>1. ASSUME NEW k \in 0..Len(p)
      PROVE  /\ SubSeq(p, 1, k) \in Seq(Seq(S)) /\ Len(SubSeq(p, 1, k)) = k
             /\ \A i \in 1..k : SubSeq(p, 1, k)[i] = p[i]
    <2>1. k \in Nat /\ k <= Len(p)
        BY LenProperties
    <2> QED BY <2>1, FrontIs
<1>2. ASSUME NEW k \in 0..Len(p)
      PROVE  Upto(p, k) \in Seq(S) /\ (k = 0 => Upto(p, k) = <<>>)
    BY <1>1, FlattenType DEF Upto
<1>3. 0 \in 0..Len(p) /\ Len(p) \in 0..Len(p) /\ Len(p) \in Nat
    <2>1. Len(p) \in Nat
        BY LenProperties
    <2> QED BY <2>1
<1>4. SubSeq(p, 1, Len(p)) = p
    <2> DEFINE r == SubSeq(p, 1, Len(p))
    <2>1. r \in Seq(Seq(S)) /\ Len(r) = Len(p) /\ \A i \in 1..Len(p) : r[i] = p[i]
        BY <1>1, <1>3
    <2> HIDE DEF r
    <2>2. \A i \in 1..Len(r) : r[i] = p[i]
        BY <2>1
    <2>3. r = p
        BY ONLY <2>1, <2>2, p \in Seq(Seq(S)), SeqEqual
    <2> QED BY <2>3 DEF r
<1>5. ASSUME NEW k \in 1..Len(p) PROVE p[k] \in Seq(S) /\ Upto(p, k) = Upto(p, k - 1) \o p[k]
    <2>1. k \in 0..Len(p) /\ k - 1 \in 0..Len(p) /\ k # 0 /\ k \in 1..k /\ k - 1 \in Nat /\ k - 1 <= k
        BY <1>3
    <2>2. p[k] \in Seq(S)
        BY ElementOfSeq
    <2> DEFINE r == SubSeq(p, 1, k)
               u == SubSeq(p, 1, k - 1)
    <2>3. r \in Seq(Seq(S)) /\ Len(r) = k /\ \A i \in 1..k : r[i] = p[i]
        BY <1>1, <2>1
    <2>4. u \in Seq(Seq(S)) /\ Len(u) = k - 1 /\ \A i \in 1..(k - 1) : u[i] = p[i]
        BY <1>1, <2>1
    <2> HIDE DEF r, u
    <2> DEFINE w == SubSeq(r, 1, k - 1)
    <2>5. w \in Seq(Seq(S)) /\ Len(w) = k - 1 /\ \A i \in 1..(k - 1) : w[i] = r[i]
        BY <2>1, <2>3, FrontIs
    <2> HIDE DEF w
    <2>6. w = u
        <3>1. ASSUME NEW i \in 1..(k - 1) PROVE w[i] = u[i]
            <4>1. i \in 1..k
                BY <2>1
            <4>2. w[i] = p[i]
                BY <2>3, <2>5, <4>1
            <4> QED BY <2>4, <4>2
        <3>2. Len(w) = Len(u) /\ \A i \in 1..Len(w) : w[i] = u[i]
            BY <2>4, <2>5, <3>1
        <3> QED BY ONLY <2>4, <2>5, <3>2, SeqEqual
    <2>7. FlattenSeq(r) = FlattenSeq(w) \o r[k]
        BY <2>1, <2>3, FlattenLast DEF w
    <2>8. r[k] = p[k]
        BY <2>1, <2>3
    <2> QED BY <2>2, <2>6, <2>7, <2>8 DEF Upto, r, u
<1> QED BY <1>2, <1>3, <1>4, <1>5 DEF Upto

(* The elements of the first parts are the first of all.                   *)
LEMMA UptoFirst ==
    ASSUME NEW S, NEW p \in Seq(Seq(S)), NEW j \in 0..Len(p)
    PROVE  /\ Len(Upto(p, j)) <= Len(FlattenSeq(p))
           /\ \A i \in 1..Len(Upto(p, j)) : FlattenSeq(p)[i] = Upto(p, j)[i]
<1> DEFINE n == Len(p)
           U == Upto(p, j)
           T == {k \in Nat : j + k <= n => /\ Len(U) <= Len(Upto(p, j + k))
                                           /\ \A i \in 1..Len(U) : Upto(p, j + k)[i] = U[i]}
<1>1. /\ n \in Nat /\ j \in Nat /\ j <= n /\ Upto(p, n) = FlattenSeq(p)
      /\ \A k \in 0..n : Upto(p, k) \in Seq(S)
      /\ \A k \in 1..n : p[k] \in Seq(S) /\ Upto(p, k) = Upto(p, k - 1) \o p[k]
    <2>1. n \in Nat
        BY LenProperties
    <2>2. /\ Upto(p, n) = FlattenSeq(p)
          /\ \A k \in 0..n : Upto(p, k) \in Seq(S)
          /\ \A k \in 1..n : p[k] \in Seq(S) /\ Upto(p, k) = Upto(p, k - 1) \o p[k]
        BY UptoIs
    <2>3. j \in Nat /\ j <= n
        BY <2>1
    <2> HIDE DEF n
    <2> QED BY <2>1, <2>2, <2>3
<1>2. U \in Seq(S) /\ Len(U) \in Nat
    BY <1>1, LenProperties
<1> HIDE DEF n
<1>3. 0 \in T
    <2>1. j + 0 = j
        BY <1>1
    <2> QED BY <1>2, <2>1
<1> HIDE DEF U
<1>4. ASSUME NEW k \in Nat, k \in T PROVE k + 1 \in T
    <2> DEFINE m == j + k
    <2>1. j + (k + 1) = m + 1 /\ m \in Nat
        BY <1>1
    <2> SUFFICES ASSUME m + 1 <= n
                 PROVE  /\ Len(U) <= Len(Upto(p, m + 1))
                        /\ \A i \in 1..Len(U) : Upto(p, m + 1)[i] = U[i]
        BY <2>1
    <2>2. m + 1 \in 1..n /\ m \in 0..n /\ (m + 1) - 1 = m /\ m <= n
        BY <1>1, <2>1
    <2>3. Len(U) <= Len(Upto(p, m)) /\ \A i \in 1..Len(U) : Upto(p, m)[i] = U[i]
        BY <1>4, <2>2
    <2> HIDE DEF m, T
    <2> DEFINE a == Upto(p, m)
               b == p[m + 1]
    <2>4. a \in Seq(S) /\ b \in Seq(S) /\ Upto(p, m + 1) = a \o b
        BY <1>1, <2>2
    <2> HIDE DEF a, b
    <2>5. /\ Len(a) \in Nat /\ Len(b) \in Nat /\ Len(a \o b) = Len(a) + Len(b)
          /\ \A i \in 1..(Len(a) + Len(b)) : (a \o b)[i] = IF i <= Len(a) THEN a[i] ELSE b[i - Len(a)]
        BY <2>4, LenProperties, ConcatProperties
    <2>6. ASSUME NEW i \in 1..Len(U) PROVE (a \o b)[i] = U[i]
        <3>1. i \in 1..(Len(a) + Len(b)) /\ i <= Len(a)
            BY <1>2, <2>3, <2>5 DEF a
        <3>2. a[i] = U[i]
            BY <2>3 DEF a
        <3> QED BY <2>5, <3>1, <3>2
    <2>7. Len(U) <= Len(a \o b)
        BY <1>2, <2>3, <2>5 DEF a
    <2> QED BY <2>4, <2>6, <2>7
<1>5. \A k \in Nat : k \in T
    <2> HIDE DEF T
    <2> QED BY <1>3, <1>4, Reached
<1>6. n - j \in Nat /\ j + (n - j) = n
    BY <1>1
<1>7. Len(U) <= Len(Upto(p, n)) /\ \A i \in 1..Len(U) : Upto(p, n)[i] = U[i]
    <2> DEFINE k == n - j
    <2>1. k \in T /\ j + k = n
        BY <1>5, <1>6
    <2> HIDE DEF k
    <2>2. j + k <= n
        BY <1>1, <2>1
    <2> QED BY <2>1, <2>2
<1> QED BY <1>1, <1>7 DEF U, n

(* Every place in the list is one in a part.                               *)
LEMMA PartFound ==
    ASSUME NEW S, NEW p \in Seq(Seq(S)), NEW i \in Nat, i < Len(FlattenSeq(p))
    PROVE  \E j \in 1..Len(p) : Len(Upto(p, j - 1)) <= i /\ i < Len(Upto(p, j))
<1> DEFINE n == Len(p)
           T == {k \in Nat : k <= n /\ i < Len(Upto(p, k)) =>
                    \E j \in 1..k : Len(Upto(p, j - 1)) <= i /\ i < Len(Upto(p, j))}
<1>1. /\ n \in Nat /\ Upto(p, n) = FlattenSeq(p) /\ Upto(p, 0) = <<>>
      /\ \A k \in 0..n : Upto(p, k) \in Seq(S)
    BY LenProperties, UptoIs
<1> HIDE DEF n
<1>2. 0 \in T
    <2>1. Len(Upto(p, 0)) = 0
        BY <1>1
    <2> QED BY <2>1
<1>3. ASSUME NEW k \in Nat, k \in T PROVE k + 1 \in T
    <2> SUFFICES ASSUME k + 1 <= n, i < Len(Upto(p, k + 1))
                 PROVE  \E j \in 1..(k + 1) : Len(Upto(p, j - 1)) <= i /\ i < Len(Upto(p, j))
        OBVIOUS
    <2>1. k \in 0..n /\ k <= n /\ k + 1 \in 1..(k + 1) /\ (k + 1) - 1 = k
        BY <1>1
    <2>2. Len(Upto(p, k)) \in Nat
        BY <1>1, <2>1, LenProperties
    <2>3. CASE i < Len(Upto(p, k))
        <3>1. PICK j \in 1..k : Len(Upto(p, j - 1)) <= i /\ i < Len(Upto(p, j))
            BY <1>3, <2>1, <2>3
        <3>2. j \in 1..(k + 1)
            OBVIOUS
        <3> QED BY <3>1, <3>2
    <2>4. CASE ~(i < Len(Upto(p, k)))
        <3>1. Len(Upto(p, k)) <= i
            BY <2>2, <2>4
        <3> QED BY <2>1, <3>1
    <2> QED BY <2>3, <2>4
<1>4. \A k \in Nat : k \in T
    <2> HIDE DEF T
    <2> QED BY <1>2, <1>3, Reached
<1> QED BY <1>1, <1>4 DEF n

(* The element at a place is the one of the part it is in.                 *)
LEMMA PartHas ==
    ASSUME NEW S, NEW p \in Seq(Seq(S)), NEW i \in Nat, NEW j \in 1..Len(p),
           Len(Upto(p, j - 1)) <= i, i < Len(Upto(p, j))
    PROVE  p[j][i - Len(Upto(p, j - 1)) + 1] = FlattenSeq(p)[i + 1]
<1> DEFINE a == Upto(p, j - 1)
           b == p[j]
           m == Len(a)
<1>1. j \in 0..Len(p) /\ j - 1 \in 0..Len(p)
    <2>1. Len(p) \in Nat
        BY LenProperties
    <2> QED BY <2>1
<1>2. a \in Seq(S) /\ b \in Seq(S) /\ Upto(p, j) = a \o b
    BY <1>1, UptoIs
<1>3. \A k \in 1..Len(Upto(p, j)) : FlattenSeq(p)[k] = Upto(p, j)[k]
    BY <1>1, UptoFirst
<1> HIDE DEF a, b
<1>4. /\ m \in Nat /\ Len(b) \in Nat /\ Len(a \o b) = m + Len(b)
      /\ \A k \in 1..(m + Len(b)) : (a \o b)[k] = IF k <= m THEN a[k] ELSE b[k - m]
    BY <1>2, LenProperties, ConcatProperties
<1>5. m <= i /\ i < m + Len(b)
    BY <1>2, <1>4 DEF a
<1> HIDE DEF m
<1>6. i + 1 \in 1..(m + Len(b)) /\ ~(i + 1 <= m) /\ (i + 1) - m = i - m + 1
    BY <1>4, <1>5
<1>7. (a \o b)[i + 1] = b[i - m + 1]
    BY <1>4, <1>6
<1>8. FlattenSeq(p)[i + 1] = (a \o b)[i + 1]
    BY <1>2, <1>3, <1>4, <1>6
<1> QED BY <1>7, <1>8 DEF a, b, m

(* What SequencesExt's InsertAt and RemoveAt leave.                        *)
LEMMA OneInserted ==
    ASSUME NEW S, NEW s \in Seq(S), NEW i \in 1..(Len(s) + 1), NEW x \in S
    PROVE  /\ InsertAt(s, i, x) \in Seq(S) /\ Len(InsertAt(s, i, x)) = Len(s) + 1
           /\ \A j \in 1..(Len(s) + 1) :
                InsertAt(s, i, x)[j] = IF j < i THEN s[j] ELSE IF j = i THEN x ELSE s[j - 1]
<1> DEFINE a == SubSeq(s, 1, i - 1)
           b == SubSeq(s, i, Len(s))
           c == a \o <<x>>
<1>1. i \in Nat /\ Len(s) \in Nat /\ 1 <= i /\ i <= Len(s) + 1
    OBVIOUS
<1>2. a \in Seq(S) /\ Len(a) = i - 1 /\ \A j \in 1..(i - 1) : a[j] = s[j]
    BY <1>1
<1>3. b \in Seq(S) /\ Len(b) = Len(s) - i + 1 /\ \A j \in 1..(Len(s) - i + 1) : b[j] = s[i + j - 1]
    <2>1. \A j \in i..Len(s) : s[j] \in S
        BY <1>1
    <2>2. /\ b \in Seq(S) /\ Len(b) = IF i <= Len(s) THEN Len(s) - i + 1 ELSE 0
          /\ \A j \in 1..(Len(s) - i + 1) : b[j] = s[i + j - 1]
        BY <1>1, <2>1, SubSeqProperties
    <2> QED BY <1>1, <2>2
<1>4. InsertAt(s, i, x) = c \o b
    BY DEF InsertAt
<1> HIDE DEF a, b
<1>5. c \in Seq(S) /\ Len(c) = i /\ \A j \in 1..i : c[j] = IF j < i THEN s[j] ELSE x
    <2>1. <<x>> \in Seq(S) /\ Len(<<x>>) = 1 /\ <<x>>[1] = x
        OBVIOUS
    <2>2. /\ c \in Seq(S) /\ Len(c) = Len(a) + 1
          /\ \A j \in 1..(Len(a) + 1) : c[j] = IF j <= Len(a) THEN a[j] ELSE <<x>>[j - Len(a)]
        BY <1>2, <2>1, ConcatProperties
    <2>3. Len(c) = i
        BY <1>1, <1>2, <2>2
    <2>4. ASSUME NEW j \in 1..i PROVE c[j] = IF j < i THEN s[j] ELSE x
        <3>1. CASE j < i
            BY <1>1, <1>2, <2>2, <3>1
        <3>2. CASE ~(j < i)
            <4>1. j = i /\ j - Len(a) = 1
                BY <1>1, <1>2, <3>2
            <4> QED BY <1>1, <1>2, <2>1, <2>2, <4>1
        <3> QED BY <3>1, <3>2
    <2> QED BY <2>2, <2>3, <2>4
<1> HIDE DEF c
<1>6. /\ c \o b \in Seq(S) /\ Len(c \o b) = Len(c) + Len(b)
      /\ \A j \in 1..(Len(c) + Len(b)) : (c \o b)[j] = IF j <= Len(c) THEN c[j] ELSE b[j - Len(c)]
    BY <1>3, <1>5, ConcatProperties
<1>7. Len(c) + Len(b) = Len(s) + 1
    BY <1>1, <1>3, <1>5
<1>8. ASSUME NEW j \in 1..(Len(s) + 1)
      PROVE  (c \o b)[j] = IF j < i THEN s[j] ELSE IF j = i THEN x ELSE s[j - 1]
    <2>1. CASE j <= i
        BY <1>1, <1>5, <1>6, <1>7, <2>1
    <2>2. CASE ~(j <= i)
        <3>1. j - i \in 1..(Len(s) - i + 1) /\ i + (j - i) - 1 = j - 1
            BY <1>1, <2>2
        <3>2. (c \o b)[j] = b[j - i]
            BY <1>1, <1>5, <1>6, <1>7, <2>2
        <3> QED BY <1>1, <1>3, <2>2, <3>1, <3>2
    <2> QED BY <2>1, <2>2
<1> QED BY <1>4, <1>6, <1>7, <1>8

(* And RemoveAt.                                                           *)
LEMMA OneRemoved ==
    ASSUME NEW S, NEW s \in Seq(S), NEW i \in 1..Len(s)
    PROVE  /\ RemoveAt(s, i) \in Seq(S) /\ Len(RemoveAt(s, i)) = Len(s) - 1
           /\ \A j \in 1..(Len(s) - 1) : RemoveAt(s, i)[j] = IF j < i THEN s[j] ELSE s[j + 1]
<1> DEFINE a == SubSeq(s, 1, i - 1)
           b == SubSeq(s, i + 1, Len(s))
<1>1. i \in Nat /\ Len(s) \in Nat /\ 1 <= i /\ i <= Len(s)
    OBVIOUS
<1>2. a \in Seq(S) /\ Len(a) = i - 1 /\ \A j \in 1..(i - 1) : a[j] = s[j]
    BY <1>1
<1>3. b \in Seq(S) /\ Len(b) = Len(s) - i /\ \A j \in 1..(Len(s) - i) : b[j] = s[i + j]
    BY <1>1
<1>4. RemoveAt(s, i) = a \o b
    BY DEF RemoveAt
<1> HIDE DEF a, b
<1>5. /\ a \o b \in Seq(S) /\ Len(a \o b) = Len(a) + Len(b)
      /\ \A j \in 1..(Len(a) + Len(b)) : (a \o b)[j] = IF j <= Len(a) THEN a[j] ELSE b[j - Len(a)]
    BY <1>2, <1>3, ConcatProperties
<1>6. Len(a) + Len(b) = Len(s) - 1
    BY <1>1, <1>2, <1>3
<1>7. ASSUME NEW j \in 1..(Len(s) - 1)
      PROVE  (a \o b)[j] = IF j < i THEN s[j] ELSE s[j + 1]
    <2>1. CASE j < i
        BY <1>1, <1>2, <1>5, <1>6, <2>1
    <2>2. CASE ~(j < i)
        <3>1. j - (i - 1) \in 1..(Len(s) - i) /\ i + (j - (i - 1)) = j + 1
            BY <1>1, <2>2
        <3>2. (a \o b)[j] = b[j - (i - 1)]
            BY <1>1, <1>2, <1>5, <1>6, <2>2
        <3> QED BY <1>3, <2>2, <3>1, <3>2
    <2> QED BY <2>1, <2>2
<1> QED BY <1>4, <1>5, <1>6, <1>7

(* Every set of natural numbers that is not empty has a least one.         *)
LEMMA LeastPlace ==
    ASSUME NEW T \in SUBSET Nat, T # {}
    PROVE  \E m \in T : \A n \in T : m <= n
<1>1. PICK m \in T : \A n \in T : ~ (<<n, m>> \in OpToRel(<, Nat))
    BY NatLessThanWellFounded, WFMin, Zenon
<1>2. \A n \in T : ~ (n < m)
    BY <1>1 DEF OpToRel
<1> QED BY <1>2

-----------------------------------------------------------------------------
(* Sums stay within int64, and every number has a decimal.                 *)
LEMMA WrapIs ==
    ASSUME NEW n \in Int
    PROVE  Wrap(n) \in Numbers /\ Decimal[Wrap(n)] \in Strings
<1>1. Half \in Nat \ {0} /\ 2 * Half \in Nat /\ 2 * Half > 0
    BY WordAssumption
<1>2. (n + Half) % (2 * Half) \in 0..(2 * Half - 1)
    <2> DEFINE w == 2 * Half
    <2>1. w \in Nat /\ w > 0 /\ n + Half \in Int
        BY <1>1
    <2> HIDE DEF w
    <2>2. (n + Half) % w \in 0..(w - 1)
        BY <2>1
    <2> QED BY <2>2 DEF w
<1>3. Wrap(n) \in Numbers
    BY <1>1, <1>2 DEF Wrap, Numbers
<1> QED BY <1>3, NumeralAssumption

(* The string a set looks for when it is asked for m.                      *)
Spelled(s, m) == IF s.enc = "intset" /\ IsInt(m) THEN Decimal[Parse[m]] ELSE m
-----------------------------------------------------------------------------
(* A number's decimal is a string, which spells that number and no other.  *)
LEMMA Decimals ==
    /\ Numbers \subseteq Int
    /\ \A n \in Numbers : Decimal[n] \in Strings /\ Parse[Decimal[n]] = n /\ IsInt(Decimal[n])
    /\ \A m \in Strings : IsInt(m) => Parse[m] \in Numbers
<1>1. Numbers \subseteq Int
    BY WordAssumption DEF Numbers
<1> QED BY <1>1, NumeralAssumption DEF IsInt

-----------------------------------------------------------------------------
(* A sequence of numbers and its places.                                   *)
LEMMA NumberPlaces ==
    ASSUME NEW is \in Seq(Numbers)
    PROVE  /\ Len(is) \in Nat /\ DOMAIN is = 1..Len(is)
           /\ \A i \in DOMAIN is : is[i] \in Numbers /\ is[i] \in Int
           /\ \A n : n \in ToSet(is) <=> \E i \in DOMAIN is : is[i] = n
           /\ ToSet(is) \subseteq Numbers
<1>1. Len(is) \in Nat /\ DOMAIN is = 1..Len(is) /\ \A i \in DOMAIN is : is[i] \in Numbers
    OBVIOUS
<1>2. ToSet(is) = {is[i] : i \in DOMAIN is}
    BY DEF ToSet
<1> QED BY <1>1, <1>2, Decimals

(* The binary search finds the place of a number, or the one it would have. *)
LEMMA SearchIs ==
    ASSUME NEW is \in Seq(Numbers), Sorted(is), NEW n \in Numbers
    PROVE  /\ Search(is, n) \in 1..(Len(is) + 1)
           /\ \A j \in 1..(Search(is, n) - 1) : is[j] < n
           /\ \A j \in Search(is, n)..Len(is) : is[j] >= n
           /\ Found(is, n) <=> n \in ToSet(is)
           /\ Found(is, n) => Search(is, n) \in DOMAIN is /\ is[Search(is, n)] = n
<1> DEFINE at(i) == /\ i > Len(is) \/ is[i] >= n
                    /\ \A j \in 1..(i - 1) : is[j] < n
           k == Search(is, n)
<1>1. /\ Len(is) \in Nat /\ DOMAIN is = 1..Len(is) /\ n \in Int
      /\ \A i \in DOMAIN is : is[i] \in Int
    BY NumberPlaces, Decimals
<1>2. \E i \in 1..(Len(is) + 1) : at(i)
    <2> DEFINE T == {i \in 1..(Len(is) + 1) : i > Len(is) \/ is[i] >= n}
    <2>1. Len(is) + 1 \in T /\ T \in SUBSET Nat
        BY <1>1
    <2>2. PICK m \in T : \A i \in T : m <= i
        BY <2>1, LeastPlace
    <2>3. m \in 1..(Len(is) + 1) /\ (m > Len(is) \/ is[m] >= n)
        OBVIOUS
    <2>4. ASSUME NEW j \in 1..(m - 1) PROVE is[j] < n
        <3>1. j \in DOMAIN is /\ j < m /\ ~(m <= j) /\ j \in 1..(Len(is) + 1)
            BY <1>1, <2>3
        <3>2. j \notin T
            BY <2>2, <3>1
        <3>3. ~(is[j] >= n)
            BY <3>1, <3>2
        <3> QED BY <3>1, <3>3, <1>1
    <2> QED BY <2>3, <2>4
<1>3. k = CHOOSE i \in 1..(Len(is) + 1) : at(i)
    BY DEF Search
<1>4. k \in 1..(Len(is) + 1) /\ at(k)
    BY <1>2, <1>3
<1> HIDE DEF k
<1>5. \A j \in 1..(k - 1) : is[j] < n
    BY <1>4
<1>6. ASSUME NEW j \in k..Len(is) PROVE is[j] >= n
    <2>1. k \in DOMAIN is /\ j \in DOMAIN is /\ is[k] >= n
        BY <1>1, <1>4
    <2>2. CASE j = k
        BY <2>1, <2>2
    <2>3. CASE j # k
        <3>1. k < j
            BY <1>4, <2>3
        <3>2. is[k] < is[j]
            BY <2>1, <3>1 DEF Sorted
        <3> QED BY <1>1, <2>1, <3>2
    <2> QED BY <2>2, <2>3
<1>7. Found(is, n) <=> k <= Len(is) /\ is[k] = n
    BY DEF Found, k
<1>8. Found(is, n) => k \in DOMAIN is /\ is[k] = n
    BY <1>1, <1>4, <1>7
<1>9. ASSUME n \in ToSet(is) PROVE Found(is, n)
    <2>1. PICK i \in DOMAIN is : is[i] = n
        BY <1>9, NumberPlaces
    <2>2. ~(i \in 1..(k - 1))
        BY <2>1, <1>1, <1>5
    <2>3. k <= i /\ k \in DOMAIN is
        BY <2>1, <2>2, <1>1, <1>4
    <2>4. is[k] >= n
        BY <2>3, <1>1, <1>6
    <2>5. CASE k = i
        BY <2>1, <2>3, <2>5, <1>1, <1>7
    <2>6. CASE k # i
        <3>1. is[k] < is[i]
            BY <2>3, <2>6, <1>1, <1>4 DEF Sorted
        <3> QED BY <3>1, <2>1, <2>3, <2>4, <1>1
    <2> QED BY <2>5, <2>6
<1>10. Found(is, n) => n \in ToSet(is)
    BY <1>8, NumberPlaces
<1> QED BY <1>4, <1>5, <1>6, <1>8, <1>9, <1>10 DEF k

(* Add puts a number where it belongs, once.                               *)
LEMMA AddIs ==
    ASSUME NEW is \in Seq(Numbers), Sorted(is), NEW n \in Numbers
    PROVE  /\ Add(is, n) \in Seq(Numbers) /\ Sorted(Add(is, n))
           /\ ToSet(Add(is, n)) = ToSet(is) \cup {n}
<1>1. CASE Found(is, n)
    BY <1>1, SearchIs DEF Add
<1>2. CASE ~Found(is, n)
    <2> DEFINE k == Search(is, n)
               new == InsertAt(is, k, n)
    <2>1. /\ k \in 1..(Len(is) + 1) /\ \A j \in 1..(k - 1) : is[j] < n
          /\ \A j \in k..Len(is) : is[j] >= n
          /\ n \notin ToSet(is)
        BY <1>2, SearchIs
    <2>2. /\ Len(is) \in Nat /\ DOMAIN is = 1..Len(is) /\ n \in Int
          /\ \A i \in DOMAIN is : is[i] \in Int /\ is[i] # n
        BY <2>1, NumberPlaces, Decimals
    <2> HIDE DEF k
    <2>3. /\ new \in Seq(Numbers) /\ Len(new) = Len(is) + 1
          /\ \A j \in 1..(Len(is) + 1) :
               new[j] = IF j < k THEN is[j] ELSE IF j = k THEN n ELSE is[j - 1]
        BY <2>1, OneInserted
    <2> HIDE DEF new
    <2>4. DOMAIN new = 1..(Len(is) + 1) /\ new[k] = n
        BY <2>1, <2>2, <2>3
    <2>5. ASSUME NEW i \in DOMAIN new, NEW j \in DOMAIN new, i < j PROVE new[i] < new[j]
        <3>1. CASE j < k
            <4>1. i \in DOMAIN is /\ j \in DOMAIN is /\ new[i] = is[i] /\ new[j] = is[j]
                BY <2>1, <2>2, <2>3, <2>4, <2>5, <3>1
            <4> QED BY <4>1, <2>5 DEF Sorted
        <3>2. CASE j = k
            <4>1. i \in 1..(k - 1) /\ new[i] = is[i] /\ new[j] = n
                BY <2>1, <2>2, <2>3, <2>4, <2>5, <3>2
            <4> QED BY <4>1, <2>1
        <3>3. CASE j > k /\ i < k
            <4>1. i \in 1..(k - 1) /\ i \in DOMAIN is /\ new[i] = is[i]
                BY <2>1, <2>2, <2>3, <2>4, <3>3
            <4>2. j - 1 \in k..Len(is) /\ j - 1 \in DOMAIN is /\ new[j] = is[j - 1]
                BY <2>1, <2>2, <2>3, <2>4, <3>3
            <4>3. is[i] < n /\ is[j - 1] >= n
                BY <4>1, <4>2, <2>1
            <4> QED BY <4>1, <4>2, <4>3, <2>2
        <3>4. CASE i = k
            <4>1. new[i] = n /\ j - 1 \in k..Len(is) /\ j - 1 \in DOMAIN is /\ new[j] = is[j - 1]
                BY <2>1, <2>2, <2>3, <2>4, <2>5, <3>4
            <4>2. is[j - 1] >= n /\ is[j - 1] # n
                BY <4>1, <2>1, <2>2
            <4> QED BY <4>1, <4>2, <2>2
        <3>5. CASE i > k
            <4>1. /\ i - 1 \in DOMAIN is /\ j - 1 \in DOMAIN is /\ i - 1 < j - 1
                  /\ new[i] = is[i - 1] /\ new[j] = is[j - 1]
                BY <2>1, <2>2, <2>3, <2>4, <2>5, <3>5
            <4> QED BY <4>1 DEF Sorted
        <3>6. i \in Int /\ j \in Int /\ k \in Int
            BY <2>1, <2>2, <2>4
        <3> QED BY <3>1, <3>2, <3>3, <3>4, <3>5, <3>6, <2>5
    <2>6. ToSet(new) = ToSet(is) \cup {n}
        <3>1. ASSUME NEW x \in ToSet(new) PROVE x \in ToSet(is) \cup {n}
            <4>1. PICK j \in DOMAIN new : new[j] = x
                BY <2>3, <3>1, NumberPlaces
            <4>2. CASE j < k
                <5>1. j \in DOMAIN is /\ is[j] = x
                    BY <4>1, <4>2, <2>1, <2>2, <2>3, <2>4
                <5> QED BY <5>1, NumberPlaces
            <4>3. CASE j = k
                BY <4>1, <4>3, <2>4
            <4>4. CASE j > k
                <5>1. j - 1 \in DOMAIN is /\ is[j - 1] = x
                    BY <4>1, <4>4, <2>1, <2>2, <2>3, <2>4
                <5> QED BY <5>1, NumberPlaces
            <4>5. j \in Int /\ k \in Int
                BY <2>1, <2>2, <2>4
            <4> QED BY <4>2, <4>3, <4>4, <4>5
        <3>2. ASSUME NEW i \in DOMAIN is PROVE is[i] \in ToSet(new)
            <4>1. CASE i < k
                <5>1. i \in DOMAIN new /\ new[i] = is[i]
                    BY <4>1, <2>1, <2>2, <2>3, <2>4
                <5> QED BY <5>1, <2>3, NumberPlaces
            <4>2. CASE ~(i < k)
                <5>1. i + 1 \in DOMAIN new /\ new[i + 1] = is[i]
                    BY <4>2, <2>1, <2>2, <2>3, <2>4
                <5> QED BY <5>1, <2>3, NumberPlaces
            <4> QED BY <4>1, <4>2
        <3>3. n \in ToSet(new)
            <4>1. k \in DOMAIN new
                BY <2>1, <2>4
            <4> QED BY <4>1, <2>3, <2>4, NumberPlaces
        <3> QED BY <3>1, <3>2, <3>3, NumberPlaces
    <2>7. Add(is, n) = new
        BY <1>2 DEF Add, new, k
    <2>8. Sorted(new)
        BY <2>5 DEF Sorted
    <2> QED BY <2>3, <2>6, <2>7, <2>8
<1> QED BY <1>1, <1>2

(* Removed takes a number away.                                            *)
LEMMA RemovedIs ==
    ASSUME NEW is \in Seq(Numbers), Sorted(is), NEW n \in Numbers
    PROVE  /\ Removed(is, n) \in Seq(Numbers) /\ Sorted(Removed(is, n))
           /\ Len(Removed(is, n)) <= Len(is)
           /\ ToSet(Removed(is, n)) = ToSet(is) \ {n}
<1>0. Len(is) \in Nat
    OBVIOUS
<1>1. CASE ~Found(is, n)
    BY <1>0, <1>1, SearchIs DEF Removed
<1>2. CASE Found(is, n)
    <2> DEFINE k == Search(is, n)
               new == RemoveAt(is, k)
    <2>1. k \in DOMAIN is /\ is[k] = n
        BY <1>2, SearchIs
    <2>2. /\ DOMAIN is = 1..Len(is) /\ \A i \in DOMAIN is : is[i] \in Int
          /\ n \in Int
        BY NumberPlaces, Decimals
    <2> HIDE DEF k
    <2>3. /\ new \in Seq(Numbers) /\ Len(new) = Len(is) - 1
          /\ \A j \in 1..(Len(is) - 1) : new[j] = IF j < k THEN is[j] ELSE is[j + 1]
        BY <2>1, <2>2, OneRemoved
    <2> HIDE DEF new
    <2>4. DOMAIN new = 1..(Len(is) - 1)
        BY <2>3, <1>0
    <2> DEFINE at == [j \in DOMAIN new |-> IF j < k THEN j ELSE j + 1]
    <2>5. /\ \A j \in DOMAIN new : at[j] \in DOMAIN is /\ at[j] # k /\ new[j] = is[at[j]]
          /\ \A i, j \in DOMAIN new : i < j => at[i] < at[j]
        BY <1>0, <2>1, <2>2, <2>3, <2>4
    <2>6. ASSUME NEW i \in DOMAIN is, i # k PROVE \E j \in DOMAIN new : at[j] = i
        <3>1. CASE i < k
            <4>1. i \in DOMAIN new /\ at[i] = i
                BY <1>0, <2>1, <2>2, <2>4, <3>1
            <4> QED BY <4>1
        <3>2. CASE ~(i < k)
            <4>1. i - 1 \in DOMAIN new /\ at[i - 1] = i
                BY <1>0, <2>1, <2>2, <2>4, <2>6, <3>2
            <4> QED BY <4>1
        <3> QED BY <3>1, <3>2
    <2> HIDE DEF at
    <2>7. Sorted(new)
        BY <2>5 DEF Sorted
    <2>8. \A i, j \in DOMAIN is : i # j => is[i] # is[j]
        <3> SUFFICES ASSUME NEW i \in DOMAIN is, NEW j \in DOMAIN is, i # j PROVE is[i] # is[j]
            OBVIOUS
        <3>1. i < j \/ j < i
            BY <2>2
        <3>2. is[i] < is[j] \/ is[j] < is[i]
            BY <3>1 DEF Sorted
        <3> QED BY <3>2, <2>2
    <2>9. ToSet(new) = ToSet(is) \ {n}
        <3>1. ASSUME NEW x \in ToSet(new) PROVE x \in ToSet(is) \ {n}
            <4>1. PICK j \in DOMAIN new : new[j] = x
                BY <2>3, <3>1, NumberPlaces
            <4>2. at[j] \in DOMAIN is /\ is[at[j]] = x /\ x # n
                BY <4>1, <2>1, <2>5, <2>8
            <4> QED BY <4>2, NumberPlaces
        <3>2. ASSUME NEW x \in ToSet(is) \ {n} PROVE x \in ToSet(new)
            <4>1. PICK i \in DOMAIN is : is[i] = x
                BY <3>2, NumberPlaces
            <4>2. PICK j \in DOMAIN new : at[j] = i
                BY <4>1, <3>2, <2>1, <2>6
            <4> QED BY <4>1, <4>2, <2>3, <2>5, NumberPlaces
        <3> QED BY <3>1, <3>2
    <2>10. Removed(is, n) = new /\ Len(new) <= Len(is)
        BY <1>0, <1>2, <2>3 DEF Removed, new, k
    <2> QED BY <2>3, <2>7, <2>9, <2>10
<1> QED BY <1>1, <1>2
-----------------------------------------------------------------------------
(* The members of a set, in either encoding, and its size.                 *)
LEMMA Finite ==
    ASSUME NEW S \in SUBSET Strings
    PROVE  IsFiniteSet(S) /\ Cardinality(S) \in Nat /\ (Cardinality(S) = 0 <=> S = {})
<1>1. IsFiniteSet(S) /\ Cardinality(S) \in Nat
    BY SetAssumption, FS_Subset, FS_CardinalityType
<1> QED BY <1>1, FS_EmptySet

(* An intset has as many members as numbers.                               *)
LEMMA IntSetMembers ==
    ASSUME NEW is \in Seq(Numbers), Sorted(is), NEW S, S = {Decimal[n] : n \in ToSet(is)}
    PROVE  /\ S \in SUBSET Strings /\ Cardinality(S) = Len(is)
           /\ \A m \in S : IsInt(m)
           /\ \A n \in Numbers : Decimal[n] \in S <=> n \in ToSet(is)
<1>1. /\ Len(is) \in Nat /\ DOMAIN is = 1..Len(is) /\ ToSet(is) \subseteq Numbers
      /\ \A i \in DOMAIN is : is[i] \in Numbers /\ is[i] \in Int
    BY NumberPlaces
<1>2. S \in SUBSET Strings /\ \A m \in S : IsInt(m)
    BY <1>1, Decimals
<1>3. \A i, j \in Numbers : Decimal[i] = Decimal[j] => i = j
    <2> TAKE i, j \in Numbers
    <2>1. Parse[Decimal[i]] = i /\ Parse[Decimal[j]] = j
        BY Decimals
    <2> QED BY <2>1
<1>4. \A n \in Numbers : Decimal[n] \in S <=> n \in ToSet(is)
    BY <1>1, <1>3
<1> DEFINE name == [i \in 1..Len(is) |-> Decimal[is[i]]]
<1>5. \A i, j \in 1..Len(is) : name[i] = name[j] => i = j
    <2> SUFFICES ASSUME NEW i \in 1..Len(is), NEW j \in 1..Len(is), i # j
                 PROVE  name[i] # name[j]
        OBVIOUS
    <2>1. i < j \/ j < i
        OBVIOUS
    <2>2. is[i] < is[j] \/ is[j] < is[i]
        BY <2>1, <1>1 DEF Sorted
    <2>3. is[i] # is[j] /\ is[i] \in Numbers /\ is[j] \in Numbers
        BY <2>2, <1>1
    <2> QED BY <2>3, <1>3
<1>6. \A x \in S : \E i \in 1..Len(is) : name[i] = x
    <2> TAKE x \in S
    <2>1. PICK n \in ToSet(is) : x = Decimal[n]
        OBVIOUS
    <2>2. PICK i \in DOMAIN is : is[i] = n
        BY NumberPlaces
    <2> QED BY <2>1, <2>2, <1>1
<1>7. \A i \in 1..Len(is) : name[i] \in S
    BY <1>1, NumberPlaces
<1>8. name \in Bijection(1..Len(is), S)
    BY <1>5, <1>6, <1>7 DEF Bijection, Injection, Surjection, IsInjective
<1>9. IsFiniteSet(1..Len(is)) /\ Cardinality(1..Len(is)) = Len(is)
    <2>1. \A k \in Nat : IsFiniteSet(1..k) /\ Cardinality(1..k) = k
        BY FS_Interval
    <2> QED BY <2>1, <1>1
<1>10. Cardinality(S) = Len(is)
    BY <1>8, <1>9, FS_Bijection DEF ExistsBijection
<1> QED BY <1>2, <1>4, <1>10

(* A set amounts to a set of strings, which SCARD counts.                  *)
LEMMA MembersAre ==
    ASSUME NEW s, SetSound(s)
    PROVE  /\ MembersOf(s) \in SUBSET Strings /\ SetLen(s) = Cardinality(MembersOf(s))
           /\ s.enc = "none" <=> s = NoSet
           /\ s.enc \in {"none", "intset", "ht"}
<1>1. s \in SetValue /\ Sorted(s.is) /\ s.is \in Seq(Numbers) /\ s.ht \in SUBSET Strings
    BY DEF SetSound, SetValue
<1>2. s.enc = "none" <=> s = NoSet
    BY DEF SetSound, NoSet
<1>3. CASE s.enc = "intset"
    <2>1. MembersOf(s) = {Decimal[n] : n \in ToSet(s.is)} /\ SetLen(s) = Len(s.is)
        BY <1>3 DEF MembersOf, SetLen
    <2>2. MembersOf(s) \in SUBSET Strings /\ Cardinality(MembersOf(s)) = Len(s.is)
        BY <1>1, <2>1, IntSetMembers
    <2> QED BY <1>1, <1>2, <2>1, <2>2 DEF SetValue
<1>4. CASE s.enc # "intset"
    BY <1>1, <1>2, <1>4 DEF MembersOf, SetLen, SetValue
<1> QED BY <1>3, <1>4

(* A missing set has no members.                                           *)
LEMMA NoSetIs == SetSound(NoSet) /\ MembersOf(NoSet) = {} /\ NoSet.enc = "none"
<1>1. NoSet.enc = "none" /\ NoSet.is = <<>> /\ NoSet.ht = {} /\ NoSet \in SetValue
    BY DEF NoSet, SetValue
<1>2. Len(<<>>) <= SetMaxIntsetEntries /\ Sorted(<<>>)
    BY SetAssumption DEF Sorted
<1> QED BY <1>1, <1>2 DEF SetSound, MembersOf

(* A map with the given members.                                           *)
LEMMA HashedIs ==
    ASSUME NEW S \in SUBSET Strings
    PROVE  SetSound(Hashed(S)) /\ MembersOf(Hashed(S)) = S /\ Hashed(S).enc = "ht"
<1>1. Hashed(S).enc = "ht" /\ Hashed(S).is = <<>> /\ Hashed(S).ht = S /\ Hashed(S) \in SetValue
    BY DEF Hashed, SetValue
<1>2. Len(<<>>) <= SetMaxIntsetEntries /\ Sorted(<<>>)
    BY SetAssumption DEF Sorted
<1> QED BY <1>1, <1>2 DEF SetSound, MembersOf

(* An intset with the given numbers.                                       *)
LEMMA IntSetIs ==
    ASSUME NEW is \in Seq(Numbers), Sorted(is)
    PROVE  /\ IntSet(is).enc = "intset" /\ IntSet(is).is = is
           /\ MembersOf(IntSet(is)) = {Decimal[n] : n \in ToSet(is)}
           /\ MembersOf(IntSet(is)) \in SUBSET Strings
           /\ Len(is) <= SetMaxIntsetEntries => SetSound(IntSet(is))
<1>1. /\ IntSet(is).enc = "intset" /\ IntSet(is).is = is /\ IntSet(is).ht = {}
      /\ IntSet(is) \in SetValue
    BY DEF IntSet, SetValue
<1>2. MembersOf(IntSet(is)) = {Decimal[n] : n \in ToSet(is)}
    BY <1>1 DEF MembersOf
<1>3. MembersOf(IntSet(is)) \in SUBSET Strings
    BY <1>2, IntSetMembers
<1> QED BY <1>1, <1>2, <1>3 DEF SetSound

(* SISMEMBER and the loops look for the spelling that the encoding keeps.  *)
LEMMA IsMemberIs ==
    ASSUME NEW s, SetSound(s), NEW m \in Strings
    PROVE  /\ IsMember(s, m) <=> Spelled(s, m) \in MembersOf(s)
           /\ Spelled(s, m) \in Spellings(m) /\ Spelled(s, m) \in Strings
<1>1. s.is \in Seq(Numbers) /\ Sorted(s.is)
    BY DEF SetSound, SetValue
<1>2. CASE s.enc = "intset" /\ IsInt(m)
    <2>1. Parse[m] \in Numbers /\ Decimal[Parse[m]] \in Strings
        BY <1>2, Decimals
    <2>2. /\ Spelled(s, m) = Decimal[Parse[m]]
          /\ MembersOf(s) = {Decimal[n] : n \in ToSet(s.is)}
          /\ IsMember(s, m) <=> Found(s.is, Parse[m])
        BY <1>2 DEF Spelled, MembersOf, IsMember
    <2>3. Found(s.is, Parse[m]) <=> Parse[m] \in ToSet(s.is)
        BY <1>1, <2>1, SearchIs
    <2>4. Decimal[Parse[m]] \in MembersOf(s) <=> Parse[m] \in ToSet(s.is)
        BY <1>1, <2>1, <2>2, IntSetMembers
    <2> QED BY <1>2, <2>1, <2>2, <2>3, <2>4 DEF Spellings
<1>3. CASE s.enc = "intset" /\ ~IsInt(m)
    <2>1. Spelled(s, m) = m /\ ~IsMember(s, m) /\ MembersOf(s) = {Decimal[n] : n \in ToSet(s.is)}
        BY <1>3 DEF Spelled, IsMember, MembersOf
    <2>2. m \notin MembersOf(s)
        BY <1>1, <1>3, <2>1, IntSetMembers
    <2> QED BY <2>1, <2>2 DEF Spellings
<1>4. CASE s.enc # "intset"
    <2>1. Spelled(s, m) = m /\ (IsMember(s, m) <=> m \in s.ht) /\ MembersOf(s) = s.ht
        BY <1>4 DEF Spelled, IsMember, MembersOf
    <2> QED BY <2>1 DEF Spellings
<1> QED BY <1>2, <1>3, <1>4

(* Booleans of the code are those of the abstract set.                     *)
LEMMA IsMemberEquals ==
    ASSUME NEW s, SetSound(s), NEW m \in Strings
    PROVE  IsMember(s, m) = (Spelled(s, m) \in MembersOf(s))
<1>1. CASE s.enc = "intset"
    <2>1. IsMember(s, m) = (IsInt(m) /\ Found(s.is, Parse[m]))
        BY <1>1 DEF IsMember
    <2>2. (IsInt(m) /\ Found(s.is, Parse[m])) <=> Spelled(s, m) \in MembersOf(s)
        BY <2>1, IsMemberIs
    <2>3. (IsInt(m) /\ Found(s.is, Parse[m])) = (Spelled(s, m) \in MembersOf(s))
        BY <2>2
    <2> QED BY <2>1, <2>3
<1>2. CASE s.enc # "intset"
    BY <1>2 DEF IsMember, Spelled, MembersOf
<1> QED BY <1>1, <1>2

(* setGetOrCreate changes no set.                                          *)
LEMMA SetCreatedIs ==
    ASSUME NEW s, SetSound(s), NEW m \in Strings
    PROVE  /\ SetSound(SetCreated(s, m)) /\ SetCreated(s, m).enc # "none"
           /\ MembersOf(SetCreated(s, m)) = MembersOf(s)
<1>1. CASE s # NoSet
    BY <1>1, MembersAre DEF SetCreated
<1>2. CASE s = NoSet /\ IsInt(m)
    <2>1. SetCreated(s, m) = IntSet(<<>>)
        BY <1>2 DEF SetCreated
    <2>2. <<>> \in Seq(Numbers) /\ Sorted(<<>>) /\ ToSet(<<>>) = {} /\ Len(<<>>) <= SetMaxIntsetEntries
        BY SetAssumption DEF Sorted, ToSet
    <2>3. /\ SetSound(IntSet(<<>>)) /\ IntSet(<<>>).enc = "intset"
          /\ MembersOf(IntSet(<<>>)) = {Decimal[n] : n \in {}}
        BY <2>2, IntSetIs
    <2> QED BY <1>2, <2>1, <2>3, NoSetIs
<1>3. CASE s = NoSet /\ ~IsInt(m)
    <2>1. SetCreated(s, m) = Hashed({})
        BY <1>3 DEF SetCreated
    <2> QED BY <1>3, <2>1, HashedIs, NoSetIs
<1> QED BY <1>1, <1>2, <1>3

(* setAdd and setRem do to the members what they should, in any encoding.  *)
LEMMA SetAddIs ==
    ASSUME NEW s, SetSound(s), s.enc # "none", NEW m \in Strings
    PROVE  /\ SetSound(SetAdd(s, m)) /\ SetAdd(s, m).enc # "none"
           /\ MembersOf(SetAdd(s, m)) = MembersOf(s) \cup {Spelled(s, m)}
<1>1. s.is \in Seq(Numbers) /\ Sorted(s.is) /\ MembersOf(s) \in SUBSET Strings
    BY MembersAre DEF SetSound, SetValue
<1>2. CASE s.enc = "intset" /\ IsInt(m)
    <2> DEFINE n == Parse[m]
               is == Add(s.is, n)
    <2>1. n \in Numbers
        BY <1>2, Decimals
    <2>2. is \in Seq(Numbers) /\ Sorted(is) /\ ToSet(is) = ToSet(s.is) \cup {n}
        BY <1>1, <2>1, AddIs
    <2>3. SetAdd(s, m) = IF Len(is) > SetMaxIntsetEntries THEN Hashed(MembersOf(IntSet(is)))
                                                          ELSE IntSet(is)
        BY <1>2 DEF SetAdd
    <2> HIDE DEF is
    <2>4. /\ IntSet(is).enc = "intset"
          /\ MembersOf(IntSet(is)) = {Decimal[k] : k \in ToSet(is)}
          /\ MembersOf(IntSet(is)) \in SUBSET Strings
          /\ Len(is) <= SetMaxIntsetEntries => SetSound(IntSet(is))
        BY <2>2, IntSetIs
    <2>5. MembersOf(IntSet(is)) = MembersOf(s) \cup {Decimal[n]}
        <3>1. MembersOf(s) = {Decimal[k] : k \in ToSet(s.is)}
            BY <1>2 DEF MembersOf
        <3> QED BY <3>1, <2>2, <2>4
    <2>6. Spelled(s, m) = Decimal[n]
        BY <1>2 DEF Spelled
    <2>7. Len(is) \in Nat /\ SetMaxIntsetEntries \in Nat
        BY <2>2, SetAssumption
    <2>8. CASE Len(is) > SetMaxIntsetEntries
        <3>1. SetAdd(s, m) = Hashed(MembersOf(IntSet(is)))
            BY <2>3, <2>8
        <3> QED BY <3>1, <2>4, <2>5, <2>6, HashedIs
    <2>9. CASE ~(Len(is) > SetMaxIntsetEntries)
        <3>1. SetAdd(s, m) = IntSet(is) /\ Len(is) <= SetMaxIntsetEntries
            BY <2>3, <2>7, <2>9
        <3> QED BY <3>1, <2>4, <2>5, <2>6
    <2> QED BY <2>8, <2>9
<1>3. CASE ~(s.enc = "intset" /\ IsInt(m))
    <2>1. SetAdd(s, m) = Hashed(MembersOf(s) \cup {m}) /\ Spelled(s, m) = m
        BY <1>3 DEF SetAdd, Spelled
    <2> QED BY <1>1, <2>1, HashedIs
<1> QED BY <1>2, <1>3

(* A round of SREM takes one member away, in either encoding.              *)
LEMMA SetRemIs ==
    ASSUME NEW s, SetSound(s), s.enc # "none", NEW m \in Strings
    PROVE  /\ SetSound(SetRem(s, m)) /\ SetRem(s, m).enc # "none"
           /\ MembersOf(SetRem(s, m)) = MembersOf(s) \ {Spelled(s, m)}
<1>1. /\ s.is \in Seq(Numbers) /\ Sorted(s.is) /\ MembersOf(s) \in SUBSET Strings
      /\ Len(s.is) <= SetMaxIntsetEntries /\ s.enc \in {"none", "intset", "ht"}
    BY MembersAre DEF SetSound, SetValue
<1>2. CASE s.enc = "ht"
    <2>1. /\ SetRem(s, m) = Hashed(s.ht \ {m}) /\ Spelled(s, m) = m /\ MembersOf(s) = s.ht
        BY <1>2 DEF SetRem, Spelled, MembersOf
    <2> QED BY <1>1, <2>1, HashedIs
<1>3. CASE s.enc = "intset" /\ IsInt(m)
    <2> DEFINE n == Parse[m]
               is == Removed(s.is, n)
    <2>1. n \in Numbers
        BY <1>3, Decimals
    <2>2. /\ is \in Seq(Numbers) /\ Sorted(is) /\ ToSet(is) = ToSet(s.is) \ {n}
          /\ Len(is) <= Len(s.is)
        BY <1>1, <2>1, RemovedIs
    <2>3. SetRem(s, m) = IntSet(is) /\ Spelled(s, m) = Decimal[n]
        BY <1>3 DEF SetRem, Spelled
    <2> HIDE DEF is
    <2>4. Len(is) <= SetMaxIntsetEntries
        BY <1>1, <2>2, SetAssumption
    <2>5. /\ IntSet(is).enc = "intset" /\ SetSound(IntSet(is))
          /\ MembersOf(IntSet(is)) = {Decimal[k] : k \in ToSet(is)}
        BY <2>2, <2>4, IntSetIs
    <2>6. MembersOf(s) = {Decimal[k] : k \in ToSet(s.is)} /\ ToSet(s.is) \subseteq Numbers
        BY <1>1, <1>3, NumberPlaces DEF MembersOf
    <2>7. \A k \in Numbers : Decimal[k] = Decimal[n] => k = n
        <3> TAKE k \in Numbers
        <3>1. Parse[Decimal[k]] = k /\ Parse[Decimal[n]] = n
            BY <2>1, Decimals
        <3> QED BY <3>1
    <2>8. MembersOf(IntSet(is)) = MembersOf(s) \ {Decimal[n]}
        BY <2>2, <2>5, <2>6, <2>7
    <2> QED BY <2>3, <2>5, <2>8
<1>4. CASE s.enc = "intset" /\ ~IsInt(m)
    <2>1. SetRem(s, m) = s /\ Spelled(s, m) = m
        BY <1>4 DEF SetRem, Spelled
    <2>2. m \notin MembersOf(s)
        <3>1. MembersOf(s) = {Decimal[k] : k \in ToSet(s.is)}
            BY <1>4 DEF MembersOf
        <3> QED BY <3>1, <1>1, <1>4, IntSetMembers
    <2> QED BY <2>1, <2>2
<1> QED BY <1>1, <1>2, <1>3, <1>4
-----------------------------------------------------------------------------
(* Places in an order, and the heights of what is there.                   *)

(* The greatest of the levels.                                             *)
LEMMA GreatestIs ==
    ASSUME NEW l \in Nat, NEW S \in SUBSET (0..l), S # {}
    PROVE  Max(S) \in S /\ \A y \in S : y <= Max(S)
<1> DEFINE T == {j \in 0..l : l - j \in S}
<1>1. T \in SUBSET Nat /\ T # {}
    <2>1. PICK y \in S : TRUE
        OBVIOUS
    <2>2. l - y \in 0..l /\ l - (l - y) = y
        BY <2>1
    <2>3. l - y \in T
        BY <2>1, <2>2
    <2>4. T \subseteq Nat
        OBVIOUS
    <2> QED BY <2>3, <2>4
<1>2. PICK j \in T : \A k \in T : j <= k
    <2> HIDE DEF T
    <2> QED BY <1>1, LeastPlace
<1>3. l - j \in S /\ j \in 0..l
    BY <1>2
<1>4. ASSUME NEW y \in S PROVE y <= l - j
    <2>1. y \in 0..l /\ l - y \in 0..l /\ l - (l - y) = y
        OBVIOUS
    <2>2. l - y \in T
        BY <2>1
    <2>3. j <= l - y
        BY <1>2, <2>2
    <2> QED BY <1>3, <2>1, <2>3
<1>5. Max(S) = CHOOSE x \in S : \A y \in S : x >= y
    BY DEF Max
<1>6. \A y \in S : l - j >= y
    <2>1. \A y \in S : y \in Int
        OBVIOUS
    <2> QED BY <1>3, <1>4, <2>1
<1>7. Max(S) \in S /\ \A y \in S : Max(S) >= y
    BY <1>3, <1>5, <1>6
<1>8. \A y \in S : y \in Int
    OBVIOUS
<1> QED BY <1>7, <1>8

(* Places that are all before the others end somewhere.                    *)
LEMMA EdgeExists ==
    ASSUME NEW n \in Nat, NEW S,
           \A p, q \in 1..n : p < q /\ q \in S => p \in S
    PROVE  \E k \in 0..n : \A q \in 1..n : q <= k <=> q \in S
<1> DEFINE Edge(j, k) == k \in 0..j /\ \A q \in 1..j : q <= k <=> q \in S
           T == {j \in Nat : j <= n => \E k : Edge(j, k)}
<1>1. 0 \in T
    <2>1. Edge(0, 0)
        OBVIOUS
    <2> QED BY <2>1
<1>2. ASSUME NEW j \in Nat, j \in T PROVE j + 1 \in T
    <2> SUFFICES ASSUME j + 1 <= n PROVE \E k : Edge(j + 1, k)
        OBVIOUS
    <2>1. PICK k : Edge(j, k)
        BY <1>2
    <2>2. CASE j + 1 \in S
        <3>1. ASSUME NEW q \in 1..(j + 1) PROVE q <= j + 1 <=> q \in S
            <4>1. CASE q = j + 1
                BY <2>2, <4>1
            <4>2. CASE q < j + 1
                <5>1. q \in 1..n /\ j + 1 \in 1..n
                    OBVIOUS
                <5> QED BY <2>2, <4>2, <5>1
            <4> QED BY <4>1, <4>2
        <3>2. Edge(j + 1, j + 1)
            BY <3>1
        <3> QED BY <3>2
    <2>3. CASE j + 1 \notin S
        <3>1. ASSUME NEW q \in 1..(j + 1) PROVE q <= k <=> q \in S
            <4>1. CASE q = j + 1
                BY <2>1, <2>3, <4>1
            <4>2. CASE q < j + 1
                <5>1. q \in 1..j
                    BY <4>2
                <5> QED BY <2>1, <5>1
            <4> QED BY <4>1, <4>2
        <3>2. Edge(j + 1, k)
            BY <2>1, <3>1
        <3> QED BY <3>2
    <2> QED BY <2>2, <2>3
<1>3. \A j \in Nat : j \in T
    <2> HIDE DEF T
    <2> QED BY <1>1, <1>2, Reached
<1>4. PICK k : Edge(n, k)
    BY <1>3
<1> QED BY <1>4

(* p is the last place of height i up to k.                                *)
LastUp(h, i, k, p) == p \in 0..k /\ h[p] >= i /\ \A r \in (p + 1)..k : h[r] < i

(* There is one last place of a height up to k.                            *)
LEMMA LastIs ==
    ASSUME NEW h, NEW i, NEW k \in Nat, NEW p, NEW q, LastUp(h, i, k, p), LastUp(h, i, k, q),
           i \in Nat, \A r \in 0..k : h[r] \in Nat
    PROVE  p = q
<1>1. p \in 0..k /\ q \in 0..k /\ h[p] >= i /\ h[q] >= i /\ h[p] \in Nat /\ h[q] \in Nat
    BY DEF LastUp
<1>2. ~(p < q)
    BY <1>1 DEF LastUp
<1>3. ~(q < p)
    BY <1>1 DEF LastUp
<1> QED BY <1>1, <1>2, <1>3

(* There is a last place of each height, the header's at least.            *)
LEMMA LastExists ==
    ASSUME NEW n \in Nat, NEW h, \A p \in 0..n : h[p] \in Nat, NEW k \in 0..n,
           NEW i \in Nat, h[0] >= i
    PROVE  \E p \in 0..k : LastUp(h, i, k, p)
<1> DEFINE T == {j \in 0..k : h[k - j] >= i}
<1>1. T \in SUBSET Nat /\ T # {}
    <2>1. k \in T
        <3>1. k - k = 0 /\ k \in 0..k
            OBVIOUS
        <3> QED BY <3>1
    <2>2. T \subseteq Nat
        OBVIOUS
    <2> QED BY <2>1, <2>2
<1>2. PICK j \in T : \A r \in T : j <= r
    <2> HIDE DEF T
    <2> QED BY <1>1, LeastPlace
<1>3. ASSUME NEW r \in (k - j + 1)..k PROVE h[r] < i
    <2>1. k - r \in 0..k /\ k - (k - r) = r /\ ~(j <= k - r)
        OBVIOUS
    <2>2. k - r \notin T
        BY <1>2, <2>1
    <2>3. ~(h[r] >= i)
        BY <2>1, <2>2
    <2>4. h[r] \in Nat
        <3>1. r \in 0..n
            OBVIOUS
        <3> QED BY <3>1
    <2> QED BY <2>3, <2>4
<1>4. LastUp(h, i, k, k - j)
    BY <1>2, <1>3 DEF LastUp
<1> QED BY <1>4 DEF LastUp

(* q is the first place behind p of height i, or beyond the end.           *)
NextUp(h, n, i, p, q) ==
    /\ q \in (p + 1)..(n + 1) /\ (q <= n => h[q] >= i)
    /\ \A r \in (p + 1)..(q - 1) : h[r] < i

(* The places when one more is put behind the k-th.                        *)
Put(f, n, k, x) ==
    [p \in 0..(n + 1) |-> IF p <= k THEN f[p] ELSE IF p = k + 1 THEN x ELSE f[p - 1]]

(* What is put at k + 1 moves the places behind it by one.                 *)
LEMMA PutIs ==
    ASSUME NEW f, NEW n \in Nat, NEW k \in 0..n, NEW x
    PROVE  /\ \A p \in 0..k : Put(f, n, k, x)[p] = f[p]
           /\ Put(f, n, k, x)[k + 1] = x
           /\ \A p \in (k + 1)..n : Put(f, n, k, x)[p + 1] = f[p]
           /\ \A p \in (k + 2)..(n + 1) : Put(f, n, k, x)[p] = f[p - 1]
<1>1. \A p \in 0..k : p \in 0..(n + 1) /\ p <= k
    OBVIOUS
<1>2. k + 1 \in 0..(n + 1) /\ ~(k + 1 <= k)
    OBVIOUS
<1>3. \A p \in (k + 1)..n : p + 1 \in 0..(n + 1) /\ ~(p + 1 <= k) /\ p + 1 # k + 1 /\ (p + 1) - 1 = p
    OBVIOUS
<1>4. \A p \in (k + 2)..(n + 1) : p \in 0..(n + 1) /\ ~(p <= k) /\ p # k + 1
    OBVIOUS
<1> QED BY <1>1, <1>2, <1>3, <1>4 DEF Put

(* Where the next place of a height is then.                               *)
LEMMA NextPut ==
    ASSUME NEW n \in Nat, NEW h, \A p \in 0..n : h[p] \in Nat, NEW k \in 0..n, NEW l \in Nat,
           NEW i \in Nat, NEW p \in 0..n, NEW q, NextUp(h, n, i, p, q)
    PROVE  /\ q <= k => NextUp(Put(h, n, k, l), n + 1, i, p, q)
           /\ p <= k /\ q > k /\ l < i => NextUp(Put(h, n, k, l), n + 1, i, p, q + 1)
           /\ p <= k /\ q > k /\ l >= i => NextUp(Put(h, n, k, l), n + 1, i, p, k + 1)
           /\ p <= k /\ q > k => NextUp(Put(h, n, k, l), n + 1, i, k + 1, q + 1)
           /\ p > k => NextUp(Put(h, n, k, l), n + 1, i, p + 1, q + 1)
<1> DEFINE g == Put(h, n, k, l)
<1>1. /\ \A r \in 0..k : g[r] = h[r]
      /\ g[k + 1] = l
      /\ \A r \in (k + 1)..n : g[r + 1] = h[r]
      /\ \A r \in (k + 2)..(n + 1) : g[r] = h[r - 1]
    BY PutIs
<1>2. q \in (p + 1)..(n + 1) /\ (q <= n => h[q] >= i) /\ \A r \in (p + 1)..(q - 1) : h[r] < i
    BY DEF NextUp
<1> HIDE DEF g
<1>3. CASE q <= k
    <2>1. g[q] >= i /\ q \in (p + 1)..(n + 1 + 1)
        BY <1>1, <1>2, <1>3
    <2>2. \A r \in (p + 1)..(q - 1) : g[r] < i
        BY <1>1, <1>2, <1>3
    <2>3. NextUp(g, n + 1, i, p, q)
        BY <2>1, <2>2 DEF NextUp
    <2>4. ~(p > k) /\ ~(q > k)
        BY <1>2, <1>3
    <2> QED BY <2>3, <2>4 DEF g
<1>4. CASE q > k
    <2>1. ASSUME NEW c \in 0..(n + 1), q + 1 > c, \A r \in (c + 1)..q : g[r] < i
          PROVE  NextUp(g, n + 1, i, c, q + 1)
        <3>1. q + 1 \in (c + 1)..((n + 1) + 1) /\ (q + 1) - 1 = q
            BY <1>2, <2>1
        <3>2. q + 1 <= n + 1 => g[q + 1] >= i
            BY <1>1, <1>2, <1>4
        <3> QED BY <2>1, <3>1, <3>2 DEF NextUp
    <2>2. ASSUME p <= k, l < i PROVE NextUp(g, n + 1, i, p, q + 1)
        <3>1. ASSUME NEW r \in (p + 1)..q PROVE g[r] < i
            <4>1. CASE r <= k
                <5>1. r \in 0..k /\ r \in (p + 1)..(q - 1)
                    BY <1>2, <1>4, <4>1
                <5> QED BY <1>1, <1>2, <5>1
            <4>2. CASE r = k + 1
                BY <1>1, <2>2, <4>2
            <4>3. CASE r > k + 1
                <5>1. r \in (k + 2)..(n + 1) /\ r - 1 \in (p + 1)..(q - 1)
                    BY <1>2, <2>2, <4>3
                <5> QED BY <1>1, <1>2, <5>1
            <4> QED BY <1>2, <4>1, <4>2, <4>3
        <3>2. p \in 0..(n + 1) /\ q + 1 > p
            BY <1>2
        <3> QED BY <2>1, <3>1, <3>2
    <2>3. ASSUME p <= k, l >= i PROVE NextUp(g, n + 1, i, p, k + 1)
        <3>1. k + 1 \in (p + 1)..((n + 1) + 1) /\ (k + 1) - 1 = k
            BY <2>3
        <3>2. \A r \in (p + 1)..k : g[r] < i
            BY <1>1, <1>2, <1>4
        <3> QED BY <1>1, <2>3, <3>1, <3>2 DEF NextUp
    <2>4. ASSUME NEW c, c = IF p <= k THEN k + 1 ELSE p + 1 PROVE NextUp(g, n + 1, i, c, q + 1)
        <3>1. c \in 0..(n + 1) /\ q + 1 > c /\ c >= k + 1 /\ c >= p + 1
            BY <1>2, <1>4, <2>4
        <3>2. ASSUME NEW r \in (c + 1)..q PROVE g[r] < i
            <4>1. r \in (k + 2)..(n + 1) /\ r - 1 \in (p + 1)..(q - 1)
                BY <1>2, <3>1
            <4> QED BY <1>1, <1>2, <4>1
        <3> QED BY <2>1, <3>1, <3>2
    <2>5. p <= k => NextUp(g, n + 1, i, k + 1, q + 1)
        BY <2>4
    <2>6. p > k => NextUp(g, n + 1, i, p + 1, q + 1)
        <3>1. p > k => ~(p <= k)
            OBVIOUS
        <3> QED BY <2>4, <3>1
    <2>7. ~(q <= k)
        BY <1>2, <1>4
    <2> QED BY <1>4, <2>2, <2>3, <2>5, <2>6, <2>7 DEF g
<1>5. q <= k \/ q > k
    BY <1>2
<1> QED BY <1>3, <1>4, <1>5

(* The places when the j-th is taken away.                                 *)
Take(f, n, j) == [p \in 0..(n - 1) |-> IF p < j THEN f[p] ELSE f[p + 1]]

(* What is taken from j moves the places behind it by one.                 *)
LEMMA TakeIs ==
    ASSUME NEW f, NEW n \in Nat, NEW j \in 1..n
    PROVE  /\ \A p \in 0..(j - 1) : Take(f, n, j)[p] = f[p]
           /\ \A p \in (j + 1)..n : Take(f, n, j)[p - 1] = f[p]
           /\ \A p \in j..(n - 1) : Take(f, n, j)[p] = f[p + 1]
<1>1. \A p \in 0..(j - 1) : p \in 0..(n - 1) /\ p < j
    OBVIOUS
<1>2. \A p \in (j + 1)..n : p - 1 \in 0..(n - 1) /\ ~(p - 1 < j) /\ (p - 1) + 1 = p
    OBVIOUS
<1>3. \A p \in j..(n - 1) : p \in 0..(n - 1) /\ ~(p < j)
    OBVIOUS
<1> QED BY <1>1, <1>2, <1>3 DEF Take

(* Who leads to whom on a level when a place is taken away: who led to the *)
(* node that goes leads to where that one led.                             *)
LEMMA NextTake ==
    ASSUME NEW n \in Nat, NEW h, \A p \in 0..n : h[p] \in Nat, NEW j \in 1..n,
           NEW i \in Nat, NEW p \in 0..n, p # j, NEW q, NextUp(h, n, i, p, q)
    PROVE  /\ q < j => NextUp(Take(h, n, j), n - 1, i, p, q)
           /\ p < j /\ q > j => NextUp(Take(h, n, j), n - 1, i, p, q - 1)
           /\ q = j => \A r : NextUp(h, n, i, j, r) => NextUp(Take(h, n, j), n - 1, i, p, r - 1)
           /\ p > j => NextUp(Take(h, n, j), n - 1, i, p - 1, q - 1)
<1> DEFINE t == Take(h, n, j)
<1>1. /\ \A r \in 0..(j - 1) : t[r] = h[r]
      /\ \A r \in (j + 1)..n : t[r - 1] = h[r]
      /\ \A r \in j..(n - 1) : t[r] = h[r + 1]
    BY TakeIs
<1>2. q \in (p + 1)..(n + 1) /\ (q <= n => h[q] >= i) /\ \A r \in (p + 1)..(q - 1) : h[r] < i
    BY DEF NextUp
<1> HIDE DEF t
<1>3. ASSUME q < j PROVE NextUp(t, n - 1, i, p, q)
    <2>1. q \in (p + 1)..((n - 1) + 1) /\ t[q] >= i
        BY <1>1, <1>2, <1>3
    <2>2. \A r \in (p + 1)..(q - 1) : t[r] < i
        BY <1>1, <1>2, <1>3
    <2> QED BY <2>1, <2>2 DEF NextUp
<1>4. ASSUME p < j, NEW u \in (j + 1)..(n + 1), u <= n => h[u] >= i,
             \A r \in (p + 1)..(u - 1) : r # j => h[r] < i
      PROVE  NextUp(t, n - 1, i, p, u - 1)
    <2>1. u - 1 \in (p + 1)..((n - 1) + 1)
        BY <1>4
    <2>2. u - 1 <= n - 1 => t[u - 1] >= i
        BY <1>1, <1>4
    <2>3. ASSUME NEW r \in (p + 1)..((u - 1) - 1) PROVE t[r] < i
        <3>1. CASE r < j
            <4>1. r \in 0..(j - 1) /\ r \in (p + 1)..(u - 1) /\ r # j
                BY <1>4, <3>1
            <4> QED BY <1>1, <1>4, <4>1
        <3>2. CASE ~(r < j)
            <4>1. r \in j..(n - 1) /\ r + 1 \in (p + 1)..(u - 1) /\ r + 1 # j
                BY <1>4, <3>2
            <4> QED BY <1>1, <1>4, <4>1
        <3> QED BY <3>1, <3>2
    <2> QED BY <2>1, <2>2, <2>3 DEF NextUp
<1>5. ASSUME p < j, q > j PROVE NextUp(t, n - 1, i, p, q - 1)
    <2>1. q \in (j + 1)..(n + 1)
        BY <1>2, <1>5
    <2> QED BY <1>2, <1>4, <1>5, <2>1
<1>6. ASSUME q = j, NEW r, NextUp(h, n, i, j, r) PROVE NextUp(t, n - 1, i, p, r - 1)
    <2>1. r \in (j + 1)..(n + 1) /\ (r <= n => h[r] >= i) /\ \A c \in (j + 1)..(r - 1) : h[c] < i
        BY <1>6 DEF NextUp
    <2>2. p < j
        BY <1>2, <1>6
    <2>3. ASSUME NEW c \in (p + 1)..(r - 1), c # j PROVE h[c] < i
        <3>1. c \in (p + 1)..(q - 1) \/ c \in (j + 1)..(r - 1)
            BY <1>6, <2>1, <2>3
        <3> QED BY <1>2, <2>1, <3>1
    <2> QED BY <1>4, <2>1, <2>2, <2>3
<1>7. ASSUME p > j PROVE NextUp(t, n - 1, i, p - 1, q - 1)
    <2>1. q - 1 \in ((p - 1) + 1)..((n - 1) + 1)
        BY <1>2
    <2>2. q - 1 <= n - 1 => t[q - 1] >= i
        <3>1. q <= n => q \in (j + 1)..n
            BY <1>2, <1>7
        <3> QED BY <1>1, <1>2, <3>1
    <2>3. ASSUME NEW r \in ((p - 1) + 1)..((q - 1) - 1) PROVE t[r] < i
        <3>1. r \in j..(n - 1) /\ r + 1 \in (p + 1)..(q - 1)
            BY <1>2, <1>7
        <3> QED BY <1>1, <1>2, <3>1
    <2> QED BY <2>1, <2>2, <2>3 DEF NextUp
<1> QED BY <1>3, <1>5, <1>6, <1>7 DEF t

(* As many values as places.                                               *)
LEMMA CountedIs ==
    ASSUME NEW n \in Nat, NEW e, \A p, q \in 1..n : e[p] = e[q] => p = q
    PROVE  /\ IsFiniteSet({e[p] : p \in 1..n})
           /\ Cardinality({e[p] : p \in 1..n}) = n
<1> DEFINE f == [p \in 1..n |-> e[p]]
           N == {e[p] : p \in 1..n}
<1>1. f \in Bijection(1..n, N)
    <2>1. f \in [1..n -> N] /\ \A p, q \in 1..n : f[p] = f[q] => p = q
        OBVIOUS
    <2>2. \A a \in N : \E p \in 1..n : f[p] = a
        OBVIOUS
    <2> HIDE DEF f, N
    <2> QED BY <2>1, <2>2 DEF Bijection, Injection, Surjection, IsInjective
<1> HIDE DEF f, N
<1>2. ExistsBijection(1..n, N)
    BY <1>1 DEF ExistsBijection
<1>3. IsFiniteSet(N) /\ Cardinality(N) = n
    BY <1>2, FS_CountingElements, FS_NatBijection
<1> QED BY <1>3 DEF N
=============================================================================
