----------------------------- MODULE AofProofs -----------------------------
(***************************************************************************)
(* What a restart makes of the store, for any strings, keys and values,    *)
(* and any cut of the file.                                                *)
(***************************************************************************)
EXTENDS Aof, DataProofs

-----------------------------------------------------------------------------
(* The bytes of commands.                                                  *)
Symbols(T) == ({"*"} \X Nat) \cup ({"$"} \X {0, 1}) \cup ({"s"} \X T) \cup {CRLF}

(* Parts of one length are found by counting.                              *)
LEMMA ChunksAre ==
    ASSUME NEW S, NEW p \in Seq(Seq(S)), NEW c \in {2, 4},
           \A i \in 1..Len(p) : Len(p[i]) = c
    PROVE  /\ FlattenSeq(p) \in Seq(S) /\ Len(FlattenSeq(p)) = c * Len(p)
           /\ \A j \in 1..Len(p), o \in 1..c : FlattenSeq(p)[c * (j - 1) + o] = p[j][o]
<1> DEFINE T == {k \in Nat : k \in 0..Len(p) => Len(Upto(p, k)) = c * k}
<1>0. Len(p) \in Nat /\ Len(p) \in 0..Len(p) /\ c \in Nat
    BY LenProperties
<1>1. 0 \in T
    <2>1. Upto(p, 0) = <<>>
        BY UptoIs
    <2>2. c * 0 = 0
        OBVIOUS
    <2> QED BY <2>1, <2>2
<1>2. ASSUME NEW k \in Nat, k \in T PROVE k + 1 \in T
    <2> SUFFICES ASSUME k + 1 \in 0..Len(p) PROVE Len(Upto(p, k + 1)) = c * (k + 1)
        OBVIOUS
    <2>1. k + 1 \in 1..Len(p) /\ k \in 0..Len(p) /\ (k + 1) - 1 = k
        BY <1>0
    <2>2. Upto(p, k + 1) = Upto(p, k) \o p[k + 1] /\ p[k + 1] \in Seq(S) /\ Upto(p, k) \in Seq(S)
        BY <2>1, UptoIs
    <2>3. Len(Upto(p, k)) = c * k /\ Len(p[k + 1]) = c
        BY <1>2, <2>1
    <2>4. Len(Upto(p, k + 1)) = c * k + c
        BY <2>2, <2>3, ConcatProperties
    <2> QED BY <2>4
<1>3. \A k \in Nat : k \in T
    <2> HIDE DEF T
    <2> QED BY <1>1, <1>2, Reached
<1>4. \A k \in 0..Len(p) : Len(Upto(p, k)) = c * k
    BY <1>3
<1>5. Len(FlattenSeq(p)) = c * Len(p) /\ FlattenSeq(p) \in Seq(S)
    BY <1>0, <1>4, UptoIs, FlattenType
<1>6. ASSUME NEW j \in 1..Len(p), NEW o \in 1..c
      PROVE  FlattenSeq(p)[c * (j - 1) + o] = p[j][o]
    <2> DEFINE i == c * (j - 1) + (o - 1)
    <2>1. j - 1 \in 0..Len(p) /\ j \in 0..Len(p)
        BY <1>0
    <2>2. Len(Upto(p, j - 1)) = c * (j - 1) /\ Len(Upto(p, j)) = c * j
        BY <1>4, <2>1
    <2>3. /\ i \in Nat /\ i - c * (j - 1) + 1 = o /\ i + 1 = c * (j - 1) + o
          /\ c * (j - 1) <= i /\ i < c * j
        <3>1. CASE c = 2
            BY <3>1, <2>1
        <3>2. CASE c = 4
            BY <3>2, <2>1
        <3> QED BY <3>1, <3>2
    <2> HIDE DEF i
    <2>4. p[j][i - Len(Upto(p, j - 1)) + 1] = FlattenSeq(p)[i + 1]
        BY <2>2, <2>3, PartHas
    <2> QED BY <2>2, <2>3, <2>4
<1> QED BY <1>5, <1>6

(* A command on the wire: what is where.                                   *)
LEMMA EncodeIs ==
    ASSUME NEW T, NEW t \in Seq(T)
    PROVE  /\ Encode(t) \in Seq(Symbols(T)) /\ Len(Encode(t)) = 2 + 4 * Len(t)
           /\ Encode(t)[1] = <<"*", Len(t)>>
           /\ \A j \in 1..Len(t) :
                /\ Encode(t)[4 * j - 1] = <<"$", IF t[j] = EmptyString THEN 0 ELSE 1>>
                /\ Encode(t)[4 * j + 1] = <<"s", t[j]>>
<1> DEFINE bulk(j) == << <<"$", IF t[j] = EmptyString THEN 0 ELSE 1>>, CRLF, <<"s", t[j]>>, CRLF >>
           p == [j \in DOMAIN t |-> bulk(j)]
           head == << <<"*", Len(t)>>, CRLF >>
           S == Symbols(T)
<1>1. Len(t) \in Nat /\ DOMAIN t = 1..Len(t) /\ \A j \in 1..Len(t) : t[j] \in T
    BY LenProperties, ElementOfSeq
<1>2. ASSUME NEW j \in 1..Len(t) PROVE bulk(j) \in Seq(S) /\ Len(bulk(j)) = 4
    <2>1. /\ <<"$", IF t[j] = EmptyString THEN 0 ELSE 1>> \in S
          /\ CRLF \in S /\ <<"s", t[j]>> \in S
        BY <1>1 DEF Symbols
    <2> HIDE DEF S
    <2> QED BY <2>1
<1>3. p \in Seq(Seq(S)) /\ Len(p) = Len(t) /\ \A j \in 1..Len(p) : p[j] = bulk(j) /\ Len(p[j]) = 4
    <2> HIDE DEF S, bulk
    <2> QED BY <1>1, <1>2
<1>4. head \in Seq(S) /\ Len(head) = 2 /\ head[1] = <<"*", Len(t)>>
    <2>1. <<"*", Len(t)>> \in S /\ CRLF \in S
        BY <1>1 DEF Symbols
    <2> HIDE DEF S
    <2> QED BY <2>1
<1>5. Encode(t) = head \o FlattenSeq(p)
    BY DEF Encode
<1> HIDE DEF p, head, S
<1>6. /\ FlattenSeq(p) \in Seq(S) /\ Len(FlattenSeq(p)) = 4 * Len(t)
      /\ \A j \in 1..Len(t), o \in 1..4 : FlattenSeq(p)[4 * (j - 1) + o] = p[j][o]
    <2>1. 4 \in {2, 4} /\ \A i \in 1..Len(p) : Len(p[i]) = 4
        BY <1>3
    <2>2. /\ FlattenSeq(p) \in Seq(S) /\ Len(FlattenSeq(p)) = 4 * Len(p)
          /\ \A j \in 1..Len(p), o \in 1..4 : FlattenSeq(p)[4 * (j - 1) + o] = p[j][o]
        BY <1>3, <2>1, ChunksAre
    <2> QED BY <1>3, <2>2
<1>7. /\ Encode(t) \in Seq(S) /\ Len(Encode(t)) = 2 + 4 * Len(t)
      /\ \A i \in 1..(2 + 4 * Len(t)) :
            Encode(t)[i] = IF i <= 2 THEN head[i] ELSE FlattenSeq(p)[i - 2]
    <2> DEFINE q == FlattenSeq(p)
    <2> HIDE DEF q
    <2>1. q \in Seq(S) /\ Len(q) = 4 * Len(t)
        BY <1>6 DEF q
    <2>2. /\ head \o q \in Seq(S) /\ Len(head \o q) = Len(head) + Len(q)
          /\ \A i \in 1..(Len(head) + Len(q)) :
                (head \o q)[i] = IF i <= Len(head) THEN head[i] ELSE q[i - Len(head)]
        BY <1>4, <2>1, ConcatProperties
    <2> QED BY <1>4, <1>5, <2>1, <2>2 DEF q
<1>8. Encode(t)[1] = <<"*", Len(t)>>
    BY <1>1, <1>4, <1>7
<1>9. ASSUME NEW j \in 1..Len(t)
      PROVE  /\ Encode(t)[4 * j - 1] = <<"$", IF t[j] = EmptyString THEN 0 ELSE 1>>
             /\ Encode(t)[4 * j + 1] = <<"s", t[j]>>
    <2>1. /\ 4 * j - 1 \in 1..(2 + 4 * Len(t)) /\ ~(4 * j - 1 <= 2)
          /\ (4 * j - 1) - 2 = 4 * (j - 1) + 1
          /\ 4 * j + 1 \in 1..(2 + 4 * Len(t)) /\ ~(4 * j + 1 <= 2)
          /\ (4 * j + 1) - 2 = 4 * (j - 1) + 3
        BY <1>1
    <2>2. Encode(t)[4 * j - 1] = p[j][1] /\ Encode(t)[4 * j + 1] = p[j][3]
        <3>1. /\ FlattenSeq(p)[4 * (j - 1) + 1] = p[j][1]
              /\ FlattenSeq(p)[4 * (j - 1) + 3] = p[j][3]
            BY <1>6
        <3> QED BY <1>7, <2>1, <3>1
    <2>3. p[j] = bulk(j)
        BY <1>3
    <2> QED BY <2>2, <2>3
<1> QED BY <1>7, <1>8, <1>9 DEF S

-----------------------------------------------------------------------------
(* What is read of bytes, whatever they are.                               *)
LEMMA LesserOfTwo ==
    ASSUME NEW a \in Int, NEW b \in Int
    PROVE  Min({a, b}) = IF a <= b THEN a ELSE b
<1> DEFINE m == IF a <= b THEN a ELSE b
<1>1. m \in {a, b} /\ \A y \in {a, b} : m <= y
    OBVIOUS
<1>2. ASSUME NEW x \in {a, b}, \A y \in {a, b} : x <= y PROVE x = m
    BY <1>2
<1> HIDE DEF m
<1>3. Min({a, b}) = m
    BY <1>1, <1>2 DEF Min
<1> QED BY <1>3 DEF m

(* Behind a command there are more bytes, or none.                         *)
LEMMA NextIs ==
    ASSUME NEW T, NEW f \in Seq(Symbols(T)), NEW i \in 1..Len(f), f[i][1] = "*"
    PROVE  /\ f[i][2] \in Nat /\ NextAt(f, i) \in (i + 1)..(Len(f) + 1)
           /\ NextAt(f, i) = IF i + 2 + 4 * f[i][2] <= Len(f) + 1
                             THEN i + 2 + 4 * f[i][2] ELSE Len(f) + 1
<1>1. Len(f) \in Nat /\ f[i] \in Symbols(T)
    BY LenProperties, ElementOfSeq
<1>2. f[i][2] \in Nat
    BY <1>1 DEF Symbols, CRLF
<1>3. i + 2 + 4 * f[i][2] \in Int /\ Len(f) + 1 \in Int
    BY <1>1, <1>2
<1>4. NextAt(f, i) = IF i + 2 + 4 * f[i][2] <= Len(f) + 1
                     THEN i + 2 + 4 * f[i][2] ELSE Len(f) + 1
    BY <1>3, LesserOfTwo DEF NextAt
<1> QED BY <1>1, <1>2, <1>4

(* What Decode finds at i, when at says what it finds behind i.            *)
Read(f, at, i) ==
    IF i = Len(f) + 1 THEN Outcome("ok", <<>>)
    ELSE IF f[i][1] # "*" THEN Outcome("error", <<>>)
    ELSE IF ~WholeAt(f, i) THEN Outcome("panic", <<>>)
    ELSE LET rest == at[NextAt(f, i)] IN
         Outcome(rest.kind, <<CommandAt(f, i)>> \o rest.cmds)

Payloads(f) == {f[p][2] : p \in 1..Len(f)} \cup {EmptyString}
Outcomes(f) == [kind : {"ok", "error", "panic"}, cmds : Seq(Seq(Payloads(f)))]

(* It looks behind i only.                                                 *)
LEMMA ReadIs ==
    ASSUME NEW T, NEW f \in Seq(Symbols(T)), NEW i \in 1..(Len(f) + 1),
           NEW at \in [1..(Len(f) + 1) -> Outcomes(f)], NEW bt,
           \A j \in (i + 1)..(Len(f) + 1) : at[j] = bt[j]
    PROVE  /\ Read(f, at, i) \in Outcomes(f) /\ Read(f, bt, i) = Read(f, at, i)
           /\ i # Len(f) + 1 /\ f[i][1] = "*" /\ WholeAt(f, i) =>
                Read(f, at, i) = Outcome(at[NextAt(f, i)].kind,
                                         <<CommandAt(f, i)>> \o at[NextAt(f, i)].cmds)
<1> DEFINE O == Outcomes(f)
           n == NextAt(f, i)
           c == CommandAt(f, i)
<1>1. Len(f) \in Nat
    BY LenProperties
<1>2. ASSUME NEW x \in Seq(Seq(Payloads(f))), NEW k \in {"ok", "error", "panic"}
      PROVE  Outcome(k, x) \in O
    BY DEF Outcome, Outcomes
<1>3. ASSUME i # Len(f) + 1, f[i][1] = "*"
      PROVE  /\ at[n] \in O /\ bt[n] = at[n] /\ c \in Seq(Payloads(f))
             /\ Outcome(at[n].kind, <<c>> \o at[n].cmds) \in O
    <2>1. i \in 1..Len(f)
        BY <1>1, <1>3
    <2>2. f[i][2] \in Nat /\ n \in (i + 1)..(Len(f) + 1)
        BY <1>3, <2>1, NextIs
    <2>3. n \in 1..(Len(f) + 1)
        BY <1>1, <2>2
    <2>4. at[n] \in O /\ bt[n] = at[n]
        BY <2>2, <2>3
    <2>5. ASSUME NEW j \in 1..f[i][2] PROVE StringAt(f, i + 4 * j) \in Payloads(f)
        <3>1. i + 4 * j \in Nat /\ i + 4 * j >= 1
            BY <1>1, <2>2
        <3>2. i + 4 * j <= Len(f) => i + 4 * j \in 1..Len(f)
            BY <1>1, <3>1
        <3> QED BY <3>2 DEF StringAt, Payloads
    <2>6. c \in Seq(Payloads(f))
        <3>1. c \in [1..f[i][2] -> Payloads(f)]
            BY <2>5 DEF CommandAt
        <3> HIDE DEF c
        <3> QED BY <2>2, <3>1
    <2> HIDE DEF n, c
    <2>7. /\ at[n].kind \in {"ok", "error", "panic"} /\ at[n].cmds \in Seq(Seq(Payloads(f)))
          /\ at[n] = [kind |-> at[n].kind, cmds |-> at[n].cmds]
        BY <2>4 DEF Outcomes
    <2>8. <<c>> \o at[n].cmds \in Seq(Seq(Payloads(f)))
        <3>1. <<c>> \in Seq(Seq(Payloads(f)))
            BY <2>6
        <3> QED BY <2>7, <3>1, ConcatProperties
    <2> QED BY <1>2, <2>4, <2>6, <2>7, <2>8
<1>4. <<>> \in Seq(Seq(Payloads(f)))
    OBVIOUS
<1>5. Outcome("ok", <<>>) \in O /\ Outcome("error", <<>>) \in O /\ Outcome("panic", <<>>) \in O
    BY <1>2, <1>4
<1> HIDE DEF O
<1> QED BY <1>3, <1>5 DEF Read, O

(* Decode reads from the first byte on.                                    *)
LEMMA DecodeIs ==
    ASSUME NEW T, NEW f \in Seq(Symbols(T))
    PROVE  \E at \in [1..(Len(f) + 1) -> Outcomes(f)] :
              /\ \A i \in 1..(Len(f) + 1) : at[i] = Read(f, at, i)
              /\ Decode(f) = at[1]
<1> DEFINE n == Len(f) + 1
           F == [1..n -> Outcomes(f)]
           K == {k \in Nat : k \in 0..n => \E at \in F : \A i \in (n + 1 - k)..n : at[i] = Read(f, at, i)}
<1>0. n \in Nat \ {0} /\ Len(f) + 1 = n
    BY LenProperties
<1>1. 0 \in K
    <2>1. <<>> \in Seq(Seq(Payloads(f)))
        OBVIOUS
    <2>2. Outcome("ok", <<>>) \in Outcomes(f)
        BY <2>1 DEF Outcome, Outcomes
    <2>3. [i \in 1..n |-> Outcome("ok", <<>>)] \in F
        BY <2>2
    <2>4. \A i \in (n + 1 - 0)..n : FALSE
        BY <1>0
    <2> QED BY <2>3, <2>4
<1>2. ASSUME NEW k \in Nat, k \in K PROVE k + 1 \in K
    <2> SUFFICES ASSUME k + 1 \in 0..n
                 PROVE  \E at \in F : \A i \in (n + 1 - (k + 1))..n : at[i] = Read(f, at, i)
        OBVIOUS
    <2>1. PICK bt \in F : \A i \in (n + 1 - k)..n : bt[i] = Read(f, bt, i)
        BY <1>0, <1>2
    <2> DEFINE m == n - k
               at == [bt EXCEPT ![m] = Read(f, bt, m)]
    <2>2. m \in 1..n /\ n + 1 - (k + 1) = m /\ n + 1 - k = m + 1
        BY <1>0
    <2> HIDE DEF m
    <2>3. Read(f, bt, m) \in Outcomes(f)
        <3>1. m \in 1..(Len(f) + 1) /\ bt \in [1..(Len(f) + 1) -> Outcomes(f)]
            BY <1>0, <2>1, <2>2
        <3>2. \A j \in (m + 1)..(Len(f) + 1) : bt[j] = bt[j]
            OBVIOUS
        <3> QED BY <3>1, <3>2, ReadIs
    <2>4. at \in F
        BY <2>3
    <2>5. ASSUME NEW i \in m..n PROVE at[i] = Read(f, at, i)
        <3>1. i \in 1..n /\ \A j \in (i + 1)..n : j \in 1..n /\ j # m
            BY <1>0, <2>2
        <3>2. \A j \in (i + 1)..(Len(f) + 1) : bt[j] = at[j]
            BY <3>1
        <3> HIDE DEF at
        <3>3. Read(f, at, i) = Read(f, bt, i)
            BY <1>0, <2>1, <3>1, <3>2, ReadIs
        <3>4. at[i] = Read(f, bt, i)
            <4>1. CASE i = m
                BY <2>2, <4>1 DEF at
            <4>2. CASE i # m
                <5>1. i \in (m + 1)..n
                    BY <1>0, <2>2, <4>2
                <5>2. bt[i] = Read(f, bt, i)
                    BY <2>1, <2>2, <5>1
                <5> QED BY <3>1, <4>2, <5>2 DEF at
            <4> QED BY <4>1, <4>2
        <3> QED BY <3>3, <3>4
    <2> HIDE DEF at
    <2> QED BY <2>2, <2>4, <2>5
<1>3. \A k \in Nat : k \in K
    <2> HIDE DEF K
    <2> QED BY <1>1, <1>2, Reached
<1>4. PICK at \in F : \A i \in 1..n : at[i] = Read(f, at, i)
    <2>1. n \in K /\ n \in 0..n /\ n + 1 - n = 1
        BY <1>0, <1>3
    <2> QED BY <2>1
<1> DEFINE Reading(g) == g = [i \in 1..n |-> Read(f, g, i)]
<1>5. Reading(at)
    BY <1>4
<1>6. Decode(f) = (CHOOSE g : Reading(g))[1]
    BY DEF Decode, Read
<1> DEFINE gt == CHOOSE g : Reading(g)
<1>7. Reading(gt)
    <2> HIDE DEF Reading
    <2> QED BY <1>5
<1> HIDE DEF gt
<1> DEFINE D == {k \in Nat : k \in 0..n => \A i \in (n + 1 - k)..n : gt[i] = at[i]}
<1>8. 0 \in D
    BY <1>0
<1>9. ASSUME NEW k \in Nat, k \in D PROVE k + 1 \in D
    <2> SUFFICES ASSUME k + 1 \in 0..n
                 PROVE  \A i \in (n + 1 - (k + 1))..n : gt[i] = at[i]
        OBVIOUS
    <2> DEFINE m == n - k
    <2>1. m \in 1..n /\ n + 1 - (k + 1) = m /\ n + 1 - k = m + 1
        BY <1>0
    <2>2. \A i \in (m + 1)..n : at[i] = gt[i]
        BY <1>0, <1>9, <2>1
    <2> HIDE DEF m
    <2>3. Read(f, gt, m) = Read(f, at, m)
        BY <1>0, <1>4, <2>1, <2>2, ReadIs
    <2>4. gt[m] = Read(f, gt, m)
        BY <1>7, <2>1
    <2>5. at[m] = Read(f, at, m)
        BY <1>4, <2>1
    <2>6. \A i \in m..n : i = m \/ i \in (m + 1)..n
        BY <1>0, <2>1
    <2> QED BY <2>1, <2>2, <2>3, <2>4, <2>5, <2>6
<1>10. gt[1] = at[1]
    <2>1. \A k \in Nat : k \in D
        <3> HIDE DEF D
        <3> QED BY <1>8, <1>9, Reached
    <2>2. n \in D /\ n \in 0..n /\ n + 1 - n = 1 /\ 1 \in 1..n
        BY <1>0, <2>1
    <2> QED BY <2>2
<1> QED BY <1>4, <1>6, <1>10 DEF gt

-----------------------------------------------------------------------------
(* Where the i-th command of a file ends.                                  *)
End(cmds, i) == Len(EncodeAll(SubSeq(cmds, 1, i)))

Commands(T) == {cmds \in Seq(Seq(T)) : \A i \in 1..Len(cmds) : Len(cmds[i]) # 0}

LEMMA PartsAre ==
    ASSUME NEW T, NEW cmds \in Seq(Seq(T))
    PROVE  \E p \in Seq(Seq(Symbols(T))) :
              /\ Len(p) = Len(cmds) /\ \A i \in 1..Len(cmds) : p[i] = Encode(cmds[i])
              /\ \A i \in 0..Len(cmds) : EncodeAll(SubSeq(cmds, 1, i)) = Upto(p, i)
              /\ EncodeAll(cmds) = FlattenSeq(p)
<1> DEFINE S == Symbols(T)
           p == [i \in DOMAIN cmds |-> Encode(cmds[i])]
<1>1. Len(cmds) \in Nat /\ DOMAIN cmds = 1..Len(cmds) /\ \A i \in 1..Len(cmds) : cmds[i] \in Seq(T)
    BY LenProperties, ElementOfSeq
<1>2. \A i \in 1..Len(cmds) : Encode(cmds[i]) \in Seq(S)
    BY <1>1, EncodeIs
<1> HIDE DEF S
<1>3. p \in Seq(Seq(S)) /\ Len(p) = Len(cmds) /\ \A i \in 1..Len(cmds) : p[i] = Encode(cmds[i])
    BY <1>1, <1>2
<1>4. ASSUME NEW i \in 0..Len(cmds) PROVE EncodeAll(SubSeq(cmds, 1, i)) = Upto(p, i)
    <2> DEFINE c == SubSeq(cmds, 1, i)
               q == [j \in DOMAIN c |-> Encode(c[j])]
    <2>1. i \in Nat /\ i <= Len(cmds) /\ i <= Len(p)
        BY <1>1, <1>3
    <2>2. c \in Seq(Seq(T)) /\ Len(c) = i /\ \A j \in 1..i : c[j] = cmds[j]
        BY <2>1, FrontIs
    <2> HIDE DEF p
    <2>3. SubSeq(p, 1, i) \in Seq(Seq(S)) /\ Len(SubSeq(p, 1, i)) = i
          /\ \A j \in 1..i : SubSeq(p, 1, i)[j] = p[j]
        BY <1>3, <2>1, FrontIs
    <2>4. EncodeAll(SubSeq(cmds, 1, i)) = FlattenSeq(q)
        BY DEF EncodeAll
    <2> HIDE DEF c
    <2>5. DOMAIN c = 1..i /\ \A j \in 1..i : j \in 1..Len(cmds)
        BY <1>1, <2>1, <2>2, LenProperties
    <2>6. q \in Seq(Seq(S)) /\ Len(q) = i /\ \A j \in 1..i : q[j] = p[j]
        <3>1. \A j \in 1..i : Encode(c[j]) = p[j] /\ p[j] \in Seq(S)
            BY <1>2, <1>3, <2>2, <2>5
        <3>2. q \in [1..i -> Seq(S)]
            BY <2>5, <3>1
        <3>3. \A j \in 1..i : q[j] = p[j]
            BY <2>5, <3>1
        <3> HIDE DEF q
        <3> QED BY <2>1, <3>2, <3>3
    <2> HIDE DEF q
    <2>7. q = SubSeq(p, 1, i)
        <3>1. Len(q) = Len(SubSeq(p, 1, i)) /\ \A j \in 1..Len(q) : q[j] = SubSeq(p, 1, i)[j]
            BY <2>3, <2>6
        <3> QED BY ONLY <2>3, <2>6, <3>1, SeqEqual
    <2> QED BY <2>4, <2>7 DEF Upto
<1>5. EncodeAll(cmds) = FlattenSeq(p)
    BY DEF EncodeAll
<1> HIDE DEF p
<1> QED BY <1>3, <1>4, <1>5 DEF S

(* Commands lie behind one another.                                        *)
LEMMA EndsAre ==
    ASSUME NEW T, NEW cmds \in Seq(Seq(T))
    PROVE  /\ EncodeAll(cmds) \in Seq(Symbols(T))
           /\ \A i \in 0..Len(cmds) : End(cmds, i) \in Nat /\ End(cmds, i) <= Len(EncodeAll(cmds))
           /\ End(cmds, 0) = 0 /\ End(cmds, Len(cmds)) = Len(EncodeAll(cmds))
           /\ \A j \in 1..Len(cmds) :
                /\ End(cmds, j) = End(cmds, j - 1) + 2 + 4 * Len(cmds[j])
                /\ \A o \in 1..(2 + 4 * Len(cmds[j])) :
                      EncodeAll(cmds)[End(cmds, j - 1) + o] = Encode(cmds[j])[o]
           /\ \A i \in 0..Len(cmds) : \A o \in 1..End(cmds, i) :
                EncodeAll(SubSeq(cmds, 1, i))[o] = EncodeAll(cmds)[o]
<1>1. PICK p \in Seq(Seq(Symbols(T))) :
              /\ Len(p) = Len(cmds) /\ \A i \in 1..Len(cmds) : p[i] = Encode(cmds[i])
              /\ \A i \in 0..Len(cmds) : EncodeAll(SubSeq(cmds, 1, i)) = Upto(p, i)
              /\ EncodeAll(cmds) = FlattenSeq(p)
    BY PartsAre
<1> DEFINE S == Symbols(T)
           all == EncodeAll(cmds)
<1>2. Len(cmds) \in Nat /\ \A i \in 1..Len(cmds) : cmds[i] \in Seq(T)
    BY LenProperties, ElementOfSeq
<1>3. all \in Seq(S)
    BY <1>1, FlattenType
<1>4. \A i \in 0..Len(cmds) : Upto(p, i) \in Seq(S) /\ End(cmds, i) = Len(Upto(p, i)) /\ End(cmds, i) \in Nat
    <2>1. \A i \in 0..Len(cmds) : Upto(p, i) \in Seq(S)
        BY <1>1, UptoIs
    <2> HIDE DEF S
    <2> QED BY <1>1, <2>1, LenProperties DEF End
<1>5. \A i \in 0..Len(cmds) : End(cmds, i) <= Len(all)
                               /\ \A o \in 1..End(cmds, i) : all[o] = Upto(p, i)[o]
    BY <1>1, <1>4, UptoFirst
<1>6. End(cmds, 0) = 0 /\ End(cmds, Len(cmds)) = Len(all)
    <2>1. Upto(p, 0) = <<>> /\ Upto(p, Len(p)) = FlattenSeq(p)
        BY UptoIs
    <2> QED BY <1>1, <1>2, <1>4, <2>1
<1>7. ASSUME NEW j \in 1..Len(cmds)
      PROVE  /\ End(cmds, j) = End(cmds, j - 1) + 2 + 4 * Len(cmds[j])
             /\ \A o \in 1..(2 + 4 * Len(cmds[j])) : all[End(cmds, j - 1) + o] = Encode(cmds[j])[o]
    <2>1. j - 1 \in 0..Len(cmds) /\ j \in 0..Len(cmds) /\ j \in 1..Len(p)
        BY <1>1, <1>2
    <2> DEFINE L == Len(cmds[j])
    <2>2. p[j] = Encode(cmds[j]) /\ p[j] \in Seq(S) /\ Len(p[j]) = 2 + 4 * L /\ L \in Nat
        <3>1. p[j] = Encode(cmds[j]) /\ cmds[j] \in Seq(T)
            BY <1>1, <1>2
        <3>2. Encode(cmds[j]) \in Seq(S) /\ Len(Encode(cmds[j])) = 2 + 4 * Len(cmds[j])
            BY <3>1, EncodeIs
        <3> QED BY <3>1, <3>2, LenProperties
    <2>3. Upto(p, j) = Upto(p, j - 1) \o p[j]
        BY <2>1, UptoIs
    <2> HIDE DEF L, S, all
    <2>4. Len(Upto(p, j)) = Len(Upto(p, j - 1)) + Len(p[j])
        <3>1. Upto(p, j - 1) \in Seq(S) /\ p[j] \in Seq(S)
            BY <1>4, <2>1, <2>2
        <3> QED BY <2>3, <3>1, ConcatProperties
    <2>5. /\ End(cmds, j) = End(cmds, j - 1) + 2 + 4 * L
          /\ End(cmds, j - 1) \in Nat /\ End(cmds, j - 1) = Len(Upto(p, j - 1))
          /\ End(cmds, j) = Len(Upto(p, j))
        <3>1. /\ End(cmds, j) = Len(Upto(p, j)) /\ End(cmds, j - 1) = Len(Upto(p, j - 1))
              /\ End(cmds, j - 1) \in Nat
            BY <1>4, <2>1
        <3>2. L \in Nat /\ Len(p[j]) = 2 + 4 * L
            BY <2>2
        <3>3. ASSUME NEW a, NEW b \in Nat, NEW c, a = b + c, c = 2 + 4 * L, L \in Nat
              PROVE  a = b + 2 + 4 * L
            BY ONLY <3>3
        <3>4. Len(Upto(p, j)) = Len(Upto(p, j - 1)) + 2 + 4 * L
            BY ONLY <2>4, <3>1, <3>2, <3>3
        <3> QED BY ONLY <3>1, <3>4
    <2>6. ASSUME NEW o \in 1..(2 + 4 * L)
          PROVE  all[End(cmds, j - 1) + o] = Encode(cmds[j])[o]
        <3> DEFINE i == End(cmds, j - 1) + o - 1
        <3>1. /\ i \in Nat /\ i + 1 = End(cmds, j - 1) + o /\ i - End(cmds, j - 1) + 1 = o
              /\ End(cmds, j - 1) <= i /\ i < End(cmds, j)
            <4>1. L \in Nat
                BY <2>2
            <4> QED BY ONLY SMTT(30), <2>5, <4>1, o \in 1..(2 + 4 * L)
        <3> HIDE DEF i
        <3>2. Len(Upto(p, j - 1)) <= i /\ i < Len(Upto(p, j))
            BY <2>5, <3>1
        <3>3. p[j][i - Len(Upto(p, j - 1)) + 1] = FlattenSeq(p)[i + 1]
            BY <2>1, <3>1, <3>2, PartHas
        <3> QED BY <1>1, <2>2, <2>5, <3>1, <3>3 DEF all
    <2> QED BY <2>5, <2>6 DEF L
<1> QED BY <1>1, <1>3, <1>4, <1>5, <1>6, <1>7

(* A command that ends behind another ends later.                          *)
LEMMA EndsGrow ==
    ASSUME NEW T, NEW cmds \in Seq(Seq(T)), NEW i \in 0..Len(cmds), NEW j \in 0..Len(cmds), i < j
    PROVE  End(cmds, i) < End(cmds, j)
<1> DEFINE K == {k \in Nat : i + 1 + k <= Len(cmds) => End(cmds, i) < End(cmds, i + 1 + k)}
<1>1. Len(cmds) \in Nat /\ \A k \in 1..Len(cmds) : Len(cmds[k]) \in Nat
    BY LenProperties, ElementOfSeq
<1>2. ASSUME NEW k \in 1..Len(cmds)
      PROVE  End(cmds, k - 1) < End(cmds, k) /\ End(cmds, k) \in Nat /\ End(cmds, k - 1) \in Nat
    <2>1. k \in 0..Len(cmds) /\ k - 1 \in 0..Len(cmds)
        BY <1>1
    <2>2. End(cmds, k) = End(cmds, k - 1) + 2 + 4 * Len(cmds[k])
        BY EndsAre
    <2>3. End(cmds, k) \in Nat /\ End(cmds, k - 1) \in Nat
        BY <2>1, EndsAre
    <2> QED BY <1>1, <2>2, <2>3
<1>3. 0 \in K
    <2> SUFFICES ASSUME i + 1 + 0 <= Len(cmds) PROVE End(cmds, i) < End(cmds, i + 1 + 0)
        OBVIOUS
    <2>1. i + 1 \in 1..Len(cmds) /\ (i + 1) - 1 = i /\ i + 1 + 0 = i + 1
        BY <1>1
    <2> QED BY <1>2, <2>1
<1>4. ASSUME NEW k \in Nat, k \in K PROVE k + 1 \in K
    <2> SUFFICES ASSUME i + 1 + (k + 1) <= Len(cmds) PROVE End(cmds, i) < End(cmds, i + 1 + (k + 1))
        OBVIOUS
    <2> DEFINE m == i + 1 + (k + 1)
    <2>1. m \in 1..Len(cmds) /\ m - 1 = i + 1 + k /\ i + 1 + k <= Len(cmds) /\ i + 1 \in 1..Len(cmds)
        BY <1>1
    <2>2. End(cmds, i) < End(cmds, m - 1)
        BY <1>4, <2>1
    <2> HIDE DEF m
    <2>3. End(cmds, i) \in Nat
        BY <1>2, EndsAre
    <2> QED BY <1>2, <2>1, <2>2, <2>3 DEF m
<1>5. \A k \in Nat : k \in K
    <2> HIDE DEF K
    <2> QED BY <1>3, <1>4, Reached
<1> DEFINE d == j - i - 1
<1>6. d \in Nat /\ i + 1 + d = j /\ j <= Len(cmds)
    BY <1>1
<1> HIDE DEF d
<1> QED BY <1>5, <1>6

Understood(cmds, n, f, j, i) ==
    /\ i \in 1..Len(f) /\ f[i][1] = "*"
    /\ n >= End(cmds, j) => WholeAt(f, i)
    /\ WholeAt(f, i) =>
        /\ CommandAt(f, i) = cmds[j]
        /\ NextAt(f, i) = IF n >= End(cmds, j) THEN End(cmds, j) + 1 ELSE Len(f) + 1

(* One command of a file that may be cut: it is read as it was written, or *)
(* it is not there to its end, which is found out.                         *)
LEMMA CommandIs ==
    ASSUME NEW T, NEW cmds \in Commands(T), NEW n \in 0..Len(EncodeAll(cmds)),
           NEW f, f = SubSeq(EncodeAll(cmds), 1, n),
           NEW j \in 1..Len(cmds), End(cmds, j - 1) < n,
           NEW i, i = End(cmds, j - 1) + 1
    PROVE  Understood(cmds, n, f, j, i)
<1> DEFINE all == EncodeAll(cmds)
           S == Symbols(T)
           b == End(cmds, j - 1)
           e == End(cmds, j)
           t == cmds[j]
           L == Len(t)
           code == Encode(t)
<1>1. cmds \in Seq(Seq(T)) /\ \A k \in 1..Len(cmds) : Len(cmds[k]) # 0
    BY DEF Commands
<1>2. t \in Seq(T) /\ L \in Nat \ {0} /\ Len(cmds) \in Nat
    <2>1. t \in Seq(T) /\ Len(cmds) \in Nat /\ Len(t) # 0
        BY <1>1, LenProperties, ElementOfSeq
    <2> QED BY <2>1, LenProperties
<1>3. /\ code[1] = <<"*", L>>
      /\ \A k \in 1..L : /\ code[4 * k - 1] = <<"$", IF t[k] = EmptyString THEN 0 ELSE 1>>
                         /\ code[4 * k + 1] = <<"s", t[k]>>
    BY <1>2, EncodeIs
<1>4. all \in Seq(S)
    BY <1>1, EndsAre
<1>5. /\ e = b + 2 + 4 * L
      /\ \A o \in 1..(2 + 4 * L) : all[b + o] = code[o]
    BY <1>1, EndsAre
<1>6. b \in Nat /\ e \in Nat
    <2>1. j - 1 \in 0..Len(cmds) /\ j \in 0..Len(cmds)
        BY <1>2
    <2> QED BY <1>1, <2>1, EndsAre
<1>7. f \in Seq(S) /\ Len(f) = n /\ n \in Nat /\ \A k \in 1..n : f[k] = all[k]
    <2>1. n \in Nat /\ n <= Len(all)
        BY <1>4, LenProperties
    <2> HIDE DEF all, S
    <2> QED BY <1>4, <2>1, FrontIs DEF all
<1>8. b < n /\ i = b + 1
    OBVIOUS
<1> HIDE DEF all, S, b, e, L, code
<1>9. ASSUME NEW o \in 1..(2 + 4 * L), b + o <= n PROVE f[b + o] = code[o]
    <2>1. b + o \in 1..n
        BY <1>2, <1>6, <1>7, <1>9
    <2> QED BY <1>5, <1>7, <2>1
<1>10. i \in 1..Len(f) /\ f[i] = <<"*", L>> /\ f[i][1] = "*" /\ f[i][2] = L
    <2>1. i \in 1..Len(f) /\ 1 \in 1..(2 + 4 * L) /\ b + 1 <= n
        BY <1>2, <1>6, <1>7, <1>8
    <2>2. f[b + 1] = code[1]
        BY <1>9, <2>1
    <2>3. f[i] = <<"*", L>>
        BY <1>3, <1>8, <2>2
    <2> QED BY <2>1, <2>3
<1>11. ASSUME NEW k \in 1..L
       PROVE  /\ i + 4 * k \in Nat /\ i + 4 * k = b + (4 * k + 1) /\ (i + 4 * k) - 2 = b + (4 * k - 1)
              /\ i + 4 * k <= e - 1 /\ i + 4 * k >= 3
              /\ 4 * k + 1 \in 1..(2 + 4 * L) /\ 4 * k - 1 \in 1..(2 + 4 * L)
    <2>1. L \in Nat /\ e = b + 2 + 4 * L /\ b \in Nat /\ i = b + 1 /\ k \in 1..L
        BY <1>2, <1>5, <1>6, <1>8
    <2> QED BY ONLY <2>1
<1>12. ASSUME NEW k \in 1..L, i + 4 * k <= n
       PROVE  Readable(f, i + 4 * k) /\ StringAt(f, i + 4 * k) = t[k]
    <2> DEFINE q == i + 4 * k
    <2>1. f[q] = <<"s", t[k]>>
        <3>1. f[b + (4 * k + 1)] = code[4 * k + 1]
            BY <1>9, <1>11, <1>12
        <3> QED BY <1>3, <1>11, <3>1
    <2>2. q \in Nat /\ q <= n /\ Len(f) = n /\ n \in Nat
        BY <1>7, <1>11, <1>12
    <2> HIDE DEF q, t
    <2>3. Readable(f, q) /\ StringAt(f, q) = t[k]
        BY ONLY <2>1, <2>2 DEF Readable, StringAt
    <2> QED BY <2>3 DEF q, t
<1>13. ASSUME NEW k \in 1..L, i + 4 * k > n, Readable(f, i + 4 * k)
       PROVE  StringAt(f, i + 4 * k) = t[k]
    <2> DEFINE q == i + 4 * k
    <2>1. q \in Nat /\ q > n /\ q = b + (4 * k + 1) /\ q - 2 = b + (4 * k - 1)
        BY <1>11, <1>13
    <2> HIDE DEF q
    <2>2. n = q - 1 /\ f[q - 2] = <<"$", 0>>
        <3>1. Readable(f, q)
            BY <1>13 DEF q
        <3>2. ~(Len(f) >= q) /\ Len(f) = n
            BY <1>7, <2>1
        <3>3. Len(f) = q - 1 /\ f[q - 2] = <<"$", 0>>
            BY ONLY <3>1, <3>2 DEF Readable
        <3> QED BY <3>2, <3>3
    <2>3. f[b + (4 * k - 1)] = code[4 * k - 1]
        <3>1. 4 * k - 1 \in 1..(2 + 4 * L)
            BY <1>11
        <3>2. b + (4 * k - 1) <= n
            BY <1>7, <2>1, <2>2
        <3> QED BY <1>9, <3>1, <3>2
    <2>4. <<"$", 0>> = <<"$", IF t[k] = EmptyString THEN 0 ELSE 1>>
        BY <1>3, <2>1, <2>2, <2>3
    <2>5. t[k] = EmptyString
        BY <2>4
    <2>6. StringAt(f, q) = EmptyString
        BY <1>7, <2>1 DEF StringAt
    <2> QED BY <2>5, <2>6 DEF q
<1>14. n >= e => WholeAt(f, i)
    <2> SUFFICES ASSUME n >= e, NEW k \in 1..f[i][2] PROVE Readable(f, i + 4 * k)
        BY DEF WholeAt
    <2>1. k \in 1..L
        BY <1>10
    <2>2. i + 4 * k <= n
        BY SMTT(30), <1>6, <1>7, <1>11, <2>1
    <2> QED BY <1>12, <2>1, <2>2
<1>15. ASSUME WholeAt(f, i) PROVE CommandAt(f, i) = t
    <2>1. \A k \in 1..L : StringAt(f, i + 4 * k) = t[k]
        <3> SUFFICES ASSUME NEW k \in 1..L PROVE StringAt(f, i + 4 * k) = t[k]
            OBVIOUS
        <3>1. Readable(f, i + 4 * k)
            BY <1>10, <1>15 DEF WholeAt
        <3>2. i + 4 * k <= n \/ i + 4 * k > n
            BY <1>7, <1>11
        <3> QED BY <1>12, <1>13, <3>1, <3>2
    <2>2. CommandAt(f, i) = [k \in 1..L |-> StringAt(f, i + 4 * k)]
        BY <1>10 DEF CommandAt
    <2>3. t = [k \in 1..L |-> t[k]]
        <3> HIDE DEF t
        <3> QED BY <1>2 DEF L
    <2> QED BY <2>1, <2>2, <2>3
<1>16. NextAt(f, i) = IF n >= e THEN e + 1 ELSE Len(f) + 1
    <2>1. NextAt(f, i) = IF i + 2 + 4 * f[i][2] <= Len(f) + 1
                         THEN i + 2 + 4 * f[i][2] ELSE Len(f) + 1
        BY <1>7, <1>10, NextIs DEF S
    <2>2. i + 2 + 4 * f[i][2] = e + 1
        <3>1. L \in Nat /\ e = b + 2 + 4 * L /\ b \in Nat /\ i = b + 1 /\ f[i][2] = L
            BY <1>2, <1>5, <1>6, <1>8, <1>10
        <3> QED BY ONLY <3>1
    <2>3. i + 2 + 4 * f[i][2] <= Len(f) + 1 <=> n >= e
        <3>1. e \in Nat /\ n \in Nat /\ Len(f) = n
            BY <1>6, <1>7
        <3> QED BY ONLY <2>2, <3>1
    <2> QED BY <2>1, <2>2, <2>3
<1> QED BY <1>10, <1>14, <1>15, <1>16 DEF b, e, Understood

(* A whole file is decoded to its commands; a cut one to those it has the  *)
(* strings of, and only if it does not end inside one of these.            *)
LEMMA CutFileIs ==
    ASSUME NEW T, NEW cmds \in Commands(T), NEW n \in 0..Len(EncodeAll(cmds)),
           NEW f, f = SubSeq(EncodeAll(cmds), 1, n)
    PROVE  /\ Decode(f).kind \in {"ok", "panic"}
           /\ Decode(f).kind = "ok" =>
                \E i \in 0..Len(cmds) : Decode(f).cmds = SubSeq(cmds, 1, i) /\ n <= End(cmds, i)
           /\ \A i \in 0..Len(cmds) : n = End(cmds, i) => Decode(f).kind = "ok"
<1> DEFINE all == EncodeAll(cmds)
           S == Symbols(T)
           m == Len(cmds)
<1>1. cmds \in Seq(Seq(T)) /\ m \in Nat
    BY LenProperties DEF Commands
<1>2. all \in Seq(S) /\ Len(all) \in Nat
    BY <1>1, EndsAre, LenProperties
<1>3. f \in Seq(S) /\ Len(f) = n /\ n \in Nat /\ n <= Len(all)
    <2>1. n \in Nat /\ n <= Len(all)
        BY <1>2
    <2> HIDE DEF all, S
    <2> QED BY <1>2, <2>1, FrontIs DEF all
<1>4. PICK at \in [1..(Len(f) + 1) -> Outcomes(f)] :
          /\ \A i \in 1..(Len(f) + 1) : at[i] = Read(f, at, i)
          /\ Decode(f) = at[1]
    <2> HIDE DEF S
    <2> QED BY <1>3, DecodeIs DEF S
<1>5. \A i \in 0..m : End(cmds, i) \in Nat
    BY <1>1, EndsAre
<1> HIDE DEF all, S
<1> DEFINE Q(j) == /\ at[End(cmds, j) + 1].kind = at[1].kind
                   /\ at[1].cmds = SubSeq(cmds, 1, j) \o at[End(cmds, j) + 1].cmds
           K == {k \in Nat : k \in 0..m /\ End(cmds, k) <= n => Q(k)}
<1>6. \A i \in 1..(n + 1) : at[i] \in Outcomes(f) /\ at[i].cmds \in Seq(Seq(Payloads(f)))
    BY <1>3, <1>4 DEF Outcomes
<1>7. 0 \in K
    <2>1. End(cmds, 0) = 0 /\ SubSeq(cmds, 1, 0) = <<>> /\ 0 + 1 = 1 /\ 1 \in 1..(n + 1)
        <3>1. End(cmds, 0) = 0
            BY <1>1, EndsAre
        <3>2. SubSeq(cmds, 1, 0) = <<>>
            BY <1>1
        <3> QED BY <1>3, <3>1, <3>2
    <2>2. <<>> \o at[1].cmds = at[1].cmds
        BY <1>6, <2>1, ConcatEmptySeq
    <2> QED BY <2>1, <2>2
<1>8. ASSUME NEW j \in 1..m, End(cmds, j - 1) < n
      PROVE  LET i == End(cmds, j - 1) + 1
                 more == at[IF n >= End(cmds, j) THEN End(cmds, j) + 1 ELSE n + 1] IN
             /\ n >= End(cmds, j) => WholeAt(f, i)
             /\ ~WholeAt(f, i) => at[i] = Outcome("panic", <<>>)
             /\ WholeAt(f, i) => at[i] = Outcome(more.kind, <<cmds[j]>> \o more.cmds)
    <2> DEFINE i == End(cmds, j - 1) + 1
    <2>1. /\ i \in 1..Len(f) /\ f[i][1] = "*"
          /\ n >= End(cmds, j) => WholeAt(f, i)
          /\ WholeAt(f, i) =>
                /\ CommandAt(f, i) = cmds[j]
                /\ NextAt(f, i) = IF n >= End(cmds, j) THEN End(cmds, j) + 1 ELSE Len(f) + 1
        <3>1. Understood(cmds, n, f, j, i)
            BY <1>8, CommandIs
        <3> QED BY <3>1 DEF Understood
    <2> HIDE DEF i
    <2>2. i \in 1..(Len(f) + 1) /\ i # Len(f) + 1
        BY <1>3, <2>1
    <2>3. at[i] = Read(f, at, i)
        BY <1>4, <2>2
    <2>4. ~WholeAt(f, i) => at[i] = Outcome("panic", <<>>)
        BY <2>1, <2>2, <2>3 DEF Read
    <2>5. WholeAt(f, i) => at[i] = Outcome(at[NextAt(f, i)].kind, <<cmds[j]>> \o at[NextAt(f, i)].cmds)
        BY <2>1, <2>2, <2>3 DEF Read
    <2>6. WholeAt(f, i) => NextAt(f, i) = IF n >= End(cmds, j) THEN End(cmds, j) + 1 ELSE n + 1
        BY <1>3, <2>1
    <2> QED BY <2>1, <2>4, <2>5, <2>6 DEF i
<1>9. ASSUME NEW j \in 1..m PROVE SubSeq(cmds, 1, j) = SubSeq(cmds, 1, j - 1) \o <<cmds[j]>>
    BY <1>1
<1> HIDE DEF Q
<1>10. ASSUME NEW k \in Nat, k \in K PROVE k + 1 \in K
    <2> SUFFICES ASSUME k + 1 \in 0..m, End(cmds, k + 1) <= n PROVE Q(k + 1)
        OBVIOUS
    <2> DEFINE e == End(cmds, k + 1) + 1
    <2>1. k + 1 \in 1..m /\ (k + 1) - 1 = k /\ k \in 0..m
        BY <1>1
    <2>2. End(cmds, k) < End(cmds, k + 1)
        BY <1>1, <2>1, EndsGrow
    <2>3. End(cmds, k) < n /\ n >= End(cmds, k + 1) /\ e \in 1..(n + 1)
        BY <1>3, <1>5, <2>1, <2>2
    <2>4. at[End(cmds, k) + 1] = Outcome(at[e].kind, <<cmds[k + 1]>> \o at[e].cmds)
        BY <1>8, <2>1, <2>3
    <2>5. Q(k)
        <3>1. End(cmds, k) <= n
            BY <1>3, <1>5, <2>1, <2>3
        <3> QED BY <1>10, <2>1, <3>1
    <2> HIDE DEF e
    <2>6. /\ at[e].kind = at[1].kind
          /\ at[1].cmds = SubSeq(cmds, 1, k) \o (<<cmds[k + 1]>> \o at[e].cmds)
        <3> DEFINE x == at[End(cmds, k) + 1]
                   y == <<cmds[k + 1]>> \o at[e].cmds
        <3>1. x.kind = at[1].kind /\ at[1].cmds = SubSeq(cmds, 1, k) \o x.cmds
            BY <2>5 DEF Q
        <3>2. x = [kind |-> at[e].kind, cmds |-> y]
            BY <2>4 DEF Outcome
        <3> HIDE DEF x, y
        <3>3. x.kind = at[e].kind /\ x.cmds = y
            BY <3>2
        <3> QED BY <3>1, <3>3 DEF y
    <2>7. (SubSeq(cmds, 1, k) \o <<cmds[k + 1]>>) \o at[e].cmds
              = SubSeq(cmds, 1, k) \o (<<cmds[k + 1]>> \o at[e].cmds)
        <3> DEFINE U == Seq(T) \cup Seq(Payloads(f))
        <3>1. SubSeq(cmds, 1, k) \in Seq(Seq(T)) /\ <<cmds[k + 1]>> \in Seq(Seq(T))
            BY <1>1, <2>1
        <3>2. at[e].cmds \in Seq(Seq(Payloads(f)))
            BY <1>6, <2>3
        <3>3. ASSUME NEW A, NEW B, NEW s \in Seq(A), A \subseteq B PROVE s \in Seq(B)
            BY <3>3
        <3>4. /\ SubSeq(cmds, 1, k) \in Seq(U) /\ <<cmds[k + 1]>> \in Seq(U) /\ at[e].cmds \in Seq(U)
            BY <3>1, <3>2, <3>3
        <3> HIDE DEF U
        <3>5. ASSUME NEW x \in Seq(U), NEW y \in Seq(U), NEW z \in Seq(U)
              PROVE  (x \o y) \o z = x \o (y \o z)
            OBVIOUS
        <3> QED BY <3>4, <3>5
    <2>8. SubSeq(cmds, 1, k + 1) = SubSeq(cmds, 1, k) \o <<cmds[k + 1]>>
        BY <1>9, <2>1
    <2> QED BY <2>6, <2>7, <2>8 DEF e, Q
<1>11. \A k \in 0..m : End(cmds, k) <= n => Q(k)
    <2>1. \A k \in Nat : k \in K
        <3> HIDE DEF K
        <3> QED BY <1>7, <1>10, Reached
    <2> QED BY <2>1
<1>12. at[n + 1] = Outcome("ok", <<>>)
    <2>1. n + 1 \in 1..(Len(f) + 1) /\ n + 1 = Len(f) + 1
        BY <1>3
    <2> QED BY <1>4, <2>1 DEF Read
<1>13. ASSUME NEW j \in 0..m, n = End(cmds, j)
       PROVE  at[1].kind = "ok" /\ at[1].cmds = SubSeq(cmds, 1, j)
    <2>1. at[n + 1].kind = at[1].kind /\ at[1].cmds = SubSeq(cmds, 1, j) \o at[n + 1].cmds
        <3>1. End(cmds, j) <= n
            BY <1>3, <1>13
        <3>2. Q(j)
            BY <1>11, <3>1
        <3> QED BY <1>13, <3>2 DEF Q
    <2>2. SubSeq(cmds, 1, j) \in Seq(Seq(T))
        BY <1>1
    <2>3. SubSeq(cmds, 1, j) \o <<>> = SubSeq(cmds, 1, j)
        BY <2>2, ConcatEmptySeq
    <2> QED BY <1>12, <2>1, <2>3 DEF Outcome
<1>14. ASSUME NEW j \in 1..m, End(cmds, j - 1) < n, n < End(cmds, j)
       PROVE  \/ at[1].kind = "panic"
              \/ at[1].kind = "ok" /\ at[1].cmds = SubSeq(cmds, 1, j)
    <2>1. j - 1 \in 0..m /\ ~(n >= End(cmds, j)) /\ End(cmds, j - 1) <= n
        <3>1. j - 1 \in 0..m /\ j \in 0..m
            BY <1>1
        <3>2. End(cmds, j - 1) \in Nat /\ End(cmds, j) \in Nat
            BY <1>5, <3>1
        <3> QED BY <1>3, <1>14, <3>1, <3>2
    <2> DEFINE i == End(cmds, j - 1) + 1
    <2>2. at[i].kind = at[1].kind /\ at[1].cmds = SubSeq(cmds, 1, j - 1) \o at[i].cmds
        BY <1>11, <2>1 DEF Q
    <2>3. /\ ~WholeAt(f, i) => at[i] = Outcome("panic", <<>>)
          /\ WholeAt(f, i) => at[i] = Outcome(at[n + 1].kind, <<cmds[j]>> \o at[n + 1].cmds)
        BY <1>8, <1>14, <2>1
    <2> HIDE DEF i
    <2>4. <<cmds[j]>> \o <<>> = <<cmds[j]>>
        <3>1. <<cmds[j]>> \in Seq(Seq(T))
            BY <1>1
        <3> QED BY <3>1, ConcatEmptySeq
    <2>5. at[n + 1].kind = "ok" /\ at[n + 1].cmds = <<>>
        BY <1>12 DEF Outcome
    <2>6. WholeAt(f, i) => at[i].kind = "ok" /\ at[i].cmds = <<cmds[j]>>
        BY <2>3, <2>4, <2>5 DEF Outcome
    <2>7. ~WholeAt(f, i) => at[i].kind = "panic"
        BY <2>3 DEF Outcome
    <2> QED BY <1>9, <2>2, <2>6, <2>7
<1>15. \/ \E j \in 0..m : n = End(cmds, j)
       \/ \E j \in 1..m : End(cmds, j - 1) < n /\ n < End(cmds, j)
    <2>1. End(cmds, m) = Len(all)
        BY <1>1, EndsAre DEF all
    <2>2. CASE n = Len(all)
        BY <1>1, <2>1, <2>2
    <2>3. CASE n # Len(all)
        <3>1. n < Len(all)
            BY <1>2, <1>3, <2>3
        <3>2. \E j \in 1..m : End(cmds, j - 1) <= n /\ n < End(cmds, j)
            <4>1. PICK p \in Seq(Seq(Symbols(T))) :
                      /\ Len(p) = Len(cmds) /\ \A i \in 1..Len(cmds) : p[i] = Encode(cmds[i])
                      /\ \A i \in 0..Len(cmds) : EncodeAll(SubSeq(cmds, 1, i)) = Upto(p, i)
                      /\ EncodeAll(cmds) = FlattenSeq(p)
                BY <1>1, PartsAre
            <4>2. PICK j \in 1..Len(p) : Len(Upto(p, j - 1)) <= n /\ n < Len(Upto(p, j))
                <5>1. n < Len(FlattenSeq(p))
                    BY <3>1, <4>1 DEF all
                <5> QED BY <1>3, <5>1, PartFound
            <4>3. j \in 1..m /\ j \in 0..m /\ j - 1 \in 0..m
                BY <1>1, <4>1
            <4>4. Len(Upto(p, j - 1)) = End(cmds, j - 1) /\ Len(Upto(p, j)) = End(cmds, j)
                BY <4>1, <4>3 DEF End
            <4> QED BY <4>2, <4>3, <4>4
        <3>3. PICK j \in 1..m : End(cmds, j - 1) <= n /\ n < End(cmds, j)
            BY <3>2
        <3>4. j - 1 \in 0..m /\ End(cmds, j - 1) \in Nat
            BY <1>1, <1>5
        <3>5. End(cmds, j - 1) = n \/ End(cmds, j - 1) < n
            BY <1>3, <3>3, <3>4
        <3> QED BY <3>3, <3>4, <3>5
    <2> QED BY <2>2, <2>3
<1>16. \/ at[1].kind = "panic"
       \/ at[1].kind = "ok" /\ \E i \in 0..m : at[1].cmds = SubSeq(cmds, 1, i) /\ n <= End(cmds, i)
    <2>1. CASE \E j \in 0..m : n = End(cmds, j)
        <3>1. PICK j \in 0..m : n = End(cmds, j)
            BY <2>1
        <3>2. n <= End(cmds, j)
            BY <1>3, <3>1
        <3> QED BY <1>13, <3>1, <3>2
    <2>2. CASE \E j \in 1..m : End(cmds, j - 1) < n /\ n < End(cmds, j)
        <3>1. PICK j \in 1..m : End(cmds, j - 1) < n /\ n < End(cmds, j)
            BY <2>2
        <3>2. j \in 0..m /\ End(cmds, j) \in Nat
            BY <1>1, <1>5
        <3>3. n <= End(cmds, j)
            BY <1>3, <3>1, <3>2
        <3> QED BY <1>14, <3>1, <3>2, <3>3
    <2> QED BY <1>15, <2>1, <2>2
<1>17. Decode(f) = at[1]
    BY <1>4
<1> QED BY <1>13, <1>16, <1>17

-----------------------------------------------------------------------------
(* The lines of a dump.                                                    *)
DumpLine(c) ==
    /\ c \in Seq(Strings) /\ Len(c) >= 3
    /\ c[1] \in {Word("SET"), Word("HSET"), Word("RPUSH"), Word("SADD")}
    /\ c[1] = Word("SET") => \A i \in 2..Len(c) : Len(c[i]) = 1
    /\ c[1] = Word("HSET") => Len(c) >= 4

LEMMA WordsDiffer ==
    /\ Word("SET") # Word("HSET") /\ Word("SET") # Word("RPUSH") /\ Word("SET") # Word("SADD")
    /\ Word("HSET") # Word("RPUSH") /\ Word("HSET") # Word("SADD") /\ Word("RPUSH") # Word("SADD")
    /\ Word("SET") \in Strings /\ Word("HSET") \in Strings
    /\ Word("RPUSH") \in Strings /\ Word("SADD") \in Strings
<1>1. \A a, b : Word(a) = Word(b) => a = b
    BY DEF Word
<1>2. \A w \in {"SET", "HSET", "RPUSH", "SADD"} : Word(w) \in Strings
    BY AofAssumption
<1> QED BY <1>1, <1>2

(* Lines by the type of the key.                                           *)
LEMMA LinesAre ==
    ASSUME NEW k, NEW e, IsValue(e)
    PROVE  /\ e.type \in {"string", "hash", "list", "set", "zset"}
           /\ e.type = "string" =>
                Lines(k, e) = {<<Word("SET")>> \o [i \in DOMAIN (k \o e.val) |-> Word((k \o e.val)[i])]}
           /\ e.type = "hash" =>
                Lines(k, e) = {<<Word("HSET"), k>> \o Pairs(e.val, o) :
                                    o \in Orders(DOMAIN e.val)}
           /\ e.type = "list" => Lines(k, e) = {<<Word("RPUSH"), k>> \o e.val}
           /\ e.type = "set" => e.val.enc \in {"intset", "ht"}
           /\ e.type = "set" /\ e.val.enc = "intset" =>
                Lines(k, e) = {<<Word("SADD"), k>> \o [i \in DOMAIN e.val.is |-> Decimal[e.val.is[i]]]}
           /\ e.type = "set" /\ e.val.enc = "ht" =>
                Lines(k, e) = {<<Word("SADD"), k>> \o o : o \in Orders(e.val.ht)}
           /\ e.type = "zset" => Lines(k, e) = {}
<1>1. e.type \in {"string", "hash", "list", "set", "zset"}
    BY DEF IsValue
<1>2. e.type = "set" => e.val.enc \in {"intset", "ht"}
    <2> SUFFICES ASSUME e.type = "set" PROVE e.val.enc \in {"intset", "ht"}
        OBVIOUS
    <2>1. SetSound(e.val) /\ MembersOf(e.val) # {}
        BY DEF IsValue
    <2>2. e.val.enc \in {"none", "intset", "ht"} /\ (e.val.enc = "none" => e.val = NoSet)
        BY <2>1, MembersAre
    <2> QED BY <2>1, <2>2, NoSetIs
<1>3. e.type = "string" =>
        Lines(k, e) = {<<Word("SET")>> \o [i \in DOMAIN (k \o e.val) |-> Word((k \o e.val)[i])]}
    BY DEF Lines
<1>4. e.type = "hash" =>
        Lines(k, e) = {<<Word("HSET"), k>> \o Pairs(e.val, o) :
                            o \in Orders(DOMAIN e.val)}
    BY DEF Lines
<1>5. e.type = "list" => Lines(k, e) = {<<Word("RPUSH"), k>> \o e.val}
    BY DEF Lines
<1>6. e.type = "set" /\ e.val.enc = "intset" =>
        Lines(k, e) = {<<Word("SADD"), k>> \o [i \in DOMAIN e.val.is |-> Decimal[e.val.is[i]]]}
    BY DEF Lines
<1>7. e.type = "set" /\ e.val.enc = "ht" =>
        Lines(k, e) = {<<Word("SADD"), k>> \o o : o \in Orders(e.val.ht)}
    BY DEF Lines
<1>8. e.type = "zset" => Lines(k, e) = {}
    BY DEF Lines
<1> QED BY <1>1, <1>2, <1>3, <1>4, <1>5, <1>6, <1>7, <1>8

(* An order of a set of strings has each of them once.                     *)
LEMMA OrderIs ==
    ASSUME NEW S \in SUBSET Strings, NEW o \in Orders(S)
    PROVE  /\ o \in Seq(S) /\ Len(o) = Cardinality(S) /\ DOMAIN o = 1..Len(o)
           /\ ToSet(o) = S /\ \A x \in S : \E i \in 1..Len(o) : o[i] = x
           /\ \A i, j \in 1..Len(o) : o[i] = o[j] => i = j
<1> DEFINE n == Cardinality(S)
<1>1. IsFiniteSet(S) /\ n \in Nat
    BY Finite
<1>2. o \in [1..n -> S] /\ \A i, j \in 1..n : o[i] = o[j] => i = j
    BY DEF Orders, IsInjective
<1> HIDE DEF n
<1>3. o \in Seq(S) /\ Len(o) = n /\ DOMAIN o = 1..n
    BY <1>1, <1>2
<1>4. o \in Injection(1..n, S)
    BY <1>2 DEF Injection, IsInjective
<1>5. Cardinality(1..n) = n
    <2>1. Cardinality(1..n) = IF 1 > n THEN 0 ELSE n - 1 + 1
        BY <1>1, FS_Interval
    <2> QED BY <1>1, <2>1
<1>6. o \in Surjection(1..n, S)
    BY <1>1, <1>4, <1>5, FS_Injection DEF n
<1>7. \A x \in S : \E i \in 1..n : o[i] = x
    BY <1>6 DEF Surjection
<1>8. ToSet(o) = S
    BY <1>2, <1>3, <1>7 DEF ToSet
<1> QED BY <1>2, <1>3, <1>7, <1>8 DEF n

(* There are such orders.                                                  *)
LEMMA OrderExists ==
    ASSUME NEW S \in SUBSET Strings
    PROVE  Orders(S) # {}
<1>1. ExistsBijection(1..Cardinality(S), S)
    BY Finite, FS_CardinalityType
<1> QED BY <1>1 DEF ExistsBijection, Bijection, Injection, Surjection, IsInjective, Orders

(* One more ahead of a sequence, and two more.                             *)
LEMMA OneAhead ==
    ASSUME NEW S, NEW a \in S, NEW s \in Seq(S)
    PROVE  /\ <<a>> \o s \in Seq(S) /\ Len(<<a>> \o s) = Len(s) + 1 /\ (<<a>> \o s)[1] = a
           /\ \A i \in 1..Len(s) : (<<a>> \o s)[i + 1] = s[i]
    OBVIOUS

LEMMA TwoAhead ==
    ASSUME NEW S, NEW a \in S, NEW b \in S, NEW s \in Seq(S)
    PROVE  /\ <<a, b>> \o s \in Seq(S) /\ Len(<<a, b>> \o s) = Len(s) + 2
           /\ (<<a, b>> \o s)[1] = a /\ (<<a, b>> \o s)[2] = b
           /\ \A i \in 1..Len(s) : (<<a, b>> \o s)[i + 2] = s[i]
    OBVIOUS

LEMMA TwoBehind ==
    ASSUME NEW S, NEW a \in S, NEW b \in S, NEW s \in Seq(S)
    PROVE  Tail(Tail(<<a, b>> \o s)) = s
    OBVIOUS

(* A string's line has its words, one by one.                              *)
LEMMA StringLine ==
    ASSUME NEW k \in Strings, NEW e, IsValue(e), e.type = "string", NEW line \in Lines(k, e)
    PROVE  /\ DumpLine(line) /\ line[1] = Word("SET") /\ line[2] = Word(Head(k))
           /\ ~Spaced(k, e) => Len(line) = 3 /\ line[2] = k /\ line[3] = e.val
<1> DEFINE v == e.val
           text == k \o v
           words == [i \in DOMAIN text |-> Word(text[i])]
           n == Len(k) + Len(v)
<1>1. line = <<Word("SET")>> \o words
    BY LinesAre
<1>2. v \in Strings
    BY DEF IsValue
<1>3. /\ k \in Seq(Words) /\ v \in Seq(Words) /\ Len(k) \in Nat \ {0} /\ Len(v) \in Nat \ {0}
    BY <1>2, AofAssumption, LenProperties
<1> HIDE DEF v
<1>4. /\ text \in Seq(Words) /\ Len(text) = n /\ DOMAIN text = 1..n /\ n \in Nat
      /\ \A i \in 1..n : text[i] = IF i <= Len(k) THEN k[i] ELSE v[i - Len(k)]
    <2>1. text \in Seq(Words) /\ Len(text) = n
          /\ \A i \in 1..n : text[i] = IF i <= Len(k) THEN k[i] ELSE v[i - Len(k)]
        BY <1>3, ConcatProperties
    <2>2. n \in Nat
        BY <1>3
    <2> HIDE DEF text, n
    <2> QED BY <2>1, <2>2, LenProperties
<1> HIDE DEF text
<1>5. \A i \in 1..n : Word(text[i]) \in Strings
    <2>1. \A i \in 1..n : text[i] \in Words
        BY <1>4, ElementOfSeq
    <2> QED BY <2>1, AofAssumption
<1>6. words \in Seq(Strings) /\ Len(words) = n /\ \A i \in 1..n : words[i] = Word(text[i])
    <2>1. words \in [1..n -> Strings]
        BY <1>4, <1>5
    <2> HIDE DEF n
    <2> QED BY <1>4, <2>1
<1> HIDE DEF words
<1>7. /\ line \in Seq(Strings) /\ Len(line) = n + 1 /\ line[1] = Word("SET")
      /\ \A i \in 1..n : line[i + 1] = Word(text[i])
    BY <1>1, <1>6, WordsDiffer, OneAhead
<1>8. ASSUME NEW i \in 2..Len(line) PROVE Len(line[i]) = 1
    <2>1. i - 1 \in 1..n /\ (i - 1) + 1 = i
        BY <1>4, <1>7
    <2>2. line[i] = Word(text[i - 1])
        BY <1>7, <2>1
    <2> QED BY <2>2 DEF Word
<1>9. line[2] = Word(Head(k))
    <2>1. 1 \in 1..n /\ 1 + 1 = 2 /\ 1 <= Len(k)
        BY <1>3
    <2>2. line[2] = Word(text[1]) /\ text[1] = k[1]
        BY <1>4, <1>7, <2>1
    <2>3. Head(k) = k[1]
        BY <1>3, RestIs
    <2> QED BY <2>2, <2>3
<1>10. DumpLine(line)
    <2>1. Len(line) >= 3
        BY <1>3, <1>7
    <2> QED BY <1>7, <1>8, <2>1, WordsDiffer DEF DumpLine
<1>11. ASSUME ~Spaced(k, e) PROVE Len(line) = 3 /\ line[2] = k /\ line[3] = v
    <2>1. ~(Len(text) > 2)
        BY <1>11 DEF Spaced, text, v
    <2>2. Len(k) = 1 /\ Len(v) = 1 /\ n = 2
        <3>1. Len(text) = n /\ n \in Nat
            BY <1>4
        <3>2. Len(k) \in Nat \ {0} /\ Len(v) \in Nat \ {0} /\ ~(n > 2)
            BY <1>3, <2>1, <3>1
        <3>3. ASSUME NEW a \in Nat \ {0}, NEW b \in Nat \ {0}, ~(a + b > 2)
              PROVE  a = 1 /\ b = 1 /\ a + b = 2
            BY <3>3
        <3> QED BY <3>2, <3>3
    <2>3. line[2] = Word(text[1]) /\ line[3] = Word(text[2])
        <3>1. 1 \in 1..n /\ 2 \in 1..n /\ 1 + 1 = 2 /\ 2 + 1 = 3
            BY <2>2
        <3> QED BY <1>7, <3>1
    <2>4. text[1] = k[1] /\ text[2] = v[1]
        <3>1. 1 \in 1..n /\ 2 \in 1..n /\ 1 <= Len(k) /\ ~(2 <= Len(k)) /\ 2 - Len(k) = 1
            BY <2>2
        <3> QED BY <1>4, <3>1
    <2>5. k = <<k[1]>> /\ v = <<v[1]>>
        <3>1. ASSUME NEW s \in Seq(Words), Len(s) = 1 PROVE s = <<s[1]>>
            BY <3>1
        <3> QED BY <1>3, <2>2, <3>1
    <2> QED BY <1>7, <2>2, <2>3, <2>4, <2>5 DEF Word
<1> QED BY <1>7, <1>9, <1>10, <1>11 DEF v

(* A hash's line has its fields, each with its value behind it.            *)
LEMMA HashLine ==
    ASSUME NEW k \in Strings, NEW e, IsValue(e), e.type = "hash", NEW line \in Lines(k, e)
    PROVE  /\ DumpLine(line) /\ line[1] = Word("HSET") /\ line[2] = k
           /\ \E o \in Orders(DOMAIN e.val) :
                /\ Len(line) = 2 + 2 * Len(o) /\ Len(o) \in Nat \ {0}
                /\ \A j \in 1..Len(o) : line[2 * j + 1] = o[j] /\ line[2 * j + 2] = e.val[o[j]]
<1> DEFINE m == e.val
<1>1. DOMAIN m # {} /\ DOMAIN m \in SUBSET Strings /\ \A x \in DOMAIN m : x \in Strings /\ m[x] \in Strings
    <2>1. DOMAIN m # {} /\ DOMAIN m \subseteq Strings /\ m \in [DOMAIN m -> Strings]
        BY DEF IsValue
    <2> QED BY <2>1
<1>2. PICK o \in Orders(DOMAIN m) :
          line = <<Word("HSET"), k>> \o Pairs(m, o)
    <2>1. Lines(k, e) = {<<Word("HSET"), k>> \o Pairs(e.val, o) : o \in Orders(DOMAIN e.val)}
        BY LinesAre
    <2> QED BY <2>1
<1> HIDE DEF m
<1>3. /\ o \in Seq(DOMAIN m) /\ DOMAIN o = 1..Len(o) /\ Len(o) \in Nat \ {0}
      /\ \A j \in 1..Len(o) : o[j] \in DOMAIN m
    <2>1. o \in Seq(DOMAIN m) /\ DOMAIN o = 1..Len(o) /\ \A x \in DOMAIN m : \E i \in 1..Len(o) : o[i] = x
        BY <1>1, OrderIs
    <2>2. Len(o) \in Nat /\ \A j \in 1..Len(o) : o[j] \in DOMAIN m
        BY <2>1, LenProperties, ElementOfSeq
    <2>3. Len(o) # 0
        BY <1>1, <2>1
    <2> QED BY <2>1, <2>2, <2>3
<1> DEFINE p == [i \in DOMAIN o |-> <<o[i], m[o[i]]>>]
           s == FlattenSeq(p)
           n == Len(o)
<1>4. p \in Seq(Seq(Strings)) /\ Len(p) = n /\ \A j \in 1..n : p[j] = <<o[j], m[o[j]]>>
    <2>1. \A j \in 1..n : <<o[j], m[o[j]]>> \in Seq(Strings)
        BY <1>1, <1>3
    <2>2. p \in [1..n -> Seq(Strings)]
        BY <1>3, <2>1
    <2>3. \A j \in 1..n : p[j] = <<o[j], m[o[j]]>>
        BY <1>3
    <2>4. n \in Nat
        BY <1>3
    <2> HIDE DEF p, n
    <2> QED BY <2>2, <2>3, <2>4
<1> HIDE DEF p
<1>5. /\ s \in Seq(Strings) /\ Len(s) = 2 * n
      /\ \A j \in 1..n, i \in 1..2 : s[2 * (j - 1) + i] = p[j][i]
    <2>1. 2 \in {2, 4} /\ \A j \in 1..Len(p) : Len(p[j]) = 2
        <3>1. \A a, b : Len(<<a, b>>) = 2
            OBVIOUS
        <3> QED BY <1>4, <3>1
    <2>2. /\ s \in Seq(Strings) /\ Len(s) = 2 * Len(p)
          /\ \A j \in 1..Len(p), i \in 1..2 : s[2 * (j - 1) + i] = p[j][i]
        BY <1>4, <2>1, ChunksAre
    <2> QED BY <1>4, <2>2
<1>6. line = <<Word("HSET"), k>> \o s
    BY <1>2 DEF p, Pairs
<1> HIDE DEF s, n
<1>7. /\ line \in Seq(Strings) /\ Len(line) = Len(s) + 2
      /\ line[1] = Word("HSET") /\ line[2] = k
      /\ \A i \in 1..Len(s) : line[i + 2] = s[i]
    BY <1>5, <1>6, WordsDiffer, TwoAhead
<1>8. n \in Nat \ {0} /\ Len(line) = 2 + 2 * n /\ Len(line) >= 4
    BY <1>3, <1>5, <1>7 DEF n
<1>9. ASSUME NEW j \in 1..n PROVE line[2 * j + 1] = o[j] /\ line[2 * j + 2] = m[o[j]]
    <2>1. /\ 2 * (j - 1) + 1 \in 1..(2 * n) /\ 2 * (j - 1) + 2 \in 1..(2 * n)
          /\ (2 * (j - 1) + 1) + 2 = 2 * j + 1 /\ (2 * (j - 1) + 2) + 2 = 2 * j + 2
        BY <1>8
    <2>2. s[2 * (j - 1) + 1] = p[j][1] /\ s[2 * (j - 1) + 2] = p[j][2]
        <3>1. 1 \in 1..2 /\ 2 \in 1..2
            OBVIOUS
        <3> QED BY <1>5, <3>1
    <2>3. line[2 * j + 1] = p[j][1] /\ line[2 * j + 2] = p[j][2]
        <3>1. /\ line[(2 * (j - 1) + 1) + 2] = s[2 * (j - 1) + 1]
              /\ line[(2 * (j - 1) + 2) + 2] = s[2 * (j - 1) + 2]
            BY <1>5, <1>7, <2>1
        <3> QED BY <2>1, <2>2, <3>1
    <2>4. p[j] = <<o[j], m[o[j]]>>
        BY <1>4
    <2> QED BY <2>3, <2>4
<1>10. DumpLine(line)
    BY <1>7, <1>8, WordsDiffer DEF DumpLine
<1> QED BY <1>7, <1>8, <1>9, <1>10 DEF m, n

(* The line of a list has its elements, that of a set its members.         *)
LEMMA ListLine ==
    ASSUME NEW k \in Strings, NEW e, IsValue(e), e.type = "list", NEW line \in Lines(k, e)
    PROVE  /\ DumpLine(line) /\ line[1] = Word("RPUSH") /\ line[2] = k
           /\ line = <<Word("RPUSH"), k>> \o e.val /\ e.val \in Seq(Strings)
<1>1. line = <<Word("RPUSH"), k>> \o e.val
    BY LinesAre
<1>2. e.val \in Seq(Strings) /\ Len(e.val) \in Nat \ {0}
    <2>1. e.val \in Seq(Strings) /\ Len(e.val) # 0
        BY DEF IsValue
    <2> QED BY <2>1, LenProperties
<1>3. /\ line \in Seq(Strings) /\ Len(line) = Len(e.val) + 2
      /\ line[1] = Word("RPUSH") /\ line[2] = k
    BY <1>1, <1>2, WordsDiffer, TwoAhead
<1>4. Len(line) >= 3
    BY <1>2, <1>3
<1> QED BY <1>1, <1>2, <1>3, <1>4, WordsDiffer DEF DumpLine

LEMMA SetLine ==
    ASSUME NEW k \in Strings, NEW e, IsValue(e), e.type = "set", NEW line \in Lines(k, e)
    PROVE  /\ DumpLine(line) /\ line[1] = Word("SADD") /\ line[2] = k
           /\ \E ms \in Seq(Strings) :
                /\ line = <<Word("SADD"), k>> \o ms /\ Len(ms) \in Nat \ {0}
                /\ ToSet(ms) = MembersOf(e.val)
<1> DEFINE v == e.val
<1>1. SetSound(v) /\ MembersOf(v) # {} /\ v.enc \in {"intset", "ht"}
    BY LinesAre DEF IsValue
<1>2. \E ms \in Seq(Strings) : line = <<Word("SADD"), k>> \o ms /\ ToSet(ms) = MembersOf(v)
    <2>1. CASE v.enc = "intset"
        <3> DEFINE ms == [i \in DOMAIN v.is |-> Decimal[v.is[i]]]
        <3>1. line = <<Word("SADD"), k>> \o ms
            BY <2>1, LinesAre
        <3>2. v.is \in Seq(Numbers)
            BY <1>1 DEF SetSound, SetValue
        <3>3. /\ DOMAIN v.is = 1..Len(v.is) /\ Len(v.is) \in Nat
              /\ \A i \in DOMAIN v.is : v.is[i] \in Numbers
              /\ \A n : n \in ToSet(v.is) <=> \E i \in DOMAIN v.is : v.is[i] = n
            BY <3>2, NumberPlaces
        <3>4. \A i \in DOMAIN v.is : Decimal[v.is[i]] \in Strings
            BY <3>3, Decimals
        <3>5. ms \in Seq(Strings)
            <4>1. ms \in [1..Len(v.is) -> Strings]
                BY <3>3, <3>4
            <4> HIDE DEF ms
            <4> QED BY <3>3, <4>1
        <3>6. ToSet(ms) = {Decimal[n] : n \in ToSet(v.is)}
            <4>1. ToSet(ms) = {ms[i] : i \in DOMAIN v.is}
                BY DEF ToSet
            <4>2. DOMAIN ms = DOMAIN v.is /\ \A i \in DOMAIN v.is : ms[i] = Decimal[v.is[i]]
                OBVIOUS
            <4> HIDE DEF ms
            <4>3. ASSUME NEW x PROVE x \in ToSet(ms) <=> \E n \in ToSet(v.is) : x = Decimal[n]
                <5>1. x \in ToSet(ms) <=> \E i \in DOMAIN v.is : Decimal[v.is[i]] = x
                    BY <4>1, <4>2
                <5>2. ASSUME NEW i \in DOMAIN v.is, Decimal[v.is[i]] = x
                      PROVE  \E n \in ToSet(v.is) : x = Decimal[n]
                    BY <3>3, <5>2
                <5>3. ASSUME NEW n \in ToSet(v.is), x = Decimal[n]
                      PROVE  \E i \in DOMAIN v.is : Decimal[v.is[i]] = x
                    <6>1. PICK i \in DOMAIN v.is : v.is[i] = n
                        BY <3>3, <5>3
                    <6> QED BY <5>3, <6>1
                <5> QED BY <5>1, <5>2, <5>3
            <4> QED BY <4>3
        <3>7. MembersOf(v) = {Decimal[n] : n \in ToSet(v.is)}
            BY <2>1 DEF MembersOf
        <3> QED BY <3>1, <3>5, <3>6, <3>7
    <2>2. CASE v.enc = "ht"
        <3>1. PICK o \in Orders(v.ht) : line = <<Word("SADD"), k>> \o o
            <4>1. Lines(k, e) = {<<Word("SADD"), k>> \o o : o \in Orders(e.val.ht)}
                BY <2>2, LinesAre
            <4> QED BY <4>1
        <3>2. v.ht \in SUBSET Strings
            BY <1>1 DEF SetSound, SetValue
        <3>3. o \in Seq(v.ht) /\ ToSet(o) = v.ht /\ DOMAIN o = 1..Len(o)
            BY <3>2, OrderIs
        <3>4. o \in Seq(Strings)
            BY <3>2, <3>3
        <3>5. MembersOf(v) = v.ht
            BY <2>2 DEF MembersOf
        <3> QED BY <3>1, <3>3, <3>4, <3>5
    <2> QED BY <1>1, <2>1, <2>2
<1>3. PICK ms \in Seq(Strings) : line = <<Word("SADD"), k>> \o ms /\ ToSet(ms) = MembersOf(v)
    BY <1>2
<1>4. Len(ms) \in Nat \ {0}
    <2>1. Len(ms) = 0 => ToSet(ms) = {}
        BY DEF ToSet
    <2> QED BY <1>1, <1>3, <2>1, LenProperties
<1>5. /\ line \in Seq(Strings) /\ Len(line) = Len(ms) + 2
      /\ line[1] = Word("SADD") /\ line[2] = k
    BY <1>3, WordsDiffer, TwoAhead
<1>6. Len(line) >= 3
    BY <1>4, <1>5
<1>7. DumpLine(line)
    BY <1>5, <1>6, WordsDiffer DEF DumpLine
<1> QED BY <1>3, <1>4, <1>5, <1>7

(* What a dump writes is a line for a restart, and it writes one for all   *)
(* but sorted sets.                                                        *)
LEMMA LineIs ==
    ASSUME NEW k \in Strings, NEW e, IsValue(e), NEW line \in Lines(k, e)
    PROVE  DumpLine(line) /\ e.type # "zset"
<1>1. e.type \in {"string", "hash", "list", "set", "zset"} /\ (e.type = "zset" => Lines(k, e) = {})
    BY LinesAre
<1> QED BY <1>1, StringLine, HashLine, ListLine, SetLine

LEMMA LineExists ==
    ASSUME NEW k \in Strings, NEW e, IsValue(e), e.type # "zset"
    PROVE  Lines(k, e) # {}
<1>1. e.type = "hash" => Orders(DOMAIN e.val) # {}
    <2>1. e.type = "hash" => DOMAIN e.val \subseteq Strings
        BY DEF IsValue
    <2> QED BY <2>1, OrderExists
<1>2. e.type = "set" /\ e.val.enc = "ht" => Orders(e.val.ht) # {}
    <2>1. e.type = "set" => e.val.ht \in SUBSET Strings
        BY DEF IsValue, SetSound, SetValue
    <2> QED BY <2>1, OrderExists
<1>3. CASE e.type = "hash"
    <2>1. Lines(k, e) = {<<Word("HSET"), k>> \o Pairs(e.val, o) : o \in Orders(DOMAIN e.val)}
        BY <1>3, LinesAre
    <2> QED BY <1>1, <1>3, <2>1
<1>4. CASE e.type = "set"
    <2>1. CASE e.val.enc = "ht"
        <3>1. Lines(k, e) = {<<Word("SADD"), k>> \o o : o \in Orders(e.val.ht)}
            BY <1>4, <2>1, LinesAre
        <3> QED BY <1>2, <1>4, <2>1, <3>1
    <2>2. CASE e.val.enc = "intset"
        BY <1>4, <2>2, LinesAre
    <2> QED BY <1>4, <2>1, <2>2, LinesAre
<1>5. CASE e.type = "string"
    BY <1>5, LinesAre
<1>6. CASE e.type = "list"
    BY <1>6, LinesAre
<1>7. e.type \in {"string", "hash", "list", "set", "zset"}
    BY LinesAre
<1> QED BY <1>3, <1>4, <1>5, <1>6, <1>7

-----------------------------------------------------------------------------
(* SADD's rounds: what was there stays, and each new member is there.      *)
Rounds(s, ms, g) ==
    g = [i \in 0..Len(ms) |-> IF i = 0 THEN SetCreated(s, Head(ms)) ELSE SetAdd(g[i - 1], ms[i])]

LEMMA RoundsExist ==
    ASSUME NEW s, NEW ms, Len(ms) \in Nat
    PROVE  \E g : Rounds(s, ms, g)
<1> DEFINE First == SetCreated(s, Head(ms))
           Done(n, g) == g = [i \in 0..n |-> IF i = 0 THEN First ELSE SetAdd(g[i - 1], ms[i])]
           T == {n \in Nat : \E g : Done(n, g)}
<1>1. 0 \in T
    <2> DEFINE g == [i \in 0..0 |-> First]
    <2>1. Done(0, g)
        OBVIOUS
    <2> QED BY <2>1
<1>2. ASSUME NEW n \in Nat, n \in T PROVE n + 1 \in T
    <2>1. PICK g : Done(n, g)
        BY <1>2
    <2> DEFINE h == [i \in 0..(n + 1) |-> IF i = n + 1 THEN SetAdd(g[n], ms[n + 1]) ELSE g[i]]
    <2>2. ASSUME NEW i \in 0..(n + 1)
          PROVE  h[i] = IF i = 0 THEN First ELSE SetAdd(h[i - 1], ms[i])
        <3>1. CASE i = n + 1
            <4>1. n \in 0..(n + 1) /\ n # n + 1 /\ i # 0 /\ i - 1 = n
                BY <3>1
            <4>2. h[n] = g[n] /\ h[i] = SetAdd(g[n], ms[n + 1])
                BY <3>1, <4>1
            <4> HIDE DEF h
            <4> QED BY <3>1, <4>1, <4>2
        <3>2. CASE i # n + 1
            <4>1. i \in 0..n /\ (i # 0 => i - 1 \in 0..(n + 1) /\ i - 1 # n + 1)
                BY <3>2
            <4>2. h[i] = g[i] /\ (i # 0 => h[i - 1] = g[i - 1])
                BY <3>2, <4>1
            <4>3. g[i] = IF i = 0 THEN First ELSE SetAdd(g[i - 1], ms[i])
                BY <2>1, <4>1
            <4> HIDE DEF h
            <4> QED BY <4>2, <4>3
        <3> QED BY <3>1, <3>2
    <2>3. Done(n + 1, h)
        <3>1. h = [i \in 0..(n + 1) |-> h[i]]
            OBVIOUS
        <3> HIDE DEF h
        <3> QED BY <2>2, <3>1
    <2> HIDE DEF Done
    <2> QED BY <2>3
<1>3. \A n \in Nat : n \in T
    <2> HIDE DEF T
    <2> QED BY <1>1, <1>2, Reached
<1>4. PICK g : Done(Len(ms), g)
    BY <1>3
<1> QED BY <1>4 DEF Rounds

LEMMA SetWithIs ==
    ASSUME NEW s, SetSound(s), NEW ms \in Seq(Strings), Len(ms) # 0
    PROVE  /\ SetSound(SetWith(s, ms)) /\ SetWith(s, ms).enc # "none"
           /\ \A x \in MembersOf(SetWith(s, ms)) :
                x \in MembersOf(s) \/ \E m \in ToSet(ms) : x \in Spellings(m)
           /\ \A m \in ToSet(ms) : Spellings(m) \cap MembersOf(SetWith(s, ms)) # {}
<1> DEFINE n == Len(ms)
           g == CHOOSE h : Rounds(s, ms, h)
<1>1. n \in Nat \ {0} /\ DOMAIN ms = 1..n /\ Head(ms) \in Strings /\ \A i \in 1..n : ms[i] \in Strings
    <2>1. n \in Nat /\ DOMAIN ms = 1..n /\ \A i \in 1..n : ms[i] \in Strings
        BY LenProperties, ElementOfSeq
    <2>2. Head(ms) \in Strings
        BY RestIs
    <2> QED BY <2>1, <2>2
<1>2. Rounds(s, ms, g)
    BY <1>1, RoundsExist
<1>3. SetWith(s, ms) = g[n]
    BY DEF SetWith, Rounds
<1> HIDE DEF g
<1>4. /\ g[0] = SetCreated(s, Head(ms))
      /\ \A i \in 1..n : g[i] = SetAdd(g[i - 1], ms[i])
    <2>1. \A i \in 0..n : g[i] = IF i = 0 THEN SetCreated(s, Head(ms)) ELSE SetAdd(g[i - 1], ms[i])
        BY <1>2 DEF Rounds
    <2>2. 0 \in 0..n /\ \A i \in 1..n : i \in 0..n /\ i # 0
        BY <1>1
    <2> QED BY <2>1, <2>2
<1> DEFINE Fine(i) ==
              /\ SetSound(g[i]) /\ g[i].enc # "none"
              /\ \A x \in MembersOf(g[i]) : x \in MembersOf(s) \/ \E m \in ToSet(ms) : x \in Spellings(m)
              /\ \A j \in 1..i : Spellings(ms[j]) \cap MembersOf(g[i]) # {}
           T == {i \in Nat : i \in 0..n => Fine(i)}
<1>5. 0 \in T
    <2>1. SetSound(g[0]) /\ g[0].enc # "none" /\ MembersOf(g[0]) = MembersOf(s)
        BY <1>1, <1>4, SetCreatedIs
    <2> QED BY <2>1
<1>6. ASSUME NEW i \in Nat, i \in T PROVE i + 1 \in T
    <2> SUFFICES ASSUME i + 1 \in 0..n PROVE Fine(i + 1)
        OBVIOUS
    <2> DEFINE m == ms[i + 1]
    <2>1. i \in 0..n /\ i + 1 \in 1..n /\ (i + 1) - 1 = i
        BY <1>1
    <2>2. Fine(i)
        BY <1>6, <2>1
    <2>3. m \in Strings /\ m \in ToSet(ms)
        BY <1>1, <2>1 DEF ToSet
    <2>4. g[i + 1] = SetAdd(g[i], m)
        BY <1>4, <2>1
    <2> HIDE DEF m
    <2>5. /\ SetSound(g[i + 1]) /\ g[i + 1].enc # "none"
          /\ MembersOf(g[i + 1]) = MembersOf(g[i]) \cup {Spelled(g[i], m)}
        BY <2>2, <2>3, <2>4, SetAddIs
    <2>6. Spelled(g[i], m) \in Spellings(m)
        BY <2>2, <2>3, IsMemberIs
    <2>7. ASSUME NEW j \in 1..(i + 1) PROVE Spellings(ms[j]) \cap MembersOf(g[i + 1]) # {}
        <3>1. CASE j = i + 1
            BY <2>5, <2>6, <3>1 DEF m
        <3>2. CASE j # i + 1
            <4>1. j \in 1..i
                BY <3>2
            <4> QED BY <2>2, <2>5, <4>1
        <3> QED BY <3>1, <3>2
    <2>8. ASSUME NEW x \in MembersOf(g[i + 1])
          PROVE  x \in MembersOf(s) \/ \E m2 \in ToSet(ms) : x \in Spellings(m2)
        BY <2>2, <2>3, <2>5, <2>6
    <2> QED BY <2>5, <2>7, <2>8
<1>7. Fine(n)
    <2>1. \A i \in Nat : i \in T
        <3> HIDE DEF T
        <3> QED BY <1>5, <1>6, Reached
    <2>2. n \in Nat /\ n \in 0..n
        BY <1>1
    <2> HIDE DEF Fine
    <2> QED BY <2>1, <2>2
<1>8. ASSUME NEW m \in ToSet(ms) PROVE Spellings(m) \cap MembersOf(g[n]) # {}
    <2>1. PICK j \in 1..n : ms[j] = m
        BY <1>1 DEF ToSet
    <2> QED BY <1>7, <2>1
<1> QED BY <1>3, <1>7, <1>8

(* A replay evaluates one command after the other.                         *)
Replaying(c, g) == g = [i \in 0..Len(c) |-> IF i = 0 THEN EmptyDb ELSE Replay(g[i - 1], c[i])]

LEMMA ReplayingExists ==
    ASSUME NEW c, Len(c) \in Nat
    PROVE  \E g : Replaying(c, g)
<1> DEFINE Done(n, g) == g = [i \in 0..n |-> IF i = 0 THEN EmptyDb ELSE Replay(g[i - 1], c[i])]
           T == {n \in Nat : \E g : Done(n, g)}
<1>1. 0 \in T
    <2> DEFINE g == [i \in 0..0 |-> EmptyDb]
    <2>1. Done(0, g)
        OBVIOUS
    <2> QED BY <2>1
<1>2. ASSUME NEW n \in Nat, n \in T PROVE n + 1 \in T
    <2>1. PICK g : Done(n, g)
        BY <1>2
    <2> DEFINE h == [i \in 0..(n + 1) |-> IF i = n + 1 THEN Replay(g[n], c[n + 1]) ELSE g[i]]
    <2>2. ASSUME NEW i \in 0..(n + 1)
          PROVE  h[i] = IF i = 0 THEN EmptyDb ELSE Replay(h[i - 1], c[i])
        <3>1. CASE i = n + 1
            <4>1. n \in 0..(n + 1) /\ n # n + 1 /\ i # 0 /\ i - 1 = n
                BY <3>1
            <4>2. h[n] = g[n] /\ h[i] = Replay(g[n], c[n + 1])
                BY <3>1, <4>1
            <4> HIDE DEF h
            <4> QED BY <3>1, <4>1, <4>2
        <3>2. CASE i # n + 1
            <4>1. i \in 0..n /\ (i # 0 => i - 1 \in 0..(n + 1) /\ i - 1 # n + 1)
                BY <3>2
            <4>2. h[i] = g[i] /\ (i # 0 => h[i - 1] = g[i - 1])
                BY <3>2, <4>1
            <4>3. g[i] = IF i = 0 THEN EmptyDb ELSE Replay(g[i - 1], c[i])
                BY <2>1, <4>1
            <4> HIDE DEF h
            <4> QED BY <4>2, <4>3
        <3> QED BY <3>1, <3>2
    <2>3. Done(n + 1, h)
        <3>1. h = [i \in 0..(n + 1) |-> h[i]]
            OBVIOUS
        <3> HIDE DEF h
        <3> QED BY <2>2, <3>1
    <2> HIDE DEF Done
    <2> QED BY <2>3
<1>3. \A n \in Nat : n \in T
    <2> HIDE DEF T
    <2> QED BY <1>1, <1>2, Reached
<1>4. PICK g : Done(Len(c), g)
    BY <1>3
<1> QED BY <1>4 DEF Replaying

LEMMA ReplayedIs ==
    ASSUME NEW c, Len(c) \in Nat
    PROVE  \E g : /\ g[0] = EmptyDb /\ \A i \in 1..Len(c) : g[i] = Replay(g[i - 1], c[i])
                  /\ Replayed(c) = g[Len(c)]
<1> DEFINE g == CHOOSE h : Replaying(c, h)
<1>1. Replaying(c, g)
    BY ReplayingExists
<1>2. Replayed(c) = g[Len(c)]
    BY DEF Replayed, Replaying
<1> HIDE DEF g
<1>3. \A i \in 0..Len(c) : g[i] = IF i = 0 THEN EmptyDb ELSE Replay(g[i - 1], c[i])
    BY <1>1 DEF Replaying
<1>4. 0 \in 0..Len(c) /\ \A i \in 1..Len(c) : i \in 0..Len(c) /\ i # 0
    OBVIOUS
<1> QED BY <1>2, <1>3, <1>4

-----------------------------------------------------------------------------
(* HSET's fields.  The last of the values for a field is kept.             *)
LEMMA GreatestOf ==
    ASSUME NEW n \in Nat, NEW A \in SUBSET (1..n), A # {}
    PROVE  Max(A) \in A /\ \A y \in A : Max(A) >= y
<1> DEFINE B == {n - y : y \in A}
<1>1. B \in SUBSET Nat /\ B # {}
    <2>1. \A y \in A : n - y \in Nat
        OBVIOUS
    <2>2. PICK y \in A : TRUE
        OBVIOUS
    <2>3. n - y \in B
        BY <2>2
    <2> QED BY <2>1, <2>3
<1>2. PICK b \in B : \A x \in B : b <= x
    BY <1>1, LeastPlace
<1>3. PICK a \in A : b = n - a
    BY <1>2
<1>4. \A y \in A : a >= y
    <2> SUFFICES ASSUME NEW y \in A PROVE a >= y
        OBVIOUS
    <2>1. n - a <= n - y
        BY <1>2, <1>3
    <2> QED BY <2>1
<1> HIDE DEF B
<1>5. \E x \in A : \A y \in A : x >= y
    BY <1>4
<1> QED BY <1>5 DEF Max

LEMMA HashWithType ==
    ASSUME NEW m, DOMAIN m \subseteq Strings, \A x \in DOMAIN m : m[x] \in Strings,
           NEW args \in Seq(Strings), Len(args) >= 3
    PROVE  /\ DOMAIN HashWith(m, args) # {} /\ DOMAIN HashWith(m, args) \subseteq Strings
           /\ HashWith(m, args) \in [DOMAIN HashWith(m, args) -> Strings]
<1> DEFINE P == {i \in 2..(Len(args) - 1) : i % 2 = 0}
           A(f) == {i \in 2..(Len(args) - 1) : i % 2 = 0 /\ args[i] = f}
           new == {args[i] : i \in P}
           r == [f \in DOMAIN m \cup new |-> IF f \in new THEN args[Max(A(f)) + 1] ELSE m[f]]
<1>1. Len(args) \in Nat /\ \A i \in 1..Len(args) : args[i] \in Strings
    BY LenProperties, ElementOfSeq
<1>2. 2 \in P
    BY <1>1
<1>3. \A i \in P : args[i] \in Strings
    BY <1>1
<1>4. new # {} /\ new \subseteq Strings
    BY <1>2, <1>3
<1>5. ASSUME NEW f \in new PROVE args[Max(A(f)) + 1] \in Strings
    <2>1. A(f) # {} /\ A(f) \in SUBSET (1..Len(args))
        BY <1>1
    <2>2. Max(A(f)) \in A(f)
        <3> HIDE DEF A
        <3> QED BY <1>1, <2>1, GreatestOf
    <2>3. Max(A(f)) \in 2..(Len(args) - 1)
        BY <2>2
    <2> HIDE DEF A
    <2>4. Max(A(f)) + 1 \in 1..Len(args)
        BY <1>1, <2>3
    <2> QED BY <1>1, <2>4
<1>6. HashWith(m, args) = r
    BY DEF HashWith
<1> HIDE DEF new, A
<1>7. DOMAIN r = DOMAIN m \cup new /\ \A f \in DOMAIN r : r[f] \in Strings
    BY <1>5
<1>8. r = [f \in DOMAIN r |-> r[f]]
    OBVIOUS
<1> HIDE DEF r
<1> QED BY <1>4, <1>6, <1>7, <1>8

(* The line of a hash makes the hash.                                      *)
LEMMA HashRestored ==
    ASSUME NEW m, DOMAIN m \in SUBSET Strings, m \in [DOMAIN m -> Strings],
           NEW o \in Orders(DOMAIN m), NEW args, Len(args) = 1 + 2 * Len(o),
           \A j \in 1..Len(o) : args[2 * j] = o[j] /\ args[2 * j + 1] = m[o[j]]
    PROVE  HashWith(EmptyDb, args) = m
<1> DEFINE n == Len(o)
           P == {i \in 2..(Len(args) - 1) : i % 2 = 0}
           A(f) == {i \in 2..(Len(args) - 1) : i % 2 = 0 /\ args[i] = f}
           new == {args[i] : i \in P}
           r == [f \in DOMAIN EmptyDb \cup new |->
                    IF f \in new THEN args[Max(A(f)) + 1] ELSE EmptyDb[f]]
<1>1. /\ n \in Nat /\ \A x \in DOMAIN m : \E j \in 1..n : o[j] = x
      /\ \A j \in 1..n : o[j] \in DOMAIN m
      /\ \A i, j \in 1..n : o[i] = o[j] => i = j
    <2>1. o \in Seq(DOMAIN m)
        BY OrderIs
    <2> QED BY <2>1, OrderIs, LenProperties, ElementOfSeq
<1>2. Len(args) = 1 + 2 * n /\ \A j \in 1..n : args[2 * j] = o[j] /\ args[2 * j + 1] = m[o[j]]
    OBVIOUS
<1> HIDE DEF n
<1>3. \A i \in P : \E j \in 1..n : i = 2 * j
    <2> SUFFICES ASSUME NEW i \in P PROVE \E j \in 1..n : i = 2 * j
        OBVIOUS
    <2>1. i \in 2..(2 * n) /\ i % 2 = 0
        BY <1>1, <1>2
    <2> DEFINE j == i \div 2
    <2>2. i = 2 * j /\ j \in Int
        BY <1>1, <2>1
    <2> HIDE DEF j
    <2>3. j \in 1..n
        BY <1>1, <2>1, <2>2
    <2> QED BY <2>2, <2>3
<1>4. \A j \in 1..n : 2 * j \in P
    BY <1>1, <1>2
<1>5. new = DOMAIN m
    <2>1. ASSUME NEW i \in P PROVE args[i] \in DOMAIN m
        <3>1. PICK j \in 1..n : i = 2 * j
            BY <1>3
        <3> QED BY <1>1, <1>2, <3>1
    <2>2. ASSUME NEW x \in DOMAIN m PROVE \E i \in P : args[i] = x
        <3>1. PICK j \in 1..n : o[j] = x
            BY <1>1
        <3>2. args[2 * j] = x /\ 2 * j \in P
            BY <1>2, <1>4, <3>1
        <3> QED BY <3>2
    <2> HIDE DEF P
    <2> QED BY <2>1, <2>2
<1>6. ASSUME NEW x \in DOMAIN m PROVE args[Max(A(x)) + 1] = m[x]
    <2>1. PICK j \in 1..n : o[j] = x
        BY <1>1
    <2>2. 2 * j \in A(x)
        BY <1>2, <1>4, <2>1
    <2>3. ASSUME NEW i \in A(x) PROVE i = 2 * j
        <3>1. i \in P /\ args[i] = x
            OBVIOUS
        <3>2. PICK k \in 1..n : i = 2 * k
            BY <1>3, <3>1
        <3>3. o[k] = x
            BY <1>2, <3>1, <3>2
        <3> QED BY SMTT(30), <1>1, <2>1, <3>2, <3>3
    <2>4. A(x) \in SUBSET (1..Len(args)) /\ Len(args) \in Nat
        BY <1>1, <1>2
    <2> HIDE DEF A
    <2>5. Max(A(x)) \in A(x)
        BY <2>2, <2>4, GreatestOf
    <2>6. Max(A(x)) = 2 * j
        BY <2>3, <2>5
    <2> QED BY <1>2, <2>1, <2>6
<1>7. HashWith(EmptyDb, args) = r
    BY DEF HashWith
<1> HIDE DEF new, A
<1>8. r = [x \in DOMAIN m |-> m[x]]
    <2>1. DOMAIN EmptyDb = {}
        BY DEF EmptyDb
    <2>2. DOMAIN EmptyDb \cup new = DOMAIN m
        BY <1>5, <2>1
    <2> QED BY <1>5, <1>6, <2>2
<1> QED BY <1>7, <1>8

-----------------------------------------------------------------------------
(* The replay of one line.  It touches the key of the line only.           *)
Store(d) == DOMAIN d \subseteq Strings /\ \A k \in DOMAIN d : IsEntry(d[k])
Unspaced(d) == \A k \in DOMAIN d : ~Spaced(k, d[k])
OnlyAt(d, k, r) ==
    /\ DOMAIN r \subseteq DOMAIN d \cup {k} /\ DOMAIN d \subseteq DOMAIN r
    /\ \A j \in DOMAIN d : j # k => r[j] = d[j]

LEMMA StoredSafe ==
    ASSUME NEW d, Store(d), NEW k \in Strings, NEW e, IsEntry(e)
    PROVE  Store(Stored(d, k, e))
<1> DEFINE r == Stored(d, k, e)
<1>1. /\ DOMAIN r = DOMAIN d \cup {k} /\ r[k] = e
      /\ \A j \in DOMAIN d : j # k => r[j] = d[j]
    BY DEF Stored
<1> HIDE DEF r
<1>2. \A j \in DOMAIN r : IsEntry(r[j])
    BY <1>1, Zenon DEF Store
<1>3. Store(r)
    BY <1>1, <1>2 DEF Store
<1> QED BY <1>3 DEF r

LEMMA StoredUnspaced ==
    ASSUME NEW d, Unspaced(d), NEW k, NEW e, ~Spaced(k, e)
    PROVE  Unspaced(Stored(d, k, e))
<1> DEFINE r == Stored(d, k, e)
<1>1. /\ DOMAIN r = DOMAIN d \cup {k} /\ r[k] = e
      /\ \A j \in DOMAIN d : j # k => r[j] = d[j]
    BY DEF Stored
<1> HIDE DEF r
<1>2. Unspaced(r)
    BY <1>1, Zenon DEF Unspaced
<1> QED BY <1>2 DEF r

(* What a replay of a line of key k keeps.                                 *)
Replays(d, k, r) ==
    /\ Store(r) /\ OnlyAt(d, k, r)
    /\ Unspaced(d) => Unspaced(r)

(* That a key is new, with this value.                                     *)
Anew(d, k, type, val, r) ==
    DOMAIN r = DOMAIN d \cup {k} /\ r[k] = [type |-> type, val |-> val, ttl |-> FALSE]

(* A value is put under a new key, or in place of the old one.             *)
LEMMA RevisedIs ==
    ASSUME NEW d, Store(d), NEW k \in Strings, NEW type, type \in {"hash", "list", "set"}, NEW val,
           Fits(d, k, type) => IsValue([type |-> type, val |-> val]),
           NEW r, r = Revised(d, k, type, val)
    PROVE  Replays(d, k, r) /\ (k \notin DOMAIN d => Anew(d, k, type, val, r))
<1> DEFINE e == [type |-> type, val |-> val, ttl |-> k \in DOMAIN d /\ d[k].ttl]
<1>1. CASE ~Fits(d, k, type)
    <2>1. r = d /\ k \in DOMAIN d
        BY <1>1 DEF Revised, Fits
    <2> QED BY <2>1 DEF OnlyAt, Replays
<1>2. CASE Fits(d, k, type)
    <2>1. r = Stored(d, k, e)
        BY <1>2 DEF Revised
    <2>2. (k \in DOMAIN d /\ d[k].ttl) \in BOOLEAN
        OBVIOUS
    <2>3. IsEntry(e)
        <3>1. DOMAIN e = {"type", "val", "ttl"} /\ e.type = type /\ e.val = val /\ e.ttl \in BOOLEAN
            BY <2>2
        <3> DEFINE v == [type |-> type, val |-> val]
        <3>2. IsValue(v) /\ v.type = type /\ v.val = val
            BY <1>2
        <3> HIDE DEF e, v
        <3>3. IsValue(e)
            BY <3>1, <3>2 DEF IsValue
        <3> QED BY <3>1, <3>3 DEF IsEntry
    <2>4. ~Spaced(k, e)
        BY DEF Spaced
    <2>5. k \notin DOMAIN d => e = [type |-> type, val |-> val, ttl |-> FALSE]
        OBVIOUS
    <2> HIDE DEF e
    <2>6. DOMAIN r = DOMAIN d \cup {k} /\ r[k] = e /\ OnlyAt(d, k, r)
        BY <2>1 DEF Stored, OnlyAt
    <2>7. Store(r)
        BY <2>1, <2>3, StoredSafe
    <2>8. Unspaced(d) => Unspaced(r)
        BY <2>1, <2>4, StoredUnspaced
    <2>9. k \notin DOMAIN d => Anew(d, k, type, val, r)
        BY <2>5, <2>6 DEF Anew
    <2> QED BY <2>6, <2>7, <2>8, <2>9 DEF Replays
<1> QED BY <1>1, <1>2

LEMMA ArgsAre ==
    ASSUME NEW c, DumpLine(c)
    PROVE  /\ Tail(c) \in Seq(Strings) /\ Len(Tail(c)) = Len(c) - 1 /\ Len(c) \in Nat
           /\ \A i \in 1..(Len(c) - 1) : Tail(c)[i] = c[i + 1]
           /\ Head(Tail(c)) = c[2] /\ c[2] \in Strings /\ c[3] \in Strings
           /\ Tail(c)[1] = c[2] /\ Tail(c)[2] = c[3]
           /\ Tail(Tail(c)) \in Seq(Strings) /\ Len(Tail(Tail(c))) = Len(c) - 2
           /\ \A i \in 1..(Len(c) - 2) : Tail(Tail(c))[i] = c[i + 2]
<1> DEFINE a == Tail(c)
<1>1. c \in Seq(Strings) /\ Len(c) >= 3 /\ Len(c) \in Nat
    BY LenProperties DEF DumpLine
<1>2. c[2] \in Strings /\ c[3] \in Strings
    BY <1>1, ElementOfSeq
<1>3. /\ a \in Seq(Strings) /\ Len(a) = Len(c) - 1
      /\ \A i \in 1..(Len(c) - 1) : a[i] = c[i + 1]
    BY <1>1, RestIs
<1> HIDE DEF a
<1>4. a[1] = c[2] /\ a[2] = c[3]
    <2>1. 1 \in 1..(Len(c) - 1) /\ 2 \in 1..(Len(c) - 1) /\ 1 + 1 = 2 /\ 2 + 1 = 3
        BY <1>1
    <2> QED BY <1>3, <2>1
<1>5. /\ Head(a) = a[1] /\ Tail(a) \in Seq(Strings) /\ Len(Tail(a)) = Len(a) - 1
      /\ \A i \in 1..(Len(a) - 1) : Tail(a)[i] = a[i + 1]
    <2>1. Len(a) # 0
        BY <1>1, <1>3
    <2> QED BY <1>3, <2>1, RestIs
<1>6. Len(Tail(a)) = Len(c) - 2
    BY <1>1, <1>3, <1>5
<1>7. ASSUME NEW i \in 1..(Len(c) - 2) PROVE Tail(a)[i] = c[i + 2]
    <2>1. i \in 1..(Len(a) - 1) /\ i + 1 \in 1..(Len(c) - 1) /\ (i + 1) + 1 = i + 2
        BY <1>1, <1>3
    <2> QED BY <1>3, <1>5, <2>1
<1> QED BY <1>1, <1>2, <1>3, <1>4, <1>5, <1>6, <1>7 DEF a

(* SET, of single words.                                                   *)
LEMMA SetReplayed ==
    ASSUME NEW d, Store(d), NEW c, DumpLine(c), c[1] = Word("SET")
    PROVE  /\ Replays(d, c[2], Replay(d, c))
           /\ Len(c) = 3 => Anew(d, c[2], "string", c[3], Replay(d, c))
<1> DEFINE a == Tail(c)
           opts == SubSeq(a, 3, Len(a))
           t == opts # <<>> /\ Parse[Last(opts)] > 0
           e == [type |-> "string", val |-> a[2], ttl |-> t]
           r == Stored(d, c[2], e)
<1>1. /\ a \in Seq(Strings) /\ Len(a) = Len(c) - 1 /\ Len(c) \in Nat
      /\ a[1] = c[2] /\ a[2] = c[3] /\ c[2] \in Strings /\ c[3] \in Strings
    BY ArgsAre
<1>2. Replay(d, c) = ReplaySet(d, a)
    BY WordsDiffer DEF Replay
<1>3. ReplaySet(d, a) = IF OptionsOK(opts) THEN r ELSE d
    BY <1>1 DEF ReplaySet
<1>4. IsEntry(e)
    <2>1. t \in BOOLEAN
        OBVIOUS
    <2> HIDE DEF t
    <2>2. DOMAIN e = {"type", "val", "ttl"} /\ e.ttl \in BOOLEAN /\ e.type = "string" /\ e.val = c[3]
        BY <1>1, <2>1
    <2> HIDE DEF e
    <2> QED BY <1>1, <2>2 DEF IsEntry, IsValue
<1>5. ~Spaced(c[2], e)
    <2>1. Len(c) >= 3 /\ \A i \in 2..Len(c) : Len(c[i]) = 1
        BY DEF DumpLine
    <2>2. Len(c[2]) = 1 /\ Len(c[3]) = 1
        BY <1>1, <2>1
    <2>3. c[2] \in Seq(Words) /\ c[3] \in Seq(Words)
        BY <1>1, AofAssumption
    <2>4. ASSUME NEW x \in Seq(Words), NEW y \in Seq(Words), Len(x) = 1, Len(y) = 1
          PROVE  ~(Len(x \o y) > 2)
        <3>1. Len(x \o y) = 2
            BY SMTT(30), <2>4, ConcatProperties
        <3> QED BY <3>1
    <2>5. e.val = c[3]
        BY <1>1
    <2>6. ~(Len(c[2] \o c[3]) > 2)
        BY <2>2, <2>3, <2>4
    <2> HIDE DEF e
    <2> QED BY <2>5, <2>6 DEF Spaced
<1>6. Len(c) = 3 => OptionsOK(opts) /\ t = FALSE
    <2> SUFFICES ASSUME Len(c) = 3 PROVE OptionsOK(opts) /\ t = FALSE
        OBVIOUS
    <2>1. opts = <<>>
        BY <1>1
    <2>2. OptionsOK(<<>>)
        <3>1. Len(<<>>) = 0 /\ DOMAIN <<>> = {} /\ 0 % 2 = 0
            OBVIOUS
        <3> QED BY <3>1 DEF OptionsOK
    <2> QED BY <2>1, <2>2
<1>7. Len(c) = 3 => e = [type |-> "string", val |-> c[3], ttl |-> FALSE]
    <2> HIDE DEF t, opts
    <2> QED BY <1>1, <1>6
<1> HIDE DEF e, opts, t
<1>8. /\ DOMAIN r = DOMAIN d \cup {c[2]} /\ r[c[2]] = e /\ Replays(d, c[2], r)
    <2>1. DOMAIN r = DOMAIN d \cup {c[2]} /\ r[c[2]] = e /\ OnlyAt(d, c[2], r)
        BY DEF Stored, OnlyAt
    <2>2. Store(r)
        BY <1>1, <1>4, StoredSafe
    <2>3. Unspaced(d) => Unspaced(r)
        BY <1>5, StoredUnspaced
    <2> QED BY <2>1, <2>2, <2>3 DEF Replays
<1> HIDE DEF r
<1>9. Replays(d, c[2], d)
    BY DEF Replays, OnlyAt
<1>10. Len(c) = 3 => Anew(d, c[2], "string", c[3], r)
    BY <1>7, <1>8 DEF Anew
<1> QED BY <1>2, <1>3, <1>6, <1>8, <1>9, <1>10

(* The commands that add to a value.  What each makes of a key that is not *)
(* there is in the second part.                                            *)
LEMMA HashReplayed ==
    ASSUME NEW d, Store(d), NEW c, DumpLine(c), c[1] = Word("HSET")
    PROVE  /\ Replays(d, c[2], Replay(d, c))
           /\ c[2] \notin DOMAIN d =>
                Anew(d, c[2], "hash", HashWith(EmptyDb, Tail(c)), Replay(d, c))
<1> DEFINE a == Tail(c)
           k == c[2]
           m == Held(d, k, EmptyDb)
           v == HashWith(m, a)
<1>1. /\ a \in Seq(Strings) /\ Len(a) = Len(c) - 1 /\ Len(c) \in Nat
      /\ Head(a) = k /\ k \in Strings
    BY ArgsAre
<1>2. Replay(d, c) = Revised(d, k, "hash", v)
    <2>1. Replay(d, c) = Revised(d, Head(a), "hash", HashWith(Held(d, Head(a), EmptyDb), a))
        BY WordsDiffer DEF Replay
    <2> QED BY <1>1, <2>1
<1>3. Len(a) >= 3
    <2>1. Len(c) >= 4
        BY DEF DumpLine
    <2> QED BY <1>1, <2>1
<1>4. ASSUME Fits(d, k, "hash") PROVE IsValue([type |-> "hash", val |-> v])
    <2>1. DOMAIN m \subseteq Strings /\ \A x \in DOMAIN m : m[x] \in Strings
        <3>1. CASE k \in DOMAIN d
            <4>1. IsEntry(d[k]) /\ d[k].type = "hash" /\ m = d[k].val
                BY <1>4, <3>1 DEF Store, Fits, Held
            <4>2. DOMAIN d[k].val \subseteq Strings /\ d[k].val \in [DOMAIN d[k].val -> Strings]
                BY <4>1 DEF IsEntry, IsValue
            <4>3. ASSUME NEW h, h \in [DOMAIN h -> Strings] PROVE \A x \in DOMAIN h : h[x] \in Strings
                BY <4>3
            <4> HIDE DEF m
            <4> QED BY <4>1, <4>2, <4>3
        <3>2. CASE k \notin DOMAIN d
            BY <3>2 DEF Held, EmptyDb
        <3> QED BY <3>1, <3>2
    <2> HIDE DEF m, a
    <2>2. /\ DOMAIN v # {} /\ DOMAIN v \subseteq Strings /\ v \in [DOMAIN v -> Strings]
        BY <1>1, <1>3, <2>1, HashWithType
    <2> HIDE DEF v
    <2> DEFINE e == [type |-> "hash", val |-> v]
    <2>3. e.type = "hash" /\ e.val = v
        OBVIOUS
    <2> HIDE DEF e
    <2>4. IsValue(e)
        BY <2>2, <2>3 DEF IsValue
    <2> QED BY <2>4 DEF e
<1>5. k \notin DOMAIN d => v = HashWith(EmptyDb, a)
    BY DEF Held
<1> HIDE DEF v
<1>6. Replays(d, k, Replay(d, c)) /\ (k \notin DOMAIN d => Anew(d, k, "hash", v, Replay(d, c)))
    BY <1>1, <1>2, <1>4, RevisedIs
<1> QED BY <1>5, <1>6

LEMMA ListReplayed ==
    ASSUME NEW d, Store(d), NEW c, DumpLine(c), c[1] = Word("RPUSH")
    PROVE  /\ Replays(d, c[2], Replay(d, c))
           /\ c[2] \notin DOMAIN d => Anew(d, c[2], "list", Tail(Tail(c)), Replay(d, c))
<1> DEFINE b == Tail(Tail(c))
           k == c[2]
           l == Held(d, k, <<>>)
           v == l \o b
<1>1. b \in Seq(Strings) /\ Len(b) = Len(c) - 2 /\ Len(c) \in Nat /\ Head(Tail(c)) = k /\ k \in Strings
    BY ArgsAre
<1>2. Replay(d, c) = Revised(d, k, "list", v)
    <2>1. Replay(d, c) = Revised(d, Head(Tail(c)), "list", Held(d, Head(Tail(c)), <<>>) \o b)
        BY WordsDiffer DEF Replay
    <2> QED BY <1>1, <2>1
<1> HIDE DEF b
<1>3. Len(b) \in Nat \ {0}
    <2>1. Len(c) >= 3
        BY DEF DumpLine
    <2> DEFINE n == Len(b)
               m == Len(c)
    <2>2. n = m - 2 /\ m \in Nat /\ m >= 3
        BY <1>1, <2>1
    <2> HIDE DEF n, m
    <2>3. n \in Nat \ {0}
        BY <2>2
    <2> QED BY <2>3 DEF n
<1>4. ASSUME Fits(d, k, "list") PROVE IsValue([type |-> "list", val |-> v])
    <2>1. l \in Seq(Strings)
        <3>1. CASE k \in DOMAIN d
            <4>1. IsEntry(d[k]) /\ d[k].type = "list" /\ l = d[k].val
                BY <1>4, <3>1 DEF Store, Fits, Held
            <4> QED BY <4>1 DEF IsEntry, IsValue
        <3>2. CASE k \notin DOMAIN d
            <4>1. l = <<>>
                BY <3>2 DEF Held
            <4>2. <<>> \in Seq(Strings)
                OBVIOUS
            <4> HIDE DEF l
            <4> QED BY <4>1, <4>2
        <3> QED BY <3>1, <3>2
    <2> HIDE DEF l
    <2>2. v \in Seq(Strings) /\ Len(v) # 0
        <3>1. v \in Seq(Strings) /\ Len(v) = Len(l) + Len(b) /\ Len(l) \in Nat
            BY <1>1, <2>1, ConcatProperties, LenProperties
        <3> QED BY <1>3, <3>1
    <2> HIDE DEF v
    <2> DEFINE e == [type |-> "list", val |-> v]
    <2>3. e.type = "list" /\ e.val = v
        OBVIOUS
    <2> HIDE DEF e
    <2>4. IsValue(e)
        BY <2>2, <2>3 DEF IsValue
    <2> QED BY <2>4 DEF e
<1>5. k \notin DOMAIN d => v = b
    <2> SUFFICES ASSUME k \notin DOMAIN d PROVE v = b
        OBVIOUS
    <2>1. l = <<>>
        BY DEF Held
    <2> HIDE DEF l
    <2> QED BY <1>1, <2>1, ConcatEmptySeq
<1> HIDE DEF v
<1>6. Replays(d, k, Replay(d, c)) /\ (k \notin DOMAIN d => Anew(d, k, "list", v, Replay(d, c)))
    BY <1>1, <1>2, <1>4, RevisedIs
<1> QED BY <1>5, <1>6 DEF b

LEMMA SetMembersReplayed ==
    ASSUME NEW d, Store(d), NEW c, DumpLine(c), c[1] = Word("SADD")
    PROVE  /\ Replays(d, c[2], Replay(d, c))
           /\ c[2] \notin DOMAIN d => Anew(d, c[2], "set", SetWith(NoSet, Tail(Tail(c))), Replay(d, c))
<1> DEFINE b == Tail(Tail(c))
           k == c[2]
           s == Held(d, k, NoSet)
           v == SetWith(s, b)
<1>1. b \in Seq(Strings) /\ Len(b) = Len(c) - 2 /\ Len(c) \in Nat /\ Head(Tail(c)) = k /\ k \in Strings
    BY ArgsAre
<1>2. Replay(d, c) = Revised(d, k, "set", v)
    <2>1. Replay(d, c) = Revised(d, Head(Tail(c)), "set", SetWith(Held(d, Head(Tail(c)), NoSet), b))
        BY WordsDiffer DEF Replay
    <2> QED BY <1>1, <2>1
<1> HIDE DEF b
<1>3. Len(b) \in Nat \ {0}
    <2>1. Len(c) >= 3
        BY DEF DumpLine
    <2> DEFINE n == Len(b)
               m == Len(c)
    <2>2. n = m - 2 /\ m \in Nat /\ m >= 3
        BY <1>1, <2>1
    <2> HIDE DEF n, m
    <2>3. n \in Nat \ {0}
        BY <2>2
    <2> QED BY <2>3 DEF n
<1>4. ASSUME Fits(d, k, "set") PROVE IsValue([type |-> "set", val |-> v])
    <2>1. SetSound(s)
        <3>1. CASE k \in DOMAIN d
            <4>1. IsEntry(d[k]) /\ d[k].type = "set" /\ s = d[k].val
                BY <1>4, <3>1 DEF Store, Fits, Held
            <4> QED BY <4>1 DEF IsEntry, IsValue
        <3>2. CASE k \notin DOMAIN d
            <4>1. s = NoSet
                BY <3>2 DEF Held
            <4> QED BY <4>1, NoSetIs
        <3> QED BY <3>1, <3>2
    <2> HIDE DEF s
    <2>2. SetSound(v) /\ \A m \in ToSet(b) : Spellings(m) \cap MembersOf(v) # {}
        BY <1>1, <1>3, <2>1, SetWithIs
    <2>3. MembersOf(v) # {}
        <3>1. 1 \in DOMAIN b
            BY <1>1, <1>3, LenProperties
        <3>2. b[1] \in ToSet(b)
            BY <3>1 DEF ToSet
        <3> QED BY <2>2, <3>2
    <2> HIDE DEF v
    <2> DEFINE e == [type |-> "set", val |-> v]
    <2>4. e.type = "set" /\ e.val = v
        OBVIOUS
    <2> HIDE DEF e
    <2>5. IsValue(e)
        BY <2>2, <2>3, <2>4 DEF IsValue
    <2> QED BY <2>5 DEF e
<1>5. k \notin DOMAIN d => v = SetWith(NoSet, b)
    BY DEF Held
<1> HIDE DEF v
<1>6. Replays(d, k, Replay(d, c)) /\ (k \notin DOMAIN d => Anew(d, k, "set", v, Replay(d, c)))
    BY <1>1, <1>2, <1>4, RevisedIs
<1> QED BY <1>5, <1>6 DEF b

(* Any line.                                                               *)
LEMMA ReplayIs ==
    ASSUME NEW d, Store(d), NEW c, DumpLine(c)
    PROVE  Replays(d, c[2], Replay(d, c)) /\ c[2] \in Strings
<1>1. c[1] \in {Word("SET"), Word("HSET"), Word("RPUSH"), Word("SADD")}
    BY DEF DumpLine
<1> QED BY <1>1, ArgsAre, SetReplayed, HashReplayed, ListReplayed, SetMembersReplayed

(* The line of a key restores the key, where there was none.               *)
LEMMA LineRestores ==
    ASSUME NEW d, Store(d), NEW k \in Strings, NEW e, IsEntry(e), ~Spaced(k, e), k \notin DOMAIN d,
           NEW c \in Lines(k, e)
    PROVE  /\ c[2] = k /\ DOMAIN Replay(d, c) = DOMAIN d \cup {k}
           /\ Same(e, Replay(d, c)[k]) /\ ~Replay(d, c)[k].ttl
<1> DEFINE r == Replay(d, c)
<1>1. IsValue(e) /\ DumpLine(c) /\ e.type \in {"string", "hash", "list", "set"}
    <2>1. IsValue(e)
        BY DEF IsEntry
    <2> QED BY <2>1, LineIs, LinesAre
<1>2. ASSUME NEW v, Anew(d, k, e.type, v, r), e.type # "set", v = e.val
      PROVE  DOMAIN r = DOMAIN d \cup {k} /\ Same(e, r[k]) /\ ~r[k].ttl
    BY <1>2 DEF Anew, Same
<1>3. CASE e.type = "string"
    <2>1. c[1] = Word("SET") /\ Len(c) = 3 /\ c[2] = k /\ c[3] = e.val
        BY <1>1, <1>3, StringLine
    <2>2. Anew(d, k, "string", e.val, r)
        BY <1>1, <2>1, SetReplayed
    <2> QED BY <1>2, <1>3, <2>1, <2>2
<1>4. CASE e.type = "hash"
    <2>1. PICK o \in Orders(DOMAIN e.val) :
              /\ Len(c) = 2 + 2 * Len(o) /\ Len(o) \in Nat \ {0}
              /\ \A j \in 1..Len(o) : c[2 * j + 1] = o[j] /\ c[2 * j + 2] = e.val[o[j]]
        BY <1>1, <1>4, HashLine
    <2>2. c[1] = Word("HSET") /\ c[2] = k
        BY <1>1, <1>4, HashLine
    <2>3. Anew(d, k, "hash", HashWith(EmptyDb, Tail(c)), r)
        BY <1>1, <2>2, HashReplayed
    <2>4. HashWith(EmptyDb, Tail(c)) = e.val
        <3> DEFINE a == Tail(c)
        <3>1. Len(a) = Len(c) - 1 /\ \A i \in 1..(Len(c) - 1) : a[i] = c[i + 1]
            BY <1>1, ArgsAre
        <3> HIDE DEF a
        <3>2. Len(a) = 1 + 2 * Len(o)
            BY <2>1, <3>1
        <3>3. ASSUME NEW j \in 1..Len(o) PROVE a[2 * j] = o[j] /\ a[2 * j + 1] = e.val[o[j]]
            <4>1. /\ 2 * j \in 1..(Len(c) - 1) /\ 2 * j + 1 \in 1..(Len(c) - 1)
                  /\ (2 * j + 1) + 1 = 2 * j + 2
                BY <2>1
            <4>2. a[2 * j] = c[2 * j + 1] /\ a[2 * j + 1] = c[(2 * j + 1) + 1]
                BY <3>1, <4>1
            <4> QED BY <2>1, <4>1, <4>2
        <3>4. DOMAIN e.val \in SUBSET Strings /\ e.val \in [DOMAIN e.val -> Strings]
            BY <1>1, <1>4 DEF IsValue
        <3> DEFINE m == e.val
        <3>5. o \in Orders(DOMAIN m) /\ DOMAIN m \in SUBSET Strings /\ m \in [DOMAIN m -> Strings]
            BY <2>1, <3>4
        <3>6. \A j \in 1..Len(o) : a[2 * j] = o[j] /\ a[2 * j + 1] = m[o[j]]
            BY <3>3
        <3> HIDE DEF m
        <3>7. HashWith(EmptyDb, a) = m
            BY SMTT(30), <3>2, <3>5, <3>6, HashRestored
        <3> QED BY <3>7 DEF a, m
    <2> QED BY <1>2, <1>4, <2>2, <2>3, <2>4
<1>5. CASE e.type = "list"
    <2>1. c[1] = Word("RPUSH") /\ c[2] = k /\ c = <<Word("RPUSH"), k>> \o e.val /\ e.val \in Seq(Strings)
        BY <1>1, <1>5, ListLine
    <2>2. Anew(d, k, "list", Tail(Tail(c)), r)
        BY <1>1, <2>1, ListReplayed
    <2>3. Tail(Tail(c)) = e.val
        BY <2>1, WordsDiffer, TwoBehind
    <2> QED BY <1>2, <1>5, <2>1, <2>2, <2>3
<1>6. CASE e.type = "set"
    <2>1. PICK ms \in Seq(Strings) :
              /\ c = <<Word("SADD"), k>> \o ms /\ Len(ms) \in Nat \ {0}
              /\ ToSet(ms) = MembersOf(e.val)
        BY <1>1, <1>6, SetLine
    <2>2. c[1] = Word("SADD") /\ c[2] = k
        BY <1>1, <1>6, SetLine
    <2>3. Tail(Tail(c)) = ms
        BY <2>1, WordsDiffer, TwoBehind
    <2>4. Anew(d, k, "set", SetWith(NoSet, ms), r)
        BY <1>1, <2>2, <2>3, SetMembersReplayed
    <2> DEFINE s == SetWith(NoSet, ms)
    <2>5. /\ \A x \in MembersOf(s) : \E m \in ToSet(ms) : x \in Spellings(m)
          /\ \A m \in ToSet(ms) : Spellings(m) \cap MembersOf(s) # {}
        <3>1. SetSound(NoSet) /\ MembersOf(NoSet) = {} /\ Len(ms) # 0
            BY <2>1, NoSetIs
        <3>2. /\ \A x \in MembersOf(s) : x \in MembersOf(NoSet) \/ \E m \in ToSet(ms) : x \in Spellings(m)
              /\ \A m \in ToSet(ms) : Spellings(m) \cap MembersOf(s) # {}
            BY <3>1, SetWithIs
        <3> QED BY <3>1, <3>2
    <2> HIDE DEF s
    <2>6. DOMAIN r = DOMAIN d \cup {k} /\ r[k] = [type |-> "set", val |-> s, ttl |-> FALSE]
        BY <2>4 DEF Anew, s
    <2>7. r[k].type = "set" /\ r[k].val = s /\ r[k].ttl = FALSE
        <3>1. \A x, y, z : /\ [type |-> x, val |-> y, ttl |-> z].type = x
                           /\ [type |-> x, val |-> y, ttl |-> z].val = y
                           /\ [type |-> x, val |-> y, ttl |-> z].ttl = z
            OBVIOUS
        <3> QED BY ONLY <2>6, <3>1
    <2>8. SameSet(MembersOf(e.val), MembersOf(s))
        BY <2>1, <2>5 DEF SameSet
    <2>9. Same(e, r[k])
        BY <1>6, <2>7, <2>8 DEF Same
    <2> QED BY <2>2, <2>6, <2>7, <2>9
<1> QED BY <1>1, <1>3, <1>4, <1>5, <1>6

LEMMA LineKey ==
    ASSUME NEW k \in Strings, NEW e, IsValue(e), NEW c \in Lines(k, e)
    PROVE  c[2] = IF Spaced(k, e) THEN Word(Head(k)) ELSE k
<1>1. e.type \in {"string", "hash", "list", "set"}
    BY LinesAre, LineIs
<1>2. CASE e.type = "string"
    BY <1>2, StringLine
<1>3. CASE e.type # "string"
    <2>1. e.type = "hash" => c[2] = k
        BY HashLine
    <2>2. e.type = "list" => c[2] = k
        BY ListLine
    <2>3. e.type = "set" => c[2] = k
        BY SetLine
    <2>4. c[2] = k
        BY <1>1, <1>3, <2>1, <2>2, <2>3
    <2> QED BY <1>3, <2>4 DEF Spaced
<1> QED BY <1>2, <1>3

-----------------------------------------------------------------------------
(* The replay of the first lines of a dump of d, which are of the keys ks: *)
(* what it has so far, in r.                                               *)
LinesOf(d, ks, cmds) ==
    /\ ks \in [1..Len(cmds) -> DOMAIN d] /\ IsInjective(ks)
    /\ \A i \in 1..Len(cmds) : cmds[i] \in Lines(ks[i], d[ks[i]])

Misread(d, k) == \E x \in DOMAIN d : Spaced(x, d[x]) /\ Word(Head(x)) = k
Back(d, k, r) == k \in DOMAIN r /\ Same(d[k], r[k]) /\ ~r[k].ttl

Restores(d, ks, j, r) ==
    /\ Store(r) /\ Unspaced(r)
    /\ \A k \in DOMAIN r : Misread(d, k) \/ (Keeps(d, k) /\ \E i \in 1..j : ks[i] = k)
    /\ \A i \in 1..j : Keeps(d, ks[i]) => Back(d, ks[i], r)

LEMMA RestoresNext ==
    ASSUME NEW d, Store(d), NEW cmds, Len(cmds) \in Nat, NEW ks, LinesOf(d, ks, cmds),
           NEW j \in 1..Len(cmds), NEW r, Restores(d, ks, j - 1, r)
    PROVE  Restores(d, ks, j, Replay(r, cmds[j]))
<1> DEFINE k == ks[j]
           e == d[k]
           c == cmds[j]
           q == Replay(r, c)
<1>1. /\ k \in DOMAIN d /\ k \in Strings /\ IsEntry(e) /\ IsValue(e) /\ c \in Lines(k, e)
      /\ DumpLine(c) /\ e.type # "zset" /\ c[2] = IF Spaced(k, e) THEN Word(Head(k)) ELSE k
    <2>1. k \in DOMAIN d /\ k \in Strings /\ IsEntry(e) /\ IsValue(e) /\ c \in Lines(k, e)
        BY DEF LinesOf, Store, IsEntry
    <2> QED BY <2>1, LineIs, LineKey
<1>2. Replays(r, c[2], q)
    BY <1>1, ReplayIs DEF Restores
<1>3. Store(q) /\ Unspaced(q)
    BY <1>2 DEF Replays, Restores
<1>4. /\ 1..j = (1..(j - 1)) \cup {j}
      /\ \A i \in 1..(j - 1) : ks[i] # k
    <2>1. \A i \in 1..(j - 1) : i \in 1..Len(cmds) /\ i # j
        OBVIOUS
    <2> QED BY <2>1 DEF LinesOf, IsInjective
<1>5. /\ DOMAIN q \subseteq DOMAIN r \cup {c[2]}
      /\ \A x \in DOMAIN r : x # c[2] => x \in DOMAIN q /\ q[x] = r[x]
    BY <1>2 DEF Replays, OnlyAt
<1>6. CASE Keeps(d, k)
    <2>1. ~Misread(d, k) /\ ~Spaced(k, e) /\ c[2] = k
        BY <1>1, <1>6 DEF Keeps, Misread
    <2>2. k \notin DOMAIN r
        BY <1>4, <2>1 DEF Restores
    <2>3. Back(d, k, q)
        <3>1. Store(r)
            BY DEF Restores
        <3>2. DOMAIN q = DOMAIN r \cup {k} /\ Same(e, q[k]) /\ ~q[k].ttl
            <4>1. k \in Strings /\ IsEntry(e) /\ ~Spaced(k, e) /\ k \notin DOMAIN r /\ c \in Lines(k, e)
                BY <1>1, <2>1, <2>2
            <4> HIDE DEF k, e, c
            <4>2. /\ c[2] = k /\ DOMAIN Replay(r, c) = DOMAIN r \cup {k}
                  /\ Same(e, Replay(r, c)[k]) /\ ~Replay(r, c)[k].ttl
                BY ONLY <3>1, <4>1, LineRestores
            <4> QED BY <4>2
        <3> QED BY <3>2 DEF Back
    <2>4. \A x \in DOMAIN q : Misread(d, x) \/ (Keeps(d, x) /\ \E i \in 1..j : ks[i] = x)
        BY <1>4, <1>5, <1>6, <2>1 DEF Restores
    <2>5. \A i \in 1..j : Keeps(d, ks[i]) => Back(d, ks[i], q)
        <3> SUFFICES ASSUME NEW i \in 1..j, Keeps(d, ks[i]) PROVE Back(d, ks[i], q)
            OBVIOUS
        <3>1. CASE i = j
            BY <2>3, <3>1
        <3>2. CASE i # j
            <4>1. i \in 1..(j - 1) /\ ks[i] # k
                BY <1>4, <3>2
            <4>2. Back(d, ks[i], r)
                BY <4>1 DEF Restores
            <4> QED BY <1>5, <2>1, <4>1, <4>2 DEF Back
        <3> QED BY <3>1, <3>2
    <2> QED BY <1>3, <2>4, <2>5 DEF Restores
<1>7. CASE ~Keeps(d, k)
    <2>1. Misread(d, c[2])
        BY <1>1, <1>7 DEF Keeps, Misread
    <2>2. \A x \in DOMAIN q : Misread(d, x) \/ (Keeps(d, x) /\ \E i \in 1..j : ks[i] = x)
        BY <1>4, <1>5, <2>1 DEF Restores
    <2>3. \A i \in 1..j : Keeps(d, ks[i]) => Back(d, ks[i], q)
        <3> SUFFICES ASSUME NEW i \in 1..j, Keeps(d, ks[i]) PROVE Back(d, ks[i], q)
            OBVIOUS
        <3>1. i \in 1..(j - 1)
            BY <1>4, <1>7
        <3>2. Back(d, ks[i], r)
            BY <3>1 DEF Restores
        <3>3. ks[i] # c[2]
            BY <2>1 DEF Keeps, Misread
        <3> QED BY <1>5, <3>2, <3>3 DEF Back
    <2> QED BY <1>3, <2>2, <2>3 DEF Restores
<1> QED BY <1>6, <1>7

(* The replay of the first i lines.                                        *)
LEMMA LinesRestore ==
    ASSUME NEW d, Store(d), NEW cmds \in Seq(Seq(Strings)), NEW ks, LinesOf(d, ks, cmds),
           NEW i \in 0..Len(cmds)
    PROVE  Restores(d, ks, i, Replayed(SubSeq(cmds, 1, i)))
<1> DEFINE c == SubSeq(cmds, 1, i)
<1>1. Len(cmds) \in Nat /\ Len(c) = i /\ \A j \in 1..i : c[j] = cmds[j]
    BY LenProperties, SubSeqProperties
<1> HIDE DEF c
<1>0. Len(c) \in Nat
    BY <1>1
<1>2. PICK g : /\ g[0] = EmptyDb /\ \A j \in 1..Len(c) : g[j] = Replay(g[j - 1], c[j])
               /\ Replayed(c) = g[Len(c)]
    BY <1>0, ReplayedIs
<1> DEFINE K == {j \in Nat : j <= i => Restores(d, ks, j, g[j])}
<1>3. 0 \in K
    <2>1. Restores(d, ks, 0, EmptyDb)
        BY DEF Restores, Store, Unspaced, EmptyDb
    <2> QED BY <1>2, <2>1
<1>4. ASSUME NEW j \in Nat, j \in K PROVE j + 1 \in K
    <2> SUFFICES ASSUME j + 1 <= i PROVE Restores(d, ks, j + 1, g[j + 1])
        OBVIOUS
    <2>1. j + 1 \in 1..i /\ j + 1 \in 1..Len(cmds) /\ (j + 1) - 1 = j /\ j <= i
        BY <1>1
    <2>2. g[j + 1] = Replay(g[j], cmds[j + 1])
        BY <1>1, <1>2, <2>1
    <2>3. Restores(d, ks, (j + 1) - 1, g[j])
        BY <1>4, <2>1
    <2>4. Restores(d, ks, j + 1, Replay(g[j], cmds[j + 1]))
        BY <1>1, <2>1, <2>3, RestoresNext
    <2> QED BY <2>2, <2>4
<1>5. \A j \in Nat : j \in K
    <2> HIDE DEF K
    <2> QED BY <1>3, <1>4, Reached
<1>6. Restores(d, ks, i, g[i])
    BY <1>5
<1> QED BY <1>1, <1>2, <1>6 DEF c

-----------------------------------------------------------------------------
(* The inductive invariant.  Each line the dump has written is of a key it *)
(* has come to, and no two are of one key; every such key has its line,    *)
(* but for sorted sets.  Whenever no dump is under way the file is the     *)
(* beginning of what the lines are encoded to.                             *)
Dumped ==
    \E ks \in [1..Len(lines) -> DOMAIN saved \ left] :
        /\ LinesOf(saved, ks, lines)
        /\ \A k \in DOMAIN saved \ left :
              saved[k].type # "zset" => \E i \in 1..Len(lines) : ks[i] = k

Cut == \E n \in 0..Len(EncodeAll(lines)) : file = SubSeq(EncodeAll(lines), 1, n)

AofIInv ==
    /\ Store(db) /\ Store(saved)
    /\ status \in {"up", "dumping", "down"} /\ writes \in 0..MaxWrites
    /\ left \subseteq DOMAIN saved
    /\ lines \in Seq(Seq(Strings)) /\ \A i \in 1..Len(lines) : DumpLine(lines[i])
    /\ status = "down" => db = EmptyDb
    /\ status = "dumping" => saved = db /\ file = <<>>
    /\ Dumped
    /\ status # "dumping" => Cut

LEMMA Encoded ==
    ASSUME lines \in Seq(Seq(Strings)), \A i \in 1..Len(lines) : DumpLine(lines[i])
    PROVE  /\ lines \in Commands(Strings) /\ Len(lines) \in Nat
           /\ EncodeAll(lines) \in Seq(Symbols(Strings)) /\ Len(EncodeAll(lines)) \in Nat
<1>1. \A i \in 1..Len(lines) : Len(lines[i]) # 0
    BY LenProperties, ElementOfSeq DEF DumpLine
<1>2. EncodeAll(lines) \in Seq(Symbols(Strings))
    BY EndsAre
<1> QED BY <1>1, <1>2, LenProperties DEF Commands

(* What a restart reads and makes of it.                                   *)
Restored(i, ks) ==
    /\ Decode(file).kind = "ok" /\ Decode(file).cmds = SubSeq(lines, 1, i)
    /\ Restores(saved, ks, i, Replayed(Decode(file).cmds))
    /\ file = EncodeAll(lines) => i = Len(lines)

LEMMA RestartIs ==
    ASSUME AofIInv, status = "down", Decode(file).kind # "panic",
           NEW ks, LinesOf(saved, ks, lines)
    PROVE  \E i \in 0..Len(lines) : Restored(i, ks)
<1> DEFINE all == EncodeAll(lines)
           m == Len(lines)
<1>1. /\ lines \in Seq(Seq(Strings)) /\ lines \in Commands(Strings) /\ m \in Nat
      /\ all \in Seq(Symbols(Strings)) /\ Len(all) \in Nat
    BY Encoded DEF AofIInv
<1>2. PICK n \in 0..Len(all) : file = SubSeq(all, 1, n)
    BY DEF AofIInv, Cut
<1>3. /\ Decode(file).kind \in {"ok", "panic"}
      /\ Decode(file).kind = "ok" =>
            \E i \in 0..Len(lines) : Decode(file).cmds = SubSeq(lines, 1, i) /\ n <= End(lines, i)
    BY <1>1, <1>2, CutFileIs
<1>4. Decode(file).kind = "ok"
    BY <1>3
<1>5. PICK i \in 0..Len(lines) : Decode(file).cmds = SubSeq(lines, 1, i) /\ n <= End(lines, i)
    BY <1>3, <1>4
<1>6. file = EncodeAll(lines) => i = Len(lines)
    <2> SUFFICES ASSUME file = all, i # m PROVE FALSE
        OBVIOUS
    <2>1. Len(file) = n
        BY <1>1, <1>2, SubSeqProperties
    <2>2. i \in 0..m /\ m \in 0..m /\ i < m
        BY <1>1
    <2>3. End(lines, i) < End(lines, m) /\ End(lines, m) = Len(all) /\ End(lines, i) \in Nat
        BY <1>1, <2>2, EndsGrow, EndsAre
    <2> QED BY <1>1, <1>5, <2>1, <2>3
<1>7. Restores(saved, ks, i, Replayed(SubSeq(lines, 1, i)))
    BY <1>1, LinesRestore DEF AofIInv
<1> QED BY <1>4, <1>5, <1>6, <1>7 DEF Restored

(* The dump of a key, and the replay of that, with nothing else there.     *)
LEMMA SettledKey ==
    ASSUME NEW d, Store(d), Unspaced(d), NEW k \in DOMAIN d, NEW line \in Lines(k, d[k])
    PROVE  DOMAIN Replayed(<<line>>) = {k} /\ Same(d[k], Replayed(<<line>>)[k])
<1>1. Len(<<line>>) = 1 /\ <<line>>[1] = line
    OBVIOUS
<1>2. Replayed(<<line>>) = Replay(EmptyDb, line)
    <2> DEFINE c == <<line>>
    <2>1. Len(c) \in Nat /\ Len(c) = 1 /\ c[1] = line
        BY <1>1
    <2> HIDE DEF c
    <2>2. PICK g : /\ g[0] = EmptyDb /\ \A i \in 1..Len(c) : g[i] = Replay(g[i - 1], c[i])
                   /\ Replayed(c) = g[Len(c)]
        BY <2>1, ReplayedIs
    <2>3. 1 \in 1..Len(c) /\ 1 - 1 = 0
        BY <2>1
    <2>4. g[1] = Replay(g[0], line)
        BY <2>1, <2>2, <2>3
    <2>5. Replayed(c) = Replay(EmptyDb, line)
        BY <2>1, <2>2, <2>4
    <2> QED BY <2>5 DEF c
<1> DEFINE e == d[k]
<1>3. k \in Strings /\ IsEntry(e) /\ ~Spaced(k, e) /\ line \in Lines(k, e)
    BY DEF Store, Unspaced
<1>4. Store(EmptyDb) /\ DOMAIN EmptyDb = {} /\ k \notin DOMAIN EmptyDb
    BY DEF Store, EmptyDb
<1> HIDE DEF e
<1>5. /\ line[2] = k /\ DOMAIN Replay(EmptyDb, line) = DOMAIN EmptyDb \cup {k}
      /\ Same(e, Replay(EmptyDb, line)[k]) /\ ~Replay(EmptyDb, line)[k].ttl
    BY ONLY <1>3, <1>4, LineRestores
<1> QED BY <1>2, <1>4, <1>5 DEF e

-----------------------------------------------------------------------------
LEMMA AofInitIInv == Init => AofIInv
<1> SUFFICES ASSUME Init PROVE AofIInv
    OBVIOUS
<1>1. /\ db = EmptyDb /\ status = "up" /\ writes = 0
      /\ file = <<>> /\ left = {} /\ lines = <<>> /\ saved = EmptyDb
    BY DEF Init
<1>2. Store(EmptyDb) /\ DOMAIN EmptyDb = {}
    BY DEF Store, EmptyDb
<1>3. lines \in Seq(Seq(Strings)) /\ Len(lines) = 0
    BY <1>1
<1>4. Dumped
    <2> DEFINE ks == [i \in 1..Len(lines) |-> <<>>]
    <2>1. 1..Len(lines) = {}
        BY <1>3
    <2>2. ks \in [1..Len(lines) -> DOMAIN saved \ left]
        BY <2>1
    <2>3. LinesOf(saved, ks, lines)
        BY <2>1 DEF LinesOf, IsInjective
    <2> HIDE DEF ks
    <2> QED BY <1>1, <1>2, <2>2, <2>3 DEF Dumped
<1>5. Cut
    <2>1. \A i \in 1..Len(lines) : DumpLine(lines[i])
        BY <1>3
    <2>2. EncodeAll(lines) \in Seq(Symbols(Strings)) /\ Len(EncodeAll(lines)) \in Nat
        BY <1>3, <2>1, Encoded
    <2>3. 0 \in 0..Len(EncodeAll(lines)) /\ SubSeq(EncodeAll(lines), 1, 0) = <<>>
        BY <2>2, SubSeqProperties
    <2> QED BY <1>1, <2>3 DEF Cut
<1> QED BY <1>1, <1>2, <1>3, <1>4, <1>5, AofAssumption DEF AofIInv

(* The commands of clients.                                                *)
LEMMA ClientSafe ==
    ASSUME AofIInv, Client, Store(db')
    PROVE  AofIInv'
<1>1. /\ status = "up" /\ status' = "up" /\ writes' = writes + 1 /\ writes < MaxWrites
      /\ file' = file /\ left' = left /\ lines' = lines /\ saved' = saved
    BY DEF Client, dumpVars
<1>2. writes' \in 0..MaxWrites
    BY <1>1, AofAssumption DEF AofIInv
<1>3. Dumped'
    BY <1>1 DEF AofIInv, Dumped
<1>4. Cut'
    BY <1>1 DEF AofIInv, Cut
<1> QED BY <1>1, <1>2, <1>3, <1>4 DEF AofIInv

LEMMA WriteSafe ==
    ASSUME AofIInv, NEW k \in Keys, NEW value \in Values, Write(k, value)
    PROVE  AofIInv'
<1> DEFINE e == Entry(value)
<1>1. Store(db) /\ k \in Strings /\ IsValue(value)
    BY AofAssumption DEF AofIInv
<1>2. e.type = value.type /\ e.val = value.val /\ e.ttl = FALSE /\ DOMAIN e = {"type", "val", "ttl"}
    BY DEF Entry
<1> HIDE DEF e
<1>3. IsEntry(e)
    BY <1>1, <1>2 DEF IsEntry, IsValue
<1>4. Store(Stored(db, k, e))
    BY <1>1, <1>3, StoredSafe
<1> QED BY <1>4, ClientSafe DEF Write, e

LEMMA ExpireSafe ==
    ASSUME AofIInv, NEW k \in DOMAIN db, Expire(k)
    PROVE  AofIInv'
<1> DEFINE d == db'
           o == db[k]
<1>1. Store(db) /\ IsEntry(o)
    BY DEF AofIInv, Store
<1>2. /\ DOMAIN d = DOMAIN db /\ d[k] = [o EXCEPT !.ttl = TRUE]
      /\ \A j \in DOMAIN db : j # k => d[j] = db[j]
    BY DEF Expire
<1> HIDE DEF d, o
<1>3. IsEntry(d[k])
    <2> DEFINE e == d[k]
    <2>1. DOMAIN e = DOMAIN o /\ e.type = o.type /\ e.val = o.val /\ e.ttl = TRUE
        BY <1>1, <1>2 DEF IsEntry
    <2> HIDE DEF e
    <2>2. IsEntry(e)
        BY <1>1, <2>1 DEF IsEntry, IsValue
    <2> QED BY <2>2 DEF e
<1>4. \A j \in DOMAIN d : IsEntry(d[j])
    BY <1>1, <1>2, <1>3, Zenon DEF Store
<1>5. Store(d)
    BY <1>1, <1>2, <1>4 DEF Store
<1> QED BY <1>5, ClientSafe DEF Expire, d

LEMMA DeleteSafe ==
    ASSUME AofIInv, NEW k \in DOMAIN db, Delete(k)
    PROVE  AofIInv'
<1>1. Store(Dropped(db, k))
    BY DEF AofIInv, Store, Dropped
<1> QED BY <1>1, ClientSafe DEF Delete

(* The lines of the keys the dump has come to.                             *)
LEMMA DumpKeySafe ==
    ASSUME AofIInv, NEW k \in left, DumpKey(k)
    PROVE  AofIInv'
<1> DEFINE e == saved[k]
           m == Len(lines)
<1>1. /\ status = "dumping" /\ status' = "dumping" /\ saved = db /\ db' = db /\ file' = file /\ file = <<>>
      /\ left' = left \ {k} /\ saved' = saved /\ writes' = writes /\ Store(saved)
      /\ k \in DOMAIN saved /\ k \in Strings /\ IsValue(e) /\ DOMAIN saved \ left' = (DOMAIN saved \ left) \cup {k}
    BY DEF DumpKey, AofIInv, Store, IsEntry
<1>2. lines \in Seq(Seq(Strings)) /\ m \in Nat
    BY LenProperties DEF AofIInv
<1>3. PICK ks \in [1..m -> DOMAIN saved \ left] :
          /\ LinesOf(saved, ks, lines)
          /\ \A j \in DOMAIN saved \ left : saved[j].type # "zset" => \E i \in 1..m : ks[i] = j
    BY DEF AofIInv, Dumped
<1>4. CASE Lines(k, e) = {}
    <2>1. lines' = lines /\ e.type = "zset"
        BY <1>1, <1>4, LineExists DEF DumpKey
    <2>2. ks \in [1..Len(lines') -> DOMAIN saved' \ left'] /\ LinesOf(saved', ks, lines')
        BY <1>1, <1>3, <2>1
    <2>3. \A j \in DOMAIN saved' \ left' : saved'[j].type # "zset" => \E i \in 1..Len(lines') : ks[i] = j
        BY <1>1, <1>3, <2>1
    <2>4. Dumped'
        BY <2>2, <2>3 DEF Dumped
    <2> QED BY <1>1, <2>1, <2>4 DEF AofIInv
<1>5. CASE Lines(k, e) # {}
    <2>1. PICK line \in Lines(k, e) : lines' = Append(lines, line)
        BY <1>1, <1>5 DEF DumpKey
    <2>2. DumpLine(line) /\ line \in Seq(Strings)
        BY <1>1, LineIs DEF DumpLine
    <2>3. /\ lines' \in Seq(Seq(Strings)) /\ Len(lines') = m + 1 /\ lines'[m + 1] = line
          /\ \A i \in 1..m : lines'[i] = lines[i]
        BY <1>2, <2>1, <2>2
    <2> DEFINE kt == [i \in 1..(m + 1) |-> IF i = m + 1 THEN k ELSE ks[i]]
    <2>4. 1..(m + 1) = (1..m) \cup {m + 1} /\ m + 1 \notin 1..m
        BY <1>2
    <2>5. /\ kt \in [1..(m + 1) -> DOMAIN saved \ left'] /\ kt[m + 1] = k
          /\ \A i \in 1..m : kt[i] = ks[i] /\ ks[i] # k
        BY <1>1, <1>3, <2>4
    <2> HIDE DEF kt
    <2>6. IsInjective(kt)
        <3>1. \A i, j \in 1..m : ks[i] = ks[j] => i = j
            BY <1>3 DEF LinesOf, IsInjective
        <3>2. DOMAIN kt = (1..m) \cup {m + 1}
            BY <2>4, <2>5
        <3> QED BY <2>5, <3>1, <3>2 DEF IsInjective
    <2>7. \A i \in 1..(m + 1) : lines'[i] \in Lines(kt[i], saved[kt[i]])
        <3> SUFFICES ASSUME NEW i \in 1..(m + 1) PROVE lines'[i] \in Lines(kt[i], saved[kt[i]])
            OBVIOUS
        <3>1. CASE i \in 1..m
            BY <1>3, <2>3, <2>5, <3>1 DEF LinesOf
        <3>2. CASE i = m + 1
            BY <2>3, <2>5, <3>2
        <3> QED BY <2>4, <3>1, <3>2
    <2>8. LinesOf(saved, kt, lines')
        BY <2>3, <2>5, <2>6, <2>7 DEF LinesOf
    <2>9. \A j \in DOMAIN saved \ left' : saved[j].type # "zset" => \E i \in 1..(m + 1) : kt[i] = j
        BY <1>1, <1>3, <2>4, <2>5
    <2>10. Dumped'
        <3>1. /\ kt \in [1..Len(lines') -> DOMAIN saved' \ left'] /\ LinesOf(saved', kt, lines')
              /\ \A j \in DOMAIN saved' \ left' :
                    saved'[j].type # "zset" => \E i \in 1..Len(lines') : kt[i] = j
            BY <1>1, <2>3, <2>5, <2>8, <2>9
        <3> QED BY <3>1 DEF Dumped
    <2>11. \A i \in 1..Len(lines') : DumpLine(lines'[i])
        <3> SUFFICES ASSUME NEW i \in 1..Len(lines') PROVE DumpLine(lines'[i])
            OBVIOUS
        <3>1. CASE i \in 1..m
            <4>1. DumpLine(lines[i]) /\ lines'[i] = lines[i]
                BY <2>3, <3>1 DEF AofIInv
            <4> QED BY <4>1
        <3>2. CASE i = m + 1
            BY <2>2, <2>3, <3>2
        <3> QED BY <2>3, <2>4, <3>1, <3>2
    <2> QED BY <1>1, <2>3, <2>10, <2>11 DEF AofIInv
<1> QED BY <1>4, <1>5

LEMMA BeginDumpSafe ==
    ASSUME AofIInv, BeginDump
    PROVE  AofIInv'
<1>1. /\ status' = "dumping" /\ file' = <<>> /\ left' = DOMAIN db /\ lines' = <<>>
      /\ saved' = db /\ db' = db /\ writes' = writes
    BY DEF BeginDump
<1>2. lines' \in Seq(Seq(Strings)) /\ Len(lines') = 0 /\ 1..Len(lines') = {}
    BY <1>1
<1>3. Dumped'
    <2> DEFINE ks == [i \in 1..Len(lines') |-> <<>>]
    <2>1. ks \in [1..Len(lines') -> DOMAIN saved' \ left'] /\ LinesOf(saved', ks, lines')
        BY <1>2 DEF LinesOf, IsInjective
    <2>2. DOMAIN saved' \ left' = {}
        BY <1>1
    <2> HIDE DEF ks
    <2> QED BY <2>1, <2>2 DEF Dumped
<1> QED BY <1>1, <1>2, <1>3 DEF AofIInv

LEMMA EndDumpSafe ==
    ASSUME AofIInv, EndDump
    PROVE  AofIInv'
<1> DEFINE all == EncodeAll(lines)
<1>1. /\ status' = "up" /\ file' = all /\ left' = left /\ lines' = lines
      /\ saved' = saved /\ db' = db /\ writes' = writes
    BY DEF EndDump
<1>2. all \in Seq(Symbols(Strings)) /\ Len(all) \in Nat
    BY Encoded DEF AofIInv
<1>3. Dumped'
    BY <1>1 DEF AofIInv, Dumped
<1>4. Cut'
    <2>1. Len(all) \in 0..Len(all) /\ all = SubSeq(all, 1, Len(all))
        BY <1>2, SubSeqProperties
    <2> HIDE DEF all
    <2>2. \E n \in 0..Len(all) : file' = SubSeq(all, 1, n)
        BY <1>1, <2>1
    <2> QED BY <1>1, <2>2 DEF Cut, all
<1> QED BY <1>1, <1>3, <1>4 DEF AofIInv

LEMMA KillSafe ==
    ASSUME AofIInv, Kill
    PROVE  AofIInv'
<1>1. /\ status # "down" /\ status' = "down" /\ db' = EmptyDb /\ left' = left /\ lines' = lines
      /\ saved' = saved /\ writes' = writes
      /\ IF status = "up" THEN file' = file
         ELSE \E n \in 0..Len(EncodeAll(lines)) : file' = SubSeq(EncodeAll(lines), 1, n)
    BY DEF Kill
<1>2. Store(EmptyDb)
    BY DEF Store, EmptyDb
<1>3. Dumped'
    BY <1>1 DEF AofIInv, Dumped
<1>4. Cut'
    BY <1>1 DEF AofIInv, Cut
<1> QED BY <1>1, <1>2, <1>3, <1>4 DEF AofIInv

LEMMA RestartSafe ==
    ASSUME AofIInv, Restart
    PROVE  AofIInv'
<1>1. /\ status = "down" /\ Decode(file).kind # "panic" /\ status' = "up"
      /\ db' = Replayed(IF Decode(file).kind = "ok" THEN Decode(file).cmds ELSE <<>>)
      /\ file' = file /\ left' = left /\ lines' = lines /\ saved' = saved /\ writes' = writes
    BY DEF Restart, dumpVars
<1>2. PICK ks : LinesOf(saved, ks, lines)
    BY DEF AofIInv, Dumped
<1>3. PICK i \in 0..Len(lines) : Restored(i, ks)
    BY <1>1, <1>2, RestartIs
<1>4. Store(db')
    BY <1>1, <1>3 DEF Restored, Restores
<1>5. Dumped'
    BY <1>1 DEF AofIInv, Dumped
<1>6. Cut'
    BY <1>1 DEF AofIInv, Cut
<1> QED BY <1>1, <1>4, <1>5, <1>6 DEF AofIInv

LEMMA AofNextIInv == AofIInv /\ [Next]_vars => AofIInv'
<1> SUFFICES ASSUME AofIInv, [Next]_vars PROVE AofIInv'
    OBVIOUS
<1>1. ASSUME NEW k \in Keys, NEW value \in Values, Write(k, value) PROVE AofIInv'
    BY <1>1, WriteSafe
<1>2. ASSUME NEW k \in DOMAIN db, Expire(k) PROVE AofIInv'
    BY <1>2, ExpireSafe
<1>3. ASSUME NEW k \in DOMAIN db, Delete(k) PROVE AofIInv'
    BY <1>3, DeleteSafe
<1>4. ASSUME NEW k \in left, DumpKey(k) PROVE AofIInv'
    BY <1>4, DumpKeySafe
<1>5. CASE BeginDump
    BY <1>5, BeginDumpSafe
<1>6. CASE EndDump
    BY <1>6, EndDumpSafe
<1>7. CASE Kill
    BY <1>7, KillSafe
<1>8. CASE Restart
    BY <1>8, RestartSafe
<1>9. CASE UNCHANGED vars
    BY <1>9 DEF vars, dumpVars, AofIInv, Dumped, Cut
<1> QED BY <1>1, <1>2, <1>3, <1>4, <1>5, <1>6, <1>7, <1>8, <1>9 DEF Next, RestartFails

LEMMA AofInvariant == Spec => []AofIInv
<1> QED BY AofInitIInv, AofNextIInv, PTL DEF Spec

(* The types of Aof, where every line of a dump has three words or more.   *)
THEOREM AofTypeCorrect == Spec => []TypeOK
<1>1. ASSUME AofIInv PROVE TypeOK
    <2>1. \A i \in DOMAIN lines : lines[i] \in Seq(Strings) /\ Len(lines[i]) >= 3
        BY <1>1 DEF AofIInv, DumpLine
    <2> QED BY <1>1, <2>1 DEF AofIInv, TypeOK, Store
<1> QED BY <1>1, AofInvariant, PTL

(* Wherever a kill cuts a dump's file short, a restart reads the commands  *)
(* that are there, or refuses (resp.go:190-240, aof.go:76-98).             *)
THEOREM AofTornFileIsRefused == Spec => []TornFileIsRefused
<1>1. ASSUME AofIInv PROVE TornFileIsRefused
    <2> SUFFICES ASSUME status = "down"
                 PROVE  /\ Decode(file).kind # "error"
                        /\ Decode(file).kind = "ok" =>
                              \E i \in 0..Len(lines) :
                                  /\ Decode(file).cmds = SubSeq(lines, 1, i)
                                  /\ IsPrefix(file, EncodeAll(SubSeq(lines, 1, i)))
                        /\ (\E i \in 0..Len(lines) : file = EncodeAll(SubSeq(lines, 1, i))) =>
                              Decode(file).kind = "ok"
        BY DEF TornFileIsRefused
    <2> DEFINE all == EncodeAll(lines)
    <2>1. /\ lines \in Seq(Seq(Strings)) /\ lines \in Commands(Strings) /\ Len(lines) \in Nat
          /\ all \in Seq(Symbols(Strings)) /\ Len(all) \in Nat
        BY <1>1, Encoded DEF AofIInv
    <2>2. PICK n \in 0..Len(all) : file = SubSeq(all, 1, n)
        BY <1>1 DEF AofIInv, Cut
    <2>3. /\ Decode(file).kind \in {"ok", "panic"}
          /\ Decode(file).kind = "ok" =>
                \E i \in 0..Len(lines) : Decode(file).cmds = SubSeq(lines, 1, i) /\ n <= End(lines, i)
          /\ \A i \in 0..Len(lines) : n = End(lines, i) => Decode(file).kind = "ok"
        BY <2>1, <2>2, CutFileIs
    <2>4. Len(file) = n /\ \A o \in 1..n : file[o] = all[o]
        BY <2>1, <2>2, SubSeqProperties
    <2>5. ASSUME NEW i \in 0..Len(lines), n <= End(lines, i)
          PROVE  IsPrefix(file, EncodeAll(SubSeq(lines, 1, i)))
        <3> DEFINE w == EncodeAll(SubSeq(lines, 1, i))
        <3>1. Len(w) = End(lines, i) /\ Len(w) \in Nat
            BY <2>1, EndsAre DEF End
        <3>2. \A o \in 1..n : w[o] = all[o]
            <4> SUFFICES ASSUME NEW o \in 1..n PROVE w[o] = all[o]
                OBVIOUS
            <4>1. o \in 1..End(lines, i)
                BY <2>5, <3>1
            <4> QED BY <2>1, <4>1, EndsAre
        <3> HIDE DEF w
        <3>3. w \in Seq(Symbols(Strings))
            <4>1. SubSeq(lines, 1, i) \in Seq(Seq(Strings))
                BY <2>1
            <4> QED BY <4>1, EndsAre DEF w
        <3>4. SubSeq(w, 1, n) = SubSeq(all, 1, n)
            BY <2>1, <2>5, <3>1, <3>2, <3>3
        <3>5. file = SubSeq(w, 1, Len(file)) /\ Len(file) <= Len(w)
            BY <2>2, <2>4, <2>5, <3>1, <3>4
        <3>6. IsPrefix(file, w)
            BY <3>5 DEF IsPrefix
        <3> QED BY <3>6 DEF w
    <2>6. Decode(file).kind = "ok" =>
              \E i \in 0..Len(lines) :
                  /\ Decode(file).cmds = SubSeq(lines, 1, i)
                  /\ IsPrefix(file, EncodeAll(SubSeq(lines, 1, i)))
        BY <2>3, <2>5
    <2>7. ASSUME NEW i \in 0..Len(lines), file = EncodeAll(SubSeq(lines, 1, i))
          PROVE  Decode(file).kind = "ok"
        BY <2>3, <2>4, <2>7 DEF End
    <2> QED BY <2>3, <2>6, <2>7
<1> QED BY <1>1, AofInvariant, PTL

-----------------------------------------------------------------------------
(* What a restart leaves, from what RestartIs says of it.                  *)
LEMMA RestartStep ==
    ASSUME AofIInv, [Next]_vars, Restarted
    PROVE  /\ Store(saved)
           /\ \E ks \in [1..Len(lines) -> DOMAIN saved \ left] :
                /\ \A k \in DOMAIN saved \ left :
                      saved[k].type # "zset" => \E i \in 1..Len(lines) : ks[i] = k
                /\ \E i \in 0..Len(lines) :
                      /\ Restores(saved, ks, i, db')
                      /\ file = EncodeAll(lines) => i = Len(lines)
<1>1. Restart
    <2>1. status = "down" /\ status' = "up"
        BY DEF Restarted
    <2> QED BY <2>1 DEF Next, Write, Expire, Delete, Client, DumpKey, BeginDump, EndDump, Kill,
                        RestartFails, vars
<1>2. /\ status = "down" /\ Decode(file).kind # "panic"
      /\ db' = Replayed(IF Decode(file).kind = "ok" THEN Decode(file).cmds ELSE <<>>)
    BY <1>1 DEF Restart
<1>3. PICK ks \in [1..Len(lines) -> DOMAIN saved \ left] :
          /\ LinesOf(saved, ks, lines)
          /\ \A k \in DOMAIN saved \ left :
                saved[k].type # "zset" => \E i \in 1..Len(lines) : ks[i] = k
    BY DEF AofIInv, Dumped
<1>4. PICK i \in 0..Len(lines) : Restored(i, ks)
    BY <1>2, <1>3, RestartIs
<1>5. Restores(saved, ks, i, db') /\ (file = EncodeAll(lines) => i = Len(lines))
    BY <1>2, <1>4 DEF Restored
<1> QED BY <1>3, <1>5 DEF AofIInv

(* A restart restores what a dump saved: each key that can be kept has its *)
(* value and no TTL, or is not there if the file was cut, and nothing else *)
(* is there but what strings with spaces became (aof.go:100-167).          *)
THEOREM AofRestartRestores == Spec => RestartRestores
<1>1. ASSUME AofIInv, [Next]_vars, Restarted
      PROVE  /\ \A k \in DOMAIN saved : Keeps(saved, k) =>
                  IF k \in DOMAIN db' THEN Same(saved[k], db'[k]) /\ ~db'[k].ttl
                                      ELSE left # {} \/ file # EncodeAll(lines)
             /\ \A k \in DOMAIN db' :
                  \/ k \in DOMAIN saved /\ Keeps(saved, k)
                  \/ \E j \in DOMAIN saved : Spaced(j, saved[j]) /\ Word(Head(j)) = k
    <2>1. PICK ks \in [1..Len(lines) -> DOMAIN saved \ left] :
              /\ \A k \in DOMAIN saved \ left :
                    saved[k].type # "zset" => \E i \in 1..Len(lines) : ks[i] = k
              /\ \E i \in 0..Len(lines) :
                    /\ Restores(saved, ks, i, db')
                    /\ file = EncodeAll(lines) => i = Len(lines)
        BY <1>1, RestartStep
    <2>2. PICK i \in 0..Len(lines) :
              /\ Restores(saved, ks, i, db')
              /\ file = EncodeAll(lines) => i = Len(lines)
        BY <2>1
    <2>3. ASSUME NEW k \in DOMAIN saved, Keeps(saved, k), k \in DOMAIN db'
          PROVE  Same(saved[k], db'[k]) /\ ~db'[k].ttl
        <3>1. ~Misread(saved, k)
            BY <2>3 DEF Keeps, Misread
        <3>2. PICK j \in 1..i : ks[j] = k
            BY <2>2, <2>3, <3>1 DEF Restores
        <3>3. Back(saved, k, db')
            BY <2>2, <2>3, <3>2 DEF Restores
        <3> QED BY <3>3 DEF Back
    <2>4. ASSUME NEW k \in DOMAIN saved, Keeps(saved, k), left = {}, file = EncodeAll(lines)
          PROVE  k \in DOMAIN db'
        <3>1. k \in DOMAIN saved \ left /\ saved[k].type # "zset" /\ i = Len(lines)
            BY <2>2, <2>4 DEF Keeps
        <3>2. PICK j \in 1..i : ks[j] = k
            BY <2>1, <3>1
        <3>3. Back(saved, k, db')
            BY <2>2, <2>4, <3>2 DEF Restores
        <3> QED BY <3>3 DEF Back
    <2>5. ASSUME NEW k \in DOMAIN db'
          PROVE  \/ k \in DOMAIN saved /\ Keeps(saved, k)
                 \/ \E j \in DOMAIN saved : Spaced(j, saved[j]) /\ Word(Head(j)) = k
        <3>1. CASE Misread(saved, k)
            BY <3>1 DEF Misread
        <3>2. CASE ~Misread(saved, k)
            <4>1. Keeps(saved, k) /\ \E j \in 1..i : ks[j] = k
                BY <2>2, <2>5, <3>2 DEF Restores
            <4>2. 1..i \subseteq 1..Len(lines)
                <5>1. Len(lines) \in Nat
                    BY <1>1, Encoded DEF AofIInv
                <5> QED BY <5>1
            <4>3. k \in DOMAIN saved
                BY <2>1, <4>1, <4>2
            <4> QED BY <4>1, <4>3
        <3> QED BY <3>1, <3>2
    <2> QED BY <2>3, <2>4, <2>5
<1>2. AofIInv /\ [Next]_vars =>
        [Restarted =>
            /\ \A k \in DOMAIN saved : Keeps(saved, k) =>
                IF k \in DOMAIN db' THEN Same(saved[k], db'[k]) /\ ~db'[k].ttl
                                    ELSE left # {} \/ file # EncodeAll(lines)
            /\ \A k \in DOMAIN db' :
                \/ k \in DOMAIN saved /\ Keeps(saved, k)
                \/ \E j \in DOMAIN saved : Spaced(j, saved[j]) /\ Word(Head(j)) = k]_vars
    BY <1>1
<1> QED BY <1>2, AofInvariant, PTL DEF Spec, RestartRestores

(* What a restart left would be restored by another, whatever the order    *)
(* the next dump takes of its parts (aof.go:15-72).                        *)
THEOREM AofRestartSettles == Spec => RestartSettles
<1>1. ASSUME AofIInv, [Next]_vars, Restarted, NEW k \in DOMAIN db', NEW line \in Lines(k, db'[k])
      PROVE  DOMAIN Replayed(<<line>>) = {k} /\ Same(db'[k], Replayed(<<line>>)[k])
    <2>1. PICK ks, i : Restores(saved, ks, i, db')
        BY <1>1, RestartStep
    <2>2. Store(db') /\ Unspaced(db')
        BY <2>1 DEF Restores
    <2> QED BY <1>1, <2>2, SettledKey
<1>2. AofIInv /\ [Next]_vars =>
        [Restarted =>
            \A k \in DOMAIN db' : \A line \in Lines(k, db'[k]) :
                LET d == Replayed(<<line>>) IN
                DOMAIN d = {k} /\ Same(db'[k], d[k])]_vars
    BY <1>1
<1> QED BY <1>2, AofInvariant, PTL DEF Spec, RestartSettles
=============================================================================
