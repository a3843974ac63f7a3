----------------------------- MODULE TxnProofs -----------------------------
(***************************************************************************)
(* What Txn.tla checks on two clients and three command objects, proved    *)
(* for any of its constants: that a batch has its commands to itself while *)
(* it is evaluated, and that a transaction sent in one batch runs what it  *)
(* queued and returns.                                                     *)
(***************************************************************************)
EXTENDS Txn, FiniteSetTheorems, TLAPS

Frame == [cmds : Seq(Objs), i : Nat \ {0}]

Typed ==
    /\ cmd \in [Objs -> Cmds \cup {Blank}] /\ pool \in SUBSET Objs
    /\ enqueue \in [Clients -> Seq(Objs)] /\ isTxn \in [Clients -> BOOLEAN]
    /\ who \in Clients \cup {Nobody}
    /\ stack \in Seq(Frame) /\ (Evaluating <=> stack # <<>>)
    /\ process \in {"up", "crashed"}
    /\ asked \in [Clients -> Seq(Cmds)] /\ old \in Nat /\ ran \in Seq(Cmds)

(* What the bounds of the model bound.                                     *)
Bounded ==
    /\ \A c \in Clients : Len(enqueue[c]) <= MaxQueue /\ Len(asked[c]) <= MaxQueue
    /\ old <= MaxQueue /\ Depth <= MaxDepth
    /\ \A k \in 1..Depth : /\ stack[k].i <= Len(stack[k].cmds) + 1
                           /\ Len(stack[k].cmds) <= MaxBatch + MaxQueue

(* What is QUEUED is in the queue, unless the queue of a transaction that  *)
(* is being executed was dropped under it, and none of it ends one.        *)
Ends == {"EXEC", "DISCARD"}
AskedIsQueued ==
    \A c \in Clients :
        /\ Len(asked[c]) = Len(enqueue[c]) \/ (c = who /\ Depth > 1 /\ enqueue[c] = <<>>)
        /\ \A j \in 1..Len(asked[c]) : asked[c][j].op \notin Ends

(* Objects that are referred to were decoded into.                         *)
Decoded ==
    /\ \A k \in 1..Depth : \A j \in 1..Len(stack[k].cmds) : cmd[stack[k].cmds[j]] \in Cmds
    /\ \A c \in Clients : \A j \in 1..Len(enqueue[c]) : cmd[enqueue[c][j]] \in Cmds

(* The commands of the batch still to be queued have room.                 *)
Queueable(f, m) == {j \in f.i..Len(f.cmds) : m[f.cmds[j]].op \notin Ends}
RoomLeft ==
    Evaluating => Len(enqueue[who]) + Cardinality(Queueable(stack[1], cmd)) <= MaxQueue

(* A transaction of this batch is executed by the second frame, and has    *)
(* run what was asked for so far.                                          *)
RunningAsAsked ==
    Depth >= 2 /\ old = 0 =>
        /\ Depth = 2 /\ process = "up"
        /\ Len(stack[2].cmds) = Len(asked[who])
        /\ \A j \in 1..Len(asked[who]) : cmd[stack[2].cmds[j]] = asked[who][j]
        /\ Len(ran) = stack[2].i - 1
        /\ \A j \in 1..Len(ran) : ran[j] = asked[who][j]
CrashedDeep == process = "crashed" => Depth >= 2

IInv ==
    /\ Typed /\ Bounded /\ AskedIsQueued /\ Decoded /\ RoomLeft
    /\ RunningAsAsked /\ CrashedDeep
    /\ BatchOwnsItsCommands /\ BatchQueueIntact /\ QueueOnlyInTxn
-----------------------------------------------------------------------------
(* A bounded sequence is a sequence that is not longer than the bound.     *)
LEMMA UpTo ==
    ASSUME NEW S, NEW n \in Nat
    PROVE  SeqUpTo(S, n) = {s \in Seq(S) : Len(s) <= n}
<1>1. ASSUME NEW s \in SeqUpTo(S, n)
      PROVE  s \in Seq(S) /\ Len(s) <= n
    <2>1. PICK m \in 0..n : s \in [1..m -> S]
        BY DEF SeqUpTo
    <2>2. m \in Nat /\ m <= n
        OBVIOUS
    <2> QED BY <2>1, <2>2
<1>2. ASSUME NEW s \in Seq(S), Len(s) <= n
      PROVE  s \in SeqUpTo(S, n)
    <2>1. Len(s) \in 0..n /\ s \in [1..Len(s) -> S]
        BY <1>2
    <2> QED BY <2>1 DEF SeqUpTo
<1> QED BY <1>1, <1>2

(* The bounds of types and the parts of IInv that say the same.            *)
LEMMA TypeFollows == Typed /\ Bounded => TypeOK
<1> SUFFICES ASSUME Typed, Bounded PROVE TypeOK
    OBVIOUS
<1>0. MaxQueue \in Nat /\ MaxBatch \in Nat /\ MaxBatch + MaxQueue \in Nat
    BY BoundAssumption
<1>1. enqueue \in [Clients -> SeqUpTo(Objs, MaxQueue)]
    BY <1>0, UpTo DEF Typed, Bounded
<1>2. asked \in [Clients -> SeqUpTo(Cmds, MaxQueue)]
    BY <1>0, UpTo DEF Typed, Bounded
<1>3. stack \in Seq(Frames)
    <2>1. \A k \in 1..Len(stack) : stack[k] \in Frames
        <3> TAKE k \in 1..Len(stack)
        <3>1. stack[k] \in Frame
            BY DEF Typed
        <3>2. stack[k].i <= Len(stack[k].cmds) + 1 /\ Len(stack[k].cmds) <= MaxBatch + MaxQueue
            BY DEF Bounded, Depth
        <3>3. stack[k].cmds \in Seq(Objs) /\ stack[k].i \in Nat \ {0}
              /\ stack[k] = [cmds |-> stack[k].cmds, i |-> stack[k].i]
            BY <3>1 DEF Frame
        <3>4. stack[k].cmds \in SeqUpTo(Objs, MaxBatch + MaxQueue)
            BY <3>2, <3>3, <1>0, UpTo
        <3>5. stack[k].i \in 1..(MaxBatch + MaxQueue + 1)
            BY <3>2, <3>3, <1>0
        <3> QED BY <3>3, <3>4, <3>5 DEF Frames
    <2> QED BY <2>1 DEF Typed
<1>4. old \in 0..MaxQueue
    BY <1>0 DEF Typed, Bounded
<1> QED BY <1>1, <1>2, <1>3, <1>4 DEF TypeOK, Typed, Bounded

(* The frame at work, and the stack when it has advanced.                  *)
LEMMA Advance ==
    ASSUME Typed, AtCommand
    PROVE  /\ Depth \in Nat \ {0} /\ Top \in Frame
           /\ Top.i \in 1..Len(Top.cmds) /\ Top.cmds[Top.i] \in Objs
           /\ Advanced \in Seq(Frame) /\ Len(Advanced) = Depth
           /\ \A k \in 1..Depth : /\ Advanced[k].cmds = stack[k].cmds
                                  /\ k # Depth => Advanced[k] = stack[k]
           /\ Advanced[Depth].i = Top.i + 1
<1>1. stack \in Seq(Frame) /\ stack # <<>> /\ Depth \in Nat \ {0}
    BY DEF Typed, AtCommand, Depth
<1>2. Top \in Frame
    BY <1>1 DEF Top, Depth
<1>3. Top.i \in 1..Len(Top.cmds) /\ Top.cmds[Top.i] \in Objs
    BY <1>2 DEF Frame, AtCommand
<1> DEFINE moved == [Top EXCEPT !.i = @ + 1]
<1>4. moved \in Frame /\ moved.i = Top.i + 1 /\ moved.cmds = Top.cmds
    BY <1>2 DEF Frame
<1>5. Advanced = [stack EXCEPT ![Depth] = moved]
    BY DEF Advanced, Top
<1> HIDE DEF moved
<1>6. Advanced \in Seq(Frame) /\ Len(Advanced) = Depth
    BY <1>1, <1>4, <1>5 DEF Depth
<1>7. \A k \in 1..Depth : Advanced[k] = IF k = Depth THEN moved ELSE stack[k]
    BY <1>1, <1>5 DEF Depth
<1>9. Advanced[Depth].i = Top.i + 1
    BY <1>1, <1>4, <1>7
<1>10. ASSUME NEW k \in 1..Depth
       PROVE  Advanced[k].cmds = stack[k].cmds /\ (k # Depth => Advanced[k] = stack[k])
    <2>1. CASE k = Depth
        BY <1>4, <1>7, <2>1 DEF Top
    <2>2. CASE k # Depth
        BY <1>7, <2>2
    <2> QED BY <2>1, <2>2
<1> QED BY <1>1, <1>2, <1>3, <1>6, <1>9, <1>10

(* What is left to queue, after a command.                                 *)
LEMMA QueueableShrinks ==
    ASSUME NEW f \in Frame, NEW m, NEW g \in Frame, g.cmds = f.cmds,
           g.i = f.i \/ g.i = f.i + 1
    PROVE  /\ IsFiniteSet(Queueable(f, m)) /\ IsFiniteSet(Queueable(g, m))
           /\ Cardinality(Queueable(f, m)) \in Nat /\ Cardinality(Queueable(g, m)) \in Nat
           /\ Cardinality(Queueable(g, m)) <= Cardinality(Queueable(f, m))
           /\ g.i = f.i + 1 /\ f.i <= Len(f.cmds) /\ m[f.cmds[f.i]].op \notin Ends =>
                Cardinality(Queueable(g, m)) = Cardinality(Queueable(f, m)) - 1
<1>1. f.i \in Nat /\ Len(f.cmds) \in Nat
    BY DEF Frame
<1>2. IsFiniteSet(f.i..Len(f.cmds))
    BY <1>1, FS_Interval
<1>3. Queueable(f, m) \subseteq f.i..Len(f.cmds)
    BY DEF Queueable
<1>4. IsFiniteSet(Queueable(f, m)) /\ Cardinality(Queueable(f, m)) \in Nat
    BY <1>2, <1>3, FS_Subset, FS_CardinalityType
<1>5. Queueable(g, m) \subseteq Queueable(f, m)
    BY <1>1 DEF Queueable
<1>6. /\ IsFiniteSet(Queueable(g, m)) /\ Cardinality(Queueable(g, m)) \in Nat
      /\ Cardinality(Queueable(g, m)) <= Cardinality(Queueable(f, m))
    BY <1>4, <1>5, FS_Subset, FS_CardinalityType
<1>7. ASSUME g.i = f.i + 1, f.i <= Len(f.cmds), m[f.cmds[f.i]].op \notin Ends
      PROVE  Cardinality(Queueable(g, m)) = Cardinality(Queueable(f, m)) - 1
    <2>1. f.i \in Queueable(f, m)
        BY <1>1, <1>7 DEF Queueable
    <2>2. Queueable(g, m) = Queueable(f, m) \ {f.i}
        BY <1>1, <1>7 DEF Queueable
    <2> QED BY <2>1, <2>2, <1>4, FS_RemoveElement
<1> QED BY <1>4, <1>6, <1>7
-----------------------------------------------------------------------------
(* No batch has been read, and nothing is queued.                          *)
THEOREM InitIInv == Init => IInv
<1> SUFFICES ASSUME Init PROVE IInv
    OBVIOUS
<1>1. Depth = 0 /\ ~Evaluating
    BY DEF Init, Depth, Evaluating
<1>2. Typed
    BY <1>1 DEF Typed, Init
<1>3. Bounded
    BY <1>1, BoundAssumption DEF Bounded, Init
<1>4. AskedIsQueued /\ Decoded
    BY <1>1 DEF AskedIsQueued, Decoded, Init
<1> QED BY <1>1, <1>2, <1>3, <1>4 DEF IInv, RoomLeft, RunningAsAsked, CrashedDeep,
    BatchOwnsItsCommands, BatchQueueIntact, QueueOnlyInTxn, Init

(* Nobody has frames while nothing is evaluated, and somebody at least one *)
(* otherwise.                                                              *)
LEMMA Evaluation ==
    ASSUME Typed
    PROVE  /\ Depth \in Nat
           /\ ~Evaluating => Depth = 0 /\ who = Nobody
           /\ Evaluating => Depth >= 1 /\ who \in Clients /\ stack[1] \in Frame
           /\ \A k \in 1..Depth : stack[k] \in Frame
    BY NobodyAssumption DEF Typed, Depth, Evaluating

(* A batch begins: what it is decoded into belongs to it alone.            *)
LEMMA ReadKeeps ==
    ASSUME IInv, NEW c \in Clients, NEW ops \in SeqUpTo(Ops, MaxBatch), Read(c, ops)
    PROVE  IInv'
<1>0. Typed /\ Bounded /\ AskedIsQueued /\ Decoded /\ QueueOnlyInTxn /\ process = "up"
      /\ ~Evaluating /\ Depth = 0 /\ who = Nobody
    BY Evaluation DEF IInv, Read
<1>1. PICK objs \in [DOMAIN ops -> Allocatable] :
           /\ Injective(objs)
           /\ cmd' = [o \in Objs |->
                         IF o \in Elems(objs)
                         THEN Whole(ops[CHOOSE i \in DOMAIN objs : objs[i] = o])
                         ELSE cmd[o]]
           /\ pool' = pool \ Elems(objs)
           /\ stack' = <<[cmds |-> objs, i |-> 1]>>
    BY DEF Read
<1>2. /\ who' = c /\ old' = Len(enqueue[c]) /\ ran' = <<>> /\ enqueue' = enqueue
      /\ isTxn' = isTxn /\ process' = process /\ asked' = asked
    BY DEF Read, session
<1>3. ops \in Seq(Ops) /\ Len(ops) <= MaxBatch /\ Len(ops) \in Nat /\ DOMAIN ops = 1..Len(ops)
    BY UpTo, BoundAssumption
<1>4. objs \in Seq(Objs) /\ Len(objs) = Len(ops) /\ DOMAIN objs = 1..Len(ops)
    <2>1. Allocatable \subseteq Objs
        BY <1>0 DEF Allocatable, Typed
    <2>2. objs \in [1..Len(ops) -> Objs]
        BY <2>1, <1>3
    <2> QED BY <2>2, <1>3
<1>5. Depth' = 1 /\ stack'[1] = [cmds |-> objs, i |-> 1] /\ stack' \in Seq(Frame) /\ stack' # <<>>
    BY <1>1, <1>4 DEF Depth, Frame
<1>6. \A j \in 1..Len(ops) : cmd'[objs[j]] = Whole(ops[j]) /\ objs[j] \in Objs
    <2> TAKE j \in 1..Len(ops)
    <2>1. objs[j] \in Objs /\ objs[j] \in Elems(objs)
        BY <1>4 DEF Elems
    <2>2. (CHOOSE i \in DOMAIN objs : objs[i] = objs[j]) = j
        BY <1>1, <1>4 DEF Injective
    <2> QED BY <1>1, <2>1, <2>2
<1>7. \A op \in Ops : Whole(op) \in Cmds /\ Whole(op).op = op
    BY DEF Whole, Cmds
<1>8. \A o \in Objs : /\ cmd'[o] \in Cmds \cup {Blank}
                      /\ cmd[o] \in Cmds => cmd'[o] \in Cmds
    <2> TAKE o \in Objs
    <2>1. CASE o \in Elems(objs)
        <3>1. PICK j \in 1..Len(ops) : o = objs[j]
            BY <2>1, <1>4 DEF Elems
        <3> QED BY <3>1, <1>3, <1>6, <1>7
    <2>2. CASE o \notin Elems(objs)
        BY <1>0, <1>1, <2>2 DEF Typed
    <2> QED BY <2>1, <2>2
<1>9. Typed'
    <2>1. cmd' \in [Objs -> Cmds \cup {Blank}]
        <3>1. cmd' = [o \in Objs |-> cmd'[o]]
            BY <1>1
        <3> QED BY <3>1, <1>8
    <2>2. pool' \in SUBSET Objs
        BY <1>0, <1>1 DEF Typed
    <2>3. who' \in Clients \cup {Nobody} /\ Evaluating'
        BY <1>2, NobodyAssumption DEF Evaluating
    <2>4. old' \in Nat /\ ran' \in Seq(Cmds)
        BY <1>0, <1>2 DEF Typed
    <2> QED BY <1>0, <1>2, <1>5, <2>1, <2>2, <2>3, <2>4 DEF Typed
<1>10. Bounded'
    <2>1. Len(enqueue[c]) <= MaxQueue
        BY <1>0 DEF Bounded
    <2> QED BY <1>0, <1>2, <1>3, <1>4, <1>5, <2>1, BoundAssumption DEF Bounded
<1>11. AskedIsQueued'
    BY <1>0, <1>2 DEF AskedIsQueued
<1>12. Decoded'
    <2>1. \A d \in Clients : \A j \in 1..Len(enqueue[d]) : enqueue[d][j] \in Objs
        BY <1>0 DEF Typed
    <2>2. \A d \in Clients : \A j \in 1..Len(enqueue[d]) : cmd'[enqueue[d][j]] \in Cmds
        BY <1>0, <1>8, <2>1 DEF Decoded
    <2>3. \A j \in 1..Len(objs) : cmd'[objs[j]] \in Cmds
        BY <1>3, <1>4, <1>6, <1>7
    <2> QED BY <1>2, <1>5, <2>2, <2>3 DEF Decoded
<1>13. RoomLeft'
    <2>1. Queueable([cmds |-> objs, i |-> 1], cmd') = {i \in DOMAIN ops : ops[i] \notin Ends}
        BY <1>3, <1>4, <1>6, <1>7 DEF Queueable
    <2>2. Len(enqueue[c]) + Cardinality({i \in DOMAIN ops : ops[i] \notin Ends}) <= MaxQueue
        BY DEF Read, Fits, Ends
    <2> QED BY <1>2, <1>5, <2>1, <2>2 DEF RoomLeft
<1>14. RunningAsAsked' /\ CrashedDeep'
    BY <1>0, <1>2, <1>5 DEF RunningAsAsked, CrashedDeep
<1>15. BatchOwnsItsCommands'
    <2>1. stack'[1].cmds = objs
        BY <1>5
    <2>2. Elems(objs) \cap pool' = {}
        BY <1>1
    <2> QED BY <1>1, <2>1, <2>2 DEF BatchOwnsItsCommands
<1>16. BatchQueueIntact'
    <2>1. Len(enqueue[c]) \in Nat
        BY <1>0 DEF Typed
    <2> QED BY <2>1, <1>2 DEF BatchQueueIntact
<1>17. QueueOnlyInTxn'
    BY <1>0, <1>2, <1>5 DEF QueueOnlyInTxn
<1> QED BY <1>9, <1>10, <1>11, <1>12, <1>13, <1>14, <1>15, <1>16, <1>17 DEF IInv

(* What an advance means for the frames' parts of IInv.                    *)
LEMMA AdvancedFrames ==
    ASSUME IInv, AtCommand
    PROVE  /\ Evaluating /\ who \in Clients /\ Depth \in Nat \ {0}
           /\ Advanced \in Seq(Frame) /\ Len(Advanced) = Depth
           /\ Current \in Cmds /\ Top.cmds[Top.i] \in Objs
           /\ \A k \in 1..Depth : /\ Advanced[k].i <= Len(Advanced[k].cmds) + 1
                                  /\ Len(Advanced[k].cmds) <= MaxBatch + MaxQueue
                                  /\ Advanced[k].cmds = stack[k].cmds
                                  /\ k # Depth => Advanced[k] = stack[k]
           /\ Advanced[Depth].i = Top.i + 1
           /\ Cardinality(Queueable(Advanced[1], cmd)) \in Nat
           /\ Cardinality(Queueable(stack[1], cmd)) \in Nat
           /\ Cardinality(Queueable(Advanced[1], cmd)) <= Cardinality(Queueable(stack[1], cmd))
           /\ Depth = 1 /\ Current.op \notin Ends =>
                Cardinality(Queueable(Advanced[1], cmd)) = Cardinality(Queueable(stack[1], cmd)) - 1
<1>0. Typed /\ Bounded /\ Decoded
    BY DEF IInv
<1>1. /\ Depth \in Nat \ {0} /\ Top \in Frame
      /\ Top.i \in 1..Len(Top.cmds) /\ Top.cmds[Top.i] \in Objs
      /\ Advanced \in Seq(Frame) /\ Len(Advanced) = Depth
      /\ \A k \in 1..Depth : /\ Advanced[k].cmds = stack[k].cmds
                             /\ k # Depth => Advanced[k] = stack[k]
      /\ Advanced[Depth].i = Top.i + 1
    BY <1>0, Advance
<1>2. Evaluating /\ who \in Clients
    BY <1>0 DEF AtCommand, Evaluating, Typed
<1>3. Top = stack[Depth] /\ Current = cmd[Top.cmds[Top.i]]
    BY DEF Top, Current
<1>4. Current \in Cmds
    BY <1>0, <1>1, <1>3 DEF Decoded
<1>5. ASSUME NEW k \in 1..Depth
      PROVE  /\ Advanced[k].i <= Len(Advanced[k].cmds) + 1
             /\ Len(Advanced[k].cmds) <= MaxBatch + MaxQueue
    <2>1. CASE k = Depth
        BY <1>0, <1>1, <1>3, <2>1 DEF Bounded
    <2>2. CASE k # Depth
        BY <1>0, <1>1, <2>2 DEF Bounded
    <2> QED BY <2>1, <2>2
<1>6. /\ stack[1] \in Frame /\ Advanced[1] \in Frame /\ Advanced[1].cmds = stack[1].cmds
      /\ Advanced[1].i = stack[1].i \/ Advanced[1].i = stack[1].i + 1
    BY <1>0, <1>1, <1>3 DEF Typed, Depth
<1>7. Depth = 1 => Top = stack[1] /\ Advanced[1].i = stack[1].i + 1
    BY <1>1, <1>3
<1>8. /\ Cardinality(Queueable(Advanced[1], cmd)) \in Nat
      /\ Cardinality(Queueable(stack[1], cmd)) \in Nat
      /\ Cardinality(Queueable(Advanced[1], cmd)) <= Cardinality(Queueable(stack[1], cmd))
    BY <1>6, QueueableShrinks
<1>9. ASSUME Depth = 1, Current.op \notin Ends
      PROVE  Cardinality(Queueable(Advanced[1], cmd)) = Cardinality(Queueable(stack[1], cmd)) - 1
    <2>1. stack[1].i <= Len(stack[1].cmds) /\ cmd[stack[1].cmds[stack[1].i]].op \notin Ends
        BY <1>1, <1>3, <1>7, <1>9
    <2> QED BY <1>6, <1>7, <1>9, <2>1, QueueableShrinks
<1> QED BY <1>1, <1>2, <1>4, <1>5, <1>8, <1>9

(* An advance leaves the client and the number of frames as they are.      *)
LEMMA AdvanceKeeps ==
    ASSUME IInv, AtCommand, stack' = Advanced, who' = who
    PROVE  Depth' = Depth /\ stack' \in Seq(Frame) /\ stack' # <<>> /\ Evaluating'
<1>1. /\ Evaluating /\ Depth \in Nat \ {0}
      /\ Advanced \in Seq(Frame) /\ Len(Advanced) = Depth
    BY AdvancedFrames
<1>2. Depth' = Depth /\ stack' # <<>>
    BY <1>1 DEF Depth
<1> QED BY <1>1, <1>2 DEF Evaluating

(* A transaction of this batch has queued nothing that would end it.       *)
LEMMA NothingEnds ==
    ASSUME IInv, AtCommand, Depth >= 2, Current.op \in Ends
    PROVE  old > 0
<1> SUFFICES ASSUME old = 0 PROVE FALSE
    BY DEF IInv, Typed
<1>1. /\ Depth = 2 /\ Len(stack[2].cmds) = Len(asked[who])
      /\ \A j \in 1..Len(asked[who]) : cmd[stack[2].cmds[j]] = asked[who][j]
    BY DEF IInv, RunningAsAsked
<1>2. Top.i \in 1..Len(Top.cmds) /\ Top = stack[2] /\ who \in Clients
    BY <1>1, Advance, AdvancedFrames DEF IInv, Top
<1>3. Current = asked[who][Top.i] /\ Top.i \in 1..Len(asked[who])
    BY <1>1, <1>2 DEF Current
<1> QED BY <1>2, <1>3 DEF IInv, AskedIsQueued

(* A command of the batch is queued as it is.                              *)
LEMMA EnqueueKeeps ==
    ASSUME IInv, Enqueue
    PROVE  IInv'
<1>0. Typed /\ Bounded /\ AskedIsQueued /\ Decoded /\ RoomLeft /\ CrashedDeep
      /\ BatchOwnsItsCommands /\ BatchQueueIntact /\ QueueOnlyInTxn
    BY DEF IInv
<1> DEFINE o == Top.cmds[Top.i]
<1>1. /\ AtCommand /\ Depth = 1 /\ isTxn[who] /\ Current.op \notin Ends
      /\ enqueue' = [enqueue EXCEPT ![who] = Append(@, o)]
      /\ asked' = [asked EXCEPT ![who] = Append(@, Current)]
      /\ stack' = Advanced /\ cmd' = cmd /\ pool' = pool
      /\ isTxn' = isTxn /\ who' = who /\ process' = process /\ old' = old /\ ran' = ran
    BY DEF Enqueue, Queues, Ends, commands
<1>2. Top \in Frame /\ o \in Objs
    BY <1>0, <1>1, Advance
<1>3. cmd[o] = Current
    BY DEF Current
<1> HIDE DEF o
<1>4. who \in Clients
    BY <1>0, <1>1 DEF AtCommand, Evaluating, Typed
<1>5. /\ enqueue' \in [Clients -> Seq(Objs)]
      /\ enqueue'[who] = Append(enqueue[who], o) /\ enqueue[who] \in Seq(Objs)
      /\ \A c \in Clients : c # who => enqueue'[c] = enqueue[c]
    BY <1>0, <1>1, <1>2, <1>4 DEF Typed
<1>6. /\ Depth' = 1 /\ stack' \in Seq(Frame) /\ stack' # <<>> /\ Evaluating' /\ Evaluating
      /\ Current \in Cmds
      /\ \A k \in 1..1 : /\ stack'[k].i <= Len(stack'[k].cmds) + 1
                         /\ Len(stack'[k].cmds) <= MaxBatch + MaxQueue
                         /\ stack'[k].cmds = stack[k].cmds
      /\ Cardinality(Queueable(stack'[1], cmd)) \in Nat
      /\ Cardinality(Queueable(stack'[1], cmd)) = Cardinality(Queueable(stack[1], cmd)) - 1
    BY <1>1, AdvanceKeeps, AdvancedFrames
<1>7. /\ asked' \in [Clients -> Seq(Cmds)] /\ asked[who] \in Seq(Cmds)
      /\ asked'[who] = Append(asked[who], Current)
      /\ \A c \in Clients : c # who => asked'[c] = asked[c]
    BY <1>0, <1>1, <1>4, <1>6 DEF Typed
<1>8. Len(asked[who]) = Len(enqueue[who])
    BY <1>0, <1>1, <1>4 DEF AskedIsQueued
<1>9. Len(enqueue'[who]) = Len(enqueue[who]) + 1 /\ Len(asked'[who]) = Len(asked[who]) + 1
    BY <1>5, <1>7
<1>10. Len(enqueue'[who]) + Cardinality(Queueable(stack'[1], cmd)) <= MaxQueue
    <2>1. Len(enqueue[who]) + Cardinality(Queueable(stack[1], cmd)) <= MaxQueue
        BY <1>0, <1>6 DEF RoomLeft
    <2>2. Cardinality(Queueable(stack[1], cmd)) \in Int /\ Len(enqueue[who]) \in Nat
        BY <1>0, <1>5, QueueableShrinks, <1>1, Evaluation DEF AtCommand
    <2> QED BY <1>6, <1>9, <2>1, <2>2, BoundAssumption
<1>11. Typed'
    BY <1>0, <1>1, <1>5, <1>6, <1>7 DEF Typed
<1>12. Bounded'
    <2>1. \A c \in Clients : Len(enqueue'[c]) <= MaxQueue /\ Len(asked'[c]) <= MaxQueue
        <3> TAKE c \in Clients
        <3>1. CASE c = who
            <4>1. Len(enqueue'[who]) \in Nat
                BY <1>5
            <4>2. Len(enqueue'[who]) <= MaxQueue
                BY <4>1, <1>6, <1>10, BoundAssumption
            <4> QED BY <4>2, <1>8, <1>9, <3>1
        <3>2. CASE c # who
            BY <1>0, <1>5, <1>7, <3>2 DEF Bounded
        <3> QED BY <3>1, <3>2
    <2> QED BY <2>1, <1>0, <1>1, <1>6 DEF Bounded
<1>13. AskedIsQueued'
    <2> SUFFICES ASSUME NEW c \in Clients
                 PROVE  /\ Len(asked'[c]) = Len(enqueue'[c])
                        /\ \A j \in 1..Len(asked'[c]) : asked'[c][j].op \notin Ends
        BY DEF AskedIsQueued
    <2>1. CASE c = who
        <3>1. \A j \in 1..Len(asked'[who]) :
                asked'[who][j] = IF j = Len(asked[who]) + 1 THEN Current ELSE asked[who][j]
            BY <1>7
        <3>2. \A j \in 1..Len(asked[who]) : asked[who][j].op \notin Ends
            BY <1>0, <1>4 DEF AskedIsQueued
        <3> QED BY <3>1, <3>2, <1>1, <1>7, <1>8, <1>9, <2>1
    <2>2. CASE c # who
        BY <1>0, <1>1, <1>5, <1>7, <2>2 DEF AskedIsQueued
    <2> QED BY <2>1, <2>2
<1>14. Decoded'
    <2>1. \A c \in Clients : \A j \in 1..Len(enqueue'[c]) : cmd[enqueue'[c][j]] \in Cmds
        <3> TAKE c \in Clients
        <3>1. CASE c = who
            <4>1. \A j \in 1..Len(enqueue'[who]) :
                    enqueue'[who][j] = IF j = Len(enqueue[who]) + 1 THEN o ELSE enqueue[who][j]
                BY <1>5
            <4> QED BY SMTT(30), <4>1, <1>0, <1>3, <1>4, <1>5, <1>6, <1>9, <3>1 DEF Decoded
        <3>2. CASE c # who
            BY <1>0, <1>5, <3>2 DEF Decoded
        <3> QED BY <3>1, <3>2
    <2>2. \A k \in 1..1 : \A j \in 1..Len(stack'[k].cmds) : cmd[stack'[k].cmds[j]] \in Cmds
        BY <1>0, <1>1, <1>6 DEF Decoded
    <2> QED BY <2>1, <2>2, <1>1, <1>6 DEF Decoded
<1>15. RoomLeft'
    BY <1>1, <1>6, <1>10 DEF RoomLeft
<1>16. RunningAsAsked' /\ CrashedDeep'
    BY <1>0, <1>1, <1>6 DEF RunningAsAsked, CrashedDeep
<1>17. BatchOwnsItsCommands'
    BY <1>0, <1>1, <1>6 DEF BatchOwnsItsCommands
<1>18. BatchQueueIntact'
    <2> SUFFICES ASSUME NEW i \in (old + 1)..Len(enqueue'[who])
                 PROVE  cmd[enqueue'[who][i]] = asked'[who][i]
        BY <1>1 DEF BatchQueueIntact
    <2>1. old \in Nat /\ i \in 1..Len(enqueue'[who])
        BY <1>0 DEF Typed
    <2>2. CASE i = Len(enqueue[who]) + 1
        BY <2>2, <1>3, <1>5, <1>7, <1>8
    <2>3. CASE i # Len(enqueue[who]) + 1
        <3>1. i \in (old + 1)..Len(enqueue[who]) /\ i \in 1..Len(enqueue[who])
            BY <2>1, <2>3, <1>5, <1>9
        <3>2. enqueue'[who][i] = enqueue[who][i] /\ asked'[who][i] = asked[who][i]
            BY <3>1, <1>5, <1>7, <1>8
        <3> QED BY <3>1, <3>2, <1>0, <1>6 DEF BatchQueueIntact
    <2> QED BY <2>2, <2>3
<1>19. QueueOnlyInTxn'
    BY <1>0, <1>1, <1>4, <1>5, <1>6 DEF QueueOnlyInTxn
<1> QED BY <1>11, <1>12, <1>13, <1>14, <1>15, <1>16, <1>17, <1>18, <1>19 DEF IInv

(* ExecutePlain, Multi and Refused: the session is as it was, but for a    *)
(* transaction that may have begun.                                        *)
Walk ==
    /\ AtCommand /\ Log /\ stack' = Advanced
    /\ \A c \in Clients : isTxn[c] => isTxn'[c]
    /\ isTxn' \in [Clients -> BOOLEAN]
    /\ UNCHANGED <<commands, enqueue, who, process, asked, old>>

(* A frame runs one more command.                                          *)
LEMMA WalkKeeps ==
    ASSUME IInv, Walk
    PROVE  IInv'
<1>0. Typed /\ Bounded /\ AskedIsQueued /\ Decoded /\ RoomLeft /\ CrashedDeep
      /\ RunningAsAsked /\ BatchOwnsItsCommands /\ BatchQueueIntact /\ QueueOnlyInTxn
    BY DEF IInv
<1>1. /\ AtCommand /\ stack' = Advanced /\ cmd' = cmd /\ pool' = pool
      /\ isTxn' \in [Clients -> BOOLEAN]
      /\ who' = who /\ process' = process /\ old' = old
      /\ enqueue' = enqueue /\ asked' = asked
      /\ ran' = IF Depth > 1 THEN Append(ran, Current) ELSE ran
    BY DEF Walk, Log, commands
<1>2. enqueue \in [Clients -> Seq(Objs)]
    BY <1>0 DEF Typed
<1>3. /\ Depth' = Depth /\ stack' \in Seq(Frame) /\ stack' # <<>> /\ Evaluating' /\ Evaluating
      /\ who \in Clients /\ Depth \in Nat \ {0} /\ Current \in Cmds
      /\ \A k \in 1..Depth : /\ stack'[k].i <= Len(stack'[k].cmds) + 1
                             /\ Len(stack'[k].cmds) <= MaxBatch + MaxQueue
                             /\ stack'[k].cmds = stack[k].cmds
                             /\ k # Depth => stack'[k] = stack[k]
      /\ stack'[Depth].i = Top.i + 1
      /\ Cardinality(Queueable(stack'[1], cmd)) \in Nat
      /\ Cardinality(Queueable(stack[1], cmd)) \in Nat
      /\ Cardinality(Queueable(stack'[1], cmd)) <= Cardinality(Queueable(stack[1], cmd))
    BY <1>1, AdvanceKeeps, AdvancedFrames
<1>4. Typed'
    <2>1. ran' \in Seq(Cmds)
        BY <1>0, <1>1, <1>3 DEF Typed
    <2> QED BY <2>1, <1>0, <1>1, <1>3 DEF Typed
<1>5. Bounded'
    BY <1>0, <1>1, <1>3 DEF Bounded
<1>6. AskedIsQueued'
    BY <1>0, <1>1, <1>3 DEF AskedIsQueued
<1>7. Decoded'
    BY SMTT(30), <1>0, <1>1, <1>3 DEF Decoded
<1>8. RoomLeft'
    <2>1. Len(enqueue[who]) + Cardinality(Queueable(stack[1], cmd)) <= MaxQueue
        BY <1>0, <1>3 DEF RoomLeft
    <2>2. Len(enqueue[who]) \in Nat
        BY <1>2, <1>3
    <2>3. Len(enqueue[who]) + Cardinality(Queueable(stack'[1], cmd)) <= MaxQueue
        BY <2>1, <2>2, <1>3, BoundAssumption
    <2> QED BY <2>3, <1>1 DEF RoomLeft
<1>9. RunningAsAsked'
    <2> SUFFICES ASSUME Depth >= 2, old = 0
                 PROVE  /\ Depth = 2 /\ process = "up"
                        /\ Len(stack'[2].cmds) = Len(asked[who])
                        /\ \A j \in 1..Len(asked[who]) : cmd[stack'[2].cmds[j]] = asked[who][j]
                        /\ Len(ran') = stack'[2].i - 1
                        /\ \A j \in 1..Len(ran') : ran'[j] = asked[who][j]
        BY <1>1, <1>3 DEF RunningAsAsked
    <2>1. /\ Depth = 2 /\ process = "up"
          /\ Len(stack[2].cmds) = Len(asked[who])
          /\ \A j \in 1..Len(asked[who]) : cmd[stack[2].cmds[j]] = asked[who][j]
          /\ Len(ran) = stack[2].i - 1
          /\ \A j \in 1..Len(ran) : ran[j] = asked[who][j]
        BY <1>0 DEF RunningAsAsked
    <2>2. Top = stack[2] /\ Top \in Frame /\ Top.i \in 1..Len(Top.cmds)
        BY <2>1, <1>0, <1>1, Advance DEF Top
    <2>3. Current = asked[who][Top.i]
        BY <2>1, <2>2 DEF Current
    <2>4. stack'[2].cmds = stack[2].cmds /\ stack'[2].i = Top.i + 1
        BY <2>1, <1>3
    <2>5. ran \in Seq(Cmds) /\ ran' = Append(ran, Current) /\ Top.i \in Nat
        BY <2>1, <2>2, <1>0, <1>1 DEF Typed, Frame
    <2>6. Len(ran') = Top.i /\ Len(ran) = Top.i - 1
        BY <2>1, <2>2, <2>5, <1>3
    <2>7. \A j \in 1..Len(ran') : ran'[j] = asked[who][j]
        <3> TAKE j \in 1..Len(ran')
        <3>1. CASE j = Top.i
            BY <3>1, <2>3, <2>5, <2>6, <1>3
        <3>2. CASE j # Top.i
            BY <3>2, <2>1, <2>5, <2>6, <1>3
        <3> QED BY <3>1, <3>2
    <2>8. Len(ran') = stack'[2].i - 1
        BY <2>4, <2>5, <2>6
    <2>9. /\ Len(stack'[2].cmds) = Len(asked[who])
          /\ \A j \in 1..Len(asked[who]) : cmd[stack'[2].cmds[j]] = asked[who][j]
        BY <2>1, <2>4
    <2> QED BY <2>1, <2>7, <2>8, <2>9
<1>10. CrashedDeep'
    BY <1>0, <1>1, <1>3 DEF CrashedDeep
<1>11. BatchOwnsItsCommands' /\ BatchQueueIntact'
    BY <1>0, <1>1, <1>3 DEF BatchOwnsItsCommands, BatchQueueIntact
<1>12. QueueOnlyInTxn'
    <2>1. \A c \in Clients : isTxn[c] => isTxn'[c]
        BY DEF Walk
    <2> QED BY <2>1, <1>0, <1>1, <1>3 DEF QueueOnlyInTxn
<1> QED BY <1>4, <1>5, <1>6, <1>7, <1>8, <1>9, <1>10, <1>11, <1>12 DEF IInv

(* The three commands are such steps.                                      *)
LEMMA PlainIsWalk ==
    ASSUME Typed, ExecutePlain \/ Multi \/ Refused
    PROVE  Walk
<1>1. isTxn \in [Clients -> BOOLEAN]
    BY DEF Typed
<1>2. CASE ExecutePlain
    BY <1>1, <1>2 DEF ExecutePlain, Executes, Walk, session
<1>3. CASE Multi
    BY <1>1, <1>3 DEF Multi, Executes, Walk
<1>4. CASE Refused
    BY <1>1, <1>4 DEF Refused, Executes, Walk, session
<1> QED BY <1>2, <1>3, <1>4

(* DISCARD forgets a transaction; in a queue it is of an earlier batch.    *)
LEMMA DiscardKeeps ==
    ASSUME IInv, Discard
    PROVE  IInv'
<1>0. Typed /\ Bounded /\ AskedIsQueued /\ Decoded /\ RoomLeft /\ CrashedDeep
      /\ BatchOwnsItsCommands /\ QueueOnlyInTxn
    BY DEF IInv
<1>1. /\ AtCommand /\ Current.op \in Ends /\ stack' = Advanced /\ cmd' = cmd /\ pool' = pool
      /\ enqueue' = [enqueue EXCEPT ![who] = <<>>] /\ isTxn' = [isTxn EXCEPT ![who] = FALSE]
      /\ who' = who /\ process' = process
      /\ ran' = IF Depth > 1 THEN Append(ran, Current) ELSE ran
      /\ Depth = 1 => asked' = [asked EXCEPT ![who] = <<>>] /\ old' = 0
      /\ Depth # 1 => asked' = asked /\ old' = old
    BY DEF Discard, Executes, Log, commands, Forget, Ends
<1>2. /\ Depth' = Depth /\ stack' \in Seq(Frame) /\ stack' # <<>> /\ Evaluating' /\ Evaluating
      /\ who \in Clients /\ Depth \in Nat \ {0} /\ Current \in Cmds
      /\ \A k \in 1..Depth : /\ stack'[k].i <= Len(stack'[k].cmds) + 1
                             /\ Len(stack'[k].cmds) <= MaxBatch + MaxQueue
                             /\ stack'[k].cmds = stack[k].cmds
      /\ Cardinality(Queueable(stack'[1], cmd)) \in Nat
      /\ Cardinality(Queueable(stack[1], cmd)) \in Nat
      /\ Cardinality(Queueable(stack'[1], cmd)) <= Cardinality(Queueable(stack[1], cmd))
    BY <1>1, AdvanceKeeps, AdvancedFrames
<1>3. /\ enqueue' \in [Clients -> Seq(Objs)] /\ isTxn' \in [Clients -> BOOLEAN]
      /\ enqueue'[who] = <<>>
      /\ \A c \in Clients : c # who => enqueue'[c] = enqueue[c] /\ isTxn'[c] = isTxn[c]
    BY <1>0, <1>1, <1>2 DEF Typed
<1>e. Len(enqueue'[who]) = 0
    BY <1>3
<1>4. /\ asked' \in [Clients -> Seq(Cmds)] /\ old' \in Nat /\ old' <= old
      /\ \A c \in Clients : c # who \/ Depth # 1 => asked'[c] = asked[c]
      /\ Depth = 1 => asked'[who] = <<>> /\ Len(asked'[who]) = 0
    <2>1. asked \in [Clients -> Seq(Cmds)] /\ old \in Nat
        BY <1>0 DEF Typed
    <2>2. CASE Depth = 1
        <3>1. asked' = [asked EXCEPT ![who] = <<>>] /\ old' = 0
            BY <1>1, <2>2
        <3>2. asked' \in [Clients -> Seq(Cmds)] /\ asked'[who] = <<>>
              /\ \A c \in Clients : c # who => asked'[c] = asked[c]
            BY <3>1, <2>1, <1>2
        <3> QED BY <2>1, <2>2, <3>1, <3>2
    <2>3. CASE Depth # 1
        BY <1>1, <2>1, <2>3
    <2> QED BY <2>2, <2>3
<1>5. Typed'
    <2>1. ran' \in Seq(Cmds)
        BY <1>0, <1>1, <1>2 DEF Typed
    <2> QED BY <2>1, <1>0, <1>1, <1>2, <1>3, <1>4 DEF Typed
<1>6. Bounded'
    <2>1. \A c \in Clients : Len(enqueue'[c]) <= MaxQueue
        <3>1. Len(enqueue'[who]) <= MaxQueue
            BY <1>e, BoundAssumption
        <3>2. \A c \in Clients : c # who => Len(enqueue'[c]) <= MaxQueue
            BY <1>0, <1>3 DEF Bounded
        <3> QED BY <3>1, <3>2
    <2>2. \A c \in Clients : Len(asked'[c]) <= MaxQueue
        <3>1. Depth = 1 => Len(asked'[who]) <= MaxQueue
            BY <1>4, BoundAssumption
        <3>2. \A c \in Clients : c # who \/ Depth # 1 => Len(asked'[c]) <= MaxQueue
            BY <1>0, <1>4 DEF Bounded
        <3> QED BY <3>1, <3>2
    <2>3. old' <= MaxQueue
        BY <1>0, <1>4, BoundAssumption DEF Bounded, Typed
    <2> QED BY <2>1, <2>2, <2>3, <1>0, <1>1, <1>2 DEF Bounded
<1>7. AskedIsQueued'
    <2> SUFFICES ASSUME NEW c \in Clients
                 PROVE  /\ \/ Len(asked'[c]) = Len(enqueue'[c])
                           \/ c = who /\ Depth > 1 /\ enqueue'[c] = <<>>
                        /\ \A j \in 1..Len(asked'[c]) : asked'[c][j].op \notin Ends
        BY <1>1, <1>2 DEF AskedIsQueued
    <2>1. CASE c = who /\ Depth = 1
        BY <2>1, <1>e, <1>4
    <2>2. CASE c = who /\ Depth # 1
        <3>1. Depth > 1 /\ asked'[c] = asked[c] /\ enqueue'[c] = <<>>
            BY <2>2, <1>2, <1>3, <1>4
        <3>2. \A j \in 1..Len(asked[c]) : asked[c][j].op \notin Ends
            BY <1>0 DEF AskedIsQueued
        <3> QED BY <2>2, <3>1, <3>2
    <2>3. CASE c # who
        BY <2>3, <1>0, <1>3, <1>4 DEF AskedIsQueued
    <2> QED BY <2>1, <2>2, <2>3
<1>8. Decoded'
    <2>1. \A c \in Clients : \A j \in 1..Len(enqueue'[c]) : cmd[enqueue'[c][j]] \in Cmds
        <3>1. \A j \in 1..Len(enqueue'[who]) : FALSE
            BY <1>e
        <3>2. \A c \in Clients : c # who =>
                  \A j \in 1..Len(enqueue'[c]) : cmd[enqueue'[c][j]] \in Cmds
            BY <1>0, <1>3 DEF Decoded
        <3> QED BY <3>1, <3>2
    <2> QED BY <2>1, <1>0, <1>1, <1>2 DEF Decoded
<1>9. RoomLeft'
    <2>1. Len(enqueue[who]) + Cardinality(Queueable(stack[1], cmd)) <= MaxQueue
        BY <1>0, <1>2 DEF RoomLeft
    <2>2. Len(enqueue[who]) \in Nat
        BY <1>0, <1>2 DEF Typed
    <2>3. Len(enqueue'[who]) + Cardinality(Queueable(stack'[1], cmd)) <= MaxQueue
        BY <2>1, <2>2, <1>2, <1>3, BoundAssumption
    <2> QED BY <2>3, <1>1 DEF RoomLeft
<1>10. RunningAsAsked'
    <2>1. Depth >= 2 => old' > 0
        BY <1>1, <1>2, NothingEnds
    <2> QED BY <2>1, <1>2, <1>4 DEF RunningAsAsked
<1>11. CrashedDeep' /\ BatchOwnsItsCommands'
    BY <1>0, <1>1, <1>2 DEF CrashedDeep, BatchOwnsItsCommands
<1>12. BatchQueueIntact'
    <2>1. \A n \in Nat : (n + 1)..0 = {}
        OBVIOUS
    <2>2. (old' + 1)..Len(enqueue'[who]) = {}
        BY <2>1, <1>e, <1>4
    <2> QED BY <2>2, <1>1 DEF BatchQueueIntact
<1>13. QueueOnlyInTxn'
    BY <1>0, <1>1, <1>2, <1>3 DEF QueueOnlyInTxn
<1> QED BY <1>5, <1>6, <1>7, <1>8, <1>9, <1>10, <1>11, <1>12, <1>13 DEF IInv

(* A frame begins with what was asked for, if all of it is of this batch.  *)
LEMMA ExecKeeps ==
    ASSUME IInv, Exec
    PROVE  IInv'
<1>0. Typed /\ Bounded /\ AskedIsQueued /\ Decoded /\ RoomLeft /\ CrashedDeep
      /\ BatchOwnsItsCommands /\ BatchQueueIntact /\ QueueOnlyInTxn
    BY DEF IInv
<1> DEFINE f == [cmds |-> enqueue[who], i |-> 1]
<1>1. /\ AtCommand /\ Current.op \in Ends /\ isTxn[who] /\ Depth < MaxDepth
      /\ stack' = Append(Advanced, f)
      /\ ran' = IF Depth = 1 THEN <<>> ELSE ran
      /\ cmd' = cmd /\ pool' = pool /\ enqueue' = enqueue /\ isTxn' = isTxn
      /\ who' = who /\ process' = process /\ asked' = asked /\ old' = old
    BY DEF Exec, Executes, commands, session, Ends
<1>2. /\ Evaluating /\ who \in Clients /\ Depth \in Nat \ {0}
      /\ Advanced \in Seq(Frame) /\ Len(Advanced) = Depth
      /\ \A k \in 1..Depth : /\ Advanced[k].i <= Len(Advanced[k].cmds) + 1
                             /\ Len(Advanced[k].cmds) <= MaxBatch + MaxQueue
                             /\ Advanced[k].cmds = stack[k].cmds
      /\ Cardinality(Queueable(Advanced[1], cmd)) \in Nat
      /\ Cardinality(Queueable(stack[1], cmd)) \in Nat
      /\ Cardinality(Queueable(Advanced[1], cmd)) <= Cardinality(Queueable(stack[1], cmd))
    BY <1>1, AdvancedFrames
<1>3. f \in Frame /\ f.cmds = enqueue[who] /\ f.i = 1 /\ enqueue[who] \in Seq(Objs)
    BY <1>0, <1>2 DEF Frame, Typed
<1> HIDE DEF f
<1>4. /\ stack' \in Seq(Frame) /\ stack' # <<>> /\ Depth' = Depth + 1
      /\ \A k \in 1..Depth : stack'[k] = Advanced[k]
      /\ stack'[Depth + 1] = f
    BY <1>1, <1>2, <1>3 DEF Depth
<1>5. \A k \in 1..(Depth + 1) : k \in 1..Depth \/ k = Depth + 1
    BY <1>2
<1>6. Typed'
    BY <1>0, <1>1, <1>2, <1>4 DEF Typed, Evaluating
<1>7. Bounded'
    <2>1. Len(enqueue[who]) <= MaxQueue /\ Len(enqueue[who]) \in Nat
        BY <1>0, <1>2, <1>3 DEF Bounded
    <2>2. f.i <= Len(f.cmds) + 1 /\ Len(f.cmds) <= MaxBatch + MaxQueue
        BY <2>1, <1>3, BoundAssumption
    <2>3. \A k \in 1..(Depth + 1) : /\ stack'[k].i <= Len(stack'[k].cmds) + 1
                                  /\ Len(stack'[k].cmds) <= MaxBatch + MaxQueue
        BY <2>2, <1>2, <1>4, <1>5
    <2>4. Depth + 1 <= MaxDepth
        BY <1>1, <1>2, BoundAssumption
    <2> QED BY <2>3, <2>4, <1>0, <1>1, <1>4 DEF Bounded
<1>8. AskedIsQueued'
    BY <1>0, <1>1, <1>2, <1>4 DEF AskedIsQueued
<1>9. Decoded'
    <2>1. \A k \in 1..(Depth + 1) : \A j \in 1..Len(stack'[k].cmds) : cmd[stack'[k].cmds[j]] \in Cmds
        <3> TAKE k \in 1..(Depth + 1)
        <3>1. CASE k \in 1..Depth
            BY <3>1, <1>0, <1>2, <1>4 DEF Decoded
        <3>2. CASE k = Depth + 1
            BY <3>2, <1>0, <1>2, <1>3, <1>4 DEF Decoded
        <3> QED BY <3>1, <3>2, <1>5
    <2> QED BY <2>1, <1>0, <1>1, <1>4 DEF Decoded
<1>10. RoomLeft'
    <2>1. Len(enqueue[who]) + Cardinality(Queueable(stack[1], cmd)) <= MaxQueue
        BY <1>0, <1>2 DEF RoomLeft
    <2>2. stack'[1] = Advanced[1] /\ Len(enqueue[who]) \in Nat
        BY <1>2, <1>3, <1>4
    <2>3. Len(enqueue[who]) + Cardinality(Queueable(stack'[1], cmd)) <= MaxQueue
        BY <2>1, <2>2, <1>2, BoundAssumption
    <2> QED BY <2>3, <1>1 DEF RoomLeft
<1>11. RunningAsAsked'
    <2> SUFFICES ASSUME old = 0
                 PROVE  /\ Depth' = 2 /\ process = "up"
                        /\ Len(stack'[2].cmds) = Len(asked[who])
                        /\ \A j \in 1..Len(asked[who]) : cmd[stack'[2].cmds[j]] = asked[who][j]
                        /\ Len(ran') = stack'[2].i - 1
                        /\ \A j \in 1..Len(ran') : ran'[j] = asked[who][j]
        BY <1>1 DEF RunningAsAsked
    <2>1. Depth = 1
        BY <1>1, <1>2, NothingEnds
    <2>2. Len(asked[who]) = Len(enqueue[who])
        BY <2>1, <1>0, <1>2 DEF AskedIsQueued
    <2>3. stack'[2].cmds = enqueue[who] /\ stack'[2].i = 1 /\ ran' = <<>>
        <3>1. Depth + 1 = 2 /\ stack'[Depth + 1] = f
            BY <2>1, <1>4
        <3>2. stack'[2] = f
            BY <3>1
        <3> QED BY <3>2, <2>1, <1>1, <1>3
    <2>4. \A j \in 1..Len(enqueue[who]) : cmd[enqueue[who][j]] = asked[who][j]
        BY <1>0, <1>2 DEF BatchQueueIntact
    <2>5. process = "up"
        BY <1>1 DEF AtCommand
    <2> QED BY <2>1, <2>2, <2>3, <2>4, <2>5, <1>4
<1>12. CrashedDeep'
    BY <1>1 DEF CrashedDeep, AtCommand
<1>13. BatchOwnsItsCommands'
    <2>1. stack'[1].cmds = stack[1].cmds
        BY <1>2, <1>4
    <2> QED BY <2>1, <1>0, <1>1, <1>2 DEF BatchOwnsItsCommands
<1>14. BatchQueueIntact'
    BY <1>0, <1>1, <1>2 DEF BatchQueueIntact
<1>15. QueueOnlyInTxn'
    BY <1>0, <1>1, <1>2, <1>4 DEF QueueOnlyInTxn
<1> QED BY <1>6, <1>7, <1>8, <1>9, <1>10, <1>11, <1>12, <1>13, <1>14, <1>15 DEF IInv

(* The stack overflows only for the queue of an earlier batch.             *)
LEMMA OverflowKeeps ==
    ASSUME IInv, Overflow
    PROVE  IInv'
<1>1. /\ AtCommand /\ Current.op \in Ends /\ Depth = MaxDepth /\ process' = "crashed"
      /\ cmd' = cmd /\ pool' = pool /\ enqueue' = enqueue /\ isTxn' = isTxn
      /\ who' = who /\ stack' = stack /\ asked' = asked /\ old' = old /\ ran' = ran
    BY DEF Overflow, Executes, commands, session, history, Ends
<1>2. Depth >= 2 /\ Depth' = Depth
    BY <1>1, BoundAssumption DEF Depth
<1>3. old > 0
    BY <1>1, <1>2, NothingEnds
<1>4. Typed' /\ Bounded' /\ AskedIsQueued' /\ Decoded'
    BY <1>1, <1>2 DEF IInv, Typed, Evaluating, Bounded, AskedIsQueued, Decoded
<1>5. RoomLeft' /\ BatchOwnsItsCommands' /\ BatchQueueIntact' /\ QueueOnlyInTxn'
    BY <1>1, <1>2 DEF IInv, RoomLeft, Evaluating, BatchOwnsItsCommands, BatchQueueIntact,
        QueueOnlyInTxn
<1>6. RunningAsAsked' /\ CrashedDeep'
    BY <1>1, <1>2, <1>3 DEF RunningAsAsked, CrashedDeep
<1> QED BY <1>4, <1>5, <1>6 DEF IInv

(* TxnExec leaves neither a queue nor a transaction to its client.         *)
LEMMA ReturnKeeps ==
    ASSUME IInv, ExecReturn
    PROVE  IInv'
<1>0. Typed /\ Bounded /\ AskedIsQueued /\ Decoded /\ RoomLeft /\ RunningAsAsked
      /\ BatchOwnsItsCommands /\ QueueOnlyInTxn
    BY DEF IInv
<1>1. /\ process = "up" /\ Evaluating /\ Depth > 1 /\ stack' = SubSeq(stack, 1, Depth - 1)
      /\ enqueue' = [enqueue EXCEPT ![who] = <<>>] /\ isTxn' = [isTxn EXCEPT ![who] = FALSE]
      /\ cmd' = cmd /\ pool' = pool /\ who' = who /\ process' = process /\ ran' = ran
      /\ Depth = 2 => asked' = [asked EXCEPT ![who] = <<>>] /\ old' = 0
      /\ Depth # 2 => asked' = asked /\ old' = old
    BY DEF ExecReturn, AtEnd, commands, Forget
<1>2. Depth \in Nat /\ who \in Clients /\ stack \in Seq(Frame) /\ stack[1] \in Frame
    BY <1>0, <1>1, Evaluation DEF Typed
<1>3. /\ stack' \in Seq(Frame) /\ stack' # <<>> /\ Depth' = Depth - 1
      /\ \A k \in 1..(Depth - 1) : stack'[k] = stack[k] /\ k \in 1..Depth
    <2> DEFINE n == Depth - 1
    <2>1. n \in Nat \ {0} /\ n <= Len(stack) /\ \A k \in 1..n : k \in 1..Depth
        BY <1>1, <1>2 DEF Depth
    <2>2. stack' = SubSeq(stack, 1, n)
        BY <1>1
    <2> HIDE DEF n
    <2>3. SubSeq(stack, 1, n) \in Seq(Frame) /\ Len(SubSeq(stack, 1, n)) = n
          /\ \A k \in 1..n : SubSeq(stack, 1, n)[k] = stack[k]
        BY <1>2, <2>1
    <2>4. Len(stack') = n /\ stack' # <<>> /\ stack' \in Seq(Frame)
          /\ \A k \in 1..n : stack'[k] = stack[k]
        BY <2>1, <2>2, <2>3
    <2> QED BY <2>1, <2>4 DEF Depth, n
<1>4. stack'[1] = stack[1] /\ Depth' \in Nat
    BY <1>1, <1>2, <1>3
<1>5. /\ enqueue' \in [Clients -> Seq(Objs)] /\ isTxn' \in [Clients -> BOOLEAN]
      /\ enqueue'[who] = <<>>
      /\ \A c \in Clients : c # who => enqueue'[c] = enqueue[c] /\ isTxn'[c] = isTxn[c]
    BY <1>0, <1>1, <1>2 DEF Typed
<1>6. Len(enqueue'[who]) = 0
    BY <1>5
<1>7. /\ asked' \in [Clients -> Seq(Cmds)] /\ old' \in Nat /\ old' <= old
      /\ \A c \in Clients : c # who \/ Depth # 2 => asked'[c] = asked[c]
      /\ Depth = 2 => asked'[who] = <<>> /\ Len(asked'[who]) = 0
    <2>1. asked \in [Clients -> Seq(Cmds)] /\ old \in Nat
        BY <1>0 DEF Typed
    <2>2. CASE Depth = 2
        <3>1. asked' = [asked EXCEPT ![who] = <<>>] /\ old' = 0
            BY <1>1, <2>2
        <3>2. asked' \in [Clients -> Seq(Cmds)] /\ asked'[who] = <<>>
              /\ \A c \in Clients : c # who => asked'[c] = asked[c]
            BY <3>1, <2>1, <1>2
        <3> QED BY <2>1, <2>2, <3>1, <3>2
    <2>3. CASE Depth # 2
        BY <1>1, <2>1, <2>3
    <2> QED BY <2>2, <2>3
<1>8. Typed'
    BY <1>0, <1>1, <1>3, <1>5, <1>7 DEF Typed, Evaluating
<1>9. Bounded'
    <2>1. \A c \in Clients : Len(enqueue'[c]) <= MaxQueue
        <3>1. Len(enqueue'[who]) <= MaxQueue
            BY <1>6, BoundAssumption
        <3>2. \A c \in Clients : c # who => Len(enqueue'[c]) <= MaxQueue
            BY <1>0, <1>5 DEF Bounded
        <3> QED BY <3>1, <3>2
    <2>2. \A c \in Clients : Len(asked'[c]) <= MaxQueue
        <3>1. Depth = 2 => Len(asked'[who]) <= MaxQueue
            BY <1>7, BoundAssumption
        <3>2. \A c \in Clients : c # who \/ Depth # 2 => Len(asked'[c]) <= MaxQueue
            BY <1>0, <1>7 DEF Bounded
        <3> QED BY <3>1, <3>2
    <2>3. old' <= MaxQueue /\ Depth' <= MaxDepth
        BY <1>0, <1>2, <1>3, <1>7, BoundAssumption DEF Bounded, Typed
    <2>4. \A k \in 1..(Depth - 1) : /\ stack'[k].i <= Len(stack'[k].cmds) + 1
                                   /\ Len(stack'[k].cmds) <= MaxBatch + MaxQueue
        BY <1>0, <1>3 DEF Bounded
    <2> QED BY <2>1, <2>2, <2>3, <2>4, <1>3 DEF Bounded
<1>10. AskedIsQueued'
    <2> SUFFICES ASSUME NEW c \in Clients
                 PROVE  /\ \/ Len(asked'[c]) = Len(enqueue'[c])
                           \/ c = who /\ Depth' > 1 /\ enqueue'[c] = <<>>
                        /\ \A j \in 1..Len(asked'[c]) : asked'[c][j].op \notin Ends
        BY <1>1 DEF AskedIsQueued
    <2>1. CASE c = who /\ Depth = 2
        BY <2>1, <1>6, <1>7
    <2>2. CASE c = who /\ Depth # 2
        <3>1. Depth' > 1 /\ asked'[c] = asked[c] /\ enqueue'[c] = <<>>
            BY <2>2, <1>1, <1>2, <1>3, <1>5, <1>7
        <3>2. \A j \in 1..Len(asked[c]) : asked[c][j].op \notin Ends
            BY <1>0 DEF AskedIsQueued
        <3> QED BY <2>2, <3>1, <3>2
    <2>3. CASE c # who
        BY <2>3, <1>0, <1>5, <1>7 DEF AskedIsQueued
    <2> QED BY <2>1, <2>2, <2>3
<1>11. Decoded'
    <2>1. \A c \in Clients : \A j \in 1..Len(enqueue'[c]) : cmd[enqueue'[c][j]] \in Cmds
        <3>1. \A j \in 1..Len(enqueue'[who]) : FALSE
            BY <1>6
        <3>2. \A c \in Clients : c # who =>
                  \A j \in 1..Len(enqueue'[c]) : cmd[enqueue'[c][j]] \in Cmds
            BY <1>0, <1>5 DEF Decoded
        <3> QED BY <3>1, <3>2
    <2>2. \A k \in 1..(Depth - 1) : \A j \in 1..Len(stack'[k].cmds) : cmd[stack'[k].cmds[j]] \in Cmds
        BY <1>0, <1>3 DEF Decoded
    <2> QED BY <2>1, <2>2, <1>1, <1>3 DEF Decoded
<1>12. RoomLeft'
    <2>1. Len(enqueue[who]) + Cardinality(Queueable(stack[1], cmd)) <= MaxQueue
        BY <1>0, <1>1 DEF RoomLeft
    <2>2. Len(enqueue[who]) \in Nat /\ Cardinality(Queueable(stack[1], cmd)) \in Nat
        <3>1. Len(enqueue[who]) \in Nat
            BY <1>0, <1>2 DEF Typed
        <3>2. Cardinality(Queueable(stack[1], cmd)) \in Nat
            BY <1>2, QueueableShrinks
        <3> QED BY <3>1, <3>2
    <2>3. Len(enqueue'[who]) + Cardinality(Queueable(stack'[1], cmd)) <= MaxQueue
        BY <2>1, <2>2, <1>4, <1>6, BoundAssumption
    <2> QED BY <2>3, <1>1 DEF RoomLeft
<1>13. RunningAsAsked'
    <2>1. Depth' >= 2 => Depth # 2 /\ old > 0
        BY <1>0, <1>2, <1>3 DEF RunningAsAsked, Typed
    <2> QED BY <2>1, <1>1 DEF RunningAsAsked
<1>14. CrashedDeep'
    BY <1>1 DEF CrashedDeep
<1>15. BatchOwnsItsCommands'
    BY <1>0, <1>1, <1>4 DEF BatchOwnsItsCommands
<1>16. BatchQueueIntact'
    <2>1. \A n \in Nat : (n + 1)..0 = {}
        OBVIOUS
    <2>2. (old' + 1)..Len(enqueue'[who]) = {}
        BY <2>1, <1>6, <1>7
    <2> QED BY <2>2, <1>1 DEF BatchQueueIntact
<1>17. QueueOnlyInTxn'
    BY <1>0, <1>1, <1>5 DEF QueueOnlyInTxn
<1> QED BY <1>8, <1>9, <1>10, <1>11, <1>12, <1>13, <1>14, <1>15, <1>16, <1>17 DEF IInv

(* The batch goes back to the pool: its commands keep their names.         *)
LEMMA RespondKeeps ==
    ASSUME IInv, Respond
    PROVE  IInv'
<1>0. Typed /\ Bounded /\ AskedIsQueued /\ Decoded /\ QueueOnlyInTxn
    BY DEF IInv
<1>1. /\ process = "up" /\ Evaluating /\ Depth = 1
      /\ cmd' = [o \in Objs |-> IF o \in Elems(Top.cmds) THEN Stripped(cmd[o]) ELSE cmd[o]]
      /\ pool' = pool \cup Elems(Top.cmds)
      /\ who' = Nobody /\ stack' = <<>> /\ old' = 0 /\ ran' = <<>>
      /\ enqueue' = enqueue /\ isTxn' = isTxn /\ process' = process /\ asked' = asked
    BY DEF Respond, AtEnd, session
<1>2. Depth' = 0 /\ ~Evaluating'
    BY <1>1 DEF Depth, Evaluating
<1>3. Top = stack[1] /\ Top \in Frame
    BY <1>0, <1>1, Evaluation DEF Top
<1>4. Top.cmds \in Seq(Objs)
    BY <1>3 DEF Frame
<1>5. Elems(Top.cmds) \subseteq Objs /\ \A o \in Elems(Top.cmds) : cmd[o] \in Cmds
    <2>1. \A j \in 1..Len(Top.cmds) : cmd[Top.cmds[j]] \in Cmds /\ Top.cmds[j] \in Objs
        BY <1>0, <1>1, <1>3, <1>4 DEF Decoded
    <2> QED BY <2>1, <1>4 DEF Elems
<1>6. \A x \in Cmds : Stripped(x) \in Cmds
    BY DEF Stripped, Cmds
<1>7. \A o \in Objs : /\ cmd'[o] \in Cmds \cup {Blank}
                      /\ cmd[o] \in Cmds => cmd'[o] \in Cmds
    BY <1>0, <1>1, <1>5, <1>6 DEF Typed
<1>8. Typed'
    <2>1. cmd' \in [Objs -> Cmds \cup {Blank}]
        <3>1. cmd' = [o \in Objs |-> cmd'[o]]
            BY <1>1
        <3> QED BY <3>1, <1>7
    <2>2. pool' \in SUBSET Objs
        BY <1>0, <1>1, <1>5 DEF Typed
    <2>3. old' \in Nat /\ ran' \in Seq(Cmds) /\ stack' \in Seq(Frame) /\ stack' = <<>>
        BY <1>1
    <2> QED BY <2>1, <2>2, <2>3, <1>0, <1>1, <1>2 DEF Typed
<1>9. Bounded'
    BY <1>0, <1>1, <1>2, BoundAssumption DEF Bounded
<1>10. AskedIsQueued'
    BY <1>0, <1>1 DEF AskedIsQueued
<1>11. Decoded'
    <2>1. \A c \in Clients : \A j \in 1..Len(enqueue[c]) : enqueue[c][j] \in Objs
        BY <1>0 DEF Typed
    <2>2. \A c \in Clients : \A j \in 1..Len(enqueue[c]) : cmd'[enqueue[c][j]] \in Cmds
        BY <2>1, <1>0, <1>7 DEF Decoded
    <2> QED BY <2>2, <1>1, <1>2 DEF Decoded
<1>12. RoomLeft' /\ BatchOwnsItsCommands' /\ BatchQueueIntact'
    BY <1>2 DEF RoomLeft, BatchOwnsItsCommands, BatchQueueIntact
<1>13. RunningAsAsked' /\ CrashedDeep'
    BY <1>1, <1>2 DEF RunningAsAsked, CrashedDeep
<1>14. QueueOnlyInTxn'
    BY <1>0, <1>1 DEF QueueOnlyInTxn
<1> QED BY <1>8, <1>9, <1>10, <1>11, <1>12, <1>13, <1>14 DEF IInv

(* A client goes between batches, and nothing of it stays.                 *)
LEMMA DisconnectKeeps ==
    ASSUME IInv, NEW c \in Clients, Disconnect(c)
    PROVE  IInv'
<1>0. Typed /\ Bounded /\ AskedIsQueued /\ Decoded /\ QueueOnlyInTxn
      /\ ~Evaluating /\ Depth = 0 /\ who = Nobody /\ process = "up"
    BY Evaluation DEF IInv, Disconnect
<1>1. /\ enqueue' = [enqueue EXCEPT ![c] = <<>>] /\ isTxn' = [isTxn EXCEPT ![c] = FALSE]
      /\ asked' = [asked EXCEPT ![c] = <<>>]
      /\ cmd' = cmd /\ pool' = pool /\ who' = who /\ stack' = stack /\ process' = process
      /\ old' = old /\ ran' = ran
    BY DEF Disconnect, commands
<1>2. Depth' = 0 /\ ~Evaluating'
    BY <1>0, <1>1 DEF Depth, Evaluating
<1>3. /\ enqueue' \in [Clients -> Seq(Objs)] /\ isTxn' \in [Clients -> BOOLEAN]
      /\ asked' \in [Clients -> Seq(Cmds)]
      /\ enqueue'[c] = <<>> /\ asked'[c] = <<>>
      /\ \A d \in Clients : d # c => /\ enqueue'[d] = enqueue[d] /\ isTxn'[d] = isTxn[d]
                                    /\ asked'[d] = asked[d]
    BY <1>0, <1>1 DEF Typed
<1>4. Len(enqueue'[c]) = 0 /\ Len(asked'[c]) = 0
    BY <1>3
<1>5. Typed'
    BY <1>0, <1>1, <1>2, <1>3 DEF Typed, Evaluating
<1>6. Bounded'
    <2>1. \A d \in Clients : Len(enqueue'[d]) <= MaxQueue /\ Len(asked'[d]) <= MaxQueue
        <3>1. Len(enqueue'[c]) <= MaxQueue /\ Len(asked'[c]) <= MaxQueue
            BY <1>4, BoundAssumption
        <3>2. \A d \in Clients : d # c => Len(enqueue'[d]) <= MaxQueue /\ Len(asked'[d]) <= MaxQueue
            BY <1>0, <1>3 DEF Bounded
        <3> QED BY <3>1, <3>2
    <2> QED BY <2>1, <1>0, <1>1, <1>2 DEF Bounded
<1>7. AskedIsQueued'
    <2>1. Len(asked'[c]) = Len(enqueue'[c]) /\ 1..Len(asked'[c]) = {}
        BY <1>4
    <2>2. \A d \in Clients : d # c => /\ Len(asked'[d]) = Len(enqueue'[d])
                                    /\ \A j \in 1..Len(asked'[d]) : asked'[d][j].op \notin Ends
        <3> SUFFICES ASSUME NEW d \in Clients, d # c
                     PROVE  /\ Len(asked[d]) = Len(enqueue[d])
                            /\ \A j \in 1..Len(asked[d]) : asked[d][j].op \notin Ends
            BY <1>3
        <3>1. ~(Depth > 1)
            BY <1>0
        <3> QED BY <1>0, <3>1 DEF AskedIsQueued
    <2> QED BY <2>1, <2>2 DEF AskedIsQueued
<1>8. Decoded'
    BY <1>0, <1>1, <1>2, <1>3, <1>4 DEF Decoded
<1>9. RoomLeft' /\ BatchOwnsItsCommands' /\ BatchQueueIntact'
    BY <1>2 DEF RoomLeft, BatchOwnsItsCommands, BatchQueueIntact
<1>10. RunningAsAsked' /\ CrashedDeep'
    BY <1>0, <1>1, <1>2 DEF RunningAsAsked, CrashedDeep
<1>11. QueueOnlyInTxn'
    BY <1>0, <1>1, <1>2, <1>3 DEF QueueOnlyInTxn
<1> QED BY <1>5, <1>6, <1>7, <1>8, <1>9, <1>10, <1>11 DEF IInv

(* An object leaves the pool.                                              *)
LEMMA PoolGCKeeps ==
    ASSUME IInv, NEW o \in Objs, PoolGC(o)
    PROVE  IInv'
<1>1. /\ pool' = pool \ {o} /\ cmd' = cmd /\ enqueue' = enqueue /\ isTxn' = isTxn
      /\ who' = who /\ stack' = stack /\ process' = process
      /\ asked' = asked /\ old' = old /\ ran' = ran
    BY DEF PoolGC, session, history
<1>2. BatchOwnsItsCommands'
    BY <1>1 DEF IInv, BatchOwnsItsCommands, Evaluating
<1>3. Typed' /\ Bounded' /\ AskedIsQueued' /\ Decoded' /\ RoomLeft'
    BY <1>1 DEF IInv, Typed, Evaluating, Bounded, AskedIsQueued, Decoded, RoomLeft, Depth
<1>4. RunningAsAsked' /\ CrashedDeep' /\ BatchQueueIntact' /\ QueueOnlyInTxn'
    BY <1>1 DEF IInv, Evaluating, RunningAsAsked, CrashedDeep, BatchQueueIntact,
        QueueOnlyInTxn, Depth
<1> QED BY <1>2, <1>3, <1>4 DEF IInv

(* Nothing happens.                                                        *)
LEMMA StutterKeeps ==
    ASSUME IInv, UNCHANGED vars
    PROVE  IInv'
<1>1. /\ pool' = pool /\ cmd' = cmd /\ enqueue' = enqueue /\ isTxn' = isTxn
      /\ who' = who /\ stack' = stack /\ process' = process
      /\ asked' = asked /\ old' = old /\ ran' = ran
    BY DEF vars, commands, session, history
<1>2. Typed' /\ Bounded' /\ AskedIsQueued' /\ Decoded' /\ RoomLeft' /\ BatchOwnsItsCommands'
    BY <1>1 DEF IInv, Typed, Evaluating, Bounded, AskedIsQueued, Decoded, RoomLeft, Depth,
        BatchOwnsItsCommands
<1>3. RunningAsAsked' /\ CrashedDeep' /\ BatchQueueIntact' /\ QueueOnlyInTxn'
    BY <1>1 DEF IInv, Evaluating, RunningAsAsked, CrashedDeep, BatchQueueIntact,
        QueueOnlyInTxn, Depth
<1> QED BY <1>2, <1>3 DEF IInv

(* Every step of the event loop over a batch keeps the invariant.          *)
THEOREM NextIInv == IInv /\ [Next]_vars => IInv'
<1> SUFFICES ASSUME IInv, [Next]_vars PROVE IInv'
    OBVIOUS
<1>0. Typed
    BY DEF IInv
<1>1. CASE \E c \in Clients, ops \in SeqUpTo(Ops, MaxBatch) : Read(c, ops)
    BY <1>1, ReadKeeps
<1>2. CASE Enqueue
    BY <1>2, EnqueueKeeps
<1>3. CASE ExecutePlain \/ Multi \/ Refused
    BY <1>3, <1>0, PlainIsWalk, WalkKeeps
<1>4. CASE Discard
    BY <1>4, DiscardKeeps
<1>5. CASE Exec
    BY <1>5, ExecKeeps
<1>6. CASE Overflow
    BY <1>6, OverflowKeeps
<1>7. CASE ExecReturn
    BY <1>7, ReturnKeeps
<1>8. CASE Respond
    BY <1>8, RespondKeeps
<1>9. CASE \E c \in Clients : Disconnect(c)
    BY <1>9, DisconnectKeeps
<1>10. CASE \E o \in Objs : PoolGC(o)
    BY <1>10, PoolGCKeeps
<1>11. CASE UNCHANGED vars
    BY <1>11, StutterKeeps
<1> QED BY <1>1, <1>2, <1>3, <1>4, <1>5, <1>6, <1>7, <1>8, <1>9, <1>10, <1>11 DEF Next
-----------------------------------------------------------------------------
(* The strengthened invariant of every behaviour.                          *)
THEOREM AlwaysIInv == Spec => []IInv
    BY InitIInv, NextIInv, PTL DEF Spec

(* The state stays within its types and bounds, whatever is sent.          *)
THEOREM TypeCorrect == Spec => []TypeOK
<1>1. IInv => TypeOK
    BY TypeFollows DEF IInv
<1> QED BY <1>1, AlwaysIInv, PTL

(* A command of a batch is in the batch once, and not in the pool, until   *)
(* FreeCmds puts the batch back (core/resp.go).                            *)
THEOREM BatchAlwaysOwnsItsCommands == Spec => []BatchOwnsItsCommands
<1>1. IInv => BatchOwnsItsCommands
    BY DEF IInv
<1> QED BY <1>1, AlwaysIInv, PTL

(* What TxnQueue took from the batch at work (core/comm.go) still says     *)
(* what the client was told is queued.                                     *)
THEOREM BatchQueueAlwaysIntact == Spec => []BatchQueueIntact
<1>1. IInv => BatchQueueIntact
    BY DEF IInv
<1> QED BY <1>1, AlwaysIInv, PTL

(* TxnExec and TxnDiscard leave no queue behind for the next MULTI.        *)
THEOREM QueueOnlyEverInTxn == Spec => []QueueOnlyInTxn
<1>1. IInv => QueueOnlyInTxn
    BY DEF IInv
<1> QED BY <1>1, AlwaysIInv, PTL

(* TxnExec calls itself, and the stack overflows, only for a queue that    *)
(* began in an earlier batch.                                              *)
THEOREM OneBatchTxnAlwaysReturns == Spec => []OneBatchTxnReturns
<1>1. IInv => OneBatchTxnReturns
    <2> SUFFICES ASSUME IInv, Depth > 2 \/ process = "crashed" PROVE old > 0
        BY DEF OneBatchTxnReturns
    <2>1. Depth \in Nat /\ old \in Nat /\ Depth >= 2
        BY Evaluation DEF IInv, Typed, CrashedDeep
    <2>2. ~(old = 0)
        BY <2>1 DEF IInv, RunningAsAsked
    <2> QED BY <2>1, <2>2
<1> QED BY <1>1, AlwaysIInv, PTL

(* When the EXEC of a transaction sent in one batch returns, it has run    *)
(* what was queued, whole and in order.                                    *)
THEOREM OneBatchTxnAlwaysRunsAsQueued == Spec => OneBatchTxnRunsAsQueued
<1>1. IInv /\ [Next]_vars => [Depth = 2 /\ ExecReturn /\ old = 0 => ran = asked[who]]_vars
    <2> SUFFICES ASSUME IInv, Depth = 2, ExecReturn, old = 0 PROVE ran = asked[who]
        OBVIOUS
    <2>1. /\ Len(stack[2].cmds) = Len(asked[who])
          /\ Len(ran) = stack[2].i - 1
          /\ \A j \in 1..Len(ran) : ran[j] = asked[who][j]
          /\ stack[2].i <= Len(stack[2].cmds) + 1
        BY DEF IInv, RunningAsAsked, Bounded
    <2>2. Top = stack[2] /\ Top.i > Len(Top.cmds) /\ Evaluating
        BY DEF ExecReturn, AtEnd, Top
    <2>3. who \in Clients /\ Top \in Frame
        BY <2>2, Evaluation DEF IInv, Typed
    <2>4. ran \in Seq(Cmds) /\ asked[who] \in Seq(Cmds) /\ Top.i \in Nat /\ Len(Top.cmds) \in Nat
        BY <2>3 DEF IInv, Typed, Frame
    <2>5. Len(ran) = Len(asked[who])
        BY <2>1, <2>2, <2>4
    <2> QED BY SMTT(30), <2>1, <2>4, <2>5
<1> QED BY <1>1, AlwaysIInv, PTL DEF Spec, OneBatchTxnRunsAsQueued
=============================================================================
