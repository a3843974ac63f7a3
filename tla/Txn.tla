-------------------------------- MODULE Txn --------------------------------
(***************************************************************************)
(* How the event loop evaluates what a client sends: DecodeCommands and    *)
(* FreeCmds (core/resp.go), EvalAndRespond and the transaction commands of *)
(* executeCommand (core/eval.go), and the queue of a transaction           *)
(* (core/comm.go).                                                         *)
(*                                                                         *)
(* One read of a socket is a batch of commands.  Its RedisCmd objects come *)
(* from a sync.Pool, are evaluated in order, and go back to the pool when  *)
(* the batch is over, while a transaction may still have them in its       *)
(* queue.  The loop has one goroutine, so one batch is over before the     *)
(* next begins; the steps below are the commands of a batch, and a stack   *)
(* of frames stands for the loops that are running them: EvalAndRespond's  *)
(* at the bottom, and one of TxnExec for every EXEC above it.              *)
(***************************************************************************)
EXTENDS Integers, Sequences, FiniteSets

CONSTANTS
    Clients,
    Objs,       \* the addresses of RedisCmds: bounds those in use at once
    Plain,      \* the commands that are not about transactions
    MaxBatch,   \* bound on the commands of one read
    MaxQueue,   \* bound on the commands a transaction queues
    MaxDepth,   \* the frames a goroutine's stack has room for
    Nobody      \* not a client

ASSUME BoundAssumption ==
    MaxBatch \in Nat \ {0} /\ MaxQueue \in Nat \ {0} /\ MaxDepth \in Nat \ {0, 1}
ASSUME PlainAssumption == Plain \cap {"MULTI", "EXEC", "DISCARD"} = {}
ASSUME NobodyAssumption == Nobody \notin Clients

VARIABLES
    cmd,       \* what each RedisCmd holds
    pool,      \* cmdPool
    enqueue,   \* per client: the queue, a sequence of RedisCmd pointers
    isTxn,     \* per client
    who,       \* the client whose batch is being evaluated, or Nobody
    stack,     \* the frames at work on it
    process,   \* "up", or "crashed"
    asked,     \* history: what each client was told is QUEUED
    old,       \* history: how much of the queue is from earlier batches
    ran        \* history: what the EXEC of the batch has executed

commands == <<cmd, pool>>
session == <<enqueue, isTxn>>
history == <<asked, old, ran>>
vars == <<commands, session, who, stack, process, history>>

Ops == Plain \cup {"MULTI", "EXEC", "DISCARD"}

(* A command with its arguments, or what FreeCmds leaves: the name alone.  *)
Cmds == [op : Ops, whole : BOOLEAN]
Whole(op) == [op |-> op, whole |-> TRUE]
Stripped(c) == [c EXCEPT !.whole = FALSE]
Blank == [op |-> "", whole |-> FALSE]

SeqUpTo(S, n) == UNION {[1..m -> S] : m \in 0..n}
Frames == [cmds : SeqUpTo(Objs, MaxBatch + MaxQueue), i : 1..(MaxBatch + MaxQueue + 1)]
Elems(s) == {s[i] : i \in DOMAIN s}

Depth == Len(stack)
Evaluating == who # Nobody
Top == stack[Depth]
Current == cmd[Top.cmds[Top.i]]
Advanced == [stack EXCEPT ![Depth].i = @ + 1]

(* A frame has a command to evaluate; the loop of EvalAndRespond queues    *)
(* it, unless it ends a transaction, if there is one.                      *)
AtCommand == process = "up" /\ Evaluating /\ Top.i <= Len(Top.cmds)
Queues == Depth = 1 /\ isTxn[who] /\ Current.op \notin {"EXEC", "DISCARD"}
Executes(op) == AtCommand /\ ~Queues /\ Current.op = op
Log == ran' = IF Depth > 1 THEN Append(ran, Current) ELSE ran

(* The transaction a client asked for is over when the batch itself, or    *)
(* the EXEC in it, says so; the frames above only do it to themselves.     *)
Forget(depth) ==
    IF Depth = depth THEN asked' = [asked EXCEPT ![who] = <<>>] /\ old' = 0
                     ELSE UNCHANGED <<asked, old>>

Init ==
    /\ cmd = [o \in Objs |-> Blank]
    /\ pool = {}
    /\ enqueue = [c \in Clients |-> <<>>]
    /\ isTxn = [c \in Clients |-> FALSE]
    /\ who = Nobody /\ stack = <<>>
    /\ process = "up"
    /\ asked = [c \in Clients |-> <<>>] /\ old = 0 /\ ran = <<>>
-----------------------------------------------------------------------------
(* cmdPool.Get: a pooled object, or a new one, at an address nothing       *)
(* refers to.                                                              *)
Allocatable == pool \cup (Objs \ UNION {Elems(enqueue[c]) : c \in Clients})

Injective(s) == \A i, j \in DOMAIN s : s[i] = s[j] => i = j

(* The bound on the queue holds for the whole batch.                       *)
Fits(c, ops) ==
    Len(enqueue[c]) + Cardinality({i \in DOMAIN ops : ops[i] \notin {"EXEC", "DISCARD"}})
        <= MaxQueue

(* readCommands: a read of c's socket, decoded.                            *)
Read(c, ops) ==
    /\ process = "up" /\ ~Evaluating
    /\ Fits(c, ops)
    /\ \E objs \in [DOMAIN ops -> Allocatable] :
           /\ Injective(objs)
           /\ cmd' = [o \in Objs |->
                         IF o \in Elems(objs)
                         THEN Whole(ops[CHOOSE i \in DOMAIN objs : objs[i] = o])
                         ELSE cmd[o]]
           /\ pool' = pool \ Elems(objs)
           /\ stack' = <<[cmds |-> objs, i |-> 1]>>
    /\ who' = c
    /\ old' = Len(enqueue[c]) /\ ran' = <<>>
    /\ UNCHANGED <<session, process, asked>>

(* Fault: every command goes back to the pool as soon as it is evaluated.  *)
EnqueueFreeing ==
    /\ AtCommand /\ Queues
    /\ enqueue' = [enqueue EXCEPT ![who] = Append(@, Top.cmds[Top.i])]
    /\ asked' = [asked EXCEPT ![who] = Append(@, Current)]
    /\ cmd' = [cmd EXCEPT ![Top.cmds[Top.i]] = Stripped(@)]
    /\ pool' = pool \cup {Top.cmds[Top.i]}
    /\ stack' = Advanced
    /\ UNCHANGED <<isTxn, who, process, old, ran>>

(* TxnQueue, and +QUEUED.                                                  *)
Enqueue ==
    /\ AtCommand /\ Queues
    /\ enqueue' = [enqueue EXCEPT ![who] = Append(@, Top.cmds[Top.i])]
    /\ asked' = [asked EXCEPT ![who] = Append(@, Current)]
    /\ stack' = Advanced
    /\ UNCHANGED <<commands, isTxn, who, process, old, ran>>

(* Any command that leaves transactions alone.                             *)
ExecutePlain ==
    /\ \E op \in Plain : Executes(op)
    /\ Log
    /\ stack' = Advanced
    /\ UNCHANGED <<commands, session, who, process, asked, old>>

Multi ==
    /\ Executes("MULTI")
    /\ isTxn' = [isTxn EXCEPT ![who] = TRUE]
    /\ Log
    /\ stack' = Advanced
    /\ UNCHANGED <<commands, enqueue, who, process, asked, old>>

(* EXEC or DISCARD without MULTI: an error reply.                          *)
Refused ==
    /\ Executes("EXEC") \/ Executes("DISCARD")
    /\ ~isTxn[who]
    /\ Log
    /\ stack' = Advanced
    /\ UNCHANGED <<commands, session, who, process, asked, old>>

(* TxnDiscard drops the queue, but not the slice TxnExec walks over.       *)
Discard ==
    /\ Executes("DISCARD") /\ isTxn[who]
    /\ enqueue' = [enqueue EXCEPT ![who] = <<>>]
    /\ isTxn' = [isTxn EXCEPT ![who] = FALSE]
    /\ Log
    /\ Forget(1)
    /\ stack' = Advanced
    /\ UNCHANGED <<commands, who, process>>

(* Fault: TxnExec skips the first command of the queue.                     *)
ExecShort ==
    /\ Executes("EXEC") /\ isTxn[who]
    /\ Depth < MaxDepth
    /\ stack' = Append(Advanced, [cmds |-> enqueue[who], i |-> IF enqueue[who] = <<>> THEN 1 ELSE 2])
    /\ ran' = IF Depth = 1 THEN <<>> ELSE ran
    /\ UNCHANGED <<commands, session, who, process, asked, old>>

(* Fault: every command of a transaction is queued, EXEC too.              *)
ExecQueuedToo ==
    /\ Executes("EXEC") /\ isTxn[who]
    /\ Depth < MaxDepth
    /\ LET q == Append(enqueue[who], Top.cmds[Top.i]) IN
           /\ enqueue' = [enqueue EXCEPT ![who] = q]
           /\ stack' = Append(Advanced, [cmds |-> q, i |-> 1])
    /\ ran' = IF Depth = 1 THEN <<>> ELSE ran
    /\ UNCHANGED <<commands, isTxn, who, process, asked, old>>

(* TxnExec begins: its loop is over the queue as it is.                    *)
Exec ==
    /\ Executes("EXEC") /\ isTxn[who]
    /\ Depth < MaxDepth
    /\ stack' = Append(Advanced, [cmds |-> enqueue[who], i |-> 1])
    /\ ran' = IF Depth = 1 THEN <<>> ELSE ran
    /\ UNCHANGED <<commands, session, who, process, asked, old>>

(* The queue says EXEC, so TxnExec calls itself until the stack overflows. *)
Overflow ==
    /\ Executes("EXEC") /\ isTxn[who]
    /\ Depth = MaxDepth
    /\ process' = "crashed"
    /\ UNCHANGED <<commands, session, who, stack, history>>

AtEnd == process = "up" /\ Evaluating /\ Top.i > Len(Top.cmds)

(* Fault: TxnExec ends the transaction but keeps the queue.                *)
ExecReturnKeeping ==
    /\ AtEnd /\ Depth > 1
    /\ isTxn' = [isTxn EXCEPT ![who] = FALSE]
    /\ Forget(2)
    /\ stack' = SubSeq(stack, 1, Depth - 1)
    /\ UNCHANGED <<commands, enqueue, who, process, ran>>

(* TxnExec returns.                                                        *)
ExecReturn ==
    /\ AtEnd /\ Depth > 1
    /\ enqueue' = [enqueue EXCEPT ![who] = <<>>]
    /\ isTxn' = [isTxn EXCEPT ![who] = FALSE]
    /\ Forget(2)
    /\ stack' = SubSeq(stack, 1, Depth - 1)
    /\ UNCHANGED <<commands, who, process, ran>>

(* Fault: the loop does not notice that the batch is over.                 *)
RespondUnended ==
    /\ AtEnd /\ Depth = 1
    /\ pool' = pool \cup Elems(Top.cmds)
    /\ stack' = <<>>
    /\ UNCHANGED <<cmd, session, who, process, history>>

(* The replies are written to the socket; FreeCmds takes the arguments     *)
(* away and pools the batch.                                               *)
Respond ==
    /\ AtEnd /\ Depth = 1
    /\ cmd' = [o \in Objs |-> IF o \in Elems(Top.cmds) THEN Stripped(cmd[o]) ELSE cmd[o]]
    /\ pool' = pool \cup Elems(Top.cmds)
    /\ who' = Nobody /\ stack' = <<>>
    /\ old' = 0 /\ ran' = <<>>
    /\ UNCHANGED <<session, process, asked>>

(* The socket is at its end, or what came over it is not RESP: the client  *)
(* goes, with its queue; another may come in its place.                    *)
Disconnect(c) ==
    /\ process = "up" /\ ~Evaluating
    /\ enqueue' = [enqueue EXCEPT ![c] = <<>>]
    /\ isTxn' = [isTxn EXCEPT ![c] = FALSE]
    /\ asked' = [asked EXCEPT ![c] = <<>>]
    /\ UNCHANGED <<commands, who, stack, process, old, ran>>

(* The garbage collector takes an object out of the pool.                  *)
PoolGC(o) ==
    /\ process = "up" /\ o \in pool
    /\ pool' = pool \ {o}
    /\ UNCHANGED <<cmd, session, who, stack, process, history>>

Next ==
    \/ \E c \in Clients, ops \in SeqUpTo(Ops, MaxBatch) : Read(c, ops)
    \/ Enqueue \/ ExecutePlain \/ Multi \/ Refused \/ Discard
    \/ Exec \/ Overflow \/ ExecReturn
    \/ Respond
    \/ \E c \in Clients : Disconnect(c)
    \/ \E o \in Objs : PoolGC(o)

Spec == Init /\ [][Next]_vars
-----------------------------------------------------------------------------
TypeOK ==
    /\ cmd \in [Objs -> Cmds \cup {Blank}]
    /\ pool \in SUBSET Objs
    /\ enqueue \in [Clients -> SeqUpTo(Objs, MaxQueue)]
    /\ isTxn \in [Clients -> BOOLEAN]
    /\ who \in Clients \cup {Nobody}
    /\ Depth <= MaxDepth /\ stack \in Seq(Frames) /\ (Evaluating <=> stack # <<>>)
    /\ process \in {"up", "crashed"}
    /\ asked \in [Clients -> SeqUpTo(Cmds, MaxQueue)]
    /\ old \in 0..MaxQueue
    /\ ran \in Seq(Cmds)

(* Nobody else is given the commands of a batch while it is evaluated.     *)
BatchOwnsItsCommands ==
    Evaluating =>
        /\ Injective(stack[1].cmds)
        /\ Elems(stack[1].cmds) \cap pool = {}

(* What was queued from the batch being evaluated is, as long as the batch *)
(* is, what the client was told is queued: freeing waits for the batch,    *)
(* and no other batch is decoded meanwhile (resp.go:173-180,               *)
(* async_tcp.go:296-306).                                                  *)
BatchQueueIntact ==
    Evaluating => \A i \in (old + 1)..Len(enqueue[who]) :
                      cmd[enqueue[who][i]] = asked[who][i]

(* A transaction sent in one write, from MULTI to EXEC, executes every     *)
(* command it queued, once and in order, with its arguments, whatever      *)
(* earlier batches left in the pool and in other clients' queues           *)
(* (comm.go:140-166).                                                      *)
OneBatchTxnRunsAsQueued ==
    [][Depth = 2 /\ ExecReturn /\ old = 0 => ran = asked[who]]_vars

(* EXEC calls itself only for a transaction that spans batches.            *)
OneBatchTxnReturns == Depth > 2 \/ process = "crashed" => old > 0

(* Nobody keeps commands queued out of a transaction, where the next MULTI *)
(* would run them.                                                         *)
QueueOnlyInTxn == \A c \in Clients : ~isTxn[c] /\ ~(c = who /\ Depth > 1) => enqueue[c] = <<>>

(* EXEC "executes all queued commands in order" (Readme.md:696).           *)
TxnRunsAsQueued == [][Depth = 2 /\ ExecReturn => ran = asked[who]]_vars
=============================================================================
