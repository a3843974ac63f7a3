---------------------------- MODULE EngineProofs ----------------------------
(***************************************************************************)
(* What Engine.tla checks on two keys, proved for any set of keys and any  *)
(* bounds: type correctness, that BUSY is never left behind, that a clean  *)
(* shutdown loses nothing, that a complete file has every settled write    *)
(* but for keys updated in place during the shutdown, and that             *)
(* BGREWRITEAOF is faithful.                                               *)
(***************************************************************************)
EXTENDS Engine, TLAPS

(* Clients know of every write, but for those of the batch in hand.        *)
RepliesCaughtUp ==
    /\ loop \notin Serving \ {"serve"} => acked = mem
    /\ \A k \in Keys : acked[k] <= mem[k]

(* An object is between two versions only inside of the command that is at *)
(* work on it, and the keys of such commands are on record.                *)
UpdatesInCommands ==
    /\ loop # "update" => updating = {}
    /\ \A k \in updating : mem[k] < MaxVersion
    /\ Stored => updating \subseteq touched

(* Only the handler ends the process in order, and only at its end.        *)
ExitIsLast == process = "exited" => handler = "exit"

(* After a clean store the loop never serves again, since the status stays *)
(* what the handler made it.                                               *)
LoopIsOut == Stored /\ clean => loop \notin Serving /\ eStatus = "SHUTTING_DOWN"

(* A dumper has its own bytes, and only those, at their places, between    *)
(* its truncation and the other's.                                         *)
Alone(p) == file.by \subseteq {p} /\ p \notin cut
DumpsAlone ==
    /\ loop = "scan" /\ ~Stored => Alone("loop")
    /\ handler = "scan" /\ clean => Alone("handler")
NotDumping ==
    /\ loop # "scan" => "loop" \notin spilled \cup cut
    /\ handler # "scan" => "handler" \notin spilled \cup cut

(* A copy of k has what was settled or what replaced it, or is a mixture   *)
(* that has its cause.                                                     *)
HasSettled(copy, k) == settled[k] <= copy[k] \/ (copy[k] = Mixed /\ k \in touched)

(* The loop cannot write while it dumps, and the handler dumps what was    *)
(* settled or what replaced it.                                            *)
BuffersCurrent ==
    /\ loop = "scan" => \A k \in Keys \ todo["loop"] : buf["loop"][k] = mem[k]
    /\ handler = "scan" /\ clean =>
           \A k \in Keys \ todo["handler"] : buf["handler"][k] = mem[k]
    /\ handler = "scan" =>
           \A k \in Keys \ todo["handler"] : HasSettled(buf["handler"], k)

SettledInStore == Stored => \A k \in Keys : settled[k] <= mem[k]

FileHasSettled ==
    handler \in {"scan", "exit"} /\ "handler" \notin failed /\ file.kind = "full"
        => \A k \in Keys : HasSettled(file.db, k)

FileIsStore ==
    handler = "exit" /\ clean /\ "handler" \notin failed => file.kind = "full" /\ file.db = mem

IInv ==
    /\ TypeOK
    /\ BusyOnlyWhileServing
    /\ RepliesCaughtUp
    /\ UpdatesInCommands
    /\ ExitIsLast
    /\ LoopIsOut
    /\ DumpsAlone
    /\ NotDumping
    /\ BuffersCurrent
    /\ SettledInStore
    /\ FileHasSettled
    /\ FileIsStore
-----------------------------------------------------------------------------
(* The stores of the model are built of versions.                          *)
LEMMA VersionsBuilt ==
    ASSUME NEW f \in Versions, NEW k \in Keys, NEW v \in 0..MaxVersion
    PROVE  [f EXCEPT ![k] = v] \in Versions
    BY DEF Versions

LEMMA VersionsAreCopies == Versions \subseteq Copies /\ Mixed \in Mixed..MaxVersion
    BY BoundAssumption DEF Versions, Copies, Mixed

(* The files of the model have the type of file.                           *)
LEMMA FilesBuilt ==
    ASSUME NEW db \in Copies, NEW by \in SUBSET Dumpers, NEW kind \in Kinds
    PROVE  /\ Full(db, by) \in [kind : Kinds, db : Copies, by : SUBSET Dumpers]
           /\ Broken(kind, by) \in [kind : Kinds, db : Copies, by : SUBSET Dumpers]
<1>1. Nothing \in Copies
    BY BoundAssumption, VersionsAreCopies DEF Nothing, Versions
<1> QED BY <1>1 DEF Full, Broken, Kinds

(* Every action keeps the types.                                           *)
LEMMA TypeStep == TypeOK /\ UpdatesInCommands /\ [Next]_vars => TypeOK'
<1> SUFFICES ASSUME TypeOK, UpdatesInCommands, [Next]_vars PROVE TypeOK'
    OBVIOUS
<1> USE BoundAssumption DEF TypeOK, engine, data, dump, history, LoopPCs, HandlerPCs, Up
<1>1. CASE LoopSetup
    BY <1>1 DEF LoopSetup, Return
<1>2. CASE LoopCheck
    BY <1>2 DEF LoopCheck, Return
<1>3. CASE LoopPoll
    BY <1>3 DEF LoopPoll
<1>4. CASE LoopCas
    BY <1>4 DEF LoopCas
<1>5. CASE LoopSwitch
    BY <1>5 DEF LoopSwitch, Return
<1>6. CASE LoopOther
    BY <1>6 DEF LoopOther, TakeEvent
<1>7. CASE LoopRewrite
    BY <1>7 DEF LoopRewrite, TakeEvent
<1>8. CASE LoopReply
    BY <1>8 DEF LoopReply
<1>9. CASE LoopRelease
    BY <1>9 DEF LoopRelease
<1>10. CASE HandlerTake
    BY <1>10 DEF HandlerTake
<1>11. CASE HandlerSpin
    BY <1>11 DEF HandlerSpin
<1>12. CASE HandlerStore
    BY <1>12 DEF HandlerStore
<1>13. CASE HandlerExit
    BY <1>13 DEF HandlerExit
<1>14. CASE Signal
    BY <1>14 DEF Signal
<1>15. CASE Crash
    BY <1>15 DEF Crash
<1>16. ASSUME NEW k \in Keys, LoopPut(k) PROVE TypeOK'
    BY <1>16, VersionsBuilt DEF LoopPut, TakeEvent, Versions
<1>17. ASSUME NEW k \in Keys, LoopUpdate(k) PROVE TypeOK'
    BY <1>17 DEF LoopUpdate, TakeEvent
<1>18. ASSUME NEW p \in Dumpers, DumpOpen(p) PROVE TypeOK'
    BY <1>18, FilesBuilt DEF DumpOpen, Goto, Then, Close, PC, Dumping, Dumpers, Flushed, Kinds, Nothing, Versions
<1>19. ASSUME NEW p \in Dumpers, DumpRefused(p) PROVE TypeOK'
    BY <1>19, FilesBuilt DEF DumpRefused, Goto, Then, Close, PC, Dumping, Dumpers, Flushed, Kinds, Nothing, Versions
<1>20. ASSUME NEW p \in Dumpers, DumpEnd(p) PROVE TypeOK'
    <2>1. file' \in [kind : Kinds, db : Copies, by : SUBSET Dumpers]
        <3>1. buf[p] \in Copies /\ file.by \cup {p} \in SUBSET Dumpers
            OBVIOUS
        <3> QED BY <1>20, <3>1, FilesBuilt DEF DumpEnd, Flushed, Kinds
    <2>2. Nothing \in Copies
        BY VersionsAreCopies DEF Nothing, Versions
    <2>3. buf' \in [Dumpers -> Copies] /\ todo' \in [Dumpers -> SUBSET Keys]
        BY <1>20, <2>2 DEF DumpEnd, Close
    <2> QED BY <1>20, <2>1, <2>3 DEF DumpEnd, Goto, Then, Close, Dumpers
<1>21. ASSUME NEW p \in Dumpers, DumpLost(p) PROVE TypeOK'
    <2>1. file' \in [kind : Kinds, db : Copies, by : SUBSET Dumpers]
        <3>1. buf[p] \in Copies /\ file.by \cup {p} \in SUBSET Dumpers
            OBVIOUS
        <3> QED BY <1>21, <3>1, FilesBuilt DEF DumpLost, Flushed, Kinds
    <2>2. Nothing \in Copies
        BY VersionsAreCopies DEF Nothing, Versions
    <2>3. buf' \in [Dumpers -> Copies] /\ todo' \in [Dumpers -> SUBSET Keys]
        BY <1>21, <2>2 DEF DumpLost, Close
    <2> QED BY <1>21, <2>1, <2>3 DEF DumpLost, Goto, Then, Close, Dumpers
<1>22. ASSUME NEW p \in Dumpers, NEW k \in Keys, DumpKey(p, k) PROVE TypeOK'
    <2>1. file' \in [kind : Kinds, db : Copies, by : SUBSET Dumpers] /\ spilled' \in SUBSET Dumpers
        BY <1>22, FilesBuilt DEF DumpKey, Kinds
    <2>2. PICK v \in Copied(k) : buf' = [buf EXCEPT ![p][k] = v]
        BY <1>22 DEF DumpKey
    <2>3. v \in Mixed..MaxVersion
        BY <2>2 DEF Copied, Versions, Mixed, UpdatesInCommands
    <2>4. [buf[p] EXCEPT ![k] = v] \in Copies
        BY <2>3 DEF Copies
    <2>5. buf' \in [Dumpers -> Copies] /\ todo' \in [Dumpers -> SUBSET Keys]
        BY <1>22, <2>2, <2>4 DEF DumpKey
    <2> QED BY <1>22, <2>1, <2>5 DEF DumpKey
<1>23. CASE UNCHANGED vars
    BY <1>23 DEF vars
<1>24. ASSUME NEW k \in Keys, LoopUpdateEnd(k) PROVE TypeOK'
    <2>1. mem[k] + 1 \in 0..MaxVersion
        BY <1>24 DEF LoopUpdateEnd, UpdatesInCommands, Versions
    <2> QED BY <1>24, <2>1, VersionsBuilt DEF LoopUpdateEnd
<1> QED
    BY <1>1, <1>2, <1>3, <1>4, <1>5, <1>6, <1>7, <1>8, <1>9, <1>10, <1>11, <1>12, <1>13, <1>14, <1>15, <1>16, <1>17, <1>18, <1>19, <1>20, <1>21, <1>22, <1>23, <1>24
    DEF Next, Loop, LoopEvent, Dump, Handler, Dumpers

(* Every action keeps the inductive invariant.                             *)
LEMMA IInvStep == IInv /\ [Next]_vars => IInv'
<1> SUFFICES ASSUME IInv, [Next]_vars PROVE IInv'
    OBVIOUS
<1>t. TypeOK /\ TypeOK'
    BY TypeStep DEF IInv
<1> USE <1>t, BoundAssumption DEF engine, data, dump, history, Up, Stored, Serving, Alone,
        BusyOnlyWhileServing, RepliesCaughtUp, UpdatesInCommands, ExitIsLast, LoopIsOut,
        DumpsAlone, NotDumping, HasSettled, BuffersCurrent, SettledInStore, FileHasSettled,
        FileIsStore
<1>1. CASE LoopSetup
    BY <1>1 DEF IInv, TypeOK, Versions, LoopSetup, Return
<1>2. CASE LoopCheck
    BY <1>2 DEF IInv, TypeOK, Versions, LoopCheck, Return
<1>3. CASE LoopPoll
    BY <1>3 DEF IInv, TypeOK, Versions, LoopPoll
<1>4. CASE LoopCas
    BY <1>4 DEF IInv, TypeOK, Versions, LoopCas
<1>5. CASE LoopSwitch
    BY <1>5 DEF IInv, TypeOK, Versions, LoopSwitch, Return
<1>6. CASE LoopOther
    BY <1>6 DEF IInv, TypeOK, Versions, LoopOther, TakeEvent
<1>7. CASE LoopRewrite
    BY <1>7 DEF IInv, TypeOK, Versions, LoopRewrite, TakeEvent
<1>8. CASE LoopReply
    BY <1>8 DEF IInv, TypeOK, Versions, LoopReply
<1>9. CASE LoopRelease
    BY <1>9 DEF IInv, TypeOK, Versions, LoopRelease
<1>10. CASE HandlerTake
    BY <1>10 DEF IInv, TypeOK, Versions, HandlerTake
<1>11. CASE HandlerSpin
    BY <1>11 DEF IInv, TypeOK, Versions, HandlerSpin
<1>12. CASE HandlerStore
    BY <1>12 DEF IInv, TypeOK, Versions, HandlerStore
<1>13. CASE HandlerExit
    BY <1>13 DEF IInv, TypeOK, Versions, HandlerExit
<1>14. CASE Signal
    BY <1>14 DEF IInv, TypeOK, Versions, Signal
<1>15. CASE Crash
    BY <1>15 DEF IInv, TypeOK, Versions, Crash
<1>16. ASSUME NEW k \in Keys, LoopPut(k) PROVE IInv'
    BY <1>16 DEF IInv, TypeOK, Versions, LoopPut, TakeEvent, Dumping, PC
<1>17. ASSUME NEW k \in Keys, LoopUpdate(k) PROVE IInv'
    BY <1>17 DEF IInv, TypeOK, Versions, LoopUpdate, TakeEvent, Dumping, PC
<1>18. ASSUME NEW p \in Dumpers, DumpOpen(p) PROVE IInv'
    <2>1. BusyOnlyWhileServing' /\ RepliesCaughtUp' /\ UpdatesInCommands' /\ ExitIsLast' /\ LoopIsOut' /\ SettledInStore'
        BY <1>18 DEF IInv, TypeOK, Versions, DumpOpen, Goto, Then, Close, PC, Dumping, Dumpers, Flushed, Full, Broken
    <2>2. DumpsAlone' /\ NotDumping'
        BY <1>18 DEF IInv, TypeOK, Versions, DumpOpen, Goto, Then, Close, PC, Dumping, Dumpers, Flushed, Full, Broken
    <2>3. BuffersCurrent'
        BY <1>18 DEF IInv, TypeOK, Versions, DumpOpen, Goto, Then, Close, PC, Dumping, Dumpers, Flushed, Full, Broken
    <2>4. FileHasSettled'
        BY <1>18 DEF IInv, TypeOK, Versions, DumpOpen, Goto, Then, Close, PC, Dumping, Dumpers, Flushed, Full, Broken
    <2>5. FileIsStore'
        BY <1>18 DEF IInv, TypeOK, Versions, DumpOpen, Goto, Then, Close, PC, Dumping, Dumpers, Flushed, Full, Broken
    <2> QED BY <2>1, <2>2, <2>3, <2>4, <2>5 DEF IInv
<1>19. ASSUME NEW p \in Dumpers, DumpRefused(p) PROVE IInv'
    <2>1. BusyOnlyWhileServing' /\ RepliesCaughtUp' /\ UpdatesInCommands' /\ ExitIsLast' /\ LoopIsOut' /\ SettledInStore'
        BY <1>19 DEF IInv, TypeOK, Versions, DumpRefused, Goto, Then, Close, PC, Dumping, Dumpers, Flushed, Full, Broken
    <2>2. DumpsAlone' /\ NotDumping'
        BY <1>19 DEF IInv, TypeOK, Versions, DumpRefused, Goto, Then, Close, PC, Dumping, Dumpers, Flushed, Full, Broken
    <2>3. BuffersCurrent'
        BY <1>19 DEF IInv, TypeOK, Versions, DumpRefused, Goto, Then, Close, PC, Dumping, Dumpers, Flushed, Full, Broken
    <2>4. FileHasSettled'
        BY <1>19 DEF IInv, TypeOK, Versions, DumpRefused, Goto, Then, Close, PC, Dumping, Dumpers, Flushed, Full, Broken
    <2>5. FileIsStore'
        BY <1>19 DEF IInv, TypeOK, Versions, DumpRefused, Goto, Then, Close, PC, Dumping, Dumpers, Flushed, Full, Broken
    <2> QED BY <2>1, <2>2, <2>3, <2>4, <2>5 DEF IInv
<1>20. ASSUME NEW p \in Dumpers, DumpEnd(p) PROVE IInv'
    <2>1. BusyOnlyWhileServing' /\ RepliesCaughtUp' /\ UpdatesInCommands' /\ ExitIsLast' /\ LoopIsOut' /\ SettledInStore'
        BY <1>20 DEF IInv, TypeOK, Versions, DumpEnd, Goto, Then, Close, PC, Dumping, Dumpers, Flushed, Full, Broken
    <2>2. DumpsAlone' /\ NotDumping'
        BY <1>20 DEF IInv, TypeOK, Versions, DumpEnd, Goto, Then, Close, PC, Dumping, Dumpers, Flushed, Full, Broken
    <2>3. BuffersCurrent'
        BY <1>20 DEF IInv, TypeOK, Versions, DumpEnd, Goto, Then, Close, PC, Dumping, Dumpers, Flushed, Full, Broken
    <2>4. FileHasSettled'
        <3>1. \/ file' = file
              \/ file'.kind = "torn"
              \/ file'.kind = "full" /\ file'.db = buf[p]
            BY <1>20 DEF DumpEnd, Flushed, Full, Broken
        <3>2. Dumping(p) /\ todo[p] = {} /\ UNCHANGED <<failed, mem, history>>
            BY <1>20 DEF DumpEnd, Close
        <3>3. /\ p = "loop" => loop = "scan" /\ handler' = handler
              /\ p = "handler" => handler = "scan"
            BY <1>20, <3>2 DEF DumpEnd, Close, Goto, Dumping, PC
        <3>4. Stored => \A k \in Keys : HasSettled(buf[p], k)
            BY <3>2, <3>3 DEF IInv, TypeOK, Versions, Dumpers
        <3> QED BY <3>1, <3>2, <3>3, <3>4 DEF IInv, Dumpers
    <2>5. FileIsStore'
        <3> SUFFICES ASSUME handler' = "exit", clean, "handler" \notin failed
                     PROVE  file'.kind = "full" /\ file'.db = mem
            BY <1>20 DEF DumpEnd, Close
        <3>1. p = "handler" /\ handler = "scan" /\ todo[p] = {}
            BY <1>20 DEF IInv, DumpEnd, Close, Goto, Then, Dumping, PC, Dumpers
        <3>2. file' = Full(buf[p], file.by \cup {p})
            BY <1>20, <3>1 DEF IInv, DumpEnd, Flushed
        <3>3. \A k \in Keys : buf[p][k] = mem[k]
            BY <3>1 DEF IInv
        <3>4. buf[p] = mem
            BY <3>3 DEF TypeOK, Versions, Copies
        <3> QED BY <3>2, <3>4 DEF Full
    <2> QED BY <2>1, <2>2, <2>3, <2>4, <2>5 DEF IInv
<1>21. ASSUME NEW p \in Dumpers, DumpLost(p) PROVE IInv'
    <2>1. BusyOnlyWhileServing' /\ RepliesCaughtUp' /\ UpdatesInCommands' /\ ExitIsLast' /\ LoopIsOut' /\ SettledInStore'
        BY <1>21 DEF IInv, TypeOK, Versions, DumpLost, Goto, Then, Close, PC, Dumping, Dumpers, Flushed, Full, Broken
    <2>2. DumpsAlone' /\ NotDumping'
        BY <1>21 DEF IInv, TypeOK, Versions, DumpLost, Goto, Then, Close, PC, Dumping, Dumpers, Flushed, Full, Broken
    <2>3. BuffersCurrent'
        BY <1>21 DEF IInv, TypeOK, Versions, DumpLost, Goto, Then, Close, PC, Dumping, Dumpers, Flushed, Full, Broken
    <2>4. FileHasSettled'
        BY <1>21 DEF IInv, TypeOK, Versions, DumpLost, Goto, Then, Close, PC, Dumping, Dumpers, Flushed, Full, Broken
    <2>5. FileIsStore'
        BY <1>21 DEF IInv, TypeOK, Versions, DumpLost, Goto, Then, Close, PC, Dumping, Dumpers, Flushed, Full, Broken
    <2> QED BY <2>1, <2>2, <2>3, <2>4, <2>5 DEF IInv
<1>22. ASSUME NEW p \in Dumpers, NEW k \in Keys, DumpKey(p, k) PROVE IInv'
    <2>1. BusyOnlyWhileServing' /\ RepliesCaughtUp' /\ UpdatesInCommands' /\ ExitIsLast' /\ LoopIsOut' /\ SettledInStore'
        BY <1>22 DEF IInv, TypeOK, Versions, DumpKey, PC, Dumping, Dumpers, Broken
    <2>2. DumpsAlone' /\ NotDumping'
        BY <1>22 DEF IInv, TypeOK, Versions, DumpKey, PC, Dumping, Dumpers, Broken
    <2>3. BuffersCurrent'
        <3>1. PICK v \in Copied(k) : buf' = [buf EXCEPT ![p][k] = v]
            BY <1>22 DEF DumpKey
        <3>2. \A q \in Dumpers, j \in Keys :
                  buf'[q][j] = IF q = p /\ j = k THEN v ELSE buf[q][j]
            BY <3>1 DEF TypeOK, Copies
        <3>3. k \notin updating => v = mem[k]
            BY <3>1 DEF Copied
        <3>4. k \in updating => v \in {mem[k], mem[k] + 1, Mixed}
            BY <3>1 DEF Copied
        <3>5. \A q \in Dumpers : todo'[q] = IF q = p THEN todo[p] \ {k} ELSE todo[q]
            BY <1>22 DEF DumpKey, TypeOK
        <3>6. UNCHANGED <<engine, handler, data, history>>
            BY <1>22 DEF DumpKey
        <3> QED BY <3>2, <3>3, <3>4, <3>5, <3>6 DEF IInv, TypeOK, Versions, Dumpers
    <2>4. FileHasSettled'
        BY <1>22 DEF IInv, TypeOK, Versions, DumpKey, PC, Dumping, Dumpers, Broken
    <2>5. FileIsStore'
        BY <1>22 DEF IInv, TypeOK, Versions, DumpKey, PC, Dumping, Dumpers, Broken
    <2> QED BY <2>1, <2>2, <2>3, <2>4, <2>5 DEF IInv
<1>23. CASE UNCHANGED vars
    BY <1>23 DEF IInv, TypeOK, vars
<1>24. ASSUME NEW k \in Keys, LoopUpdateEnd(k) PROVE IInv'
    BY <1>24 DEF IInv, TypeOK, Versions, LoopUpdateEnd, Dumping, PC
<1> QED
    BY <1>1, <1>2, <1>3, <1>4, <1>5, <1>6, <1>7, <1>8, <1>9, <1>10, <1>11, <1>12, <1>13, <1>14, <1>15, <1>16, <1>17, <1>18, <1>19, <1>20, <1>21, <1>22, <1>23, <1>24
    DEF Next, Loop, LoopEvent, Dump, Handler, Dumpers
-----------------------------------------------------------------------------
(* The process starts with a file it has replayed and nobody dumping.      *)
LEMMA Start == Init => IInv
<1> SUFFICES ASSUME Init PROVE IInv
    OBVIOUS
<1>1. {0, 1} \subseteq 0..MaxVersion /\ Nothing \in Versions /\ Versions \subseteq Copies
    BY BoundAssumption, VersionsAreCopies DEF Nothing, Versions
<1>2. mem \in Versions /\ acked \in Versions /\ settled \in Versions
    BY <1>1 DEF Init, Versions
<1>3. file \in [kind : Kinds, db : Copies, by : SUBSET Dumpers]
    BY <1>1, <1>2, FilesBuilt DEF Init, Kinds
<1>4. todo \in [Dumpers -> SUBSET Keys] /\ buf \in [Dumpers -> Copies]
    BY <1>1 DEF Init
<1>5. events \in 0..MaxEvents
    BY BoundAssumption DEF Init
<1>6. TypeOK
    BY <1>2, <1>3, <1>4, <1>5 DEF Init, TypeOK, LoopPCs, HandlerPCs
<1> QED
    BY <1>6 DEF Init, IInv, TypeOK, Versions, Stored, Serving, BusyOnlyWhileServing, RepliesCaughtUp,
        UpdatesInCommands, ExitIsLast, LoopIsOut, DumpsAlone, NotDumping, BuffersCurrent,
        SettledInStore, FileHasSettled, FileIsStore

(* The inductive invariant holds in every reachable state.                 *)
LEMMA Inductive == Spec => []IInv
    BY Start, IInvStep, PTL DEF Spec

(* Every variable keeps its type.                                          *)
THEOREM TypeCorrect == Spec => []TypeOK
<1>1. IInv => TypeOK
    BY DEF IInv
<1> QED BY Inductive, <1>1, PTL

(* The status is BUSY only while the loop is in a batch, so a signal never *)
(* waits for a loop that is no longer there.                               *)
THEOREM BusyAlwaysWhileServing == Spec => []BusyOnlyWhileServing
<1>1. IInv => BusyOnlyWhileServing
    BY DEF IInv
<1> QED BY Inductive, <1>1, PTL

(* A shutdown that finds the loop outside a batch loses no acknowledged    *)
(* write, whatever the loop and the disk buffers do meanwhile.             *)
THEOREM CleanShutdownAlwaysLossless == Spec => []CleanShutdownIsLossless
<1>1. IInv => CleanShutdownIsLossless
    <2> SUFFICES ASSUME IInv, process = "exited", clean, "handler" \notin failed
                 PROVE  file.kind = "full" /\ file.db = mem /\ acked = mem
        BY DEF CleanShutdownIsLossless
    <2>1. handler = "exit"
        BY DEF IInv, ExitIsLast
    <2>2. file.kind = "full" /\ file.db = mem
        BY <2>1 DEF IInv, FileIsStore
    <2>3. acked = mem
        BY <2>1 DEF IInv, LoopIsOut, Stored, Serving, RepliesCaughtUp
    <2> QED BY <2>2, <2>3
<1> QED BY Inductive, <1>1, PTL

(* Any complete file has what was acknowledged before the shutdown began,  *)
(* for every key but those that the loop changes in place meanwhile; these *)
(* have that, something later, or a mixture.                               *)
THEOREM CompleteFileAlwaysHasSettledWrites == Spec => []CompleteFileHasSettledWrites
<1>1. IInv => CompleteFileHasSettledWrites
    BY DEF IInv, TypeOK, Versions, Copies, ExitIsLast, FileHasSettled, HasSettled,
        CompleteFileHasSettledWrites
<1> QED BY Inductive, <1>1, PTL

(* A rewrite that the handler does not disturb leaves the store in the     *)
(* file.                                                                   *)
THEOREM RewriteAlwaysFaithful == Spec => RewriteIsFaithful
<1>1. ASSUME IInv, [Next]_vars, Dumping("loop"), loop' = "reply", "loop" \notin failed',
             handler \in {"wait", "spin", "store"}
      PROVE  file'.kind = "full" /\ file'.db = mem
    <2>1. loop = "scan"
        BY <1>1 DEF Dumping, PC
    <2>2. DumpEnd("loop")
        BY <1>1, <2>1 DEF Next, Loop, LoopEvent, Dump, Handler, vars, engine, data, dump, history,
            LoopSetup, LoopCheck, LoopPoll, LoopCas, LoopSwitch, LoopPut, LoopUpdate, LoopUpdateEnd,
            LoopOther, LoopRewrite, TakeEvent, Return, LoopReply, LoopRelease, HandlerTake, HandlerSpin,
            HandlerStore, HandlerExit, Signal, Crash, DumpOpen, DumpRefused, DumpKey, DumpEnd,
            DumpLost, Close, Goto, Then, PC, Dumping
    <2>3. Alone("loop")
        BY <1>1, <2>1 DEF IInv, DumpsAlone, Stored
    <2>4. file' = Full(buf["loop"], file.by \cup {"loop"})
        BY <2>2, <2>3 DEF DumpEnd, Flushed, Alone
    <2>5. todo["loop"] = {}
        BY <2>2 DEF DumpEnd
    <2>6. \A k \in Keys : buf["loop"][k] = mem[k]
        BY <1>1, <2>1, <2>5 DEF IInv, BuffersCurrent
    <2>7. buf["loop"] = mem
        BY <1>1, <2>6 DEF IInv, TypeOK, Versions, Copies, Dumpers
    <2> QED BY <2>4, <2>7 DEF Full
<1>2. IInv /\ [Next]_vars
          => [Dumping("loop") /\ loop' = "reply" /\ "loop" \notin failed'
                  /\ handler \in {"wait", "spin", "store"}
              => file'.kind = "full" /\ file'.db = mem]_vars
    BY <1>1
<1> QED BY Inductive, <1>2, PTL DEF Spec, RewriteIsFaithful
=============================================================================
