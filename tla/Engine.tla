------------------------------- MODULE Engine -------------------------------
(***************************************************************************)
(* The two goroutines of the server (main.go) and how they share eStatus,  *)
(* the store and the AOF file: the event loop RunAsyncTCPServer and the    *)
(* signal handler WaitForSignal (server/async_tcp.go), each of which can   *)
(* run DumpAllAOF (core/aof.go), the loop for a client's BGREWRITEAOF and  *)
(* the handler on its way to os.Exit.                                      *)
(*                                                                         *)
(* A step is one atomic operation on shared state, so the load, the store  *)
(* and the compare-and-swap of eStatus interleave as they do in the code.  *)
(* The database is a version number per key; a client's command is either  *)
(* a Put, which takes storeMu, or an update of an object in place, which   *)
(* takes no lock; a deletion is a version like any other.  An update in    *)
(* place moves the entries of a slice or the nodes of a list one by one,   *)
(* so it has a beginning and an end, and a dump that copies the object in  *)
(* between may get a mixture of both versions.  What keys and values are,  *)
(* expiry and eviction included, is Keyspace's subject: here no key        *)
(* expires, so the loop's cron has nothing to delete.                      *)
(***************************************************************************)
EXTENDS Integers, FiniteSets

CONSTANTS
    Keys,
    MaxVersion,   \* bound on the writes to one key
    MaxEvents     \* bound on the commands and events of one EpollWait

ASSUME BoundAssumption == MaxVersion \in Nat \ {0} /\ MaxEvents \in Nat

VARIABLES
    eStatus,   \* the atomic engine status
    loop,      \* where the event loop is
    events,    \* commands and other events of the current round still to be handled
    handler,   \* where the signal handler is
    signalled, \* SIGTERM or SIGINT is in the channel, or was taken from it
    process,   \* "up", or how the process ended
    mem,       \* the store: key -> version, 0 if the key is absent
    updating,  \* the key whose object the loop is changing in place, if any
    acked,     \* the versions clients have been told of
    file,      \* config.AOFFile: the content, and whose bytes are in it
    todo, buf, \* per dumper: keys not yet visited, and what has been encoded
    spilled,   \* the dumpers that have moved past the start of the file
    cut,       \* those under which it was truncated then: their offset stays
    failed,    \* the dumpers whose last dump met an error of the file system
    settled,   \* history: acked when the handler set SHUTTING_DOWN
    clean,     \* history: the loop was not serving at that moment
    touched    \* history: the keys updated in place from then on

engine == <<eStatus, loop, events>>
data == <<mem, updating, acked>>
dump == <<file, todo, buf, spilled, cut, failed>>
history == <<settled, clean, touched>>
vars == <<engine, handler, signalled, process, data, dump, history>>

Dumpers == {"loop", "handler"}
Versions == [Keys -> 0..MaxVersion]
Nothing == [k \in Keys |-> 0]

(* A copy that straddles an update has entries of both versions, and may   *)
(* lack one that is in both: it stands for no version, and is below all.   *)
Mixed == -1
Copies == [Keys -> Mixed..MaxVersion]

(* "partial" is a prefix of one dump; "torn" is one dump written over      *)
(* another, through two descriptors with an offset each.                   *)
Kinds == {"empty", "partial", "torn", "full"}
Full(db, by) == [kind |-> "full", db |-> db, by |-> by]
Broken(kind, by) == [kind |-> kind, db |-> Nothing, by |-> by]

LoopPCs == {"setup", "check", "poll", "cas", "switch", "serve", "update", "reply", "open",
            "scan", "returned"}
HandlerPCs == {"wait", "spin", "store", "open", "scan", "exit"}

(* The loop is between its compare-and-swap and its store of WAITING.      *)
Serving == {"serve", "update", "reply", "open", "scan"}
Up == process = "up"

(* The handler has stored SHUTTING_DOWN.                                   *)
Stored == handler \in {"open", "scan", "exit"}

PC(p) == IF p = "loop" THEN loop ELSE handler
Dumping(p) == PC(p) = "scan"

Init ==
    /\ eStatus = "WAITING"
    /\ loop = "setup" /\ events = 0
    /\ handler = "wait" /\ signalled = FALSE
    /\ process = "up"
    /\ mem \in [Keys -> {0, 1}]       \* what InitStore replayed
    /\ updating = {}
    /\ acked = mem
    /\ file = Full(mem, {})
    /\ spilled = {} /\ cut = {} /\ failed = {}
    /\ todo = [p \in Dumpers |-> {}]
    /\ buf = [p \in Dumpers |-> Nothing]
    /\ settled = Nothing /\ clean = FALSE /\ touched = {}
-----------------------------------------------------------------------------
(* The event loop.                                                         *)

(* A deferred store announces the end of the loop, whatever ended it.      *)
Return == loop' = "returned" /\ eStatus' = "SHUTTING_DOWN"

(* socket, bind, listen, epoll: any of them may fail.                      *)
LoopSetup ==
    /\ Up /\ loop = "setup"
    /\ \/ loop' = "check" /\ UNCHANGED eStatus
       \/ Return
    /\ UNCHANGED <<events, handler, signalled, process, data, dump, history>>

LoopCheck ==
    /\ Up /\ loop = "check"
    /\ IF eStatus # "SHUTTING_DOWN" THEN loop' = "poll" /\ UNCHANGED eStatus
                                    ELSE Return
    /\ UNCHANGED <<events, handler, signalled, process, data, dump, history>>

(* Fault: the status is BUSY already while the loop polls for events.      *)
LoopPollBusy ==
    /\ Up /\ loop = "poll"
    /\ eStatus' = "BUSY"
    /\ \/ loop' = "cas" /\ events' \in 0..MaxEvents
       \/ loop' = "check" /\ UNCHANGED events
    /\ UNCHANGED <<handler, signalled, process, data, dump, history>>

(* EpollWait returns up to MaxEvents events, none after 100 ms, or an      *)
(* error.                                                                  *)
LoopPoll ==
    /\ Up /\ loop = "poll"
    /\ \/ loop' = "cas" /\ events' \in 0..MaxEvents
       \/ loop' = "check" /\ UNCHANGED events
    /\ UNCHANGED <<eStatus, handler, signalled, process, data, dump, history>>

(* Fault: a store in place of the compare-and-swap.                        *)
LoopStoreBusy ==
    /\ Up /\ loop = "cas"
    /\ loop' = "serve" /\ eStatus' = "BUSY"
    /\ UNCHANGED <<events, handler, signalled, process, data, dump, history>>

LoopCas ==
    /\ Up /\ loop = "cas"
    /\ IF eStatus = "WAITING" THEN loop' = "serve" /\ eStatus' = "BUSY"
                              ELSE loop' = "switch" /\ UNCHANGED eStatus
    /\ UNCHANGED <<events, handler, signalled, process, data, dump, history>>

(* The swap failed: the status is read again, and any value other than     *)
(* SHUTTING_DOWN falls through to the events.                              *)
LoopSwitch ==
    /\ Up /\ loop = "switch"
    /\ IF eStatus = "SHUTTING_DOWN" THEN Return
                                    ELSE loop' = "serve" /\ UNCHANGED eStatus
    /\ UNCHANGED <<events, handler, signalled, process, data, dump, history>>

(* The next command of a client's batch, or the next client's event.       *)
TakeEvent == Up /\ loop \in {"serve", "reply"} /\ events > 0 /\ events' = events - 1

(* A command that goes through Put, and so through storeMu.Lock.           *)
LoopPut(k) ==
    /\ TakeEvent
    /\ mem[k] < MaxVersion
    /\ ~Dumping("handler")
    /\ mem' = [mem EXCEPT ![k] = @ + 1]
    /\ loop' = "reply"
    /\ UNCHANGED <<eStatus, handler, signalled, process, updating, acked, dump, history>>

(* A command begins to change the object a key is bound to, without a      *)
(* lock: the entries behind a deleted one move up, those behind an         *)
(* inserted one move down, nodes are linked and unlinked.                  *)
LoopUpdate(k) ==
    /\ TakeEvent
    /\ mem[k] \in 1..(MaxVersion - 1)
    /\ updating' = {k}
    /\ touched' = IF Stored THEN touched \cup {k} ELSE touched
    /\ loop' = "update"
    /\ UNCHANGED <<eStatus, handler, signalled, process, mem, acked, dump, settled, clean>>

LoopUpdateEnd(k) ==
    /\ Up /\ loop = "update" /\ k \in updating
    /\ mem' = [mem EXCEPT ![k] = @ + 1]
    /\ updating' = {}
    /\ loop' = "reply"
    /\ UNCHANGED <<eStatus, events, handler, signalled, process, acked, dump, history>>

(* The reply buffer of the batch is written to the client's socket.        *)
LoopReply ==
    /\ Up /\ loop = "reply"
    /\ acked' = mem
    /\ loop' = "serve"
    /\ UNCHANGED <<eStatus, events, handler, signalled, process, mem, updating, dump, history>>

(* Fault: the events are walked to the end of the array, past the count.   *)
LoopOtherUnguarded ==
    /\ Up /\ loop = "serve" /\ events' = events - 1
    /\ UNCHANGED <<eStatus, loop, handler, signalled, process, data, dump, history>>

(* An accept, a disconnection, or a command that writes nothing.           *)
LoopOther ==
    /\ TakeEvent
    /\ UNCHANGED <<eStatus, loop, handler, signalled, process, data, dump, history>>

LoopRewrite ==
    /\ TakeEvent
    /\ loop' = "open"
    /\ UNCHANGED <<eStatus, handler, signalled, process, data, dump, history>>

(* Fault: the status is left as it was at the end of a batch.              *)
LoopKeepBusy ==
    /\ Up /\ loop = "serve" /\ events = 0
    /\ loop' = "check"
    /\ UNCHANGED <<engine, handler, signalled, process, data, dump, history>>

(* End of the batch: WAITING is stored over whatever the status is.        *)
LoopRelease ==
    /\ Up /\ loop = "serve" /\ events = 0
    /\ loop' = "check" /\ eStatus' = "WAITING"
    /\ UNCHANGED <<events, handler, signalled, process, data, dump, history>>
-----------------------------------------------------------------------------
(* DumpAllAOF, run by p; Then is where p goes afterwards.                  *)

Then(p) == IF p = "loop" THEN "reply" ELSE "exit"
Goto(p, pc) == IF p = "loop" THEN loop' = pc /\ UNCHANGED handler
                             ELSE handler' = pc /\ UNCHANGED loop

(* The file cannot be opened: the error is printed, and that is all.       *)
DumpRefused(p) ==
    /\ Up /\ PC(p) = "open"
    /\ failed' = failed \cup {p}
    /\ Goto(p, Then(p))
    /\ UNCHANGED <<eStatus, events, signalled, process, file, todo, buf, spilled, cut, data, history>>

(* O_TRUNC, which leaves the offset of another dumper's descriptor alone,  *)
(* then RLock.                                                             *)
DumpOpen(p) ==
    /\ Up /\ PC(p) = "open"
    /\ file' = Broken("empty", {})
    /\ cut' = cut \cup spilled
    /\ failed' = failed \ {p}
    /\ todo' = [todo EXCEPT ![p] = Keys]
    /\ Goto(p, "scan")
    /\ UNCHANGED <<eStatus, events, signalled, process, buf, spilled, data, history>>

(* What dumpKey copies of k, entry by entry.  A copy that overlaps updates *)
(* in place, as only the handler's can, is taken to be made in the midst   *)
(* of one of them; it has what was there before, what is there after, or   *)
(* entries of both.                                                        *)
Copied(k) == IF k \in updating THEN {mem[k], mem[k] + 1, Mixed} ELSE {mem[k]}

(* dumpKey; the buffered writer may spill what it holds into the file.     *)
DumpKey(p, k) ==
    /\ Up /\ Dumping(p)
    /\ k \in todo[p]
    /\ todo' = [todo EXCEPT ![p] = @ \ {k}]
    /\ \E v \in Copied(k) : buf' = [buf EXCEPT ![p][k] = v]
    /\ \/ UNCHANGED <<file, spilled>>
       \/ file' = Broken("partial", file.by \cup {p}) /\ spilled' = spilled \cup {p}
    /\ UNCHANGED <<engine, handler, signalled, process, cut, failed, data, history>>

(* What p's last write makes of the file.  Alone in it and at its offset,  *)
(* p completes its dump.  Otherwise the file has a hole, or bytes of       *)
(* another dump, which may outlast p's; and it stays as it is when p has   *)
(* nothing left to write.                                                  *)
Flushed(p) ==
    LET all == file.by \cup {p}
        Whole == Full(buf[p], all) IN
    CASE p \in cut -> {file, Broken("torn", all)}
      [] file.by \subseteq {p} /\ p \notin cut -> {Whole}
      [] OTHER -> {file, Broken("torn", all), Whole}

(* The call returns: its locals are gone.                                  *)
Close(p) ==
    /\ todo' = [todo EXCEPT ![p] = {}]
    /\ buf' = [buf EXCEPT ![p] = Nothing]
    /\ spilled' = spilled \ {p} /\ cut' = cut \ {p}
    /\ Goto(p, Then(p))
    /\ UNCHANGED <<eStatus, events, signalled, process, data, history>>

(* Fault: the file is closed before the walk is over.                      *)
DumpEndEarly(p) ==
    /\ Up /\ Dumping(p)
    /\ file' \in Flushed(p)
    /\ UNCHANGED failed
    /\ Close(p)

(* RUnlock, Flush, Close.                                                  *)
DumpEnd(p) ==
    /\ Up /\ Dumping(p) /\ todo[p] = {}
    /\ file' \in Flushed(p)
    /\ UNCHANGED failed
    /\ Close(p)

(* The same, with a write that failed: nobody looks at the writer's error. *)
DumpLost(p) ==
    /\ Up /\ Dumping(p) /\ todo[p] = {}
    /\ file' \in {file, Broken("partial", file.by \cup {p})}
    /\ failed' = failed \cup {p}
    /\ Close(p)
-----------------------------------------------------------------------------
(* The signal handler.                                                     *)

Signal ==
    /\ Up /\ ~signalled
    /\ signalled' = TRUE
    /\ UNCHANGED <<engine, handler, process, data, dump, history>>

HandlerTake ==
    /\ Up /\ handler = "wait" /\ signalled
    /\ handler' = "spin"
    /\ UNCHANGED <<engine, signalled, process, data, dump, history>>

(* The last round of the busy wait: a load that does not see BUSY.         *)
HandlerSpin ==
    /\ Up /\ handler = "spin" /\ eStatus # "BUSY"
    /\ handler' = "store"
    /\ UNCHANGED <<engine, signalled, process, data, dump, history>>

HandlerStore ==
    /\ Up /\ handler = "store"
    /\ eStatus' = "SHUTTING_DOWN"
    /\ handler' = "open"
    /\ settled' = acked /\ clean' = (loop \notin Serving) /\ touched' = updating
    /\ UNCHANGED <<loop, events, signalled, process, data, dump>>

HandlerExit ==
    /\ Up /\ handler = "exit"
    /\ process' = "exited"
    /\ UNCHANGED <<engine, handler, signalled, data, dump, history>>

(* SIGKILL, log.Fatal, a panic in the loop, or the runtime's fatal error   *)
(* for a map that is read and written at once.                             *)
Crash ==
    /\ Up
    /\ process' = "killed"
    /\ UNCHANGED <<engine, handler, signalled, data, dump, history>>
-----------------------------------------------------------------------------
LoopEvent ==
    \/ \E k \in Keys : LoopPut(k) \/ LoopUpdate(k) \/ LoopUpdateEnd(k)
    \/ LoopOther
    \/ LoopRewrite

Loop ==
    \/ LoopSetup \/ LoopCheck \/ LoopPoll \/ LoopCas \/ LoopSwitch
    \/ LoopEvent
    \/ LoopReply \/ LoopRelease

Dump(p) ==
    \/ DumpOpen(p) \/ DumpRefused(p)
    \/ \E k \in Keys : DumpKey(p, k)
    \/ DumpEnd(p) \/ DumpLost(p)

Handler == HandlerTake \/ HandlerSpin \/ HandlerStore \/ HandlerExit

Next ==
    \/ Loop
    \/ Dump("loop")
    \/ Dump("handler")
    \/ Handler
    \/ Signal
    \/ Crash

Spec == Init /\ [][Next]_vars

(* Both goroutines are scheduled.  The handler's wait polls the status     *)
(* without pause, and the loop is in a system call for every batch while   *)
(* it is WAITING, so the wait cannot miss that status for ever: that, and  *)
(* only that, is strong fairness.  Neither signals nor crashes are owed.   *)
Fairness ==
    /\ WF_vars(Loop \/ Dump("loop"))
    /\ WF_vars(HandlerTake \/ HandlerStore \/ HandlerExit \/ Dump("handler"))
    /\ SF_vars(HandlerSpin)

FairSpec == Spec /\ Fairness
-----------------------------------------------------------------------------
TypeOK ==
    /\ eStatus \in {"WAITING", "BUSY", "SHUTTING_DOWN"}
    /\ loop \in LoopPCs /\ handler \in HandlerPCs
    /\ events \in 0..MaxEvents
    /\ signalled \in BOOLEAN /\ clean \in BOOLEAN
    /\ process \in {"up", "exited", "killed"}
    /\ mem \in Versions /\ acked \in Versions /\ settled \in Versions
    /\ updating \in SUBSET Keys /\ touched \in SUBSET Keys
    /\ file \in [kind : Kinds, db : Copies, by : SUBSET Dumpers]
    /\ spilled \in SUBSET Dumpers /\ cut \in SUBSET Dumpers /\ failed \in SUBSET Dumpers
    /\ todo \in [Dumpers -> SUBSET Keys]
    /\ buf \in [Dumpers -> Copies]

(* BUSY is never left behind: the handler's busy wait (async_tcp.go:41) is *)
(* on a status that the loop is still going to change.                     *)
BusyOnlyWhileServing == eStatus = "BUSY" => loop \in Serving

(* If the loop was not serving when the handler stored SHUTTING_DOWN, and  *)
(* the file system obliged, then the process exits with a file that holds  *)
(* the whole store, every acknowledged write included                      *)
(* (async_tcp.go:35-55, aof.go:76-98).                                     *)
CleanShutdownIsLossless ==
    process = "exited" /\ clean /\ "handler" \notin failed
        => file.kind = "full" /\ file.db = mem /\ acked = mem

(* Whatever the loop does meanwhile, a file found complete at exit has     *)
(* every write that was acknowledged before SHUTTING_DOWN was stored, in   *)
(* that version or a later one, but for the keys whose object the loop     *)
(* has changed in place since: of such a key the file may have a mixture   *)
(* (async_tcp.go:50-54, aof.go:76-98).                                     *)
CompleteFileHasSettledWrites ==
    process = "exited" /\ file.kind = "full" /\ "handler" \notin failed
        => \A k \in Keys : \/ file.db[k] >= settled[k]
                           \/ file.db[k] = Mixed /\ k \in touched

(* The same of every key: "concurrency safety on the store comes from a    *)
(* sync.RWMutex" (Readme.md:88), which the dump holds while it iterates    *)
(* (aof.go:88).                                                            *)
CompleteFileHasAllSettledWrites ==
    process = "exited" /\ file.kind = "full" /\ "handler" \notin failed
        => \A k \in Keys : file.db[k] >= settled[k]

(* BGREWRITEAOF leaves the store as it is when the command ends in the     *)
(* file, provided that the file system obliged and that the handler has    *)
(* not begun its own dump (eval.go:442-445).                               *)
RewriteIsFaithful ==
    [][Dumping("loop") /\ loop' = "reply" /\ "loop" \notin failed'
           /\ handler \in {"wait", "spin", "store"}
       => file'.kind = "full" /\ file'.db = mem]_vars

(* A signal ends the process: the busy wait, the dump and os.Exit follow.  *)
SignalEndsProcess == signalled ~> ~Up

(* "We do not want server to ever go back to BUSY" once the handler has    *)
(* stored SHUTTING_DOWN (async_tcp.go:44-50; Readme.md:394).               *)
ShutdownIsFinal == [][eStatus = "SHUTTING_DOWN" => eStatus' = "SHUTTING_DOWN"]_vars
=============================================================================
