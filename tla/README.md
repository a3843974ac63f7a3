# Velox in TLA+

A verification development for Velox, an in-memory key-value server in Go that
speaks RESP: modules translated from the source, TLC runs on small instances,
and theorems that TLAPS checks for every instance. Paths and line numbers below
are those of the repository.

## 1. The system

| Component | Source | State | Operations | Talks to |
|---|---|---|---|---|
| Keyspace | `core/store.go`, `expire.go`, `stats.go`, `object.go` | `store` (key to object), `expires` (object *pointer* to deadline), `objPool`, `KeyspaceStat`, `GlobalCachedTime` | `Put`, `Get`, `Del`, `NewObj`, `expireSample`, `DeleteExpiredKey` | every command; `evict` |
| Eviction | `core/eviction.go`, `evictionpool.go` | the pool of candidates (a heap and a key set), the 20-bit clock | `evict`, `populateEvictionPool`, `PushItem`, `PopItem` | called by `Put` under `storeMu` |
| Commands | `core/eval*.go`, `typeencoding.go`, `type_string.go` | none of their own | one function per command, `assertType` before each | keyspace, data structures |
| Strings and counters | `core/eval.go` | a string and the tag of its encoding | `SET`, `GET`, `INCR`, `DECR`, `INCRBY`, `DECRBY` | keyspace |
| Hashes | `eval_hash.go`, `ziplist.go` | a ziplist, or a Go map | `HSET` to `HINCRBY`, `hashCheckPromote` | keyspace |
| Sets | `eval_set.go`, `intset.go` | an intset, or a Go map | `SADD` to `SUNION`, `setPromoteToHashtable` | keyspace |
| Sorted sets | `eval_zset.go`, `skiplist.go` | a skip list and a Go map beside it | `ZADD` to `ZRANGE` | keyspace |
| Lists | `eval_list.go`, `quicklist.go`, `ziplist.go` | a linked list of ziplists | `LPUSH` to `LRANGE` | keyspace |
| Batches and transactions | `core/resp.go`, `comm.go`, `eval.go:801-830` | `cmdPool`, per client `enqueue`, `isTxn` | `DecodeCommands`, `EvalAndRespond`, `TxnExec`, `FreeCmds` | event loop, commands |
| Connections, pub/sub | `core/pubsub.go`, `server/async_tcp.go:265-308` | `connectedClients`, `channels` | accept, disconnect, `SUBSCRIBE`, `UNSUBSCRIBE`, `PUBLISH` | sockets |
| Engine | `server/async_tcp.go`, `main.go`, `core/events.go` | `eStatus` | `RunAsyncTCPServer`, `WaitForSignal`, `Shutdown` | everything |
| AOF | `core/aof.go` | the file | `DumpAllAOF`, `ReplayAOF` | every type of value, `BGREWRITEAOF`, shutdown, startup |
| RESP | `core/resp.go` | none | decode, encode | sockets |
| Others | `server/sync_tcp.go`, `metrics.go`, `config/`, `velox-cli/`, `velox-benchmark/` | | not called, or only shown | |

Two goroutines share the state. The event loop does everything for the clients;
the signal handler waits for SIGTERM, spins on `eStatus`, dumps the store and
exits. `storeMu` orders the loop's `Put` and `Del` with the handler's dump, but
commands that update a value in place take no lock, and a dump may copy a value
that is half changed. Within the loop everything
is sequential, so the hard parts there are long sequences: objects and commands
are pooled and reused, pointers outlive what they pointed to, the kernel reuses
descriptors, and a value changes its encoding in the middle of a command.

What makes each part correct:

- *Keyspace*: pointers, pool and the two maps together are a map from keys to
  values with deadlines; the limit holds; the statistics cover the keys; the
  cron stops only when nothing expired is left.
- *Engine*: SIGTERM always ends the process; a shutdown saves what was
  acknowledged; the file is a complete dump or visibly not one.
- *Transactions*: EXEC runs what was queued, once, in order, and ends.
- *Pub/sub*: what is published is written to the subscribed connections and to no
  other; nothing of a closed connection stays. What is written should be the
  message, and is not (`pubsub_told`).
- *Eviction*: as many keys go as the strategy says and no more, the idlest of the
  candidates first; stale candidates delay that but do not stop it.
- *Lists*: a quicklist answers as a sequence does, from either end, and an empty
  one goes with its key.
- *Hashes, sets, sorted sets*: each encoding implements the mathematical value,
  a map, a set, a map in an order, through every promotion; the counts that are
  told are of what changed; between two commands nothing is empty or past its
  limit. The order of a sorted set ends with the first score that is no number
  (`MCCollections_nan.cfg`).
- *Strings*: the tag says whether the value is a number, so that no counter
  starts again at 0.
- *AOF*: a restart restores the keys of the dump, or is told by the file that it
  cannot; nothing that was never written comes back.

`PROJECT.json` lists the hazards, each at its line with the properties that
cover it.

## 2. The modules

| Module | What it is |
|---|---|
| `KeyspaceAbs` | the keyspace as a map from keys to entries |
| `Keyspace` | the keyspace as the code keeps it; `ImplementsMap` is the refinement |
| `Cron` | the expiry cron on that keyspace, one iteration at a time |
| `KeyspaceProofs` | the theorems of both |
| `Engine` | the two goroutines, `eStatus`, `DumpAllAOF` and the file |
| `EngineProofs` | its theorems |
| `Txn` | one batch at a time: the pool of commands, the queue, EXEC's frames |
| `TxnProofs` | its theorems |
| `PubSubAbs` | connections with sets of channels |
| `PubSub` | client pointers, descriptors, channels and sockets; `ImplementsConnections` is the refinement |
| `PubSubProofs` | its theorems |
| `EvictionAbs` | a Put into a full store, in one step |
| `LruEviction` | the pool of candidates and its heap, sampling, the clock; `ImplementsContract` is the refinement |
| `LruEvictionProofs` | its theorems |
| `Data` | strings, the numbers they spell, sums that wrap; what the modules below share |
| `Slices` | the part of a sequence between two indices, as documented for ranges |
| `Str` | a string and its tag; counters |
| `HashAbs` | the hash commands on a map |
| `Hash` | the hash commands on a ziplist or a Go map; `ImplementsHash` is the refinement |
| `SetAbs` | the set commands on a set |
| `IntSets` | the two encodings of a set, as operators |
| `Sets` | the set commands on them; `ImplementsSet` is the refinement |
| `ZSetAbs` | the sorted set commands on a map and its order |
| `ZSet` | the sorted set commands on a skip list and a map; `ImplementsZSet` is the refinement |
| `ListAbs` | the list commands on a sequence |
| `QuickList` | the list commands on a linked list of bounded nodes; `ImplementsList` is the refinement |
| `Collections` | one key under the commands of all these types |
| `DataProofs` | lemmas about sequences, places in an order, sets of strings and intsets, for the two modules of proofs below |
| `CollectionsProofs` | the theorems of `Hash`, `Sets`, `QuickList`, `ZSet`, `Str` and `Collections` |
| `Resp` | commands as the symbols of a file, and their decoding, cut files included |
| `Aof` | dumps, kills and restarts over values of every type |
| `AofProofs` | the theorems of `Resp` and `Aof` |
| `MC*` | small instances for TLC, with their `.cfg` files |

`Cron` EXTENDS `Keyspace`; `Collections` EXTENDS `Str`, `Hash`, `Sets`, `ZSet` and `QuickList`; `Aof` EXTENDS
`IntSets` and `Resp`. `Keyspace` uses the contract that `LruEviction` implements.

An operator introduced by "Fault:" is a mutation of the definition after it: the
system never uses it. It documents, for one property, a bug that the property
excludes.

### Keyspace

`store`, `expires`, `val` (the objects' `Value`), `objPool`, `keyStat` and `now`
are the code's variables. An action is a whole command, since no other goroutine
writes the store; `MSET` and the cron take several steps, one per `Put` and one
per `expireSample`, as `storeMu` is free in between. `Set`, `Write`
(any read-modify-write command), `Read` (any reader, with the lazy deletion in
`Get`), `Expire`, `Del` and `FlushDB` are the commands; `Tick` is the top of the
loop, where the cached clock is read, and may have gone back; `Sweep` is a round
of the cron; `PoolGC` is the collector, which may empty a `sync.Pool`.
`Victims` is the contract of `evict()`: how many keys go, whichever they are,
for each of the three strategies. `Allocatable` is what `objPool.Get` may
return: a pooled object, or an address that nothing refers to any more.
Overwritten and flushed objects are neither pooled nor unlinked from their
deadlines, as in the code, and stay allocated while `expires` has them.

The refinement reads each key through its pointer and gives `KeyspaceAbs` the
map. There, an entry changes only by a command on its key, a key is lost only if
it is deleted, expired or evicted from a full store, and a reader is told a live
entry or nothing.

### Cron

`Keyspace` takes a round of the cron for one step, since storeMu is held and the
cached clock stands still. `Cron` looks into the round: `LookAt` is one iteration
of `expireSample`, with `seen` the keys it has looked at and `deleted` its
`expiresCount`; `RoundEnd` is its return, and the decision of `DeleteExpiredKey` to
call it again. The limit is counted down by deletions only (expire.go:47-51),
so a round that ends below the limit has walked the whole store; that is why
stopping below a quarter of the limit leaves nothing behind, and it is not what
the comment in the loop says (`MCCron_sample.cfg`). A behaviour begins with a filled
store and any deadlines, as commands may have left them; commands themselves
come between two crons and are in `Keyspace`. PoolGC is left out, since the cron
does not read the pool.

### Engine

`loop` and `handler` are program counters; a step is one access to `eStatus`, to
the store or to the file, so load, store and compare-and-swap interleave as they
do in the code. The store is a version per key, `acked` what clients were told.
A command is a `Put`, which waits for a dump's read lock, or an update in place,
which does not and takes two steps, `LoopUpdate` and `LoopUpdateEnd`: between them
entries of a ziplist or an intset move, and nodes are linked or unlinked. A dump
that copies the value meanwhile has the value before, the value after, or one
that is neither (`Mixed`), which lacks an entry that both have, or has one twice.
A batch may hold several commands, whose replies go out together.
`touched` records the keys that were being updated at the handler's store, or
later. `DumpAllAOF` is parameterised by its caller, has its own buffer
and set of visited keys per call, and may spill its buffer, be refused by the
file system, or lose a write. The file records whose bytes it has: a file that
was truncated under a dumper, or that two dumpers write, is `torn` unless the
last writer covers it all; a dump whose own first bytes were cut off (`cut`) never
does. The process may be killed in any step.

### Txn

The RedisCmd objects are addresses in `Objs`; a command is its name and whether
it still has its arguments, which `FreeCmds` takes away. `stack` has a frame for
`EvalAndRespond` and one for every `TxnExec` above it, and each command is a
step. Batches are sequential, as in the loop. `asked` records what each client
was told is QUEUED, `old` how much of the queue is from earlier batches.

### PubSub

`connectedClients`, `channels` and `fdOf` (the `Fd` of a Client, which outlives
the connection) are the code's; `out` is what the kernel holds for each peer.
A socket with no room refuses a write, and one with little takes a part of it,
which leaves a `torn` item. Confirmations and messages are written at once,
other replies when the batch ends. What is written of them goes through `Encode`,
a switch over types: `List` is the `[]interface{}` that pub/sub puts the kind, the
channel and the rest into, of which `Encode` makes a nil, `$-1`. The refinement is
therefore about who is written to, and `PubSubAbs` has the same nil for it. A new connection gets any free descriptor and
any Client address that nothing refers to.

### LruEviction

`lastAccess` is the store with each object's `LastAccessedAt`; `pool` and
`keyset` are those of `ePool`, which outlives the eviction that filled it, the
keys in it and their access times. An eviction takes several steps, one per key
that `populateEvictionPool` visits (in any order, as the walk of a map) and one
per `PopItem`: not because anything else may touch the store meanwhile, since
`storeMu` is held, but because the clock that orders the heap goes on. `Touch` is a
Get, `Del` any deletion, which does not tell the pool; the Put's key is chosen
in `Insert`, as `evict()` does not look at it.

Instants are kept in full, and `Clock` cuts them down to the clock's bits where
the code computes with them. That container/heap leaves a heap of the same items
if it was given one, and some arrangement of them if not, is its contract and is
not modelled further (`Arrangements`). `outlived` records that a candidate was
ever a cycle of the clock old: then its idle time starts again from zero and the
order means nothing, which is why the two properties about the order exclude it.
`EvictionAbs` has the same number of victims as `Victims` of `Keyspace` has for
this strategy.

### Data and Str

A string is a model value, `Parse` what `strconv.ParseInt` makes of it, `Decimal`
what `FormatInt` makes of a number: a number may have several spellings, of which
one is its decimal. `Wrap` is the overflow of an int64, of any width. `Shift` is
INCR and its kin: they look at the tag, and take the value for 0 where ParseInt
would fail, as the code ignores that error. What the code does when a counter's
tag lies is thus in the model; `TagTold` says that it never does.

### Hash

`hash` is the encoding and the ziplist, kept as the sequence of its pairs and
searched from the front, or the map. HSET and HDEL loop over their arguments
(`HSet`, `HDel` are one round, `HSetEnd`, `HDelEnd` what comes behind the loop),
since the encoding, the promotion and the counter are what is easy to get wrong
between the rounds. The ziplist is promoted where the code does it: behind
HSET's loop, and at the end of HSETNX and HINCRBY. A field's
length is measured like a value's (eval_hash.go:57-64). `before` is history: with
it the abstract map knows what a count should be.

An answer, here and in the other types, holds the question too, so that a
refinement cannot take the right answer to another question for the right one.

### IntSets and Sets

`Search` is `sort.Search`, defined by what it promises for a sorted array; that
the array is sorted is the invariant `IntSetSorted`. `SetAdd` reads the encoding
again for every member, and promotes in the middle of SADD, when a member is no
integer or there are too many. Readme.md:905 says that the limit on the size is
"not yet wired"; eval_set.go:72-76 promotes, and so does the model. A member that
spells an integer is kept as its decimal by an intset and as it is by a map, so
`SetAbs` allows either (`Spellings`), and nothing else. SINTER and SUNION take
one other key, of any set with up to two members, or none.

### ZSet

`zset` has the fields of the skip list by node (`member`, `score`, `backward`,
`forward`, `span`), its `tail`, `length` and `level`, and `dict`, the map beside it.
`Descent` is the search from the top level, which goes on along a level while the
next point is one of a set: those that come before a score and a member, or those
up to a rank. `Lower` and `Same` are Go's comparisons of scores, in which NaN is
less than nothing and equal to nothing; ParseFloat takes "nan" for a score without
an error (eval_zset.go:66). `real` records that every score was a number. From
the first NaN on the list has no order: a search stops anywhere, `Delete` does not
find a node again, and ZADD of the same member inserts it again, without end.
`MaxNodes` bounds the list then. `ZSetAbs` keeps what is true even so: the map,
the scores, and the counts of ZADD, ZREM and ZCARD; ranks and ranges it knows as
long as `ordered`. `Before` is the code's `update` and `rank`. `Insert` and `Delete`
update links (`LinksWith`, `LinksWithout`) and spans (`SpansWith`, `SpansWithout`)
on every level they crossed; `randomLevel` may give any level. ZADD deletes
and inserts a member whose score changes. A ZADD that meets a bad score stops in
the middle of its loop, keeps what it has done and leaves a new sorted set
behind even if it is empty (eval_zset.go:64-69); `ZSetAbs` says so too. All ranges
that ZRANGE can be asked for are asked for in one step.

### QuickList

`ql` is the `QuickList` with its `head`, `tail`, `count` and `len`, and its nodes
by address: `zl` the entries of a node's ZipList, `prev` and `next` its pointers,
0 for nil, and `bound`, whether the key is in the store. A node that `removeNode`
unlinks is garbage and leaves the maps. LPUSH and RPUSH push one argument in a
step, as the loops above do. `LRANGE` and `LINDEX` change nothing: they are the
operators `RangeOf` and `Index`, and `RangesAgree` compares them with `ListAbs` in
every state and for every pair of positions. The entries' bytes are left out.

### Collections

One key and the commands of all types. `Allows` is `assertType`; `NoneOf` says
that the other types have no value then, with the same operators that say what
DEL or expiry does to a value, so every step of this module is one of each
type's own module. SET asks for no type and overwrites. What `Collections` adds is
that commands of different types follow each other: a hash begins on what was a
set, and nothing of the set is left.

### Resp and Aof

A file is a sequence of symbols: an asterisk with its number, a dollar sign with
its length, a string, a CRLF. `Decode` is `DecodeCommands`: it indexes past the
end of a file that is cut inside a command, which is a panic, does not look at
the last CRLF, and refuses what does not begin with an asterisk. `Lines` is
`dumpKey`: a Go map is written in any order, and a string by way of the text of
its command, which is split at the spaces again. A string here is the sequence
of its words for that reason. `Replay` evaluates the commands of a file as
`evalSET`, `evalHSET`, `evalRPUSH` and `evalSADD` do. `Kill` may come at any moment
of a dump and leaves any part of what it had to write; a panic at startup ends
the process (nothing recovers), and the next start reads the same file.
Deadlines are not written, and sorted sets neither; Readme.md:654 says the former.
Which of the two goroutines dumps, and when, is the matter of `Engine`, and so is a
dump that runs beside commands: in `Aof` none is executed during a dump, which is
so for BGREWRITEAOF, and for a shutdown that finds the loop outside a batch.

## 3. What TLC checks

| Run | Shows | Bounds |
|---|---|---|
| `keyspace` | type, `NoAliasing`, `SizeWithinLimit`, `StatCoversKeys`, `ImplementsMap` | 3 keys, 4 objects, 2 values, limit 2, 2 instants, 1 duration, MSET of 2, sample limit 1, statistics up to 3 |
| `cron` | `SweepLeavesNoneExpired`, `CronStops` | a full store of 6 keys, sample limit 5, 2 instants, a deadline at either or none |
| `engine` | type, `CleanShutdownIsLossless`, `CompleteFileHasSettledWrites`, `RewriteIsFaithful`, `SignalEndsProcess` | 2 keys, 2 versions each, 2 events per poll |
| `txn` | type, `BatchOwnsItsCommands`, `OneBatchTxnRunsAsQueued`, `OneBatchTxnReturns`, `QueueOnlyInTxn` | 2 clients, 3 command objects, batches of 3, queues of 2, 3 frames |
| `pubsub` | type, `SubscriptionsSound`, `ImplementsConnections` | 3 Clients, 2 descriptors, 2 channels, sockets of 2 items, 1 buffered reply |
| `lru` | type, `PoolConsistent`, `PopsTheIdlest`, `PoolKeepsTheIdlest`, `ImplementsContract`, `EvictionEnds` | 4 keys, limit 3, 2 evicted at a time, samples and pool of 3, a clock of 3 instants, 5 instants of time |
| `collections` | type, `ValuesSettled`, `SkipListSound`, `WellLinked`, `CountsAgree`, `RangesAgree`, `ImplementsHash`, `ImplementsSet`, `ImplementsZSet`, `ImplementsList` | 6 strings, numbers -2..1, 3 fields, ziplists of 2 pairs, intsets of 2, 3 members by 2 scores and NaN on 2 levels, 2 nodes once a score was NaN, nodes of 2, lists of up to 5, commands of 2 arguments |
| `aof` | type, `TornFileIsRefused`, `RestartRestores`, `RestartSettles` | 2 keys, one of two words; 9 values; 3 writes |
| `engine_final` | `ShutdownIsFinal` (async_tcp.go:44-50) is violated | as `engine` |
| `txn_spanning` | `TxnRunsAsQueued` (Readme.md:696) is violated | as `txn` |
| `pubsub_told` | `SubscribersAreTold` (Readme.md:669, pubsub.go:110-111) is violated | as `pubsub` |
| `aof_strings` | `RestoresStrings` (Readme.md:641) is violated | as `aof` |

Five more configurations refute what the repository says of itself. They are not
among the runs of `PROJECT.json`; each is checked by hand, with
`tlc -config <configuration> <module>`, and ends in a counterexample.

| Configuration | Refutes | Bounds |
|---|---|---|
| `MCKeyspace_mset.cfg` | `MSetIsAtomic` (eval.go:160) | as `keyspace` |
| `MCEngine_inplace.cfg` | `CompleteFileHasAllSettledWrites` (Readme.md:88, aof.go:88) | as `engine` |
| `MCCollections_nan.cfg` | `EachMemberOnce` (eval_zset.go:15, skiplist.go:105-106) | as `collections` |
| `MCCron_sample.cfg` | `RoundIsASample` (expire.go:53-54, Readme.md:582) | as `cron` |
| `MCLruEviction_wrap.cfg` | `IdleTimeIsElapsed` (Readme.md:525) | as `lru` |

Why the bounds are enough. *keyspace*: with 3 keys and a limit of 2, a Put finds
the store below the limit, at it with its own key in it, and at it without; 4
objects allow two live ones, a pooled one and a leaked one with a deadline at
once; two instants let a deadline pass and the clock go back. A sample limit of
1 with up to two expired keys makes the cron go round more than once. *cron*: a
limit of 5 has a quarter between one and two deletions, so a round of one
deletion is the last though there was something to delete, and one of two is
not; with six keys a round may end at its limit, with one key left to look at,
or at the end of the store. *engine*:
two keys let a dump be half done, two versions let a key change between a dump's
visit and its end, and two events let a batch write twice, of which the second
write may be half done when the first is not yet acknowledged. *txn*: three objects
are fewer than a batch and two queues refer to, so every aliasing between a
queue and a later batch occurs; a batch of three holds a whole transaction. A
recursion of EXEC that enters a non-empty queue twice does so for ever, which is
why a third frame of a queue stands for the overflow of the stack. *pubsub*:
three Clients over two descriptors let a descriptor be reused while the old
Client and a third party exist. *lru*: evictions of two from a store of three
leave a candidate behind each time, so that deleted keys and old access times
pile up to a full pool, and replacing occurs; five instants under a clock of
three go past a wrap from any starting point. *collections*: among the six
strings, one is no number, one is a second spelling of 1, and one is too long
for a ziplist, which is also the decimal that sums wrap to, so that HINCRBY
alone can promote. Limits of two under commands of two arguments put the
promotion into the first round of SADD, into the second, and behind HSET's loop,
with three fields or members to be lost. Three members by two scores on two
levels give every skip list in which a member moves past another and spans cross
it; two nodes are enough for a member to be in the list twice and for the map
to go on beside it; nodes of two and five values make three nodes and more, with full, half full
and inner ones, and every pop that empties a node at either end. *aof*: of the
nine values, four are strings (plain, empty, of two and of three words) and the
others have every type and encoding, entries of two words and empty ones
included; three writes make dumps of two keys, changed keys, and keys that come
from the cut strings of others. Every cut of every file occurs. The counters
that would grow for ever (statistics, versions, queue, buffer) are bounded by
guards named after the constant: `Room`, `MaxVersion`, `Fits`, `MaxBatch`,
`MaxTime`, `MaxLen`, `MaxNodes`, `MaxArgs`, `MaxWrites`.

Symmetry is used in `keyspace`, `txn` and `pubsub`, which check no liveness:
their constants are interchangeable model values. `engine`, `cron` and `lru` check
liveness and use none; in `collections` and `aof` the strings differ in what
they spell. Deadlock is checked in `keyspace`, `cron`, `pubsub`, `lru`, `collections` and
`aof`; in `engine` the process ends, by `os.Exit` or a crash, and in `txn` by a
stack overflow, so there it is not.

*Fairness* is assumed in `lru`, `cron` and `engine`. In `cron`, the loop goes on
(weak fairness of its iterations): it waits for storeMu only, which the handler's
dump holds for as long as one walk takes. In `lru`, an eviction goes on (weak
fairness of `Evict`): it runs inside of Put, and nothing in it waits; time and
clients owe nothing. In `engine`, the two goroutines are scheduled (weak
fairness of the loop and of the handler), and the handler's wait, which loads
the status without pause, does not miss for ever a status that recurs (strong
fairness of `HandlerSpin`): the loop is in `EpollWait`, a system call, between
any two batches, with the status at WAITING. Signals and crashes are never owed.

### What the violations show

Those of the runs, and of the five configurations beside them:

- `engine_final`: the loop's compare-and-swap comes between the handler's last
  load and its store, and the loop's store of WAITING at the end of the batch
  (async_tcp.go:313) overwrites SHUTTING_DOWN. The loop goes on serving while the
  handler dumps; what is acknowledged then may not be in the file. This is why
  `CleanShutdownIsLossless` has the condition that the loop was not serving
  at the store, and why what holds without it is `CompleteFileHasSettledWrites`.
- `MCEngine_inplace.cfg`: HDEL, SREM and SADD move entries within the slice that the
  handler's dump copies (ziplist.go:77, intset.go:57-70), without a lock. A copy
  that straddles the move lacks a field or a member that was acknowledged long
  before the shutdown, in a file that is complete otherwise. This is why
  `CompleteFileHasSettledWrites` excepts the keys that were being changed in place
  at the handler's store or after it, and only those: a key that is merely
  written by way of Put, or changed before, is whole.
- `pubsub_told`: `Encode` has no case for `[]interface{}`, so that SUBSCRIBE,
  UNSUBSCRIBE and PUBLISH write `$-1` and nothing else (resp.go:425-426).
  Subscribers are written to, each one and no other, and learn nothing.
- `MCCollections_nan.cfg`: a member that is given NaN twice is inserted twice, since NaN differs
  from NaN and Delete looks for an equal score. ZRANGE then shows it twice where
  ZCARD counts it once. This is why `SkipListSound` and the order in `ZSetAbs` are
  claimed of the sets that have had numbers only.
- `MCCron_sample.cfg`: the limit is counted down by deletions, so a round looks at every
  key of a store in which few have expired, with storeMu held, once in a second.
  A sample, as in the comment and in Redis, would look at 20 with a deadline.
- `MCKeyspace_mset.cfg`: each Put of MSET may evict, its own keys included.
- `txn_spanning`: the commands of a transaction are returned to the pool at the
  end of the batch that queued them. Sent in several writes, as an interactive
  client does, the transaction runs without arguments, runs other commands, or,
  when the object that EXEC is decoded into is in the queue, calls itself until
  the stack overflows.
- `aof_strings`: a string with a space in its key or its value is split when it
  is written (aof.go:20). What comes back is a shorter value, the value of
  another key, a key with a deadline it never had, or nothing, when the words
  behind the second one are no options of SET. This is why `RestartRestores`
  speaks of the keys that can be kept (`Keeps`), and bounds what may become of
  the others.
- `MCLruEviction_wrap.cfg`: the step from the last instant of the clock to 0 is not counted, so
  that a key last used before the wrap looks a second younger than it is
  (eviction.go:65). This is why the order of eviction holds to a second only.

## 4. What is proved

TLAPS proves, for any values of the constants that satisfy the assumptions of
the modules:

- `KeyspaceProofs`: `TypeCorrect`, `NoAliasingAlways`, `SizeAlwaysWithinLimit`,
  `StatAlwaysCoversKeys`, `SweepAlwaysLeavesNoneExpired`,
  `CronAlwaysLeavesNoneExpired`, and `Implementation`, the refinement of
  `KeyspaceAbs`. `TypeOK /\ NoAliasing` is inductive by itself:
  that pooled objects carry nothing is what a `Put` needs to keep deadlines
  apart, and that no two keys share an object is what an update or a deletion
  needs. The size and the statistics are cardinalities, and rest on lemmas about
  how each command changes the set of present keys. The refinement is one lemma
  per action. Half-way through a round of the cron, `CronIInv` says that nothing it
  has looked at is still there and expired, so that a round which is not stopped
  by its limit leaves nothing.
- `EngineProofs`: `TypeCorrect`, `BusyAlwaysWhileServing`,
  `CleanShutdownAlwaysLossless`, `CompleteFileAlwaysHasSettledWrites`,
  `RewriteAlwaysFaithful`. The properties speak of the end of the process, so
  `IInv` says what leads there: after a clean store the loop is out and the
  status stays (`LoopIsOut`), what a dumper has buffered is what the store has
  or had when it was settled, or a mixture for a key that is being updated
  (`BuffersCurrent`), and a dumper has the file to
  itself until the other one truncates it (`DumpsAlone`).
- `LruEvictionProofs`: `TypeCorrect`, `PoolAlwaysConsistent`, `Implementation`,
  `AlwaysPopsTheIdlest` and `PoolAlwaysKeepsTheIdlest`. The contract rests on
  `OnTrack`: what is gone from the store is what `evicted` counts, and a round
  never comes to pop an empty pool while there are keys. The order rests on
  `HeapInOrder`, that the pool stays a heap while the clock goes on: a second adds
  one to the idle time of every candidate younger than a cycle, or nothing to any
  of them when the clock wraps (`IdleAdvances`), so that nothing trades places.
  That the head of a heap is its maximum and that its minimum is among the
  leaves is proved by least counterexample.
- `PubSubProofs`: `TypeCorrect`, `SubscriptionsAlwaysSound` and
  `Implementation`. A connection's Client has its descriptor
  (`ClientsOwnDescriptors`), which no two Clients of connections can share; with
  that, a write through a subscriber's `Fd` is a write to the connection that
  subscribed. What is written is the nil that `Encode` makes of any list.
- `TxnProofs`: `TypeCorrect`, `BatchAlwaysOwnsItsCommands`,
  `BatchQueueAlwaysIntact`, `QueueOnlyEverInTxn`, `OneBatchTxnAlwaysReturns` and
  `OneBatchTxnAlwaysRunsAsQueued`. What a queue says depends on objects that the
  pool may hand out again, so `IInv` says of the batch at work that its objects are
  its own, that what was asked of it is in the queue (`AskedIsQueued`), and that a
  transaction begun in it runs in the second frame, at the place where its log
  ends (`RunningAsAsked`). That its queue names neither EXEC nor DISCARD is why it
  cannot call itself or drop what it is walking.
- `CollectionsProofs`, hashes: `HashTypeCorrect`, `HashAlwaysSettled`,
  `NoHashEverEmpty` and `HashImplementation`. A ziplist is a map as long as no
  field is in it twice (`Distinct`), which `HashSet` keeps because it looks before
  it appends; then the first pair of a field is the last, and reading from the
  front, deleting from the front and promoting with the last pair winning agree.
  `HashCounted` says what a counter has counted in the middle of a loop.
- Sets: `SetTypeCorrect`, `IntSetAlwaysSorted`, `NoSetEverEmpty` and
  `SetImplementation`. `SearchIs` proves, from the order of the array alone, that
  the binary search finds what is there, by least counterexample; `AddIs` and
  `RemovedIs` that insertion and removal keep the order. The rest is one lemma per
  command, on the abstract set: `Spelled` is the string that an encoding looks for.
- Lists: `ListTypeCorrect`, `ListAlwaysWellLinked`, `ListAlwaysCounted`,
  `ListRangesAgree` and `ListImplementation`. None of what the runs check is
  inductive: that a walk along `next` and one along `prev` agree says nothing of
  what removing a node leaves. The invariant `ListIInv` is that the memory holds
  some sequence l (`Holds`): there is an order s of all the nodes, with n of them,
  such that each node's `next` and `prev` are its neighbours in s, `head` and
  `tail` its ends (`Strung`), no ziplist is empty or too long, l is the ziplists
  one after the other (`All`) and `count` its length. Each operation is shown to
  turn a memory that holds l into one that holds what the operation makes of l,
  with an order that is longer or shorter by one node at one end. `AllElements`,
  `RangeOf` and `Index` walk along `next`, so they visit s from 1 to n, and what
  they collect is by induction the part of l that `Slices` names.
- Sorted sets: `ZSetTypeCorrect`, `SkipListAlwaysSound` and
  `ZSetImplementation`. `ZSetIInv` says what is true whatever the scores, of the
  map and of the running command (`ZLooping`, `ZCounted`), and, by `ZStored`, what is
  true of the list as long as all of them were numbers. What `SkipListSound` says of each link by looking for the
  nearest node that is high enough, the invariant says by an order s of
  the header and the n nodes, and their heights h (`Listed`): on each level, a
  node leads to the next place of s that is high enough, and its span is how far
  that is (`Linked`); s goes by score and member (`Ordered`); the backward links
  and the tail go the other way (`Backed`); the list is as high as its highest
  node (`Tall`); and the map has what the list has (`Kept`). `AlongIs`, by
  induction along a level, and `DescentIs`, by induction down the levels, prove
  that a search leaves each level at the last place that is before what it looks
  for and high enough, having added up spans to that very place: so the code's
  `rank` is right where `update` is (`BeforeIs`), and `GetRank` and
  `GetNodeByRank` are (`GetRankIs`, `GetNodeByRankIs`). `InsertIs` puts a node in
  s and h behind the places before it (`Put`), `DeleteIs` takes one out (`Take`);
  `NextPut` and `NextTake` say what that does to who is next on a level, for the
  levels that reach the node, those that cross it and those that are new. The
  abstract map counts and orders by score alone; `CountedIs` and `InOrderIs` say
  that places in s are the ranks, and `ZRangeIs` that a range is a part of s.
- The composition: `HashWithin`, `SetWithin`, `ZSetWithin` and `ListWithin` reduce
  a key under commands of all types to the modules above, as every other command
  is `HashDropped`, `SetDropped`, `ZSetDropped` and `ListDropped` to them; so
  `HashImplementationWithin`, `SetImplementationWithin`,
  `ZSetImplementationWithin`, `ListImplementationWithin`, `SkipListSoundWithin`,
  `ListSoundWithin` and `ValuesAlwaysSettled` hold of it. `StringAlwaysTagged` is
  the part about strings, whose sums wrap (`WrapIs`). `OneValueAlways` says that a
  key never has values of two types, and `TypeAlwaysCorrect` is the type
  invariant of all of them.
- `AofProofs`: `AofTypeCorrect`, `AofTornFileIsRefused`, `AofRestartRestores` and
  `AofRestartSettles`. The argument has three parts. *The file*: `EncodeIs` and
  `EndsAre` say which symbol of the file is which of which command, `End` being
  where a command ends; with that `CommandIs` says what `Decode` makes of a place
  where a command begins in a file cut at n, and `CutFileIs`, by induction from
  the end of the file, what it makes of the whole. *The replay*: `LineRestores`
  says for each type that the line of a key brings it back where it was absent,
  and `ReplayIs` that any line touches one key only; `LinesRestore` puts them
  together by induction over the lines, of any beginning of a dump: `Restores`
  says which keys are there and which of them are as they were. *The system*: a
  file and the lines say nothing of each other or of the store by their types.
  So `AofIInv` says that the lines are of different keys that the dump has come
  to, that each such key has its line unless it is a sorted set (`Dumped`), and
  that the file, whenever no dump is under way, is the beginning of what the lines
  are encoded to (`Cut`).

`LimitAssumption` (at least one key, an eviction count between none and the
limit), `NilAssumption` and its like (nil is no object), and `TimeAssumption`
(no duration leads to an instant before the epoch, so the unsigned sum of
`setExpiry` does not wrap) are assumed; the code does not check the last one.
`LruEviction` assumes in addition that the store's keys are finitely many and
that time goes forward, as its `Tick` does. `Data` assumes of strings and numbers
what `ParseInt` and `FormatInt` do: a decimal is parsed to its number. `Hash` and
`Sets` assume finitely many fields and strings, so that they can be counted.
`ZSetAssumption` says that scores other than NaN are in an order (they are integers
here, as any finite set of numbers could be) and that members are numbered in theirs.
`AofAssumption` says that a string is a sequence of words, at least one, which is
what `strings.Split` returns, that each word is a string by itself, and that
commands leave nothing empty in a key, which `NoHashEverEmpty`, `NoSetEverEmpty`
and `ListAlwaysCounted` prove of the commands.

The library's induction theorems cannot be used here, as they take an operator.
Where an argument is by induction, over the nodes of a list, the levels of a skip
list, the symbols of a file or the lines of a dump, it is by the lemma `Reached` of `DataProofs`: a set
that has 0 and is closed under successor has every number, which follows from
the well-foundedness of < on the numbers. A recursive function (`Decode`,
`Replayed`, `SetWith`, a walk) is a CHOOSE, of which nothing is known until a
function that satisfies its equation is shown to exist (`DecodeIs`,
`ReplayingExists`, `RoundsExist`, `StepsExist`); that too is an induction over `Reached`.

Only model-checked: `SignalEndsProcess`, `CronStops` and `EvictionEnds`, since liveness under
fairness is out of the prover's reach, like ENABLED. Every safety property of a
passing run is stated by a theorem. No module declares a RECURSIVE operator.

## 5. What is not modelled

- The synchronous server (`server/sync_tcp.go`), which `main.go` does not call.
- The command line client and the benchmark, `DecodeOne` and the readers behind
  it, which only the client uses, and the bytes of replies (of `Encode`, which types
  it knows is in `PubSub`).
- Metrics and configuration, and the commands that only format what other parts
  keep: `PING`, `INFO`, `CLIENT`, `LATENCY`, `LRU`, `OBJECT`, `KEYS`, `DBSIZE`, `SLEEP`.
- The bytes of earlier reads that are in a pooled socket buffer behind a short
  read: `Decode` is of a file, which has nothing behind its end.
- What ranks and ranges are once a score has been NaN: the model has what the
  code answers, and nothing is claimed of it. `ZRANK` of the empty
  member may be told that there is none, since the header's member is empty too
  (skiplist.go:211); `ZSetAbs` allows that answer.
- The unsigned sum of a deadline, and a clock that is set back under the
  eviction (it may be under the keyspace). There, the clock is read once per Push
  and once per Pop, where the code reads it once per comparison within them.
- What an eviction count of 0 should do: the model deletes the whole store for it,
  under the random strategy, as the code does. Likewise, that a full store loses a
  key to a SET of a key that is there is in the model, and in `KeyspaceAbs`.
- The order in which a pipelining client sees messages and replies, which nothing
  in the repository promises.

`PROJECT.json` has these as components that are not or partly modelled, or as
hazards with a note. What would come next: the order of replies, once it is
decided what it should be.
