# A TLA+ model of LSMIO

LSMIO is a C++ library that gives HPC applications file-like I/O on top of
log-structured merge stores. This directory holds TLA+ modules that model its
own logic, TLC configurations that check them on small instances, and TLAPS
proofs for every value of the constants. `PROJECT.json` lists components, runs,
mutants, the map from definitions to source lines, findings, hazards and
theorems.

## The system

An application uses `LSMIOManager` directly, through `LSMIOStream` or through an
ADIOS2 plugin. A manager owns one store (native, LevelDB or RocksDB). With
collective I/O only the aggregating rank has a store; the others send it
commands, which a server thread executes.

| Component | State | Operations | What is hard | What makes it correct |
|---|---|---|---|---|
| `Memtable` | vector of (key, value), size | add, get, scan | newest wins inside one table | a lookup returns the last record of a key |
| `LSMIOStoreNative` | active memtable, queue of immutable ones, flags, three condition variables, flush thread | put/del, get, getPrefix, writeBarrier, close, flush loop | threads on one mutex, lost wake-ups, reads that look in two places at two moments, crashes | writes reach the files in order; a barrier covers what it says; waits end |
| `SSTableManager` | list of L0 indexes from `_head` | flushMemtable, get, scan, recoverState, close | silent write failures, torn files, the order after a restart | the list is complete and newest first |
| `FilePool` | queue of open files, next id, thread | acquire, replenish, destructor | two condition variables, open failures, ids over restarts | a file handed out is new and empty; acquire returns |
| `FileCloser` | pending streams, thread | scheduleClose, loop, destructor | batches and shutdown | every stream is closed, the join returns |
| `LSMIOStoreLDB` | a write batch under `_batchMutex`, two counters | _batchMutation, stopBatch, barriers, get, getPrefix, close | a pointer read before the lock, counters outside it, direct writes beside the batch | no batch lost or written twice; a barrier covers what came before |
| `LSMIOStoreRDB` | none of its own | _batchMutation, barriers, get, getPrefix, close | what RocksDB keeps in memory without its log | a crash costs a suffix, nothing a barrier covered |
| `LSMIOManager` | store, client, static singleton flags | routing of every call, callback, initialize/getManager/cleanup | unprotected flags, replies without status, shutdown order | a call reaches one store and its answer its caller |
| `LSMIOClient`, MPI and ADIOS clients | server thread, end-of-life flags | sendCommand, recvCommand, `_waitForCommand`, start/stop | one command from every rank per round | every command is answered, the server ends |
| `LSMIOStream` | static map from file name to offset | read, write, seekp, open, close | an offset shared by all streams of a name | what is written at an offset is read there |
| `LsmioPlugin` | the ADIOS2 IO object's variables, a manager | Init, DoPut, DoGet, EndStep, PerformPuts, DoClose | values as text, descriptions written apart from the values, several ranks with one name | a rank finds its variables and its last values again |
| benchmarks, tools, configuration | | | timing, scripts, settings | not modelled |

Interaction in the native store: callers (the application's thread and, on an
aggregating rank, the server thread) and the flush thread share the memtables
under `_state_mutex`; the flush thread hands memtables to `SSTableManager`,
which takes a file from the pool thread and gives it to the closing thread;
lookups walk the list of indexes without a lock.

Interaction in collective I/O: every rank but rank 0 sends its calls as one
message each; a get, a barrier or metaGetAll waits for its answer, a put or
delete only for MPI_Send. The server thread of rank 0 works in rounds, one
message from every rank, and calls the store beside rank 0's own thread.

## Modules

| Module | Models | EXTENDS |
|---|---|---|
| `Memtable` | memtable and the rule "first hit wins" | |
| `SSTable` | one L0 file: flushed, read back, recovered, cut by a crash | `Memtable` |
| `NativeStore` | `LSMIOStoreNative` with its threads, and the properties | `SSTable` |
| `DurableLog` | abstract: a history with a durable and an acknowledged prefix | |
| `MCNativeStore` | instances of `NativeStore` | `NativeStore` |
| `NativeStoreProofs` | invariant, types, order of the writes; wake-ups, queue bound, barrier, refinement | `NativeStore` |
| `NativeStoreReads` | what lookups find: gets, scans, what a barrier covered | `NativeStoreProofs` |
| `FilePool`, `FileCloser` | the two helper threads and what others call on them | |
| `SSTableManager` | flushes and recovery through pool and closer, and the properties | both |
| `SSTableManagerProofs` | types, order and completeness of the list, the pool's wake-ups | `SSTableManager` |
| `Wire` | the texts that travel between ranks: written, cut up, lists of tuples | |
| `CollectiveIO` | `LSMIOManager` and `LSMIOClient` on all ranks, MPI, the store behind them | `Wire` |
| `MCCollectiveIO` | instances of `CollectiveIO` | `CollectiveIO` |
| `CollectiveProofs` | round trip of a message; the store outlives its users; calls, answers, gets, barriers and close | `CollectiveIO` |
| `RecordFile` | the bytes of an L0 file, plain or preallocated | `SSTable` |
| `MCRecordFile` | an instance of `RecordFile` | `RecordFile` |
| `RecordFileProofs` | lengths, parsing and lookups in the bytes of a file | `RecordFile` |
| `BatchStore` | `LSMIOStoreLDB`: its batch with several callers, crashes and restarts | |
| `RocksStore` | `LSMIOStoreRDB` on RocksDB with and without its log | |
| `Backends` | the two behind one interface, as implementations of `DurableLog` | `BatchStore`, INSTANCE `RocksStore` |
| `BackendsProofs` | types, bound of the batch, what a barrier covers, the refinement of both | `Backends` |
| `Aggregation` | how a manager divides the ranks into groups, paths and keys | |
| `Plugin` | `LsmioPlugin` on all ranks of a job, over several jobs | `Aggregation` |
| `MCPlugin` | an instance of `Plugin` | `Plugin` |
| `PluginProofs` | groups of ranks; no two writers of a key; ranks read their puts and find their variables | `Plugin` |
| `Stream` | `LSMIOStream`: records under a name and a position | |
| `StreamProofs` | types; blocks read back as from a file | `Stream` |

The levels meet at the store. `NativeStore` and `BatchStore` take the stores
apart thread by thread. `CollectiveIO` has the native store with as much of its
memtables and its flush thread as a caller can tell, and RocksDB's. `Stream` sits
on top of one manager, `Plugin` on one manager per rank; both use a store as a
history of writes. A crash leaves `Plugin` a beginning of that history
(`DurableLog`, which the native store, RocksDB's, and LevelDB's with one caller
are proved to implement), and on the native store that is not all: `DurableLog`
counts what was handed to a file, and a record that the crash has torn can hide
earlier ones of its key, which `Plugin` marks as lost.
`RecordFile` goes the other way: it shows on bytes what `SSTable` says of a file.

Definitions named as mutants change one definition of the code in the way a
plausible bug would; nothing in the specifications uses them.

### NativeStore and the code

A record is its key, whether it is a tombstone, and the number of the write that
made it, which stands for the value: the code compares values with the tombstone
only. A memtable is the sequence of its records with its byte count; `base`, the
number of writes made before it became active, is history. A lookup returns a
set with at most one record.

A critical section under `_state_mutex` is one action. What lies between two of
them is separate:

* `_batchMutation`: `Put` (room in the active memtable), `PutRotate`, `PutBlock`
  (queue full) and, after the wait, `PutResume`, which tests the predicate again
  and rotates whatever memtable is active by then.
* `writeBarrier` and `stopBatch`: `BarrierRotate`, `BarrierWait`,
  `BarrierReturn`, `BarrierResume`.
* `get`: `Get` under the mutex, `GetSST` after it, `ReadReturn`; `getPrefix`:
  `GetPrefix`, `ScanSST`, `ReadReturn`.
* `FlushWorkLoop`: `WorkerPop`, `WorkerExit`, `WorkerFindsNothing`,
  `WorkerSleep`, `WorkerNotifyBackpressure`, `WorkerFlush`, `WorkerClear`,
  `WorkerNotifyBarrier`. `WorkerFindsNothing` and `WorkerSleep` are apart because
  `close` stores `_shutting_down` and notifies without the mutex; between them
  the flush thread holds it (`MutexFree`).
* `close`: `Close`, `CloseNotify`, `CloseJoin`, `CloseDrain`, `CloseFlush`,
  `CloseReturn`.
* the constructor: `RemoveAll` (overWrite) and `Open` with recovery.
* `Crash` and `CrashInFlush`: the process dies; of a file being written some
  records survive, and the next one may be cut inside its value. The data of
  finished files is with the operating system, so they survive a process crash;
  a power failure is not modelled, the code never calls fsync.

Waits are explicit: a thread in a wait leaves it when notified, or spuriously,
and tests its predicate again. With `WriteFaults` the writes of a flush may fail
from some record on; the index lists every record all the same, nobody looks at
the stream, and an exception is swallowed by `FlushWorkLoop` (all records
unreadable). `gone` collects the writes that such a flush, or a crash, leaves
unreadable.

Callers keep the order of `LSMIOManager::close`: the server thread is stopped
before the store is closed, so `close` runs alone and nobody calls the store
after it. `flush` of put and del has no effect in this store and is left out.

### SSTableManager and the code

A file is an id with the number of the memtable it holds, 0 when it is empty.
`Filler*` are the stretches of `replenish`, `AcquireTest` one evaluation of
`acquire`, `Closer*` those of `workerLoop`, `Flush*` the steps of
`flushMemtable` in their order (write, schedule the close, prepend the index),
`Construct` the constructor with `recoverState`, `Close*` `close` and the
destructors. All fields of the pool and the closer change under their mutexes,
so a wait begins in the step that finds its predicate false. Only one thread at
a time is in `flushMemtable`, and none during `close`: the store joins its flush
thread first. For that reason the branch of `acquire` that throws during
shutdown is never taken, and the streams the pool holds are open. Preallocated
files are in `RecordFile`.

### RecordFile and the code

One file from the moment the pool hands it out. `WriteRecord` is one turn of the
loop of `flushMemtable`, with the offset `tellp` gives (a failed stream gives -1,
the largest `uint64_t`); `Spill` moves bytes of the stream's buffer to the file at
any time, `Fail` lets a write to the file fail after any number of bytes, and
`Finish` is the flush, the sort and `std::unique`. `Crash` leaves what has reached
the file. `Recover` is the loop of `recoverState`, `Lookup` the binary search and
`readValueAt`. A byte has three values and a length two bytes, so that lengths with
a carry, values that look like records, and zeros all occur; the layout is the
code's. `Power` stands for the numbers that fit into a field. Lengths fit into
theirs (`LengthAssumption`), and no file is as long as the offset of a failed stream
(`FileBoundAssumption`): a reader must not find a record there. A file of a size
above 0 was preallocated: it is full of zeros and the stream overwrites it from its
beginning.

### CollectiveIO and the code

`Ranks` are those of the aggregation communicator. `pc[r]` is where the
application's thread of a rank is, `server`, `next`, `buf` and `eol` are the
server thread in `_waitForCommand` (`recv_i`, `recvBuf`, `eolRanks`). A channel
is one queue per direction and client: MPI keeps the order of messages between
two ranks.

* `_init`: `OpenLocal` (store, then server thread), `OpenRemote`, `PassStart`
  (barrier B01).
* Calls on another rank: `RemoteWrite` then `SendReturns`; `RemoteRequest` then
  `RecvReply`. With `Eager` MPI_Send returns at once, without it when the message
  has been received; MPI allows both, and the runs use both.
* Calls on rank 0: `LocalWrite`, `LocalGet`, `LocalGetAll`, `LocalBarrierBegins`
  and `LocalBarrier`.
* A round: `ServerCheck` (all clients shut down?), `ServerRecv` for every client
  in turn (`_recvToBuffer`), then for every client `ServerEol` or `ServerExec`,
  which is the callback on the store (`Callback`, `Answers`) and the reply; a write
  barrier begins in `ServerBarrierBegins` before that.
* The flush thread of the native store: `FlushStep`.
* `close`: `CloseRemote`, `EolSent`, `PassEnd`; on rank 0 `CloseLocal`,
  `JoinServer`, `LeaveEnd`, `CloseStore`.

The native store is `db`, what its files show, `flight`, the memtable on its way to
a file, `queue`, the immutable ones put together, and `active`. The sizes are left
out: the active memtable may be rotated at any mutation, and the flush thread takes
any beginning of the queue, so that the run has every division into memtables. A
mutation that meets backpressure is the step in which its wait is over. A get looks
into memory, without `flight`, and then into files that may have the memtable in
flight by then or not (`FilesSeen`, `Found`): a put that has returned may be missing.
`getPrefix` lets older memtables overwrite newer ones, so of a key in memory it may
return any version (`FoundPrefix`, which allows more than the code does). A lookup is
one step: the keys of a client are written by the thread that reads them, so that
only the flush thread can come in between, and what it does in that time is in
`FilesSeen`. `BarrierBegins` rotates and `BarrierReturns` needs an empty queue and no
flight; in between the other thread goes on. RocksDB shows every mutation at once.

LevelDB is not among the stores here. Its `stopBatch` reads a pointer before it takes
its lock and writes after releasing it, rank 0's thread and the server thread are
two callers, and with two callers a barrier may return without the batch and a batch
may be lost (run `batch_race`): nothing is claimed of collective I/O over LevelDB.
Further, the store begins empty, no write to a file fails, and the native store's
close returns; what happens otherwise is in `NativeStore` (`close_hangs`).

A text is a sequence of tokens, the separators among them, so that a value may
contain one. `asked` and `executed` are histories: what the application of a
rank asked for and what the store was asked to do. The flush argument of a put
is lost on the way to rank 0, where the callback uses `alwaysFlush`; neither store
here looks at it. Counters of bytes and operations are left out. A failing store or
a lost rank ends the program in the code (`exit(1)`, MPI's error handler) and is
left out.

### BatchStore and the code

Every access to `_batch` and to the counters is a step of its own.
`BatchMutation` reads the counters; `TestDirect` and `WriteDirect` are the branch
for flushed and large values (the code compares a value's bytes with
`_maxBatchSize`, a number of records, and so does the model); `TestFull`,
`AddToBatch` (under the mutex) and `UpdateCounters` the other one; `StopRead`,
`StopLock` and `StopWrite` are `stopBatch`. Batches have addresses and may be
freed: writing a freed batch writes its old contents or nothing, writing the null
pointer nothing (a crash is another outcome, and stops everything). LevelDB is the
sequence of the mutations written to it, which survives the process: LevelDB's log
is with the operating system when a write returns. `Open` is the constructor,
with or without the removal of an old database.

### RocksStore, Backends and the code

In `RocksStore` a mutation is one call of RocksDB. `db` is the beginning of the
history that is in RocksDB's files: all of it with `enableWAL`, otherwise what
RocksDB has flushed by itself (`RocksWritesBuffer`) or in `writeBarrier`
(`RocksFlush`). The flush argument and `readBarrier`, `startBatch` and `stopBatch`
change nothing in the code and have no action. `Backends` chooses one of the two
stores as `LSMIOManager::_init` does; both change the same `log`, `db`, `pc`,
`covers`, `acked` and `phase`, and the refinement maps the length of `db` to the
durable prefix.

### Plugin and the code

`Open` is the engine's constructor up to the manager's (`Mode::Write` empties the
stores), `Discover` the rest of `Init` in read mode, `Put` and `Get` the sync and
deferred variants, which are the same code, `EndStep` and `DoClose` call
`PerformPuts`, whose turns are `Describe`, and `CloseGroup` is `LSMIOManager::close`
of the ranks of one group. Texts are sequences of tokens; values are joined with
commas and split again, doubles lose digits (`Rounded`, with `Precision` 2 for the
six of an ostream), dimensions are printed in braces and parsed by
`convertStrToDims`. The three types stand for the three ways of reading: all there
is (the numbers read with `StringTo`), as many as selected (`short`, the characters
and `long double`), and the text itself (strings). `io` is ADIOS2's: the application
defines variables or sets selections in `Select`. `MetaGetAll` lists the
descriptions in the order of the ranks, with which keys begin, and those of one rank
in any order of the names. The constants are such that texts can be read back: no
variable is called ";" (`NameAssumption`), numbers have different texts, none of
them a separator (`NumberTextAssumption`), dimensions and values are among the
numbers of the model (`SelectionAssumption`, `NumbersFit`). Calls of a rank reach
its group's store in one step; what happens in between is `CollectiveIO`. An engine
reads only what an earlier engine has put and closed, or a crash has left (`Put` is
for the other modes), so no get meets a memtable in flight. Descriptions that other
ranks write again at their close are old or new to `metaGetAll`, as in the order of
the steps here.

After a crash a store has a beginning of its history. On the native store, the
default, the file that was being written holds the entries after some point, and its
last record may be cut inside its value: `recoverState` indexes it all the same, and
`get` then looks into older files only. `LastTorn` marks that entry and the earlier
ones of its key in that file as `lost`; which file it is is left open. `Crashed` is
thereby the `gone` of `NativeStore` for a crash. Left out are writes to a file that
fail, preallocated files (`preAllocate` is off by default), where a cut value reads as
zeros instead (`RecordFile`), and several ranks in a group over LevelDB.

### Stream and the code

A record is stored under file name and position (`_genKey`; the text of a key has
the position after its last "::", so no two pairs share one). `content` is the
reference: the bytes a file has at a position, none after it was opened with the
`trunc` bit. The position is per file name, and neither `cleanup` nor a new database
resets it. `open` with a mode other than exactly `trunc` keeps it, and no mode
removes records: after a truncation the old ones can still be read. The manager may hold
writes back until `writeBarrier`, `cleanup` or a full batch (`BatchWritten`).

## Runs

Bounds: in `NativeStore`, `MaxBytes = 2`, with records of 1 byte (`k1`, two fill a
memtable) and of 3 bytes (`k2`, larger than a memtable), so rotations happen with
room, without room and for an oversized record; `MaxImmutable = 1`, so that the
second rotation meets backpressure. Three writes reach a file list of several files
with the same key, a queue, a memtable being flushed and an active one at the same
time. Two threads are enough for every pair of a waiting and an acting caller beside
the flush thread. `read_own_write` has one thread and two writes, the second of
which rotates the first into the queue. `SSTableManager` has a pool and batches of
two files, three flushes, three processes and one failed open: the pool wraps, a
batch fills, and ids go on over two restarts.

`CollectiveIO` has two runs. `collective` is about the ranks and the messages: rank 0
and two clients, the smallest number with a first and a last rank in a round, two
calls for each client (a write and what depends on it) and one for rank 0, on RocksDB;
get, and del of a client, are left to the other run.
`collective_store` is about the memtables: rank 0 with two calls and one client with
three, so that a rank can put, call writeBarrier and get, or put twice around a
barrier, beside rank 0's thread and the flush thread, on the native store and with
sends that wait. Both have one key used by all ranks, so that only the rank in the key
keeps them apart, and a value with a separator in it.
`BatchStore` has a batch limit of 3, so batches are begun, filled and replaced,
and values below and above the limit; the race needs two threads and two writes.
`Stream` has two streams, which may share a name or never be opened, two
databases, blocks of two bytes and three writes. `Backends` has the batch limit of
3 and five mutations, of which a crash or a removed database makes room for new
ones. `RecordFile` has up to three records of two keys, one a prefix of the other,
values that are empty, short or themselves a record, and files that are not
preallocated, shorter and longer than their contents. `Plugin` has two ranks in
one group, so that only the rank in the keys keeps them apart (other groupings, in
which ranks share no store, have only the theorems), one variable name used by both,
of either number type (strings, which are stored as they are, have only the theorems,
too), selections of none or two elements, two puts, three openings and three writes: a
writer, a crash or a clean end, an appender or a second writer, and a reader.

| Run | Checks |
|---|---|
| `writes` | with crashes and failing file writes: types; `WritesInOrder`; `BarrieredOnDisk`; `ImmutablesBounded`; `NoLostWakeup`; the refinement `ImplementsDurableLog`; `BarrieredSurvives` |
| `reads` | `GetNotBehindBarrier`, `ScanExactWhenQuiet`; under fairness `QueuedFlushed`, `BarrierReturnsOrWritesGoOn`, `PutReturnsOrWritesGoOn` |
| `files` | types; `ListNewestFirst`; `NothingMissing`; `PoolNoLostWakeup`; `NothingOverwritten`; under fairness `FlushReturns`, `ManagerCloses` |
| `close_hangs` | violated: `CloseReturns` |
| `read_own_write` | violated: `ReadYourWrites` |
| `collective` | three ranks: types; `ExecutedInOrder`; `StoreOpenWhenUsed`; `RepliesAwaited`; under fairness `EveryoneLeaves` |
| `collective_store` | two ranks on the native store: `GetSeesOwn`, `WriteBarrierCovers`, `MetaGetAllOwn`, `ClosedComplete` |
| `backends` | one caller, crashes and restarts: types; `BarrierCovers`; the refinement `ImplementsDurableLog` of both stores |
| `records` | `LookupsMatchSSTable`; `CompleteFound` |
| `plugin` | `ReadsLastPut`; `OneWriterPerKey`; `DiscoversOwn` |
| `stream_blocks` | types; `ReadsNoOtherBytes`; `BlocksReadBack`, whole blocks |
| `batch_race` | violated: `BarrierCovers`, two callers |

The violated properties say what a test or a comment of the repository says:

* `close()` of the native store can hang: its notification may fall between the
  flush thread's test and its wait.
* A completed put can be invisible to get while its memtable is being flushed.
* In the LevelDB store a barrier may return before, or without, the batch being
  written when two threads call it.

Other limits of the code are part of the model and have no run of their own:

* `getPrefix` lets an older memtable overwrite a newer one, so a deleted key may
  come back until it is flushed (`MemScan` and `MemGet` differ).
* In the native store other threads that write without a pause can starve a thread
  in writeBarrier, which waits for a moment with an empty queue and no flush, and a
  writer that waits for room, whose place is taken before it has the mutex.
* `writeBarrier` returns true when the flush it waited for failed
  (`BarrierResume` looks at the queue only).
* On ranks other than 0, get reports success for a key that does not exist
  (`RecvReply`), and readBarrier does nothing and returns true (`Callback`).
* The server of collective I/O receives one message from every rank per round,
  also from ranks that have shut down (`ServerRecv`): when one rank makes a call
  more than another, the server thread never ends and rank 0 stays in close.
* In a preallocated file a value that a crash has cut reads as zeros after a
  restart, and hides older versions of its key, which a barrier may have covered;
  the zeros at the end parse as records of the empty key. With keys that are empty
  or contain zero bytes `CompleteFound` does not hold.
* The RocksDB store ignores the flush argument: without its log a flushed put is
  not durable before a barrier.
* In the native store a record that a crash has torn hides earlier ones of its key
  in the same file: after a crash a rank of the plugin may read a put from before the
  last ones, or none, and may not find a variable it has described.
* In the plugin: a reader's close writes the descriptions again, with the reader's
  selections, and rank 0 of a group also those it found of other ranks, as its
  own; a variable that was defined and never put is described; doubles keep six
  digits; a get of a number type takes all values that were put, whatever is
  selected, and one of `short` past the end of what was put is undefined; the end
  of a step makes nothing durable; a job that reads with another grouping of the
  ranks than the writer's finds nothing; with `disableAggDirStructure` all groups
  open one directory.
* A stream's write inside an earlier, longer one is not seen by a read of the
  whole (`Read` finds the record that begins at its position). A new stream goes on
  where an earlier one of its name stopped, and reads in a file opened with `trunc`
  what it held before.

What does hold is just as useful: without a close, no wake-up is lost; a get is
never behind the last barrier; a scan is right about every key that was not
written since the last barrier; nothing a barrier covered is lost or hidden by a
crash or by a later failing flush. In collective I/O the calls of a rank are
executed once, in order and unchanged; answers reach the call that waits; the
store outlives the server thread. Over the native store and RocksDB's, a write
barrier and close cover puts that returned before they were received, and a rank's
get returns nothing but its own values, none older than its last barrier; over
LevelDB, with two callers, neither holds. With one caller the LevelDB store keeps the
order of direct and batched writes, and both library stores lose a suffix at most
in a crash, never what a barrier or close covered. On the bytes of a file, cut
anywhere, lookups find what `SSTable` says. Through the plugin every rank reads
the last of its own values and descriptions that the crashes have left, and never
another rank's.

Deadlock is checked in `NativeStore`. In `SSTableManager` it is not: when the
last process has ended, nothing is left to do; the same holds for `CollectiveIO`
after close and for `Plugin` when the engine was opened as often as the bound
allows.

Fairness: the flush thread, the pool thread and the closing thread run whenever they
can (weak fairness). A caller competes for `_state_mutex`, so it gets strong
fairness for going on with its call: it stands for a mutex that does not starve a
thread for ever and for notify_all reaching every waiter. It does not say that the
caller finds its predicate true: a thread may wake, find the queue full or a flush
in progress and wait again, any number of times. The number of writes is bounded in
a run, in the code it is not; `BarrierReturnsOrWritesGoOn` and
`PutReturnsOrWritesGoOn` therefore promise a return only if the writes come to an
end, which in the run they may do at any moment, with any threads waiting. Nobody is
forced to make a call, to crash or to restart, and a wait is never forced to end
spuriously. In `CollectiveIO` every rank makes the calls of its quota and closes,
and every rank, the server thread and the flush thread run when they can (weak
fairness): that is what an MPI program does that reaches its end, and MPI delivers
what was sent.

## Proofs

Every theorem holds for all values of the constants that satisfy the named
assumptions of the module. Every inductive invariant was checked with TLC on the
instance of the run before it was proved. The theorems speak of the same
definitions as the runs.

### The native store

`NativeStoreProofs` and `NativeStoreReads` assume only that
sizes and limits are natural numbers, the queue has room for one memtable (the
constructor replaces 0 by 4) and the set of threads is finite.

`IInv`, the invariant of the first part, is `TypeOK`, `Control`,
`WritesInOrder` and `QueueMonotone`. `WritesInOrder` alone is not inductive: a
flush changes what `inflight` must hold and is done by the flush thread or by
`close`, so `Control` says who can hold a memtable, that `close` runs alone and
after the flush thread has ended, and when there is an active memtable.
`QueueMonotone` is what chaining the queue's neighbours gives by induction on
its length; it is stated instead of derived. `TypeStep`, `ControlStep` and
`OrderStep` take the actions one by one.

The second part of `NativeStoreProofs` adds three invariants, each with its own step lemma:

* `Wakeups`: the flush thread that found the queue empty holds the mutex, so it
  is still empty when it sleeps; waiters wait for something.
* `BarrierInv`: the writes a thread in writeBarrier waits for lie before the
  active memtable, and `synced <= flushed`.
* `QueueInv`: the flush thread leaves the queue empty when it ends.

`NativeStoreReads` adds two:

* `DiskInv`: the files are parts of the history, the newest first, and every
  flushed write that no failed flush and no crash has cost lies in a file in which
  its key is found. A failed flush or a torn file may still hide records; the last
  part says that it hides none but those it has cost.
* `ReadInv`: what a read between its two looks, in memory and in the files, has
  found, and what it still relies on: a get that found nothing in memory sees
  every write up to the barrier in the files it has yet to search, although the
  list has grown in the meantime; what a scan found in memory is newer than what
  it will find in the files.

The lemmas on lookups say what the first file with a hit, and the last record of a
key in it, give (`FirstHitFinds`, `DiskFinds`, `MemFinds`); `StepKinds` sorts the
steps by what they do to files, history and reads: nothing, write, flush, look or
restart.

| Theorem | States |
|---|---|
| `TypeCorrect` | `Spec => []TypeOK` |
| `OrderCorrect` | `Spec => []WritesInOrder` |
| `WakeupsNotLost` | `Spec => []NoLostWakeup` |
| `QueueBounded` | `Spec => []ImmutablesBounded` |
| `DurableLogImplemented` | `Spec => ImplementsDurableLog` |
| `BarrierDurable` | `Spec => BarrieredSurvives` |
| `BarrieredReadable` | `Spec => []BarrieredOnDisk` |
| `GetsNotBehindBarrier` | `Spec => []GetNotBehindBarrier` |
| `ScansExactWhenQuiet` | `Spec => []ScanExactWhenQuiet` |

`DurableLogImplemented` and `BarrierDurable` rest on `StepEffect`, which classifies
every step by what it does to the history of the writes.

### SSTableManager

`SSTableManagerProofs` assumes that the pool has at least one file, that the
closer's batch has the size of the pool, as the manager's constructor makes it,
and that the bounds are natural numbers. That the list is newest first after a
restart is a matter of ids: `recoverState` sorts by id, `flushMemtable` prepends.
The two agree because ids are handed out in the order of the flushes, and the
invariant `Stages` says why: listed and written files, the one given to the flush,
those in the pool, in its order, and the one being made have ids in this order.
`IdsBelow` keeps `_next_id` above all of them, also for a process that finds
files that an earlier one left empty; `NewFiles` says that what the pool holds
has never been written; `Threads` where the threads can be; `FlushOrder` and
`List` the order on disk and in the list. `NothingOverwritten` is an action
property and follows from `NewFiles`.

| Theorem | States |
|---|---|
| `ManagerTypeCorrect` | `Spec => []TypeOK` |
| `ListStaysNewestFirst` | `Spec => []ListNewestFirst` |
| `NoFlushedFileMissing` | `Spec => []NothingMissing` |
| `PoolWakeupsNotLost` | `Spec => []PoolNoLostWakeup` |
| `NoFileOverwritten` | `Spec => NothingOverwritten` |

### The bytes of a file

`RecordFileProofs` takes any number base from 2 on and any width of a length field,
any keys and values whose lengths fit, any number of records and any preallocated
sizes, as long as files are shorter than `NoOffset`. The inductive invariant is
`FileInv`: the stream has the bytes of the first records, all that were written
unless it has failed (`Wrote`); the file begins with the stream, as far as it got,
and goes on with zeros (`FileBytes`); the index has the offsets of the records in the
stream and `NoOffset` for the others (`Indexed`). From it follows where reading
stands: the complete records are the first ones, and at most one more is begun
(`CompleteIs`).

What the reader finds there is proved in steps. A length is read back as it was
written (`LengthRoundTrip`); lengths, key and value of a record that is there are read,
and of one that the end of the file cuts they are not (`HeaderRead`, `ValueRead`,
`HeaderCut`, `ValueCut`). `recoverState`'s loop is a function of the offset that calls
itself at the next one. That there is such a function is not obvious and is proved
from the offsets that the loop reaches, which only grow (`ParseRuns`); then the loop
passes the complete records one by one (`RecordsParsed`) and stops at the one that is
cut (`CutRecordParsed`). In a preallocated file it goes on through zeros, and there it
finds keys of zeros only, at most (`ZerosParsed`); a cut record of which the zeros
make up the rest can be found under its own key (`TornKeyOnly`). `LookupIsNewest`
says what binary search finds after `std::unique`. `CompleteRecordsFound` is about
keys that are not empty and have no zero byte (`PlainRecordKeys`), as the property
says; the keys of the run are such keys.

| Theorem | States |
|---|---|
| `FileContinuesStream` | `Spec => []FileInv` |
| `LengthRoundTrip` | `Decode` of a string that has the bytes of `Encode(n)` is n |
| `LookupsFindRecords` | `Spec => []LookupsMatchSSTable` |
| `CompleteRecordsFound` | `PlainRecordKeys /\ Spec => []CompleteFound` |

### Collective I/O

`CollectiveProofs` assumes that there is at least one rank, that keys and values
are texts over a set of tokens that has the separators and the names of the
commands, and that ranks have different texts, none of them a prefix or a
separator. `StoreOutlivesServer` is not
inductive: rank 0 closes its store from a place where nothing says that the
server thread has ended. `OpenInv` adds that the server runs only after rank 0 has
opened the store, that rank 0 passes its join only when the server is done, and
that the store is open until the last step of close. `CommandRoundTrip` says that
`deSerializeCmd` undoes `serializeCmd` for every value, when the command and the
key contain no separator.

The other theorems are about applications with `PlainKeys`: no key contains the
separator, which the code does not protect, and no key is another one's metadata
key. Both configurations have such keys. The invariant `IInv` is, for every client, a
pipe (`Pipe`): what the store has seen, a message the server has received and
those under way are together the calls the client has made, in their order, and
after them the end-of-life message; and a reply is there only for the request
its client waits for. To that comes the store. `Pending` is all that is not in the
files: the memtable in flight, the queue and the active one. `StoreReflects` says of
every key of every rank that the files with `Pending` on top hold what the executed
calls of that rank leave (`Contents`; other ranks' calls go to other keys, by the
ranks' texts), and that every version a lookup can come upon, in the files or in a
memtable (`Known`), is one the key has had since the rank's last barrier. A mutation
adds one such version, and a flush adds none, because putting a memtable in the files
is the same as having it on top of them (`AppliedConcat`, `AppliedOf`). That a barrier
leaves only the last version needs two more facts: no key of a rank that waits in
writeBarrier is in the active memtable (`StoreSound`; its thread is in the call), and
a barrier is under way for a client only while the server executes it
(`BarrierServed`). `SeenOwn` and `Answered` carry what a lookup found to its caller
through the reply. `Ending` says that the server ends after every client's last
message and that a closed store has nothing in memory.

Where the store is RocksDB's there are no memtables, and "since the last barrier" is
"after the last call" (`Oldest`, `OldestOf`).

`TuplesAreOwn` also needs `PlainTuples`: no key contains "|" or an end of line, no
value an end of line, because `vectorTupleSerialize` writes them as they are. Its
invariant `TuplesInv` says that the ranks put only the application's values, that
every entry of the files and the memtables has a key of some rank (`Placed`), and
that the reply to a metaGetAll, and what the call returns, lists the rank's own
keys, each with a value it has had since the last barrier (`Listed`). The prefix
that `metaGetAll` searches for finds these and no others (`OwnFound`, from the
ranks' texts), and the list survives as text by `TupleRoundTrip`: the text of one
tuple more is one line more (`LinesGrow`), so a least number of tuples that is not
read back cannot be.

| Theorem | States |
|---|---|
| `StoreOutlivesServer` | `Spec => []StoreOpenWhenUsed` |
| `CommandRoundTrip` | `DeSerializeCmd(SerializeCmd(c, k, v))` is c, k and v |
| `CollectiveTypeCorrect` | `Spec /\ PlainKeys => []TypeOK` |
| `CallsExecutedInOrder` | `Spec /\ PlainKeys => []ExecutedInOrder` |
| `RepliesAreAwaited` | `Spec /\ PlainKeys => []RepliesAwaited` |
| `GetsSeeOwn` | `Spec /\ PlainKeys => []GetSeesOwn` |
| `WriteBarriersCover` | `Spec /\ PlainKeys => []WriteBarrierCovers` |
| `ClosedStoreComplete` | `Spec /\ PlainKeys => []ClosedComplete` |
| `TupleRoundTrip` | `VectorTupleDeserialize(VectorTupleSerialize(tuples))` is tuples |
| `TuplesAreOwn` | `Spec /\ PlainKeys /\ PlainTuples => []MetaGetAllOwn` |

### The LevelDB and RocksDB stores

`BackendsProofs` assumes a finite set of threads, at least one key and limits that
are natural numbers. For any number of threads `IInv` bounds the batch: its length
is the counter plus the records that are added and not yet counted, and no more
threads than there are can be between the test of the counter and its update
(`BatchLength`). What a barrier covers is false with several callers (run
`batch_race`), so it is proved where it can hold (`Orderly`): of RocksDB with any
number of threads, of LevelDB with one. `OneCallerInv` then says that the database
holds the first mutations, in their order, that the acknowledged ones are in it,
and that the rest is in the one live batch, in order.

| Theorem | States |
|---|---|
| `BackendsTypeCorrect` | `BackendsSpec => []TypeOK` |
| `BatchStaysBounded` | `BackendsSpec => []BatchBounded` |
| `BarriersCover` | `BackendsSpec /\ Orderly => []BarrierCovers` |
| `BackendsImplementDurableLog` | `BackendsSpec /\ Orderly => ImplementsDurableLog` |

### Plugin

`PluginProofs` assumes that there is at least one rank and that every rank has a
node (`WorldAssumption`), and of names, numbers and selections what is said under
"Plugin and the code". For every size of the job and each of the four ways to
group it, the directory of a rank's group and the rank in its keys, which is its
place in the group, name the rank (`KeyNamesRank`, from `AggRankGrows`: a rank further
up has more ranks of the group before it).

The inductive invariant `Inv` has two parts. `StoresInv` says of every entry of a
store that it was written by a rank of that directory's group, under its place, and
that its text is the text of what was written: of a selection, or of values
(`Placed`). A crash cuts histories and marks entries as lost, which leaves this true
of the entries that are left. `EngineInv` says that a rank at the end of a step or
at close describes only variables it has defined, and that no rank is in a call
without an engine. The properties follow in one step each: the last entry with a
rank's key that is not lost is the last such the rank wrote (`KeyNamesRank` again),
and its text is read back as it was written, a list of numbers by `NumbersBack`, a
description by `InfoBack`. Both are lemmas about joining and splitting: `Fields`
cuts exactly at the separators, for texts of any length. `RanksFindTheirVariables`
has a special case, the aggregating rank: it finds the descriptions of its whole
group under the same names, and its own come first (`AggregatorFirst`), so that the
others do not replace them (`AddVariable`).

| Theorem | States |
|---|---|
| `EngineInOrder` | `Spec => []Inv` |
| `WritersDoNotMeet` | `Spec => []OneWriterPerKey` |
| `RanksReadTheirLastPut` | `Spec => []ReadsLastPut` |
| `RanksFindTheirVariables` | `Spec => DiscoversOwn` |

### Streams

`StreamProofs` assumes that lengths are positive and have a greatest one and that
`seekp` goes to positions the model has. `StreamsTypeCorrect` needs no more. The
other theorems are about streams of whole blocks (`Blocks`: one length, `seekp` to
its multiples), because of a write into the middle of an earlier, longer one they
are false. They all rest on `Flushed`, what the database would hold if the batch
were written now: writing the batch leaves it as it is, `write` puts one record in
the place of the one with its key (`StoredAppend`), and after a barrier it is the
database. `BlockInv` says that its records have the bytes of the file, wherever the
file has any, and that every block of the file has a record; truncation takes bytes
from the file and nothing from the records (`OpenBlock`); that a write touches no
other record's bytes is `BlocksApart`.

| Theorem | States |
|---|---|
| `StreamsTypeCorrect` | `Spec => []TypeOK` |
| `BlocksInvariant` | `Blocks /\ Spec => []IInv` |
| `StreamsReadNoOtherBytes` | `Blocks /\ Spec => []ReadsNoOtherBytes` |
| `WrittenBlocksReadBack` | `Blocks /\ Spec => []BlocksReadBack` |

### Only model-checked

All liveness (`QueuedFlushed`, `BarrierReturnsOrWritesGoOn`,
`PutReturnsOrWritesGoOn`, `FlushReturns`, `ManagerCloses`, `EveryoneLeaves`):
fairness and ENABLED are out of the prover's reach. Every invariant and every action
property of a passing run is stated by a theorem.

Induction with the formula as a parameter is not available to the provers.
Where an induction is over numbers and the formula is a concrete one, the proofs use
the least counterexample instead (`LeastExists`, from the induction theorem of the
library), for example for the greatest element of a set, for the first hit in a
list, to show that texts put together are a text (`FlattenType`), that a loop
written as a recursive function has the values it computes (`LoopRuns`), and that
lists (`TupleRoundTrip`) and lengths (`LengthRoundTrip`) read back as they were
written.

## Plan

1. Done: the native store, its files, pool and closer; the bytes of a file;
   collective I/O with the manager's routing; the LevelDB and RocksDB stores;
   streams; the ADIOS2 plugin; the theorems above.
2. Left: the hazards without a property that `PROJECT.json` lists, each with the reason
   why no property covers it.

## Not modelled

LevelDB, RocksDB, MPI and ADIOS2 are libraries outside the repository and appear
as their callers use them. The ADIOS2 variant of the client is not used by the
manager. `initialize`, `getManager` and `cleanup` of the static manager and of
`LSMIOStream` are modelled with one calling thread only (`Stream`): their flags
are tested and set without a lock, and no document allows several threads.
Benchmarks and tools measure, configuration and logging are data;
`autoTuneParameters` only logs. Power failure (nothing calls fsync, `useSync` is
off by default) and lengths above 2^32, which `flushMemtable` would truncate, are
left out.
