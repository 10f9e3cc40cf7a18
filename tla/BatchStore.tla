----------------------------- MODULE BatchStore -----------------------------
(***************************************************************************)
(* LSMIOStoreLDB: mutations collect in a write batch, which goes to        *)
(* LevelDB when it is full, at a barrier and at close.  The threads are    *)
(* the application's and, on an aggregating rank, the server thread.       *)
(*                                                                         *)
(* A mutation is its key and its number; numbers are given in the order in *)
(* which mutations reach the batch or LevelDB, and stand for the values.   *)
(* LevelDB is the sequence of the mutations written to it: a write call    *)
(* appends to it in one step, and what it has survives the process.        *)
(***************************************************************************)
EXTENDS Integers, Sequences, FiniteSets, SequencesExt

CONSTANTS Threads,
          Keys,
          Sizes,          \* value sizes the application uses; a delete has 0
          MaxBatchSize,   \* _maxBatchSize
          MaxBatchBytes,  \* _maxBatchBytes
          MaxWrites       \* bound on the number of mutations

ASSUME ThreadAssumption == IsFiniteSet(Threads) /\ Threads # {}
ASSUME KeyAssumption == Keys # {}
ASSUME LimitAssumption ==
  Sizes \subseteq Nat /\ MaxBatchSize \in Nat /\ MaxBatchBytes \in Nat /\ MaxWrites \in Nat

VARIABLES db,          \* the mutations LevelDB has, in the order it got them
          heap,        \* every WriteBatch ever made; its index is its address
          freed,       \* the addresses that have been deleted
          batch,       \* _batch, 0 for nullptr
          batchSize,   \* _batchSize
          batchBytes,  \* _batchBytes
          log,         \* history: the keys of the mutations by number
          pc,          \* where a thread is
          local,       \* its local variables
          covers,      \* history: the mutations a thread's barrier has to cover
          acked,       \* history: the mutations a barrier has reported as saved
          phase        \* of the store object: open, closing or closed

batchVars == <<heap, batch>>
counters == <<batchSize, batchBytes>>
history == <<covers, acked>>
vars == <<db, heap, freed, batch, counters, log, pc, local, history, phase>>

NoLocal == [key |-> CHOOSE k \in Keys : TRUE, size |-> 0, futureSize |-> 0,
            futureBytes |-> 0, old |-> 0, then |-> "idle"]

\* The store object as the constructor leaves it.
NewObject ==
  /\ heap' = <<>> /\ freed' = {} /\ batch' = 0
  /\ batchSize' = 0 /\ batchBytes' = 0
  /\ local' = [t \in Threads |-> NoLocal]

Init ==
  /\ db = <<>>
  /\ heap = <<>> /\ freed = {} /\ batch = 0
  /\ batchSize = 0 /\ batchBytes = 0
  /\ log = <<>>
  /\ pc = [t \in Threads |-> "idle"]
  /\ local = [t \in Threads |-> NoLocal]
  /\ covers = [t \in Threads |-> 0]
  /\ acked = 0
  /\ phase = "open"

Goto(t, where) == pc' = [pc EXCEPT ![t] = where]

\* The threads that are about to make a mutation, for the bound on them.
Mutating == {t \in Threads : \/ pc[t] \in {"direct", "write", "decide", "add"}
                             \/ /\ pc[t] \in {"stop", "lock", "flush"}
                                /\ local[t].then \in {"write", "add"}}

-----------------------------------------------------------------------------
(***************************************************************************)
(* _batchMutation.  The counters are read first, the batch is tested       *)
(* without the mutex, and the counters are updated after it is released.   *)
(***************************************************************************)
BatchMutation(t, key, size, flush) ==
  /\ pc[t] = "idle" /\ phase = "open"
  /\ Len(log) + Cardinality(Mutating) < MaxWrites
  /\ local' = [local EXCEPT ![t] =
                 [key |-> key, size |-> size, futureSize |-> batchSize + 1,
                  futureBytes |-> batchBytes + size, old |-> 0, then |-> "idle"]]
  /\ Goto(t, IF flush \/ size >= MaxBatchSize THEN "direct" ELSE "decide")
  /\ UNCHANGED <<db, batchVars, freed, counters, log, history, phase>>

\* A plausible bug: a direct write overtakes the batch.
WriteAtOnce(t) ==
  /\ pc[t] = "direct"
  /\ Goto(t, "write")
  /\ local' = [local EXCEPT ![t].then = "write"]
  /\ UNCHANGED <<db, batchVars, freed, counters, log, history, phase>>

\* Flushed and large values go to LevelDB, after the batch.
TestDirect(t) ==
  /\ pc[t] = "direct"
  /\ Goto(t, IF batch # 0 THEN "stop" ELSE "write")
  /\ local' = [local EXCEPT ![t].then = "write"]
  /\ UNCHANGED <<db, batchVars, freed, counters, log, history, phase>>

WriteDirect(t) ==
  /\ pc[t] = "write"
  /\ log' = Append(log, local[t].key)
  /\ db' = Append(db, [key |-> local[t].key, number |-> Len(log) + 1])
  /\ Goto(t, "idle")
  /\ UNCHANGED <<batchVars, freed, counters, local, history, phase>>

Full(l) == l.futureSize >= MaxBatchSize \/ l.futureBytes >= MaxBatchBytes

TestFull(t) ==
  /\ pc[t] = "decide"
  /\ Goto(t, IF batch # 0 /\ Full(local[t]) THEN "stop" ELSE "add")
  /\ local' = [local EXCEPT ![t].then = "add"]
  /\ UNCHANGED <<db, batchVars, freed, counters, log, history, phase>>

\* Under _batchMutex.
AddToBatch(t) ==
  /\ pc[t] = "add"
  /\ log' = Append(log, local[t].key)
  /\ LET m == [key |-> local[t].key, number |-> Len(log) + 1]
     IN  IF batch = 0
         THEN heap' = Append(heap, <<m>>) /\ batch' = Len(heap) + 1
         ELSE heap' = [heap EXCEPT ![batch] = Append(@, m)] /\ UNCHANGED batch
  /\ Goto(t, "count")
  /\ UNCHANGED <<db, freed, counters, local, history, phase>>

\* A plausible bug: the counter goes the wrong way.
CountDown(t) ==
  /\ pc[t] = "count"
  /\ batchSize' = batchSize - 1
  /\ batchBytes' = batchBytes + local[t].size
  /\ Goto(t, "idle")
  /\ UNCHANGED <<db, batchVars, freed, log, local, history, phase>>

UpdateCounters(t) ==
  /\ pc[t] = "count"
  /\ batchSize' = batchSize + 1
  /\ batchBytes' = batchBytes + local[t].size
  /\ Goto(t, "idle")
  /\ UNCHANGED <<db, batchVars, freed, log, local, history, phase>>

-----------------------------------------------------------------------------
(***************************************************************************)
(* stopBatch: the pointer is read before the mutex is taken, tested and    *)
(* reset under it, and what was read is written and deleted after it.      *)
(***************************************************************************)
StopRead(t) ==
  /\ pc[t] = "stop"
  /\ local' = [local EXCEPT ![t].old = batch]
  /\ Goto(t, "lock")
  /\ UNCHANGED <<db, batchVars, freed, counters, log, history, phase>>

StopLock(t) ==
  /\ pc[t] = "lock"
  /\ IF batch = 0
     THEN Goto(t, local[t].then) /\ UNCHANGED <<batch, counters>>
     ELSE /\ batch' = 0 /\ batchSize' = 0 /\ batchBytes' = 0
          /\ Goto(t, "flush")
  /\ UNCHANGED <<db, heap, freed, log, local, history, phase>>

\* DB::Write of a batch; nullptr writes nothing.
Written(address) == db \o IF address = 0 THEN <<>> ELSE heap[address]

\* A plausible bug: the batch is deleted and not written.
StopDrop(t) ==
  /\ pc[t] = "flush"
  /\ UNCHANGED db
  /\ freed' = IF local[t].old = 0 THEN freed ELSE freed \cup {local[t].old}
  /\ Goto(t, local[t].then)
  /\ UNCHANGED <<batchVars, counters, log, local, history, phase>>

\* Reading a deleted batch finds its old contents or nothing.
StopWrite(t) ==
  /\ pc[t] = "flush"
  /\ LET old == local[t].old
     IN  /\ \/ db' = Written(old)
            \/ old \in freed /\ UNCHANGED db
         /\ freed' = IF old = 0 THEN freed ELSE freed \cup {old}
  /\ Goto(t, local[t].then)
  /\ UNCHANGED <<batchVars, counters, log, local, history, phase>>

\* writeBarrier and readBarrier are the same code.
Barrier(t) ==
  /\ pc[t] = "idle" /\ phase = "open"
  /\ Goto(t, "stop")
  /\ local' = [local EXCEPT ![t] = [NoLocal EXCEPT !.then = "return"]]
  /\ covers' = [covers EXCEPT ![t] = Len(log)]
  /\ UNCHANGED <<db, batchVars, freed, counters, log, acked, phase>>

\* The most recent number of mutations a barrier has reported as saved.
Acknowledged(t) ==
  /\ acked' = Max({acked, covers[t]})
  /\ covers' = [covers EXCEPT ![t] = 0]

BarrierReturn(t) ==
  /\ pc[t] = "return"
  /\ Acknowledged(t)
  /\ Goto(t, "idle")
  /\ UNCHANGED <<db, batchVars, freed, counters, log, local, phase>>

\* close: a write barrier, and LevelDB is closed.  LSMIOManager::close has
\* stopped the other callers before.
Close(t) ==
  /\ phase = "open"
  /\ \A s \in Threads : pc[s] = "idle"
  /\ phase' = "closing"
  /\ Goto(t, "stop")
  /\ local' = [local EXCEPT ![t] = [NoLocal EXCEPT !.then = "closing"]]
  /\ covers' = [covers EXCEPT ![t] = Len(log)]
  /\ UNCHANGED <<db, batchVars, freed, counters, log, acked>>

CloseDB(t) ==
  /\ pc[t] = "closing"
  /\ Acknowledged(t)
  /\ phase' = "closed"
  /\ Goto(t, "idle")
  /\ UNCHANGED <<db, batchVars, freed, counters, log, local>>

-----------------------------------------------------------------------------
DbCleanup == db' = <<>> /\ log' = <<>> /\ acked' = 0

\* The constructor; with overWrite it removes the database first.
Open(overWrite) ==
  /\ phase = "closed"
  /\ IF overWrite
     THEN DbCleanup
     ELSE UNCHANGED <<db, log, acked>>
  /\ NewObject
  /\ phase' = "open"
  /\ UNCHANGED <<pc, covers>>

\* The process ends at any point: the batch is gone, LevelDB's mutations are
\* the history from now on.
Crash ==
  /\ phase # "closed"
  /\ log' = [n \in DOMAIN db |-> db[n].key]
  /\ db' = [n \in DOMAIN db |-> [db[n] EXCEPT !.number = n]]
  /\ acked' = Len(db)
  /\ covers' = [t \in Threads |-> 0]
  /\ pc' = [t \in Threads |-> "idle"]
  /\ NewObject
  /\ phase' = "closed"

Next ==
  \/ \E t \in Threads :
       \/ \E k \in Keys, size \in Sizes \cup {0}, flush \in BOOLEAN : BatchMutation(t, k, size, flush)
       \/ TestDirect(t) \/ WriteDirect(t) \/ TestFull(t) \/ AddToBatch(t) \/ UpdateCounters(t)
       \/ StopRead(t) \/ StopLock(t) \/ StopWrite(t)
       \/ Barrier(t) \/ BarrierReturn(t) \/ Close(t) \/ CloseDB(t)
  \/ \E overWrite \in BOOLEAN : Open(overWrite)
  \/ Crash

Spec == Init /\ [][Next]_vars

-----------------------------------------------------------------------------
\* Type invariant of the batching store.
TypeOK ==
  /\ db \in Seq([key : Keys, number : 1 .. Len(log)])
  /\ heap \in Seq(Seq([key : Keys, number : 1 .. Len(log)]))
  /\ freed \subseteq DOMAIN heap /\ batch \in {0} \cup DOMAIN heap
  /\ batchSize \in Nat /\ batchBytes \in Nat
  /\ log \in Seq(Keys) /\ phase \in {"open", "closing", "closed"}
  /\ pc \in [Threads -> {"idle", "direct", "write", "decide", "add", "count", "stop", "lock",
                         "flush", "return", "closing"}]
  /\ local \in [Threads -> [key : Keys, size : Nat, futureSize : Nat, futureBytes : Nat,
                            old : {0} \cup DOMAIN heap,
                            then : {"idle", "return", "write", "add", "closing"}]]
  /\ covers \in [Threads -> 0 .. Len(log)] /\ acked \in 0 .. Len(log)

\* "Writes and ensures data is saved in the LSM database": when a barrier has
\* returned, a lookup finds every mutation that had reached the batch or the
\* database when the barrier was called, or a newer one of the same key: the
\* one written last is not older.
BarrierCovers ==
  \A n \in 1 .. acked :
    LET same == {i \in DOMAIN db : db[i].key = log[n]}
    IN  same # {} /\ db[Max(same)].number >= n

\* The batch stays below its limit although the counters are read and updated
\* outside the mutex: every other thread adds at most one mutation too many.
BatchBounded ==
  batch # 0 =>
    Len(heap[batch]) <= Max({1, MaxBatchSize - 1}) + Cardinality(Threads) - 1
=============================================================================
