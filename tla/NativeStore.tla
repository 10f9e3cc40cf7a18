------------------------------ MODULE NativeStore ------------------------------
(***************************************************************************)
(* LSMIOStoreNative: the active memtable, the queue of immutable memtables,*)
(* the background flush thread that turns them into L0 files, and the      *)
(* threads that call the store (in LSMIO the application's own thread and, *)
(* on an aggregating rank, the collective I/O server thread).              *)
(*                                                                         *)
(* A critical section under _state_mutex is one step.  The exception is    *)
(* the flush thread between the evaluation of its wait predicate and the   *)
(* wait itself: the mutex is held there, but close() stores _shutting_down *)
(* and notifies without taking it.  Condition variables are explicit: a    *)
(* thread in a wait leaves it when it is notified (or spuriously), and then*)
(* evaluates its predicate again under the mutex.                          *)
(***************************************************************************)
EXTENDS SSTable, FiniteSets

CONSTANTS
    Clients,        \* the threads that call the store
    Readers,        \* those of them that also read
    Keys,
    Deletes,        \* the kinds of mutation made: TRUE is a del, FALSE a put
    EntrySize,      \* EntrySize[k]: bytes of a record with key k
    MaxBytes,       \* _memtable_max_size_bytes
    MaxImmutable,   \* _max_immutable_memtables
    MaxWrites,      \* bound: writes in the history
    WriteFaults     \* whether writes to an L0 file may fail

ASSUME SizeAssumption == EntrySize \in [Keys -> Nat] /\ MaxBytes \in Nat
ASSUME LimitAssumption == MaxImmutable \in Nat \ {0} /\ MaxWrites \in Nat
ASSUME ClientAssumption == IsFiniteSet(Clients) /\ Readers \subseteq Clients
ASSUME MutationAssumption == Deletes \subseteq BOOLEAN
ASSUME FaultAssumption == WriteFaults \in BOOLEAN

VARIABLES
    up,               \* the store object exists
    active,           \* _active_memtable: <<m>>, or <<>> for a null pointer
    immutables,       \* _immutable_memtables, oldest first
    inflight,         \* memtable_to_flush of the flushing thread: <<m>> or <<>>
    tables,           \* the L0 index list from _head, newest first
    shuttingDown,     \* _shutting_down
    flushInProgress,  \* _flush_in_progress
    worker,           \* where the flush thread is
    pc,               \* where each client is
    call,             \* what each client's current call holds
    log,              \* history: every write made, in order
    flushed,          \* history: how many of them were handed to an L0 file
    synced,           \* history: how many a completed writeBarrier, a close or a
                      \* recovery covers
    gone              \* history: those no lookup can return any more

storeVars == <<active, immutables, inflight, tables>>
histVars == <<log, flushed, synced, gone>>
vars == <<up, active, immutables, inflight, tables, shuttingDown, flushInProgress,
          worker, pc, call, log, flushed, synced, gone>>

--------------------------------------------------------------------------------
Record == [key : Keys, del : BOOLEAN, seq : Nat]
MemtableType == [base : Nat, data : Seq(Record), bytes : Nat]
TableType ==
    {t \in [base : Nat, data : Seq(Record), good : Nat, torn : BOOLEAN] :
        t.good + (IF t.torn THEN 1 ELSE 0) <= Len(t.data)}

(* keys: the keys a call is about; del: it is a delete; mark and sync: how *)
(* many writes existed, and how many were covered by a barrier, when the   *)
(* call began; found: the records it has found.                            *)
CallType == [keys : SUBSET Keys, del : BOOLEAN, mark : Nat, sync : Nat,
             found : SUBSET Record]
NoCall == [keys |-> {}, del |-> FALSE, mark |-> 0, sync |-> 0, found |-> {}]
NewCall(K, d) ==
    [keys |-> K, del |-> d, mark |-> Len(log), sync |-> synced, found |-> {}]

WorkerPC == {"none", "lock", "presleep", "asleep", "popped", "flush", "clear",
             "notify", "exited"}
ClientPC == {"idle", "putWait", "putWoken", "barWait", "barWoken", "getSST", "got",
             "scanSST", "scanned", "closeNotify", "closeJoin", "closeDrain", "closeFlush"}

Init ==
    /\ up = FALSE
    /\ active = <<>> /\ immutables = <<>> /\ inflight = <<>> /\ tables = <<>>
    /\ shuttingDown = FALSE /\ flushInProgress = FALSE
    /\ worker = "none"
    /\ pc = [c \in Clients |-> "idle"]
    /\ call = [c \in Clients |-> NoCall]
    /\ log = <<>> /\ flushed = 0 /\ synced = 0 /\ gone = {}

--------------------------------------------------------------------------------
(* Only the flush thread about to wait holds the mutex between two steps.  *)
MutexFree == worker # "presleep"

(* _flush_cv has one waiter, so notify_one wakes it if it waits.           *)
NotifyFlush == worker' = IF worker = "asleep" THEN "lock" ELSE worker

(* notify_all on a condition variable whose waiters are at pc wait.        *)
NotifyAll(wait, woken) ==
    pc' = [c \in Clients |-> IF pc[c] = wait THEN woken ELSE pc[c]]

Goto(c, where) == pc' = [pc EXCEPT ![c] = where]
Return(c) == Goto(c, "idle") /\ call' = [call EXCEPT ![c] = NoCall]

(* A client calls the store while it is open.  close() is called last:     *)
(* LSMIOManager::close stops the server thread before it closes the store. *)
MayCall(c) == up /\ ~shuttingDown /\ pc[c] = "idle" /\ MutexFree

--------------------------------------------------------------------------------
(* LSMIOStoreNative::_batchMutation                                        *)
NeedsRotation(k) ==
    /\ active[1].bytes + EntrySize[k] > MaxBytes
    /\ active[1].bytes > 0

Write(m, k, d) ==
    LET rec == [key |-> k, del |-> d, seq |-> Len(log) + 1]
    IN  /\ active' = <<MemAdd(m, rec, EntrySize[k])>>
        /\ log' = Append(log, rec)

(* Mutant: the flush thread is not notified.                               *)
RotateWithoutNotify(k, d) ==
    /\ immutables' = Append(immutables, active[1])
    /\ Write(EmptyMemtable(Len(log)), k, d)
    /\ UNCHANGED worker

RotateAndWrite(k, d) ==
    /\ immutables' = Append(immutables, active[1])
    /\ Write(EmptyMemtable(Len(log)), k, d)
    /\ NotifyFlush

(* The bound on the history counts the writes that wait for room.          *)
MayWrite ==
    Len(log) + Cardinality({c \in Clients : pc[c] \in {"putWait", "putWoken"}}) < MaxWrites

Put(c, k, d) ==
    /\ MayCall(c)
    /\ MayWrite
    /\ ~NeedsRotation(k)
    /\ Write(active[1], k, d)
    /\ UNCHANGED <<up, immutables, inflight, tables, shuttingDown, flushInProgress,
                   worker, pc, call, flushed, synced, gone>>

PutRotate(c, k, d) ==
    /\ MayCall(c)
    /\ MayWrite
    /\ NeedsRotation(k)
    /\ Len(immutables) < MaxImmutable
    /\ RotateAndWrite(k, d)
    /\ UNCHANGED <<up, inflight, tables, shuttingDown, flushInProgress, pc, call,
                   flushed, synced, gone>>

PutBlock(c, k, d) ==
    /\ MayCall(c)
    /\ MayWrite
    /\ NeedsRotation(k)
    /\ Len(immutables) >= MaxImmutable
    /\ Goto(c, "putWait")
    /\ call' = [call EXCEPT ![c] = NewCall({k}, d)]
    /\ UNCHANGED <<up, storeVars, shuttingDown, flushInProgress, worker, histVars>>

(* Mutant: a wake-up is taken for room in the queue.                       *)
PutResumeWithoutTest(c) ==
    /\ pc[c] = "putWoken" /\ MutexFree
    /\ \E k \in call[c].keys : RotateAndWrite(k, call[c].del)
    /\ Return(c)
    /\ UNCHANGED <<up, inflight, tables, shuttingDown, flushInProgress, flushed, synced,
                   gone>>

(* The waiter has been notified: it tests its predicate again, and rotates *)
(* whatever memtable is active by now, without testing its size again.     *)
PutResume(c) ==
    /\ pc[c] = "putWoken" /\ MutexFree
    /\ \/ /\ Len(immutables) < MaxImmutable
          /\ \E k \in call[c].keys : RotateAndWrite(k, call[c].del)
          /\ Return(c)
       \/ /\ Len(immutables) >= MaxImmutable
          /\ Goto(c, "putWait")
          /\ UNCHANGED <<active, immutables, worker, call, log>>
    /\ UNCHANGED <<up, inflight, tables, shuttingDown, flushInProgress, flushed, synced,
                   gone>>

--------------------------------------------------------------------------------
(* Mutant: the memtable being flushed is forgotten.                        *)
QueueEmpty == immutables = <<>>

(* LSMIOStoreNative::writeBarrier (and stopBatch, which only calls it).    *)
Drained == immutables = <<>> /\ ~flushInProgress

(* Mutant: the barrier waits for the queue and leaves the active memtable. *)
BarrierWithoutRotate(c) ==
    /\ MayCall(c)
    /\ active[1].data # <<>>
    /\ Goto(c, "barWait")
    /\ call' = [call EXCEPT ![c] = NewCall({}, FALSE)]
    /\ UNCHANGED <<up, storeVars, shuttingDown, flushInProgress, worker, histVars>>

BarrierRotate(c) ==
    /\ MayCall(c)
    /\ active[1].data # <<>>
    /\ immutables' = Append(immutables, active[1])
    /\ active' = <<EmptyMemtable(Len(log))>>
    /\ NotifyFlush
    /\ Goto(c, "barWait")
    /\ call' = [call EXCEPT ![c] = NewCall({}, FALSE)]
    /\ UNCHANGED <<up, inflight, tables, shuttingDown, flushInProgress, histVars>>

BarrierWait(c) ==
    /\ MayCall(c)
    /\ active[1].data = <<>> /\ ~Drained
    /\ Goto(c, "barWait")
    /\ call' = [call EXCEPT ![c] = NewCall({}, FALSE)]
    /\ UNCHANGED <<up, storeVars, shuttingDown, flushInProgress, worker, histVars>>

BarrierReturn(c) ==
    /\ MayCall(c)
    /\ active[1].data = <<>> /\ Drained
    /\ synced' = Len(log)
    /\ UNCHANGED <<up, storeVars, shuttingDown, flushInProgress, worker, pc, call, log,
                   flushed, gone>>

(* Mutant: a wake-up is taken for the end of the flushes.                  *)
BarrierResumeWithoutTest(c) ==
    /\ pc[c] = "barWoken" /\ MutexFree
    /\ synced' = IF call[c].mark > synced THEN call[c].mark ELSE synced
    /\ Return(c)
    /\ UNCHANGED <<up, storeVars, shuttingDown, flushInProgress, worker, log, flushed, gone>>

BarrierResume(c) ==
    /\ pc[c] = "barWoken" /\ MutexFree
    /\ \/ /\ Drained
          /\ synced' = IF call[c].mark > synced THEN call[c].mark ELSE synced
          /\ Return(c)
       \/ /\ ~Drained
          /\ Goto(c, "barWait")
          /\ UNCHANGED <<call, synced>>
    /\ UNCHANGED <<up, storeVars, shuttingDown, flushInProgress, worker, log, flushed, gone>>

--------------------------------------------------------------------------------
(* The memtables in the order get consults them: the active one, then the  *)
(* immutable ones from the newest to the oldest.                           *)
NewestFirst ==
    [i \in 1 .. (Len(immutables) + 1) |->
        IF i = 1 THEN active[1] ELSE immutables[Len(immutables) + 2 - i]]

MemGet(k) == FirstHit([i \in DOMAIN NewestFirst |-> MemHit(NewestFirst[i], k)])

(* getPrefix walks the memtables in the same order, but Memtable::scan     *)
(* overwrites what is already in the result: the last one walked decides.  *)
MemScan(k) ==
    LET n == Len(NewestFirst)
    IN  FirstHit([i \in 1 .. n |-> MemHit(NewestFirst[n + 1 - i], k)])

(* SSTableManager::get and ::scan: newest file first, the next one when    *)
(* the key is not there or cannot be read.                                 *)
TablesGet(k) == FirstHit([i \in DOMAIN tables |-> TableHit(tables[i], k)])

(* LSMIOStoreNative::get, under the mutex                                  *)
Get(c, k) ==
    /\ MayCall(c) /\ c \in Readers
    /\ call' = [call EXCEPT ![c] = [NewCall({k}, FALSE) EXCEPT !.found = MemGet(k)]]
    /\ Goto(c, IF MemGet(k) = {} THEN "getSST" ELSE "got")
    /\ UNCHANGED <<up, storeVars, shuttingDown, flushInProgress, worker, histVars>>

(* The same call after the mutex was released: it walks the list of files  *)
(* from the head it loads now.                                             *)
GetSST(c) ==
    /\ pc[c] = "getSST"
    /\ call' = [call EXCEPT ![c].found = UNION {TablesGet(k) : k \in call[c].keys}]
    /\ Goto(c, "got")
    /\ UNCHANGED <<up, storeVars, shuttingDown, flushInProgress, worker, histVars>>

(* LSMIOStoreNative::getPrefix; K is the set of keys with the prefix.      *)
GetPrefix(c, K) ==
    /\ MayCall(c) /\ c \in Readers
    /\ call' = [call EXCEPT ![c] =
                  [NewCall(K, FALSE) EXCEPT !.found = UNION {MemScan(k) : k \in K}]]
    /\ Goto(c, "scanSST")
    /\ UNCHANGED <<up, storeVars, shuttingDown, flushInProgress, worker, histVars>>

(* Keys that are neither in the result nor deleted so far are looked up.   *)
ScanSST(c) ==
    /\ pc[c] = "scanSST"
    /\ LET todo == {k \in call[c].keys : \A r \in call[c].found : r.key # k}
       IN  call' = [call EXCEPT ![c].found = @ \union UNION {TablesGet(k) : k \in todo}]
    /\ Goto(c, "scanned")
    /\ UNCHANGED <<up, storeVars, shuttingDown, flushInProgress, worker, histVars>>

(* The caller takes the result: a tombstone found is "no such key".        *)
ReadReturn(c) ==
    /\ pc[c] \in {"got", "scanned"}
    /\ Return(c)
    /\ UNCHANGED <<up, storeVars, shuttingDown, flushInProgress, worker, histVars>>

--------------------------------------------------------------------------------
(* Mutant: the new file goes to the end of the list.                       *)
FlushAppends(m) ==
    /\ inflight' = <<>>
    /\ flushed' = LastWrite(m)
    /\ tables' = IF m.data = <<>> THEN tables
                 ELSE Append(tables, FlushedTable(m, Len(m.data), FALSE))
    /\ UNCHANGED gone

(* Mutant: the record at which the writing failed is counted as written.   *)
FlushCountsFailed(m) ==
    /\ inflight' = <<>>
    /\ flushed' = LastWrite(m)
    /\ \/ m.data = <<>> /\ UNCHANGED <<tables, gone>>
       \/ /\ m.data # <<>>
          /\ tables' = <<FlushedTable(m, Len(m.data), FALSE)>> \o tables
          /\ UNCHANGED gone
       \/ /\ WriteFaults
          /\ \E good \in 1 .. Len(m.data), torn \in BOOLEAN :
                /\ tables' = <<FlushedTable(m, good, torn)>> \o tables
                /\ gone' = gone \union Shadowed(FlushedTable(m, good, torn))

(* FlushMemtableToL0.  A flush that fails drops the memtable: the stream's *)
(* state is not checked and flushMemtable's result is ignored.             *)
FlushMemtableToL0(m) ==
    /\ inflight' = <<>>
    /\ flushed' = LastWrite(m)
    /\ \/ m.data = <<>> /\ UNCHANGED <<tables, gone>>
       \/ /\ m.data # <<>>
          /\ tables' = <<FlushedTable(m, Len(m.data), FALSE)>> \o tables
          /\ UNCHANGED gone
       \/ /\ WriteFaults
          /\ \E good \in 0 .. (Len(m.data) - 1), torn \in BOOLEAN :
                /\ tables' = <<FlushedTable(m, good, torn)>> \o tables
                /\ gone' = gone \union Shadowed(FlushedTable(m, good, torn))

(* Mutant: the newest memtable is flushed first.                           *)
WorkerPopsBack ==
    /\ worker = "lock"
    /\ immutables # <<>>
    /\ inflight' = <<immutables[Len(immutables)]>>
    /\ immutables' = SubSeq(immutables, 1, Len(immutables) - 1)
    /\ flushInProgress' = TRUE
    /\ worker' = "popped"
    /\ UNCHANGED <<up, active, tables, shuttingDown, pc, call, histVars>>

(* FlushWorkLoop, one action per stretch between two points where another  *)
(* thread can act.                                                         *)
WorkerPop ==
    /\ worker = "lock"
    /\ immutables # <<>>
    /\ inflight' = <<Head(immutables)>>
    /\ immutables' = Tail(immutables)
    /\ flushInProgress' = TRUE
    /\ worker' = "popped"
    /\ UNCHANGED <<up, active, tables, shuttingDown, pc, call, histVars>>

WorkerExit ==
    /\ worker = "lock"
    /\ immutables = <<>> /\ shuttingDown
    /\ worker' = "exited"
    /\ UNCHANGED <<up, storeVars, shuttingDown, flushInProgress, pc, call, histVars>>

WorkerFindsNothing ==
    /\ worker = "lock"
    /\ immutables = <<>> /\ ~shuttingDown
    /\ worker' = "presleep"
    /\ UNCHANGED <<up, storeVars, shuttingDown, flushInProgress, pc, call, histVars>>

WorkerSleep ==
    /\ worker = "presleep"
    /\ worker' = "asleep"
    /\ UNCHANGED <<up, storeVars, shuttingDown, flushInProgress, pc, call, histVars>>

(* Mutants: the writers, or the threads in writeBarrier, are not notified. *)
WorkerForgetsWriters ==
    /\ worker = "popped"
    /\ worker' = "flush"
    /\ UNCHANGED <<up, storeVars, shuttingDown, flushInProgress, pc, call, histVars>>

WorkerForgetsBarrier ==
    /\ worker = "notify"
    /\ worker' = "lock"
    /\ UNCHANGED <<up, storeVars, shuttingDown, flushInProgress, pc, call, histVars>>

WorkerNotifyBackpressure ==
    /\ worker = "popped"
    /\ NotifyAll("putWait", "putWoken")
    /\ worker' = "flush"
    /\ UNCHANGED <<up, storeVars, shuttingDown, flushInProgress, call, histVars>>

WorkerFlush ==
    /\ worker = "flush"
    /\ FlushMemtableToL0(inflight[1])
    /\ worker' = "clear"
    /\ UNCHANGED <<up, active, immutables, shuttingDown, flushInProgress, pc, call, log,
                   synced>>

WorkerClear ==
    /\ worker = "clear"
    /\ flushInProgress' = FALSE
    /\ worker' = "notify"
    /\ UNCHANGED <<up, storeVars, shuttingDown, pc, call, histVars>>

WorkerNotifyBarrier ==
    /\ worker = "notify"
    /\ NotifyAll("barWait", "barWoken")
    /\ worker' = "lock"
    /\ UNCHANGED <<up, storeVars, shuttingDown, flushInProgress, call, histVars>>

Worker ==
    \/ WorkerPop \/ WorkerExit \/ WorkerFindsNothing \/ WorkerSleep
    \/ WorkerNotifyBackpressure \/ WorkerFlush \/ WorkerClear \/ WorkerNotifyBarrier

(* A wait may end without a notification.                                  *)
SpuriousWakeup ==
    /\ \/ /\ worker = "asleep" /\ worker' = "lock"
          /\ UNCHANGED pc
       \/ /\ \E c \in Clients : \/ pc[c] = "putWait" /\ Goto(c, "putWoken")
                                \/ pc[c] = "barWait" /\ Goto(c, "barWoken")
          /\ UNCHANGED worker
    /\ UNCHANGED <<up, storeVars, shuttingDown, flushInProgress, call, histVars>>

--------------------------------------------------------------------------------
(* LSMIOStoreNative::close.  The flag is stored without the mutex.         *)
Close(c) ==
    /\ up /\ ~shuttingDown
    /\ \A other \in Clients : pc[other] = "idle"
    /\ shuttingDown' = TRUE
    /\ Goto(c, "closeNotify")
    /\ UNCHANGED <<up, storeVars, flushInProgress, worker, call, histVars>>

CloseNotify(c) ==
    /\ pc[c] = "closeNotify"
    /\ NotifyFlush
    /\ Goto(c, "closeJoin")
    /\ UNCHANGED <<up, storeVars, shuttingDown, flushInProgress, call, histVars>>

CloseJoin(c) ==
    /\ pc[c] = "closeJoin"
    /\ worker = "exited"
    /\ IF active[1].data # <<>>
       THEN immutables' = Append(immutables, active[1]) /\ active' = <<>>
       ELSE UNCHANGED <<immutables, active>>
    /\ Goto(c, "closeDrain")
    /\ UNCHANGED <<up, inflight, tables, shuttingDown, flushInProgress, worker, call,
                   histVars>>

CloseDrain(c) ==
    /\ pc[c] = "closeDrain"
    /\ immutables # <<>>
    /\ inflight' = <<Head(immutables)>>
    /\ immutables' = Tail(immutables)
    /\ Goto(c, "closeFlush")
    /\ UNCHANGED <<up, active, tables, shuttingDown, flushInProgress, worker, call, histVars>>

CloseFlush(c) ==
    /\ pc[c] = "closeFlush"
    /\ FlushMemtableToL0(inflight[1])
    /\ Goto(c, "closeDrain")
    /\ UNCHANGED <<up, active, immutables, shuttingDown, flushInProgress, worker, call, log,
                   synced>>

(* close() returns and the object is destroyed; a second close(), from the *)
(* destructor, returns at once.  What it leaves is on disk.                *)
CloseReturn(c) ==
    /\ pc[c] = "closeDrain"
    /\ immutables = <<>>
    /\ up' = FALSE /\ shuttingDown' = FALSE /\ worker' = "none" /\ active' = <<>>
    /\ Return(c)
    /\ synced' = Len(log)
    /\ UNCHANGED <<immutables, inflight, tables, flushInProgress, log, flushed, gone>>

--------------------------------------------------------------------------------
(* The constructor on the directory the last store left, SSTableManager's  *)
(* recovery included.                                                      *)
Open ==
    /\ ~up
    /\ up' = TRUE
    /\ tables' = [i \in DOMAIN tables |-> RecoveredTable(tables[i])]
    /\ active' = <<EmptyMemtable(Len(log))>>
    /\ worker' = "lock"
    /\ UNCHANGED <<immutables, inflight, shuttingDown, flushInProgress, pc, call, histVars>>

(* remove_all, with which the constructor begins when overWrite is set (the*)
(* process may die before it goes on); dbCleanup does the same.            *)
RemoveAll ==
    /\ ~up
    /\ tables # <<>>
    /\ tables' = <<>>
    /\ log' = <<>> /\ flushed' = 0 /\ synced' = 0 /\ gone' = {}
    /\ UNCHANGED <<up, active, immutables, inflight, shuttingDown, flushInProgress, worker,
                   pc, call>>

(* The process dies.  Files written before stay; the one being written     *)
(* keeps some of its records; the memtables are lost.                      *)
Writing == worker = "flush" \/ \E c \in Clients : pc[c] = "closeFlush"

LoseMemory ==
    /\ up' = FALSE /\ shuttingDown' = FALSE /\ flushInProgress' = FALSE
    /\ active' = <<>> /\ immutables' = <<>> /\ inflight' = <<>>
    /\ worker' = "none"
    /\ pc' = [c \in Clients |-> "idle"]
    /\ call' = [c \in Clients |-> NoCall]

Crash ==
    /\ up
    /\ LoseMemory
    /\ log' = SubSeq(log, 1, flushed)
    /\ synced' = flushed
    /\ UNCHANGED <<tables, flushed, gone>>

CrashInFlush(n, torn) ==
    LET t == CrashedTable(inflight[1], n, torn)
    IN  /\ up /\ Writing
        /\ n <= Len(inflight[1].data) /\ (torn => n < Len(inflight[1].data))
        /\ t.data # <<>>
        /\ LoseMemory
        /\ tables' = <<t>> \o tables
        /\ gone' = gone \union Shadowed(t)
        /\ flushed' = LastWrite(t)
        /\ log' = SubSeq(log, 1, LastWrite(t))
        /\ synced' = LastWrite(t)

--------------------------------------------------------------------------------
(* A call in progress goes on.                                             *)
Continue(c) ==
    \/ PutResume(c) \/ BarrierResume(c)
    \/ GetSST(c) \/ ScanSST(c) \/ ReadReturn(c)
    \/ CloseNotify(c) \/ CloseJoin(c) \/ CloseDrain(c) \/ CloseFlush(c) \/ CloseReturn(c)

Call(c) ==
    \/ \E k \in Keys, d \in Deletes : Put(c, k, d) \/ PutRotate(c, k, d) \/ PutBlock(c, k, d)
    \/ BarrierRotate(c) \/ BarrierWait(c) \/ BarrierReturn(c)
    \/ \E k \in Keys : Get(c, k)
    \/ GetPrefix(c, Keys)
    \/ Close(c)

Next ==
    \/ \E c \in Clients : Call(c) \/ Continue(c)
    \/ Worker
    \/ SpuriousWakeup
    \/ Open \/ RemoveAll
    \/ Crash \/ \E n \in 0 .. MaxWrites, torn \in BOOLEAN : CrashInFlush(n, torn)

Spec == Init /\ [][Next]_vars

(* Each thread goes on whenever it can; a thread that keeps asking for the *)
(* mutex eventually gets it.  Nobody has to make a call, crash or reopen.  *)
Fairness ==
    /\ WF_vars(Worker)
    /\ \A c \in Clients : SF_vars(Continue(c))

FairSpec == Spec /\ Fairness

--------------------------------------------------------------------------------
(* Every variable holds a value of its type.                               *)
TypeOK ==
    /\ up \in BOOLEAN /\ shuttingDown \in BOOLEAN /\ flushInProgress \in BOOLEAN
    /\ active \in Seq(MemtableType) /\ Len(active) <= 1
    /\ inflight \in Seq(MemtableType) /\ Len(inflight) <= 1
    /\ immutables \in Seq(MemtableType)
    /\ tables \in Seq(TableType)
    /\ worker \in WorkerPC
    /\ pc \in [Clients -> ClientPC]
    /\ call \in [Clients -> CallType]
    /\ log \in Seq(Record)
    /\ flushed \in Nat /\ synced \in Nat
    /\ gone \subseteq Nat

(* No write is lost, duplicated or overtaken between _batchMutation and    *)
(* the L0 files: while the store is open, the memtable being flushed, the  *)
(* immutable ones and the active one hold, one after the other, exactly    *)
(* the writes not yet flushed.                                             *)
AfterInflight == IF inflight = <<>> THEN flushed ELSE LastWrite(inflight[1])
AfterImmutables ==
    IF immutables = <<>> THEN AfterInflight ELSE LastWrite(immutables[Len(immutables)])

Holds(m, history) ==
    /\ LastWrite(m) <= Len(history)
    /\ \A i \in DOMAIN m.data : m.data[i] = history[m.base + i]

WritesInOrder ==
    up =>
    /\ inflight # <<>> => inflight[1].base = flushed /\ Holds(inflight[1], log)
    /\ immutables # <<>> => immutables[1].base = AfterInflight
    /\ \A i \in DOMAIN immutables :
          /\ Holds(immutables[i], log)
          /\ i > 1 => immutables[i].base = LastWrite(immutables[i - 1])
    /\ active # <<>> => active[1].base = AfterImmutables /\ Holds(active[1], log)
    /\ Len(log) = IF active = <<>> THEN AfterImmutables ELSE LastWrite(active[1])

(* What writeBarrier (or close) promised is in the L0 files, and a lookup  *)
(* in the files alone, as after a restart, finds that write or a newer one *)
(* with the same key.                                                      *)
BarrieredOnDisk ==
    /\ synced <= flushed
    /\ \A i \in (1 .. synced) \ gone :
          \E rec \in TablesGet(log[i].key) : rec.seq >= i

(* No step, a crash at any point included, takes back or makes unreadable  *)
(* a write that a completed writeBarrier covers; only deleting the         *)
(* directory does.                                                         *)
BarrieredSurvives ==
    [][\/ RemoveAll
       \/ \A i \in 1 .. synced : /\ i \in DOMAIN log' /\ log'[i] = log[i]
                                 /\ i \in gone' => i \in gone]_vars

(* writeBarrier and close push a memtable without the backpressure test of *)
(* _batchMutation: the queue exceeds its limit by at most one memtable per *)
(* thread waiting in writeBarrier, and not at all in close().              *)
PutWaits(c) == pc[c] \in {"putWait", "putWoken"}
BarrierWaits(c) == pc[c] \in {"barWait", "barWoken"}
BarrierClients == {c \in Clients : BarrierWaits(c)}

ImmutablesBounded == Len(immutables) <= MaxImmutable + Cardinality(BarrierClients)

(* No wake-up of the three condition variables is lost while the store is  *)
(* not closing: a thread sleeps only while its predicate is false or its   *)
(* notification is about to be sent.                                       *)
NoLostWakeup ==
    /\ worker = "asleep" => immutables = <<>>
    /\ \A c \in Clients :
          /\ pc[c] = "putWait" => Len(immutables) >= MaxImmutable \/ worker = "popped"
          /\ pc[c] = "barWait" => ~Drained \/ worker = "notify"

(* get never answers with a version older than the one the last completed  *)
(* writeBarrier covered when the call began, although it looks into the    *)
(* memtables and into the files at two different moments.                  *)
GetNotBehindBarrier ==
    \A c \in Clients : pc[c] = "got" =>
        \A i \in (1 .. call[c].sync) \ gone :
            log[i].key \in call[c].keys =>
                \E rec \in call[c].found : rec.key = log[i].key /\ rec.seq >= i

(* getPrefix returns exactly the last version of every key that was not    *)
(* written since the barrier.                                              *)
ScanExactWhenQuiet ==
    \A c \in Clients : pc[c] = "scanned" =>
        \A i \in (1 .. call[c].sync) \ gone :
            (/\ log[i].key \in call[c].keys
             /\ \A j \in DOMAIN log : j > i => log[j].key # log[i].key)
            => {rec \in call[c].found : rec.key = log[i].key} = {log[i]}

(* The store implements the abstract durable log.                          *)
Abstract == INSTANCE DurableLog WITH Writes <- Record, durable <- flushed, acked <- synced

ImplementsDurableLog == Abstract!Spec

(* Whatever the callers do, every write in the queue of immutable memtables*)
(* or with the flush thread is eventually handed to an L0 file, unless the *)
(* process dies first.                                                     *)
QueuedFlushed ==
    \A n \in 1 .. MaxWrites : (up /\ n <= AfterImmutables) ~> (flushed >= n \/ ~up)

(* Only writes that never stop hold a thread up for ever.  writeBarrier    *)
(* waits for a moment at which the queue is empty and nothing is being     *)
(* flushed, and other threads can keep that moment away by writing; once   *)
(* the history no longer changes, every writeBarrier returns.              *)
BarrierReturnsOrWritesGoOn ==
    \A c \in Clients : []<>(~BarrierWaits(c)) \/ []<><<log' # log>>_log

(* A put or del held back by backpressure can find its place taken each    *)
(* time it is woken, but only by another thread's write that went through. *)
PutReturnsOrWritesGoOn ==
    \A c \in Clients : []<>(~PutWaits(c)) \/ []<><<log' # log>>_log

--------------------------------------------------------------------------------
(* What tests and comments of the repository say of the store, and the     *)
(* code does not do.                                                       *)

(* "Wake up the flush thread": close() wakes it, joins it and returns.     *)
CloseReturns == \A c \in Clients : pc[c] = "closeNotify" ~> pc[c] = "idle"

(* A get sees every write that completed before it began and that no crash *)
(* has made unreadable.                                                    *)
ReadYourWrites ==
    \A c \in Clients : pc[c] = "got" =>
        \A i \in (1 .. call[c].mark) \ gone :
            log[i].key \in call[c].keys =>
                \E rec \in call[c].found : rec.key = log[i].key /\ rec.seq >= i
================================================================================
