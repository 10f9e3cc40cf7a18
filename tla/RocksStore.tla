----------------------------- MODULE RocksStore -----------------------------
(***************************************************************************)
(* LSMIOStoreRDB: every mutation is a call of RocksDB, which collects them *)
(* in memory and writes them to its log first when enableWAL is set.       *)
(* Batches, the flush argument and the read barrier have no effect; the    *)
(* write barrier flushes what RocksDB has in memory.                       *)
(*                                                                         *)
(* RocksDB is external: the sequence of the mutations made and the prefix  *)
(* of it that is in its files.  It may write its memory at any time.       *)
(***************************************************************************)
EXTENDS Integers, Sequences, FiniteSetsExt

CONSTANTS Threads, Keys, MaxWrites

VARIABLES
    enableWAL,  \* gConfigLSMIO.enableWAL
    log,        \* the mutations made, by key
    db,         \* the ones in RocksDB's files
    pc,         \* where a thread is
    covers,     \* history: the mutations a thread's barrier has to cover
    acked,      \* history: the mutations a barrier has reported as saved
    phase       \* of the store object: open, closing or closed

Mutation(n, mutations) == [key |-> mutations[n], number |-> n]

\* RocksDB's files hold the first n mutations.
Saved(n, mutations) == [i \in 1 .. n |-> Mutation(i, mutations)]

RocksInit ==
    /\ enableWAL \in BOOLEAN
    /\ log = <<>> /\ db = <<>>
    /\ pc = [t \in Threads |-> "idle"]
    /\ covers = [t \in Threads |-> 0]
    /\ acked = 0
    /\ phase = "open"

\* _batchMutation.
RocksMutation(t, key) ==
    /\ pc[t] = "idle" /\ phase = "open" /\ Len(log) < MaxWrites
    /\ log' = Append(log, key)
    /\ db' = IF enableWAL THEN Saved(Len(log'), log') ELSE db
    /\ UNCHANGED <<enableWAL, pc, covers, acked, phase>>

\* A write buffer is full: RocksDB writes it, the oldest one first.
RocksWritesBuffer ==
    /\ phase # "closed"
    /\ \E n \in Len(db) + 1 .. Len(log) : db' = Saved(n, log)
    /\ UNCHANGED <<enableWAL, log, pc, covers, acked, phase>>

RocksBarrier(t) ==
    /\ pc[t] = "idle" /\ phase = "open"
    /\ covers' = [covers EXCEPT ![t] = Len(log)]
    /\ pc' = [pc EXCEPT ![t] = "flush"]
    /\ UNCHANGED <<enableWAL, log, db, acked, phase>>

\* DB::Flush returns when the memory of the time of the call is in files.
RocksFlush(t) ==
    /\ pc[t] = "flush"
    /\ db' = Saved(Max({Len(db), covers[t]}), log)
    /\ pc' = [pc EXCEPT ![t] = IF phase = "closing" THEN "closing" ELSE "return"]
    /\ UNCHANGED <<enableWAL, log, covers, acked, phase>>

RocksBarrierReturn(t) ==
    /\ pc[t] = "return"
    /\ acked' = Max({acked, covers[t]})
    /\ covers' = [covers EXCEPT ![t] = 0]
    /\ pc' = [pc EXCEPT ![t] = "idle"]
    /\ UNCHANGED <<enableWAL, log, db, phase>>

\* close: a write barrier, and RocksDB is closed.  LSMIOManager::close has
\* stopped the other callers before.
RocksClose(t) ==
    /\ phase = "open" /\ \A s \in Threads : pc[s] = "idle"
    /\ phase' = "closing"
    /\ covers' = [covers EXCEPT ![t] = Len(log)]
    /\ pc' = [pc EXCEPT ![t] = "flush"]
    /\ UNCHANGED <<enableWAL, log, db, acked>>

RocksCloseDB(t) ==
    /\ pc[t] = "closing"
    /\ phase' = "closed"
    /\ acked' = Max({acked, covers[t]})
    /\ covers' = [covers EXCEPT ![t] = 0]
    /\ pc' = [pc EXCEPT ![t] = "idle"]
    /\ UNCHANGED <<enableWAL, log, db>>

DbCleanup == db' = <<>> /\ log' = <<>> /\ acked' = 0

\* The constructor; with overWrite it removes the database first.
\* A new process reads its configuration anew.
RocksOpen(overWrite) ==
    /\ phase = "closed"
    /\ phase' = "open"
    /\ enableWAL' \in BOOLEAN
    /\ IF overWrite
       THEN DbCleanup
       ELSE UNCHANGED <<db, log, acked>>
    /\ UNCHANGED <<pc, covers>>

\* The process ends: what RocksDB had in memory is gone.
RocksCrash ==
    /\ phase # "closed"
    /\ phase' = "closed"
    /\ log' = SubSeq(log, 1, Len(db))
    /\ acked' = Len(db)
    /\ pc' = [t \in Threads |-> "idle"]
    /\ covers' = [t \in Threads |-> 0]
    /\ UNCHANGED <<enableWAL, db>>

RocksNext ==
    \/ \E t \in Threads :
         \/ \E key \in Keys : RocksMutation(t, key)
         \/ RocksBarrier(t) \/ RocksFlush(t) \/ RocksBarrierReturn(t)
         \/ RocksClose(t) \/ RocksCloseDB(t)
    \/ \E overWrite \in BOOLEAN : RocksOpen(overWrite)
    \/ RocksWritesBuffer \/ RocksCrash
=============================================================================
