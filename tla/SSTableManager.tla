----------------------------- MODULE SSTableManager -----------------------------
(***************************************************************************)
(* SSTableManager with its FilePool and its FileCloser: how memtables      *)
(* become L0 files, and how the list of files is rebuilt by recoverState.  *)
(* NativeStore takes the list for granted; this module is about why files  *)
(* come back in the order they were written.                               *)
(*                                                                         *)
(* A file holds one memtable, named by the number of its flush; NativeStore*)
(* looks into it.                                                          *)
(***************************************************************************)
EXTENDS FilePool, FileCloser, FiniteSets

CONSTANTS
    MaxFlushes,  \* bound: flushes in the history
    MaxOpens     \* bound: managers constructed in the history

ASSUME ManagerAssumption ==
    MaxFlushes \in Nat /\ MaxOpens \in Nat /\ BatchSize = PoolSize

VARIABLES
    head,     \* the list from _head: ids, newest first
    owner,    \* the thread that constructs and closes the manager
    flusher,  \* the thread in flushMemtable
    flushes,  \* history: memtables handed to flushMemtable
    opens     \* history: managers constructed

mgrVars == <<head, owner, flusher, flushes, opens>>
vars == <<poolVars, closerVars, mgrVars>>

OwnerPC == {"none", "open", "joinCloser", "joinPool"}
FlusherPC == {"idle", "acquire", "write", "schedule", "index"}

Init ==
    /\ dir = <<>> /\ pool = <<>> /\ nextId = 1 /\ poolShutdown = FALSE
    /\ filler = "none" /\ making = 0 /\ taker = "out" /\ taken = 0 /\ faults = 0
    /\ pending = <<>> /\ toClose = <<>> /\ closerShutdown = FALSE /\ closer = "none"
    /\ head = <<>> /\ owner = "none" /\ flusher = "idle" /\ flushes = 0 /\ opens = 0

--------------------------------------------------------------------------------
(* SSTableManager::recoverState: every L0 file enters the list, empty ones *)
(* too, the one with the highest id first, and ids go on after that one.   *)
Descending(ids) ==
    [i \in 1 .. Cardinality(ids) |->
        CHOOSE id \in ids : Cardinality({other \in ids : other > id}) = i - 1]

(* Mutant: ids go on from the highest one in use.                          *)
HighestId(ids) == IF ids = {} THEN 1 ELSE Descending(ids)[1]

NextFreeId(ids) == IF ids = {} THEN 1 ELSE Descending(ids)[1] + 1

Construct ==
    /\ owner = "none" /\ opens < MaxOpens
    /\ head' = Descending(DOMAIN dir)
    /\ PoolStart(NextFreeId(DOMAIN dir))
    /\ CloserStart
    /\ owner' = "open"
    /\ opens' = opens + 1
    /\ UNCHANGED <<dir, taker, taken, faults, flusher, flushes>>

--------------------------------------------------------------------------------
(* SSTableManager::flushMemtable of a memtable that is not empty.          *)
FlushBegin ==
    /\ owner = "open" /\ flusher = "idle" /\ flushes < MaxFlushes
    /\ flusher' = "acquire" /\ taker' = "test"
    /\ flushes' = flushes + 1
    /\ UNCHANGED <<dir, pool, nextId, poolShutdown, filler, making, taken, faults,
                   closerVars, head, owner, opens>>

FlushAcquire ==
    /\ flusher = "acquire"
    /\ AcquireTest
    /\ flusher' = IF taker' = "out" THEN "write" ELSE "acquire"
    /\ UNCHANGED <<closerVars, head, owner, flushes, opens>>

(* The records are written and the stream flushed.                         *)
FlushWrite ==
    /\ flusher = "write"
    /\ dir' = [dir EXCEPT ![taken] = flushes]
    /\ flusher' = "schedule"
    /\ UNCHANGED <<pool, nextId, poolShutdown, filler, making, taker, taken, faults,
                   closerVars, head, owner, flushes, opens>>

FlushSchedule ==
    /\ flusher = "schedule"
    /\ ScheduleClose(taken)
    /\ flusher' = "index"
    /\ UNCHANGED <<poolVars, head, owner, flushes, opens>>

(* Mutant: the new node is not linked to the list.                         *)
FlushIndexUnlinked ==
    /\ flusher = "index"
    /\ head' = <<taken>>
    /\ flusher' = "idle"
    /\ UNCHANGED <<poolVars, closerVars, owner, flushes, opens>>

(* The index is prepended.                                                 *)
FlushIndex ==
    /\ flusher = "index"
    /\ head' = <<taken>> \o head
    /\ flusher' = "idle"
    /\ UNCHANGED <<poolVars, closerVars, owner, flushes, opens>>

Flush == FlushAcquire \/ FlushWrite \/ FlushSchedule \/ FlushIndex

--------------------------------------------------------------------------------
(* SSTableManager::close and then the destructor.  The store calls it when *)
(* no flush is running: it has joined its flush thread.                    *)
Close ==
    /\ owner = "open" /\ flusher = "idle"
    /\ CloserShutdown
    /\ owner' = "joinCloser"
    /\ UNCHANGED <<poolVars, head, flusher, flushes, opens>>

CloseJoinCloser ==
    /\ owner = "joinCloser"
    /\ CloserGone
    /\ PoolShutdown
    /\ owner' = "joinPool"
    /\ UNCHANGED <<head, flusher, flushes, opens>>

CloseJoinPool ==
    /\ owner = "joinPool"
    /\ PoolGone
    /\ head' = <<>>
    /\ owner' = "none"
    /\ UNCHANGED <<closerVars, flusher, flushes, opens>>

Owner == CloseJoinCloser \/ CloseJoinPool

(* The process dies: what is on disk stays.                                *)
Crash ==
    /\ owner # "none"
    /\ pool' = <<>> /\ poolShutdown' = FALSE /\ filler' = "none" /\ making' = 0
    /\ taker' = "out" /\ taken' = 0
    /\ pending' = <<>> /\ toClose' = <<>> /\ closerShutdown' = FALSE /\ closer' = "none"
    /\ head' = <<>> /\ owner' = "none" /\ flusher' = "idle"
    /\ UNCHANGED <<dir, nextId, faults, flushes, opens>>

(* A wait may end without a notification.                                  *)
SpuriousWakeup ==
    /\ \/ /\ filler = "asleep" /\ filler' = "lock"
          /\ UNCHANGED <<taker, closer>>
       \/ /\ taker = "waiting" /\ taker' = "test"
          /\ UNCHANGED <<filler, closer>>
       \/ /\ closer = "asleep" /\ closer' = "lock"
          /\ UNCHANGED <<filler, taker>>
    /\ UNCHANGED <<dir, pool, nextId, poolShutdown, making, taken, faults, pending, toClose,
                   closerShutdown, mgrVars>>

FillerStep == Filler /\ UNCHANGED <<closerVars, mgrVars>>
CloserStep == Closer /\ UNCHANGED <<poolVars, mgrVars>>

Next ==
    \/ Construct \/ FlushBegin \/ Flush
    \/ Close \/ Owner
    \/ FillerStep \/ CloserStep
    \/ SpuriousWakeup
    \/ Crash

Spec == Init /\ [][Next]_vars

(* Every thread goes on whenever it can.  The mutexes are held for one     *)
(* step, so no thread is kept from them.                                   *)
FairSpec ==
    Spec /\ WF_vars(Flush) /\ WF_vars(Owner) /\ WF_vars(FillerStep) /\ WF_vars(CloserStep)

--------------------------------------------------------------------------------
(* Every variable holds a value of its type.                               *)
TypeOK ==
    /\ DOMAIN dir \subseteq Nat \ {0} /\ \A id \in DOMAIN dir : dir[id] \in Nat
    /\ pool \in Seq(DOMAIN dir) /\ nextId \in Nat \ {0}
    /\ filler \in FillerPC /\ making \in Nat
    /\ taker \in TakerPC /\ taken \in Nat /\ faults \in 0 .. MaxFaults
    /\ pending \in Seq(DOMAIN dir) /\ toClose \in Seq(DOMAIN dir) /\ closer \in CloserPC
    /\ poolShutdown \in BOOLEAN /\ closerShutdown \in BOOLEAN
    /\ head \in Seq(DOMAIN dir)
    /\ owner \in OwnerPC /\ flusher \in FlusherPC
    /\ flushes \in 0 .. MaxFlushes /\ opens \in 0 .. MaxOpens

(* The list a lookup walks is newest first, whether its files were flushed *)
(* by this process or found by recoverState: ids order the files as their  *)
(* flushes did.                                                            *)
ListNewestFirst ==
    \A i, j \in DOMAIN head :
        i < j /\ dir[head[i]] # 0 /\ dir[head[j]] # 0 => dir[head[i]] > dir[head[j]]

(* Every file that holds a memtable is in the list exactly once, except    *)
(* the one whose flush is about to prepend it.                             *)
NothingMissing ==
    owner = "open" =>
        \A id \in DOMAIN dir : dir[id] # 0 =>
            IF flusher \in {"schedule", "index"} /\ id = taken
            THEN \A i \in DOMAIN head : head[i] # id
            ELSE Cardinality({i \in DOMAIN head : head[i] = id}) = 1

(* The pool hands out files that are new and empty: what a flush wrote is  *)
(* never truncated, overwritten or removed, by this process or a later one.*)
NothingOverwritten ==
    [][\A id \in DOMAIN dir :
          dir[id] # 0 => id \in DOMAIN dir' /\ dir'[id] = dir[id]]_vars

(* A thread waits on one of the three condition variables only while its   *)
(* predicate is false.                                                     *)
PoolNoLostWakeup ==
    /\ filler = "asleep" => Len(pool) >= PoolSize /\ ~poolShutdown
    /\ taker = "waiting" => pool = <<>>
    /\ closer = "asleep" => Len(pending) < BatchSize /\ ~closerShutdown

(* A flush returns, however many files cannot be opened before one can.    *)
FlushReturns == flusher # "idle" ~> flusher = "idle"

(* close() returns.                                                        *)
ManagerCloses == owner = "joinCloser" ~> owner = "none"
================================================================================
