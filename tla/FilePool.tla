------------------------------- MODULE FilePool -------------------------------
(***************************************************************************)
(* FilePool: a thread that keeps poolSize new, open L0 files ready, and    *)
(* acquire, which takes one.  The store has one thread at a time in        *)
(* acquire: the flush thread, or close() after it has joined that thread.  *)
(*                                                                         *)
(* All shared fields change under _mutex, so a critical section is one     *)
(* step and a wait begins in the step that finds its predicate false.      *)
(***************************************************************************)
EXTENDS Naturals, Sequences

CONSTANTS
    PoolSize,    \* filePoolSize
    MaxFaults    \* bound: failed attempts to open a file

ASSUME PoolAssumption == PoolSize \in Nat \ {0} /\ MaxFaults \in Nat

VARIABLES
    dir,          \* the L0 files on disk: what each id holds, 0 when it is empty
    pool,         \* _pool
    nextId,       \* _next_id
    poolShutdown, \* _shutdown of the pool
    filler,       \* where the thread running replenish is
    making,       \* the id it has opened and not yet pushed, 0 for none
    taker,        \* where the thread in acquire is
    taken,        \* the id acquire returned last
    faults        \* history: failed attempts so far

poolVars == <<dir, pool, nextId, poolShutdown, filler, making, taker, taken, faults>>

FillerPC == {"none", "lock", "asleep", "make", "push", "exited"}
TakerPC == {"out", "test", "waiting"}

(* The constructor starts the thread.  External to it: the old pool's      *)
(* queue died with the old process or in its destructor.                   *)
PoolStart(startId) ==
    /\ pool' = <<>> /\ nextId' = startId /\ poolShutdown' = FALSE
    /\ filler' = "lock" /\ making' = 0

(* notify_one and notify_all on _cv, whose only waiter is the filler.      *)
NotifyFiller == filler' = IF filler = "asleep" THEN "lock" ELSE filler

--------------------------------------------------------------------------------
(* Mutant: the thread that fills the pool is not notified.                 *)
AcquireWithoutNotify ==
    /\ taker = "test"
    /\ \/ /\ pool # <<>>
          /\ taken' = Head(pool) /\ pool' = Tail(pool)
          /\ taker' = "out"
       \/ /\ pool = <<>> /\ ~poolShutdown
          /\ taker' = "waiting"
          /\ UNCHANGED <<pool, taken>>
    /\ UNCHANGED <<dir, nextId, poolShutdown, filler, making, faults>>

(* FilePool::acquire                                                       *)
AcquireTest ==
    /\ taker = "test"
    /\ \/ /\ pool # <<>>
          /\ taken' = Head(pool) /\ pool' = Tail(pool)
          /\ taker' = "out"
          /\ NotifyFiller
       \/ /\ pool = <<>> /\ ~poolShutdown
          /\ taker' = "waiting"
          /\ UNCHANGED <<pool, taken, filler>>
    /\ UNCHANGED <<dir, nextId, poolShutdown, making, faults>>

(* FilePool::replenish: the wait at the head of the loop.                  *)
FillerTest ==
    /\ filler = "lock"
    /\ filler' = IF poolShutdown THEN "exited"
                 ELSE IF Len(pool) < PoolSize THEN "make" ELSE "asleep"
    /\ UNCHANGED <<dir, pool, nextId, poolShutdown, making, taker, taken, faults>>

(* Mutant: the name pushed is one ahead of the file opened.                *)
FillerMakeAhead ==
    /\ filler = "make"
    /\ nextId' = nextId + 1
    /\ dir' = [id \in DOMAIN dir \union {nextId} |-> IF id = nextId THEN 0 ELSE dir[id]]
    /\ making' = nextId'
    /\ filler' = "push"
    /\ UNCHANGED <<pool, poolShutdown, taker, taken, faults>>

(* Outside the mutex.  Opening for output truncates a file that exists.    *)
FillerMake ==
    /\ filler = "make"
    /\ nextId' = nextId + 1
    /\ dir' = [id \in DOMAIN dir \union {nextId} |-> IF id = nextId THEN 0 ELSE dir[id]]
    /\ making' = nextId
    /\ filler' = "push"
    /\ UNCHANGED <<pool, poolShutdown, taker, taken, faults>>

(* Mutant: the thread gives up after a failure.                            *)
FillerGivesUp ==
    /\ filler = "make" /\ faults < MaxFaults
    /\ nextId' = nextId + 1
    /\ faults' = faults + 1
    /\ filler' = "exited"
    /\ UNCHANGED <<dir, pool, poolShutdown, making, taker, taken>>

(* The file cannot be opened: its id is not used again.                    *)
FillerFails ==
    /\ filler = "make" /\ faults < MaxFaults
    /\ nextId' = nextId + 1
    /\ faults' = faults + 1
    /\ filler' = "lock"
    /\ UNCHANGED <<dir, pool, poolShutdown, making, taker, taken>>

(* Mutant: the pool is a stack.                                            *)
FillerPushFront ==
    /\ filler = "push"
    /\ making' = 0
    /\ \/ /\ poolShutdown
          /\ filler' = "exited"
          /\ UNCHANGED <<pool, taker>>
       \/ /\ ~poolShutdown
          /\ pool' = <<making>> \o pool
          /\ taker' = IF taker = "waiting" THEN "test" ELSE taker
          /\ filler' = "lock"
    /\ UNCHANGED <<dir, nextId, poolShutdown, taken, faults>>

FillerPush ==
    /\ filler = "push"
    /\ making' = 0
    /\ \/ /\ poolShutdown
          /\ filler' = "exited"
          /\ UNCHANGED <<pool, taker>>
       \/ /\ ~poolShutdown
          /\ pool' = Append(pool, making)
          /\ taker' = IF taker = "waiting" THEN "test" ELSE taker
          /\ filler' = "lock"
    /\ UNCHANGED <<dir, nextId, poolShutdown, taken, faults>>

Filler == FillerTest \/ FillerMake \/ FillerFails \/ FillerPush

(* FilePool::~FilePool up to the join.  It notifies _cv, not _cv_wait.     *)
PoolShutdown ==
    /\ poolShutdown' = TRUE
    /\ NotifyFiller
    /\ UNCHANGED <<dir, pool, nextId, making, taker, taken, faults>>

(* The join has returned: the pool goes, and with it the streams in it.    *)
PoolGone ==
    /\ filler = "exited"
    /\ filler' = "none" /\ pool' = <<>>
    /\ UNCHANGED <<dir, nextId, poolShutdown, making, taker, taken, faults>>
===============================================================================
