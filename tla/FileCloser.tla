------------------------------ MODULE FileCloser ------------------------------
(***************************************************************************)
(* FileCloser: a thread that closes written files, batchSize at a time, so *)
(* that the flush thread does not wait for close(2).  A file is a stream   *)
(* owned by whoever holds it; it is named by its id.                       *)
(***************************************************************************)
EXTENDS Naturals, Sequences

CONSTANT BatchSize   \* _batchSize

ASSUME BatchAssumption == BatchSize \in Nat \ {0}

VARIABLES
    pending,         \* _pending
    toClose,         \* to_close of the worker
    closerShutdown,  \* _shutdown of the closer
    closer           \* where the worker is

closerVars == <<pending, toClose, closerShutdown, closer>>

CloserPC == {"none", "lock", "asleep", "closing", "exited"}

CloserStart ==
    /\ pending' = <<>> /\ toClose' = <<>> /\ closerShutdown' = FALSE
    /\ closer' = "lock"

NotifyCloser == closer' = IF closer = "asleep" THEN "lock" ELSE closer

(* FileCloser::scheduleClose                                               *)
ScheduleClose(id) ==
    /\ pending' = Append(pending, id)
    /\ IF Len(pending') >= BatchSize \/ closerShutdown
       THEN NotifyCloser
       ELSE UNCHANGED closer
    /\ UNCHANGED <<toClose, closerShutdown>>

(* FileCloser::workerLoop                                                  *)
CloserTest ==
    /\ closer = "lock"
    /\ \/ /\ closerShutdown /\ pending = <<>>
          /\ closer' = "exited"
          /\ UNCHANGED <<pending, toClose>>
       \/ /\ Len(pending) >= BatchSize \/ (closerShutdown /\ pending # <<>>)
          /\ toClose' = pending /\ pending' = <<>>
          /\ closer' = "closing"
       \/ /\ Len(pending) < BatchSize /\ ~closerShutdown
          /\ closer' = "asleep"
          /\ UNCHANGED <<pending, toClose>>
    /\ UNCHANGED closerShutdown

CloserClose ==
    /\ closer = "closing"
    /\ toClose' = <<>>
    /\ closer' = "lock"
    /\ UNCHANGED <<pending, closerShutdown>>

Closer == CloserTest \/ CloserClose

(* Mutant: the worker is not notified.                                     *)
CloserShutdownSilent ==
    /\ closerShutdown' = TRUE
    /\ UNCHANGED <<pending, toClose, closer>>

(* FileCloser::~FileCloser up to the join.                                 *)
CloserShutdown ==
    /\ closerShutdown' = TRUE
    /\ NotifyCloser
    /\ UNCHANGED <<pending, toClose>>

(* The join has returned; what is still pending is closed.                 *)
CloserGone ==
    /\ closer = "exited"
    /\ closer' = "none" /\ pending' = <<>>
    /\ UNCHANGED <<toClose, closerShutdown>>
===============================================================================
