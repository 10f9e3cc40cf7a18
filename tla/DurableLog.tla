------------------------------ MODULE DurableLog ------------------------------
(***************************************************************************)
(* What a store with a write barrier promises, as a history of writes: a   *)
(* prefix of the history is durable, a prefix of that is acknowledged as   *)
(* durable, and a crash cuts the history somewhere after the durable part. *)
(* It never loses a write from the middle and never reorders two.          *)
(***************************************************************************)
EXTENDS Naturals, Sequences

CONSTANT Writes     \* the possible writes

VARIABLES
    log,      \* the writes made, in order
    durable,  \* how many of them are on disk
    acked     \* how many of them a barrier has reported to be

vars == <<log, durable, acked>>

Init == log = <<>> /\ durable = 0 /\ acked = 0

MakeWrite ==
    /\ Len(log') = Len(log) + 1
    /\ log'[Len(log')] \in Writes
    /\ log' = Append(log, log'[Len(log')])
    /\ UNCHANGED <<durable, acked>>

(* A write made and put on disk at once, after all the earlier ones.        *)
WriteThrough ==
    /\ Len(log') = Len(log) + 1
    /\ log'[Len(log')] \in Writes
    /\ log' = Append(log, log'[Len(log')])
    /\ durable' = Len(log')
    /\ UNCHANGED acked

Persist ==
    /\ durable' \in durable .. Len(log)
    /\ UNCHANGED <<log, acked>>

Acknowledge ==
    /\ acked' \in acked .. durable
    /\ UNCHANGED <<log, durable>>

(* Everything that survives is durable from then on.                       *)
Crash ==
    /\ durable' \in durable .. Len(log)
    /\ log' = SubSeq(log, 1, durable')
    /\ acked' = durable'

(* The directory is removed.                                               *)
Wipe == log' = <<>> /\ durable' = 0 /\ acked' = 0

Next == MakeWrite \/ WriteThrough \/ Persist \/ Acknowledge \/ Crash \/ Wipe

Spec == Init /\ [][Next]_vars
===============================================================================
