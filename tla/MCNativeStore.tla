----------------------------- MODULE MCNativeStore -----------------------------
(* Small instances of NativeStore.                                         *)
EXTENDS NativeStore, TLC

CONSTANTS c1, c2, k1, k2

(* Two records of k1 fill a memtable of 2 bytes; one of k2 overfills it.   *)
MCEntrySize == (k1 :> 1) @@ (k2 :> 3)
MCOneKeySize == k1 :> 1

Symmetry == Permutations(Clients)
================================================================================
