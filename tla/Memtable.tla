------------------------------- MODULE Memtable -------------------------------
(***************************************************************************)
(* The in-memory write buffer of the native store, class Memtable, and the *)
(* lookups its users make.  A memtable is the vector of the records added  *)
(* to it, oldest first, with its size in bytes.                            *)
(*                                                                         *)
(* A record stands for one (key, value) pair.  The code never looks into a *)
(* value except to tell the tombstone from everything else, so a record    *)
(* keeps its key, whether it is a tombstone, and the number of the write   *)
(* that made it, which identifies the value.                               *)
(*                                                                         *)
(* A lookup that returns at most one record returns the set of the records *)
(* found: {} is "not found".                                               *)
(***************************************************************************)
EXTENDS Naturals, Sequences

(* base is the number of the last write made before this memtable became   *)
(* the active one.  It is history: the code has no such field.             *)
EmptyMemtable(base) == [base |-> base, data |-> <<>>, bytes |-> 0]

(* Memtable::add                                                           *)
MemAdd(m, rec, size) ==
    [m EXCEPT !.data = Append(m.data, rec), !.bytes = m.bytes + size]

(* The number of the last write a memtable (or a table) can hold.          *)
LastWrite(m) == m.base + Len(m.data)

(* Memtable::get walks the vector backwards: the position it stops at.     *)
NewestAt(data, k) ==
    {i \in DOMAIN data : /\ data[i].key = k
                         /\ \A j \in DOMAIN data : j > i => data[j].key # k}

MemHit(m, k) == {m.data[i] : i \in NewestAt(m.data, k)}

(* Of a sequence of lookups made one after the other until one succeeds,   *)
(* what the first successful one returns.                                  *)
FirstHit(hits) ==
    UNION {hits[i] : i \in {n \in DOMAIN hits : \A j \in 1 .. (n - 1) : hits[j] = {}}}
===============================================================================
