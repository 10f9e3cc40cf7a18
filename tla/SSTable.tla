-------------------------------- MODULE SSTable --------------------------------
(***************************************************************************)
(* One L0 file as SSTableManager sees it.  data is the sequence of records *)
(* its index was built from, in file order; only the first good of them    *)
(* can be read back.  They differ when a write to the file failed (nobody  *)
(* checks the stream) and when the process died while writing it.  torn    *)
(* says that the file goes on past the last readable record far enough to  *)
(* hold the next one's lengths and key, but not its whole value.           *)
(***************************************************************************)
EXTENDS Memtable

(* SSTableManager::flushMemtable: every record of m, in order, is written  *)
(* and indexed.  good < Len(m.data) is a flush some of whose writes failed.*)
FlushedTable(m, good, torn) ==
    [base |-> m.base, data |-> m.data, good |-> good, torn |-> torn]

(* Mutant: the index keeps the oldest offset of a key.                     *)
TableHitOldest(t, k) ==
    {t.data[i] : i \in {n \in DOMAIN t.data : /\ t.data[n].key = k /\ n <= t.good
                                              /\ \A j \in 1 .. (n - 1) : t.data[j].key # k}}

(* SSTableManager::readValueAt after the index lookup: the index keeps the *)
(* newest offset of a key only, so a key whose newest record is unreadable *)
(* is not found in this file, whatever older records the file holds.       *)
TableHit(t, k) == {t.data[i] : i \in {n \in NewestAt(t.data, k) : n <= t.good}}

(* The writes of a file that a lookup in it cannot return, nor replace by  *)
(* a newer one.                                                            *)
Shadowed(t) ==
    {t.base + i : i \in {n \in DOMAIN t.data : TableHit(t, t.data[n].key) = {}}}

(* SSTableManager::recoverState on one file: the records parsed up to the  *)
(* end.  A value cut short is skipped by a seek that cannot fail, so its   *)
(* record enters the index.                                                *)
RecoveredTable(t) ==
    [t EXCEPT !.data = SubSeq(t.data, 1, t.good + (IF t.torn THEN 1 ELSE 0))]

(* The file left behind by a process that died while it was writing m:     *)
(* n records complete, the next one possibly cut inside its value.         *)
CrashedTable(m, n, torn) == RecoveredTable(FlushedTable(m, n, torn))
================================================================================
