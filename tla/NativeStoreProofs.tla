--------------------------- MODULE NativeStoreProofs ---------------------------
(***************************************************************************)
(* Proofs about NativeStore, for any set of clients, any keys and sizes,   *)
(* any limits, with or without failing writes.                             *)
(***************************************************************************)
EXTENDS NativeStore, SequenceTheorems, FiniteSetTheorems, TLAPS

--------------------------------------------------------------------------------
(* Where the threads can be, and what that says of the shared state.       *)
Closing(c) == pc[c] \in {"closeNotify", "closeJoin", "closeDrain", "closeFlush"}
Draining(c) == pc[c] \in {"closeDrain", "closeFlush"}

DownIsEmpty ==
    ~up => /\ active = <<>> /\ immutables = <<>> /\ inflight = <<>>
           /\ worker = "none"
           /\ flushed = Len(log)
           /\ \A c \in Clients : pc[c] = "idle"

CloseAlone ==
    \A c \in Clients : Closing(c) =>
        /\ shuttingDown
        /\ \A other \in Clients : other # c => pc[other] = "idle"

DrainsAlone == \A c \in Clients : Draining(c) => worker = "exited"

WorkerState ==
    /\ up => worker # "none"
    /\ worker \in {"popped", "flush", "clear"} <=> flushInProgress

InflightOwner ==
    /\ worker \in {"popped", "flush"} => inflight # <<>>
    /\ \A c \in Clients : pc[c] = "closeFlush" => inflight # <<>>
    /\ inflight # <<>> => \/ worker \in {"popped", "flush"}
                          \/ \E c \in Clients : pc[c] = "closeFlush"

ActiveExists == up /\ active = <<>> => \E c \in Clients : Draining(c)

(* Once close() has queued the active memtable, what is left of it is      *)
(* empty.                                                                  *)
DrainedActive ==
    \A c \in Clients : Draining(c) /\ active # <<>> => active[1].data = <<>>

Control ==
    /\ DownIsEmpty /\ CloseAlone /\ DrainsAlone /\ WorkerState
    /\ InflightOwner /\ ActiveExists /\ DrainedActive

(* The queue of immutable memtables is ordered by writes.  This follows    *)
(* from WritesInOrder by induction on the queue, which is why it is stated.*)
QueueMonotone ==
    \A i,
       j \in DOMAIN immutables : i < j => LastWrite(immutables[i]) <= immutables[j].base

IInv == TypeOK /\ Control /\ WritesInOrder /\ QueueMonotone

--------------------------------------------------------------------------------
(* Prepending to the list of files.                                        *)
LEMMA Prepend ==
    ASSUME NEW S, NEW s \in Seq(S), NEW e \in S
    PROVE  /\ <<e>> \o s \in Seq(S)
           /\ Len(<<e>> \o s) = Len(s) + 1
           /\ (<<e>> \o s)[1] = e
           /\ \A i \in DOMAIN s : (<<e>> \o s)[i + 1] = s[i]
  <1>1. <<e>> \in Seq(S) /\ Len(<<e>>) = 1 /\ <<e>>[1] = e
    OBVIOUS
  <1>2. QED
    BY <1>1, ConcatProperties

(* What a lookup returns is a set of records.                              *)
LEMMA MemHitType ==
    ASSUME NEW m \in MemtableType, NEW k PROVE MemHit(m, k) \subseteq Record
  BY DEF MemHit, NewestAt, MemtableType

\* A lookup in a file returns records.
LEMMA TableHitType ==
    ASSUME NEW t \in TableType, NEW k PROVE TableHit(t, k) \subseteq Record
  BY DEF TableHit, NewestAt, TableType

\* The first hit is one of the hits.
LEMMA FirstHitType ==
    ASSUME NEW S, NEW hits, \A i \in DOMAIN hits : hits[i] \subseteq S
    PROVE  FirstHit(hits) \subseteq S
  BY DEF FirstHit

(* A call finds the active memtable in place.                              *)
LEMMA CallerHasActive ==
    ASSUME TypeOK, Control, NEW c \in Clients, up, ~Closing(c),
           \/ ~shuttingDown
           \/ pc[c] # "idle"
    PROVE  active # <<>> /\ active[1] \in MemtableType
  <1>1. active # <<>>
    BY DEF Control, ActiveExists, CloseAlone, Draining, Closing
  <1>2. QED
    BY <1>1 DEF TypeOK

\* Lookups in memory return records.
LEMMA MemLookupType ==
    ASSUME TypeOK, active # <<>>, NEW k
    PROVE  MemGet(k) \subseteq Record /\ MemScan(k) \subseteq Record
  <1> DEFINE n == Len(immutables) + 1
  <1>1. n \in Nat /\ DOMAIN NewestFirst = 1 .. n /\ Len(NewestFirst) = n
    BY DEF TypeOK, NewestFirst
  <1>2. \A i \in 1 .. n : NewestFirst[i] \in MemtableType
    <2> SUFFICES ASSUME NEW i \in 1 .. n PROVE NewestFirst[i] \in MemtableType
      OBVIOUS
    <2>1. CASE i = 1
      BY <2>1 DEF TypeOK, NewestFirst
    <2>2. CASE i # 1
      BY <2>2 DEF TypeOK, NewestFirst
    <2>3. QED
      BY <2>1, <2>2
  <1>3. \A i \in 1 .. n : MemHit(NewestFirst[i], k) \subseteq Record
    BY <1>2, MemHitType
  <1>4. MemGet(k) \subseteq Record
    BY <1>1, <1>3, FirstHitType DEF MemGet
  <1>5. \A i \in 1 .. n : n + 1 - i \in 1 .. n
    BY <1>1
  <1>6. MemScan(k) \subseteq Record
    BY <1>1, <1>3, <1>5, FirstHitType DEF MemScan
  <1>7. QED
    BY <1>4, <1>6

\* A lookup in the files returns records.
LEMMA TablesLookupType ==
    ASSUME TypeOK, NEW k PROVE TablesGet(k) \subseteq Record
  <1>1. \A i \in DOMAIN tables : TableHit(tables[i], k) \subseteq Record
    BY TableHitType DEF TypeOK
  <1>2. QED
    BY <1>1, FirstHitType DEF TablesGet

\* A flush makes a file.
LEMMA FlushedTableType ==
    ASSUME NEW m \in MemtableType, NEW good \in 0 .. Len(m.data), NEW torn \in BOOLEAN,
           torn => good < Len(m.data)
    PROVE  FlushedTable(m, good, torn) \in TableType
  <1>1. m.data \in Seq(Record) /\ Len(m.data) \in Nat /\ m.base \in Nat
    BY DEF MemtableType
  <1>2. good + (IF torn THEN 1 ELSE 0) <= Len(m.data)
    BY <1>1
  <1>3. QED
    BY <1>1, <1>2 DEF FlushedTable, TableType

\* A flush keeps the types of what it changes.
LEMMA FlushType ==
    ASSUME TypeOK, inflight # <<>>, FlushMemtableToL0(inflight[1])
    PROVE  /\ inflight' = <<>>
           /\ flushed' \in Nat
           /\ tables' \in Seq(TableType)
           /\ gone' \subseteq Nat
  <1> DEFINE m == inflight[1]
  <1>0. m \in MemtableType
    BY DEF TypeOK
  <1> HIDE DEF m
  <1>1. inflight' = <<>> /\ flushed' \in Nat
    BY <1>0 DEF m, FlushMemtableToL0, LastWrite, MemtableType
  <1>2. CASE UNCHANGED <<tables, gone>>
    BY <1>1, <1>2 DEF TypeOK
  <1>3. ASSUME NEW good \in 0 .. Len(m.data), NEW torn \in BOOLEAN,
               torn => good < Len(m.data)
        PROVE  /\ FlushedTable(m, good, torn) \in TableType
               /\ Shadowed(FlushedTable(m, good, torn)) \subseteq Nat
    <2>1. FlushedTable(m, good, torn) \in TableType
      BY <1>0, <1>3, FlushedTableType
    <2>2. QED
      BY <2>1 DEF Shadowed, TableType
  <1>4. Len(m.data) \in Nat /\ Len(m.data) \in 0 .. Len(m.data)
    BY <1>0 DEF MemtableType
  <1>5. CASE tables' = <<FlushedTable(m, Len(m.data), FALSE)>> \o tables /\ gone' = gone
    <2>1. FlushedTable(m, Len(m.data), FALSE) \in TableType
      BY <1>3, <1>4
    <2>2. tables' \in Seq(TableType)
      BY <1>5, <2>1, Prepend DEF TypeOK
    <2>3. QED
      BY <1>1, <1>5, <2>2 DEF TypeOK
  <1>6. CASE \E good \in 0 .. (Len(m.data) - 1), torn \in BOOLEAN :
                /\ tables' = <<FlushedTable(m, good, torn)>> \o tables
                /\ gone' = gone \union Shadowed(FlushedTable(m, good, torn))
    <2> PICK good \in 0 .. (Len(m.data) - 1), torn \in BOOLEAN :
                /\ tables' = <<FlushedTable(m, good, torn)>> \o tables
                /\ gone' = gone \union Shadowed(FlushedTable(m, good, torn))
      BY <1>6
    <2>1. good \in 0 .. Len(m.data) /\ good < Len(m.data)
      BY <1>4
    <2>2. FlushedTable(m, good, torn) \in TableType
      BY <1>3, <2>1
    <2>3. tables' \in Seq(TableType)
      BY <2>2, Prepend DEF TypeOK
    <2>4. QED
      BY <1>1, <1>3, <2>1, <2>3 DEF TypeOK
  <1>7. QED
    BY <1>2, <1>5, <1>6 DEF m, FlushMemtableToL0

(* The values the actions build have their types.                          *)
LEMMA CallTypes ==
    ASSUME TypeOK, NEW K \in SUBSET Keys, NEW d \in BOOLEAN
    PROVE  NewCall(K, d) \in CallType /\ NoCall \in CallType
  BY DEF TypeOK, NewCall, NoCall, CallType

\* A memtable with one more record, and an empty one.
LEMMA MemtableTypes ==
    ASSUME NEW m \in MemtableType, NEW rec \in Record, NEW size \in Nat, NEW base \in Nat
    PROVE  MemAdd(m, rec, size) \in MemtableType /\ EmptyMemtable(base) \in MemtableType
  <1>1. m.data \in Seq(Record) /\ m.bytes \in Nat
    BY DEF MemtableType
  <1>2. Append(m.data, rec) \in Seq(Record) /\ m.bytes + size \in Nat
    BY <1>1, AppendProperties
  <1>3. MemAdd(m, rec, size) \in MemtableType
    BY <1>2 DEF MemtableType, MemAdd
  <1>4. QED
    BY <1>3 DEF MemtableType, EmptyMemtable

\* The parts of a memtable.
LEMMA MemtableFacts ==
    ASSUME NEW m \in MemtableType
    PROVE  /\ m.base \in Nat /\ m.data \in Seq(Record) /\ Len(m.data) \in Nat
           /\ LastWrite(m) = m.base + Len(m.data)
           /\ LastWrite(m) \in Nat /\ m.base <= LastWrite(m)
  BY DEF MemtableType, LastWrite

\* A sequence of one element.
LEMMA SingletonType ==
    ASSUME NEW S, NEW e \in S PROVE <<e>> \in Seq(S) /\ Len(<<e>>) = 1
  OBVIOUS

\* A write keeps the types of memtable and history.
LEMMA WriteType ==
    ASSUME TypeOK, NEW k \in Keys, NEW d \in BOOLEAN,
           \/ active # <<>> /\ Write(active[1], k, d)
           \/ Write(EmptyMemtable(Len(log)), k, d)
    PROVE  /\ active' \in Seq(MemtableType) /\ Len(active') = 1
           /\ log' \in Seq(Record)
  <1> DEFINE rec == [key |-> k, del |-> d, seq |-> Len(log) + 1]
  <1>1. Len(log) \in Nat /\ rec \in Record /\ EntrySize[k] \in Nat
    BY SizeAssumption DEF TypeOK, Record
  <1>2. log' \in Seq(Record)
    <2>1. log' = Append(log, rec)
      BY DEF Write
    <2>2. log \in Seq(Record)
      BY DEF TypeOK
    <2>3. QED
      BY <1>1, <2>1, <2>2, AppendProperties
  <1>3. CASE active # <<>> /\ Write(active[1], k, d)
    <2>1. active[1] \in MemtableType
      BY <1>3 DEF TypeOK
    <2>2. active' = <<MemAdd(active[1], rec, EntrySize[k])>>
      BY <1>3 DEF Write
    <2>3. QED
      BY <1>1, <1>2, <2>1, <2>2, MemtableTypes, SingletonType
  <1>4. CASE Write(EmptyMemtable(Len(log)), k, d)
    <2>1. EmptyMemtable(Len(log)) \in MemtableType
      BY <1>1 DEF MemtableType, EmptyMemtable
    <2>2. active' = <<MemAdd(EmptyMemtable(Len(log)), rec, EntrySize[k])>>
      BY <1>4 DEF Write
    <2>3. QED
      BY <1>1, <1>2, <2>1, <2>2, MemtableTypes, SingletonType
  <1>5. QED
    BY <1>3, <1>4

\* Recovery makes a file of a file.
LEMMA RecoveredType ==
    ASSUME NEW t \in TableType PROVE RecoveredTable(t) \in TableType
  <1> DEFINE n == t.good + (IF t.torn THEN 1 ELSE 0)
  <1>1. n \in 0 .. Len(t.data)
    BY DEF TableType
  <1>2. SubSeq(t.data, 1, n) \in Seq(Record) /\ Len(SubSeq(t.data, 1, n)) = n
    BY <1>1 DEF TableType
  <1>3. RecoveredTable(t) = [t EXCEPT !.data = SubSeq(t.data, 1, n)]
    BY DEF RecoveredTable
  <1>4. RecoveredTable(t) \in [base : Nat, data : Seq(Record), good : Nat, torn : BOOLEAN]
    BY <1>2, <1>3 DEF TableType
  <1>5. /\ RecoveredTable(t).data = SubSeq(t.data, 1, n)
        /\ RecoveredTable(t).good = t.good /\ RecoveredTable(t).torn = t.torn
    BY <1>3 DEF TableType
  <1>6. QED
    BY <1>1, <1>2, <1>4, <1>5 DEF TableType

(* The files hold a part of the history.                                   *)
LEMMA FlushedInLog ==
    ASSUME IInv
    PROVE  /\ flushed \in 0 .. Len(log)
           /\ AfterInflight \in Nat /\ AfterImmutables \in Nat
           /\ flushed <= AfterInflight /\ AfterInflight <= AfterImmutables
           /\ up => AfterImmutables <= Len(log)
  <1> USE DEF IInv
  <1>1. \A i \in DOMAIN immutables :
           immutables[i].base \in Nat /\ LastWrite(immutables[i]) \in Nat
           /\ immutables[i].base <= LastWrite(immutables[i])
    BY MemtableFacts DEF TypeOK
  <1>2. inflight # <<>> => inflight[1].base \in Nat /\ LastWrite(inflight[1]) \in Nat
                           /\ inflight[1].base <= LastWrite(inflight[1])
    BY MemtableFacts DEF TypeOK
  <1>3. active # <<>> => active[1].base \in Nat /\ active[1].base <= LastWrite(active[1])
    BY MemtableFacts DEF TypeOK
  <1>4. AfterInflight \in Nat /\ AfterImmutables \in Nat
    BY <1>1, <1>2 DEF TypeOK, AfterInflight, AfterImmutables
  <1>5. CASE ~up
    BY <1>4, <1>5 DEF Control, DownIsEmpty, TypeOK, AfterInflight, AfterImmutables
  <1>6. CASE up
    <2>1. flushed <= AfterInflight
      BY <1>2, <1>6 DEF WritesInOrder, AfterInflight, TypeOK
    <2>2. AfterInflight <= AfterImmutables
      <3>1. CASE immutables = <<>>
        BY <1>4, <3>1 DEF AfterImmutables
      <3>2. CASE immutables # <<>>
        <4> DEFINE l == Len(immutables)
        <4>1. l \in Nat /\ l >= 1 /\ 1 \in DOMAIN immutables /\ l \in DOMAIN immutables
          BY <3>2 DEF TypeOK
        <4>2. AfterInflight = immutables[1].base /\ AfterImmutables = LastWrite(immutables[l])
          BY <1>6, <3>2 DEF WritesInOrder, AfterImmutables
        <4>3. l = 1 \/ LastWrite(immutables[1]) <= immutables[l].base
          <5>1. l = 1 \/ 1 < l
            BY <4>1
          <5> HIDE DEF l
          <5>2. QED
            BY <4>1, <5>1 DEF QueueMonotone
        <4>4. QED
          BY <1>1, <4>1, <4>2, <4>3
      <3>3. QED
        BY <3>1, <3>2
    <2>3. AfterImmutables <= Len(log)
      BY <1>3, <1>4, <1>6 DEF WritesInOrder, TypeOK
    <2>4. QED
      BY <1>4, <2>1, <2>2, <2>3 DEF TypeOK
  <1>7. QED
    BY <1>5, <1>6

(* The file a crash leaves behind holds a part of what was being flushed.  *)
LEMMA CrashedFile ==
    ASSUME IInv, up, Writing,
           NEW n \in 0 .. Len(inflight[1].data), NEW torn \in BOOLEAN,
           torn => n < Len(inflight[1].data)
    PROVE  LET t == CrashedTable(inflight[1], n, torn)
           IN  /\ t \in TableType
               /\ Shadowed(t) \subseteq Nat
               /\ t.base = flushed
               /\ LastWrite(t) \in flushed .. Len(log)
               /\ \A i \in DOMAIN t.data : t.data[i] = log[t.base + i]
  <1> DEFINE m == inflight[1]
             f == FlushedTable(m, n, torn)
             t == CrashedTable(m, n, torn)
             l == n + (IF torn THEN 1 ELSE 0)
  <1>1. inflight # <<>>
    BY DEF IInv, Control, InflightOwner, Writing
  <1>2. m \in MemtableType /\ m.base = flushed /\ Holds(m, log)
    BY <1>1 DEF IInv, TypeOK, WritesInOrder
  <1>3. l \in 0 .. Len(m.data)
    BY <1>2 DEF MemtableType
  <1>4. f \in TableType /\ f.good = n /\ f.torn = torn /\ f.base = m.base /\ f.data = m.data
    BY <1>2, <1>3 DEF FlushedTable, TableType, MemtableType
  <1>5. t \in TableType
    BY <1>4, RecoveredType DEF CrashedTable
  <1>6. t.base = m.base /\ t.data = SubSeq(m.data, 1, l)
    BY <1>4 DEF CrashedTable, RecoveredTable, TableType
  <1>7. Len(t.data) = l /\ \A i \in DOMAIN t.data : t.data[i] = m.data[i] /\ i \in DOMAIN m.data
    BY <1>2, <1>3, <1>6 DEF MemtableType
  <1>8. Shadowed(t) \subseteq Nat
    BY <1>5 DEF Shadowed, TableType
  <1>9. LastWrite(t) \in flushed .. Len(log)
    <2>1. LastWrite(m) <= Len(log) /\ Len(log) \in Nat /\ flushed \in Nat
      BY <1>2 DEF Holds, IInv, TypeOK
    <2>2. LastWrite(m) = flushed + Len(m.data) /\ Len(m.data) \in Nat
      BY <1>2, MemtableFacts
    <2>3. LastWrite(t) = flushed + l
      BY <1>2, <1>6, <1>7 DEF LastWrite
    <2>4. QED
      BY <1>3, <2>1, <2>2, <2>3
  <1>10. QED
    BY <1>2, <1>5, <1>6, <1>7, <1>8, <1>9 DEF Holds

(* Every step preserves the types.                                         *)
LEMMA TypeStep == IInv /\ [Next]_vars => TypeOK'
  <1> SUFFICES ASSUME IInv, [Next]_vars PROVE TypeOK'
    OBVIOUS
  <1> USE DEF IInv
  <1>1. ASSUME NEW c \in Clients, NEW k \in Keys, NEW d \in BOOLEAN, Put(c, k, d)
     PROVE TypeOK'
    <2>1. active # <<>>
      BY <1>1, CallerHasActive DEF Put, MayCall, Closing
    <2>2. QED
      BY <1>1, <2>1, WriteType DEF Put, TypeOK, WorkerPC, ClientPC, storeVars, histVars
  <1>2. ASSUME NEW c \in Clients, NEW k \in Keys, NEW d \in BOOLEAN, PutRotate(c, k, d)
     PROVE TypeOK'
    <2>1. active # <<>> /\ active[1] \in MemtableType
      BY <1>2, CallerHasActive DEF PutRotate, MayCall, Closing
    <2>2. immutables' \in Seq(MemtableType)
      BY <1>2, <2>1 DEF PutRotate, RotateAndWrite, TypeOK
    <2>3. active' \in Seq(MemtableType) /\ Len(active') = 1 /\ log' \in Seq(Record)
      BY <1>2, WriteType DEF PutRotate, RotateAndWrite
    <2>4. QED
      BY <1>2, <2>2, <2>3 DEF PutRotate, RotateAndWrite, NotifyFlush, TypeOK, WorkerPC,
         ClientPC, storeVars, histVars
  <1>3. ASSUME NEW c \in Clients, NEW k \in Keys, NEW d \in BOOLEAN, PutBlock(c, k, d)
     PROVE TypeOK'
    <2>1. NewCall({k}, d) \in CallType
      BY <1>3, CallTypes
    <2>2. QED
      BY <1>3, <2>1 DEF PutBlock, Goto, TypeOK, WorkerPC, ClientPC, storeVars, histVars
  <1>4. ASSUME NEW c \in Clients, BarrierRotate(c) PROVE TypeOK'
    <2>1. active # <<>> /\ active[1] \in MemtableType
      BY <1>4, CallerHasActive DEF BarrierRotate, MayCall, Closing
    <2>2. immutables' \in Seq(MemtableType)
      BY <1>4, <2>1 DEF BarrierRotate, TypeOK
    <2>3. EmptyMemtable(Len(log)) \in MemtableType
      BY DEF EmptyMemtable, MemtableType, TypeOK
    <2>4. active' \in Seq(MemtableType) /\ Len(active') = 1
      BY <1>4, <2>3 DEF BarrierRotate
    <2>5. NewCall({}, FALSE) \in CallType
      BY CallTypes
    <2>6. pc' \in [Clients -> ClientPC] /\ call' \in [Clients -> CallType]
      BY <1>4, <2>5 DEF BarrierRotate, Goto, ClientPC, TypeOK
    <2>7. /\ UNCHANGED <<up, inflight, tables, shuttingDown, flushInProgress, log, flushed,
                         synced, gone>>
          /\ worker' \in WorkerPC
      BY <1>4 DEF BarrierRotate, NotifyFlush, TypeOK, WorkerPC, histVars
    <2>8. QED
      BY <2>2, <2>4, <2>6, <2>7 DEF TypeOK
  <1>5. ASSUME NEW c \in Clients, BarrierWait(c) PROVE TypeOK'
    <2>1. NewCall({}, FALSE) \in CallType
      BY CallTypes
    <2>2. QED
      BY <1>5, <2>1 DEF BarrierWait, Goto, TypeOK, WorkerPC, ClientPC, storeVars, histVars
  <1>6. ASSUME NEW c \in Clients, BarrierReturn(c) PROVE TypeOK'
    BY <1>6 DEF BarrierReturn, MayCall, TypeOK, WorkerPC, ClientPC, storeVars, histVars
  <1>7. ASSUME NEW c \in Clients, NEW k \in Keys, Get(c, k) PROVE TypeOK'
    <2>1. active # <<>>
      BY <1>7, CallerHasActive DEF Get, MayCall, Closing
    <2>2. [NewCall({k}, FALSE) EXCEPT !.found = MemGet(k)] \in CallType
      <3>1. NewCall({k}, FALSE) \in CallType
        BY <1>7, CallTypes
      <3>2. MemGet(k) \in SUBSET Record
        BY <2>1, MemLookupType
      <3>3. QED
        BY <3>1, <3>2 DEF CallType
    <2>3. QED
      BY <1>7, <2>2 DEF Get, Goto, TypeOK, WorkerPC, ClientPC, storeVars, histVars
  <1>8. ASSUME NEW c \in Clients, GetPrefix(c, Keys) PROVE TypeOK'
    <2>1. active # <<>>
      BY <1>8, CallerHasActive DEF GetPrefix, MayCall, Closing
    <2>2. UNION {MemScan(k) : k \in Keys} \subseteq Record
      BY <2>1, MemLookupType
    <2>3. [NewCall(Keys, FALSE) EXCEPT !.found = UNION {MemScan(k) : k \in Keys}] \in CallType
      <3>1. NewCall(Keys, FALSE) \in CallType
        BY CallTypes
      <3>2. QED
        BY <2>2, <3>1 DEF CallType
    <2>4. QED
      BY <1>8, <2>3 DEF GetPrefix, Goto, TypeOK, WorkerPC, ClientPC, storeVars, histVars
  <1>9. ASSUME NEW c \in Clients, Close(c) PROVE TypeOK'
    BY <1>9 DEF Close, Goto, TypeOK, WorkerPC, ClientPC, storeVars, histVars
  <1>10. ASSUME NEW c \in Clients, PutResume(c) PROVE TypeOK'
    <2>1. call[c] \in CallType /\ pc[c] = "putWoken" /\ up
      BY <1>10 DEF PutResume, TypeOK, Control, DownIsEmpty
    <2>2. CASE Goto(c, "putWait") /\ UNCHANGED <<active, immutables, worker, call, log>>
      BY <1>10, <2>2 DEF PutResume, Goto, TypeOK, WorkerPC, ClientPC, storeVars, histVars
    <2>3. ASSUME NEW k \in call[c].keys, RotateAndWrite(k, call[c].del), Return(c)
          PROVE  TypeOK'
      <3>1. k \in Keys /\ call[c].del \in BOOLEAN
        BY <2>1, <2>3 DEF CallType
      <3>2. active # <<>> /\ active[1] \in MemtableType
        BY <2>1, CallerHasActive DEF Closing
      <3>3. immutables' \in Seq(MemtableType)
        BY <2>3, <3>2 DEF RotateAndWrite, TypeOK
      <3>4. active' \in Seq(MemtableType) /\ Len(active') = 1 /\ log' \in Seq(Record)
        BY <2>3, <3>1, WriteType DEF RotateAndWrite
      <3>5. NoCall \in CallType
        BY CallTypes
      <3>6. QED
        BY <1>10, <2>3, <3>3, <3>4, <3>5
        DEF PutResume, RotateAndWrite, NotifyFlush, Return, Goto, TypeOK, WorkerPC,
           ClientPC, storeVars, histVars
    <2>4. QED
      BY <1>10, <2>2, <2>3 DEF PutResume
  <1>11. ASSUME NEW c \in Clients, BarrierResume(c) PROVE TypeOK'
    <2>1. NoCall \in CallType
      BY CallTypes
    <2>2. call[c].mark \in Nat
      BY <1>11 DEF TypeOK, CallType
    <2>3. QED
      BY <1>11, <2>1, <2>2 DEF BarrierResume, Return, Goto, TypeOK, WorkerPC, ClientPC,
         storeVars, histVars
  <1>12. ASSUME NEW c \in Clients, GetSST(c) PROVE TypeOK'
    <2>1. UNION {TablesGet(k) : k \in call[c].keys} \subseteq Record
      BY TablesLookupType
    <2>2. [call[c] EXCEPT !.found = UNION {TablesGet(k) : k \in call[c].keys}] \in CallType
      BY <2>1 DEF TypeOK, CallType
    <2>3. QED
      BY <1>12, <2>2 DEF GetSST, Goto, TypeOK, WorkerPC, ClientPC, storeVars, histVars
  <1>13. ASSUME NEW c \in Clients, ScanSST(c) PROVE TypeOK'
    <2> DEFINE todo == {k \in call[c].keys : \A r \in call[c].found : r.key # k}
               more == UNION {TablesGet(k) : k \in todo}
    <2>1. more \subseteq Record
      BY TablesLookupType
    <2>2. [call[c] EXCEPT !.found = @ \union more] \in CallType
      BY <2>1 DEF TypeOK, CallType
    <2>3. QED
      BY <1>13, <2>2 DEF ScanSST, Goto, TypeOK, WorkerPC, ClientPC, storeVars, histVars
  <1>14. ASSUME NEW c \in Clients, ReadReturn(c) PROVE TypeOK'
    <2>1. NoCall \in CallType
      BY CallTypes
    <2>2. QED
      BY <1>14, <2>1 DEF ReadReturn, Return, Goto, TypeOK, WorkerPC, ClientPC,
         storeVars, histVars
  <1>15. ASSUME NEW c \in Clients, CloseNotify(c) PROVE TypeOK'
    BY <1>15 DEF CloseNotify, Goto, NotifyFlush, TypeOK, WorkerPC, ClientPC, storeVars,
       histVars
  <1>16. ASSUME NEW c \in Clients, CloseJoin(c) PROVE TypeOK'
    <2>1. CASE active[1].data # <<>>
      <3>1. up /\ ~Draining(c) /\ pc[c] = "closeJoin"
        BY <1>16 DEF CloseJoin, Control, DownIsEmpty, Draining
      <3>2. active # <<>>
        BY <3>1 DEF Control, ActiveExists, CloseAlone, Closing, Draining
      <3>3. active[1] \in MemtableType
        BY <3>2 DEF TypeOK
      <3>4. immutables' \in Seq(MemtableType) /\ active' = <<>>
        <4>1. immutables' = Append(immutables, active[1]) /\ active' = <<>>
          BY <1>16, <2>1 DEF CloseJoin
        <4>2. immutables \in Seq(MemtableType)
          BY DEF TypeOK
        <4>3. QED
          BY <3>3, <4>1, <4>2, AppendProperties
      <3>5. QED
        BY <1>16, <3>4 DEF CloseJoin, Goto, TypeOK, WorkerPC, ClientPC, storeVars,
           histVars
    <2>2. CASE active[1].data = <<>>
      BY <1>16, <2>2 DEF CloseJoin, Goto, TypeOK, WorkerPC, ClientPC, storeVars, histVars
    <2>3. QED
      BY <2>1, <2>2
  <1>17. ASSUME NEW c \in Clients, CloseDrain(c) PROVE TypeOK'
    BY <1>17 DEF CloseDrain, Goto, TypeOK, WorkerPC, ClientPC, storeVars, histVars
  <1>18. ASSUME NEW c \in Clients, CloseFlush(c) PROVE TypeOK'
    <2>1. inflight # <<>>
      BY <1>18 DEF CloseFlush, Control, InflightOwner
    <2>2. /\ inflight' = <<>> /\ flushed' \in Nat
          /\ tables' \in Seq(TableType) /\ gone' \subseteq Nat
      BY <1>18, <2>1, FlushType DEF CloseFlush, Goto
    <2>3. <<>> \in Seq(MemtableType) /\ Len(<<>>) = 0
      BY EmptySeq
    <2>4. QED
      BY <1>18, <2>2, <2>3 DEF CloseFlush, Goto, TypeOK, WorkerPC, ClientPC, storeVars,
         histVars
  <1>19. ASSUME NEW c \in Clients, CloseReturn(c) PROVE TypeOK'
    <2>1. NoCall \in CallType
      BY CallTypes
    <2>2. <<>> \in Seq(MemtableType) /\ Len(<<>>) = 0
      BY EmptySeq
    <2>3. pc' \in [Clients -> ClientPC] /\ call' \in [Clients -> CallType]
      BY <1>19, <2>1 DEF CloseReturn, Return, Goto, ClientPC, TypeOK
    <2>4. /\ UNCHANGED <<immutables, inflight, tables, flushInProgress, log, flushed, gone>>
          /\ up' \in BOOLEAN /\ shuttingDown' \in BOOLEAN /\ worker' \in WorkerPC /\ active' = <<>>
          /\ synced' = Len(log)
      BY <1>19 DEF CloseReturn, WorkerPC
    <2>5. QED
      BY <2>2, <2>3, <2>4 DEF TypeOK
  <1>20. CASE WorkerPop
    BY <1>20 DEF WorkerPop, TypeOK, WorkerPC, ClientPC, storeVars, histVars
  <1>21. CASE WorkerExit
    BY <1>21 DEF WorkerExit, TypeOK, WorkerPC, ClientPC, storeVars, histVars
  <1>22. CASE WorkerFindsNothing
    BY <1>22 DEF WorkerFindsNothing, TypeOK, WorkerPC, ClientPC, storeVars, histVars
  <1>23. CASE WorkerSleep
    BY <1>23 DEF WorkerSleep, TypeOK, WorkerPC, ClientPC, storeVars, histVars
  <1>24. CASE WorkerNotifyBackpressure
    BY <1>24 DEF WorkerNotifyBackpressure, NotifyAll, TypeOK, WorkerPC, ClientPC,
       storeVars, histVars
  <1>25. CASE WorkerFlush
    <2>1. inflight # <<>>
      BY <1>25 DEF WorkerFlush, Control, InflightOwner
    <2>2. /\ inflight' = <<>> /\ flushed' \in Nat
          /\ tables' \in Seq(TableType) /\ gone' \subseteq Nat
      BY <1>25, <2>1, FlushType DEF WorkerFlush
    <2>3. <<>> \in Seq(MemtableType) /\ Len(<<>>) = 0
      BY EmptySeq
    <2>4. QED
      BY <1>25, <2>2, <2>3 DEF WorkerFlush, TypeOK, WorkerPC, ClientPC, storeVars,
         histVars
  <1>26. CASE WorkerClear
    BY <1>26 DEF WorkerClear, TypeOK, WorkerPC, ClientPC, storeVars, histVars
  <1>27. CASE WorkerNotifyBarrier
    BY <1>27 DEF WorkerNotifyBarrier, NotifyAll, TypeOK, WorkerPC, ClientPC, storeVars,
       histVars
  <1>28. CASE SpuriousWakeup
    BY <1>28 DEF SpuriousWakeup, Goto, TypeOK, WorkerPC, ClientPC, storeVars, histVars
  <1>29. CASE Open
    <2>1. \A t \in TableType : RecoveredTable(t) \in TableType
      BY RecoveredType
    <2>2. tables' \in Seq(TableType)
      <3>1. \A i \in 1 .. Len(tables) : RecoveredTable(tables[i]) \in TableType
        BY <2>1 DEF TypeOK
      <3>2. tables' = [i \in 1 .. Len(tables) |-> RecoveredTable(tables[i])]
        BY <1>29 DEF Open, TypeOK
      <3>3. tables' \in [1 .. Len(tables) -> TableType] /\ Len(tables) \in Nat
        BY <3>1, <3>2 DEF TypeOK
      <3>4. QED
        BY <3>3, SeqDef
    <2>3. EmptyMemtable(Len(log)) \in MemtableType
      BY DEF EmptyMemtable, MemtableType, TypeOK
    <2>4. active' \in Seq(MemtableType) /\ Len(active') = 1
      BY <1>29, <2>3 DEF Open
    <2>5. QED
      BY <1>29, <2>2, <2>4 DEF Open, TypeOK, WorkerPC, ClientPC, storeVars, histVars
  <1>30. CASE RemoveAll
    BY <1>30 DEF RemoveAll, TypeOK, WorkerPC, ClientPC, storeVars, histVars
  <1>31. CASE Crash
    <2>1. NoCall \in CallType
      BY CallTypes
    <2>2. log' \in Seq(Record)
      BY <1>31, FlushedInLog DEF Crash, TypeOK
    <2>3. <<>> \in Seq(MemtableType) /\ Len(<<>>) = 0
      BY EmptySeq
    <2>4. pc' \in [Clients -> ClientPC] /\ call' \in [Clients -> CallType]
      BY <1>31, <2>1 DEF Crash, LoseMemory, ClientPC, TypeOK
    <2>5. /\ UNCHANGED <<tables, flushed, gone>> /\ synced' = flushed
          /\ up' \in BOOLEAN /\ shuttingDown' \in BOOLEAN /\ flushInProgress' \in BOOLEAN
          /\ worker' \in WorkerPC /\ active' = <<>> /\ immutables' = <<>> /\ inflight' = <<>>
      BY <1>31 DEF Crash, LoseMemory, WorkerPC
    <2>6. QED
      BY <2>2, <2>3, <2>4, <2>5 DEF TypeOK
  <1>32. ASSUME NEW n \in 0 .. MaxWrites, NEW torn \in BOOLEAN, CrashInFlush(n, torn)
     PROVE TypeOK'
    <2> DEFINE t == CrashedTable(inflight[1], n, torn)
    <2>1. NoCall \in CallType
      BY CallTypes
    <2>2. n \in 0 .. Len(inflight[1].data) /\ inflight # <<>>
      <3>1. inflight # <<>>
        BY <1>32 DEF CrashInFlush, Control, InflightOwner, Writing
      <3>2. QED
        BY <1>32, <3>1 DEF CrashInFlush, TypeOK, MemtableType
    <2>3. t \in TableType /\ Shadowed(t) \subseteq Nat /\ LastWrite(t) \in flushed .. Len(log)
      BY <1>32, <2>2, CrashedFile DEF CrashInFlush
    <2>4. tables' \in Seq(TableType)
      BY <1>32, <2>3, Prepend DEF CrashInFlush, TypeOK
    <2>5. log' \in Seq(Record)
      BY <1>32, <2>3 DEF CrashInFlush, TypeOK
    <2>6. flushed' \in Nat /\ synced' \in Nat /\ gone' \subseteq Nat
      <3>1. LastWrite(t) \in Nat
        BY <2>3 DEF TypeOK
      <3>2. QED
        BY <1>32, <2>3, <3>1 DEF CrashInFlush, TypeOK
    <2>7. <<>> \in Seq(MemtableType) /\ Len(<<>>) = 0
      BY EmptySeq
    <2>8. pc' \in [Clients -> ClientPC] /\ call' \in [Clients -> CallType]
      BY <1>32, <2>1 DEF CrashInFlush, LoseMemory, ClientPC, TypeOK
    <2>9. /\ up' \in BOOLEAN /\ shuttingDown' \in BOOLEAN /\ flushInProgress' \in BOOLEAN
          /\ worker' \in WorkerPC /\ active' = <<>> /\ immutables' = <<>> /\ inflight' = <<>>
      BY <1>32 DEF CrashInFlush, LoseMemory, WorkerPC
    <2>10. QED
      BY <2>4, <2>5, <2>6, <2>7, <2>8, <2>9 DEF TypeOK
  <1>33. CASE UNCHANGED vars
    BY <1>33 DEF TypeOK, vars
  <1>34. QED
    BY <1>1, <1>2, <1>3, <1>4, <1>5, <1>6, <1>7, <1>8, <1>9, <1>10, <1>11, <1>12, <1>13,
       <1>14, <1>15, <1>16, <1>17, <1>18, <1>19, <1>20, <1>21, <1>22, <1>23, <1>24,
       <1>25, <1>26, <1>27, <1>28, <1>29, <1>30, <1>31, <1>32, <1>33, MutationAssumption
       DEF Next, Call, Continue, Worker

--------------------------------------------------------------------------------
(* Every step keeps the threads where Control says they are.               *)
LEMMA ControlStep == IInv /\ [Next]_vars => Control'
  <1> SUFFICES ASSUME IInv, [Next]_vars PROVE Control'
    OBVIOUS
  <1> USE DEF IInv
  <1>1. ASSUME NEW c \in Clients, NEW k \in Keys, NEW d \in BOOLEAN, Put(c, k, d)
     PROVE Control'
    BY <1>1 DEF Put, MayCall, Write, MemAdd, Control, DownIsEmpty, CloseAlone,
       DrainsAlone, WorkerState, InflightOwner, ActiveExists, DrainedActive, Closing,
       Draining, TypeOK, storeVars, histVars
  <1>2. ASSUME NEW c \in Clients, NEW k \in Keys, NEW d \in BOOLEAN, PutRotate(c, k, d)
     PROVE Control'
    BY <1>2 DEF PutRotate, MayCall, RotateAndWrite, Write, MemAdd, EmptyMemtable,
       NotifyFlush, Control, DownIsEmpty, CloseAlone, DrainsAlone, WorkerState,
       InflightOwner, ActiveExists, DrainedActive, Closing, Draining, TypeOK, storeVars,
       histVars
  <1>3. ASSUME NEW c \in Clients, NEW k \in Keys, NEW d \in BOOLEAN, PutBlock(c, k, d)
     PROVE Control'
    BY <1>3 DEF PutBlock, MayCall, Goto, NewCall, Control, DownIsEmpty, CloseAlone,
       DrainsAlone, WorkerState, InflightOwner, ActiveExists, DrainedActive, Closing,
       Draining, TypeOK, storeVars, histVars
  <1>4. ASSUME NEW c \in Clients, BarrierRotate(c) PROVE Control'
    BY <1>4 DEF BarrierRotate, MayCall, EmptyMemtable, NotifyFlush, Goto, NewCall,
       Control, DownIsEmpty, CloseAlone, DrainsAlone, WorkerState, InflightOwner,
       ActiveExists, DrainedActive, Closing, Draining, TypeOK, storeVars, histVars
  <1>5. ASSUME NEW c \in Clients, BarrierWait(c) PROVE Control'
    BY <1>5 DEF BarrierWait, MayCall, Goto, NewCall, Control, DownIsEmpty, CloseAlone,
       DrainsAlone, WorkerState, InflightOwner, ActiveExists, DrainedActive, Closing,
       Draining, TypeOK, storeVars, histVars
  <1>6. ASSUME NEW c \in Clients, BarrierReturn(c) PROVE Control'
    BY <1>6 DEF BarrierReturn, MayCall, Control, DownIsEmpty, CloseAlone, DrainsAlone,
       WorkerState, InflightOwner, ActiveExists, DrainedActive, Closing, Draining,
       TypeOK, storeVars, histVars
  <1>7. ASSUME NEW c \in Clients, NEW k \in Keys, Get(c, k) PROVE Control'
    BY <1>7 DEF Get, MayCall, Goto, NewCall, Control, DownIsEmpty, CloseAlone,
       DrainsAlone, WorkerState, InflightOwner, ActiveExists, DrainedActive, Closing,
       Draining, TypeOK, storeVars, histVars
  <1>8. ASSUME NEW c \in Clients, GetPrefix(c, Keys) PROVE Control'
    BY <1>8 DEF GetPrefix, MayCall, Goto, NewCall, Control, DownIsEmpty, CloseAlone,
       DrainsAlone, WorkerState, InflightOwner, ActiveExists, DrainedActive, Closing,
       Draining, TypeOK, storeVars, histVars
  <1>9. ASSUME NEW c \in Clients, Close(c) PROVE Control'
    BY <1>9 DEF Close, Goto, Control, DownIsEmpty, CloseAlone, DrainsAlone, WorkerState,
       InflightOwner, ActiveExists, DrainedActive, Closing, Draining, TypeOK, storeVars,
       histVars
  <1>10. ASSUME NEW c \in Clients, PutResume(c) PROVE Control'
    <2>1. CASE Goto(c, "putWait") /\ UNCHANGED <<active, immutables, worker, call, log>>
      BY <1>10, <2>1 DEF PutResume, Goto, Control, DownIsEmpty, CloseAlone, DrainsAlone,
         WorkerState, InflightOwner, ActiveExists, DrainedActive, Closing, Draining,
         TypeOK, storeVars, histVars
    <2>2. ASSUME NEW k \in call[c].keys, RotateAndWrite(k, call[c].del), Return(c)
          PROVE  Control'
      <3>1. /\ active' # <<>>
            /\ worker' = IF worker = "asleep" THEN "lock" ELSE worker
            /\ pc' = [pc EXCEPT ![c] = "idle"]
        BY <2>2 DEF RotateAndWrite, Write, NotifyFlush, Return, Goto
      <3>2. /\ pc[c] = "putWoken" /\ up
            /\ UNCHANGED <<up, inflight, shuttingDown, flushInProgress>>
        BY <1>10 DEF PutResume, Control, DownIsEmpty
      <3>3. QED
        BY <3>1, <3>2 DEF Control, DownIsEmpty, CloseAlone, DrainsAlone, WorkerState,
           InflightOwner, ActiveExists, DrainedActive, Closing, Draining, TypeOK,
           storeVars, histVars
    <2>3. QED
      BY <1>10, <2>1, <2>2 DEF PutResume
  <1>11. ASSUME NEW c \in Clients, BarrierResume(c) PROVE Control'
    BY <1>11 DEF BarrierResume, Goto, Return, NoCall, Control, DownIsEmpty, CloseAlone,
       DrainsAlone, WorkerState, InflightOwner, ActiveExists, DrainedActive, Closing,
       Draining, TypeOK, storeVars, histVars
  <1>12. ASSUME NEW c \in Clients, GetSST(c) PROVE Control'
    BY <1>12 DEF GetSST, Goto, Control, DownIsEmpty, CloseAlone, DrainsAlone,
       WorkerState, InflightOwner, ActiveExists, DrainedActive, Closing, Draining,
       TypeOK, storeVars, histVars
  <1>13. ASSUME NEW c \in Clients, ScanSST(c) PROVE Control'
    BY <1>13 DEF ScanSST, Goto, Control, DownIsEmpty, CloseAlone, DrainsAlone,
       WorkerState, InflightOwner, ActiveExists, DrainedActive, Closing, Draining,
       TypeOK, storeVars, histVars
  <1>14. ASSUME NEW c \in Clients, ReadReturn(c) PROVE Control'
    BY <1>14 DEF ReadReturn, Goto, Return, NoCall, Control, DownIsEmpty, CloseAlone,
       DrainsAlone, WorkerState, InflightOwner, ActiveExists, DrainedActive, Closing,
       Draining, TypeOK, storeVars, histVars
  <1>15. ASSUME NEW c \in Clients, CloseNotify(c) PROVE Control'
    BY <1>15 DEF CloseNotify, Goto, NotifyFlush, Control, DownIsEmpty, CloseAlone,
       DrainsAlone, WorkerState, InflightOwner, ActiveExists, DrainedActive, Closing,
       Draining, TypeOK, storeVars, histVars
  <1>16. ASSUME NEW c \in Clients, CloseJoin(c) PROVE Control'
    BY <1>16 DEF CloseJoin, Goto, Control, DownIsEmpty, CloseAlone, DrainsAlone,
       WorkerState, InflightOwner, ActiveExists, DrainedActive, Closing, Draining,
       TypeOK, storeVars, histVars
  <1>17. ASSUME NEW c \in Clients, CloseDrain(c) PROVE Control'
    BY <1>17 DEF CloseDrain, Goto, Control, DownIsEmpty, CloseAlone, DrainsAlone,
       WorkerState, InflightOwner, ActiveExists, DrainedActive, Closing, Draining,
       TypeOK, storeVars, histVars
  <1>18. ASSUME NEW c \in Clients, CloseFlush(c) PROVE Control'
    <2>1. inflight' = <<>>
      BY <1>18 DEF CloseFlush, FlushMemtableToL0
    <2>2. /\ pc[c] = "closeFlush" /\ pc' = [pc EXCEPT ![c] = "closeDrain"] /\ up
          /\ UNCHANGED <<up, active, immutables, shuttingDown, flushInProgress, worker, log>>
      BY <1>18 DEF CloseFlush, Goto, Control, DownIsEmpty
    <2>3. QED
      BY <2>1, <2>2 DEF Control, DownIsEmpty, CloseAlone, DrainsAlone, WorkerState,
         InflightOwner, ActiveExists, DrainedActive, Closing, Draining, TypeOK,
         storeVars, histVars
  <1>19. ASSUME NEW c \in Clients, CloseReturn(c) PROVE Control'
    <2>1. /\ pc[c] = "closeDrain" /\ immutables = <<>> /\ up /\ worker = "exited"
          /\ \A other \in Clients : other # c => pc[other] = "idle"
      BY <1>19 DEF CloseReturn, Control, DownIsEmpty, CloseAlone, DrainsAlone, Closing,
         Draining
    <2>2. inflight = <<>> /\ ~flushInProgress
      BY <2>1 DEF Control, InflightOwner, WorkerState
    <2>3. flushed = Len(log)
      <3>1. AfterImmutables = flushed
        BY <2>1, <2>2 DEF AfterImmutables, AfterInflight
      <3>2. active # <<>> => LastWrite(active[1]) = active[1].base
        <4>1. active # <<>> => active[1].data = <<>> /\ active[1].base \in Nat
          <5>1. active # <<>> => active[1] \in MemtableType
            BY DEF TypeOK
          <5>2. active # <<>> => active[1].data = <<>>
            BY <2>1 DEF Control, DrainedActive, Draining
          <5>3. QED
            BY <5>1, <5>2, MemtableFacts
        <4>2. QED
          BY <4>1 DEF LastWrite
      <3>3. QED
        BY <2>1, <3>1, <3>2 DEF WritesInOrder
    <2>4. /\ immutables' = <<>> /\ inflight' = <<>> /\ active' = <<>> /\ worker' = "none"
          /\ ~up' /\ flushed' = Len(log') /\ ~flushInProgress'
      BY <1>19, <2>1, <2>2, <2>3 DEF CloseReturn
    <2>5. \A other \in Clients : pc'[other] = "idle"
      BY <1>19, <2>1 DEF CloseReturn, Return, Goto, TypeOK
    <2>6. QED
      BY <2>4, <2>5 DEF Control, DownIsEmpty, CloseAlone, DrainsAlone, WorkerState,
         InflightOwner, ActiveExists, DrainedActive, Closing, Draining, TypeOK,
         storeVars, histVars
  <1>20. CASE WorkerPop
    BY <1>20 DEF WorkerPop, Control, DownIsEmpty, CloseAlone, DrainsAlone, WorkerState,
       InflightOwner, ActiveExists, DrainedActive, Closing, Draining, TypeOK, storeVars,
       histVars
  <1>21. CASE WorkerExit
    BY <1>21 DEF WorkerExit, Control, DownIsEmpty, CloseAlone, DrainsAlone, WorkerState,
       InflightOwner, ActiveExists, DrainedActive, Closing, Draining, TypeOK, storeVars,
       histVars
  <1>22. CASE WorkerFindsNothing
    BY <1>22 DEF WorkerFindsNothing, Control, DownIsEmpty, CloseAlone, DrainsAlone,
       WorkerState, InflightOwner, ActiveExists, DrainedActive, Closing, Draining,
       TypeOK, storeVars, histVars
  <1>23. CASE WorkerSleep
    BY <1>23 DEF WorkerSleep, Control, DownIsEmpty, CloseAlone, DrainsAlone,
       WorkerState, InflightOwner, ActiveExists, DrainedActive, Closing, Draining,
       TypeOK, storeVars, histVars
  <1>24. CASE WorkerNotifyBackpressure
    BY <1>24 DEF WorkerNotifyBackpressure, NotifyAll, Control, DownIsEmpty, CloseAlone,
       DrainsAlone, WorkerState, InflightOwner, ActiveExists, DrainedActive, Closing,
       Draining, TypeOK, storeVars, histVars
  <1>25. CASE WorkerFlush
    <2>1. inflight' = <<>>
      BY <1>25 DEF WorkerFlush, FlushMemtableToL0
    <2>2. /\ worker = "flush" /\ worker' = "clear" /\ up
          /\ UNCHANGED <<up, active, immutables, shuttingDown, flushInProgress, pc, log>>
      BY <1>25 DEF WorkerFlush, Control, DownIsEmpty
    <2>3. QED
      BY <2>1, <2>2 DEF Control, DownIsEmpty, CloseAlone, DrainsAlone, WorkerState,
         InflightOwner, ActiveExists, DrainedActive, Closing, Draining, TypeOK,
         storeVars, histVars
  <1>26. CASE WorkerClear
    BY <1>26 DEF WorkerClear, Control, DownIsEmpty, CloseAlone, DrainsAlone,
       WorkerState, InflightOwner, ActiveExists, DrainedActive, Closing, Draining,
       TypeOK, storeVars, histVars
  <1>27. CASE WorkerNotifyBarrier
    BY <1>27 DEF WorkerNotifyBarrier, NotifyAll, Control, DownIsEmpty, CloseAlone,
       DrainsAlone, WorkerState, InflightOwner, ActiveExists, DrainedActive, Closing,
       Draining, TypeOK, storeVars, histVars
  <1>28. CASE SpuriousWakeup
    BY <1>28 DEF SpuriousWakeup, Goto, Control, DownIsEmpty, CloseAlone, DrainsAlone,
       WorkerState, InflightOwner, ActiveExists, DrainedActive, Closing, Draining,
       TypeOK, storeVars, histVars
  <1>29. CASE Open
    BY <1>29 DEF Open, EmptyMemtable, Control, DownIsEmpty, CloseAlone, DrainsAlone,
       WorkerState, InflightOwner, ActiveExists, DrainedActive, Closing, Draining,
       TypeOK, storeVars, histVars
  <1>30. CASE RemoveAll
    BY <1>30 DEF RemoveAll, Control, DownIsEmpty, CloseAlone, DrainsAlone, WorkerState,
       InflightOwner, ActiveExists, DrainedActive, Closing, Draining, TypeOK, storeVars,
       histVars
  <1>31. CASE Crash
    BY <1>31 DEF Crash, LoseMemory, NoCall, Control, DownIsEmpty, CloseAlone,
       DrainsAlone, WorkerState, InflightOwner, ActiveExists, DrainedActive, Closing,
       Draining, TypeOK, storeVars, histVars
  <1>32. ASSUME NEW n \in 0 .. MaxWrites, NEW torn \in BOOLEAN, CrashInFlush(n, torn)
     PROVE Control'
    <2> DEFINE t == CrashedTable(inflight[1], n, torn)
    <2>1. n \in 0 .. Len(inflight[1].data)
      <3>1. inflight # <<>>
        BY <1>32 DEF CrashInFlush, Control, InflightOwner, Writing
      <3>2. QED
        BY <1>32, <3>1 DEF CrashInFlush, TypeOK, MemtableType
    <2>2. LastWrite(t) \in flushed .. Len(log)
      BY <1>32, <2>1, CrashedFile DEF CrashInFlush
    <2>3. flushed' = Len(log')
      BY <1>32, <2>2 DEF CrashInFlush, TypeOK
    <2>4. /\ immutables' = <<>> /\ inflight' = <<>> /\ active' = <<>> /\ worker' = "none"
          /\ ~up' /\ ~flushInProgress'
          /\ \A c \in Clients : pc'[c] = "idle"
      BY <1>32 DEF CrashInFlush, LoseMemory
    <2>5. QED
      BY <2>3, <2>4 DEF Control, DownIsEmpty, CloseAlone, DrainsAlone, WorkerState,
         InflightOwner, ActiveExists, DrainedActive, Closing, Draining, TypeOK,
         storeVars, histVars
  <1>33. CASE UNCHANGED vars
    BY <1>33 DEF Control, DownIsEmpty, CloseAlone, DrainsAlone, WorkerState,
       InflightOwner, ActiveExists, DrainedActive, Closing, Draining, TypeOK, storeVars,
       histVars, vars
  <1>34. QED
    BY <1>1, <1>2, <1>3, <1>4, <1>5, <1>6, <1>7, <1>8, <1>9, <1>10, <1>11, <1>12, <1>13,
       <1>14, <1>15, <1>16, <1>17, <1>18, <1>19, <1>20, <1>21, <1>22, <1>23, <1>24,
       <1>25, <1>26, <1>27, <1>28, <1>29, <1>30, <1>31, <1>32, <1>33, MutationAssumption
       DEF Next, Call, Continue, Worker

--------------------------------------------------------------------------------
(* The order of the writes.  First, what adding a record does to a         *)
(* memtable and to those that were there before.                           *)
Ordered == WritesInOrder /\ QueueMonotone

\* A memtable holds its part of a longer history.
LEMMA HoldsAppend ==
    ASSUME NEW m \in MemtableType, NEW h \in Seq(Record), NEW rec \in Record, Holds(m, h)
    PROVE  Holds(m, Append(h, rec))
  <1>1. /\ Append(h, rec) \in Seq(Record) /\ Len(Append(h, rec)) = Len(h) + 1
        /\ \A i \in 1 .. Len(h) : Append(h, rec)[i] = h[i]
    BY AppendProperties
  <1>2. \A i \in DOMAIN m.data : m.base + i \in 1 .. Len(h)
    BY MemtableFacts DEF Holds
  <1>3. QED
    BY <1>1, <1>2, MemtableFacts DEF Holds

\* A memtable that gets the newest write holds the end of the history.
LEMMA AddHolds ==
    ASSUME NEW m \in MemtableType, NEW h \in Seq(Record), NEW rec \in Record,
       NEW size \in Nat,
           Holds(m, h), LastWrite(m) = Len(h)
    PROVE  /\ Holds(MemAdd(m, rec, size), Append(h, rec))
           /\ MemAdd(m, rec, size).base = m.base
           /\ LastWrite(MemAdd(m, rec, size)) = Len(Append(h, rec))
  <1> DEFINE x == MemAdd(m, rec, size)
             g == Append(h, rec)
  <1>1. /\ g \in Seq(Record) /\ Len(g) = Len(h) + 1 /\ g[Len(h) + 1] = rec
        /\ \A i \in 1 .. Len(h) : g[i] = h[i]
    BY AppendProperties
  <1>2. x.base = m.base /\ x.data = Append(m.data, rec)
    BY DEF MemAdd, MemtableType
  <1> HIDE DEF x, g
  <1>3. /\ m.base \in Nat /\ m.data \in Seq(Record) /\ Len(m.data) \in Nat /\ Len(h) \in Nat
        /\ Len(h) = m.base + Len(m.data)
    BY MemtableFacts
  <1>4. /\ x.data \in Seq(Record) /\ Len(x.data) = Len(m.data) + 1
        /\ x.data[Len(m.data) + 1] = rec
        /\ \A i \in 1 .. Len(m.data) : x.data[i] = m.data[i]
    BY <1>2, <1>3, AppendProperties
  <1>5. LastWrite(x) = Len(g)
    BY <1>1, <1>2, <1>3, <1>4 DEF LastWrite
  <1>6. ASSUME NEW i \in DOMAIN x.data PROVE x.data[i] = g[x.base + i]
    <2>1. i \in 1 .. (Len(m.data) + 1)
      BY <1>4
    <2>2. CASE i = Len(m.data) + 1
      BY SMTT(30), <1>1, <1>2, <1>3, <1>4, <2>2
    <2>3. CASE i \in 1 .. Len(m.data)
      <3>1. m.data[i] = h[m.base + i] /\ m.base + i \in 1 .. Len(h)
        BY SMTT(30), <1>3, <2>3 DEF Holds
      <3>2. QED
        BY <1>1, <1>2, <1>4, <2>3, <3>1
    <2>4. QED
      BY SMTT(30), <1>3, <2>1, <2>2, <2>3
  <1>7. Holds(x, g)
    BY <1>1, <1>3, <1>5, <1>6 DEF Holds
  <1>8. QED
    BY <1>2, <1>5, <1>7 DEF x, g

\* An empty memtable holds nothing of the history.
LEMMA EmptyHolds ==
    ASSUME NEW h \in Seq(Record)
    PROVE  /\ EmptyMemtable(Len(h)) \in MemtableType
           /\ Holds(EmptyMemtable(Len(h)), h)
           /\ EmptyMemtable(Len(h)).base = Len(h)
           /\ LastWrite(EmptyMemtable(Len(h))) = Len(h)
  <1>1. Len(h) \in Nat /\ <<>> \in Seq(Record) /\ Len(<<>>) = 0
    BY EmptySeq
  <1>2. QED
    BY <1>1 DEF EmptyMemtable, MemtableType, Holds, LastWrite

(* The history either stays or grows by a record: what held still holds.   *)
LEMMA LogGrows ==
    ASSUME TypeOK, NEW m \in MemtableType, Holds(m, log),
           \/ log' = log
           \/ \E rec \in Record : log' = Append(log, rec)
    PROVE  Holds(m, log')
  BY HoldsAppend DEF TypeOK

(* Moving the active memtable to the back of the queue.                    *)
LEMMA PushOrder ==
    ASSUME IInv, up, active # <<>>,
           immutables' = Append(immutables, active[1]),
           UNCHANGED <<inflight, flushed>>,
           \/ log' = log
           \/ \E rec \in Record : log' = Append(log, rec)
    PROVE  /\ inflight' # <<>> => inflight'[1].base = flushed' /\ Holds(inflight'[1], log')
           /\ immutables' # <<>> => immutables'[1].base = AfterInflight'
           /\ \A i \in DOMAIN immutables' :
                /\ Holds(immutables'[i], log')
                /\ i > 1 => immutables'[i].base = LastWrite(immutables'[i - 1])
           /\ QueueMonotone'
           /\ AfterImmutables' = Len(log)
  <1> USE DEF IInv
  <1> DEFINE l == Len(immutables)
             a == active[1]
             q == Append(immutables, a)
  <1>1. /\ l \in Nat /\ DOMAIN immutables = 1 .. l
        /\ \A i \in 1 .. l : immutables[i] \in MemtableType
        /\ a \in MemtableType
    BY DEF TypeOK
  <1>2. /\ q \in Seq(MemtableType) /\ Len(q) = l + 1 /\ DOMAIN q = 1 .. (l + 1)
        /\ q[l + 1] = a
        /\ \A i \in 1 .. l : q[i] = immutables[i]
    <2>1. immutables \in Seq(MemtableType)
      BY DEF TypeOK
    <2>2. QED
      BY <1>1, <2>1, AppendProperties
  <1>3. Holds(a, log) /\ a.base = AfterImmutables /\ LastWrite(a) = Len(log)
    BY DEF WritesInOrder
  <1>4. immutables' = q
    OBVIOUS
  <1>5. AfterInflight' = AfterInflight
    BY DEF AfterInflight
  <1>6. l >= 1 => a.base = LastWrite(immutables[l])
    BY <1>1, <1>3 DEF AfterImmutables
  <1>7. l = 0 => a.base = AfterInflight
    BY <1>1, <1>3 DEF AfterImmutables, TypeOK
  <1> HIDE DEF q, a, l
  <1>8. inflight' # <<>> => inflight'[1].base = flushed' /\ Holds(inflight'[1], log')
    BY LogGrows DEF WritesInOrder, TypeOK
  <1>9. q[1].base = AfterInflight
    <2>1. CASE l = 0
      BY <1>2, <1>7, <2>1
    <2>2. CASE l # 0
      <3>1. l >= 1 /\ immutables # <<>> /\ q[1] = immutables[1]
        BY <1>1, <1>2, <2>2 DEF l
      <3>2. QED
        BY <3>1 DEF WritesInOrder
    <2>3. QED
      BY <2>1, <2>2
  <1>10. ASSUME NEW i \in 1 .. (l + 1)
         PROVE  Holds(q[i], log') /\ (i > 1 => q[i].base = LastWrite(q[i - 1]))
    <2>1. CASE i = l + 1
      <3>1. Holds(q[i], log')
        BY <1>1, <1>2, <1>3, <2>1, LogGrows
      <3>2. i > 1 => l >= 1 /\ i - 1 = l /\ q[i - 1] = immutables[l]
        BY <1>1, <1>2, <2>1
      <3>3. QED
        BY <1>2, <1>6, <2>1, <3>1, <3>2
    <2>2. CASE i \in 1 .. l
      <3>1. Holds(immutables[i], log) /\ (i > 1 => immutables[i].base = LastWrite(immutables[i - 1]))
        BY <1>1, <2>2 DEF WritesInOrder
      <3>2. Holds(immutables[i], log')
        BY <1>1, <2>2, <3>1, LogGrows
      <3>3. i > 1 => q[i - 1] = immutables[i - 1]
        BY <1>1, <1>2, <2>2
      <3>4. QED
        BY <1>2, <2>2, <3>1, <3>2, <3>3
    <2>3. QED
      BY <1>1, <2>1, <2>2
  <1>11. QueueMonotone'
    <2> SUFFICES ASSUME NEW i \in 1 .. (l + 1), NEW j \in 1 .. (l + 1), i < j
                 PROVE  LastWrite(q[i]) <= q[j].base
      BY <1>2, <1>4 DEF QueueMonotone
    <2>1. i \in 1 .. l /\ q[i] = immutables[i]
      BY <1>1, <1>2
    <2>2. CASE j \in 1 .. l
      BY <1>1, <1>2, <2>1, <2>2 DEF QueueMonotone
    <2>3. CASE j = l + 1
      <3>1. q[j].base = LastWrite(immutables[l]) /\ l \in 1 .. l
        BY <1>1, <1>2, <1>6, <2>1, <2>3
      <3>2. CASE i = l
        BY <1>1, <2>1, <3>1, <3>2, MemtableFacts
      <3>3. CASE i # l
        <4>1. LastWrite(immutables[i]) <= immutables[l].base
          BY <1>1, <2>1, <3>1, <3>3 DEF QueueMonotone
        <4>2. QED
          BY <1>1, <2>1, <3>1, <4>1, MemtableFacts
      <3>4. QED
        BY <3>2, <3>3
    <2>4. QED
      BY <1>1, <2>2, <2>3
  <1>12. AfterImmutables' = Len(log)
    BY <1>1, <1>2, <1>3, <1>4, EmptySeq DEF AfterImmutables
  <1>13. QED
    BY <1>2, <1>4, <1>5, <1>8, <1>9, <1>10, <1>11, <1>12

(* Taking the oldest immutable memtable out to flush it.                   *)
LEMMA PopOrder ==
    ASSUME IInv, up, inflight = <<>>, immutables # <<>>,
           inflight' = <<Head(immutables)>>, immutables' = Tail(immutables),
           UNCHANGED <<up, active, flushed, log>>
    PROVE  Ordered'
  <1> USE DEF IInv
  <1> DEFINE l == Len(immutables)
             q == Tail(immutables)
  <1>1. /\ l \in Nat /\ l >= 1 /\ DOMAIN immutables = 1 .. l
        /\ \A i \in 1 .. l : immutables[i] \in MemtableType
        /\ immutables \in Seq(MemtableType)
    BY DEF TypeOK
  <1>2. /\ q \in Seq(MemtableType) /\ Len(q) = l - 1 /\ DOMAIN q = 1 .. (l - 1)
        /\ \A i \in 1 .. (l - 1) : q[i] = immutables[i + 1]
    BY <1>1, HeadTailProperties
  <1>3. inflight'[1] = immutables[1] /\ inflight' # <<>> /\ immutables' = q
    BY <1>1
  <1>4. immutables[1].base = flushed
    BY DEF WritesInOrder, AfterInflight
  <1>5. AfterInflight' = LastWrite(immutables[1])
    BY <1>3 DEF AfterInflight
  <1> HIDE DEF q, l
  <1>6. AfterImmutables' = AfterImmutables
    <2>1. AfterImmutables = LastWrite(immutables[l])
      BY DEF AfterImmutables, l
    <2>2. CASE l = 1
      BY <1>1, <1>2, <1>3, <1>5, <2>1, <2>2, EmptySeq DEF AfterImmutables
    <2>3. CASE l # 1
      <3>1. l - 1 \in 1 .. (l - 1) /\ (l - 1) + 1 = l /\ Len(q) # 0
        BY <1>1, <1>2, <2>3
      <3>2. q # <<>> /\ q[Len(q)] = immutables[l]
        BY <1>2, <3>1, EmptySeq
      <3>3. QED
        BY <1>3, <2>1, <3>2 DEF AfterImmutables
    <2>4. QED
      BY <2>2, <2>3
  <1>7. \A i \in 1 .. l :
           /\ Holds(immutables[i], log)
           /\ i > 1 => immutables[i].base = LastWrite(immutables[i - 1])
    BY <1>1 DEF WritesInOrder
  <1>8. q # <<>> => q[1].base = LastWrite(immutables[1])
    <2>1. q # <<>> => l >= 2 /\ q[1] = immutables[2]
      BY <1>1, <1>2, EmptySeq
    <2>2. QED
      BY <1>1, <1>7, <2>1
  <1>9. ASSUME NEW i \in 1 .. (l - 1)
        PROVE  Holds(q[i], log) /\ (i > 1 => q[i].base = LastWrite(q[i - 1]))
    <2>1. q[i] = immutables[i + 1] /\ i + 1 \in 1 .. l /\ i + 1 > 1
      BY <1>1, <1>2
    <2>2. i > 1 => q[i - 1] = immutables[i]
      BY <1>1, <1>2
    <2>3. immutables[i + 1].base = LastWrite(immutables[i])
      BY <1>1, <1>7, <2>1
    <2>4. QED
      BY <1>7, <2>1, <2>2, <2>3
  <1>10. WritesInOrder'
    <2>1. Holds(immutables[1], log)
      BY <1>1, <1>7
    <2>2. /\ active' # <<>> => active'[1].base = AfterImmutables' /\ Holds(active'[1], log')
          /\ Len(log') = IF active' = <<>> THEN AfterImmutables' ELSE LastWrite(active'[1])
      BY <1>6 DEF WritesInOrder
    <2>3. QED
      BY <1>2, <1>3, <1>4, <1>5, <1>8, <1>9, <2>1, <2>2 DEF WritesInOrder
  <1>11. QueueMonotone'
    <2> SUFFICES ASSUME NEW i \in 1 .. (l - 1), NEW j \in 1 .. (l - 1), i < j
                 PROVE  LastWrite(q[i]) <= q[j].base
      BY <1>2, <1>3 DEF QueueMonotone
    <2>1. i + 1 \in 1 .. l /\ j + 1 \in 1 .. l /\ i + 1 < j + 1
      BY <1>1
    <2>2. QED
      BY <1>1, <1>2, <2>1 DEF QueueMonotone
  <1>12. QED
    BY <1>10, <1>11 DEF Ordered

(* Handing the memtable taken out to an L0 file.                           *)
LEMMA FlushOrder ==
    ASSUME IInv, up, inflight # <<>>,
           inflight' = <<>>, flushed' = LastWrite(inflight[1]),
           UNCHANGED <<up, active, immutables, log>>
    PROVE  Ordered'
  <1> USE DEF IInv
  <1>1. AfterInflight' = AfterInflight
    BY DEF AfterInflight
  <1>2. AfterImmutables' = AfterImmutables
    BY <1>1 DEF AfterImmutables
  <1>3. WritesInOrder'
    BY <1>1, <1>2 DEF WritesInOrder
  <1>4. QED
    BY <1>3 DEF Ordered, QueueMonotone

(* _batchMutation with a rotation.                                         *)
LEMMA RotateOrder ==
    ASSUME IInv, up, active # <<>>, NEW k \in Keys, NEW d \in BOOLEAN,
           RotateAndWrite(k, d), UNCHANGED <<up, inflight, flushed>>
    PROVE  Ordered'
  <1> USE DEF IInv
  <1> DEFINE rec == [key |-> k, del |-> d, seq |-> Len(log) + 1]
             e == EmptyMemtable(Len(log))
             x == MemAdd(e, rec, EntrySize[k])
  <1>1. log \in Seq(Record) /\ rec \in Record /\ EntrySize[k] \in Nat
    BY SizeAssumption DEF TypeOK, Record
  <1>2. /\ active' = <<x>> /\ log' = Append(log, rec)
        /\ immutables' = Append(immutables, active[1])
    BY DEF RotateAndWrite, Write
  <1>3. e \in MemtableType /\ Holds(e, log) /\ e.base = Len(log) /\ LastWrite(e) = Len(log)
    BY <1>1, EmptyHolds
  <1>4. Holds(x, log') /\ x.base = Len(log) /\ LastWrite(x) = Len(log')
    BY <1>1, <1>2, <1>3, AddHolds
  <1> HIDE DEF x, e, rec
  <1>5. active' # <<>> /\ active'[1] = x
    BY <1>2
  <1>6. QED
    BY <1>1, <1>2, <1>4, <1>5, PushOrder DEF WritesInOrder, Ordered


(* Every step keeps the writes in order.                                   *)
LEMMA OrderStep == IInv /\ [Next]_vars => Ordered'
  <1> SUFFICES ASSUME IInv, [Next]_vars PROVE Ordered'
    OBVIOUS
  <1> USE DEF IInv
  <1>0. ASSUME UNCHANGED <<up, active, immutables, inflight, flushed, log>> PROVE Ordered'
    BY <1>0 DEF Ordered, WritesInOrder, QueueMonotone, AfterInflight, AfterImmutables
  <1>1. ASSUME NEW c \in Clients, NEW k \in Keys, NEW d \in BOOLEAN, Put(c, k, d)
     PROVE Ordered'
    <2> DEFINE rec == [key |-> k, del |-> d, seq |-> Len(log) + 1]
               a == active[1]
               x == MemAdd(a, rec, EntrySize[k])
    <2>1. up /\ active # <<>> /\ a \in MemtableType
      BY <1>1, CallerHasActive DEF Put, MayCall, Closing
    <2>2. log \in Seq(Record) /\ rec \in Record /\ EntrySize[k] \in Nat
      BY <1>1, SizeAssumption DEF TypeOK, Record
    <2>3. /\ active' = <<x>> /\ log' = Append(log, rec)
          /\ UNCHANGED <<up, immutables, inflight, flushed>>
      BY <1>1 DEF Put, Write
    <2>4. a.base = AfterImmutables /\ Holds(a, log) /\ LastWrite(a) = Len(log)
      BY <2>1 DEF WritesInOrder
    <2>5. Holds(x, log') /\ x.base = a.base /\ LastWrite(x) = Len(log')
      BY <2>1, <2>2, <2>3, <2>4, AddHolds
    <2>6. AfterInflight' = AfterInflight /\ AfterImmutables' = AfterImmutables
      BY <2>3 DEF AfterInflight, AfterImmutables
    <2> HIDE DEF x, a, rec
    <2>7. active' # <<>> /\ active'[1] = x
      BY <2>3
    <2>8. inflight # <<>> => Holds(inflight[1], log')
      BY <2>1, <2>2, <2>3, LogGrows DEF WritesInOrder, TypeOK
    <2>9. ASSUME NEW i \in DOMAIN immutables PROVE Holds(immutables[i], log')
      <3>1. immutables[i] \in MemtableType /\ Holds(immutables[i], log)
        BY <2>1 DEF WritesInOrder, TypeOK
      <3>2. QED
        BY <2>2, <2>3, <3>1, LogGrows
    <2>10. WritesInOrder'
      BY <2>1, <2>3, <2>4, <2>5, <2>6, <2>7, <2>8, <2>9 DEF WritesInOrder
    <2>11. QED
      BY <2>3, <2>10 DEF Ordered, QueueMonotone
  <1>2. ASSUME NEW c \in Clients, NEW k \in Keys, NEW d \in BOOLEAN, PutRotate(c, k, d)
     PROVE Ordered'
    <2>1. up /\ active # <<>>
      BY <1>2, CallerHasActive DEF PutRotate, MayCall, Closing
    <2>2. QED
      BY <1>2, <2>1, RotateOrder DEF PutRotate
  <1>3. ASSUME NEW c \in Clients, NEW k \in Keys, NEW d \in BOOLEAN, PutBlock(c, k, d)
     PROVE Ordered'
    BY <1>0, <1>3 DEF PutBlock, storeVars, histVars
  <1>4. ASSUME NEW c \in Clients, BarrierRotate(c) PROVE Ordered'
    <2>1. up /\ active # <<>>
      BY <1>4, CallerHasActive DEF BarrierRotate, MayCall, Closing
    <2>2. /\ active' = <<EmptyMemtable(Len(log))>>
          /\ immutables' = Append(immutables, active[1])
          /\ UNCHANGED <<up, inflight, flushed, log>>
      BY <1>4 DEF BarrierRotate, histVars
    <2>3. active' # <<>> /\ active'[1] = EmptyMemtable(Len(log))
      BY <2>2
    <2>4. /\ Holds(active'[1], log') /\ active'[1].base = Len(log)
          /\ LastWrite(active'[1]) = Len(log')
      BY <2>2, <2>3, EmptyHolds DEF TypeOK
    <2>5. QED
      BY <2>1, <2>2, <2>3, <2>4, PushOrder DEF WritesInOrder, Ordered
  <1>5. ASSUME NEW c \in Clients, BarrierWait(c) PROVE Ordered'
    BY <1>0, <1>5 DEF BarrierWait, storeVars, histVars
  <1>6. ASSUME NEW c \in Clients, BarrierReturn(c) PROVE Ordered'
    BY <1>0, <1>6 DEF BarrierReturn, storeVars, histVars
  <1>7. ASSUME NEW c \in Clients, NEW k \in Keys, Get(c, k) PROVE Ordered'
    BY <1>0, <1>7 DEF Get, storeVars, histVars
  <1>8. ASSUME NEW c \in Clients, GetPrefix(c, Keys) PROVE Ordered'
    BY <1>0, <1>8 DEF GetPrefix, storeVars, histVars
  <1>9. ASSUME NEW c \in Clients, Close(c) PROVE Ordered'
    BY <1>0, <1>9 DEF Close, storeVars, histVars
  <1>10. ASSUME NEW c \in Clients, PutResume(c) PROVE Ordered'
    <2>1. CASE UNCHANGED <<active, immutables, worker, call, log>>
      BY <1>0, <1>10, <2>1 DEF PutResume
    <2>2. ASSUME NEW k \in call[c].keys, RotateAndWrite(k, call[c].del) PROVE Ordered'
      <3>1. k \in Keys /\ call[c].del \in BOOLEAN
        BY <2>2 DEF TypeOK, CallType
      <3>2. up /\ pc[c] = "putWoken" /\ UNCHANGED <<up, inflight, flushed>>
        BY <1>10 DEF PutResume, Control, DownIsEmpty
      <3>3. active # <<>>
        BY <3>2, CallerHasActive DEF Closing
      <3>4. QED
        BY <2>2, <3>1, <3>2, <3>3, RotateOrder
    <2>3. QED
      BY <1>10, <2>1, <2>2 DEF PutResume
  <1>11. ASSUME NEW c \in Clients, BarrierResume(c) PROVE Ordered'
    BY <1>0, <1>11 DEF BarrierResume, storeVars, histVars
  <1>12. ASSUME NEW c \in Clients, GetSST(c) PROVE Ordered'
    BY <1>0, <1>12 DEF GetSST, storeVars, histVars
  <1>13. ASSUME NEW c \in Clients, ScanSST(c) PROVE Ordered'
    BY <1>0, <1>13 DEF ScanSST, storeVars, histVars
  <1>14. ASSUME NEW c \in Clients, ReadReturn(c) PROVE Ordered'
    BY <1>0, <1>14 DEF ReadReturn, storeVars, histVars
  <1>15. ASSUME NEW c \in Clients, CloseNotify(c) PROVE Ordered'
    BY <1>0, <1>15 DEF CloseNotify, storeVars, histVars
  <1>16. ASSUME NEW c \in Clients, CloseJoin(c) PROVE Ordered'
    <2>1. CASE active[1].data = <<>>
      BY <1>0, <1>16, <2>1 DEF CloseJoin, histVars
    <2>2. CASE active[1].data # <<>>
      <3>1. /\ immutables' = Append(immutables, active[1]) /\ active' = <<>>
            /\ UNCHANGED <<up, inflight, flushed, log>>
        BY <1>16, <2>2 DEF CloseJoin, histVars
      <3>2. up /\ ~Draining(c) /\ pc[c] = "closeJoin"
        BY <1>16 DEF CloseJoin, Control, DownIsEmpty, Draining
      <3>3. active # <<>>
        BY <3>2 DEF Control, ActiveExists, CloseAlone, Closing, Draining
      <3>4. QED
        BY <3>1, <3>2, <3>3, PushOrder DEF WritesInOrder, Ordered
    <2>3. QED
      BY <2>1, <2>2
  <1>17. ASSUME NEW c \in Clients, CloseDrain(c) PROVE Ordered'
    <2>1. /\ pc[c] = "closeDrain" /\ worker = "exited"
          /\ \A other \in Clients : other # c => pc[other] = "idle"
      BY <1>17 DEF CloseDrain, Control, DrainsAlone, CloseAlone, Closing, Draining
    <2>2. up /\ inflight = <<>>
      BY <2>1 DEF Control, DownIsEmpty, InflightOwner
    <2>3. QED
      BY <1>17, <2>2, PopOrder DEF CloseDrain, histVars
  <1>18. ASSUME NEW c \in Clients, CloseFlush(c) PROVE Ordered'
    <2>1. up /\ inflight # <<>>
      BY <1>18 DEF CloseFlush, Control, DownIsEmpty, InflightOwner
    <2>2. QED
      BY <1>18, <2>1, FlushOrder DEF CloseFlush, FlushMemtableToL0
  <1>19. ASSUME NEW c \in Clients, CloseReturn(c) PROVE Ordered'
    <2>1. ~up' /\ immutables' = <<>>
      BY <1>19 DEF CloseReturn
    <2>2. QED
      BY <2>1 DEF Ordered, WritesInOrder, QueueMonotone
  <1>20. CASE WorkerPop
    <2>1. up /\ \A c \in Clients : pc[c] # "closeFlush"
      BY <1>20 DEF WorkerPop, Control, DownIsEmpty, DrainsAlone, Draining
    <2>2. inflight = <<>>
      BY <1>20, <2>1 DEF WorkerPop, Control, InflightOwner
    <2>3. QED
      BY <1>20, <2>1, <2>2, PopOrder DEF WorkerPop, histVars
  <1>21. CASE WorkerExit
    BY <1>0, <1>21 DEF WorkerExit, storeVars, histVars
  <1>22. CASE WorkerFindsNothing
    BY <1>0, <1>22 DEF WorkerFindsNothing, storeVars, histVars
  <1>23. CASE WorkerSleep
    BY <1>0, <1>23 DEF WorkerSleep, storeVars, histVars
  <1>24. CASE WorkerNotifyBackpressure
    BY <1>0, <1>24 DEF WorkerNotifyBackpressure, storeVars, histVars
  <1>25. CASE WorkerFlush
    <2>1. up /\ inflight # <<>>
      BY <1>25 DEF WorkerFlush, Control, DownIsEmpty, InflightOwner
    <2>2. QED
      BY <1>25, <2>1, FlushOrder DEF WorkerFlush, FlushMemtableToL0
  <1>26. CASE WorkerClear
    BY <1>0, <1>26 DEF WorkerClear, storeVars, histVars
  <1>27. CASE WorkerNotifyBarrier
    BY <1>0, <1>27 DEF WorkerNotifyBarrier, storeVars, histVars
  <1>28. CASE SpuriousWakeup
    BY <1>0, <1>28 DEF SpuriousWakeup, storeVars, histVars
  <1>29. CASE Open
    <2>1. immutables = <<>> /\ inflight = <<>> /\ flushed = Len(log)
      BY <1>29 DEF Open, Control, DownIsEmpty
    <2>2. /\ active' = <<EmptyMemtable(Len(log))>>
          /\ UNCHANGED <<immutables, inflight, flushed, log>>
      BY <1>29 DEF Open, histVars
    <2>3. active' # <<>> /\ active'[1] = EmptyMemtable(Len(log))
      BY <2>2
    <2>4. /\ Holds(active'[1], log') /\ active'[1].base = Len(log)
          /\ LastWrite(active'[1]) = Len(log')
      BY <2>2, <2>3, EmptyHolds DEF TypeOK
    <2>5. AfterImmutables' = Len(log)
      BY <2>1, <2>2 DEF AfterImmutables, AfterInflight
    <2>6. QED
      BY <2>1, <2>2, <2>3, <2>4, <2>5 DEF Ordered, WritesInOrder, QueueMonotone
  <1>30. CASE RemoveAll
    <2>1. ~up' /\ immutables' = <<>>
      BY <1>30 DEF RemoveAll, Control, DownIsEmpty
    <2>2. QED
      BY <2>1 DEF Ordered, WritesInOrder, QueueMonotone
  <1>31. CASE Crash
    <2>1. ~up' /\ immutables' = <<>>
      BY <1>31 DEF Crash, LoseMemory
    <2>2. QED
      BY <2>1 DEF Ordered, WritesInOrder, QueueMonotone
  <1>32. ASSUME NEW n \in 0 .. MaxWrites, NEW torn \in BOOLEAN, CrashInFlush(n, torn)
     PROVE Ordered'
    <2>1. ~up' /\ immutables' = <<>>
      BY <1>32 DEF CrashInFlush, LoseMemory
    <2>2. QED
      BY <2>1 DEF Ordered, WritesInOrder, QueueMonotone
  <1>33. CASE UNCHANGED vars
    BY <1>0, <1>33 DEF vars
  <1>34. QED
    BY <1>1, <1>2, <1>3, <1>4, <1>5, <1>6, <1>7, <1>8, <1>9, <1>10, <1>11, <1>12, <1>13,
       <1>14, <1>15, <1>16, <1>17, <1>18, <1>19, <1>20, <1>21, <1>22, <1>23, <1>24,
       <1>25, <1>26, <1>27, <1>28, <1>29, <1>30, <1>31, <1>32, <1>33, MutationAssumption
       DEF Next, Call, Continue, Worker

(* The inductive invariant.                                                *)
LEMMA InitIInv == Init => IInv
  <1> SUFFICES ASSUME Init PROVE IInv
    OBVIOUS
  <1> USE DEF Init
  <1>1. TypeOK
    <2>1. NoCall \in CallType
      BY DEF NoCall, CallType
    <2>2. <<>> \in Seq(MemtableType) /\ <<>> \in Seq(TableType) /\ <<>> \in Seq(Record)
          /\ Len(<<>>) = 0
      BY EmptySeq
    <2>3. pc \in [Clients -> ClientPC] /\ call \in [Clients -> CallType]
      BY <2>1 DEF ClientPC
    <2>4. up \in BOOLEAN /\ shuttingDown \in BOOLEAN /\ flushInProgress \in BOOLEAN
      OBVIOUS
    <2>5. QED
      BY <2>2, <2>3, <2>4 DEF TypeOK, WorkerPC
  <1>2. Control
    BY EmptySeq DEF Control, DownIsEmpty, CloseAlone, DrainsAlone, WorkerState,
       InflightOwner,
           ActiveExists, DrainedActive, Closing, Draining
  <1>3. WritesInOrder /\ QueueMonotone
    BY DEF WritesInOrder, QueueMonotone
  <1>4. QED
    BY <1>1, <1>2, <1>3 DEF IInv

\* Every step keeps the invariant.
LEMMA NextIInv == IInv /\ [Next]_vars => IInv'
  BY TypeStep, ControlStep, OrderStep DEF IInv, Ordered

(* The invariant of the store holds in every reachable state.              *)
THEOREM Invariance == Spec => []IInv
  BY InitIInv, NextIInv, PTL DEF Spec

(* In every reachable state of the store every variable has its type.      *)
THEOREM TypeCorrect == Spec => []TypeOK
  <1>1. IInv => TypeOK
    BY DEF IInv
  <1>2. QED
    BY <1>1, Invariance, PTL

(* For any number of threads and any limits, with flushes that fail and    *)
(* crashes at any point, the memtables between _batchMutation and the L0   *)
(* files hold exactly the unflushed writes, in the order they were made.   *)
THEOREM OrderCorrect == Spec => []WritesInOrder
  <1>1. IInv => WritesInOrder
    BY DEF IInv
  <1>2. QED
    BY <1>1, Invariance, PTL

--------------------------------------------------------------------------------
(***************************************************************************)
(* What follows from the order of the writes: no lost wake-up, the bound   *)
(* on the queue, and what a completed writeBarrier guarantees.             *)
(***************************************************************************)

(* The flush thread that is about to wait holds the mutex, so the queue it *)
(* found empty is still empty when it sleeps.                              *)
SleepsOnEmpty == worker \in {"presleep", "asleep"} => immutables = <<>>

WaitersWaitForSomething ==
    \A c \in Clients :
        /\ pc[c] = "putWait" => Len(immutables) >= MaxImmutable \/ worker = "popped"
        /\ pc[c] = "barWait" => ~Drained \/ worker = "notify"

Wakeups == SleepsOnEmpty /\ WaitersWaitForSomething

(* Queueing the active memtable wakes the flush thread.                    *)
LEMMA PushWakeups ==
    ASSUME IInv, Wakeups, active # <<>>, worker # "presleep",
           immutables' = Append(immutables, active[1]), NotifyFlush,
           UNCHANGED flushInProgress,
           NEW c \in Clients, NEW where \in ClientPC \ {"putWait"},
           pc' = pc \/ pc' = [pc EXCEPT ![c] = where]
    PROVE  Wakeups'
  <1> USE DEF IInv
  <1>1. /\ Len(immutables') = Len(immutables) + 1 /\ immutables' # <<>>
        /\ Len(immutables) \in Nat
    <2>1. immutables \in Seq(MemtableType) /\ active[1] \in MemtableType
      BY DEF TypeOK
    <2>2. QED
      BY <2>1, AppendProperties, EmptySeq
  <1>2. worker' \notin {"presleep", "asleep"} /\ (worker = "popped" => worker' = "popped")
    BY DEF NotifyFlush
  <1>3. ASSUME NEW o \in Clients PROVE pc'[o] = "putWait" => pc[o] = "putWait"
    BY <1>3 DEF TypeOK
  <1>4. MaxImmutable \in Nat
    BY LimitAssumption
  <1>5. QED
    BY <1>1, <1>2, <1>3, <1>4
    DEF Wakeups, SleepsOnEmpty, WaitersWaitForSomething, Drained

(* Nobody waits while a thread is in close() after the join, nor when the  *)
(* store is not there.                                                     *)
LEMMA NobodyWaits ==
    ASSUME worker' \notin {"presleep", "asleep"},
           \A c \in Clients : pc'[c] \notin {"putWait", "barWait"}
    PROVE  Wakeups'
  BY DEF Wakeups, SleepsOnEmpty, WaitersWaitForSomething

\* Every step keeps the order of tests, waits and notifications.
LEMMA WakeupStep == IInv /\ Wakeups /\ [Next]_vars => Wakeups'
  <1> SUFFICES ASSUME IInv, Wakeups, [Next]_vars PROVE Wakeups'
    OBVIOUS
  <1> USE DEF IInv
  <1>1. ASSUME NEW c \in Clients, NEW k \in Keys, NEW d \in BOOLEAN, Put(c, k, d)
     PROVE Wakeups'
    BY <1>1 DEF Put, MayCall, Write, MemAdd, Wakeups, SleepsOnEmpty,
       WaitersWaitForSomething, Drained, MutexFree, TypeOK, storeVars, histVars
  <1>2. ASSUME NEW c \in Clients, NEW k \in Keys, NEW d \in BOOLEAN, PutRotate(c, k, d)
     PROVE Wakeups'
    <2>1. active # <<>>
      BY <1>2, CallerHasActive DEF PutRotate, MayCall, Closing
    <2>2. "idle" \in ClientPC \ {"putWait"}
      BY DEF ClientPC
    <2>3. QED
      BY <1>2, <2>1, <2>2, PushWakeups DEF PutRotate, RotateAndWrite, MayCall, MutexFree
  <1>3. ASSUME NEW c \in Clients, NEW k \in Keys, NEW d \in BOOLEAN, PutBlock(c, k, d)
     PROVE Wakeups'
    BY <1>3 DEF PutBlock, MayCall, Goto, NewCall, Wakeups, SleepsOnEmpty,
       WaitersWaitForSomething, Drained, MutexFree, TypeOK, storeVars, histVars
  <1>4. ASSUME NEW c \in Clients, BarrierRotate(c) PROVE Wakeups'
    <2>1. active # <<>>
      BY <1>4, CallerHasActive DEF BarrierRotate, MayCall, Closing
    <2>2. "barWait" \in ClientPC \ {"putWait"}
      BY DEF ClientPC
    <2>3. QED
      BY <1>4, <2>1, <2>2, PushWakeups DEF BarrierRotate, Goto, MayCall, MutexFree
  <1>5. ASSUME NEW c \in Clients, BarrierWait(c) PROVE Wakeups'
    BY <1>5 DEF BarrierWait, MayCall, Goto, NewCall, Wakeups, SleepsOnEmpty,
       WaitersWaitForSomething, Drained, MutexFree, TypeOK, storeVars, histVars
  <1>6. ASSUME NEW c \in Clients, BarrierReturn(c) PROVE Wakeups'
    BY <1>6 DEF BarrierReturn, MayCall, Wakeups, SleepsOnEmpty, WaitersWaitForSomething,
       Drained, MutexFree, TypeOK, storeVars, histVars
  <1>7. ASSUME NEW c \in Clients, NEW k \in Keys, Get(c, k) PROVE Wakeups'
    BY <1>7 DEF Get, MayCall, Goto, NewCall, Wakeups, SleepsOnEmpty,
       WaitersWaitForSomething, Drained, MutexFree, TypeOK, storeVars, histVars
  <1>8. ASSUME NEW c \in Clients, GetPrefix(c, Keys) PROVE Wakeups'
    BY <1>8 DEF GetPrefix, MayCall, Goto, NewCall, Wakeups, SleepsOnEmpty,
       WaitersWaitForSomething, Drained, MutexFree, TypeOK, storeVars, histVars
  <1>9. ASSUME NEW c \in Clients, Close(c) PROVE Wakeups'
    BY <1>9 DEF Close, Goto, Wakeups, SleepsOnEmpty, WaitersWaitForSomething, Drained,
       MutexFree, TypeOK, storeVars, histVars
  <1>10. ASSUME NEW c \in Clients, PutResume(c) PROVE Wakeups'
    <2>1. CASE /\ Len(immutables) >= MaxImmutable /\ Goto(c, "putWait")
               /\ UNCHANGED <<active, immutables, worker, call, log>>
      BY <1>10, <2>1 DEF PutResume, Goto, Wakeups, SleepsOnEmpty,
         WaitersWaitForSomething, Drained, MutexFree, TypeOK, storeVars, histVars
    <2>2. ASSUME NEW k \in call[c].keys, RotateAndWrite(k, call[c].del), Return(c)
          PROVE  Wakeups'
      <3>1. /\ up /\ pc[c] = "putWoken" /\ worker # "presleep"
            /\ UNCHANGED flushInProgress
        BY <1>10 DEF PutResume, Control, DownIsEmpty, MutexFree
      <3>2. active # <<>>
        BY <3>1, CallerHasActive DEF Closing
      <3>3. "idle" \in ClientPC \ {"putWait"}
        BY DEF ClientPC
      <3>4. QED
        BY <2>2, <3>1, <3>2, <3>3, PushWakeups DEF RotateAndWrite, Return, Goto
    <2>3. QED
      BY <1>10, <2>1, <2>2 DEF PutResume
  <1>11. ASSUME NEW c \in Clients, BarrierResume(c) PROVE Wakeups'
    BY <1>11 DEF BarrierResume, Goto, Return, NoCall, Wakeups, SleepsOnEmpty,
       WaitersWaitForSomething, Drained, MutexFree, TypeOK, storeVars, histVars
  <1>12. ASSUME NEW c \in Clients, GetSST(c) PROVE Wakeups'
    BY <1>12 DEF GetSST, Goto, Wakeups, SleepsOnEmpty, WaitersWaitForSomething, Drained,
       MutexFree, TypeOK, storeVars, histVars
  <1>13. ASSUME NEW c \in Clients, ScanSST(c) PROVE Wakeups'
    BY <1>13 DEF ScanSST, Goto, Wakeups, SleepsOnEmpty, WaitersWaitForSomething,
       Drained, MutexFree, TypeOK, storeVars, histVars
  <1>14. ASSUME NEW c \in Clients, ReadReturn(c) PROVE Wakeups'
    BY <1>14 DEF ReadReturn, Goto, Return, NoCall, Wakeups, SleepsOnEmpty,
       WaitersWaitForSomething, Drained, MutexFree, TypeOK, storeVars, histVars
  <1>15. ASSUME NEW c \in Clients, CloseNotify(c) PROVE Wakeups'
    BY <1>15 DEF CloseNotify, Goto, NotifyFlush, Wakeups, SleepsOnEmpty,
       WaitersWaitForSomething, Drained, MutexFree, TypeOK, storeVars, histVars
  <1>16. ASSUME NEW c \in Clients, CloseJoin(c) PROVE Wakeups'
    <2>1. worker' = "exited" /\ \A o \in Clients : o # c => pc[o] = "idle"
      BY <1>16 DEF CloseJoin, Control, CloseAlone, Closing
    <2>2. QED
      BY <1>16, <2>1, NobodyWaits DEF CloseJoin, Goto, TypeOK
  <1>17. ASSUME NEW c \in Clients, CloseDrain(c) PROVE Wakeups'
    <2>1. /\ worker' = "exited" /\ pc' = [pc EXCEPT ![c] = "closeFlush"]
          /\ \A o \in Clients : o # c => pc[o] = "idle"
      BY <1>17 DEF CloseDrain, Goto, Control, CloseAlone, DrainsAlone, Draining, Closing
    <2>2. QED
      BY <2>1, NobodyWaits DEF TypeOK
  <1>18. ASSUME NEW c \in Clients, CloseFlush(c) PROVE Wakeups'
    BY <1>18 DEF CloseFlush, Goto, Wakeups, SleepsOnEmpty, WaitersWaitForSomething,
       Drained, MutexFree, TypeOK, storeVars, histVars
  <1>19. ASSUME NEW c \in Clients, CloseReturn(c) PROVE Wakeups'
    <2>1. /\ worker' = "none" /\ pc' = [pc EXCEPT ![c] = "idle"]
          /\ \A o \in Clients : o # c => pc[o] = "idle"
      BY <1>19 DEF CloseReturn, Return, Goto, Control, CloseAlone, Closing
    <2>2. QED
      BY <2>1, NobodyWaits DEF TypeOK
  <1>20. CASE WorkerPop
    BY <1>20 DEF WorkerPop, Wakeups, SleepsOnEmpty, WaitersWaitForSomething, Drained,
       MutexFree, TypeOK, storeVars, histVars
  <1>21. CASE WorkerExit
    BY <1>21 DEF WorkerExit, Wakeups, SleepsOnEmpty, WaitersWaitForSomething, Drained,
       MutexFree, TypeOK, storeVars, histVars
  <1>22. CASE WorkerFindsNothing
    BY <1>22 DEF WorkerFindsNothing, Wakeups, SleepsOnEmpty, WaitersWaitForSomething,
       Drained, MutexFree, TypeOK, storeVars, histVars
  <1>23. CASE WorkerSleep
    BY <1>23 DEF WorkerSleep, Wakeups, SleepsOnEmpty, WaitersWaitForSomething, Drained,
       MutexFree, TypeOK, storeVars, histVars
  <1>24. CASE WorkerNotifyBackpressure
    BY <1>24 DEF WorkerNotifyBackpressure, NotifyAll, Wakeups, SleepsOnEmpty,
       WaitersWaitForSomething, Drained, MutexFree, TypeOK, storeVars, histVars
  <1>25. CASE WorkerFlush
    BY <1>25 DEF WorkerFlush, Wakeups, SleepsOnEmpty, WaitersWaitForSomething, Drained,
       MutexFree, TypeOK, storeVars, histVars
  <1>26. CASE WorkerClear
    BY <1>26 DEF WorkerClear, Wakeups, SleepsOnEmpty, WaitersWaitForSomething, Drained,
       MutexFree, TypeOK, storeVars, histVars
  <1>27. CASE WorkerNotifyBarrier
    BY <1>27 DEF WorkerNotifyBarrier, NotifyAll, Wakeups, SleepsOnEmpty,
       WaitersWaitForSomething, Drained, MutexFree, TypeOK, storeVars, histVars
  <1>28. CASE SpuriousWakeup
    BY <1>28 DEF SpuriousWakeup, Goto, Wakeups, SleepsOnEmpty, WaitersWaitForSomething,
       Drained, MutexFree, TypeOK, storeVars, histVars
  <1>29. CASE Open
    <2>1. worker' = "lock" /\ UNCHANGED pc /\ \A c \in Clients : pc[c] = "idle"
      BY <1>29 DEF Open, Control, DownIsEmpty
    <2>2. QED
      BY <2>1, NobodyWaits
  <1>30. CASE RemoveAll
    BY <1>30 DEF RemoveAll, Wakeups, SleepsOnEmpty, WaitersWaitForSomething, Drained,
       MutexFree, TypeOK, storeVars, histVars
  <1>31. CASE Crash
    BY <1>31 DEF Crash, LoseMemory, NoCall, Wakeups, SleepsOnEmpty,
       WaitersWaitForSomething, Drained, MutexFree, TypeOK, storeVars, histVars
  <1>32. ASSUME NEW n \in 0 .. MaxWrites, NEW torn \in BOOLEAN, CrashInFlush(n, torn)
     PROVE Wakeups'
    <2>1. worker' = "none" /\ \A c \in Clients : pc'[c] = "idle"
      BY <1>32 DEF CrashInFlush, LoseMemory
    <2>2. QED
      BY <2>1, NobodyWaits
  <1>33. CASE UNCHANGED vars
    BY <1>33 DEF Wakeups, SleepsOnEmpty, WaitersWaitForSomething, Drained, MutexFree,
       TypeOK, storeVars, histVars, vars
  <1>34. QED
    BY <1>1, <1>2, <1>3, <1>4, <1>5, <1>6, <1>7, <1>8, <1>9, <1>10, <1>11, <1>12, <1>13,
       <1>14, <1>15, <1>16, <1>17, <1>18, <1>19, <1>20, <1>21, <1>22, <1>23, <1>24,
       <1>25, <1>26, <1>27, <1>28, <1>29, <1>30, <1>31, <1>32, <1>33, MutationAssumption
       DEF Next, Call, Continue, Worker

--------------------------------------------------------------------------------
(* What a thread in writeBarrier waits for: the writes made before its     *)
(* call lie before the active memtable.                                    *)
BarrierMarks ==
    \A c \in BarrierClients : active # <<>> /\ call[c].mark <= active[1].base

BarrierInv == BarrierMarks /\ synced <= flushed

\* The active memtable begins where the queue ends.
LEMMA BaseInLog ==
    ASSUME IInv, up, active # <<>>
    PROVE  /\ active[1] \in MemtableType /\ active[1].base \in Nat
           /\ active[1].base = AfterImmutables
           /\ active[1].base <= Len(log) /\ Len(log) \in Nat
  <1>1. active[1] \in MemtableType /\ Len(log) \in Nat
    BY DEF IInv, TypeOK
  <1>2. active[1].base = AfterImmutables /\ AfterImmutables <= Len(log)
    BY FlushedInLog DEF IInv, WritesInOrder
  <1>3. QED
    BY <1>1, <1>2, MemtableFacts

(* A drained store has flushed everything before the active memtable.      *)
LEMMA DrainedFlushed ==
    ASSUME IInv, up, Drained, active # <<>>, NEW c \in Clients, ~Closing(c),
           pc[c] # "idle" \/ ~shuttingDown
    PROVE  active[1].base = flushed
  <1>1. \A o \in Clients : pc[o] # "closeFlush"
    BY DEF IInv, Control, CloseAlone, Closing
  <1>2. inflight = <<>>
    BY <1>1 DEF Drained, IInv, Control, WorkerState, InflightOwner
  <1>3. QED
    BY <1>2, BaseInLog DEF Drained, AfterImmutables, AfterInflight

(* The thread that rotates, and those that wait, when the active memtable  *)
(* is replaced by one that starts later.                                   *)
LEMMA RotateMarks ==
    ASSUME IInv, BarrierInv, up, active # <<>>,
           active' # <<>>, active'[1].base = Len(log) \/ active'[1].base = active[1].base,
           UNCHANGED <<flushed, synced>>,
           NEW c \in Clients,
           \/ UNCHANGED <<pc, call>>
           \/ /\ pc' = [pc EXCEPT ![c] = "idle"]
              /\ call' = [call EXCEPT ![c] = NoCall]
           \/ /\ pc' = [pc EXCEPT ![c] = "barWait"]
              /\ call' = [call EXCEPT ![c] = NewCall({}, FALSE)]
              /\ active'[1].base = Len(log)
    PROVE  BarrierInv'
  <1> USE DEF IInv
  <1>1. active[1].base \in Nat /\ active[1].base <= Len(log) /\ Len(log) \in Nat
    BY BaseInLog
  <1>2. NewCall({}, FALSE).mark = Len(log)
    BY DEF NewCall
  <1>3. ASSUME NEW o \in Clients, pc'[o] \in {"barWait", "barWoken"}
        PROVE  call'[o].mark <= active'[1].base
    <2>1. CASE pc[o] \in {"barWait", "barWoken"} /\ call'[o] = call[o]
      <3>1. call[o].mark <= active[1].base /\ call[o].mark \in Nat
        BY <2>1 DEF BarrierInv, BarrierMarks, BarrierClients, BarrierWaits, TypeOK, CallType
      <3>2. QED
        BY <1>1, <2>1, <3>1
    <2>2. CASE o = c /\ call' = [call EXCEPT ![c] = NewCall({}, FALSE)] /\ active'[1].base = Len(log)
      <3>1. call'[o] = NewCall({}, FALSE)
        BY <2>2 DEF TypeOK
      <3>2. call'[o].mark = Len(log) /\ active'[1].base = Len(log)
        BY <1>2, <2>2, <3>1
      <3>3. QED
        BY <1>1, <3>2
    <2>3. QED
      BY <1>3, <2>1, <2>2 DEF TypeOK
  <1>4. QED
    BY <1>3 DEF BarrierInv, BarrierMarks, BarrierClients, BarrierWaits

(* Flushing a memtable moves the boundary forward.                         *)
LEMMA FlushAdvances ==
    ASSUME IInv, BarrierInv, up, inflight # <<>>, FlushMemtableToL0(inflight[1]),
           UNCHANGED synced
    PROVE  flushed <= flushed' /\ synced' <= flushed'
  <1>1. flushed' = LastWrite(inflight[1])
    BY DEF FlushMemtableToL0
  <1>2. inflight[1] \in MemtableType /\ inflight[1].base = flushed
    BY DEF IInv, TypeOK, WritesInOrder
  <1>3. flushed <= flushed' /\ flushed' \in Nat /\ flushed \in Nat /\ synced \in Nat
    BY <1>1, <1>2, MemtableFacts DEF IInv, TypeOK
  <1>4. QED
    BY <1>3 DEF BarrierInv

(* Nobody is in writeBarrier.                                              *)
LEMMA NoBarrier ==
    ASSUME synced' <= flushed', \A c \in Clients : pc'[c] \notin {"barWait", "barWoken"}
    PROVE  BarrierInv'
  BY DEF BarrierInv, BarrierMarks, BarrierClients, BarrierWaits

\* Every step keeps what a barrier waits for.
LEMMA BarrierStep == IInv /\ BarrierInv /\ [Next]_vars => BarrierInv'
  <1> SUFFICES ASSUME IInv, BarrierInv, [Next]_vars PROVE BarrierInv'
    OBVIOUS
  <1> USE DEF IInv
  <1>0. ASSUME UNCHANGED <<active, call, flushed, synced>>,
               \A c \in Clients : pc'[c] \in {"barWait", "barWoken"} =>
                                      pc[c] \in {"barWait", "barWoken"}
        PROVE  BarrierInv'
    BY <1>0 DEF BarrierInv, BarrierMarks, BarrierClients, BarrierWaits
  <1>1. ASSUME NEW c \in Clients, NEW k \in Keys, NEW d \in BOOLEAN, Put(c, k, d)
     PROVE BarrierInv'
    <2>1. up /\ active # <<>> /\ active[1] \in MemtableType
      BY <1>1, CallerHasActive DEF Put, MayCall, Closing
    <2>2. active' # <<>> /\ active'[1].base = active[1].base
      BY <1>1, <2>1 DEF Put, Write, MemAdd, MemtableType
    <2>3. QED
      BY <1>1, <2>1, <2>2, RotateMarks DEF Put
  <1>2. ASSUME NEW c \in Clients, NEW k \in Keys, NEW d \in BOOLEAN, PutRotate(c, k, d)
     PROVE BarrierInv'
    <2>1. up /\ active # <<>>
      BY <1>2, CallerHasActive DEF PutRotate, MayCall, Closing
    <2>2. active' # <<>> /\ active'[1].base = Len(log)
      BY <1>2 DEF PutRotate, RotateAndWrite, Write, MemAdd, EmptyMemtable
    <2>3. QED
      BY <1>2, <2>1, <2>2, RotateMarks DEF PutRotate
  <1>3. ASSUME NEW c \in Clients, NEW k \in Keys, NEW d \in BOOLEAN, PutBlock(c, k, d)
     PROVE BarrierInv'
    <2>1. \A o \in Clients : pc'[o] \in {"barWait", "barWoken"} =>
                               o # c /\ pc[o] \in {"barWait", "barWoken"}
      BY <1>3 DEF PutBlock, Goto, TypeOK
    <2>2. \A o \in Clients : o # c => call'[o] = call[o]
      BY <1>3 DEF PutBlock, TypeOK
    <2>3. UNCHANGED <<active, synced, flushed>>
      BY <1>3 DEF PutBlock, storeVars, histVars
    <2>4. QED
      BY <2>1, <2>2, <2>3 DEF BarrierInv, BarrierMarks, BarrierClients, BarrierWaits
  <1>4. ASSUME NEW c \in Clients, BarrierRotate(c) PROVE BarrierInv'
    <2>1. up /\ active # <<>>
      BY <1>4, CallerHasActive DEF BarrierRotate, MayCall, Closing
    <2>2. active' # <<>> /\ active'[1].base = Len(log)
      BY <1>4 DEF BarrierRotate, EmptyMemtable
    <2>3. QED
      BY <1>4, <2>1, <2>2, RotateMarks DEF BarrierRotate, Goto, histVars
  <1>5. ASSUME NEW c \in Clients, BarrierWait(c) PROVE BarrierInv'
    <2>1. up /\ active # <<>> /\ active[1].data = <<>>
      BY <1>5, CallerHasActive DEF BarrierWait, MayCall, Closing
    <2>2. active[1].base = Len(log)
      <3>1. Len(log) = LastWrite(active[1]) /\ active[1].base \in Nat
        BY <2>1, BaseInLog DEF WritesInOrder
      <3>2. QED
        BY <2>1, <3>1 DEF LastWrite
    <2>3. UNCHANGED <<active, flushed, synced>>
      BY <1>5 DEF BarrierWait, storeVars, histVars
    <2>4. QED
      BY <1>5, <2>1, <2>2, <2>3, RotateMarks DEF BarrierWait, Goto
  <1>6. ASSUME NEW c \in Clients, BarrierReturn(c) PROVE BarrierInv'
    <2>1. up /\ active # <<>> /\ active[1].data = <<>> /\ Drained /\ ~Closing(c) /\ ~shuttingDown
      BY <1>6, CallerHasActive DEF BarrierReturn, MayCall, Closing
    <2>2. flushed = Len(log)
      <3>1. Len(log) = LastWrite(active[1]) /\ active[1].base \in Nat
        BY <2>1, BaseInLog DEF WritesInOrder
      <3>2. QED
        BY <2>1, <3>1, DrainedFlushed DEF LastWrite
    <2>3. synced' <= flushed' /\ UNCHANGED <<active, pc, call>>
      BY <1>6, <2>2 DEF BarrierReturn, storeVars, TypeOK
    <2>4. QED
      BY <2>3 DEF BarrierInv, BarrierMarks, BarrierClients, BarrierWaits
  <1>7. ASSUME NEW c \in Clients, NEW k \in Keys, Get(c, k) PROVE BarrierInv'
    <2>1. \A o \in Clients : pc'[o] \in {"barWait", "barWoken"} =>
                               o # c /\ pc[o] \in {"barWait", "barWoken"}
      BY <1>7 DEF Get, Goto, TypeOK
    <2>2. \A o \in Clients : o # c => call'[o] = call[o]
      BY <1>7 DEF Get, TypeOK
    <2>3. UNCHANGED <<active, synced, flushed>>
      BY <1>7 DEF Get, storeVars, histVars
    <2>4. QED
      BY <2>1, <2>2, <2>3 DEF BarrierInv, BarrierMarks, BarrierClients, BarrierWaits
  <1>8. ASSUME NEW c \in Clients, GetPrefix(c, Keys) PROVE BarrierInv'
    <2>1. \A o \in Clients : pc'[o] \in {"barWait", "barWoken"} =>
                               o # c /\ pc[o] \in {"barWait", "barWoken"}
      BY <1>8 DEF GetPrefix, Goto, TypeOK
    <2>2. \A o \in Clients : o # c => call'[o] = call[o]
      BY <1>8 DEF GetPrefix, TypeOK
    <2>3. UNCHANGED <<active, synced, flushed>>
      BY <1>8 DEF GetPrefix, storeVars, histVars
    <2>4. QED
      BY <2>1, <2>2, <2>3 DEF BarrierInv, BarrierMarks, BarrierClients, BarrierWaits
  <1>9. ASSUME NEW c \in Clients, Close(c) PROVE BarrierInv'
    BY <1>0, <1>9 DEF Close, Goto, TypeOK, storeVars, histVars
  <1>10. ASSUME NEW c \in Clients, PutResume(c) PROVE BarrierInv'
    <2>1. CASE Goto(c, "putWait") /\ UNCHANGED <<active, immutables, worker, call, log>>
      BY <1>0, <1>10, <2>1 DEF PutResume, Goto, TypeOK
    <2>2. ASSUME NEW k \in call[c].keys, RotateAndWrite(k, call[c].del), Return(c)
          PROVE  BarrierInv'
      <3>1. up /\ pc[c] = "putWoken" /\ UNCHANGED <<flushed, synced>>
        BY <1>10 DEF PutResume, Control, DownIsEmpty
      <3>2. active # <<>>
        BY <3>1, CallerHasActive DEF Closing
      <3>3. active' # <<>> /\ active'[1].base = Len(log)
        BY <2>2 DEF RotateAndWrite, Write, MemAdd, EmptyMemtable
      <3>4. QED
        BY <2>2, <3>1, <3>2, <3>3, RotateMarks DEF Return, Goto
    <2>3. QED
      BY <1>10, <2>1, <2>2 DEF PutResume
  <1>11. ASSUME NEW c \in Clients, BarrierResume(c) PROVE BarrierInv'
    <2>1. pc[c] = "barWoken" /\ up /\ UNCHANGED <<active, flushed>>
      BY <1>11 DEF BarrierResume, Control, DownIsEmpty, storeVars
    <2>2. active # <<>> /\ call[c].mark <= active[1].base
      BY <2>1 DEF BarrierInv, BarrierMarks, BarrierClients, BarrierWaits
    <2>3. CASE ~Drained /\ Goto(c, "barWait") /\ UNCHANGED <<call, synced>>
      BY <1>0, <2>1, <2>3 DEF Goto, TypeOK
    <2>4. CASE /\ Drained /\ Return(c)
               /\ synced' = IF call[c].mark > synced THEN call[c].mark ELSE synced
      <3>1. call[c].mark <= flushed
        BY <2>1, <2>2, <2>4, DrainedFlushed DEF Closing
      <3>2. synced' <= flushed'
        BY <2>1, <2>4, <3>1 DEF BarrierInv
      <3>3. \A o \in Clients : pc'[o] \in {"barWait", "barWoken"} =>
                                   o # c /\ pc[o] \in {"barWait", "barWoken"}
        BY <2>4 DEF Return, Goto, TypeOK
      <3>4. \A o \in Clients : o # c => call'[o] = call[o]
        BY <2>4 DEF Return, TypeOK
      <3>5. QED
        BY <2>1, <3>2, <3>3, <3>4 DEF BarrierInv, BarrierMarks, BarrierClients, BarrierWaits
    <2>5. QED
      BY <1>11, <2>3, <2>4 DEF BarrierResume
  <1>12. ASSUME NEW c \in Clients, GetSST(c) PROVE BarrierInv'
    <2>1. \A o \in Clients : pc'[o] \in {"barWait", "barWoken"} =>
                               o # c /\ pc[o] \in {"barWait", "barWoken"}
      BY <1>12 DEF GetSST, Goto, TypeOK
    <2>2. \A o \in Clients : o # c => call'[o] = call[o]
      BY <1>12 DEF GetSST, TypeOK
    <2>3. UNCHANGED <<active, synced, flushed>>
      BY <1>12 DEF GetSST, storeVars, histVars
    <2>4. QED
      BY <2>1, <2>2, <2>3 DEF BarrierInv, BarrierMarks, BarrierClients, BarrierWaits
  <1>13. ASSUME NEW c \in Clients, ScanSST(c) PROVE BarrierInv'
    <2>1. \A o \in Clients : pc'[o] \in {"barWait", "barWoken"} =>
                               o # c /\ pc[o] \in {"barWait", "barWoken"}
      BY <1>13 DEF ScanSST, Goto, TypeOK
    <2>2. \A o \in Clients : o # c => call'[o] = call[o]
      BY <1>13 DEF ScanSST, TypeOK
    <2>3. UNCHANGED <<active, synced, flushed>>
      BY <1>13 DEF ScanSST, storeVars, histVars
    <2>4. QED
      BY <2>1, <2>2, <2>3 DEF BarrierInv, BarrierMarks, BarrierClients, BarrierWaits
  <1>14. ASSUME NEW c \in Clients, ReadReturn(c) PROVE BarrierInv'
    <2>1. \A o \in Clients : pc'[o] \in {"barWait", "barWoken"} =>
                               o # c /\ pc[o] \in {"barWait", "barWoken"}
      BY <1>14 DEF ReadReturn, Return, Goto, TypeOK
    <2>2. \A o \in Clients : o # c => call'[o] = call[o]
      BY <1>14 DEF ReadReturn, Return, TypeOK
    <2>3. UNCHANGED <<active, synced, flushed>>
      BY <1>14 DEF ReadReturn, storeVars, histVars
    <2>4. QED
      BY <2>1, <2>2, <2>3 DEF BarrierInv, BarrierMarks, BarrierClients, BarrierWaits
  <1>15. ASSUME NEW c \in Clients, CloseNotify(c) PROVE BarrierInv'
    BY <1>0, <1>15 DEF CloseNotify, Goto, TypeOK, storeVars, histVars
  <1>16. ASSUME NEW c \in Clients, CloseJoin(c) PROVE BarrierInv'
    <2>1. \A o \in Clients : o # c => pc[o] = "idle"
      BY <1>16 DEF CloseJoin, Control, CloseAlone, Closing
    <2>2. \A o \in Clients : pc'[o] \notin {"barWait", "barWoken"}
      BY <1>16, <2>1 DEF CloseJoin, Goto, TypeOK
    <2>3. synced' <= flushed'
      BY <1>16 DEF CloseJoin, BarrierInv, histVars
    <2>4. QED
      BY <2>2, <2>3, NoBarrier
  <1>17. ASSUME NEW c \in Clients, CloseDrain(c) PROVE BarrierInv'
    BY <1>0, <1>17 DEF CloseDrain, Goto, TypeOK, storeVars, histVars
  <1>18. ASSUME NEW c \in Clients, CloseFlush(c) PROVE BarrierInv'
    <2>1. \A o \in Clients : o # c => pc[o] = "idle"
      BY <1>18 DEF CloseFlush, Control, CloseAlone, Closing
    <2>2. \A o \in Clients : pc'[o] \notin {"barWait", "barWoken"}
      BY <1>18, <2>1 DEF CloseFlush, Goto, TypeOK
    <2>3. synced' <= flushed'
      BY <1>18, FlushAdvances DEF CloseFlush, Control, DownIsEmpty, InflightOwner
    <2>4. QED
      BY <2>2, <2>3, NoBarrier
  <1>19. ASSUME NEW c \in Clients, CloseReturn(c) PROVE BarrierInv'
    <2>1. \A o \in Clients : o # c => pc[o] = "idle"
      BY <1>19 DEF CloseReturn, Control, CloseAlone, Closing
    <2>2. \A o \in Clients : pc'[o] \notin {"barWait", "barWoken"}
      BY <1>19, <2>1 DEF CloseReturn, Return, Goto, TypeOK
    <2>3. flushed' = Len(log') /\ synced' = Len(log) /\ log' = log
      BY <1>19, ControlStep DEF CloseReturn, Control, DownIsEmpty
    <2>4. synced' <= flushed'
      BY <2>3 DEF TypeOK
    <2>5. QED
      BY <2>2, <2>4, NoBarrier
  <1>20. CASE WorkerPop
    BY <1>0, <1>20 DEF WorkerPop, TypeOK, storeVars, histVars
  <1>21. CASE WorkerExit
    BY <1>0, <1>21 DEF WorkerExit, TypeOK, storeVars, histVars
  <1>22. CASE WorkerFindsNothing
    BY <1>0, <1>22 DEF WorkerFindsNothing, TypeOK, storeVars, histVars
  <1>23. CASE WorkerSleep
    BY <1>0, <1>23 DEF WorkerSleep, TypeOK, storeVars, histVars
  <1>24. CASE WorkerNotifyBackpressure
    BY <1>0, <1>24 DEF WorkerNotifyBackpressure, NotifyAll, TypeOK, storeVars, histVars
  <1>25. CASE WorkerFlush
    <2>1. synced' <= flushed'
      BY <1>25, FlushAdvances DEF WorkerFlush, Control, DownIsEmpty, InflightOwner
    <2>2. UNCHANGED <<active, pc, call>>
      BY <1>25 DEF WorkerFlush
    <2>3. QED
      BY <2>1, <2>2 DEF BarrierInv, BarrierMarks, BarrierClients, BarrierWaits
  <1>26. CASE WorkerClear
    BY <1>0, <1>26 DEF WorkerClear, TypeOK, storeVars, histVars
  <1>27. CASE WorkerNotifyBarrier
    BY <1>0, <1>27 DEF WorkerNotifyBarrier, NotifyAll, TypeOK, storeVars, histVars
  <1>28. CASE SpuriousWakeup
    BY <1>0, <1>28 DEF SpuriousWakeup, Goto, TypeOK, storeVars, histVars
  <1>29. CASE Open
    <2>1. \A c \in Clients : pc'[c] = "idle"
      BY <1>29 DEF Open, Control, DownIsEmpty
    <2>2. QED
      BY <1>29, <2>1, NoBarrier DEF Open, BarrierInv, histVars
  <1>30. CASE RemoveAll
    <2>1. \A c \in Clients : pc'[c] = "idle"
      BY <1>30 DEF RemoveAll, Control, DownIsEmpty
    <2>2. QED
      BY <1>30, <2>1, NoBarrier DEF RemoveAll
  <1>31. CASE Crash
    <2>1. \A c \in Clients : pc'[c] = "idle"
      BY <1>31 DEF Crash, LoseMemory
    <2>2. QED
      BY <1>31, <2>1, NoBarrier DEF Crash, TypeOK
  <1>32. ASSUME NEW n \in 0 .. MaxWrites, NEW torn \in BOOLEAN, CrashInFlush(n, torn)
     PROVE BarrierInv'
    <2>1. \A c \in Clients : pc'[c] = "idle"
      BY <1>32 DEF CrashInFlush, LoseMemory
    <2>2. flushed' \in Nat /\ synced' = flushed'
      BY <1>32, TypeStep DEF CrashInFlush, TypeOK
    <2>3. QED
      BY <2>1, <2>2, NoBarrier
  <1>33. CASE UNCHANGED vars
    BY <1>0, <1>33 DEF vars
  <1>34. QED
    BY <1>1, <1>2, <1>3, <1>4, <1>5, <1>6, <1>7, <1>8, <1>9, <1>10, <1>11, <1>12, <1>13,
       <1>14, <1>15, <1>16, <1>17, <1>18, <1>19, <1>20, <1>21, <1>22, <1>23, <1>24,
       <1>25, <1>26, <1>27, <1>28, <1>29, <1>30, <1>31, <1>32, <1>33, MutationAssumption
       DEF Next, Call, Continue, Worker

--------------------------------------------------------------------------------
(* Why the queue is bounded: the flush thread leaves it empty, and after   *)
(* that only close() adds to it.                                           *)
QueueInv ==
    /\ ImmutablesBounded
    /\ shuttingDown => \E c \in Clients : Closing(c)
    /\ worker = "exited" => /\ shuttingDown
                            /\ immutables = <<>> \/ \E c \in Clients : Draining(c)

\* The callers in a barrier are finitely many.
LEMMA BarrierClientsFinite ==
    ASSUME TypeOK
    PROVE  /\ IsFiniteSet(BarrierClients) /\ IsFiniteSet(BarrierClients')
           /\ Cardinality(BarrierClients) \in Nat /\ Cardinality(BarrierClients') \in Nat
           /\ MaxImmutable \in Nat /\ MaxImmutable >= 1
           /\ Len(immutables) \in Nat
  <1>1. BarrierClients \in SUBSET Clients /\ BarrierClients' \in SUBSET Clients
    BY DEF BarrierClients, BarrierWaits
  <1>2. IsFiniteSet(BarrierClients) /\ IsFiniteSet(BarrierClients')
    BY <1>1, ClientAssumption, FS_Subset
  <1>3. Cardinality(BarrierClients) \in Nat /\ Cardinality(BarrierClients') \in Nat
    BY <1>2, FS_CardinalityType
  <1>4. QED
    BY <1>2, <1>3, LimitAssumption DEF TypeOK

(* No thread is closing while a caller makes or finishes a call.           *)
LEMMA CallerNotClosing ==
    ASSUME IInv, QueueInv, NEW c \in Clients, ~Closing(c), pc[c] # "idle" \/ ~shuttingDown
    PROVE  ~shuttingDown /\ worker # "exited"
  BY DEF IInv, Control, CloseAlone, Closing, QueueInv

\* Every step keeps the queue's bound.
LEMMA QueueStep == IInv /\ QueueInv /\ [Next]_vars => QueueInv'
  <1> SUFFICES ASSUME IInv, QueueInv, [Next]_vars PROVE QueueInv'
    OBVIOUS
  <1> USE DEF IInv
  <1>a. TypeOK /\ TypeOK'
    BY TypeStep
  <1>b. /\ Cardinality(BarrierClients) \in Nat /\ Cardinality(BarrierClients') \in Nat
        /\ MaxImmutable \in Nat /\ MaxImmutable >= 1 /\ Len(immutables) \in Nat
        /\ IsFiniteSet(BarrierClients) /\ IsFiniteSet(BarrierClients')
    BY BarrierClientsFinite
  <1>c. ASSUME BarrierClients' = BarrierClients, UNCHANGED <<immutables, shuttingDown>>,
               worker' = "exited" => worker = "exited",
               \A c \in Clients : pc[c] # pc'[c] => ~Closing(c)
        PROVE  QueueInv'
    <2>1. ImmutablesBounded'
      BY <1>c DEF QueueInv, ImmutablesBounded
    <2>2. \A c \in Clients : (Closing(c) => Closing(c)') /\ (Draining(c) => Draining(c)')
      BY <1>c DEF Closing, Draining
    <2>3. QED
      BY <1>c, <2>1, <2>2 DEF QueueInv
  <1>d. ASSUME ~shuttingDown', worker' # "exited", ImmutablesBounded' PROVE QueueInv'
    BY <1>d DEF QueueInv
  <1>1. ASSUME NEW c \in Clients, NEW k \in Keys, NEW d \in BOOLEAN, Put(c, k, d)
     PROVE QueueInv'
    BY <1>c, <1>1 DEF Put, Write, BarrierClients, BarrierWaits, Closing, TypeOK, storeVars, histVars
  <1>2. ASSUME NEW c \in Clients, NEW k \in Keys, NEW d \in BOOLEAN, PutRotate(c, k, d)
     PROVE QueueInv'
    <2>1. ~shuttingDown /\ worker # "exited" /\ active # <<>> /\ up
      BY <1>2, CallerNotClosing, CallerHasActive DEF PutRotate, MayCall, Closing
    <2>2. Len(immutables') = Len(immutables) + 1 /\ BarrierClients' = BarrierClients
          /\ worker' # "exited" /\ ~shuttingDown'
      BY <1>2, <2>1, AppendProperties DEF PutRotate, RotateAndWrite, NotifyFlush,
         BarrierClients, BarrierWaits, TypeOK
    <2>3. ImmutablesBounded'
      BY <1>2, <1>b, <2>2 DEF PutRotate, ImmutablesBounded
    <2>4. QED
      BY <1>d, <2>2, <2>3
  <1>3. ASSUME NEW c \in Clients, NEW k \in Keys, NEW d \in BOOLEAN, PutBlock(c, k, d)
     PROVE QueueInv'
    <2>1. BarrierClients' = BarrierClients /\ \A o \in Clients : pc[o] # pc'[o] => ~Closing(o)
      BY <1>3 DEF PutBlock, MayCall, Goto, BarrierClients, BarrierWaits, Closing, TypeOK
    <2>2. QED
      BY <1>c, <1>3, <2>1 DEF PutBlock, storeVars
  <1>4. ASSUME NEW c \in Clients, BarrierRotate(c) PROVE QueueInv'
    <2>1. ~shuttingDown /\ worker # "exited" /\ active # <<>> /\ up
      BY <1>4, CallerNotClosing, CallerHasActive DEF BarrierRotate, MayCall, Closing
    <2>2. Len(immutables') = Len(immutables) + 1 /\ worker' # "exited" /\ ~shuttingDown'
      BY <1>4, <2>1, AppendProperties DEF BarrierRotate, NotifyFlush, TypeOK
    <2>3. BarrierClients' = BarrierClients \cup {c} /\ c \notin BarrierClients
      BY <1>4 DEF BarrierRotate, MayCall, Goto, BarrierClients, BarrierWaits, TypeOK
    <2>4. Cardinality(BarrierClients') = Cardinality(BarrierClients) + 1
      BY <1>b, <2>3, FS_AddElement
    <2>5. ImmutablesBounded'
      BY <1>b, <2>2, <2>4 DEF QueueInv, ImmutablesBounded
    <2>6. QED
      BY <1>d, <2>2, <2>5
  <1>5. ASSUME NEW c \in Clients, BarrierWait(c) PROVE QueueInv'
    <2>1. ~shuttingDown /\ worker # "exited" /\ active # <<>> /\ up
      BY <1>5, CallerNotClosing, CallerHasActive DEF BarrierWait, MayCall, Closing
    <2>2. immutables' = immutables /\ worker' # "exited" /\ ~shuttingDown'
      BY <1>5, <2>1 DEF BarrierWait, storeVars
    <2>3. BarrierClients \in SUBSET BarrierClients'
      BY <1>5 DEF BarrierWait, MayCall, Goto, BarrierClients, BarrierWaits, TypeOK
    <2>4. Cardinality(BarrierClients) <= Cardinality(BarrierClients')
      BY <1>b, <2>3, FS_Subset
    <2>5. ImmutablesBounded'
      BY <1>b, <2>2, <2>4 DEF QueueInv, ImmutablesBounded
    <2>6. QED
      BY <1>d, <2>2, <2>5
  <1>6. ASSUME NEW c \in Clients, BarrierReturn(c) PROVE QueueInv'
    BY <1>c, <1>6 DEF BarrierReturn, BarrierClients, BarrierWaits, Closing, TypeOK, storeVars, histVars
  <1>7. ASSUME NEW c \in Clients, NEW k \in Keys, Get(c, k) PROVE QueueInv'
    <2>1. BarrierClients' = BarrierClients /\ \A o \in Clients : pc[o] # pc'[o] => ~Closing(o)
      BY <1>7 DEF Get, MayCall, Goto, BarrierClients, BarrierWaits, Closing, TypeOK
    <2>2. QED
      BY <1>c, <1>7, <2>1 DEF Get, storeVars
  <1>8. ASSUME NEW c \in Clients, GetPrefix(c, Keys) PROVE QueueInv'
    <2>1. BarrierClients' = BarrierClients /\ \A o \in Clients : pc[o] # pc'[o] => ~Closing(o)
      BY <1>8 DEF GetPrefix, MayCall, Goto, BarrierClients, BarrierWaits, Closing, TypeOK
    <2>2. QED
      BY <1>c, <1>8, <2>1 DEF GetPrefix, storeVars
  <1>9. ASSUME NEW c \in Clients, Close(c) PROVE QueueInv'
    <2>1. BarrierClients' = BarrierClients /\ Closing(c)'
      BY <1>9 DEF Close, Goto, BarrierClients, BarrierWaits, Closing, TypeOK
    <2>2. worker' # "exited" /\ immutables' = immutables
      BY <1>9 DEF Close, QueueInv, storeVars
    <2>3. QED
      BY <2>1, <2>2 DEF QueueInv, ImmutablesBounded
  <1>10. ASSUME NEW c \in Clients, PutResume(c) PROVE QueueInv'
    <2>1. ~shuttingDown /\ worker # "exited" /\ active # <<>> /\ up
      BY <1>10, CallerNotClosing, CallerHasActive DEF PutResume, Closing, Control,
         DownIsEmpty
    <2>2. BarrierClients' = BarrierClients /\ UNCHANGED shuttingDown
      BY <1>10 DEF PutResume, Return, Goto, BarrierClients, BarrierWaits, TypeOK
    <2>3. CASE UNCHANGED <<immutables, worker>>
      BY <1>d, <2>1, <2>2, <2>3 DEF QueueInv, ImmutablesBounded
    <2>4. ASSUME Len(immutables) < MaxImmutable, NEW k \in Keys,
       RotateAndWrite(k, call[c].del)
          PROVE  QueueInv'
      <3>1. Len(immutables') = Len(immutables) + 1 /\ worker' # "exited"
        BY <2>1, <2>4, AppendProperties DEF RotateAndWrite, NotifyFlush, TypeOK
      <3>2. ImmutablesBounded'
        BY <1>b, <2>2, <2>4, <3>1 DEF ImmutablesBounded
      <3>3. QED
        BY <1>d, <2>1, <2>2, <3>1, <3>2
    <2>5. QED
      BY <1>10, <2>3, <2>4 DEF PutResume, TypeOK, CallType
  <1>11. ASSUME NEW c \in Clients, BarrierResume(c) PROVE QueueInv'
    <2>1. ~shuttingDown /\ worker # "exited"
      BY <1>11, CallerNotClosing DEF BarrierResume, Closing
    <2>2. UNCHANGED <<immutables, shuttingDown, worker>>
      BY <1>11 DEF BarrierResume, storeVars
    <2>3. CASE Drained
      <3>1. Len(immutables') = 0
        BY <2>2, <2>3, EmptySeq DEF Drained
      <3>2. ImmutablesBounded'
        BY <1>b, <3>1 DEF ImmutablesBounded
      <3>3. QED
        BY <1>d, <2>1, <2>2, <3>2
    <2>4. CASE Goto(c, "barWait")
      <3>1. BarrierClients' = BarrierClients
        BY <1>11, <2>4 DEF BarrierResume, Goto, BarrierClients, BarrierWaits, TypeOK
      <3>2. QED
        BY <1>d, <2>1, <2>2, <3>1 DEF QueueInv, ImmutablesBounded
    <2>5. QED
      BY <1>11, <2>3, <2>4 DEF BarrierResume
  <1>12. ASSUME NEW c \in Clients, GetSST(c) PROVE QueueInv'
    <2>1. BarrierClients' = BarrierClients /\ \A o \in Clients : pc[o] # pc'[o] => ~Closing(o)
      BY <1>12 DEF GetSST, Return, Goto, BarrierClients, BarrierWaits, Closing, TypeOK
    <2>2. QED
      BY <1>c, <1>12, <2>1 DEF GetSST, storeVars
  <1>13. ASSUME NEW c \in Clients, ScanSST(c) PROVE QueueInv'
    <2>1. BarrierClients' = BarrierClients /\ \A o \in Clients : pc[o] # pc'[o] => ~Closing(o)
      BY <1>13 DEF ScanSST, Return, Goto, BarrierClients, BarrierWaits, Closing, TypeOK
    <2>2. QED
      BY <1>c, <1>13, <2>1 DEF ScanSST, storeVars
  <1>14. ASSUME NEW c \in Clients, ReadReturn(c) PROVE QueueInv'
    <2>1. BarrierClients' = BarrierClients /\ \A o \in Clients : pc[o] # pc'[o] => ~Closing(o)
      BY <1>14 DEF ReadReturn, Return, Goto, BarrierClients, BarrierWaits, Closing, TypeOK
    <2>2. QED
      BY <1>c, <1>14, <2>1 DEF ReadReturn, storeVars
  <1>15. ASSUME NEW c \in Clients, CloseNotify(c) PROVE QueueInv'
    <2>1. BarrierClients' = BarrierClients /\ Closing(c)'
      BY <1>15 DEF CloseNotify, Goto, BarrierClients, BarrierWaits, Closing, TypeOK
    <2>2. (worker' = "exited" => worker = "exited") /\ UNCHANGED <<immutables, shuttingDown>>
      BY <1>15 DEF CloseNotify, NotifyFlush, storeVars
    <2>3. \A o \in Clients : ~Draining(o)
      BY <1>15 DEF CloseNotify, Control, CloseAlone, Closing, Draining
    <2>4. QED
      BY <2>1, <2>2, <2>3 DEF QueueInv, ImmutablesBounded
  <1>16. ASSUME NEW c \in Clients, CloseJoin(c) PROVE QueueInv'
    <2>1. Closing(c)' /\ Draining(c)'
      BY <1>16 DEF CloseJoin, Goto, Closing, Draining, TypeOK
    <2>2. \A o \in Clients : ~Draining(o)
      BY <1>16 DEF CloseJoin, Control, CloseAlone, Closing, Draining
    <2>3. immutables = <<>> /\ shuttingDown /\ UNCHANGED shuttingDown
      BY <1>16, <2>2 DEF CloseJoin, QueueInv
    <2>4. active # <<>> /\ active[1] \in MemtableType
      BY <1>16, <2>2 DEF CloseJoin, Control, ActiveExists, DownIsEmpty, TypeOK
    <2>5. Len(immutables') <= 1
      BY <1>16, <2>3, <2>4, AppendProperties, EmptySeq DEF CloseJoin, TypeOK
    <2>6. ImmutablesBounded'
      BY SMTT(30), <1>a, <1>b, <2>5 DEF ImmutablesBounded, TypeOK
    <2>7. QED
      BY <2>1, <2>3, <2>6 DEF QueueInv
  <1>17. ASSUME NEW c \in Clients, CloseDrain(c) PROVE QueueInv'
    <2>1. BarrierClients' = BarrierClients /\ Closing(c)' /\ Draining(c)'
      BY <1>17 DEF CloseDrain, Goto, BarrierClients, BarrierWaits, Closing, Draining, TypeOK
    <2>2. shuttingDown /\ UNCHANGED shuttingDown
      BY <1>17 DEF CloseDrain, Control, CloseAlone, Closing
    <2>3. Len(immutables') <= Len(immutables)
      BY <1>17, HeadTailProperties DEF CloseDrain, TypeOK
    <2>4. ImmutablesBounded'
      <3>1. Len(immutables) <= MaxImmutable + Cardinality(BarrierClients)
        BY DEF QueueInv, ImmutablesBounded
      <3>2. Len(immutables) \in Nat /\ Len(immutables') \in Nat
        BY <1>a, <1>b DEF TypeOK
      <3>3. Len(immutables') <= MaxImmutable + Cardinality(BarrierClients)
        BY <1>b, <2>3, <3>1, <3>2
      <3>4. QED
        BY <2>1, <3>3 DEF ImmutablesBounded
    <2>5. QED
      BY <2>1, <2>2, <2>4 DEF QueueInv
  <1>18. ASSUME NEW c \in Clients, CloseFlush(c) PROVE QueueInv'
    <2>1. BarrierClients' = BarrierClients /\ Closing(c)' /\ Draining(c)'
      BY <1>18 DEF CloseFlush, Goto, BarrierClients, BarrierWaits, Closing, Draining, TypeOK
    <2>2. shuttingDown /\ UNCHANGED shuttingDown
      BY <1>18 DEF CloseFlush, Control, CloseAlone, Closing
    <2>3. Len(immutables') <= Len(immutables)
      BY <1>18, <1>b DEF CloseFlush
    <2>4. ImmutablesBounded'
      <3>1. Len(immutables) <= MaxImmutable + Cardinality(BarrierClients)
        BY DEF QueueInv, ImmutablesBounded
      <3>2. Len(immutables) \in Nat /\ Len(immutables') \in Nat
        BY <1>a, <1>b DEF TypeOK
      <3>3. Len(immutables') <= MaxImmutable + Cardinality(BarrierClients)
        BY <1>b, <2>3, <3>1, <3>2
      <3>4. QED
        BY <2>1, <3>3 DEF ImmutablesBounded
    <2>5. QED
      BY <2>1, <2>2, <2>4 DEF QueueInv
  <1>19. ASSUME NEW c \in Clients, CloseReturn(c) PROVE QueueInv'
    <2>1. ~shuttingDown' /\ worker' # "exited" /\ Len(immutables') = 0
      BY <1>19, EmptySeq DEF CloseReturn
    <2>2. QED
      BY <1>b, <1>d, <2>1 DEF ImmutablesBounded
  <1>20. CASE WorkerPop
    <2>1. Len(immutables') <= Len(immutables)
      BY <1>20, HeadTailProperties DEF WorkerPop, TypeOK
    <2>2. BarrierClients' = BarrierClients /\ UNCHANGED <<shuttingDown, pc>> /\ worker' # "exited"
      BY <1>20 DEF WorkerPop, BarrierClients, BarrierWaits
    <2>3. ImmutablesBounded'
      BY SMTT(30), <1>a, <1>b, <2>1, <2>2 DEF QueueInv, ImmutablesBounded, TypeOK
    <2>4. QED
      BY <2>2, <2>3 DEF QueueInv, Closing
  <1>21. CASE WorkerExit
    BY <1>21 DEF WorkerExit, QueueInv, ImmutablesBounded, BarrierClients, BarrierWaits, Closing,
       storeVars
  <1>22. CASE WorkerFindsNothing
    BY <1>c, <1>22 DEF WorkerFindsNothing, BarrierClients, BarrierWaits, Closing, TypeOK, storeVars,
       histVars
  <1>23. CASE WorkerSleep
    BY <1>c, <1>23 DEF WorkerSleep, BarrierClients, BarrierWaits, Closing, TypeOK, storeVars, histVars
  <1>24. CASE WorkerNotifyBackpressure
    <2>1. BarrierClients' = BarrierClients /\ \A o \in Clients : pc[o] # pc'[o] => ~Closing(o)
      BY <1>24 DEF WorkerNotifyBackpressure, NotifyAll, BarrierClients, BarrierWaits, Closing, TypeOK
    <2>2. QED
      BY <1>c, <1>24, <2>1 DEF WorkerNotifyBackpressure, storeVars
  <1>25. CASE WorkerFlush
    BY <1>c, <1>25 DEF WorkerFlush, BarrierClients, BarrierWaits, Closing, TypeOK, storeVars, histVars
  <1>26. CASE WorkerClear
    BY <1>c, <1>26 DEF WorkerClear, BarrierClients, BarrierWaits, Closing, TypeOK, storeVars, histVars
  <1>27. CASE WorkerNotifyBarrier
    <2>1. BarrierClients' = BarrierClients /\ \A o \in Clients : pc[o] # pc'[o] => ~Closing(o)
      BY <1>27 DEF WorkerNotifyBarrier, NotifyAll, BarrierClients, BarrierWaits, Closing, TypeOK
    <2>2. QED
      BY <1>c, <1>27, <2>1 DEF WorkerNotifyBarrier, storeVars
  <1>28. CASE SpuriousWakeup
    <2>1. BarrierClients' = BarrierClients /\ \A o \in Clients : pc[o] # pc'[o] => ~Closing(o)
      BY <1>28 DEF SpuriousWakeup, Goto, BarrierClients, BarrierWaits, Closing, TypeOK
    <2>2. QED
      BY <1>c, <1>28, <2>1 DEF SpuriousWakeup, storeVars
  <1>29. CASE Open
    <2>1. UNCHANGED <<immutables, shuttingDown, pc>> /\ worker' # "exited"
      BY <1>29 DEF Open, Control, DownIsEmpty
    <2>2. BarrierClients' = BarrierClients /\ \A o \in Clients : ~Closing(o)
      BY <1>29, <2>1 DEF Open, BarrierClients, BarrierWaits, Control, DownIsEmpty, Closing
    <2>3. QED
      BY <1>c, <2>1, <2>2
  <1>30. CASE RemoveAll
    <2>1. UNCHANGED <<immutables, shuttingDown, pc>> /\ worker' # "exited"
      BY <1>30 DEF RemoveAll, Control, DownIsEmpty
    <2>2. BarrierClients' = BarrierClients /\ \A o \in Clients : ~Closing(o)
      BY <1>30, <2>1 DEF RemoveAll, BarrierClients, BarrierWaits, Control, DownIsEmpty, Closing
    <2>3. QED
      BY <1>c, <2>1, <2>2
  <1>31. CASE Crash
    <2>1. ~shuttingDown' /\ worker' # "exited" /\ Len(immutables') = 0
      BY <1>31, EmptySeq DEF Crash, LoseMemory
    <2>2. QED
      BY <1>b, <1>d, <2>1 DEF ImmutablesBounded
  <1>32. ASSUME NEW n \in 0 .. MaxWrites, NEW torn \in BOOLEAN, CrashInFlush(n, torn)
     PROVE QueueInv'
    <2>1. ~shuttingDown' /\ worker' # "exited" /\ Len(immutables') = 0
      BY <1>32, EmptySeq DEF CrashInFlush, LoseMemory
    <2>2. QED
      BY <1>b, <1>d, <2>1 DEF ImmutablesBounded
  <1>33. CASE UNCHANGED vars
    BY <1>c, <1>33 DEF vars, BarrierClients, BarrierWaits
  <1>34. QED
    BY <1>1, <1>2, <1>3, <1>4, <1>5, <1>6, <1>7, <1>8, <1>9, <1>10, <1>11, <1>12, <1>13,
       <1>14, <1>15, <1>16, <1>17, <1>18, <1>19, <1>20, <1>21, <1>22, <1>23, <1>24,
       <1>25, <1>26, <1>27, <1>28, <1>29, <1>30, <1>31, <1>32, <1>33, MutationAssumption
       DEF Next, Call, Continue, Worker

--------------------------------------------------------------------------------
SafetyInv == IInv /\ Wakeups /\ BarrierInv /\ QueueInv

\* The invariants at first.
LEMMA InitSafety == Init => SafetyInv
  <1> SUFFICES ASSUME Init PROVE SafetyInv
    OBVIOUS
  <1>1. IInv
    BY InitIInv
  <1>2. Wakeups
    BY DEF Init, Wakeups, SleepsOnEmpty, WaitersWaitForSomething
  <1>3. BarrierInv
    BY DEF Init, BarrierInv, BarrierMarks, BarrierClients, BarrierWaits
  <1>4. QueueInv
    <2>1. Len(immutables) = 0 /\ ~shuttingDown /\ worker # "exited"
      BY EmptySeq DEF Init
    <2>2. QED
      BY <1>1, <2>1, BarrierClientsFinite DEF IInv, QueueInv, ImmutablesBounded
  <1>5. QED
    BY <1>1, <1>2, <1>3, <1>4 DEF SafetyInv

\* Every step keeps the invariants.
LEMMA NextSafety == SafetyInv /\ [Next]_vars => SafetyInv'
  BY NextIInv, WakeupStep, BarrierStep, QueueStep DEF SafetyInv

\* The invariants hold in every state.
LEMMA SafetyInvariance == Spec => []SafetyInv
  BY InitSafety, NextSafety, PTL DEF Spec

(* In every reachable state no thread sleeps on a condition variable of    *)
(* the store with its predicate true and no notification on the way.       *)
THEOREM WakeupsNotLost == Spec => []NoLostWakeup
  <1>1. SafetyInv => NoLostWakeup
    BY DEF SafetyInv, Wakeups, SleepsOnEmpty, WaitersWaitForSomething, NoLostWakeup
  <1>2. QED
    BY <1>1, SafetyInvariance, PTL

(* In every reachable state the queue of immutable memtables exceeds       *)
(* _max_immutable_memtables by at most one per thread in writeBarrier.     *)
THEOREM QueueBounded == Spec => []ImmutablesBounded
  <1>1. SafetyInv => ImmutablesBounded
    BY DEF SafetyInv, QueueInv
  <1>2. QED
    BY <1>1, SafetyInvariance, PTL

--------------------------------------------------------------------------------
(* A flush, complete or cut short, makes writes unreadable only among      *)
(* those it was writing, and no barrier covers these.                      *)
OnlyNewGone == \A i \in gone' : i \in gone \/ i > synced

(* What a step does to the history of the writes.                          *)
Effect ==
    \/ UNCHANGED <<log, flushed, synced, gone>>
    \/ Abstract!MakeWrite /\ UNCHANGED gone
    \/ Abstract!Persist /\ OnlyNewGone
    \/ Abstract!Acknowledge /\ UNCHANGED gone
    \/ Abstract!Crash /\ OnlyNewGone
    \/ RemoveAll

\* A file hides only writes that are its own.
LEMMA ShadowedAfterBase ==
    ASSUME NEW t \in TableType PROVE \A i \in Shadowed(t) : i > t.base
  <1> SUFFICES ASSUME NEW n \in DOMAIN t.data PROVE t.base + n > t.base
    BY DEF Shadowed
  <1>1. t.base \in Nat /\ n \in Nat /\ n >= 1
    BY DEF TableType
  <1>2. QED
    BY <1>1

\* A write makes the history longer.
LEMMA WriteEffect ==
    ASSUME IInv, NEW m, NEW k \in Keys, NEW d \in BOOLEAN, Write(m, k, d),
           UNCHANGED <<flushed, synced, gone>>
    PROVE  Abstract!MakeWrite /\ UNCHANGED gone
  <1> DEFINE rec == [key |-> k, del |-> d, seq |-> Len(log) + 1]
  <1>1. rec \in Record /\ log \in Seq(Record)
    BY DEF Record, IInv, TypeOK
  <1>2. log' = Append(log, rec)
    BY DEF Write
  <1> HIDE DEF rec
  <1>3. Len(log') = Len(log) + 1 /\ log'[Len(log) + 1] = rec
    BY <1>1, <1>2, AppendProperties
  <1>4. QED
    BY <1>1, <1>2, <1>3 DEF Abstract!MakeWrite

\* A flush makes a longer part durable and costs only writes that were not durable.
LEMMA FlushEffect ==
    ASSUME IInv, BarrierInv, up, inflight # <<>>, FlushMemtableToL0(inflight[1]),
           UNCHANGED <<log, synced>>
    PROVE  Abstract!Persist /\ OnlyNewGone
  <1> DEFINE m == inflight[1]
  <1>1. m \in MemtableType /\ m.base = flushed /\ LastWrite(m) <= Len(log)
    BY DEF IInv, TypeOK, WritesInOrder, Holds
  <1>2. flushed' \in flushed .. Len(log) /\ flushed \in Nat /\ synced \in Nat /\ synced <= flushed
    BY <1>1, MemtableFacts, FlushAdvances DEF FlushMemtableToL0, IInv, TypeOK, BarrierInv
  <1>3. Abstract!Persist
    BY <1>2 DEF Abstract!Persist
  <1>4. OnlyNewGone
    <2>1. CASE UNCHANGED gone
      BY <2>1 DEF OnlyNewGone
    <2>2. ASSUME NEW good \in 0 .. (Len(m.data) - 1), NEW torn \in BOOLEAN,
                 gone' = gone \union Shadowed(FlushedTable(m, good, torn))
          PROVE  OnlyNewGone
      <3> DEFINE t == FlushedTable(m, good, torn)
      <3>1. good \in 0 .. Len(m.data) /\ good < Len(m.data)
        BY <1>1 DEF MemtableType
      <3>2. t \in TableType /\ t.base = flushed
        BY <1>1, <3>1, FlushedTableType DEF FlushedTable
      <3>3. Shadowed(t) \subseteq Nat /\ gone \subseteq Nat /\ \A i \in Shadowed(t) : i > flushed
        BY <3>2, ShadowedAfterBase DEF IInv, TypeOK, Shadowed, TableType
      <3>4. QED
        BY <1>2, <2>2, <3>3 DEF OnlyNewGone
    <2>3. QED
      BY <2>1, <2>2 DEF FlushMemtableToL0
  <1>5. QED
    BY <1>3, <1>4

\* A barrier that returns acknowledges what is durable.
LEMMA AckEffect ==
    ASSUME IInv, BarrierInv, BarrierInv', TypeOK', UNCHANGED <<log, flushed, gone>>,
           synced <= synced'
    PROVE  Abstract!Acknowledge /\ UNCHANGED gone
  BY DEF Abstract!Acknowledge, IInv, TypeOK, BarrierInv

\* Every step is one of DurableLog, or leaves the history as it is.
LEMMA StepEffect == SafetyInv /\ [Next]_vars => Effect
  <1> SUFFICES ASSUME SafetyInv, [Next]_vars PROVE Effect
    OBVIOUS
  <1> USE DEF SafetyInv
  <1>a. TypeOK /\ TypeOK' /\ Control /\ IInv' /\ BarrierInv' /\ synced <= flushed
    BY NextSafety DEF IInv, BarrierInv
  <1>b. flushed \in 0 .. Len(log) /\ Len(log) \in Nat /\ synced \in Nat
    BY <1>a, FlushedInLog DEF TypeOK
  <1>1. ASSUME NEW c \in Clients, NEW k \in Keys, NEW d \in BOOLEAN, Put(c, k, d)
     PROVE Effect
    BY <1>1, WriteEffect DEF Put, Effect
  <1>2. ASSUME NEW c \in Clients, NEW k \in Keys, NEW d \in BOOLEAN, PutRotate(c, k, d)
     PROVE Effect
    BY <1>2, WriteEffect DEF PutRotate, RotateAndWrite, Effect
  <1>3. ASSUME NEW c \in Clients, NEW k \in Keys, NEW d \in BOOLEAN, PutBlock(c, k, d)
     PROVE Effect
    BY <1>3 DEF PutBlock, histVars, Effect
  <1>4. ASSUME NEW c \in Clients, BarrierRotate(c) PROVE Effect
    BY <1>4 DEF BarrierRotate, histVars, Effect
  <1>5. ASSUME NEW c \in Clients, BarrierWait(c) PROVE Effect
    BY <1>5 DEF BarrierWait, histVars, Effect
  <1>6. ASSUME NEW c \in Clients, BarrierReturn(c) PROVE Effect
    <2>1. synced <= synced' /\ UNCHANGED <<log, flushed, gone>>
      BY <1>6, <1>a, <1>b DEF BarrierReturn
    <2>2. QED
      BY <1>a, <2>1, AckEffect DEF Effect
  <1>7. ASSUME NEW c \in Clients, NEW k \in Keys, Get(c, k) PROVE Effect
    BY <1>7 DEF Get, histVars, Effect
  <1>8. ASSUME NEW c \in Clients, GetPrefix(c, Keys) PROVE Effect
    BY <1>8 DEF GetPrefix, histVars, Effect
  <1>9. ASSUME NEW c \in Clients, Close(c) PROVE Effect
    BY <1>9 DEF Close, histVars, Effect
  <1>10. ASSUME NEW c \in Clients, PutResume(c) PROVE Effect
    <2>1. CASE UNCHANGED log
      BY <1>10, <2>1 DEF PutResume, Effect
    <2>2. ASSUME NEW k \in call[c].keys, RotateAndWrite(k, call[c].del) PROVE Effect
      <3>1. k \in Keys /\ call[c].del \in BOOLEAN
        BY <1>a, <2>2 DEF TypeOK, CallType
      <3>2. QED
        BY <1>10, <2>2, <3>1, WriteEffect DEF PutResume, RotateAndWrite, Effect
    <2>3. QED
      BY <1>10, <2>1, <2>2 DEF PutResume
  <1>11. ASSUME NEW c \in Clients, BarrierResume(c) PROVE Effect
    <2>1. call[c].mark \in Nat
      BY <1>a DEF TypeOK, CallType
    <2>2. synced <= synced' /\ UNCHANGED <<log, flushed, gone>>
      BY <1>11, <1>b, <2>1 DEF BarrierResume
    <2>3. QED
      BY <1>a, <2>2, AckEffect DEF Effect
  <1>12. ASSUME NEW c \in Clients, GetSST(c) PROVE Effect
    BY <1>12 DEF GetSST, histVars, Effect
  <1>13. ASSUME NEW c \in Clients, ScanSST(c) PROVE Effect
    BY <1>13 DEF ScanSST, histVars, Effect
  <1>14. ASSUME NEW c \in Clients, ReadReturn(c) PROVE Effect
    BY <1>14 DEF ReadReturn, histVars, Effect
  <1>15. ASSUME NEW c \in Clients, CloseNotify(c) PROVE Effect
    BY <1>15 DEF CloseNotify, histVars, Effect
  <1>16. ASSUME NEW c \in Clients, CloseJoin(c) PROVE Effect
    BY <1>16 DEF CloseJoin, histVars, Effect
  <1>17. ASSUME NEW c \in Clients, CloseDrain(c) PROVE Effect
    BY <1>17 DEF CloseDrain, histVars, Effect
  <1>18. ASSUME NEW c \in Clients, CloseFlush(c) PROVE Effect
    <2>1. up /\ inflight # <<>>
      BY <1>18, <1>a DEF CloseFlush, Control, DownIsEmpty, InflightOwner
    <2>2. QED
      BY <1>18, <2>1, FlushEffect DEF CloseFlush, Effect
  <1>19. ASSUME NEW c \in Clients, CloseReturn(c) PROVE Effect
    <2>1. synced <= synced' /\ UNCHANGED <<log, flushed, gone>>
      BY <1>19, <1>a, <1>b DEF CloseReturn
    <2>2. QED
      BY <1>a, <2>1, AckEffect DEF Effect
  <1>20. CASE WorkerPop
    BY <1>20 DEF WorkerPop, histVars, Effect
  <1>21. CASE WorkerExit
    BY <1>21 DEF WorkerExit, histVars, Effect
  <1>22. CASE WorkerFindsNothing
    BY <1>22 DEF WorkerFindsNothing, histVars, Effect
  <1>23. CASE WorkerSleep
    BY <1>23 DEF WorkerSleep, histVars, Effect
  <1>24. CASE WorkerNotifyBackpressure
    BY <1>24 DEF WorkerNotifyBackpressure, histVars, Effect
  <1>25. CASE WorkerFlush
    <2>1. up /\ inflight # <<>>
      BY <1>25, <1>a DEF WorkerFlush, Control, DownIsEmpty, InflightOwner
    <2>2. QED
      BY <1>25, <2>1, FlushEffect DEF WorkerFlush, Effect
  <1>26. CASE WorkerClear
    BY <1>26 DEF WorkerClear, histVars, Effect
  <1>27. CASE WorkerNotifyBarrier
    BY <1>27 DEF WorkerNotifyBarrier, histVars, Effect
  <1>28. CASE SpuriousWakeup
    BY <1>28 DEF SpuriousWakeup, histVars, Effect
  <1>29. CASE Open
    BY <1>29 DEF Open, histVars, Effect
  <1>30. CASE RemoveAll
    BY <1>30 DEF Effect
  <1>31. CASE Crash
    <2>1. Abstract!Crash
      BY <1>31, <1>b DEF Crash, Abstract!Crash
    <2>2. OnlyNewGone
      BY <1>31 DEF Crash, OnlyNewGone
    <2>3. QED
      BY <2>1, <2>2 DEF Effect
  <1>32. ASSUME NEW n \in 0 .. MaxWrites, NEW torn \in BOOLEAN, CrashInFlush(n, torn)
     PROVE Effect
    <2> DEFINE t == CrashedTable(inflight[1], n, torn)
    <2>1. inflight # <<>> /\ up
      BY <1>32, <1>a DEF CrashInFlush, Control, InflightOwner, Writing
    <2>2. n \in 0 .. Len(inflight[1].data)
      BY <1>32, <1>a, <2>1 DEF CrashInFlush, TypeOK, MemtableType
    <2>3. t \in TableType /\ Shadowed(t) \subseteq Nat /\ LastWrite(t) \in flushed .. Len(log)
      BY <1>32, <2>1, <2>2, CrashedFile DEF CrashInFlush
    <2>4. t.base = flushed
      BY <2>1 DEF CrashedTable, RecoveredTable, FlushedTable, IInv, WritesInOrder
    <2>5. Abstract!Crash
      BY <1>32, <2>3 DEF CrashInFlush, Abstract!Crash
    <2>6. \A i \in Shadowed(t) : i \in Nat /\ i > flushed
      BY <2>3, <2>4, ShadowedAfterBase
    <2>7. gone' = gone \union Shadowed(t)
      BY <1>32 DEF CrashInFlush
    <2> HIDE DEF t
    <2>8. OnlyNewGone
      BY <1>a, <1>b, <2>6, <2>7 DEF OnlyNewGone
    <2>9. QED
      BY <2>5, <2>8 DEF Effect
  <1>33. CASE UNCHANGED vars
    BY <1>33 DEF vars, Effect
  <1>34. QED
    BY <1>1, <1>2, <1>3, <1>4, <1>5, <1>6, <1>7, <1>8, <1>9, <1>10, <1>11, <1>12, <1>13,
       <1>14, <1>15, <1>16, <1>17, <1>18, <1>19, <1>20, <1>21, <1>22, <1>23, <1>24,
       <1>25, <1>26, <1>27, <1>28, <1>29, <1>30, <1>31, <1>32, <1>33, MutationAssumption
       DEF Next, Call, Continue, Worker

(* The store implements the abstract durable log: its initial states are   *)
(* the log's, and every step is a write, a flush, an acknowledgement, a    *)
(* crash that cuts the history after what was flushed, a wipe of the       *)
(* directory, or changes nothing the log has.                              *)
THEOREM DurableLogImplemented == Spec => ImplementsDurableLog
  <1>1. Init => Abstract!Init
    BY DEF Init, Abstract!Init
  <1>2. SafetyInv /\ [Next]_vars => [Abstract!Next]_(Abstract!vars)
    <2> SUFFICES ASSUME SafetyInv, [Next]_vars PROVE [Abstract!Next]_(Abstract!vars)
      OBVIOUS
    <2>1. CASE RemoveAll
      BY <2>1 DEF RemoveAll, Abstract!Next, Abstract!Wipe
    <2>2. CASE UNCHANGED <<log, flushed, synced, gone>>
      BY <2>2 DEF Abstract!vars
    <2>3. QED
      BY <2>1, <2>2, StepEffect DEF Effect, Abstract!Next
  <1>3. QED
    BY <1>1, <1>2, SafetyInvariance, PTL DEF Spec, ImplementsDurableLog, Abstract!Spec

(* What a crash leaves of the writes, a prefix of them, has the elements   *)
(* they had.                                                               *)
LEMMA PrefixElements ==
  ASSUME NEW S, NEW s \in Seq(S), NEW n \in 0 .. Len(s), NEW k \in 1 .. n
  PROVE  k \in DOMAIN SubSeq(s, 1, n) /\ SubSeq(s, 1, n)[k] = s[k]
  <1>1. n \in Int /\ \A j \in 1 .. n : s[j] \in S
    OBVIOUS
  <1>2. /\ SubSeq(s, 1, n) \in Seq(S)
        /\ Len(SubSeq(s, 1, n)) = IF 1 <= n THEN n - 1 + 1 ELSE 0
        /\ \A j \in 1 .. n - 1 + 1 : SubSeq(s, 1, n)[j] = s[1 + j - 1]
    BY <1>1, SubSeqProperties
  <1>3. k \in 1 .. n - 1 + 1 /\ 1 + k - 1 = k
    BY <1>1
  <1>4. k \in DOMAIN SubSeq(s, 1, n)
    BY <1>1, <1>2
  <1>5. QED
    BY <1>2, <1>3, <1>4

(* No step takes back or makes unreadable a write that a completed         *)
(* writeBarrier covers, wherever the process crashes and whichever flush   *)
(* fails; only deleting the directory does.                                *)
THEOREM BarrierDurable == Spec => BarrieredSurvives
  <1> DEFINE Kept == \/ RemoveAll
                     \/ \A i \in 1 .. synced : /\ i \in DOMAIN log' /\ log'[i] = log[i]
                                               /\ i \in gone' => i \in gone
  <1>1. SafetyInv /\ [Next]_vars => [Kept]_vars
    <2> SUFFICES ASSUME SafetyInv, [Next]_vars, ~RemoveAll, NEW i \in 1 .. synced
                 PROVE  /\ i \in DOMAIN log' /\ log'[i] = log[i]
                        /\ i \in gone' => i \in gone
      OBVIOUS
    <2>1. /\ log \in Seq(Record) /\ flushed \in 0 .. Len(log) /\ synced \in Nat
          /\ synced <= flushed /\ gone' \subseteq Nat
      BY FlushedInLog, TypeStep DEF SafetyInv, IInv, TypeOK, BarrierInv
    <2>2. i \in DOMAIN log /\ i \in 1 .. flushed /\ Len(log) \in Nat
      BY <2>1
    <2>3. i \in DOMAIN log' /\ log'[i] = log[i]
      <3>1. CASE UNCHANGED log
        BY <2>2, <3>1
      <3>2. CASE Abstract!MakeWrite
        <4>1. log' = Append(log, log'[Len(log')]) /\ log'[Len(log')] \in Record
          BY <3>2 DEF Abstract!MakeWrite
        <4>2. QED
          BY <2>1, <2>2, <4>1, AppendProperties
      <3>3. CASE Abstract!Crash
        <4>1. flushed' \in flushed .. Len(log) /\ log' = SubSeq(log, 1, flushed')
          BY <3>3 DEF Abstract!Crash
        <4>2. flushed' \in 0 .. Len(log) /\ i \in 1 .. flushed'
          BY <2>1, <2>2, <4>1
        <4>3. QED
          BY <2>1, <4>1, <4>2, PrefixElements
      <3>4. QED
        BY <3>1, <3>2, <3>3, StepEffect DEF Effect, Abstract!Persist, Abstract!Acknowledge
    <2>4. i \in gone' => i \in gone
      <3>1. CASE OnlyNewGone
        BY <2>1, <2>2, <3>1 DEF OnlyNewGone
      <3>2. QED
        BY <3>1, StepEffect DEF Effect
    <2>5. QED
      BY <2>3, <2>4
  <1>2. QED
    BY <1>1, SafetyInvariance, PTL DEF Spec, BarrieredSurvives
================================================================================
