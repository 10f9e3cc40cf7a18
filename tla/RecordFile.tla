------------------------------- MODULE RecordFile -------------------------------
(***************************************************************************)
(* The bytes of one L0 file: how SSTableManager::flushMemtable lays the    *)
(* records of a memtable out, how much of that a failing stream or a       *)
(* crash leaves, and what readValueAt and recoverState make of it.  SSTable*)
(* is the view the rest of the store has of the same file.                 *)
(*                                                                         *)
(* A byte is a number below Base, a length takes LenBytes bytes, lowest    *)
(* first.  The file may be preallocated, which means filled with zeros.    *)
(***************************************************************************)
EXTENDS SSTable, SequencesExt

CONSTANTS
    Base,            \* 2^8
    LenBytes,        \* sizeof(uint32_t)
    RecordKeys,      \* keys, as sequences of bytes
    RecordValues,    \* values, as sequences of bytes
    MaxRecords,      \* bound: records of the memtable
    PreAllocations   \* the possible values of _preAllocationSize

Bytes == 0 .. (Base - 1)

(* Power[n] is Base ^ n.                                                   *)
Power[n \in 0 .. (2 * LenBytes)] == IF n = 0 THEN 1 ELSE Base * Power[n - 1]

(* tellp of a failed stream is -1, which becomes the largest uint64_t.     *)
NoOffset == Power[2 * LenBytes] - 1

(* Lengths fit into their bytes, and files are shorter than NoOffset.      *)
ASSUME WidthAssumption == Base \in Nat \ {0, 1} /\ LenBytes \in Nat \ {0}
ASSUME LengthAssumption ==
    \A s \in RecordKeys \cup RecordValues : s \in Seq(Bytes) /\ Len(s) < Power[LenBytes]
ASSUME FileBoundAssumption ==
    /\ MaxRecords \in Nat /\ PreAllocations \subseteq 0 .. NoOffset
    /\ MaxRecords * (2 * LenBytes + 2 * Power[LenBytes]) <= NoOffset

VARIABLES
    data,      \* getData() of the memtable
    next,      \* the record flushMemtable's loop comes to next
    stream,    \* the bytes given to sst_file.write so far
    failed,    \* its failbit or badbit is set
    file,      \* the bytes of the file
    position,  \* how many of the stream's bytes are in it
    index,     \* the entries of new_index.offsets
    phase      \* "writing", "flushed", "dead" (no process) or "recovered"

vars == <<data, next, stream, failed, file, position, index, phase>>

--------------------------------------------------------------------------------
Encode(n) ==
    LET rest[i \in 1 .. LenBytes] == IF i = 1 THEN n ELSE rest[i - 1] \div Base
    IN  [i \in 1 .. LenBytes |-> rest[i] % Base]
Decode(s) ==
    LET last[i \in 0 .. LenBytes] ==   \* the number in the last i bytes
            IF i = 0 THEN 0 ELSE s[LenBytes + 1 - i] + Base * last[i - 1]
    IN  last[LenBytes]

Serialize(r) == Encode(Len(r.key)) \o r.key \o Encode(Len(r.value)) \o r.value

(* A read of a length at offset o that the end of the file does not cut.   *)
HasLen(f, o) == o + LenBytes <= Len(f)
LenAt(f, o) == Decode(SubSeq(f, o + 1, o + LenBytes))

(* The three reads readValueAt and recoverState begin with: lengths and    *)
(* key of the record at offset o, {} when one of them fails.               *)
Header(f, o) ==
    LET lenAt == o + LenBytes + LenAt(f, o)
    IN  IF HasLen(f, o) /\ HasLen(f, lenAt)
        THEN {[key |-> SubSeq(f, o + LenBytes + 1, lenAt), valueAt |-> lenAt + LenBytes,
               length |-> LenAt(f, lenAt)]}
        ELSE {}

ReadValueAt(f, o, k) ==
    {SubSeq(f, h.valueAt + 1, h.valueAt + h.length) :
        h \in {x \in Header(f, o) : x.key = k /\ x.valueAt + x.length <= Len(f)}}

(* The loop of recoverState.  The value is skipped by a seek, which does   *)
(* not fail past the end of the file; peek() then ends the loop.           *)
Parsed(f) ==
    LET from[o \in Nat] ==
            UNION {{[key |-> h.key, offset |-> o]} \cup from[h.valueAt + h.length] : h \in Header(f, o)}
    IN  from[0]

(* Mutant: sorted by ascending offset.                                     *)
OldestEntries(entries) ==
    {e \in entries : \A x \in entries : x.key = e.key => x.offset >= e.offset}

(* std::sort by key and descending offset, and std::unique by key.         *)
Unique(entries) ==
    {e \in entries : \A x \in entries : x.key = e.key => x.offset <= e.offset}

(* std::lower_bound finds the only entry of a key.                         *)
Lookup(k) == UNION {ReadValueAt(file, e.offset, k) : e \in {x \in index : x.key = k}}

--------------------------------------------------------------------------------
(* FilePool hands out the file, filled with zeros if it preallocates, with *)
(* the stream at its beginning.  An empty memtable takes no file.          *)
Init ==
    /\ data \in BoundedSeq([key : RecordKeys, value : RecordValues], MaxRecords) \ {<<>>}
    /\ \E size \in PreAllocations : file = [i \in 1 .. size |-> 0]
    /\ next = 1 /\ stream = <<>> /\ failed = FALSE /\ position = 0
    /\ index = {} /\ phase = "writing"

(* One turn of flushMemtable's loop; a failed stream ignores the write.    *)
WriteRecord ==
    /\ phase = "writing" /\ next <= Len(data)
    /\ index' = index \cup {[key |-> data[next].key,
                             offset |-> IF failed THEN NoOffset ELSE Len(stream)]}
    /\ stream' = IF failed THEN stream ELSE stream \o Serialize(data[next])
    /\ next' = next + 1
    /\ UNCHANGED <<data, failed, file, position, phase>>

(* Mutant: the file is opened for appending.                               *)
AppendToFile(n) ==
    /\ file' = file \o SubSeq(stream, position + 1, position + n)
    /\ position' = position + n

(* The next n bytes of the stream overwrite the file, or extend it.        *)
ReachFile(n) ==
    /\ file' = [i \in 1 .. Max({Len(file), position + n}) |->
                  IF i \in (position + 1) .. (position + n) THEN stream[i] ELSE file[i]]
    /\ position' = position + n

Unwritten == Len(stream) - position

(* The stream's buffer is full.                                            *)
Spill(n) ==
    /\ phase = "writing" /\ ~failed
    /\ n <= Unwritten
    /\ ReachFile(n)
    /\ UNCHANGED <<data, next, stream, failed, index, phase>>

(* A write to the file fails after n bytes.                                *)
Fail(n) ==
    /\ phase = "writing" /\ ~failed
    /\ n < Unwritten
    /\ ReachFile(n)
    /\ failed' = TRUE
    /\ UNCHANGED <<data, next, stream, index, phase>>

(* sst_file.flush(), the sort, and the index is in the list.               *)
Finish ==
    /\ phase = "writing" /\ next > Len(data)
    /\ IF failed THEN UNCHANGED <<file, position>> ELSE ReachFile(Unwritten)
    /\ index' = Unique(index)
    /\ phase' = "flushed"
    /\ UNCHANGED <<data, next, stream, failed>>

(* The process dies, in the middle of the file or later.                   *)
Crash ==
    /\ phase # "dead"
    /\ phase' = "dead" /\ index' = {}
    /\ UNCHANGED <<data, next, stream, failed, file, position>>

(* recoverState on this file.                                              *)
Recover ==
    /\ phase = "dead"
    /\ phase' = "recovered" /\ index' = Unique(Parsed(file))
    /\ UNCHANGED <<data, next, stream, failed, file, position>>

Next ==
    \/ WriteRecord \/ Finish \/ Crash \/ Recover
    \/ \E n \in 1 .. Unwritten : Spill(n)
    \/ \E n \in 0 .. Unwritten : Fail(n)

Spec == Init /\ [][Next]_vars

--------------------------------------------------------------------------------
(* The offset of the i-th of the records d.                                *)
StartOf(d, i) ==
    LET start[n \in 1 .. (Len(d) + 1)] ==
            IF n = 1 THEN 0 ELSE start[n - 1] + Len(Serialize(d[n - 1]))
    IN  start[i]

(* The file as SSTable sees it.  A record is complete, or begun, when all, *)
(* or one, of its bytes are in the file.                                   *)
Complete == {i \in DOMAIN data : StartOf(data, i + 1) <= position}
Begun == {i \in DOMAIN data : StartOf(data, i) < position}
Torn == \E i \in Begun \ Complete : StartOf(data, i) + 2 * LenBytes + Len(data[i].key) <= position

Table ==
    LET records == [i \in DOMAIN data |-> [key |-> data[i].key, seq |-> i]]
        t == FlushedTable([base |-> 0, data |-> records], Cardinality(Complete), Torn)
    IN  IF phase = "flushed" THEN t ELSE RecoveredTable(t)

(* Whatever a failed write or a crash leaves of a file that was not        *)
(* preallocated, and of a preallocated one before a restart unless a write *)
(* failed, looking a key up in its bytes gives the value of the record     *)
(* that TableHit names: the store's other modules may use SSTable.         *)
LookupsMatchSSTable ==
    /\ phase \in {"flushed", "recovered"}
    /\ Len(file) = position \/ (phase = "flushed" /\ ~failed)
    => \A k \in RecordKeys : Lookup(k) = {data[r.seq].value : r \in TableHit(Table, k)}

(* recoverState reads a preallocated file to its physical end, so the      *)
(* zeros after the last byte written are parsed, too.  They never hide a   *)
(* record that is complete, and never make up one for a key that was not   *)
(* being written, if keys are not empty and have no zero byte.             *)
CompleteFound ==
    phase = "recovered" =>
        \A k \in RecordKeys :
            LET begun == {i \in Begun : data[i].key = k}
            IN  begun = {} \/ Max(begun) \in Complete =>
                    Lookup(k) = {data[i].value : i \in {n \in begun : n = Max(begun)}}
================================================================================
