------------------------------- MODULE Stream -------------------------------
(***************************************************************************)
(* LSMIOStream: streams that look like files and keep one record per       *)
(* write in the database, under the name of the file and the position the  *)
(* write began at.  The position belongs to the file's name, in a static   *)
(* map: all streams on it share it, and it outlives every one of them and  *)
(* the database.                                                           *)
(*                                                                         *)
(* One thread calls the streams.  The manager keeps the writes back until  *)
(* its batch is full or a barrier comes (BatchStore); a store that shows   *)
(* every write at once is the case that the batch is written after each.   *)
(***************************************************************************)
EXTENDS Integers, Sequences, FiniteSets, SequencesExt

CONSTANTS Streams,
          Files,       \* file names; a stream that was never opened has one, too
          Unopened,    \* that one, the empty name
          Databases,   \* names that initialize() is called with
          Lengths,     \* lengths of reads and writes
          Positions,   \* where seekp() goes
          MaxOffset,   \* bound on the positions writes begin at
          MaxWrites    \* bound on the number of writes

None == "none"
Modes == {"out", "trunc", "out|trunc"}

ASSUME NameAssumption == Unopened \in Files /\ None \notin Databases
ASSUME BoundAssumption ==
  /\ MaxOffset \in Nat /\ MaxWrites \in Nat
  /\ Lengths \subseteq Nat \ {0} /\ \E n \in Lengths : \A m \in Lengths : m <= n
  /\ Positions \subseteq 0 .. MaxOffset

VARIABLES lm,        \* the database of the manager, None when not initialized
          fileMap,   \* _fileMap; a name that is not in it counts as 0
          filePath,  \* _filePath of a stream
          records,   \* what the databases hold, at most one record per key
          pending,   \* the manager's batch
          content,   \* history: the bytes that files of these names would hold
          writes,    \* history: number of writes
          unsynced,  \* history: whether something was written after the last barrier
          result     \* of the latest call

vars == <<lm, fileMap, filePath, records, pending, content, writes, unsynced, result>>

\* A byte is the number of the write that wrote it and its place in that write.
NoByte == <<0, 0>>
Top == MaxOffset + (CHOOSE n \in Lengths : \A m \in Lengths : m <= n)
Returns == [kind |-> "returned"]
Throws == [kind |-> "thrown"]

Init ==
  /\ lm = None
  /\ fileMap = [f \in Files |-> 0]
  /\ filePath = [s \in Streams |-> Unopened]
  /\ records = {} /\ pending = <<>>
  /\ content = [d \in Databases |-> [f \in Files |-> [p \in 0 .. Top |-> NoByte]]]
  /\ writes = 0 /\ unsynced = FALSE
  /\ result = Returns

\* A plausible bug: records of one name all have the same key.
NameAsKey(s) == [database |-> lm, file |-> filePath[s], offset |-> 0]

\* _genKey, in the database that is open: name and position, and nothing else.
GenKey(s) == [database |-> lm, file |-> filePath[s], offset |-> fileMap[filePath[s]]]

\* A plausible bug: the batch's records are added beside those with their keys.
StoredBeside(contents, batch) == contents \cup Range(batch)

\* LSMIOStore::put of the batch's records one after the other: each takes the
\* place of the one with its key, so that of several the last one stays.
Stored(contents, batch) ==
  LET Keyed(k) == {i \in DOMAIN batch : batch[i].key = k}
  IN  {e \in contents : Keyed(e.key) = {}}
        \cup {batch[i] : i \in {j \in DOMAIN batch : \A k \in Keyed(batch[j].key) : k <= j}}
Flushed == Stored(records, pending)

-----------------------------------------------------------------------------
\* Only the mode trunc itself moves the position, and no mode removes a record; a
\* file that is opened with the trunc bit is empty.
Open(s, f, mode) ==
  /\ filePath' = [filePath EXCEPT ![s] = f]
  /\ fileMap' = [fileMap EXCEPT ![f] = IF mode = "trunc" THEN 0 ELSE @]
  /\ content' = IF lm # None /\ mode # "out"
                THEN [content EXCEPT ![lm][f] = [p \in 0 .. Top |-> NoByte]] ELSE content
  /\ result' = Returns
  /\ UNCHANGED <<lm, records, pending, writes, unsynced>>

\* The position moves only when the record has the length that is asked for.
Read(s, n) ==
  LET found == {r \in records : r.key = GenKey(s)}
  IN  /\ fileMap[filePath[s]] <= MaxOffset
      /\ IF lm # None /\ \E r \in found : r.length = n
         THEN LET r == CHOOSE e \in found : TRUE
              IN  /\ result' = [kind |-> "read", key |-> GenKey(s),
                                bytes |-> [i \in 1 .. n |-> <<r.number, i>>]]
                  /\ fileMap' = [fileMap EXCEPT ![filePath[s]] = @ + n]
         ELSE /\ result' = IF lm = None THEN Throws
                           ELSE [kind |-> "unexpected length", key |-> GenKey(s), length |-> n]
              /\ UNCHANGED fileMap
      /\ UNCHANGED <<lm, filePath, records, pending, content, writes, unsynced>>

Write(s, n) ==
  /\ lm # None
  /\ writes < MaxWrites /\ fileMap[filePath[s]] <= MaxOffset
  /\ pending' = Append(pending, [key |-> GenKey(s), length |-> n, number |-> writes + 1])
  /\ content' = [content EXCEPT ![lm][filePath[s]] =
                   [p \in 0 .. Top |-> LET i == p - fileMap[filePath[s]] + 1
                                        IN  IF i \in 1 .. n THEN <<writes + 1, i>> ELSE @[p]]]
  /\ fileMap' = [fileMap EXCEPT ![filePath[s]] = @ + n]
  /\ writes' = writes + 1 /\ unsynced' = TRUE
  /\ result' = Returns
  /\ UNCHANGED <<lm, filePath, records>>

WriteThrows ==
  /\ lm = None
  /\ result' = Throws
  /\ UNCHANGED <<lm, fileMap, filePath, records, pending, content, writes, unsynced>>

Seekp(s, p) ==
  /\ fileMap' = [fileMap EXCEPT ![filePath[s]] = p]
  /\ result' = Returns
  /\ UNCHANGED <<lm, filePath, records, pending, content, writes, unsynced>>

\* The stream keeps its name and stays usable.
Close(s) ==
  /\ fileMap' = [fileMap EXCEPT ![filePath[s]] = 0]
  /\ result' = Returns
  /\ UNCHANGED <<lm, filePath, records, pending, content, writes, unsynced>>

\* A plausible bug: the barrier does not reach the store.
BarrierForgotten ==
  /\ lm # None
  /\ unsynced' = FALSE
  /\ result' = Returns
  /\ UNCHANGED <<lm, fileMap, filePath, records, pending, content, writes>>

WriteBarrier ==
  /\ lm # None
  /\ records' = Flushed /\ pending' = <<>>
  /\ unsynced' = FALSE
  /\ result' = Returns
  /\ UNCHANGED <<lm, fileMap, filePath, content, writes>>

\* The batch is full and goes to the database.
BatchWritten ==
  /\ pending # <<>>
  /\ records' = Flushed /\ pending' = <<>>
  /\ UNCHANGED <<lm, fileMap, filePath, content, writes, unsynced, result>>

Initialize(d) ==
  /\ lm = None
  /\ lm' = d
  /\ result' = Returns
  /\ UNCHANGED <<fileMap, filePath, records, pending, content, writes, unsynced>>

\* The manager's destructor closes its store, which writes the batch.
Cleanup ==
  /\ lm # None
  /\ lm' = None
  /\ records' = Flushed /\ pending' = <<>>
  /\ unsynced' = FALSE
  /\ result' = Returns
  /\ UNCHANGED <<fileMap, filePath, content, writes>>

Next ==
  \/ \E s \in Streams :
       \/ \E f \in Files \ {Unopened}, mode \in Modes : Open(s, f, mode)
       \/ \E n \in Lengths : Read(s, n) \/ Write(s, n)
       \/ \E p \in Positions : Seekp(s, p)
       \/ Close(s)
  \/ WriteThrows \/ WriteBarrier \/ BatchWritten \/ Cleanup
  \/ \E d \in Databases : Initialize(d)

Spec == Init /\ [][Next]_vars

-----------------------------------------------------------------------------
Key == [database : Databases, file : Files, offset : Nat]
Record == [key : Key, length : Lengths, number : 1 .. writes]

\* Type invariant of the streams: in the database and in the batch every record
\* belongs to a write, and the database has one record per key.
TypeOK ==
  /\ lm \in Databases \cup {None}
  /\ fileMap \in [Files -> 0 .. Top]
  /\ filePath \in [Streams -> Files]
  /\ records \subseteq Record /\ pending \in Seq(Record)
  /\ \A r, e \in records : r.key = e.key => r = e
  /\ writes \in 0 .. MaxWrites /\ unsynced \in BOOLEAN
  /\ result.kind \in {"returned", "thrown", "read", "unexpected length"}

\* Where all writes and reads have one length and start at its multiples, read()
\* after a write barrier never returns other bytes than those that a file holds
\* there, whichever stream wrote them, and however streams are opened, closed and
\* moved and databases left and opened again.  Where a truncated file holds
\* nothing, an older record may still answer.
ReadsNoOtherBytes ==
  result.kind = "read" /\ ~unsynced =>
     \A i \in 1 .. Len(result.bytes) :
        content[result.key.database][result.key.file][result.key.offset + i - 1]
           \in {result.bytes[i], NoByte}

\* Under the same conditions read() throws only where the file holds nothing.
BlocksReadBack ==
  result.kind = "unexpected length" /\ ~unsynced =>
     content[result.key.database][result.key.file][result.key.offset] = NoByte
=============================================================================
