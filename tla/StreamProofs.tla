---------------------------- MODULE StreamProofs ----------------------------
(***************************************************************************)
(* Proofs about the streams of Stream: their type invariant, and that      *)
(* streams of whole blocks never read other bytes than a file holds.  What the  *)
(* argument rests on is what the database would hold if the batch were     *)
(* written now (Flushed): a batch that is written leaves it as it is, a    *)
(* write puts one record in it, and after a barrier it is the database.    *)
(***************************************************************************)
EXTENDS Stream, TLAPS

\* The length of a block, and the positions where one begins.
Block == CHOOSE n \in Lengths : TRUE
Aligned(p) == \E q \in 0 .. p : p = q * Block

\* All reads and writes have one length, and seekp() goes to its multiples.
Blocks == Lengths = {Block} /\ \A p \in Positions : Aligned(p)

-----------------------------------------------------------------------------
(* The batch and the database *)

\* A record of the batch with key k after which there is no other.
LastOf(batch, j) == \A k \in DOMAIN batch : batch[k].key = batch[j].key => k <= j

\* What Stored has: the records whose key the batch does not have, and the last
\* record of each key of the batch.
LEMMA StoredHas ==
  ASSUME NEW contents, NEW batch, NEW r
  PROVE  r \in Stored(contents, batch) <=>
            \/ r \in contents /\ \A i \in DOMAIN batch : batch[i].key # r.key
            \/ \E j \in DOMAIN batch : r = batch[j] /\ LastOf(batch, j)
PROOF
  BY DEF Stored, LastOf

\* Writing an empty batch changes nothing.
LEMMA StoredNothing ==
  ASSUME NEW contents
  PROVE  Stored(contents, <<>>) = contents
PROOF
<1>1. DOMAIN <<>> = {}
  OBVIOUS
<1>2. \A r : r \in Stored(contents, <<>>) <=> r \in contents
  BY <1>1, StoredHas
<1> QED
  BY <1>2

\* A record at the end of the batch takes the place of those with its key.
LEMMA StoredAppend ==
  ASSUME NEW R, NEW contents, NEW batch \in Seq(R), NEW r \in R
  PROVE  Stored(contents, Append(batch, r)) = {e \in Stored(contents, batch) : e.key # r.key} \cup {r}
PROOF
<1> DEFINE longer == Append(batch, r)
<1> DEFINE n == Len(batch) + 1
<1>1. n \in Nat /\ 1 <= n /\ DOMAIN batch = 1 .. n - 1 /\ DOMAIN longer = 1 .. n /\ longer[n] = r
  OBVIOUS
<1>2. \A i \in 1 .. n - 1 : longer[i] = batch[i]
  OBVIOUS
<1> HIDE DEF longer, n
<1>3. LastOf(longer, n)
  BY <1>1 DEF LastOf
<1>4. \A j \in 1 .. n - 1 : LastOf(longer, j) <=> LastOf(batch, j) /\ batch[j].key # r.key
  <2>1. SUFFICES ASSUME NEW j \in 1 .. n - 1
                 PROVE  LastOf(longer, j) <=> LastOf(batch, j) /\ batch[j].key # r.key
    OBVIOUS
  <2>2. j \in 1 .. n /\ n \in 1 .. n /\ ~(n <= j) /\ \A k \in 1 .. n : k \in 1 .. n - 1 \/ k = n
    BY <1>1
  <2>3. \A k \in 1 .. n - 1 : k \in 1 .. n
    BY <1>1
  <2> QED
    BY <1>1, <1>2, <2>2, <2>3 DEF LastOf
<1>5. ASSUME NEW e
      PROVE  e \in Stored(contents, longer) <=> (e \in Stored(contents, batch) /\ e.key # r.key) \/ e = r
  <2>1. \A k \in 1 .. n : k \in 1 .. n - 1 \/ k = n
    BY <1>1
  <2>2. 1 <= n /\ n \in 1 .. n /\ \A k \in 1 .. n - 1 : k \in 1 .. n
    BY <1>1
  <2>3. (\A i \in DOMAIN longer : longer[i].key # e.key)
           <=> (\A i \in DOMAIN batch : batch[i].key # e.key) /\ e.key # r.key
    BY <1>1, <1>2, <2>1, <2>2
  <2>4. (\E j \in DOMAIN longer : e = longer[j] /\ LastOf(longer, j))
           <=> (\E j \in DOMAIN batch : e = batch[j] /\ LastOf(batch, j) /\ e.key # r.key) \/ e = r
    BY <1>1, <1>2, <1>3, <1>4, <2>1, <2>2
  <2> QED
    BY <2>3, <2>4, StoredHas
<1> QED
  BY <1>5 DEF longer

\* Of records that belong to writes, one per key, and a batch of such records
\* the same is true once they are stored.
LEMMA StoredType ==
  ASSUME NEW R, NEW contents \in SUBSET R, NEW batch \in Seq(R),
         \A r, e \in contents : r.key = e.key => r = e
  PROVE  /\ Stored(contents, batch) \subseteq R
         /\ \A r, e \in Stored(contents, batch) : r.key = e.key => r = e
PROOF
<1>1. \A i \in DOMAIN batch : batch[i] \in R /\ i \in Nat
  OBVIOUS
<1>2. Stored(contents, batch) \subseteq R
  BY <1>1, StoredHas
<1>3. ASSUME NEW r \in Stored(contents, batch), NEW e \in Stored(contents, batch), r.key = e.key
      PROVE  r = e
  <2>1. CASE r \in contents /\ \A i \in DOMAIN batch : batch[i].key # r.key
    BY <1>3, <2>1, StoredHas
  <2>2. CASE \E j \in DOMAIN batch : r = batch[j] /\ LastOf(batch, j)
    <3>1. PICK j \in DOMAIN batch : r = batch[j] /\ LastOf(batch, j)
      BY <2>2
    <3>2. PICK k \in DOMAIN batch : e = batch[k] /\ LastOf(batch, k)
      BY <1>3, <3>1, StoredHas
    <3>3. j <= k /\ k <= j
      BY <1>3, <3>1, <3>2 DEF LastOf
    <3> QED
      BY <1>1, <3>1, <3>2, <3>3
  <2> QED
    BY <2>1, <2>2, StoredHas
<1> QED
  BY <1>2, <1>3

-----------------------------------------------------------------------------
(* Type correctness *)

\* The last byte that the model keeps of a file.
LEMMA TopType == Top \in Nat /\ MaxOffset \in Nat /\ \A n \in Lengths : n \in Nat /\ n > 0 /\ MaxOffset + n <= Top
PROOF
<1> DEFINE longest == CHOOSE n \in Lengths : \A m \in Lengths : m <= n
<1>1. longest \in Lengths /\ \A m \in Lengths : m <= longest
  BY BoundAssumption
<1>2. Top = MaxOffset + longest
  BY DEF Top
<1> HIDE DEF longest
<1> QED
  BY <1>1, <1>2, BoundAssumption

\* The records that writes up to number w have written.
Written(w) == [key : Key, length : Lengths, number : 1 .. w]

\* Every operation keeps the types, and one record per key in the database.
LEMMA TypePreserved == TypeOK /\ [Next]_vars => TypeOK'
PROOF
<1> SUFFICES ASSUME TypeOK, [Next]_vars PROVE TypeOK'
  OBVIOUS
<1>1. /\ lm \in Databases \cup {None} /\ fileMap \in [Files -> 0 .. Top]
      /\ filePath \in [Streams -> Files] /\ writes \in 0 .. MaxWrites /\ unsynced \in BOOLEAN
      /\ result.kind \in {"returned", "thrown", "read", "unexpected length"}
  BY DEF TypeOK
<1>t. fileMap \in [Files -> 0 .. Top] /\ filePath \in [Streams -> Files] /\ writes \in Nat /\ writes <= MaxWrites
  <2>1. fileMap \in [Files -> 0 .. Top] /\ filePath \in [Streams -> Files] /\ writes \in 0 .. MaxWrites
    BY <1>1
  <2> QED
    BY <2>1, BoundAssumption
<1>2. /\ records \in SUBSET Written(writes) /\ pending \in Seq(Written(writes))
      /\ \A r, e \in records : r.key = e.key => r = e
  BY DEF TypeOK, Record, Written
<1> DEFINE Held(R, p, w) == /\ R \in SUBSET Written(w) /\ p \in Seq(Written(w))
                            /\ \A r, e \in R : r.key = e.key => r = e
<1>3. SUFFICES /\ lm' \in Databases \cup {None} /\ fileMap' \in [Files -> 0 .. Top]
               /\ filePath' \in [Streams -> Files] /\ writes' \in 0 .. MaxWrites /\ unsynced' \in BOOLEAN
               /\ result'.kind \in {"returned", "thrown", "read", "unexpected length"}
               /\ Held(records', pending', writes')
  BY DEF TypeOK, Record, Written
<1>4. Held(records, pending, writes)
  BY <1>2
<1>5. Held(Flushed, <<>>, writes)
  BY <1>2, StoredType DEF Flushed
<1>6. Returns.kind = "returned" /\ Throws.kind = "thrown" /\ 0 \in 0 .. Top
  BY TopType DEF Returns, Throws
<1> HIDE DEF Held
<1>a. ASSUME NEW s \in Streams, NEW f \in Files, NEW mode \in Modes, Open(s, f, mode)
      PROVE  <1>3!1
  BY <1>1, <1>4, <1>6, <1>a DEF Open
<1>b. ASSUME NEW s \in Streams, NEW n \in Lengths, Read(s, n)
      PROVE  <1>3!1
  <2> DEFINE f == filePath[s]
  <2>0. f \in Files /\ fileMap[f] \in 0 .. Top /\ fileMap[f] <= MaxOffset
    BY <1>t, <1>b DEF Read
  <2>1. fileMap[f] + n \in 0 .. Top
    BY <2>0, TopType
  <2>2. fileMap' \in [Files -> 0 .. Top]
    <3>1. fileMap' = fileMap \/ fileMap' = [fileMap EXCEPT ![f] = fileMap[f] + n]
      BY <1>b DEF Read
    <3> HIDE DEF f
    <3> QED
      BY <1>t, <2>0, <2>1, <3>1
  <2>3. result'.kind \in {"returned", "thrown", "read", "unexpected length"}
    <3>1. \/ result' = Throws
          \/ \E k, b : result' = [kind |-> "read", key |-> k, bytes |-> b]
          \/ result' = [kind |-> "unexpected length", key |-> GenKey(s), length |-> n]
      BY <1>b, Zenon DEF Read
    <3>2. CASE result' = Throws
      BY <1>6, <3>2
    <3>3. CASE \E k, b : result' = [kind |-> "read", key |-> k, bytes |-> b]
      BY <3>3
    <3>4. CASE result' = [kind |-> "unexpected length", key |-> GenKey(s), length |-> n]
      BY <3>4
    <3> QED
      BY <3>1, <3>2, <3>3, <3>4
  <2> QED
    BY <1>1, <1>4, <1>b, <2>2, <2>3 DEF Read
<1>c. ASSUME NEW s \in Streams, NEW n \in Lengths, Write(s, n)
      PROVE  <1>3!1
  <2> DEFINE f == filePath[s]
  <2>0. f \in Files /\ fileMap[f] \in 0 .. Top /\ fileMap[f] <= MaxOffset
    BY <1>t, <1>c DEF Write
  <2>1. fileMap[f] + n \in 0 .. Top
    BY <2>0, TopType
  <2>a. /\ fileMap' = [fileMap EXCEPT ![f] = fileMap[f] + n]
        /\ lm # None /\ writes < MaxWrites /\ writes' = writes + 1
    BY <1>c DEF Write
  <2>2. fileMap' \in [Files -> 0 .. Top] /\ writes' = writes + 1 /\ writes' \in 0 .. MaxWrites
    <3> HIDE DEF f
    <3> QED
      BY <1>t, <2>0, <2>1, <2>a, BoundAssumption
  <2>3. [key |-> GenKey(s), length |-> n, number |-> writes + 1] \in Written(writes + 1)
    <3>1. GenKey(s) \in Key
      <4>1. lm \in Databases
        BY <1>1, <2>a
      <4>2. GenKey(s) = [database |-> lm, file |-> f, offset |-> fileMap[f]]
        BY DEF GenKey
      <4> HIDE DEF f
      <4> QED
        BY <2>0, <4>1, <4>2 DEF Key
    <3>2. writes + 1 \in 1 .. writes + 1
      BY <1>t
    <3> QED
      BY <3>1, <3>2 DEF Written
  <2>4. Written(writes) \subseteq Written(writes + 1)
    <3>1. 1 .. writes \subseteq 1 .. writes + 1
      BY <1>t
    <3> QED
      BY <3>1 DEF Written
  <2>5. Held(records, Append(pending, [key |-> GenKey(s), length |-> n, number |-> writes + 1]), writes + 1)
    <3> DEFINE r == [key |-> GenKey(s), length |-> n, number |-> writes + 1]
    <3>1. pending \in Seq(Written(writes + 1)) /\ records \in SUBSET Written(writes + 1)
      <4> DEFINE A == Written(writes)
      <4> DEFINE B == Written(writes + 1)
      <4>1. A \subseteq B /\ pending \in Seq(A) /\ records \in SUBSET A
        BY <1>2, <2>4
      <4> HIDE DEF A, B
      <4>2. pending \in Seq(B) /\ records \in SUBSET B
        BY <4>1
      <4> QED
        BY <4>2 DEF B
    <3>2. r \in Written(writes + 1)
      BY <2>3
    <3> HIDE DEF r
    <3>3. Append(pending, r) \in Seq(Written(writes + 1))
      BY <3>1, <3>2
    <3> QED
      BY <1>2, <3>1, <3>3 DEF Held, r
  <2>6. /\ records' = records /\ lm' = lm /\ filePath' = filePath /\ unsynced' = TRUE /\ result' = Returns
        /\ pending' = Append(pending, [key |-> GenKey(s), length |-> n, number |-> writes + 1])
    BY <1>c DEF Write
  <2> QED
    BY <1>1, <1>6, <2>2, <2>5, <2>6
<1>d. ASSUME WriteThrows
      PROVE  <1>3!1
  BY <1>1, <1>4, <1>6, <1>d DEF WriteThrows
<1>e. ASSUME NEW s \in Streams, NEW p \in Positions, Seekp(s, p)
      PROVE  <1>3!1
  <2>1. p \in 0 .. Top
    <3>1. PICK n \in Lengths : TRUE
      BY BoundAssumption
    <3> QED
      BY <3>1, TopType, BoundAssumption
  <2> QED
    BY <1>1, <1>4, <1>6, <1>e, <2>1 DEF Seekp
<1>f. ASSUME NEW s \in Streams, Close(s)
      PROVE  <1>3!1
  BY <1>1, <1>4, <1>6, <1>f DEF Close
<1>g. ASSUME WriteBarrier
      PROVE  <1>3!1
  BY <1>1, <1>5, <1>6, <1>g DEF WriteBarrier
<1>h. ASSUME BatchWritten
      PROVE  <1>3!1
  BY <1>1, <1>5, <1>h DEF BatchWritten
<1>i. ASSUME Cleanup
      PROVE  <1>3!1
  BY <1>1, <1>5, <1>6, <1>i DEF Cleanup
<1>j. ASSUME NEW d \in Databases, Initialize(d)
      PROVE  <1>3!1
  BY <1>1, <1>4, <1>6, <1>j DEF Initialize
<1>k. ASSUME UNCHANGED vars
      PROVE  <1>3!1
  BY <1>1, <1>4, <1>k DEF vars
<1> QED
  BY <1>a, <1>b, <1>c, <1>d, <1>e, <1>f, <1>g, <1>h, <1>i, <1>j, <1>k DEF Next

\* The types at first.
LEMMA StreamsTypeInit == Init => TypeOK
PROOF
<1> SUFFICES ASSUME Init PROVE TypeOK
  OBVIOUS
<1>1. 0 \in 0 .. Top /\ 0 \in 0 .. MaxWrites
  BY TopType, BoundAssumption
<1>2. records \subseteq Record /\ pending \in Seq(Record)
  BY DEF Init
<1> QED
  BY <1>1, <1>2, NameAssumption DEF Init, TypeOK, Returns

\* Streams, batch and database keep their types, whatever the lengths of reads
\* and writes are, and the database keeps one record per key (posix.cpp).
THEOREM StreamsTypeCorrect == Spec => []TypeOK
PROOF
  BY StreamsTypeInit, TypePreserved, PTL DEF Spec

-----------------------------------------------------------------------------
(* Blocks *)

\* The history of the files' bytes.
ContentType == content \in [Databases -> [Files -> [0 .. Top -> Nat \X Nat]]]

\* Where record r belongs the file has its bytes, or, once truncated, none.
Agrees(r) ==
  \A i \in 1 .. r.length :
     content[r.key.database][r.key.file][r.key.offset + i - 1] \in {<<r.number, i>>, NoByte}

\* The batch is empty after a barrier; positions are beginnings of blocks; every
\* record that the database has once the batch is written lies at one and
\* agrees with the file; and every block that a file holds has its record.
Synced == ~unsynced => pending = <<>>
PositionsAligned == \A f \in Files : Aligned(fileMap[f])
RecordsAgree == \A r \in Flushed : r.key.offset <= MaxOffset /\ Aligned(r.key.offset) /\ Agrees(r)
BlocksRecorded ==
  \A d \in Databases, f \in Files, p \in 0 .. Top :
     Aligned(p) /\ content[d][f][p] # NoByte
        => \E r \in Flushed : r.key = [database |-> d, file |-> f, offset |-> p]

BlockInv == Synced /\ PositionsAligned /\ RecordsAgree /\ BlocksRecorded

\* What a block is.
LEMMA BlockType ==
  Blocks => /\ Block \in Nat /\ Block > 0 /\ MaxOffset + Block <= Top
            /\ \A n \in Lengths : n = Block
PROOF
  BY TopType DEF Blocks

\* A file begins with a block.
LEMMA ZeroAligned == Blocks => Aligned(0)
PROOF
<1> SUFFICES ASSUME Blocks PROVE Aligned(0)
  OBVIOUS
<1>1. 0 \in 0 .. 0 /\ 0 = 0 * Block
  BY BlockType
<1> QED
  BY <1>1 DEF Aligned

\* Blocks do not overlap, and after one begins the next.
LEMMA BlocksApart ==
  ASSUME Blocks, NEW p \in Nat, NEW q \in Nat, Aligned(p), Aligned(q)
  PROVE  (p < q => p + Block <= q) /\ Aligned(p + Block)
PROOF
<1>1. Block \in Nat /\ Block > 0
  BY BlockType
<1>2. PICK i \in 0 .. p : p = i * Block
  BY DEF Aligned
<1>3. PICK j \in 0 .. q : q = j * Block
  BY DEF Aligned
<1>4. ASSUME p < q
      PROVE  p + Block <= q
  <2>1. j > i
    <3>1. SUFFICES ASSUME j <= i PROVE FALSE
      OBVIOUS
    <3>2. j * Block <= i * Block
      BY <1>1, <3>1
    <3> QED
      BY <1>2, <1>3, <1>4, <3>2
  <2>2. (i + 1) * Block <= j * Block
    BY <1>1, <2>1
  <2>3. (i + 1) * Block = i * Block + Block
    BY <1>1
  <2> QED
    BY <1>2, <1>3, <2>2, <2>3
<1>5. Aligned(p + Block)
  <2>1. (i + 1) * Block = p + Block
    BY <1>1, <1>2
  <2>2. i + 1 \in 0 .. p + Block
    BY <1>1
  <2> QED
    BY <2>1, <2>2 DEF Aligned
<1> QED
  BY <1>4, <1>5

\* A step that leaves the files' bytes and Flushed alone, and moves positions
\* to beginnings of blocks only.
LEMMA BlockInvKept ==
  ASSUME BlockInv, content' = content, Flushed' = Flushed, PositionsAligned', Synced'
  PROVE  BlockInv'
PROOF
<1>1. RecordsAgree'
  BY DEF BlockInv, RecordsAgree, Agrees
<1>2. BlocksRecorded'
  BY DEF BlockInv, BlocksRecorded
<1> QED
  BY <1>1, <1>2 DEF BlockInv

\* open() leaves the files' bytes, or empties one file: what a file then holds it
\* held before.
LEMMA OpenBlock ==
  ASSUME Blocks, TypeOK, ContentType, BlockInv, PositionsAligned',
         NEW s \in Streams, NEW f \in Files, NEW mode, Open(s, f, mode)
  PROVE  ContentType' /\ BlockInv'
PROOF
<1> DEFINE empty == [p \in 0 .. Top |-> NoByte]
<1>1. content \in [Databases -> [Files -> [0 .. Top -> Nat \X Nat]]]
  BY DEF ContentType
<1>2. empty \in [0 .. Top -> Nat \X Nat] /\ \A p \in 0 .. Top : empty[p] = NoByte
  BY DEF NoByte
<1>3. \/ content' = content
      \/ lm \in Databases /\ content' = [content EXCEPT ![lm][f] = empty]
  <2>1. lm \in Databases \cup {None}
    BY DEF TypeOK
  <2>2. content' = IF lm # None /\ mode # "out" THEN [content EXCEPT ![lm][f] = empty] ELSE content
    BY DEF Open
  <2> HIDE DEF empty
  <2> QED
    BY <2>1, <2>2
<1>4. Flushed' = Flushed /\ Synced'
  BY DEF Open, Flushed, BlockInv, Synced
<1> HIDE DEF empty
<1>5. ContentType'
  <2>1. CASE content' = content
    BY <1>1, <2>1 DEF ContentType
  <2>2. CASE lm \in Databases /\ content' = [content EXCEPT ![lm][f] = empty]
    <3>1. content' \in [Databases -> [Files -> [0 .. Top -> Nat \X Nat]]]
      BY <1>1, <1>2, <2>2
    <3> QED
      BY <3>1 DEF ContentType
  <2> QED
    BY <1>3, <2>1, <2>2
<1>6. \A d \in Databases, e \in Files, p \in 0 .. Top :
         content'[d][e][p] = content[d][e][p] \/ content'[d][e][p] = NoByte
  <2>1. \A d \in Databases, e \in Files : content'[d][e] = content[d][e] \/ content'[d][e] = empty
    BY <1>1, <1>3
  <2> QED
    BY <1>2, <2>1
<1>7. ASSUME NEW e \in Flushed, e.key.offset <= MaxOffset
      PROVE  /\ e.key.database \in Databases /\ e.key.file \in Files
             /\ \A i \in 1 .. e.length : e.key.offset + i - 1 \in 0 .. Top
  <2>1. records \in SUBSET Record /\ pending \in Seq(Record) /\ \A x, y \in records : x.key = y.key => x = y
    BY DEF TypeOK
  <2>2. e \in Record
    BY <2>1, StoredType DEF Flushed
  <2>3. e.key \in Key /\ e.length = Block
    BY <2>2, BlockType DEF Record
  <2> QED
    BY <1>7, <2>3, BlockType, TopType DEF Key
<1>8. RecordsAgree'
  <2>1. SUFFICES ASSUME NEW e \in Flushed
                 PROVE  e.key.offset <= MaxOffset /\ Aligned(e.key.offset) /\ Agrees(e)'
    BY <1>4 DEF RecordsAgree
  <2>2. e.key.offset <= MaxOffset /\ Aligned(e.key.offset) /\ Agrees(e)
    BY DEF BlockInv, RecordsAgree
  <2> QED
    BY <1>6, <1>7, <2>2 DEF Agrees
<1>9. BlocksRecorded'
  <2>1. \A d \in Databases, e \in Files, p \in 0 .. Top :
           content'[d][e][p] # NoByte => content[d][e][p] # NoByte
    BY <1>6
  <2> QED
    BY <1>4, <2>1 DEF BlockInv, BlocksRecorded
<1> QED
  BY <1>4, <1>5, <1>8, <1>9 DEF BlockInv

\* Writing the batch leaves Flushed as it is.
LEMMA FlushKeeps ==
  ASSUME TypeOK, records' = Flushed, pending' = <<>>
  PROVE  Flushed' = Flushed
PROOF
  BY StoredNothing DEF Flushed

\* write() of a block: the record takes the place of the one at its position,
\* and the bytes of no other record change.
LEMMA WriteBlock ==
  ASSUME Blocks, TypeOK, ContentType, BlockInv, NEW s \in Streams, NEW n \in Lengths, Write(s, n)
  PROVE  ContentType' /\ BlockInv'
PROOF
<1> DEFINE f == filePath[s]
<1> DEFINE o == fileMap[f]
<1> DEFINE w == writes + 1
<1> DEFINE k == [database |-> lm, file |-> f, offset |-> o]
<1> DEFINE r == [key |-> k, length |-> n, number |-> w]
<1> DEFINE Over(g) == [p \in 0 .. Top |-> LET i == p - o + 1 IN IF i \in 1 .. n THEN <<w, i>> ELSE g[p]]
<1>1. /\ pending' = Append(pending, r)
      /\ content' = [content EXCEPT ![lm][f] = Over(content[lm][f])]
      /\ fileMap' = [fileMap EXCEPT ![f] = o + n]
      /\ unsynced' = TRUE /\ records' = records /\ lm # None /\ o <= MaxOffset
  BY DEF Write, GenKey
<1>2. lm \in Databases /\ f \in Files /\ o \in 0 .. Top /\ fileMap \in [Files -> 0 .. Top]
  <2>1. lm \in Databases \cup {None} /\ fileMap \in [Files -> 0 .. Top] /\ filePath \in [Streams -> Files]
    BY DEF TypeOK
  <2> QED
    BY <1>1, <2>1
<1>3. w \in Nat /\ w > 0
  <2>1. writes \in 0 .. MaxWrites
    BY DEF TypeOK
  <2> QED
    BY <2>1, BoundAssumption
<1>4. n = Block /\ n \in Nat /\ n > 0 /\ o + n <= Top /\ Top \in Nat /\ o \in Nat /\ MaxOffset \in Nat
  BY <1>1, <1>2, BlockType, TopType
<1>5. content \in [Databases -> [Files -> [0 .. Top -> Nat \X Nat]]]
  BY DEF ContentType
<1>6. Aligned(o)
  BY <1>2 DEF BlockInv, PositionsAligned
<1>7. Flushed' = {e \in Flushed : e.key # k} \cup {r}
  <2>1. r \in Record'
    <3>1. k \in Key
      BY <1>2, <1>4 DEF Key
    <3>2. w \in 1 .. writes'
      BY <1>3 DEF Write
    <3> HIDE DEF w, k
    <3> QED
      BY <3>1, <3>2 DEF Record
  <2> DEFINE R == Record \cup {r}
  <2>2. pending \in Seq(R) /\ r \in R
    <3>1. pending \in Seq(Record)
      BY DEF TypeOK
    <3> HIDE DEF r
    <3> QED
      BY <3>1
  <2>3. r.key = k
    OBVIOUS
  <2> HIDE DEF R, r
  <2>4. Stored(records, Append(pending, r)) = {e \in Stored(records, pending) : e.key # r.key} \cup {r}
    BY <2>2, StoredAppend
  <2> QED
    BY <1>1, <2>3, <2>4 DEF Flushed
<1>8. Over(content[lm][f]) \in [0 .. Top -> Nat \X Nat]
  <2> DEFINE g == content[lm][f]
  <2>1. g \in [0 .. Top -> Nat \X Nat]
    BY <1>2, <1>5
  <2> HIDE DEF g, o, w, f
  <2>2. \A p \in 0 .. Top : LET i == p - o + 1 IN i \in 1 .. n => <<w, i>> \in Nat \X Nat
    BY <1>3, <1>4
  <2>3. \A p \in 0 .. Top : g[p] \in Nat \X Nat
    BY <2>1
  <2>4. Over(g) \in [0 .. Top -> Nat \X Nat]
    BY <2>2, <2>3
  <2> QED
    BY <2>4 DEF g
<1>9. /\ \A p \in 0 .. Top : /\ p - o + 1 \in 1 .. n => content'[lm][f][p] = <<w, p - o + 1>>
                             /\ p - o + 1 \notin 1 .. n => content'[lm][f][p] = content[lm][f][p]
      /\ \A d \in Databases, e \in Files : d # lm \/ e # f => content'[d][e] = content[d][e]
  <2> DEFINE g == Over(content[lm][f])
  <2>1. content'[lm][f] = g
    <3> HIDE DEF f, Over
    <3> QED
      BY <1>1, <1>2, <1>5
  <2>2. \A d \in Databases, e \in Files : d # lm \/ e # f => content'[d][e] = content[d][e]
    <3> HIDE DEF f, g, Over
    <3> QED
      BY <1>1, <1>2, <1>5
  <2>3. \A p \in 0 .. Top : g[p] = (LET i == p - o + 1 IN IF i \in 1 .. n THEN <<w, i>> ELSE content[lm][f][p])
    OBVIOUS
  <2> HIDE DEF g, f, o, w
  <2> QED
    BY <2>1, <2>2, <2>3
<1>10. ContentType'
  <2> DEFINE g == Over(content[lm][f])
  <2>1. content' = [content EXCEPT ![lm][f] = g] /\ g \in [0 .. Top -> Nat \X Nat]
    BY <1>1, <1>8
  <2> HIDE DEF g, f
  <2> QED
    BY <1>2, <1>5, <2>1 DEF ContentType
<1>11. Synced'
  BY <1>1 DEF Synced
<1> HIDE DEF w, o, f, Over
<1>12. PositionsAligned'
  <2>1. Aligned(o + n)
    BY <1>4, <1>6, BlocksApart
  <2>2. \A e \in Files : Aligned(fileMap[e])
    BY DEF BlockInv, PositionsAligned
  <2> QED
    BY <1>1, <1>2, <2>1, <2>2 DEF PositionsAligned
<1>13. k.database = lm /\ k.file = f /\ k.offset = o /\ r.key = k /\ r.length = n /\ r.number = w
  OBVIOUS
<1> HIDE DEF r
<1>14. RecordsAgree'
  <2>1. SUFFICES ASSUME NEW e \in Flushed'
                 PROVE  e.key.offset <= MaxOffset /\ Aligned(e.key.offset) /\ Agrees(e)'
    BY DEF RecordsAgree
  <2>2. CASE e = r
    <3>1. \A i \in 1 .. n : o + i - 1 \in 0 .. Top /\ (o + i - 1) - o + 1 = i
      BY <1>4
    <3>2. \A i \in 1 .. n : content'[lm][f][o + i - 1] = <<w, i>>
      BY <1>9, <3>1
    <3> QED
      BY <1>1, <1>6, <1>13, <2>2, <3>2 DEF Agrees
  <2>3. CASE e \in Flushed /\ e.key # k
    <3>1. e.key.offset <= MaxOffset /\ Aligned(e.key.offset) /\ Agrees(e)
      BY <2>3 DEF BlockInv, RecordsAgree
    <3>2. e \in Record
      <4>1. records \in SUBSET Record /\ pending \in Seq(Record) /\ \A x, y \in records : x.key = y.key => x = y
        BY DEF TypeOK
      <4> QED
        BY <2>3, <4>1, StoredType DEF Flushed
    <3>3. e.key \in Key /\ e.length = Block /\ e.key.offset \in Nat /\ e.key.database \in Databases /\ e.key.file \in Files
      BY <3>2, BlockType DEF Record, Key
    <3>4. CASE e.key.database # lm \/ e.key.file # f
      <4>1. content'[e.key.database][e.key.file] = content[e.key.database][e.key.file]
        BY <1>9, <3>3, <3>4
      <4> QED
        BY <3>1, <4>1 DEF Agrees
    <3>5. CASE e.key.database = lm /\ e.key.file = f
      <4>1. e.key.offset # o
        BY <2>3, <3>3, <3>5 DEF Key
      <4>a. e.key.offset < o \/ o < e.key.offset
        BY <1>4, <3>3, <4>1
      <4>2. e.key.offset + Block <= o \/ o + Block <= e.key.offset
        BY <1>4, <1>6, <3>1, <3>3, <4>a, BlocksApart
      <4>3. \A i \in 1 .. Block : e.key.offset + i - 1 \in 0 .. Top /\ (e.key.offset + i - 1) - o + 1 \notin 1 .. n
        BY <1>4, <3>1, <3>3, <4>2, BlockType
      <4>4. \A i \in 1 .. Block : content'[lm][f][e.key.offset + i - 1] = content[lm][f][e.key.offset + i - 1]
        BY <1>9, <4>3
      <4> QED
        <5>1. \A i \in 1 .. Block :
                 content[lm][f][e.key.offset + i - 1] \in {<<e.number, i>>, NoByte}
          BY <3>1, <3>3, <3>5 DEF Agrees
        <5>2. \A i \in 1 .. Block :
                 content'[lm][f][e.key.offset + i - 1] \in {<<e.number, i>>, NoByte}
          BY <4>4, <5>1
        <5> QED
          BY <3>1, <3>3, <3>5, <5>2 DEF Agrees
    <3> QED
      BY <3>1, <3>4, <3>5
  <2> QED
    BY <1>7, <2>2, <2>3
<1>15. BlocksRecorded'
  <2>1. SUFFICES ASSUME NEW d \in Databases, NEW e \in Files, NEW p \in 0 .. Top,
                        Aligned(p), content'[d][e][p] # NoByte
                 PROVE  \E x \in Flushed' : x.key = [database |-> d, file |-> e, offset |-> p]
    BY DEF BlocksRecorded
  <2>2. CASE d = lm /\ e = f /\ p = o
    BY <1>7, <1>13, <2>2
  <2>3. CASE ~(d = lm /\ e = f /\ p = o)
    <3>1. content'[d][e][p] = content[d][e][p]
      <4>1. CASE d # lm \/ e # f
        BY <1>9, <4>1
      <4>2. CASE d = lm /\ e = f /\ p # o
        <5>a. p \in Nat /\ (p < o \/ o < p)
          BY <1>4, <4>2
        <5>1. p \in Nat /\ (p + Block <= o \/ o + Block <= p)
          BY <1>4, <1>6, <2>1, <5>a, BlocksApart
        <5>2. p - o + 1 \notin 1 .. n
          BY <1>4, <5>1
        <5> QED
          BY <1>9, <4>2, <5>2
      <4> QED
        BY <2>3, <4>1, <4>2
    <3>2. PICK x \in Flushed : x.key = [database |-> d, file |-> e, offset |-> p]
      BY <2>1, <3>1 DEF BlockInv, BlocksRecorded
    <3>3. x.key # k
      BY <2>3, <3>2
    <3> QED
      BY <1>7, <3>2, <3>3
  <2> QED
    BY <2>2, <2>3
<1> QED
  BY <1>10, <1>11, <1>12, <1>14, <1>15 DEF BlockInv

-----------------------------------------------------------------------------
(* Reads *)

\* What read() answers: the bytes of a record with its key, or that there is no
\* record of that key and length, or that no database is open.
LEMMA ReadAnswers ==
  ASSUME NEW s, NEW n, Read(s, n)
  PROVE  \/ result' = Throws
         \/ \E r \in records : /\ lm # None /\ r.key = GenKey(s)
                               /\ result' = [kind |-> "read", key |-> GenKey(s),
                                             bytes |-> [i \in 1 .. n |-> <<r.number, i>>]]
         \/ /\ lm # None /\ \A r \in records : r.key = GenKey(s) => r.length # n
            /\ result' = [kind |-> "unexpected length", key |-> GenKey(s), length |-> n]
PROOF
<1> DEFINE found == {r \in records : r.key = GenKey(s)}
<1> DEFINE r == CHOOSE e \in found : TRUE
<1>1. CASE lm # None /\ \E e \in found : e.length = n
  <2>1. r \in found
    BY <1>1
  <2>2. result' = [kind |-> "read", key |-> GenKey(s), bytes |-> [i \in 1 .. n |-> <<r.number, i>>]]
    BY <1>1, Zenon DEF Read
  <2> HIDE DEF r
  <2> QED
    BY <1>1, <2>1, <2>2, Zenon
<1>2. CASE ~(lm # None /\ \E e \in found : e.length = n)
  <2>1. result' = IF lm = None THEN Throws
                  ELSE [kind |-> "unexpected length", key |-> GenKey(s), length |-> n]
    BY <1>2, Zenon DEF Read
  <2> QED
    BY <1>2, <2>1, Zenon
<1> QED
  BY <1>1, <1>2

\* read() moves the position by a block, or leaves it, and nothing else but the
\* answer changes.
LEMMA ReadMoves ==
  ASSUME NEW s, NEW n, Read(s, n)
  PROVE  /\ fileMap' = fileMap \/ fileMap' = [fileMap EXCEPT ![filePath[s]] = fileMap[filePath[s]] + n]
         /\ fileMap[filePath[s]] <= MaxOffset
         /\ UNCHANGED <<lm, filePath, records, pending, content, writes, unsynced>>
PROOF
  BY Zenon DEF Read

\* read() of a block after a barrier returns no bytes that the file does not have.
LEMMA ReadBlock ==
  ASSUME Blocks, TypeOK, BlockInv, NEW s \in Streams, NEW n \in Lengths, Read(s, n)
  PROVE  ReadsNoOtherBytes' /\ BlocksReadBack'
PROOF
<1> DEFINE f == filePath[s]
<1> DEFINE o == fileMap[f]
<1>1. GenKey(s) = [database |-> lm, file |-> f, offset |-> o]
  BY DEF GenKey
<1>2. f \in Files /\ o \in 0 .. Top
  <2>1. fileMap \in [Files -> 0 .. Top] /\ filePath \in [Streams -> Files]
    BY DEF TypeOK
  <2> QED
    BY <2>1
<1>3. content' = content /\ unsynced' = unsynced
  BY ReadMoves
<1>4. n = Block
  BY BlockType
<1>5. ASSUME ~unsynced
      PROVE  Flushed = records
  <2>1. pending = <<>>
    BY <1>5 DEF BlockInv, Synced
  <2> QED
    BY <2>1, StoredNothing DEF Flushed
<1>6. \A r \in records : r.length = Block
  <2>1. records \in SUBSET Record
    BY DEF TypeOK
  <2> QED
    BY <2>1, BlockType DEF Record
<1>7. Aligned(o)
  BY <1>2 DEF BlockInv, PositionsAligned
<1> DEFINE k == GenKey(s)
<1>8. k.database = lm /\ k.file = f /\ k.offset = o
  BY <1>1
<1> HIDE DEF f, o, k
<1>9. CASE result' = Throws
  BY <1>9 DEF Throws, ReadsNoOtherBytes, BlocksReadBack
<1>10. CASE \E r \in records : /\ lm # None /\ r.key = k
                               /\ result' = [kind |-> "read", key |-> k,
                                             bytes |-> [i \in 1 .. n |-> <<r.number, i>>]]
  <2>1. PICK r \in records : /\ r.key = k
                             /\ result' = [kind |-> "read", key |-> k,
                                           bytes |-> [i \in 1 .. n |-> <<r.number, i>>]]
    BY <1>10
  <2> DEFINE b == [i \in 1 .. n |-> <<r.number, i>>]
  <2>2. result'.kind = "read" /\ result'.key = k /\ result'.bytes = b
    BY <2>1
  <2>3. n \in Nat
    BY <1>4, BlockType
  <2>4. Len(b) = n /\ \A i \in 1 .. n : b[i] = <<r.number, i>>
    BY <2>3
  <2> HIDE DEF b
  <2>5. BlocksReadBack'
    BY <2>2 DEF BlocksReadBack
  <2>6. ASSUME ~unsynced
        PROVE  \A i \in 1 .. n : content[k.database][k.file][k.offset + i - 1] \in {<<r.number, i>>, NoByte}
    <3>1. Agrees(r)
      BY <1>5, <2>6 DEF BlockInv, RecordsAgree
    <3> QED
      BY <1>4, <1>6, <2>1, <3>1 DEF Agrees
  <2>7. ReadsNoOtherBytes'
    BY <1>3, <2>2, <2>4, <2>6 DEF ReadsNoOtherBytes
  <2> QED
    BY <2>5, <2>7
<1>11. CASE /\ lm # None /\ \A r \in records : r.key = k => r.length # n
            /\ result' = [kind |-> "unexpected length", key |-> k, length |-> n]
  <2>1. result'.kind = "unexpected length" /\ result'.key = k
    BY <1>11
  <2>2. ReadsNoOtherBytes'
    BY <2>1 DEF ReadsNoOtherBytes
  <2>3. lm \in Databases
    BY <1>11 DEF TypeOK
  <2>4. ASSUME ~unsynced
        PROVE  content[lm][f][o] = NoByte
    <3>1. \A r \in Flushed : r.key # [database |-> lm, file |-> f, offset |-> o]
      BY <1>1, <1>4, <1>5, <1>6, <1>11, <2>4 DEF k
    <3> QED
      BY <1>2, <1>7, <2>3, <3>1 DEF BlockInv, BlocksRecorded
  <2>5. BlocksReadBack'
    BY <1>3, <1>8, <2>1, <2>4 DEF BlocksReadBack
  <2> QED
    BY <2>2, <2>5
<1> QED
  BY <1>9, <1>10, <1>11, ReadAnswers DEF k

-----------------------------------------------------------------------------
(* Streams of blocks *)

IInv == Blocks /\ TypeOK /\ ContentType /\ BlockInv /\ ReadsNoOtherBytes /\ BlocksReadBack

\* An answer other than a read's has nothing to do with the bytes of a file.
LEMMA OtherAnswers ==
  ASSUME result' = Returns \/ result' = Throws
  PROVE  ReadsNoOtherBytes' /\ BlocksReadBack'
PROOF
<1>1. result'.kind = "returned" \/ result'.kind = "thrown"
  BY DEF Returns, Throws
<1> QED
  BY <1>1 DEF ReadsNoOtherBytes, BlocksReadBack

\* Every operation of streams of blocks keeps the invariant.
LEMMA BlocksStep == IInv /\ [Next]_vars => IInv'
PROOF
<1> SUFFICES ASSUME IInv, [Next]_vars PROVE IInv'
  OBVIOUS
<1>1. Blocks /\ TypeOK /\ ContentType /\ BlockInv /\ ReadsNoOtherBytes /\ BlocksReadBack
  BY DEF IInv
<1>2. Blocks' /\ TypeOK'
  BY <1>1, TypePreserved DEF Blocks, Aligned, Block
<1>3. SUFFICES ContentType' /\ BlockInv' /\ ReadsNoOtherBytes' /\ BlocksReadBack'
  BY <1>2 DEF IInv
<1>4. Synced /\ \A f \in Files : Aligned(fileMap[f])
  BY <1>1 DEF BlockInv, PositionsAligned
<1>5. fileMap \in [Files -> 0 .. Top] /\ filePath \in [Streams -> Files]
  BY <1>1 DEF TypeOK
<1>6. Aligned(0)
  BY <1>1, ZeroAligned
<1>7. content' = content => ContentType'
  BY <1>1 DEF ContentType
<1>8. records' = records /\ pending' = pending => Flushed' = Flushed
  BY DEF Flushed
<1>9. records' = Flushed /\ pending' = <<>> => Flushed' = Flushed /\ Synced'
  BY <1>1, FlushKeeps DEF Synced
<1>10. pending' = pending /\ unsynced' = unsynced => Synced'
  BY <1>4 DEF Synced
<1>11. ASSUME NEW g \in Files, NEW o, Aligned(o), fileMap' = [fileMap EXCEPT ![g] = o]
       PROVE  PositionsAligned'
  BY <1>4, <1>5, <1>11 DEF PositionsAligned
<1>12. fileMap' = fileMap => PositionsAligned'
  BY <1>4 DEF PositionsAligned
<1>a. ASSUME NEW s \in Streams, NEW f \in Files, NEW mode \in Modes, Open(s, f, mode)
      PROVE  <1>3!1
  <2>1. fileMap' = [fileMap EXCEPT ![f] = 0] \/ fileMap' = [fileMap EXCEPT ![f] = fileMap[f]]
    BY <1>a DEF Open
  <2>2. PositionsAligned'
    BY <1>4, <1>6, <1>11, <2>1
  <2> QED
    BY <1>1, <1>a, <2>2, OpenBlock, OtherAnswers DEF Open
<1>b. ASSUME NEW s \in Streams, NEW n \in Lengths, Read(s, n)
      PROVE  <1>3!1
  <2>1. PositionsAligned'
    <3> DEFINE f == filePath[s]
    <3>1. f \in Files /\ fileMap[f] \in Nat /\ Aligned(fileMap[f])
      BY <1>4, <1>5, TopType
    <3>2. Aligned(fileMap[f] + n)
      BY <1>1, <3>1, BlocksApart, BlockType
    <3>3. fileMap' = fileMap \/ fileMap' = [fileMap EXCEPT ![f] = fileMap[f] + n]
      BY <1>b, ReadMoves
    <3> HIDE DEF f
    <3> QED
      BY <1>11, <1>12, <3>1, <3>2, <3>3
  <2>2. UNCHANGED <<records, pending, content, unsynced>>
    BY <1>b, ReadMoves
  <2>3. ReadsNoOtherBytes' /\ BlocksReadBack'
    BY <1>1, <1>b, ReadBlock
  <2> QED
    BY <1>1, <1>7, <1>8, <1>10, <2>1, <2>2, <2>3, BlockInvKept
<1>c. ASSUME NEW s \in Streams, NEW n \in Lengths, Write(s, n)
      PROVE  <1>3!1
  <2>1. result' = Returns
    BY <1>c DEF Write
  <2> QED
    BY <1>1, <1>c, <2>1, WriteBlock, OtherAnswers
<1>d. ASSUME WriteThrows
      PROVE  <1>3!1
  BY <1>1, <1>7, <1>8, <1>10, <1>12, <1>d, BlockInvKept, OtherAnswers DEF WriteThrows
<1>e. ASSUME NEW s \in Streams, NEW p \in Positions, Seekp(s, p)
      PROVE  <1>3!1
  <2>1. Aligned(p) /\ filePath[s] \in Files
    BY <1>1, <1>5 DEF Blocks
  <2>2. PositionsAligned'
    BY <1>11, <1>e, <2>1 DEF Seekp
  <2> QED
    BY <1>1, <1>7, <1>8, <1>10, <1>e, <2>2, BlockInvKept, OtherAnswers DEF Seekp
<1>f. ASSUME NEW s \in Streams, Close(s)
      PROVE  <1>3!1
  <2>1. filePath[s] \in Files
    BY <1>5
  <2>2. PositionsAligned'
    BY <1>6, <1>11, <1>f, <2>1 DEF Close
  <2> QED
    BY <1>1, <1>7, <1>8, <1>10, <1>f, <2>2, BlockInvKept, OtherAnswers DEF Close
<1>g. ASSUME WriteBarrier
      PROVE  <1>3!1
  BY <1>1, <1>7, <1>9, <1>12, <1>g, BlockInvKept, OtherAnswers DEF WriteBarrier
<1>h. ASSUME BatchWritten
      PROVE  <1>3!1
  <2>1. ReadsNoOtherBytes' /\ BlocksReadBack'
    BY <1>1, <1>h DEF BatchWritten, ReadsNoOtherBytes, BlocksReadBack
  <2> QED
    BY <1>1, <1>7, <1>9, <1>12, <1>h, <2>1, BlockInvKept DEF BatchWritten
<1>i. ASSUME Cleanup
      PROVE  <1>3!1
  BY <1>1, <1>7, <1>9, <1>12, <1>i, BlockInvKept, OtherAnswers DEF Cleanup
<1>j. ASSUME NEW d \in Databases, Initialize(d)
      PROVE  <1>3!1
  BY <1>1, <1>7, <1>8, <1>10, <1>12, <1>j, BlockInvKept, OtherAnswers DEF Initialize
<1>k. ASSUME UNCHANGED vars
      PROVE  <1>3!1
  <2>1. ReadsNoOtherBytes' /\ BlocksReadBack'
    BY <1>1, <1>k DEF vars, ReadsNoOtherBytes, BlocksReadBack
  <2> QED
    BY <1>1, <1>7, <1>8, <1>10, <1>12, <1>k, <2>1, BlockInvKept DEF vars
<1> QED
  BY <1>a, <1>b, <1>c, <1>d, <1>e, <1>f, <1>g, <1>h, <1>i, <1>j, <1>k DEF Next

\* No file has been written and no record exists at first.
LEMMA BlocksInit == Blocks /\ Init => IInv
PROOF
<1> SUFFICES ASSUME Blocks, Init PROVE IInv
  OBVIOUS
<1>1. TypeOK
  BY StreamsTypeInit
<1>2. \A d \in Databases, f \in Files, p \in 0 .. Top : content[d][f][p] = NoByte
  BY DEF Init
<1>3. NoByte \in Nat \X Nat
  BY DEF NoByte
<1>4. ContentType
  BY <1>3 DEF Init, ContentType
<1>5. Flushed = {}
  BY StoredNothing DEF Init, Flushed
<1>6. Aligned(0)
  BY ZeroAligned
<1>7. BlockInv
  BY <1>2, <1>5, <1>6 DEF Init, BlockInv, Synced, PositionsAligned, RecordsAgree, BlocksRecorded
<1>8. ReadsNoOtherBytes /\ BlocksReadBack
  BY DEF Init, Returns, ReadsNoOtherBytes, BlocksReadBack
<1> QED
  BY <1>1, <1>4, <1>7, <1>8 DEF IInv

\* Streams of blocks keep one record for every block that has been written, with
\* the bytes that the file holds there, in the database or in the batch that goes there.
THEOREM BlocksInvariant == Blocks /\ Spec => []IInv
PROOF
  BY BlocksInit, BlocksStep, PTL DEF Spec

\* After a write barrier read() of a block returns the bytes that a file holds at
\* that position, or an older record where a truncated file holds none, for any
\* number of streams, files, databases and writes (posix.cpp, open, read, write).
THEOREM StreamsReadNoOtherBytes == Blocks /\ Spec => []ReadsNoOtherBytes
PROOF
<1>1. IInv => ReadsNoOtherBytes
  BY DEF IInv
<1> QED
  BY <1>1, BlocksInvariant, PTL

\* After a write barrier read() of a block that the file holds does not throw
\* for its length (posix.cpp, read).
THEOREM WrittenBlocksReadBack == Blocks /\ Spec => []BlocksReadBack
PROOF
<1>1. IInv => BlocksReadBack
  BY DEF IInv
<1> QED
  BY <1>1, BlocksInvariant, PTL
=============================================================================
