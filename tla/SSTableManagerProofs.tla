------------------------- MODULE SSTableManagerProofs -------------------------
(***************************************************************************)
(* Proofs about SSTableManager with its pool and its closer, for any pool  *)
(* size, any number of flushes, restarts and files that cannot be opened.  *)
(***************************************************************************)
EXTENDS SSTableManager, SequenceTheorems, FiniteSetTheorems, TLAPS

--------------------------------------------------------------------------------
(* Where the threads can be.                                               *)
Threads ==
    /\ taker # "out" => flusher = "acquire"
    /\ flusher # "idle" => owner = "open"
    /\ owner = "none" => filler = "none" /\ pool = <<>> /\ head = <<>>
    /\ filler # "push" => making = 0

(* The files a flush has been given and not yet written: ids in the order  *)
(* in which they were handed out.                                          *)
Given == IF flusher \in {"write", "schedule", "index"} THEN {taken} ELSE {}
Made == IF filler = "push" THEN {making} ELSE {}
Ready == {pool[i] : i \in DOMAIN pool}
Listed == {head[i] : i \in DOMAIN head}
Written == {id \in DOMAIN dir : dir[id] # 0}

(* Every id in use is below the next one.                                  *)
IdsBelow ==
    /\ IsFiniteSet(DOMAIN dir)
    /\ owner # "none" => \A id \in DOMAIN dir : id < nextId

(* The files on their way to the list are on disk, and empty until their   *)
(* flush writes them.                                                      *)
NewFiles ==
    /\ Given \union Made \union Ready \subseteq DOMAIN dir
    /\ \A id \in Made \union Ready : dir[id] = 0
    /\ flusher = "write" => dir[taken] = 0
    /\ flusher \in {"schedule", "index"} => dir[taken] # 0

(* An id is higher the later its file joins the list: the listed and the   *)
(* written ones, the one given to the flush, those in the pool, in its     *)
(* order, and the one being made.                                          *)
Stages ==
    /\ \A id \in Listed : \A new \in Given \union Ready \union Made : id < new
    /\ \A id \in Written \ Given : \A new \in Given \union Ready \union Made : id < new
    /\ \A id \in Given : \A new \in Ready \union Made : id < new
    /\ \A id \in Ready : \A new \in Made : id < new
    /\ \A i, j \in DOMAIN pool : i < j => pool[i] < pool[j]

(* Among written files, ids are in the order of the flushes.               *)
FlushOrder ==
    /\ \A a, b \in Written : a < b => dir[a] < dir[b]
    /\ \A id \in DOMAIN dir : dir[id] <= flushes
    /\ flusher \in {"acquire", "write"} =>
          0 < flushes /\ \A id \in DOMAIN dir : dir[id] < flushes

(* The list descends, and every written file is in it or about to be.      *)
List ==
    /\ \A i, j \in DOMAIN head : i < j => head[i] > head[j]
    /\ owner = "open" => Written \subseteq Listed \union Given

IInv ==
    /\ TypeOK /\ Threads /\ IdsBelow /\ NewFiles /\ Stages /\ FlushOrder /\ List
    /\ PoolNoLostWakeup

--------------------------------------------------------------------------------
(* What recoverState gets from sorting the ids it found.                   *)

\* An element in front of a sequence.
LEMMA Prepended ==
  ASSUME NEW S, NEW s \in Seq(S), NEW x \in S, NEW longer, longer = <<x>> \o s
  PROVE  /\ longer \in Seq(S) /\ Len(s) \in Nat /\ DOMAIN s = 1 .. Len(s)
         /\ DOMAIN longer = 1 .. Len(s) + 1 /\ longer[1] = x
         /\ \A i \in DOMAIN longer : i = 1 \/ (i - 1 \in DOMAIN s /\ longer[i] = s[i - 1])
  OBVIOUS

\* A sequence over a set is one over any larger set.
LEMMA SeqGrows ==
  ASSUME NEW S, NEW T, S \subseteq T, NEW s \in Seq(S)
  PROVE  s \in Seq(T)
  OBVIOUS

\* The number of greater ids tells the members of a finite set apart, and takes
\* every value below the size of the set.
LEMMA RankBijective ==
  ASSUME NEW ids, ids \subseteq Nat, IsFiniteSet(ids)
  PROVE  LET rank(id) == Cardinality({other \in ids : other > id})
             n == Cardinality(ids)
         IN  /\ n \in Nat
             /\ \A id \in ids : rank(id) \in 0 .. n - 1
             /\ \A a, b \in ids : a < b => rank(b) < rank(a)
             /\ \A k \in 0 .. n - 1 : \E id \in ids : rank(id) = k
  <1> DEFINE Above(id) == {other \in ids : other > id}
             rank(id) == Cardinality(Above(id))
             n == Cardinality(ids)
             f == [id \in ids |-> rank(id)]
  <1>1. n \in Nat
    BY FS_CardinalityType
  <1>2. \A id \in ids : IsFiniteSet(Above(id)) /\ rank(id) \in Nat
    <2> SUFFICES ASSUME NEW id \in ids PROVE IsFiniteSet(Above(id)) /\ rank(id) \in Nat
      OBVIOUS
    <2>1. Above(id) \in SUBSET ids
      OBVIOUS
    <2>2. IsFiniteSet(Above(id))
      BY <2>1, FS_Subset
    <2>3. QED
      BY <2>2, FS_CardinalityType
  <1>3. ASSUME NEW a \in ids, NEW U, IsFiniteSet(U), Above(a) \union {a} \subseteq U
        PROVE  rank(a) < Cardinality(U)
    <2>1. a \notin Above(a)
      OBVIOUS
    <2>2. /\ IsFiniteSet(Above(a) \union {a})
          /\ Cardinality(Above(a) \union {a}) = rank(a) + 1
      BY <1>2, <2>1, FS_AddElement
    <2>3. Cardinality(Above(a) \union {a}) <= Cardinality(U)
      BY <1>3, FS_Subset
    <2>4. Cardinality(U) \in Nat
      BY <1>3, FS_CardinalityType
    <2> HIDE DEF Above
    <2>5. QED
      BY <1>2, <2>2, <2>3, <2>4
  <1>4. \A id \in ids : rank(id) \in 0 .. n - 1
    <2> SUFFICES ASSUME NEW id \in ids PROVE rank(id) \in 0 .. n - 1
      OBVIOUS
    <2>1. rank(id) < n
      <3>1. Above(id) \union {id} \subseteq ids
        OBVIOUS
      <3> HIDE DEF Above, rank
      <3>2. QED
        BY <1>3, <3>1
    <2>2. rank(id) \in Nat
      BY <1>2
    <2> HIDE DEF rank, n
    <2>3. QED
      BY <1>1, <2>1, <2>2
  <1>5. \A a, b \in ids : a < b => rank(b) < rank(a)
    <2> SUFFICES ASSUME NEW a \in ids, NEW b \in ids, a < b
                 PROVE  rank(b) < rank(a)
      OBVIOUS
    <2>1. Above(b) \union {b} \subseteq Above(a)
      <3>1. \A other \in ids : other > b => other > a
        OBVIOUS
      <3>2. QED
        BY <3>1
    <2>2. IsFiniteSet(Above(a))
      BY <1>2
    <2>3. rank(b) < Cardinality(Above(a))
      <3> HIDE DEF Above, rank
      <3> QED
        BY <1>3, <2>1, <2>2
    <2>4. QED
      BY <2>3
  <1>6. f \in Injection(ids, 0 .. n - 1)
    <2>1. f \in [ids -> 0 .. n - 1]
      BY <1>4
    <2>2. ASSUME NEW a \in ids, NEW b \in ids, f[a] = f[b]
          PROVE  a = b
      <3>1. rank(a) = rank(b) /\ rank(a) \in Nat
        BY <1>2, <2>2
      <3>2. a < b \/ b < a \/ a = b
        OBVIOUS
      <3> HIDE DEF rank
      <3>3. QED
        BY <1>5, <3>1, <3>2
    <2> HIDE DEF f
    <2>3. QED
      BY <2>1, <2>2 DEF Injection, IsInjective
  <1>7. IsFiniteSet(0 .. n - 1) /\ Cardinality(0 .. n - 1) = n
    <2> HIDE DEF n
    <2>1. 0 \in Int /\ n - 1 \in Int
      BY <1>1
    <2>2. /\ IsFiniteSet(0 .. (n - 1))
          /\ Cardinality(0 .. (n - 1)) = IF 0 > n - 1 THEN 0 ELSE (n - 1) - 0 + 1
      BY <2>1, FS_Interval
    <2>3. QED
      BY <1>1, <2>2
  <1>8. f \in Surjection(ids, 0 .. n - 1)
    <2> HIDE DEF f
    <2>1. QED
      BY <1>6, <1>7, FS_Injection
  <1>9. \A k \in 0 .. n - 1 : \E id \in ids : rank(id) = k
    <2>1. \A k \in 0 .. n - 1 : \E id \in ids : f[id] = k
      <3> HIDE DEF f
      <3> QED
        BY <1>8 DEF Surjection
    <2>2. \A id \in ids : f[id] = rank(id)
      OBVIOUS
    <2> HIDE DEF f, rank, n
    <2>3. QED
      BY <2>1, <2>2
  <1>10. QED
    BY <1>1, <1>4, <1>5, <1>9

\* Descending lists every id once, the highest first.
LEMMA DescendingSorts ==
  ASSUME NEW ids, ids \subseteq Nat, IsFiniteSet(ids)
  PROVE  /\ Descending(ids) \in Seq(ids)
         /\ \A i, j \in DOMAIN Descending(ids) :
               i < j => Descending(ids)[i] > Descending(ids)[j]
         /\ \A id \in ids : \E i \in DOMAIN Descending(ids) : Descending(ids)[i] = id
  <1> DEFINE rank(id) == Cardinality({other \in ids : other > id})
             n == Cardinality(ids)
             d == Descending(ids)
  <1>1. /\ n \in Nat
        /\ \A id \in ids : rank(id) \in 0 .. n - 1
        /\ \A a, b \in ids : a < b => rank(b) < rank(a)
        /\ \A k \in 0 .. n - 1 : \E id \in ids : rank(id) = k
    BY RankBijective
  <1>2. d = [i \in 1 .. n |-> CHOOSE id \in ids : rank(id) = i - 1]
    BY DEF Descending
  <1> HIDE DEF rank, n, d
  <1>3. \A i \in 1 .. n : d[i] \in ids /\ rank(d[i]) = i - 1
    <2> SUFFICES ASSUME NEW i \in 1 .. n PROVE d[i] \in ids /\ rank(d[i]) = i - 1
      OBVIOUS
    <2>1. \E id \in ids : rank(id) = i - 1
      BY <1>1
    <2>2. d[i] = CHOOSE id \in ids : rank(id) = i - 1
      BY <1>2
    <2>3. QED
      BY <2>1, <2>2
  <1>4. d \in Seq(ids) /\ DOMAIN d = 1 .. n
    BY <1>1, <1>2, <1>3
  <1>5. ASSUME NEW i \in 1 .. n, NEW j \in 1 .. n, i < j
        PROVE  d[i] > d[j]
    <2>1. d[i] \in ids /\ d[j] \in ids /\ rank(d[i]) = i - 1 /\ rank(d[j]) = j - 1
      BY <1>3
    <2>2. d[i] \in Nat /\ d[j] \in Nat
      BY <2>1
    <2>3. CASE d[i] = d[j]
      BY <1>5, <2>1, <2>3
    <2>4. CASE d[i] < d[j]
      <3>1. rank(d[j]) < rank(d[i])
        BY <1>1, <2>1, <2>4
      <3>2. QED
        BY <1>5, <2>1, <3>1
    <2>5. QED
      BY <2>2, <2>3, <2>4
  <1>6. ASSUME NEW id \in ids
        PROVE  \E i \in 1 .. n : d[i] = id
    <2>1. rank(id) + 1 \in 1 .. n
      BY <1>1
    <2> DEFINE i == rank(id) + 1
    <2>2. d[i] \in ids /\ rank(d[i]) = rank(id)
      BY <1>1, <1>3, <2>1
    <2>3. d[i] \in Nat /\ id \in Nat
      BY <2>2
    <2>4. rank(id) \in Nat
      BY <1>1
    <2>5. d[i] = id
      <3> HIDE DEF i
      <3>1. d[i] < id => rank(id) < rank(d[i])
        BY <1>1, <2>2
      <3>2. id < d[i] => rank(d[i]) < rank(id)
        BY <1>1, <2>2
      <3>3. ~(d[i] < id) /\ ~(id < d[i])
        BY <2>2, <2>4, <3>1, <3>2
      <3>4. QED
        BY <2>3, <3>3
    <2>6. QED
      BY <2>1, <2>5
  <1>7. QED
    BY <1>4, <1>5, <1>6 DEF d

\* Ids go on after every id in use.
LEMMA NextFreeIdAbove ==
  ASSUME NEW ids, ids \subseteq Nat \ {0}, IsFiniteSet(ids)
  PROVE  NextFreeId(ids) \in Nat \ {0} /\ \A id \in ids : id < NextFreeId(ids)
  <1>1. CASE ids = {}
    BY <1>1 DEF NextFreeId
  <1>2. CASE ids # {}
    <2> DEFINE d == Descending(ids)
    <2>1. /\ d \in Seq(ids)
          /\ \A i, j \in DOMAIN d : i < j => d[i] > d[j]
          /\ \A id \in ids : \E i \in DOMAIN d : d[i] = id
      BY DescendingSorts
    <2> HIDE DEF d
    <2>2. 1 \in DOMAIN d
      <3>1. PICK id \in ids : TRUE
        BY <1>2
      <3>2. PICK i \in DOMAIN d : d[i] = id
        BY <2>1
      <3>3. Len(d) \in Nat /\ DOMAIN d = 1 .. Len(d)
        BY <2>1
      <3>4. QED
        BY <3>2, <3>3
    <2>3. d[1] \in ids
      BY <2>1, <2>2
    <2>4. ASSUME NEW id \in ids PROVE id <= d[1]
      <3>1. PICK i \in DOMAIN d : d[i] = id
        BY <2>1
      <3>2. i = 1 \/ 1 < i
        BY <2>1
      <3>3. id \in Nat /\ d[1] \in Nat
        BY <2>3
      <3>4. 1 < i => d[1] > id
        BY <2>1, <2>2, <3>1
      <3>5. QED
        BY <3>1, <3>2, <3>3, <3>4
    <2>5. NextFreeId(ids) = d[1] + 1
      BY <1>2 DEF NextFreeId, d
    <2>6. d[1] \in Nat /\ \A id \in ids : id \in Nat
      BY <2>3
    <2>7. QED
      BY <2>4, <2>5, <2>6
  <1>3. QED
    BY <1>1, <1>2

--------------------------------------------------------------------------------
(* The invariant holds at the start and is preserved by every action.      *)

\* The invariant at first.
LEMMA InitIInv == Init => IInv
  <1> SUFFICES ASSUME Init PROVE IInv
    OBVIOUS
  <1> USE DEF Init
  <1>1. DOMAIN dir = {} /\ DOMAIN pool = {} /\ DOMAIN head = {}
    OBVIOUS
  <1>2. TypeOK
    <2>1. \A S : <<>> \in Seq(S)
      OBVIOUS
    <2>2. faults \in 0 .. MaxFaults /\ flushes \in 0 .. MaxFlushes /\ opens \in 0 .. MaxOpens
      BY PoolAssumption, ManagerAssumption
    <2>3. poolShutdown \in BOOLEAN /\ closerShutdown \in BOOLEAN
      OBVIOUS
    <2>4. QED
      BY <1>1, <2>1, <2>2, <2>3
         DEF TypeOK, FillerPC, TakerPC, CloserPC, OwnerPC, FlusherPC
  <1>3. IsFiniteSet(DOMAIN dir)
    BY <1>1, FS_EmptySet
  <1>4. IdsBelow
    BY <1>1, <1>3 DEF IdsBelow
  <1>5. Threads /\ NewFiles /\ Stages /\ FlushOrder /\ List
    BY <1>1 DEF Threads, NewFiles, Stages, FlushOrder, List,
                Given, Made, Ready, Listed, Written
  <1>6. PoolNoLostWakeup
    BY DEF PoolNoLostWakeup
  <1>7. QED
    BY <1>2, <1>4, <1>5, <1>6 DEF IInv

\* A new manager lists what is on disk and goes on from the highest id.
LEMMA ConstructIInv == IInv /\ Construct => IInv'
  <1> SUFFICES ASSUME IInv, Construct PROVE IInv'
    OBVIOUS
  <1> USE DEF IInv
  <1> DEFINE ids == DOMAIN dir
  <1>1. ids \subseteq Nat \ {0} /\ ids \subseteq Nat /\ IsFiniteSet(ids)
    BY DEF TypeOK, IdsBelow
  <1>2. /\ head' \in Seq(ids)
        /\ \A i, j \in DOMAIN head' : i < j => head'[i] > head'[j]
        /\ \A id \in ids : \E i \in DOMAIN head' : head'[i] = id
    BY <1>1, DescendingSorts DEF Construct
  <1>3. nextId' \in Nat \ {0} /\ \A id \in ids : id < nextId'
    BY <1>1, NextFreeIdAbove DEF Construct, PoolStart
  <1>4. flusher = "idle" /\ taker = "out"
    BY DEF Threads, Construct
  <1>5. TypeOK'
    <2>1. \A S : <<>> \in Seq(S)
      OBVIOUS
    <2>2. opens' \in 0 .. MaxOpens
      BY ManagerAssumption DEF TypeOK, Construct
    <2>3. poolShutdown' \in BOOLEAN /\ closerShutdown' \in BOOLEAN
      BY DEF Construct, PoolStart, CloserStart
    <2>4. QED
      BY <1>2, <1>3, <2>1, <2>2, <2>3
         DEF TypeOK, Construct, PoolStart, CloserStart, FillerPC, TakerPC, CloserPC, OwnerPC
  <1>6. Threads'
    BY <1>4 DEF Threads, Construct, PoolStart
  <1>7. IdsBelow'
    BY <1>3 DEF IdsBelow, Construct
  <1>8. Given' = {} /\ Made' = {} /\ Ready' = {}
    BY <1>4 DEF Given, Made, Ready, Construct, PoolStart
  <1>9. NewFiles' /\ Stages'
    BY <1>4, <1>8 DEF NewFiles, Stages, Construct, PoolStart
  <1>10. FlushOrder'
    BY <1>4 DEF FlushOrder, Written, Construct
  <1>11. List'
    BY <1>2 DEF List, Listed, Written, Construct
  <1>12. PoolNoLostWakeup'
    BY <1>4 DEF PoolNoLostWakeup, Construct, PoolStart, CloserStart
  <1>13. QED
    BY <1>5, <1>6, <1>7, <1>9, <1>10, <1>11, <1>12

\* FlushBegin keeps the invariant.
LEMMA FlushBeginIInv == IInv /\ FlushBegin => IInv'
  <1> SUFFICES ASSUME IInv, FlushBegin PROVE IInv'
    OBVIOUS
  <1> USE DEF IInv, FlushBegin, closerVars
  <1>1. TypeOK' /\ Threads' /\ IdsBelow' /\ PoolNoLostWakeup'
    BY ManagerAssumption DEF TypeOK, Threads, IdsBelow, PoolNoLostWakeup, TakerPC, FlusherPC
  <1>2. Given' = Given /\ Made' = Made /\ Ready' = Ready /\ Listed' = Listed /\ Written' = Written
    BY DEF Given, Made, Ready, Listed, Written
  <1>3. NewFiles' /\ Stages' /\ List'
    BY <1>2 DEF NewFiles, Stages, List
  <1>4. FlushOrder'
    BY <1>2 DEF FlushOrder, Written, TypeOK
  <1>5. QED
    BY <1>1, <1>3, <1>4

\* The flush takes the oldest file of the pool, or begins to wait.
LEMMA FlushAcquireIInv == IInv /\ FlushAcquire => IInv'
  <1> SUFFICES ASSUME IInv, FlushAcquire PROVE IInv'
    OBVIOUS
  <1> USE DEF IInv
  <1>1. CASE pool = <<>>
    <2>1. /\ taker' = "waiting" /\ flusher' = flusher /\ flusher = "acquire" /\ ~poolShutdown
          /\ UNCHANGED <<dir, pool, nextId, poolShutdown, filler, making, taken, faults,
                         pending, toClose, closerShutdown, closer, head, owner, flushes, opens>>
      BY <1>1 DEF FlushAcquire, AcquireTest, closerVars
    <2>2. Given' = Given /\ Made' = Made /\ Ready' = Ready /\ Listed' = Listed
          /\ Written' = Written
      BY <2>1 DEF Given, Made, Ready, Listed, Written
    <2>3. TypeOK' /\ Threads' /\ IdsBelow' /\ PoolNoLostWakeup'
      BY <1>1, <2>1 DEF TypeOK, Threads, IdsBelow, PoolNoLostWakeup, TakerPC
    <2>4. NewFiles' /\ Stages' /\ List' /\ FlushOrder'
      BY <2>1, <2>2 DEF NewFiles, Stages, List, FlushOrder
    <2>5. QED
      BY <2>3, <2>4
  <1>2. CASE pool # <<>>
    <2>1. /\ taken' = Head(pool) /\ pool' = Tail(pool)
          /\ taker' = "out" /\ flusher' = "write" /\ flusher = "acquire"
          /\ filler' = IF filler = "asleep" THEN "lock" ELSE filler
          /\ UNCHANGED <<dir, nextId, poolShutdown, making, faults,
                         pending, toClose, closerShutdown, closer, head, owner, flushes, opens>>
      BY <1>2 DEF FlushAcquire, AcquireTest, NotifyFiller, closerVars
    <2>2. /\ Len(pool) \in Nat \ {0} /\ DOMAIN pool = 1 .. Len(pool) /\ 1 \in DOMAIN pool
          /\ taken' = pool[1] /\ pool' \in Seq(DOMAIN dir)
          /\ DOMAIN pool' = 1 .. Len(pool) - 1
          /\ \A i \in DOMAIN pool' : i + 1 \in DOMAIN pool /\ pool'[i] = pool[i + 1]
      BY <1>2, <2>1 DEF TypeOK
    <2>3. /\ taken' \in Ready /\ taken' \in DOMAIN dir /\ Ready' \subseteq Ready
          /\ \A id \in Ready' : taken' < id
      <3>1. taken' \in Ready /\ taken' \in DOMAIN dir
        <4>1. pool[1] \in DOMAIN dir
          BY <2>2 DEF TypeOK
        <4>2. QED
          BY <2>2, <4>1 DEF Ready
      <3>2. Ready' \subseteq Ready
        BY <2>2 DEF Ready
      <3>3. ASSUME NEW i \in DOMAIN pool' PROVE taken' < pool'[i]
        <4>1. 1 < i + 1 /\ i + 1 \in DOMAIN pool /\ pool'[i] = pool[i + 1]
          BY <2>2
        <4>2. QED
          BY <2>2, <4>1 DEF Stages
      <3>4. QED
        BY <3>1, <3>2, <3>3 DEF Ready
    <2>4. /\ Given' = {taken'} /\ Given = {} /\ Made' = Made /\ Listed' = Listed
          /\ Written' = Written
      BY <2>1 DEF Given, Made, Listed, Written
    <2>5. TypeOK'
      BY <2>1, <2>2, <2>3 DEF TypeOK, FillerPC, TakerPC, FlusherPC
    <2>6. Threads' /\ IdsBelow' /\ PoolNoLostWakeup'
      BY <2>1 DEF Threads, IdsBelow, PoolNoLostWakeup
    <2>7. NewFiles'
      BY <2>1, <2>3, <2>4 DEF NewFiles
    <2>8. Stages'
      <3>1. \A i, j \in DOMAIN pool' : i < j => pool'[i] < pool'[j]
        BY <2>2 DEF Stages
      <3>2. QED
        BY <2>3, <2>4, <3>1 DEF Stages
    <2>9. List' /\ FlushOrder'
      BY <2>1, <2>4 DEF List, FlushOrder
    <2>10. QED
      BY <2>5, <2>6, <2>7, <2>8, <2>9
  <1>3. QED
    BY <1>1, <1>2

\* FlushWrite keeps the invariant.
LEMMA FlushWriteIInv == IInv /\ FlushWrite => IInv'
  <1> SUFFICES ASSUME IInv, FlushWrite PROVE IInv'
    OBVIOUS
  <1> USE DEF IInv, FlushWrite, closerVars
  <1>1. Given = {taken} /\ Given' = Given /\ Made' = Made /\ Ready' = Ready /\ Listed' = Listed
    BY DEF Given, Made, Ready, Listed
  <1>2. /\ taken \in DOMAIN dir /\ dir[taken] = 0 /\ DOMAIN dir' = DOMAIN dir
        /\ dir'[taken] = flushes
        /\ \A id \in DOMAIN dir : id # taken => dir'[id] = dir[id]
    BY <1>1 DEF NewFiles
  <1>3. flushes \in Nat /\ 0 < flushes
    BY <1>2 DEF FlushOrder, TypeOK
  <1>4. Written' = Written \union {taken}
    BY <1>2, <1>3 DEF Written
  <1>5. TypeOK'
    BY <1>2, <1>3 DEF TypeOK, FlusherPC
  <1>6. Threads' /\ PoolNoLostWakeup' /\ IdsBelow'
    BY <1>2 DEF Threads, PoolNoLostWakeup, IdsBelow
  <1>7. NewFiles'
    <2>1. taken \notin Made \union Ready
      BY <1>1, <1>2 DEF Stages, TypeOK
    <2>2. QED
      BY <1>1, <1>2, <1>3, <2>1 DEF NewFiles
  <1>8. Stages'
    BY <1>1, <1>4 DEF Stages
  <1>9. FlushOrder'
    <2>1. \A id \in Written : id < taken /\ dir'[id] = dir[id] /\ dir[id] < flushes
      BY <1>1, <1>2 DEF Stages, FlushOrder, Written, TypeOK
    <2>2. ASSUME NEW a \in Written', NEW b \in Written', a < b
          PROVE  dir'[a] < dir'[b]
      <3>1. a \in DOMAIN dir /\ b \in DOMAIN dir /\ a \in Nat /\ b \in Nat
        BY <1>2 DEF Written, TypeOK
      <3>2. a # taken
        BY <1>4, <2>1, <2>2, <3>1
      <3>3. CASE b = taken
        BY <1>2, <1>4, <2>1, <3>2, <3>3
      <3>4. CASE b # taken
        BY <1>4, <2>1, <2>2, <3>2, <3>4 DEF FlushOrder
      <3>5. QED
        BY <3>3, <3>4
    <2>3. \A id \in DOMAIN dir : dir'[id] <= flushes
      BY <1>2, <1>3 DEF FlushOrder
    <2>4. QED
      BY <1>2, <2>2, <2>3 DEF FlushOrder
  <1>10. List'
    BY <1>1, <1>4 DEF List
  <1>11. QED
    BY <1>5, <1>6, <1>7, <1>8, <1>9, <1>10

\* FlushSchedule keeps the invariant.
LEMMA FlushScheduleIInv == IInv /\ FlushSchedule => IInv'
  <1> SUFFICES ASSUME IInv, FlushSchedule PROVE IInv'
    OBVIOUS
  <1> USE DEF IInv, FlushSchedule, poolVars
  <1>1. /\ Given = {taken} /\ Given' = Given /\ Made' = Made /\ Ready' = Ready
        /\ Listed' = Listed /\ Written' = Written
    BY DEF Given, Made, Ready, Listed, Written
  <1>2. taken \in DOMAIN dir
    BY <1>1 DEF NewFiles
  <1>3. /\ pending' = Append(pending, taken) /\ pending' \in Seq(DOMAIN dir)
        /\ closer' \in {closer, "lock"}
        /\ closer = "asleep" /\ closer' = "asleep" => Len(pending') < BatchSize
        /\ closer' = "asleep" => closer = "asleep"
        /\ UNCHANGED <<toClose, closerShutdown>>
    BY <1>2, BatchAssumption DEF ScheduleClose, NotifyCloser, TypeOK
  <1>4. TypeOK' /\ Threads' /\ IdsBelow' /\ PoolNoLostWakeup'
    BY <1>3 DEF TypeOK, Threads, IdsBelow, PoolNoLostWakeup, CloserPC, FlusherPC
  <1>5. NewFiles' /\ Stages' /\ List' /\ FlushOrder'
    BY <1>1 DEF NewFiles, Stages, List, FlushOrder
  <1>6. QED
    BY <1>4, <1>5

\* The file is prepended: its id is above every listed one.
LEMMA FlushIndexIInv == IInv /\ FlushIndex => IInv'
  <1> SUFFICES ASSUME IInv, FlushIndex PROVE IInv'
    OBVIOUS
  <1> USE DEF IInv, FlushIndex, poolVars, closerVars
  <1>1. /\ Given = {taken} /\ Given' = {} /\ Made' = Made /\ Ready' = Ready
        /\ Written' = Written
    BY DEF Given, Made, Ready, Written
  <1>2. taken \in DOMAIN dir
    BY <1>1 DEF NewFiles
  <1>3. /\ head' \in Seq(DOMAIN dir) /\ head' = <<taken>> \o head
        /\ Len(head) \in Nat /\ DOMAIN head = 1 .. Len(head)
        /\ DOMAIN head' = 1 .. Len(head) + 1 /\ head'[1] = taken
        /\ \A i \in DOMAIN head' : i = 1 \/ (i - 1 \in DOMAIN head /\ head'[i] = head[i - 1])
    <2>1. head \in Seq(DOMAIN dir) /\ head' = <<taken>> \o head
      BY DEF TypeOK
    <2>2. QED
      BY <1>2, <2>1, Prepended
  <1>4. Listed' = Listed \union {taken}
    <2>1. \A i \in DOMAIN head : i + 1 \in DOMAIN head' /\ head'[i + 1] = head[i]
      BY <1>3
    <2>2. ASSUME NEW id \in Listed' PROVE id \in Listed \union {taken}
      BY <1>3 DEF Listed
    <2>3. ASSUME NEW id \in Listed PROVE id \in Listed'
      BY <2>1 DEF Listed
    <2>4. taken \in Listed'
      BY <1>3 DEF Listed
    <2>5. QED
      BY <2>2, <2>3, <2>4
  <1>5. TypeOK'
    BY <1>3 DEF TypeOK, FlusherPC
  <1>6. Threads' /\ IdsBelow' /\ PoolNoLostWakeup'
    BY DEF Threads, IdsBelow, PoolNoLostWakeup
  <1>7. NewFiles' /\ FlushOrder'
    BY <1>1 DEF NewFiles, FlushOrder
  <1>8. Stages'
    BY <1>1, <1>4 DEF Stages
  <1>9. List'
    <2>1. ASSUME NEW i \in DOMAIN head', NEW j \in DOMAIN head', i < j
          PROVE  head'[i] > head'[j]
      <3>1. j - 1 \in DOMAIN head /\ head'[j] = head[j - 1] /\ head[j - 1] \in Listed
        BY <1>3, <2>1 DEF Listed
      <3>2. CASE i = 1
        <4>1. head[j - 1] < taken
          BY <1>1, <3>1 DEF Stages
        <4>2. taken \in Nat /\ head[j - 1] \in Nat
          BY <1>2, <3>1 DEF TypeOK
        <4>3. QED
          BY <1>3, <3>1, <3>2, <4>1, <4>2
      <3>3. CASE i # 1
        <4>1. i - 1 \in DOMAIN head /\ head'[i] = head[i - 1] /\ i - 1 < j - 1
          BY <1>3, <2>1, <3>3
        <4>2. QED
          BY <3>1, <4>1 DEF List
      <3>4. QED
        BY <3>2, <3>3
    <2>2. owner' = "open" => Written' \subseteq Listed' \union Given'
      BY <1>1, <1>4 DEF List
    <2>3. QED
      BY <2>1, <2>2 DEF List
  <1>10. QED
    BY <1>5, <1>6, <1>7, <1>8, <1>9

\* What the ids say is kept by a step that touches neither the files nor the
\* pool nor the list.
LEMMA FilesKept ==
  ASSUME IInv, UNCHANGED <<dir, pool, nextId, making, taken, head, flusher, flushes>>,
         filler' = "push" <=> filler = "push",
         owner' = "open" => owner = "open",
         owner' # "none" => owner # "none"
  PROVE  IdsBelow' /\ NewFiles' /\ Stages' /\ FlushOrder' /\ List'
  <1>1. /\ Given' = Given /\ Made' = Made /\ Ready' = Ready /\ Listed' = Listed
        /\ Written' = Written
    BY DEF Given, Made, Ready, Listed, Written
  <1>2. QED
    BY <1>1 DEF IInv, IdsBelow, NewFiles, Stages, FlushOrder, List

\* The beginning of close keeps the invariant.
LEMMA CloseIInv == IInv /\ (Close \/ CloseJoinCloser) => IInv'
  <1> SUFFICES ASSUME IInv, Close \/ CloseJoinCloser PROVE IInv'
    OBVIOUS
  <1> USE DEF IInv
  <1>1. CASE Close
    <2>1. TypeOK' /\ Threads' /\ PoolNoLostWakeup'
      BY <1>1 DEF Close, CloserShutdown, NotifyCloser, poolVars, TypeOK, Threads,
                  PoolNoLostWakeup, CloserPC, OwnerPC
    <2>2. QED
      BY <1>1, <2>1, FilesKept DEF Close, poolVars
  <1>2. CASE CloseJoinCloser
    <2> USE DEF CloseJoinCloser, CloserGone, PoolShutdown, NotifyFiller
    <2>1. TypeOK'
      <3>1. \A S : <<>> \in Seq(S)
        OBVIOUS
      <3>2. QED
        BY <1>2, <3>1 DEF TypeOK, FillerPC, CloserPC, OwnerPC
    <2>2. Threads' /\ PoolNoLostWakeup'
      BY <1>2 DEF Threads, PoolNoLostWakeup
    <2>3. QED
      BY <1>2, <2>1, <2>2, FilesKept
  <1>3. QED
    BY <1>1, <1>2

\* Nothing but the directory outlives the manager.
LEMMA GoneIInv ==
  ASSUME IInv, UNCHANGED <<dir, nextId, flushes>>, TypeOK',
         pool' = <<>>, head' = <<>>, owner' = "none", flusher' = "idle", filler' = "none",
         taker' = "out", making' = 0, PoolNoLostWakeup'
  PROVE  IInv'
  <1>1. /\ Given' = {} /\ Made' = {} /\ Ready' = {} /\ Listed' = {} /\ Written' = Written
        /\ DOMAIN pool' = {} /\ DOMAIN head' = {}
    BY DEF Given, Made, Ready, Listed, Written
  <1>2. Threads' /\ IdsBelow' /\ NewFiles' /\ Stages' /\ List'
    BY <1>1 DEF IInv, Threads, IdsBelow, NewFiles, Stages, List
  <1>3. FlushOrder'
    BY <1>1 DEF IInv, FlushOrder
  <1>4. QED
    BY <1>2, <1>3 DEF IInv

\* CloseJoinPool keeps the invariant.
LEMMA CloseJoinPoolIInv == IInv /\ CloseJoinPool => IInv'
  <1> SUFFICES ASSUME IInv, CloseJoinPool PROVE IInv'
    OBVIOUS
  <1> USE DEF IInv, CloseJoinPool, PoolGone, closerVars
  <1>1. \A S : <<>> \in Seq(S)
    OBVIOUS
  <1>2. TypeOK'
    BY <1>1 DEF TypeOK, FillerPC, OwnerPC
  <1>3. flusher' = "idle" /\ taker' = "out" /\ making' = 0
    BY DEF Threads
  <1>4. PoolNoLostWakeup'
    BY DEF PoolNoLostWakeup
  <1>5. QED
    BY <1>2, <1>3, <1>4, GoneIInv

\* Crash keeps the invariant.
LEMMA CrashIInv == IInv /\ Crash => IInv'
  <1> SUFFICES ASSUME IInv, Crash PROVE IInv'
    OBVIOUS
  <1> USE DEF IInv, Crash
  <1>1. \A S : <<>> \in Seq(S)
    OBVIOUS
  <1>2. poolShutdown' \in BOOLEAN /\ closerShutdown' \in BOOLEAN
    OBVIOUS
  <1>3. TypeOK'
    BY <1>1, <1>2 DEF TypeOK, FillerPC, TakerPC, CloserPC, OwnerPC, FlusherPC
  <1>4. PoolNoLostWakeup'
    BY DEF PoolNoLostWakeup
  <1>5. QED
    BY <1>3, <1>4, GoneIInv

\* The thread that fills the pool opens the file with the next id.
LEMMA FillerMakeIInv == IInv /\ FillerStep /\ FillerMake => IInv'
  <1> SUFFICES ASSUME IInv, FillerMake, UNCHANGED <<closerVars, mgrVars>> PROVE IInv'
    BY DEF FillerStep
  <1> USE DEF IInv, FillerMake, closerVars, mgrVars
  <1>1. /\ owner # "none" /\ nextId \in Nat \ {0} /\ nextId \notin DOMAIN dir
        /\ \A id \in DOMAIN dir : id < nextId /\ id \in Nat \ {0}
    BY DEF Threads, IdsBelow, TypeOK
  <1>2. /\ DOMAIN dir' = DOMAIN dir \union {nextId} /\ dir'[nextId] = 0
        /\ \A id \in DOMAIN dir : dir'[id] = dir[id]
    BY <1>1
  <1>3. /\ Given' = Given /\ Made' = {nextId} /\ Ready' = Ready /\ Listed' = Listed
        /\ Made = {}
    BY DEF Given, Made, Ready, Listed
  <1>4. Written' = Written
    BY <1>1, <1>2 DEF Written
  <1>5. Given \union Ready \union Listed \union Written \subseteq DOMAIN dir
    <2>1. Listed \subseteq DOMAIN dir
      BY DEF Listed, TypeOK
    <2>2. QED
      BY <2>1 DEF NewFiles, Written
  <1>6. TypeOK'
    <2>1. \A s \in Seq(DOMAIN dir) : s \in Seq(DOMAIN dir')
      BY <1>2, SeqGrows
    <2>2. DOMAIN dir' \subseteq Nat \ {0} /\ \A id \in DOMAIN dir' : dir'[id] \in Nat
      BY <1>1, <1>2 DEF TypeOK
    <2>3. QED
      BY <1>1, <2>1, <2>2 DEF TypeOK, FillerPC
  <1>7. IdsBelow'
    <2>1. IsFiniteSet(DOMAIN dir')
      BY <1>2, FS_AddElement DEF IdsBelow
    <2>2. QED
      BY <1>1, <1>2, <2>1 DEF IdsBelow
  <1>8. Threads' /\ PoolNoLostWakeup'
    BY <1>1 DEF Threads, PoolNoLostWakeup
  <1>9. NewFiles'
    BY <1>2, <1>3, <1>5 DEF NewFiles, Given
  <1>10. Stages'
    BY <1>1, <1>3, <1>4, <1>5 DEF Stages
  <1>11. FlushOrder'
    BY <1>2, <1>4 DEF FlushOrder, Written, TypeOK
  <1>12. List'
    BY <1>3, <1>4 DEF List
  <1>13. QED
    BY <1>6, <1>7, <1>8, <1>9, <1>10, <1>11, <1>12

\* FillerPush keeps the invariant.
LEMMA FillerPushIInv == IInv /\ FillerStep /\ FillerPush => IInv'
  <1> SUFFICES ASSUME IInv, FillerPush, UNCHANGED <<closerVars, mgrVars>> PROVE IInv'
    BY DEF FillerStep
  <1> USE DEF IInv, FillerPush, closerVars, mgrVars
  <1>1. /\ Given' = Given /\ Made = {making} /\ Made' = {} /\ Listed' = Listed
        /\ Written' = Written
    BY DEF Given, Made, Listed, Written
  <1>2. making \in DOMAIN dir /\ dir[making] = 0
    BY <1>1 DEF NewFiles
  <1>3. /\ pool' \in Seq(DOMAIN dir)
        /\ Ready' \subseteq Ready \union {making}
        /\ \A i, j \in DOMAIN pool' : i < j => pool'[i] < pool'[j]
    <2>1. CASE pool' = pool
      BY <2>1 DEF TypeOK, Stages, Ready
    <2>2. CASE pool' = Append(pool, making)
      <3>1. /\ pool' \in Seq(DOMAIN dir) /\ Len(pool) \in Nat
            /\ DOMAIN pool = 1 .. Len(pool) /\ DOMAIN pool' = 1 .. Len(pool) + 1
            /\ \A i \in DOMAIN pool : pool'[i] = pool[i]
            /\ pool'[Len(pool) + 1] = making
        BY <1>2, <2>2 DEF TypeOK
      <3>2. Ready' \subseteq Ready \union {making}
        <4> SUFFICES ASSUME NEW i \in DOMAIN pool' PROVE pool'[i] \in Ready \union {making}
          BY DEF Ready
        <4>1. i \in DOMAIN pool \/ i = Len(pool) + 1
          BY <3>1
        <4>2. QED
          BY <3>1, <4>1 DEF Ready
      <3>3. ASSUME NEW i \in DOMAIN pool', NEW j \in DOMAIN pool', i < j
            PROVE  pool'[i] < pool'[j]
        <4>1. i \in DOMAIN pool /\ pool'[i] = pool[i] /\ pool[i] \in Ready
          BY <3>1, <3>3 DEF Ready
        <4>2. CASE j \in DOMAIN pool
          BY <3>1, <3>3, <4>1, <4>2 DEF Stages
        <4>3. CASE j = Len(pool) + 1
          BY <1>1, <3>1, <4>1, <4>3 DEF Stages
        <4>4. QED
          BY <3>1, <4>2, <4>3
      <3>4. QED
        BY <3>1, <3>2, <3>3
    <2>3. QED
      BY <2>1, <2>2
  <1>4. TypeOK'
    BY <1>3 DEF TypeOK, FillerPC, TakerPC
  <1>5. Threads' /\ IdsBelow'
    BY DEF Threads, IdsBelow
  <1>6. PoolNoLostWakeup'
    BY DEF PoolNoLostWakeup
  <1>7. NewFiles'
    BY <1>1, <1>2, <1>3 DEF NewFiles
  <1>8. Stages'
    BY <1>1, <1>3 DEF Stages
  <1>9. FlushOrder' /\ List'
    BY <1>1 DEF FlushOrder, List
  <1>10. QED
    BY <1>4, <1>5, <1>6, <1>7, <1>8, <1>9

\* The other steps of the three threads change no file.
LEMMA FillerQuietIInv == IInv /\ FillerStep /\ (FillerTest \/ FillerFails) => IInv'
  <1> SUFFICES ASSUME IInv, FillerTest \/ FillerFails, UNCHANGED <<closerVars, mgrVars>>
               PROVE  IInv'
    BY DEF FillerStep
  <1> USE DEF IInv, closerVars, mgrVars
  <1>1. CASE FillerTest
    <2>1. TypeOK' /\ Threads' /\ PoolNoLostWakeup'
      BY <1>1, PoolAssumption DEF FillerTest, TypeOK, Threads, PoolNoLostWakeup, FillerPC
    <2>2. QED
      BY <1>1, <2>1, FilesKept DEF FillerTest
  <1>2. CASE FillerFails
    <2> USE <1>2 DEF FillerFails
    <2>1. TypeOK' /\ Threads' /\ PoolNoLostWakeup'
      BY PoolAssumption DEF TypeOK, Threads, PoolNoLostWakeup, FillerPC
    <2>2. /\ Given' = Given /\ Made' = Made /\ Ready' = Ready /\ Listed' = Listed
          /\ Written' = Written
      BY DEF Given, Made, Ready, Listed, Written
    <2>3. IdsBelow'
      BY DEF IdsBelow, TypeOK
    <2>4. QED
      BY <2>1, <2>2, <2>3 DEF NewFiles, Stages, FlushOrder, List
  <1>3. QED
    BY <1>1, <1>2

\* The closing thread keeps the invariant.
LEMMA CloserIInv == IInv /\ CloserStep => IInv'
  <1> SUFFICES ASSUME IInv, CloserStep PROVE IInv'
    OBVIOUS
  <1> USE DEF IInv, CloserStep, Closer, poolVars, mgrVars
  <1>1. TypeOK'
    <2>1. \A S : <<>> \in Seq(S)
      OBVIOUS
    <2>2. QED
      BY <2>1 DEF CloserTest, CloserClose, TypeOK, CloserPC
  <1>2. Threads' /\ PoolNoLostWakeup'
    BY DEF CloserTest, CloserClose, Threads, PoolNoLostWakeup
  <1>3. QED
    BY <1>1, <1>2, FilesKept

\* A spurious wake-up keeps the invariant.
LEMMA SpuriousIInv == IInv /\ SpuriousWakeup => IInv'
  <1> SUFFICES ASSUME IInv, SpuriousWakeup PROVE IInv'
    OBVIOUS
  <1> USE DEF IInv, SpuriousWakeup, mgrVars
  <1>1. TypeOK' /\ Threads' /\ PoolNoLostWakeup'
    BY DEF TypeOK, Threads, PoolNoLostWakeup, FillerPC, TakerPC, CloserPC
  <1>2. QED
    BY <1>1, FilesKept

\* The invariant of the manager, its pool and its closer.
THEOREM ManagerInvariant == Spec => []IInv
  <1>1. IInv /\ [Next]_vars => IInv'
    <2> SUFFICES ASSUME IInv, [Next]_vars PROVE IInv'
      OBVIOUS
    <2>1. CASE UNCHANGED vars
      <3>1. /\ UNCHANGED <<dir, pool, nextId, making, taken, head, flusher, flushes, opens>>
            /\ UNCHANGED <<poolShutdown, filler, taker, faults, pending, toClose>>
            /\ UNCHANGED <<closerShutdown, closer, owner>>
        BY <2>1 DEF vars, poolVars, closerVars, mgrVars
      <3>2. TypeOK' /\ Threads' /\ PoolNoLostWakeup'
        BY <3>1 DEF IInv, TypeOK, Threads, PoolNoLostWakeup
      <3>3. QED
        BY <3>1, <3>2, FilesKept DEF IInv
    <2>2. CASE Next
      BY <2>2, ConstructIInv, FlushBeginIInv, FlushAcquireIInv, FlushWriteIInv,
         FlushScheduleIInv, FlushIndexIInv, CloseIInv, CloseJoinPoolIInv, CrashIInv,
         FillerMakeIInv, FillerPushIInv, FillerQuietIInv, CloserIInv, SpuriousIInv
         DEF Next, Flush, Owner, FillerStep, Filler
    <2>3. QED
      BY <2>1, <2>2
  <1>2. QED
    BY InitIInv, <1>1, PTL DEF Spec

--------------------------------------------------------------------------------
(* What follows.                                                           *)

\* Every variable of SSTableManager, FilePool and FileCloser has its type: what
\* waits in the pool, in the closer's queue and in the list is a file on disk.
THEOREM ManagerTypeCorrect == Spec => []TypeOK
  <1>1. IInv => TypeOK
    BY DEF IInv
  <1>2. QED
    BY <1>1, ManagerInvariant, PTL

\* No thread waits on a condition variable of FilePool or FileCloser whose
\* predicate holds, for any pool size.
THEOREM PoolWakeupsNotLost == Spec => []PoolNoLostWakeup
  <1>1. IInv => PoolNoLostWakeup
    BY DEF IInv
  <1>2. QED
    BY <1>1, ManagerInvariant, PTL

\* A lookup that walks the list from _head meets newer memtables first, also
\* after a restart, when recoverState has only the ids to go by.
THEOREM ListStaysNewestFirst == Spec => []ListNewestFirst
  <1>1. IInv => ListNewestFirst
    <2> SUFFICES ASSUME IInv, NEW i \in DOMAIN head, NEW j \in DOMAIN head, i < j,
                        dir[head[i]] # 0, dir[head[j]] # 0
                 PROVE  dir[head[i]] > dir[head[j]]
      BY DEF ListNewestFirst
    <2>1. head[i] > head[j] /\ head[i] \in DOMAIN dir /\ head[j] \in DOMAIN dir
      BY DEF IInv, List, TypeOK
    <2>2. /\ head[i] \in Nat /\ head[j] \in Nat
          /\ dir[head[i]] \in Nat /\ dir[head[j]] \in Nat
      BY <2>1 DEF IInv, TypeOK
    <2>3. head[i] \in Written /\ head[j] \in Written
      BY <2>1 DEF Written
    <2>4. dir[head[j]] < dir[head[i]]
      BY <2>1, <2>2, <2>3 DEF IInv, FlushOrder
    <2>5. QED
      BY <2>2, <2>4
  <1>2. QED
    BY <1>1, ManagerInvariant, PTL

\* While a manager is open, every memtable ever flushed is reachable from _head,
\* through one node.
THEOREM NoFlushedFileMissing == Spec => []NothingMissing
  <1>1. IInv => NothingMissing
    <2> SUFFICES ASSUME IInv, owner = "open", NEW id \in DOMAIN dir, dir[id] # 0
                 PROVE  IF flusher \in {"schedule", "index"} /\ id = taken
                        THEN \A i \in DOMAIN head : head[i] # id
                        ELSE Cardinality({i \in DOMAIN head : head[i] = id}) = 1
      BY DEF NothingMissing
    <2>1. CASE flusher \in {"schedule", "index"} /\ id = taken
      <3>1. id \in Given /\ id \in Nat
        BY <2>1 DEF Given, IInv, TypeOK
      <3>2. \A listed \in Listed : listed < id
        BY <3>1 DEF IInv, Stages
      <3>3. QED
        BY <2>1, <3>1, <3>2 DEF Listed
    <2>2. CASE ~(flusher \in {"schedule", "index"} /\ id = taken)
      <3>1. id \in Written
        BY DEF Written
      <3>2. id \notin Given
        BY <2>2 DEF Given, IInv, NewFiles
      <3>3. PICK k \in DOMAIN head : head[k] = id
        BY <3>1, <3>2 DEF IInv, List, Listed
      <3>4. ASSUME NEW i \in DOMAIN head, head[i] = id PROVE i = k
        <4>1. i < k \/ k < i \/ i = k
          BY DEF IInv, TypeOK
        <4>2. id \in Nat
          BY DEF IInv, TypeOK
        <4>3. QED
          BY <3>3, <3>4, <4>1, <4>2 DEF IInv, List
      <3>5. {i \in DOMAIN head : head[i] = id} = {k}
        BY <3>3, <3>4
      <3>6. QED
        BY <2>2, <3>5, FS_Singleton
    <2>3. QED
      BY <2>1, <2>2
  <1>2. QED
    BY <1>1, ManagerInvariant, PTL

\* No step truncates, overwrites or removes a file that a flush has written:
\* the ids the pool opens are new, and the file a flush writes is empty.
THEOREM NoFileOverwritten == Spec => NothingOverwritten
  <1> DEFINE Kept == \A id \in DOMAIN dir :
                        dir[id] # 0 => id \in DOMAIN dir' /\ dir'[id] = dir[id]
  <1>1. IInv /\ [Next]_vars => [Kept]_vars
    <2> SUFFICES ASSUME IInv, Next PROVE Kept
      OBVIOUS
    <2>1. CASE FlushWrite
      <3>1. Given = {taken}
        BY <2>1 DEF FlushWrite, Given
      <3>2. taken \in DOMAIN dir /\ dir[taken] = 0
        BY <2>1, <3>1 DEF FlushWrite, IInv, NewFiles
      <3>3. QED
        BY <2>1, <3>2 DEF FlushWrite
    <2>2. CASE FillerStep
      <3>1. FillerMake => nextId \notin DOMAIN dir
        <4>1. FillerMake => owner # "none"
          BY DEF FillerMake, IInv, Threads
        <4>2. owner # "none" => nextId \notin DOMAIN dir
          BY DEF IInv, IdsBelow, TypeOK
        <4>3. QED
          BY <4>1, <4>2
      <3>2. QED
        BY <2>2, <3>1 DEF FillerStep, Filler, FillerTest, FillerMake, FillerFails, FillerPush
    <2>3. dir' = dir \/ FlushWrite \/ FillerStep
      BY DEF Next, Construct, FlushBegin, Flush, FlushAcquire, AcquireTest, FlushSchedule,
             FlushIndex, Close, Owner, CloseJoinCloser, PoolShutdown, CloseJoinPool, PoolGone,
             CloserStep, SpuriousWakeup, Crash, poolVars
    <2>4. QED
      BY <2>1, <2>2, <2>3
  <1>2. QED
    BY <1>1, ManagerInvariant, PTL DEF Spec, NothingOverwritten
===============================================================================
