---------------------------- MODULE BackendsProofs ----------------------------
(***************************************************************************)
(* Proofs about the LevelDB and the RocksDB back end, for any number of    *)
(* threads, any keys, sizes and limits.  What the LevelDB back end loses   *)
(* when two threads call it (BarrierCovers, ImplementsDurableLog) is       *)
(* proved for one.                                                         *)
(***************************************************************************)
EXTENDS Backends, SequenceTheorems, FiniteSetTheorems, WellFoundedInduction, TLAPS

-----------------------------------------------------------------------------
(***************************************************************************)
(* Where the threads can be.                                               *)
(***************************************************************************)
Entry == [key : Keys, number : 1 .. Len(log)]

\* In stopBatch.
Stopping(t) == pc[t] \in {"stop", "lock", "flush"}

\* The store is closed by one thread, alone.
ClosesAlone ==
  /\ phase = "closed" => \A t \in Threads : pc[t] = "idle"
  /\ phase = "closing" => \A s, t \in Threads : pc[s] # "idle" /\ pc[t] # "idle" => s = t
  /\ \A t \in Threads : pc[t] = "closing" => phase = "closing"

\* A thread has something to cover only inside a barrier.
LevelControl ==
  /\ \A t \in Threads : Stopping(t) =>
       /\ local[t].then # "idle"
       /\ local[t].then = "closing" => phase = "closing"
  /\ \A t \in Threads : covers[t] # 0 =>
       \/ pc[t] \in {"return", "closing"}
       \/ Stopping(t) /\ local[t].then \in {"return", "closing"}

RocksControl ==
  /\ heap = <<>> /\ freed = {} /\ batch = 0
  /\ \A t \in Threads : pc[t] \in {"idle", "flush", "return", "closing"}
  /\ \A t \in Threads : pc[t] = "idle" => covers[t] = 0

\* The database holds the first mutations, each at its number.
DbPrefix ==
  /\ Len(db) <= Len(log)
  /\ \A i \in DOMAIN db : db[i] = [key |-> log[i], number |-> i]

\* What a barrier has reported, or is about to, is in the database.
AckedInDb ==
  /\ acked <= Len(db)
  /\ \A t \in Threads : pc[t] \in {"return", "closing"} => covers[t] <= Len(db)

Control ==
  /\ ClosesAlone
  /\ storageType \in StorageTypes /\ enableWAL \in BOOLEAN
  /\ storageType = "LevelDB" => LevelControl
  /\ storageType = "RocksDB" => RocksControl /\ DbPrefix /\ AckedInDb

-----------------------------------------------------------------------------
(***************************************************************************)
(* The length of the batch: the threads that will add to it whatever they  *)
(* find, and those that have added and not yet counted.                    *)
(***************************************************************************)
Adding == {t \in Threads : \/ pc[t] = "add"
                           \/ pc[t] = "decide" /\ ~Full(local[t])
                           \/ pc[t] = "flush" /\ local[t].then = "add"}

Uncounted == {t \in Threads : pc[t] = "count"}

BatchLength ==
  batch # 0 =>
    /\ Len(heap[batch]) + Cardinality(Adding)
         <= Max({1, MaxBatchSize - 1}) + Cardinality(Threads) - 1
    /\ Len(heap[batch]) <= batchSize + Cardinality(Uncounted)

IInv == TypeOK /\ Control /\ BatchLength

-----------------------------------------------------------------------------
(***************************************************************************)
(* One caller: what is not in the database is in one batch, in order.      *)
(***************************************************************************)
OneCaller == \E t \in Threads : Threads = {t}

\* A batch holds the mutations after the ones in the database.
Rest(b) ==
  /\ b # 0 /\ b \notin freed
  /\ Len(db) + Len(heap[b]) = Len(log)
  /\ \A i \in DOMAIN heap[b] :
       heap[b][i] = [key |-> log[Len(db) + i], number |-> Len(db) + i]

RestInBatch ==
  /\ batch # 0 => Rest(batch)
  /\ \A t \in Threads : pc[t] = "flush" => batch = 0 /\ Rest(local[t].old)
  /\ batch = 0 => Len(db) = Len(log) \/ \E t \in Threads : pc[t] = "flush"
  /\ \A t \in Threads : pc[t] = "lock" => local[t].old = batch
  /\ \A t \in Threads : pc[t] \in {"write", "return", "closing"} => batch = 0
  /\ phase = "closed" => batch = 0

Orderly == storageType = "RocksDB" \/ OneCaller

OneCallerInv ==
  /\ Orderly
  /\ DbPrefix /\ AckedInDb
  /\ storageType = "LevelDB" => RestInBatch

-----------------------------------------------------------------------------
(***************************************************************************)
(* Facts about the greatest element of a set.                              *)
(***************************************************************************)
LEMMA LeastExists ==
  ASSUME NEW S, S \subseteq Nat, S # {}
  PROVE  \E n \in S : \A m \in S : n <= m
  <1> DEFINE R == {pair \in Nat \X Nat : pair[1] < pair[2]}
  <1>1. IsWellFoundedOn(R, Nat)
    BY NatLessThanWellFounded, Zenon DEF OpToRel
  <1>2. \A m, n \in Nat : <<m, n>> \in R <=> m < n
    OBVIOUS
  <1> HIDE DEF R
  <1>3. PICK n \in S : \A m \in S : ~ (<<m, n>> \in R)
    BY <1>1, WFMin
  <1>4. ASSUME NEW m \in S PROVE n <= m
    <2>1. n \in Nat /\ m \in Nat
      OBVIOUS
    <2>2. ~(m < n)
      BY <1>2, <1>3, <2>1, Zenon
    <2>3. QED
      BY <2>1, <2>2
  <1>5. QED
    BY <1>4

\* A set of numbers with a bound has a greatest one.
LEMMA MaxOfSome ==
  ASSUME NEW S, NEW n \in Nat, S \subseteq 1 .. n, S # {}
  PROVE  Max(S) \in S /\ \A m \in S : m <= Max(S)
  <1> DEFINE T == {k \in Nat : n - k \in S}
  <1>1. T # {}
    <2>1. PICK m \in S : TRUE
      OBVIOUS
    <2>2. n - m \in Nat /\ n - (n - m) = m
      OBVIOUS
    <2>3. QED
      BY <2>1, <2>2
  <1>2. PICK k \in T : \A j \in T : k <= j
    BY <1>1, LeastExists
  <1>3. ASSUME NEW m \in S PROVE m <= n - k
    <2>1. n - m \in T /\ m \in Nat /\ k \in Nat
      <3>1. n - m \in Nat /\ n - (n - m) = m
        OBVIOUS
      <3>2. QED
        BY <3>1
    <2>2. k <= n - m
      BY <1>2, <2>1
    <2>3. QED
      BY <2>1, <2>2
  <1>4. \E x \in S : \A y \in S : x >= y
    <2>1. n - k \in S
      OBVIOUS
    <2> HIDE DEF T
    <2>2. QED
      BY <1>3, <2>1
  <1>5. Max(S) \in S /\ \A y \in S : Max(S) >= y
    BY <1>4 DEF Max
  <1>6. QED
    BY <1>5

\* The greater of two numbers.
LEMMA MaxOfTwo ==
  ASSUME NEW a \in Int, NEW b \in Int
  PROVE  Max({a, b}) = IF a >= b THEN a ELSE b
  BY DEF Max

-----------------------------------------------------------------------------
(***************************************************************************)
(* The batching store: types and control.                                  *)
(***************************************************************************)
PCs == {"idle", "direct", "write", "decide", "add", "count", "stop", "lock",
        "flush", "return", "closing"}
LocalType == [key : Keys, size : Nat, futureSize : Nat, futureBytes : Nat,
              old : {0} \cup DOMAIN heap,
              then : {"idle", "return", "write", "add", "closing"}]

\* The types, with names for their parts.
LEMMA TypeParts ==
  TypeOK <=> /\ db \in Seq(Entry) /\ heap \in Seq(Seq(Entry))
             /\ freed \subseteq DOMAIN heap /\ batch \in {0} \cup DOMAIN heap
             /\ batchSize \in Nat /\ batchBytes \in Nat
             /\ log \in Seq(Keys) /\ phase \in {"open", "closing", "closed"}
             /\ pc \in [Threads -> PCs] /\ local \in [Threads -> LocalType]
             /\ covers \in [Threads -> 0 .. Len(log)] /\ acked \in 0 .. Len(log)
  BY DEF TypeOK, Entry, PCs, LocalType

\* The same for the state after a step.
LEMMA TypePartsNext ==
  TypeOK' <=> /\ db' \in Seq(Entry') /\ heap' \in Seq(Seq(Entry'))
              /\ freed' \subseteq DOMAIN heap' /\ batch' \in {0} \cup DOMAIN heap'
              /\ batchSize' \in Nat /\ batchBytes' \in Nat
              /\ log' \in Seq(Keys) /\ phase' \in {"open", "closing", "closed"}
              /\ pc' \in [Threads -> PCs] /\ local' \in [Threads -> LocalType']
              /\ covers' \in [Threads -> 0 .. Len(log')] /\ acked' \in 0 .. Len(log')
  BY DEF TypeOK, Entry, PCs, LocalType

\* A thread's variables at the beginning of a call.
LEMMA NoLocalType == NoLocal \in LocalType /\ NoLocal.then = "idle"
  <1>1. (CHOOSE k \in Keys : TRUE) \in Keys
    BY KeyAssumption
  <1>2. QED
    BY <1>1 DEF NoLocal, LocalType

\* A sequence over a set is one over any larger set.
LEMMA SeqGrows ==
  ASSUME NEW S, NEW T, S \subseteq T
  PROVE  \A s \in Seq(S) : s \in Seq(T)
  OBVIOUS

\* A mutation keeps what is typed by the length of the history.
LEMMA LogGrows ==
  ASSUME TypeOK, NEW key \in Keys, log' = Append(log, key)
  PROVE  /\ log' \in Seq(Keys) /\ Len(log) \in Nat /\ Len(log') = Len(log) + 1
         /\ db \in Seq(Entry') /\ heap \in Seq(Seq(Entry'))
         /\ covers \in [Threads -> 0 .. Len(log')] /\ acked \in 0 .. Len(log')
         /\ [key |-> key, number |-> Len(log) + 1] \in Entry'
         /\ \A i \in 1 .. Len(log) : log'[i] = log[i]
         /\ log'[Len(log) + 1] = key
  <1>1. log \in Seq(Keys)
    BY DEF TypeOK
  <1>2. /\ log' \in Seq(Keys) /\ Len(log) \in Nat /\ Len(log') = Len(log) + 1
        /\ \A i \in 1 .. Len(log) : log'[i] = log[i]
        /\ log'[Len(log) + 1] = key
    BY <1>1
  <1>3. Entry \subseteq Entry'
    BY <1>2 DEF Entry
  <1>4. \A s \in Seq(Entry) : s \in Seq(Entry')
    BY <1>3, SeqGrows
  <1>5. Seq(Entry) \subseteq Seq(Entry')
    BY <1>4
  <1>6. \A s \in Seq(Seq(Entry)) : s \in Seq(Seq(Entry'))
    BY <1>5, SeqGrows
  <1>7. db \in Seq(Entry') /\ heap \in Seq(Seq(Entry'))
    BY <1>4, <1>6, TypeParts
  <1>8. covers \in [Threads -> 0 .. Len(log')] /\ acked \in 0 .. Len(log')
    BY <1>2 DEF TypeOK
  <1>9. [key |-> key, number |-> Len(log) + 1] \in Entry'
    BY <1>2 DEF Entry
  <1>10. QED
    BY <1>2, <1>7, <1>8, <1>9

\* The sets of threads whose sizes bound the batch.
LEMMA CountsFinite ==
  /\ IsFiniteSet(Threads) /\ Cardinality(Threads) \in Nat \ {0}
  /\ \A S \in SUBSET Threads :
       IsFiniteSet(S) /\ Cardinality(S) \in Nat /\ Cardinality(S) <= Cardinality(Threads)
  /\ \A S \in SUBSET Threads : \A T \in SUBSET S : Cardinality(T) <= Cardinality(S)
  /\ \A S \in SUBSET Threads : \A t \in Threads :
       /\ t \notin S => Cardinality(S \cup {t}) = Cardinality(S) + 1
       /\ t \in S => Cardinality(S \ {t}) = Cardinality(S) - 1
  <1>1. IsFiniteSet(Threads) /\ Threads # {}
    BY ThreadAssumption
  <1>2. Cardinality(Threads) \in Nat \ {0}
    BY <1>1, FS_CardinalityType, FS_EmptySet
  <1>3. ASSUME NEW S \in SUBSET Threads
        PROVE  IsFiniteSet(S) /\ Cardinality(S) \in Nat /\ Cardinality(S) <= Cardinality(Threads)
    BY <1>1, FS_Subset, FS_CardinalityType
  <1>4. ASSUME NEW S \in SUBSET Threads, NEW T \in SUBSET S
        PROVE  Cardinality(T) <= Cardinality(S)
    BY <1>3, FS_Subset
  <1>5. ASSUME NEW S \in SUBSET Threads, NEW t \in Threads
        PROVE  /\ t \notin S => Cardinality(S \cup {t}) = Cardinality(S) + 1
               /\ t \in S => Cardinality(S \ {t}) = Cardinality(S) - 1
    BY <1>3, FS_AddElement, FS_RemoveElement
  <1>6. QED
    BY <1>1, <1>2, <1>3, <1>4, <1>5

\* The batch's limit is at least one record.
LEMMA LimitPositive ==
  LET limit == Max({1, MaxBatchSize - 1})
  IN  limit \in Nat /\ limit >= 1 /\ limit >= MaxBatchSize - 1
  <1>1. 1 \in Int /\ MaxBatchSize - 1 \in Int /\ MaxBatchSize \in Nat
    BY LimitAssumption
  <1>2. Max({1, MaxBatchSize - 1}) = IF 1 >= MaxBatchSize - 1 THEN 1 ELSE MaxBatchSize - 1
    BY <1>1, MaxOfTwo
  <1>3. QED
    BY <1>1, <1>2

\* The bound is kept by a step that neither adds to the batch nor counts, and
\* after which no more threads are sure to add.
LEMMA LengthKept ==
  ASSUME TypeOK, BatchLength,
         batch' # 0 => /\ batch' = batch /\ heap'[batch] = heap[batch]
                       /\ batchSize' = batchSize
                       /\ Adding' \subseteq Adding /\ Uncounted' = Uncounted
  PROVE  BatchLength'
  <1> SUFFICES ASSUME batch' # 0 PROVE BatchLength'
    BY DEF BatchLength
  <1>1. /\ batch' = batch /\ heap'[batch] = heap[batch] /\ batchSize' = batchSize
        /\ Adding' \subseteq Adding /\ Uncounted' = Uncounted
    OBVIOUS
  <1>2. Adding \subseteq Threads
    BY DEF Adding
  <1>3. Cardinality(Adding') <= Cardinality(Adding) /\ Cardinality(Adding') \in Nat
        /\ Cardinality(Adding) \in Nat /\ Cardinality(Threads) \in Nat
    BY <1>1, <1>2, CountsFinite
  <1>4. Len(heap[batch]) \in Nat
    BY <1>1 DEF TypeOK
  <1>5. QED
    BY <1>1, <1>3, <1>4, LimitPositive DEF BatchLength

-----------------------------------------------------------------------------
(***************************************************************************)
(* The steps of the batching store.                                        *)
(***************************************************************************)
\* Between two steps of LevelDB's back end.
LevelStep == IInv /\ storageType = "LevelDB" /\ UNCHANGED <<storageType, enableWAL>>

\* What Control asks of such a step.
LEMMA LevelControlEnough ==
  ASSUME LevelStep, ClosesAlone', LevelControl'
  PROVE  Control'
  BY DEF LevelStep, IInv, Control

\* Control is kept by a thread that goes on inside a call.
LEMMA InsideCall ==
  ASSUME LevelStep, NEW t \in Threads, NEW where, Goto(t, where), UNCHANGED <<covers, phase>>,
         pc[t] # "idle", where # "idle",
         \A s \in Threads : s # t => local'[s] = local[s],
         where = "closing" => phase = "closing",
         where \in {"stop", "lock", "flush"} =>
           /\ local'[t].then # "idle"
           /\ local'[t].then = "closing" => phase = "closing",
         covers[t] # 0 => \/ where \in {"return", "closing"}
                          \/ /\ where \in {"stop", "lock", "flush"}
                             /\ local'[t].then \in {"return", "closing"}
  PROVE  Control'
  <1>1. /\ pc'[t] = where /\ \A s \in Threads : s # t => pc'[s] = pc[s]
    BY DEF Goto, LevelStep, IInv, TypeOK
  <1>2. ClosesAlone /\ LevelControl
    BY DEF LevelStep, IInv, Control
  <1>3. ClosesAlone'
    BY <1>1, <1>2 DEF ClosesAlone
  <1>4. LevelControl'
    BY <1>1, <1>2 DEF LevelControl, Stopping
  <1>5. QED
    BY <1>3, <1>4, LevelControlEnough

\* A thread's call returns, and it has nothing left to cover.
LEMMA CallReturns ==
  ASSUME LevelStep, NEW t \in Threads, Goto(t, "idle"), UNCHANGED local,
         covers'[t] = 0, \A s \in Threads : s # t => covers'[s] = covers[s],
         phase' = phase \/ (phase = "closing" /\ pc[t] # "idle" /\ phase' = "closed")
  PROVE  Control'
  <1>1. /\ pc'[t] = "idle" /\ \A s \in Threads : s # t => pc'[s] = pc[s]
    BY DEF Goto, LevelStep, IInv, TypeOK
  <1>2. ClosesAlone /\ LevelControl
    BY DEF LevelStep, IInv, Control
  <1>3. ClosesAlone'
    BY <1>1, <1>2 DEF ClosesAlone
  <1>4. phase' # phase => \A s \in Threads : pc'[s] = "idle"
    BY <1>1, <1>2 DEF ClosesAlone
  <1>5. LevelControl'
    BY <1>1, <1>2, <1>4 DEF LevelControl, Stopping
  <1>6. QED
    BY <1>3, <1>5, LevelControlEnough

\* A thread that has found room in the batch: with the l records in the batch, the
\* a threads about to add one and the u that have not counted theirs yet.
LEMMA RoomForOne ==
  ASSUME NEW l \in Nat, NEW a \in Nat, NEW u \in Nat, NEW size \in Nat, NEW threads \in Nat,
         NEW limit \in Nat, NEW max \in Nat,
         size + 1 < max, limit >= max - 1, a + u + 1 <= threads, l <= size + u
  PROVE  l + (a + 1) <= limit + threads - 1
  OBVIOUS

\* A thread that adds its record.
LEMMA OneAdded ==
  ASSUME NEW l \in Nat, NEW a \in Nat, NEW u \in Nat, NEW size \in Nat, NEW threads \in Nat,
         NEW limit \in Nat, l + a <= limit + threads - 1, l <= size + u
  PROVE  (l + 1) + (a - 1) <= limit + threads - 1 /\ l + 1 <= size + (u + 1)
  OBVIOUS

\* BatchMutation keeps the invariant.
LEMMA BatchMutationIInv ==
  ASSUME LevelStep, NEW t \in Threads, NEW k \in Keys, NEW size \in Sizes \cup {0},
         NEW flush \in BOOLEAN, BatchMutation(t, k, size, flush)
  PROVE  IInv'
  <1> DEFINE l == [key |-> k, size |-> size, futureSize |-> batchSize + 1,
                   futureBytes |-> batchBytes + size, old |-> 0, then |-> "idle"]
             where == IF flush \/ size >= MaxBatchSize THEN "direct" ELSE "decide"
  <1> USE DEF LevelStep, IInv, BatchMutation, batchVars, counters, history
  <1>1. size \in Nat /\ batchSize \in Nat /\ batchBytes \in Nat
    BY LimitAssumption DEF TypeOK
  <1>2. /\ l \in LocalType /\ l.then = "idle" /\ l.futureSize = batchSize + 1
    BY <1>1 DEF LocalType
  <1>3. /\ pc' = [pc EXCEPT ![t] = where] /\ where \in {"direct", "decide"}
        /\ local' = [local EXCEPT ![t] = l] /\ pc[t] = "idle" /\ phase = "open"
        /\ UNCHANGED <<db, heap, batch, freed, batchSize, batchBytes, log, covers, acked, phase>>
    BY DEF Goto
  <1> HIDE DEF l, where, BatchMutation
  <1>4. /\ pc'[t] = where /\ local'[t] = l
        /\ \A s \in Threads : s # t => pc'[s] = pc[s] /\ local'[s] = local[s]
    BY <1>3 DEF TypeOK
  <1>5. TypeOK'
    <2>1. LocalType' = LocalType /\ Entry' = Entry
      BY <1>3 DEF LocalType, Entry
    <2>2. pc' \in [Threads -> PCs] /\ local' \in [Threads -> LocalType]
      BY <1>2, <1>3, TypeParts DEF PCs
    <2>3. QED
      BY <1>3, <2>1, <2>2, TypeParts, TypePartsNext
  <1>6. Control'
    <2>1. ClosesAlone'
      BY <1>3, <1>4 DEF Control, ClosesAlone
    <2>2. LevelControl'
      BY <1>2, <1>3, <1>4 DEF Control, LevelControl, Stopping
    <2>3. QED
      BY <2>1, <2>2, LevelControlEnough
  <1>7. BatchLength'
    <2> SUFFICES ASSUME batch' # 0 PROVE BatchLength'
      BY DEF BatchLength
    <2>1. Uncounted' = Uncounted /\ t \notin Uncounted /\ t \notin Adding
      BY <1>3, <1>4 DEF Uncounted, Adding
    <2>2. Adding' \subseteq Adding \cup {t}
      BY <1>4 DEF Adding, Full
    <2>3. CASE t \notin Adding'
      <3>1. Adding' \subseteq Adding
        BY <2>2, <2>3
      <3>2. QED
        BY <1>3, <2>1, <3>1, LengthKept
    <2>4. CASE t \in Adding'
      <3>1. Adding' = Adding \cup {t}
        BY <1>4, <2>1, <2>2, <2>4 DEF Adding, Full
      <3>2. batchSize + 1 < MaxBatchSize
        BY <1>1, <1>2, <1>3, <1>4, <2>4, LimitAssumption DEF Adding, Full
      <3>3. Adding \subseteq Threads /\ Uncounted \subseteq Threads
            /\ Adding \cap Uncounted = {}
        BY DEF Adding, Uncounted
      <3>4. Cardinality(Adding \cup Uncounted) = Cardinality(Adding) + Cardinality(Uncounted)
        <4>1. IsFiniteSet(Adding) /\ IsFiniteSet(Uncounted)
              /\ Cardinality(Adding) \in Nat /\ Cardinality(Uncounted) \in Nat
          BY <3>3, CountsFinite
        <4>2. Cardinality(Adding \cup Uncounted)
                = Cardinality(Adding) + Cardinality(Uncounted) - Cardinality(Adding \cap Uncounted)
          BY <4>1, FS_Union
        <4>3. Cardinality(Adding \cap Uncounted) = 0
          BY <3>3, FS_EmptySet
        <4>4. QED
          BY <4>1, <4>2, <4>3
      <3>5. /\ Cardinality(Adding \cup Uncounted) + 1 <= Cardinality(Threads)
            /\ Cardinality(Adding') = Cardinality(Adding) + 1
        <4>1. (Adding \cup Uncounted) \cup {t} \in SUBSET Threads /\ t \notin Adding \cup Uncounted
          BY <2>1, <3>3
        <4>2. Cardinality((Adding \cup Uncounted) \cup {t}) = Cardinality(Adding \cup Uncounted) + 1
          BY <3>3, <4>1, CountsFinite
        <4>3. QED
          BY <2>1, <3>1, <3>3, <4>1, <4>2, CountsFinite
      <3>6. Len(heap[batch]) \in Nat
        BY <1>3 DEF TypeOK
      <3>7. /\ Cardinality(Adding) \in Nat /\ Cardinality(Uncounted) \in Nat
            /\ Cardinality(Threads) \in Nat
        BY <3>3, CountsFinite
      <3>8. Len(heap[batch]) <= batchSize + Cardinality(Uncounted)
        BY <1>3 DEF BatchLength
      <3>9. Len(heap[batch]) + Cardinality(Adding')
              <= Max({1, MaxBatchSize - 1}) + Cardinality(Threads) - 1
        <4>1. /\ Max({1, MaxBatchSize - 1}) \in Nat /\ Max({1, MaxBatchSize - 1}) >= MaxBatchSize - 1
              /\ MaxBatchSize \in Nat /\ batchSize \in Nat
          BY <1>1, LimitPositive, LimitAssumption DEF TypeOK
        <4>2. Cardinality(Adding) + Cardinality(Uncounted) + 1 <= Cardinality(Threads)
          BY <3>4, <3>5
        <4>3. Len(heap[batch]) + (Cardinality(Adding) + 1)
                <= Max({1, MaxBatchSize - 1}) + Cardinality(Threads) - 1
          BY <3>2, <3>6, <3>7, <3>8, <4>1, <4>2, RoomForOne
        <4>4. QED
          BY <3>5, <4>3
      <3>10. QED
        BY <1>3, <2>1, <3>8, <3>9 DEF BatchLength
    <2>5. QED
      BY <2>3, <2>4
  <1>8. QED
    BY <1>5, <1>6, <1>7

\* The two tests of _batchMutation and the read of the pointer in stopBatch
\* change only the thread that makes them.
LEMMA TestIInv ==
  ASSUME LevelStep, NEW t \in Threads, TestDirect(t) \/ TestFull(t) \/ StopRead(t)
  PROVE  IInv'
  <1> USE DEF LevelStep, IInv, batchVars, counters, history
  <1> DEFINE l == local'[t]
             where == pc'[t]
  <1>1. UNCHANGED <<db, heap, batch, freed, batchSize, batchBytes, log, covers, acked, phase>>
    BY DEF TestDirect, TestFull, StopRead
  <1>2. /\ where \in PCs /\ Goto(t, where) /\ \A s \in Threads : s # t => local'[s] = local[s]
        /\ local' \in [Threads -> LocalType]
        /\ \A s \in Threads : s # t => pc'[s] = pc[s]
    <2>1. pc \in [Threads -> PCs] /\ local \in [Threads -> LocalType]
          /\ batch \in {0} \cup DOMAIN heap
      BY TypeParts
    <2>2. /\ \E w \in PCs : pc' = [pc EXCEPT ![t] = w]
          /\ \/ \E th \in {"write", "add"} : local' = [local EXCEPT ![t].then = th]
             \/ local' = [local EXCEPT ![t].old = batch]
      BY DEF TestDirect, TestFull, StopRead, Goto, PCs
    <2>3. local' \in [Threads -> LocalType]
      BY <2>1, <2>2 DEF LocalType
    <2>4. QED
      BY <2>1, <2>2, <2>3 DEF Goto
  <1>3. \/ /\ pc[t] = "direct" /\ where \in {"stop", "write"} /\ l.then = "write"
        \/ /\ pc[t] = "decide" /\ where \in {"stop", "add"} /\ l.then = "add"
           /\ where = "add" => batch = 0 \/ ~Full(local[t])
        \/ /\ pc[t] = "stop" /\ where = "lock" /\ l.then = local[t].then
    BY TypeParts DEF TestDirect, TestFull, StopRead, Goto, LocalType
  <1>4. TypeOK'
    <2>1. LocalType' = LocalType /\ Entry' = Entry
      BY <1>1 DEF LocalType, Entry
    <2>2. pc' \in [Threads -> PCs]
      BY <1>2, TypeParts DEF Goto
    <2>3. QED
      BY <1>1, <1>2, <2>1, <2>2, TypeParts, TypePartsNext
  <1>5. Control'
    <2>1. LevelControl
      BY DEF Control
    <2>2. covers[t] # 0 => \/ where \in {"return", "closing"}
                           \/ /\ where \in {"stop", "lock", "flush"}
                              /\ local'[t].then \in {"return", "closing"}
      BY <1>3, <2>1 DEF LevelControl, Stopping
    <2>3. where \in {"stop", "lock", "flush"} =>
            /\ local'[t].then # "idle"
            /\ local'[t].then = "closing" => phase = "closing"
      BY <1>3, <2>1 DEF LevelControl, Stopping
    <2>4. pc[t] # "idle" /\ where # "idle" /\ where # "closing"
      BY <1>3
    <2> HIDE DEF where
    <2>5. QED
      BY <1>1, <1>2, <2>2, <2>3, <2>4, InsideCall
  <1>6. BatchLength'
    <2>1. Uncounted' = Uncounted
      BY <1>2, <1>3 DEF Uncounted
    <2>2. batch # 0 => Adding' \subseteq Adding
      BY <1>2, <1>3 DEF Adding, Full
    <2>3. QED
      BY <1>1, <2>1, <2>2, LengthKept
  <1>7. QED
    BY <1>4, <1>5, <1>6

\* WriteDirect keeps the invariant.
LEMMA WriteDirectIInv ==
  ASSUME LevelStep, NEW t \in Threads, WriteDirect(t)
  PROVE  IInv'
  <1> USE DEF LevelStep, IInv, WriteDirect, batchVars, counters, history
  <1> DEFINE m == [key |-> local[t].key, number |-> Len(log) + 1]
  <1>1. local[t].key \in Keys
    BY DEF TypeOK
  <1>2. /\ log' \in Seq(Keys) /\ db \in Seq(Entry') /\ heap \in Seq(Seq(Entry'))
        /\ covers \in [Threads -> 0 .. Len(log')] /\ acked \in 0 .. Len(log') /\ m \in Entry'
    BY <1>1, LogGrows
  <1>3. TypeOK'
    <2>1. db' \in Seq(Entry')
      BY <1>2
    <2>2. LocalType' = LocalType
      BY DEF LocalType
    <2>3. pc' \in [Threads -> PCs]
      BY TypeParts DEF Goto, PCs
    <2>4. QED
      BY <1>2, <2>1, <2>2, <2>3, TypeParts, TypePartsNext
  <1>4. Control'
    <2>1. covers[t] = 0
      BY DEF Control, LevelControl, Stopping
    <2>2. QED
      BY <2>1, CallReturns
  <1>5. BatchLength'
    <2>1. pc'[t] = "idle" /\ \A s \in Threads : s # t => pc'[s] = pc[s]
      BY DEF Goto, TypeOK
    <2>2. Uncounted' = Uncounted
      BY <2>1 DEF Uncounted
    <2>3. Adding' \subseteq Adding
      BY <2>1 DEF Adding, Full
    <2>4. QED
      BY <2>2, <2>3, LengthKept
  <1>6. QED
    BY <1>3, <1>4, <1>5

\* AddToBatch keeps the invariant.
LEMMA AddToBatchIInv ==
  ASSUME LevelStep, NEW t \in Threads, AddToBatch(t)
  PROVE  IInv'
  <1> USE DEF LevelStep, IInv, counters, history
  <1> DEFINE m == [key |-> local[t].key, number |-> Len(log) + 1]
  <1>1. local[t].key \in Keys
    BY DEF TypeOK
  <1>2. /\ log' \in Seq(Keys) /\ db \in Seq(Entry') /\ heap \in Seq(Seq(Entry'))
        /\ covers \in [Threads -> 0 .. Len(log')] /\ acked \in 0 .. Len(log') /\ m \in Entry'
    BY <1>1, LogGrows DEF AddToBatch
  <1>3. /\ pc[t] = "add" /\ pc'[t] = "count" /\ \A s \in Threads : s # t => pc'[s] = pc[s]
        /\ Goto(t, "count")
        /\ UNCHANGED <<db, freed, batchSize, batchBytes, local, covers, acked, phase>>
    BY DEF AddToBatch, Goto, TypeOK
  <1>4. /\ heap' \in Seq(Seq(Entry')) /\ DOMAIN heap \subseteq DOMAIN heap'
        /\ batch' \in DOMAIN heap' /\ batch' # 0
        /\ batch = 0 => Len(heap'[batch']) = 1
        /\ batch # 0 => batch' = batch /\ Len(heap'[batch]) = Len(heap[batch]) + 1
                        /\ Len(heap[batch]) \in Nat
    <2>1. CASE batch = 0
      <3>1. heap' = Append(heap, <<m>>) /\ batch' = Len(heap) + 1
        BY <2>1 DEF AddToBatch
      <3>2. <<m>> \in Seq(Entry') /\ Len(<<m>>) = 1
        BY <1>2
      <3> HIDE DEF m
      <3>3. QED
        BY <1>2, <2>1, <3>1, <3>2
    <2>2. CASE batch # 0
      <3>1. heap' = [heap EXCEPT ![batch] = Append(heap[batch], m)] /\ batch' = batch
        BY <2>2 DEF AddToBatch
      <3>2. batch \in DOMAIN heap
        BY <2>2 DEF TypeOK
      <3>3. /\ heap[batch] \in Seq(Entry') /\ Append(heap[batch], m) \in Seq(Entry')
            /\ Len(Append(heap[batch], m)) = Len(heap[batch]) + 1 /\ Len(heap[batch]) \in Nat
        BY <1>2, <3>2
      <3> HIDE DEF m
      <3>4. heap' \in Seq(Seq(Entry')) /\ DOMAIN heap' = DOMAIN heap
        <4>1. heap \in Seq(Seq(Entry')) /\ batch \in 1 .. Len(heap)
          BY <1>2, <3>2
        <4>2. QED
          BY <3>1, <3>3, <4>1, ExceptSeq
      <3>5. QED
        BY <2>2, <3>1, <3>2, <3>3, <3>4
    <2>3. QED
      BY <2>1, <2>2
  <1>5. TypeOK'
    <2>1. local' \in [Threads -> LocalType']
      BY <1>3, <1>4, TypeParts DEF LocalType
    <2>2. pc' \in [Threads -> PCs]
      BY <1>3, TypeParts DEF Goto, PCs
    <2>3. QED
      BY <1>2, <1>3, <1>4, <2>1, <2>2, TypeParts, TypePartsNext
  <1>6. Control'
    <2>1. covers[t] = 0
      BY <1>3 DEF Control, LevelControl, Stopping
    <2>2. QED
      BY <1>3, <2>1, InsideCall
  <1>7. BatchLength'
    <2>1. /\ Adding \subseteq Threads /\ Uncounted \subseteq Threads
          /\ t \in Adding /\ t \notin Uncounted
          /\ Adding' = Adding \ {t} /\ Uncounted' = Uncounted \cup {t}
      BY <1>3 DEF Adding, Uncounted, Full
    <2>2. /\ Cardinality(Adding') = Cardinality(Adding) - 1
          /\ Cardinality(Uncounted') = Cardinality(Uncounted) + 1
          /\ Cardinality(Adding) \in Nat /\ Cardinality(Uncounted) \in Nat
          /\ Cardinality(Adding) <= Cardinality(Threads) /\ Cardinality(Threads) \in Nat
      BY <2>1, CountsFinite
    <2>3. batchSize \in Nat
      BY DEF TypeOK
    <2>4. CASE batch = 0
      <3>1. Len(heap'[batch']) = 1
        BY <1>4, <2>4
      <3>2. /\ 1 + Cardinality(Adding') <= Max({1, MaxBatchSize - 1}) + Cardinality(Threads) - 1
            /\ 1 <= batchSize + Cardinality(Uncounted')
        BY <2>2, <2>3, LimitPositive
      <3>3. QED
        BY <1>3, <3>1, <3>2 DEF BatchLength
    <2>5. CASE batch # 0
      <3>1. /\ Len(heap[batch]) + Cardinality(Adding)
                 <= Max({1, MaxBatchSize - 1}) + Cardinality(Threads) - 1
            /\ Len(heap[batch]) <= batchSize + Cardinality(Uncounted)
        BY <2>5 DEF BatchLength
      <3>2. batch' = batch /\ Len(heap'[batch']) = Len(heap[batch]) + 1 /\ Len(heap[batch]) \in Nat
        BY <1>4, <2>5
      <3>3. /\ Len(heap'[batch']) + Cardinality(Adding')
                 <= Max({1, MaxBatchSize - 1}) + Cardinality(Threads) - 1
            /\ Len(heap'[batch']) <= batchSize + Cardinality(Uncounted')
        <4>1. Max({1, MaxBatchSize - 1}) \in Nat
          BY LimitPositive
        <4>2. /\ (Len(heap[batch]) + 1) + (Cardinality(Adding) - 1)
                   <= Max({1, MaxBatchSize - 1}) + Cardinality(Threads) - 1
              /\ Len(heap[batch]) + 1 <= batchSize + (Cardinality(Uncounted) + 1)
          BY <2>2, <2>3, <3>1, <3>2, <4>1, OneAdded
        <4>3. QED
          BY <2>2, <3>2, <4>2
      <3>4. QED
        BY <1>3, <3>3 DEF BatchLength
    <2>6. QED
      BY <2>4, <2>5
  <1>8. QED
    BY <1>5, <1>6, <1>7

\* UpdateCounters keeps the invariant.
LEMMA UpdateCountersIInv ==
  ASSUME LevelStep, NEW t \in Threads, UpdateCounters(t)
  PROVE  IInv'
  <1> USE DEF LevelStep, IInv, UpdateCounters, batchVars, history
  <1>1. pc'[t] = "idle" /\ \A s \in Threads : s # t => pc'[s] = pc[s]
    BY DEF Goto, TypeOK
  <1>2. TypeOK'
    <2>1. LocalType' = LocalType /\ Entry' = Entry
      BY DEF LocalType, Entry
    <2>2. pc' \in [Threads -> PCs]
      BY TypeParts DEF Goto, PCs
    <2>3. batchSize' \in Nat /\ batchBytes' \in Nat
      BY DEF TypeOK
    <2>4. QED
      BY <2>1, <2>2, <2>3, TypeParts, TypePartsNext
  <1>3. Control'
    <2>1. covers[t] = 0
      BY DEF Control, LevelControl, Stopping
    <2>2. QED
      BY <2>1, CallReturns
  <1>4. BatchLength'
    <2>1. /\ Uncounted \subseteq Threads /\ t \in Uncounted /\ Uncounted' = Uncounted \ {t}
          /\ Adding' = Adding
      BY <1>1 DEF Adding, Uncounted, Full
    <2>2. Cardinality(Uncounted') = Cardinality(Uncounted) - 1 /\ Cardinality(Uncounted) \in Nat
      BY <2>1, CountsFinite
    <2>3. batchSize \in Nat /\ (batch # 0 => Len(heap[batch]) \in Nat)
      BY DEF TypeOK
    <2>4. QED
      BY <2>1, <2>2, <2>3 DEF BatchLength
  <1>5. QED
    BY <1>2, <1>3, <1>4

\* Under the mutex, and after it, stopBatch empties the batch.
LEMMA StopIInv ==
  ASSUME LevelStep, NEW t \in Threads, StopLock(t) \/ StopWrite(t)
  PROVE  IInv'
  <1> USE DEF LevelStep, IInv, batchVars, counters, history
  <1> DEFINE where == pc'[t]
  <1>1. /\ UNCHANGED <<heap, log, local, covers, acked, phase>>
        /\ pc[t] \in {"lock", "flush"} /\ local[t].then # "idle"
    BY DEF StopLock, StopWrite, Control, LevelControl, Stopping
  <1>2. /\ where \in {"flush", local[t].then} /\ Goto(t, where)
        /\ \A s \in Threads : s # t => pc'[s] = pc[s]
    BY DEF StopLock, StopWrite, Goto, TypeOK
  <1>3. batch' # 0 => batch' = batch /\ batchSize' = batchSize /\ pc[t] = "flush"
                      /\ where = local[t].then
    BY DEF StopLock, StopWrite, Goto, TypeOK
  <1>4. TypeOK'
    <2>1. LocalType' = LocalType /\ Entry' = Entry
      BY <1>1 DEF LocalType, Entry
    <2>2. pc' \in [Threads -> PCs]
      BY <1>2, TypeParts DEF Goto, PCs, LocalType
    <2>3. /\ batch' \in {0} \cup DOMAIN heap /\ batchSize' \in Nat /\ batchBytes' \in Nat
          /\ freed' \subseteq DOMAIN heap
      <3>1. /\ batch \in {0} \cup DOMAIN heap /\ batchSize \in Nat /\ batchBytes \in Nat
            /\ freed \subseteq DOMAIN heap /\ local[t].old \in {0} \cup DOMAIN heap
        BY DEF TypeOK
      <3>2. freed' \subseteq DOMAIN heap
        BY <3>1 DEF StopLock, StopWrite
      <3>3. QED
        BY <3>1, <3>2 DEF StopLock, StopWrite
    <2>4. db' \in Seq(Entry)
      <3>1. db \in Seq(Entry) /\ heap \in Seq(Seq(Entry)) /\ local[t].old \in {0} \cup DOMAIN heap
        BY TypeParts DEF LocalType
      <3>2. local[t].old # 0 => heap[local[t].old] \in Seq(Entry)
        BY <3>1
      <3>3. Written(local[t].old) \in Seq(Entry)
        BY <3>1, <3>2 DEF Written
      <3>4. QED
        BY <3>1, <3>3 DEF StopLock, StopWrite
    <2>5. QED
      BY <1>1, <2>1, <2>2, <2>3, <2>4, TypeParts, TypePartsNext
  <1>5. Control'
    <2>1. LevelControl
      BY DEF Control
    <2>2. covers[t] # 0 => \/ where \in {"return", "closing"}
                           \/ /\ where \in {"stop", "lock", "flush"}
                              /\ local'[t].then \in {"return", "closing"}
      BY <1>1, <1>2, <2>1 DEF LevelControl, Stopping
    <2>3. where \in {"stop", "lock", "flush"} =>
            /\ local'[t].then # "idle"
            /\ local'[t].then = "closing" => phase = "closing"
      BY <1>1, <1>2, <2>1 DEF LevelControl, Stopping
    <2>4. pc[t] # "idle" /\ where # "idle" /\ (where = "closing" => phase = "closing")
      BY <1>1, <1>2, <2>1 DEF LevelControl, Stopping
    <2> HIDE DEF where
    <2>5. QED
      BY <1>1, <1>2, <2>2, <2>3, <2>4, InsideCall
  <1>6. BatchLength'
    <2>1. local[t].then \in {"idle", "return", "write", "add", "closing"}
      BY DEF TypeOK
    <2>2. batch' # 0 => Uncounted' = Uncounted
      BY <1>2, <1>3, <2>1 DEF Uncounted
    <2>3. batch' # 0 => Adding' \subseteq Adding
      BY <1>1, <1>2, <1>3, <2>1 DEF Adding, Full
    <2>4. QED
      BY <1>1, <1>3, <2>2, <2>3, LengthKept
  <1>7. QED
    BY <1>4, <1>5, <1>6

\* A barrier and close begin.
LEMMA BarrierIInv ==
  ASSUME LevelStep, NEW t \in Threads, Barrier(t) \/ Close(t)
  PROVE  IInv'
  <1> USE DEF LevelStep, IInv, batchVars, counters
  <1> DEFINE l == local'[t]
  <1>1. /\ UNCHANGED <<db, heap, batch, freed, batchSize, batchBytes, log, acked>>
        /\ pc[t] = "idle" /\ phase = "open" /\ phase' \in {"open", "closing"}
        /\ phase' = "closing" => \A s \in Threads : pc[s] = "idle"
    BY DEF Barrier, Close
  <1>2. l \in LocalType /\ l.then = IF phase' = "open" THEN "return" ELSE "closing"
    <2>1. \A then \in {"return", "closing"} :
             /\ [NoLocal EXCEPT !.then = then] \in LocalType
             /\ [NoLocal EXCEPT !.then = then].then = then
      BY NoLocalType DEF LocalType
    <2>2. l = [NoLocal EXCEPT !.then = IF phase' = "open" THEN "return" ELSE "closing"]
      BY TypeParts DEF Barrier, Close
    <2>3. QED
      BY <1>1, <2>1, <2>2
  <1>3. /\ pc' = [pc EXCEPT ![t] = "stop"] /\ pc'[t] = "stop"
        /\ covers' = [covers EXCEPT ![t] = Len(log)]
        /\ local' = [local EXCEPT ![t] = l]
        /\ \A s \in Threads : s # t => /\ pc'[s] = pc[s] /\ local'[s] = local[s]
                                       /\ covers'[s] = covers[s]
    BY DEF Barrier, Close, Goto, TypeOK
  <1>4. TypeOK'
    <2>1. LocalType' = LocalType /\ Entry' = Entry
      BY <1>1 DEF LocalType, Entry
    <2>2. pc' \in [Threads -> PCs]
      BY <1>3, TypeParts DEF PCs
    <2>3. local' \in [Threads -> LocalType] /\ covers' \in [Threads -> 0 .. Len(log)]
      <3>1. local \in [Threads -> LocalType] /\ covers \in [Threads -> 0 .. Len(log)] /\ Len(log) \in Nat
        BY TypeParts
      <3>2. Len(log) \in 0 .. Len(log)
        BY <3>1
      <3> HIDE DEF l
      <3>3. local' \in [Threads -> LocalType]
        BY <1>2, <1>3, <3>1
      <3>4. covers' \in [Threads -> 0 .. Len(log)]
        BY <1>3, <3>1, <3>2
      <3>5. QED
        BY <3>3, <3>4
    <2>4. QED
      BY <1>1, <2>1, <2>2, <2>3, TypeParts, TypePartsNext
  <1>5. Control'
    <2>1. ClosesAlone'
      BY <1>1, <1>3 DEF Control, ClosesAlone
    <2>2. LevelControl'
      BY <1>1, <1>2, <1>3 DEF Control, LevelControl, Stopping
    <2>3. QED
      BY <2>1, <2>2, LevelControlEnough
  <1>6. BatchLength'
    <2>1. Uncounted' = Uncounted /\ Adding' \subseteq Adding
      BY <1>1, <1>3 DEF Uncounted, Adding, Full
    <2>2. QED
      BY <1>1, <2>1, LengthKept
  <1>7. QED
    BY <1>4, <1>5, <1>6

\* A barrier and close return.
LEMMA BarrierReturnIInv ==
  ASSUME LevelStep, NEW t \in Threads, BarrierReturn(t) \/ CloseDB(t)
  PROVE  IInv'
  <1> USE DEF LevelStep, IInv, batchVars, counters
  <1>1. /\ UNCHANGED <<db, heap, batch, freed, batchSize, batchBytes, log, local>>
        /\ pc[t] \in {"return", "closing"} /\ Goto(t, "idle") /\ pc'[t] = "idle"
        /\ acked' = Max({acked, covers[t]}) /\ covers' = [covers EXCEPT ![t] = 0]
        /\ \A s \in Threads : s # t => pc'[s] = pc[s] /\ covers'[s] = covers[s]
        /\ covers'[t] = 0 /\ phase' \in {phase, "closed"}
    BY DEF BarrierReturn, CloseDB, Acknowledged, Goto, TypeOK
  <1>2. phase' = phase \/ (phase = "closing" /\ pc[t] # "idle" /\ phase' = "closed")
    BY DEF BarrierReturn, CloseDB, Control, ClosesAlone
  <1>3. TypeOK'
    <2>1. LocalType' = LocalType /\ Entry' = Entry
      BY <1>1 DEF LocalType, Entry
    <2>2. pc' \in [Threads -> PCs]
      BY <1>1, TypeParts DEF PCs, Goto
    <2>3. acked \in 0 .. Len(log) /\ covers[t] \in 0 .. Len(log) /\ Len(log) \in Nat
      BY DEF TypeOK
    <2>4. acked' = IF acked >= covers[t] THEN acked ELSE covers[t]
      BY <1>1, <2>3, MaxOfTwo
    <2>5. acked' \in 0 .. Len(log) /\ covers' \in [Threads -> 0 .. Len(log)]
      BY <1>1, <2>3, <2>4, TypeParts
    <2>6. QED
      BY <1>1, <2>1, <2>2, <2>5, TypeParts, TypePartsNext
  <1>4. Control'
    BY <1>1, <1>2, CallReturns
  <1>5. BatchLength'
    <2>1. Uncounted' = Uncounted /\ Adding' \subseteq Adding
      BY <1>1 DEF Uncounted, Adding, Full
    <2>2. QED
      BY <1>1, <2>1, LengthKept
  <1>6. QED
    BY <1>3, <1>4, <1>5

\* The constructor, and the end of the process, start afresh.
LEMMA NewObjectParts ==
  ASSUME NewObject
  PROVE  /\ heap' \in Seq(Seq(Entry')) /\ freed' \subseteq DOMAIN heap'
         /\ batch' = 0 /\ batch' \in {0} \cup DOMAIN heap'
         /\ batchSize' \in Nat /\ batchBytes' \in Nat
         /\ local' \in [Threads -> LocalType'] /\ BatchLength'
  <1>1. NoLocal \in LocalType'
    <2>1. (CHOOSE k \in Keys : TRUE) \in Keys
      BY KeyAssumption
    <2>2. QED
      BY <2>1 DEF NoLocal, LocalType
  <1>2. QED
    BY <1>1 DEF NewObject, BatchLength

\* Open keeps the invariant.
LEMMA OpenIInv ==
  ASSUME LevelStep, NEW overWrite \in BOOLEAN, Open(overWrite)
  PROVE  IInv'
  <1> USE DEF LevelStep, IInv, Open
  <1>1. \A t \in Threads : pc[t] = "idle" /\ pc'[t] = "idle" /\ covers[t] = 0
    BY DEF Control, ClosesAlone, LevelControl, Stopping
  <1>2. /\ db' \in Seq(Entry') /\ log' \in Seq(Keys) /\ acked' \in 0 .. Len(log')
        /\ covers' \in [Threads -> 0 .. Len(log')]
    <2>1. CASE overWrite
      <3>1. db' = <<>> /\ log' = <<>> /\ acked' = 0 /\ covers' = covers
        BY <2>1 DEF DbCleanup
      <3>2. covers' \in [Threads -> 0 .. 0]
        BY <1>1, <3>1, TypeParts
      <3>3. QED
        BY <3>1, <3>2
    <2>2. CASE ~overWrite
      BY <2>2, TypeParts DEF Entry
    <2>3. QED
      BY <2>1, <2>2
  <1>3. TypeOK' /\ BatchLength'
    BY <1>2, NewObjectParts, TypeParts, TypePartsNext
  <1>4. Control'
    <2>1. ClosesAlone'
      BY <1>1 DEF Control, ClosesAlone
    <2>2. LevelControl'
      BY <1>1 DEF Control, LevelControl, Stopping
    <2>3. QED
      BY <2>1, <2>2, LevelControlEnough
  <1>5. QED
    BY <1>3, <1>4

\* Crash keeps the invariant.
LEMMA CrashIInv ==
  ASSUME LevelStep, Crash
  PROVE  IInv'
  <1> USE DEF LevelStep, IInv, Crash
  <1>1. /\ pc' = [t \in Threads |-> "idle"] /\ covers' = [t \in Threads |-> 0]
        /\ \A t \in Threads : pc'[t] = "idle" /\ covers'[t] = 0
    OBVIOUS
  <1>2. /\ log' \in Seq(Keys) /\ Len(log') = Len(db) /\ Len(db) \in Nat
        /\ db' \in Seq(Entry')
    <2>1. db \in Seq(Entry) /\ Len(db) \in Nat /\ DOMAIN db = 1 .. Len(db)
      BY TypeParts
    <2>2. \A n \in 1 .. Len(db) : db[n].key \in Keys /\ db[n] \in Entry
      <3>1. \A n \in 1 .. Len(db) : db[n] \in Entry
        BY <2>1
      <3>2. QED
        BY <3>1 DEF Entry
    <2>3. log' \in Seq(Keys) /\ Len(log') = Len(db)
      BY <2>1, <2>2
    <2>4. \A n \in 1 .. Len(db) : [db[n] EXCEPT !.number = n] \in Entry'
      BY <2>2, <2>3 DEF Entry
    <2>5. db' \in Seq(Entry')
      BY <2>1, <2>4
    <2>6. QED
      BY <2>1, <2>3, <2>5
  <1>3. /\ pc' \in [Threads -> PCs] /\ covers' \in [Threads -> 0 .. Len(log')]
        /\ acked' \in 0 .. Len(log')
    BY <1>1, <1>2 DEF PCs
  <1>4. TypeOK' /\ BatchLength'
    BY <1>2, <1>3, NewObjectParts, TypeParts, TypePartsNext
  <1>5. Control'
    <2>1. ClosesAlone'
      BY <1>1 DEF Control, ClosesAlone
    <2>2. LevelControl'
      BY <1>1 DEF Control, LevelControl, Stopping
    <2>3. QED
      BY <2>1, <2>2, LevelControlEnough
  <1>6. QED
    BY <1>4, <1>5

\* Every step of LevelDB's back end keeps the invariant.
LEMMA LevelNextIInv ==
  ASSUME LevelStep, Next
  PROVE  IInv'
  BY BatchMutationIInv, TestIInv, WriteDirectIInv, AddToBatchIInv, UpdateCountersIInv,
     StopIInv, BarrierIInv, BarrierReturnIInv, OpenIInv, CrashIInv DEF Next
-----------------------------------------------------------------------------
(***************************************************************************)
(* The steps of the RocksDB back end.                                      *)
(***************************************************************************)
RocksStep ==
  /\ IInv /\ storageType = "RocksDB"
  /\ UNCHANGED <<storageType, heap, batch, freed, batchSize, batchBytes, local>>

\* The greater of two numbers, in RocksStore's terms.
LEMMA RocksMax ==
  ASSUME NEW a \in Int, NEW b \in Int
  PROVE  Rocks!Max({a, b}) = IF a >= b THEN a ELSE b
  BY DEF Rocks!Max

\* What RocksDB has saved is the beginning of the history.
LEMMA SavedPrefix ==
  ASSUME log' \in Seq(Keys), NEW n \in 0 .. Len(log'), db' = Rocks!Saved(n, log')
  PROVE  db' \in Seq(Entry') /\ Len(db') = n /\ DbPrefix'
  <1>1. Len(log') \in Nat /\ \A i \in 1 .. n : i \in 1 .. Len(log') /\ log'[i] \in Keys
    OBVIOUS
  <1>2. /\ db' = [i \in 1 .. n |-> [key |-> log'[i], number |-> i]]
    BY DEF Rocks!Saved, Rocks!Mutation
  <1>3. \A i \in 1 .. n : [key |-> log'[i], number |-> i] \in Entry'
    BY <1>1 DEF Entry
  <1>4. db' \in Seq(Entry') /\ Len(db') = n
    BY <1>2, <1>3
  <1>5. QED
    BY <1>1, <1>2, <1>4 DEF DbPrefix

\* The part of the invariant a step of RocksDB's back end can disturb.
LEMMA RocksEnough ==
  ASSUME RocksStep, enableWAL' \in BOOLEAN,
         log' \in Seq(Keys), db' \in Seq(Entry'), DbPrefix', AckedInDb',
         phase' \in {"open", "closing", "closed"},
         pc' \in [Threads -> {"idle", "flush", "return", "closing"}],
         covers' \in [Threads -> 0 .. Len(log')], acked' \in Nat,
         \A t \in Threads : pc'[t] = "idle" => covers'[t] = 0,
         ClosesAlone'
  PROVE  IInv'
  <1> USE DEF RocksStep, IInv
  <1>1. heap = <<>> /\ freed = {} /\ batch = 0
    BY DEF Control, RocksControl
  <1>2. acked' \in 0 .. Len(log')
    BY DEF AckedInDb, DbPrefix
  <1>3. LocalType' = LocalType /\ local' \in [Threads -> LocalType']
    BY TypeParts DEF LocalType
  <1>4. pc' \in [Threads -> PCs]
    BY DEF PCs
  <1>5. heap' \in Seq(Seq(Entry')) /\ freed' \subseteq DOMAIN heap' /\ batch' \in {0} \cup DOMAIN heap'
    BY <1>1
  <1>6. TypeOK'
    BY <1>2, <1>3, <1>4, <1>5, TypeParts, TypePartsNext
  <1>7. Control'
    <2>1. RocksControl'
      BY <1>1 DEF RocksControl
    <2>2. QED
      BY <2>1 DEF Control, StorageTypes
  <1>8. BatchLength'
    BY <1>1 DEF BatchLength
  <1>9. QED
    BY <1>6, <1>7, <1>8

\* What the invariant says of the state before the step.
LEMMA RocksBefore ==
  ASSUME RocksStep
  PROVE  /\ log \in Seq(Keys) /\ Len(log) \in Nat /\ db \in Seq(Entry) /\ Len(db) \in Nat
         /\ Len(db) <= Len(log) /\ DbPrefix /\ AckedInDb
         /\ pc \in [Threads -> {"idle", "flush", "return", "closing"}]
         /\ covers \in [Threads -> 0 .. Len(log)] /\ acked \in Nat
         /\ phase \in {"open", "closing", "closed"} /\ ClosesAlone /\ enableWAL \in BOOLEAN
         /\ \A t \in Threads : pc[t] = "idle" => covers[t] = 0
  <1> USE DEF RocksStep, IInv
  <1>1. DbPrefix /\ AckedInDb /\ RocksControl /\ ClosesAlone /\ enableWAL \in BOOLEAN
    BY DEF Control
  <1>2. /\ log \in Seq(Keys) /\ Len(log) \in Nat /\ db \in Seq(Entry) /\ Len(db) \in Nat
        /\ pc \in [Threads -> PCs] /\ covers \in [Threads -> 0 .. Len(log)] /\ acked \in Nat
        /\ phase \in {"open", "closing", "closed"}
    BY TypeParts
  <1>3. pc \in [Threads -> {"idle", "flush", "return", "closing"}]
    BY <1>1, <1>2 DEF RocksControl
  <1>4. QED
    BY <1>1, <1>2, <1>3 DEF DbPrefix, RocksControl

\* RocksMutation keeps the invariant.
LEMMA RocksMutationIInv ==
  ASSUME RocksStep, NEW t \in Threads, NEW key \in Keys, Rocks!RocksMutation(t, key)
  PROVE  IInv'
  <1> USE DEF Rocks!RocksMutation
  <1>1. /\ log' \in Seq(Keys) /\ Len(log') = Len(log) + 1
        /\ \A i \in 1 .. Len(log) : log'[i] = log[i]
    BY RocksBefore
  <1>2. db' \in Seq(Entry') /\ DbPrefix' /\ Len(db) <= Len(db')
    <2>1. CASE enableWAL
      <3>1. db' = Rocks!Saved(Len(log'), log') /\ Len(log') \in 0 .. Len(log')
        BY <1>1, <2>1, RocksBefore
      <3>2. QED
        BY <1>1, <3>1, SavedPrefix, RocksBefore
    <2>2. CASE ~enableWAL
      <3>1. db' = db
        BY <2>2
      <3>2. Entry \subseteq Entry'
        BY <1>1, RocksBefore DEF Entry
      <3>3. db' \in Seq(Entry')
        BY <3>1, <3>2, SeqGrows, RocksBefore
      <3>4. DbPrefix'
        BY <1>1, <3>1, RocksBefore DEF DbPrefix
      <3>5. QED
        BY <3>1, <3>3, <3>4, RocksBefore
    <2>3. QED
      BY <2>1, <2>2, RocksBefore
  <1>3. Len(db') \in Nat
    BY <1>2
  <1>4. AckedInDb'
    BY <1>2, <1>3, RocksBefore DEF AckedInDb
  <1>5. covers' \in [Threads -> 0 .. Len(log')]
    BY <1>1, RocksBefore
  <1>6. ClosesAlone'
    BY RocksBefore DEF ClosesAlone
  <1>7. QED
    BY <1>1, <1>2, <1>4, <1>5, <1>6, RocksBefore, RocksEnough

\* RocksDB writes its memory, by itself or for a barrier.
LEMMA RocksFlushIInv ==
  ASSUME RocksStep,
         \/ Rocks!RocksWritesBuffer
         \/ \E t \in Threads : Rocks!RocksFlush(t)
  PROVE  IInv'
  <1>1. CASE Rocks!RocksWritesBuffer
    <2> USE <1>1 DEF Rocks!RocksWritesBuffer
    <2>1. PICK n \in Len(db) + 1 .. Len(log) : db' = Rocks!Saved(n, log)
      OBVIOUS
    <2>2. log' \in Seq(Keys) /\ n \in 0 .. Len(log') /\ db' = Rocks!Saved(n, log')
      BY <2>1, RocksBefore
    <2>3. db' \in Seq(Entry') /\ Len(db') = n /\ DbPrefix'
      BY <2>2, SavedPrefix
    <2>4. AckedInDb'
      BY <2>1, <2>3, RocksBefore DEF AckedInDb
    <2>5. ClosesAlone'
      BY RocksBefore DEF ClosesAlone
    <2>6. QED
      BY <2>2, <2>3, <2>4, <2>5, RocksBefore, RocksEnough
  <1>2. ASSUME NEW t \in Threads, Rocks!RocksFlush(t) PROVE IInv'
    <2> USE <1>2 DEF Rocks!RocksFlush
    <2> DEFINE n == Rocks!Max({Len(db), covers[t]})
    <2>1. covers[t] \in 0 .. Len(log) /\ Len(db) \in 0 .. Len(log)
      BY RocksBefore
    <2>2. n = IF Len(db) >= covers[t] THEN Len(db) ELSE covers[t]
      BY <2>1, RocksMax
    <2>3. /\ log' \in Seq(Keys) /\ n \in 0 .. Len(log') /\ db' = Rocks!Saved(n, log')
      BY <2>1, <2>2, RocksBefore
    <2>4. db' \in Seq(Entry') /\ Len(db') = n /\ DbPrefix'
      BY <2>3, SavedPrefix
    <2> HIDE DEF n
    <2>5. Len(db) <= Len(db') /\ covers[t] <= Len(db')
      BY <2>1, <2>2, <2>4
    <2>6. /\ pc[t] = "flush" /\ pc'[t] = IF phase = "closing" THEN "closing" ELSE "return"
          /\ \A s \in Threads : s # t => pc'[s] = pc[s]
          /\ pc' \in [Threads -> {"idle", "flush", "return", "closing"}]
          /\ UNCHANGED <<enableWAL, log, covers, acked, phase>>
      BY RocksBefore
    <2>7. AckedInDb'
      <3>1. Len(db') \in Nat
        BY <2>4
      <3>2. acked' <= Len(db')
        BY <2>5, <2>6, <3>1, RocksBefore DEF AckedInDb
      <3>3. ASSUME NEW s \in Threads, pc'[s] \in {"return", "closing"}
            PROVE  covers'[s] <= Len(db')
        <4>1. covers[s] \in Nat /\ Len(db) \in Nat
          BY RocksBefore
        <4>2. s # t => covers[s] <= Len(db)
          BY <2>6, <3>3, RocksBefore DEF AckedInDb
        <4>3. QED
          BY <2>5, <2>6, <3>1, <4>1, <4>2
      <3>4. QED
        BY <3>2, <3>3 DEF AckedInDb
    <2>8. ClosesAlone'
      BY <2>6, RocksBefore DEF ClosesAlone
    <2>9. QED
      BY <2>3, <2>4, <2>6, <2>7, <2>8, RocksBefore, RocksEnough
  <1>3. QED
    BY <1>1, <1>2

\* The beginnings of RocksDB's barrier and close keep the invariant.
LEMMA RocksBarrierIInv ==
  ASSUME RocksStep, NEW t \in Threads, Rocks!RocksBarrier(t) \/ Rocks!RocksClose(t)
  PROVE  IInv'
  <1>1. /\ UNCHANGED <<enableWAL, log, db, acked>> /\ pc[t] = "idle" /\ phase = "open"
        /\ pc' = [pc EXCEPT ![t] = "flush"] /\ covers' = [covers EXCEPT ![t] = Len(log)]
        /\ phase' \in {"open", "closing"}
        /\ phase' = "closing" => \A s \in Threads : pc[s] = "idle"
    BY DEF Rocks!RocksBarrier, Rocks!RocksClose
  <1>2. /\ pc' \in [Threads -> {"idle", "flush", "return", "closing"}]
        /\ covers' \in [Threads -> 0 .. Len(log')]
        /\ pc'[t] = "flush" /\ \A s \in Threads : s # t => pc'[s] = pc[s] /\ covers'[s] = covers[s]
    BY <1>1, RocksBefore
  <1>3. db' \in Seq(Entry') /\ DbPrefix' /\ AckedInDb'
    BY <1>1, <1>2, RocksBefore DEF Entry, DbPrefix, AckedInDb
  <1>4. ClosesAlone'
    BY <1>1, <1>2, RocksBefore DEF ClosesAlone
  <1>5. QED
    BY <1>1, <1>2, <1>3, <1>4, RocksBefore, RocksEnough

\* The returns of RocksDB's barrier and close keep the invariant.
LEMMA RocksReturnIInv ==
  ASSUME RocksStep, NEW t \in Threads, Rocks!RocksBarrierReturn(t) \/ Rocks!RocksCloseDB(t)
  PROVE  IInv'
  <1>1. /\ UNCHANGED <<enableWAL, log, db>> /\ pc[t] \in {"return", "closing"}
        /\ pc' = [pc EXCEPT ![t] = "idle"] /\ covers' = [covers EXCEPT ![t] = 0]
        /\ acked' = Rocks!Max({acked, covers[t]})
        /\ phase' = phase \/ (phase' = "closed" /\ pc[t] = "closing")
    BY DEF Rocks!RocksBarrierReturn, Rocks!RocksCloseDB
  <1>2. /\ pc' \in [Threads -> {"idle", "flush", "return", "closing"}]
        /\ covers' \in [Threads -> 0 .. Len(log')]
        /\ pc'[t] = "idle" /\ covers'[t] = 0
        /\ \A s \in Threads : s # t => pc'[s] = pc[s] /\ covers'[s] = covers[s]
    BY <1>1, RocksBefore
  <1>3. acked' = (IF acked >= covers[t] THEN acked ELSE covers[t]) /\ acked' \in Nat
    <2>1. acked \in Nat /\ covers[t] \in Nat
      BY RocksBefore
    <2>2. QED
      BY <1>1, <2>1, RocksMax
  <1>4. db' \in Seq(Entry') /\ DbPrefix'
    BY <1>1, RocksBefore DEF Entry, DbPrefix
  <1>5. AckedInDb'
    BY <1>1, <1>2, <1>3, RocksBefore DEF AckedInDb
  <1>6. ClosesAlone'
    BY <1>1, <1>2, RocksBefore DEF ClosesAlone
  <1>7. QED
    BY <1>1, <1>2, <1>3, <1>4, <1>5, <1>6, RocksBefore, RocksEnough

\* RocksDB's constructor keeps the invariant.
LEMMA RocksOpenIInv ==
  ASSUME RocksStep, NEW overWrite \in BOOLEAN, Rocks!RocksOpen(overWrite)
  PROVE  IInv'
  <1> USE DEF Rocks!RocksOpen
  <1>1. \A t \in Threads : pc[t] = "idle" /\ pc'[t] = "idle" /\ covers'[t] = 0
    BY RocksBefore DEF ClosesAlone
  <1>2. ClosesAlone'
    BY <1>1 DEF ClosesAlone
  <1>3. CASE ~overWrite
    <2>1. UNCHANGED <<db, log, acked, pc, covers>>
      BY <1>3
    <2>2. db' \in Seq(Entry') /\ DbPrefix' /\ AckedInDb'
      BY <2>1, RocksBefore DEF Entry, DbPrefix, AckedInDb
    <2>3. QED
      BY <1>1, <1>2, <2>1, <2>2, RocksBefore, RocksEnough
  <1>4. CASE overWrite
    <2>1. db' = <<>> /\ log' = <<>> /\ acked' = 0 /\ UNCHANGED <<pc, covers>>
      BY <1>4 DEF Rocks!DbCleanup
    <2>2. log' \in Seq(Keys) /\ db' \in Seq(Entry') /\ Len(log') = 0 /\ Len(db') = 0
          /\ DOMAIN db' = {}
      BY <2>1
    <2>3. DbPrefix' /\ AckedInDb'
      BY <1>1, <2>1, <2>2 DEF DbPrefix, AckedInDb
    <2>4. covers' \in [Threads -> 0 .. Len(log')]
      BY <1>1, <2>1, <2>2, RocksBefore
    <2>5. QED
      BY <1>1, <1>2, <2>1, <2>2, <2>3, <2>4, RocksBefore, RocksEnough
  <1>5. QED
    BY <1>3, <1>4

\* A crash with RocksDB keeps the invariant.
LEMMA RocksCrashIInv ==
  ASSUME RocksStep, Rocks!RocksCrash
  PROVE  IInv'
  <1> USE DEF Rocks!RocksCrash
  <1>1. /\ log' \in Seq(Keys) /\ Len(log') = Len(db)
        /\ \A i \in 1 .. Len(db) : log'[i] = log[i]
    BY RocksBefore
  <1>2. db' \in Seq(Entry') /\ DbPrefix'
    <2>1. /\ db \in Seq(Entry) /\ Len(db) \in Nat /\ DOMAIN db = 1 .. Len(db)
          /\ \A i \in 1 .. Len(db) : db[i] = [key |-> log[i], number |-> i]
      BY RocksBefore DEF DbPrefix
    <2>2. \A i \in 1 .. Len(db) : log[i] \in Keys
      BY <2>1, RocksBefore
    <2>3. \A i \in 1 .. Len(db) : db[i] \in Entry'
      <3>1. Entry' = [key : Keys, number : 1 .. Len(db)]
        BY <1>1 DEF Entry
      <3>2. \A i \in 1 .. Len(db) : [key |-> log[i], number |-> i] \in Entry'
        BY <2>2, <3>1
      <3>3. QED
        BY <2>1, <3>2
    <2>4. db' \in Seq(Entry')
      BY <2>1, <2>3
    <2>5. QED
      BY <1>1, <2>1, <2>4 DEF DbPrefix
  <1>3. \A t \in Threads : pc'[t] = "idle" /\ covers'[t] = 0
    OBVIOUS
  <1>4. AckedInDb' /\ ClosesAlone'
    BY <1>3, RocksBefore DEF AckedInDb, ClosesAlone
  <1>5. /\ pc' \in [Threads -> {"idle", "flush", "return", "closing"}]
        /\ covers' \in [Threads -> 0 .. Len(log')]
    BY <1>1, RocksBefore
  <1>6. QED
    BY <1>1, <1>2, <1>3, <1>4, <1>5, RocksBefore, RocksEnough
\* Every step of RocksDB's back end keeps the invariant.
LEMMA RocksNextIInv ==
  ASSUME RocksStep, Rocks!RocksNext
  PROVE  IInv'
  BY RocksMutationIInv, RocksFlushIInv, RocksBarrierIInv, RocksReturnIInv, RocksOpenIInv,
     RocksCrashIInv DEF Rocks!RocksNext

-----------------------------------------------------------------------------
(***************************************************************************)
(* The invariant of both back ends, and what follows from it.              *)
(***************************************************************************)
LEMMA InitIInv == BackendsInit => IInv
  <1> SUFFICES ASSUME BackendsInit PROVE IInv
    OBVIOUS
  <1> USE DEF BackendsInit, Init, Rocks!RocksInit
  <1>1. /\ db \in Seq(Entry) /\ heap \in Seq(Seq(Entry)) /\ log \in Seq(Keys)
        /\ Len(log) = 0 /\ Len(db) = 0 /\ DOMAIN db = {}
    OBVIOUS
  <1>2. /\ pc \in [Threads -> PCs] /\ covers \in [Threads -> 0 .. Len(log)]
        /\ acked \in 0 .. Len(log) /\ local \in [Threads -> LocalType]
    BY <1>1, NoLocalType DEF PCs
  <1>3. TypeOK
    BY <1>1, <1>2, TypeParts
  <1>4. \A t \in Threads : pc[t] = "idle" /\ covers[t] = 0
    OBVIOUS
  <1>5. ClosesAlone /\ LevelControl /\ RocksControl
    BY <1>4 DEF ClosesAlone, LevelControl, RocksControl, Stopping
  <1>6. DbPrefix /\ AckedInDb
    BY <1>1, <1>4 DEF DbPrefix, AckedInDb
  <1>7. QED
    BY <1>3, <1>5, <1>6 DEF IInv, Control, BatchLength

\* Every step keeps the invariant.
LEMMA NextIInv == IInv /\ [BackendsNext]_backendVars => IInv'
  <1> SUFFICES ASSUME IInv, [BackendsNext]_backendVars PROVE IInv'
    OBVIOUS
  <1>1. CASE storageType = "LevelDB" /\ Next /\ UNCHANGED <<storageType, enableWAL>>
    BY <1>1, LevelNextIInv DEF LevelStep
  <1>2. CASE /\ storageType = "RocksDB" /\ Rocks!RocksNext /\ UNCHANGED storageType
             /\ UNCHANGED <<batchVars, freed, counters, local>>
    BY <1>2, RocksNextIInv DEF RocksStep, batchVars, counters
  <1>3. CASE UNCHANGED backendVars
    <2>1. /\ UNCHANGED <<db, heap, freed, batch, batchSize, batchBytes, log, pc, local>>
          /\ UNCHANGED <<covers, acked, phase, storageType, enableWAL>>
      BY <1>3 DEF backendVars, vars, counters, history
    <2>2. TypeOK'
      BY <2>1 DEF IInv, TypeOK
    <2>3. Control'
      BY <2>1 DEF IInv, Control, ClosesAlone, LevelControl, RocksControl, DbPrefix, AckedInDb,
                  Stopping
    <2>4. BatchLength'
      <3>1. Adding' = Adding /\ Uncounted' = Uncounted
        BY <2>1 DEF Adding, Uncounted, Full
      <3>2. QED
        BY <2>1, <3>1 DEF IInv, BatchLength
    <2>5. QED
      BY <2>2, <2>3, <2>4 DEF IInv
  <1>4. QED
    BY <1>1, <1>2, <1>3 DEF BackendsNext

\* The invariant of the two back ends.
THEOREM BackendsInvariant == BackendsSpec => []IInv
  BY InitIInv, NextIInv, PTL DEF BackendsSpec

\* Every variable of LSMIOStoreLDB and LSMIOStoreRDB has its type, however many
\* threads call them: no call uses a batch that was never made.
THEOREM BackendsTypeCorrect == BackendsSpec => []TypeOK
  <1>1. IInv => TypeOK
    BY DEF IInv
  <1>2. QED
    BY <1>1, BackendsInvariant, PTL

\* The batch of LSMIOStoreLDB exceeds its limit by at most the number of the
\* other callers, although _batchMutation reads and updates the counters
\* outside the mutex.
THEOREM BatchStaysBounded == BackendsSpec => []BatchBounded
  <1>1. IInv => BatchBounded
    <2> SUFFICES ASSUME IInv, batch # 0
                 PROVE  Len(heap[batch]) <= Max({1, MaxBatchSize - 1}) + Cardinality(Threads) - 1
      BY DEF BatchBounded
    <2>1. Adding \subseteq Threads
      BY DEF Adding
    <2>2. Cardinality(Adding) \in Nat /\ Cardinality(Threads) \in Nat
      BY <2>1, CountsFinite
    <2>3. Len(heap[batch]) \in Nat
      BY DEF IInv, TypeOK
    <2>4. Len(heap[batch]) + Cardinality(Adding)
            <= Max({1, MaxBatchSize - 1}) + Cardinality(Threads) - 1
      BY DEF IInv, BatchLength
    <2>5. QED
      BY <2>2, <2>3, <2>4, LimitPositive
  <1>2. QED
    BY <1>1, BackendsInvariant, PTL
-----------------------------------------------------------------------------
(***************************************************************************)
(* One caller, or RocksDB: the back end is a durable log.                  *)
(***************************************************************************)
AbstractStep == Abstract!Next \/ UNCHANGED <<log, Len(db), acked>>

\* What a step of LevelDB's back end has to do for its one caller.
Implements == DbPrefix' /\ AckedInDb' /\ RestInBatch' /\ AbstractStep

OneStep(t) ==
  /\ LevelStep /\ Threads = {t}
  /\ DbPrefix /\ AckedInDb /\ RestInBatch

\* The one caller and the types of what it uses.
LEMMA OneBefore ==
  ASSUME NEW t, OneStep(t)
  PROVE  /\ t \in Threads /\ \A s \in Threads : s = t
         /\ log \in Seq(Keys) /\ Len(log) \in Nat /\ db \in Seq(Entry) /\ Len(db) \in Nat
         /\ DOMAIN db = 1 .. Len(db) /\ Len(db) <= Len(log)
         /\ pc \in [Threads -> PCs] /\ local \in [Threads -> LocalType]
         /\ covers[t] \in 0 .. Len(log) /\ acked \in 0 .. Len(log) /\ acked <= Len(db)
         /\ heap \in Seq(Seq(Entry)) /\ batch \in {0} \cup DOMAIN heap
         /\ local[t].old \in {0} \cup DOMAIN heap
         /\ \A b \in DOMAIN heap : /\ heap[b] \in Seq(Entry) /\ Len(heap[b]) \in Nat
                                   /\ DOMAIN heap[b] = 1 .. Len(heap[b])
  <1> USE DEF OneStep, LevelStep, IInv
  <1>1. t \in Threads /\ \A s \in Threads : s = t
    OBVIOUS
  <1>2. /\ log \in Seq(Keys) /\ Len(log) \in Nat /\ db \in Seq(Entry) /\ Len(db) \in Nat
        /\ DOMAIN db = 1 .. Len(db)
        /\ pc \in [Threads -> PCs] /\ local \in [Threads -> LocalType]
        /\ covers[t] \in 0 .. Len(log) /\ acked \in 0 .. Len(log)
        /\ heap \in Seq(Seq(Entry)) /\ batch \in {0} \cup DOMAIN heap
    BY <1>1, TypeParts
  <1>3. local[t].old \in {0} \cup DOMAIN heap
    BY <1>1, <1>2 DEF LocalType
  <1>4. \A b \in DOMAIN heap : heap[b] \in Seq(Entry)
    BY <1>2
  <1>5. QED
    BY <1>1, <1>2, <1>3, <1>4 DEF DbPrefix, AckedInDb

\* A step that changes only what the caller holds.
LEMMA CallerMoves ==
  ASSUME NEW t, OneStep(t), UNCHANGED <<db, heap, batch, freed, log, acked>>,
         pc[t] # "flush", pc'[t] # "flush",
         pc'[t] = "lock" => local'[t].old = batch,
         pc'[t] \in {"write", "return", "closing"} => batch = 0,
         pc'[t] \in {"return", "closing"} => covers'[t] <= Len(db),
         phase' = phase \/ phase' # "closed"
  PROVE  Implements
  <1>1. t \in Threads /\ \A s \in Threads : s = t
    BY OneBefore
  <1>2. \A b : Rest(b)' <=> Rest(b)
    BY DEF Rest
  <1>3. RestInBatch'
    BY <1>1, <1>2 DEF OneStep, RestInBatch
  <1>4. DbPrefix' /\ AckedInDb'
    BY <1>1 DEF OneStep, DbPrefix, AckedInDb
  <1>5. AbstractStep
    BY DEF AbstractStep
  <1>6. QED
    BY <1>3, <1>4, <1>5 DEF Implements

\* Steps that write nothing keep the order.
LEMMA OneMoves ==
  ASSUME NEW t, OneStep(t),
         \/ \E k \in Keys, size \in Sizes \cup {0}, flush \in BOOLEAN :
               BatchMutation(t, k, size, flush)
         \/ TestDirect(t) \/ TestFull(t) \/ UpdateCounters(t) \/ StopRead(t)
         \/ Barrier(t) \/ Close(t)
  PROVE  Implements
  <1> USE DEF batchVars, counters, history, Goto
  <1>1. t \in Threads /\ pc \in [Threads -> PCs] /\ local \in [Threads -> LocalType]
    BY OneBefore
  <1>2. /\ UNCHANGED <<db, heap, batch, freed, log, acked>>
        /\ pc[t] # "flush" /\ pc'[t] \in {"direct", "decide", "stop", "write", "add", "idle", "lock"}
        /\ pc'[t] = "write" => batch = 0
        /\ phase' = phase \/ phase' # "closed"
    BY <1>1 DEF BatchMutation, TestDirect, TestFull, UpdateCounters, StopRead, Barrier, Close
  <1>3. pc'[t] = "lock" => local'[t].old = batch
    BY <1>1 DEF BatchMutation, TestDirect, TestFull, UpdateCounters, StopRead, Barrier, Close,
                LocalType
  <1>4. QED
    BY <1>2, <1>3, CallerMoves

\* A direct write follows a batch that has been written.
LEMMA OneWriteDirect ==
  ASSUME NEW t, OneStep(t), WriteDirect(t)
  PROVE  Implements
  <1> USE DEF WriteDirect, batchVars, counters, history, Goto
  <1>1. pc[t] = "write" /\ batch = 0 /\ pc'[t] = "idle" /\ \A s \in Threads : s = t
    BY OneBefore DEF OneStep, RestInBatch
  <1>2. Len(db) = Len(log)
    BY <1>1 DEF OneStep, RestInBatch
  <1>3. TypeOK /\ local[t].key \in Keys
    BY OneBefore DEF OneStep, LevelStep, IInv, LocalType
  <1>4. /\ Len(log') = Len(log) + 1 /\ \A i \in 1 .. Len(log) : log'[i] = log[i]
        /\ log'[Len(log) + 1] = local[t].key
    BY <1>3, LogGrows
  <1>5. /\ Len(db') = Len(db) + 1 /\ DOMAIN db' = 1 .. Len(db) + 1
        /\ \A i \in 1 .. Len(db) : db'[i] = db[i]
        /\ db'[Len(db) + 1] = [key |-> local[t].key, number |-> Len(log) + 1]
    BY OneBefore
  <1>6. DbPrefix'
    <2>1. ASSUME NEW i \in DOMAIN db' PROVE db'[i] = [key |-> log'[i], number |-> i]
      <3>1. CASE i \in 1 .. Len(db)
        BY <1>2, <1>4, <1>5, <3>1, OneBefore DEF OneStep, DbPrefix
      <3>2. CASE i = Len(db) + 1
        BY <1>2, <1>4, <1>5, <3>2
      <3>3. QED
        BY <1>5, <3>1, <3>2, OneBefore
    <2>2. QED
      BY <1>2, <1>4, <1>5, <2>1, OneBefore DEF DbPrefix
  <1>7. AckedInDb'
    BY <1>1, <1>5, OneBefore DEF AckedInDb
  <1>8. RestInBatch'
    BY <1>1, <1>2, <1>4, <1>5 DEF RestInBatch
  <1>9. AbstractStep
    BY <1>2, <1>3, <1>4, <1>5, OneBefore DEF AbstractStep, Abstract!Next, Abstract!WriteThrough
  <1>10. QED
    BY <1>6, <1>7, <1>8, <1>9 DEF Implements

\* A record is added at the end of the batch, and of the log.
LEMMA OneAdd ==
  ASSUME NEW t, OneStep(t), AddToBatch(t)
  PROVE  Implements
  <1> USE DEF counters, history, Goto
  <1> DEFINE m == [key |-> local[t].key, number |-> Len(log) + 1]
  <1>1. /\ pc[t] = "add" /\ pc'[t] = "count" /\ \A s \in Threads : s = t
        /\ UNCHANGED <<db, freed, local, covers, acked, phase>>
        /\ log' = Append(log, local[t].key)
    BY OneBefore DEF AddToBatch
  <1>2. TypeOK /\ local[t].key \in Keys
    BY OneBefore DEF OneStep, LevelStep, IInv, LocalType
  <1>3. /\ Len(log') = Len(log) + 1 /\ \A i \in 1 .. Len(log) : log'[i] = log[i]
        /\ log'[Len(log) + 1] = local[t].key
    BY <1>1, <1>2, LogGrows
  <1>4. DbPrefix' /\ AckedInDb'
    <2>1. DOMAIN db \subseteq 1 .. Len(log) /\ Len(db) <= Len(log)
          /\ Len(db) \in Nat /\ Len(log) \in Nat
      BY OneBefore
    <2>2. \A i \in DOMAIN db : log'[i] = log[i]
      BY <1>3, <2>1
    <2>3. QED
      BY <1>1, <1>3, <2>1, <2>2 DEF OneStep, DbPrefix, AckedInDb
  <1>5. Rest(batch)' /\ batch' # 0
    <2>1. CASE batch = 0
      <3>1. heap' = Append(heap, <<m>>) /\ batch' = Len(heap) + 1
        BY <2>1 DEF AddToBatch
      <3>2. Len(db) = Len(log)
        BY <1>1, <2>1 DEF OneStep, RestInBatch
      <3>3. batch' # 0 /\ heap'[batch'] = <<m>>
        BY <3>1, OneBefore
      <3>4. batch' \notin freed
        <4>1. freed \subseteq DOMAIN heap
          BY <1>2 DEF TypeOK
        <4>2. QED
          BY <3>1, <4>1, OneBefore
      <3>5. /\ Len(<<m>>) = 1 /\ DOMAIN <<m>> = {1} /\ <<m>>[1] = m
        OBVIOUS
      <3>6. m = [key |-> log'[Len(db) + 1], number |-> Len(db) + 1]
        BY <1>3, <3>2
      <3> HIDE DEF m
      <3>7. QED
        BY <1>1, <1>3, <3>2, <3>3, <3>4, <3>5, <3>6, OneBefore DEF Rest
    <2>2. CASE batch # 0
      <3>1. heap' = [heap EXCEPT ![batch] = Append(heap[batch], m)] /\ batch' = batch
        BY <2>2 DEF AddToBatch
      <3>2. Rest(batch) /\ batch \in DOMAIN heap
        BY <2>2, OneBefore DEF OneStep, RestInBatch
      <3>3. heap'[batch] = Append(heap[batch], m) /\ heap[batch] \in Seq(Entry)
            /\ Len(heap[batch]) \in Nat /\ DOMAIN heap[batch] = 1 .. Len(heap[batch])
        BY <3>1, <3>2, OneBefore
      <3> DEFINE n == Len(heap[batch])
      <3>4. /\ Len(heap'[batch]) = n + 1 /\ DOMAIN heap'[batch] = 1 .. n + 1
            /\ \A i \in 1 .. n : heap'[batch][i] = heap[batch][i]
            /\ heap'[batch][n + 1] = m
        <4> HIDE DEF m
        <4> QED
          BY <3>3
      <3>5. Len(db) + n = Len(log) /\ n \in Nat /\ Len(db) \in Nat /\ Len(log) \in Nat
        BY <3>2, OneBefore DEF Rest
      <3>6. ASSUME NEW i \in 1 .. n + 1
            PROVE  heap'[batch][i] = [key |-> log'[Len(db) + i], number |-> Len(db) + i]
        <4>1. CASE i \in 1 .. n
          <5>1. Len(db) + i \in 1 .. Len(log)
            BY <3>3, <3>5, <4>1, OneBefore
          <5>2. heap[batch][i] = [key |-> log[Len(db) + i], number |-> Len(db) + i]
            BY <3>2, <3>3, <4>1 DEF Rest
          <5>3. QED
            BY <1>3, <3>4, <4>1, <5>1, <5>2
        <4>2. CASE i = n + 1
          <5>1. Len(db) + i = Len(log) + 1
            BY <3>5, <4>2
          <5>2. QED
            BY <1>3, <3>4, <4>2, <5>1
        <4>3. QED
          BY <3>3, <4>1, <4>2
      <3>7. Len(db') + Len(heap'[batch']) = Len(log')
        <4> HIDE DEF n
        <4> QED
          BY <1>1, <1>3, <3>1, <3>4, <3>5
      <3>8. QED
        BY <1>1, <2>2, <3>1, <3>2, <3>4, <3>6, <3>7 DEF Rest
    <2>3. QED
      BY <2>1, <2>2
  <1>6. RestInBatch'
    <2>1. phase # "closed"
      BY <1>1, OneBefore DEF OneStep, LevelStep, IInv, Control, ClosesAlone
    <2>2. QED
      BY <1>1, <1>5, <2>1 DEF RestInBatch
  <1>7. AbstractStep
    BY <1>1, <1>2, <1>3, OneBefore DEF AbstractStep, Abstract!Next, Abstract!MakeWrite
  <1>8. QED
    BY <1>4, <1>6, <1>7 DEF Implements

\* The batch is written whole and replaced.
LEMMA OneStopLock ==
  ASSUME NEW t, OneStep(t), StopLock(t)
  PROVE  Implements
  <1> USE DEF StopLock, counters, history, Goto
  <1>1. /\ pc[t] = "lock" /\ UNCHANGED <<db, heap, freed, log, local, covers, acked>>
        /\ local[t].old = batch /\ batch' = 0 /\ t \in Threads
    BY OneBefore DEF OneStep, RestInBatch
  <1>2. CASE batch = 0
    <2>1. /\ pc'[t] = local[t].then /\ local[t].then \in {"idle", "return", "write", "add", "closing"}
      BY <1>2, OneBefore DEF LocalType
    <2>2. Len(db) = Len(log)
      BY <1>1, <1>2, OneBefore DEF OneStep, RestInBatch
    <2>3. pc'[t] \in {"return", "closing"} => covers'[t] <= Len(db)
      BY <1>1, <2>2, OneBefore
    <2>4. QED
      BY <1>1, <1>2, <2>1, <2>3, CallerMoves
  <1>3. CASE batch # 0
    <2>1. pc'[t] = "flush" /\ \A s \in Threads : s = t
      BY <1>3, OneBefore
    <2>2. \A b : Rest(b)' <=> Rest(b)
      BY <1>1 DEF Rest
    <2>3. Rest(batch)
      BY <1>3 DEF OneStep, RestInBatch
    <2>4. RestInBatch'
      BY <1>1, <2>1, <2>2, <2>3 DEF RestInBatch
    <2>5. DbPrefix' /\ AckedInDb'
      BY <1>1, <2>1 DEF OneStep, DbPrefix, AckedInDb
    <2>6. QED
      BY <1>1, <2>4, <2>5 DEF Implements, AbstractStep
  <1>4. QED
    BY <1>2, <1>3

\* The batch becomes the part of the database that was missing.
LEMMA OneStopWrite ==
  ASSUME NEW t, OneStep(t), StopWrite(t)
  PROVE  Implements
  <1> USE DEF batchVars, counters, history, Goto
  <1> DEFINE old == local[t].old
             n == Len(heap[old])
  <1>1. /\ pc[t] = "flush" /\ UNCHANGED <<heap, batch, log, local, covers, acked>>
        /\ pc'[t] = local[t].then /\ local[t].then \in {"idle", "return", "write", "add", "closing"}
        /\ \A s \in Threads : s = t
    BY OneBefore DEF StopWrite, LocalType
  <1>2. batch = 0 /\ Rest(old)
    BY <1>1, OneBefore DEF OneStep, RestInBatch
  <1>3. old \in DOMAIN heap /\ old # 0 /\ old \notin freed
    BY <1>2, OneBefore DEF Rest
  <1>4. db' = db \o heap[old]
    BY <1>3 DEF StopWrite, Written
  <1>5. heap[old] \in Seq(Entry) /\ n \in Nat /\ DOMAIN heap[old] = 1 .. n
    BY <1>3, OneBefore
  <1>6. Len(db) + n = Len(log)
    BY <1>2 DEF Rest
  <1> HIDE DEF old
  <1>7. /\ Len(db') = Len(db) + n /\ DOMAIN db' = 1 .. Len(db) + n
        /\ \A i \in 1 .. Len(db) : db'[i] = db[i]
        /\ \A i \in 1 .. n : db'[Len(db) + i] = heap[old][i]
    BY <1>4, <1>5, OneBefore
  <1>8. DbPrefix'
    <2>1. ASSUME NEW i \in 1 .. Len(db) + n PROVE db'[i] = [key |-> log[i], number |-> i]
      <3>1. CASE i \in 1 .. Len(db)
        BY <1>7, <3>1, OneBefore DEF OneStep, DbPrefix
      <3>2. CASE i \notin 1 .. Len(db)
        <4>1. i - Len(db) \in 1 .. n /\ Len(db) + (i - Len(db)) = i
          BY <1>5, <3>2, OneBefore
        <4>2. heap[old][i - Len(db)] = [key |-> log[i], number |-> i]
          BY <1>2, <1>5, <4>1 DEF Rest
        <4>3. QED
          BY <1>7, <4>1, <4>2
      <3>3. QED
        BY <3>1, <3>2
    <2>2. QED
      BY <1>1, <1>6, <1>7, <2>1, OneBefore DEF DbPrefix
  <1>9. Len(db') = Len(log)
    BY <1>6, <1>7
  <1>10. AckedInDb'
    BY <1>1, <1>9, OneBefore DEF AckedInDb
  <1>11. RestInBatch'
    BY <1>1, <1>2, <1>9 DEF RestInBatch
  <1>12. AbstractStep
    BY <1>1, <1>9, OneBefore DEF AbstractStep, Abstract!Next, Abstract!Persist
  <1>13. QED
    BY <1>8, <1>10, <1>11, <1>12 DEF Implements

\* A barrier and close return when all is in the database.
LEMMA OneReturn ==
  ASSUME NEW t, OneStep(t), BarrierReturn(t) \/ CloseDB(t)
  PROVE  Implements
  <1> USE DEF batchVars, counters, Goto
  <1>1. /\ pc[t] \in {"return", "closing"} /\ UNCHANGED <<db, heap, batch, freed, log, local>>
        /\ pc'[t] = "idle" /\ \A s \in Threads : s = t
        /\ acked' = Max({acked, covers[t]}) /\ covers[t] <= Len(db)
    BY OneBefore DEF BarrierReturn, CloseDB, Acknowledged, OneStep, AckedInDb
  <1>2. acked \in Nat /\ covers[t] \in Nat /\ Len(db) \in Nat /\ acked <= Len(db)
    BY OneBefore
  <1>3. acked' \in acked .. Len(db)
    <2>1. acked' = IF acked >= covers[t] THEN acked ELSE covers[t]
      BY <1>1, <1>2, MaxOfTwo
    <2>2. CASE acked >= covers[t]
      BY <1>2, <2>1, <2>2
    <2>3. CASE ~(acked >= covers[t])
      <3>1. acked' = covers[t] /\ covers[t] <= Len(db)
        BY <1>1, <2>1, <2>3
      <3>2. covers[t] \in acked .. Len(db)
        BY <1>2, <2>3, <3>1
      <3>3. QED
        BY <3>1, <3>2
    <2>4. QED
      BY <2>2, <2>3
  <1>4. \A b : Rest(b)' <=> Rest(b)
    BY <1>1 DEF Rest
  <1>5. RestInBatch'
    BY <1>1, <1>4, OneBefore DEF OneStep, RestInBatch
  <1>6. DbPrefix' /\ AckedInDb'
    BY <1>1, <1>3, OneBefore DEF OneStep, DbPrefix, AckedInDb
  <1>7. AbstractStep
    BY <1>1, <1>3 DEF AbstractStep, Abstract!Next, Abstract!Acknowledge
  <1>8. QED
    BY <1>5, <1>6, <1>7 DEF Implements
\* The object is new: everything the history has is in the database.
LEMMA AllInDb ==
  ASSUME batch' = 0, Len(db') = Len(log'), \A s \in Threads : pc'[s] = "idle"
  PROVE  RestInBatch'
  BY DEF RestInBatch

\* The constructor begins without a batch.
LEMMA OneOpen ==
  ASSUME NEW t, OneStep(t), NEW overWrite \in BOOLEAN, Open(overWrite)
  PROVE  Implements
  <1> USE DEF Open, NewObject
  <1>1. \A s \in Threads : pc'[s] = "idle"
    BY DEF OneStep, LevelStep, IInv, Control, ClosesAlone
  <1>2. CASE overWrite
    <2>1. db' = <<>> /\ log' = <<>> /\ acked' = 0
      BY <1>2 DEF DbCleanup
    <2>2. Len(db') = 0 /\ Len(log') = 0 /\ DOMAIN db' = {}
      BY <2>1
    <2>3. DbPrefix' /\ AckedInDb'
      BY <1>1, <2>1, <2>2 DEF DbPrefix, AckedInDb
    <2>4. RestInBatch'
      BY <1>1, <2>2, AllInDb
    <2>5. AbstractStep
      BY <2>1, <2>2 DEF AbstractStep, Abstract!Next, Abstract!Wipe
    <2>6. QED
      BY <2>3, <2>4, <2>5 DEF Implements
  <1>3. CASE ~overWrite
    <2>1. UNCHANGED <<db, log, acked, pc, covers>>
      BY <1>3
    <2>2. DbPrefix' /\ AckedInDb' /\ AbstractStep
      BY <2>1 DEF OneStep, DbPrefix, AckedInDb, AbstractStep
    <2>3. Len(db) = Len(log)
      <3>1. phase = "closed" /\ \A s \in Threads : pc[s] # "flush"
        BY <1>1, <2>1
      <3>2. QED
        BY <3>1 DEF OneStep, RestInBatch
    <2>4. QED
      BY <1>1, <2>1, <2>2, <2>3, AllInDb DEF Implements
  <1>4. QED
    BY <1>2, <1>3

\* A crash keeps what the database has, which is the log's beginning.
LEMMA OneCrash ==
  ASSUME NEW t, OneStep(t), Crash
  PROVE  Implements
  <1> USE DEF Crash
  <1>1. \A n \in DOMAIN db : db[n] = [key |-> log[n], number |-> n]
    BY DEF OneStep, DbPrefix
  <1>2. /\ Len(db) \in Nat /\ Len(log) \in Nat /\ DOMAIN db = 1 .. Len(db)
        /\ Len(db) <= Len(log) /\ log \in Seq(Keys)
    BY OneBefore
  <1>3. log' = SubSeq(log, 1, Len(db)) /\ Len(log') = Len(db)
        /\ \A n \in 1 .. Len(db) : log'[n] = log[n]
    <2>1. log' = [n \in 1 .. Len(db) |-> log[n]]
      <3>1. \A n \in 1 .. Len(db) : db[n].key = log[n]
        <4>1. TAKE n \in 1 .. Len(db)
        <4>2. db[n] = [key |-> log[n], number |-> n]
          BY <1>1, <1>2
        <4>3. QED
          BY <4>2
      <3>2. log' = [n \in 1 .. Len(db) |-> db[n].key]
        BY <1>2
      <3>3. QED
        BY <3>1, <3>2
    <2>2. SubSeq(log, 1, Len(db)) = [n \in 1 .. Len(db) |-> log[n]]
      BY <1>2
    <2>3. QED
      BY <1>2, <2>1, <2>2
  <1>4. db' = [n \in 1 .. Len(db) |-> [key |-> log[n], number |-> n]]
    BY <1>1, <1>2
  <1>5. Len(db') = Len(db) /\ DOMAIN db' = 1 .. Len(db)
        /\ \A n \in 1 .. Len(db) : db'[n] = [key |-> log'[n], number |-> n]
    BY <1>2, <1>3, <1>4
  <1>6. DbPrefix'
    BY <1>2, <1>3, <1>5 DEF DbPrefix
  <1>7. \A s \in Threads : pc'[s] = "idle"
    OBVIOUS
  <1>8. AckedInDb'
    BY <1>2, <1>5, <1>7 DEF AckedInDb
  <1>9. RestInBatch'
    BY <1>3, <1>5, <1>7, AllInDb DEF NewObject
  <1>10. AbstractStep
    <2>1. Len(db') \in Len(db) .. Len(log) /\ log' = SubSeq(log, 1, Len(db')) /\ acked' = Len(db')
      BY <1>2, <1>3, <1>5
    <2>2. QED
      BY <2>1 DEF AbstractStep, Abstract!Next, Abstract!Crash
  <1>11. QED
    BY <1>6, <1>8, <1>9, <1>10 DEF Implements

\* Every step of the one caller keeps the order and is a step of DurableLog.
LEMMA OneNext ==
  ASSUME NEW t, OneStep(t), Next
  PROVE  Implements
  <1>1. \A s \in Threads : s = t
    BY OneBefore
  <1>2. QED
    BY <1>1, OneMoves, OneWriteDirect, OneAdd, OneStopLock, OneStopWrite, OneReturn, OneOpen,
       OneCrash DEF Next

\* RocksDB's back end implements the durable log whatever the number of threads.
LEMMA RocksImplements ==
  ASSUME RocksStep, Rocks!RocksNext
  PROVE  AbstractStep
  <1>1. /\ log \in Seq(Keys) /\ Len(log) \in Nat /\ Len(db) \in Nat /\ Len(db) <= Len(log)
        /\ acked \in Nat /\ acked <= Len(db)
    BY RocksBefore DEF AckedInDb
  <1> USE DEF AbstractStep, Abstract!Next
  <1>2. ASSUME NEW t \in Threads, NEW key \in Keys, Rocks!RocksMutation(t, key)
        PROVE  AbstractStep
    <2>1. /\ log' = Append(log, key) /\ Len(log') = Len(log) + 1 /\ log'[Len(log')] = key
          /\ acked' = acked
      BY <1>1, <1>2 DEF Rocks!RocksMutation
    <2>2. CASE enableWAL
      <3>1. db' = Rocks!Saved(Len(log'), log')
        BY <1>2, <2>2 DEF Rocks!RocksMutation
      <3>2. Len(db') = Len(log')
        BY <1>1, <2>1, <3>1 DEF Rocks!Saved
      <3>3. QED
        BY <2>1, <3>2 DEF Abstract!WriteThrough
    <2>3. CASE ~enableWAL
      <3>1. db' = db
        BY <1>2, <2>3 DEF Rocks!RocksMutation
      <3>2. QED
        BY <2>1, <3>1 DEF Abstract!MakeWrite
    <2>4. QED
      BY <2>2, <2>3
  <1>3. CASE Rocks!RocksWritesBuffer
    <2>1. PICK n \in Len(db) + 1 .. Len(log) : db' = Rocks!Saved(n, log)
      BY <1>3 DEF Rocks!RocksWritesBuffer
    <2>2. Len(db') = n
      BY <1>1, <2>1 DEF Rocks!Saved
    <2>3. QED
      BY <1>1, <1>3, <2>1, <2>2 DEF Rocks!RocksWritesBuffer, Abstract!Persist
  <1>4. ASSUME NEW t \in Threads, Rocks!RocksFlush(t) PROVE AbstractStep
    <2> DEFINE n == Rocks!Max({Len(db), covers[t]})
    <2>1. covers[t] \in 0 .. Len(log)
      BY RocksBefore
    <2>2. n = IF Len(db) >= covers[t] THEN Len(db) ELSE covers[t]
      BY <1>1, <2>1, RocksMax
    <2>3. n \in Len(db) .. Len(log) /\ n \in Nat
      BY <1>1, <2>1, <2>2
    <2>4. db' = Rocks!Saved(n, log)
      BY <1>4 DEF Rocks!RocksFlush
    <2> HIDE DEF n
    <2>5. Len(db') = n
      BY <2>3, <2>4 DEF Rocks!Saved
    <2>6. QED
      BY <1>4, <2>3, <2>5 DEF Rocks!RocksFlush, Abstract!Persist
  <1>5. ASSUME NEW t \in Threads, Rocks!RocksBarrierReturn(t) \/ Rocks!RocksCloseDB(t)
        PROVE  AbstractStep
    <2>1. /\ acked' = Rocks!Max({acked, covers[t]}) /\ UNCHANGED <<log, db>>
          /\ pc[t] \in {"return", "closing"}
      BY <1>5 DEF Rocks!RocksBarrierReturn, Rocks!RocksCloseDB
    <2>2. covers[t] \in Nat /\ covers[t] <= Len(db)
      BY <2>1, RocksBefore DEF AckedInDb
    <2>3. acked' = IF acked >= covers[t] THEN acked ELSE covers[t]
      BY <1>1, <2>1, <2>2, RocksMax
    <2>4. acked' \in acked .. Len(db)
      BY <1>1, <2>2, <2>3
    <2>5. QED
      BY <2>1, <2>4 DEF Abstract!Acknowledge
  <1>6. ASSUME NEW t \in Threads, Rocks!RocksBarrier(t) \/ Rocks!RocksClose(t)
        PROVE  AbstractStep
    BY <1>6 DEF Rocks!RocksBarrier, Rocks!RocksClose
  <1>7. ASSUME NEW overWrite \in BOOLEAN, Rocks!RocksOpen(overWrite) PROVE AbstractStep
    <2>1. CASE overWrite
      BY <1>7, <2>1 DEF Rocks!RocksOpen, Rocks!DbCleanup, Abstract!Wipe
    <2>2. CASE ~overWrite
      BY <1>7, <2>2 DEF Rocks!RocksOpen
    <2>3. QED
      BY <2>1, <2>2
  <1>8. CASE Rocks!RocksCrash
    BY <1>1, <1>8 DEF Rocks!RocksCrash, Abstract!Crash
  <1>9. QED
    BY <1>2, <1>3, <1>4, <1>5, <1>6, <1>7, <1>8 DEF Rocks!RocksNext

-----------------------------------------------------------------------------
\* At first nothing is written, as in DurableLog.
LEMMA InitOneCaller == BackendsInit /\ Orderly => OneCallerInv /\ Abstract!Init
  <1> SUFFICES ASSUME BackendsInit, Orderly PROVE OneCallerInv /\ Abstract!Init
    OBVIOUS
  <1> USE DEF BackendsInit, Init
  <1>1. Len(db) = 0 /\ Len(log) = 0 /\ DOMAIN db = {} /\ \A t \in Threads : pc[t] = "idle"
    OBVIOUS
  <1>2. DbPrefix /\ AckedInDb /\ RestInBatch
    BY <1>1 DEF DbPrefix, AckedInDb, RestInBatch
  <1>3. QED
    BY <1>1, <1>2 DEF OneCallerInv, Abstract!Init

\* Every step of either store keeps the order and is a step of DurableLog.
LEMMA NextOneCaller ==
  IInv /\ OneCallerInv /\ [BackendsNext]_backendVars => OneCallerInv' /\ AbstractStep
  <1> SUFFICES ASSUME IInv, OneCallerInv, [BackendsNext]_backendVars
               PROVE  OneCallerInv' /\ AbstractStep
    OBVIOUS
  <1>1. CASE storageType = "LevelDB" /\ Next /\ UNCHANGED <<storageType, enableWAL>>
    <2>1. PICK t \in Threads : Threads = {t}
      BY <1>1 DEF OneCallerInv, Orderly, OneCaller
    <2>2. OneStep(t)
      BY <1>1, <2>1 DEF OneStep, LevelStep, OneCallerInv
    <2>3. Implements
      BY <1>1, <2>2, OneNext
    <2>4. QED
      BY <1>1, <2>1, <2>3 DEF Implements, OneCallerInv, Orderly, OneCaller
  <1>2. CASE /\ storageType = "RocksDB" /\ Rocks!RocksNext /\ UNCHANGED storageType
             /\ UNCHANGED <<batchVars, freed, counters, local>>
    <2>1. RocksStep
      BY <1>2 DEF RocksStep, batchVars, counters
    <2>2. IInv' /\ AbstractStep
      BY <1>2, <2>1, RocksNextIInv, RocksImplements
    <2>3. QED
      BY <1>2, <2>2 DEF IInv, Control, OneCallerInv, Orderly
  <1>3. CASE UNCHANGED backendVars
    <2>1. /\ UNCHANGED <<db, heap, freed, batch, batchSize, batchBytes, log, pc, local>>
          /\ UNCHANGED <<covers, acked, phase, storageType, enableWAL>>
      BY <1>3 DEF backendVars, vars, counters, history
    <2>2. \A b : Rest(b)' <=> Rest(b)
      BY <2>1 DEF Rest
    <2>3. RestInBatch' <=> RestInBatch
      BY <2>1, <2>2 DEF RestInBatch
    <2>4. QED
      BY <2>1, <2>3 DEF OneCallerInv, Orderly, DbPrefix, AckedInDb, AbstractStep
  <1>4. QED
    BY <1>1, <1>2, <1>3 DEF BackendsNext

\* Under these conditions the mutations in the database are the first ones
\* made, the rest wait in the batch in their order, and what a barrier has
\* returned for is in the database.
THEOREM OneCallerInvariant == BackendsSpec /\ Orderly => []OneCallerInv
  <1>1. IInv /\ OneCallerInv /\ [BackendsNext]_backendVars => OneCallerInv'
    BY NextOneCaller
  <1>2. QED
    BY <1>1, InitOneCaller, BackendsInvariant, PTL DEF BackendsSpec

\* Called by one thread, LSMIOStoreLDB keeps the promise of DurableLog, and
\* LSMIOStoreRDB keeps it called by any number: the mutations in the database
\* are a prefix of those made, a barrier's are among them, and a crash costs a
\* suffix.  (Two callers of LSMIOStoreLDB can break it: run batch_race.)
THEOREM BackendsImplementDurableLog == BackendsSpec /\ Orderly => ImplementsDurableLog
  <1>1. IInv /\ OneCallerInv /\ [BackendsNext]_backendVars => [Abstract!Next]_(Abstract!vars)
    BY NextOneCaller DEF AbstractStep, Abstract!vars
  <1>2. QED
    BY <1>1, InitOneCaller, BackendsInvariant, OneCallerInvariant, PTL
       DEF BackendsSpec, ImplementsDurableLog, Abstract!Spec

\* What a returned writeBarrier has covered is found by a lookup, or a newer
\* mutation of the same key is, under the same conditions.
THEOREM BarriersCover == BackendsSpec /\ Orderly => []BarrierCovers
  <1>1. IInv /\ OneCallerInv => BarrierCovers
    <2> SUFFICES ASSUME IInv, OneCallerInv, NEW n \in 1 .. acked
                 PROVE  LET same == {i \in DOMAIN db : db[i].key = log[n]}
                        IN  same # {} /\ db[Max(same)].number >= n
      BY DEF BarrierCovers
    <2> DEFINE same == {i \in DOMAIN db : db[i].key = log[n]}
    <2>1. /\ Len(db) \in Nat /\ DOMAIN db = 1 .. Len(db) /\ acked \in Nat /\ acked <= Len(db)
          /\ \A i \in DOMAIN db : db[i] = [key |-> log[i], number |-> i]
      BY TypeParts DEF IInv, OneCallerInv, DbPrefix, AckedInDb
    <2>2. n \in same
      BY <2>1
    <2>3. same \subseteq 1 .. Len(db) /\ same # {}
      BY <2>1, <2>2
    <2> HIDE DEF same
    <2>4. Max(same) \in same /\ n <= Max(same)
      BY <2>1, <2>2, <2>3, MaxOfSome
    <2>5. db[Max(same)].number = Max(same) /\ Max(same) \in Nat
      <3>1. Max(same) \in 1 .. Len(db)
        BY <2>3, <2>4
      <3>2. db[Max(same)] = [key |-> log[Max(same)], number |-> Max(same)]
        BY <2>1, <3>1
      <3>3. QED
        BY <2>1, <3>1, <3>2
    <2>6. same # {} /\ db[Max(same)].number >= n
      BY <2>3, <2>4, <2>5
    <2>7. QED
      BY <2>6 DEF same
  <1>2. QED
    BY <1>1, BackendsInvariant, OneCallerInvariant, PTL
===============================================================================
