---------------------------- MODULE NativeStoreReads ----------------------------
(***************************************************************************)
(* Proofs about what lookups in the native store find, for any number of   *)
(* clients, keys, writes, files, failed flushes and crashes.               *)
(***************************************************************************)
EXTENDS NativeStoreProofs, WellFoundedInduction

--------------------------------------------------------------------------------
(* The files as a part of the history: file by file, the newest first, they*)
(* hold what was flushed; and a write that is not lost lies in a file in   *)
(* which its key is found.                                                 *)
Numbered(history) == \A i \in DOMAIN history : history[i].seq = i

FileHolds(t, history, n) ==
    /\ LastWrite(t) <= n
    /\ \A j \in DOMAIN t.data : t.data[j] = history[t.base + j]

FoundIn(t, i, history) ==
    t.base < i /\ i <= LastWrite(t) /\ TableHit(t, history[i].key) # {}

Disk(history, n, files, lost) ==
    /\ Numbered(history)
    /\ \A p \in DOMAIN files : FileHolds(files[p], history, n)
    /\ \A p, q \in DOMAIN files : p < q => LastWrite(files[q]) <= files[p].base
    /\ \A i \in (1 .. n) \ lost : \E p \in DOMAIN files : FoundIn(files[p], i, history)

DiskInv == Disk(log, flushed, tables, gone)

(* What a read in progress has found, and what it still relies on.         *)
Reading(c) == pc[c] \in {"getSST", "got", "scanSST", "scanned"}

GetFound(c) ==
    \A i \in (1 .. call[c].sync) \ gone :
        log[i].key \in call[c].keys =>
            \E rec \in call[c].found : rec.key = log[i].key /\ rec.seq >= i

ScanNewer(c) ==
    \A rec \in call[c].found :
        rec.seq \in DOMAIN log /\ log[rec.seq] = rec /\ rec.seq > call[c].sync

ScanFound(c) ==
    \A i \in (1 .. call[c].sync) \ gone :
        (/\ log[i].key \in call[c].keys
         /\ \A j \in DOMAIN log : j > i => log[j].key # log[i].key)
        => {rec \in call[c].found : rec.key = log[i].key} = {log[i]}

ReadOK(c) ==
    /\ Reading(c) => up /\ call[c].sync <= flushed
    /\ pc[c] = "got" => GetFound(c)
    /\ pc[c] = "scanSST" => ScanNewer(c)
    /\ pc[c] = "scanned" => ScanFound(c)

ReadInv == \A c \in Clients : ReadOK(c)

--------------------------------------------------------------------------------
(* Lookups in one file and in a sequence of them.                          *)
LEMMA TableFacts ==
    ASSUME NEW t \in TableType
    PROVE  /\ t.base \in Nat /\ t.data \in Seq(Record) /\ Len(t.data) \in Nat /\ t.good \in Nat
           /\ DOMAIN t.data = 1 .. Len(t.data)
           /\ t.torn \in BOOLEAN /\ t.good + (IF t.torn THEN 1 ELSE 0) <= Len(t.data)
           /\ LastWrite(t) = t.base + Len(t.data) /\ LastWrite(t) \in Nat /\ t.base <= LastWrite(t)
  <1>1. /\ t.base \in Nat /\ t.data \in Seq(Record) /\ t.good \in Nat /\ t.torn \in BOOLEAN
        /\ t.good + (IF t.torn THEN 1 ELSE 0) <= Len(t.data)
    BY DEF TableType
  <1>2. Len(t.data) \in Nat /\ DOMAIN t.data = 1 .. Len(t.data)
    BY <1>1
  <1>3. QED
    BY <1>1, <1>2 DEF LastWrite

(* What a file answers is the newest of its records of the key.            *)
LEMMA HitIs ==
    ASSUME NEW t \in TableType, NEW k, NEW rec \in TableHit(t, k)
    PROVE  \E j \in DOMAIN t.data :
              /\ rec = t.data[j] /\ rec.key = k
              /\ \A l \in DOMAIN t.data : t.data[l].key = k => l <= j
  <1>1. PICK j \in DOMAIN t.data :
           /\ rec = t.data[j] /\ t.data[j].key = k
           /\ \A l \in DOMAIN t.data : l > j => t.data[l].key # k
    BY DEF TableHit, NewestAt
  <1>2. \A l \in DOMAIN t.data : t.data[l].key = k => l <= j
    <2>1. \A l \in DOMAIN t.data : l \in Nat /\ j \in Nat
      BY TableFacts
    <2>2. QED
      BY <1>1, <2>1
  <1>3. QED
    BY <1>1, <1>2

(* A search from the first to the last answers with one of the answers, and*)
(* with none that stands behind another one.                               *)
LEMMA FirstHitIs ==
    ASSUME NEW hits, NEW rec \in FirstHit(hits)
    PROVE  \E n \in DOMAIN hits : rec \in hits[n] /\ \A j \in 1 .. (n - 1) : hits[j] = {}
  BY DEF FirstHit

(* There is a least number of every kind.                                  *)
LEMMA LeastExists ==
  ASSUME NEW S, S \subseteq Nat, S # {}
  PROVE  \E n \in S : \A m \in S : n <= m
  <1> DEFINE R == {pair \in Nat \X Nat : pair[1] < pair[2]}
  <1>1. IsWellFoundedOn(R, Nat)
    BY NatLessThanWellFounded, Zenon DEF OpToRel
  <1>2. \A m, n \in Nat : <<m, n>> \in R <=> m < n
    OBVIOUS
  <1> HIDE DEF R
  <1>3. PICK n \in S : \A m \in S : ~ (<<m, n>> \in R)
    BY <1>1, WFMin
  <1>4. ASSUME NEW m \in S PROVE n <= m
    <2>1. n \in Nat /\ m \in Nat
      OBVIOUS
    <2>2. ~(m < n)
      BY <1>2, <1>3, <2>1, Zenon
    <2>3. QED
      BY <2>1, <2>2
  <1>5. QED
    BY <1>4

\* When there is a hit, the first one is found.
LEMMA FirstHitFinds ==
    ASSUME NEW hits, NEW len \in Nat, DOMAIN hits = 1 .. len,
           NEW p \in 1 .. len, hits[p] # {}
    PROVE  FirstHit(hits) # {}
  <1> DEFINE S == {n \in 1 .. len : hits[n] # {}}
  <1>1. S \subseteq Nat /\ S # {}
    OBVIOUS
  <1>2. PICK n \in S : \A m \in S : n <= m
    <2> HIDE DEF S
    <2>1. QED
      BY <1>1, LeastExists
  <1>3. \A j \in 1 .. (n - 1) : hits[j] = {}
    <2> SUFFICES ASSUME NEW j \in 1 .. (n - 1), hits[j] # {} PROVE FALSE
      OBVIOUS
    <2>1. j \in S /\ j < n
      OBVIOUS
    <2>2. QED
      BY <1>2, <2>1
  <1>4. QED
    BY <1>2, <1>3 DEF FirstHit

(* A file that is written completely can be read completely.               *)
LEMMA CompleteHits ==
    ASSUME NEW t \in TableType, t.good = Len(t.data), NEW n \in DOMAIN t.data
    PROVE  TableHit(t, t.data[n].key) # {}
  <1> DEFINE k == t.data[n].key
             len == Len(t.data)
             S == {d \in 0 .. len - 1 : t.data[len - d].key = k}
  <1>1. len \in Nat /\ n \in 1 .. len /\ DOMAIN t.data = 1 .. len
    BY TableFacts
  <1>2. S \subseteq Nat /\ len - n \in S
    <2>1. len - n \in 0 .. len - 1 /\ len - (len - n) = n
      BY <1>1
    <2>2. QED
      BY <1>1, <2>1
  <1>3. PICK d \in S : \A e \in S : d <= e
    <2> HIDE DEF S
    <2>1. QED
      BY <1>2, LeastExists
  <1>4. len - d \in 1 .. len /\ t.data[len - d].key = k
    BY <1>1, <1>3
  <1>5. \A j \in 1 .. len : j > len - d => t.data[j].key # k
    <2> SUFFICES ASSUME NEW j \in 1 .. len, j > len - d, t.data[j].key = k PROVE FALSE
      OBVIOUS
    <2>1. len - j \in 0 .. len - 1 /\ len - (len - j) = j /\ len - j < d
      BY <1>1, <1>3
    <2>2. len - j \in S
      BY <2>1
    <2>3. d <= len - j
      <3> HIDE DEF S
      <3>1. QED
        BY <1>3, <2>2
    <2>4. d \in Nat /\ len - j \in Nat
      BY <1>1
    <2>5. QED
      BY <2>1, <2>3, <2>4
  <1> HIDE DEF k, len
  <1>6. len - d \in NewestAt(t.data, k) /\ len - d <= t.good
    <2>1. len - d <= len
      BY <1>1, <1>4
    <2>2. QED
      BY <1>1, <1>4, <1>5, <2>1 DEF NewestAt, len
  <1>7. QED
    BY <1>6 DEF TableHit, k

(* Recovery keeps what could be read, and drops only what could not.       *)
LEMMA RecoveredHolds ==
    ASSUME NEW t \in TableType
    PROVE  LET u == RecoveredTable(t)
           IN  /\ u \in TableType /\ u.base = t.base /\ LastWrite(u) <= LastWrite(t)
               /\ \A j \in DOMAIN u.data : j \in DOMAIN t.data /\ u.data[j] = t.data[j]
               /\ \A k : \A j \in NewestAt(t.data, k) :
                     j <= t.good => /\ j \in NewestAt(u.data, k) /\ j <= u.good
                                    /\ u.data[j] = t.data[j]
  <1> DEFINE n == t.good + (IF t.torn THEN 1 ELSE 0)
             u == RecoveredTable(t)
  <1>1. /\ n \in Nat /\ n <= Len(t.data) /\ t.good <= n /\ t.good \in Nat /\ Len(t.data) \in Nat
        /\ t.data \in Seq(Record) /\ t.base \in Nat
    BY TableFacts
  <1>2. u \in TableType
    BY RecoveredType
  <1>3. u.data = SubSeq(t.data, 1, n) /\ u.base = t.base /\ u.good = t.good
    BY DEF RecoveredTable, TableType
  <1>4. /\ Len(u.data) = n /\ DOMAIN u.data = 1 .. n /\ DOMAIN t.data = 1 .. Len(t.data)
        /\ \A j \in 1 .. n : u.data[j] = t.data[j]
    BY <1>1, <1>3
  <1>5. LastWrite(u) <= LastWrite(t)
    BY <1>1, <1>3, <1>4 DEF LastWrite
  <1> HIDE DEF u, n
  <1>6. ASSUME NEW k, NEW j \in NewestAt(t.data, k), j <= t.good
        PROVE  j \in NewestAt(u.data, k) /\ u.data[j] = t.data[j]
    BY <1>1, <1>4, <1>6 DEF NewestAt
  <1>7. \A j \in DOMAIN u.data : j \in DOMAIN t.data /\ u.data[j] = t.data[j]
    BY <1>1, <1>4
  <1>8. QED
    BY <1>2, <1>3, <1>5, <1>6, <1>7 DEF u


(* The answers of the files to a lookup.                                   *)
Answers(files, k, hits) ==
    DOMAIN hits = DOMAIN files /\ \A p \in DOMAIN files : hits[p] = TableHit(files[p], k)

(* The place in a file of the i-th write.                                  *)
LEMMA PlaceInFile ==
    ASSUME NEW base \in Nat, NEW len \in Nat, NEW i \in Nat, base < i, i <= base + len
    PROVE  i - base \in 1 .. len
  OBVIOUS

(* A lookup in the files answers with a write of the key, and with none    *)
(* older than one that is not lost.                                        *)
LEMMA DiskFinds ==
    ASSUME NEW h \in Seq(Record), NEW n \in Nat, n <= Len(h), NEW files \in Seq(TableType), NEW lost,
           Disk(h, n, files, lost), NEW k,
           NEW hits, Answers(files, k, hits), NEW found, found = FirstHit(hits)
    PROVE  /\ \A rec \in found : rec.key = k /\ rec.seq \in 1 .. n /\ h[rec.seq] = rec
           /\ \A i \in (1 .. n) \ lost :
                 h[i].key = k => found # {} /\ \A rec \in found : rec.seq >= i
  <1> DEFINE len == Len(files)
  <1>1. len \in Nat /\ DOMAIN files = 1 .. len /\ DOMAIN hits = 1 .. len
        /\ \A p \in 1 .. len : files[p] \in TableType /\ hits[p] = TableHit(files[p], k)
    BY DEF Answers
  <1>2. Len(h) \in Nat /\ DOMAIN h = 1 .. Len(h) /\ found = FirstHit(hits)
    OBVIOUS
  <1> HIDE DEF len
  <1>3. ASSUME NEW rec \in found
        PROVE  \E q \in 1 .. len : \E j \in DOMAIN files[q].data :
                 /\ \A p \in 1 .. (q - 1) : hits[p] = {}
                 /\ rec = files[q].data[j] /\ rec.key = k
                 /\ \A l \in DOMAIN files[q].data : files[q].data[l].key = k => l <= j
                 /\ rec.seq = files[q].base + j /\ rec.seq \in 1 .. n /\ h[rec.seq] = rec
    <2>1. PICK q \in 1 .. len : rec \in hits[q] /\ \A p \in 1 .. (q - 1) : hits[p] = {}
      BY <1>1, <1>2, <1>3, FirstHitIs
    <2> DEFINE t == files[q]
    <2>2. t \in TableType /\ rec \in TableHit(t, k)
      BY <1>1, <2>1
    <2>3. FileHolds(t, h, n)
      BY <1>1 DEF Disk
    <2> HIDE DEF t
    <2>4. PICK j \in DOMAIN t.data :
             /\ rec = t.data[j] /\ rec.key = k
             /\ \A l \in DOMAIN t.data : t.data[l].key = k => l <= j
      BY <2>2, HitIs
    <2>5. /\ t.base \in Nat /\ Len(t.data) \in Nat /\ j \in 1 .. Len(t.data)
          /\ LastWrite(t) = t.base + Len(t.data)
      BY <2>2, TableFacts
    <2>6. LastWrite(t) <= n /\ rec = h[t.base + j]
      BY <2>3, <2>4 DEF FileHolds
    <2>a. LastWrite(t) <= n
      BY <2>6
    <2>7. t.base + j \in 1 .. n
      BY <2>5, <2>a
    <2>8. rec.seq = t.base + j
      <3>1. t.base + j \in DOMAIN h
        BY <1>2, <2>7
      <3>2. QED
        BY <2>6, <3>1 DEF Disk, Numbered
    <2>9. QED
      BY <2>1, <2>4, <2>6, <2>7, <2>8 DEF t
  <1>4. ASSUME NEW i \in (1 .. n) \ lost, h[i].key = k
        PROVE  found # {} /\ \A rec \in found : rec.seq >= i
    <2>1. PICK p \in 1 .. len : FoundIn(files[p], i, h)
      BY <1>1 DEF Disk
    <2>2. /\ files[p].base < i /\ i <= LastWrite(files[p]) /\ hits[p] # {}
          /\ files[p].base \in Nat /\ LastWrite(files[p]) = files[p].base + Len(files[p].data)
          /\ Len(files[p].data) \in Nat /\ DOMAIN files[p].data = 1 .. Len(files[p].data)
      BY <1>1, <1>4, <2>1, TableFacts DEF FoundIn
    <2>3. found # {}
      BY <1>1, <1>2, <2>2, FirstHitFinds
    <2>4. ASSUME NEW rec \in found PROVE rec.seq >= i
      <3>1. PICK q \in 1 .. len : \E j \in DOMAIN files[q].data :
                 /\ \A l \in 1 .. (q - 1) : hits[l] = {}
                 /\ rec = files[q].data[j] /\ rec.key = k
                 /\ \A l \in DOMAIN files[q].data : files[q].data[l].key = k => l <= j
                 /\ rec.seq = files[q].base + j /\ rec.seq \in 1 .. n /\ h[rec.seq] = rec
        BY <1>3, <2>4
      <3>2. PICK j \in DOMAIN files[q].data :
                 /\ \A l \in 1 .. (q - 1) : hits[l] = {}
                 /\ rec = files[q].data[j] /\ rec.key = k
                 /\ \A l \in DOMAIN files[q].data : files[q].data[l].key = k => l <= j
                 /\ rec.seq = files[q].base + j
        BY <3>1
      <3>3. /\ files[q].base \in Nat /\ j \in Nat /\ j >= 1
        BY <1>1, TableFacts
      <3>4. q <= p
        <4> SUFFICES ASSUME p < q PROVE FALSE
          BY <1>1
        <4>1. p \in 1 .. (q - 1)
          BY <1>1
        <4>2. QED
          BY <2>2, <3>2, <4>1
      <3>5. CASE q = p
        <4>1. i - files[p].base \in DOMAIN files[p].data
          <5>1. /\ files[p].base \in Nat /\ Len(files[p].data) \in Nat /\ i \in Nat
                /\ files[p].base < i /\ i <= files[p].base + Len(files[p].data)
            BY <2>2
          <5>2. i - files[p].base \in 1 .. Len(files[p].data)
            BY <5>1, PlaceInFile
          <5>3. QED
            BY <2>2, <5>2
        <4>2. files[p].data[i - files[p].base] = h[i]
          <5>1. files[p].base + (i - files[p].base) = i
            BY <2>2
          <5>2. FileHolds(files[p], h, n)
            BY <1>1 DEF Disk
          <5>3. files[p].data[i - files[p].base] = h[files[p].base + (i - files[p].base)]
            BY <4>1, <5>2 DEF FileHolds
          <5>4. QED
            BY <5>1, <5>3
        <4>3. i - files[p].base <= j
          BY <1>4, <3>2, <3>5, <4>1, <4>2
        <4>4. rec.seq = files[p].base + j
          BY <3>2, <3>5
        <4>5. QED
          BY <2>2, <3>3, <4>3, <4>4
      <3>6. CASE q # p
        <4>1. q < p
          BY <1>1, <3>4, <3>6
        <4>2. LastWrite(files[p]) <= files[q].base
          BY <1>1, <4>1 DEF Disk
        <4>3. rec.seq = files[q].base + j /\ i <= LastWrite(files[p])
          BY <2>2, <3>2
        <4>4. LastWrite(files[p]) \in Nat /\ i \in Nat
          BY <1>1, <2>2
        <4>5. QED
          BY <3>3, <4>2, <4>3, <4>4
      <3>7. QED
        BY <3>5, <3>6
    <2>5. QED
      BY <2>3, <2>4
  <1>5. \A rec \in found : rec.key = k /\ rec.seq \in 1 .. n /\ h[rec.seq] = rec
    BY <1>3
  <1>6. QED
    BY <1>4, <1>5

(* The history grows, or loses what no file holds.                         *)
LEMMA DiskHistory ==
    ASSUME NEW h \in Seq(Record), NEW n \in Nat, n <= Len(h), NEW files \in Seq(TableType), NEW lost,
           Disk(h, n, files, lost),
           NEW g \in Seq(Record), n <= Len(g), Numbered(g), \A i \in 1 .. n : g[i] = h[i]
    PROVE  Disk(g, n, files, lost)
  <1>1. ASSUME NEW p \in DOMAIN files PROVE FileHolds(files[p], g, n)
    <2>1. FileHolds(files[p], h, n)
      BY DEF Disk
    <2>2. /\ files[p].base \in Nat /\ Len(files[p].data) \in Nat
          /\ LastWrite(files[p]) = files[p].base + Len(files[p].data)
          /\ DOMAIN files[p].data = 1 .. Len(files[p].data)
      BY TableFacts
    <2>3. ASSUME NEW j \in DOMAIN files[p].data
          PROVE  files[p].data[j] = g[files[p].base + j]
      <3>1. files[p].base + j \in 1 .. n
        BY <2>1, <2>2 DEF FileHolds
      <3>2. QED
        BY <2>1, <3>1 DEF FileHolds
    <2>4. QED
      BY <2>1, <2>3 DEF FileHolds
  <1>2. ASSUME NEW i \in (1 .. n) \ lost PROVE \E p \in DOMAIN files : FoundIn(files[p], i, g)
    BY DEF Disk, FoundIn
  <1>3. QED
    BY <1>1, <1>2 DEF Disk

(* A file is added in front of the others.                                 *)
LEMMA DiskPush ==
    ASSUME NEW h \in Seq(Record), NEW n \in Nat, NEW files \in Seq(TableType), NEW lost,
           Disk(h, n, files, lost), NEW t \in TableType, t.base = n, LastWrite(t) <= Len(h),
           \A j \in DOMAIN t.data : t.data[j] = h[t.base + j],
           NEW more, lost \subseteq more,
           \A j \in DOMAIN t.data : t.base + j \notin more => TableHit(t, t.data[j].key) # {}
    PROVE  Disk(h, LastWrite(t), <<t>> \o files, more)
  <1> DEFINE all == <<t>> \o files
             l == LastWrite(t)
  <1>1. /\ all \in Seq(TableType) /\ Len(all) = Len(files) + 1 /\ all[1] = t /\ Len(files) \in Nat
        /\ DOMAIN files = 1 .. Len(files) /\ DOMAIN all = 1 .. (Len(files) + 1)
        /\ \A i \in DOMAIN files : all[i + 1] = files[i]
    BY Prepend
  <1>2. /\ l \in Nat /\ n <= l /\ l = n + Len(t.data) /\ Len(t.data) \in Nat
        /\ DOMAIN t.data = 1 .. Len(t.data)
    BY TableFacts
  <1> HIDE DEF all, l
  <1>3. \A p \in DOMAIN all : p = 1 \/ (p - 1 \in DOMAIN files /\ all[p] = files[p - 1])
    BY <1>1
  <1>4. ASSUME NEW p \in DOMAIN all PROVE FileHolds(all[p], h, l)
    <2>1. CASE p = 1
      <3>1. l <= l
        BY <1>2
      <3>2. QED
        BY <1>1, <2>1, <3>1 DEF FileHolds, l
    <2>2. CASE p # 1
      <3>1. p - 1 \in DOMAIN files /\ all[p] = files[p - 1]
        BY <1>3, <2>2
      <3>2. FileHolds(files[p - 1], h, n) /\ LastWrite(files[p - 1]) \in Nat
        BY <3>1, TableFacts DEF Disk
      <3>3. QED
        BY <1>2, <3>1, <3>2 DEF FileHolds
    <2>3. QED
      BY <2>1, <2>2
  <1>5. ASSUME NEW p \in DOMAIN all, NEW q \in DOMAIN all, p < q
        PROVE  LastWrite(all[q]) <= all[p].base
    <2>1. q # 1 /\ q - 1 \in DOMAIN files /\ all[q] = files[q - 1]
      BY <1>1, <1>3, <1>5
    <2>2. CASE p = 1
      BY <1>1, <2>1, <2>2 DEF Disk, FileHolds
    <2>3. CASE p # 1
      <3>1. p - 1 \in DOMAIN files /\ all[p] = files[p - 1] /\ p - 1 < q - 1
        BY <1>1, <1>3, <1>5, <2>3
      <3>2. QED
        BY <2>1, <3>1 DEF Disk
    <2>4. QED
      BY <2>2, <2>3
  <1>6. ASSUME NEW i \in (1 .. l) \ more PROVE \E p \in DOMAIN all : FoundIn(all[p], i, h)
    <2>1. CASE i <= n
      <3>1. i \in (1 .. n) \ lost
        BY <1>2, <2>1
      <3>2. PICK p \in DOMAIN files : FoundIn(files[p], i, h)
        BY <3>1 DEF Disk
      <3>3. p + 1 \in DOMAIN all /\ all[p + 1] = files[p]
        BY <1>1
      <3>4. QED
        BY <3>2, <3>3
    <2>2. CASE n < i
      <3>1. i - n \in DOMAIN t.data /\ n + (i - n) = i
        BY <1>2, <2>2
      <3>2. t.data[i - n] = h[i] /\ TableHit(t, t.data[i - n].key) # {}
        BY <3>1
      <3>3. FoundIn(t, i, h)
        BY <1>2, <2>2, <3>2 DEF FoundIn, l
      <3>4. 1 \in DOMAIN all
        BY <1>1
      <3>5. QED
        BY <1>1, <3>3, <3>4
    <2>3. QED
      BY <1>2, <2>1, <2>2
  <1>7. QED
    BY <1>4, <1>5, <1>6 DEF Disk, all, l

(* recoverState on the files.                                              *)
LEMMA DiskRecover ==
    ASSUME NEW h, NEW n \in Nat, NEW files \in Seq(TableType), NEW lost,
           Disk(h, n, files, lost)
    PROVE  Disk(h, n, [i \in DOMAIN files |-> RecoveredTable(files[i])], lost)
  <1> DEFINE new == [i \in DOMAIN files |-> RecoveredTable(files[i])]
  <1>1. DOMAIN new = DOMAIN files /\ \A p \in DOMAIN files : new[p] = RecoveredTable(files[p])
    OBVIOUS
  <1> HIDE DEF new
  <1>2. ASSUME NEW p \in DOMAIN files
        PROVE  /\ new[p] \in TableType /\ new[p].base = files[p].base
               /\ LastWrite(new[p]) <= LastWrite(files[p])
               /\ LastWrite(new[p]) \in Nat /\ LastWrite(files[p]) \in Nat /\ files[p].base \in Nat
               /\ \A j \in DOMAIN new[p].data :
                     j \in DOMAIN files[p].data /\ new[p].data[j] = files[p].data[j]
               /\ \A k : \A j \in NewestAt(files[p].data, k) :
                     j <= files[p].good => /\ j \in NewestAt(new[p].data, k) /\ j <= new[p].good
                                           /\ new[p].data[j] = files[p].data[j]
    <2>1. files[p] \in TableType
      OBVIOUS
    <2>2. new[p] = RecoveredTable(files[p])
      BY <1>1
    <2>3. /\ new[p] \in TableType /\ new[p].base = files[p].base
          /\ LastWrite(new[p]) <= LastWrite(files[p])
          /\ \A j \in DOMAIN new[p].data :
                j \in DOMAIN files[p].data /\ new[p].data[j] = files[p].data[j]
          /\ \A k : \A j \in NewestAt(files[p].data, k) :
                j <= files[p].good => /\ j \in NewestAt(new[p].data, k) /\ j <= new[p].good
                                      /\ new[p].data[j] = files[p].data[j]
      <3> DEFINE t == files[p]
                 u == RecoveredTable(t)
      <3>1. t \in TableType /\ new[p] = u
        BY <2>1, <2>2
      <3>2. /\ u \in TableType /\ u.base = t.base /\ LastWrite(u) <= LastWrite(t)
            /\ \A j \in DOMAIN u.data : j \in DOMAIN t.data /\ u.data[j] = t.data[j]
            /\ \A k : \A j \in NewestAt(t.data, k) :
                  j <= t.good => /\ j \in NewestAt(u.data, k) /\ j <= u.good
                                 /\ u.data[j] = t.data[j]
        <4> HIDE DEF t
        <4>1. QED
          BY <3>1, RecoveredHolds
      <3> HIDE DEF u
      <3>3. QED
        BY <3>1, <3>2 DEF t
    <2>4. LastWrite(new[p]) \in Nat /\ LastWrite(files[p]) \in Nat /\ files[p].base \in Nat
      BY <2>1, <2>3, TableFacts
    <2>5. QED
      BY <2>3, <2>4
  <1>3. ASSUME NEW p \in DOMAIN files PROVE FileHolds(new[p], h, n)
    <2>1. FileHolds(files[p], h, n)
      BY DEF Disk
    <2>2. QED
      BY <1>2, <2>1 DEF FileHolds
  <1>4. ASSUME NEW p \in DOMAIN files, NEW q \in DOMAIN files, p < q
        PROVE  LastWrite(new[q]) <= new[p].base
    <2>1. LastWrite(files[q]) <= files[p].base
      BY <1>4 DEF Disk
    <2>2. QED
      BY <1>2, <2>1
  <1>5. ASSUME NEW i \in (1 .. n) \ lost PROVE \E p \in DOMAIN files : FoundIn(new[p], i, h)
    <2>1. PICK p \in DOMAIN files : FoundIn(files[p], i, h)
      BY DEF Disk
    <2> DEFINE k == h[i].key
               t == files[p]
               u == new[p]
    <2>2. t.base < i /\ i <= LastWrite(t)
      BY <2>1 DEF FoundIn
    <2>3. PICK j \in NewestAt(t.data, k) : j <= t.good
      BY <2>1 DEF FoundIn, TableHit
    <2>4. j \in NewestAt(u.data, k) /\ j <= u.good
      BY <1>2, <2>3
    <2>5. TableHit(u, k) # {}
      BY <2>4 DEF TableHit
    <2>6. i <= LastWrite(u)
      <3>1. /\ t \in TableType /\ u \in TableType /\ u.base = t.base /\ FileHolds(t, h, n)
        BY <1>2 DEF Disk
      <3> HIDE DEF t, u
      <3>2. /\ t.base \in Nat /\ Len(t.data) \in Nat /\ DOMAIN t.data = 1 .. Len(t.data)
            /\ LastWrite(t) = t.base + Len(t.data)
            /\ Len(u.data) \in Nat /\ DOMAIN u.data = 1 .. Len(u.data)
            /\ LastWrite(u) = t.base + Len(u.data)
        BY <3>1, TableFacts
      <3>3. i - t.base \in DOMAIN t.data /\ t.base + (i - t.base) = i
        BY <2>2, <3>2
      <3>4. t.data[i - t.base].key = k
        BY <3>1, <3>3 DEF FileHolds
      <3>5. i - t.base <= j
        <4>1. j \in DOMAIN t.data /\ \A l \in DOMAIN t.data : l > j => t.data[l].key # k
          BY <2>3 DEF NewestAt
        <4> HIDE DEF k
        <4>2. ~(i - t.base > j)
          BY <3>3, <3>4, <4>1
        <4>3. i - t.base \in Nat /\ j \in Nat
          BY <3>2, <3>3, <4>1
        <4>4. QED
          BY <4>2, <4>3
      <3>6. j \in DOMAIN u.data
        BY <2>4 DEF NewestAt
      <3>7. QED
        BY <3>2, <3>5, <3>6
    <2>7. QED
      BY <1>2, <2>2, <2>5, <2>6 DEF FoundIn
  <1>6. QED
    BY <1>1, <1>3, <1>4, <1>5 DEF Disk, new


--------------------------------------------------------------------------------
(* What a step does to the history, the files and the reads in progress.   *)
ReadsKept == \A c \in Clients : Reading(c)' => pc'[c] = pc[c] /\ call'[c] = call[c]

Silent == UNCHANGED <<up, log, flushed, tables, gone>> /\ ReadsKept

Writes ==
    /\ up /\ UNCHANGED <<up, flushed, tables, gone>> /\ ReadsKept
    /\ \E rec \in Record : rec.seq = Len(log) + 1 /\ log' = Append(log, rec)

Flushes ==
    /\ up /\ inflight # <<>> /\ FlushMemtableToL0(inflight[1])
    /\ UNCHANGED <<up, log>> /\ ReadsKept

Looks ==
    \E c \in Clients :
        \/ \E k \in Keys : Get(c, k)
        \/ GetPrefix(c, Keys) \/ GetSST(c) \/ ScanSST(c)

Restarts ==
    \/ Open \/ RemoveAll \/ Crash
    \/ \E n \in 0 .. MaxWrites, torn \in BOOLEAN : CrashInFlush(n, torn)
    \/ \E c \in Clients : CloseReturn(c)

Kinds == Silent \/ Writes \/ Flushes \/ Looks \/ Restarts

(* A step of one client that begins no read keeps the reads.               *)
LEMMA OthersRead ==
    ASSUME TypeOK, NEW c \in Clients,
           NEW where \in ClientPC \ {"getSST", "got", "scanSST", "scanned"},
           pc' = [pc EXCEPT ![c] = where],
           call' = call \/ \E value : call' = [call EXCEPT ![c] = value]
    PROVE  ReadsKept
  <1>1. pc \in [Clients -> ClientPC] /\ call \in [Clients -> CallType]
    BY DEF TypeOK
  <1>2. pc'[c] = where /\ \A o \in Clients : o # c => pc'[o] = pc[o] /\ call'[o] = call[o]
    BY <1>1
  <1>3. QED
    BY <1>2 DEF ReadsKept, Reading

\* Waking a waiting caller does not touch the reads.
LEMMA WokenRead ==
    ASSUME UNCHANGED call,
           \/ NotifyAll("putWait", "putWoken")
           \/ NotifyAll("barWait", "barWoken")
           \/ UNCHANGED pc
    PROVE  ReadsKept
  BY DEF NotifyAll, ReadsKept, Reading

\* A write adds to the history and leaves the files.
LEMMA WriteKind ==
    ASSUME IInv, NEW m, NEW k \in Keys, NEW d \in BOOLEAN, Write(m, k, d),
           up, UNCHANGED <<up, flushed, tables, gone>>, ReadsKept
    PROVE  Writes
  <1> DEFINE rec == [key |-> k, del |-> d, seq |-> Len(log) + 1]
  <1>1. rec \in Record /\ log' = Append(log, rec) /\ rec.seq = Len(log) + 1
    BY DEF Record, IInv, TypeOK, Write
  <1> HIDE DEF rec
  <1>2. QED
    BY <1>1 DEF Writes

\* Every step is of one of these kinds.
LEMMA StepKinds == SafetyInv /\ [Next]_vars => Kinds
  <1> SUFFICES ASSUME SafetyInv, [Next]_vars PROVE Kinds
    OBVIOUS
  <1>a. TypeOK /\ IInv /\ Control
    BY DEF SafetyInv, IInv
  <1>b. {"idle", "putWait", "putWoken", "barWait", "barWoken", "closeNotify", "closeJoin",
         "closeDrain", "closeFlush"} \subseteq ClientPC \ {"getSST", "got", "scanSST", "scanned"}
    BY DEF ClientPC
  <1> USE DEF storeVars, histVars, Goto, Return, MayCall
  <1>1. ASSUME NEW c \in Clients, NEW k \in Keys, NEW d \in BOOLEAN, Put(c, k, d)
        PROVE  Kinds
    <2>1. ReadsKept
      BY <1>1, WokenRead DEF Put
    <2>2. QED
      BY <1>1, <1>a, <2>1, WriteKind DEF Put, Kinds
  <1>2. ASSUME NEW c \in Clients, NEW k \in Keys, NEW d \in BOOLEAN, PutRotate(c, k, d)
        PROVE  Kinds
    <2>1. ReadsKept
      BY <1>2, WokenRead DEF PutRotate
    <2>2. QED
      BY <1>2, <1>a, <2>1, WriteKind DEF PutRotate, RotateAndWrite, Kinds
  <1>3. ASSUME NEW c \in Clients, NEW k \in Keys, NEW d \in BOOLEAN, PutBlock(c, k, d)
        PROVE  Kinds
    BY <1>3, <1>a, <1>b, OthersRead DEF PutBlock, Kinds, Silent
  <1>4. ASSUME NEW c \in Clients, BarrierRotate(c) PROVE Kinds
    BY <1>4, <1>a, <1>b, OthersRead DEF BarrierRotate, Kinds, Silent
  <1>5. ASSUME NEW c \in Clients, BarrierWait(c) PROVE Kinds
    BY <1>5, <1>a, <1>b, OthersRead DEF BarrierWait, Kinds, Silent
  <1>6. ASSUME NEW c \in Clients, BarrierReturn(c) PROVE Kinds
    BY <1>6, WokenRead DEF BarrierReturn, Kinds, Silent
  <1>7. ASSUME NEW c \in Clients, NEW k \in Keys, Get(c, k) PROVE Kinds
    BY <1>7, Zenon DEF Kinds, Looks
  <1>8. ASSUME NEW c \in Clients, GetPrefix(c, Keys) PROVE Kinds
    BY <1>8, Zenon DEF Kinds, Looks
  <1>9. ASSUME NEW c \in Clients, Close(c) PROVE Kinds
    BY <1>9, <1>a, <1>b, OthersRead DEF Close, Kinds, Silent
  <1>10. ASSUME NEW c \in Clients, PutResume(c) PROVE Kinds
    <2>1. up
      BY <1>10, <1>a DEF PutResume, Control, DownIsEmpty
    <2>2. CASE UNCHANGED <<active, immutables, worker, call, log>> /\ Goto(c, "putWait")
      BY <1>10, <1>a, <1>b, <2>2, OthersRead DEF PutResume, Kinds, Silent
    <2>3. ASSUME NEW k \in call[c].keys, RotateAndWrite(k, call[c].del), Return(c) PROVE Kinds
      <3>1. k \in Keys /\ call[c].del \in BOOLEAN
        BY <1>a, <2>3 DEF TypeOK, CallType
      <3>2. ReadsKept
        BY <1>10, <1>a, <1>b, <2>3, OthersRead DEF PutResume
      <3>3. QED
        BY <1>10, <1>a, <2>1, <2>3, <3>1, <3>2, WriteKind DEF PutResume, RotateAndWrite, Kinds
    <2>4. QED
      BY <1>10, <2>2, <2>3 DEF PutResume
  <1>11. ASSUME NEW c \in Clients, BarrierResume(c) PROVE Kinds
    <2>1. ReadsKept
      <3>1. pc[c] # "idle"
        BY <1>11 DEF BarrierResume
      <3>2. QED
        BY <1>11, <1>a, <1>b, <3>1, OthersRead DEF BarrierResume
    <2>2. QED
      BY <1>11, <2>1 DEF BarrierResume, Kinds, Silent
  <1>12. ASSUME NEW c \in Clients, GetSST(c) PROVE Kinds
    BY <1>12, Zenon DEF Kinds, Looks
  <1>13. ASSUME NEW c \in Clients, ScanSST(c) PROVE Kinds
    BY <1>13, Zenon DEF Kinds, Looks
  <1>14. ASSUME NEW c \in Clients, ReadReturn(c) PROVE Kinds
    BY <1>14, <1>a, <1>b, OthersRead DEF ReadReturn, Kinds, Silent
  <1>15. ASSUME NEW c \in Clients, CloseNotify(c) PROVE Kinds
    BY <1>15, <1>a, <1>b, OthersRead DEF CloseNotify, Kinds, Silent
  <1>16. ASSUME NEW c \in Clients, CloseJoin(c) PROVE Kinds
    BY <1>16, <1>a, <1>b, OthersRead DEF CloseJoin, Kinds, Silent
  <1>17. ASSUME NEW c \in Clients, CloseDrain(c) PROVE Kinds
    BY <1>17, <1>a, <1>b, OthersRead DEF CloseDrain, Kinds, Silent
  <1>18. ASSUME NEW c \in Clients, CloseFlush(c) PROVE Kinds
    <2>1. up /\ inflight # <<>>
      BY <1>18, <1>a DEF CloseFlush, Control, DownIsEmpty, InflightOwner
    <2>2. ReadsKept
      BY <1>18, <1>a, <1>b, OthersRead DEF CloseFlush
    <2>3. QED
      BY <1>18, <2>1, <2>2 DEF CloseFlush, Kinds, Flushes
  <1>19. ASSUME NEW c \in Clients, CloseReturn(c) PROVE Kinds
    BY <1>19, Zenon DEF Kinds, Restarts
  <1>20. CASE WorkerPop
    BY <1>20, WokenRead DEF WorkerPop, Kinds, Silent
  <1>21. CASE WorkerExit
    BY <1>21, WokenRead DEF WorkerExit, Kinds, Silent
  <1>22. CASE WorkerFindsNothing
    BY <1>22, WokenRead DEF WorkerFindsNothing, Kinds, Silent
  <1>23. CASE WorkerSleep
    BY <1>23, WokenRead DEF WorkerSleep, Kinds, Silent
  <1>24. CASE WorkerNotifyBackpressure
    BY <1>24, WokenRead DEF WorkerNotifyBackpressure, Kinds, Silent
  <1>25. CASE WorkerFlush
    <2>1. up /\ inflight # <<>>
      BY <1>25, <1>a DEF WorkerFlush, Control, DownIsEmpty, InflightOwner
    <2>2. QED
      BY <1>25, <2>1, WokenRead DEF WorkerFlush, Kinds, Flushes
  <1>26. CASE WorkerClear
    BY <1>26, WokenRead DEF WorkerClear, Kinds, Silent
  <1>27. CASE WorkerNotifyBarrier
    BY <1>27, WokenRead DEF WorkerNotifyBarrier, Kinds, Silent
  <1>28. CASE SpuriousWakeup
    <2>1. ReadsKept
      BY <1>28, <1>a, <1>b, OthersRead, WokenRead DEF SpuriousWakeup
    <2>2. QED
      BY <1>28, <2>1 DEF SpuriousWakeup, Kinds, Silent
  <1>29. CASE Open \/ RemoveAll \/ Crash
    BY <1>29, Zenon DEF Kinds, Restarts
  <1>30. ASSUME NEW n \in 0 .. MaxWrites, NEW torn \in BOOLEAN, CrashInFlush(n, torn)
         PROVE  Kinds
    BY <1>30, Zenon DEF Kinds, Restarts
  <1>31. CASE UNCHANGED vars
    BY <1>31, WokenRead DEF vars, Kinds, Silent
  <1>32. QED
    BY <1>1, <1>2, <1>3, <1>4, <1>5, <1>6, <1>7, <1>8, <1>9, <1>10, <1>11, <1>12, <1>13,
       <1>14, <1>15, <1>16, <1>17, <1>18, <1>19, <1>20, <1>21, <1>22, <1>23, <1>24,
       <1>25, <1>26, <1>27, <1>28, <1>29, <1>30, <1>31, MutationAssumption
       DEF Next, Call, Continue, Worker


--------------------------------------------------------------------------------
(* Every step keeps the files a part of the history.                       *)
LEMMA WriteDisk ==
    ASSUME IInv, DiskInv, Writes PROVE DiskInv'
  <1>1. PICK rec \in Record : rec.seq = Len(log) + 1 /\ log' = Append(log, rec)
    BY DEF Writes
  <1>2. /\ log \in Seq(Record) /\ Len(log) \in Nat /\ flushed \in Nat /\ flushed <= Len(log)
        /\ tables \in Seq(TableType)
    BY FlushedInLog DEF IInv, TypeOK
  <1>3. /\ log' \in Seq(Record) /\ Len(log') = Len(log) + 1 /\ log'[Len(log) + 1] = rec
        /\ \A i \in 1 .. Len(log) : log'[i] = log[i]
    BY <1>1, <1>2, AppendProperties
  <1>4. DOMAIN log = 1 .. Len(log) /\ DOMAIN log' = 1 .. (Len(log) + 1)
    BY <1>2, <1>3
  <1>5. Numbered(log) /\ Disk(log, flushed, tables, gone)
    BY DEF DiskInv, Disk
  <1>6. Numbered(log')
    <2> SUFFICES ASSUME NEW i \in DOMAIN log' PROVE log'[i].seq = i
      BY DEF Numbered
    <2>1. CASE i = Len(log) + 1
      BY <1>1, <1>3, <2>1
    <2>2. CASE i \in 1 .. Len(log)
      BY <1>3, <1>4, <1>5, <2>2 DEF Numbered
    <2>3. QED
      BY <1>2, <1>4, <2>1, <2>2
  <1>7. flushed <= Len(log') /\ \A i \in 1 .. flushed : log'[i] = log[i]
    BY <1>2, <1>3
  <1>8. UNCHANGED <<flushed, tables, gone>>
    BY DEF Writes
  <1>9. PICK g \in Seq(Record) : g = log'
    BY <1>3
  <1>10. Disk(g, flushed, tables, gone)
    BY <1>2, <1>5, <1>6, <1>7, <1>9, DiskHistory
  <1>11. QED
    BY <1>8, <1>9, <1>10 DEF DiskInv

\* A flush, failed or not, adds a file in front.
LEMMA FlushDisk ==
    ASSUME IInv, DiskInv, Flushes PROVE DiskInv'
  <1> DEFINE m == inflight[1]
  <1>1. m \in MemtableType /\ m.base = flushed /\ Holds(m, log)
    BY DEF IInv, TypeOK, WritesInOrder, Flushes
  <1>2. /\ log \in Seq(Record) /\ flushed \in Nat /\ tables \in Seq(TableType)
        /\ Disk(log, flushed, tables, gone)
    BY DEF IInv, TypeOK, DiskInv
  <1>3. flushed' = LastWrite(m) /\ log' = log
    BY DEF Flushes, FlushMemtableToL0
  <1>4. /\ m.data \in Seq(Record) /\ Len(m.data) \in Nat /\ DOMAIN m.data = 1 .. Len(m.data)
        /\ LastWrite(m) = m.base + Len(m.data) /\ LastWrite(m) <= Len(log)
    BY <1>1, MemtableFacts DEF Holds
  <1>5. \/ m.data = <<>> /\ UNCHANGED <<tables, gone>>
        \/ m.data # <<>> /\ tables' = <<FlushedTable(m, Len(m.data), FALSE)>> \o tables /\ gone' = gone
        \/ \E good \in 0 .. (Len(m.data) - 1), torn \in BOOLEAN :
              /\ tables' = <<FlushedTable(m, good, torn)>> \o tables
              /\ gone' = gone \union Shadowed(FlushedTable(m, good, torn))
    BY DEF Flushes, FlushMemtableToL0
  <1> HIDE DEF m
  <1>6. CASE m.data = <<>> /\ UNCHANGED <<tables, gone>>
    <2>1. flushed' = flushed
      BY <1>1, <1>2, <1>3, <1>4, <1>6
    <2>2. QED
      BY <1>2, <1>3, <1>6, <2>1 DEF DiskInv
  <1>7. ASSUME NEW good \in 0 .. Len(m.data), NEW torn \in BOOLEAN, torn => good < Len(m.data),
               NEW more, gone \subseteq more,
               LET t == FlushedTable(m, good, torn)
               IN  \A j \in DOMAIN t.data :
                       t.base + j \notin more => TableHit(t, t.data[j].key) # {}
        PROVE  Disk(log, LastWrite(m), <<FlushedTable(m, good, torn)>> \o tables, more)
    <2> DEFINE t == FlushedTable(m, good, torn)
    <2>1. t \in TableType
      BY <1>1, <1>7, FlushedTableType
    <2>2. t.base = m.base /\ t.data = m.data
      BY DEF FlushedTable
    <2>3. LastWrite(t) = LastWrite(m)
      BY <2>2 DEF LastWrite
    <2>4. \A j \in DOMAIN t.data : t.data[j] = log[t.base + j]
      BY <1>1, <2>2 DEF Holds
    <2>5. \A j \in DOMAIN t.data : t.base + j \notin more => TableHit(t, t.data[j].key) # {}
      BY <1>7
    <2> HIDE DEF t
    <2>6. Disk(log, LastWrite(t), <<t>> \o tables, more)
      BY <1>1, <1>2, <1>4, <1>7, <2>1, <2>2, <2>3, <2>4, <2>5, DiskPush
    <2>7. QED
      BY <2>3, <2>6 DEF t
  <1>8. CASE /\ tables' = <<FlushedTable(m, Len(m.data), FALSE)>> \o tables /\ gone' = gone
    <2> DEFINE t == FlushedTable(m, Len(m.data), FALSE)
    <2>1. Len(m.data) \in 0 .. Len(m.data)
      BY <1>4
    <2>2. t \in TableType
      BY <1>1, <2>1, FlushedTableType
    <2>3. t.good = Len(t.data)
      BY DEF FlushedTable
    <2>4. \A j \in DOMAIN t.data : TableHit(t, t.data[j].key) # {}
      <3> HIDE DEF t
      <3>1. QED
        BY <2>2, <2>3, CompleteHits
    <2>5. \A j \in DOMAIN t.data : t.base + j \notin gone => TableHit(t, t.data[j].key) # {}
      BY <2>4
    <2> HIDE DEF t
    <2>6. Disk(log, LastWrite(m), <<t>> \o tables, gone)
      BY <1>7, <2>1, <2>5 DEF t
    <2>7. QED
      BY <1>3, <1>8, <2>6 DEF t, DiskInv
  <1>9. ASSUME NEW good \in 0 .. (Len(m.data) - 1), NEW torn \in BOOLEAN,
               tables' = <<FlushedTable(m, good, torn)>> \o tables,
               gone' = gone \union Shadowed(FlushedTable(m, good, torn))
        PROVE  DiskInv'
    <2> DEFINE t == FlushedTable(m, good, torn)
               more == gone \union Shadowed(t)
    <2>1. good \in 0 .. Len(m.data) /\ good < Len(m.data)
      BY <1>4
    <2>2. \A j \in DOMAIN t.data : t.base + j \notin more => TableHit(t, t.data[j].key) # {}
      <3> HIDE DEF t
      <3>1. QED
        BY DEF Shadowed
    <2>3. Disk(log, LastWrite(m), <<t>> \o tables, more)
      <3>1. gone \subseteq more
        OBVIOUS
      <3> HIDE DEF more
      <3>2. QED
        BY <1>7, <2>1, <2>2, <3>1
    <2>4. QED
      BY <1>3, <1>9, <2>3 DEF DiskInv
  <1>10. QED
    BY <1>5, <1>6, <1>8, <1>9

(* What a crash leaves is a prefix of the history.                         *)
LEMMA PrefixDisk ==
    ASSUME NEW h \in Seq(Record), NEW n \in 0 .. Len(h), NEW files \in Seq(TableType), NEW lost,
           Disk(h, n, files, lost)
    PROVE  Disk(SubSeq(h, 1, n), n, files, lost)
  <1> DEFINE g == SubSeq(h, 1, n)
  <1>1. Len(h) \in Nat /\ n \in Nat /\ n <= Len(h) /\ DOMAIN h = 1 .. Len(h)
    OBVIOUS
  <1>2. g \in Seq(Record) /\ Len(g) = n /\ \A i \in 1 .. n : g[i] = h[i]
    <2>1. g \in Seq(Record) /\ Len(g) = n
      BY <1>1
    <2>2. QED
      BY <2>1, PrefixElements
  <1>3. Numbered(h)
    BY DEF Disk
  <1> HIDE DEF g
  <1>4. Numbered(g)
    <2>1. DOMAIN g = 1 .. n /\ 1 .. n \subseteq DOMAIN h
      BY <1>1, <1>2
    <2>2. QED
      BY <1>2, <1>3, <2>1 DEF Numbered
  <1>5. n <= Len(g)
    BY <1>1, <1>2
  <1>6. Disk(g, n, files, lost)
    BY <1>1, <1>2, <1>4, <1>5, DiskHistory
  <1>7. QED
    BY <1>6 DEF g

\* A crash in a flush leaves a file that holds a beginning of the memtable.
LEMMA CrashDisk ==
    ASSUME IInv, DiskInv, NEW n \in 0 .. MaxWrites, NEW torn \in BOOLEAN, CrashInFlush(n, torn)
    PROVE  DiskInv'
  <1> DEFINE t == CrashedTable(inflight[1], n, torn)
             more == gone \union Shadowed(t)
             all == <<t>> \o tables
  <1>2. n \in 0 .. Len(inflight[1].data)
    <2>1. inflight # <<>> /\ n <= Len(inflight[1].data)
      BY DEF IInv, CrashInFlush, Control, InflightOwner, Writing
    <2>2. QED
      BY <2>1 DEF IInv, TypeOK, MemtableType
  <1>3. /\ t \in TableType /\ t.base = flushed /\ LastWrite(t) \in flushed .. Len(log)
        /\ \A i \in DOMAIN t.data : t.data[i] = log[t.base + i]
    BY <1>2, CrashedFile DEF CrashInFlush
  <1>4. /\ tables' = all /\ gone' = more /\ flushed' = LastWrite(t)
        /\ log' = SubSeq(log, 1, LastWrite(t))
    BY DEF CrashInFlush
  <1>5. /\ log \in Seq(Record) /\ flushed \in Nat /\ tables \in Seq(TableType)
        /\ Disk(log, flushed, tables, gone)
    BY DEF IInv, TypeOK, DiskInv
  <1>6. gone \subseteq more /\ \A j \in DOMAIN t.data : t.base + j \notin more => TableHit(t, t.data[j].key) # {}
    <2> HIDE DEF t
    <2>1. QED
      BY DEF Shadowed
  <1>7. LastWrite(t) \in 0 .. Len(log) /\ LastWrite(t) <= Len(log)
    BY <1>3, <1>5
  <1> HIDE DEF t, more
  <1>8. Disk(log, LastWrite(t), all, more)
    BY <1>3, <1>5, <1>6, <1>7, DiskPush
  <1>9. all \in Seq(TableType)
    BY <1>3, <1>5, Prepend
  <1> HIDE DEF all
  <1>10. Disk(SubSeq(log, 1, LastWrite(t)), LastWrite(t), all, more)
    BY <1>5, <1>7, <1>8, <1>9, PrefixDisk
  <1>11. QED
    BY <1>4, <1>10 DEF DiskInv

\* An empty directory holds an empty history.
LEMMA EmptyDisk == Disk(<<>>, 0, <<>>, {})
  BY DEF Disk, Numbered

\* Every step keeps what the files hold.
LEMMA DiskStep == SafetyInv /\ DiskInv /\ [Next]_vars => DiskInv'
  <1> SUFFICES ASSUME SafetyInv, DiskInv, [Next]_vars PROVE DiskInv'
    OBVIOUS
  <1>1. IInv
    BY DEF SafetyInv
  <1>2. CASE UNCHANGED <<log, flushed, tables, gone>>
    BY <1>2 DEF DiskInv
  <1>3. CASE Silent
    BY <1>2, <1>3 DEF Silent
  <1>4. CASE Looks
    BY <1>2, <1>4 DEF Looks, Get, GetPrefix, GetSST, ScanSST, storeVars, histVars
  <1>5. CASE Open
    <2>1. tables' = [i \in DOMAIN tables |-> RecoveredTable(tables[i])]
          /\ UNCHANGED <<log, flushed, gone>>
      BY <1>5 DEF Open, histVars
    <2>2. flushed \in Nat /\ tables \in Seq(TableType) /\ Disk(log, flushed, tables, gone)
      BY <1>1 DEF IInv, TypeOK, DiskInv
    <2>3. Disk(log, flushed, [i \in DOMAIN tables |-> RecoveredTable(tables[i])], gone)
      BY <2>2, DiskRecover
    <2>4. QED
      BY <2>1, <2>3 DEF DiskInv
  <1>6. CASE RemoveAll
    BY <1>6, EmptyDisk DEF RemoveAll, DiskInv
  <1>7. CASE Crash
    <2>1. log' = SubSeq(log, 1, flushed) /\ UNCHANGED <<flushed, tables, gone>>
      BY <1>7 DEF Crash
    <2>2. /\ log \in Seq(Record) /\ flushed \in 0 .. Len(log) /\ tables \in Seq(TableType)
          /\ Disk(log, flushed, tables, gone)
      BY <1>1, FlushedInLog DEF IInv, TypeOK, DiskInv
    <2>3. Disk(SubSeq(log, 1, flushed), flushed, tables, gone)
      BY <2>2, PrefixDisk
    <2>4. QED
      BY <2>1, <2>3 DEF DiskInv
  <1>8. CASE \E c \in Clients : CloseReturn(c)
    BY <1>2, <1>8 DEF CloseReturn
  <1>9. QED
    BY <1>1, <1>3, <1>4, <1>5, <1>6, <1>7, <1>8, StepKinds, WriteDisk, FlushDisk, CrashDisk
    DEF Kinds, Restarts


--------------------------------------------------------------------------------
(* The memtables hold what was written after everything that was flushed.  *)
LEMMA MemtablesHold ==
    ASSUME IInv, up, active # <<>>
    PROVE  /\ DOMAIN NewestFirst = 1 .. (Len(immutables) + 1)
           /\ Len(NewestFirst) = Len(immutables) + 1 /\ Len(immutables) \in Nat
           /\ \A i \in DOMAIN NewestFirst :
                 /\ NewestFirst[i] \in MemtableType
                 /\ Holds(NewestFirst[i], log) /\ flushed <= NewestFirst[i].base
  <1> USE DEF IInv
  <1> DEFINE l == Len(immutables)
  <1>1. l \in Nat /\ immutables \in Seq(MemtableType) /\ DOMAIN immutables = 1 .. l
    BY DEF TypeOK
  <1>2. DOMAIN NewestFirst = 1 .. (l + 1) /\ Len(NewestFirst) = l + 1
    BY <1>1 DEF NewestFirst
  <1>3. /\ flushed \in Nat /\ AfterInflight \in Nat /\ AfterImmutables \in Nat
        /\ flushed <= AfterInflight /\ AfterInflight <= AfterImmutables
    BY FlushedInLog DEF TypeOK
  <1>4. /\ active[1] \in MemtableType /\ Holds(active[1], log) /\ flushed <= active[1].base
    <2>1. active[1] \in MemtableType /\ active[1].base = AfterImmutables
      BY BaseInLog
    <2>2. QED
      BY <1>3, <2>1 DEF WritesInOrder
  <1>5. ASSUME NEW j \in DOMAIN immutables
        PROVE  /\ immutables[j] \in MemtableType /\ Holds(immutables[j], log)
               /\ flushed <= immutables[j].base
    <2>1. /\ immutables[j] \in MemtableType /\ immutables[1] \in MemtableType
          /\ immutables # <<>> /\ 1 \in DOMAIN immutables
      BY <1>1, <1>5
    <2>2. Holds(immutables[j], log) /\ immutables[1].base = AfterInflight
      BY <2>1 DEF WritesInOrder
    <2>3. immutables[j].base \in Nat /\ immutables[1].base <= LastWrite(immutables[1])
          /\ LastWrite(immutables[1]) \in Nat
      BY <2>1, MemtableFacts
    <2>4. j = 1 \/ 1 < j
      BY <1>1
    <2>5. j = 1 \/ LastWrite(immutables[1]) <= immutables[j].base
      BY <2>1, <2>4 DEF QueueMonotone
    <2>6. QED
      BY <1>3, <2>1, <2>2, <2>3, <2>5
  <1>6. ASSUME NEW i \in 1 .. (l + 1)
        PROVE  NewestFirst[i] = active[1] \/ \E j \in DOMAIN immutables : NewestFirst[i] = immutables[j]
    <2>1. CASE i = 1
      BY <1>1, <2>1 DEF NewestFirst
    <2>2. CASE i # 1
      <3>1. l + 2 - i \in DOMAIN immutables
        BY <1>1, <2>2
      <3>2. NewestFirst[i] = immutables[l + 2 - i]
        BY <2>2 DEF NewestFirst
      <3>3. QED
        BY <3>1, <3>2
    <2>3. QED
      BY <2>1, <2>2
  <1> HIDE DEF l
  <1>7. QED
    BY <1>1, <1>2, <1>4, <1>5, <1>6 DEF l

\* What is found in memory is newer than all that was flushed.
LEMMA MemFinds ==
    ASSUME IInv, DiskInv, up, active # <<>>, NEW k, NEW rec \in MemGet(k) \union MemScan(k)
    PROVE  rec.key = k /\ rec.seq \in DOMAIN log /\ log[rec.seq] = rec /\ rec.seq > flushed
  <1> DEFINE n == Len(NewestFirst)
  <1>1. /\ n \in Nat /\ DOMAIN NewestFirst = 1 .. n
        /\ \A i \in 1 .. n :
              /\ NewestFirst[i] \in MemtableType
              /\ Holds(NewestFirst[i], log) /\ flushed <= NewestFirst[i].base
    BY MemtablesHold
  <1> HIDE DEF n
  <1>2. \E i \in 1 .. n : rec \in MemHit(NewestFirst[i], k)
    <2>1. CASE rec \in MemGet(k)
      <3> DEFINE hits == [i \in DOMAIN NewestFirst |-> MemHit(NewestFirst[i], k)]
      <3>1. rec \in FirstHit(hits) /\ DOMAIN hits = 1 .. n
        BY <1>1, <2>1 DEF MemGet
      <3>2. PICK i \in 1 .. n : rec \in hits[i]
        <4> HIDE DEF hits
        <4>1. QED
          BY <3>1, FirstHitIs
      <3>3. QED
        BY <1>1, <3>2
    <2>2. CASE rec \in MemScan(k)
      <3> DEFINE hits == [i \in 1 .. n |-> MemHit(NewestFirst[n + 1 - i], k)]
      <3>1. rec \in FirstHit(hits) /\ DOMAIN hits = 1 .. n
        BY <2>2 DEF MemScan, n
      <3>2. PICK i \in 1 .. n : rec \in hits[i]
        <4> HIDE DEF hits
        <4>1. QED
          BY <3>1, FirstHitIs
      <3>3. n + 1 - i \in 1 .. n
        BY <1>1
      <3>4. QED
        BY <3>2, <3>3
    <2>3. QED
      BY <2>1, <2>2
  <1>3. PICK i \in 1 .. n : rec \in MemHit(NewestFirst[i], k)
    BY <1>2
  <1> DEFINE m == NewestFirst[i]
  <1>4. m \in MemtableType /\ Holds(m, log) /\ flushed <= m.base /\ rec \in MemHit(m, k)
    BY <1>1, <1>3
  <1> HIDE DEF m
  <1>5. PICK j \in DOMAIN m.data : rec = m.data[j] /\ rec.key = k
    BY <1>4 DEF MemHit, NewestAt
  <1>6. /\ m.base \in Nat /\ Len(m.data) \in Nat /\ j \in 1 .. Len(m.data)
        /\ LastWrite(m) = m.base + Len(m.data) /\ LastWrite(m) <= Len(log)
        /\ flushed \in Nat /\ Len(log) \in Nat /\ DOMAIN log = 1 .. Len(log)
    BY <1>4, <1>5, MemtableFacts DEF Holds, IInv, TypeOK
  <1>7. rec = log[m.base + j]
    BY <1>4, <1>5 DEF Holds
  <1>8. m.base + j \in DOMAIN log /\ m.base + j > flushed
    BY <1>4, <1>6
  <1>9. rec.seq = m.base + j
    BY <1>7, <1>8 DEF DiskInv, Disk, Numbered
  <1>10. QED
    BY <1>5, <1>7, <1>8, <1>9

(* What a lookup in the files finds now.                                   *)
LEMMA FilesFind ==
    ASSUME IInv, DiskInv, NEW k
    PROVE  /\ \A rec \in TablesGet(k) :
                 rec.key = k /\ rec.seq \in DOMAIN log /\ log[rec.seq] = rec
           /\ \A i \in (1 .. flushed) \ gone :
                 log[i].key = k => TablesGet(k) # {} /\ \A rec \in TablesGet(k) : rec.seq >= i
  <1>1. /\ log \in Seq(Record) /\ flushed \in Nat /\ flushed <= Len(log) /\ Len(log) \in Nat
        /\ tables \in Seq(TableType) /\ Disk(log, flushed, tables, gone)
    BY FlushedInLog DEF IInv, TypeOK, DiskInv
  <1> DEFINE found == TablesGet(k)
             hits == [p \in DOMAIN tables |-> TableHit(tables[p], k)]
  <1>2. found = FirstHit(hits) /\ Answers(tables, k, hits)
    BY DEF TablesGet, Answers
  <1>3. /\ \A rec \in TablesGet(k) : rec.key = k /\ rec.seq \in 1 .. flushed /\ log[rec.seq] = rec
        /\ \A i \in (1 .. flushed) \ gone :
              log[i].key = k => TablesGet(k) # {} /\ \A rec \in TablesGet(k) : rec.seq >= i
    <2> HIDE DEF found, hits
    <2>1. /\ \A rec \in found : rec.key = k /\ rec.seq \in 1 .. flushed /\ log[rec.seq] = rec
          /\ \A i \in (1 .. flushed) \ gone :
                log[i].key = k => found # {} /\ \A rec \in found : rec.seq >= i
      BY <1>1, <1>2, DiskFinds
    <2>2. QED
      BY <2>1 DEF found
  <1>4. 1 .. flushed \subseteq DOMAIN log
    BY <1>1
  <1>5. QED
    BY <1>3, <1>4

--------------------------------------------------------------------------------
(* Reads in progress.                                                      *)
LEMMA GrownHistory ==
    ASSUME NEW h \in Seq(Record), NEW rec \in Record, NEW i \in DOMAIN h
    PROVE  i \in DOMAIN Append(h, rec) /\ Append(h, rec)[i] = h[i]
  BY AppendProperties

(* A read goes on while others write and flush.                            *)
LEMMA ReadGoesOn ==
    ASSUME IInv, NEW c \in Clients, ReadOK(c), pc'[c] = pc[c], call'[c] = call[c],
           up', gone \subseteq gone', flushed <= flushed', flushed' \in Nat,
           log' = log \/ \E rec \in Record : log' = Append(log, rec)
    PROVE  ReadOK(c)'
  <1>1. /\ log \in Seq(Record) /\ flushed \in Nat /\ flushed <= Len(log) /\ Len(log) \in Nat
        /\ call[c].sync \in Nat /\ DOMAIN log = 1 .. Len(log)
    BY FlushedInLog DEF IInv, TypeOK, CallType
  <1>2. \A i \in DOMAIN log : i \in DOMAIN log' /\ log'[i] = log[i]
    <2>1. CASE log' = log
      BY <2>1
    <2>2. ASSUME NEW rec \in Record, log' = Append(log, rec)
          PROVE  \A i \in DOMAIN log : i \in DOMAIN log' /\ log'[i] = log[i]
      BY <1>1, <2>2, GrownHistory
    <2>3. QED
      BY <2>1, <2>2
  <1>3. CASE ~Reading(c)
    BY <1>3 DEF ReadOK, Reading
  <1>4. CASE Reading(c)
    <2>1. call[c].sync <= flushed /\ 1 .. call[c].sync \subseteq DOMAIN log
      BY <1>1, <1>4 DEF ReadOK
    <2>2. up' /\ call'[c].sync <= flushed'
      BY <1>1, <2>1
    <2>3. GetFound(c) => GetFound(c)'
      BY <1>2, <2>1 DEF GetFound
    <2>4. ScanNewer(c) => ScanNewer(c)'
      BY <1>2 DEF ScanNewer
    <2>5. ScanFound(c) => ScanFound(c)'
      BY <1>2, <2>1 DEF ScanFound
    <2>6. QED
      BY <2>2, <2>3, <2>4, <2>5 DEF ReadOK
  <1>5. QED
    BY <1>3, <1>4

(* Nobody reads from a store that is not open, nor when it opens.          *)
LEMMA NobodyReads ==
    ASSUME \A c \in Clients : pc'[c] = "idle" PROVE ReadInv'
  BY DEF ReadInv, ReadOK, Reading


(* The read that looks.  get begins in the memtables: what it finds there  *)
(* is newer than everything flushed.                                       *)
LEMMA GetBegins ==
    ASSUME IInv, DiskInv, synced <= flushed, NEW c \in Clients, NEW k \in Keys, Get(c, k)
    PROVE  ReadOK(c)'
  <1>1. /\ up /\ ~shuttingDown /\ pc[c] = "idle" /\ UNCHANGED <<up, log, flushed, gone>>
    BY DEF Get, MayCall, histVars
  <1>2. active # <<>>
    BY <1>1, CallerHasActive DEF IInv, Closing
  <1>3. /\ flushed \in Nat /\ synced \in Nat
    BY DEF IInv, TypeOK
  <1>4. /\ call'[c].keys = {k} /\ call'[c].sync = synced /\ call'[c].found = MemGet(k)
        /\ pc'[c] = IF MemGet(k) = {} THEN "getSST" ELSE "got"
    BY DEF Get, Goto, NewCall, IInv, TypeOK
  <1>5. ASSUME MemGet(k) # {} PROVE GetFound(c)'
    <2> SUFFICES ASSUME NEW i \in (1 .. synced) \ gone, log[i].key \in {k}
                 PROVE  \E rec \in MemGet(k) : rec.key = log[i].key /\ rec.seq >= i
      BY <1>1, <1>4 DEF GetFound
    <2>1. PICK rec \in MemGet(k) : TRUE
      BY <1>5
    <2>2. rec.key = k /\ rec.seq \in DOMAIN log /\ rec.seq > flushed
      BY <1>1, <1>2, MemFinds
    <2>3. rec.seq \in Nat
      BY <2>2 DEF IInv, TypeOK
    <2>4. rec.seq >= i
      BY <1>3, <2>2, <2>3
    <2>5. QED
      BY <2>2, <2>4
  <1>6. up' /\ call'[c].sync <= flushed'
    BY <1>1, <1>4
  <1>7. QED
    BY <1>4, <1>5, <1>6 DEF ReadOK, Reading

\* A get that has searched the files is not behind the barrier.
LEMMA GetEnds ==
    ASSUME IInv, DiskInv, NEW c \in Clients, ReadOK(c), GetSST(c)
    PROVE  ReadOK(c)'
  <1>1. /\ pc[c] = "getSST" /\ UNCHANGED <<up, log, flushed, gone>>
    BY DEF GetSST, histVars
  <1>2. up /\ call[c].sync <= flushed
    BY <1>1 DEF ReadOK, Reading
  <1>3. flushed \in Nat /\ call[c].sync \in Nat /\ call[c].keys \subseteq Keys
    BY DEF IInv, TypeOK, CallType
  <1>4. /\ call'[c].keys = call[c].keys /\ call'[c].sync = call[c].sync
        /\ call'[c].found = UNION {TablesGet(k) : k \in call[c].keys}
        /\ pc'[c] = "got"
    BY DEF GetSST, Goto, IInv, TypeOK, CallType
  <1>5. GetFound(c)'
    <2> SUFFICES ASSUME NEW i \in (1 .. call[c].sync) \ gone, log[i].key \in call[c].keys
                 PROVE  \E rec \in UNION {TablesGet(k) : k \in call[c].keys} :
                            rec.key = log[i].key /\ rec.seq >= i
      BY <1>1, <1>4 DEF GetFound
    <2> DEFINE k == log[i].key
    <2>1. i \in (1 .. flushed) \ gone
      BY <1>2, <1>3
    <2> HIDE DEF k
    <2>2. TablesGet(k) # {} /\ \A rec \in TablesGet(k) : rec.key = k /\ rec.seq >= i
      BY <2>1, FilesFind DEF k
    <2>3. QED
      BY <2>2 DEF k
  <1>6. QED
    BY <1>1, <1>2, <1>4, <1>5 DEF ReadOK, Reading

(* getPrefix begins in the memtables too.                                  *)
LEMMA ScanBegins ==
    ASSUME IInv, DiskInv, synced <= flushed, NEW c \in Clients, GetPrefix(c, Keys)
    PROVE  ReadOK(c)'
  <1>1. /\ up /\ ~shuttingDown /\ pc[c] = "idle" /\ UNCHANGED <<up, log, flushed, gone>>
    BY DEF GetPrefix, MayCall, histVars
  <1>2. active # <<>>
    BY <1>1, CallerHasActive DEF IInv, Closing
  <1>3. /\ flushed \in Nat /\ synced \in Nat
    BY DEF IInv, TypeOK
  <1>4. /\ call'[c].sync = synced /\ call'[c].found = UNION {MemScan(k) : k \in Keys}
        /\ pc'[c] = "scanSST"
    BY DEF GetPrefix, Goto, NewCall, IInv, TypeOK
  <1>5. ScanNewer(c)'
    <2> SUFFICES ASSUME NEW k \in Keys, NEW rec \in MemScan(k)
                 PROVE  rec.seq \in DOMAIN log /\ log[rec.seq] = rec /\ rec.seq > synced
      BY <1>1, <1>4 DEF ScanNewer
    <2>1. rec.seq \in DOMAIN log /\ log[rec.seq] = rec /\ rec.seq > flushed
      BY <1>1, <1>2, MemFinds
    <2>2. rec.seq \in Nat
      BY <2>1 DEF IInv, TypeOK
    <2>3. QED
      BY <1>3, <2>1, <2>2
  <1>6. QED
    BY <1>1, <1>4, <1>5 DEF ReadOK, Reading

\* A scan that has searched the files has the newest of every quiet key.
LEMMA ScanEnds ==
    ASSUME IInv, DiskInv, NEW c \in Clients, ReadOK(c), ScanSST(c)
    PROVE  ReadOK(c)'
  <1> DEFINE todo == {k \in call[c].keys : \A r \in call[c].found : r.key # k}
             old == call[c].found
             new == UNION {TablesGet(k) : k \in todo}
  <1>1. /\ pc[c] = "scanSST" /\ UNCHANGED <<up, log, flushed, gone>>
    BY DEF ScanSST, histVars
  <1>2. up /\ call[c].sync <= flushed /\ ScanNewer(c)
    BY <1>1 DEF ReadOK, Reading
  <1>3. /\ flushed \in Nat /\ call[c].sync \in Nat /\ flushed <= Len(log) /\ Len(log) \in Nat
        /\ DOMAIN log = 1 .. Len(log)
    BY FlushedInLog DEF IInv, TypeOK, CallType
  <1>4. /\ call'[c].keys = call[c].keys /\ call'[c].sync = call[c].sync
        /\ call'[c].found = old \union new
        /\ pc'[c] = "scanned"
    BY DEF ScanSST, Goto, IInv, TypeOK, CallType
  <1>5. ScanFound(c)'
    <2> SUFFICES ASSUME NEW i \in (1 .. call[c].sync) \ gone, log[i].key \in call[c].keys,
                        \A j \in DOMAIN log : j > i => log[j].key # log[i].key
                 PROVE  {rec \in old \union new : rec.key = log[i].key} = {log[i]}
      <3> HIDE DEF old, new
      <3>1. QED
        BY <1>1, <1>4 DEF ScanFound
    <2> DEFINE kk == log[i].key
    <2>1. i \in (1 .. flushed) \ gone /\ i \in DOMAIN log /\ i \in Nat
      BY <1>2, <1>3
    <2>2. ASSUME NEW rec \in old PROVE rec.key # kk
      <3>1. rec.seq \in DOMAIN log /\ log[rec.seq] = rec /\ rec.seq > call[c].sync
        BY <1>2 DEF ScanNewer
      <3>2. rec.seq > i
        BY <1>3, <3>1
      <3>3. QED
        BY <3>1, <3>2
    <2>3. kk \in todo
      BY <2>2
    <2> HIDE DEF old, todo
    <2>4. TablesGet(kk) = {log[i]}
      <3> HIDE DEF kk
      <3>1. /\ TablesGet(kk) # {}
            /\ \A rec \in TablesGet(kk) : /\ rec.key = kk /\ rec.seq \in DOMAIN log
                                          /\ log[rec.seq] = rec /\ rec.seq >= i
        BY <2>1, FilesFind DEF kk
      <3>2. ASSUME NEW rec \in TablesGet(kk) PROVE rec = log[i]
        <4>1. ~(rec.seq > i)
          BY <3>1 DEF kk
        <4>2. rec.seq \in Nat
          BY <1>3, <3>1
        <4>3. rec.seq = i
          BY <2>1, <3>1, <4>1, <4>2
        <4>4. QED
          BY <3>1, <4>3
      <3>3. QED
        BY <3>1, <3>2
    <2>5. \A k \in todo : \A rec \in TablesGet(k) : rec.key = k
      BY FilesFind
    <2>6. QED
      BY <2>2, <2>3, <2>4, <2>5
  <1>6. QED
    BY <1>1, <1>2, <1>4, <1>5 DEF ReadOK, Reading

\* Beginning, going on with and ending a read keeps what reads rely on.
LEMMA LookStep ==
    ASSUME IInv, DiskInv, ReadInv, synced <= flushed, Looks PROVE ReadInv'
  <1>1. PICK c \in Clients :
            \/ \E k \in Keys : Get(c, k)
            \/ GetPrefix(c, Keys) \/ GetSST(c) \/ ScanSST(c)
    BY DEF Looks
  <1>2. ReadOK(c)'
    BY <1>1, GetBegins, GetEnds, ScanBegins, ScanEnds DEF ReadInv
  <1>3. ASSUME NEW o \in Clients, o # c PROVE ReadOK(o)'
    <2>1. /\ pc'[o] = pc[o] /\ call'[o] = call[o] /\ UNCHANGED <<up, log, flushed, gone>>
      BY <1>1, <1>3 DEF Get, GetPrefix, GetSST, ScanSST, Goto, histVars, IInv, TypeOK
    <2>2. CASE up
      <3>1. flushed <= flushed' /\ flushed' \in Nat
        BY <2>1 DEF IInv, TypeOK
      <3>2. QED
        BY <2>1, <2>2, <3>1, ReadGoesOn DEF ReadInv
    <2>3. CASE ~up
      BY <2>1, <2>3 DEF ReadOK, Reading, IInv, Control, DownIsEmpty
    <2>4. QED
      BY <2>2, <2>3
  <1>4. QED
    BY <1>2, <1>3 DEF ReadInv

\* Every step keeps what reads rely on.
LEMMA ReadStep == SafetyInv /\ DiskInv /\ ReadInv /\ [Next]_vars => ReadInv'
  <1> SUFFICES ASSUME SafetyInv, DiskInv, ReadInv, [Next]_vars PROVE ReadInv'
    OBVIOUS
  <1>1. IInv /\ BarrierInv /\ IInv' /\ synced <= flushed /\ TypeOK /\ TypeOK'
    BY NextSafety DEF SafetyInv, BarrierInv, IInv
  <1>2. CASE ~up'
    BY <1>1, <1>2, NobodyReads DEF IInv, Control, DownIsEmpty
  <1>3. CASE Open
    BY <1>1, <1>3, NobodyReads DEF Open, IInv, Control, DownIsEmpty
  <1>4. CASE Looks
    BY <1>1, <1>4, LookStep
  <1>5. ASSUME up', ReadsKept, gone \subseteq gone', flushed <= flushed',
               log' = log \/ \E rec \in Record : log' = Append(log, rec)
        PROVE  ReadInv'
    <2> SUFFICES ASSUME NEW c \in Clients PROVE ReadOK(c)'
      BY DEF ReadInv
    <2>1. CASE Reading(c)'
      <3>1. pc'[c] = pc[c] /\ call'[c] = call[c] /\ flushed' \in Nat /\ ReadOK(c)
        BY <1>1, <1>5, <2>1 DEF ReadsKept, TypeOK, ReadInv
      <3>2. QED
        BY <1>1, <1>5, <3>1, ReadGoesOn
    <2>2. CASE ~Reading(c)'
      BY <2>2 DEF ReadOK, Reading
    <2>3. QED
      BY <2>1, <2>2
  <1>6. CASE up' /\ Silent
    BY <1>1, <1>5, <1>6 DEF Silent, TypeOK
  <1>7. CASE up' /\ Writes
    BY <1>1, <1>5, <1>7 DEF Writes, TypeOK
  <1>8. CASE up' /\ Flushes
    <2>1. flushed <= flushed'
      <3>1. flushed' = LastWrite(inflight[1]) /\ inflight # <<>> /\ up
        BY <1>8 DEF Flushes, FlushMemtableToL0
      <3>2. inflight[1] \in MemtableType /\ inflight[1].base = flushed
        BY <1>1, <3>1 DEF IInv, TypeOK, WritesInOrder
      <3>3. QED
        BY <3>1, <3>2, MemtableFacts
    <2>2. gone \subseteq gone'
      BY <1>8 DEF Flushes, FlushMemtableToL0
    <2>3. QED
      BY <1>5, <1>8, <2>1, <2>2 DEF Flushes
  <1>9. CASE Restarts
    <2>1. Open \/ ~up'
      BY <1>1, <1>9 DEF Restarts, RemoveAll, Crash, CrashInFlush, CloseReturn, LoseMemory, TypeOK
    <2>2. QED
      BY <1>2, <1>3, <2>1
  <1>10. QED
    BY <1>2, <1>4, <1>6, <1>7, <1>8, <1>9, StepKinds DEF Kinds

\* At first there are no files and no reads.
LEMMA InitReads == Init => DiskInv /\ ReadInv
  <1> SUFFICES ASSUME Init PROVE DiskInv /\ ReadInv
    OBVIOUS
  <1>1. DiskInv
    BY EmptyDisk DEF Init, DiskInv
  <1>2. ReadInv
    BY DEF Init, ReadInv, ReadOK, Reading
  <1>3. QED
    BY <1>1, <1>2

(* The files are a part of the history, and the reads in progress rely on  *)
(* nothing that other threads can take away.                               *)
THEOREM ReadsInvariant == Spec => [](SafetyInv /\ DiskInv /\ ReadInv)
  BY InitSafety, NextSafety, InitReads, DiskStep, ReadStep, PTL DEF Spec

(* What a completed writeBarrier covers is found in the files alone, in    *)
(* the list order in which get and getPrefix search them: the write itself *)
(* or a newer one with its key, whatever was flushed, failed, crashed or   *)
(* was recovered in between.                                               *)
THEOREM BarrieredReadable == Spec => []BarrieredOnDisk
  <1>1. SafetyInv /\ DiskInv => BarrieredOnDisk
    <2> SUFFICES ASSUME SafetyInv, DiskInv PROVE BarrieredOnDisk
      OBVIOUS
    <2>1. IInv /\ synced <= flushed /\ synced \in Nat /\ flushed \in Nat
      BY DEF SafetyInv, BarrierInv, IInv, TypeOK
    <2>2. ASSUME NEW i \in (1 .. synced) \ gone
          PROVE  \E rec \in TablesGet(log[i].key) : rec.seq >= i
      <3>1. i \in (1 .. flushed) \ gone
        BY <2>1
      <3>2. PICK k : k = log[i].key
        OBVIOUS
      <3>3. TablesGet(k) # {} /\ \A rec \in TablesGet(k) : rec.seq >= i
        BY <2>1, <3>1, <3>2, FilesFind
      <3>4. QED
        BY <3>2, <3>3
    <2>3. QED
      BY <2>1, <2>2 DEF BarrieredOnDisk
  <1>2. QED
    BY <1>1, ReadsInvariant, PTL

(* get looks into the memtables under the mutex and into the files after   *)
(* releasing it; rotations, flushes and other writes may happen between.   *)
(* It never answers with a version older than the one the last completed   *)
(* writeBarrier covered when it began.                                     *)
THEOREM GetsNotBehindBarrier == Spec => []GetNotBehindBarrier
  <1>1. ReadInv => GetNotBehindBarrier
    BY DEF ReadInv, ReadOK, GetFound, GetNotBehindBarrier
  <1>2. QED
    BY <1>1, ReadsInvariant, PTL

(* getPrefix, which merges the memtables in an order in which old versions *)
(* overwrite new ones, still returns exactly the last version of every key *)
(* that was not written since the barrier.                                 *)
THEOREM ScansExactWhenQuiet == Spec => []ScanExactWhenQuiet
  <1>1. ReadInv => ScanExactWhenQuiet
    BY DEF ReadInv, ReadOK, ScanFound, ScanExactWhenQuiet
  <1>2. QED
    BY <1>1, ReadsInvariant, PTL
================================================================================
