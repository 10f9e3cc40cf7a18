---------------------------- MODULE PluginProofs ----------------------------
(***************************************************************************)
(* Proofs about the ADIOS2 engine and about the groups of ranks, for every *)
(* size of the job, every placement of its ranks and every way to group    *)
(* them: no two ranks write under one key, a rank reads what it has put    *)
(* last, and an opening rank finds the variables it has described.         *)
(*                                                                         *)
(* The entries of a store carry the texts of what was written (Sound), so  *)
(* the proofs begin with the texts: numbers that are joined by commas and  *)
(* descriptions that are joined by semicolons are read back as they were.  *)
(* The loops of the code are recursive functions; a loop has a value       *)
(* because each of its turns has one (LoopRuns).                           *)
(***************************************************************************)
EXTENDS Plugin, FiniteSetTheorems, WellFoundedInduction, TLAPS

(***************************************************************************)
(* The groups.                                                             *)
(***************************************************************************)
\* A group is a finite set of ranks.
LEMMA GroupsFinite ==
  ASSUME NEW a, NEW r
  PROVE  /\ AggComm(a, r) \subseteq Ranks /\ IsFiniteSet(AggComm(a, r))
         /\ AggSize(a, r) \in Nat
  <1>1. AggComm(a, r) \subseteq Ranks
    BY DEF AggComm
  <1>2. IsFiniteSet(Ranks)
    BY WorldAssumption, FS_Interval DEF Ranks
  <1>3. IsFiniteSet(AggComm(a, r))
    BY <1>1, <1>2, FS_Subset
  <1>4. QED
    BY <1>1, <1>3, FS_CardinalityType DEF AggSize

\* A rank further up in a group has more ranks of the group before it.
LEMMA AggRankGrows ==
  ASSUME NEW a, NEW r \in Ranks, NEW s \in Ranks, r < s, AggComm(a, r) = AggComm(a, s)
  PROVE  AggRank(a, r) < AggRank(a, s)
  <1> DEFINE comm == AggComm(a, s)
             low == {x \in comm : x < r}
             high == {x \in comm : x < s}
  <1>1. IsFiniteSet(high) /\ comm \subseteq Int
    <2>1. IsFiniteSet(comm) /\ high \subseteq comm /\ comm \subseteq Ranks
      BY GroupsFinite
    <2>2. QED
      BY <2>1, FS_Subset, WorldAssumption DEF Ranks
  <1>2. r \in Int /\ s \in Int
    BY WorldAssumption DEF Ranks
  <1>3. r \in comm
    <2>1. r \in AggComm(a, r)
      BY DEF AggComm
    <2>2. QED
      BY <2>1
  <1>4. low \subseteq high /\ r \in high /\ r \notin low
    BY <1>1, <1>2, <1>3
  <1>5. Cardinality(low) < Cardinality(high)
    <2>1. low # high
      BY <1>4
    <2> HIDE DEF low, high
    <2>2. IsFiniteSet(low) /\ Cardinality(low) \in Nat /\ Cardinality(high) \in Nat
      BY <1>1, <1>4, FS_Subset, FS_CardinalityType
    <2>3. QED
      BY <1>1, <1>4, <2>1, <2>2, FS_Subset
  <1>6. QED
    BY <1>5 DEF AggRank

\* A place in a group is a number.
LEMMA AggRankType ==
  ASSUME NEW a, NEW r
  PROVE  AggRank(a, r) \in Nat
  <1>1. {y \in AggComm(a, r) : y < r} \subseteq AggComm(a, r) /\ IsFiniteSet(AggComm(a, r))
    BY GroupsFinite
  <1>2. IsFiniteSet({y \in AggComm(a, r) : y < r})
    BY <1>1, FS_Subset
  <1>3. QED
    BY <1>2, FS_CardinalityType DEF AggRank

\* The ranks of a group are told apart by their places in it.
LEMMA PlaceNamesRank ==
  ASSUME NEW a, NEW r \in Ranks, NEW s \in Ranks,
         AggComm(a, r) = AggComm(a, s), AggRank(a, r) = AggRank(a, s)
  PROVE  r = s
  <1>1. r \in Int /\ s \in Int
    BY WorldAssumption DEF Ranks
  <1>2. AggRank(a, r) \in Nat /\ AggRank(a, s) \in Nat
    BY AggRankType
  <1>3. CASE r < s
    BY <1>2, <1>3, AggRankGrows
  <1>4. CASE s < r
    BY <1>2, <1>4, AggRankGrows
  <1>5. QED
    BY <1>1, <1>3, <1>4

\* Ranks with a common member in their groups have one group.
LEMMA GroupsDisjoint ==
  ASSUME NEW a, NEW r \in Ranks, NEW s \in Ranks, NEW x \in AggComm(a, r), x \in AggComm(a, s)
  PROVE  AggComm(a, r) = AggComm(a, s)
  BY DEF AggComm

\* Every group has a first rank, and it is the group's aggregator.
LEMMA AggregatorInGroup ==
  ASSUME NEW a, NEW r \in Ranks
  PROVE  Aggregator(a, r) \in AggComm(a, r)
  <1> DEFINE R == {pair \in Nat \X Nat : pair[1] < pair[2]}
  <1>1. IsWellFoundedOn(R, Nat)
    BY NatLessThanWellFounded, Zenon DEF OpToRel
  <1>2. AggComm(a, r) \subseteq Nat /\ AggComm(a, r) # {}
    <2>1. r \in AggComm(a, r) /\ AggComm(a, r) \subseteq Ranks
      BY DEF AggComm
    <2>2. Ranks \subseteq Nat
      BY WorldAssumption DEF Ranks
    <2>3. QED
      BY <2>1, <2>2
  <1>3. \E x \in AggComm(a, r) : \A y \in AggComm(a, r) : ~ <<y, x>> \in R
    <2> HIDE DEF R
    <2>1. QED
      BY <1>1, <1>2, WFMin
  <1>4. PICK x \in AggComm(a, r) : \A y \in AggComm(a, r) : ~ (y < x)
    BY <1>2, <1>3
  <1>5. {y \in AggComm(a, x) : y < x} = {}
    <2>1. x \in Ranks /\ x \in AggComm(a, x)
      BY DEF AggComm
    <2>2. AggComm(a, x) = AggComm(a, r)
      BY <2>1, GroupsDisjoint
    <2>3. QED
      BY <1>4, <2>2
  <1>6. AggRank(a, x) = 0
    BY <1>5, FS_EmptySet DEF AggRank
  <1>7. QED
    BY <1>6 DEF Aggregator

\* The ranks of one store have one group.
LEMMA StoreNamesGroup ==
  ASSUME NEW a, NEW r \in Ranks, NEW s \in Ranks, IsShared, DbPath(a, r) = DbPath(a, s)
  PROVE  AggComm(a, r) = AggComm(a, s)
  <1>1. CASE IsSharedSplit(a)
    <2>1. Aggregator(a, r) = Aggregator(a, s)
      BY <1>1 DEF DbPath
    <2>2. QED
      BY <2>1, AggregatorInGroup, GroupsDisjoint
  <1>2. CASE ~IsSharedSplit(a)
    BY <1>2 DEF IsSharedSplit, AggComm, Color
  <1>3. QED
    BY <1>1, <1>2

\* The directory and the rank in the key name a rank of the job.
LEMMA KeyNamesRank ==
  ASSUME NEW a, NEW r \in Ranks, NEW s \in Ranks,
         DbPath(a, r) = DbPath(a, s), RankOfKey(a, r) = RankOfKey(a, s)
  PROVE  r = s
  <1>1. CASE ~IsShared
    BY <1>1, WorldAssumption DEF IsShared, Ranks
  <1>2. CASE IsShared
    <2>1. AggComm(a, r) = AggComm(a, s)
      BY <1>2, StoreNamesGroup
    <2>2. AggSize(a, r) = AggSize(a, s)
      BY <2>1 DEF AggSize
    <2>3. CASE AggSize(a, r) > 1
      <3>1. AggRank(a, r) = AggRank(a, s)
        BY <1>2, <2>2, <2>3 DEF RankOfKey
      <3>2. QED
        BY <2>1, <3>1, PlaceNamesRank
    <2>4. CASE ~(AggSize(a, r) > 1)
      <3>1. r \in AggComm(a, r) /\ s \in AggComm(a, r)
        <4>1. r \in AggComm(a, r) /\ s \in AggComm(a, s)
          BY DEF AggComm
        <4>2. QED
          BY <2>1, <4>1
      <3>2. {r, s} \subseteq AggComm(a, r) /\ IsFiniteSet(AggComm(a, r))
        BY <3>1, GroupsFinite
      <3>3. Cardinality({r, s}) <= AggSize(a, r) /\ IsFiniteSet({r, s})
        BY <3>2, FS_Subset DEF AggSize
      <3>4. CASE r # s
        <4>1. Cardinality({r, s}) = 2
          <5>1. IsFiniteSet({r}) /\ Cardinality({r}) = 1 /\ s \notin {r} /\ {r} \cup {s} = {r, s}
            BY <3>4, FS_Singleton
          <5>2. Cardinality({r} \cup {s}) = Cardinality({r}) + 1
            BY <5>1, FS_AddElement
          <5>3. QED
            BY <5>1, <5>2
        <4>2. QED
          BY <2>4, <3>3, <4>1, GroupsFinite
      <3>5. QED
        BY <3>4
    <2>5. QED
      BY <2>3, <2>4
  <1>3. QED
    BY <1>1, <1>2

\* The aggregating rank has the first of the keys of its store.
LEMMA AggregatorFirst ==
  ASSUME NEW a, NEW r \in Ranks, NEW s \in Ranks, DbPath(a, r) = DbPath(a, s), AggRank(a, r) = 0
  PROVE  RankOfKey(a, r) <= RankOfKey(a, s)
  <1>1. AggRank(a, s) \in Nat
    BY AggRankType
  <1>2. CASE IsShared
    <2>1. AggSize(a, r) = AggSize(a, s)
      BY <1>2, StoreNamesGroup DEF AggSize
    <2>2. QED
      BY <1>1, <2>1 DEF RankOfKey, NoRank
  <1>3. CASE ~IsShared
    BY <1>3 DEF RankOfKey, NoRank
  <1>4. QED
    BY <1>2, <1>3

-----------------------------------------------------------------------------
\* A set of numbers that is not empty has a least one.
LEMMA LeastExists ==
  ASSUME NEW S, S \subseteq Nat, S # {}
  PROVE  \E n \in S : \A m \in S : n <= m
  <1> DEFINE R == {pair \in Nat \X Nat : pair[1] < pair[2]}
  <1>1. IsWellFoundedOn(R, Nat)
    BY NatLessThanWellFounded, Zenon DEF OpToRel
  <1>2. \A m, n \in Nat : <<m, n>> \in R <=> m < n
    OBVIOUS
  <1> HIDE DEF R
  <1>3. PICK n \in S : \A m \in S : ~ (<<m, n>> \in R)
    BY <1>1, WFMin
  <1>4. ASSUME NEW m \in S PROVE n <= m
    <2>1. n \in Nat /\ m \in Nat
      OBVIOUS
    <2>2. ~(m < n)
      BY <1>2, <1>3, <2>1, Zenon
    <2>3. QED
      BY <2>1, <2>2
  <1>5. QED
    BY <1>4

(***************************************************************************)
(* The loops.  A loop that starts with base and makes n turns runs through *)
(* values of which each is made from the one before.                       *)
(***************************************************************************)
Runs(g, S, base, step, n) ==
  /\ g \in [0 .. n -> S]
  /\ g[0] = base
  /\ \A i \in 1 .. n : g[i] = step[<<i, g[i - 1]>>]

\* If every turn has a result, so has the loop.
LEMMA LoopRuns ==
  ASSUME NEW S, NEW base \in S, NEW N \in Nat, NEW step \in [(1 .. N) \X S -> S]
  PROVE  \E g : Runs(g, S, base, step, N)
  <1> DEFINE bad == {m \in 0 .. N : ~ \E g : Runs(g, S, base, step, m)}
  <1> SUFFICES ASSUME bad # {} PROVE FALSE
    OBVIOUS
  <1>1. PICK m \in bad : \A k \in bad : m <= k
    <2>1. bad \subseteq Nat
      OBVIOUS
    <2> HIDE DEF bad
    <2>2. QED
      BY <2>1, LeastExists
  <1>2. m # 0
    <2> SUFFICES ASSUME m = 0 PROVE FALSE
      OBVIOUS
    <2> DEFINE g == [i \in 0 .. 0 |-> base]
    <2>1. Runs(g, S, base, step, 0)
      BY DEF Runs
    <2>2. QED
      BY <2>1
  <1>3. m - 1 \in 0 .. N /\ m - 1 \notin bad /\ m \in 1 .. N
    BY <1>1, <1>2
  <1>4. PICK g : Runs(g, S, base, step, m - 1)
    BY <1>3
  <1> DEFINE last == step[<<m, g[m - 1]>>]
             h == [i \in 0 .. m |-> IF i < m THEN g[i] ELSE last]
  <1>5. last \in S
    BY <1>3, <1>4 DEF Runs
  <1>6. h \in [0 .. m -> S] /\ h[0] = base
    <2> HIDE DEF last
    <2>1. QED
      BY <1>3, <1>4, <1>5 DEF Runs
  <1>7. ASSUME NEW i \in 1 .. m PROVE h[i] = step[<<i, h[i - 1]>>]
    <2>1. CASE i < m
      <3>1. i \in 1 .. m - 1 /\ h[i] = g[i] /\ h[i - 1] = g[i - 1]
        BY <1>3, <2>1
      <3>2. QED
        BY <1>4, <3>1 DEF Runs
    <2>2. CASE i = m
      <3>1. h[i] = last /\ h[i - 1] = g[i - 1]
        BY <1>3, <2>2
      <3> HIDE DEF h
      <3>2. QED
        BY <2>2, <3>1
    <2>3. QED
      BY <1>3, <2>1, <2>2
  <1> HIDE DEF h
  <1>8. Runs(h, S, base, step, m)
    BY <1>6, <1>7 DEF Runs
  <1>9. QED
    BY <1>8

-----------------------------------------------------------------------------
(***************************************************************************)
(* The fields of a text lie between its separators.                        *)
(***************************************************************************)
Piece(text, a, b) == SubSeq(text, a + 1, b - 1)

\* A piece of a text, and the piece that is one token longer.
LEMMA PieceGrows ==
  ASSUME NEW T, NEW text \in Seq(T), NEW a \in Nat, NEW b \in Nat, a < b, b <= Len(text)
  PROVE  /\ Piece(text, a, b) \in Seq(T)
         /\ Append(Piece(text, a, b), text[b]) = Piece(text, a, b + 1)
  <1> DEFINE s == Piece(text, a, b)
             t == Piece(text, a, b + 1)
  <1>1. /\ s \in Seq(T) /\ Len(s) = b - 1 - a
        /\ \A i \in 1 .. b - 1 - a : s[i] = text[a + i]
    BY DEF Piece
  <1>2. /\ t \in Seq(T) /\ Len(t) = b - a
        /\ \A i \in 1 .. b - a : t[i] = text[a + i]
    BY DEF Piece
  <1>3. text[b] \in T
    OBVIOUS
  <1> HIDE DEF s, t
  <1> DEFINE x == text[b]
             u == Append(s, x)
  <1>4. x = text[b]
    OBVIOUS
  <1> HIDE DEF x
  <1>5. u \in Seq(T) /\ Len(u) = b - a /\ u[b - a] = x
        /\ \A i \in 1 .. b - 1 - a : u[i] = s[i]
    BY <1>1, <1>3, <1>4
  <1> HIDE DEF u
  <1>6. \A i \in 1 .. b - a : u[i] = t[i]
    <2> TAKE i \in 1 .. b - a
    <2>1. CASE i = b - a
      <3>1. a + i = b
        BY <2>1
      <3>2. QED
        BY <1>2, <1>4, <1>5, <2>1, <3>1
    <2>2. CASE i # b - a
      <3>1. i \in 1 .. b - 1 - a
        BY <2>2
      <3>2. QED
        BY <1>1, <1>2, <1>5, <3>1
    <2>3. QED
      BY <2>1, <2>2
  <1>7. u = t
    BY <1>2, <1>5, <1>6
  <1>8. QED
    BY <1>1, <1>7 DEF u, s, t, x

\* There is nothing between neighbours.
LEMMA PieceEmpty ==
  ASSUME NEW T, NEW text \in Seq(T), NEW a \in Nat
  PROVE  Piece(text, a, a + 1) = <<>>
  BY DEF Piece

\* One element more.
LEMMA Appended ==
  ASSUME NEW S, NEW s \in Seq(S), NEW x \in S
  PROVE  /\ Append(s, x) \in Seq(S)
         /\ DOMAIN Append(s, x) = 1 .. Len(s) + 1 /\ Append(s, x)[Len(s) + 1] = x
         /\ \A i \in 1 .. Len(s) : Append(s, x)[i] = s[i]
         /\ Append(s, x) = [i \in 1 .. Len(s) + 1 |-> Append(s, x)[i]]
  <1> DEFINE u == Append(s, x)
  <1>1. Len(s) \in Nat /\ u \in Seq(S) /\ Len(u) = Len(s) + 1 /\ u[Len(s) + 1] = x
        /\ \A i \in 1 .. Len(s) : u[i] = s[i]
    OBVIOUS
  <1> HIDE DEF u
  <1>2. DOMAIN u = 1 .. Len(s) + 1 /\ u = [i \in 1 .. Len(s) + 1 |-> u[i]]
    BY <1>1
  <1>3. QED
    BY <1>1, <1>2 DEF u

\* The m fields end at the cuts c[1] to c[m].
Cuts(text, separator, c, m) ==
  /\ m \in Nat \ {0} /\ c \in [0 .. m -> Nat]
  /\ c[0] = 0 /\ c[m] = Len(text) + 1
  /\ \A i, j \in 0 .. m : i < j => c[i] < c[j]
  /\ \A p \in 1 .. Len(text) : text[p] = separator <=> \E i \in 1 .. m - 1 : c[i] = p

\* The fields when p tokens are read and the cut number k is the last one before.
FieldsAt(text, c, p, k) == [i \in 1 .. k + 1 |-> Piece(text, c[i - 1], IF i = k + 1 THEN p + 1 ELSE c[i])]

\* Adding a token.
LEMMA FieldsStep ==
  ASSUME NEW T, NEW text \in Seq(T), NEW separator, NEW c, NEW m, Cuts(text, separator, c, m),
         NEW p \in 0 .. Len(text) - 1, NEW k \in 0 .. m - 1, c[k] <= p, p < c[k + 1]
  PROVE  \E l \in 0 .. m - 1 :
           /\ c[l] <= p + 1 /\ p + 1 < c[l + 1]
           /\ AddToken(FieldsAt(text, c, p, k), text[p + 1], separator) = FieldsAt(text, c, p + 1, l)
  <1> DEFINE n == Len(text)
             old == FieldsAt(text, c, p, k)
  <1>1. /\ n \in Nat /\ m \in Nat \ {0} /\ k \in Nat /\ k + 1 \in 0 .. m /\ p \in Nat /\ p + 1 \in 1 .. n
        /\ c[k] \in Nat /\ c[k + 1] \in Nat /\ c[m] = n + 1
    BY DEF Cuts
  <1>2. ASSUME NEW i \in 1 .. k + 1
        PROVE  /\ c[i - 1] \in Nat /\ c[i] \in Nat /\ c[i - 1] < c[i]
               /\ c[i - 1] <= p
               /\ i <= k => c[i] <= p
    <2>1. i - 1 \in 0 .. m /\ i \in 0 .. m /\ i - 1 < i
      BY <1>1
    <2>2. c[i - 1] \in Nat /\ c[i] \in Nat /\ c[i - 1] < c[i]
      BY <2>1 DEF Cuts
    <2>3. i <= k => c[i] <= c[k]
      <3>1. CASE i = k
        BY <2>2, <3>1
      <3>2. CASE i < k
        <4>1. c[i] < c[k]
          BY <1>1, <2>1, <3>2 DEF Cuts
        <4>2. QED
          BY <1>1, <2>2, <4>1
      <3>3. CASE i > k
        BY <1>1, <3>3
      <3>4. QED
        BY <1>1, <3>1, <3>2, <3>3
    <2>4. QED
      <3>1. CASE i <= k
        BY <1>1, <2>2, <2>3, <3>1
      <3>2. CASE i = k + 1
        BY <1>1, <2>2, <3>2
      <3>3. QED
        BY <1>1, <3>1, <3>2
  <1>3. old \in Seq(Seq(T)) /\ Len(old) = k + 1
    <2>1. ASSUME NEW i \in 1 .. k + 1
          PROVE  Piece(text, c[i - 1], IF i = k + 1 THEN p + 1 ELSE c[i]) \in Seq(T)
      <3>1. CASE i = k + 1
        <4> DEFINE from == c[i - 1]
                   to == p + 1
        <4>1. from \in Nat /\ to \in Nat /\ from < to /\ to <= n
          BY <1>1, <1>2
        <4> HIDE DEF from, to
        <4>2. Piece(text, from, to) \in Seq(T)
          BY <4>1, PieceGrows
        <4>3. QED
          BY <3>1, <4>2, Zenon DEF from, to
      <3>2. CASE i # k + 1
        <4>1. i <= k
          BY <1>1, <3>2
        <4>2. c[i] <= n
          BY <1>1, <1>2, <4>1
        <4>3. QED
          BY <1>2, <3>2, <4>2, PieceGrows
      <3>3. QED
        BY <3>1, <3>2
    <2>2. QED
      BY <1>1, <2>1 DEF FieldsAt
  <1>4. CASE text[p + 1] = separator
    <2>1. PICK j \in 1 .. m - 1 : c[j] = p + 1
      BY <1>1, <1>4 DEF Cuts
    <2>2. j = k + 1
      <3>1. j \in 0 .. m /\ j \in Nat /\ k \in 0 .. m
        BY <1>1
      <3>2. ~(j < k) /\ ~(j = k)
        <4>1. j < k => c[j] < c[k]
          BY <3>1 DEF Cuts
        <4>2. QED
          BY <1>1, <2>1, <4>1
      <3>3. ~(k + 1 < j)
        <4>1. k + 1 < j => c[k + 1] < c[j]
          BY <1>1, <3>1 DEF Cuts
        <4>2. QED
          BY <1>1, <2>1, <4>1
      <3>4. QED
        BY <1>1, <3>1, <3>2, <3>3
    <2>3. k + 2 \in 0 .. m /\ k + 1 \in 0 .. m - 1 /\ c[k + 2] \in Nat /\ c[k + 1] < c[k + 2]
      <3>1. k + 2 \in 0 .. m /\ k + 1 \in 0 .. m - 1 /\ k + 1 < k + 2
        BY <1>1, <2>2
      <3>2. QED
        BY <1>1, <3>1 DEF Cuts
    <2> DEFINE new == FieldsAt(text, c, p + 1, k + 1)
               added == Append(old, <<>>)
    <2>4. AddToken(old, text[p + 1], separator) = added
      BY <1>4 DEF AddToken
    <2>5. new = [i \in 1 .. k + 2 |-> Piece(text, c[i - 1], IF i = k + 2 THEN p + 2 ELSE c[i])]
      <3>1. (k + 1) + 1 = k + 2 /\ (p + 1) + 1 = p + 2
        BY <1>1
      <3>2. QED
        BY <3>1, Zenon DEF FieldsAt
    <2>6. \A i \in 1 .. k + 1 : old[i] = Piece(text, c[i - 1], c[i])
      <3> TAKE i \in 1 .. k + 1
      <3>1. (IF i = k + 1 THEN p + 1 ELSE c[i]) = c[i]
        BY <2>1, <2>2
      <3>2. QED
        BY <3>1, Zenon DEF FieldsAt
    <2>7. Piece(text, c[k + 1], p + 2) = <<>>
      <3>1. p + 2 = c[k + 1] + 1
        BY <1>1, <2>1, <2>2
      <3>2. QED
        BY <1>1, <3>1, PieceEmpty
    <2> HIDE DEF old
    <2>8. /\ DOMAIN added = 1 .. k + 2 /\ added[k + 2] = <<>>
          /\ \A i \in 1 .. k + 1 : added[i] = old[i]
          /\ added = [i \in 1 .. k + 2 |-> added[i]]
      <3>1. <<>> \in Seq(T)
        OBVIOUS
      <3>2. Len(old) + 1 = k + 2
        BY <1>1, <1>3
      <3> DEFINE e == <<>>
      <3> HIDE DEF e
      <3>3. e \in Seq(T)
        BY <3>1 DEF e
      <3> DEFINE u == Append(old, e)
      <3> DEFINE S == Seq(T)
      <3>4. /\ DOMAIN u = 1 .. Len(old) + 1 /\ u[Len(old) + 1] = e
            /\ \A i \in 1 .. Len(old) : u[i] = old[i]
            /\ u = [i \in 1 .. Len(old) + 1 |-> u[i]]
        <4>1. old \in Seq(S) /\ e \in S
          BY <1>3, <3>3
        <4> HIDE DEF S
        <4>2. QED
          BY <4>1, Appended
      <3> HIDE DEF u
      <3>5. /\ DOMAIN u = 1 .. k + 2 /\ u[k + 2] = e
            /\ \A i \in 1 .. k + 1 : u[i] = old[i]
            /\ u = [i \in 1 .. k + 2 |-> u[i]]
        BY <1>3, <3>2, <3>4, Zenon
      <3>6. QED
        BY <3>5, Zenon DEF u, e
    <2> HIDE DEF added
    <2>9. ASSUME NEW i \in 1 .. k + 2
          PROVE  added[i] = Piece(text, c[i - 1], IF i = k + 2 THEN p + 2 ELSE c[i])
      <3>1. CASE i = k + 2
        <4>1. i - 1 = k + 1
          BY <1>1, <3>1
        <4>2. QED
          BY <2>7, <2>8, <3>1, <4>1
      <3>2. CASE i # k + 2
        <4>1. i \in 1 .. k + 1
          BY <1>1, <3>2
        <4>2. QED
          BY <2>6, <2>8, <3>2, <4>1
      <3>3. QED
        BY <3>1, <3>2
    <2>10. added = new
      <3> HIDE DEF new
      <3>1. QED
        BY <2>5, <2>8, <2>9, Zenon
    <2>11. c[k + 1] <= p + 1 /\ p + 1 < c[(k + 1) + 1]
      <3>1. (k + 1) + 1 = k + 2
        BY <1>1
      <3>2. QED
        BY <1>1, <2>1, <2>2, <2>3, <3>1
    <2>12. QED
      BY <2>3, <2>4, <2>10, <2>11 DEF old
  <1>5. CASE text[p + 1] # separator
    <2>1. p + 1 < c[k + 1]
      <3>1. CASE k + 1 = m
        <4> SUFFICES p + 1 # c[k + 1]
          BY <1>1
        <4>1. QED
          BY <1>1, <3>1
      <3>2. CASE k + 1 # m
        <4>1. k + 1 \in 1 .. m - 1
          BY <1>1, <3>2
        <4>2. c[k + 1] # p + 1
          BY <1>1, <1>5, <4>1 DEF Cuts
        <4>3. QED
          BY <1>1, <4>2
      <3>3. QED
        BY <3>1, <3>2
    <2> DEFINE new == FieldsAt(text, c, p + 1, k)
               x == text[p + 1]
               added == [old EXCEPT ![k + 1] = Append(@, x)]
    <2>2. AddToken(old, x, separator) = added
      <3> HIDE DEF old
      <3>1. QED
        BY <1>3, <1>5 DEF AddToken
    <2>3. new = [i \in 1 .. k + 1 |-> Piece(text, c[i - 1], IF i = k + 1 THEN p + 2 ELSE c[i])]
      <3>1. (p + 1) + 1 = p + 2
        BY <1>1
      <3>2. QED
        BY <3>1, Zenon DEF FieldsAt
    <2>4. old = [i \in 1 .. k + 1 |-> Piece(text, c[i - 1], IF i = k + 1 THEN p + 1 ELSE c[i])]
      BY DEF FieldsAt
    <2>5. k + 1 \in 1 .. k + 1
      BY <1>1
    <2>6. old[k + 1] = Piece(text, c[k], p + 1)
      <3>1. (k + 1) - 1 = k
        BY <1>1
      <3>2. QED
        BY <2>4, <2>5, <3>1, Zenon
    <2>7. Append(old[k + 1], x) = Piece(text, c[k], p + 2)
      <3>1. c[k] < p + 1 /\ p + 1 <= n /\ p + 1 \in Nat /\ p + 2 = (p + 1) + 1
        BY <1>1
      <3>2. Append(Piece(text, c[k], p + 1), text[p + 1]) = Piece(text, c[k], (p + 1) + 1)
        <4> DEFINE a == c[k]
                   b == p + 1
        <4>1. a \in Nat /\ b \in Nat /\ a < b /\ b <= Len(text)
          BY <1>1, <3>1
        <4> HIDE DEF a, b
        <4>2. Append(Piece(text, a, b), text[b]) = Piece(text, a, b + 1)
          BY <4>1, PieceGrows
        <4>3. QED
          BY <4>2 DEF a, b
      <3>3. QED
        BY <2>6, <3>1, <3>2
    <2> HIDE DEF x
    <2>8. ASSUME NEW i \in 1 .. k + 1
          PROVE  added[i] = Piece(text, c[i - 1], IF i = k + 1 THEN p + 2 ELSE c[i])
      <3>1. CASE i = k + 1
        <4>1. i - 1 = k
          BY <1>1, <3>1
        <4>2. added[i] = Append(old[k + 1], x)
          <5> HIDE DEF old
          <5>1. DOMAIN old = 1 .. k + 1
            BY <1>3
          <5>2. QED
            BY <2>5, <3>1, <5>1
        <4>3. QED
          BY <2>7, <3>1, <4>1, <4>2
      <3>2. CASE i # k + 1
        <4>1. added[i] = old[i]
          <5> HIDE DEF old
          <5>1. DOMAIN old = 1 .. k + 1
            BY <1>3
          <5>2. QED
            BY <3>2, <5>1
        <4>2. QED
          BY <2>4, <3>2, <4>1
      <3>3. QED
        BY <3>1, <3>2
    <2>9. added = [i \in 1 .. k + 1 |-> added[i]]
      <3> HIDE DEF old
      <3>1. DOMAIN old = 1 .. k + 1
        BY <1>3
      <3>2. QED
        BY <3>1
    <2>10. added = new
      <3> HIDE DEF added, new
      <3>1. QED
        BY <2>3, <2>8, <2>9, Zenon
    <2>11. QED
      BY <1>1, <2>1, <2>2, <2>10 DEF x
  <1>6. QED
    BY <1>4, <1>5

\* The loop of the fields.
FieldsLoop(g, text, separator) ==
  g = [n \in 0 .. Len(text) |->
         IF n = 0 THEN << <<>> >> ELSE AddToken(g[n - 1], text[n], separator)]

\* A token added to fields gives fields.
LEMMA AddTokenType ==
  ASSUME NEW T, NEW fields \in Seq(Seq(T)) \ {<<>>}, NEW token \in T, NEW separator
  PROVE  AddToken(fields, token, separator) \in Seq(Seq(T)) \ {<<>>}
  <1> DEFINE n == Len(fields)
  <1>1. n \in Nat \ {0} /\ fields[n] \in Seq(T) /\ DOMAIN fields = 1 .. n
    OBVIOUS
  <1>2. CASE token = separator
    <2>1. <<>> \in Seq(T)
      OBVIOUS
    <2> DEFINE e == <<>>
    <2>2. e \in Seq(T)
      OBVIOUS
    <2> HIDE DEF e
    <2>3. Append(fields, e) \in Seq(Seq(T)) /\ Len(Append(fields, e)) = n + 1
      BY <2>2
    <2>4. Append(fields, e) # <<>>
      BY <1>1, <2>3
    <2>5. QED
      BY <1>2, <2>3, <2>4 DEF AddToken, e
  <1>3. CASE token # separator
    <2> DEFINE x == Append(fields[n], token)
               new == [fields EXCEPT ![n] = x]
    <2>1. x \in Seq(T)
      BY <1>1
    <2> HIDE DEF x
    <2>2. new \in Seq(Seq(T)) /\ Len(new) = n
      BY <1>1, <2>1
    <2>3. new # <<>>
      BY <1>1, <2>2
    <2>4. AddToken(fields, token, separator) = new
      BY <1>3 DEF AddToken, x
    <2>5. QED
      BY <2>2, <2>3, <2>4
  <1>4. QED
    BY <1>2, <1>3

\* The getline loop runs to the end of the text.
LEMMA FieldsLoopRuns ==
  ASSUME NEW T, NEW text \in Seq(T), NEW separator
  PROVE  \E g : FieldsLoop(g, text, separator)
  <1> DEFINE S == Seq(Seq(T)) \ {<<>>}
             N == Len(text)
             base == << <<>> >>
             step == [x \in (1 .. N) \X S |-> AddToken(x[2], text[x[1]], separator)]
  <1>1. N \in Nat /\ base \in S
    OBVIOUS
  <1>2. step \in [(1 .. N) \X S -> S]
    <2>1. ASSUME NEW x \in (1 .. N) \X S PROVE AddToken(x[2], text[x[1]], separator) \in S
      <3>1. x[2] \in S /\ text[x[1]] \in T
        OBVIOUS
      <3>2. QED
        BY <3>1, AddTokenType
    <2> HIDE DEF S
    <2>2. QED
      BY <2>1
  <1> HIDE DEF S, base
  <1>3. PICK g : Runs(g, S, base, step, N)
    <2> HIDE DEF step, N
    <2>1. QED
      BY <1>1, <1>2, LoopRuns
  <1>4. ASSUME NEW n \in 0 .. N
        PROVE  g[n] = IF n = 0 THEN base ELSE AddToken(g[n - 1], text[n], separator)
    <2>1. CASE n = 0
      BY <1>3, <2>1 DEF Runs
    <2>2. CASE n # 0
      <3>1. n \in 1 .. N /\ n - 1 \in 0 .. N
        BY <1>1, <2>2
      <3>2. g[n] = step[<<n, g[n - 1]>>] /\ g[n - 1] \in S
        BY <1>3, <3>1 DEF Runs
      <3> DEFINE y == g[n - 1]
      <3> HIDE DEF y
      <3>3. step[<<n, y>>] = AddToken(y, text[n], separator)
        BY <3>1, <3>2 DEF y
      <3>4. QED
        BY <2>2, <3>2, <3>3 DEF y
    <2>3. QED
      BY <2>1, <2>2
  <1>5. g = [n \in 0 .. N |-> g[n]]
    BY <1>3 DEF Runs
  <1>6. FieldsLoop(g, text, separator)
    BY <1>4, <1>5, Zenon DEF FieldsLoop, base
  <1>7. QED
    BY <1>6

\* The fields of a text are what the loop ends with.
LEMMA FieldsAreLoop ==
  ASSUME NEW T, NEW text \in Seq(T), NEW separator, text # <<>>
  PROVE  \E g : FieldsLoop(g, text, separator) /\ Fields(text, separator) = g[Len(text)]
  <1> DEFINE f == CHOOSE g : FieldsLoop(g, text, separator)
  <1>1. FieldsLoop(f, text, separator)
    BY FieldsLoopRuns
  <1>2. Fields(text, separator) = f[Len(text)]
    BY DEF Fields, FieldsLoop
  <1>3. QED
    BY <1>1, <1>2

\* The fields of a text are its pieces between the cuts.
LEMMA FieldsOfCuts ==
  ASSUME NEW T, NEW text \in Seq(T), text # <<>>, NEW separator, NEW c, NEW m,
         Cuts(text, separator, c, m)
  PROVE  Fields(text, separator) = [i \in 1 .. m |-> Piece(text, c[i - 1], c[i])]
  <1> DEFINE n == Len(text)
             Reached(fields, p) == \E k \in 0 .. m - 1 :
               c[k] <= p /\ p < c[k + 1] /\ fields = FieldsAt(text, c, p, k)
  <1>1. n \in Nat \ {0} /\ m \in Nat \ {0} /\ c[0] = 0 /\ c[m] = n + 1
        /\ \A i \in 0 .. m : c[i] \in Nat
    BY DEF Cuts
  <1>2. PICK g : FieldsLoop(g, text, separator) /\ Fields(text, separator) = g[n]
    BY FieldsAreLoop
  <1>3. g[0] = << <<>> >> /\ \A p \in 1 .. n : g[p] = AddToken(g[p - 1], text[p], separator)
    BY <1>1, <1>2 DEF FieldsLoop
  <1>4. Reached(g[0], 0)
    <2>1. 0 \in 0 .. m - 1 /\ 1 \in 0 .. m /\ c[0] <= 0
      BY <1>1
    <2>2. 0 < c[0 + 1]
      <3>1. c[0] < c[1]
        BY <1>1, <2>1 DEF Cuts
      <3>2. QED
        BY <1>1, <2>1, <3>1
    <2>3. FieldsAt(text, c, 0, 0) = << <<>> >>
      <3>1. Piece(text, 0, 0 + 1) = <<>>
        BY PieceEmpty
      <3>2. FieldsAt(text, c, 0, 0) = [i \in 1 .. 1 |-> <<>>]
        <4>1. ASSUME NEW i \in 1 .. 0 + 1
              PROVE  Piece(text, c[i - 1], IF i = 0 + 1 THEN 0 + 1 ELSE c[i]) = <<>>
          <5>1. i = 0 + 1 /\ i - 1 = 0
            OBVIOUS
          <5>2. QED
            BY <1>1, <3>1, <5>1
        <4>2. 1 .. 0 + 1 = 1 .. 1
          OBVIOUS
        <4>3. QED
          BY <4>1, <4>2, Zenon DEF FieldsAt
      <3>3. QED
        BY <3>2
    <2>4. QED
      BY <1>3, <2>1, <2>2, <2>3
  <1>5. ASSUME NEW p \in 1 .. n, Reached(g[p - 1], p - 1)
        PROVE  Reached(g[p], p)
    <2>1. PICK k \in 0 .. m - 1 :
            c[k] <= p - 1 /\ p - 1 < c[k + 1] /\ g[p - 1] = FieldsAt(text, c, p - 1, k)
      BY <1>5
    <2> DEFINE j == p - 1
    <2>2. j \in 0 .. n - 1 /\ j + 1 = p
      BY <1>1
    <2> HIDE DEF j
    <2>3. c[k] <= j /\ j < c[k + 1] /\ g[j] = FieldsAt(text, c, j, k)
      BY <2>1 DEF j
    <2>4. PICK l \in 0 .. m - 1 :
            /\ c[l] <= j + 1 /\ j + 1 < c[l + 1]
            /\ AddToken(FieldsAt(text, c, j, k), text[j + 1], separator) = FieldsAt(text, c, j + 1, l)
      <3> HIDE DEF n
      <3>1. j \in 0 .. Len(text) - 1
        BY <2>2 DEF n
      <3>2. QED
        BY <2>3, <3>1, FieldsStep
    <2>5. g[p] = AddToken(g[j], text[p], separator)
      BY <1>3 DEF j
    <2>6. g[p] = FieldsAt(text, c, p, l) /\ c[l] <= p /\ p < c[l + 1]
      BY <2>2, <2>3, <2>4, <2>5
    <2>7. QED
      BY <2>6
  <1>6. Reached(g[n], n)
    <2> DEFINE bad == {p \in 0 .. n : ~Reached(g[p], p)}
    <2> HIDE DEF Reached
    <2> SUFFICES ASSUME bad # {} PROVE FALSE
      BY <1>1
    <2>1. PICK p \in bad : \A q \in bad : p <= q
      <3>1. bad \subseteq Nat
        OBVIOUS
      <3> HIDE DEF bad
      <3>2. QED
        BY <3>1, LeastExists
    <2>2. p # 0
      BY <1>4
    <2>3. p \in 1 .. n /\ p - 1 \in 0 .. n /\ p - 1 \notin bad
      BY <1>1, <2>1, <2>2
    <2>4. QED
      BY <1>5, <2>3
  <1>7. PICK k \in 0 .. m - 1 : c[k] <= n /\ n < c[k + 1] /\ g[n] = FieldsAt(text, c, n, k)
    BY <1>6
  <1>8. k + 1 = m
    <2> SUFFICES ASSUME k + 1 # m PROVE FALSE
      OBVIOUS
    <2>1. k + 1 \in 0 .. m /\ k + 1 < m /\ m \in 0 .. m
      BY <1>1
    <2>2. c[k + 1] < c[m]
      BY <2>1 DEF Cuts
    <2>3. QED
      BY <1>1, <1>7, <2>1, <2>2
  <1>9. \A i \in 1 .. m : (IF i = k + 1 THEN n + 1 ELSE c[i]) = c[i]
    BY <1>1, <1>8
  <1>10. QED
    BY <1>2, <1>7, <1>8, <1>9, Zenon DEF FieldsAt

\* A piece of one token.
LEMMA OneToken ==
  ASSUME NEW T, NEW text \in Seq(T), NEW q \in 1 .. Len(text)
  PROVE  SubSeq(text, q, q) = <<text[q]>>
  <1> DEFINE u == SubSeq(text, q, q)
             x == text[q]
  <1>1. u \in Seq(T) /\ Len(u) = 1 /\ u[1] = x
    OBVIOUS
  <1> HIDE DEF u, x
  <1>2. u = <<x>>
    BY <1>1
  <1>3. QED
    BY <1>2 DEF u, x

\* A text stays one when more tokens are allowed.
LEMMA WiderText ==
  ASSUME NEW S, NEW T, S \subseteq T, NEW s \in Seq(S)
  PROVE  s \in Seq(T)
  OBVIOUS

\* Of tokens joined with a separator that is none of them, the fields are the tokens.
LEMMA FieldsOfJoined ==
  ASSUME NEW T, NEW tokens \in Seq(T), tokens # <<>>, NEW separator, separator \notin T
  PROVE  /\ Joined(tokens, separator) \in Seq(T \cup {separator})
         /\ Joined(tokens, separator) # <<>>
         /\ Fields(Joined(tokens, separator), separator) = [i \in 1 .. Len(tokens) |-> <<tokens[i]>>]
  <1> DEFINE n == Len(tokens)
             text == Joined(tokens, separator)
             c == [i \in 0 .. n |-> 2 * i]
             U == T \cup {separator}
  <1>1. n \in Nat \ {0} /\ 2 * n - 1 \in Nat \ {0}
    OBVIOUS
  <1>2. \A i \in 1 .. 2 * n - 1 : i % 2 = 1 =>
          (i + 1) \div 2 \in 1 .. n
    BY <1>1
  <1>3. text \in Seq(U) /\ Len(text) = 2 * n - 1
    <2>1. \A i \in 1 .. 2 * n - 1 :
            (IF i % 2 = 1 THEN tokens[(i + 1) \div 2] ELSE separator) \in U
      <3> TAKE i \in 1 .. 2 * n - 1
      <3>1. i % 2 = 1 => tokens[(i + 1) \div 2] \in T
        BY <1>2
      <3>2. QED
        BY <3>1
    <2> HIDE DEF U
    <2>2. QED
      BY <1>1, <2>1 DEF Joined
  <1>4. \A i \in 1 .. 2 * n - 1 :
          text[i] = IF i % 2 = 1 THEN tokens[(i + 1) \div 2] ELSE separator
    BY DEF Joined
  <1> HIDE DEF text
  <1>5. text # <<>>
    BY <1>1, <1>3
  <1>6. \A p \in 1 .. Len(text) : text[p] = separator <=> \E i \in 1 .. n - 1 : c[i] = p
    <2> TAKE p \in 1 .. Len(text)
    <2>1. p \in 1 .. 2 * n - 1
      BY <1>3
    <2>2. CASE p % 2 = 1
      <3>1. text[p] # separator
        <4>1. tokens[(p + 1) \div 2] \in T
          BY <1>2, <2>1, <2>2
        <4>2. QED
          BY <1>4, <2>1, <2>2, <4>1
      <3>2. \A i \in 1 .. n - 1 : c[i] # p
        BY <1>1, <2>2
      <3>3. QED
        BY <3>1, <3>2
    <2>3. CASE p % 2 # 1
      <3>1. text[p] = separator
        BY <1>4, <2>1, <2>3
      <3>2. p \div 2 \in 1 .. n - 1 /\ 2 * (p \div 2) = p
        BY <1>1, <2>1, <2>3
      <3>3. c[p \div 2] = p
        BY <1>1, <3>2
      <3>4. QED
        BY <3>1, <3>2, <3>3
    <2>4. QED
      BY <2>2, <2>3
  <1>7. Cuts(text, separator, c, n)
    <2>1. c \in [0 .. n -> Nat] /\ c[0] = 0 /\ c[n] = Len(text) + 1
      BY <1>1, <1>3
    <2>2. \A i, j \in 0 .. n : i < j => c[i] < c[j]
      BY <1>1
    <2> HIDE DEF c
    <2>3. QED
      BY <1>1, <1>6, <2>1, <2>2 DEF Cuts
  <1>8. Fields(text, separator) = [i \in 1 .. n |-> Piece(text, c[i - 1], c[i])]
    <2> HIDE DEF c, n, U
    <2>1. QED
      BY <1>3, <1>5, <1>7, FieldsOfCuts
  <1>9. ASSUME NEW i \in 1 .. n PROVE Piece(text, c[i - 1], c[i]) = <<tokens[i]>>
    <2>1. c[i - 1] = 2 * i - 2 /\ c[i] = 2 * i
      BY <1>1
    <2>2. /\ (2 * i - 2) + 1 = 2 * i - 1 /\ 2 * i - 1 \in 1 .. 2 * n - 1
          /\ (2 * i - 1) % 2 = 1 /\ ((2 * i - 1) + 1) \div 2 = i
      BY <1>1
    <2> DEFINE q == 2 * i - 1
    <2>3. text[q] = tokens[i]
      BY <1>4, <2>2
    <2> HIDE DEF q
    <2>4. q \in 1 .. Len(text) /\ Piece(text, c[i - 1], c[i]) = SubSeq(text, q, q)
      BY <1>3, <2>1, <2>2 DEF Piece, q
    <2>5. SubSeq(text, q, q) = <<text[q]>>
      BY <1>3, <2>4, OneToken
    <2>6. QED
      BY <2>3, <2>4, <2>5
  <1>10. QED
    BY <1>3, <1>5, <1>8, <1>9 DEF text

\* Digits are read as the number they were printed from.
LEMMA TextsNameNumbers ==
  ASSUME NEW n \in 0 .. MaxNumber
  PROVE  StoI(NumberText[n]) = n
  <1>1. \A k \in 0 .. MaxNumber : NumberText[k] = NumberText[n] => k = n
    BY NumberTextAssumption DEF IsInjective, NumberText
  <1>2. QED
    BY <1>1 DEF StoI

Digits == {NumberText[n] : n \in 0 .. MaxNumber}

\* Numbers that were printed with commas between them are read back.
LEMMA NumbersBack ==
  ASSUME NEW d \in Seq(0 .. MaxNumber)
  PROVE  /\ Joined(Numbers(d), ",") \in Seq(Digits \cup {","})
         /\ Joined(Numbers(d), ",") = <<>> <=> d = <<>>
         /\ Parsed(Fields(Joined(Numbers(d), ","), ",")) = d
  <1> DEFINE tokens == Numbers(d)
             text == Joined(tokens, ",")
             n == Len(d)
  <1>1. n \in Nat /\ tokens \in Seq(Digits) /\ Len(tokens) = n
        /\ \A i \in 1 .. n : tokens[i] = NumberText[d[i]] /\ d[i] \in 0 .. MaxNumber
    <2> DEFINE D == 0 .. MaxNumber
    <2>0. d \in Seq(D) /\ \A i \in D : NumberText[i] \in Digits
      BY DEF Digits
    <2>1. \A i \in 1 .. n : d[i] \in 0 .. MaxNumber /\ NumberText[d[i]] \in Digits
      <3> HIDE DEF D
      <3>1. \A i \in 1 .. n : d[i] \in D
        BY <2>0
      <3>2. QED
        BY <2>0, <3>1 DEF D
    <2>2. QED
      BY <2>1 DEF Numbers
  <1>2. "," \notin Digits
    BY NumberTextAssumption DEF Digits
  <1> HIDE DEF tokens
  <1>3. CASE d = <<>>
    <2>1. n = 0 /\ tokens = <<>>
      BY <1>1, <1>3
    <2>2. text = <<>>
      BY <2>1 DEF Joined
    <2>3. Fields(text, ",") = <<>>
      BY <2>2 DEF Fields
    <2>4. Parsed(<<>>) = <<>>
      BY DEF Parsed
    <2>5. \A S : <<>> \in Seq(S)
      OBVIOUS
    <2> HIDE DEF text
    <2>6. text \in Seq(Digits \cup {","}) /\ (text = <<>> <=> d = <<>>) /\ Parsed(Fields(text, ",")) = d
      BY <1>3, <2>2, <2>3, <2>4, <2>5
    <2>7. QED
      BY <2>6 DEF text, tokens
  <1>4. CASE d # <<>>
    <2>1. n # 0 /\ tokens # <<>>
      BY <1>1, <1>4
    <2>2. /\ text \in Seq(Digits \cup {","}) /\ text # <<>>
          /\ Fields(text, ",") = [i \in 1 .. n |-> <<tokens[i]>>]
      <3>1. /\ text \in Seq(Digits \cup {","}) /\ text # <<>>
            /\ Fields(text, ",") = [i \in 1 .. Len(tokens) |-> <<tokens[i]>>]
        <4> DEFINE sep == ","
        <4> HIDE DEF n
        <4>1. tokens \in Seq(Digits) /\ tokens # <<>> /\ sep \notin Digits
          BY <1>1, <1>2, <2>1
        <4> HIDE DEF sep
        <4>2. /\ Joined(tokens, sep) \in Seq(Digits \cup {sep}) /\ Joined(tokens, sep) # <<>>
              /\ Fields(Joined(tokens, sep), sep) = [i \in 1 .. Len(tokens) |-> <<tokens[i]>>]
          BY <4>1, FieldsOfJoined
        <4>3. QED
          BY <4>2 DEF sep
      <3>2. QED
        BY <1>1, <3>1
    <2> DEFINE fields == [i \in 1 .. n |-> <<tokens[i]>>]
    <2>3. Len(fields) = n /\ \A i \in 1 .. n : fields[i][1] = tokens[i]
      BY <1>1
    <2>4. Parsed(fields) = [i \in 1 .. n |-> StoI(tokens[i])]
      <3> HIDE DEF fields
      <3>1. QED
        BY <2>3 DEF Parsed
    <2>5. \A i \in 1 .. n : StoI(tokens[i]) = d[i]
      BY <1>1, TextsNameNumbers
    <2>6. Parsed(fields) = d
      <3>1. d = [i \in 1 .. n |-> d[i]]
        OBVIOUS
      <3>2. QED
        BY <2>4, <2>5, <3>1
    <2> HIDE DEF fields, text
    <2>7. text \in Seq(Digits \cup {","}) /\ (text = <<>> <=> d = <<>>) /\ Parsed(Fields(text, ",")) = d
      BY <1>4, <2>2, <2>6 DEF fields
    <2>8. QED
      BY <2>7 DEF text, tokens
  <1>5. QED
    BY <1>3, <1>4

\* Two texts after each other.
LEMMA Glued ==
  ASSUME NEW T, NEW s \in Seq(T), NEW t \in Seq(T)
  PROVE  /\ s \o t \in Seq(T) /\ Len(s \o t) = Len(s) + Len(t)
         /\ \A i \in 1 .. Len(s) : (s \o t)[i] = s[i]
         /\ \A i \in 1 .. Len(t) : (s \o t)[Len(s) + i] = t[i]
  OBVIOUS

\* The text in braces.
LEMMA InBraces ==
  ASSUME NEW T, NEW x \in T, NEW y \in T, NEW t \in Seq(T)
  PROVE  /\ <<x>> \o t \o <<y>> \in Seq(T)
         /\ Len(<<x>> \o t \o <<y>>) = Len(t) + 2
         /\ SubSeq(<<x>> \o t \o <<y>>, 2, Len(t) + 1) = t
  <1> DEFINE a == <<x>> \o t
             b == a \o <<y>>
             n == Len(t)
  <1>1. <<x>> \in Seq(T) /\ <<y>> \in Seq(T) /\ Len(<<x>>) = 1 /\ Len(<<y>>) = 1 /\ n \in Nat
    OBVIOUS
  <1>2. a \in Seq(T) /\ Len(a) = 1 + n /\ \A i \in 1 .. n : a[1 + i] = t[i]
    BY <1>1, Glued
  <1> HIDE DEF a
  <1>3. b \in Seq(T) /\ Len(b) = n + 2 /\ \A i \in 1 .. 1 + n : b[i] = a[i]
    BY <1>1, <1>2, Glued
  <1> HIDE DEF b
  <1> DEFINE u == SubSeq(b, 2, n + 1)
  <1>4. u \in Seq(T) /\ Len(u) = n /\ \A i \in 1 .. n : u[i] = b[1 + i]
    BY <1>1, <1>3
  <1>5. \A i \in 1 .. n : u[i] = t[i]
    <2> TAKE i \in 1 .. n
    <2>1. 1 + i \in 1 .. 1 + n
      BY <1>1
    <2>2. QED
      BY <1>2, <1>3, <1>4, <2>1
  <1> HIDE DEF u
  <1>6. u = t
    BY <1>4, <1>5
  <1>7. QED
    BY <1>3, <1>6 DEF a, b, u

DimsTokens == Digits \cup {",", "{", "}"}

\* Dimensions that were printed are read back, and have no semicolon.
LEMMA DimsBack ==
  ASSUME NEW d \in Seq(0 .. MaxNumber)
  PROVE  /\ DimsText(d) \in Seq(DimsTokens)
         /\ ConvertStrToDims(DimsText(d)) = d
         /\ ";" \notin DimsTokens
  <1> DEFINE t == Joined(Numbers(d), ",")
             b == <<"{">> \o t \o <<"}">>
  <1>1. t \in Seq(DimsTokens)
    <2>1. t \in Seq(Digits \cup {","}) /\ Digits \cup {","} \subseteq DimsTokens
      BY NumbersBack DEF DimsTokens
    <2> DEFINE S == Digits \cup {","}
    <2>2. t \in Seq(S) /\ S \subseteq DimsTokens
      BY <2>1
    <2> HIDE DEF t, S
    <2>3. QED
      BY <2>2, WiderText
  <1>2. (t = <<>> <=> d = <<>>) /\ Parsed(Fields(t, ",")) = d
    BY NumbersBack
  <1>3. "{" \in DimsTokens /\ "}" \in DimsTokens
    BY DEF DimsTokens
  <1>4. DimsText(d) = b
    BY DEF DimsText
  <1> HIDE DEF t
  <1>5. b \in Seq(DimsTokens) /\ Len(b) = Len(t) + 2 /\ SubSeq(b, 2, Len(b) - 1) = t
    <2> DEFINE x == "{"
               y == "}"
    <2>1. x \in DimsTokens /\ y \in DimsTokens
      BY <1>3
    <2> HIDE DEF x, y
    <2> DEFINE w == <<x>> \o t \o <<y>>
    <2>2. w \in Seq(DimsTokens) /\ Len(w) = Len(t) + 2 /\ SubSeq(w, 2, Len(t) + 1) = t
      BY <1>1, <2>1, InBraces
    <2>3. w = b
      BY DEF x, y
    <2>4. Len(t) + 1 = (Len(t) + 2) - 1
      BY <1>1
    <2> HIDE DEF b, w
    <2>5. QED
      BY <2>2, <2>3, <2>4
  <1> HIDE DEF b
  <1>6. ConvertStrToDims(b) = d
    <2>1. Len(t) \in Nat /\ (Len(t) = 0 <=> t = <<>>)
      BY <1>1
    <2>2. CASE Len(t) = 0
      <3>1. d = <<>>
        BY <1>2, <2>1, <2>2, Zenon
      <3>2. Len(b) = 2
        BY <1>5, <2>2
      <3>3. ~(Len(b) > 2)
        BY <3>2
      <3>4. QED
        BY <3>1, <3>3, Zenon DEF ConvertStrToDims
    <2>3. CASE Len(t) # 0
      <3>1. Len(b) > 2
        BY <1>5, <2>1, <2>3
      <3>2. QED
        BY <1>2, <1>5, <3>1 DEF ConvertStrToDims
    <2>4. QED
      BY <2>2, <2>3
  <1>7. ";" \notin DimsTokens
    BY NumberTextAssumption DEF DimsTokens, Digits
  <1>8. QED
    BY <1>4, <1>5, <1>6, <1>7

\* u has length k and is s, of length m, and behind it t, of length n.
Behind(T, s, m, t, n, u, k) ==
  /\ u \in Seq(T) /\ Len(u) = k
  /\ \A i \in 1 .. m : u[i] = s[i]
  /\ \A i \in 1 .. n : u[m + i] = t[i]

\* Of two texts, one behind the other.
LEMMA GluedBehind ==
  ASSUME NEW T, NEW s \in Seq(T), NEW m, Len(s) = m, NEW t \in Seq(T), NEW n, Len(t) = n,
         NEW k, k = m + n
  PROVE  Behind(T, s, m, t, n, s \o t, k)
  <1> DEFINE u == s \o t
  <1>1. /\ u \in Seq(T) /\ Len(u) = Len(s) + Len(t)
        /\ \A i \in 1 .. Len(s) : u[i] = s[i]
        /\ \A i \in 1 .. Len(t) : u[Len(s) + i] = t[i]
    OBVIOUS
  <1> HIDE DEF u
  <1>2. Behind(T, s, m, t, n, u, k)
    BY <1>1 DEF Behind
  <1>3. QED
    BY <1>2 DEF u

\* Texts of one length with the same tokens are the same.
LEMMA SameText ==
  ASSUME NEW T, NEW s \in Seq(T), NEW t \in Seq(T), NEW n, Len(s) = n, Len(t) = n,
         \A i \in 1 .. n : s[i] = t[i]
  PROVE  s = t
  OBVIOUS

\* t lies in a text behind the place p.
Lies(text, p, t) == \A i \in 1 .. Len(t) : text[p + i] = t[i]

\* The piece behind the place p is t.
LEMMA PieceBehind ==
  ASSUME NEW T, NEW text \in Seq(T), NEW t \in Seq(T),
         NEW p \in Nat, NEW q, q = p + Len(t) + 1, p + Len(t) <= Len(text), Lies(text, p, t)
  PROVE  Piece(text, p, q) = t
  <1> DEFINE n == Len(t)
             u == SubSeq(text, p + 1, p + n)
  <1>1. n \in Nat /\ q - 1 = p + n
    OBVIOUS
  <1>2. Piece(text, p, q) = u
    BY <1>1 DEF Piece
  <1>3. u \in Seq(T) /\ Len(u) = n /\ \A i \in 1 .. n : u[i] = text[p + i]
    BY <1>1
  <1> HIDE DEF u
  <1>4. \A i \in 1 .. n : u[i] = t[i]
    BY <1>3 DEF Lies
  <1>5. QED
    BY <1>2, <1>3, <1>4, SameText

\* The text of five fields, the first two of one token.
FiveFieldText(separator, x, y, a, b, d) ==
  <<x, separator, y, separator>> \o a \o <<separator>> \o b \o <<separator>> \o d

\* It has the length n, and its third and fourth separator are at p and q.
FivePartText(T, separator, x, y, a, b, d, p, q, n, text) ==
  /\ text \in Seq(T) /\ Len(text) = n
  /\ text[1] = x /\ text[2] = separator /\ text[3] = y /\ text[4] = separator
  /\ Lies(text, 4, a)
  /\ text[p] = separator
  /\ Lies(text, p, b)
  /\ text[q] = separator
  /\ Lies(text, q, d)

\* Where the parts of a description lie.
LEMMA FiveParts ==
  ASSUME NEW T, NEW separator \in T, NEW x \in T, NEW y \in T,
         NEW a \in Seq(T), NEW b \in Seq(T), NEW d \in Seq(T),
         NEW p \in Nat, p = 5 + Len(a), NEW q \in Nat, q = p + Len(b) + 1,
         NEW n \in Nat, n = q + Len(d),
         NEW text, text = FiveFieldText(separator, x, y, a, b, d)
  PROVE  FivePartText(T, separator, x, y, a, b, d, p, q, n, text)
  <1> DEFINE la == Len(a)
             lb == Len(b)
             ld == Len(d)
             one == <<separator>>
             t1 == <<x, separator, y, separator>>
             t2 == t1 \o a
             t3 == t2 \o one
             t4 == t3 \o b
             t5 == t4 \o one
             m2 == 4 + la
             m4 == p + lb
  <1>1. la \in Nat /\ lb \in Nat /\ ld \in Nat
    OBVIOUS
  <1>2. t1 \in Seq(T) /\ Len(t1) = 4 /\ t1[1] = x /\ t1[2] = separator /\ t1[3] = y /\ t1[4] = separator
    OBVIOUS
  <1>3. one \in Seq(T) /\ Len(one) = 1 /\ one[1] = separator
    OBVIOUS
  <1> HIDE DEF t1, one
  <1>0. text = t5 \o d
    BY DEF FiveFieldText, t1, one
  <1>4. /\ m2 \in Nat /\ m4 \in Nat /\ m2 = 4 + la /\ p = m2 + 1 /\ m4 = p + lb /\ q = m4 + 1 /\ n = q + ld
        /\ 4 <= m2 /\ m2 <= p /\ p <= m4 /\ m4 <= q
    BY <1>1
  <1>5. Len(a) = la /\ Len(b) = lb /\ Len(d) = ld
    OBVIOUS
  <1> HIDE DEF la, lb, ld, m2, m4
  <1>6. Behind(T, t1, 4, a, la, t2, m2)
    BY <1>2, <1>4, <1>5, GluedBehind
  <1>7. t2 \in Seq(T) /\ Len(t2) = m2
    BY <1>6 DEF Behind
  <1> HIDE DEF t2
  <1>8. Behind(T, t2, m2, one, 1, t3, p)
    BY <1>3, <1>4, <1>7, GluedBehind
  <1>9. t3 \in Seq(T) /\ Len(t3) = p
    BY <1>8 DEF Behind
  <1> HIDE DEF t3
  <1>10. Behind(T, t3, p, b, lb, t4, m4)
    BY <1>4, <1>5, <1>9, GluedBehind
  <1>11. t4 \in Seq(T) /\ Len(t4) = m4
    BY <1>10 DEF Behind
  <1> HIDE DEF t4
  <1>12. Behind(T, t4, m4, one, 1, t5, q)
    BY <1>3, <1>4, <1>11, GluedBehind
  <1>13. t5 \in Seq(T) /\ Len(t5) = q
    BY <1>12 DEF Behind
  <1> HIDE DEF t5
  <1>14. Behind(T, t5, q, d, ld, text, n)
    BY <1>0, <1>4, <1>5, <1>13, GluedBehind
  <1>15. /\ \A i \in 1 .. m4 : text[i] = t4[i]
         /\ \A i \in 1 .. p : text[i] = t3[i]
         /\ \A i \in 1 .. m2 : text[i] = t2[i]
         /\ \A i \in 1 .. 4 : text[i] = t1[i]
    <2>1. ASSUME NEW i \in 1 .. m4 PROVE text[i] = t4[i]
      <3>1. i \in 1 .. q
        BY <1>4
      <3>2. QED
        BY <1>12, <1>14, <3>1 DEF Behind
    <2>2. ASSUME NEW i \in 1 .. p PROVE text[i] = t3[i]
      <3>1. i \in 1 .. m4
        BY <1>4
      <3>2. QED
        BY <1>10, <2>1, <3>1 DEF Behind
    <2>3. ASSUME NEW i \in 1 .. m2 PROVE text[i] = t2[i]
      <3>1. i \in 1 .. p
        BY <1>4
      <3>2. QED
        BY <1>8, <2>2, <3>1 DEF Behind
    <2>4. ASSUME NEW i \in 1 .. 4 PROVE text[i] = t1[i]
      <3>1. i \in 1 .. m2
        BY <1>4
      <3>2. QED
        BY <1>6, <2>3, <3>1 DEF Behind
    <2>5. QED
      BY <2>1, <2>2, <2>3, <2>4
  <1>16. text[1] = x /\ text[2] = separator /\ text[3] = y /\ text[4] = separator
    <2>1. 1 \in 1 .. 4 /\ 2 \in 1 .. 4 /\ 3 \in 1 .. 4 /\ 4 \in 1 .. 4
      OBVIOUS
    <2>2. QED
      BY <1>2, <1>15, <2>1
  <1>17. ASSUME NEW i \in 1 .. la PROVE text[4 + i] = a[i]
    <2>1. 4 + i \in 1 .. m2
      BY <1>1, <1>4
    <2>2. QED
      BY <1>6, <1>15, <2>1 DEF Behind
  <1>18. text[p] = separator
    <2>1. p \in 1 .. p /\ 1 \in 1 .. 1
      BY <1>4
    <2>2. t3[m2 + 1] = one[1]
      BY <1>8, <2>1 DEF Behind
    <2>3. t3[p] = separator
      BY <1>3, <1>4, <2>2
    <2>4. text[p] = t3[p]
      BY <1>15, <2>1
    <2>5. QED
      BY <2>3, <2>4
  <1>19. ASSUME NEW i \in 1 .. lb PROVE text[p + i] = b[i]
    <2>1. p + i \in 1 .. m4
      BY <1>1, <1>4
    <2>2. QED
      BY <1>10, <1>15, <2>1 DEF Behind
  <1>20. text[q] = separator
    <2>1. q \in 1 .. q /\ 1 \in 1 .. 1
      BY <1>4
    <2>2. t5[m4 + 1] = one[1]
      BY <1>12, <2>1 DEF Behind
    <2>3. t5[q] = separator
      BY <1>3, <1>4, <2>2
    <2>4. text[q] = t5[q]
      BY <1>14, <2>1 DEF Behind
    <2>5. QED
      BY <2>3, <2>4
  <1>21. \A i \in 1 .. ld : text[q + i] = d[i]
    BY <1>14 DEF Behind
  <1>22. text \in Seq(T) /\ Len(text) = n
    BY <1>14 DEF Behind
  <1>23. Lies(text, 4, a) /\ Lies(text, p, b) /\ Lies(text, q, d)
    BY <1>5, <1>17, <1>19, <1>21 DEF Lies
  <1>24. QED
    BY <1>16, <1>18, <1>20, <1>22, <1>23 DEF FivePartText

Without(t, separator) == \A i \in 1 .. Len(t) : t[i] # separator

\* The five fields.
LEMMA FiveFields ==
  ASSUME NEW T, NEW separator \in T, NEW x \in T, NEW y \in T,
         NEW a \in Seq(T), NEW b \in Seq(T), NEW d \in Seq(T),
         x # separator, y # separator,
         Without(a, separator), Without(b, separator), Without(d, separator),
         NEW text, text = FiveFieldText(separator, x, y, a, b, d)
  PROVE  LET f == Fields(text, separator)
         IN  f[1] = <<x>> /\ f[2] = <<y>> /\ f[3] = a /\ f[4] = b /\ f[5] = d
  <1> DEFINE la == Len(a)
             lb == Len(b)
             ld == Len(d)
             p == 5 + la
             q == p + lb + 1
             n == q + ld
  <1>1. /\ la \in Nat /\ lb \in Nat /\ ld \in Nat /\ p \in Nat /\ q \in Nat /\ n \in Nat
        /\ p = 5 + la /\ q = p + lb + 1 /\ n = q + ld
    OBVIOUS
  <1>3. Len(a) = la /\ Len(b) = lb /\ Len(d) = ld
    OBVIOUS
  <1> HIDE DEF p, q, n, la, lb, ld
  <1>2. /\ text \in Seq(T) /\ Len(text) = n
        /\ text[1] = x /\ text[2] = separator /\ text[3] = y /\ text[4] = separator
        /\ Lies(text, 4, a)
        /\ text[p] = separator
        /\ Lies(text, p, b)
        /\ text[q] = separator
        /\ Lies(text, q, d)
    <2>1. p = 5 + Len(a) /\ q = p + Len(b) + 1 /\ n = q + Len(d)
      BY <1>1, <1>3
    <2>2. p \in Nat /\ q \in Nat /\ n \in Nat
      BY <1>1
    <2>3. FivePartText(T, separator, x, y, a, b, d, p, q, n, text)
      BY <2>1, <2>2, FiveParts
    <2>4. QED
      BY <2>3 DEF FivePartText
  <1> DEFINE m == 5
             c == [i \in 0 .. 5 |-> IF i = 0 THEN 0 ELSE IF i = 1 THEN 2 ELSE IF i = 2 THEN 4
                   ELSE IF i = 3 THEN p ELSE IF i = 4 THEN q ELSE n + 1]
  <1>10. c[0] = 0 /\ c[1] = 2 /\ c[2] = 4 /\ c[3] = p /\ c[4] = q /\ c[5] = n + 1 /\ c[m] = n + 1
    OBVIOUS
  <1>11. 4 < p /\ p < q /\ q < n + 1
    BY <1>1
  <1>12. m \in Nat \ {0} /\ c \in [0 .. m -> Nat] /\ \A i, j \in 0 .. m : i < j => c[i] < c[j]
    BY <1>1, <1>11
  <1>13. 1 .. m - 1 = {1, 2, 3, 4} /\ 1 \in 1 .. m /\ 2 \in 1 .. m /\ 3 \in 1 .. m /\ 4 \in 1 .. m /\ 5 \in 1 .. m
    OBVIOUS
  <1> HIDE DEF c, m
  <1>14. ASSUME NEW r \in 1 .. Len(text)
         PROVE  text[r] = separator <=> \E i \in 1 .. m - 1 : c[i] = r
    <2>1. (\E i \in 1 .. m - 1 : c[i] = r) <=> r \in {2, 4, p, q}
      BY <1>10, <1>13
    <2>2. CASE r \in {2, 4, p, q}
      BY <1>2, <2>1, <2>2
    <2>3. CASE r \notin {2, 4, p, q}
      <3>1. CASE r \in {1, 3}
        BY <1>2, <2>1, <2>3, <3>1
      <3>2. CASE r > 4 /\ r < p
        <4> DEFINE i == r - 4
        <4>1. i \in 1 .. la /\ r = 4 + i
          BY <1>1, <3>2
        <4> HIDE DEF i
        <4>2. text[r] # separator
          BY <1>2, <1>3, <4>1 DEF Lies, Without
        <4>3. QED
          BY <2>1, <2>3, <4>2
      <3>3. CASE r > p /\ r < q
        <4> DEFINE i == r - p
        <4>1. i \in 1 .. lb /\ r = p + i
          BY <1>1, <3>3
        <4> HIDE DEF i
        <4>2. text[r] # separator
          BY <1>2, <1>3, <4>1 DEF Lies, Without
        <4>3. QED
          BY <2>1, <2>3, <4>2
      <3>4. CASE r > q
        <4> DEFINE i == r - q
        <4>1. i \in 1 .. ld /\ r = q + i
          BY <1>1, <1>2, <3>4
        <4> HIDE DEF i
        <4>2. text[r] # separator
          BY <1>2, <1>3, <4>1 DEF Lies, Without
        <4>3. QED
          BY <2>1, <2>3, <4>2
      <3>5. r \in Nat /\ r > 0
        BY <1>1, <1>2
      <3>6. QED
        BY <1>1, <2>3, <3>1, <3>2, <3>3, <3>4, <3>5
    <2>4. QED
      BY <2>2, <2>3
  <1>15. Cuts(text, separator, c, m)
    BY <1>2, <1>10, <1>12, <1>14 DEF Cuts
  <1> DEFINE f == Fields(text, separator)
  <1>16. f = [i \in 1 .. m |-> Piece(text, c[i - 1], c[i])]
    <2>1. text \in Seq(T) /\ text # <<>>
      BY <1>1, <1>2
    <2>2. QED
      BY <1>15, <2>1, FieldsOfCuts
  <1> HIDE DEF f
  <1>17. f[1] = Piece(text, 0, 2) /\ f[2] = Piece(text, 2, 4) /\ f[3] = Piece(text, 4, p)
         /\ f[4] = Piece(text, p, q) /\ f[5] = Piece(text, q, n + 1)
    <2>1. 1 - 1 = 0 /\ 2 - 1 = 1 /\ 3 - 1 = 2 /\ 4 - 1 = 3 /\ 5 - 1 = 4
      OBVIOUS
    <2>2. f[1] = Piece(text, c[0], c[1]) /\ f[2] = Piece(text, c[1], c[2]) /\ f[3] = Piece(text, c[2], c[3])
          /\ f[4] = Piece(text, c[3], c[4]) /\ f[5] = Piece(text, c[4], c[5])
      BY <1>13, <1>16, <2>1
    <2>3. QED
      BY <1>10, <2>2
  <1>18. Piece(text, 0, 2) = <<x>> /\ Piece(text, 2, 4) = <<y>>
    <2>1. 1 \in 1 .. Len(text) /\ 3 \in 1 .. Len(text)
      BY <1>1, <1>2
    <2>2. Piece(text, 0, 2) = SubSeq(text, 1, 1) /\ Piece(text, 2, 4) = SubSeq(text, 3, 3)
      BY DEF Piece
    <2>3. QED
      BY <1>2, <2>1, <2>2, OneToken
  <1>19. Piece(text, 4, p) = a /\ Piece(text, p, q) = b /\ Piece(text, q, n + 1) = d
    <2>1. /\ p = 4 + Len(a) + 1 /\ 4 + Len(a) <= Len(text) /\ 4 \in Nat
          /\ q = p + Len(b) + 1 /\ p + Len(b) <= Len(text)
          /\ n + 1 = q + Len(d) + 1 /\ q + Len(d) <= Len(text)
      BY <1>1, <1>2, <1>3
    <2>0. text \in Seq(T) /\ Lies(text, 4, a) /\ Lies(text, p, b) /\ Lies(text, q, d)
      BY <1>2
    <2>2. Piece(text, 4, p) = a
      BY <2>0, <2>1, PieceBehind
    <2>3. Piece(text, p, q) = b
      <3>1. p \in Nat /\ q = p + Len(b) + 1 /\ p + Len(b) <= Len(text)
        BY <1>1, <2>1
      <3>2. QED
        BY <2>0, <3>1, PieceBehind
    <2>4. Piece(text, q, n + 1) = d
      <3>1. q \in Nat /\ n + 1 = q + Len(d) + 1 /\ q + Len(d) <= Len(text)
        BY <1>1, <2>1
      <3>2. QED
        BY <2>0, <3>1, PieceBehind
    <2>5. QED
      BY <2>2, <2>3, <2>4
  <1>20. QED
    BY <1>17, <1>18, <1>19 DEF f

\* What WriteVariableInfo writes of a variable, Init reads back.
LEMMA InfoBack ==
  ASSUME NEW v \in Variables, NEW y \in VariableTypes, NEW s \in Selections
  PROVE  ParsedInfo(WriteVariableInfo(v, y, s)) = [name |-> v, selection |-> s]
  <1> DEFINE D == Seq(0 .. MaxNumber)
             T == Variables \cup VariableTypes \cup DimsTokens \cup {";"}
             sep == ";"
             a == DimsText(s.shape)
             b == DimsText(s.start)
             d == DimsText(s.count)
  <1>1. s = [shape |-> s.shape, start |-> s.start, count |-> s.count]
        /\ s.shape \in D /\ s.start \in D /\ s.count \in D
    <2> HIDE DEF D
    <2>1. s \in [shape : D, start : D, count : D]
      BY SelectionAssumption DEF D
    <2>2. QED
      BY <2>1
  <1>2. /\ a \in Seq(DimsTokens) /\ ConvertStrToDims(a) = s.shape
        /\ b \in Seq(DimsTokens) /\ ConvertStrToDims(b) = s.start
        /\ d \in Seq(DimsTokens) /\ ConvertStrToDims(d) = s.count
        /\ ";" \notin DimsTokens
    BY <1>1, DimsBack
  <1>3. /\ sep \in T /\ v \in T /\ y \in T /\ v # sep /\ y # sep
        /\ DimsTokens \subseteq T /\ sep \notin DimsTokens
    BY <1>2, NameAssumption DEF VariableTypes
  <1>4. WriteVariableInfo(v, y, s) = FiveFieldText(sep, v, y, a, b, d)
    BY DEF WriteVariableInfo, FiveFieldText
  <1> HIDE DEF T, sep, a, b, d
  <1>5. ASSUME NEW t \in Seq(DimsTokens)
        PROVE  t \in Seq(T) /\ Without(t, sep)
    BY <1>3 DEF Without
  <1> DEFINE f == Fields(WriteVariableInfo(v, y, s), sep)
  <1>6. f[1] = <<v>> /\ f[3] = a /\ f[4] = b /\ f[5] = d
    <2>1. a \in Seq(T) /\ b \in Seq(T) /\ d \in Seq(T)
          /\ Without(a, sep) /\ Without(b, sep) /\ Without(d, sep)
      BY <1>2, <1>5
    <2>2. QED
      BY <1>3, <1>4, <2>1, FiveFields
  <1>7. ParsedInfo(WriteVariableInfo(v, y, s)) =
          [name |-> v, selection |-> [shape |-> ConvertStrToDims(a), start |-> ConvertStrToDims(b),
                                      count |-> ConvertStrToDims(d)]]
    <2>1. f[1][1] = v
      BY <1>6
    <2>2. Fields(WriteVariableInfo(v, y, s), ";") = f
      BY DEF sep
    <2> HIDE DEF f
    <2>3. QED
      BY <1>6, <2>1, <2>2, Zenon DEF ParsedInfo
  <1>8. QED
    BY <1>1, <1>2, <1>7

\* A product of numbers is a number.
LEMMA ProductType ==
  ASSUME NEW a \in Nat, NEW b \in Nat
  PROVE  a * b \in Nat
  OBVIOUS

SizeLoop(g, count) == g = [n \in 0 .. Len(count) |-> IF n = 0 THEN 1 ELSE count[n] * g[n - 1]]

\* A selection has a number of elements.
LEMMA SelectionSizeType ==
  ASSUME NEW s, s.count \in Seq(0 .. MaxNumber)
  PROVE  SelectionSize(s) \in Nat
  <1> DEFINE count == s.count
             N == Len(count)
             step == [x \in (1 .. N) \X Nat |-> count[x[1]] * x[2]]
  <1>1. N \in Nat /\ \A n \in 1 .. N : count[n] \in Nat
    <2> DEFINE D == 0 .. MaxNumber
    <2>1. count \in Seq(D) /\ D \subseteq Nat
      BY PluginBoundAssumption
    <2> HIDE DEF D, count
    <2>2. N \in Nat /\ \A n \in 1 .. N : count[n] \in D
      BY <2>1
    <2>3. QED
      BY <2>1, <2>2
  <1> HIDE DEF count, N
  <1>2. step \in [(1 .. N) \X Nat -> Nat]
    <2>1. ASSUME NEW x \in (1 .. N) \X Nat PROVE count[x[1]] * x[2] \in Nat
      <3>1. count[x[1]] \in Nat /\ x[2] \in Nat
        BY <1>1
      <3>2. QED
        BY <3>1, ProductType
    <2>2. QED
      BY <2>1
  <1>3. PICK g : Runs(g, Nat, 1, step, N)
    <2> HIDE DEF step
    <2>1. 1 \in Nat
      OBVIOUS
    <2>2. QED
      BY <1>1, <1>2, <2>1, LoopRuns
  <1>4. ASSUME NEW n \in 0 .. N
        PROVE  g[n] = IF n = 0 THEN 1 ELSE count[n] * g[n - 1]
    <2>1. CASE n = 0
      BY <1>3, <2>1 DEF Runs
    <2>2. CASE n # 0
      <3>1. n \in 1 .. N /\ n - 1 \in 0 .. N
        BY <1>1, <2>2
      <3>2. g[n] = step[<<n, g[n - 1]>>] /\ g[n - 1] \in Nat
        BY <1>3, <3>1 DEF Runs
      <3> DEFINE y == g[n - 1]
      <3> HIDE DEF y
      <3>3. step[<<n, y>>] = count[n] * y
        BY <3>1, <3>2 DEF y
      <3>4. QED
        BY <2>2, <3>2, <3>3 DEF y
    <2>3. QED
      BY <2>1, <2>2
  <1>5. g = [n \in 0 .. N |-> g[n]]
    BY <1>3 DEF Runs
  <1>6. SizeLoop(g, count)
    BY <1>4, <1>5, Zenon DEF SizeLoop, N
  <1> DEFINE f == CHOOSE h : SizeLoop(h, count)
  <1>7. SizeLoop(f, count)
    BY <1>6
  <1>8. SelectionSize(s) = f[N]
    BY DEF SelectionSize, SizeLoop, count, N
  <1> HIDE DEF f
  <1>9. ASSUME NEW n \in 0 .. N
        PROVE  f[n] = IF n = 0 THEN 1 ELSE count[n] * f[n - 1]
    BY <1>7 DEF SizeLoop, N
  <1>10. f[N] \in Nat
    <2> DEFINE bad == {n \in 0 .. N : f[n] \notin Nat}
    <2> SUFFICES ASSUME bad # {} PROVE FALSE
      BY <1>1
    <2>1. PICK n \in bad : \A m \in bad : n <= m
      <3>1. bad \subseteq Nat
        OBVIOUS
      <3> HIDE DEF bad
      <3>2. QED
        BY <3>1, LeastExists
    <2>2. CASE n = 0
      BY <1>9, <2>2
    <2>3. CASE n # 0
      <3>1. n \in 1 .. N /\ n - 1 \in 0 .. N /\ n - 1 \notin bad
        BY <1>1, <2>1, <2>3
      <3>2. f[n - 1] \in Nat /\ count[n] \in Nat
        BY <1>1, <3>1
      <3>3. count[n] * f[n - 1] \in Nat
        BY <3>2, ProductType
      <3>4. QED
        BY <1>9, <2>3, <3>1, <3>3
    <2>4. QED
      BY <2>2, <2>3
  <1>11. QED
    BY <1>8, <1>10

-----------------------------------------------------------------------------
(***************************************************************************)
(* The loop over the descriptions: of those of one variable the first one  *)
(* counts, and none if the variable is there already.                      *)
(***************************************************************************)
Selected == Selections \cup {NoVariable}
Infos == [name : Variables, selection : Selections]

\* No selection is the mark of an undefined variable.
LEMMA NotSelected == NoVariable \notin Selections
  <1> SUFFICES ASSUME NoVariable \in Selections PROVE FALSE
    OBVIOUS
  <1>1. NoVariable.count \in Seq(0 .. MaxNumber) /\ NoVariable.count = <<-1>>
    BY SelectionAssumption DEF NoVariable
  <1> DEFINE c == NoVariable.count
             D == 0 .. MaxNumber
  <1>2. c \in Seq(D) /\ Len(c) = 1 /\ c[1] = -1
    BY <1>1
  <1> HIDE DEF c
  <1>3. c[1] \in D
    <2> HIDE DEF D
    <2>1. QED
      BY <1>2
  <1>4. QED
    BY <1>2, <1>3, PluginBoundAssumption

\* AddVariable defines the variable it is given unless it is there already, and no
\* other one.
LEMMA AddVariableEffect ==
  ASSUME NEW x \in [Variables -> Selected], NEW info \in Infos
  PROVE  /\ AddVariable(x, info) \in [Variables -> Selected]
         /\ \A v \in Variables : AddVariable(x, info)[v] =
              IF v = info.name /\ x[v] = NoVariable THEN info.selection ELSE x[v]
  <1> DEFINE new == IF x[info.name] = NoVariable THEN info.selection ELSE x[info.name]
  <1>1. info.name \in Variables /\ info.selection \in Selected
    BY DEF Infos, Selected
  <1>2. new \in Selected
    BY <1>1
  <1>3. AddVariable(x, info) = [x EXCEPT ![info.name] = new]
    BY DEF AddVariable
  <1>4. AddVariable(x, info) \in [Variables -> Selected]
    <2> HIDE DEF new
    <2>1. QED
      BY <1>1, <1>2, <1>3
  <1>5. ASSUME NEW v \in Variables
        PROVE  AddVariable(x, info)[v] = IF v = info.name /\ x[v] = NoVariable THEN info.selection ELSE x[v]
    BY <1>1, <1>3
  <1>6. QED
    BY <1>4, <1>5

AddLoop(g, variables, infos) ==
  g = [n \in 0 .. Len(infos) |-> IF n = 0 THEN variables ELSE AddVariable(g[n - 1], infos[n])]

\* The values the loop goes through.
LEMMA AddVariablesLoop ==
  ASSUME NEW variables \in [Variables -> Selected], NEW infos \in Seq(Infos)
  PROVE  \E g : /\ g \in [0 .. Len(infos) -> [Variables -> Selected]]
                /\ g[0] = variables /\ AddVariables(variables, infos) = g[Len(infos)]
                /\ \A n \in 1 .. Len(infos) : g[n] = AddVariable(g[n - 1], infos[n])
  <1> DEFINE S == [Variables -> Selected]
             N == Len(infos)
             step == [x \in (1 .. N) \X S |-> AddVariable(x[2], infos[x[1]])]
  <1>1. N \in Nat /\ \A n \in 1 .. N : infos[n] \in Infos
    <2> HIDE DEF S
    <2>1. QED
      OBVIOUS
  <1> HIDE DEF N
  <1>2. step \in [(1 .. N) \X S -> S]
    <2>1. ASSUME NEW x \in (1 .. N) \X S PROVE AddVariable(x[2], infos[x[1]]) \in S
      <3>1. x[2] \in S /\ infos[x[1]] \in Infos
        BY <1>1
      <3>2. QED
        BY <3>1, AddVariableEffect
    <2> HIDE DEF S
    <2>2. QED
      BY <2>1
  <1>3. variables \in S
    OBVIOUS
  <1> HIDE DEF S
  <1>4. PICK g : Runs(g, S, variables, step, N)
    <2> HIDE DEF step
    <2>1. QED
      BY <1>1, <1>2, <1>3, LoopRuns
  <1>5. ASSUME NEW n \in 0 .. N
        PROVE  g[n] = IF n = 0 THEN variables ELSE AddVariable(g[n - 1], infos[n])
    <2>1. CASE n = 0
      BY <1>4, <2>1 DEF Runs
    <2>2. CASE n # 0
      <3>1. n \in 1 .. N /\ n - 1 \in 0 .. N
        BY <1>1, <2>2
      <3>2. g[n] = step[<<n, g[n - 1]>>] /\ g[n - 1] \in S
        BY <1>4, <3>1 DEF Runs
      <3> DEFINE y == g[n - 1]
      <3> HIDE DEF y
      <3>3. step[<<n, y>>] = AddVariable(y, infos[n])
        BY <3>1, <3>2 DEF y
      <3>4. QED
        BY <2>2, <3>2, <3>3 DEF y
    <2>3. QED
      BY <2>1, <2>2
  <1>6. g = [n \in 0 .. N |-> g[n]]
    BY <1>4 DEF Runs
  <1>7. AddLoop(g, variables, infos)
    BY <1>5, <1>6, Zenon DEF AddLoop, N
  <1> DEFINE f == CHOOSE h : AddLoop(h, variables, infos)
  <1>8. AddLoop(f, variables, infos)
    BY <1>7
  <1>9. AddVariables(variables, infos) = f[N]
    BY DEF AddVariables, AddLoop, N
  <1> HIDE DEF f
  <1>10. f[0] = variables /\ \A n \in 1 .. N : f[n] = AddVariable(f[n - 1], infos[n])
    <2>1. ASSUME NEW n \in 0 .. N
          PROVE  f[n] = IF n = 0 THEN variables ELSE AddVariable(f[n - 1], infos[n])
      BY <1>8 DEF AddLoop, N
    <2>2. \A n \in 1 .. N : n \in 0 .. N /\ n # 0
      BY <1>1
    <2>3. 0 \in 0 .. N
      BY <1>1
    <2>4. QED
      BY <2>1, <2>2, <2>3
  <1>11. ASSUME NEW n \in 0 .. N PROVE f[n] \in S
    <2> DEFINE bad == {m \in 0 .. N : f[m] \notin S}
    <2> SUFFICES ASSUME bad # {} PROVE FALSE
      OBVIOUS
    <2>1. PICK m \in bad : \A k \in bad : m <= k
      <3>1. bad \subseteq Nat
        OBVIOUS
      <3> HIDE DEF bad
      <3>2. QED
        BY <3>1, LeastExists
    <2>2. m # 0
      BY <1>3, <1>10
    <2>3. m \in 1 .. N /\ m - 1 \in 0 .. N /\ m - 1 \notin bad
      BY <1>1, <2>1, <2>2
    <2>4. f[m - 1] \in S /\ infos[m] \in Infos
      BY <1>1, <2>3
    <2>5. AddVariable(f[m - 1], infos[m]) \in S
      BY <2>4, AddVariableEffect DEF S
    <2>6. QED
      BY <1>10, <2>3, <2>5
  <1>12. f \in [0 .. N -> S]
    <2>1. f = [n \in 0 .. N |-> f[n]]
      BY <1>8 DEF AddLoop, N
    <2>2. QED
      BY <1>11, <2>1
  <1>13. QED
    BY <1>9, <1>10, <1>12 DEF S, N

\* A variable that is there stays; of one that is not, the first description counts.
LEMMA AddVariablesEffect ==
  ASSUME NEW variables \in [Variables -> Selected], NEW infos \in Seq(Infos)
  PROVE  /\ AddVariables(variables, infos) \in [Variables -> Selected]
         /\ \A v \in Variables : variables[v] # NoVariable =>
              AddVariables(variables, infos)[v] = variables[v]
         /\ \A v \in Variables, k \in 1 .. Len(infos) :
              /\ variables[v] = NoVariable /\ infos[k].name = v
              /\ \A i \in 1 .. k - 1 : infos[i].name = v => infos[i].selection = infos[k].selection
              => AddVariables(variables, infos)[v] = infos[k].selection
  <1> DEFINE N == Len(infos)
  <1>1. N \in Nat /\ \A n \in 1 .. N : infos[n] \in Infos
    OBVIOUS
  <1>2. PICK g : /\ g \in [0 .. N -> [Variables -> Selected]]
                 /\ g[0] = variables /\ AddVariables(variables, infos) = g[N]
                 /\ \A n \in 1 .. N : g[n] = AddVariable(g[n - 1], infos[n])
    BY AddVariablesLoop
  <1> HIDE DEF N
  <1>3. ASSUME NEW v \in Variables, NEW n \in 1 .. N
        PROVE  g[n][v] = IF v = infos[n].name /\ g[n - 1][v] = NoVariable
                         THEN infos[n].selection ELSE g[n - 1][v]
    <2>1. n - 1 \in 0 .. N
      BY <1>1
    <2>2. g[n - 1] \in [Variables -> Selected] /\ infos[n] \in Infos
      BY <1>1, <1>2, <2>1
    <2>3. g[n] = AddVariable(g[n - 1], infos[n])
      BY <1>2
    <2> DEFINE x == g[n - 1]
    <2> HIDE DEF x
    <2>4. AddVariable(x, infos[n])[v] =
            IF v = infos[n].name /\ x[v] = NoVariable THEN infos[n].selection ELSE x[v]
      BY <2>2, AddVariableEffect DEF x
    <2>5. QED
      BY <2>3, <2>4 DEF x
  <1>4. g[N] \in [Variables -> Selected]
    BY <1>1, <1>2
  <1>5. ASSUME NEW v \in Variables, NEW a \in Selected, a # NoVariable,
               NEW k \in 0 .. N, g[k][v] = a, NEW n \in k .. N
        PROVE  g[n][v] = a
    <2> DEFINE bad == {m \in k .. N : g[m][v] # a}
    <2> SUFFICES ASSUME bad # {} PROVE FALSE
      OBVIOUS
    <2>1. PICK m \in bad : \A j \in bad : m <= j
      <3>1. bad \subseteq Nat
        BY <1>1
      <3> HIDE DEF bad
      <3>2. QED
        BY <3>1, LeastExists
    <2>2. m # k
      BY <1>5
    <2>3. m \in 1 .. N /\ m - 1 \in k .. N /\ m - 1 \notin bad
      BY <1>1, <2>1, <2>2
    <2>4. g[m - 1][v] = a
      BY <2>3
    <2>5. g[m][v] = a
      BY <1>3, <1>5, <2>3, <2>4
    <2>6. QED
      BY <2>5
  <1>6. ASSUME NEW v \in Variables, variables[v] # NoVariable
        PROVE  g[N][v] = variables[v]
    <2>1. 0 \in 0 .. N /\ N \in 0 .. N /\ variables[v] \in Selected
      BY <1>1
    <2>2. QED
      BY <1>2, <1>5, <1>6, <2>1
  <1>7. ASSUME NEW v \in Variables, NEW k \in 1 .. N,
               variables[v] = NoVariable, infos[k].name = v,
               \A i \in 1 .. k - 1 : infos[i].name = v => infos[i].selection = infos[k].selection
        PROVE  g[N][v] = infos[k].selection
    <2> DEFINE a == infos[k].selection
    <2>1. a \in Selected /\ a # NoVariable
      <3>1. infos[k] \in Infos
        BY <1>1
      <3>2. a \in Selections
        BY <3>1 DEF Infos
      <3>3. QED
        BY <3>2, NotSelected DEF Selected
    <2> HIDE DEF a
    <2>2. ASSUME NEW n \in 0 .. k - 1 PROVE g[n][v] \in {NoVariable, a}
      <3> DEFINE bad == {m \in 0 .. k - 1 : g[m][v] \notin {NoVariable, a}}
      <3> SUFFICES ASSUME bad # {} PROVE FALSE
        OBVIOUS
      <3>1. PICK m \in bad : \A j \in bad : m <= j
        <4>1. bad \subseteq Nat
          BY <1>1
        <4> HIDE DEF bad
        <4>2. QED
          BY <4>1, LeastExists
      <3>2. m # 0
        BY <1>2, <1>7
      <3>3. m \in 1 .. k - 1 /\ m \in 1 .. N /\ m - 1 \in 0 .. k - 1 /\ m - 1 \notin bad
        BY <1>1, <3>1, <3>2
      <3>4. g[m - 1][v] \in {NoVariable, a}
        BY <3>3
      <3>5. infos[m].name = v => infos[m].selection = a
        BY <1>7, <3>3 DEF a
      <3>6. g[m][v] \in {NoVariable, a}
        BY <1>3, <3>3, <3>4, <3>5
      <3>7. QED
        BY <3>6
    <2>3. k - 1 \in 0 .. k - 1
      BY <1>1
    <2>4. g[k][v] = a
      <3>1. g[k - 1][v] \in {NoVariable, a}
        BY <2>2, <2>3
      <3>2. QED
        BY <1>3, <1>7, <3>1 DEF a
    <2>5. k \in 0 .. N /\ N \in k .. N
      BY <1>1
    <2>6. g[N][v] = a
      BY <1>5, <2>1, <2>4, <2>5
    <2>7. QED
      BY <2>6 DEF a
  <1>8. QED
    BY <1>2, <1>4, <1>6, <1>7 DEF N

-----------------------------------------------------------------------------
(***************************************************************************)
(* Every entry lies in the directory of its writer's group, under a key    *)
(* with its writer's place in the group.                                   *)
(***************************************************************************)
IsLog(log) == log \in Seq(Range(log))

StoresShape ==
  /\ DOMAIN stores = Paths(agg)
  /\ \A p \in Paths(agg) :
       /\ stores[p] = [log |-> stores[p].log, durable |-> stores[p].durable]
       /\ IsLog(stores[p].log)
       /\ stores[p].durable \in 0 .. Len(stores[p].log)

\* Under the place of its writer.
WrittenBy(a, p, e) ==
  e.writer \in Ranks /\ DbPath(a, e.writer) = p /\ e.key.rank = RankOfKey(a, e.writer)

\* Numbers that can be printed and read, as far as they are printed.
NumbersOf(d) == d \in Seq(0 .. MaxNumber) /\ \A i \in DOMAIN d : Rounded(d[i]) \in 0 .. MaxNumber
Puttable(type, d) == IF type = "string" THEN IsLog(d) ELSE NumbersOf(d)

\* With the text of what was written: the description of a selection, or the values.
Sound(ty, e) ==
  /\ e.key.name \in Variables /\ e.key.meta \in BOOLEAN
  /\ e.key = [meta |-> e.key.meta, rank |-> e.key.rank, name |-> e.key.name]
  /\ e = [key |-> e.key, text |-> e.text, writer |-> e.writer, what |-> e.what, lost |-> e.lost]
  /\ IF e.key.meta
     THEN e.what \in Selections /\ e.text = WriteVariableInfo(e.key.name, ty[e.key.name], e.what)
     ELSE Puttable(ty[e.key.name], e.what) /\ e.text = ValueText(ty[e.key.name], e.what)

Placed(a, ty, p, e) == WrittenBy(a, p, e) /\ Sound(ty, e)

EntriesInPlace ==
  \A p \in Paths(agg) : \A i \in DOMAIN stores[p].log : Placed(agg, types, p, stores[p].log[i])

StoresInv == StoresShape /\ EntriesInPlace

\* Entries in their place have one writer per key.
LEMMA EntriesNameWriters == StoresInv => OneWriterPerKey
  <1> SUFFICES ASSUME StoresInv, NEW p \in DOMAIN stores,
                      NEW i \in DOMAIN stores[p].log, NEW j \in DOMAIN stores[p].log,
                      stores[p].log[i].key = stores[p].log[j].key
               PROVE  stores[p].log[i].writer = stores[p].log[j].writer
    BY DEF OneWriterPerKey
  <1>1. p \in Paths(agg)
    BY DEF StoresInv, StoresShape
  <1>2. Placed(agg, types, p, stores[p].log[i]) /\ Placed(agg, types, p, stores[p].log[j])
    BY <1>1 DEF StoresInv, EntriesInPlace
  <1>3. QED
    BY <1>2, KeyNamesRank DEF Placed, WrittenBy

\* What a call adds to the store of its rank.
LEMMA StoredKeepsInv ==
  ASSUME NEW r \in Ranks, NEW meta, NEW v, NEW text, NEW what,
         StoresInv, UNCHANGED <<agg, types>>, Stored(r, Key(r, meta, v), text, what),
         Sound(types, [key |-> Key(r, meta, v), text |-> text, writer |-> r, what |-> what,
                       lost |-> FALSE])
  PROVE  StoresInv'
  <1> DEFINE p == DbPath(agg, r)
             e == [key |-> Key(r, meta, v), text |-> text, writer |-> r, what |-> what,
                   lost |-> FALSE]
             old == stores[p].log
             new == Append(old, e)
  <1>1. p \in Paths(agg) /\ p \in DOMAIN stores
    <2>1. p \in Paths(agg)
      BY DEF Paths
    <2>2. QED
      BY <2>1 DEF StoresInv, StoresShape
  <1>2. /\ stores[p] = [log |-> old, durable |-> stores[p].durable]
        /\ old \in Seq(Range(old)) /\ stores[p].durable \in 0 .. Len(old)
    BY <1>1 DEF StoresInv, StoresShape, IsLog
  <1>3. stores' = [stores EXCEPT ![p] = [log |-> new, durable |-> stores[p].durable]]
    <2>1. stores' = [stores EXCEPT ![p] = [stores[p] EXCEPT !.log = new]]
      BY DEF Stored
    <2> HIDE DEF new, old
    <2>2. [stores[p] EXCEPT !.log = new] = [log |-> new, durable |-> stores[p].durable]
      <3> DEFINE d == stores[p].durable
      <3> HIDE DEF d
      <3>1. stores[p] = [log |-> old, durable |-> d]
        BY <1>2 DEF d
      <3>2. QED
        BY <3>1 DEF d
    <2>3. QED
      BY <2>1, <2>2
  <1>4. /\ Len(old) \in Nat /\ DOMAIN old = 1 .. Len(old)
        /\ Len(new) = Len(old) + 1 /\ DOMAIN new = 1 .. Len(old) + 1
        /\ \A i \in 1 .. Len(old) : new[i] = old[i]
        /\ new[Len(old) + 1] = e
        /\ new \in Seq(Range(old) \cup {e})
    <2>1. old \in Seq(Range(old) \cup {e}) /\ e \in Range(old) \cup {e}
      <3> HIDE DEF e
      <3>1. QED
        BY <1>2
    <2> HIDE DEF e, old
    <2>2. QED
      BY <2>1
  <1>5. new \in Seq(Range(new))
    <2> HIDE DEF e, old
    <2>1. \A i \in 1 .. Len(new) : new[i] \in Range(new)
      BY <1>4 DEF Range
    <2> HIDE DEF new
    <2>2. QED
      BY <1>4, <2>1
  <1>6. /\ DOMAIN stores' = Paths(agg)
        /\ stores'[p] = [log |-> new, durable |-> stores[p].durable]
        /\ \A q \in Paths(agg) \ {p} : stores'[q] = stores[q]
    <2> HIDE DEF p, new
    <2>1. QED
      BY <1>1, <1>3 DEF StoresInv, StoresShape
  <1>7. Placed(agg, types, p, e)
    BY DEF Placed, WrittenBy, Key
  <1>8. ASSUME NEW q \in Paths(agg)
        PROVE  /\ stores'[q] = [log |-> stores'[q].log, durable |-> stores'[q].durable]
               /\ IsLog(stores'[q].log)
               /\ stores'[q].durable \in 0 .. Len(stores'[q].log)
               /\ \A i \in DOMAIN stores'[q].log : Placed(agg, types, q, stores'[q].log[i])
    <2>1. CASE q = p
      <3>1. stores'[q].log = new /\ stores'[q].durable = stores[p].durable
        <4> HIDE DEF p, new
        <4>1. QED
          BY <1>6, <2>1
      <3>2. \A i \in DOMAIN new : Placed(agg, types, p, new[i])
        <4>1. \A i \in 1 .. Len(old) : Placed(agg, types, p, old[i])
          BY <1>1, <1>4 DEF StoresInv, EntriesInPlace
        <4> HIDE DEF p, old, e, new
        <4>2. QED
          BY <1>4, <1>7, <4>1
      <3> HIDE DEF p, old, e, new
      <3>3. stores[p].durable \in 0 .. Len(new)
        BY <1>2, <1>4
      <3>4. QED
        BY <1>5, <1>6, <2>1, <3>1, <3>2, <3>3 DEF IsLog
    <2>2. CASE q # p
      <3>1. stores'[q] = stores[q]
        BY <1>6, <2>2
      <3>2. QED
        BY <3>1 DEF StoresInv, StoresShape, EntriesInPlace
    <2>3. QED
      BY <2>1, <2>2
  <1>9. QED
    BY <1>6, <1>8 DEF StoresInv, StoresShape, EntriesInPlace, IsLog

\* The stores as they are before the first call and after an overwriting open.
LEMMA EmptyStores ==
  ASSUME NEW a
  PROVE  LET empty == [p \in Paths(a) |-> [log |-> <<>>, durable |-> 0]]
         IN  /\ DOMAIN empty = Paths(a)
             /\ \A p \in Paths(a) :
                  /\ empty[p] = [log |-> empty[p].log, durable |-> empty[p].durable]
                  /\ IsLog(empty[p].log)
                  /\ empty[p].durable \in 0 .. Len(empty[p].log)
                  /\ DOMAIN empty[p].log = {}
  <1>1. \A S : <<>> \in Seq(S)
    OBVIOUS
  <1>2. IsLog(<<>>)
    BY <1>1 DEF IsLog
  <1>3. DOMAIN << >> = {} /\ 0 \in 0 .. Len(<< >>)
    OBVIOUS
  <1>4. QED
    BY <1>2, <1>3

\* The stores are empty at first.
LEMMA InitStores == Init => StoresInv
  <1> SUFFICES ASSUME Init PROVE StoresInv
    OBVIOUS
  <1>1. stores = [p \in Paths(agg) |-> [log |-> <<>>, durable |-> 0]]
    BY DEF Init
  <1>2. QED
    BY <1>1, EmptyStores DEF StoresInv, StoresShape, EntriesInPlace

\* The beginning of a store's history, as a crash leaves it.
LEMMA Beginning ==
  ASSUME NEW log, IsLog(log), NEW n \in 0 .. Len(log)
  PROVE  LET kept == SubSeq(log, 1, n)
         IN  /\ IsLog(kept) /\ Len(kept) = n /\ DOMAIN kept \subseteq DOMAIN log
             /\ \A i \in DOMAIN kept : kept[i] = log[i]
  <1> DEFINE kept == SubSeq(log, 1, n)
  <1>1. log \in Seq(Range(log)) /\ Len(log) \in Nat /\ n \in Nat /\ DOMAIN log = 1 .. Len(log)
    BY DEF IsLog
  <1>2. kept \in Seq(Range(log)) /\ Len(kept) = n /\ DOMAIN kept = 1 .. n
        /\ \A i \in 1 .. n : kept[i] = log[i]
    BY <1>1
  <1> HIDE DEF kept
  <1>3. kept \in Seq(Range(kept))
    <2>1. \A i \in 1 .. n : kept[i] \in Range(kept)
      BY <1>2 DEF Range
    <2>2. QED
      BY <1>1, <1>2, <2>1
  <1>4. IsLog(kept) /\ Len(kept) = n /\ DOMAIN kept \subseteq DOMAIN log
        /\ \A i \in DOMAIN kept : kept[i] = log[i]
    BY <1>1, <1>2, <1>3 DEF IsLog
  <1>5. QED
    BY <1>4 DEF kept

\* What a crash leaves of a store is a log of entries that were in it, as they were
\* or lost.
LEMMA CrashedType ==
  ASSUME NEW a, NEW ty, NEW p, NEW store, IsLog(store.log), store.durable \in 0 .. Len(store.log),
         \A i \in DOMAIN store.log : Placed(a, ty, p, store.log[i]),
         NEW left \in Crashed(store)
  PROVE  /\ left = [log |-> left.log, durable |-> left.durable]
         /\ IsLog(left.log) /\ left.durable \in 0 .. Len(left.log)
         /\ \A i \in DOMAIN left.log : Placed(a, ty, p, left.log[i])
  <1> DEFINE log == store.log
             N == Len(log)
  <1>1. PICK n \in store.durable .. N :
          \/ left = [log |-> SubSeq(log, 1, n), durable |-> n]
          \/ \E file \in store.durable .. n - 1 : left = [log |-> LastTorn(log, n, file), durable |-> n]
    BY DEF Crashed
  <1>2. N \in Nat /\ DOMAIN log = 1 .. N /\ n \in 0 .. N
    <2>1. N \in Nat /\ DOMAIN log = 1 .. N
      BY DEF IsLog
    <2> HIDE DEF N, log
    <2>2. store.durable \in 0 .. N
      BY DEF N, log
    <2>3. QED
      BY <2>1, <2>2
  <1>3. ASSUME NEW cut, left = [log |-> cut, durable |-> n], IsLog(cut), Len(cut) = n,
               \A i \in DOMAIN cut : Placed(a, ty, p, cut[i])
        PROVE  /\ left = [log |-> left.log, durable |-> left.durable]
               /\ IsLog(left.log) /\ left.durable \in 0 .. Len(left.log)
               /\ \A i \in DOMAIN left.log : Placed(a, ty, p, left.log[i])
    <2>1. left.log = cut /\ left.durable = n /\ n \in 0 .. n
      BY <1>2, <1>3
    <2>2. QED
      BY <1>3, <2>1
  <1>4. CASE left = [log |-> SubSeq(log, 1, n), durable |-> n]
    <2> DEFINE cut == SubSeq(log, 1, n)
    <2>1. /\ IsLog(cut) /\ Len(cut) = n /\ DOMAIN cut \subseteq DOMAIN log
          /\ \A i \in DOMAIN cut : cut[i] = log[i]
      BY <1>2, Beginning
    <2>2. \A i \in DOMAIN cut : Placed(a, ty, p, cut[i])
      BY <2>1
    <2> HIDE DEF cut
    <2>3. QED
      BY <1>3, <1>4, <2>1, <2>2 DEF cut
  <1>5. ASSUME NEW file, left = [log |-> LastTorn(log, n, file), durable |-> n]
        PROVE  /\ left = [log |-> left.log, durable |-> left.durable]
               /\ IsLog(left.log) /\ left.durable \in 0 .. Len(left.log)
               /\ \A i \in DOMAIN left.log : Placed(a, ty, p, left.log[i])
    <2> DEFINE cut == LastTorn(log, n, file)
               entry(i) == [log[i] EXCEPT !.lost = @ \/ (file < i /\ log[i].key = log[n].key)]
    <2>1. cut = [i \in 1 .. n |-> entry(i)]
      BY DEF LastTorn
    <2>2. ASSUME NEW i \in 1 .. n PROVE Placed(a, ty, p, entry(i))
      <3> DEFINE e == log[i]
      <3>1. Placed(a, ty, p, e)
        BY <1>2
      <3> HIDE DEF e
      <3>2. \A b : LET x == [e EXCEPT !.lost = b]
                   IN  /\ x.key = e.key /\ x.text = e.text /\ x.writer = e.writer /\ x.what = e.what
                       /\ x = [key |-> x.key, text |-> x.text, writer |-> x.writer,
                               what |-> x.what, lost |-> x.lost]
        <4>1. e = [key |-> e.key, text |-> e.text, writer |-> e.writer, what |-> e.what, lost |-> e.lost]
          BY <3>1 DEF Placed, Sound
        <4>2. QED
          BY <4>1
      <3>3. \A b : Placed(a, ty, p, [e EXCEPT !.lost = b])
        BY <3>1, <3>2 DEF Placed, Sound, WrittenBy
      <3>4. QED
        BY <3>3 DEF e
    <2> HIDE DEF entry
    <2>3. Len(cut) = n /\ DOMAIN cut = 1 .. n /\ cut \in Seq({cut[i] : i \in 1 .. n})
      BY <1>2, <2>1
    <2>4. \A i \in 1 .. n : cut[i] = entry(i)
      BY <2>1
    <2> HIDE DEF cut
    <2>5. IsLog(cut)
      <3>1. {cut[i] : i \in 1 .. n} = Range(cut)
        BY <2>3 DEF Range
      <3>2. QED
        BY <2>3, <3>1 DEF IsLog
    <2>6. \A i \in DOMAIN cut : Placed(a, ty, p, cut[i])
      BY <2>2, <2>3, <2>4
    <2>7. QED
      BY <1>3, <1>5, <2>3, <2>5, <2>6 DEF cut
  <1>6. QED
    BY <1>1, <1>4, <1>5

\* A crash leaves the entries in their places.
LEMMA CrashKeepsInv ==
  ASSUME StoresInv, Crash
  PROVE  StoresInv'
  <1>1. agg' = agg /\ types' = types /\ DOMAIN stores = Paths(agg)
    BY DEF Crash, StoresInv, StoresShape
  <1>2. DOMAIN stores' = Paths(agg) /\ \A p \in Paths(agg) : stores'[p] \in Crashed(stores[p])
    BY <1>1 DEF Crash
  <1>3. ASSUME NEW p \in Paths(agg)
        PROVE  /\ stores'[p] = [log |-> stores'[p].log, durable |-> stores'[p].durable]
               /\ IsLog(stores'[p].log)
               /\ stores'[p].durable \in 0 .. Len(stores'[p].log)
               /\ \A i \in DOMAIN stores'[p].log : Placed(agg, types, p, stores'[p].log[i])
    <2> DEFINE store == stores[p]
               left == stores'[p]
    <2>1. /\ IsLog(store.log) /\ store.durable \in 0 .. Len(store.log)
          /\ \A i \in DOMAIN store.log : Placed(agg, types, p, store.log[i])
      BY DEF StoresInv, StoresShape, EntriesInPlace
    <2>2. left \in Crashed(store)
      BY <1>2
    <2> HIDE DEF store, left
    <2>3. /\ left = [log |-> left.log, durable |-> left.durable]
          /\ IsLog(left.log) /\ left.durable \in 0 .. Len(left.log)
          /\ \A i \in DOMAIN left.log : Placed(agg, types, p, left.log[i])
      BY <2>1, <2>2, CrashedType
    <2>4. QED
      BY <2>3 DEF left
  <1>4. QED
    BY <1>1, <1>2, <1>3 DEF StoresInv, StoresShape, EntriesInPlace, IsLog

\* Opening leaves the stores or empties them.
LEMMA OpenKeepsInv ==
  ASSUME NEW m, NEW fresh, StoresInv, Open(m, fresh)
  PROVE  StoresInv'
  <1>1. agg' = agg /\ types' = types /\ DOMAIN stores = Paths(agg)
    BY DEF Open, StoresInv, StoresShape
  <1>2. CASE m = "Write"
    <2>1. stores' = [p \in Paths(agg) |-> [log |-> <<>>, durable |-> 0]]
      BY <1>1, <1>2 DEF Open
    <2>2. QED
      BY <1>1, <2>1, EmptyStores DEF StoresInv, StoresShape, EntriesInPlace, IsLog
  <1>3. CASE m # "Write"
    <2>1. stores' = stores
      BY <1>3 DEF Open
    <2>2. QED
      BY <1>1, <2>1 DEF StoresInv, StoresShape, EntriesInPlace, IsLog
  <1>4. QED
    BY <1>2, <1>3

\* Closing makes a store durable.
LEMMA CloseKeepsInv ==
  ASSUME NEW r \in Ranks, StoresInv, CloseGroup(r)
  PROVE  StoresInv'
  <1> DEFINE p == DbPath(agg, r)
             log == stores[p].log
             d == stores[p].durable
  <1>1. agg' = agg /\ types' = types /\ DOMAIN stores = Paths(agg) /\ p \in Paths(agg)
    BY DEF CloseGroup, StoresInv, StoresShape, Paths
  <1>2. stores[p] = [log |-> log, durable |-> d] /\ IsLog(log)
    BY <1>1 DEF StoresInv, StoresShape
  <1>3. stores' = [stores EXCEPT ![p] = [stores[p] EXCEPT !.durable = Len(log)]]
    BY DEF CloseGroup, Store
  <1> HIDE DEF p, log, d
  <1>4. [stores[p] EXCEPT !.durable = Len(log)] = [log |-> log, durable |-> Len(log)]
    BY <1>2
  <1>5. /\ DOMAIN stores' = Paths(agg)
        /\ stores'[p] = [log |-> log, durable |-> Len(log)]
        /\ \A q \in Paths(agg) \ {p} : stores'[q] = stores[q]
    BY <1>1, <1>3, <1>4
  <1>6. Len(log) \in 0 .. Len(log)
    BY <1>2 DEF IsLog
  <1>7. \A q \in Paths(agg) : stores'[q].log = stores[q].log
    BY <1>5 DEF log
  <1>8. ASSUME NEW q \in Paths(agg)
        PROVE  /\ stores'[q] = [log |-> stores'[q].log, durable |-> stores'[q].durable]
               /\ IsLog(stores'[q].log)
               /\ stores'[q].durable \in 0 .. Len(stores'[q].log)
    <2>1. CASE q = p
      BY <1>2, <1>5, <1>6, <2>1
    <2>2. CASE q # p
      <3>1. stores'[q] = stores[q]
        BY <1>5, <2>2
      <3>2. QED
        BY <3>1 DEF StoresInv, StoresShape
    <2>3. QED
      BY <2>1, <2>2
  <1>9. QED
    BY <1>1, <1>5, <1>7, <1>8 DEF StoresInv, StoresShape, EntriesInPlace, IsLog

-----------------------------------------------------------------------------
(***************************************************************************)
(* Lookups.                                                                *)
(***************************************************************************)
\* An entry that can be found under a key.
Answers(e, key) == e.key = key /\ ~e.lost

\* The place of the newest one.
LastOf(log, n, key) ==
  /\ n \in DOMAIN log /\ Answers(log[n], key)
  /\ \A j \in DOMAIN log : j > n => ~Answers(log[j], key)

\* A key has one newest entry.
LEMMA LastIsOne ==
  ASSUME NEW log, IsLog(log), NEW key, NEW m, NEW n, LastOf(log, m, key), LastOf(log, n, key)
  PROVE  m = n
  <1>1. DOMAIN log \subseteq Int
    BY DEF IsLog
  <1>2. QED
    BY <1>1 DEF LastOf

\* A key that some entry has is the key of a newest one.
LEMMA LastExists ==
  ASSUME NEW log, IsLog(log), NEW key, NEW i \in DOMAIN log, Answers(log[i], key)
  PROVE  \E n : LastOf(log, n, key)
  <1> DEFINE N == Len(log)
             S == {x \in 0 .. N : \E n \in DOMAIN log : Answers(log[n], key) /\ x = N - n}
  <1>1. N \in Nat /\ DOMAIN log = 1 .. N
    BY DEF IsLog
  <1> HIDE DEF N
  <1>2. S \subseteq Nat /\ N - i \in S
    BY <1>1
  <1>3. PICK x \in S : \A y \in S : x <= y
    <2> HIDE DEF S
    <2>1. QED
      BY <1>2, LeastExists
  <1>4. PICK n \in DOMAIN log : Answers(log[n], key) /\ x = N - n
    BY <1>3
  <1>5. ASSUME NEW j \in DOMAIN log, j > n, Answers(log[j], key) PROVE FALSE
    <2>1. N - j \in S
      BY <1>1, <1>5
    <2>2. x <= N - j
      BY <1>3, <2>1
    <2>3. QED
      BY <1>1, <1>4, <1>5, <2>2
  <1>6. QED
    BY <1>4, <1>5 DEF LastOf

\* A lookup finds the text of the newest entry, or nothing.
LEMMA LookupFinds ==
  ASSUME NEW r, NEW key, NEW n, IsLog(Store(r).log), LastOf(Store(r).log, n, key)
  PROVE  Lookup(r, key) = Store(r).log[n].text
  <1> DEFINE log == Store(r).log
             found == Newest(log, LAMBDA e : e.key = key /\ ~e.lost)
  <1>1. found = {log[i] : i \in {m \in DOMAIN log : LastOf(log, m, key)}}
    BY DEF Newest, LastOf, Answers
  <1>2. Lookup(r, key) = IF found = {} THEN <<>> ELSE (CHOOSE e \in found : TRUE).text
    BY DEF Lookup
  <1> HIDE DEF found, log
  <1>3. IsLog(log) /\ LastOf(log, n, key) /\ n \in DOMAIN log
    BY DEF log, LastOf
  <1>4. \A m : LastOf(log, m, key) => m = n
    BY <1>3, LastIsOne
  <1>5. found = {log[n]}
    BY <1>1, <1>3, <1>4
  <1>6. QED
    BY <1>2, <1>5 DEF log

\* Without an entry for the key, a lookup finds nothing.
LEMMA LookupFindsNothing ==
  ASSUME NEW r, NEW key, \A i \in DOMAIN Store(r).log : ~Answers(Store(r).log[i], key)
  PROVE  Lookup(r, key) = <<>>
  <1> DEFINE log == Store(r).log
             found == Newest(log, LAMBDA e : e.key = key /\ ~e.lost)
  <1>1. found = {}
    BY DEF Newest, Answers
  <1>2. QED
    BY <1>1 DEF Lookup

\* The entries of a rank's store.
LEMMA OfStore ==
  ASSUME StoresInv, NEW r \in Ranks
  PROVE  /\ IsLog(Store(r).log)
         /\ \A i \in DOMAIN Store(r).log : Placed(agg, types, DbPath(agg, r), Store(r).log[i])
  <1>1. DbPath(agg, r) \in Paths(agg)
    BY DEF Paths
  <1>2. QED
    BY <1>1 DEF StoresInv, StoresShape, EntriesInPlace, Store

\* An entry is a rank's own exactly if it has the rank's key.
LEMMA OwnKey ==
  ASSUME NEW r \in Ranks, NEW meta, NEW v, NEW e, Placed(agg, types, DbPath(agg, r), e)
  PROVE  (e.writer = r /\ e.key.meta = meta /\ e.key.name = v) <=> e.key = Key(r, meta, v)
  <1>1. /\ e.writer \in Ranks /\ DbPath(agg, e.writer) = DbPath(agg, r)
        /\ e.key.rank = RankOfKey(agg, e.writer)
        /\ e.key = [meta |-> e.key.meta, rank |-> e.key.rank, name |-> e.key.name]
    BY DEF Placed, WrittenBy, Sound
  <1>2. CASE e.key = Key(r, meta, v)
    <2>1. e.key.rank = RankOfKey(agg, r) /\ e.key.meta = meta /\ e.key.name = v
      BY <1>2 DEF Key
    <2>2. e.writer = r
      BY <1>1, <2>1, KeyNamesRank
    <2>3. QED
      BY <1>2, <2>1, <2>2
  <1>3. CASE e.writer = r /\ e.key.meta = meta /\ e.key.name = v
    BY <1>1, <1>3 DEF Key
  <1>4. QED
    BY <1>2, <1>3

\* What is a rank's own newest entry is the newest one with its key.
LEMMA OwnIsLast ==
  ASSUME StoresInv, NEW r \in Ranks, NEW meta, NEW v
  PROVE  /\ \A e \in Own(r, meta, v) :
              \E n : LastOf(Store(r).log, n, Key(r, meta, v)) /\ e = Store(r).log[n]
         /\ Own(r, meta, v) = {} => \A i \in DOMAIN Store(r).log : ~Answers(Store(r).log[i], Key(r, meta, v))
  <1> DEFINE log == Store(r).log
             key == Key(r, meta, v)
             mine(e) == e.writer = r /\ e.key.meta = meta /\ e.key.name = v /\ ~e.lost
  <1>1. IsLog(log) /\ \A i \in DOMAIN log : mine(log[i]) <=> Answers(log[i], key)
    BY OfStore, OwnKey DEF Answers
  <1>2. Own(r, meta, v) = {log[i] : i \in {n \in DOMAIN log :
                             mine(log[n]) /\ \A j \in DOMAIN log : j > n => ~mine(log[j])}}
    BY DEF Own, Newest
  <1> HIDE DEF log, key, mine
  <1>3. Own(r, meta, v) = {log[i] : i \in {n \in DOMAIN log : LastOf(log, n, key)}}
    BY <1>1, <1>2 DEF LastOf
  <1>4. \A e \in Own(r, meta, v) : \E n : LastOf(log, n, key) /\ e = log[n]
    BY <1>3
  <1>5. ASSUME NEW i \in DOMAIN log, Answers(log[i], key) PROVE Own(r, meta, v) # {}
    <2>1. PICK n : LastOf(log, n, key)
      BY <1>1, <1>5, LastExists
    <2>2. n \in DOMAIN log
      BY <2>1 DEF LastOf
    <2>3. QED
      BY <1>3, <2>1, <2>2
  <1>6. QED
    BY <1>4, <1>5 DEF log, key

\* A lookup of a rank's own key finds what the rank has written last under it.
LEMMA LooksUpOwn ==
  ASSUME StoresInv, NEW r \in Ranks, NEW meta, NEW v
  PROVE  /\ Own(r, meta, v) = {} => Lookup(r, Key(r, meta, v)) = <<>>
         /\ \A e \in Own(r, meta, v) :
              /\ Lookup(r, Key(r, meta, v)) = e.text
              /\ e.key = Key(r, meta, v) /\ Sound(types, e)
  <1> DEFINE log == Store(r).log
             key == Key(r, meta, v)
  <1>1. CASE Own(r, meta, v) = {}
    BY <1>1, OwnIsLast, LookupFindsNothing
  <1>2. ASSUME NEW e \in Own(r, meta, v)
        PROVE  Lookup(r, key) = e.text /\ e.key = key /\ Sound(types, e)
    <2>1. PICK n : LastOf(log, n, key) /\ e = log[n]
      BY OwnIsLast
    <2>2. IsLog(log) /\ \A i \in DOMAIN log : Placed(agg, types, DbPath(agg, r), log[i])
      BY OfStore
    <2>3. n \in DOMAIN log /\ log[n].key = key
      BY <2>1 DEF LastOf, Answers
    <2>4. Lookup(r, key) = log[n].text
      BY <2>1, <2>2, LookupFinds
    <2>5. Sound(types, log[n])
      BY <2>2, <2>3 DEF Placed
    <2>6. QED
      BY <2>1, <2>3, <2>4, <2>5
  <1>3. QED
    BY <1>1, <1>2

-----------------------------------------------------------------------------
(***************************************************************************)
(* What a get makes of the text.                                           *)
(***************************************************************************)
\* A sequence of anything is one of its own elements.
LEMMA SeqIsLog ==
  ASSUME NEW D, NEW x \in Seq(D)
  PROVE  IsLog(x) /\ Len(x) \in Nat /\ (Len(x) = 0 <=> x = <<>>)
  <1>1. Len(x) \in Nat /\ DOMAIN x = 1 .. Len(x) /\ (Len(x) = 0 <=> x = <<>>)
    OBVIOUS
  <1>2. \A i \in 1 .. Len(x) : x[i] \in Range(x)
    BY <1>1 DEF Range
  <1>3. x \in Seq(Range(x))
    BY <1>1, <1>2
  <1>4. QED
    BY <1>1, <1>3 DEF IsLog

\* A beginning of a sequence is a prefix of it, and so is all of it.
LEMMA PrefixOfItself ==
  ASSUME NEW d, IsLog(d), NEW n \in 0 .. Len(d)
  PROVE  IsPrefix(SubSeq(d, 1, n), d) /\ IsPrefix(d, d)
  <1> DEFINE p == SubSeq(d, 1, n)
             S == Range(d)
  <1>1. d \in Seq(S) /\ Len(d) \in Nat /\ n \in Nat /\ n <= Len(d)
    BY DEF IsLog
  <1> HIDE DEF S
  <1>2. p \in Seq(S) /\ Len(p) = n /\ \A i \in 1 .. n : p[i] = d[i]
    BY <1>1
  <1>3. SubSeq(p, 1, n) = p
    <2> HIDE DEF p
    <2>1. QED
      BY <1>1, <1>2
  <1>4. IsPrefix(p, d)
    BY <1>1, <1>2, <1>3 DEF IsPrefix
  <1>5. IsPrefix(d, d)
    BY <1>1 DEF IsPrefix
  <1>6. QED
    BY <1>4, <1>5

\* Nothing comes of an empty text.
LEMMA NothingBack == Parsed(Fields(<<>>, ",")) = <<>>
  <1>1. Fields(<<>>, ",") = <<>>
    BY DEF Fields
  <1> DEFINE f == [i \in 1 .. 0 |-> StoI(<<>>[i][1])]
  <1>2. Parsed(<<>>) = f
    BY DEF Parsed
  <1>3. f \in [1 .. 0 -> {}]
    <2>1. \A i \in 1 .. 0 : FALSE
      OBVIOUS
    <2>2. QED
      BY <2>1
  <1> HIDE DEF f
  <1>4. f \in Seq({}) /\ Len(f) = 0
    BY <1>3
  <1>5. f = <<>>
    BY <1>4
  <1>6. QED
    BY <1>1, <1>2, <1>5

\* Of values that were put as numbers, the text is as many numbers.
LEMMA ValuesBack ==
  ASSUME NEW type \in {"double", "short"}, NEW d, NumbersOf(d)
  PROVE  /\ ValueText(type, d) = <<>> <=> d = <<>>
         /\ Parsed(Fields(ValueText(type, d), ",")) = Readable(type, d)
         /\ IsLog(Readable(type, d)) /\ Len(Readable(type, d)) = Len(d)
         /\ Len(d) \in Nat /\ (Len(d) = 0 <=> d = <<>>)
  <1> DEFINE D == 0 .. MaxNumber
             rounded == [i \in DOMAIN d |-> Rounded(d[i])]
  <1>1. d \in Seq(D) /\ \A i \in DOMAIN d : Rounded(d[i]) \in D
    BY DEF NumbersOf
  <1>2. rounded \in Seq(D) /\ Len(rounded) = Len(d)
    <2> DEFINE f == [i \in DOMAIN d |-> Rounded(d[i])]
               n == Len(d)
    <2> HIDE DEF D
    <2>1. n \in Nat /\ DOMAIN d = 1 .. n
      BY <1>1
    <2>2. f \in [1 .. n -> D]
      BY <1>1, <2>1
    <2> HIDE DEF f
    <2>3. f \in Seq(D) /\ Len(f) = n
      BY <2>1, <2>2
    <2>4. QED
      BY <2>3 DEF f
  <1>3. ASSUME NEW x \in Seq(D)
        PROVE  IsLog(x) /\ Len(x) \in Nat /\ (Len(x) = 0 <=> x = <<>>)
    BY SeqIsLog
  <1> HIDE DEF rounded
  <1>4. CASE type = "double"
    <2>1. ValueText(type, d) = Joined(Numbers(rounded), ",") /\ Readable(type, d) = rounded
      BY <1>4 DEF ValueText, Readable, rounded
    <2>2. /\ Joined(Numbers(rounded), ",") = <<>> <=> rounded = <<>>
          /\ Parsed(Fields(Joined(Numbers(rounded), ","), ",")) = rounded
      BY <1>2, NumbersBack
    <2>3. /\ IsLog(rounded) /\ (Len(rounded) = 0 <=> rounded = <<>>)
          /\ Len(d) \in Nat /\ (Len(d) = 0 <=> d = <<>>)
      BY <1>1, <1>2, <1>3
    <2>4. rounded = <<>> <=> d = <<>>
      BY <1>2, <2>3
    <2>5. QED
      BY <1>2, <2>1, <2>2, <2>3, <2>4
  <1>5. CASE type = "short"
    <2>1. ValueText(type, d) = Joined(Numbers(d), ",") /\ Readable(type, d) = d
      BY <1>5 DEF ValueText, Readable
    <2>2. /\ Joined(Numbers(d), ",") = <<>> <=> d = <<>>
          /\ Parsed(Fields(Joined(Numbers(d), ","), ",")) = d
      BY <1>1, NumbersBack
    <2>3. IsLog(d) /\ Len(d) \in Nat /\ (Len(d) = 0 <=> d = <<>>)
      BY <1>1, <1>3
    <2>4. QED
      BY <2>1, <2>2, <2>3
  <1>6. QED
    BY <1>4, <1>5

\* What ReadsLastPut says of a result.
ReadsOwn(ty, own, selected, read) ==
  LET nothing == \A e \in own : e.what = <<>>
  IN  CASE read.kind = "throws" -> nothing
        [] read.kind = "undefined" -> \A e \in own : Len(e.what) < selected
        [] OTHER -> IF nothing THEN read.values = <<>>
                    ELSE \A e \in own : IsPrefix(read.values, Readable(ty, e.what))

\* The result of a text that is that of the own entry, or of none.
LEMMA ReadsText ==
  ASSUME NEW type \in VariableTypes, NEW s \in Selections, NEW text, NEW own,
         own = {} => text = <<>>,
         \A e \in own : Puttable(type, e.what) /\ text = ValueText(type, e.what)
  PROVE  ReadsOwn(type, own, SelectionSize(s), ReadVariable(type, s, text))
  <1> DEFINE n == SelectionSize(s)
             all == Parsed(Fields(text, ","))
             read == ReadVariable(type, s, text)
  <1>1. n \in Nat
    <2>1. s.count \in Seq(0 .. MaxNumber)
      BY SelectionAssumption
    <2>2. QED
      BY <2>1, SelectionSizeType
  <1> HIDE DEF n, all
  <1>2. CASE type = "string"
    <2>1. read.kind = "values" /\ read.values = text
      BY <1>2 DEF ReadVariable
    <2> HIDE DEF read
    <2>2. ASSUME NEW e \in own PROVE text = e.what /\ IsPrefix(text, Readable(type, e.what))
      <3>1. IsLog(e.what) /\ text = ValueText(type, e.what)
        BY <1>2 DEF Puttable
      <3>2. text = e.what /\ Readable(type, e.what) = e.what
        BY <1>2, <3>1 DEF ValueText, Readable
      <3>3. Len(e.what) \in 0 .. Len(e.what)
        BY <3>1 DEF IsLog
      <3>4. IsPrefix(e.what, e.what)
        BY <3>1, <3>3, PrefixOfItself
      <3>5. QED
        BY <3>2, <3>4
    <2>3. (\A e \in own : e.what = <<>>) => text = <<>>
      BY <2>2
    <2>4. QED
      BY <2>1, <2>2, <2>3 DEF ReadsOwn, read
  <1>3. CASE type = "double"
    <2>1. CASE text = <<>>
      <3>1. read.kind = "throws"
        BY <1>3, <2>1 DEF ReadVariable
      <3>2. ASSUME NEW e \in own PROVE e.what = <<>>
        <4>1. NumbersOf(e.what) /\ text = ValueText(type, e.what)
          BY <1>3 DEF Puttable
        <4>2. QED
          BY <1>3, <2>1, <4>1, ValuesBack
      <3> HIDE DEF read
      <3>3. QED
        BY <3>1, <3>2 DEF ReadsOwn, read
    <2>2. CASE text # <<>>
      <3>1. read.kind = "values" /\ read.values = all
        BY <1>3, <2>2 DEF ReadVariable, all
      <3>2. PICK x \in own : TRUE
        BY <2>2
      <3>3. ASSUME NEW e \in own PROVE e.what # <<>> /\ IsPrefix(all, Readable(type, e.what))
        <4> DEFINE d == e.what
                   q == Readable(type, d)
        <4>1. NumbersOf(d) /\ text = ValueText(type, d)
          BY <1>3 DEF Puttable
        <4> HIDE DEF d, q
        <4>2. /\ ValueText(type, d) = <<>> <=> d = <<>>
              /\ Parsed(Fields(ValueText(type, d), ",")) = q
              /\ IsLog(q) /\ Len(q) = Len(d) /\ Len(d) \in Nat
          BY <1>3, <4>1, ValuesBack DEF q
        <4>3. all = q /\ d # <<>>
          BY <2>2, <4>1, <4>2 DEF all
        <4>4. Len(q) \in 0 .. Len(q)
          <5> DEFINE m == Len(q)
          <5>1. m \in Nat
            BY <4>2
          <5> HIDE DEF m
          <5>2. m \in 0 .. m
            BY <5>1
          <5>3. QED
            BY <5>2 DEF m
        <4>5. IsPrefix(q, q)
          BY <4>2, <4>4, PrefixOfItself
        <4>6. QED
          BY <4>3, <4>5 DEF d, q
      <3>4. ~\A e \in own : e.what = <<>>
        BY <3>2, <3>3
      <3> HIDE DEF read
      <3>5. QED
        BY <3>1, <3>3, <3>4 DEF ReadsOwn, read
    <2>3. QED
      BY <2>1, <2>2
  <1>4. CASE type = "short"
    <2>1. /\ n > Len(all) => read.kind = "undefined"
          /\ ~(n > Len(all)) => read.kind = "values" /\ read.values = SubSeq(all, 1, n)
      BY <1>4 DEF ReadVariable, all, n
    <2>2. ASSUME NEW e \in own
          PROVE  /\ all = e.what /\ Readable(type, e.what) = e.what
                 /\ IsLog(all) /\ Len(all) \in Nat /\ (Len(all) = 0 <=> all = <<>>)
      <3> DEFINE d == e.what
      <3>1. NumbersOf(d) /\ text = ValueText(type, d) /\ Readable(type, d) = d
        BY <1>4 DEF Puttable, Readable
      <3> HIDE DEF d
      <3>2. /\ Parsed(Fields(ValueText(type, d), ",")) = d
            /\ IsLog(d) /\ Len(d) \in Nat /\ (Len(d) = 0 <=> d = <<>>)
        BY <1>4, <3>1, ValuesBack
      <3>3. all = d
        BY <3>1, <3>2 DEF all
      <3>4. QED
        BY <3>1, <3>2, <3>3 DEF d
    <2>3. own = {} => all = <<>>
      BY NothingBack DEF all
    <2> HIDE DEF read
    <2>4. CASE n > Len(all)
      <3>1. \A e \in own : Len(e.what) < n
        BY <1>1, <2>2, <2>4
      <3>2. read.kind = "undefined"
        BY <2>1, <2>4
      <3>3. QED
        BY <3>1, <3>2 DEF ReadsOwn, read, n
    <2>5. CASE ~(n > Len(all))
      <3> DEFINE values == SubSeq(all, 1, n)
      <3>1. read.kind = "values" /\ read.values = values
        BY <2>1, <2>5
      <3>2. (\A e \in own : e.what = <<>>) => values = <<>>
        <4>1. (\A e \in own : e.what = <<>>) => all = <<>>
          BY <2>2, <2>3
        <4>2. all = <<>> => n = 0
          BY <1>1, <2>5
        <4>3. SubSeq(<<>>, 1, 0) = <<>>
          OBVIOUS
        <4>4. QED
          BY <4>1, <4>2, <4>3
      <3>3. ASSUME NEW e \in own PROVE IsPrefix(values, Readable(type, e.what))
        <4>1. IsLog(all) /\ Len(all) \in Nat /\ Readable(type, e.what) = all
          BY <2>2
        <4>2. n \in 0 .. Len(all)
          BY <1>1, <2>5, <4>1
        <4>3. IsPrefix(SubSeq(all, 1, n), all)
          BY <4>1, <4>2, PrefixOfItself
        <4>4. QED
          BY <4>1, <4>3
      <3> HIDE DEF values
      <3>4. QED
        BY <3>1, <3>2, <3>3 DEF ReadsOwn, read, n
    <2>6. QED
      BY <2>4, <2>5
  <1>5. QED
    BY <1>2, <1>3, <1>4 DEF VariableTypes

-----------------------------------------------------------------------------
(***************************************************************************)
(* The descriptions a rank finds when it opens the engine.                 *)
(***************************************************************************)
\* The keys MetaGetAll finds, in a log.
MetaKeys(r) ==
  {e.key : e \in {x \in Range(Store(r).log) :
                    /\ x.key.meta /\ ~x.lost
                    /\ \/ AggRank(agg, r) = 0
                       \/ x.key.rank = RankOfKey(agg, r)}}

\* They are finitely many.
LEMMA MetaKeysFinite ==
  ASSUME StoresInv, NEW r \in Ranks
  PROVE  Cardinality(MetaKeys(r)) \in Nat
  <1> DEFINE log == Store(r).log
             I == {i \in DOMAIN log : /\ log[i].key.meta /\ ~log[i].lost
                                      /\ \/ AggRank(agg, r) = 0
                                         \/ log[i].key.rank = RankOfKey(agg, r)}
             f == [i \in I |-> log[i].key]
  <1>1. Len(log) \in Nat /\ DOMAIN log = 1 .. Len(log)
    BY OfStore DEF IsLog
  <1>2. IsFiniteSet(I)
    <2>1. I \subseteq 1 .. Len(log)
      BY <1>1
    <2> HIDE DEF I
    <2>2. IsFiniteSet(1 .. Len(log))
      <3> DEFINE n == Len(log)
      <3> HIDE DEF n
      <3>1. n \in Int /\ 1 \in Int
        BY <1>1 DEF n
      <3>2. IsFiniteSet(1 .. n)
        BY <3>1, FS_Interval
      <3>3. QED
        BY <3>2 DEF n
    <2>3. QED
      BY <2>1, <2>2, FS_Subset
  <1>3. MetaKeys(r) = {log[i].key : i \in I}
    BY DEF MetaKeys, Range
  <1> HIDE DEF log, I
  <1>4. f \in Surjection(I, MetaKeys(r))
    BY <1>3 DEF Surjection
  <1> HIDE DEF f
  <1>5. IsFiniteSet(MetaKeys(r))
    BY <1>2, <1>4, FS_Surjection
  <1>6. QED
    BY <1>5, FS_CardinalityType

\* What is found under such a key is the newest description that has it.
LEMMA MetaKeyFinds ==
  ASSUME StoresInv, types \in [Variables -> VariableTypes], NEW r \in Ranks, NEW key \in MetaKeys(r)
  PROVE  /\ key.meta = TRUE /\ key.name \in Variables
         /\ key = [meta |-> key.meta, rank |-> key.rank, name |-> key.name]
         /\ \/ AggRank(agg, r) = 0
            \/ key.rank = RankOfKey(agg, r)
         /\ \E w \in Ranks : DbPath(agg, w) = DbPath(agg, r) /\ key.rank = RankOfKey(agg, w)
         /\ \E n : /\ LastOf(Store(r).log, n, key)
                   /\ Store(r).log[n].what \in Selections
                   /\ ParsedInfo(Lookup(r, key)) =
                        [name |-> key.name, selection |-> Store(r).log[n].what]
  <1> DEFINE log == Store(r).log
  <1>1. IsLog(log) /\ \A i \in DOMAIN log : Placed(agg, types, DbPath(agg, r), log[i])
    BY OfStore
  <1>2. PICK x \in Range(log) : /\ x.key.meta /\ x.key = key /\ ~x.lost
                                /\ \/ AggRank(agg, r) = 0
                                   \/ x.key.rank = RankOfKey(agg, r)
    BY DEF MetaKeys
  <1>3. PICK i \in DOMAIN log : log[i] = x
    BY <1>2 DEF Range
  <1>4. PICK n : LastOf(log, n, key)
    <2>1. Answers(log[i], key)
      BY <1>2, <1>3 DEF Answers
    <2> HIDE DEF log
    <2>2. QED
      BY <1>1, <1>3, <2>1, LastExists
  <1> DEFINE e == log[n]
  <1>5. n \in DOMAIN log /\ e.key = key
    BY <1>4 DEF LastOf, Answers
  <1>6. WrittenBy(agg, DbPath(agg, r), e) /\ Sound(types, e)
    BY <1>1, <1>5 DEF Placed
  <1>7. Lookup(r, key) = e.text
    BY <1>1, <1>4, LookupFinds
  <1> HIDE DEF e, log
  <1>8. key.meta = TRUE /\ key.name \in Variables
        /\ key = [meta |-> key.meta, rank |-> key.rank, name |-> key.name]
    BY <1>2, <1>5, <1>6 DEF Sound
  <1>9. e.what \in Selections /\ e.text = WriteVariableInfo(key.name, types[key.name], e.what)
    BY <1>5, <1>6, <1>8 DEF Sound
  <1>10. ParsedInfo(e.text) = [name |-> key.name, selection |-> e.what]
    <2>1. types[key.name] \in VariableTypes
      BY <1>8
    <2>2. QED
      BY <1>8, <1>9, <2>1, InfoBack
  <1>11. e.writer \in Ranks /\ DbPath(agg, e.writer) = DbPath(agg, r)
         /\ key.rank = RankOfKey(agg, e.writer)
    BY <1>5, <1>6 DEF WrittenBy
  <1>12. \/ AggRank(agg, r) = 0
         \/ key.rank = RankOfKey(agg, r)
    BY <1>2
  <1>13. QED
    BY <1>4, <1>7, <1>8, <1>9, <1>10, <1>11, <1>12 DEF e, log

\* An order in which the keys are found.
Order(r, ordered) ==
  LET keys == MetaKeys(r)
      places == 1 .. Cardinality(keys)
  IN  /\ ordered \in [places -> keys] /\ Range(ordered) = keys
      /\ \A i, j \in places : i < j => ordered[i].rank <= ordered[j].rank

\* What MetaGetAll returns are the descriptions in such an order.
LEMMA MetaGetAllOrder ==
  ASSUME NEW r, NEW infos \in MetaGetAll(r)
  PROVE  \E ordered : /\ Order(r, ordered)
                      /\ infos = [i \in 1 .. Cardinality(MetaKeys(r)) |-> ParsedInfo(Lookup(r, ordered[i]))]
  BY DEF MetaGetAll, MetaKeys, Order

\* Everything found is a description.
LEMMA FoundInfos ==
  ASSUME StoresInv, types \in [Variables -> VariableTypes], NEW r \in Ranks,
         NEW infos \in MetaGetAll(r)
  PROVE  infos \in Seq(Infos)
  <1> DEFINE keys == MetaKeys(r)
             c == Cardinality(keys)
  <1>1. PICK ordered : /\ Order(r, ordered)
                       /\ infos = [i \in 1 .. c |-> ParsedInfo(Lookup(r, ordered[i]))]
    BY MetaGetAllOrder
  <1>2. c \in Nat
    BY MetaKeysFinite
  <1>3. \A i \in 1 .. c : ordered[i] \in keys
    BY <1>1 DEF Order
  <1>4. \A key \in keys : ParsedInfo(Lookup(r, key)) \in Infos
    <2> SUFFICES ASSUME NEW key \in keys PROVE ParsedInfo(Lookup(r, key)) \in Infos
      OBVIOUS
    <2>1. key.name \in Variables
      BY MetaKeyFinds
    <2>2. PICK n : /\ Store(r).log[n].what \in Selections
                   /\ ParsedInfo(Lookup(r, key)) =
                        [name |-> key.name, selection |-> Store(r).log[n].what]
      BY MetaKeyFinds
    <2>3. QED
      BY <2>1, <2>2 DEF Infos
  <1> HIDE DEF c, keys
  <1>5. infos \in [1 .. c -> Infos]
    BY <1>1, <1>3, <1>4
  <1>6. QED
    BY <1>2, <1>5

\* Of the descriptions found, the first one of a variable a rank has described is
\* its own.
LEMMA FindsOwn ==
  ASSUME StoresInv, types \in [Variables -> VariableTypes], NEW r \in Ranks,
         NEW infos \in MetaGetAll(r), NEW v \in Variables, NEW e \in Own(r, TRUE, v)
  PROVE  \E k \in 1 .. Len(infos) :
           /\ infos[k].name = v /\ infos[k].selection = e.what
           /\ \A i \in 1 .. k - 1 : infos[i].name = v => infos[i].selection = infos[k].selection
  <1> DEFINE log == Store(r).log
             own == Key(r, TRUE, v)
             keys == MetaKeys(r)
             c == Cardinality(keys)
  <1>1. PICK ordered : /\ Order(r, ordered)
                       /\ infos = [i \in 1 .. c |-> ParsedInfo(Lookup(r, ordered[i]))]
    BY MetaGetAllOrder
  <1>2. c \in Nat
    BY MetaKeysFinite
  <1>3. /\ ordered \in [1 .. c -> keys] /\ Range(ordered) = keys
        /\ \A i, j \in 1 .. c : i < j => ordered[i].rank <= ordered[j].rank
    BY <1>1 DEF Order
  <1>4. PICK n : LastOf(log, n, own) /\ e = log[n]
    <2>1. \A meta : \A x \in Own(r, meta, v) :
            \E m : LastOf(Store(r).log, m, Key(r, meta, v)) /\ x = Store(r).log[m]
      BY OwnIsLast
    <2>2. QED
      BY <2>1, Zenon
  <1>5. own.meta = TRUE /\ own.rank = RankOfKey(agg, r) /\ own.name = v
        /\ own = [meta |-> TRUE, rank |-> RankOfKey(agg, r), name |-> v]
    BY DEF Key
  <1>6. own \in keys
    <2>1. n \in DOMAIN log /\ log[n].key = own /\ ~log[n].lost
      BY <1>4 DEF LastOf, Answers
    <2> HIDE DEF own
    <2>2. QED
      BY <1>5, <2>1 DEF MetaKeys, Range
  <1>7. ASSUME NEW key \in keys, key = own
        PROVE  ParsedInfo(Lookup(r, key)) = [name |-> v, selection |-> e.what]
    <2>1. PICK m : /\ LastOf(log, m, key)
                   /\ ParsedInfo(Lookup(r, key)) = [name |-> key.name, selection |-> log[m].what]
      BY MetaKeyFinds
    <2>2. IsLog(log)
      BY OfStore
    <2> HIDE DEF log, own
    <2>3. m = n
      BY <1>4, <1>7, <2>1, <2>2, LastIsOne
    <2>4. QED
      BY <1>4, <1>5, <1>7, <2>1, <2>3
  <1>8. PICK k \in 1 .. c : ordered[k] = own
    <2> HIDE DEF own, c, keys
    <2>1. QED
      BY <1>3, <1>6 DEF Range
  <1>9. ASSUME NEW i \in 1 .. k - 1, infos[i].name = v
        PROVE  ordered[i] = own
    <2> DEFINE key == ordered[i]
    <2>1. i \in 1 .. c /\ i < k
      <3> HIDE DEF c
      <3>1. QED
        BY <1>2
    <2>2. key \in keys
      <3> HIDE DEF c, keys
      <3>1. QED
        BY <1>3, <2>1
    <2>3. key.rank <= RankOfKey(agg, r)
      <3> HIDE DEF c, keys, own
      <3>1. QED
        BY <1>3, <1>5, <1>8, <2>1
    <2>4. infos[i] = ParsedInfo(Lookup(r, key))
      <3> HIDE DEF c, keys
      <3>1. QED
        BY <1>1, <2>1
    <2> HIDE DEF key, keys
    <2>5. PICK m : ParsedInfo(Lookup(r, key)) = [name |-> key.name, selection |-> log[m].what]
      BY <2>2, MetaKeyFinds DEF keys
    <2>6. key.name = v
      BY <1>9, <2>4, <2>5
    <2>7. key.meta = TRUE /\ key = [meta |-> key.meta, rank |-> key.rank, name |-> key.name]
      BY <2>2, MetaKeyFinds DEF keys
    <2>8. PICK w \in Ranks : DbPath(agg, w) = DbPath(agg, r) /\ key.rank = RankOfKey(agg, w)
      BY <2>2, MetaKeyFinds DEF keys
    <2>9. \/ AggRank(agg, r) = 0
          \/ key.rank = RankOfKey(agg, r)
      BY <2>2, MetaKeyFinds DEF keys
    <2>10. key.rank = RankOfKey(agg, r)
      <3>1. CASE AggRank(agg, r) = 0
        <4>1. RankOfKey(agg, r) <= RankOfKey(agg, w)
          BY <2>8, <3>1, AggregatorFirst
        <4>2. RankOfKey(agg, r) \in Int /\ RankOfKey(agg, w) \in Int
          BY AggRankType DEF RankOfKey, NoRank
        <4>3. QED
          BY <2>3, <2>8, <4>1, <4>2
      <3>2. QED
        BY <2>9, <3>1
    <2>11. key = own
      BY <1>5, <2>6, <2>7, <2>10
    <2>12. QED
      BY <2>11 DEF key
  <1>10. ASSUME NEW i \in 1 .. c, ordered[i] = own
         PROVE  infos[i].name = v /\ infos[i].selection = e.what
    <2>1. infos[i] = ParsedInfo(Lookup(r, ordered[i]))
      <3> HIDE DEF c
      <3>1. QED
        BY <1>1
    <2>2. ParsedInfo(Lookup(r, ordered[i])) = [name |-> v, selection |-> e.what]
      BY <1>6, <1>7, <1>10
    <2>3. QED
      BY <2>1, <2>2
  <1>11. Len(infos) = c
    <2> DEFINE f == [i \in 1 .. c |-> ParsedInfo(Lookup(r, ordered[i]))]
    <2> HIDE DEF c
    <2>1. Len(f) = c
      BY <1>2
    <2>2. QED
      BY <1>1, <2>1
  <1> HIDE DEF c, own
  <1>12. \A i \in 1 .. k - 1 : i \in 1 .. c
    BY <1>2
  <1>13. QED
    BY <1>8, <1>9, <1>10, <1>11, <1>12

-----------------------------------------------------------------------------
(***************************************************************************)
(* The engine.  What a rank has yet to describe is defined, and it is only *)
(* at the end of a step or at close that there is any; without an engine   *)
(* no rank is in a call.                                                   *)
(***************************************************************************)
Phases == {"closed", "init", "open", "step", "close"}

EngineTypes ==
  /\ types \in [Variables -> VariableTypes] /\ puts \in 0 .. MaxPuts
  /\ io \in [Ranks -> [Variables -> Selected]]
  /\ phase \in [Ranks -> Phases] /\ todo \in [Ranks -> SUBSET Variables]

NoCalls == mode = "closed" => \A r \in Ranks : phase[r] = "closed"

TodoInv ==
  \A r \in Ranks :
    /\ todo[r] # {} => phase[r] \in {"step", "close"}
    /\ \A v \in todo[r] : io[r][v] # NoVariable

EngineInv == EngineTypes /\ NoCalls /\ TodoInv

\* At first there is no engine.
LEMMA InitEngine == Init => EngineInv
  <1> SUFFICES ASSUME Init PROVE EngineInv
    OBVIOUS
  <1>1. types \in [Variables -> VariableTypes] /\ puts \in 0 .. MaxPuts
    BY TypesAssumption, PluginBoundAssumption DEF Init
  <1>2. io \in [Ranks -> [Variables -> Selected]]
    BY DEF Init, Selected
  <1>3. phase \in [Ranks -> Phases] /\ todo \in [Ranks -> SUBSET Variables]
    BY DEF Init, Phases
  <1>4. NoCalls /\ TodoInv
    BY DEF Init, NoCalls, TodoInv
  <1>5. QED
    BY <1>1, <1>2, <1>3, <1>4 DEF EngineInv, EngineTypes

\* Opening, dying and closing leave no rank in a call.
LEMMA OpenKeepsEngine ==
  ASSUME EngineInv, NEW m \in {"Write", "Append", "Read"}, NEW fresh, Open(m, fresh)
  PROVE  EngineInv'
  <1>1. \A r \in Ranks : phase[r] = "closed" /\ todo[r] = {}
    BY DEF EngineInv, EngineTypes, NoCalls, TodoInv, Open
  <1>2. io' \in [Ranks -> [Variables -> Selected]]
    BY DEF Open, EngineInv, EngineTypes, Selected
  <1>3. phase' \in [Ranks -> Phases]
    BY DEF Open, Phases
  <1>4. EngineTypes'
    BY <1>2, <1>3 DEF EngineInv, EngineTypes, Open
  <1>5. NoCalls'
    BY DEF NoCalls, Open
  <1>6. TodoInv'
    BY <1>1 DEF TodoInv, Open
  <1>7. QED
    BY <1>4, <1>5, <1>6 DEF EngineInv

\* A dead job has no engine, and no rank in a call.
LEMMA CrashKeepsEngine ==
  ASSUME EngineInv, Crash
  PROVE  EngineInv'
  <1>1. io' = [r \in Ranks |-> [v \in Variables |-> NoVariable]]
        /\ phase' = [r \in Ranks |-> "closed"] /\ todo' = [r \in Ranks |-> {}]
        /\ UNCHANGED <<types, puts>>
    BY DEF Crash
  <1>2. EngineTypes'
    BY <1>1 DEF EngineInv, EngineTypes, Selected, Phases
  <1>3. NoCalls' /\ TodoInv'
    BY <1>1 DEF NoCalls, TodoInv
  <1>4. QED
    BY <1>2, <1>3 DEF EngineInv

\* The ranks of a group leave their close together, with nothing left to describe.
LEMMA CloseKeepsEngine ==
  ASSUME EngineInv, NEW r \in Ranks, CloseGroup(r)
  PROVE  EngineInv'
  <1>1. phase' = [s \in Ranks |-> IF s \in AggComm(agg, r) THEN "closed" ELSE phase[s]]
        /\ (\A s \in AggComm(agg, r) : phase[s] = "close" /\ todo[s] = {})
        /\ mode' = (IF \A s \in Ranks : phase'[s] = "closed" THEN "closed" ELSE mode)
        /\ UNCHANGED <<types, todo, io, puts>>
    BY DEF CloseGroup
  <1>2. phase' \in [Ranks -> Phases]
    BY <1>1 DEF EngineInv, EngineTypes, Phases
  <1>3. EngineTypes'
    BY <1>1, <1>2 DEF EngineInv, EngineTypes
  <1>4. NoCalls'
    BY <1>1 DEF EngineInv, NoCalls
  <1>5. TodoInv'
    BY <1>1 DEF EngineInv, TodoInv
  <1>6. QED
    BY <1>3, <1>4, <1>5 DEF EngineInv

\* The calls of a rank: they happen while there is an engine.
LEMMA CallKeepsEngine ==
  ASSUME EngineInv, StoresInv, NEW r \in Ranks,
         \/ Discover(r) \/ EndStep(r) \/ DoClose(r)
         \/ \E v \in Variables : Put(r, v) \/ Describe(r, v) \/ Get(r, v)
         \/ \E v \in Variables, s \in Selections : Select(r, v, s)
  PROVE  EngineInv'
  <1>1. /\ types \in [Variables -> VariableTypes] /\ puts \in 0 .. MaxPuts
        /\ io \in [Ranks -> [Variables -> Selected]]
        /\ phase \in [Ranks -> Phases] /\ todo \in [Ranks -> SUBSET Variables]
    BY DEF EngineInv, EngineTypes
  <1>2. ASSUME Discover(r) PROVE EngineInv'
    <2>1. PICK infos \in MetaGetAll(r) : io' = [io EXCEPT ![r] = AddVariables(io[r], infos)]
      BY <1>2 DEF Discover
    <2>2. AddVariables(io[r], infos) \in [Variables -> Selected]
      <3>1. infos \in Seq(Infos)
        BY <1>1, FoundInfos
      <3>2. io[r] \in [Variables -> Selected]
        BY <1>1
      <3>3. QED
        BY <3>1, <3>2, AddVariablesEffect
    <2>3. io' \in [Ranks -> [Variables -> Selected]] /\ \A s \in Ranks \ {r} : io'[s] = io[s]
      BY <1>1, <2>1, <2>2
    <2>4. /\ phase[r] = "init" /\ phase' = [phase EXCEPT ![r] = "open"]
          /\ UNCHANGED <<types, mode, todo, puts>>
      BY <1>2 DEF Discover
    <2>5. EngineTypes'
      BY <1>1, <2>3, <2>4 DEF EngineTypes, Phases
    <2>6. NoCalls'
      BY <2>4 DEF EngineInv, NoCalls
    <2>7. TodoInv'
      BY <1>1, <2>3, <2>4 DEF EngineInv, TodoInv
    <2>8. QED
      BY <2>5, <2>6, <2>7 DEF EngineInv
  <1>3. ASSUME EndStep(r) \/ DoClose(r) PROVE EngineInv'
    <2>1. /\ phase[r] = "open" /\ todo' = [todo EXCEPT ![r] = Defined(r)]
          /\ UNCHANGED <<types, mode, io, puts>>
      BY <1>3 DEF EndStep, DoClose
    <2>2. PICK next \in {"step", "close"} : phase' = [phase EXCEPT ![r] = next]
      BY <1>3 DEF EndStep, DoClose
    <2>3. Defined(r) \subseteq Variables /\ \A v \in Defined(r) : io[r][v] # NoVariable
      BY DEF Defined
    <2>4. EngineTypes'
      BY <1>1, <2>1, <2>2, <2>3 DEF EngineTypes, Phases
    <2>5. NoCalls'
      BY <2>1 DEF EngineInv, NoCalls
    <2>6. TodoInv'
      BY <1>1, <2>1, <2>2, <2>3 DEF EngineInv, TodoInv
    <2>7. QED
      BY <2>4, <2>5, <2>6 DEF EngineInv
  <1>4. ASSUME NEW v \in Variables, Put(r, v) PROVE EngineInv'
    <2>1. puts' = puts + 1 /\ puts < MaxPuts /\ UNCHANGED <<types, mode, phase, todo, io>>
      BY <1>4 DEF Put
    <2>2. puts' \in 0 .. MaxPuts
      BY <1>1, <2>1, PluginBoundAssumption
    <2>3. QED
      BY <1>1, <2>1, <2>2 DEF EngineInv, EngineTypes, NoCalls, TodoInv
  <1>5. ASSUME NEW v \in Variables, Describe(r, v) PROVE EngineInv'
    <2>1. /\ v \in todo[r] /\ todo' = [todo EXCEPT ![r] = todo[r] \ {v}]
          /\ UNCHANGED <<types, mode, io, puts>>
          /\ phase' = [phase EXCEPT ![r] = IF phase[r] = "step" /\ todo[r] = {v} THEN "open"
                                           ELSE phase[r]]
      BY <1>5 DEF Describe
    <2>2. phase[r] \in {"step", "close"}
      BY <2>1 DEF EngineInv, TodoInv
    <2>3. PICK next \in Phases : /\ phase' = [phase EXCEPT ![r] = next]
                                 /\ next \notin {"step", "close"} => todo[r] = {v}
      BY <2>1, <2>2 DEF Phases
    <2>4. EngineTypes'
      BY <1>1, <2>1, <2>3 DEF EngineTypes
    <2>5. NoCalls'
      BY <2>1, <2>2 DEF EngineInv, NoCalls
    <2>6. TodoInv'
      BY <1>1, <2>1, <2>3 DEF EngineInv, TodoInv
    <2>7. QED
      BY <2>4, <2>5, <2>6 DEF EngineInv
  <1>6. ASSUME NEW v \in Variables, Get(r, v) PROVE EngineInv'
    BY <1>6 DEF Get, EngineInv, EngineTypes, NoCalls, TodoInv
  <1>7. ASSUME NEW v \in Variables, NEW s \in Selections, Select(r, v, s) PROVE EngineInv'
    <2>1. /\ io' = [io EXCEPT ![r] = [io[r] EXCEPT ![v] = s]] /\ phase[r] = "open"
          /\ UNCHANGED <<types, mode, phase, todo, puts>>
      BY <1>7 DEF Select
    <2>2. [io[r] EXCEPT ![v] = s] \in [Variables -> Selected]
      BY <1>1 DEF Selected
    <2>3. EngineTypes'
      BY <1>1, <2>1, <2>2 DEF EngineTypes
    <2>4. NoCalls'
      BY <2>1 DEF EngineInv, NoCalls
    <2>5. TodoInv'
      <3>1. todo[r] = {}
        BY <2>1 DEF EngineInv, TodoInv
      <3>2. \A q \in Ranks \ {r} : io'[q] = io[q]
        BY <1>1, <2>1
      <3>3. QED
        BY <2>1, <3>1, <3>2 DEF EngineInv, TodoInv
    <2>6. QED
      BY <2>3, <2>4, <2>5 DEF EngineInv
  <1>8. QED
    BY <1>2, <1>3, <1>4, <1>5, <1>6, <1>7

-----------------------------------------------------------------------------
(***************************************************************************)
(* What the calls store.                                                   *)
(***************************************************************************)
\* A put stores the text of values that can be printed.
LEMMA PutKeepsInv ==
  ASSUME EngineInv, StoresInv, NEW r \in Ranks, NEW v \in Variables, Put(r, v)
  PROVE  StoresInv'
  <1> DEFINE s == io[r][v]
             d == Data(v, s)
             type == types[v]
             text == ValueText(type, d)
             key == Key(r, FALSE, v)
             e == [key |-> key, text |-> text, writer |-> r, what |-> d, lost |-> FALSE]
  <1>1. /\ Stored(r, key, text, d) /\ puts < MaxPuts /\ s # NoVariable
        /\ UNCHANGED <<agg, types>>
    BY DEF Put
  <1>2. s \in Selections /\ puts \in 0 .. MaxPuts - 1
    <2>1. s \in Selected /\ puts \in 0 .. MaxPuts
      BY DEF EngineInv, EngineTypes
    <2>2. s \in Selections
      BY <1>1, <2>1 DEF Selected
    <2>3. puts \in 0 .. MaxPuts - 1
      BY <1>1, <2>1, PluginBoundAssumption
    <2>4. QED
      BY <2>2, <2>3
  <1>3. Puttable(type, d)
    <2>1. CASE type = "string"
      <3> DEFINE n == NumberText[puts]
      <3>1. d = <<n, ",", "z">>
        BY <2>1 DEF Data
      <3> HIDE DEF n
      <3>2. <<n, ",", "z">> \in Seq({n, ",", "z"})
        OBVIOUS
      <3>3. IsLog(<<n, ",", "z">>)
        BY <3>2, SeqIsLog
      <3>4. QED
        BY <2>1, <3>1, <3>3 DEF Puttable
    <2>2. CASE type # "string"
      <3> DEFINE n == SelectionSize(s)
                 D == 0 .. MaxNumber
                 f == [i \in 1 .. n |-> Number(puts, i)]
      <3>1. d = f
        BY <2>2 DEF Data
      <3>2. n \in Nat
        <4>1. s.count \in Seq(0 .. MaxNumber)
          BY <1>2, SelectionAssumption
        <4>2. QED
          BY <4>1, SelectionSizeType
      <3>3. \A i \in 1 .. n : Number(puts, i) \in D /\ Rounded(Number(puts, i)) \in D
        BY <1>2, NumbersFit
      <3> HIDE DEF n, D
      <3>4. f \in Seq(D) /\ DOMAIN f = 1 .. n
        BY <3>2, <3>3
      <3>5. \A i \in DOMAIN f : Rounded(f[i]) \in D
        BY <3>3, <3>4
      <3> HIDE DEF f
      <3>6. NumbersOf(f)
        BY <3>4, <3>5 DEF NumbersOf, D
      <3>7. QED
        BY <2>2, <3>1, <3>6 DEF Puttable
    <2>3. QED
      BY <2>1, <2>2
  <1>4. key.meta = FALSE /\ key.name = v /\ key = [meta |-> key.meta, rank |-> key.rank, name |-> key.name]
    BY DEF Key
  <1>5. Sound(types, e)
    <2> HIDE DEF d, key, s
    <2>1. QED
      BY <1>3, <1>4 DEF Sound
  <1>6. QED
    <2> DEFINE meta == FALSE
    <2> HIDE DEF d, text, meta
    <2>1. Stored(r, Key(r, meta, v), text, d)
          /\ Sound(types, [key |-> Key(r, meta, v), text |-> text, writer |-> r, what |-> d,
                              lost |-> FALSE])
      BY <1>1, <1>5 DEF meta
    <2>2. QED
      BY <1>1, <2>1, StoredKeepsInv

\* The end of a step and a close store descriptions of selections.
LEMMA DescribeKeepsInv ==
  ASSUME EngineInv, StoresInv, NEW r \in Ranks, NEW v \in Variables, Describe(r, v)
  PROVE  StoresInv'
  <1> DEFINE s == io[r][v]
             text == WriteVariableInfo(v, types[v], s)
             key == Key(r, TRUE, v)
             e == [key |-> key, text |-> text, writer |-> r, what |-> s, lost |-> FALSE]
  <1>1. Stored(r, key, text, s) /\ v \in todo[r] /\ UNCHANGED <<agg, types>>
    BY DEF Describe
  <1>2. s \in Selections
    <2>1. s \in Selected /\ s # NoVariable
      BY <1>1 DEF EngineInv, EngineTypes, TodoInv
    <2>2. QED
      BY <2>1 DEF Selected
  <1>3. key.meta = TRUE /\ key.name = v /\ key = [meta |-> key.meta, rank |-> key.rank, name |-> key.name]
    BY DEF Key
  <1>4. Sound(types, e)
    <2> HIDE DEF key, s
    <2>1. QED
      BY <1>2, <1>3 DEF Sound
  <1>5. QED
    <2> DEFINE meta == TRUE
    <2> HIDE DEF s, text, meta
    <2>1. Stored(r, Key(r, meta, v), text, s)
          /\ Sound(types, [key |-> Key(r, meta, v), text |-> text, writer |-> r, what |-> s,
                              lost |-> FALSE])
      BY <1>1, <1>4 DEF meta
    <2>2. QED
      BY <1>1, <2>1, StoredKeepsInv

\* A step keeps entries in their places and the engine in order.
Inv == EngineInv /\ StoresInv

\* Every step keeps the invariant.
LEMMA NextInv == Inv /\ [Next]_vars => Inv'
  <1> SUFFICES ASSUME EngineInv, StoresInv, [Next]_vars
               PROVE  EngineInv' /\ StoresInv'
    BY DEF Inv
  <1>1. ASSUME UNCHANGED <<agg, types, stores>>
        PROVE  StoresInv'
    BY <1>1 DEF StoresInv, StoresShape, EntriesInPlace, IsLog
  <1>2. ASSUME NEW m \in {"Write", "Append", "Read"}, NEW fresh, Open(m, fresh)
        PROVE  EngineInv' /\ StoresInv'
    BY <1>2, OpenKeepsInv, OpenKeepsEngine
  <1>3. ASSUME NEW r \in Ranks, CloseGroup(r)
        PROVE  EngineInv' /\ StoresInv'
    BY <1>3, CloseKeepsInv, CloseKeepsEngine
  <1>4. CASE Crash
    BY <1>4, CrashKeepsInv, CrashKeepsEngine
  <1>5. ASSUME NEW r \in Ranks, NEW v \in Variables, Put(r, v)
        PROVE  EngineInv' /\ StoresInv'
    BY <1>5, PutKeepsInv, CallKeepsEngine
  <1>6. ASSUME NEW r \in Ranks, NEW v \in Variables, Describe(r, v)
        PROVE  EngineInv' /\ StoresInv'
    BY <1>6, DescribeKeepsInv, CallKeepsEngine
  <1>7. ASSUME NEW r \in Ranks,
               \/ Discover(r) \/ EndStep(r) \/ DoClose(r)
               \/ \E v \in Variables : Get(r, v)
               \/ \E v \in Variables, s \in Selections : Select(r, v, s)
        PROVE  EngineInv' /\ StoresInv'
    <2>1. UNCHANGED <<agg, types, stores>>
      BY <1>7 DEF Discover, EndStep, DoClose, Get, Select
    <2>2. EngineInv'
      BY <1>7, CallKeepsEngine
    <2>3. QED
      BY <1>1, <2>1, <2>2
  <1>8. CASE UNCHANGED vars
    <2>1. EngineInv'
      BY <1>8 DEF vars, EngineInv, EngineTypes, NoCalls, TodoInv
    <2>2. UNCHANGED <<agg, types, stores>>
      BY <1>8 DEF vars
    <2>3. QED
      BY <1>1, <2>1, <2>2
  <1>9. QED
    BY <1>2, <1>3, <1>4, <1>5, <1>6, <1>7, <1>8 DEF Next

\* The job starts with it.
LEMMA InitInv == Init => Inv
  BY InitEngine, InitStores DEF Inv

-----------------------------------------------------------------------------
\* In every state of every job the stores hold, each in the directory of its
\* writer's group and under its writer's key, texts of descriptions and of values
\* that can be read back; and a rank describes variables that are defined, at the
\* end of a step or at close only (WriteVariable, WriteVarsFromIO, Init).
THEOREM EngineInOrder == Spec => []Inv
  BY InitInv, NextInv, PTL DEF Spec

\* In a job of any size, on any nodes, with any way of grouping its ranks, through
\* crashes and however often the engine is opened, no two ranks write under one
\* key of one store: neither do groups share a directory, nor the ranks of a
\* group a key (_dbPath and _rankedKey of LSMIOManager, below the keys of
\* LsmioPlugin).
THEOREM WritersDoNotMeet == Spec => []OneWriterPerKey
  <1>1. Inv => OneWriterPerKey
    BY EntriesNameWriters DEF Inv
  <1>2. QED
    BY <1>1, EngineInOrder, PTL

\* A get returns the first values of the last put.
LEMMA GetReadsOwn ==
  ASSUME Inv, NEW r \in Ranks, NEW v \in Variables, Get(r, v)
  PROVE  ReadsLastPut'
  <1> DEFINE s == io[r][v]
             text == Lookup(r, Key(r, FALSE, v))
             own == Own(r, FALSE, v)
             read == ReadVariable(types[v], s, text)
  <1>1. /\ s \in Selections /\ types[v] \in VariableTypes
    BY DEF Inv, EngineInv, EngineTypes, Selected, Get
  <1>2. /\ own = {} => text = <<>>
        /\ \A e \in own : text = e.text /\ e.key = Key(r, FALSE, v) /\ Sound(types, e)
    <2> DEFINE meta == FALSE
    <2> HIDE DEF meta
    <2>1. /\ Own(r, meta, v) = {} => Lookup(r, Key(r, meta, v)) = <<>>
          /\ \A e \in Own(r, meta, v) :
               Lookup(r, Key(r, meta, v)) = e.text /\ e.key = Key(r, meta, v) /\ Sound(types, e)
      BY LooksUpOwn DEF Inv
    <2>2. QED
      BY <2>1 DEF meta
  <1>3. ASSUME NEW e \in own
        PROVE  Puttable(types[v], e.what) /\ text = ValueText(types[v], e.what)
    <2> HIDE DEF own, text
    <2>1. e.key.meta = FALSE /\ e.key.name = v
      <3>1. e.key = [meta |-> FALSE, rank |-> RankOfKey(agg, r), name |-> v]
        BY <1>2 DEF Key
      <3>2. QED
        BY <3>1
    <2>2. text = e.text /\ Sound(types, e)
      BY <1>2
    <2>3. QED
      BY <2>1, <2>2 DEF Sound
  <1>4. ReadsOwn(types[v], own, SelectionSize(s), read)
    <2> HIDE DEF s, text, own
    <2>1. QED
      BY <1>1, <1>2, <1>3, ReadsText
  <1>5. /\ result' = [rank |-> r, name |-> v, selected |-> SelectionSize(s),
                      kind |-> read.kind, values |-> read.values]
        /\ UNCHANGED <<agg, types, stores>>
    BY DEF Get
  <1> HIDE DEF read, s
  <1>6. /\ result'.rank = r /\ result'.name = v /\ result'.selected = SelectionSize(s)
        /\ result'.kind = read.kind /\ result'.values = read.values
    BY <1>5
  <1>7. Own(result.rank, FALSE, result.name)' = own
    BY <1>5, <1>6 DEF Own, Newest, Store
  <1> HIDE DEF own
  <1>8. types'[result'.name] = types[v]
    BY <1>5, <1>6
  <1>9. QED
    BY <1>4, <1>6, <1>7, <1>8, Zenon DEF ReadsOwn, ReadsLastPut

\* Only a get leaves a result, and the next step takes it away.
LEMMA NextReads == Inv /\ ReadsLastPut /\ [Next]_vars => ReadsLastPut'
  <1> SUFFICES ASSUME Inv, ReadsLastPut, [Next]_vars
               PROVE  ReadsLastPut'
    OBVIOUS
  <1>1. CASE result' = NoResult
    BY <1>1 DEF ReadsLastPut, NoResult
  <1>2. ASSUME NEW r \in Ranks, NEW v \in Variables, Get(r, v) PROVE ReadsLastPut'
    BY <1>2, GetReadsOwn
  <1>3. CASE UNCHANGED vars
    <2>1. UNCHANGED <<agg, types, stores, result>>
      BY <1>3 DEF vars
    <2>2. Own(result.rank, FALSE, result.name)' = Own(result.rank, FALSE, result.name)
      BY <2>1 DEF Own, Newest, Store
    <2>3. QED
      BY <2>1, <2>2, Zenon DEF ReadsLastPut
  <1>4. CASE Next
    <2>1. \/ \E r \in Ranks, v \in Variables : Get(r, v)
          \/ result' = NoResult
      BY <1>4 DEF Next, Open, Discover, EndStep, DoClose, CloseGroup, Put, Describe, Select, Crash
    <2>2. QED
      BY <1>1, <1>2, <2>1
  <1>5. QED
    BY <1>3, <1>4

\* Whatever other ranks put under the same name, however the ranks are grouped and
\* however often the engine is opened or dies in between: a rank reads the first
\* values of the last of its puts that no crash has lost, as far as they were
\* printed, and the engine throws, or reads past the end of the vector, only where no
\* such put is left, or less than is selected was put (WriteVariable, ReadVariable,
\* _rankedKey).
THEOREM RanksReadTheirLastPut == Spec => []ReadsLastPut
  <1>1. Init => ReadsLastPut
    BY DEF Init, NoResult, ReadsLastPut
  <1>2. QED
    BY <1>1, EngineInOrder, NextReads, PTL DEF Spec

\* It is by Discover that a rank in Init comes to be open.
LEMMA InitDiscovers ==
  ASSUME Inv, Next, NEW r \in Ranks, phase[r] = "init", phase'[r] = "open"
  PROVE  Discover(r)
  <1>1. phase \in [Ranks -> Phases]
    BY DEF Inv, EngineInv, EngineTypes
  <1>2. ASSUME NEW m, NEW fresh, Open(m, fresh) PROVE FALSE
    BY <1>2 DEF Open, Inv, EngineInv, NoCalls
  <1>3. ASSUME NEW s \in Ranks, Discover(s) PROVE s = r
    BY <1>1, <1>3 DEF Discover
  <1>4. ASSUME NEW s \in Ranks, EndStep(s) \/ DoClose(s) PROVE FALSE
    BY <1>1, <1>4 DEF EndStep, DoClose
  <1>5. ASSUME NEW s \in Ranks, CloseGroup(s) PROVE FALSE
    BY <1>5 DEF CloseGroup
  <1>6. ASSUME NEW s \in Ranks, NEW v \in Variables, Put(s, v) \/ Get(s, v) PROVE FALSE
    BY <1>6 DEF Put, Get
  <1>7. ASSUME NEW s \in Ranks, NEW v \in Variables, Describe(s, v) PROVE FALSE
    BY <1>1, <1>7 DEF Describe
  <1>8. ASSUME NEW s \in Ranks, NEW v \in Variables, NEW x \in Selections, Select(s, v, x) PROVE FALSE
    BY <1>8 DEF Select
  <1>9. CASE Crash
    BY <1>9 DEF Crash
  <1>10. QED
    BY <1>2, <1>3, <1>4, <1>5, <1>6, <1>7, <1>8, <1>9 DEF Next

\* A rank that discovers keeps what it has and takes over its own descriptions.
LEMMA DiscoverFindsOwn ==
  ASSUME Inv, NEW r \in Ranks, Discover(r), NEW v \in Variables
  PROVE  IF io[r][v] # NoVariable THEN io'[r][v] = io[r][v]
         ELSE \A e \in Own(r, TRUE, v) : io'[r][v] = e.what
  <1>1. /\ StoresInv /\ types \in [Variables -> VariableTypes]
        /\ io \in [Ranks -> [Variables -> Selected]] /\ io[r] \in [Variables -> Selected]
    BY DEF Inv, EngineInv, EngineTypes
  <1>2. PICK infos \in MetaGetAll(r) : io' = [io EXCEPT ![r] = AddVariables(io[r], infos)]
    BY DEF Discover
  <1> DEFINE new == AddVariables(io[r], infos)
  <1>3. io'[r] = new
    BY <1>1, <1>2
  <1>4. infos \in Seq(Infos)
    BY <1>1, FoundInfos
  <1>5. CASE io[r][v] # NoVariable
    <2>1. new[v] = io[r][v]
      BY <1>1, <1>4, <1>5, AddVariablesEffect
    <2>2. QED
      BY <1>3, <1>5, <2>1
  <1>6. CASE io[r][v] = NoVariable
    <2>1. ASSUME NEW e \in Own(r, TRUE, v) PROVE io'[r][v] = e.what
      <3>1. PICK k \in 1 .. Len(infos) :
              /\ infos[k].name = v /\ infos[k].selection = e.what
              /\ \A i \in 1 .. k - 1 : infos[i].name = v => infos[i].selection = infos[k].selection
        BY <1>1, <2>1, FindsOwn
      <3>2. new[v] = infos[k].selection
        BY <1>1, <1>4, <1>6, <3>1, AddVariablesEffect
      <3>3. QED
        BY <1>3, <3>1, <3>2
    <2>2. QED
      BY <1>6, <2>1
  <1>7. QED
    BY <1>5, <1>6

\* A rank that opens the engine for reading finds every variable of which a
\* description of its own is left after the crashes so far, with the selection of
\* the last one left, also the aggregating rank, before which the descriptions of its
\* whole group lie, in whatever order of their names; and what its IO object had
\* before stays (Init, AddVariable, metaGetAll).
THEOREM RanksFindTheirVariables == Spec => DiscoversOwn
  <1> DEFINE A == \A r \in Ranks : phase[r] = "init" /\ phase'[r] = "open" =>
                    \A v \in Variables :
                      IF io[r][v] # NoVariable THEN io'[r][v] = io[r][v]
                      ELSE \A e \in Own(r, TRUE, v) : io'[r][v] = e.what
  <1>1. Inv /\ [Next]_vars => [A]_vars
    <2> SUFFICES ASSUME Inv, Next PROVE A
      OBVIOUS
    <2> SUFFICES ASSUME NEW r \in Ranks, phase[r] = "init", phase'[r] = "open", NEW v \in Variables
                 PROVE  IF io[r][v] # NoVariable THEN io'[r][v] = io[r][v]
                        ELSE \A e \in Own(r, TRUE, v) : io'[r][v] = e.what
      OBVIOUS
    <2>1. Discover(r)
      BY InitDiscovers
    <2>2. QED
      BY <2>1, DiscoverFindsOwn
  <1>2. QED
    BY <1>1, EngineInOrder, PTL DEF Spec, DiscoversOwn
=============================================================================
