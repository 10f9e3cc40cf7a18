--------------------------- MODULE RecordFileProofs ---------------------------
(***************************************************************************)
(* Proofs about the bytes of an L0 file, for any keys, values, records and *)
(* preallocated sizes whose lengths fit: whatever failed writes and a crash*)
(* leave in it, readValueAt and recoverState find what SSTable says.       *)
(***************************************************************************)
EXTENDS RecordFile, SequenceTheorems, FiniteSetTheorems, WellFoundedInduction, TLAPS

--------------------------------------------------------------------------------
(***************************************************************************)
(* Numbers and loops.                                                      *)
(***************************************************************************)
\* A set of numbers has a least one.
LEMMA LeastExists ==
  ASSUME NEW S, S \subseteq Nat, S # {}
  PROVE  \E n \in S : \A m \in S : n <= m
  <1> DEFINE R == {pair \in Nat \X Nat : pair[1] < pair[2]}
  <1>1. IsWellFoundedOn(R, Nat)
    BY NatLessThanWellFounded, Zenon DEF OpToRel
  <1>2. \A m, n \in Nat : <<m, n>> \in R <=> m < n
    OBVIOUS
  <1> HIDE DEF R
  <1>3. PICK n \in S : \A m \in S : ~ (<<m, n>> \in R)
    BY <1>1, WFMin
  <1>4. ASSUME NEW m \in S PROVE n <= m
    <2>1. n \in Nat /\ m \in Nat
      OBVIOUS
    <2>2. ~(m < n)
      BY <1>2, <1>3, <2>1, Zenon
    <2>3. QED
      BY <2>1, <2>2
  <1>5. QED
    BY <1>4

\* A loop that starts with base at a and goes on to n.
Runs(g, S, base, step, a, n) ==
  /\ g \in [a .. n -> S]
  /\ g[a] = base
  /\ \A i \in a + 1 .. n : g[i] = step[<<i, g[i - 1]>>]

\* If every turn has a result, so has the loop.
LEMMA LoopRuns ==
  ASSUME NEW S, NEW base \in S, NEW a \in Nat, NEW b \in Nat, a <= b,
         NEW step \in [(a + 1 .. b) \X S -> S]
  PROVE  \E g : Runs(g, S, base, step, a, b)
  <1> DEFINE bad == {m \in a .. b : ~ \E g : Runs(g, S, base, step, a, m)}
  <1> SUFFICES ASSUME bad # {} PROVE FALSE
    OBVIOUS
  <1>1. PICK m \in bad : \A k \in bad : m <= k
    <2>1. bad \subseteq Nat
      OBVIOUS
    <2> HIDE DEF bad
    <2>2. QED
      BY <2>1, LeastExists
  <1>2. m # a
    <2> SUFFICES ASSUME m = a PROVE FALSE
      OBVIOUS
    <2> DEFINE g == [i \in a .. a |-> base]
    <2>1. Runs(g, S, base, step, a, a)
      BY DEF Runs
    <2>2. QED
      BY <2>1
  <1>3. m - 1 \in a .. b /\ m - 1 \notin bad /\ m \in a + 1 .. b
    BY <1>1, <1>2
  <1>4. PICK g : Runs(g, S, base, step, a, m - 1)
    BY <1>3
  <1> DEFINE last == step[<<m, g[m - 1]>>]
             h == [i \in a .. m |-> IF i < m THEN g[i] ELSE last]
  <1>5. last \in S
    BY <1>3, <1>4 DEF Runs
  <1>6. h \in [a .. m -> S] /\ h[a] = base
    <2> HIDE DEF last
    <2>1. QED
      BY <1>3, <1>4, <1>5 DEF Runs
  <1>7. ASSUME NEW i \in a + 1 .. m PROVE h[i] = step[<<i, h[i - 1]>>]
    <2>1. CASE i < m
      <3>1. i \in a + 1 .. m - 1 /\ h[i] = g[i] /\ h[i - 1] = g[i - 1]
        BY <1>3, <2>1
      <3>2. QED
        BY <1>4, <3>1 DEF Runs
    <2>2. CASE i = m
      <3>1. h[i] = last /\ h[i - 1] = g[i - 1]
        BY <1>3, <2>2
      <3> HIDE DEF h
      <3>2. QED
        BY <2>2, <3>1
    <2>3. QED
      BY <1>3, <2>1, <2>2
  <1> HIDE DEF h
  <1>8. Runs(h, S, base, step, a, m)
    BY <1>6, <1>7 DEF Runs
  <1>9. QED
    BY <1>8

\* The powers of Base.
LEMMA PowerIs ==
  /\ Power \in [0 .. 2 * LenBytes -> Nat \ {0}] /\ Power[0] = 1
  /\ \A n \in 1 .. 2 * LenBytes : Power[n] = Base * Power[n - 1]
  <1> DEFINE N == 2 * LenBytes
             S == Nat \ {0}
             step == [x \in (1 .. N) \X S |-> Base * x[2]]
             Loop(g) == g = [n \in 0 .. 2 * LenBytes |-> IF n = 0 THEN 1 ELSE Base * g[n - 1]]
  <1>1. N \in Nat /\ N = 2 * LenBytes /\ Base \in Nat /\ Base > 1
    BY WidthAssumption
  <1>2. step \in [(1 .. N) \X S -> S]
    <2>1. ASSUME NEW x \in (1 .. N) \X S PROVE Base * x[2] \in S
      <3>1. x[2] \in S
        OBVIOUS
      <3>2. \A y \in S : Base * y \in S
        BY <1>1
      <3>3. QED
        BY <3>1, <3>2
    <2>2. QED
      BY <2>1
  <1>3. PICK g : Runs(g, S, 1, step, 0, N)
    <2> HIDE DEF step, N
    <2>1. 1 \in S
      OBVIOUS
    <2> HIDE DEF S
    <2>2. 0 <= N /\ step \in [(0 + 1 .. N) \X S -> S]
      BY <1>1, <1>2
    <2>3. QED
      BY <1>1, <2>1, <2>2, LoopRuns
  <1>4. Loop(g)
    <2>1. ASSUME NEW n \in 1 .. N PROVE g[n] = Base * g[n - 1]
      <3>1. n - 1 \in 0 .. N /\ <<n, g[n - 1]>> \in (1 .. N) \X S /\ n \in 0 + 1 .. N
        BY <1>1, <1>3 DEF Runs
      <3>2. QED
        BY <1>3, <3>1 DEF Runs
    <2> HIDE DEF step
    <2>2. g \in [0 .. N -> S] /\ g[0] = 1
      BY <1>3 DEF Runs
    <2>3. QED
      BY <1>1, <2>1, <2>2
  <1>5. Loop(Power)
    BY <1>4, Zenon DEF Power
  <1>6. \A f : Loop(f) => f[0] = 1 /\ \A n \in 1 .. N : f[n] = Base * f[n - 1]
    BY <1>1
  <1>7. DOMAIN Power = 0 .. N /\ Power = [n \in 0 .. N |-> Power[n]]
    BY <1>5
  <1> HIDE DEF Loop
  <1>8. Power[0] = 1 /\ \A n \in 1 .. N : Power[n] = Base * Power[n - 1]
    BY <1>5, <1>6
  <1>9. \A n \in 0 .. N : Power[n] \in S
    <2> DEFINE bad == {n \in 0 .. N : Power[n] \notin S}
    <2> SUFFICES ASSUME bad # {} PROVE FALSE
      OBVIOUS
    <2>1. PICK m \in bad : \A k \in bad : m <= k
      <3>1. bad \subseteq Nat
        OBVIOUS
      <3> HIDE DEF bad
      <3>2. QED
        BY <3>1, LeastExists
    <2>2. m # 0
      BY <1>8
    <2>3. m \in 1 .. N /\ m - 1 \in 0 .. N /\ m - 1 \notin bad
      BY <1>1, <2>1, <2>2
    <2>4. Power[m - 1] \in S /\ Power[m] = Base * Power[m - 1]
      BY <1>8, <2>3
    <2>5. Power[m] \in S
      BY <1>1, <2>4
    <2>6. QED
      BY <2>5
  <1>10. QED
    BY <1>7, <1>8, <1>9

\* The offset of a failed stream is a number.
LEMMA NoOffsetType == NoOffset \in Nat
  <1>1. 2 * LenBytes \in 0 .. 2 * LenBytes
    BY WidthAssumption
  <1>2. QED
    BY <1>1, PowerIs DEF NoOffset

(***************************************************************************)
(* Lengths.  Encode divides until nothing is left, Decode goes back.       *)
(***************************************************************************)
DivideLoop(g, n) == g = [i \in 1 .. LenBytes |-> IF i = 1 THEN n ELSE g[i - 1] \div Base]

\* The quotients of a number.
LEMMA Quotients ==
  ASSUME NEW n \in Nat
  PROVE  \E g : /\ g \in [1 .. LenBytes -> Nat] /\ g[1] = n
                /\ \A i \in 2 .. LenBytes : g[i] = g[i - 1] \div Base
                /\ Encode(n) = [i \in 1 .. LenBytes |-> g[i] % Base]
  <1> DEFINE step == [x \in (2 .. LenBytes) \X Nat |-> x[2] \div Base]
             loop == CHOOSE g : DivideLoop(g, n)
  <1>1. LenBytes \in Nat /\ 1 <= LenBytes /\ Base \in Nat \ {0}
    BY WidthAssumption
  <1>2. step \in [(1 + 1 .. LenBytes) \X Nat -> Nat]
    <2>1. \A y \in Nat : y \div Base \in Nat
      BY <1>1
    <2>2. \A x \in (2 .. LenBytes) \X Nat : x[2] \in Nat
      OBVIOUS
    <2>3. QED
      BY <2>1, <2>2
  <1>3. PICK g : Runs(g, Nat, n, step, 1, LenBytes)
    <2> HIDE DEF step
    <2>1. QED
      BY <1>1, <1>2, LoopRuns
  <1>4. ASSUME NEW i \in 2 .. LenBytes PROVE g[i] = g[i - 1] \div Base
    <2>1. i - 1 \in 1 .. LenBytes /\ <<i, g[i - 1]>> \in (2 .. LenBytes) \X Nat /\ i \in 1 + 1 .. LenBytes
      BY <1>1, <1>3 DEF Runs
    <2>2. QED
      BY <1>3, <2>1 DEF Runs
  <1>5. g \in [1 .. LenBytes -> Nat] /\ g[1] = n
    BY <1>3 DEF Runs
  <1>6. DivideLoop(g, n)
    BY <1>1, <1>4, <1>5 DEF DivideLoop
  <1>7. DivideLoop(loop, n)
    BY <1>6
  <1>8. Encode(n) = [i \in 1 .. LenBytes |-> loop[i] % Base]
    BY DEF Encode, DivideLoop
  <1> HIDE DEF loop
  <1>9. /\ loop = [i \in 1 .. LenBytes |-> loop[i]] /\ loop[1] = n
        /\ \A i \in 2 .. LenBytes : loop[i] = loop[i - 1] \div Base
    BY <1>1, <1>7 DEF DivideLoop
  <1>10. \A i \in 1 .. LenBytes : loop[i] \in Nat
    <2> DEFINE bad == {i \in 1 .. LenBytes : loop[i] \notin Nat}
    <2> SUFFICES ASSUME bad # {} PROVE FALSE
      OBVIOUS
    <2>1. PICK m \in bad : \A k \in bad : m <= k
      <3>1. bad \subseteq Nat
        OBVIOUS
      <3> HIDE DEF bad
      <3>2. QED
        BY <3>1, LeastExists
    <2>2. m # 1
      BY <1>9
    <2>3. m \in 2 .. LenBytes /\ m - 1 \in 1 .. LenBytes /\ m - 1 \notin bad
      BY <1>1, <2>1, <2>2
    <2>4. loop[m - 1] \in Nat /\ loop[m] = loop[m - 1] \div Base
      BY <1>9, <2>3
    <2>5. loop[m] \in Nat
      BY <1>1, <2>4
    <2>6. QED
      BY <2>5
  <1>11. QED
    BY <1>8, <1>9, <1>10

\* Lengths are written as bytes.
LEMMA EncodeType ==
  ASSUME NEW n \in Nat
  PROVE  Encode(n) \in Seq(Bytes) /\ Len(Encode(n)) = LenBytes
  <1>1. LenBytes \in Nat /\ Base \in Nat \ {0}
    BY WidthAssumption
  <1>2. PICK g : /\ g \in [1 .. LenBytes -> Nat]
                 /\ Encode(n) = [i \in 1 .. LenBytes |-> g[i] % Base]
    BY Quotients
  <1>3. \A y \in Nat : y % Base \in Bytes
    BY <1>1 DEF Bytes
  <1>4. Encode(n) \in [1 .. LenBytes -> Bytes]
    BY <1>2, <1>3
  <1>5. QED
    BY <1>1, <1>4

DecodeLoop(g, s) ==
  g = [i \in 0 .. LenBytes |-> IF i = 0 THEN 0 ELSE s[LenBytes + 1 - i] + Base * g[i - 1]]

\* The number in the last bytes, from the last one on.
LEMMA LastBytes ==
  ASSUME NEW s, \A i \in 1 .. LenBytes : s[i] \in Bytes
  PROVE  \E g : /\ g \in [0 .. LenBytes -> Nat] /\ g[0] = 0
                /\ \A i \in 1 .. LenBytes : g[i] = s[LenBytes + 1 - i] + Base * g[i - 1]
                /\ Decode(s) = g[LenBytes]
  <1> DEFINE step == [x \in (1 .. LenBytes) \X Nat |-> s[LenBytes + 1 - x[1]] + Base * x[2]]
             loop == CHOOSE g : DecodeLoop(g, s)
  <1>1. LenBytes \in Nat /\ Base \in Nat /\ 0 <= LenBytes
    BY WidthAssumption
  <1>2. ASSUME NEW i \in 1 .. LenBytes, NEW y \in Nat PROVE s[LenBytes + 1 - i] + Base * y \in Nat
    <2>1. s[LenBytes + 1 - i] \in Nat
      <3>1. LenBytes + 1 - i \in 1 .. LenBytes
        BY <1>1
      <3>2. QED
        BY <1>1, <3>1 DEF Bytes
    <2>2. Base * y \in Nat
      BY <1>1
    <2>3. QED
      BY <2>1, <2>2
  <1>3. step \in [(0 + 1 .. LenBytes) \X Nat -> Nat]
    <2>1. \A x \in (1 .. LenBytes) \X Nat : x[1] \in 1 .. LenBytes /\ x[2] \in Nat
      OBVIOUS
    <2>2. QED
      BY <1>2, <2>1
  <1>4. PICK g : Runs(g, Nat, 0, step, 0, LenBytes)
    <2> HIDE DEF step
    <2>1. QED
      BY <1>1, <1>3, LoopRuns
  <1>5. ASSUME NEW i \in 1 .. LenBytes PROVE g[i] = s[LenBytes + 1 - i] + Base * g[i - 1]
    <2>1. i - 1 \in 0 .. LenBytes /\ <<i, g[i - 1]>> \in (1 .. LenBytes) \X Nat /\ i \in 0 + 1 .. LenBytes
      BY <1>1, <1>4 DEF Runs
    <2>2. QED
      BY <1>4, <2>1 DEF Runs
  <1>6. g \in [0 .. LenBytes -> Nat] /\ g[0] = 0
    BY <1>4 DEF Runs
  <1> HIDE DEF step
  <1>7. DecodeLoop(g, s)
    BY <1>1, <1>5, <1>6 DEF DecodeLoop
  <1>8. DecodeLoop(loop, s)
    BY <1>7
  <1>9. Decode(s) = loop[LenBytes]
    BY DEF Decode, DecodeLoop
  <1> HIDE DEF loop
  <1>10. /\ loop = [i \in 0 .. LenBytes |-> loop[i]] /\ loop[0] = 0
         /\ \A i \in 1 .. LenBytes : loop[i] = s[LenBytes + 1 - i] + Base * loop[i - 1]
    BY <1>1, <1>8 DEF DecodeLoop
  <1>11. \A i \in 0 .. LenBytes : loop[i] \in Nat
    <2> DEFINE bad == {i \in 0 .. LenBytes : loop[i] \notin Nat}
    <2> SUFFICES ASSUME bad # {} PROVE FALSE
      OBVIOUS
    <2>1. PICK m \in bad : \A k \in bad : m <= k
      <3>1. bad \subseteq Nat
        OBVIOUS
      <3> HIDE DEF bad
      <3>2. QED
        BY <3>1, LeastExists
    <2>2. m # 0
      BY <1>10
    <2>3. m \in 1 .. LenBytes /\ m - 1 \in 0 .. LenBytes /\ m - 1 \notin bad
      BY <1>1, <2>1, <2>2
    <2>4. loop[m - 1] \in Nat /\ loop[m] = s[LenBytes + 1 - m] + Base * loop[m - 1]
      BY <1>10, <2>3
    <2>5. loop[m] \in Nat
      BY <1>2, <2>3, <2>4
    <2>6. QED
      BY <2>5
  <1>12. QED
    BY <1>9, <1>10, <1>11

\* A length that fits into its bytes is read back as it was written.
LEMMA LengthRoundTrip ==
  ASSUME NEW n \in Nat, n < Power[LenBytes], NEW s,
         \A i \in 1 .. LenBytes : s[i] = Encode(n)[i]
  PROVE  Decode(s) = n
  <1>1. LenBytes \in Nat /\ 1 <= LenBytes /\ Base \in Nat \ {0}
    BY WidthAssumption
  <1>2. PICK q : /\ q \in [1 .. LenBytes -> Nat] /\ q[1] = n
                 /\ \A i \in 2 .. LenBytes : q[i] = q[i - 1] \div Base
                 /\ Encode(n) = [i \in 1 .. LenBytes |-> q[i] % Base]
    BY Quotients
  <1>3. \A i \in 1 .. LenBytes : s[i] = q[i] % Base /\ s[i] \in Bytes
    <2>1. \A y \in Nat : y % Base \in Bytes
      BY <1>1 DEF Bytes
    <2>2. QED
      BY <1>2, <2>1
  <1>4. PICK g : /\ g \in [0 .. LenBytes -> Nat] /\ g[0] = 0
                 /\ \A i \in 1 .. LenBytes : g[i] = s[LenBytes + 1 - i] + Base * g[i - 1]
                 /\ Decode(s) = g[LenBytes]
    BY <1>3, LastBytes
  <1>5. \A i \in 1 .. LenBytes : q[i] < Power[LenBytes + 1 - i]
    <2> DEFINE bad == {i \in 1 .. LenBytes : ~ (q[i] < Power[LenBytes + 1 - i])}
    <2> SUFFICES ASSUME bad # {} PROVE FALSE
      OBVIOUS
    <2>1. PICK m \in bad : \A k \in bad : m <= k
      <3>1. bad \subseteq Nat
        OBVIOUS
      <3> HIDE DEF bad
      <3>2. QED
        BY <3>1, LeastExists
    <2>2. m # 1
      <3>1. LenBytes + 1 - 1 = LenBytes
        BY <1>1
      <3>2. QED
        BY <1>2, <3>1
    <2>3. m \in 2 .. LenBytes /\ m - 1 \in 1 .. LenBytes /\ m - 1 \notin bad
      BY <1>1, <2>1, <2>2
    <2> DEFINE e == LenBytes + 1 - m
    <2>4. e \in 0 .. 2 * LenBytes /\ e + 1 \in 1 .. 2 * LenBytes /\ LenBytes + 1 - (m - 1) = e + 1
          /\ (e + 1) - 1 = e
      BY <1>1, <2>3
    <2> HIDE DEF e
    <2>5. q[m - 1] < Power[e + 1] /\ Power[e + 1] = Base * Power[e] /\ Power[e] \in Nat
      BY <2>3, <2>4, PowerIs
    <2>6. q[m] = q[m - 1] \div Base /\ q[m - 1] \in Nat
      BY <1>2, <2>3
    <2>7. \A x, y \in Nat : x < Base * y => x \div Base < y
      BY <1>1
    <2>8. q[m] < Power[e]
      BY <2>5, <2>6, <2>7
    <2>9. QED
      BY <2>8 DEF e
  <1>6. \A i \in 1 .. LenBytes : g[i] = q[LenBytes + 1 - i]
    <2> DEFINE bad == {i \in 1 .. LenBytes : g[i] # q[LenBytes + 1 - i]}
    <2> SUFFICES ASSUME bad # {} PROVE FALSE
      OBVIOUS
    <2>1. PICK m \in bad : \A k \in bad : m <= k
      <3>1. bad \subseteq Nat
        OBVIOUS
      <3> HIDE DEF bad
      <3>2. QED
        BY <3>1, LeastExists
    <2> DEFINE e == LenBytes + 1 - m
    <2>2. e \in 1 .. LenBytes /\ g[m] = s[e] + Base * g[m - 1] /\ s[e] = q[e] % Base /\ q[e] \in Nat
      BY <1>1, <1>2, <1>3, <1>4, <2>1
    <2>3. CASE m = 1
      <3>1. e = LenBytes /\ LenBytes + 1 - e = 1
        BY <1>1, <2>3
      <3>2. Power[1] = Base
        <4>1. 1 \in 1 .. 2 * LenBytes /\ 1 - 1 = 0
          BY <1>1
        <4>2. QED
          BY <1>1, <4>1, PowerIs
      <3>3. q[e] < Base
        BY <1>5, <2>2, <3>1, <3>2
      <3>4. g[m] = q[e]
        <4>1. g[m - 1] = 0
          BY <1>4, <2>3
        <4>2. q[e] % Base = q[e]
          BY <1>1, <2>2, <3>3
        <4>3. QED
          BY <1>1, <2>2, <4>1, <4>2
      <3>5. QED
        BY <2>1, <3>4
    <2>4. CASE m # 1
      <3>1. m - 1 \in 1 .. LenBytes /\ m - 1 \notin bad /\ LenBytes + 1 - (m - 1) = e + 1
            /\ e + 1 \in 2 .. LenBytes /\ (e + 1) - 1 = e
        BY <1>1, <2>1, <2>4
      <3>2. g[m - 1] = q[e + 1] /\ q[e + 1] = q[e] \div Base
        BY <1>2, <3>1
      <3>3. \A x \in Nat : x % Base = x - Base * (x \div Base)
        BY <1>1
      <3>4. \A x \in Nat : Base * (x \div Base) \in Nat
        BY <1>1
      <3>5. g[m] = q[e]
        BY <2>2, <3>2, <3>3, <3>4
      <3>6. QED
        BY <2>1, <3>5
    <2>5. QED
      BY <2>3, <2>4
  <1>7. LenBytes + 1 - LenBytes = 1 /\ LenBytes \in 1 .. LenBytes
    BY <1>1
  <1>8. QED
    BY <1>2, <1>4, <1>6, <1>7

\* Whatever the bytes are, they are a number.
LEMMA DecodeType ==
  ASSUME NEW s, \A i \in 1 .. LenBytes : s[i] \in Bytes
  PROVE  Decode(s) \in Nat
  <1>1. LenBytes \in 0 .. LenBytes
    BY WidthAssumption
  <1>2. QED
    BY <1>1, LastBytes

(***************************************************************************)
(* Sequences.                                                              *)
(***************************************************************************)
\* The elements of two sequences put together.
LEMMA Concat ==
  ASSUME NEW T, NEW a \in Seq(T), NEW b \in Seq(T)
  PROVE  /\ a \o b \in Seq(T) /\ Len(a \o b) = Len(a) + Len(b)
         /\ \A i \in 1 .. Len(a) : (a \o b)[i] = a[i]
         /\ \A i \in 1 .. Len(b) : (a \o b)[Len(a) + i] = b[i]
  OBVIOUS

\* The elements of a part of a sequence.
LEMMA Part ==
  ASSUME NEW T, NEW s \in Seq(T), NEW a \in Nat, NEW b \in Nat, a <= b, b <= Len(s)
  PROVE  /\ SubSeq(s, a + 1, b) \in Seq(T) /\ Len(SubSeq(s, a + 1, b)) = b - a
         /\ \A i \in 1 .. b - a : SubSeq(s, a + 1, b)[i] = s[a + i]
  OBVIOUS

\* Sequences with the same elements.
LEMMA SameElements ==
  ASSUME NEW T, NEW s \in Seq(T), NEW t \in Seq(T), Len(s) = Len(t),
         \A i \in 1 .. Len(s) : s[i] = t[i]
  PROVE  s = t
  OBVIOUS

(***************************************************************************)
(* Records.                                                                *)
(***************************************************************************)
Records == [key : RecordKeys, value : RecordValues]
KeyEnd(r) == LenBytes + Len(r.key)
Size(r) == 2 * LenBytes + Len(r.key) + Len(r.value)
HeaderSize(r) == 2 * LenBytes + Len(r.key)

\* The sizes of a record are numbers, and its lengths fit.
LEMMA RecordType ==
  ASSUME NEW r \in Records
  PROVE  /\ r.key \in Seq(Bytes) /\ r.value \in Seq(Bytes)
         /\ Len(r.key) \in Nat /\ Len(r.value) \in Nat
         /\ Len(r.key) < Power[LenBytes] /\ Len(r.value) < Power[LenBytes]
         /\ LenBytes \in Nat \ {0} /\ KeyEnd(r) \in Nat /\ Size(r) \in Nat /\ HeaderSize(r) \in Nat
         /\ HeaderSize(r) = KeyEnd(r) + LenBytes /\ Size(r) = HeaderSize(r) + Len(r.value)
  <1>1. r.key \in RecordKeys /\ r.value \in RecordValues
    BY DEF Records
  <1>2. /\ r.key \in Seq(Bytes) /\ r.value \in Seq(Bytes)
        /\ Len(r.key) < Power[LenBytes] /\ Len(r.value) < Power[LenBytes]
    BY <1>1, LengthAssumption
  <1>3. Len(r.key) \in Nat /\ Len(r.value) \in Nat /\ LenBytes \in Nat \ {0}
    BY <1>2, WidthAssumption
  <1> DEFINE k == Len(r.key)
             v == Len(r.value)
  <1>4. \A L, a, b \in Nat : /\ L + a \in Nat /\ 2 * L + a + b \in Nat /\ 2 * L + a \in Nat
                             /\ 2 * L + a = (L + a) + L /\ 2 * L + a + b = (2 * L + a) + b
    OBVIOUS
  <1>5. /\ LenBytes + k \in Nat /\ 2 * LenBytes + k + v \in Nat /\ 2 * LenBytes + k \in Nat
        /\ 2 * LenBytes + k = (LenBytes + k) + LenBytes
        /\ 2 * LenBytes + k + v = (2 * LenBytes + k) + v
    <2>1. LenBytes \in Nat /\ k \in Nat /\ v \in Nat
      BY <1>3
    <2> HIDE DEF k, v
    <2>2. QED
      BY <1>4, <2>1
  <1>6. QED
    BY <1>2, <1>3, <1>5 DEF KeyEnd, Size, HeaderSize

\* Where the parts of a record are.
LEMMA SerializeParts ==
  ASSUME NEW r \in Records
  PROVE  /\ Serialize(r) \in Seq(Bytes) /\ Len(Serialize(r)) = Size(r)
         /\ \A i \in 1 .. LenBytes : Serialize(r)[i] = Encode(Len(r.key))[i]
         /\ \A i \in 1 .. Len(r.key) : Serialize(r)[LenBytes + i] = r.key[i]
         /\ \A i \in 1 .. LenBytes : Serialize(r)[KeyEnd(r) + i] = Encode(Len(r.value))[i]
         /\ \A i \in 1 .. Len(r.value) : Serialize(r)[HeaderSize(r) + i] = r.value[i]
  <1> DEFINE a == Encode(Len(r.key))
             b == r.key
             c == Encode(Len(r.value))
             d == r.value
  <1>1. /\ a \in Seq(Bytes) /\ b \in Seq(Bytes) /\ c \in Seq(Bytes) /\ d \in Seq(Bytes)
        /\ Len(a) = LenBytes /\ Len(c) = LenBytes
    BY RecordType, EncodeType
  <1>2. Serialize(r) = a \o b \o c \o d
    BY DEF Serialize
  <1>3. /\ LenBytes \in Nat /\ Len(b) \in Nat /\ Len(d) \in Nat
        /\ KeyEnd(r) = LenBytes + Len(b) /\ HeaderSize(r) = LenBytes + Len(b) + LenBytes
        /\ Size(r) = LenBytes + Len(b) + LenBytes + Len(d)
    BY RecordType DEF KeyEnd, HeaderSize, Size
  <1> HIDE DEF a, b, c, d
  <1> DEFINE ab == a \o b
             abc == ab \o c
             abcd == abc \o d
  <1>4. /\ ab \in Seq(Bytes) /\ Len(ab) = LenBytes + Len(b)
        /\ \A i \in 1 .. LenBytes : ab[i] = a[i]
        /\ \A i \in 1 .. Len(b) : ab[LenBytes + i] = b[i]
    BY <1>1, Concat
  <1> HIDE DEF ab
  <1>5. /\ abc \in Seq(Bytes) /\ Len(abc) = LenBytes + Len(b) + LenBytes
        /\ \A i \in 1 .. LenBytes + Len(b) : abc[i] = ab[i]
        /\ \A i \in 1 .. LenBytes : abc[(LenBytes + Len(b)) + i] = c[i]
    <2>1. /\ abc \in Seq(Bytes) /\ Len(abc) = Len(ab) + Len(c)
          /\ \A i \in 1 .. Len(ab) : abc[i] = ab[i]
          /\ \A i \in 1 .. Len(c) : abc[Len(ab) + i] = c[i]
      <3>1. ab \in Seq(Bytes) /\ c \in Seq(Bytes)
        BY <1>1, <1>4
      <3>2. QED
        BY <3>1, Concat
    <2> HIDE DEF abc
    <2>2. QED
      BY <1>1, <1>4, <2>1
  <1> HIDE DEF abc
  <1>6. /\ abcd \in Seq(Bytes) /\ Len(abcd) = LenBytes + Len(b) + LenBytes + Len(d)
        /\ \A i \in 1 .. LenBytes + Len(b) + LenBytes : abcd[i] = abc[i]
        /\ \A i \in 1 .. Len(d) : abcd[(LenBytes + Len(b) + LenBytes) + i] = d[i]
    <2>1. /\ abcd \in Seq(Bytes) /\ Len(abcd) = Len(abc) + Len(d)
          /\ \A i \in 1 .. Len(abc) : abcd[i] = abc[i]
          /\ \A i \in 1 .. Len(d) : abcd[Len(abc) + i] = d[i]
      <3>1. abc \in Seq(Bytes) /\ d \in Seq(Bytes)
        BY <1>1, <1>5
      <3>2. QED
        BY <3>1, Concat
    <2> HIDE DEF abcd
    <2>2. QED
      BY <1>1, <1>5, <2>1
  <1>7. Serialize(r) = abcd
    BY <1>2 DEF ab, abc
  <1> HIDE DEF abcd
  <1>8. \A i \in 1 .. LenBytes : abcd[i] = a[i]
    BY <1>3, <1>4, <1>5, <1>6
  <1>9. \A i \in 1 .. Len(b) : abcd[LenBytes + i] = b[i]
    <2> TAKE i \in 1 .. Len(b)
    <2> DEFINE j == LenBytes + i
    <2>1. j \in 1 .. LenBytes + Len(b) /\ j \in 1 .. LenBytes + Len(b) + LenBytes
      BY <1>3
    <2>2. ab[j] = b[i]
      BY <1>4
    <2> HIDE DEF j
    <2>3. abcd[j] = b[i]
      BY <1>5, <1>6, <2>1, <2>2
    <2>4. QED
      BY <2>3 DEF j
  <1>10. \A i \in 1 .. LenBytes : abcd[KeyEnd(r) + i] = c[i]
    <2> TAKE i \in 1 .. LenBytes
    <2> DEFINE j == (LenBytes + Len(b)) + i
    <2>1. j \in 1 .. LenBytes + Len(b) + LenBytes
      BY <1>3
    <2>2. abc[j] = c[i]
      BY <1>5
    <2> HIDE DEF j
    <2>3. abcd[j] = c[i]
      BY <1>6, <2>1, <2>2
    <2>4. KeyEnd(r) + i = j
      BY <1>3 DEF j
    <2>5. QED
      BY <2>3, <2>4
  <1>11. \A i \in 1 .. Len(d) : abcd[HeaderSize(r) + i] = d[i]
    BY <1>3, <1>6
  <1>12. QED
    BY <1>3, <1>6, <1>7, <1>8, <1>9, <1>10, <1>11 DEF a, b, c, d

--------------------------------------------------------------------------------
(***************************************************************************)
(* Reading a file.  A file begins like a record at o for n bytes.          *)
(***************************************************************************)
LikeRecord(f, o, r, n) == \A i \in 1 .. n : f[o + i] = Serialize(r)[i]

\* The length at an offset, byte by byte.
LEMMA LenAtType ==
  ASSUME NEW f \in Seq(Bytes), NEW o \in Nat, HasLen(f, o)
  PROVE  LenAt(f, o) \in Nat
  <1>1. LenBytes \in Nat /\ o + LenBytes <= Len(f) /\ Len(f) \in Nat
    BY WidthAssumption DEF HasLen
  <1>2. \A i \in 1 .. LenBytes : SubSeq(f, o + 1, o + LenBytes)[i] \in Bytes
    BY <1>1
  <1>3. QED
    BY <1>2, DecodeType DEF LenAt

\* A length that is in the file is read as it was written.
LEMMA LenAtIs ==
  ASSUME NEW f \in Seq(Bytes), NEW o \in Nat, HasLen(f, o),
         NEW n \in Nat, n < Power[LenBytes],
         \A i \in 1 .. LenBytes : f[o + i] = Encode(n)[i]
  PROVE  LenAt(f, o) = n
  <1>1. LenBytes \in Nat /\ o + LenBytes <= Len(f) /\ Len(f) \in Nat
    BY WidthAssumption DEF HasLen
  <1>2. \A i \in 1 .. LenBytes : SubSeq(f, o + 1, o + LenBytes)[i] = f[o + i]
    BY <1>1
  <1>3. \A i \in 1 .. LenBytes : SubSeq(f, o + 1, o + LenBytes)[i] = Encode(n)[i]
    BY <1>2
  <1>4. QED
    BY <1>3, LengthRoundTrip DEF LenAt

\* The first length of a record that is there.
LEMMA KeyLengthRead ==
  ASSUME NEW f \in Seq(Bytes), NEW o \in Nat, NEW r \in Records,
         HasLen(f, o), LikeRecord(f, o, r, LenBytes)
  PROVE  LenAt(f, o) = Len(r.key)
  <1>1. \A i \in 1 .. LenBytes : f[o + i] = Encode(Len(r.key))[i]
    BY SerializeParts DEF LikeRecord
  <1>2. Len(r.key) \in Nat /\ Len(r.key) < Power[LenBytes]
    BY RecordType
  <1>3. QED
    BY <1>1, <1>2, LenAtIs

\* If lengths and key of a record are in the file, they are read.
LEMMA HeaderRead ==
  ASSUME NEW f \in Seq(Bytes), NEW o \in Nat, NEW r \in Records,
         o + HeaderSize(r) <= Len(f), LikeRecord(f, o, r, HeaderSize(r))
  PROVE  Header(f, o) = {[key |-> r.key, valueAt |-> o + HeaderSize(r), length |-> Len(r.value)]}
  <1> DEFINE k == Len(r.key)
             lenAt == o + LenBytes + LenAt(f, o)
             key == SubSeq(f, o + LenBytes + 1, lenAt)
  <1>1. /\ LenBytes \in Nat \ {0} /\ k \in Nat /\ KeyEnd(r) = LenBytes + k /\ Len(f) \in Nat
        /\ HeaderSize(r) = LenBytes + k + LenBytes /\ r.key \in Seq(Bytes)
    BY RecordType DEF KeyEnd
  <1>2. HasLen(f, o) /\ LikeRecord(f, o, r, LenBytes)
    BY <1>1 DEF HasLen, LikeRecord
  <1>3. lenAt = o + LenBytes + k /\ lenAt \in Nat
    <2>1. LenAt(f, o) = k
      BY <1>2, KeyLengthRead
    <2> HIDE DEF k
    <2>2. QED
      BY <1>1, <2>1
  <1> HIDE DEF k
  <1>4. HasLen(f, lenAt)
    BY <1>1, <1>3 DEF HasLen
  <1>5. key = r.key
    <2> DEFINE a == o + LenBytes
    <2>1. a \in Nat /\ a <= lenAt /\ lenAt <= Len(f) /\ lenAt - a = k
      BY <1>1, <1>3
    <2>2. key \in Seq(Bytes) /\ Len(key) = k /\ \A i \in 1 .. k : key[i] = f[a + i]
      <3> HIDE DEF lenAt
      <3>1. SubSeq(f, a + 1, lenAt) \in Seq(Bytes) /\ Len(SubSeq(f, a + 1, lenAt)) = lenAt - a
            /\ \A i \in 1 .. lenAt - a : SubSeq(f, a + 1, lenAt)[i] = f[a + i]
        <4> HIDE DEF a
        <4>1. QED
          BY <1>3, <2>1, Part
      <3>2. QED
        BY <2>1, <3>1
    <2>3. \A i \in 1 .. k : f[a + i] = r.key[i]
      <3> TAKE i \in 1 .. k
      <3>1. LenBytes + i \in 1 .. HeaderSize(r) /\ o + (LenBytes + i) = o + LenBytes + i
        BY <1>1
      <3>2. f[o + (LenBytes + i)] = Serialize(r)[LenBytes + i]
        BY <3>1 DEF LikeRecord
      <3>3. i \in 1 .. Len(r.key)
        BY DEF k
      <3>4. QED
        BY <3>1, <3>2, <3>3, SerializeParts
    <2> HIDE DEF key, a
    <2>4. Len(r.key) = k
      BY DEF k
    <2>5. key \in Seq(Bytes) /\ r.key \in Seq(Bytes) /\ Len(key) = Len(r.key)
          /\ \A i \in 1 .. Len(key) : key[i] = r.key[i]
      BY <1>1, <2>2, <2>3, <2>4
    <2>6. QED
      BY <2>5, SameElements
  <1>6. LenAt(f, lenAt) = Len(r.value)
    <2>1. lenAt \in Nat
      BY <1>3
    <2>2. \A i \in 1 .. LenBytes : f[lenAt + i] = Encode(Len(r.value))[i]
      <3> TAKE i \in 1 .. LenBytes
      <3>1. KeyEnd(r) + i \in 1 .. HeaderSize(r) /\ o + (KeyEnd(r) + i) = lenAt + i
        BY <1>1, <1>3
      <3> HIDE DEF lenAt
      <3>2. f[o + (KeyEnd(r) + i)] = Serialize(r)[KeyEnd(r) + i]
        BY <3>1 DEF LikeRecord
      <3>3. QED
        BY <3>1, <3>2, SerializeParts
    <2> HIDE DEF lenAt
    <2>3. QED
      BY <1>4, <2>1, <2>2, RecordType, LenAtIs
  <1>7. lenAt + LenBytes = o + HeaderSize(r)
    BY <1>1, <1>3
  <1>8. Header(f, o) = {[key |-> key, valueAt |-> lenAt + LenBytes, length |-> LenAt(f, lenAt)]}
    BY <1>2, <1>4 DEF Header
  <1> HIDE DEF key, lenAt
  <1>9. QED
    BY <1>5, <1>6, <1>7, <1>8

\* If the file ends before, the reads fail.
LEMMA HeaderCut ==
  ASSUME NEW f \in Seq(Bytes), NEW o \in Nat, NEW r \in Records, NEW n \in Nat,
         Len(f) = o + n, n < HeaderSize(r), LikeRecord(f, o, r, n)
  PROVE  Header(f, o) = {}
  <1>1. LenBytes \in Nat /\ Len(r.key) \in Nat /\ HeaderSize(r) = LenBytes + Len(r.key) + LenBytes
    BY RecordType DEF KeyEnd
  <1>2. CASE HasLen(f, o)
    <2>1. LenBytes <= n
      BY <1>1, <1>2 DEF HasLen
    <2>2. LikeRecord(f, o, r, LenBytes)
      BY <1>1, <2>1 DEF LikeRecord
    <2>3. LenAt(f, o) = Len(r.key)
      BY <1>2, <2>2, KeyLengthRead
    <2>4. ~ HasLen(f, o + LenBytes + LenAt(f, o))
      <3>1. ~ (o + LenBytes + Len(r.key) + LenBytes <= Len(f))
        <4>1. \A a, b, c, k, h, l \in Nat : l = a + b /\ b < h /\ h = c + k + c => ~ (a + c + k + c <= l)
          OBVIOUS
        <4>2. Len(f) \in Nat /\ HeaderSize(r) \in Nat
          BY RecordType
        <4>3. QED
          BY <1>1, <4>1, <4>2
      <3>2. QED
        BY <2>3, <3>1 DEF HasLen
    <2>5. QED
      BY <2>4 DEF Header
  <1>3. CASE ~ HasLen(f, o)
    BY <1>3 DEF Header
  <1>4. QED
    BY <1>2, <1>3

\* readValueAt returns the value of a record that is there.
LEMMA ValueRead ==
  ASSUME NEW f \in Seq(Bytes), NEW o \in Nat, NEW r \in Records,
         o + Size(r) <= Len(f), LikeRecord(f, o, r, Size(r))
  PROVE  ReadValueAt(f, o, r.key) = {r.value}
  <1> DEFINE h == [key |-> r.key, valueAt |-> o + HeaderSize(r), length |-> Len(r.value)]
             value == SubSeq(f, h.valueAt + 1, h.valueAt + h.length)
  <1>1. /\ HeaderSize(r) \in Nat /\ Len(r.value) \in Nat /\ Size(r) = HeaderSize(r) + Len(r.value)
        /\ r.value \in Seq(Bytes)
    BY RecordType
  <1>2. o + HeaderSize(r) <= Len(f) /\ LikeRecord(f, o, r, HeaderSize(r))
    BY <1>1 DEF LikeRecord
  <1>3. Header(f, o) = {h}
    BY <1>2, HeaderRead
  <1>4. h.key = r.key /\ h.valueAt = o + HeaderSize(r) /\ h.length = Len(r.value)
    OBVIOUS
  <1>5. h.valueAt + h.length <= Len(f)
    BY <1>1, <1>4
  <1>6. value = r.value
    <2> DEFINE a == o + HeaderSize(r)
               b == a + Len(r.value)
    <2>1. a \in Nat /\ b \in Nat /\ a <= b /\ b <= Len(f) /\ b - a = Len(r.value)
      BY <1>1
    <2>2. /\ value \in Seq(Bytes) /\ Len(value) = Len(r.value)
          /\ \A i \in 1 .. Len(r.value) : value[i] = f[o + HeaderSize(r) + i]
      <3>1. value = SubSeq(f, a + 1, b) /\ a = o + HeaderSize(r)
        BY <1>4
      <3> HIDE DEF a, b, value
      <3>2. f \in Seq(Bytes) /\ a \in Nat /\ b \in Nat /\ a <= b /\ b <= Len(f)
        BY <2>1
      <3>3. /\ SubSeq(f, a + 1, b) \in Seq(Bytes) /\ Len(SubSeq(f, a + 1, b)) = b - a
            /\ \A i \in 1 .. b - a : SubSeq(f, a + 1, b)[i] = f[a + i]
        BY <3>2, Part
      <3>4. QED
        BY <2>1, <3>1, <3>3
    <2>3. \A i \in 1 .. Len(r.value) : f[o + HeaderSize(r) + i] = r.value[i]
      <3> TAKE i \in 1 .. Len(r.value)
      <3>1. HeaderSize(r) + i \in 1 .. Size(r) /\ o + (HeaderSize(r) + i) = o + HeaderSize(r) + i
        BY <1>1
      <3>2. f[o + (HeaderSize(r) + i)] = Serialize(r)[HeaderSize(r) + i]
        BY <3>1 DEF LikeRecord
      <3>3. QED
        BY <3>1, <3>2, SerializeParts
    <2> HIDE DEF value
    <2>4. QED
      BY <1>1, <2>2, <2>3, SameElements
  <1> HIDE DEF h
  <1>7. ReadValueAt(f, o, r.key) = {value}
    BY <1>3, <1>4, <1>5 DEF ReadValueAt
  <1>8. QED
    BY <1>6, <1>7

\* It returns nothing of a record that the end of the file cuts.
LEMMA ValueCut ==
  ASSUME NEW f \in Seq(Bytes), NEW o \in Nat, NEW r \in Records, NEW n \in Nat,
         Len(f) = o + n, n < Size(r), LikeRecord(f, o, r, n)
  PROVE  ReadValueAt(f, o, r.key) = {}
  <1>1. /\ HeaderSize(r) \in Nat /\ Len(r.value) \in Nat /\ Size(r) = HeaderSize(r) + Len(r.value)
    BY RecordType
  <1>2. CASE n < HeaderSize(r)
    BY <1>2, HeaderCut DEF ReadValueAt
  <1>3. CASE HeaderSize(r) <= n
    <2>1. LikeRecord(f, o, r, HeaderSize(r)) /\ o + HeaderSize(r) <= Len(f)
      BY <1>1, <1>3 DEF LikeRecord
    <2>2. Header(f, o) = {[key |-> r.key, valueAt |-> o + HeaderSize(r), length |-> Len(r.value)]}
      BY <2>1, HeaderRead
    <2>3. ~ (o + HeaderSize(r) + Len(r.value) <= Len(f))
      BY <1>1
    <2>4. QED
      BY <2>2, <2>3 DEF ReadValueAt
  <1>4. QED
    BY <1>1, <1>2, <1>3

\* Nor of a record that begins behind the end of the file.
LEMMA NothingBehindEnd ==
  ASSUME NEW f \in Seq(Bytes), NEW o \in Nat, Len(f) <= o
  PROVE  Header(f, o) = {} /\ \A k : ReadValueAt(f, o, k) = {}
  <1>1. ~ HasLen(f, o)
    BY WidthAssumption DEF HasLen
  <1>2. Header(f, o) = {}
    BY <1>1 DEF Header
  <1>3. QED
    BY <1>2 DEF ReadValueAt

--------------------------------------------------------------------------------
(***************************************************************************)
(* The loop of recoverState.                                               *)
(***************************************************************************)
NextAt(h) == h.valueAt + h.length

\* What the loop reads at an offset, and that it goes on.
LEMMA HeaderType ==
  ASSUME NEW f \in Seq(Bytes), NEW o \in Nat, NEW h \in Header(f, o)
  PROVE  /\ Header(f, o) = {h} /\ HasLen(f, o) /\ LenAt(f, o) \in Nat
         /\ h.valueAt = o + LenBytes + LenAt(f, o) + LenBytes /\ h.valueAt <= Len(f)
         /\ h.key = SubSeq(f, o + LenBytes + 1, o + LenBytes + LenAt(f, o))
         /\ h.length \in Nat /\ NextAt(h) \in Nat /\ NextAt(h) > o /\ NextAt(h) >= h.valueAt
         /\ h.length = LenAt(f, o + LenBytes + LenAt(f, o))
         /\ HasLen(f, o + LenBytes + LenAt(f, o))
  <1> DEFINE lenAt == o + LenBytes + LenAt(f, o)
  <1>1. /\ HasLen(f, o) /\ HasLen(f, lenAt)
        /\ Header(f, o) = {[key |-> SubSeq(f, o + LenBytes + 1, lenAt), valueAt |-> lenAt + LenBytes,
                            length |-> LenAt(f, lenAt)]}
    BY DEF Header
  <1>2. h = [key |-> SubSeq(f, o + LenBytes + 1, lenAt), valueAt |-> lenAt + LenBytes,
             length |-> LenAt(f, lenAt)]
    BY <1>1
  <1>3. LenBytes \in Nat \ {0}
    BY WidthAssumption
  <1>4. LenAt(f, o) \in Nat
    BY <1>1, LenAtType
  <1>5. lenAt \in Nat /\ lenAt >= o
    <2> DEFINE n == LenAt(f, o)
    <2>1. n \in Nat
      BY <1>4
    <2> HIDE DEF n
    <2>2. o + LenBytes + n \in Nat /\ o + LenBytes + n >= o
      BY <1>3, <2>1
    <2>3. QED
      BY <2>2 DEF n
  <1>6. LenAt(f, lenAt) \in Nat
    <2> HIDE DEF lenAt
    <2>1. QED
      BY <1>1, <1>5, LenAtType
  <1>7. h.key = SubSeq(f, o + LenBytes + 1, lenAt) /\ h.valueAt = lenAt + LenBytes
        /\ h.length = LenAt(f, lenAt)
    BY <1>2
  <1>8. h.valueAt <= Len(f)
    BY <1>1, <1>7 DEF HasLen
  <1>9. NextAt(h) \in Nat /\ NextAt(h) > o /\ NextAt(h) >= h.valueAt
    <2> DEFINE n == LenAt(f, lenAt)
               va == h.valueAt
    <2>1. n \in Nat /\ h.length = n /\ va = lenAt + LenBytes
      BY <1>6, <1>7
    <2> HIDE DEF n, lenAt
    <2>2. va \in Nat /\ va > o
      BY <1>3, <1>5, <2>1
    <2> HIDE DEF va
    <2>3. va + n \in Nat /\ va + n > o /\ va + n >= va
      BY <2>1, <2>2
    <2>4. NextAt(h) = va + n
      BY <2>1 DEF NextAt, va
    <2>5. QED
      BY <2>3, <2>4 DEF va
  <1>10. QED
    BY <1>1, <1>2, <1>4, <1>6, <1>7, <1>8, <1>9

ParseLoop(g, f) ==
  g = [o \in Nat |->
         UNION {{[key |-> h.key, offset |-> o]} \cup g[h.valueAt + h.length] : h \in Header(f, o)}]

\* The offsets the loop comes to from o.
Closed(f, S) == \A y \in S : \A h \in Header(f, y) : NextAt(h) \in S
Reached(f, o) == {x \in Nat : \A S \in SUBSET Nat : o \in S /\ Closed(f, S) => x \in S}

\* They are o and those the loop comes to from the next record.
LEMMA ReachedNext ==
  ASSUME NEW f \in Seq(Bytes), NEW o \in Nat
  PROVE  /\ o \in Reached(f, o) /\ Closed(f, Reached(f, o))
         /\ \A h \in Header(f, o) : Reached(f, o) = {o} \cup Reached(f, NextAt(h))
         /\ Header(f, o) = {} => Reached(f, o) = {o}
  <1>1. \A p \in Nat : p \in Reached(f, p)
    BY DEF Reached
  <1>2. \A p \in Nat : Closed(f, Reached(f, p))
    <2> SUFFICES ASSUME NEW p \in Nat, NEW y \in Reached(f, p), NEW h \in Header(f, y)
                 PROVE  NextAt(h) \in Reached(f, p)
      BY DEF Closed
    <2>1. y \in Nat
      BY DEF Reached
    <2>2. NextAt(h) \in Nat
      BY <2>1, HeaderType
    <2>3. ASSUME NEW S \in SUBSET Nat, p \in S, Closed(f, S) PROVE NextAt(h) \in S
      <3>1. y \in S
        BY <2>3 DEF Reached
      <3>2. QED
        BY <2>3, <3>1 DEF Closed
    <2>4. QED
      BY <2>2, <2>3 DEF Reached
  <1>3. ASSUME NEW h \in Header(f, o) PROVE Reached(f, o) = {o} \cup Reached(f, NextAt(h))
    <2> DEFINE n == NextAt(h)
               S == {o} \cup Reached(f, n)
    <2>1. n \in Nat /\ Header(f, o) = {h}
      BY HeaderType
    <2>2. S \in SUBSET Nat
      BY DEF Reached
    <2>3. Closed(f, S)
      <3> SUFFICES ASSUME NEW y \in S, NEW x \in Header(f, y) PROVE NextAt(x) \in S
        BY DEF Closed
      <3>1. CASE y = o
        <4>1. x = h
          BY <2>1, <3>1
        <4>2. QED
          BY <1>1, <2>1, <4>1
      <3>2. CASE y \in Reached(f, n)
        BY <1>2, <2>1, <3>2 DEF Closed
      <3>3. QED
        BY <3>1, <3>2
    <2>4. ASSUME NEW x \in Reached(f, o) PROVE x \in S
      <3> HIDE DEF S
      <3>1. o \in S
        BY DEF S
      <3>2. QED
        BY <2>2, <2>3, <3>1 DEF Reached
    <2>5. ASSUME NEW x \in Reached(f, n) PROVE x \in Reached(f, o)
      <3>1. Reached(f, o) \in SUBSET Nat
        BY DEF Reached
      <3>2. n \in Reached(f, o)
        BY <1>1, <1>2 DEF Closed
      <3> DEFINE T == Reached(f, o)
      <3>3. T \in SUBSET Nat /\ n \in T /\ Closed(f, T)
        BY <1>2, <3>1, <3>2
      <3> HIDE DEF T
      <3>4. x \in T
        BY <3>3 DEF Reached
      <3>5. QED
        BY <3>4 DEF T
    <2>6. QED
      BY <1>1, <2>4, <2>5
  <1>4. ASSUME Header(f, o) = {} PROVE Reached(f, o) = {o}
    <2>1. {o} \in SUBSET Nat /\ Closed(f, {o})
      BY <1>4 DEF Closed
    <2>2. \A x \in Reached(f, o) : x \in {o}
      BY <2>1 DEF Reached
    <2>3. QED
      BY <1>1, <2>2
  <1>5. QED
    BY <1>1, <1>2, <1>3, <1>4

\* The loop ends: there is what it finds from every offset.
LEMMA ParseRuns ==
  ASSUME NEW f \in Seq(Bytes)
  PROVE  \E g : ParseLoop(g, f) /\ Parsed(f) = g[0]
  <1> DEFINE Entries(x) == {[key |-> h.key, offset |-> x] : h \in Header(f, x)}
             g == [o \in Nat |-> UNION {Entries(x) : x \in Reached(f, o)}]
             loop == CHOOSE p : ParseLoop(p, f)
  <1>1. ASSUME NEW o \in Nat
        PROVE  g[o] = UNION {{[key |-> h.key, offset |-> o]} \cup g[h.valueAt + h.length] :
                               h \in Header(f, o)}
    <2>1. CASE Header(f, o) = {}
      <3>1. Reached(f, o) = {o} /\ Entries(o) = {}
        BY <2>1, ReachedNext
      <3>2. g[o] = {}
        BY <3>1
      <3>3. QED
        BY <2>1, <3>2
    <2>2. ASSUME NEW h \in Header(f, o)
          PROVE  g[o] = UNION {{[key |-> x.key, offset |-> o]} \cup g[x.valueAt + x.length] :
                                 x \in Header(f, o)}
      <3> DEFINE n == h.valueAt + h.length
      <3>1. Header(f, o) = {h} /\ n \in Nat /\ n = NextAt(h)
        BY HeaderType DEF NextAt
      <3>2. Reached(f, o) = {o} \cup Reached(f, n)
        BY <3>1, ReachedNext
      <3>3. Entries(o) = {[key |-> h.key, offset |-> o]}
        BY <3>1
      <3> HIDE DEF n
      <3>4. g[o] = UNION {Entries(x) : x \in Reached(f, o)} /\ g[n] = UNION {Entries(x) : x \in Reached(f, n)}
        BY <3>1
      <3> HIDE DEF Entries, g
      <3>5. g[o] = Entries(o) \cup g[n]
        BY <3>2, <3>4
      <3>6. UNION {{[key |-> x.key, offset |-> o]} \cup g[x.valueAt + x.length] : x \in Header(f, o)}
            = {[key |-> h.key, offset |-> o]} \cup g[n]
        BY <3>1 DEF n
      <3>7. QED
        BY <3>3, <3>5, <3>6
    <2>3. QED
      BY <2>1, <2>2
  <1>2. ParseLoop(g, f)
    <2>1. g = [o \in Nat |-> g[o]]
      OBVIOUS
    <2> HIDE DEF g
    <2>2. QED
      BY <1>1, <2>1 DEF ParseLoop
  <1>3. ParseLoop(loop, f)
    <2> HIDE DEF g
    <2>1. QED
      BY <1>2
  <1>4. Parsed(f) = loop[0]
    BY DEF Parsed, ParseLoop
  <1>5. QED
    BY <1>3, <1>4

\* One turn of the loop.
LEMMA ParseTurn ==
  ASSUME NEW f \in Seq(Bytes), NEW g, ParseLoop(g, f), NEW o \in Nat
  PROVE  /\ Header(f, o) = {} => g[o] = {}
         /\ \A h \in Header(f, o) : g[o] = {[key |-> h.key, offset |-> o]} \cup g[NextAt(h)]
  <1>1. g[o] = UNION {{[key |-> h.key, offset |-> o]} \cup g[h.valueAt + h.length] : h \in Header(f, o)}
    BY DEF ParseLoop
  <1>2. ASSUME NEW h \in Header(f, o) PROVE g[o] = {[key |-> h.key, offset |-> o]} \cup g[NextAt(h)]
    <2>1. Header(f, o) = {h}
      BY HeaderType
    <2>2. QED
      BY <1>1, <2>1 DEF NextAt
  <1>3. QED
    BY <1>1, <1>2

\* Where a file has only zeros, the loop finds keys of zeros at most.
LEMMA ZerosParsed ==
  ASSUME NEW f \in Seq(Bytes), NEW g, ParseLoop(g, f), NEW p \in Nat,
         \A i \in p + 1 .. Len(f) : f[i] = 0,
         NEW o \in Nat, p <= o, NEW e \in g[o]
  PROVE  \A i \in 1 .. Len(e.key) : e.key[i] = 0
  <1> DEFINE Zeros(q) == \A x \in g[q] : \A i \in 1 .. Len(x.key) : x.key[i] = 0
             bad == {d \in Nat : \E q \in Nat : p <= q /\ ~ Zeros(q) /\ d = Len(f) - q}
             late == {q \in Nat : p <= q /\ ~ Zeros(q)}
  <1>1. Len(f) \in Nat /\ LenBytes \in Nat \ {0}
    BY WidthAssumption
  <1>2. \A q \in late : q < Len(f)
    <2> SUFFICES ASSUME NEW q \in late, Len(f) <= q PROVE FALSE
      BY <1>1
    <2>1. g[q] = {}
      BY NothingBehindEnd, ParseTurn
    <2>2. QED
      BY <2>1
  <1>3. ASSUME late # {} PROVE FALSE
    <2>1. bad # {} /\ bad \subseteq Nat
      <3>1. PICK q \in late : TRUE
        BY <1>3
      <3>2. Len(f) - q \in Nat
        BY <1>1, <1>2
      <3>3. QED
        BY <3>1, <3>2
    <2>2. PICK d \in bad : \A x \in bad : d <= x
      <3> HIDE DEF bad
      <3>1. QED
        BY <2>1, LeastExists
    <2>3. PICK q \in Nat : p <= q /\ ~ Zeros(q) /\ d = Len(f) - q
      BY <2>2
    <2>4. PICK x \in g[q] : ~ \A i \in 1 .. Len(x.key) : x.key[i] = 0
      BY <2>3
    <2>5. PICK h \in Header(f, q) : TRUE
      <3>1. Header(f, q) = {} => g[q] = {}
        BY ParseTurn
      <3>2. QED
        BY <2>4, <3>1
    <2>6. g[q] = {[key |-> h.key, offset |-> q]} \cup g[NextAt(h)]
      BY ParseTurn
    <2>7. CASE x = [key |-> h.key, offset |-> q]
      <3> DEFINE a == q + LenBytes
                 b == a + LenAt(f, q)
      <3>1. h.key = SubSeq(f, a + 1, b) /\ x.key = h.key /\ h.valueAt = b + LenBytes /\ h.valueAt <= Len(f)
            /\ LenAt(f, q) \in Nat
        BY <2>7, HeaderType
      <3>2. a \in Nat /\ a >= p
        BY <1>1, <2>3
      <3>3. b \in Nat /\ a <= b /\ b <= Len(f)
        <4> DEFINE n == LenAt(f, q)
        <4>1. n \in Nat /\ b = a + n
          BY <3>1
        <4> HIDE DEF n, a
        <4>2. b \in Nat /\ a <= b
          BY <3>2, <4>1
        <4> HIDE DEF b
        <4>3. QED
          BY <1>1, <3>1, <4>2
      <3> HIDE DEF a, b
      <3>4. Len(x.key) = b - a /\ \A i \in 1 .. b - a : x.key[i] = f[a + i]
        BY <3>1, <3>2, <3>3, Part
      <3>5. \A i \in 1 .. b - a : a + i \in p + 1 .. Len(f)
        BY <1>1, <3>2, <3>3
      <3>6. QED
        BY <2>4, <3>4, <3>5
    <2>8. CASE x \in g[NextAt(h)]
      <3> DEFINE n == NextAt(h)
      <3>1. n \in Nat /\ n > q
        BY HeaderType
      <3>2. ~ Zeros(n)
        BY <2>4, <2>8
      <3> HIDE DEF n
      <3>3. n \in late
        BY <2>3, <3>1, <3>2
      <3>4. Len(f) - n \in Nat
        <4>1. n < Len(f)
          BY <1>2, <3>3
        <4>2. QED
          BY <1>1, <3>1, <4>1
      <3>5. Len(f) - n \in bad
        BY <3>3, <3>4
      <3>6. d <= Len(f) - n
        BY <2>2, <3>5
      <3>7. QED
        BY <1>1, <2>3, <3>1, <3>6
    <2>9. QED
      BY <2>4, <2>6, <2>7, <2>8
  <1>4. QED
    BY <1>3

--------------------------------------------------------------------------------
(***************************************************************************)
(* Where the records of a file are.                                        *)
(***************************************************************************)
StartLoop(g, d) ==
  g = [n \in 1 .. Len(d) + 1 |-> IF n = 1 THEN 0 ELSE g[n - 1] + Len(Serialize(d[n - 1]))]

\* A record begins where the one before ends.
LEMMA Starts ==
  ASSUME NEW d \in Seq(Records)
  PROVE  /\ StartOf(d, 1) = 0
         /\ \A i \in 1 .. Len(d) : StartOf(d, i + 1) = StartOf(d, i) + Size(d[i])
         /\ \A i \in 1 .. Len(d) + 1 : StartOf(d, i) \in Nat
  <1> DEFINE N == Len(d) + 1
             step == [x \in (2 .. N) \X Nat |-> x[2] + Size(d[x[1] - 1])]
             loop == CHOOSE g : StartLoop(g, d)
  <1>1. N \in Nat /\ 1 <= N /\ N = Len(d) + 1 /\ Len(d) \in Nat
    OBVIOUS
  <1>2. \A i \in 1 .. Len(d) : d[i] \in Records
    OBVIOUS
  <1> HIDE DEF N
  <1>3. \A i \in 1 .. Len(d) : Size(d[i]) \in Nat /\ Len(Serialize(d[i])) = Size(d[i])
    BY <1>2, RecordType, SerializeParts
  <1>4. step \in [(1 + 1 .. N) \X Nat -> Nat]
    <2>1. ASSUME NEW i \in 2 .. N, NEW y \in Nat PROVE y + Size(d[i - 1]) \in Nat
      <3>1. i - 1 \in 1 .. Len(d)
        BY <1>1
      <3>2. QED
        BY <1>3, <3>1
    <2>2. \A x \in (2 .. N) \X Nat : x[1] \in 2 .. N /\ x[2] \in Nat
      OBVIOUS
    <2>3. \A x \in (2 .. N) \X Nat : x[2] + Size(d[x[1] - 1]) \in Nat
      BY <2>1, <2>2
    <2>4. 1 + 1 = 2
      OBVIOUS
    <2>5. QED
      BY <2>3, <2>4
  <1>5. PICK g : Runs(g, Nat, 0, step, 1, N)
    <2> HIDE DEF step
    <2>1. QED
      BY <1>1, <1>4, LoopRuns
  <1>6. g \in [1 .. N -> Nat] /\ g[1] = 0
    BY <1>5 DEF Runs
  <1>7. ASSUME NEW i \in 2 .. N PROVE g[i] = g[i - 1] + Len(Serialize(d[i - 1]))
    <2>1. i - 1 \in 1 .. N /\ i - 1 \in 1 .. Len(d) /\ i \in 1 + 1 .. N
      BY <1>1
    <2>2. <<i, g[i - 1]>> \in (2 .. N) \X Nat
      BY <1>6, <2>1
    <2>3. g[i] = g[i - 1] + Size(d[i - 1])
      BY <1>5, <2>1, <2>2 DEF Runs
    <2>4. QED
      BY <1>3, <2>1, <2>3
  <1> HIDE DEF step
  <1>8. StartLoop(g, d)
    BY <1>1, <1>6, <1>7 DEF StartLoop
  <1>9. StartLoop(loop, d)
    BY <1>8
  <1>10. \A i : StartOf(d, i) = loop[i]
    BY DEF StartOf, StartLoop
  <1> HIDE DEF loop
  <1>11. /\ loop[1] = 0
         /\ \A i \in 2 .. N : loop[i] = loop[i - 1] + Len(Serialize(d[i - 1]))
    BY <1>1, <1>9 DEF StartLoop
  <1>12. ASSUME NEW i \in 1 .. Len(d) PROVE loop[i + 1] = loop[i] + Size(d[i])
    <2>1. i + 1 \in 2 .. N /\ (i + 1) - 1 = i
      BY <1>1
    <2>2. loop[i + 1] = loop[i] + Len(Serialize(d[i]))
      BY <1>11, <2>1
    <2>3. QED
      BY <1>3, <2>2
  <1>13. \A i \in 1 .. N : loop[i] \in Nat
    <2> DEFINE bad == {i \in 1 .. N : loop[i] \notin Nat}
    <2> SUFFICES ASSUME bad # {} PROVE FALSE
      OBVIOUS
    <2>1. PICK m \in bad : \A k \in bad : m <= k
      <3>1. bad \subseteq Nat
        OBVIOUS
      <3> HIDE DEF bad
      <3>2. QED
        BY <3>1, LeastExists
    <2>2. m # 1
      BY <1>11
    <2>3. m - 1 \in 1 .. Len(d) /\ m - 1 \in 1 .. N /\ m - 1 \notin bad /\ (m - 1) + 1 = m
      BY <1>1, <2>1, <2>2
    <2>4. loop[m - 1] \in Nat /\ loop[m] = loop[m - 1] + Size(d[m - 1]) /\ Size(d[m - 1]) \in Nat
      BY <1>3, <1>12, <2>3
    <2>5. loop[m] \in Nat
      BY <2>4
    <2>6. QED
      BY <2>5
  <1>14. QED
    BY <1>10, <1>11, <1>12, <1>13 DEF N

\* Later records begin later.
LEMMA StartsGrow ==
  ASSUME NEW d \in Seq(Records), NEW i \in 1 .. Len(d) + 1, NEW j \in 1 .. Len(d) + 1, i < j
  PROVE  StartOf(d, i) < StartOf(d, j)
  <1> DEFINE bad == {n \in 1 .. Len(d) + 1 : i < n /\ ~ (StartOf(d, i) < StartOf(d, n))}
  <1> SUFFICES ASSUME bad # {} PROVE FALSE
    OBVIOUS
  <1>1. PICK m \in bad : \A k \in bad : m <= k
    <2>1. bad \subseteq Nat
      OBVIOUS
    <2> HIDE DEF bad
    <2>2. QED
      BY <2>1, LeastExists
  <1>2. m - 1 \in 1 .. Len(d) /\ (m - 1) + 1 = m /\ m - 1 \in 1 .. Len(d) + 1 /\ m - 1 \notin bad
        /\ i <= m - 1
    BY <1>1
  <1>3. d[m - 1] \in Records
    BY <1>2
  <1>4. Size(d[m - 1]) \in Nat /\ Size(d[m - 1]) > 0
    <2>1. d[m - 1].key \in Seq(Bytes) /\ d[m - 1].value \in Seq(Bytes)
      BY <1>3, RecordType
    <2> DEFINE a == Len(d[m - 1].key)
               b == Len(d[m - 1].value)
    <2>2. a \in Nat /\ b \in Nat
      BY <2>1
    <2>3. Size(d[m - 1]) = 2 * LenBytes + a + b
      BY DEF Size
    <2> HIDE DEF a, b
    <2>4. QED
      BY <2>2, <2>3, WidthAssumption
  <1>5. StartOf(d, m) = StartOf(d, m - 1) + Size(d[m - 1]) /\ StartOf(d, m - 1) \in Nat
        /\ StartOf(d, i) \in Nat
    BY <1>2, Starts
  <1>6. StartOf(d, i) = StartOf(d, m - 1) \/ StartOf(d, i) < StartOf(d, m - 1)
    <2>1. CASE i = m - 1
      BY <2>1
    <2>2. CASE i < m - 1
      BY <1>2, <2>2
    <2>3. QED
      BY <1>2, <2>1, <2>2
  <1>7. StartOf(d, i) < StartOf(d, m)
    BY <1>4, <1>5, <1>6
  <1>8. QED
    BY <1>7

\* The records of a memtable end below the offset of a failed stream.
LEMMA StartsFit ==
  ASSUME NEW d \in Seq(Records), Len(d) <= MaxRecords, NEW i \in 1 .. Len(d) + 1
  PROVE  StartOf(d, i) <= NoOffset
  <1> DEFINE w == 2 * LenBytes + 2 * Power[LenBytes]
             bad == {n \in 1 .. Len(d) + 1 : ~ (StartOf(d, n) <= (n - 1) * w)}
  <1>1. LenBytes \in 0 .. 2 * LenBytes /\ LenBytes \in Nat
    BY WidthAssumption
  <1>2. Power[LenBytes] \in Nat
    BY <1>1, PowerIs
  <1>3. w \in Nat /\ MaxRecords \in Nat /\ MaxRecords * w <= NoOffset /\ NoOffset \in Nat
    <2>1. w \in Nat
      BY <1>1, <1>2
    <2>2. QED
      BY <2>1, FileBoundAssumption, NoOffsetType
  <1>4. \A n \in 1 .. Len(d) : d[n] \in Records /\ Size(d[n]) \in Nat /\ Size(d[n]) <= w
    <2> TAKE n \in 1 .. Len(d)
    <2>1. d[n] \in Records
      OBVIOUS
    <2> DEFINE a == Len(d[n].key)
               b == Len(d[n].value)
    <2>2. a \in Nat /\ b \in Nat /\ a < Power[LenBytes] /\ b < Power[LenBytes] /\ Size(d[n]) \in Nat
      BY <2>1, RecordType
    <2>3. Size(d[n]) = 2 * LenBytes + a + b
      BY DEF Size
    <2> HIDE DEF a, b
    <2>4. QED
      BY <1>1, <1>2, <2>1, <2>2, <2>3
  <1> HIDE DEF w
  <1>5. bad = {}
    <2> SUFFICES ASSUME bad # {} PROVE FALSE
      OBVIOUS
    <2>1. PICK m \in bad : \A k \in bad : m <= k
      <3>1. bad \subseteq Nat
        OBVIOUS
      <3> HIDE DEF bad
      <3>2. QED
        BY <3>1, LeastExists
    <2>2. m # 1
      <3>1. StartOf(d, 1) = 0 /\ (1 - 1) * w = 0
        BY <1>3, Starts
      <3>2. QED
        BY <3>1
    <2> DEFINE n == m - 1
    <2>3. n \in 1 .. Len(d) /\ n + 1 = m /\ n \in 1 .. Len(d) + 1 /\ n \notin bad
      BY <2>1, <2>2
    <2> HIDE DEF n
    <2>4. StartOf(d, n) <= (n - 1) * w /\ StartOf(d, n) \in Nat
      BY <2>3, Starts
    <2>5. StartOf(d, m) = StartOf(d, n) + Size(d[n]) /\ Size(d[n]) \in Nat /\ Size(d[n]) <= w
      BY <1>4, <2>3, Starts
    <2>6. (n - 1) * w \in Nat /\ (m - 1) * w = (n - 1) * w + w
      <3>1. \A x \in Nat : x * w \in Nat /\ (x + 1) * w = x * w + w
        BY <1>3
      <3>2. n - 1 \in Nat /\ m - 1 = (n - 1) + 1
        BY <2>3
      <3>3. QED
        BY <3>1, <3>2
    <2>7. StartOf(d, m) <= (m - 1) * w
      BY <1>3, <2>4, <2>5, <2>6
    <2>8. QED
      BY <2>7
  <1>6. StartOf(d, i) <= (i - 1) * w
    BY <1>5
  <1>7. (i - 1) * w <= MaxRecords * w
    <2>1. \A x, y \in Nat : x <= y => x * w <= y * w
      BY <1>3
    <2>2. i - 1 \in Nat /\ i - 1 <= MaxRecords
      BY <1>3
    <2>3. QED
      BY <1>3, <2>1, <2>2
  <1>8. QED
    <2>1. (i - 1) * w \in Nat /\ MaxRecords * w \in Nat /\ StartOf(d, i) \in Nat
      <3>1. \A x \in Nat : x * w \in Nat
        BY <1>3
      <3>2. i - 1 \in Nat
        OBVIOUS
      <3>3. QED
        BY <1>3, <3>1, <3>2, Starts
    <2>2. QED
      BY <1>3, <1>6, <1>7, <2>1

\* The entry of the i-th record.
EntryOf(d, i) == [key |-> d[i].key, offset |-> StartOf(d, i)]

\* The loop finds the records that are there, and goes on behind them.
LEMMA RecordsParsed ==
  ASSUME NEW f \in Seq(Bytes), NEW g, ParseLoop(g, f), NEW d \in Seq(Records), NEW m \in 0 .. Len(d),
         StartOf(d, m + 1) <= Len(f),
         \A i \in 1 .. m : LikeRecord(f, StartOf(d, i), d[i], Size(d[i]))
  PROVE  g[0] = {EntryOf(d, i) : i \in 1 .. m} \cup g[StartOf(d, m + 1)]
  <1> DEFINE Upto(n) == {EntryOf(d, i) : i \in 1 .. n}
             bad == {n \in 0 .. m : g[0] # Upto(n) \cup g[StartOf(d, n + 1)]}
  <1> SUFFICES ASSUME bad # {} PROVE FALSE
    OBVIOUS
  <1>1. PICK n \in bad : \A k \in bad : n <= k
    <2>1. bad \subseteq Nat
      OBVIOUS
    <2> HIDE DEF bad
    <2>2. QED
      BY <2>1, LeastExists
  <1>2. n # 0
    <2>1. Upto(0) = {} /\ StartOf(d, 0 + 1) = 0
      BY Starts
    <2>2. QED
      BY <2>1
  <1>3. n - 1 \in 0 .. m /\ n - 1 \notin bad /\ n \in 1 .. m /\ (n - 1) + 1 = n /\ n \in 1 .. Len(d)
        /\ n + 1 \in 1 .. Len(d) + 1 /\ m + 1 \in 1 .. Len(d) + 1 /\ Len(d) \in Nat /\ n <= m
    <2>1. n \in 0 .. m /\ Len(d) \in Nat /\ m \in 0 .. Len(d)
      BY <1>1
    <2>2. n - 1 \notin bad
      <3> HIDE DEF bad
      <3>1. QED
        BY <1>1, <2>1
    <2> HIDE DEF bad
    <2>3. QED
      BY <1>2, <2>1, <2>2
  <1>4. g[0] = Upto(n - 1) \cup g[StartOf(d, n)]
    BY <1>3
  <1> DEFINE o == StartOf(d, n)
             h == [key |-> d[n].key, valueAt |-> o + HeaderSize(d[n]), length |-> Len(d[n].value)]
  <1>5. d[n] \in Records /\ o \in Nat
    BY <1>3, Starts
  <1>6. /\ HeaderSize(d[n]) \in Nat /\ Len(d[n].value) \in Nat
        /\ Size(d[n]) = HeaderSize(d[n]) + Len(d[n].value)
    BY <1>5, RecordType
  <1>7. StartOf(d, n + 1) = o + Size(d[n]) /\ StartOf(d, n + 1) \in Nat
    BY <1>3, Starts
  <1>8. StartOf(d, n + 1) <= Len(f)
    <2>1. CASE n = m
      BY <2>1
    <2>2. CASE n < m
      <3>1. StartOf(d, n + 1) < StartOf(d, m + 1)
        BY <1>3, <2>2, StartsGrow
      <3>2. StartOf(d, m + 1) \in Nat
        BY <1>3, Starts
      <3>3. QED
        BY <1>7, <3>1, <3>2
    <2>3. QED
      BY <1>3, <2>1, <2>2
  <1> HIDE DEF o
  <1>9. o + HeaderSize(d[n]) <= Len(f) /\ LikeRecord(f, o, d[n], HeaderSize(d[n]))
    <2>1. LikeRecord(f, o, d[n], Size(d[n]))
      BY <1>3 DEF o
    <2>2. LikeRecord(f, o, d[n], HeaderSize(d[n]))
      BY <1>6, <2>1 DEF LikeRecord
    <2>3. Size(d[n]) \in Nat /\ HeaderSize(d[n]) <= Size(d[n])
      BY <1>6
    <2>4. o + HeaderSize(d[n]) <= Len(f)
      BY <1>5, <1>6, <1>7, <1>8, <2>3
    <2>5. QED
      BY <2>2, <2>4
  <1>10. Header(f, o) = {h}
    BY <1>5, <1>9, HeaderRead
  <1>11. g[o] = {[key |-> h.key, offset |-> o]} \cup g[NextAt(h)]
    BY <1>5, <1>10, ParseTurn
  <1>12. NextAt(h) = StartOf(d, n + 1) /\ [key |-> h.key, offset |-> o] = EntryOf(d, n)
    <2>1. h.valueAt = o + HeaderSize(d[n]) /\ h.length = Len(d[n].value) /\ h.key = d[n].key
      OBVIOUS
    <2> HIDE DEF h
    <2>2. QED
      BY <1>5, <1>6, <1>7, <2>1 DEF NextAt, EntryOf, o
  <1>13. Upto(n) = Upto(n - 1) \cup {EntryOf(d, n)}
    <2>1. 1 .. n = (1 .. n - 1) \cup {n}
      BY <1>3
    <2>2. QED
      BY <2>1
  <1>14. g[0] = Upto(n) \cup g[StartOf(d, n + 1)]
    <2> HIDE DEF Upto, h
    <2>1. QED
      BY <1>4, <1>11, <1>12, <1>13 DEF o
  <1>15. QED
    BY <1>14

\* A record that the end of the file cuts is found if its lengths and key are there.
LEMMA CutRecordParsed ==
  ASSUME NEW f \in Seq(Bytes), NEW g, ParseLoop(g, f), NEW o \in Nat, NEW r \in Records, NEW n \in Nat,
         Len(f) = o + n, n < Size(r), LikeRecord(f, o, r, n)
  PROVE  g[o] = IF HeaderSize(r) <= n THEN {[key |-> r.key, offset |-> o]} ELSE {}
  <1>1. /\ HeaderSize(r) \in Nat /\ Len(r.value) \in Nat /\ Size(r) = HeaderSize(r) + Len(r.value)
        /\ Size(r) \in Nat
    BY RecordType
  <1>2. CASE n < HeaderSize(r)
    <2>1. Header(f, o) = {}
      BY <1>2, HeaderCut
    <2>2. g[o] = {}
      BY <2>1, ParseTurn
    <2>3. QED
      BY <1>1, <1>2, <2>2
  <1>3. CASE HeaderSize(r) <= n
    <2> DEFINE h == [key |-> r.key, valueAt |-> o + HeaderSize(r), length |-> Len(r.value)]
    <2>1. LikeRecord(f, o, r, HeaderSize(r)) /\ o + HeaderSize(r) <= Len(f)
      BY <1>1, <1>3 DEF LikeRecord
    <2>2. Header(f, o) = {h}
      BY <2>1, HeaderRead
    <2>3. h.key = r.key /\ NextAt(h) = o + HeaderSize(r) + Len(r.value)
      BY DEF NextAt
    <2> HIDE DEF h
    <2>4. g[o] = {[key |-> h.key, offset |-> o]} \cup g[NextAt(h)]
      BY <2>2, ParseTurn
    <2>5. NextAt(h) \in Nat /\ Len(f) <= NextAt(h)
      BY <1>1, <2>3
    <2>6. g[NextAt(h)] = {}
      BY <2>5, NothingBehindEnd, ParseTurn
    <2>7. QED
      BY <1>3, <2>3, <2>4, <2>6
  <1>4. QED
    BY <1>1, <1>2, <1>3

\* Keys are not empty and have no zero byte, which would look like a file's padding.
PlainRecordKeys == \A k \in RecordKeys : k # <<>> /\ \A i \in 1 .. Len(k) : k[i] # 0

\* In the zeros behind the last byte that was written no key is found.
LEMMA NoKeyInZeros ==
  ASSUME PlainRecordKeys, NEW f \in Seq(Bytes), NEW g, ParseLoop(g, f), NEW p \in Nat,
         \A i \in p + 1 .. Len(f) : f[i] = 0,
         NEW o \in Nat, p <= o, NEW e \in g[o]
  PROVE  e.key \notin RecordKeys
  <1> SUFFICES ASSUME e.key \in RecordKeys PROVE FALSE
    OBVIOUS
  <1>1. \A i \in 1 .. Len(e.key) : e.key[i] = 0
    BY ZerosParsed
  <1>2. e.key # <<>> /\ \A i \in 1 .. Len(e.key) : e.key[i] # 0
    BY DEF PlainRecordKeys
  <1>3. e.key \in Seq(Bytes)
    BY LengthAssumption
  <1>4. Len(e.key) \in Nat /\ Len(e.key) # 0
    <2> DEFINE k == e.key
    <2>1. k \in Seq(Bytes) /\ k # <<>>
      BY <1>2, <1>3
    <2> HIDE DEF k
    <2>2. Len(k) \in Nat /\ Len(k) # 0
      BY <2>1, EmptySeq
    <2>3. QED
      BY <2>2 DEF k
  <1>5. 1 \in 1 .. Len(e.key)
    BY <1>4
  <1>6. QED
    BY <1>1, <1>2, <1>5

\* If zeros follow a record that is not complete, only its own key can be found.
LEMMA TornKeyOnly ==
  ASSUME PlainRecordKeys, NEW f \in Seq(Bytes), NEW g, ParseLoop(g, f), NEW o \in Nat,
         NEW r \in Records, NEW n \in Nat, n < Size(r), LikeRecord(f, o, r, n), o + n <= Len(f),
         \A i \in o + n + 1 .. Len(f) : f[i] = 0,
         NEW e \in g[o], e.key \in RecordKeys
  PROVE  n > 0 /\ e.key = r.key
  <1> DEFINE p == o + n
  <1>1. p \in Nat /\ p <= Len(f) /\ \A i \in p + 1 .. Len(f) : f[i] = 0
    OBVIOUS
  <1>2. /\ LenBytes \in Nat \ {0} /\ Len(r.key) \in Nat /\ Len(r.value) \in Nat /\ Len(f) \in Nat
        /\ HeaderSize(r) = LenBytes + Len(r.key) + LenBytes /\ Size(r) = HeaderSize(r) + Len(r.value)
        /\ HeaderSize(r) \in Nat
    BY RecordType DEF KeyEnd
  <1>3. PICK h \in Header(f, o) : TRUE
    <2>1. Header(f, o) = {} => g[o] = {}
      BY ParseTurn
    <2>2. QED
      BY <2>1
  <1> DEFINE k == LenAt(f, o)
             a == o + LenBytes
             b == a + k
  <1>4. /\ Header(f, o) = {h} /\ HasLen(f, o) /\ k \in Nat /\ h.valueAt = b + LenBytes
        /\ h.valueAt <= Len(f) /\ h.key = SubSeq(f, a + 1, b) /\ NextAt(h) \in Nat
        /\ NextAt(h) >= h.valueAt /\ h.length = LenAt(f, b) /\ h.length \in Nat /\ HasLen(f, b)
    BY HeaderType
  <1> HIDE DEF k
  <1>5. a \in Nat /\ b \in Nat /\ a <= b /\ b <= Len(f)
    BY <1>2, <1>4
  <1>6. g[o] = {[key |-> h.key, offset |-> o]} \cup g[NextAt(h)]
    BY ParseTurn
  <1>7. Len(h.key) = b - a /\ \A i \in 1 .. b - a : h.key[i] = f[a + i]
    <2> HIDE DEF a, b
    <2>1. QED
      BY <1>4, <1>5, Part
  <1>8. n > 0
    <2> SUFFICES ASSUME n = 0 PROVE FALSE
      OBVIOUS
    <2>1. p = o
      OBVIOUS
    <2> HIDE DEF p
    <2>2. (\A i \in o + 1 .. Len(f) : f[i] = 0) /\ o <= o
      BY <1>1, <2>1
    <2>3. e.key \notin RecordKeys
      BY <2>2, NoKeyInZeros
    <2>4. QED
      BY <2>3
  <1>9. n >= LenBytes => k = Len(r.key)
    <2> SUFFICES ASSUME n >= LenBytes PROVE k = Len(r.key)
      OBVIOUS
    <2>1. LikeRecord(f, o, r, LenBytes)
      BY <1>2 DEF LikeRecord
    <2>2. QED
      BY <1>4, <2>1, KeyLengthRead DEF k
  <1>10. p <= NextAt(h)
    <2>1. CASE n < LenBytes
      BY <1>2, <1>4, <1>5, <2>1
    <2>2. CASE n >= LenBytes /\ n < HeaderSize(r)
      <3> DEFINE l == Len(r.key)
      <3>3. k = l /\ l \in Nat /\ HeaderSize(r) = LenBytes + l + LenBytes
            /\ h.valueAt = o + LenBytes + k + LenBytes
        BY <1>2, <1>4, <1>9, <2>2
      <3> HIDE DEF l
      <3>1. h.valueAt = o + HeaderSize(r)
        <4>1. \A x, y, z \in Nat : x + y + z + y = x + (y + z + y)
          OBVIOUS
        <4>2. LenBytes \in Nat
          BY <1>2
        <4>3. o + LenBytes + l + LenBytes = o + (LenBytes + l + LenBytes)
          BY <3>3, <4>1, <4>2
        <4>4. QED
          BY <3>3, <4>3
      <3>2. QED
        BY <1>2, <1>4, <2>2, <3>1
    <2>3. CASE n >= LenBytes /\ n >= HeaderSize(r)
      <3>1. LikeRecord(f, o, r, HeaderSize(r)) /\ o + HeaderSize(r) <= Len(f)
        BY <1>2, <2>3 DEF LikeRecord
      <3> DEFINE x == [key |-> r.key, valueAt |-> o + HeaderSize(r), length |-> Len(r.value)]
      <3>2. Header(f, o) = {x}
        BY <3>1, HeaderRead
      <3>3. x.valueAt = o + HeaderSize(r) /\ x.length = Len(r.value)
        OBVIOUS
      <3> HIDE DEF x
      <3>4. NextAt(h) = o + HeaderSize(r) + Len(r.value)
        BY <1>4, <3>2, <3>3 DEF NextAt
      <3>5. \A x1, x2, x3, x4 \in Nat : x2 < x3 + x4 => x1 + x2 <= x1 + x3 + x4
        OBVIOUS
      <3>6. n < HeaderSize(r) + Len(r.value)
        BY <1>2
      <3>7. QED
        BY <1>2, <3>4, <3>5, <3>6
    <2>4. QED
      BY <1>2, <2>1, <2>2, <2>3
  <1>11. e.key = h.key
    <2>1. CASE e \in g[NextAt(h)]
      BY <1>1, <1>4, <1>10, <2>1, NoKeyInZeros
    <2>2. CASE e = [key |-> h.key, offset |-> o]
      BY <2>2
    <2>3. QED
      BY <1>6, <2>1, <2>2
  <1>12. h.key # <<>> /\ (\A i \in 1 .. b - a : h.key[i] # 0) /\ h.key \in Seq(Bytes)
    BY <1>7, <1>11, LengthAssumption DEF PlainRecordKeys
  <1>13. b - a \in Nat /\ b - a # 0
    <2> DEFINE s == h.key
    <2>1. s \in Seq(Bytes) /\ s # <<>>
      BY <1>12
    <2> HIDE DEF s
    <2>2. Len(s) \in Nat /\ Len(s) # 0
      BY <2>1, EmptySeq
    <2>3. QED
      BY <1>7, <2>2 DEF s
  <1>14. f[b] # 0
    <2>1. b - a \in 1 .. b - a /\ a + (b - a) = b
      BY <1>5, <1>13
    <2>2. QED
      BY <1>7, <1>12, <2>1
  <1>15. b <= p
    <2> SUFFICES ASSUME p < b PROVE FALSE
      BY <1>1, <1>5
    <2>1. b \in p + 1 .. Len(f)
      BY <1>1, <1>5
    <2>2. QED
      BY <1>1, <1>14, <2>1
  <1>16. n >= LenBytes /\ n >= LenBytes + k
    <2>1. k \in Nat /\ b = o + LenBytes + k
      BY <1>4
    <2> HIDE DEF b
    <2>2. QED
      BY <1>2, <1>15, <2>1
  <1>17. k = Len(r.key) /\ b - a = Len(r.key)
    BY <1>2, <1>9, <1>16
  <1>18. \A i \in 1 .. Len(r.key) : h.key[i] = r.key[i]
    <2> TAKE i \in 1 .. Len(r.key)
    <2>1. LenBytes + i \in 1 .. n /\ o + (LenBytes + i) = a + i
      BY <1>2, <1>16, <1>17
    <2>2. f[o + (LenBytes + i)] = Serialize(r)[LenBytes + i]
      BY <2>1 DEF LikeRecord
    <2>3. Serialize(r)[LenBytes + i] = r.key[i]
      BY SerializeParts
    <2>4. h.key[i] = f[a + i]
      BY <1>7, <1>17
    <2>5. QED
      BY <2>1, <2>2, <2>3, <2>4
  <1>19. h.key = r.key
    <2> HIDE DEF a, b
    <2>1. h.key \in Seq(Bytes) /\ r.key \in Seq(Bytes) /\ Len(h.key) = Len(r.key)
          /\ \A i \in 1 .. Len(h.key) : h.key[i] = r.key[i]
      BY <1>7, <1>12, <1>17, <1>18, RecordType
    <2>2. QED
      BY <2>1, SameElements
  <1>20. QED
    BY <1>8, <1>11, <1>19

--------------------------------------------------------------------------------
(***************************************************************************)
(* Lookups in an index.                                                    *)
(***************************************************************************)
\* What a lookup of k finds in the file f, when its index was made from the entries E.
FoundIn(f, E, k) == UNION {ReadValueAt(f, e.offset, k) : e \in {x \in Unique(E) : x.key = k}}

\* The value of the last of the first n of the records d with key k, if it is among
\* the first good.
HitIn(d, n, good, k) ==
  {d[i].value : i \in {j \in 1 .. n : /\ d[j].key = k /\ j <= good
                                      /\ \A l \in 1 .. n : l > j => d[l].key # k}}

\* The entries E have the first n of the records d with key k, at the offsets off,
\* where the first good of these records can be read.
Readable(f, E, k, d, n, good, off) ==
  /\ off \in [1 .. n -> Nat]
  /\ {e \in E : e.key = k} = {[key |-> k, offset |-> off[i]] : i \in {j \in 1 .. n : d[j].key = k}}
  /\ \A i, j \in 1 .. n : i <= j => off[i] <= off[j]
  /\ \A i \in 1 .. n : d[i].key = k =>
        ReadValueAt(f, off[i], k) = IF i <= good THEN {d[i].value} ELSE {}

\* A lookup reads at the entry of the last record of the key: if offsets do not
\* decrease, the value of a key comes from this record, or it is not found.
LEMMA LookupIsNewest ==
  ASSUME NEW f, NEW E, NEW k, NEW d, NEW n \in Nat, NEW good \in Nat, NEW off,
         Readable(f, E, k, d, n, good, off)
  PROVE  FoundIn(f, E, k) = HitIn(d, n, good, k)
  <1>0. /\ off \in [1 .. n -> Nat]
        /\ {e \in E : e.key = k} = {[key |-> k, offset |-> off[i]] : i \in {j \in 1 .. n : d[j].key = k}}
        /\ \A i, j \in 1 .. n : i <= j => off[i] <= off[j]
        /\ \A i \in 1 .. n : d[i].key = k =>
              ReadValueAt(f, off[i], k) = IF i <= good THEN {d[i].value} ELSE {}
    BY DEF Readable
  <1> DEFINE K == {j \in 1 .. n : d[j].key = k}
             Mine == {e \in E : e.key = k}
             found == {x \in Unique(E) : x.key = k}
             last == {j \in 1 .. n : /\ d[j].key = k /\ j <= good
                                     /\ \A l \in 1 .. n : l > j => d[l].key # k}
  <1>1. Mine = {[key |-> k, offset |-> off[i]] : i \in K}
    BY <1>0
  <1>2. found = {e \in Mine : \A x \in Mine : x.offset <= e.offset}
    BY DEF Unique
  <1>3. CASE K = {}
    <2>1. found = {} /\ last = {}
      BY <1>1, <1>2, <1>3
    <2> HIDE DEF found, last
    <2>2. QED
      BY <2>1 DEF FoundIn, HitIn, found, last
  <1>4. CASE K # {}
    <2> DEFINE D == {n - j : j \in K}
    <2>1. D \subseteq Nat /\ D # {}
      BY <1>4
    <2>2. PICK x \in D : \A y \in D : x <= y
      <3> HIDE DEF D
      <3>1. QED
        BY <2>1, LeastExists
    <2>3. PICK m \in K : x = n - m
      BY <2>2
    <2>4. \A j \in K : j <= m
      <3> TAKE j \in K
      <3>1. n - j \in D
        OBVIOUS
      <3>2. n - m <= n - j
        BY <2>2, <2>3, <3>1
      <3>3. QED
        BY <3>2
    <2>5. m \in 1 .. n /\ d[m].key = k
      OBVIOUS
    <2> DEFINE top == [key |-> k, offset |-> off[m]]
    <2>6. top \in Mine /\ \A e \in Mine : e.key = k /\ e.offset \in Nat /\ e.offset <= top.offset
                                          /\ e = [key |-> k, offset |-> e.offset]
      <3>1. top \in Mine
        BY <1>1
      <3>2. ASSUME NEW e \in Mine PROVE e.offset \in Nat /\ e.offset <= top.offset
                                        /\ e = [key |-> k, offset |-> e.offset]
        <4>1. PICK i \in K : e = [key |-> k, offset |-> off[i]]
          BY <1>1
        <4>2. i \in 1 .. n /\ i <= m
          BY <2>4
        <4>3. off[i] <= off[m] /\ off[i] \in Nat
          BY <1>0, <2>5, <4>2
        <4>4. QED
          BY <4>1, <4>3
      <3>3. QED
        BY <3>1, <3>2
    <2>7. found = {top}
      <3>1. top.offset \in Nat
        BY <1>0, <2>5
      <3>2. ASSUME NEW e \in found PROVE e = top
        <4>1. e \in Mine /\ top.offset <= e.offset
          BY <1>2, <2>6
        <4>2. e.offset = top.offset
          BY <2>6, <3>1, <4>1
        <4>3. QED
          BY <2>6, <4>1, <4>2
      <3>3. top \in found
        BY <1>2, <2>6
      <3>4. QED
        BY <3>2, <3>3
    <2>8. UNION {ReadValueAt(f, e.offset, k) : e \in found} = ReadValueAt(f, off[m], k)
      <3> HIDE DEF found
      <3>1. top.offset = off[m]
        OBVIOUS
      <3>2. QED
        BY <2>7, <3>1
    <2>9. last = IF m <= good THEN {m} ELSE {}
      <3>1. ASSUME NEW j \in last PROVE j = m
        <4>1. j \in K /\ j <= m /\ ~ (m > j)
          BY <2>4, <2>5
        <4>2. QED
          BY <2>5, <4>1
      <3>2. m <= good => m \in last
        <4>1. \A l \in 1 .. n : l > m => d[l].key # k
          BY <2>4, <2>5
        <4>2. QED
          BY <2>5, <4>1
      <3>3. \A j \in last : j <= good
        OBVIOUS
      <3> HIDE DEF last
      <3>4. QED
        BY <3>1, <3>2, <3>3
    <2> HIDE DEF found, last
    <2>10. ReadValueAt(f, off[m], k) = IF m <= good THEN {d[m].value} ELSE {}
      BY <1>0, <2>5
    <2>11. {d[i].value : i \in last} = IF m <= good THEN {d[m].value} ELSE {}
      BY <2>9
    <2>12. UNION {ReadValueAt(f, e.offset, k) : e \in found} = {d[i].value : i \in last}
      BY <2>8, <2>10, <2>11
    <2>13. QED
      BY <2>12 DEF FoundIn, HitIn, found, last
  <1>5. QED
    BY <1>3, <1>4

--------------------------------------------------------------------------------
(***************************************************************************)
(* The inductive invariant.  The stream has the first s records, all that  *)
(* were written when it has not failed; the file begins with the stream,   *)
(* as far as it got, and goes on with zeros; the index has the offsets of  *)
(* the records that are in the stream, and NoOffset for the others.        *)
(***************************************************************************)
FileTypes ==
  /\ data \in Seq(Records) /\ Len(data) <= MaxRecords
  /\ next \in 1 .. Len(data) + 1 /\ failed \in BOOLEAN
  /\ stream \in Seq(Bytes) /\ file \in Seq(Bytes)
  /\ position \in 0 .. Len(stream)
  /\ phase \in {"writing", "flushed", "dead", "recovered"}

FileBytes ==
  /\ position <= Len(file) /\ Len(file) <= NoOffset
  /\ \A i \in 1 .. position : file[i] = stream[i]
  /\ \A i \in position + 1 .. Len(file) : file[i] = 0

Wrote(s) ==
  /\ Len(stream) = StartOf(data, s + 1)
  /\ \A i \in 1 .. s : LikeRecord(stream, StartOf(data, i), data[i], Size(data[i]))

OffsetIn(d, s, i) == IF i <= s THEN StartOf(d, i) ELSE NoOffset
Entries(d, s, n) == {[key |-> d[i].key, offset |-> OffsetIn(d, s, i)] : i \in 1 .. n}

Indexed(s) ==
  /\ ~ failed => s = next - 1
  /\ phase = "writing" => index = Entries(data, s, next - 1)
  /\ phase = "flushed" => /\ next = Len(data) + 1 /\ index = Unique(Entries(data, s, Len(data)))
                          /\ ~ failed => position = Len(stream)

StreamInv == \E s \in 0 .. next - 1 : Wrote(s) /\ Indexed(s)
RecoveredInv == phase = "recovered" => index = Unique(Parsed(file))

FileInv == FileTypes /\ FileBytes /\ StreamInv /\ RecoveredInv

\* The greater of two numbers.
LEMMA MaxOfTwo ==
  ASSUME NEW a \in Nat, NEW b \in Nat
  PROVE  Max({a, b}) = IF a >= b THEN a ELSE b
  <1> DEFINE m == IF a >= b THEN a ELSE b
  <1>1. m \in {a, b} /\ \A y \in {a, b} : m >= y
    OBVIOUS
  <1>2. \A x \in {a, b} : (\A y \in {a, b} : x >= y) => x = m
    OBVIOUS
  <1>3. QED
    BY <1>1, <1>2 DEF Max

\* At first nothing is written.
LEMMA InitFile == Init => FileInv
  <1> SUFFICES ASSUME Init PROVE FileInv
    OBVIOUS
  <1> DEFINE R == [key : RecordKeys, value : RecordValues]
  <1>1. data \in Seq(Records) /\ Len(data) <= MaxRecords /\ Len(data) \in Nat
    <2>1. data \in BoundedSeq(R, MaxRecords)
      BY DEF Init
    <2>2. PICK m \in 0 .. MaxRecords : data \in [1 .. m -> R]
      BY <2>1 DEF BoundedSeq, SeqOf
    <2>3. MaxRecords \in Nat /\ R = Records
      BY FileBoundAssumption DEF Records
    <2> HIDE DEF R
    <2>4. data \in Seq(R) /\ Len(data) = m
      BY <2>2, <2>3
    <2>5. QED
      BY <2>3, <2>4
  <1>2. PICK size \in PreAllocations : file = [i \in 1 .. size |-> 0]
    BY DEF Init
  <1>3. size \in Nat /\ size <= NoOffset
    BY FileBoundAssumption, NoOffsetType
  <1>4. file \in Seq(Bytes) /\ Len(file) = size /\ \A i \in 1 .. size : file[i] = 0
    <2>1. 0 \in Bytes
      BY WidthAssumption DEF Bytes
    <2>2. QED
      BY <1>2, <1>3, <2>1
  <1>5. next = 1 /\ stream = <<>> /\ failed = FALSE /\ position = 0 /\ index = {} /\ phase = "writing"
    BY DEF Init
  <1>6. stream \in Seq(Bytes) /\ Len(stream) = 0
    BY <1>5
  <1>7. FileTypes
    <2>1. next \in 1 .. Len(data) + 1
      BY <1>1, <1>5
    <2>2. position \in 0 .. Len(stream)
      BY <1>5, <1>6
    <2>3. QED
      BY <1>1, <1>4, <1>5, <1>6, <2>1, <2>2 DEF FileTypes
  <1>8. FileBytes
    BY <1>3, <1>4, <1>5 DEF FileBytes
  <1>9. StreamInv
    <2>1. Wrote(0)
      <3>1. StartOf(data, 0 + 1) = 0
        BY <1>1, Starts
      <3>2. QED
        BY <1>6, <3>1 DEF Wrote
    <2>2. Indexed(0)
      BY <1>5 DEF Indexed, Entries
    <2>3. 0 \in 0 .. next - 1
      BY <1>5
    <2>4. QED
      BY <2>1, <2>2, <2>3 DEF StreamInv
  <1>10. RecoveredInv
    BY <1>5 DEF RecoveredInv
  <1>11. QED
    BY <1>7, <1>8, <1>9, <1>10 DEF FileInv

\* A stream never gets longer than offsets go.
LEMMA StreamFits ==
  ASSUME FileTypes, StreamInv
  PROVE  Len(stream) <= NoOffset
  <1>1. PICK s \in 0 .. next - 1 : Wrote(s)
    BY DEF StreamInv
  <1>2. s + 1 \in 1 .. Len(data) + 1 /\ data \in Seq(Records) /\ Len(data) <= MaxRecords
    BY DEF FileTypes
  <1>3. QED
    BY <1>1, <1>2, StartsFit DEF Wrote

\* What reaches the file continues it with the stream.
LEMMA FileGrows ==
  ASSUME FileTypes, FileBytes, StreamInv, NEW n \in 0 .. Unwritten, ReachFile(n)
  PROVE  /\ position' = position + n /\ position' \in 0 .. Len(stream) /\ file' \in Seq(Bytes)
         /\ position' <= Len(file') /\ Len(file') <= NoOffset
         /\ \A i \in 1 .. position' : file'[i] = stream[i]
         /\ \A i \in position' + 1 .. Len(file') : file'[i] = 0
  <1> DEFINE p == position
             q == position + n
             L == Len(file)
             m == IF L >= q THEN L ELSE q
  <1>1. /\ p \in Nat /\ n \in Nat /\ q \in Nat /\ L \in Nat /\ p <= q /\ q <= Len(stream)
        /\ Len(stream) \in Nat /\ p <= L /\ L <= NoOffset /\ Len(stream) <= NoOffset
    BY StreamFits, NoOffsetType DEF FileTypes, FileBytes, Unwritten
  <1>2. position' = q
    BY DEF ReachFile
  <1>3. file' = [i \in 1 .. m |-> IF i \in p + 1 .. q THEN stream[i] ELSE file[i]]
    BY <1>1, MaxOfTwo DEF ReachFile
  <1>4. (\A i \in 1 .. p : file[i] = stream[i]) /\ \A i \in p + 1 .. L : file[i] = 0
    BY DEF FileBytes
  <1>5. (\A i \in 1 .. L : file[i] \in Bytes) /\ \A i \in 1 .. Len(stream) : stream[i] \in Bytes
    BY DEF FileTypes
  <1> HIDE DEF p, q, L
  <1>6. m \in Nat /\ q <= m /\ L <= m /\ m <= NoOffset /\ (L >= q => m = L) /\ (~ (L >= q) => m = q)
    BY <1>1, NoOffsetType
  <1> HIDE DEF m
  <1>7. \A i \in 1 .. m : file'[i] \in Bytes
    <2> TAKE i \in 1 .. m
    <2>1. CASE i \in p + 1 .. q
      BY <1>1, <1>3, <1>5, <2>1
    <2>2. CASE i \notin p + 1 .. q
      <3>1. i \in 1 .. L
        BY <1>1, <1>6, <2>2
      <3>2. QED
        BY <1>3, <1>5, <2>2, <3>1
    <2>3. QED
      BY <2>1, <2>2
  <1>8. file' \in Seq(Bytes) /\ Len(file') = m
    BY <1>3, <1>6, <1>7
  <1>9. \A i \in 1 .. q : file'[i] = stream[i]
    <2> TAKE i \in 1 .. q
    <2>1. i \in 1 .. m
      BY <1>1, <1>6
    <2>2. CASE i \in p + 1 .. q
      BY <1>3, <2>1, <2>2
    <2>3. CASE i \notin p + 1 .. q
      <3>1. i \in 1 .. p
        BY <1>1, <2>3
      <3>2. QED
        BY <1>3, <1>4, <2>1, <2>3, <3>1
    <2>4. QED
      BY <2>2, <2>3
  <1>10. \A i \in q + 1 .. m : file'[i] = 0
    <2> TAKE i \in q + 1 .. m
    <2>1. i \in 1 .. m /\ i \notin p + 1 .. q /\ i \in p + 1 .. L
      BY <1>1, <1>6
    <2>2. QED
      BY <1>3, <1>4, <2>1
  <1>11. QED
    BY <1>1, <1>2, <1>6, <1>8, <1>9, <1>10 DEF q, p

\* One turn of flushMemtable's loop.
LEMMA WriteFile == FileInv /\ WriteRecord => FileInv'
  <1> SUFFICES ASSUME FileInv, WriteRecord PROVE FileInv'
    OBVIOUS
  <1>1. FileTypes /\ FileBytes /\ StreamInv
    BY DEF FileInv
  <1>2. PICK s \in 0 .. next - 1 : Wrote(s) /\ Indexed(s)
    BY <1>1 DEF StreamInv
  <1>3. /\ phase = "writing" /\ next <= Len(data) /\ next' = next + 1
        /\ UNCHANGED <<data, failed, file, position, phase>>
        /\ index' = index \cup {[key |-> data[next].key,
                                 offset |-> IF failed THEN NoOffset ELSE Len(stream)]}
        /\ stream' = IF failed THEN stream ELSE stream \o Serialize(data[next])
    BY DEF WriteRecord
  <1>4. /\ data \in Seq(Records) /\ Len(data) \in Nat /\ next \in 1 .. Len(data) /\ next \in Nat
        /\ stream \in Seq(Bytes) /\ Len(stream) \in Nat /\ position \in 0 .. Len(stream)
    BY <1>1, <1>3 DEF FileTypes
  <1> DEFINE r == data[next]
             b == Serialize(r)
             o == Len(stream)
             Entry(i) == [key |-> data[i].key, offset |-> OffsetIn(data, s, i)]
  <1>5. r \in Records
    BY <1>4
  <1>6. b \in Seq(Bytes) /\ Len(b) = Size(r) /\ Size(r) \in Nat
    BY <1>5, SerializeParts, RecordType
  <1>7. index = {Entry(i) : i \in 1 .. next - 1}
    BY <1>2, <1>3 DEF Indexed, Entries
  <1>8. phase' = "writing" /\ RecoveredInv'
    BY <1>3 DEF RecoveredInv
  <1>9. CASE failed
    <2>1. stream' = stream
      BY <1>3, <1>9
    <2>2. FileTypes'
      <3>1. next' \in 1 .. Len(data)' + 1
        BY <1>3, <1>4
      <3>2. QED
        BY <1>1, <1>3, <2>1, <3>1 DEF FileTypes
    <2>3. FileBytes'
      BY <1>1, <1>3, <2>1 DEF FileBytes
    <2>4. Wrote(s)'
      BY <1>2, <1>3, <2>1 DEF Wrote, LikeRecord
    <2>5. index' = Entries(data, s, next)
      <3>1. ~ (next <= s)
        BY <1>4
      <3>2. Entry(next) = [key |-> data[next].key, offset |-> NoOffset]
        BY <3>1 DEF OffsetIn
      <3>3. index' = index \cup {Entry(next)}
        BY <1>3, <1>9, <3>2
      <3>4. 1 .. next = (1 .. next - 1) \cup {next}
        BY <1>4
      <3>5. {Entry(i) : i \in 1 .. next} = {Entry(i) : i \in 1 .. next - 1} \cup {Entry(next)}
        BY <3>4
      <3> HIDE DEF Entry
      <3>6. index' = {Entry(i) : i \in 1 .. next}
        BY <1>7, <3>3, <3>5
      <3>7. QED
        BY <3>6 DEF Entries, Entry
    <2>6. s \in 0 .. next' - 1 /\ next' - 1 = next
      BY <1>3, <1>4
    <2>7. Indexed(s)'
      BY <1>3, <1>8, <1>9, <2>5, <2>6 DEF Indexed, Entries, OffsetIn
    <2>8. StreamInv'
      BY <2>4, <2>6, <2>7 DEF StreamInv
    <2>9. QED
      BY <1>8, <2>2, <2>3, <2>8 DEF FileInv
  <1>10. CASE ~ failed
    <2>1. stream' = stream \o b /\ s = next - 1 /\ s + 1 = next /\ failed' = failed
      BY <1>2, <1>3, <1>4, <1>10 DEF Indexed
    <2>2. /\ stream' \in Seq(Bytes) /\ Len(stream') = o + Size(r)
          /\ \A i \in 1 .. o : stream'[i] = stream[i]
          /\ \A i \in 1 .. Size(r) : stream'[o + i] = b[i]
      <3> HIDE DEF b
      <3>1. /\ stream \o b \in Seq(Bytes) /\ Len(stream \o b) = Len(stream) + Len(b)
            /\ \A i \in 1 .. Len(stream) : (stream \o b)[i] = stream[i]
            /\ \A i \in 1 .. Len(b) : (stream \o b)[Len(stream) + i] = b[i]
        <4>1. stream \in Seq(Bytes) /\ b \in Seq(Bytes)
          BY <1>4, <1>6
        <4>2. QED
          BY <4>1, Concat
      <3>2. QED
        BY <1>6, <2>1, <3>1
    <2> HIDE DEF o
    <2>3. o \in Nat /\ o = Len(stream) /\ o = StartOf(data, next)
      BY <1>2, <1>4, <2>1 DEF Wrote, o
    <2>4. FileTypes'
      <3>1. next' \in 1 .. Len(data)' + 1
        BY <1>3, <1>4
      <3>2. position' \in 0 .. Len(stream')
        BY <1>3, <1>4, <1>6, <2>2, <2>3
      <3>3. QED
        BY <1>1, <1>3, <2>2, <3>1, <3>2 DEF FileTypes
    <2>5. FileBytes'
      <3>1. \A i \in 1 .. position : i \in 1 .. o
        BY <1>4, <2>3
      <3>2. QED
        BY <1>1, <1>3, <2>2, <3>1 DEF FileBytes
    <2>6. PICK n \in Nat : n = next
      BY <1>4
    <2>7. Wrote(n)'
      <3>1. StartOf(data, next + 1) = o + Size(r)
        BY <1>4, <2>3, Starts
      <3>2. ASSUME NEW i \in 1 .. next
            PROVE  LikeRecord(stream', StartOf(data, i), data[i], Size(data[i]))
        <4>1. CASE i = next
          BY <2>2, <2>3, <4>1 DEF LikeRecord
        <4>2. CASE i < next
          <5>1. i \in 1 .. s /\ i \in 1 .. Len(data) /\ i + 1 \in 1 .. Len(data) + 1 /\ i + 1 <= next
                /\ next \in 1 .. Len(data) + 1
            BY <1>4, <2>1, <4>2
          <5>2. LikeRecord(stream, StartOf(data, i), data[i], Size(data[i]))
            BY <1>2, <5>1 DEF Wrote
          <5>3. /\ StartOf(data, i) \in Nat /\ StartOf(data, i + 1) \in Nat
                /\ StartOf(data, i + 1) = StartOf(data, i) + Size(data[i])
            BY <1>4, <5>1, Starts
          <5>4. StartOf(data, i + 1) <= o
            <6>1. CASE i + 1 = next
              BY <2>3, <6>1
            <6>2. CASE i + 1 < next
              <7>1. StartOf(data, i + 1) < StartOf(data, next)
                BY <1>4, <5>1, <6>2, StartsGrow
              <7>2. QED
                BY <2>3, <5>3, <7>1
            <6>3. QED
              BY <1>4, <5>1, <6>1, <6>2
          <5>5. Size(data[i]) \in Nat
            <6>1. data[i] \in Records
              BY <1>4, <5>1
            <6>2. QED
              BY <6>1, RecordType
          <5>6. \A j \in 1 .. Size(data[i]) : StartOf(data, i) + j \in 1 .. o
            <6> DEFINE x == StartOf(data, i)
                       y == Size(data[i])
            <6>1. x \in Nat /\ y \in Nat /\ x + y <= o
              BY <5>3, <5>4, <5>5
            <6> HIDE DEF x, y
            <6>2. \A j \in 1 .. y : x + j \in 1 .. o
              BY <2>3, <6>1
            <6>3. QED
              BY <6>2 DEF x, y
          <5>7. QED
            BY <2>2, <5>2, <5>6 DEF LikeRecord
        <4>3. QED
          BY <1>4, <4>1, <4>2
      <3>3. /\ Len(stream') = StartOf(data, n + 1)
            /\ \A i \in 1 .. n : LikeRecord(stream', StartOf(data, i), data[i], Size(data[i]))
        BY <2>2, <2>6, <3>1, <3>2
      <3>4. data' = data
        BY <1>3
      <3>5. QED
        BY <3>3, <3>4 DEF Wrote
    <2>8. index' = Entries(data, next, next)
      <3> DEFINE New(i) == [key |-> data[i].key, offset |-> OffsetIn(data, next, i)]
      <3>1. index' = index \cup {New(next)}
        BY <1>3, <1>4, <1>10, <2>3 DEF OffsetIn
      <3>2. ASSUME NEW i \in 1 .. next - 1 PROVE Entry(i) = New(i)
        <4>1. i <= s /\ i <= next
          BY <1>4, <2>1
        <4>2. QED
          BY <4>1 DEF OffsetIn
      <3>3. 1 .. next = (1 .. next - 1) \cup {next}
        BY <1>4
      <3> HIDE DEF Entry, New
      <3>4. index = {New(i) : i \in 1 .. next - 1}
        BY <1>7, <3>2
      <3>5. index' = {New(i) : i \in 1 .. next}
        BY <3>1, <3>3, <3>4
      <3>6. QED
        BY <3>5 DEF Entries, New
    <2>9. n \in 0 .. next' - 1 /\ next' - 1 = n
      BY <1>3, <1>4, <2>6
    <2>10. Indexed(n)'
      <3>1. index' = Entries(data, n, n) /\ data' = data
        BY <1>3, <2>6, <2>8
      <3>2. /\ ~ failed' => n = next' - 1
            /\ phase' = "writing" => index' = Entries(data', n, next' - 1)
            /\ phase' # "flushed"
        BY <1>8, <2>9, <3>1
      <3>3. QED
        BY <3>2 DEF Indexed
    <2>11. StreamInv'
      BY <2>7, <2>9, <2>10 DEF StreamInv
    <2>12. QED
      BY <1>8, <2>4, <2>5, <2>11 DEF FileInv
  <1>11. QED
    BY <1>9, <1>10

\* The stream and the index do not change while the file grows.
LEMMA SpillFile ==
  ASSUME NEW n \in 0 .. Unwritten
  PROVE  FileInv /\ (Spill(n) \/ Fail(n)) => FileInv'
  <1> SUFFICES ASSUME FileInv, Spill(n) \/ Fail(n) PROVE FileInv'
    OBVIOUS
  <1>1. FileTypes /\ FileBytes /\ StreamInv
    BY DEF FileInv
  <1>2. /\ phase = "writing" /\ ~ failed /\ ReachFile(n) /\ failed' \in BOOLEAN
        /\ UNCHANGED <<data, next, stream, index, phase>>
    BY <1>1 DEF Spill, Fail, FileTypes
  <1>3. /\ position' \in 0 .. Len(stream) /\ file' \in Seq(Bytes)
        /\ position' <= Len(file') /\ Len(file') <= NoOffset
        /\ \A i \in 1 .. position' : file'[i] = stream[i]
        /\ \A i \in position' + 1 .. Len(file') : file'[i] = 0
    BY <1>1, <1>2, FileGrows
  <1>4. FileTypes'
    BY <1>1, <1>2, <1>3 DEF FileTypes
  <1>5. FileBytes'
    BY <1>2, <1>3 DEF FileBytes
  <1>6. StreamInv'
    <2>1. PICK s \in 0 .. next - 1 : Wrote(s) /\ Indexed(s)
      BY <1>1 DEF StreamInv
    <2>2. Wrote(s)' /\ Indexed(s)'
      BY <1>2, <2>1 DEF Wrote, Indexed, LikeRecord, Entries, OffsetIn
    <2>3. QED
      BY <1>2, <2>1, <2>2 DEF StreamInv
  <1>7. RecoveredInv'
    BY <1>2 DEF RecoveredInv
  <1>8. QED
    BY <1>4, <1>5, <1>6, <1>7 DEF FileInv

\* The last bytes, and the sort.
LEMMA FinishFile == FileInv /\ Finish => FileInv'
  <1> SUFFICES ASSUME FileInv, Finish PROVE FileInv'
    OBVIOUS
  <1>1. FileTypes /\ FileBytes /\ StreamInv
    BY DEF FileInv
  <1>2. /\ phase = "writing" /\ next > Len(data) /\ phase' = "flushed" /\ index' = Unique(index)
        /\ UNCHANGED <<data, next, stream, failed>>
    BY DEF Finish
  <1>3. /\ position' \in 0 .. Len(stream) /\ file' \in Seq(Bytes)
        /\ position' <= Len(file') /\ Len(file') <= NoOffset
        /\ \A i \in 1 .. position' : file'[i] = stream[i]
        /\ \A i \in position' + 1 .. Len(file') : file'[i] = 0
        /\ ~ failed => position' = Len(stream)
    <2>1. CASE failed
      <3>1. file' = file /\ position' = position
        BY <2>1 DEF Finish
      <3>2. QED
        BY <1>1, <2>1, <3>1 DEF FileTypes, FileBytes
    <2>2. CASE ~ failed
      <3>1. ReachFile(Unwritten)
        BY <2>2 DEF Finish
      <3>2. Unwritten \in 0 .. Unwritten /\ position + Unwritten = Len(stream)
        BY <1>1 DEF Unwritten, FileTypes
      <3>3. QED
        BY <1>1, <3>1, <3>2, FileGrows
    <2>3. QED
      BY <2>1, <2>2
  <1>4. FileTypes'
    BY <1>1, <1>2, <1>3 DEF FileTypes
  <1>5. FileBytes'
    BY <1>2, <1>3 DEF FileBytes
  <1>6. StreamInv'
    <2>1. PICK s \in 0 .. next - 1 : Wrote(s) /\ Indexed(s)
      BY <1>1 DEF StreamInv
    <2>2. next = Len(data) + 1 /\ next - 1 = Len(data)
      BY <1>1, <1>2 DEF FileTypes
    <2>3. Wrote(s)'
      BY <1>2, <2>1 DEF Wrote, LikeRecord
    <2>4. index' = Unique(Entries(data, s, Len(data)))
      BY <1>2, <2>1, <2>2 DEF Indexed
    <2>5. Indexed(s)'
      BY <1>2, <1>3, <2>1, <2>2, <2>4 DEF Indexed, Entries, OffsetIn
    <2>6. QED
      BY <1>2, <2>1, <2>3, <2>5 DEF StreamInv
  <1>7. RecoveredInv'
    BY <1>2 DEF RecoveredInv
  <1>8. QED
    BY <1>4, <1>5, <1>6, <1>7 DEF FileInv

\* Crashes and recoveries do not change the file.
LEMMA CrashFile == FileInv /\ (Crash \/ Recover) => FileInv'
  <1> SUFFICES ASSUME FileInv, Crash \/ Recover PROVE FileInv'
    OBVIOUS
  <1>1. /\ phase' \in {"dead", "recovered"} /\ (phase' = "recovered" => index' = Unique(Parsed(file)))
        /\ UNCHANGED <<data, next, stream, failed, file, position>>
    BY DEF Crash, Recover
  <1>2. FileTypes' /\ FileBytes'
    BY <1>1 DEF FileInv, FileTypes, FileBytes
  <1>3. StreamInv'
    <2>1. PICK s \in 0 .. next - 1 : Wrote(s) /\ Indexed(s)
      BY DEF FileInv, StreamInv
    <2>2. Wrote(s)' /\ Indexed(s)'
      BY <1>1, <2>1 DEF Wrote, Indexed, LikeRecord
    <2>3. QED
      BY <1>1, <2>1, <2>2 DEF StreamInv
  <1>4. RecoveredInv'
    BY <1>1 DEF RecoveredInv
  <1>5. QED
    BY <1>2, <1>3, <1>4 DEF FileInv

\* Every step keeps the invariant.
LEMMA NextFile == FileInv /\ [Next]_vars => FileInv'
  <1> SUFFICES ASSUME FileInv, [Next]_vars PROVE FileInv'
    OBVIOUS
  <1>1. CASE WriteRecord
    BY <1>1, WriteFile
  <1>2. CASE Finish
    BY <1>2, FinishFile
  <1>3. CASE Crash \/ Recover
    BY <1>3, CrashFile
  <1>4. ASSUME NEW n \in 1 .. Unwritten, Spill(n) PROVE FileInv'
    <2>1. n \in 0 .. Unwritten
      BY DEF FileInv, FileTypes, Unwritten
    <2>2. QED
      BY <1>4, <2>1, SpillFile
  <1>5. ASSUME NEW n \in 0 .. Unwritten, Fail(n) PROVE FileInv'
    BY <1>5, SpillFile
  <1>6. CASE UNCHANGED vars
    BY <1>6 DEF vars, FileInv, FileTypes, FileBytes, StreamInv, RecoveredInv, Wrote, Indexed
  <1>7. QED
    BY <1>1, <1>2, <1>3, <1>4, <1>5, <1>6 DEF Next

\* The file begins with the stream, which has the first records, and goes on with
\* zeros; the index agrees with it (flushMemtable, recoverState).
THEOREM FileContinuesStream == Spec => []FileInv
  BY InitFile, NextFile, PTL DEF Spec

--------------------------------------------------------------------------------
(***************************************************************************)
(* What is in the file: the first m records, and the beginning of one more.*)
(***************************************************************************)
Rest(m) == position - StartOf(data, m + 1)

\* The complete records are the first ones, and at most one more is begun.
LEMMA CompleteIs ==
  ASSUME FileTypes, FileBytes, NEW s \in 0 .. Len(data), Wrote(s)
  PROVE  \E m \in 0 .. s :
           /\ Complete = 1 .. m /\ Cardinality(Complete) = m
           /\ StartOf(data, m + 1) \in Nat /\ StartOf(data, m + 1) <= position
           /\ Begun = 1 .. m \cup (IF StartOf(data, m + 1) < position THEN {m + 1} ELSE {})
           /\ \A i \in 1 .. m : LikeRecord(file, StartOf(data, i), data[i], Size(data[i]))
           /\ \A i \in 1 .. m : StartOf(data, i) + Size(data[i]) <= position
           /\ m = s => position = StartOf(data, m + 1) /\ position = Len(stream)
           /\ m < s => /\ Rest(m) \in Nat /\ Rest(m) < Size(data[m + 1])
                       /\ StartOf(data, m + 1) + Rest(m) = position
                       /\ LikeRecord(file, StartOf(data, m + 1), data[m + 1], Rest(m))
                       /\ \A i \in m + 2 .. s : position <= StartOf(data, i)
  <1>1. /\ data \in Seq(Records) /\ Len(data) \in Nat /\ s \in Nat /\ s <= Len(data)
        /\ position \in Nat /\ position <= Len(stream) /\ Len(stream) = StartOf(data, s + 1)
    BY DEF FileTypes, Wrote
  <1>2. /\ StartOf(data, 1) = 0
        /\ \A i \in 1 .. Len(data) : StartOf(data, i + 1) = StartOf(data, i) + Size(data[i])
        /\ \A i \in 1 .. Len(data) + 1 : StartOf(data, i) \in Nat
    BY <1>1, Starts
  <1>3. \A i, j \in 1 .. Len(data) + 1 : i <= j => StartOf(data, i) <= StartOf(data, j)
    <2> TAKE i, j \in 1 .. Len(data) + 1
    <2> SUFFICES ASSUME i <= j PROVE StartOf(data, i) <= StartOf(data, j)
      OBVIOUS
    <2>1. CASE i = j
      BY <1>2, <2>1
    <2>2. CASE i < j
      <3>1. StartOf(data, i) < StartOf(data, j)
        BY <1>1, <2>2, StartsGrow
      <3>2. QED
        BY <1>2, <3>1
    <2>3. QED
      BY <2>1, <2>2
  <1> DEFINE D == {n \in 0 .. s : StartOf(data, (s - n) + 1) <= position}
  <1>4. D \subseteq Nat /\ D # {}
    <2>1. (s - s) + 1 = 1 /\ s \in 0 .. s
      BY <1>1
    <2>2. s \in D
      BY <1>1, <1>2, <2>1
    <2>3. D \subseteq Nat
      BY <1>1
    <2> HIDE DEF D
    <2>4. QED
      BY <2>2, <2>3
  <1>5. PICK x \in D : \A y \in D : x <= y
    <2> HIDE DEF D
    <2>1. QED
      BY <1>4, LeastExists
  <1> DEFINE m == s - x
  <1>6. m \in 0 .. s /\ m \in Nat /\ m + 1 \in 1 .. Len(data) + 1 /\ StartOf(data, m + 1) <= position
        /\ StartOf(data, m + 1) \in Nat
    <2>1. x \in 0 .. s /\ StartOf(data, m + 1) <= position
      BY <1>5
    <2>2. m \in 0 .. s /\ m \in Nat /\ m + 1 \in 1 .. Len(data) + 1
      BY <1>1, <2>1
    <2> HIDE DEF m
    <2>3. QED
      BY <1>2, <2>1, <2>2
  <1>7. \A i \in m + 1 .. s : StartOf(data, i + 1) > position
    <2> TAKE i \in m + 1 .. s
    <2> DEFINE n == s - i
    <2>1. n \in 0 .. s /\ s - n = i /\ n < x /\ x \in Nat /\ i + 1 \in 1 .. Len(data) + 1
      BY <1>1, <1>5, <1>6
    <2>2. n \notin D
      <3> HIDE DEF D, n
      <3>1. QED
        BY <1>4, <1>5, <2>1
    <2>3. ~ (StartOf(data, i + 1) <= position)
      BY <2>1, <2>2
    <2>4. StartOf(data, i + 1) \in Nat
      BY <1>2, <2>1
    <2>5. QED
      BY <1>1, <2>3, <2>4
  <1> HIDE DEF D, m
  <1>8. m = s => position = StartOf(data, m + 1) /\ position = Len(stream)
    BY <1>1, <1>6
  <1>9. Complete = 1 .. m
    <2>1. ASSUME NEW i \in 1 .. m PROVE i \in Complete
      <3>1. i \in 1 .. Len(data) /\ i + 1 \in 1 .. Len(data) + 1 /\ i + 1 <= m + 1
        BY <1>1, <1>6
      <3>2. StartOf(data, i + 1) <= StartOf(data, m + 1) /\ StartOf(data, i + 1) \in Nat
        BY <1>2, <1>3, <1>6, <3>1
      <3>3. QED
        BY <1>1, <1>6, <3>1, <3>2 DEF Complete
    <2>2. ASSUME NEW i \in Complete PROVE i \in 1 .. m
      <3>1. i \in 1 .. Len(data) /\ StartOf(data, i + 1) <= position
        BY <1>1 DEF Complete
      <3>2. i + 1 \in 1 .. Len(data) + 1 /\ s + 1 \in 1 .. Len(data) + 1
        BY <1>1, <3>1
      <3>3. i <= s
        <4> SUFFICES ASSUME s < i PROVE FALSE
          BY <1>1, <3>1
        <4>1. s + 1 < i + 1
          BY <1>1, <3>1
        <4>2. StartOf(data, s + 1) < StartOf(data, i + 1)
          BY <1>1, <3>2, <4>1, StartsGrow
        <4>3. QED
          BY <1>1, <1>2, <3>1, <3>2, <4>2
      <3>4. CASE i \in m + 1 .. s
        <4>1. StartOf(data, i + 1) > position
          BY <1>7, <3>4
        <4>2. StartOf(data, i + 1) \in Nat
          BY <1>2, <3>2
        <4>3. QED
          BY <1>1, <3>1, <4>1, <4>2
      <3>5. QED
        BY <1>1, <1>6, <3>1, <3>3, <3>4
    <2>3. QED
      BY <2>1, <2>2
  <1>10. Cardinality(Complete) = m
    BY <1>6, <1>9, FS_Interval
  <1>11. Begun = 1 .. m \cup (IF StartOf(data, m + 1) < position THEN {m + 1} ELSE {})
    <2>1. ASSUME NEW i \in 1 .. m PROVE i \in Begun
      <3>1. i \in 1 .. Len(data) /\ i \in 1 .. Len(data) + 1 /\ i < m + 1
        BY <1>1, <1>6
      <3>2. StartOf(data, i) < StartOf(data, m + 1)
        BY <1>1, <1>6, <3>1, StartsGrow
      <3>3. StartOf(data, i) \in Nat
        BY <1>2, <3>1
      <3>4. QED
        BY <1>1, <1>6, <3>1, <3>2, <3>3 DEF Begun
    <2>2. ASSUME StartOf(data, m + 1) < position PROVE m + 1 \in Begun
      <3>1. m # s
        BY <1>1, <1>6, <1>8, <2>2
      <3>2. m + 1 \in 1 .. Len(data)
        BY <1>1, <1>6, <3>1
      <3>3. QED
        BY <1>1, <2>2, <3>2 DEF Begun
    <2>3. ASSUME NEW i \in Begun, i \notin 1 .. m
          PROVE  i = m + 1 /\ StartOf(data, m + 1) < position
      <3>1. i \in 1 .. Len(data) /\ StartOf(data, i) < position
        BY <1>1 DEF Begun
      <3>2. m + 1 <= i /\ i \in 1 .. Len(data) + 1
        BY <1>1, <1>6, <2>3, <3>1
      <3>3. i \in m + 1 .. Len(data) /\ i \in Nat
        BY <1>1, <1>6, <3>1, <3>2
      <3>4. i <= s
        <4> SUFFICES ASSUME s < i PROVE FALSE
          BY <1>1, <3>1
        <4>1. s + 1 \in 1 .. Len(data) + 1 /\ s + 1 <= i
          BY <1>1, <3>1
        <4>2. StartOf(data, s + 1) <= StartOf(data, i)
          BY <1>3, <3>2, <4>1
        <4>3. QED
          BY <1>1, <1>2, <3>1, <3>2, <4>1, <4>2
      <3>5. i = m + 1
        <4> SUFFICES ASSUME m + 1 < i PROVE FALSE
          BY <1>6, <3>2, <3>3
        <4> DEFINE j == i - 1
        <4>1. j \in m + 1 .. s /\ j + 1 = i
          BY <1>1, <1>6, <3>3, <3>4
        <4> HIDE DEF j
        <4>2. StartOf(data, i) > position
          BY <1>7, <4>1
        <4>3. QED
          BY <1>1, <1>2, <3>1, <3>2, <4>2
      <3>6. QED
        BY <3>1, <3>5
    <2>4. QED
      BY <2>1, <2>2, <2>3
  <1>12. \A i \in 1 .. position : file[i] = stream[i]
    BY DEF FileBytes
  <1>13. ASSUME NEW i \in 1 .. m
         PROVE  /\ LikeRecord(file, StartOf(data, i), data[i], Size(data[i]))
                /\ StartOf(data, i) + Size(data[i]) <= position
    <2>1. i \in 1 .. Len(data) /\ i + 1 \in 1 .. Len(data) + 1 /\ i \in 1 .. s /\ i \in 1 .. Len(data) + 1
      BY <1>1, <1>6
    <2>2. StartOf(data, i + 1) <= position
      BY <1>9 DEF Complete
    <2>3. LikeRecord(stream, StartOf(data, i), data[i], Size(data[i]))
      BY <2>1 DEF Wrote
    <2> DEFINE a == StartOf(data, i)
               b == Size(data[i])
    <2>4. a \in Nat /\ b \in Nat /\ a + b <= position
      <3>1. data[i] \in Records
        BY <1>1, <2>1
      <3>2. QED
        BY <1>2, <2>1, <2>2, <3>1, RecordType
    <2> HIDE DEF a, b
    <2>5. \A j \in 1 .. b : a + j \in 1 .. position
      BY <1>1, <2>4
    <2>6. QED
      BY <1>12, <2>3, <2>4, <2>5 DEF LikeRecord, a, b
  <1>14. ASSUME m < s
         PROVE  /\ Rest(m) \in Nat /\ Rest(m) < Size(data[m + 1])
                /\ StartOf(data, m + 1) + Rest(m) = position
                /\ LikeRecord(file, StartOf(data, m + 1), data[m + 1], Rest(m))
                /\ \A i \in m + 2 .. s : position <= StartOf(data, i)
    <2> DEFINE n == m + 1
    <2>1. n \in m + 1 .. s /\ n \in 1 .. s /\ n \in 1 .. Len(data) /\ n + 1 \in 1 .. Len(data) + 1
          /\ n \in 1 .. Len(data) + 1
      BY <1>1, <1>6, <1>14
    <2> DEFINE a == StartOf(data, n)
               b == Size(data[n])
    <2>2. a \in Nat /\ b \in Nat /\ position < a + b /\ a <= position
      <3>1. data[n] \in Records
        BY <1>1, <2>1
      <3>2. StartOf(data, n + 1) > position /\ StartOf(data, n + 1) = StartOf(data, n) + Size(data[n])
        BY <1>2, <1>7, <2>1
      <3>3. StartOf(data, n) \in Nat /\ Size(data[n]) \in Nat
        BY <1>2, <2>1, <3>1, RecordType
      <3>4. QED
        BY <1>1, <1>6, <3>2, <3>3
    <2>3. LikeRecord(stream, a, data[n], b)
      BY <2>1 DEF Wrote
    <2>4. Rest(m) = position - a
      BY DEF Rest
    <2> HIDE DEF a, b
    <2>5. Rest(m) \in Nat /\ Rest(m) < b /\ a + Rest(m) = position
      BY <1>1, <2>2, <2>4
    <2>6. LikeRecord(file, a, data[n], Rest(m))
      <3> DEFINE e == Rest(m)
      <3>1. e \in Nat /\ e < b /\ a + e = position
        BY <2>5
      <3> HIDE DEF e
      <3>2. \A j \in 1 .. e : a + j \in 1 .. position /\ j \in 1 .. b
        BY <1>1, <2>2, <3>1
      <3>3. \A j \in 1 .. e : file[a + j] = Serialize(data[n])[j]
        BY <1>12, <2>3, <3>2 DEF LikeRecord
      <3>4. QED
        BY <3>3 DEF LikeRecord, e
    <2>7. \A i \in m + 2 .. s : position <= StartOf(data, i)
      <3> TAKE i \in m + 2 .. s
      <3> DEFINE j == i - 1
      <3>1. j \in m + 1 .. s /\ j + 1 = i /\ i \in 1 .. Len(data) + 1
        BY <1>1, <1>6
      <3> HIDE DEF j
      <3>2. StartOf(data, i) > position /\ StartOf(data, i) \in Nat
        BY <1>2, <1>7, <3>1
      <3>3. QED
        BY <1>1, <3>2
    <2>8. QED
      BY <2>5, <2>6, <2>7 DEF a, b
  <1>15. QED
    BY <1>6, <1>8, <1>9, <1>10, <1>11, <1>13, <1>14

--------------------------------------------------------------------------------
(***************************************************************************)
(* Lookups.                                                                *)
(***************************************************************************)
\* The table t has the first n records, of which the first good can be read.
TableOf(t, n, good) ==
  /\ DOMAIN t.data = 1 .. n /\ t.good = good
  /\ \A i \in 1 .. n : t.data[i] = [key |-> data[i].key, seq |-> i]

\* What such a table says of a key.
LEMMA TableHitIs ==
  ASSUME NEW n \in Nat, NEW good, NEW t, NEW k, TableOf(t, n, good)
  PROVE  {data[r.seq].value : r \in TableHit(t, k)} = HitIn(data, n, good, k)
  <1> DEFINE J == {j \in 1 .. n : /\ data[j].key = k /\ j <= good
                                  /\ \A l \in 1 .. n : l > j => data[l].key # k}
  <1>0. /\ DOMAIN t.data = 1 .. n /\ t.good = good
        /\ \A i \in 1 .. n : t.data[i] = [key |-> data[i].key, seq |-> i]
    BY DEF TableOf
  <1>1. \A i \in 1 .. n : t.data[i].key = data[i].key /\ t.data[i].seq = i
    <2> TAKE i \in 1 .. n
    <2> DEFINE a == data[i].key
    <2>1. t.data[i] = [key |-> a, seq |-> i]
      BY <1>0
    <2> HIDE DEF a
    <2>2. t.data[i].key = a /\ t.data[i].seq = i
      BY <2>1
    <2>3. QED
      BY <2>2 DEF a
  <1>2. {i \in NewestAt(t.data, k) : i <= t.good} = J
    BY <1>0, <1>1 DEF NewestAt
  <1>3. TableHit(t, k) = {t.data[i] : i \in J}
    BY <1>2 DEF TableHit
  <1>4. {data[r.seq].value : r \in {t.data[i] : i \in J}} = {data[i].value : i \in J}
    <2>1. \A i \in J : data[t.data[i].seq].value = data[i].value
      BY <1>1
    <2> HIDE DEF J
    <2>2. QED
      BY <2>1
  <1>5. QED
    BY <1>3, <1>4 DEF HitIn

\* The index of the file is made from the entries E.
LEMMA LookupIs ==
  ASSUME NEW E, index = Unique(E), NEW k
  PROVE  Lookup(k) = FoundIn(file, E, k)
  BY DEF Lookup, FoundIn

\* The entries of a key.
LEMMA EntriesOfKey ==
  ASSUME NEW d, NEW n, NEW off, NEW k
  PROVE  {e \in {[key |-> d[i].key, offset |-> off[i]] : i \in 1 .. n} : e.key = k}
         = {[key |-> k, offset |-> off[i]] : i \in {j \in 1 .. n : d[j].key = k}}
  OBVIOUS

\* The index made by flushMemtable.
LEMMA FlushedLookup ==
  ASSUME FileInv, phase = "flushed", Len(file) = position \/ ~ failed, NEW k
  PROVE  Lookup(k) = {data[r.seq].value : r \in TableHit(Table, k)}
  <1> DEFINE N == Len(data)
  <1>1. FileTypes /\ FileBytes /\ StreamInv
    BY DEF FileInv
  <1>2. PICK s \in 0 .. next - 1 : Wrote(s) /\ Indexed(s)
    BY <1>1 DEF StreamInv
  <1>3. /\ next = N + 1 /\ index = Unique(Entries(data, s, N)) /\ (~ failed => position = Len(stream))
        /\ (~ failed => s = N) /\ s \in 0 .. N /\ N \in Nat /\ data \in Seq(Records)
        /\ file \in Seq(Bytes) /\ Len(file) \in Nat /\ position \in Nat /\ position <= Len(file)
        /\ Len(file) <= NoOffset /\ Len(stream) = StartOf(data, s + 1) /\ Len(data) <= MaxRecords
    <2>1. next = N + 1 /\ N \in Nat /\ s \in 0 .. N
      BY <1>1, <1>2 DEF FileTypes, Indexed
    <2>2. ~ failed => s = N
      BY <1>2, <2>1 DEF Indexed
    <2>3. QED
      BY <1>1, <1>2, <2>1, <2>2 DEF FileTypes, FileBytes, Indexed, Wrote
  <1>4. PICK m \in 0 .. s :
           /\ Complete = 1 .. m /\ Cardinality(Complete) = m
           /\ StartOf(data, m + 1) \in Nat /\ StartOf(data, m + 1) <= position
           /\ \A i \in 1 .. m : LikeRecord(file, StartOf(data, i), data[i], Size(data[i]))
           /\ \A i \in 1 .. m : StartOf(data, i) + Size(data[i]) <= position
           /\ m < s => /\ Rest(m) \in Nat /\ Rest(m) < Size(data[m + 1])
                       /\ StartOf(data, m + 1) + Rest(m) = position
                       /\ LikeRecord(file, StartOf(data, m + 1), data[m + 1], Rest(m))
                       /\ \A i \in m + 2 .. s : position <= StartOf(data, i)
    BY <1>1, <1>2, <1>3, CompleteIs
  <1>5. m \in Nat /\ m <= s /\ s <= N /\ s \in Nat
    BY <1>3, <1>4
  <1>6. /\ \A i \in 1 .. N : data[i] \in Records /\ Size(data[i]) \in Nat
        /\ \A i \in 1 .. N : StartOf(data, i + 1) = StartOf(data, i) + Size(data[i])
        /\ \A i \in 1 .. N + 1 : StartOf(data, i) \in Nat /\ StartOf(data, i) <= NoOffset
    <2>1. \A i \in 1 .. N : data[i] \in Records
      BY <1>3
    <2>2. \A i \in 1 .. N : Size(data[i]) \in Nat
      BY <2>1, RecordType
    <2>3. /\ \A i \in 1 .. N : StartOf(data, i + 1) = StartOf(data, i) + Size(data[i])
          /\ \A i \in 1 .. N + 1 : StartOf(data, i) \in Nat
      BY <1>3, Starts
    <2>4. \A i \in 1 .. N + 1 : StartOf(data, i) <= NoOffset
      BY <1>3, StartsFit
    <2>5. QED
      BY <2>1, <2>2, <2>3, <2>4
  <1> DEFINE off == [i \in 1 .. N |-> OffsetIn(data, s, i)]
             E == {[key |-> data[i].key, offset |-> off[i]] : i \in 1 .. N}
  <1> HIDE DEF N
  <1>7. off \in [1 .. N -> Nat]
    <2>1. \A i \in 1 .. N : OffsetIn(data, s, i) \in Nat
      BY <1>3, <1>6, NoOffsetType DEF OffsetIn
    <2>2. QED
      BY <2>1
  <1>8. index = Unique(E)
    <2>1. \A i \in 1 .. N : off[i] = OffsetIn(data, s, i)
      OBVIOUS
    <2> HIDE DEF off
    <2>2. E = Entries(data, s, N)
      BY <2>1 DEF Entries
    <2>3. QED
      BY <1>3, <2>2
  <1>9. \A i, j \in 1 .. N : i <= j => off[i] <= off[j]
    <2> TAKE i, j \in 1 .. N
    <2> SUFFICES ASSUME i <= j PROVE off[i] <= off[j]
      OBVIOUS
    <2>1. i \in 1 .. N + 1 /\ j \in 1 .. N + 1
      BY <1>3
    <2>2. CASE i = j
      BY <1>7, <2>2
    <2>3. CASE i < j /\ j <= s
      <3>1. StartOf(data, i) < StartOf(data, j)
        BY <1>3, <2>1, <2>3, StartsGrow DEF N
      <3>2. off[i] = StartOf(data, i) /\ off[j] = StartOf(data, j)
        BY <1>5, <2>3 DEF OffsetIn
      <3>3. QED
        BY <1>6, <2>1, <3>1, <3>2
    <2>4. CASE ~ (j <= s)
      <3>1. off[j] = NoOffset /\ off[i] \in {NoOffset, StartOf(data, i)}
        BY <2>4 DEF OffsetIn
      <3>2. QED
        BY <1>6, <2>1, <3>1, NoOffsetType
    <2>5. QED
      BY <2>2, <2>3, <2>4
  <1>10. ASSUME NEW i \in 1 .. N
         PROVE  ReadValueAt(file, off[i], data[i].key) = IF i <= m THEN {data[i].value} ELSE {}
    <2>1. i \in Nat /\ i \in 1 .. N + 1 /\ data[i] \in Records
      BY <1>3, <1>6
    <2>2. CASE i <= m
      <3>1. i \in 1 .. m /\ off[i] = StartOf(data, i)
        BY <1>5, <2>1, <2>2 DEF OffsetIn
      <3>2. StartOf(data, i) + Size(data[i]) <= Len(file)
        <4>1. StartOf(data, i) + Size(data[i]) <= position
          BY <1>4, <3>1
        <4>2. StartOf(data, i) \in Nat /\ Size(data[i]) \in Nat
          BY <1>6, <2>1
        <4>3. QED
          BY <1>3, <4>1, <4>2
      <3>3. LikeRecord(file, StartOf(data, i), data[i], Size(data[i]))
        BY <1>4, <3>1
      <3>4. ReadValueAt(file, StartOf(data, i), data[i].key) = {data[i].value}
        BY <1>3, <1>6, <2>1, <3>2, <3>3, ValueRead
      <3>5. QED
        BY <2>2, <3>1, <3>4
    <2>3. CASE s < i
      <3>1. off[i] = NoOffset
        BY <1>5, <2>1, <2>3 DEF OffsetIn
      <3>2. ReadValueAt(file, NoOffset, data[i].key) = {}
        BY <1>3, NoOffsetType, NothingBehindEnd
      <3>3. ~ (i <= m)
        BY <1>5, <2>1, <2>3
      <3>4. QED
        BY <3>1, <3>2, <3>3
    <2>4. CASE m < i /\ i <= s
      <3>1. m < s /\ ~ (i <= m)
        BY <1>5, <2>1, <2>4
      <3>2. failed /\ Len(file) = position
        <4> SUFFICES ASSUME ~ failed PROVE FALSE
          OBVIOUS
        <4>1. position = Len(stream)
          BY <1>3
        <4>2. StartOf(data, m + 1) + Rest(m) = position /\ Rest(m) < Size(data[m + 1])
          BY <1>4, <3>1
        <4>3. m + 1 \in 1 .. N /\ m + 2 \in 1 .. N + 1 /\ (m + 1) + 1 = m + 2 /\ s + 1 \in 1 .. N + 1
          BY <1>3, <1>5, <3>1
        <4>4. StartOf(data, m + 2) = StartOf(data, m + 1) + Size(data[m + 1])
          BY <1>6, <4>3
        <4>5. StartOf(data, m + 2) <= StartOf(data, s + 1)
          <5>1. CASE m + 1 = s
            BY <1>5, <1>6, <4>3, <5>1
          <5>2. CASE m + 1 < s
            <6>1. m + 2 < s + 1
              BY <1>5, <5>2
            <6>2. StartOf(data, m + 2) < StartOf(data, s + 1)
              BY <1>3, <4>3, <6>1, StartsGrow DEF N
            <6>3. QED
              BY <1>6, <4>3, <6>2
          <5>3. QED
            BY <1>5, <3>1, <5>1, <5>2
        <4>6. StartOf(data, m + 1) \in Nat /\ Size(data[m + 1]) \in Nat /\ Rest(m) \in Nat
              /\ StartOf(data, s + 1) \in Nat
          BY <1>4, <1>6, <3>1, <4>3
        <4>7. QED
          BY <1>3, <4>1, <4>2, <4>4, <4>5, <4>6
      <3>3. off[i] = StartOf(data, i)
        BY <2>4 DEF OffsetIn
      <3>4. CASE i = m + 1
        <4>1. ReadValueAt(file, StartOf(data, i), data[i].key) = {}
          <5>1. /\ Rest(m) \in Nat /\ Len(file) = StartOf(data, i) + Rest(m)
                /\ Rest(m) < Size(data[i]) /\ LikeRecord(file, StartOf(data, i), data[i], Rest(m))
            BY <1>4, <3>1, <3>2, <3>4
          <5>2. StartOf(data, i) \in Nat
            BY <1>6, <2>1
          <5>3. QED
            BY <1>3, <2>1, <5>1, <5>2, ValueCut
        <4>2. QED
          BY <3>1, <3>3, <4>1
      <3>5. CASE i # m + 1
        <4>1. i \in m + 2 .. s
          BY <1>5, <2>1, <2>4, <3>5
        <4>2. Len(file) <= StartOf(data, i) /\ StartOf(data, i) \in Nat
          BY <1>4, <1>6, <2>1, <3>1, <3>2, <4>1
        <4>3. ReadValueAt(file, StartOf(data, i), data[i].key) = {}
          BY <1>3, <4>2, NothingBehindEnd
        <4>4. QED
          BY <3>1, <3>3, <4>3
      <3>6. QED
        BY <3>4, <3>5
    <2>5. QED
      BY <1>5, <2>1, <2>2, <2>3, <2>4
  <1> HIDE DEF off
  <1>11. Lookup(k) = HitIn(data, N, m, k)
    <2>1. {e \in E : e.key = k} = {[key |-> k, offset |-> off[i]] : i \in {j \in 1 .. N : data[j].key = k}}
      OBVIOUS
    <2> HIDE DEF E
    <2>2. Readable(file, E, k, data, N, m, off)
      BY <1>7, <1>9, <1>10, <2>1 DEF Readable
    <2>3. FoundIn(file, E, k) = HitIn(data, N, m, k)
      BY <1>3, <1>5, <2>2, LookupIsNewest
    <2>4. QED
      BY <1>8, <2>3, LookupIs
  <1>12. TableOf(Table, N, m)
    <2> DEFINE records == [i \in DOMAIN data |-> [key |-> data[i].key, seq |-> i]]
    <2>1. Table = FlushedTable([base |-> 0, data |-> records], Cardinality(Complete), Torn)
      BY DEF Table
    <2>2. DOMAIN records = DOMAIN data /\ \A i \in DOMAIN data : records[i] = [key |-> data[i].key, seq |-> i]
      OBVIOUS
    <2>3. DOMAIN data = 1 .. N
      BY <1>3 DEF N
    <2> HIDE DEF records
    <2>4. Table.data = records /\ Table.good = m
      <3>1. \A x, c, torn : /\ FlushedTable(x, c, torn).data = x.data
                            /\ FlushedTable(x, c, torn).good = c
        BY DEF FlushedTable
      <3>2. Table.data = records /\ Table.good = Cardinality(Complete)
        BY <2>1, <3>1
      <3>3. QED
        BY <1>4, <3>2
    <2>5. DOMAIN Table.data = 1 .. N
      BY <2>2, <2>3, <2>4
    <2>6. \A i \in 1 .. N : Table.data[i] = [key |-> data[i].key, seq |-> i]
      BY <2>2, <2>3, <2>4
    <2>7. QED
      BY <2>4, <2>5, <2>6 DEF TableOf
  <1>13. {data[r.seq].value : r \in TableHit(Table, k)} = HitIn(data, N, m, k)
    BY <1>3, <1>12, TableHitIs
  <1>14. QED
    BY <1>11, <1>13

\* Records do not begin before earlier ones.
LEMMA StartsSorted ==
  ASSUME NEW d \in Seq(Records), NEW i \in 1 .. Len(d) + 1, NEW j \in 1 .. Len(d) + 1, i <= j
  PROVE  StartOf(d, i) <= StartOf(d, j)
  <1>1. StartOf(d, i) \in Nat /\ StartOf(d, j) \in Nat
    BY Starts
  <1>2. CASE i = j
    BY <1>1, <1>2
  <1>3. CASE i < j
    BY <1>1, <1>3, StartsGrow
  <1>4. QED
    BY <1>2, <1>3

\* The greatest element of a bounded set.
LEMMA MaxIs ==
  ASSUME NEW m \in Nat, NEW S \in SUBSET (1 .. m)
  PROVE  /\ {n \in S : n = Max(S)} = {n \in S : \A l \in S : l <= n}
         /\ \A n \in S : (\A l \in S : l <= n) => Max(S) = n
  <1>1. ASSUME NEW n \in S, \A l \in S : l <= n
        PROVE  Max(S) = n
    <2>1. n \in S /\ \A l \in S : n >= l
      BY <1>1
    <2>2. \A x \in S : (\A l \in S : x >= l) => x = n
      <3> TAKE x \in S
      <3> HAVE \A l \in S : x >= l
      <3>1. x >= n /\ n >= x /\ x \in Nat /\ n \in Nat
        BY <1>1
      <3>2. QED
        BY <3>1
    <2>3. QED
      BY <2>1, <2>2 DEF Max
  <1>2. ASSUME NEW n \in S, n = Max(S)
        PROVE  \A l \in S : l <= n
    <2> DEFINE D == {m - j : j \in S}
    <2>1. D \subseteq Nat /\ D # {}
      BY <1>2
    <2>2. PICK x \in D : \A y \in D : x <= y
      <3> HIDE DEF D
      <3>1. QED
        BY <2>1, LeastExists
    <2>3. PICK t \in S : x = m - t
      OBVIOUS
    <2>4. \A l \in S : l <= t
      <3> TAKE l \in S
      <3>1. m - l \in D
        OBVIOUS
      <3>2. m - t <= m - l
        BY <2>2, <2>3, <3>1
      <3>3. QED
        BY <3>2
    <2>5. Max(S) = t
      BY <1>1, <2>4
    <2>6. QED
      BY <1>2, <2>4, <2>5
  <1>3. QED
    BY <1>1, <1>2

\* What recoverState and the file say of the first m records, when the stream got s
\* records and g is the run of its loop.
Recovered(s, m, g) ==
  /\ s \in 0 .. Len(data) /\ m \in 0 .. s /\ ParseLoop(g, file)
  /\ index = Unique({EntryOf(data, i) : i \in 1 .. m} \cup g[StartOf(data, m + 1)])
  /\ Complete = 1 .. m /\ Cardinality(Complete) = m
  /\ StartOf(data, m + 1) \in Nat /\ StartOf(data, m + 1) <= position
  /\ Begun = 1 .. m \cup (IF StartOf(data, m + 1) < position THEN {m + 1} ELSE {})
  /\ \A i \in 1 .. m : ReadValueAt(file, StartOf(data, i), data[i].key) = {data[i].value}
  /\ m = s => position = StartOf(data, m + 1)
  /\ m < s => /\ Rest(m) \in Nat /\ Rest(m) < Size(data[m + 1])
              /\ StartOf(data, m + 1) + Rest(m) = position
              /\ LikeRecord(file, StartOf(data, m + 1), data[m + 1], Rest(m))

\* After recoverState its index has the complete records, and what the loop found
\* behind them.
LEMMA RecoveredIndex ==
  ASSUME FileInv, phase = "recovered"
  PROVE  \E s, m, g : Recovered(s, m, g)
  <1>1. FileTypes /\ FileBytes /\ StreamInv /\ index = Unique(Parsed(file))
    BY DEF FileInv, RecoveredInv
  <1>2. PICK s \in 0 .. next - 1 : Wrote(s)
    BY <1>1 DEF StreamInv
  <1>3. /\ data \in Seq(Records) /\ Len(data) \in Nat /\ s \in 0 .. Len(data)
        /\ file \in Seq(Bytes) /\ Len(file) \in Nat /\ position \in Nat /\ position <= Len(file)
    BY <1>1, <1>2 DEF FileTypes, FileBytes
  <1>4. PICK m \in 0 .. s :
           /\ Complete = 1 .. m /\ Cardinality(Complete) = m
           /\ StartOf(data, m + 1) \in Nat /\ StartOf(data, m + 1) <= position
           /\ Begun = 1 .. m \cup (IF StartOf(data, m + 1) < position THEN {m + 1} ELSE {})
           /\ \A i \in 1 .. m : LikeRecord(file, StartOf(data, i), data[i], Size(data[i]))
           /\ \A i \in 1 .. m : StartOf(data, i) + Size(data[i]) <= position
           /\ m = s => position = StartOf(data, m + 1) /\ position = Len(stream)
           /\ m < s => /\ Rest(m) \in Nat /\ Rest(m) < Size(data[m + 1])
                       /\ StartOf(data, m + 1) + Rest(m) = position
                       /\ LikeRecord(file, StartOf(data, m + 1), data[m + 1], Rest(m))
                       /\ \A i \in m + 2 .. s : position <= StartOf(data, i)
    BY <1>1, <1>2, <1>3, CompleteIs
  <1>5. PICK g : ParseLoop(g, file) /\ Parsed(file) = g[0]
    BY <1>3, ParseRuns
  <1>6. g[0] = {EntryOf(data, i) : i \in 1 .. m} \cup g[StartOf(data, m + 1)]
    <2>1. StartOf(data, m + 1) <= Len(file) /\ m \in 0 .. Len(data)
      BY <1>3, <1>4
    <2>2. QED
      BY <1>3, <1>4, <1>5, <2>1, RecordsParsed
  <1>7. ASSUME NEW i \in 1 .. m
        PROVE  ReadValueAt(file, StartOf(data, i), data[i].key) = {data[i].value}
    <2>1. i \in 1 .. Len(data) /\ i \in 1 .. Len(data) + 1 /\ data[i] \in Records
      BY <1>3
    <2>2. StartOf(data, i) \in Nat /\ Size(data[i]) \in Nat
      BY <1>3, <2>1, Starts, RecordType
    <2>3. StartOf(data, i) + Size(data[i]) <= position
      BY <1>4
    <2>4. StartOf(data, i) + Size(data[i]) <= Len(file)
      BY <1>3, <2>2, <2>3
    <2>5. LikeRecord(file, StartOf(data, i), data[i], Size(data[i]))
      BY <1>4
    <2>6. QED
      BY <1>3, <2>1, <2>2, <2>4, <2>5, ValueRead
  <1>8. Recovered(s, m, g)
    <2>1. index = Unique({EntryOf(data, i) : i \in 1 .. m} \cup g[StartOf(data, m + 1)])
      BY <1>1, <1>5, <1>6
    <2>2. QED
      BY <1>3, <1>4, <1>5, <1>7, <2>1 DEF Recovered
  <1>9. QED
    BY <1>8

\* The index made by recoverState, when no zeros follow the last byte written.
LEMMA RecoveredLookup ==
  ASSUME FileInv, phase = "recovered", Len(file) = position, NEW k
  PROVE  Lookup(k) = {data[r.seq].value : r \in TableHit(Table, k)}
  <1>1. /\ data \in Seq(Records) /\ Len(data) \in Nat /\ file \in Seq(Bytes)
        /\ Len(file) = position /\ position \in Nat
    BY DEF FileInv, FileTypes
  <1>2. PICK s, m, g : Recovered(s, m, g)
    BY RecoveredIndex
  <1>3. /\ s \in 0 .. Len(data) /\ m \in 0 .. s /\ ParseLoop(g, file)
        /\ index = Unique({EntryOf(data, i) : i \in 1 .. m} \cup g[StartOf(data, m + 1)])
        /\ Complete = 1 .. m /\ Cardinality(Complete) = m
        /\ StartOf(data, m + 1) \in Nat /\ StartOf(data, m + 1) <= position
        /\ Begun = 1 .. m \cup (IF StartOf(data, m + 1) < position THEN {m + 1} ELSE {})
        /\ \A i \in 1 .. m : ReadValueAt(file, StartOf(data, i), data[i].key) = {data[i].value}
    BY <1>2 DEF Recovered
  <1>4. m = s => position = StartOf(data, m + 1)
    BY <1>2 DEF Recovered
  <1>5. m < s => /\ Rest(m) \in Nat /\ Rest(m) < Size(data[m + 1])
                 /\ StartOf(data, m + 1) + Rest(m) = position
                 /\ LikeRecord(file, StartOf(data, m + 1), data[m + 1], Rest(m))
    BY <1>2 DEF Recovered
  <1>6. m \in Nat /\ s \in Nat /\ m <= s /\ s <= Len(data)
    BY <1>1, <1>3
  <1> DEFINE torn == IF Torn THEN 1 ELSE 0
             n == m + torn
             off == [i \in 1 .. n |-> StartOf(data, i)]
             E == {EntryOf(data, i) : i \in 1 .. n}
             o == StartOf(data, m + 1)
             size == HeaderSize(data[m + 1])
  <1>7. /\ Torn => /\ m < s /\ size <= Rest(m)
        /\ (m < s /\ size <= Rest(m)) => Torn
    <2>1. Begun \ Complete = IF o < position THEN {m + 1} ELSE {}
      <3>1. m + 1 \notin 1 .. m
        BY <1>6
      <3>2. QED
        BY <1>3, <3>1
    <2>2. Torn <=> (o < position /\ o + 2 * LenBytes + Len(data[m + 1].key) <= position)
      BY <2>1 DEF Torn
    <2>3. o < position => m < s
      BY <1>1, <1>3, <1>4, <1>6
    <2>4. CASE m < s
      <3>1. data[m + 1] \in Records
        BY <1>1, <1>6, <2>4
      <3>2. size \in Nat /\ size > 0 /\ size = 2 * LenBytes + Len(data[m + 1].key)
        <4> DEFINE l == Len(data[m + 1].key)
        <4>1. l \in Nat /\ LenBytes \in Nat \ {0}
          BY <3>1, RecordType
        <4>2. size = 2 * LenBytes + l
          BY DEF HeaderSize
        <4> HIDE DEF l, size
        <4>3. size \in Nat /\ size > 0
          BY <4>1, <4>2
        <4>4. QED
          BY <4>2, <4>3 DEF l
      <3> DEFINE l == Len(data[m + 1].key)
                 e == Rest(m)
      <3>3. l \in Nat /\ LenBytes \in Nat /\ e \in Nat /\ o + e = position /\ o \in Nat
            /\ size = 2 * LenBytes + l /\ size > 0
        BY <1>3, <1>5, <2>4, <3>1, <3>2, RecordType
      <3>4. Torn <=> (o < position /\ o + 2 * LenBytes + l <= position)
        BY <2>2
      <3> HIDE DEF l, e, o, size
      <3>5. Torn <=> size <= e
        BY <3>3, <3>4
      <3>6. QED
        BY <2>4, <3>5 DEF e
    <2>5. QED
      BY <1>6, <2>2, <2>3, <2>4
  <1>8. torn \in 0 .. 1 /\ n \in Nat /\ m <= n /\ n <= Len(data) /\ (Torn => n = m + 1) /\ (~ Torn => n = m)
    BY <1>6, <1>7
  <1>9. g[o] = IF Torn THEN {EntryOf(data, m + 1)} ELSE {}
    <2>1. CASE m = s
      <3>1. Len(file) <= o /\ o \in Nat
        BY <1>1, <1>3, <1>4, <2>1
      <3>2. g[o] = {}
        BY <1>1, <1>3, <3>1, NothingBehindEnd, ParseTurn
      <3>3. QED
        BY <1>6, <1>7, <2>1, <3>2
    <2>2. CASE m < s
      <3>1. data[m + 1] \in Records
        BY <1>1, <1>6, <2>2
      <3>2. Rest(m) \in Nat /\ Rest(m) < Size(data[m + 1]) /\ Len(file) = o + Rest(m)
            /\ LikeRecord(file, o, data[m + 1], Rest(m)) /\ o \in Nat
        BY <1>1, <1>3, <1>5, <2>2
      <3> DEFINE r == data[m + 1]
                 e == Rest(m)
                 f == file
      <3>3. /\ f \in Seq(Bytes) /\ ParseLoop(g, f) /\ o \in Nat /\ r \in Records /\ e \in Nat
            /\ Len(f) = o + e /\ e < Size(r) /\ LikeRecord(f, o, r, e)
        BY <1>1, <1>3, <3>1, <3>2
      <3>4. size = HeaderSize(r)
        OBVIOUS
      <3> HIDE DEF o, r, e, f, size
      <3>5. g[o] = IF size <= e THEN {[key |-> r.key, offset |-> o]} ELSE {}
        BY <3>3, <3>4, CutRecordParsed
      <3>6. Torn <=> size <= e
        BY <1>7, <2>2 DEF e
      <3>7. EntryOf(data, m + 1) = [key |-> r.key, offset |-> o]
        BY DEF EntryOf, o, r
      <3>8. QED
        BY <3>5, <3>6, <3>7
    <2>3. QED
      BY <1>6, <2>1, <2>2
  <1>10. index = Unique(E)
    <2>1. CASE Torn
      <3>1. 1 .. n = (1 .. m) \cup {m + 1}
        BY <1>6, <1>8, <2>1
      <3> HIDE DEF n
      <3>2. E = {EntryOf(data, i) : i \in 1 .. m} \cup g[o]
        BY <1>9, <2>1, <3>1
      <3>3. QED
        BY <1>3, <3>2
    <2>2. CASE ~ Torn
      <3>1. n = m
        BY <1>8, <2>2
      <3> HIDE DEF n
      <3>2. E = {EntryOf(data, i) : i \in 1 .. m} \cup g[o]
        BY <1>9, <2>2, <3>1
      <3>3. QED
        BY <1>3, <3>2
    <2>3. QED
      BY <2>1, <2>2
  <1> HIDE DEF n, torn
  <1>11. Readable(file, E, k, data, n, m, off)
    <2>1. \A i \in 1 .. n : i \in 1 .. Len(data) /\ i \in 1 .. Len(data) + 1
      BY <1>1, <1>8
    <2>2. \A i \in 1 .. Len(data) + 1 : StartOf(data, i) \in Nat
      BY <1>1, Starts
    <2>3. off \in [1 .. n -> Nat]
      BY <2>1, <2>2
    <2>4. \A i, j \in 1 .. n : i <= j => off[i] <= off[j]
      BY <1>1, <2>1, StartsSorted
    <2>5. \A i \in 1 .. n : off[i] = StartOf(data, i) /\ EntryOf(data, i) = [key |-> data[i].key, offset |-> off[i]]
      BY DEF EntryOf
    <2> HIDE DEF off
    <2>6. {e \in E : e.key = k} = {[key |-> k, offset |-> off[i]] : i \in {j \in 1 .. n : data[j].key = k}}
      <3>1. E = {[key |-> data[i].key, offset |-> off[i]] : i \in 1 .. n}
        BY <2>5
      <3> HIDE DEF E
      <3>2. QED
        BY <3>1
    <2>7. ASSUME NEW i \in 1 .. n, data[i].key = k
          PROVE  ReadValueAt(file, off[i], k) = IF i <= m THEN {data[i].value} ELSE {}
      <3>1. CASE i <= m
        <4>1. i \in 1 .. m
          BY <1>6, <1>8, <3>1
        <4>2. QED
          BY <1>3, <2>5, <2>7, <3>1, <4>1
      <3>2. CASE ~ (i <= m)
        <4>1. i = m + 1 /\ m < s
          BY <1>6, <1>7, <1>8, <3>2
        <4>2. data[m + 1] \in Records
          BY <1>1, <1>6, <4>1
        <4>3. Rest(m) \in Nat /\ Rest(m) < Size(data[m + 1]) /\ Len(file) = o + Rest(m)
              /\ LikeRecord(file, o, data[m + 1], Rest(m)) /\ o \in Nat
          BY <1>1, <1>3, <1>5, <4>1
        <4> HIDE DEF o
        <4>4. ReadValueAt(file, o, data[m + 1].key) = {}
          BY <1>1, <4>2, <4>3, ValueCut
        <4>5. QED
          BY <2>5, <2>7, <3>2, <4>1, <4>4 DEF o
      <3>3. QED
        BY <3>1, <3>2
    <2>8. QED
      BY <2>3, <2>4, <2>6, <2>7 DEF Readable
  <1>12. Lookup(k) = HitIn(data, n, m, k)
    <2> HIDE DEF E, off
    <2>1. FoundIn(file, E, k) = HitIn(data, n, m, k)
      BY <1>6, <1>8, <1>11, LookupIsNewest
    <2>2. QED
      BY <1>10, <2>1, LookupIs
  <1>13. TableOf(Table, n, m)
    <2> DEFINE records == [i \in DOMAIN data |-> [key |-> data[i].key, seq |-> i]]
               t == FlushedTable([base |-> 0, data |-> records], Cardinality(Complete), Torn)
    <2>1. Table = RecoveredTable(t)
      BY DEF Table
    <2>2. \A i \in 1 .. Len(data) : records[i] = [key |-> data[i].key, seq |-> i]
      BY <1>1
    <2> DEFINE T == {records[i] : i \in 1 .. Len(data)}
    <2>3. records \in Seq(T) /\ Len(records) = Len(data)
      <3>1. DOMAIN records = 1 .. Len(data) /\ records = [i \in DOMAIN records |-> records[i]]
        BY <1>1
      <3> HIDE DEF records
      <3>2. records \in [1 .. Len(data) -> T]
        BY <3>1
      <3> HIDE DEF T
      <3>3. QED
        BY <1>1, <3>2
    <2> HIDE DEF records, T
    <2>4. t.data = records /\ t.good = m /\ t.torn = Torn
      BY <1>3 DEF FlushedTable
    <2>5. Table.data = SubSeq(records, 1, n) /\ Table.good = m
      <3>1. RecoveredTable(t).data = SubSeq(t.data, 1, t.good + (IF t.torn THEN 1 ELSE 0))
            /\ RecoveredTable(t).good = t.good
        BY DEF RecoveredTable, FlushedTable
      <3> HIDE DEF t
      <3>2. t.good + (IF t.torn THEN 1 ELSE 0) = n
        BY <2>4 DEF n, torn
      <3>3. QED
        BY <2>1, <2>4, <3>1, <3>2
    <2>6. DOMAIN SubSeq(records, 1, n) = 1 .. n /\ \A i \in 1 .. n : SubSeq(records, 1, n)[i] = records[i]
      BY <1>8, <2>3
    <2>7. \A i \in 1 .. n : i \in 1 .. Len(data)
      BY <1>1, <1>8
    <2>8. QED
      BY <2>2, <2>5, <2>6, <2>7 DEF TableOf
  <1>14. {data[r.seq].value : r \in TableHit(Table, k)} = HitIn(data, n, m, k)
    BY <1>8, <1>13, TableHitIs
  <1>15. QED
    BY <1>12, <1>14

\* What CompleteFound says of the key k.
KeyFound(k) ==
  LET begun == {i \in Begun : data[i].key = k}
  IN  begun = {} \/ Max(begun) \in Complete =>
          Lookup(k) = {data[i].value : i \in {n \in begun : n = Max(begun)}}

\* Zeros behind the last byte written neither hide a complete record nor make one up.
LEMMA CompleteLookup ==
  ASSUME PlainRecordKeys, FileInv, phase = "recovered", NEW k \in RecordKeys
  PROVE  KeyFound(k)
  <1> DEFINE begun == {i \in Begun : data[i].key = k}
  <1> SUFFICES ASSUME begun = {} \/ Max(begun) \in Complete
               PROVE  Lookup(k) = {data[i].value : i \in {n \in begun : n = Max(begun)}}
    BY DEF KeyFound
  <1>1. /\ data \in Seq(Records) /\ Len(data) \in Nat /\ file \in Seq(Bytes) /\ Len(file) \in Nat
        /\ position <= Len(file) /\ position \in Nat /\ \A i \in position + 1 .. Len(file) : file[i] = 0
    BY DEF FileInv, FileTypes, FileBytes
  <1>2. PICK s, m, g : Recovered(s, m, g)
    BY RecoveredIndex
  <1>3. /\ s \in 0 .. Len(data) /\ m \in 0 .. s /\ ParseLoop(g, file)
        /\ index = Unique({EntryOf(data, i) : i \in 1 .. m} \cup g[StartOf(data, m + 1)])
        /\ Complete = 1 .. m
        /\ StartOf(data, m + 1) \in Nat /\ StartOf(data, m + 1) <= position
        /\ Begun = 1 .. m \cup (IF StartOf(data, m + 1) < position THEN {m + 1} ELSE {})
        /\ \A i \in 1 .. m : ReadValueAt(file, StartOf(data, i), data[i].key) = {data[i].value}
    BY <1>2 DEF Recovered
  <1>4. m = s => position = StartOf(data, m + 1)
    BY <1>2 DEF Recovered
  <1>5. m < s => /\ Rest(m) \in Nat /\ Rest(m) < Size(data[m + 1])
                 /\ StartOf(data, m + 1) + Rest(m) = position
                 /\ LikeRecord(file, StartOf(data, m + 1), data[m + 1], Rest(m))
    BY <1>2 DEF Recovered
  <1>6. m \in Nat /\ s \in Nat /\ m <= s /\ s <= Len(data)
    BY <1>1, <1>3
  <1> DEFINE mine == {i \in 1 .. m : data[i].key = k}
             o == StartOf(data, m + 1)
             off == [i \in 1 .. m |-> StartOf(data, i)]
             E == {EntryOf(data, i) : i \in 1 .. m} \cup g[o]
  <1>7. ~ (o < position /\ data[m + 1].key = k)
    <2> SUFFICES ASSUME o < position, data[m + 1].key = k PROVE FALSE
      OBVIOUS
    <2>1. m + 1 \in begun /\ begun \subseteq 1 .. m + 1 /\ m + 1 \in Nat
      BY <1>3, <1>6
    <2> HIDE DEF begun
    <2>2. \A l \in begun : l <= m + 1
      BY <1>6, <2>1
    <2>3. Max(begun) = m + 1
      BY <2>1, <2>2, MaxIs
    <2>4. m + 1 \notin Complete /\ begun # {}
      BY <1>3, <1>6, <2>1
    <2>5. QED
      BY <2>3, <2>4
  <1>8. begun = mine
    BY <1>3, <1>7
  <1>9. \A e \in g[o] : e.key # k
    <2> SUFFICES ASSUME NEW e \in g[o], e.key = k PROVE FALSE
      OBVIOUS
    <2>1. CASE position = o
      <3> HIDE DEF o
      <3>1. o \in Nat /\ o <= o /\ \A i \in o + 1 .. Len(file) : file[i] = 0
        BY <1>1, <2>1
      <3>2. e.key \notin RecordKeys
        BY <1>1, <1>3, <3>1, NoKeyInZeros
      <3>3. QED
        BY <3>2
    <2>2. CASE m < s /\ position # o
      <3> DEFINE r == data[m + 1]
                 n == Rest(m)
                 f == file
      <3>1. r \in Records
        BY <1>1, <1>6, <2>2
      <3>2. /\ f \in Seq(Bytes) /\ ParseLoop(g, f) /\ o \in Nat /\ n \in Nat /\ n < Size(r)
            /\ LikeRecord(f, o, r, n) /\ o + n <= Len(f) /\ \A i \in o + n + 1 .. Len(f) : f[i] = 0
        BY <1>1, <1>3, <1>5, <2>2
      <3>3. o + n = position
        BY <1>5, <2>2
      <3> HIDE DEF r, n, f, o
      <3>4. n > 0 /\ e.key = r.key
        BY <3>1, <3>2, TornKeyOnly
      <3>5. o < position /\ r.key = k
        BY <3>2, <3>3, <3>4
      <3>6. QED
        BY <1>7, <3>5 DEF r
    <2>3. QED
      BY <1>4, <1>6, <2>1, <2>2
  <1>10. Readable(file, E, k, data, m, m, off)
    <2>1. \A i \in 1 .. m : i \in 1 .. Len(data) /\ i \in 1 .. Len(data) + 1
      BY <1>1, <1>6
    <2>2. \A i \in 1 .. Len(data) + 1 : StartOf(data, i) \in Nat
      BY <1>1, Starts
    <2>3. off \in [1 .. m -> Nat]
      BY <2>1, <2>2
    <2>4. \A i, j \in 1 .. m : i <= j => off[i] <= off[j]
      BY <1>1, <2>1, StartsSorted
    <2>5. \A i \in 1 .. m : off[i] = StartOf(data, i) /\ EntryOf(data, i) = [key |-> data[i].key, offset |-> off[i]]
      BY DEF EntryOf
    <2> HIDE DEF off, o
    <2>6. {e \in E : e.key = k} = {[key |-> k, offset |-> off[i]] : i \in {j \in 1 .. m : data[j].key = k}}
      <3> DEFINE F == {[key |-> data[i].key, offset |-> off[i]] : i \in 1 .. m}
      <3>1. E = F \cup g[o]
        BY <2>5
      <3>2. {e \in F : e.key = k} = {[key |-> k, offset |-> off[i]] : i \in {j \in 1 .. m : data[j].key = k}}
        OBVIOUS
      <3> HIDE DEF E, F
      <3>3. {e \in E : e.key = k} = {e \in F : e.key = k}
        BY <1>9, <3>1
      <3>4. QED
        BY <3>2, <3>3
    <2>7. ASSUME NEW i \in 1 .. m, data[i].key = k
          PROVE  ReadValueAt(file, off[i], k) = IF i <= m THEN {data[i].value} ELSE {}
      <3>1. i <= m /\ off[i] = StartOf(data, i)
        BY <1>6, <2>5
      <3>2. ReadValueAt(file, StartOf(data, i), data[i].key) = {data[i].value}
        BY <1>3
      <3>3. QED
        BY <2>7, <3>1, <3>2
    <2>8. QED
      BY <2>3, <2>4, <2>6, <2>7 DEF Readable
  <1>11. Lookup(k) = HitIn(data, m, m, k)
    <2> HIDE DEF E, off
    <2>1. FoundIn(file, E, k) = HitIn(data, m, m, k)
      BY <1>6, <1>10, LookupIsNewest
    <2>2. QED
      BY <1>3, <2>1, LookupIs DEF E
  <1>12. HitIn(data, m, m, k) = {data[i].value : i \in {n \in begun : n = Max(begun)}}
    <2>1. {n \in mine : n = Max(mine)} = {n \in mine : \A l \in mine : l <= n}
      <3>1. mine \in SUBSET (1 .. m)
        OBVIOUS
      <3> HIDE DEF mine
      <3>2. QED
        BY <1>6, <3>1, MaxIs
    <2> DEFINE last == {j \in 1 .. m : /\ data[j].key = k /\ j <= m
                                       /\ \A l \in 1 .. m : l > j => data[l].key # k}
    <2>2. {n \in mine : \A l \in mine : l <= n} = last
      BY <1>6
    <2>3. HitIn(data, m, m, k) = {data[i].value : i \in last}
      BY DEF HitIn
    <2> HIDE DEF begun, mine, last
    <2>4. QED
      BY <1>8, <2>1, <2>2, <2>3
  <1>13. QED
    BY <1>11, <1>12

\* LookupsMatchSSTable: before a restart, and after it if the file was not preallocated,
\* readValueAt and recoverState find in the bytes of a file what SSTable says of it.
THEOREM LookupsFindRecords == Spec => []LookupsMatchSSTable
  <1>1. FileInv => LookupsMatchSSTable
    <2> SUFFICES ASSUME FileInv, phase \in {"flushed", "recovered"},
                        Len(file) = position \/ (phase = "flushed" /\ ~failed),
                        NEW k \in RecordKeys
                 PROVE  Lookup(k) = {data[r.seq].value : r \in TableHit(Table, k)}
      BY DEF LookupsMatchSSTable
    <2>1. CASE phase = "flushed"
      BY <2>1, FlushedLookup
    <2>2. CASE phase = "recovered"
      BY <2>2, RecoveredLookup
    <2>3. QED
      BY <2>1, <2>2
  <1>2. QED
    BY <1>1, FileContinuesStream, PTL

\* CompleteFound: recoverState finds the complete records of a preallocated file, too,
\* and nothing for a key that was not being written, if keys are plain.
THEOREM CompleteRecordsFound == PlainRecordKeys /\ Spec => []CompleteFound
  <1>1. ASSUME PlainRecordKeys, FileInv PROVE CompleteFound
    <2> SUFFICES ASSUME phase = "recovered" PROVE \A k \in RecordKeys : KeyFound(k)
      BY DEF CompleteFound, KeyFound
    <2>1. QED
      BY <1>1, CompleteLookup
  <1>2. PlainRecordKeys => (FileInv => CompleteFound)
    BY <1>1
  <1>3. CASE PlainRecordKeys
    <2>1. FileInv => CompleteFound
      BY <1>2, <1>3
    <2>2. QED
      BY <2>1, FileContinuesStream, PTL
  <1>4. QED
    BY <1>3
================================================================================
