------------------------------- MODULE Wire -------------------------------
(***************************************************************************)
(* What travels between the ranks of LSMIOClient: a command, its key and   *)
(* its value in one buffer, and the list of tuples that answers            *)
(* metaGetAll.  A text is a sequence of tokens; the separators are tokens  *)
(* like any other, so they may occur inside a key or a value.              *)
(***************************************************************************)
EXTENDS Integers, Sequences, FiniteSets, SequencesExt

\* _COL_SEPARATOR_STR and the two separators of vectorTupleSerialize.
ColSeparator == ";"
TupleSeparator == "|"
LineEnd == "\n"

(***************************************************************************)
(* LSMIOClient::serializeCmd and deSerializeCmd: the command ends at the   *)
(* first separator, the key at the next one, the value is all the rest.    *)
(***************************************************************************)
SerializeCmd(command, key, value) ==
  command \o <<ColSeparator>> \o key \o <<ColSeparator>> \o value

FirstSeparator(buf, from) ==
  CHOOSE i \in from .. Len(buf) : /\ buf[i] = ColSeparator
                                  /\ \A j \in from .. i - 1 : buf[j] # ColSeparator

\* A plausible bug: the key ends at the last separator of the buffer.
LastSeparator(buf, from) ==
  CHOOSE i \in from .. Len(buf) : /\ buf[i] = ColSeparator
                                  /\ \A j \in i + 1 .. Len(buf) : buf[j] # ColSeparator

KeyAtLastSeparator(buf) ==
  LET p == FirstSeparator(buf, 1)
      q == LastSeparator(buf, p + 1)
  IN  [command |-> SubSeq(buf, 1, p - 1),
       key     |-> SubSeq(buf, p + 1, q - 1),
       value   |-> SubSeq(buf, q + 1, Len(buf))]

DeSerializeCmd(buf) ==
  LET p == FirstSeparator(buf, 1)
      q == FirstSeparator(buf, p + 1)
  IN  [command |-> SubSeq(buf, 1, p - 1),
       key     |-> SubSeq(buf, p + 1, q - 1),
       value   |-> SubSeq(buf, q + 1, Len(buf))]

(***************************************************************************)
(* vectorTupleSerialize, one line per tuple, and vectorTupleDeserialize,   *)
(* which skips empty lines and lines without a separator.  The tuples are  *)
(* a set: nobody depends on their order.                                   *)
(***************************************************************************)
VectorTupleSerialize(tuples) ==
  LET line(t) == t.key \o <<TupleSeparator>> \o t.value \o <<LineEnd>>
      ordered == SetToSeq(tuples)
  IN  FlattenSeq([i \in 1 .. Len(ordered) |-> line(ordered[i])])

Lines(text) ==
  LET ends  == {0, Len(text) + 1} \cup {i \in 1 .. Len(text) : text[i] = LineEnd}
      lines == {SubSeq(text, p[1] + 1, p[2] - 1) :
                  p \in {q \in ends \X ends :
                           /\ q[1] < q[2]
                           /\ \A e \in ends : e <= q[1] \/ q[2] <= e}}
  IN  lines \ {<<>>}

TupleOfLine(line) ==
  LET d == CHOOSE i \in 1 .. Len(line) : /\ line[i] = TupleSeparator
                                         /\ \A j \in 1 .. i - 1 : line[j] # TupleSeparator
  IN  [key |-> SubSeq(line, 1, d - 1), value |-> SubSeq(line, d + 1, Len(line))]

VectorTupleDeserialize(text) ==
  {TupleOfLine(l) : l \in {m \in Lines(text) : \E i \in 1 .. Len(m) : m[i] = TupleSeparator}}
=============================================================================
