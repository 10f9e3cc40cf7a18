-------------------------- MODULE CollectiveProofs --------------------------
(***************************************************************************)
(* Proofs about the collective I/O protocol: what travels between ranks,   *)
(* when the store may be used, and what the calls of the ranks do to it,   *)
(* for every number of ranks, every number of calls and every interleaving.*)
(***************************************************************************)
EXTENDS CollectiveIO, SequenceTheorems, FiniteSetTheorems, WellFoundedInduction, TLAPS

(***************************************************************************)
(* Commands survive serializeCmd and deSerializeCmd.                       *)
(***************************************************************************)
\* The separator that is found is the only one with no separator before it.
LEMMA SeparatorFound ==
  ASSUME NEW text, NEW from \in Nat, NEW n \in Nat, Len(text) \in Nat,
         n \in from .. Len(text), text[n] = ColSeparator,
         \A j \in from .. n - 1 : text[j] # ColSeparator
  PROVE  FirstSeparator(text, from) = n
  <1> DEFINE First(i) == /\ text[i] = ColSeparator
                         /\ \A j \in from .. i - 1 : text[j] # ColSeparator
  <1>1. First(n)
    OBVIOUS
  <1>2. \A i \in from .. Len(text) : First(i) => i = n
    <2> SUFFICES ASSUME NEW i \in from .. Len(text), First(i), i # n
                 PROVE  FALSE
      OBVIOUS
    <2>1. CASE i < n
      BY <2>1
    <2>2. CASE n < i
      BY <2>2
    <2>3. QED
      BY <2>1, <2>2
  <1> HIDE DEF First
  <1>3. (CHOOSE i \in from .. Len(text) : First(i)) = n
    BY <1>1, <1>2
  <1>4. QED
    BY <1>3 DEF FirstSeparator, First

\* The part of a text that equals another text element by element.
LEMMA Cut ==
  ASSUME NEW Symbol, NEW text \in Seq(Symbol), NEW part \in Seq(Symbol), NEW a \in Nat,
         a + Len(part) <= Len(text),
         \A i \in 1 .. Len(part) : text[a + i] = part[i]
  PROVE  SubSeq(text, a + 1, a + Len(part)) = part
  <1> DEFINE n == Len(part)
             cut == SubSeq(text, a + 1, a + n)
  <1>1. n \in Nat /\ Len(text) \in Nat
    OBVIOUS
  <1>2. a + 1 \in Int /\ a + n \in Int /\ \A i \in a + 1 .. a + n : text[i] \in Symbol
    BY <1>1
  <1>3. /\ cut \in Seq(Symbol)
        /\ Len(cut) = IF a + 1 <= a + n THEN (a + n) - (a + 1) + 1 ELSE 0
        /\ \A i \in 1 .. (a + n) - (a + 1) + 1 : cut[i] = text[(a + 1) + i - 1]
    BY <1>2, SubSeqProperties
  <1> HIDE DEF cut
  <1>4. Len(cut) = Len(part)
    BY <1>1, <1>3
  <1>5. ASSUME NEW i \in 1 .. Len(part)
        PROVE  cut[i] = part[i]
    <2>1. i \in 1 .. (a + n) - (a + 1) + 1 /\ (a + 1) + i - 1 = a + i
      BY <1>1
    <2>2. QED
      BY <1>3, <2>1
  <1>6. cut = part
    BY <1>3, <1>4, <1>5, SeqEqual
  <1>7. QED
    BY <1>6 DEF cut

\* What the receiver cuts out of a buffer is the command, the key and the value
\* that the sender put into it, whatever the value contains, as long as the key
\* does not contain the separator (LSMIOClient::serializeCmd, deSerializeCmd).
THEOREM CommandRoundTrip ==
  ASSUME NEW Symbol, ColSeparator \in Symbol,
         NEW command \in Seq(Symbol), NEW key \in Seq(Symbol), NEW value \in Seq(Symbol),
         \A i \in 1 .. Len(command) : command[i] # ColSeparator,
         \A i \in 1 .. Len(key) : key[i] # ColSeparator
  PROVE  DeSerializeCmd(SerializeCmd(command, key, value))
           = [command |-> command, key |-> key, value |-> value]
  <1> DEFINE text == SerializeCmd(command, key, value)
             p == Len(command) + 1
             q == Len(command) + Len(key) + 2
  <1>1. /\ text \in Seq(Symbol) /\ Len(text) = Len(command) + Len(key) + Len(value) + 2
        /\ p \in Nat /\ q \in Nat /\ Len(command) \in Nat /\ Len(key) \in Nat
        /\ Len(value) \in Nat /\ Len(text) \in Nat
    BY DEF SerializeCmd
  <1>2. /\ \A i \in 1 .. Len(command) : text[i] = command[i]
        /\ text[p] = ColSeparator
        /\ \A i \in 1 .. Len(key) : text[p + i] = key[i]
        /\ text[q] = ColSeparator
        /\ \A i \in 1 .. Len(value) : text[q + i] = value[i]
    BY DEF SerializeCmd
  <1> HIDE DEF text
  <1>3. FirstSeparator(text, 1) = p
    <2>1. p \in 1 .. Len(text) /\ p - 1 = Len(command)
      BY <1>1
    <2>2. ASSUME NEW j \in 1 .. p - 1
          PROVE  text[j] # ColSeparator
      BY <1>2, <2>1
    <2>3. p \in Nat /\ Len(text) \in Nat
      BY <1>1
    <2> HIDE DEF p
    <2>4. QED
      BY <1>2, <2>1, <2>2, <2>3, SeparatorFound
  <1>4. FirstSeparator(text, p + 1) = q
    <2>1. q \in p + 1 .. Len(text)
      BY <1>1
    <2>2. ASSUME NEW j \in p + 1 .. q - 1
          PROVE  text[j] # ColSeparator
      <3>1. j - p \in 1 .. Len(key) /\ j = p + (j - p)
        BY <1>1
      <3>2. QED
        BY <1>2, <3>1
    <2>3. p + 1 \in Nat /\ q \in Nat /\ Len(text) \in Nat
      BY <1>1
    <2> HIDE DEF p, q
    <2>4. QED
      BY <1>2, <2>1, <2>2, <2>3, SeparatorFound
  <1> HIDE DEF p, q
  <1>5. DeSerializeCmd(text) = [command |-> SubSeq(text, 1, p - 1),
                               key |-> SubSeq(text, p + 1, q - 1),
                               value |-> SubSeq(text, q + 1, Len(text))]
    BY <1>3, <1>4 DEF DeSerializeCmd
  <1>6. SubSeq(text, 1, p - 1) = command
    <2>1. p - 1 = Len(command)
      BY <1>1 DEF p
    <2>2. QED
      BY <1>1, <1>2, <2>1
  <1>7. SubSeq(text, p + 1, q - 1) = key
    <2>1. p \in Nat /\ p + Len(key) = q - 1 /\ p + Len(key) <= Len(text)
      BY <1>1 DEF p, q
    <2>2. SubSeq(text, p + 1, p + Len(key)) = key
      BY <1>1, <1>2, <2>1, Cut
    <2>3. QED
      BY <2>1, <2>2
  <1>8. SubSeq(text, q + 1, Len(text)) = value
    <2>1. q \in Nat /\ q + Len(value) = Len(text) /\ q + Len(value) <= Len(text)
      BY <1>1 DEF q
    <2>2. SubSeq(text, q + 1, q + Len(value)) = value
      BY <1>1, <1>2, <2>1, Cut
    <2>3. QED
      BY <2>1, <2>2
  <1>9. QED
    BY <1>5, <1>6, <1>7, <1>8 DEF text

-----------------------------------------------------------------------------
(***************************************************************************)
(* The store is there as long as somebody may use it.  The property is not *)
(* inductive: that nobody serves any more when rank 0 closes the store     *)
(* comes from the join in close(), and that the thread does not start      *)
(* before the store is opened from the order in _init.  With it goes that  *)
(* the store's writeBarrier drains for a client only while the server      *)
(* thread is in that call.                                                 *)
(***************************************************************************)
BarrierServed ==
  \A r \in draining \cap Clients :
    server = "exec" /\ next = r /\ buf[r].command = WRITE_BARRIER

OpenInv ==
  /\ DOMAIN pc = Ranks
  /\ BarrierServed
  /\ StoreOpenWhenUsed
  /\ pc[0] = "init" => server = "off"
  /\ ~ServeLocal => server = "off"
  /\ pc[0] \in {"b99", "close", "closed"} => server \in {"off", "done"}

\* The commands differ from each other.
LEMMA CommandsApart ==
  /\ \A c \in Writes : c \notin Requests
  /\ GET \notin {META_GET, META_PUT} /\ PUT # META_PUT /\ DEL # META_PUT /\ PUT # DEL
  /\ WRITE_BARRIER \notin {GET, META_GET, META_GET_ALL, PUT, DEL, META_PUT}
  /\ EOL_COMMAND \notin Requests /\ WRITE_BARRIER \notin Writes
  BY DEF Writes, Requests, EOL_COMMAND, GET, PUT, DEL, META_GET, META_GET_ALL, META_PUT,
         READ_BARRIER, WRITE_BARRIER

\* Rank 0 is a rank and no client.
LEMMA OwnerInRanks == 0 \in Ranks /\ 0 \notin Clients
  BY SizeAssumption DEF Ranks, Clients

\* Writing to the store does not close it.
LEMMA MutateKeepsOpen ==
  ASSUME NEW m, Mutate(m)
  PROVE  open' = open /\ draining' = draining
  BY DEF Mutate

\* The server's callback does not close the store; a barrier it returns from is over.
LEMMA CallbackKeepsOpen ==
  ASSUME NEW rank, NEW m, Callback(rank, m)
  PROVE  /\ open' = open /\ draining' \subseteq draining
         /\ m.command = WRITE_BARRIER => rank \notin draining'
  <1>1. CASE m.command \in Writes
    BY <1>1, MutateKeepsOpen, CommandsApart DEF Callback, Writes, Requests
  <1>2. CASE m.command \notin Writes /\ m.command = WRITE_BARRIER
    BY <1>2 DEF Callback, BarrierReturns
  <1>3. CASE m.command \notin Writes /\ m.command # WRITE_BARRIER
    BY <1>3 DEF Callback, storeVars
  <1>4. QED
    BY <1>1, <1>2, <1>3

\* Every step keeps the order in which store and server begin and end.
LEMMA OpenStep == OpenInv /\ [Next]_vars => OpenInv'
  <1> SUFFICES ASSUME OpenInv, [Next]_vars
               PROVE  OpenInv'
    OBVIOUS
  <1> USE OwnerInRanks DEF OpenInv, StoreOpenWhenUsed, BarrierServed
  <1>1. CASE UNCHANGED <<pc, server, next, buf, open>> /\ draining' \cap Clients = draining \cap Clients
    <2>1. BarrierServed'
      BY <1>1
    <2>2. QED
      BY <1>1, <2>1 DEF ServeLocal
  <1>2. CASE OpenLocal
    BY <1>2 DEF OpenLocal
  <1>3. ASSUME NEW r \in Ranks, PassStart(r)
        PROVE  OpenInv'
    BY <1>3 DEF PassStart, serverVars, storeVars
  <1>4. CASE OwnCall
    <2>1. UNCHANGED <<pc, server, next, buf>>
      BY <1>4 DEF OwnCall, LocalWrite, LocalGet, LocalGetAll, LocalBarrierBegins, LocalBarrier,
                  LocalCall, serverVars
    <2>2. open' = open /\ draining' \cap Clients = draining \cap Clients
      BY <1>4, MutateKeepsOpen
         DEF OwnCall, LocalWrite, LocalGet, LocalGetAll, LocalBarrierBegins, BarrierBegins,
             LocalBarrier, BarrierReturns, storeVars
    <2>3. QED
      BY <1>1, <2>1, <2>2
  <1>5. CASE CloseLocal
    BY <1>5 DEF CloseLocal, MayClose, serverVars, storeVars
  <1>6. CASE JoinServer
    BY <1>6 DEF JoinServer, serverVars, storeVars
  <1>7. CASE LeaveEnd
    BY <1>7 DEF LeaveEnd, serverVars, storeVars
  <1>8. CASE CloseStore
    BY <1>8 DEF CloseStore, serverVars
  <1>9. CASE ServerCheck
    BY <1>9 DEF ServerCheck, storeVars, ServeLocal
  <1>10. CASE ServerRecv
    BY <1>10 DEF ServerRecv, storeVars
  <1>11. CASE ServerEol
    <2>1. draining \cap Clients = {}
      BY <1>11, CommandsApart DEF ServerEol, Requests
    <2>2. QED
      BY <1>11, <2>1 DEF ServerEol, NextMessage, storeVars
  <1>12. CASE ServerExec
    <2>1. open' = open /\ pc' = pc /\ draining' \subseteq draining
      BY <1>12, CallbackKeepsOpen DEF ServerExec
    <2>2. server = "exec" /\ server' \in {"exec", "check"}
      BY <1>12 DEF ServerExec, NextMessage
    <2>3. buf[next].command = WRITE_BARRIER => next \notin draining'
      BY <1>12, CallbackKeepsOpen DEF ServerExec
    <2>4. draining' \cap Clients = {}
      BY <2>1, <2>3
    <2>5. BarrierServed'
      BY <2>4
    <2>6. QED
      BY <2>1, <2>2, <2>5
  <1>13. CASE ServerBarrierBegins
    BY <1>13 DEF ServerBarrierBegins, BarrierBegins, serverVars
  <1>14. CASE FlushStep
    BY <1>1, <1>14 DEF FlushStep, StorePops, StoreFlushes, serverVars
  <1>15. ASSUME NEW r \in Clients, ClientStep(r)
         PROVE  OpenInv'
    <2>1. pc'[0] = pc[0] /\ DOMAIN pc' = Ranks
      BY <1>15 DEF ClientStep, OpenRemote, PassStart, RemoteCall, RemoteWrite, RemoteRequest,
                   SendReturns, RecvReply, CloseRemote, EolSent, PassEnd
    <2>2. UNCHANGED <<server, open, next, buf, draining>>
      BY <1>15 DEF ClientStep, OpenRemote, PassStart, RemoteCall, RemoteWrite, RemoteRequest,
                   SendReturns, RecvReply, CloseRemote, EolSent, PassEnd, serverVars, storeVars
    <2>3. QED
      BY <2>1, <2>2 DEF ServeLocal
  <1>16. QED
    <2>1. CASE UNCHANGED vars
      BY <1>1, <2>1 DEF vars, serverVars, storeVars
    <2>2. CASE OwnerStep
      BY <2>2, <1>2, <1>3, <1>4, <1>5, <1>6, <1>7, <1>8 DEF OwnerStep
    <2>3. CASE ServerStep
      BY <2>3, <1>9, <1>10, <1>11, <1>12, <1>13 DEF ServerStep
    <2>4. QED
      BY <2>1, <2>2, <2>3, <1>14, <1>15 DEF Next

\* With any number of ranks and whatever they call, neither the server thread
\* nor rank 0 uses the store before _init has opened it or after close() has
\* begun to close it.
THEOREM StoreOutlivesServer == Spec => []StoreOpenWhenUsed
  <1>1. Init => OpenInv
    BY OwnerInRanks DEF Init, OpenInv, StoreOpenWhenUsed
  <1>2. OpenInv => StoreOpenWhenUsed
    BY DEF OpenInv
  <1>3. QED
    BY <1>1, <1>2, OpenStep, PTL DEF Spec

-----------------------------------------------------------------------------
\* What the theorems ask of the application: no key contains the separator, which
\* serializeCmd would not protect, nor is one key another one's metadata key.
PlainKey(key) == \A i \in 1 .. Len(key) : key[i] # ColSeparator
PlainKeys ==
  /\ \A k \in Keys : PlainKey(k)
  /\ \A k, l \in Keys : k # MetaPrefix \o l

(***************************************************************************)
(* The way of a client's calls through the system: those the store has     *)
(* seen (e), one the server has received (b, when h is 1) and those under  *)
(* way (out) are together the calls made (a), in their order, followed by  *)
(* the end-of-life message once the client closes (cl is 1, and end is 1   *)
(* when the server has seen it).  A reply (in) is there when the client    *)
(* waits (w is 1) in the call of command c and the store has seen it.      *)
(***************************************************************************)
Calls == {m \in Message : /\ m.command \in Writes \cup Requests
                          /\ PlainKey(m.key)
                          /\ m.command \in Writes \cup {GET, META_GET} => m.key \in Keys}

EolMessage == [command |-> EOL_COMMAND, key |-> KV_DUMMY, value |-> <<>>]
Made(a, n) == IF n <= Len(a) THEN a[n] ELSE EolMessage
Wired(m) == SerializeCmd(m.command, m.key, m.value)

PipeTypes(a, e, out, in, h, end, cl, w) ==
  /\ a \in Seq(Calls) /\ e \in Seq(Message) /\ out \in Seq(Texts) /\ in \in Seq(Texts)
  /\ h \in {0, 1} /\ end \in {0, 1} /\ cl \in {0, 1} /\ w \in {0, 1}

PipeOrder(a, e, out, h, b, end, cl) ==
  /\ Len(e) <= Len(a) /\ \A i \in 1 .. Len(e) : e[i] = a[i]
  /\ end = 1 => Len(e) = Len(a) /\ cl = 1
  /\ Len(e) + end + h + Len(out) = Len(a) + cl
  /\ \A j \in 1 .. Len(out) : out[j] = Wired(Made(a, Len(e) + end + h + j))
  /\ h = 1 => b = Made(a, Len(e) + end + 1)

PipeReply(a, e, in, cl, w, c) ==
  /\ w = 1 => /\ cl = 0 /\ Len(a) > 0 /\ a[Len(a)].command = c /\ c \in Requests
              /\ in = <<>> => Len(e) < Len(a)
  /\ \A i \in Len(e) + 1 .. Len(a) : a[i].command \in Requests => i = Len(a) /\ w = 1
  /\ in # <<>> => /\ w = 1 /\ Len(in) = 1 /\ Len(e) = Len(a)
                  /\ \E v \in Texts : in[1] = SerializeCmd(Back(c), a[Len(a)].key, v)

Pipe(a, e, out, in, h, b, end, cl, w, c) ==
  /\ PipeTypes(a, e, out, in, h, end, cl, w)
  /\ PipeOrder(a, e, out, h, b, end, cl)
  /\ PipeReply(a, e, in, cl, w, c)

(***************************************************************************)
(* The commands and their texts.                                           *)
(***************************************************************************)
LEMMA OneToken ==
  ASSUME NEW x \in Token
  PROVE  <<x>> \in Texts /\ Len(<<x>>) = 1 /\ <<x>>[1] = x
  BY DEF Texts

\* Commands are texts of one token, which is no separator.
LEMMA CommandTexts ==
  /\ \A c \in Writes \cup Requests : c \in Texts /\ Len(c) = 1 /\ c[1] # ColSeparator /\ c # EOL_COMMAND
  /\ EOL_COMMAND \in Texts /\ Len(EOL_COMMAND) = 1 /\ EOL_COMMAND[1] # ColSeparator
  /\ KV_DUMMY \in Texts /\ PlainKey(KV_DUMMY) /\ NoValue \in Texts /\ << >> \in Texts
  /\ ColSeparator \in Token
  <1>1. /\ \A c \in Writes \cup Requests : c \in Texts /\ Len(c) = 1
        /\ EOL_COMMAND \in Texts /\ Len(EOL_COMMAND) = 1 /\ EOL_COMMAND[1] = "__EOL"
        /\ KV_DUMMY \in Texts /\ Len(KV_DUMMY) = 1 /\ KV_DUMMY[1] = "DUMMY"
    BY OneToken, TokenAssumption DEF Writes, Requests, EOL_COMMAND, KV_DUMMY, GET, PUT, DEL, META_GET,
       META_GET_ALL, META_PUT, READ_BARRIER, WRITE_BARRIER
  <1>2. \A c \in Writes \cup Requests : c[1] # ColSeparator /\ c[1] # "__EOL"
    BY OneToken, TokenAssumption DEF Writes, Requests, ColSeparator, GET, PUT, DEL, META_GET,
       META_GET_ALL, META_PUT, READ_BARRIER, WRITE_BARRIER
  <1>3. EOL_COMMAND[1] # ColSeparator /\ PlainKey(KV_DUMMY) /\ ColSeparator \in Token
    <2>1. ColSeparator \in Token
      BY TokenAssumption
    <2>2. EOL_COMMAND[1] # ColSeparator /\ KV_DUMMY[1] # ColSeparator
      BY <1>1 DEF ColSeparator
    <2>3. QED
      BY <1>1, <2>1, <2>2 DEF PlainKey
  <1>4. \A S : <<>> \in Seq(S)
    OBVIOUS
  <1>5. QED
    BY <1>1, <1>2, <1>3, <1>4 DEF NoValue, Texts

\* A message is its three texts.
LEMMA MessageFields ==
  ASSUME NEW m \in Message
  PROVE  /\ m.command \in Texts /\ m.key \in Texts /\ m.value \in Texts
         /\ m = [command |-> m.command, key |-> m.key, value |-> m.value]
  BY DEF Message

\* The n-th message of a client is its n-th call, then the end-of-life message.
LEMMA MadeMessages ==
  ASSUME NEW a \in Seq(Calls), NEW n \in Nat \ {0}
  PROVE  /\ Made(a, n) \in Message /\ PlainKey(Made(a, n).key)
         /\ n <= Len(a) => Made(a, n) = a[n] /\ a[n] \in Calls
         /\ n > Len(a) => Made(a, n) = EolMessage
         /\ Made(a, n).command = EOL_COMMAND <=> n > Len(a)
         /\ Made(a, n).command \in Writes \cup Requests \cup {EOL_COMMAND}
  <1>1. EolMessage \in Message /\ EolMessage.command = EOL_COMMAND /\ EolMessage.key = KV_DUMMY
    BY CommandTexts DEF EolMessage, Message
  <1>2. CASE n <= Len(a)
    <2>1. Made(a, n) = a[n] /\ a[n] \in Calls
      BY <1>2 DEF Made
    <2>2. a[n].command # EOL_COMMAND /\ a[n] \in Message /\ PlainKey(a[n].key)
          /\ a[n].command \in Writes \cup Requests
      BY <2>1, CommandTexts DEF Calls
    <2>3. QED
      BY <1>2, <2>1, <2>2
  <1>3. CASE n > Len(a)
    BY <1>1, <1>3, CommandTexts DEF Made
  <1>4. QED
    BY <1>2, <1>3

\* What is sent of a message is read as that message.
LEMMA WiredBack ==
  ASSUME NEW m \in Message, PlainKey(m.key),
         m.command \in Writes \cup Requests \cup {EOL_COMMAND}
  PROVE  Wired(m) \in Texts /\ DeSerializeCmd(Wired(m)) = m
  <1> DEFINE c == m.command
             k == m.key
             v == m.value
  <1>1. c \in Seq(Token) /\ k \in Seq(Token) /\ v \in Seq(Token) /\ ColSeparator \in Token
        /\ m = [command |-> c, key |-> k, value |-> v]
    BY MessageFields, CommandTexts DEF Texts
  <1>2. \A i \in 1 .. Len(c) : c[i] # ColSeparator
    <2>1. Len(c) = 1 /\ c[1] # ColSeparator
      BY CommandTexts
    <2>2. QED
      BY <2>1
  <1>3. \A i \in 1 .. Len(k) : k[i] # ColSeparator
    BY DEF PlainKey
  <1>4. Wired(m) = SerializeCmd(c, k, v)
    BY DEF Wired
  <1> HIDE DEF c, k, v
  <1>5. DeSerializeCmd(SerializeCmd(c, k, v)) = [command |-> c, key |-> k, value |-> v]
    BY <1>1, <1>2, <1>3, CommandRoundTrip
  <1>6. SerializeCmd(c, k, v) \in Texts
    BY <1>1 DEF SerializeCmd, Texts
  <1>7. QED
    BY <1>1, <1>4, <1>5, <1>6

\* A sequence with one more element.
LEMMA Appended ==
  ASSUME NEW S, NEW s \in Seq(S), NEW x \in S
  PROVE  /\ Append(s, x) \in Seq(S) /\ Len(Append(s, x)) = Len(s) + 1 /\ Len(s) \in Nat
         /\ \A i \in 1 .. Len(s) : Append(s, x)[i] = s[i]
         /\ Append(s, x)[Len(s) + 1] = x
  OBVIOUS

\* A sequence without its first element.
LEMMA Shortened ==
  ASSUME NEW S, NEW s \in Seq(S), s # <<>>
  PROVE  /\ Tail(s) \in Seq(S) /\ Len(Tail(s)) = Len(s) - 1 /\ Len(s) \in Nat /\ Len(s) > 0
         /\ \A i \in 1 .. Len(s) - 1 : Tail(s)[i] = s[i + 1]
         /\ Head(s) = s[1] /\ s[1] \in S
  OBVIOUS

\* A reply is read as it was sent.
LEMMA ReplyBack ==
  ASSUME NEW c \in Requests, NEW k \in Texts, PlainKey(k), NEW v \in Texts
  PROVE  /\ SerializeCmd(Back(c), k, v) \in Texts
         /\ DeSerializeCmd(SerializeCmd(Back(c), k, v)) = [command |-> Back(c), key |-> k, value |-> v]
  <1>1. c \in Seq(Token) /\ k \in Seq(Token) /\ v \in Seq(Token) /\ ColSeparator \in Token
        /\ Len(c) = 1 /\ c[1] # ColSeparator
    BY CommandTexts DEF Texts
  <1>2. Back(c) \in Seq(Token) /\ Len(Back(c)) = 2 /\ Back(c)[1] = c[1] /\ Back(c)[2] = "Back"
    <2>1. "Back" \in Token
      BY TokenAssumption
    <2>2. \A x \in Token : /\ Append(c, x) \in Seq(Token) /\ Len(Append(c, x)) = 2
                           /\ Append(c, x)[1] = c[1] /\ Append(c, x)[2] = x
      <3> TAKE x \in Token
      <3>1. /\ Append(c, x) \in Seq(Token) /\ Len(Append(c, x)) = Len(c) + 1
            /\ \A i \in 1 .. Len(c) : Append(c, x)[i] = c[i]
            /\ Append(c, x)[Len(c) + 1] = x
        <4>1. c \in Seq(Token)
          BY <1>1
        <4>2. QED
          BY <4>1, Appended
      <3>2. QED
        BY <1>1, <3>1
    <2>3. QED
      BY <2>1, <2>2 DEF Back
  <1>3. \A i \in 1 .. Len(Back(c)) : Back(c)[i] # ColSeparator
    <2>1. "Back" # ColSeparator
      BY DEF ColSeparator
    <2>2. QED
      BY <1>1, <1>2, <2>1
  <1>4. \A i \in 1 .. Len(k) : k[i] # ColSeparator
    BY DEF PlainKey
  <1> DEFINE d == Back(c)
  <1> HIDE DEF d
  <1>5. d \in Seq(Token) /\ \A i \in 1 .. Len(d) : d[i] # ColSeparator
    BY <1>2, <1>3 DEF d
  <1>6. DeSerializeCmd(SerializeCmd(d, k, v)) = [command |-> d, key |-> k, value |-> v]
    BY <1>1, <1>4, <1>5, CommandRoundTrip
  <1>7. SerializeCmd(d, k, v) \in Texts
    <2>1. d \in Seq(Token)
      BY <1>5
    <2>2. QED
      BY <1>1, <2>1 DEF SerializeCmd, Texts
  <1>8. QED
    BY <1>6, <1>7 DEF d

-----------------------------------------------------------------------------
(***************************************************************************)
(* What the steps do to the way of a client's calls.                       *)
(***************************************************************************)
\* A call is made: a write, which leaves the client free, or a request.
LEMMA PipeAsk ==
  ASSUME NEW a, NEW e, NEW out, NEW in, NEW h, NEW b, NEW end, NEW c,
         Pipe(a, e, out, in, h, b, end, 0, 0, c),
         NEW m \in Calls, NEW w \in {0, 1}, w = 1 <=> m.command \in Requests
  PROVE  Pipe(Append(a, m), e, Append(out, Wired(m)), in, h, b, end, 0, w, m.command)
  <1> DEFINE a1 == Append(a, m)
             out1 == Append(out, Wired(m))
  <1> USE DEF Pipe
  <1>1. /\ a \in Seq(Calls) /\ e \in Seq(Message) /\ out \in Seq(Texts) /\ in \in Seq(Texts)
        /\ h \in {0, 1} /\ end \in {0, 1}
    BY DEF PipeTypes
  <1>2. m \in Message /\ PlainKey(m.key) /\ m.command \in Writes \cup Requests
    BY DEF Calls
  <1>3. Wired(m) \in Texts
    BY <1>2, WiredBack
  <1>4. /\ a1 \in Seq(Calls) /\ Len(a1) = Len(a) + 1 /\ Len(a) \in Nat
        /\ \A i \in 1 .. Len(a) : a1[i] = a[i]
        /\ a1[Len(a) + 1] = m
    BY <1>1, Appended
  <1>5. /\ out1 \in Seq(Texts) /\ Len(out1) = Len(out) + 1 /\ Len(out) \in Nat
        /\ \A i \in 1 .. Len(out) : out1[i] = out[i]
        /\ out1[Len(out) + 1] = Wired(m)
    BY <1>1, <1>3, Appended
  <1>6. Len(e) \in Nat
    BY <1>1
  <1>7. end = 0 /\ in = <<>> /\ Len(e) + h + Len(out) = Len(a) /\ Len(e) <= Len(a)
    BY <1>1, <1>4, <1>5, <1>6 DEF PipeOrder, PipeReply
  <1> HIDE DEF a1, out1
  <1>8. PipeTypes(a1, e, out1, in, h, end, 0, w)
    BY <1>1, <1>4, <1>5 DEF PipeTypes
  <1>9. PipeOrder(a1, e, out1, h, b, end, 0)
    <2>1. \A i \in 1 .. Len(e) : e[i] = a1[i]
      BY <1>4, <1>6, <1>7 DEF PipeOrder
    <2>2. ASSUME NEW j \in 1 .. Len(out1)
          PROVE  out1[j] = Wired(Made(a1, Len(e) + end + h + j))
      <3>1. CASE j <= Len(out)
        <4>1. out1[j] = Wired(Made(a, Len(e) + end + h + j))
          BY <1>5, <3>1 DEF PipeOrder
        <4>2. Len(e) + end + h + j \in 1 .. Len(a)
          BY <1>1, <1>4, <1>5, <1>6, <1>7, <3>1
        <4>3. Made(a, Len(e) + end + h + j) = Made(a1, Len(e) + end + h + j)
          BY <1>4, <4>2 DEF Made
        <4>4. QED
          BY <4>1, <4>3
      <3>2. CASE j = Len(out) + 1
        <4>1. Len(e) + end + h + j = Len(a) + 1
          BY <1>1, <1>4, <1>5, <1>6, <1>7, <3>2
        <4>2. Made(a1, Len(e) + end + h + j) = m
          BY <1>4, <4>1 DEF Made
        <4>3. QED
          BY <1>5, <3>2, <4>2
      <3>3. QED
        BY <1>5, <3>1, <3>2
    <2>3. h = 1 => b = Made(a1, Len(e) + end + 1)
      <3> SUFFICES ASSUME h = 1 PROVE b = Made(a1, Len(e) + end + 1)
        OBVIOUS
      <3>1. b = Made(a, Len(e) + end + 1) /\ Len(e) + end + 1 \in 1 .. Len(a)
        BY <1>4, <1>5, <1>6, <1>7 DEF PipeOrder
      <3>2. QED
        BY <1>4, <3>1 DEF Made
    <2>4. QED
      BY <1>1, <1>4, <1>5, <1>6, <1>7, <2>1, <2>2, <2>3 DEF PipeOrder
  <1>10. PipeReply(a1, e, in, 0, w, m.command)
    <2>1. a1[Len(a1)] = m
      BY <1>4
    <2>2. ASSUME NEW i \in Len(e) + 1 .. Len(a1), a1[i].command \in Requests
          PROVE  i = Len(a1) /\ w = 1
      <3>1. CASE i = Len(a1)
        BY <2>1, <2>2, <3>1
      <3>2. CASE i # Len(a1)
        BY <1>4, <1>6, <2>2, <3>2 DEF PipeReply
      <3>3. QED
        BY <3>1, <3>2
    <2>3. QED
      BY <1>4, <1>6, <1>7, <2>1, <2>2 DEF PipeReply
  <1>11. QED
    BY <1>8, <1>9, <1>10 DEF a1, out1

\* The client closes.
LEMMA PipeClose ==
  ASSUME NEW a, NEW e, NEW out, NEW in, NEW h, NEW b, NEW end, NEW c,
         Pipe(a, e, out, in, h, b, end, 0, 0, c)
  PROVE  Pipe(a, e, Append(out, Wired(EolMessage)), in, h, b, end, 1, 0, c)
  <1> DEFINE out1 == Append(out, Wired(EolMessage))
  <1> USE DEF Pipe
  <1>1. /\ a \in Seq(Calls) /\ e \in Seq(Message) /\ out \in Seq(Texts) /\ in \in Seq(Texts)
        /\ h \in {0, 1} /\ end \in {0, 1}
    BY DEF PipeTypes
  <1>2. Wired(EolMessage) \in Texts
    <2>1. EolMessage \in Message /\ PlainKey(EolMessage.key) /\ EolMessage.command = EOL_COMMAND
      BY CommandTexts DEF EolMessage, Message
    <2>2. QED
      BY <2>1, WiredBack
  <1>3. /\ out1 \in Seq(Texts) /\ Len(out1) = Len(out) + 1 /\ Len(out) \in Nat
        /\ \A i \in 1 .. Len(out) : out1[i] = out[i]
        /\ out1[Len(out) + 1] = Wired(EolMessage)
    BY <1>1, <1>2, Appended
  <1>4. Len(e) \in Nat /\ Len(a) \in Nat
    BY <1>1
  <1>5. end = 0 /\ in = <<>> /\ Len(e) + h + Len(out) = Len(a) /\ Len(e) <= Len(a)
    BY <1>1, <1>3, <1>4 DEF PipeOrder, PipeReply
  <1> HIDE DEF out1
  <1>6. \A j \in 1 .. Len(out1) : out1[j] = Wired(Made(a, Len(e) + end + h + j))
    <2> TAKE j \in 1 .. Len(out1)
    <2>1. CASE j <= Len(out)
      BY <1>3, <2>1 DEF PipeOrder
    <2>2. CASE j = Len(out) + 1
      <3>1. Len(e) + end + h + j = Len(a) + 1
        <4>1. h \in Nat
          BY <1>1
        <4>2. QED
          BY <4>1, <1>3, <1>4, <1>5, <2>2
      <3>2. Made(a, Len(e) + end + h + j) = EolMessage
        BY <1>4, <3>1 DEF Made
      <3>3. QED
        BY <1>3, <2>2, <3>2
    <2>3. QED
      BY <1>3, <2>1, <2>2
  <1>7. PipeTypes(a, e, out1, in, h, end, 1, 0)
    BY <1>1, <1>3 DEF PipeTypes
  <1>8. PipeOrder(a, e, out1, h, b, end, 1)
    BY <1>1, <1>3, <1>4, <1>5, <1>6 DEF PipeOrder
  <1>9. PipeReply(a, e, in, 1, 0, c)
    BY <1>5 DEF PipeReply
  <1>10. QED
    BY <1>7, <1>8, <1>9 DEF out1

\* The server receives the client's next message.
LEMMA PipeRecv ==
  ASSUME NEW a, NEW e, NEW out, NEW in, NEW b, NEW end, NEW cl, NEW w, NEW c,
         Pipe(a, e, out, in, 0, b, end, cl, w, c), out # <<>>
  PROVE  /\ Pipe(a, e, Tail(out), in, 1, DeSerializeCmd(Head(out)), end, cl, w, c)
         /\ DeSerializeCmd(Head(out)) \in Message
  <1> DEFINE out1 == Tail(out)
             m == DeSerializeCmd(Head(out))
  <1> USE DEF Pipe
  <1>1. /\ a \in Seq(Calls) /\ e \in Seq(Message) /\ out \in Seq(Texts) /\ in \in Seq(Texts)
        /\ end \in {0, 1} /\ cl \in {0, 1} /\ w \in {0, 1}
    BY DEF PipeTypes
  <1>2. /\ out1 \in Seq(Texts) /\ Len(out1) = Len(out) - 1 /\ Len(out) \in Nat /\ Len(out) > 0
        /\ \A i \in 1 .. Len(out) - 1 : out1[i] = out[i + 1]
        /\ Head(out) = out[1]
    BY <1>1, Shortened
  <1>3. Len(e) \in Nat /\ Len(a) \in Nat
    BY <1>1
  <1>4. out[1] = Wired(Made(a, Len(e) + end + 1))
    <2>1. 1 \in 1 .. Len(out)
      BY <1>2
    <2>2. out[1] = Wired(Made(a, Len(e) + end + 0 + 1))
      BY <2>1 DEF PipeOrder
    <2>3. QED
      BY <1>1, <1>3, <2>2
  <1>5. m = Made(a, Len(e) + end + 1) /\ m \in Message
    <2> DEFINE n == Len(e) + end + 1
    <2>1. n \in Nat \ {0}
      BY <1>1, <1>3
    <2> HIDE DEF n
    <2>2. /\ Made(a, n) \in Message /\ PlainKey(Made(a, n).key)
          /\ Made(a, n).command \in Writes \cup Requests \cup {EOL_COMMAND}
      BY <1>1, <2>1, MadeMessages
    <2>3. DeSerializeCmd(Wired(Made(a, n))) = Made(a, n)
      BY <2>2, WiredBack
    <2>4. QED
      BY <1>2, <1>4, <2>2, <2>3 DEF n
  <1> HIDE DEF out1, m
  <1>6. \A j \in 1 .. Len(out1) : out1[j] = Wired(Made(a, Len(e) + end + 1 + j))
    <2> TAKE j \in 1 .. Len(out1)
    <2>1. out1[j] = out[j + 1] /\ j + 1 \in 1 .. Len(out)
      BY <1>2
    <2>2. out[j + 1] = Wired(Made(a, Len(e) + end + 0 + (j + 1)))
      BY <2>1 DEF PipeOrder
    <2>3. Len(e) + end + 0 + (j + 1) = Len(e) + end + 1 + j
      BY <1>1, <1>2, <1>3
    <2>4. QED
      BY <2>1, <2>2, <2>3
  <1>7. PipeOrder(a, e, out1, 1, m, end, cl)
    BY <1>1, <1>2, <1>3, <1>5, <1>6 DEF PipeOrder
  <1>8. PipeTypes(a, e, out1, in, 1, end, cl, w)
    BY <1>1, <1>2 DEF PipeTypes
  <1>9. QED
    BY <1>5, <1>7, <1>8 DEF out1, m

\* What the server has received, and what it is when it is not the end.
LEMMA PipeHeld ==
  ASSUME NEW a, NEW e, NEW out, NEW in, NEW b, NEW end, NEW cl, NEW w, NEW c,
         Pipe(a, e, out, in, 1, b, end, cl, w, c)
  PROVE  /\ b \in Message /\ Len(e) \in Nat /\ Len(a) \in Nat /\ Len(out) \in Nat
         /\ end = 0 /\ Len(e) <= Len(a)
         /\ b.command = EOL_COMMAND => cl = 1 /\ Len(e) = Len(a) /\ Len(out) = 0
         /\ b.command # EOL_COMMAND =>
              /\ Len(e) < Len(a) /\ b = a[Len(e) + 1] /\ b \in Calls
              /\ b.command \in Requests => /\ w = 1 /\ Len(e) + 1 = Len(a) /\ in = <<>>
                                           /\ c = b.command
  <1> USE DEF Pipe
  <1>1. /\ a \in Seq(Calls) /\ e \in Seq(Message) /\ out \in Seq(Texts) /\ in \in Seq(Texts)
        /\ end \in {0, 1} /\ cl \in {0, 1} /\ w \in {0, 1}
    BY DEF PipeTypes
  <1>2. Len(e) \in Nat /\ Len(a) \in Nat /\ Len(out) \in Nat
    BY <1>1
  <1>3. end = 0
    <2>1. end = 1 => Len(e) = Len(a) /\ Len(e) + end + 1 + Len(out) = Len(a) + cl
      BY DEF PipeOrder
    <2>2. QED
      BY <1>1, <1>2, <2>1
  <1>4. b = Made(a, Len(e) + 1) /\ Len(e) + 1 + Len(out) = Len(a) + cl /\ Len(e) <= Len(a)
    BY <1>2, <1>3 DEF PipeOrder
  <1>5. /\ b \in Message
        /\ Len(e) + 1 <= Len(a) => b = a[Len(e) + 1] /\ a[Len(e) + 1] \in Calls
        /\ b.command = EOL_COMMAND <=> Len(e) + 1 > Len(a)
    <2>1. Len(e) + 1 \in Nat \ {0}
      BY <1>2
    <2>2. QED
      BY <1>1, <1>4, <2>1, MadeMessages
  <1>6. ASSUME b.command # EOL_COMMAND
        PROVE  /\ Len(e) < Len(a) /\ b = a[Len(e) + 1] /\ b \in Calls
               /\ b.command \in Requests => /\ w = 1 /\ Len(e) + 1 = Len(a) /\ in = <<>>
                                            /\ c = b.command
    <2>1. Len(e) < Len(a) /\ b = a[Len(e) + 1] /\ b \in Calls
      BY <1>2, <1>5, <1>6
    <2>2. ASSUME b.command \in Requests
          PROVE  w = 1 /\ Len(e) + 1 = Len(a) /\ in = <<>> /\ c = b.command
      <3>1. Len(e) + 1 = Len(a) /\ w = 1
        BY <1>2, <2>1, <2>2 DEF PipeReply
      <3>2. in = <<>> /\ c = a[Len(a)].command
        BY <1>2, <3>1 DEF PipeReply
      <3>3. QED
        BY <2>1, <3>1, <3>2
    <2>3. QED
      BY <2>1, <2>2
  <1>7. QED
    BY <1>1, <1>2, <1>3, <1>4, <1>5, <1>6

\* The server sees that the client has closed.
LEMMA PipeEol ==
  ASSUME NEW a, NEW e, NEW out, NEW in, NEW b, NEW end, NEW cl, NEW w, NEW c,
         Pipe(a, e, out, in, 1, b, end, cl, w, c), b.command = EOL_COMMAND
  PROVE  Pipe(a, e, out, in, 0, b, 1, cl, w, c)
  <1>1. end = 0 /\ cl = 1 /\ Len(e) = Len(a) /\ Len(out) = 0 /\ Len(e) \in Nat /\ Len(a) \in Nat
    BY PipeHeld
  <1>2. PipeTypes(a, e, out, in, 0, 1, cl, w)
    BY DEF Pipe, PipeTypes
  <1>3. PipeOrder(a, e, out, 0, b, 1, cl)
    BY <1>1 DEF Pipe, PipeOrder
  <1>4. QED
    BY <1>2, <1>3 DEF Pipe

\* The store executes a call, and the server answers it if it is a request.
LEMMA PipeExec ==
  ASSUME NEW a, NEW e, NEW out, NEW in, NEW b, NEW end, NEW cl, NEW w, NEW c,
         Pipe(a, e, out, in, 1, b, end, cl, w, c), b.command # EOL_COMMAND, NEW v \in Texts
  PROVE  Pipe(a, Append(e, b), out,
              IF WantsReply(b.command)
              THEN Append(in, SerializeCmd(Back(b.command), b.key, v)) ELSE in,
              0, b, end, cl, w, c)
  <1> DEFINE e1 == Append(e, b)
             reply == SerializeCmd(Back(b.command), b.key, v)
             in1 == IF WantsReply(b.command) THEN Append(in, reply) ELSE in
  <1>1. /\ a \in Seq(Calls) /\ e \in Seq(Message) /\ out \in Seq(Texts) /\ in \in Seq(Texts)
        /\ cl \in {0, 1} /\ w \in {0, 1}
    BY DEF Pipe, PipeTypes
  <1>2. /\ b \in Message /\ Len(e) \in Nat /\ Len(a) \in Nat /\ Len(out) \in Nat
        /\ end = 0 /\ Len(e) <= Len(a) /\ Len(e) < Len(a) /\ b = a[Len(e) + 1] /\ b \in Calls
    BY PipeHeld
  <1>3. b.command \in Requests => w = 1 /\ Len(e) + 1 = Len(a) /\ in = <<>> /\ c = b.command
    BY PipeHeld
  <1>4. /\ e1 \in Seq(Message) /\ Len(e1) = Len(e) + 1
        /\ \A i \in 1 .. Len(e) : e1[i] = e[i]
        /\ e1[Len(e) + 1] = b
    BY <1>1, <1>2, Appended
  <1>5. b.command \in Requests =>
          /\ in1 = <<reply>> /\ in1 \in Seq(Texts) /\ Len(in1) = 1 /\ in1[1] = reply
    <2> SUFFICES ASSUME b.command \in Requests
                 PROVE  /\ in1 = <<reply>> /\ in1 \in Seq(Texts) /\ Len(in1) = 1
                        /\ in1[1] = reply
      OBVIOUS
    <2>1. reply \in Texts
      BY <1>2, ReplyBack, MessageFields DEF Calls
    <2>2. in1 = Append(<<>>, reply)
      BY <1>3 DEF WantsReply
    <2> HIDE DEF in1, reply
    <2>3. QED
      BY <2>1, <2>2
  <1>6. b.command \notin Requests => in1 = in
    BY DEF WantsReply
  <1> HIDE DEF e1, in1, reply
  <1>7. PipeTypes(a, e1, out, in1, 0, end, cl, w)
    BY <1>1, <1>2, <1>4, <1>5, <1>6 DEF PipeTypes
  <1>8. PipeOrder(a, e1, out, 0, b, end, cl)
    <2>1. \A i \in 1 .. Len(e1) : e1[i] = a[i]
      BY <1>2, <1>4 DEF Pipe, PipeOrder
    <2>2. Len(e1) + end + 0 + Len(out) = Len(a) + cl
      BY <1>1, <1>2, <1>4 DEF Pipe, PipeOrder
    <2>3. \A j \in 1 .. Len(out) : out[j] = Wired(Made(a, Len(e1) + end + 0 + j))
      <3> TAKE j \in 1 .. Len(out)
      <3>1. out[j] = Wired(Made(a, Len(e) + end + 1 + j))
        BY DEF Pipe, PipeOrder
      <3>2. Len(e) + end + 1 + j = Len(e1) + end + 0 + j
        BY <1>2, <1>4
      <3>3. QED
        BY <3>1, <3>2
    <2>4. QED
      BY <1>2, <1>4, <2>1, <2>2, <2>3 DEF PipeOrder
  <1>9. PipeReply(a, e1, in1, cl, w, c)
    <2>1. \A i \in Len(e1) + 1 .. Len(a) : a[i].command \in Requests => i = Len(a) /\ w = 1
      BY <1>2, <1>4 DEF Pipe, PipeReply
    <2>2. w = 1 => /\ cl = 0 /\ Len(a) > 0 /\ a[Len(a)].command = c /\ c \in Requests
      BY DEF Pipe, PipeReply
    <2>3. CASE b.command \in Requests
      <3>1. reply = SerializeCmd(Back(c), a[Len(a)].key, v)
        BY <1>2, <1>3, <2>3 DEF reply
      <3>2. Len(e1) = Len(a) /\ w = 1 /\ in1 # <<>>
        BY <1>2, <1>3, <1>4, <1>5, <2>3
      <3>3. QED
        BY <1>5, <2>1, <2>2, <2>3, <3>1, <3>2 DEF PipeReply
    <2>4. CASE b.command \notin Requests
      <3>1. in1 = in
        BY <1>6, <2>4
      <3>2. in = <<>>
        <4>1. in # <<>> => Len(e) = Len(a)
          BY DEF Pipe, PipeReply
        <4>2. QED
          BY <1>2, <4>1
      <3>3. w = 1 => Len(e1) < Len(a)
        <4> SUFFICES ASSUME w = 1, Len(e1) = Len(a) PROVE FALSE
          BY <1>2, <1>4
        <4>1. a[Len(a)] = b
          BY <1>2, <1>4
        <4>2. QED
          BY <2>2, <2>4, <4>1
      <3>4. QED
        BY <2>1, <2>2, <3>1, <3>2, <3>3 DEF PipeReply
    <2>5. QED
      BY <2>3, <2>4
  <1>10. QED
    BY <1>7, <1>8, <1>9 DEF Pipe, e1, in1, reply

\* The client takes the reply.
LEMMA PipeReturn ==
  ASSUME NEW a, NEW e, NEW out, NEW in, NEW h, NEW b, NEW end, NEW cl, NEW c, NEW d,
         Pipe(a, e, out, in, h, b, end, cl, 1, c), in # <<>>
  PROVE  /\ Pipe(a, e, out, Tail(in), h, b, end, cl, 0, d)
         /\ Len(e) = Len(a) /\ Len(a) > 0 /\ a[Len(a)].command = c /\ c \in Requests
         /\ \E v \in Texts :
              /\ in[1] = SerializeCmd(Back(c), a[Len(a)].key, v) /\ Head(in) = in[1]
              /\ DeSerializeCmd(Head(in)) = [command |-> Back(c), key |-> a[Len(a)].key, value |-> v]
  <1>1. /\ a \in Seq(Calls) /\ e \in Seq(Message) /\ in \in Seq(Texts)
        /\ Len(e) \in Nat /\ Len(a) \in Nat
    BY DEF Pipe, PipeTypes
  <1>2. /\ Len(e) = Len(a) /\ Len(a) > 0 /\ a[Len(a)].command = c /\ c \in Requests /\ cl = 0
        /\ Len(in) = 1
    BY DEF Pipe, PipeReply
  <1>3. Tail(in) = <<>> /\ Head(in) = in[1]
    <2>1. Tail(in) \in Seq(Texts) /\ Len(Tail(in)) = Len(in) - 1 /\ Head(in) = in[1]
      BY <1>1, Shortened
    <2>2. Len(Tail(in)) = 0
      BY <1>2, <2>1
    <2>3. QED
      BY <2>1, <2>2, EmptySeq
  <1>4. <<>> \in Seq(Texts)
    <2>1. \A S : <<>> \in Seq(S)
      OBVIOUS
    <2>2. QED
      BY <2>1
  <1>5. Pipe(a, e, out, Tail(in), h, b, end, cl, 0, d)
    <2>1. PipeTypes(a, e, out, <<>>, h, end, cl, 0)
      BY <1>4 DEF Pipe, PipeTypes
    <2>2. PipeReply(a, e, <<>>, cl, 0, d)
      BY <1>1, <1>2 DEF PipeReply
    <2>3. QED
      BY <1>3, <2>1, <2>2 DEF Pipe
  <1>6. PICK v \in Texts : in[1] = SerializeCmd(Back(c), a[Len(a)].key, v)
    BY DEF Pipe, PipeReply
  <1>7. a[Len(a)].key \in Texts /\ PlainKey(a[Len(a)].key)
    <2>1. a[Len(a)] \in Calls
      BY <1>1, <1>2
    <2>2. QED
      BY <2>1, MessageFields DEF Calls
  <1>8. DeSerializeCmd(Head(in)) = [command |-> Back(c), key |-> a[Len(a)].key, value |-> v]
    BY <1>2, <1>3, <1>6, <1>7, ReplyBack
  <1>9. QED
    BY <1>2, <1>3, <1>5, <1>6, <1>8

-----------------------------------------------------------------------------
(***************************************************************************)
(* The store as its callers see it: what a mutation and what a memtable of *)
(* them make of its contents.                                              *)
(***************************************************************************)
Mutated(contents, m) ==
  {e \in contents : e.key # m.key} \cup (IF m.value = NoValue THEN {} ELSE {m})

UniqueKeys(contents) == \A d, e \in contents : d.key = e.key => d = e

\* A lookup finds the entry of its key.
LEMMA LookupFound ==
  ASSUME NEW contents, UniqueKeys(contents), NEW e \in contents
  PROVE  Lookup(contents, e.key) = e.value
  <1> DEFINE x == CHOOSE d \in contents : d.key = e.key
  <1>1. x \in contents /\ x.key = e.key
    OBVIOUS
  <1> HIDE DEF x
  <1>2. x = e
    BY <1>1 DEF UniqueKeys
  <1>3. QED
    BY <1>2 DEF Lookup, x

\* A lookup without an entry finds no value.
LEMMA LookupMissing ==
  ASSUME NEW contents, NEW key, \A e \in contents : e.key # key
  PROVE  Lookup(contents, key) = NoValue
  BY DEF Lookup

\* A mutation changes what a lookup of its key finds, and no other.
LEMMA LookupMutated ==
  ASSUME NEW contents, UniqueKeys(contents), NEW m, NEW key
  PROVE  Lookup(Mutated(contents, m), key) =
           IF key = m.key THEN m.value ELSE Lookup(contents, key)
  <1> DEFINE new == Mutated(contents, m)
  <1>1. \A e : e \in new <=> (e \in contents /\ e.key # m.key) \/ (e = m /\ m.value # NoValue)
    BY DEF Mutated
  <1> HIDE DEF new
  <1>2. UniqueKeys(new)
    BY <1>1 DEF UniqueKeys
  <1>3. CASE key = m.key
    <2>1. CASE m.value = NoValue
      <3>1. \A e \in new : e.key # key
        BY <1>1, <1>3, <2>1
      <3>2. QED
        BY <1>3, <2>1, <3>1, LookupMissing DEF new
    <2>2. CASE m.value # NoValue
      <3>1. m \in new
        BY <1>1, <2>2
      <3>2. QED
        BY <1>2, <1>3, <3>1, LookupFound DEF new
    <2>3. QED
      BY <2>1, <2>2
  <1>4. CASE key # m.key
    <2>1. CASE \E e \in contents : e.key = key
      <3>1. PICK e \in contents : e.key = key
        BY <2>1
      <3>2. e \in new
        BY <1>1, <1>4, <3>1
      <3>3. Lookup(new, key) = e.value /\ Lookup(contents, key) = e.value
        BY <1>2, <3>1, <3>2, LookupFound
      <3>4. QED
        BY <1>4, <3>3 DEF new
    <2>2. CASE \A e \in contents : e.key # key
      <3>1. \A e \in new : e.key # key
        BY <1>1, <1>4, <2>2
      <3>2. QED
        BY <1>4, <2>2, <3>1, LookupMissing DEF new
    <2>3. QED
      BY <2>1, <2>2
  <1>5. QED
    BY <1>3, <1>4

\* A mutation leaves a finite set of entries with different keys.
LEMMA MutatedSound ==
  ASSUME NEW contents, UniqueKeys(contents), contents \subseteq Entry, IsFiniteSet(contents),
         NEW m \in Entry
  PROVE  /\ UniqueKeys(Mutated(contents, m)) /\ Mutated(contents, m) \subseteq Entry
         /\ IsFiniteSet(Mutated(contents, m))
  <1> DEFINE new == Mutated(contents, m)
             rest == {e \in contents : e.key # m.key}
  <1>1. \A e : e \in new <=> (e \in contents /\ e.key # m.key) \/ (e = m /\ m.value # NoValue)
    BY DEF Mutated
  <1>2. IsFiniteSet(new)
    <2>1. IsFiniteSet(rest) /\ IsFiniteSet(rest \cup {m})
      BY FS_Subset, FS_AddElement
    <2>2. new = rest \/ new = rest \cup {m}
      BY DEF Mutated
    <2>3. QED
      BY <2>1, <2>2
  <1>3. UniqueKeys(new) /\ new \subseteq Entry
    <2> HIDE DEF new
    <2>1. QED
      BY <1>1 DEF UniqueKeys
  <1>4. QED
    BY <1>2, <1>3

\* An empty memtable changes nothing.
LEMMA AppliedNothing ==
  ASSUME NEW contents
  PROVE  Applied(contents, << >>) = contents
  <1>1. DOMAIN << >> = {}
    OBVIOUS
  <1>2. QED
    BY <1>1 DEF Applied

\* The members of what a memtable makes of a file.
LEMMA AppliedMembers ==
  ASSUME NEW contents, NEW b, NEW e
  PROVE  e \in Applied(contents, b) <=>
           \/ e \in contents /\ \A i \in DOMAIN b : b[i].key # e.key
           \/ \E i \in DOMAIN b : /\ e = b[i] /\ b[i].value # NoValue
                                  /\ \A j \in DOMAIN b : j > i => b[j].key # b[i].key
  BY DEF Applied

\* One mutation more.
LEMMA AppliedAppend ==
  ASSUME NEW contents, NEW b \in Seq(Entry), NEW m \in Entry
  PROVE  Applied(contents, Append(b, m)) = Mutated(Applied(contents, b), m)
  <1> DEFINE b1 == Append(b, m)
             n == Len(b)
  <1>1. /\ n \in Nat /\ DOMAIN b = 1 .. n /\ DOMAIN b1 = 1 .. n + 1
        /\ \A i \in 1 .. n : b1[i] = b[i]
        /\ b1[n + 1] = m
    BY Appended
  <1> HIDE DEF b1, n
  <1>2. ASSUME NEW e, e \in Applied(contents, b1)
        PROVE  e \in Mutated(Applied(contents, b), m)
    <2>1. CASE e \in contents /\ \A i \in DOMAIN b1 : b1[i].key # e.key
      <3>1. e.key # m.key
        BY <1>1, <2>1
      <3>2. \A i \in DOMAIN b : b[i].key # e.key
        BY <1>1, <2>1
      <3>3. e \in Applied(contents, b)
        BY <2>1, <3>2, AppliedMembers
      <3>4. QED
        BY <3>1, <3>3 DEF Mutated
    <2>2. ASSUME NEW i \in DOMAIN b1, e = b1[i], b1[i].value # NoValue,
                 \A j \in DOMAIN b1 : j > i => b1[j].key # b1[i].key
          PROVE  e \in Mutated(Applied(contents, b), m)
      <3>1. CASE i = n + 1
        BY <1>1, <2>2, <3>1 DEF Mutated
      <3>2. CASE i \in 1 .. n
        <4>1. e = b[i] /\ b[i].value # NoValue /\ \A j \in DOMAIN b : j > i => b[j].key # b[i].key
          BY <1>1, <2>2, <3>2
        <4>2. e \in Applied(contents, b)
          BY <1>1, <3>2, <4>1, AppliedMembers
        <4>3. e.key # m.key
          BY <1>1, <2>2, <3>2
        <4>4. QED
          BY <4>2, <4>3 DEF Mutated
      <3>3. QED
        BY <1>1, <3>1, <3>2
    <2>3. QED
      BY <1>2, <2>1, <2>2, AppliedMembers
  <1>3. ASSUME NEW e, e \in Mutated(Applied(contents, b), m)
        PROVE  e \in Applied(contents, b1)
    <2>1. CASE e = m /\ m.value # NoValue
      <3>1. n + 1 \in DOMAIN b1 /\ \A j \in DOMAIN b1 : ~ (j > n + 1)
        BY <1>1
      <3>2. QED
        BY <1>1, <2>1, <3>1, AppliedMembers
    <2>2. CASE e \in Applied(contents, b) /\ e.key # m.key
      <3>1. CASE e \in contents /\ \A i \in DOMAIN b : b[i].key # e.key
        <4>1. \A i \in DOMAIN b1 : b1[i].key # e.key
          BY <1>1, <2>2, <3>1
        <4>2. QED
          BY <3>1, <4>1, AppliedMembers
      <3>2. ASSUME NEW i \in DOMAIN b, e = b[i], b[i].value # NoValue,
                   \A j \in DOMAIN b : j > i => b[j].key # b[i].key
            PROVE  e \in Applied(contents, b1)
        <4>1. i \in DOMAIN b1 /\ e = b1[i] /\ b1[i].value # NoValue
          BY <1>1, <3>2
        <4>2. \A j \in DOMAIN b1 : j > i => b1[j].key # b1[i].key
          BY <1>1, <2>2, <3>2
        <4>3. QED
          BY <4>1, <4>2, AppliedMembers
      <3>3. QED
        BY <2>2, <3>1, <3>2, AppliedMembers
    <2>3. QED
      BY <1>3, <2>1, <2>2 DEF Mutated
  <1>4. QED
    BY <1>2, <1>3 DEF b1

\* A memtable of one mutation.
LEMMA AppliedOne ==
  ASSUME NEW c, NEW e \in Entry
  PROVE  Applied(c, <<e>>) = Mutated(c, e)
  <1>1. Append(<<>>, e) = <<e>>
    OBVIOUS
  <1>2. <<>> \in Seq(Entry)
    OBVIOUS
  <1>3. Applied(c, Append(<<>>, e)) = Mutated(Applied(c, <<>>), e)
    BY <1>2, AppliedAppend
  <1>4. QED
    BY <1>1, <1>3, AppliedNothing

\* Two memtables one after the other are one that has the mutations of both.
LEMMA AppliedConcat ==
  ASSUME NEW contents, NEW a \in Seq(Entry), NEW b \in Seq(Entry)
  PROVE  Applied(contents, a \o b) = Applied(Applied(contents, a), b)
  <1> DEFINE ab == a \o b
             l == Len(a)
             n == Len(b)
  <1>1. /\ l \in Nat /\ n \in Nat /\ DOMAIN a = 1 .. l /\ DOMAIN b = 1 .. n
        /\ DOMAIN ab = 1 .. l + n
        /\ \A i \in 1 .. l : ab[i] = a[i]
        /\ \A i \in 1 .. n : ab[l + i] = b[i]
    <2>1. ab \in Seq(Entry) /\ Len(ab) = l + n
      BY ConcatProperties
    <2>2. \A i \in 1 .. l + n : ab[i] = IF i <= l THEN a[i] ELSE b[i - l]
      BY ConcatProperties
    <2>3. l \in Nat /\ n \in Nat /\ DOMAIN a = 1 .. l /\ DOMAIN b = 1 .. n
      OBVIOUS
    <2> HIDE DEF ab, l, n
    <2>4. DOMAIN ab = 1 .. l + n
      BY <2>1, <2>3
    <2>5. \A i \in 1 .. l : ab[i] = a[i]
      BY <2>2, <2>3
    <2>6. ASSUME NEW i \in 1 .. n PROVE ab[l + i] = b[i]
      <3>1. l + i \in 1 .. l + n /\ ~(l + i <= l) /\ (l + i) - l = i
        BY <2>3
      <3>2. QED
        BY <2>2, <3>1
    <2>7. QED
      BY <2>3, <2>4, <2>5, <2>6
  <1>2. \A i \in 1 .. l + n : i \in 1 .. l \/ \E j \in 1 .. n : i = l + j
    <2> TAKE i \in 1 .. l + n
    <2>1. CASE i > l
      <3>1. i - l \in 1 .. n /\ i = l + (i - l)
        BY <1>1, <2>1
      <3>2. QED
        BY <3>1
    <2>2. CASE i <= l
      BY <1>1, <2>2
    <2>3. QED
      BY <1>1, <2>1, <2>2
  <1> HIDE DEF ab, l, n
  <1>3. ASSUME NEW e, e \in Applied(contents, ab)
        PROVE  e \in Applied(Applied(contents, a), b)
    <2>1. CASE e \in contents /\ \A i \in DOMAIN ab : ab[i].key # e.key
      <3>1. \A i \in DOMAIN a : a[i].key # e.key
        BY <1>1, <2>1
      <3>2. \A i \in DOMAIN b : b[i].key # e.key
        <4> SUFFICES ASSUME NEW i \in 1 .. n PROVE b[i].key # e.key
          BY <1>1
        <4>1. l + i \in DOMAIN ab
          BY <1>1
        <4>2. QED
          BY <1>1, <2>1, <4>1
      <3>3. e \in Applied(contents, a)
        BY <2>1, <3>1, AppliedMembers
      <3>4. QED
        BY <3>2, <3>3, AppliedMembers
    <2>2. ASSUME NEW i \in DOMAIN ab, e = ab[i], ab[i].value # NoValue,
                 \A j \in DOMAIN ab : j > i => ab[j].key # ab[i].key
          PROVE  e \in Applied(Applied(contents, a), b)
      <3>1. CASE i \in 1 .. l
        <4>1. \A j \in DOMAIN a : j > i => a[j].key # a[i].key
          BY <1>1, <2>2, <3>1
        <4>2. e \in Applied(contents, a)
          <5>1. i \in DOMAIN a /\ e = a[i] /\ a[i].value # NoValue
            BY <1>1, <2>2, <3>1
          <5>2. QED
            BY <4>1, <5>1, AppliedMembers
        <4>3. \A j \in DOMAIN b : b[j].key # e.key
          <5> SUFFICES ASSUME NEW j \in 1 .. n PROVE b[j].key # e.key
            BY <1>1
          <5>1. l + j \in DOMAIN ab /\ l + j > i
            BY <1>1, <3>1
          <5>2. QED
            BY <1>1, <2>2, <5>1
        <4>4. QED
          BY <4>2, <4>3, AppliedMembers
      <3>2. ASSUME NEW k \in 1 .. n, i = l + k
            PROVE  e \in Applied(Applied(contents, a), b)
        <4>1. e = b[k] /\ b[k].value # NoValue /\ k \in DOMAIN b
          BY <1>1, <2>2, <3>2
        <4>2. \A j \in DOMAIN b : j > k => b[j].key # b[k].key
          <5> SUFFICES ASSUME NEW j \in 1 .. n, j > k PROVE b[j].key # b[k].key
            BY <1>1
          <5>1. l + j \in DOMAIN ab /\ l + j > i
            BY <1>1, <3>2
          <5>2. QED
            BY <1>1, <2>2, <4>1, <5>1
        <4>3. QED
          BY <4>1, <4>2, AppliedMembers
      <3>3. QED
        BY <1>1, <1>2, <3>1, <3>2
    <2>3. QED
      BY <1>3, <2>1, <2>2, AppliedMembers
  <1>4. ASSUME NEW e, e \in Applied(Applied(contents, a), b)
        PROVE  e \in Applied(contents, ab)
    <2>1. CASE e \in Applied(contents, a) /\ \A i \in DOMAIN b : b[i].key # e.key
      <3>1. CASE e \in contents /\ \A i \in DOMAIN a : a[i].key # e.key
        <4>1. \A i \in DOMAIN ab : ab[i].key # e.key
          <5> TAKE i \in DOMAIN ab
          <5>1. i \in 1 .. l \/ \E j \in 1 .. n : i = l + j
            BY <1>1, <1>2
          <5>2. QED
            BY <1>1, <2>1, <3>1, <5>1
        <4>2. QED
          BY <3>1, <4>1, AppliedMembers
      <3>2. ASSUME NEW i \in DOMAIN a, e = a[i], a[i].value # NoValue,
                   \A j \in DOMAIN a : j > i => a[j].key # a[i].key
            PROVE  e \in Applied(contents, ab)
        <4>1. i \in DOMAIN ab /\ e = ab[i] /\ ab[i].value # NoValue
          BY <1>1, <3>2
        <4>2. \A j \in DOMAIN ab : j > i => ab[j].key # ab[i].key
          <5> SUFFICES ASSUME NEW j \in DOMAIN ab, j > i PROVE ab[j].key # ab[i].key
            OBVIOUS
          <5>1. j \in 1 .. l \/ \E k \in 1 .. n : j = l + k
            BY <1>1, <1>2
          <5>2. CASE j \in 1 .. l
            BY <1>1, <3>2, <5>2
          <5>3. CASE \E k \in 1 .. n : j = l + k
            BY <1>1, <2>1, <3>2, <5>3
          <5>4. QED
            BY <5>1, <5>2, <5>3
        <4>3. QED
          BY <4>1, <4>2, AppliedMembers
      <3>3. QED
        BY <2>1, <3>1, <3>2, AppliedMembers
    <2>2. ASSUME NEW k \in DOMAIN b, e = b[k], b[k].value # NoValue,
                 \A j \in DOMAIN b : j > k => b[j].key # b[k].key
          PROVE  e \in Applied(contents, ab)
      <3>1. l + k \in DOMAIN ab /\ e = ab[l + k] /\ ab[l + k].value # NoValue
        BY <1>1, <2>2
      <3>2. \A j \in DOMAIN ab : j > l + k => ab[j].key # ab[l + k].key
        <4> SUFFICES ASSUME NEW j \in DOMAIN ab, j > l + k PROVE ab[j].key # ab[l + k].key
          OBVIOUS
        <4>1. PICK i \in 1 .. n : j = l + i
          <5>1. ~(j \in 1 .. l)
            BY <1>1
          <5>2. QED
            BY <1>1, <1>2, <5>1
        <4>2. i > k
          BY <1>1, <4>1
        <4>3. QED
          BY <1>1, <2>2, <4>1, <4>2
      <3>3. QED
        BY <3>1, <3>2, AppliedMembers
    <2>3. QED
      BY <1>4, <2>1, <2>2, AppliedMembers
  <1>5. QED
    BY <1>3, <1>4 DEF ab

\* A memtable leaves at most one entry of a key.
LEMMA AppliedUnique ==
  ASSUME NEW contents, UniqueKeys(contents), NEW b \in Seq(Entry)
  PROVE  UniqueKeys(Applied(contents, b))
  <1> SUFFICES ASSUME NEW d \in Applied(contents, b), NEW e \in Applied(contents, b), d.key = e.key
               PROVE  d = e
    BY DEF UniqueKeys
  <1> DEFINE Old(x) == x \in contents /\ \A i \in DOMAIN b : b[i].key # x.key
             New(x, i) == /\ x = b[i]
                          /\ \A j \in DOMAIN b : j > i => b[j].key # b[i].key
  <1>1. Old(d) \/ \E i \in DOMAIN b : New(d, i)
    BY AppliedMembers
  <1>2. Old(e) \/ \E i \in DOMAIN b : New(e, i)
    BY AppliedMembers
  <1>3. CASE Old(d) /\ Old(e)
    BY <1>3 DEF UniqueKeys
  <1>4. ASSUME NEW i \in DOMAIN b, NEW j \in DOMAIN b, New(d, i), New(e, j)
        PROVE  d = e
    <2>1. i \in Nat /\ j \in Nat
      OBVIOUS
    <2>2. ~(i > j) /\ ~(j > i)
      BY <1>4
    <2>3. QED
      BY <1>4, <2>1, <2>2
  <1>5. QED
    BY <1>1, <1>2, <1>3, <1>4

-----------------------------------------------------------------------------
(***************************************************************************)
(* The keys of the ranks, of values and of metadata, are all different.    *)
(***************************************************************************)
Place(r, meta, k) == StoreKey(r, IF meta THEN META_GET ELSE GET, k)

\* The key of a store that belongs to a key of a rank.
LEMMA PlaceIs ==
  ASSUME NEW r, NEW k
  PROVE  /\ Place(r, TRUE, k) = MetaPrefix \o RankedKey(r, k)
         /\ Place(r, FALSE, k) = RankedKey(r, k)
  BY CommandsApart DEF Place, StoreKey

\* A token in front of a text.
LEMMA Prefixed ==
  ASSUME NEW x \in Token, NEW k \in Texts
  PROVE  /\ <<x>> \o k \in Texts /\ Len(<<x>> \o k) = Len(k) + 1 /\ Len(k) \in Nat
         /\ (<<x>> \o k)[1] = x
         /\ \A i \in 1 .. Len(k) : (<<x>> \o k)[i + 1] = k[i]
  BY DEF Texts

\* Texts with a token in front are equal only when both parts are.
LEMMA PrefixedApart ==
  ASSUME NEW x \in Token, NEW y \in Token, NEW k \in Texts, NEW l \in Texts,
         <<x>> \o k = <<y>> \o l
  PROVE  x = y /\ k = l
  <1> DEFINE a == <<x>> \o k
             b == <<y>> \o l
  <1>1. /\ Len(a) = Len(k) + 1 /\ Len(k) \in Nat /\ a[1] = x
        /\ \A i \in 1 .. Len(k) : a[i + 1] = k[i]
    BY Prefixed
  <1>2. /\ Len(b) = Len(l) + 1 /\ Len(l) \in Nat /\ b[1] = y
        /\ \A i \in 1 .. Len(l) : b[i + 1] = l[i]
    BY Prefixed
  <1>3. a = b
    OBVIOUS
  <1> HIDE DEF a, b
  <1>4. x = y /\ Len(k) = Len(l) /\ \A i \in 1 .. Len(k) : k[i] = l[i]
    BY <1>1, <1>2, <1>3
  <1>5. k \in Seq(Token) /\ l \in Seq(Token)
    BY DEF Texts
  <1>6. QED
    BY <1>4, <1>5, SeqEqual

\* Keys with a rank are texts.
LEMMA RankedKeyText ==
  ASSUME NEW r \in Ranks, NEW k \in Keys
  PROVE  RankedKey(r, k) \in Texts
  BY Prefixed, RankTextAssumption, TextAssumption DEF RankedKey

\* The keys of the store are texts.
LEMMA PlaceText ==
  ASSUME NEW r \in Ranks, NEW meta \in BOOLEAN, NEW k \in Keys
  PROVE  Place(r, meta, k) \in Texts
  <1>1. "__lsmio_md::" \in Token
    BY TokenAssumption
  <1>2. CASE meta = TRUE
    BY <1>1, <1>2, PlaceIs, Prefixed, RankedKeyText DEF MetaPrefix
  <1>3. CASE meta = FALSE
    BY <1>3, PlaceIs, RankedKeyText
  <1>4. QED
    BY <1>2, <1>3

\* Ranks, data and metadata, and keys do not meet in the store.
LEMMA PlacesApart ==
  ASSUME PlainKeys, NEW r \in Ranks, NEW s \in Ranks, NEW k \in Keys, NEW l \in Keys,
         NEW meta \in BOOLEAN, NEW own \in BOOLEAN, Place(r, meta, k) = Place(s, own, l)
  PROVE  r = s /\ meta = own /\ k = l
  <1> DEFINE p == "__lsmio_md::"
             a == RankedKey(r, k)
             b == RankedKey(s, l)
  <1>1. p \in Token /\ k \in Texts /\ l \in Texts
    BY TokenAssumption, TextAssumption
  <1>2. a \in Texts /\ b \in Texts
    BY RankedKeyText
  <1>3. ToString(r) \in Token /\ ToString(s) \in Token /\ ToString(r) # p /\ ToString(s) # p
        /\ (ToString(r) = ToString(s) => r = s)
    <2>1. ASSUME NEW q \in Ranks PROVE ToString(q) # p
      <3>1. <<ToString(q)>> # <<p>>
        BY RankTextAssumption DEF MetaPrefix
      <3> DEFINE x == ToString(q)
      <3> HIDE DEF x, p
      <3>2. x # p
        BY <3>1 DEF x
      <3>3. QED
        BY <3>2 DEF x
    <2>2. QED
      BY <2>1, RankTextAssumption
  <1>4. a = b => r = s /\ k = l
    <2>1. CASE ServeLocal
      <3>1. a = <<ToString(r)>> \o k /\ b = <<ToString(s)>> \o l
        BY <2>1 DEF RankedKey
      <3>2. a = b => ToString(r) = ToString(s) /\ k = l
        <4> DEFINE x == ToString(r)
                   y == ToString(s)
        <4>1. x \in Token /\ y \in Token /\ a = <<x>> \o k /\ b = <<y>> \o l
          BY <1>3, <3>1
        <4> HIDE DEF x, y, a, b
        <4>2. a = b => x = y /\ k = l
          BY <1>1, <4>1, PrefixedApart
        <4>3. QED
          BY <4>2 DEF x, y
      <3>3. QED
        BY <1>3, <3>2
    <2>2. CASE ~ServeLocal
      BY <2>2, SizeAssumption DEF ServeLocal, RankedKey, Ranks
    <2>3. QED
      BY <2>1, <2>2
  <1>5. ASSUME NEW q \in Ranks, NEW t \in Ranks, NEW i \in Keys, NEW j \in Keys
        PROVE  MetaPrefix \o RankedKey(q, i) # RankedKey(t, j)
    <2>1. CASE ServeLocal
      <3>1. RankedKey(t, j) = <<ToString(t)>> \o j
        BY <2>1 DEF RankedKey
      <3>2. ToString(t) \in Token /\ ToString(t) # p
        <4>1. <<ToString(t)>> # <<p>> /\ ToString(t) \in Token
          BY RankTextAssumption DEF MetaPrefix
        <4> DEFINE x == ToString(t)
        <4> HIDE DEF x, p
        <4>2. x # p
          BY <4>1 DEF x
        <4>3. QED
          BY <4>1, <4>2 DEF x
      <3>3. RankedKey(q, i) \in Texts /\ j \in Texts
        BY RankedKeyText, TextAssumption
      <3>4. MetaPrefix = <<p>>
        BY DEF MetaPrefix
      <3> HIDE DEF p
      <3>5. QED
        BY <1>1, <3>1, <3>2, <3>3, <3>4, PrefixedApart
    <2>2. CASE ~ServeLocal
      BY <2>2 DEF RankedKey, PlainKeys
    <2>3. QED
      BY <2>1, <2>2
  <1>6. meta = own
    <2>1. MetaPrefix \o a # b /\ MetaPrefix \o b # a
      BY <1>5
    <2> HIDE DEF a, b
    <2>2. ~(meta = TRUE /\ own = FALSE)
      <3> SUFFICES ASSUME meta = TRUE, own = FALSE PROVE FALSE
        OBVIOUS
      <3>1. Place(r, TRUE, k) = Place(s, FALSE, l)
        OBVIOUS
      <3>2. QED
        BY <2>1, <3>1, PlaceIs DEF a, b
    <2>3. ~(meta = FALSE /\ own = TRUE)
      <3> SUFFICES ASSUME meta = FALSE, own = TRUE PROVE FALSE
        OBVIOUS
      <3>1. Place(r, FALSE, k) = Place(s, TRUE, l)
        OBVIOUS
      <3>2. QED
        BY <2>1, <3>1, PlaceIs DEF a, b
    <2>4. QED
      BY <2>2, <2>3
  <1>7. a = b
    <2>1. CASE meta = TRUE
      <3>1. <<p>> \o a = <<p>> \o b
        BY <1>6, <2>1, PlaceIs DEF MetaPrefix
      <3> HIDE DEF p, a, b
      <3>2. QED
        BY <1>1, <1>2, <3>1, PrefixedApart
    <2>2. CASE meta = FALSE
      BY <1>6, <2>2, PlaceIs
    <2>3. QED
      BY <2>1, <2>2
  <1>8. QED
    BY <1>4, <1>6, <1>7

-----------------------------------------------------------------------------
(***************************************************************************)
(* The newest value of a key among a rank's calls, and its latest barrier. *)
(***************************************************************************)
LEMMA LeastExists ==
  ASSUME NEW S, S \subseteq Nat, S # {}
  PROVE  \E n \in S : \A m \in S : n <= m
  <1> DEFINE R == {pair \in Nat \X Nat : pair[1] < pair[2]}
  <1>1. IsWellFoundedOn(R, Nat)
    BY NatLessThanWellFounded, Zenon DEF OpToRel
  <1>2. \A m, n \in Nat : <<m, n>> \in R <=> m < n
    OBVIOUS
  <1> HIDE DEF R
  <1>3. PICK n \in S : \A m \in S : ~ (<<m, n>> \in R)
    BY <1>1, WFMin
  <1>4. ASSUME NEW m \in S PROVE n <= m
    <2>1. n \in Nat /\ m \in Nat
      OBVIOUS
    <2>2. ~(m < n)
      BY <1>2, <1>3, <2>1, Zenon
    <2>3. QED
      BY <2>1, <2>2
  <1>5. QED
    BY <1>4

\* A set of numbers with a bound has a greatest one.
LEMMA MaxOfSome ==
  ASSUME NEW S, NEW n \in Nat, S \subseteq 0 .. n, S # {}
  PROVE  Max(S) \in S /\ \A m \in S : m <= Max(S)
  <1> DEFINE T == {k \in Nat : n - k \in S}
  <1>1. T # {}
    <2>1. PICK m \in S : TRUE
      OBVIOUS
    <2>2. n - m \in Nat /\ n - (n - m) = m
      OBVIOUS
    <2>3. QED
      BY <2>1, <2>2
  <1>2. PICK k \in T : \A j \in T : k <= j
    BY <1>1, LeastExists
  <1>3. ASSUME NEW m \in S PROVE m <= n - k
    <2>1. n - m \in T /\ m \in Nat /\ k \in Nat
      <3>1. n - m \in Nat /\ n - (n - m) = m
        OBVIOUS
      <3>2. QED
        BY <3>1
    <2>2. k <= n - m
      BY <1>2, <2>1
    <2>3. QED
      BY <2>1, <2>2
  <1>4. \E x \in S : \A y \in S : x >= y
    <2>1. n - k \in S
      OBVIOUS
    <2> HIDE DEF T
    <2>2. QED
      BY <1>3, <2>1
  <1>5. Max(S) \in S /\ \A y \in S : Max(S) >= y
    BY <1>4 DEF Max
  <1>6. QED
    BY <1>5


Mutating(meta) == IF meta THEN {META_PUT} ELSE {PUT, DEL}

MutationsOf(a, meta, key, n) ==
  {i \in 1 .. n : a[i].key = key /\ a[i].command \in Mutating(meta)}
ValueOf(m) == IF m.command = DEL THEN NoValue ELSE m.value
NewestOf(a, meta, key, n) ==
  LET mutations == MutationsOf(a, meta, key, n)
  IN  IF mutations = {} THEN NoValue ELSE ValueOf(a[Max(mutations)])

BarriersOf(a, n) == {0} \cup {i \in 1 .. n : a[i].command = WRITE_BARRIER}

\* Newest speaks of the rank's calls only.
LEMMA NewestIs ==
  ASSUME NEW r, NEW meta, NEW key, NEW n
  PROVE  Newest(r, meta, key, n) = NewestOf(asked[r], meta, key, n)
  BY DEF Newest, NewestOf, MutationsOf, Mutating, ValueOf

\* LastBarrier speaks of the rank's calls only.
LEMMA LastBarrierIs ==
  ASSUME NEW r, NEW n
  PROVE  LastBarrier(r, n) = Max(BarriersOf(asked[r], n))
  BY DEF LastBarrier, BarriersOf

\* They depend on the first calls only.
LEMMA NewestSame ==
  ASSUME NEW a, NEW b, NEW n \in Nat, \A i \in 1 .. n : a[i] = b[i], NEW meta, NEW key
  PROVE  NewestOf(a, meta, key, n) = NewestOf(b, meta, key, n)
  <1> DEFINE S == MutationsOf(a, meta, key, n)
  <1>1. MutationsOf(b, meta, key, n) = S
    BY DEF MutationsOf
  <1>2. S \subseteq 1 .. n /\ S \subseteq 0 .. n
    BY DEF MutationsOf
  <1>3. CASE S # {}
    <2>1. Max(S) \in 1 .. n
      BY <1>2, <1>3, MaxOfSome
    <2>2. a[Max(S)] = b[Max(S)]
      BY <2>1
    <2>3. QED
      BY <1>1, <2>2 DEF NewestOf
  <1>4. CASE S = {}
    BY <1>1, <1>4 DEF NewestOf
  <1>5. QED
    BY <1>3, <1>4

\* Equal calls have equal barriers.
LEMMA BarriersSame ==
  ASSUME NEW a, NEW b, NEW n \in Nat, \A i \in 1 .. n : a[i] = b[i]
  PROVE  BarriersOf(a, n) = BarriersOf(b, n)
  BY DEF BarriersOf

\* The last barrier is one of the calls, or 0.
LEMMA LastBarrierType ==
  ASSUME NEW a, NEW n \in Nat
  PROVE  Max(BarriersOf(a, n)) \in 0 .. n
  <1>1. BarriersOf(a, n) \subseteq 0 .. n /\ BarriersOf(a, n) # {}
    BY DEF BarriersOf
  <1>2. QED
    BY <1>1, MaxOfSome

\* One call more.
LEMMA NewestNext ==
  ASSUME NEW a, NEW n \in Nat, NEW meta, NEW key
  PROVE  NewestOf(a, meta, key, n + 1) =
           IF a[n + 1].key = key /\ a[n + 1].command \in Mutating(meta)
           THEN ValueOf(a[n + 1]) ELSE NewestOf(a, meta, key, n)
  <1> DEFINE S == MutationsOf(a, meta, key, n + 1)
  <1>1. CASE a[n + 1].key = key /\ a[n + 1].command \in Mutating(meta)
    <2>1. n + 1 \in S /\ S \subseteq 1 .. n + 1
      BY <1>1 DEF MutationsOf
    <2> HIDE DEF S
    <2>2. \A x \in S : (\A y \in S : x >= y) => x = n + 1
      BY <2>1
    <2>3. \A y \in S : n + 1 >= y
      BY <2>1
    <2>4. Max(S) = n + 1
      BY <2>1, <2>2, <2>3 DEF Max
    <2>5. QED
      BY <1>1, <2>1, <2>4 DEF NewestOf, S
  <1>2. CASE ~(a[n + 1].key = key /\ a[n + 1].command \in Mutating(meta))
    <2>1. S = MutationsOf(a, meta, key, n)
      BY <1>2 DEF MutationsOf
    <2>2. QED
      BY <1>2, <2>1 DEF NewestOf
  <1>3. QED
    BY <1>1, <1>2

\* A call more: it is the last barrier, or the last barrier stays.
LEMMA LastBarrierNext ==
  ASSUME NEW a, NEW n \in Nat
  PROVE  /\ a[n + 1].command = WRITE_BARRIER => Max(BarriersOf(a, n + 1)) = n + 1
         /\ a[n + 1].command # WRITE_BARRIER => BarriersOf(a, n + 1) = BarriersOf(a, n)
  <1> DEFINE S == BarriersOf(a, n + 1)
  <1>1. ASSUME a[n + 1].command = WRITE_BARRIER
        PROVE  Max(S) = n + 1
    <2>1. n + 1 \in S /\ S \subseteq 0 .. n + 1
      BY <1>1 DEF BarriersOf
    <2> HIDE DEF S
    <2>2. \A x \in S : (\A y \in S : x >= y) => x = n + 1
      BY <2>1
    <2>3. \A y \in S : n + 1 >= y
      BY <2>1
    <2>4. QED
      BY <2>1, <2>2, <2>3 DEF Max
  <1>2. a[n + 1].command # WRITE_BARRIER => BarriersOf(a, n + 1) = BarriersOf(a, n)
    BY DEF BarriersOf
  <1>3. QED
    BY <1>1, <1>2

-----------------------------------------------------------------------------
(***************************************************************************)
(* The store and the calls it has seen.  Its files with all its memtables  *)
(* on top hold for every key of every rank what the calls of that rank     *)
(* made of it.  What a lookup may come upon in between, in the files or in *)
(* a memtable, is a value the key has had since the rank's last barrier.   *)
(***************************************************************************)
Pending == flight \o (queue \o active)
Contents == Applied(db, Pending)
Entries == db \cup Range(Pending)
Known(p) == {Lookup(db, p)} \cup {e.value : e \in {x \in Range(Pending) : x.key = p}}

PlacesOf(r) == {Place(r, meta, k) : meta \in BOOLEAN, k \in Keys}

StoreSound ==
  /\ db \subseteq Entry /\ IsFiniteSet(db) /\ UniqueKeys(db)
  /\ flight \in Seq(Entry) /\ queue \in Seq(Entry) /\ active \in Seq(Entry)
  /\ Storage = "RocksDB" => flight = <<>> /\ queue = <<>> /\ active = <<>>
  /\ \A r \in draining : \A e \in Range(active) : e.key \notin PlacesOf(r)

Reflects(c, V, a, n, p, meta, k) ==
  /\ Lookup(c, p) = NewestOf(a, meta, k, n)
  /\ \A v \in V : \E i \in Max(BarriersOf(a, n)) .. n : v = NewestOf(a, meta, k, i)

StoreReflects ==
  \A r \in Ranks, meta \in BOOLEAN, k \in Keys :
    Reflects(Contents, Known(Place(r, meta, k)), asked[r], Len(executed[r]),
             Place(r, meta, k), meta, k)

After(c, q, m) ==
  IF m.command \in Writes THEN Mutated(c, Mutation(q, m.command, m.key, m.value)) ELSE c

StoreDoes(q, m) ==
  /\ Contents' = After(Contents, q, m)
  /\ \A p : Known(p)' \subseteq Known(p) \cup {Lookup(Contents', p)}
  /\ m.command = WRITE_BARRIER => \A p \in PlacesOf(q) : Known(p)' \subseteq {Lookup(Contents', p)}
  /\ \A e \in Entries' : \/ e \in Entries
                         \/ m.command \in Writes /\ e = Mutation(q, m.command, m.key, m.value)

StoreRests ==
  /\ Contents' = Contents
  /\ \A p : Known(p)' \subseteq Known(p)
  /\ Entries' \subseteq Entries

\* Where a key comes from after a memtable has been written.
LEMMA AppliedOf ==
  ASSUME NEW c, UniqueKeys(c), NEW b \in Seq(Entry), NEW p
  PROVE  \/ /\ \A e \in Range(b) : e.key # p
            /\ Lookup(Applied(c, b), p) = Lookup(c, p)
         \/ \E e \in Range(b) : e.key = p /\ Lookup(Applied(c, b), p) = e.value
  <1> DEFINE new == Applied(c, b)
             S == {i \in 1 .. Len(b) : b[i].key = p}
  <1>1. Len(b) \in Nat /\ DOMAIN b = 1 .. Len(b) /\ UniqueKeys(new)
    BY AppliedUnique
  <1>2. \A e : e \in new <=> \/ e \in c /\ \A i \in 1 .. Len(b) : b[i].key # e.key
                             \/ \E i \in 1 .. Len(b) :
                                  /\ e = b[i] /\ b[i].value # NoValue
                                  /\ \A j \in 1 .. Len(b) : j > i => b[j].key # b[i].key
    BY <1>1, AppliedMembers
  <1> HIDE DEF new
  <1>3. CASE S = {}
    <2>1. \A e \in Range(b) : e.key # p
      BY <1>1, <1>3 DEF Range
    <2>2. \A e : e.key = p => (e \in new <=> e \in c)
      BY <1>2, <1>3
    <2>3. CASE \E e \in c : e.key = p
      <3>1. PICK e \in c : e.key = p
        BY <2>3
      <3>2. e \in new
        BY <2>2, <3>1
      <3>3. Lookup(c, p) = e.value /\ Lookup(new, p) = e.value
        BY <1>1, <3>1, <3>2, LookupFound
      <3>4. QED
        BY <2>1, <3>3 DEF new
    <2>4. CASE \A e \in c : e.key # p
      <3>1. \A e \in new : e.key # p
        BY <2>2, <2>4
      <3>2. Lookup(c, p) = NoValue /\ Lookup(new, p) = NoValue
        BY <2>4, <3>1, LookupMissing
      <3>3. QED
        BY <2>1, <3>2 DEF new
    <2>5. QED
      BY <2>3, <2>4
  <1>4. CASE S # {}
    <2> DEFINE i == Max(S)
    <2>1. i \in S /\ \A j \in S : j <= i
      <3>1. S \subseteq 0 .. Len(b)
        OBVIOUS
      <3> HIDE DEF S
      <3>2. QED
        BY <1>1, <1>4, <3>1, MaxOfSome
    <2> HIDE DEF i
    <2>2. i \in 1 .. Len(b) /\ b[i].key = p /\ b[i] \in Range(b)
      BY <1>1, <2>1 DEF Range
    <2>3. \A j \in 1 .. Len(b) : j > i => b[j].key # p
      BY <1>1, <2>1
    <2>4. Lookup(new, p) = b[i].value
      <3>1. CASE b[i].value # NoValue
        <4>1. b[i] \in new
          BY <1>2, <2>2, <2>3, <3>1
        <4>2. QED
          BY <1>1, <2>2, <4>1, LookupFound
      <3>2. CASE b[i].value = NoValue
        <4>1. ASSUME NEW e \in new, e.key = p PROVE FALSE
          <5>1. PICK j \in 1 .. Len(b) :
                  /\ e = b[j] /\ b[j].value # NoValue
                  /\ \A h \in 1 .. Len(b) : h > j => b[h].key # b[j].key
            BY <1>2, <2>2, <4>1
          <5>2. j = i
            BY <1>1, <2>2, <2>3, <4>1, <5>1
          <5>3. QED
            BY <3>2, <5>1, <5>2
        <4>2. QED
          BY <3>2, <4>1, LookupMissing
      <3>3. QED
        BY <3>1, <3>2
    <2>5. QED
      BY <2>2, <2>4 DEF new
  <1>5. QED
    BY <1>3, <1>4

\* The memtables put together.
LEMMA PendingIs ==
  ASSUME flight \in Seq(Entry), queue \in Seq(Entry), active \in Seq(Entry)
  PROVE  /\ queue \o active \in Seq(Entry) /\ Pending \in Seq(Entry)
         /\ Range(queue \o active) = Range(queue) \cup Range(active)
         /\ Range(Pending) = Range(flight) \cup Range(queue \o active)
         /\ Contents = Applied(Applied(db, flight), queue \o active)
  <1>1. queue \o active \in Seq(Entry)
    BY ConcatProperties
  <1>2. Range(queue \o active) = Range(queue) \cup Range(active)
    BY RangeConcatenation
  <1> DEFINE rest == queue \o active
  <1> HIDE DEF rest
  <1>3. rest \in Seq(Entry)
    BY <1>1 DEF rest
  <1>4. flight \o rest \in Seq(Entry) /\ Range(flight \o rest) = Range(flight) \cup Range(rest)
    BY <1>3, ConcatProperties, RangeConcatenation
  <1>5. Applied(db, flight \o rest) = Applied(Applied(db, flight), rest)
    BY <1>3, AppliedConcat
  <1>6. QED
    BY <1>1, <1>2, <1>4, <1>5 DEF Pending, Contents, rest

\* Three of them in a row.
LEMMA ConcatThree ==
  ASSUME NEW a \in Seq(Entry), NEW b \in Seq(Entry), NEW c \in Seq(Entry)
  PROVE  (a \o b) \o c = a \o (b \o c) /\ (a \o b) \o c \in Seq(Entry)
  <1>1. a \o b \in Seq(Entry)
    BY ConcatProperties
  <1>2. (a \o b) \o c \in Seq(Entry)
    BY <1>1, ConcatProperties
  <1>3. QED
    BY <1>2, ConcatAssociative

\* The places of a rank do not change.
LEMMA PlacesStay == \A r : PlacesOf(r)' = PlacesOf(r)
  BY DEF PlacesOf, Place, StoreKey, RankedKey, ServeLocal

\* The members of an empty sequence and of one that is one longer.
LEMMA RangeGrows ==
  /\ Range(<<>>) = {}
  /\ \A b \in Seq(Entry), e \in Entry : Range(Append(b, e)) = Range(b) \cup {e}
  <1>1. Range(<<>>) = {}
    BY DEF Range
  <1>2. ASSUME NEW b \in Seq(Entry), NEW e \in Entry
        PROVE  Range(Append(b, e)) = Range(b) \cup {e}
    <2> DEFINE b1 == Append(b, e)
               n == Len(b)
    <2>1. /\ n \in Nat /\ DOMAIN b = 1 .. n /\ DOMAIN b1 = 1 .. n + 1
          /\ \A i \in 1 .. n : b1[i] = b[i]
          /\ b1[n + 1] = e
      BY Appended
    <2> HIDE DEF b1, n
    <2>2. QED
      <3>1. \A x \in Range(b1) : x \in Range(b) \cup {e}
        <4> SUFFICES ASSUME NEW i \in 1 .. n + 1 PROVE b1[i] \in Range(b) \cup {e}
          BY <2>1 DEF Range
        <4>1. i = n + 1 \/ i \in 1 .. n
          BY <2>1
        <4>2. QED
          BY <2>1, <4>1 DEF Range
      <3>2. \A x \in Range(b) : x \in Range(b1)
        BY <2>1 DEF Range
      <3>3. e \in Range(b1)
        BY <2>1 DEF Range
      <3>4. QED
        BY <3>1, <3>2, <3>3 DEF b1
  <1>3. QED
    BY <1>1, <1>2

\* The contents have at most one entry of a key.
LEMMA ContentsUnique ==
  ASSUME StoreSound
  PROVE  UniqueKeys(Contents)
  BY PendingIs, AppliedUnique DEF StoreSound, Contents

\* What the last one of all the mutations left is among what is known.
LEMMA ContentsKnown ==
  ASSUME StoreSound, NEW p
  PROVE  Lookup(Contents, p) \in Known(p)
  <1>1. UniqueKeys(db) /\ Pending \in Seq(Entry)
    BY PendingIs DEF StoreSound
  <1>2. QED
    BY <1>1, AppliedOf DEF Contents, Known

\* Without memtables only the last value is known.
LEMMA KnownLast ==
  ASSUME StoreSound, Storage = "RocksDB", NEW p
  PROVE  Known(p) = {Lookup(Contents, p)}
  <1>1. flight = <<>> /\ queue = <<>> /\ active = <<>>
    BY DEF StoreSound
  <1>2. <<>> \o <<>> = <<>>
    <2>1. <<>> \in Seq(Entry)
      OBVIOUS
    <2>2. QED
      BY <2>1, ConcatEmptySeq
  <1>3. Pending = <<>> /\ Range(Pending) = {}
    BY <1>1, <1>2 DEF Pending, Range
  <1>4. Contents = db
    BY <1>3, AppliedNothing DEF Contents
  <1>5. QED
    BY <1>3, <1>4 DEF Known

\* A lookup finds something known.
LEMMA FoundIs ==
  ASSUME StoreSound, NEW p, NEW v \in Found(p)
  PROVE  v \in Known(p)
  <1> DEFINE rest == queue \o active
  <1>1. UniqueKeys(db) /\ rest \in Seq(Entry) /\ Range(rest) \subseteq Range(Pending)
        /\ Contents = Applied(Applied(db, flight), rest)
    BY PendingIs DEF StoreSound
  <1>2. v = Lookup(Applied(db, rest), p) \/ v = Lookup(Contents, p)
    BY <1>1 DEF Found, FilesSeen
  <1>3. CASE v = Lookup(Applied(db, rest), p)
    <2> HIDE DEF rest
    <2>1. QED
      BY <1>1, <1>3, AppliedOf DEF Known
  <1>4. QED
    BY <1>2, <1>3, ContentsKnown

\* A sequence has finitely many members.
LEMMA RangeFinite ==
  ASSUME NEW S, NEW b \in Seq(S)
  PROVE  IsFiniteSet(Range(b))
  <1>1. Len(b) \in Nat /\ DOMAIN b = 1 .. Len(b) /\ b \in [1 .. Len(b) -> Range(b)]
    BY DEF Range
  <1>2. IsFiniteSet(1 .. Len(b))
    BY <1>1, FS_Interval
  <1>3. b \in Surjection(1 .. Len(b), Range(b))
    BY <1>1 DEF Surjection, Range
  <1>4. QED
    BY <1>2, <1>3, FS_Surjection

\* What the store reflects depends on the executed calls only.
LEMMA ReflectsMore ==
  ASSUME NEW c, NEW V, NEW a, NEW b, NEW n \in Nat, NEW p, NEW meta, NEW k,
         Reflects(c, V, a, n, p, meta, k), \A i \in 1 .. n : a[i] = b[i]
  PROVE  Reflects(c, V, b, n, p, meta, k)
  <1>1. Max(BarriersOf(a, n)) \in 0 .. n /\ BarriersOf(a, n) = BarriersOf(b, n)
    BY LastBarrierType, BarriersSame
  <1>2. \A i \in 0 .. n : NewestOf(a, meta, k, i) = NewestOf(b, meta, k, i)
    <2> TAKE i \in 0 .. n
    <2>1. i \in Nat /\ \A j \in 1 .. i : a[j] = b[j]
      OBVIOUS
    <2>2. QED
      BY <2>1, NewestSame
  <1>3. Lookup(c, p) = NewestOf(b, meta, k, n)
    BY <1>2 DEF Reflects
  <1>4. ASSUME NEW v \in V
        PROVE  \E i \in Max(BarriersOf(b, n)) .. n : v = NewestOf(b, meta, k, i)
    <2>1. PICK i \in Max(BarriersOf(a, n)) .. n : v = NewestOf(a, meta, k, i)
      BY DEF Reflects
    <2>2. i \in 0 .. n
      BY <1>1
    <2>3. QED
      BY <1>1, <1>2, <2>1, <2>2
  <1>5. QED
    BY <1>3, <1>4 DEF Reflects

\* A store that knows the last value only.
LEMMA ReflectsLast ==
  ASSUME NEW c, NEW V, NEW a, NEW n \in Nat, NEW p, NEW meta, NEW k,
         Lookup(c, p) = NewestOf(a, meta, k, n), V \subseteq {Lookup(c, p)}
  PROVE  Reflects(c, V, a, n, p, meta, k)
  <1>1. n \in Max(BarriersOf(a, n)) .. n
    BY LastBarrierType
  <1>2. QED
    BY <1>1 DEF Reflects

\* The rank's next call is executed.
LEMMA ReflectsNext ==
  ASSUME NEW c, NEW V, NEW a, NEW n \in Nat, NEW p, NEW meta, NEW k,
         Reflects(c, V, a, n, p, meta, k),
         NEW c1, Lookup(c1, p) = NewestOf(a, meta, k, n + 1),
         NEW W, W \subseteq V \cup {Lookup(c1, p)},
         a[n + 1].command = WRITE_BARRIER => W \subseteq {Lookup(c1, p)}
  PROVE  Reflects(c1, W, a, n + 1, p, meta, k)
  <1>1. CASE a[n + 1].command = WRITE_BARRIER
    BY <1>1, ReflectsLast
  <1>2. CASE a[n + 1].command # WRITE_BARRIER
    <2>1. BarriersOf(a, n + 1) = BarriersOf(a, n) /\ Max(BarriersOf(a, n)) \in 0 .. n
      BY <1>2, LastBarrierNext, LastBarrierType
    <2>2. ASSUME NEW w \in W
          PROVE  \E i \in Max(BarriersOf(a, n + 1)) .. n + 1 : w = NewestOf(a, meta, k, i)
      <3>1. CASE w = Lookup(c1, p)
        <4>1. n + 1 \in Max(BarriersOf(a, n + 1)) .. n + 1
          BY <2>1
        <4>2. QED
          BY <3>1, <4>1
      <3>2. CASE w \in V
        <4>1. PICK i \in Max(BarriersOf(a, n)) .. n : w = NewestOf(a, meta, k, i)
          BY <3>2 DEF Reflects
        <4>2. i \in Max(BarriersOf(a, n + 1)) .. n + 1
          BY <2>1
        <4>3. QED
          BY <4>1, <4>2
      <3>3. QED
        BY <3>1, <3>2
    <2>3. QED
      BY <2>2 DEF Reflects
  <1>3. QED
    BY <1>1, <1>2

\* A call of another rank is executed.
LEMMA ReflectsOther ==
  ASSUME NEW c, NEW V, NEW a, NEW n \in Nat, NEW p, NEW meta, NEW k,
         Reflects(c, V, a, n, p, meta, k),
         NEW c1, Lookup(c1, p) = Lookup(c, p), NEW W, W \subseteq V \cup {Lookup(c1, p)}
  PROVE  Reflects(c1, W, a, n, p, meta, k)
  <1>1. n \in Max(BarriersOf(a, n)) .. n
    BY LastBarrierType
  <1>2. QED
    BY <1>1 DEF Reflects

\* Where a write goes.
LEMMA WritePlace ==
  ASSUME NEW q \in Ranks, NEW m \in Calls, m.command \in Writes
  PROVE  LET e == Mutation(q, m.command, m.key, m.value)
         IN  /\ e \in Entry /\ e.value = ValueOf(m)
             /\ e.key = Place(q, m.command = META_PUT, m.key)
  <1> DEFINE x == StoreKey(q, m.command, m.key)
             v == ValueOf(m)
  <1>1. m.key \in Keys /\ m.value \in Texts
    BY MessageFields DEF Calls
  <1>2. x = Place(q, m.command = META_PUT, m.key)
    <2>1. CASE m.command = META_PUT
      <3>1. Place(q, m.command = META_PUT, m.key) = Place(q, TRUE, m.key)
        BY <2>1 DEF Place
      <3>2. x = MetaPrefix \o RankedKey(q, m.key)
        BY <2>1 DEF StoreKey
      <3>3. QED
        BY <3>1, <3>2, PlaceIs
    <2>2. CASE m.command # META_PUT
      <3>1. Place(q, m.command = META_PUT, m.key) = Place(q, FALSE, m.key)
        BY <2>2 DEF Place
      <3>2. m.command \notin {META_GET, META_PUT}
        BY <2>2, CommandsApart DEF Writes, Requests
      <3>3. x = RankedKey(q, m.key)
        BY <3>2 DEF StoreKey
      <3>4. QED
        BY <3>1, <3>3, PlaceIs
    <2>3. QED
      BY <2>1, <2>2
  <1>3. x \in Texts
    BY <1>1, <1>2, PlaceText
  <1>4. v \in Texts
    BY <1>1, CommandTexts DEF ValueOf
  <1>5. Mutation(q, m.command, m.key, m.value) = [key |-> x, value |-> v]
    BY DEF Mutation, ValueOf
  <1> HIDE DEF x, v
  <1>6. [key |-> x, value |-> v] \in Entry
    BY <1>3, <1>4 DEF Entry
  <1>7. QED
    BY <1>2, <1>5, <1>6 DEF v

\* A call of one rank changes what is found at its own key, and nowhere else.
LEMMA AfterShows ==
  ASSUME PlainKeys, NEW c, UniqueKeys(c), NEW q \in Ranks, NEW m \in Calls,
         NEW r \in Ranks, NEW meta \in BOOLEAN, NEW k \in Keys
  PROVE  Lookup(After(c, q, m), Place(r, meta, k)) =
           IF r = q /\ m.key = k /\ m.command \in Mutating(meta)
           THEN ValueOf(m) ELSE Lookup(c, Place(r, meta, k))
  <1>1. CASE m.command \in Writes
    <2> DEFINE e == Mutation(q, m.command, m.key, m.value)
               own == (m.command = META_PUT)
    <2>1. e.value = ValueOf(m) /\ e.key = Place(q, own, m.key)
      BY <1>1, WritePlace
    <2>2. m.key \in Keys /\ own \in BOOLEAN
      BY <1>1 DEF Calls
    <2>3. m.command \in Mutating(meta) <=> meta = own
      <3>1. m.command \in {PUT, DEL, META_PUT} /\ META_PUT \notin {PUT, DEL}
        BY <1>1, CommandsApart DEF Writes
      <3>2. CASE meta = TRUE
        BY <3>1, <3>2 DEF Mutating
      <3>3. CASE meta = FALSE
        BY <3>1, <3>3 DEF Mutating
      <3>4. QED
        BY <3>2, <3>3
    <2> HIDE DEF own
    <2>4. Place(r, meta, k) = Place(q, own, m.key) <=> r = q /\ m.key = k /\ meta = own
      BY <2>2, PlacesApart
    <2>5. Lookup(Mutated(c, e), Place(r, meta, k)) =
            IF Place(r, meta, k) = e.key THEN e.value ELSE Lookup(c, Place(r, meta, k))
      BY LookupMutated
    <2>6. After(c, q, m) = Mutated(c, e)
      BY <1>1 DEF After
    <2> HIDE DEF e
    <2>7. QED
      BY <2>1, <2>3, <2>4, <2>5, <2>6
  <1>2. CASE m.command \notin Writes
    <2>1. m.command \notin Mutating(meta)
      BY <1>2 DEF Mutating, Writes
    <2>2. QED
      BY <1>2, <2>1 DEF After
  <1>3. QED
    BY <1>1, <1>2

\* A mutation of a rank goes to a place of that rank.
LEMMA MutationPlace ==
  ASSUME PlainKeys, NEW q \in Ranks, NEW m \in Calls, m.command \in Writes,
         NEW r \in Ranks, Mutation(q, m.command, m.key, m.value).key \in PlacesOf(r)
  PROVE  r = q
  <1>1. PICK meta \in BOOLEAN, k \in Keys :
          Mutation(q, m.command, m.key, m.value).key = Place(r, meta, k)
    BY DEF PlacesOf
  <1>2. Mutation(q, m.command, m.key, m.value).key = Place(q, m.command = META_PUT, m.key)
    BY WritePlace
  <1>3. m.key \in Keys /\ (m.command = META_PUT) \in BOOLEAN
    BY DEF Calls
  <1> DEFINE own == (m.command = META_PUT)
  <1>4. own \in BOOLEAN /\ Place(r, meta, k) = Place(q, own, m.key)
    BY <1>1, <1>2
  <1> HIDE DEF own
  <1>5. QED
    BY <1>3, <1>4, PlacesApart

\* _batchMutation, in either store.
LEMMA MutateDoes ==
  ASSUME PlainKeys, StoreSound, draining \subseteq Ranks, NEW q \in Ranks, q \notin draining,
         NEW m \in Calls, m.command \in Writes, Mutate(Mutation(q, m.command, m.key, m.value))
  PROVE  StoreDoes(q, m) /\ StoreSound'
  <1> DEFINE e == Mutation(q, m.command, m.key, m.value)
             c1 == Mutated(Contents, e)
  <1>1. e \in Entry
    BY WritePlace
  <1>2. m.command # WRITE_BARRIER /\ c1 = After(Contents, q, m)
    BY CommandsApart DEF After
  <1>3. \A r \in draining : e.key \notin PlacesOf(r)
    BY MutationPlace
  <1>4. db \subseteq Entry /\ IsFiniteSet(db) /\ UniqueKeys(db)
        /\ flight \in Seq(Entry) /\ queue \in Seq(Entry) /\ active \in Seq(Entry)
    BY DEF StoreSound
  <1>5. Mutate(e)
    OBVIOUS
  <1> HIDE DEF e
  <1>6. /\ Contents' = c1 /\ StoreSound'
        /\ \A p : Known(p)' \subseteq Known(p) \cup {Lookup(c1, p)}
        /\ Entries' \subseteq Entries \cup {e}
    <2>1. CASE Storage = "RocksDB"
      <3>1. db' = Mutated(db, e) /\ UNCHANGED <<flight, queue, active, draining>>
        BY <1>1, <1>5, <2>1, AppliedOne DEF Mutate, memtables
      <3>2. flight = <<>> /\ queue = <<>> /\ active = <<>>
        BY <2>1 DEF StoreSound
      <3>3. Pending = <<>> /\ Pending' = <<>>
        <4>1. <<>> \in Seq(Entry)
          OBVIOUS
        <4>2. (<<>> \o <<>>) = <<>>
          BY <4>1, ConcatEmptySeq
        <4>3. QED
          BY <3>1, <3>2, <4>2 DEF Pending
      <3>4. Contents = db /\ Contents' = db'
        BY <3>3, AppliedNothing DEF Contents
      <3>5. db' \subseteq Entry /\ IsFiniteSet(db') /\ UniqueKeys(db')
        BY <1>1, <1>4, <3>1, MutatedSound
      <3>6. StoreSound'
        BY <1>4, <3>1, <3>2, <3>5, RangeGrows, PlacesStay DEF StoreSound
      <3>7. ASSUME NEW p PROVE Known(p)' \subseteq {Lookup(c1, p)}
        BY <3>1, <3>3, <3>4, RangeGrows DEF Known
      <3>8. Entries' \subseteq Entries \cup {e}
        BY <3>1, <3>3, RangeGrows DEF Entries, Mutated
      <3>9. QED
        BY <3>1, <3>4, <3>6, <3>7, <3>8
    <2>2. CASE Storage = "NativeDB"
      <3>1. /\ UNCHANGED <<db, flight, draining>>
            /\ \/ active' = Append(active, e) /\ queue' = queue
               \/ active' = <<e>> /\ queue' = queue \o active
        BY <1>5, <2>2 DEF Mutate
      <3> DEFINE one == <<e>>
      <3>2. one \in Seq(Entry) /\ Range(one) = {e}
        <4>1. <<>> \in Seq(Entry) /\ Append(<<>>, e) = one /\ one \in Seq(Entry)
          BY <1>1
        <4>2. Range(Append(<<>>, e)) = Range(<<>>) \cup {e} /\ Range(<<>>) = {}
          BY <1>1, <4>1, RangeGrows
        <4>3. QED
          BY <4>1, <4>2
      <3>3. /\ Append(active, e) = active \o one
            /\ Append(active, e) \in Seq(Entry) /\ Range(Append(active, e)) = Range(active) \cup {e}
        BY <1>1, <1>4, AppendIsConcat, RangeGrows
      <3>4. /\ queue' \in Seq(Entry) /\ active' \in Seq(Entry)
            /\ Range(active') \subseteq Range(active) \cup {e}
            /\ queue' \o active' = (queue \o active) \o one
        <4> HIDE DEF one
        <4>1. CASE active' = Append(active, e) /\ queue' = queue
          <5>1. (queue \o active) \o one = queue \o (active \o one)
            BY <1>4, <3>2, ConcatThree
          <5>2. queue' \o active' = queue \o (active \o one)
            BY <3>3, <4>1, Zenon
          <5>3. queue' \in Seq(Entry) /\ active' \in Seq(Entry) /\ Range(active') \subseteq Range(active) \cup {e}
            BY <1>4, <3>3, <4>1
          <5>4. QED
            BY <5>1, <5>2, <5>3
        <4>2. CASE active' = one /\ queue' = queue \o active
          BY <1>4, <3>2, <4>2, PendingIs
        <4>3. QED
          BY <3>1, <4>1, <4>2 DEF one
      <3> HIDE DEF one
      <3>5. Pending' = Pending \o one
        <4> DEFINE rest == queue \o active
        <4>1. rest \in Seq(Entry) /\ queue' \o active' = rest \o one
          BY <1>4, <3>4, PendingIs
        <4> HIDE DEF rest
        <4>2. (flight \o rest) \o one = flight \o (rest \o one)
          BY <1>4, <3>2, <4>1, ConcatThree
        <4>3. QED
          BY <3>1, <4>1, <4>2 DEF Pending, rest
      <3>6. Contents' = c1
        <4>1. Applied(db, Pending \o one) = Applied(Applied(db, Pending), one)
          BY <1>4, <3>2, PendingIs, AppliedConcat
        <4>2. QED
          BY <1>1, <3>1, <3>5, <4>1, AppliedOne DEF Contents, one
      <3>7. Range(Pending') = Range(Pending) \cup {e}
        <4>1. Pending \in Seq(Entry)
          BY <1>4, PendingIs
        <4>2. Range(Pending \o one) = Range(Pending) \cup Range(one)
          BY <3>2, <4>1, RangeConcatenation
        <4>3. QED
          BY <3>2, <3>5, <4>2
      <3>8. StoreSound'
        BY <1>3, <1>4, <2>2, <3>1, <3>4, PlacesStay DEF StoreSound
      <3>9. ASSUME NEW p PROVE Known(p)' \subseteq Known(p) \cup {Lookup(c1, p)}
        <4>1. UniqueKeys(Contents)
          BY ContentsUnique
        <4> HIDE DEF c1
        <4>2. p = e.key => Lookup(c1, p) = e.value
          BY <4>1, LookupMutated DEF c1
        <4>3. QED
          BY <3>1, <3>7, <4>2 DEF Known
      <3>10. QED
        BY <3>1, <3>6, <3>7, <3>8, <3>9 DEF Entries
    <2>3. QED
      BY <2>1, <2>2, ModeAssumption
  <1> HIDE DEF c1
  <1>7. StoreDoes(q, m)
    BY <1>2, <1>6 DEF StoreDoes, e
  <1>8. QED
    BY <1>6, <1>7

\* FlushWorkLoop changes nothing that a lookup could tell for certain.
LEMMA FlushDoes ==
  ASSUME StoreSound, StorePops \/ StoreFlushes
  PROVE  StoreSound' /\ StoreRests
  <1>1. db \subseteq Entry /\ IsFiniteSet(db) /\ UniqueKeys(db)
        /\ flight \in Seq(Entry) /\ queue \in Seq(Entry) /\ active \in Seq(Entry)
    BY DEF StoreSound
  <1>2. <<>> \in Seq(Entry) /\ Range(<<>>) = {}
    BY RangeGrows
  <1>3. CASE StorePops
    <2>1. PICK n \in 1 .. Len(queue) : /\ flight' = SubSeq(queue, 1, n)
                                       /\ queue' = SubSeq(queue, n + 1, Len(queue))
      BY <1>3 DEF StorePops
    <2>2. flight = <<>> /\ UNCHANGED <<db, active, draining>>
      BY <1>3 DEF StorePops
    <2>3. flight' \in Seq(Entry) /\ queue' \in Seq(Entry) /\ flight' \o queue' = queue
      <3> DEFINE a == SubSeq(queue, 1, n)
                 b == SubSeq(queue, n + 1, Len(queue))
      <3>1. /\ Len(queue) \in Nat /\ n \in Nat /\ n <= Len(queue)
            /\ a \in Seq(Entry) /\ Len(a) = n /\ \A i \in 1 .. n : a[i] = queue[i]
            /\ b \in Seq(Entry) /\ Len(b) = Len(queue) - n
            /\ \A i \in 1 .. Len(queue) - n : b[i] = queue[n + i]
        BY <1>1
      <3> HIDE DEF a, b
      <3>2. /\ a \o b \in Seq(Entry) /\ Len(a \o b) = n + (Len(queue) - n)
            /\ \A i \in 1 .. n + (Len(queue) - n) : (a \o b)[i] = IF i <= n THEN a[i] ELSE b[i - n]
        BY <3>1, ConcatProperties
      <3>3. Len(a \o b) = Len(queue)
        BY <3>1, <3>2
      <3>4. ASSUME NEW i \in 1 .. Len(queue) PROVE (a \o b)[i] = queue[i]
        <4>1. CASE i <= n
          BY <3>1, <3>2, <4>1
        <4>2. CASE ~(i <= n)
          <5>1. i - n \in 1 .. Len(queue) - n /\ n + (i - n) = i /\ i \in 1 .. n + (Len(queue) - n)
            BY <3>1, <4>2
          <5>2. (a \o b)[i] = b[i - n]
            BY <3>2, <4>2, <5>1
          <5>3. b[i - n] = queue[n + (i - n)]
            BY <3>1, <5>1
          <5>4. QED
            BY <5>1, <5>2, <5>3
        <4>3. QED
          BY <4>1, <4>2
      <3>5. a \o b = queue
        BY <1>1, <3>2, <3>3, <3>4, SeqEqual
      <3>6. QED
        BY <2>1, <3>1, <3>5 DEF a, b
    <2>4. Pending' = Pending
      <3>1. Pending' = flight' \o (queue' \o active)
        BY <2>2 DEF Pending
      <3>2. flight' \o (queue' \o active) = (flight' \o queue') \o active
        <4> DEFINE a == flight'
                   b == queue'
        <4>1. a \in Seq(Entry) /\ b \in Seq(Entry)
          BY <2>3
        <4> HIDE DEF a, b
        <4>2. (a \o b) \o active = a \o (b \o active)
          BY <1>1, <4>1, ConcatThree
        <4>3. QED
          BY <4>2 DEF a, b
      <3>3. Pending = queue \o active
        BY <1>1, <2>2, PendingIs, ConcatEmptySeq DEF Pending
      <3>4. QED
        BY <2>3, <3>1, <3>2, <3>3
    <2>5. Storage # "RocksDB"
      BY <2>1 DEF StoreSound
    <2>6. StoreSound'
      BY <1>1, <2>2, <2>3, <2>5, PlacesStay DEF StoreSound
    <2>7. QED
      BY <2>2, <2>4, <2>6 DEF StoreRests, Contents, Known, Entries
  <1>4. CASE StoreFlushes
    <2>1. /\ flight # <<>> /\ db' = Applied(db, flight) /\ flight' = <<>>
          /\ UNCHANGED <<queue, active, draining>>
      BY <1>4 DEF StoreFlushes
    <2>2. Pending' = queue \o active
      <3>1. Pending' = <<>> \o (queue \o active)
        BY <2>1 DEF Pending
      <3>2. QED
        BY <1>1, <3>1, PendingIs, ConcatEmptySeq
    <2>3. Contents' = Contents /\ Range(Pending) = Range(flight) \cup Range(Pending')
      BY <1>1, <2>1, <2>2, PendingIs DEF Contents
    <2>4. db' \subseteq db \cup Range(flight)
      <3>1. ASSUME NEW x \in Applied(db, flight) PROVE x \in db \cup Range(flight)
        BY AppliedMembers DEF Range
      <3>2. QED
        BY <2>1, <3>1
    <2>5. IsFiniteSet(db') /\ UniqueKeys(db') /\ db' \subseteq Entry
      <3>1. IsFiniteSet(db \cup Range(flight))
        <4>1. IsFiniteSet(Range(flight))
          BY <1>1, RangeFinite
        <4>2. QED
          BY <1>1, <4>1, FS_Union
      <3>2. IsFiniteSet(db')
        BY <2>4, <3>1, FS_Subset
      <3>3. Range(flight) \subseteq Entry
        BY <1>1 DEF Range
      <3>4. UniqueKeys(db')
        BY <1>1, <2>1, AppliedUnique
      <3>5. QED
        BY <1>1, <2>4, <3>2, <3>3, <3>4
    <2>6. Storage # "RocksDB"
      BY <2>1 DEF StoreSound
    <2>7. StoreSound'
      BY <1>1, <1>2, <2>1, <2>5, <2>6, PlacesStay DEF StoreSound
    <2>8. ASSUME NEW p PROVE Known(p)' \subseteq Known(p)
      <3>1. Lookup(db', p) \in Known(p)
        BY <1>1, <2>1, <2>3, AppliedOf DEF Known
      <3>2. QED
        BY <2>3, <3>1 DEF Known
    <2>9. QED
      BY <2>3, <2>4, <2>7, <2>8 DEF StoreRests, Entries
  <1>5. QED
    BY <1>3, <1>4

\* writeBarrier rotates the active memtable: nothing is lost, and what comes into
\* the new one is of other ranks.
LEMMA BarrierBeginsDoes ==
  ASSUME StoreSound, NEW r, BarrierBegins(r)
  PROVE  StoreSound' /\ StoreRests
  <1>1. /\ queue' = queue \o active /\ active' = <<>>
        /\ UNCHANGED <<db, flight>>
    BY DEF BarrierBegins
  <1>2. flight \in Seq(Entry) /\ queue \in Seq(Entry) /\ active \in Seq(Entry)
    BY DEF StoreSound
  <1>3. <<>> \in Seq(Entry) /\ Range(<<>>) = {}
    BY RangeGrows
  <1>4. queue' \in Seq(Entry) /\ Pending' = Pending
    BY <1>1, <1>2, PendingIs, ConcatEmptySeq DEF Pending
  <1>5. Storage = "RocksDB" => queue' = <<>>
    <2>1. <<>> \o <<>> = <<>>
      BY <1>3, ConcatEmptySeq
    <2>2. QED
      BY <1>1, <2>1 DEF StoreSound
  <1>6. StoreSound'
    BY <1>1, <1>3, <1>4, <1>5 DEF StoreSound
  <1>7. QED
    BY <1>1, <1>4, <1>6 DEF StoreRests, Contents, Known, Entries

\* When writeBarrier returns, only the active memtable is not in a file, and no
\* key of the rank is in it.
LEMMA BarrierReturnsDoes ==
  ASSUME StoreSound, NEW q \in Ranks, NEW m, m.command = WRITE_BARRIER, BarrierReturns(q)
  PROVE  StoreDoes(q, m) /\ StoreSound'
  <1>1. /\ q \in draining /\ draining' \subseteq draining /\ queue = <<>> /\ flight = <<>>
        /\ UNCHANGED <<db, flight, queue, active>>
    BY DEF BarrierReturns, memtables
  <1>2. StoreSound'
    BY <1>1, PlacesStay DEF StoreSound
  <1>3. Contents' = Contents /\ Entries' = Entries /\ \A p : Known(p)' = Known(p)
    BY <1>1 DEF Contents, Entries, Known, Pending
  <1>4. Contents' = After(Contents, q, m)
    BY <1>3, CommandsApart DEF After
  <1>5. active \in Seq(Entry) /\ UniqueKeys(db)
    BY DEF StoreSound
  <1>6. Pending = active
    BY <1>1, <1>5, ConcatEmptySeq DEF Pending
  <1>7. ASSUME NEW p \in PlacesOf(q) PROVE Known(p) \subseteq {Lookup(Contents, p)}
    <2>1. \A e \in Range(active) : e.key # p
      BY <1>1 DEF StoreSound
    <2>2. Lookup(Contents, p) = Lookup(db, p)
      BY <1>5, <1>6, <2>1, AppliedOf DEF Contents
    <2>3. QED
      BY <1>6, <2>1, <2>2 DEF Known
  <1>8. QED
    BY <1>2, <1>3, <1>4, <1>7 DEF StoreDoes

\* The store's close.
LEMMA CloseDoes ==
  ASSUME StoreSound, db' = Applied(db, flight \o queue \o active),
         flight' = <<>>, queue' = <<>>, active' = <<>>, draining' = draining
  PROVE  /\ StoreSound' /\ Contents' = Contents /\ db' = Contents
         /\ \A p : Known(p)' \subseteq {Lookup(Contents, p)}
  <1>1. /\ UniqueKeys(db) /\ db \subseteq Entry /\ IsFiniteSet(db)
        /\ flight \in Seq(Entry) /\ queue \in Seq(Entry) /\ active \in Seq(Entry)
        /\ Pending \in Seq(Entry)
    BY PendingIs DEF StoreSound
  <1>2. db' = Contents
    BY <1>1, ConcatThree DEF Contents, Pending
  <1>3. <<>> \in Seq(Entry) /\ Range(<<>>) = {} /\ <<>> \o <<>> = <<>>
    BY RangeGrows, ConcatEmptySeq
  <1>4. Pending' = <<>>
    BY <1>3 DEF Pending
  <1>5. Contents' = Contents
    BY <1>2, <1>4, AppliedNothing DEF Contents
  <1>6. IsFiniteSet(db') /\ UniqueKeys(db') /\ db' \subseteq Entry
    <2>1. ASSUME NEW x \in Applied(db, Pending) PROVE x \in db \cup Range(Pending)
      BY AppliedMembers DEF Range
    <2>2. IsFiniteSet(db \cup Range(Pending)) /\ Range(Pending) \subseteq Entry
      <3>1. IsFiniteSet(Range(Pending))
        BY <1>1, RangeFinite
      <3>2. Range(Pending) \subseteq Entry
        BY <1>1 DEF Range
      <3>3. QED
        BY <1>1, <3>1, <3>2, FS_Union
    <2>3. Contents \subseteq db \cup Range(Pending)
      BY <2>1 DEF Contents
    <2>4. IsFiniteSet(Contents)
      BY <2>2, <2>3, FS_Subset
    <2>5. QED
      BY <1>1, <1>2, <2>2, <2>3, <2>4, ContentsUnique
  <1>7. StoreSound'
    BY <1>3, <1>6 DEF StoreSound
  <1>8. QED
    BY <1>2, <1>3, <1>4, <1>5, <1>7 DEF Known
-----------------------------------------------------------------------------
(***************************************************************************)
(* What vectorTupleSerialize makes is a text.  Its recursive function is   *)
(* there for every length: there is no least one for which it is not.      *)
(***************************************************************************)
Partial(seqs, g, n) ==
  g = [i \in 1 .. n |-> IF i = 1 THEN seqs[i] ELSE g[i - 1] \o seqs[i]]

\* The sequences up to the n-th can be put together.
LEMMA PartialExists ==
  ASSUME NEW seqs, NEW n \in Nat
  PROVE  \E g : Partial(seqs, g, n)
  <1> DEFINE bad == {m \in Nat : ~ \E g : Partial(seqs, g, m)}
  <1> SUFFICES ASSUME bad # {} PROVE FALSE
    OBVIOUS
  <1>1. PICK m \in bad : \A k \in bad : m <= k
    <2>1. bad \subseteq Nat
      OBVIOUS
    <2> HIDE DEF bad
    <2>2. QED
      BY <2>1, LeastExists
  <1>2. m # 0
    <2> SUFFICES ASSUME m = 0 PROVE FALSE
      OBVIOUS
    <2> DEFINE g == [i \in 1 .. 0 |-> 0]
    <2>1. Partial(seqs, g, 0)
      BY DEF Partial
    <2>2. QED
      BY <2>1
  <1>3. m - 1 \in Nat /\ m - 1 \notin bad
    BY <1>1, <1>2
  <1>4. PICK g : Partial(seqs, g, m - 1)
    BY <1>3
  <1> DEFINE h == [i \in 1 .. m |-> IF i < m THEN g[i]
                                   ELSE IF i = 1 THEN seqs[i] ELSE g[i - 1] \o seqs[i]]
  <1>5. ASSUME NEW i \in 1 .. m
        PROVE  h[i] = IF i = 1 THEN seqs[i] ELSE h[i - 1] \o seqs[i]
    <2>1. CASE i < m
      <3>1. i \in 1 .. m - 1 /\ m \in Nat
        BY <2>1
      <3>2. g[i] = IF i = 1 THEN seqs[i] ELSE g[i - 1] \o seqs[i]
        BY <1>4, <3>1 DEF Partial
      <3>3. h[i] = g[i] /\ (i # 1 => h[i - 1] = g[i - 1])
        BY <2>1, <3>1
      <3>4. QED
        BY <3>2, <3>3
    <2>2. CASE i = m
      <3>1. i # 1 => h[i - 1] = g[i - 1]
        BY <2>2
      <3>2. h[i] = IF i = 1 THEN seqs[i] ELSE g[i - 1] \o seqs[i]
        BY <2>2
      <3>3. QED
        BY <3>1, <3>2
    <2>3. QED
      BY <2>1, <2>2
  <1>6. h = [i \in 1 .. m |-> h[i]]
    OBVIOUS
  <1> HIDE DEF h
  <1>7. Partial(seqs, h, m)
    BY <1>5, <1>6 DEF Partial
  <1>8. QED
    BY <1>7

\* Put together, texts are a text.
LEMMA FlattenType ==
  ASSUME NEW T, NEW seqs \in Seq(Seq(T))
  PROVE  FlattenSeq(seqs) \in Seq(T)
  <1> DEFINE n == Len(seqs)
             f == CHOOSE g : Partial(seqs, g, n)
  <1>1. n \in Nat
    OBVIOUS
  <1>2. Partial(seqs, f, n)
    BY <1>1, PartialExists
  <1>3. CASE n = 0
    <2>1. seqs = <<>> /\ \A S : <<>> \in Seq(S)
      BY <1>3
    <2>2. QED
      BY <1>3, <2>1 DEF FlattenSeq
  <1>4. CASE n # 0
    <2>1. FlattenSeq(seqs) = f[n]
      BY <1>4 DEF FlattenSeq, Partial
    <2> HIDE DEF f
    <2> DEFINE bad == {i \in 1 .. n : f[i] \notin Seq(T)}
    <2>2. bad = {}
      <3> SUFFICES ASSUME bad # {} PROVE FALSE
        OBVIOUS
      <3>1. PICK i \in bad : \A j \in bad : i <= j
        <4>1. bad \subseteq Nat
          OBVIOUS
        <4> HIDE DEF bad
        <4>2. QED
          BY <4>1, LeastExists
      <3>2. f[i] = IF i = 1 THEN seqs[i] ELSE f[i - 1] \o seqs[i]
        BY <1>2 DEF Partial
      <3>3. seqs[i] \in Seq(T)
        OBVIOUS
      <3>4. i # 1 => f[i - 1] \in Seq(T)
        <4>1. i # 1 => i - 1 \in 1 .. n /\ i - 1 \notin bad
          BY <1>1, <3>1
        <4>2. QED
          BY <4>1
      <3>5. f[i] \in Seq(T)
        <4>1. CASE i = 1
          BY <3>2, <3>3, <4>1
        <4>2. CASE i # 1
          <5>1. f[i - 1] \o seqs[i] \in Seq(T)
            BY <3>3, <3>4, <4>2, ConcatProperties
          <5>2. QED
            BY <3>2, <4>2, <5>1
        <4>3. QED
          BY <4>1, <4>2
      <3>6. QED
        BY <3>5
    <2>3. QED
      BY <1>1, <1>4, <2>1, <2>2
  <1>5. QED
    BY <1>3, <1>4

\* A list of tuples is sent as a text.
LEMMA TuplesText ==
  ASSUME NEW tuples, tuples \subseteq Entry, IsFiniteSet(tuples)
  PROVE  VectorTupleSerialize(tuples) \in Texts
  <1> DEFINE n == Cardinality(tuples)
             ordered == SetToSeq(tuples)
             lines == [i \in 1 .. Len(ordered) |->
                         ordered[i].key \o <<TupleSeparator>> \o ordered[i].value \o <<LineEnd>>]
  <1>1. n \in Nat
    BY FS_CardinalityType
  <1>2. \E f \in [1 .. n -> tuples] : IsInjective(f)
    <2>1. IsFiniteSet(1 .. n) /\ Cardinality(1 .. n) = n
      BY <1>1, FS_Interval
    <2>2. ExistsBijection(1 .. n, tuples)
      BY <1>1, <2>1, FS_SameCardinalityBij
    <2>3. PICK f : f \in Bijection(1 .. n, tuples)
      BY <2>2 DEF ExistsBijection
    <2>4. f \in [1 .. n -> tuples] /\ \A i, j \in 1 .. n : f[i] = f[j] => i = j
      BY <2>3 DEF Bijection, Injection, IsInjective
    <2>5. QED
      BY <2>4 DEF IsInjective
  <1>3. ordered \in [1 .. n -> tuples]
    BY <1>2 DEF SetToSeq
  <1> HIDE DEF ordered
  <1>4. Len(ordered) = n /\ \A i \in 1 .. n : ordered[i] \in Entry
    BY <1>1, <1>3
  <1>5. TupleSeparator \in Token /\ LineEnd \in Token
    BY TokenAssumption
  <1>6. lines \in Seq(Seq(Token))
    <2>1. \A i \in 1 .. n : lines[i] \in Seq(Token)
      <3> TAKE i \in 1 .. n
      <3>1. ordered[i].key \in Seq(Token) /\ ordered[i].value \in Seq(Token)
        BY <1>4 DEF Entry, Texts
      <3>2. QED
        BY <1>4, <1>5, <3>1
    <2>2. DOMAIN lines = 1 .. n
      BY <1>4
    <2>3. lines = [i \in 1 .. n |-> lines[i]]
      BY <1>4
    <2> HIDE DEF lines
    <2>4. QED
      BY <1>1, <2>1, <2>2, <2>3
  <1>7. VectorTupleSerialize(tuples) = FlattenSeq(lines)
    BY DEF VectorTupleSerialize, ordered
  <1> HIDE DEF lines
  <1>8. QED
    BY <1>6, <1>7, FlattenType DEF Texts

-----------------------------------------------------------------------------
(***************************************************************************)
(* The inductive invariant.                                                *)
(***************************************************************************)
Bit(b) == IF b THEN 1 ELSE 0

\* The server has received a message of the rank and not executed it yet.
Held(r) == (server = "recv" /\ r < next) \/ (server = "exec" /\ next <= r)
Closing(r) == pc[r] \in {"eol", "b99", "closed"}

ClientPipe(r) ==
  Pipe(asked[r], executed[r], toServer[r], toClient[r], Bit(Held(r)), buf[r], Bit(r \in eol),
       Bit(Closing(r)), Bit(pc[r] = "reply"), call[r].command)

OwnCalls == asked[0] \in Seq(Calls) /\ executed[0] = asked[0]

\* A rank that has returned from a request has been answered.
LatestCall(r) ==
  /\ pc[r] \in {"init", "b01", "sending"} => call[r].command \notin Requests
  /\ pc[r] \in {"idle", "reply"} /\ call[r].command \in Requests =>
       /\ Len(asked[r]) > 0
       /\ asked[r][Len(asked[r])].command = call[r].command
       /\ asked[r][Len(asked[r])].key = call[r].key
       /\ pc[r] = "idle" => Len(executed[r]) = Len(asked[r])

\* A value the rank may get after n calls: its last one or, with memtables, one since
\* its last barrier.
OldestOf(a, n) == IF Storage = "RocksDB" THEN n ELSE Max(BarriersOf(a, n))
Seen(r, v) ==
  LET n == Len(asked[r]) - 1
  IN  \E i \in OldestOf(asked[r], n) .. n :
        v = NewestOf(asked[r], call[r].command = META_GET, call[r].key, i)

Answered(r) ==
  toClient[r] # <<>> /\ call[r].command \in {GET, META_GET} =>
    \E v \in Texts : /\ toClient[r][1] = SerializeCmd(Back(call[r].command),
                                                      asked[r][Len(asked[r])].key, v)
                     /\ Seen(r, v)

SeenOwn(r) == Returned(r, {GET, META_GET}) => Seen(r, call[r].result)

Ending ==
  /\ server = "done" => eol = Clients
  /\ pc[0] \in {"b99", "close", "closed"} => ~ServeLocal \/ server = "done"
  /\ pc[0] = "closed" => flight = <<>> /\ queue = <<>> /\ active = <<>>

RankInv(r) == LatestCall(r) /\ SeenOwn(r)
ClientInv(r) == ClientPipe(r) /\ Answered(r)

IInv ==
  /\ PlainKeys /\ OpenInv /\ TypeOK /\ DOMAIN call = Ranks
  /\ \A r \in Clients : ClientInv(r)
  /\ \A r \in Ranks : RankInv(r)
  /\ OwnCalls
  /\ StoreSound /\ StoreReflects
  /\ Ending

PCs == {"init", "b01", "idle", "sending", "reply", "eol", "join", "b99", "close", "closed"}

\* The type invariant, variable by variable.
LEMMA TypeParts ==
  ASSUME TypeOK
  PROVE  /\ pc \in [Ranks -> PCs]
         /\ asked \in [Ranks -> Seq(Message)] /\ executed \in [Ranks -> Seq(Message)]
         /\ toServer \in [Clients -> Seq(Texts)] /\ toClient \in [Clients -> Seq(Texts)]
         /\ server \in {"off", "check", "recv", "exec", "done"}
         /\ next \in Nat /\ (ServeLocal => next \in Clients)
         /\ buf \in [Clients -> Message] /\ eol \subseteq Clients /\ draining \subseteq Ranks
  BY DEF TypeOK, PCs

\* The ranks are rank 0 and the clients.
LEMMA ClientsAreRanks ==
  /\ Clients \subseteq Ranks /\ 0 \in Ranks /\ 0 \notin Clients
  /\ \A r \in Ranks : r = 0 \/ r \in Clients
  /\ Ranks \subseteq Nat
  /\ \A r \in Clients : r \in 1 .. Size - 1 /\ ServeLocal
  BY SizeAssumption DEF Ranks, Clients, ServeLocal

(***************************************************************************)
(* What a step leaves alone.                                               *)
(***************************************************************************)
LEMMA RankFrame ==
  ASSUME NEW s, RankInv(s), pc'[s] = pc[s], call'[s] = call[s], asked'[s] = asked[s],
         executed'[s] = executed[s]
  PROVE  RankInv(s)'
  BY DEF RankInv, LatestCall, SeenOwn, Returned, Seen

\* A step that leaves a client's channels, calls and place alone keeps what holds of it.
LEMMA ClientFrame ==
  ASSUME NEW s, ClientInv(s), call'[s] = call[s], asked'[s] = asked[s],
         executed'[s] = executed[s], toServer'[s] = toServer[s], toClient'[s] = toClient[s],
         buf'[s] = buf[s], s \in eol' <=> s \in eol, Held(s)' <=> Held(s),
         Closing(s)' <=> Closing(s), pc'[s] = "reply" <=> pc[s] = "reply"
  PROVE  ClientInv(s)'
  <1>1. /\ Bit(Held(s))' = Bit(Held(s)) /\ Bit(s \in eol)' = Bit(s \in eol)
        /\ Bit(Closing(s))' = Bit(Closing(s)) /\ Bit(pc[s] = "reply")' = Bit(pc[s] = "reply")
    BY DEF Bit
  <1>2. ClientPipe(s)'
    BY <1>1 DEF ClientInv, ClientPipe
  <1>3. Answered(s)'
    BY DEF ClientInv, Answered, Seen
  <1>4. QED
    BY <1>2, <1>3 DEF ClientInv

\* The store has executed nothing, no call it has seen is changed, and a lookup can
\* come upon nothing new.
LEMMA KnownFrame ==
  ASSUME TypeOK, StoreReflects, Contents' = Contents, \A p : Known(p)' \subseteq Known(p),
         UNCHANGED executed,
         \A r \in Ranks : \A i \in 1 .. Len(executed[r]) : asked'[r][i] = asked[r][i]
  PROVE  StoreReflects'
  <1> SUFFICES ASSUME NEW r \in Ranks, NEW meta \in BOOLEAN, NEW k \in Keys, NEW p,
                      p = Place(r, meta, k)
               PROVE  Reflects(Contents, Known(p)', asked'[r], Len(executed[r]), p, meta, k)
    BY DEF StoreReflects, Place, StoreKey, RankedKey, ServeLocal
  <1> DEFINE n == Len(executed[r])
  <1>1. n \in Nat
    BY TypeParts
  <1>2. Reflects(Contents, Known(p), asked[r], n, p, meta, k)
    BY DEF StoreReflects
  <1>3. Known(p)' \subseteq Known(p)
    OBVIOUS
  <1>4. Reflects(Contents, Known(p)', asked[r], n, p, meta, k)
    BY <1>2, <1>3 DEF Reflects
  <1>5. \A i \in 1 .. n : asked[r][i] = asked'[r][i]
    OBVIOUS
  <1> HIDE DEF n
  <1>6. Reflects(Contents, Known(p)', asked'[r], n, p, meta, k)
    BY <1>1, <1>4, <1>5, ReflectsMore
  <1>7. QED
    BY <1>6 DEF n

\* A step that leaves the store alone.
LEMMA StoreFrame ==
  ASSUME TypeOK, StoreSound, StoreReflects, UNCHANGED <<db, flight, queue, active, draining, executed>>,
         \A r \in Ranks : \A i \in 1 .. Len(executed[r]) : asked'[r][i] = asked[r][i]
  PROVE  StoreSound' /\ StoreReflects'
  <1>1. StoreSound' /\ Contents' = Contents
    BY PlacesStay DEF StoreSound, Contents, Pending
  <1>2. \A p : Known(p)' = Known(p)
    BY DEF Known, Pending
  <1>3. StoreReflects'
    BY <1>1, <1>2, KnownFrame
  <1>4. QED
    BY <1>1, <1>3

\* The store rests: the flush thread, or the beginning of a write barrier.
LEMMA StoreRestsIInv ==
  ASSUME IInv, OpenInv', TypeOK', Ending', StoreSound', StoreRests,
         UNCHANGED <<pc, call, asked, executed, toServer, toClient, server, next, buf, eol>>
  PROVE  IInv'
  <1>1. ASSUME NEW s \in Clients PROVE ClientInv(s)'
    BY ClientFrame DEF IInv, Held, Closing
  <1>2. ASSUME NEW s \in Ranks PROVE RankInv(s)'
    BY RankFrame DEF IInv
  <1>3. StoreReflects'
    BY KnownFrame DEF IInv, StoreRests
  <1>4. QED
    BY <1>1, <1>2, <1>3 DEF IInv, OwnCalls

\* A step that only takes a rank from one place in the code to another.
LEMMA QuietStep ==
  ASSUME IInv, NEW r \in Ranks, NEW x \in PCs, pc' = [pc EXCEPT ![r] = x],
         UNCHANGED <<call, asked, executed, toServer, toClient, buf, eol, next>>,
         UNCHANGED <<db, flight, queue, active, draining>>,
         server' = server \/ (server = "off" /\ server' = "check"),
         x \notin {"reply", "sending"}, pc[r] # "reply",
         x \in {"init", "b01", "idle"} => pc[r] \in {"init", "b01", "sending"},
         r # 0 => (x \in {"eol", "b99", "closed"} <=> Closing(r)),
         OpenInv', TypeOK', Ending'
  PROVE  IInv'
  <1>1. pc \in [Ranks -> PCs] /\ Clients \subseteq Ranks /\ 0 \notin Clients
    BY TypeParts, ClientsAreRanks DEF IInv
  <1>2. pc'[r] = x /\ \A s \in Ranks \ {r} : pc'[s] = pc[s]
    BY <1>1
  <1>3. \A s : Held(s)' <=> Held(s)
    BY DEF Held
  <1>4. ASSUME NEW s \in Clients PROVE ClientInv(s)'
    <2>1. (Closing(s)' <=> Closing(s)) /\ (pc'[s] = "reply" <=> pc[s] = "reply")
      BY <1>1, <1>2 DEF Closing
    <2>2. ClientInv(s)
      BY DEF IInv
    <2>3. QED
      BY <1>3, <2>1, <2>2, ClientFrame
  <1>5. ASSUME NEW s \in Ranks PROVE RankInv(s)'
    <2>1. RankInv(s)
      BY DEF IInv
    <2>2. CASE s # r
      BY <1>2, <2>1, <2>2, RankFrame
    <2>3. CASE s = r
      <3>1. x \in {"init", "b01", "idle"} => call[r].command \notin Requests
        BY <2>1, <2>3 DEF RankInv, LatestCall
      <3>2. {GET, META_GET} \subseteq Requests
        BY DEF Requests
      <3>3. LatestCall(r)'
        BY <1>2, <3>1 DEF LatestCall
      <3>4. SeenOwn(r)'
        BY <1>2, <3>1, <3>2 DEF SeenOwn, Returned
      <3>5. QED
        BY <2>3, <3>3, <3>4 DEF RankInv
    <2>4. QED
      BY <2>2, <2>3
  <1>6. OwnCalls'
    BY DEF OwnCalls, IInv
  <1>7. StoreSound' /\ StoreReflects'
    BY StoreFrame DEF IInv
  <1>8. DOMAIN call' = Ranks /\ PlainKeys
    BY DEF IInv
  <1>9. QED
    BY <1>4, <1>5, <1>6, <1>7, <1>8 DEF IInv

\* PassStart keeps the invariant.
LEMMA PassStartIInv ==
  ASSUME IInv, OpenInv', NEW r \in Ranks, PassStart(r)
  PROVE  IInv'
  <1> USE DEF PassStart, serverVars, storeVars, memtables, channels, barriers
  <1>1. TypeOK'
    BY DEF IInv, TypeOK
  <1>2. Ending'
    BY ClientsAreRanks, TypeParts DEF IInv, Ending, PCs
  <1>3. "idle" \in PCs
    BY DEF PCs
  <1>4. QED
    BY <1>1, <1>2, <1>3, QuietStep DEF Closing

\* OpenRemote keeps the invariant.
LEMMA OpenRemoteIInv ==
  ASSUME IInv, OpenInv', NEW r \in Clients, OpenRemote(r)
  PROVE  IInv'
  <1> USE DEF OpenRemote, serverVars, storeVars, memtables, channels, barriers
  <1>1. r \in Ranks /\ r # 0
    BY ClientsAreRanks
  <1>2. TypeOK'
    BY <1>1 DEF IInv, TypeOK
  <1>3. Ending'
    BY <1>1, ClientsAreRanks, TypeParts DEF IInv, Ending, PCs
  <1>4. "b01" \in PCs
    BY DEF PCs
  <1>5. QED
    BY <1>1, <1>2, <1>3, <1>4, QuietStep DEF Closing

\* SendReturns keeps the invariant.
LEMMA SendReturnsIInv ==
  ASSUME IInv, OpenInv', NEW r \in Clients, SendReturns(r)
  PROVE  IInv'
  <1> USE DEF SendReturns, serverVars, storeVars, memtables, channels, barriers
  <1>1. r \in Ranks /\ r # 0
    BY ClientsAreRanks
  <1>2. TypeOK'
    BY <1>1 DEF IInv, TypeOK
  <1>3. Ending'
    BY <1>1, ClientsAreRanks, TypeParts DEF IInv, Ending, PCs
  <1>4. "idle" \in PCs
    BY DEF PCs
  <1>5. QED
    BY <1>1, <1>2, <1>3, <1>4, QuietStep DEF Closing

\* EolSent keeps the invariant.
LEMMA EolSentIInv ==
  ASSUME IInv, OpenInv', NEW r \in Clients, EolSent(r)
  PROVE  IInv'
  <1> USE DEF EolSent, serverVars, storeVars, memtables, channels, barriers
  <1>1. r \in Ranks /\ r # 0
    BY ClientsAreRanks
  <1>2. TypeOK'
    BY <1>1 DEF IInv, TypeOK
  <1>3. Ending'
    BY <1>1, ClientsAreRanks, TypeParts DEF IInv, Ending, PCs
  <1>4. "b99" \in PCs
    BY DEF PCs
  <1>5. QED
    BY <1>1, <1>2, <1>3, <1>4, QuietStep DEF Closing

\* PassEnd keeps the invariant.
LEMMA PassEndIInv ==
  ASSUME IInv, OpenInv', NEW r \in Clients, PassEnd(r)
  PROVE  IInv'
  <1> USE DEF PassEnd, serverVars, storeVars, memtables, channels, barriers
  <1>1. r \in Ranks /\ r # 0
    BY ClientsAreRanks
  <1>2. TypeOK'
    BY <1>1 DEF IInv, TypeOK
  <1>3. Ending'
    BY <1>1, ClientsAreRanks, TypeParts DEF IInv, Ending, PCs
  <1>4. "closed" \in PCs
    BY DEF PCs
  <1>5. QED
    BY <1>1, <1>2, <1>3, <1>4, QuietStep DEF Closing

\* OpenLocal keeps the invariant.
LEMMA OpenLocalIInv ==
  ASSUME IInv, OpenInv', OpenLocal
  PROVE  IInv'
  <1> USE DEF OpenLocal, channels, memtables
  <1>1. 0 \in Ranks /\ pc[0] = "init" /\ server = "off"
    BY ClientsAreRanks DEF IInv, OpenInv
  <1>2. TypeOK'
    BY <1>1 DEF IInv, TypeOK
  <1>3. PICK x \in {"b01", "idle"} : pc' = [pc EXCEPT ![0] = x]
    OBVIOUS
  <1>4. Ending'
    BY <1>1, <1>3, TypeParts DEF IInv, Ending, PCs
  <1>5. x \in PCs
    BY DEF PCs
  <1>6. server' = server \/ (server = "off" /\ server' = "check")
    BY <1>1
  <1>7. QED
    BY <1>1, <1>2, <1>3, <1>4, <1>5, <1>6, QuietStep

\* CloseLocal keeps the invariant.
LEMMA CloseLocalIInv ==
  ASSUME IInv, OpenInv', CloseLocal
  PROVE  IInv'
  <1> USE DEF CloseLocal, serverVars, storeVars, memtables, channels, barriers
  <1>1. 0 \in Ranks /\ pc[0] = "idle"
    BY ClientsAreRanks DEF MayClose
  <1>2. TypeOK'
    BY <1>1 DEF IInv, TypeOK
  <1>3. PICK x \in {"join", "close"} : pc' = [pc EXCEPT ![0] = x] /\ (x = "close" => ~ServeLocal)
    OBVIOUS
  <1>4. Ending'
    BY <1>1, <1>3, TypeParts DEF IInv, Ending, PCs, ServeLocal
  <1>5. x \in PCs
    BY DEF PCs
  <1>6. QED
    BY <1>1, <1>2, <1>3, <1>4, <1>5, QuietStep

\* JoinServer keeps the invariant.
LEMMA JoinServerIInv ==
  ASSUME IInv, OpenInv', JoinServer
  PROVE  IInv'
  <1> USE DEF JoinServer, serverVars, storeVars, memtables, channels, barriers
  <1>1. 0 \in Ranks
    BY ClientsAreRanks
  <1>2. TypeOK'
    BY <1>1 DEF IInv, TypeOK
  <1>3. Ending'
    BY <1>1, TypeParts DEF IInv, Ending, PCs
  <1>4. "b99" \in PCs
    BY DEF PCs
  <1>5. QED
    BY <1>1, <1>2, <1>3, <1>4, QuietStep

\* LeaveEnd keeps the invariant.
LEMMA LeaveEndIInv ==
  ASSUME IInv, OpenInv', LeaveEnd
  PROVE  IInv'
  <1> USE DEF LeaveEnd, serverVars, storeVars, memtables, channels, barriers
  <1>1. 0 \in Ranks
    BY ClientsAreRanks
  <1>2. TypeOK'
    BY <1>1 DEF IInv, TypeOK
  <1>3. Ending'
    BY <1>1, TypeParts DEF IInv, Ending, PCs, ServeLocal
  <1>4. "close" \in PCs
    BY DEF PCs
  <1>5. QED
    BY <1>1, <1>2, <1>3, <1>4, QuietStep

\* ServerCheck keeps the invariant.
LEMMA ServerCheckIInv ==
  ASSUME IInv, OpenInv', ServerCheck
  PROVE  IInv'
  <1> USE DEF ServerCheck, storeVars, memtables, channels, barriers
  <1>1. ServeLocal
    BY DEF IInv, OpenInv
  <1>2. TypeOK'
    <2>1. 1 \in Clients
      BY <1>1, SizeAssumption DEF ServeLocal, Clients
    <2>2. QED
      BY <2>1 DEF IInv, TypeOK, ServeLocal
  <1>3. ASSUME NEW s \in Clients PROVE ClientInv(s)'
    <2>1. ~Held(s) /\ ~Held(s)'
      BY ClientsAreRanks DEF Held
    <2>2. QED
      BY <2>1, ClientFrame DEF IInv, Closing
  <1>4. ASSUME NEW s \in Ranks PROVE RankInv(s)'
    BY RankFrame DEF IInv
  <1>5. StoreSound' /\ StoreReflects'
    BY StoreFrame DEF IInv
  <1>6. Ending'
    BY <1>1 DEF IInv, Ending, ServeLocal
  <1>7. QED
    BY <1>2, <1>3, <1>4, <1>5, <1>6 DEF IInv, OwnCalls

\* CloseStore keeps the invariant.
LEMMA CloseStoreIInv ==
  ASSUME IInv, OpenInv', CloseStore
  PROVE  IInv'
  <1> USE DEF CloseStore, serverVars, channels, barriers
  <1>1. 0 \in Ranks /\ 0 \notin Clients /\ Clients \subseteq Ranks /\ pc \in [Ranks -> PCs]
    BY ClientsAreRanks, TypeParts DEF IInv
  <1>2. /\ StoreSound' /\ Contents' = Contents /\ db' = Contents
        /\ \A p : Known(p)' \subseteq {Lookup(Contents, p)}
    BY CloseDoes DEF IInv
  <1>3. TypeOK'
    BY <1>1, <1>2 DEF IInv, TypeOK, StoreSound
  <1>4. ASSUME NEW s \in Clients PROVE ClientInv(s)'
    <2>1. pc'[s] = pc[s]
      BY <1>1
    <2>2. QED
      BY <2>1, ClientFrame DEF IInv, Closing, Held
  <1>5. ASSUME NEW s \in Ranks PROVE RankInv(s)'
    <2>1. CASE s # 0
      BY <1>1, <2>1, RankFrame DEF IInv
    <2>2. CASE s = 0
      <3>1. pc'[0] = "closed"
        BY <1>1
      <3>2. QED
        BY <2>2, <3>1 DEF RankInv, LatestCall, SeenOwn, Returned
    <2>3. QED
      BY <2>1, <2>2
  <1>6. StoreReflects'
    <2> SUFFICES ASSUME NEW r \in Ranks, NEW meta \in BOOLEAN, NEW k \in Keys, NEW p,
                        p = Place(r, meta, k)
                 PROVE  Reflects(Contents, Known(p)', asked[r], Len(executed[r]), p, meta, k)
      BY <1>2 DEF StoreReflects, Place, StoreKey, RankedKey, ServeLocal
    <2> DEFINE n == Len(executed[r])
    <2>1. n \in Nat
      BY TypeParts DEF IInv
    <2>2. Lookup(Contents, p) = NewestOf(asked[r], meta, k, n)
      BY DEF IInv, StoreReflects, Reflects
    <2>3. Known(p)' \subseteq {Lookup(Contents, p)}
      BY <1>2
    <2> HIDE DEF n
    <2>4. Reflects(Contents, Known(p)', asked[r], n, p, meta, k)
      BY <2>1, <2>2, <2>3, ReflectsLast
    <2>5. QED
      BY <2>4 DEF n
  <1>7. Ending'
    BY <1>1 DEF IInv, Ending, ServeLocal
  <1>8. QED
    BY <1>2, <1>3, <1>4, <1>5, <1>6, <1>7 DEF IInv, OwnCalls

-----------------------------------------------------------------------------
(***************************************************************************)
(* The calls of the clients.                                               *)
(***************************************************************************)
\* The store executes a call: that of its caller is the next one, and nothing
\* changes for the others.
LEMMA ExecutedReflects ==
  ASSUME PlainKeys, TypeOK, StoreSound, StoreReflects, NEW q \in Ranks, NEW m \in Calls,
         StoreDoes(q, m), Len(executed'[q]) = Len(executed[q]) + 1,
         asked'[q][Len(executed[q]) + 1] = m,
         \A i \in 1 .. Len(executed[q]) : asked'[q][i] = asked[q][i],
         \A s \in Ranks \ {q} : executed'[s] = executed[s] /\ asked'[s] = asked[s]
  PROVE  StoreReflects'
  <1> SUFFICES ASSUME NEW r \in Ranks, NEW meta \in BOOLEAN, NEW k \in Keys, NEW p,
                      p = Place(r, meta, k)
               PROVE  Reflects(Contents', Known(p)', asked'[r], Len(executed'[r]), p, meta, k)
    BY DEF StoreReflects, Place, StoreKey, RankedKey, ServeLocal
  <1> DEFINE n == Len(executed[r])
             c == Contents
             c1 == Contents'
             V == Known(p)
             W == Known(p)'
  <1>1. n \in Nat /\ UniqueKeys(c)
    BY TypeParts, ContentsUnique
  <1>2. Reflects(c, V, asked[r], n, p, meta, k)
    BY DEF StoreReflects
  <1>3. /\ c1 = After(c, q, m) /\ W \subseteq V \cup {Lookup(c1, p)}
        /\ r = q /\ m.command = WRITE_BARRIER => W \subseteq {Lookup(c1, p)}
    BY DEF StoreDoes, PlacesOf
  <1>4. Lookup(c1, p) = IF r = q /\ m.key = k /\ m.command \in Mutating(meta)
                        THEN ValueOf(m) ELSE Lookup(c, p)
    <2> HIDE DEF c, c1
    <2>1. QED
      BY <1>1, <1>3, AfterShows
  <1> HIDE DEF c, c1, V, W
  <1>5. CASE r = q
    <2> DEFINE a == asked'[r]
    <2>1. \A i \in 1 .. n : asked[r][i] = a[i]
      BY <1>5
    <2>2. Reflects(c, V, a, n, p, meta, k)
      <3> HIDE DEF a, n
      <3>1. QED
        BY <1>1, <1>2, <2>1, ReflectsMore DEF n
    <2>3. a[n + 1] = m /\ Len(executed'[r]) = n + 1
      BY <1>5
    <2> HIDE DEF a, n
    <2>4. Lookup(c, p) = NewestOf(a, meta, k, n)
      BY <2>2 DEF Reflects
    <2>5. Lookup(c1, p) = NewestOf(a, meta, k, n + 1)
      BY <1>1, <1>4, <1>5, <2>3, <2>4, NewestNext
    <2>6. Reflects(c1, W, a, n + 1, p, meta, k)
      BY <1>1, <1>3, <1>5, <2>2, <2>3, <2>5, ReflectsNext
    <2>7. QED
      BY <2>3, <2>6 DEF a, c1, W
  <1>6. CASE r # q
    <2>1. asked'[r] = asked[r] /\ Len(executed'[r]) = n
      BY <1>6
    <2>2. Lookup(c1, p) = Lookup(c, p)
      BY <1>4, <1>6
    <2> HIDE DEF n
    <2>3. Reflects(c1, W, asked[r], n, p, meta, k)
      BY <1>1, <1>2, <1>3, <2>2, ReflectsOther
    <2>4. QED
      BY <2>1, <2>3 DEF c1, W
  <1>7. QED
    BY <1>5, <1>6

\* What a client's pipe says of its calls.
LEMMA PipeFacts ==
  ASSUME NEW r \in Clients, ClientInv(r)
  PROVE  /\ asked[r] \in Seq(Calls) /\ executed[r] \in Seq(Message)
         /\ Len(executed[r]) \in Nat /\ Len(asked[r]) \in Nat /\ Len(executed[r]) <= Len(asked[r])
         /\ \A i \in 1 .. Len(executed[r]) : executed[r][i] = asked[r][i]
         /\ pc[r] # "reply" => toClient[r] = <<>>
  BY DEF ClientInv, ClientPipe, Pipe, PipeTypes, PipeOrder, PipeReply, Bit

\* A call of a client, sent on its way, keeps the invariant.
LEMMA AskIInv ==
  ASSUME IInv, OpenInv', NEW r \in Clients, NEW m \in Calls, NEW x \in {"sending", "reply"},
         x = "reply" <=> m.command \in Requests,
         pc[r] = "idle", pc' = [pc EXCEPT ![r] = x],
         asked' = [asked EXCEPT ![r] = Append(@, m)],
         toServer' = [toServer EXCEPT ![r] = Append(@, Wired(m))],
         call' = [call EXCEPT ![r] = Began(m.command, m.key)],
         UNCHANGED <<executed, toClient, server, next, buf, eol, open, db, flight, queue, active,
                     draining, atStart, atEnd>>
  PROVE  IInv'
  <1>1. /\ pc \in [Ranks -> PCs] /\ asked \in [Ranks -> Seq(Message)]
        /\ executed \in [Ranks -> Seq(Message)] /\ toServer \in [Clients -> Seq(Texts)]
        /\ DOMAIN call = Ranks /\ r \in Ranks /\ r # 0 /\ Clients \subseteq Ranks /\ 0 \in Ranks
    BY TypeParts, ClientsAreRanks DEF IInv
  <1>2. /\ m \in Message /\ PlainKey(m.key) /\ m.command \in Writes \cup Requests
        /\ m.command \in Texts /\ m.key \in Texts /\ Wired(m) \in Texts
    <2>1. m \in Message /\ PlainKey(m.key) /\ m.command \in Writes \cup Requests
      BY DEF Calls
    <2>2. QED
      BY <2>1, WiredBack, MessageFields
  <1>3. /\ pc'[r] = x /\ asked'[r] = Append(asked[r], m)
        /\ toServer'[r] = Append(toServer[r], Wired(m)) /\ call'[r] = Began(m.command, m.key)
        /\ \A s \in Ranks \ {r} : pc'[s] = pc[s] /\ asked'[s] = asked[s] /\ call'[s] = call[s]
        /\ \A s \in Clients \ {r} : toServer'[s] = toServer[s]
        /\ DOMAIN call' = Ranks
    BY <1>1
  <1>4. /\ Began(m.command, m.key).command = m.command /\ Began(m.command, m.key).key = m.key
        /\ Began(m.command, m.key).result = <<>> /\ Began(m.command, m.key).ok = TRUE
    BY DEF Began, Called
  <1>5. /\ asked[r] \in Seq(Calls) /\ Len(asked[r]) \in Nat /\ toClient[r] = <<>>
        /\ asked'[r] \in Seq(Calls) /\ Len(asked'[r]) = Len(asked[r]) + 1
        /\ \A i \in 1 .. Len(asked[r]) : asked'[r][i] = asked[r][i]
        /\ asked'[r][Len(asked[r]) + 1] = m
    <2>1. asked[r] \in Seq(Calls) /\ Len(asked[r]) \in Nat /\ toClient[r] = <<>>
      BY PipeFacts DEF IInv
    <2>2. QED
      BY <1>3, <2>1, Appended
  <1>6. TypeOK'
    <2>1. << >> \in Texts
      BY CommandTexts
    <2>2. \A s \in Ranks : /\ call'[s].command \in Texts /\ call'[s].key \in Texts
                           /\ call'[s].result \in Texts /\ call'[s].ok \in BOOLEAN
      BY <1>2, <1>3, <1>4, <2>1 DEF IInv, TypeOK
    <2>3. pc' \in [Ranks -> PCs]
      BY <1>1 DEF PCs
    <2>4. asked' \in [Ranks -> Seq(Message)] /\ toServer' \in [Clients -> Seq(Texts)]
      BY <1>1, <1>2
    <2>5. QED
      BY <2>2, <2>3, <2>4 DEF IInv, TypeOK, PCs, ServeLocal
  <1>7. ASSUME NEW s \in Clients PROVE ClientInv(s)'
    <2>1. ClientInv(s)
      BY DEF IInv
    <2>2. CASE s # r
      BY <1>1, <1>3, <2>1, <2>2, ClientFrame DEF Held, Closing
    <2>3. CASE s = r
      <3> DEFINE w == Bit(x = "reply")
      <3>1. Pipe(asked[r], executed[r], toServer[r], toClient[r], Bit(Held(r)), buf[r],
                 Bit(r \in eol), 0, 0, call[r].command)
        BY <2>1, <2>3 DEF ClientInv, ClientPipe, Closing, Bit
      <3>2. w \in {0, 1} /\ (w = 1 <=> m.command \in Requests)
        BY DEF Bit
      <3> HIDE DEF w
      <3>3. Pipe(Append(asked[r], m), executed[r], Append(toServer[r], Wired(m)), toClient[r],
                 Bit(Held(r)), buf[r], Bit(r \in eol), 0, w, m.command)
        BY <3>1, <3>2, PipeAsk
      <3>4. /\ Bit(Held(r))' = Bit(Held(r)) /\ Bit(r \in eol)' = Bit(r \in eol)
            /\ Bit(Closing(r))' = 0 /\ Bit(pc[r] = "reply")' = w
        BY <1>3 DEF Held, Closing, Bit, w
      <3>5. ClientPipe(r)'
        BY <1>3, <1>4, <3>3, <3>4 DEF ClientPipe
      <3>6. Answered(r)'
        BY <1>5 DEF Answered
      <3>7. QED
        BY <2>3, <3>5, <3>6 DEF ClientInv
    <2>4. QED
      BY <2>2, <2>3
  <1>8. ASSUME NEW s \in Ranks PROVE RankInv(s)'
    <2>1. CASE s # r
      BY <1>3, <2>1, RankFrame DEF IInv
    <2>2. CASE s = r
      <3>1. LatestCall(r)'
        BY <1>3, <1>4, <1>5 DEF LatestCall
      <3>2. SeenOwn(r)'
        BY <1>3 DEF SeenOwn, Returned
      <3>3. QED
        BY <2>2, <3>1, <3>2 DEF RankInv
    <2>3. QED
      BY <2>1, <2>2
  <1>9. StoreSound' /\ StoreReflects'
    <2>1. ASSUME NEW s \in Ranks, NEW i \in 1 .. Len(executed[s])
          PROVE  asked'[s][i] = asked[s][i]
      <3>1. CASE s # r
        BY <1>3, <3>1
      <3>2. CASE s = r
        <4>1. Len(executed[r]) \in Nat /\ Len(executed[r]) <= Len(asked[r])
          BY PipeFacts DEF IInv
        <4>2. QED
          BY <1>5, <3>2, <4>1
      <3>3. QED
        BY <3>1, <3>2
    <2>2. QED
      BY <2>1, StoreFrame DEF IInv
  <1>10. OwnCalls' /\ Ending'
    BY <1>1, <1>3 DEF IInv, OwnCalls, Ending, ServeLocal
  <1>11. QED
    BY <1>3, <1>6, <1>7, <1>8, <1>9, <1>10 DEF IInv

\* A call is sent as its text.
LEMMA CallTexts ==
  ASSUME PlainKeys, NEW c \in Writes \cup Requests, NEW k, NEW v,
         k \in Keys \/ (k = KV_DUMMY /\ c \in {META_GET_ALL, READ_BARRIER, WRITE_BARRIER}),
         v \in Values \cup {KV_DUMMY}
  PROVE  /\ [command |-> c, key |-> k, value |-> v] \in Calls
         /\ Wired([command |-> c, key |-> k, value |-> v]) = SerializeCmd(c, k, v)
  <1>1. c \in Texts /\ k \in Texts /\ v \in Texts /\ PlainKey(k)
    BY CommandTexts, TextAssumption DEF PlainKeys
  <1>2. [command |-> c, key |-> k, value |-> v] \in Message
    BY <1>1 DEF Message
  <1>3. c \in Writes \cup {GET, META_GET} => k \in Keys
    BY DEF Writes, GET, PUT, DEL, META_GET, META_GET_ALL, META_PUT, READ_BARRIER, WRITE_BARRIER
  <1>4. QED
    BY <1>1, <1>2, <1>3 DEF Calls, Wired

\* RemoteWrite keeps the invariant.
LEMMA RemoteWriteIInv ==
  ASSUME IInv, OpenInv', NEW r \in Clients, NEW c \in Writes, NEW k \in Keys,
         NEW v \in Values \cup {KV_DUMMY}, RemoteWrite(r, c, k, v)
  PROVE  IInv'
  <1> DEFINE m == [command |-> c, key |-> k, value |-> v]
  <1>1. m \in Calls /\ Wired(m) = SerializeCmd(c, k, v) /\ m.command = c /\ m.key = k
    BY CallTexts DEF IInv
  <1>2. "sending" \in {"sending", "reply"} /\ ("sending" = "reply" <=> m.command \in Requests)
    BY <1>1, CommandsApart
  <1>3. /\ pc[r] = "idle" /\ pc' = [pc EXCEPT ![r] = "sending"]
        /\ asked' = [asked EXCEPT ![r] = Append(@, m)]
        /\ toServer' = [toServer EXCEPT ![r] = Append(@, Wired(m))]
        /\ call' = [call EXCEPT ![r] = Began(m.command, m.key)]
        /\ UNCHANGED <<executed, toClient, server, next, buf, eol, open, db, flight, queue, active,
                     draining, atStart, atEnd>>
    BY <1>1 DEF RemoteWrite, MayCall, Asks, Sent, serverVars, storeVars, memtables, barriers
  <1> HIDE DEF m
  <1>4. QED
    BY <1>1, <1>2, <1>3, AskIInv

\* RemoteRequest keeps the invariant.
LEMMA RemoteRequestIInv ==
  ASSUME IInv, OpenInv', NEW r \in Clients, NEW c \in Requests, NEW k,
         k \in Keys \/ (k = KV_DUMMY /\ c \in {META_GET_ALL, READ_BARRIER, WRITE_BARRIER}),
         RemoteRequest(r, c, k)
  PROVE  IInv'
  <1> DEFINE m == [command |-> c, key |-> k, value |-> KV_DUMMY]
  <1>1. m \in Calls /\ Wired(m) = SerializeCmd(c, k, KV_DUMMY) /\ m.command = c /\ m.key = k
    BY CallTexts DEF IInv
  <1>2. "reply" \in {"sending", "reply"} /\ ("reply" = "reply" <=> m.command \in Requests)
    BY <1>1
  <1>3. /\ pc[r] = "idle" /\ pc' = [pc EXCEPT ![r] = "reply"]
        /\ asked' = [asked EXCEPT ![r] = Append(@, m)]
        /\ toServer' = [toServer EXCEPT ![r] = Append(@, Wired(m))]
        /\ call' = [call EXCEPT ![r] = Began(m.command, m.key)]
        /\ UNCHANGED <<executed, toClient, server, next, buf, eol, open, db, flight, queue, active,
                     draining, atStart, atEnd>>
    BY <1>1 DEF RemoteRequest, MayCall, Asks, Sent, serverVars, storeVars, memtables, barriers
  <1> HIDE DEF m
  <1>4. QED
    BY <1>1, <1>2, <1>3, AskIInv

\* Calls of a client keep the invariant.
LEMMA RemoteCallIInv ==
  ASSUME IInv, OpenInv', NEW r \in Clients, RemoteCall(r)
  PROVE  IInv'
  <1>1. /\ PUT \in Writes /\ META_PUT \in Writes /\ DEL \in Writes
        /\ {GET, META_GET, META_GET_ALL, READ_BARRIER, WRITE_BARRIER} = Requests
    BY DEF Writes, Requests
  <1>2. CASE \E k \in Keys, v \in Values, c \in Commands[r] \cap {PUT, META_PUT} :
               RemoteWrite(r, c, k, v)
    BY <1>1, <1>2, RemoteWriteIInv
  <1>3. CASE \E k \in Keys : RemoteWrite(r, DEL, k, KV_DUMMY)
    BY <1>1, <1>3, RemoteWriteIInv
  <1>4. CASE \E k \in Keys, c \in Commands[r] \cap {GET, META_GET} : RemoteRequest(r, c, k)
    BY <1>1, <1>4, RemoteRequestIInv
  <1>5. CASE \E c \in Commands[r] \cap {META_GET_ALL, READ_BARRIER, WRITE_BARRIER} :
               RemoteRequest(r, c, KV_DUMMY)
    BY <1>1, <1>5, RemoteRequestIInv
  <1>6. QED
    BY <1>2, <1>3, <1>4, <1>5 DEF RemoteCall

\* CloseRemote keeps the invariant.
LEMMA CloseRemoteIInv ==
  ASSUME IInv, OpenInv', NEW r \in Clients, CloseRemote(r)
  PROVE  IInv'
  <1> USE DEF CloseRemote, MayClose, Sent, serverVars, storeVars, memtables, barriers
  <1>1. /\ pc \in [Ranks -> PCs] /\ toServer \in [Clients -> Seq(Texts)]
        /\ r \in Ranks /\ r # 0 /\ Clients \subseteq Ranks /\ 0 \in Ranks
    BY TypeParts, ClientsAreRanks DEF IInv
  <1>2. Wired(EolMessage) \in Texts /\ Wired(EolMessage) = SerializeCmd(EOL_COMMAND, KV_DUMMY, <<>>)
    <2>1. EolMessage \in Message /\ PlainKey(EolMessage.key) /\ EolMessage.command = EOL_COMMAND
      BY CommandTexts DEF EolMessage, Message
    <2>2. Wired(EolMessage) \in Texts
      BY <2>1, WiredBack
    <2>3. QED
      BY <2>2 DEF Wired, EolMessage
  <1>3. /\ pc'[r] = "eol" /\ toServer'[r] = Append(toServer[r], Wired(EolMessage))
        /\ \A s \in Ranks \ {r} : pc'[s] = pc[s]
        /\ \A s \in Clients \ {r} : toServer'[s] = toServer[s]
    BY <1>1, <1>2
  <1>4. TypeOK'
    <2>1. pc' \in [Ranks -> PCs]
      BY <1>1 DEF PCs
    <2>2. toServer' \in [Clients -> Seq(Texts)]
      BY <1>1, <1>2
    <2>3. QED
      BY <2>1, <2>2 DEF IInv, TypeOK, PCs, ServeLocal
  <1>5. ASSUME NEW s \in Clients PROVE ClientInv(s)'
    <2>1. ClientInv(s)
      BY DEF IInv
    <2>2. CASE s # r
      BY <1>1, <1>3, <2>1, <2>2, ClientFrame DEF Held, Closing
    <2>3. CASE s = r
      <3>1. Pipe(asked[r], executed[r], toServer[r], toClient[r], Bit(Held(r)), buf[r],
                 Bit(r \in eol), 0, 0, call[r].command)
        BY <2>1, <2>3 DEF ClientInv, ClientPipe, Closing, Bit
      <3>2. Pipe(asked[r], executed[r], Append(toServer[r], Wired(EolMessage)), toClient[r],
                 Bit(Held(r)), buf[r], Bit(r \in eol), 1, 0, call[r].command)
        BY <3>1, PipeClose
      <3>3. /\ Bit(Held(r))' = Bit(Held(r)) /\ Bit(r \in eol)' = Bit(r \in eol)
            /\ Bit(Closing(r))' = 1 /\ Bit(pc[r] = "reply")' = 0
        BY <1>3 DEF Held, Closing, Bit
      <3>4. ClientPipe(r)'
        BY <1>3, <3>2, <3>3 DEF ClientPipe
      <3>5. Answered(r)'
        BY <2>1, <2>3 DEF ClientInv, Answered, Seen
      <3>6. QED
        BY <2>3, <3>4, <3>5 DEF ClientInv
    <2>4. QED
      BY <2>2, <2>3
  <1>6. ASSUME NEW s \in Ranks PROVE RankInv(s)'
    <2>1. CASE s # r
      BY <1>3, <2>1, RankFrame DEF IInv
    <2>2. CASE s = r
      BY <1>3, <2>2 DEF RankInv, LatestCall, SeenOwn, Returned
    <2>3. QED
      BY <2>1, <2>2
  <1>7. StoreSound' /\ StoreReflects'
    BY StoreFrame DEF IInv
  <1>8. OwnCalls' /\ Ending'
    BY <1>1, <1>3 DEF IInv, OwnCalls, Ending, ServeLocal
  <1>9. QED
    BY <1>4, <1>5, <1>6, <1>7, <1>8 DEF IInv

\* RecvReply keeps the invariant.
LEMMA RecvReplyIInv ==
  ASSUME IInv, OpenInv', NEW r \in Clients, RecvReply(r)
  PROVE  IInv'
  <1> USE DEF serverVars, storeVars, memtables, barriers
  <1>1. /\ pc \in [Ranks -> PCs] /\ toClient \in [Clients -> Seq(Texts)] /\ DOMAIN call = Ranks
        /\ r \in Ranks /\ r # 0 /\ Clients \subseteq Ranks /\ 0 \in Ranks
        /\ ClientInv(r) /\ RankInv(r) /\ pc[r] = "reply" /\ toClient[r] # <<>>
        /\ UNCHANGED <<asked, executed, toServer, server, next, buf, eol, open, db, flight, queue, active, draining, atStart, atEnd>>
    BY TypeParts, ClientsAreRanks DEF IInv, RecvReply
  <1> DEFINE c == call[r].command
             k == call[r].key
             a == asked[r]
             got == DeSerializeCmd(Head(toClient[r]))
  <1>2. PICK t : call' = [call EXCEPT ![r] = Called(c, k, got.value, t, got.command = Back(c))]
    BY DEF RecvReply
  <1>3. toClient' = [toClient EXCEPT ![r] = Tail(@)] /\ pc' = [pc EXCEPT ![r] = "idle"]
    BY DEF RecvReply
  <1>4. Pipe(a, executed[r], toServer[r], toClient[r], Bit(Held(r)), buf[r], Bit(r \in eol),
             Bit(Closing(r)), 1, c)
    BY <1>1 DEF ClientInv, ClientPipe, Bit
  <1> HIDE DEF c, k, a, got
  <1>5. /\ Pipe(a, executed[r], toServer[r], Tail(toClient[r]), Bit(Held(r)), buf[r],
                Bit(r \in eol), Bit(Closing(r)), 0, c)
        /\ Len(executed[r]) = Len(a) /\ Len(a) > 0 /\ a[Len(a)].command = c /\ c \in Requests
        /\ \E v \in Texts :
              /\ toClient[r][1] = SerializeCmd(Back(c), a[Len(a)].key, v)
              /\ Head(toClient[r]) = toClient[r][1]
              /\ DeSerializeCmd(Head(toClient[r]))
                   = [command |-> Back(c), key |-> a[Len(a)].key, value |-> v]
    <2> DEFINE in == toClient[r]
               h == Bit(Held(r))
               end == Bit(r \in eol)
               cl == Bit(Closing(r))
    <2>1. in # <<>> /\ Pipe(a, executed[r], toServer[r], in, h, buf[r], end, cl, 1, c)
      BY <1>1, <1>4
    <2> HIDE DEF in, h, end, cl
    <2>2. /\ Pipe(a, executed[r], toServer[r], Tail(in), h, buf[r], end, cl, 0, c)
          /\ Len(executed[r]) = Len(a) /\ Len(a) > 0 /\ a[Len(a)].command = c /\ c \in Requests
          /\ \E v \in Texts :
               /\ in[1] = SerializeCmd(Back(c), a[Len(a)].key, v) /\ Head(in) = in[1]
               /\ DeSerializeCmd(Head(in))
                    = [command |-> Back(c), key |-> a[Len(a)].key, value |-> v]
      BY <2>1, PipeReturn
    <2>3. QED
      BY <2>2 DEF in, h, end, cl
  <1>6. k = a[Len(a)].key /\ k \in Texts /\ PlainKey(k) /\ c \in Texts
    <2>1. k = a[Len(a)].key
      BY <1>1, <1>5 DEF RankInv, LatestCall, c, k, a
    <2>2. a \in Seq(Calls)
      BY <1>4 DEF Pipe, PipeTypes
    <2>3. a[Len(a)] \in Calls
      BY <1>5, <2>2
    <2>4. a[Len(a)] \in Message /\ PlainKey(a[Len(a)].key)
      BY <2>3 DEF Calls
    <2>5. QED
      BY <1>5, <2>1, <2>4, MessageFields
  <1>7. got.value \in Texts /\ got.command = Back(c)
    BY <1>5 DEF got
  <1>8. c \in {GET, META_GET} => Seen(r, got.value)
    <2> SUFFICES ASSUME c \in {GET, META_GET} PROVE Seen(r, got.value)
      OBVIOUS
    <2>1. PICK v \in Texts : /\ toClient[r][1] = SerializeCmd(Back(c), a[Len(a)].key, v)
                             /\ Seen(r, v)
      BY <1>1 DEF ClientInv, Answered, c, a
    <2>2. DeSerializeCmd(toClient[r][1]) = [command |-> Back(c), key |-> k, value |-> v]
      BY <1>5, <1>6, <2>1, ReplyBack
    <2>3. got.value = v
      BY <1>5, <2>2 DEF got
    <2>4. QED
      BY <2>1, <2>3
  <1>9. /\ pc'[r] = "idle" /\ toClient'[r] = Tail(toClient[r])
        /\ call'[r] = Called(c, k, got.value, t, TRUE)
        /\ \A s \in Ranks \ {r} : pc'[s] = pc[s] /\ call'[s] = call[s]
        /\ \A s \in Clients \ {r} : toClient'[s] = toClient[s]
        /\ DOMAIN call' = Ranks
    BY <1>1, <1>2, <1>3, <1>7
  <1>10. /\ call'[r].command = c /\ call'[r].key = k /\ call'[r].result = got.value
         /\ call'[r].ok = TRUE
    BY <1>9 DEF Called
  <1>11. Tail(toClient[r]) \in Seq(Texts) /\ Tail(toClient[r]) = <<>>
    <2>1. toClient[r] \in Seq(Texts) /\ toClient[r] # <<>>
      BY <1>1
    <2>2. Len(toClient[r]) = 1
      BY <1>1, <1>4 DEF Pipe, PipeReply
    <2>3. Tail(toClient[r]) \in Seq(Texts) /\ Len(Tail(toClient[r])) = 0
      BY <2>1, <2>2, Shortened
    <2>4. \A s \in Seq(Texts) : Len(s) = 0 => s = <<>>
      OBVIOUS
    <2>5. QED
      BY <2>3, <2>4
  <1>12. TypeOK'
    <2>1. \A s \in Ranks : /\ call'[s].command \in Texts /\ call'[s].key \in Texts
                           /\ call'[s].result \in Texts /\ call'[s].ok \in BOOLEAN
      BY <1>6, <1>7, <1>9, <1>10 DEF IInv, TypeOK
    <2>2. pc' \in [Ranks -> PCs]
      BY <1>1, <1>3 DEF PCs
    <2>3. toClient' \in [Clients -> Seq(Texts)]
      BY <1>1, <1>3, <1>11
    <2>4. QED
      BY <1>1, <2>1, <2>2, <2>3 DEF IInv, TypeOK, PCs, ServeLocal
  <1>13. ASSUME NEW s \in Clients PROVE ClientInv(s)'
    <2>1. ClientInv(s)
      BY DEF IInv
    <2>2. CASE s # r
      BY <1>1, <1>9, <2>1, <2>2, ClientFrame DEF Held, Closing
    <2>3. CASE s = r
      <3>1. /\ Bit(Held(r))' = Bit(Held(r)) /\ Bit(r \in eol)' = Bit(r \in eol)
            /\ Bit(Closing(r))' = Bit(Closing(r)) /\ Bit(pc[r] = "reply")' = 0
        BY <1>1, <1>9 DEF Held, Closing, Bit
      <3>2. ClientPipe(r)'
        BY <1>1, <1>5, <1>9, <1>10, <3>1 DEF ClientPipe, a
      <3>3. Answered(r)'
        BY <1>9, <1>11 DEF Answered
      <3>4. QED
        BY <2>3, <3>2, <3>3 DEF ClientInv
    <2>4. QED
      BY <2>2, <2>3
  <1>14. ASSUME NEW s \in Ranks PROVE RankInv(s)'
    <2>1. CASE s # r
      BY <1>1, <1>9, <2>1, RankFrame DEF IInv
    <2>2. CASE s = r
      <3>1. LatestCall(r)'
        BY <1>1, <1>5, <1>6, <1>9, <1>10 DEF LatestCall, a
      <3>2. SeenOwn(r)'
        <4>1. CASE c \notin {GET, META_GET}
          BY <1>10, <4>1 DEF SeenOwn, Returned
        <4>2. CASE c \in {GET, META_GET}
          <5>1. PICK v : v = got.value
            OBVIOUS
          <5>2. Seen(r, v)
            BY <1>8, <4>2, <5>1
          <5>3. call'[r].command = call[r].command /\ call'[r].key = call[r].key
            BY <1>10 DEF c, k
          <5>4. Seen(r, v)'
            BY <1>1, <5>2, <5>3 DEF Seen
          <5>5. call'[r].result = v
            BY <1>10, <5>1
          <5>6. QED
            BY <5>4, <5>5 DEF SeenOwn, Seen
        <4>3. QED
          BY <4>1, <4>2
      <3>3. QED
        BY <2>2, <3>1, <3>2 DEF RankInv
    <2>3. QED
      BY <2>1, <2>2
  <1>15. StoreSound' /\ StoreReflects'
    BY <1>1, StoreFrame DEF IInv
  <1>16. OwnCalls' /\ Ending'
    BY <1>1, <1>9 DEF IInv, OwnCalls, Ending, ServeLocal
  <1>17. QED
    BY <1>9, <1>12, <1>13, <1>14, <1>15, <1>16 DEF IInv

-----------------------------------------------------------------------------
(***************************************************************************)
(* The server thread.                                                      *)
(***************************************************************************)
\* The store's keys and values are texts.
LEMMA KnownText ==
  ASSUME StoreSound, NEW p
  PROVE  /\ Known(p) \subseteq Texts
         /\ Entries \subseteq Entry /\ IsFiniteSet(Entries)
  <1>1. db \subseteq Entry /\ IsFiniteSet(db) /\ Pending \in Seq(Entry)
    BY PendingIs DEF StoreSound
  <1>2. Range(Pending) \subseteq Entry
    BY <1>1 DEF Range
  <1>3. IsFiniteSet(Range(Pending))
    BY <1>1, RangeFinite
  <1>4. Lookup(db, p) \in Texts
    BY <1>1, CommandTexts DEF Lookup, Entry
  <1>5. Known(p) \subseteq Texts
    BY <1>2, <1>4 DEF Known, Entry
  <1>6. IsFiniteSet(db \cup Range(Pending))
    BY <1>1, <1>3, FS_Union
  <1>7. QED
    BY <1>1, <1>2, <1>5, <1>6 DEF Entries

\* What the store knows of a key: the last value or, with memtables, one since the
\* last barrier.
LEMMA KnownSeen ==
  ASSUME TypeOK, StoreSound, StoreReflects, NEW r \in Ranks, NEW meta \in BOOLEAN, NEW k \in Keys,
         NEW v \in Known(Place(r, meta, k))
  PROVE  LET n == Len(executed[r])
         IN  \E i \in OldestOf(asked[r], n) .. n : v = NewestOf(asked[r], meta, k, i)
  <1> DEFINE n == Len(executed[r])
             p == Place(r, meta, k)
  <1>1. n \in Nat
    BY TypeParts
  <1>2. Reflects(Contents, Known(p), asked[r], n, p, meta, k)
    BY DEF StoreReflects
  <1>3. v \in Known(p)
    OBVIOUS
  <1> HIDE DEF n, p
  <1>4. CASE Storage # "RocksDB"
    BY <1>2, <1>3, <1>4 DEF Reflects, OldestOf, n
  <1>5. CASE Storage = "RocksDB"
    <2>1. n \in OldestOf(asked[r], n) .. n
      BY <1>1, <1>5 DEF OldestOf
    <2>2. v = NewestOf(asked[r], meta, k, n)
      BY <1>2, <1>3, <1>5, KnownLast DEF Reflects
    <2>3. QED
      BY <2>1, <2>2 DEF n
  <1>6. QED
    BY <1>4, <1>5

\* What a lookup finds is one of these.
LEMMA FoundSeen ==
  ASSUME TypeOK, StoreSound, StoreReflects, NEW r \in Ranks, NEW meta \in BOOLEAN, NEW k \in Keys,
         NEW v \in Found(Place(r, meta, k))
  PROVE  LET n == Len(executed[r])
         IN  /\ v \in Texts
             /\ \E i \in OldestOf(asked[r], n) .. n : v = NewestOf(asked[r], meta, k, i)
  <1> DEFINE p == Place(r, meta, k)
  <1>1. v \in Found(p)
    OBVIOUS
  <1> HIDE DEF p
  <1>2. v \in Known(p)
    BY <1>1, FoundIs
  <1>3. v \in Texts
    BY <1>2, KnownText
  <1>4. v \in Known(Place(r, meta, k))
    BY <1>2 DEF p
  <1>5. QED
    BY <1>3, <1>4, KnownSeen

\* While the server thread works, it is at a client and rank 0 has not closed.
LEMMA ServerAtClient ==
  ASSUME IInv, server \in {"check", "recv", "exec"}
  PROVE  /\ ServeLocal /\ next \in Clients /\ next \in Ranks /\ next # 0 /\ next \in 1 .. Size - 1
         /\ Clients \subseteq Ranks /\ 0 \in Ranks
         /\ pc[0] \notin {"b99", "close", "closed"}
  BY TypeParts, ClientsAreRanks DEF IInv, OpenInv

\* The server goes to the next rank, or to the next round.
LEMMA NextMessageHolds ==
  ASSUME IInv, server = "exec", NextMessage, NEW q, q = next
  PROVE  /\ Held(q) /\ ~Held(q)'
         /\ \A s \in Clients \ {q} : Held(s)' <=> Held(s)
         /\ server' \in {"check", "exec"} /\ next' \in Nat /\ next' \in Clients
  <1>1. q \in 1 .. Size - 1 /\ Clients = 1 .. Size - 1 /\ Size \in Nat
    BY ServerAtClient, SizeAssumption DEF Clients
  <1>2. CASE q = Size - 1
    <2>1. server' = "check" /\ next' = next
      BY <1>2 DEF NextMessage
    <2>2. \A s : ~Held(s)'
      BY <2>1 DEF Held
    <2>3. \A s \in Clients \ {q} : ~Held(s)
      BY <1>1, <1>2 DEF Held
    <2>4. Held(q) /\ next' \in Nat /\ next' \in Clients
      BY <1>1, <2>1 DEF Held
    <2>5. QED
      BY <2>1, <2>2, <2>3, <2>4
  <1>3. CASE q # Size - 1
    <2>1. next' = q + 1 /\ server' = "exec"
      BY <1>3 DEF NextMessage
    <2>2. QED
      BY <1>1, <1>3, <2>1 DEF Held
  <1>4. QED
    BY <1>2, <1>3

\* ServerRecv keeps the invariant.
LEMMA ServerRecvIInv ==
  ASSUME IInv, OpenInv', ServerRecv
  PROVE  IInv'
  <1> USE DEF storeVars, memtables, barriers
  <1>1. PICK q : q = next
    OBVIOUS
  <1>2. /\ q \in Clients /\ q \in Ranks /\ q # 0 /\ q \in 1 .. Size - 1 /\ ServeLocal
        /\ Clients \subseteq Ranks /\ 0 \in Ranks /\ pc[0] \notin {"b99", "close", "closed"}
        /\ toServer \in [Clients -> Seq(Texts)] /\ buf \in [Clients -> Message]
        /\ Clients = 1 .. Size - 1 /\ Size \in Nat
        /\ server = "recv" /\ toServer[q] # <<>>
        /\ UNCHANGED <<pc, call, asked, executed, toClient, eol, open, db, flight, queue, active, draining, atStart, atEnd>>
    BY <1>1, ServerAtClient, TypeParts, SizeAssumption DEF IInv, ServerRecv, Clients
  <1>3. /\ buf' = [buf EXCEPT ![q] = DeSerializeCmd(Head(toServer[q]))]
        /\ toServer' = [toServer EXCEPT ![q] = Tail(@)]
        /\ server' \in {"recv", "exec"} /\ next' \in Clients /\ next' \in Nat
    <2>1. CASE next = Size - 1
      BY <1>1, <1>2, <2>1 DEF ServerRecv
    <2>2. CASE next # Size - 1
      BY <1>1, <1>2, <2>2 DEF ServerRecv
    <2>3. QED
      BY <2>1, <2>2
  <1>4. ~Held(q) /\ Held(q)' /\ \A s \in Clients \ {q} : Held(s)' <=> Held(s)
    <2>1. CASE q = Size - 1
      <3>1. server' = "exec" /\ next' = 1
        BY <1>1, <2>1 DEF ServerRecv
      <3>2. QED
        BY <1>1, <1>2, <2>1, <3>1 DEF Held
    <2>2. CASE q # Size - 1
      <3>1. server' = "recv" /\ next' = q + 1
        BY <1>1, <1>2, <2>2 DEF ServerRecv
      <3>2. QED
        BY <1>1, <1>2, <2>2, <3>1 DEF Held
    <2>3. QED
      BY <2>1, <2>2
  <1>5. /\ buf'[q] = DeSerializeCmd(Head(toServer[q])) /\ toServer'[q] = Tail(toServer[q])
        /\ \A s \in Clients \ {q} : buf'[s] = buf[s] /\ toServer'[s] = toServer[s]
    BY <1>2, <1>3
  <1>6. /\ Pipe(asked[q], executed[q], Tail(toServer[q]), toClient[q], 1,
                DeSerializeCmd(Head(toServer[q])), Bit(q \in eol), Bit(Closing(q)),
                Bit(pc[q] = "reply"), call[q].command)
        /\ DeSerializeCmd(Head(toServer[q])) \in Message
    <2> DEFINE out == toServer[q]
               end == Bit(q \in eol)
               cl == Bit(Closing(q))
               w == Bit(pc[q] = "reply")
    <2>1. /\ out # <<>>
          /\ Pipe(asked[q], executed[q], out, toClient[q], 0, buf[q], end, cl, w, call[q].command)
      BY <1>2, <1>4 DEF IInv, ClientInv, ClientPipe, Bit
    <2> HIDE DEF out, end, cl, w
    <2>2. /\ Pipe(asked[q], executed[q], Tail(out), toClient[q], 1, DeSerializeCmd(Head(out)),
                  end, cl, w, call[q].command)
          /\ DeSerializeCmd(Head(out)) \in Message
      BY <2>1, PipeRecv
    <2>3. QED
      BY <2>2 DEF out, end, cl, w
  <1>7. TypeOK'
    <2>1. Tail(toServer[q]) \in Seq(Texts)
      BY <1>2, Shortened
    <2>2. toServer' \in [Clients -> Seq(Texts)] /\ buf' \in [Clients -> Message]
      BY <1>2, <1>3, <1>6, <2>1
    <2>3. QED
      BY <1>2, <1>3, <2>2 DEF IInv, TypeOK
  <1>8. ASSUME NEW s \in Clients PROVE ClientInv(s)'
    <2>1. ClientInv(s)
      BY DEF IInv
    <2>2. CASE s # q
      BY <1>2, <1>4, <1>5, <2>1, <2>2, ClientFrame DEF Closing
    <2>3. CASE s = q
      <3>1. /\ Bit(Held(q))' = 1 /\ Bit(q \in eol)' = Bit(q \in eol)
            /\ Bit(Closing(q))' = Bit(Closing(q)) /\ Bit(pc[q] = "reply")' = Bit(pc[q] = "reply")
        BY <1>2, <1>4 DEF Closing, Bit
      <3>2. ClientPipe(q)'
        BY <1>2, <1>5, <1>6, <3>1 DEF ClientPipe
      <3>3. Answered(q)'
        BY <1>2, <2>1, <2>3 DEF ClientInv, Answered, Seen
      <3>4. QED
        BY <2>3, <3>2, <3>3 DEF ClientInv
    <2>4. QED
      BY <2>2, <2>3
  <1>9. ASSUME NEW s \in Ranks PROVE RankInv(s)'
    BY <1>2, RankFrame DEF IInv
  <1>10. StoreSound' /\ StoreReflects'
    BY <1>2, StoreFrame DEF IInv
  <1>11. OwnCalls' /\ Ending'
    BY <1>2, <1>3 DEF IInv, OwnCalls, Ending
  <1>12. QED
    BY <1>2, <1>7, <1>8, <1>9, <1>10, <1>11 DEF IInv

\* ServerEol keeps the invariant.
LEMMA ServerEolIInv ==
  ASSUME IInv, OpenInv', ServerEol
  PROVE  IInv'
  <1> USE DEF storeVars, memtables, channels, barriers
  <1>1. PICK q : q = next
    OBVIOUS
  <1>2. /\ q \in Clients /\ q \in Ranks /\ q # 0
        /\ Clients \subseteq Ranks /\ 0 \in Ranks /\ pc[0] \notin {"b99", "close", "closed"}
        /\ server = "exec" /\ buf[q].command = EOL_COMMAND /\ eol' = eol \cup {q}
        /\ UNCHANGED <<pc, call, asked, executed, toServer, toClient, buf, open, db, flight, queue, active, draining, atStart, atEnd>>
    BY <1>1, ServerAtClient DEF ServerEol
  <1>3. /\ Held(q) /\ ~Held(q)' /\ \A s \in Clients \ {q} : Held(s)' <=> Held(s)
        /\ server' \in {"check", "exec"} /\ next' \in Nat /\ next' \in Clients
    BY <1>1, <1>2, NextMessageHolds DEF ServerEol
  <1>4. Pipe(asked[q], executed[q], toServer[q], toClient[q], 0, buf[q], 1, Bit(Closing(q)),
             Bit(pc[q] = "reply"), call[q].command)
    <2> DEFINE b == buf[q]
               end == Bit(q \in eol)
               cl == Bit(Closing(q))
               w == Bit(pc[q] = "reply")
    <2>1. /\ b.command = EOL_COMMAND
          /\ Pipe(asked[q], executed[q], toServer[q], toClient[q], 1, b, end, cl, w, call[q].command)
      BY <1>2, <1>3 DEF IInv, ClientInv, ClientPipe, Bit
    <2> HIDE DEF b, end, cl, w
    <2>2. Pipe(asked[q], executed[q], toServer[q], toClient[q], 0, b, 1, cl, w, call[q].command)
      BY <2>1, PipeEol
    <2>3. QED
      BY <2>2 DEF b, cl, w
  <1>5. TypeOK'
    BY <1>2, <1>3 DEF IInv, TypeOK
  <1>6. ASSUME NEW s \in Clients PROVE ClientInv(s)'
    <2>1. ClientInv(s)
      BY DEF IInv
    <2>2. CASE s # q
      BY <1>2, <1>3, <2>1, <2>2, ClientFrame DEF Closing
    <2>3. CASE s = q
      <3>1. /\ Bit(Held(q))' = 0 /\ Bit(q \in eol)' = 1
            /\ Bit(Closing(q))' = Bit(Closing(q)) /\ Bit(pc[q] = "reply")' = Bit(pc[q] = "reply")
        BY <1>2, <1>3 DEF Closing, Bit
      <3>2. ClientPipe(q)'
        BY <1>2, <1>4, <3>1 DEF ClientPipe
      <3>3. Answered(q)'
        BY <1>2, <2>1, <2>3 DEF ClientInv, Answered, Seen
      <3>4. QED
        BY <2>3, <3>2, <3>3 DEF ClientInv
    <2>4. QED
      BY <2>2, <2>3
  <1>7. ASSUME NEW s \in Ranks PROVE RankInv(s)'
    BY <1>2, RankFrame DEF IInv
  <1>8. StoreSound' /\ StoreReflects'
    BY <1>2, StoreFrame DEF IInv
  <1>9. OwnCalls' /\ Ending'
    BY <1>2, <1>3 DEF IInv, OwnCalls, Ending
  <1>10. QED
    BY <1>2, <1>5, <1>6, <1>7, <1>8, <1>9 DEF IInv

\* The store is not touched by a call that only reads.
LEMMA ReadDoes ==
  ASSUME StoreSound, UNCHANGED storeVars, NEW q, NEW m, m.command \notin Writes \cup {WRITE_BARRIER}
  PROVE  StoreDoes(q, m) /\ StoreSound' /\ open' = open
  <1>1. UNCHANGED <<open, db, flight, queue, active, draining>>
    BY DEF storeVars, memtables
  <1>2. StoreSound'
    BY <1>1, PlacesStay DEF StoreSound
  <1>3. Contents' = Contents /\ Entries' = Entries /\ \A p : Known(p)' = Known(p)
    BY <1>1 DEF Contents, Entries, Known, Pending
  <1>4. QED
    BY <1>1, <1>2, <1>3 DEF StoreDoes, After

\* callbackForCollectiveIO does to the store what the call says.
LEMMA CallbackDoes ==
  ASSUME PlainKeys, StoreSound, draining \subseteq Ranks, NEW q \in Ranks, NEW m \in Calls,
         q \in draining => m.command = WRITE_BARRIER, Callback(q, m)
  PROVE  StoreDoes(q, m) /\ StoreSound'
  <1>1. CASE m.command \in Writes
    <2>1. Mutate(Mutation(q, m.command, m.key, m.value)) /\ q \notin draining
      BY <1>1, CommandsApart DEF Callback
    <2>2. QED
      BY <1>1, <2>1, MutateDoes
  <1>2. CASE m.command = WRITE_BARRIER
    <2>1. BarrierReturns(q)
      BY <1>2, CommandsApart DEF Callback
    <2>2. QED
      BY <1>2, <2>1, BarrierReturnsDoes
  <1>3. CASE m.command \notin Writes /\ m.command # WRITE_BARRIER
    <2>1. UNCHANGED storeVars
      BY <1>3 DEF Callback
    <2>2. QED
      BY <1>3, <2>1, ReadDoes
  <1>4. QED
    BY <1>1, <1>2, <1>3

\* What getPrefix finds are entries of the store with the prefix and with a value, one
\* of a key at most; a key of the prefix that it leaves out may have none.
LEMMA FoundPrefixIs ==
  ASSUME StoreSound, NEW prefix, NEW found \in FoundPrefix(prefix)
  PROVE  /\ \A e \in found : e \in Entries /\ IsPrefix(prefix, e.key) /\ e.value # NoValue
         /\ UniqueKeys(found)
         /\ \A x : IsPrefix(prefix, x) /\ (\A e \in found : e.key # x) => NoValue \in Known(x)
  <1> DEFINE memory == queue \o active
             keys == {memory[i].key : i \in DOMAIN memory}
             picks == {p \in [keys -> DOMAIN memory] : \A k \in keys : memory[p[k]].key = k}
             seen(files, p) == {e \in files : e.key \notin keys} \cup {memory[p[k]] : k \in keys}
  <1>1. /\ Range(memory) \subseteq Range(Pending) /\ Range(flight) \subseteq Range(Pending)
        /\ UniqueKeys(db) /\ flight \in Seq(Entry)
    BY PendingIs DEF StoreSound
  <1>2. FoundPrefix(prefix) =
          {PrefixLookup(seen(files, p), prefix) : files \in FilesSeen, p \in picks}
    BY DEF FoundPrefix
  <1>3. PICK files \in FilesSeen, p \in picks : found = PrefixLookup(seen(files, p), prefix)
    <2> HIDE DEF seen, picks
    <2>1. QED
      BY <1>2
  <1> DEFINE all == seen(files, p)
  <1>4. \A k \in keys : p[k] \in DOMAIN memory /\ memory[p[k]].key = k
    <2> HIDE DEF memory, keys
    <2>1. QED
      OBVIOUS
  <1>5. \A k \in keys : memory[p[k]] \in Range(memory)
    <2> HIDE DEF memory, keys
    <2>1. QED
      BY <1>4 DEF Range
  <1>6. \A e : e \in all <=> \/ e \in files /\ e.key \notin keys
                             \/ \E k \in keys : e = memory[p[k]]
    OBVIOUS
  <1>7. \A e : e \in found <=> e \in all /\ IsPrefix(prefix, e.key) /\ e.value # NoValue
    BY <1>3 DEF PrefixLookup
  <1> HIDE DEF memory, keys, picks, seen, all
  <1>8. \A e \in files : e \in Entries
    <2>1. \A e : e \in Applied(db, flight) => e \in db \cup Range(flight)
      BY AppliedMembers DEF Range
    <2>2. QED
      BY <1>1, <2>1 DEF FilesSeen, Entries
  <1>9. UniqueKeys(files)
    BY <1>1, AppliedUnique DEF FilesSeen
  <1>10. \A e \in all : e \in Entries
    BY <1>1, <1>5, <1>6, <1>8 DEF Entries
  <1>11. ASSUME NEW d \in found, NEW e \in found, d.key = e.key PROVE d = e
    BY <1>4, <1>6, <1>7, <1>9, <1>11 DEF UniqueKeys
  <1>12. ASSUME NEW x, IsPrefix(prefix, x), \A e \in found : e.key # x PROVE NoValue \in Known(x)
    <2>1. \A e \in all : e.key = x => e.value = NoValue
      BY <1>7, <1>12
    <2>2. ASSUME NEW e \in all, e.key = x PROVE NoValue \in Known(x)
      <3>1. e.value = NoValue /\ (e \in db \/ e \in Range(Pending))
        BY <1>10, <2>1, <2>2 DEF Entries
      <3>2. CASE e \in db
        BY <1>1, <2>2, <3>1, <3>2, LookupFound DEF Known
      <3>3. CASE e \in Range(Pending)
        BY <2>2, <3>1, <3>3 DEF Known
      <3>4. QED
        BY <3>1, <3>2, <3>3
    <2>3. ASSUME \A e \in all : e.key # x PROVE NoValue \in Known(x)
      <3>1. x \notin keys
        BY <1>4, <1>6, <2>3
      <3>2. \A e \in files : e.key # x
        BY <1>6, <2>3, <3>1
      <3>3. Lookup(files, x) = NoValue
        BY <3>2, LookupMissing
      <3>4. CASE files = db
        BY <3>3, <3>4 DEF Known
      <3>5. CASE files = Applied(db, flight)
        BY <1>1, <3>3, <3>5, AppliedOf DEF Known
      <3>6. QED
        BY <3>4, <3>5 DEF FilesSeen
    <2>4. QED
      BY <2>2, <2>3
  <1>13. \A e \in found : e \in Entries /\ IsPrefix(prefix, e.key) /\ e.value # NoValue
    BY <1>7, <1>10
  <1>14. QED
    BY <1>11, <1>12, <1>13 DEF UniqueKeys

\* What the server answers is a text, and what a get is answered is in the store.
LEMMA AnswerIs ==
  ASSUME TypeOK, StoreSound, StoreReflects, NEW q \in Ranks, NEW m \in Calls, NEW v \in Answers(q, m)
  PROVE  /\ v \in Texts
         /\ m.command \in {GET, META_GET} => v \in Found(Place(q, m.command = META_GET, m.key))
  <1>1. CASE m.command \in {GET, META_GET}
    <2>1. v \in Found(StoreKey(q, m.command, m.key))
      BY <1>1 DEF Answers, GET, META_GET, META_GET_ALL
    <2>2. StoreKey(q, m.command, m.key) = Place(q, m.command = META_GET, m.key)
      BY <1>1, CommandsApart DEF Place
    <2>3. m.key \in Keys
      BY <1>1 DEF Calls
    <2>4. v \in Texts
      BY <2>1, <2>2, <2>3, FoundSeen
    <2>5. QED
      BY <2>1, <2>2, <2>4
  <1>2. CASE m.command = META_GET_ALL
    <2>1. PICK found \in FoundPrefix(MetaPrefix \o RankedKey(q, <<>>)) :
                 v = VectorTupleSerialize(found)
      BY <1>2 DEF Answers, GET, META_GET, META_GET_ALL
    <2>2. found \subseteq Entries
      BY FoundPrefixIs
    <2>3. IsFiniteSet(found) /\ found \subseteq Entry
      BY <2>2, KnownText, FS_Subset
    <2>4. QED
      BY <1>2, <2>1, <2>3, TuplesText DEF GET, META_GET, META_GET_ALL
  <1>3. CASE m.command \notin {GET, META_GET, META_GET_ALL}
    BY <1>3, CommandTexts DEF Answers
  <1>4. QED
    BY <1>1, <1>2, <1>3

\* ServerBarrierBegins keeps the invariant.
LEMMA ServerBarrierBeginsIInv ==
  ASSUME IInv, OpenInv', ServerBarrierBegins
  PROVE  IInv'
  <1>1. StoreSound' /\ StoreRests
    BY BarrierBeginsDoes DEF IInv, ServerBarrierBegins
  <1>2. next \in Ranks /\ pc[0] # "closed"
    BY ServerAtClient DEF ServerBarrierBegins
  <1>3. UNCHANGED <<pc, call, asked, executed, toServer, toClient, server, next, buf, eol,
                    open, db, flight, atStart, atEnd>>
        /\ draining' = draining \cup {next}
    BY DEF ServerBarrierBegins, BarrierBegins, channels, serverVars, barriers
  <1>4. TypeOK'
    BY <1>1, <1>2, <1>3 DEF IInv, TypeOK, StoreSound, ServeLocal
  <1>5. Ending'
    BY <1>2, <1>3 DEF IInv, Ending, ServeLocal
  <1>6. QED
    BY <1>1, <1>3, <1>4, <1>5, StoreRestsIInv

\* FlushStep keeps the invariant.
LEMMA FlushStepIInv ==
  ASSUME IInv, OpenInv', FlushStep
  PROVE  IInv'
  <1>1. StoreSound' /\ StoreRests
    BY FlushDoes DEF IInv, FlushStep
  <1>2. UNCHANGED <<pc, call, asked, executed, toServer, toClient, server, next, buf, eol,
                    open, active, draining, atStart, atEnd>>
    BY DEF FlushStep, StorePops, StoreFlushes, channels, serverVars, barriers
  <1>3. TypeOK'
    BY <1>1, <1>2 DEF IInv, TypeOK, StoreSound, ServeLocal
  <1>4. ~(flight = <<>> /\ queue = <<>>)
    BY DEF FlushStep, StorePops, StoreFlushes
  <1>5. Ending'
    BY <1>2, <1>4 DEF IInv, Ending, ServeLocal
  <1>6. QED
    BY <1>1, <1>2, <1>3, <1>5, StoreRestsIInv

\* ServerExec keeps the invariant.
LEMMA ServerExecIInv ==
  ASSUME IInv, OpenInv', ServerExec
  PROVE  IInv'
  <1> USE DEF barriers
  <1>1. PICK q : q = next
    OBVIOUS
  <1>2. PICK m : m = buf[q]
    OBVIOUS
  <1>3. PICK v \in Answers(q, m) :
          toClient' = IF WantsReply(m.command)
                      THEN [toClient EXCEPT ![q] =
                              Append(@, SerializeCmd(Back(m.command), m.key, v))]
                      ELSE toClient
    BY <1>1, <1>2 DEF ServerExec
  <1>4. /\ q \in Clients /\ q \in Ranks /\ q # 0
        /\ Clients \subseteq Ranks /\ 0 \in Ranks /\ pc[0] \notin {"b99", "close", "closed"}
        /\ server = "exec" /\ m.command # EOL_COMMAND /\ NextMessage
        /\ executed' = [executed EXCEPT ![q] = Append(@, m)]
        /\ Callback(q, m)
        /\ UNCHANGED <<pc, call, asked, toServer, buf, eol, atStart, atEnd>>
    BY <1>1, <1>2, ServerAtClient DEF ServerExec
  <1>5. toClient' = IF WantsReply(m.command)
                    THEN [toClient EXCEPT ![q] =
                            Append(@, SerializeCmd(Back(m.command), m.key, v))]
                    ELSE toClient
    BY <1>3
  <1>6. /\ executed \in [Ranks -> Seq(Message)] /\ toClient \in [Clients -> Seq(Texts)]
        /\ TypeOK /\ StoreSound /\ StoreReflects /\ PlainKeys /\ ClientInv(q) /\ RankInv(q)
    BY <1>4, TypeParts DEF IInv
  <1>7. /\ Held(q) /\ ~Held(q)' /\ \A s \in Clients \ {q} : Held(s)' <=> Held(s)
        /\ server' \in {"check", "exec"} /\ next' \in Nat /\ next' \in Clients
    BY <1>1, <1>4, NextMessageHolds
  <1> DEFINE a == asked[q]
             e == executed[q]
             in == toClient[q]
             c == call[q].command
             in1 == IF WantsReply(m.command)
                    THEN Append(in, SerializeCmd(Back(m.command), m.key, v)) ELSE in
  <1>8. Pipe(a, e, toServer[q], in, 1, m, Bit(q \in eol), Bit(Closing(q)),
             Bit(pc[q] = "reply"), c)
    BY <1>2, <1>6, <1>7 DEF ClientInv, ClientPipe, Bit
  <1>9. /\ e \in Seq(Message) /\ in \in Seq(Texts) /\ a \in Seq(Calls)
        /\ (in # <<>> => Len(e) = Len(a))
    BY <1>8 DEF Pipe, PipeTypes, PipeReply
  <1>10. /\ m \in Message /\ Len(e) \in Nat /\ Len(a) \in Nat
         /\ Len(e) < Len(a) /\ m = a[Len(e) + 1] /\ m \in Calls
         /\ m.command \in Requests =>
              pc[q] = "reply" /\ Len(e) + 1 = Len(a) /\ in = <<>> /\ c = m.command
    <2> DEFINE end == Bit(q \in eol)
               cl == Bit(Closing(q))
               w == Bit(pc[q] = "reply")
    <2>1. Pipe(a, e, toServer[q], in, 1, m, end, cl, w, c)
      BY <1>8
    <2>2. w = 1 => pc[q] = "reply"
      BY DEF Bit
    <2> HIDE DEF a, e, in, c, end, cl, w
    <2>3. /\ m \in Message /\ Len(e) \in Nat /\ Len(a) \in Nat
          /\ Len(e) < Len(a) /\ m = a[Len(e) + 1] /\ m \in Calls
          /\ m.command \in Requests => w = 1 /\ Len(e) + 1 = Len(a) /\ in = <<>> /\ c = m.command
      BY <1>4, <2>1, PipeHeld
    <2>4. QED
      BY <2>2, <2>3
  <1>11. in = <<>>
    BY <1>9, <1>10
  <1>12. v \in Texts /\ (m.command \in {GET, META_GET} =>
                          v \in Found(Place(q, m.command = META_GET, m.key)))
    BY <1>3, <1>4, <1>6, <1>10, AnswerIs
  <1>13. Pipe(a, Append(e, m), toServer[q], in1, 0, m, Bit(q \in eol), Bit(Closing(q)),
              Bit(pc[q] = "reply"), c)
    <2> DEFINE end == Bit(q \in eol)
               cl == Bit(Closing(q))
               w == Bit(pc[q] = "reply")
    <2>1. Pipe(a, e, toServer[q], in, 1, m, end, cl, w, c)
      BY <1>8
    <2> HIDE DEF a, e, in, c, end, cl, w
    <2>2. Pipe(a, Append(e, m), toServer[q],
               IF WantsReply(m.command)
               THEN Append(in, SerializeCmd(Back(m.command), m.key, v)) ELSE in,
               0, m, end, cl, w, c)
      BY <1>4, <1>12, <2>1, PipeExec
    <2>3. QED
      BY <2>2 DEF a, e, in, c, end, cl, w
  <1>14. in1 \in Seq(Texts) /\ Append(e, m) \in Seq(Message)
    BY <1>13 DEF Pipe, PipeTypes
  <1>15. /\ executed'[q] = Append(e, m) /\ toClient'[q] = in1
         /\ \A s \in Ranks \ {q} : executed'[s] = executed[s]
         /\ \A s \in Clients \ {q} : toClient'[s] = toClient[s]
         /\ executed' \in [Ranks -> Seq(Message)] /\ toClient' \in [Clients -> Seq(Texts)]
    <2>1. /\ executed'[q] = Append(e, m)
          /\ \A s \in Ranks \ {q} : executed'[s] = executed[s]
          /\ executed' \in [Ranks -> Seq(Message)]
      BY <1>4, <1>6, <1>14
    <2>2. CASE WantsReply(m.command)
      <3>1. toClient' = [toClient EXCEPT ![q] = in1]
        BY <1>5, <2>2
      <3> HIDE DEF in1
      <3>2. QED
        BY <1>4, <1>6, <1>14, <2>1, <3>1
    <2>3. CASE ~WantsReply(m.command)
      BY <1>5, <1>6, <2>1, <2>3
    <2>4. QED
      BY <2>2, <2>3
  <1>16. StoreDoes(q, m) /\ StoreSound'
    <2>1. q \in draining => m.command = WRITE_BARRIER
      BY <1>2, <1>4 DEF IInv, OpenInv, BarrierServed
    <2>2. draining \subseteq Ranks
      BY <1>6, TypeParts
    <2>3. QED
      BY <1>4, <1>6, <1>10, <2>1, <2>2, CallbackDoes
  <1>17. StoreReflects'
    <2>1. Len(executed'[q]) = Len(e) + 1
      BY <1>9, <1>10, <1>15, Appended
    <2>2. /\ asked'[q][Len(e) + 1] = m
          /\ \A i \in 1 .. Len(e) : asked'[q][i] = asked[q][i]
          /\ \A s \in Ranks \ {q} : executed'[s] = executed[s] /\ asked'[s] = asked[s]
      BY <1>4, <1>10, <1>15
    <2>3. QED
      BY <1>4, <1>6, <1>10, <1>16, <2>1, <2>2, ExecutedReflects
  <1>18. TypeOK'
    <2>1. open' = open /\ draining' \subseteq draining
      BY <1>4, CallbackKeepsOpen
    <2>2. QED
      BY <1>4, <1>6, <1>7, <1>15, <1>16, <2>1 DEF TypeOK, StoreSound
  <1>19. Answered(q)'
    <2> SUFFICES ASSUME in1 # <<>>, c \in {GET, META_GET}
                 PROVE  \E u \in Texts : /\ in1[1] = SerializeCmd(Back(c), a[Len(a)].key, u)
                                         /\ Seen(q, u)'
      BY <1>4, <1>15 DEF Answered
    <2>1. m.command \in Requests
      BY <1>11 DEF WantsReply
    <2>2. /\ pc[q] = "reply" /\ Len(e) + 1 = Len(a) /\ c = m.command /\ m = a[Len(a)]
      BY <1>10, <2>1
    <2>3. in1[1] = SerializeCmd(Back(c), a[Len(a)].key, v)
      BY <1>11, <2>1, <2>2 DEF WantsReply
    <2>4. call[q].key = m.key
      <3>1. c \in Requests
        BY <2>1, <2>2
      <3>2. QED
        BY <1>6, <2>2, <3>1 DEF RankInv, LatestCall
    <2>5. m.key \in Keys /\ v \in Found(Place(q, m.command = META_GET, m.key))
      BY <1>10, <1>12, <2>2 DEF Calls
    <2> DEFINE meta == m.command = META_GET
    <2>6. PICK i \in OldestOf(a, Len(e)) .. Len(e) : v = NewestOf(a, meta, m.key, i)
      <3>1. meta \in BOOLEAN /\ v \in Found(Place(q, meta, m.key)) /\ m.key \in Keys
        BY <2>5
      <3> HIDE DEF meta
      <3>2. QED
        BY <1>4, <1>6, <3>1, FoundSeen
    <2>7. Len(e) = Len(a) - 1
      BY <1>10, <2>2
    <2>8. i \in OldestOf(asked[q], Len(asked[q]) - 1) .. Len(asked[q]) - 1
      BY <2>6, <2>7
    <2>9. v = NewestOf(asked[q], call[q].command = META_GET, call[q].key, i)
      BY <2>2, <2>4, <2>6
    <2>10. Seen(q, v)'
      BY <1>4, <2>8, <2>9 DEF Seen
    <2>11. QED
      BY <1>12, <2>3, <2>10
  <1>20. ASSUME NEW s \in Clients PROVE ClientInv(s)'
    <2>1. ClientInv(s)
      BY DEF IInv
    <2>2. CASE s # q
      BY <1>4, <1>7, <1>15, <2>1, <2>2, ClientFrame DEF Closing
    <2>3. CASE s = q
      <3>1. /\ Bit(Held(q))' = 0 /\ Bit(q \in eol)' = Bit(q \in eol)
            /\ Bit(Closing(q))' = Bit(Closing(q)) /\ Bit(pc[q] = "reply")' = Bit(pc[q] = "reply")
        BY <1>4, <1>7 DEF Closing, Bit
      <3>2. buf'[q] = m
        BY <1>2, <1>4
      <3> HIDE DEF in1
      <3>3. ClientPipe(q)'
        BY <1>4, <1>13, <1>15, <3>1, <3>2 DEF ClientPipe
      <3>4. QED
        BY <1>19, <2>3, <3>3 DEF ClientInv
    <2>4. QED
      BY <2>2, <2>3
  <1>21. ASSUME NEW s \in Ranks PROVE RankInv(s)'
    <2>1. CASE s # q
      BY <1>4, <1>15, <2>1, RankFrame DEF IInv
    <2>2. CASE s = q
      <3>1. LatestCall(q)'
        <4>1. ~(pc[q] = "idle" /\ call[q].command \in Requests)
          BY <1>6, <1>10 DEF RankInv, LatestCall
        <4>2. QED
          BY <1>4, <1>6, <4>1 DEF RankInv, LatestCall
      <3>2. SeenOwn(q)'
        BY <1>4, <1>6 DEF RankInv, SeenOwn, Returned, Seen
      <3>3. QED
        BY <2>2, <3>1, <3>2 DEF RankInv
    <2>3. QED
      BY <2>1, <2>2
  <1>22. OwnCalls' /\ Ending'
    BY <1>4, <1>7, <1>15 DEF IInv, OwnCalls, Ending
  <1>23. QED
    BY <1>4, <1>6, <1>16, <1>17, <1>18, <1>20, <1>21, <1>22 DEF IInv

-----------------------------------------------------------------------------
(***************************************************************************)
(* The calls of rank 0.                                                    *)
(***************************************************************************)
\* A call of rank 0 itself, which the store has executed when it returns.
LEMMA LocalCallIInv ==
  ASSUME IInv, OpenInv', NEW m \in Calls, LocalCall(m.command, m.key, m.value),
         StoreDoes(0, m), StoreSound', open' = open, draining' \subseteq draining,
         NEW found \in Texts, NEW t, NEW ok \in BOOLEAN,
         call' = [call EXCEPT ![0] = Called(m.command, m.key, found, t, ok)],
         m.command \in {GET, META_GET} =>
           found \in Found(Place(0, m.command = META_GET, m.key))
  PROVE  IInv'
  <1>1. /\ pc[0] = "idle" /\ 0 \in Ranks /\ 0 \notin Clients /\ Clients \subseteq Ranks
        /\ asked \in [Ranks -> Seq(Message)] /\ executed \in [Ranks -> Seq(Message)]
        /\ DOMAIN call = Ranks /\ TypeOK /\ StoreSound /\ StoreReflects /\ PlainKeys
        /\ asked[0] \in Seq(Calls) /\ executed[0] = asked[0]
        /\ UNCHANGED <<pc, toServer, toClient, server, next, buf, eol, atStart, atEnd>>
    BY ClientsAreRanks, TypeParts
       DEF IInv, OwnCalls, LocalCall, MayCall, channels, serverVars, barriers
  <1>2. m \in Message /\ m.command \in Texts /\ m.key \in Texts
        /\ m = [command |-> m.command, key |-> m.key, value |-> m.value]
    <2>1. m \in Message
      BY DEF Calls
    <2>2. QED
      BY <2>1, MessageFields
  <1>3. /\ asked' = [asked EXCEPT ![0] = Append(@, m)]
        /\ executed' = [executed EXCEPT ![0] = Append(@, m)]
    BY <1>2 DEF LocalCall, Asks
  <1> DEFINE a == asked[0]
             n == Len(a)
  <1>4. /\ asked'[0] = Append(a, m) /\ executed'[0] = Append(a, m)
        /\ call'[0] = Called(m.command, m.key, found, t, ok)
        /\ \A s \in Ranks \ {0} : /\ asked'[s] = asked[s] /\ executed'[s] = executed[s]
                                  /\ call'[s] = call[s]
        /\ DOMAIN call' = Ranks
        /\ asked' \in [Ranks -> Seq(Message)] /\ executed' \in [Ranks -> Seq(Message)]
    BY <1>1, <1>2, <1>3
  <1>5. /\ Append(a, m) \in Seq(Calls) /\ Len(Append(a, m)) = n + 1 /\ n \in Nat
        /\ \A i \in 1 .. n : Append(a, m)[i] = a[i]
        /\ Append(a, m)[n + 1] = m
    BY <1>1, Appended
  <1>6. /\ call'[0].command = m.command /\ call'[0].key = m.key
        /\ call'[0].result = found /\ call'[0].ok = ok
    BY <1>4 DEF Called
  <1>7. TypeOK'
    <2>1. \A s \in Ranks : /\ call'[s].command \in Texts /\ call'[s].key \in Texts
                           /\ call'[s].result \in Texts /\ call'[s].ok \in BOOLEAN
      BY <1>1, <1>2, <1>4, <1>6 DEF TypeOK
    <2>2. QED
      BY <1>1, <1>4, <2>1 DEF TypeOK, StoreSound, ServeLocal
  <1>8. ASSUME NEW s \in Clients PROVE ClientInv(s)'
    <2>1. /\ asked'[s] = asked[s] /\ executed'[s] = executed[s] /\ call'[s] = call[s]
      BY <1>1, <1>4
    <2>2. QED
      BY <1>1, <2>1, ClientFrame DEF IInv, Held, Closing
  <1>9. SeenOwn(0)'
    <2>1. CASE m.command \notin {GET, META_GET}
      BY <1>6, <2>1 DEF SeenOwn, Returned
    <2>2. CASE m.command \in {GET, META_GET}
      <3> DEFINE meta == m.command = META_GET
                 b == asked'[0]
      <3>1. m.key \in Keys /\ found \in Found(Place(0, meta, m.key))
        BY <2>2 DEF Calls
      <3>2. PICK i \in OldestOf(a, n) .. n : found = NewestOf(a, meta, m.key, i)
        <4>1. meta \in BOOLEAN
          OBVIOUS
        <4> HIDE DEF meta
        <4>2. \E i \in OldestOf(asked[0], Len(executed[0])) .. Len(executed[0]) :
                found = NewestOf(asked[0], meta, m.key, i)
          BY <1>1, <3>1, <4>1, FoundSeen
        <4>3. QED
          BY <1>1, <3>1, <4>2
      <3>3. Len(b) - 1 = n /\ \A j \in 1 .. n : b[j] = a[j]
        BY <1>4, <1>5
      <3> HIDE DEF a, b, n, meta
      <3>4. OldestOf(b, n) = OldestOf(a, n)
        BY <1>5, <3>3, BarriersSame DEF OldestOf
      <3>5. i \in Nat /\ i <= n
        BY <1>5, <3>2, LastBarrierType DEF OldestOf
      <3>6. NewestOf(b, meta, m.key, i) = NewestOf(a, meta, m.key, i)
        <4>1. \A j \in 1 .. i : b[j] = a[j]
          BY <1>5, <3>3, <3>5
        <4>2. QED
          BY <3>5, <4>1, NewestSame
      <3>7. /\ i \in OldestOf(b, Len(b) - 1) .. Len(b) - 1
            /\ found = NewestOf(b, meta, m.key, i)
        BY <3>2, <3>3, <3>4, <3>6
      <3>8. /\ i \in OldestOf(asked'[0], Len(asked'[0]) - 1) .. Len(asked'[0]) - 1
            /\ found = NewestOf(asked'[0], call'[0].command = META_GET, call'[0].key, i)
        BY <1>6, <3>7 DEF b, meta
      <3>9. QED
        BY <1>6, <3>8 DEF SeenOwn, Seen
    <2>3. QED
      BY <2>1, <2>2
  <1>10. ASSUME NEW s \in Ranks PROVE RankInv(s)'
    <2>1. CASE s # 0
      BY <1>1, <1>4, <2>1, RankFrame DEF IInv
    <2>2. CASE s = 0
      <3>1. LatestCall(0)'
        BY <1>1, <1>4, <1>5, <1>6 DEF LatestCall
      <3>2. QED
        BY <1>9, <2>2, <3>1 DEF RankInv
    <2>3. QED
      BY <2>1, <2>2
  <1>11. StoreReflects'
    <2>1. Len(executed'[0]) = Len(executed[0]) + 1 /\ asked'[0][Len(executed[0]) + 1] = m
          /\ \A i \in 1 .. Len(executed[0]) : asked'[0][i] = asked[0][i]
      BY <1>1, <1>4, <1>5
    <2>2. QED
      BY <1>1, <1>4, <2>1, ExecutedReflects
  <1>12. OwnCalls' /\ Ending'
    BY <1>1, <1>4, <1>5 DEF IInv, OwnCalls, Ending
  <1>13. QED
    BY <1>1, <1>4, <1>7, <1>8, <1>10, <1>11, <1>12 DEF IInv

\* LocalWrite keeps the invariant.
LEMMA LocalWriteIInv ==
  ASSUME IInv, OpenInv', NEW c \in Writes, NEW k \in Keys, NEW v \in Values \cup {KV_DUMMY},
         LocalWrite(c, k, v)
  PROVE  IInv'
  <1> DEFINE m == [command |-> c, key |-> k, value |-> v]
  <1>1. m \in Calls /\ m.command = c /\ m.key = k /\ m.value = v
    BY CallTexts DEF IInv
  <1>2. /\ LocalCall(m.command, m.key, m.value)
        /\ Mutate(Mutation(0, m.command, m.key, m.value))
        /\ call' = [call EXCEPT ![0] = Called(m.command, m.key, <<>>, {}, TRUE)]
    BY <1>1 DEF LocalWrite, Began
  <1> HIDE DEF m
  <1>3. 0 \notin draining /\ draining \subseteq Ranks
    <2>1. m.command # WRITE_BARRIER
      BY <1>1, CommandsApart
    <2>2. QED
      BY <1>2, <2>1, TypeParts DEF LocalCall, IInv
  <1>4. StoreDoes(0, m) /\ StoreSound' /\ open' = open /\ draining' = draining
    BY <1>1, <1>2, <1>3, ClientsAreRanks, MutateDoes, MutateKeepsOpen DEF IInv
  <1>5. m.command \notin {GET, META_GET}
    BY <1>1, CommandsApart DEF Requests
  <1>6. << >> \in Texts /\ TRUE \in BOOLEAN
    BY CommandTexts
  <1>7. QED
    BY <1>1, <1>2, <1>4, <1>5, <1>6, LocalCallIInv

\* LocalGet keeps the invariant.
LEMMA LocalGetIInv ==
  ASSUME IInv, OpenInv', NEW c \in {GET, META_GET}, NEW k \in Keys, LocalGet(c, k)
  PROVE  IInv'
  <1> DEFINE m == [command |-> c, key |-> k, value |-> KV_DUMMY]
  <1>1. m \in Calls /\ m.command = c /\ m.key = k /\ m.value = KV_DUMMY
    BY CallTexts DEF IInv, Requests
  <1>2. PICK found \in Found(StoreKey(0, c, k)) :
               call' = [call EXCEPT ![0] = Called(c, k, found, {}, found # NoValue)]
    BY DEF LocalGet
  <1> DEFINE ok == found # NoValue
  <1>3. found \in Found(Place(0, m.command = META_GET, m.key)) /\ found \in Texts
    <2>1. StoreKey(0, c, k) = Place(0, c = META_GET, k)
      BY CommandsApart DEF Place
    <2>2. found \in Found(Place(0, c = META_GET, k))
      BY <1>2, <2>1
    <2>3. (c = META_GET) \in BOOLEAN
      OBVIOUS
    <2>4. found \in Texts
      BY <2>2, <2>3, ClientsAreRanks, FoundSeen DEF IInv
    <2>5. QED
      BY <1>1, <2>2, <2>4
  <1>4. /\ LocalCall(m.command, m.key, m.value) /\ UNCHANGED storeVars
        /\ call' = [call EXCEPT ![0] = Called(m.command, m.key, found, {}, ok)]
    BY <1>1, <1>2 DEF LocalGet
  <1>5. m.command \notin Writes \cup {WRITE_BARRIER}
    BY <1>1, CommandsApart DEF Requests
  <1>6. ok \in BOOLEAN
    OBVIOUS
  <1> HIDE DEF m, ok
  <1>7. StoreDoes(0, m) /\ StoreSound' /\ open' = open /\ draining' = draining
    BY <1>4, <1>5, ReadDoes DEF IInv, storeVars
  <1>8. QED
    BY <1>1, <1>3, <1>4, <1>6, <1>7, LocalCallIInv

\* LocalGetAll keeps the invariant.
LEMMA LocalGetAllIInv ==
  ASSUME IInv, OpenInv', LocalGetAll
  PROVE  IInv'
  <1> DEFINE m == [command |-> META_GET_ALL, key |-> KV_DUMMY, value |-> KV_DUMMY]
  <1>1. m \in Calls /\ m.command = META_GET_ALL /\ m.key = KV_DUMMY /\ m.value = KV_DUMMY
    BY CallTexts DEF IInv, Requests
  <1>2. PICK t : call' = [call EXCEPT ![0] = Called(m.command, m.key, <<>>, t, TRUE)]
    BY <1>1 DEF LocalGetAll
  <1>3. LocalCall(m.command, m.key, m.value) /\ UNCHANGED storeVars
    BY <1>1 DEF LocalGetAll
  <1>4. m.command \notin Writes \cup {WRITE_BARRIER} /\ m.command \notin {GET, META_GET}
    BY <1>1 DEF Writes, PUT, DEL, META_PUT, GET, META_GET, META_GET_ALL, WRITE_BARRIER
  <1>5. << >> \in Texts /\ TRUE \in BOOLEAN
    BY CommandTexts
  <1> HIDE DEF m
  <1>6. StoreDoes(0, m) /\ StoreSound' /\ open' = open /\ draining' = draining
    BY <1>3, <1>4, ReadDoes DEF IInv, storeVars
  <1>7. QED
    BY <1>1, <1>2, <1>3, <1>4, <1>5, <1>6, LocalCallIInv

\* LocalBarrierBegins keeps the invariant.
LEMMA LocalBarrierBeginsIInv ==
  ASSUME IInv, OpenInv', LocalBarrierBegins
  PROVE  IInv'
  <1>1. StoreSound' /\ StoreRests
    BY BarrierBeginsDoes DEF IInv, LocalBarrierBegins
  <1>2. 0 \in Ranks /\ pc[0] # "closed"
    BY ClientsAreRanks DEF LocalBarrierBegins, MayCall
  <1>3. UNCHANGED <<pc, call, asked, executed, toServer, toClient, server, next, buf, eol,
                    open, db, flight, atStart, atEnd>>
        /\ draining' = draining \cup {0}
    BY DEF LocalBarrierBegins, BarrierBegins, channels, serverVars, barriers
  <1>4. TypeOK'
    BY <1>1, <1>2, <1>3 DEF IInv, TypeOK, StoreSound, ServeLocal
  <1>5. Ending'
    BY <1>2, <1>3 DEF IInv, Ending, ServeLocal
  <1>6. QED
    BY <1>1, <1>3, <1>4, <1>5, StoreRestsIInv

\* LocalBarrier keeps the invariant.
LEMMA LocalBarrierIInv ==
  ASSUME IInv, OpenInv', NEW c \in {READ_BARRIER, WRITE_BARRIER}, LocalBarrier(c)
  PROVE  IInv'
  <1> DEFINE m == [command |-> c, key |-> KV_DUMMY, value |-> KV_DUMMY]
  <1>1. m \in Calls /\ m.command = c /\ m.key = KV_DUMMY /\ m.value = KV_DUMMY
    BY CallTexts DEF IInv, Requests
  <1>2. /\ LocalCall(m.command, m.key, m.value)
        /\ IF c = WRITE_BARRIER THEN BarrierReturns(0) ELSE UNCHANGED storeVars
        /\ call' = [call EXCEPT ![0] = Called(m.command, m.key, <<>>, {}, TRUE)]
    BY <1>1 DEF LocalBarrier, Began
  <1>3. m.command \notin Writes /\ m.command \notin {GET, META_GET}
    BY <1>1 DEF Writes, PUT, DEL, META_PUT, GET, META_GET, READ_BARRIER, WRITE_BARRIER
  <1>4. << >> \in Texts /\ TRUE \in BOOLEAN
    BY CommandTexts
  <1> HIDE DEF m
  <1>5. StoreDoes(0, m) /\ StoreSound' /\ open' = open /\ draining' \subseteq draining
    <2>1. CASE c = WRITE_BARRIER
      <3>1. BarrierReturns(0) /\ m.command = WRITE_BARRIER
        BY <1>1, <1>2, <2>1
      <3>2. StoreDoes(0, m) /\ StoreSound'
        BY <3>1, ClientsAreRanks, BarrierReturnsDoes DEF IInv
      <3>3. QED
        BY <3>1, <3>2 DEF BarrierReturns
    <2>2. CASE c # WRITE_BARRIER
      <3>1. UNCHANGED storeVars /\ m.command \notin Writes \cup {WRITE_BARRIER}
        BY <1>1, <1>2, <1>3, <2>2
      <3>2. QED
        BY <3>1, ReadDoes DEF IInv, storeVars
    <2>3. QED
      BY <2>1, <2>2
  <1>6. QED
    BY <1>1, <1>2, <1>3, <1>4, <1>5, LocalCallIInv

\* Calls of rank 0 keep the invariant.
LEMMA OwnCallIInv ==
  ASSUME IInv, OpenInv', OwnCall
  PROVE  IInv'
  <1>1. PUT \in Writes /\ META_PUT \in Writes /\ DEL \in Writes
    BY DEF Writes
  <1>2. CASE \E k \in Keys, v \in Values, c \in Commands[0] \cap {PUT, META_PUT} : LocalWrite(c, k, v)
    BY <1>1, <1>2, LocalWriteIInv
  <1>3. CASE \E k \in Keys : LocalWrite(DEL, k, KV_DUMMY)
    BY <1>1, <1>3, LocalWriteIInv
  <1>4. CASE \E k \in Keys, c \in Commands[0] \cap {GET, META_GET} : LocalGet(c, k)
    BY <1>4, LocalGetIInv
  <1>5. CASE LocalGetAll
    BY <1>5, LocalGetAllIInv
  <1>6. CASE LocalBarrierBegins
    BY <1>6, LocalBarrierBeginsIInv
  <1>7. CASE \E c \in Commands[0] \cap {READ_BARRIER, WRITE_BARRIER} : LocalBarrier(c)
    BY <1>7, LocalBarrierIInv
  <1>8. QED
    BY <1>2, <1>3, <1>4, <1>5, <1>6, <1>7 DEF OwnCall

-----------------------------------------------------------------------------
(***************************************************************************)
(* The theorems.                                                           *)
(***************************************************************************)
LEMMA InitIInv ==
  ASSUME PlainKeys, Init
  PROVE  IInv
  <1> USE DEF Init
  <1>1. 0 \in Ranks /\ 0 \notin Clients /\ Clients \subseteq Ranks
    BY ClientsAreRanks
  <1>2. \A S : <<>> \in Seq(S) /\ Len(<<>>) = 0
    OBVIOUS
  <1>3. << >> \in Texts /\ NoMessage \in Message
    BY CommandTexts DEF NoMessage, Message
  <1>4. <<>> \notin Requests
    BY DEF Requests, GET, META_GET, META_GET_ALL, READ_BARRIER, WRITE_BARRIER
  <1>5. \A r \in Ranks : call[r].command = <<>> /\ call[r].key = <<>> /\ call[r].result = <<>>
                         /\ call[r].ok = TRUE
    BY DEF NoCall
  <1>6. OpenInv
    BY <1>1 DEF OpenInv, StoreOpenWhenUsed, BarrierServed
  <1>7. TypeOK
    <2>1. \A r \in Ranks : /\ call[r].command \in Texts /\ call[r].key \in Texts
                           /\ call[r].result \in Texts /\ call[r].ok \in BOOLEAN
      BY <1>3, <1>5
    <2>2. next \in Nat /\ (ServeLocal => next \in Clients)
      BY SizeAssumption DEF ServeLocal, Clients
    <2>3. /\ asked \in [Ranks -> Seq(Message)] /\ executed \in [Ranks -> Seq(Message)]
          /\ toServer \in [Clients -> Seq(Texts)] /\ toClient \in [Clients -> Seq(Texts)]
          /\ buf \in [Clients -> Message]
          /\ flight \in Seq(Entry) /\ queue \in Seq(Entry) /\ active \in Seq(Entry)
      BY <1>2, <1>3
    <2>4. QED
      BY <2>1, <2>2, <2>3 DEF TypeOK
  <1>8. ASSUME NEW r \in Clients PROVE ClientInv(r)
    <2>1. /\ asked[r] = <<>> /\ executed[r] = <<>> /\ toServer[r] = <<>> /\ toClient[r] = <<>>
          /\ pc[r] = "init" /\ r \notin eol
      BY <1>1
    <2>2. Bit(Held(r)) = 0 /\ Bit(r \in eol) = 0 /\ Bit(Closing(r)) = 0 /\ Bit(pc[r] = "reply") = 0
      BY <2>1 DEF Bit, Held, Closing
    <2>3. \A b, c : Pipe(<<>>, <<>>, <<>>, <<>>, 0, b, 0, 0, 0, c)
      BY <1>2 DEF Pipe, PipeTypes, PipeOrder, PipeReply
    <2>4. ClientPipe(r)
      BY <2>1, <2>2, <2>3 DEF ClientPipe
    <2>5. Answered(r)
      BY <2>1 DEF Answered
    <2>6. QED
      BY <2>4, <2>5 DEF ClientInv
  <1>9. ASSUME NEW r \in Ranks PROVE RankInv(r)
    BY <1>4, <1>5 DEF RankInv, LatestCall, SeenOwn, Returned
  <1>10. OwnCalls
    BY <1>1, <1>2 DEF OwnCalls
  <1>11. Pending = <<>> /\ Contents = {} /\ Range(Pending) = {}
    <2>1. <<>> \in Seq(Entry)
      BY <1>2
    <2>2. <<>> \o <<>> = <<>>
      BY <2>1, ConcatEmptySeq
    <2>3. Pending = <<>>
      BY <2>2 DEF Pending
    <2>4. QED
      BY <2>3, AppliedNothing, RangeGrows DEF Contents
  <1>12. StoreSound
    BY <1>2, FS_EmptySet DEF StoreSound, UniqueKeys
  <1>13. StoreReflects
    <2> SUFFICES ASSUME NEW r \in Ranks, NEW meta \in BOOLEAN, NEW k \in Keys, NEW p,
                        p = Place(r, meta, k)
                 PROVE  Reflects({}, Known(p), asked[r], 0, p, meta, k)
      <3>1. \A r \in Ranks : Len(executed[r]) = 0
        BY <1>2
      <3>2. QED
        BY <1>11, <3>1 DEF StoreReflects
    <2>1. Lookup({}, p) = NoValue
      BY LookupMissing
    <2>2. NewestOf(asked[r], meta, k, 0) = NoValue
      BY DEF NewestOf, MutationsOf
    <2>3. Known(p) = {Lookup({}, p)}
      BY <1>11 DEF Known
    <2>4. QED
      BY <2>1, <2>2, <2>3, ReflectsLast
  <1>14. Ending
    BY <1>1 DEF Ending
  <1>15. DOMAIN call = Ranks
    OBVIOUS
  <1>16. QED
    BY <1>6, <1>7, <1>8, <1>9, <1>10, <1>12, <1>13, <1>14, <1>15 DEF IInv

\* Every step keeps the invariant.
LEMMA NextIInv == IInv /\ [Next]_vars => IInv'
  <1> SUFFICES ASSUME IInv, [Next]_vars PROVE IInv'
    OBVIOUS
  <1>1. OpenInv'
    BY OpenStep DEF IInv
  <1>2. CASE UNCHANGED vars
    <2> USE DEF vars, channels, serverVars, storeVars, memtables, barriers
    <2>1. TypeOK'
      BY <1>2 DEF IInv, TypeOK, ServeLocal
    <2>2. ASSUME NEW s \in Clients PROVE ClientInv(s)'
      BY <1>2, ClientFrame DEF IInv, Held, Closing
    <2>3. ASSUME NEW s \in Ranks PROVE RankInv(s)'
      BY <1>2, RankFrame DEF IInv
    <2>4. StoreSound' /\ StoreReflects'
      BY <1>2, StoreFrame DEF IInv
    <2>5. OwnCalls' /\ Ending' /\ DOMAIN call' = Ranks /\ PlainKeys
      BY <1>2 DEF IInv, OwnCalls, Ending, ServeLocal
    <2>6. QED
      BY <1>1, <2>1, <2>2, <2>3, <2>4, <2>5 DEF IInv
  <1>3. CASE OwnerStep
    BY <1>1, <1>3, ClientsAreRanks, OpenLocalIInv, PassStartIInv, OwnCallIInv, CloseLocalIInv,
       JoinServerIInv, LeaveEndIInv, CloseStoreIInv DEF OwnerStep
  <1>4. CASE ServerStep
    BY <1>1, <1>4, ServerCheckIInv, ServerRecvIInv, ServerEolIInv, ServerBarrierBeginsIInv,
       ServerExecIInv DEF ServerStep
  <1>5. ASSUME NEW r \in Clients, ClientStep(r) PROVE IInv'
    BY <1>1, <1>5, ClientsAreRanks, OpenRemoteIInv, PassStartIInv, RemoteCallIInv, SendReturnsIInv,
       RecvReplyIInv, CloseRemoteIInv, EolSentIInv, PassEndIInv DEF ClientStep
  <1>6. CASE FlushStep
    BY <1>1, <1>6, FlushStepIInv
  <1>7. QED
    BY <1>2, <1>3, <1>4, <1>5, <1>6 DEF Next

\* The inductive invariant of the ranks, the channels, the server and the store
\* holds of every behaviour.
THEOREM CollectiveInvariant == Spec /\ PlainKeys => []IInv
  <1>1. Init /\ PlainKeys => IInv
    BY InitIInv
  <1>2. QED
    BY <1>1, NextIInv, PTL DEF Spec

\* Every variable of the managers and clients keeps its type: above all, what is
\* received is again a command, a key and a value.
THEOREM CollectiveTypeCorrect == Spec /\ PlainKeys => []TypeOK
  <1>1. IInv => TypeOK
    BY DEF IInv
  <1>2. QED
    BY <1>1, CollectiveInvariant, PTL

\* A rank's calls are executed once, in its order and with its keys and values,
\* for any number of ranks, calls and rounds of _waitForCommand.
THEOREM CallsExecutedInOrder == Spec /\ PlainKeys => []ExecutedInOrder
  <1>1. IInv => ExecutedInOrder
    <2> SUFFICES ASSUME IInv, NEW r \in Ranks PROVE IsPrefix(executed[r], asked[r])
      BY DEF ExecutedInOrder
    <2> DEFINE e == executed[r]
               a == asked[r]
    <2>1. e \in Seq(Message) /\ a \in Seq(Message)
      BY TypeParts DEF IInv
    <2>2. Len(e) <= Len(a) /\ \A i \in 1 .. Len(e) : e[i] = a[i]
      <3>1. CASE r = 0
        BY <2>1, <3>1 DEF IInv, OwnCalls
      <3>2. CASE r \in Clients
        BY <3>2, PipeFacts DEF IInv
      <3>3. QED
        BY <3>1, <3>2, ClientsAreRanks
    <2> HIDE DEF e, a
    <2>3. SubSeq(e, 1, Len(e)) = SubSeq(a, 1, Len(e))
      BY <2>1, <2>2
    <2>4. QED
      BY <2>2, <2>3 DEF IsPrefix, e, a
  <1>2. QED
    BY <1>1, CollectiveInvariant, PTL

\* recvCommand finds the answer to the call its rank is in, and no other message.
THEOREM RepliesAreAwaited == Spec /\ PlainKeys => []RepliesAwaited
  <1>1. IInv => RepliesAwaited
    <2> SUFFICES ASSUME IInv, NEW r \in Clients, toClient[r] # <<>>
                 PROVE  /\ pc[r] = "reply" /\ Len(toClient[r]) = 1
                        /\ DeSerializeCmd(Head(toClient[r])).command = Back(call[r].command)
      BY DEF RepliesAwaited
    <2> DEFINE a == asked[r]
               in == toClient[r]
               c == call[r].command
               h == Bit(Held(r))
               end == Bit(r \in eol)
               cl == Bit(Closing(r))
    <2>1. Pipe(a, executed[r], toServer[r], in, h, buf[r], end, cl, Bit(pc[r] = "reply"), c)
      BY DEF IInv, ClientInv, ClientPipe
    <2>2. Bit(pc[r] = "reply") = 1 /\ Len(in) = 1
      BY <2>1 DEF Pipe, PipeReply
    <2>3. pc[r] = "reply"
      BY <2>2 DEF Bit
    <2>4. in # <<>> /\ Pipe(a, executed[r], toServer[r], in, h, buf[r], end, cl, 1, c)
      BY <2>1, <2>2
    <2> HIDE DEF a, in, c, h, end, cl
    <2>5. /\ Pipe(a, executed[r], toServer[r], Tail(in), h, buf[r], end, cl, 0, c)
          /\ Len(executed[r]) = Len(a) /\ Len(a) > 0 /\ a[Len(a)].command = c /\ c \in Requests
          /\ \E v \in Texts :
               /\ in[1] = SerializeCmd(Back(c), a[Len(a)].key, v) /\ Head(in) = in[1]
               /\ DeSerializeCmd(Head(in))
                    = [command |-> Back(c), key |-> a[Len(a)].key, value |-> v]
      BY <2>4, PipeReturn
    <2>6. DeSerializeCmd(Head(in)).command = Back(c)
      BY <2>5
    <2>7. QED
      BY <2>2, <2>3, <2>6 DEF in, c
  <1>2. QED
    BY <1>1, CollectiveInvariant, PTL

\* A get of any rank returns a value that rank itself has given the key since its last
\* write barrier, however the memtables stand in LSMIOStoreNative, and the last one
\* in LSMIOStoreRDB.
THEOREM GetsSeeOwn == Spec /\ PlainKeys => []GetSeesOwn
  <1>1. IInv => GetSeesOwn
    <2> SUFFICES ASSUME IInv, NEW r \in Ranks, Returned(r, {GET, META_GET})
                 PROVE  LET n == Len(asked[r]) - 1
                            meta == call[r].command = META_GET
                        IN  call[r].result \in
                              {Newest(r, meta, call[r].key, i) :
                                 i \in Oldest(r, n) .. n}
      BY DEF GetSeesOwn
    <2>1. Seen(r, call[r].result)
      BY DEF IInv, RankInv, SeenOwn
    <2>2. \A meta, key, n : Newest(r, meta, key, n) = NewestOf(asked[r], meta, key, n)
      BY NewestIs
    <2>3. \A n : LastBarrier(r, n) = Max(BarriersOf(asked[r], n))
      BY LastBarrierIs
    <2>4. QED
      BY <2>1, <2>2, <2>3 DEF Seen, Oldest, OldestOf
  <1>2. QED
    BY <1>1, CollectiveInvariant, PTL

\* When writeBarrier returns on a rank, all it wrote before is in the store's files
\* and none of it in a memtable, whatever the other ranks have sent meanwhile.
THEOREM WriteBarriersCover == Spec /\ PlainKeys => []WriteBarrierCovers
  <1>1. IInv => WriteBarrierCovers
    <2> SUFFICES ASSUME IInv, NEW r \in Ranks, Returned(r, {WRITE_BARRIER}), NEW k \in Keys,
                        NEW meta \in BOOLEAN
                 PROVE  Lookup(db, Place(r, meta, k)) = Newest(r, meta, k, Len(asked[r]))
      <3>1. \A r, k : /\ StoreKey(r, GET, k) = Place(r, FALSE, k)
                      /\ StoreKey(r, META_GET, k) = Place(r, TRUE, k)
        BY DEF Place
      <3>2. QED
        BY <3>1 DEF WriteBarrierCovers
    <2> DEFINE n == Len(asked[r])
    <2>1. call[r].command = WRITE_BARRIER /\ WRITE_BARRIER \in Requests /\ pc[r] = "idle"
      BY DEF Returned, Requests
    <2>2. n > 0 /\ asked[r][n].command = WRITE_BARRIER /\ Len(executed[r]) = n /\ n \in Nat
      BY <2>1, TypeParts DEF IInv, RankInv, LatestCall
    <2>3. Max(BarriersOf(asked[r], n)) = n
      <3> DEFINE j == n - 1
      <3>1. j \in Nat /\ n = j + 1
        BY <2>2
      <3> HIDE DEF n, j
      <3>2. Max(BarriersOf(asked[r], j + 1)) = j + 1
        BY <2>2, <3>1, LastBarrierNext
      <3>3. QED
        BY <3>1, <3>2
    <2>4. Reflects(Contents, Known(Place(r, meta, k)), asked[r], n, Place(r, meta, k), meta, k)
      BY <2>2 DEF IInv, StoreReflects
    <2>5. Lookup(db, Place(r, meta, k)) = NewestOf(asked[r], meta, k, n)
      <3>1. PICK i \in n .. n : Lookup(db, Place(r, meta, k)) = NewestOf(asked[r], meta, k, i)
        BY <2>3, <2>4 DEF Reflects, Known
      <3>2. i = n
        BY <2>2
      <3>3. QED
        BY <3>1, <3>2
    <2>6. QED
      BY <2>5, NewestIs
  <1>2. QED
    BY <1>1, CollectiveInvariant, PTL

\* When close() has closed the store, no call of any rank is missing from its files.
THEOREM ClosedStoreComplete == Spec /\ PlainKeys => []ClosedComplete
  <1>1. IInv => ClosedComplete
    <2> SUFFICES ASSUME IInv, pc[0] = "closed"
                 PROVE  /\ executed = asked
                        /\ \A r \in Ranks, k \in Keys :
                             Lookup(db, StoreKey(r, GET, k)) = Newest(r, FALSE, k, Len(asked[r]))
      BY DEF ClosedComplete
    <2>1. ASSUME NEW r \in Ranks PROVE executed[r] = asked[r]
      <3>1. CASE r = 0
        BY <3>1 DEF IInv, OwnCalls
      <3>2. CASE r \in Clients
        <4>1. r \in eol
          BY <3>2, ClientsAreRanks DEF IInv, Ending
        <4>2. PipeOrder(asked[r], executed[r], toServer[r], Bit(Held(r)), buf[r], 1, Bit(Closing(r)))
          BY <3>2, <4>1 DEF IInv, ClientInv, ClientPipe, Pipe, Bit
        <4>3. Len(executed[r]) = Len(asked[r])
          BY <4>2 DEF PipeOrder
        <4>4. executed[r] \in Seq(Message) /\ asked[r] \in Seq(Message)
              /\ \A i \in 1 .. Len(executed[r]) : executed[r][i] = asked[r][i]
          BY <3>2, PipeFacts, TypeParts DEF IInv
        <4>5. QED
          BY <4>3, <4>4, SeqEqual
      <3>3. QED
        BY <3>1, <3>2, ClientsAreRanks
    <2>2. executed = asked
      BY <2>1, TypeParts DEF IInv
    <2>3. Contents = db
      <3>1. flight = <<>> /\ queue = <<>> /\ active = <<>> /\ <<>> \in Seq(Entry)
        BY DEF IInv, Ending, StoreSound
      <3>2. <<>> \o <<>> = <<>>
        BY <3>1, ConcatEmptySeq
      <3>3. Pending = <<>>
        BY <3>1, <3>2 DEF Pending
      <3>4. QED
        BY <3>3, AppliedNothing DEF Contents
    <2>4. ASSUME NEW r \in Ranks, NEW k \in Keys
          PROVE  Lookup(db, StoreKey(r, GET, k)) = Newest(r, FALSE, k, Len(asked[r]))
      <3>1. Lookup(Contents, Place(r, FALSE, k)) = NewestOf(asked[r], FALSE, k, Len(executed[r]))
        BY DEF IInv, StoreReflects, Reflects
      <3>2. StoreKey(r, GET, k) = Place(r, FALSE, k)
        BY DEF Place
      <3>3. QED
        BY <2>2, <2>3, <3>1, <3>2, NewestIs
    <2>5. QED
      BY <2>2, <2>4
  <1>2. QED
    BY <1>1, CollectiveInvariant, PTL

-----------------------------------------------------------------------------
(***************************************************************************)
(* Tuples survive vectorTupleSerialize and vectorTupleDeserialize, when    *)
(* their keys contain neither separator and their values no line end.      *)
(***************************************************************************)
Without(text, token) == \A i \in 1 .. Len(text) : text[i] # token
PlainTuple(t) ==
  Without(t.key, TupleSeparator) /\ Without(t.key, LineEnd) /\ Without(t.value, LineEnd)
LineOf(t) == t.key \o <<TupleSeparator>> \o t.value

\* A line of a text lies between two ends: one after the other, with none between.
Stop(text, i) == i = 0 \/ i = Len(text) + 1 \/ text[i] = LineEnd
Between(text, p, q) ==
  /\ p \in 0 .. Len(text) + 1 /\ q \in 0 .. Len(text) + 1 /\ p < q
  /\ Stop(text, p) /\ Stop(text, q)
  /\ \A e \in p + 1 .. q - 1 : text[e] # LineEnd

\* The lines of a text are what is between its ends.
LEMMA LinesAre ==
  ASSUME NEW text \in Texts, NEW x
  PROVE  x \in Lines(text) <=>
           x # <<>> /\ \E p, q \in 0 .. Len(text) + 1 :
                          Between(text, p, q) /\ x = SubSeq(text, p + 1, q - 1)
  <1> DEFINE n == Len(text)
             ends == {0, n + 1} \cup {i \in 1 .. n : text[i] = LineEnd}
  <1>1. n \in Nat
    BY DEF Texts
  <1>2. \A e : e \in ends <=> e \in 0 .. n + 1 /\ Stop(text, e)
    BY <1>1 DEF Stop
  <1>3. x \in Lines(text) <=>
          x # <<>> /\ \E p, q \in ends : /\ p < q /\ \A e \in ends : e <= p \/ q <= e
                                         /\ x = SubSeq(text, p + 1, q - 1)
    <2> DEFINE pairs == {q \in ends \X ends :
                           /\ q[1] < q[2] /\ \A e \in ends : e <= q[1] \/ q[2] <= e}
    <2>1. x \in Lines(text) <=> x # <<>> /\ \E p \in pairs : x = SubSeq(text, p[1] + 1, p[2] - 1)
      BY DEF Lines
    <2> HIDE DEF ends
    <2>2. \A p, q : <<p, q>> \in pairs <=>
                      p \in ends /\ q \in ends /\ p < q /\ \A e \in ends : e <= p \/ q <= e
      OBVIOUS
    <2>3. \A z \in pairs : z = <<z[1], z[2]>>
      OBVIOUS
    <2>4. ASSUME NEW z \in pairs, x = SubSeq(text, z[1] + 1, z[2] - 1)
          PROVE  \E p, q \in ends : /\ p < q /\ \A e \in ends : e <= p \/ q <= e
                                    /\ x = SubSeq(text, p + 1, q - 1)
      BY <2>4
    <2>5. ASSUME NEW p \in ends, NEW q \in ends, p < q, \A e \in ends : e <= p \/ q <= e,
                 x = SubSeq(text, p + 1, q - 1)
          PROVE  \E z \in pairs : x = SubSeq(text, z[1] + 1, z[2] - 1)
      <3>1. <<p, q>> \in pairs /\ <<p, q>>[1] = p /\ <<p, q>>[2] = q
        BY <2>2, <2>5
      <3> HIDE DEF pairs
      <3>2. QED
        BY <2>5, <3>1
    <2> HIDE DEF pairs
    <2>6. QED
      BY <2>1, <2>4, <2>5
  <1> HIDE DEF ends
  <1>4. ASSUME NEW p \in 0 .. n + 1, NEW q \in 0 .. n + 1, p < q
        PROVE  (\A e \in ends : e <= p \/ q <= e) <=> \A e \in p + 1 .. q - 1 : text[e] # LineEnd
    <2>1. \A e \in p + 1 .. q - 1 : e \in 1 .. n /\ ~(e <= p) /\ ~(q <= e)
      BY <1>1, <1>4
    <2>2. \A e \in 0 .. n + 1 : e <= p \/ q <= e \/ e \in p + 1 .. q - 1
      BY <1>1
    <2>3. \A e \in p + 1 .. q - 1 : e \in ends <=> text[e] = LineEnd
      BY <1>1, <1>2, <2>1 DEF Stop
    <2>4. ASSUME \A e \in ends : e <= p \/ q <= e, NEW e \in p + 1 .. q - 1
          PROVE  text[e] # LineEnd
      BY <2>1, <2>3, <2>4
    <2>5. ASSUME \A e \in p + 1 .. q - 1 : text[e] # LineEnd, NEW e \in ends
          PROVE  e <= p \/ q <= e
      BY <1>2, <2>2, <2>3, <2>5
    <2>6. QED
      BY <2>4, <2>5
  <1>5. \A p, q : p \in ends /\ q \in ends /\ p < q /\ (\A e \in ends : e <= p \/ q <= e)
                    <=> p \in 0 .. n + 1 /\ q \in 0 .. n + 1 /\ Between(text, p, q)
    BY <1>2, <1>4 DEF Between
  <1>6. QED
    BY <1>3, <1>5

\* One line more, which is all that is behind the text.
LEMMA LinesAdded ==
  ASSUME NEW text \in Texts, text = <<>> \/ text[Len(text)] = LineEnd,
         NEW line \in Texts, line # <<>>, Without(line, LineEnd), NEW more \in Texts,
         Len(more) = Len(text) + Len(line) + 1,
         \A i \in 1 .. Len(text) : more[i] = text[i],
         \A i \in 1 .. Len(line) : more[Len(text) + i] = line[i],
         more[Len(text) + Len(line) + 1] = LineEnd
  PROVE  Lines(more) = Lines(text) \cup {line}
  <1> DEFINE n == Len(text)
             k == Len(line)
  <1>1. /\ n \in Nat /\ k \in Nat /\ k # 0 /\ (n = 0 <=> text = <<>>)
        /\ text \in Seq(Token) /\ line \in Seq(Token)
    <2>1. \A s \in Seq(Token) : Len(s) \in Nat /\ (Len(s) = 0 <=> s = <<>>)
      BY EmptySeq
    <2>2. QED
      BY <2>1 DEF Texts
  <1>2. /\ more \in Seq(Token) /\ Len(more) = n + k + 1
        /\ \A i \in 1 .. n : more[i] = text[i]
        /\ \A i \in 1 .. k : more[n + i] = line[i]
        /\ more[n + k + 1] = LineEnd
    BY DEF Texts
  <1>3. more \in Texts
    OBVIOUS
  <1>4. ASSUME NEW i \in n + 1 .. n + k PROVE more[i] # LineEnd
    <2>1. PICK j \in 1 .. k : i = n + j
      <3>1. i - n \in 1 .. k /\ i = n + (i - n)
        BY <1>1
      <3>2. QED
        BY <3>1
    <2>2. QED
      BY <1>2, <2>1 DEF Without
  <1>5. n # 0 => text[n] = LineEnd
    BY <1>1
  <1> HIDE DEF n, k
  <1>6. ASSUME NEW p \in 0 .. n, NEW q \in 0 .. n
        PROVE  Between(more, p, q) <=> Between(text, p, q)
    <2>1. Len(text) = n /\ Len(more) = n + k + 1
      BY <1>2 DEF n
    <2>2. \A i \in 0 .. n : Stop(more, i) <=> Stop(text, i)
      BY <1>1, <1>2, <2>1 DEF Stop
    <2>3. \A e \in p + 1 .. q - 1 : more[e] = text[e]
      BY <1>1, <1>2
    <2>4. p \in 0 .. n + 1 /\ q \in 0 .. n + 1 /\ p \in 0 .. n + k + 1 + 1 /\ q \in 0 .. n + k + 1 + 1
      BY <1>1
    <2>5. QED
      BY <2>1, <2>2, <2>3, <2>4 DEF Between
  <1>7. ASSUME NEW p \in 0 .. n, NEW q \in 0 .. n
        PROVE  SubSeq(more, p + 1, q - 1) = SubSeq(text, p + 1, q - 1)
    <2>1. CASE p + 1 <= q - 1
      <3> DEFINE part == SubSeq(text, p + 1, q - 1)
                 a == p
      <3>1. /\ part \in Seq(Token) /\ Len(part) = q - 1 - p
            /\ \A i \in 1 .. q - 1 - p : part[i] = text[p + i]
        <4>1. /\ p + 1 \in Int /\ q - 1 \in Int
              /\ \A i \in p + 1 .. q - 1 : text[i] \in Token
          BY <1>1 DEF n
        <4>2. /\ part \in Seq(Token)
              /\ Len(part) = IF p + 1 <= q - 1 THEN (q - 1) - (p + 1) + 1 ELSE 0
              /\ \A i \in 1 .. (q - 1) - (p + 1) + 1 : part[i] = text[(p + 1) + i - 1]
          BY <4>1, SubSeqProperties
        <4> HIDE DEF part
        <4>3. (q - 1) - (p + 1) + 1 = q - 1 - p /\ \A i \in 1 .. q - 1 - p : (p + 1) + i - 1 = p + i
          BY <1>1
        <4>4. QED
          BY <2>1, <4>2, <4>3
      <3> HIDE DEF part
      <3>2. p \in Nat /\ p + Len(part) <= Len(more) /\ p + Len(part) = q - 1
        BY <1>1, <1>2, <2>1, <3>1
      <3>3. \A i \in 1 .. Len(part) : more[p + i] = part[i]
        <4> TAKE i \in 1 .. Len(part)
        <4>1. p + i \in 1 .. n /\ i \in 1 .. q - 1 - p
          BY <1>1, <2>1, <3>1
        <4>2. QED
          BY <1>2, <3>1, <4>1
      <3>4. SubSeq(more, p + 1, p + Len(part)) = part
        BY <1>2, <3>1, <3>2, <3>3, Cut
      <3>5. QED
        BY <3>2, <3>4 DEF part
    <2>2. CASE ~(p + 1 <= q - 1)
      <3>1. p + 1 \in Int /\ q - 1 \in Int
        BY <1>1
      <3>2. \A s \in Seq(Token), a, b \in Int : ~(a <= b) => SubSeq(s, a, b) = <<>>
        BY SubSeqEmpty
      <3>3. QED
        BY <1>1, <1>2, <2>2, <3>1, <3>2
    <2>3. QED
      BY <2>1, <2>2
  <1>8. SubSeq(more, n + 1, n + k) = line
    BY <1>1, <1>2, Cut DEF k
  <1>9. Between(more, n, n + k + 1)
    <2>1. Stop(more, n)
      <3>1. CASE n = 0
        BY <3>1 DEF Stop
      <3>2. CASE n # 0
        <4>1. n \in 1 .. n
          BY <1>1, <3>2
        <4>2. QED
          BY <1>2, <1>5, <3>2, <4>1 DEF Stop
      <3>3. QED
        BY <3>1, <3>2
    <2>2. Stop(more, n + k + 1)
      BY <1>2 DEF Stop
    <2> DEFINE q == n + k + 1
    <2>3. q - 1 = n + k
      BY <1>1
    <2>4. n \in 0 .. Len(more) + 1 /\ q \in 0 .. Len(more) + 1 /\ n < q
      BY <1>1, <1>2
    <2>5. Stop(more, q)
      BY <2>2
    <2> HIDE DEF q
    <2>6. \A e \in n + 1 .. q - 1 : more[e] # LineEnd
      BY <1>4, <2>3
    <2>7. Between(more, n, q)
      BY <2>1, <2>4, <2>5, <2>6 DEF Between
    <2>8. QED
      BY <2>7 DEF q
  <1>10. ASSUME NEW p \in 0 .. Len(more) + 1, NEW q \in 0 .. Len(more) + 1, Between(more, p, q),
                SubSeq(more, p + 1, q - 1) # <<>>
         PROVE  (p \in 0 .. n /\ q \in 0 .. n) \/ (p = n /\ q = n + k + 1)
    <2>1. p < q /\ Stop(more, p) /\ Stop(more, q) /\ Len(more) = n + k + 1
          /\ \A e \in p + 1 .. q - 1 : more[e] # LineEnd
      BY <1>2, <1>10 DEF Between
    <2>2. p + 1 <= q - 1
      <3>1. p + 1 \in Int /\ q - 1 \in Int
        BY <1>1, <1>2
      <3>2. \A s \in Seq(Token), a, b \in Int : ~(a <= b) => SubSeq(s, a, b) = <<>>
        BY SubSeqEmpty
      <3>3. QED
        BY <1>2, <1>10, <3>1, <3>2
    <2>3. CASE p < n
      <3>1. ~(q > n)
        <4> SUFFICES ASSUME q > n PROVE FALSE
          OBVIOUS
        <4>1. n # 0 /\ n \in p + 1 .. q - 1 /\ n \in 1 .. n
          BY <1>1, <1>2, <2>3
        <4>2. QED
          BY <1>2, <1>5, <2>1, <4>1
      <3>2. QED
        BY <1>1, <1>2, <2>3, <3>1
    <2>4. CASE p = n
      <3>1. ~(q > n + k + 1)
        <4> SUFFICES ASSUME q > n + k + 1 PROVE FALSE
          OBVIOUS
        <4>1. n + k + 1 \in p + 1 .. q - 1
          BY <1>1, <1>2, <2>4
        <4>2. QED
          BY <1>2, <2>1, <4>1
      <3>2. ~(q \in n + 1 .. n + k)
        <4> SUFFICES ASSUME q \in n + 1 .. n + k PROVE FALSE
          OBVIOUS
        <4>1. q # 0 /\ q # Len(more) + 1
          BY <1>1, <1>2
        <4>2. QED
          BY <1>4, <2>1, <4>1 DEF Stop
      <3>3. QED
        BY <1>1, <1>2, <2>1, <2>4, <3>1, <3>2
    <2>5. CASE p > n
      <3>1. ~(p \in n + 1 .. n + k)
        <4> SUFFICES ASSUME p \in n + 1 .. n + k PROVE FALSE
          OBVIOUS
        <4>1. p # 0 /\ p # Len(more) + 1
          BY <1>1, <1>2
        <4>2. QED
          BY <1>4, <2>1, <4>1 DEF Stop
      <3>2. QED
        BY <1>1, <1>2, <2>1, <2>2, <2>5, <3>1
    <2>6. QED
      BY <1>1, <1>2, <2>3, <2>4, <2>5
  <1>11. ASSUME NEW p \in 0 .. n + 1, NEW q \in 0 .. n + 1, Between(text, p, q),
                SubSeq(text, p + 1, q - 1) # <<>>
         PROVE  p \in 0 .. n /\ q \in 0 .. n
    <2>1. p < q /\ \A e \in p + 1 .. q - 1 : text[e] # LineEnd
      BY <1>11 DEF Between
    <2>2. p + 1 <= q - 1
      <3>1. p + 1 \in Int /\ q - 1 \in Int
        BY <1>1
      <3>2. \A s \in Seq(Token), a, b \in Int : ~(a <= b) => SubSeq(s, a, b) = <<>>
        BY SubSeqEmpty
      <3>3. QED
        BY <1>1, <1>11, <3>1, <3>2
    <2>3. q # n + 1
      <3> SUFFICES ASSUME q = n + 1 PROVE FALSE
        OBVIOUS
      <3>1. n # 0 /\ n \in p + 1 .. q - 1
        BY <1>1, <2>2
      <3>2. QED
        BY <1>5, <2>1, <3>1
    <2>4. QED
      BY <1>1, <2>1, <2>3
  <1>12. ASSUME NEW x PROVE x \in Lines(more) <=> x \in Lines(text) \cup {line}
    <2>1. x \in Lines(more) <=>
            x # <<>> /\ \E p, q \in 0 .. Len(more) + 1 :
                           Between(more, p, q) /\ x = SubSeq(more, p + 1, q - 1)
      <3>1. PICK t \in Texts : t = more
        BY <1>3
      <3>2. x \in Lines(t) <=>
              x # <<>> /\ \E p, q \in 0 .. Len(t) + 1 :
                             Between(t, p, q) /\ x = SubSeq(t, p + 1, q - 1)
        BY LinesAre
      <3>3. QED
        BY <3>1, <3>2
    <2>2. x \in Lines(text) <=>
            x # <<>> /\ \E p, q \in 0 .. n + 1 :
                           Between(text, p, q) /\ x = SubSeq(text, p + 1, q - 1)
      BY LinesAre DEF n
    <2>3. ASSUME x \in Lines(more) PROVE x \in Lines(text) \/ x = line
      <3>1. PICK p \in 0 .. Len(more) + 1, q \in 0 .. Len(more) + 1 :
              Between(more, p, q) /\ x = SubSeq(more, p + 1, q - 1) /\ x # <<>>
        BY <2>1, <2>3
      <3>2. CASE p \in 0 .. n /\ q \in 0 .. n
        <4>1. Between(text, p, q) /\ x = SubSeq(text, p + 1, q - 1)
          BY <1>6, <1>7, <3>1, <3>2
        <4>2. p \in 0 .. n + 1 /\ q \in 0 .. n + 1
          BY <1>1, <3>2
        <4>3. QED
          BY <2>2, <3>1, <4>1, <4>2
      <3>3. CASE p = n /\ q = n + k + 1
        <4>1. q - 1 = n + k
          BY <1>1, <3>3
        <4>2. QED
          BY <1>8, <3>1, <3>3, <4>1
      <3>4. QED
        BY <1>10, <3>1, <3>2, <3>3
    <2>4. ASSUME x \in Lines(text) PROVE x \in Lines(more)
      <3>1. PICK p \in 0 .. n + 1, q \in 0 .. n + 1 :
              Between(text, p, q) /\ x = SubSeq(text, p + 1, q - 1) /\ x # <<>>
        BY <2>2, <2>4
      <3>2. p \in 0 .. n /\ q \in 0 .. n
        BY <1>11, <3>1
      <3>3. Between(more, p, q) /\ x = SubSeq(more, p + 1, q - 1)
        BY <1>6, <1>7, <3>1, <3>2
      <3>4. p \in 0 .. Len(more) + 1 /\ q \in 0 .. Len(more) + 1
        BY <1>1, <1>2, <3>2
      <3>5. QED
        BY <2>1, <3>1, <3>3, <3>4
    <2>5. ASSUME x = line PROVE x \in Lines(more)
      <3> DEFINE q == n + k + 1
      <3>1. n \in 0 .. Len(more) + 1 /\ q \in 0 .. Len(more) + 1 /\ q - 1 = n + k
        BY <1>1, <1>2
      <3>2. Between(more, n, q)
        BY <1>9
      <3> HIDE DEF q
      <3>3. x = SubSeq(more, n + 1, q - 1)
        BY <1>8, <2>5, <3>1
      <3>4. QED
        BY <2>1, <2>5, <3>1, <3>2, <3>3
    <2>6. QED
      BY <2>3, <2>4, <2>5
  <1>13. QED
    BY <1>12

\* One line more.
LEMMA LinesGrow ==
  ASSUME NEW text \in Texts, text = <<>> \/ text[Len(text)] = LineEnd,
         NEW line \in Texts, line # <<>>, Without(line, LineEnd)
  PROVE  LET more == text \o (line \o <<LineEnd>>)
         IN  /\ more \in Texts /\ more # <<>> /\ more[Len(more)] = LineEnd
             /\ Lines(more) = Lines(text) \cup {line}
  <1> DEFINE n == Len(text)
             k == Len(line)
             tail == line \o <<LineEnd>>
             more == text \o tail
  <1>1. n \in Nat /\ k \in Nat /\ text \in Seq(Token) /\ line \in Seq(Token) /\ LineEnd \in Token
    BY TokenAssumption DEF Texts
  <1>2. tail \in Seq(Token) /\ Len(tail) = k + 1 /\ tail[k + 1] = LineEnd
        /\ \A i \in 1 .. k : tail[i] = line[i]
    BY <1>1
  <1> HIDE DEF tail
  <1>3. /\ more \in Seq(Token) /\ Len(more) = n + Len(tail)
        /\ \A i \in 1 .. n : more[i] = text[i]
        /\ \A i \in 1 .. Len(tail) : more[n + i] = tail[i]
    BY <1>1, <1>2
  <1> HIDE DEF more, n, k
  <1>4. k + 1 \in 1 .. Len(tail) /\ n + (k + 1) = n + k + 1 /\ \A i \in 1 .. k : i \in 1 .. Len(tail)
    BY <1>1, <1>2
  <1>5. /\ Len(more) = n + k + 1 /\ more[n + k + 1] = LineEnd
        /\ \A i \in 1 .. k : more[n + i] = line[i]
    BY <1>1, <1>2, <1>3, <1>4
  <1>6. more \in Texts /\ more # <<>>
    <2>1. Len(<<>>) = 0
      OBVIOUS
    <2>2. Len(more) # 0
      BY <1>1, <1>5
    <2>3. QED
      BY <1>3, <2>1, <2>2 DEF Texts
  <1>7. Lines(more) = Lines(text) \cup {line}
    BY <1>3, <1>5, <1>6, LinesAdded DEF n, k
  <1>8. more[Len(more)] = LineEnd
    BY <1>5
  <1>9. QED
    BY <1>6, <1>7, <1>8 DEF more, tail

\* The line of a tuple is a text without line ends, and is read as the tuple.
LEMMA LineBack ==
  ASSUME NEW t \in Entry, PlainTuple(t)
  PROVE  /\ LineOf(t) \in Texts /\ LineOf(t) # <<>> /\ Without(LineOf(t), LineEnd)
         /\ \E i \in 1 .. Len(LineOf(t)) : LineOf(t)[i] = TupleSeparator
         /\ TupleOfLine(LineOf(t)) = t
  <1> DEFINE k == t.key
             v == t.value
             line == LineOf(t)
             d == Len(k) + 1
  <1>1. /\ k \in Seq(Token) /\ v \in Seq(Token) /\ t = [key |-> k, value |-> v]
        /\ Len(k) \in Nat /\ Len(v) \in Nat /\ TupleSeparator \in Token
        /\ Without(k, TupleSeparator) /\ Without(k, LineEnd) /\ Without(v, LineEnd)
    BY TokenAssumption DEF Entry, Texts, PlainTuple
  <1> HIDE DEF k, v
  <1>2. /\ line \in Seq(Token) /\ Len(line) = Len(k) + 1 + Len(v)
        /\ \A i \in 1 .. Len(k) : line[i] = k[i]
        /\ line[Len(k) + 1] = TupleSeparator
        /\ \A i \in 1 .. Len(v) : line[Len(k) + 1 + i] = v[i]
    <2>1. line = k \o <<TupleSeparator>> \o v
      BY DEF LineOf, k, v
    <2> HIDE DEF line
    <2>2. QED
      BY <1>1, <2>1
  <1>3. d \in Nat /\ d \in 1 .. Len(line) /\ d - 1 = Len(k) /\ d + Len(v) = Len(line) /\ line[d] = TupleSeparator
    BY <1>1, <1>2
  <1> HIDE DEF line, d
  <1>4. ASSUME NEW i \in 1 .. Len(line)
        PROVE  \/ i \in 1 .. Len(k) \/ i = d \/ \E j \in 1 .. Len(v) : i = d + j
    <2>1. i > d => i - d \in 1 .. Len(v) /\ i = d + (i - d)
      BY <1>1, <1>3
    <2>2. i < d => i \in 1 .. Len(k)
      BY <1>1, <1>3
    <2>3. i < d \/ i = d \/ i > d
      BY <1>3
    <2>4. QED
      BY <2>1, <2>2, <2>3
  <1>5. Len(k) + 1 = d
    BY <1>1, <1>3
  <1>6. Without(line, LineEnd)
    <2> SUFFICES ASSUME NEW i \in 1 .. Len(line) PROVE line[i] # LineEnd
      BY DEF Without
    <2>1. TupleSeparator # LineEnd
      BY DEF TupleSeparator, LineEnd
    <2>2. CASE i \in 1 .. Len(k)
      BY <1>1, <1>2, <2>2 DEF Without
    <2>3. CASE i = d
      BY <1>3, <2>1, <2>3
    <2>4. ASSUME NEW j \in 1 .. Len(v), i = d + j PROVE line[i] # LineEnd
      BY <1>1, <1>2, <1>5, <2>4 DEF Without
    <2>5. QED
      BY <1>4, <2>2, <2>3, <2>4
  <1>7. (CHOOSE i \in 1 .. Len(line) : /\ line[i] = TupleSeparator
                                       /\ \A j \in 1 .. i - 1 : line[j] # TupleSeparator) = d
    <2> DEFINE Splits(i) == /\ line[i] = TupleSeparator
                            /\ \A j \in 1 .. i - 1 : line[j] # TupleSeparator
    <2>1. \A j \in 1 .. Len(k) : line[j] # TupleSeparator
      BY <1>1, <1>2 DEF Without
    <2>2. Splits(d)
      BY <1>3, <2>1
    <2>3. ASSUME NEW i \in 1 .. Len(line), Splits(i), i # d PROVE FALSE
      <3>1. CASE i < d
        <4>1. i \in 1 .. Len(k)
          BY <1>1, <1>3, <3>1
        <4>2. QED
          BY <2>1, <2>3, <4>1
      <3>2. CASE d < i
        <4>1. d \in 1 .. i - 1
          BY <1>3, <3>2
        <4>2. QED
          BY <1>3, <2>3, <4>1
      <3>3. QED
        BY <1>3, <2>3, <3>1, <3>2
    <2> HIDE DEF Splits
    <2>4. (CHOOSE i \in 1 .. Len(line) : Splits(i)) = d
      BY <1>3, <2>2, <2>3
    <2>5. QED
      BY <2>4 DEF Splits
  <1>8. TupleOfLine(line) = [key |-> SubSeq(line, 1, d - 1), value |-> SubSeq(line, d + 1, Len(line))]
    BY <1>7 DEF TupleOfLine
  <1>9. SubSeq(line, 1, d - 1) = k
    <2>1. SubSeq(line, 0 + 1, 0 + Len(k)) = k
      <3>1. 0 \in Nat /\ 0 + Len(k) <= Len(line) /\ \A i \in 1 .. Len(k) : line[0 + i] = k[i]
        BY <1>1, <1>2
      <3>2. QED
        BY <1>1, <1>2, <3>1, Cut
    <2>2. 0 + 1 = 1 /\ 0 + Len(k) = d - 1
      BY <1>1, <1>3
    <2>3. QED
      BY <2>1, <2>2
  <1>10. SubSeq(line, d + 1, Len(line)) = v
    <2>1. d + Len(v) <= Len(line) /\ \A i \in 1 .. Len(v) : line[d + i] = v[i]
      BY <1>1, <1>2, <1>3, <1>5
    <2>2. SubSeq(line, d + 1, d + Len(v)) = v
      BY <1>1, <1>2, <1>3, <2>1, Cut
    <2>3. QED
      BY <1>3, <2>2
  <1>11. line # <<>> /\ line \in Texts
    <2>1. Len(<<>>) = 0
      OBVIOUS
    <2>2. Len(line) # 0
      BY <1>1, <1>2
    <2>3. QED
      BY <1>2, <2>1, <2>2 DEF Texts
  <1>12. QED
    BY <1>1, <1>3, <1>6, <1>8, <1>9, <1>10, <1>11 DEF line

\* SetToSeq lists every element of a finite set.
LEMMA SetListed ==
  ASSUME NEW S, IsFiniteSet(S)
  PROVE  LET n == Cardinality(S)
         IN  /\ n \in Nat /\ SetToSeq(S) \in [1 .. n -> S]
             /\ \A x \in S : \E i \in 1 .. n : SetToSeq(S)[i] = x
  <1> DEFINE n == Cardinality(S)
             f == SetToSeq(S)
  <1>1. n \in Nat /\ IsFiniteSet(1 .. n) /\ Cardinality(1 .. n) = n
    BY FS_CardinalityType, FS_Interval
  <1>2. \E g \in [1 .. n -> S] : IsInjective(g)
    <2>1. ExistsBijection(1 .. n, S)
      BY <1>1, FS_SameCardinalityBij
    <2>2. PICK g : g \in Bijection(1 .. n, S)
      BY <2>1 DEF ExistsBijection
    <2>3. g \in [1 .. n -> S] /\ \A i, j \in 1 .. n : g[i] = g[j] => i = j
      BY <2>2 DEF Bijection, Injection, IsInjective
    <2>4. QED
      BY <2>3 DEF IsInjective
  <1>3. f \in [1 .. n -> S] /\ IsInjective(f)
    BY <1>2 DEF SetToSeq
  <1> HIDE DEF f
  <1>4. \A i, j \in 1 .. n : f[i] = f[j] => i = j
    BY <1>3 DEF IsInjective
  <1>5. ASSUME NEW x \in S, \A i \in 1 .. n : f[i] # x
        PROVE  FALSE
    <2>1. IsFiniteSet(S \ {x}) /\ Cardinality(S \ {x}) = n - 1
      BY FS_RemoveElement
    <2>2. f \in [1 .. n -> S \ {x}]
      BY <1>3, <1>5
    <2>3. Cardinality(S \ {x}) < Cardinality(1 .. n)
      BY <1>1, <2>1
    <2> DEFINE T == S \ {x}
    <2> HIDE DEF n, T
    <2>4. \E i, j \in 1 .. n : i # j /\ f[i] = f[j]
      BY <1>1, <2>1, <2>2, <2>3, FS_PigeonHole DEF T
    <2>5. QED
      BY <1>4, <2>4
  <1>6. QED
    BY <1>1, <1>3, <1>5 DEF f

\* What is read of the text of some tuples is these tuples again (vectorTupleSerialize,
\* vectorTupleDeserialize).
THEOREM TupleRoundTrip ==
  ASSUME NEW tuples, tuples \subseteq Entry, IsFiniteSet(tuples), \A t \in tuples : PlainTuple(t)
  PROVE  VectorTupleDeserialize(VectorTupleSerialize(tuples)) = tuples
  <1> DEFINE n == Cardinality(tuples)
             o == SetToSeq(tuples)
             lines == [i \in 1 .. Len(o) |->
                         o[i].key \o <<TupleSeparator>> \o o[i].value \o <<LineEnd>>]
             L(i) == LineOf(o[i])
             text == VectorTupleSerialize(tuples)
  <1>1. n \in Nat /\ o \in [1 .. n -> tuples] /\ \A t \in tuples : \E i \in 1 .. n : o[i] = t
    BY SetListed
  <1>2. text = FlattenSeq(lines)
    BY DEF VectorTupleSerialize
  <1> HIDE DEF o, text
  <1>3. Len(o) = n /\ \A i \in 1 .. n : o[i] \in tuples /\ o[i] \in Entry /\ PlainTuple(o[i])
    BY <1>1
  <1>4. ASSUME NEW i \in 1 .. n
        PROVE  /\ L(i) \in Texts /\ L(i) # <<>> /\ Without(L(i), LineEnd)
               /\ \E j \in 1 .. Len(L(i)) : L(i)[j] = TupleSeparator
               /\ TupleOfLine(L(i)) = o[i] /\ lines[i] = L(i) \o <<LineEnd>>
    <2>1. /\ L(i) \in Texts /\ L(i) # <<>> /\ Without(L(i), LineEnd)
          /\ \E j \in 1 .. Len(L(i)) : L(i)[j] = TupleSeparator
          /\ TupleOfLine(L(i)) = o[i]
      BY <1>3, LineBack
    <2>2. lines[i] = o[i].key \o <<TupleSeparator>> \o o[i].value \o <<LineEnd>>
      BY <1>3
    <2>3. QED
      BY <2>1, <2>2 DEF LineOf
  <1>5. Len(lines) = n /\ DOMAIN lines = 1 .. n
    BY <1>1, <1>3
  <1> HIDE DEF lines, L
  <1>6. text \in Texts /\ Lines(text) = {L(i) : i \in 1 .. n}
    <2>1. CASE n = 0
      <3>1. lines = <<>>
        BY <1>3, <2>1 DEF lines
      <3>2. text = <<>> /\ text \in Texts
        BY <1>2, <1>5, <2>1, <3>1, CommandTexts DEF FlattenSeq
      <3>3. Lines(text) = {}
        <4> SUFFICES ASSUME NEW x \in Lines(text) PROVE FALSE
          OBVIOUS
        <4>1. PICK p \in 0 .. Len(text) + 1, q \in 0 .. Len(text) + 1 :
                Between(text, p, q) /\ x = SubSeq(text, p + 1, q - 1) /\ x # <<>>
          BY <3>2, LinesAre
        <4>2. Len(text) = 0
          BY <3>2
        <4>3. p + 1 \in Int /\ q - 1 \in Int /\ q - 1 < p + 1
          BY <4>1, <4>2
        <4>4. QED
          BY <4>1, <4>3, SubSeqEmpty
      <3>4. QED
        BY <2>1, <3>2, <3>3
    <2>2. CASE n # 0
      <3> DEFINE f == CHOOSE g : Partial(lines, g, n)
      <3>1. Partial(lines, f, n)
        BY <1>1, PartialExists
      <3>2. text = f[n]
        BY <1>2, <1>5, <2>2 DEF FlattenSeq, Partial
      <3> HIDE DEF f
      <3> DEFINE Good(i) == /\ f[i] \in Texts /\ f[i] # <<>> /\ f[i][Len(f[i])] = LineEnd
                            /\ Lines(f[i]) = {L(j) : j \in 1 .. i}
                 bad == {i \in 1 .. n : ~Good(i)}
      <3>3. ASSUME NEW i \in 1 .. n
            PROVE  f[i] = IF i = 1 THEN lines[i] ELSE f[i - 1] \o lines[i]
        BY <3>1 DEF Partial
      <3>4. ASSUME NEW i \in 1 .. n, i # 1 => Good(i - 1) PROVE Good(i)
        <4> DEFINE x == L(i)
                   e == IF i = 1 THEN <<>> ELSE f[i - 1]
        <4>1. /\ x \in Texts /\ x # <<>> /\ Without(x, LineEnd) /\ lines[i] = x \o <<LineEnd>>
          BY <1>4
        <4>2. /\ e \in Texts /\ (e = <<>> \/ e[Len(e)] = LineEnd)
              /\ Lines(e) = {L(j) : j \in 1 .. i - 1}
          <5>1. CASE i = 1
            <6>1. e = <<>> /\ e \in Texts /\ 1 .. i - 1 = {}
              BY <5>1, CommandTexts
            <6> HIDE DEF e
            <6>2. ASSUME NEW y \in Lines(e) PROVE FALSE
              <7>1. PICK p \in 0 .. Len(e) + 1, q \in 0 .. Len(e) + 1 :
                      Between(e, p, q) /\ y = SubSeq(e, p + 1, q - 1) /\ y # <<>>
                BY <6>1, LinesAre
              <7>2. Len(e) = 0
                BY <6>1
              <7>3. p + 1 \in Int /\ q - 1 \in Int /\ q - 1 < p + 1
                BY <7>1, <7>2
              <7>4. QED
                BY <7>1, <7>3, SubSeqEmpty
            <6>3. QED
              BY <6>1, <6>2
          <5>2. CASE i # 1
            BY <3>4, <5>2
          <5>3. QED
            BY <5>1, <5>2
        <4>3. f[i] = e \o (x \o <<LineEnd>>)
          <5>1. CASE i = 1
            <6>1. x \o <<LineEnd>> \in Seq(Token)
              BY <4>1, TokenAssumption DEF Texts
            <6>2. <<>> \o (x \o <<LineEnd>>) = x \o <<LineEnd>>
              BY <6>1, ConcatEmptySeq
            <6>3. QED
              BY <3>3, <4>1, <5>1, <6>2
          <5>2. CASE i # 1
            BY <3>3, <4>1, <5>2
          <5>3. QED
            BY <5>1, <5>2
        <4> HIDE DEF x, e
        <4>4. LET more == e \o (x \o <<LineEnd>>)
              IN  /\ more \in Texts /\ more # <<>> /\ more[Len(more)] = LineEnd
                  /\ Lines(more) = Lines(e) \cup {x}
          BY <4>1, <4>2, LinesGrow
        <4>5. /\ f[i] \in Texts /\ f[i] # <<>> /\ f[i][Len(f[i])] = LineEnd
              /\ Lines(f[i]) = Lines(e) \cup {x}
          BY <4>3, <4>4
        <4>6. \A y : y \in Lines(f[i]) <=> \E j \in 1 .. i : y = L(j)
          <5>1. \A j : j \in 1 .. i <=> j \in 1 .. i - 1 \/ j = i
            OBVIOUS
          <5>2. \A y : y \in Lines(e) <=> \E j \in 1 .. i - 1 : y = L(j)
            BY <4>2
          <5>3. QED
            BY <4>5, <5>1, <5>2 DEF x
        <4>7. Lines(f[i]) = {L(j) : j \in 1 .. i}
          BY <4>6
        <4>8. QED
          BY <4>5, <4>7
      <3>5. bad = {}
        <4> SUFFICES ASSUME bad # {} PROVE FALSE
          OBVIOUS
        <4>1. PICK i \in bad : \A j \in bad : i <= j
          <5>1. bad \subseteq Nat
            OBVIOUS
          <5> HIDE DEF bad
          <5>2. QED
            BY <5>1, LeastExists
        <4>2. i \in 1 .. n /\ ~Good(i)
          OBVIOUS
        <4>3. i # 1 => Good(i - 1)
          <5>1. i # 1 => i - 1 \in 1 .. n /\ i - 1 \notin bad
            <6> HIDE DEF bad
            <6>1. QED
              BY <1>1, <4>1, <4>2
          <5>2. QED
            BY <5>1
        <4> HIDE DEF Good
        <4>4. QED
          BY <3>4, <4>2, <4>3
      <3>6. n \in 1 .. n
        BY <1>1, <2>2
      <3>7. Good(n)
        BY <3>5, <3>6
      <3>8. QED
        BY <3>2, <3>7
    <2>3. QED
      BY <2>1, <2>2
  <1>7. VectorTupleDeserialize(text) = {TupleOfLine(L(i)) : i \in 1 .. n}
    <2>1. \A l \in Lines(text) : \E j \in 1 .. Len(l) : l[j] = TupleSeparator
      BY <1>4, <1>6
    <2>2. VectorTupleDeserialize(text) = {TupleOfLine(l) : l \in Lines(text)}
      BY <2>1 DEF VectorTupleDeserialize
    <2>3. QED
      BY <1>6, <2>2
  <1>8. \A t : t \in {TupleOfLine(L(i)) : i \in 1 .. n} <=> t \in tuples
    <2>1. \A t : t \in {TupleOfLine(L(i)) : i \in 1 .. n} <=> \E i \in 1 .. n : t = o[i]
      BY <1>4
    <2>2. QED
      BY <1>1, <1>3, <2>1
  <1>9. QED
    BY <1>7, <1>8 DEF text

-----------------------------------------------------------------------------
(***************************************************************************)
(* metaGetAll.  A list of tuples survives when the application's metadata  *)
(* has no separators where vectorTupleSerialize does not protect them.     *)
(***************************************************************************)
PlainTuples ==
  /\ \A k \in Keys : Without(k, TupleSeparator) /\ Without(k, LineEnd)
  /\ \A v \in Values : Without(v, LineEnd)

\* Metadata of a rank as getPrefix lists it: of each key the value after some of the
\* rank's calls, if there was one.
OwnTuples(r, a, at) ==
  {[key |-> Place(r, TRUE, k), value |-> NewestOf(a, TRUE, k, at[k])] :
     k \in {j \in Keys : NewestOf(a, TRUE, j, at[j]) # NoValue}}

Listed(r, a, n, tuples) ==
  \E at \in [Keys -> OldestOf(a, n) .. n] : tuples = OwnTuples(r, a, at)

\* Every entry of the store belongs to a key of a rank.
Placed(entries) ==
  \A e \in entries : \E s \in Ranks, meta \in BOOLEAN, k \in Keys : e.key = Place(s, meta, k)

\* Metadata is one of the application's values.
ValuesGiven ==
  \A s \in Ranks : \A i \in 1 .. Len(asked[s]) :
    asked[s][i].command = META_PUT => asked[s][i].value \in Values

\* The metadata keys of a client begin with the prefix and the client's text.
LEMMA MetaPlace ==
  ASSUME NEW r \in Clients, NEW k \in Keys
  PROVE  LET p == Place(r, TRUE, k)
         IN  /\ p \in Texts /\ Len(p) = Len(k) + 2 /\ Len(k) \in Nat
             /\ p[1] = "__lsmio_md::" /\ p[2] = ToString(r)
             /\ \A i \in 1 .. Len(k) : p[i + 2] = k[i]
  <1> DEFINE x == "__lsmio_md::"
             y == ToString(r)
             b == <<y>> \o k
             p == <<x>> \o b
  <1>1. r \in Ranks /\ ServeLocal
    BY ClientsAreRanks
  <1>2. x \in Token /\ y \in Token /\ k \in Texts
    BY <1>1, TokenAssumption, RankTextAssumption, TextAssumption
  <1>3. Place(r, TRUE, k) = p
    BY <1>1, PlaceIs DEF RankedKey, MetaPrefix
  <1> HIDE DEF x, y
  <1>4. /\ b \in Texts /\ Len(b) = Len(k) + 1 /\ Len(k) \in Nat /\ b[1] = y
        /\ \A i \in 1 .. Len(k) : b[i + 1] = k[i]
    BY <1>2, Prefixed
  <1> HIDE DEF b
  <1>5. /\ p \in Texts /\ Len(p) = Len(b) + 1 /\ p[1] = x
        /\ \A i \in 1 .. Len(b) : p[i + 1] = b[i]
    BY <1>2, <1>4, Prefixed
  <1> HIDE DEF p
  <1>6. Len(p) = Len(k) + 2 /\ 1 \in 1 .. Len(b) /\ 1 + 1 = 2
    BY <1>4, <1>5
  <1>7. p[2] = y
    BY <1>4, <1>5, <1>6
  <1>8. ASSUME NEW i \in 1 .. Len(k) PROVE p[i + 2] = k[i]
    <2>1. i + 1 \in 1 .. Len(b) /\ (i + 1) + 1 = i + 2
      BY <1>4
    <2>2. QED
      BY <1>4, <1>5, <2>1
  <1>9. QED
    BY <1>3, <1>4, <1>5, <1>6, <1>7, <1>8 DEF x, y

\* They are made of tokens that the serialization of tuples leaves alone.
LEMMA MetaPlacePlain ==
  ASSUME PlainTuples, NEW r \in Clients, NEW k \in Keys,
         NEW token \in {TupleSeparator, LineEnd}
  PROVE  Without(Place(r, TRUE, k), token)
  <1> DEFINE p == Place(r, TRUE, k)
  <1>1. /\ Len(p) = Len(k) + 2 /\ Len(k) \in Nat /\ p[1] = "__lsmio_md::" /\ p[2] = ToString(r)
        /\ \A i \in 1 .. Len(k) : p[i + 2] = k[i]
    BY MetaPlace
  <1>2. "__lsmio_md::" # token /\ ToString(r) # token
    <2>1. r \in Ranks
      BY ClientsAreRanks
    <2>2. ToString(r) # token
      BY <2>1, RankTextAssumption
    <2>3. "__lsmio_md::" # token
      BY DEF TupleSeparator, LineEnd
    <2>4. QED
      BY <2>2, <2>3
  <1>3. \A i \in 1 .. Len(k) : k[i] # token
    BY DEF PlainTuples, Without
  <1> HIDE DEF p
  <1>4. ASSUME NEW i \in 1 .. Len(p) PROVE p[i] # token
    <2>1. i = 1 \/ i = 2 \/ (i - 2 \in 1 .. Len(k) /\ (i - 2) + 2 = i)
      BY <1>1
    <2>2. QED
      BY <1>1, <1>2, <1>3, <2>1
  <1>5. QED
    BY <1>4 DEF Without, p

\* A key of the store has the prefix that metaGetAll of a client looks for when it
\* is one of the client's metadata keys.
LEMMA PrefixFinds ==
  ASSUME NEW r \in Clients, NEW s \in Ranks, NEW meta \in BOOLEAN, NEW k \in Keys
  PROVE  IsPrefix(MetaPrefix \o RankedKey(r, <<>>), Place(s, meta, k)) <=> s = r /\ meta = TRUE
  <1> DEFINE x == "__lsmio_md::"
             y == ToString(r)
             z == ToString(s)
             p == MetaPrefix \o RankedKey(r, <<>>)
             t == Place(s, meta, k)
  <1>1. ServeLocal /\ r \in Ranks
    BY ClientsAreRanks
  <1>2. /\ x \in Token /\ y \in Token /\ z \in Token /\ z # x /\ (y = z <=> r = s)
        /\ k \in Texts /\ <<>> \in Texts
    <2>1. z # x
      <3>1. <<z>> # <<x>>
        BY RankTextAssumption DEF MetaPrefix
      <3> HIDE DEF x, z
      <3>2. QED
        BY <3>1
    <2>2. y = z <=> r = s
      BY <1>1, RankTextAssumption
    <2>3. QED
      BY <1>1, <2>1, <2>2, TokenAssumption, RankTextAssumption, TextAssumption, CommandTexts
  <1>3. p = <<x>> \o (<<y>> \o <<>>)
    BY <1>1 DEF RankedKey, MetaPrefix
  <1>4. t = IF meta THEN <<x>> \o (<<z>> \o k) ELSE <<z>> \o k
    <2>1. Place(s, TRUE, k) = <<x>> \o (<<z>> \o k) /\ Place(s, FALSE, k) = <<z>> \o k
      BY <1>1, PlaceIs DEF RankedKey, MetaPrefix
    <2>2. QED
      BY <2>1
  <1> HIDE DEF x, y, z, p, t
  <1>5. p \in Texts /\ Len(p) = 2 /\ p[1] = x /\ p[2] = y
    <2>1. Len(<<>>) = 0
      OBVIOUS
    <2> DEFINE b == <<y>> \o <<>>
    <2>2. b \in Texts /\ Len(b) = Len(<<>>) + 1 /\ b[1] = y
      BY <1>2, Prefixed
    <2>3. p = <<x>> \o b
      BY <1>3
    <2> HIDE DEF b
    <2>4. /\ <<x>> \o b \in Texts /\ Len(<<x>> \o b) = Len(b) + 1 /\ (<<x>> \o b)[1] = x
          /\ \A i \in 1 .. Len(b) : (<<x>> \o b)[i + 1] = b[i]
      BY <1>2, <2>2, Prefixed
    <2>5. Len(b) = 1 /\ 1 \in 1 .. Len(b) /\ 1 + 1 = 2
      BY <2>1, <2>2
    <2>6. QED
      BY <2>2, <2>3, <2>4, <2>5
  <1>6. /\ t \in Texts /\ Len(t) \in Nat /\ (meta = FALSE => t[1] = z)
        /\ (meta = TRUE => t[1] = x /\ t[2] = z /\ Len(t) >= 2)
    <2> DEFINE b == <<z>> \o k
    <2>1. b \in Texts /\ Len(b) = Len(k) + 1 /\ Len(k) \in Nat /\ b[1] = z
      BY <1>2, Prefixed
    <2>2. t = IF meta THEN <<x>> \o b ELSE b
      BY <1>4
    <2> HIDE DEF b
    <2>3. CASE meta = TRUE
      <3>1. /\ <<x>> \o b \in Texts /\ Len(<<x>> \o b) = Len(b) + 1 /\ (<<x>> \o b)[1] = x
            /\ \A i \in 1 .. Len(b) : (<<x>> \o b)[i + 1] = b[i]
        BY <1>2, <2>1, Prefixed
      <3>2. t = <<x>> \o b
        BY <2>2, <2>3
      <3>3. Len(b) >= 1 /\ 1 \in 1 .. Len(b) /\ 1 + 1 = 2 /\ Len(b) \in Nat
        BY <2>1
      <3>4. t[2] = z
        BY <2>1, <3>1, <3>2, <3>3
      <3>5. QED
        BY <2>3, <3>1, <3>2, <3>3, <3>4
    <2>4. CASE meta = FALSE
      BY <2>1, <2>2, <2>4
    <2>5. QED
      BY <2>3, <2>4
  <1>7. IsPrefix(p, t) <=> Len(t) >= 2 /\ t[1] = x /\ t[2] = y
    <2>1. p \in Seq(Token) /\ t \in Seq(Token)
      BY <1>5, <1>6 DEF Texts
    <2>2. IsPrefix(p, t) <=> 2 <= Len(t) /\ SubSeq(p, 1, 2) = SubSeq(t, 1, 2)
      BY <1>5 DEF IsPrefix
    <2>3. ASSUME 2 <= Len(t)
          PROVE  SubSeq(p, 1, 2) = SubSeq(t, 1, 2) <=> p[1] = t[1] /\ p[2] = t[2]
      BY <1>5, <1>6, <2>1, <2>3
    <2>4. QED
      BY <1>5, <1>6, <2>2, <2>3
  <1>8. CASE meta = TRUE
    BY <1>2, <1>6, <1>7, <1>8 DEF p, t
  <1>9. CASE meta = FALSE
    BY <1>2, <1>6, <1>7, <1>9 DEF p, t
  <1>10. QED
    BY <1>8, <1>9

\* The newest metadata value of a key is one of the application's values.
LEMMA NewestGiven ==
  ASSUME ValuesGiven, NEW r \in Ranks, NEW n \in Nat, n <= Len(asked[r]), Len(asked[r]) \in Nat,
         NEW k, NewestOf(asked[r], TRUE, k, n) # NoValue
  PROVE  NewestOf(asked[r], TRUE, k, n) \in Values
  <1> DEFINE a == asked[r]
             S == MutationsOf(a, TRUE, k, n)
  <1>1. S # {} /\ NewestOf(a, TRUE, k, n) = ValueOf(a[Max(S)])
    BY DEF NewestOf
  <1>2. S \subseteq 0 .. n /\ \A i \in S : i \in 1 .. n /\ a[i].command = META_PUT
    BY DEF MutationsOf, Mutating
  <1> HIDE DEF S
  <1>3. Max(S) \in S
    BY <1>1, <1>2, MaxOfSome
  <1>4. Max(S) \in 1 .. Len(asked[r]) /\ a[Max(S)].command = META_PUT
    <2>1. \A i \in 1 .. n : i \in 1 .. Len(asked[r])
      OBVIOUS
    <2>2. QED
      BY <1>2, <1>3, <2>1
  <1>5. a[Max(S)].value \in Values
    BY <1>4 DEF ValuesGiven
  <1>6. ValueOf(a[Max(S)]) = a[Max(S)].value
    BY <1>4, CommandsApart DEF ValueOf
  <1>7. QED
    BY <1>1, <1>5, <1>6

\* What the server finds for a client's metaGetAll is the client's own metadata, and
\* it survives the way back.
LEMMA OwnFound ==
  ASSUME PlainTuples, TypeOK, StoreSound, StoreReflects, Placed(Entries), ValuesGiven,
         NEW r \in Clients, Len(executed[r]) <= Len(asked[r]),
         NEW found \in FoundPrefix(MetaPrefix \o RankedKey(r, <<>>))
  PROVE  /\ Listed(r, asked[r], Len(executed[r]), found)
         /\ VectorTupleDeserialize(VectorTupleSerialize(found)) = found
  <1> DEFINE a == asked[r]
             n == Len(executed[r])
             prefix == MetaPrefix \o RankedKey(r, <<>>)
             value(k) == Lookup(found, Place(r, TRUE, k))
             at == [k \in Keys |-> CHOOSE i \in OldestOf(a, n) .. n :
                                     value(k) = NewestOf(a, TRUE, k, i)]
             own == OwnTuples(r, a, at)
  <1>1. r \in Ranks /\ n \in Nat /\ Len(a) \in Nat /\ TRUE \in BOOLEAN
    BY ClientsAreRanks, TypeParts
  <1>2. /\ \A e \in found : e \in Entries /\ IsPrefix(prefix, e.key) /\ e.value # NoValue
        /\ UniqueKeys(found)
        /\ \A x : IsPrefix(prefix, x) /\ (\A e \in found : e.key # x) => NoValue \in Known(x)
    BY FoundPrefixIs
  <1>3. Entries \subseteq Entry /\ IsFiniteSet(Entries) /\ UniqueKeys(db)
    BY KnownText DEF StoreSound
  <1> HIDE DEF prefix
  <1>4. ASSUME NEW e \in found PROVE \E k \in Keys : e.key = Place(r, TRUE, k)
    <2>1. PICK s \in Ranks, meta \in BOOLEAN, k \in Keys : e.key = Place(s, meta, k)
      BY <1>2 DEF Placed
    <2>2. IsPrefix(MetaPrefix \o RankedKey(r, <<>>), Place(s, meta, k))
      BY <1>2, <2>1 DEF prefix
    <2>3. s = r /\ meta = TRUE
      BY <2>2, PrefixFinds
    <2>4. QED
      BY <2>1, <2>3
  <1>5. ASSUME NEW k \in Keys PROVE value(k) \in Known(Place(r, TRUE, k))
    <2> DEFINE x == Place(r, TRUE, k)
    <2>1. IsPrefix(prefix, x)
      BY <1>1, PrefixFinds DEF prefix
    <2> HIDE DEF x
    <2>2. CASE \E e \in found : e.key = x
      <3>1. PICK e \in found : e.key = x
        BY <2>2
      <3>2. Lookup(found, x) = e.value /\ e \in Entries
        BY <1>2, <3>1, LookupFound
      <3>3. CASE e \in db
        <4>1. Lookup(db, x) = e.value
          BY <1>3, <3>1, <3>3, LookupFound
        <4>2. QED
          BY <3>2, <4>1 DEF Known, x
      <3>4. CASE e \in Range(Pending)
        BY <3>1, <3>2, <3>4 DEF Known, x
      <3>5. QED
        BY <3>2, <3>3, <3>4 DEF Entries
    <2>3. CASE \A e \in found : e.key # x
      <3>1. Lookup(found, x) = NoValue
        BY <2>3, LookupMissing
      <3>2. NoValue \in Known(x)
        BY <1>2, <2>1, <2>3
      <3>3. QED
        BY <3>1, <3>2 DEF x
    <2>4. QED
      BY <2>2, <2>3
  <1> HIDE DEF value
  <1>6. ASSUME NEW k \in Keys
        PROVE  at[k] \in OldestOf(a, n) .. n /\ value(k) = NewestOf(a, TRUE, k, at[k])
    <2>1. \E i \in OldestOf(a, n) .. n : value(k) = NewestOf(a, TRUE, k, i)
      BY <1>1, <1>5, KnownSeen
    <2>2. QED
      BY <2>1
  <1>7. at \in [Keys -> OldestOf(a, n) .. n]
    BY <1>6
  <1> HIDE DEF at
  <1>8. ASSUME NEW e \in found, NEW k \in Keys, e.key = Place(r, TRUE, k)
        PROVE  /\ NewestOf(a, TRUE, k, at[k]) # NoValue
               /\ e.value = NewestOf(a, TRUE, k, at[k])
               /\ e = [key |-> Place(r, TRUE, k), value |-> NewestOf(a, TRUE, k, at[k])]
    <2>1. Lookup(found, e.key) = e.value
      BY <1>2, LookupFound
    <2>2. value(k) = e.value
      BY <1>8, <2>1 DEF value
    <2>3. e.value # NoValue /\ e \in Entry
      BY <1>2, <1>3
    <2>4. e = [key |-> e.key, value |-> e.value]
      BY <2>3 DEF Entry
    <2>5. QED
      BY <1>6, <1>8, <2>2, <2>3, <2>4
  <1>9. found = own
    <2>1. ASSUME NEW e \in found PROVE e \in own
      <3>1. PICK k \in Keys : e.key = Place(r, TRUE, k)
        BY <1>4
      <3>2. QED
        BY <1>8, <3>1 DEF OwnTuples
    <2>2. ASSUME NEW t \in own PROVE t \in found
      <3>1. PICK k \in Keys : /\ NewestOf(a, TRUE, k, at[k]) # NoValue
                              /\ t = [key |-> Place(r, TRUE, k),
                                       value |-> NewestOf(a, TRUE, k, at[k])]
        BY DEF OwnTuples
      <3>2. Lookup(found, Place(r, TRUE, k)) # NoValue
        BY <1>6, <3>1 DEF value
      <3>3. PICK e \in found : e.key = Place(r, TRUE, k)
        BY <3>2, LookupMissing
      <3>4. QED
        BY <1>8, <3>1, <3>3
    <2> HIDE DEF own
    <2>3. QED
      BY <2>1, <2>2
  <1>10. found \subseteq Entry /\ IsFiniteSet(found)
    <2>1. found \subseteq Entries
      BY <1>2
    <2>2. QED
      BY <1>3, <2>1, FS_Subset
  <1>11. ASSUME NEW e \in found PROVE PlainTuple(e)
    <2>1. PICK k \in Keys : e.key = Place(r, TRUE, k)
      BY <1>4
    <2>2. e.value = NewestOf(a, TRUE, k, at[k]) /\ NewestOf(a, TRUE, k, at[k]) # NoValue
      BY <1>8, <2>1
    <2> DEFINE i == at[k]
    <2>3. i \in Nat /\ i <= Len(a)
      <3>1. OldestOf(a, n) \in Nat
        BY <1>1, LastBarrierType DEF OldestOf
      <3>2. i \in OldestOf(a, n) .. n
        BY <1>6
      <3> HIDE DEF a, n, i
      <3>3. n <= Len(a)
        BY DEF a, n
      <3>4. QED
        BY <1>1, <3>1, <3>2, <3>3
    <2> HIDE DEF i
    <2>4. NewestOf(a, TRUE, k, i) \in Values
      BY <1>1, <2>2, <2>3, NewestGiven DEF i
    <2>5. Without(e.value, LineEnd)
      BY <2>2, <2>4 DEF PlainTuples, i
    <2>6. Without(e.key, TupleSeparator) /\ Without(e.key, LineEnd)
      BY <2>1, MetaPlacePlain
    <2>7. QED
      BY <2>5, <2>6 DEF PlainTuple
  <1>12. VectorTupleDeserialize(VectorTupleSerialize(found)) = found
    BY <1>10, <1>11, TupleRoundTrip
  <1>13. QED
    BY <1>7, <1>9, <1>12 DEF Listed

\* The reply to a metaGetAll has the client's metadata, and so has what it returns.
TuplesSent(r) ==
  toClient[r] # <<>> /\ call[r].command = META_GET_ALL =>
    \E v \in Texts : /\ toClient[r][1] = SerializeCmd(Back(META_GET_ALL),
                                                      asked[r][Len(asked[r])].key, v)
                     /\ Listed(r, asked[r], Len(asked[r]) - 1, VectorTupleDeserialize(v))

TuplesGot(r) ==
  Returned(r, {META_GET_ALL}) => Listed(r, asked[r], Len(asked[r]) - 1, call[r].tuples)

TuplesInv ==
  /\ PlainTuples /\ ValuesGiven /\ Placed(Entries)
  /\ \A r \in Clients : TuplesSent(r) /\ TuplesGot(r)

\* A call leaves the entries of the store with their owners.
LEMMA DoesPlaced ==
  ASSUME Placed(Entries), NEW q \in Ranks, NEW m \in Calls, StoreDoes(q, m)
  PROVE  Placed(Entries)'
  <1>1. ASSUME NEW e \in Entries'
        PROVE  \E s \in Ranks, meta \in BOOLEAN, k \in Keys : e.key = Place(s, meta, k)
    <2>1. CASE e \in Entries
      BY <2>1 DEF Placed
    <2>2. CASE m.command \in Writes /\ e = Mutation(q, m.command, m.key, m.value)
      <3> DEFINE own == m.command = META_PUT
      <3>1. e.key = Place(q, own, m.key)
        BY <2>2, WritePlace
      <3>2. m.key \in Keys /\ own \in BOOLEAN
        BY <2>2 DEF Calls
      <3> HIDE DEF own
      <3>3. QED
        BY <3>1, <3>2
    <2>3. QED
      BY <2>1, <2>2 DEF StoreDoes
  <1>2. \A s, meta, k : Place(s, meta, k)' = Place(s, meta, k)
    BY DEF Place, StoreKey, RankedKey, ServeLocal
  <1>3. QED
    BY <1>1, <1>2 DEF Placed

\* A step that adds no entry does so too.
LEMMA FewerPlaced ==
  ASSUME Placed(Entries), Entries' \subseteq Entries
  PROVE  Placed(Entries)'
  <1>1. \A s, meta, k : Place(s, meta, k)' = Place(s, meta, k)
    BY DEF Place, StoreKey, RankedKey, ServeLocal
  <1>2. QED
    BY <1>1 DEF Placed

\* A store that is left alone has the same entries.
LEMMA EntriesStay == UNCHANGED <<db, memtables>> => Entries' = Entries
  BY DEF memtables, Entries, Pending

\* A step that leaves a client's call and its reply alone.
LEMMA TuplesFrame ==
  ASSUME NEW r, TuplesSent(r), TuplesGot(r), LatestCall(r), call'[r] = call[r],
         asked'[r] = asked[r], toClient'[r] = toClient[r],
         pc'[r] = "idle" => pc[r] \in {"idle", "b01", "sending"}
  PROVE  TuplesSent(r)' /\ TuplesGot(r)'
  <1>1. META_GET_ALL \in Requests
    BY DEF Requests
  <1>2. TuplesSent(r)'
    BY DEF TuplesSent
  <1>3. TuplesGot(r)'
    <2> SUFFICES ASSUME pc'[r] = "idle", call[r].command = META_GET_ALL
                 PROVE  Listed(r, asked[r], Len(asked[r]) - 1, call[r].tuples)
      BY DEF TuplesGot, Returned
    <2>1. pc[r] = "idle"
      BY <1>1 DEF LatestCall
    <2>2. QED
      BY <2>1 DEF TuplesGot, Returned
  <1>4. QED
    BY <1>2, <1>3

\* A step in which nobody calls and nothing is executed or answered.
LEMMA QuietTuples ==
  ASSUME IInv, TuplesInv, UNCHANGED <<call, asked, toClient>>, Entries' \subseteq Entries,
         \A s \in Clients : pc'[s] = "idle" => pc[s] \in {"idle", "b01", "sending"}
  PROVE  TuplesInv'
  <1>1. ASSUME NEW s \in Clients PROVE TuplesSent(s)' /\ TuplesGot(s)'
    <2>1. TuplesSent(s) /\ TuplesGot(s) /\ LatestCall(s)
      BY ClientsAreRanks DEF TuplesInv, IInv, RankInv
    <2>2. QED
      BY <2>1, TuplesFrame
  <1>2. ValuesGiven'
    BY DEF TuplesInv, ValuesGiven
  <1>3. Placed(Entries)'
    BY FewerPlaced DEF TuplesInv
  <1>4. PlainTuples
    BY DEF TuplesInv
  <1>5. QED
    BY <1>1, <1>2, <1>3, <1>4 DEF TuplesInv

\* A call more, with the application's value if it is metadata.
LEMMA ValuesMore ==
  ASSUME ValuesGiven, asked \in [Ranks -> Seq(Message)], NEW q \in Ranks, NEW m \in Message,
         asked' = [asked EXCEPT ![q] = Append(@, m)],
         m.command = META_PUT => m.value \in Values
  PROVE  ValuesGiven'
  <1> SUFFICES ASSUME NEW s \in Ranks, NEW i \in 1 .. Len(asked'[s]),
                      asked'[s][i].command = META_PUT
               PROVE  asked'[s][i].value \in Values
    BY DEF ValuesGiven
  <1>1. CASE s # q
    BY <1>1 DEF ValuesGiven
  <1>2. CASE s = q
    <2> DEFINE a == asked[q]
    <2>1. a \in Seq(Message) /\ asked'[s] = Append(a, m)
      BY <1>2
    <2> HIDE DEF a
    <2>2. /\ Len(Append(a, m)) = Len(a) + 1 /\ Len(a) \in Nat
          /\ \A j \in 1 .. Len(a) : Append(a, m)[j] = a[j]
          /\ Append(a, m)[Len(a) + 1] = m
      BY <2>1, Appended
    <2>3. i \in 1 .. Len(a) \/ i = Len(a) + 1
      BY <2>1, <2>2
    <2>4. CASE i \in 1 .. Len(a)
      BY <1>2, <2>1, <2>2, <2>4 DEF ValuesGiven, a
    <2>5. CASE i = Len(a) + 1
      BY <2>1, <2>2, <2>5
    <2>6. QED
      BY <2>3, <2>4, <2>5
  <1>3. QED
    BY <1>1, <1>2

\* A client makes a call.
LEMMA AskTuples ==
  ASSUME IInv, TuplesInv, NEW r \in Clients, NEW m \in Calls, pc[r] = "idle",
         m.command = META_PUT => m.value \in Values, NEW x \in {"sending", "reply"},
         pc' = [pc EXCEPT ![r] = x], asked' = [asked EXCEPT ![r] = Append(@, m)],
         NEW c, call' = [call EXCEPT ![r] = c], UNCHANGED <<toClient, db, memtables>>
  PROVE  TuplesInv'
  <1>1. /\ pc \in [Ranks -> PCs] /\ asked \in [Ranks -> Seq(Message)] /\ DOMAIN call = Ranks
        /\ r \in Ranks /\ Clients \subseteq Ranks /\ m \in Message
    BY TypeParts, ClientsAreRanks DEF IInv, Calls
  <1>2. /\ pc'[r] = x
        /\ \A s \in Clients \ {r} : pc'[s] = pc[s] /\ call'[s] = call[s] /\ asked'[s] = asked[s]
    BY <1>1
  <1>3. toClient[r] = <<>>
    <2>1. ClientInv(r)
      BY DEF IInv
    <2>2. QED
      BY <2>1, PipeFacts
  <1>4. ASSUME NEW s \in Clients PROVE TuplesSent(s)' /\ TuplesGot(s)'
    <2>1. CASE s = r
      <3>1. TuplesSent(s)'
        BY <1>3, <2>1 DEF TuplesSent
      <3>2. TuplesGot(s)'
        BY <1>2, <2>1 DEF TuplesGot, Returned
      <3>3. QED
        BY <3>1, <3>2
    <2>2. CASE s # r
      <3>1. TuplesSent(s) /\ TuplesGot(s) /\ LatestCall(s)
        BY <1>1 DEF TuplesInv, IInv, RankInv
      <3>2. /\ call'[s] = call[s] /\ asked'[s] = asked[s] /\ toClient'[s] = toClient[s]
            /\ (pc'[s] = "idle" => pc[s] \in {"idle", "b01", "sending"})
        BY <1>2, <2>2
      <3>3. QED
        BY <3>1, <3>2, TuplesFrame
    <2>3. QED
      BY <2>1, <2>2
  <1>5. ValuesGiven'
    BY <1>1, ValuesMore DEF TuplesInv
  <1>6. Placed(Entries)' /\ PlainTuples
    BY EntriesStay, FewerPlaced DEF TuplesInv
  <1>7. QED
    BY <1>4, <1>5, <1>6 DEF TuplesInv

\* Calls of a client keep what holds of the metadata.
LEMMA RemoteCallTuples ==
  ASSUME IInv, TuplesInv, NEW r \in Clients, RemoteCall(r)
  PROVE  TuplesInv'
  <1>1. /\ PUT \in Writes /\ META_PUT \in Writes /\ DEL \in Writes /\ DEL # META_PUT
        /\ {GET, META_GET, META_GET_ALL, READ_BARRIER, WRITE_BARRIER} = Requests
        /\ PlainKeys /\ META_PUT \notin Requests
    BY CommandsApart DEF Writes, Requests, IInv
  <1>2. ASSUME NEW c \in Writes, NEW k \in Keys, NEW v \in Values \cup {KV_DUMMY},
               c = META_PUT => v \in Values, RemoteWrite(r, c, k, v)
        PROVE  TuplesInv'
    <2> DEFINE m == [command |-> c, key |-> k, value |-> v]
               d == Began(c, k)
    <2>1. m \in Calls /\ (m.command = META_PUT => m.value \in Values)
      BY <1>1, <1>2, CallTexts
    <2>2. /\ pc[r] = "idle" /\ pc' = [pc EXCEPT ![r] = "sending"]
          /\ asked' = [asked EXCEPT ![r] = Append(@, m)]
          /\ call' = [call EXCEPT ![r] = d]
          /\ UNCHANGED <<toClient, db, memtables>>
      BY <1>2 DEF RemoteWrite, MayCall, Asks, storeVars
    <2> HIDE DEF m, d
    <2>3. "sending" \in {"sending", "reply"}
      OBVIOUS
    <2>4. QED
      BY <2>1, <2>2, <2>3, AskTuples
  <1>3. ASSUME NEW c \in Requests, NEW k,
               k \in Keys \/ (k = KV_DUMMY /\ c \in {META_GET_ALL, READ_BARRIER, WRITE_BARRIER}),
               RemoteRequest(r, c, k)
        PROVE  TuplesInv'
    <2> DEFINE m == [command |-> c, key |-> k, value |-> KV_DUMMY]
               d == Began(c, k)
    <2>1. m \in Calls /\ (m.command = META_PUT => m.value \in Values)
      BY <1>1, <1>3, CallTexts
    <2>2. /\ pc[r] = "idle" /\ pc' = [pc EXCEPT ![r] = "reply"]
          /\ asked' = [asked EXCEPT ![r] = Append(@, m)]
          /\ call' = [call EXCEPT ![r] = d]
          /\ UNCHANGED <<toClient, db, memtables>>
      BY <1>3 DEF RemoteRequest, MayCall, Asks, storeVars
    <2> HIDE DEF m, d
    <2>3. "reply" \in {"sending", "reply"}
      OBVIOUS
    <2>4. QED
      BY <2>1, <2>2, <2>3, AskTuples
  <1>4. CASE \E k \in Keys, v \in Values, c \in Commands[r] \cap {PUT, META_PUT} :
               RemoteWrite(r, c, k, v)
    BY <1>1, <1>2, <1>4
  <1>5. CASE \E k \in Keys : RemoteWrite(r, DEL, k, KV_DUMMY)
    BY <1>1, <1>2, <1>5
  <1>6. CASE \E k \in Keys, c \in Commands[r] \cap {GET, META_GET} : RemoteRequest(r, c, k)
    BY <1>1, <1>3, <1>6
  <1>7. CASE \E c \in Commands[r] \cap {META_GET_ALL, READ_BARRIER, WRITE_BARRIER} :
               RemoteRequest(r, c, KV_DUMMY)
    BY <1>1, <1>3, <1>7
  <1>8. QED
    BY <1>4, <1>5, <1>6, <1>7 DEF RemoteCall

\* recvCommand gives metaGetAll the tuples that were sent.
LEMMA RecvReplyTuples ==
  ASSUME IInv, TuplesInv, NEW r \in Clients, RecvReply(r)
  PROVE  TuplesInv'
  <1>1. /\ pc \in [Ranks -> PCs] /\ toClient \in [Clients -> Seq(Texts)] /\ DOMAIN call = Ranks
        /\ r \in Ranks /\ Clients \subseteq Ranks /\ asked[r] \in Seq(Calls)
        /\ ClientInv(r) /\ RankInv(r) /\ pc[r] = "reply" /\ toClient[r] # <<>>
        /\ UNCHANGED <<asked, db, memtables>>
    <2>1. ClientInv(r)
      BY DEF IInv
    <2>2. QED
      BY <2>1, TypeParts, ClientsAreRanks, PipeFacts DEF IInv, RecvReply, storeVars
  <1> DEFINE c == call[r].command
             k == call[r].key
             a == asked[r]
             got == DeSerializeCmd(Head(toClient[r]))
             t == IF c = META_GET_ALL THEN VectorTupleDeserialize(got.value) ELSE {}
             ok == got.command = Back(c)
  <1>2. /\ call' = [call EXCEPT ![r] = Called(c, k, got.value, t, ok)]
        /\ toClient' = [toClient EXCEPT ![r] = Tail(@)] /\ pc' = [pc EXCEPT ![r] = "idle"]
    BY DEF RecvReply
  <1> HIDE DEF got
  <1>3. /\ call'[r] = Called(c, k, got.value, t, ok) /\ toClient'[r] = Tail(toClient[r])
        /\ \A s \in Clients \ {r} : /\ pc'[s] = pc[s] /\ call'[s] = call[s]
                                    /\ toClient'[s] = toClient[s]
    BY <1>1, <1>2
  <1>4. call'[r].command = c /\ call'[r].tuples = t
    BY <1>3 DEF Called
  <1>5. Tail(toClient[r]) = <<>> /\ Head(toClient[r]) = toClient[r][1]
    <2>1. toClient[r] \in Seq(Texts) /\ toClient[r] # <<>>
      BY <1>1
    <2>2. Len(toClient[r]) = 1
      BY <1>1 DEF ClientInv, ClientPipe, Pipe, PipeReply
    <2>3. Tail(toClient[r]) \in Seq(Texts) /\ Len(Tail(toClient[r])) = 0
          /\ Head(toClient[r]) = toClient[r][1]
      BY <2>1, <2>2, Shortened
    <2>4. \A s \in Seq(Texts) : Len(s) = 0 => s = <<>>
      OBVIOUS
    <2>5. QED
      BY <2>3, <2>4
  <1>6. TuplesSent(r)'
    BY <1>3, <1>5 DEF TuplesSent
  <1>7. TuplesGot(r)'
    <2> SUFFICES ASSUME c = META_GET_ALL
                 PROVE  Listed(r, a, Len(a) - 1, t)
      BY <1>1, <1>4 DEF TuplesGot, Returned
    <2>1. PICK v \in Texts : /\ toClient[r][1] = SerializeCmd(Back(META_GET_ALL), a[Len(a)].key, v)
                             /\ Listed(r, a, Len(a) - 1, VectorTupleDeserialize(v))
      BY <1>1 DEF TuplesInv, TuplesSent
    <2>2. META_GET_ALL \in Requests
      BY DEF Requests
    <2>3. a[Len(a)].key \in Texts /\ PlainKey(a[Len(a)].key)
      <3>1. Len(a) > 0 /\ Len(a) \in Nat
        BY <1>1, <2>2 DEF RankInv, LatestCall
      <3>2. a[Len(a)] \in Calls
        BY <1>1, <3>1
      <3>3. QED
        BY <3>2, MessageFields DEF Calls
    <2> DEFINE d == META_GET_ALL
               j == a[Len(a)].key
    <2>4. d \in Requests /\ j \in Texts /\ PlainKey(j)
      BY <2>2, <2>3
    <2> HIDE DEF d, j
    <2>5. DeSerializeCmd(SerializeCmd(Back(d), j, v)) = [command |-> Back(d), key |-> j, value |-> v]
      BY <2>4, ReplyBack
    <2>6. got = [command |-> Back(d), key |-> j, value |-> v]
      BY <1>5, <2>1, <2>5 DEF got, d, j
    <2>7. got.value = v
      BY <2>6
    <2>8. QED
      BY <2>1, <2>7
  <1>8. ASSUME NEW s \in Clients PROVE TuplesSent(s)' /\ TuplesGot(s)'
    <2>1. CASE s = r
      BY <1>6, <1>7, <2>1
    <2>2. CASE s # r
      <3>1. TuplesSent(s) /\ TuplesGot(s) /\ LatestCall(s)
        BY <1>1 DEF TuplesInv, IInv, RankInv
      <3>2. /\ call'[s] = call[s] /\ asked'[s] = asked[s] /\ toClient'[s] = toClient[s]
            /\ (pc'[s] = "idle" => pc[s] \in {"idle", "b01", "sending"})
        BY <1>1, <1>3, <2>2
      <3>3. QED
        BY <3>1, <3>2, TuplesFrame
    <2>3. QED
      BY <2>1, <2>2
  <1>9. ValuesGiven' /\ Placed(Entries)' /\ PlainTuples
    BY <1>1, EntriesStay, FewerPlaced DEF TuplesInv, ValuesGiven
  <1>10. QED
    BY <1>8, <1>9 DEF TuplesInv

\* The server executes a call, and answers a metaGetAll with the caller's metadata.
LEMMA ServerExecTuples ==
  ASSUME IInv, TuplesInv, ServerExec
  PROVE  TuplesInv'
  <1>1. PICK q : q = next
    OBVIOUS
  <1>2. PICK m : m = buf[q]
    OBVIOUS
  <1>3. PICK v \in Answers(q, m) :
          toClient' = IF WantsReply(m.command)
                      THEN [toClient EXCEPT ![q] =
                              Append(@, SerializeCmd(Back(m.command), m.key, v))]
                      ELSE toClient
    BY <1>1, <1>2 DEF ServerExec
  <1>4. /\ q \in Clients /\ q \in Ranks /\ Clients \subseteq Ranks /\ ServeLocal
        /\ server = "exec" /\ m.command # EOL_COMMAND /\ NextMessage /\ Callback(q, m)
        /\ UNCHANGED <<pc, call, asked>>
    BY <1>1, <1>2, ServerAtClient DEF ServerExec
  <1>5. toClient' = IF WantsReply(m.command)
                    THEN [toClient EXCEPT ![q] =
                            Append(@, SerializeCmd(Back(m.command), m.key, v))]
                    ELSE toClient
    BY <1>3
  <1>6. /\ toClient \in [Clients -> Seq(Texts)] /\ ClientInv(q)
        /\ TypeOK /\ StoreSound /\ StoreReflects /\ PlainTuples /\ ValuesGiven /\ Placed(Entries)
        /\ PlainKeys /\ draining \subseteq Ranks
    BY <1>4, TypeParts DEF IInv, TuplesInv
  <1>7. Held(q)
    BY <1>1, <1>4, NextMessageHolds
  <1> DEFINE a == asked[q]
             e == executed[q]
             in == toClient[q]
             c == call[q].command
  <1>8. /\ Len(e) \in Nat /\ Len(a) \in Nat /\ Len(e) < Len(a) /\ m = a[Len(e) + 1] /\ m \in Calls
        /\ m.command \in Requests =>
             pc[q] = "reply" /\ Len(e) + 1 = Len(a) /\ in = <<>> /\ c = m.command
    <2> DEFINE end == Bit(q \in eol)
               cl == Bit(Closing(q))
               w == Bit(pc[q] = "reply")
    <2>1. Pipe(a, e, toServer[q], in, 1, m, end, cl, w, c)
      BY <1>2, <1>6, <1>7 DEF ClientInv, ClientPipe, Bit
    <2>2. w = 1 => pc[q] = "reply"
      BY DEF Bit
    <2> HIDE DEF a, e, in, c, end, cl, w
    <2>3. /\ Len(e) \in Nat /\ Len(a) \in Nat
          /\ Len(e) < Len(a) /\ m = a[Len(e) + 1] /\ m \in Calls
          /\ m.command \in Requests => w = 1 /\ Len(e) + 1 = Len(a) /\ in = <<>> /\ c = m.command
      BY <1>4, <2>1, PipeHeld
    <2>4. QED
      BY <2>2, <2>3
  <1>9. Placed(Entries)'
    <2>1. q \in draining => m.command = WRITE_BARRIER
      BY <1>2, <1>4 DEF IInv, OpenInv, BarrierServed
    <2>2. StoreDoes(q, m)
      BY <1>4, <1>6, <1>8, <2>1, CallbackDoes
    <2>3. QED
      BY <1>4, <1>6, <1>8, <2>2, DoesPlaced
  <1>10. ASSUME m.command \notin Requests, NEW s \in Clients PROVE toClient'[s] = toClient[s]
    BY <1>5, <1>10 DEF WantsReply
  <1>11. /\ \A s \in Clients \ {q} : toClient'[s] = toClient[s]
         /\ m.command \in Requests =>
              toClient'[q] = <<SerializeCmd(Back(m.command), m.key, v)>>
    <2> DEFINE reply == SerializeCmd(Back(m.command), m.key, v)
    <2>1. CASE m.command \in Requests
      <3>1. toClient' = [toClient EXCEPT ![q] = Append(@, reply)] /\ toClient[q] = <<>>
        BY <1>5, <1>8, <2>1 DEF WantsReply
      <3> HIDE DEF reply
      <3>2. toClient'[q] = Append(<<>>, reply) /\ \A s \in Clients \ {q} : toClient'[s] = toClient[s]
        BY <1>4, <1>6, <3>1
      <3>3. Append(<<>>, reply) = <<reply>>
        OBVIOUS
      <3>4. QED
        BY <3>2, <3>3 DEF reply
    <2>2. CASE m.command \notin Requests
      BY <1>10, <2>2
    <2>3. QED
      BY <2>1, <2>2
  <1>12. TuplesSent(q)'
    <2>1. CASE m.command \in Requests
      <3> SUFFICES ASSUME c = META_GET_ALL
                   PROVE  \E u \in Texts :
                            /\ toClient'[q][1] = SerializeCmd(Back(META_GET_ALL), a[Len(a)].key, u)
                            /\ Listed(q, a, Len(a) - 1, VectorTupleDeserialize(u))
        BY <1>4 DEF TuplesSent
      <3>1. m.command = META_GET_ALL /\ m = a[Len(a)] /\ Len(e) = Len(a) - 1
        BY <1>8, <2>1
      <3>2. toClient'[q][1] = SerializeCmd(Back(META_GET_ALL), a[Len(a)].key, v)
        BY <1>11, <2>1, <3>1
      <3>3. v \in Texts
        BY <1>3, <1>4, <1>6, <1>8, AnswerIs
      <3>4. PICK found \in FoundPrefix(MetaPrefix \o RankedKey(q, <<>>)) :
              v = VectorTupleSerialize(found)
        BY <1>3, <3>1 DEF Answers, GET, META_GET, META_GET_ALL
      <3>5. /\ Listed(q, a, Len(e), found)
            /\ VectorTupleDeserialize(VectorTupleSerialize(found)) = found
        <4>1. Len(executed[q]) <= Len(asked[q])
          BY <1>8
        <4>2. QED
          BY <1>4, <1>6, <4>1, OwnFound
      <3>6. QED
        BY <3>1, <3>2, <3>3, <3>4, <3>5
    <2>2. CASE m.command \notin Requests
      <3>1. toClient'[q] = toClient[q] /\ TuplesSent(q)
        BY <1>4, <1>10, <2>2 DEF TuplesInv
      <3>2. QED
        BY <1>4, <3>1 DEF TuplesSent
    <2>3. QED
      BY <2>1, <2>2
  <1>13. TuplesGot(q)'
    BY <1>4 DEF TuplesInv, TuplesGot, Returned
  <1>14. ASSUME NEW s \in Clients PROVE TuplesSent(s)' /\ TuplesGot(s)'
    <2>1. CASE s = q
      BY <1>12, <1>13, <2>1
    <2>2. CASE s # q
      <3>1. TuplesSent(s) /\ TuplesGot(s) /\ LatestCall(s)
        BY <1>4 DEF TuplesInv, IInv, RankInv
      <3>2. /\ call'[s] = call[s] /\ asked'[s] = asked[s] /\ toClient'[s] = toClient[s]
            /\ (pc'[s] = "idle" => pc[s] \in {"idle", "b01", "sending"})
        BY <1>4, <1>11, <2>2
      <3>3. QED
        BY <3>1, <3>2, TuplesFrame
    <2>3. QED
      BY <2>1, <2>2
  <1>15. ValuesGiven'
    BY <1>4, <1>6 DEF ValuesGiven
  <1>16. QED
    BY <1>6, <1>9, <1>14, <1>15 DEF TuplesInv

\* A call of rank 0 concerns no other rank's metadata.
LEMMA LocalCallTuples ==
  ASSUME IInv, TuplesInv, NEW m \in Calls, LocalCall(m.command, m.key, m.value),
         Placed(Entries)', NEW c, call' = [call EXCEPT ![0] = c],
         m.command = META_PUT => m.value \in Values
  PROVE  TuplesInv'
  <1>1. /\ 0 \in Ranks /\ 0 \notin Clients /\ Clients \subseteq Ranks /\ DOMAIN call = Ranks
        /\ asked \in [Ranks -> Seq(Message)] /\ UNCHANGED <<pc, toClient>> /\ m \in Message
        /\ m = [command |-> m.command, key |-> m.key, value |-> m.value]
    BY ClientsAreRanks, TypeParts, MessageFields DEF IInv, LocalCall, channels, Calls
  <1>2. asked' = [asked EXCEPT ![0] = Append(@, m)]
    BY <1>1 DEF LocalCall, Asks
  <1>3. ValuesGiven'
    BY <1>1, <1>2, ValuesMore DEF TuplesInv
  <1>4. ASSUME NEW s \in Clients PROVE TuplesSent(s)' /\ TuplesGot(s)'
    <2>1. TuplesSent(s) /\ TuplesGot(s) /\ LatestCall(s)
      BY <1>1 DEF TuplesInv, IInv, RankInv
    <2>2. /\ call'[s] = call[s] /\ asked'[s] = asked[s] /\ toClient'[s] = toClient[s]
          /\ (pc'[s] = "idle" => pc[s] \in {"idle", "b01", "sending"})
      BY <1>1, <1>2
    <2>3. QED
      BY <2>1, <2>2, TuplesFrame
  <1>5. QED
    BY <1>3, <1>4 DEF TuplesInv

\* Calls of rank 0 keep what holds of the metadata.
LEMMA OwnCallTuples ==
  ASSUME IInv, TuplesInv, OwnCall
  PROVE  TuplesInv'
  <1>1. /\ PUT \in Writes /\ META_PUT \in Writes /\ DEL \in Writes /\ DEL # META_PUT
        /\ {GET, META_GET, META_GET_ALL, READ_BARRIER, WRITE_BARRIER} = Requests
        /\ PlainKeys /\ StoreSound /\ 0 \in Ranks /\ draining \subseteq Ranks
        /\ WRITE_BARRIER \notin Writes /\ META_PUT \notin Requests /\ Placed(Entries)
    BY CommandsApart, ClientsAreRanks, TypeParts DEF Writes, Requests, IInv, TuplesInv
  <1>2. ASSUME NEW c \in Writes, NEW k \in Keys, NEW v \in Values \cup {KV_DUMMY},
               c = META_PUT => v \in Values, LocalWrite(c, k, v)
        PROVE  TuplesInv'
    <2> DEFINE m == [command |-> c, key |-> k, value |-> v]
               d == Began(c, k)
    <2>1. m \in Calls /\ m.command = c /\ (m.command = META_PUT => m.value \in Values)
      BY <1>1, <1>2, CallTexts
    <2>2. /\ LocalCall(m.command, m.key, m.value)
          /\ Mutate(Mutation(0, m.command, m.key, m.value))
          /\ call' = [call EXCEPT ![0] = d]
      BY <1>2 DEF LocalWrite
    <2> HIDE DEF m, d
    <2>3. 0 \notin draining
      BY <1>1, <2>1, <2>2 DEF LocalCall
    <2>4. StoreDoes(0, m)
      BY <1>1, <2>1, <2>2, <2>3, MutateDoes
    <2>5. Placed(Entries)'
      BY <1>1, <2>1, <2>4, DoesPlaced
    <2>6. QED
      BY <2>1, <2>2, <2>5, LocalCallTuples
  <1>3. ASSUME NEW c \in Requests, NEW k,
               k \in Keys \/ (k = KV_DUMMY /\ c \in {META_GET_ALL, READ_BARRIER, WRITE_BARRIER}),
               LocalCall(c, k, KV_DUMMY), UNCHANGED <<db, memtables>>,
               NEW d, call' = [call EXCEPT ![0] = d]
        PROVE  TuplesInv'
    <2> DEFINE m == [command |-> c, key |-> k, value |-> KV_DUMMY]
    <2>1. m \in Calls /\ m.command = c /\ m.command # META_PUT
      BY <1>1, <1>3, CallTexts
    <2>2. LocalCall(m.command, m.key, m.value)
      BY <1>3
    <2> HIDE DEF m
    <2>3. Placed(Entries)'
      BY <1>1, <1>3, EntriesStay, FewerPlaced
    <2>4. QED
      BY <1>3, <2>1, <2>2, <2>3, LocalCallTuples
  <1>4. CASE \E k \in Keys, v \in Values, c \in Commands[0] \cap {PUT, META_PUT} :
               LocalWrite(c, k, v)
    BY <1>1, <1>2, <1>4
  <1>5. CASE \E k \in Keys : LocalWrite(DEL, k, KV_DUMMY)
    BY <1>1, <1>2, <1>5
  <1>6. CASE \E k \in Keys, c \in Commands[0] \cap {GET, META_GET} : LocalGet(c, k)
    <2>1. PICK k \in Keys, c \in {GET, META_GET} : LocalGet(c, k)
      BY <1>6
    <2>2. PICK d : call' = [call EXCEPT ![0] = d]
      BY <2>1 DEF LocalGet
    <2>3. LocalCall(c, k, KV_DUMMY) /\ UNCHANGED <<db, memtables>>
      BY <2>1 DEF LocalGet, storeVars
    <2>4. QED
      BY <1>1, <1>3, <2>2, <2>3
  <1>7. CASE LocalGetAll
    <2>1. PICK d : call' = [call EXCEPT ![0] = d]
      BY <1>7 DEF LocalGetAll
    <2>2. LocalCall(META_GET_ALL, KV_DUMMY, KV_DUMMY) /\ UNCHANGED <<db, memtables>>
      BY <1>7 DEF LocalGetAll, storeVars
    <2>3. QED
      BY <1>1, <1>3, <2>1, <2>2
  <1>8. CASE \E c \in Commands[0] \cap {READ_BARRIER, WRITE_BARRIER} : LocalBarrier(c)
    <2>1. PICK c \in {READ_BARRIER, WRITE_BARRIER} : LocalBarrier(c)
      BY <1>8
    <2>2. PICK d : call' = [call EXCEPT ![0] = d]
      BY <2>1 DEF LocalBarrier
    <2>3. LocalCall(c, KV_DUMMY, KV_DUMMY) /\ UNCHANGED <<db, memtables>>
      BY <2>1 DEF LocalBarrier, BarrierReturns, storeVars
    <2>4. QED
      BY <1>1, <1>3, <2>2, <2>3
  <1>9. CASE LocalBarrierBegins
    <2>1. StoreRests
      BY <1>1, <1>9, BarrierBeginsDoes DEF LocalBarrierBegins
    <2>2. UNCHANGED <<pc, call, asked, toClient>>
      BY <1>9 DEF LocalBarrierBegins, channels
    <2>3. \A s \in Clients : pc'[s] = "idle" => pc[s] \in {"idle", "b01", "sending"}
      BY <2>2
    <2>4. QED
      BY <2>1, <2>2, <2>3, QuietTuples DEF StoreRests
  <1>10. QED
    BY <1>4, <1>5, <1>6, <1>7, <1>8, <1>9 DEF OwnCall

\* Every step keeps what holds of the metadata.
LEMMA NextTuples == IInv /\ TuplesInv /\ [Next]_vars => TuplesInv'
  <1> SUFFICES ASSUME IInv, TuplesInv, [Next]_vars PROVE TuplesInv'
    OBVIOUS
  <1> USE DEF channels, serverVars, storeVars, barriers
  <1>1. pc \in [Ranks -> PCs] /\ Clients \subseteq Ranks /\ 0 \notin Clients /\ StoreSound
    BY TypeParts, ClientsAreRanks DEF IInv
  <1>2. ASSUME NEW r \in Ranks, NEW x, pc' = [pc EXCEPT ![r] = x],
               r # 0 /\ x = "idle" => pc[r] \in {"b01", "sending"},
               UNCHANGED <<call, asked, toClient>>, Entries' \subseteq Entries
        PROVE  TuplesInv'
    <2>1. \A s \in Clients : pc'[s] = "idle" => pc[s] \in {"idle", "b01", "sending"}
      BY <1>1, <1>2
    <2>2. QED
      BY <1>2, <2>1, QuietTuples
  <1>3. ASSUME UNCHANGED <<pc, call, asked, toClient>>, Entries' \subseteq Entries
        PROVE  TuplesInv'
    <2>1. \A s \in Clients : pc'[s] = "idle" => pc[s] \in {"idle", "b01", "sending"}
      BY <1>3
    <2>2. QED
      BY <1>3, <2>1, QuietTuples
  <1>4. CASE UNCHANGED vars
    BY <1>3, <1>4, EntriesStay DEF vars
  <1>5. CASE OwnerStep
    <2>1. CASE OpenLocal
      <3>1. PICK x : pc' = [pc EXCEPT ![0] = x]
        BY <2>1 DEF OpenLocal
      <3>2. UNCHANGED <<call, asked, toClient, db, memtables>> /\ 0 \in Ranks
        BY <2>1, ClientsAreRanks DEF OpenLocal
      <3>3. QED
        BY <1>2, <3>1, <3>2, EntriesStay
    <2>2. CASE PassStart(0)
      <3>1. /\ pc' = [pc EXCEPT ![0] = "idle"] /\ 0 \in Ranks
            /\ UNCHANGED <<call, asked, toClient, db, memtables>>
        BY <2>2, ClientsAreRanks DEF PassStart
      <3>2. QED
        BY <1>2, <3>1, EntriesStay
    <2>3. CASE CloseLocal
      <3>1. PICK x : pc' = [pc EXCEPT ![0] = x]
        BY <2>3 DEF CloseLocal
      <3>2. UNCHANGED <<call, asked, toClient, db, memtables>> /\ 0 \in Ranks
        BY <2>3, ClientsAreRanks DEF CloseLocal
      <3>3. QED
        BY <1>2, <3>1, <3>2, EntriesStay
    <2>4. CASE JoinServer
      <3>1. /\ pc' = [pc EXCEPT ![0] = "b99"] /\ 0 \in Ranks
            /\ UNCHANGED <<call, asked, toClient, db, memtables>>
        BY <2>4, ClientsAreRanks DEF JoinServer
      <3>2. QED
        BY <1>2, <3>1, EntriesStay
    <2>5. CASE LeaveEnd
      <3>1. /\ pc' = [pc EXCEPT ![0] = "close"] /\ 0 \in Ranks
            /\ UNCHANGED <<call, asked, toClient, db, memtables>>
        BY <2>5, ClientsAreRanks DEF LeaveEnd
      <3>2. QED
        BY <1>2, <3>1, EntriesStay
    <2>6. CASE CloseStore
      <3>1. /\ pc' = [pc EXCEPT ![0] = "closed"] /\ 0 \in Ranks
            /\ UNCHANGED <<call, asked, toClient>>
            /\ db' = Applied(db, flight \o queue \o active)
            /\ flight' = <<>> /\ queue' = <<>> /\ active' = <<>> /\ draining' = draining
        BY <2>6, ClientsAreRanks DEF CloseStore
      <3>2. Entries' \subseteq Entries
        <4>1. db' = Contents
          BY <1>1, <3>1, CloseDoes
        <4>2. Contents \subseteq Entries
          BY AppliedMembers DEF Contents, Entries, Range
        <4>3. <<>> \in Seq(Entry) /\ <<>> \o <<>> = <<>> /\ Range(<<>>) = {}
          BY ConcatEmptySeq, RangeGrows
        <4>4. Range(Pending)' = {}
          BY <3>1, <4>3 DEF Pending
        <4>5. QED
          BY <4>1, <4>2, <4>4 DEF Entries
      <3>3. QED
        BY <1>2, <3>1, <3>2
    <2>7. QED
      BY <1>5, <2>1, <2>2, <2>3, <2>4, <2>5, <2>6, OwnCallTuples DEF OwnerStep
  <1>6. CASE ServerStep
    <2>1. CASE ServerCheck
      BY <1>3, <2>1, EntriesStay DEF ServerCheck
    <2>2. CASE ServerRecv
      BY <1>3, <2>2, EntriesStay DEF ServerRecv
    <2>3. CASE ServerEol
      BY <1>3, <2>3, EntriesStay DEF ServerEol
    <2>4. CASE ServerBarrierBegins
      <3>1. StoreRests
        BY <1>1, <2>4, BarrierBeginsDoes DEF ServerBarrierBegins
      <3>2. UNCHANGED <<pc, call, asked, toClient>>
        BY <2>4 DEF ServerBarrierBegins
      <3>3. QED
        BY <1>3, <3>1, <3>2 DEF StoreRests
    <2>5. QED
      BY <1>6, <2>1, <2>2, <2>3, <2>4, ServerExecTuples DEF ServerStep
  <1>7. ASSUME NEW r \in Clients, ClientStep(r) PROVE TuplesInv'
    <2>1. CASE OpenRemote(r)
      <3>1. pc' = [pc EXCEPT ![r] = "b01"] /\ UNCHANGED <<call, asked, toClient, db, memtables>>
        BY <2>1 DEF OpenRemote
      <3>2. QED
        BY <1>1, <1>2, <3>1, EntriesStay
    <2>2. CASE PassStart(r)
      <3>1. /\ pc[r] = "b01" /\ pc' = [pc EXCEPT ![r] = "idle"]
            /\ UNCHANGED <<call, asked, toClient, db, memtables>>
        BY <2>2 DEF PassStart
      <3>2. QED
        BY <1>1, <1>2, <3>1, EntriesStay
    <2>3. CASE SendReturns(r)
      <3>1. /\ pc[r] = "sending" /\ pc' = [pc EXCEPT ![r] = "idle"]
            /\ UNCHANGED <<call, asked, toClient, db, memtables>>
        BY <2>3 DEF SendReturns
      <3>2. QED
        BY <1>1, <1>2, <3>1, EntriesStay
    <2>4. CASE CloseRemote(r)
      <3>1. pc' = [pc EXCEPT ![r] = "eol"] /\ UNCHANGED <<call, asked, toClient, db, memtables>>
        BY <2>4 DEF CloseRemote
      <3>2. QED
        BY <1>1, <1>2, <3>1, EntriesStay
    <2>5. CASE EolSent(r)
      <3>1. pc' = [pc EXCEPT ![r] = "b99"] /\ UNCHANGED <<call, asked, toClient, db, memtables>>
        BY <2>5 DEF EolSent
      <3>2. QED
        BY <1>1, <1>2, <3>1, EntriesStay
    <2>6. CASE PassEnd(r)
      <3>1. pc' = [pc EXCEPT ![r] = "closed"] /\ UNCHANGED <<call, asked, toClient, db, memtables>>
        BY <2>6 DEF PassEnd
      <3>2. QED
        BY <1>1, <1>2, <3>1, EntriesStay
    <2>7. QED
      BY <1>7, <2>1, <2>2, <2>3, <2>4, <2>5, <2>6, RemoteCallTuples, RecvReplyTuples DEF ClientStep
  <1>8. CASE FlushStep
    <2>1. StoreRests
      BY <1>1, <1>8, FlushDoes DEF FlushStep
    <2>2. UNCHANGED <<pc, call, asked, toClient>>
      BY <1>8 DEF FlushStep
    <2>3. QED
      BY <1>3, <2>1, <2>2 DEF StoreRests
  <1>9. QED
    BY <1>4, <1>5, <1>6, <1>7, <1>8 DEF Next

\* A remote metaGetAll returns metadata of its own rank only, and of each key a value
\* that it has had since the rank's last write barrier (on LSMIOStoreRDB the last one),
\* whatever the other ranks have put and sent: after its way through
\* vectorTupleSerialize, serializeCmd, deSerializeCmd and vectorTupleDeserialize.
THEOREM TuplesAreOwn == Spec /\ PlainKeys /\ PlainTuples => []MetaGetAllOwn
  <1>1. Init /\ PlainTuples => TuplesInv
    <2> SUFFICES ASSUME Init, PlainTuples PROVE TuplesInv
      OBVIOUS
    <2>1. ValuesGiven
      <3>1. \A s \in Ranks : Len(asked[s]) = 0
        BY DEF Init
      <3>2. QED
        BY <3>1 DEF ValuesGiven
    <2>2. Placed(Entries)
      <3>1. <<>> \in Seq(Entry) /\ <<>> \o <<>> = <<>> /\ Range(<<>>) = {}
        BY ConcatEmptySeq, RangeGrows
      <3>2. Entries = {}
        BY <3>1 DEF Init, Entries, Pending
      <3>3. QED
        BY <3>2 DEF Placed
    <2>3. ASSUME NEW r \in Clients PROVE TuplesSent(r) /\ TuplesGot(r)
      <3>1. r \in Ranks
        BY ClientsAreRanks
      <3>2. toClient[r] = <<>> /\ pc[r] = "init"
        BY <3>1 DEF Init
      <3>3. QED
        BY <3>2 DEF TuplesSent, TuplesGot, Returned
    <2>4. QED
      BY <2>1, <2>2, <2>3 DEF TuplesInv
  <1>2. TuplesInv => MetaGetAllOwn
    <2> SUFFICES ASSUME TuplesInv, NEW r \in Clients, Returned(r, {META_GET_ALL})
                 PROVE  LET n == Len(asked[r]) - 1
                        IN  \E at \in [Keys -> Oldest(r, n) .. n] :
                              call[r].tuples =
                                {[key |-> MetaPrefix \o RankedKey(r, k),
                                  value |-> Newest(r, TRUE, k, at[k])] :
                                   k \in {j \in Keys : Newest(r, TRUE, j, at[j]) # NoValue}}
      BY DEF MetaGetAllOwn
    <2> DEFINE a == asked[r]
               n == Len(asked[r]) - 1
    <2>1. Listed(r, a, n, call[r].tuples)
      BY DEF TuplesInv, TuplesGot
    <2>2. Oldest(r, n) = OldestOf(a, n)
      BY LastBarrierIs DEF Oldest, OldestOf
    <2>3. \A k : Place(r, TRUE, k) = MetaPrefix \o RankedKey(r, k)
      BY PlaceIs
    <2>4. \A k, i : Newest(r, TRUE, k, i) = NewestOf(a, TRUE, k, i)
      BY NewestIs
    <2> HIDE DEF n
    <2>5. PICK at \in [Keys -> OldestOf(a, n) .. n] : call[r].tuples = OwnTuples(r, a, at)
      BY <2>1 DEF Listed
    <2> DEFINE own == {[key |-> MetaPrefix \o RankedKey(r, k), value |-> Newest(r, TRUE, k, at[k])] :
                         k \in {j \in Keys : Newest(r, TRUE, j, at[j]) # NoValue}}
    <2>6. own = OwnTuples(r, a, at)
      <3> DEFINE line(k) == [key |-> MetaPrefix \o RankedKey(r, k), value |-> Newest(r, TRUE, k, at[k])]
                 row(k) == [key |-> Place(r, TRUE, k), value |-> NewestOf(a, TRUE, k, at[k])]
                 here == {j \in Keys : Newest(r, TRUE, j, at[j]) # NoValue}
                 there == {j \in Keys : NewestOf(a, TRUE, j, at[j]) # NoValue}
      <3>1. \A k : line(k) = row(k)
        BY <2>3, <2>4, Zenon
      <3>2. here = there
        BY <2>4
      <3>3. own = {line(k) : k \in here} /\ OwnTuples(r, a, at) = {row(k) : k \in there}
        BY DEF OwnTuples
      <3> HIDE DEF line, row, here, there, own
      <3>4. {line(k) : k \in here} = {row(k) : k \in there}
        BY <3>1, <3>2
      <3>5. QED
        BY <3>3, <3>4
    <2>7. at \in [Keys -> Oldest(r, n) .. n] /\ call[r].tuples = own
      BY <2>2, <2>5, <2>6
    <2> HIDE DEF own
    <2>8. QED
      BY <2>7 DEF n, own
  <1>3. QED
    BY <1>1, <1>2, NextTuples, CollectiveInvariant, PTL DEF Spec

=============================================================================
