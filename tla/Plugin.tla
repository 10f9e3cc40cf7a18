------------------------------- MODULE Plugin -------------------------------
(***************************************************************************)
(* LsmioPlugin, the ADIOS2 engine, on all ranks of a job: what a put       *)
(* stores, what the engine writes about the variables at the end of a step *)
(* and at close, and what another job, or the same one after a crash,      *)
(* finds.  The ADIOS2 library is its IO object: the variables a rank has   *)
(* defined, with their selections.                                         *)
(*                                                                         *)
(* A store is the history of its writes (DurableLog), of which a crash may *)
(* make some unreadable (NativeStore); a call of a rank reaches the store  *)
(* of its group in one step (CollectiveIO): a rank reads nothing that it   *)
(* is writing at the time.                                                 *)
(***************************************************************************)
EXTENDS Aggregation, Sequences, SequencesExt, TLC

CONSTANTS Parameters,    \* pairs of AggregationType and AggregatorRatio
          Writers,       \* the ranks whose application has variables
          Variables,     \* names
          TypesOf,       \* possible types of them: functions to VariableTypes
          Selections,    \* records of shape, start and count
          Precision,     \* significant digits an ostream prints of a double
          MaxNumber,     \* bound: numbers that are put
          MaxPuts,       \* bound: number of puts
          MaxOpens,      \* bound: how often the engine is opened
          MaxEntries     \* bound: length of the stores' histories together

VariableTypes == {"double", "short", "string"}
NoVariable == [shape |-> <<>>, start |-> <<>>, count |-> <<-1>>]

ASSUME WriterAssumption == Writers \subseteq Ranks
ASSUME TypesAssumption == TypesOf \subseteq [Variables -> VariableTypes]
ASSUME NameAssumption == ";" \notin Variables
ASSUME PluginBoundAssumption ==
  /\ Precision \in Nat \ {0} /\ MaxNumber \in Nat
  /\ MaxPuts \in Nat /\ MaxOpens \in Nat /\ MaxEntries \in Nat

VARIABLES agg,      \* gConfigLSMIO.mpiAggType
          types,    \* m_Type of the variables
          mode,     \* m_OpenMode, "closed" when there is no engine
          phase,    \* where a rank is
          todo,     \* variables WriteVarsFromIO has not come to yet
          io,       \* m_IO: the selection of a rank's variables
          stores,   \* the stores: history of writes, and how many surely are on disk
          puts,     \* history: number of puts
          opens,    \* history: how often the engine was opened
          result    \* of a get that has just returned

vars == <<agg, types, mode, phase, todo, io, stores, puts, opens, result>>

NoResult == [kind |-> "none"]

Init ==
  /\ \E p \in Parameters : agg = MpiAggType(p[1], p[2])
  /\ types \in TypesOf
  /\ mode = "closed"
  /\ phase = [r \in Ranks |-> "closed"]
  /\ todo = [r \in Ranks |-> {}]
  /\ io = [r \in Ranks |-> [v \in Variables |-> NoVariable]]
  /\ stores = [p \in Paths(agg) |-> [log |-> <<>>, durable |-> 0]]
  /\ puts = 0 /\ opens = 0
  /\ result = NoResult

-----------------------------------------------------------------------------
(***************************************************************************)
(* Texts are sequences of tokens.                                          *)
(***************************************************************************)
NumberText == [n \in 0 .. MaxNumber |-> ToString(n)]

ASSUME NumberTextAssumption ==
  /\ \A n \in 0 .. MaxNumber : NumberText[n] \notin {",", ";"}
  /\ IsInjective(NumberText)

StoI(token) == CHOOSE n \in 0 .. MaxNumber : NumberText[n] = token

\* std::ostream << double: all but the first digits are lost.
Rounded(x) ==
  LET digits == CHOOSE d \in 1 .. 10 : x < 10 ^ d /\ (d = 1 \/ x >= 10 ^ (d - 1))
      unit == IF digits > Precision THEN 10 ^ (digits - Precision) ELSE 1
  IN  ((x + unit \div 2) \div unit) * unit

\* A plausible bug: there is no comma between the values.
JoinedClosely(tokens, separator) == tokens

Joined(tokens, separator) ==
  [i \in 1 .. 2 * Len(tokens) - 1 |-> IF i % 2 = 1 THEN tokens[(i + 1) \div 2] ELSE separator]

\* std::getline until the end.
AddToken(fields, token, separator) ==
  IF token = separator THEN Append(fields, <<>>)
  ELSE [fields EXCEPT ![Len(fields)] = Append(@, token)]

Fields(text, separator) ==
  LET upTo[n \in 0 .. Len(text)] ==
        IF n = 0 THEN << <<>> >> ELSE AddToken(upTo[n - 1], text[n], separator)
  IN  IF text = <<>> THEN <<>> ELSE upTo[Len(text)]

Numbers(tokens) == [i \in 1 .. Len(tokens) |-> NumberText[tokens[i]]]
Parsed(fields) == [i \in 1 .. Len(fields) |-> StoI(fields[i][1])]

DimsText(dims) == <<"{">> \o Joined(Numbers(dims), ",") \o <<"}">>
ConvertStrToDims(text) ==
  IF Len(text) > 2 THEN Parsed(Fields(SubSeq(text, 2, Len(text) - 1), ",")) ELSE <<>>

WriteVariableInfo(v, type, s) ==
  <<v, ";", type, ";">> \o DimsText(s.shape) \o <<";">> \o DimsText(s.start)
    \o <<";">> \o DimsText(s.count)

\* Init's five getline calls.
ParsedInfo(text) ==
  LET fields == Fields(text, ";")
  IN  [name |-> fields[1][1],
       selection |-> [shape |-> ConvertStrToDims(fields[3]),
                      start |-> ConvertStrToDims(fields[4]),
                      count |-> ConvertStrToDims(fields[5])]]

SelectionSize(s) ==
  LET size[n \in 0 .. Len(s.count)] == IF n = 0 THEN 1 ELSE s.count[n] * size[n - 1]
  IN  size[Len(s.count)]

\* The text of the values, as WriteVariable makes it.
ValueText(type, data) ==
  CASE type = "double" -> Joined(Numbers([i \in DOMAIN data |-> Rounded(data[i])]), ",")
    [] type = "short" -> Joined(Numbers(data), ",")
    [] type = "string" -> data

-----------------------------------------------------------------------------
(***************************************************************************)
(* The store of a rank.  An entry names its writer and what it wrote,      *)
(* which is history.                                                       *)
(***************************************************************************)
\* A plausible bug: the rank is left out of the key.
UnrankedKey(r, meta, v) == [meta |-> meta, rank |-> NoRank, name |-> v]

Key(r, meta, v) == [meta |-> meta, rank |-> RankOfKey(agg, r), name |-> v]

Store(r) == stores[DbPath(agg, r)]

Stored(r, key, text, what) ==
  stores' = [stores EXCEPT ![DbPath(agg, r)].log =
               Append(@, [key |-> key, text |-> text, writer |-> r, what |-> what,
                          lost |-> FALSE])]

MayStore == MapThenSumSet(LAMBDA p : Len(stores[p].log), DOMAIN stores) < MaxEntries

\* The newest of the entries that pass a test, {} when there is none.
Newest(log, Test(_)) ==
  {log[i] : i \in {n \in DOMAIN log :
                     Test(log[n]) /\ \A j \in DOMAIN log : j > n => ~Test(log[j])}}

\* LSMIOManager::get leaves the text empty when there is no such key.
Lookup(r, key) ==
  LET found == Newest(Store(r).log, LAMBDA e : e.key = key /\ ~e.lost)
  IN  IF found = {} THEN <<>> ELSE (CHOOSE e \in found : TRUE).text

\* LSMIOManager::metaGetAll: the aggregating rank finds the entries of its whole
\* group, in the order of their keys, the other ranks find their own.  The order of
\* the names is left open.
MetaGetAll(r) ==
  LET keys == {e.key : e \in {x \in Range(Store(r).log) :
                                /\ x.key.meta /\ ~x.lost
                                /\ \/ AggRank(agg, r) = 0
                                   \/ x.key.rank = RankOfKey(agg, r)}}
      places == 1 .. Cardinality(keys)
  IN  {[i \in places |-> ParsedInfo(Lookup(r, ordered[i]))] :
         ordered \in {f \in [places -> keys] :
                         /\ Range(f) = keys
                         /\ \A i, j \in places : i < j => f[i].rank <= f[j].rank}}

-----------------------------------------------------------------------------
\* A plausible bug: a variable is defined anew when it is found again.
RedefineVariable(variables, info) == [variables EXCEPT ![info.name] = info.selection]

AddVariable(variables, info) ==
  [variables EXCEPT ![info.name] = IF @ = NoVariable THEN info.selection ELSE @]

\* Init's loop.
AddVariables(variables, infos) ==
  LET upTo[n \in 0 .. Len(infos)] ==
        IF n = 0 THEN variables ELSE AddVariable(upTo[n - 1], infos[n])
  IN  upTo[Len(infos)]

\* All ranks open the engine, with a new IO object or the one they had; the
\* managers' barrier lets none go on before the stores are open.
Open(m, fresh) ==
  /\ mode = "closed" /\ opens < MaxOpens
  /\ mode' = m /\ opens' = opens + 1
  /\ phase' = [r \in Ranks |-> IF m = "Read" THEN "init" ELSE "open"]
  /\ io' = IF fresh THEN [r \in Ranks |-> [v \in Variables |-> NoVariable]] ELSE io
  /\ stores' = IF m = "Write" THEN [p \in DOMAIN stores |-> [log |-> <<>>, durable |-> 0]]
                              ELSE stores
  /\ result' = NoResult
  /\ UNCHANGED <<agg, types, todo, puts>>

\* The rest of Init in read mode.
Discover(r) ==
  /\ phase[r] = "init"
  /\ \E infos \in MetaGetAll(r) : io' = [io EXCEPT ![r] = AddVariables(@, infos)]
  /\ phase' = [phase EXCEPT ![r] = "open"]
  /\ result' = NoResult
  /\ UNCHANGED <<agg, types, mode, todo, stores, puts, opens>>

\* DefineVariable when writing, SetSelection when reading.
Select(r, v, s) ==
  /\ phase[r] = "open" /\ r \in Writers
  /\ (mode = "Read") = (io[r][v] # NoVariable) /\ io[r][v] # s
  /\ io' = [io EXCEPT ![r][v] = s]
  /\ result' = NoResult
  /\ UNCHANGED <<agg, types, mode, phase, todo, stores, puts, opens>>

\* What the next put writes: other numbers than any put before.
Number(n, i) == 100 * (n + 1) + 10 * i + 3
Data(v, s) ==
  IF types[v] = "string" THEN <<NumberText[puts], ",", "z">>
  ELSE [i \in 1 .. SelectionSize(s) |-> Number(puts, i)]

\* The bound leaves room for the dimensions, and for the numbers that are put and
\* what is printed of them.
ASSUME SelectionAssumption ==
  Selections \subseteq [shape : Seq(0 .. MaxNumber), start : Seq(0 .. MaxNumber),
                        count : Seq(0 .. MaxNumber)]
ASSUME NumbersFit ==
  \A n \in 0 .. MaxPuts - 1, s \in Selections : \A i \in 1 .. SelectionSize(s) :
    {Number(n, i), Rounded(Number(n, i))} \subseteq 0 .. MaxNumber

\* DoPutSync and DoPutDeferred.
Put(r, v) ==
  /\ phase[r] = "open" /\ mode # "Read"
  /\ io[r][v] # NoVariable
  /\ puts < MaxPuts /\ MayStore
  /\ LET data == Data(v, io[r][v])
     IN  Stored(r, Key(r, FALSE, v), ValueText(types[v], data), data)
  /\ puts' = puts + 1
  /\ result' = NoResult
  /\ UNCHANGED <<agg, types, mode, phase, todo, io, opens>>

Defined(r) == {v \in Variables : io[r][v] # NoVariable}

\* PerformPuts, which EndStep calls when the engine writes.
EndStep(r) ==
  /\ phase[r] = "open" /\ mode # "Read"
  /\ Defined(r) # {}
  /\ todo' = [todo EXCEPT ![r] = Defined(r)]
  /\ phase' = [phase EXCEPT ![r] = "step"]
  /\ result' = NoResult
  /\ UNCHANGED <<agg, types, mode, io, stores, puts, opens>>

\* DoClose calls PerformPuts in every mode.
DoClose(r) ==
  /\ phase[r] = "open"
  /\ todo' = [todo EXCEPT ![r] = Defined(r)]
  /\ phase' = [phase EXCEPT ![r] = "close"]
  /\ result' = NoResult
  /\ UNCHANGED <<agg, types, mode, io, stores, puts, opens>>

\* One turn of WriteVarsFromIO; after the last one EndStep returns.
Describe(r, v) ==
  /\ v \in todo[r] /\ MayStore
  /\ Stored(r, Key(r, TRUE, v), WriteVariableInfo(v, types[v], io[r][v]), io[r][v])
  /\ todo' = [todo EXCEPT ![r] = @ \ {v}]
  /\ phase' = [phase EXCEPT ![r] = IF @ = "step" /\ todo[r] = {v} THEN "open" ELSE @]
  /\ result' = NoResult
  /\ UNCHANGED <<agg, types, mode, io, puts, opens>>

\* LSMIOManager::close of the ranks of a group, up to the barrier and the close
\* of their store; the job goes on when all groups have done it.
CloseGroup(r) ==
  /\ \A s \in AggComm(agg, r) : phase[s] = "close" /\ todo[s] = {}
  /\ stores' = [stores EXCEPT ![DbPath(agg, r)].durable = Len(Store(r).log)]
  /\ phase' = [s \in Ranks |-> IF s \in AggComm(agg, r) THEN "closed" ELSE phase[s]]
  /\ mode' = IF \A s \in Ranks : phase'[s] = "closed" THEN "closed" ELSE mode
  /\ result' = NoResult
  /\ UNCHANGED <<agg, types, todo, io, puts, opens>>

\* What ReadVariable makes of a text.  Of the type double it takes all there is,
\* and StringTo throws on an empty text; of the type short as many as the reader
\* selects, and past the end of the vector that is undefined.
ReadVariable(type, s, text) ==
  CASE type = "string" -> [kind |-> "values", values |-> text]
    [] type = "double" -> IF text = <<>> THEN [kind |-> "throws", values |-> <<>>]
                          ELSE [kind |-> "values", values |-> Parsed(Fields(text, ","))]
    [] type = "short" -> LET n == SelectionSize(s)
                             all == Parsed(Fields(text, ","))
                         IN  IF n > Len(all) THEN [kind |-> "undefined", values |-> <<>>]
                             ELSE [kind |-> "values", values |-> SubSeq(all, 1, n)]

\* DoGetSync and DoGetDeferred.
Get(r, v) ==
  /\ phase[r] = "open" /\ mode = "Read"
  /\ io[r][v] # NoVariable
  /\ LET read == ReadVariable(types[v], io[r][v], Lookup(r, Key(r, FALSE, v)))
     IN  result' = [rank |-> r, name |-> v, selected |-> SelectionSize(io[r][v]),
                    kind |-> read.kind, values |-> read.values]
  /\ UNCHANGED <<agg, types, mode, phase, todo, io, stores, puts, opens>>

\* What a crash leaves of a store: a beginning of its history.  In the file that the
\* native store was writing, which holds the entries after number file, the last one
\* may be cut inside its value; its place in the index then hides the earlier ones
\* of its key in that file, and only older files answer for the key.
LastTorn(log, kept, file) ==
  [i \in 1 .. kept |->
     [log[i] EXCEPT !.lost = @ \/ (file < i /\ log[i].key = log[kept].key)]]

Crashed(store) ==
  UNION {{[log |-> SubSeq(store.log, 1, kept), durable |-> kept]}
           \cup {[log |-> LastTorn(store.log, kept, file), durable |-> kept] :
                   file \in store.durable .. kept - 1} :
         kept \in store.durable .. Len(store.log)}

\* The job dies.
Crash ==
  /\ mode # "closed"
  /\ stores' \in {f \in [DOMAIN stores -> UNION {Crashed(stores[p]) : p \in DOMAIN stores}] :
                    \A p \in DOMAIN stores : f[p] \in Crashed(stores[p])}
  /\ mode' = "closed"
  /\ phase' = [r \in Ranks |-> "closed"]
  /\ todo' = [r \in Ranks |-> {}]
  /\ io' = [r \in Ranks |-> [v \in Variables |-> NoVariable]]
  /\ result' = NoResult
  /\ UNCHANGED <<agg, types, puts, opens>>

Next ==
  \/ \E m \in {"Write", "Append", "Read"}, fresh \in BOOLEAN : Open(m, fresh)
  \/ \E r \in Ranks :
       \/ Discover(r) \/ EndStep(r) \/ DoClose(r) \/ CloseGroup(r)
       \/ \E v \in Variables : Put(r, v) \/ Describe(r, v) \/ Get(r, v)
       \/ \E v \in Variables, s \in Selections : Select(r, v, s)
  \/ Crash

Spec == Init /\ [][Next]_vars

-----------------------------------------------------------------------------
\* The newest thing a rank itself has written of a variable that no crash has lost.
Own(r, meta, v) ==
  Newest(Store(r).log, LAMBDA e : /\ e.writer = r /\ e.key.meta = meta /\ e.key.name = v
                                  /\ ~e.lost)

\* What can be read of data: integers and strings as they were, floating-point
\* numbers as far as they were printed.
Readable(type, data) ==
  IF type = "double" THEN [i \in DOMAIN data |-> Rounded(data[i])] ELSE data

\* A rank reads the last of its own puts that no crash has lost, whatever the other
\* ranks put under the same name, however the ranks are grouped and however often
\* the engine was opened since: a reader that selects no more than was put gets its
\* first values, never another rank's nor those of two puts, and the engine throws
\* only when none of the rank's puts is left.  After a crash that may be a put from
\* before the last ones, or none (WriteVariable, ReadVariable, _rankedKey).
ReadsLastPut ==
  result.kind # "none" =>
    LET own == Own(result.rank, FALSE, result.name)
        nothing == \A e \in own : e.what = <<>>
    IN  CASE result.kind = "throws" -> nothing
          [] result.kind = "undefined" -> \A e \in own : Len(e.what) < result.selected
          [] OTHER -> IF nothing THEN result.values = <<>>
                      ELSE \A e \in own : IsPrefix(result.values, Readable(types[result.name], e.what))

\* A key of a store has one writer: groups do not share a directory, nor the
\* ranks of a group a key (_dbPath, _rankedKey).
OneWriterPerKey ==
  \A p \in DOMAIN stores : \A i, j \in DOMAIN stores[p].log :
    stores[p].log[i].key = stores[p].log[j].key =>
      stores[p].log[i].writer = stores[p].log[j].writer

\* A rank that opens the engine for reading finds every variable of which a
\* description of its own is left, with the selection of the last one left, also on
\* the aggregating rank, which finds the descriptions of the other ranks, too; and
\* what its IO object had before stays (Init, AddVariable, metaGetAll).
DiscoversOwn ==
  [][\A r \in Ranks : phase[r] = "init" /\ phase'[r] = "open" =>
       \A v \in Variables :
         IF io[r][v] # NoVariable THEN io'[r][v] = io[r][v]
         ELSE \A e \in Own(r, TRUE, v) : io'[r][v] = e.what]_vars
=============================================================================
