---------------------------- MODULE CollectiveIO ----------------------------
(***************************************************************************)
(* LSMIOManager and LSMIOClient on the ranks of one aggregation            *)
(* communicator.  Rank 0 owns the store; every other rank sends its calls  *)
(* to rank 0, where a server thread receives one command from every rank,  *)
(* executes them in the order of the ranks and answers the ones that ask   *)
(* for something.                                                          *)
(*                                                                         *)
(* The store is LSMIOStoreNative, in as much of its detail as its callers  *)
(* can tell (NativeStore has the rest), or LSMIOStoreRDB.  LSMIOStoreLDB   *)
(* is left out: rank 0's thread and the server thread are two callers, and *)
(* they break its batch (BatchStore).  No write to a file fails.  MPI is a *)
(* queue per pair of ranks, and barriers that everybody enters.            *)
(***************************************************************************)
EXTENDS Wire, TLC

CONSTANTS Size,         \* ranks of the communicator, _aggSize
          Keys,         \* texts the application uses as keys
          Values,       \* texts it uses as values
          Commands,     \* [Ranks -> sets of commands]: the ones each rank uses
          Quota,        \* [Ranks -> Nat]: the calls each rank makes before close
          Eager,        \* TRUE: MPI_Send returns at once; FALSE: when it is received
          Storage       \* "NativeDB" or "RocksDB"

Ranks == 0 .. Size - 1
Clients == 1 .. Size - 1

\* KV_CMD, KV_CMD_RETURN and the other texts of the protocol.
GET == <<"get">>
PUT == <<"put">>
DEL == <<"del">>
META_GET == <<"metaGet">>
META_GET_ALL == <<"metaGetAll">>
META_PUT == <<"metaPut">>
READ_BARRIER == <<"rBarrier">>
WRITE_BARRIER == <<"wBarrier">>
EOL_COMMAND == <<"__EOL">>
KV_DUMMY == <<"DUMMY">>
NoValue == <<>>

Writes == {PUT, DEL, META_PUT}
Requests == {GET, META_GET, META_GET_ALL, READ_BARRIER, WRITE_BARRIER}
Back(command) == Append(command, "Back")

Token == STRING
Texts == Seq(Token)

ASSUME SizeAssumption == Size \in Nat \ {0}
ASSUME TokenAssumption ==
  {ColSeparator, TupleSeparator, LineEnd, "get", "put", "del", "metaGet", "metaGetAll", "metaPut",
   "rBarrier", "wBarrier", "Back", "__EOL", "DUMMY", "__lsmio_md::"} \subseteq Token
ASSUME TextAssumption == Keys \subseteq Texts /\ Values \subseteq Texts \ {NoValue}
ASSUME CommandAssumption == Commands \in [Ranks -> SUBSET (Writes \cup Requests)]
ASSUME QuotaAssumption == Quota \in [Ranks -> Nat]
ASSUME ModeAssumption == Eager \in BOOLEAN /\ Storage \in {"NativeDB", "RocksDB"}

VARIABLES pc,         \* what the application's thread of a rank is doing
          call,       \* its latest call with its result
          asked,      \* history: the calls it has made
          executed,   \* history: the calls the store has seen, as it saw them
          toServer,   \* messages from a rank to rank 0
          toClient,   \* messages from rank 0 to a rank
          server,     \* the server thread
          next,       \* recv_i, the rank it has come to
          buf,        \* recvBuf, what it has received in this round
          eol,        \* eolRanks
          open,       \* whether rank 0 has its store
          db,         \* what its files hold: at most one entry per key
          flight,     \* the memtable the flush thread is writing to a file
          queue,      \* _immutable_memtables, one after the other
          active,     \* _active_memtable
          draining,   \* ranks whose writeBarrier waits in the store
          atStart,    \* ranks that have entered the first barrier
          atEnd       \* ranks that have entered the last one

memtables == <<flight, queue, active>>
storeVars == <<open, db, memtables, draining>>
serverVars == <<server, next, buf, eol>>
channels == <<toServer, toClient>>
barriers == <<atStart, atEnd>>
vars == <<pc, call, asked, executed, channels, serverVars, storeVars, barriers>>


(***************************************************************************)
(* The store, as LSMIOStore's callers see it.  A mutation without a value  *)
(* is a delete.                                                            *)
(***************************************************************************)
ServeLocal == Size > 1

\* A plausible bug: the rank is left out of the key.
UnrankedKey(rank, key) == key

\* LSMIOManager::_rankedKey below LSMIOStore's _metaPrefix.
RankedKey(rank, key) == IF ServeLocal THEN <<ToString(rank)>> \o key ELSE key
MetaPrefix == <<"__lsmio_md::">>

\* std::to_string tells the ranks apart, and none of them is the prefix or a separator.
ASSUME RankTextAssumption ==
  \A r, s \in Ranks : /\ ToString(r) \in Token /\ <<ToString(r)>> # MetaPrefix
                      /\ ToString(r) \notin {TupleSeparator, LineEnd}
                      /\ ToString(r) = ToString(s) => r = s

StoreKey(rank, command, key) ==
  IF command \in {META_GET, META_PUT} THEN MetaPrefix \o RankedKey(rank, key)
                                      ELSE RankedKey(rank, key)

\* Of the mutations of one key the last one counts.
Applied(contents, mutations) ==
  LET last == {i \in DOMAIN mutations :
                 \A j \in DOMAIN mutations : j > i => mutations[j].key # mutations[i].key}
  IN  {e \in contents : \A i \in DOMAIN mutations : mutations[i].key # e.key}
        \cup {mutations[i] : i \in {n \in last : mutations[n].value # NoValue}}

Lookup(contents, key) ==
  IF \E e \in contents : e.key = key
  THEN (CHOOSE e \in contents : e.key = key).value ELSE NoValue

PrefixLookup(contents, prefix) ==
  {e \in contents : IsPrefix(prefix, e.key) /\ e.value # NoValue}

\* _batchMutation.  Sizes are left out: the active memtable may be full at any
\* mutation, and where the immutable ones end is left open.  A mutation that
\* waits for room in the queue is the step in which its wait is over.
Mutate(m) ==
  \/ /\ Storage = "RocksDB"
     /\ db' = Applied(db, <<m>>)
     /\ UNCHANGED <<open, memtables, draining>>
  \/ /\ Storage = "NativeDB"
     /\ \/ active' = Append(active, m) /\ UNCHANGED queue
        \/ active # <<>> /\ active' = <<m>> /\ queue' = queue \o active
     /\ UNCHANGED <<open, db, flight, draining>>

\* The flush thread takes the oldest immutable memtable, and later has its file
\* in the index.
StorePops ==
  /\ open
  /\ flight = <<>>
  /\ \E n \in 1 .. Len(queue) : /\ flight' = SubSeq(queue, 1, n)
                              /\ queue' = SubSeq(queue, n + 1, Len(queue))
  /\ UNCHANGED <<open, db, active, draining>>

StoreFlushes ==
  /\ open
  /\ flight # <<>>
  /\ db' = Applied(db, flight)
  /\ flight' = <<>>
  /\ UNCHANGED <<open, queue, active, draining>>

\* A lookup leaves the mutex before it turns to the files, where the memtable in
\* flight is by then or is not.
FilesSeen == {db, Applied(db, flight)}

Found(key) == {Lookup(Applied(files, queue \o active), key) : files \in FilesSeen}

\* getPrefix puts what it finds in an older memtable over what it has from a newer
\* one: of a key in memory it may return any version.
FoundPrefix(prefix) ==
  LET memory == queue \o active
      keys == {memory[i].key : i \in DOMAIN memory}
      picks == {p \in [keys -> DOMAIN memory] : \A k \in keys : memory[p[k]].key = k}
      seen(files, p) == {e \in files : e.key \notin keys} \cup {memory[p[k]] : k \in keys}
  IN  {PrefixLookup(seen(files, p), prefix) : files \in FilesSeen, p \in picks}

\* writeBarrier rotates the active memtable and waits until none is left to write;
\* what is put meanwhile stays in the new one.  LSMIOStoreRDB has nothing to drain.
BarrierBegins(rank) ==
  /\ rank \notin draining
  /\ draining' = draining \cup {rank}
  /\ queue' = queue \o active
  /\ active' = <<>>
  /\ UNCHANGED <<open, db, flight>>

\* A plausible bug: the memtable that is being written is forgotten.
BarrierReturnsUnwritten(rank) ==
  /\ rank \in draining
  /\ queue = <<>>
  /\ draining' = draining \ {rank}
  /\ UNCHANGED <<open, db, memtables>>

BarrierReturns(rank) ==
  /\ rank \in draining
  /\ queue = <<>> /\ flight = <<>>
  /\ draining' = draining \ {rank}
  /\ UNCHANGED <<open, db, memtables>>

Mutation(rank, command, key, value) ==
  [key   |-> StoreKey(rank, command, key),
   value |-> IF command = DEL THEN NoValue ELSE value]

-----------------------------------------------------------------------------
(***************************************************************************)
(* The constructor, _init.  Rank 0 opens its store and starts the server   *)
(* thread before the barrier B01; with one rank there is neither.          *)
(***************************************************************************)
NoMessage == [command |-> <<>>, key |-> <<>>, value |-> <<>>]
NoCall == [command |-> <<>>, key |-> <<>>, result |-> <<>>, tuples |-> {}, ok |-> TRUE]

\* A call and, once there is one, its result.
Called(command, key, result, tuples, ok) ==
  [command |-> command, key |-> key, result |-> result, tuples |-> tuples, ok |-> ok]
Began(command, key) == Called(command, key, <<>>, {}, TRUE)

Init ==
  /\ pc = [r \in Ranks |-> "init"]
  /\ call = [r \in Ranks |-> NoCall]
  /\ asked = [r \in Ranks |-> <<>>]
  /\ executed = [r \in Ranks |-> <<>>]
  /\ toServer = [r \in Clients |-> <<>>]
  /\ toClient = [r \in Clients |-> <<>>]
  /\ server = "off"
  /\ next = 1
  /\ buf = [r \in Clients |-> NoMessage]
  /\ eol = {}
  /\ open = FALSE
  /\ db = {}
  /\ flight = <<>> /\ queue = <<>> /\ active = <<>>
  /\ draining = {}
  /\ atStart = {}
  /\ atEnd = {}

OpenLocal ==
  /\ pc[0] = "init"
  /\ open' = TRUE
  /\ IF ServeLocal
     THEN /\ server' = "check"
          /\ pc' = [pc EXCEPT ![0] = "b01"]
          /\ atStart' = atStart \cup {0}
     ELSE /\ pc' = [pc EXCEPT ![0] = "idle"]
          /\ UNCHANGED <<server, atStart>>
  /\ UNCHANGED <<call, asked, executed, channels, next, buf, eol, db, memtables, draining, atEnd>>

OpenRemote(r) ==
  /\ pc[r] = "init"
  /\ pc' = [pc EXCEPT ![r] = "b01"]
  /\ atStart' = atStart \cup {r}
  /\ UNCHANGED <<call, asked, executed, channels, serverVars, storeVars, atEnd>>

PassStart(r) ==
  /\ pc[r] = "b01"
  /\ atStart = Ranks
  /\ pc' = [pc EXCEPT ![r] = "idle"]
  /\ UNCHANGED <<call, asked, executed, channels, serverVars, storeVars, barriers>>

-----------------------------------------------------------------------------
(***************************************************************************)
(* Calls.  A rank other than 0 sends a write and goes on when MPI_Send     *)
(* returns; a request waits for its answer.                                *)
(***************************************************************************)
MayCall(r) == pc[r] = "idle" /\ Len(asked[r]) < Quota[r]

Asks(r, command, key, value) ==
  asked' = [asked EXCEPT ![r] =
              Append(@, [command |-> command, key |-> key, value |-> value])]

Sent(command, r, key, value) ==
  toServer' = [toServer EXCEPT ![r] = Append(@, SerializeCmd(command, key, value))]

RemoteWrite(r, command, key, value) ==
  /\ MayCall(r)
  /\ Asks(r, command, key, value)
  /\ Sent(command, r, key, value)
  /\ call' = [call EXCEPT ![r] = Began(command, key)]
  /\ pc' = [pc EXCEPT ![r] = "sending"]
  /\ UNCHANGED <<executed, toClient, serverVars, storeVars, barriers>>

SendReturns(r) ==
  /\ pc[r] = "sending"
  /\ Eager \/ toServer[r] = <<>>
  /\ pc' = [pc EXCEPT ![r] = "idle"]
  /\ UNCHANGED <<call, asked, executed, channels, serverVars, storeVars, barriers>>

RemoteRequest(r, command, key) ==
  /\ MayCall(r)
  /\ Asks(r, command, key, KV_DUMMY)
  /\ Sent(command, r, key, KV_DUMMY)
  /\ call' = [call EXCEPT ![r] = Began(command, key)]
  /\ pc' = [pc EXCEPT ![r] = "reply"]
  /\ UNCHANGED <<executed, toClient, serverVars, storeVars, barriers>>

\* recvCommand and what follows it: the only thing checked is the command.
RecvReply(r) ==
  /\ pc[r] = "reply"
  /\ toClient[r] # <<>>
  /\ LET m == DeSerializeCmd(Head(toClient[r]))
         command == call[r].command
         tuples == IF command = META_GET_ALL THEN VectorTupleDeserialize(m.value) ELSE {}
     IN  call' = [call EXCEPT ![r] = Called(command, call[r].key, m.value, tuples,
                                            m.command = Back(command))]
  /\ toClient' = [toClient EXCEPT ![r] = Tail(@)]
  /\ pc' = [pc EXCEPT ![r] = "idle"]
  /\ UNCHANGED <<asked, executed, toServer, serverVars, storeVars, barriers>>

\* Rank 0 calls its store itself, beside the server thread.
LocalCall(command, key, value) ==
  /\ MayCall(0)
  /\ 0 \in draining <=> command = WRITE_BARRIER
  /\ Asks(0, command, key, value)
  /\ executed' = [executed EXCEPT ![0] =
                    Append(@, [command |-> command, key |-> key, value |-> value])]
  /\ UNCHANGED <<pc, channels, serverVars, barriers>>

LocalWrite(command, key, value) ==
  /\ LocalCall(command, key, value)
  /\ Mutate(Mutation(0, command, key, value))
  /\ call' = [call EXCEPT ![0] = Began(command, key)]

LocalGet(command, key) ==
  /\ LocalCall(command, key, KV_DUMMY)
  /\ \E found \in Found(StoreKey(0, command, key)) :
       call' = [call EXCEPT ![0] = Called(command, key, found, {}, found # NoValue)]
  /\ UNCHANGED storeVars

LocalGetAll ==
  /\ LocalCall(META_GET_ALL, KV_DUMMY, KV_DUMMY)
  /\ \E tuples \in FoundPrefix(MetaPrefix) :
       call' = [call EXCEPT ![0] = Called(META_GET_ALL, KV_DUMMY, <<>>, tuples, TRUE)]
  /\ UNCHANGED storeVars

LocalBarrierBegins ==
  /\ MayCall(0)
  /\ BarrierBegins(0)
  /\ UNCHANGED <<pc, call, asked, executed, channels, serverVars, barriers>>

\* readBarrier does nothing in either store.
LocalBarrier(command) ==
  /\ LocalCall(command, KV_DUMMY, KV_DUMMY)
  /\ IF command = WRITE_BARRIER THEN BarrierReturns(0) ELSE UNCHANGED storeVars
  /\ call' = [call EXCEPT ![0] = Began(command, KV_DUMMY)]

-----------------------------------------------------------------------------
(***************************************************************************)
(* The server thread, _waitForCommand: a round receives one message from   *)
(* every client, in the order of the ranks and waiting for each            *)
(* (_recvToBuffer), and then executes them in the same order.              *)
(***************************************************************************)
\* A plausible bug: the server waits for its own rank to shut down too.
ServerCheckAllRanks ==
  /\ server = "check"
  /\ server' = IF eol = Ranks THEN "done" ELSE "recv"
  /\ next' = 1
  /\ UNCHANGED <<pc, call, asked, executed, channels, buf, eol, storeVars, barriers>>

ServerCheck ==
  /\ server = "check"
  /\ server' = IF eol = Clients THEN "done" ELSE "recv"
  /\ next' = 1
  /\ UNCHANGED <<pc, call, asked, executed, channels, buf, eol, storeVars, barriers>>

ServerRecv ==
  /\ server = "recv"
  /\ toServer[next] # <<>>
  /\ buf' = [buf EXCEPT ![next] = DeSerializeCmd(Head(toServer[next]))]
  /\ toServer' = [toServer EXCEPT ![next] = Tail(@)]
  /\ IF next = Size - 1 THEN server' = "exec" /\ next' = 1
                        ELSE next' = next + 1 /\ UNCHANGED server
  /\ UNCHANGED <<pc, call, asked, executed, toClient, eol, storeVars, barriers>>

\* A plausible bug: recv_i is not put back for the next round.
NextMessageNoWrap ==
  /\ next' = next + 1
  /\ server' = IF next = Size - 1 THEN "check" ELSE server

NextMessage ==
  IF next = Size - 1 THEN server' = "check" /\ UNCHANGED next
                     ELSE next' = next + 1 /\ UNCHANGED server

ServerEol ==
  /\ server = "exec"
  /\ buf[next].command = EOL_COMMAND
  /\ eol' = eol \cup {next}
  /\ NextMessage
  /\ UNCHANGED <<pc, call, asked, executed, channels, buf, storeVars, barriers>>

\* callbackForCollectiveIO on the store; it has no case for READ_BARRIER.
Callback(rank, m) ==
  CASE m.command \in Writes -> Mutate(Mutation(rank, m.command, m.key, m.value))
    [] m.command = WRITE_BARRIER -> BarrierReturns(rank)
    [] OTHER -> UNCHANGED storeVars

\* A plausible bug: metaGetAll without the rank in its prefix.
AnswersForAllRanks(rank, m) ==
  CASE m.command \in {GET, META_GET} -> Found(StoreKey(rank, m.command, m.key))
    [] m.command = META_GET_ALL ->
         {VectorTupleSerialize(tuples) : tuples \in FoundPrefix(MetaPrefix)}
    [] OTHER -> {<<>>}

\* The value that goes back, retValue of _waitForCommand.
Answers(rank, m) ==
  CASE m.command \in {GET, META_GET} -> Found(StoreKey(rank, m.command, m.key))
    [] m.command = META_GET_ALL ->
         {VectorTupleSerialize(tuples) :
            tuples \in FoundPrefix(MetaPrefix \o RankedKey(rank, <<>>))}
    [] OTHER -> {<<>>}

\* A plausible bug: writes are answered too.
RepliesAlways(command) == TRUE

\* The commands _waitForCommand answers.
WantsReply(command) == command \in Requests

ServerBarrierBegins ==
  /\ server = "exec"
  /\ buf[next].command = WRITE_BARRIER
  /\ BarrierBegins(next)
  /\ UNCHANGED <<pc, call, asked, executed, channels, serverVars, barriers>>

ServerExec ==
  /\ server = "exec"
  /\ buf[next].command # EOL_COMMAND
  /\ LET m == buf[next]
     IN  /\ Callback(next, m)
         /\ executed' = [executed EXCEPT ![next] = Append(@, m)]
         /\ \E value \in Answers(next, m) :
              toClient' = IF WantsReply(m.command)
                          THEN [toClient EXCEPT ![next] =
                                  Append(@, SerializeCmd(Back(m.command), m.key, value))]
                          ELSE toClient
  /\ NextMessage
  /\ UNCHANGED <<pc, call, asked, toServer, buf, eol, barriers>>

-----------------------------------------------------------------------------
(***************************************************************************)
(* close().  A client says so and goes to the barrier B99; rank 0 joins    *)
(* the server thread, goes to the barrier, and closes its store last.      *)
(***************************************************************************)
MayClose(r) == pc[r] = "idle" /\ Len(asked[r]) = Quota[r]

CloseRemote(r) ==
  /\ MayClose(r)
  /\ Sent(EOL_COMMAND, r, KV_DUMMY, <<>>)
  /\ pc' = [pc EXCEPT ![r] = "eol"]
  /\ UNCHANGED <<call, asked, executed, toClient, serverVars, storeVars, barriers>>

EolSent(r) ==
  /\ pc[r] = "eol"
  /\ Eager \/ toServer[r] = <<>>
  /\ pc' = [pc EXCEPT ![r] = "b99"]
  /\ atEnd' = atEnd \cup {r}
  /\ UNCHANGED <<call, asked, executed, channels, serverVars, storeVars, atStart>>

PassEnd(r) ==
  /\ pc[r] = "b99"
  /\ atEnd = Ranks
  /\ pc' = [pc EXCEPT ![r] = "closed"]
  /\ UNCHANGED <<call, asked, executed, channels, serverVars, storeVars, barriers>>

CloseLocal ==
  /\ MayClose(0)
  /\ pc' = [pc EXCEPT ![0] = IF ServeLocal THEN "join" ELSE "close"]
  /\ UNCHANGED <<call, asked, executed, channels, serverVars, storeVars, barriers>>

\* A plausible bug: the server thread is not joined.
JoinNobody ==
  /\ pc[0] = "join"
  /\ pc' = [pc EXCEPT ![0] = "b99"]
  /\ atEnd' = atEnd \cup {0}
  /\ UNCHANGED <<call, asked, executed, channels, serverVars, storeVars, atStart>>

JoinServer ==
  /\ pc[0] = "join"
  /\ server = "done"
  /\ pc' = [pc EXCEPT ![0] = "b99"]
  /\ atEnd' = atEnd \cup {0}
  /\ UNCHANGED <<call, asked, executed, channels, serverVars, storeVars, atStart>>

LeaveEnd ==
  /\ pc[0] = "b99"
  /\ atEnd = Ranks
  /\ pc' = [pc EXCEPT ![0] = "close"]
  /\ UNCHANGED <<call, asked, executed, channels, serverVars, storeVars, barriers>>

\* A plausible bug: the active memtable is not written.
CloseStoreWithoutActive ==
  /\ pc[0] = "close"
  /\ db' = Applied(db, flight \o queue)
  /\ flight' = <<>> /\ queue' = <<>> /\ active' = <<>>
  /\ open' = FALSE
  /\ pc' = [pc EXCEPT ![0] = "closed"]
  /\ UNCHANGED <<call, asked, executed, channels, serverVars, draining, barriers>>

\* The store's close joins the flush thread and writes what is left, in order.
CloseStore ==
  /\ pc[0] = "close"
  /\ db' = Applied(db, flight \o queue \o active)
  /\ flight' = <<>> /\ queue' = <<>> /\ active' = <<>>
  /\ open' = FALSE
  /\ pc' = [pc EXCEPT ![0] = "closed"]
  /\ UNCHANGED <<call, asked, executed, channels, serverVars, draining, barriers>>

-----------------------------------------------------------------------------
RemoteCall(r) ==
  \/ \E k \in Keys :
       \/ \E v \in Values, c \in Commands[r] \cap {PUT, META_PUT} : RemoteWrite(r, c, k, v)
       \/ DEL \in Commands[r] /\ RemoteWrite(r, DEL, k, KV_DUMMY)
       \/ \E c \in Commands[r] \cap {GET, META_GET} : RemoteRequest(r, c, k)
  \/ \E c \in Commands[r] \cap {META_GET_ALL, READ_BARRIER, WRITE_BARRIER} :
       RemoteRequest(r, c, KV_DUMMY)

OwnCall ==
  \/ \E k \in Keys :
       \/ \E v \in Values, c \in Commands[0] \cap {PUT, META_PUT} : LocalWrite(c, k, v)
       \/ DEL \in Commands[0] /\ LocalWrite(DEL, k, KV_DUMMY)
  \/ \E k \in Keys, c \in Commands[0] \cap {GET, META_GET} : LocalGet(c, k)
  \/ META_GET_ALL \in Commands[0] /\ LocalGetAll
  \/ WRITE_BARRIER \in Commands[0] /\ LocalBarrierBegins
  \/ \E c \in Commands[0] \cap {READ_BARRIER, WRITE_BARRIER} : LocalBarrier(c)

\* What a rank does by itself once it has its calls to make.
ClientStep(r) ==
  \/ OpenRemote(r) \/ PassStart(r) \/ RemoteCall(r) \/ SendReturns(r) \/ RecvReply(r)
  \/ CloseRemote(r) \/ EolSent(r) \/ PassEnd(r)

OwnerStep ==
  \/ OpenLocal \/ PassStart(0) \/ OwnCall
  \/ CloseLocal \/ JoinServer \/ LeaveEnd \/ CloseStore

ServerStep ==
  ServerCheck \/ ServerRecv \/ ServerEol \/ ServerBarrierBegins \/ ServerExec

\* FlushWorkLoop.
FlushStep ==
  /\ StorePops \/ StoreFlushes
  /\ UNCHANGED <<pc, call, asked, executed, channels, serverVars, barriers>>

Next == OwnerStep \/ ServerStep \/ FlushStep \/ \E r \in Clients : ClientStep(r)

Spec == Init /\ [][Next]_vars

\* The application makes its calls and closes; no thread is kept from running.
FairSpec ==
  /\ Spec
  /\ WF_vars(OwnerStep) /\ WF_vars(ServerStep) /\ WF_vars(FlushStep)
  /\ \A r \in Clients : WF_vars(ClientStep(r))

-----------------------------------------------------------------------------
(***************************************************************************)
(* Properties.                                                             *)
(***************************************************************************)
Message == [command : Texts, key : Texts, value : Texts]
Entry == [key : Texts, value : Texts]

\* Type invariant of the managers, the client objects and the channels.
TypeOK ==
  /\ pc \in [Ranks -> {"init", "b01", "idle", "sending", "reply", "eol", "join", "b99",
                       "close", "closed"}]
  /\ \A r \in Ranks : /\ call[r].command \in Texts /\ call[r].key \in Texts
                      /\ call[r].result \in Texts /\ call[r].ok \in BOOLEAN
  /\ asked \in [Ranks -> Seq(Message)] /\ executed \in [Ranks -> Seq(Message)]
  /\ toServer \in [Clients -> Seq(Texts)] /\ toClient \in [Clients -> Seq(Texts)]
  /\ server \in {"off", "check", "recv", "exec", "done"}
  /\ next \in Nat /\ (ServeLocal => next \in Clients)
  /\ buf \in [Clients -> Message] /\ eol \subseteq Clients
  /\ open \in BOOLEAN /\ db \subseteq Entry
  /\ flight \in Seq(Entry) /\ queue \in Seq(Entry) /\ active \in Seq(Entry)
  /\ draining \subseteq Ranks
  /\ atStart \subseteq Ranks /\ atEnd \subseteq Ranks

\* Whatever the other ranks do, the store executes the calls of a rank once,
\* in the order the rank made them and with the key and value it gave: the
\* messages are cut up right even when a value contains the separator, and a
\* round mixes up nobody's commands (_waitForCommand, deSerializeCmd).
ExecutedInOrder == \A r \in Ranks : IsPrefix(executed[r], asked[r])

\* "RDB first and MPI afterwards" (_init) and "Delete MPI first" (close): as
\* long as the server thread or rank 0 may use the store, it is there.
StoreOpenWhenUsed ==
  server \in {"check", "recv", "exec"} \/ pc[0] \in {"b01", "idle"} => open

\* A message to a rank is the one answer to the call the rank is waiting in:
\* recvCommand never finds the answer to an earlier call.
RepliesAwaited ==
  \A r \in Clients : toClient[r] # <<>> =>
     /\ pc[r] = "reply" /\ Len(toClient[r]) = 1
     /\ DeSerializeCmd(Head(toClient[r])).command = Back(call[r].command)

\* The value of a key after the first n calls of a rank.
Newest(r, meta, key, n) ==
  LET mutations == {i \in 1 .. n : /\ asked[r][i].key = key
                                   /\ asked[r][i].command \in
                                        (IF meta THEN {META_PUT} ELSE {PUT, DEL})}
  IN  IF mutations = {} \/ asked[r][Max(mutations)].command = DEL
      THEN NoValue ELSE asked[r][Max(mutations)].value

\* The latest write barrier among the first n calls of a rank.
LastBarrier(r, n) ==
  Max({0} \cup {i \in 1 .. n : asked[r][i].command = WRITE_BARRIER})

Returned(r, commands) == pc[r] = "idle" /\ call[r].command \in commands

\* How far back a read after the first n calls of a rank may look: LSMIOStoreNative
\* does not see a memtable in flight, so it may miss what is newer than the last
\* write barrier, but never what that barrier covered.
Oldest(r, n) == IF Storage = "RocksDB" THEN n ELSE LastBarrier(r, n)

\* A rank that gets a key sees its own writes and nobody else's: a value the key
\* has had since the rank's last write barrier and, on LSMIOStoreRDB, the last one.
GetSeesOwn ==
  \A r \in Ranks : Returned(r, {GET, META_GET}) =>
     LET n == Len(asked[r]) - 1
         meta == call[r].command = META_GET
     IN  call[r].result \in {Newest(r, meta, call[r].key, i) : i \in Oldest(r, n) .. n}

\* When writeBarrier has returned on a rank, everything that rank wrote is in the
\* store's files, although its puts returned before they were received and other
\* ranks go on filling the memtables.
WriteBarrierCovers ==
  \A r \in Ranks : Returned(r, {WRITE_BARRIER}) =>
     \A k \in Keys :
        /\ Lookup(db, StoreKey(r, GET, k)) = Newest(r, FALSE, k, Len(asked[r]))
        /\ Lookup(db, StoreKey(r, META_GET, k)) = Newest(r, TRUE, k, Len(asked[r]))

\* A remote metaGetAll returns one value for each key this rank has put as metadata,
\* and nothing of another rank, after its way through vectorTupleSerialize,
\* serializeCmd and back.  Each value is one the key has had since the rank's last
\* write barrier; a key put after that barrier may be missing.
MetaGetAllOwn ==
  \A r \in Clients : Returned(r, {META_GET_ALL}) =>
     LET n == Len(asked[r]) - 1
     IN  \E at \in [Keys -> Oldest(r, n) .. n] :
           call[r].tuples =
             {[key |-> MetaPrefix \o RankedKey(r, k), value |-> Newest(r, TRUE, k, at[k])] :
                k \in {j \in Keys : Newest(r, TRUE, j, at[j]) # NoValue}}

\* When rank 0 has closed its store, its files hold every call of every rank, the
\* writes nobody waited for included.
ClosedComplete ==
  pc[0] = "closed" =>
     /\ executed = asked
     /\ \A r \in Ranks, k \in Keys :
          Lookup(db, StoreKey(r, GET, k)) = Newest(r, FALSE, k, Len(asked[r]))

\* Ranks that make equally many calls all get through the shutdown: the server
\* thread ends, its join returns, everybody passes the last barrier, and rank 0
\* comes to the close of its store (which is NativeStore's).
EveryoneLeaves ==
  <>(pc[0] \in {"close", "closed"} /\ \A r \in Clients : pc[r] = "closed")
=============================================================================
