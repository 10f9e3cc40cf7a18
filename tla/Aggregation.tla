----------------------------- MODULE Aggregation -----------------------------
(***************************************************************************)
(* How LSMIOManager::_init divides the ranks of a job into groups: every   *)
(* group has a communicator of its own, and its first rank keeps the store *)
(* of all of them.                                                         *)
(***************************************************************************)
EXTENDS Integers, FiniteSets

CONSTANTS Size,     \* _worldSize
          NodeOf    \* the node a rank runs on

Ranks == 0 .. Size - 1

ASSUME WorldAssumption == Size \in Nat \ {0} /\ DOMAIN NodeOf = Ranks

AggTypes == {"Shared", "Split", "Entire", "EntireSerial"}

\* The engine parameters AggregationType and AggregatorRatio; with any other
\* type Init throws.
MpiAggType(type, ratio) ==
  CASE type \in {"", "twolevelshm"} -> "Shared"
    [] type = "everyonewritesserial" -> "EntireSerial"
    [] type \in {"everyonewrites", "auto"} -> IF ratio = "2" THEN "Split" ELSE "Entire"

IsShared == Size > 1
IsSharedSplit(agg) == IsShared /\ agg \in {"Shared", "Split"}

\* MPI_Comm_split_type and MPI_Comm_split: the ranks of a group keep their order.
Color(agg, r) ==
  CASE agg = "Shared" -> NodeOf[r]
    [] agg = "Split" -> r \div 2
    [] OTHER -> 0

AggComm(agg, r) == {s \in Ranks : Color(agg, s) = Color(agg, r)}
AggSize(agg, r) == Cardinality(AggComm(agg, r))
AggRank(agg, r) == Cardinality({s \in AggComm(agg, r) : s < r})
Aggregator(agg, r) == CHOOSE s \in AggComm(agg, r) : AggRank(agg, s) = 0

\* _dbPath of the aggregating rank: it is only there that a store is opened.
NoDir == -1
DbPath(agg, r) == IF IsSharedSplit(agg) THEN Aggregator(agg, r) ELSE NoDir
Paths(agg) == {DbPath(agg, r) : r \in Ranks}

\* _rankedKey, on the aggregating rank: no rank where it serves nobody else.
NoRank == -1
RankOfKey(agg, r) == IF IsShared /\ AggSize(agg, r) > 1 THEN AggRank(agg, r) ELSE NoRank
=============================================================================
