--------------------------------- MODULE Types ---------------------------------
(***************************************************************************)
(* src/common/types.hpp: what every component shares.  A side of a book is *)
(* a std::map keyed by price; the order its iteration has on each side is  *)
(* here too.                                                               *)
(***************************************************************************)
EXTENDS Integers, Sequences, FiniteSetsExt, Functions

CONSTANT U32   \* the number of uint32_t values (2^32 in the program)

ASSUME U32Assumption == U32 \in Nat /\ U32 > 1

Bid == "Bid"
Ask == "Ask"
Sides == {Bid, Ask}
Opposite(side) == IF side = Bid THEN Ask ELSE Bid

Uint32 == 0 .. (U32 - 1)
INVALID_PRICE == U32 - 1

None == {}   \* std::nullopt; an optional that holds x is the set {x}

\* OrderAction and ExecType
New == "New"
Cancel == "Cancel"
Ack == "Ack"
Fill == "Fill"
Cancelled == "Cancelled"

\* The fixed arrays (StrategyOutput, ExecutionReports, FillResults): a
\* push_back on a full one is dropped without a word.
kMaxReports == 4
PushBack(array, x) == IF Len(array) < kMaxReports THEN Append(array, x) ELSE array

\* price p ranks before price q: the highest bid, the lowest ask
Better(side, p, q) == IF side = Bid THEN p > q ELSE p < q

\* rbegin() of the bids, begin() of the asks
BestOf(side, prices) == IF side = Bid THEN Max(prices) ELSE Min(prices)
=============================================================================
