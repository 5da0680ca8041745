---------------------------- MODULE LatencyTracker ----------------------------
(***************************************************************************)
(* The latency tracker of src/common/latency_tracker.hpp: per stage an     *)
(* array of samples on the heap, the number of samples in it, and the      *)
(* number of durations measured, which the array need not all hold.        *)
(*                                                                         *)
(* The arrays of one tracker are allocated, moved and freed together and   *)
(* are one block of the heap here.  A new array is not initialised: 0      *)
(* stands for what it happens to hold, since no duration of 0 is stored.   *)
(***************************************************************************)
EXTENDS Integers, Sequences, FiniteSets, Functions

CONSTANTS kCap,               \* samples an array holds
          Second, tsc_freq    \* nanoseconds, and clock cycles, in a second

VARIABLES heap,      \* block -> label -> slot -> sample
          trackers,  \* the live trackers: name -> [samples, count, total]
          summary    \* the rows print_summary wrote: label -> row

Labels == {"MdIngress", "BookUpdate", "Strategy", "Risk", "Gateway", "TickToAck"}
NullBlock == 0
Zeros == [l \in Labels |-> 0]

Init == heap = << >> /\ trackers = << >> /\ summary = << >>

\* f, and y for x
With(f, x, y) == [z \in DOMAIN f \cup {x} |-> IF z = x THEN y ELSE f[z]]

Construct(t) ==
  LET b == CHOOSE b \in 1 .. Cardinality(DOMAIN heap) + 1 : b \notin DOMAIN heap
  IN  /\ heap' = With(heap, b, [l \in Labels |-> [i \in 1 .. kCap |-> 0]])
      /\ trackers' = With(trackers, t, [samples |-> b, count |-> Zeros, total |-> Zeros])
      /\ UNCHANGED summary

\* delete[], which does nothing for null
Freed(t) == Restrict(heap, DOMAIN heap \ {trackers[t].samples})

Destroy(t) ==
  /\ heap' = Freed(t)
  /\ trackers' = Restrict(trackers, DOMAIN trackers \ {t})
  /\ UNCHANGED summary

\* mutant: the source keeps its pointers
MovedFromKeepsBlock(t) == [trackers[t] EXCEPT !.count = Zeros, !.total = Zeros]

\* what a move leaves of its source
MovedFrom(t) == [samples |-> NullBlock, count |-> Zeros, total |-> Zeros]

MoveAssign(dst, src) ==
  /\ heap' = Freed(dst)
  /\ trackers' = [trackers EXCEPT ![dst] = trackers[src], ![src] = MovedFrom(src)]
  /\ UNCHANGED summary

\* mutant: a full array is counted on
CountAfterUnbounded(n) == n + 1

CountAfter(n) == IF n < kCap THEN n + 1 ELSE n

\* a tracker with one more duration measured
Counted(r, label) == [r EXCEPT !.count[label] = CountAfter(@), !.total[label] = @ + 1]

\* record(): 0 cycles stand for an end that is not after its start
Record(t, label, cycles) ==
  LET n == trackers[t].count[label]
  IN  /\ IF cycles = 0 THEN UNCHANGED <<heap, trackers>>
         ELSE /\ heap' = IF n < kCap THEN [heap EXCEPT ![trackers[t].samples][label][n + 1] = cycles]
                         ELSE heap
              /\ trackers' = [trackers EXCEPT ![t] = Counted(@, label)]
      /\ UNCHANGED summary

ns(cycles) == (cycles * Second) \div tsc_freq

\* mutant: the samples are printed in the order they came
SortedNot(samples) == samples

\* the arrangement of samples in ascending order
Sorted(samples) ==
  CHOOSE s \in {[i \in DOMAIN samples |-> samples[p[i]]] :
                   p \in Surjection(DOMAIN samples, DOMAIN samples)} :
    \A i, j \in DOMAIN s : i < j => s[i] <= s[j]

\* the samples of a label as std::sort leaves them
SortedSamples(t, label) ==
  Sorted([i \in 1 .. trackers[t].count[label] |-> heap[trackers[t].samples][label][i]])

\* a row of the summary; percentiles in thousandths, truncated to an index
Row(t, label) ==
  LET s == SortedSamples(t, label)
      pct(p) == ns(s[1 + (p * (Len(s) - 1)) \div 1000])
  IN  [count |-> trackers[t].total[label], min |-> ns(s[1]), p50 |-> pct(500), p90 |-> pct(900),
       p99 |-> pct(990), p999 |-> pct(999), max |-> ns(s[Len(s)])]

\* an array, its first elements overwritten
Over(array, elements) ==
  [i \in DOMAIN array |-> IF i \in DOMAIN elements THEN elements[i] ELSE array[i]]

\* print_summary(), const, yet it sorts the arrays in place
PrintSummary(t) ==
  LET measured == {l \in Labels : trackers[t].count[l] # 0 \/ trackers[t].total[l] # 0}
  IN  /\ summary' = [l \in measured |-> Row(t, l)]
      /\ heap' = [heap EXCEPT ![trackers[t].samples] =
                    [l \in Labels |-> Over(@[l], SortedSamples(t, l))]]
      /\ UNCHANGED trackers
=============================================================================
